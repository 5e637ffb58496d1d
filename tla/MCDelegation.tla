---------------------------- MODULE MCDelegation ----------------------------
(* Two threads, three actions on two tools, one of them with its token in  *)
(* two spellings, and grants that differ in one part each.                 *)
EXTENDS Delegation, TLC

CONSTANTS t1, t2, fetch, read, url, here, there, visit, stray, look, lower, upper, strays, looks

MCThreads == {t1, t2}
MCActions == {visit, stray, look}
MCTokens == {lower, upper, strays, looks}
MCActionOf == (lower :> visit) @@ (upper :> visit) @@ (strays :> stray) @@ (looks :> look)
MCTools == {fetch, read}
MCKeys == {url}
MCToolOf == (visit :> fetch) @@ (stray :> fetch) @@ (look :> read)
MCArgument == [a \in MCActions |-> url :> CASE a = visit -> here [] a = stray -> there [] OTHER -> None]

Free == [t \in MCTools |-> [k \in MCKeys |-> Unset]]
Bound == [t \in MCTools |-> [k \in MCKeys |-> IF t = fetch THEN here ELSE Unset]]

Open == [tools |-> MCTools, uses |-> None, expires |-> None, must |-> Free]
Whole == [tools |-> {fetch}, uses |-> 1, expires |-> None, must |-> Free]
Brief == [tools |-> {fetch}, uses |-> 1, expires |-> 1, must |-> Bound]

MCGrants == {Open, Whole, Brief}
CallSymmetry == Permutations(MCThreads) \cup Permutations({lower, upper})
=============================================================================
