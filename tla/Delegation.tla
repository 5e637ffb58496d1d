----------------------------- MODULE Delegation -----------------------------
(***************************************************************************)
(* Delegated approvals: Grant, DelegatedAuthority and the GrantLedger.     *)
(*                                                                         *)
(* Threads of a host verify tokens through authorities that were delegated *)
(* and narrowed from one root ApprovalAuthority.  The root's set of used   *)
(* tokens and the authorities are in memory; the ledger is an SQLite file  *)
(* and survives a restart.  The host is one with a fixed root secret, so a *)
(* token outlives the process, and only the ledger remembers its use.      *)
(*                                                                         *)
(* A token is a string, and is valid but for its use; what else the root   *)
(* checks is in AgentExecution.  One approval may be spelled as several    *)
(* tokens; the root's set and the ledger remember the string.              *)
(***************************************************************************)
EXTENDS Integers, FiniteSets

CONSTANTS
  Threads,   \* host threads that verify tokens
  Actions,   \* the actions
  Tokens,    \* the strings that spell an approval, in any case or blanks
  ActionOf,  \* the action a token approves
  Tools,     \* tool names
  Keys,      \* argument names
  ToolOf,    \* the tool of an action
  Argument,  \* arguments.get(key) of an action
  Grants,    \* the grants a host may hand out
  Unset,     \* a constraint that is not there
  None,      \* Python's None
  MaxIds,    \* bound on the authorities made
  MaxUses,   \* a verification starts only below this many that said yes
  MaxTime    \* bound on the clock

Ids == 1 .. MaxIds

GrantType(g) ==
  /\ g.tools \subseteq Tools
  /\ g.uses \in Nat \cup {None}
  /\ g.expires \in Nat \cup {None}
  /\ \A t \in g.tools : DOMAIN g.must[t] = Keys

ASSUME DelegationAssumption ==
  /\ ToolOf \in [Actions -> Tools]
  /\ ActionOf \in [Tokens -> Actions]
  /\ \A a \in Actions : DOMAIN Argument[a] = Keys
  /\ \A g \in Grants : GrantType(g)
  /\ None \notin Nat
  /\ Unset # None
  /\ \A a \in Actions, k \in Keys : Argument[a][k] # Unset
  /\ MaxIds \in Nat
  /\ MaxUses \in Nat
  /\ MaxTime \in Nat

VARIABLES
  now,       \* time.time()
  auths,     \* the authorities: grant, budgets, ledger, ancestors
  made,      \* number of authorities made: names them
  alive,     \* the authorities of the running process
  used,      \* root.used
  quota,     \* the quota table: 0 is no row
  redeemed,  \* the redemptions table
  work,      \* the call of verify each thread is in
  uses       \* the verifications that said yes (history)

vars == <<now, auths, made, alive, used, quota, redeemed, work, uses>>

NoAuth == [grant |-> None, budgets |-> {}, ledger |-> FALSE, line |-> {}]
Auths == [grant : Grants \cup {None}, budgets : SUBSET Ids, ledger : BOOLEAN, line : SUBSET Ids]

Works == [pc : {"idle", "root", "ledger"}, auth : Ids \cup {None}, token : Tokens \cup {None},
          at : 0 .. MaxTime]
NoWork == [pc |-> "idle", auth |-> None, token |-> None, at |-> 0]

-----------------------------------------------------------------------------
(* Grant: constraints.get(tool, {}).get(key), and the constraints there    *)
(* are.                                                                    *)
Get(g, t, k) == IF g.must[t][k] = Unset THEN None ELSE g.must[t][k]
Items(g, t) == {k \in Keys : g.must[t][k] # Unset}

IsSubsetOf(g, p) ==
  /\ g.tools \subseteq p.tools
  /\ p.uses # None => g.uses # None /\ g.uses <= p.uses
  /\ p.expires # None => g.expires # None /\ g.expires <= p.expires
  /\ \A t \in g.tools : \A k \in Items(p, t) : Get(g, t, k) = p.must[t][k]

MoreConstraints(g, p, t) ==
  /\ \A k \in Items(p, t) : g.must[t][k] = p.must[t][k]
  /\ Items(g, t) # Items(p, t)

IsStrictlyNarrowerThan(g, p) ==
  /\ IsSubsetOf(g, p)
  /\ \/ g.tools # p.tools
     \/ g.uses # None /\ g.uses # p.uses
     \/ g.expires # None /\ g.expires # p.expires
     \/ \E t \in g.tools : MoreConstraints(g, p, t)

(* DelegatedAuthority._within_grant.                                       *)
WithinGrant(g, a, moment) ==
  /\ ToolOf[a] \in g.tools
  /\ g.expires # None => moment < g.expires
  /\ \A k \in Items(g, ToolOf[a]) : Argument[a][k] = g.must[ToolOf[a]][k]

Init ==
  /\ now = 0
  /\ auths = [i \in Ids |-> NoAuth]
  /\ made = 0
  /\ alive = {}
  /\ used = {}
  /\ quota = [i \in Ids |-> 0]
  /\ redeemed = {}
  /\ work = [t \in Threads |-> NoWork]
  /\ uses = {}

-----------------------------------------------------------------------------
(* DelegatedAuthority.__init__: a quota needs a ledger.                    *)
Make(g, ledger, budgets, line) ==
  /\ made < MaxIds
  /\ g.uses # None => ledger
  /\ made' = made + 1
  /\ alive' = alive \cup {made + 1}
  /\ auths' = [auths EXCEPT ![made + 1] =
       [grant |-> g, ledger |-> ledger, line |-> line \cup {made + 1},
        budgets |-> budgets \cup IF g.uses # None THEN {made + 1} ELSE {}]]
  /\ UNCHANGED <<now, used, quota, redeemed, work, uses>>

Delegate(g, ledger) == Make(g, ledger, {}, {})

(* Faulty variants: a child has only its own budget; any grant will do.    *)
NarrowOwnBudget(i, g) ==
  /\ i \in alive
  /\ IsStrictlyNarrowerThan(g, auths[i].grant)
  /\ Make(g, auths[i].ledger, {}, auths[i].line)

NarrowTools(i, g) ==
  /\ i \in alive
  /\ g.tools \subseteq auths[i].grant.tools
  /\ Make(g, auths[i].ledger, auths[i].budgets, auths[i].line)

Narrow(i, g) ==
  /\ i \in alive
  /\ IsStrictlyNarrowerThan(g, auths[i].grant)
  /\ Make(g, auths[i].ledger, auths[i].budgets, auths[i].line)

-----------------------------------------------------------------------------
(* DelegatedAuthority.verify.                                              *)

CheckGrant(t, i, token) ==
  /\ work[t].pc = "idle"
  /\ i \in alive
  /\ Cardinality(uses) < MaxUses
  /\ WithinGrant(auths[i].grant, ActionOf[token], now)
  /\ work' = [work EXCEPT ![t] = [pc |-> "root", auth |-> i, token |-> token, at |-> now]]
  /\ UNCHANGED <<now, auths, made, alive, used, quota, redeemed, uses>>

(* verify says yes: counted with the time its grant was checked at.        *)
Use(t) == uses' = uses \cup {[nth |-> Cardinality(uses) + 1, auth |-> work[t].auth,
                              token |-> work[t].token, at |-> work[t].at]}

Leave(t) == work' = [work EXCEPT ![t] = NoWork]

VerifyRoot(t) ==
  /\ work[t].pc = "root"
  /\ used' = used \cup {work[t].token}
  /\ \/ /\ work[t].token \in used
        /\ Leave(t)
        /\ UNCHANGED uses
     \/ /\ work[t].token \notin used
        /\ auths[work[t].auth].budgets = {}
        /\ Leave(t)
        /\ Use(t)
     \/ /\ work[t].token \notin used
        /\ auths[work[t].auth].budgets # {}
        /\ work' = [work EXCEPT ![t].pc = "ledger"]
        /\ UNCHANGED uses
  /\ UNCHANGED <<now, auths, made, alive, quota, redeemed>>

(* A budget without a row has room, whatever its limit.                    *)
HasRoom(i) == quota[i] = 0 \/ quota[i] < auths[i].grant.uses

(* Faulty variant: the digest is not looked up.                            *)
ConsumeUnseen(t) ==
  /\ work[t].pc = "ledger"
  /\ \A i \in auths[work[t].auth].budgets : HasRoom(i)
  /\ quota' = [i \in Ids |-> IF i \in auths[work[t].auth].budgets THEN quota[i] + 1 ELSE quota[i]]
  /\ redeemed' = redeemed \cup {work[t].token}
  /\ Use(t)
  /\ Leave(t)
  /\ UNCHANGED <<now, auths, made, alive, used>>

(* GrantLedger.consume, one immediate transaction.                         *)
Consume(t) ==
  /\ work[t].pc = "ledger"
  /\ work[t].token \notin redeemed
  /\ \A i \in auths[work[t].auth].budgets : HasRoom(i)
  /\ quota' = [i \in Ids |-> IF i \in auths[work[t].auth].budgets THEN quota[i] + 1 ELSE quota[i]]
  /\ redeemed' = redeemed \cup {work[t].token}
  /\ Use(t)
  /\ Leave(t)
  /\ UNCHANGED <<now, auths, made, alive, used>>

(* Faulty variant: a refusal gives back budget that was never taken.       *)
RefuseRefunding(t) ==
  /\ work[t].pc = "ledger"
  /\ quota' = [i \in Ids |-> IF i \in auths[work[t].auth].budgets THEN quota[i] - 1 ELSE quota[i]]
  /\ Leave(t)
  /\ UNCHANGED <<now, auths, made, alive, used, redeemed, uses>>

(* The ledger says no, or the transaction fails: the root token is gone.   *)
Refuse(t) ==
  /\ work[t].pc = "ledger"
  /\ Leave(t)
  /\ UNCHANGED <<now, auths, made, alive, used, quota, redeemed, uses>>

-----------------------------------------------------------------------------
(* The process dies and starts again with the same secret and ledger.      *)
Restart ==
  /\ alive # {}
  /\ alive' = {}
  /\ used' = {}
  /\ work' = [t \in Threads |-> NoWork]
  /\ UNCHANGED <<now, auths, made, quota, redeemed, uses>>

Tick ==
  /\ now < MaxTime
  /\ now' = now + 1
  /\ UNCHANGED <<auths, made, alive, used, quota, redeemed, work, uses>>

Next ==
  \/ \E g \in Grants, ledger \in BOOLEAN : Delegate(g, ledger)
  \/ \E i \in Ids, g \in Grants : Narrow(i, g)
  \/ \E t \in Threads, i \in Ids, token \in Tokens : CheckGrant(t, i, token)
  \/ \E t \in Threads : VerifyRoot(t) \/ Consume(t) \/ Refuse(t)
  \/ Restart
  \/ Tick

Spec == Init /\ [][Next]_vars

-----------------------------------------------------------------------------
(* The state is well typed.                                                *)
TypeOK ==
  /\ now \in 0 .. MaxTime
  /\ auths \in [Ids -> Auths]
  /\ made \in 0 .. MaxIds
  /\ alive \subseteq 1 .. made
  /\ used \subseteq Tokens
  /\ quota \in [Ids -> Nat]
  /\ redeemed \subseteq Tokens
  /\ work \in [Threads -> Works]
  /\ uses \subseteq [nth : Nat, auth : Ids, token : Tokens, at : 0 .. MaxTime]

UsesBelow(i) == {u \in uses : i \in auths[u.auth].line}

(* No budget is overspent, at any level of the tree: all descendants of an *)
(* authority together are granted at most its max_uses, however their      *)
(* verify calls interleave (architecture.md, delegation quotas).           *)
BudgetsHold ==
  \A i \in 1 .. made :
    auths[i].grant.uses # None => Cardinality(UsesBelow(i)) <= auths[i].grant.uses

(* A token string that counts against a budget counts once, also after a   *)
(* restart that has emptied the root's replay set ("ledger redemption      *)
(* digests persist").  An approval in two spellings is two tokens here, as *)
(* it is for the root's set and for the ledger's digest.                   *)
TokensAreRedeemedOnce ==
  \A u, v \in uses :
    /\ u.token = v.token
    /\ auths[u.auth].budgets # {}
    /\ auths[v.auth].budgets # {}
    => u = v

(* Authority only narrows down the tree: what an authority verifies, each  *)
(* of its ancestors would have let through at that moment (the module's    *)
(* docstring).                                                             *)
DelegationOnlyNarrows ==
  \A u \in uses : \A i \in auths[u.auth].line : WithinGrant(auths[i].grant, ActionOf[u.token], u.at)
=============================================================================
