------------------------------ MODULE AuditChain -------------------------------
(***************************************************************************)
(* AuditLog, verify_chain and create_checkpoint on one audit file, with    *)
(* the keys of a KeyFile: several processes append, rotate the key, verify *)
(* and anchor.                                                             *)
(*                                                                         *)
(* Appending takes the key first and the lock of the audit file after it;  *)
(* verifying takes no lock, and may see a line that is half written, or no *)
(* file at all.  Any step may raise, and a process may die between any     *)
(* two.  Once, someone without the keys may edit the file: what            *)
(* verification is there to find.                                          *)
(*                                                                         *)
(* The hash of a line is its name: different contents have different       *)
(* hashes, and only with its key can the hash of a keyed line be computed. *)
(***************************************************************************)
EXTENDS KeyFile, Integers, Sequences, SequencesExt

CONSTANTS
  MaxLines,   \* bound on the lines appended
  Unkeyed,    \* the key of a line in the format before keying
  MayEdit     \* someone may edit the file

ASSUME ChainAssumption ==
  /\ MaxLines \in Nat
  /\ Unkeyed \notin FreshKeys \cup {None}
  /\ MayEdit \in BOOLEAN

VARIABLES
  lines,     \* the complete lines of the file
  tail,      \* how the file ends, while nobody is writing it
  loglock,   \* who holds the lock of the audit file
  job,       \* what each process is doing
  appended,  \* number of lines appended: names the hashes
  edited,    \* the file was edited (history)
  versions   \* the contents that appending gave the file, as hashes (history)

logVars == <<lines, tail, loglock, job, appended, edited, versions>>
vars == <<keyVars, logVars>>

ZERO == 0
LegacyHash == MaxLines + 1     \* a line written before keying
EditedHash == MaxLines + 2     \* an unkeyed line rewritten, with its new hash
Hashes == ZERO .. EditedHash
Lines == [hash : Hashes, prev : Hashes, key : FreshKeys \cup {Unkeyed}, sound : BOOLEAN]
LegacyLine == [hash |-> LegacyHash, prev |-> ZERO, key |-> Unkeyed, sound |-> TRUE]

(* There is no file; it ends with a newline, if not empty; after that      *)
(* comes a part of a line; or the last line lacks its newline only.        *)
Tails == {"absent", "whole", "part", "bare"}

HashesOf(s) == [i \in DOMAIN s |-> s[i].hash]
HeadHash == IF lines = <<>> THEN ZERO ELSE Last(lines).hash

(* key, since: an append's key, and the keys retired when it was called;   *)
(* prev: the hash its line will link to; read: the hashes of the lines     *)
(* verified so far; keyed: how far the last keyed one is; anchors: verify  *)
(* is the first half of create_checkpoint; head: the other half's answer.  *)
Jobs == [pc : {"idle", "keys", "open", "write", "sync", "verify", "read", "verdict", "anchored"},
         key : FreshKeys \cup {None}, since : SUBSET FreshKeys, prev : Hashes,
         read : Seq(Hashes), keyed : 0 .. MaxLines + 1,
         strict : BOOLEAN, anchors : BOOLEAN, head : Hashes,
         error : {"none", "tail", "missing", "unavailable", "unkeyed", "broken"}]
NoJob == [pc |-> "idle", key |-> None, since |-> {}, prev |-> ZERO, read |-> <<>>, keyed |-> 0,
          strict |-> FALSE, anchors |-> FALSE, error |-> "none", head |-> ZERO]

(* There is no file yet, or one with a line of the format before keying.   *)
Init ==
  /\ KeyInit
  /\ \/ lines = <<>> /\ tail = "absent"
     \/ lines = <<LegacyLine>> /\ tail = "whole"
  /\ loglock = None
  /\ job = [p \in Processes |-> NoJob]
  /\ appended = 0
  /\ edited = FALSE
  /\ versions = {HashesOf(lines)}

-----------------------------------------------------------------------------
(* AuditLog.append.                                                        *)

(* Faulty variant: the key of the last line is used again.                 *)
AppendCallReusing(p) ==
  /\ job[p].pc = "idle" /\ request[p].pc = "idle"
  /\ IF lines = <<>> \/ Last(lines).key = Unkeyed
     THEN /\ Ask(p, "current")
          /\ job' = [job EXCEPT ![p] = [NoJob EXCEPT !.pc = "keys", !.since = retired]]
     ELSE /\ job' = [job EXCEPT ![p] = [NoJob EXCEPT !.pc = "open", !.since = retired, !.key = Last(lines).key]]
          /\ UNCHANGED keyVars
  /\ UNCHANGED <<lines, tail, loglock, appended, edited, versions>>

AppendCall(p) ==
  /\ job[p].pc = "idle"
  /\ Ask(p, "current")
  /\ job' = [job EXCEPT ![p] = [NoJob EXCEPT !.pc = "keys", !.since = retired]]
  /\ UNCHANGED <<lines, tail, loglock, appended, edited, versions>>

(* The key is resolved before the file is touched.                         *)
KeyAnswer(p) ==
  /\ job[p].pc = "keys"
  /\ job' = [job EXCEPT ![p].pc = "open", ![p].key = request[p].doc.current]
  /\ Return(p)
  /\ UNCHANGED <<lines, tail, loglock, appended, edited, versions>>

(* Faulty variant: the last line is read before the lock is taken.         *)
OpenLogUnlocked(p) ==
  /\ job[p].pc = "open" /\ appended < MaxLines /\ tail \in {"absent", "whole"}
  /\ loglock' = loglock
  /\ tail' = "whole"
  /\ job' = [job EXCEPT ![p].pc = "write", ![p].prev = HeadHash]
  /\ UNCHANGED <<keyVars, lines, appended, edited, versions>>

(* The file is made if there is none, locked, and its last line read;      *)
(* after an incomplete line append raises.                                 *)
OpenLog(p) ==
  /\ job[p].pc = "open" /\ appended < MaxLines
  /\ loglock = None
  /\ IF tail \in {"part", "bare"}
     THEN /\ job' = [job EXCEPT ![p] = NoJob]
          /\ UNCHANGED <<tail, loglock>>
     ELSE /\ loglock' = p
          /\ tail' = "whole"
          /\ job' = [job EXCEPT ![p].pc = "write", ![p].prev = HeadHash]
  /\ UNCHANGED <<keyVars, lines, appended, edited, versions>>

WriteLine(p) ==
  /\ job[p].pc = "write"
  /\ appended' = appended + 1
  /\ lines' = Append(lines, [hash |-> appended + 1, prev |-> job[p].prev,
                             key |-> job[p].key, sound |-> TRUE])
  /\ versions' = versions \cup {HashesOf(lines')}
  /\ job' = [job EXCEPT ![p].pc = "sync"]
  /\ UNCHANGED <<keyVars, tail, loglock, edited>>

LogUnlocked(p) == IF loglock = p THEN None ELSE loglock

AppendReturn(p) ==
  /\ job[p].pc = "sync"
  /\ loglock' = LogUnlocked(p)
  /\ job' = [job EXCEPT ![p] = NoJob]
  /\ UNCHANGED <<keyVars, lines, tail, appended, edited, versions>>

-----------------------------------------------------------------------------
(* rotate.                                                                 *)

RotateCall(p) ==
  /\ job[p].pc = "idle"
  /\ Ask(p, "rotate")
  /\ UNCHANGED logVars

RotateReturn(p) ==
  /\ request[p].op = "rotate"
  /\ Return(p)
  /\ UNCHANGED logVars

-----------------------------------------------------------------------------
(* verify_chain, line by line, and create_checkpoint after it.             *)

(* Someone is writing, or has died writing: a reader may see a part of the *)
(* line, or not yet, or first the line and then its newline alone.         *)
MaySeePart == tail = "part" \/ \E p \in Processes : job[p].pc = "write"

(* The file is opened, which fails if there is none.  create_checkpoint    *)
(* does not ask for a chain that is keyed throughout.                      *)
Opened(how) ==
  [NoJob EXCEPT !.pc = IF tail = "absent" THEN "verdict" ELSE "verify",
                !.error = IF tail = "absent" THEN "missing" ELSE "none",
                !.strict = (how = "strict"), !.anchors = (how = "anchor")]

VerifyCall(p) ==
  /\ job[p].pc = "idle" /\ request[p].pc = "idle"
  /\ \E how \in {"plain", "strict", "anchor"} : job' = [job EXCEPT ![p] = Opened(how)]
  /\ UNCHANGED <<keyVars, lines, tail, loglock, appended, edited, versions>>

Previous(j) == IF j.read = <<>> THEN ZERO ELSE Last(j.read)

(* Faulty variant: the link to the line before is not compared.            *)
FaultUnlinked(j, line) ==
  IF (line.key # Unkeyed /\ ~ Resolves(line.key)) \/ ~ line.sound THEN "broken" ELSE "none"

(* What is wrong with a line, in the order verify_chain looks.             *)
Fault(j, line) ==
  CASE line.prev # Previous(j)                  -> "broken"
    [] line.key = Unkeyed /\ j.strict           -> "unkeyed"
    [] line.key = Unkeyed /\ j.keyed > 0        -> "broken"
    [] line.key # Unkeyed /\ ~ Resolves(line.key) -> "broken"
    [] ~ line.sound                             -> "broken"
    [] OTHER                                    -> "none"

VerifyLine(p) ==
  /\ job[p].pc = "verify" /\ Len(job[p].read) < Len(lines)
  /\ LET at == Len(job[p].read) + 1
         line == lines[at]
         fault == Fault(job[p], line)
     IN job' = [job EXCEPT ![p] =
          IF fault # "none" THEN [job[p] EXCEPT !.pc = "verdict", !.error = fault]
          ELSE [job[p] EXCEPT !.read = Append(@, line.hash),
                              !.keyed = IF line.key = Unkeyed THEN @ ELSE at]]
  /\ UNCHANGED <<keyVars, lines, tail, loglock, appended, edited, versions>>

(* Reading the file fails, or the key store is not there: a refusal.       *)
VerifyUnavailable(p) ==
  /\ job[p].pc = "verify"
  /\ job' = [job EXCEPT ![p].pc = "verdict", ![p].error = "unavailable"]
  /\ UNCHANGED <<keyVars, lines, tail, loglock, appended, edited, versions>>

(* The end of the file, or a part of a line, which is not JSON.  A line    *)
(* that lacks its newline only is a line like the others.                  *)
VerifyEnd(p) ==
  /\ job[p].pc = "verify" /\ Len(job[p].read) >= Len(lines)
  /\ \/ /\ tail # "part"
        /\ job' = [job EXCEPT ![p].pc = IF job[p].anchors THEN "read" ELSE "verdict"]
     \/ /\ MaySeePart
        /\ job' = [job EXCEPT ![p].pc = "verdict", ![p].error = "tail"]
  /\ UNCHANGED <<keyVars, lines, tail, loglock, appended, edited, versions>>

(* Faulty variant: the count is off by one as an index.                    *)
ReadHeadOffByOne(p) ==
  /\ job[p].pc = "read" /\ tail # "part"
  /\ job' = [job EXCEPT ![p].pc = "anchored",
       ![p].head = IF Len(job[p].read) < 2 THEN ZERO ELSE lines[Len(job[p].read) - 1].hash]
  /\ UNCHANGED <<keyVars, lines, tail, loglock, appended, edited, versions>>

(* create_checkpoint reads the file again; a partial line makes it raise.  *)
ReadHead(p) ==
  /\ job[p].pc = "read"
  /\ \/ /\ tail # "part"
        /\ job' = [job EXCEPT ![p].pc = "anchored", ![p].head = HeadHash]
     \/ /\ MaySeePart
        /\ job' = [job EXCEPT ![p] = NoJob]
  /\ UNCHANGED <<keyVars, lines, tail, loglock, appended, edited, versions>>

(* The verdict or the checkpoint is returned.                              *)
Answered(p) ==
  /\ job[p].pc \in {"verdict", "anchored"}
  /\ job' = [job EXCEPT ![p] = NoJob]
  /\ UNCHANGED <<keyVars, lines, tail, loglock, appended, edited, versions>>

-----------------------------------------------------------------------------
(* How the file ends when a writer stops at pc.                            *)
LeftBy(pc) == CASE pc = "write" -> {"whole", "part"}
                [] pc = "sync"  -> {"whole", "bare"}
                [] OTHER        -> {tail}

(* A step raises, or the process dies.  The system releases its locks; a   *)
(* write may leave a part of its line, or all of it but the newline.       *)
Fail(p) ==
  /\ job[p].pc # "idle" \/ request[p].pc # "idle"
  /\ IF request[p].pc = "idle" THEN UNCHANGED keyVars ELSE Abandon(p)
  /\ loglock' = LogUnlocked(p)
  /\ tail' \in LeftBy(job[p].pc)
  /\ job' = [job EXCEPT ![p] = NoJob]
  /\ UNCHANGED <<lines, appended, edited, versions>>

(* Someone without the keys removes a line, or rewrites one: the hash of   *)
(* an unkeyed line can be computed anew, that of a keyed one cannot.  The  *)
(* file stays as it is while a verification reads it.                      *)
Edit ==
  /\ MayEdit /\ ~ edited
  /\ \A p \in Processes : job[p].pc \notin {"verify", "read", "verdict"}
  /\ edited' = TRUE
  /\ \E i \in DOMAIN lines :
       \/ /\ lines' = RemoveAt(lines, i)
          /\ tail' = IF i = Len(lines) /\ tail = "bare" THEN "whole" ELSE tail
       \/ /\ UNCHANGED tail
          /\ lines' = [lines EXCEPT ![i] =
            IF @.key = Unkeyed THEN [@ EXCEPT !.hash = EditedHash] ELSE [@ EXCEPT !.sound = FALSE]]
  /\ UNCHANGED <<keyVars, loglock, job, appended, versions>>

KeyStep(p) == (Load(p) \/ Save(p)) /\ UNCHANGED logVars

Next ==
  \/ \E p \in Processes :
       \/ AppendCall(p) \/ KeyAnswer(p) \/ OpenLog(p) \/ WriteLine(p) \/ AppendReturn(p)
       \/ RotateCall(p) \/ RotateReturn(p) \/ KeyStep(p)
       \/ VerifyCall(p) \/ VerifyLine(p) \/ VerifyUnavailable(p) \/ VerifyEnd(p)
       \/ ReadHead(p) \/ Answered(p)
       \/ Fail(p)
  \/ Edit

Spec == Init /\ [][Next]_vars

-----------------------------------------------------------------------------
(* The state is well typed; the one who writes holds the lock, and nobody  *)
(* writes behind an incomplete line.                                       *)
ChainTypeOK ==
  /\ KeyTypeOK
  /\ lines \in Seq(Lines)
  /\ tail \in Tails
  /\ loglock \in Processes \cup {None}
  /\ job \in [Processes -> Jobs]
  /\ \A p \in Processes : job[p].pc \in {"write", "sync"} => loglock = p /\ tail = "whole"
  /\ appended \in 0 .. MaxLines
  /\ edited \in BOOLEAN
  /\ versions \subseteq Seq(Hashes)

(* An honest file verifies: unless someone edited it, every line links to  *)
(* the one before it and its key is in the key file, whatever appends,     *)
(* rotations, failures and deaths come between.                            *)
LinesVerify ==
  ~ edited => \A i \in DOMAIN lines :
    /\ lines[i].prev = IF i = 1 THEN ZERO ELSE lines[i - 1].hash
    /\ lines[i].key = Unkeyed \/ Resolves(lines[i].key)

(* verify_chain is right, although it takes no lock.  A chain that it      *)
(* accepts is, up to its last keyed line, what the file was when that line *)
(* had been appended, the lines before keying included: the keyed line     *)
(* vouches for those before it as its append found them.  (An edit of the  *)
(* end of the file that a later append built on is not found.)  An honest  *)
(* chain is never called broken.  It is refused if it is not there or      *)
(* cannot be read, if the key store cannot be asked, over a line half      *)
(* written, or because it was asked for keyed lines throughout.            *)
VerdictsAreRight ==
  \A p \in Processes : job[p].pc = "verdict" =>
    /\ job[p].error = "none" /\ job[p].keyed > 0 =>
         \E v \in versions : SubSeq(job[p].read, 1, job[p].keyed) = v
    /\ ~ edited => job[p].error \in
         {"none", "tail", "missing", "unavailable"} \cup (IF job[p].strict THEN {"unkeyed"} ELSE {})

(* A checkpoint never signs a count beyond its head: the head is at or     *)
(* after the last line that was verified.  (It is after it when a line     *)
(* was appended between the two reads.)                                    *)
CheckpointsCover ==
  \A p \in Processes : job[p].pc = "anchored" /\ ~ edited =>
    \/ job[p].head = ZERO /\ job[p].read = <<>>
    \/ \E i \in DOMAIN lines : lines[i].hash = job[p].head /\ i >= Len(job[p].read)

(* New records use the new key: an append that was called after a rotation *)
(* had returned does not sign with a key that it retired.  (One that was   *)
(* called before may, since it takes its key before the lock.)             *)
RetiredKeysStayRetired ==
  \A p \in Processes : job[p].pc \in {"open", "write"} => job[p].key \notin job[p].since
=============================================================================
