----------------------------- MODULE MemoryStore ------------------------------
(***************************************************************************)
(* MemoryStore: facts in one file, every write mirrored into the audit     *)
(* chain, and verify_memory, which reconciles the two.                     *)
(*                                                                         *)
(* remember, promote, update and forget read the file, change one item,    *)
(* replace the file and append a record, without a lock around them.  The  *)
(* append may raise with nothing, a torn line or the record on disk; any   *)
(* step may raise, and a process may die between any two.                  *)
(*                                                                         *)
(* A fact stands for fact, source, observed_at and confidence together.    *)
(***************************************************************************)
EXTENDS StateFile, Naturals, Sequences, FiniteSetsExt

CONSTANTS
  Processes,  \* processes with a store on the file
  Ids,        \* the ids uuid4 may draw
  Facts,      \* what can be remembered
  Erased,     \* "[DELETED]"
  MaxCalls    \* bound on the calls made

ASSUME MemoryAssumption == MaxCalls \in Nat /\ Erased \notin Facts

VARIABLES
  disk,       \* the memory file
  log,        \* the memory records of the audit file
  logtorn,    \* its last line is incomplete, so that append and verify fail
  call,       \* the call each process is in
  drawn,      \* the ids drawn so far
  calls,      \* number of calls made
  disturbed,  \* ids of calls that overlapped another or failed (history)
  forgotten   \* ids that a forget has erased, undisturbed (history)

memoryVars == <<disk, log, logtorn, call, drawn, calls, disturbed, forgotten>>

Tiers == {"working", "curated"}
Items == [fact : Facts \cup {Erased}, tier : Tiers, deleted : BOOLEAN]
Documents == UNION {[S -> Items] : S \in SUBSET Ids}
NoItems == [i \in {} |-> <<>>]

ASSUME FilesAssumption == {NoFile, Blank, Mixed} \cap Documents = {}

Ops == {"remember", "promote", "update", "forget"}
Records == [event : Ops, id : Ids, fact : Facts \cup {Erased}, tier : Tiers]

(* item: its fact and tier are the call's arguments, then what it made of  *)
(* the item; doc: the items it will write; alone: no other call has        *)
(* overlapped this one.                                                    *)
Calls == [op : Ops, pc : {"idle", "load", "open", "write", "replace", "log"}, id : Ids \cup {None},
          item : Items, doc : Documents, alone : BOOLEAN]
NoCall == [op |-> "remember", pc |-> "idle", id |-> None,
           item |-> [fact |-> Erased, tier |-> "working", deleted |-> FALSE],
           doc |-> NoItems, alone |-> TRUE]
Busy(p) == call[p].pc # "idle"

(* _load.                                                                  *)
Loaded == IF disk.path = NoFile THEN NoItems ELSE disk.path

(* There is no file yet, or one memory that an earlier call remembered.    *)
MemoryInit ==
  /\ \/ /\ drawn = {}
        /\ disk = FileWith(Processes, NoFile)
        /\ log = <<>>
     \/ \E id \in Ids, fact \in Facts, tier \in Tiers :
          /\ drawn = {id}
          /\ disk = FileWith(Processes, [i \in {id} |-> [fact |-> fact, tier |-> tier, deleted |-> FALSE]])
          /\ log = <<[event |-> "remember", id |-> id, fact |-> fact, tier |-> tier]>>
  /\ logtorn = FALSE
  /\ call = [p \in Processes |-> NoCall]
  /\ calls = 0
  /\ disturbed = {}
  /\ forgotten = {}

-----------------------------------------------------------------------------
Starts(p, op, id, item) ==
  /\ ~ Busy(p) /\ calls < MaxCalls
  /\ calls' = calls + 1
  /\ call' = [q \in Processes |->
       IF q = p THEN [op |-> op, pc |-> "load", id |-> id, item |-> item, doc |-> NoItems,
                      alone |-> \A r \in Processes : ~ Busy(r)]
       ELSE [call[q] EXCEPT !.alone = @ /\ ~ Busy(q)]]
  /\ UNCHANGED <<disk, log, logtorn, disturbed, forgotten>>

(* remember draws an id; the other calls are given one.                    *)
CallRemember(p) ==
  \E id \in Ids \ drawn, fact \in Facts, tier \in Tiers :
    /\ Starts(p, "remember", id, [fact |-> fact, tier |-> tier, deleted |-> FALSE])
    /\ drawn' = drawn \cup {id}

CallChange(p) ==
  \E op \in {"promote", "update", "forget"}, id \in drawn :
    /\ \/ op = "promote" /\ \E tier \in Tiers : Starts(p, op, id, [NoCall.item EXCEPT !.tier = tier])
       \/ op = "update" /\ \E fact \in Facts : Starts(p, op, id, [NoCall.item EXCEPT !.fact = fact])
       \/ op = "forget" /\ Starts(p, op, id, NoCall.item)
    /\ UNCHANGED drawn

(* The end of a call that has changed nothing, or not all it should.       *)
Ended(p, failed) ==
  /\ call' = [call EXCEPT ![p] = NoCall]
  /\ disturbed' = IF failed \/ ~ call[p].alone THEN disturbed \cup {call[p].id} ELSE disturbed

(* What the call makes of the item.                                        *)
Changed(c, old) ==
  CASE c.op = "remember" -> c.item
    [] c.op = "promote"  -> [old EXCEPT !.tier = c.item.tier]
    [] c.op = "update"   -> [old EXCEPT !.fact = c.item.fact]
    [] c.op = "forget"   -> [old EXCEPT !.fact = Erased, !.deleted = TRUE]

(* The id is not there (next raises StopIteration), or update is given a   *)
(* deleted memory.  (Faulty variant: update takes it.)                     *)
RefusedMissing(c, items) == c.op # "remember" /\ c.id \notin DOMAIN items

Refused(c, items) ==
  /\ c.op # "remember"
  /\ c.id \notin DOMAIN items \/ (c.op = "update" /\ items[c.id].deleted)

Load(p) ==
  /\ call[p].pc = "load"
  /\ IF ~ Readable(disk) \/ Refused(call[p], Loaded)
     THEN Ended(p, FALSE)
     ELSE /\ LET c == call[p]
                 new == Changed(c, IF c.op = "remember" THEN c.item ELSE Loaded[c.id])
             IN call' = [call EXCEPT ![p] = [c EXCEPT !.pc = "open", !.item = new,
                  !.doc = [i \in DOMAIN Loaded \cup {c.id} |-> IF i = c.id THEN new ELSE Loaded[i]]]]
          /\ UNCHANGED disturbed
  /\ UNCHANGED <<disk, log, logtorn, drawn, calls, forgotten>>

(* _save, in three steps.                                                  *)
Open(p) ==
  /\ call[p].pc = "open"
  /\ disk' = Opened(disk, p)
  /\ call' = [call EXCEPT ![p].pc = "write"]
  /\ UNCHANGED <<log, logtorn, drawn, calls, disturbed, forgotten>>

Write(p) ==
  /\ call[p].pc = "write"
  /\ disk' \in Written(disk, p, call[p].doc)
  /\ call' = [call EXCEPT ![p].pc = "replace"]
  /\ UNCHANGED <<log, logtorn, drawn, calls, disturbed, forgotten>>

ReplaceFile(p) ==
  /\ call[p].pc = "replace"
  /\ IF CanReplace(disk)
     THEN /\ disk' = Replaced(disk)
          /\ call' = [call EXCEPT ![p].pc = "log"]
          /\ forgotten' = IF call[p].op = "forget" /\ call[p].alone
                          THEN forgotten \cup {call[p].id} ELSE forgotten
          /\ UNCHANGED disturbed
     ELSE /\ Ended(p, TRUE)
          /\ UNCHANGED <<disk, forgotten>>
  /\ UNCHANGED <<log, logtorn, drawn, calls>>

RecordOf(c) == [event |-> c.op, id |-> c.id, fact |-> c.item.fact, tier |-> c.item.tier]

(* AuditLog.append: after a torn line it always raises.                    *)
Log(p) ==
  /\ call[p].pc = "log"
  /\ \/ ~ logtorn /\ log' = Append(log, RecordOf(call[p])) /\ UNCHANGED logtorn /\ Ended(p, FALSE)
     \/ UNCHANGED <<log, logtorn>> /\ Ended(p, TRUE)
     \/ ~ logtorn /\ logtorn' = TRUE /\ UNCHANGED log /\ Ended(p, TRUE)
  /\ UNCHANGED <<disk, drawn, calls, forgotten>>

(* A step raises, or the process dies.                                     *)
Fail(p) ==
  /\ Busy(p)
  /\ Ended(p, call[p].pc = "log")
  /\ disk' \in Abandoned(disk, p)
  /\ UNCHANGED <<log, logtorn, drawn, calls, forgotten>>

MemoryNext ==
  \E p \in Processes :
    \/ CallRemember(p) \/ CallChange(p)
    \/ Load(p) \/ Open(p) \/ Write(p) \/ ReplaceFile(p) \/ Log(p)
    \/ Fail(p)

MemorySpec == MemoryInit /\ [][MemoryNext]_memoryVars

-----------------------------------------------------------------------------
(* verify_memory.                                                          *)

RecordsOf(i, events) == {k \in DOMAIN log : log[k].id = i /\ log[k].event \in events}
Latest(i, events) == log[Max(RecordsOf(i, events))]

(* The chained write of each id, as the later records have changed it.     *)
Writes == [i \in {j \in Ids : RecordsOf(j, {"remember"}) # {}} |->
             [fact |-> Latest(i, {"remember", "update"}).fact,
              tier |-> Latest(i, {"remember", "update", "promote"}).tier]]
Forgets == {i \in Ids : RecordsOf(i, {"forget"}) # {}}

Drifted(item, write) == item.fact # write.fact \/ item.tier # write.tier

(* The ids verify_memory reports: no chained write, drifted from it, a     *)
(* tombstone without a chained forget, or a chained forget without item.   *)
Flagged ==
  IF disk.path = NoFile THEN DOMAIN Writes
  ELSE {i \in DOMAIN Loaded :
          \/ i \notin DOMAIN Writes
          \/ Loaded[i].deleted /\ i \notin Forgets
          \/ ~ Loaded[i].deleted /\ Drifted(Loaded[i], Writes[i])}
       \cup (Forgets \ DOMAIN Loaded)

(* What search can return.                                                 *)
Searchable == {i \in DOMAIN Loaded : ~ Loaded[i].deleted}

-----------------------------------------------------------------------------
(* The state is well typed.                                                *)
MemoryTypeOK ==
  /\ disk \in StateFiles(Processes, Documents)
  /\ log \in Seq(Records)
  /\ logtorn \in BOOLEAN
  /\ call \in [Processes -> Calls]
  /\ drawn \subseteq Ids
  /\ calls \in 0 .. MaxCalls
  /\ disturbed \subseteq drawn
  /\ forgotten \subseteq drawn

(* An honest history reconciles: verify_memory reports an id only while a  *)
(* call on it is between its two writes, or if one overlapped another call *)
(* or failed between them.  Calls that raise or die before the file is     *)
(* replaced, and what they leave behind, are never reported, and only      *)
(* calls that overlap make the file unreadable.                            *)
HonestMemoryReconciles ==
  LET busy == {p \in Processes : Busy(p)}
  IN IF Readable(disk)
     THEN logtorn \/ Flagged \subseteq disturbed \cup {call[p].id : p \in busy}
     ELSE disturbed # {} \/ \E p \in busy : ~ call[p].alone

(* What was forgotten stays forgotten: once a forget that overlapped no    *)
(* other call has replaced the file, no later call, however it fails or    *)
(* overlaps, brings the fact back or takes its tombstone away.             *)
ForgottenStays ==
  Readable(disk) => \A i \in forgotten :
    i \in DOMAIN Loaded \ Searchable /\ Loaded[i].fact = Erased
=============================================================================
