----------------------------- MODULE Stores_proofs -----------------------------
(***************************************************************************)
(* Theorems about the stores that several processes use without a lock of  *)
(* their own, for any number of processes, tasks, calls, items and answers.*)
(***************************************************************************)
EXTENDS Stores, FiniteSetTheorems, SequenceTheorems, WellFoundedInduction, TLAPS

-----------------------------------------------------------------------------
(* TaskStore: the inductive invariant, as a conjunction of named parts.    *)

InCall(w) == task[w].pc # "idle"
OpOf(w) == made[task[w].number].op

(* A worker is in a call of its own, and what it will save is what its     *)
(* call makes of the task.                                                 *)
WorkersAreInCalls ==
  /\ \A w \in Workers : InCall(w) =>
       /\ task[w].id \in Tasks /\ task[w].number \in DOMAIN made
       /\ made[task[w].number].id = task[w].id /\ ~ made[task[w].number].ended
       /\ task[w].pc = "read" => OpOf(w) = "cancel"
       /\ task[w].pc \in {"find", "insert", "commit"} => OpOf(w) = "event"
       /\ task[w].pc \in {"get", "save"} =>
            /\ OpOf(w) # "event" /\ task[w].row.by = task[w].number
            /\ OpOf(w) # "cancel" => task[w].row.data = task[w].number
       /\ task[w].pc = "save" => task[w].row.fits
  /\ \A v, w \in Workers : InCall(v) /\ InCall(w) /\ v # w => task[v].number # task[w].number

(* What had ended when a call began is over.                               *)
BeforeIsOver ==
  \A c \in DOMAIN made : \A b \in made[c].before : b \in DOMAIN made /\ made[b].ended

(* Two calls on a task, one of them a cancel: the other is marked.         *)
CancelsCross ==
  \A v, w \in Workers : /\ InCall(v) /\ InCall(w) /\ v # w
                        /\ task[v].id = task[w].id /\ OpOf(v) = "cancel"
                        => made[task[w].number].crossed

(* Call c has saved its row.                                               *)
Saved(c) ==
  /\ made[c].op # "event"
  /\ \/ made[c].ended
     \/ \E w \in Workers : task[w].pc = "return" /\ task[w].number = c

(* The row of a task is no older than any call that has saved it, and      *)
(* neither is what a cancel has read, unless it crossed that call.         *)
RowsAreRecent ==
  \A c \in DOMAIN made : Saved(c) =>
    LET row == rows[made[c].id]
        older == made[c].before \cup {0}
    IN /\ row.by \notin older
       /\ made[c].op # "cancel" /\ ~ made[c].crossed =>
            /\ row.data \notin older
            /\ \A w \in Workers : /\ task[w].pc \in {"get", "save"}
                                  /\ task[w].id = made[c].id /\ OpOf(w) = "cancel"
                                  => task[w].row.data \notin older

(* Sequences are drawn in the order of the commits, one for each call.     *)
EventsAreNumbered ==
  /\ IsFiniteSet(events)
  /\ \A e \in events : e.sequence <= Cardinality(events) /\ e.number \in DOMAIN made
  /\ \A d, e \in events : d.number = e.number => d = e
  /\ \A w \in Workers :
       /\ task[w].pc \in {"find", "insert", "commit"} =>
            \A e \in events : e.number # task[w].number
       /\ task[w].pc = "commit" => dblock = w /\ task[w].row.data = 1 + Cardinality(events)
  /\ \A t \in Tasks : feed[t].after <= Cardinality(events)

TaskInv ==
  /\ TaskTypeOK
  /\ Len(made) <= MaxMade
  /\ WorkersAreInCalls
  /\ BeforeIsOver
  /\ CancelsCross
  /\ RowsAreRecent
  /\ EventsAreNumbered
  /\ FeedsMissNothing

-----------------------------------------------------------------------------
LEMMA MadeCallsAreSequence ==
  ASSUME TaskInv
  PROVE  /\ Len(made) \in Nat /\ DOMAIN made = 1 .. Len(made)
         /\ made \in [1 .. Len(made) -> MadeCalls]
         /\ DOMAIN made \subseteq Numbers
  BY TaskAssumption, LenProperties DEF TaskInv, TaskTypeOK, Numbers

LEMMA CallType == NoTaskCall \in TaskCalls /\ NoRow \in Rows /\ NoTaskCall.pc = "idle"
  BY DEF NoTaskCall, TaskCalls, NoRow, Rows

(* A call begins: it is the last one, it marks the calls on its task that  *)
(* it crosses if it is a cancel, and it is marked if it crosses one.       *)
Begun(n, w, op, pc, t, row) ==
  /\ n \in Numbers /\ n \notin DOMAIN made
  /\ made' \in Seq(MadeCalls) /\ DOMAIN made' = DOMAIN made \cup {n}
  /\ Len(made') = n /\ n <= MaxMade
  /\ \A c \in DOMAIN made :
       /\ made'[c].op = made[c].op /\ made'[c].id = made[c].id
       /\ made'[c].before = made[c].before /\ made'[c].ended = made[c].ended
       /\ made[c].crossed => made'[c].crossed
       /\ op = "cancel" /\ (\E u \in Workers : task[u].id = t /\ task[u].number = c)
            => made'[c].crossed
  /\ made'[n].op = op /\ made'[n].id = t /\ ~ made'[n].ended
  /\ made'[n].before = {c \in DOMAIN made : made[c].ended}
  /\ (\E u \in Workers : task[u].id = t /\ made[task[u].number].op = "cancel")
       => made'[n].crossed
  /\ task[w].pc = "idle"
  /\ task' \in [Workers -> TaskCalls]
  /\ task'[w] = [pc |-> pc, number |-> n, id |-> t, row |-> [row EXCEPT !.by = n]]
  /\ \A u \in Workers \ {w} : task'[u] = task[u]
  /\ UNCHANGED <<rows, events, dblock, feed>>

LEMMA BeginsFrame ==
  ASSUME TaskInv, NEW w \in Workers, NEW t \in Tasks, NEW row \in Rows,
         NEW op \in {"create", "checkpoint", "cancel", "event"},
         NEW pc \in {"read", "get", "save", "find"},
         Begins(w, op, pc, t, row)
  PROVE  Begun(Len(made) + 1, w, op, pc, t, row)
<1> DEFINE n == Len(made) + 1
           others == {task[v].number : v \in {u \in Workers : task[u].id = t}}
           marked == [c \in DOMAIN made |->
                        IF op = "cancel" /\ c \in others THEN [made[c] EXCEPT !.crossed = TRUE]
                        ELSE made[c]]
           new == [op |-> op, id |-> t, before |-> {c \in DOMAIN made : made[c].ended},
                   crossed |-> \E c \in others : made[c].op = "cancel", ended |-> FALSE]
<1>1. /\ Len(made) \in Nat /\ DOMAIN made = 1 .. Len(made)
      /\ made \in [1 .. Len(made) -> MadeCalls] /\ DOMAIN made \subseteq Numbers
  BY MadeCallsAreSequence
<1>2. /\ task[w].pc = "idle" /\ n <= MaxMade
      /\ task' = [task EXCEPT ![w] = [pc |-> pc, number |-> n, id |-> t,
                                      row |-> [row EXCEPT !.by = n]]]
      /\ made' = Append(marked, new)
      /\ UNCHANGED <<rows, events, dblock, feed>>
  BY DEF Begins, eventVars
<1>3. n \in Numbers /\ n \notin DOMAIN made
  BY <1>1, <1>2, TaskAssumption DEF Numbers
<1>4. new \in MadeCalls
  BY <1>1 DEF MadeCalls
<1>5. marked \in [1 .. Len(made) -> MadeCalls]
  BY <1>1 DEF MadeCalls
<1>6. marked \in Seq(MadeCalls)
  BY <1>1, <1>5, SeqDef
<1>7. Len(marked) = Len(made)
  BY <1>1, <1>5, <1>6, LenProperties
<1>8. \A c \in DOMAIN made :
        /\ marked[c].op = made[c].op /\ marked[c].id = made[c].id
        /\ marked[c].before = made[c].before /\ marked[c].ended = made[c].ended
        /\ made[c].crossed => marked[c].crossed
        /\ op = "cancel" /\ c \in others => marked[c].crossed
  BY <1>1 DEF MadeCalls
<1>9. /\ new.op = op /\ new.id = t /\ ~ new.ended
      /\ new.before = {c \in DOMAIN made : made[c].ended}
      /\ new.crossed = (\E c \in others : made[c].op = "cancel")
  OBVIOUS
<1>10. \A u \in Workers : task[u].id = t => task[u].number \in others
  OBVIOUS
<1> HIDE DEF marked, new, others
<1>11. /\ made' \in Seq(MadeCalls) /\ Len(made') = n
       /\ \A c \in 1 .. Len(made) : made'[c] = marked[c]
       /\ made'[n] = new
  BY <1>1, <1>2, <1>4, <1>6, <1>7, AppendProperties
<1>12. DOMAIN made' = DOMAIN made \cup {n}
  <2>1. DOMAIN made' = 1 .. n
    BY <1>11, LenProperties
  <2> QED
    BY <1>1, <2>1
<1>13. /\ task' \in [Workers -> TaskCalls]
       /\ task'[w] = [pc |-> pc, number |-> n, id |-> t, row |-> [row EXCEPT !.by = n]]
       /\ \A u \in Workers \ {w} : task'[u] = task[u]
  <2>1. [row EXCEPT !.by = n] \in Rows
    BY <1>3 DEF Rows
  <2>2. [pc |-> pc, number |-> n, id |-> t, row |-> [row EXCEPT !.by = n]] \in TaskCalls
    BY <1>3, <2>1 DEF TaskCalls
  <2> QED
    BY <1>2, <2>2 DEF TaskInv, TaskTypeOK
<1>14. \A c \in DOMAIN made :
         /\ made'[c].op = made[c].op /\ made'[c].id = made[c].id
         /\ made'[c].before = made[c].before /\ made'[c].ended = made[c].ended
         /\ made[c].crossed => made'[c].crossed
         /\ op = "cancel" /\ (\E u \in Workers : task[u].id = t /\ task[u].number = c)
              => made'[c].crossed
  BY <1>1, <1>8, <1>10, <1>11
<1>15. /\ made'[n].op = op /\ made'[n].id = t /\ ~ made'[n].ended
       /\ made'[n].before = {c \in DOMAIN made : made[c].ended}
       /\ (\E u \in Workers : task[u].id = t /\ made[task[u].number].op = "cancel")
            => made'[n].crossed
  BY <1>9, <1>10, <1>11
<1> QED
  BY <1>2, <1>3, <1>11, <1>12, <1>13, <1>14, <1>15 DEF Begun

(* What a call of each kind begins with.                                   *)
Fitting(op, pc, row) ==
  \/ op = "cancel" /\ pc = "read"
  \/ op = "event" /\ pc = "find"
  \/ /\ op \in {"create", "checkpoint"} /\ pc \in {"get", "save"}
     /\ row.data = Len(made) + 1 /\ (pc = "save" => row.fits)

LEMMA CallsBegin ==
  ASSUME TaskInv, NEW w \in Workers,
         CallCreate(w) \/ CallCheckpoint(w) \/ CallCancel(w) \/ CallEvent(w)
  PROVE  \E op \in {"create", "checkpoint", "cancel", "event"},
            pc \in {"read", "get", "save", "find"}, t \in Tasks, row \in Rows :
           Begins(w, op, pc, t, row) /\ Fitting(op, pc, row)
<1>0. Len(made) \in Nat
  BY MadeCallsAreSequence
<1>1. CASE CallCancel(w) \/ CallEvent(w)
  BY <1>1, CallType DEF CallCancel, CallEvent, Fitting
<1>2. CASE CallCreate(w)
  <2>1. PICK t \in Tasks :
          Begins(w, "create", "save", t, [NoRow EXCEPT !.status = "pending", !.data = Len(made) + 1])
    BY <1>2 DEF CallCreate
  <2>2. Len(made) + 1 \in Numbers
    BY <1>0, <2>1 DEF Begins, Numbers
  <2>3. [NoRow EXCEPT !.status = "pending", !.data = Len(made) + 1] \in Rows
    BY <2>2 DEF NoRow, Rows
  <2>4. Fitting("create", "save", [NoRow EXCEPT !.status = "pending", !.data = Len(made) + 1])
    BY DEF Fitting, NoRow
  <2> QED
    BY <2>1, <2>3, <2>4
<1>3. CASE CallCheckpoint(w)
  <2>1. PICK t \in Tasks, fits \in BOOLEAN :
          Begins(w, "checkpoint", "get", t,
                 [NoRow EXCEPT !.status = "running", !.data = Len(made) + 1, !.fits = fits])
    BY <1>3 DEF CallCheckpoint
  <2>2. Len(made) + 1 \in Numbers
    BY <1>0, <2>1 DEF Begins, Numbers
  <2>3. [NoRow EXCEPT !.status = "running", !.data = Len(made) + 1, !.fits = fits] \in Rows
    BY <2>2 DEF NoRow, Rows
  <2>4. Fitting("checkpoint", "get",
                [NoRow EXCEPT !.status = "running", !.data = Len(made) + 1, !.fits = fits])
    BY DEF Fitting, NoRow
  <2> QED
    BY <2>1, <2>3, <2>4
<1> QED
  BY <1>1, <1>2, <1>3

LEMMA BeginStep ==
  ASSUME TaskInv, NEW w \in Workers,
         CallCreate(w) \/ CallCheckpoint(w) \/ CallCancel(w) \/ CallEvent(w)
  PROVE  TaskInv'
<1>1. PICK op \in {"create", "checkpoint", "cancel", "event"},
           pc \in {"read", "get", "save", "find"}, t \in Tasks, row \in Rows :
        Begins(w, op, pc, t, row) /\ Fitting(op, pc, row)
  BY CallsBegin
<1> USE DEF TaskInv
<1> DEFINE n == Len(made) + 1
<1>0. Begun(n, w, op, pc, t, row)
  BY <1>1, BeginsFrame
<1>2. /\ n \in Numbers /\ n \notin DOMAIN made
      /\ made' \in Seq(MadeCalls) /\ DOMAIN made' = DOMAIN made \cup {n}
      /\ Len(made') = n /\ n <= MaxMade
      /\ task[w].pc = "idle" /\ task' \in [Workers -> TaskCalls]
      /\ \A u \in Workers \ {w} : task'[u] = task[u]
      /\ UNCHANGED <<rows, events, dblock, feed>>
  BY <1>0 DEF Begun
<1>3. \A c \in DOMAIN made :
        /\ made'[c].op = made[c].op /\ made'[c].id = made[c].id
        /\ made'[c].before = made[c].before /\ made'[c].ended = made[c].ended
        /\ made[c].crossed => made'[c].crossed
        /\ op = "cancel" /\ (\E u \in Workers : task[u].id = t /\ task[u].number = c)
             => made'[c].crossed
  BY <1>0 DEF Begun
<1>4. /\ made'[n].op = op /\ made'[n].id = t /\ ~ made'[n].ended
      /\ made'[n].before = {c \in DOMAIN made : made[c].ended}
      /\ (\E u \in Workers : task[u].id = t /\ made[task[u].number].op = "cancel")
           => made'[n].crossed
  BY <1>0 DEF Begun
<1>5. /\ task'[w].pc = pc /\ task'[w].number = n /\ task'[w].id = t
      /\ task'[w].row.by = n
      /\ task'[w].row.data = row.data /\ task'[w].row.fits = row.fits
  <2>1. task'[w] = [pc |-> pc, number |-> n, id |-> t, row |-> [row EXCEPT !.by = n]]
    BY <1>0 DEF Begun
  <2> QED
    BY <2>1 DEF Rows
<1>6. \A u \in Workers \ {w} : InCall(u) =>
        /\ task[u].number \in DOMAIN made /\ made[task[u].number].id = task[u].id
        /\ OpOf(u)' = OpOf(u)
  BY <1>2, <1>3 DEF WorkersAreInCalls, OpOf
<1>7. \A c : Saved(c)' /\ c \in DOMAIN made' => c \in DOMAIN made /\ Saved(c)
  <2> SUFFICES ASSUME NEW c \in DOMAIN made', Saved(c)'
               PROVE  c \in DOMAIN made /\ Saved(c)
    OBVIOUS
  <2>1. CASE made'[c].ended
    BY <1>2, <1>3, <1>4, <2>1 DEF Saved
  <2>2. CASE ~ made'[c].ended
    <3>1. PICK u \in Workers : task'[u].pc = "return" /\ task'[u].number = c
      BY <2>2 DEF Saved
    <3>2. u # w
      BY <1>5, <3>1
    <3>3. task[u].pc = "return" /\ task[u].number = c
      BY <1>2, <3>1, <3>2
    <3>4. c \in DOMAIN made
      BY <3>3 DEF WorkersAreInCalls, InCall
    <3> QED
      BY <1>3, <3>3, <3>4 DEF Saved
  <2> QED
    BY <2>1, <2>2
<1> HIDE DEF n
<1>8. TaskTypeOK' /\ Len(made') <= MaxMade
  BY <1>2 DEF TaskTypeOK
<1>9. WorkersAreInCalls'
  <2>1. \A u \in Workers : InCall(u)' /\ u # w => InCall(u)
    BY <1>2 DEF InCall
  <2>2. ASSUME NEW u \in Workers, InCall(u)'
        PROVE  /\ task'[u].id \in Tasks /\ task'[u].number \in DOMAIN made'
               /\ made'[task'[u].number].id = task'[u].id /\ ~ made'[task'[u].number].ended
               /\ task'[u].pc = "read" => OpOf(u)' = "cancel"
               /\ task'[u].pc \in {"find", "insert", "commit"} => OpOf(u)' = "event"
               /\ task'[u].pc \in {"get", "save"} =>
                    /\ OpOf(u)' # "event" /\ task'[u].row.by = task'[u].number
                    /\ OpOf(u)' # "cancel" => task'[u].row.data = task'[u].number
               /\ task'[u].pc = "save" => task'[u].row.fits
    <3>1. CASE u = w
      BY <1>1, <1>2, <1>4, <1>5, <3>1 DEF Fitting, OpOf, n
    <3>2. CASE u # w
      BY <1>2, <1>3, <1>6, <2>1, <2>2, <3>2 DEF WorkersAreInCalls
    <3> QED
      BY <3>1, <3>2
  <2>3. ASSUME NEW u \in Workers, NEW v \in Workers, InCall(u)', InCall(v)', u # v
        PROVE  task'[u].number # task'[v].number
    BY <1>2, <1>5, <1>6, <2>1, <2>3 DEF WorkersAreInCalls
  <2> QED
    BY <2>2, <2>3 DEF WorkersAreInCalls
<1>10. BeforeIsOver'
  BY <1>2, <1>3, <1>4 DEF BeforeIsOver
<1>11. CancelsCross'
  <2> SUFFICES ASSUME NEW u \in Workers, NEW v \in Workers, InCall(u)', InCall(v)', u # v,
                      task'[u].id = task'[v].id, OpOf(u)' = "cancel"
               PROVE  made'[task'[v].number].crossed
    BY DEF CancelsCross
  <2>1. CASE u = w
    <3>1. InCall(v) /\ task'[v] = task[v] /\ task[v].id = t /\ op = "cancel"
      BY <1>2, <1>4, <1>5, <2>1 DEF InCall, OpOf
    <3> QED
      BY <1>3, <1>6, <2>1, <3>1
  <2>2. CASE v = w
    <3>1. InCall(u) /\ task'[u] = task[u] /\ task[u].id = t
      BY <1>2, <1>5, <2>2 DEF InCall
    <3>2. made[task[u].number].op = "cancel"
      BY <1>6, <2>2, <3>1 DEF OpOf
    <3> QED
      BY <1>4, <1>5, <2>2, <3>1, <3>2
  <2>3. CASE u # w /\ v # w
    <3>1. InCall(u) /\ InCall(v) /\ task'[u] = task[u] /\ task'[v] = task[v]
      BY <1>2, <2>3 DEF InCall
    <3>2. made[task[v].number].crossed
      BY <1>6, <2>3, <3>1 DEF CancelsCross
    <3> QED
      BY <1>3, <1>6, <2>3, <3>1, <3>2
  <2> QED
    BY <2>1, <2>2, <2>3
<1>12. RowsAreRecent'
  <2> SUFFICES ASSUME NEW c \in DOMAIN made', Saved(c)'
               PROVE  LET r == rows'[made'[c].id]
                          older == made'[c].before \cup {0}
                      IN /\ r.by \notin older
                         /\ made'[c].op # "cancel" /\ ~ made'[c].crossed =>
                              /\ r.data \notin older
                              /\ \A u \in Workers : /\ task'[u].pc \in {"get", "save"}
                                                    /\ task'[u].id = made'[c].id /\ OpOf(u)' = "cancel"
                                                    => task'[u].row.data \notin older
    BY DEF RowsAreRecent
  <2>1. c \in DOMAIN made /\ Saved(c)
    BY <1>7
  <2>2. task'[w].pc \in {"get", "save"} => OpOf(w)' # "cancel"
    BY <1>1, <1>4, <1>5 DEF Fitting, OpOf
  <2>3. \A u \in Workers : task'[u].pc \in {"get", "save"} /\ OpOf(u)' = "cancel" =>
          u # w /\ task'[u] = task[u] /\ OpOf(u) = "cancel"
    BY <1>2, <1>6, <2>2 DEF InCall
  <2> QED
    BY <1>2, <1>3, <2>1, <2>3 DEF RowsAreRecent
<1>13. EventsAreNumbered'
  <2>1. \A e \in events : e.number # n
    BY <1>2 DEF EventsAreNumbered
  <2> QED
    BY <1>1, <1>2, <1>5, <2>1 DEF EventsAreNumbered, Fitting
<1>14. FeedsMissNothing'
  BY <1>2 DEF FeedsMissNothing
<1> QED
  BY <1>8, <1>9, <1>10, <1>11, <1>12, <1>13, <1>14

(* A call is given up: whatever it held was its own.                       *)
LEMMA DropStep ==
  ASSUME TaskInv, NEW w \in Workers, task' = [task EXCEPT ![w] = NoTaskCall],
         dblock' \in {dblock, DbUnlocked(w)}, task[w].pc = "commit" => dblock' = DbUnlocked(w),
         UNCHANGED <<rows, made, events, feed>>
  PROVE  TaskInv'
<1> USE DEF TaskInv
<1>1. /\ task' \in [Workers -> TaskCalls] /\ task'[w].pc = "idle"
      /\ \A u \in Workers \ {w} : task'[u] = task[u]
  BY CallType DEF TaskTypeOK
<1>2. \A u \in Workers : InCall(u)' => u # w /\ InCall(u) /\ task'[u] = task[u]
  BY <1>1 DEF InCall
<1>3. \A u \in Workers : task'[u].pc # "idle" => u # w /\ InCall(u) /\ task'[u] = task[u]
  BY <1>1 DEF InCall
<1>4. \A c : Saved(c)' => Saved(c)
  BY <1>3 DEF Saved
<1>5. TaskTypeOK' /\ Len(made') <= MaxMade
  BY <1>1 DEF TaskTypeOK, DbUnlocked
<1>6. WorkersAreInCalls'
  BY <1>2 DEF WorkersAreInCalls, OpOf
<1>7. BeforeIsOver' /\ CancelsCross'
  BY <1>2 DEF BeforeIsOver, CancelsCross, OpOf
<1>8. RowsAreRecent'
  BY <1>3, <1>4 DEF RowsAreRecent, OpOf
<1>9. EventsAreNumbered'
  <2>1. \A u \in Workers : task'[u].pc = "commit" => dblock' = dblock
    BY <1>3 DEF EventsAreNumbered, DbUnlocked
  <2> QED
    BY <1>3, <2>1 DEF EventsAreNumbered
<1>10. FeedsMissNothing'
  BY DEF FeedsMissNothing
<1> QED
  BY <1>5, <1>6, <1>7, <1>8, <1>9, <1>10

(* A call goes on without touching the tables.                             *)
Moves(w) ==
  /\ task'[w].number = task[w].number /\ task'[w].id = task[w].id
  /\ task' \in [Workers -> TaskCalls]
  /\ \A u \in Workers \ {w} : task'[u] = task[u]
  /\ UNCHANGED <<rows, made, events, feed>>

LEMMA MoveStep ==
  ASSUME TaskInv, NEW w \in Workers, Moves(w), InCall(w),
         \/ /\ task[w].pc = "read" /\ task'[w].pc = "get" /\ dblock' = dblock
            /\ task'[w].row.by = task[w].number
            /\ task'[w].row.data = rows[task[w].id].data
         \/ /\ task[w].pc = "get" /\ task'[w].pc = "save" /\ dblock' = dblock
            /\ task'[w].row = task[w].row /\ task[w].row.fits
         \/ task[w].pc = "find" /\ task'[w].pc = "insert" /\ dblock' = dblock
         \/ /\ task[w].pc = "insert" /\ task'[w].pc = "commit" /\ dblock = Nobody /\ dblock' = w
            /\ task'[w].row.data = 1 + Cardinality(events)
  PROVE  TaskInv'
<1> USE DEF TaskInv
<1>1. \A u \in Workers : /\ InCall(u)' => InCall(u)
                         /\ task'[u].number = task[u].number /\ task'[u].id = task[u].id
                         /\ OpOf(u)' = OpOf(u)
  BY DEF Moves, InCall, OpOf
<1>2. \A u \in Workers \ {w} : task'[u] = task[u]
  BY DEF Moves
<1>3. \A c : Saved(c)' => Saved(c)
  BY <1>2 DEF Saved, Moves
<1>4. TaskTypeOK' /\ Len(made') <= MaxMade
  BY DEF TaskTypeOK, Moves
<1>5. WorkersAreInCalls'
  <2>1. ASSUME NEW u \in Workers, InCall(u)'
        PROVE  /\ task'[u].id \in Tasks /\ task'[u].number \in DOMAIN made
               /\ made[task'[u].number].id = task'[u].id /\ ~ made[task'[u].number].ended
               /\ task'[u].pc = "read" => OpOf(u)' = "cancel"
               /\ task'[u].pc \in {"find", "insert", "commit"} => OpOf(u)' = "event"
               /\ task'[u].pc \in {"get", "save"} =>
                    /\ OpOf(u)' # "event" /\ task'[u].row.by = task'[u].number
                    /\ OpOf(u)' # "cancel" => task'[u].row.data = task'[u].number
               /\ task'[u].pc = "save" => task'[u].row.fits
    <3>1. CASE u = w
      BY <1>1, <2>1, <3>1 DEF WorkersAreInCalls
    <3>2. CASE u # w
      BY <1>1, <1>2, <2>1, <3>2 DEF WorkersAreInCalls
    <3> QED
      BY <3>1, <3>2
  <2> QED
    BY <1>1, <2>1 DEF WorkersAreInCalls, Moves
<1>6. BeforeIsOver' /\ CancelsCross'
  BY <1>1 DEF BeforeIsOver, CancelsCross, Moves
<1>7. RowsAreRecent'
  <2> SUFFICES ASSUME NEW c \in DOMAIN made, Saved(c)
               PROVE  LET r == rows[made[c].id]
                          older == made[c].before \cup {0}
                      IN /\ r.by \notin older
                         /\ made[c].op # "cancel" /\ ~ made[c].crossed =>
                              /\ r.data \notin older
                              /\ \A u \in Workers : /\ task'[u].pc \in {"get", "save"}
                                                    /\ task'[u].id = made[c].id /\ OpOf(u)' = "cancel"
                                                    => task'[u].row.data \notin older
    BY <1>3 DEF RowsAreRecent, Moves
  <2>1. \A u \in Workers \ {w} : task'[u] = task[u] /\ OpOf(u)' = OpOf(u)
    BY <1>1, <1>2
  <2>2. task'[w].pc \in {"get", "save"} =>
          \/ task'[w].row.data = rows[task[w].id].data
          \/ task[w].pc = "get" /\ task'[w].row = task[w].row
    OBVIOUS
  <2>3. task'[w].id = task[w].id /\ OpOf(w)' = OpOf(w)
    BY <1>1
  <2> QED
    BY <2>1, <2>2, <2>3 DEF RowsAreRecent
<1>8. EventsAreNumbered'
  <2>1. \A u \in Workers : task'[u].pc \in {"find", "insert", "commit"} =>
          task[u].pc \in {"find", "insert", "commit"}
    BY <1>2
  <2>2. \A u \in Workers : task'[u].pc = "commit" =>
          dblock' = u /\ task'[u].row.data = 1 + Cardinality(events)
    <3>1. \A u \in Workers : task[u].pc = "commit" => dblock = u /\ u # Nobody
      BY TaskAssumption DEF EventsAreNumbered
    <3> QED
      BY <1>2, <3>1 DEF EventsAreNumbered
  <2> QED
    BY <1>1, <2>1, <2>2 DEF EventsAreNumbered, Moves
<1>9. FeedsMissNothing'
  BY DEF FeedsMissNothing, Moves
<1> QED
  BY <1>4, <1>5, <1>6, <1>7, <1>8, <1>9

(* An event call and its transaction leave room for one more event.        *)
LEMMA SequencesFit ==
  ASSUME TaskInv, NEW w \in Workers, task[w].pc \in {"insert", "commit"}
  PROVE  Cardinality(events) \in Nat /\ 1 + Cardinality(events) \in Numbers
<1> USE DEF TaskInv
<1> DEFINE others == 1 .. Len(made) \ {task[w].number}
           numbers == [e \in events |-> e.number]
<1>1. Len(made) \in Nat /\ DOMAIN made = 1 .. Len(made)
  BY MadeCallsAreSequence
<1>2. task[w].number \in 1 .. Len(made)
  BY <1>1 DEF WorkersAreInCalls, InCall
<1>3. IsFiniteSet(others) /\ Cardinality(others) = Len(made) - 1
  <2>1. IsFiniteSet(1 .. Len(made)) /\ Cardinality(1 .. Len(made)) = Len(made)
    <3>1. /\ IsFiniteSet(1 .. Len(made))
          /\ Cardinality(1 .. Len(made)) = IF 1 > Len(made) THEN 0 ELSE Len(made) - 1 + 1
      <4>1. 1 \in Int /\ Len(made) \in Int
        BY <1>1
      <4> QED
        BY <4>1, FS_Interval, Zenon
    <3> QED
      BY <1>1, <3>1
  <2> QED
    BY <1>2, <2>1, FS_RemoveElement
<1>4. numbers \in [events -> others]
  BY <1>1 DEF EventsAreNumbered
<1>5. \A d, e \in events : d # e => numbers[d] # numbers[e]
  BY DEF EventsAreNumbered
<1>6. Cardinality(events) \in Nat
  BY FS_CardinalityType DEF EventsAreNumbered
<1>7. ~ (Cardinality(others) < Cardinality(events))
  <2> HIDE DEF others, numbers
  <2> QED
    BY <1>3, <1>4, <1>5, FS_PigeonHole DEF EventsAreNumbered
<1> HIDE DEF others
<1> QED
  BY <1>1, <1>3, <1>6, <1>7, TaskAssumption DEF Numbers

LEMMA ReadStep ==
  ASSUME TaskInv, NEW w \in Workers, ReadCancel(w)
  PROVE  TaskInv'
<1> DEFINE read == [rows[task[w].id] EXCEPT !.status = "canceled", !.by = task[w].number]
<1> USE DEF TaskInv
<1>1. task[w].id \in Tasks /\ task[w].number \in Numbers
  BY MadeCallsAreSequence DEF ReadCancel, WorkersAreInCalls, InCall
<1>2. read \in Rows /\ read.by = task[w].number /\ read.data = rows[task[w].id].data
  <2>1. rows[task[w].id] \in Rows
    BY <1>1 DEF TaskTypeOK
  <2> QED
    BY <1>1, <2>1 DEF Rows
<1>3. /\ task' = [task EXCEPT ![w] = [task[w] EXCEPT !.pc = "get", !.row = read]]
      /\ task[w].pc = "read" /\ UNCHANGED <<rows, made, events, dblock, feed>>
  BY DEF ReadCancel, TaskTypeOK, eventVars
<1> HIDE DEF read
<1>4. [task[w] EXCEPT !.pc = "get", !.row = read] \in TaskCalls
  BY <1>2 DEF TaskTypeOK, TaskCalls
<1>5. /\ task'[w].pc = "get" /\ task'[w].row = read
      /\ task'[w].number = task[w].number /\ task'[w].id = task[w].id
      /\ task' \in [Workers -> TaskCalls] /\ \A u \in Workers \ {w} : task'[u] = task[u]
  BY <1>3, <1>4 DEF TaskTypeOK, TaskCalls
<1> QED
  BY <1>2, <1>3, <1>5, MoveStep DEF Moves, InCall

LEMMA GetStep ==
  ASSUME TaskInv, NEW w \in Workers, Get(w)
  PROVE  TaskInv'
<1> USE DEF TaskInv
<1>1. task[w].pc = "get" /\ UNCHANGED <<rows, made, events, dblock, feed>>
  BY DEF Get, eventVars
<1>2. CASE task[w].row.fits
  <2>1. task' = [task EXCEPT ![w] = [task[w] EXCEPT !.pc = "save"]]
    BY <1>2 DEF Get, TaskTypeOK
  <2>2. /\ task'[w].pc = "save" /\ task'[w].row = task[w].row
        /\ task'[w].number = task[w].number /\ task'[w].id = task[w].id
        /\ task' \in [Workers -> TaskCalls] /\ \A u \in Workers \ {w} : task'[u] = task[u]
    BY <2>1 DEF TaskTypeOK, TaskCalls
  <2> QED
    BY <1>1, <1>2, <2>2, MoveStep DEF Moves, InCall
<1>3. CASE ~ task[w].row.fits
  <2>1. task' = [task EXCEPT ![w] = NoTaskCall]
    BY <1>3 DEF Get
  <2> QED
    BY <1>1, <2>1, DropStep
<1> QED
  BY <1>2, <1>3

LEMMA FindStep ==
  ASSUME TaskInv, NEW w \in Workers, Find(w)
  PROVE  TaskInv'
<1> USE DEF TaskInv
<1>1. /\ task[w].pc = "find" /\ UNCHANGED <<rows, made, events, dblock, feed>>
      /\ task' = [task EXCEPT ![w].pc = "insert"]
  BY DEF Find, eventVars
<1>2. /\ task'[w].pc = "insert"
      /\ task'[w].number = task[w].number /\ task'[w].id = task[w].id
      /\ task' \in [Workers -> TaskCalls] /\ \A u \in Workers \ {w} : task'[u] = task[u]
  BY <1>1 DEF TaskTypeOK, TaskCalls
<1> QED
  BY <1>1, <1>2, MoveStep DEF Moves, InCall

LEMMA InsertStep ==
  ASSUME TaskInv, NEW w \in Workers, Insert(w)
  PROVE  TaskInv'
<1> USE DEF TaskInv
<1> DEFINE next == 1 + Cardinality(events)
           row == [task[w].row EXCEPT !.data = next]
<1>1. /\ task[w].pc = "insert" /\ dblock = Nobody /\ dblock' = w
      /\ UNCHANGED <<rows, made, events, feed>>
  BY DEF Insert
<1>2. next \in Numbers
  BY <1>1, SequencesFit
<1>3. task' = [task EXCEPT ![w] = [task[w] EXCEPT !.pc = "commit", !.row = row]]
  BY DEF Insert, TaskTypeOK
<1> HIDE DEF next
<1>4. row \in Rows /\ row.data = next
  <2>1. task[w].row \in Rows
    BY DEF TaskTypeOK, TaskCalls
  <2>2. next \in Numbers \cup {0}
    BY <1>2
  <2> QED
    BY <2>1, <2>2 DEF Rows
<1> HIDE DEF row
<1>5. [task[w] EXCEPT !.pc = "commit", !.row = row] \in TaskCalls
  BY <1>4 DEF TaskTypeOK, TaskCalls
<1>6. /\ task'[w].pc = "commit" /\ task'[w].row = row
      /\ task'[w].number = task[w].number /\ task'[w].id = task[w].id
      /\ task' \in [Workers -> TaskCalls] /\ \A u \in Workers \ {w} : task'[u] = task[u]
  BY <1>3, <1>5 DEF TaskTypeOK, TaskCalls
<1>7. task'[w].row.data = 1 + Cardinality(events)
  BY <1>4, <1>6 DEF next
<1> QED
  BY <1>1, <1>6, <1>7, MoveStep DEF Moves, InCall

LEMMA DieStep ==
  ASSUME TaskInv, NEW w \in Workers, Die(w)
  PROVE  TaskInv'
  BY DropStep DEF Die

(* What is saved was made by a call that has not ended, and so by none     *)
(* that a finished call found ended; a cancel saves data it has read since.*)
LEMMA SaveStep ==
  ASSUME TaskInv, NEW w \in Workers, Save(w)
  PROVE  TaskInv'
<1> USE DEF TaskInv
<1> DEFINE k == task[w].number
           id == task[w].id
<1>1. /\ task[w].pc = "save" /\ rows' = [rows EXCEPT ![id] = task[w].row]
      /\ task' = [task EXCEPT ![w].pc = "return"]
      /\ UNCHANGED <<made, events, dblock, feed>>
  BY DEF Save, eventVars
<1>2. /\ id \in Tasks /\ k \in DOMAIN made /\ made[k].id = id /\ ~ made[k].ended
      /\ made[k].op # "event" /\ task[w].row.by = k /\ task[w].row.fits
      /\ made[k].op # "cancel" => task[w].row.data = k
      /\ task[w].row \in Rows /\ k # 0
  BY <1>1, MadeCallsAreSequence DEF WorkersAreInCalls, InCall, OpOf, TaskTypeOK, TaskCalls, Numbers
<1>3. /\ rows'[id] = task[w].row /\ \A t \in Tasks \ {id} : rows'[t] = rows[t]
      /\ rows' \in [Tasks -> Rows]
  BY <1>1, <1>2 DEF TaskTypeOK
<1>4. /\ task'[w].pc = "return" /\ task'[w].number = k /\ task'[w].id = id
      /\ task' \in [Workers -> TaskCalls] /\ \A u \in Workers \ {w} : task'[u] = task[u]
  BY <1>1 DEF TaskTypeOK, TaskCalls
<1>5. \A c : Saved(c)' => c = k \/ Saved(c)
  BY <1>1, <1>4 DEF Saved
<1>6. \A u \in Workers : /\ InCall(u)' => InCall(u)
                         /\ task'[u].number = task[u].number /\ task'[u].id = task[u].id
                         /\ OpOf(u)' = OpOf(u)
  BY <1>1, <1>4 DEF InCall, OpOf
<1>7. \A c \in DOMAIN made : k \notin made[c].before
  BY <1>2 DEF BeforeIsOver
<1>8. \A c \in DOMAIN made : made[c].id \in Tasks
  BY MadeCallsAreSequence DEF MadeCalls
<1> HIDE DEF k, id
<1>9. TaskTypeOK' /\ Len(made') <= MaxMade
  BY <1>1, <1>2, <1>3, <1>4 DEF TaskTypeOK
<1>10. WorkersAreInCalls'
  BY <1>1, <1>2, <1>4, <1>6 DEF WorkersAreInCalls
<1>11. BeforeIsOver' /\ CancelsCross'
  BY <1>1, <1>6 DEF BeforeIsOver, CancelsCross
<1>12. ASSUME NEW c \in DOMAIN made, Saved(c)', made[c].id = id
       PROVE  LET older == made[c].before \cup {0}
              IN /\ task[w].row.by \notin older
                 /\ made[c].op # "cancel" /\ ~ made[c].crossed =>
                      /\ task[w].row.data \notin older
                      /\ \A u \in Workers : /\ task'[u].pc \in {"get", "save"}
                                            /\ task'[u].id = made[c].id /\ OpOf(u)' = "cancel"
                                            => task'[u].row.data \notin older
  <2>1. task[w].row.by \notin made[c].before \cup {0}
    BY <1>2, <1>7
  <2>2. ASSUME made[c].op # "cancel", ~ made[c].crossed
        PROVE  task[w].row.data \notin made[c].before \cup {0}
    <3>1. CASE made[k].op # "cancel"
      BY <1>2, <1>7, <3>1
    <3>2. CASE made[k].op = "cancel"
      <4>1. c # k /\ Saved(c)
        BY <1>5, <1>12, <2>2, <3>2
      <4>2. OpOf(w) = "cancel" /\ task[w].id = made[c].id
        BY <1>12, <3>2 DEF OpOf, k, id
      <4> QED
        BY <1>1, <2>2, <4>1, <4>2 DEF RowsAreRecent
    <3> QED
      BY <3>1, <3>2
  <2>3. ASSUME made[c].op # "cancel", ~ made[c].crossed, NEW u \in Workers,
               task'[u].pc \in {"get", "save"}, task'[u].id = made[c].id, OpOf(u)' = "cancel"
        PROVE  task'[u].row.data \notin made[c].before \cup {0}
    <3>1. u # w /\ task'[u] = task[u] /\ InCall(u) /\ OpOf(u) = "cancel"
      BY <1>4, <1>6, <2>3 DEF InCall
    <3>2. c # k
      <4> SUFFICES ASSUME c = k PROVE FALSE
        OBVIOUS
      <4>1. InCall(w) /\ task[w].id = task[u].id /\ made[task[w].number].crossed = made[c].crossed
        BY <1>1, <1>12, <2>3, <3>1 DEF InCall, k, id
      <4> QED
        BY <2>3, <3>1, <4>1 DEF CancelsCross
    <3> QED
      BY <1>5, <1>12, <2>3, <3>1, <3>2 DEF RowsAreRecent
  <2> QED
    BY <2>1, <2>2, <2>3
<1>13. ASSUME NEW c \in DOMAIN made, Saved(c)', made[c].id # id
       PROVE  LET row == rows[made[c].id]
                  older == made[c].before \cup {0}
              IN /\ row.by \notin older
                 /\ made[c].op # "cancel" /\ ~ made[c].crossed =>
                      /\ row.data \notin older
                      /\ \A u \in Workers : /\ task'[u].pc \in {"get", "save"}
                                            /\ task'[u].id = made[c].id /\ OpOf(u)' = "cancel"
                                            => task'[u].row.data \notin older
  <2>1. Saved(c)
    BY <1>2, <1>5, <1>13
  <2>2. \A u \in Workers : task'[u].pc \in {"get", "save"} => task'[u] = task[u] /\ OpOf(u)' = OpOf(u)
    BY <1>4, <1>6
  <2> QED
    BY <2>1, <2>2 DEF RowsAreRecent
<1>14. RowsAreRecent'
  BY <1>1, <1>3, <1>8, <1>12, <1>13 DEF RowsAreRecent
<1>15. EventsAreNumbered'
  BY <1>1, <1>4 DEF EventsAreNumbered
<1>16. FeedsMissNothing'
  BY <1>1 DEF FeedsMissNothing
<1> QED
  BY <1>9, <1>10, <1>11, <1>14, <1>15, <1>16

LEMMA ReturnStep ==
  ASSUME TaskInv, NEW w \in Workers, TaskReturn(w)
  PROVE  TaskInv'
<1> USE DEF TaskInv
<1> DEFINE k == task[w].number
<1>0. /\ Len(made) \in Nat /\ DOMAIN made = 1 .. Len(made)
      /\ made \in [1 .. Len(made) -> MadeCalls]
  BY MadeCallsAreSequence
<1>1. /\ task[w].pc = "return" /\ made' = [made EXCEPT ![k].ended = TRUE]
      /\ task' = [task EXCEPT ![w] = NoTaskCall]
      /\ UNCHANGED <<rows, events, dblock, feed>>
  BY DEF TaskReturn, eventVars
<1>2. k \in DOMAIN made
  BY <1>1 DEF WorkersAreInCalls, InCall
<1>3. /\ task' \in [Workers -> TaskCalls] /\ task'[w].pc = "idle"
      /\ \A u \in Workers \ {w} : task'[u] = task[u]
  BY <1>1, CallType DEF TaskTypeOK
<1>4. /\ made' \in Seq(MadeCalls) /\ Len(made') = Len(made) /\ DOMAIN made' = DOMAIN made
  <2>1. [made[k] EXCEPT !.ended = TRUE] \in MadeCalls
    BY <1>0, <1>2 DEF MadeCalls
  <2>2. made' = [made EXCEPT ![k] = [made[k] EXCEPT !.ended = TRUE]]
    BY <1>0, <1>1
  <2> QED
    BY <1>0, <1>2, <2>1, <2>2, ExceptSeq DEF TaskTypeOK
<1>5. /\ \A c \in DOMAIN made :
           /\ made'[c].op = made[c].op /\ made'[c].id = made[c].id
           /\ made'[c].before = made[c].before /\ made'[c].crossed = made[c].crossed
           /\ made[c].ended => made'[c].ended
           /\ c # k => made'[c] = made[c]
  BY <1>0, <1>1 DEF MadeCalls
<1>6. \A u \in Workers : task'[u].pc # "idle" =>
        /\ u # w /\ InCall(u) /\ task'[u] = task[u] /\ task[u].number # k
        /\ task[u].number \in DOMAIN made /\ OpOf(u)' = OpOf(u)
  BY <1>1, <1>3, <1>5 DEF WorkersAreInCalls, InCall, OpOf
<1>7. \A c \in DOMAIN made : Saved(c)' => Saved(c)
  <2> SUFFICES ASSUME NEW c \in DOMAIN made, Saved(c)'
               PROVE  Saved(c)
    OBVIOUS
  <2>1. CASE c = k
    BY <1>1, <1>5, <2>1 DEF Saved
  <2>2. CASE c # k
    BY <1>5, <1>6, <2>2 DEF Saved
  <2> QED
    BY <2>1, <2>2
<1> HIDE DEF k
<1>8. TaskTypeOK' /\ Len(made') <= MaxMade
  BY <1>1, <1>3, <1>4 DEF TaskTypeOK
<1>9. WorkersAreInCalls'
  BY <1>4, <1>5, <1>6 DEF WorkersAreInCalls, InCall
<1>10. BeforeIsOver'
  BY <1>4, <1>5 DEF BeforeIsOver
<1>11. CancelsCross'
  BY <1>5, <1>6 DEF CancelsCross, InCall
<1>12. RowsAreRecent'
  BY <1>1, <1>4, <1>5, <1>6, <1>7 DEF RowsAreRecent
<1>13. EventsAreNumbered'
  BY <1>1, <1>4, <1>6 DEF EventsAreNumbered
<1>14. FeedsMissNothing'
  BY <1>1 DEF FeedsMissNothing
<1> QED
  BY <1>8, <1>9, <1>10, <1>11, <1>12, <1>13, <1>14

(* The event gets the sequence after the last one, since nothing was       *)
(* committed between the INSERT and this commit.                           *)
LEMMA CommitStep ==
  ASSUME TaskInv, NEW w \in Workers, Commit(w)
  PROVE  TaskInv'
<1> USE DEF TaskInv
<1> DEFINE event == [sequence |-> task[w].row.data, id |-> task[w].id, number |-> task[w].number]
           size == Cardinality(events)
<1>1. /\ task[w].pc = "commit" /\ events' = events \cup {event}
      /\ dblock' = DbUnlocked(w) /\ task' = [task EXCEPT ![w].pc = "return"]
      /\ UNCHANGED <<rows, made, feed>>
  BY DEF Commit
<1>2. /\ dblock = w /\ task[w].row.data = 1 + size
      /\ task[w].id \in Tasks /\ task[w].number \in DOMAIN made /\ OpOf(w) = "event"
      /\ \A e \in events : e.number # task[w].number
  BY <1>1 DEF EventsAreNumbered, WorkersAreInCalls, InCall
<1>3. size \in Nat /\ 1 + size \in Numbers /\ DOMAIN made \subseteq Numbers
  BY <1>1, SequencesFit, MadeCallsAreSequence
<1>4. /\ event.sequence = 1 + size /\ event.id = task[w].id /\ event.number = task[w].number
      /\ event \in Events
  BY <1>2, <1>3 DEF Events
<1>5. /\ task'[w].pc = "return" /\ task'[w].number = task[w].number /\ task'[w].id = task[w].id
      /\ task' \in [Workers -> TaskCalls] /\ \A u \in Workers \ {w} : task'[u] = task[u]
  BY <1>1 DEF TaskTypeOK, TaskCalls
<1> HIDE DEF event
<1>6. \A e \in events : e.sequence \in Nat /\ e.sequence <= size /\ e # event
  <2>1. \A e \in events : e.sequence \in Nat /\ e.sequence <= size
    BY TaskAssumption DEF TaskTypeOK, Events, Numbers, EventsAreNumbered
  <2> QED
    BY <1>3, <1>4, <2>1
<1>7. IsFiniteSet(events') /\ Cardinality(events') = 1 + size
  <2>1. IsFiniteSet(events)
    BY DEF EventsAreNumbered
  <2>2. event \notin events
    BY <1>6
  <2>3. /\ IsFiniteSet(events \cup {event})
        /\ Cardinality(events \cup {event}) = Cardinality(events) + 1
    BY <2>1, <2>2, FS_AddElement, Zenon
  <2> QED
    BY <1>1, <1>3, <2>3
<1> HIDE DEF size
<1>8. \A c : Saved(c)' => Saved(c)
  <2> SUFFICES ASSUME NEW c, Saved(c)' PROVE Saved(c)
    OBVIOUS
  <2>1. c # task[w].number
    BY <1>1, <1>2 DEF Saved, OpOf
  <2> QED
    BY <1>1, <1>5, <2>1 DEF Saved
<1>9. \A u \in Workers : /\ InCall(u)' => InCall(u)
                         /\ task'[u].number = task[u].number /\ task'[u].id = task[u].id
                         /\ OpOf(u)' = OpOf(u)
  BY <1>1, <1>5 DEF InCall, OpOf
<1>10. TaskTypeOK' /\ Len(made') <= MaxMade
  BY <1>1, <1>4, <1>5 DEF TaskTypeOK, DbUnlocked
<1>11. WorkersAreInCalls'
  BY <1>1, <1>5, <1>9 DEF WorkersAreInCalls
<1>12. BeforeIsOver' /\ CancelsCross'
  BY <1>1, <1>9 DEF BeforeIsOver, CancelsCross
<1>13. RowsAreRecent'
  BY <1>1, <1>5, <1>8, <1>9 DEF RowsAreRecent
<1>14. EventsAreNumbered'
  <2>1. \A u \in Workers \ {w} : task[u].pc # "commit"
    BY <1>2 DEF EventsAreNumbered
  <2>2. \A u \in Workers \ {w} : task[u].pc \in {"find", "insert", "commit"} =>
          task[u].number # task[w].number
    BY <1>1 DEF WorkersAreInCalls, InCall
  <2>3. \A e \in events' : e.sequence <= 1 + size /\ e.number \in DOMAIN made
    BY <1>1, <1>2, <1>3, <1>4, <1>6 DEF EventsAreNumbered
  <2>4. \A d, e \in events' : d.number = e.number => d = e
    BY <1>1, <1>2, <1>4 DEF EventsAreNumbered
  <2>5. \A u \in Workers :
          /\ task'[u].pc \in {"find", "insert", "commit"} =>
               \A e \in events' : e.number # task'[u].number
          /\ task'[u].pc # "commit"
    <3> SUFFICES ASSUME NEW u \in Workers
                 PROVE  /\ task'[u].pc \in {"find", "insert", "commit"} =>
                             \A e \in events' : e.number # task'[u].number
                        /\ task'[u].pc # "commit"
      OBVIOUS
    <3>1. CASE u = w
      BY <1>5, <3>1
    <3>2. CASE u # w
      BY <1>1, <1>4, <1>5, <2>1, <2>2, <3>2 DEF EventsAreNumbered
    <3> QED
      BY <3>1, <3>2
  <2>6. \A t \in Tasks : feed[t].after <= 1 + size
    <3>1. \A t \in Tasks : feed[t].after \in Nat /\ feed[t].after <= size
      BY TaskAssumption DEF TaskTypeOK, Feeds, Numbers, EventsAreNumbered, size
    <3> QED
      BY <1>3, <3>1
  <2>7. /\ \A e \in events' : e.sequence <= Cardinality(events') /\ e.number \in DOMAIN made'
        /\ \A t \in Tasks : feed'[t].after <= Cardinality(events')
    BY <1>1, <1>7, <2>3, <2>6
  <2>8. \A u \in Workers : task'[u].pc = "commit" =>
          dblock' = u /\ task'[u].row.data = 1 + Cardinality(events')
    BY <2>5
  <2> QED
    BY <1>7, <2>4, <2>5, <2>7, <2>8 DEF EventsAreNumbered
<1>15. FeedsMissNothing'
  <2>1. \A d, e \in events' : d.sequence = e.sequence => d = e
    BY <1>1, <1>3, <1>4, <1>6 DEF FeedsMissNothing
  <2>2. ASSUME NEW t \in Tasks
        PROVE  feed[t].seen = {e.number : e \in {d \in events' : d.id = t /\ d.sequence <= feed[t].after}}
    <3>1. feed[t].after \in Nat /\ feed[t].after <= size
      BY TaskAssumption DEF TaskTypeOK, Feeds, Numbers, EventsAreNumbered, size
    <3>2. ~ (event.sequence <= feed[t].after)
      BY <1>3, <1>4, <3>1
    <3>3. {d \in events' : d.id = t /\ d.sequence <= feed[t].after}
            = {d \in events : d.id = t /\ d.sequence <= feed[t].after}
      BY <1>1, <3>2
    <3> QED
      BY <3>3 DEF FeedsMissNothing
  <2> QED
    BY <1>1, <2>1, <2>2 DEF FeedsMissNothing
<1> QED
  BY <1>10, <1>11, <1>12, <1>13, <1>14, <1>15

LEMMA GreatestElement ==
  ASSUME NEW S \in SUBSET Nat, S # {}, NEW bound \in Nat, \A n \in S : n <= bound
  PROVE  \E n \in S : \A m \in S : m <= n
<1> DEFINE Less == OpToRel(<, Nat)
           mirrored == {bound - n : n \in S}
<1>1. IsWellFoundedOn(Less, Nat)
  BY NatLessThanWellFounded
<1>2. \A a, b \in Nat : a < b => <<a, b>> \in Less
  BY DEF OpToRel
<1>3. mirrored \in SUBSET Nat /\ mirrored # {}
  <2>1. \A n \in S : bound - n \in Nat
    OBVIOUS
  <2> QED
    BY <2>1
<1> HIDE DEF Less, mirrored
<1>4. PICK f \in mirrored : \A g \in mirrored : <<g, f>> \notin Less
  BY <1>1, <1>3, WFMin
<1>5. \A g \in mirrored : ~ (g < f)
  BY <1>2, <1>3, <1>4
<1>6. PICK n \in S : f = bound - n
  BY <1>4 DEF mirrored
<1>7. \A m \in S : ~ (bound - m < f)
  BY <1>5 DEF mirrored
<1>8. \A m \in S : m <= n
  BY <1>6, <1>7
<1> QED
  BY <1>8

(* A reader takes all there is beyond its last sequence, and what comes    *)
(* later is beyond the one it then has.                                    *)
LEMMA PollStep ==
  ASSUME TaskInv, NEW t \in Tasks, Poll(t)
  PROVE  TaskInv'
<1> USE DEF TaskInv
<1> DEFINE new == {e \in events : e.id = t /\ e.sequence > feed[t].after}
           sequences == {e.sequence : e \in new}
           last == CHOOSE n \in sequences : \A e \in new : e.sequence <= n
<1>1. /\ new # {}
      /\ feed' = [feed EXCEPT ![t] = [after |-> last, seen |-> feed[t].seen \cup {e.number : e \in new}]]
      /\ UNCHANGED <<rows, task, made, events, dblock>>
  BY DEF Poll, TaskTypeOK
<1>2. \A e \in events : e.sequence \in Numbers /\ e.sequence \in Nat /\ e.number \in Numbers
  BY TaskAssumption DEF TaskTypeOK, Events, Numbers
<1>3. Cardinality(events) \in Nat
  BY FS_CardinalityType DEF EventsAreNumbered
<1>4. \E n \in sequences : \A m \in sequences : m <= n
  <2>1. sequences \in SUBSET Nat /\ sequences # {}
    BY <1>1, <1>2
  <2>2. \A n \in sequences : n <= Cardinality(events)
    BY DEF EventsAreNumbered
  <2> HIDE DEF sequences
  <2> QED
    BY <1>3, <2>1, <2>2, GreatestElement
<1>5. last \in sequences /\ \A e \in new : e.sequence <= last
  <2>1. \E n \in sequences : \A e \in new : e.sequence <= n
    BY <1>4
  <2> QED
    BY <2>1
<1> HIDE DEF last
<1>6. PICK e \in new : last = e.sequence
  BY <1>5
<1>7. /\ last \in Numbers /\ last \in Nat /\ last <= Cardinality(events)
      /\ feed[t].after \in Nat /\ feed[t].after < last
  BY <1>2, <1>6, TaskAssumption DEF EventsAreNumbered, TaskTypeOK, Feeds, Numbers
<1> HIDE DEF sequences
<1>8. /\ feed'[t].after = last
      /\ feed'[t].seen = feed[t].seen \cup {d.number : d \in new}
      /\ \A u \in Tasks \ {t} : feed'[u] = feed[u]
      /\ feed' \in [Tasks -> Feeds]
  <2>1. [after |-> last, seen |-> feed[t].seen \cup {d.number : d \in new}] \in Feeds
    BY <1>2, <1>7 DEF Feeds, TaskTypeOK
  <2> QED
    BY <1>1, <2>1 DEF TaskTypeOK
<1>9. TaskTypeOK' /\ Len(made') <= MaxMade /\ WorkersAreInCalls' /\ BeforeIsOver' /\ CancelsCross'
  BY <1>1, <1>8 DEF TaskTypeOK, WorkersAreInCalls, BeforeIsOver, CancelsCross, InCall, OpOf
<1>10. RowsAreRecent'
  BY <1>1 DEF RowsAreRecent, Saved, OpOf
<1>11. EventsAreNumbered'
  BY <1>1, <1>7, <1>8 DEF EventsAreNumbered
<1>12. FeedsMissNothing'
  <2>1. {d \in events : d.id = t /\ d.sequence <= last}
          = {d \in events : d.id = t /\ d.sequence <= feed[t].after} \cup new
    BY <1>2, <1>5, <1>7
  <2>2. feed[t].seen = {d.number : d \in {d \in events : d.id = t /\ d.sequence <= feed[t].after}}
    BY DEF FeedsMissNothing
  <2> HIDE DEF new
  <2>3. feed'[t].seen = {d.number : d \in {d \in events : d.id = t /\ d.sequence <= last}}
    BY <1>8, <2>1, <2>2
  <2> QED
    BY <1>1, <1>8, <2>3 DEF FeedsMissNothing
<1> QED
  BY <1>9, <1>10, <1>11, <1>12

-----------------------------------------------------------------------------
LEMMA TaskInvInit == TaskInit => TaskInv
<1> SUFFICES ASSUME TaskInit PROVE TaskInv
  OBVIOUS
<1> USE DEF TaskInit
<1>1. /\ made \in Seq(MadeCalls) /\ Len(made) = 0 /\ DOMAIN made = {}
      /\ 0 <= MaxMade
  <2>1. DOMAIN made = 1 .. 0
    BY EmptySeq, LenProperties
  <2> QED
    BY <2>1, EmptySeq, TaskAssumption
<1>2. \A w \in Workers : task[w] = NoTaskCall /\ task[w].pc = "idle"
  BY CallType
<1>3. IsFiniteSet(events) /\ Cardinality(events) = 0 /\ events = {}
  BY FS_EmptySet
<1>4. TaskTypeOK
  BY <1>1, CallType DEF TaskTypeOK, NoRow, Feeds, Events
<1>5. WorkersAreInCalls /\ CancelsCross /\ BeforeIsOver /\ RowsAreRecent
  BY <1>1, <1>2 DEF WorkersAreInCalls, CancelsCross, BeforeIsOver, RowsAreRecent, InCall
<1>6. EventsAreNumbered /\ FeedsMissNothing
  BY <1>2, <1>3 DEF EventsAreNumbered, FeedsMissNothing
<1> QED
  BY <1>1, <1>4, <1>5, <1>6 DEF TaskInv

LEMMA TaskInvNext == TaskInv /\ [TaskNext]_taskVars => TaskInv'
<1> SUFFICES ASSUME TaskInv, [TaskNext]_taskVars PROVE TaskInv'
  OBVIOUS
<1>1. CASE UNCHANGED taskVars
  <2>1. \A c : Saved(c)' = Saved(c)
    BY <1>1 DEF Saved, taskVars
  <2> QED
    BY <1>1, <2>1 DEF taskVars, eventVars, TaskInv, TaskTypeOK, WorkersAreInCalls, BeforeIsOver,
       CancelsCross, RowsAreRecent, EventsAreNumbered, FeedsMissNothing, InCall, OpOf
<1> QED
  BY <1>1, BeginStep, ReadStep, GetStep, SaveStep, ReturnStep, FindStep, InsertStep, CommitStep,
     DieStep, PollStep DEF TaskNext

LEMMA TaskInvariance == TaskSpec => []TaskInv
  BY TaskInvInit, TaskInvNext, PTL DEF TaskSpec

(* The tables and the calls are well typed, and no row is beyond its       *)
(* task's max_steps.                                                       *)
THEOREM TaskTypeCorrect == TaskSpec => []TaskTypeOK
<1>1. TaskInv => TaskTypeOK
  BY DEF TaskInv
<1> QED
  BY <1>1, TaskInvariance, PTL

(* A task resumes from its last checkpoint and from the last event that    *)
(* was read: no finished call's row is replaced by an older one's, unless  *)
(* a cancel crossed it, and no event is skipped or read twice.             *)
THEOREM CheckpointsAndFeedsResume == TaskSpec => []TasksResume
<1>1. TaskInv => TasksResume
  <2> SUFFICES ASSUME TaskInv PROVE CheckpointsSurvive
    BY DEF TasksResume, TaskInv
  <2>1. \A c \in DOMAIN made : made[c].ended /\ made[c].op # "event" => Saved(c)
    BY DEF Saved
  <2> QED
    BY <2>1 DEF TaskInv, RowsAreRecent, CheckpointsSurvive
<1> QED
  BY <1>1, TaskInvariance, PTL

-----------------------------------------------------------------------------
(* StateFile: what the steps of a writer make of the files.                *)

LEMMA OpenedFile ==
  ASSUME NEW P, NEW D, NEW f \in StateFiles(P, D), NEW p \in P
  PROVE  /\ Opened(f, p) \in StateFiles(P, D) /\ Opened(f, p).at[p] = "tmp"
         /\ \A q \in P \ {p} : Opened(f, p).at[q] = f.at[q]
         /\ Opened(f, p).path = f.path /\ Opened(f, p).tmp = Blank
  BY DEF Opened, StateFiles

LEMMA WrittenFile ==
  ASSUME NEW P, NEW D, NEW f \in StateFiles(P, D), NEW p \in P, NEW d \in D,
         f.at[p] # "closed", NEW g \in Written(f, p, d)
  PROVE  /\ g \in StateFiles(P, D) /\ g.at[p] = "closed"
         /\ \A q \in P \ {p} : g.at[q] = f.at[q]
         /\ g.path \in {f.path, d, Mixed} /\ g.tmp \in {f.tmp, d, Mixed}
         /\ f.at[p] = "tmp" => g.path = f.path /\ (f.tmp = Blank => g.tmp = d)
<1>1. \A old : WrittenOver(old, d) \subseteq {d, Mixed} /\ WrittenOver(Blank, d) = {d}
  BY DEF WrittenOver
<1>2. f.at[p] \in {"tmp", "path", "replaced"}
  BY DEF StateFiles
<1>3. CASE f.at[p] = "tmp"
  <2>1. PICK new \in WrittenOver(f.tmp, d) : g = [f EXCEPT !.tmp = new, !.at[p] = "closed"]
    BY <1>3 DEF Written
  <2>2. new \in {d, Mixed} /\ (f.tmp = Blank => new = d)
    BY <1>1
  <2> QED
    BY <2>1, <2>2 DEF StateFiles
<1>4. CASE f.at[p] = "path"
  <2>1. PICK new \in WrittenOver(f.path, d) : g = [f EXCEPT !.path = new, !.at[p] = "closed"]
    BY <1>4 DEF Written
  <2>2. new \in {d, Mixed}
    BY <1>1
  <2> QED
    BY <1>4, <2>1, <2>2 DEF StateFiles
<1>5. CASE f.at[p] = "replaced"
  <2>1. g = [f EXCEPT !.at[p] = "closed"]
    BY <1>5 DEF Written
  <2> QED
    BY <1>5, <2>1 DEF StateFiles
<1> QED
  BY <1>2, <1>3, <1>4, <1>5

LEMMA ReplacedFile ==
  ASSUME NEW P, NEW D, NEW f \in StateFiles(P, D), CanReplace(f)
  PROVE  /\ Replaced(f) \in StateFiles(P, D)
         /\ Replaced(f).path = f.tmp /\ Replaced(f).tmp = NoFile
         /\ \A q \in P : Replaced(f).at[q] # "closed" <=> f.at[q] # "closed"
  BY DEF Replaced, StateFiles, CanReplace

LEMMA AbandonedFile ==
  ASSUME NEW P, NEW D, NEW f \in StateFiles(P, D), NEW p \in P, NEW g \in Abandoned(f, p)
  PROVE  /\ g \in StateFiles(P, D) /\ g.at[p] = "closed"
         /\ \A q \in P \ {p} : g.at[q] = f.at[q]
         /\ g.path \in {f.path, Mixed} /\ g.tmp \in {f.tmp, Mixed}
         /\ f.at[p] # "path" => g.path = f.path
         /\ f.at[p] # "tmp" => g.tmp = f.tmp
<1> DEFINE closed == [f EXCEPT !.at[p] = "closed"]
<1>1. /\ closed \in StateFiles(P, D) /\ closed.at[p] = "closed"
      /\ \A q \in P \ {p} : closed.at[q] = f.at[q]
      /\ closed.path = f.path /\ closed.tmp = f.tmp
  BY DEF StateFiles
<1>2. \/ g = closed
      \/ f.at[p] = "tmp" /\ g = [closed EXCEPT !.tmp = Mixed]
      \/ f.at[p] = "path" /\ g = [closed EXCEPT !.path = Mixed]
  BY DEF Abandoned
<1> HIDE DEF closed
<1> QED
  BY <1>1, <1>2 DEF StateFiles

-----------------------------------------------------------------------------
(* MemoryStore: the inductive invariant.                                   *)

(* A content with i in it is its tombstone; one that does not parse shows  *)
(* nothing.                                                                *)
TombIn(content, i) ==
  \/ content \in {Blank, Mixed}
  \/ content \in Documents /\ i \in DOMAIN content /\ content[i].deleted /\ content[i].fact = Erased

Saving(p) == call[p].pc \in {"open", "write", "replace"}

(* A process writes through an open descriptor, and only then has one; its *)
(* call is on an id that was drawn.                                        *)
DescriptorsAreHeld ==
  \A p \in Processes :
    /\ call[p].pc = "write" <=> disk.at[p] # "closed"
    /\ Busy(p) => call[p].id \in drawn

(* A call that no other has overlapped has the temporary file to itself.   *)
AloneIsAlone ==
  \A p \in Processes : Busy(p) /\ call[p].alone =>
    /\ \A q \in Processes \ {p} : ~ Busy(q)
    /\ call[p].pc = "write" => disk.at[p] = "tmp" /\ disk.tmp = Blank
    /\ call[p].pc = "replace" => disk.tmp = call[p].doc

(* Whatever can become the file's content has the tombstone of each        *)
(* forgotten memory, and nobody remembers under its id.                    *)
TombsAreKept ==
  /\ \A i \in forgotten :
       /\ TombIn(disk.path, i)
       /\ disk.tmp = NoFile \/ TombIn(disk.tmp, i)
       /\ \A p \in Processes : Saving(p) => TombIn(call[p].doc, i)
       /\ \A p \in Processes : Busy(p) /\ call[p].op = "remember" => call[p].id # i
  /\ \A p \in Processes : Saving(p) /\ call[p].op = "forget" => TombIn(call[p].doc, call[p].id)

MemoryInv == MemoryTypeOK /\ DescriptorsAreHeld /\ AloneIsAlone /\ TombsAreKept

LEMMA MemoryTypes ==
  /\ NoItems \in Documents /\ NoCall \in Calls /\ NoCall.pc = "idle" /\ NoCall.item \in Items
  /\ \A S \in SUBSET Ids : [S -> Items] \subseteq Documents
  /\ \A d \in Documents : DOMAIN d \subseteq Ids /\ d \in [DOMAIN d -> Items]
<1>1. NoItems \in [{} -> Items] /\ {} \in SUBSET Ids
  BY DEF NoItems
<1>2. NoItems \in Documents
  BY <1>1 DEF Documents
<1>3. NoCall.item \in Items
  BY DEF NoCall, Items, Tiers
<1> QED
  BY <1>2, <1>3 DEF NoCall, Calls, Ops, Documents, Items, Tiers

LEMMA MemoryInvInit == MemoryInit => MemoryInv
<1> SUFFICES ASSUME MemoryInit PROVE MemoryInv
  OBVIOUS
<1>1. call = [p \in Processes |-> NoCall] /\ \A p \in Processes : call[p].pc = "idle"
  BY DEF MemoryInit, NoCall
<1>2. /\ disk \in StateFiles(Processes, Documents) /\ \A p \in Processes : disk.at[p] = "closed"
      /\ log \in Seq(Records) /\ drawn \subseteq Ids
  <2>1. CASE drawn = {} /\ disk = FileWith(Processes, NoFile) /\ log = <<>>
    BY <2>1 DEF FileWith, StateFiles
  <2>2. ASSUME NEW id \in Ids, NEW fact \in Facts, NEW tier \in Tiers,
               drawn = {id},
               disk = FileWith(Processes, [i \in {id} |-> [fact |-> fact, tier |-> tier, deleted |-> FALSE]]),
               log = <<[event |-> "remember", id |-> id, fact |-> fact, tier |-> tier]>>
        PROVE  /\ disk \in StateFiles(Processes, Documents)
               /\ \A p \in Processes : disk.at[p] = "closed"
               /\ log \in Seq(Records) /\ drawn \subseteq Ids
    <3>1. [fact |-> fact, tier |-> tier, deleted |-> FALSE] \in Items
      BY DEF Items
    <3>2. [i \in {id} |-> [fact |-> fact, tier |-> tier, deleted |-> FALSE]] \in [{id} -> Items]
      BY <3>1
    <3>3. [i \in {id} |-> [fact |-> fact, tier |-> tier, deleted |-> FALSE]] \in Documents
      BY <3>2, MemoryTypes
    <3>4. disk \in StateFiles(Processes, Documents) /\ \A p \in Processes : disk.at[p] = "closed"
      BY <2>2, <3>3 DEF FileWith, StateFiles
    <3>5. [event |-> "remember", id |-> id, fact |-> fact, tier |-> tier] \in Records
      BY DEF Records, Ops
    <3>6. log \in Seq(Records) /\ drawn \subseteq Ids
      BY <2>2, <3>5
    <3> QED
      BY <3>4, <3>6
  <2>3. \/ drawn = {} /\ disk = FileWith(Processes, NoFile) /\ log = <<>>
        \/ \E id \in Ids, fact \in Facts, tier \in Tiers :
             /\ drawn = {id}
             /\ disk = FileWith(Processes, [i \in {id} |-> [fact |-> fact, tier |-> tier, deleted |-> FALSE]])
             /\ log = <<[event |-> "remember", id |-> id, fact |-> fact, tier |-> tier]>>
    BY DEF MemoryInit
  <2> QED
    BY <2>1, <2>2, <2>3
<1>3. MemoryTypeOK
  <2>1. logtorn = FALSE /\ calls = 0 /\ disturbed = {} /\ forgotten = {}
    BY DEF MemoryInit
  <2>2. call \in [Processes -> Calls]
    BY <1>1, MemoryTypes
  <2>3. calls \in 0 .. MaxCalls
    BY <2>1, MemoryAssumption
  <2> QED
    BY <1>2, <2>1, <2>2, <2>3 DEF MemoryTypeOK
<1> QED
  BY <1>1, <1>2, <1>3 DEF MemoryInit, MemoryInv, DescriptorsAreHeld, AloneIsAlone, TombsAreKept,
     Busy, Saving

-----------------------------------------------------------------------------
(* A call begins.                                                          *)

LEMMA StartStep ==
  ASSUME MemoryInv, NEW p \in Processes, NEW op \in Ops, NEW id \in Ids, NEW item \in Items,
         Starts(p, op, id, item),
         \/ op = "remember" /\ id \notin drawn /\ drawn' = drawn \cup {id}
         \/ op # "remember" /\ id \in drawn /\ UNCHANGED drawn
  PROVE  MemoryInv'
<1> USE DEF MemoryInv, MemoryTypeOK
<1>1. /\ ~ Busy(p) /\ calls < MaxCalls /\ calls' = calls + 1
      /\ call'[p] = [op |-> op, pc |-> "load", id |-> id, item |-> item, doc |-> NoItems,
                     alone |-> \A r \in Processes : ~ Busy(r)]
      /\ \A q \in Processes \ {p} :
           call'[q] = [call[q] EXCEPT !.alone = call[q].alone /\ ~ Busy(q)]
      /\ UNCHANGED <<disk, log, logtorn, disturbed, forgotten>>
  BY DEF Starts
<1>2. /\ call'[p].pc = "load" /\ call'[p].op = op /\ call'[p].id = id
      /\ call'[p].alone => \A r \in Processes : ~ Busy(r)
  BY <1>1
<1>3. \A q \in Processes \ {p} :
        /\ call'[q].pc = call[q].pc /\ call'[q].op = call[q].op /\ call'[q].id = call[q].id
        /\ call'[q].doc = call[q].doc
        /\ call'[q].alone => ~ Busy(q)
  <2> SUFFICES ASSUME NEW q \in Processes \ {p}
               PROVE  /\ call'[q].pc = call[q].pc /\ call'[q].op = call[q].op
                      /\ call'[q].id = call[q].id /\ call'[q].doc = call[q].doc
                      /\ call'[q].alone => ~ Busy(q)
    OBVIOUS
  <2>1. call[q] \in Calls /\ call'[q] = [call[q] EXCEPT !.alone = call[q].alone /\ ~ Busy(q)]
    BY <1>1
  <2> HIDE DEF MemoryInv, MemoryTypeOK
  <2> QED
    BY <2>1 DEF Calls
<1>4. MemoryTypeOK'
  <2>1. call'[p] \in Calls
    BY <1>1, MemoryTypes DEF Calls
  <2>2. \A q \in Processes \ {p} : call'[q] \in Calls
    <3> SUFFICES ASSUME NEW q \in Processes \ {p} PROVE call'[q] \in Calls
      OBVIOUS
    <3>1. call[q] \in Calls /\ call'[q] = [call[q] EXCEPT !.alone = call[q].alone /\ ~ Busy(q)]
      BY <1>1
    <3> HIDE DEF MemoryInv, MemoryTypeOK
    <3> DEFINE b == call[q].alone /\ ~ Busy(q)
    <3>2. b \in BOOLEAN
      BY DEF Calls
    <3> HIDE DEF b
    <3> QED
      BY <3>1, <3>2 DEF Calls, b
  <2>3. call' \in [Processes -> Calls]
    BY <2>1, <2>2 DEF Starts
  <2> QED
    BY <1>1, <2>3, MemoryAssumption
<1>5. DescriptorsAreHeld'
  BY <1>1, <1>2, <1>3 DEF DescriptorsAreHeld, Busy
<1>6. AloneIsAlone'
  BY <1>1, <1>2, <1>3 DEF AloneIsAlone, Busy
<1>7. TombsAreKept'
  BY <1>1, <1>2, <1>3 DEF TombsAreKept, Busy, Saving, TombIn
<1> QED
  BY <1>4, <1>5, <1>6, <1>7

LEMMA MemoryCallStep ==
  ASSUME MemoryInv, NEW p \in Processes, CallRemember(p) \/ CallChange(p)
  PROVE  MemoryInv'
<1>1. CASE CallRemember(p)
  <2>1. PICK id \in Ids \ drawn, fact \in Facts, tier \in Tiers :
          /\ Starts(p, "remember", id, [fact |-> fact, tier |-> tier, deleted |-> FALSE])
          /\ drawn' = drawn \cup {id}
    BY <1>1 DEF CallRemember
  <2>2. [fact |-> fact, tier |-> tier, deleted |-> FALSE] \in Items /\ "remember" \in Ops
    BY DEF Items, Ops
  <2> QED
    BY <2>1, <2>2, StartStep
<1>2. CASE CallChange(p)
  <2>1. PICK op \in {"promote", "update", "forget"}, id \in drawn :
          /\ \/ op = "promote" /\ \E tier \in Tiers : Starts(p, op, id, [NoCall.item EXCEPT !.tier = tier])
             \/ op = "update" /\ \E fact \in Facts : Starts(p, op, id, [NoCall.item EXCEPT !.fact = fact])
             \/ op = "forget" /\ Starts(p, op, id, NoCall.item)
          /\ UNCHANGED drawn
    BY <1>2 DEF CallChange
  <2>2. /\ \A tier \in Tiers : [NoCall.item EXCEPT !.tier = tier] \in Items
        /\ \A fact \in Facts : [NoCall.item EXCEPT !.fact = fact] \in Items
    BY MemoryTypes DEF Items
  <2>3. PICK item \in Items : Starts(p, op, id, item)
    BY <2>1, <2>2, MemoryTypes
  <2>4. op \in Ops /\ op # "remember" /\ id \in Ids
    BY DEF MemoryInv, MemoryTypeOK, Ops
  <2> QED
    BY <2>1, <2>3, <2>4, StartStep
<1> QED
  BY <1>1, <1>2

-----------------------------------------------------------------------------
(* The steps of a call.                                                    *)

(* While p is in a call, no other process is alone in one.                 *)
LEMMA AloneStep ==
  ASSUME MemoryInv, NEW p \in Processes, Busy(p),
         \A q \in Processes \ {p} : call'[q] = call[q],
         Busy(p)' /\ call'[p].alone =>
           /\ call[p].alone
           /\ call'[p].pc = "write" => disk'.at[p] = "tmp" /\ disk'.tmp = Blank
           /\ call'[p].pc = "replace" => disk'.tmp = call'[p].doc
  PROVE  AloneIsAlone'
  BY DEF MemoryInv, AloneIsAlone, Busy

LEMMA EndedFrame ==
  ASSUME MemoryInv, NEW p \in Processes, NEW failed \in BOOLEAN, Ended(p, failed), Busy(p)
  PROVE  /\ call' \in [Processes -> Calls] /\ call'[p] = NoCall
         /\ \A q \in Processes \ {p} : call'[q] = call[q]
         /\ disturbed' \subseteq drawn
<1>1. call[p].id \in drawn
  BY DEF MemoryInv, DescriptorsAreHeld
<1>2. call' = [call EXCEPT ![p] = NoCall]
  BY DEF Ended
<1> QED
  BY <1>1, <1>2, MemoryTypes DEF Ended, MemoryInv, MemoryTypeOK

(* A call ends, and leaves its part of the file as it was or torn.         *)
LEMMA EndStep ==
  ASSUME MemoryInv, NEW p \in Processes, NEW failed \in BOOLEAN, Ended(p, failed), Busy(p),
         disk' \in StateFiles(Processes, Documents), disk'.at[p] = "closed",
         \A q \in Processes \ {p} : disk'.at[q] = disk.at[q],
         disk'.path \in {disk.path, Mixed}, disk'.tmp \in {disk.tmp, Mixed},
         log' \in Seq(Records), logtorn' \in BOOLEAN,
         UNCHANGED <<drawn, calls, forgotten>>
  PROVE  MemoryInv'
<1>1. /\ call' \in [Processes -> Calls] /\ call'[p] = NoCall
      /\ \A q \in Processes \ {p} : call'[q] = call[q]
      /\ disturbed' \subseteq drawn
  BY EndedFrame
<1>2. call'[p].pc = "idle"
  BY <1>1, MemoryTypes
<1>3. MemoryTypeOK'
  BY <1>1 DEF MemoryInv, MemoryTypeOK
<1>4. DescriptorsAreHeld'
  BY <1>1, <1>2 DEF MemoryInv, DescriptorsAreHeld, Busy
<1>5. AloneIsAlone'
  BY <1>1, <1>2, AloneStep DEF Busy
<1>6. TombsAreKept'
  BY <1>1, <1>2 DEF MemoryInv, TombsAreKept, TombIn, Saving, Busy
<1> QED
  BY <1>3, <1>4, <1>5, <1>6 DEF MemoryInv

LEMMA LogStep ==
  ASSUME MemoryInv, NEW p \in Processes, Log(p)
  PROVE  MemoryInv'
<1>1. Busy(p) /\ disk.at[p] = "closed" /\ disk \in StateFiles(Processes, Documents)
  BY DEF Log, Busy, MemoryInv, DescriptorsAreHeld, MemoryTypeOK
<1>2. \E failed \in BOOLEAN : Ended(p, failed)
  BY DEF Log
<1>3. RecordOf(call[p]) \in Records
  <2>1. call[p] \in Calls /\ call[p].id \in Ids
    BY <1>1 DEF MemoryInv, MemoryTypeOK, DescriptorsAreHeld
  <2> QED
    BY <2>1 DEF RecordOf, Records, Calls, Items
<1>4. log' \in Seq(Records) /\ logtorn' \in BOOLEAN
  <2>1. log \in Seq(Records) /\ logtorn \in BOOLEAN
    BY DEF MemoryInv, MemoryTypeOK
  <2>2. Append(log, RecordOf(call[p])) \in Seq(Records)
    BY <1>3, <2>1, AppendProperties
  <2> QED
    BY <2>1, <2>2 DEF Log
<1> QED
  BY <1>1, <1>2, <1>4, EndStep DEF Log

LEMMA FailStep ==
  ASSUME MemoryInv, NEW p \in Processes, Fail(p)
  PROVE  MemoryInv'
<1>1. disk \in StateFiles(Processes, Documents) /\ disk' \in Abandoned(disk, p)
  BY DEF Fail, MemoryInv, MemoryTypeOK
<1>2. /\ disk' \in StateFiles(Processes, Documents) /\ disk'.at[p] = "closed"
      /\ \A q \in Processes \ {p} : disk'.at[q] = disk.at[q]
      /\ disk'.path \in {disk.path, Mixed} /\ disk'.tmp \in {disk.tmp, Mixed}
  BY <1>1, AbandonedFile
<1>3. Busy(p) /\ (\E failed \in BOOLEAN : Ended(p, failed))
  BY DEF Fail
<1>4. log' \in Seq(Records) /\ logtorn' \in BOOLEAN /\ UNCHANGED <<drawn, calls, forgotten>>
  BY DEF Fail, MemoryInv, MemoryTypeOK
<1> QED
  BY <1>2, <1>3, <1>4, EndStep

LEMMA OpenStep ==
  ASSUME MemoryInv, NEW p \in Processes, Open(p)
  PROVE  MemoryInv'
<1>1. /\ disk \in StateFiles(Processes, Documents) /\ call \in [Processes -> Calls]
      /\ call[p].pc = "open" /\ disk' = Opened(disk, p)
      /\ call' = [call EXCEPT ![p].pc = "write"]
      /\ UNCHANGED <<log, logtorn, drawn, calls, disturbed, forgotten>>
  BY DEF Open, MemoryInv, MemoryTypeOK
<1>2. /\ disk' \in StateFiles(Processes, Documents) /\ disk'.at[p] = "tmp"
      /\ \A q \in Processes \ {p} : disk'.at[q] = disk.at[q]
      /\ disk'.path = disk.path /\ disk'.tmp = Blank
  BY <1>1, OpenedFile
<1>3. /\ call' \in [Processes -> Calls] /\ call'[p].pc = "write"
      /\ call'[p].op = call[p].op /\ call'[p].id = call[p].id
      /\ call'[p].doc = call[p].doc /\ call'[p].alone = call[p].alone
      /\ \A q \in Processes \ {p} : call'[q] = call[q]
  BY <1>1 DEF Calls
<1>4. Busy(p)
  BY <1>1 DEF Busy
<1>5. MemoryTypeOK'
  BY <1>1, <1>2, <1>3 DEF MemoryInv, MemoryTypeOK
<1>6. DescriptorsAreHeld'
  BY <1>1, <1>2, <1>3, <1>4 DEF MemoryInv, DescriptorsAreHeld, Busy
<1>7. AloneIsAlone'
  BY <1>2, <1>3, <1>4, AloneStep DEF Busy
<1>8. TombsAreKept'
  BY <1>1, <1>2, <1>3 DEF MemoryInv, TombsAreKept, TombIn, Saving, Busy
<1> QED
  BY <1>5, <1>6, <1>7, <1>8 DEF MemoryInv

LEMMA WriteStep ==
  ASSUME MemoryInv, NEW p \in Processes, Write(p)
  PROVE  MemoryInv'
<1> DEFINE d == call[p].doc
<1>1. /\ disk \in StateFiles(Processes, Documents) /\ call \in [Processes -> Calls]
      /\ call[p].pc = "write" /\ disk' \in Written(disk, p, d)
      /\ call' = [call EXCEPT ![p].pc = "replace"]
      /\ UNCHANGED <<log, logtorn, drawn, calls, disturbed, forgotten>>
  BY DEF Write, MemoryInv, MemoryTypeOK
<1>2. d \in Documents /\ Busy(p) /\ disk.at[p] \in {"tmp", "path", "replaced"}
  BY <1>1 DEF Calls, Busy, MemoryInv, DescriptorsAreHeld, StateFiles
<1>3. /\ call' \in [Processes -> Calls] /\ call'[p].pc = "replace"
      /\ call'[p].op = call[p].op /\ call'[p].id = call[p].id
      /\ call'[p].doc = d /\ call'[p].alone = call[p].alone
      /\ \A q \in Processes \ {p} : call'[q] = call[q]
  BY <1>1 DEF Calls
<1> HIDE DEF d
<1>4. /\ disk' \in StateFiles(Processes, Documents) /\ disk'.at[p] = "closed"
      /\ \A q \in Processes \ {p} : disk'.at[q] = disk.at[q]
      /\ disk'.path \in {disk.path, d, Mixed} /\ disk'.tmp \in {disk.tmp, d, Mixed}
      /\ disk.at[p] = "tmp" /\ disk.tmp = Blank => disk'.tmp = d
  BY <1>1, <1>2, WrittenFile
<1>5. MemoryTypeOK'
  BY <1>1, <1>3, <1>4 DEF MemoryInv, MemoryTypeOK
<1>6. DescriptorsAreHeld'
  BY <1>1, <1>2, <1>3, <1>4 DEF MemoryInv, DescriptorsAreHeld, Busy
<1>7. AloneIsAlone'
  <2>1. call[p].alone => disk'.tmp = d
    BY <1>1, <1>2, <1>4 DEF MemoryInv, AloneIsAlone
  <2> QED
    BY <1>2, <1>3, <2>1, AloneStep DEF Busy
<1>8. TombsAreKept'
  <2>1. \A i \in forgotten : TombIn(d, i)
    BY <1>1, <1>2 DEF MemoryInv, TombsAreKept, Saving, d
  <2> QED
    BY <1>1, <1>3, <1>4, <2>1 DEF MemoryInv, TombsAreKept, TombIn, Saving, Busy, d
<1> QED
  BY <1>5, <1>6, <1>7, <1>8 DEF MemoryInv

LEMMA ReplaceStep ==
  ASSUME MemoryInv, NEW p \in Processes, ReplaceFile(p)
  PROVE  MemoryInv'
<1>1. /\ disk \in StateFiles(Processes, Documents) /\ call \in [Processes -> Calls]
      /\ call[p].pc = "replace" /\ Busy(p) /\ disk.at[p] = "closed"
      /\ UNCHANGED <<log, logtorn, drawn, calls>>
      /\ log \in Seq(Records) /\ logtorn \in BOOLEAN
  BY DEF ReplaceFile, Busy, MemoryInv, MemoryTypeOK, DescriptorsAreHeld
<1>2. CASE ~ CanReplace(disk)
  <2>1. Ended(p, TRUE) /\ UNCHANGED <<disk, forgotten>>
    BY <1>2 DEF ReplaceFile
  <2> QED
    BY <1>1, <2>1, EndStep
<1>3. CASE CanReplace(disk)
  <2>1. /\ disk.tmp # NoFile /\ disk' = Replaced(disk)
        /\ call' = [call EXCEPT ![p].pc = "log"]
        /\ forgotten' = IF call[p].op = "forget" /\ call[p].alone
                        THEN forgotten \cup {call[p].id} ELSE forgotten
        /\ UNCHANGED disturbed
    BY <1>3 DEF ReplaceFile, CanReplace
  <2>2. /\ disk' \in StateFiles(Processes, Documents)
        /\ disk'.path = disk.tmp /\ disk'.tmp = NoFile
        /\ \A q \in Processes : disk'.at[q] # "closed" <=> disk.at[q] # "closed"
    BY <1>1, <1>3, <2>1, ReplacedFile
  <2>3. /\ call' \in [Processes -> Calls] /\ call'[p].pc = "log"
        /\ call'[p].op = call[p].op /\ call'[p].id = call[p].id
        /\ call'[p].alone = call[p].alone
        /\ \A q \in Processes \ {p} : call'[q] = call[q]
    BY <1>1, <2>1 DEF Calls
  <2>4. call[p].id \in drawn
    BY <1>1 DEF MemoryInv, DescriptorsAreHeld
  <2>5. MemoryTypeOK'
    BY <1>1, <2>1, <2>2, <2>3, <2>4 DEF MemoryInv, MemoryTypeOK
  <2>6. DescriptorsAreHeld'
    BY <1>1, <2>2, <2>3 DEF MemoryInv, DescriptorsAreHeld, Busy
  <2>7. AloneIsAlone'
    BY <1>1, <2>3, AloneStep DEF Busy
  <2>8. TombsAreKept'
    <3>1. \A q \in Processes : Saving(q)' => q # p /\ Saving(q) /\ call'[q] = call[q]
      BY <2>3 DEF Saving
    <3>2. \A q \in Processes : Busy(q)' => Busy(q) /\ call'[q].op = call[q].op /\ call'[q].id = call[q].id
      BY <1>1, <2>3 DEF Busy
    <3>3. ASSUME NEW i \in forgotten
          PROVE  /\ TombIn(disk'.path, i) /\ disk'.tmp = NoFile
                 /\ \A q \in Processes : Saving(q)' => TombIn(call'[q].doc, i)
                 /\ \A q \in Processes : Busy(q)' /\ call'[q].op = "remember" => call'[q].id # i
      BY <2>1, <2>2, <3>1, <3>2 DEF MemoryInv, TombsAreKept
    <3>4. ASSUME call[p].op = "forget", call[p].alone
          PROVE  /\ TombIn(disk'.path, call[p].id) /\ disk'.tmp = NoFile
                 /\ \A q \in Processes : ~ Saving(q)'
                 /\ \A q \in Processes : Busy(q)' => call'[q].op # "remember"
      <4>1. /\ disk.tmp = call[p].doc /\ TombIn(call[p].doc, call[p].id)
            /\ \A q \in Processes \ {p} : ~ Busy(q)
        BY <1>1, <3>4 DEF MemoryInv, AloneIsAlone, TombsAreKept, Saving
      <4> QED
        BY <2>2, <2>3, <3>1, <3>2, <3>4, <4>1 DEF Busy, Saving
    <3>5. \A q \in Processes : Saving(q)' /\ call'[q].op = "forget" => TombIn(call'[q].doc, call'[q].id)
      BY <3>1 DEF MemoryInv, TombsAreKept
    <3>6. ASSUME NEW i \in forgotten'
          PROVE  /\ TombIn(disk'.path, i) /\ disk'.tmp = NoFile
                 /\ \A q \in Processes : Saving(q)' => TombIn(call'[q].doc, i)
                 /\ \A q \in Processes : Busy(q)' /\ call'[q].op = "remember" => call'[q].id # i
      BY <2>1, <3>3, <3>4
    <3> QED
      BY <3>5, <3>6 DEF TombsAreKept, TombIn
  <2> QED
    BY <2>5, <2>6, <2>7, <2>8 DEF MemoryInv
<1> QED
  BY <1>2, <1>3

LEMMA LoadStep ==
  ASSUME MemoryInv, NEW p \in Processes, Load(p)
  PROVE  MemoryInv'
<1> DEFINE c == call[p]
           refused == ~ Readable(disk) \/ Refused(c, Loaded)
           new == Changed(c, IF c.op = "remember" THEN c.item ELSE Loaded[c.id])
           doc == [i \in DOMAIN Loaded \cup {c.id} |-> IF i = c.id THEN new ELSE Loaded[i]]
<1>1. /\ disk \in StateFiles(Processes, Documents) /\ call \in [Processes -> Calls]
      /\ c.pc = "load" /\ Busy(p) /\ disk.at[p] = "closed" /\ c.id \in drawn /\ drawn \subseteq Ids
      /\ UNCHANGED <<disk, log, logtorn, drawn, calls, forgotten>>
      /\ log \in Seq(Records) /\ logtorn \in BOOLEAN
  BY DEF Load, Busy, MemoryInv, MemoryTypeOK, DescriptorsAreHeld
<1>2. CASE refused
  <2>1. Ended(p, FALSE)
    BY <1>2 DEF Load
  <2> QED
    BY <1>1, <2>1, EndStep
<1>3. CASE ~ refused
  <2>1. /\ call' = [call EXCEPT ![p] = [c EXCEPT !.pc = "open", !.item = new, !.doc = doc]]
        /\ UNCHANGED disturbed
    BY <1>3 DEF Load
  <2>2. /\ c \in Calls /\ c.op \in Ops /\ c.item \in Items /\ c.id \in Ids
    BY <1>1 DEF Calls
  <2>3. /\ disk.path \notin {Blank, Mixed} /\ Loaded \in Documents
        /\ DOMAIN Loaded \subseteq Ids /\ Loaded \in [DOMAIN Loaded -> Items]
        /\ c.op # "remember" => c.id \in DOMAIN Loaded
        /\ c.op = "update" => ~ Loaded[c.id].deleted
    <3>1. disk.path \notin {Blank, Mixed} /\ Loaded \in Documents
      BY <1>1, <1>3, MemoryTypes DEF Readable, Loaded, StateFiles
    <3> QED
      BY <1>3, <3>1, MemoryTypes DEF Refused
  <2>4. new \in Items /\ (c.op = "forget" => new.deleted /\ new.fact = Erased)
    <3> DEFINE old == IF c.op = "remember" THEN c.item ELSE Loaded[c.id]
    <3>1. old \in Items
      BY <2>2, <2>3
    <3>2. new = Changed(c, old)
      OBVIOUS
    <3> HIDE DEF old, new, c
    <3> QED
      BY <2>2, <3>1, <3>2 DEF Changed, Items, Ops
  <2>5. c.op # "remember" /\ Loaded[c.id].deleted /\ Loaded[c.id].fact = Erased
          => new.deleted /\ new.fact = Erased
    <3> SUFFICES ASSUME c.op # "remember", Loaded[c.id].deleted, Loaded[c.id].fact = Erased
                 PROVE  new.deleted /\ new.fact = Erased
      OBVIOUS
    <3>1. new = Changed(c, Loaded[c.id]) /\ Loaded[c.id] \in Items
      BY <2>3
    <3> HIDE DEF new, c
    <3> QED
      BY <2>2, <2>3, <2>4, <3>1 DEF Changed, Items, Ops
  <2> HIDE DEF new
  <2>6. /\ doc \in Documents /\ DOMAIN doc = DOMAIN Loaded \cup {c.id}
        /\ doc[c.id] = new /\ \A i \in DOMAIN Loaded : i # c.id => doc[i] = Loaded[i]
    <3>1. DOMAIN Loaded \cup {c.id} \in SUBSET Ids
      BY <2>2, <2>3
    <3>2. doc \in [DOMAIN Loaded \cup {c.id} -> Items]
      BY <2>3, <2>4
    <3> QED
      BY <3>1, <3>2, MemoryTypes
  <2> HIDE DEF doc
  <2>7. /\ call' \in [Processes -> Calls] /\ call'[p].pc = "open" /\ call'[p].doc = doc
        /\ call'[p].op = c.op /\ call'[p].id = c.id /\ call'[p].alone = c.alone
        /\ \A q \in Processes \ {p} : call'[q] = call[q]
    <3> DEFINE c2 == [c EXCEPT !.pc = "open", !.item = new, !.doc = doc]
    <3>1. /\ c2 \in Calls /\ c2.pc = "open" /\ c2.doc = doc
          /\ c2.op = c.op /\ c2.id = c.id /\ c2.alone = c.alone
      BY <2>2, <2>4, <2>6 DEF Calls
    <3> HIDE DEF c2, c
    <3> QED
      BY <1>1, <2>1, <3>1 DEF c, c2
  <2>8. MemoryTypeOK'
    BY <1>1, <2>1, <2>7 DEF MemoryInv, MemoryTypeOK
  <2>9. DescriptorsAreHeld'
    BY <1>1, <2>7 DEF MemoryInv, DescriptorsAreHeld, Busy
  <2>10. AloneIsAlone'
    BY <1>1, <2>7, AloneStep DEF Busy
  <2>11. TombsAreKept'
    <3>1. ASSUME NEW i \in forgotten PROVE TombIn(doc, i)
      <4>1. TombIn(disk.path, i) /\ (c.op = "remember" => c.id # i)
        BY <1>1 DEF MemoryInv, TombsAreKept
      <4>2. disk.path \in Documents /\ Loaded = disk.path
        BY <2>3, <4>1, FilesAssumption DEF TombIn, Loaded
      <4>3. i \in DOMAIN Loaded /\ Loaded[i].deleted /\ Loaded[i].fact = Erased
        BY <2>3, <4>1, <4>2 DEF TombIn
      <4>4. i \in DOMAIN doc /\ doc[i].deleted /\ doc[i].fact = Erased
        BY <2>5, <2>6, <4>1, <4>3
      <4> QED
        BY <2>6, <4>4 DEF TombIn
    <3>2. c.op = "forget" => TombIn(doc, c.id)
      BY <2>4, <2>6 DEF TombIn
    <3> HIDE DEF c
    <3>3. \A q \in Processes : Busy(q)' => Busy(q) /\ call'[q].op = call[q].op /\ call'[q].id = call[q].id
      BY <1>1, <2>7 DEF Busy, c
    <3>4. \A q \in Processes : Saving(q)' => \/ q = p
                                             \/ Saving(q) /\ call'[q] = call[q]
      BY <2>7 DEF Saving
    <3>5. ASSUME NEW i \in forgotten
          PROVE  /\ TombIn(disk'.path, i)
                 /\ disk'.tmp = NoFile \/ TombIn(disk'.tmp, i)
                 /\ \A q \in Processes : Saving(q)' => TombIn(call'[q].doc, i)
                 /\ \A q \in Processes : Busy(q)' /\ call'[q].op = "remember" => call'[q].id # i
      BY <1>1, <2>7, <3>1, <3>3, <3>4 DEF MemoryInv, TombsAreKept
    <3>6. \A q \in Processes : Saving(q)' /\ call'[q].op = "forget" => TombIn(call'[q].doc, call'[q].id)
      BY <2>7, <3>2, <3>4 DEF MemoryInv, TombsAreKept
    <3> QED
      BY <1>1, <3>5, <3>6 DEF TombsAreKept, TombIn
  <2> QED
    BY <2>8, <2>9, <2>10, <2>11 DEF MemoryInv
<1> QED
  BY <1>2, <1>3

LEMMA MemoryInvNext == MemoryInv /\ [MemoryNext]_memoryVars => MemoryInv'
<1> SUFFICES ASSUME MemoryInv, [MemoryNext]_memoryVars PROVE MemoryInv'
  OBVIOUS
<1>1. CASE UNCHANGED memoryVars
  BY <1>1 DEF memoryVars, MemoryInv, MemoryTypeOK, DescriptorsAreHeld, AloneIsAlone, TombsAreKept,
     TombIn, Busy, Saving
<1> QED
  BY <1>1, MemoryCallStep, LoadStep, OpenStep, WriteStep, ReplaceStep, LogStep, FailStep
  DEF MemoryNext

LEMMA MemoryInvariance == MemorySpec => []MemoryInv
  BY MemoryInvInit, MemoryInvNext, PTL DEF MemorySpec

(* The memory file, its audit records and the calls on them are well       *)
(* typed, and only ids that were drawn are disturbed or forgotten.         *)
THEOREM MemoryTypeCorrect == MemorySpec => []MemoryTypeOK
<1>1. MemoryInv => MemoryTypeOK
  BY DEF MemoryInv
<1> QED
  BY <1>1, MemoryInvariance, PTL

(* What an undisturbed forget has erased stays erased, whatever other      *)
(* calls have loaded before, fail at or overlap with.                      *)
THEOREM ForgettingIsFinal == MemorySpec => []ForgottenStays
<1>1. MemoryInv => ForgottenStays
  <2> SUFFICES ASSUME MemoryInv, Readable(disk), NEW i \in forgotten
               PROVE  i \in DOMAIN Loaded \ Searchable /\ Loaded[i].fact = Erased
    BY DEF ForgottenStays
  <2>1. TombIn(disk.path, i) /\ disk.path \notin {Blank, Mixed}
    BY DEF MemoryInv, TombsAreKept, Readable
  <2>2. Loaded = disk.path
    BY <2>1, FilesAssumption DEF TombIn, Loaded
  <2> QED
    BY <2>1, <2>2 DEF TombIn, Searchable
<1> QED
  BY <1>1, MemoryInvariance, PTL

-----------------------------------------------------------------------------
(* MemoryStore: what verify_memory reads in the chain.                     *)

LEMMA MaxIsGreatest ==
  ASSUME NEW S \in SUBSET Nat, NEW m \in S, \A k \in S : k <= m
  PROVE  Max(S) = m
<1>1. \A x \in S : (\A y \in S : x >= y) <=> x = m
  OBVIOUS
<1> QED
  BY <1>1 DEF Max

LEMMA AppendedRecord ==
  ASSUME log \in Seq(Records), NEW r \in Records, log' = Append(log, r)
  PROVE  /\ DOMAIN log = 1 .. Len(log) /\ Len(log) \in Nat
         /\ DOMAIN log' = DOMAIN log \cup {Len(log) + 1}
         /\ \A k \in DOMAIN log : log'[k] = log[k]
         /\ log'[Len(log) + 1] = r
<1>1. Len(log) \in Nat /\ DOMAIN log = 1 .. Len(log)
  OBVIOUS
<1>2. Len(log') = Len(log) + 1 /\ DOMAIN log' = 1 .. Len(log) + 1
  OBVIOUS
<1>3. \A k \in 1 .. Len(log) : log'[k] = log[k]
  OBVIOUS
<1> QED
  BY <1>1, <1>2, <1>3

LEMMA AppendedRecords ==
  ASSUME log \in Seq(Records), NEW r \in Records, log' = Append(log, r), NEW i, NEW E
  PROVE  RecordsOf(i, E)' = IF r.id = i /\ r.event \in E
                            THEN RecordsOf(i, E) \cup {Len(log) + 1} ELSE RecordsOf(i, E)
  BY AppendedRecord DEF RecordsOf

(* A new record of i among the events is the latest; another record leaves *)
(* the latest as it was.                                                   *)
LEMMA LatestAppended ==
  ASSUME log \in Seq(Records), NEW r \in Records, log' = Append(log, r), NEW i, NEW E,
         r.id = i, r.event \in E
  PROVE  Latest(i, E)' = r
<1> DEFINE S == RecordsOf(i, E) \cup {Len(log) + 1}
<1>1. RecordsOf(i, E)' = S
  BY AppendedRecords
<1>2. S \in SUBSET Nat /\ Len(log) + 1 \in S /\ \A k \in S : k <= Len(log) + 1
  BY AppendedRecord DEF RecordsOf
<1> HIDE DEF S
<1>3. Max(S) = Len(log) + 1
  BY <1>2, MaxIsGreatest
<1>4. Latest(i, E)' = log'[Max(RecordsOf(i, E)')]
  BY DEF Latest
<1> QED
  BY <1>1, <1>3, <1>4, AppendedRecord

LEMMA LatestKept ==
  ASSUME log \in Seq(Records), NEW r \in Records, log' = Append(log, r), NEW i, NEW E,
         ~ (r.id = i /\ r.event \in E), RecordsOf(i, E) # {}
  PROVE  Latest(i, E)' = Latest(i, E)
<1> DEFINE S == RecordsOf(i, E)
<1>1. S' = S
  BY AppendedRecords
<1>2. S \in SUBSET Nat /\ S # {} /\ Len(log) \in Nat /\ \A k \in S : k <= Len(log)
  BY AppendedRecord DEF RecordsOf
<1>3. S \subseteq DOMAIN log
  BY DEF RecordsOf
<1>4. Latest(i, E)' = log'[Max(S')] /\ Latest(i, E) = log[Max(S)]
  BY DEF Latest
<1> HIDE DEF S
<1>5. PICK m \in S : \A k \in S : k <= m
  BY <1>2, GreatestElement
<1>6. Max(S) = m
  BY <1>2, <1>5, MaxIsGreatest
<1> QED
  BY <1>1, <1>3, <1>4, <1>5, <1>6, AppendedRecord

LEMMA WritesOf ==
  /\ \A i \in Ids : i \in DOMAIN Writes <=> RecordsOf(i, {"remember"}) # {}
  /\ \A i \in DOMAIN Writes :
       /\ Writes[i].fact = Latest(i, {"remember", "update"}).fact
       /\ Writes[i].tier = Latest(i, {"remember", "update", "promote"}).tier
  /\ \A i \in Ids : i \in Forgets <=> RecordsOf(i, {"forget"}) # {}
  /\ DOMAIN Writes \subseteq Ids /\ Forgets \subseteq Ids
  BY DEF Writes, Forgets

(* The chained write of an id changes only by a record of that id.         *)
LEMMA OtherRecord ==
  ASSUME log \in Seq(Records), NEW r \in Records, log' = Append(log, r), NEW i \in Ids, r.id # i
  PROVE  /\ i \in DOMAIN Writes' <=> i \in DOMAIN Writes
         /\ i \in DOMAIN Writes =>
              Writes'[i].fact = Writes[i].fact /\ Writes'[i].tier = Writes[i].tier
         /\ i \in Forgets' <=> i \in Forgets
<1>1. \A E : RecordsOf(i, E)' = RecordsOf(i, E)
  BY AppendedRecords
<1>2. (i \in DOMAIN Writes' <=> i \in DOMAIN Writes) /\ (i \in Forgets' <=> i \in Forgets)
  BY <1>1, WritesOf DEF Writes, Forgets
<1>3. ASSUME i \in DOMAIN Writes
      PROVE  Writes'[i].fact = Writes[i].fact /\ Writes'[i].tier = Writes[i].tier
  <2> DEFINE F == {"remember", "update"}
             T == {"remember", "update", "promote"}
  <2>1. RecordsOf(i, F) # {} /\ RecordsOf(i, T) # {}
    BY <1>3, WritesOf DEF RecordsOf
  <2> HIDE DEF F, T
  <2>2. Latest(i, F)' = Latest(i, F) /\ Latest(i, T)' = Latest(i, T)
    BY <2>1, LatestKept
  <2>3. Writes'[i].fact = Latest(i, F)'.fact /\ Writes'[i].tier = Latest(i, T)'.tier
    BY <1>2, <1>3 DEF Writes, F, T
  <2> QED
    BY <1>3, <2>2, <2>3, WritesOf DEF F, T
<1> QED
  BY <1>2, <1>3

(* What a record of i makes of its chained write.                          *)
LEMMA OwnRecord ==
  ASSUME log \in Seq(Records), NEW r \in Records, log' = Append(log, r), NEW i \in Ids, r.id = i,
         r.event # "remember" => i \in DOMAIN Writes
  PROVE  /\ i \in DOMAIN Writes'
         /\ r.event \in {"remember", "update"} => Writes'[i].fact = r.fact
         /\ r.event = "promote" => Writes'[i].fact = Writes[i].fact
         /\ r.event # "forget" => Writes'[i].tier = r.tier
         /\ i \in Forgets' <=> i \in Forgets \/ r.event = "forget"
<1> DEFINE F == {"remember", "update"}
           T == {"remember", "update", "promote"}
<1>1. RecordsOf(i, {"remember"})' # {}
  <2>1. r.event # "remember" => RecordsOf(i, {"remember"}) # {}
    BY WritesOf
  <2>2. r.event = "remember" => RecordsOf(i, {"remember"})' = RecordsOf(i, {"remember"}) \cup {Len(log) + 1}
    BY AppendedRecords
  <2>3. r.event # "remember" => RecordsOf(i, {"remember"})' = RecordsOf(i, {"remember"})
    BY AppendedRecords
  <2> QED
    BY <2>1, <2>2, <2>3
<1>2. i \in DOMAIN Writes'
  BY <1>1 DEF Writes
<1>3. Writes'[i].fact = Latest(i, F)'.fact /\ Writes'[i].tier = Latest(i, T)'.tier
  BY <1>2 DEF Writes
<1>4. r.event \in F => Latest(i, F)' = r
  BY LatestAppended
<1>5. r.event \in T => Latest(i, T)' = r
  BY LatestAppended
<1>6. r.event \in Ops
  BY DEF Records
<1>7. r.event = "promote" => Writes'[i].fact = Writes[i].fact
  <2> SUFFICES ASSUME r.event = "promote" PROVE Writes'[i].fact = Writes[i].fact
    OBVIOUS
  <2>1. i \in DOMAIN Writes /\ RecordsOf(i, F) # {} /\ r.event \notin F
    BY WritesOf DEF RecordsOf
  <2> HIDE DEF F
  <2>2. Latest(i, F)' = Latest(i, F)
    BY <2>1, LatestKept
  <2> QED
    BY <1>3, <2>1, <2>2, WritesOf DEF F
<1>8. i \in Forgets' <=> i \in Forgets \/ r.event = "forget"
  <2>1. RecordsOf(i, {"forget"})' = IF r.event = "forget" THEN RecordsOf(i, {"forget"}) \cup {Len(log) + 1}
                                    ELSE RecordsOf(i, {"forget"})
    BY AppendedRecords
  <2>2. i \in Forgets' <=> RecordsOf(i, {"forget"})' # {}
    BY DEF Forgets
  <2> QED
    BY <2>1, <2>2, WritesOf
<1> QED
  BY <1>2, <1>3, <1>4, <1>5, <1>6, <1>7, <1>8 DEF Ops

-----------------------------------------------------------------------------
(* MemoryStore: the file and the chain.                                    *)

(* verify_memory would not report i of this document.                      *)
Matches(doc, i, writes, forgets) ==
  /\ i \in DOMAIN doc => /\ i \in DOMAIN writes
                         /\ doc[i].deleted => i \in forgets
                         /\ ~ doc[i].deleted => ~ Drifted(doc[i], writes[i])
  /\ i \in forgets => i \in DOMAIN doc

(* No disturbed call has been on i.  Untouched: and one that is on it now  *)
(* has overlapped no other and not replaced the file yet.                  *)
Quiet(i) == i \notin disturbed /\ \A p \in Processes : Busy(p) => call[p].id # i
Untouched(i) ==
  /\ i \notin disturbed
  /\ \A p \in Processes : Busy(p) /\ call[p].id = i => call[p].alone /\ call[p].pc # "log"

FileMatches == Readable(disk) => \A i \in Ids : Untouched(i) => Matches(Loaded, i, Writes, Forgets)

DocumentsMatch == \A p \in Processes : Saving(p) =>
  \A i \in Ids \ {call[p].id} : Untouched(i) => Matches(call[p].doc, i, Writes, Forgets)

(* Once a writer has opened it, the temporary file holds what was loaded   *)
(* in a call that overlaps the writer's, or is the writer's own.           *)
Writer(p) == call[p].pc \in {"write", "replace"}
TemporaryMatches ==
  (\E p \in Processes : Writer(p)) /\ disk.tmp \notin {NoFile, Blank, Mixed} =>
    \A i \in Ids : Quiet(i) => Matches(disk.tmp, i, Writes, Forgets)

(* With its record, the item of an undisturbed call will match.            *)
Prepared(c, writes, forgets) ==
  /\ c.id \in DOMAIN c.doc /\ c.doc[c.id] = c.item
  /\ c.op \in {"remember", "update"} => ~ c.item.deleted
  /\ c.op = "forget" => c.item.deleted
  /\ c.op # "remember" => c.id \in DOMAIN writes
  /\ c.op = "promote" => /\ c.item.deleted => c.id \in forgets
                         /\ ~ c.item.deleted => c.item.fact = writes[c.id].fact

CallsArePrepared == \A p \in Processes :
  /\ Busy(p) /\ call[p].op = "remember" => ~ call[p].item.deleted
  /\ (Saving(p) \/ call[p].pc = "log") /\ call[p].alone /\ call[p].id \notin disturbed =>
       Prepared(call[p], Writes, Forgets)
  /\ call[p].pc = "log" /\ call[p].alone => disk.path = call[p].doc

DamageIsSeen == ~ Readable(disk) => disturbed # {} \/ \E p \in Processes : Busy(p) /\ ~ call[p].alone

NoFileIsNew == disk.path = NoFile =>
  log = <<>> /\ \A p \in Processes : call[p].pc # "log" /\ disk.at[p] # "path"

HistoryInv == /\ FileMatches /\ DocumentsMatch /\ TemporaryMatches /\ CallsArePrepared
              /\ DamageIsSeen /\ NoFileIsNew

LEMMA MatchesFrame ==
  ASSUME NEW doc \in Documents, NEW i, NEW w, NEW f, NEW w2, NEW f2, Matches(doc, i, w, f),
         i \in DOMAIN w2 <=> i \in DOMAIN w,
         i \in DOMAIN w => w2[i].fact = w[i].fact /\ w2[i].tier = w[i].tier,
         i \in f2 <=> i \in f
  PROVE  Matches(doc, i, w2, f2)
  BY DEF Matches, Drifted

LEMMA EmptyChain ==
  ASSUME log = <<>>
  PROVE  Writes = [i \in {} |-> <<>>] /\ DOMAIN Writes = {} /\ Forgets = {}
<1>1. \A i, E : RecordsOf(i, E) = {}
  BY DEF RecordsOf
<1>2. Forgets = {} /\ {j \in Ids : RecordsOf(j, {"remember"}) # {}} = {}
  BY <1>1 DEF Forgets
<1> QED
  BY <1>2 DEF Writes

LEMMA HistoryInvInit == MemoryInit => HistoryInv
<1> SUFFICES ASSUME MemoryInit PROVE HistoryInv
  OBVIOUS
<1>1. \A p \in Processes : call[p].pc = "idle"
  BY DEF MemoryInit, NoCall
<1>2. DocumentsMatch /\ TemporaryMatches /\ CallsArePrepared
  BY <1>1 DEF DocumentsMatch, TemporaryMatches, CallsArePrepared, Saving, Writer, Busy
<1>3. CASE drawn = {} /\ disk = FileWith(Processes, NoFile) /\ log = <<>>
  <2>1. disk.path = NoFile /\ Loaded = NoItems /\ \A p \in Processes : disk.at[p] = "closed"
    BY <1>3 DEF FileWith, Loaded
  <2>2. Readable(disk)
    BY <2>1, CredentialsAssumption DEF Readable
  <2>3. \A i : Matches(NoItems, i, Writes, Forgets)
    BY <1>3, EmptyChain DEF Matches, NoItems
  <2> QED
    BY <1>1, <1>2, <1>3, <2>1, <2>2, <2>3 DEF HistoryInv, FileMatches, DamageIsSeen, NoFileIsNew
<1>4. ASSUME NEW id \in Ids, NEW fact \in Facts, NEW tier \in Tiers,
             disk = FileWith(Processes, [i \in {id} |-> [fact |-> fact, tier |-> tier, deleted |-> FALSE]]),
             log = <<[event |-> "remember", id |-> id, fact |-> fact, tier |-> tier]>>
      PROVE  HistoryInv
  <2> DEFINE doc == [i \in {id} |-> [fact |-> fact, tier |-> tier, deleted |-> FALSE]]
             r == [event |-> "remember", id |-> id, fact |-> fact, tier |-> tier]
  <2>1. doc \in Documents /\ disk.path = doc
    <3>1. [fact |-> fact, tier |-> tier, deleted |-> FALSE] \in Items
      BY DEF Items
    <3>2. doc \in [{id} -> Items]
      BY <3>1
    <3> QED
      BY <1>4, <3>2, MemoryTypes DEF FileWith
  <2>2. disk.path \notin {NoFile, Blank, Mixed} /\ Loaded = doc
    BY <2>1, FilesAssumption DEF Loaded
  <2>3. \A i, E : RecordsOf(i, E) = IF i = id /\ "remember" \in E THEN {1} ELSE {}
    BY <1>4 DEF RecordsOf
  <2>4. Max({1}) = 1
    BY MaxIsGreatest
  <2>5. \A E : "remember" \in E => Latest(id, E) = r
    BY <1>4, <2>3, <2>4 DEF Latest
  <2>6. DOMAIN Writes = {id} /\ Writes[id].fact = fact /\ Writes[id].tier = tier /\ Forgets = {}
    <3>1. \A i \in Ids : (i \in DOMAIN Writes <=> i = id) /\ i \notin Forgets
      BY <2>3, WritesOf
    <3>2. DOMAIN Writes = {id} /\ Forgets = {}
      BY <3>1, WritesOf
    <3>3. Latest(id, {"remember", "update"}) = r /\ Latest(id, {"remember", "update", "promote"}) = r
      BY <2>5
    <3> QED
      BY <3>2, <3>3, WritesOf
  <2>7. \A i \in Ids : Matches(doc, i, Writes, Forgets)
    BY <2>6 DEF Matches, Drifted
  <2> QED
    BY <1>2, <2>2, <2>7 DEF HistoryInv, FileMatches, DamageIsSeen, NoFileIsNew, Readable
<1> QED
  BY <1>3, <1>4 DEF MemoryInit

LEMMA SameChain == UNCHANGED log => Writes' = Writes /\ Forgets' = Forgets
  BY DEF Writes, Forgets, Latest, RecordsOf

(* A call begins: whoever was in one is no longer alone.                   *)
LEMMA HistoryStart ==
  ASSUME MemoryInv, HistoryInv,
         NEW p \in Processes, NEW op \in Ops, NEW id \in Ids, NEW item \in Items,
         Starts(p, op, id, item), op = "remember" => ~ item.deleted
  PROVE  HistoryInv'
<1>1. /\ ~ Busy(p)
      /\ call'[p] = [op |-> op, pc |-> "load", id |-> id, item |-> item, doc |-> NoItems,
                     alone |-> \A r \in Processes : ~ Busy(r)]
      /\ \A q \in Processes \ {p} :
           call'[q] = [call[q] EXCEPT !.alone = call[q].alone /\ ~ Busy(q)]
      /\ UNCHANGED <<disk, log, logtorn, disturbed, forgotten>>
  BY DEF Starts, MemoryInv, MemoryTypeOK
<1>2. /\ call'[p].pc = "load" /\ call'[p].op = op /\ call'[p].id = id /\ call'[p].item = item
      /\ call'[p].alone => \A r \in Processes : ~ Busy(r)
  BY <1>1
<1>3. \A q \in Processes \ {p} :
        /\ call'[q].pc = call[q].pc /\ call'[q].op = call[q].op /\ call'[q].id = call[q].id
        /\ call'[q].doc = call[q].doc /\ call'[q].item = call[q].item
        /\ call'[q].alone => ~ Busy(q)
  <2> SUFFICES ASSUME NEW q \in Processes \ {p}
               PROVE  /\ call'[q].pc = call[q].pc /\ call'[q].op = call[q].op
                      /\ call'[q].id = call[q].id /\ call'[q].doc = call[q].doc
                      /\ call'[q].item = call[q].item
                      /\ call'[q].alone => ~ Busy(q)
    OBVIOUS
  <2>1. call[q] \in Calls /\ call'[q] = [call[q] EXCEPT !.alone = call[q].alone /\ ~ Busy(q)]
    BY <1>1 DEF MemoryInv, MemoryTypeOK
  <2> QED
    BY <2>1 DEF Calls
<1>4. Writes' = Writes /\ Forgets' = Forgets
  BY <1>1, SameChain
<1>5. /\ \A q \in Processes : Saving(q)' => q # p /\ Saving(q)
      /\ \A q \in Processes : Writer(q)' => Writer(q)
      /\ \A q \in Processes : Busy(q) => q # p /\ Busy(q)' /\ ~ call'[q].alone
  BY <1>1, <1>2, <1>3 DEF Saving, Writer, Busy
<1>6. \A i : (Untouched(i)' => Untouched(i)) /\ (Quiet(i)' => Quiet(i))
  BY <1>1, <1>3, <1>5 DEF Untouched, Quiet
<1>7. FileMatches' /\ DocumentsMatch' /\ TemporaryMatches'
  BY <1>1, <1>3, <1>4, <1>5, <1>6
  DEF HistoryInv, FileMatches, DocumentsMatch, TemporaryMatches, Loaded
<1>8. CallsArePrepared'
  BY <1>2, <1>3 DEF HistoryInv, CallsArePrepared, Busy, Saving
<1>9. DamageIsSeen' /\ NoFileIsNew'
  BY <1>1, <1>2, <1>3, <1>5 DEF HistoryInv, DamageIsSeen, NoFileIsNew
<1> QED
  BY <1>7, <1>8, <1>9 DEF HistoryInv

LEMMA HistoryCallStep ==
  ASSUME MemoryInv, HistoryInv, NEW p \in Processes, CallRemember(p) \/ CallChange(p)
  PROVE  HistoryInv'
<1>1. CASE CallRemember(p)
  <2>1. PICK id \in Ids \ drawn, fact \in Facts, tier \in Tiers :
          Starts(p, "remember", id, [fact |-> fact, tier |-> tier, deleted |-> FALSE])
    BY <1>1 DEF CallRemember
  <2>2. [fact |-> fact, tier |-> tier, deleted |-> FALSE] \in Items /\ "remember" \in Ops
    BY DEF Items, Ops
  <2> QED
    BY <2>1, <2>2, HistoryStart
<1>2. CASE CallChange(p)
  <2>1. PICK op \in {"promote", "update", "forget"}, id \in drawn :
          \/ op = "promote" /\ \E tier \in Tiers : Starts(p, op, id, [NoCall.item EXCEPT !.tier = tier])
          \/ op = "update" /\ \E fact \in Facts : Starts(p, op, id, [NoCall.item EXCEPT !.fact = fact])
          \/ op = "forget" /\ Starts(p, op, id, NoCall.item)
    BY <1>2 DEF CallChange
  <2>2. /\ \A tier \in Tiers : [NoCall.item EXCEPT !.tier = tier] \in Items
        /\ \A fact \in Facts : [NoCall.item EXCEPT !.fact = fact] \in Items
    BY MemoryTypes DEF Items
  <2>3. PICK item \in Items : Starts(p, op, id, item)
    BY <2>1, <2>2, MemoryTypes
  <2>4. op \in Ops /\ op # "remember" /\ id \in Ids
    BY DEF MemoryInv, MemoryTypeOK, Ops
  <2> QED
    BY <2>3, <2>4, HistoryStart
<1> QED
  BY <1>1, <1>2

(* A call ends without a record.  What an undisturbed one leaves behind    *)
(* does not reach the file.                                                *)
LEMMA HistoryEnd ==
  ASSUME MemoryInv, HistoryInv, NEW p \in Processes, NEW failed \in BOOLEAN, Ended(p, failed), Busy(p),
         disk' \in Abandoned(disk, p), UNCHANGED log,
         call[p].pc = "log" => failed
  PROVE  HistoryInv'
<1>1. /\ call'[p].pc = "idle" /\ \A q \in Processes \ {p} : call'[q] = call[q]
      /\ disturbed \subseteq disturbed'
      /\ failed \/ ~ call[p].alone => call[p].id \in disturbed'
  <2>1. call'[p] = NoCall /\ \A q \in Processes \ {p} : call'[q] = call[q]
    BY EndedFrame
  <2> QED
    BY <2>1, MemoryTypes DEF Ended
<1>2. /\ disk \in StateFiles(Processes, Documents)
      /\ disk'.at[p] = "closed" /\ \A q \in Processes \ {p} : disk'.at[q] = disk.at[q]
      /\ disk'.path \in {disk.path, Mixed} /\ disk'.tmp \in {disk.tmp, Mixed}
      /\ disk.at[p] # "path" => disk'.path = disk.path
  <2>1. disk \in StateFiles(Processes, Documents)
    BY DEF MemoryInv, MemoryTypeOK
  <2> QED
    BY <2>1, AbandonedFile
<1>3. call[p].alone => disk'.path = disk.path /\ \A q \in Processes \ {p} : ~ Busy(q)
  <2>1. call[p].alone => disk.at[p] # "path"
    BY DEF MemoryInv, AloneIsAlone, DescriptorsAreHeld
  <2> QED
    BY <1>2, <2>1 DEF MemoryInv, AloneIsAlone
<1>4. Writes' = Writes /\ Forgets' = Forgets
  BY SameChain
<1>5. \A q \in Processes : Busy(q)' => q # p /\ Busy(q) /\ call'[q] = call[q]
  BY <1>1 DEF Busy
<1>6. \A q \in Processes : /\ Saving(q)' => q # p /\ Saving(q) /\ call'[q] = call[q]
                           /\ Writer(q)' => q # p /\ Writer(q)
  BY <1>1 DEF Saving, Writer
<1>7. \A i : Untouched(i)' => Untouched(i)
  <2> SUFFICES ASSUME NEW i, Untouched(i)' PROVE Untouched(i)
    OBVIOUS
  <2>1. i \notin disturbed' /\ i \notin disturbed
    BY <1>1 DEF Untouched
  <2>2. call[p].id = i => call[p].alone /\ call[p].pc # "log"
    BY <1>1, <2>1
  <2>3. \A q \in Processes \ {p} : Busy(q) /\ call[q].id = i => call[q].alone /\ call[q].pc # "log"
    BY <1>1 DEF Untouched, Busy
  <2> QED
    BY <2>1, <2>2, <2>3 DEF Untouched
<1>8. FileMatches'
  <2>1. Readable(disk)' => Readable(disk) /\ Loaded' = Loaded
    BY <1>2 DEF Readable, Loaded
  <2> QED
    BY <1>4, <1>7, <2>1 DEF HistoryInv, FileMatches
<1>9. DocumentsMatch'
  BY <1>4, <1>6, <1>7 DEF HistoryInv, DocumentsMatch
<1>10. TemporaryMatches'
  <2> SUFFICES ASSUME NEW q \in Processes, Writer(q)', disk'.tmp \notin {NoFile, Blank, Mixed},
                      NEW i \in Ids, Quiet(i)'
               PROVE  Matches(disk'.tmp, i, Writes, Forgets)
    BY <1>4 DEF TemporaryMatches
  <2>1. disk'.tmp = disk.tmp /\ Writer(q) /\ Busy(q) /\ ~ call[p].alone
    BY <1>2, <1>3, <1>6 DEF Writer, Busy
  <2>2. Quiet(i)
    BY <1>1, <1>5, <2>1 DEF Quiet, Busy
  <2> QED
    BY <2>1, <2>2 DEF HistoryInv, TemporaryMatches
<1>11. CallsArePrepared'
  <2> SUFFICES ASSUME NEW q \in Processes, Busy(q)'
               PROVE  /\ call'[q].op = "remember" => ~ call'[q].item.deleted
                      /\ ~ call'[q].alone
    BY DEF CallsArePrepared, Saving, Busy
  <2>1. q # p /\ Busy(q) /\ call'[q] = call[q]
    BY <1>5
  <2>2. ~ call[q].alone
    BY <2>1 DEF MemoryInv, AloneIsAlone
  <2> QED
    BY <2>1, <2>2 DEF HistoryInv, CallsArePrepared
<1>12. DamageIsSeen'
  <2> SUFFICES ASSUME ~ Readable(disk)' PROVE disturbed' # {} \/ \E q \in Processes : Busy(q)' /\ ~ call'[q].alone
    BY DEF DamageIsSeen
  <2>1. CASE ~ call[p].alone
    BY <1>1, <2>1
  <2>2. CASE call[p].alone
    <3>1. ~ Readable(disk)
      BY <1>3, <2>2 DEF Readable
    <3>2. disturbed # {}
      BY <1>3, <2>2, <3>1 DEF HistoryInv, DamageIsSeen
    <3> QED
      BY <1>1, <3>2
  <2> QED
    BY <2>1, <2>2
<1>13. NoFileIsNew'
  <2>1. disk'.path = NoFile => disk.path = NoFile
    BY <1>2, CredentialsAssumption
  <2> QED
    BY <1>1, <1>2, <2>1 DEF HistoryInv, NoFileIsNew
<1> QED
  BY <1>8, <1>9, <1>10, <1>11, <1>12, <1>13 DEF HistoryInv

LEMMA NothingAbandoned ==
  ASSUME MemoryInv, NEW p \in Processes, disk.at[p] = "closed"
  PROVE  disk \in Abandoned(disk, p)
<1>1. disk = [disk EXCEPT !.at[p] = "closed"]
  BY DEF MemoryInv, MemoryTypeOK, StateFiles
<1> QED
  BY <1>1 DEF Abandoned

(* p goes on in its call, and no record is written.                        *)
Continues(p) ==
  /\ Busy(p) /\ Busy(p)' /\ UNCHANGED <<log, disturbed>>
  /\ \A q \in Processes \ {p} : call'[q] = call[q]
  /\ call'[p].op = call[p].op /\ call'[p].id = call[p].id /\ call'[p].alone = call[p].alone
  /\ call[p].pc # "log"

LEMMA ContinuesFrame ==
  ASSUME MemoryInv, HistoryInv, NEW p \in Processes, Continues(p)
  PROVE  /\ Writes' = Writes /\ Forgets' = Forgets
         /\ \A q \in Processes : Busy(q)' <=> Busy(q)
         /\ \A q \in Processes : call'[q].id = call[q].id /\ call'[q].alone = call[q].alone
                                 /\ call'[q].op = call[q].op
         /\ \A i : (Untouched(i)' => Untouched(i)) /\ (Quiet(i)' <=> Quiet(i))
         /\ call[p].alone => \A q \in Processes \ {p} : ~ Busy(q)
         /\ ~ call[p].alone => \A i : Untouched(i) => Quiet(i)
<1>1. Writes' = Writes /\ Forgets' = Forgets
  BY SameChain DEF Continues
<1>2. /\ \A q \in Processes : Busy(q)' <=> Busy(q)
      /\ \A q \in Processes : call'[q].id = call[q].id /\ call'[q].alone = call[q].alone
                              /\ call'[q].op = call[q].op
  BY DEF Continues, Busy
<1>3. \A i : (Untouched(i)' => Untouched(i)) /\ (Quiet(i)' <=> Quiet(i))
  BY <1>2 DEF Continues, Untouched, Quiet
<1>4. call[p].alone => \A q \in Processes \ {p} : ~ Busy(q)
  BY DEF MemoryInv, AloneIsAlone, Continues
<1>5. ~ call[p].alone => \A q \in Processes : Busy(q) => ~ call[q].alone
  BY DEF MemoryInv, AloneIsAlone, Continues
<1>6. ~ call[p].alone => \A i : Untouched(i) => Quiet(i)
  BY <1>5 DEF Untouched, Quiet
<1> QED
  BY <1>1, <1>2, <1>3, <1>4, <1>6

LEMMA ContinuesPrepared ==
  ASSUME MemoryInv, HistoryInv, NEW p \in Processes, Continues(p), Saving(p),
         call'[p].item = call[p].item, call'[p].doc = call[p].doc,
         call'[p].pc = "log" /\ call[p].alone => disk'.path = call[p].doc
  PROVE  CallsArePrepared'
<1>1. Prepared(call'[p], Writes', Forgets') <=> Prepared(call[p], Writes, Forgets)
  BY ContinuesFrame DEF Prepared, Continues
<1>2. \A q \in Processes \ {p} : Busy(q) => ~ call[q].alone
  BY DEF MemoryInv, AloneIsAlone, Continues
<1>3. \A q \in Processes \ {p} : Saving(q)' \/ call'[q].pc = "log" => ~ call'[q].alone
  BY <1>2 DEF Saving, Busy, Continues
<1>4. \A q \in Processes \ {p} : Busy(q)' /\ call'[q].op = "remember" => ~ call'[q].item.deleted
  BY DEF HistoryInv, CallsArePrepared, Busy, Continues
<1>5. Busy(p)' /\ call'[p].op = "remember" => ~ call'[p].item.deleted
  BY DEF HistoryInv, CallsArePrepared, Continues
<1>6. call'[p].alone /\ call'[p].id \notin disturbed' => Prepared(call'[p], Writes', Forgets')
  BY <1>1 DEF HistoryInv, CallsArePrepared, Continues
<1>7. call'[p].pc = "log" /\ call'[p].alone => disk'.path = call'[p].doc
  BY DEF Continues
<1> QED
  BY <1>3, <1>4, <1>5, <1>6, <1>7 DEF CallsArePrepared

LEMMA HistoryOpen ==
  ASSUME MemoryInv, HistoryInv, NEW p \in Processes, Open(p)
  PROVE  HistoryInv'
<1>1. /\ disk \in StateFiles(Processes, Documents) /\ call \in [Processes -> Calls]
      /\ call[p].pc = "open" /\ disk' = Opened(disk, p)
      /\ call' = [call EXCEPT ![p].pc = "write"]
      /\ UNCHANGED <<log, logtorn, drawn, calls, disturbed, forgotten>>
  BY DEF Open, MemoryInv, MemoryTypeOK
<1>2. /\ disk'.at[p] = "tmp" /\ \A q \in Processes \ {p} : disk'.at[q] = disk.at[q]
      /\ disk'.path = disk.path /\ disk'.tmp = Blank
  BY <1>1, OpenedFile
<1>3. /\ call'[p].pc = "write"
      /\ call'[p].op = call[p].op /\ call'[p].id = call[p].id /\ call'[p].item = call[p].item
      /\ call'[p].doc = call[p].doc /\ call'[p].alone = call[p].alone
      /\ \A q \in Processes \ {p} : call'[q] = call[q]
  BY <1>1 DEF Calls
<1>4. Continues(p)
  BY <1>1, <1>3 DEF Continues, Busy
<1>5. \A q \in Processes : Saving(q)' <=> Saving(q)
  BY <1>1, <1>3 DEF Saving
<1>6. FileMatches'
  BY <1>2, <1>4, ContinuesFrame DEF HistoryInv, FileMatches, Readable, Loaded
<1>7. DocumentsMatch'
  <2>1. \A q \in Processes : call'[q].doc = call[q].doc /\ call'[q].id = call[q].id
    BY <1>3
  <2> QED
    BY <1>4, <1>5, <2>1, ContinuesFrame DEF HistoryInv, DocumentsMatch
<1>8. TemporaryMatches'
  BY <1>2 DEF TemporaryMatches
<1>9. CallsArePrepared'
  BY <1>1, <1>3, <1>4, ContinuesPrepared DEF Saving
<1>10. DamageIsSeen'
  BY <1>1, <1>2, <1>4, ContinuesFrame DEF HistoryInv, DamageIsSeen, Readable
<1>11. NoFileIsNew'
  BY <1>1, <1>2, <1>3 DEF HistoryInv, NoFileIsNew
<1> QED
  BY <1>6, <1>7, <1>8, <1>9, <1>10, <1>11 DEF HistoryInv

LEMMA HistoryWrite ==
  ASSUME MemoryInv, HistoryInv, NEW p \in Processes, Write(p)
  PROVE  HistoryInv'
<1> DEFINE d == call[p].doc
<1>1. /\ disk \in StateFiles(Processes, Documents) /\ call \in [Processes -> Calls]
      /\ call[p].pc = "write" /\ disk' \in Written(disk, p, d)
      /\ call' = [call EXCEPT ![p].pc = "replace"]
      /\ UNCHANGED <<log, logtorn, drawn, calls, disturbed, forgotten>>
  BY DEF Write, MemoryInv, MemoryTypeOK
<1>2. d \in Documents /\ disk.at[p] \in {"tmp", "path", "replaced"}
      /\ d \notin {NoFile, Blank, Mixed}
  BY <1>1, FilesAssumption DEF Calls, MemoryInv, DescriptorsAreHeld, StateFiles
<1>3. /\ call'[p].pc = "replace"
      /\ call'[p].op = call[p].op /\ call'[p].id = call[p].id /\ call'[p].item = call[p].item
      /\ call'[p].doc = d /\ call'[p].alone = call[p].alone
      /\ \A q \in Processes \ {p} : call'[q] = call[q]
  BY <1>1 DEF Calls
<1> HIDE DEF d
<1>4. /\ disk'.at[p] = "closed" /\ \A q \in Processes \ {p} : disk'.at[q] = disk.at[q]
      /\ disk'.path \in {disk.path, d, Mixed} /\ disk'.tmp \in {disk.tmp, d, Mixed}
      /\ disk.at[p] = "tmp" => disk'.path = disk.path
  BY <1>1, <1>2, WrittenFile
<1>5. Continues(p)
  BY <1>1, <1>3 DEF Continues, Busy
<1>6. \A q \in Processes : Saving(q)' <=> Saving(q)
  BY <1>1, <1>3 DEF Saving
<1>7. call[p].alone => disk'.path = disk.path
  BY <1>1, <1>4, <1>5 DEF MemoryInv, AloneIsAlone, Continues
<1>8. \A i \in Ids : Quiet(i) => Matches(d, i, Writes, Forgets)
  BY <1>1, <1>5 DEF HistoryInv, DocumentsMatch, Saving, Quiet, Untouched, Continues, d
<1>9. FileMatches'
  <2> SUFFICES ASSUME Readable(disk)', NEW i \in Ids, Untouched(i)'
               PROVE  Matches(Loaded', i, Writes, Forgets)
    BY <1>5, ContinuesFrame DEF FileMatches
  <2>1. CASE disk'.path = disk.path
    BY <1>5, <2>1, ContinuesFrame DEF HistoryInv, FileMatches, Readable, Loaded
  <2>2. CASE disk'.path # disk.path
    <3>1. disk'.path = d /\ Loaded' = d
      BY <1>2, <1>4, <2>2 DEF Readable, Loaded
    <3>2. Quiet(i)
      BY <1>5, <1>7, <2>2, ContinuesFrame
    <3> QED
      BY <1>8, <3>1, <3>2
  <2> QED
    BY <2>1, <2>2
<1>10. DocumentsMatch'
  <2>1. \A q \in Processes : call'[q].doc = call[q].doc /\ call'[q].id = call[q].id
    BY <1>3 DEF d
  <2> QED
    BY <1>5, <1>6, <2>1, ContinuesFrame DEF HistoryInv, DocumentsMatch
<1>11. TemporaryMatches'
  <2> SUFFICES ASSUME disk'.tmp \notin {NoFile, Blank, Mixed}, NEW i \in Ids, Quiet(i)
               PROVE  Matches(disk'.tmp, i, Writes, Forgets)
    BY <1>5, ContinuesFrame DEF TemporaryMatches
  <2>1. CASE disk'.tmp = d
    BY <1>8, <2>1
  <2>2. CASE disk'.tmp = disk.tmp
    BY <1>1, <2>2 DEF HistoryInv, TemporaryMatches, Writer
  <2> QED
    BY <1>4, <2>1, <2>2
<1>12. CallsArePrepared'
  BY <1>1, <1>3, <1>5, ContinuesPrepared DEF Saving, d
<1>13. DamageIsSeen'
  <2>1. CASE call[p].alone
    BY <1>1, <1>5, <1>7, <2>1, ContinuesFrame DEF HistoryInv, DamageIsSeen, Readable
  <2>2. CASE ~ call[p].alone
    BY <1>3, <1>5, <2>2 DEF DamageIsSeen, Continues
  <2> QED
    BY <2>1, <2>2
<1>14. NoFileIsNew'
  <2>1. disk'.path = NoFile => disk.path = NoFile
    BY <1>2, <1>4, CredentialsAssumption
  <2> QED
    BY <1>1, <1>3, <1>4, <2>1 DEF HistoryInv, NoFileIsNew
<1> QED
  BY <1>9, <1>10, <1>11, <1>12, <1>13, <1>14 DEF HistoryInv

LEMMA HistoryReplace ==
  ASSUME MemoryInv, HistoryInv, NEW p \in Processes, ReplaceFile(p)
  PROVE  HistoryInv'
<1>1. /\ disk \in StateFiles(Processes, Documents) /\ call \in [Processes -> Calls]
      /\ call[p].pc = "replace" /\ Busy(p) /\ disk.at[p] = "closed" /\ UNCHANGED log
  BY DEF ReplaceFile, Busy, MemoryInv, MemoryTypeOK, DescriptorsAreHeld
<1>2. CASE ~ CanReplace(disk)
  <2>1. Ended(p, TRUE) /\ disk' = disk
    BY <1>2 DEF ReplaceFile
  <2> QED
    BY <1>1, <2>1, NothingAbandoned, HistoryEnd
<1>3. CASE CanReplace(disk)
  <2>1. /\ disk.tmp # NoFile /\ disk' = Replaced(disk)
        /\ call' = [call EXCEPT ![p].pc = "log"] /\ UNCHANGED disturbed
    BY <1>3 DEF ReplaceFile, CanReplace
  <2>2. disk'.path = disk.tmp /\ disk'.tmp = NoFile
    BY <1>1, <1>3, <2>1, ReplacedFile
  <2>3. /\ call'[p].pc = "log"
        /\ call'[p].op = call[p].op /\ call'[p].id = call[p].id /\ call'[p].item = call[p].item
        /\ call'[p].doc = call[p].doc /\ call'[p].alone = call[p].alone
        /\ \A q \in Processes \ {p} : call'[q] = call[q]
    BY <1>1, <2>1 DEF Calls
  <2>4. Continues(p)
    BY <1>1, <2>1, <2>3 DEF Continues, Busy
  <2>5. \A q \in Processes : Saving(q)' => q # p /\ Saving(q) /\ call'[q] = call[q]
    BY <2>3 DEF Saving
  <2>6. call[p].alone => /\ disk.tmp = call[p].doc /\ call[p].doc \in Documents
                         /\ call[p].doc \notin {NoFile, Blank, Mixed}
    BY <1>1, FilesAssumption DEF MemoryInv, AloneIsAlone, Calls
  <2>7. FileMatches'
    <3> SUFFICES ASSUME Readable(disk)', NEW i \in Ids, Untouched(i)'
                 PROVE  Matches(Loaded', i, Writes, Forgets)
      BY <2>4, ContinuesFrame DEF FileMatches
    <3>1. Loaded' = disk.tmp /\ disk.tmp \notin {NoFile, Blank, Mixed}
      BY <2>1, <2>2 DEF Readable, Loaded
    <3>2. Untouched(i) /\ call[p].id # i
      BY <2>3, <2>4, ContinuesFrame DEF Untouched, Continues
    <3>3. CASE call[p].alone
      BY <1>1, <2>6, <3>1, <3>2, <3>3 DEF HistoryInv, DocumentsMatch, Saving
    <3>4. CASE ~ call[p].alone
      BY <1>1, <2>4, <3>1, <3>2, <3>4, ContinuesFrame DEF HistoryInv, TemporaryMatches, Writer
    <3> QED
      BY <3>3, <3>4
  <2>8. DocumentsMatch'
    BY <2>4, <2>5, ContinuesFrame DEF HistoryInv, DocumentsMatch
  <2>9. TemporaryMatches'
    BY <2>2 DEF TemporaryMatches
  <2>10. CallsArePrepared'
    BY <1>1, <2>2, <2>3, <2>4, <2>6, ContinuesPrepared DEF Saving
  <2>11. DamageIsSeen'
    <3>1. CASE call[p].alone
      BY <2>2, <2>6, <3>1 DEF DamageIsSeen, Readable
    <3>2. CASE ~ call[p].alone
      BY <2>3, <2>4, <3>2 DEF DamageIsSeen, Continues
    <3> QED
      BY <3>1, <3>2
  <2>12. NoFileIsNew'
    BY <2>1, <2>2 DEF NoFileIsNew
  <2> QED
    BY <2>7, <2>8, <2>9, <2>10, <2>11, <2>12 DEF HistoryInv
<1> QED
  BY <1>2, <1>3

LEMMA HistoryLoad ==
  ASSUME MemoryInv, HistoryInv, NEW p \in Processes, Load(p)
  PROVE  HistoryInv'
<1> DEFINE c == call[p]
           refused == ~ Readable(disk) \/ Refused(c, Loaded)
           new == Changed(c, IF c.op = "remember" THEN c.item ELSE Loaded[c.id])
           doc == [i \in DOMAIN Loaded \cup {c.id} |-> IF i = c.id THEN new ELSE Loaded[i]]
<1>1. /\ disk \in StateFiles(Processes, Documents) /\ call \in [Processes -> Calls]
      /\ c.pc = "load" /\ Busy(p) /\ disk.at[p] = "closed" /\ c.id \in Ids
      /\ UNCHANGED <<disk, log>>
  BY DEF Load, Busy, MemoryInv, MemoryTypeOK, DescriptorsAreHeld
<1>2. CASE refused
  <2>1. Ended(p, FALSE)
    BY <1>2 DEF Load
  <2> QED
    BY <1>1, <2>1, NothingAbandoned, HistoryEnd
<1>3. CASE ~ refused
  <2>1. /\ call' = [call EXCEPT ![p] = [c EXCEPT !.pc = "open", !.item = new, !.doc = doc]]
        /\ UNCHANGED disturbed
    BY <1>3 DEF Load
  <2>2. c \in Calls /\ c.op \in Ops /\ c.item \in Items
    BY <1>1 DEF Calls
  <2>3. /\ Readable(disk) /\ Loaded \in Documents /\ Loaded \in [DOMAIN Loaded -> Items]
        /\ c.op # "remember" => c.id \in DOMAIN Loaded
        /\ c.op = "update" => ~ Loaded[c.id].deleted
    <3>1. Readable(disk) /\ Loaded \in Documents
      BY <1>1, <1>3, MemoryTypes DEF Readable, Loaded, StateFiles
    <3> QED
      BY <1>3, <3>1, MemoryTypes DEF Refused
  <2>4. /\ c.op = "remember" => new = c.item
        /\ c.op = "promote" => new.deleted = Loaded[c.id].deleted /\ new.fact = Loaded[c.id].fact
        /\ c.op = "update" => new.deleted = Loaded[c.id].deleted
        /\ c.op = "forget" => new.deleted
    <3> DEFINE old == IF c.op = "remember" THEN c.item ELSE Loaded[c.id]
    <3>1. old \in Items /\ (c.op # "remember" => old = Loaded[c.id])
      BY <2>2, <2>3
    <3>2. new = Changed(c, old)
      OBVIOUS
    <3> HIDE DEF old, new, c
    <3>3. /\ c.op = "remember" => new = c.item
          /\ c.op = "promote" => new.deleted = old.deleted /\ new.fact = old.fact
          /\ c.op = "update" => new.deleted = old.deleted
          /\ c.op = "forget" => new.deleted
      BY <3>1, <3>2 DEF Changed, Items
    <3> QED
      BY <3>1, <3>3
  <2> HIDE DEF new
  <2>5. /\ DOMAIN doc = DOMAIN Loaded \cup {c.id}
        /\ doc[c.id] = new /\ \A i \in DOMAIN Loaded : i # c.id => doc[i] = Loaded[i]
    OBVIOUS
  <2> HIDE DEF doc
  <2>6. /\ call'[p].pc = "open" /\ call'[p].doc = doc /\ call'[p].item = new
        /\ call'[p].op = c.op /\ call'[p].id = c.id /\ call'[p].alone = c.alone
        /\ \A q \in Processes \ {p} : call'[q] = call[q]
    <3> DEFINE c2 == [c EXCEPT !.pc = "open", !.item = new, !.doc = doc]
    <3>1. /\ c2.pc = "open" /\ c2.doc = doc /\ c2.item = new
          /\ c2.op = c.op /\ c2.id = c.id /\ c2.alone = c.alone
      BY <2>2 DEF Calls
    <3> HIDE DEF c2, c
    <3> QED
      BY <1>1, <2>1, <3>1 DEF c, c2
  <2>7. Continues(p)
    BY <1>1, <2>1, <2>6 DEF Continues, Busy
  <2>8. FileMatches'
    BY <1>1, <2>7, ContinuesFrame DEF HistoryInv, FileMatches, Loaded
  <2>9. DocumentsMatch'
    <3> SUFFICES ASSUME NEW q \in Processes, Saving(q)', NEW i \in Ids \ {call'[q].id}, Untouched(i)'
                 PROVE  Matches(call'[q].doc, i, Writes, Forgets)
      BY <2>7, ContinuesFrame DEF DocumentsMatch
    <3>1. Untouched(i)
      BY <2>7, ContinuesFrame
    <3>2. CASE q = p
      <4>1. Matches(Loaded, i, Writes, Forgets) /\ i # c.id
        BY <2>3, <2>6, <3>1, <3>2 DEF HistoryInv, FileMatches
      <4> QED
        BY <2>5, <2>6, <3>2, <4>1 DEF Matches
    <3>3. CASE q # p
      BY <2>6, <3>1, <3>3 DEF HistoryInv, DocumentsMatch, Saving
    <3> QED
      BY <3>2, <3>3
  <2>10. TemporaryMatches'
    <3>1. \A q \in Processes : Writer(q)' => Writer(q)
      BY <2>6 DEF Writer
    <3> QED
      BY <1>1, <2>7, <3>1, ContinuesFrame DEF HistoryInv, TemporaryMatches
  <2>11. CallsArePrepared'
    <3>1. ASSUME c.alone, c.id \notin disturbed PROVE Prepared(call'[p], Writes, Forgets)
      <4>1. Untouched(c.id)
        BY <1>1, <2>7, <3>1, ContinuesFrame DEF Untouched
      <4>2. Matches(Loaded, c.id, Writes, Forgets)
        BY <1>1, <2>3, <4>1 DEF HistoryInv, FileMatches
      <4>3. c.op = "remember" => ~ c.item.deleted
        BY <1>1 DEF HistoryInv, CallsArePrepared
      <4>4. c.op # "remember" =>
              /\ c.id \in DOMAIN Writes
              /\ Loaded[c.id].deleted => c.id \in Forgets
              /\ ~ Loaded[c.id].deleted => Loaded[c.id].fact = Writes[c.id].fact
        BY <2>3, <4>2 DEF Matches, Drifted
      <4> HIDE DEF c
      <4> QED
        BY <2>3, <2>4, <2>5, <2>6, <4>3, <4>4 DEF Prepared
    <3>2. c.op = "remember" => ~ new.deleted
      BY <1>1, <2>4 DEF HistoryInv, CallsArePrepared
    <3>3. \A q \in Processes \ {p} : Busy(q) => ~ call[q].alone
      BY <1>1 DEF MemoryInv, AloneIsAlone
    <3>4. \A q \in Processes \ {p} : Saving(q)' \/ call'[q].pc = "log" => ~ call'[q].alone
      BY <2>6, <3>3 DEF Saving, Busy
    <3>5. \A q \in Processes \ {p} : Busy(q)' /\ call'[q].op = "remember" => ~ call'[q].item.deleted
      BY <2>6 DEF HistoryInv, CallsArePrepared, Busy
    <3>6. /\ call'[p].op = "remember" => ~ call'[p].item.deleted
          /\ call'[p].alone /\ call'[p].id \notin disturbed' => Prepared(call'[p], Writes', Forgets')
          /\ call'[p].pc # "log"
      BY <2>1, <2>6, <2>7, <3>1, <3>2, ContinuesFrame
    <3> HIDE DEF c
    <3> QED
      BY <3>4, <3>5, <3>6 DEF CallsArePrepared
  <2>12. DamageIsSeen'
    BY <2>3, <1>1 DEF DamageIsSeen
  <2>13. NoFileIsNew'
    BY <1>1, <2>6 DEF HistoryInv, NoFileIsNew
  <2> QED
    BY <2>8, <2>9, <2>10, <2>11, <2>12, <2>13 DEF HistoryInv
<1> QED
  BY <1>2, <1>3

(* The record of an undisturbed call makes its item match.                 *)
LEMMA RecordMatches ==
  ASSUME MemoryInv, NEW p \in Processes, Busy(p), Prepared(call[p], Writes, Forgets),
         log' = Append(log, RecordOf(call[p]))
  PROVE  Matches(call[p].doc, call[p].id, Writes', Forgets')
<1> DEFINE c == call[p]
           r == RecordOf(c)
<1>1. c \in Calls /\ c.id \in Ids /\ log \in Seq(Records) /\ c.op \in Ops
  BY DEF MemoryInv, MemoryTypeOK, DescriptorsAreHeld, Calls
<1>2. r \in Records /\ r.event = c.op /\ r.id = c.id /\ r.fact = c.item.fact /\ r.tier = c.item.tier
  BY <1>1 DEF RecordOf, Records, Calls, Items
<1>3. /\ c.id \in DOMAIN c.doc /\ c.doc[c.id] = c.item
      /\ c.op \in {"remember", "update"} => ~ c.item.deleted
      /\ c.op = "forget" => c.item.deleted
      /\ c.op # "remember" => c.id \in DOMAIN Writes
      /\ c.op = "promote" => /\ c.item.deleted => c.id \in Forgets
                             /\ ~ c.item.deleted => c.item.fact = Writes[c.id].fact
  BY DEF Prepared
<1> HIDE DEF r, c
<1>4. log' = Append(log, r)
  BY DEF r, c
<1>5. /\ c.id \in DOMAIN Writes'
      /\ r.event \in {"remember", "update"} => Writes'[c.id].fact = r.fact
      /\ r.event = "promote" => Writes'[c.id].fact = Writes[c.id].fact
      /\ r.event # "forget" => Writes'[c.id].tier = r.tier
      /\ c.id \in Forgets' <=> c.id \in Forgets \/ r.event = "forget"
  BY <1>1, <1>2, <1>3, <1>4, OwnRecord
<1>6. Matches(c.doc, c.id, Writes', Forgets')
  BY <1>1, <1>2, <1>3, <1>5 DEF Matches, Drifted, Ops
<1> QED
  BY <1>6 DEF c

LEMMA HistoryLog ==
  ASSUME MemoryInv, HistoryInv, NEW p \in Processes, Log(p)
  PROVE  HistoryInv'
<1> DEFINE id == call[p].id
<1>1. /\ call[p].pc = "log" /\ Busy(p) /\ disk.at[p] = "closed" /\ UNCHANGED disk
      /\ disk.path # NoFile /\ id \in Ids
  BY DEF Log, Busy, MemoryInv, MemoryTypeOK, DescriptorsAreHeld, HistoryInv, NoFileIsNew
<1>2. CASE UNCHANGED log /\ Ended(p, TRUE)
  BY <1>1, <1>2, NothingAbandoned, HistoryEnd
<1>3. CASE log' = Append(log, RecordOf(call[p])) /\ Ended(p, FALSE)
  <2>1. /\ call'[p].pc = "idle" /\ \A q \in Processes \ {p} : call'[q] = call[q]
        /\ disturbed \subseteq disturbed'
        /\ ~ call[p].alone => id \in disturbed'
    <3>1. call'[p] = NoCall /\ \A q \in Processes \ {p} : call'[q] = call[q]
      BY <1>1, <1>3, EndedFrame
    <3> QED
      BY <1>3, <3>1, MemoryTypes DEF Ended
  <2>2. \A q \in Processes : Busy(q)' => q # p /\ Busy(q) /\ call'[q] = call[q]
    BY <2>1 DEF Busy
  <2>3. \A q \in Processes \ {p} : Busy(q) => ~ call[q].alone /\ ~ call[p].alone
    BY <1>1 DEF MemoryInv, AloneIsAlone
  <2>4. RecordOf(call[p]) \in Records /\ log \in Seq(Records) /\ RecordOf(call[p]).id = id
    <3>1. call[p] \in Calls /\ log \in Seq(Records)
      BY DEF MemoryInv, MemoryTypeOK
    <3> QED
      BY <1>1, <3>1 DEF RecordOf, Records, Calls, Items
  <2> HIDE DEF id
  <2>5. ASSUME NEW doc \in Documents, NEW i \in Ids \ {id}, Matches(doc, i, Writes, Forgets)
        PROVE  Matches(doc, i, Writes', Forgets')
    <3>1. /\ i \in DOMAIN Writes' <=> i \in DOMAIN Writes
          /\ i \in DOMAIN Writes =>
               Writes'[i].fact = Writes[i].fact /\ Writes'[i].tier = Writes[i].tier
          /\ i \in Forgets' <=> i \in Forgets
      BY <1>3, <2>4, OtherRecord
    <3> QED
      BY <2>5, <3>1, MatchesFrame
  <2>6. \A i \in Ids \ {id} : /\ Untouched(i)' => Untouched(i)
                              /\ Quiet(i)' => Quiet(i)
    BY <2>1, <2>2 DEF Untouched, Quiet, Busy, id
  <2>7. Readable(disk) => Loaded = disk.path /\ Loaded \in Documents
    BY <1>1 DEF MemoryInv, MemoryTypeOK, StateFiles, Readable, Loaded
  <2>8. FileMatches'
    <3> SUFFICES ASSUME Readable(disk), NEW i \in Ids, Untouched(i)'
                 PROVE  Matches(Loaded, i, Writes', Forgets')
      BY <1>1 DEF FileMatches, Loaded
    <3>1. CASE i # id
      BY <2>5, <2>6, <2>7, <3>1 DEF HistoryInv, FileMatches
    <3>2. CASE i = id
      <4>1. id \notin disturbed /\ call[p].alone
        BY <2>1, <3>2 DEF Untouched
      <4>2. Prepared(call[p], Writes, Forgets) /\ disk.path = call[p].doc
        BY <1>1, <4>1 DEF HistoryInv, CallsArePrepared, id
      <4>3. Matches(call[p].doc, id, Writes', Forgets')
        BY <1>1, <1>3, <4>2, RecordMatches DEF id
      <4> QED
        BY <2>7, <3>2, <4>2, <4>3
    <3> QED
      BY <3>1, <3>2
  <2>9. DocumentsMatch'
    <3> SUFFICES ASSUME NEW q \in Processes, Saving(q)', NEW i \in Ids \ {call'[q].id}, Untouched(i)'
                 PROVE  Matches(call'[q].doc, i, Writes', Forgets')
      BY DEF DocumentsMatch
    <3>1. Busy(q)'
      BY DEF Saving, Busy
    <3>2. q # p /\ Busy(q) /\ call'[q] = call[q] /\ Saving(q)
      BY <2>2, <3>1 DEF Saving
    <3>3. id \in disturbed'
      BY <2>1, <2>3, <3>2
    <3>4. i # id /\ call[q].doc \in Documents
      BY <3>3 DEF Untouched, MemoryInv, MemoryTypeOK, Calls
    <3> QED
      BY <2>5, <2>6, <3>2, <3>4 DEF HistoryInv, DocumentsMatch
  <2>10. TemporaryMatches'
    <3> SUFFICES ASSUME NEW q \in Processes, Writer(q)', disk.tmp \notin {NoFile, Blank, Mixed},
                        NEW i \in Ids, Quiet(i)'
                 PROVE  Matches(disk.tmp, i, Writes', Forgets')
      BY <1>1 DEF TemporaryMatches
    <3>1. Busy(q)'
      BY DEF Writer, Busy
    <3>2. q # p /\ Busy(q) /\ Writer(q)
      BY <2>2, <3>1 DEF Writer
    <3>3. id \in disturbed'
      BY <2>1, <2>3, <3>2
    <3>4. i # id /\ disk.tmp \in Documents
      BY <3>3 DEF Quiet, MemoryInv, MemoryTypeOK, StateFiles
    <3> QED
      BY <2>5, <2>6, <3>2, <3>4 DEF HistoryInv, TemporaryMatches
  <2>11. CallsArePrepared'
    <3> SUFFICES ASSUME NEW q \in Processes, Busy(q)'
                 PROVE  /\ call'[q].op = "remember" => ~ call'[q].item.deleted
                        /\ ~ call'[q].alone
      BY DEF CallsArePrepared, Saving, Busy
    <3>1. q # p /\ Busy(q) /\ call'[q] = call[q]
      BY <2>2
    <3>2. ~ call[q].alone
      BY <2>3, <3>1
    <3> QED
      BY <3>1, <3>2 DEF HistoryInv, CallsArePrepared
  <2>12. DamageIsSeen'
    <3> SUFFICES ASSUME ~ Readable(disk) PROVE disturbed' # {}
      BY <1>1 DEF DamageIsSeen
    <3>1. CASE call[p].alone
      <4>1. \A q \in Processes : Busy(q) => call[q].alone
        BY <2>3, <3>1
      <4>2. disturbed # {}
        BY <4>1 DEF HistoryInv, DamageIsSeen
      <4> QED
        BY <2>1, <4>2
    <3>2. CASE ~ call[p].alone
      BY <2>1, <3>2
    <3> QED
      BY <3>1, <3>2
  <2>13. NoFileIsNew'
    BY <1>1 DEF NoFileIsNew
  <2> QED
    BY <2>8, <2>9, <2>10, <2>11, <2>12, <2>13 DEF HistoryInv
<1> QED
  BY <1>2, <1>3 DEF Log

LEMMA HistoryInvNext == MemoryInv /\ HistoryInv /\ [MemoryNext]_memoryVars => HistoryInv'
<1> SUFFICES ASSUME MemoryInv, HistoryInv, [MemoryNext]_memoryVars PROVE HistoryInv'
  OBVIOUS
<1>1. CASE UNCHANGED memoryVars
  <2>1. Writes' = Writes /\ Forgets' = Forgets
    BY <1>1, SameChain DEF memoryVars
  <2> QED
    BY <1>1, <2>1 DEF memoryVars, HistoryInv, FileMatches, DocumentsMatch, TemporaryMatches,
       CallsArePrepared, DamageIsSeen, NoFileIsNew, Untouched, Quiet, Busy, Saving, Writer,
       Loaded, Readable
<1>2. ASSUME NEW p \in Processes, Fail(p) PROVE HistoryInv'
  <2>1. /\ Busy(p) /\ Ended(p, call[p].pc = "log") /\ disk' \in Abandoned(disk, p) /\ UNCHANGED log
        /\ (call[p].pc = "log") \in BOOLEAN
    BY <1>2 DEF Fail
  <2> QED
    BY <2>1, HistoryEnd
<1> QED
  BY <1>1, <1>2, HistoryCallStep, HistoryLoad, HistoryOpen, HistoryWrite, HistoryReplace, HistoryLog
  DEF MemoryNext

LEMMA HistoryInvariance == MemorySpec => []HistoryInv
<1>1. MemoryInv /\ HistoryInv /\ [MemoryNext]_memoryVars => HistoryInv'
  BY HistoryInvNext
<1> QED
  BY <1>1, HistoryInvInit, MemoryInvariance, PTL DEF MemorySpec

(* An honest history reconciles, for any number of processes, ids and      *)
(* calls: verify_memory reports an id only while a call is on it, or if    *)
(* one has overlapped another or failed between its two writes, and only   *)
(* calls that overlap leave a file that does not parse.                    *)
THEOREM HonestHistoriesReconcile == MemorySpec => []HonestMemoryReconciles
<1>1. MemoryInv /\ HistoryInv => HonestMemoryReconciles
  <2> SUFFICES ASSUME MemoryInv, HistoryInv PROVE HonestMemoryReconciles
    OBVIOUS
  <2>1. ASSUME ~ Readable(disk) PROVE disturbed # {} \/ \E p \in Processes : Busy(p) /\ ~ call[p].alone
    BY <2>1 DEF HistoryInv, DamageIsSeen
  <2>2. ASSUME Readable(disk), NEW i \in Flagged, i \notin disturbed
        PROVE  \E p \in Processes : Busy(p) /\ call[p].id = i
    <3> SUFFICES ASSUME \A p \in Processes : Busy(p) => call[p].id # i PROVE FALSE
      OBVIOUS
    <3>1. disk \in StateFiles(Processes, Documents)
      BY DEF MemoryInv, MemoryTypeOK
    <3>2. disk.path = NoFile => DOMAIN Writes = {}
      BY EmptyChain DEF HistoryInv, NoFileIsNew
    <3>3. disk.path # NoFile /\ Loaded \in Documents
      BY <2>2, <3>1, <3>2 DEF Flagged, Loaded, StateFiles, Readable
    <3>4. i \in Ids
      BY <2>2, <3>3, MemoryTypes, WritesOf DEF Flagged
    <3>5. Untouched(i)
      BY <2>2 DEF Untouched
    <3>6. Matches(Loaded, i, Writes, Forgets)
      BY <2>2, <3>4, <3>5 DEF HistoryInv, FileMatches
    <3> QED
      BY <2>2, <3>3, <3>6 DEF Flagged, Matches
  <2> QED
    BY <2>1, <2>2 DEF HonestMemoryReconciles
<1> QED
  BY <1>1, MemoryInvariance, HistoryInvariance, PTL

-----------------------------------------------------------------------------
(* Credentials: the calls are in their places.                             *)

Saves(t) == act[t].pc \in {"reload", "open", "write", "replace"}

(* Where the calls of each kind are, and what they have by then.           *)
InPlace(t) ==
  /\ act[t].op = "run" => act[t].pc \notin {"request", "load", "revoke", "set", "drop"}
  /\ act[t].op = "exchange" => act[t].pc = "request" \/ Saves(t)
  /\ act[t].op = "revoke" => act[t].pc \in {"load", "revoke"} \/ Saves(t)
  /\ act[t].op = "put" => Saves(t)
  /\ act[t].op = "disconnect" => act[t].pc \in {"revoke", "set", "drop"}
  /\ act[t].op = "run" /\ (act[t].pc \in {"tokens", "refresh", "again"} \/ Saves(t)) => lock = t
  /\ act[t].op = "run" /\ (act[t].pc = "refresh" \/ Saves(t)) => act[t].basis # None
  /\ act[t].op = "revoke" /\ act[t].pc # "load" => act[t].basis # None
  /\ act[t].op \in {"run", "exchange"} /\ Saves(t) => act[t].answer # None
  /\ act[t].op \in {"revoke", "put"} => act[t].answer = None
  /\ act[t].pc = "write" <=> vault.at[t] # "closed"

AnswersAreKnown(t) ==
  {act[t].basis, act[t].answer, act[t].document} \subseteq DOMAIN refresh \cup {None}

(* A call is entitled while the host means its last grant, and a run once  *)
(* it has passed the check.                                                *)
WordIsKept(t) ==
  /\ act[t].pc # "idle" /\ meant => act[t].entitled
  /\ act[t].op = "run" /\ act[t].pc \notin {"idle", "check"} => act[t].entitled
  /\ act[t].op = "disconnect" /\ act[t].pc \in {"set", "drop"} => ~ grant

FilesAreKnown ==
  /\ Len(refresh) <= MaxAnswers
  /\ {vault.path, vault.tmp} \subseteq DOMAIN refresh \cup {None, NoFile, Blank, Mixed}
  /\ \A n \in DOMAIN refresh : refresh[n] \in DOMAIN refresh

CredentialsInv ==
  /\ CredentialsTypeOK
  /\ \A t \in Threads : InPlace(t) /\ AnswersAreKnown(t) /\ WordIsKept(t)
  /\ FilesAreKnown
  /\ grant => meant

(* The host does not grant anew, and what it grants, it means.             *)
HostIsTrue ==
  /\ grant' \in BOOLEAN /\ meant' \in BOOLEAN /\ connector' \in {"live", "revoked", "dropped"}
  /\ meant' => meant
  /\ grant' => grant /\ meant'

LEMMA ActTypes ==
  /\ NoAct \in Acts /\ NoAct.pc = "idle" /\ NoAct.op = "run"
  /\ NoAct.basis = None /\ NoAct.answer = None /\ NoAct.document = None
  BY DEF NoAct, Acts, Contents

LEMMA RefreshIsSequence ==
  ASSUME CredentialsInv
  PROVE  /\ Len(refresh) \in Nat /\ DOMAIN refresh = 1 .. Len(refresh)
         /\ DOMAIN refresh \subseteq Answers /\ Len(refresh) + 1 \notin DOMAIN refresh
         /\ None \notin DOMAIN refresh /\ None \notin Answers
         /\ {NoFile, Blank, Mixed} \cap (Answers \cup {None}) = {}
<1>1. refresh \in Seq(Answers) /\ Len(refresh) <= MaxAnswers
  BY DEF CredentialsInv, CredentialsTypeOK, FilesAreKnown
<1>2. Len(refresh) \in Nat /\ DOMAIN refresh = 1 .. Len(refresh)
  BY <1>1, LenProperties
<1>3. Answers \subseteq Int
  BY CredentialsAssumption DEF Answers
<1>4. DOMAIN refresh \subseteq Answers /\ Len(refresh) + 1 \notin DOMAIN refresh
  BY <1>1, <1>2, CredentialsAssumption DEF Answers
<1> QED
  BY <1>2, <1>3, <1>4, CredentialsAssumption

(* The vault's tokens, if it has any, are of a known answer.               *)
LEMMA StoredIsKnown ==
  ASSUME CredentialsInv
  PROVE  /\ Stored \in DOMAIN refresh \cup {None}
         /\ StoredRefresh \in DOMAIN refresh \cup {None}
         /\ Stored = None <=> StoredRefresh = None
         /\ Stored # None => vault.path = Stored /\ StoredRefresh = refresh[Stored]
         /\ Stored = None => vault.path \notin Answers
  BY RefreshIsSequence DEF Stored, StoredRefresh, CredentialsInv, FilesAreKnown

LEMMA CredentialsInvInit == CredentialsInit => CredentialsInv
<1> SUFFICES ASSUME CredentialsInit PROVE CredentialsInv
  OBVIOUS
<1>1. act = [t \in Threads |-> NoAct] /\ act \in [Threads -> Acts] /\ \A t \in Threads : act[t] = NoAct
  BY ActTypes DEF CredentialsInit
<1>2. /\ vault \in StateFiles(Threads, Contents) /\ \A t \in Threads : vault.at[t] = "closed"
      /\ vault.path = NoFile /\ vault.tmp = NoFile
  BY DEF CredentialsInit, FileWith, StateFiles
<1>3. /\ refresh = <<>> /\ live = {} /\ lock = None /\ grant = FALSE /\ connector = "live" /\ acts = 0
      /\ meant = FALSE /\ superseded = {} /\ revoked = {} /\ troubled = FALSE
  BY DEF CredentialsInit
<1>4. refresh \in Seq(Answers) /\ Len(refresh) = 0 /\ DOMAIN refresh = {}
  BY <1>3
<1>5. CredentialsTypeOK
  <2>1. acts \in 0 .. MaxActs
    BY <1>3, CredentialsAssumption
  <2> QED
    BY <1>1, <1>2, <1>3, <1>4, <2>1, ActTypes DEF CredentialsTypeOK
<1>6. FilesAreKnown
  BY <1>2, <1>4, CredentialsAssumption DEF FilesAreKnown
<1>7. \A t \in Threads : InPlace(t) /\ AnswersAreKnown(t) /\ WordIsKept(t)
  BY <1>1, <1>2, <1>3, ActTypes DEF InPlace, AnswersAreKnown, WordIsKept, Saves
<1> QED
  BY <1>3, <1>5, <1>6, <1>7 DEF CredentialsInv

-----------------------------------------------------------------------------
LEMMA HostStays ==
  ASSUME CredentialsInv, UNCHANGED hostVars
  PROVE  HostIsTrue /\ UNCHANGED <<grant, meant, connector>>
  BY DEF CredentialsInv, CredentialsTypeOK, HostIsTrue, hostVars

LEMMA GotoFrame ==
  ASSUME CredentialsInv, NEW t \in Threads,
         NEW pc \in {"idle", "check", "invoke", "fetch", "lock", "tokens", "refresh", "request", "again",
                     "send", "load", "revoke", "reload", "open", "write", "replace", "set", "drop"},
         Goto(t, pc)
  PROVE  /\ act' \in [Threads -> Acts] /\ act'[t].pc = pc
         /\ act'[t].op = act[t].op /\ act'[t].basis = act[t].basis /\ act'[t].answer = act[t].answer
         /\ act'[t].document = act[t].document /\ act'[t].entitled = act[t].entitled
         /\ \A u \in Threads \ {t} : act'[u] = act[u]
  BY DEF Goto, CredentialsInv, CredentialsTypeOK, Acts

LEMMA FinishFrame ==
  ASSUME CredentialsInv, NEW t \in Threads, Finish(t)
  PROVE  /\ act' \in [Threads -> Acts] /\ act'[t] = NoAct
         /\ \A u \in Threads \ {t} : act'[u] = act[u]
         /\ lock' \in {lock, None} /\ \A u \in Threads \ {t} : lock = u => lock' = u
  BY ActTypes DEF Finish, CredentialsInv, CredentialsTypeOK

(* A step of thread t keeps the invariant if it keeps t's part of it.      *)
LEMMA ThreadStep ==
  ASSUME CredentialsInv, NEW t \in Threads, act' \in [Threads -> Acts],
         \A u \in Threads \ {t} : act'[u] = act[u],
         \A u \in Threads \ {t} : lock = u => lock' = u,
         \A u \in Threads \ {t} : vault'.at[u] # "closed" <=> vault.at[u] # "closed",
         vault' \in StateFiles(Threads, Contents), lock' \in Threads \cup {None},
         refresh' \in Seq(Answers), DOMAIN refresh \subseteq DOMAIN refresh',
         live' \subseteq DOMAIN refresh', superseded' \subseteq DOMAIN refresh',
         revoked' \subseteq DOMAIN refresh',
         troubled' \in BOOLEAN, acts' \in 0 .. MaxActs, HostIsTrue,
         FilesAreKnown', InPlace(t)', AnswersAreKnown(t)', WordIsKept(t)'
  PROVE  CredentialsInv'
<1>1. \A u \in Threads \ {t} : InPlace(u)' /\ AnswersAreKnown(u)' /\ WordIsKept(u)'
  BY DEF CredentialsInv, InPlace, AnswersAreKnown, WordIsKept, Saves, HostIsTrue
<1>2. \A u \in Threads : InPlace(u)' /\ AnswersAreKnown(u)' /\ WordIsKept(u)'
  BY <1>1
<1>3. \A u \in Threads : act'[u].pc \in {"tokens", "refresh", "again"} => lock' = u
  <2> SUFFICES ASSUME NEW u \in Threads, act'[u].pc \in {"tokens", "refresh", "again"}
               PROVE  lock' = u
    OBVIOUS
  <2>1. act'[u].op \in {"run", "exchange", "revoke", "put", "disconnect"}
    BY DEF Acts
  <2> QED
    BY <1>2, <2>1 DEF InPlace, Saves
<1> QED
  BY <1>2, <1>3 DEF CredentialsInv, CredentialsTypeOK, HostIsTrue

(* So does one that leaves the files and the provider alone,               *)
LEMMA PlainStep ==
  ASSUME CredentialsInv, NEW t \in Threads, act' \in [Threads -> Acts],
         \A u \in Threads \ {t} : act'[u] = act[u],
         \A u \in Threads \ {t} : lock = u => lock' = u, lock' \in Threads \cup {None},
         acts' \in 0 .. MaxActs, HostIsTrue,
         UNCHANGED <<fileVars, providerVars, troubled>>,
         InPlace(t)', AnswersAreKnown(t)', WordIsKept(t)'
  PROVE  CredentialsInv'
<1>1. UNCHANGED <<vault, superseded, refresh, live, revoked, troubled>>
  BY DEF fileVars, providerVars
<1>2. FilesAreKnown'
  BY <1>1 DEF CredentialsInv, FilesAreKnown
<1>3. /\ vault \in StateFiles(Threads, Contents) /\ refresh \in Seq(Answers)
      /\ live \subseteq DOMAIN refresh /\ superseded \subseteq DOMAIN refresh
      /\ revoked \subseteq DOMAIN refresh /\ troubled \in BOOLEAN
  BY DEF CredentialsInv, CredentialsTypeOK
<1> QED
  BY <1>1, <1>2, <1>3, ThreadStep

(* and a call that ends.                                                   *)
LEMMA FinishStep ==
  ASSUME CredentialsInv, NEW t \in Threads, Finish(t), vault'.at[t] = "closed",
         \A u \in Threads \ {t} : vault'.at[u] # "closed" <=> vault.at[u] # "closed",
         vault' \in StateFiles(Threads, Contents),
         refresh' \in Seq(Answers), DOMAIN refresh \subseteq DOMAIN refresh',
         live' \subseteq DOMAIN refresh', superseded' \subseteq DOMAIN refresh',
         revoked' \subseteq DOMAIN refresh',
         troubled' \in BOOLEAN, UNCHANGED acts, HostIsTrue, FilesAreKnown'
  PROVE  CredentialsInv'
<1>1. /\ act' \in [Threads -> Acts] /\ act'[t] = NoAct
      /\ \A u \in Threads \ {t} : act'[u] = act[u]
      /\ lock' \in {lock, None} /\ \A u \in Threads \ {t} : lock = u => lock' = u
  BY FinishFrame
<1>2. acts' \in 0 .. MaxActs /\ lock' \in Threads \cup {None}
  BY <1>1 DEF CredentialsInv, CredentialsTypeOK
<1>3. InPlace(t)' /\ AnswersAreKnown(t)' /\ WordIsKept(t)'
  BY <1>1, ActTypes DEF InPlace, AnswersAreKnown, WordIsKept, Saves
<1> QED
  BY <1>1, <1>2, <1>3, ThreadStep

(* The same, in a step that leaves the files and the provider alone.       *)
LEMMA PlainFinish ==
  ASSUME CredentialsInv, NEW t \in Threads, Finish(t), act[t].pc # "write",
         UNCHANGED <<fileVars, providerVars, acts, troubled>>, HostIsTrue
  PROVE  CredentialsInv'
<1>1. UNCHANGED <<vault, superseded, refresh, live, revoked, troubled>>
  BY DEF fileVars, providerVars
<1>2. FilesAreKnown' /\ vault'.at[t] = "closed"
  BY <1>1 DEF CredentialsInv, FilesAreKnown, InPlace
<1>3. /\ vault \in StateFiles(Threads, Contents) /\ refresh \in Seq(Answers)
      /\ live \subseteq DOMAIN refresh /\ superseded \subseteq DOMAIN refresh
      /\ revoked \subseteq DOMAIN refresh /\ troubled \in BOOLEAN
  BY DEF CredentialsInv, CredentialsTypeOK
<1> QED
  BY <1>1, <1>2, <1>3, FinishStep

-----------------------------------------------------------------------------
(* The steps that leave the files and the provider alone.                  *)

LEMMA BeginCallStep ==
  ASSUME CredentialsInv, NEW t \in Threads, Begin(t)
  PROVE  CredentialsInv'
<1> DEFINE first == {<<"run", "check">>, <<"exchange", "request">>, <<"revoke", "load">>,
                     <<"put", "reload">>, <<"disconnect", "revoke">>}
<1>1. PICK op \in {"run", "exchange", "revoke", "put", "disconnect"},
           pc \in {"check", "request", "load", "reload", "revoke"} :
        Call(t, op, pc) /\ <<op, pc>> \in first
  BY DEF Begin
<1> DEFINE new == [NoAct EXCEPT !.op = op, !.pc = pc, !.entitled = meant]
<1>2. /\ act[t].pc = "idle" /\ acts < MaxActs /\ acts' = acts + 1
      /\ act' = [act EXCEPT ![t] = new]
      /\ UNCHANGED <<fileVars, providerVars, hostVars, lock, troubled>>
  BY <1>1 DEF Call
<1>3. /\ new \in Acts /\ new.op = op /\ new.pc = pc /\ new.entitled = meant
      /\ new.basis = None /\ new.answer = None /\ new.document = None
  BY DEF NoAct, Acts, Contents, CredentialsInv, CredentialsTypeOK
<1> HIDE DEF new
<1>4. /\ act' \in [Threads -> Acts] /\ act'[t] = new /\ \A u \in Threads \ {t} : act'[u] = act[u]
      /\ acts' \in 0 .. MaxActs
  BY <1>2, <1>3, CredentialsAssumption DEF CredentialsInv, CredentialsTypeOK
<1>5. vault.at[t] = "closed"
  BY <1>2 DEF CredentialsInv, InPlace
<1>6. /\ lock \in Threads \cup {None} /\ UNCHANGED <<vault, lock, refresh>>
      /\ UNCHANGED <<grant, meant>> /\ HostIsTrue
      /\ UNCHANGED <<fileVars, providerVars, troubled>>
  BY <1>2, HostStays DEF CredentialsInv, CredentialsTypeOK, hostVars, fileVars, providerVars
<1>7. InPlace(t)' /\ AnswersAreKnown(t)' /\ WordIsKept(t)'
  BY <1>1, <1>3, <1>4, <1>5, <1>6 DEF InPlace, AnswersAreKnown, WordIsKept, Saves
<1> QED
  BY <1>4, <1>6, <1>7, PlainStep

LEMMA DisconnectStep ==
  ASSUME CredentialsInv, NEW t \in Threads, Disconnect(t)
  PROVE  CredentialsInv'
<1>1. /\ act[t].op = "disconnect" /\ act[t].pc \in {"revoke", "set", "drop"}
      /\ UNCHANGED <<fileVars, providerVars, acts, troubled>>
      /\ grant \in BOOLEAN /\ meant \in BOOLEAN /\ lock \in Threads \cup {None}
      /\ connector \in {"live", "revoked", "dropped"} /\ acts \in 0 .. MaxActs
      /\ (grant => meant) /\ WordIsKept(t) /\ InPlace(t) /\ AnswersAreKnown(t)
  BY DEF Disconnect, CredentialsInv, CredentialsTypeOK
<1>2. CASE Finish(t)
  <2>1. act'[t].pc = "idle"
    BY <1>2, FinishFrame, ActTypes
  <2>2. ~ Goto(t, "set") /\ ~ Goto(t, "drop")
    BY <2>1, GotoFrame
  <2>3. ~ grant /\ UNCHANGED grant /\ meant' = FALSE /\ connector' \in {connector, "dropped"}
    BY <1>1, <2>2 DEF Disconnect, WordIsKept
  <2>4. HostIsTrue
    BY <1>1, <2>3 DEF HostIsTrue
  <2> QED
    BY <1>1, <1>2, <2>4, PlainFinish
<1>3. CASE \/ act[t].pc = "revoke" /\ grant' = FALSE /\ Goto(t, "set") /\ UNCHANGED <<connector, meant, lock>>
           \/ act[t].pc = "set" /\ connector' = "revoked" /\ Goto(t, "drop") /\ UNCHANGED <<grant, meant, lock>>
  <2>1. PICK pc \in {"set", "drop"} : Goto(t, pc)
    BY <1>3
  <2>2. /\ act' \in [Threads -> Acts] /\ act'[t].pc = pc
        /\ act'[t].op = act[t].op /\ act'[t].basis = act[t].basis /\ act'[t].answer = act[t].answer
        /\ act'[t].document = act[t].document /\ act'[t].entitled = act[t].entitled
        /\ \A u \in Threads \ {t} : act'[u] = act[u]
    BY <2>1, GotoFrame
  <2>3. ~ grant' /\ meant' = meant /\ lock' = lock /\ HostIsTrue
    <3>1. ~ grant' /\ grant' \in BOOLEAN
      <4>1. CASE act[t].pc = "revoke" /\ grant' = FALSE
        BY <4>1
      <4>2. CASE act[t].pc = "set" /\ UNCHANGED grant
        BY <1>1, <4>2 DEF WordIsKept
      <4> QED
        BY <1>3, <4>1, <4>2
    <3>2. meant' = meant /\ lock' = lock /\ connector' \in {connector, "revoked"}
      BY <1>3
    <3> QED
      BY <1>1, <3>1, <3>2 DEF HostIsTrue
  <2>4. UNCHANGED <<vault, refresh>>
    BY <1>1 DEF fileVars, providerVars
  <2>5. InPlace(t)'
    BY <1>1, <2>2, <2>4 DEF InPlace, Saves
  <2>6. AnswersAreKnown(t)'
    BY <1>1, <2>2, <2>4 DEF AnswersAreKnown
  <2>7. WordIsKept(t)'
    BY <1>1, <2>2, <2>3 DEF WordIsKept
  <2> QED
    BY <1>1, <2>2, <2>3, <2>5, <2>6, <2>7, PlainStep
<1> QED
  BY <1>2, <1>3 DEF Disconnect

(* A step of a run that goes on to pc.                                     *)
LEMMA RunGoesOn ==
  ASSUME CredentialsInv, NEW t \in Threads, act[t].op = "run",
         NEW pc \in {"invoke", "fetch", "lock", "tokens", "send"}, Goto(t, pc),
         act[t].pc \in {"check", "invoke", "fetch", "lock", "tokens", "again"},
         act[t].pc = "check" => grant,
         \A u \in Threads \ {t} : lock = u => lock' = u, lock' \in Threads \cup {None},
         pc = "tokens" => lock' = t,
         UNCHANGED <<fileVars, providerVars, hostVars, acts, troubled>>
  PROVE  CredentialsInv'
<1>1. /\ act' \in [Threads -> Acts] /\ act'[t].pc = pc
      /\ act'[t].op = act[t].op /\ act'[t].basis = act[t].basis /\ act'[t].answer = act[t].answer
      /\ act'[t].document = act[t].document /\ act'[t].entitled = act[t].entitled
      /\ \A u \in Threads \ {t} : act'[u] = act[u]
  BY GotoFrame
<1>2. /\ UNCHANGED <<vault, refresh, grant, meant>> /\ HostIsTrue /\ acts' \in 0 .. MaxActs
      /\ UNCHANGED <<fileVars, providerVars, troubled>> /\ (grant => meant)
      /\ WordIsKept(t) /\ InPlace(t) /\ AnswersAreKnown(t)
  BY HostStays DEF fileVars, providerVars, CredentialsInv, CredentialsTypeOK
<1>3. InPlace(t)'
  BY <1>1, <1>2 DEF InPlace, Saves
<1>4. AnswersAreKnown(t)'
  BY <1>1, <1>2 DEF AnswersAreKnown
<1>5. WordIsKept(t)'
  BY <1>1, <1>2 DEF WordIsKept
<1> QED
  BY <1>1, <1>2, <1>3, <1>4, <1>5, PlainStep

LEMMA EntitledRunStep ==
  ASSUME CredentialsInv, NEW t \in Threads,
         CheckScope(t) \/ Invoke(t) \/ Fetch(t) \/ Send(t) \/ TakeLock(t) \/ LoadAgain(t)
  PROVE  CredentialsInv'
<1>1. /\ act[t].pc \in {"check", "invoke", "fetch", "send", "lock", "again"}
      /\ act[t].op \in {"run", "exchange", "revoke", "put", "disconnect"}
      /\ lock \in Threads \cup {None}
      /\ act[t].pc = "again" => lock = t
      /\ UNCHANGED <<fileVars, providerVars, hostVars, acts, troubled>>
  BY DEF CheckScope, Invoke, Fetch, Send, TakeLock, LoadAgain, Step, CredentialsInv, CredentialsTypeOK, Acts
<1>2. act[t].op = "run"
  BY <1>1 DEF CredentialsInv, InPlace, Saves
<1>3. HostIsTrue /\ UNCHANGED <<fileVars, providerVars, acts, troubled>>
  BY <1>1, HostStays DEF fileVars, providerVars
<1>4. CASE Finish(t)
  BY <1>1, <1>3, <1>4, PlainFinish
<1>5. CASE ~ Finish(t)
  <2>1. CASE CheckScope(t) \/ Invoke(t) \/ Fetch(t)
    <3>1. PICK pc \in {"invoke", "fetch", "lock"} : Goto(t, pc) /\ UNCHANGED lock
      BY <1>5, <2>1 DEF CheckScope, Invoke, Fetch, Step
    <3>2. act[t].pc = "check" => grant
      BY <1>5, <2>1 DEF CheckScope, Invoke, Fetch, Step
    <3>3. act[t].pc \in {"check", "invoke", "fetch"}
      BY <2>1 DEF CheckScope, Invoke, Fetch, Step
    <3> QED
      BY <1>1, <1>2, <3>1, <3>2, <3>3, RunGoesOn
  <2>2. CASE Send(t)
    BY <1>5, <2>2 DEF Send, Step
  <2>3. CASE TakeLock(t)
    <3>1. Goto(t, "tokens") /\ lock = None /\ lock' = t
      BY <2>3 DEF TakeLock
    <3>2. \A u \in Threads \ {t} : lock # u
      BY <3>1, CredentialsAssumption
    <3>3. act[t].pc = "lock"
      BY <2>3 DEF TakeLock
    <3> QED
      BY <1>1, <1>2, <3>1, <3>2, <3>3, RunGoesOn
  <2>4. CASE LoadAgain(t)
    <3>1. Goto(t, "send") /\ lock' = None /\ act[t].pc = "again"
      BY <1>5, <2>4 DEF LoadAgain, Goto
    <3>2. \A u \in Threads \ {t} : lock # u
      BY <1>1, <3>1
    <3> QED
      BY <1>1, <1>2, <3>1, <3>2, RunGoesOn
  <2> QED
    BY <2>1, <2>2, <2>3, <2>4
<1> QED
  BY <1>4, <1>5

(* The tokens are loaded.                                                  *)
LEMMA LoadFrame ==
  ASSUME CredentialsInv, NEW t \in Threads, NEW pc \in {"refresh", "revoke"}, Stored # None,
         act' = [act EXCEPT ![t].pc = pc, ![t].basis = StoredRefresh]
  PROVE  /\ act' \in [Threads -> Acts] /\ act'[t].pc = pc
         /\ act'[t].basis = StoredRefresh /\ StoredRefresh \in DOMAIN refresh
         /\ act'[t].op = act[t].op /\ act'[t].answer = act[t].answer
         /\ act'[t].document = act[t].document /\ act'[t].entitled = act[t].entitled
         /\ \A u \in Threads \ {t} : act'[u] = act[u]
<1>1. StoredRefresh \in DOMAIN refresh /\ StoredRefresh \in Answers
  BY StoredIsKnown, RefreshIsSequence
<1> QED
  BY <1>1 DEF CredentialsInv, CredentialsTypeOK, Acts

LEMMA LoadTokensStep ==
  ASSUME CredentialsInv, NEW t \in Threads, LoadTokens(t)
  PROVE  CredentialsInv'
<1>1. /\ act[t].pc = "tokens" /\ lock = t /\ lock \in Threads \cup {None}
      /\ act[t].op \in {"run", "exchange", "revoke", "put", "disconnect"}
      /\ UNCHANGED <<fileVars, providerVars, hostVars, acts, troubled>>
      /\ UNCHANGED <<fileVars, providerVars, acts, troubled>> /\ acts' \in 0 .. MaxActs
      /\ UNCHANGED <<vault, refresh, grant, meant>> /\ HostIsTrue
      /\ WordIsKept(t) /\ InPlace(t) /\ AnswersAreKnown(t)
  BY HostStays DEF LoadTokens, CredentialsInv, CredentialsTypeOK, Acts, fileVars, providerVars
<1>2. act[t].op = "run"
  BY <1>1 DEF InPlace, Saves
<1>3. CASE act' = [act EXCEPT ![t].pc = "send"] /\ lock' = None
  BY <1>1, <1>2, <1>3, RunGoesOn DEF Goto
<1>4. CASE Finish(t)
  BY <1>1, <1>4, PlainFinish
<1>5. CASE Stored # None /\ act' = [act EXCEPT ![t].pc = "refresh", ![t].basis = StoredRefresh] /\ UNCHANGED lock
  <2>1. /\ act' \in [Threads -> Acts] /\ act'[t].pc = "refresh"
        /\ act'[t].basis = StoredRefresh /\ StoredRefresh \in DOMAIN refresh
        /\ act'[t].op = act[t].op /\ act'[t].answer = act[t].answer
        /\ act'[t].document = act[t].document /\ act'[t].entitled = act[t].entitled
        /\ \A u \in Threads \ {t} : act'[u] = act[u]
    BY <1>5, LoadFrame
  <2>2. InPlace(t)'
    BY <1>1, <1>2, <1>5, <2>1, RefreshIsSequence DEF InPlace, Saves
  <2>3. AnswersAreKnown(t)'
    BY <1>1, <2>1 DEF AnswersAreKnown
  <2>4. WordIsKept(t)'
    BY <1>1, <1>2, <2>1 DEF WordIsKept
  <2> QED
    BY <1>1, <1>5, <2>1, <2>2, <2>3, <2>4, PlainStep
<1> QED
  BY <1>3, <1>4, <1>5 DEF LoadTokens

LEMMA LoadRevokeStep ==
  ASSUME CredentialsInv, NEW t \in Threads, LoadRevoke(t)
  PROVE  CredentialsInv'
<1>1. /\ act[t].pc = "load" /\ lock \in Threads \cup {None}
      /\ act[t].op \in {"run", "exchange", "revoke", "put", "disconnect"}
      /\ UNCHANGED <<fileVars, providerVars, hostVars, acts, troubled>>
      /\ UNCHANGED <<fileVars, providerVars, acts, troubled>> /\ acts' \in 0 .. MaxActs
      /\ UNCHANGED <<vault, refresh, grant, meant>> /\ HostIsTrue
      /\ WordIsKept(t) /\ InPlace(t) /\ AnswersAreKnown(t)
  BY HostStays DEF LoadRevoke, CredentialsInv, CredentialsTypeOK, Acts, fileVars, providerVars
<1>2. act[t].op = "revoke"
  BY <1>1 DEF InPlace, Saves
<1>3. CASE Finish(t)
  BY <1>1, <1>3, PlainFinish
<1>4. CASE Stored # None /\ act' = [act EXCEPT ![t].pc = "revoke", ![t].basis = StoredRefresh] /\ UNCHANGED lock
  <2>1. /\ act' \in [Threads -> Acts] /\ act'[t].pc = "revoke"
        /\ act'[t].basis = StoredRefresh /\ StoredRefresh \in DOMAIN refresh
        /\ act'[t].op = act[t].op /\ act'[t].answer = act[t].answer
        /\ act'[t].document = act[t].document /\ act'[t].entitled = act[t].entitled
        /\ \A u \in Threads \ {t} : act'[u] = act[u]
    BY <1>4, LoadFrame
  <2>2. InPlace(t)'
    BY <1>1, <1>2, <1>4, <2>1, RefreshIsSequence DEF InPlace, Saves
  <2>3. AnswersAreKnown(t)'
    BY <1>1, <2>1 DEF AnswersAreKnown
  <2>4. WordIsKept(t)'
    BY <1>1, <1>2, <2>1 DEF WordIsKept
  <2> QED
    BY <1>1, <1>4, <2>1, <2>2, <2>3, <2>4, PlainStep
<1> QED
  BY <1>3, <1>4 DEF LoadRevoke

-----------------------------------------------------------------------------
(* The provider's answers.                                                 *)

(* The token endpoint has answered, with the next number.                  *)
NewAnswer(n, token) ==
  /\ n = Len(refresh) + 1 /\ n \in Answers /\ n \notin DOMAIN refresh
  /\ refresh' \in Seq(Answers) /\ Len(refresh') = n /\ n <= MaxAnswers
  /\ DOMAIN refresh' = DOMAIN refresh \cup {n}
  /\ refresh'[n] = token /\ \A m \in DOMAIN refresh : refresh'[m] = refresh[m]
  /\ UNCHANGED <<fileVars, hostVars, acts>>

LEMMA AnsweredFrame ==
  ASSUME CredentialsInv, NEW t \in Threads, NEW token \in DOMAIN refresh \cup {Len(refresh) + 1},
         Answered(t, token)
  PROVE  /\ NewAnswer(Len(refresh) + 1, token)
         /\ \/ /\ act' \in [Threads -> Acts] /\ act'[t].pc = "reload" /\ act'[t].answer = Len(refresh) + 1
               /\ act'[t].op = act[t].op /\ act'[t].basis = act[t].basis
               /\ act'[t].document = act[t].document /\ act'[t].entitled = act[t].entitled
               /\ \A u \in Threads \ {t} : act'[u] = act[u]
               /\ UNCHANGED <<lock, troubled>>
            \/ Finish(t) /\ troubled' = TRUE
<1> DEFINE n == Len(refresh) + 1
<1>1. /\ Len(refresh) \in Nat /\ DOMAIN refresh = 1 .. Len(refresh)
      /\ DOMAIN refresh \subseteq Answers /\ n \notin DOMAIN refresh /\ refresh \in Seq(Answers)
  BY RefreshIsSequence DEF CredentialsInv, CredentialsTypeOK
<1>2. Len(refresh) < MaxAnswers /\ refresh' = Append(refresh, token)
      /\ UNCHANGED <<fileVars, hostVars, acts>>
  BY DEF Answered
<1>3. n \in Answers /\ token \in Answers /\ n <= MaxAnswers
  BY <1>1, <1>2, CredentialsAssumption DEF Answers
<1>4. /\ refresh' \in Seq(Answers) /\ Len(refresh') = n
      /\ \A m \in 1 .. Len(refresh) : refresh'[m] = refresh[m]
      /\ refresh'[n] = token
  BY <1>1, <1>2, <1>3, AppendProperties
<1>5. DOMAIN refresh' = DOMAIN refresh \cup {n}
  <2>1. DOMAIN refresh' = 1 .. n
    BY <1>4, LenProperties
  <2> QED
    BY <1>1, <2>1
<1>6. NewAnswer(n, token)
  BY <1>1, <1>2, <1>3, <1>4, <1>5 DEF NewAnswer
<1>7. CASE act' = [act EXCEPT ![t].pc = "reload", ![t].answer = Len(refresh')] /\ UNCHANGED <<lock, troubled>>
  <2>1. Len(refresh') = n /\ n \in Contents
    BY <1>3, <1>4 DEF Contents
  <2>2. /\ act' \in [Threads -> Acts] /\ act'[t].pc = "reload" /\ act'[t].answer = n
        /\ act'[t].op = act[t].op /\ act'[t].basis = act[t].basis
        /\ act'[t].document = act[t].document /\ act'[t].entitled = act[t].entitled
        /\ \A u \in Threads \ {t} : act'[u] = act[u]
    BY <1>7, <2>1 DEF CredentialsInv, CredentialsTypeOK, Acts
  <2> QED
    BY <1>6, <1>7, <2>2
<1> QED
  BY <1>6, <1>7 DEF Answered

LEMMA AnswersStayKnown ==
  ASSUME CredentialsInv, NEW n, NEW token \in DOMAIN refresh \cup {n}, NewAnswer(n, token)
  PROVE  /\ FilesAreKnown' /\ HostIsTrue /\ UNCHANGED <<vault, superseded, grant, meant>>
         /\ vault \in StateFiles(Threads, Contents) /\ superseded \subseteq DOMAIN refresh'
<1>1. UNCHANGED <<vault, superseded>> /\ UNCHANGED hostVars
  BY DEF NewAnswer, fileVars
<1>2. FilesAreKnown'
  BY <1>1 DEF NewAnswer, FilesAreKnown, CredentialsInv
<1> QED
  BY <1>1, <1>2, HostStays DEF CredentialsInv, CredentialsTypeOK, NewAnswer

LEMMA AnsweredStep ==
  ASSUME CredentialsInv, NEW t \in Threads, NEW token \in DOMAIN refresh \cup {Len(refresh) + 1},
         Answered(t, token),
         \/ act[t].op = "run" /\ act[t].pc = "refresh"
         \/ act[t].op = "exchange" /\ act[t].pc = "request",
         live' \subseteq DOMAIN refresh', UNCHANGED revoked
  PROVE  CredentialsInv'
<1> DEFINE n == Len(refresh) + 1
<1>1. NewAnswer(n, token)
  BY AnsweredFrame
<1>2. /\ FilesAreKnown' /\ HostIsTrue /\ UNCHANGED <<vault, superseded, grant, meant>>
      /\ vault \in StateFiles(Threads, Contents) /\ superseded' \subseteq DOMAIN refresh'
  BY <1>1, AnswersStayKnown
<1>3. /\ refresh' \in Seq(Answers) /\ DOMAIN refresh' = DOMAIN refresh \cup {n}
      /\ n \in Answers /\ UNCHANGED acts
  BY <1>1 DEF NewAnswer
<1>4. /\ revoked' \subseteq DOMAIN refresh' /\ acts \in 0 .. MaxActs /\ troubled \in BOOLEAN
      /\ lock \in Threads \cup {None} /\ WordIsKept(t) /\ InPlace(t) /\ AnswersAreKnown(t)
  BY <1>3 DEF CredentialsInv, CredentialsTypeOK
<1> HIDE DEF n
<1>5. CASE Finish(t) /\ troubled' = TRUE
  <2>1. vault'.at[t] = "closed"
    BY <1>2, <1>4 DEF InPlace
  <2> QED
    BY <1>2, <1>3, <1>4, <1>5, <2>1, FinishStep
<1>6. CASE /\ act' \in [Threads -> Acts] /\ act'[t].pc = "reload" /\ act'[t].answer = n
           /\ act'[t].op = act[t].op /\ act'[t].basis = act[t].basis
           /\ act'[t].document = act[t].document /\ act'[t].entitled = act[t].entitled
           /\ \A u \in Threads \ {t} : act'[u] = act[u]
           /\ UNCHANGED <<lock, troubled>>
  <2>1. n # None
    BY <1>3, RefreshIsSequence
  <2>2. InPlace(t)'
    BY <1>2, <1>4, <1>6, <2>1 DEF InPlace, Saves
  <2>3. AnswersAreKnown(t)'
    BY <1>3, <1>4, <1>6 DEF AnswersAreKnown
  <2>4. WordIsKept(t)'
    BY <1>2, <1>4, <1>6 DEF WordIsKept
  <2> QED
    BY <1>2, <1>3, <1>4, <1>6, <2>2, <2>3, <2>4, ThreadStep
<1> QED
  BY <1>5, <1>6, AnsweredFrame DEF n

(* A refreshed token is the old one or a new one.                          *)
LEMMA RefreshFrame ==
  ASSUME CredentialsInv, NEW t \in Threads, RefreshTokens(t)
  PROVE  /\ act[t].op = "run" /\ act[t].pc = "refresh" /\ act[t].basis \in live
         /\ act[t].basis \in DOMAIN refresh /\ UNCHANGED revoked
         /\ \E token \in {act[t].basis, Len(refresh) + 1} :
              /\ Answered(t, token)
              /\ \/ token = act[t].basis /\ UNCHANGED live
                 \/ token = Len(refresh) + 1 /\ live' = (live \ {act[t].basis}) \cup {token}
<1>1. act[t].pc = "refresh" /\ act[t].basis \in live /\ UNCHANGED revoked /\ InPlace(t)
  BY DEF RefreshTokens, CredentialsInv
<1>2. act[t].op = "run"
  <2>1. act[t].op \in {"run", "exchange", "revoke", "put", "disconnect"}
    BY DEF CredentialsInv, CredentialsTypeOK, Acts
  <2> QED
    BY <1>1, <2>1 DEF InPlace, Saves
<1>3. live \subseteq DOMAIN refresh
  BY DEF CredentialsInv, CredentialsTypeOK
<1> QED
  BY <1>1, <1>2, <1>3 DEF RefreshTokens

LEMMA RefreshTokensStep ==
  ASSUME CredentialsInv, NEW t \in Threads, RefreshTokens(t)
  PROVE  CredentialsInv'
<1>1. PICK token \in {act[t].basis, Len(refresh) + 1} :
        /\ Answered(t, token)
        /\ \/ token = act[t].basis /\ UNCHANGED live
           \/ token = Len(refresh) + 1 /\ live' = (live \ {act[t].basis}) \cup {token}
  BY RefreshFrame
<1>2. /\ act[t].op = "run" /\ act[t].pc = "refresh" /\ UNCHANGED revoked
      /\ token \in DOMAIN refresh \cup {Len(refresh) + 1}
  BY RefreshFrame
<1>3. live' \subseteq DOMAIN refresh'
  BY <1>1, <1>2, AnsweredFrame DEF NewAnswer, CredentialsInv, CredentialsTypeOK
<1> QED
  BY <1>1, <1>2, <1>3, AnsweredStep

LEMMA ExchangeFrame ==
  ASSUME CredentialsInv, NEW t \in Threads, ExchangeCode(t)
  PROVE  act[t].op = "exchange" /\ act[t].pc = "request"
<1>1. act[t].pc = "request" /\ InPlace(t)
  BY DEF ExchangeCode, CredentialsInv
<1>2. act[t].op \in {"run", "exchange", "revoke", "put", "disconnect"}
  BY DEF CredentialsInv, CredentialsTypeOK, Acts
<1> QED
  BY <1>1, <1>2 DEF InPlace, Saves

LEMMA ExchangeCodeStep ==
  ASSUME CredentialsInv, NEW t \in Threads, ExchangeCode(t)
  PROVE  CredentialsInv'
<1>1. act[t].op = "exchange" /\ act[t].pc = "request"
  BY ExchangeFrame
<1>2. Answered(t, Len(refresh) + 1) /\ live' = live \cup {Len(refresh) + 1} /\ UNCHANGED revoked
  BY DEF ExchangeCode
<1>3. live' \subseteq DOMAIN refresh'
  BY <1>2, AnsweredFrame DEF NewAnswer, CredentialsInv, CredentialsTypeOK
<1> QED
  BY <1>1, <1>2, <1>3, AnsweredStep

LEMMA RevokeTokenStep ==
  ASSUME CredentialsInv, NEW t \in Threads, RevokeToken(t)
  PROVE  CredentialsInv'
<1>1. /\ act[t].op = "revoke" /\ act[t].pc = "revoke" /\ act[t].basis \in live
      /\ live' = live \ {act[t].basis} /\ revoked' = revoked \cup {act[t].basis}
      /\ UNCHANGED <<fileVars, refresh, hostVars, acts, troubled>>
      /\ vault \in StateFiles(Threads, Contents) /\ refresh \in Seq(Answers)
      /\ live \subseteq DOMAIN refresh /\ superseded \subseteq DOMAIN refresh
      /\ revoked \subseteq DOMAIN refresh /\ troubled \in BOOLEAN
      /\ lock \in Threads \cup {None} /\ acts \in 0 .. MaxActs
      /\ WordIsKept(t) /\ InPlace(t) /\ AnswersAreKnown(t)
  BY DEF RevokeToken, CredentialsInv, CredentialsTypeOK
<1>2. /\ UNCHANGED <<vault, superseded, refresh, grant, meant>> /\ HostIsTrue
      /\ live' \subseteq DOMAIN refresh' /\ revoked' \subseteq DOMAIN refresh'
  BY <1>1, HostStays DEF fileVars
<1>3. FilesAreKnown'
  BY <1>2 DEF CredentialsInv, FilesAreKnown
<1>4. CASE Finish(t)
  <2>1. vault'.at[t] = "closed"
    BY <1>1, <1>2 DEF InPlace
  <2> QED
    BY <1>1, <1>2, <1>3, <1>4, <2>1, FinishStep
<1>5. CASE Goto(t, "reload") /\ UNCHANGED lock
  <2>1. /\ act' \in [Threads -> Acts] /\ act'[t].pc = "reload"
        /\ act'[t].op = act[t].op /\ act'[t].basis = act[t].basis /\ act'[t].answer = act[t].answer
        /\ act'[t].document = act[t].document /\ act'[t].entitled = act[t].entitled
        /\ \A u \in Threads \ {t} : act'[u] = act[u]
    BY <1>5, GotoFrame
  <2>2. InPlace(t)'
    BY <1>1, <1>2, <2>1 DEF InPlace, Saves
  <2>3. AnswersAreKnown(t)'
    BY <1>1, <1>2, <2>1 DEF AnswersAreKnown
  <2>4. WordIsKept(t)'
    BY <1>1, <1>2, <2>1 DEF WordIsKept
  <2> QED
    BY <1>1, <1>2, <1>3, <1>5, <2>1, <2>2, <2>3, <2>4, ThreadStep
<1> QED
  BY <1>4, <1>5 DEF RevokeToken

-----------------------------------------------------------------------------
(* SecretVault.                                                            *)

(* What a writer will write.                                               *)
NewDocument(t) == CASE act[t].op = "put"    -> Stored
                    [] act[t].op = "revoke" -> None
                    [] OTHER                -> act[t].answer

LEMMA ReloadFrame ==
  ASSUME CredentialsInv, NEW t \in Threads, Reload(t), Readable(vault)
  PROVE  /\ act' \in [Threads -> Acts] /\ act'[t].pc = "open" /\ act'[t].document = NewDocument(t)
         /\ act'[t].op = act[t].op /\ act'[t].basis = act[t].basis /\ act'[t].answer = act[t].answer
         /\ act'[t].entitled = act[t].entitled
         /\ \A u \in Threads \ {t} : act'[u] = act[u]
         /\ NewDocument(t) \in DOMAIN refresh \cup {None}
<1>1. NewDocument(t) \in DOMAIN refresh \cup {None} /\ NewDocument(t) \in Contents
  BY StoredIsKnown, RefreshIsSequence DEF NewDocument, CredentialsInv, AnswersAreKnown, Contents
<1>2. act' = [act EXCEPT ![t].pc = "open", ![t].document = NewDocument(t)]
  BY DEF Reload, NewDocument
<1> QED
  BY <1>1, <1>2 DEF CredentialsInv, CredentialsTypeOK, Acts

LEMMA ReloadStep ==
  ASSUME CredentialsInv, NEW t \in Threads, Reload(t)
  PROVE  CredentialsInv'
<1>1. /\ act[t].pc = "reload" /\ UNCHANGED <<vault, providerVars, hostVars, acts>>
      /\ vault \in StateFiles(Threads, Contents) /\ refresh \in Seq(Answers)
      /\ live \subseteq DOMAIN refresh /\ superseded \subseteq DOMAIN refresh
      /\ revoked \subseteq DOMAIN refresh /\ troubled \in BOOLEAN
      /\ lock \in Threads \cup {None} /\ acts \in 0 .. MaxActs
      /\ WordIsKept(t) /\ InPlace(t) /\ AnswersAreKnown(t) /\ FilesAreKnown
  BY DEF Reload, CredentialsInv, CredentialsTypeOK
<1>2. UNCHANGED <<vault, refresh, live, revoked, grant, meant>> /\ HostIsTrue
  BY <1>1, HostStays DEF providerVars
<1>3. FilesAreKnown' /\ vault.at[t] = "closed"
  BY <1>1, <1>2 DEF FilesAreKnown, InPlace
<1>4. troubled' \in BOOLEAN /\ superseded' \subseteq DOMAIN refresh
  <2>1. StoredRefresh \in DOMAIN refresh \cup {None} /\ (Stored = None <=> StoredRefresh = None)
    BY StoredIsKnown
  <2> QED
    BY <1>1, <2>1 DEF Reload
<1>5. CASE ~ Readable(vault)
  <2>1. Finish(t)
    BY <1>5 DEF Reload
  <2> QED
    BY <1>1, <1>2, <1>3, <1>4, <2>1, FinishStep
<1>6. CASE Readable(vault)
  <2>1. /\ act' \in [Threads -> Acts] /\ act'[t].pc = "open"
        /\ act'[t].document \in DOMAIN refresh \cup {None}
        /\ act'[t].op = act[t].op /\ act'[t].basis = act[t].basis /\ act'[t].answer = act[t].answer
        /\ act'[t].entitled = act[t].entitled
        /\ \A u \in Threads \ {t} : act'[u] = act[u]
    BY <1>6, ReloadFrame
  <2>2. UNCHANGED lock
    BY <1>6 DEF Reload
  <2>3. InPlace(t)'
    BY <1>1, <1>2, <2>1, <2>2 DEF InPlace, Saves
  <2>4. AnswersAreKnown(t)'
    BY <1>1, <1>2, <2>1 DEF AnswersAreKnown
  <2>5. WordIsKept(t)'
    BY <1>1, <1>2, <2>1 DEF WordIsKept
  <2> QED
    BY <1>1, <1>2, <1>3, <1>4, <2>1, <2>2, <2>3, <2>4, <2>5, ThreadStep
<1> QED
  BY <1>5, <1>6

(* A writer goes on to pc, with the file as it has left it.                *)
LEMMA WriterGoesOn ==
  ASSUME CredentialsInv, NEW t \in Threads, NEW pc \in {"write", "replace", "again"}, Goto(t, pc),
         act[t].pc \in {"open", "write", "replace"}, pc = "again" => act[t].op = "run",
         vault' \in StateFiles(Threads, Contents), pc = "write" <=> vault'.at[t] # "closed",
         \A u \in Threads \ {t} : vault'.at[u] # "closed" <=> vault.at[u] # "closed",
         {vault'.path, vault'.tmp} \subseteq DOMAIN refresh \cup {None, NoFile, Blank, Mixed},
         UNCHANGED <<superseded, providerVars, hostVars, lock, acts>>, troubled' \in BOOLEAN
  PROVE  CredentialsInv'
<1>1. /\ act' \in [Threads -> Acts] /\ act'[t].pc = pc
      /\ act'[t].op = act[t].op /\ act'[t].basis = act[t].basis /\ act'[t].answer = act[t].answer
      /\ act'[t].document = act[t].document /\ act'[t].entitled = act[t].entitled
      /\ \A u \in Threads \ {t} : act'[u] = act[u]
  BY GotoFrame
<1>2. UNCHANGED <<refresh, live, revoked, grant, meant>> /\ HostIsTrue
  BY HostStays DEF providerVars
<1>3. /\ refresh \in Seq(Answers) /\ live \subseteq DOMAIN refresh /\ superseded \subseteq DOMAIN refresh
      /\ revoked \subseteq DOMAIN refresh /\ lock \in Threads \cup {None} /\ acts \in 0 .. MaxActs
      /\ WordIsKept(t) /\ InPlace(t) /\ AnswersAreKnown(t) /\ FilesAreKnown
      /\ act[t].op \in {"run", "exchange", "revoke", "put", "disconnect"}
  BY DEF CredentialsInv, CredentialsTypeOK, Acts
<1>4. FilesAreKnown'
  BY <1>2, <1>3 DEF FilesAreKnown
<1>5. InPlace(t)'
  BY <1>1, <1>2, <1>3 DEF InPlace, Saves
<1>6. AnswersAreKnown(t)'
  BY <1>1, <1>2, <1>3 DEF AnswersAreKnown
<1>7. WordIsKept(t)'
  BY <1>1, <1>2, <1>3 DEF WordIsKept
<1> QED
  BY <1>1, <1>2, <1>3, <1>4, <1>5, <1>6, <1>7, ThreadStep

LEMMA OpenVaultStep ==
  ASSUME CredentialsInv, NEW t \in Threads, OpenVault(t)
  PROVE  CredentialsInv'
<1>1. /\ act[t].pc = "open" /\ vault' = Opened(vault, t) /\ Goto(t, "write")
      /\ UNCHANGED <<superseded, providerVars, hostVars, lock, acts>> /\ troubled' \in BOOLEAN
      /\ vault \in StateFiles(Threads, Contents)
      /\ vault.path \in DOMAIN refresh \cup {None, NoFile, Blank, Mixed}
  BY DEF OpenVault, CredentialsInv, CredentialsTypeOK, FilesAreKnown
<1>2. /\ vault' \in StateFiles(Threads, Contents) /\ vault'.at[t] = "tmp"
      /\ \A u \in Threads \ {t} : vault'.at[u] = vault.at[u]
      /\ vault'.path = vault.path /\ vault'.tmp = Blank
  BY <1>1, OpenedFile
<1> QED
  BY <1>1, <1>2, WriterGoesOn

LEMMA WriteVaultStep ==
  ASSUME CredentialsInv, NEW t \in Threads, WriteVault(t)
  PROVE  CredentialsInv'
<1>1. /\ act[t].pc = "write" /\ vault' \in Written(vault, t, act[t].document) /\ Goto(t, "replace")
      /\ UNCHANGED <<superseded, providerVars, hostVars, lock, acts>> /\ troubled' \in BOOLEAN
      /\ vault \in StateFiles(Threads, Contents) /\ vault.at[t] # "closed"
      /\ act[t].document \in Contents /\ act[t].document \in DOMAIN refresh \cup {None}
      /\ {vault.path, vault.tmp} \subseteq DOMAIN refresh \cup {None, NoFile, Blank, Mixed}
  BY DEF WriteVault, CredentialsInv, CredentialsTypeOK, FilesAreKnown, InPlace, AnswersAreKnown, Acts
<1>2. /\ vault' \in StateFiles(Threads, Contents) /\ vault'.at[t] = "closed"
      /\ \A u \in Threads \ {t} : vault'.at[u] = vault.at[u]
      /\ vault'.path \in {vault.path, act[t].document, Mixed}
      /\ vault'.tmp \in {vault.tmp, act[t].document, Mixed}
  BY <1>1, WrittenFile
<1>3. {vault'.path, vault'.tmp} \subseteq DOMAIN refresh \cup {None, NoFile, Blank, Mixed}
  BY <1>1, <1>2
<1> QED
  BY <1>1, <1>2, <1>3, WriterGoesOn

LEMMA ReplaceVaultStep ==
  ASSUME CredentialsInv, NEW t \in Threads, ReplaceVault(t)
  PROVE  CredentialsInv'
<1>1. /\ act[t].pc = "replace" /\ UNCHANGED <<superseded, providerVars, hostVars, acts>>
      /\ vault \in StateFiles(Threads, Contents) /\ vault.at[t] = "closed"
      /\ {vault.path, vault.tmp} \subseteq DOMAIN refresh \cup {None, NoFile, Blank, Mixed}
      /\ refresh \in Seq(Answers) /\ live \subseteq DOMAIN refresh /\ superseded \subseteq DOMAIN refresh
      /\ revoked \subseteq DOMAIN refresh /\ FilesAreKnown
  BY DEF ReplaceVault, CredentialsInv, CredentialsTypeOK, FilesAreKnown, InPlace
<1>2. troubled' \in BOOLEAN
  BY DEF ReplaceVault, CredentialsInv, CredentialsTypeOK
<1>3. /\ vault' \in StateFiles(Threads, Contents) /\ vault'.at[t] = "closed"
      /\ \A u \in Threads \ {t} : vault'.at[u] # "closed" <=> vault.at[u] # "closed"
      /\ {vault'.path, vault'.tmp} \subseteq DOMAIN refresh \cup {None, NoFile, Blank, Mixed}
  <2>1. CASE CanReplace(vault)
    <3>1. vault' = Replaced(vault)
      BY <2>1 DEF ReplaceVault
    <3> QED
      BY <1>1, <2>1, <3>1, ReplacedFile
  <2>2. CASE ~ CanReplace(vault)
    BY <1>1, <2>2 DEF ReplaceVault
  <2> QED
    BY <2>1, <2>2
<1>4. CASE Finish(t)
  <2>1. UNCHANGED <<refresh, live, revoked, superseded, acts>> /\ HostIsTrue
    BY <1>1, HostStays DEF providerVars
  <2>2. FilesAreKnown'
    BY <1>1, <1>3, <2>1 DEF FilesAreKnown
  <2> QED
    BY <1>1, <1>2, <1>3, <1>4, <2>1, <2>2, FinishStep
<1>5. CASE act[t].op = "run" /\ Goto(t, "again") /\ UNCHANGED lock
  BY <1>1, <1>2, <1>3, <1>5, WriterGoesOn
<1> QED
  BY <1>4, <1>5 DEF ReplaceVault

LEMMA CallFailsStep ==
  ASSUME CredentialsInv, NEW t \in Threads, CallFails(t)
  PROVE  CredentialsInv'
<1>1. /\ vault' \in Abandoned(vault, t) /\ Finish(t)
      /\ UNCHANGED <<superseded, providerVars, hostVars, acts>>
      /\ vault \in StateFiles(Threads, Contents)
      /\ {vault.path, vault.tmp} \subseteq DOMAIN refresh \cup {None, NoFile, Blank, Mixed}
      /\ refresh \in Seq(Answers) /\ live \subseteq DOMAIN refresh /\ superseded \subseteq DOMAIN refresh
      /\ revoked \subseteq DOMAIN refresh /\ FilesAreKnown
  BY DEF CallFails, CredentialsInv, CredentialsTypeOK, FilesAreKnown
<1>2. troubled' \in BOOLEAN
  BY DEF CallFails, CredentialsInv, CredentialsTypeOK
<1>3. /\ vault' \in StateFiles(Threads, Contents) /\ vault'.at[t] = "closed"
      /\ \A u \in Threads \ {t} : vault'.at[u] = vault.at[u]
      /\ vault'.path \in {vault.path, Mixed} /\ vault'.tmp \in {vault.tmp, Mixed}
  BY <1>1, AbandonedFile
<1>4. UNCHANGED <<refresh, live, revoked, superseded, acts>> /\ HostIsTrue
  BY <1>1, HostStays DEF providerVars
<1>5. FilesAreKnown'
  BY <1>1, <1>3, <1>4 DEF FilesAreKnown
<1> QED
  BY <1>1, <1>2, <1>3, <1>4, <1>5, FinishStep

-----------------------------------------------------------------------------
(* The host.                                                               *)

LEMMA GrantScopeStep ==
  ASSUME CredentialsInv, GrantScope
  PROVE  CredentialsInv'
<1>1. /\ \A t \in Threads : act[t].op # "disconnect"
      /\ grant' = TRUE /\ meant' = TRUE
      /\ UNCHANGED <<fileVars, providerVars, connector, lock, acts, troubled>>
      /\ UNCHANGED <<vault, refresh, superseded, live, revoked>>
  BY DEF GrantScope, fileVars, providerVars
<1>2. ASSUME NEW t \in Threads
      PROVE  /\ act'[t] \in Acts /\ act'[t].op = act[t].op /\ act'[t].pc = act[t].pc
             /\ act'[t].basis = act[t].basis /\ act'[t].answer = act[t].answer
             /\ act'[t].document = act[t].document /\ act'[t].entitled = (act[t].pc # "idle")
  <2>1. act'[t] = [act[t] EXCEPT !.entitled = act[t].pc # "idle"] /\ act[t] \in Acts
    BY DEF GrantScope, CredentialsInv, CredentialsTypeOK
  <2> DEFINE b == act[t].pc # "idle"
  <2>2. b \in BOOLEAN
    OBVIOUS
  <2> HIDE DEF b
  <2>3. act'[t] = [act[t] EXCEPT !.entitled = b]
    BY <2>1 DEF b
  <2>4. /\ act'[t] \in Acts /\ act'[t].op = act[t].op /\ act'[t].pc = act[t].pc
        /\ act'[t].basis = act[t].basis /\ act'[t].answer = act[t].answer
        /\ act'[t].document = act[t].document /\ act'[t].entitled = b
    BY <2>1, <2>2, <2>3 DEF Acts
  <2> QED
    BY <2>4 DEF b
<1>3. act' \in [Threads -> Acts]
  BY <1>2 DEF GrantScope
<1>4. \A t \in Threads : InPlace(t)'
  BY <1>1, <1>2 DEF CredentialsInv, InPlace, Saves
<1>5. \A t \in Threads : AnswersAreKnown(t)'
  BY <1>1, <1>2 DEF CredentialsInv, AnswersAreKnown
<1>6. \A t \in Threads : WordIsKept(t)'
  BY <1>1, <1>2 DEF WordIsKept
<1>7. FilesAreKnown'
  BY <1>1 DEF CredentialsInv, FilesAreKnown
<1>8. CredentialsTypeOK'
  <2>1. \A t \in Threads : act'[t].pc \in {"tokens", "refresh", "again"} => lock' = t
    BY <1>1, <1>2 DEF CredentialsInv, CredentialsTypeOK
  <2> QED
    BY <1>1, <1>3, <2>1 DEF CredentialsInv, CredentialsTypeOK
<1> QED
  BY <1>1, <1>4, <1>5, <1>6, <1>7, <1>8 DEF CredentialsInv

LEMMA ConnectorEndStep ==
  ASSUME CredentialsInv, EndGrant \/ Restart
  PROVE  CredentialsInv'
<1>1. /\ grant' = FALSE /\ meant' = FALSE /\ connector' \in {connector, "live"}
      /\ UNCHANGED <<fileVars, providerVars, lock, act, acts, troubled>>
      /\ UNCHANGED <<vault, refresh, superseded, live, revoked>>
  BY DEF EndGrant, Restart, fileVars, providerVars
<1>2. \A t \in Threads : InPlace(t)'
  BY <1>1 DEF CredentialsInv, InPlace, Saves
<1>3. \A t \in Threads : AnswersAreKnown(t)' /\ WordIsKept(t)'
  BY <1>1 DEF CredentialsInv, AnswersAreKnown, WordIsKept
<1>4. FilesAreKnown'
  BY <1>1 DEF CredentialsInv, FilesAreKnown
<1>5. CredentialsTypeOK'
  BY <1>1 DEF CredentialsInv, CredentialsTypeOK
<1> QED
  BY <1>1, <1>2, <1>3, <1>4, <1>5 DEF CredentialsInv

LEMMA CredentialsInvNext == CredentialsInv /\ [CredentialsNext]_credentialVars => CredentialsInv'
<1> SUFFICES ASSUME CredentialsInv, [CredentialsNext]_credentialVars PROVE CredentialsInv'
  OBVIOUS
<1>1. CASE UNCHANGED credentialVars
  <2>1. UNCHANGED <<vault, superseded, refresh, live, revoked, grant, connector, meant, lock, act,
                    acts, troubled>>
    BY <1>1 DEF credentialVars, fileVars, providerVars, hostVars
  <2>2. CredentialsTypeOK' /\ FilesAreKnown' /\ (grant' => meant')
    BY <2>1 DEF CredentialsInv, CredentialsTypeOK, FilesAreKnown
  <2>3. \A t \in Threads : InPlace(t)' /\ AnswersAreKnown(t)' /\ WordIsKept(t)'
    BY <2>1 DEF CredentialsInv, InPlace, AnswersAreKnown, WordIsKept, Saves
  <2> QED
    BY <2>2, <2>3 DEF CredentialsInv
<1>2. CASE GrantScope \/ EndGrant \/ Restart
  BY <1>2, GrantScopeStep, ConnectorEndStep
<1>3. ASSUME NEW t \in Threads,
             \/ Begin(t) \/ Disconnect(t)
             \/ CheckScope(t) \/ Invoke(t) \/ Fetch(t) \/ Send(t)
             \/ TakeLock(t) \/ LoadTokens(t) \/ RefreshTokens(t) \/ LoadAgain(t)
             \/ ExchangeCode(t) \/ LoadRevoke(t) \/ RevokeToken(t)
             \/ Reload(t) \/ OpenVault(t) \/ WriteVault(t) \/ ReplaceVault(t)
             \/ CallFails(t)
      PROVE  CredentialsInv'
  BY <1>3, BeginCallStep, DisconnectStep, EntitledRunStep, LoadTokensStep, RefreshTokensStep,
     ExchangeCodeStep, LoadRevokeStep, RevokeTokenStep, ReloadStep, OpenVaultStep, WriteVaultStep,
     ReplaceVaultStep, CallFailsStep
<1> QED
  BY <1>1, <1>2, <1>3 DEF CredentialsNext

LEMMA CredentialsInvariance == CredentialsSpec => []CredentialsInv
  BY CredentialsInvInit, CredentialsInvNext, PTL DEF CredentialsSpec

(* The vault, the provider and the calls are well typed, and tokens are    *)
(* refreshed under the lock.                                               *)
THEOREM CredentialsTypeCorrect == CredentialsSpec => []CredentialsTypeOK
<1>1. CredentialsInv => CredentialsTypeOK
  BY DEF CredentialsInv
<1> QED
  BY <1>1, CredentialsInvariance, PTL

(* Only a run that began before the host's last revocation had ended, or   *)
(* that a later grant allows, sends a request.                             *)
THEOREM RevocationSilences == CredentialsSpec => []SilentAfterRevocation
<1>1. CredentialsInv => SilentAfterRevocation
  BY DEF CredentialsInv, WordIsKept, SilentAfterRevocation
<1> QED
  BY <1>1, CredentialsInvariance, PTL

-----------------------------------------------------------------------------
(* The vault and the provider.                                             *)

(* Writers take turns: each has the temporary file to itself.              *)
WritersTakeTurns ==
  /\ \A t, u \in Threads : Writing(t) /\ Writing(u) => t = u
  /\ vault.path \in Contents \cup {NoFile}
  /\ \A t \in Threads :
       /\ act[t].pc = "write" => vault.at[t] = "tmp" /\ vault.tmp = Blank
       /\ act[t].pc = "replace" => vault.tmp = act[t].document
       /\ Writing(t) => act[t].document = NewDocument(t)

Refreshing(t) == act[t].op = "run" /\ Saves(t)
Consenting(t) == act[t].op = "exchange" /\ Saves(t)
Revoking(t) == act[t].op = "revoke" /\ Saves(t)

(* The refresh token of the answer that a call will store.                 *)
Token(t) == refresh[act[t].answer]

(* A call about to use a token that works has it from the vault.           *)
BasesAreStored ==
  \A t \in Threads :
    /\ act[t].pc = "refresh" \/ (act[t].op = "revoke" /\ act[t].pc = "revoke")
    /\ act[t].basis \in live
    => StoredRefresh = act[t].basis

(* A refresh stores the vault's token again, or the one that replaced it.  *)
RefreshesFollow ==
  \A t \in Threads : Refreshing(t) =>
    /\ StoredRefresh \in {None, act[t].basis}
    /\ Token(t) = act[t].basis \/ act[t].basis \notin live
    /\ Token(t) \in live \cup revoked

(* A consent stores a token of its own, in place of one that is written    *)
(* off by then.                                                            *)
ConsentsAreNew ==
  \A t \in Threads : Consenting(t) =>
    /\ Token(t) = act[t].answer /\ Token(t) \in live \cup revoked
    /\ StoredRefresh # act[t].answer
    /\ \A u \in Threads \ {t} : Unstored(u) => Token(u) # act[t].answer
    /\ Writing(t) => StoredRefresh \in superseded \cup {None}

(* A revocation deletes nothing but what it has revoked, even if a refresh *)
(* is about to store that again.                                           *)
RevocationsMatch ==
  \A t \in Threads : Revoking(t) =>
    /\ act[t].basis \in revoked /\ StoredRefresh \in {None, act[t].basis}
    /\ \A u \in Threads : Refreshing(u) => Token(u) = act[t].basis

(* No working token is lost, and no lost token is kept, but for the calls  *)
(* between answer and file.                                                *)
NothingIsLost ==
  /\ live \cap revoked = {}
  /\ \A n \in live \ superseded : n = StoredRefresh \/ \E t \in Threads : Unstored(t) /\ Token(t) = n
  /\ \/ StoredRefresh \in live \cup revoked \cup {None}
     \/ \E t \in Threads : Refreshing(t) /\ act[t].basis = StoredRefresh

TokensAreTraced ==
  BasesAreStored /\ RefreshesFollow /\ ConsentsAreNew /\ RevocationsMatch /\ NothingIsLost

VaultInv == troubled \/ (WritersTakeTurns /\ TokensAreTraced)

LEMMA VaultInvInit == CredentialsInit => VaultInv
<1> SUFFICES ASSUME CredentialsInit PROVE VaultInv
  OBVIOUS
<1>1. /\ \A t \in Threads : act[t].pc = "idle"
      /\ vault.path = NoFile /\ live = {} /\ revoked = {} /\ refresh = <<>>
  BY DEF CredentialsInit, NoAct, FileWith
<1>2. StoredRefresh = None
  BY <1>1, CredentialsAssumption DEF Stored, StoredRefresh, Answers
<1>3. \A t \in Threads : ~ Writing(t) /\ ~ Saves(t)
  BY <1>1 DEF Writing, Saves
<1>4. WritersTakeTurns
  BY <1>1, <1>3 DEF WritersTakeTurns
<1>5. TokensAreTraced
  BY <1>1, <1>2, <1>3 DEF TokensAreTraced, BasesAreStored, RefreshesFollow, ConsentsAreNew,
     RevocationsMatch, NothingIsLost, Refreshing, Consenting, Revoking
<1> QED
  BY <1>4, <1>5 DEF VaultInv

(* Answers, tokens and bases are those of the provider, and a call that is *)
(* between answer and file is a refresh or a consent.                      *)
RoleIsKnown(t) ==
  /\ act[t].basis \in DOMAIN refresh \cup {None}
  /\ act[t].answer \in DOMAIN refresh \cup {None}
  /\ Unstored(t) => act[t].answer \in DOMAIN refresh /\ Token(t) \in DOMAIN refresh
  /\ Unstored(t) => Refreshing(t) \/ Consenting(t)
  /\ Refreshing(t) \/ Consenting(t) => Unstored(t)
  /\ Refreshing(t) => act[t].basis # None /\ lock = t
  /\ Revoking(t) => act[t].basis # None
  /\ act[t].pc = "refresh" => act[t].op = "run" /\ act[t].basis # None /\ lock = t

LEMMA RolesAreKnown == CredentialsInv => \A t \in Threads : RoleIsKnown(t)
<1> SUFFICES ASSUME CredentialsInv, NEW t \in Threads PROVE RoleIsKnown(t)
  OBVIOUS
<1>1. /\ InPlace(t) /\ AnswersAreKnown(t) /\ FilesAreKnown
      /\ act[t].op \in {"run", "exchange", "revoke", "put", "disconnect"}
  BY DEF CredentialsInv, CredentialsTypeOK, Acts
<1>2. act[t].basis \in DOMAIN refresh \cup {None} /\ act[t].answer \in DOMAIN refresh \cup {None}
  BY <1>1 DEF AnswersAreKnown
<1>3. Unstored(t) <=> Saves(t) /\ act[t].answer # None
  BY DEF Unstored, Saves
<1>4. Unstored(t) => act[t].answer \in DOMAIN refresh /\ Token(t) \in DOMAIN refresh
  BY <1>1, <1>2, <1>3 DEF Token, FilesAreKnown
<1> QED
  BY <1>1, <1>2, <1>3, <1>4 DEF RoleIsKnown, InPlace, Refreshing, Consenting, Revoking, Saves

LEMMA RolesStayKnown == CredentialsInv' => (\A t \in Threads : RoleIsKnown(t))'
  BY RolesAreKnown, PTL

LEMMA TokensAreKnown ==
  ASSUME CredentialsInv
  PROVE  /\ None \notin DOMAIN refresh /\ Len(refresh) + 1 \notin DOMAIN refresh
         /\ None \notin live /\ None \notin revoked
         /\ live \subseteq DOMAIN refresh /\ revoked \subseteq DOMAIN refresh
  BY RefreshIsSequence DEF CredentialsInv, CredentialsTypeOK

-----------------------------------------------------------------------------
(* Steps that trace nothing new: a call keeps its role, or it has none     *)
(* now, and has left no answer behind.                                     *)

SameRole(t) ==
  /\ act'[t].op = act[t].op /\ act'[t].basis = act[t].basis /\ act'[t].answer = act[t].answer
  /\ Saves(t)' = Saves(t) /\ (Writing(t)' => Writing(t) \/ act[t].op # "exchange")
  /\ act'[t].pc \in {"refresh", "revoke"} => act'[t].pc = act[t].pc

Outside(t) ==
  \/ act[t].op = "put"
  \/ ~ Saves(t) /\ act[t].pc # "refresh" /\ ~ (act[t].op = "revoke" /\ act[t].pc = "revoke")

LEMMA QuietTokens ==
  ASSUME CredentialsInv, CredentialsInv', TokensAreTraced,
         StoredRefresh' = StoredRefresh, UNCHANGED <<refresh, live, revoked, superseded>>,
         \A t \in Threads : SameRole(t) \/ (Outside(t)' /\ ~ Unstored(t))
  PROVE  TokensAreTraced'
<1>1. ASSUME NEW t \in Threads
      PROVE  /\ Refreshing(t)' => SameRole(t) /\ Refreshing(t) /\ Token(t)' = Token(t)
             /\ Consenting(t)' => SameRole(t) /\ Consenting(t) /\ Token(t)' = Token(t)
             /\ Revoking(t)' => SameRole(t) /\ Revoking(t)
             /\ Unstored(t)' => SameRole(t) /\ Unstored(t) /\ Token(t)' = Token(t)
  <2>1. Unstored(t)' => Refreshing(t)' \/ Consenting(t)'
    BY RolesStayKnown DEF RoleIsKnown
  <2>2. Refreshing(t) \/ Consenting(t) => Unstored(t)
    BY RolesAreKnown DEF RoleIsKnown
  <2>3. Refreshing(t)' \/ Consenting(t)' \/ Revoking(t)' => SameRole(t)
    BY DEF Refreshing, Consenting, Revoking, Outside
  <2>4. SameRole(t) => Token(t)' = Token(t)
    BY DEF SameRole, Token
  <2>5. SameRole(t) => /\ Refreshing(t)' => Refreshing(t)
                       /\ Consenting(t)' => Consenting(t)
                       /\ Revoking(t)' => Revoking(t)
    BY DEF SameRole, Refreshing, Consenting, Revoking
  <2> QED
    BY <2>1, <2>2, <2>3, <2>4, <2>5
<1>2. ASSUME NEW t \in Threads, Unstored(t)
      PROVE  Unstored(t)' /\ Token(t)' = Token(t) /\ SameRole(t) /\ (Refreshing(t) => Refreshing(t)')
  <2>1. SameRole(t) /\ (Refreshing(t) \/ Consenting(t))
    BY <1>2, RolesAreKnown DEF RoleIsKnown
  <2>2. (Refreshing(t)' \/ Consenting(t)') /\ Token(t)' = Token(t) /\ (Refreshing(t) => Refreshing(t)')
    BY <2>1 DEF SameRole, Refreshing, Consenting, Token
  <2>3. Unstored(t)'
    BY <2>2, RolesStayKnown DEF RoleIsKnown
  <2> QED
    BY <2>1, <2>2, <2>3
<1> HIDE DEF Unstored, Token
<1>3. BasesAreStored'
  <2> SUFFICES ASSUME NEW t \in Threads,
                      act'[t].pc = "refresh" \/ (act'[t].op = "revoke" /\ act'[t].pc = "revoke"),
                      act'[t].basis \in live'
               PROVE  StoredRefresh' = act'[t].basis
    BY DEF BasesAreStored
  <2>1. SameRole(t)
    <3>1. act'[t].pc = "refresh" => act'[t].op = "run"
      BY RolesStayKnown DEF RoleIsKnown
    <3> QED
      BY <3>1 DEF Outside
  <2> QED
    BY <2>1 DEF SameRole, TokensAreTraced, BasesAreStored
<1>4. RefreshesFollow'
  BY <1>1 DEF SameRole, TokensAreTraced, RefreshesFollow
<1>5. ConsentsAreNew'
  <2> SUFFICES ASSUME NEW t \in Threads, Consenting(t)'
               PROVE  /\ Token(t)' = act'[t].answer /\ Token(t)' \in live' \cup revoked'
                      /\ StoredRefresh' # act'[t].answer
                      /\ \A u \in Threads \ {t} : Unstored(u)' => Token(u)' # act'[t].answer
                      /\ Writing(t)' => StoredRefresh' \in superseded' \cup {None}
    BY DEF ConsentsAreNew
  <2>1. Consenting(t) /\ Token(t)' = Token(t) /\ act'[t].answer = act[t].answer
    BY <1>1 DEF SameRole
  <2>2. Writing(t)' => Writing(t)
    BY <1>1, <2>1 DEF SameRole, Consenting
  <2> QED
    BY <1>1, <2>1, <2>2 DEF TokensAreTraced, ConsentsAreNew
<1>6. RevocationsMatch'
  BY <1>1 DEF SameRole, TokensAreTraced, RevocationsMatch
<1>7. NothingIsLost'
  <2>1. ASSUME NEW n \in live \ superseded
        PROVE  n = StoredRefresh \/ \E t \in Threads : Unstored(t)' /\ Token(t)' = n
    BY <1>2 DEF TokensAreTraced, NothingIsLost
  <2>2. \/ StoredRefresh \in live \cup revoked \cup {None}
        \/ \E t \in Threads : Refreshing(t)' /\ act'[t].basis = StoredRefresh
    <3>1. ASSUME NEW t \in Threads, Refreshing(t), act[t].basis = StoredRefresh
          PROVE  Refreshing(t)' /\ act'[t].basis = StoredRefresh
      <4>1. Unstored(t)
        BY <3>1, RolesAreKnown DEF RoleIsKnown
      <4> QED
        BY <1>2, <3>1, <4>1 DEF SameRole
    <3> QED
      BY <3>1 DEF TokensAreTraced, NothingIsLost
  <2> QED
    BY <2>1, <2>2 DEF TokensAreTraced, NothingIsLost
<1> QED
  BY <1>3, <1>4, <1>5, <1>6, <1>7 DEF TokensAreTraced

SameAct(t) ==
  /\ act'[t].op = act[t].op /\ act'[t].pc = act[t].pc /\ act'[t].basis = act[t].basis
  /\ act'[t].answer = act[t].answer /\ act'[t].document = act[t].document

LEMMA SameActs ==
  ASSUME NEW t \in Threads, SameAct(t)
  PROVE  /\ SameRole(t) /\ Saves(t)' = Saves(t) /\ Writing(t)' = Writing(t)
         /\ Unstored(t)' = Unstored(t)
  BY DEF SameAct, SameRole, Saves, Writing, Unstored

LEMMA StoredStays ==
  ASSUME UNCHANGED <<vault, refresh>>
  PROVE  Stored' = Stored /\ StoredRefresh' = StoredRefresh
  BY DEF Stored, StoredRefresh

LEMMA QuietStep ==
  ASSUME CredentialsInv, CredentialsInv', VaultInv,
         UNCHANGED <<fileVars, providerVars, troubled>>,
         \A t \in Threads : SameAct(t) \/ (Outside(t)' /\ ~ Writing(t)' /\ ~ Unstored(t))
  PROVE  VaultInv'
<1>1. UNCHANGED <<vault, superseded, refresh, live, revoked, troubled>>
  BY DEF fileVars, providerVars
<1>2. CASE troubled
  BY <1>1, <1>2 DEF VaultInv
<1>3. CASE WritersTakeTurns /\ TokensAreTraced
  <2>1. Stored' = Stored /\ StoredRefresh' = StoredRefresh
    BY <1>1, StoredStays
  <2>2. TokensAreTraced'
    BY <1>1, <1>3, <2>1, SameActs, QuietTokens
  <2>3. \A t \in Threads : Writing(t)' => /\ SameAct(t) /\ Writing(t)
                                          /\ NewDocument(t)' = NewDocument(t)
    BY <2>1, SameActs DEF SameAct, NewDocument
  <2>4. \A t \in Threads : act'[t].pc \in {"write", "replace"} => Writing(t)'
    BY DEF Writing
  <2>5. WritersTakeTurns'
    BY <1>1, <1>3, <2>3, <2>4 DEF WritersTakeTurns, SameAct
  <2> QED
    BY <2>2, <2>5 DEF VaultInv
<1> QED
  BY <1>2, <1>3 DEF VaultInv

-----------------------------------------------------------------------------
(* The steps of a call.                                                    *)

(* Calls that are not at their answers or the vault yet, or no more.       *)
LEMMA OtherStep ==
  ASSUME CredentialsInv, CredentialsInv', VaultInv, NEW t \in Threads,
         \/ Begin(t) \/ Disconnect(t)
         \/ CheckScope(t) \/ Invoke(t) \/ Fetch(t) \/ Send(t) \/ TakeLock(t) \/ LoadAgain(t)
  PROVE  VaultInv'
<1>1. /\ UNCHANGED <<fileVars, providerVars, troubled>>
      /\ \A u \in Threads \ {t} : act'[u] = act[u]
      /\ act'[t].op = "put" \/ act'[t].pc \notin {"refresh", "reload", "open", "write", "replace", "revoke"}
           \/ act'[t].op = "disconnect"
      /\ act'[t].pc \notin {"open", "write", "replace"} /\ ~ Unstored(t)
  <2>1. CASE Begin(t)
    <3>1. PICK op \in {"run", "exchange", "revoke", "put", "disconnect"},
               pc \in {"check", "request", "load", "reload", "revoke"} :
            /\ Call(t, op, pc)
            /\ op = "put" \/ op = "disconnect" \/ pc \in {"check", "request", "load"}
      BY <2>1 DEF Begin
    <3>2. /\ act[t].pc = "idle" /\ act' = [act EXCEPT ![t] = [NoAct EXCEPT !.op = op, !.pc = pc, !.entitled = meant]]
          /\ UNCHANGED <<fileVars, providerVars, troubled>> /\ act \in [Threads -> Acts]
      BY <3>1 DEF Call, CredentialsInv, CredentialsTypeOK
    <3>3. act'[t].op = op /\ act'[t].pc = pc
      BY <3>2 DEF NoAct
    <3> QED
      BY <3>1, <3>2, <3>3 DEF Unstored
  <2>2. CASE Disconnect(t)
    <3>1. /\ act[t].op = "disconnect" /\ act[t].pc \in {"revoke", "set", "drop"}
          /\ UNCHANGED <<fileVars, providerVars, troubled>>
          /\ Goto(t, "set") \/ Goto(t, "drop") \/ Finish(t)
      BY <2>2 DEF Disconnect
    <3>2. CASE Finish(t)
      BY <3>1, <3>2, FinishFrame, ActTypes DEF Unstored
    <3>3. CASE Goto(t, "set") \/ Goto(t, "drop")
      BY <3>1, <3>3, GotoFrame DEF Unstored
    <3> QED
      BY <3>1, <3>2, <3>3
  <2>3. CASE CheckScope(t) \/ Invoke(t) \/ Fetch(t) \/ Send(t) \/ TakeLock(t) \/ LoadAgain(t)
    <3>1. /\ act[t].pc \in {"check", "invoke", "fetch", "send", "lock", "again"}
          /\ UNCHANGED <<fileVars, providerVars, troubled>>
          /\ Finish(t) \/ \E pc \in {"invoke", "fetch", "lock", "tokens", "send", "idle"} : Goto(t, pc)
      BY <2>3 DEF CheckScope, Invoke, Fetch, Send, TakeLock, LoadAgain, Step, Goto
    <3>2. CASE Finish(t)
      BY <3>1, <3>2, FinishFrame, ActTypes DEF Unstored
    <3>3. ASSUME NEW pc \in {"invoke", "fetch", "lock", "tokens", "send", "idle"}, Goto(t, pc)
          PROVE  (\A u \in Threads \ {t} : act'[u] = act[u]) /\ act'[t].pc = pc
      BY <3>3, GotoFrame
    <3> QED
      BY <3>1, <3>2, <3>3 DEF Unstored
  <2> QED
    BY <2>1, <2>2, <2>3
<1>2. Outside(t)' /\ ~ Writing(t)'
  <2>1. act'[t].op = "disconnect" => Outside(t)'
    BY DEF CredentialsInv, InPlace, Outside, Saves
  <2> QED
    BY <1>1, <2>1 DEF Outside, Writing, Saves
<1>3. \A u \in Threads \ {t} : SameAct(u)
  BY <1>1 DEF SameAct
<1> QED
  BY <1>1, <1>2, <1>3, QuietStep

(* The host's own steps.                                                   *)
LEMMA HostStep ==
  ASSUME CredentialsInv, CredentialsInv', VaultInv, GrantScope \/ EndGrant \/ Restart
  PROVE  VaultInv'
<1>1. /\ UNCHANGED <<fileVars, providerVars, troubled>>
      /\ \A t \in Threads : SameAct(t)
  <2>1. CASE GrantScope
    <3>1. UNCHANGED <<fileVars, providerVars, troubled>>
      BY <2>1 DEF GrantScope
    <3>2. ASSUME NEW t \in Threads PROVE SameAct(t)
      <4>1. act'[t] = [act[t] EXCEPT !.entitled = act[t].pc # "idle"] /\ act[t] \in Acts
        BY <2>1 DEF GrantScope, CredentialsInv, CredentialsTypeOK
      <4> QED
        BY <4>1 DEF SameAct, Acts
    <3> QED
      BY <3>1, <3>2
  <2>2. CASE EndGrant \/ Restart
    BY <2>2 DEF EndGrant, Restart, SameAct
  <2> QED
    BY <2>1, <2>2
<1> QED
  BY <1>1, QuietStep

(* Only the calls of t have changed, and t is not at the vault.            *)
LEMMA LoadedTokens ==
  ASSUME CredentialsInv, CredentialsInv', VaultInv, NEW t \in Threads,
         LoadTokens(t) \/ LoadRevoke(t)
  PROVE  VaultInv'
<1>1. /\ UNCHANGED <<fileVars, providerVars, troubled>>
      /\ UNCHANGED <<vault, superseded, refresh, live, revoked>>
      /\ act[t].pc \in {"tokens", "load"}
      /\ \/ Finish(t) \/ Goto(t, "send")
         \/ \E pc \in {"refresh", "revoke"} :
              Stored # None /\ act' = [act EXCEPT ![t].pc = pc, ![t].basis = StoredRefresh]
  BY DEF LoadTokens, LoadRevoke, Goto, fileVars, providerVars
<1>2. ~ Unstored(t) /\ ~ Saves(t) /\ ~ Writing(t)
  BY <1>1 DEF Unstored, Saves, Writing
<1>3. CASE Finish(t) \/ Goto(t, "send")
  <2>1. /\ \A u \in Threads \ {t} : act'[u] = act[u]
        /\ act'[t].pc \in {"idle", "send"}
    BY <1>3, FinishFrame, GotoFrame, ActTypes
  <2>2. Outside(t)' /\ ~ Writing(t)'
    BY <2>1 DEF Outside, Saves, Writing
  <2> QED
    BY <1>1, <1>2, <2>1, <2>2, QuietStep DEF SameAct
<1>4. ASSUME NEW pc \in {"refresh", "revoke"}, Stored # None,
             act' = [act EXCEPT ![t].pc = pc, ![t].basis = StoredRefresh]
      PROVE  VaultInv'
  <2>1. /\ act'[t].pc = pc /\ act'[t].basis = StoredRefresh
        /\ \A u \in Threads \ {t} : act'[u] = act[u]
    BY <1>4, LoadFrame
  <2>2. Stored' = Stored /\ StoredRefresh' = StoredRefresh
    BY <1>1, StoredStays
  <2>3. ~ Saves(t)' /\ ~ Writing(t)' /\ ~ Unstored(t)'
    BY <2>1 DEF Saves, Writing, Unstored
  <2>4. \A u \in Threads \ {t} : /\ Saves(u)' = Saves(u) /\ Writing(u)' = Writing(u)
                                 /\ Unstored(u)' = Unstored(u) /\ Token(u)' = Token(u)
                                 /\ NewDocument(u)' = NewDocument(u)
    BY <1>1, <2>1, <2>2 DEF Saves, Writing, Unstored, Token, NewDocument
  <2>5. CASE troubled
    BY <1>1, <2>5 DEF VaultInv
  <2>6. CASE WritersTakeTurns /\ TokensAreTraced
    <3>1. WritersTakeTurns'
      BY <1>1, <2>1, <2>3, <2>4, <2>6 DEF WritersTakeTurns
    <3>2. BasesAreStored'
      BY <1>1, <2>1, <2>2, <2>6 DEF TokensAreTraced, BasesAreStored
    <3>3. RefreshesFollow' /\ RevocationsMatch'
      BY <1>1, <2>1, <2>2, <2>3, <2>4, <2>6
      DEF TokensAreTraced, RefreshesFollow, RevocationsMatch, Refreshing, Revoking
    <3>4. ConsentsAreNew'
      BY <1>1, <2>1, <2>2, <2>3, <2>4, <2>6 DEF TokensAreTraced, ConsentsAreNew, Consenting
    <3>5. NothingIsLost'
      BY <1>1, <1>2, <2>1, <2>2, <2>3, <2>4, <2>6 DEF TokensAreTraced, NothingIsLost, Refreshing
    <3> QED
      BY <3>1, <3>2, <3>3, <3>4, <3>5 DEF VaultInv, TokensAreTraced
  <2> QED
    BY <2>5, <2>6 DEF VaultInv
<1> QED
  BY <1>1, <1>3, <1>4

(* An answer arrives.                                                      *)
LEMMA AnswerArrives ==
  ASSUME CredentialsInv, WritersTakeTurns, NEW t \in Threads,
         NEW token \in DOMAIN refresh \cup {Len(refresh) + 1}, Answered(t, token),
         ~ Saves(t), ~ troubled'
  PROVE  /\ NewAnswer(Len(refresh) + 1, token)
         /\ act'[t].pc = "reload" /\ act'[t].answer = Len(refresh) + 1
         /\ act'[t].op = act[t].op /\ act'[t].basis = act[t].basis
         /\ \A u \in Threads \ {t} : act'[u] = act[u]
         /\ Stored' = Stored /\ StoredRefresh' = StoredRefresh
         /\ UNCHANGED <<vault, superseded>> /\ WritersTakeTurns'
         /\ ~ Writing(t)' /\ Token(t)' = token
         /\ \A u \in Threads \ {t} :
              /\ Saves(u)' = Saves(u) /\ Writing(u)' = Writing(u) /\ Unstored(u)' = Unstored(u)
              /\ Unstored(u) => Token(u)' = Token(u)
<1> DEFINE n == Len(refresh) + 1
<1>1. /\ NewAnswer(n, token) /\ act'[t].pc = "reload" /\ act'[t].answer = n
      /\ act'[t].op = act[t].op /\ act'[t].basis = act[t].basis
      /\ \A u \in Threads \ {t} : act'[u] = act[u]
  BY AnsweredFrame
<1>2. /\ UNCHANGED <<vault, superseded>> /\ refresh'[n] = token
      /\ \A m \in DOMAIN refresh : refresh'[m] = refresh[m]
  BY <1>1 DEF NewAnswer, fileVars
<1>3. Stored' = Stored /\ StoredRefresh' = StoredRefresh
  <2>1. Stored' = Stored /\ Stored \in DOMAIN refresh \cup {None}
    BY <1>2, StoredIsKnown DEF Stored
  <2> QED
    BY <1>2, <2>1 DEF StoredRefresh
<1>4. ~ Writing(t)' /\ Token(t)' = token /\ ~ Writing(t)
  BY <1>1, <1>2 DEF Writing, Saves, Token
<1>5. ASSUME NEW u \in Threads \ {t}
      PROVE  /\ Saves(u)' = Saves(u) /\ Writing(u)' = Writing(u) /\ Unstored(u)' = Unstored(u)
             /\ Unstored(u) => Token(u)' = Token(u)
             /\ NewDocument(u)' = NewDocument(u)
  <2>1. /\ Saves(u)' = Saves(u) /\ Writing(u)' = Writing(u) /\ Unstored(u)' = Unstored(u)
        /\ NewDocument(u)' = NewDocument(u)
    BY <1>1, <1>3 DEF Saves, Writing, Unstored, NewDocument
  <2>2. Unstored(u) => act[u].answer \in DOMAIN refresh
    BY RolesAreKnown DEF RoleIsKnown
  <2> QED
    BY <1>1, <1>2, <2>1, <2>2 DEF Token
<1>6. WritersTakeTurns'
  BY <1>1, <1>2, <1>4, <1>5 DEF WritersTakeTurns
<1> QED
  BY <1>1, <1>2, <1>3, <1>4, <1>5, <1>6

(* A refresh under the lock: nobody else refreshes, and no revocation has  *)
(* come so far that this token could still work.                           *)
LEMMA RefreshedTokens ==
  ASSUME CredentialsInv, CredentialsInv', WritersTakeTurns, TokensAreTraced,
         NEW t \in Threads, RefreshTokens(t), ~ troubled'
  PROVE  VaultInv'
<1> DEFINE n == Len(refresh) + 1
           b == act[t].basis
<1>1. PICK token \in {b, n} :
        /\ Answered(t, token)
        /\ \/ token = b /\ UNCHANGED live
           \/ token = n /\ live' = (live \ {b}) \cup {token}
  BY RefreshFrame
<1>2. /\ act[t].op = "run" /\ act[t].pc = "refresh" /\ b \in live /\ b \in DOMAIN refresh
      /\ revoked' = revoked /\ token \in DOMAIN refresh \cup {n} /\ ~ Saves(t)
  BY RefreshFrame DEF Saves
<1>3. /\ act'[t].pc = "reload" /\ act'[t].answer = n
      /\ act'[t].op = "run" /\ act'[t].basis = b
      /\ \A u \in Threads \ {t} : act'[u] = act[u]
      /\ StoredRefresh' = StoredRefresh /\ superseded' = superseded /\ WritersTakeTurns'
      /\ ~ Writing(t)' /\ Token(t)' = token
      /\ \A u \in Threads \ {t} :
           /\ Saves(u)' = Saves(u) /\ Writing(u)' = Writing(u) /\ Unstored(u)' = Unstored(u)
           /\ Unstored(u) => Token(u)' = Token(u)
  BY <1>1, <1>2, AnswerArrives
<1>4. /\ None \notin DOMAIN refresh /\ n \notin DOMAIN refresh /\ None \notin live /\ None \notin revoked
      /\ live \subseteq DOMAIN refresh /\ revoked \subseteq DOMAIN refresh
      /\ live \cap revoked = {} /\ n # None
  BY TokensAreKnown, RefreshIsSequence, CredentialsAssumption DEF TokensAreTraced, NothingIsLost
<1>5. StoredRefresh = b /\ b # n /\ b \notin revoked
  BY <1>2, <1>4 DEF TokensAreTraced, BasesAreStored
<1>6. \A u \in Threads \ {t} : act[u].pc # "refresh" /\ ~ Refreshing(u)
  <2>1. lock = t
    BY <1>2, RolesAreKnown DEF RoleIsKnown
  <2> QED
    BY <2>1, RolesAreKnown DEF RoleIsKnown
<1>7. \A u \in Threads : ~ Revoking(u)
  BY <1>2, <1>4, <1>5 DEF TokensAreTraced, RevocationsMatch
<1>8. \A u \in Threads \ {t} : /\ Unstored(u) => Consenting(u)
                               /\ Consenting(u) => Unstored(u) /\ act[u].answer \in DOMAIN refresh
                               /\ act[u].basis \in DOMAIN refresh \cup {None}
  BY <1>6, RolesAreKnown DEF RoleIsKnown
<1> HIDE DEF n, b
<1>9. \A u \in Threads \ {t} : /\ ~ Refreshing(u)' /\ ~ Revoking(u)'
                               /\ Consenting(u)' => Consenting(u)
  BY <1>3, <1>6, <1>7 DEF Refreshing, Revoking, Consenting
<1>10. Refreshing(t)' /\ ~ Revoking(t)' /\ ~ Consenting(t)' /\ Unstored(t)'
  <2>1. Refreshing(t)' /\ ~ Revoking(t)' /\ ~ Consenting(t)'
    BY <1>3 DEF Refreshing, Revoking, Consenting, Saves
  <2> QED
    BY <2>1, RolesStayKnown DEF RoleIsKnown
<1>11. BasesAreStored'
  <2> SUFFICES ASSUME NEW u \in Threads,
                      act'[u].pc = "refresh" \/ (act'[u].op = "revoke" /\ act'[u].pc = "revoke"),
                      act'[u].basis \in live'
               PROVE  StoredRefresh' = act'[u].basis
    BY DEF BasesAreStored
  <2>1. u # t /\ act'[u] = act[u]
    BY <1>3
  <2>2. act[u].basis \in live
    BY <1>1, <1>4, <1>8, <2>1
  <2> QED
    BY <1>3, <2>1, <2>2 DEF TokensAreTraced, BasesAreStored
<1>12. RefreshesFollow'
  <2>1. Token(t)' = b \/ b \notin live'
    BY <1>1, <1>3, <1>5
  <2>2. Token(t)' \in live'
    BY <1>1, <1>2, <1>3
  <2> QED
    BY <1>3, <1>5, <1>9, <2>1, <2>2 DEF RefreshesFollow
<1>13. ConsentsAreNew'
  <2> SUFFICES ASSUME NEW u \in Threads, Consenting(u)'
               PROVE  /\ Token(u)' = act'[u].answer /\ Token(u)' \in live' \cup revoked'
                      /\ StoredRefresh' # act'[u].answer
                      /\ \A v \in Threads \ {u} : Unstored(v)' => Token(v)' # act'[u].answer
                      /\ Writing(u)' => StoredRefresh' \in superseded' \cup {None}
    BY DEF ConsentsAreNew
  <2>1. /\ u # t /\ Consenting(u) /\ act'[u] = act[u] /\ Token(u)' = Token(u)
        /\ Writing(u)' = Writing(u)
    BY <1>3, <1>8, <1>9, <1>10
  <2>2. /\ Token(u) = act[u].answer /\ Token(u) \in live \cup revoked
        /\ StoredRefresh # act[u].answer
        /\ \A v \in Threads \ {u} : Unstored(v) => Token(v) # act[u].answer
        /\ Writing(u) => StoredRefresh \in superseded \cup {None}
    BY <2>1 DEF TokensAreTraced, ConsentsAreNew
  <2>3. Token(u) \in live' \cup revoked'
    BY <1>1, <1>2, <1>5, <2>2
  <2>4. Token(t)' # act[u].answer
    BY <1>1, <1>3, <1>4, <1>5, <1>8, <2>1, <2>2
  <2>5. \A v \in Threads \ {u} : Unstored(v)' => Token(v)' # act[u].answer
    BY <1>3, <2>2, <2>4
  <2> QED
    BY <1>3, <2>1, <2>2, <2>3, <2>5
<1>14. RevocationsMatch'
  BY <1>9, <1>10 DEF RevocationsMatch
<1>15. NothingIsLost'
  <2>1. live' \cap revoked' = {}
    BY <1>1, <1>2, <1>4
  <2>2. ASSUME NEW m \in live' \ superseded'
        PROVE  m = StoredRefresh' \/ \E u \in Threads : Unstored(u)' /\ Token(u)' = m
    <3>1. CASE m = token /\ m = n
      BY <1>3, <1>10, <3>1
    <3>2. CASE m \in live
      <4>1. \/ m = StoredRefresh
            \/ \E u \in Threads : Unstored(u) /\ Token(u) = m
        BY <1>3, <2>2, <3>2 DEF TokensAreTraced, NothingIsLost
      <4>2. ~ Unstored(t)
        BY <1>2 DEF Unstored, Saves
      <4> QED
        BY <1>3, <4>1, <4>2
    <3> QED
      BY <1>1, <3>1, <3>2
  <2>3. Refreshing(t)' /\ act'[t].basis = StoredRefresh'
    BY <1>3, <1>5, <1>10
  <2> QED
    BY <2>1, <2>2, <2>3 DEF NothingIsLost
<1> QED
  BY <1>3, <1>11, <1>12, <1>13, <1>14, <1>15 DEF VaultInv, TokensAreTraced

(* A new consent's token is nobody else's.                                 *)
LEMMA ExchangedCode ==
  ASSUME CredentialsInv, CredentialsInv', WritersTakeTurns, TokensAreTraced,
         NEW t \in Threads, ExchangeCode(t), ~ troubled'
  PROVE  VaultInv'
<1> DEFINE n == Len(refresh) + 1
<1>1. /\ act[t].op = "exchange" /\ act[t].pc = "request" /\ ~ Saves(t)
      /\ Answered(t, n) /\ live' = live \cup {n} /\ revoked' = revoked
  BY ExchangeFrame DEF ExchangeCode, Saves
<1>2. /\ act'[t].pc = "reload" /\ act'[t].answer = n
      /\ act'[t].op = "exchange"
      /\ \A u \in Threads \ {t} : act'[u] = act[u]
      /\ StoredRefresh' = StoredRefresh /\ superseded' = superseded /\ WritersTakeTurns'
      /\ ~ Writing(t)' /\ Token(t)' = n
      /\ \A u \in Threads \ {t} :
           /\ Saves(u)' = Saves(u) /\ Writing(u)' = Writing(u) /\ Unstored(u)' = Unstored(u)
           /\ Unstored(u) => Token(u)' = Token(u)
  BY <1>1, AnswerArrives
<1>3. /\ None \notin DOMAIN refresh /\ n \notin DOMAIN refresh
      /\ live \subseteq DOMAIN refresh /\ revoked \subseteq DOMAIN refresh
      /\ StoredRefresh \in DOMAIN refresh \cup {None}
      /\ n # None
  <2>1. n # None
    BY RefreshIsSequence, CredentialsAssumption
  <2> QED
    BY <2>1, TokensAreKnown, StoredIsKnown
<1>4. \A u \in Threads \ {t} :
        /\ act[u].basis \in DOMAIN refresh \cup {None}
        /\ Unstored(u) => act[u].answer \in DOMAIN refresh /\ Token(u) \in DOMAIN refresh
        /\ Refreshing(u) \/ Consenting(u) => Unstored(u)
  BY RolesAreKnown DEF RoleIsKnown
<1> HIDE DEF n
<1>5. \A u \in Threads \ {t} : /\ Refreshing(u)' = Refreshing(u) /\ Revoking(u)' = Revoking(u)
                               /\ Consenting(u)' = Consenting(u)
  BY <1>2 DEF Refreshing, Revoking, Consenting
<1>6. ~ Refreshing(t)' /\ ~ Revoking(t)' /\ Consenting(t)' /\ Unstored(t)'
  <2>1. ~ Refreshing(t)' /\ ~ Revoking(t)' /\ Consenting(t)'
    BY <1>2 DEF Refreshing, Revoking, Consenting, Saves
  <2> QED
    BY <2>1, RolesStayKnown DEF RoleIsKnown
<1>7. BasesAreStored'
  <2> SUFFICES ASSUME NEW u \in Threads,
                      act'[u].pc = "refresh" \/ (act'[u].op = "revoke" /\ act'[u].pc = "revoke"),
                      act'[u].basis \in live'
               PROVE  StoredRefresh' = act'[u].basis
    BY DEF BasesAreStored
  <2>1. u # t /\ act'[u] = act[u]
    BY <1>2
  <2>2. act[u].basis \in live
    BY <1>1, <1>3, <1>4, <2>1
  <2> QED
    BY <1>2, <2>1, <2>2 DEF TokensAreTraced, BasesAreStored
<1>8. RefreshesFollow'
  <2> SUFFICES ASSUME NEW u \in Threads, Refreshing(u)'
               PROVE  /\ StoredRefresh' \in {None, act'[u].basis}
                      /\ Token(u)' = act'[u].basis \/ act'[u].basis \notin live'
                      /\ Token(u)' \in live' \cup revoked'
    BY DEF RefreshesFollow
  <2>1. u # t /\ Refreshing(u) /\ act'[u] = act[u] /\ Token(u)' = Token(u)
    BY <1>2, <1>4, <1>5, <1>6
  <2> QED
    BY <1>1, <1>2, <1>3, <1>4, <2>1 DEF TokensAreTraced, RefreshesFollow
<1>9. ConsentsAreNew'
  <2> SUFFICES ASSUME NEW u \in Threads, Consenting(u)'
               PROVE  /\ Token(u)' = act'[u].answer /\ Token(u)' \in live' \cup revoked'
                      /\ StoredRefresh' # act'[u].answer
                      /\ \A v \in Threads \ {u} : Unstored(v)' => Token(v)' # act'[u].answer
                      /\ Writing(u)' => StoredRefresh' \in superseded' \cup {None}
    BY DEF ConsentsAreNew
  <2>1. CASE u = t
    BY <1>1, <1>2, <1>3, <1>4, <2>1
  <2>2. CASE u # t
    <3>1. Consenting(u) /\ act'[u] = act[u] /\ Token(u)' = Token(u) /\ Writing(u)' = Writing(u)
      BY <1>2, <1>4, <1>5, <2>2
    <3>2. act[u].answer # n
      BY <1>3, <1>4, <2>2, <3>1
    <3> QED
      BY <1>1, <1>2, <2>2, <3>1, <3>2 DEF TokensAreTraced, ConsentsAreNew
  <2> QED
    BY <2>1, <2>2
<1>10. RevocationsMatch'
  BY <1>1, <1>2, <1>4, <1>5, <1>6 DEF TokensAreTraced, RevocationsMatch
<1>11. NothingIsLost'
  <2>1. live' \cap revoked' = {}
    BY <1>1, <1>3 DEF TokensAreTraced, NothingIsLost
  <2>2. ~ Unstored(t)
    BY <1>1 DEF Unstored, Saves
  <2>3. \A m \in live' \ superseded' :
          m = StoredRefresh' \/ \E u \in Threads : Unstored(u)' /\ Token(u)' = m
    BY <1>1, <1>2, <1>6, <2>2 DEF TokensAreTraced, NothingIsLost
  <2>4. ~ Refreshing(t)
    BY <1>1 DEF Refreshing
  <2>5. \/ StoredRefresh' \in live' \cup revoked' \cup {None}
        \/ \E u \in Threads : Refreshing(u)' /\ act'[u].basis = StoredRefresh'
    BY <1>1, <1>2, <1>5, <2>4 DEF TokensAreTraced, NothingIsLost
  <2> QED
    BY <2>1, <2>3, <2>5 DEF NothingIsLost
<1> QED
  BY <1>2, <1>7, <1>8, <1>9, <1>10, <1>11 DEF VaultInv, TokensAreTraced

(* What is revoked is what the vault holds, or what a refresh is about to  *)
(* store again.                                                            *)
LEMMA RevokedToken ==
  ASSUME CredentialsInv, CredentialsInv', WritersTakeTurns, TokensAreTraced,
         NEW t \in Threads, RevokeToken(t)
  PROVE  VaultInv'
<1> DEFINE b == act[t].basis
<1>1. /\ act[t].op = "revoke" /\ act[t].pc = "revoke" /\ b \in live
      /\ live' = live \ {b} /\ revoked' = revoked \cup {b}
      /\ UNCHANGED <<vault, superseded, refresh>>
      /\ Goto(t, "reload") \/ Finish(t)
  BY DEF RevokeToken, fileVars
<1>2. /\ act'[t].pc \in {"reload", "idle"} /\ act'[t].op # "exchange"
      /\ act'[t].pc = "reload" => act'[t].op = "revoke" /\ act'[t].basis = b
      /\ \A u \in Threads \ {t} : act'[u] = act[u]
  BY <1>1, GotoFrame, FinishFrame, ActTypes
<1>3. Stored' = Stored /\ StoredRefresh' = StoredRefresh
  BY <1>1, StoredStays
<1>4. None \notin live /\ StoredRefresh = b /\ b # None
  BY <1>1, TokensAreKnown DEF TokensAreTraced, BasesAreStored
<1>5. \A u \in Threads : Refreshing(u) => act[u].basis = b /\ Token(u) = b
  BY <1>1, <1>4 DEF TokensAreTraced, RefreshesFollow
<1> HIDE DEF b
<1>6. \A u \in Threads \ {t} :
        /\ Saves(u)' = Saves(u) /\ Writing(u)' = Writing(u) /\ Unstored(u)' = Unstored(u)
        /\ Token(u)' = Token(u) /\ NewDocument(u)' = NewDocument(u)
        /\ Refreshing(u)' = Refreshing(u) /\ Consenting(u)' = Consenting(u)
        /\ Revoking(u)' = Revoking(u)
  BY <1>1, <1>2, <1>3 DEF Saves, Writing, Unstored, Token, NewDocument, Refreshing, Consenting, Revoking
<1>7. /\ ~ Saves(t) /\ ~ Refreshing(t) /\ ~ Consenting(t) /\ ~ Unstored(t) /\ ~ Writing(t)
      /\ ~ Refreshing(t)' /\ ~ Consenting(t)' /\ ~ Unstored(t)' /\ ~ Writing(t)'
  <2>1. /\ ~ Saves(t) /\ ~ Refreshing(t) /\ ~ Consenting(t) /\ ~ Unstored(t) /\ ~ Writing(t)
        /\ ~ Refreshing(t)' /\ ~ Consenting(t)' /\ ~ Writing(t)'
    BY <1>1, <1>2 DEF Saves, Refreshing, Consenting, Unstored, Writing
  <2> QED
    BY <2>1, RolesStayKnown DEF RoleIsKnown
<1>8. Revoking(t)' => act'[t].basis = b
  BY <1>2 DEF Revoking, Saves
<1>9. WritersTakeTurns'
  <2>1. act'[t].pc \notin {"write", "replace"}
    BY <1>2
  <2> QED
    BY <1>1, <1>2, <1>6, <1>7, <2>1 DEF WritersTakeTurns
<1>10. BasesAreStored'
  <2>1. act'[t].pc # "refresh" /\ act'[t].pc # "revoke"
    BY <1>2
  <2> QED
    BY <1>1, <1>2, <1>3, <2>1 DEF TokensAreTraced, BasesAreStored
<1>11. RefreshesFollow'
  BY <1>1, <1>2, <1>3, <1>6, <1>7 DEF TokensAreTraced, RefreshesFollow
<1>12. ConsentsAreNew'
  BY <1>1, <1>2, <1>3, <1>6, <1>7 DEF TokensAreTraced, ConsentsAreNew
<1>13. RevocationsMatch'
  BY <1>1, <1>2, <1>3, <1>4, <1>5, <1>6, <1>7, <1>8 DEF TokensAreTraced, RevocationsMatch
<1>14. NothingIsLost'
  <2>1. \A n \in live' \ superseded' :
          n = StoredRefresh' \/ \E u \in Threads : Unstored(u)' /\ Token(u)' = n
    BY <1>1, <1>3, <1>6, <1>7 DEF TokensAreTraced, NothingIsLost
  <2> QED
    BY <1>1, <1>3, <1>4, <2>1 DEF TokensAreTraced, NothingIsLost
<1> QED
  BY <1>9, <1>10, <1>11, <1>12, <1>13, <1>14 DEF VaultInv, TokensAreTraced

-----------------------------------------------------------------------------
(* The steps of a writer.                                                  *)

LEMMA ReloadedVault ==
  ASSUME CredentialsInv, CredentialsInv', WritersTakeTurns, TokensAreTraced,
         NEW t \in Threads, Reload(t), ~ troubled'
  PROVE  VaultInv'
<1>1. Readable(vault)
  BY CredentialsAssumption, RefreshIsSequence DEF WritersTakeTurns, Readable, Contents
<1>2. /\ act[t].pc = "reload" /\ UNCHANGED <<vault, refresh, live, revoked>>
      /\ superseded' = IF act[t].op = "exchange" /\ Stored # None
                       THEN superseded \cup {StoredRefresh} ELSE superseded
      /\ \A u \in Threads : ~ Writing(u)
  BY <1>1 DEF Reload, providerVars
<1>3. /\ act'[t].pc = "open" /\ act'[t].document = NewDocument(t)
      /\ act'[t].op = act[t].op /\ act'[t].basis = act[t].basis /\ act'[t].answer = act[t].answer
      /\ \A u \in Threads \ {t} : act'[u] = act[u]
  BY <1>1, ReloadFrame
<1>4. Stored' = Stored /\ StoredRefresh' = StoredRefresh
  BY <1>2, StoredStays
<1>5. \A u \in Threads : /\ Saves(u)' = Saves(u) /\ Unstored(u)' = Unstored(u)
                         /\ Token(u)' = Token(u) /\ NewDocument(u)' = NewDocument(u)
                         /\ act'[u].op = act[u].op /\ act'[u].basis = act[u].basis
                         /\ act'[u].answer = act[u].answer
  BY <1>2, <1>3, <1>4 DEF Saves, Unstored, Token, NewDocument
<1>6. \A u \in Threads : /\ Refreshing(u)' = Refreshing(u) /\ Consenting(u)' = Consenting(u)
                         /\ Revoking(u)' = Revoking(u)
  BY <1>5 DEF Refreshing, Consenting, Revoking
<1>7. \A u \in Threads : Writing(u)' => u = t
  BY <1>2, <1>3 DEF Writing
<1>8. WritersTakeTurns'
  <2>1. \A u \in Threads : act'[u].pc \notin {"write", "replace"}
    BY <1>2, <1>3 DEF Writing
  <2> QED
    BY <1>2, <1>3, <1>5, <1>7, <2>1 DEF WritersTakeTurns
<1>9. BasesAreStored'
  BY <1>2, <1>3, <1>4, <1>5 DEF TokensAreTraced, BasesAreStored
<1>10. RefreshesFollow' /\ RevocationsMatch'
  BY <1>2, <1>4, <1>5, <1>6 DEF TokensAreTraced, RefreshesFollow, RevocationsMatch
<1>11. ConsentsAreNew'
  <2>1. ASSUME NEW u \in Threads, Consenting(u)', Writing(u)'
        PROVE  StoredRefresh' \in superseded' \cup {None}
    BY <1>2, <1>4, <1>6, <1>7, <2>1, StoredIsKnown DEF Consenting
  <2> QED
    BY <1>2, <1>4, <1>5, <1>6, <2>1 DEF TokensAreTraced, ConsentsAreNew
<1>12. NothingIsLost'
  BY <1>2, <1>4, <1>5, <1>6 DEF TokensAreTraced, NothingIsLost
<1> QED
  BY <1>8, <1>9, <1>10, <1>11, <1>12 DEF VaultInv, TokensAreTraced

(* A writer goes on in the temporary file.                                 *)
LEMMA WriterKeepsRole ==
  ASSUME CredentialsInv, CredentialsInv', TokensAreTraced, NEW t \in Threads, Writing(t),
         NEW pc \in {"write", "replace"}, Goto(t, pc),
         vault'.path = vault.path, UNCHANGED <<superseded, providerVars>>
  PROVE  /\ TokensAreTraced' /\ act'[t].pc = pc /\ act'[t].document = act[t].document
         /\ \A u \in Threads \ {t} : act'[u] = act[u]
         /\ \A u \in Threads : Writing(u)' = Writing(u) /\ NewDocument(u)' = NewDocument(u)
<1>1. /\ act'[t].pc = pc
      /\ act'[t].op = act[t].op /\ act'[t].basis = act[t].basis /\ act'[t].answer = act[t].answer
      /\ act'[t].document = act[t].document
      /\ \A u \in Threads \ {t} : act'[u] = act[u]
  BY GotoFrame
<1>2. UNCHANGED <<refresh, live, revoked>>
  BY DEF providerVars
<1>3. Stored' = Stored /\ StoredRefresh' = StoredRefresh
  BY <1>2 DEF Stored, StoredRefresh
<1>4. \A u \in Threads : /\ Writing(u)' = Writing(u) /\ NewDocument(u)' = NewDocument(u)
                         /\ SameRole(u)
  BY <1>1, <1>3 DEF Writing, NewDocument, SameRole, Saves
<1>5. TokensAreTraced'
  BY <1>2, <1>3, <1>4, QuietTokens
<1> QED
  BY <1>1, <1>4, <1>5

LEMMA OpenedVault ==
  ASSUME CredentialsInv, CredentialsInv', WritersTakeTurns, TokensAreTraced,
         NEW t \in Threads, OpenVault(t)
  PROVE  VaultInv'
<1>1. /\ act[t].pc = "open" /\ vault' = Opened(vault, t) /\ Goto(t, "write") /\ Writing(t)
      /\ UNCHANGED <<superseded, providerVars>> /\ vault \in StateFiles(Threads, Contents)
  BY DEF OpenVault, Writing, CredentialsInv, CredentialsTypeOK
<1>2. /\ vault'.at[t] = "tmp" /\ vault'.path = vault.path /\ vault'.tmp = Blank
  BY <1>1, OpenedFile
<1>3. /\ TokensAreTraced' /\ act'[t].pc = "write" /\ act'[t].document = act[t].document
      /\ \A u \in Threads \ {t} : act'[u] = act[u]
      /\ \A u \in Threads : Writing(u)' = Writing(u) /\ NewDocument(u)' = NewDocument(u)
  BY <1>1, <1>2, WriterKeepsRole
<1>4. \A u \in Threads : act'[u].pc \in {"write", "replace"} => u = t
  BY <1>1, <1>3 DEF WritersTakeTurns, Writing
<1>5. WritersTakeTurns'
  BY <1>1, <1>2, <1>3, <1>4 DEF WritersTakeTurns
<1> QED
  BY <1>3, <1>5 DEF VaultInv

LEMMA WrittenVault ==
  ASSUME CredentialsInv, CredentialsInv', WritersTakeTurns, TokensAreTraced,
         NEW t \in Threads, WriteVault(t)
  PROVE  VaultInv'
<1>1. /\ act[t].pc = "write" /\ vault' \in Written(vault, t, act[t].document)
      /\ Goto(t, "replace") /\ Writing(t) /\ act[t].document \in Contents
      /\ UNCHANGED <<superseded, providerVars>> /\ vault \in StateFiles(Threads, Contents)
      /\ vault.at[t] = "tmp" /\ vault.tmp = Blank
  BY DEF WriteVault, Writing, CredentialsInv, CredentialsTypeOK, Acts, WritersTakeTurns
<1>2. vault'.path = vault.path /\ vault'.tmp = act[t].document
  BY <1>1, WrittenFile
<1>3. /\ TokensAreTraced' /\ act'[t].pc = "replace" /\ act'[t].document = act[t].document
      /\ \A u \in Threads \ {t} : act'[u] = act[u]
      /\ \A u \in Threads : Writing(u)' = Writing(u) /\ NewDocument(u)' = NewDocument(u)
  BY <1>1, <1>2, WriterKeepsRole
<1>4. \A u \in Threads : act'[u].pc \in {"write", "replace"} => u = t
  BY <1>1, <1>3 DEF WritersTakeTurns, Writing
<1>5. WritersTakeTurns'
  BY <1>1, <1>2, <1>3, <1>4 DEF WritersTakeTurns
<1> QED
  BY <1>3, <1>5 DEF VaultInv

(* A call without an answer fails.                                         *)
LEMMA FailedCall ==
  ASSUME CredentialsInv, CredentialsInv', WritersTakeTurns, TokensAreTraced,
         NEW t \in Threads, CallFails(t), ~ troubled'
  PROVE  VaultInv'
<1>1. /\ vault' \in Abandoned(vault, t) /\ Finish(t) /\ ~ Unstored(t)
      /\ UNCHANGED <<superseded, refresh, live, revoked>>
      /\ vault \in StateFiles(Threads, Contents)
  BY DEF CallFails, providerVars, CredentialsInv, CredentialsTypeOK
<1>2. /\ act'[t] = NoAct /\ \A u \in Threads \ {t} : act'[u] = act[u]
  BY <1>1, FinishFrame
<1>3. act[t].pc = "write" <=> vault.at[t] # "closed"
  BY DEF CredentialsInv, InPlace
<1>4. /\ vault'.path = vault.path
      /\ \A u \in Threads \ {t} : vault'.at[u] = vault.at[u]
      /\ ~ Writing(t) => vault'.tmp = vault.tmp
  <2>1. vault.at[t] # "path" /\ (~ Writing(t) => vault.at[t] = "closed")
    BY <1>3 DEF WritersTakeTurns, Writing
  <2> QED
    BY <1>1, <2>1, AbandonedFile
<1>5. Stored' = Stored /\ StoredRefresh' = StoredRefresh
  BY <1>1, <1>4 DEF Stored, StoredRefresh
<1>6. /\ Outside(t)' /\ ~ Writing(t)'
      /\ \A u \in Threads \ {t} : SameAct(u)
  BY <1>2, ActTypes DEF Outside, Saves, Writing, SameAct
<1>7. TokensAreTraced'
  BY <1>1, <1>5, <1>6, SameActs, QuietTokens
<1>8. \A u \in Threads : Writing(u)' => u # t /\ Writing(u) /\ ~ Writing(t)
  <2>1. \A u \in Threads : Writing(u)' => u # t /\ Writing(u)
    BY <1>6, SameActs
  <2> QED
    BY <2>1 DEF WritersTakeTurns
<1>9. \A u \in Threads \ {t} : NewDocument(u)' = NewDocument(u)
  BY <1>2, <1>5 DEF NewDocument
<1>10. \A u \in Threads : act'[u].pc \in {"write", "replace"} => Writing(u)'
  BY DEF Writing
<1>11. WritersTakeTurns'
  BY <1>2, <1>4, <1>8, <1>9, <1>10 DEF WritersTakeTurns
<1> QED
  BY <1>7, <1>11 DEF VaultInv

-----------------------------------------------------------------------------
(* The vault is replaced.                                                  *)

(* It holds the writer's document then, and the call has ended or goes     *)
(* back to the tokens.                                                     *)
ReplacedBy(t) ==
  /\ Stored' = NewDocument(t)
  /\ StoredRefresh' = IF NewDocument(t) = None THEN None ELSE refresh[NewDocument(t)]
  /\ UNCHANGED <<superseded, refresh, live, revoked>>
  /\ act'[t].pc \in {"idle", "again"} /\ act'[t].op = "run"
  /\ \A u \in Threads \ {t} : act'[u] = act[u] /\ ~ Writing(u)
  /\ WritersTakeTurns'

LEMMA ReplacedFrame ==
  ASSUME CredentialsInv, WritersTakeTurns, NEW t \in Threads, ReplaceVault(t)
  PROVE  ReplacedBy(t) /\ (troubled' \/ ~ Crossed(t))
<1>1. /\ act[t].pc = "replace" /\ Writing(t) /\ vault.tmp = NewDocument(t)
      /\ NewDocument(t) \in Contents /\ vault \in StateFiles(Threads, Contents)
      /\ UNCHANGED <<superseded, refresh, live, revoked>>
      /\ troubled' \/ ~ Crossed(t)
  BY DEF ReplaceVault, Writing, WritersTakeTurns, CredentialsInv, CredentialsTypeOK, Acts, providerVars
<1>2. CanReplace(vault) /\ NewDocument(t) # NoFile
  BY <1>1, CredentialsAssumption, RefreshIsSequence DEF CanReplace, Contents
<1>3. vault' = Replaced(vault) /\ vault'.path = NewDocument(t) /\ vault'.tmp = NoFile
  BY <1>1, <1>2, ReplacedFile DEF ReplaceVault
<1>4. /\ Stored' = NewDocument(t)
      /\ StoredRefresh' = IF NewDocument(t) = None THEN None ELSE refresh[NewDocument(t)]
  <2>1. Stored' = NewDocument(t)
    BY <1>1, <1>3, RefreshIsSequence DEF Stored, Contents
  <2> QED
    BY <1>1, <2>1 DEF StoredRefresh
<1>5. /\ act'[t].pc \in {"idle", "again"} /\ act'[t].op = "run"
      /\ \A u \in Threads \ {t} : act'[u] = act[u]
  BY <1>2, GotoFrame, FinishFrame, ActTypes DEF ReplaceVault
<1>6. \A u \in Threads \ {t} : ~ Writing(u) /\ ~ Writing(u)'
  BY <1>1, <1>5 DEF WritersTakeTurns, Writing
<1>7. WritersTakeTurns'
  <2>1. \A u \in Threads : ~ Writing(u)' /\ act'[u].pc \notin {"write", "replace"}
    BY <1>5, <1>6 DEF Writing
  <2> QED
    BY <1>1, <1>3, <2>1 DEF WritersTakeTurns
<1> QED
  BY <1>1, <1>4, <1>5, <1>6, <1>7 DEF ReplacedBy

(* The other calls are where they were.                                    *)
LEMMA OthersWait ==
  ASSUME CredentialsInv, CredentialsInv', NEW t \in Threads, act[t].pc = "replace", ReplacedBy(t)
  PROVE  /\ \A u \in Threads \ {t} :
              /\ act'[u] = act[u] /\ ~ Writing(u)' /\ ~ Writing(u)
              /\ Unstored(u)' = Unstored(u) /\ Token(u)' = Token(u)
              /\ Refreshing(u)' = Refreshing(u) /\ Consenting(u)' = Consenting(u)
              /\ Revoking(u)' = Revoking(u)
         /\ ~ Refreshing(t)' /\ ~ Consenting(t)' /\ ~ Revoking(t)' /\ ~ Unstored(t)' /\ Outside(t)'
         /\ act'[t].pc # "refresh" /\ act'[t].pc # "revoke"
  BY DEF ReplacedBy, Writing, Unstored, Token, Refreshing, Consenting, Revoking, Saves, Outside

LEMMA PutReplaced ==
  ASSUME CredentialsInv, CredentialsInv', TokensAreTraced, NEW t \in Threads,
         act[t].pc = "replace", act[t].op = "put", ReplacedBy(t)
  PROVE  TokensAreTraced'
<1>1. ~ Unstored(t)
  BY DEF CredentialsInv, InPlace, Unstored
<1>2. StoredRefresh' = StoredRefresh
  BY DEF ReplacedBy, NewDocument, StoredRefresh
<1>3. \A u \in Threads \ {t} : SameRole(u)
  BY DEF ReplacedBy, SameRole, Saves, Writing
<1> QED
  BY <1>1, <1>2, <1>3, OthersWait, QuietTokens DEF ReplacedBy

(* A revocation removes a token that no longer works.                      *)
LEMMA RevokeReplaced ==
  ASSUME CredentialsInv, CredentialsInv', TokensAreTraced, NEW t \in Threads,
         act[t].pc = "replace", act[t].op = "revoke", ReplacedBy(t)
  PROVE  TokensAreTraced'
<1>1. /\ StoredRefresh' = None /\ UNCHANGED <<superseded, refresh, live, revoked>>
      /\ \A u \in Threads \ {t} : act'[u] = act[u]
  BY DEF ReplacedBy, NewDocument
<1>2. /\ act[t].basis \in revoked /\ StoredRefresh \in {None, act[t].basis}
      /\ act[t].basis \notin live /\ None \notin live
  <2>1. Revoking(t)
    BY DEF Revoking, Saves
  <2> QED
    BY <2>1, TokensAreKnown DEF TokensAreTraced, RevocationsMatch, NothingIsLost
<1>3. StoredRefresh \notin live /\ ~ Unstored(t)
  BY <1>2 DEF CredentialsInv, InPlace, Unstored
<1>4. BasesAreStored'
  BY <1>1, <1>3, OthersWait DEF TokensAreTraced, BasesAreStored
<1>5. RefreshesFollow' /\ RevocationsMatch'
  BY <1>1, OthersWait DEF TokensAreTraced, RefreshesFollow, RevocationsMatch
<1>6. ConsentsAreNew'
  <2>1. \A u \in Threads : Consenting(u) => act[u].answer # None
    BY RolesAreKnown, TokensAreKnown DEF RoleIsKnown
  <2> QED
    BY <1>1, <2>1, OthersWait DEF TokensAreTraced, ConsentsAreNew
<1>7. NothingIsLost'
  <2>1. \A n \in live \ superseded : \E u \in Threads \ {t} : Unstored(u) /\ Token(u) = n
    BY <1>3 DEF TokensAreTraced, NothingIsLost
  <2> QED
    BY <1>1, <2>1, OthersWait DEF TokensAreTraced, NothingIsLost
<1> QED
  BY <1>4, <1>5, <1>6, <1>7 DEF TokensAreTraced

(* A refresh stores the token that the provider has put in the place of    *)
(* the vault's.                                                            *)
LEMMA RefreshReplaced ==
  ASSUME CredentialsInv, CredentialsInv', TokensAreTraced, NEW t \in Threads,
         act[t].pc = "replace", act[t].op = "run", ReplacedBy(t)
  PROVE  TokensAreTraced'
<1> DEFINE b == act[t].basis
<1>1. Refreshing(t) /\ Unstored(t) /\ lock = t /\ act[t].answer # None
  <2>1. Refreshing(t)
    BY DEF Refreshing, Saves
  <2> QED
    BY <2>1, RolesAreKnown, TokensAreKnown DEF RoleIsKnown
<1>2. /\ StoredRefresh' = Token(t) /\ UNCHANGED <<superseded, refresh, live, revoked>>
      /\ \A u \in Threads \ {t} : act'[u] = act[u]
  BY <1>1 DEF ReplacedBy, NewDocument, Token
<1>3. /\ StoredRefresh \in {None, b} /\ (Token(t) = b \/ b \notin live)
      /\ Token(t) \in live \cup revoked /\ None \notin live
  BY <1>1, TokensAreKnown DEF TokensAreTraced, RefreshesFollow
<1>4. \A u \in Threads \ {t} : ~ Refreshing(u) /\ act[u].pc # "refresh"
  BY <1>1, RolesAreKnown DEF RoleIsKnown
<1> HIDE DEF b
<1>5. StoredRefresh \in live => Token(t) = StoredRefresh
  BY <1>3
<1>6. BasesAreStored'
  BY <1>2, <1>5, OthersWait DEF TokensAreTraced, BasesAreStored
<1>7. RefreshesFollow'
  BY <1>4, OthersWait DEF RefreshesFollow
<1>8. ConsentsAreNew'
  BY <1>1, <1>2, OthersWait DEF TokensAreTraced, ConsentsAreNew
<1>9. RevocationsMatch'
  BY <1>1, <1>2, <1>4, OthersWait DEF TokensAreTraced, RevocationsMatch
<1>10. NothingIsLost'
  <2>1. \A n \in live \ superseded :
          n = Token(t) \/ \E u \in Threads \ {t} : Unstored(u) /\ Token(u) = n
    BY <1>5 DEF TokensAreTraced, NothingIsLost
  <2> QED
    BY <1>2, <1>3, <2>1, OthersWait DEF TokensAreTraced, NothingIsLost
<1> QED
  BY <1>6, <1>7, <1>8, <1>9, <1>10 DEF TokensAreTraced

(* A consent that crosses no other call replaces a token written off.      *)
LEMMA ConsentReplaced ==
  ASSUME CredentialsInv, CredentialsInv', TokensAreTraced, NEW t \in Threads,
         act[t].pc = "replace", act[t].op = "exchange", ReplacedBy(t), ~ Crossed(t)
  PROVE  TokensAreTraced'
<1>1. Consenting(t) /\ Unstored(t) /\ Writing(t) /\ act[t].answer # None
  <2>1. Consenting(t) /\ Writing(t)
    BY DEF Consenting, Saves, Writing
  <2> QED
    BY <2>1, RolesAreKnown, TokensAreKnown DEF RoleIsKnown
<1>2. /\ StoredRefresh' = Token(t) /\ UNCHANGED <<superseded, refresh, live, revoked>>
      /\ \A u \in Threads \ {t} : act'[u] = act[u]
  BY <1>1 DEF ReplacedBy, NewDocument, Token
<1>3. /\ Token(t) \in live \cup revoked /\ StoredRefresh \in superseded \cup {None}
      /\ None \notin live
  BY <1>1, TokensAreKnown DEF TokensAreTraced, ConsentsAreNew
<1>4. \A u \in Threads : /\ act[u].basis = None
                         /\ ~ Refreshing(u) /\ ~ Revoking(u) /\ act[u].pc # "refresh"
  BY RolesAreKnown DEF Crossed, RoleIsKnown
<1>5. BasesAreStored'
  BY <1>2, <1>3, <1>4, OthersWait DEF BasesAreStored
<1>6. RefreshesFollow' /\ RevocationsMatch'
  BY <1>4, OthersWait DEF RefreshesFollow, RevocationsMatch
<1>7. ConsentsAreNew'
  BY <1>1, <1>2, OthersWait DEF TokensAreTraced, ConsentsAreNew
<1>8. NothingIsLost'
  <2>1. \A n \in live \ superseded :
          n = Token(t) \/ \E u \in Threads \ {t} : Unstored(u) /\ Token(u) = n
    BY <1>3 DEF TokensAreTraced, NothingIsLost
  <2> QED
    BY <1>2, <1>3, <2>1, OthersWait DEF TokensAreTraced, NothingIsLost
<1> QED
  BY <1>5, <1>6, <1>7, <1>8 DEF TokensAreTraced

LEMMA ReplacedVault ==
  ASSUME CredentialsInv, CredentialsInv', WritersTakeTurns, TokensAreTraced,
         NEW t \in Threads, ReplaceVault(t), ~ troubled'
  PROVE  VaultInv'
<1>1. /\ ReplacedBy(t) /\ ~ Crossed(t) /\ act[t].pc = "replace" /\ WritersTakeTurns'
      /\ act[t].op \in {"run", "exchange", "revoke", "put", "disconnect"} /\ InPlace(t)
  BY ReplacedFrame DEF ReplaceVault, ReplacedBy, CredentialsInv, CredentialsTypeOK, Acts
<1>2. act[t].op # "disconnect"
  BY <1>1 DEF InPlace
<1> QED
  BY <1>1, <1>2, PutReplaced, RevokeReplaced, RefreshReplaced, ConsentReplaced DEF VaultInv

-----------------------------------------------------------------------------
LEMMA VaultInvNext ==
  CredentialsInv /\ CredentialsInv' /\ VaultInv /\ [CredentialsNext]_credentialVars => VaultInv'
<1> SUFFICES ASSUME CredentialsInv, CredentialsInv', VaultInv, [CredentialsNext]_credentialVars
             PROVE  VaultInv'
  OBVIOUS
<1>1. CASE UNCHANGED credentialVars
  <2>1. UNCHANGED <<fileVars, providerVars, troubled>> /\ \A t \in Threads : SameAct(t)
    BY <1>1 DEF credentialVars, SameAct
  <2> QED
    BY <2>1, QuietStep
<1>2. CASE GrantScope \/ EndGrant \/ Restart
  BY <1>2, HostStep
<1>3. ASSUME NEW t \in Threads,
             \/ Begin(t) \/ Disconnect(t)
             \/ CheckScope(t) \/ Invoke(t) \/ Fetch(t) \/ Send(t)
             \/ TakeLock(t) \/ LoadTokens(t) \/ LoadAgain(t) \/ LoadRevoke(t)
      PROVE  VaultInv'
  BY <1>3, OtherStep, LoadedTokens
<1>4. ASSUME NEW t \in Threads,
             \/ RefreshTokens(t) \/ ExchangeCode(t) \/ RevokeToken(t)
             \/ Reload(t) \/ OpenVault(t) \/ WriteVault(t) \/ ReplaceVault(t)
             \/ CallFails(t)
      PROVE  VaultInv'
  <2>1. troubled => troubled'
    BY <1>4 DEF RefreshTokens, ExchangeCode, Answered, RevokeToken, Reload, OpenVault, WriteVault,
       ReplaceVault, CallFails
  <2>2. CASE troubled'
    BY <2>2 DEF VaultInv
  <2>3. CASE ~ troubled'
    <3>1. WritersTakeTurns /\ TokensAreTraced
      BY <2>1, <2>3 DEF VaultInv
    <3> QED
      BY <1>4, <2>3, <3>1, RefreshedTokens, ExchangedCode, RevokedToken, ReloadedVault, OpenedVault,
         WrittenVault, ReplacedVault, FailedCall
  <2> QED
    BY <2>2, <2>3
<1> QED
  BY <1>1, <1>2, <1>3, <1>4 DEF CredentialsNext

LEMMA VaultInvariance == CredentialsSpec => []VaultInv
  BY VaultInvInit, VaultInvNext, CredentialsInvariance, PTL DEF CredentialsSpec

(* The vault and the provider agree: no token that works is out of the     *)
(* vault, and no token in the vault has stopped to work but by revocation, *)
(* while no answer was lost, no consent crossed another call and no        *)
(* writers overlapped.                                                     *)
THEOREM VaultAndProviderAgree == CredentialsSpec => []VaultMatchesProvider
<1>1. CredentialsInv /\ VaultInv => VaultMatchesProvider
  <2> SUFFICES ASSUME CredentialsInv, WritersTakeTurns, TokensAreTraced,
                      \A t \in Threads : ~ Unstored(t)
               PROVE  /\ Readable(vault)
                      /\ live \ superseded \subseteq {StoredRefresh}
                      /\ Stored # None => StoredRefresh \in live \cup revoked
    BY DEF VaultInv, VaultMatchesProvider
  <2>1. Readable(vault)
    BY CredentialsAssumption, RefreshIsSequence DEF WritersTakeTurns, Readable, Contents
  <2>2. \A t \in Threads : ~ Refreshing(t)
    BY RolesAreKnown DEF RoleIsKnown
  <2> QED
    BY <2>1, <2>2, StoredIsKnown DEF TokensAreTraced, NothingIsLost
<1> QED
  BY <1>1, CredentialsInvariance, VaultInvariance, PTL

-----------------------------------------------------------------------------
(* The three stores.                                                       *)

(* In every behaviour of the stores each of them behaves by its own        *)
(* specification.                                                          *)
THEOREM StoresAreThree == Spec => MemorySpec /\ TaskSpec /\ CredentialsSpec
<1>1. Init => MemoryInit /\ TaskInit /\ CredentialsInit
  BY DEF Init
<1>2. [Next]_vars => /\ [MemoryNext]_memoryVars /\ [TaskNext]_taskVars
                     /\ [CredentialsNext]_credentialVars
  BY DEF Next, vars
<1> QED
  BY <1>1, <1>2, PTL DEF Spec, MemorySpec, TaskSpec, CredentialsSpec

(* The stores are well typed.                                              *)
THEOREM StoresTypeCorrect == Spec => []StoresTypeOK
<1>1. MemoryTypeOK /\ TaskTypeOK /\ CredentialsTypeOK => StoresTypeOK
  BY DEF StoresTypeOK
<1> QED
  BY <1>1, StoresAreThree, MemoryTypeCorrect, TaskTypeCorrect, CredentialsTypeCorrect, PTL
=============================================================================
