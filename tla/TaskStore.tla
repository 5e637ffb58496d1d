------------------------------ MODULE TaskStore -------------------------------
(***************************************************************************)
(* TaskStore: task records with checkpoints and their event streams, in    *)
(* two SQLite tables that several processes use.                           *)
(*                                                                         *)
(* checkpoint reads the task and replaces the whole row; cancel reads the  *)
(* task and then checkpoints what it read.  append_event (post_message is  *)
(* one) reads the task, inserts and commits; the INSERT takes the write    *)
(* lock of the database and draws the sequence.  A process may die between *)
(* any two statements, and a call may raise.                               *)
(*                                                                         *)
(* Calls are named by their order.  A row says which call wrote it and     *)
(* which call's step and data it holds; goal and max_steps never change.   *)
(***************************************************************************)
EXTENDS Naturals, Sequences, FiniteSets

CONSTANTS
  Workers,   \* processes with a store on the database
  Tasks,     \* the ids uuid4 may draw
  MaxMade,   \* bound on the calls made
  Nobody     \* no task

ASSUME TaskAssumption == MaxMade \in Nat /\ Nobody \notin Workers

VARIABLES
  rows,      \* the tasks table
  events,    \* the task_events table
  dblock,    \* who is between an INSERT into it and the commit
  feed,      \* what a reader of each task's events has seen
  task,      \* the call each worker is in
  made       \* the calls made so far (history)

eventVars == <<events, dblock, feed>>
taskVars == <<rows, task, made, eventVars>>

Numbers == 1 .. MaxMade
Rows == [status : {"absent", "pending", "running", "canceled"},
         by : Numbers \cup {0}, data : Numbers \cup {0}, fits : BOOLEAN]
NoRow == [status |-> "absent", by |-> 0, data |-> 0, fits |-> TRUE]

(* row: what the call is going to save; fits: step <= max_steps.           *)
TaskCalls == [pc : {"idle", "read", "get", "save", "find", "insert", "commit", "return"}, number : Numbers \cup {0},
              id : Tasks \cup {Nobody}, row : Rows]
NoTaskCall == [pc |-> "idle", number |-> 0, id |-> Nobody, row |-> NoRow]

(* before: the calls that had returned when this one began; crossed: it    *)
(* overlapped a cancel of its task.                                        *)
MadeCalls == [op : {"create", "checkpoint", "cancel", "event"}, id : Tasks, before : SUBSET Numbers,
              crossed : BOOLEAN, ended : BOOLEAN]

(* An event is named by the call that appended it.                         *)
Events == [sequence : Numbers, id : Tasks, number : Numbers]
Feeds == [after : Numbers \cup {0}, seen : SUBSET Numbers]

TaskInit ==
  /\ rows = [t \in Tasks |-> NoRow]
  /\ events = {}
  /\ dblock = Nobody
  /\ feed = [t \in Tasks |-> [after |-> 0, seen |-> {}]]
  /\ task = [w \in Workers |-> NoTaskCall]
  /\ made = <<>>

-----------------------------------------------------------------------------
Begins(w, op, pc, t, row) ==
  LET number == Len(made) + 1
      others == {task[v].number : v \in {u \in Workers : task[u].id = t}}
      marked == [c \in DOMAIN made |->
                   IF op = "cancel" /\ c \in others THEN [made[c] EXCEPT !.crossed = TRUE] ELSE made[c]]
  IN /\ task[w].pc = "idle" /\ number <= MaxMade
     /\ task' = [task EXCEPT ![w] = [pc |-> pc, number |-> number, id |-> t,
                                     row |-> [row EXCEPT !.by = number]]]
     /\ made' = Append(marked,
          [op |-> op, id |-> t, before |-> {c \in DOMAIN made : made[c].ended},
           crossed |-> \E c \in others : made[c].op = "cancel", ended |-> FALSE])
     /\ UNCHANGED <<rows, eventVars>>

(* create draws a fresh id and saves a pending task.                       *)
CallCreate(w) ==
  \E t \in Tasks :
    /\ \A c \in DOMAIN made : made[c].id # t
    /\ Begins(w, "create", "save", t, [NoRow EXCEPT !.status = "pending", !.data = Len(made) + 1])

CallCheckpoint(w) ==
  \E t \in Tasks, fits \in BOOLEAN :
    /\ rows[t].status # "absent"
    /\ Begins(w, "checkpoint", "get", t,
              [NoRow EXCEPT !.status = "running", !.data = Len(made) + 1, !.fits = fits])

CallCancel(w) ==
  \E t \in Tasks : rows[t].status # "absent" /\ Begins(w, "cancel", "read", t, NoRow)

(* Faulty variant: cancel checkpoints without the step and data it read.   *)
ReadCancelEmpty(w) ==
  /\ task[w].pc = "read"
  /\ task' = [task EXCEPT ![w].pc = "get", ![w].row.status = "canceled"]
  /\ UNCHANGED <<rows, made, eventVars>>

(* cancel reads the task, and will checkpoint the step and data it read.   *)
ReadCancel(w) ==
  /\ task[w].pc = "read"
  /\ task' = [task EXCEPT ![w].pc = "get",
       ![w].row = [rows[task[w].id] EXCEPT !.status = "canceled", !.by = task[w].number]]
  /\ UNCHANGED <<rows, made, eventVars>>

(* checkpoint reads the task; a step beyond max_steps raises.              *)
Get(w) ==
  /\ task[w].pc = "get"
  /\ task' = [task EXCEPT ![w] = IF @.row.fits THEN [@ EXCEPT !.pc = "save"] ELSE NoTaskCall]
  /\ UNCHANGED <<rows, made, eventVars>>

(* _save: INSERT OR REPLACE, and the commit.                               *)
Save(w) ==
  /\ task[w].pc = "save" /\ dblock = Nobody
  /\ rows' = [rows EXCEPT ![task[w].id] = task[w].row]
  /\ task' = [task EXCEPT ![w].pc = "return"]
  /\ UNCHANGED <<made, eventVars>>

TaskReturn(w) ==
  /\ task[w].pc = "return"
  /\ made' = [made EXCEPT ![task[w].number].ended = TRUE]
  /\ task' = [task EXCEPT ![w] = NoTaskCall]
  /\ UNCHANGED <<rows, eventVars>>

-----------------------------------------------------------------------------
(* The event stream.                                                       *)

CallEvent(w) ==
  \E t \in Tasks : rows[t].status # "absent" /\ Begins(w, "event", "find", t, NoRow)

(* append_event: get finds the task.                                       *)
Find(w) ==
  /\ task[w].pc = "find"
  /\ task' = [task EXCEPT ![w].pc = "insert"]
  /\ UNCHANGED <<rows, made, eventVars>>

(* Faulty variant: the sequence is drawn without the lock.                 *)
InsertUnlocked(w) ==
  /\ task[w].pc = "insert"
  /\ task' = [task EXCEPT ![w].pc = "commit",
       ![w].row.data = 1 + Cardinality(events) + Cardinality({v \in Workers : task[v].pc = "commit"})]
  /\ UNCHANGED <<rows, made, eventVars>>

(* INSERT: the next sequence; what is rolled back is drawn again.          *)
Insert(w) ==
  /\ task[w].pc = "insert" /\ dblock = Nobody
  /\ dblock' = w
  /\ task' = [task EXCEPT ![w].pc = "commit", ![w].row.data = 1 + Cardinality(events)]
  /\ UNCHANGED <<rows, made, events, feed>>

DbUnlocked(w) == IF dblock = w THEN Nobody ELSE dblock

Commit(w) ==
  /\ task[w].pc = "commit"
  /\ events' = events \cup {[sequence |-> task[w].row.data, id |-> task[w].id, number |-> task[w].number]}
  /\ dblock' = DbUnlocked(w)
  /\ task' = [task EXCEPT ![w].pc = "return"]
  /\ UNCHANGED <<rows, made, feed>>

(* events(task, after): a reader goes on from the last sequence it has.    *)
Poll(t) ==
  LET new == {e \in events : e.id = t /\ e.sequence > feed[t].after}
  IN /\ new # {}
     /\ feed' = [feed EXCEPT ![t] =
          [after |-> CHOOSE n \in {e.sequence : e \in new} : \A e \in new : e.sequence <= n,
           seen |-> @.seen \cup {e.number : e \in new}]]
     /\ UNCHANGED <<rows, task, made, events, dblock>>

-----------------------------------------------------------------------------
(* A call raises, or its process dies: what is not committed is undone.    *)
Die(w) ==
  /\ task[w].pc # "idle"
  /\ task' = [task EXCEPT ![w] = NoTaskCall]
  /\ dblock' = DbUnlocked(w)
  /\ UNCHANGED <<rows, made, events, feed>>

TaskNext ==
  \/ \E w \in Workers :
       \/ CallCreate(w) \/ CallCheckpoint(w) \/ CallCancel(w) \/ CallEvent(w)
       \/ ReadCancel(w) \/ Get(w) \/ Save(w) \/ TaskReturn(w)
       \/ Find(w) \/ Insert(w) \/ Commit(w)
       \/ Die(w)
  \/ \E t \in Tasks : Poll(t)

TaskSpec == TaskInit /\ [][TaskNext]_taskVars

-----------------------------------------------------------------------------
(* The state is well typed, and no step is beyond its task's budget.       *)
TaskTypeOK ==
  /\ rows \in [Tasks -> Rows]
  /\ \A t \in Tasks : rows[t].fits
  /\ task \in [Workers -> TaskCalls]
  /\ made \in Seq(MadeCalls)
  /\ events \subseteq Events
  /\ dblock \in Workers \cup {Nobody}
  /\ feed \in [Tasks -> Feeds]

(* The last checkpoint is what a task resumes from.  Once a call on a task *)
(* has returned, the row is never again what an earlier call made it; and  *)
(* the step and data of a checkpoint are not replaced by earlier ones,     *)
(* unless a cancel overlapped it (which may write back what it has read).  *)
CheckpointsSurvive ==
  \A c \in DOMAIN made :
    LET row == rows[made[c].id]
        older == made[c].before \cup {0}
    IN made[c].ended /\ made[c].op # "event" =>
         /\ row.by \notin older
         /\ made[c].op # "cancel" /\ ~ made[c].crossed => row.data \notin older

(* A reader that asks for what is after the last sequence it has seen      *)
(* misses no event and sees none twice: whatever is committed later has a  *)
(* later sequence, also after appends that were rolled back.               *)
FeedsMissNothing ==
  /\ \A d, e \in events : d.sequence = e.sequence => d = e
  /\ \A t \in Tasks :
       feed[t].seen = {e.number : e \in {d \in events : d.id = t /\ d.sequence <= feed[t].after}}

(* A task can be resumed in another process: from its last checkpoint, and *)
(* from the last event that was read.                                      *)
TasksResume == CheckpointsSurvive /\ FeedsMissNothing
=============================================================================
