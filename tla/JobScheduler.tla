---------------------------- MODULE JobScheduler ----------------------------
(***************************************************************************)
(* Scheduler: durable cron jobs in one SQLite table, claimed under a lease *)
(* by several worker processes.                                            *)
(*                                                                         *)
(* A worker follows the job lifecycle of architecture.md: claim_due, then  *)
(* claim_token of each claimed job, the job itself with heartbeats, and    *)
(* mark_run with the token.  It may die at any point.  The host may call   *)
(* retry_unknown on an expired claim.  The jobs in Plain may also be run   *)
(* the older way: due, the job, mark_run without a token.                  *)
(*                                                                         *)
(* Time is counted in minutes.  Each transaction is one action; mark_run   *)
(* without a token is two, because its SELECT runs in autocommit mode and  *)
(* only its UPDATE opens a transaction.                                    *)
(***************************************************************************)
EXTENDS CronSchedule, FiniteSets

CONSTANTS
  Workers,    \* processes that run jobs
  Jobs,       \* job ids
  Plain,      \* jobs that workers may run without a claim
  Schedule,   \* the cron expression of each job
  Lease,      \* lease_seconds, in minutes
  Prompt,     \* workers read the tokens of a claim before time passes
  MaxTime,    \* bound on the clock
  MaxClaims,  \* bound on the claim tokens minted
  None        \* NULL

ASSUME SchedulerAssumption ==
  /\ IsFiniteSet(Jobs) /\ Plain \subseteq Jobs
  /\ MaxTime \in Nat
  /\ DOMAIN Schedule = Jobs
  /\ DOMAIN Calendar = 0 .. MaxTime + Horizon
  /\ Lease \in Nat \ {0}
  /\ Prompt \in BOOLEAN
  /\ MaxClaims \in Nat
  /\ None \notin Int

VARIABLES
  now,     \* the time the callers pass
  rows,    \* the jobs table
  work,    \* what each worker is doing
  minted,  \* number of claim tokens drawn: names the tokens
  claims   \* the claims ever made (history)

vars == <<now, rows, work, minted, claims>>

Time == 0 .. MaxTime
Tokens == 1 .. MaxClaims

Rows == [status : {"absent", "present", "removed"}, last : Time \cup {None},
         until : (0 .. MaxTime + Lease) \cup {None}, token : Tokens \cup {None}]
NoRow == [status |-> "absent", last |-> None, until |-> None, token |-> None]

(* unread: claimed jobs whose token the worker has yet to ask for; token:  *)
(* the tokens it was given; since: when it claimed the jobs, the earliest  *)
(* ran_at it would report.                                                 *)
Works == [phase : {"idle", "running", "plain", "marking"}, job : Jobs \cup {None},
          unread : SUBSET Jobs, token : [Jobs -> Tokens \cup {None}], since : Time]
NoTokens == [j \in Jobs |-> None]
NoWork == [phase |-> "idle", job |-> None, unread |-> {}, token |-> NoTokens, since |-> 0]

Present(j) == rows[j].status = "present"

-----------------------------------------------------------------------------
Fires == [j \in Jobs |-> Matching(Schedule[j])]

(* Scheduler.due: a job that never ran is anchored one minute ago.         *)
Anchor(j) == IF rows[j].last = None THEN now - 1 ELSE rows[j].last
Slot(j) == NextAfter(Fires[j], Anchor(j))
Due(j) == Present(j) /\ Slot(j) <= now

(* One schedule without a fire makes due raise for the whole table, and    *)
(* claim_due roll back: add has only parsed it.                            *)
DueRaises == \E j \in Jobs : Present(j) /\ Candidates(Fires[j], Anchor(j)) = {}

Init ==
  /\ now = 0
  /\ rows = [j \in Jobs |-> NoRow]
  /\ work = [w \in Workers |-> NoWork]
  /\ minted = 0
  /\ claims = {}

-----------------------------------------------------------------------------
(* The host's calls.                                                       *)

(* add raises for an expression that does not parse.                       *)
Add(j) ==
  /\ rows[j].status = "absent" /\ Valid(Schedule[j])
  /\ rows' = [rows EXCEPT ![j].status = "present"]
  /\ UNCHANGED <<now, work, minted, claims>>

Remove(j) ==
  /\ Present(j)
  /\ rows' = [rows EXCEPT ![j] = [NoRow EXCEPT !.status = "removed"]]
  /\ UNCHANGED <<now, work, minted, claims>>

(* retry_unknown: only an expired claim is given up.                       *)
RetryUnknown(j) ==
  /\ rows[j].token # None
  /\ rows[j].until <= now
  /\ rows' = [rows EXCEPT ![j].token = None, ![j].until = None]
  /\ claims' = {IF c.job = j /\ c.token = rows[j].token THEN [c EXCEPT !.reconciled = TRUE] ELSE c
                : c \in claims}
  /\ UNCHANGED <<now, work, minted>>

-----------------------------------------------------------------------------
(* A worker that claims.                                                   *)

(* claim_due: every due job without a claim token, in one transaction.  An *)
(* expired claim is skipped like a live one (the faulty variant takes it). *)
ClaimableOrExpired == {j \in Jobs : Due(j) /\ (rows[j].token = None \/ rows[j].until <= now)}

Claimable == {j \in Jobs : Due(j) /\ rows[j].token = None}

ClaimDue(w) ==
  /\ work[w].phase = "idle" /\ work[w].unread = {} /\ work[w].token = NoTokens
  /\ ~ DueRaises /\ Claimable # {}
  /\ minted + Cardinality(Claimable) <= MaxClaims
  /\ \E token \in [Claimable -> minted + 1 .. minted + Cardinality(Claimable)] :
       /\ \A i, j \in Claimable : i # j => token[i] # token[j]
       /\ rows' = [j \in Jobs |-> IF j \in Claimable
                     THEN [rows[j] EXCEPT !.until = now + Lease, !.token = token[j]]
                     ELSE rows[j]]
       /\ claims' = claims \cup {[job |-> j, token |-> token[j], slot |-> Slot(j),
                                  reconciled |-> FALSE] : j \in Claimable}
  /\ minted' = minted + Cardinality(Claimable)
  /\ work' = [work EXCEPT ![w] = [NoWork EXCEPT !.unread = Claimable, !.since = now]]
  /\ UNCHANGED now

(* claim_token: whatever token the row holds now.  A worker that is given  *)
(* none has lost its claim and leaves the job alone.                       *)
ClaimToken(w, j) ==
  /\ j \in work[w].unread
  /\ work' = [work EXCEPT ![w].unread = @ \ {j}, ![w].token[j] = rows[j].token]
  /\ UNCHANGED <<now, rows, minted, claims>>

StartJob(w, j) ==
  /\ work[w].phase = "idle"
  /\ work[w].token[j] # None
  /\ work' = [work EXCEPT ![w].phase = "running", ![w].job = j]
  /\ UNCHANGED <<now, rows, minted, claims>>

(* heartbeat, for the job that runs or one that waits for its turn.        *)
Heartbeat(w, j) ==
  /\ work[w].token[j] # None
  /\ rows[j].token = work[w].token[j]
  /\ rows[j].until > now
  /\ rows' = [rows EXCEPT ![j].until = now + Lease]
  /\ UNCHANGED <<now, work, minted, claims>>

EndJob(w) ==
  work' = [work EXCEPT ![w].phase = "idle", ![w].job = None, ![w].token[work[w].job] = None]

(* Faulty variants: a completion that does not release the claim in full,  *)
(* and one that is accepted with whatever token the row holds.             *)
MarkRunKeepingLease(w) ==
  /\ work[w].phase = "running"
  /\ LET j == work[w].job
     IN IF rows[j].token = work[w].token[j]
        THEN rows' = [rows EXCEPT ![j].last = now, ![j].token = None]
        ELSE UNCHANGED rows
  /\ EndJob(w)
  /\ UNCHANGED <<now, minted, claims>>

MarkRunAnyToken(w) ==
  /\ work[w].phase = "running"
  /\ LET j == work[w].job
     IN IF Present(j)
        THEN \E ranAt \in work[w].since .. now :
               rows' = [rows EXCEPT ![j].last = ranAt, ![j].until = None, ![j].token = None]
        ELSE UNCHANGED rows
  /\ EndJob(w)
  /\ UNCHANGED <<now, minted, claims>>

(* mark_run with a token; a mismatch raises and changes nothing.           *)
MarkRun(w) ==
  /\ work[w].phase = "running"
  /\ LET j == work[w].job
     IN \/ /\ rows[j].token = work[w].token[j]
           /\ \E ranAt \in work[w].since .. now :
                rows' = [rows EXCEPT ![j].last = ranAt, ![j].until = None, ![j].token = None]
        \/ /\ rows[j].token # work[w].token[j]
           /\ UNCHANGED rows
  /\ EndJob(w)
  /\ UNCHANGED <<now, minted, claims>>

-----------------------------------------------------------------------------
(* A worker that does not claim the job it runs.                           *)

RunDue(w, j) ==
  /\ j \in Plain
  /\ work[w].phase = "idle" /\ work[w].unread = {} /\ work[w].token = NoTokens
  /\ ~ DueRaises /\ Due(j)
  /\ work' = [work EXCEPT ![w] = [NoWork EXCEPT !.phase = "plain", !.job = j, !.since = now]]
  /\ UNCHANGED <<now, rows, minted, claims>>

(* mark_run without a token: the SELECT, and its ValueError.               *)
CheckUnclaimed(w) ==
  /\ work[w].phase = "plain"
  /\ \/ /\ Present(work[w].job) /\ rows[work[w].job].token = None
        /\ work' = [work EXCEPT ![w].phase = "marking"]
     \/ /\ ~ Present(work[w].job) \/ rows[work[w].job].token # None
        /\ EndJob(w)
  /\ UNCHANGED <<now, rows, minted, claims>>

(* Faulty variant: the UPDATE clears the claim as the one with a token does.*)
MarkUnclaimedClearing(w) ==
  /\ work[w].phase = "marking"
  /\ IF Present(work[w].job)
     THEN rows' = [rows EXCEPT ![work[w].job].last = now, ![work[w].job].until = None,
                               ![work[w].job].token = None]
     ELSE UNCHANGED rows
  /\ EndJob(w)
  /\ UNCHANGED <<now, minted, claims>>

(* mark_run without a token: the UPDATE.                                   *)
MarkUnclaimed(w) ==
  /\ work[w].phase = "marking"
  /\ IF Present(work[w].job)
     THEN \E ranAt \in work[w].since .. now : rows' = [rows EXCEPT ![work[w].job].last = ranAt]
     ELSE UNCHANGED rows
  /\ EndJob(w)
  /\ UNCHANGED <<now, minted, claims>>

-----------------------------------------------------------------------------
Die(w) ==
  /\ work[w] # NoWork
  /\ work' = [work EXCEPT ![w] = NoWork]
  /\ UNCHANGED <<now, rows, minted, claims>>

(* Under Prompt the claim_token calls after claim_due take no time.        *)
Tick ==
  /\ now < MaxTime
  /\ Prompt => \A w \in Workers : work[w].unread = {}
  /\ now' = now + 1
  /\ UNCHANGED <<rows, work, minted, claims>>

Next ==
  \/ \E j \in Jobs : Add(j) \/ Remove(j) \/ RetryUnknown(j)
  \/ \E w \in Workers :
       \/ ClaimDue(w)
       \/ MarkRun(w)
       \/ CheckUnclaimed(w)
       \/ MarkUnclaimed(w)
       \/ Die(w)
       \/ \E j \in Jobs : ClaimToken(w, j) \/ StartJob(w, j) \/ Heartbeat(w, j) \/ RunDue(w, j)
  \/ Tick

Spec == Init /\ [][Next]_vars

-----------------------------------------------------------------------------
(* The table and the workers are well typed, and a row has a lease exactly *)
(* when it has a claim.                                                    *)
TypeOK ==
  /\ now \in Time
  /\ rows \in [Jobs -> Rows]
  /\ \A j \in Jobs : rows[j].token = None <=> rows[j].until = None
  /\ work \in [Workers -> Works]
  /\ minted \in 0 .. MaxClaims
  /\ claims \subseteq [job : Jobs, token : Tokens, slot : Time, reconciled : BOOLEAN]

(* One fire of one job is claimed twice only if the host has reconciled    *)
(* the first claim: a crash, an expired lease, a late completion or a      *)
(* second worker never lead to a second run of it by themselves            *)
(* (architecture.md, job execution lifecycle).  Jobs in Plain have no such *)
(* promise: their completions need no claim.                               *)
SlotsAreClaimedOnce ==
  \A c, d \in claims :
    c.job = d.job /\ c.job \notin Plain /\ c.slot = d.slot /\ c.token < d.token => c.reconciled

(* A claim is never taken over: while a row holds a token it goes only by  *)
(* its completion, by retry_unknown after the lease has run out, or with   *)
(* the job; claim_due never replaces it.                                   *)
ClaimsAreNotStolen ==
  [][\A j \in Jobs : rows[j].token # None /\ rows'[j].token # rows[j].token =>
       /\ rows'[j].token = None
       /\ \/ rows'[j].status = "removed"
          \/ rows[j].until <= now
          \/ \E w \in Workers : work[w].job = j /\ work[w].token[j] = rows[j].token
                                 /\ work'[w].phase = "idle"]_vars

(* A completion never takes a job back in time: last_run only grows, so a  *)
(* fire that is done does not become due again.                            *)
LastRunAdvances ==
  [][\A j \in Jobs \ Plain : rows[j].last # None /\ rows'[j].status = "present" =>
       rows'[j].last # None /\ rows[j].last <= rows'[j].last]_vars
=============================================================================
