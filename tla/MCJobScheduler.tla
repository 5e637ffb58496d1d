--------------------------- MODULE MCJobScheduler ---------------------------
(* Two workers; a job that fires every minute, one that fires once and may *)
(* be run without a claim, one that never fires, and one whose expression  *)
(* does not parse.  A day has three hours of two minutes, and starts with  *)
(* a Sunday.  The job that fires once does so on Sundays, or on the second *)
(* of the month, which is after the end of the run.                        *)
EXTENDS JobScheduler, TLC

CONSTANTS w1, w2, often, once, never, bad

MCWorkers == {w1, w2}
MCJobs == {often, once, never, bad}
MCPlain == {once}
WorkerSymmetry == Permutations(MCWorkers)

MCRanges == [minute |-> <<0, 1>>, hour |-> <<0, 2>>, dom |-> <<1, 31>>, month |-> <<1, 12>>, dow |-> <<0, 7>>]
MCCalendar == [m \in 0 .. MaxTime + Horizon |->
  [minute |-> m % 2, hour |-> (m \div 2) % 3, dom |-> 1 + m \div 6, month |-> 2, dow |-> (m \div 6) % 7]]

At(v) == {[from |-> v, to |-> v, step |-> 1]}
EveryMinute == [f \in Fields |-> Star]
MCSchedule ==
  (often :> [EveryMinute EXCEPT !["hour"] = {[from |-> 0, to |-> 2, step |-> 1]}])
  @@ (once :> [EveryMinute EXCEPT !["minute"] = {[from |-> 1, to |-> 1, step |-> 2]},
                 !["hour"] = {[from |-> 0, to |-> 2, step |-> 3]}, !["dom"] = At(2), !["dow"] = At(7)])
  @@ (never :> [EveryMinute EXCEPT !["dom"] = At(30), !["month"] = At(2)])
  @@ (bad :> [EveryMinute EXCEPT !["minute"] = At(2)])

(* What the expressions mean, by hand.                                     *)
ASSUME ExpressionsRead ==
  /\ Fires[often] = DOMAIN MCCalendar
  /\ Fires[once] = {1, 7}
  /\ Fires[never] = {}
=============================================================================
