----------------------------- MODULE CronSchedule -----------------------------
(***************************************************************************)
(* CronSchedule: five-field cron expressions and the first fire after a    *)
(* moment, in UTC, where Scheduler evaluates its schedules.                *)
(*                                                                         *)
(* A field is the text "*", or a set of parts; a part counts from "from"   *)
(* to "to" in steps.  "*" with a step is a part over the whole range.      *)
(***************************************************************************)
EXTENDS Integers

CONSTANTS
  Ranges,    \* the lowest and the highest value of each field
  Calendar,  \* datetime: the local time of each minute
  Horizon,   \* the five years next_after searches, in minutes
  Star       \* the text "*"

Fields == {"minute", "hour", "dom", "month", "dow"}

ASSUME CronAssumption ==
  /\ Ranges \in [Fields -> Nat \X Nat]
  /\ Horizon \in Nat \ {0}

(* _parse_field raises on a step below one and on values out of range.     *)
ValidPart(part, range) ==
  part.step >= 1 /\ range[1] <= part.from /\ part.to <= range[2] /\ part.from <= part.to

Valid(expression) ==
  \A f \in Fields : expression[f] # Star => \A part \in expression[f] : ValidPart(part, Ranges[f])

(* Sunday is 0 and 7.                                                      *)
Aliased(values, range) == IF range[2] = 7 THEN {v % 7 : v \in values} ELSE values

ParseField(field, range) ==
  Aliased(IF field = Star THEN range[1] .. range[2]
          ELSE UNION {{v \in part.from .. part.to : (v - part.from) % part.step = 0} : part \in field},
          range)

Hit(expression, f, local) == local[f] \in ParseField(expression[f], Ranges[f])

(* If both day fields are restricted, either may match.                    *)
DayMatches(expression, local) ==
  \/ expression["dom"] = Star /\ Hit(expression, "dow", local)
  \/ expression["dow"] = Star /\ Hit(expression, "dom", local)
  \/ /\ expression["dom"] # Star /\ expression["dow"] # Star
     /\ Hit(expression, "dom", local) \/ Hit(expression, "dow", local)

Matches(expression, moment) ==
  /\ \A f \in {"month", "hour", "minute"} : Hit(expression, f, Calendar[moment])
  /\ DayMatches(expression, Calendar[moment])

Matching(expression) == {m \in DOMAIN Calendar : Matches(expression, m)}

(* next_after: the first of the minutes that match; if there is none, it   *)
(* raises.                                                                 *)
Candidates(fires, moment) == {f \in fires : moment < f /\ f <= moment + Horizon}
NextAfter(fires, moment) ==
  LET ahead == Candidates(fires, moment)
  IN CHOOSE f \in ahead : \A g \in ahead : f <= g
=============================================================================
