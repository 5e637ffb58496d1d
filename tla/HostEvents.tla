----------------------------- MODULE HostEvents -----------------------------
(***************************************************************************)
(* Signed host decisions: HostDecisionEndpoint.post, HostEventVerifier and *)
(* the ReplayStore that makes an event count once.                         *)
(*                                                                         *)
(* Several endpoints, each with its own connection to one SQLite file, get *)
(* the same events delivered any number of times.  An event stands for its *)
(* id, timestamp, payload and signature; what is not correctly signed is   *)
(* refused before it changes anything and is left out.                     *)
(***************************************************************************)
EXTENDS Integers

CONSTANTS
  Endpoints,   \* processes that answer POST requests
  Events,      \* the events the host has signed, each with its own id
  Stamp,       \* the timestamp of an event
  MaxAge,      \* maximum_age_seconds
  Undecided,   \* events whose payload is no decision
  InTime,      \* a request is answered before the second is over
  LastSecond,  \* bound on the clock
  NoEvent      \* no event

ASSUME EventAssumption ==
  /\ Stamp \in [Events -> Nat]
  /\ MaxAge \in Nat
  /\ Undecided \subseteq Events
  /\ InTime \in BOOLEAN
  /\ LastSecond \in Nat
  /\ NoEvent \notin Events

VARIABLES
  clock,    \* int(time.time())
  seen,     \* the ids in the table
  request,  \* the request each endpoint is answering
  accepted  \* how often each event was accepted (history)

eventVars == <<clock, seen, request, accepted>>

Expiry(e) == Stamp[e] + MaxAge

Requests == [pc : {"idle", "verified", "consuming", "consumed"}, event : Events \cup {NoEvent},
             at : 0 .. LastSecond]
NoRequest == [pc |-> "idle", event |-> NoEvent, at |-> 0]

EventInit ==
  /\ clock = 0
  /\ seen = {}
  /\ request = [w \in Endpoints |-> NoRequest]
  /\ accepted = [e \in Events |-> 0]

-----------------------------------------------------------------------------
(* verify, the first look at the clock: neither too old nor too new.       *)
Verify(w, e) ==
  /\ request[w].pc = "idle"
  /\ clock - Stamp[e] \in -MaxAge .. MaxAge
  /\ request' = [request EXCEPT ![w] = [NoRequest EXCEPT !.pc = "verified", !.event = e]]
  /\ UNCHANGED <<clock, seen, accepted>>

(* Faulty variant: the clock is rounded up here and down in verify.        *)
ReadClockRoundingUp(w) ==
  /\ request[w].pc = "verified"
  /\ request' = [request EXCEPT ![w].pc = "consuming", ![w].at = clock + 1]
  /\ UNCHANGED <<clock, seen, accepted>>

(* consume, the second look at the clock.                                  *)
ReadClock(w) ==
  /\ request[w].pc = "verified"
  /\ request' = [request EXCEPT ![w].pc = "consuming", ![w].at = clock]
  /\ UNCHANGED <<clock, seen, accepted>>

(* Faulty variant: an event is pruned in the last second it can be used.   *)
KeptTooShort(at) == {e \in seen : Expiry(e) > at}

Kept(at) == {e \in seen : Expiry(e) >= at}

(* Faulty variant: INSERT OR IGNORE.                                       *)
ConsumeAnyway(w) ==
  /\ request[w].pc = "consuming"
  /\ seen' = Kept(request[w].at) \cup {request[w].event}
  /\ request' = [request EXCEPT ![w].pc = "consumed"]
  /\ UNCHANGED <<clock, accepted>>

(* consume, the transaction: prune and insert, or roll both back.          *)
Consume(w) ==
  /\ request[w].pc = "consuming"
  /\ \/ /\ request[w].event \in Kept(request[w].at)
        /\ request' = [request EXCEPT ![w] = NoRequest]
        /\ UNCHANGED seen
     \/ /\ request[w].event \notin Kept(request[w].at)
        /\ seen' = Kept(request[w].at) \cup {request[w].event}
        /\ request' = [request EXCEPT ![w].pc = "consumed"]
  /\ UNCHANGED <<clock, accepted>>

(* post, after verify: only a decision is accepted.                        *)
Post(w) ==
  /\ request[w].pc = "consumed"
  /\ accepted' = IF request[w].event \in Undecided THEN accepted
                 ELSE [accepted EXCEPT ![request[w].event] = @ + 1]
  /\ request' = [request EXCEPT ![w] = NoRequest]
  /\ UNCHANGED <<clock, seen>>

(* The process dies; what is committed stays.                              *)
Crash(w) ==
  /\ request[w].pc # "idle"
  /\ request' = [request EXCEPT ![w] = NoRequest]
  /\ UNCHANGED <<clock, seen, accepted>>

(* Under InTime no request is under way when a second ends.                *)
EventTick ==
  /\ clock < LastSecond
  /\ InTime => \A w \in Endpoints : request[w].pc \in {"idle", "consumed"}
  /\ clock' = clock + 1
  /\ UNCHANGED <<seen, request, accepted>>

EventNext ==
  \/ \E w \in Endpoints :
       \/ \E e \in Events : Verify(w, e)
       \/ ReadClock(w)
       \/ Consume(w)
       \/ Post(w)
       \/ Crash(w)
  \/ EventTick

EventSpec == EventInit /\ [][EventNext]_eventVars

-----------------------------------------------------------------------------
(* The state is well typed.                                                *)
EventTypeOK ==
  /\ clock \in 0 .. LastSecond
  /\ seen \subseteq Events
  /\ request \in [Endpoints -> Requests]
  /\ accepted \in [Events -> Nat]

(* A signed event decides once, however often it is delivered, to however  *)
(* many endpoints, at whatever age, and through their restarts (class      *)
(* ReplayStore: atomic, durable, TTL-bounded event consumption).           *)
EventsAreSingleUse == \A e \in Events : accepted[e] <= 1

(* Pruning never forgets an event that would pass the age check now: the   *)
(* table and the age check agree at the boundary second.                   *)
UsableEventsAreRemembered ==
  \A e \in Events : accepted[e] > 0 /\ clock <= Expiry(e) => e \in seen
=============================================================================
