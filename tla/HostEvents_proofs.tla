------------------------- MODULE HostEvents_proofs --------------------------
(***************************************************************************)
(* Theorems about HostEvents.  Under InTime an event is accepted at most   *)
(* once: a request that passed the age check is still within the age of    *)
(* its event when it prunes the table, so whatever pruning has forgotten   *)
(* is no longer accepted.                                                  *)
(***************************************************************************)
EXTENDS HostEvents, TLAPS

(* Event e counts already, or is about to.                                 *)
Taken(e) == accepted[e] > 0 \/ \E w \in Endpoints : request[w].pc = "consumed" /\ request[w].event = e

Busy(w) == request[w].pc \in {"verified", "consuming"}

Remembered == \A e \in Events : Taken(e) /\ clock <= Expiry(e) => e \in seen

Named == \A w \in Endpoints :
  /\ request[w].pc # "idle" => request[w].event \in Events
  /\ request[w].pc = "consuming" => request[w].at <= clock

OnTime == \A w \in Endpoints :
  /\ Busy(w) => clock <= Expiry(request[w].event)
  /\ request[w].pc = "consuming" => request[w].at = clock

Once == \A e \in Events :
  /\ accepted[e] <= 1
  /\ \A w \in Endpoints : request[w].pc = "consumed" /\ request[w].event = e =>
       /\ accepted[e] = 0
       /\ \A u \in Endpoints : request[u].pc = "consumed" /\ request[u].event = e => u = w

RInv == EventTypeOK /\ Named /\ Remembered
IInv == RInv /\ (InTime => OnTime /\ Once)

(* The state is well typed.                                                *)
LEMMA TypeNext == EventTypeOK /\ Named /\ [EventNext]_eventVars => EventTypeOK' /\ Named'
<1> SUFFICES ASSUME EventTypeOK, Named, [EventNext]_eventVars PROVE EventTypeOK' /\ Named'
  OBVIOUS
<1> USE EventAssumption DEF EventTypeOK, Named
<1>1. ASSUME NEW w \in Endpoints, NEW e \in Events, Verify(w, e) PROVE EventTypeOK' /\ Named'
  <2>0. NoRequest \in Requests
    BY DEF NoRequest, Requests
  <2>1. [NoRequest EXCEPT !.pc = "verified", !.event = e] \in Requests
    BY <2>0 DEF Requests
  <2>2. request' \in [Endpoints -> Requests]
    BY <1>1, <2>1 DEF Verify
  <2> QED
    BY <1>1, <2>2 DEF Verify, NoRequest
<1>2. ASSUME NEW w \in Endpoints, ReadClock(w) PROVE EventTypeOK' /\ Named'
  <2>1. [request[w] EXCEPT !.pc = "consuming", !.at = clock] \in Requests
    BY DEF Requests
  <2>2. request' = [request EXCEPT ![w] = [request[w] EXCEPT !.pc = "consuming", !.at = clock]]
    BY <1>2 DEF ReadClock
  <2>3. request' \in [Endpoints -> Requests]
    BY <2>1, <2>2
  <2>4. \A u \in Endpoints \ {w} : request'[u] = request[u]
    BY <2>2
  <2>5. request'[w].event = request[w].event /\ request'[w].at = clock
    BY <2>2 DEF Requests
  <2> QED
    BY <1>2, <2>3, <2>4, <2>5 DEF ReadClock
<1>3. ASSUME NEW w \in Endpoints, Consume(w) PROVE EventTypeOK' /\ Named'
  BY <1>3 DEF Consume, Kept, Requests, NoRequest
<1> USE DEF Requests, NoRequest
<1>4. ASSUME NEW w \in Endpoints, Post(w) PROVE EventTypeOK' /\ Named'
  BY <1>4 DEF Post
<1>5. ASSUME NEW w \in Endpoints, Crash(w) PROVE EventTypeOK' /\ Named'
  BY <1>5 DEF Crash
<1>6. CASE EventTick
  BY <1>6 DEF EventTick
<1>7. CASE UNCHANGED eventVars
  BY <1>7 DEF eventVars
<1> QED
  BY <1>1, <1>2, <1>3, <1>4, <1>5, <1>6, <1>7 DEF EventNext

(* A step keeps what the age check would still let through in the table.   *)
LEMMA RememberedNext == RInv /\ [EventNext]_eventVars => Remembered'
<1> SUFFICES ASSUME RInv, [EventNext]_eventVars PROVE Remembered'
  OBVIOUS
<1> USE EventAssumption DEF RInv, EventTypeOK, Named, Remembered, Taken, Requests, NoRequest, Expiry
<1>1. ASSUME NEW w \in Endpoints, NEW e \in Events, Verify(w, e) PROVE Remembered'
  BY <1>1 DEF Verify
<1>2. ASSUME NEW w \in Endpoints, ReadClock(w) PROVE Remembered'
  BY <1>2 DEF ReadClock
<1>3. ASSUME NEW w \in Endpoints, Consume(w) PROVE Remembered'
  <2>1. \A e \in Events : clock <= Expiry(e) /\ e \in seen => e \in Kept(request[w].at)
    BY <1>3 DEF Consume, Kept
  <2> QED
    BY <1>3, <2>1 DEF Consume
<1>4. ASSUME NEW w \in Endpoints, Post(w) PROVE Remembered'
  BY <1>4 DEF Post
<1>5. ASSUME NEW w \in Endpoints, Crash(w) PROVE Remembered'
  BY <1>5 DEF Crash
<1>6. CASE EventTick
  BY <1>6 DEF EventTick
<1>7. CASE UNCHANGED eventVars
  BY <1>7 DEF eventVars
<1> QED
  BY <1>1, <1>2, <1>3, <1>4, <1>5, <1>6, <1>7 DEF EventNext

(* Under InTime a request meets its own clock.                             *)
LEMMA OnTimeNext == RInv /\ InTime /\ OnTime /\ [EventNext]_eventVars => OnTime'
<1> SUFFICES ASSUME RInv, InTime, OnTime, [EventNext]_eventVars PROVE OnTime'
  OBVIOUS
<1> USE EventAssumption DEF RInv, EventTypeOK, Named, OnTime, Busy, Requests, NoRequest, Expiry
<1>1. ASSUME NEW w \in Endpoints, NEW e \in Events, Verify(w, e) PROVE OnTime'
  BY <1>1 DEF Verify
<1>2. ASSUME NEW w \in Endpoints, ReadClock(w) PROVE OnTime'
  BY <1>2 DEF ReadClock
<1>3. ASSUME NEW w \in Endpoints, Consume(w) PROVE OnTime'
  BY <1>3 DEF Consume
<1>4. ASSUME NEW w \in Endpoints, Post(w) PROVE OnTime'
  BY <1>4 DEF Post
<1>5. ASSUME NEW w \in Endpoints, Crash(w) PROVE OnTime'
  BY <1>5 DEF Crash
<1>6. CASE EventTick
  BY <1>6 DEF EventTick
<1>7. CASE UNCHANGED eventVars
  BY <1>7 DEF eventVars
<1> QED
  BY <1>1, <1>2, <1>3, <1>4, <1>5, <1>6, <1>7 DEF EventNext

(* Under InTime an event that counts, or is about to, is not taken again.  *)
LEMMA OnceNext == RInv /\ InTime /\ OnTime /\ Once /\ [EventNext]_eventVars => Once'
<1> SUFFICES ASSUME RInv, InTime, OnTime, Once, [EventNext]_eventVars PROVE Once'
  OBVIOUS
<1> USE EventAssumption DEF RInv, EventTypeOK, Named, Once, Requests, NoRequest
<1>1. ASSUME NEW w \in Endpoints, NEW e \in Events, Verify(w, e) PROVE Once'
  BY <1>1 DEF Verify
<1>2. ASSUME NEW w \in Endpoints, ReadClock(w) PROVE Once'
  BY <1>2 DEF ReadClock
<1>3. ASSUME NEW w \in Endpoints, Consume(w) PROVE Once'
  <2> DEFINE e == request[w].event
  <2>1. CASE e \in Kept(request[w].at)
    BY <1>3, <2>1 DEF Consume
  <2>2. CASE e \notin Kept(request[w].at)
    <3>1. e \in Events /\ request[w].at = clock /\ clock <= Expiry(e)
      BY <1>3 DEF Consume, OnTime, Busy
    <3>2. e \notin seen
      BY <2>2, <3>1 DEF Kept
    <3>3. ~ Taken(e)
      BY <3>1, <3>2 DEF Remembered
    <3>4. accepted[e] = 0 /\ \A u \in Endpoints : ~ (request[u].pc = "consumed" /\ request[u].event = e)
      BY <3>1, <3>3 DEF Taken
    <3>5. request' = [request EXCEPT ![w].pc = "consumed"] /\ accepted' = accepted
      BY <1>3, <2>2 DEF Consume
    <3> QED
      BY <3>1, <3>4, <3>5
  <2> QED
    BY <2>1, <2>2
<1>4. ASSUME NEW w \in Endpoints, Post(w) PROVE Once'
  BY <1>4 DEF Post
<1>5. ASSUME NEW w \in Endpoints, Crash(w) PROVE Once'
  BY <1>5 DEF Crash
<1>6. CASE EventTick
  BY <1>6 DEF EventTick
<1>7. CASE UNCHANGED eventVars
  BY <1>7 DEF eventVars
<1> QED
  BY <1>1, <1>2, <1>3, <1>4, <1>5, <1>6, <1>7 DEF EventNext

(* The inductive invariant of every behaviour.                             *)
LEMMA Invariance == EventSpec => []IInv
<1>1. EventInit => IInv
  BY EventAssumption DEF EventInit, IInv, RInv, EventTypeOK, Named, Remembered, Taken, OnTime, Busy, Once,
     Requests, NoRequest
<1>2. IInv /\ [EventNext]_eventVars => IInv'
  BY TypeNext, RememberedNext, OnTimeNext, OnceNext DEF IInv, RInv
<1> QED
  BY <1>1, <1>2, PTL DEF EventSpec

(* The state is well typed, in every instance.                             *)
THEOREM TypeCorrect == EventSpec => []EventTypeOK
<1>1. IInv => EventTypeOK
  BY DEF IInv, RInv
<1> QED
  BY <1>1, Invariance, PTL

(* Pruning is exact in every instance, also when requests are slow.        *)
THEOREM PruningIsSafe == EventSpec => []UsableEventsAreRemembered
<1>1. IInv => UsableEventsAreRemembered
  BY DEF IInv, RInv, Remembered, Taken, UsableEventsAreRemembered
<1> QED
  BY <1>1, Invariance, PTL

(* When a request is answered within its second, an event decides once:    *)
(* for any number of endpoints, deliveries and restarts.                     *)
THEOREM PromptEventsAreSingleUse == InTime => (EventSpec => []EventsAreSingleUse)
<1>1. InTime /\ IInv => EventsAreSingleUse
  BY DEF IInv, Once, EventsAreSingleUse
<1>2. CASE InTime
  <2>1. IInv => EventsAreSingleUse
    BY <1>1, <1>2
  <2> QED
    BY <2>1, Invariance, PTL
<1> QED
  BY <1>2
=============================================================================
