------------------------- MODULE JobScheduler_proofs -------------------------
(***************************************************************************)
(* Theorems about JobScheduler, for any number of workers, any finite      *)
(* table of jobs, any schedules, calendar and lease: the table is well     *)
(* typed, a claim is never taken over, and under Prompt a fire of a job is *)
(* claimed once and last_run only grows.                                   *)
(***************************************************************************)
EXTENDS JobScheduler, FiniteSetTheorems, WellFoundedInduction, TLAPS

-----------------------------------------------------------------------------
(* next_after.                                                             *)

(* Every set of natural numbers has a least element, unless it is empty.   *)
LEMMA LeastElement ==
  ASSUME NEW S \in SUBSET Nat, S # {}
  PROVE  \E f \in S : \A g \in S : f <= g
<1> DEFINE Less == OpToRel(<, Nat)
<1>1. IsWellFoundedOn(Less, Nat)
  BY NatLessThanWellFounded
<1>2. \A a, b \in Nat : a < b => <<a, b>> \in Less
  BY DEF OpToRel
<1> HIDE DEF Less
<1>3. PICK f \in S : \A g \in S : <<g, f>> \notin Less
  BY <1>1, WFMin
<1>4. \A g \in S : ~ (g < f)
  BY <1>2, <1>3
<1> QED
  BY <1>4, SMT

(* If a schedule has a fire at all, next_after finds one: after the moment *)
(* it was asked about, and a minute of the calendar.                       *)
LEMMA NextAfterFires ==
  ASSUME NEW j \in Jobs, NEW moment \in Int, Candidates(Fires[j], moment) # {}
  PROVE  /\ NextAfter(Fires[j], moment) \in Nat
         /\ moment < NextAfter(Fires[j], moment)
<1> DEFINE ahead == Candidates(Fires[j], moment)
<1>1. ahead \in SUBSET Nat /\ \A f \in ahead : moment < f
  BY SchedulerAssumption, CronAssumption DEF Candidates, Fires, Matching
<1>2. \E f \in ahead : \A g \in ahead : f <= g
  BY <1>1, LeastElement
<1>3. NextAfter(Fires[j], moment) \in ahead
  BY <1>2 DEF NextAfter
<1> QED
  BY <1>1, <1>3

-----------------------------------------------------------------------------
(* The inductive invariant, as a conjunction of named parts.               *)

(* Whoever runs a claimed job has its token; the others run plain jobs.  A *)
(* token is asked for once.                                                *)
WorkersHoldTokens == \A w \in Workers :
  /\ \A j \in Jobs : j \in work[w].unread => work[w].token[j] = None
  /\ work[w].phase = "running" => work[w].job \in Jobs /\ work[w].token[work[w].job] # None
  /\ work[w].phase \in {"plain", "marking"} => work[w].job \in Plain

(* Tokens that were given out are below the next one, and name one claim.  *)
TokensAreMinted ==
  /\ \A j \in Jobs : rows[j].token # None => rows[j].token <= minted
  /\ \A w \in Workers, j \in Jobs : work[w].token[j] # None => work[w].token[j] <= minted
  /\ \A c \in claims : c.token <= minted /\ c.slot <= now
  /\ \A c, d \in claims : c.token = d.token => c = d

(* The claim of a row is on record, for a fire after the last run.         *)
HeldClaims == \A j \in Jobs \ Plain : rows[j].token # None =>
  \E c \in claims :
    /\ c.job = j /\ c.token = rows[j].token
    /\ rows[j].last # None => rows[j].last < c.slot

(* No worker reports a run that began before the fire it has claimed.      *)
ReportsAreLate ==
  /\ \A w \in Workers : work[w].since <= now
  /\ Prompt => \A w \in Workers :
       /\ work[w].unread # {} => work[w].since = now
       /\ \A c \in claims : work[w].token[c.job] = c.token => c.slot <= work[w].since

(* What became of a claim that was not given up.                           *)
Settled(c) ==
  \/ rows[c.job].status = "removed"
  \/ rows[c.job].token = c.token
  \/ rows[c.job].last # None /\ c.slot <= rows[c.job].last

ClaimsSettle == Prompt => \A c \in claims : c.job \notin Plain /\ ~ c.reconciled => Settled(c)

FiresAreClaimedOnce == Prompt => SlotsAreClaimedOnce

Core == TypeOK /\ WorkersHoldTokens /\ TokensAreMinted
JInv == Core /\ HeldClaims /\ ReportsAreLate /\ ClaimsSettle /\ FiresAreClaimedOnce

-----------------------------------------------------------------------------
(* Frame lemmas: what the steps leave alone.                               *)

LEMMA Times ==
  /\ Time \subseteq Nat /\ Tokens \subseteq Nat /\ 0 \in Time
  /\ None \notin Time /\ None \notin Tokens
  /\ \A n \in Nat : n \in Time <=> n <= MaxTime
  /\ \A n \in Time : n + Lease \in 0 .. MaxTime + Lease
  /\ \A n \in Time : n + Lease # None
  BY SchedulerAssumption DEF Time, Tokens

LEMMA Numbers ==
  ASSUME TypeOK
  PROVE  /\ now \in Nat /\ now <= MaxTime /\ minted \in Nat
         /\ \A j \in Jobs : /\ rows[j] \in Rows
                            /\ rows[j].last # None => rows[j].last \in Nat
                            /\ rows[j].token # None => rows[j].token \in Nat
         /\ \A w \in Workers : work[w] \in Works /\ work[w].since \in Nat
         /\ \A w \in Workers, j \in Jobs : work[w].token[j] # None => work[w].token[j] \in Nat
         /\ \A c \in claims : c.job \in Jobs /\ c.token \in Nat /\ c.slot \in Nat
<1>1. Time \subseteq Nat /\ Tokens \subseteq Nat /\ now <= MaxTime
  BY SchedulerAssumption DEF Time, Tokens, TypeOK
<1>2. /\ \A j \in Jobs : rows[j] \in Rows
      /\ \A w \in Workers : work[w] \in Works
  BY DEF TypeOK
<1>3. \A w \in Workers, j \in Jobs : work[w].token[j] \in Tokens \cup {None}
  BY <1>2 DEF Works
<1> QED
  <2>1. \A j \in Jobs : rows[j].last \in Time \cup {None} /\ rows[j].token \in Tokens \cup {None}
    BY <1>2 DEF Rows
  <2>2. \A w \in Workers : work[w].since \in Time
    BY <1>2 DEF Works
  <2>3. \A c \in claims : c.job \in Jobs /\ c.token \in Tokens /\ c.slot \in Time
    BY DEF TypeOK
  <2>4. now \in Time /\ minted \in Nat
    BY DEF TypeOK
  <2> QED
    BY <1>1, <1>2, <1>3, <2>1, <2>2, <2>3, <2>4

LEMMA NoWorkTyped == NoWork \in Works /\ NoTokens \in [Jobs -> Tokens \cup {None}]
  BY Times DEF NoWork, NoTokens, Works

LEMMA EndJobFrame ==
  ASSUME TypeOK, NEW w \in Workers, work[w].job \in Jobs, EndJob(w)
  PROVE  /\ work' \in [Workers -> Works]
         /\ work'[w].phase = "idle" /\ work'[w].unread = work[w].unread
         /\ work'[w].since = work[w].since
         /\ \A j \in Jobs : work'[w].token[j] = IF j = work[w].job THEN None ELSE work[w].token[j]
         /\ \A v \in Workers \ {w} : work'[v] = work[v]
<1> DEFINE ended == [work[w] EXCEPT !.phase = "idle", !.job = None, !.token[work[w].job] = None]
<1>1. work[w] \in Works
  BY DEF TypeOK
<1>2. /\ ended \in Works /\ ended.phase = "idle" /\ ended.unread = work[w].unread
      /\ ended.since = work[w].since
      /\ \A j \in Jobs : ended.token[j] = IF j = work[w].job THEN None ELSE work[w].token[j]
  BY <1>1 DEF Works
<1>3. work' = [work EXCEPT ![w] = ended]
  BY DEF EndJob
<1> QED
  BY <1>2, <1>3 DEF TypeOK

(* What claim_due does: a new token for each job that is due and free.     *)
ClaimedWith(w, token) ==
  /\ \A j \in Claimable : minted < token[j] /\ token[j] <= minted'
  /\ \A i, j \in Claimable : i # j => token[i] # token[j]
  /\ \A j \in Claimable : /\ Slot(j) \in Time /\ Slot(j) <= now
                          /\ rows[j].last # None => rows[j].last < Slot(j)
                          /\ rows[j].status = "present" /\ rows[j].token = None
  /\ rows' = [j \in Jobs |-> IF j \in Claimable
                THEN [rows[j] EXCEPT !.until = now + Lease, !.token = token[j]]
                ELSE rows[j]]
  /\ claims' = claims \cup {[job |-> j, token |-> token[j], slot |-> Slot(j),
                             reconciled |-> FALSE] : j \in Claimable}
  /\ minted' \in 0 .. MaxClaims /\ minted <= minted'
  /\ work' = [work EXCEPT ![w] = [NoWork EXCEPT !.unread = Claimable, !.since = now]]
  /\ UNCHANGED now

LEMMA ClaimFrame ==
  ASSUME TypeOK, NEW w \in Workers, ClaimDue(w)
  PROVE  \E token \in [Claimable -> Tokens] : ClaimedWith(w, token)
<1>1. Claimable \subseteq Jobs
  BY DEF Claimable
<1>2. Cardinality(Claimable) \in Nat
  BY <1>1, FS_Subset, FS_CardinalityType, SchedulerAssumption
<1>3. PICK token \in [Claimable -> minted + 1 .. minted + Cardinality(Claimable)] :
       /\ \A i, j \in Claimable : i # j => token[i] # token[j]
       /\ rows' = [j \in Jobs |-> IF j \in Claimable
                     THEN [rows[j] EXCEPT !.until = now + Lease, !.token = token[j]]
                     ELSE rows[j]]
       /\ claims' = claims \cup {[job |-> j, token |-> token[j], slot |-> Slot(j),
                                  reconciled |-> FALSE] : j \in Claimable}
  BY DEF ClaimDue
<1>4. /\ minted' = minted + Cardinality(Claimable) /\ minted' <= MaxClaims
      /\ work' = [work EXCEPT ![w] = [NoWork EXCEPT !.unread = Claimable, !.since = now]]
      /\ UNCHANGED now
  BY DEF ClaimDue
<1>5. token \in [Claimable -> Tokens]
  BY <1>2, <1>4, SchedulerAssumption DEF TypeOK, Tokens
<1>6. ASSUME NEW j \in Claimable
      PROVE  /\ Slot(j) \in Time /\ Slot(j) <= now
             /\ rows[j].last # None => rows[j].last < Slot(j)
             /\ rows[j].status = "present" /\ rows[j].token = None
  <2>1. /\ rows[j].status = "present" /\ rows[j].token = None /\ Slot(j) <= now
        /\ Candidates(Fires[j], Anchor(j)) # {}
    BY <1>1 DEF ClaimDue, Claimable, Due, Present, DueRaises
  <2>2. Anchor(j) \in Int /\ (rows[j].last # None => rows[j].last = Anchor(j))
    <3>1. now \in Nat /\ rows[j] \in Rows
      BY <1>1, Times DEF TypeOK
    <3>2. rows[j].last # None => rows[j].last \in Nat
      BY <3>1, Times DEF Rows
    <3> QED
      BY <3>1, <3>2 DEF Anchor
  <2>3. Slot(j) \in Nat /\ Anchor(j) < Slot(j)
    BY <1>1, <2>1, <2>2, NextAfterFires DEF Slot
  <2> QED
    <3>1. now \in Nat /\ now <= MaxTime
      BY SchedulerAssumption DEF TypeOK, Time
    <3>2. Slot(j) \in Time
      BY <2>1, <2>3, <3>1, SchedulerAssumption DEF Time
    <3> QED
      BY <2>1, <2>2, <2>3, <3>2
<1>7. \A j \in Claimable : minted < token[j] /\ token[j] <= minted'
  <2>1. minted \in Nat
    BY DEF TypeOK
  <2>2. ASSUME NEW j \in Claimable PROVE minted < token[j] /\ token[j] <= minted'
    <3>1. token[j] \in minted + 1 .. minted + Cardinality(Claimable)
      BY <1>3
    <3> QED
      BY <1>2, <1>4, <2>1, <3>1
  <2> QED
    BY <2>2
<1>8. minted' \in 0 .. MaxClaims /\ minted <= minted'
  BY <1>2, <1>4, SchedulerAssumption DEF TypeOK
<1> HIDE DEF ClaimDue
<1> QED
  <2> WITNESS token \in [Claimable -> Tokens]
  <2> QED
    BY <1>3, <1>4, <1>6, <1>7, <1>8 DEF ClaimedWith

(* mark_run with the token of the row.                                     *)
LEMMA MarkRunFrame ==
  ASSUME Core, NEW w \in Workers, MarkRun(w)
  PROVE  LET j == work[w].job
         IN /\ j \in Jobs /\ work[w].token[j] \in Tokens
            /\ \/ /\ rows[j].token = work[w].token[j]
                  /\ \E ranAt \in work[w].since .. now :
                       /\ ranAt \in Time
                       /\ rows' = [rows EXCEPT ![j].last = ranAt, ![j].until = None, ![j].token = None]
               \/ UNCHANGED rows
            /\ EndJob(w)
            /\ UNCHANGED <<now, minted, claims>>
<1>1. work[w].job \in Jobs /\ work[w].token[work[w].job] # None
  BY DEF MarkRun, Core, WorkersHoldTokens
<1>2. work[w].token[work[w].job] \in Tokens
  BY <1>1 DEF Core, TypeOK, Works
<1>3. work[w].since .. now \subseteq Time
  <2>1. work[w].since \in Nat /\ now \in Nat /\ now <= MaxTime
    BY SchedulerAssumption DEF Core, TypeOK, Works, Time
  <2> QED
    BY <2>1, SchedulerAssumption DEF Time
<1> QED
  BY <1>1, <1>2, <1>3 DEF MarkRun

-----------------------------------------------------------------------------
(* The parts that hold in every instance.                                  *)

LEMMA CoreInit == Init => Core
<1> SUFFICES ASSUME Init PROVE Core
  OBVIOUS
<1>1. NoRow \in Rows /\ NoRow.token = None /\ NoRow.until = None
  BY Times, SchedulerAssumption DEF NoRow, Rows
<1>2. TypeOK
  BY <1>1, Times, NoWorkTyped, SchedulerAssumption DEF Init, TypeOK
<1>3. \A w \in Workers : work[w].phase = "idle" /\ \A j \in Jobs : work[w].token[j] = None
  BY DEF Init, NoWork, NoTokens
<1> QED
  BY <1>1, <1>2, <1>3 DEF Init, Core, WorkersHoldTokens, TokensAreMinted

LEMMA CoreNext == Core /\ [Next]_vars => Core'
<1> SUFFICES ASSUME Core, [Next]_vars PROVE Core'
  OBVIOUS
<1> USE DEF Core
<1>0. /\ \A w \in Workers : work[w] \in Works
      /\ \A j \in Jobs : rows[j] \in Rows
      /\ now \in Time /\ minted \in Nat
  BY DEF TypeOK
<1>n. /\ now \in Nat /\ now <= MaxTime
      /\ \A j \in Jobs : rows[j].token # None => rows[j].token \in Nat
      /\ \A w \in Workers, j \in Jobs : work[w].token[j] # None => work[w].token[j] \in Nat
      /\ \A c \in claims : c.token \in Nat /\ c.slot \in Nat
  BY Numbers
<1>1. ASSUME NEW j \in Jobs, Add(j) PROVE Core'
  <2>1. TypeOK'
    BY <1>0, <1>1 DEF Add, TypeOK, Rows
  <2> QED
    BY <1>1, <2>1 DEF Add, TypeOK, WorkersHoldTokens, TokensAreMinted
<1>2. ASSUME NEW j \in Jobs, Remove(j) PROVE Core'
  <2> DEFINE removed == [NoRow EXCEPT !.status = "removed"]
  <2>1. removed \in Rows /\ removed.token = None /\ removed.until = None
    BY Times DEF NoRow, Rows
  <2>2. rows' = [rows EXCEPT ![j] = removed] /\ UNCHANGED <<now, work, minted, claims>>
    BY <1>2 DEF Remove
  <2> HIDE DEF removed
  <2>3. TypeOK'
    BY <2>1, <2>2 DEF TypeOK
  <2> QED
    BY <2>1, <2>2, <2>3 DEF TypeOK, WorkersHoldTokens, TokensAreMinted
<1>3. ASSUME NEW j \in Jobs, RetryUnknown(j) PROVE Core'
  <2> DEFINE given(c) == IF c.job = j /\ c.token = rows[j].token THEN [c EXCEPT !.reconciled = TRUE] ELSE c
  <2>1. /\ rows' = [rows EXCEPT ![j].token = None, ![j].until = None]
        /\ claims' = {given(c) : c \in claims}
        /\ UNCHANGED <<now, work, minted>>
    BY <1>3 DEF RetryUnknown
  <2>2. \A c \in claims : /\ given(c) \in [job : Jobs, token : Tokens, slot : Time, reconciled : BOOLEAN]
                          /\ given(c).token = c.token /\ given(c).slot = c.slot
    BY DEF TypeOK
  <2> HIDE DEF given
  <2>3. [rows[j] EXCEPT !.token = None, !.until = None] \in Rows
    BY <1>0 DEF Rows
  <2>4. TypeOK'
    BY <2>1, <2>2, <2>3 DEF TypeOK
  <2>5. TokensAreMinted'
    BY <2>1, <2>2 DEF TypeOK, TokensAreMinted
  <2> QED
    BY <2>1, <2>4, <2>5 DEF WorkersHoldTokens
<1>4. ASSUME NEW w \in Workers, ClaimDue(w) PROVE Core'
  <2>1. PICK token \in [Claimable -> Tokens] : ClaimedWith(w, token)
    BY <1>4, ClaimFrame
  <2>2. Claimable \subseteq Jobs
    BY DEF Claimable
  <2> DEFINE claimed == [NoWork EXCEPT !.unread = Claimable, !.since = now]
             fresh == {[job |-> j, token |-> token[j], slot |-> Slot(j), reconciled |-> FALSE] :
                       j \in Claimable}
  <2>3. /\ claimed \in Works /\ claimed.phase = "idle"
        /\ \A j \in Jobs : claimed.token[j] = None
    BY <1>0, <2>2, NoWorkTyped DEF NoWork, NoTokens, Works
  <2>4. work' = [work EXCEPT ![w] = claimed] /\ claims' = claims \cup fresh /\ UNCHANGED now
    BY <2>1 DEF ClaimedWith
  <2>5. /\ fresh \subseteq [job : Jobs, token : Tokens, slot : Time, reconciled : BOOLEAN]
        /\ \A c \in fresh : minted < c.token /\ c.token <= minted' /\ c.slot <= now
        /\ \A c, d \in fresh : c.token = d.token => c = d
    <3>1. \A j \in Claimable : /\ token[j] \in Tokens /\ minted < token[j] /\ token[j] <= minted'
                              /\ Slot(j) \in Time /\ Slot(j) <= now
      BY <2>1 DEF ClaimedWith
    <3>2. \A i, j \in Claimable : i # j => token[i] # token[j]
      BY <2>1 DEF ClaimedWith
    <3>3. \A c \in fresh : \E j \in Claimable :
            c = [job |-> j, token |-> token[j], slot |-> Slot(j), reconciled |-> FALSE]
      OBVIOUS
    <3> HIDE DEF fresh
    <3>4. ASSUME NEW c \in fresh
          PROVE  \E j \in Claimable :
            /\ c.job = j /\ c.token = token[j] /\ c.slot = Slot(j)
            /\ c \in [job : Jobs, token : Tokens, slot : Time, reconciled : BOOLEAN]
      <4>1. PICK j \in Claimable :
              c = [job |-> j, token |-> token[j], slot |-> Slot(j), reconciled |-> FALSE]
        BY <3>3
      <4>2. j \in Jobs /\ token[j] \in Tokens /\ Slot(j) \in Time
        BY <2>2, <3>1
      <4> QED
        BY <4>1, <4>2
    <3>5. ASSUME NEW c \in fresh, NEW d \in fresh, c.token = d.token PROVE c = d
      <4>1. PICK i \in Claimable :
              c = [job |-> i, token |-> token[i], slot |-> Slot(i), reconciled |-> FALSE]
        BY <3>3
      <4>2. PICK j \in Claimable :
              d = [job |-> j, token |-> token[j], slot |-> Slot(j), reconciled |-> FALSE]
        BY <3>3
      <4>3. i = j
        BY <3>2, <3>5, <4>1, <4>2
      <4> QED
        BY <4>1, <4>2, <4>3
    <3> QED
      BY <3>1, <3>4, <3>5
  <2>6. ASSUME NEW j \in Jobs
        PROVE  /\ rows'[j] \in Rows
               /\ rows'[j].token = None <=> rows'[j].until = None
               /\ rows'[j].token # None => rows'[j].token <= minted'
    <3>1. CASE j \in Claimable
      <4>1. /\ rows'[j] = [rows[j] EXCEPT !.until = now + Lease, !.token = token[j]]
            /\ token[j] \in Tokens /\ token[j] <= minted'
        BY <2>1, <3>1 DEF ClaimedWith
      <4>2. now + Lease \in 0 .. MaxTime + Lease /\ now + Lease # None /\ token[j] # None
        BY <1>0, <4>1, Times
      <4> QED
        BY <1>0, <4>1, <4>2 DEF Rows
    <3>2. CASE j \notin Claimable
      <4>1. rows'[j] = rows[j] /\ minted <= minted' /\ minted' \in Nat
        <5>1. rows'[j] = rows[j]
          BY <2>1, <3>2 DEF ClaimedWith
        <5>2. minted' \in 0 .. MaxClaims /\ minted <= minted'
          BY <2>1 DEF ClaimedWith
        <5> QED
          BY <5>1, <5>2, SchedulerAssumption
      <4>2. rows[j].token # None => rows[j].token \in Nat /\ rows[j].token <= minted
        BY <1>n DEF TokensAreMinted
      <4> QED
        BY <1>0, <4>1, <4>2 DEF TypeOK
    <3> QED
      BY <3>1, <3>2
  <2> HIDE DEF claimed, fresh
  <2>7. minted' \in 0 .. MaxClaims /\ minted <= minted' /\ rows' \in [Jobs -> Rows]
    BY <2>1, <2>6 DEF ClaimedWith
  <2>8. TypeOK'
    BY <2>3, <2>4, <2>5, <2>6, <2>7 DEF TypeOK
  <2>9. TokensAreMinted'
    <3>1. \A c \in claims : c.token \in Nat /\ c.token <= minted
      BY Times DEF TypeOK, TokensAreMinted
    <3>2. \A v \in Workers, j \in Jobs : work[v].token[j] # None => work[v].token[j] \in Nat
      BY <1>n
    <3>3. \A v \in Workers, j \in Jobs : work'[v].token[j] # None =>
            v # w /\ work'[v].token[j] = work[v].token[j]
      BY <2>3, <2>4 DEF TypeOK
    <3>4. \A v \in Workers, j \in Jobs : work'[v].token[j] # None => work'[v].token[j] <= minted'
      BY <1>0, <2>7, <3>2, <3>3 DEF TokensAreMinted
    <3>5. \A c \in fresh : c.token \in Nat
      BY <2>5, Times
    <3>6. \A c, d \in claims' : c.token = d.token => c = d
      BY <1>0, <2>4, <2>5, <3>1, <3>5 DEF TokensAreMinted
    <3>7. \A c \in claims' : c.token <= minted' /\ c.slot <= now'
      BY <1>0, <2>4, <2>5, <2>7, <3>1 DEF TokensAreMinted
    <3> QED
      BY <2>6, <3>4, <3>6, <3>7 DEF TokensAreMinted
  <2> QED
    BY <2>3, <2>4, <2>8, <2>9 DEF TypeOK, WorkersHoldTokens
<1>5. ASSUME NEW w \in Workers, MarkRun(w) PROVE Core'
  <2> DEFINE j == work[w].job
  <2>1. /\ j \in Jobs /\ EndJob(w) /\ UNCHANGED <<now, minted, claims>>
        /\ \/ \E ranAt \in Time : rows' = [rows EXCEPT ![j].last = ranAt, ![j].until = None, ![j].token = None]
           \/ UNCHANGED rows
    BY <1>5, MarkRunFrame
  <2>2. \A i \in Jobs : /\ rows'[i] \in Rows /\ (rows'[i].token = None <=> rows'[i].until = None)
                        /\ rows'[i].token \in {rows[i].token, None}
    <3>1. CASE UNCHANGED rows
      BY <1>0, <3>1 DEF TypeOK
    <3>2. ASSUME NEW ranAt \in Time,
                 rows' = [rows EXCEPT ![j].last = ranAt, ![j].until = None, ![j].token = None]
          PROVE  \A i \in Jobs : /\ rows'[i] \in Rows
                                 /\ rows'[i].token = None <=> rows'[i].until = None
                                 /\ rows'[i].token \in {rows[i].token, None}
      <4>1. [rows[j] EXCEPT !.last = ranAt, !.until = None, !.token = None] \in Rows
        BY <1>0, <2>1 DEF Rows
      <4>2. rows' = [rows EXCEPT ![j] = [rows[j] EXCEPT !.last = ranAt, !.until = None, !.token = None]]
        BY <3>2
      <4> QED
        BY <1>0, <2>1, <4>1, <4>2 DEF TypeOK, Rows
    <3> QED
      BY <2>1, <3>1, <3>2
  <2>3. TypeOK'
    BY <2>1, <2>2, EndJobFrame DEF TypeOK
  <2> QED
    <3>1. \A v \in Workers, i \in Jobs : work'[v].token[i] \in {work[v].token[i], None}
      BY <2>1, EndJobFrame
    <3>2. TokensAreMinted'
      BY <2>1, <2>2, <3>1 DEF TokensAreMinted
    <3>3. WorkersHoldTokens'
      <4>1. /\ work'[w].phase = "idle" /\ work'[w].unread = work[w].unread
            /\ \A i \in Jobs : work'[w].token[i] \in {work[w].token[i], None}
            /\ \A v \in Workers \ {w} : work'[v] = work[v]
        BY <2>1, EndJobFrame
      <4> QED
        BY <4>1 DEF WorkersHoldTokens
    <3> QED
      BY <2>3, <3>2, <3>3
<1>6. ASSUME NEW w \in Workers, CheckUnclaimed(w) PROVE Core'
  <2>1. CASE work' = [work EXCEPT ![w].phase = "marking"]
    <3>1. [work[w] EXCEPT !.phase = "marking"] \in Works
      BY <1>0 DEF Works
    <3> QED
      BY <1>6, <2>1, <3>1 DEF CheckUnclaimed, TypeOK, WorkersHoldTokens, TokensAreMinted
  <2>2. CASE EndJob(w)
    <3>1. work[w].job \in Jobs
      BY <1>6, SchedulerAssumption DEF CheckUnclaimed, WorkersHoldTokens
    <3>2. UNCHANGED <<now, rows, minted, claims>>
      BY <1>6 DEF CheckUnclaimed
    <3> QED
      BY <2>2, <3>1, <3>2, EndJobFrame DEF TypeOK, WorkersHoldTokens, TokensAreMinted
  <2> QED
    BY <1>6, <2>1, <2>2 DEF CheckUnclaimed
<1>7. ASSUME NEW w \in Workers, MarkUnclaimed(w) PROVE Core'
  <2> DEFINE j == work[w].job
  <2>1. j \in Jobs /\ EndJob(w) /\ UNCHANGED <<now, minted, claims>>
    BY <1>7, SchedulerAssumption DEF MarkUnclaimed, WorkersHoldTokens
  <2>2. work[w].since .. now \subseteq Time
    BY <1>0, SchedulerAssumption DEF Works, Time
  <2>3. (\E ranAt \in Time : rows' = [rows EXCEPT ![j].last = ranAt]) \/ UNCHANGED rows
    BY <1>7, <2>2 DEF MarkUnclaimed
  <2>4. \A i \in Jobs : /\ rows'[i] \in Rows
                        /\ rows'[i].token = rows[i].token /\ rows'[i].until = rows[i].until
    <3>1. ASSUME NEW ranAt \in Time, rows' = [rows EXCEPT ![j].last = ranAt]
          PROVE  \A i \in Jobs : /\ rows'[i] \in Rows
                                 /\ rows'[i].token = rows[i].token /\ rows'[i].until = rows[i].until
      <4>1. [rows[j] EXCEPT !.last = ranAt] \in Rows
        BY <1>0, <2>1 DEF Rows
      <4>2. rows' = [rows EXCEPT ![j] = [rows[j] EXCEPT !.last = ranAt]]
        BY <3>1
      <4> QED
        BY <1>0, <2>1, <4>1, <4>2 DEF TypeOK, Rows
    <3> QED
      BY <1>0, <2>3, <3>1
  <2>5. TypeOK'
    BY <2>1, <2>3, <2>4, EndJobFrame DEF TypeOK
  <2> QED
    BY <2>1, <2>4, <2>5, EndJobFrame DEF WorkersHoldTokens, TokensAreMinted
<1>8. ASSUME NEW w \in Workers, Die(w) PROVE Core'
  <2>1. NoWork.phase = "idle" /\ \A j \in Jobs : NoWork.token[j] = None
    BY DEF NoWork, NoTokens
  <2>2. work' = [work EXCEPT ![w] = NoWork] /\ UNCHANGED <<now, rows, minted, claims>>
    BY <1>8 DEF Die
  <2> QED
    BY <2>1, <2>2, NoWorkTyped DEF TypeOK, WorkersHoldTokens, TokensAreMinted
<1>9. ASSUME NEW w \in Workers, NEW j \in Jobs, ClaimToken(w, j) PROVE Core'
  <2> DEFINE asked == [work[w] EXCEPT !.unread = @ \ {j}, !.token[j] = rows[j].token]
  <2>1. work' = [work EXCEPT ![w] = asked] /\ UNCHANGED <<now, rows, minted, claims>>
    BY <1>9 DEF ClaimToken
  <2>2. rows[j].token \in Tokens \cup {None}
    BY <1>0 DEF Rows
  <2>3. /\ asked \in Works /\ asked.phase = work[w].phase /\ asked.job = work[w].job
        /\ \A i \in Jobs : asked.token[i] = IF i = j THEN rows[j].token ELSE work[w].token[i]
    BY <1>0, <2>2 DEF Works
  <2> HIDE DEF asked
  <2>4. TypeOK'
    BY <2>1, <2>3 DEF TypeOK
  <2>5. TokensAreMinted'
    BY <2>1, <2>3 DEF TypeOK, TokensAreMinted
  <2>6. WorkersHoldTokens'
    <3>1. asked.unread = work[w].unread \ {j} /\ work[w].token[j] = None /\ j \in work[w].unread
      BY <1>0, <1>9 DEF asked, ClaimToken, Works, WorkersHoldTokens
    <3> QED
      BY <1>0, <2>1, <2>3, <3>1 DEF TypeOK, Works, WorkersHoldTokens
  <2> QED
    BY <2>4, <2>5, <2>6
<1>10. ASSUME NEW w \in Workers, NEW j \in Jobs, StartJob(w, j) PROVE Core'
  <2> DEFINE started == [work[w] EXCEPT !.phase = "running", !.job = j]
  <2>1. /\ started \in Works /\ started.phase = "running" /\ started.job = j
        /\ started.token = work[w].token /\ started.token[j] # None
        /\ started.unread = work[w].unread
    BY <1>0, <1>10 DEF StartJob, Works
  <2>2. work' = [work EXCEPT ![w] = started] /\ UNCHANGED <<now, rows, minted, claims>>
    BY <1>10 DEF StartJob
  <2> HIDE DEF started
  <2> QED
    BY <2>1, <2>2 DEF TypeOK, WorkersHoldTokens, TokensAreMinted
<1>11. ASSUME NEW w \in Workers, NEW j \in Jobs, Heartbeat(w, j) PROVE Core'
  <2>1. /\ rows' = [rows EXCEPT ![j].until = now + Lease] /\ rows[j].token # None
        /\ UNCHANGED <<now, work, minted, claims>>
    BY <1>11 DEF Heartbeat
  <2>2. now + Lease \in 0 .. MaxTime + Lease /\ now + Lease # None
    BY <1>0, Times
  <2>3. [rows[j] EXCEPT !.until = now + Lease] \in Rows
    BY <1>0, <2>2 DEF Rows
  <2>4. TypeOK'
    BY <1>0, <2>1, <2>2, <2>3 DEF TypeOK, Rows
  <2> QED
    BY <2>1, <2>4 DEF TypeOK, Rows, WorkersHoldTokens, TokensAreMinted
<1>12. ASSUME NEW w \in Workers, NEW j \in Jobs, RunDue(w, j) PROVE Core'
  <2> DEFINE plain == [NoWork EXCEPT !.phase = "plain", !.job = j, !.since = now]
  <2>1. /\ plain \in Works /\ plain.phase = "plain" /\ plain.job = j
        /\ \A i \in Jobs : plain.token[i] = None
    BY <1>0, NoWorkTyped DEF NoWork, NoTokens, Works
  <2>2. work' = [work EXCEPT ![w] = plain] /\ j \in Plain /\ UNCHANGED <<now, rows, minted, claims>>
    BY <1>12 DEF RunDue
  <2> HIDE DEF plain
  <2> QED
    BY <2>1, <2>2 DEF TypeOK, WorkersHoldTokens, TokensAreMinted
<1>13. ASSUME Tick PROVE Core'
  <2>1. now' = now + 1 /\ now' \in Time /\ UNCHANGED <<rows, work, minted, claims>>
    BY <1>0, <1>13, SchedulerAssumption DEF Tick, Time
  <2>2. \A c \in claims : c.slot <= now'
    BY <1>n, <2>1 DEF TokensAreMinted
  <2> QED
    BY <2>1, <2>2 DEF TypeOK, WorkersHoldTokens, TokensAreMinted
<1>14. ASSUME UNCHANGED vars PROVE Core'
  BY <1>14 DEF vars, TypeOK, WorkersHoldTokens, TokensAreMinted
<1> QED
  BY <1>1, <1>2, <1>3, <1>4, <1>5, <1>6, <1>7, <1>8, <1>9, <1>10, <1>11, <1>12, <1>13, <1>14 DEF Next

-----------------------------------------------------------------------------
(* The parts about the claims.                                             *)

(* A claim d that is c, or c given up.                                     *)
SameClaim(c, d) ==
  /\ d.job = c.job /\ d.token = c.token /\ d.slot = c.slot
  /\ c.reconciled => d.reconciled

(* retry_unknown only marks claims as given up.                            *)
LEMMA RetryFrame ==
  ASSUME Core, NEW j \in Jobs, RetryUnknown(j)
  PROVE  /\ \A d \in claims' : \E c \in claims :
              /\ SameClaim(c, d)
              /\ ~ d.reconciled => ~ (c.job = j /\ c.token = rows[j].token)
         /\ \A c \in claims : \E d \in claims' : SameClaim(c, d)
         /\ rows' = [rows EXCEPT ![j].token = None, ![j].until = None]
         /\ UNCHANGED <<now, work, minted>>
<1> DEFINE given(c) == IF c.job = j /\ c.token = rows[j].token THEN [c EXCEPT !.reconciled = TRUE] ELSE c
<1>1. claims' = {given(c) : c \in claims}
  BY DEF RetryUnknown
<1>2. ASSUME NEW c \in claims
      PROVE  /\ given(c).job = c.job /\ given(c).token = c.token /\ given(c).slot = c.slot
             /\ c.reconciled => given(c).reconciled
             /\ ~ given(c).reconciled => ~ (c.job = j /\ c.token = rows[j].token)
  BY DEF Core, TypeOK
<1>3. /\ rows' = [rows EXCEPT ![j].token = None, ![j].until = None]
      /\ UNCHANGED <<now, work, minted>>
  BY DEF RetryUnknown
<1> HIDE DEF given
<1> QED
  BY <1>1, <1>2, <1>3 DEF SameClaim

(* The new claims of claim_due.                                            *)
LEMMA FreshFrame ==
  ASSUME Core, NEW w \in Workers, NEW token \in [Claimable -> Tokens], ClaimedWith(w, token)
  PROVE  /\ claims \subseteq claims'
         /\ \A d \in claims' \ claims :
              /\ d.job \in Claimable /\ d.token = token[d.job] /\ d.slot = Slot(d.job)
              /\ d.token \in Nat /\ minted < d.token /\ d.slot <= now
         /\ \A j \in Claimable : \E d \in claims' :
              d.job = j /\ d.token = token[j] /\ d.slot = Slot(j)
         /\ \A c, d \in claims' \ claims : c.job = d.job => c = d
<1> DEFINE new(j) == [job |-> j, token |-> token[j], slot |-> Slot(j), reconciled |-> FALSE]
<1>1. claims' = claims \cup {new(j) : j \in Claimable}
  BY DEF ClaimedWith
<1>2. \A j \in Claimable : token[j] \in Nat /\ minted < token[j] /\ Slot(j) <= now
  BY Times DEF ClaimedWith
<1>3. \A j : new(j).job = j /\ new(j).token = token[j] /\ new(j).slot = Slot(j)
  OBVIOUS
<1>4. \A d \in claims' \ claims : \E j \in Claimable : d = new(j)
  BY <1>1
<1> HIDE DEF new
<1> QED
  BY <1>1, <1>2, <1>3, <1>4

(* What a step other than claim_due does to the row of a job: nothing, or   *)
(* retry_unknown gives its claim up, or the job goes, or it is completed.   *)
RowStep(j) ==
  /\ rows[j].status = "removed" => rows'[j].status = "removed"
  /\ \/ rows'[j].last = rows[j].last /\ rows'[j].token = rows[j].token
     \/ RetryUnknown(j) /\ rows'[j].last = rows[j].last /\ rows'[j].token = None
     \/ rows'[j].status = "removed" /\ rows'[j].last = None /\ rows'[j].token = None
     \/ j \in Plain /\ rows'[j].token = rows[j].token
     \/ \E w \in Workers : /\ work[w].phase = "running" /\ work[w].job = j
                           /\ rows[j].token = work[w].token[j] /\ work'[w].phase = "idle"
                           /\ rows'[j].last \in work[w].since .. now
                           /\ rows'[j].token = None

LEMMA RowsFrame ==
  ASSUME Core, [Next]_vars, ~ \E w \in Workers : ClaimDue(w), NEW j \in Jobs
  PROVE  RowStep(j)
<1>0. rows \in [Jobs -> Rows]
  BY DEF Core, TypeOK
<1>1. ASSUME NEW i \in Jobs, Add(i) \/ \E w \in Workers : Heartbeat(w, i)
      PROVE  RowStep(j)
  <2>1. CASE Add(i)
    BY <1>0, <2>1 DEF Add, Rows, RowStep
  <2>2. CASE \E w \in Workers : Heartbeat(w, i)
    BY <1>0, <2>2 DEF Heartbeat, Rows, RowStep
  <2> QED
    BY <1>1, <2>1, <2>2
<1>2. ASSUME NEW i \in Jobs, Remove(i) PROVE RowStep(j)
  BY <1>0, <1>2 DEF Remove, NoRow, RowStep
<1>3. ASSUME NEW i \in Jobs, RetryUnknown(i) PROVE RowStep(j)
  <2>1. rows' = [rows EXCEPT ![i].token = None, ![i].until = None]
    BY <1>3 DEF RetryUnknown
  <2>2. CASE j = i
    <3>1. /\ rows'[j].status = rows[j].status /\ rows'[j].last = rows[j].last
          /\ rows'[j].token = None
      BY <1>0, <2>1, <2>2 DEF Rows
    <3> QED
      BY <1>3, <2>2, <3>1 DEF RowStep
  <2>3. CASE j # i
    BY <1>0, <2>1, <2>3 DEF RowStep
  <2> QED
    BY <2>2, <2>3
<1>4. ASSUME NEW w \in Workers, MarkRun(w) PROVE RowStep(j)
  <2>1. work'[w].phase = "idle" /\ work[w].phase = "running"
    BY <1>4, MarkRunFrame, EndJobFrame DEF Core, MarkRun
  <2>2. CASE UNCHANGED rows
    BY <2>2 DEF RowStep
  <2>3. ASSUME NEW ranAt \in work[w].since .. now,
               rows[work[w].job].token = work[w].token[work[w].job],
               rows' = [rows EXCEPT ![work[w].job].last = ranAt, ![work[w].job].until = None,
                                    ![work[w].job].token = None]
        PROVE  RowStep(j)
    <3>1. CASE j = work[w].job
      <4>1. /\ rows'[j].status = rows[j].status /\ rows'[j].last = ranAt
            /\ rows'[j].token = None
        BY <1>0, <2>3, <3>1 DEF Rows
      <4> QED
        BY <2>1, <2>3, <3>1, <4>1 DEF RowStep
    <3>2. CASE j # work[w].job
      BY <1>0, <2>3, <3>2 DEF RowStep
    <3> QED
      BY <3>1, <3>2
  <2> QED
    BY <1>4, <2>2, <2>3 DEF MarkRun
<1>5. ASSUME NEW w \in Workers, MarkUnclaimed(w) PROVE RowStep(j)
  <2>1. work[w].job \in Plain
    BY <1>5 DEF MarkUnclaimed, Core, WorkersHoldTokens
  <2>2. UNCHANGED rows \/ \E ranAt : rows' = [rows EXCEPT ![work[w].job].last = ranAt]
    BY <1>5 DEF MarkUnclaimed
  <2>3. /\ rows'[j].status = rows[j].status /\ rows'[j].token = rows[j].token
        /\ j = work[w].job \/ rows'[j] = rows[j]
    <3>1. ASSUME NEW ranAt, rows' = [rows EXCEPT ![work[w].job].last = ranAt]
          PROVE  /\ rows'[j].status = rows[j].status /\ rows'[j].token = rows[j].token
                 /\ j = work[w].job \/ rows'[j] = rows[j]
      BY <1>0, <3>1 DEF Rows
    <3> QED
      BY <2>2, <3>1
  <2> QED
    BY <2>1, <2>3 DEF RowStep
<1>6. ASSUME UNCHANGED rows PROVE RowStep(j)
  BY <1>6 DEF RowStep
<1> QED
  BY <1>1, <1>2, <1>3, <1>4, <1>5, <1>6
  DEF Next, CheckUnclaimed, Die, ClaimToken, StartJob, RunDue, Tick, vars

(* No other step than claim_due and retry_unknown touches the claims.      *)
LEMMA ClaimsFrame ==
  ASSUME [Next]_vars, ~ \E w \in Workers : ClaimDue(w)
  PROVE  UNCHANGED claims \/ \E j \in Jobs : RetryUnknown(j)
  BY DEF Next, Add, Remove, MarkRun, CheckUnclaimed, MarkUnclaimed, Die, ClaimToken,
         StartJob, Heartbeat, RunDue, Tick, vars

(* What a step other than claim_due does to a worker: it starts afresh, or *)
(* it keeps its time and the tokens it did not drop or ask for.            *)
WorkStep(v) ==
  \/ /\ work'[v].unread = {} /\ \A j \in Jobs : work'[v].token[j] = None
     /\ work'[v].since \in {0, now}
  \/ /\ work'[v].unread \subseteq work[v].unread /\ work'[v].since = work[v].since
     /\ \A j \in Jobs : \/ work'[v].token[j] \in {work[v].token[j], None}
                        \/ work[v].unread # {}

LEMMA WorkFrame ==
  ASSUME Core, [Next]_vars, ~ \E w \in Workers : ClaimDue(w), NEW v \in Workers
  PROVE  WorkStep(v)
<1>0. /\ work \in [Workers -> Works] /\ work[v] \in Works
  BY DEF Core, TypeOK
<1>1. ASSUME work' = work PROVE WorkStep(v)
  BY <1>1 DEF WorkStep
<1>2. ASSUME NEW w \in Workers, work[w].job \in Jobs, EndJob(w) PROVE WorkStep(v)
  BY <1>2, EndJobFrame DEF WorkStep, Core
<1>3. ASSUME NEW w \in Workers, CheckUnclaimed(w) PROVE WorkStep(v)
  <2>1. CASE work' = [work EXCEPT ![w].phase = "marking"]
    BY <1>0, <2>1 DEF WorkStep, Works
  <2>2. CASE EndJob(w)
    <3>1. work[w].job \in Jobs
      BY <1>3, SchedulerAssumption DEF CheckUnclaimed, Core, WorkersHoldTokens
    <3> QED
      BY <1>2, <2>2, <3>1
  <2> QED
    BY <1>3, <2>1, <2>2 DEF CheckUnclaimed
<1>4. ASSUME NEW w \in Workers, MarkRun(w) PROVE WorkStep(v)
  BY <1>2, <1>4 DEF MarkRun, Core, WorkersHoldTokens
<1>5. ASSUME NEW w \in Workers, MarkUnclaimed(w) PROVE WorkStep(v)
  BY <1>2, <1>5, SchedulerAssumption DEF MarkUnclaimed, Core, WorkersHoldTokens
<1>6. ASSUME NEW w \in Workers, Die(w) PROVE WorkStep(v)
  <2>1. work' = [work EXCEPT ![w] = NoWork]
    BY <1>6 DEF Die
  <2>2. NoWork.unread = {} /\ NoWork.since = 0 /\ \A j \in Jobs : NoWork.token[j] = None
    BY DEF NoWork, NoTokens
  <2> QED
    BY <1>0, <2>1, <2>2 DEF WorkStep
<1>7. ASSUME NEW w \in Workers, NEW j \in Jobs, ClaimToken(w, j) PROVE WorkStep(v)
  <2> DEFINE asked == [work[w] EXCEPT !.unread = @ \ {j}, !.token[j] = rows[j].token]
  <2>1. work' = [work EXCEPT ![w] = asked] /\ work[w].unread # {}
    BY <1>7 DEF ClaimToken
  <2>2. work[w] \in Works
    BY <1>0
  <2>3. asked.unread \subseteq work[w].unread /\ asked.since = work[w].since
    BY <2>2 DEF Works
  <2> HIDE DEF asked
  <2> QED
    BY <1>0, <2>1, <2>3 DEF WorkStep
<1>8. ASSUME NEW w \in Workers, NEW j \in Jobs, StartJob(w, j) PROVE WorkStep(v)
  BY <1>0, <1>8 DEF StartJob, WorkStep, Works
<1>9. ASSUME NEW w \in Workers, NEW j \in Jobs, RunDue(w, j) PROVE WorkStep(v)
  <2> DEFINE plain == [NoWork EXCEPT !.phase = "plain", !.job = j, !.since = now]
  <2>1. work' = [work EXCEPT ![w] = plain]
    BY <1>9 DEF RunDue
  <2>2. plain.unread = {} /\ plain.since = now /\ \A i \in Jobs : plain.token[i] = None
    BY DEF NoWork, NoTokens
  <2> HIDE DEF plain
  <2> QED
    BY <1>0, <2>1, <2>2 DEF WorkStep
<1> QED
  BY <1>1, <1>3, <1>4, <1>5, <1>6, <1>7, <1>8, <1>9
  DEF Next, Add, Remove, RetryUnknown, Heartbeat, Tick, vars

(* Claims of a step other than claim_due come from claims that were there. *)
LEMMA ClaimsCarry ==
  ASSUME Core, [Next]_vars, ~ \E w \in Workers : ClaimDue(w)
  PROVE  /\ \A d \in claims' : \E c \in claims :
              /\ SameClaim(c, d)
              /\ ~ d.reconciled /\ RetryUnknown(c.job) => c.token # rows[c.job].token
         /\ \A c \in claims : \E d \in claims' : SameClaim(c, d)
<1>1. CASE \E j \in Jobs : RetryUnknown(j)
  <2>1. PICK j \in Jobs : RetryUnknown(j)
    BY <1>1
  <2>2. \A i \in Jobs : RetryUnknown(i) => i = j
    <3>1. rows \in [Jobs -> Rows]
      BY DEF Core, TypeOK
    <3>2. ASSUME NEW i \in Jobs, RetryUnknown(i), i # j PROVE FALSE
      <4>1. rows[i].token # None /\ rows' = [rows EXCEPT ![i].token = None, ![i].until = None]
        BY <3>2 DEF RetryUnknown
      <4>2. rows' = [rows EXCEPT ![j].token = None, ![j].until = None]
        BY <2>1 DEF RetryUnknown
      <4>3. rows'[i].token = None
        BY <3>1, <4>1 DEF Rows
      <4>4. rows'[i] = rows[i]
        BY <3>1, <3>2, <4>2
      <4> QED
        BY <4>1, <4>3, <4>4
    <3> QED
      BY <3>2
  <2>3. \A c \in claims : c.job \in Jobs
    BY Numbers DEF Core
  <2>4. /\ \A d \in claims' : \E c \in claims :
              /\ SameClaim(c, d)
              /\ ~ d.reconciled => ~ (c.job = j /\ c.token = rows[j].token)
        /\ \A c \in claims : \E d \in claims' : SameClaim(c, d)
    BY <2>1, RetryFrame
  <2> HIDE DEF RetryUnknown
  <2>5. ASSUME NEW d \in claims'
        PROVE  \E c \in claims :
                 /\ SameClaim(c, d)
                 /\ ~ d.reconciled /\ RetryUnknown(c.job) => c.token # rows[c.job].token
    <3>1. PICK c \in claims : /\ SameClaim(c, d)
                              /\ ~ d.reconciled => ~ (c.job = j /\ c.token = rows[j].token)
      BY <2>4
    <3>2. RetryUnknown(c.job) => c.job = j
      BY <2>2, <2>3
    <3> QED
      BY <3>1, <3>2
  <2> QED
    BY <2>4, <2>5
<1>2. CASE ~ \E j \in Jobs : RetryUnknown(j)
  <2>1. UNCHANGED claims
    BY <1>2, ClaimsFrame
  <2>2. \A c \in claims : c.job \in Jobs
    BY Numbers DEF Core
  <2> QED
    BY <1>2, <2>1, <2>2 DEF SameClaim
<1> QED
  BY <1>1, <1>2

LEMMA HeldNext == Core /\ HeldClaims /\ [Next]_vars => HeldClaims'
<1> SUFFICES ASSUME Core, HeldClaims, [Next]_vars,
                    NEW j \in Jobs \ Plain, rows'[j].token # None
             PROVE  \E c \in claims' :
                      /\ c.job = j /\ c.token = rows'[j].token
                      /\ rows'[j].last # None => rows'[j].last < c.slot
  BY DEF HeldClaims
<1>0. rows \in [Jobs -> Rows]
  BY DEF Core, TypeOK
<1>1. CASE \E w \in Workers : ClaimDue(w)
  <2>1. PICK w \in Workers : ClaimDue(w)
    BY <1>1
  <2>2. PICK token \in [Claimable -> Tokens] : ClaimedWith(w, token)
    BY <2>1, ClaimFrame DEF Core
  <2>3. CASE j \in Claimable
    <3>1. rows'[j] = [rows[j] EXCEPT !.until = now + Lease, !.token = token[j]]
      BY <2>2, <2>3 DEF ClaimedWith
    <3>2. rows'[j].token = token[j] /\ rows'[j].last = rows[j].last
      BY <1>0, <3>1 DEF Rows
    <3>3. rows[j].last # None => rows[j].last < Slot(j)
      BY <2>2, <2>3 DEF ClaimedWith
    <3>4. PICK d \in claims' : d.job = j /\ d.token = token[j] /\ d.slot = Slot(j)
      BY <2>2, <2>3, FreshFrame
    <3> QED
      BY <3>2, <3>3, <3>4
  <2>4. CASE j \notin Claimable
    <3>1. rows'[j] = rows[j] /\ claims \subseteq claims'
      BY <2>2, <2>4, FreshFrame DEF ClaimedWith
    <3> QED
      BY <3>1 DEF HeldClaims
  <2> QED
    BY <2>3, <2>4
<1>2. CASE ~ \E w \in Workers : ClaimDue(w)
  <2>1. rows'[j].last = rows[j].last /\ rows'[j].token = rows[j].token
    BY <1>2, RowsFrame DEF RowStep
  <2>2. PICK c \in claims : /\ c.job = j /\ c.token = rows[j].token
                            /\ rows[j].last # None => rows[j].last < c.slot
    BY <2>1 DEF HeldClaims
  <2>3. PICK d \in claims' : d.job = c.job /\ d.token = c.token /\ d.slot = c.slot
    BY <1>2, ClaimsCarry DEF SameClaim
  <2>4. rows'[j].last # None => rows'[j].last < d.slot
    BY <2>1, <2>2, <2>3
  <2> QED
    BY <2>1, <2>2, <2>3, <2>4
<1> QED
  BY <1>1, <1>2

LEMMA ReportsNext == Core /\ ReportsAreLate /\ [Next]_vars => ReportsAreLate'
<1> SUFFICES ASSUME Core, ReportsAreLate, [Next]_vars PROVE ReportsAreLate'
  OBVIOUS
<1>0. /\ now \in Nat /\ minted \in Nat
      /\ \A v \in Workers : work[v] \in Works /\ work[v].since \in Nat
      /\ \A v \in Workers, j \in Jobs : work[v].token[j] # None => work[v].token[j] \in Nat
      /\ \A c \in claims : c.job \in Jobs /\ c.token \in Nat /\ c.slot \in Nat
  BY Numbers DEF Core
<1>1. /\ \A c \in claims : c.slot <= now
      /\ \A v \in Workers, j \in Jobs : work[v].token[j] # None => work[v].token[j] <= minted
  BY DEF Core, TokensAreMinted
<1>2. \A n \in Nat : n # None
  BY SchedulerAssumption
<1>3. CASE \E w \in Workers : ClaimDue(w)
  <2>1. PICK w \in Workers : ClaimDue(w)
    BY <1>3
  <2>2. PICK token \in [Claimable -> Tokens] : ClaimedWith(w, token)
    BY <2>1, ClaimFrame DEF Core
  <2>3. /\ work'[w].unread = Claimable /\ work'[w].since = now
        /\ \A j \in Jobs : work'[w].token[j] = None
        /\ \A v \in Workers \ {w} : work'[v] = work[v]
        /\ now' = now
    BY <2>2 DEF ClaimedWith, NoWork, NoTokens, Core, TypeOK
  <2>4. \A d \in claims' : d \in claims \/ (d.job \in Jobs /\ d.token \in Nat /\ minted < d.token)
    BY <2>2, FreshFrame DEF Claimable
  <2>5. \A v \in Workers : \A d \in claims' :
          work'[v].token[d.job] = d.token => v # w /\ d \in claims /\ work[v].token[d.job] = d.token
    <3> SUFFICES ASSUME NEW v \in Workers, NEW d \in claims', work'[v].token[d.job] = d.token
                 PROVE  v # w /\ d \in claims /\ work[v].token[d.job] = d.token
      OBVIOUS
    <3>1. d.job \in Jobs /\ d.token \in Nat /\ d.token # None
      BY <1>0, <1>2, <2>4
    <3>2. v # w /\ work'[v] = work[v]
      BY <2>3, <3>1
    <3>3. work[v].token[d.job] \in Nat /\ work[v].token[d.job] <= minted
      BY <1>0, <1>1, <3>1, <3>2
    <3> QED
      BY <1>0, <2>4, <3>2, <3>3
  <2> QED
    BY <1>0, <2>3, <2>5 DEF ReportsAreLate
<1>4. CASE ~ \E w \in Workers : ClaimDue(w)
  <2>1. \A v \in Workers : WorkStep(v)
    BY <1>4, WorkFrame
  <2>2. now' = now \/ (now' = now + 1 /\ work' = work /\ claims' = claims
                        /\ (Prompt => \A v \in Workers : work[v].unread = {}))
    BY <1>4 DEF Next, Add, Remove, RetryUnknown, MarkRun, CheckUnclaimed, MarkUnclaimed, Die,
                ClaimToken, StartJob, Heartbeat, RunDue, Tick, vars
  <2>3. CASE now' = now
    <3>1. \A v \in Workers : work'[v].since <= now'
      BY <1>0, <2>1, <2>3 DEF WorkStep, ReportsAreLate
    <3>2. \A d \in claims' : \E c \in claims : d.job = c.job /\ d.token = c.token /\ d.slot = c.slot
      BY <1>4, ClaimsCarry DEF SameClaim
    <3>3. ASSUME Prompt, NEW v \in Workers
          PROVE  /\ work'[v].unread # {} => work'[v].since = now'
                 /\ \A d \in claims' : work'[v].token[d.job] = d.token => d.slot <= work'[v].since
      <4>1. CASE /\ work'[v].unread = {} /\ \A j \in Jobs : work'[v].token[j] = None
        BY <1>0, <1>2, <3>2, <4>1
      <4>2. CASE /\ work'[v].unread \subseteq work[v].unread /\ work'[v].since = work[v].since
                 /\ \A j \in Jobs : \/ work'[v].token[j] \in {work[v].token[j], None}
                                    \/ work[v].unread # {}
        <5>1. work[v].unread # {} => work[v].since = now
          BY <3>3 DEF ReportsAreLate
        <5>2. ASSUME NEW d \in claims', work'[v].token[d.job] = d.token
              PROVE  d.slot <= work'[v].since
          <6>1. PICK c \in claims : d.job = c.job /\ d.token = c.token /\ d.slot = c.slot
            BY <3>2
          <6>2. CASE work[v].unread # {}
            BY <1>1, <4>2, <5>1, <6>1, <6>2
          <6>3. CASE work'[v].token[c.job] = work[v].token[c.job]
            BY <3>3, <4>2, <5>2, <6>1, <6>3 DEF ReportsAreLate
          <6>4. work'[v].token[c.job] # None
            BY <1>0, <1>2, <5>2, <6>1
          <6> QED
            BY <1>0, <4>2, <6>1, <6>2, <6>3, <6>4
        <5> QED
          BY <2>3, <4>2, <5>1, <5>2
      <4> QED
        BY <2>1, <4>1, <4>2 DEF WorkStep
    <3> QED
      BY <3>1, <3>3 DEF ReportsAreLate
  <2>4. CASE now' = now + 1 /\ work' = work /\ claims' = claims
              /\ (Prompt => \A v \in Workers : work[v].unread = {})
    BY <1>0, <2>4 DEF ReportsAreLate
  <2> QED
    BY <2>2, <2>3, <2>4
<1> QED
  BY <1>3, <1>4

(* A completion reports a time after every fire that its token stands for. *)
LEMMA CompletionsAreLate ==
  ASSUME Core, HeldClaims, ReportsAreLate, Prompt,
         NEW w \in Workers, NEW j \in Jobs \ Plain, work[w].token[j] # None,
         rows[j].token = work[w].token[j], NEW ranAt \in work[w].since .. now
  PROVE  /\ ranAt \in Nat
         /\ \A c \in claims : c.job = j /\ c.token = rows[j].token => c.slot <= ranAt
         /\ rows[j].last # None => rows[j].last < ranAt
<1>1. /\ now \in Nat /\ work[w].since \in Nat
      /\ rows[j].last # None => rows[j].last \in Nat
      /\ \A c \in claims : c.slot \in Nat
  BY Numbers DEF Core
<1>2. ranAt \in Nat /\ work[w].since <= ranAt
  BY <1>1
<1>3. \A c \in claims : c.job = j /\ c.token = rows[j].token => c.slot <= work[w].since
  BY DEF ReportsAreLate
<1>4. PICK e \in claims : /\ e.job = j /\ e.token = rows[j].token
                          /\ rows[j].last # None => rows[j].last < e.slot
  BY DEF HeldClaims
<1>5. e.slot <= work[w].since /\ e.slot \in Nat
  BY <1>1, <1>3, <1>4
<1>6. rows[j].last # None => rows[j].last < ranAt
  BY <1>1, <1>2, <1>4, <1>5
<1>7. \A c \in claims : c.job = j /\ c.token = rows[j].token => c.slot <= ranAt
  BY <1>1, <1>2, <1>3
<1> QED
  BY <1>2, <1>6, <1>7

LEMMA SettleNext ==
  Core /\ HeldClaims /\ ReportsAreLate /\ ClaimsSettle /\ [Next]_vars => ClaimsSettle'
<1> SUFFICES ASSUME Core, HeldClaims, ReportsAreLate, ClaimsSettle, [Next]_vars, Prompt,
                    NEW d \in claims', d.job \notin Plain, ~ d.reconciled
             PROVE  Settled(d)'
  BY DEF ClaimsSettle
<1>0. /\ rows \in [Jobs -> Rows]
      /\ \A j \in Jobs : /\ rows[j].last # None => rows[j].last \in Nat
                         /\ rows[j].token # None => rows[j].token \in Nat
      /\ \A c \in claims : c.job \in Jobs /\ c.token \in Nat /\ c.slot \in Nat
  BY Numbers DEF Core, TypeOK
<1>1. \A n \in Nat : n # None
  BY SchedulerAssumption
<1>2. CASE \E w \in Workers : ClaimDue(w)
  <2>1. PICK w \in Workers : ClaimDue(w)
    BY <1>2
  <2>2. PICK token \in [Claimable -> Tokens] : ClaimedWith(w, token)
    BY <2>1, ClaimFrame DEF Core
  <2>3. CASE d \in claims
    <3>1. Settled(d) /\ d.job \in Jobs /\ d.token # None
      BY <1>0, <1>1, <2>3 DEF ClaimsSettle
    <3>2. rows'[d.job].last = rows[d.job].last /\ rows'[d.job].status = rows[d.job].status
      BY <1>0, <2>2, <3>1 DEF ClaimedWith, Rows
    <3>3. d.job \in Claimable => rows[d.job].token = None
      BY DEF Claimable
    <3>4. d.job \notin Claimable => rows'[d.job].token = rows[d.job].token
      BY <2>2, <3>1 DEF ClaimedWith
    <3> QED
      BY <3>1, <3>2, <3>3, <3>4 DEF Settled
  <2>4. CASE d \notin claims
    <3>1. d.job \in Claimable /\ d.token = token[d.job] /\ d.job \in Jobs
      BY <2>2, <2>4, FreshFrame DEF Claimable
    <3>2. rows'[d.job].token = d.token
      BY <1>0, <2>2, <3>1 DEF ClaimedWith, Rows
    <3> QED
      BY <3>2 DEF Settled
  <2> QED
    BY <2>3, <2>4
<1>3. CASE ~ \E w \in Workers : ClaimDue(w)
  <2>1. PICK c \in claims :
          SameClaim(c, d) /\ (~ d.reconciled /\ RetryUnknown(c.job) => c.token # rows[c.job].token)
    BY <1>3, ClaimsCarry
  <2>2. /\ d.job = c.job /\ d.token = c.token /\ d.slot = c.slot
        /\ c.job \in Jobs \ Plain /\ c.token # None /\ ~ c.reconciled
    BY <1>0, <1>1, <2>1 DEF SameClaim
  <2> DEFINE j == c.job
  <2>3. Settled(c)
    BY <2>2 DEF ClaimsSettle
  <2>4. RowStep(j)
    BY <1>3, <2>2, RowsFrame
  <2>5. CASE rows[j].status = "removed"
    BY <2>2, <2>4, <2>5 DEF RowStep, Settled
  <2>6. CASE rows'[j].last = rows[j].last /\ rows'[j].token = rows[j].token
    BY <2>2, <2>3, <2>5, <2>6 DEF Settled
  <2>7. CASE RetryUnknown(j) /\ rows'[j].last = rows[j].last
    <3>1. rows[j].token # c.token
      BY <2>1, <2>7
    <3> QED
      BY <2>2, <2>3, <2>5, <2>7, <3>1 DEF Settled
  <2>8. CASE rows'[j].status = "removed"
    BY <2>2, <2>8 DEF Settled
  <2>9. ASSUME NEW w \in Workers, work[w].phase = "running", work[w].job = j,
               rows[j].token = work[w].token[j], rows'[j].last \in work[w].since .. now
        PROVE  Settled(d)'
    <3>1. work[w].token[j] # None
      BY <2>9 DEF Core, WorkersHoldTokens
    <3>2. /\ rows'[j].last \in Nat
          /\ c.token = rows[j].token => c.slot <= rows'[j].last
          /\ rows[j].last # None => rows[j].last < rows'[j].last
      BY <2>2, <2>9, <3>1, CompletionsAreLate
    <3>3. CASE rows[j].last # None /\ c.slot <= rows[j].last
      <4>1. c.slot <= rows'[j].last
        BY <1>0, <2>2, <3>2, <3>3
      <4> QED
        BY <1>1, <2>2, <3>2, <4>1 DEF Settled
    <3>4. CASE rows[j].token = c.token
      BY <1>1, <2>2, <3>2, <3>4 DEF Settled
    <3> QED
      BY <2>3, <2>5, <3>3, <3>4 DEF Settled
  <2> QED
    BY <2>2, <2>4, <2>6, <2>7, <2>8, <2>9 DEF RowStep
<1> QED
  BY <1>2, <1>3

LEMMA OnceNext ==
  Core /\ ClaimsSettle /\ FiresAreClaimedOnce /\ [Next]_vars => FiresAreClaimedOnce'
<1> SUFFICES ASSUME Core, ClaimsSettle, SlotsAreClaimedOnce, [Next]_vars, Prompt,
                    NEW c \in claims', NEW d \in claims',
                    c.job = d.job, c.job \notin Plain, c.slot = d.slot, c.token < d.token
             PROVE  c.reconciled
  BY DEF FiresAreClaimedOnce, SlotsAreClaimedOnce
<1>0. /\ minted \in Nat
      /\ \A j \in Jobs : rows[j].last # None => rows[j].last \in Nat
      /\ \A e \in claims : e.job \in Jobs /\ e.token \in Nat /\ e.slot \in Nat
  BY Numbers DEF Core
<1>1. \A n \in Nat : n # None
  BY SchedulerAssumption
<1>2. CASE \E w \in Workers : ClaimDue(w)
  <2>1. PICK w \in Workers : ClaimDue(w)
    BY <1>2
  <2>2. PICK token \in [Claimable -> Tokens] : ClaimedWith(w, token)
    BY <2>1, ClaimFrame DEF Core
  <2>3. \A e \in claims' \ claims : /\ e.job \in Claimable /\ e.slot = Slot(e.job)
                                    /\ e.token \in Nat /\ minted < e.token
    BY <2>2, FreshFrame
  <2>4. \A e \in claims : e.token <= minted
    BY DEF Core, TokensAreMinted
  <2>5. CASE c \in claims /\ d \in claims
    BY <2>5 DEF SlotsAreClaimedOnce
  <2>6. CASE c \notin claims /\ d \in claims
    BY <1>0, <2>3, <2>4, <2>6
  <2>7. CASE c \notin claims /\ d \notin claims
    <3>1. c = d
      BY <2>2, <2>7, FreshFrame
    <3> QED
      BY <2>3, <2>7, <3>1
  <2>8. CASE c \in claims /\ d \notin claims
    <3> SUFFICES ASSUME ~ c.reconciled PROVE FALSE
      OBVIOUS
    <3>1. c.job \in Claimable /\ c.job \in Jobs /\ c.slot = Slot(c.job)
      BY <2>3, <2>8 DEF Claimable
    <3>2. /\ rows[c.job].status = "present" /\ rows[c.job].token = None
          /\ rows[c.job].last # None => rows[c.job].last < Slot(c.job)
      BY <2>2, <3>1 DEF ClaimedWith
    <3>3. Settled(c)
      BY <2>8 DEF ClaimsSettle
    <3>4. c.token # None
      BY <1>0, <1>1, <2>8
    <3>5. rows[c.job].last # None /\ c.slot <= rows[c.job].last
      BY <3>2, <3>3, <3>4 DEF Settled
    <3> QED
      BY <1>0, <2>8, <3>1, <3>2, <3>5
  <2> QED
    BY <2>5, <2>6, <2>7, <2>8
<1>3. CASE ~ \E w \in Workers : ClaimDue(w)
  <2>1. PICK c0 \in claims : SameClaim(c0, c)
    BY <1>3, ClaimsCarry
  <2>2. PICK d0 \in claims : SameClaim(d0, d)
    BY <1>3, ClaimsCarry
  <2>3. c0.reconciled
    BY <2>1, <2>2 DEF SameClaim, SlotsAreClaimedOnce
  <2> QED
    BY <2>1, <2>3 DEF SameClaim
<1> QED
  BY <1>2, <1>3

LEMMA JInvInit == Init => JInv
<1> SUFFICES ASSUME Init PROVE JInv
  OBVIOUS
<1>1. Core
  BY CoreInit
<1>2. /\ claims = {} /\ now = 0
      /\ \A j \in Jobs : rows[j].token = None
      /\ \A w \in Workers : work[w].since = 0 /\ work[w].unread = {}
  BY DEF Init, NoRow, NoWork
<1> QED
  BY <1>1, <1>2 DEF JInv, HeldClaims, ReportsAreLate, ClaimsSettle, FiresAreClaimedOnce,
                    SlotsAreClaimedOnce

LEMMA JInvNext == JInv /\ [Next]_vars => JInv'
  BY CoreNext, HeldNext, ReportsNext, SettleNext, OnceNext DEF JInv

LEMMA JInvAlways == Spec => []JInv
<1>1. Init => JInv
  BY JInvInit
<1>2. JInv /\ [Next]_vars => JInv'
  BY JInvNext
<1> QED
  BY <1>1, <1>2, PTL DEF Spec

-----------------------------------------------------------------------------
(* The theorems.                                                           *)

(* The table and the workers are always well typed, and a row has a lease  *)
(* exactly when it has a claim token.                                      *)
THEOREM TypeCorrect == Spec => []TypeOK
<1>1. JInv => TypeOK
  BY DEF JInv, Core
<1> QED
  BY <1>1, JInvAlways, PTL

(* A claim is never taken over, whether or not workers are prompt: a token *)
(* leaves its row only by its completion, by retry_unknown on an expired   *)
(* lease, or with the job, and claim_due never puts another in its place.  *)
THEOREM ClaimsStay == Spec => ClaimsAreNotStolen
<1> DEFINE Kept == \A j \in Jobs : rows[j].token # None /\ rows'[j].token # rows[j].token =>
                     /\ rows'[j].token = None
                     /\ \/ rows'[j].status = "removed"
                        \/ rows[j].until <= now
                        \/ \E w \in Workers : work[w].job = j /\ work[w].token[j] = rows[j].token
                                               /\ work'[w].phase = "idle"
<1>1. JInv /\ [Next]_vars => [Kept]_vars
  <2> SUFFICES ASSUME Core, [Next]_vars,
                      NEW j \in Jobs, rows[j].token # None, rows'[j].token # rows[j].token
               PROVE  /\ rows'[j].token = None
                      /\ \/ rows'[j].status = "removed"
                         \/ rows[j].until <= now
                         \/ \E w \in Workers : work[w].job = j /\ work[w].token[j] = rows[j].token
                                                /\ work'[w].phase = "idle"
    BY DEF JInv
  <2>1. ~ \E w \in Workers : ClaimDue(w)
    <3> SUFFICES ASSUME NEW w \in Workers, ClaimDue(w) PROVE FALSE
      OBVIOUS
    <3>1. PICK token \in [Claimable -> Tokens] : ClaimedWith(w, token)
      BY ClaimFrame DEF Core
    <3>2. j \notin Claimable
      BY DEF Claimable
    <3> QED
      BY <3>1, <3>2 DEF ClaimedWith
  <2>2. RowStep(j)
    BY <2>1, RowsFrame
  <2> QED
    BY <2>2 DEF RowStep, RetryUnknown
<1>2. Spec => [][Kept]_vars
  BY <1>1, JInvAlways, PTL DEF Spec
<1> QED
  BY <1>2 DEF ClaimsAreNotStolen

(* If workers ask for their tokens before time passes, one fire of one job *)
(* is claimed twice only after the host has given the first claim up:      *)
(* neither a crash, nor an expired lease, nor a late completion, nor       *)
(* another worker leads to a second run of it.                             *)
THEOREM PromptFiresAreClaimedOnce == Prompt => (Spec => []SlotsAreClaimedOnce)
<1>1. CASE Prompt
  <2>1. JInv => SlotsAreClaimedOnce
    BY <1>1 DEF JInv, FiresAreClaimedOnce
  <2> QED
    BY <2>1, JInvAlways, PTL
<1> QED
  BY <1>1

(* If workers ask for their tokens before time passes, last_run of a job   *)
(* that is only run under claims never goes back and is never cleared.     *)
THEOREM PromptRunsAdvance == Prompt => (Spec => LastRunAdvances)
<1>1. CASE Prompt
  <2> DEFINE Advances == \A j \in Jobs \ Plain :
               rows[j].last # None /\ rows'[j].status = "present" =>
                 rows'[j].last # None /\ rows[j].last <= rows'[j].last
  <2>1. JInv /\ [Next]_vars => [Advances]_vars
    <3> SUFFICES ASSUME JInv, [Next]_vars,
                        NEW j \in Jobs \ Plain, rows[j].last # None, rows'[j].status = "present"
                 PROVE  rows'[j].last # None /\ rows[j].last <= rows'[j].last
      OBVIOUS
    <3> USE DEF JInv
    <3>1. rows \in [Jobs -> Rows] /\ rows[j].last \in Nat /\ \A n \in Nat : n # None
      BY Numbers, SchedulerAssumption DEF Core, TypeOK
    <3>2. CASE rows'[j].last = rows[j].last
      BY <3>1, <3>2
    <3>3. CASE \E w \in Workers : ClaimDue(w)
      <4>1. PICK w \in Workers : ClaimDue(w)
        BY <3>3
      <4>2. PICK token \in [Claimable -> Tokens] : ClaimedWith(w, token)
        BY <4>1, ClaimFrame DEF Core
      <4>3. rows'[j].last = rows[j].last
        BY <3>1, <4>2 DEF ClaimedWith, Rows
      <4> QED
        BY <3>2, <4>3
    <3>4. CASE ~ \E w \in Workers : ClaimDue(w)
      <4>1. RowStep(j)
        BY <3>4, RowsFrame
      <4>2. ASSUME NEW w \in Workers, work[w].phase = "running", work[w].job = j,
                   rows[j].token = work[w].token[j], rows'[j].last \in work[w].since .. now
            PROVE  rows'[j].last # None /\ rows[j].last <= rows'[j].last
        <5>1. work[w].token[j] # None
          BY <4>2 DEF Core, WorkersHoldTokens
        <5>2. rows'[j].last \in Nat /\ rows[j].last < rows'[j].last
          BY <1>1, <4>2, <5>1, CompletionsAreLate
        <5> QED
          BY <3>1, <5>2
      <4> QED
        BY <3>2, <4>1, <4>2 DEF RowStep
    <3> QED
      BY <3>3, <3>4
  <2>2. Spec => [][Advances]_vars
    BY <2>1, JInvAlways, PTL DEF Spec
  <2> QED
    BY <2>2 DEF LastRunAdvances
<1> QED
  BY <1>1
=============================================================================
