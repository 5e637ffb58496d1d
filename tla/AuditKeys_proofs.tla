-------------------------- MODULE AuditKeys_proofs --------------------------
(***************************************************************************)
(* Theorems about AuditKeys, for any number of processes and keys and with *)
(* or without a legacy document: keys that were handed out stay            *)
(* resolvable, lookups find them, and a rotation does not go on with the   *)
(* key it was to replace.                                                  *)
(***************************************************************************)
EXTENDS AuditKeys, TLAPS

(* What a call relies on at each point.                                    *)
Making(p) == work[p].pc = "write" /\ work[p].op # "migrate" =>
  /\ work[p].fresh \in split \cup work[p].todo
  /\ work[p].fresh # None

Migrating(p) == work[p].pc = "write" /\ work[p].op = "migrate" =>
  /\ LegacyKeys \subseteq split \cup work[p].todo
  /\ work[p].fresh \in LegacyKeys \cup {None}

Migrated(p) == work[p].pc = "delete" => LegacyKeys \subseteq split

LookingUp(p) ==
  /\ Looking(p) => Resolvable(work[p].key)
  /\ work[p].pc = "again" => work[p].key \in split

Calls == \A p \in Processes : Making(p) /\ Migrating(p) /\ Migrated(p) /\ LookingUp(p)

PointerResolves == pointer # None => Resolvable(pointer)

KInv == TypeOK /\ Calls /\ PointerResolves /\ HandedKeysResolve /\ LookupsFind

-----------------------------------------------------------------------------
LEMMA NoWorkTyped == NoWork \in Works /\ NoWork.pc = "idle" /\ NoWork.op = "none"
  BY DEF NoWork, Works

(* Drawing a key.                                                          *)
LEMMA DrawTyped ==
  ASSUME TypeOK, NEW p \in Processes, NEW op \in {"current", "rotate"}, NEW was \in Keys \cup {None},
         Draw(p, op, was)
  PROVE  /\ work' \in [Processes -> Works]
         /\ ~ Looking(p)'
         /\ drawn' \subseteq FreshKeys
         /\ work'[p].pc = "write" /\ work'[p].op = op /\ work'[p].was = was
         /\ work'[p].fresh \in FreshKeys \ drawn
         /\ drawn' = drawn \cup {work'[p].fresh}
         /\ work'[p].todo = {work'[p].fresh}
         /\ \A q \in Processes \ {p} : work'[q] = work[q]
<1>1. PICK k \in FreshKeys \ drawn :
        /\ drawn' = drawn \cup {k}
        /\ work' = [work EXCEPT ![p] =
             [op |-> op, pc |-> "write", todo |-> {k}, fresh |-> k, key |-> None, was |-> was]]
  BY DEF Draw
<1>2. [op |-> op, pc |-> "write", todo |-> {k}, fresh |-> k, key |-> None, was |-> was] \in Works
  BY DEF Works, Keys
<1>3. work' \in [Processes -> Works]
  BY <1>1, <1>2 DEF TypeOK
<1> QED
  BY <1>1, <1>3 DEF TypeOK, Looking

(* Starting a lookup.                                                      *)
LEMMA LookUpTyped ==
  ASSUME TypeOK, NEW p \in Processes, NEW op \in {"current", "resolve"}, NEW k \in Keys, LookUp(p, op, k)
  PROVE  /\ work' \in [Processes -> Works]
         /\ work'[p].pc = "split" /\ work'[p].op = op /\ work'[p].key = k /\ k # None
         /\ UNCHANGED drawn
         /\ \A q \in Processes \ {p} : work'[q] = work[q]
<1>1. [NoWork EXCEPT !.op = op, !.pc = "split", !.key = k] \in Works
  BY DEF Works, NoWork
<1>2. work' \in [Processes -> Works]
  BY <1>1 DEF TypeOK, LookUp
<1> QED
  BY <1>2, KeyAssumption DEF TypeOK, LookUp, NoWork, Keys

(* Ending a call.                                                          *)
LEMMA EndTyped ==
  ASSUME TypeOK, NEW p \in Processes, work' = [work EXCEPT ![p] = NoWork]
  PROVE  /\ work' \in [Processes -> Works]
         /\ work'[p] = NoWork
         /\ \A q \in Processes \ {p} : work'[q] = work[q]
  BY NoWorkTyped DEF TypeOK

(* The invariant of the keys.                                              *)
LEMMA KeysNext == KInv /\ [Next]_vars => KInv'
<1> SUFFICES ASSUME KInv, [Next]_vars PROVE KInv'
  OBVIOUS
<1> USE KeyAssumption DEF KInv, Calls, Making, Migrating, Migrated, LookingUp, Looking, PointerResolves,
                          Resolvable, HandedKeysResolve, LookupsFind
<1>0. \A p \in Processes : work[p] \in Works
  BY DEF TypeOK
<1>1. ASSUME NEW p \in Processes, Current(p) PROVE KInv'
  <2>1. CASE pointer = None
    <3> DEFINE call == [NoWork EXCEPT !.op = "current", !.pc = "legacy"]
    <3>1. call \in Works /\ call.pc = "legacy"
      BY DEF Works, NoWork
    <3>2. work' = [work EXCEPT ![p] = call] /\ UNCHANGED drawn
      BY <1>1, <2>1 DEF Current
    <3> HIDE DEF call
    <3>3. work' \in [Processes -> Works] /\ work'[p] = call /\ \A q \in Processes \ {p} : work'[q] = work[q]
      BY <3>1, <3>2 DEF TypeOK
    <3>4. TypeOK'
      BY <1>1, <3>1, <3>2, <3>3 DEF Current, TypeOK
    <3>5. Calls'
      BY <1>1, <3>1, <3>3 DEF Current
    <3> QED
      BY <1>1, <3>4, <3>5 DEF Current
  <2>2. CASE pointer # None
    <3>1. pointer \in Keys /\ LookUp(p, "current", pointer)
      BY <1>1, <2>2 DEF Current, TypeOK
    <3>2. TypeOK'
      BY <1>1, <3>1, LookUpTyped DEF Current, TypeOK
    <3>3. Calls'
      BY <1>1, <2>2, <3>1, LookUpTyped DEF Current
    <3> QED
      BY <1>1, <3>2, <3>3 DEF Current
  <2> QED
    BY <2>1, <2>2
<1>2. ASSUME NEW p \in Processes, Rotate(p) PROVE KInv'
  <2>1. CurrentKey \in Keys \cup {None} /\ Draw(p, "rotate", CurrentKey)
    BY <1>2 DEF Rotate, CurrentKey, TypeOK, Keys
  <2>2. TypeOK'
    BY <1>2, <2>1, DrawTyped DEF Rotate, TypeOK
  <2>3. Calls'
    BY <1>2, <2>1, DrawTyped DEF Rotate
  <2> QED
    BY <1>2, <2>2, <2>3 DEF Rotate
<1>3. ASSUME NEW p \in Processes, Resolve(p) PROVE KInv'
  <2>1. PICK k \in handed : LookUp(p, "resolve", k)
    BY <1>3 DEF Resolve
  <2>2. k \in Keys
    BY DEF TypeOK
  <2>3. TypeOK'
    BY <1>3, <2>1, <2>2, LookUpTyped DEF Resolve, TypeOK
  <2>4. Calls'
    BY <1>3, <2>1, <2>2, LookUpTyped DEF Resolve
  <2> QED
    BY <1>3, <2>3, <2>4 DEF Resolve
<1>4. ASSUME NEW p \in Processes, ReadLegacy(p) PROVE KInv'
  <2>1. CASE doc = Gone
    <3>1. Draw(p, "current", None)
      BY <1>4, <2>1 DEF ReadLegacy
    <3>2. TypeOK'
      BY <1>4, <3>1, DrawTyped DEF ReadLegacy, TypeOK
    <3>3. Calls'
      BY <1>4, <3>1, DrawTyped DEF ReadLegacy
    <3> QED
      BY <1>4, <3>2, <3>3 DEF ReadLegacy
  <2>2. CASE doc # Gone
    <3> DEFINE call == [work[p] EXCEPT !.op = "migrate", !.pc = "write", !.todo = LegacyKeys, !.fresh = doc]
    <3>1. doc \in LegacyKeys \cup {None}
      BY <2>2 DEF TypeOK
    <3>2. call \in Works
      <4>1. [work[p] EXCEPT !.op = "migrate", !.pc = "write"] \in Works
        BY <1>0 DEF Works
      <4> DEFINE started == [work[p] EXCEPT !.op = "migrate", !.pc = "write"]
      <4>2. call = [started EXCEPT !.todo = LegacyKeys, !.fresh = doc]
        OBVIOUS
      <4> HIDE DEF call, started
      <4> QED
        BY <3>1, <4>1, <4>2 DEF Works, Keys, started
    <3>3. call.op = "migrate" /\ call.pc = "write" /\ call.todo = LegacyKeys /\ call.fresh = doc
      BY <1>0 DEF Works
    <3>4. work' = [work EXCEPT ![p] = call] /\ UNCHANGED drawn
      BY <1>4, <2>2 DEF ReadLegacy, Migrate
    <3> HIDE DEF call
    <3>5. work' \in [Processes -> Works] /\ work'[p] = call /\ \A q \in Processes \ {p} : work'[q] = work[q]
      BY <3>2, <3>4 DEF TypeOK
    <3>6. TypeOK'
      BY <1>4, <3>3, <3>4, <3>5 DEF ReadLegacy, TypeOK
    <3>7. Calls'
      BY <1>4, <3>1, <3>3, <3>5 DEF ReadLegacy
    <3> QED
      BY <1>4, <3>6, <3>7 DEF ReadLegacy
  <2> QED
    BY <2>1, <2>2
<1>5. ASSUME NEW p \in Processes, WriteKey(p) PROVE KInv'
  <2>1. PICK k \in work[p].todo : split' = split \cup {k} /\ work' = [work EXCEPT ![p].todo = @ \ {k}]
    BY <1>5 DEF WriteKey
  <2> DEFINE call == [work[p] EXCEPT !.todo = @ \ {k}]
  <2>2. call \in Works /\ k \in Keys
    BY <1>0 DEF Works
  <2>3. /\ call.op = work[p].op /\ call.pc = work[p].pc /\ call.todo = work[p].todo \ {k}
        /\ call.fresh = work[p].fresh /\ call.key = work[p].key
    BY <1>0 DEF Works
  <2>4. work' = [work EXCEPT ![p] = call]
    BY <2>1
  <2> HIDE DEF call
  <2>5. work' \in [Processes -> Works] /\ work'[p] = call /\ \A q \in Processes \ {p} : work'[q] = work[q]
    BY <2>2, <2>4 DEF TypeOK
  <2>6. TypeOK'
    BY <1>5, <2>1, <2>2, <2>3, <2>5 DEF WriteKey, TypeOK
  <2>7. Calls'
    BY <1>5, <2>1, <2>3, <2>5 DEF WriteKey
  <2> QED
    BY <1>5, <2>1, <2>6, <2>7 DEF WriteKey
<1>6. ASSUME NEW p \in Processes, WritePointer(p) PROVE KInv'
  <2> DEFINE call == [work[p] EXCEPT !.pc = AfterPointer(p)]
  <2>1. AfterPointer(p) = IF work[p].op = "migrate" THEN "delete" ELSE "converge"
    BY DEF AfterPointer
  <2>2. call \in Works /\ work[p].fresh \in Keys \cup {None}
    BY <1>0, <2>1 DEF Works
  <2>3. call.pc = AfterPointer(p)
    BY <1>0 DEF Works
  <2>4. work' = [work EXCEPT ![p] = call]
    BY <1>6 DEF WritePointer
  <2> HIDE DEF call
  <2>5. work' \in [Processes -> Works] /\ work'[p] = call /\ \A q \in Processes \ {p} : work'[q] = work[q]
    BY <2>2, <2>4 DEF TypeOK
  <2>6. TypeOK'
    BY <1>6, <2>1, <2>2, <2>3, <2>5 DEF WritePointer, TypeOK
  <2>7. Calls'
    BY <1>6, <2>1, <2>3, <2>5 DEF WritePointer
  <2>8. PointerResolves'
    BY <1>6 DEF WritePointer
  <2> QED
    BY <1>6, <2>6, <2>7, <2>8 DEF WritePointer
<1>7. ASSUME NEW p \in Processes, DeleteLegacy(p) PROVE KInv'
  <2>0. LegacyKeys \subseteq split /\ UNCHANGED <<split, pointer, handed, missed>> /\ doc' \in {doc, Gone}
    BY <1>7 DEF DeleteLegacy
  <2>1. CASE work[p].fresh = None
    <3>1. Draw(p, "current", None)
      BY <1>7, <2>1 DEF DeleteLegacy
    <3>2. TypeOK'
      BY <2>0, <3>1, DrawTyped DEF TypeOK
    <3>3. Calls'
      BY <2>0, <3>1, DrawTyped
    <3> QED
      BY <2>0, <3>2, <3>3
  <2>2. CASE work[p].fresh # None
    <3> DEFINE call == [work[p] EXCEPT !.op = "current", !.pc = "converge"]
    <3>1. call \in Works /\ call.pc = "converge"
      <4>1. work[p] \in Works
        BY <1>0
      <4>2. call.pc = "converge"
        BY <4>1 DEF Works
      <4> QED
        BY <4>1, <4>2 DEF Works
    <3>2. work' = [work EXCEPT ![p] = call] /\ UNCHANGED drawn
      BY <1>7, <2>2 DEF DeleteLegacy
    <3> HIDE DEF call
    <3>3. work' \in [Processes -> Works] /\ work'[p] = call /\ \A q \in Processes \ {p} : work'[q] = work[q]
      BY <3>1, <3>2 DEF TypeOK
    <3>4. TypeOK'
      BY <2>0, <3>1, <3>2, <3>3 DEF TypeOK
    <3>5. Calls'
      BY <2>0, <3>1, <3>3
    <3> QED
      BY <2>0, <3>4, <3>5
  <2> QED
    BY <2>1, <2>2
<1>8. ASSUME NEW p \in Processes, Converge(p) PROVE KInv'
  <2> DEFINE call == [work[p] EXCEPT !.pc = "split", !.key = pointer]
  <2>1. call \in Works /\ call.pc = "split" /\ call.key = pointer
    BY <1>0, <1>8 DEF Works, TypeOK
  <2>2. work' = [work EXCEPT ![p] = call]
    BY <1>8 DEF Converge
  <2> HIDE DEF call
  <2>3. work' \in [Processes -> Works] /\ work'[p] = call /\ \A q \in Processes \ {p} : work'[q] = work[q]
    BY <2>1, <2>2 DEF TypeOK
  <2>4. TypeOK'
    BY <1>8, <2>1, <2>3 DEF Converge, TypeOK
  <2>5. Calls'
    BY <1>8, <2>1, <2>3 DEF Converge
  <2> QED
    BY <1>8, <2>4, <2>5 DEF Converge
<1>9. ASSUME NEW p \in Processes, Looking(p), Found(p), UNCHANGED <<doc, split, pointer, drawn>>
      PROVE KInv'
  <2>1. work[p].key \in Keys
    BY <1>0, <1>9 DEF TypeOK, Works
  <2>2. TypeOK'
    BY <1>9, <2>1, EndTyped, NoWorkTyped DEF Found, TypeOK
  <2>3. Calls'
    BY <1>9, EndTyped, NoWorkTyped DEF Found
  <2> QED
    BY <1>9, <2>2, <2>3 DEF Found
<1>10. ASSUME NEW p \in Processes, NEW pc \in {"doc", "again"}, Looking(p), GoOn(p, pc),
              pc = "again" => work[p].key \in split, UNCHANGED <<doc, split, pointer, drawn>>
       PROVE KInv'
  <2> DEFINE call == [work[p] EXCEPT !.pc = pc]
  <2>1. call \in Works /\ call.pc = pc /\ call.key = work[p].key
    BY <1>0 DEF Works
  <2>2. work' = [work EXCEPT ![p] = call]
    BY <1>10 DEF GoOn
  <2> HIDE DEF call
  <2>3. work' \in [Processes -> Works] /\ work'[p] = call /\ \A q \in Processes \ {p} : work'[q] = work[q]
    BY <2>1, <2>2 DEF TypeOK
  <2>4. TypeOK'
    BY <1>10, <2>1, <2>3 DEF GoOn, TypeOK
  <2>5. Calls'
    BY <1>10, <2>1, <2>3 DEF GoOn
  <2> QED
    BY <1>10, <2>4, <2>5 DEF GoOn
<1>11. ASSUME NEW p \in Processes, ReadSplit(p) \/ ReadDoc(p) \/ ReadSplitAgain(p) PROVE KInv'
  BY <1>9, <1>10, <1>11 DEF ReadSplit, ReadDoc, ReadSplitAgain
<1>12. ASSUME NEW p \in Processes, Fail(p) PROVE KInv'
  <2>1. TypeOK'
    BY <1>12, EndTyped, NoWorkTyped DEF Fail, TypeOK
  <2>2. Calls'
    BY <1>12, EndTyped, NoWorkTyped DEF Fail
  <2> QED
    BY <1>12, <2>1, <2>2 DEF Fail
<1>13. ASSUME UNCHANGED vars PROVE KInv'
  BY <1>13 DEF vars, TypeOK
<1> QED
  BY <1>1, <1>2, <1>3, <1>4, <1>5, <1>6, <1>7, <1>8, <1>11, <1>12, <1>13 DEF Next

(* The invariant of the keys holds throughout.                             *)
LEMMA KeysAlways == Spec => []KInv
<1>1. Init => KInv
  <2> SUFFICES ASSUME Init PROVE KInv
    OBVIOUS
  <2> USE KeyAssumption, NoWorkTyped DEF Init
  <2>1. TypeOK
    BY DEF TypeOK, Looking, Keys
  <2>2. Calls
    BY DEF Calls, Making, Migrating, Migrated, LookingUp, Looking
  <2> QED
    BY <2>1, <2>2 DEF KInv, PointerResolves, HandedKeysResolve, LookupsFind, Resolvable
<1> QED
  BY <1>1, KeysNext, PTL DEF Spec

(* The state is well typed, in every instance.                             *)
THEOREM TypeCorrect == Spec => []TypeOK
<1>1. KInv => TypeOK
  BY DEF KInv
<1> QED
  BY <1>1, KeysAlways, PTL

(* Keys that were handed out stay resolvable, through any interleaving of  *)
(* creations, rotations, migrations and failures.                          *)
THEOREM HandedKeysStay == Spec => []HandedKeysResolve
<1>1. KInv => HandedKeysResolve
  BY DEF KInv
<1> QED
  BY <1>1, KeysAlways, PTL

(* No lookup of a handed or current key comes back empty, also when the    *)
(* key is moved out of the legacy document between its reads.              *)
THEOREM LookupsSucceed == Spec => []LookupsFind
<1>1. KInv => LookupsFind
  BY DEF KInv
<1> QED
  BY <1>1, KeysAlways, PTL

-----------------------------------------------------------------------------
(* A fresh key is written to the pointer once, by the call that drew it.   *)
Unwritten(p) == work[p].pc = "write" /\ work[p].fresh \in FreshKeys =>
  /\ work[p].fresh \in drawn /\ work[p].fresh # pointer
  /\ \A q \in Processes : work[q].pc = "write" /\ work[q].fresh = work[p].fresh => q = p

(* The key a rotation is to replace: its own writer is through.            *)
Replacing(p) == work[p].op = "rotate" /\ work[p].was \in FreshKeys =>
  /\ work[p].was \in drawn
  /\ \A q \in Processes : work[q].pc = "write" => work[q].fresh # work[p].was
  /\ work[p].pc \in {"write", "converge", "split", "doc", "again"}
  /\ work[p].pc = "converge" => pointer # work[p].was
  /\ Looking(p) => work[p].key # work[p].was

PointerDrawn == pointer \in drawn \cup LegacyKeys \cup {None}
LegacyFresh == \A p \in Processes :
  /\ work[p].op = "migrate" => work[p].pc \in {"write", "delete"} /\ work[p].fresh \in LegacyKeys \cup {None}
  /\ work[p].pc = "legacy" => work[p].op = "current"
  /\ work[p].pc = "delete" => work[p].op = "migrate"

RInv == PointerDrawn /\ LegacyFresh /\ \A p \in Processes : Unwritten(p) /\ Replacing(p)

(* A step of p leaves the calls of the others alone.                       *)
LEMMA OnlyOneMoves ==
  ASSUME TypeOK, NEW p \in Processes, NEW r, work' = [work EXCEPT ![p] = r]
  PROVE  work'[p] = r /\ \A q \in Processes \ {p} : work'[q] = work[q]
BY DEF TypeOK

(* Steps of p in which it neither starts to write nor moves the pointer.   *)
LEMMA QuietStep ==
  ASSUME RInv, UNCHANGED pointer, drawn \subseteq drawn', NEW p \in Processes,
         \A q \in Processes \ {p} : work'[q] = work[q],
         work'[p].pc = "write" => work[p].pc = "write" /\ work'[p].fresh = work[p].fresh,
         LegacyFresh', Replacing(p)'
  PROVE  RInv'
<1> USE DEF RInv
<1>1. PointerDrawn'
  BY DEF PointerDrawn
<1>2. ASSUME NEW q \in Processes PROVE Unwritten(q)'
  BY DEF Unwritten
<1>3. ASSUME NEW q \in Processes, q # p PROVE Replacing(q)'
  BY <1>3 DEF Replacing, Looking
<1> QED
  BY <1>1, <1>2, <1>3

(* A key is drawn.                                                         *)
LEMMA DrawStep ==
  ASSUME TypeOK, RInv, UNCHANGED pointer, NEW p \in Processes, NEW op \in {"current", "rotate"},
         NEW was \in Keys \cup {None}, Draw(p, op, was), was \in FreshKeys => was = pointer
  PROVE  RInv'
<1> USE KeyAssumption DEF RInv
<1> DEFINE k == work'[p].fresh
<1>1. /\ work'[p].pc = "write" /\ work'[p].op = op /\ work'[p].was = was
      /\ k \in FreshKeys \ drawn /\ drawn' = drawn \cup {k}
      /\ ~ Looking(p)'
      /\ \A q \in Processes \ {p} : work'[q] = work[q]
  BY DrawTyped
<1> HIDE DEF k
<1>2. PointerDrawn'
  BY <1>1 DEF PointerDrawn
<1>3. pointer # k
  BY <1>1 DEF PointerDrawn
<1>4. LegacyFresh'
  BY <1>1 DEF LegacyFresh
<1>5. \A q \in Processes \ {p} : work'[q].pc = "write" => work'[q].fresh # k
  BY <1>1 DEF Unwritten
<1>6. ASSUME NEW q \in Processes PROVE Unwritten(q)'
  BY <1>1, <1>3, <1>5 DEF Unwritten, k
<1>7. ASSUME NEW q \in Processes PROVE Replacing(q)'
  <2>1. CASE q = p
    <3>1. SUFFICES ASSUME was \in FreshKeys PROVE Replacing(p)'
      BY <1>1, <2>1 DEF Replacing
    <3>2. was = pointer /\ was \in drawn
      BY <3>1 DEF PointerDrawn
    <3>3. \A o \in Processes : work'[o].pc = "write" => work'[o].fresh # was
      BY <1>1, <1>3, <3>1, <3>2 DEF Unwritten, k
    <3> QED
      BY <1>1, <3>2, <3>3 DEF Replacing
  <2>2. CASE q # p
    BY <1>1, <2>2 DEF Replacing, Looking, k
  <2> QED
    BY <2>1, <2>2
<1> QED
  BY <1>2, <1>4, <1>6, <1>7

(* No step makes a rotation go on with the key it is to replace.           *)
LEMMA RotationNext ==
  ASSUME KInv, RInv, [Next]_vars
  PROVE  RInv'
<1> USE KeyAssumption DEF KInv
<1>0. TypeOK /\ \A p \in Processes : work[p] \in Works /\ Replacing(p)
  BY DEF TypeOK, RInv
<1>1. ASSUME NEW p \in Processes, NEW op \in {"current", "resolve"}, NEW k \in Keys,
             LookUp(p, op, k), UNCHANGED pointer
      PROVE RInv'
  <2>1. /\ work'[p].pc = "split" /\ work'[p].op = op /\ UNCHANGED drawn
        /\ \A q \in Processes \ {p} : work'[q] = work[q]
    BY <1>1, LookUpTyped
  <2>2. LegacyFresh' /\ Replacing(p)'
    BY <2>1 DEF RInv, LegacyFresh, Replacing
  <2> QED
    BY <1>1, <2>1, <2>2, QuietStep
<1>2. ASSUME NEW p \in Processes, Current(p) PROVE RInv'
  <2>1. CASE pointer = None
    <3> DEFINE call == [NoWork EXCEPT !.op = "current", !.pc = "legacy"]
    <3>1. call.pc = "legacy" /\ call.op = "current"
      BY DEF NoWork
    <3>2. work' = [work EXCEPT ![p] = call] /\ UNCHANGED <<pointer, drawn>>
      BY <1>2, <2>1 DEF Current
    <3> HIDE DEF call
    <3>3. work'[p] = call /\ \A q \in Processes \ {p} : work'[q] = work[q]
      BY <3>2, OnlyOneMoves
    <3>4. LegacyFresh' /\ Replacing(p)'
      BY <3>1, <3>3 DEF RInv, LegacyFresh, Replacing
    <3> QED
      BY <3>1, <3>2, <3>3, <3>4, QuietStep
  <2>2. CASE pointer # None
    BY <1>1, <1>2, <2>2 DEF Current, TypeOK
  <2> QED
    BY <2>1, <2>2
<1>3. ASSUME NEW p \in Processes, Rotate(p) PROVE RInv'
  <2>1. CurrentKey \in Keys \cup {None} /\ (CurrentKey \in FreshKeys => CurrentKey = pointer)
    BY DEF CurrentKey, TypeOK, Keys
  <2> QED
    BY <1>3, <2>1, DrawStep DEF Rotate
<1>4. ASSUME NEW p \in Processes, Resolve(p) PROVE RInv'
  BY <1>1, <1>4 DEF Resolve, TypeOK
<1>5. ASSUME NEW p \in Processes, ReadLegacy(p) PROVE RInv'
  <2>1. CASE doc = Gone
    BY <1>5, <2>1, DrawStep DEF ReadLegacy
  <2>2. CASE doc # Gone
    <3> DEFINE call == [work[p] EXCEPT !.op = "migrate", !.pc = "write", !.todo = LegacyKeys, !.fresh = doc]
    <3>1. call.op = "migrate" /\ call.pc = "write" /\ call.fresh = doc
      BY <1>0 DEF Works
    <3>2. work' = [work EXCEPT ![p] = call] /\ UNCHANGED <<pointer, drawn>>
      BY <1>5, <2>2 DEF ReadLegacy, Migrate
    <3>3. doc \in LegacyKeys \cup {None} /\ doc \notin FreshKeys
      BY <2>2 DEF TypeOK
    <3> HIDE DEF call
    <3>4. work'[p] = call /\ \A q \in Processes \ {p} : work'[q] = work[q]
      BY <3>2, OnlyOneMoves
    <3>5. PointerDrawn' /\ LegacyFresh'
      BY <3>1, <3>2, <3>3, <3>4 DEF RInv, LegacyFresh, PointerDrawn
    <3>6. ASSUME NEW q \in Processes PROVE Unwritten(q)'
      BY <3>1, <3>2, <3>3, <3>4 DEF RInv, Unwritten
    <3>7. ASSUME NEW q \in Processes PROVE Replacing(q)'
      BY <3>1, <3>2, <3>3, <3>4 DEF RInv, Replacing, Looking
    <3> QED
      BY <3>5, <3>6, <3>7 DEF RInv
  <2> QED
    BY <2>1, <2>2
<1>6. ASSUME NEW p \in Processes, WriteKey(p) PROVE RInv'
  <2>1. PICK k \in work[p].todo : work' = [work EXCEPT ![p].todo = @ \ {k}]
    BY <1>6 DEF WriteKey
  <2> DEFINE call == [work[p] EXCEPT !.todo = @ \ {k}]
  <2>2. /\ call.op = work[p].op /\ call.pc = work[p].pc /\ call.fresh = work[p].fresh
        /\ call.key = work[p].key /\ call.was = work[p].was
    BY <1>0 DEF Works
  <2>3. work' = [work EXCEPT ![p] = call] /\ UNCHANGED <<pointer, drawn>>
    BY <1>6, <2>1 DEF WriteKey
  <2> HIDE DEF call
  <2>4. work'[p] = call /\ \A q \in Processes \ {p} : work'[q] = work[q]
    BY <2>3, OnlyOneMoves
  <2>5. LegacyFresh' /\ Replacing(p)'
    BY <2>2, <2>3, <2>4 DEF RInv, LegacyFresh, Replacing, Looking
  <2> QED
    BY <2>2, <2>3, <2>4, <2>5, QuietStep
<1>7. ASSUME NEW p \in Processes, WritePointer(p) PROVE RInv'
  <2> DEFINE call == [work[p] EXCEPT !.pc = AfterPointer(p)]
  <2>1. /\ call.pc = IF work[p].op = "migrate" THEN "delete" ELSE "converge"
        /\ call.op = work[p].op /\ call.fresh = work[p].fresh
        /\ call.key = work[p].key /\ call.was = work[p].was
    BY <1>0 DEF Works, AfterPointer
  <2>2. work' = [work EXCEPT ![p] = call] /\ UNCHANGED drawn /\ work[p].pc = "write"
    BY <1>7 DEF WritePointer
  <2>3. pointer' = IF work[p].fresh = None THEN pointer ELSE work[p].fresh
    BY <1>7 DEF WritePointer
  <2> HIDE DEF call
  <2>4. work'[p] = call /\ \A q \in Processes \ {p} : work'[q] = work[q]
    BY <2>2, OnlyOneMoves
  <2>5. work[p].fresh \in drawn \cup LegacyKeys \cup {None}
    BY <1>0, <2>2 DEF RInv, Unwritten, Works, Keys
  <2>6. PointerDrawn' /\ LegacyFresh'
    BY <2>1, <2>2, <2>3, <2>4, <2>5 DEF RInv, LegacyFresh, PointerDrawn
  <2>7. ASSUME NEW q \in Processes PROVE Unwritten(q)'
    BY <2>1, <2>2, <2>3, <2>4 DEF RInv, Unwritten
  <2>8. ASSUME NEW q \in Processes PROVE Replacing(q)'
    <3>1. SUFFICES ASSUME work'[q].op = "rotate", work'[q].was \in FreshKeys PROVE Replacing(q)'
      BY DEF Replacing
    <3>2. work[q].op = "rotate" /\ work[q].was = work'[q].was /\ work[q].key = work'[q].key
      BY <2>1, <2>4, <3>1
    <3>3. work[p].fresh # work[q].was
      BY <2>2, <3>1, <3>2 DEF RInv, Replacing
    <3>4. work'[q].pc = "converge" => pointer' # work[q].was
      <4>1. CASE work[p].fresh # None
        BY <2>3, <3>3, <4>1
      <4>2. CASE work[p].fresh = None
        <5>1. work[p].op = "migrate"
          BY <2>2, <4>2 DEF Calls, Making
        <5> QED
          BY <2>1, <2>3, <2>4, <3>1, <3>2, <4>2, <5>1 DEF RInv, Replacing
      <4> QED
        BY <4>1, <4>2
    <3> QED
      BY <2>1, <2>2, <2>4, <3>1, <3>2, <3>4 DEF RInv, Replacing, Looking
  <2> QED
    BY <2>6, <2>7, <2>8 DEF RInv
<1>8. ASSUME NEW p \in Processes, DeleteLegacy(p) PROVE RInv'
  <2>1. CASE work[p].fresh = None
    BY <1>8, <2>1, DrawStep DEF DeleteLegacy
  <2>2. CASE work[p].fresh # None
    <3> DEFINE call == [work[p] EXCEPT !.op = "current", !.pc = "converge"]
    <3>1. call.op = "current" /\ call.pc = "converge"
      BY <1>0 DEF Works
    <3>2. work' = [work EXCEPT ![p] = call] /\ UNCHANGED <<pointer, drawn>>
      BY <1>8, <2>2 DEF DeleteLegacy
    <3> HIDE DEF call
    <3>3. work'[p] = call /\ \A q \in Processes \ {p} : work'[q] = work[q]
      BY <3>2, OnlyOneMoves
    <3>4. LegacyFresh' /\ Replacing(p)'
      BY <3>1, <3>3 DEF RInv, LegacyFresh, Replacing
    <3> QED
      BY <3>1, <3>2, <3>3, <3>4, QuietStep
  <2> QED
    BY <2>1, <2>2
<1>9. ASSUME NEW p \in Processes, Converge(p) PROVE RInv'
  <2> DEFINE call == [work[p] EXCEPT !.pc = "split", !.key = pointer]
  <2>1. /\ call.pc = "split" /\ call.key = pointer /\ call.op = work[p].op
        /\ call.was = work[p].was /\ call.fresh = work[p].fresh
    BY <1>0 DEF Works
  <2>2. work' = [work EXCEPT ![p] = call] /\ UNCHANGED <<pointer, drawn>> /\ work[p].pc = "converge"
    BY <1>9 DEF Converge
  <2> HIDE DEF call
  <2>3. work'[p] = call /\ \A q \in Processes \ {p} : work'[q] = work[q]
    BY <2>2, OnlyOneMoves
  <2>4. LegacyFresh' /\ Replacing(p)'
    BY <2>1, <2>2, <2>3 DEF RInv, LegacyFresh, Replacing, Looking
  <2> QED
    BY <2>1, <2>2, <2>3, <2>4, QuietStep
<1>10. ASSUME NEW p \in Processes, work' = [work EXCEPT ![p] = NoWork], UNCHANGED <<pointer, drawn>>
       PROVE RInv'
  <2>1. work'[p] = NoWork /\ \A q \in Processes \ {p} : work'[q] = work[q]
    BY <1>10, OnlyOneMoves
  <2>2. NoWork.op = "none" /\ NoWork.pc = "idle"
    BY DEF NoWork
  <2>3. LegacyFresh' /\ Replacing(p)'
    BY <2>1, <2>2 DEF RInv, LegacyFresh, Replacing
  <2> QED
    BY <1>10, <2>1, <2>2, <2>3, QuietStep
<1>11. ASSUME NEW p \in Processes, NEW pc \in {"doc", "again"}, Looking(p),
              GoOn(p, pc), UNCHANGED <<pointer, drawn>>
       PROVE RInv'
  <2> DEFINE call == [work[p] EXCEPT !.pc = pc]
  <2>1. /\ call.pc = pc /\ call.key = work[p].key /\ call.op = work[p].op
        /\ call.was = work[p].was /\ call.fresh = work[p].fresh
    BY <1>0 DEF Works
  <2>2. work' = [work EXCEPT ![p] = call]
    BY <1>11 DEF GoOn
  <2> HIDE DEF call
  <2>3. work'[p] = call /\ \A q \in Processes \ {p} : work'[q] = work[q]
    BY <2>2, OnlyOneMoves
  <2>4. LegacyFresh' /\ Replacing(p)'
    BY <1>11, <2>1, <2>2, <2>3 DEF RInv, LegacyFresh, Replacing, Looking
  <2> QED
    BY <1>11, <2>1, <2>2, <2>3, <2>4, QuietStep
<1>12. ASSUME NEW p \in Processes, ReadSplit(p) \/ ReadDoc(p) \/ ReadSplitAgain(p) PROVE RInv'
  BY <1>10, <1>11, <1>12 DEF ReadSplit, ReadDoc, ReadSplitAgain, Looking, Found, Miss
<1>13. ASSUME NEW p \in Processes, Fail(p) PROVE RInv'
  BY <1>10, <1>13 DEF Fail
<1>14. ASSUME UNCHANGED vars PROVE RInv'
  BY <1>14 DEF vars, RInv, PointerDrawn, LegacyFresh, Unwritten, Replacing, Looking
<1> QED
  BY <1>2, <1>3, <1>4, <1>5, <1>6, <1>7, <1>8, <1>9, <1>12, <1>13, <1>14 DEF Next

(* Whoever moves the pointer meanwhile, a rotation goes on with another    *)
(* key than the one it was called to retire, unless that one is a key of   *)
(* a legacy document.                                                      *)
THEOREM RotationsReplace == Spec => []RotationReplaces
<1>1. Init => RInv
  BY KeyAssumption, NoWorkTyped DEF Init, RInv, PointerDrawn, LegacyFresh, Unwritten, Replacing
<1>2. KInv /\ RInv /\ [Next]_vars => RInv'
  BY RotationNext
<1>3. KInv /\ RInv => RotationReplaces
  <2> SUFFICES ASSUME KInv, RInv, NEW p \in Processes, work[p].op = "rotate", Looking(p),
                      work[p].was \notin LegacyKeys
               PROVE work[p].key # work[p].was
    BY DEF RotationReplaces
  <2>1. work[p].was \in FreshKeys \cup {None} /\ work[p].key # None
    BY DEF KInv, TypeOK, Works, Keys
  <2> QED
    BY <2>1 DEF RInv, Replacing
<1> QED
  BY <1>1, <1>2, <1>3, KeysAlways, PTL DEF Spec
=============================================================================
