------------------------- MODULE Delegation_proofs --------------------------
(***************************************************************************)
(* Theorems about Delegation, for every tree of authorities.  Budgets hold *)
(* because the budgets of an authority are exactly the limited grants of   *)
(* its line of ancestors; authority only narrows because being narrower,   *)
(* read as "lets through no more", is transitive.                          *)
(***************************************************************************)
EXTENDS Delegation, FiniteSetTheorems, TLAPS

Made == 1 .. made

(* Every authority has its ancestors in its line, and carries the budgets  *)
(* of those that have one.                                                 *)
Tree == \A j \in Made :
  /\ auths[j].grant \in Grants
  /\ auths[j].line \subseteq Made /\ j \in auths[j].line
  /\ auths[j].budgets = {i \in auths[j].line : auths[i].grant.uses # None}

Named ==
  /\ IsFiniteSet(uses)
  /\ \A u \in uses : u.auth \in Made
  /\ \A t \in Threads : work[t].pc # "idle" => work[t].auth \in Made /\ work[t].token \in Tokens

Shape == TypeOK /\ Tree /\ Named

(* The grants of a host that has no budget of zero.                        *)
NoZeroBudgets == \A g \in Grants : g.uses # 0

(* A quota row counts at least the uses below its authority, and at most   *)
(* the budget.                                                             *)
Counted == \A i \in Made : auths[i].grant.uses # None =>
  /\ Cardinality(UsesBelow(i)) <= quota[i]
  /\ quota[i] <= auths[i].grant.uses
Unmade == \A i \in Ids \ Made : quota[i] = 0

(* Uses that counted against a budget are redeemed.                        *)
Remembered == \A u \in uses : auths[u.auth].budgets # {} => u.token \in redeemed

(* The grants of a host that constrains no argument to be None.            *)
NoNoneConstraints == \A g \in Grants : \A t \in g.tools, k \in Keys : g.must[t][k] # None

(* g lets through no more than p.                                          *)
Narrower(g, p) == \A a \in Actions, moment \in Nat : WithinGrant(g, a, moment) => WithinGrant(p, a, moment)

LinesNarrow == \A j \in Made : \A i \in auths[j].line : Narrower(auths[j].grant, auths[i].grant)

Checked ==
  /\ \A t \in Threads : work[t].pc # "idle" =>
       WithinGrant(auths[work[t].auth].grant, ActionOf[work[t].token], work[t].at)
  /\ \A u \in uses : WithinGrant(auths[u.auth].grant, ActionOf[u.token], u.at)

(* The actions that make an authority, with what they add.                 *)
Makes(g, ledger, budgets, line) ==
  \/ budgets = {} /\ line = {}
  \/ \E i \in alive : /\ IsStrictlyNarrowerThan(g, auths[i].grant)
                      /\ budgets = auths[i].budgets /\ line = auths[i].line

-----------------------------------------------------------------------------
LEMMA MakeKeepsShape ==
  ASSUME Shape, NEW g \in Grants, NEW ledger \in BOOLEAN, NEW budgets, NEW line,
         Makes(g, ledger, budgets, line), Make(g, ledger, budgets, line)
  PROVE  Shape'
<1> USE DelegationAssumption DEF Shape, TypeOK, Tree, Named, Made, Ids
<1>1. made' = made + 1 /\ made + 1 \in Ids /\ made' \in 0 .. MaxIds
  BY DEF Make
<1>2. budgets \subseteq Made /\ line \subseteq Made
  BY DEF Makes
<1>3. budgets = {i \in line : auths[i].grant.uses # None}
  BY DEF Makes
<1> DEFINE new == [grant |-> g, ledger |-> ledger, line |-> line \cup {made + 1},
                   budgets |-> budgets \cup IF g.uses # None THEN {made + 1} ELSE {}]
<1>4. new \in Auths
  BY <1>1, <1>2 DEF Auths
<1>5. auths' = [auths EXCEPT ![made + 1] = new]
  BY DEF Make
<1> HIDE DEF new
<1>6. auths' \in [Ids -> Auths]
  BY <1>1, <1>4, <1>5
<1>7. \A j \in Made : auths'[j] = auths[j]
  BY <1>1, <1>5
<1>8. auths'[made + 1] = new
  BY <1>1, <1>5
<1>9. /\ new.grant = g
      /\ new.line = line \cup {made + 1}
      /\ new.budgets = budgets \cup IF g.uses # None THEN {made + 1} ELSE {}
  BY DEF new
<1>10. Tree'
  <2> SUFFICES ASSUME NEW j \in 1 .. made + 1
               PROVE /\ auths'[j].grant \in Grants
                     /\ auths'[j].line \subseteq 1 .. made + 1 /\ j \in auths'[j].line
                     /\ auths'[j].budgets = {i \in auths'[j].line : auths'[i].grant.uses # None}
    BY <1>1
  <2>1. CASE j \in Made
    BY <2>1, <1>7
  <2>2. CASE j = made + 1
    <3>1. \A i \in line : auths'[i] = auths[i] /\ i # made + 1
      BY <1>2, <1>7
    <3>2. {i \in line \cup {made + 1} : auths'[i].grant.uses # None}
            = budgets \cup IF g.uses # None THEN {made + 1} ELSE {}
      BY <1>3, <1>8, <1>9, <3>1
    <3> QED
      BY <2>2, <1>2, <1>8, <1>9, <3>2
  <2> QED
    BY <2>1, <2>2
<1>11. Named'
  BY <1>1 DEF Make
<1>12. TypeOK'
  BY <1>1, <1>6 DEF Make
<1> QED
  BY <1>10, <1>11, <1>12

(* One more use.                                                           *)
LEMMA UseKeepsShape ==
  ASSUME Shape, NEW t \in Threads, work[t].pc # "idle", Use(t)
  PROVE  /\ uses' \subseteq [nth : Nat, auth : Ids, token : Tokens, at : 0 .. MaxTime]
         /\ IsFiniteSet(uses')
         /\ \A u \in uses' : u.auth \in Made
<1> USE DEF Shape, TypeOK, Named, Use, Ids, Made
<1>1. Cardinality(uses) \in Nat
  BY FS_CardinalityType
<1>2. IsFiniteSet(uses')
  BY FS_AddElement
<1>3. work[t] \in Works /\ made \in 0 .. MaxIds /\ MaxIds \in Nat
  BY DelegationAssumption
<1>4. work[t].auth \in Ids /\ work[t].token \in Tokens /\ work[t].at \in 0 .. MaxTime
  BY <1>3 DEF Works
<1> QED
  BY <1>1, <1>2, <1>3, <1>4

(* A thread that is done is idle; the others are where they were.          *)
LEMMA LeaveKeepsShape ==
  ASSUME TypeOK, NEW t \in Threads, Leave(t)
  PROVE  /\ work' \in [Threads -> Works]
         /\ work'[t] = NoWork
         /\ \A s \in Threads \ {t} : work'[s] = work[s]
<1>1. NoWork \in Works
  BY DelegationAssumption DEF NoWork, Works, TypeOK
<1> QED
  BY <1>1 DEF Leave, TypeOK

(* The state is well typed and the tree well formed.                       *)
LEMMA ShapeNext == Shape /\ [Next]_vars => Shape'
<1> SUFFICES ASSUME Shape, [Next]_vars PROVE Shape'
  OBVIOUS
<1> USE DelegationAssumption DEF Shape, Made
<1>1. ASSUME NEW g \in Grants, NEW ledger \in BOOLEAN, Delegate(g, ledger) PROVE Shape'
  <2>1. Makes(g, ledger, {}, {})
    BY DEF Makes
  <2> QED
    BY <1>1, <2>1, MakeKeepsShape DEF Delegate
<1>2. ASSUME NEW i \in Ids, NEW g \in Grants, Narrow(i, g) PROVE Shape'
  <2>1. Makes(g, auths[i].ledger, auths[i].budgets, auths[i].line)
    BY <1>2 DEF Narrow, Makes
  <2>2. auths[i].ledger \in BOOLEAN
    BY DEF TypeOK, Auths
  <2> QED
    BY <1>2, <2>1, <2>2, MakeKeepsShape DEF Narrow
<1>3. ASSUME NEW t \in Threads, NEW i \in Ids, NEW token \in Tokens, CheckGrant(t, i, token) PROVE Shape'
  <2> DEFINE call == [pc |-> "root", auth |-> i, token |-> token, at |-> now]
  <2>1. call \in Works /\ i \in Made
    BY <1>3 DEF CheckGrant, Works, TypeOK
  <2>2. work' = [work EXCEPT ![t] = call]
    BY <1>3 DEF CheckGrant
  <2>3. work' \in [Threads -> Works]
    BY <2>1, <2>2 DEF TypeOK
  <2>4. work'[t].auth = i /\ work'[t].token = token /\ \A s \in Threads \ {t} : work'[s] = work[s]
    BY <2>2 DEF TypeOK
  <2>5. TypeOK'
    BY <1>3, <2>3 DEF CheckGrant, TypeOK
  <2>6. Tree' /\ Named'
    BY <1>3, <2>1, <2>4 DEF CheckGrant, Tree, Named
  <2> QED
    BY <2>5, <2>6
<1>4. ASSUME NEW t \in Threads, VerifyRoot(t) PROVE Shape'
  <2>1. work[t].pc # "idle" /\ work[t].token \in Tokens
    BY <1>4 DEF VerifyRoot, Named
  <2>2. CASE Leave(t) /\ (UNCHANGED uses \/ Use(t))
    <3>1. NoWork.pc = "idle"
      BY DEF NoWork
    <3>2. TypeOK'
      BY <1>4, <2>1, <2>2, LeaveKeepsShape, UseKeepsShape DEF VerifyRoot, TypeOK
    <3>3. Tree' /\ Named'
      BY <1>4, <2>1, <2>2, <3>1, LeaveKeepsShape, UseKeepsShape DEF VerifyRoot, Tree, Named
    <3> QED
      BY <3>2, <3>3
  <2>3. CASE work' = [work EXCEPT ![t].pc = "ledger"] /\ UNCHANGED uses
    <3>1. [work[t] EXCEPT !.pc = "ledger"] \in Works
      BY DEF Works, TypeOK
    <3>2. work' \in [Threads -> Works]
      BY <2>3, <3>1 DEF TypeOK
    <3>3. /\ work'[t].auth = work[t].auth /\ work'[t].token = work[t].token
          /\ \A s \in Threads \ {t} : work'[s] = work[s]
      BY <2>3 DEF TypeOK, Works
    <3>4. TypeOK'
      BY <1>4, <2>1, <2>3, <3>2 DEF VerifyRoot, TypeOK
    <3>5. Tree' /\ Named'
      BY <1>4, <2>1, <2>3, <3>3 DEF VerifyRoot, Tree, Named
    <3> QED
      BY <3>4, <3>5
  <2> QED
    BY <1>4, <2>2, <2>3 DEF VerifyRoot
<1>5. ASSUME NEW t \in Threads, Consume(t) PROVE Shape'
  <2>1. work[t].pc # "idle" /\ work[t].token \in Tokens /\ Leave(t) /\ Use(t)
    BY <1>5 DEF Consume, Named
  <2>2. NoWork.pc = "idle"
    BY DEF NoWork
  <2>3. quota' \in [Ids -> Nat]
    BY <1>5 DEF Consume, TypeOK
  <2>4. TypeOK'
    BY <1>5, <2>1, <2>3, LeaveKeepsShape, UseKeepsShape DEF Consume, TypeOK
  <2>5. Tree' /\ Named'
    BY <1>5, <2>1, <2>2, LeaveKeepsShape, UseKeepsShape DEF Consume, Tree, Named
  <2> QED
    BY <2>4, <2>5
<1>6. ASSUME NEW t \in Threads, Refuse(t) PROVE Shape'
  <2>1. NoWork.pc = "idle" /\ Leave(t)
    BY <1>6 DEF NoWork, Refuse
  <2>2. TypeOK'
    BY <1>6, <2>1, LeaveKeepsShape DEF Refuse, TypeOK
  <2>3. Tree' /\ Named'
    BY <1>6, <2>1, LeaveKeepsShape DEF Refuse, Tree, Named
  <2> QED
    BY <2>2, <2>3
<1>7. ASSUME Restart PROVE Shape'
  <2>1. NoWork \in Works /\ NoWork.pc = "idle"
    BY DEF NoWork, Works
  <2>2. TypeOK'
    BY <1>7, <2>1 DEF Restart, TypeOK
  <2>3. Tree' /\ Named'
    BY <1>7, <2>1 DEF Restart, Tree, Named
  <2> QED
    BY <2>2, <2>3
<1>8. ASSUME Tick PROVE Shape'
  BY <1>8 DEF Tick, TypeOK, Tree, Named
<1>9. ASSUME UNCHANGED vars PROVE Shape'
  BY <1>9 DEF vars, TypeOK, Tree, Named
<1> QED
  BY <1>1, <1>2, <1>3, <1>4, <1>5, <1>6, <1>7, <1>8, <1>9 DEF Next

(* The shape of the state holds throughout.                                *)
LEMMA ShapeAlways == Spec => []Shape
<1>1. Init => Shape
  <2> SUFFICES ASSUME Init PROVE Shape
    OBVIOUS
  <2> USE DelegationAssumption DEF Init, Shape
  <2>1. NoAuth \in Auths /\ NoWork \in Works
    BY DEF NoAuth, Auths, NoWork, Works
  <2>2. NoWork.pc = "idle"
    BY DEF NoWork
  <2>3. TypeOK
    BY <2>1 DEF TypeOK
  <2>4. Tree /\ Named
    BY <2>2, FS_EmptySet DEF Tree, Named, Made
  <2> QED
    BY <2>3, <2>4
<1> QED
  BY <1>1, ShapeNext, PTL DEF Spec

(* The state is well typed, in every instance.                             *)
THEOREM TypeCorrect == Spec => []TypeOK
<1>1. Shape => TypeOK
  BY DEF Shape
<1> QED
  BY <1>1, ShapeAlways, PTL

-----------------------------------------------------------------------------
(* A step leaves the authorities there are as they are; one it makes has   *)
(* only itself in its line, or its parent's line and a narrower grant.     *)
LEMMA AuthoritiesStay ==
  ASSUME Shape, [Next]_vars
  PROVE  /\ Made \subseteq Made'
         /\ \A i \in Made : auths'[i] = auths[i]
         /\ \A j \in Made' \ Made :
              \/ auths'[j].line = {j}
              \/ \E i \in Made : /\ auths'[j].line = auths[i].line \cup {j}
                                 /\ IsStrictlyNarrowerThan(auths'[j].grant, auths[i].grant)
<1> USE DelegationAssumption DEF Shape, TypeOK, Made, Ids
<1>1. ASSUME NEW g \in Grants, NEW ledger \in BOOLEAN, Delegate(g, ledger)
      PROVE /\ \A i \in Made : auths'[i] = auths[i]
            /\ made' = made + 1 /\ auths'[made + 1].line = {made + 1}
  BY <1>1 DEF Delegate, Make
<1>2. ASSUME NEW i \in Ids, NEW g \in Grants, Narrow(i, g)
      PROVE /\ \A k \in Made : auths'[k] = auths[k]
            /\ made' = made + 1 /\ auths'[made + 1].line = auths[i].line \cup {made + 1}
            /\ auths'[made + 1].grant = g /\ i \in Made
            /\ IsStrictlyNarrowerThan(g, auths[i].grant)
  BY <1>2 DEF Narrow, Make
<1>3. made' = made + 1 => Made \subseteq Made' /\ \A j \in Made' \ Made : j = made + 1
  OBVIOUS
<1>4. CASE \E g \in Grants, ledger \in BOOLEAN : Delegate(g, ledger)
  BY <1>1, <1>3, <1>4
<1>5. CASE \E i \in Ids, g \in Grants : Narrow(i, g)
  <2>1. PICK i \in Ids, g \in Grants : Narrow(i, g)
    BY <1>5
  <2>2. ASSUME NEW j \in Made' \ Made
        PROVE /\ i \in Made /\ auths'[j].line = auths[i].line \cup {j}
              /\ IsStrictlyNarrowerThan(auths'[j].grant, auths[i].grant)
    <3>1. j = made + 1
      BY <1>2, <1>3, <2>1
    <3> HIDE DEF Shape, TypeOK, Made, Ids
    <3> QED
      BY <1>2, <2>1, <3>1
  <2>3. Made \subseteq Made' /\ \A k \in Made : auths'[k] = auths[k]
    BY <1>2, <1>3, <2>1
  <2> HIDE DEF Shape, TypeOK, Made, Ids
  <2> QED
    BY <2>2, <2>3
<1>6. CASE UNCHANGED <<made, auths>>
  BY <1>6
<1>7. CASE \E t \in Threads : VerifyRoot(t) \/ Consume(t) \/ Refuse(t)
  BY <1>6, <1>7 DEF VerifyRoot, Consume, Refuse
<1>8. CASE \E t \in Threads, i \in Ids, token \in Tokens : CheckGrant(t, i, token)
  BY <1>6, <1>8 DEF CheckGrant
<1> QED
  BY <1>4, <1>5, <1>6, <1>7, <1>8 DEF Next, Restart, Tick, vars

(* What a step adds to the uses: nothing, or one of a thread that has been *)
(* in verify and whose budgets, if it has any, it consumed.                *)
LEMMA UsesGrow ==
  ASSUME Shape, [Next]_vars
  PROVE  \/ UNCHANGED <<uses, quota, redeemed>>
         \/ \E t \in Threads :
              /\ work[t].pc # "idle" /\ Use(t) /\ UNCHANGED <<made, auths>>
              /\ \/ Consume(t)
                 \/ auths[work[t].auth].budgets = {} /\ UNCHANGED <<quota, redeemed>>
<1>1. ASSUME NEW t \in Threads, VerifyRoot(t)
      PROVE \/ UNCHANGED <<uses, quota, redeemed>>
            \/ /\ work[t].pc # "idle" /\ Use(t) /\ UNCHANGED <<made, auths>>
               /\ auths[work[t].auth].budgets = {} /\ UNCHANGED <<quota, redeemed>>
  BY <1>1 DEF VerifyRoot
<1>2. ASSUME NEW t \in Threads, Consume(t)
      PROVE work[t].pc # "idle" /\ Use(t) /\ UNCHANGED <<made, auths>>
  BY <1>2 DEF Consume
<1>3. CASE \E t \in Threads : VerifyRoot(t)
  BY <1>1, <1>3
<1>4. CASE \E t \in Threads : Consume(t)
  BY <1>2, <1>4
<1>5. CASE UNCHANGED <<uses, quota, redeemed>>
  BY <1>5
<1> QED
  BY <1>3, <1>4, <1>5 DEF Next, Delegate, Narrow, Make, CheckGrant, Refuse, Restart, Tick, vars

(* The uses below an authority grow by the new use, if it is one of them.  *)
LEMMA UsesBelowGrow ==
  ASSUME Shape, NEW t \in Threads, work[t].pc # "idle", Use(t), UNCHANGED <<made, auths>>, NEW i \in Made
  PROVE  /\ i \notin auths[work[t].auth].line => UsesBelow(i)' = UsesBelow(i)
         /\ Cardinality(UsesBelow(i)') <= Cardinality(UsesBelow(i)) + 1
         /\ Cardinality(UsesBelow(i)) \in Nat
<1> DEFINE new == [nth |-> Cardinality(uses) + 1, auth |-> work[t].auth,
                   token |-> work[t].token, at |-> work[t].at]
<1>1. uses' = uses \cup {new} /\ new.auth = work[t].auth
  BY DEF Use
<1> HIDE DEF new
<1>2. UsesBelow(i) \in SUBSET uses
  BY DEF UsesBelow
<1>3. IsFiniteSet(UsesBelow(i))
  BY <1>2, FS_Subset DEF Shape, Named
<1>4. Cardinality(UsesBelow(i)) \in Nat
  BY <1>3, FS_CardinalityType
<1>5. CASE i \notin auths[work[t].auth].line
  <2>1. UsesBelow(i)' = UsesBelow(i)
    BY <1>1, <1>5 DEF UsesBelow
  <2> QED
    BY <1>4, <1>5, <2>1
<1>6. CASE i \in auths[work[t].auth].line
  <2>1. UsesBelow(i)' = UsesBelow(i) \cup {new}
    BY <1>1, <1>6 DEF UsesBelow
  <2>2. Cardinality(UsesBelow(i) \cup {new}) <= Cardinality(UsesBelow(i)) + 1
    <3>1. Cardinality(UsesBelow(i) \cup {new})
            = IF new \in UsesBelow(i) THEN Cardinality(UsesBelow(i)) ELSE Cardinality(UsesBelow(i)) + 1
      BY <1>3, FS_AddElement, Zenon
    <3> QED
      BY <1>4, <3>1
  <2>3. Cardinality(UsesBelow(i)') <= Cardinality(UsesBelow(i)) + 1
    BY <2>1, <2>2
  <2> QED
    BY <1>4, <1>6, <2>3
<1> QED
  BY <1>5, <1>6

-----------------------------------------------------------------------------
(* Quota rows count what is used.                                          *)
LEMMA CountedNext ==
  ASSUME NoZeroBudgets, Shape, Shape', Counted, Unmade, [Next]_vars
  PROVE  Counted' /\ Unmade'
<1> USE DelegationAssumption DEF Made, Ids
<1>1. /\ made \in 0 .. MaxIds /\ quota \in [Ids -> Nat] /\ made' \in 0 .. MaxIds
      /\ \A u \in uses : u.auth \in Made
  BY DEF Shape, TypeOK, Named
<1>2. CASE UNCHANGED <<uses, quota>>
  <2>1. Unmade'
    BY <1>1, <1>2, AuthoritiesStay DEF Unmade
  <2>2. ASSUME NEW i \in Made', auths'[i].grant.uses # None
        PROVE /\ Cardinality(UsesBelow(i)') <= quota'[i] /\ quota'[i] <= auths'[i].grant.uses
    <3>1. UsesBelow(i)' = {u \in uses : i \in auths[u.auth].line}
      BY <1>1, <1>2, AuthoritiesStay DEF UsesBelow
    <3>2. CASE i \in Made
      BY <1>2, <2>2, <3>1, <3>2, AuthoritiesStay DEF Counted, UsesBelow
    <3>3. CASE i \notin Made
      <4>1. UsesBelow(i)' = {}
        BY <1>1, <3>1, <3>3 DEF Shape, Tree
      <4>2. i \in Ids /\ quota'[i] = 0
        BY <1>1, <1>2, <3>3 DEF Unmade
      <4>3. auths'[i].grant.uses \in Nat
        BY <2>2 DEF Shape, Tree, GrantType
      <4> QED
        BY <4>1, <4>2, <4>3, FS_EmptySet
    <3> QED
      BY <3>2, <3>3
  <2> QED
    BY <2>1, <2>2 DEF Counted
<1>3. ASSUME NEW t \in Threads, work[t].pc # "idle", Use(t), UNCHANGED <<made, auths>>,
             Consume(t) \/ (auths[work[t].auth].budgets = {} /\ UNCHANGED <<quota, redeemed>>)
      PROVE Counted' /\ Unmade'
  <2> DEFINE a == work[t].auth
  <2>1. /\ a \in Made
        /\ auths[a].budgets = {i \in auths[a].line : auths[i].grant.uses # None}
        /\ auths[a].line \subseteq Made
    BY <1>3 DEF Shape, Named, Tree
  <2>2. \A i \in Ids : quota'[i] = IF i \in auths[a].budgets THEN quota[i] + 1 ELSE quota[i]
    BY <1>1, <1>3 DEF Consume
  <2>3. \A i \in auths[a].budgets : HasRoom(i)
    BY <1>3 DEF Consume
  <2> HIDE DEF a
  <2>4. Unmade'
    BY <1>1, <1>3, <2>1, <2>2 DEF Unmade
  <2>5. ASSUME NEW i \in Made, auths[i].grant.uses # None
        PROVE /\ Cardinality(UsesBelow(i)') <= quota'[i] /\ quota'[i] <= auths[i].grant.uses
    <3>1. /\ i \notin auths[a].line => UsesBelow(i)' = UsesBelow(i)
          /\ Cardinality(UsesBelow(i)') <= Cardinality(UsesBelow(i)) + 1
          /\ Cardinality(UsesBelow(i)) \in Nat
      BY <1>3, UsesBelowGrow DEF a
    <3>2. auths[i].grant.uses \in Nat /\ auths[i].grant.uses # 0
      BY <2>5 DEF NoZeroBudgets, Shape, Tree, GrantType
    <3>3. Cardinality(UsesBelow(i)) <= quota[i] /\ quota[i] <= auths[i].grant.uses /\ quota[i] \in Nat
      BY <1>1, <2>5 DEF Counted
    <3>4. i \in Ids
      BY <1>1
    <3>5. CASE i \in auths[a].line
      <4>1. quota'[i] = quota[i] + 1
        BY <2>1, <2>2, <2>5, <3>4, <3>5
      <4>2. quota[i] + 1 <= auths[i].grant.uses
        BY <2>1, <2>3, <2>5, <3>2, <3>3, <3>5 DEF HasRoom
      <4>3. IsFiniteSet(UsesBelow(i)') /\ Cardinality(UsesBelow(i)') \in Nat
        <5>1. UsesBelow(i)' \in SUBSET uses'
          BY DEF UsesBelow
        <5> QED
          BY <5>1, FS_Subset, FS_CardinalityType DEF Shape, Named
      <4> QED
        BY <3>1, <3>3, <4>1, <4>2, <4>3
    <3>6. CASE i \notin auths[a].line
      <4>1. quota'[i] = quota[i]
        BY <2>1, <2>2, <3>4, <3>6
      <4> QED
        BY <3>1, <3>3, <3>6, <4>1
    <3> QED
      BY <3>5, <3>6
  <2> QED
    BY <1>3, <2>4, <2>5 DEF Counted
<1> QED
  BY <1>2, <1>3, UsesGrow

(* If no grant has a budget of zero, no budget is ever overspent, at any   *)
(* level of any tree, by any interleaving of verify calls.                 *)
THEOREM BudgetsAreKept == NoZeroBudgets => (Spec => []BudgetsHold)
<1> SUFFICES ASSUME NoZeroBudgets PROVE Spec => []BudgetsHold
  OBVIOUS
<1>1. Init => Counted /\ Unmade
  BY DelegationAssumption DEF Init, Counted, Unmade, Made, Ids
<1>2. Counted /\ Unmade /\ Shape /\ Shape' /\ [Next]_vars => Counted' /\ Unmade'
  BY CountedNext
<1>3. Shape /\ Counted => BudgetsHold
  <2> SUFFICES ASSUME Shape, Counted, NEW i \in 1 .. made, auths[i].grant.uses # None
               PROVE Cardinality(UsesBelow(i)) <= auths[i].grant.uses
    BY DEF BudgetsHold
  <2>1. UsesBelow(i) \in SUBSET uses
    BY DEF UsesBelow
  <2>2. Cardinality(UsesBelow(i)) \in Nat
    BY <2>1, FS_Subset, FS_CardinalityType DEF Shape, Named
  <2>3. quota[i] \in Nat /\ auths[i].grant.uses \in Nat
    BY DelegationAssumption DEF Shape, TypeOK, Tree, Made, Ids, GrantType
  <2> QED
    BY <2>2, <2>3 DEF Counted, Made
<1> QED
  BY <1>1, <1>2, <1>3, ShapeAlways, PTL DEF Spec

-----------------------------------------------------------------------------
(* What counted is in the redemptions table.                               *)
LEMMA RedeemedNext ==
  ASSUME Shape, Shape', Remembered, TokensAreRedeemedOnce, [Next]_vars
  PROVE  Remembered' /\ TokensAreRedeemedOnce'
<1>1. \A u \in uses : u.auth \in Made
  BY DEF Shape, Named
<1>2. CASE UNCHANGED <<uses, redeemed>>
  <2>1. \A u \in uses : auths'[u.auth] = auths[u.auth]
    BY <1>1, AuthoritiesStay
  <2> QED
    BY <1>2, <2>1 DEF Remembered, TokensAreRedeemedOnce
<1>3. ASSUME NEW t \in Threads, work[t].pc # "idle", Use(t), UNCHANGED <<made, auths>>,
             Consume(t) \/ (auths[work[t].auth].budgets = {} /\ UNCHANGED <<quota, redeemed>>)
      PROVE Remembered' /\ TokensAreRedeemedOnce'
  <2> DEFINE new == [nth |-> Cardinality(uses) + 1, auth |-> work[t].auth,
                     token |-> work[t].token, at |-> work[t].at]
  <2>1. uses' = uses \cup {new} /\ new.auth = work[t].auth /\ new.token = work[t].token
    BY <1>3 DEF Use
  <2> HIDE DEF new
  <2>2. CASE auths[new.auth].budgets = {} /\ UNCHANGED redeemed
    BY <1>3, <2>1, <2>2 DEF Remembered, TokensAreRedeemedOnce
  <2>3. CASE new.token \notin redeemed /\ redeemed' = redeemed \cup {new.token}
    BY <1>3, <2>1, <2>3 DEF Remembered, TokensAreRedeemedOnce
  <2> QED
    BY <1>3, <2>1, <2>2, <2>3 DEF Consume
<1> QED
  BY <1>2, <1>3, UsesGrow

(* A token string counts once against budgets, however often it is         *)
(* presented, through whichever authorities, and whatever restarts come    *)
(* between.                                                                *)
THEOREM RedemptionIsOnce == Spec => []TokensAreRedeemedOnce
<1>1. Init => Remembered /\ TokensAreRedeemedOnce
  BY DEF Init, Remembered, TokensAreRedeemedOnce
<1>2. Remembered /\ TokensAreRedeemedOnce /\ Shape /\ Shape' /\ [Next]_vars
        => Remembered' /\ TokensAreRedeemedOnce'
  BY RedeemedNext
<1> QED
  BY <1>1, <1>2, ShapeAlways, PTL DEF Spec

(* Every approval is presented in one spelling only.                       *)
Verbatim == \A x, y \in Tokens : ActionOf[x] = ActionOf[y] => x = y

(* Two uses that count against budgets are of two approvals.               *)
ApprovalsAreRedeemedOnce ==
  \A u, v \in uses :
    /\ ActionOf[u.token] = ActionOf[v.token]
    /\ auths[u.auth].budgets # {}
    /\ auths[v.auth].budgets # {}
    => u = v

(* An approval counts once against budgets if it is never spelled in two   *)
(* ways.  The hypothesis is needed: the ledger digests the string.         *)
THEOREM ApprovalsCountOnce == Verbatim => (Spec => []ApprovalsAreRedeemedOnce)
<1> SUFFICES ASSUME Verbatim PROVE Spec => []ApprovalsAreRedeemedOnce
  OBVIOUS
<1>1. Shape /\ TokensAreRedeemedOnce => ApprovalsAreRedeemedOnce
  <2>1. Shape => \A u \in uses : u.token \in Tokens
    BY DEF Shape, TypeOK
  <2> QED
    BY <2>1 DEF Verbatim, TokensAreRedeemedOnce, ApprovalsAreRedeemedOnce
<1> QED
  BY <1>1, ShapeAlways, RedemptionIsOnce, PTL

-----------------------------------------------------------------------------
(* What is_subset_of accepts lets through no more.                         *)
LEMMA SubsetIsNarrower ==
  ASSUME NoNoneConstraints, NEW g \in Grants, NEW p \in Grants, IsSubsetOf(g, p)
  PROVE  Narrower(g, p)
<1> SUFFICES ASSUME NEW a \in Actions, NEW moment \in Nat, WithinGrant(g, a, moment)
             PROVE WithinGrant(p, a, moment)
  BY DEF Narrower
<1> USE DelegationAssumption DEF GrantType
<1> DEFINE tool == ToolOf[a]
<1>1. tool \in g.tools /\ tool \in p.tools
  BY DEF WithinGrant, IsSubsetOf
<1>2. p.expires # None => moment < p.expires
  BY DEF WithinGrant, IsSubsetOf
<1>3. ASSUME NEW k \in Items(p, tool) PROVE Argument[a][k] = p.must[tool][k]
  <2>1. k \in Keys /\ p.must[tool][k] # None
    BY <1>1 DEF Items, NoNoneConstraints
  <2>2. Get(g, tool, k) = p.must[tool][k]
    BY <1>1 DEF IsSubsetOf
  <2>3. k \in Items(g, tool) /\ g.must[tool][k] = p.must[tool][k]
    BY <2>1, <2>2 DEF Get, Items
  <2> QED
    BY <2>3 DEF WithinGrant
<1> QED
  BY <1>1, <1>2, <1>3 DEF WithinGrant

(* Every authority lets through no more than any of its ancestors.         *)
LEMMA LinesNext ==
  ASSUME NoNoneConstraints, Shape, Shape', LinesNarrow, [Next]_vars
  PROVE  LinesNarrow'
<1> SUFFICES ASSUME NEW j \in Made', NEW i \in auths'[j].line
             PROVE Narrower(auths'[j].grant, auths'[i].grant)
  BY DEF LinesNarrow, Narrower
<1>1. CASE j \in Made
  <2>1. auths'[j] = auths[j]
    BY <1>1, AuthoritiesStay
  <2>2. i \in Made /\ auths'[i] = auths[i]
    BY <1>1, <2>1, AuthoritiesStay DEF Shape, Tree
  <2> QED
    BY <1>1, <2>1, <2>2 DEF LinesNarrow
<1>2. CASE i = j
  BY <1>2 DEF Narrower
<1>3. CASE j \notin Made /\ i # j
  <2>1. PICK parent \in Made : /\ auths'[j].line = auths[parent].line \cup {j}
                               /\ IsStrictlyNarrowerThan(auths'[j].grant, auths[parent].grant)
    BY <1>3, AuthoritiesStay
  <2>2. i \in auths[parent].line
    BY <1>3, <2>1
  <2>3. i \in Made /\ auths'[i] = auths[i]
    BY <2>2, AuthoritiesStay DEF Shape, Tree
  <2>4. auths'[j].grant \in Grants /\ auths[parent].grant \in Grants
    BY DEF Shape, Tree
  <2>5. Narrower(auths'[j].grant, auths[parent].grant)
    BY <2>1, <2>4, SubsetIsNarrower DEF IsStrictlyNarrowerThan
  <2>6. Narrower(auths[parent].grant, auths[i].grant)
    BY <2>2 DEF LinesNarrow
  <2> QED
    BY <2>3, <2>5, <2>6 DEF Narrower
<1> QED
  BY <1>1, <1>2, <1>3

(* Calls in progress and uses were let through by their own authority.     *)
LEMMA CheckedNext ==
  ASSUME Shape, Shape', Checked, [Next]_vars
  PROVE  Checked'
<1> USE DelegationAssumption DEF Shape, Named
<1>1. /\ \A u \in uses : auths'[u.auth] = auths[u.auth]
      /\ \A t \in Threads : work[t].pc # "idle" => auths'[work[t].auth] = auths[work[t].auth]
  BY AuthoritiesStay
<1>2. \A u \in uses' : WithinGrant(auths'[u.auth].grant, ActionOf[u.token], u.at)
  <2>1. CASE UNCHANGED uses
    BY <1>1, <2>1 DEF Checked
  <2>2. ASSUME NEW t \in Threads, work[t].pc # "idle", Use(t)
        PROVE \A u \in uses' : WithinGrant(auths'[u.auth].grant, ActionOf[u.token], u.at)
    <3> DEFINE new == [nth |-> Cardinality(uses) + 1, auth |-> work[t].auth,
                       token |-> work[t].token, at |-> work[t].at]
    <3>1. /\ uses' = uses \cup {new} /\ new.auth = work[t].auth
          /\ new.token = work[t].token /\ new.at = work[t].at
      BY <2>2 DEF Use
    <3> HIDE DEF new
    <3> QED
      BY <1>1, <2>2, <3>1 DEF Checked
  <2> QED
    BY <2>1, <2>2, UsesGrow
<1>3. ASSUME NEW t \in Threads, work'[t].pc # "idle"
      PROVE WithinGrant(auths'[work'[t].auth].grant, ActionOf[work'[t].token], work'[t].at)
  <2>1. CASE /\ work[t].pc # "idle" /\ work'[t].auth = work[t].auth
             /\ work'[t].token = work[t].token /\ work'[t].at = work[t].at
    BY <1>1, <2>1 DEF Checked
  <2>2. ASSUME NEW s \in Threads, NEW i \in Ids, NEW token \in Tokens, CheckGrant(s, i, token)
        PROVE \/ work'[t] = work[t]
              \/ WithinGrant(auths'[work'[t].auth].grant, ActionOf[work'[t].token], work'[t].at)
    BY <2>2 DEF CheckGrant, TypeOK
  <2>3. ASSUME NEW s \in Threads, VerifyRoot(s) \/ Consume(s) \/ Refuse(s)
        PROVE /\ work[t].pc # "idle" /\ work'[t].auth = work[t].auth
              /\ work'[t].token = work[t].token /\ work'[t].at = work[t].at
    <3>1. CASE work' = [work EXCEPT ![s] = NoWork]
      BY <1>3, <3>1 DEF TypeOK, NoWork
    <3>2. CASE work[s].pc = "root" /\ work' = [work EXCEPT ![s].pc = "ledger"]
      <4>1. work[s] \in Works
        BY DEF TypeOK
      <4> QED
        BY <1>3, <3>2, <4>1 DEF TypeOK, Works
    <3> QED
      BY <2>3, <3>1, <3>2 DEF VerifyRoot, Consume, Refuse, Leave
  <2>4. CASE Restart
    BY <1>3, <2>4 DEF Restart, NoWork
  <2>5. CASE UNCHANGED work
    BY <1>3, <2>1, <2>5
  <2>6. CASE \E s \in Threads, i \in Ids, token \in Tokens : CheckGrant(s, i, token)
    BY <1>3, <2>1, <2>2, <2>6
  <2> QED
    BY <2>1, <2>3, <2>4, <2>5, <2>6 DEF Next, Delegate, Narrow, Make, Tick, vars
<1> QED
  BY <1>2, <1>3 DEF Checked, WithinGrant

(* If no grant constrains an argument to be None, authority only narrows   *)
(* down the tree: what any descendant verifies, its ancestors would have.  *)
THEOREM AuthorityNarrows == NoNoneConstraints => (Spec => []DelegationOnlyNarrows)
<1> SUFFICES ASSUME NoNoneConstraints PROVE Spec => []DelegationOnlyNarrows
  OBVIOUS
<1>1. Init => LinesNarrow /\ Checked
  BY DEF Init, LinesNarrow, Checked, Made, NoWork
<1>2. LinesNarrow /\ Checked /\ Shape /\ Shape' /\ [Next]_vars => LinesNarrow' /\ Checked'
  BY LinesNext, CheckedNext
<1>3. Shape /\ LinesNarrow /\ Checked => DelegationOnlyNarrows
  BY DelegationAssumption DEF Shape, TypeOK, Named, LinesNarrow, Checked, Narrower, DelegationOnlyNarrows
<1> QED
  BY <1>1, <1>2, <1>3, ShapeAlways, PTL DEF Spec
=============================================================================
