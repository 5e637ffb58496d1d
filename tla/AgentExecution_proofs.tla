------------------------ MODULE AgentExecution_proofs ------------------------
(***************************************************************************)
(* Proofs about AgentExecution, for every number of threads, processes,    *)
(* actions, tokens, calls and restarts.                                    *)
(***************************************************************************)
EXTENDS AgentExecution, TLAPS

-----------------------------------------------------------------------------
(* The inductive invariant, as a conjunction of named parts.               *)

(* Thread t has passed the authority and has not run the tool yet: it is   *)
(* the only one that may still turn its token into an effect.              *)
Holds(t) == call[t].pc \in {"intent", "run"} /\ call[t].action \in Gated

(* token is the host's approval of action a by the authority of p.         *)
Approves(token, a, p) ==
  /\ token \in Granted
  /\ token.approval.action = a
  /\ token.approval.secret = Secret(p)

CallsAreNamed ==
  /\ \A t \in Threads : call[t].pc # "idle" =>
       /\ call[t].id \in 1 .. calls
       /\ call[t].action \in Actions
       /\ call[t].token \in Presented(call[t].action)
  /\ \A t, u \in Threads :
       call[t].pc # "idle" /\ call[u].pc # "idle" /\ t # u => call[t].id # call[u].id
  /\ \A e \in effects : e.call \in 1 .. calls
  /\ \A r \in log : r.call \in 1 .. calls

SecretsAreOld == \A k \in issued : \E p \in Processes : \E n \in 0 .. boot[p] : k.secret = <<p, n>>

CheckedTokens == \A t \in Threads : call[t].pc = "consume" =>
  /\ call[t].action \in Gated
  /\ Approves(call[t].token, call[t].action, ProcessOf[t])

HeldTokens ==
  /\ \A t \in Threads : Holds(t) =>
       /\ Approves(call[t].token, call[t].action, ProcessOf[t])
       /\ call[t].token \in used[ProcessOf[t]]
       /\ \A e \in effects : e.action \in Gated => e.token # call[t].token
  /\ \A t, u \in Threads : Holds(t) /\ Holds(u) /\ t # u => call[t].token # call[u].token

SpentTokens == \A e \in effects : e.action \in Gated =>
  /\ e.token \in Granted
  /\ e.token.approval.action = e.action
  /\ \A p \in Processes : e.token.approval.secret = Secret(p) => e.token \in used[p]

Phases == \A t \in Threads :
  /\ call[t].pc \in {"called", "consume", "decision", "intent", "run"} =>
       \A e \in effects : e.call # call[t].id
  /\ call[t].pc \in {"called", "consume", "decision", "intent", "run", "outcome"} =>
       \A r \in log : r.event \in {"decision", "outcome"} => r.call # call[t].id
  /\ call[t].pc \in {"called", "consume", "intent", "run"} => call[t].result = "none"
  /\ call[t].pc = "decision" => call[t].result \in Refusals
  /\ call[t].pc = "outcome" => call[t].result \in {"completed", "tool_error"}
  /\ call[t].pc \in {"run", "outcome"} => IntentOf(Effect(t)) \in log
  /\ call[t].pc = "outcome" /\ call[t].result = "completed" => Effect(t) \in effects

IInv ==
  /\ TypeOK
  /\ CallsAreNamed
  /\ SecretsAreOld
  /\ CheckedTokens
  /\ HeldTokens
  /\ SpentTokens
  /\ Phases
  /\ OneEffectPerToken
  /\ LogAccountsForEffects
  /\ ReturnsAreAudited

-----------------------------------------------------------------------------
(* What Goto leaves alone.                                                 *)
LEMMA GotoFrame ==
  ASSUME TypeOK, NEW t \in Threads, NEW pc, NEW result, Goto(t, pc, result)
  PROVE  /\ call'[t].pc = pc /\ call'[t].result = result
         /\ call'[t].id = call[t].id
         /\ call'[t].action = call[t].action
         /\ call'[t].token = call[t].token
         /\ \A u \in Threads \ {t} : call'[u] = call[u]
  BY DEF TypeOK, Calls, Goto

(* The steps of execute, and what each leaves alone.                       *)
LEMMA StepFrame ==
  ASSUME TypeOK, NEW t \in Threads, Step(t)
  PROVE  /\ UNCHANGED <<now, boot, issued, calls>>
         /\ call[t].pc \in {"called", "consume", "decision", "intent", "run", "outcome"}
         /\ \E pc \in {"consume", "decision", "intent", "run", "outcome", "returned", "raised"} :
            \E result \in Results : Goto(t, pc, result)
  <1>1. call[t].result \in Results
    BY DEF TypeOK, Calls
  <1>2. CASE UnknownTool(t) \/ InvalidArguments(t) \/ PolicyCheck(t)
    BY <1>2 DEF UnknownTool, InvalidArguments, PolicyCheck, Results
  <1>3. CASE ConsumeToken(t)
    BY <1>3 DEF ConsumeToken, Results
  <1>4. CASE AuditDecision(t)
    BY <1>1, <1>4 DEF AuditDecision, Results
  <1>5. CASE AuditIntent(t)
    BY <1>5 DEF AuditIntent, Results
  <1>6. CASE RunTool(t)
    BY <1>6 DEF RunTool, Results
  <1>7. CASE AuditOutcome(t)
    BY <1>1, <1>7 DEF AuditOutcome, Results
  <1> QED
    BY <1>2, <1>3, <1>4, <1>5, <1>6, <1>7 DEF Step

(* An append adds at most the record it is given.                          *)
LEMMA AppendFrame ==
  ASSUME torn \in BOOLEAN, NEW r, Appended(r) \/ AppendRaises(r)
  PROVE  torn' \in BOOLEAN /\ log \subseteq log' /\ log' \subseteq log \cup {r}
  BY DEF Appended, AppendRaises

(* What a step of execute writes: records of its own call, named by the    *)
(* phase it is in, and only in RunTool an effect, its own.                 *)
LEMMA StepWrites ==
  ASSUME TypeOK, NEW t \in Threads, Step(t)
  PROVE  /\ log \subseteq log'
         /\ \A r \in log' : r \notin log => r = Record(t, call[t].pc)
         /\ effects \subseteq effects'
         /\ effects' \subseteq effects \cup {Effect(t)}
         /\ effects' # effects => RunTool(t)
         /\ used' # used => ConsumeToken(t)
  <1>1. CASE UNCHANGED <<used, log, effects>>
    BY <1>1
  <1>2. CASE ConsumeToken(t)
    BY <1>2 DEF ConsumeToken
  <1>3. CASE AuditDecision(t) \/ AuditIntent(t) \/ AuditOutcome(t)
    BY <1>3 DEF AuditDecision, AuditIntent, AuditOutcome, Appended, AppendRaises
  <1>4. CASE RunTool(t)
    BY <1>4 DEF RunTool
  <1> QED
    BY <1>1, <1>2, <1>3, <1>4 DEF Step, UnknownTool, InvalidArguments, PolicyCheck

(* The thread a step moves, and the ones it does not.                      *)
LEMMA StepMoves ==
  ASSUME TypeOK, NEW t \in Threads, Step(t)
  PROVE  /\ call[t].pc # "idle" /\ call'[t].pc # "idle"
         /\ call'[t].id = call[t].id
         /\ call'[t].action = call[t].action
         /\ call'[t].token = call[t].token
         /\ \A u \in Threads \ {t} : call'[u] = call[u]
  <1>1. PICK pc \in {"consume", "decision", "intent", "run", "outcome", "returned", "raised"},
             result \in Results : Goto(t, pc, result)
    BY StepFrame
  <1>2. call[t].pc # "idle"
    BY StepFrame
  <1> QED
    BY <1>1, <1>2, GotoFrame

LEMMA ExecuteFrame ==
  ASSUME TypeOK, NEW t \in Threads, NEW a, NEW token, Execute(t, a, token)
  PROVE  /\ call'[t].pc = "called" /\ call'[t].result = "none"
         /\ call'[t].id = calls + 1
         /\ call'[t].action = a
         /\ call'[t].token = token
         /\ \A u \in Threads \ {t} : call'[u] = call[u]
  BY DEF TypeOK, Calls, Execute

LEMMA CrashFrame ==
  ASSUME TypeOK, NEW p \in Processes, Crash(p)
  PROVE  \A t \in Threads : /\ ProcessOf[t] = p => call'[t].pc = "idle"
                            /\ ProcessOf[t] # p => call'[t] = call[t]
  BY DEF TypeOK, Calls, Crash, IdleCall

LEMMA IdleType == IdleCall \in Calls
  BY DEF IdleCall, Calls, Results

LEMMA TypeInit == Init => TypeOK
<1> SUFFICES ASSUME Init PROVE TypeOK
  OBVIOUS
<1>1. /\ now \in 0 .. MaxTime /\ calls \in 0 .. MaxCalls
      /\ boot \in [Processes -> 0 .. MaxBoots]
  BY BoundAssumption DEF Init
<1>2. /\ call \in [Threads -> Calls]
      /\ used \in [Processes -> SUBSET Tokens]
  BY IdleType DEF Init
<1> QED
  BY <1>1, <1>2 DEF Init, TypeOK

LEMMA TypeNext == IInv /\ [Next]_vars => TypeOK'
<1> SUFFICES ASSUME IInv, [Next]_vars
             PROVE  TypeOK'
  OBVIOUS
<1> USE DEF IInv
<1>1. ASSUME NEW p \in Processes, NEW a \in Gated, Issue(p, a)
      PROVE  TypeOK'
  <2>1. Signed(p, a) \in Approvals
    BY BoundAssumption DEF TypeOK, Signed, Approvals, Secret, Secrets, Gated
  <2> QED
    BY <1>1, <2>1 DEF Issue, TypeOK
<1>2. ASSUME NEW t \in Threads, NEW a \in Actions, NEW token \in Presented(a),
             Execute(t, a, token)
      PROVE  TypeOK'
  <2>1. token \in Tokens \cup {None}
    <3>1. Forged(a) \in Tokens
      BY BoundAssumption, SpellingAssumption DEF Forged, Tokens, Approvals
    <3>2. Granted \subseteq Tokens
      BY DEF Granted, Tokens, TypeOK
    <3> QED
      BY <3>1, <3>2 DEF Presented
  <2>2. call' \in [Threads -> Calls]
    BY <1>2, <2>1 DEF Execute, TypeOK, Calls, Results
  <2> QED
    BY <1>2, <2>2, BoundAssumption DEF Execute, TypeOK
<1>3. ASSUME NEW t \in Threads, Step(t)
      PROVE  TypeOK'
  <2>1. call' \in [Threads -> Calls]
    <3>1. PICK pc \in {"consume", "decision", "intent", "run", "outcome", "returned", "raised"},
               result \in Results : Goto(t, pc, result)
      BY <1>3, StepFrame
    <3>2. [call[t] EXCEPT !.pc = pc, !.result = result] \in Calls
      BY DEF TypeOK, Calls
    <3> QED
      BY <3>1, <3>2 DEF Goto, TypeOK
  <2>2. /\ call[t].id \in Nat
        /\ call[t].action \in Actions
        /\ call[t].token \in Tokens \cup {None}
        /\ call[t].result \in Results
    BY <1>3, StepFrame DEF TypeOK, Calls, CallsAreNamed
  <2>3. UNCHANGED <<now, boot, issued, calls>>
    BY <1>3, StepFrame
  <2>4. CASE UNCHANGED <<used, log, torn, effects>>
    BY <2>1, <2>3, <2>4 DEF TypeOK
  <2>5. CASE ConsumeToken(t)
    <3>1. call[t].token \in Tokens
      BY <2>5 DEF ConsumeToken, CheckedTokens, Approves, TypeOK, Granted, Tokens
    <3>2. used' \in [Processes -> SUBSET Tokens]
      BY <2>5, <3>1, ProcessAssumption DEF ConsumeToken, TypeOK
    <3> QED
      BY <2>1, <2>3, <2>5, <3>2 DEF ConsumeToken, TypeOK
  <2>6. CASE AuditDecision(t) \/ AuditIntent(t) \/ AuditOutcome(t)
    <3>1. \A event \in {"decision", "intent", "outcome"} : Record(t, event) \in Records
      BY <2>2 DEF Record, Records
    <3>2. torn' \in BOOLEAN /\ log' \subseteq Records
      BY <2>6, <3>1, AppendFrame DEF AuditDecision, AuditIntent, AuditOutcome, TypeOK
    <3> QED
      BY <2>1, <2>3, <2>6, <3>2 DEF AuditDecision, AuditIntent, AuditOutcome, TypeOK
  <2>7. CASE RunTool(t)
    BY <2>1, <2>2, <2>3, <2>7 DEF RunTool, Effect, TypeOK
  <2> QED
    BY <1>3, <2>4, <2>5, <2>6, <2>7 DEF Step, UnknownTool, InvalidArguments, PolicyCheck
<1>4. ASSUME Tick
      PROVE  TypeOK'
  BY <1>4, BoundAssumption DEF Tick, TypeOK
<1>5. ASSUME NEW p \in Processes, Crash(p)
      PROVE  TypeOK'
  <2>1. call' \in [Threads -> Calls]
    BY <1>5, IdleType DEF Crash, TypeOK
  <2>2. boot' \in [Processes -> 0 .. MaxBoots]
    BY <1>5, BoundAssumption DEF Crash, TypeOK
  <2>3. used' \in [Processes -> SUBSET Tokens] /\ torn' \in BOOLEAN
    BY <1>5 DEF Crash, TypeOK
  <2> QED
    BY <1>5, <2>1, <2>2, <2>3 DEF Crash, TypeOK
<1>6. ASSUME UNCHANGED vars
      PROVE  TypeOK'
  BY <1>6 DEF vars, TypeOK
<1> QED
  BY <1>1, <1>2, <1>3, <1>4, <1>5, <1>6 DEF Next

-----------------------------------------------------------------------------
(* The other parts of the invariant.                                       *)

LEMMA NamesNext == IInv /\ [Next]_vars => CallsAreNamed'
<1> SUFFICES ASSUME IInv, [Next]_vars
             PROVE  CallsAreNamed'
  OBVIOUS
<1> USE DEF IInv
<1>0. calls \in Nat
  BY BoundAssumption DEF TypeOK
<1>1. ASSUME NEW p \in Processes, NEW a \in Gated, Issue(p, a)
      PROVE  CallsAreNamed'
  BY <1>1 DEF Issue, CallsAreNamed, Presented, Granted, Forged
<1>2. ASSUME NEW t \in Threads, NEW a \in Actions, NEW token \in Presented(a),
             Execute(t, a, token)
      PROVE  CallsAreNamed'
  <2>1. /\ calls' = calls + 1
        /\ UNCHANGED <<issued, log, effects>>
    BY <1>2 DEF Execute
  <2>2. /\ call'[t].pc = "called"
        /\ call'[t].id = calls + 1
        /\ call'[t].action = a
        /\ call'[t].token = token
        /\ \A u \in Threads \ {t} : call'[u] = call[u]
    BY <1>2, ExecuteFrame
  <2>3. \A u \in Threads \ {t} : call[u].pc # "idle" => call[u].id # calls + 1
    BY <1>0 DEF CallsAreNamed
  <2>4. (\A u \in Threads : call[u].pc # "idle" =>
          /\ call[u].id \in 1 .. calls
          /\ call[u].action \in Actions
          /\ call[u].token \in Presented(call[u].action))'
    <3>1. (call[t].id \in 1 .. calls /\ call[t].action \in Actions
           /\ call[t].token \in Presented(call[t].action))'
      BY <1>0, <2>1, <2>2 DEF Presented, Granted, Forged
    <3>2. ASSUME NEW u \in Threads \ {t}, call[u].pc # "idle"
          PROVE  (call[u].id \in 1 .. calls /\ call[u].action \in Actions
                  /\ call[u].token \in Presented(call[u].action))'
      BY <1>0, <2>1, <2>2, <3>2 DEF CallsAreNamed, Presented, Granted, Forged
    <3> QED
      BY <2>2, <3>1, <3>2
  <2>5. \A u, v \in Threads :
          call'[u].pc # "idle" /\ call'[v].pc # "idle" /\ u # v => call'[u].id # call'[v].id
    BY <2>2, <2>3 DEF CallsAreNamed
  <2>6. (\A e \in effects : e.call \in 1 .. calls)' /\ (\A r \in log : r.call \in 1 .. calls)'
    BY <1>0, <2>1 DEF CallsAreNamed
  <2> QED
    BY <2>4, <2>5, <2>6 DEF CallsAreNamed
<1>3. ASSUME NEW t \in Threads, Step(t)
      PROVE  CallsAreNamed'
  <2>1. /\ \A r \in log' : r \in log \/ r.call = call[t].id
        /\ \A e \in effects' : e \in effects \/ e.call = call[t].id
    BY <1>3, StepWrites DEF Record, Effect
  <2>2. UNCHANGED <<issued, calls>>
    BY <1>3, StepFrame
  <2>3. \A u \in Threads :
          /\ call'[u].id = call[u].id
          /\ call'[u].action = call[u].action
          /\ call'[u].token = call[u].token
          /\ call'[u].pc # "idle" => call[u].pc # "idle"
    BY <1>3, StepMoves
  <2>4. call[t].id \in 1 .. calls
    BY <1>3, StepMoves DEF CallsAreNamed
  <2> QED
    BY <2>1, <2>2, <2>3, <2>4 DEF CallsAreNamed, Presented, Granted, Forged
<1>4. ASSUME Tick
      PROVE  CallsAreNamed'
  BY <1>4 DEF Tick, CallsAreNamed, Presented, Granted, Forged
<1>5. ASSUME NEW p \in Processes, Crash(p)
      PROVE  CallsAreNamed'
  <2>1. UNCHANGED <<issued, calls, log, effects>>
    BY <1>5 DEF Crash
  <2> QED
    BY <1>5, <2>1, CrashFrame DEF CallsAreNamed, Presented, Granted, Forged
<1>6. ASSUME UNCHANGED vars
      PROVE  CallsAreNamed'
  BY <1>6 DEF vars, CallsAreNamed, Presented, Granted, Forged
<1> QED
  BY <1>1, <1>2, <1>3, <1>4, <1>5, <1>6 DEF Next

LEMMA SecretsNext == IInv /\ [Next]_vars => SecretsAreOld'
<1> SUFFICES ASSUME IInv, [Next]_vars
             PROVE  SecretsAreOld'
  OBVIOUS
<1> USE DEF IInv
<1>0. \A p \in Processes : boot[p] \in Nat
  BY BoundAssumption DEF TypeOK
<1>1. ASSUME NEW p \in Processes, NEW a \in Gated, Issue(p, a)
      PROVE  SecretsAreOld'
  BY <1>0, <1>1 DEF Issue, Signed, SecretsAreOld, Secret
<1>2. ASSUME UNCHANGED <<issued, boot>>
      PROVE  SecretsAreOld'
  BY <1>2 DEF SecretsAreOld
<1>3. ASSUME NEW p \in Processes, Crash(p)
      PROVE  SecretsAreOld'
  <2>1. UNCHANGED issued /\ \A q \in Processes : boot'[q] \in Nat /\ boot[q] <= boot'[q]
    BY <1>0, <1>3 DEF Crash, TypeOK
  <2> QED
    BY <1>0, <2>1 DEF SecretsAreOld
<1>4. ASSUME NEW t \in Threads, Step(t)
      PROVE  UNCHANGED <<issued, boot>>
  BY <1>4, StepFrame
<1> QED
  BY <1>1, <1>2, <1>3, <1>4 DEF Next, Execute, Tick, vars

(* A token that the authority of t accepts carries its secret, so it was   *)
(* issued: only Issue signs with a secret of a process.                    *)
LEMMA ValidIsIssued ==
  ASSUME NEW t \in Threads, NEW a, NEW token \in Presented(a),
         ValidToken(ProcessOf[t], a, token)
  PROVE  Approves(token, a, ProcessOf[t])
  <1>1. Secret(ProcessOf[t]) # NoSecret
    BY DEF Secret, NoSecret
  <1>2. token \in Granted \cup {None, Forged(a)}
    BY DEF Presented
  <1>3. Forged(a).approval.secret = NoSecret
    BY DEF Forged
  <1> QED
    BY <1>1, <1>2, <1>3 DEF ValidToken, Approves

LEMMA CheckedNext == IInv /\ [Next]_vars => CheckedTokens'
<1> SUFFICES ASSUME IInv, [Next]_vars
             PROVE  CheckedTokens'
  OBVIOUS
<1> USE DEF IInv
<1>1. ASSUME NEW p \in Processes, NEW a \in Gated, Issue(p, a)
      PROVE  CheckedTokens'
  BY <1>1 DEF Issue, CheckedTokens, Approves, Granted, Secret
<1>2. ASSUME NEW t \in Threads, NEW a \in Actions, NEW token \in Presented(a),
             Execute(t, a, token)
      PROVE  CheckedTokens'
  <2>1. UNCHANGED <<issued, boot>>
    BY <1>2 DEF Execute
  <2> QED
    BY <1>2, <2>1, ExecuteFrame DEF CheckedTokens, Approves, Granted, Secret
<1>3. ASSUME NEW t \in Threads, Step(t)
      PROVE  CheckedTokens'
  <2>1. UNCHANGED <<issued, boot>>
    BY <1>3, StepFrame
  <2>2. ASSUME call'[t].pc = "consume"
        PROVE  /\ call[t].action \in Gated
               /\ Approves(call[t].token, call[t].action, ProcessOf[t])
    <3>1. PolicyCheck(t)
      <4>1. ASSUME NEW pc, NEW result, Goto(t, pc, result) PROVE pc = "consume"
        BY <2>2, <4>1, GotoFrame
      <4> QED
        BY <1>3, <4>1 DEF Step, UnknownTool, InvalidArguments, ConsumeToken, AuditDecision,
                          AuditIntent, RunTool, AuditOutcome
    <3>2. /\ call[t].action \in Gated
          /\ ValidToken(ProcessOf[t], call[t].action, call[t].token)
      BY <2>2, <3>1, GotoFrame DEF PolicyCheck
    <3>3. call[t].token \in Presented(call[t].action)
      BY <3>1 DEF PolicyCheck, CallsAreNamed
    <3> QED
      BY <3>2, <3>3, ValidIsIssued
  <2> QED
    BY <1>3, <2>1, <2>2, StepMoves DEF CheckedTokens, Approves, Granted, Secret
<1>4. ASSUME Tick \/ UNCHANGED vars
      PROVE  CheckedTokens'
  BY <1>4 DEF Tick, vars, CheckedTokens, Approves, Granted, Secret
<1>5. ASSUME NEW p \in Processes, Crash(p)
      PROVE  CheckedTokens'
  <2>1. UNCHANGED issued /\ \A q \in Processes \ {p} : boot'[q] = boot[q]
    BY <1>5 DEF Crash, TypeOK
  <2> QED
    BY <1>5, <2>1, CrashFrame, ProcessAssumption DEF CheckedTokens, Approves, Granted, Secret
<1> QED
  BY <1>1, <1>2, <1>3, <1>4, <1>5 DEF Next

LEMMA HeldNext == IInv /\ [Next]_vars => HeldTokens'
<1> SUFFICES ASSUME IInv, [Next]_vars
             PROVE  HeldTokens'
  OBVIOUS
<1> USE DEF IInv
<1>1. ASSUME NEW p \in Processes, NEW a \in Gated, Issue(p, a)
      PROVE  HeldTokens'
  BY <1>1 DEF Issue, HeldTokens, Holds, Approves, Granted, Secret
<1>2. ASSUME NEW t \in Threads, NEW a \in Actions, NEW token \in Presented(a),
             Execute(t, a, token)
      PROVE  HeldTokens'
  <2>1. UNCHANGED <<issued, boot, used, effects>>
    BY <1>2 DEF Execute
  <2>2. \A u \in Threads : Holds(u)' => u # t /\ Holds(u) /\ call'[u] = call[u]
    BY <1>2, ExecuteFrame DEF Holds
  <2> QED
    BY <2>1, <2>2 DEF HeldTokens, Approves, Granted, Secret
<1>3. ASSUME NEW t \in Threads, Step(t)
      PROVE  HeldTokens'
  <2>1. UNCHANGED <<issued, boot>>
    BY <1>3, StepFrame
  <2>2. \A u \in Threads : call'[u].token = call[u].token /\ call'[u].action = call[u].action
    BY <1>3, StepMoves
  <2>3. CASE ConsumeToken(t) /\ call[t].token \notin used[ProcessOf[t]]
    <3>1. /\ call[t].action \in Gated
          /\ Approves(call[t].token, call[t].action, ProcessOf[t])
      BY <2>3 DEF ConsumeToken, CheckedTokens
    <3>2. /\ used' = [used EXCEPT ![ProcessOf[t]] = @ \cup {call[t].token}]
          /\ UNCHANGED effects
      BY <2>3 DEF ConsumeToken
    <3>3. \A p \in Processes : used[p] \subseteq used'[p]
      BY <3>2 DEF TypeOK
    <3>4. call[t].token \in used'[ProcessOf[t]]
      BY <3>2, ProcessAssumption DEF TypeOK
    <3>5. \A e \in effects : e.action \in Gated => e.token # call[t].token
      BY <2>3, <3>1, ProcessAssumption DEF SpentTokens, Approves
    <3>6. \A u \in Threads \ {t} : Holds(u) => call[u].token # call[t].token
      BY <2>3, <3>1, ProcessAssumption DEF HeldTokens, Approves, Granted, Secret
    <3>7. \A u \in Threads \ {t} : Holds(u)' => Holds(u)
      BY <1>3, StepMoves DEF Holds
    <3> QED
      BY <2>1, <2>2, <3>1, <3>2, <3>3, <3>4, <3>5, <3>6, <3>7, ProcessAssumption
         DEF HeldTokens, Approves, Granted, Secret
  <2>4. CASE ~ (ConsumeToken(t) /\ call[t].token \notin used[ProcessOf[t]])
    <3>1. UNCHANGED used
      BY <1>3, <2>4, StepWrites DEF ConsumeToken
    <3>2. \A u \in Threads \ {t} : Holds(u)' => Holds(u)
      BY <1>3, StepMoves DEF Holds
    <3>3. Holds(t)' => Holds(t) /\ ~ RunTool(t)
      <4>1. ASSUME NEW pc, NEW result, Goto(t, pc, result), Holds(t)'
            PROVE  pc \in {"intent", "run"} /\ call[t].action \in Gated
        BY <2>2, <4>1, GotoFrame DEF Holds
      <4> QED
        BY <1>3, <2>4, <4>1 DEF Step, UnknownTool, InvalidArguments, PolicyCheck, ConsumeToken,
                          AuditDecision, AuditIntent, RunTool, AuditOutcome, Holds
    <3>4. \A e \in effects' : e \notin effects /\ e.action \in Gated =>
            RunTool(t) /\ Holds(t) /\ e.token = call[t].token
      BY <1>3, StepWrites DEF RunTool, Effect, Holds
    <3> QED
      BY <2>1, <2>2, <3>1, <3>2, <3>3, <3>4 DEF HeldTokens, Approves, Granted, Secret
  <2> QED
    BY <2>3, <2>4
<1>4. ASSUME Tick \/ UNCHANGED vars
      PROVE  HeldTokens'
  BY <1>4 DEF Tick, vars, HeldTokens, Holds, Approves, Granted, Secret
<1>5. ASSUME NEW p \in Processes, Crash(p)
      PROVE  HeldTokens'
  <2>1. /\ UNCHANGED <<issued, effects>>
        /\ \A q \in Processes \ {p} : boot'[q] = boot[q] /\ used'[q] = used[q]
    BY <1>5 DEF Crash, TypeOK
  <2>2. \A u \in Threads : Holds(u)' => ProcessOf[u] # p /\ Holds(u) /\ call'[u] = call[u]
    BY <1>5, CrashFrame DEF Holds
  <2> QED
    BY <2>1, <2>2, ProcessAssumption DEF HeldTokens, Approves, Granted, Secret
<1> QED
  BY <1>1, <1>2, <1>3, <1>4, <1>5 DEF Next

LEMMA SpentNext == IInv /\ [Next]_vars => SpentTokens' /\ OneEffectPerToken'
<1> SUFFICES ASSUME IInv, [Next]_vars
             PROVE  SpentTokens' /\ OneEffectPerToken'
  OBVIOUS
<1> USE DEF IInv
<1>1. ASSUME NEW p \in Processes, NEW a \in Gated, Issue(p, a)
      PROVE  SpentTokens' /\ OneEffectPerToken'
  BY <1>1 DEF Issue, SpentTokens, OneEffectPerToken, Granted, Secret
<1>2. ASSUME UNCHANGED <<issued, boot, used, effects>>
      PROVE  SpentTokens' /\ OneEffectPerToken'
  BY <1>2 DEF SpentTokens, OneEffectPerToken, Granted, Secret
<1>3. ASSUME NEW t \in Threads, Step(t)
      PROVE  SpentTokens' /\ OneEffectPerToken'
  <2>1. UNCHANGED <<issued, boot>>
    BY <1>3, StepFrame
  <2>2. \A p \in Processes : used[p] \subseteq used'[p]
    BY <1>3, StepWrites DEF ConsumeToken, TypeOK
  <2>3. ASSUME NEW e \in effects', e \notin effects, e.action \in Gated
        PROVE  /\ Approves(e.token, e.action, ProcessOf[t])
               /\ e.token \in used[ProcessOf[t]]
               /\ \A f \in effects : f.action \in Gated => f.token # e.token
    <3>1. /\ Holds(t)
          /\ e.action = call[t].action /\ e.token = call[t].token
      BY <1>3, <2>3, StepWrites DEF RunTool, Effect, Holds
    <3> QED
      BY <3>1 DEF HeldTokens
  <2>4. \A e, f \in effects' : e \notin effects /\ f \notin effects => e = f
    BY <1>3, StepWrites
  <2>5. SpentTokens'
    BY <2>1, <2>2, <2>3, ProcessAssumption DEF SpentTokens, Approves, Granted, Secret
  <2>6. OneEffectPerToken'
    BY <2>3, <2>4 DEF OneEffectPerToken
  <2> QED
    BY <2>5, <2>6
<1>4. ASSUME NEW p \in Processes, Crash(p)
      PROVE  SpentTokens' /\ OneEffectPerToken'
  <2>1. /\ UNCHANGED <<issued, effects>>
        /\ boot'[p] = boot[p] + 1
        /\ \A q \in Processes \ {p} : boot'[q] = boot[q] /\ used'[q] = used[q]
    BY <1>4 DEF Crash, TypeOK
  <2>2. boot[p] \in Nat
    BY BoundAssumption DEF TypeOK
  <2>3. \A k \in issued : k.secret # <<p, boot[p] + 1>>
    BY <2>2 DEF SecretsAreOld
  <2> QED
    BY <2>1, <2>3 DEF SpentTokens, OneEffectPerToken, Granted, Secret
<1> QED
  BY <1>1, <1>2, <1>3, <1>4 DEF Next, Execute, Tick, vars

LEMMA PhasesNext == IInv /\ [Next]_vars => Phases'
<1> SUFFICES ASSUME IInv, [Next]_vars
             PROVE  Phases'
  OBVIOUS
<1> USE DEF IInv
<1>1. ASSUME UNCHANGED <<call, log, effects>>
      PROVE  Phases'
  BY <1>1 DEF Phases, IntentOf, Effect
<1>2. ASSUME NEW t \in Threads, NEW a \in Actions, NEW token \in Presented(a),
             Execute(t, a, token)
      PROVE  Phases'
  <2>1. /\ UNCHANGED <<log, effects>>
        /\ calls \in Nat
    BY <1>2, BoundAssumption DEF Execute, TypeOK
  <2>2. \A r \in log \cup effects : r.call # calls + 1
    BY <2>1 DEF CallsAreNamed
  <2> QED
    BY <1>2, <2>1, <2>2, ExecuteFrame DEF Phases, IntentOf, Effect
<1>3. ASSUME NEW t \in Threads, Step(t)
      PROVE  Phases'
  <2>1. /\ \A r \in log' : r \notin log => r.call = call[t].id /\ r.event = call[t].pc
        /\ \A e \in effects' : e \notin effects => e = Effect(t) /\ RunTool(t)
        /\ log \subseteq log' /\ effects \subseteq effects'
    BY <1>3, StepWrites DEF Record
  <2>2. /\ call[t].pc # "idle"
        /\ \A u \in Threads : Effect(u)' = Effect(u)
        /\ \A u \in Threads : call'[u].id = call[u].id
        /\ \A u \in Threads \ {t} : call'[u] = call[u]
    BY <1>3, StepMoves DEF Effect
  <2>3. ASSUME NEW u \in Threads \ {t}
        PROVE  call'[u].pc # "idle" => call[u].id # call[t].id
    BY <2>2 DEF CallsAreNamed
  <2> DEFINE Phase(u) ==
    /\ call[u].pc \in {"called", "consume", "decision", "intent", "run"} =>
         \A e \in effects : e.call # call[u].id
    /\ call[u].pc \in {"called", "consume", "decision", "intent", "run", "outcome"} =>
         \A r \in log : r.event \in {"decision", "outcome"} => r.call # call[u].id
    /\ call[u].pc \in {"called", "consume", "intent", "run"} => call[u].result = "none"
    /\ call[u].pc = "decision" => call[u].result \in Refusals
    /\ call[u].pc = "outcome" => call[u].result \in {"completed", "tool_error"}
    /\ call[u].pc \in {"run", "outcome"} => IntentOf(Effect(u)) \in log
    /\ call[u].pc = "outcome" /\ call[u].result = "completed" => Effect(u) \in effects
  <2>4. ASSUME NEW u \in Threads \ {t}
        PROVE  Phase(u)'
    <3>1. /\ Effect(t).call = call[t].id
          /\ IntentOf(Effect(u))' = IntentOf(Effect(u))
      BY <2>2 DEF Effect, IntentOf
    <3> QED
      BY <2>1, <2>2, <2>3, <3>1 DEF Phases
  <2>5. Phase(t)'
    <3>1. ASSUME NEW pc, NEW result, Goto(t, pc, result)
          PROVE  call'[t].pc = pc /\ call'[t].result = result
      BY <3>1, GotoFrame
    <3>2. CASE UnknownTool(t) \/ InvalidArguments(t) \/ PolicyCheck(t) \/ ConsumeToken(t)
      <4>1. /\ \/ call'[t].pc \in {"consume", "intent"} /\ call'[t].result = "none"
               \/ call'[t].pc = "decision" /\ call'[t].result \in Refusals
            /\ call[t].pc \in {"called", "consume"}
            /\ UNCHANGED <<log, effects>>
        BY <3>1, <3>2 DEF UnknownTool, InvalidArguments, PolicyCheck, ConsumeToken, Refusals
      <4> QED
        BY <2>2, <4>1 DEF Phases
    <3>3. CASE AuditDecision(t) \/ AuditOutcome(t)
      BY <3>1, <3>3 DEF AuditDecision, AuditOutcome
    <3>4. CASE AuditIntent(t)
      <4>1. /\ \/ /\ call'[t].pc = "run" /\ call'[t].result = "none"
                  /\ Record(t, "intent") \in log'
               \/ call'[t].pc = "raised"
            /\ call[t].pc = "intent"
            /\ UNCHANGED effects
        BY <3>1, <3>4 DEF AuditIntent, Appended
      <4>2. Record(t, "intent") = IntentOf(Effect(t))
        BY <4>1 DEF Phases, Record, IntentOf, Effect
      <4>3. IntentOf(Effect(t))' = IntentOf(Effect(t))
        BY <2>2 DEF IntentOf
      <4> QED
        BY <2>1, <2>2, <4>1, <4>2, <4>3 DEF Phases
    <3>5. CASE RunTool(t)
      <4>1. /\ \/ call'[t].pc = "outcome" /\ call'[t].result = "completed" /\ Effect(t) \in effects'
               \/ call'[t].pc = "outcome" /\ call'[t].result = "tool_error"
               \/ call'[t].pc = "raised"
            /\ call[t].pc = "run"
            /\ UNCHANGED log
        BY <3>1, <3>5 DEF RunTool
      <4>2. IntentOf(Effect(t))' = IntentOf(Effect(t))
        BY <2>2 DEF IntentOf
      <4> QED
        BY <2>2, <4>1, <4>2 DEF Phases
    <3> QED
      BY <1>3, <3>2, <3>3, <3>4, <3>5 DEF Step
  <2> QED
    BY <2>4, <2>5 DEF Phases
<1>4. ASSUME NEW p \in Processes, Crash(p)
      PROVE  Phases'
  <2>1. UNCHANGED <<log, effects>>
    BY <1>4 DEF Crash
  <2> QED
    BY <1>4, <2>1, CrashFrame DEF Phases, IntentOf, Effect
<1> QED
  BY <1>1, <1>2, <1>3, <1>4 DEF Next, Issue, Tick, vars

LEMMA AccountNext == IInv /\ [Next]_vars => LogAccountsForEffects'
<1> SUFFICES ASSUME IInv, [Next]_vars
             PROVE  LogAccountsForEffects'
  OBVIOUS
<1> USE DEF IInv
<1>1. ASSUME UNCHANGED <<log, effects>>
      PROVE  LogAccountsForEffects'
  BY <1>1 DEF LogAccountsForEffects, IntentOf
<1>2. ASSUME NEW t \in Threads, Step(t)
      PROVE  LogAccountsForEffects'
  <2>1. /\ \A r \in log' : r \notin log => r = Record(t, call[t].pc)
        /\ \A e \in effects' : e \notin effects => e = Effect(t) /\ call[t].pc = "run"
        /\ log \subseteq log' /\ effects \subseteq effects'
        /\ log' # log => effects' = effects
    BY <1>2, StepWrites DEF RunTool
  <2>2. (\A e \in effects : IntentOf(e) \in log)'
    BY <2>1 DEF LogAccountsForEffects, Phases, IntentOf
  <2>3. (\A r \in log : r.event = "outcome" /\ r.result = "completed" =>
           \E e \in effects : e.call = r.call /\ e.action = r.action)'
    <3>1. ASSUME NEW r \in log', r \notin log, r.event = "outcome", r.result = "completed"
          PROVE  \E e \in effects' : e.call = r.call /\ e.action = r.action
      <4>1. r = Record(t, "outcome") /\ call[t].pc = "outcome"
        BY <2>1, <3>1 DEF Record
      <4>2. Effect(t) \in effects'
        BY <2>1, <3>1, <4>1 DEF Phases, Record
      <4>3. Effect(t).call = r.call /\ Effect(t).action = r.action
        BY <4>1 DEF Record, Effect
      <4> QED
        BY <4>2, <4>3
    <3> QED
      BY <2>1, <3>1 DEF LogAccountsForEffects
  <2>4. (\A r \in log : r.event = "decision" => \A e \in effects : e.call # r.call)'
    <3>1. ASSUME NEW r \in log', r \notin log, r.event = "decision", NEW e \in effects
          PROVE  e.call # r.call
      <4>1. r = Record(t, "decision") /\ call[t].pc = "decision"
        BY <2>1, <3>1 DEF Record
      <4> QED
        BY <4>1 DEF Phases, Record
    <3>2. ASSUME NEW r \in log, r.event = "decision", NEW e \in effects', e \notin effects
          PROVE  e.call # r.call
      <4>1. e.call = call[t].id /\ call[t].pc = "run"
        BY <2>1, <3>2 DEF Effect
      <4> QED
        BY <3>2, <4>1 DEF Phases
    <3> QED
      BY <2>1, <3>1, <3>2 DEF LogAccountsForEffects
  <2> QED
    BY <2>2, <2>3, <2>4 DEF LogAccountsForEffects
<1> QED
  BY <1>1, <1>2 DEF Next, Issue, Execute, Tick, Crash, vars

LEMMA ReturnsNext == IInv /\ [Next]_vars => ReturnsAreAudited'
<1> SUFFICES ASSUME IInv, [Next]_vars
             PROVE  ReturnsAreAudited'
  OBVIOUS
<1> USE DEF IInv
<1>1. ASSUME UNCHANGED <<call, log>>
      PROVE  ReturnsAreAudited'
  BY <1>1 DEF ReturnsAreAudited, Record, IntentOf, Effect
<1>2. ASSUME NEW t \in Threads, NEW a \in Actions, NEW token \in Presented(a),
             Execute(t, a, token)
      PROVE  ReturnsAreAudited'
  <2>1. UNCHANGED log
    BY <1>2 DEF Execute
  <2> QED
    BY <1>2, <2>1, ExecuteFrame DEF ReturnsAreAudited, Record, IntentOf, Effect
<1>3. ASSUME NEW t \in Threads, Step(t)
      PROVE  ReturnsAreAudited'
  <2>1. /\ \A u \in Threads \ {t} : call'[u] = call[u]
        /\ call'[t].id = call[t].id
        /\ call'[t].action = call[t].action
        /\ call'[t].token = call[t].token
        /\ log \subseteq log'
    BY <1>3, StepMoves, StepWrites
  <2>2. ASSUME NEW pc, NEW result, Goto(t, pc, result)
        PROVE  call'[t].pc = pc /\ call'[t].result = result
    BY <2>2, GotoFrame
  <2>3. ASSUME call'[t].pc = "returned"
        PROVE  \/ /\ call'[t].result \in Refusals
                  /\ Record(t, "decision")' \in log'
               \/ /\ call'[t].result \in {"completed", "tool_error"}
                  /\ Record(t, "outcome")' \in log'
               \/ /\ call'[t].result = "audit_outcome_unknown"
                  /\ IntentOf(Effect(t)) \in log'
    <3>1. CASE AuditDecision(t)
      BY <2>1, <2>2, <2>3, <3>1 DEF AuditDecision, Appended, Phases, Record
    <3>2. CASE AuditOutcome(t)
      BY <2>1, <2>2, <2>3, <3>2 DEF AuditOutcome, Appended, Phases, Record
    <3> QED
      BY <1>3, <2>2, <2>3, <3>1, <3>2 DEF Step, UnknownTool, InvalidArguments, PolicyCheck,
         ConsumeToken, AuditIntent, RunTool
  <2>4. IntentOf(Effect(t))' = IntentOf(Effect(t))
    BY <2>1 DEF IntentOf, Effect
  <2>5. \A r \in log' : r \notin log => r.call = call[t].id /\ r.event = call[t].pc
    BY <1>3, StepWrites DEF Record
  <2>6. ASSUME call'[t].pc = "raised"
        PROVE  \A r \in log' : r.call = call[t].id => r.event # "outcome"
    <3>1. \A r \in log : r.call = call[t].id => r.event # "outcome"
      BY <1>3, StepFrame DEF Phases
    <3>2. call[t].pc = "outcome" => UNCHANGED log
      BY <1>3, <2>2, <2>6 DEF Step, UnknownTool, InvalidArguments, PolicyCheck, ConsumeToken,
         AuditDecision, AuditIntent, RunTool, AuditOutcome
    <3> QED
      BY <2>5, <3>1, <3>2
  <2>7. ASSUME NEW u \in Threads \ {t}, call'[u].pc = "raised"
        PROVE  \A r \in log' : r.call = call'[u].id => r.event # "outcome"
    <3>1. call[u] = call'[u] /\ call[u].id # call[t].id
      BY <1>3, <2>1, <2>7, StepMoves DEF CallsAreNamed
    <3> QED
      BY <2>5, <2>7, <3>1 DEF ReturnsAreAudited
  <2>8. ASSUME NEW u \in Threads \ {t}, call'[u].pc = "returned"
        PROVE  /\ call'[u].result \in Refusals => Record(u, "decision")' \in log'
               /\ call'[u].result \in {"completed", "tool_error"} => Record(u, "outcome")' \in log'
               /\ call'[u].result = "audit_outcome_unknown" => IntentOf(Effect(u))' \in log'
    BY <2>1, <2>8 DEF ReturnsAreAudited, Record, IntentOf, Effect
  <2> QED
    BY <2>1, <2>3, <2>4, <2>6, <2>7, <2>8 DEF ReturnsAreAudited, Refusals
<1>4. ASSUME NEW p \in Processes, Crash(p)
      PROVE  ReturnsAreAudited'
  <2>1. UNCHANGED log
    BY <1>4 DEF Crash
  <2> QED
    BY <1>4, <2>1, CrashFrame DEF ReturnsAreAudited, Record, IntentOf, Effect
<1> QED
  BY <1>1, <1>2, <1>3, <1>4 DEF Next, Issue, Tick, vars

-----------------------------------------------------------------------------
LEMMA InvInit == Init => IInv
<1> SUFFICES ASSUME Init PROVE IInv
  OBVIOUS
<1>1. \A t \in Threads : call[t].pc = "idle"
  BY DEF Init, IdleCall
<1>2. effects = {} /\ log = {} /\ issued = {}
  BY DEF Init
<1> QED
  BY <1>1, <1>2, TypeInit
     DEF IInv, CallsAreNamed, SecretsAreOld, CheckedTokens, HeldTokens, Holds, SpentTokens, Phases,
         OneEffectPerToken, LogAccountsForEffects, ReturnsAreAudited

LEMMA InvNext == IInv /\ [Next]_vars => IInv'
  BY TypeNext, NamesNext, SecretsNext, CheckedNext, HeldNext, SpentNext, PhasesNext, AccountNext,
     ReturnsNext
     DEF IInv

LEMMA Invariance == Spec => []IInv
<1>1. Init => IInv
  BY InvInit
<1>2. IInv /\ [Next]_vars => IInv'
  BY InvNext
<1> QED
  BY <1>1, <1>2, PTL DEF Spec

(* Every reachable state of every instance is well typed.                  *)
THEOREM TypeCorrect == Spec => []TypeOK
<1>1. IInv => TypeOK
  BY DEF IInv
<1> QED
  BY <1>1, Invariance, PTL

(* No interleaving of verify calls, and no restart, lets one token string  *)
(* lead to two effects (ApprovalAuthority.used).                           *)
THEOREM TokensAreOneTime == Spec => []OneEffectPerToken
<1>1. IInv => OneEffectPerToken
  BY DEF IInv
<1> QED
  BY <1>1, Invariance, PTL

(* Two tokens of the same approval are the same string when hosts present  *)
(* a token as it was issued, so an approval then has one effect.  Without  *)
(* that hypothesis it may have more, as the respelled run shows.           *)
THEOREM ApprovalsAreOneTime == Verbatim => (Spec => []OneEffectPerApproval)
<1> SUFFICES ASSUME Verbatim PROVE Spec => []OneEffectPerApproval
  OBVIOUS
<1>1. \A k, l \in Granted : k.approval = l.approval => k = l
  BY DEF Verbatim, Granted
<1>2. IInv => OneEffectPerApproval
  BY <1>1 DEF IInv, SpentTokens, OneEffectPerToken, OneEffectPerApproval
<1> QED
  BY <1>2, Invariance, PTL

(* Every gated effect ran with a token the host issued for that action.    *)
THEOREM EffectsAreApproved == Spec => []GatedEffectsAreApproved
<1>1. IInv => GatedEffectsAreApproved
  BY DEF IInv, SpentTokens, Granted, GatedEffectsAreApproved
<1> QED
  BY <1>1, Invariance, PTL

(* The audit file accounts for every effect, whatever crashed or failed.   *)
THEOREM LogIsTruthful == Spec => []LogAccountsForEffects
<1>1. IInv => LogAccountsForEffects
  BY DEF IInv
<1> QED
  BY <1>1, Invariance, PTL

(* What execute returned can be found in the audit file, and a call that   *)
(* raised has no outcome there.                                            *)
THEOREM ResultsAreAudited == Spec => []ReturnsAreAudited
<1>1. IInv => ReturnsAreAudited
  BY DEF IInv
<1> QED
  BY <1>1, Invariance, PTL

(* The boundary implements OneTimeApproval: Issue grants, the gated runs   *)
(* of RunTool spend, and every other step leaves the promise alone.        *)
THEOREM BoundaryKeepsPromise == Spec => KeepsPromise
<1> DEFINE spent == {[use |-> e.call, approval |-> e.token] :
                       e \in {f \in effects : f.action \in Gated}}
<1>1. Init => Promise!Init
  BY DEF Init, Granted, Promise!Init
<1>2. IInv /\ IInv' /\ [Next]_vars => [Promise!Next]_Promise!vars
  <2> SUFFICES ASSUME IInv, IInv', [Next]_vars
               PROVE  [Promise!Next]_Promise!vars
    OBVIOUS
  <2>1. ASSUME NEW p \in Processes, NEW a \in Gated, Issue(p, a)
        PROVE  Promise!Next
    <3>1. issued \subseteq issued' /\ issued' \subseteq Approvals /\ UNCHANGED effects
      BY <2>1 DEF Issue, IInv, TypeOK
    <3>2. Granted \subseteq Granted' /\ Granted' \subseteq Tokens
      BY <3>1 DEF Granted, Tokens
    <3> QED
      BY <3>1, <3>2 DEF Promise!Next, Promise!Grant
  <2>2. ASSUME NEW t \in Threads, Step(t), effects' # effects, call[t].action \in Gated
        PROVE  Promise!Next
    <3>1. /\ RunTool(t)
          /\ effects' = effects \cup {Effect(t)}
      BY <2>2, StepWrites DEF IInv
    <3>2. Holds(t)
      BY <2>2, <3>1 DEF RunTool, Holds
    <3>3. /\ call[t].token \in Granted
          /\ \A e \in effects : e.action \in Gated => e.token # call[t].token
      BY <3>2 DEF IInv, HeldTokens, Approves
    <3>4. call[t].id \in 1 .. MaxCalls
      BY <2>2, StepMoves, BoundAssumption DEF IInv, TypeOK, CallsAreNamed
    <3>5. spent' = spent \cup {[use |-> call[t].id, approval |-> call[t].token]}
      BY <2>2, <3>1 DEF Effect
    <3>6. \A s \in spent : s.approval # call[t].token
      BY <3>3
    <3>7. UNCHANGED Granted
      BY <2>2, StepFrame DEF IInv, Granted
    <3>8. call[t].token \in Tokens
      BY <3>3 DEF IInv, TypeOK, Granted, Tokens
    <3> QED
      BY <3>3, <3>4, <3>5, <3>6, <3>7, <3>8 DEF Promise!Next, Promise!Spend
  <2>3. ASSUME NEW t \in Threads, Step(t), effects' = effects \/ call[t].action \notin Gated
        PROVE  UNCHANGED Promise!vars
    <3>1. {f \in effects : f.action \in Gated}' = {f \in effects : f.action \in Gated}
      BY <2>3, StepWrites DEF IInv, Effect
    <3> QED
      BY <2>3, <3>1, StepFrame DEF IInv, Granted, Promise!vars
  <2>4. ASSUME UNCHANGED <<issued, effects>>
        PROVE  UNCHANGED Promise!vars
    BY <2>4 DEF Granted, Promise!vars
  <2> QED
    BY <2>1, <2>2, <2>3, <2>4 DEF Next, Execute, Tick, Crash, vars
<1> QED
  BY <1>1, <1>2, Invariance, PTL DEF Spec, KeepsPromise, Promise!Spec
=============================================================================
