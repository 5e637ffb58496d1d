---------------------------- MODULE WebChat_proofs -----------------------------
(***************************************************************************)
(* Theorems about WebChat, for any number of servers on one workspace, any *)
(* actions, restarts, calls and turns of the planner: the chat never leads *)
(* execute to a state its own proofs exclude, what runs was approved, it   *)
(* runs once, and what the table, the cards and the replies say is so.     *)
(***************************************************************************)
EXTENDS WebChat, AgentExecution_proofs, FiniteSetTheorems

-----------------------------------------------------------------------------
(* The inductive invariant, as a conjunction of named parts, on top of the *)
(* one of AgentExecution.                                                  *)

(* Server s is answering a request about the action chat[s].action.        *)
Active(s) == chat[s].phase \in {"proposed", "card", "decided", "issued", "running"}

(* A server is in execute only for the action it proposes or runs, without *)
(* a token or with the one it was issued.                                  *)
CallsMatchChats == \A s \in Threads :
  /\ ~ Done(s) => chat[s].phase \in {"proposed", "running"}
  /\ chat[s].phase \in {"proposed", "running"} =>
       call[s].pc # "idle" /\ call[s].action = chat[s].action
  /\ chat[s].phase = "proposed" => call[s].token = None
  /\ chat[s].phase = "issued" => chat[s].token \in Granted
  /\ call[s].result = "approval_required" => call[s].action \in Gated

(* How far a request has come, and what its row says then.                 *)
ChatsMatchRows ==
  /\ \A a \in Actions : rows[a].status # "none" => a \in Gated \cap proposed
  /\ \A s \in Threads :
       LET status == rows[chat[s].action].status
       IN /\ Active(s) => chat[s].action \in proposed
          /\ chat[s].phase = "proposed" => status = "none"
          /\ chat[s].phase = "card" => status \in {"pending", "interrupted"}
          /\ chat[s].phase = "decided" =>
               status = chat[s].decision /\ chat[s].decision \in {"approved", "denied"}
          /\ chat[s].phase \in {"issued", "running"} => status = "approved"
          /\ chat[s].phase \in {"planning", "proposed", "card"} => chat[s].decision = "none"

(* A request is with one server.                                           *)
OneOwner == \A s, u \in Threads : s # u /\ Active(s) =>
  /\ chat[s].action \notin cards[u]
  /\ Active(u) => chat[u].action # chat[s].action

(* An effect of an action a server is still about is its own call's.       *)
EffectsAreOwned ==
  /\ \A e \in effects : e.action \in proposed
  /\ \A s \in Threads : Active(s) =>
       \A e \in effects : e.action = chat[s].action =>
         chat[s].phase \in {"proposed", "running"} /\ e = Effect(s)

(* A reply to a decision is about a request that no server is about any    *)
(* more.                                                                   *)
Settled(a) == a \in proposed /\ \A u \in Threads : Active(u) => chat[u].action # a
Completed(a) == \E r \in log : r.action = a /\ r.event = "outcome" /\ r.result = "completed"
RanOnce(a) == /\ rows[a].status = "approved"
              /\ \E e \in effects : e.action = a
              /\ Completed(a)

Excused(s) == chat[s].reply \in {"error", "dropped"} /\ chat[s].decision # "none"
Judged(s) == chat[s].reply \in {"denied", "ran_once", "failed"} \/ Excused(s)

ReplyIsFinal(s) ==
  /\ chat[s].reply # "none" => chat[s].phase = "idle"
  /\ Judged(s) => /\ Settled(chat[s].action)
                  /\ rows[chat[s].action].status \in {"approved", "denied"}
  /\ chat[s].reply = "denied" => rows[chat[s].action].status = "denied"
  /\ chat[s].reply = "ran_once" => RanOnce(chat[s].action)
  /\ chat[s].reply = "failed" => rows[chat[s].action].status = "approved"
  /\ Excused(s) => ~ Completed(chat[s].action)

RepliesAreFinal == \A s \in Threads : ReplyIsFinal(s)

ChatRules == CallsMatchChats /\ ChatsMatchRows /\ OneOwner /\ CardsMatchRows
Outcomes == /\ OnlyApprovedActionsRun /\ OneEffectPerRequest /\ RequestsAreAudited
            /\ EffectsAreOwned /\ RepliesAreFinal

CInv == IInv /\ ChatTypeOK /\ ChatRules /\ Outcomes

-----------------------------------------------------------------------------
(* What the ways to change a request leave alone.                          *)
LEMMA EnterFrame ==
  ASSUME chat \in [Threads -> Chats], NEW s \in Threads, NEW phase, Enter(s, phase)
  PROVE  /\ chat'[s].phase = phase
         /\ chat'[s].steps = chat[s].steps /\ chat'[s].action = chat[s].action
         /\ chat'[s].decision = chat[s].decision /\ chat'[s].token = chat[s].token
         /\ chat'[s].reply = chat[s].reply
         /\ \A u \in Threads \ {s} : chat'[u] = chat[u]
  BY DEF Enter, Chats

LEMMA AnswerFrame ==
  ASSUME chat \in [Threads -> Chats], NEW s \in Threads,
         NEW reply \in Responses \cup {"dropped"}, Answer(s, reply)
  PROVE  /\ chat' \in [Threads -> Chats]
         /\ chat'[s].phase = "idle" /\ chat'[s].action = chat[s].action
         /\ chat'[s].decision = chat[s].decision
         /\ chat'[s].reply = reply
         /\ \A u \in Threads \ {s} : chat'[u] = chat[u]
<1> DEFINE c == [IdleChat EXCEPT !.action = chat[s].action, !.decision = chat[s].decision,
                                 !.reply = reply]
<1>1. c \in Chats
  <2>1. /\ chat[s].action \in Actions \cup {None}
        /\ chat[s].decision \in {"none", "approved", "denied"}
    BY DEF Chats
  <2>2. 0 \in 0 .. MaxSteps
    BY ServerAssumption
  <2> QED
    BY <2>1, <2>2 DEF Chats, IdleChat
<1>2. /\ c.phase = "idle" /\ c.action = chat[s].action
      /\ c.decision = chat[s].decision /\ c.reply = reply
  BY DEF IdleChat
<1>3. chat' = [chat EXCEPT ![s] = c]
  BY DEF Answer
<1> HIDE DEF c
<1> QED
  BY <1>1, <1>2, <1>3

LEMMA IdleChatType == IdleChat \in Chats
  BY ServerAssumption DEF IdleChat, Chats

(* Only a gated action is answered with approval_required.                 *)
LEMMA OnlyGatedAreBlocked ==
  ASSUME IInv, NEW t \in Threads, Step(t),
         call[t].result = "approval_required" => call[t].action \in Gated
  PROVE  call'[t].result = "approval_required" => call[t].action \in Gated
<1>1. CASE UnknownTool(t) \/ InvalidArguments(t)
  BY <1>1, GotoFrame DEF IInv, UnknownTool, InvalidArguments
<1>2. CASE PolicyCheck(t)
  BY <1>2, GotoFrame DEF IInv, PolicyCheck
<1>3. CASE ConsumeToken(t)
  BY <1>3, GotoFrame DEF IInv, ConsumeToken, CheckedTokens
<1>4. CASE AuditDecision(t) \/ AuditIntent(t) \/ RunTool(t) \/ AuditOutcome(t)
  BY <1>4, GotoFrame DEF IInv, AuditDecision, AuditIntent, RunTool, AuditOutcome
<1> QED
  BY <1>1, <1>2, <1>3, <1>4 DEF Step

-----------------------------------------------------------------------------
(* The chat uses the boundary as AgentExecution says a host may: every     *)
(* step of the chat is one of the boundary, or leaves it alone.            *)
LEMMA BoundaryStep == CInv /\ [ChatNext]_allVars => [Next]_vars
<1> SUFFICES ASSUME CInv, [ChatNext]_allVars
             PROVE  [Next]_vars
  OBVIOUS
<1>1. ASSUME NEW s \in Threads, NEW a \in Actions, Propose(s, a)
      PROVE  Next
  <2>1. None \in Presented(a)
    BY DEF Presented
  <2> QED
    BY <1>1, <2>1 DEF Propose, Next
<1>2. ASSUME NEW s \in Threads, IssueApproved(s)
      PROVE  Next
  <2>1. chat[s].action \in Gated
    BY <1>2 DEF CInv, ChatRules, ChatsMatchRows, IssueApproved, ChatTypeOK, Chats, Active
  <2>2. ProcessOf[s] \in Processes
    BY ProcessAssumption
  <2> QED
    BY <1>2, <2>1, <2>2 DEF IssueApproved, Next
<1>3. ASSUME NEW s \in Threads, RunApproved(s)
      PROVE  Next
  <2>1. chat[s].action \in Gated /\ chat[s].token \in Granted
    BY <1>3 DEF CInv, ChatRules, ChatsMatchRows, CallsMatchChats, RunApproved, ChatTypeOK, Active
  <2>2. chat[s].action \in Actions /\ chat[s].token \in Presented(chat[s].action)
    BY <2>1 DEF Gated, Presented
  <2> QED
    BY <1>3, <2>2 DEF RunApproved, Next
<1>4. ASSUME NEW s \in Threads, Stop(s)
      PROVE  Next
  BY <1>4, ProcessAssumption DEF Stop, Next
<1>5. ASSUME NEW s \in Threads,
             \/ Handle(s) \/ StopPlanning(s) \/ HandleResult(s) \/ StoreCard(s)
             \/ RejectMismatch(s) \/ Deny(s) \/ ReportRun(s) \/ Start(s)
      PROVE  UNCHANGED vars
  BY <1>5 DEF Handle, StopPlanning, HandleResult, StoreCard, RejectMismatch, Deny, ReportRun, Start
<1>6. ASSUME NEW s \in Threads, NEW a \in Actions, NEW d \in {"approved", "denied"}, Decide(s, a, d)
      PROVE  UNCHANGED vars
  BY <1>6 DEF Decide
<1>7. CASE UNCHANGED allVars
  BY <1>7 DEF allVars
<1> QED
  BY <1>1, <1>2, <1>3, <1>4, <1>5, <1>6, <1>7 DEF ChatNext, Serve, Next

LEMMA BoundaryNext == CInv /\ [ChatNext]_allVars => IInv'
  BY BoundaryStep, InvNext DEF CInv

-----------------------------------------------------------------------------
(* Typing.                                                                 *)
LEMMA ChatTypeNext == CInv /\ [ChatNext]_allVars => ChatTypeOK'
<1> SUFFICES ASSUME CInv, [ChatNext]_allVars
             PROVE  ChatTypeOK'
  OBVIOUS
<1>0. TypeOK' /\ ChatTypeOK
  BY BoundaryNext DEF CInv, IInv
<1> USE DEF ChatTypeOK
<1>1. ASSUME NEW s \in Threads, Handle(s)
      PROVE  ChatTypeOK'
  <2>1. [IdleChat EXCEPT !.phase = "planning"] \in Chats
    BY ServerAssumption DEF IdleChat, Chats
  <2> QED
    BY <1>0, <1>1, <2>1 DEF Handle
<1>2. ASSUME NEW s \in Threads, NEW a \in Actions, Propose(s, a)
      PROVE  ChatTypeOK'
  <2>1. chat[s].steps + 1 \in 0 .. MaxSteps
    BY <1>0, <1>2, ServerAssumption DEF Propose, Chats
  <2>2. [chat[s] EXCEPT !.phase = "proposed", !.steps = @ + 1, !.action = a] \in Chats
    BY <1>0, <2>1 DEF Chats
  <2> QED
    BY <1>0, <1>2, <2>2 DEF Propose
<1>3. ASSUME NEW s \in Threads, StopPlanning(s) \/ StoreCard(s) \/ RejectMismatch(s) \/ Deny(s)
      PROVE  ChatTypeOK'
  <2>1. \E reply \in Responses \cup {"dropped"} : Answer(s, reply)
    BY <1>3 DEF StopPlanning, StoreCard, RejectMismatch, Deny, Fail, Responses
  <2>2. chat' \in [Threads -> Chats]
    BY <1>0, <2>1, AnswerFrame
  <2>3. CASE StoreCard(s)
    <3>1. chat[s].action \in Actions
      BY <1>0, <2>3 DEF StoreCard, CInv, ChatRules, ChatsMatchRows, Active
    <3> QED
      BY <1>0, <2>2, <2>3, <3>1 DEF StoreCard
  <2>4. CASE StopPlanning(s) \/ RejectMismatch(s) \/ Deny(s)
    BY <1>0, <2>2, <2>4 DEF StopPlanning, RejectMismatch, Deny, DropCard
  <2> QED
    BY <1>3, <2>3, <2>4
<1>4. ASSUME NEW s \in Threads, HandleResult(s)
      PROVE  ChatTypeOK'
  <2>1. chat' \in [Threads -> Chats]
    <3>1. CASE \E reply \in Responses \cup {"dropped"} : Answer(s, reply)
      BY <1>0, <3>1, AnswerFrame
    <3>2. CASE Enter(s, "planning") \/ Enter(s, "card")
      BY <1>0, <3>2 DEF Enter, Chats
    <3> QED
      BY <1>4, <3>1, <3>2 DEF HandleResult, Fail, Responses
  <2>2. [status |-> "pending", expires |-> now + RequestTTL] \in Rows
    BY <1>0, BoundAssumption, ServerAssumption DEF Rows, TypeOK
  <2> QED
    BY <1>0, <1>4, <2>1, <2>2 DEF HandleResult
<1>5. ASSUME NEW s \in Threads, NEW a \in Actions, NEW d \in {"approved", "denied"}, Decide(s, a, d)
      PROVE  ChatTypeOK'
  <2>1. [IdleChat EXCEPT !.phase = "decided", !.action = a, !.decision = d] \in Chats
    <3>1. 0 \in 0 .. MaxSteps
      BY ServerAssumption
    <3> QED
      BY <3>1 DEF IdleChat, Chats
  <2>2. [rows[a] EXCEPT !.status = d] \in Rows
    BY <1>0 DEF Rows
  <2> QED
    BY <1>0, <1>5, <2>1, <2>2 DEF Decide
<1>6. ASSUME NEW s \in Threads, IssueApproved(s)
      PROVE  ChatTypeOK'
  <2> DEFINE token == [approval |-> Signed(ProcessOf[s], chat[s].action), spelling |-> AsIssued]
  <2>1. Signed(ProcessOf[s], chat[s].action) \in Approvals
    BY <1>0, <1>6 DEF IssueApproved, Issue, TypeOK
  <2>2. token \in Tokens
    BY <2>1, SpellingAssumption DEF Tokens
  <2> HIDE DEF token
  <2>3. [chat[s] EXCEPT !.phase = "issued", !.token = token] \in Chats
    BY <1>0, <2>2 DEF Chats
  <2>4. chat' = [chat EXCEPT ![s] = [chat[s] EXCEPT !.phase = "issued", !.token = token]]
    BY <1>0, <1>6 DEF IssueApproved, token
  <2> QED
    BY <1>0, <1>6, <2>3, <2>4 DEF IssueApproved, DropCard
<1>7. ASSUME NEW s \in Threads, RunApproved(s)
      PROVE  ChatTypeOK'
  BY <1>0, <1>7 DEF RunApproved, Enter, Chats
<1>8. ASSUME NEW s \in Threads, ReportRun(s)
      PROVE  ChatTypeOK'
  <2>1. \E reply \in Responses \cup {"dropped"} : Answer(s, reply)
    BY <1>8 DEF ReportRun, Fail, Responses
  <2>2. chat' \in [Threads -> Chats]
    BY <1>0, <2>1, AnswerFrame
  <2> QED
    BY <1>0, <1>8, <2>2 DEF ReportRun
<1>9. ASSUME NEW s \in Threads, Stop(s)
      PROVE  ChatTypeOK'
  BY <1>0, <1>9, IdleChatType DEF Stop
<1>10. ASSUME NEW s \in Threads, Start(s)
       PROVE  ChatTypeOK'
  <2>1. \A a \in Actions : [rows[a] EXCEPT !.status = "interrupted"] \in Rows
    BY <1>0 DEF Rows
  <2> QED
    BY <1>0, <1>10, <2>1 DEF Start
<1>11. CASE UNCHANGED chatVars \/ UNCHANGED allVars
  BY <1>0, <1>11 DEF chatVars, allVars
<1> QED
  BY <1>1, <1>2, <1>3, <1>4, <1>5, <1>6, <1>7, <1>8, <1>9, <1>10, <1>11 DEF ChatNext, Serve

-----------------------------------------------------------------------------
(* The steps that end a request or take it back to the planner.  Server s  *)
(* leaves its action for good, with a card if it had stored its request.   *)
Rests(s) ==
  /\ Done(s)
  /\ UNCHANGED <<vars, rows, up, proposed>>
  /\ chat'[s].phase \in {"idle", "planning"}
  /\ chat'[s].phase = "planning" => chat'[s].decision = "none"
  /\ \A u \in Threads \ {s} : chat'[u] = chat[u]
  /\ \A u \in Threads \ {s} : cards'[u] = cards[u]
  /\ \/ chat[s].phase \in {"idle", "planning", "proposed", "issued", "running"}
        /\ cards'[s] = cards[s]
     \/ chat[s].phase = "card" /\ cards'[s] = cards[s] \cup {chat[s].action}
     \/ chat[s].phase = "decided" /\ cards'[s] = cards[s] \ {chat[s].action}

LEMMA RestKeepsRules ==
  ASSUME CInv, NEW s \in Threads, Rests(s)
  PROVE  ChatRules'
<1> USE DEF CInv, ChatRules
<1>0. /\ chat \in [Threads -> Chats] /\ rows \in [Actions -> Rows]
      /\ cards \in [Threads -> SUBSET Actions]
  BY DEF ChatTypeOK
<1>1. CallsMatchChats'
  BY DEF CallsMatchChats, Granted, Rests, Done, vars
<1>2. ChatsMatchRows'
  BY DEF ChatsMatchRows, Rests, Active
<1>3. OneOwner'
  <2>1. \A u, v \in Threads : u # v /\ Active(u)' => Active(u) /\ chat'[u] = chat[u]
    BY DEF Rests, Active
  <2>2. \A u \in Threads \ {s} : Active(u) => chat[u].action \notin cards'[s]
    BY DEF Rests, OneOwner, Active
  <2> QED
    BY <2>1, <2>2 DEF Rests, OneOwner, Active
<1>4. CardsMatchRows'
  <2>1. \A a \in Actions : rows[a].status = "pending" =>
          \E u \in Threads : \/ ~ up[u]
                             \/ a \in cards'[u]
                             \/ chat'[u].phase = "card" /\ chat'[u].action = a
    <3> SUFFICES ASSUME NEW a \in Actions, rows[a].status = "pending"
                 PROVE  \E u \in Threads : \/ ~ up[u]
                                           \/ a \in cards'[u]
                                           \/ chat'[u].phase = "card" /\ chat'[u].action = a
      OBVIOUS
    <3>1. PICK u \in Threads : \/ ~ up[u]
                               \/ a \in cards[u]
                               \/ chat[u].phase = "card" /\ chat[u].action = a
      BY DEF CardsMatchRows
    <3>2. CASE u # s
      BY <3>1, <3>2 DEF Rests
    <3>3. CASE u = s
      <4>1. chat[s].phase = "decided" => chat[s].action # a
        BY DEF ChatsMatchRows
      <4> QED
        BY <3>1, <3>3, <4>1 DEF Rests
    <3> QED
      BY <3>2, <3>3
  <2>2. ASSUME NEW u \in Threads, NEW a \in cards'[u]
        PROVE  /\ \A v \in Threads \ {u} : a \notin cards'[v]
               /\ \/ rows[a].status \in {"pending", "interrupted"}
                  \/ chat'[u].phase = "decided" /\ chat'[u].action = a
    <3>1. CASE a \in cards[u]
      <4>1. \A v \in Threads \ {u} : a \notin cards[v]
        BY <3>1 DEF CardsMatchRows
      <4>2. \/ rows[a].status \in {"pending", "interrupted"}
            \/ chat[u].phase = "decided" /\ chat[u].action = a
        BY <3>1 DEF CardsMatchRows
      <4>3. u # s /\ chat[s].phase = "card" => chat[s].action # a
        BY <3>1 DEF OneOwner, Active
      <4>4. CASE u = s
        BY <2>2, <4>1, <4>2, <4>4 DEF Rests
      <4>5. CASE u # s
        BY <2>2, <4>1, <4>2, <4>3, <4>5 DEF Rests
      <4> QED
        BY <4>4, <4>5
    <3>2. CASE a \notin cards[u]
      <4>1. u = s /\ chat[s].phase = "card" /\ a = chat[s].action
        BY <2>2, <3>2 DEF Rests
      <4>2. rows[a].status \in {"pending", "interrupted"}
        BY <4>1 DEF ChatsMatchRows
      <4>3. \A v \in Threads \ {s} : a \notin cards[v]
        BY <4>1 DEF OneOwner, Active
      <4> QED
        BY <4>1, <4>2, <4>3 DEF Rests
    <3> QED
      BY <3>1, <3>2
  <2>3. rows' = rows /\ up' = up
    BY DEF Rests
  <2> QED
    BY <2>1, <2>2, <2>3 DEF CardsMatchRows
<1> QED
  BY <1>1, <1>2, <1>3, <1>4

LEMMA RestKeepsOutcomes ==
  ASSUME CInv, NEW s \in Threads, Rests(s), ReplyIsFinal(s)'
  PROVE  Outcomes'
<1> USE DEF CInv, Outcomes
<1>0. UNCHANGED <<call, log, effects, rows, proposed>>
  BY DEF Rests, vars
<1>1. OnlyApprovedActionsRun' /\ OneEffectPerRequest' /\ RequestsAreAudited'
  BY <1>0 DEF OnlyApprovedActionsRun, OneEffectPerRequest, RequestsAreAudited
<1>2. \A u \in Threads : Active(u)' => u # s /\ Active(u) /\ chat'[u] = chat[u]
  BY DEF Rests, Active
<1>3. EffectsAreOwned'
  BY <1>0, <1>2 DEF EffectsAreOwned, Effect
<1>4. ASSUME NEW u \in Threads, u # s
      PROVE  ReplyIsFinal(u)'
  <2>1. chat'[u] = chat[u]
    BY <1>4 DEF Rests
  <2>2. ReplyIsFinal(u)
    BY DEF RepliesAreFinal
  <2> QED
    BY <1>0, <1>2, <2>1, <2>2 DEF ReplyIsFinal, Settled, RanOnce, Judged, Excused, Completed, Active
<1> QED
  BY <1>1, <1>3, <1>4 DEF RepliesAreFinal

LEMMA RestSteps ==
  ASSUME CInv, NEW s \in Threads,
         \/ Handle(s) \/ StopPlanning(s) \/ StoreCard(s) \/ RejectMismatch(s) \/ Deny(s)
         \/ ReportRun(s)
         \/ HandleResult(s) /\ UNCHANGED rows
  PROVE  Rests(s) /\ ReplyIsFinal(s)'
<1> USE DEF CInv, ChatRules, Outcomes
<1>0. /\ chat \in [Threads -> Chats] /\ cards \in [Threads -> SUBSET Actions]
      /\ rows \in [Actions -> Rows] /\ call \in [Threads -> Calls]
  BY DEF ChatTypeOK, TypeOK
<1>1. ~ Done(s) => chat[s].phase \in {"proposed", "running"}
  BY DEF CallsMatchChats
<1>2. CASE Handle(s)
  <2>1. /\ [IdleChat EXCEPT !.phase = "planning"].phase = "planning"
        /\ [IdleChat EXCEPT !.phase = "planning"].reply = "none"
        /\ [IdleChat EXCEPT !.phase = "planning"].decision = "none"
    BY DEF IdleChat
  <2>2. /\ chat'[s].phase = "planning" /\ chat'[s].reply = "none" /\ chat'[s].decision = "none"
        /\ \A u \in Threads \ {s} : chat'[u] = chat[u]
    BY <1>0, <1>2, <2>1 DEF Handle
  <2>3. Rests(s)
    BY <1>1, <1>2, <2>2 DEF Handle, Rests
  <2> QED
    BY <2>2, <2>3 DEF ReplyIsFinal, Judged, Excused
<1>3. CASE StopPlanning(s) \/ StoreCard(s)
  <2>1. PICK reply \in {"ok", "error", "dropped"} : Answer(s, reply)
    BY <1>3 DEF StopPlanning, StoreCard, Fail
  <2>2. /\ chat'[s].phase = "idle" /\ chat'[s].reply = reply
        /\ chat'[s].decision = "none"
        /\ \A u \in Threads \ {s} : chat'[u] = chat[u]
    BY <1>0, <1>3, <2>1, AnswerFrame DEF Responses, StopPlanning, StoreCard, ChatsMatchRows
  <2>3. Rests(s)
    BY <1>0, <1>1, <1>3, <2>2 DEF StopPlanning, StoreCard, Rests
  <2> QED
    BY <2>2, <2>3 DEF ReplyIsFinal, Judged, Excused
<1>4. CASE Deny(s) \/ RejectMismatch(s)
  <2>1. /\ chat'[s].phase = "idle"
        /\ \/ Deny(s) /\ chat'[s].reply = "denied"
           \/ RejectMismatch(s) /\ chat'[s].reply = "error"
        /\ chat'[s].action = chat[s].action
        /\ \A u \in Threads \ {s} : chat'[u] = chat[u]
    BY <1>0, <1>4, AnswerFrame DEF Deny, RejectMismatch, Responses
  <2>2. Rests(s)
    BY <1>0, <1>1, <1>4, <2>1 DEF Deny, RejectMismatch, DropCard, Rests
  <2>3. /\ rows'[chat[s].action].status \in {"approved", "denied"}
        /\ Deny(s) => rows'[chat[s].action].status = "denied"
        /\ chat[s].action \in proposed'
    BY <1>4 DEF Deny, RejectMismatch, ChatsMatchRows, Active
  <2>4. \A u \in Threads : Active(u)' => chat'[u].action # chat[s].action
    BY <1>4, <2>1, <2>2 DEF Deny, RejectMismatch, OneOwner, Active
  <2>5. Settled(chat[s].action)'
    BY <2>1, <2>3, <2>4 DEF Settled
  <2>6. ~ Completed(chat[s].action)
    <3>1. \A e \in effects : e.action # chat[s].action
      BY <1>4 DEF Deny, RejectMismatch, EffectsAreOwned, Active
    <3> QED
      BY <3>1 DEF Completed, IInv, LogAccountsForEffects
  <2>7. ~ Completed(chat[s].action)'
    BY <2>1, <2>2, <2>6 DEF Completed, Rests, vars
  <2> QED
    BY <2>1, <2>2, <2>3, <2>5, <2>7 DEF ReplyIsFinal, Judged, Excused
<1>5. CASE HandleResult(s) /\ UNCHANGED rows
  <2>1. rows' # [rows EXCEPT ![chat[s].action] = [status |-> "pending", expires |-> now + RequestTTL]]
    <3>1. chat[s].action \in Actions /\ rows[chat[s].action].status = "none"
      BY <1>5 DEF HandleResult, ChatsMatchRows, Active, ChatTypeOK
    <3> QED
      BY <1>0, <1>5, <3>1
  <2>2. /\ chat'[s].phase \in {"idle", "planning"}
        /\ chat'[s].reply \in {"ok", "error", "dropped"} => chat'[s].phase = "idle"
        /\ chat'[s].reply \in {"ok", "error", "dropped", "none"}
        /\ chat'[s].decision = "none"
        /\ \A u \in Threads \ {s} : chat'[u] = chat[u]
    <3>1. chat[s].reply = "none" /\ chat[s].decision = "none"
      BY <1>5 DEF HandleResult, RepliesAreFinal, ReplyIsFinal, ChatsMatchRows
    <3>2. CASE Enter(s, "planning")
      BY <1>0, <3>1, <3>2, EnterFrame
    <3>3. CASE \E reply \in {"ok", "error", "dropped"} : Answer(s, reply)
      BY <1>0, <3>1, <3>3, AnswerFrame DEF Responses
    <3> QED
      BY <1>5, <2>1, <3>2, <3>3 DEF HandleResult, Fail
  <2>4. Rests(s)
    BY <1>5, <2>2 DEF HandleResult, Rests, Done
  <2> QED
    BY <2>2, <2>4 DEF ReplyIsFinal, Judged, Excused
<1>6. CASE ReportRun(s)
  <2>1. PICK reply \in {"ran_once", "failed", "error", "dropped"} :
          /\ Answer(s, reply)
          /\ reply = "ran_once" => call[s].pc = "returned" /\ call[s].result = "completed"
          /\ reply \in {"error", "dropped"} => call[s].pc = "raised"
    BY <1>6 DEF ReportRun, Fail
  <2>2. /\ chat'[s].phase = "idle" /\ chat'[s].reply = reply
        /\ chat'[s].action = chat[s].action
        /\ \A u \in Threads \ {s} : chat'[u] = chat[u]
    BY <1>0, <2>1, AnswerFrame DEF Responses
  <2>3. Rests(s)
    BY <1>6, <2>2 DEF ReportRun, Rests, Done
  <2>4. /\ rows'[chat[s].action].status = "approved" /\ chat[s].action \in proposed'
        /\ call[s].action = chat[s].action
    BY <1>6 DEF ReportRun, ChatsMatchRows, CallsMatchChats, Active
  <2>5. \A u \in Threads : Active(u)' => chat'[u].action # chat[s].action
    BY <1>6, <2>2, <2>3 DEF ReportRun, OneOwner, Active
  <2>6. ASSUME reply = "ran_once"
        PROVE  /\ Completed(chat[s].action)
               /\ \E e \in effects : e.action = chat[s].action
    <3>1. Record(s, "outcome") \in log
      BY <2>1, <2>6 DEF IInv, ReturnsAreAudited
    <3>2. /\ Record(s, "outcome").action = chat[s].action
          /\ Record(s, "outcome").event = "outcome" /\ Record(s, "outcome").result = "completed"
      BY <2>1, <2>4, <2>6 DEF Record
    <3>3. PICK e \in effects : e.action = chat[s].action
      BY <3>1, <3>2 DEF IInv, LogAccountsForEffects
    <3> QED
      BY <3>1, <3>2, <3>3 DEF Completed
  <2>7. ASSUME reply \in {"error", "dropped"}
        PROVE  ~ Completed(chat[s].action)
    <3> SUFFICES ASSUME NEW r \in log, r.action = chat[s].action,
                        r.event = "outcome", r.result = "completed"
                 PROVE  FALSE
      BY DEF Completed
    <3>1. PICK e \in effects : e.call = r.call /\ e.action = r.action
      BY DEF IInv, LogAccountsForEffects
    <3>2. e = Effect(s)
      BY <1>6, <3>1 DEF ReportRun, EffectsAreOwned, Active
    <3>3. r.call = call[s].id
      BY <3>1, <3>2 DEF Effect
    <3> QED
      BY <2>1, <2>7, <3>3 DEF IInv, ReturnsAreAudited
  <2>8. UNCHANGED <<log, effects>>
    BY <2>3 DEF Rests, vars
  <2>9. Settled(chat[s].action)'
    BY <2>2, <2>4, <2>5 DEF Settled
  <2> QED
    BY <2>2, <2>3, <2>4, <2>6, <2>7, <2>8, <2>9
       DEF ReplyIsFinal, RanOnce, Completed, Judged, Excused
<1> QED
  BY <1>2, <1>3, <1>4, <1>5, <1>6

-----------------------------------------------------------------------------
(* A reply stays true when server s turns to another action.               *)
LEMMA ReplyStays ==
  ASSUME NEW s \in Threads, NEW u \in Threads, ReplyIsFinal(u), chat'[u] = chat[u],
         effects \subseteq effects', UNCHANGED log, proposed \subseteq proposed',
         \A w \in Threads \ {s} : chat'[w] = chat[w],
         Judged(u) =>
           /\ rows'[chat[u].action].status = rows[chat[u].action].status
           /\ Active(s)' => chat'[s].action # chat[u].action
  PROVE  ReplyIsFinal(u)'
<1>1. /\ Judged(u)' <=> Judged(u)
      /\ Excused(u)' <=> Excused(u)
      /\ Completed(chat[u].action)' <=> Completed(chat[u].action)
  BY DEF Judged, Excused, Completed
<1>2. Judged(u) => Settled(chat[u].action)'
  BY DEF ReplyIsFinal, Settled, Active
<1>3. chat[u].reply = "ran_once" => RanOnce(chat[u].action)'
  BY <1>1 DEF ReplyIsFinal, RanOnce, Judged
<1> QED
  BY <1>1, <1>2, <1>3 DEF ReplyIsFinal, Judged

(* A blocked action gets its row: it had none, no card and no effect.      *)
LEMMA RequestStep ==
  ASSUME CInv, NEW s \in Threads, HandleResult(s), rows' # rows
  PROVE  ChatRules' /\ Outcomes'
<1> DEFINE a == chat[s].action
<1> USE DEF CInv, ChatRules, Outcomes
<1>0. /\ chat \in [Threads -> Chats] /\ cards \in [Threads -> SUBSET Actions]
      /\ rows \in [Actions -> Rows] /\ call \in [Threads -> Calls]
  BY DEF ChatTypeOK, TypeOK
<1>1. /\ chat[s].phase = "proposed"
      /\ call[s].pc = "returned" /\ call[s].result = "approval_required"
      /\ rows' = [rows EXCEPT ![a] = [status |-> "pending", expires |-> now + RequestTTL]]
      /\ Enter(s, "card")
      /\ UNCHANGED <<call, issued, log, effects, cards, up, proposed>>
  BY DEF HandleResult, vars
<1>2. /\ a \in proposed /\ a \in Actions /\ rows[a].status = "none"
      /\ call[s].action = a /\ a \in Gated
  BY <1>1 DEF ChatsMatchRows, CallsMatchChats, Active, ChatTypeOK
<1>3. /\ chat'[s].phase = "card" /\ chat'[s].action = a /\ chat'[s].reply = chat[s].reply
      /\ chat'[s].decision = chat[s].decision
      /\ \A u \in Threads \ {s} : chat'[u] = chat[u]
  BY <1>0, <1>1, EnterFrame
<1>4. /\ rows'[a].status = "pending"
      /\ \A b \in Actions \ {a} : rows'[b] = rows[b]
  BY <1>0, <1>1, <1>2
<1>5. \A u \in Threads \ {s} : Active(u) => chat[u].action # a
  BY <1>1 DEF OneOwner, Active
<1>6. \A u \in Threads : a \notin cards[u]
  <2>1. \A u \in Threads \ {s} : a \notin cards[u]
    BY <1>1 DEF OneOwner, Active
  <2>2. a \notin cards[s]
    BY <1>1, <1>2 DEF CardsMatchRows
  <2> QED
    BY <2>1, <2>2
<1>7. \A e \in effects : e.action # a
  BY <1>2 DEF OnlyApprovedActionsRun
<1>8. \A u \in Threads : Judged(u) => chat[u].action # a
  BY <1>1 DEF RepliesAreFinal, ReplyIsFinal, Settled, Active
<1> HIDE DEF a
<1>9. CallsMatchChats'
  BY <1>1, <1>3 DEF CallsMatchChats, Granted, Done
<1>10. ChatsMatchRows'
  <2>1. \A b \in Actions : rows'[b].status # "none" => b \in Gated \cap proposed
    BY <1>2, <1>4 DEF ChatsMatchRows
  <2>2. ASSUME NEW u \in Threads, u # s
        PROVE  Active(u) => rows'[chat[u].action] = rows[chat[u].action]
    <3>1. Active(u) => chat[u].action \in Actions
      BY DEF ChatsMatchRows, ChatTypeOK
    <3> QED
      BY <1>4, <1>5, <2>2, <3>1
  <2> QED
    BY <1>1, <1>2, <1>3, <1>4, <2>1, <2>2 DEF ChatsMatchRows, Active
<1>11. OneOwner'
  BY <1>1, <1>3, <1>5, <1>6 DEF OneOwner, Active
<1>12. CardsMatchRows'
  <2>1. \A u \in Threads : \A b \in cards[u] : b \in Actions /\ b # a
    BY <1>0, <1>6
  <2>2. \A b \in Actions : rows[b].status = "pending" => b # a
    BY <1>2
  <2> QED
    BY <1>1, <1>3, <1>4, <2>1, <2>2 DEF CardsMatchRows
<1>13. OnlyApprovedActionsRun' /\ OneEffectPerRequest'
  BY <1>0, <1>1, <1>4, <1>7 DEF OnlyApprovedActionsRun, OneEffectPerRequest, Gated
<1>14. RequestsAreAudited'
  <2>1. Record(s, "decision") \in log
    BY <1>1 DEF IInv, ReturnsAreAudited, Refusals
  <2>2. /\ Record(s, "decision").action = a /\ Record(s, "decision").event = "decision"
        /\ Record(s, "decision").result = "approval_required"
    BY <1>1, <1>2 DEF Record
  <2> QED
    BY <1>1, <1>4, <2>1, <2>2 DEF RequestsAreAudited
<1>15. EffectsAreOwned'
  BY <1>1, <1>3, <1>7 DEF EffectsAreOwned, Effect, Active
<1>16. RepliesAreFinal'
  <2>1. chat[s].reply = "none"
    BY <1>1 DEF RepliesAreFinal, ReplyIsFinal
  <2>2. ReplyIsFinal(s)'
    BY <1>3, <2>1 DEF ReplyIsFinal, Judged, Excused
  <2>3. ASSUME NEW u \in Threads, u # s
        PROVE  ReplyIsFinal(u)'
    <3>1. ReplyIsFinal(u)
      BY DEF RepliesAreFinal
    <3>2. Judged(u) => chat[u].action \in Actions
      BY <3>1 DEF ReplyIsFinal, Settled, ChatTypeOK
    <3> QED
      BY <1>1, <1>3, <1>4, <1>8, <2>3, <3>1, <3>2, ReplyStays
  <2> QED
    BY <2>2, <2>3 DEF RepliesAreFinal
<1> QED
  BY <1>9, <1>10, <1>11, <1>12, <1>13, <1>14, <1>15, <1>16

(* A pending row is decided by the one server that has its card.           *)
LEMMA DecideStep ==
  ASSUME CInv, NEW s \in Threads, NEW a \in Actions, NEW d \in {"approved", "denied"},
         Decide(s, a, d)
  PROVE  ChatRules' /\ Outcomes'
<1> USE DEF CInv, ChatRules, Outcomes
<1>0. /\ chat \in [Threads -> Chats] /\ cards \in [Threads -> SUBSET Actions]
      /\ rows \in [Actions -> Rows] /\ call \in [Threads -> Calls]
  BY DEF ChatTypeOK, TypeOK
<1>1. /\ chat[s].phase = "idle" /\ a \in cards[s] /\ rows[a].status = "pending"
      /\ UNCHANGED <<call, issued, log, effects, cards, up, proposed>>
  BY DEF Decide, vars
<1>2. /\ [IdleChat EXCEPT !.phase = "decided", !.action = a, !.decision = d].phase = "decided"
      /\ [IdleChat EXCEPT !.phase = "decided", !.action = a, !.decision = d].action = a
      /\ [IdleChat EXCEPT !.phase = "decided", !.action = a, !.decision = d].decision = d
      /\ [IdleChat EXCEPT !.phase = "decided", !.action = a, !.decision = d].reply = "none"
  BY DEF IdleChat
<1>3. /\ chat'[s].phase = "decided" /\ chat'[s].action = a
      /\ chat'[s].decision = d /\ chat'[s].reply = "none"
      /\ \A u \in Threads \ {s} : chat'[u] = chat[u]
  BY <1>0, <1>2 DEF Decide
<1>4. /\ rows'[a].status = d
      /\ \A b \in Actions \ {a} : rows'[b] = rows[b]
  BY <1>0 DEF Decide, Rows
<1>5. /\ a \in Gated \cap proposed
      /\ \A u \in Threads \ {s} : a \notin cards[u]
  BY <1>1 DEF ChatsMatchRows, CardsMatchRows
<1>6. \A u \in Threads : Active(u) => chat[u].action # a
  <2>1. \A u \in Threads : Active(u) => u # s
    BY <1>1 DEF Active
  <2> QED
    BY <1>1, <2>1 DEF OneOwner
<1>7. \A e \in effects : e.action # a
  BY <1>1, <1>5 DEF OnlyApprovedActionsRun
<1>8. \A u \in Threads : Judged(u) => chat[u].action # a
  BY <1>1 DEF RepliesAreFinal, ReplyIsFinal, RanOnce
<1>9. CallsMatchChats'
  BY <1>1, <1>3 DEF CallsMatchChats, Granted, Done
<1>10. ChatsMatchRows'
  <2>1. \A b \in Actions : rows'[b].status # "none" => b \in Gated \cap proposed
    BY <1>4, <1>5 DEF ChatsMatchRows
  <2>2. ASSUME NEW u \in Threads, u # s
        PROVE  Active(u) => rows'[chat[u].action] = rows[chat[u].action]
    <3>1. Active(u) => chat[u].action \in Actions
      BY DEF ChatsMatchRows, ChatTypeOK
    <3> QED
      BY <1>4, <1>6, <3>1
  <2> QED
    BY <1>1, <1>3, <1>4, <1>5, <2>1, <2>2 DEF ChatsMatchRows, Active
<1>11. OneOwner'
  BY <1>1, <1>3, <1>5, <1>6 DEF OneOwner, Active
<1>12. CardsMatchRows'
  <2>1. ASSUME NEW u \in Threads, NEW b \in cards[u]
        PROVE  \/ rows'[b].status \in {"pending", "interrupted"}
               \/ chat'[u].phase = "decided" /\ chat'[u].action = b
    <3>1. CASE b = a
      BY <1>3, <1>5, <2>1, <3>1
    <3>2. CASE b # a
      <4>1. b \in Actions /\ rows'[b] = rows[b]
        BY <1>0, <1>4, <3>2
      <4> QED
        BY <1>1, <1>3, <4>1 DEF CardsMatchRows
    <3> QED
      BY <3>1, <3>2
  <2>2. \A b \in Actions : rows'[b].status = "pending" => rows[b].status = "pending"
    BY <1>4
  <2>3. \A b \in Actions : rows'[b].status = "pending" =>
          \E u \in Threads : \/ ~ up'[u]
                             \/ b \in cards'[u]
                             \/ chat'[u].phase = "card" /\ chat'[u].action = b
    BY <1>1, <1>3, <2>2 DEF CardsMatchRows
  <2> QED
    BY <1>1, <2>1, <2>3 DEF CardsMatchRows
<1>13. OnlyApprovedActionsRun' /\ OneEffectPerRequest' /\ RequestsAreAudited'
  BY <1>1, <1>4, <1>7 DEF OnlyApprovedActionsRun, OneEffectPerRequest, RequestsAreAudited, Gated
<1>14. EffectsAreOwned'
  BY <1>1, <1>3, <1>7 DEF EffectsAreOwned, Effect, Active
<1>15. RepliesAreFinal'
  <2>1. ReplyIsFinal(s)'
    BY <1>3 DEF ReplyIsFinal, Judged, Excused
  <2>2. ASSUME NEW u \in Threads, u # s
        PROVE  ReplyIsFinal(u)'
    <3>1. ReplyIsFinal(u)
      BY DEF RepliesAreFinal
    <3>2. Judged(u) => chat[u].action \in Actions
      BY <3>1 DEF ReplyIsFinal, Settled, ChatTypeOK
    <3> QED
      BY <1>1, <1>3, <1>4, <1>8, <2>2, <3>1, <3>2, ReplyStays
  <2> QED
    BY <2>1, <2>2 DEF RepliesAreFinal
<1> QED
  BY <1>9, <1>10, <1>11, <1>12, <1>13, <1>14, <1>15

(* The approved server gets its token and gives its card up.               *)
LEMMA IssueStep ==
  ASSUME CInv, NEW s \in Threads, IssueApproved(s)
  PROVE  ChatRules' /\ Outcomes'
<1> USE DEF CInv, ChatRules, Outcomes
<1>0. /\ chat \in [Threads -> Chats] /\ cards \in [Threads -> SUBSET Actions]
  BY DEF ChatTypeOK
<1>1. /\ chat[s].phase = "decided" /\ chat[s].decision = "approved"
      /\ cards' = [cards EXCEPT ![s] = @ \ {chat[s].action}]
      /\ issued \subseteq issued'
      /\ UNCHANGED <<call, log, effects, rows, up, proposed>>
  BY DEF IssueApproved, Issue, DropCard
<1> DEFINE token == [approval |-> Signed(ProcessOf[s], chat[s].action), spelling |-> AsIssued]
<1>2. token \in Granted'
  BY SpellingAssumption DEF IssueApproved, Issue, Granted
<1>3. chat' = [chat EXCEPT ![s] = [chat[s] EXCEPT !.phase = "issued", !.token = token]]
  BY <1>0 DEF IssueApproved
<1> HIDE DEF token
<1>4. /\ chat'[s].phase = "issued" /\ chat'[s].token = token
      /\ chat'[s].action = chat[s].action /\ chat'[s].reply = chat[s].reply
      /\ \A u \in Threads \ {s} : chat'[u] = chat[u]
  BY <1>0, <1>3 DEF Chats
<1>5. rows[chat[s].action].status = "approved"
  BY <1>1 DEF ChatsMatchRows
<1>6. \A u \in Threads : Active(u)' => Active(u) /\ chat'[u].action = chat[u].action
  BY <1>1, <1>4 DEF Active
<1>7. CallsMatchChats'
  BY <1>1, <1>2, <1>4 DEF CallsMatchChats, Granted, Done
<1>8. ChatsMatchRows'
  BY <1>1, <1>4, <1>5 DEF ChatsMatchRows, Active
<1>9. OneOwner'
  <2>1. \A u \in Threads : cards'[u] \subseteq cards[u]
    BY <1>0, <1>1
  <2> QED
    BY <1>6, <2>1 DEF OneOwner
<1>10. CardsMatchRows'
  <2>1. ASSUME NEW u \in Threads, NEW a \in cards'[u]
        PROVE  /\ \A v \in Threads \ {u} : a \notin cards'[v]
               /\ \/ rows[a].status \in {"pending", "interrupted"}
                  \/ chat'[u].phase = "decided" /\ chat'[u].action = a
    <3>1. \A v \in Threads : cards'[v] \subseteq cards[v]
      BY <1>0, <1>1
    <3>2. u = s => a # chat[s].action
      BY <1>0, <1>1, <2>1
    <3> QED
      BY <1>4, <2>1, <3>1, <3>2 DEF CardsMatchRows
  <2>2. ASSUME NEW a \in Actions, rows[a].status = "pending"
        PROVE  \E u \in Threads : \/ ~ up[u]
                                  \/ a \in cards'[u]
                                  \/ chat'[u].phase = "card" /\ chat'[u].action = a
    <3>1. PICK u \in Threads : \/ ~ up[u]
                               \/ a \in cards[u]
                               \/ chat[u].phase = "card" /\ chat[u].action = a
      BY <2>2 DEF CardsMatchRows
    <3>2. a # chat[s].action
      BY <1>5, <2>2
    <3> QED
      BY <1>0, <1>1, <1>4, <3>1, <3>2
  <2> QED
    BY <1>1, <2>1, <2>2 DEF CardsMatchRows
<1>11. OnlyApprovedActionsRun' /\ OneEffectPerRequest' /\ RequestsAreAudited'
  BY <1>1 DEF OnlyApprovedActionsRun, OneEffectPerRequest, RequestsAreAudited
<1>12. EffectsAreOwned'
  BY <1>1, <1>4, <1>6 DEF EffectsAreOwned, Effect, Active
<1>13. RepliesAreFinal'
  <2>1. ReplyIsFinal(s)'
    BY <1>1, <1>4 DEF RepliesAreFinal, ReplyIsFinal, Judged, Excused
  <2>2. ASSUME NEW u \in Threads, u # s
        PROVE  ReplyIsFinal(u)'
    <3>1. ReplyIsFinal(u)
      BY DEF RepliesAreFinal
    <3>2. Judged(u) => chat'[s].action # chat[u].action
      BY <1>1, <1>4, <3>1 DEF ReplyIsFinal, Settled, Active
    <3> QED
      BY <1>1, <1>4, <2>2, <3>1, <3>2, ReplyStays
  <2> QED
    BY <2>1, <2>2 DEF RepliesAreFinal
<1> QED
  BY <1>7, <1>8, <1>9, <1>10, <1>11, <1>12, <1>13

(* The approved action runs; until now it has had no effect.               *)
LEMMA RunStep ==
  ASSUME CInv, NEW s \in Threads, RunApproved(s)
  PROVE  ChatRules' /\ Outcomes'
<1> USE DEF CInv, ChatRules, Outcomes
<1>0. /\ chat \in [Threads -> Chats] /\ TypeOK
  BY DEF ChatTypeOK
<1>1. /\ chat[s].phase = "issued"
      /\ UNCHANGED <<issued, log, effects, rows, cards, up, proposed>>
  BY DEF RunApproved, Execute
<1>2. /\ chat'[s].phase = "running" /\ chat'[s].token = chat[s].token
      /\ chat'[s].action = chat[s].action /\ chat'[s].reply = chat[s].reply
      /\ \A u \in Threads \ {s} : chat'[u] = chat[u]
  BY <1>0, EnterFrame DEF RunApproved
<1>3. /\ call'[s].pc = "called" /\ call'[s].action = chat[s].action /\ call'[s].result = "none"
      /\ \A u \in Threads \ {s} : call'[u] = call[u]
  BY <1>0, ExecuteFrame DEF RunApproved
<1>4. \A u \in Threads : Active(u)' => Active(u) /\ chat'[u].action = chat[u].action
  BY <1>1, <1>2 DEF Active
<1>5. CallsMatchChats'
  BY <1>1, <1>2, <1>3 DEF CallsMatchChats, Granted, Done
<1>6. ChatsMatchRows'
  BY <1>1, <1>2 DEF ChatsMatchRows, Active
<1>7. OneOwner'
  BY <1>1, <1>4 DEF OneOwner
<1>8. CardsMatchRows'
  BY <1>1, <1>2 DEF CardsMatchRows
<1>9. OnlyApprovedActionsRun' /\ OneEffectPerRequest' /\ RequestsAreAudited'
  BY <1>1 DEF OnlyApprovedActionsRun, OneEffectPerRequest, RequestsAreAudited
<1>10. EffectsAreOwned'
  <2>1. \A e \in effects : e.action # chat[s].action
    BY <1>1 DEF EffectsAreOwned, Active
  <2> QED
    BY <1>1, <1>2, <1>3, <1>4, <2>1 DEF EffectsAreOwned, Effect, Active
<1>11. RepliesAreFinal'
  <2>1. ReplyIsFinal(s)'
    BY <1>1, <1>2 DEF RepliesAreFinal, ReplyIsFinal, Judged, Excused
  <2>2. ASSUME NEW u \in Threads, u # s
        PROVE  ReplyIsFinal(u)'
    <3>1. ReplyIsFinal(u)
      BY DEF RepliesAreFinal
    <3>2. Judged(u) => chat'[s].action # chat[u].action
      BY <1>1, <1>2, <3>1 DEF ReplyIsFinal, Settled, Active
    <3> QED
      BY <1>1, <1>2, <2>2, <3>1, <3>2, ReplyStays
  <2> QED
    BY <2>1, <2>2 DEF RepliesAreFinal
<1> QED
  BY <1>5, <1>6, <1>7, <1>8, <1>9, <1>10, <1>11

(* A proposed action is new: no row, card, effect or reply is about it.    *)
LEMMA ProposeStep ==
  ASSUME CInv, NEW s \in Threads, NEW a \in Actions, Propose(s, a)
  PROVE  ChatRules' /\ Outcomes'
<1> USE DEF CInv, ChatRules, Outcomes
<1>0. /\ chat \in [Threads -> Chats] /\ TypeOK /\ cards \in [Threads -> SUBSET Actions]
  BY DEF ChatTypeOK
<1>1. /\ chat[s].phase = "planning" /\ a \notin proposed /\ proposed' = proposed \cup {a}
      /\ UNCHANGED <<issued, log, effects, rows, cards, up>>
  BY DEF Propose, Execute
<1>2. /\ chat'[s].phase = "proposed" /\ chat'[s].action = a
      /\ chat'[s].token = chat[s].token /\ chat'[s].reply = chat[s].reply
      /\ chat'[s].decision = chat[s].decision
      /\ \A u \in Threads \ {s} : chat'[u] = chat[u]
  BY <1>0 DEF Propose, Chats
<1>3. /\ call'[s].pc = "called" /\ call'[s].action = a /\ call'[s].token = None
      /\ call'[s].result = "none"
      /\ \A u \in Threads \ {s} : call'[u] = call[u]
  BY <1>0, ExecuteFrame DEF Propose
<1>4. /\ rows[a].status = "none"
      /\ \A e \in effects : e.action # a
      /\ \A u \in Threads : Active(u) => chat[u].action # a
  BY <1>1 DEF ChatsMatchRows, EffectsAreOwned
<1>5. \A u \in Threads : a \notin cards[u]
  BY <1>1, <1>4 DEF CardsMatchRows, Active
<1>6. CallsMatchChats'
  BY <1>1, <1>2, <1>3 DEF CallsMatchChats, Granted, Done
<1>7. ChatsMatchRows'
  BY <1>1, <1>2, <1>4 DEF ChatsMatchRows, Active
<1>8. OneOwner'
  BY <1>1, <1>2, <1>4, <1>5 DEF OneOwner, Active
<1>9. CardsMatchRows'
  BY <1>1, <1>2 DEF CardsMatchRows
<1>10. OnlyApprovedActionsRun' /\ OneEffectPerRequest' /\ RequestsAreAudited'
  BY <1>1 DEF OnlyApprovedActionsRun, OneEffectPerRequest, RequestsAreAudited
<1>11. EffectsAreOwned'
  BY <1>1, <1>2, <1>3, <1>4 DEF EffectsAreOwned, Effect, Active
<1>12. RepliesAreFinal'
  <2>1. ReplyIsFinal(s)'
    BY <1>1, <1>2 DEF RepliesAreFinal, ReplyIsFinal, Judged, Excused
  <2>2. ASSUME NEW u \in Threads, u # s
        PROVE  ReplyIsFinal(u)'
    <3>1. ReplyIsFinal(u)
      BY DEF RepliesAreFinal
    <3>2. Judged(u) => chat'[s].action # chat[u].action
      BY <1>1, <1>2, <3>1 DEF ReplyIsFinal, Settled
    <3> QED
      BY <1>1, <1>2, <2>2, <3>1, <3>2, ReplyStays
  <2> QED
    BY <2>1, <2>2 DEF RepliesAreFinal
<1> QED
  BY <1>6, <1>7, <1>8, <1>9, <1>10, <1>11, <1>12

(* A gated tool runs only for a server that runs an approved action: what  *)
(* is proposed carries no token, and the boundary lets none run without.   *)
LEMMA OnlyRunningTakesEffect ==
  ASSUME CInv, NEW s \in Threads, RunTool(s)
  PROVE  /\ chat[s].phase \in {"proposed", "running"} /\ call[s].action = chat[s].action
         /\ call[s].action \in Gated => rows[call[s].action].status = "approved"
<1> USE DEF CInv, ChatRules
<1>1. call[s].pc = "run"
  BY DEF RunTool
<1>2. chat[s].phase \in {"proposed", "running"} /\ call[s].action = chat[s].action
  BY <1>1 DEF CallsMatchChats, Granted, Done
<1>3. chat[s].phase = "proposed" => call[s].action \notin Gated
  <2> SUFFICES ASSUME chat[s].phase = "proposed", call[s].action \in Gated
               PROVE  FALSE
    OBVIOUS
  <2>1. call[s].token \in Granted
    BY <1>1 DEF IInv, HeldTokens, Holds, Approves
  <2>2. call[s].token = None
    BY DEF CallsMatchChats
  <2> QED
    BY <2>1, <2>2, NoneAssumption DEF IInv, TypeOK, Granted, Tokens
<1>4. chat[s].phase = "running" => rows[call[s].action].status = "approved"
  BY <1>2 DEF ChatsMatchRows
<1> QED
  BY <1>2, <1>3, <1>4

LEMMA ExecuteStep ==
  ASSUME CInv, NEW s \in Threads, Step(s), UNCHANGED chatVars
  PROVE  ChatRules' /\ Outcomes'
<1> USE DEF CInv, ChatRules, Outcomes
<1>0. TypeOK
  BY DEF ChatTypeOK
<1>1. /\ call[s].pc \in {"called", "consume", "decision", "intent", "run", "outcome"}
      /\ UNCHANGED <<issued, rows, cards, chat, up, proposed>>
  BY <1>0, StepFrame DEF chatVars
<1>2. /\ call'[s].pc # "idle"
      /\ call'[s].id = call[s].id /\ call'[s].action = call[s].action
      /\ call'[s].token = call[s].token
      /\ \A u \in Threads \ {s} : call'[u] = call[u]
  BY <1>0, StepMoves
<1>3. chat[s].phase \in {"proposed", "running"} /\ call[s].action = chat[s].action
  BY <1>1 DEF CallsMatchChats, Granted, Done
<1>4. /\ log \subseteq log' /\ effects \subseteq effects'
      /\ effects' \subseteq effects \cup {Effect(s)}
      /\ effects' # effects => RunTool(s)
  BY <1>0, StepWrites
<1>5. /\ Effect(s).action = call[s].action
      /\ Effect(s)' = Effect(s)
      /\ \A u \in Threads \ {s} : Effect(u)' = Effect(u)
  BY <1>2 DEF Effect
<1>6. chat[s].action \in proposed
  BY <1>3 DEF ChatsMatchRows, Active
<1>7. CallsMatchChats'
  <2>1. call'[s].result = "approval_required" => call[s].action \in Gated
    BY OnlyGatedAreBlocked DEF CallsMatchChats
  <2> QED
    BY <1>1, <1>2, <1>3, <2>1 DEF CallsMatchChats, Granted, Done
<1>8. ChatsMatchRows' /\ OneOwner' /\ CardsMatchRows'
  BY <1>1 DEF ChatsMatchRows, OneOwner, CardsMatchRows, Active
<1>9. OnlyApprovedActionsRun'
  <2>1. effects' # effects /\ call[s].action \in Gated => rows[call[s].action].status = "approved"
    BY <1>4, OnlyRunningTakesEffect
  <2> QED
    BY <1>1, <1>4, <1>5, <2>1 DEF OnlyApprovedActionsRun
<1>10. \A e \in effects : e.action = chat[s].action => e = Effect(s)
  BY <1>3 DEF EffectsAreOwned, Active
<1>11. OneEffectPerRequest'
  BY <1>3, <1>4, <1>5, <1>10 DEF OneEffectPerRequest
<1>12. RequestsAreAudited'
  BY <1>1, <1>4 DEF RequestsAreAudited
<1>13. EffectsAreOwned'
  <2>1. \A e \in effects' : e.action \in proposed
    BY <1>3, <1>4, <1>5, <1>6 DEF EffectsAreOwned
  <2>2. ASSUME NEW u \in Threads, Active(u), NEW e \in effects', e.action = chat[u].action
        PROVE  chat[u].phase \in {"proposed", "running"} /\ e = Effect(u)'
    <3>1. CASE u = s
      BY <1>3, <1>4, <1>5, <1>10, <2>2, <3>1
    <3>2. CASE u # s
      <4>1. e # Effect(s)
        BY <1>3, <1>5, <2>2, <3>2 DEF OneOwner, Active
      <4>2. e \in effects
        BY <1>4, <4>1
      <4>3. chat[u].phase \in {"proposed", "running"} /\ e = Effect(u)
        BY <2>2, <4>2 DEF EffectsAreOwned
      <4> QED
        BY <1>5, <3>2, <4>3
    <3> QED
      BY <3>1, <3>2
  <2> QED
    BY <1>1, <2>1, <2>2 DEF EffectsAreOwned, Active, Effect
<1>14. RepliesAreFinal'
  <2> SUFFICES ASSUME NEW u \in Threads
               PROVE  ReplyIsFinal(u)'
    BY DEF RepliesAreFinal
  <2>1. ReplyIsFinal(u)
    BY DEF RepliesAreFinal
  <2>2. /\ Judged(u)' <=> Judged(u)
        /\ Excused(u)' <=> Excused(u)
        /\ Settled(chat[u].action)' <=> Settled(chat[u].action)
    BY <1>1 DEF Judged, Excused, Settled, Active
  <2>3. \A r \in log' : r \notin log => r.action = chat[s].action
    BY <1>0, <1>3, StepWrites DEF Record
  <2>4. Judged(u) => (Completed(chat[u].action)' <=> Completed(chat[u].action))
    <3>1. Judged(u) => chat[u].action # chat[s].action
      BY <1>3, <2>1 DEF ReplyIsFinal, Settled, Active
    <3> QED
      BY <1>1, <1>4, <2>3, <3>1 DEF Completed
  <2>5. chat[u].reply = "ran_once" => RanOnce(chat[u].action)'
    BY <1>1, <1>4, <2>1, <2>4 DEF ReplyIsFinal, RanOnce, Judged
  <2> QED
    BY <1>1, <2>1, <2>2, <2>4, <2>5 DEF ReplyIsFinal, Judged
<1> QED
  BY <1>7, <1>8, <1>9, <1>11, <1>12, <1>13, <1>14

(* A server stops: its cards and its request are gone, the table stays.    *)
LEMMA StopStep ==
  ASSUME CInv, NEW s \in Threads, Stop(s)
  PROVE  ChatRules' /\ Outcomes'
<1> USE DEF CInv, ChatRules, Outcomes
<1>0. /\ chat \in [Threads -> Chats] /\ TypeOK /\ cards \in [Threads -> SUBSET Actions]
      /\ up \in [Threads -> BOOLEAN]
  BY DEF ChatTypeOK
<1>1. UNCHANGED <<issued, log, effects, rows, proposed>>
  BY DEF Stop, Crash
<1>2. /\ chat'[s].phase = "idle" /\ chat'[s].reply = "none"
      /\ \A u \in Threads \ {s} : chat'[u] = chat[u]
  BY <1>0 DEF Stop, IdleChat
<1>3. /\ cards'[s] = {} /\ up'[s] = FALSE
      /\ \A u \in Threads \ {s} : cards'[u] = cards[u] /\ up'[u] = up[u]
  BY <1>0 DEF Stop
<1>4. /\ call'[s].pc = "idle" /\ call'[s].result = "none"
      /\ \A u \in Threads \ {s} : call'[u] = call[u]
  BY <1>0, ServerAssumption DEF Stop, Crash, IdleCall
<1>5. \A u \in Threads : Active(u)' => u # s /\ Active(u) /\ chat'[u] = chat[u]
  BY <1>2 DEF Active
<1>6. CallsMatchChats'
  BY <1>1, <1>2, <1>4 DEF CallsMatchChats, Granted, Done
<1>7. ChatsMatchRows'
  BY <1>1, <1>2 DEF ChatsMatchRows, Active
<1>8. OneOwner'
  BY <1>3, <1>5 DEF OneOwner
<1>9. CardsMatchRows'
  BY <1>0, <1>1, <1>2, <1>3 DEF CardsMatchRows
<1>10. OnlyApprovedActionsRun' /\ OneEffectPerRequest' /\ RequestsAreAudited'
  BY <1>1 DEF OnlyApprovedActionsRun, OneEffectPerRequest, RequestsAreAudited
<1>11. EffectsAreOwned'
  BY <1>1, <1>4, <1>5 DEF EffectsAreOwned, Effect
<1>12. RepliesAreFinal'
  <2>1. ReplyIsFinal(s)'
    BY <1>2 DEF ReplyIsFinal, Judged, Excused
  <2>2. ASSUME NEW u \in Threads, u # s
        PROVE  ReplyIsFinal(u)'
    <3>1. ReplyIsFinal(u)
      BY DEF RepliesAreFinal
    <3>2. ~ Active(s)'
      BY <1>5
    <3> QED
      BY <1>1, <1>2, <2>2, <3>1, <3>2, ReplyStays
  <2> QED
    BY <2>1, <2>2 DEF RepliesAreFinal
<1> QED
  BY <1>6, <1>7, <1>8, <1>9, <1>10, <1>11, <1>12

(* A server starts: no decision changes, and no row stays pending.         *)
LEMMA StartStep ==
  ASSUME CInv, NEW s \in Threads, Start(s)
  PROVE  ChatRules' /\ Outcomes'
<1> USE DEF CInv, ChatRules, Outcomes
<1>0. rows \in [Actions -> Rows]
  BY DEF ChatTypeOK
<1>1. UNCHANGED <<call, issued, log, effects, cards, chat, proposed>>
  BY DEF Start, vars
<1>2. \A a \in Actions :
        /\ rows[a].status = "pending" => rows'[a].status = "interrupted"
        /\ rows[a].status # "pending" => rows'[a] = rows[a]
  BY <1>0 DEF Start, Rows
<1>3. /\ \A u \in Threads : Active(u) => chat[u].action \in Actions
      /\ \A u \in Threads : Judged(u) => chat[u].action \in Actions
  BY DEF ChatsMatchRows, RepliesAreFinal, ReplyIsFinal, Settled, ChatTypeOK
<1>4. CallsMatchChats' /\ OneOwner' /\ EffectsAreOwned'
  BY <1>1 DEF CallsMatchChats, Granted, OneOwner, EffectsAreOwned, Active, Effect, Done
<1>5. ChatsMatchRows'
  <2>1. \A a \in Actions : rows'[a].status # "none" => rows[a].status # "none"
    BY <1>2
  <2> QED
    BY <1>1, <1>2, <1>3, <2>1 DEF ChatsMatchRows, Active
<1>6. CardsMatchRows'
  <2>1. \A a \in Actions : rows'[a].status # "pending"
    BY <1>2
  <2>2. \A u \in Threads : \A a \in cards[u] :
          rows[a].status \in {"pending", "interrupted"} => rows'[a].status = "interrupted"
    BY <1>2 DEF ChatTypeOK
  <2> QED
    BY <1>1, <2>1, <2>2 DEF CardsMatchRows
<1>7. OnlyApprovedActionsRun' /\ OneEffectPerRequest' /\ RequestsAreAudited'
  BY <1>1, <1>2 DEF OnlyApprovedActionsRun, OneEffectPerRequest, RequestsAreAudited, Gated
<1>8. RepliesAreFinal'
  <2>1. ASSUME NEW u \in Threads
        PROVE  ReplyIsFinal(u)'
    <3>1. ReplyIsFinal(u)
      BY DEF RepliesAreFinal
    <3>2. Judged(u) =>
            /\ rows'[chat[u].action].status = rows[chat[u].action].status
            /\ Active(s)' => chat'[s].action # chat[u].action
      BY <1>1, <1>2, <1>3, <3>1 DEF ReplyIsFinal, Settled, RanOnce, Active
    <3> QED
      BY <1>1, <3>1, <3>2, ReplyStays
  <2> QED
    BY <2>1 DEF RepliesAreFinal
<1> QED
  BY <1>4, <1>5, <1>6, <1>7, <1>8

LEMMA UnchangedStep ==
  ASSUME CInv, UNCHANGED <<call, issued, log, effects, chatVars>>
  PROVE  ChatRules' /\ Outcomes'
<1> USE DEF CInv, ChatRules, Outcomes, chatVars
<1>1. CallsMatchChats' /\ ChatsMatchRows' /\ OneOwner' /\ CardsMatchRows'
  BY DEF CallsMatchChats, Granted, ChatsMatchRows, OneOwner, CardsMatchRows, Active, Done
<1>2. OnlyApprovedActionsRun' /\ OneEffectPerRequest' /\ RequestsAreAudited' /\ EffectsAreOwned'
  BY DEF OnlyApprovedActionsRun, OneEffectPerRequest, RequestsAreAudited, EffectsAreOwned,
         Active, Effect
<1>3. RepliesAreFinal'
  BY DEF RepliesAreFinal, ReplyIsFinal, Settled, RanOnce, Judged, Excused, Completed, Active
<1> QED
  BY <1>1, <1>2, <1>3

-----------------------------------------------------------------------------
LEMMA ChatInvInit == ChatInit => CInv
<1> SUFFICES ASSUME ChatInit PROVE CInv
  OBVIOUS
<1>1. IInv
  BY InvInit DEF ChatInit
<1>2. /\ \A a \in Actions : rows[a] = NoRow
      /\ \A s \in Threads : chat[s] = IdleChat /\ cards[s] = {} /\ call[s] = IdleCall
      /\ effects = {}
  BY DEF ChatInit, Init
<1>3. ChatTypeOK
  <2>1. NoRow \in Rows
    BY BoundAssumption, ServerAssumption DEF NoRow, Rows
  <2> QED
    BY <1>1, <2>1, IdleChatType DEF ChatInit, ChatTypeOK, IInv
<1>4. ChatRules
  <2>1. \A s \in Threads : ~ Active(s) /\ chat[s].phase = "idle"
    BY <1>2 DEF Active, IdleChat
  <2>2. \A a \in Actions : rows[a].status = "none"
    BY <1>2 DEF NoRow
  <2>3. \A s \in Threads : call[s].pc = "idle" /\ call[s].result = "none"
    BY <1>2 DEF IdleCall
  <2> QED
    BY <1>2, <2>1, <2>2, <2>3
       DEF ChatRules, CallsMatchChats, ChatsMatchRows, OneOwner, CardsMatchRows, Done
<1>5. Outcomes
  <2>1. \A s \in Threads : chat[s].reply = "none"
    BY <1>2 DEF IdleChat
  <2> QED
    BY <1>2, <2>1 DEF Outcomes, OnlyApprovedActionsRun, OneEffectPerRequest, RequestsAreAudited,
                      EffectsAreOwned, RepliesAreFinal, ReplyIsFinal, Judged, Excused, NoRow
<1> QED
  BY <1>1, <1>3, <1>4, <1>5 DEF CInv

LEMMA ChatInvNext == CInv /\ [ChatNext]_allVars => CInv'
<1> SUFFICES ASSUME CInv, [ChatNext]_allVars
             PROVE  CInv'
  OBVIOUS
<1>1. ASSUME NEW s \in Threads,
             \/ Handle(s) \/ StopPlanning(s) \/ StoreCard(s) \/ RejectMismatch(s) \/ Deny(s)
             \/ ReportRun(s) \/ HandleResult(s)
      PROVE  ChatRules' /\ Outcomes'
  <2>1. CASE HandleResult(s) /\ rows' # rows
    BY <2>1, RequestStep
  <2>2. CASE ~ (HandleResult(s) /\ rows' # rows)
    <3>1. Rests(s) /\ ReplyIsFinal(s)'
      BY <1>1, <2>2, RestSteps
    <3> QED
      BY <3>1, RestKeepsRules, RestKeepsOutcomes
  <2> QED
    BY <2>1, <2>2
<1>2. ASSUME NEW s \in Threads, NEW a \in Actions, NEW d \in {"approved", "denied"}, Decide(s, a, d)
      PROVE  ChatRules' /\ Outcomes'
  BY <1>2, DecideStep
<1>3. ASSUME NEW s \in Threads, NEW a \in Actions, Propose(s, a)
      PROVE  ChatRules' /\ Outcomes'
  BY <1>3, ProposeStep
<1>4. ASSUME NEW s \in Threads,
             \/ IssueApproved(s) \/ RunApproved(s) \/ Stop(s) \/ Start(s)
             \/ Step(s) /\ UNCHANGED chatVars
      PROVE  ChatRules' /\ Outcomes'
  BY <1>4, IssueStep, RunStep, StopStep, StartStep, ExecuteStep
<1>5. ASSUME Tick /\ UNCHANGED chatVars
      PROVE  ChatRules' /\ Outcomes'
  BY <1>5, UnchangedStep DEF Tick, chatVars
<1>6. ASSUME UNCHANGED allVars
      PROVE  ChatRules' /\ Outcomes'
  BY <1>6, UnchangedStep DEF allVars, vars, chatVars
<1>7. ASSUME NEW s \in Threads, Serve(s)
      PROVE  ChatRules' /\ Outcomes'
  BY <1>1, <1>3, <1>4, <1>7 DEF Serve
<1>8. ChatRules' /\ Outcomes'
  BY <1>1, <1>2, <1>4, <1>5, <1>6, <1>7 DEF ChatNext
<1> QED
  BY <1>8, BoundaryNext, ChatTypeNext DEF CInv

LEMMA ChatInvariance == ChatSpec => []CInv
  BY ChatInvInit, ChatInvNext, PTL DEF ChatSpec

(* Every reachable state of every instance is well typed.                  *)
THEOREM ChatTypeCorrect == ChatSpec => []ChatTypeOK
<1>1. CInv => ChatTypeOK
  BY DEF CInv
<1> QED
  BY <1>1, ChatInvariance, PTL

(* A gated action runs only if its own request was approved, whatever the  *)
(* restarts, the clock and the other servers on the database do.           *)
THEOREM RunsAreApproved == ChatSpec => []OnlyApprovedActionsRun
<1>1. CInv => OnlyApprovedActionsRun
  BY DEF CInv, Outcomes
<1> QED
  BY <1>1, ChatInvariance, PTL

(* One approval in the browser leads to at most one effect.                *)
THEOREM ApprovalsRunOnce == ChatSpec => []OneEffectPerRequest
<1>1. CInv => OneEffectPerRequest
  BY DEF CInv, Outcomes
<1> QED
  BY <1>1, ChatInvariance, PTL

(* A row in the approvals table has its BLOCKED record in the audit file.  *)
THEOREM RowsAreAudited == ChatSpec => []RequestsAreAudited
<1>1. CInv => RequestsAreAudited
  BY DEF CInv, Outcomes
<1> QED
  BY <1>1, ChatInvariance, PTL

(* The cards in memory and the rows on disk agree.                         *)
THEOREM CardsAgree == ChatSpec => []CardsMatchRows
<1>1. CInv => CardsMatchRows
  BY DEF CInv, ChatRules
<1> QED
  BY <1>1, ChatInvariance, PTL

(* What a reply to a decision says is so, for as long as it stands, and an *)
(* error or a closed connection never hides a completed run.               *)
THEOREM RepliesHold == ChatSpec => []RepliesAreTrue
<1>1. CInv => RepliesAreTrue
  <2> SUFFICES ASSUME CInv, NEW s \in Threads
               PROVE  LET a == chat[s].action
                          done == {e \in effects : e.action = a}
                          completed == Completed(a)
                      IN /\ chat[s].reply = "denied" => done = {} /\ rows[a].status = "denied"
                         /\ chat[s].reply = "ran_once" => Cardinality(done) = 1 /\ completed
                         /\ chat[s].reply = "failed" =>
                              /\ rows[a].status = "approved"
                              /\ done # {} => \E r \in log : r.action = a /\ r.event = "intent"
                         /\ Excused(s) => ~ completed
    BY DEF RepliesAreTrue, Completed, Excused
  <2> USE DEF CInv, Outcomes
  <2> DEFINE a == chat[s].action
             done == {e \in effects : e.action = a}
  <2>1. ReplyIsFinal(s)
    BY DEF RepliesAreFinal
  <2>2. Judged(s) => a \in Gated
    BY <2>1 DEF ReplyIsFinal, Settled, ChatRules, ChatsMatchRows, ChatTypeOK
  <2>3. chat[s].reply = "denied" => done = {} /\ rows[a].status = "denied"
    BY <2>1, <2>2 DEF ReplyIsFinal, Judged, OnlyApprovedActionsRun
  <2>4. ASSUME chat[s].reply = "ran_once"
        PROVE  Cardinality(done) = 1 /\ Completed(a)
    <3>1. PICK e \in effects : e.action = a
      BY <2>1, <2>4 DEF ReplyIsFinal, RanOnce
    <3>2. done = {e}
      BY <2>2, <2>4, <3>1 DEF OneEffectPerRequest, Judged
    <3>3. Cardinality({e}) = 1
      BY FS_Singleton
    <3> QED
      BY <2>1, <2>4, <3>2, <3>3 DEF ReplyIsFinal, RanOnce
  <2>5. done # {} => \E r \in log : r.action = a /\ r.event = "intent"
    <3> SUFFICES ASSUME NEW e \in effects, e.action = a
                 PROVE  \E r \in log : r.action = a /\ r.event = "intent"
      OBVIOUS
    <3>1. IntentOf(e) \in log
      BY DEF IInv, LogAccountsForEffects
    <3>2. IntentOf(e).action = a /\ IntentOf(e).event = "intent"
      BY DEF IntentOf
    <3> QED
      BY <3>1, <3>2
  <2>6. /\ chat[s].reply = "failed" => rows[a].status = "approved"
        /\ Excused(s) => ~ Completed(a)
    BY <2>1 DEF ReplyIsFinal
  <2> QED
    BY <2>3, <2>4, <2>5, <2>6
<1> QED
  BY <1>1, ChatInvariance, PTL

(* No step of any server changes a row that was decided or interrupted.    *)
THEOREM DecisionsStay == ChatSpec => DecisionsAreFinal
<1> DEFINE Final == \A a \in Actions :
             rows[a].status \in {"approved", "denied", "interrupted"} => rows'[a] = rows[a]
<1>1. CInv /\ [ChatNext]_allVars => Final
  <2> SUFFICES ASSUME CInv, [ChatNext]_allVars, NEW a \in Actions,
                      rows[a].status \in {"approved", "denied", "interrupted"}
               PROVE  rows'[a] = rows[a]
    OBVIOUS
  <2>0. rows \in [Actions -> Rows]
    BY DEF CInv, ChatTypeOK
  <2>1. ASSUME NEW s \in Threads, HandleResult(s)
        PROVE  rows'[a] = rows[a]
    <3>1. rows[chat[s].action].status = "none"
      BY <2>1 DEF HandleResult, CInv, ChatRules, ChatsMatchRows
    <3> QED
      BY <2>0, <2>1, <3>1 DEF HandleResult
  <2>2. ASSUME NEW s \in Threads, NEW b \in Actions, NEW d \in {"approved", "denied"},
               Decide(s, b, d)
        PROVE  rows'[a] = rows[a]
    BY <2>0, <2>2 DEF Decide
  <2>3. ASSUME NEW s \in Threads, Start(s)
        PROVE  rows'[a] = rows[a]
    BY <2>3 DEF Start
  <2>4. ASSUME NEW s \in Threads,
               \/ Handle(s) \/ \E b \in Actions : Propose(s, b)
               \/ StopPlanning(s) \/ StoreCard(s) \/ RejectMismatch(s) \/ Deny(s)
               \/ IssueApproved(s) \/ RunApproved(s) \/ ReportRun(s) \/ Stop(s)
        PROVE  rows' = rows
    BY <2>4 DEF Handle, Propose, StopPlanning, StoreCard, RejectMismatch, Deny, IssueApproved,
                RunApproved, ReportRun, Stop
  <2>5. CASE UNCHANGED chatVars \/ UNCHANGED allVars
    BY <2>5 DEF chatVars, allVars
  <2> QED
    BY <2>1, <2>2, <2>3, <2>4, <2>5 DEF ChatNext, Serve
<1> QED
  BY <1>1, ChatInvariance, PTL DEF ChatSpec, DecisionsAreFinal

(* The chat is one of the hosts AgentExecution allows: what is proved of   *)
(* the boundary for any host holds of the boundary under the chat, its     *)
(* one-time promise included.                                              *)
THEOREM ChatIsAHost == ChatSpec => Spec /\ KeepsPromise
<1>1. ChatInit => Init
  BY DEF ChatInit
<1>2. ChatSpec => Spec
  BY <1>1, BoundaryStep, ChatInvariance, PTL DEF ChatSpec, Spec
<1> QED
  BY <1>2, BoundaryKeepsPromise, PTL
=============================================================================
