------------------------------ MODULE WebChat -------------------------------
(***************************************************************************)
(* The local web chat: ChatSession proposes actions to Agent.execute,      *)
(* turns a blocked one into a durable approval request with an in-memory   *)
(* card, and runs the action after the browser approved it.  Composes      *)
(* AgentExecution (the agent, its authority and its audit file) with       *)
(* ApprovalService (the approvals table).                                  *)
(*                                                                         *)
(* A thread is one openmuse-chat process: HTTPServer answers one request   *)
(* at a time.  Several of them may share a workspace, and so the approvals *)
(* database and the audit file.  An approval request is named by the       *)
(* action it is about: every proposed action has a fresh id and at most    *)
(* one request.                                                            *)
(***************************************************************************)
EXTENDS AgentExecution

CONSTANTS
  RequestTTL,  \* ttl_seconds of ApprovalService.create
  MaxSteps,    \* ChatSession.max_steps
  Lossy        \* actions whose arguments do not survive a JSON round trip

ASSUME ServerAssumption ==
  /\ \A s, u \in Threads : ProcessOf[s] = ProcessOf[u] => s = u
  /\ Lossy \subseteq Actions
  /\ MaxSteps \in Nat
  /\ RequestTTL \in Nat \ {0}

VARIABLES
  rows,      \* the approvals table: status and expires_at of each request
  cards,     \* ChatSession.pending of each server
  chat,      \* the HTTP request each server is answering
  up,        \* the server is running
  proposed   \* the action ids in use

chatVars == <<rows, cards, chat, up, proposed>>
allVars == <<vars, chatVars>>

-----------------------------------------------------------------------------
NoRow == [status |-> "none", expires |-> 0]
Rows == [status : {"none", "pending", "approved", "denied", "interrupted"},
         expires : 0 .. MaxTime + RequestTTL]

(* What a browser may get: the events of a chat turn, the three outcomes   *)
(* of a decision, or an error with its status (400, 502).                  *)
Responses == {"ok", "denied", "ran_once", "failed", "error"}

Chats == [phase : {"idle", "planning", "proposed", "card", "decided", "issued", "running"},
          steps : 0 .. MaxSteps, action : Actions \cup {None},
          decision : {"none", "approved", "denied"}, token : Tokens \cup {None},
          reply : Responses \cup {"none", "dropped"}]

IdleChat == [phase |-> "idle", steps |-> 0, action |-> None, decision |-> "none",
             token |-> None, reply |-> "none"]

ChatInit ==
  /\ Init
  /\ rows = [a \in Actions |-> NoRow]
  /\ cards = [s \in Threads |-> {}]
  /\ chat = [s \in Threads |-> IdleChat]
  /\ up = [s \in Threads |-> TRUE]
  /\ proposed = {}

Enter(s, phase) == chat' = [chat EXCEPT ![s].phase = phase]

(* The server is done with its request, and has sent the reply.            *)
Answer(s, reply) ==
  chat' = [chat EXCEPT ![s] = [IdleChat EXCEPT !.action = chat[s].action,
                               !.decision = chat[s].decision, !.reply = reply]]

(* An exception leaves the handler.  do_POST turns ValueError, TypeError   *)
(* and ProviderError into an error; after any other one (OSError,          *)
(* AuditKeyError, sqlite3.Error, HTTPException) the connection is closed   *)
(* without a response, and the server goes on.                             *)
Fail(s) == \E reply \in {"error", "dropped"} : Answer(s, reply)

-----------------------------------------------------------------------------
(* POST /api/chat: ChatSession.handle.                                     *)

Handle(s) ==
  /\ up[s] /\ chat[s].phase = "idle"
  /\ chat' = [chat EXCEPT ![s] = [IdleChat EXCEPT !.phase = "planning"]]
  /\ UNCHANGED <<vars, rows, cards, up, proposed>>

(* Faulty variant: the loop forgets max_steps.                             *)
ProposeForever(s, a) ==
  /\ chat[s].phase = "planning"
  /\ a \notin proposed
  /\ proposed' = proposed \cup {a}
  /\ chat' = [chat EXCEPT ![s].phase = "proposed", ![s].steps = @ + 1, ![s].action = a]
  /\ Execute(s, a, None)
  /\ UNCHANGED <<rows, cards, up>>

(* One turn of the loop: the planner's action gets a fresh id and no token.*)
Propose(s, a) ==
  /\ chat[s].phase = "planning"
  /\ chat[s].steps < MaxSteps
  /\ a \notin proposed
  /\ proposed' = proposed \cup {a}
  /\ chat' = [chat EXCEPT ![s].phase = "proposed", ![s].steps = @ + 1, ![s].action = a]
  /\ Execute(s, a, None)
  /\ UNCHANGED <<rows, cards, up>>

(* The planner has no action left, max_steps is reached, or the planner    *)
(* failed.                                                                 *)
StopPlanning(s) ==
  /\ chat[s].phase = "planning"
  /\ Answer(s, "ok") \/ Fail(s)
  /\ UNCHANGED <<vars, rows, cards, up, proposed>>

(* Faulty variant: an exception out of execute leaves the request open.    *)
HandleResultOnly(s) ==
  /\ chat[s].phase = "proposed"
  /\ call[s].pc = "returned"
  /\ Answer(s, "ok")
  /\ UNCHANGED <<vars, rows, cards, up, proposed>>

HandleResult(s) ==
  /\ chat[s].phase = "proposed"
  /\ call[s].pc \in {"returned", "raised"}
  /\ \/ /\ call[s].pc = "returned" /\ call[s].result = "completed"
        /\ Enter(s, "planning")
        /\ UNCHANGED rows
     \/ /\ call[s].pc = "returned" /\ call[s].result = "approval_required"
        /\ rows' = [rows EXCEPT ![chat[s].action] =
                      [status |-> "pending", expires |-> now + RequestTTL]]
        /\ Enter(s, "card")
     \/ /\ call[s].pc = "returned"
        /\ call[s].result \notin {"completed", "approval_required"}
        /\ Answer(s, "ok")
        /\ UNCHANGED rows
     \/ /\ \/ call[s].pc = "raised"
           \/ call[s].result = "approval_required"  \* ApprovalService.create raises
        /\ Fail(s)
        /\ UNCHANGED rows
  /\ UNCHANGED <<vars, cards, up, proposed>>

(* _request_approval, after create returned.                               *)
StoreCard(s) ==
  /\ chat[s].phase = "card"
  /\ cards' = [cards EXCEPT ![s] = @ \cup {chat[s].action}]
  /\ Answer(s, "ok")
  /\ UNCHANGED <<vars, rows, up, proposed>>

-----------------------------------------------------------------------------
(* POST /api/approvals: ChatSession.decide.  A request that is unknown,    *)
(* has the wrong session, has expired or is decided is refused, and one    *)
(* that finds the database locked fails: neither changes anything.         *)

(* ApprovalService.decide, one immediate transaction.                      *)
Decide(s, a, decision) ==
  /\ up[s] /\ chat[s].phase = "idle"
  /\ a \in cards[s]
  /\ now < rows[a].expires
  /\ rows[a].status = "pending"
  /\ rows' = [rows EXCEPT ![a].status = decision]
  /\ chat' = [chat EXCEPT ![s] = [IdleChat EXCEPT !.phase = "decided", !.action = a,
                                                  !.decision = decision]]
  /\ UNCHANGED <<vars, cards, up, proposed>>

DropCard(s) == cards' = [cards EXCEPT ![s] = @ \ {chat[s].action}]

(* The stored action is compared with the card's before anything runs.     *)
RejectMismatch(s) ==
  /\ chat[s].phase = "decided"
  /\ chat[s].action \in Lossy
  /\ DropCard(s)
  /\ Answer(s, "error")
  /\ UNCHANGED <<vars, rows, up, proposed>>

Deny(s) ==
  /\ chat[s].phase = "decided"
  /\ chat[s].action \notin Lossy
  /\ chat[s].decision # "approved"
  /\ DropCard(s)
  /\ Answer(s, "denied")
  /\ UNCHANGED <<vars, rows, up, proposed>>

(* Faulty variant: the decision is not looked at.                          *)
IssueAlways(s) ==
  /\ chat[s].phase = "decided"
  /\ DropCard(s)
  /\ Issue(ProcessOf[s], chat[s].action)
  /\ chat' = [chat EXCEPT ![s].phase = "issued",
       ![s].token = [approval |-> Signed(ProcessOf[s], chat[s].action), spelling |-> AsIssued]]
  /\ UNCHANGED <<rows, up, proposed>>

IssueApproved(s) ==
  /\ chat[s].phase = "decided"
  /\ chat[s].action \notin Lossy
  /\ chat[s].decision = "approved"
  /\ DropCard(s)
  /\ Issue(ProcessOf[s], chat[s].action)
  /\ chat' = [chat EXCEPT ![s].phase = "issued",
       ![s].token = [approval |-> Signed(ProcessOf[s], chat[s].action), spelling |-> AsIssued]]
  /\ UNCHANGED <<rows, up, proposed>>

RunApproved(s) ==
  /\ chat[s].phase = "issued"
  /\ Execute(s, chat[s].action, chat[s].token)
  /\ Enter(s, "running")
  /\ UNCHANGED <<rows, cards, up, proposed>>

(* Faulty variants: a failed action is run again with a new token; every   *)
(* run is reported as a success.                                           *)
ReportRunOrRetry(s) ==
  /\ chat[s].phase = "running"
  /\ call[s].pc = "returned"
  /\ IF call[s].result = "completed" THEN Answer(s, "ran_once") ELSE Enter(s, "decided")
  /\ UNCHANGED <<vars, rows, cards, up, proposed>>

ReportSuccess(s) ==
  /\ chat[s].phase = "running"
  /\ call[s].pc \in {"returned", "raised"}
  /\ Answer(s, "ran_once")
  /\ UNCHANGED <<vars, rows, cards, up, proposed>>

ReportRun(s) ==
  /\ chat[s].phase = "running"
  /\ \/ /\ call[s].pc = "returned"
        /\ Answer(s, IF call[s].result = "completed" THEN "ran_once" ELSE "failed")
     \/ call[s].pc = "raised" /\ Fail(s)
  /\ UNCHANGED <<vars, rows, cards, up, proposed>>

-----------------------------------------------------------------------------
(* The process: everything but the database and the audit file is lost,    *)
(* and build_session makes a new authority, agent and service.             *)

Stop(s) ==
  /\ up[s]
  /\ Crash(ProcessOf[s])
  /\ up' = [up EXCEPT ![s] = FALSE]
  /\ cards' = [cards EXCEPT ![s] = {}]
  /\ chat' = [chat EXCEPT ![s] = IdleChat]
  /\ UNCHANGED <<rows, proposed>>

(* Faulty variants: the table is left as it was; every row is interrupted. *)
StartOnly(s) ==
  /\ ~ up[s]
  /\ up' = [up EXCEPT ![s] = TRUE]
  /\ UNCHANGED <<vars, rows, cards, chat, proposed>>

StartInterruptingAll(s) ==
  /\ ~ up[s]
  /\ up' = [up EXCEPT ![s] = TRUE]
  /\ rows' = [a \in Actions |->
       IF rows[a].status # "none" THEN [rows[a] EXCEPT !.status = "interrupted"] ELSE rows[a]]
  /\ UNCHANGED <<vars, cards, chat, proposed>>

(* ApprovalService.__init__: what is pending in the table is interrupted.  *)
Start(s) ==
  /\ ~ up[s]
  /\ up' = [up EXCEPT ![s] = TRUE]
  /\ rows' = [a \in Actions |->
       IF rows[a].status = "pending" THEN [rows[a] EXCEPT !.status = "interrupted"] ELSE rows[a]]
  /\ UNCHANGED <<vars, cards, chat, proposed>>

(* What a server does by itself once a request has reached it.             *)
Serve(s) ==
  \/ \E a \in Actions : Propose(s, a)
  \/ StopPlanning(s)
  \/ HandleResult(s)
  \/ StoreCard(s)
  \/ RejectMismatch(s)
  \/ Deny(s)
  \/ IssueApproved(s)
  \/ RunApproved(s)
  \/ ReportRun(s)
  \/ Step(s) /\ UNCHANGED chatVars

ChatNext ==
  \/ \E s \in Threads :
       \/ Handle(s)
       \/ \E a \in Actions, decision \in {"approved", "denied"} : Decide(s, a, decision)
       \/ Serve(s)
       \/ Stop(s)
       \/ Start(s)
  \/ Tick /\ UNCHANGED chatVars

(* A server that is not stopped goes on: the handlers are synchronous code *)
(* in one thread, and planner, tool and lock calls are taken to return.    *)
ChatSpec == ChatInit /\ [][ChatNext]_allVars /\ \A s \in Threads : WF_allVars(Serve(s))

-----------------------------------------------------------------------------
(* The composed state is well typed.                                       *)
ChatTypeOK ==
  /\ TypeOK
  /\ rows \in [Actions -> Rows]
  /\ cards \in [Threads -> SUBSET Actions]
  /\ chat \in [Threads -> Chats]
  /\ up \in [Threads -> BOOLEAN]
  /\ proposed \subseteq Actions

(* A write runs only if a person approved that very request: denied,       *)
(* interrupted, expired and undecided requests never run, through restarts *)
(* and with a second server on the same database (README, web chat).       *)
OnlyApprovedActionsRun ==
  \A e \in effects : e.action \in Gated => rows[e.action].status = "approved"

(* A decision cannot be replayed: one request, at most one effect.         *)
OneEffectPerRequest ==
  \A e, f \in effects : e.action \in Gated /\ e.action = f.action => e = f

(* No request without its BLOCKED decision in the audit file.              *)
RequestsAreAudited ==
  \A a \in Actions : rows[a].status # "none" =>
    \E r \in log : r.action = a /\ r.event = "decision" /\ r.result = "approval_required"

(* Table and cards agree.  A card is on one server, for a request that is  *)
(* undecided, being decided by that server, or interrupted by the start of *)
(* another one; a pending request has its card unless its server is about  *)
(* to store it or is down.                                                 *)
CardsMatchRows ==
  /\ \A s \in Threads : \A a \in cards[s] :
       /\ \A u \in Threads \ {s} : a \notin cards[u]
       /\ \/ rows[a].status \in {"pending", "interrupted"}
          \/ chat[s].phase = "decided" /\ chat[s].action = a
  /\ \A a \in Actions : rows[a].status = "pending" =>
       \E s \in Threads : \/ ~ up[s]
                          \/ a \in cards[s]
                          \/ chat[s].phase = "card" /\ chat[s].action = a

(* What the reply to a decision says is so.  "Denied. It did not run.":    *)
(* there is no effect.  "Approved and ran once.": there is one, and its    *)
(* outcome is on disk.  "Approved, but the action failed.": the request is *)
(* approved; there may be an effect, and then its intent is on disk.  An   *)
(* error or a closed connection after an approval says nothing, but the    *)
(* action was not reported to the audit file as completed.                 *)
RepliesAreTrue ==
  \A s \in Threads :
    LET a == chat[s].action
        done == {e \in effects : e.action = a}
        completed == \E r \in log : r.action = a /\ r.event = "outcome" /\ r.result = "completed"
    IN /\ chat[s].reply = "denied" => done = {} /\ rows[a].status = "denied"
       /\ chat[s].reply = "ran_once" => Cardinality(done) = 1 /\ completed
       /\ chat[s].reply = "failed" =>
            /\ rows[a].status = "approved"
            /\ done # {} => \E r \in log : r.action = a /\ r.event = "intent"
       /\ chat[s].reply \in {"error", "dropped"} /\ chat[s].decision # "none" => ~ completed

(* A decision in the table is final: no later decision and no start of a   *)
(* server changes it.                                                      *)
DecisionsAreFinal ==
  [][\A a \in Actions : rows[a].status \in {"approved", "denied", "interrupted"} =>
       rows'[a] = rows[a]]_allVars

(* Every HTTP request comes to an end, through every failure: it is        *)
(* answered, or its server stops, or its connection is closed because of   *)
(* an exception; once a person's decision is recorded, only an exception   *)
(* out of execute does that.                                               *)
RequestsAreAnswered ==
  \A s \in Threads : chat[s].phase # "idle" ~>
    \/ chat[s].reply \in Responses
    \/ ~ up[s]
    \/ chat[s].reply = "dropped" /\ (chat[s].decision = "none" \/ call[s].pc = "raised")
=============================================================================
