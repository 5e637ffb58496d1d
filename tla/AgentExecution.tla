--------------------------- MODULE AgentExecution ---------------------------
(***************************************************************************)
(* The execution boundary of OpenMuse: Agent.execute, the Policy it asks,  *)
(* the ApprovalAuthority that issues and consumes one-time tokens, and the *)
(* durable audit records written around a tool's effect.                   *)
(*                                                                         *)
(* Several host threads, in one or several processes, call execute at the  *)
(* same time.  A process owns one ApprovalAuthority: its secret and its    *)
(* set of consumed tokens live in memory and are lost with the process.    *)
(* The audit file is shared and outlives every process.                    *)
(*                                                                         *)
(* An element of Actions stands for one Action value: id, tool, arguments. *)
(***************************************************************************)
EXTENDS Integers, FiniteSets

CONSTANTS
  Threads,        \* host threads that call Agent.execute
  Processes,      \* operating-system processes, one authority in each
  ProcessOf,      \* the process a thread runs in
  Actions,        \* the actions a host may execute
  Unregistered,   \* actions whose tool the registry does not know
  Malformed,      \* actions whose arguments fail the tool's schema
  Risk,           \* the registered risk of an action's tool
  AllowWrites,    \* Policy.allow_writes
  TTL,            \* ttl_seconds of ApprovalAuthority.issue
  MaxTime,        \* bound on the clock
  MaxBoots,       \* bound on the restarts of a process
  MaxCalls,       \* bound on the calls of execute
  MaxTokens,      \* bound on the tokens issued
  Spellings,      \* ways to write a token's hexadecimal part: case, blanks
  AsIssued,       \* the one issue writes
  None            \* Python's None: no token, no action

Risks == {"read", "write", "represent", "money"}

ASSUME ProcessAssumption == ProcessOf \in [Threads -> Processes]
ASSUME ActionAssumption ==
  /\ Unregistered \subseteq Actions
  /\ Malformed \subseteq Actions
  /\ Risk \in [Actions -> Risks]
  /\ AllowWrites \in BOOLEAN
ASSUME BoundAssumption ==
  /\ TTL \in Nat \ {0}
  /\ MaxTime \in Nat
  /\ MaxBoots \in Nat
  /\ MaxCalls \in Nat
  /\ MaxTokens \in Nat
ASSUME SpellingAssumption == AsIssued \in Spellings

VARIABLES
  now,      \* int(time.time())
  boot,     \* how often each process has started: names its secret
  used,     \* ApprovalAuthority.used of each process
  issued,   \* approvals the host has ever issued a token for (history)
  call,     \* the call of execute each thread is in
  calls,    \* number of calls started so far: names the calls
  log,      \* the complete records in the audit file
  torn,     \* the file's last line is incomplete, if only by its newline
  effects   \* the tool effects that happened (history)

vars == <<now, boot, used, issued, call, calls, log, torn, effects>>

-----------------------------------------------------------------------------
(* Tokens.  The HMAC is modelled by who can produce it: an approval, which *)
(* is a token's payload, carries the secret it was signed with, and only   *)
(* issue signs with a live secret.  A token is a string.  The signature is *)
(* over the bytes that bytes.fromhex reads from it, which are the same     *)
(* however the hexadecimal part is spelled.                                *)

Secrets == Processes \X (0 .. MaxBoots)
Secret(p) == <<p, boot[p]>>
NoSecret == <<>>

Approvals == [action : Actions, exp : 0 .. MaxTime + TTL, secret : Secrets \cup {NoSecret}]
Tokens == [approval : Approvals, spelling : Spellings]

ASSUME NoneAssumption == None \notin Actions /\ None \notin Tokens

(* A string in the token's format that no authority has signed.            *)
Forged(a) == [approval |-> [action |-> a, exp |-> MaxTime + TTL, secret |-> NoSecret],
              spelling |-> AsIssued]

(* What issue signs now, and every way to write the tokens issued so far.  *)
Signed(p, a) == [action |-> a, exp |-> now + TTL, secret |-> Secret(p)]
Granted == [approval : issued, spelling : Spellings]

(* Policy.check: the actions that need the host's approval.                *)
Gated == {a \in Actions :
            ~ \/ Risk[a] = "read"
              \/ Risk[a] = "write" /\ AllowWrites}

(* What a host may attach to an action: nothing, any token ever issued, in *)
(* any spelling, or a forged one.  The policy does not look at the token   *)
(* of the others.                                                          *)
Presented(a) == IF a \in Gated THEN Granted \cup {None, Forged(a)} ELSE {None}

(* ActionStatus with the error code that goes with it.                     *)
Results == {"none", "unknown_tool", "invalid_arguments", "approval_required",
            "completed", "tool_error", "audit_outcome_unknown"}
Refusals == {"unknown_tool", "invalid_arguments", "approval_required"}

Records == [call : Nat, action : Actions, event : {"decision", "intent", "outcome"},
            result : Results]

Calls == [pc : {"idle", "called", "consume", "decision", "intent", "run", "outcome",
                "returned", "raised"},
          id : Nat, action : Actions \cup {None}, token : Tokens \cup {None},
          result : Results]

IdleCall == [pc |-> "idle", id |-> 0, action |-> None, token |-> None, result |-> "none"]

(* Thread t is not inside execute.                                         *)
Done(t) == call[t].pc \in {"idle", "returned", "raised"}

(* Thread t goes on at pc; its result is what execute will return.         *)
Goto(t, pc, result) == call' = [call EXCEPT ![t].pc = pc, ![t].result = result]

(* Faulty variant: the audit record carries the action's token.            *)
RecordWithToken(t, event) == [call |-> call[t].id, action |-> call[t].action, event |-> event,
                              result |-> call[t].result, token |-> call[t].token]

(* The record _audit writes for the call of thread t.                      *)
Record(t, event) == [call |-> call[t].id, action |-> call[t].action, event |-> event,
                     result |-> call[t].result]

Init ==
  /\ now = 0
  /\ boot = [p \in Processes |-> 0]
  /\ used = [p \in Processes |-> {}]
  /\ issued = {}
  /\ call = [t \in Threads |-> IdleCall]
  /\ calls = 0
  /\ log = {}
  /\ torn = FALSE
  /\ effects = {}

-----------------------------------------------------------------------------
(* The host: a decision to approve action a mints a token for it.          *)

Issue(p, a) ==
  /\ Cardinality(issued) < MaxTokens
  /\ issued' = issued \cup {Signed(p, a)}
  /\ UNCHANGED <<now, boot, used, call, calls, log, torn, effects>>

(* Call execute(action) with action.approval_token = token.                *)
Execute(t, a, token) ==
  /\ Done(t)
  /\ calls < MaxCalls
  /\ calls' = calls + 1
  /\ call' = [call EXCEPT ![t] = [pc |-> "called", id |-> calls + 1, action |-> a,
                                  token |-> token, result |-> "none"]]
  /\ UNCHANGED <<now, boot, used, issued, log, torn, effects>>

-----------------------------------------------------------------------------
(* Agent.execute, up to the decision.                                      *)

UnknownTool(t) ==
  /\ call[t].pc = "called"
  /\ call[t].action \in Unregistered
  /\ Goto(t, "decision", "unknown_tool")
  /\ UNCHANGED <<now, boot, used, issued, calls, log, torn, effects>>

InvalidArguments(t) ==
  /\ call[t].pc = "called"
  /\ call[t].action \in Malformed \ Unregistered
  /\ Goto(t, "decision", "invalid_arguments")
  /\ UNCHANGED <<now, boot, used, issued, calls, log, torn, effects>>

(* Faulty variant: the token is not bound to the action.                   *)
ValidForAnyAction(p, a, token) ==
  /\ token # None
  /\ token.approval.exp > now
  /\ token.approval.secret = Secret(p)

(* The lock-free part of ApprovalAuthority.verify: it looks at what the    *)
(* token decodes to.                                                       *)
ValidToken(p, a, token) ==
  /\ token # None
  /\ token.approval.exp > now
  /\ token.approval.action = a
  /\ token.approval.secret = Secret(p)

(* Policy.check, up to the authority's lock.                               *)
PolicyCheck(t) ==
  /\ call[t].pc = "called"
  /\ call[t].action \notin Unregistered \cup Malformed
  /\ \/ /\ call[t].action \notin Gated
        /\ Goto(t, "intent", "none")
     \/ /\ call[t].action \in Gated
        /\ ValidToken(ProcessOf[t], call[t].action, call[t].token)
        /\ Goto(t, "consume", "none")
     \/ /\ call[t].action \in Gated
        /\ ~ ValidToken(ProcessOf[t], call[t].action, call[t].token)
        /\ Goto(t, "decision", "approval_required")
  /\ UNCHANGED <<now, boot, used, issued, calls, log, torn, effects>>

(* Faulty variant: the lock protects the insertion only, not the test.     *)
ConsumeUntested(t) ==
  /\ call[t].pc = "consume"
  /\ used' = [used EXCEPT ![ProcessOf[t]] = @ \cup {call[t].token}]
  /\ Goto(t, "intent", "none")
  /\ UNCHANGED <<now, boot, issued, calls, log, torn, effects>>

(* The locked part of ApprovalAuthority.verify: `used` has the strings.    *)
ConsumeToken(t) ==
  /\ call[t].pc = "consume"
  /\ \/ /\ call[t].token \in used[ProcessOf[t]]
        /\ Goto(t, "decision", "approval_required")
        /\ UNCHANGED used
     \/ /\ call[t].token \notin used[ProcessOf[t]]
        /\ used' = [used EXCEPT ![ProcessOf[t]] = @ \cup {call[t].token}]
        /\ Goto(t, "intent", "none")
  /\ UNCHANGED <<now, boot, issued, calls, log, torn, effects>>

-----------------------------------------------------------------------------
(* AuditLog.append, as execute sees it: the record is durable when it      *)
(* returns.  When it raises, nothing was written (no key, no lock, or the  *)
(* tail is already incomplete), or part of a line was, or all of it was,   *)
(* with or without its newline, and the rest failed.                       *)

Appended(r) ==
  /\ ~ torn
  /\ log' = log \cup {r}
  /\ UNCHANGED torn

AppendRaises(r) ==
  \/ UNCHANGED <<log, torn>>
  \/ ~ torn /\ torn' = TRUE /\ log' \in {log, log \cup {r}}
  \/ ~ torn /\ log' = log \cup {r} /\ UNCHANGED torn

(* Faulty variants: a failing append is ignored.                           *)
AuditDecisionBestEffort(t) ==
  /\ call[t].pc = "decision"
  /\ Appended(Record(t, "decision")) \/ AppendRaises(Record(t, "decision"))
  /\ Goto(t, "returned", call[t].result)
  /\ UNCHANGED <<now, boot, used, issued, calls, effects>>

AuditIntentBestEffort(t) ==
  /\ call[t].pc = "intent"
  /\ Appended(Record(t, "intent")) \/ AppendRaises(Record(t, "intent"))
  /\ Goto(t, "run", "none")
  /\ UNCHANGED <<now, boot, used, issued, calls, effects>>

AuditOutcomeBestEffort(t) ==
  /\ call[t].pc = "outcome"
  /\ Appended(Record(t, "outcome")) \/ AppendRaises(Record(t, "outcome"))
  /\ Goto(t, "returned", call[t].result)
  /\ UNCHANGED <<now, boot, used, issued, calls, effects>>

AuditDecision(t) ==
  /\ call[t].pc = "decision"
  /\ \/ Appended(Record(t, "decision")) /\ Goto(t, "returned", call[t].result)
     \/ AppendRaises(Record(t, "decision")) /\ Goto(t, "raised", "none")
  /\ UNCHANGED <<now, boot, used, issued, calls, effects>>

(* The durable intent must succeed before an effect is allowed to start.   *)
AuditIntent(t) ==
  /\ call[t].pc = "intent"
  /\ \/ Appended(Record(t, "intent")) /\ Goto(t, "run", "none")
     \/ AppendRaises(Record(t, "intent")) /\ Goto(t, "raised", "none")
  /\ UNCHANGED <<now, boot, used, issued, calls, effects>>

Effect(t) == [call |-> call[t].id, action |-> call[t].action, token |-> call[t].token]

(* tool.run: it completes, or raises before or after its effect happened;  *)
(* an exception outside the caught types leaves execute.                   *)
RunTool(t) ==
  /\ call[t].pc = "run"
  /\ \/ effects' = effects \cup {Effect(t)} /\ Goto(t, "outcome", "completed")
     \/ effects' \in {effects, effects \cup {Effect(t)}} /\ Goto(t, "outcome", "tool_error")
     \/ effects' \in {effects, effects \cup {Effect(t)}} /\ Goto(t, "raised", "none")
  /\ UNCHANGED <<now, boot, used, issued, calls, log, torn>>

(* OSError, ValueError and AuditKeyError become audit_outcome_unknown.  An *)
(* error of the credential store and the TypeError of a tail that is no    *)
(* record leave execute; both come before anything is written.             *)
AuditOutcome(t) ==
  /\ call[t].pc = "outcome"
  /\ \/ Appended(Record(t, "outcome")) /\ Goto(t, "returned", call[t].result)
     \/ AppendRaises(Record(t, "outcome")) /\ Goto(t, "returned", "audit_outcome_unknown")
     \/ UNCHANGED <<log, torn>> /\ Goto(t, "raised", "none")
  /\ UNCHANGED <<now, boot, used, issued, calls, effects>>

-----------------------------------------------------------------------------
(* The environment.                                                        *)

Tick ==
  /\ now < MaxTime
  /\ now' = now + 1
  /\ UNCHANGED <<boot, used, issued, call, calls, log, torn, effects>>

(* Faulty variant: the secret outlives the process, the used tokens do not.*)
CrashKeepingSecret(p) ==
  /\ used' = [used EXCEPT ![p] = {}]
  /\ call' = [t \in Threads |-> IF ProcessOf[t] = p THEN IdleCall ELSE call[t]]
  /\ UNCHANGED <<now, boot, issued, calls, log, torn, effects>>

(* Process p dies and is started again: its authority is a new one and its *)
(* calls are gone.  A record being written may be left incomplete.         *)
Crash(p) ==
  /\ boot[p] < MaxBoots
  /\ boot' = [boot EXCEPT ![p] = @ + 1]
  /\ used' = [used EXCEPT ![p] = {}]
  /\ call' = [t \in Threads |-> IF ProcessOf[t] = p THEN IdleCall ELSE call[t]]
  /\ \/ UNCHANGED torn
     \/ /\ \E t \in Threads : ProcessOf[t] = p /\ call[t].pc \in {"decision", "intent", "outcome"}
        /\ torn' = TRUE
  /\ UNCHANGED <<now, issued, calls, log, effects>>

(* What execute does by itself once it is called.                          *)
Step(t) ==
  \/ UnknownTool(t)
  \/ InvalidArguments(t)
  \/ PolicyCheck(t)
  \/ ConsumeToken(t)
  \/ AuditDecision(t)
  \/ AuditIntent(t)
  \/ RunTool(t)
  \/ AuditOutcome(t)

Next ==
  \/ \E p \in Processes, a \in Gated : Issue(p, a)
  \/ \E t \in Threads, a \in Actions : \E token \in Presented(a) : Execute(t, a, token)
  \/ \E t \in Threads : Step(t)
  \/ Tick
  \/ \E p \in Processes : Crash(p)

Spec == Init /\ [][Next]_vars

-----------------------------------------------------------------------------
(* The state is well typed, in every reachable state of every instance.    *)
TypeOK ==
  /\ now \in 0 .. MaxTime
  /\ boot \in [Processes -> 0 .. MaxBoots]
  /\ used \in [Processes -> SUBSET Tokens]
  /\ issued \subseteq Approvals
  /\ call \in [Threads -> Calls]
  /\ calls \in 0 .. MaxCalls
  /\ log \subseteq Records
  /\ torn \in BOOLEAN
  /\ effects \subseteq [call : Nat, action : Actions, token : Tokens \cup {None}]

(* A token string has one effect: however many threads present it, in      *)
(* whatever order their verify calls interleave, and across the restarts   *)
(* that empty ApprovalAuthority.used, no two effects share a token.        *)
OneEffectPerToken ==
  \A e, f \in effects :
    e.action \in Gated /\ f.action \in Gated /\ e.token = f.token => e = f

(* An approval has one effect, however its token is spelled: "one-time     *)
(* approvals", "no interleaving of concurrent verify calls can consume one *)
(* token twice" (approvals.py).                                            *)
OneEffectPerApproval ==
  \A e, f \in effects :
    e.action \in Gated /\ f.action \in Gated /\ e.token.approval = f.token.approval => e = f

(* Hosts present a token as it was issued.                                 *)
Verbatim == Spellings = {AsIssued}

(* An effect the policy gates was approved by the host, for exactly that   *)
(* action: a token for another action, an unsigned one or none never runs  *)
(* a tool, in whatever spelling (ApprovalAuthority.verify, Policy.check).  *)
GatedEffectsAreApproved ==
  \A e \in effects : e.action \in Gated =>
    e.token.approval \in issued /\ e.token.approval.action = e.action

(* What the audit file says about effects can be relied on, through        *)
(* crashes and failing writes (architecture.md, audit crash semantics):    *)
(* no intent, no effect; a completed outcome, an effect; a refusal, none.  *)
IntentOf(e) == [call |-> e.call, action |-> e.action, event |-> "intent", result |-> "none"]

LogAccountsForEffects ==
  /\ \A e \in effects : IntentOf(e) \in log
  /\ \A r \in log : r.event = "outcome" /\ r.result = "completed" =>
       \E e \in effects : e.call = r.call /\ e.action = r.action
  /\ \A r \in log : r.event = "decision" => \A e \in effects : e.call # r.call

(* What execute returns can be found in the log: a caller told that the    *)
(* action was refused, completed or failed finds that very record, and one *)
(* told audit_outcome_unknown finds at least the intent to go by.  A       *)
(* caller to whom execute raises finds no outcome, so an effect there may  *)
(* have been stays unknown, as its intent says.                            *)
ReturnsAreAudited ==
  \A t \in Threads :
    /\ call[t].pc = "returned" =>
         /\ call[t].result \in Refusals => Record(t, "decision") \in log
         /\ call[t].result \in {"completed", "tool_error"} => Record(t, "outcome") \in log
         /\ call[t].result = "audit_outcome_unknown" => IntentOf(Effect(t)) \in log
    /\ call[t].pc = "raised" => \A r \in log : r.call = call[t].id => r.event # "outcome"

-----------------------------------------------------------------------------
(* What the boundary promises, seen from the host: OneTimeApproval, where  *)
(* issuing a token grants it in each of its spellings, and the gated       *)
(* effects use what was granted.                                           *)
Promise == INSTANCE OneTimeApproval WITH
  Approvals <- Tokens,
  Uses <- 1 .. MaxCalls,
  granted <- Granted,
  spent <- {[use |-> e.call, approval |-> e.token] : e \in {f \in effects : f.action \in Gated}}

(* Every behaviour of the boundary is one of the promise: a token is used  *)
(* only after it was granted, once, by one call of execute.  With one      *)
(* spelling this is one use per approval.                                  *)
KeepsPromise == Promise!Spec
=============================================================================
