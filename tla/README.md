# OpenMuse: verification project

TLA+ modules, TLC configurations and TLAPS proofs for the OpenMuse agent runtime
(`src/openmuse`, Python, about 4100 lines). The reference is the code; a document is
quoted only where it promises something the code does not do.

## 1. The system

A planner proposes typed actions. The **execution boundary** looks the tool up,
validates the arguments, asks the policy, consumes a one-time approval token where the
policy wants one, and runs the tool between two durable audit records. Everything else
feeds that boundary or records what it did.

| Component | State | Operations | What is hard | What makes it correct |
| --- | --- | --- | --- | --- |
| Execution boundary (`core`, `policy`, `approvals`, `registry`, `validation`, `models`) | `ApprovalAuthority.secret` and `used`, in memory; the registry, fixed | `issue`, `verify`, `Policy.check`, `Agent.execute`, `Agent.run` | threads with one token, in any spelling; a restart empties `used`; every audit write can fail before, in or after the line; tools raise after their effect | one effect per token string, and per approval if tokens come as issued; only for the action approved; intent before effect; no result that is not on disk |
| Web chat (`web_chat`, `approval_service`) | `approvals` table; pending cards, transcripts and authority in memory | `handle`, `decide`, `create`, startup | the decision is committed before the action runs; restarts; two servers on one database; exceptions nobody turns into a response | only approved requests run, at most once; decisions are final; replies are true; every request is answered, or an exception closes its connection |
| Job scheduler (`scheduler`) | `jobs` table: `last_run`, `lease_until`, `claim_token` | `add`, `remove`, `due`, `claim_due`, `claim_token`, `heartbeat`, `mark_run`, `retry_unknown` | leases that run out under a live worker; late completions; a read outside a transaction | a fire is claimed again only after reconciliation; claims are not taken over; `last_run` only grows |
| Audit chain (`audit`) | JSON lines, each with the hash of the one before | `append`, `verify_chain` | locking between processes, torn tail, key resolved before the lock, verification without a lock, of a file that may not be there yet, with keys that may be out of reach | what is appended verifies; what verifies was appended |
| Audit keys (`audit`) | credentials per key and a pointer; or one key file; legacy document | `current`, `rotate`, `resolve`, migration | no compare-and-swap; migration against rotation; crash between steps | a key that signed a record stays resolvable |
| Delegation (`subagents`) | `quota` and `redemptions` tables; grant trees | `narrow`, `verify`, `consume` | siblings against a shared budget; restarts | no budget overspent; no token string redeemed twice; children never wider than parents |
| Memory (`memory`) | one JSON file, and audit records | `remember`, `update`, `promote`, `forget`, `verify_memory` | unlocked read-modify-write; save before audit; one temporary name for all writers | honest histories verify; what is forgotten stays so |
| Tasks (`tasks`) | `tasks` and `task_events` tables | `create`, `checkpoint`, `cancel`, `append_event`, `events` | read-modify-write over two statements; readers that follow a growing table | a task resumes from its last checkpoint and event; steps within budget |
| Host events (`host_events`) | `seen` table | `verify`, `consume`, `post` | pruning against the age check at the boundary second | an event is accepted once |
| Secrets and OAuth (`secrets`, `keyring_keys`, `google_oauth`, `broker`, `ephemeral`) | vault file, master key, token record | `put`, `use`, `delete`, `access_token`, `revoke_and_delete` | whole-file rewrites, refresh against revocation, first key creation | what is stored works or was revoked; what works is stored |
| Connectors (`connectors`, Google adapters) | grants per connector | `grant`, `revoke`, `allows`, `run` | revocation between check and call; deletion that fails | a revoked connector is silent |
| Checkpoints (`audit_anchor`, `checkpoint_publisher`) | none | `create_checkpoint`, `verify_checkpoint` | two reads of a growing file | count and head belong together |
| Workers, tools, providers, CLI, UI | none of their own | one subprocess, file or network call each | operating-system limits | outside TLC's reach, or pure computation |

How they meet: `ChatSession` calls `Agent.execute` and `ApprovalAuthority.issue` in one
process; `Agent` calls `Policy.check`, which calls `ApprovalAuthority.verify` (or
`DelegatedAuthority.verify`, which adds the ledger); `Agent`, `MemoryStore`,
`SecretBroker` and `DelegatedAuthority` append to audit files; `AuditLog` asks a key
store for the key; `ConnectorTool` is a tool of `Agent` that asks `ScopeGrants`. Processes
share state only through SQLite files, the audit file, the vault file and the operating
system's credential store.

`PROJECT.json` lists the components with their status, and under `hazards` what in this
code is hard to test, each at its line and with the properties that watch it.

## 2. The modules

### OneTimeApproval: what an approval boundary promises

Two variables: the approvals `granted` and which use `spent` which. `Spend` needs a granted
approval nobody has spent. `AgentExecution` implements it (`KeepsPromise`).

### AgentExecution: the execution boundary

| Model | Code |
| --- | --- |
| `call[t]` with `pc` | the frame of `Agent.execute` in host thread `t`; each `pc` is a place where another thread, a failure or a crash can come between |
| `UnknownTool`, `InvalidArguments`, `PolicyCheck` | `execute` up to the decision, with the lock-free half of `verify` |
| `ConsumeToken` | the half of `verify` under `_lock` |
| `AuditDecision`, `AuditIntent`, `AuditOutcome` | the three `_audit` calls, each with what an append that raises may have left behind: nothing, a torn line, or the whole record, with or without its newline. The last may be `audit_outcome_unknown`, or leave `execute` with an exception |
| `RunTool` | `tool.run`: completed; raised before or after the effect, caught or not |
| `used[p]`, `Secret(p)`, `boot[p]` | the memory of the authority in process `p`; a restart gives it a new secret and an empty set |
| `issued`, `effects` | history: what the host has approved, what tools have done |
| `log`, `torn` | the complete records of the audit file; its last line is incomplete, if only by its newline |
| `Tick`, `Crash` | the clock in seconds; the death and restart of a process |

A token is a string: an approval (action, expiry, signing secret) in a spelling. The HMAC is
abstracted to what it does: only `Issue` makes an approval with a secret; a forged one carries
none. It is over the bytes that `bytes.fromhex` reads from the token (approvals.py:41), which
ignores case and blanks: `ValidToken` looks at the approval alone, while `used` holds the strings
(lines 57-59). A host presents no token, any token ever issued in any of the `Spellings`, or a
forged one; under `Verbatim` there is only the one `issue` writes (`AsIssued`). `Action` equality
(id, tool and arguments) is the identity of an element of `Actions`. A token issued twice in the
same second for the same action is one string in the code and one element here.

### WebChat: the chat server around it

EXTENDS `AgentExecution`: the server's own steps (`Propose`, `RunApproved`) start calls of
`execute`, whose steps then interleave with those of other servers. A thread is one
`openmuse-chat` process, since `HTTPServer` answers one request at a time; several share the
approvals database and the audit file. A request is named by its action: `handle` gives every
proposal a fresh id. `Decide` is the immediate transaction of `ApprovalService.decide`;
what follows in `ChatSession.decide` are steps of their own, because a crash or the start of
another server may come between. `Lossy` are actions whose arguments differ from their JSON
round trip (NaN), which the comparison refuses after the decision. `Start` is
`ApprovalService.__init__` with its `UPDATE`.

`reply` is what the browser gets: the events of a turn (`ok`), one of the three outcomes of a
decision (`denied`, `ran_once`, `failed`), an error with its status, or nothing (`dropped`).
`Fail` is an exception that leaves a handler: `do_POST` makes an error of `ValueError`, `TypeError`
and `ProviderError`; any other one (`OSError`, `AuditKeyError`, `sqlite3.Error`) closes the
connection without a response, and the server goes on. A decision that is refused (unknown,
expired or decided request, wrong session, locked database) changes nothing and is left out.

### JobScheduler: cron jobs under leases

One action per transaction on the `jobs` table, and the worker that architecture.md
describes: `claim_due`, `claim_token` per job, the job with heartbeats, `mark_run`. Jobs in
`Plain` may also be run with `due` and `mark_run` without a token, as the tests do; that
`mark_run` is two actions, because its `SELECT` opens no transaction. `claims` is history:
which token was minted for which fire of which job, and whether the host has reconciled it. A
worker reports a `ran_at` between its claim and now. While a job is in the table whose
schedule has no fire, `due` raises (`DueRaises`). `Prompt` is the assumption that workers
read their tokens right after the claim, before time passes.

It EXTENDS `CronSchedule`: the five fields as sets of parts (`ParseField` with steps, ranges and
the two Sundays, `Valid` for what `add` refuses), `DayMatches` with its "either day field may
match" when both are restricted, and `NextAfter` within the five years. The calendar is a
constant, what `datetime` says of each minute; `Scheduler` evaluates every schedule in UTC.

### HostEvents: signed decisions that count once

`Endpoints` that answer `post` with connections to one `seen` table. `Verify` and `ReadClock` are
the two places the code reads the clock (`HostEventVerifier.verify` and
`ReplayStore.consume`); `Consume` is the transaction that prunes and inserts, `Post` the check
of the payload after it. `InTime` is the assumption that no second ends between the first
clock read and the commit. A row's expiry is a function of its event, since the timestamp is
signed with the id.

`HostTables` puts `JobScheduler` and `HostEvents` side by side, one of the two tables in each
behaviour: they share nothing, and one run checks both.

### Delegation: grants that narrow, and their budgets

Threads that call `DelegatedAuthority.verify` through a tree of authorities. `Tokens` are strings,
and `ActionOf` says which action the approval in one is for: several strings may spell one
approval, and the root's `used` as well as the ledger's digests (subagents.py:75) tell them
apart. `auths[i]` is an
authority object with its grant, its `budgets` and the history variable `line`, the
authorities it was narrowed from. `verify` is three steps: `CheckGrant` (`_within_grant`),
`VerifyRoot` (the root's atomic test-and-insert; the rest of the root's checks are in
`AgentExecution`) and `Consume` or `Refuse` (the immediate transaction of
`GrantLedger.consume`). `Restart` empties memory and keeps the ledger; the host is one with a
configured secret, so its tokens verify again, which is the case the ledger's digests are for.
`IsSubsetOf`, `IsStrictlyNarrowerThan` and `WithinGrant` are the comparisons of `Grant` with
`dict.get` as it is: a missing constraint reads as `None`. `uses` is history.

### AuditKeys: the keys of the audit chain

Processes with a `KeyringAuditKeys` each, on one credential store that has neither locks nor
compare-and-swap. `split` is the set of keys with a credential of their own, `pointer` the
pointer credential, `doc` the legacy document (its current key, `None`, or `Gone`). Every call
on the store is an action, and `work[p]` says where process `p` is between two of them.
`WriteKey` takes the write and its read-back as one, since nobody else writes that credential;
`DeleteLegacy` may leave the document, as a store without deletion does. `Fail` is a call that
raises or a process that dies, at any point. `Resolve` looks up any key ever handed out, as
`verify_chain` does with the key ids of records. `handed` and `missed` are history; `was` is
the key that was current when `rotate` was called. Fingerprints are taken to be distinct.

### KeyFile and AuditChain: the audit file

`KeyFile` is `FileAuditKeys`: `current` and `rotate` take the lock file (`Load`), replace the
document (`Save`) and return; `resolve` reads without the lock. `AuditChain` EXTENDS it:

| Model | Code |
| --- | --- |
| `AppendCall`, `KeyAnswer` | `append` up to the key, before the file is touched |
| `OpenLog`, `WriteLine`, `AppendReturn` | `_append_once`: `flock`, `_last_record`, the line, `fsync` and unlock |
| `tail` | there is no file yet; the file ends with a newline; after that comes a part of a line; or its last line lacks the newline only, which a reader takes for a line and `append` refuses to go on from |
| `VerifyCall`, `VerifyLine`, `VerifyEnd` | `verify_chain`, one line at a time and without a lock: the file is opened (`Opened`, a refusal if there is none), then `Fault` with its checks in the code's order |
| `VerifyUnavailable` | the file cannot be read, or the key store raises: a refusal too (audit.py:613-616) |
| `ReadHead` | the second read of `create_checkpoint` |
| `Fail` | a step that raises or a process that dies; a writer leaves no line, a part of one, a whole one, or one without its newline (`LeftBy`) |
| `Edit` | someone without the keys removes or rewrites a line, once |
| `versions`, `since`, `retired` | history: what appending made of the file; which keys had been rotated away when an append was called |

A hash is the name of a line: contents that differ have different names, and whoever has no key
can compute the hash of an unkeyed line only.

### StateFile, MemoryStore, TaskStore and Credentials: read, change, replace

`StateFile` has the system calls with which `MemoryStore._save` and `SecretVault._write` replace
a file: open the one temporary name truncating it, write, replace. Two writers at once share that
name, so a descriptor may point to a file another writer has truncated, moved to the path, or
replaced since; the operators say what the path then holds, a document, nothing or a mixture.

`MemoryStore` has two processes in `remember`, `promote`, `update` and `forget`: `Load`, the
three steps of `_save`, and `Log`, which may raise with nothing, a torn line or the record on
disk. `Flagged` is `verify_memory`; `Writes`, the dictionary it builds from the chain, takes fact
and tier of an id from its latest record that sets them. History: `disturbed`, the ids of calls that overlapped
another or failed between file and record, and `forgotten`.

`TaskStore` has the statements of `checkpoint` and `cancel` (`Get`, `ReadCancel`, `Save`) and of
`append_event` (`Find`, `Insert`, which takes the database's write lock, `Commit`), and readers
that `Poll` with the last sequence they have. A call that does not get the lock raises (`Die`);
a commit is taken to succeed.

`Credentials` composes a Google connector, its grant in `ScopeGrants`, `GoogleOAuthManager`, the
`SecretVault` and the provider. The provider's answers are numbered, and `refresh` says with which
answer the refresh token of each came; the provider may keep or replace it, and answers get lost.
`lock` is `_refresh_lock`, which `exchange_code` and `revoke_and_delete` do not take.

Definitions in these modules that are marked as faulty variants model plausible bugs. Each is
named in `PROJECT.json` under `mutants` as the replacement of a definition; with it, the
property it is listed for fails. They are no part of any specification.

### MC modules

`MCAgentExecution`, `MCWebChat`, `MCJobScheduler`, `MCHostEvents`, `MCDelegation`, `MCAuditKeys`
and `MCAuditChain` define the small sets; the `.cfg` files choose the bounds and the properties.
`MCHostTables` joins the instances of the scheduler and of host events. `MCStores` runs `Stores`,
which has one of the three stores in each behaviour. `MCJobScheduler` also compares what
`CronSchedule` makes of its four expressions with what they mean (`ExpressionsRead`).

## 3. The runs

| Run | Question | Bounds, and why they are enough |
| --- | --- | --- |
| `agent` | Are token strings one-time, gated effects approved and the log truthful under interleaving, failing writes and restarts? Is the boundary a `OneTimeApproval`? | 2 threads, 5 actions (money, represent, write that the policy allows, unknown tool, invalid arguments), 2 approvals in 2 spellings each, 2 calls, 1 tick, 1 restart. Two calls are what it takes to spend a token twice; the second may come before or after the restart or the expiry. |
| `agent_respelled` (violation) | Is an approval one-time, however its token is written? | No: the second call presents the consumed token in upper case; it decodes to the same payload and is not in `used`. |
| `web_chat_shared` | Do two servers on one workspace keep decisions, cards and effects apart? | 2 servers, a read and a write, 4 calls, 2 tokens, each server stops once, one step per request (so the loop meets its limit), requests expire after the one tick. |
| `web_chat_live` | Does every HTTP request come to an end, and are the answers true? | 1 server, two writes (one lossy) and a read, 6 calls, 3 tokens, 2 steps per request. Any audit write and any row may fail, with or without a response. |
| `host_tables` | Is a fire claimed again only after reconciliation, is no claim taken over, and does `last_run` only grow? Does a signed event decide once, and does pruning agree with the age check? | Jobs: 2 workers, a job that fires every minute, one that fires once and may be run without a claim, one that never fires and one that does not parse, a lease of 2 of 5 minutes, 3 claims: enough for claim, expiry, reconciliation, second claim and a late completion. Events: 3 endpoints, 3 events (stamped at the seconds 2 and 3, one of them no decision), an age of 2 in 6 seconds: events are stamped ahead of the clock, and each is early, usable and at its last second in some state, the older ones also too old. |
| `scheduler_slow_token` (violation) | What if a worker reads its token after its lease ran out? | `claim_token` gives it the token of the next claim. It completes that claim with its own earlier `ran_at`, and the fire is due again while it runs. |
| `host_events_slow` (violation) | And when a request takes longer than its second? | A replay that passed the age check in the event's last second prunes the event's own row in the next and is accepted. |
| `delegation` | Do budgets hold at every level, do token strings count once, and does authority only narrow? | 2 threads, 3 actions on 2 tools, one of them with its approval in two spellings, 3 grants that differ in budget, tools, expiry and constraint, up to 3 authorities (chains and siblings), one tick, any number of restarts. A verification starts only while fewer than 2 have said yes, so up to 3 do; a budget is 1, so two are enough to overspend it. |
| `audit_keys` | Do keys that signed records stay resolvable, does a lookup ever miss, and does a rotation replace the key it found? | 3 processes, 2 fresh keys, a document of 2 keys with or without a current one, or none. With three processes a migration, a rotation and a lookup run at once; two fresh keys give two rotations, or a first key and its rotation, in a race. |
| `audit_keys_race` (violation) | Does a rotation always retire the current key? | No: a migration that found no pointer puts the legacy key back. |
| `audit_chain` | Do honest files verify, is what verifies honest, and do keys and checkpoints keep their order, with everybody at work at once? | 2 processes that append, rotate, verify and anchor, a file that does not exist yet or holds one unkeyed line, 3 appended lines, 2 keys, 1 edit. Three lines give a first, a middle and a last one to remove or rewrite; with two keys one rotation falls between any two steps of an append or a verification. |
| `stores` | What do the memory file, the task table and the vault keep, although nothing locks their read-modify-write? | Memory: 2 processes, 2 ids, 2 facts, 3 calls on a file that is missing or holds a memory; two calls to overlap and one to come after. Tasks: 2 workers, 2 tasks, 4 calls. Credentials: 2 threads, 4 calls, 3 answers, which is consent, refresh and one more consent or refresh. |

Symmetry (threads, servers, workers) is used only in runs without a liveness property. All
configurations say `CHECK_DEADLOCK FALSE`: the bounds on time, calls, tokens and claims end
every behaviour.

**Fairness.** Only `ChatSpec` has any: weak fairness of `Serve(s)`, what a chat server does by
itself once a request has reached it. The handlers are straight-line synchronous code in one
thread; the planner (with its own timeout), the tool and SQLite's lock are taken to return.
Nothing is assumed of users, of the clock or of restarts. `RequestsAreAnswered` has three ends of
a request: a response, the end of the process, or a connection that an exception closes without a
response. After a person's decision is recorded, only an exception out of `execute` does the last.

## 4. What the runs show

* A token string never yields two effects (`KeepsPromise`). After a restart this rests on the
  new random secret, not on `used`: with a secret that outlives the process `KeepsPromise`
  fails (`CrashKeepingSecret`). A host that embeds `ApprovalAuthority` with a fixed secret
  does not have the property; `build_session` does.
* An approval may yield two, if its token is presented a second time in another spelling
  (`agent_respelled`). The same spelling counts a second time in a ledger. The chat, which hands
  its tokens to nobody, presents each as it was issued. Which action is approved, by whom and until
  when does not depend on the spelling (`GatedEffectsAreApproved`).
* `LogAccountsForEffects` holds with every append free to fail in every way, because the
  intent's failure leaves `execute` before `tool.run`. `ReturnsAreAudited` adds that a torn
  file leaves `audit_outcome_unknown`, never an unrecorded success, and that a call which left
  `execute` with an exception has no outcome on disk. That may happen after the effect: core.py:50
  catches `OSError`, `ValueError` and `AuditKeyError`, not the `TypeError` of a last line that is
  JSON but no record (audit.py:467) or what the credential store raises (audit.py:221, 307), for
  which architecture.md:43-44 promises `audit_outcome_unknown`. The caller then has the intent to
  go by, as after a crash.
* In the chat, an approved row says that a person approved, not that the action ran: if the
  intent cannot be written, the row stays approved, the card is gone and nothing ran. The
  properties are stated accordingly (`OnlyApprovedActionsRun`, `RepliesAreTrue`).
* Not every request gets a response: a full disk, a key store or a database that fails closes the
  connection. `RepliesAreTrue` adds that neither an error nor a closed connection hides a run that
  the audit file calls completed; and that "Approved, but the action failed." may follow an effect,
  whose intent then is on disk.
* Starting a second server interrupts the first one's pending requests (`CardsMatchRows`
  allows exactly this); its cards then refuse every decision.
* An event's row is pruned in the first second in which the age check refuses it, not before:
  `UsableEventsAreRemembered` holds even for slow requests. Only a request that carries an old
  age check past that second can use the gap (`host_events_slow`).
* A budget that is shared holds because every descendant carries the budget of each limited
  ancestor (`NarrowOwnBudget` breaks it), and because the ledger checks and counts all of them in
  one transaction.
* No key that was handed out is ever out of reach, even while the document it was in is
  migrated and deleted by another process: the second read of the key's own credential is what
  that takes (`ReadDocLast` leaves it out). The pointer is weaker: a rotation during the first
  use of an upgraded store can end on the legacy key (`audit_keys_race`). Only a legacy key can
  come back: a fresh one is written to the pointer once, by whoever drew it.
* `verify_chain` needs no lock: what it reads beyond the lines it began with only makes the
  accepted prefix longer, and it never calls an honest file broken. It does refuse one that is not
  there, that cannot be read, whose keys are out of reach, whose last line is half written, or that
  has unkeyed lines when it was asked for none. What it cannot see is an edit of the end of the
  file, neither lines that were removed there nor an unkeyed line rewritten, also when a later
  append has built on it: `VerdictsAreRight` says what the file was when its last accepted keyed
  line had been appended, and unkeyed lines after that line it does not cover at all.
* A checkpoint's count may be smaller than the position of its head (an append between the two
  reads): the head it signs may be a line that was not verified. The count is never larger
  (`CheckpointsCover`).
* An append that was called before a rotation may still sign with the retired key, since the key
  comes before the lock; one that is called after it does not (`RetiredKeysStayRetired`).
* A store whose calls do not overlap survives every failure: a temporary file that was left
  behind is truncated by the next writer (`OpenedKeeping` breaks this), so a memory history with
  failed calls still reconciles and the vault still matches the provider. Calls that overlap lose
  updates, and may leave a file that does not parse, because both write to one temporary name.
* A refresh that crosses `revoke_and_delete` writes the record back after it was deleted, but the
  token in it is dead: the provider revoked it first (`VaultMatchesProvider`). A consent that
  crosses either is not protected, and is excepted there.
* A connector that was revoked sends only what began before (`SilentAfterRevocation`); the getter
  that `delete_cached_data` drops stops even most of that.
* Findings: the four violation runs, described in `PROJECT.json`.

Observations that no property of a passing run contradicts:

* A budget belongs to an authority object, so one that is made anew after a restart starts fresh
  although the ledger is kept (`grant_id` is random).
* A parent constraint with the value `None` is satisfied by a child that drops it.
* A budget of zero lets its first token through: `consume` compares the limit only with a row
  that is there. The run of `delegation` has no such grant, and the proof assumes none.
* `mark_run` without a token reads `claim_token` outside a transaction, so a claim that is
  committed between its `SELECT` and its `UPDATE` gets a `last_run` without its token; the claim
  itself stays (`ClaimsAreNotStolen`).
* A job that has never run is anchored one minute ago: its first fire passes unless somebody asks
  for due jobs in that very minute.
* `verify_memory` does not notice a forgotten memory that an overlapping call has brought back: it
  is live, matches its write, and the chained forget of a live item is not looked at.

## 5. What is proved

`AgentExecution_proofs` proves, for every value of the constants that satisfies the
assumptions in `AgentExecution` (any sets of threads, processes and actions, any bounds):

| Theorem | Statement |
| --- | --- |
| `TypeCorrect` | `Spec => []TypeOK` |
| `TokensAreOneTime` | `Spec => []OneEffectPerToken` |
| `ApprovalsAreOneTime` | `Verbatim => (Spec => []OneEffectPerApproval)` |
| `EffectsAreApproved` | `Spec => []GatedEffectsAreApproved` |
| `LogIsTruthful` | `Spec => []LogAccountsForEffects` |
| `ResultsAreAudited` | `Spec => []ReturnsAreAudited` |
| `BoundaryKeepsPromise` | `Spec => KeepsPromise` |

None of the safety properties is inductive by itself. The inductive invariant `IInv` adds:

* `CallsAreNamed`: calls in progress have distinct names; no call, effect or record has a name
  above `calls`, so a new call cannot inherit an old one's records;
* `SecretsAreOld`: an issued token is signed with a secret of a boot that has happened, so
  the secret of a restarted process is nobody's: this is what makes a restart safe;
* `CheckedTokens`: a call that is about to consume its token is gated, and the token is an
  issued one for its action and its process;
* `HeldTokens`: a token between consumption and effect is in `used`, no effect has spent it,
  and no two calls hold the same one;
* `SpentTokens`: a spent token was issued for its effect's action, and if a live process could
  still verify it, that process has it in `used`;
* `Phases`: what is on disk and what has happened at each `pc`.

Per property there is one lemma that shows the whole of `IInv` and a step to preserve it,
with a step of the proof per action. `BoundaryKeepsPromise` maps `Issue` to `Grant`,
the effect of a gated call to `Spend`, and everything else to stuttering.

`HostEvents_proofs` proves, for any number of endpoints, events and any age:

| Theorem | Statement |
| --- | --- |
| `TypeCorrect` | `EventSpec => []EventTypeOK` |
| `PruningIsSafe` | `EventSpec => []UsableEventsAreRemembered` |
| `PromptEventsAreSingleUse` | `InTime => (EventSpec => []EventsAreSingleUse)` |

Its invariant says that an accepted event that could still pass the age check has its row
(`Remembered`), and, under `InTime`, that a request between its age check and its commit is
still within the age of its event and prunes with the present second (`OnTime`): so a row it
prunes is never its own.

`Delegation_proofs` proves, for every set of grants, threads and actions and any bounds:

| Theorem | Statement |
| --- | --- |
| `TypeCorrect` | `Spec => []TypeOK` |
| `BudgetsAreKept` | `NoZeroBudgets => (Spec => []BudgetsHold)` |
| `RedemptionIsOnce` | `Spec => []TokensAreRedeemedOnce` |
| `ApprovalsCountOnce` | `Verbatim => (Spec => []ApprovalsAreRedeemedOnce)` |
| `AuthorityNarrows` | `NoNoneConstraints => (Spec => []DelegationOnlyNarrows)` |

`Tree` is the heart: the budgets of an authority are exactly the limited grants of its line.
With it, a use counts in the row of an authority exactly when it is below it (`Counted`:
uses below an authority, at most its row, at most its budget). `NoZeroBudgets` is needed, because
the first use of a budget of zero is let through. `Verbatim` says that no approval is spelled as
two tokens. `AuthorityNarrows` reads "narrower" as "lets through no more", which is
transitive along a line; that `is_subset_of` implies it needs `NoNoneConstraints`
(`SubsetIsNarrower`), for the reason given in section 4.

`AuditKeys_proofs` proves, for any number of processes and keys:

| Theorem | Statement |
| --- | --- |
| `TypeCorrect` | `Spec => []TypeOK` |
| `HandedKeysStay` | `Spec => []HandedKeysResolve` |
| `LookupsSucceed` | `Spec => []LookupsFind` |
| `RotationsReplace` | `Spec => []RotationReplaces` |

`KInv` adds to the three properties what a call relies on at each `pc` (`Calls`) and that the
pointer names a key that can be found (`PointerResolves`). A key moves only from the document
to its own credential, in that order, so a lookup that misses the first and finds the document
gone can rely on the second read. For rotations `RInv` adds that a fresh key is written to the
pointer only by the process that drew it (`Unwritten`), and that no process is about to write
the key a rotation found, if it is a fresh one (`Replacing`).

`WebChat_proofs` proves, for any number of servers and requests and any bounds:

| Theorem | Statement |
| --- | --- |
| `ChatTypeCorrect` | `ChatSpec => []ChatTypeOK` |
| `ChatIsAHost` | `ChatSpec => Spec /\ KeepsPromise` |
| `RunsAreApproved` | `ChatSpec => []OnlyApprovedActionsRun` |
| `ApprovalsRunOnce` | `ChatSpec => []OneEffectPerRequest` |
| `RowsAreAudited` | `ChatSpec => []RequestsAreAudited` |
| `CardsAgree` | `ChatSpec => []CardsMatchRows` |
| `RepliesHold` | `ChatSpec => []RepliesAreTrue` |
| `DecisionsStay` | `ChatSpec => DecisionsAreFinal` |

`BoundaryStep` shows that each step of the chat is a step of `AgentExecution` or leaves the
boundary's state alone, so `IInv` of `AgentExecution_proofs` holds and `CInv` builds on it: which
row a request has at each phase (`ChatsMatchRows`), that a request is with one server
(`OneOwner`), that a server is in `execute` only for its own action (`CallsMatchChats`), and, for
the properties about effects, that an effect of an action somebody is still about comes from that
very call (`EffectsAreOwned`) and that a reply is about a request nobody is about any more
(`RepliesAreFinal`).

`JobScheduler_proofs` proves, for any number of workers and claims, any finite set of jobs, any
schedules and any calendar:

| Theorem | Statement |
| --- | --- |
| `TypeCorrect` | `Spec => []TypeOK` |
| `ClaimsStay` | `Spec => ClaimsAreNotStolen` |
| `PromptFiresAreClaimedOnce` | `Prompt => (Spec => []SlotsAreClaimedOnce)` |
| `PromptRunsAdvance` | `Prompt => (Spec => LastRunAdvances)` |

`JInv` says that a claimed row has its claim on record, for a fire after the last run
(`HeldClaims`); under `Prompt`, that no worker holds the token of a claim whose fire is later than
the start of its run (`ReportsAreLate`); and that a claim that was not given up is still held, or
its job gone, or its fire behind `last_run` (`ClaimsSettle`): so the fire is not due again. Without
`Prompt` the last two theorems are false, as `scheduler_slow_token` shows. A finite table is
assumed because `claim_due` numbers the claims it makes.

`AuditChain_proofs` proves, for any number of processes, lines and keys:

| Theorem | Statement |
| --- | --- |
| `TypeCorrect` | `Spec => []ChainTypeOK` |
| `HonestFilesVerify` | `Spec => []LinesVerify` |
| `VerdictsHold` | `Spec => []VerdictsAreRight` |
| `CheckpointsReach` | `Spec => []CheckpointsCover` |
| `NewRecordsUseNewKeys` | `Spec => []RetiredKeysStayRetired` |

`IInv` has the key file, whose lock makes its set of keys grow only (`KeyInv`), the file while
nobody has edited it (`Honest`), the file edited or not (`Sealed`: intact lines up to a keyed one
are what appending once made), and what each job has read (`JobsAreTrue`: an append's link is to
the end of the file until it writes, a verification's prefix is still intact).

`Stores_proofs` proves, for any number of processes, workers, threads and calls:

| Theorem | Statement |
| --- | --- |
| `StoresAreThree` | `Spec => MemorySpec /\ TaskSpec /\ CredentialsSpec` |
| `StoresTypeCorrect` | `Spec => []StoresTypeOK` |
| `CheckpointsAndFeedsResume` | `TaskSpec => []TasksResume` |
| `ForgettingIsFinal` | `MemorySpec => []ForgottenStays` |
| `HonestHistoriesReconcile` | `MemorySpec => []HonestMemoryReconciles` |
| `RevocationSilences` | `CredentialsSpec => []SilentAfterRevocation` |
| `VaultAndProviderAgree` | `CredentialsSpec => []VaultMatchesProvider` |

with `TaskTypeCorrect`, `MemoryTypeCorrect` and `CredentialsTypeCorrect` below them. Lemmas on
`StateFile` say what each system call can make of the files (`OpenedFile` to `AbandonedFile`).

* Tasks: `RowsAreRecent` compares a row with every call that ended before its own began;
  by `EventsAreNumbered` the write lock keeps the next sequence beyond all there are, and
  `FeedsMissNothing` has what a reader has seen as exactly the events up to its last one.
* Memory: a call that no other overlaps has the temporary file to itself (`AloneIsAlone`).
  `TombsAreKept`: whatever can become the file, the path, the temporary file and each document
  about to be written, has the tombstones. `HistoryInv`: each of these matches the chain on
  every id that no disturbed call has been on; the temporary file only while a writer has it
  open, since what a failed call left there is truncated first. The record of an undisturbed
  call then makes its own item match (`RecordMatches`).
* Credentials: `WordIsKept` says which runs are entitled to send. Until something has troubled
  the vault, writers take turns (`WritersTakeTurns`), and every token is traced (`TokensAreTraced`):
  the record a call builds on is the stored one, a new token is on its way into the vault, a
  revocation deletes what it revoked.

The assumptions on constants are those of the modules: bounds are natural numbers, marks such as
`None`, `NoFile`, `Blank` and `Mixed` are not data (`FilesAssumption`, `CredentialsAssumption`).
TLC evaluates them in every run.

Together these state every invariant and every action property that a passing run checks, but
`SlotsAreClaimedOnce`, `LastRunAdvances`, `EventsAreSingleUse`, `BudgetsHold` and
`DelegationOnlyNarrows` under the hypotheses given. `OneEffectPerApproval` and
`ApprovalsAreRedeemedOnce` are theorems under `Verbatim` only; without it the code breaks the
first (`agent_respelled`), and the second in the same way.

Only model-checked: `RequestsAreAnswered`, liveness under fairness, for which this prover has no
rule (`ENABLED`); and what `CronSchedule` makes of given expressions (`ExpressionsRead`), a
calculation on the run's own constants.

## 6. Not modelled, and the plan

What proofs could add is refinement: the scheduler as an abstract lease, a specification of its
own as `OneTimeApproval` is for the boundary, in which a fire is claimed and given up; and the
ledger of `Delegation` as a `OneTimeApproval` that outlives restarts.

Not modelled yet: `KeyringMasterKey`, whose first creation in two processes at once loses one of
two keys; `SecretBroker`, a tool that audits its access after the effect; `EphemeralBroker`;
the signature and the upload of checkpoints.

Left out for good: what one subprocess, socket or path walk does inside the operating system
(`isolated_worker`, `container_worker`, `browser_worker`, `windows_fs`, `tools`), encryption
and HMAC as computations, HTML, argument parsing, and the Google adapters' request mapping.
