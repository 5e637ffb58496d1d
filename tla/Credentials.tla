----------------------------- MODULE Credentials ------------------------------
(***************************************************************************)
(* A Google connector, the scope grant it needs, GoogleOAuthManager, which *)
(* keeps its tokens in the SecretVault, and the provider, in a host with   *)
(* several threads.                                                        *)
(*                                                                         *)
(* The answers of the provider's token endpoint are numbered.  The vault   *)
(* holds the tokens of one answer, or None; each answer names the refresh  *)
(* token to use from then on, by the answer it first came with.  Other     *)
(* secrets share the file and are left out, but not the writes for them.   *)
(*                                                                         *)
(* access_token holds a lock; exchange_code and revoke_and_delete do not.  *)
(***************************************************************************)
EXTENDS StateFile, Integers, Sequences

CONSTANTS
  Threads,     \* threads of the host
  MaxAnswers,  \* bound on the provider's answers
  MaxActs      \* bound on the calls made

ASSUME CredentialsAssumption ==
  /\ MaxAnswers \in Nat /\ MaxActs \in Nat
  /\ None \notin Threads \cup Int
  /\ {NoFile, Blank, Mixed} \cap (Int \cup {None}) = {}
  /\ NoFile \notin {Blank, Mixed}

VARIABLES
  vault,       \* the vault file
  refresh,     \* the refresh token of each answer
  live,        \* the refresh tokens that the provider accepts
  lock,        \* who holds _refresh_lock
  grant,       \* ScopeGrants holds an unexpired grant for the connector
  connector,   \* "live"; "revoked": _revoked is set; "dropped": and the token getter is gone
  act,         \* what each thread is doing
  acts,        \* number of calls made
  meant,       \* the host's last word on the connector was a grant (history)
  superseded,  \* refresh tokens that a new consent has replaced (history)
  revoked,     \* refresh tokens that the host has revoked (history)
  troubled     \* writes of the vault have overlapped, a consent has crossed
               \* another call, or an answer of the provider was lost (history)

fileVars == <<vault, superseded>>
providerVars == <<refresh, live, revoked>>
hostVars == <<grant, connector, meant>>
credentialVars == <<fileVars, providerVars, hostVars, lock, act, acts, troubled>>

Answers == 1 .. MaxAnswers
Contents == Answers \cup {None}

(* basis: the refresh token the call has loaded; answer: the answer it has *)
(* received, or None; document: what it will write; entitled: the host's   *)
(* word allowed the call at some moment since it began.                    *)
Acts == [op : {"run", "exchange", "revoke", "put", "disconnect"},
         pc : {"idle", "check", "invoke", "fetch", "lock", "tokens", "refresh", "request", "again",
               "send", "load", "revoke", "reload", "open", "write", "replace", "set", "drop"},
         basis : Answers \cup {None}, answer : Contents, document : Contents, entitled : BOOLEAN]
NoAct == [op |-> "run", pc |-> "idle", basis |-> None, answer |-> None, document |-> None,
          entitled |-> FALSE]

CredentialsInit ==
  /\ vault = FileWith(Threads, NoFile)
  /\ refresh = <<>>
  /\ live = {}
  /\ lock = None
  /\ grant = FALSE
  /\ connector = "live"
  /\ act = [t \in Threads |-> NoAct]
  /\ acts = 0
  /\ meant = FALSE
  /\ superseded = {}
  /\ revoked = {}
  /\ troubled = FALSE

Stored == IF vault.path \in Answers THEN vault.path ELSE None
StoredRefresh == IF Stored = None THEN None ELSE refresh[Stored]

Goto(t, pc) == act' = [act EXCEPT ![t].pc = pc]

(* The call ends, and with it its hold on the lock.                        *)
Finish(t) ==
  /\ act' = [act EXCEPT ![t] = NoAct]
  /\ lock' = IF lock = t THEN None ELSE lock

-----------------------------------------------------------------------------
(* Calls begin.                                                            *)

Call(t, op, pc) ==
  /\ act[t].pc = "idle" /\ acts < MaxActs
  /\ acts' = acts + 1
  /\ act' = [act EXCEPT ![t] = [NoAct EXCEPT !.op = op, !.pc = pc, !.entitled = meant]]
  /\ UNCHANGED <<fileVars, providerVars, hostVars, lock, troubled>>

Begin(t) ==
  \/ Call(t, "run", "check")          \* ConnectorTool.run
  \/ Call(t, "exchange", "request")   \* exchange_code
  \/ Call(t, "revoke", "load")        \* revoke_and_delete
  \/ Call(t, "put", "reload")         \* SecretVault.put or delete of another secret
  \/ Call(t, "disconnect", "revoke")  \* ScopeGrants.revoke_and_delete

-----------------------------------------------------------------------------
(* ScopeGrants.  The host does not grant while it disconnects.             *)

GrantScope ==
  /\ \A t \in Threads : act[t].op # "disconnect"
  /\ ~ grant
  /\ grant' = TRUE /\ meant' = TRUE
  /\ act' = [t \in Threads |-> [act[t] EXCEPT !.entitled = act[t].pc # "idle"]]
  /\ UNCHANGED <<fileVars, providerVars, connector, lock, acts, troubled>>

(* revoke, or the grant's time to live has passed.                         *)
EndGrant ==
  /\ grant
  /\ grant' = FALSE /\ meant' = FALSE
  /\ UNCHANGED <<fileVars, providerVars, connector, lock, act, acts, troubled>>

(* Faulty variant: the cached data is deleted first.                       *)
DisconnectDeletingFirst(t) ==
  /\ act[t].op = "disconnect"
  /\ \/ act[t].pc = "revoke" /\ Goto(t, "set") /\ UNCHANGED <<grant, connector, meant, lock>>
     \/ act[t].pc = "set" /\ connector' = "revoked" /\ Goto(t, "drop") /\ UNCHANGED <<grant, meant, lock>>
     \/ act[t].pc = "drop" /\ connector' = "dropped" /\ grant' = FALSE /\ meant' = FALSE /\ Finish(t)
     \/ act[t].pc = "set" /\ meant' = FALSE /\ Finish(t) /\ UNCHANGED <<grant, connector>>
  /\ UNCHANGED <<fileVars, providerVars, acts, troubled>>

(* revoke_and_delete: revoke, then delete_cached_data, which sets _revoked *)
(* and then drops the token getter; it may raise before it does anything.  *)
Disconnect(t) ==
  /\ act[t].op = "disconnect"
  /\ \/ act[t].pc = "revoke" /\ grant' = FALSE /\ Goto(t, "set") /\ UNCHANGED <<connector, meant, lock>>
     \/ act[t].pc = "set" /\ connector' = "revoked" /\ Goto(t, "drop") /\ UNCHANGED <<grant, meant, lock>>
     \/ act[t].pc = "drop" /\ connector' = "dropped" /\ meant' = FALSE /\ Finish(t) /\ UNCHANGED grant
     \/ act[t].pc = "set" /\ meant' = FALSE /\ Finish(t) /\ UNCHANGED <<grant, connector>>
  /\ UNCHANGED <<fileVars, providerVars, acts, troubled>>

-----------------------------------------------------------------------------
(* ConnectorTool.run and the connector's invoke.                           *)

Step(t, pc, condition, next) ==
  /\ act[t].pc = pc
  /\ IF condition THEN Goto(t, next) /\ UNCHANGED lock ELSE Finish(t)
  /\ UNCHANGED <<fileVars, providerVars, hostVars, acts, troubled>>

CheckScope(t) == Step(t, "check", grant, "invoke")
Invoke(t) == Step(t, "invoke", connector = "live", "fetch")
Fetch(t) == Step(t, "fetch", connector # "dropped", "lock")

(* The request to the provider's API, and its answer.                      *)
Send(t) == Step(t, "send", FALSE, "idle")

-----------------------------------------------------------------------------
(* GoogleOAuthManager.                                                     *)

(* Faulty variant: refreshes are not serialized.                           *)
TakeNoLock(t) ==
  /\ act[t].pc = "lock"
  /\ Goto(t, "tokens")
  /\ UNCHANGED <<fileVars, providerVars, hostVars, lock, acts, troubled>>

TakeLock(t) ==
  /\ act[t].pc = "lock" /\ lock = None
  /\ lock' = t
  /\ Goto(t, "tokens")
  /\ UNCHANGED <<fileVars, providerVars, hostVars, acts, troubled>>

(* access_token loads the tokens: they have more than a minute left, or    *)
(* not.  Without tokens it raises.                                         *)
LoadTokens(t) ==
  /\ act[t].pc = "tokens"
  /\ \/ /\ Stored # None
        /\ act' = [act EXCEPT ![t].pc = "send"]
        /\ lock' = None
     \/ /\ Stored # None
        /\ act' = [act EXCEPT ![t].pc = "refresh", ![t].basis = StoredRefresh]
        /\ UNCHANGED lock
     \/ Stored = None /\ Finish(t)
  /\ UNCHANGED <<fileVars, providerVars, hostVars, acts, troubled>>

(* An answer arrives and will be stored, or it is lost: the connection     *)
(* breaks, the process dies, or _save_payload refuses what it holds.       *)
Answered(t, token) ==
  /\ Len(refresh) < MaxAnswers
  /\ refresh' = Append(refresh, token)
  /\ \/ /\ act' = [act EXCEPT ![t].pc = "reload", ![t].answer = Len(refresh')]
        /\ UNCHANGED <<lock, troubled>>
     \/ /\ Finish(t)
        /\ troubled' = TRUE
  /\ UNCHANGED <<fileVars, hostVars, acts>>

(* The provider keeps the refresh token or replaces it; one that it does   *)
(* not accept is an error.                                                 *)
RefreshTokens(t) ==
  /\ act[t].pc = "refresh" /\ act[t].basis \in live
  /\ LET new == Len(refresh) + 1
     IN \/ Answered(t, act[t].basis) /\ UNCHANGED live
        \/ Answered(t, new) /\ live' = (live \ {act[t].basis}) \cup {new}
  /\ UNCHANGED revoked

(* exchange_code.                                                          *)
ExchangeCode(t) ==
  /\ act[t].pc = "request"
  /\ Answered(t, Len(refresh) + 1)
  /\ live' = live \cup {Len(refresh) + 1}
  /\ UNCHANGED revoked

(* access_token loads what it has stored; it may be gone.                  *)
LoadAgain(t) ==
  /\ act[t].pc = "again"
  /\ IF Stored # None THEN act' = [act EXCEPT ![t].pc = "send"] /\ lock' = None ELSE Finish(t)
  /\ UNCHANGED <<fileVars, providerVars, hostVars, acts, troubled>>

(* revoke_and_delete loads the tokens,                                     *)
LoadRevoke(t) ==
  /\ act[t].pc = "load"
  /\ IF Stored = None THEN Finish(t)
     ELSE act' = [act EXCEPT ![t].pc = "revoke", ![t].basis = StoredRefresh] /\ UNCHANGED lock
  /\ UNCHANGED <<fileVars, providerVars, hostVars, acts, troubled>>

(* and revokes the refresh token before it deletes the record; the answer  *)
(* may be lost.  (Faulty variant: it deletes the record in any case.)      *)
RevokeTokenOrNot(t) ==
  /\ act[t].op = "revoke" /\ act[t].pc = "revoke"
  /\ \/ live' = live \ {act[t].basis} /\ revoked' = revoked \cup {act[t].basis}
     \/ UNCHANGED <<live, revoked>>
  /\ Goto(t, "reload")
  /\ UNCHANGED <<fileVars, refresh, hostVars, lock, acts, troubled>>

RevokeToken(t) ==
  /\ act[t].op = "revoke" /\ act[t].pc = "revoke" /\ act[t].basis \in live
  /\ live' = live \ {act[t].basis}
  /\ revoked' = revoked \cup {act[t].basis}
  /\ (Goto(t, "reload") /\ UNCHANGED lock) \/ Finish(t)
  /\ UNCHANGED <<fileVars, refresh, hostVars, acts, troubled>>

-----------------------------------------------------------------------------
(* SecretVault.put and delete.                                             *)

Writing(t) == act[t].pc \in {"open", "write", "replace"}

(* The file is read and one record of it changed.                          *)
Reload(t) ==
  /\ act[t].pc = "reload"
  /\ IF Readable(vault)
     THEN /\ act' = [act EXCEPT ![t].pc = "open", ![t].document =
               CASE act[t].op = "put"    -> Stored
                 [] act[t].op = "revoke" -> None
                 [] OTHER                -> act[t].answer]
          /\ superseded' = IF act[t].op = "exchange" /\ Stored # None
                           THEN superseded \cup {StoredRefresh} ELSE superseded
          /\ troubled' = (troubled \/ \E u \in Threads : Writing(u))
          /\ UNCHANGED lock
     ELSE Finish(t) /\ UNCHANGED superseded /\ troubled' = TRUE
  /\ UNCHANGED <<vault, providerVars, hostVars, acts>>

OpenVault(t) ==
  /\ act[t].pc = "open"
  /\ vault' = Opened(vault, t)
  /\ Goto(t, "write")
  /\ UNCHANGED <<superseded, providerVars, hostVars, lock, acts, troubled>>

WriteVault(t) ==
  /\ act[t].pc = "write"
  /\ vault' \in Written(vault, t, act[t].document)
  /\ Goto(t, "replace")
  /\ UNCHANGED <<superseded, providerVars, hostVars, lock, acts, troubled>>

(* A new consent that crosses a refresh or a revocation will be            *)
(* overwritten or deleted by it.                                           *)
Crossed(t) == act[t].op = "exchange" /\ \E u \in Threads : act[u].basis # None

ReplaceVault(t) ==
  /\ act[t].pc = "replace"
  /\ IF CanReplace(vault)
     THEN /\ vault' = Replaced(vault)
          /\ IF act[t].op = "run" THEN Goto(t, "again") /\ UNCHANGED lock ELSE Finish(t)
     ELSE UNCHANGED vault /\ Finish(t)
  /\ troubled' = (troubled \/ Crossed(t))
  /\ UNCHANGED <<superseded, providerVars, hostVars, acts>>

-----------------------------------------------------------------------------
(* Between the provider's answer and the replaced file.                    *)
Unstored(t) == act[t].answer # None /\ act[t].pc \in {"reload", "open", "write", "replace"}

(* A step raises (a request that does not reach the provider is one), or   *)
(* the host dies.                                                          *)
CallFails(t) ==
  /\ act[t].pc # "idle" /\ act[t].op # "disconnect"
  /\ Finish(t)
  /\ vault' \in Abandoned(vault, t)
  /\ troubled' = (troubled \/ Unstored(t))
  /\ UNCHANGED <<superseded, providerVars, hostVars, acts>>

(* The host dies, its calls with it (CallFails), and starts again: grants and   *)
(* connectors are in memory, the vault is not.                             *)
Restart ==
  /\ \A t \in Threads : act[t].pc = "idle"
  /\ grant \/ connector # "live"
  /\ grant' = FALSE /\ connector' = "live" /\ meant' = FALSE
  /\ UNCHANGED <<fileVars, providerVars, lock, act, acts, troubled>>

CredentialsNext ==
  \/ \E t \in Threads :
       \/ Begin(t) \/ Disconnect(t)
       \/ CheckScope(t) \/ Invoke(t) \/ Fetch(t) \/ Send(t)
       \/ TakeLock(t) \/ LoadTokens(t) \/ RefreshTokens(t) \/ LoadAgain(t)
       \/ ExchangeCode(t) \/ LoadRevoke(t) \/ RevokeToken(t)
       \/ Reload(t) \/ OpenVault(t) \/ WriteVault(t) \/ ReplaceVault(t)
       \/ CallFails(t)
  \/ GrantScope \/ EndGrant \/ Restart

CredentialsSpec == CredentialsInit /\ [][CredentialsNext]_credentialVars

-----------------------------------------------------------------------------
(* The state is well typed, and tokens are refreshed under the lock.       *)
CredentialsTypeOK ==
  /\ vault \in StateFiles(Threads, Contents)
  /\ refresh \in Seq(Answers)
  /\ live \subseteq DOMAIN refresh
  /\ lock \in Threads \cup {None}
  /\ grant \in BOOLEAN /\ meant \in BOOLEAN /\ troubled \in BOOLEAN
  /\ connector \in {"live", "revoked", "dropped"}
  /\ act \in [Threads -> Acts]
  /\ \A t \in Threads : act[t].pc \in {"tokens", "refresh", "again"} => lock = t
  /\ acts \in 0 .. MaxActs
  /\ superseded \cup revoked \subseteq DOMAIN refresh

(* The vault and the provider agree.  A refresh token that works is in the *)
(* vault, so that it can be used and revoked: it is not dropped before it  *)
(* is revoked (revoke_and_delete).  And what the vault holds works, or was *)
(* revoked by the host: it is never replaced by a token that the provider  *)
(* has replaced (access_token), and a refresh that crosses a revocation    *)
(* brings nothing back that works.  Excepted are tokens that a new consent *)
(* replaces, calls between answer and file, and what follows once an       *)
(* answer was lost, a consent crossed another call or writes overlapped.  *)
VaultMatchesProvider ==
  troubled \/ (\E t \in Threads : Unstored(t))
    \/ /\ Readable(vault)
       /\ live \ superseded \subseteq {StoredRefresh}
       /\ Stored # None => StoredRefresh \in live \cup revoked

(* After revocation the connector is silent: a request goes to the         *)
(* provider only in a run that began before the host's last revocation had *)
(* ended, even if deleting the connector's data has failed, or that a      *)
(* later grant allows.                                                     *)
SilentAfterRevocation ==
  \A t \in Threads : act[t].op = "run" /\ act[t].pc \in {"lock", "tokens", "refresh", "again", "send"}
    => act[t].entitled
=============================================================================
