------------------------------- MODULE KeyFile --------------------------------
(***************************************************************************)
(* FileAuditKeys: the keys of the audit chain in one JSON document, which  *)
(* every change replaces as a whole under a lock file.                     *)
(*                                                                         *)
(* A missing file reads as a document without keys.  Temporary files have  *)
(* names of their own, so replacing the document is one step.  Under the   *)
(* lock nobody else creates it: the exclusive link of the first key never  *)
(* finds a file, and is a replacement like the others.                     *)
(***************************************************************************)
EXTENDS FiniteSets

CONSTANTS
  Processes,  \* processes with a key store object
  FreshKeys,  \* the keys secrets.token_bytes may draw: bounds the keys made
  None        \* no key; nobody

ASSUME KeyFileAssumption == None \notin FreshKeys \cup Processes

VARIABLES
  keyfile,  \* the document
  locker,   \* who holds the lock file
  request,  \* the call of current or rotate each process is in
  drawn,    \* the keys drawn so far
  retired   \* the keys that a finished rotation has replaced (history)

keyVars == <<keyfile, locker, request, drawn, retired>>

Docs == [current : FreshKeys \cup {None}, keys : SUBSET FreshKeys]
NoKeys == [current |-> None, keys |-> {}]

(* doc: the document as the call has read and changed it.                  *)
Requests == [op : {"none", "current", "rotate"}, pc : {"idle", "load", "save", "return"}, doc : Docs]
NoRequest == [op |-> "none", pc |-> "idle", doc |-> NoKeys]

KeyInit ==
  /\ keyfile = NoKeys
  /\ locker = None
  /\ request = [p \in Processes |-> NoRequest]
  /\ drawn = {}
  /\ retired = {}

-----------------------------------------------------------------------------
(* The call waits for the lock file.                                       *)
Ask(p, op) ==
  /\ request[p].pc = "idle"
  /\ request' = [request EXCEPT ![p] = [NoRequest EXCEPT !.op = op, !.pc = "load"]]
  /\ UNCHANGED <<keyfile, locker, drawn, retired>>

(* The document that was read becomes one with a new current key.          *)
Draw(p) ==
  \E k \in FreshKeys \ drawn :
    /\ drawn' = drawn \cup {k}
    /\ request' = [request EXCEPT ![p] =
         [op |-> request[p].op, pc |-> "save",
          doc |-> [current |-> k, keys |-> keyfile.keys \cup {k}]]]

Answer(p) ==
  /\ request' = [request EXCEPT ![p] = [op |-> request[p].op, pc |-> "return", doc |-> keyfile]]
  /\ UNCHANGED drawn

NeedsKey(p) == request[p].op = "rotate" \/ keyfile.current = None

(* Faulty variant: the read-modify-write is not serialized.                *)
LoadUnlocked(p) ==
  /\ request[p].pc = "load"
  /\ IF NeedsKey(p) THEN Draw(p) ELSE Answer(p)
  /\ UNCHANGED <<keyfile, locker, retired>>

(* The lock is taken and the document read.                                *)
Load(p) ==
  /\ request[p].pc = "load" /\ locker = None
  /\ locker' = p
  /\ IF NeedsKey(p) THEN Draw(p) ELSE Answer(p)
  /\ UNCHANGED <<keyfile, retired>>

Save(p) ==
  /\ request[p].pc = "save"
  /\ keyfile' = request[p].doc
  /\ request' = [request EXCEPT ![p].pc = "return"]
  /\ UNCHANGED <<locker, drawn, retired>>

Unlocked(p) == IF locker = p THEN None ELSE locker

(* current or rotate returns doc.current; the lock is released.            *)
Return(p) ==
  /\ request[p].pc = "return"
  /\ locker' = Unlocked(p)
  /\ request' = [request EXCEPT ![p] = NoRequest]
  /\ retired' = IF request[p].op = "rotate"
                THEN retired \cup (request[p].doc.keys \ {request[p].doc.current})
                ELSE retired
  /\ UNCHANGED <<keyfile, drawn>>

(* The call raises, or the process dies: the system releases its lock.     *)
Abandon(p) ==
  /\ request[p].pc # "idle"
  /\ locker' = Unlocked(p)
  /\ request' = [request EXCEPT ![p] = NoRequest]
  /\ UNCHANGED <<keyfile, drawn, retired>>

(* resolve reads the document without the lock.                            *)
Resolves(k) == k \in keyfile.keys

-----------------------------------------------------------------------------
KeyTypeOK ==
  /\ keyfile \in Docs
  /\ locker \in Processes \cup {None}
  /\ request \in [Processes -> Requests]
  /\ drawn \subseteq FreshKeys
  /\ retired \subseteq FreshKeys
=============================================================================
