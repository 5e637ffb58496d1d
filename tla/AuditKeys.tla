----------------------------- MODULE AuditKeys ------------------------------
(***************************************************************************)
(* KeyringAuditKeys: the keys of the audit chain in the operating system's *)
(* credential store, which has no compare-and-swap and no locks.           *)
(*                                                                         *)
(* Several processes append to audit files (current), rotate the key and   *)
(* verify old records (resolve).  Each call on the credential store is one *)
(* action; any of them may raise, and a process may die between any two.   *)
(* A store of the format before may be there: one document with its keys,  *)
(* which the first current migrates.                                       *)
(*                                                                         *)
(* A key stands for its key id: fingerprints of different keys differ.     *)
(***************************************************************************)
EXTENDS FiniteSets

CONSTANTS
  Processes,      \* processes with a key store object
  FreshKeys,      \* the keys secrets.token_bytes may draw: bounds the keys made
  LegacyKeys,     \* the keys in a legacy document
  None,           \* Python's None
  Gone            \* no legacy document

ASSUME KeyAssumption ==
  /\ FreshKeys \cap LegacyKeys = {}
  /\ None \notin FreshKeys \cup LegacyKeys
  /\ Gone \notin FreshKeys \cup LegacyKeys \cup {None}

VARIABLES
  doc,      \* the legacy document: its current key or None, or Gone
  split,    \* the keys with a credential of their own
  pointer,  \* the pointer credential
  drawn,    \* the fresh keys drawn so far
  work,     \* the call each process is in
  handed,   \* the keys that current and rotate have returned (history)
  missed    \* the keys a lookup did not find (history)

vars == <<doc, split, pointer, drawn, work, handed, missed>>

Keys == FreshKeys \cup LegacyKeys

(* todo: keys to write; fresh: the key the pointer is moved to; key: the   *)
(* key that is looked up; was: the current key when rotate was called.     *)
Works == [op : {"none", "current", "migrate", "rotate", "resolve"},
          pc : {"idle", "legacy", "write", "delete", "converge", "split", "doc", "again"},
          todo : SUBSET Keys, fresh : Keys \cup {None}, key : Keys \cup {None}, was : Keys \cup {None}]
NoWork == [op |-> "none", pc |-> "idle", todo |-> {}, fresh |-> None, key |-> None, was |-> None]

Init ==
  /\ doc \in LegacyKeys \cup {None, Gone}
  /\ split = {}
  /\ pointer = None
  /\ drawn = {}
  /\ work = [p \in Processes |-> NoWork]
  /\ handed = IF doc = Gone THEN {} ELSE LegacyKeys
  /\ missed = {}

-----------------------------------------------------------------------------
(* The calls.                                                              *)

(* secrets.token_bytes, and the key to write before the pointer is moved.  *)
Draw(p, op, was) ==
  \E k \in FreshKeys \ drawn :
    /\ drawn' = drawn \cup {k}
    /\ work' = [work EXCEPT ![p] =
         [op |-> op, pc |-> "write", todo |-> {k}, fresh |-> k, key |-> None, was |-> was]]

LookUp(p, op, k) ==
  /\ work' = [work EXCEPT ![p] = [NoWork EXCEPT !.op = op, !.pc = "split", !.key = k]]
  /\ UNCHANGED drawn

(* Faulty variant: current takes the pointer to be there.                  *)
CurrentUnchecked(p) ==
  /\ work[p].pc = "idle"
  /\ LookUp(p, "current", pointer)
  /\ UNCHANGED <<doc, split, pointer, handed, missed>>

(* current, up to its first answer from the store.                         *)
Current(p) ==
  /\ work[p].pc = "idle"
  /\ \/ /\ pointer = None
        /\ work' = [work EXCEPT ![p] = [NoWork EXCEPT !.op = "current", !.pc = "legacy"]]
        /\ UNCHANGED drawn
     \/ /\ pointer # None
        /\ LookUp(p, "current", pointer)
  /\ UNCHANGED <<doc, split, pointer, handed, missed>>

(* The key that current would return now, if nobody else does anything.    *)
CurrentKey == IF pointer = None /\ doc # Gone THEN doc ELSE pointer

Rotate(p) ==
  /\ work[p].pc = "idle"
  /\ Draw(p, "rotate", CurrentKey)
  /\ UNCHANGED <<doc, split, pointer, handed, missed>>

(* Records carry the ids of keys that were handed out.                     *)
Resolve(p) ==
  /\ work[p].pc = "idle"
  /\ \E k \in handed : LookUp(p, "resolve", k)
  /\ UNCHANGED <<doc, split, pointer, handed, missed>>

-----------------------------------------------------------------------------
(* Making or migrating keys.                                               *)

Migrate(p, keys) ==
  /\ work' = [work EXCEPT ![p].op = "migrate", ![p].pc = "write", ![p].todo = keys, ![p].fresh = doc]
  /\ UNCHANGED drawn

(* Faulty variant: only the current key is migrated.                       *)
ReadLegacyCurrent(p) ==
  /\ work[p].pc = "legacy"
  /\ IF doc = Gone THEN Draw(p, "current", None) ELSE Migrate(p, LegacyKeys \cap {doc})
  /\ UNCHANGED <<doc, split, pointer, handed, missed>>

(* current without a pointer: a document to migrate, or a first key.       *)
ReadLegacy(p) ==
  /\ work[p].pc = "legacy"
  /\ IF doc = Gone THEN Draw(p, "current", None) ELSE Migrate(p, LegacyKeys)
  /\ UNCHANGED <<doc, split, pointer, handed, missed>>

(* _write_key.  Its read-back either succeeds or is one more call that     *)
(* raises: Fail.                                                           *)
WriteKey(p) ==
  /\ work[p].pc = "write"
  /\ \E k \in work[p].todo :
       /\ split' = split \cup {k}
       /\ work' = [work EXCEPT ![p].todo = @ \ {k}]
  /\ UNCHANGED <<doc, pointer, drawn, handed, missed>>

AfterPointer(p) == IF work[p].op = "migrate" THEN "delete" ELSE "converge"

(* Faulty variant: the pointer is only created, never moved.               *)
WritePointerOnce(p) ==
  /\ work[p].pc = "write" /\ work[p].todo = {}
  /\ pointer' = IF pointer = None THEN work[p].fresh ELSE pointer
  /\ work' = [work EXCEPT ![p].pc = AfterPointer(p)]
  /\ UNCHANGED <<doc, split, drawn, handed, missed>>

(* _write_pointer; a document without a current key moves no pointer.      *)
WritePointer(p) ==
  /\ work[p].pc = "write" /\ work[p].todo = {}
  /\ pointer' = IF work[p].fresh = None THEN pointer ELSE work[p].fresh
  /\ work' = [work EXCEPT ![p].pc = AfterPointer(p)]
  /\ UNCHANGED <<doc, split, drawn, handed, missed>>

(* The document is deleted, if the store can.  Without a current key in it *)
(* current goes on to make the first one.                                  *)
DeleteLegacy(p) ==
  /\ work[p].pc = "delete"
  /\ doc' \in {doc, Gone}
  /\ IF work[p].fresh = None
     THEN Draw(p, "current", None)
     ELSE /\ work' = [work EXCEPT ![p].op = "current", ![p].pc = "converge"]
          /\ UNCHANGED drawn
  /\ UNCHANGED <<split, pointer, handed, missed>>

(* _converge: what the pointer says by now, looked up.                     *)
Converge(p) ==
  /\ work[p].pc = "converge"
  /\ pointer # None
  /\ work' = [work EXCEPT ![p].pc = "split", ![p].key = pointer]
  /\ UNCHANGED <<doc, split, pointer, drawn, handed, missed>>

-----------------------------------------------------------------------------
(* Looking a key up: its own credential, the legacy document, and its own  *)
(* credential again.                                                       *)

Found(p) ==
  /\ handed' = IF work[p].op = "resolve" THEN handed ELSE handed \cup {work[p].key}
  /\ work' = [work EXCEPT ![p] = NoWork]
  /\ UNCHANGED missed

Miss(p) ==
  /\ missed' = missed \cup {work[p].key}
  /\ work' = [work EXCEPT ![p] = NoWork]
  /\ UNCHANGED handed

GoOn(p, pc) ==
  /\ work' = [work EXCEPT ![p].pc = pc]
  /\ UNCHANGED <<handed, missed>>

ReadSplit(p) ==
  /\ work[p].pc = "split"
  /\ IF work[p].key \in split THEN Found(p) ELSE GoOn(p, "doc")
  /\ UNCHANGED <<doc, split, pointer, drawn>>

(* Faulty variant: the document has the last word.                         *)
ReadDocLast(p) ==
  /\ work[p].pc = "doc"
  /\ IF doc # Gone /\ work[p].key \in LegacyKeys THEN Found(p) ELSE Miss(p)
  /\ UNCHANGED <<doc, split, pointer, drawn>>

ReadDoc(p) ==
  /\ work[p].pc = "doc"
  /\ IF doc # Gone /\ work[p].key \in LegacyKeys THEN Found(p) ELSE GoOn(p, "again")
  /\ UNCHANGED <<doc, split, pointer, drawn>>

ReadSplitAgain(p) ==
  /\ work[p].pc = "again"
  /\ IF work[p].key \in split THEN Found(p) ELSE Miss(p)
  /\ UNCHANGED <<doc, split, pointer, drawn>>

(* A call on the store raises, or the process dies.                        *)
Fail(p) ==
  /\ work[p].pc # "idle"
  /\ work' = [work EXCEPT ![p] = NoWork]
  /\ UNCHANGED <<doc, split, pointer, drawn, handed, missed>>

Next ==
  \E p \in Processes :
    \/ Current(p) \/ Rotate(p) \/ Resolve(p)
    \/ ReadLegacy(p) \/ WriteKey(p) \/ WritePointer(p) \/ DeleteLegacy(p) \/ Converge(p)
    \/ ReadSplit(p) \/ ReadDoc(p) \/ ReadSplitAgain(p)
    \/ Fail(p)

Spec == Init /\ [][Next]_vars

-----------------------------------------------------------------------------
Looking(p) == work[p].pc \in {"split", "doc", "again"}

(* The state is well typed; a lookup has a key.                            *)
TypeOK ==
  /\ doc \in LegacyKeys \cup {None, Gone}
  /\ split \subseteq Keys
  /\ pointer \in Keys \cup {None}
  /\ drawn \subseteq FreshKeys
  /\ work \in [Processes -> Works]
  /\ \A p \in Processes : Looking(p) => work[p].key # None
  /\ handed \subseteq Keys
  /\ missed \subseteq Keys

Resolvable(k) == k \in split \/ (doc # Gone /\ k \in LegacyKeys)

(* A key that was handed out, and may have signed records, can always be   *)
(* found, whatever rotations, migrations, failures and deaths come between *)
(* ("a key already handed out stays resolvable").                          *)
HandedKeysResolve == \A k \in handed : Resolvable(k)

(* No lookup misses: neither of a record's key while that key is being     *)
(* migrated (keyed-audit.md: never reported as unknown), nor of the key    *)
(* the pointer names.                                                      *)
LookupsFind == missed = {}

(* A rotation retires the key that was current when it was called: the key *)
(* it goes on with is another one, whoever moves the pointer meanwhile.    *)
RotationRetires ==
  \A p \in Processes : work[p].op = "rotate" /\ Looking(p) => work[p].key # work[p].was

(* The same, except for the keys of a legacy document.                     *)
RotationReplaces ==
  \A p \in Processes :
    work[p].op = "rotate" /\ Looking(p) /\ work[p].was \notin LegacyKeys => work[p].key # work[p].was
=============================================================================
