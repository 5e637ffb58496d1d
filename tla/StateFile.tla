------------------------------ MODULE StateFile -------------------------------
(***************************************************************************)
(* A JSON file that every change replaces as a whole, as SecretVault and   *)
(* MemoryStore keep theirs: open "<path>.tmp" truncating it, write, fsync, *)
(* os.replace, without a lock.                                             *)
(*                                                                         *)
(* The temporary name is one for all writers.  So a writer's descriptor    *)
(* may refer to a file that another writer truncates, or has meanwhile     *)
(* moved to the path, or has moved there and replaced since.               *)
(*                                                                         *)
(* The operators say what a system call makes of the files f; those that   *)
(* can end in several ways give the set of them.                           *)
(***************************************************************************)
CONSTANTS
  NoFile,     \* there is no such file
  Blank,      \* an empty file, which does not parse
  Mixed,      \* a part of a document, or parts of two: does not parse either
  None        \* nobody, nothing

(* The files at the path and at the temporary name, and where the          *)
(* descriptor of each process points to.                                   *)
StateFiles(Processes, Documents) ==
  [path : Documents \cup {NoFile, Blank, Mixed}, tmp : Documents \cup {NoFile, Blank, Mixed},
   at : [Processes -> {"closed", "tmp", "path", "replaced"}]]

FileWith(Processes, content) ==
  [path |-> content, tmp |-> NoFile, at |-> [p \in Processes |-> "closed"]]

Readable(f) == f.path \notin {Blank, Mixed}

(* Faulty variant: what a dead writer left in the temporary file stays.    *)
OpenedKeeping(f, p) == [f EXCEPT !.tmp = IF @ = NoFile THEN Blank ELSE @, !.at[p] = "tmp"]

Opened(f, p) == [f EXCEPT !.tmp = Blank, !.at[p] = "tmp"]

(* A document written over another at offset 0 leaves the rest of it, if   *)
(* it is the shorter one.                                                  *)
WrittenOver(old, document) == IF old \in {Blank, document} THEN {document} ELSE {document, Mixed}

(* Written, synced and closed.                                             *)
Written(f, p, document) ==
  CASE f.at[p] = "tmp"      -> {[f EXCEPT !.tmp = new, !.at[p] = "closed"] : new \in WrittenOver(f.tmp, document)}
    [] f.at[p] = "path"     -> {[f EXCEPT !.path = new, !.at[p] = "closed"] : new \in WrittenOver(f.path, document)}
    [] f.at[p] = "replaced" -> {[f EXCEPT !.at[p] = "closed"]}

(* os.replace moves whatever has the temporary name; without one it raises.*)
CanReplace(f) == f.tmp # NoFile

Replaced(f) ==
  [path |-> f.tmp, tmp |-> NoFile,
   at |-> [q \in DOMAIN f.at |-> CASE f.at[q] = "tmp"  -> "path"
                                   [] f.at[q] = "path" -> "replaced"
                                   [] OTHER            -> f.at[q]]]

(* The writer raises or dies; it may have written a part.                  *)
Abandoned(f, p) ==
  LET closed == [f EXCEPT !.at[p] = "closed"]
  IN {closed} \cup (IF f.at[p] = "tmp" THEN {[closed EXCEPT !.tmp = Mixed]} ELSE {})
              \cup (IF f.at[p] = "path" THEN {[closed EXCEPT !.path = Mixed]} ELSE {})
=============================================================================
