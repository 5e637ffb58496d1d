--------------------------- MODULE AuditChain_proofs ---------------------------
(***************************************************************************)
(* Theorems about AuditChain, for any number of processes, keys and lines: *)
(* the file of an honest run verifies, verify_chain is right about every   *)
(* file, edited or not, a checkpoint never signs a count beyond its head,  *)
(* and an append never signs with a key retired before it was called.      *)
(***************************************************************************)
EXTENDS AuditChain, SequenceTheorems, TLAPS

-----------------------------------------------------------------------------
(* The inductive invariant, as a conjunction of named parts.               *)

(* The key file.  Whoever has read it holds its lock, and it changes under *)
(* the lock alone; a document to be saved has a key that was never used.   *)
LockHeld == \A p \in Processes : request[p].pc \in {"save", "return"} => locker = p

KeysAreKept ==
  /\ keyfile.keys \subseteq drawn /\ retired \subseteq keyfile.keys
  /\ keyfile.current \in keyfile.keys \cup {None} /\ keyfile.current \notin retired
  /\ \A p \in Processes :
       LET doc == request[p].doc
       IN /\ request[p].pc = "return" => doc = keyfile /\ doc.current # None
          /\ request[p].pc = "save" =>
               /\ doc.current \in FreshKeys \ keyfile.keys
               /\ doc.keys = keyfile.keys \cup {doc.current} /\ doc.keys \subseteq drawn

KeyInv == KeyTypeOK /\ LockHeld /\ KeysAreKept

Linked(i) == lines[i].prev = IF i = 1 THEN ZERO ELSE lines[i - 1].hash

(* The file when nobody has edited it.                                     *)
Honest == ~ edited =>
  /\ \A i \in 1 .. Len(lines) :
       /\ Linked(i) /\ lines[i].sound
       /\ lines[i].hash \in 1 .. appended \cup {LegacyHash}
       /\ lines[i].key = Unkeyed => i = 1
       /\ lines[i].key # Unkeyed => lines[i].key \in keyfile.keys
  /\ \A i, k \in 1 .. Len(lines) : lines[i].hash = lines[k].hash => i = k

(* Edited or not, the lines up to a keyed one that link and have their     *)
(* hashes are what appending once made of the file.                        *)
Intact(k) == \A i \in 1 .. k : Linked(i) /\ lines[i].sound
OnceWas(k) == \E v \in versions : Len(v) = k /\ \A i \in 1 .. k : v[i] = lines[i].hash
Sealed == \A k \in 1 .. Len(lines) : lines[k].key # Unkeyed /\ Intact(k) => OnceWas(k)

(* An append has a key of the file, not retired before it was called, and  *)
(* what it links to is the end of the file until it has written.           *)
Ready(j) ==
  /\ j.pc = "keys" => j.since \subseteq retired
  /\ j.pc \in {"open", "write"} => j.key \in keyfile.keys /\ j.key \notin j.since
  /\ j.pc = "write" => appended < MaxLines /\ (~ edited => j.prev = HeadHash)

(* What a verification has read is the beginning of the file, and intact.  *)
ReadTrue(j) == j.pc \in {"verify", "read", "verdict"} =>
  /\ Len(j.read) <= Len(lines)
  /\ \A i \in 1 .. Len(j.read) : j.read[i] = lines[i].hash
  /\ Intact(Len(j.read))
  /\ j.keyed <= Len(j.read)
  /\ j.keyed > 0 => lines[j.keyed].key # Unkeyed
  /\ j.pc # "verdict" => j.error = "none"
  /\ ~ edited => j.error \in
       {"none", "tail", "missing", "unavailable"} \cup (IF j.strict THEN {"unkeyed"} ELSE {})

(* CheckpointsCover, of one job.                                           *)
Covered(j) == j.pc = "anchored" /\ ~ edited =>
  \/ j.head = ZERO /\ j.read = <<>>
  \/ \E i \in 1 .. Len(lines) : lines[i].hash = j.head /\ i >= Len(j.read)

JobsAreTrue == \A p \in Processes : Ready(job[p]) /\ ReadTrue(job[p]) /\ Covered(job[p])

FileTyped == ChainTypeOK /\ Len(lines) <= appended + 1

IInv == KeyInv /\ FileTyped /\ Honest /\ Sealed /\ JobsAreTrue

-----------------------------------------------------------------------------
(* The key file.                                                           *)

(* A step of p on the key file, or none.                                   *)
KeyMove(p) ==
  \/ \E op \in {"current", "rotate"} : Ask(p, op)
  \/ Load(p) \/ Save(p) \/ Return(p) \/ Abandon(p)
  \/ UNCHANGED keyVars

LEMMA KeyInit0 == KeyInit => KeyInv
<1> SUFFICES ASSUME KeyInit PROVE KeyInv
  OBVIOUS
<1>1. NoKeys \in Docs /\ NoRequest \in Requests /\ NoRequest.pc = "idle"
  BY DEF NoKeys, Docs, NoRequest, Requests
<1> QED
  BY <1>1, KeyFileAssumption
  DEF KeyInit, KeyInv, KeyTypeOK, LockHeld, KeysAreKept, NoKeys

LEMMA KeyNext ==
  ASSUME KeyInv, NEW p \in Processes, KeyMove(p)
  PROVE  KeyInv' /\ keyfile.keys \subseteq keyfile'.keys /\ retired \subseteq retired'
<1> DEFINE Goal == KeyInv' /\ keyfile.keys \subseteq keyfile'.keys /\ retired \subseteq retired'
<1> USE DEF KeyInv
<1>0. /\ keyfile \in Docs /\ request \in [Processes -> Requests]
      /\ request[p] \in Requests /\ None \notin Processes
  BY KeyFileAssumption DEF KeyTypeOK
<1>1. ASSUME NEW op \in {"current", "rotate"}, Ask(p, op) PROVE Goal
  <2> DEFINE asked == [NoRequest EXCEPT !.op = op, !.pc = "load"]
  <2>1. asked \in Requests /\ asked.pc = "load"
    BY DEF NoRequest, NoKeys, Requests, Docs
  <2>2. request' = [request EXCEPT ![p] = asked] /\ UNCHANGED <<keyfile, locker, drawn, retired>>
    BY <1>1 DEF Ask
  <2> HIDE DEF asked
  <2>3. /\ KeyTypeOK' /\ request'[p].pc = "load"
        /\ \A q \in Processes \ {p} : request'[q] = request[q]
    BY <1>0, <2>1, <2>2 DEF KeyTypeOK
  <2> QED
    BY <2>2, <2>3 DEF LockHeld, KeysAreKept
<1>2. ASSUME Load(p) PROVE Goal
  <2>1. /\ locker = None /\ locker' = p /\ UNCHANGED <<keyfile, retired>>
        /\ \A q \in Processes : request[q].pc \notin {"save", "return"}
    BY <1>0, <1>2 DEF Load, LockHeld
  <2>2. CASE Draw(p)
    <3>1. PICK k \in FreshKeys \ drawn :
            /\ drawn' = drawn \cup {k}
            /\ request' = [request EXCEPT ![p] =
                 [op |-> request[p].op, pc |-> "save",
                  doc |-> [current |-> k, keys |-> keyfile.keys \cup {k}]]]
      BY <2>2 DEF Draw
    <3> DEFINE doc == [current |-> k, keys |-> keyfile.keys \cup {k}]
               saving == [op |-> request[p].op, pc |-> "save", doc |-> doc]
    <3>2. /\ saving \in Requests /\ saving.pc = "save" /\ saving.doc.current = k
          /\ saving.doc.keys = keyfile.keys \cup {k}
      BY <1>0 DEF Requests, Docs
    <3>3. request' = [request EXCEPT ![p] = saving]
      BY <3>1
    <3> HIDE DEF saving, doc
    <3>4. /\ request'[p] = saving
          /\ \A q \in Processes \ {p} : request'[q] = request[q]
      BY <1>0, <3>3
    <3>5. KeyTypeOK'
      BY <1>0, <2>1, <3>1, <3>2, <3>3 DEF KeyTypeOK
    <3>6. LockHeld'
      BY <2>1, <3>4 DEF LockHeld
    <3>7. KeysAreKept'
      BY <2>1, <3>1, <3>2, <3>4 DEF KeysAreKept
    <3> QED
      BY <2>1, <3>5, <3>6, <3>7
  <2>3. CASE Answer(p) /\ keyfile.current # None
    <3> DEFINE answered == [op |-> request[p].op, pc |-> "return", doc |-> keyfile]
    <3>1. request' = [request EXCEPT ![p] = answered] /\ UNCHANGED drawn
      BY <2>3 DEF Answer
    <3>2. answered \in Requests /\ answered.pc = "return" /\ answered.doc = keyfile
      BY <1>0 DEF Requests
    <3> HIDE DEF answered
    <3>3. /\ request'[p] = answered
          /\ \A q \in Processes \ {p} : request'[q] = request[q]
      BY <1>0, <3>1
    <3>4. KeyTypeOK'
      BY <1>0, <2>1, <3>1, <3>2 DEF KeyTypeOK
    <3>5. LockHeld' /\ KeysAreKept'
      BY <2>1, <2>3, <3>1, <3>2, <3>3 DEF LockHeld, KeysAreKept
    <3> QED
      BY <2>1, <3>4, <3>5
  <2> QED
    BY <1>2, <2>2, <2>3 DEF Load, NeedsKey
<1>3. ASSUME Save(p) PROVE Goal
  <2>1. /\ request[p].pc = "save" /\ keyfile' = request[p].doc /\ UNCHANGED <<locker, drawn, retired>>
        /\ request' = [request EXCEPT ![p].pc = "return"]
    BY <1>3 DEF Save
  <2>2. /\ request'[p] = [request[p] EXCEPT !.pc = "return"]
        /\ \A q \in Processes \ {p} : request'[q] = request[q] /\ request[q].pc \notin {"save", "return"}
    BY <1>0, <2>1 DEF LockHeld
  <2>3. request'[p] \in Requests /\ request'[p].pc = "return" /\ request'[p].doc = request[p].doc
    BY <1>0, <2>2 DEF Requests
  <2>4. /\ request[p].doc \in Docs /\ request[p].doc.current \in FreshKeys \ keyfile.keys
        /\ request[p].doc.keys = keyfile.keys \cup {request[p].doc.current}
        /\ request[p].doc.keys \subseteq drawn
    BY <1>0, <2>1 DEF KeysAreKept, Requests
  <2>5. KeyTypeOK'
    BY <2>1, <2>3, <2>4 DEF KeyTypeOK
  <2>6. LockHeld'
    BY <2>1, <2>2, <2>3 DEF LockHeld
  <2>7. KeysAreKept'
    BY <2>1, <2>2, <2>3, <2>4, KeyFileAssumption DEF KeysAreKept
  <2> QED
    BY <2>1, <2>4, <2>5, <2>6, <2>7
<1>4. ASSUME Return(p) \/ Abandon(p) PROVE Goal
  <2>1. /\ UNCHANGED <<keyfile, drawn>> /\ locker' = Unlocked(p)
        /\ request' = [request EXCEPT ![p] = NoRequest]
        /\ retired \subseteq retired'
    BY <1>4 DEF Return, Abandon
  <2>2. retired' \subseteq keyfile.keys /\ keyfile.current \notin retired'
    BY <1>4 DEF Return, Abandon, KeysAreKept
  <2>3. NoRequest \in Requests /\ NoRequest.pc = "idle"
    BY DEF NoRequest, NoKeys, Requests, Docs
  <2>4. /\ request'[p] = NoRequest
        /\ \A q \in Processes \ {p} : request'[q] = request[q]
    BY <1>0, <2>1
  <2>5. KeyTypeOK'
    BY <1>0, <2>1, <2>2, <2>3 DEF KeyTypeOK, Unlocked, Docs
  <2>6. LockHeld'
    BY <2>1, <2>3, <2>4 DEF LockHeld, Unlocked
  <2>7. KeysAreKept'
    BY <2>1, <2>2, <2>3, <2>4 DEF KeysAreKept
  <2> QED
    BY <2>1, <2>5, <2>6, <2>7
<1>5. ASSUME UNCHANGED keyVars PROVE Goal
  BY <1>5 DEF keyVars, KeyTypeOK, LockHeld, KeysAreKept
<1> QED
  BY <1>1, <1>2, <1>3, <1>4, <1>5 DEF KeyMove

(* Each step of a process moves the key file by its own call at most.      *)
LEMMA StepsMoveKeys ==
  ASSUME [Next]_vars, KeyInv
  PROVE  KeyInv' /\ keyfile.keys \subseteq keyfile'.keys /\ retired \subseteq retired'
<1>1. ASSUME NEW p \in Processes, KeyMove(p)
      PROVE  KeyInv' /\ keyfile.keys \subseteq keyfile'.keys /\ retired \subseteq retired'
  BY <1>1, KeyNext
<1>2. CASE \E p \in Processes : KeyMove(p)
  BY <1>1, <1>2
<1>3. CASE UNCHANGED keyVars
  BY <1>3 DEF keyVars, KeyInv, KeyTypeOK, LockHeld, KeysAreKept
<1> QED
  BY <1>2, <1>3
  DEF Next, vars, KeyMove, AppendCall, KeyAnswer, OpenLog, WriteLine, AppendReturn, RotateCall,
      RotateReturn, KeyStep, VerifyCall, VerifyLine, VerifyUnavailable, VerifyEnd, ReadHead, Answered, Fail, Edit

-----------------------------------------------------------------------------
(* The file.                                                               *)

LEMMA Limits ==
  /\ MaxLines \in Nat /\ ZERO = 0 /\ LegacyHash = MaxLines + 1
  /\ Hashes = 0 .. MaxLines + 2 /\ Unkeyed \notin FreshKeys
  BY ChainAssumption DEF ZERO, LegacyHash, EditedHash, Hashes

LEMMA HashesOfLines ==
  ASSUME NEW s \in Seq(Lines)
  PROVE  /\ HashesOf(s) \in Seq(Hashes) /\ Len(HashesOf(s)) = Len(s)
         /\ \A i \in 1 .. Len(s) : HashesOf(s)[i] = s[i].hash
<1>1. /\ Len(s) \in Nat /\ DOMAIN s = 1 .. Len(s)
      /\ \A i \in 1 .. Len(s) : s[i] \in Lines
  BY LenProperties, ElementOfSeq
<1>2. HashesOf(s) \in [1 .. Len(s) -> Hashes]
  BY <1>1 DEF HashesOf, Lines
<1>3. HashesOf(s) \in Seq(Hashes)
  BY <1>1, <1>2, SeqDef
<1>4. Len(HashesOf(s)) = Len(s)
  <2>1. /\ Len(HashesOf(s)) \in Nat
        /\ 1 .. Len(HashesOf(s)) = 1 .. Len(s)
    BY <1>2, <1>3, LenProperties
  <2> QED
    BY <1>1, <2>1
<1> QED
  BY <1>1, <1>3, <1>4 DEF HashesOf

LEMMA RemovedLine ==
  ASSUME NEW s \in Seq(Lines), NEW e \in 1 .. Len(s)
  PROVE  /\ RemoveAt(s, e) \in Seq(Lines) /\ Len(RemoveAt(s, e)) = Len(s) - 1
         /\ \A i \in 1 .. Len(s) - 1 : RemoveAt(s, e)[i] = IF i < e THEN s[i] ELSE s[i + 1]
<1> DEFINE before == SubSeq(s, 1, e - 1)
           after == SubSeq(s, e + 1, Len(s))
<1>1. Len(s) \in Nat /\ \A i \in 1 .. Len(s) : s[i] \in Lines
  BY LenProperties, ElementOfSeq
<1>2. /\ before \in Seq(Lines) /\ Len(before) = e - 1
      /\ \A i \in 1 .. e - 1 : before[i] = s[i]
  <2>1. 1 \in Int /\ e - 1 \in Int /\ \A i \in 1 .. e - 1 : s[i] \in Lines
    BY <1>1
  <2>2. /\ before \in Seq(Lines)
        /\ Len(before) = IF 1 <= e - 1 THEN (e - 1) - 1 + 1 ELSE 0
        /\ \A i \in 1 .. (e - 1) - 1 + 1 : before[i] = s[1 + i - 1]
    BY <2>1, SubSeqProperties
  <2> QED
    BY <1>1, <2>2
<1>3. /\ after \in Seq(Lines) /\ Len(after) = Len(s) - e
      /\ \A i \in 1 .. Len(s) - e : after[i] = s[e + i]
  <2>1. e + 1 \in Int /\ Len(s) \in Int /\ \A i \in e + 1 .. Len(s) : s[i] \in Lines
    BY <1>1
  <2>2. /\ after \in Seq(Lines)
        /\ Len(after) = IF e + 1 <= Len(s) THEN Len(s) - (e + 1) + 1 ELSE 0
        /\ \A i \in 1 .. Len(s) - (e + 1) + 1 : after[i] = s[(e + 1) + i - 1]
    BY <2>1, SubSeqProperties
  <2>3. \A i \in 1 .. Len(s) - e : i \in 1 .. Len(s) - (e + 1) + 1 /\ (e + 1) + i - 1 = e + i
    BY <1>1
  <2>4. \A i \in 1 .. Len(s) - e : after[i] = s[e + i]
    BY <2>2, <2>3
  <2>5. Len(after) = Len(s) - e
    BY <1>1, <2>2
  <2> QED
    BY <2>2, <2>4, <2>5
<1> HIDE DEF before, after
<1>4. RemoveAt(s, e) = before \o after
  BY DEF RemoveAt, before, after
<1>5. /\ before \o after \in Seq(Lines)
      /\ Len(before \o after) = Len(before) + Len(after)
      /\ \A i \in 1 .. Len(before) + Len(after) :
           (before \o after)[i] = IF i <= Len(before) THEN before[i] ELSE after[i - Len(before)]
  BY <1>2, <1>3, ConcatProperties
<1>6. Len(before) + Len(after) = Len(s) - 1
  BY <1>1, <1>2, <1>3
<1>7. ASSUME NEW i \in 1 .. Len(s) - 1
      PROVE  (before \o after)[i] = IF i < e THEN s[i] ELSE s[i + 1]
  <2>1. (before \o after)[i] = IF i <= Len(before) THEN before[i] ELSE after[i - Len(before)]
    BY <1>5, <1>6
  <2>2. CASE i < e
    BY <1>1, <1>2, <2>1, <2>2
  <2>3. CASE ~ (i < e)
    <3>1. i - (e - 1) \in 1 .. Len(s) - e /\ e + (i - (e - 1)) = i + 1 /\ ~ (i <= e - 1)
      BY <1>1, <2>3
    <3> QED
      BY <1>2, <1>3, <2>1, <2>3, <3>1
  <2> QED
    BY <2>2, <2>3
<1> QED
  BY <1>4, <1>5, <1>6, <1>7

(* What is said of the first lines of the file stays true while they stay. *)
LEMMA PrefixKept ==
  ASSUME NEW k \in Nat, \A i \in 1 .. k : lines'[i] = lines[i], versions \subseteq versions'
  PROVE  (Intact(k)' <=> Intact(k)) /\ (OnceWas(k) => OnceWas(k)')
<1>1. \A i \in 1 .. k : Linked(i)' <=> Linked(i)
  <2> SUFFICES ASSUME NEW i \in 1 .. k PROVE Linked(i)' <=> Linked(i)
    OBVIOUS
  <2>1. i # 1 => i - 1 \in 1 .. k
    OBVIOUS
  <2> QED
    BY <2>1 DEF Linked, ZERO
<1> QED
  BY <1>1 DEF Intact, OnceWas

(* A step that only appends to the file, if it changes it at all.          *)
Grown ==
  /\ Len(lines) <= Len(lines') /\ \A i \in 1 .. Len(lines) : lines'[i] = lines[i]
  /\ lines' \in Seq(Lines)
  /\ versions \subseteq versions' /\ edited' = edited

LEMMA JobsStayTrue ==
  ASSUME ChainTypeOK, Grown, NEW j \in Jobs
  PROVE  /\ ReadTrue(j) => ReadTrue(j)'
         /\ Covered(j) => Covered(j)'
<1>1. /\ Len(lines) \in Nat /\ Len(lines') \in Nat
      /\ \A i \in 1 .. Len(lines) : i \in 1 .. Len(lines')
  BY LenProperties DEF ChainTypeOK, Grown
<1>2. Len(j.read) \in Nat /\ j.keyed \in Nat
  BY LenProperties DEF Jobs
<1>3. ASSUME ReadTrue(j), j.pc \in {"verify", "read", "verdict"} PROVE ReadTrue(j)'
  <2>1. /\ Len(j.read) <= Len(lines)
        /\ \A i \in 1 .. Len(j.read) : i \in 1 .. Len(lines) /\ lines'[i] = lines[i]
    BY <1>1, <1>2, <1>3 DEF ReadTrue, Grown
  <2>2. Intact(Len(j.read))'
    <3>1. versions \subseteq versions'
      BY DEF Grown
    <3> QED
      BY <1>2, <1>3, <2>1, <3>1, PrefixKept DEF ReadTrue
  <2>3. j.keyed <= Len(j.read) /\ (j.keyed > 0 => lines'[j.keyed].key # Unkeyed)
    BY <1>2, <1>3, <2>1 DEF ReadTrue
  <2>4. Len(j.read) <= Len(lines')
    BY <1>1, <1>2, <2>1 DEF Grown
  <2> QED
    BY <1>3, <2>1, <2>2, <2>3, <2>4 DEF ReadTrue, Grown
<1>4. Covered(j) => Covered(j)'
  BY <1>1 DEF Covered, Grown
<1> QED
  BY <1>3, <1>4 DEF ReadTrue

(* The part of the invariant that is about the file.                       *)
FileInv ==
  /\ lines \in Seq(Lines) /\ Len(lines) <= appended + 1
  /\ appended \in 0 .. MaxLines /\ edited \in BOOLEAN /\ versions \subseteq Seq(Hashes)
  /\ Honest /\ Sealed

LEMMA FileStays ==
  ASSUME FileInv, UNCHANGED <<lines, appended, edited, versions>>,
         keyfile.keys \subseteq keyfile'.keys
  PROVE  FileInv' /\ Grown
<1>1. Len(lines) \in Nat
  BY LenProperties DEF FileInv
<1>2. Honest'
  BY DEF FileInv, Honest, Linked
<1>3. Sealed'
  BY DEF FileInv, Sealed, Intact, Linked, OnceWas
<1> QED
  BY <1>1, <1>2, <1>3 DEF FileInv, Grown

LEMMA WriteKeeps ==
  ASSUME FileInv, NEW p \in Processes, job[p] \in Jobs, Ready(job[p]), WriteLine(p),
         keyfile.keys \subseteq FreshKeys, UNCHANGED keyfile
  PROVE  FileInv' /\ Grown
<1> DEFINE n == Len(lines)
           new == [hash |-> appended + 1, prev |-> job[p].prev, key |-> job[p].key, sound |-> TRUE]
<1>1. /\ n \in Nat /\ \A i \in 1 .. n : lines[i] \in Lines
      /\ lines \in Seq(Lines) /\ appended \in Nat /\ appended <= MaxLines /\ n <= appended + 1
  BY LenProperties, ElementOfSeq, Limits DEF FileInv
<1>2. /\ appended' = appended + 1 /\ lines' = Append(lines, new)
      /\ versions' = versions \cup {HashesOf(lines')} /\ edited' = edited
  BY DEF WriteLine
<1>3. /\ job[p].key \in keyfile.keys /\ appended < MaxLines
      /\ ~ edited => job[p].prev = HeadHash
  BY DEF WriteLine, Ready
<1>4. new \in Lines /\ new.hash = appended + 1 /\ new.prev = job[p].prev
      /\ new.key = job[p].key /\ new.sound
  BY <1>1, <1>3, Limits DEF Jobs, Lines
<1> HIDE DEF new
<1>5. /\ lines' \in Seq(Lines) /\ Len(lines') = n + 1
      /\ \A i \in 1 .. n : lines'[i] = lines[i]
      /\ lines'[n + 1] = new
  BY <1>1, <1>2, <1>4, AppendProperties
<1>6. Grown
  BY <1>1, <1>2, <1>5 DEF Grown
<1>7. /\ HashesOf(lines') \in Seq(Hashes) /\ Len(HashesOf(lines')) = n + 1
      /\ \A i \in 1 .. n + 1 : HashesOf(lines')[i] = lines'[i].hash
  <2>1. /\ HashesOf(lines') \in Seq(Hashes) /\ Len(HashesOf(lines')) = Len(lines')
        /\ \A i \in 1 .. Len(lines') : HashesOf(lines')[i] = lines'[i].hash
    BY <1>5, HashesOfLines
  <2> QED
    BY <1>5, <2>1
<1>8. ASSUME ~ edited PROVE Honest'
  <2>1. /\ \A i \in 1 .. n :
             /\ Linked(i) /\ lines[i].sound
             /\ lines[i].hash \in 1 .. appended \cup {LegacyHash}
             /\ lines[i].key = Unkeyed => i = 1
             /\ lines[i].key # Unkeyed => lines[i].key \in keyfile.keys
        /\ \A i, k \in 1 .. n : lines[i].hash = lines[k].hash => i = k
    BY <1>8 DEF FileInv, Honest
  <2>2. \A i \in 1 .. n : Linked(i)'
    <3> SUFFICES ASSUME NEW i \in 1 .. n PROVE Linked(i)'
      OBVIOUS
    <3>1. i # 1 => i - 1 \in 1 .. n
      BY <1>1
    <3> QED
      BY <1>5, <2>1, <3>1 DEF Linked, ZERO
  <2>3. new.prev = IF n + 1 = 1 THEN ZERO ELSE lines'[(n + 1) - 1].hash
    <3>1. new.prev = HeadHash
      BY <1>3, <1>4, <1>8
    <3>2. lines = <<>> <=> n = 0
      BY <1>1, EmptySeq
    <3>3. CASE n = 0
      BY <3>1, <3>2, <3>3 DEF HeadHash
    <3>4. CASE n # 0
      <4>1. new.prev = lines[n].hash
        BY <3>1, <3>2, <3>4 DEF HeadHash, Last
      <4>2. n \in 1 .. n /\ n + 1 # 1 /\ (n + 1) - 1 = n
        BY <1>1, <3>4
      <4> QED
        BY <1>5, <4>1, <4>2
    <3> QED
      BY <3>3, <3>4
  <2>4. \A i \in 1 .. n + 1 : Linked(i)' /\ lines'[i].sound
    <3>1. \A i \in 1 .. n + 1 : i \in 1 .. n \/ i = n + 1
      BY <1>1
    <3>2. ASSUME NEW i, i = n + 1 PROVE Linked(i)' /\ lines'[i].sound
      BY <1>4, <1>5, <2>3, <3>2 DEF Linked, ZERO
    <3> QED
      BY <1>5, <2>1, <2>2, <3>1, <3>2
  <2>5. \A i \in 1 .. n : lines[i].hash # appended + 1
    BY <1>1, <1>3, <2>1, Limits
  <2>6. \A i \in 1 .. n + 1 : lines'[i].hash \in 1 .. appended' \cup {LegacyHash}
    <3>1. \A i \in 1 .. n + 1 : i \in 1 .. n \/ i = n + 1
      BY <1>1
    <3>2. 1 .. appended \subseteq 1 .. appended' /\ appended + 1 \in 1 .. appended'
      BY <1>1, <1>2
    <3> QED
      BY <1>4, <1>5, <2>1, <3>1, <3>2
  <2>7. \A i \in 1 .. n + 1 :
          /\ lines'[i].key = Unkeyed => i = 1
          /\ lines'[i].key # Unkeyed => lines'[i].key \in keyfile'.keys
    <3>1. \A i \in 1 .. n + 1 : i \in 1 .. n \/ i = n + 1
      BY <1>1
    <3>2. new.key # Unkeyed /\ new.key \in keyfile'.keys
      BY <1>3, <1>4, Limits
    <3> QED
      BY <1>5, <2>1, <3>1, <3>2
  <2>8. \A i, k \in 1 .. n + 1 : lines'[i].hash = lines'[k].hash => i = k
    <3>1. \A i \in 1 .. n + 1 : i \in 1 .. n \/ i = n + 1
      BY <1>1
    <3> QED
      BY <1>4, <1>5, <2>1, <2>5, <3>1
  <2> QED
    BY <1>5, <2>4, <2>6, <2>7, <2>8 DEF Honest, LegacyHash
<1>9. Sealed'
  <2> SUFFICES ASSUME NEW k \in 1 .. n + 1, lines'[k].key # Unkeyed, Intact(k)'
               PROVE  OnceWas(k)'
    BY <1>5 DEF Sealed
  <2>1. CASE k \in 1 .. n
    <3>1. k \in Nat /\ \A i \in 1 .. k : lines'[i] = lines[i]
      BY <1>1, <1>5, <2>1
    <3>2. Intact(k) /\ (OnceWas(k) => OnceWas(k)')
      BY <1>2, <3>1, PrefixKept
    <3>3. lines[k].key # Unkeyed
      BY <1>5, <2>1
    <3> QED
      BY <2>1, <3>2, <3>3 DEF FileInv, Sealed
  <2>2. CASE k = n + 1
    BY <1>2, <1>7, <2>2 DEF OnceWas
  <2> QED
    BY <1>1, <2>1, <2>2
<1>10. /\ Len(lines') <= appended' + 1 /\ appended' \in 0 .. MaxLines
       /\ edited' \in BOOLEAN /\ versions' \subseteq Seq(Hashes)
  BY <1>1, <1>2, <1>3, <1>5, <1>7, Limits DEF FileInv
<1>11. Honest'
  BY <1>2, <1>8 DEF Honest
<1> QED
  BY <1>5, <1>6, <1>9, <1>10, <1>11 DEF FileInv

(* A file that was edited: whatever stays of the lines behind the edit     *)
(* does not link, or has no hash of its own.                               *)
LEMMA EditKeeps ==
  ASSUME FileInv, Edit
  PROVE  FileInv' /\ edited'
<1> DEFINE n == Len(lines)
<1>1. /\ n \in Nat /\ \A i \in 1 .. n : lines[i] \in Lines /\ DOMAIN lines = 1 .. n
      /\ lines \in Seq(Lines) /\ appended \in Nat /\ appended <= MaxLines /\ n <= appended + 1
  BY LenProperties, ElementOfSeq, Limits DEF FileInv
<1>2. ~ edited /\ edited' = TRUE /\ UNCHANGED <<appended, versions>>
  BY DEF Edit
<1>3. /\ \A i \in 1 .. n :
           /\ Linked(i) /\ lines[i].sound
           /\ lines[i].hash \in 1 .. appended \cup {LegacyHash}
           /\ lines[i].key = Unkeyed => i = 1
      /\ \A i, k \in 1 .. n : lines[i].hash = lines[k].hash => i = k
  BY <1>2 DEF FileInv, Honest
<1>4. Honest'
  BY <1>2 DEF Honest
<1>5. PICK e \in 1 .. n :
        \/ lines' = RemoveAt(lines, e)
        \/ lines' = [lines EXCEPT ![e] =
             IF @.key = Unkeyed THEN [@ EXCEPT !.hash = EditedHash] ELSE [@ EXCEPT !.sound = FALSE]]
  BY <1>1, LenProperties DEF Edit, FileInv
<1>6. ASSUME NEW k \in 1 .. n, k < e, lines'[k].key # Unkeyed, Intact(k)',
             \A i \in 1 .. k : lines'[i] = lines[i]
      PROVE  OnceWas(k)'
  <2>1. k \in Nat /\ versions \subseteq versions' /\ lines[k].key # Unkeyed
    BY <1>2, <1>6
  <2>2. Intact(k) /\ (OnceWas(k) => OnceWas(k)')
    BY <1>6, <2>1, PrefixKept
  <2> QED
    BY <1>6, <2>1, <2>2 DEF FileInv, Sealed
<1>7. ASSUME lines' = RemoveAt(lines, e)
      PROVE  lines' \in Seq(Lines) /\ Len(lines') <= n /\ Sealed'
  <2>1. /\ lines' \in Seq(Lines) /\ Len(lines') = n - 1
        /\ \A i \in 1 .. n - 1 : lines'[i] = IF i < e THEN lines[i] ELSE lines[i + 1]
    BY <1>1, <1>7, RemovedLine
  <2>2. ASSUME NEW k \in 1 .. n - 1, lines'[k].key # Unkeyed, Intact(k)'
        PROVE  OnceWas(k)'
    <3>1. CASE k < e
      <4>1. k \in 1 .. n /\ \A i \in 1 .. k : lines'[i] = lines[i]
        BY <1>1, <2>1, <3>1
      <4> QED
        BY <1>6, <2>2, <3>1, <4>1
    <3>2. CASE e <= k
      <4>1. e \in 1 .. k /\ e \in 1 .. n - 1 /\ e + 1 \in 1 .. n /\ e + 1 # 1 /\ (e + 1) - 1 = e
        BY <1>1, <3>2
      <4>2. lines'[e] = lines[e + 1]
        BY <2>1, <4>1
      <4>3. lines'[e].prev = lines[e].hash
        BY <1>3, <4>1, <4>2 DEF Linked
      <4>4. lines'[e].prev = IF e = 1 THEN ZERO ELSE lines'[e - 1].hash
        BY <2>2, <4>1 DEF Intact, Linked
      <4>5. CASE e = 1
        <5>1. lines[e].hash # 0
          BY <1>1, <1>3, Limits
        <5> QED
          BY <4>3, <4>4, <4>5, <5>1, Limits
      <4>6. CASE e # 1
        <5>1. e - 1 \in 1 .. n - 1 /\ e - 1 \in 1 .. n /\ e - 1 < e /\ e - 1 # e
          BY <1>1, <4>6
        <5>2. lines'[e - 1] = lines[e - 1]
          BY <2>1, <5>1
        <5>3. lines[e].hash # lines[e - 1].hash
          BY <1>3, <5>1
        <5> QED
          BY <4>3, <4>4, <4>6, <5>2, <5>3
      <4> QED
        BY <4>5, <4>6
    <3> QED
      BY <1>1, <3>1, <3>2
  <2> QED
    BY <1>1, <2>1, <2>2 DEF Sealed
<1>8. ASSUME lines' = [lines EXCEPT ![e] =
               IF @.key = Unkeyed THEN [@ EXCEPT !.hash = EditedHash] ELSE [@ EXCEPT !.sound = FALSE]]
      PROVE  lines' \in Seq(Lines) /\ Len(lines') <= n /\ Sealed'
  <2> DEFINE rewritten == IF lines[e].key = Unkeyed THEN [lines[e] EXCEPT !.hash = EditedHash]
                          ELSE [lines[e] EXCEPT !.sound = FALSE]
  <2>1. /\ rewritten \in Lines
        /\ rewritten.key = lines[e].key
        /\ rewritten.key = Unkeyed => rewritten.hash = EditedHash
        /\ rewritten.key # Unkeyed => ~ rewritten.sound
    <3>1. lines[e] \in Lines /\ EditedHash \in Hashes
      BY <1>1, Limits DEF EditedHash
    <3>2. CASE lines[e].key = Unkeyed
      BY <3>1, <3>2 DEF Lines
    <3>3. CASE lines[e].key # Unkeyed
      BY <3>1, <3>3 DEF Lines
    <3> QED
      BY <3>2, <3>3
  <2>2. lines' = [lines EXCEPT ![e] = rewritten]
    BY <1>8
  <2> HIDE DEF rewritten
  <2>3. /\ lines' \in Seq(Lines) /\ Len(lines') = n
        /\ \A i \in 1 .. n : lines'[i] = IF i = e THEN rewritten ELSE lines[i]
    BY <1>1, <2>1, <2>2, ExceptSeq
  <2>4. ASSUME NEW k \in 1 .. n, lines'[k].key # Unkeyed, Intact(k)'
        PROVE  OnceWas(k)'
    <3>1. CASE k < e
      <4>1. \A i \in 1 .. k : lines'[i] = lines[i]
        BY <1>1, <2>3, <3>1
      <4> QED
        BY <1>6, <2>4, <3>1, <4>1
    <3>2. CASE e <= k
      <4>1. e \in 1 .. k /\ lines'[e] = rewritten
        BY <1>1, <2>3, <3>2
      <4>2. lines[e].key = Unkeyed
        BY <2>1, <2>4, <4>1 DEF Intact
      <4>3. rewritten.hash = EditedHash /\ e # k
        BY <2>1, <2>4, <4>1, <4>2
      <4>4. e + 1 \in 1 .. k /\ e + 1 \in 1 .. n /\ e + 1 # 1 /\ (e + 1) - 1 = e /\ e + 1 # e
        BY <1>1, <3>2, <4>3
      <4>5. lines'[e + 1] = lines[e + 1]
        BY <2>3, <4>4
      <4>6. lines[e + 1].prev = lines[e].hash
        BY <1>3, <4>4 DEF Linked
      <4>7. lines'[e + 1].prev = EditedHash
        BY <2>4, <4>1, <4>3, <4>4 DEF Intact, Linked
      <4>8. lines[e].hash # EditedHash
        <5>1. EditedHash = MaxLines + 2
          BY DEF EditedHash
        <5> QED
          BY <1>1, <1>3, <5>1, Limits
      <4> QED
        BY <4>5, <4>6, <4>7, <4>8
    <3> QED
      BY <1>1, <3>1, <3>2
  <2> QED
    BY <1>1, <2>3, <2>4 DEF Sealed
<1>9. lines' \in Seq(Lines) /\ Len(lines') <= n /\ Sealed'
  BY <1>5, <1>7, <1>8
<1>10. Len(lines') <= appended' + 1
  <2>1. Len(lines') \in Nat
    BY <1>9, LenProperties
  <2> QED
    BY <1>1, <1>2, <1>9, <2>1
<1> QED
  BY <1>2, <1>4, <1>9, <1>10 DEF FileInv

-----------------------------------------------------------------------------
(* The jobs.                                                               *)

LEMMA IInvParts ==
  ASSUME IInv
  PROVE  /\ FileInv /\ KeyInv /\ job \in [Processes -> Jobs]
         /\ \A p \in Processes : job[p] \in Jobs /\ Ready(job[p]) /\ ReadTrue(job[p]) /\ Covered(job[p])
         /\ \A p \in Processes : job[p].pc \in {"write", "sync"} => loglock = p /\ tail = "whole"
         /\ tail \in Tails /\ loglock \in Processes \cup {None} /\ None \notin Processes
         /\ keyfile.keys \subseteq FreshKeys /\ retired \subseteq FreshKeys
  BY KeyFileAssumption
  DEF IInv, FileTyped, ChainTypeOK, KeyTypeOK, FileInv, JobsAreTrue, Docs

LEMMA NoJobTyped ==
  /\ NoJob \in Jobs /\ NoJob.pc = "idle" /\ NoJob.read = <<>> /\ NoJob.keyed = 0
  /\ NoJob.error = "none"
<1>1. <<>> \in Seq(Hashes) /\ 0 \in Hashes /\ 0 \in 0 .. MaxLines + 1
  BY Limits, EmptySeq
<1> QED
  BY <1>1, Limits DEF NoJob, Jobs

LEMMA IdleIsTrue ==
  ASSUME NEW x, x.pc = "idle"
  PROVE  Ready(x)' /\ ReadTrue(x) /\ Covered(x)
  BY DEF Ready, ReadTrue, Covered

(* One process goes on to job x, and nobody else loses the lock it has.    *)
JobMove(p, x) ==
  /\ job' = [job EXCEPT ![p] = x] /\ x \in Jobs
  /\ tail' \in Tails /\ loglock' \in Processes \cup {None}
  /\ \A q \in Processes \ {p} :
       job[q].pc \in {"write", "sync"} => loglock' = loglock /\ tail' = tail
  /\ x.pc \in {"write", "sync"} => loglock' = p /\ tail' = "whole"

LEMMA JobStep ==
  ASSUME IInv, KeyInv', FileInv', Grown, NEW p \in Processes, NEW x, JobMove(p, x),
         Ready(x)', ReadTrue(x)', Covered(x)',
         \A q \in Processes \ {p} : Ready(job[q])'
  PROVE  IInv'
<1>1. /\ job'[p] = x /\ \A q \in Processes \ {p} : job'[q] = job[q]
      /\ job' \in [Processes -> Jobs]
  BY IInvParts DEF JobMove
<1>2. ASSUME NEW q \in Processes \ {p}
      PROVE  (Ready(job[q]) /\ ReadTrue(job[q]) /\ Covered(job[q]))'
  <2> SUFFICES ASSUME NEW y, y = job[q] PROVE ReadTrue(y)' /\ Covered(y)'
    BY <1>1 DEF ReadTrue, Covered, Intact, Linked
  <2>1. y \in Jobs /\ ReadTrue(y) /\ Covered(y)
    BY IInvParts
  <2> QED
    BY <2>1, JobsStayTrue DEF IInv, FileTyped
<1>3. (Ready(job[p]) /\ ReadTrue(job[p]) /\ Covered(job[p]))'
  BY <1>1 DEF Ready, ReadTrue, Covered, Intact, Linked
<1>4. \A q \in Processes : job'[q].pc \in {"write", "sync"} => loglock' = q /\ tail' = "whole"
  BY <1>1, IInvParts DEF JobMove
<1> QED
  BY <1>1, <1>2, <1>3, <1>4
  DEF IInv, FileTyped, ChainTypeOK, FileInv, KeyInv, JobMove, JobsAreTrue

(* A step that leaves the file alone.                                      *)
FileSame == UNCHANGED <<lines, appended, edited, versions>>

LEMMA QuietStep ==
  ASSUME IInv, [Next]_vars, FileSame, NEW p \in Processes, NEW x, JobMove(p, x),
         Ready(x)', ReadTrue(x), Covered(x)
  PROVE  IInv'
<1>1. KeyInv' /\ keyfile.keys \subseteq keyfile'.keys /\ retired \subseteq retired'
  BY IInvParts, StepsMoveKeys
<1>2. FileInv' /\ Grown
  BY <1>1, IInvParts, FileStays DEF FileSame
<1>3. ReadTrue(x)' /\ Covered(x)'
  <2>1. x \in Jobs
    BY DEF JobMove
  <2> QED
    BY <1>2, <2>1, JobsStayTrue DEF IInv, FileTyped
<1>4. \A q \in Processes \ {p} : Ready(job[q])'
  <2> SUFFICES ASSUME NEW q \in Processes \ {p} PROVE Ready(job[q])'
    OBVIOUS
  <2>1. job'[q] = job[q] /\ Ready(job[q])
    BY IInvParts DEF JobMove
  <2> QED
    BY <1>1, <2>1 DEF Ready, FileSame, HeadHash
<1> QED
  BY <1>1, <1>2, <1>3, <1>4, JobStep

(* The verdict on one line.                                                *)
LEMMA FaultMeans ==
  ASSUME NEW j, NEW line, j.keyed \in Nat
  PROVE  /\ Fault(j, line) = "none" =>
              /\ line.prev = Previous(j) /\ line.sound
              /\ line.key = Unkeyed => ~ j.strict /\ j.keyed = 0
         /\ Fault(j, line) \in {"none", "broken", "unkeyed"}
         /\ /\ line.prev = Previous(j) /\ line.sound
            /\ line.key = Unkeyed => j.keyed = 0
            /\ line.key # Unkeyed => Resolves(line.key)
            => Fault(j, line) \in {"none"} \cup (IF j.strict THEN {"unkeyed"} ELSE {})
<1>1. CASE line.prev # Previous(j)
  BY <1>1 DEF Fault
<1>2. CASE line.prev = Previous(j) /\ line.key = Unkeyed /\ j.strict
  BY <1>2 DEF Fault
<1>3. CASE line.prev = Previous(j) /\ line.key = Unkeyed /\ ~ j.strict /\ j.keyed > 0
  BY <1>3 DEF Fault
<1>4. CASE line.prev = Previous(j) /\ line.key = Unkeyed /\ ~ j.strict /\ ~ (j.keyed > 0)
  BY <1>4 DEF Fault
<1>5. CASE line.prev = Previous(j) /\ line.key # Unkeyed /\ ~ Resolves(line.key)
  BY <1>5 DEF Fault
<1>6. CASE line.prev = Previous(j) /\ line.key # Unkeyed /\ Resolves(line.key)
  BY <1>6 DEF Fault
<1> QED
  BY <1>1, <1>2, <1>3, <1>4, <1>5, <1>6

LEMMA AppendCallKeeps == ASSUME IInv, NEW p \in Processes, Next, AppendCall(p) PROVE IInv'
<1> SUFFICES ASSUME NEW x, x = [NoJob EXCEPT !.pc = "keys", !.since = retired] PROVE IInv'
  OBVIOUS
<1>1. x \in Jobs /\ x.pc = "keys" /\ x.since = retired
  BY NoJobTyped, IInvParts DEF Jobs
<1>2. job' = [job EXCEPT ![p] = x] /\ UNCHANGED <<lines, tail, loglock, appended, edited, versions>>
  BY DEF AppendCall
<1>3. JobMove(p, x) /\ FileSame
  BY <1>1, <1>2, IInvParts DEF JobMove, FileSame
<1>4. ReadTrue(x) /\ Covered(x)
  BY <1>1 DEF ReadTrue, Covered
<1>5. Ready(x)'
  BY <1>1, IInvParts, StepsMoveKeys DEF Ready
<1> QED
  BY <1>3, <1>4, <1>5, QuietStep

LEMMA KeyAnswerKeeps == ASSUME IInv, NEW p \in Processes, Next, KeyAnswer(p) PROVE IInv'
<1> SUFFICES ASSUME NEW x, x = [job[p] EXCEPT !.pc = "open", !.key = request[p].doc.current]
             PROVE  IInv'
  OBVIOUS
<1>1. /\ job[p] \in Jobs /\ job[p].pc = "keys" /\ request[p].pc = "return" /\ UNCHANGED keyfile
      /\ job[p].since \subseteq retired
  BY IInvParts DEF KeyAnswer, Return, Ready
<1>2. /\ request[p].doc.current \in keyfile.keys /\ request[p].doc.current \notin retired
      /\ keyfile.keys \subseteq FreshKeys
  BY <1>1, IInvParts DEF KeyInv, KeysAreKept
<1>3. /\ x \in Jobs /\ x.pc = "open" /\ x.key = request[p].doc.current /\ x.since = job[p].since
  BY <1>1, <1>2 DEF Jobs
<1>4. job' = [job EXCEPT ![p] = x] /\ UNCHANGED <<lines, tail, loglock, appended, edited, versions>>
  BY DEF KeyAnswer
<1>5. JobMove(p, x) /\ FileSame
  BY <1>3, <1>4, IInvParts DEF JobMove, FileSame
<1>6. ReadTrue(x) /\ Covered(x) /\ Ready(x)'
  BY <1>1, <1>2, <1>3 DEF ReadTrue, Covered, Ready
<1> QED
  BY <1>5, <1>6, QuietStep

LEMMA HeadTyped == ASSUME FileInv PROVE HeadHash \in Hashes
<1>1. lines # <<>> => Len(lines) \in 1 .. Len(lines)
  BY EmptySeq DEF FileInv
<1>2. lines # <<>> => lines[Len(lines)] \in Lines
  BY <1>1, ElementOfSeq DEF FileInv
<1> QED
  BY <1>2, Limits DEF HeadHash, Last, Lines

LEMMA OpenLogKeeps == ASSUME IInv, NEW p \in Processes, Next, OpenLog(p) PROVE IInv'
<1>1. /\ job[p] \in Jobs /\ job[p].pc = "open" /\ Ready(job[p]) /\ FileSame /\ loglock = None
      /\ UNCHANGED <<keyfile, retired>> /\ appended < MaxLines
      /\ \A q \in Processes : job[q].pc \notin {"write", "sync"}
  BY IInvParts DEF OpenLog, FileSame, keyVars
<1>2. CASE tail \in {"part", "bare"}
  <2>1. job' = [job EXCEPT ![p] = NoJob] /\ UNCHANGED <<tail, loglock>>
    BY <1>2 DEF OpenLog
  <2>2. JobMove(p, NoJob)
    BY <1>1, <2>1, NoJobTyped, IInvParts DEF JobMove
  <2> QED
    BY <1>1, <2>2, NoJobTyped, IdleIsTrue, QuietStep
<1>3. CASE tail \notin {"part", "bare"}
  <2> SUFFICES ASSUME NEW x, x = [job[p] EXCEPT !.pc = "write", !.prev = HeadHash] PROVE IInv'
    OBVIOUS
  <2>1. loglock' = p /\ tail' = "whole" /\ job' = [job EXCEPT ![p] = x] /\ tail' \in Tails
    BY <1>3 DEF OpenLog, Tails
  <2>2. /\ x \in Jobs /\ x.pc = "write" /\ x.prev = HeadHash /\ x.key = job[p].key
        /\ x.since = job[p].since
    BY <1>1, IInvParts, HeadTyped DEF Jobs
  <2>3. JobMove(p, x)
    BY <1>1, <1>3, <2>1, <2>2, IInvParts DEF JobMove
  <2>4. ReadTrue(x) /\ Covered(x)
    BY <2>2 DEF ReadTrue, Covered
  <2>5. Ready(x)'
    BY <1>1, <2>2 DEF Ready, FileSame, HeadHash
  <2> QED
    BY <1>1, <2>3, <2>4, <2>5, QuietStep
<1> QED
  BY <1>2, <1>3

LEMMA WriteLineKeeps == ASSUME IInv, NEW p \in Processes, Next, WriteLine(p) PROVE IInv'
<1> SUFFICES ASSUME NEW x, x = [job[p] EXCEPT !.pc = "sync"] PROVE IInv'
  OBVIOUS
<1>1. /\ job[p] \in Jobs /\ job[p].pc = "write" /\ Ready(job[p])
      /\ UNCHANGED keyVars /\ UNCHANGED <<tail, loglock, edited>>
      /\ job' = [job EXCEPT ![p] = x]
  BY IInvParts DEF WriteLine
<1>2. x \in Jobs /\ x.pc = "sync"
  BY <1>1 DEF Jobs
<1>3. loglock = p /\ tail = "whole"
  BY <1>1, IInvParts
<1>4. JobMove(p, x)
  BY <1>1, <1>2, <1>3, IInvParts DEF JobMove
<1>5. FileInv' /\ Grown
  BY <1>1, IInvParts, WriteKeeps DEF keyVars
<1>6. Ready(x)' /\ ReadTrue(x)' /\ Covered(x)'
  BY <1>2 DEF Ready, ReadTrue, Covered
<1>7. \A q \in Processes \ {p} : Ready(job[q])'
  <2> SUFFICES ASSUME NEW q \in Processes \ {p} PROVE Ready(job[q])'
    OBVIOUS
  <2>1. job'[q] = job[q] /\ Ready(job[q]) /\ job[q].pc # "write"
    BY <1>1, <1>3, IInvParts
  <2> QED
    BY <1>1, <2>1 DEF Ready, keyVars
<1>8. KeyInv'
  BY IInvParts, StepsMoveKeys
<1> QED
  BY <1>4, <1>5, <1>6, <1>7, <1>8, JobStep

(* The steps that end a job, whatever the others do.                       *)
LEMMA JobEnds ==
  ASSUME IInv, NEW p \in Processes, [Next]_vars, job' = [job EXCEPT ![p] = NoJob], FileSame,
         loglock' \in {loglock, LogUnlocked(p)}, tail' \in Tails,
         tail' = tail \/ job[p].pc \in {"write", "sync"}
  PROVE  IInv'
<1>1. \A q \in Processes \ {p} :
        job[q].pc \in {"write", "sync"} => loglock' = loglock /\ tail' = tail
  BY IInvParts DEF LogUnlocked
<1>2. JobMove(p, NoJob)
  BY <1>1, NoJobTyped, IInvParts DEF JobMove, LogUnlocked
<1> QED
  BY <1>2, NoJobTyped, IdleIsTrue, QuietStep

LEMMA VerifyCallKeeps == ASSUME IInv, NEW p \in Processes, Next, VerifyCall(p) PROVE IInv'
<1>1. PICK how \in {"plain", "strict", "anchor"} : job' = [job EXCEPT ![p] = Opened(how)]
  BY DEF VerifyCall
<1> SUFFICES ASSUME NEW x, x = Opened(how) PROVE IInv'
  OBVIOUS
<1>2. /\ x \in Jobs /\ x.read = <<>> /\ x.keyed = 0
      /\ \/ x.pc = "verify" /\ x.error = "none"
         \/ x.pc = "verdict" /\ x.error = "missing"
  BY NoJobTyped DEF Opened, Jobs
<1>3. FileSame /\ UNCHANGED <<tail, loglock>> /\ job' = [job EXCEPT ![p] = x]
  BY <1>1 DEF VerifyCall, FileSame
<1>4. JobMove(p, x)
  BY <1>2, <1>3, IInvParts DEF JobMove
<1>5. ReadTrue(x)
  <2>1. Len(x.read) = 0 /\ 0 <= Len(lines)
    BY <1>2, IInvParts, EmptySeq, LenProperties DEF FileInv
  <2> QED
    BY <1>2, <2>1 DEF ReadTrue, Intact
<1>6. Covered(x) /\ Ready(x)'
  BY <1>2 DEF Covered, Ready
<1> QED
  BY <1>3, <1>4, <1>5, <1>6, QuietStep

LEMMA VerifyLineKeeps == ASSUME IInv, NEW p \in Processes, Next, VerifyLine(p) PROVE IInv'
<1> DEFINE at == Len(job[p].read) + 1
           line == lines[at]
<1>1. /\ job[p] \in Jobs /\ job[p].pc = "verify" /\ ReadTrue(job[p]) /\ FileSame
      /\ UNCHANGED <<tail, loglock>> /\ Len(job[p].read) < Len(lines)
      /\ lines \in Seq(Lines) /\ Len(lines) \in Nat /\ Len(lines) <= MaxLines + 1
  <2>1. lines \in Seq(Lines) /\ Len(lines) <= appended + 1 /\ appended \in 0 .. MaxLines
    BY IInvParts DEF FileInv
  <2>2. Len(lines) \in Nat
    BY <2>1, LenProperties
  <2> QED
    BY <2>1, <2>2, Limits, IInvParts DEF VerifyLine, FileSame
<1>2. /\ Len(job[p].read) \in Nat /\ job[p].read \in Seq(Hashes)
      /\ job[p].keyed \in Nat
  BY <1>1, LenProperties DEF Jobs
<1>3. /\ at \in 1 .. Len(lines) /\ at <= Len(lines) /\ at \in 0 .. MaxLines + 1
      /\ at - 1 = Len(job[p].read)
  BY <1>1, <1>2, Limits
<1>4. line \in Lines
  BY <1>1, <1>3, ElementOfSeq
<1>5. line.prev = Previous(job[p]) <=> Linked(at)
  <2>1. job[p].read = <<>> <=> Len(job[p].read) = 0
    BY <1>2, EmptySeq
  <2>2. CASE Len(job[p].read) = 0
    BY <2>1, <2>2 DEF Previous, Linked
  <2>3. CASE Len(job[p].read) # 0
    <3>1. Len(job[p].read) \in 1 .. Len(job[p].read) /\ at # 1
      BY <1>2, <2>3
    <3>2. Last(job[p].read) = lines[at - 1].hash
      BY <1>1, <1>3, <3>1 DEF ReadTrue, Last
    <3> QED
      BY <2>1, <2>3, <3>1, <3>2 DEF Previous, Linked
  <2> QED
    BY <2>2, <2>3
<1>6. ~ edited => Fault(job[p], line) \in {"none"} \cup (IF job[p].strict THEN {"unkeyed"} ELSE {})
  <2> SUFFICES ASSUME ~ edited
               PROVE  Fault(job[p], line) \in {"none"} \cup (IF job[p].strict THEN {"unkeyed"} ELSE {})
    OBVIOUS
  <2>1. /\ Linked(at) /\ line.sound /\ (line.key = Unkeyed => at = 1)
        /\ line.key # Unkeyed => Resolves(line.key)
    BY <1>3, IInvParts DEF FileInv, Honest, Resolves
  <2>2. line.key = Unkeyed => job[p].keyed = 0
    BY <1>1, <1>2, <1>3, <2>1 DEF ReadTrue
  <2> HIDE DEF at, line
  <2> QED
    BY <1>2, <1>5, <2>1, <2>2, FaultMeans
<1>7. CASE Fault(job[p], line) # "none"
  <2> SUFFICES ASSUME NEW x, x = [job[p] EXCEPT !.pc = "verdict", !.error = Fault(job[p], line)]
               PROVE  IInv'
    OBVIOUS
  <2>1. job' = [job EXCEPT ![p] = x]
    BY <1>7 DEF VerifyLine
  <2>2. Fault(job[p], line) \in {"broken", "unkeyed"}
    <3> HIDE DEF at, line
    <3> QED
      BY <1>2, <1>7, FaultMeans
  <2>3. /\ x \in Jobs /\ x.pc = "verdict" /\ x.error = Fault(job[p], line)
        /\ x.read = job[p].read /\ x.keyed = job[p].keyed /\ x.strict = job[p].strict
    BY <1>1, <2>2 DEF Jobs
  <2>4. JobMove(p, x)
    BY <1>1, <2>1, <2>3, IInvParts DEF JobMove
  <2>5. ReadTrue(x)
    BY <1>1, <1>6, <2>3 DEF ReadTrue
  <2>6. Covered(x) /\ Ready(x)'
    BY <2>3 DEF Covered, Ready
  <2> QED
    BY <1>1, <2>4, <2>5, <2>6, QuietStep
<1>8. CASE Fault(job[p], line) = "none"
  <2> SUFFICES ASSUME NEW x, x = [job[p] EXCEPT !.read = Append(@, line.hash),
                                               !.keyed = IF line.key = Unkeyed THEN @ ELSE at]
               PROVE  IInv'
    OBVIOUS
  <2>1. job' = [job EXCEPT ![p] = x]
    BY <1>8 DEF VerifyLine
  <2>2. line.hash \in Hashes
    BY <1>4 DEF Lines
  <2> DEFINE more == Append(job[p].read, line.hash)
  <2>3. /\ more \in Seq(Hashes) /\ Len(more) = at
        /\ \A i \in 1 .. Len(job[p].read) : more[i] = job[p].read[i]
        /\ more[at] = line.hash
    BY <1>2, <2>2, AppendProperties
  <2>4. /\ x \in Jobs /\ x.pc = "verify" /\ x.error = job[p].error /\ x.read = more
        /\ x.keyed = IF line.key = Unkeyed THEN job[p].keyed ELSE at
        /\ x.strict = job[p].strict
    <3> HIDE DEF at, line
    <3>1. Append(job[p].read, line.hash) \in Seq(Hashes)
      BY <2>3
    <3> QED
      BY <1>1, <1>3, <3>1 DEF Jobs
  <2>5. JobMove(p, x)
    BY <1>1, <2>1, <2>4, IInvParts DEF JobMove
  <2>6. Linked(at) /\ line.sound
    <3> HIDE DEF at, line
    <3> QED
      BY <1>2, <1>5, <1>8, FaultMeans
  <2> HIDE DEF more
  <2>7. \A i \in 1 .. at : i \in 1 .. Len(job[p].read) \/ i = at
    BY <1>2
  <2>8. Intact(at) /\ \A i \in 1 .. at : more[i] = lines[i].hash
    BY <1>1, <2>3, <2>6, <2>7 DEF ReadTrue, Intact
  <2>9. x.keyed <= at /\ (x.keyed > 0 => lines[x.keyed].key # Unkeyed)
    BY <1>1, <1>2, <2>4 DEF ReadTrue
  <2>10. ReadTrue(x)
    BY <1>1, <1>3, <2>3, <2>4, <2>8, <2>9 DEF ReadTrue
  <2>11. Covered(x) /\ Ready(x)'
    BY <2>4 DEF Covered, Ready
  <2> QED
    BY <1>1, <2>5, <2>10, <2>11, QuietStep
<1> QED
  BY <1>7, <1>8

LEMMA VerifyUnavailableKeeps == ASSUME IInv, NEW p \in Processes, Next, VerifyUnavailable(p) PROVE IInv'
<1> SUFFICES ASSUME NEW x, x = [job[p] EXCEPT !.pc = "verdict", !.error = "unavailable"]
             PROVE  IInv'
  OBVIOUS
<1>1. /\ job[p] \in Jobs /\ job[p].pc = "verify" /\ ReadTrue(job[p]) /\ FileSame
      /\ UNCHANGED <<tail, loglock>> /\ job' = [job EXCEPT ![p] = x]
  BY IInvParts DEF VerifyUnavailable, FileSame
<1>2. /\ x \in Jobs /\ x.pc = "verdict" /\ x.error = "unavailable"
      /\ x.read = job[p].read /\ x.keyed = job[p].keyed /\ x.strict = job[p].strict
  BY <1>1 DEF Jobs
<1>3. JobMove(p, x)
  BY <1>1, <1>2, IInvParts DEF JobMove
<1>4. ReadTrue(x) /\ Covered(x) /\ Ready(x)'
  BY <1>1, <1>2 DEF ReadTrue, Covered, Ready
<1> QED
  BY <1>1, <1>3, <1>4, QuietStep

LEMMA VerifyEndKeeps == ASSUME IInv, NEW p \in Processes, Next, VerifyEnd(p) PROVE IInv'
<1>1. /\ job[p] \in Jobs /\ job[p].pc = "verify" /\ ReadTrue(job[p]) /\ FileSame
      /\ UNCHANGED <<tail, loglock>>
  BY IInvParts DEF VerifyEnd, FileSame
<1>2. ASSUME NEW x, job' = [job EXCEPT ![p] = x],
             x \in {[job[p] EXCEPT !.pc = "read"], [job[p] EXCEPT !.pc = "verdict"],
                    [job[p] EXCEPT !.pc = "verdict", !.error = "tail"]}
      PROVE  IInv'
  <2>1. /\ x \in Jobs /\ x.pc \in {"read", "verdict"} /\ x.error \in {job[p].error, "tail"}
        /\ x.error = "tail" => x.pc = "verdict" \/ job[p].error = "tail"
        /\ x.read = job[p].read /\ x.keyed = job[p].keyed /\ x.strict = job[p].strict
    BY <1>1, <1>2 DEF Jobs
  <2>2. JobMove(p, x)
    BY <1>1, <1>2, <2>1, IInvParts DEF JobMove
  <2>3. ReadTrue(x)
    BY <1>1, <2>1 DEF ReadTrue
  <2>4. Covered(x) /\ Ready(x)'
    BY <2>1 DEF Covered, Ready
  <2> QED
    BY <1>1, <2>2, <2>3, <2>4, QuietStep
<1> QED
  BY <1>2 DEF VerifyEnd

LEMMA ReadHeadKeeps == ASSUME IInv, NEW p \in Processes, Next, ReadHead(p) PROVE IInv'
<1>1. /\ job[p] \in Jobs /\ job[p].pc = "read" /\ ReadTrue(job[p]) /\ FileSame
      /\ UNCHANGED <<tail, loglock>> /\ lines \in Seq(Lines)
  BY IInvParts DEF ReadHead, FileSame, FileInv
<1>2. CASE job' = [job EXCEPT ![p] = NoJob]
  BY <1>1, <1>2, IInvParts, JobEnds
<1>3. CASE job' = [job EXCEPT ![p].pc = "anchored", ![p].head = HeadHash]
  <2> SUFFICES ASSUME NEW x, x = [job[p] EXCEPT !.pc = "anchored", !.head = HeadHash] PROVE IInv'
    OBVIOUS
  <2>1. job' = [job EXCEPT ![p] = x]
    BY <1>3
  <2>2. x \in Jobs /\ x.pc = "anchored" /\ x.head = HeadHash /\ x.read = job[p].read
    BY <1>1, IInvParts, HeadTyped DEF Jobs
  <2>3. JobMove(p, x)
    BY <1>1, <2>1, <2>2, IInvParts DEF JobMove
  <2>4. ReadTrue(x) /\ Ready(x)'
    BY <2>2 DEF ReadTrue, Ready
  <2>5. Covered(x)
    <3>1. /\ x.read \in Seq(Hashes) /\ Len(x.read) \in Nat /\ Len(lines) \in Nat
          /\ Len(x.read) <= Len(lines)
          /\ lines = <<>> <=> Len(lines) = 0
          /\ x.read = <<>> <=> Len(x.read) = 0
      BY <1>1, <2>2, LenProperties, EmptySeq DEF ReadTrue, Jobs
    <3>2. CASE lines = <<>>
      BY <2>2, <3>1, <3>2 DEF Covered, HeadHash
    <3>3. CASE lines # <<>>
      <4>1. Len(lines) \in 1 .. Len(lines) /\ Len(lines) >= Len(x.read)
        BY <3>1, <3>3
      <4>2. lines[Len(lines)].hash = x.head
        BY <2>2, <3>3 DEF HeadHash, Last
      <4> QED
        BY <4>1, <4>2 DEF Covered
    <3> QED
      BY <3>2, <3>3
  <2> QED
    BY <1>1, <2>3, <2>4, <2>5, QuietStep
<1> QED
  BY <1>2, <1>3 DEF ReadHead

LEMMA EditStep == ASSUME IInv, Next, Edit PROVE IInv'
<1>1. /\ FileInv' /\ edited' /\ UNCHANGED <<loglock, job, appended>>
      /\ tail' \in {tail, "whole"} /\ tail' \in Tails
  BY IInvParts, EditKeeps DEF Edit, Tails
<1>2. KeyInv' /\ keyfile.keys \subseteq keyfile'.keys /\ retired \subseteq retired'
  BY IInvParts, StepsMoveKeys
<1>3. \A q \in Processes : (Ready(job[q]) /\ ReadTrue(job[q]) /\ Covered(job[q]))'
  <2> SUFFICES ASSUME NEW q \in Processes
               PROVE  (Ready(job[q]) /\ ReadTrue(job[q]) /\ Covered(job[q]))'
    OBVIOUS
  <2>1. job'[q] = job[q] /\ Ready(job[q]) /\ job[q].pc \notin {"verify", "read", "verdict"}
    BY <1>1, IInvParts DEF Edit
  <2> QED
    BY <1>1, <1>2, <2>1 DEF Ready, ReadTrue, Covered
<1>4. \A q \in Processes : job'[q].pc \in {"write", "sync"} => loglock' = q /\ tail' = "whole"
  BY <1>1, IInvParts
<1> QED
  BY <1>1, <1>2, <1>3, <1>4, IInvParts
  DEF IInv, FileTyped, ChainTypeOK, FileInv, KeyInv, JobsAreTrue

(* The steps on the key file alone.                                        *)
LEMMA KeysAlone == ASSUME IInv, [Next]_vars, UNCHANGED logVars PROVE IInv'
<1>1. KeyInv' /\ keyfile.keys \subseteq keyfile'.keys /\ retired \subseteq retired'
  BY IInvParts, StepsMoveKeys
<1>2. FileInv' /\ UNCHANGED <<tail, loglock, job, lines, appended, edited, versions>>
  BY <1>1, IInvParts, FileStays DEF logVars
<1>3. \A q \in Processes : (Ready(job[q]) /\ ReadTrue(job[q]) /\ Covered(job[q]))'
  <2> SUFFICES ASSUME NEW q \in Processes
               PROVE  (Ready(job[q]) /\ ReadTrue(job[q]) /\ Covered(job[q]))'
    OBVIOUS
  <2>1. Ready(job[q]) /\ ReadTrue(job[q]) /\ Covered(job[q])
    BY IInvParts
  <2> QED
    BY <1>1, <1>2, <2>1 DEF Ready, ReadTrue, Covered, Intact, Linked, HeadHash
<1>4. \A q \in Processes : job'[q].pc \in {"write", "sync"} => loglock' = q /\ tail' = "whole"
  BY <1>2, IInvParts
<1> QED
  BY <1>1, <1>2, <1>3, <1>4, IInvParts
  DEF IInv, FileTyped, ChainTypeOK, FileInv, KeyInv, JobsAreTrue

-----------------------------------------------------------------------------
(* The invariant.                                                          *)

LEMMA IInvInit == Init => IInv
<1> SUFFICES ASSUME Init PROVE IInv
  OBVIOUS
<1>1. KeyInv
  BY KeyInit0 DEF Init
<1>2. /\ LegacyLine \in Lines /\ LegacyLine.prev = ZERO /\ LegacyLine.sound
      /\ LegacyLine.key = Unkeyed /\ LegacyLine.hash = LegacyHash
  BY Limits DEF LegacyLine, Lines
<1> HIDE DEF LegacyLine
<1>3. /\ lines \in Seq(Lines) /\ Len(lines) <= 1
      /\ \A i \in 1 .. Len(lines) : i = 1 /\ lines[i] = LegacyLine
  <2>1. CASE lines = <<>>
    BY <2>1, EmptySeq
  <2>2. CASE lines = <<LegacyLine>>
    BY <1>2, <2>2
  <2> QED
    BY <2>1, <2>2 DEF Init
<1>4. Honest
  BY <1>2, <1>3 DEF Honest, Linked
<1>5. Sealed
  BY <1>2, <1>3 DEF Sealed
<1>6. FileTyped
  <2>1. /\ tail \in Tails /\ loglock = None /\ job = [p \in Processes |-> NoJob]
        /\ appended = 0 /\ edited = FALSE /\ versions = {HashesOf(lines)}
    BY DEF Init, Tails
  <2>2. versions \subseteq Seq(Hashes)
    BY <1>3, <2>1, HashesOfLines
  <2>3. job \in [Processes -> Jobs] /\ \A p \in Processes : job[p].pc = "idle"
    BY <2>1, NoJobTyped
  <2> QED
    <3>1. appended \in 0 .. MaxLines /\ Len(lines) <= appended + 1
      BY <1>3, <2>1, Limits
    <3>2. /\ tail \in Tails /\ edited \in BOOLEAN
          /\ loglock \in Processes \cup {None}
      BY <2>1
    <3>3. \A p \in Processes : job[p].pc \in {"write", "sync"} => loglock = p /\ tail = "whole"
      BY <2>3
    <3> QED
      BY <1>1, <1>3, <2>2, <2>3, <3>1, <3>2, <3>3 DEF FileTyped, ChainTypeOK, KeyInv
<1>7. JobsAreTrue
  BY NoJobTyped DEF Init, JobsAreTrue, Ready, ReadTrue, Covered
<1> QED
  BY <1>1, <1>4, <1>5, <1>6, <1>7 DEF IInv

LEMMA IInvNext == IInv /\ [Next]_vars => IInv'
<1> SUFFICES ASSUME IInv, [Next]_vars PROVE IInv'
  OBVIOUS
<1>1. ASSUME NEW p \in Processes, Next, AppendReturn(p) PROVE IInv'
  BY <1>1, IInvParts, JobEnds DEF AppendReturn, FileSame
<1>2. ASSUME NEW p \in Processes, Next, Answered(p) PROVE IInv'
  BY <1>2, IInvParts, JobEnds DEF Answered, FileSame
<1>3. ASSUME NEW p \in Processes, Next, Fail(p) PROVE IInv'
  <2>1. tail' \in Tails /\ (tail' = tail \/ job[p].pc \in {"write", "sync"})
    BY <1>3, IInvParts DEF Fail, LeftBy, Tails
  <2> QED
    BY <1>3, <2>1, IInvParts, JobEnds DEF Fail, FileSame
<1>4. ASSUME NEW p \in Processes, Next, RotateCall(p) \/ RotateReturn(p) \/ KeyStep(p) PROVE IInv'
  BY <1>4, KeysAlone DEF RotateCall, RotateReturn, KeyStep
<1>5. CASE UNCHANGED vars
  BY <1>5, KeysAlone DEF vars
<1> QED
  BY <1>1, <1>2, <1>3, <1>4, <1>5, AppendCallKeeps, KeyAnswerKeeps, OpenLogKeeps, WriteLineKeeps,
     VerifyCallKeeps, VerifyLineKeeps, VerifyUnavailableKeeps, VerifyEndKeeps, ReadHeadKeeps, EditStep DEF Next

LEMMA Invariance == Spec => []IInv
<1>1. Init => IInv
  BY IInvInit
<1>2. IInv /\ [Next]_vars => IInv'
  BY IInvNext
<1> QED
  BY <1>1, <1>2, PTL DEF Spec

-----------------------------------------------------------------------------
(* The theorems.                                                           *)

(* The state is always well typed; whoever writes to the audit file holds  *)
(* its lock, and nobody writes behind an incomplete line.                  *)
THEOREM TypeCorrect == Spec => []ChainTypeOK
<1>1. IInv => ChainTypeOK
  BY DEF IInv, FileTyped
<1> QED
  BY <1>1, Invariance, PTL

(* A file that nobody edited verifies: every line links to the one before  *)
(* it, and its key is in the key file, for any number of processes that    *)
(* append, rotate, fail and die, and any number of lines.                  *)
THEOREM HonestFilesVerify == Spec => []LinesVerify
<1>1. IInv => LinesVerify
  <2> SUFFICES ASSUME IInv, ~ edited, NEW i \in DOMAIN lines
               PROVE  /\ lines[i].prev = IF i = 1 THEN ZERO ELSE lines[i - 1].hash
                      /\ lines[i].key = Unkeyed \/ Resolves(lines[i].key)
    BY DEF LinesVerify
  <2>1. i \in 1 .. Len(lines)
    BY IInvParts, LenProperties DEF FileInv
  <2> QED
    BY <2>1 DEF IInv, Honest, Linked, Resolves
<1> QED
  BY <1>1, Invariance, PTL

(* verify_chain is right whatever was done to the file, once, by someone   *)
(* without the keys: what it accepts is, up to its last keyed line, what   *)
(* the file was when that line had been appended.  An honest file is never *)
(* called broken: it is refused only if it is missing, it or the key store *)
(* cannot be read, for a line half written or, if that was asked for, for  *)
(* a line without a key.                                                   *)
THEOREM VerdictsHold == Spec => []VerdictsAreRight
<1>1. IInv => VerdictsAreRight
  <2> SUFFICES ASSUME IInv, NEW p \in Processes, job[p].pc = "verdict"
               PROVE  /\ job[p].error = "none" /\ job[p].keyed > 0 =>
                           \E v \in versions : SubSeq(job[p].read, 1, job[p].keyed) = v
                      /\ ~ edited => job[p].error \in
                           {"none", "tail", "missing", "unavailable"} \cup (IF job[p].strict THEN {"unkeyed"} ELSE {})
    BY DEF VerdictsAreRight
  <2>1. ReadTrue(job[p]) /\ job[p] \in Jobs /\ FileInv
    BY IInvParts
  <2> DEFINE k == job[p].keyed
  <2>2. ASSUME k > 0 PROVE \E v \in versions : SubSeq(job[p].read, 1, k) = v
    <3>1. /\ job[p].read \in Seq(Hashes) /\ Len(job[p].read) \in Nat /\ k \in Nat
          /\ Len(lines) \in Nat
      BY <2>1, LenProperties DEF Jobs, FileInv
    <3>2. /\ k \in 1 .. Len(lines) /\ k <= Len(job[p].read)
          /\ \A i \in 1 .. k : i \in 1 .. Len(job[p].read)
      BY <2>1, <2>2, <3>1 DEF ReadTrue
    <3>3. lines[k].key # Unkeyed /\ Intact(k)
      BY <2>1, <2>2, <3>2 DEF ReadTrue, Intact
    <3>4. PICK v \in versions : Len(v) = k /\ \A i \in 1 .. k : v[i] = lines[i].hash
      BY <2>1, <3>2, <3>3 DEF FileInv, Sealed, OnceWas
    <3>5. v \in Seq(Hashes)
      BY <2>1 DEF FileInv
    <3>6. \A i \in 1 .. k : v[i] = job[p].read[i]
      BY <2>1, <3>2, <3>4 DEF ReadTrue
    <3>7. \A i \in 1 .. k : job[p].read[i] \in Hashes
      BY <3>1, <3>2, ElementOfSeq
    <3> HIDE DEF k
    <3>8. /\ SubSeq(job[p].read, 1, k) \in Seq(Hashes)
          /\ Len(SubSeq(job[p].read, 1, k)) = IF 1 <= k THEN k - 1 + 1 ELSE 0
          /\ \A i \in 1 .. k - 1 + 1 : SubSeq(job[p].read, 1, k)[i] = job[p].read[1 + i - 1]
      BY <3>1, <3>7, SubSeqProperties
    <3>9. /\ Len(SubSeq(job[p].read, 1, k)) = k
          /\ \A i \in 1 .. k : SubSeq(job[p].read, 1, k)[i] = job[p].read[i]
      BY <3>1, <3>2, <3>8
    <3>10. SubSeq(job[p].read, 1, k) = v
      BY <3>4, <3>5, <3>6, <3>8, <3>9, SeqEqual
    <3> QED
      BY <3>10
  <2> QED
    BY <2>1, <2>2 DEF ReadTrue
<1> QED
  BY <1>1, Invariance, PTL

(* While nobody edits the file, a checkpoint's head is at or after the     *)
(* last line that was verified, so it never signs a count beyond its head. *)
THEOREM CheckpointsReach == Spec => []CheckpointsCover
<1>1. IInv => CheckpointsCover
  <2> SUFFICES ASSUME IInv PROVE CheckpointsCover
    OBVIOUS
  <2>1. DOMAIN lines = 1 .. Len(lines)
    BY IInvParts, LenProperties DEF FileInv
  <2> QED
    BY <2>1, IInvParts DEF CheckpointsCover, Covered
<1> QED
  BY <1>1, Invariance, PTL

(* An append that was called after a rotation had returned signs with none *)
(* of the keys that it retired, through any number of further rotations.   *)
THEOREM NewRecordsUseNewKeys == Spec => []RetiredKeysStayRetired
<1>1. IInv => RetiredKeysStayRetired
  BY IInvParts DEF RetiredKeysStayRetired, Ready
<1> QED
  BY <1>1, Invariance, PTL
=============================================================================
