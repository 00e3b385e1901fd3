------------------------ MODULE ModelDownloadProofs ------------------------
(***************************************************************************)
(* What holds of a download for any number of files and chunks, any budget *)
(* and any number of sessions.                                             *)
(***************************************************************************)
EXTENDS ModelDownload, SequenceTheorems,
        FiniteSetTheorems, TLAPS

-----------------------------------------------------------------------------
(* The operators of the model.                                             *)

\* The valid prefix is a prefix of the chunks and of the part file.
LEMMA PrefixType ==
  ASSUME NEW S, NEW T, NEW p \in Seq(S), NEW chunks \in Seq(T)
  PROVE  /\ ValidPrefix(p, chunks) \in 0..Len(chunks)
         /\ ValidPrefix(p, chunks) <= Len(p)
<1> DEFINE Valids == {i \in DOMAIN chunks : \A j \in 1..i : Holds(p, chunks, j)}
<1>1. Len(p) \in Nat /\ Len(chunks) \in Nat /\ DOMAIN chunks = 1..Len(chunks)
  BY LenProperties
<1>2. Valids \subseteq 1..Len(chunks) /\ Valids \subseteq 1..Len(p)
  BY <1>1 DEF Holds
<1>3. \A n \in Nat : IsFiniteSet(1..n) /\ Cardinality(1..n) = n
  <2> TAKE n \in Nat
  <2>1. 1 \in Int /\ n \in Int
    OBVIOUS
  <2>2. IsFiniteSet(1..n) /\ Cardinality(1..n) = IF 1 > n THEN 0 ELSE n-1+1
    BY <2>1, FS_Interval, Zenon
  <2>3. QED
    BY <2>2
<1>4. /\ IsFiniteSet(Valids)
      /\ Cardinality(Valids) <= Len(chunks) /\ Cardinality(Valids) <= Len(p)
  <2>1. Valids \in SUBSET (1..Len(chunks)) /\ Valids \in SUBSET (1..Len(p))
    BY <1>2
  <2>2. IsFiniteSet(Valids) /\ Cardinality(Valids) <= Cardinality(1..Len(p))
    BY <2>1, <1>1, <1>3, FS_Subset, Zenon
  <2>3. Cardinality(Valids) <= Cardinality(1..Len(chunks))
    BY <2>1, <1>1, <1>3, FS_Subset, Zenon
  <2>4. QED
    BY <2>2, <2>3, <1>1, <1>3
<1>5. Cardinality(Valids) \in Nat
  BY <1>4, FS_CardinalityType
<1>6. QED
  BY <1>1, <1>4, <1>5 DEF ValidPrefix

\* Cutting a sequence leaves a sequence of the length it is cut to.
LEMMA CutType ==
  ASSUME NEW S, NEW s \in Seq(S), NEW k \in 0..Len(s)
  PROVE  SubSeq(s, 1, k) \in Seq(S) /\ Len(SubSeq(s, 1, k)) = k
<1>1. Len(s) \in Nat /\ \A i \in 1..k : s[i] \in S
  BY LenProperties, ElementOfSeq
<1>2. QED
  BY <1>1, SubSeqProperties

\* A part file stays one when a chunk is written, and does not get shorter.
LEMMA WrittenType ==
  ASSUME NEW p \in Stored, NEW k \in Nat, NEW c \in Content
  PROVE  /\ Written(p, k, c) \in Seq(Content)
         /\ Len(Written(p, k, c)) > k
         /\ p # Absent => Len(Written(p, k, c)) >= Len(p)
<1> DEFINE old == IF p = Absent THEN <<>> ELSE p
           n == IF Len(old) > k THEN Len(old) ELSE k + 1
<1>1. old \in Seq(Content)
  BY EmptySeq DEF Stored
<1>2. n \in Nat /\ n > k /\ n >= Len(old)
  BY <1>1, LenProperties
<1>3. \A i \in 1..n : (IF i = k + 1 THEN c
                       ELSE IF i <= Len(old) THEN old[i] ELSE "rot") \in Content
  BY <1>1, <1>2, ElementOfSeq, LenProperties DEF Content
<1>4. Written(p, k, c) \in [1..n -> Content]
  BY <1>3 DEF Written
<1>5. Written(p, k, c) \in Seq(Content)
  BY <1>4, <1>2, SeqDef
<1>6. Len(Written(p, k, c)) = n
  BY <1>4, <1>5, <1>2, LenProperties
<1>7. QED
  BY <1>5, <1>6, <1>2

\* A part file is not taken for none.
LEMMA NoPartIsAbsent ==
  ASSUME NEW p \in Seq(Content)
  PROVE  p # Absent
<1> SUFFICES ASSUME p = Absent PROVE FALSE
  OBVIOUS
<1>1. Len(p) = 1 /\ p[1] = "absent"
  BY DEF Absent
<1>2. 1 \in 1..Len(p)
  BY <1>1
<1>3. p[1] \in Content
  BY <1>2, ElementOfSeq
<1>4. QED
  BY <1>1, <1>3 DEF Content

\* The whole file is a sequence of good chunks.
LEMMA GoodType ==
  ASSUME NEW f \in Files
  PROVE  Good(f) \in Seq(Content) /\ Len(Good(f)) = Size[f] /\ Good(f) # Absent
<1>1. Size[f] \in Nat
  BY DownloadAssumption
<1>2. Good(f) \in [1..Size[f] -> Content]
  BY DEF Good, Content
<1>3. Good(f) \in Seq(Content)
  BY <1>1, <1>2, SeqDef
<1>4. Len(Good(f)) = Size[f]
  BY <1>1, <1>2, <1>3, LenProperties
<1>5. Good(f) # Absent
  BY <1>1, <1>4 DEF Good, Absent
<1>6. QED
  BY <1>3, <1>4, <1>5
-----------------------------------------------------------------------------
(* Types.                                                                  *)

Flags == /\ logged \in BOOLEAN /\ deep \in BOOLEAN /\ changed \in BOOLEAN
         /\ cut \in BOOLEAN /\ hurt \in BOOLEAN

\* With what bounds the counters: a chunk is only fetched within the budget,
\* and a file only worked on inside the manifest.
Counts ==
  /\ pc \in Steps /\ mode \in {"transfer", "verify"}
  /\ at \in 1..(NFiles + 1) /\ got \in {"good", "bad"}
  /\ spent \in 0..Budget /\ tries \in 0..Retries /\ faults \in 0..MaxFaults
  /\ status \in {"none", "complete", "checkpointed", "verified", "failed"}
  /\ pc \in {"fetch", "checkpoint"} => spent < Budget
  /\ pc \in {"fetch", "checkpoint", "finalize", "published", "failing"}
       => at <= NFiles

Data ==
  /\ log \in [Files -> FileState] /\ mem \in [Files -> FileState]
  /\ part \in [Files -> Stored] /\ final \in [Files -> Stored]

\* The flags stay flags through every step.
LEMMA FlagsStep == Flags /\ [Next]_vars => Flags'
<1> SUFFICES ASSUME Flags, [Next]_vars PROVE Flags'
  OBVIOUS
<1> USE DEF Flags
<1>1. ASSUME NEW m \in {"transfer", "verify"}, NEW c \in BOOLEAN, Start(m, c) PROVE Flags'
  BY <1>1, Zenon DEF Start, DeepOf, vars, disk, session
<1>t. CASE TakeBack
  BY <1>t, Zenon DEF TakeBack, vars, disk, session
<1>2. CASE RecoverFile
  BY <1>2, Zenon DEF RecoverFile, RecoverPartial, End, vars, disk, session
<1>3. CASE Recovered
  BY <1>3, Zenon DEF Recovered, vars, disk, session
<1>4. CASE Saved
  BY <1>4, Zenon DEF Saved, End, vars, disk, session
<1>5. CASE Loop
  BY <1>5, Zenon DEF Loop, Exhausted, End, vars, disk, session
<1>6. ASSUME NEW c \in {"good", "bad"}, FetchChunk(c) PROVE Flags'
  BY <1>6, Zenon DEF FetchChunk, Fault, vars, disk, session
<1>7. CASE FetchFails
  BY <1>7, Zenon DEF FetchFails, Fault, End, vars, disk, session
<1>8. CASE Refused
  BY <1>8, Zenon DEF Refused, Fault, End, vars, disk, session
<1>9. CASE Checkpoint
  BY <1>9, Zenon DEF Checkpoint, vars, disk, session
<1>10. CASE Finalize
  BY <1>10, Zenon DEF Finalize, vars, disk, session
<1>11. CASE CheckpointFile
  BY <1>11, Zenon DEF CheckpointFile, End, vars, disk, session
<1>12. CASE Crash
  BY <1>12, Zenon DEF Crash, Fault, End, vars, disk, session
<1>13. CASE Rot
  BY <1>13, Zenon DEF Rot, Fault, vars, disk, session
<1>14. CASE UNCHANGED vars
  BY <1>14, Zenon DEF vars, disk, session
<1>15. QED
  BY <1>1, <1>t, <1>2, <1>3, <1>4, <1>5, <1>6, <1>7, <1>8, <1>9, <1>10, <1>11,
     <1>12, <1>13, <1>14 DEF Next, Run

\* What recovering a file does to the counters.
LEMMA RecoverFileCounts ==
  RecoverFile => /\ pc = "recover" /\ at <= NFiles
                 /\ at' = at + 1 \/ at' = at
                 /\ (pc' = pc /\ status' = status) \/ End("failed")
                 /\ UNCHANGED <<log, logged, final, session, got, spent, tries, hurt,
                                faults>>
BY Zenon DEF RecoverFile

\* The counters stay within their bounds through every step.
LEMMA CountsStep == Counts /\ [Next]_vars => Counts'
<1> SUFFICES ASSUME Counts, [Next]_vars PROVE Counts'
  OBVIOUS
<1> USE DownloadAssumption DEF Counts, Steps
<1>1. ASSUME NEW m \in {"transfer", "verify"}, NEW c \in BOOLEAN, Start(m, c)
      PROVE  Counts'
  BY <1>1 DEF Start, DeepOf, vars, disk, session
<1>t. CASE TakeBack
  BY <1>t DEF TakeBack, session
<1>2. CASE RecoverFile
  BY <1>2, RecoverFileCounts DEF End, session
<1>3. CASE Recovered
  BY <1>3 DEF Recovered, Kept, vars, disk, session
<1>4. CASE Saved
  BY <1>4 DEF Saved, End, vars, disk, session
<1>5. CASE Loop
  BY <1>5 DEF Loop, Exhausted, End, vars, disk, session
<1>6. ASSUME NEW c \in {"good", "bad"}, FetchChunk(c)
      PROVE  Counts'
  BY <1>6 DEF FetchChunk, Fault, vars, disk, session
<1>7. CASE FetchFails
  BY <1>7 DEF FetchFails, Fault, End, vars, disk, session
<1>8. CASE Refused
  BY <1>8 DEF Refused, Fault, End, vars, disk, session
<1>9. CASE Checkpoint
  BY <1>9 DEF Checkpoint, Kept, vars, disk, session
<1>10. CASE Finalize
  BY <1>10 DEF Finalize, vars, disk, session
<1>11. CASE CheckpointFile
  BY <1>11 DEF CheckpointFile, Kept, End, vars, disk, session
<1>12. CASE Crash
  BY <1>12 DEF Crash, Fault, End, vars, disk, session
<1>13. CASE Rot
  BY <1>13 DEF Rot, Fault, vars, disk, session
<1>14. CASE UNCHANGED vars
  BY <1>14 DEF vars, disk, session
<1>15. QED
  BY <1>1, <1>t, <1>2, <1>3, <1>4, <1>5, <1>6, <1>7, <1>8, <1>9, <1>10, <1>11,
     <1>12, <1>13, <1>14 DEF Next, Run

\* What recovering a part file leaves: chunks that were there before, and a part
\* that is not shorter than they are; and the session saves what it changed.
LEMMA RecoverPartialData ==
  ASSUME Data, Flags, NEW f \in Files, ~ TooShort(part[f], mem[f].chunks),
         RecoverPartial(f)
  PROVE  \E kept \in Seq({"good", "bad"}), q \in Stored :
           /\ part' = [part EXCEPT ![f] = q]
           /\ mem' = [mem EXCEPT ![f].chunks = kept]
           /\ Len(kept) <= Len(mem[f].chunks)
           /\ ~ TooShort(q, kept)
           /\ ~ changed' => ~ changed /\ mem' = mem
           /\ ~ cut' => ~ cut /\ (part[f] = Absent \/ kept = mem[f].chunks)
           /\ q = Absent <=> part[f] = Absent
<1> DEFINE p == part[f]
           chunks == mem[f].chunks
           k == Repairs(p, chunks)
           kept == IF p = Absent THEN <<>>
                   ELSE IF Tidy(p, chunks) THEN chunks ELSE SubSeq(chunks, 1, k)
           q == IF p = Absent \/ Tidy(p, chunks) THEN p ELSE SubSeq(p, 1, k)
<1>1. /\ mem[f] \in FileState /\ chunks \in Seq({"good", "bad"})
      /\ Len(chunks) \in Nat /\ p \in Stored
  BY LenProperties DEF Data, FileState
<1>2. /\ part' = [part EXCEPT ![f] = q]
      /\ mem' = [mem EXCEPT ![f].chunks = kept]
      /\ changed' = (changed \/ kept # chunks \/ part' # part)
      /\ cut' = (cut \/ (p # Absent /\ kept # chunks))
  BY Zenon DEF RecoverPartial
<1>3. /\ kept \in Seq({"good", "bad"}) /\ q \in Stored
      /\ Len(kept) <= Len(chunks) /\ ~ TooShort(q, kept)
      /\ q = Absent <=> p = Absent
  <2>1. CASE p = Absent
    BY <2>1, <1>1, EmptySeq DEF TooShort
  <2>2. CASE p # Absent /\ Tidy(p, chunks)
    BY <2>2, <1>1
  <2>3. CASE p # Absent /\ ~ Tidy(p, chunks)
    <3>1. p \in Seq(Content)
      BY <1>1, <2>3 DEF Stored
    <3>2. k \in 0..Len(chunks) /\ k <= Len(p) /\ Len(p) \in Nat
      BY <3>1, <1>1, PrefixType, LenProperties DEF Repairs
    <3>3. /\ SubSeq(chunks, 1, k) \in Seq({"good", "bad"})
          /\ Len(SubSeq(chunks, 1, k)) = k
      BY <3>2, <1>1, CutType
    <3>4. /\ SubSeq(p, 1, k) \in Seq(Content) /\ Len(SubSeq(p, 1, k)) = k
          /\ SubSeq(p, 1, k) # Absent
      <4>1. k \in 0..Len(p)
        BY <3>2
      <4>2. SubSeq(p, 1, k) \in Seq(Content) /\ Len(SubSeq(p, 1, k)) = k
        <5> HIDE DEF k, p
        <5>1. QED
          BY <3>1, <4>1, CutType
      <4>3. QED
        BY <4>2, NoPartIsAbsent
    <3>5. kept = SubSeq(chunks, 1, k) /\ q = SubSeq(p, 1, k)
      BY <2>3
    <3> HIDE DEF k, kept, q, chunks, p
    <3>6. QED
      BY <2>3, <3>2, <3>3, <3>4, <3>5 DEF TooShort, Stored
  <2>4. QED
    BY <2>1, <2>2, <2>3
<1>4. ASSUME ~ changed' PROVE ~ changed /\ mem' = mem
  <2>1. ~ changed /\ kept = chunks
    BY <1>2, <1>4
  <2>2. QED
    BY <2>1, <1>1, <1>2 DEF Data, FileState
<1>5. ~ cut' => ~ cut /\ (p = Absent \/ kept = chunks)
  BY <1>2
<1> HIDE DEF k, kept, q
<1>6. QED
  BY <1>2, <1>3, <1>4, <1>5

\* What a failed verification leaves of a file.
LEMMA FinalizeData ==
  ASSUME Data, at \in Files, Finalize, ~ pc' = "published"
  PROVE  \E kept \in Seq({"good", "bad"}), q \in Seq(Content) :
           /\ part' = [part EXCEPT ![at] = q]
           /\ mem' = [mem EXCEPT ![at].chunks = kept]
           /\ Len(kept) <= Len(mem[at].chunks) /\ Len(kept) = Len(q)
           /\ pc' = "failing" /\ UNCHANGED <<final, log>>
<1> DEFINE p == IF part[at] = Absent THEN <<>> ELSE part[at]
           chunks == mem[at].chunks
           k == ValidPrefix(p, chunks)
           kept == IF k < Len(chunks) THEN k ELSE 0
<1>1. /\ chunks \in Seq({"good", "bad"}) /\ p \in Seq(Content)
      /\ Len(chunks) \in Nat /\ Len(p) \in Nat
  <2>1. chunks \in Seq({"good", "bad"}) /\ p \in Seq(Content)
    BY EmptySeq DEF Data, FileState, Stored
  <2>2. QED
    BY <2>1, LenProperties
<1>2. k \in 0..Len(chunks) /\ k <= Len(p)
  BY <1>1, PrefixType
<1>3. kept \in 0..Len(chunks) /\ kept \in 0..Len(p)
  BY <1>1, <1>2
<1>4. /\ part' = [part EXCEPT ![at] = SubSeq(p, 1, kept)]
      /\ mem' = [mem EXCEPT ![at].chunks = SubSeq(chunks, 1, kept)]
      /\ pc' = "failing" /\ UNCHANGED <<final, log>>
  BY Zenon DEF Finalize, FirstChunks
<1>5. /\ SubSeq(chunks, 1, kept) \in Seq({"good", "bad"})
      /\ Len(SubSeq(chunks, 1, kept)) = kept
      /\ SubSeq(p, 1, kept) \in Seq(Content)
      /\ Len(SubSeq(p, 1, kept)) = kept
  BY <1>1, <1>3, CutType
<1> DEFINE left == SubSeq(chunks, 1, kept)
           rest == SubSeq(p, 1, kept)
<1>6. /\ left \in Seq({"good", "bad"}) /\ rest \in Seq(Content)
      /\ Len(left) <= Len(mem[at].chunks) /\ Len(left) = Len(rest)
  BY <1>1, <1>3, <1>5
<1> HIDE DEF left, rest
<1>7. /\ part' = [part EXCEPT ![at] = rest]
      /\ mem' = [mem EXCEPT ![at].chunks = left]
  BY <1>4 DEF left, rest
<1>8. QED
  BY <1>4, <1>6, <1>7

\* The ways a file is recovered: recognised as published, left alone, not to be
\* recovered, or its part file looked at.
LEMMA RecoverFileData ==
  RecoverFile => \/ /\ RenameCrashed(at) /\ changed' = TRUE /\ at' = at + 1
                    /\ mem' = [mem EXCEPT ![at].complete = TRUE]
                    /\ UNCHANGED <<part, final, pc, cut>>
                 \/ /\ mem[at].complete /\ Valid(at, deep) /\ at' = at + 1
                    /\ UNCHANGED <<mem, changed, part, final, pc, cut>>
                 \/ /\ ~ mem[at].complete /\ TooShort(part[at], mem[at].chunks)
                    /\ End("failed") /\ UNCHANGED <<mem, changed, part, final, cut>>
                 \/ /\ ~ mem[at].complete /\ ~ RenameCrashed(at)
                    /\ ~ TooShort(part[at], mem[at].chunks) /\ RecoverPartial(at)
                    /\ at' = at + 1 /\ UNCHANGED <<final, pc>>
BY Zenon DEF RecoverFile

\* Every file keeps its shape through every step.
LEMMA DataStep == Flags /\ Counts /\ Data /\ [Next]_vars => Data'
<1> SUFFICES ASSUME Flags, Counts, Data, [Next]_vars PROVE Data'
  OBVIOUS
<1>a. NFiles \in Nat /\ (at <= NFiles => at \in Files)
  BY DownloadAssumption DEF Counts, Files
<1>b. \A f \in Files : /\ mem[f] \in FileState /\ log[f] \in FileState
                       /\ mem[f].chunks \in Seq({"good", "bad"})
                       /\ Len(mem[f].chunks) \in Nat
  BY LenProperties DEF Data, FileState
<1>c. Absent \in Stored /\ <<>> \in Seq({"good", "bad"})
  BY EmptySeq DEF Stored
<1>1. ASSUME NEW m \in {"transfer", "verify"}, NEW c \in BOOLEAN, Start(m, c)
      PROVE  Data'
  BY <1>1, <1>c DEF Start, Manifest, NoChunks, FileState, Data, disk
<1>t. CASE TakeBack
  <2>1. at \in Files
    BY <1>t, <1>a DEF TakeBack
  <2>2. QED
    BY <1>t, <2>1, <1>c DEF TakeBack, Data, FileState
<1>2. CASE RecoverFile
  <2>1. at \in Files /\ log' = log /\ final' = final
    BY <1>2, <1>a, RecoverFileCounts
  <2>2. CASE mem' = [mem EXCEPT ![at].complete = TRUE] /\ part' = part
    BY <2>1, <2>2 DEF Data, FileState
  <2>3. CASE UNCHANGED <<mem, part>>
    BY <2>1, <2>3 DEF Data
  <2>4. CASE ~ TooShort(part[at], mem[at].chunks) /\ RecoverPartial(at)
    <3>1. PICK kept \in Seq({"good", "bad"}), q \in Stored :
             /\ part' = [part EXCEPT ![at] = q]
             /\ mem' = [mem EXCEPT ![at].chunks = kept]
      BY <2>1, <2>4, RecoverPartialData
    <3>2. QED
      BY <2>1, <3>1 DEF Data, FileState
  <2>5. QED
    BY <1>2, <2>1, <2>2, <2>3, <2>4, RecoverFileData
<1>3. CASE Recovered
  BY <1>3 DEF Recovered, Kept, disk, Data
<1>4. CASE Saved
  BY <1>4 DEF Saved, disk, Data
<1>5. CASE Loop
  BY <1>5 DEF Loop, disk, Data
<1>6. ASSUME NEW c \in {"good", "bad"}, FetchChunk(c)
      PROVE  Data'
  <2>1. at \in Files
    BY <1>6, <1>a DEF FetchChunk, Counts
  <2>2. Written(part[at], Len(mem[at].chunks), c) \in Stored
    BY <2>1, <1>b, WrittenType DEF Data, Stored, Content
  <2>3. QED
    BY <1>6, <2>1, <2>2 DEF FetchChunk, session, Data
<1>7. CASE FetchFails
  <2>1. at \in Files
    BY <1>7, <1>a DEF FetchFails, Counts
  <2>2. Written(part[at], Len(mem[at].chunks), "rot") \in Stored
    BY <2>1, <1>b, WrittenType DEF Data, Stored, Content
  <2>3. UNCHANGED <<log, final, mem>>
    BY <1>7 DEF FetchFails, session
  <2>4. \/ part' = part
        \/ part' = [part EXCEPT ![at] = Written(part[at], Len(mem[at].chunks), "rot")]
    BY <1>7, Zenon DEF FetchFails
  <2>5. QED
    BY <2>1, <2>2, <2>3, <2>4 DEF Data
<1>8. CASE Refused
  BY <1>8 DEF Refused, disk, Data
<1>9. CASE Checkpoint
  <2>1. at \in Files /\ got \in {"good", "bad"}
    BY <1>9, <1>a DEF Checkpoint, Counts
  <2>2. Append(mem[at].chunks, got) \in Seq({"good", "bad"})
    BY <2>1, <1>b
  <2>3. mem' \in [Files -> FileState]
    BY <1>9, <2>1, <2>2 DEF Checkpoint, Data, FileState
  <2>4. QED
    BY <1>9, <2>3 DEF Checkpoint, Kept, session, Data
<1>10. CASE Finalize
  <2>1. at \in Files
    BY <1>10, <1>a DEF Finalize, Counts
  <2>2. CASE ~ pc' = "published"
    BY <2>1, <2>2, <1>10, FinalizeData DEF Data, FileState, Stored
  <2>3. CASE pc' = "published"
    <3>1. /\ final' = [final EXCEPT ![at] = IF part[at] = Absent THEN <<>>
                                             ELSE part[at]]
          /\ part' = [part EXCEPT ![at] = Absent]
          /\ mem' = [mem EXCEPT ![at].complete = TRUE]
          /\ log' = log
      BY <1>10, <2>3, Zenon DEF Finalize
    <3>2. <<>> \in Stored
      BY EmptySeq DEF Stored
    <3>3. QED
      BY <3>1, <3>2, <2>1, <1>c DEF Data, FileState
  <2>4. QED
    BY <2>2, <2>3
<1>11. CASE CheckpointFile
  BY <1>11 DEF CheckpointFile, Kept, disk, Data
<1>12. CASE Crash
  BY <1>12 DEF Crash, disk, Data
<1>13. CASE Rot
  <2>1. UNCHANGED <<log, mem>>
    BY <1>13 DEF Rot
  <2>2. ASSUME NEW f \in Files, NEW p \in Stored, p # Absent, NEW i \in DOMAIN p,
               NEW c \in {"rot", "decay"}
        PROVE  [p EXCEPT ![i] = c] \in Stored
    <3>1. p \in Seq(Content) /\ i \in 1..Len(p)
      BY <2>2, LenProperties DEF Stored
    <3>2. QED
      BY <3>1, ExceptSeq DEF Stored, Content
  <2>3. ASSUME NEW f \in Files, part[f] # Absent, NEW i \in DOMAIN part[f],
               part' = [part EXCEPT ![f][i] = "rot"], final' = final
        PROVE  Data'
    <3>1. [part[f] EXCEPT ![i] = "rot"] \in Stored
      BY <2>2, <2>3 DEF Data
    <3>2. QED
      BY <2>1, <2>3, <3>1 DEF Data
  <2>4. ASSUME NEW f \in Files, final[f] # Absent, NEW i \in DOMAIN final[f],
               final' = [final EXCEPT ![f][i] = "decay"], part' = part
        PROVE  Data'
    <3>1. [final[f] EXCEPT ![i] = "decay"] \in Stored
      BY <2>2, <2>4 DEF Data
    <3>2. QED
      BY <2>1, <2>4, <3>1 DEF Data
  <2>5. QED
    BY <1>13, <2>3, <2>4, Zenon DEF Rot
<1>14. CASE UNCHANGED vars
  BY <1>14 DEF vars, disk, Data
<1>15. QED
  BY <1>1, <1>t, <1>2, <1>3, <1>4, <1>5, <1>6, <1>7, <1>8, <1>9, <1>10, <1>11,
     <1>12, <1>13, <1>14 DEF Next, Run

Typed == Flags /\ Counts /\ Data

LEMMA TypedInit == Init => Typed
<1> SUFFICES ASSUME Init PROVE Typed
  OBVIOUS
<1>1. Flags
  BY Zenon DEF Init, Flags
<1>2. Counts
  BY DownloadAssumption DEF Init, Counts, Steps
<1>3. <<>> \in Seq({"good", "bad"})
  BY EmptySeq
<1>4. Data
  BY <1>3 DEF Init, Data, Manifest, NoChunks, FileState, Stored
<1>5. QED
  BY <1>1, <1>2, <1>4 DEF Typed

LEMMA TypedStep == Typed /\ [Next]_vars => Typed'
BY FlagsStep, CountsStep, DataStep DEF Typed

\* Every variable keeps its type, and no session takes more than its budget,
\* for any number of files, chunks, sessions and faults.
THEOREM TypeCorrect == Spec => []TypeOK
<1>1. Typed => TypeOK
  BY DEF Typed, Flags, Counts, Data, TypeOK
<1>2. QED
  BY <1>1, TypedInit, TypedStep, PTL DEF Spec

-----------------------------------------------------------------------------
(* What a session reports.                                                 *)

\* A session that is to verify has looked at every file it takes for complete, as far as
\* recovery has come; a transfer leaves no file behind that is not complete.
Claims ==
  /\ CheckedIsGood
  /\ mode = "verify" => deep
  /\ pc # "down" => status = "none"
  /\ deep /\ pc # "down" =>
       \A f \in Files : mem[f].complete /\ (pc = "recover" => f < at)
                          => final[f] = Good(f)
  /\ pc \in {"loop", "fetch", "checkpoint", "finalize", "published", "failing"}
       => \A f \in Files : f < at => mem[f].complete
  /\ pc = "published" => mem[at].complete

LEMMA ClaimsStep == Typed /\ Claims /\ [Next]_vars => Claims'
<1> SUFFICES ASSUME Typed, Claims, [Next]_vars PROVE Claims'
  OBVIOUS
<1>a. Data /\ Counts /\ (at <= NFiles => at \in Files)
  BY DownloadAssumption DEF Typed, Counts, Files
<1>b. \A f \in Files : mem[f] \in FileState /\ f \in 1..NFiles /\ f \in Nat
  BY <1>a, DownloadAssumption DEF Data, Files
<1>c. at \in Nat
  BY <1>a, DownloadAssumption DEF Counts
<1>d. \A f \in Files : Good(f)' = Good(f)
  BY DEF Good
<1>e. ASSUME status' \notin {"verified", "complete"} PROVE CheckedIsGood'
  BY <1>e DEF CheckedIsGood
<1>1. ASSUME NEW m \in {"transfer", "verify"}, NEW c \in BOOLEAN, Start(m, c)
      PROVE  Claims'
  <2>1. /\ status' = "none" /\ pc' = "recover" /\ at' = 1
        /\ mode' = m /\ deep' = (c \/ m = "verify")
    BY <1>1, Zenon DEF Start, DeepOf
  <2>2. \A f \in Files : ~ (f < at')
    BY <1>b, <2>1
  <2>3. mode' = "verify" => deep'
    BY <2>1
  <2>4. QED
    BY <2>1, <2>2, <2>3, <1>e DEF Claims
<1>t. CASE TakeBack
  <2>1. /\ at \in Files /\ pc = "recover" /\ UNCHANGED <<pc, at, mode, deep, status>>
        /\ final' = [final EXCEPT ![at] = Absent]
        /\ mem' = [mem EXCEPT ![at].complete = FALSE]
    BY <1>t, <1>a DEF TakeBack, session
  <2>2. /\ \A f \in Files \ {at} : mem'[f] = mem[f] /\ final'[f] = final[f]
        /\ ~ mem'[at].complete
    BY <1>a, <2>1 DEF Data, FileState
  <2>3. QED
    BY <2>1, <2>2, <1>d, <1>e DEF Claims
<1>2. CASE RecoverFile
  <2>1. /\ at \in Files /\ pc = "recover" /\ UNCHANGED <<mode, deep, final>>
        /\ status = "none"
    BY <1>2, <1>a, RecoverFileCounts DEF Claims, session
  <2>2. CASE pc' = "down"
    <3>1. status' = "failed"
      BY <1>2, <2>1, <2>2, RecoverFileCounts DEF End
    <3>2. QED
      BY <2>1, <2>2, <3>1, <1>e DEF Claims
  <2>3. CASE pc' # "down"
    <3>1. pc' = "recover" /\ status' = "none"
      BY <1>2, <2>1, <2>3, RecoverFileCounts DEF End
    <3>2. /\ at' = at + 1
          /\ \A f \in Files \ {at} : mem'[f] = mem[f]
          /\ deep /\ mem'[at].complete => final[at] = Good(at)
      <4>1. CASE /\ RenameCrashed(at) /\ at' = at + 1
                 /\ mem' = [mem EXCEPT ![at].complete = TRUE]
        BY <1>a, <2>1, <4>1 DEF Data, RenameCrashed, Valid
      <4>2. CASE mem[at].complete /\ Valid(at, deep) /\ at' = at + 1 /\ mem' = mem
        <5>1. deep => final[at] = Good(at)
          BY <4>2, Zenon DEF Valid
        <5>2. QED
          BY <4>2, <5>1
      <4>3. CASE /\ ~ mem[at].complete /\ ~ TooShort(part[at], mem[at].chunks)
                 /\ RecoverPartial(at) /\ at' = at + 1
        <5>1. PICK kept \in Seq({"good", "bad"}) : mem' = [mem EXCEPT ![at].chunks = kept]
          BY <1>a, <2>1, <4>3, RecoverPartialData DEF Typed
        <5>2. QED
          BY <1>a, <2>1, <4>3, <5>1 DEF Data, FileState
      <4>4. QED
        BY <1>2, <2>3, <4>1, <4>2, <4>3, RecoverFileData DEF End
    <3>3. ASSUME deep, NEW f \in Files, mem'[f].complete, f < at'
          PROVE  final'[f] = Good(f)
      <4>1. CASE f = at
        BY <2>1, <3>2, <3>3, <4>1
      <4>2. CASE f # at
        <5>1. f < at
          BY <1>b, <1>c, <3>2, <3>3, <4>2
        <5>2. QED
          BY <2>1, <3>2, <3>3, <4>2, <5>1 DEF Claims
      <4>3. QED
        BY <4>1, <4>2
    <3>4. QED
      BY <2>1, <3>1, <3>3, <1>d, <1>e DEF Claims
  <2>4. QED
    BY <2>2, <2>3
<1>3. CASE Recovered
  <2>1. /\ pc = "recover" /\ at > NFiles /\ pc' = "saving"
        /\ UNCHANGED <<final, mem, mode, deep, at, status>>
    BY <1>3 DEF Recovered, session
  <2>2. \A f \in Files : f < at
    BY <1>b, <1>c, <2>1, DownloadAssumption
  <2>3. QED
    BY <2>1, <2>2, <1>d, <1>e DEF Claims
<1>4. CASE Saved
  <2>1. pc = "saving" /\ status = "none" /\ UNCHANGED <<final, mem, mode, deep>>
    BY <1>4 DEF Saved, disk, session, Claims
  <2>2. CASE mode = "verify"
    <3>1. /\ pc' = "down"
          /\ status' = IF \A f \in Files : mem[f].complete THEN "verified" ELSE "failed"
      BY <1>4, <2>2 DEF Saved, End
    <3>2. deep /\ \A f \in Files : mem[f].complete => final[f] = Good(f)
      BY <2>1, <2>2 DEF Claims
    <3>3. CheckedIsGood'
      BY <2>1, <3>1, <3>2, <1>d DEF CheckedIsGood
    <3>4. QED
      BY <2>1, <2>2, <3>1, <3>2, <3>3 DEF Claims
  <2>3. CASE mode # "verify"
    <3>1. pc' = "loop" /\ at' = 1 /\ status' = "none"
      BY <1>4, <2>1, <2>3 DEF Saved
    <3>2. \A f \in Files : ~ (f < at')
      BY <1>b, <3>1
    <3>3. QED
      BY <2>1, <3>1, <3>2, <1>d, <1>e DEF Claims
  <2>4. QED
    BY <2>2, <2>3
<1>5. CASE Loop
  <2>1. pc = "loop" /\ status = "none" /\ UNCHANGED <<final, mem, mode, deep>>
    BY <1>5 DEF Loop, disk, session, Claims
  <2>2. CASE at > NFiles
    <3>1. pc' = "down" /\ status' = "complete"
      BY <1>5, <2>2, <1>c, DownloadAssumption DEF Loop, End
    <3>2. \A f \in Files : mem[f].complete
      BY <1>b, <1>c, <2>1, <2>2, DownloadAssumption DEF Claims
    <3>3. CheckedIsGood'
      BY <2>1, <3>1, <3>2, <1>d DEF CheckedIsGood, Claims
    <3>4. QED
      BY <2>1, <3>1, <3>3 DEF Claims
  <2>3. CASE at <= NFiles
    <3>1. \/ pc' = "down" /\ status' = "checkpointed"
          \/ /\ pc' \in {"loop", "finalize", "fetch"} /\ status' = status
             /\ at' = at \/ (at' = at + 1 /\ mem[at].complete)
      BY <1>5, <2>1, <2>3, <1>c, DownloadAssumption DEF Loop, End
    <3>2. CASE pc' = "down" /\ status' = "checkpointed"
      BY <2>1, <3>2, <1>e DEF Claims
    <3>3. CASE /\ pc' \in {"loop", "finalize", "fetch"} /\ status' = status
               /\ at' = at \/ (at' = at + 1 /\ mem[at].complete)
      <4>1. \A f \in Files : f < at' => mem[f].complete
        BY <1>b, <1>c, <2>1, <3>3 DEF Claims
      <4>2. QED
        BY <2>1, <3>3, <4>1, <1>d, <1>e DEF Claims
    <3>4. QED
      BY <3>1, <3>2, <3>3
  <2>4. QED
    BY <2>2, <2>3, <1>c, DownloadAssumption
<1>6. ASSUME NEW c \in {"good", "bad"}, FetchChunk(c)
      PROVE  Claims'
  <2>1. /\ pc = "fetch" /\ pc' = "checkpoint"
        /\ UNCHANGED <<final, mem, mode, deep, at, status>>
    BY <1>6 DEF FetchChunk, session
  <2>2. QED
    BY <2>1, <1>d, <1>e DEF Claims
<1>7. CASE FetchFails
  <2>1. /\ pc = "fetch" /\ UNCHANGED <<final, mem, mode, deep, at>>
        /\ (pc' = pc /\ status' = status) \/ (pc' = "down" /\ status' = "failed")
    BY <1>7 DEF FetchFails, End, session
  <2>2. QED
    BY <2>1, <1>d, <1>e DEF Claims
<1>8. CASE Refused
  BY <1>8, <1>e DEF Refused, End, session, Claims
<1>9. CASE Checkpoint
  <2>1. /\ at \in Files /\ pc = "checkpoint" /\ pc' = "loop"
        /\ UNCHANGED <<final, mode, deep, at, status>>
    BY <1>9, <1>a DEF Checkpoint, Counts, session
  <2>2. \A f \in Files : mem'[f].complete = mem[f].complete
    BY <1>9, <1>a, <2>1 DEF Checkpoint, Data, FileState
  <2>3. QED
    BY <2>1, <2>2, <1>d, <1>e DEF Claims
<1>10. CASE Finalize
  <2>1. /\ at \in Files /\ pc = "finalize" /\ UNCHANGED <<mode, deep, at, status>>
    BY <1>10, <1>a DEF Finalize, Counts, session
  <2>2. CASE ~ pc' = "published"
    <3>1. PICK kept \in Seq({"good", "bad"}) :
            /\ mem' = [mem EXCEPT ![at].chunks = kept] /\ pc' = "failing"
            /\ final' = final
      BY <1>10, <1>a, <2>1, <2>2, FinalizeData
    <3>2. \A f \in Files : mem'[f].complete = mem[f].complete
      BY <1>a, <2>1, <3>1 DEF Data, FileState
    <3>3. QED
      BY <2>1, <3>1, <3>2, <1>d, <1>e DEF Claims
  <2>3. CASE pc' = "published"
    <3>1. /\ final' = [final EXCEPT ![at] = Good(at)]
          /\ mem' = [mem EXCEPT ![at].complete = TRUE]
      BY <1>10, <2>3, Zenon DEF Finalize, ChecksumMatches
    <3>2. /\ \A f \in Files \ {at} : final'[f] = final[f] /\ mem'[f] = mem[f]
          /\ final'[at] = Good(at) /\ mem'[at].complete
      BY <1>a, <2>1, <3>1 DEF Data, FileState
    <3>3. \A f \in Files : f < at => mem'[f].complete
      BY <1>b, <1>c, <2>1, <3>2 DEF Claims
    <3>4. deep => \A f \in Files : mem'[f].complete => final'[f] = Good(f)
      BY <2>1, <3>2 DEF Claims
    <3>5. QED
      BY <2>1, <2>3, <3>2, <3>3, <3>4, <1>d, <1>e DEF Claims
  <2>4. QED
    BY <2>2, <2>3
<1>11. CASE CheckpointFile
  <2>1. /\ pc \in {"published", "failing"}
        /\ UNCHANGED <<final, mem, mode, deep>>
    BY <1>11 DEF CheckpointFile, session
  <2>2. CASE pc = "published"
    <3>1. pc' = "loop" /\ at' = at + 1 /\ status' = status
      BY <1>11, <2>2 DEF CheckpointFile
    <3>2. \A f \in Files : f < at' => mem[f].complete
      BY <1>b, <1>c, <2>2, <3>1 DEF Claims
    <3>3. QED
      BY <2>1, <2>2, <3>1, <3>2, <1>d, <1>e DEF Claims
  <2>3. CASE pc # "published"
    <3>1. pc' = "down" /\ status' = "failed"
      BY <1>11, <2>3 DEF CheckpointFile, End
    <3>2. QED
      BY <2>1, <3>1, <1>e DEF Claims
  <2>4. QED
    BY <2>2, <2>3
<1>12. CASE Crash
  BY <1>12, <1>e DEF Crash, End, session, Claims
<1>13. CASE Rot
  BY <1>13, <1>e DEF Rot, session, Claims
<1>14. CASE UNCHANGED vars
  <2>1. UNCHANGED <<final, mem, mode, deep, at, status, pc>>
    BY <1>14 DEF vars, disk, session
  <2>2. CheckedIsGood'
    BY <2>1, <1>d DEF Claims, CheckedIsGood
  <2>3. QED
    BY <2>1, <2>2, <1>d DEF Claims
<1>15. QED
  BY <1>1, <1>t, <1>2, <1>3, <1>4, <1>5, <1>6, <1>7, <1>8, <1>9, <1>10, <1>11,
     <1>12, <1>13, <1>14 DEF Next, Run

\* A verification, and a download that verifies, reports success only over files
\* that are what the upstream checksum covers, whatever rotted and wherever
\* earlier sessions crashed.
THEOREM CheckedAreGood == Spec => []CheckedIsGood
<1>1. Init => Claims
  BY DEF Init, Claims, CheckedIsGood
<1>2. Claims => CheckedIsGood
  BY DEF Claims
<1>3. QED
  BY <1>1, <1>2, ClaimsStep, TypedInit, TypedStep, PTL DEF Spec

-----------------------------------------------------------------------------
(* What a crash leaves can be recovered.                                   *)

\* A file has no more chunks than its size, and the next one is fetched when there
\* are fewer; the checkpoint says what the process knows, except while recovery or
\* a finished file has changed it and not yet saved; recovery has not touched the
\* chunks of the files it has not come to.
Synced ==
  /\ \A f \in Files : /\ Len(mem[f].chunks) <= Size[f]
                      /\ Len(log[f].chunks) <= Size[f]
  /\ pc \in {"fetch", "checkpoint"} => Len(mem[at].chunks) < Size[at]
  /\ pc \in {"saving", "loop", "fetch", "checkpoint", "finalize"} => log = mem
  /\ pc = "recover" /\ ~ changed => log = mem
  /\ ~ logged => log = Manifest
  /\ pc = "recover" => \A f \in Files : f >= at => mem[f].chunks = log[f].chunks

LEMMA SyncedStep == Typed /\ Synced /\ [Next]_vars => Synced'
<1> SUFFICES ASSUME Typed, Synced, [Next]_vars PROVE Synced'
  OBVIOUS
<1>a. Data /\ Counts /\ (at <= NFiles => at \in Files)
  BY DownloadAssumption DEF Typed, Counts, Files
<1>b. \A f \in Files :
        /\ Size[f] \in Nat
        /\ mem[f] \in FileState /\ log[f] \in FileState
        /\ mem[f].chunks \in Seq({"good", "bad"})
        /\ Len(mem[f].chunks) \in Nat /\ Len(log[f].chunks) \in Nat
  BY <1>a, DownloadAssumption, LenProperties DEF Data, FileState
<1>z. at \in Nat /\ \A f \in Files : f \in Nat /\ f <= NFiles
  BY <1>a, DownloadAssumption DEF Counts, Files
<1>c. ASSUME UNCHANGED <<log, logged, mem>>, pc' = "down" PROVE Synced'
  BY <1>c DEF Synced
<1>1. ASSUME NEW m \in {"transfer", "verify"}, NEW c \in BOOLEAN, Start(m, c)
      PROVE  Synced'
  <2>1. /\ pc' = "recover" /\ UNCHANGED <<log, logged>>
        /\ mem' = (IF logged THEN log ELSE Manifest) /\ changed' = ~ logged
    BY <1>1 DEF Start, disk
  <2>2. mem' = log
    BY <2>1 DEF Synced
  <2>3. QED
    BY <2>1, <2>2 DEF Synced
<1>t. CASE TakeBack
  <2>1. /\ at \in Files /\ UNCHANGED <<log, logged, pc, at>> /\ pc = "recover" /\ changed'
        /\ mem' = [mem EXCEPT ![at].complete = FALSE]
    BY <1>t, <1>a DEF TakeBack
  <2>2. \A f \in Files : mem'[f].chunks = mem[f].chunks
    BY <1>a, <2>1 DEF Data, FileState
  <2>3. QED
    BY <2>1, <2>2 DEF Synced
<1>2. CASE RecoverFile
  <2>1. at \in Files /\ UNCHANGED <<log, logged>> /\ pc = "recover"
    BY <1>2, <1>a, RecoverFileCounts
  <2>2. ASSUME mem' = [mem EXCEPT ![at].complete = TRUE], changed' = TRUE, pc' = pc,
               at' = at + 1
        PROVE  Synced'
    <3>1. \A f \in Files : mem'[f].chunks = mem[f].chunks
      BY <1>a, <2>1, <2>2 DEF Data, FileState
    <3>2. \A f \in Files : f >= at' => f >= at
      BY <1>z, <2>2
    <3>3. QED
      BY <2>1, <2>2, <3>1, <3>2 DEF Synced
  <2>3. ASSUME UNCHANGED <<mem, changed, pc>>, at' = at + 1 PROVE Synced'
    <3>1. \A f \in Files : f >= at' => f >= at
      BY <1>z, <2>3
    <3>2. QED
      BY <2>1, <2>3, <3>1 DEF Synced
  <2>4. ASSUME ~ TooShort(part[at], mem[at].chunks), RecoverPartial(at), pc' = pc,
               at' = at + 1
        PROVE  Synced'
    <3>1. PICK kept \in Seq({"good", "bad"}) :
             /\ mem' = [mem EXCEPT ![at].chunks = kept]
             /\ Len(kept) <= Len(mem[at].chunks)
             /\ ~ changed' => ~ changed /\ mem' = mem
      BY <1>a, <2>1, <2>4, RecoverPartialData DEF Typed
    <3>2. Len(kept) \in Nat
      BY LenProperties
    <3>3. /\ mem'[at].chunks = kept
          /\ \A f \in Files \ {at} : mem'[f] = mem[f]
      BY <1>a, <2>1, <3>1 DEF Data, FileState
    <3>4. \A f \in Files : Len(mem'[f].chunks) <= Size[f]
      BY <1>b, <2>1, <3>1, <3>2, <3>3 DEF Synced
    <3>5. \A f \in Files : f >= at' => f # at /\ f >= at
      BY <1>z, <2>4
    <3>6. \A f \in Files : f >= at' => mem'[f].chunks = log'[f].chunks
      BY <2>1, <3>3, <3>5 DEF Synced
    <3>7. QED
      BY <2>1, <2>4, <3>1, <3>4, <3>6 DEF Synced
  <2>5. ASSUME End("failed"), mem' = mem PROVE Synced'
    BY <2>1, <2>5, <1>c DEF End
  <2>6. QED
    BY <1>2, <2>2, <2>3, <2>4, <2>5, RecoverFileData
<1>3. CASE Recovered
  <2>1. /\ pc' = "saving" /\ log' = mem /\ UNCHANGED <<mem, at>>
        /\ logged' \/ (logged' = logged /\ log' = log)
    BY <1>3 DEF Recovered, Kept, Synced
  <2>2. QED
    BY <2>1 DEF Synced
<1>4. CASE Saved
  BY <1>4 DEF Saved, End, disk, Synced
<1>5. CASE Loop
  <2>1. /\ pc = "loop" /\ UNCHANGED <<log, logged, mem>>
        /\ pc' \in {"down", "loop", "finalize", "fetch"}
        /\ pc' = "fetch" => at' = at /\ Len(mem[at].chunks) < Size[at]
    BY <1>5 DEF Loop, End, disk
  <2>2. QED
    BY <2>1 DEF Synced
<1>6. ASSUME NEW c \in {"good", "bad"}, FetchChunk(c)
      PROVE  Synced'
  BY <1>6 DEF FetchChunk, Synced
<1>7. CASE FetchFails
  <2>1. /\ pc = "fetch" /\ UNCHANGED <<log, logged, mem, at>> /\ pc' \in {"fetch", "down"}
    BY <1>7 DEF FetchFails, End
  <2>2. QED
    BY <2>1 DEF Synced
<1>8. CASE Refused
  BY <1>8, <1>c DEF Refused, End, disk
<1>9. CASE Checkpoint
  <2>1. /\ at \in Files /\ pc = "checkpoint" /\ got \in {"good", "bad"}
        /\ pc' = "loop" /\ log' = mem' /\ logged'
        /\ mem' = [mem EXCEPT ![at].chunks = Append(mem[at].chunks, got)]
    BY <1>9, <1>a DEF Checkpoint, Kept, Counts
  <2>2. Len(Append(mem[at].chunks, got)) = Len(mem[at].chunks) + 1
    BY <2>1, <1>b
  <2>3. /\ Len(mem'[at].chunks) = Len(mem[at].chunks) + 1
        /\ \A f \in Files \ {at} : mem'[f] = mem[f]
    BY <1>a, <1>b, <2>1, <2>2 DEF Data, FileState
  <2>4. \A f \in Files : Len(mem'[f].chunks) <= Size[f]
    BY <1>b, <2>1, <2>3 DEF Synced
  <2>5. QED
    BY <2>1, <2>4 DEF Synced
<1>10. CASE Finalize
  <2>1. at \in Files /\ pc = "finalize" /\ UNCHANGED <<log, logged>>
    BY <1>10, <1>a DEF Finalize, Counts
  <2>2. CASE ~ pc' = "published"
    <3>1. PICK kept \in Seq({"good", "bad"}) :
             /\ mem' = [mem EXCEPT ![at].chunks = kept]
             /\ Len(kept) <= Len(mem[at].chunks) /\ pc' = "failing"
      BY <1>10, <1>a, <2>1, <2>2, FinalizeData
    <3>2. Len(kept) \in Nat
      BY LenProperties
    <3>3. /\ mem'[at].chunks = kept
          /\ \A f \in Files \ {at} : mem'[f] = mem[f]
      BY <1>a, <2>1, <3>1 DEF Data, FileState
    <3>4. QED
      BY <1>b, <2>1, <3>1, <3>2, <3>3 DEF Synced
  <2>3. CASE pc' = "published"
    <3>1. mem' = [mem EXCEPT ![at].complete = TRUE]
      BY <1>10, <2>3, Zenon DEF Finalize
    <3>2. \A f \in Files : mem'[f].chunks = mem[f].chunks
      BY <1>a, <2>1, <3>1 DEF Data, FileState
    <3>3. QED
      BY <2>1, <2>3, <3>2 DEF Synced
  <2>4. QED
    BY <2>2, <2>3
<1>11. CASE CheckpointFile
  <2>1. log' = mem /\ logged' /\ mem' = mem /\ pc' \in {"loop", "down"}
    BY <1>11 DEF CheckpointFile, Kept, End
  <2>2. QED
    BY <2>1 DEF Synced
<1>12. CASE Crash
  BY <1>12, <1>c DEF Crash, End, disk
<1>13. CASE Rot
  BY <1>13 DEF Rot, Synced
<1>14. CASE UNCHANGED vars
  BY <1>14 DEF vars, disk, Synced
<1>15. QED
  BY <1>1, <1>t, <1>2, <1>3, <1>4, <1>5, <1>6, <1>7, <1>8, <1>9, <1>10, <1>11,
     <1>12, <1>13, <1>14 DEF Next, Run

\* Unless a process was killed while it had cut a part file, every part file holds
\* as many chunks as the process says it does, and as the checkpoint says when the
\* process has cut none.
Backed ==
  /\ pc = "checkpoint" /\ part[at] # Absent
       => Len(part[at]) > Len(mem[at].chunks)
  /\ ~ hurt /\ pc # "down" => \A f \in Files : ~ TooShort(part[f], mem[f].chunks)
  /\ ~ hurt /\ ~ cut => \A f \in Files : ~ TooShort(part[f], log[f].chunks)
  /\ ~ hurt /\ pc \notin {"recover", "failing"} => ~ cut

\* A published file has all its chunks.
Sized == \A f \in Files : final[f] # Absent => Len(final[f]) = Size[f]

LEMMA SizedStep == Typed /\ Sized /\ [Next]_vars => Sized'
<1> SUFFICES ASSUME Typed, Sized, [Next]_vars PROVE Sized'
  OBVIOUS
<1>a. Data /\ (at <= NFiles => at \in Files)
  BY DownloadAssumption DEF Typed, Counts, Files
<1>b. ASSUME final' = final PROVE Sized'
  BY <1>b DEF Sized
<1>1. ASSUME NEW m \in {"transfer", "verify"}, NEW c \in BOOLEAN, Start(m, c)
      PROVE  Sized'
  BY <1>1, <1>b DEF Start, disk
<1>t. CASE TakeBack
  <2>1. at \in Files /\ final' = [final EXCEPT ![at] = Absent]
    BY <1>t, <1>a DEF TakeBack
  <2>2. QED
    BY <1>a, <2>1 DEF Sized, Data
<1>2. CASE RecoverFile
  BY <1>2, <1>b, RecoverFileCounts
<1>3. CASE Recovered
  BY <1>3, <1>b DEF Recovered
<1>4. CASE Saved
  BY <1>4, <1>b DEF Saved, disk
<1>5. CASE Loop
  BY <1>5, <1>b DEF Loop, disk
<1>6. ASSUME NEW c \in {"good", "bad"}, FetchChunk(c)
      PROVE  Sized'
  BY <1>6, <1>b DEF FetchChunk
<1>7. CASE FetchFails
  BY <1>7, <1>b DEF FetchFails
<1>8. CASE Refused
  BY <1>8, <1>b DEF Refused, disk
<1>9. CASE Checkpoint
  BY <1>9, <1>b DEF Checkpoint
<1>10. CASE Finalize
  <2>1. at \in Files
    BY <1>10, <1>a DEF Finalize, Typed, Counts
  <2>2. final' = final \/ final' = [final EXCEPT ![at] = Good(at)]
    BY <1>10, Zenon DEF Finalize, ChecksumMatches
  <2>3. QED
    BY <1>a, <2>1, <2>2, GoodType DEF Sized, Data
<1>11. CASE CheckpointFile
  BY <1>11, <1>b DEF CheckpointFile
<1>12. CASE Crash
  BY <1>12, <1>b DEF Crash, disk
<1>13. CASE Rot
  <2>1. ASSUME NEW f \in Files, final[f] # Absent, NEW i \in DOMAIN final[f],
               final' = [final EXCEPT ![f][i] = "decay"]
        PROVE  Sized'
    <3>1. final[f] \in Seq(Content) /\ i \in 1..Len(final[f])
      BY <1>a, <2>1, LenProperties DEF Data, Stored
    <3>2. Len([final[f] EXCEPT ![i] = "decay"]) = Len(final[f])
      BY <3>1, ExceptSeq DEF Content
    <3>3. final'[f] = [final[f] EXCEPT ![i] = "decay"]
      BY <1>a, <2>1 DEF Data
    <3>4. \A g \in Files \ {f} : final'[g] = final[g]
      BY <1>a, <2>1 DEF Data
    <3>5. QED
      BY <2>1, <3>2, <3>3, <3>4 DEF Sized
  <2>2. QED
    BY <1>13, <1>b, <2>1 DEF Rot
<1>14. CASE UNCHANGED vars
  BY <1>14, <1>b DEF vars, disk
<1>15. QED
  BY <1>1, <1>t, <1>2, <1>3, <1>4, <1>5, <1>6, <1>7, <1>8, <1>9, <1>10, <1>11,
     <1>12, <1>13, <1>14 DEF Next, Run

LEMMA BackedStep ==
  Typed /\ Sized /\ Synced /\ Backed /\ [Next]_vars => Backed'
<1> SUFFICES ASSUME Typed, Sized, Synced, Backed, [Next]_vars
             PROVE  Backed'
  OBVIOUS
<1>a. Data /\ Counts /\ (at <= NFiles => at \in Files)
  BY DownloadAssumption DEF Typed, Counts, Files
<1>b. \A f \in Files :
        /\ Size[f] \in Nat
        /\ mem[f] \in FileState /\ log[f] \in FileState
        /\ mem[f].chunks \in Seq({"good", "bad"})
        /\ Len(mem[f].chunks) \in Nat /\ Len(log[f].chunks) \in Nat
        /\ part[f] \in Stored /\ (part[f] # Absent => Len(part[f]) \in Nat)
  BY <1>a, DownloadAssumption, LenProperties DEF Data, FileState, Stored
<1>c. Len(<<>>) = 0
  BY EmptySeq
<1>1. ASSUME NEW m \in {"transfer", "verify"}, NEW c \in BOOLEAN, Start(m, c)
      PROVE  Backed'
  <2>1. /\ pc = "down" /\ pc' = "recover" /\ UNCHANGED <<log, part, hurt>> /\ ~ cut'
        /\ mem' = (IF logged THEN log ELSE Manifest)
    BY <1>1 DEF Start, disk
  <2>2. mem' = log
    BY <2>1 DEF Synced
  <2>3. QED
    BY <2>1, <2>2 DEF Backed
<1>t. CASE TakeBack
  <2>1. /\ at \in Files /\ UNCHANGED <<log, pc, at, hurt, cut>> /\ pc = "recover"
        /\ part' = [part EXCEPT ![at] = IF final[at] = Absent THEN part[at] ELSE final[at]]
        /\ mem' = [mem EXCEPT ![at].complete = FALSE]
    BY <1>t, <1>a DEF TakeBack
  <2>2. \A f \in Files : mem'[f].chunks = mem[f].chunks
    BY <1>a, <2>1 DEF Data, FileState
  <2>3. final[at] # Absent => /\ ~ TooShort(final[at], mem[at].chunks)
                              /\ ~ TooShort(final[at], log[at].chunks)
    BY <1>b, <2>1 DEF Sized, Synced, TooShort
  <2>4. /\ part'[at] = IF final[at] = Absent THEN part[at] ELSE final[at]
        /\ \A f \in Files \ {at} : part'[f] = part[f]
    BY <1>a, <2>1 DEF Data
  <2>5. QED
    BY <2>1, <2>2, <2>3, <2>4 DEF Backed
<1>2. CASE RecoverFile
  <2>1. at \in Files /\ UNCHANGED <<log, hurt>> /\ pc = "recover"
    BY <1>2, <1>a, RecoverFileCounts
  <2>2. ASSUME mem' = [mem EXCEPT ![at].complete = TRUE], UNCHANGED <<part, pc, cut>>
        PROVE  Backed'
    <3>1. \A f \in Files : mem'[f].chunks = mem[f].chunks
      BY <1>a, <2>1, <2>2 DEF Data, FileState
    <3>2. QED
      BY <2>1, <2>2, <3>1 DEF Backed
  <2>3. ASSUME UNCHANGED <<mem, part, pc, cut>> PROVE Backed'
    BY <2>1, <2>3 DEF Backed
  <2>4. CASE TooShort(part[at], mem[at].chunks) /\ End("failed") /\ UNCHANGED <<part, cut>>
    <3>1. hurt /\ pc' = "down"
      BY <2>1, <2>4 DEF Backed, End
    <3>2. QED
      BY <2>1, <3>1 DEF Backed
  <2>5. CASE ~ TooShort(part[at], mem[at].chunks) /\ RecoverPartial(at) /\ pc' = pc
    <3>1. PICK kept \in Seq({"good", "bad"}), q \in Stored :
             /\ part' = [part EXCEPT ![at] = q]
             /\ mem' = [mem EXCEPT ![at].chunks = kept]
             /\ ~ TooShort(q, kept)
             /\ ~ cut' => ~ cut /\ (part[at] = Absent \/ kept = mem[at].chunks)
             /\ q = Absent <=> part[at] = Absent
      BY <1>a, <2>1, <2>5, RecoverPartialData DEF Typed
    <3>2. /\ mem'[at].chunks = kept /\ part'[at] = q
          /\ \A f \in Files \ {at} : mem'[f] = mem[f] /\ part'[f] = part[f]
      BY <1>a, <2>1, <3>1 DEF Data, FileState
    <3>3. mem[at].chunks = log[at].chunks
      BY <1>a, <2>1 DEF Synced, Counts
    <3>4. ~ cut' => ~ TooShort(q, log[at].chunks)
      BY <3>1, <3>3 DEF TooShort
    <3>5. ~ hurt => \A f \in Files : ~ TooShort(part'[f], mem'[f].chunks)
      BY <2>1, <3>1, <3>2 DEF Backed
    <3>6. ~ hurt /\ ~ cut' => \A f \in Files : ~ TooShort(part'[f], log[f].chunks)
      BY <2>1, <3>1, <3>2, <3>4 DEF Backed
    <3>7. QED
      BY <2>1, <2>5, <3>5, <3>6 DEF Backed
  <2>6. QED
    BY <1>2, <2>2, <2>3, <2>4, <2>5, RecoverFileData
<1>3. CASE Recovered
  <2>1. /\ pc = "recover" /\ pc' = "saving" /\ log' = mem /\ ~ cut'
        /\ UNCHANGED <<part, mem, at, hurt>>
    BY <1>3 DEF Recovered, Kept, Backed, Synced
  <2>2. QED
    BY <2>1 DEF Backed
<1>4. CASE Saved
  <2>1. /\ pc = "saving" /\ pc' \in {"down", "loop"}
        /\ UNCHANGED <<log, mem, part, cut, hurt>>
    BY <1>4 DEF Saved, End, disk
  <2>2. QED
    BY <2>1 DEF Backed, Synced
<1>5. CASE Loop
  <2>1. /\ pc = "loop" /\ UNCHANGED <<log, mem, part, cut, hurt>>
        /\ pc' \in {"down", "loop", "finalize", "fetch"}
        /\ pc' = "fetch" => at' = at /\ Len(mem[at].chunks) < Size[at]
    BY <1>5 DEF Loop, End, disk
  <2>2. QED
    BY <2>1 DEF Backed, Synced
<1>6. ASSUME NEW c \in {"good", "bad"}, FetchChunk(c)
      PROVE  Backed'
  <2>1. /\ at \in Files /\ pc = "fetch" /\ pc' = "checkpoint" /\ log = mem
        /\ UNCHANGED <<log, mem, at, cut, hurt>>
        /\ part' = [part EXCEPT ![at] = Written(part[at], Len(mem[at].chunks), c)]
    BY <1>6, <1>a DEF FetchChunk, Counts, Synced
  <2>2. Len(part'[at]) > Len(mem[at].chunks)
    <3>1. c \in Content
      BY DEF Content
    <3>2. Len(Written(part[at], Len(mem[at].chunks), c)) > Len(mem[at].chunks)
      BY <2>1, <3>1, <1>b, WrittenType
    <3>3. QED
      BY <2>1, <3>2, <1>a DEF Data
  <2>3. \A f \in Files \ {at} : part'[f] = part[f]
    BY <2>1, <1>a DEF Data
  <2>4. Len(part'[at]) \in Nat
    <3>1. Written(part[at], Len(mem[at].chunks), c) \in Seq(Content)
      BY <2>1, <1>b, WrittenType DEF Content
    <3>2. QED
      BY <3>1, <2>1, <1>a, LenProperties DEF Data
  <2>5. ~ hurt => \A f \in Files : ~ TooShort(part'[f], mem[f].chunks)
    BY <1>b, <2>1, <2>2, <2>3, <2>4 DEF Backed, TooShort
  <2>6. QED
    BY <2>1, <2>2, <2>5 DEF Backed
<1>7. CASE FetchFails
  <2>1. /\ at \in Files /\ pc = "fetch" /\ UNCHANGED <<log, mem, at, cut, hurt>>
        /\ pc' \in {"fetch", "down"} /\ log = mem
        /\ \/ part' = part
           \/ part' = [part EXCEPT ![at] = Written(part[at], Len(mem[at].chunks), "rot")]
    BY <1>7, <1>a DEF FetchFails, Counts, End, Synced
  <2>2. \A f \in Files \ {at} : part'[f] = part[f]
    BY <2>1, <1>a DEF Data
  <2>3. ~ hurt => ~ TooShort(part'[at], mem[at].chunks)
    <3>1. /\ Len(Written(part[at], Len(mem[at].chunks), "rot")) > Len(mem[at].chunks)
          /\ Written(part[at], Len(mem[at].chunks), "rot") \in Seq(Content)
      BY <2>1, <1>b, WrittenType DEF Content
    <3>2. Len(Written(part[at], Len(mem[at].chunks), "rot")) \in Nat
      BY <3>1, LenProperties
    <3>3. ~ hurt => ~ TooShort(part[at], mem[at].chunks)
      BY <2>1 DEF Backed
    <3>4. QED
      BY <1>a, <1>b, <2>1, <3>1, <3>2, <3>3 DEF TooShort, Data
  <2>4. ~ hurt => \A f \in Files : ~ TooShort(part'[f], mem[f].chunks)
    BY <2>1, <2>2, <2>3 DEF Backed
  <2>5. QED
    BY <2>1, <2>4 DEF Backed
<1>8. CASE Refused
  <2>1. pc = "fetch" /\ pc' = "down" /\ UNCHANGED <<log, mem, part, cut, hurt>>
    BY <1>8 DEF Refused, End, disk
  <2>2. QED
    BY <2>1 DEF Backed
<1>9. CASE Checkpoint
  <2>1. at \in Files /\ pc = "checkpoint" /\ got \in {"good", "bad"}
    BY <1>9, <1>a DEF Checkpoint, Counts
  <2>2. /\ pc' = "loop" /\ log' = mem' /\ UNCHANGED <<part, at, cut, hurt>>
        /\ mem' = [mem EXCEPT ![at].chunks = Append(mem[at].chunks, got)]
    BY <1>9 DEF Checkpoint, Kept
  <2>3. Len(Append(mem[at].chunks, got)) = Len(mem[at].chunks) + 1
    BY <2>1, <1>b
  <2>4. Len(mem'[at].chunks) = Len(mem[at].chunks) + 1
    BY <1>a, <1>b, <2>1, <2>2, <2>3 DEF Data, FileState
  <2>5. \A f \in Files \ {at} : mem'[f] = mem[f]
    BY <1>a, <2>1, <2>2 DEF Data
  <2>6. ~ hurt => \A f \in Files : ~ TooShort(part[f], mem'[f].chunks)
    BY <1>b, <2>1, <2>4, <2>5 DEF Backed, TooShort
  <2>7. QED
    BY <2>1, <2>2, <2>6 DEF Backed
<1>10. CASE Finalize
  <2>1. at \in Files /\ pc = "finalize"
    BY <1>10, <1>a DEF Finalize, Counts
  <2>2. CASE ~ pc' = "published"
    <3>1. PICK kept \in Seq({"good", "bad"}), q \in Seq(Content) :
             /\ part' = [part EXCEPT ![at] = q]
             /\ mem' = [mem EXCEPT ![at].chunks = kept]
             /\ Len(kept) <= Len(mem[at].chunks) /\ Len(kept) = Len(q)
             /\ pc' = "failing"
      BY <1>10, <1>a, <2>1, <2>2, FinalizeData
    <3>2. Len(kept) \in Nat /\ Len(q) \in Nat
      BY LenProperties
    <3>3. mem'[at].chunks = kept /\ part'[at] = q
      BY <1>a, <2>1, <3>1 DEF Data, FileState
    <3>4. \A f \in Files \ {at} : mem'[f] = mem[f] /\ part'[f] = part[f]
      BY <1>a, <2>1, <3>1 DEF Data
    <3>5. ~ hurt => \A f \in Files : ~ TooShort(part'[f], mem'[f].chunks)
      BY <1>b, <2>1, <3>1, <3>2, <3>3, <3>4 DEF Backed, TooShort
    <3>6. cut' = TRUE /\ hurt' = hurt
      BY <1>10, <3>1, Zenon DEF Finalize
    <3>7. QED
      BY <3>1, <3>5, <3>6 DEF Backed
  <2>3. CASE pc' = "published"
    <3>1. /\ part' = [part EXCEPT ![at] = Absent]
          /\ mem' = [mem EXCEPT ![at].complete = TRUE]
          /\ UNCHANGED <<log, cut, hurt>>
      BY <1>10, <2>3, Zenon DEF Finalize
    <3>2. \A f \in Files : mem'[f].chunks = mem[f].chunks
      BY <1>a, <2>1, <3>1 DEF Data, FileState
    <3>3. ~ hurt => \A f \in Files : /\ ~ TooShort(part'[f], mem[f].chunks)
                                    /\ ~ TooShort(part'[f], log[f].chunks)
      BY <1>a, <2>1, <3>1 DEF Data, Backed, Synced, TooShort
    <3>4. QED
      BY <2>1, <2>3, <3>1, <3>2, <3>3 DEF Backed
  <2>4. QED
    BY <2>2, <2>3
<1>11. CASE CheckpointFile
  <2>1. /\ log' = mem /\ UNCHANGED <<part, mem, hurt>> /\ pc' \in {"loop", "down"}
        /\ pc \in {"published", "failing"} /\ ~ cut'
    BY <1>11 DEF CheckpointFile, Kept, End
  <2>2. QED
    BY <2>1 DEF Backed
<1>12. CASE Crash
  <2>1. /\ pc' = "down" /\ UNCHANGED <<log, part, mem, cut>>
        /\ ~ hurt' => ~ hurt /\ ~ cut
    BY <1>12 DEF Crash, End, disk
  <2>2. QED
    BY <2>1 DEF Backed
<1>13. CASE Rot
  <2>1. pc = "down" /\ UNCHANGED <<pc, log, mem, at, cut, hurt>>
    BY <1>13 DEF Rot
  <2>2. ASSUME NEW f \in Files, part[f] # Absent, NEW i \in DOMAIN part[f],
               part' = [part EXCEPT ![f][i] = "rot"]
        PROVE  Backed'
    <3>1. part[f] \in Seq(Content) /\ i \in 1..Len(part[f])
      BY <2>2, <1>b, LenProperties DEF Stored
    <3>2. Len([part[f] EXCEPT ![i] = "rot"]) = Len(part[f])
      BY <3>1, ExceptSeq DEF Content
    <3>3. part'[f] = [part[f] EXCEPT ![i] = "rot"]
      BY <1>a, <2>2 DEF Data
    <3>4. \A g \in Files \ {f} : part'[g] = part[g]
      BY <1>a, <2>2 DEF Data
    <3>5. ~ hurt /\ ~ cut => ~ TooShort(part'[f], log[f].chunks)
      BY <2>1, <2>2, <3>2, <3>3 DEF Backed, TooShort
    <3>6. ~ hurt /\ ~ cut => \A g \in Files : ~ TooShort(part'[g], log[g].chunks)
      BY <2>1, <3>4, <3>5 DEF Backed
    <3>7. QED
      BY <2>1, <3>6 DEF Backed
  <2>3. ASSUME part' = part PROVE Backed'
    BY <2>1, <2>3 DEF Backed
  <2>4. QED
    BY <1>13, <2>2, <2>3, Zenon DEF Rot
<1>14. CASE UNCHANGED vars
  BY <1>14 DEF vars, Backed, TooShort
<1>15. QED
  BY <1>1, <1>t, <1>2, <1>3, <1>4, <1>5, <1>6, <1>7, <1>8, <1>9, <1>10, <1>11,
     <1>12, <1>13, <1>14 DEF Next, Run

LEMMA RecoverableInit == Init => Sized /\ Synced /\ Backed
<1> SUFFICES ASSUME Init PROVE Sized /\ Synced /\ Backed
  OBVIOUS
<1>1. Sized
  BY DEF Init, Sized
<1>2. \A f \in Files : Len(mem[f].chunks) = 0 /\ Len(log[f].chunks) = 0
  BY EmptySeq DEF Init, Manifest, NoChunks
<1>3. \A f \in Files : Size[f] \in Nat /\ ~ TooShort(part[f], log[f].chunks)
  BY DownloadAssumption DEF Init, TooShort
<1>4. QED
  BY <1>1, <1>2, <1>3 DEF Init, Synced, Backed

\* Unless a process was killed between cutting a part file and saving the
\* checkpoint, every session can recover what the last one left, whatever else
\* crashed, failed or rotted.
THEOREM OnlyTheHurtAreStranded == Spec => []StrandedIfHurt
<1>1. Init => Sized /\ Synced /\ Backed
  BY RecoverableInit
<1>2. Typed /\ Sized /\ Synced /\ Backed => StrandedIfHurt
  <2> SUFFICES ASSUME Typed, Sized, Synced, Backed, ~ hurt, pc = "recover", at <= NFiles
               PROVE  LET p == IF mem[at].complete /\ final[at] # Absent
                               THEN final[at] ELSE part[at]
                      IN  ~ TooShort(p, mem[at].chunks)
    BY DEF StrandedIfHurt, Recoverable
  <2>1. at \in Files
    BY DownloadAssumption DEF Typed, Counts, Files
  <2>2. Len(mem[at].chunks) <= Size[at] /\ ~ TooShort(part[at], mem[at].chunks)
    BY <2>1 DEF Backed, Synced
  <2>3. /\ Len(mem[at].chunks) \in Nat /\ Size[at] \in Nat
        /\ final[at] # Absent => Len(final[at]) = Size[at]
    BY <2>1, LenProperties, DownloadAssumption
       DEF Typed, Data, FileState, Sized
  <2>4. QED
    BY <2>2, <2>3 DEF TooShort
<1>3. Typed /\ Sized /\ Synced /\ Backed /\ [Next]_vars
        => Sized' /\ Synced' /\ Backed'
  BY SizedStep, SyncedStep, BackedStep
<1>4. QED
  BY <1>1, <1>2, <1>3, TypedInit, TypedStep, PTL DEF Spec

-----------------------------------------------------------------------------
(* What a session gives up.                                                *)

\* What the valid prefix counts is intact, ...
LEMMA PrefixHolds ==
  ASSUME NEW S, NEW T, NEW p \in Seq(S), NEW chunks \in Seq(T),
         NEW j \in 1..ValidPrefix(p, chunks)
  PROVE  Holds(p, chunks, j)
<1> DEFINE Valids == {i \in DOMAIN chunks : \A h \in 1..i : Holds(p, chunks, h)}
<1> SUFFICES ASSUME ~ Holds(p, chunks, j) PROVE FALSE
  OBVIOUS
<1>1. ValidPrefix(p, chunks) \in Nat /\ ValidPrefix(p, chunks) = Cardinality(Valids)
  BY PrefixType, LenProperties DEF ValidPrefix
<1>2. DOMAIN chunks = 1..Len(chunks) /\ Len(chunks) \in Nat /\ j \in Nat /\ j >= 1
  BY LenProperties, <1>1
<1>3. Valids \in SUBSET (1..(j - 1))
  BY <1>2
<1>4. IsFiniteSet(1..(j - 1)) /\ Cardinality(1..(j - 1)) = j - 1
  <2>1. 1 \in Int /\ j - 1 \in Int
    BY <1>2
  <2>2. /\ IsFiniteSet(1..(j - 1))
        /\ Cardinality(1..(j - 1)) = IF 1 > j - 1 THEN 0 ELSE (j - 1) - 1 + 1
    BY <2>1, FS_Interval, Zenon
  <2>3. QED
    BY <2>2, <1>2
<1>5. Cardinality(Valids) <= Cardinality(1..(j - 1))
  BY <1>3, <1>4, FS_Subset, Zenon
<1>6. QED
  BY <1>1, <1>2, <1>4, <1>5

\* ... and it counts everything up to the first chunk that is not.
LEMMA PrefixReaches ==
  ASSUME NEW S, NEW T, NEW p \in Seq(S), NEW chunks \in Seq(T),
         NEW k \in 0..Len(chunks), \A j \in 1..k : Holds(p, chunks, j)
  PROVE  ValidPrefix(p, chunks) >= k
<1> DEFINE Valids == {i \in DOMAIN chunks : \A h \in 1..i : Holds(p, chunks, h)}
<1>1. ValidPrefix(p, chunks) \in Nat /\ ValidPrefix(p, chunks) = Cardinality(Valids)
  BY PrefixType, LenProperties DEF ValidPrefix
<1>2. DOMAIN chunks = 1..Len(chunks) /\ Len(chunks) \in Nat /\ k \in Nat
  BY LenProperties
<1>3. \A n \in Nat : IsFiniteSet(1..n) /\ Cardinality(1..n) = n
  <2> TAKE n \in Nat
  <2>1. 1 \in Int /\ n \in Int
    OBVIOUS
  <2>2. IsFiniteSet(1..n) /\ Cardinality(1..n) = IF 1 > n THEN 0 ELSE n-1+1
    BY <2>1, FS_Interval, Zenon
  <2>3. QED
    BY <2>2
<1>4. Valids \in SUBSET (1..Len(chunks)) /\ 1..k \in SUBSET Valids
  BY <1>2
<1>5. IsFiniteSet(Valids)
  BY <1>2, <1>3, <1>4, FS_Subset, Zenon
<1>6. Cardinality(1..k) <= Cardinality(Valids)
  BY <1>4, <1>5, FS_Subset, Zenon
<1>7. QED
  BY <1>1, <1>2, <1>3, <1>6

\* The valid prefix is as long afterwards, if its chunks are left alone.
LEMMA PrefixStays ==
  ASSUME NEW S, NEW T, NEW p \in Seq(S), NEW chunks \in Seq(T),
         NEW q \in Seq(S), NEW kept \in Seq(T),
         NEW k \in 0..ValidPrefix(p, chunks), k <= Len(q), k <= Len(kept),
         \A j \in 1..k : q[j] = p[j] /\ kept[j] = chunks[j]
  PROVE  ValidPrefix(q, kept) >= k
<1>1. /\ Len(q) \in Nat /\ Len(kept) \in Nat
      /\ ValidPrefix(p, chunks) \in Nat
  BY PrefixType, LenProperties
<1>2. \A j \in 1..k : Holds(p, chunks, j)
  BY <1>1, PrefixHolds
<1>3. \A j \in 1..k : Holds(q, kept, j)
  BY <1>1, <1>2 DEF Holds
<1>4. k \in 0..Len(kept)
  BY <1>1
<1>5. QED
  BY <1>3, <1>4, PrefixReaches

\* Cutting a part file to its valid prefix loses nothing of it, whether its
\* chunks are cut, too, or not.
LEMMA CutStays ==
  ASSUME NEW p \in Seq(Content), NEW chunks \in Seq({"good", "bad"}),
         NEW k \in Nat, k = ValidPrefix(p, chunks)
  PROVE  /\ ValidPrefix(SubSeq(p, 1, k), chunks) = k
         /\ ValidPrefix(SubSeq(p, 1, k), SubSeq(chunks, 1, k)) >= k
<1> DEFINE q == SubSeq(p, 1, k)
           kept == SubSeq(chunks, 1, k)
<1>1. k \in 0..Len(chunks) /\ k <= Len(p) /\ Len(p) \in Nat /\ Len(chunks) \in Nat
  BY PrefixType, LenProperties
<1>2. /\ q \in Seq(Content) /\ Len(q) = k
      /\ kept \in Seq({"good", "bad"}) /\ Len(kept) = k
  BY <1>1, CutType
<1>3. \A j \in 1..k : q[j] = p[j] /\ kept[j] = chunks[j]
  BY <1>1
<1> HIDE DEF q, kept
<1>4. ValidPrefix(q, chunks) >= k /\ ValidPrefix(q, kept) >= k
  <2>1. \A j \in 1..k : Holds(p, chunks, j)
    BY PrefixHolds
  <2>2. ASSUME NEW j \in 1..k PROVE Holds(q, chunks, j) /\ Holds(q, kept, j)
    <3>1. p[j] = chunks[j] /\ q[j] = p[j] /\ kept[j] = chunks[j]
      BY <1>3, <2>1 DEF Holds
    <3>2. j <= Len(q)
      BY <1>2
    <3>3. QED
      BY <3>1, <3>2, Zenon DEF Holds
  <2>3. ValidPrefix(q, chunks) >= k
    BY <1>1, <1>2, <2>2, PrefixReaches
  <2>4. ValidPrefix(q, kept) >= k
    <3>1. k \in 0..Len(kept)
      BY <1>2
    <3>2. QED
      BY <1>2, <2>2, <3>1, PrefixReaches
  <2>5. QED
    BY <2>3, <2>4
<1>5. ValidPrefix(q, chunks) <= k /\ ValidPrefix(q, chunks) \in Nat
  BY <1>1, <1>2, PrefixType
<1>6. QED
  BY <1>4, <1>5 DEF q, kept

\* Fetching the next chunk leaves those before it alone.
LEMMA WrittenStays ==
  ASSUME NEW p \in Seq(Content), NEW chunks \in Seq({"good", "bad"}),
         NEW c \in Content
  PROVE  /\ Written(p, Len(chunks), c) \in Seq(Content)
         /\ ValidPrefix(Written(p, Len(chunks), c), chunks) >= ValidPrefix(p, chunks)
<1> DEFINE q == Written(p, Len(chunks), c)
           k == ValidPrefix(p, chunks)
<1>1. p # Absent
  BY NoPartIsAbsent
<1>2. /\ Len(chunks) \in Nat /\ Len(p) \in Nat
      /\ k \in 0..Len(chunks) /\ k <= Len(p)
  BY PrefixType, LenProperties
<1>3. q \in Seq(Content) /\ Len(q) > Len(chunks)
  BY <1>2, WrittenType DEF Stored
<1>4. \A j \in 1..k : q[j] = p[j]
  BY <1>1, <1>2 DEF Written
<1>5. k \in 0..ValidPrefix(p, chunks) /\ Len(q) \in Nat
  BY <1>2, <1>3, LenProperties
<1>6. k <= Len(q) /\ k <= Len(chunks)
  BY <1>2, <1>3, <1>5
<1> HIDE DEF q, k
<1>7. ValidPrefix(q, chunks) >= k
  BY <1>3, <1>4, <1>5, <1>6, PrefixStays
<1>8. QED
  BY <1>3, <1>7 DEF q, k

\* Recording one more chunk leaves those before it alone.
LEMMA AppendStays ==
  ASSUME NEW p \in Seq(Content), NEW chunks \in Seq({"good", "bad"}),
         NEW c \in {"good", "bad"}
  PROVE  ValidPrefix(p, Append(chunks, c)) >= ValidPrefix(p, chunks)
<1> DEFINE kept == Append(chunks, c)
           k == ValidPrefix(p, chunks)
<1>1. /\ Len(chunks) \in Nat /\ Len(p) \in Nat
      /\ k \in 0..Len(chunks) /\ k <= Len(p)
  BY PrefixType, LenProperties
<1>2. /\ kept \in Seq({"good", "bad"}) /\ Len(kept) = Len(chunks) + 1
      /\ \A j \in 1..Len(chunks) : kept[j] = chunks[j]
  BY <1>1, AppendProperties
<1>3. k \in 0..ValidPrefix(p, chunks) /\ k <= Len(kept)
  BY <1>1, <1>2
<1>4. \A j \in 1..k : kept[j] = chunks[j]
  BY <1>1, <1>2
<1> HIDE DEF kept, k
<1>5. ValidPrefix(p, kept) >= k
  BY <1>1, <1>2, <1>3, <1>4, PrefixStays
<1>6. QED
  BY <1>5 DEF kept, k

\* Chunks of a part file that is there that are valid.
Rate(p, chunks) == IF p = Absent THEN 0 ELSE ValidPrefix(p, chunks)

LEMMA RateType ==
  ASSUME NEW p \in Stored, NEW chunks \in Seq({"good", "bad"})
  PROVE  /\ Rate(p, chunks) \in Nat /\ Rate(p, chunks) <= Len(chunks)
         /\ p # Absent => Rate(p, chunks) <= Len(p)
<1>1. Len(chunks) \in Nat
  BY LenProperties
<1>2. CASE p = Absent
  BY <1>1, <1>2 DEF Rate
<1>3. CASE p # Absent
  <2>1. p \in Seq(Content)
    BY <1>3 DEF Stored
  <2>2. QED
    BY <1>1, <1>3, <2>1, PrefixType DEF Rate
<1>4. QED
  BY <1>2, <1>3

\* A session secures no less in memory than the checkpoint does; a file that is
\* complete has all its chunks and no part file; one that is good under its
\* final name is known for it as soon as recovery has looked at it.
Keeps ==
  /\ pc # "down" => \A f \in Files : final[f] # Good(f) =>
       Rate(part[f], log[f].chunks) <= Rate(part[f], mem[f].chunks)
  /\ \A f \in Files : log[f].complete =>
       Len(log[f].chunks) = Size[f] /\ (final[f] # Absent => part[f] = Absent)
  /\ pc # "down" => \A f \in Files : mem[f].complete =>
       Len(mem[f].chunks) = Size[f] /\ (final[f] # Absent => part[f] = Absent)
  /\ \A f \in Files : final[f] = Good(f) =>
       part[f] = Absent /\ Len(log[f].chunks) = Size[f]
  /\ pc # "down" => \A f \in Files : final[f] = Good(f) =>
       mem[f].complete \/ (pc = "recover" /\ f >= at)
  /\ pc \in {"fetch", "checkpoint", "finalize"} => ~ mem[at].complete
  /\ pc = "finalize" => Len(mem[at].chunks) = Size[at]

\* Recovering a part file keeps its valid chunks, and what it keeps in memory
\* is valid.
LEMMA RecoverPartialKept ==
  ASSUME Data, NEW f \in Files, RecoverPartial(f)
  PROVE  /\ part'[f] = Absent <=> part[f] = Absent
         /\ mem'[f].complete = mem[f].complete
         /\ Rate(part[f], mem[f].chunks) <= Rate(part'[f], mem[f].chunks)
         /\ Rate(part'[f], mem[f].chunks) <= Rate(part'[f], mem'[f].chunks)
         /\ \A g \in Files \ {f} : part'[g] = part[g] /\ mem'[g] = mem[g]
<1> DEFINE p == part[f]
           chunks == mem[f].chunks
           k == Repairs(p, chunks)
           kept == IF p = Absent THEN <<>>
                   ELSE IF Tidy(p, chunks) THEN chunks ELSE SubSeq(chunks, 1, k)
           q == IF p = Absent \/ Tidy(p, chunks) THEN p ELSE SubSeq(p, 1, k)
<1>1. chunks \in Seq({"good", "bad"}) /\ p \in Stored
  BY DEF Data, FileState
<1>2. /\ part' = [part EXCEPT ![f] = q]
      /\ mem' = [mem EXCEPT ![f].chunks = kept]
  BY Zenon DEF RecoverPartial
<1>3. /\ part'[f] = q /\ mem'[f].chunks = kept /\ mem'[f].complete = mem[f].complete
      /\ \A g \in Files \ {f} : part'[g] = part[g] /\ mem'[g] = mem[g]
  BY <1>2 DEF Data, FileState
<1>4. CASE p = Absent
  BY <1>3, <1>4 DEF Rate
<1>5. CASE p # Absent /\ Tidy(p, chunks)
  <2>1. q = p /\ kept = chunks
    BY <1>5
  <2>2. Rate(p, chunks) \in Nat
    BY <1>1, RateType
  <2> HIDE DEF q, kept
  <2>3. QED
    BY <1>3, <1>5, <2>1, <2>2
<1>6. CASE p # Absent /\ ~ Tidy(p, chunks)
  <2>1. p \in Seq(Content) /\ k = ValidPrefix(p, chunks)
    BY <1>1, <1>6 DEF Stored, Repairs
  <2>2. k \in Nat /\ k \in 0..Len(p)
    BY <2>1, <1>1, PrefixType, LenProperties
  <2>3. /\ ValidPrefix(SubSeq(p, 1, k), chunks) = k
        /\ ValidPrefix(SubSeq(p, 1, k), SubSeq(chunks, 1, k)) >= k
    BY <1>1, <2>1, <2>2, CutStays
  <2>4. SubSeq(p, 1, k) # Absent
    BY <2>1, <2>2, CutType, NoPartIsAbsent
  <2>5. q = SubSeq(p, 1, k) /\ kept = SubSeq(chunks, 1, k)
    BY <1>6
  <2> HIDE DEF q, kept, k, chunks, p
  <2>6. Rate(p, chunks) = k
    BY <1>6, <2>1 DEF Rate
  <2>7. Rate(part'[f], chunks) = k /\ Rate(part'[f], mem'[f].chunks) >= k
    BY <1>3, <2>3, <2>4, <2>5 DEF Rate
  <2>8. part'[f] # Absent /\ p # Absent
    BY <1>3, <1>6, <2>4, <2>5
  <2>9. QED
    BY <1>3, <2>2, <2>6, <2>7, <2>8 DEF p, chunks
<1>7. QED
  BY <1>4, <1>5, <1>6

\* A file that is taken back was not good, and its part file holds no less then.
LEMMA TakeBackKept ==
  ASSUME Typed, Synced, Keeps, TakeBack
  PROVE  /\ at \in Files /\ pc = "recover" /\ UNCHANGED <<log, logged, pc, at>>
         /\ \A f \in Files \ {at} : /\ mem'[f] = mem[f] /\ part'[f] = part[f]
                                    /\ final'[f] = final[f]
         /\ ~ mem'[at].complete
         /\ final[at] # Good(at) /\ final'[at] = Absent
         /\ Rate(part[at], log[at].chunks) <= Rate(part'[at], log[at].chunks)
         /\ Rate(part'[at], log[at].chunks) <= Rate(part'[at], mem'[at].chunks)
<1>a. /\ Data /\ at \in Files /\ at >= at /\ pc = "recover"
      /\ UNCHANGED <<log, logged, pc, at>>
  BY DownloadAssumption DEF TakeBack, Typed, Counts, Files
<1>b. /\ part[at] \in Stored /\ final[at] \in Stored
      /\ mem[at].chunks = log[at].chunks /\ log[at].chunks \in Seq({"good", "bad"})
      /\ Good(at) # Absent /\ Len(Good(at)) = Size[at]
  BY <1>a, GoodType DEF Data, FileState, Synced
<1>1. /\ final' = [final EXCEPT ![at] = Absent]
      /\ part' = [part EXCEPT ![at] = IF final[at] = Absent THEN part[at] ELSE final[at]]
      /\ mem' = [mem EXCEPT ![at].complete = FALSE]
  BY DEF TakeBack
<1>2. /\ final'[at] = Absent
      /\ part'[at] = IF final[at] = Absent THEN part[at] ELSE final[at]
      /\ ~ mem'[at].complete /\ mem'[at].chunks = mem[at].chunks
      /\ \A f \in Files \ {at} : /\ mem'[f] = mem[f] /\ part'[f] = part[f]
                                 /\ final'[f] = final[f]
  BY <1>a, <1>1 DEF Data, FileState
<1>3. final[at] # Good(at)
  BY <1>b DEF TakeBack, Valid
<1>4. final[at] # Absent => part[at] = Absent
  BY <1>a DEF TakeBack, Keeps
<1>5. /\ Rate(part[at], log[at].chunks) \in Nat /\ Rate(final[at], log[at].chunks) \in Nat
      /\ part[at] = Absent => Rate(part[at], log[at].chunks) = 0
  BY <1>b, RateType DEF Rate
<1>6. QED
  BY <1>a, <1>b, <1>2, <1>3, <1>4, <1>5

\* What recovering one file does to what is secured.
LEMMA RecoverFileKept ==
  ASSUME Typed, Synced, Keeps, RecoverFile
  PROVE  /\ at \in Files /\ pc = "recover" /\ UNCHANGED <<log, logged, final>>
         /\ pc' = "down" \/ (pc' = "recover" /\ at' = at + 1)
         /\ \A f \in Files \ {at} : mem'[f] = mem[f] /\ part'[f] = part[f]
         /\ part'[at] = Absent <=> part[at] = Absent
         /\ final[at] # Good(at) => Rate(part[at], log[at].chunks)
                                      <= Rate(part'[at], log[at].chunks)
         /\ pc' = "recover" =>
              /\ final[at] # Good(at) => Rate(part'[at], log[at].chunks)
                                           <= Rate(part'[at], mem'[at].chunks)
              /\ mem'[at].complete =>
                   /\ Len(mem'[at].chunks) = Size[at]
                   /\ final[at] # Absent => part[at] = Absent
              /\ final[at] = Good(at) => mem'[at].complete
<1>a. /\ Data /\ Counts /\ at \in Files /\ pc = "recover"
      /\ UNCHANGED <<log, logged, final>> /\ at >= at
  BY RecoverFileCounts, DownloadAssumption DEF Typed, Counts, Files
<1>b. /\ part[at] \in Stored /\ final[at] \in Stored
      /\ mem[at].chunks = log[at].chunks /\ mem[at].chunks \in Seq({"good", "bad"})
      /\ Good(at) # Absent /\ Len(Good(at)) = Size[at]
  BY <1>a, GoodType DEF Data, FileState, Synced
<1>c. Rate(part[at], log[at].chunks) \in Nat
  BY <1>b, RateType
<1>1. CASE /\ RenameCrashed(at) /\ at' = at + 1
           /\ mem' = [mem EXCEPT ![at].complete = TRUE] /\ UNCHANGED <<part, pc>>
  <2>1. final[at] = Good(at) /\ part[at] = Absent /\ Len(mem[at].chunks) = Size[at]
    BY <1>a, <1>1 DEF RenameCrashed, Valid, Keeps
  <2>2. /\ mem'[at].chunks = mem[at].chunks /\ mem'[at].complete
        /\ \A f \in Files \ {at} : mem'[f] = mem[f]
    BY <1>a, <1>1 DEF Data, FileState
  <2>3. QED
    BY <1>a, <1>1, <2>1, <2>2
<1>2. CASE /\ mem[at].complete /\ Valid(at, deep) /\ at' = at + 1
           /\ UNCHANGED <<mem, part, pc>>
  BY <1>a, <1>b, <1>c, <1>2 DEF Keeps
<1>3. CASE End("failed") /\ UNCHANGED <<mem, part>>
  BY <1>a, <1>c, <1>3 DEF End
<1>4. CASE /\ ~ mem[at].complete /\ ~ RenameCrashed(at) /\ RecoverPartial(at)
           /\ at' = at + 1 /\ pc' = pc
  <2>1. final[at] # Good(at)
    BY <1>a, <1>b, <1>4 DEF Keeps, RenameCrashed, Valid
  <2>2. /\ part'[at] = Absent <=> part[at] = Absent
        /\ mem'[at].complete = mem[at].complete
        /\ Rate(part[at], mem[at].chunks) <= Rate(part'[at], mem[at].chunks)
        /\ Rate(part'[at], mem[at].chunks) <= Rate(part'[at], mem'[at].chunks)
        /\ \A g \in Files \ {at} : part'[g] = part[g] /\ mem'[g] = mem[g]
    BY <1>a, <1>4, RecoverPartialKept
  <2>3. QED
    BY <1>a, <1>b, <1>4, <2>1, <2>2
<1>5. QED
  BY <1>1, <1>2, <1>3, <1>4, RecoverFileData

\* A failed verification keeps the valid chunks, unless all of them are.
LEMMA FinalizeKept ==
  ASSUME Typed, Synced, Keeps, Finalize, pc' # "published"
  PROVE  /\ at \in Files /\ pc = "finalize" /\ pc' = "failing"
         /\ UNCHANGED <<log, logged, final>>
         /\ \A f \in Files \ {at} : mem'[f] = mem[f] /\ part'[f] = part[f]
         /\ ~ mem'[at].complete
         /\ Rate(part'[at], log[at].chunks) <= Rate(part'[at], mem'[at].chunks)
         /\ \/ Rate(part[at], log[at].chunks) <= Rate(part'[at], log[at].chunks)
            \/ Rate(part[at], log[at].chunks) = Size[at]
<1> DEFINE p == IF part[at] = Absent THEN <<>> ELSE part[at]
           chunks == mem[at].chunks
           k == ValidPrefix(p, chunks)
           kept == IF k < Len(chunks) THEN k ELSE 0
           rest == SubSeq(p, 1, kept)
           left == SubSeq(chunks, 1, kept)
<1>1. /\ Data /\ at \in Files /\ pc = "finalize"
      /\ log[at].chunks = chunks /\ Len(chunks) = Size[at] /\ ~ mem[at].complete
  BY DownloadAssumption DEF Finalize, Typed, Counts, Files, Synced, Keeps
<1>2. /\ chunks \in Seq({"good", "bad"}) /\ p \in Seq(Content)
  BY <1>1, EmptySeq DEF Data, FileState, Stored
<1>3. /\ part' = [part EXCEPT ![at] = rest]
      /\ mem' = [mem EXCEPT ![at].chunks = left]
      /\ pc' = "failing" /\ UNCHANGED <<log, logged, final>>
  BY Zenon DEF Finalize, FirstChunks
<1> HIDE DEF p, chunks
<1>4. /\ Len(chunks) \in Nat /\ Len(p) \in Nat
      /\ k \in Nat /\ k <= Len(chunks) /\ k <= Len(p)
  <2>1. Len(chunks) \in Nat /\ Len(p) \in Nat
    BY <1>2, LenProperties
  <2>2. k \in 0..Len(chunks) /\ k <= Len(p)
    BY <1>2, PrefixType
  <2>3. QED
    BY <2>1, <2>2
<1>5. Rate(part[at], chunks) = k
  <2>1. CASE part[at] = Absent
    <3>1. p = <<>>
      BY <2>1 DEF p
    <3>2. Len(p) = 0
      BY <3>1, EmptySeq
    <3>3. k = 0
      BY <1>4, <3>2
    <3>4. QED
      BY <2>1, <3>3 DEF Rate
  <2>2. CASE part[at] # Absent
    BY <2>2 DEF Rate, p
  <2>3. QED
    BY <2>1, <2>2
<1>6. kept \in Nat /\ kept \in 0..Len(chunks) /\ kept \in 0..Len(p)
  BY <1>4
<1>7. /\ rest \in Seq(Content) /\ Len(rest) = kept
      /\ left \in Seq({"good", "bad"})
  BY <1>2, <1>6, CutType
<1>8. rest # Absent
  BY <1>7, NoPartIsAbsent
<1>9. /\ ValidPrefix(rest, chunks) \in Nat /\ ValidPrefix(rest, left) \in Nat
      /\ ValidPrefix(rest, chunks) <= kept
  <2> HIDE DEF rest, left, kept
  <2>1. Len(left) \in Nat
    BY <1>7, LenProperties
  <2>2. ValidPrefix(rest, chunks) \in 0..Len(chunks) /\ ValidPrefix(rest, chunks) <= Len(rest)
    BY <1>2, <1>7, PrefixType
  <2>3. ValidPrefix(rest, left) \in 0..Len(left)
    BY <1>7, PrefixType
  <2>4. QED
    BY <1>4, <1>7, <2>1, <2>2, <2>3
<1>10. /\ ValidPrefix(rest, chunks) <= ValidPrefix(rest, left)
       /\ ValidPrefix(rest, chunks) >= k \/ k = Len(chunks)
  <2>1. CASE k < Len(chunks)
    <3>1. kept = k
      BY <2>1
    <3>2. /\ ValidPrefix(SubSeq(p, 1, k), chunks) = k
          /\ ValidPrefix(SubSeq(p, 1, k), SubSeq(chunks, 1, k)) >= k
      <4> HIDE DEF k
      <4>1. k \in Nat /\ k = ValidPrefix(p, chunks)
        BY <1>4 DEF k
      <4>2. QED
        BY <1>2, <4>1, CutStays
    <3>3. rest = SubSeq(p, 1, k) /\ left = SubSeq(chunks, 1, k)
      BY <3>1
    <3> HIDE DEF rest, left, k
    <3>4. QED
      BY <1>4, <3>2, <3>3
  <2>2. CASE ~ k < Len(chunks)
    <3>1. k = Len(chunks) /\ kept = 0
      BY <1>4, <2>2
    <3>2. QED
      BY <1>9, <3>1
  <2>3. QED
    BY <2>1, <2>2
<1> HIDE DEF k, kept, rest, left
<1>11. /\ part'[at] = rest /\ mem'[at].chunks = left
       /\ mem'[at].complete = mem[at].complete
       /\ \A f \in Files \ {at} : mem'[f] = mem[f] /\ part'[f] = part[f]
  BY <1>1, <1>3 DEF Data, FileState
<1>12. /\ Rate(part'[at], log[at].chunks) = ValidPrefix(rest, chunks)
       /\ Rate(part'[at], mem'[at].chunks) = ValidPrefix(rest, left)
       /\ Rate(part[at], log[at].chunks) = k
  BY <1>1, <1>5, <1>8, <1>11 DEF Rate
<1>13. QED
  BY <1>1, <1>4, <1>3, <1>9, <1>10, <1>11, <1>12

\* Where the checkpoint agrees with memory, nothing in memory is short of it.
LEMMA AgreedKeeps ==
  ASSUME Data, log = mem
  PROVE  \A f \in Files : Rate(part[f], log[f].chunks) <= Rate(part[f], mem[f].chunks)
<1> TAKE f \in Files
<1>1. part[f] \in Stored /\ log[f].chunks \in Seq({"good", "bad"})
  BY DEF Data, FileState
<1>2. Rate(part[f], log[f].chunks) \in Nat
  BY <1>1, RateType
<1>3. QED
  BY <1>2

LEMMA KeepsStep ==
  Typed /\ Synced /\ Keeps /\ [Next]_vars => Keeps'
<1> SUFFICES ASSUME Typed, Synced, Keeps, [Next]_vars
             PROVE  Keeps'
  OBVIOUS
<1>a. Data /\ Counts /\ (at <= NFiles => at \in Files) /\ at \in Nat
  BY DownloadAssumption DEF Typed, Counts, Files
<1>b. \A f \in Files : f \in Nat /\ f <= NFiles /\ Good(f)' = Good(f) /\ Good(f) # Absent
  BY GoodType, DownloadAssumption DEF Files, Good
<1>c. Data'
  BY DataStep DEF Typed
<1>d. log' = mem' => \A f \in Files :
        Rate(part'[f], log'[f].chunks) <= Rate(part'[f], mem'[f].chunks)
  <2> SUFFICES ASSUME log' = mem', NEW f \in Files
               PROVE  Rate(part'[f], log'[f].chunks) <= Rate(part'[f], mem'[f].chunks)
    OBVIOUS
  <2>1. part'[f] \in Stored /\ log'[f].chunks \in Seq({"good", "bad"})
    BY <1>c DEF Data, FileState
  <2>2. Rate(part'[f], log'[f].chunks) \in Nat
    BY <2>1, RateType
  <2>3. QED
    BY <2>2
<1>e. ASSUME UNCHANGED <<log, logged, part, final>>, pc' = "down" PROVE Keeps'
  BY <1>b, <1>e DEF Keeps
<1>1. ASSUME NEW m \in {"transfer", "verify"}, NEW c \in BOOLEAN, Start(m, c)
      PROVE  Keeps'
  <2>1. /\ pc' = "recover" /\ at' = 1 /\ UNCHANGED <<log, logged, part, final>>
        /\ mem' = IF logged THEN log ELSE Manifest
    BY <1>1, Zenon DEF Start, disk
  <2>2. mem' = log'
    BY <2>1 DEF Synced
  <2>3. \A f \in Files : f >= at'
    BY <2>1 DEF Files
  <2>4. QED
    BY <1>b, <1>d, <2>1, <2>2, <2>3 DEF Keeps
<1>t. CASE TakeBack
  <2>1. /\ at \in Files /\ pc = "recover" /\ UNCHANGED <<log, logged, pc, at>>
        /\ \A f \in Files \ {at} : /\ mem'[f] = mem[f] /\ part'[f] = part[f]
                                   /\ final'[f] = final[f]
        /\ ~ mem'[at].complete /\ final'[at] = Absent
        /\ Rate(part'[at], log[at].chunks) <= Rate(part'[at], mem'[at].chunks)
    BY <1>t, TakeBackKept
  <2>2. \A f \in Files : final'[f] = Good(f) => f # at
    BY <1>b, <2>1
  <2>3. \A f \in Files : log'[f].complete =>
          Len(log'[f].chunks) = Size[f] /\ (final'[f] # Absent => part'[f] = Absent)
    BY <2>1 DEF Keeps
  <2>4. \A f \in Files : mem'[f].complete =>
          Len(mem'[f].chunks) = Size[f] /\ (final'[f] # Absent => part'[f] = Absent)
    BY <2>1 DEF Keeps
  <2>5. \A f \in Files : final'[f] # Good(f) =>
          Rate(part'[f], log'[f].chunks) <= Rate(part'[f], mem'[f].chunks)
    BY <2>1 DEF Keeps
  <2>6. \A f \in Files : final'[f] = Good(f) =>
          /\ part'[f] = Absent /\ Len(log'[f].chunks) = Size[f]
          /\ mem'[f].complete \/ f >= at
    BY <2>1, <2>2 DEF Keeps
  <2>7. QED
    BY <1>b, <2>1, <2>3, <2>4, <2>5, <2>6 DEF Keeps
<1>2. CASE RecoverFile
  <2>1. /\ at \in Files /\ pc = "recover" /\ UNCHANGED <<log, logged, final>>
        /\ pc' = "down" \/ (pc' = "recover" /\ at' = at + 1)
        /\ \A f \in Files \ {at} : mem'[f] = mem[f] /\ part'[f] = part[f]
        /\ part'[at] = Absent <=> part[at] = Absent
    BY <1>2, RecoverFileKept
  <2>2. pc' = "recover" =>
          /\ final[at] # Good(at) => Rate(part'[at], log[at].chunks)
                                       <= Rate(part'[at], mem'[at].chunks)
          /\ mem'[at].complete =>
               /\ Len(mem'[at].chunks) = Size[at]
               /\ final[at] # Absent => part[at] = Absent
          /\ final[at] = Good(at) => mem'[at].complete
    BY <1>2, RecoverFileKept
  <2>3. pc' = "recover" => \A f \in Files : f # at => (f >= at' <=> f >= at)
    BY <1>a, <1>b, <2>1
  <2>4. pc' # "down" => \A f \in Files : final'[f] # Good(f) =>
          Rate(part'[f], log'[f].chunks) <= Rate(part'[f], mem'[f].chunks)
    BY <2>1, <2>2 DEF Keeps
  <2>5. \A f \in Files : log'[f].complete =>
          Len(log'[f].chunks) = Size[f] /\ (final'[f] # Absent => part'[f] = Absent)
    BY <2>1 DEF Keeps
  <2>6. pc' # "down" => \A f \in Files : mem'[f].complete =>
          Len(mem'[f].chunks) = Size[f] /\ (final'[f] # Absent => part'[f] = Absent)
    BY <2>1, <2>2 DEF Keeps
  <2>7. \A f \in Files : final'[f] = Good(f) =>
          part'[f] = Absent /\ Len(log'[f].chunks) = Size[f]
    BY <1>b, <2>1 DEF Keeps
  <2>8. pc' # "down" => \A f \in Files : final'[f] = Good(f) =>
          mem'[f].complete \/ (pc' = "recover" /\ f >= at')
    BY <2>1, <2>2, <2>3 DEF Keeps
  <2>9. QED
    BY <1>b, <2>1, <2>4, <2>5, <2>6, <2>7, <2>8 DEF Keeps
<1>3. CASE Recovered
  <2>1. /\ pc = "recover" /\ at > NFiles /\ pc' = "saving"
        /\ UNCHANGED <<part, final, mem, at>>
        /\ log' = mem /\ (logged' = TRUE \/ (log' = log /\ logged' = logged))
    BY <1>3 DEF Recovered, Kept, Synced
  <2>2. \A f \in Files : ~ (f >= at)
    BY <1>a, <1>b, <2>1, DownloadAssumption
  <2>3. QED
    BY <1>b, <1>d, <2>1, <2>2 DEF Keeps
<1>4. CASE Saved
  <2>1. /\ pc = "saving" /\ pc' \in {"down", "loop"}
        /\ UNCHANGED <<log, logged, part, final, mem>>
    BY <1>4 DEF Saved, End, disk
  <2>2. QED
    BY <1>b, <2>1 DEF Keeps
<1>5. CASE Loop
  <2>1. /\ pc = "loop" /\ pc' \in {"down", "loop", "fetch", "finalize"}
        /\ UNCHANGED <<log, logged, part, final, mem>>
    BY <1>5 DEF Loop, End, disk
  <2>2. /\ pc' \in {"fetch", "finalize"} => ~ mem[at].complete /\ at' = at
        /\ pc' = "finalize" => Len(mem[at].chunks) = Size[at]
    <3>1. CASE at <= NFiles
      <4>1. /\ Len(mem[at].chunks) \in Nat /\ Size[at] \in Nat
            /\ Len(mem[at].chunks) <= Size[at]
        BY <1>a, <3>1, DownloadAssumption, LenProperties DEF Data, FileState, Synced
      <4>2. QED
        BY <1>5, <2>1, <4>1 DEF Loop, End
    <3>2. CASE ~ at <= NFiles
      BY <1>5, <3>2 DEF Loop, End
    <3>3. QED
      BY <3>1, <3>2
  <2>3. QED
    BY <1>b, <2>1, <2>2 DEF Keeps
<1>6. ASSUME NEW c \in {"good", "bad"}, FetchChunk(c)
      PROVE  Keeps'
  <2>1. /\ at \in Files /\ pc = "fetch" /\ pc' = "checkpoint"
        /\ UNCHANGED <<log, logged, final, mem, at>>
        /\ log = mem /\ ~ mem[at].complete
    BY <1>6, <1>a DEF FetchChunk, Counts, Synced, Keeps
  <2>2. \A f \in Files \ {at} : part'[f] = part[f]
    BY <1>6, <1>a, <2>1 DEF FetchChunk, Data
  <2>3. QED
    BY <1>b, <1>d, <2>1, <2>2 DEF Keeps
<1>7. CASE FetchFails
  <2>1. /\ at \in Files /\ pc = "fetch" /\ pc' \in {"fetch", "down"}
        /\ UNCHANGED <<log, logged, final, mem, at>>
        /\ log = mem /\ ~ mem[at].complete
    BY <1>7, <1>a DEF FetchFails, End, Counts, Synced, Keeps
  <2>2. \A f \in Files \ {at} : part'[f] = part[f]
    BY <1>7, <1>a, <2>1 DEF FetchFails, Data
  <2>3. QED
    BY <1>b, <1>d, <2>1, <2>2 DEF Keeps
<1>8. CASE Refused
  BY <1>8, <1>e DEF Refused, End, disk
<1>9. CASE Checkpoint
  <2>1. /\ at \in Files /\ pc = "checkpoint" /\ pc' = "loop"
        /\ UNCHANGED <<part, final>> /\ log' = mem' /\ logged' = TRUE
        /\ log = mem /\ ~ mem[at].complete
    BY <1>9, <1>a DEF Checkpoint, Kept, Counts, Synced, Keeps
  <2>2. /\ \A f \in Files \ {at} : mem'[f] = mem[f]
        /\ ~ mem'[at].complete
    BY <1>9, <1>a, <2>1 DEF Checkpoint, Data, FileState
  <2>3. final[at] # Good(at)
    BY <2>1 DEF Keeps
  <2>4. QED
    BY <1>b, <1>d, <2>1, <2>2, <2>3 DEF Keeps
<1>10. CASE Finalize
  <2>1. CASE pc' # "published"
    <3>1. /\ at \in Files /\ pc = "finalize" /\ pc' = "failing"
          /\ UNCHANGED <<log, logged, final>>
          /\ \A f \in Files \ {at} : mem'[f] = mem[f] /\ part'[f] = part[f]
          /\ ~ mem'[at].complete
          /\ Rate(part'[at], log[at].chunks) <= Rate(part'[at], mem'[at].chunks)
      BY <1>10, <2>1, FinalizeKept
    <3>2. log = mem /\ final[at] # Good(at) /\ ~ mem[at].complete
      BY <3>1 DEF Synced, Keeps
    <3>3. QED
      BY <1>b, <3>1, <3>2 DEF Keeps
  <2>2. CASE pc' = "published"
    <3>1. /\ final' = [final EXCEPT ![at] = Good(at)]
          /\ part' = [part EXCEPT ![at] = Absent]
          /\ mem' = [mem EXCEPT ![at].complete = TRUE]
          /\ pc = "finalize" /\ UNCHANGED <<log, logged>>
      BY <1>10, <2>2, Zenon DEF Finalize, ChecksumMatches
    <3>2. at \in Files /\ log = mem /\ Len(mem[at].chunks) = Size[at]
      BY <1>a, <3>1 DEF Counts, Synced, Keeps
    <3>3. /\ \A f \in Files \ {at} : /\ final'[f] = final[f] /\ part'[f] = part[f]
                                     /\ mem'[f] = mem[f]
          /\ final'[at] = Good(at) /\ part'[at] = Absent
          /\ mem'[at].complete /\ mem'[at].chunks = mem[at].chunks
      BY <1>a, <3>1, <3>2 DEF Data, FileState
    <3>4. \A f \in Files : log'[f].chunks = mem'[f].chunks
      BY <3>1, <3>2, <3>3
    <3>5. \A f \in Files : Rate(part'[f], log'[f].chunks) <= Rate(part'[f], mem'[f].chunks)
      <4> TAKE f \in Files
      <4>1. part'[f] \in Stored /\ log'[f].chunks \in Seq({"good", "bad"})
        BY <1>c DEF Data, FileState
      <4>2. Rate(part'[f], log'[f].chunks) \in Nat
        BY <4>1, RateType
      <4>3. QED
        BY <3>4, <4>2
    <3>6. QED
      BY <1>b, <2>2, <3>1, <3>2, <3>3, <3>5 DEF Keeps
  <2>3. QED
    BY <2>1, <2>2
<1>11. CASE CheckpointFile
  <2>1. /\ pc \in {"published", "failing"} /\ pc' \in {"loop", "down"}
        /\ log' = mem /\ logged' = TRUE /\ UNCHANGED <<part, final, mem>>
    BY <1>11 DEF CheckpointFile, Kept, End
  <2>2. QED
    BY <1>b, <1>d, <2>1 DEF Keeps
<1>12. CASE Crash
  BY <1>12, <1>e DEF Crash, End, disk
<1>13. CASE Rot
  <2>1. pc' = "down" /\ UNCHANGED <<log, logged>>
    BY <1>13 DEF Rot
  <2>2. /\ \A f \in Files : part'[f] = Absent <=> part[f] = Absent
        /\ \A f \in Files : final'[f] = Absent <=> final[f] = Absent
        /\ \A f \in Files : final'[f] = Good(f) => final[f] = Good(f)
    <3>1. ASSUME NEW f \in Files, part[f] # Absent, NEW i \in DOMAIN part[f],
                 part' = [part EXCEPT ![f][i] = "rot"], final' = final
          PROVE  \A g \in Files : part'[g] = Absent <=> part[g] = Absent
      <4>1. part[f] \in Seq(Content)
        BY <1>a, <3>1 DEF Data, Stored
      <4>2. [part[f] EXCEPT ![i] = "rot"] \in Seq(Content)
        BY <4>1, <3>1, ExceptSeq, LenProperties DEF Content
      <4>3. part'[f] = [part[f] EXCEPT ![i] = "rot"]
        BY <1>a, <3>1 DEF Data
      <4>4. part'[f] # Absent
        BY <4>2, <4>3, NoPartIsAbsent
      <4>5. QED
        BY <1>a, <3>1, <4>4 DEF Data
    <3>2. ASSUME NEW f \in Files, final[f] # Absent, NEW i \in DOMAIN final[f],
                 final' = [final EXCEPT ![f][i] = "decay"], part' = part
          PROVE  /\ \A g \in Files : final'[g] = Absent <=> final[g] = Absent
                 /\ \A g \in Files : final'[g] = Good(g) => final[g] = Good(g)
      <4>1. final[f] \in Seq(Content)
        BY <1>a, <3>2 DEF Data, Stored
      <4>2. /\ [final[f] EXCEPT ![i] = "decay"] \in Seq(Content)
            /\ DOMAIN [final[f] EXCEPT ![i] = "decay"] = DOMAIN final[f]
        BY <4>1, <3>2, ExceptSeq, LenProperties DEF Content
      <4>3. final'[f] = [final[f] EXCEPT ![i] = "decay"]
        BY <1>a, <3>2 DEF Data
      <4>4. final'[f] # Absent
        BY <4>2, <4>3, NoPartIsAbsent
      <4>5. final'[f][i] = "decay"
        BY <3>2, <4>3
      <4>6. final'[f] # Good(f)
        <5> SUFFICES ASSUME final'[f] = Good(f) PROVE FALSE
          OBVIOUS
        <5>1. i \in DOMAIN Good(f)
          BY <3>2, <4>2, <4>3
        <5>2. Good(f)[i] = "good"
          BY <5>1 DEF Good
        <5>3. QED
          BY <4>5, <5>2
      <4>7. \A g \in Files \ {f} : final'[g] = final[g]
        BY <1>a, <3>2 DEF Data
      <4>8. QED
        BY <3>2, <4>4, <4>6, <4>7
    <3>3. QED
      BY <1>13, <3>1, <3>2, Zenon DEF Rot
  <2>3. QED
    BY <1>b, <2>1, <2>2 DEF Keeps
<1>14. CASE UNCHANGED vars
  BY <1>14, <1>b DEF vars, disk, Keeps
<1>15. QED
  BY <1>1, <1>t, <1>2, <1>3, <1>4, <1>5, <1>6, <1>7, <1>8, <1>9, <1>10, <1>11,
     <1>12, <1>13, <1>14 DEF Next, Run

\* No step of a session gives up a chunk that is secured.
LEMMA SecuredStep ==
  Typed /\ Synced /\ Keeps /\ [Next]_vars =>
    \A f \in Files : \/ Secured(f)' >= Secured(f)
                     \/ pc = "down"
                     \/ (pc = "finalize" /\ Secured(f) = Size[f])
<1> SUFFICES ASSUME Typed, Synced, Keeps, [Next]_vars,
                    pc # "down", NEW f \in Files,
                    ~ (pc = "finalize" /\ Secured(f) = Size[f])
             PROVE  Secured(f)' >= Secured(f)
  OBVIOUS
<1> DEFINE chunks == log[f].chunks
<1>a. Data /\ Counts /\ (at <= NFiles => at \in Files) /\ Good(f)' = Good(f)
  BY DownloadAssumption DEF Typed, Counts, Files, Good
<1>b. Data'
  BY DataStep DEF Typed
<1>c. /\ Secured(f) = IF final[f] = Good(f) THEN Size[f] ELSE Rate(part[f], log[f].chunks)
      /\ Secured(f)' = IF final'[f] = Good(f) THEN Size[f] ELSE Rate(part'[f], log'[f].chunks)
  BY <1>a DEF Secured, Rate
<1>d. /\ Rate(part[f], log[f].chunks) \in Nat /\ Rate(part'[f], log'[f].chunks) \in Nat
      /\ Size[f] \in Nat /\ Rate(part[f], log[f].chunks) <= Size[f]
  <2>1. /\ part[f] \in Stored /\ log[f].chunks \in Seq({"good", "bad"})
        /\ part'[f] \in Stored /\ log'[f].chunks \in Seq({"good", "bad"})
    BY <1>a, <1>b DEF Data, FileState
  <2>2. Len(log[f].chunks) \in Nat /\ Size[f] \in Nat /\ Len(log[f].chunks) <= Size[f]
    BY <2>1, LenProperties, DownloadAssumption DEF Synced
  <2>3. /\ Rate(part[f], log[f].chunks) \in Nat
        /\ Rate(part[f], log[f].chunks) <= Len(log[f].chunks)
    BY <2>1, RateType
  <2>4. Rate(part'[f], log'[f].chunks) \in Nat
    BY <2>1, RateType
  <2>5. QED
    BY <2>2, <2>3, <2>4
<1>e. ASSUME final'[f] = Good(f) PROVE Secured(f)' >= Secured(f)
  BY <1>c, <1>d, <1>e
<1>f. ASSUME final'[f] = final[f],
             Rate(part[f], log[f].chunks) <= Rate(part'[f], log'[f].chunks)
      PROVE  Secured(f)' >= Secured(f)
  BY <1>c, <1>d, <1>f
<1>g. ASSUME UNCHANGED <<log, part, final>> PROVE Secured(f)' >= Secured(f)
  BY <1>c, <1>d, <1>g
<1>h. ASSUME UNCHANGED <<part, final>>, log' = mem PROVE Secured(f)' >= Secured(f)
  BY <1>c, <1>d, <1>h DEF Keeps
<1>1. ASSUME NEW m \in {"transfer", "verify"}, NEW c \in BOOLEAN, Start(m, c)
      PROVE  Secured(f)' >= Secured(f)
  BY <1>1 DEF Start
<1>t. CASE TakeBack
  <2>1. /\ at \in Files /\ UNCHANGED log
        /\ \A g \in Files \ {at} : part'[g] = part[g] /\ final'[g] = final[g]
        /\ final[at] # Good(at) /\ final'[at] # Good(at)
        /\ Rate(part[at], log[at].chunks) <= Rate(part'[at], log[at].chunks)
    BY <1>t, TakeBackKept, GoodType
  <2>2. QED
    BY <1>c, <1>d, <2>1
<1>2. CASE RecoverFile
  <2>1. /\ at \in Files /\ UNCHANGED <<log, final>>
        /\ \A g \in Files \ {at} : part'[g] = part[g]
        /\ final[at] # Good(at) => Rate(part[at], log[at].chunks)
                                     <= Rate(part'[at], log[at].chunks)
    BY <1>2, RecoverFileKept
  <2>2. QED
    BY <1>c, <1>d, <2>1
<1>3. CASE Recovered
  BY <1>3, <1>g, <1>h DEF Recovered, Kept
<1>4. CASE Saved
  BY <1>4, <1>g DEF Saved, disk
<1>5. CASE Loop
  BY <1>5, <1>g DEF Loop, disk
<1>6. ASSUME NEW c \in Content, at \in Files, log = mem, UNCHANGED <<log, final>>,
             part' = [part EXCEPT ![at] = Written(part[at], Len(mem[at].chunks), c)]
      PROVE  Secured(f)' >= Secured(f)
  <2>1. CASE f # at
    <3>1. part'[f] = part[f]
      BY <1>a, <1>6, <2>1 DEF Data
    <3>2. QED
      BY <1>c, <1>d, <1>6, <3>1
  <2>2. CASE f = at
    <3>1. part'[f] = Written(part[f], Len(chunks), c) /\ log'[f].chunks = chunks
      BY <1>a, <1>6, <2>2 DEF Data
    <3>2. Rate(part[f], chunks) <= Rate(part'[f], log'[f].chunks)
      <4>1. CASE part[f] = Absent
        BY <1>d, <4>1 DEF Rate
      <4>2. CASE part[f] # Absent
        <5>1. part[f] \in Seq(Content) /\ chunks \in Seq({"good", "bad"})
          BY <1>a, <4>2 DEF Data, FileState, Stored
        <5>2. /\ Written(part[f], Len(chunks), c) \in Seq(Content)
              /\ ValidPrefix(Written(part[f], Len(chunks), c), chunks)
                   >= ValidPrefix(part[f], chunks)
          BY <5>1, WrittenStays
        <5>3. part'[f] # Absent
          BY <3>1, <5>2, NoPartIsAbsent
        <5>4. /\ Rate(part[f], chunks) = ValidPrefix(part[f], chunks)
              /\ Rate(part'[f], log'[f].chunks)
                   = ValidPrefix(Written(part[f], Len(chunks), c), chunks)
          BY <3>1, <4>2, <5>3 DEF Rate
        <5>5. QED
          BY <1>d, <5>2, <5>4
      <4>3. QED
        BY <4>1, <4>2
    <3>3. QED
      BY <1>6, <1>f, <3>2
  <2>3. QED
    BY <2>1, <2>2
<1>7. ASSUME NEW c \in {"good", "bad"}, FetchChunk(c)
      PROVE  Secured(f)' >= Secured(f)
  <2>1. /\ c \in Content /\ at \in Files /\ log = mem /\ UNCHANGED <<log, final>>
        /\ part' = [part EXCEPT ![at] = Written(part[at], Len(mem[at].chunks), c)]
    BY <1>7, <1>a DEF FetchChunk, Counts, Synced, Content
  <2>2. QED
    BY <2>1, <1>6
<1>8. CASE FetchFails
  <2>1. /\ "rot" \in Content /\ at \in Files /\ log = mem /\ UNCHANGED <<log, final>>
        /\ \/ part' = part
           \/ part' = [part EXCEPT ![at] = Written(part[at], Len(mem[at].chunks), "rot")]
    BY <1>8, <1>a DEF FetchFails, Counts, Synced, Content
  <2>2. QED
    BY <2>1, <1>6, <1>g
<1>9. CASE Refused
  BY <1>9, <1>g DEF Refused, disk
<1>10. CASE Checkpoint
  <2>1. /\ at \in Files /\ UNCHANGED <<part, final>> /\ log = mem /\ got \in {"good", "bad"}
        /\ log' = [mem EXCEPT ![at].chunks = Append(mem[at].chunks, got)]
    BY <1>10, <1>a DEF Checkpoint, Kept, Counts, Synced
  <2>2. CASE f # at
    <3>1. log'[f] = log[f] /\ final'[f] = final[f] /\ part'[f] = part[f]
      BY <1>a, <2>1, <2>2 DEF Data
    <3>2. Rate(part[f], log[f].chunks) <= Rate(part'[f], log'[f].chunks)
      BY <1>d, <3>1
    <3>3. QED
      BY <1>f, <3>1, <3>2
  <2>3. CASE f = at
    <3>1. log'[f].chunks = Append(chunks, got)
      BY <1>a, <2>1, <2>3 DEF Data, FileState
    <3>2. Rate(part[f], chunks) <= Rate(part[f], Append(chunks, got))
      <4>1. CASE part[f] = Absent
        BY <4>1 DEF Rate
      <4>2. CASE part[f] # Absent
        <5>1. part[f] \in Seq(Content) /\ chunks \in Seq({"good", "bad"})
          BY <1>a, <4>2 DEF Data, FileState, Stored
        <5>2. ValidPrefix(part[f], Append(chunks, got)) >= ValidPrefix(part[f], chunks)
          BY <2>1, <5>1, AppendStays
        <5>3. /\ ValidPrefix(part[f], chunks) \in Nat
              /\ ValidPrefix(part[f], Append(chunks, got)) \in Nat
          BY <1>d, <2>1, <3>1, <4>2 DEF Rate
        <5>4. QED
          BY <4>2, <5>2, <5>3 DEF Rate
      <4>3. QED
        BY <4>1, <4>2
    <3>3. QED
      BY <1>f, <2>1, <3>1, <3>2
  <2>4. QED
    BY <2>2, <2>3
<1>11. CASE Finalize
  <2>1. CASE pc' = "published"
    <3>1. /\ final' = [final EXCEPT ![at] = Good(at)]
          /\ part' = [part EXCEPT ![at] = Absent]
          /\ pc = "finalize" /\ UNCHANGED log
      BY <1>11, <2>1, Zenon DEF Finalize, ChecksumMatches
    <3>2. at \in Files
      BY <1>a, <3>1 DEF Counts
    <3>3. CASE f = at
      <4>1. final'[f] = Good(f)
        BY <1>a, <3>1, <3>2, <3>3 DEF Data
      <4>2. QED
        BY <1>e, <4>1
    <3>4. CASE f # at
      <4>1. final'[f] = final[f] /\ part'[f] = part[f]
        BY <1>a, <3>1, <3>2, <3>4 DEF Data
      <4>2. QED
        BY <1>c, <1>d, <3>1, <4>1
    <3>5. QED
      BY <3>3, <3>4
  <2>2. CASE pc' # "published"
    <3>1. /\ at \in Files /\ pc = "finalize" /\ UNCHANGED <<log, final>>
          /\ \A g \in Files \ {at} : part'[g] = part[g]
          /\ \/ Rate(part[at], log[at].chunks) <= Rate(part'[at], log[at].chunks)
             \/ Rate(part[at], log[at].chunks) = Size[at]
      BY <1>11, <2>2, FinalizeKept
    <3>2. QED
      BY <1>c, <1>d, <3>1
  <2>3. QED
    BY <2>1, <2>2
<1>12. CASE CheckpointFile
  BY <1>12, <1>h DEF CheckpointFile, Kept
<1>13. CASE Crash
  BY <1>13, <1>g DEF Crash, disk
<1>14. CASE Rot
  BY <1>14 DEF Rot
<1>15. CASE UNCHANGED vars
  BY <1>15, <1>g DEF vars, disk
<1>16. QED
  BY <1>1, <1>t, <1>2, <1>3, <1>4, <1>5, <1>7, <1>8, <1>9, <1>10, <1>11,
     <1>12, <1>13, <1>14, <1>15 DEF Next, Run

LEMMA KeepsInit == Init => Keeps
<1> SUFFICES ASSUME Init PROVE Keeps
  OBVIOUS
<1>1. \A f \in Files : final[f] # Good(f) /\ ~ log[f].complete
  BY GoodType DEF Init, Manifest, NoChunks
<1>2. QED
  BY <1>1 DEF Init, Keeps

\* Whatever crashed before and whatever rotted, no step of any session gives up a
\* chunk the disk secures, except those of a file that the provider served whole
\* and wrong.
THEOREM SecuredStays == Spec => SecuredIsKept
<1>1. Init => Synced
  BY RecoverableInit
<1>2. Typed /\ Synced /\ Keeps /\ [Next]_vars =>
        [\A f \in Files :
           \/ Secured(f)' >= Secured(f)
           \/ pc = "down"
           \/ (pc = "finalize" /\ Secured(f) = Size[f])]_vars
  BY SecuredStep
<1>3. Typed /\ Synced /\ Keeps /\ [Next]_vars => Synced' /\ Keeps'
  BY SyncedStep, KeepsStep
<1>4. QED
  BY <1>1, <1>2, <1>3, KeepsInit, TypedInit, TypedStep, PTL DEF Spec, SecuredIsKept
-----------------------------------------------------------------------------
(* What is published.                                                      *)

\* What a process takes for complete, it has seen under its final name, as far as
\* recovery has come.
Stands ==
  pc # "down" => \A f \in Files : mem[f].complete =>
    final[f] # Absent \/ (pc = "recover" /\ f >= at)

LEMMA StandsStep == Typed /\ Stands /\ [Next]_vars => Stands'
<1> SUFFICES ASSUME Typed, Stands, [Next]_vars PROVE Stands'
  OBVIOUS
<1>a. Data /\ Counts /\ (at <= NFiles => at \in Files)
  BY DownloadAssumption DEF Typed, Counts, Files
<1>b. /\ NFiles \in Nat /\ at \in Nat
      /\ \A f \in Files : f \in Nat /\ f >= 1 /\ f <= NFiles
  BY <1>a, DownloadAssumption DEF Counts, Files
<1>c. ASSUME UNCHANGED <<mem, final>>, pc # "recover", pc' # "recover",
             pc = "down" => pc' = "down"
      PROVE  Stands'
  BY <1>c DEF Stands
<1>1. ASSUME NEW m \in {"transfer", "verify"}, NEW c \in BOOLEAN, Start(m, c)
      PROVE  Stands'
  <2>1. pc' = "recover" /\ at' = 1
    BY <1>1 DEF Start
  <2>2. QED
    BY <1>b, <2>1 DEF Stands
<1>t. CASE TakeBack
  <2>1. /\ at \in Files /\ pc = "recover" /\ UNCHANGED <<pc, at>>
        /\ final' = [final EXCEPT ![at] = Absent]
        /\ mem' = [mem EXCEPT ![at].complete = FALSE]
    BY <1>t, <1>a DEF TakeBack
  <2>2. /\ \A f \in Files \ {at} : mem'[f] = mem[f] /\ final'[f] = final[f]
        /\ ~ mem'[at].complete
    BY <1>a, <2>1 DEF Data, FileState
  <2>3. QED
    BY <2>1, <2>2 DEF Stands
<1>2. CASE RecoverFile
  <2>1. /\ at \in Files /\ pc = "recover" /\ (pc' = "recover" \/ pc' = "down")
        /\ final' = final
    BY <1>2, <1>a, RecoverFileCounts DEF End
  <2>2. CASE pc' = "down"
    BY <2>2 DEF Stands
  <2>3. CASE pc' = "recover"
    <3>1. /\ \A f \in Files \ {at} : mem'[f] = mem[f]
          /\ at' = at + 1
          /\ mem'[at].complete => final[at] # Absent
      <4>1. CASE /\ RenameCrashed(at) /\ mem' = [mem EXCEPT ![at].complete = TRUE]
                 /\ at' = at + 1
        BY <1>a, <2>1, <4>1 DEF Data, RenameCrashed, Valid
      <4>2. CASE Valid(at, deep) /\ at' = at + 1 /\ mem' = mem
        BY <4>2 DEF Valid
      <4>3. CASE /\ ~ mem[at].complete /\ ~ TooShort(part[at], mem[at].chunks)
                 /\ RecoverPartial(at) /\ at' = at + 1
        <5>1. PICK kept \in Seq({"good", "bad"}) : mem' = [mem EXCEPT ![at].chunks = kept]
          BY <1>a, <2>1, <4>3, RecoverPartialData DEF Typed
        <5>2. QED
          BY <1>a, <2>1, <4>3, <5>1 DEF Data, FileState
      <4>4. QED
        BY <1>2, <2>3, <4>1, <4>2, <4>3, RecoverFileData DEF End
    <3>2. \A f \in Files : f >= at /\ f # at => f >= at'
      BY <1>b, <3>1
    <3>3. QED
      BY <2>1, <2>3, <3>1, <3>2 DEF Stands
  <2>4. QED
    BY <2>1, <2>2, <2>3
<1>3. CASE Recovered
  <2>1. /\ pc = "recover" /\ at > NFiles /\ pc' = "saving" /\ UNCHANGED <<mem, final>>
    BY <1>3 DEF Recovered
  <2>2. QED
    BY <1>b, <2>1 DEF Stands
<1>4. CASE Saved \/ Loop \/ FetchFails \/ Refused \/ CheckpointFile \/ Crash
  <2>1. CASE pc' = "down"
    BY <2>1 DEF Stands
  <2>2. CASE pc' # "down"
    BY <1>4, <2>2, <1>c DEF Saved, Loop, FetchFails, Refused, CheckpointFile, Crash,
       End, disk
  <2>3. QED
    BY <2>1, <2>2
<1>5. ASSUME NEW c \in {"good", "bad"}, FetchChunk(c) PROVE Stands'
  BY <1>5, <1>c DEF FetchChunk
<1>6. CASE Checkpoint
  <2>1. pc = "checkpoint" /\ pc' = "loop" /\ final' = final /\ at \in Files
        /\ mem' = [mem EXCEPT ![at].chunks = Append(@, got)]
    BY <1>6, <1>a DEF Checkpoint, Counts
  <2>2. \A f \in Files : mem'[f].complete = mem[f].complete
    BY <1>a, <2>1 DEF Data, FileState
  <2>3. QED
    BY <2>1, <2>2 DEF Stands
<1>7. CASE Finalize
  <2>1. at \in Files /\ pc = "finalize"
    BY <1>7, <1>a DEF Finalize, Counts
  <2>2. CASE ~ pc' = "published"
    <3>1. PICK kept \in Seq({"good", "bad"}) :
            mem' = [mem EXCEPT ![at].chunks = kept] /\ pc' = "failing" /\ final' = final
      BY <1>7, <1>a, <2>1, <2>2, FinalizeData
    <3>2. \A f \in Files : mem'[f].complete = mem[f].complete
      BY <1>a, <2>1, <3>1 DEF Data, FileState
    <3>3. QED
      BY <2>1, <3>1, <3>2 DEF Stands
  <2>3. CASE pc' = "published"
    <3>1. /\ final' = [final EXCEPT ![at] = Good(at)]
          /\ mem' = [mem EXCEPT ![at].complete = TRUE]
      BY <1>7, <2>3, Zenon DEF Finalize, ChecksumMatches
    <3>2. \A f \in Files \ {at} : final'[f] = final[f] /\ mem'[f] = mem[f]
      BY <1>a, <2>1, <3>1 DEF Data
    <3>3. final'[at] # Absent
      BY <1>a, <2>1, <3>1, GoodType DEF Data
    <3>4. QED
      BY <2>1, <2>3, <3>2, <3>3 DEF Stands
  <2>4. QED
    BY <2>2, <2>3
<1>8. CASE Rot
  BY <1>8 DEF Rot, Stands
<1>9. CASE UNCHANGED vars
  <2>1. UNCHANGED <<final, pc, mem, at>>
    BY <1>9 DEF vars
  <2>2. QED
    BY <2>1 DEF Stands
<1>10. QED
  BY <1>1, <1>t, <1>2, <1>3, <1>4, <1>5, <1>6, <1>7, <1>8, <1>9 DEF Next, Run

\* Whatever has its final name was verified; what the checkpoint calls complete is
\* there, except that a part file holds what recovery has taken back; and every
\* file is there when a session reports success.
Covered ==
  /\ \A f \in Files : final[f] # Absent => Published(f)
  /\ \A f \in Files : log[f].complete =>
       final[f] # Absent \/ (pc \in {"down", "recover"} /\ part[f] # Absent)
  /\ pc = "recover" => \A f \in Files : f >= at /\ mem[f].complete => log[f].complete
  /\ status \in {"complete", "verified"} => \A f \in Files : final[f] # Absent

\* What is under a final name and verified is there.
LEMMA PublishedIsThere ==
  ASSUME NEW f \in Files
  PROVE  (final[f] = Good(f) => Published(f)) /\ (Published(f) => final[f] # Absent)
<1>1. final[f] = Good(f) => Published(f)
  BY GoodType DEF Good, Published
<1>2. Published(f) => final[f] # Absent
  <2> SUFFICES ASSUME Published(f), final[f] = Absent PROVE FALSE
    OBVIOUS
  <2>1. 1 \in DOMAIN final[f] /\ final[f][1] = "absent"
    BY DEF Absent
  <2>2. QED
    BY <2>1 DEF Published
<1>3. QED
  BY <1>1, <1>2

\* It stays what was verified when one of its chunks decays.
LEMMA PublishedStays ==
  ASSUME Data, NEW f \in Files, Published(f), NEW i \in DOMAIN final[f],
         final' = [final EXCEPT ![f][i] = "decay"]
  PROVE  Published(f)'
<1>1. final[f] \in Seq(Content)
  BY PublishedIsThere DEF Data, Stored
<1>2. /\ final'[f] = [final[f] EXCEPT ![i] = "decay"]
      /\ Len([final[f] EXCEPT ![i] = "decay"]) = Len(final[f])
      /\ DOMAIN [final[f] EXCEPT ![i] = "decay"] = DOMAIN final[f]
  BY <1>1, ExceptSeq, LenProperties DEF Data, Content
<1>3. \A j \in DOMAIN final'[f] : final'[f][j] \in {"good", "decay"}
  BY <1>2 DEF Published
<1>4. QED
  BY <1>2, <1>3 DEF Published

LEMMA CoveredStep ==
  Typed /\ Synced /\ Claims /\ Stands /\ Covered /\ [Next]_vars => Covered'
<1> SUFFICES ASSUME Typed, Synced, Claims, Stands, Covered, [Next]_vars
             PROVE  Covered'
  OBVIOUS
<1>a. Data /\ Counts /\ (at <= NFiles => at \in Files) /\ NFiles \in Nat
      /\ at \in Nat /\ \A f \in Files : f \in Nat /\ f <= NFiles
  BY DownloadAssumption DEF Typed, Counts, Files
<1>b. \A f \in Files : final'[f] = final[f] => Published(f)' = Published(f)
  BY DEF Published
<1>c. pc # "down" => status = "none"
  BY DEF Claims
<1>d. pc \notin {"down", "recover"} =>
        /\ \A f \in Files : log[f].complete => final[f] # Absent
        /\ \A f \in Files : mem[f].complete => final[f] # Absent
  BY DEF Covered, Stands
\* A step that leaves files and checkpoint alone, past recovery.
<1>e. ASSUME UNCHANGED <<log, final>>, pc \notin {"down", "recover"}, pc' # "recover",
             status' \notin {"complete", "verified"}
      PROVE  Covered'
  BY <1>b, <1>d, <1>e DEF Covered
\* The checkpoint of what the process knows.
<1>f. ASSUME UNCHANGED final, pc # "down", pc = "recover" => at > NFiles,
             \A f \in Files : log'[f].complete = mem[f].complete,
             pc' # "recover", status' \notin {"complete", "verified"}
      PROVE  Covered'
  <2>1. \A f \in Files : log'[f].complete => final[f] # Absent
    BY <1>a, <1>f DEF Stands
  <2>2. QED
    BY <1>b, <1>f, <2>1 DEF Covered
<1>1. ASSUME NEW m \in {"transfer", "verify"}, NEW c \in BOOLEAN, Start(m, c)
      PROVE  Covered'
  <2>1. /\ pc' = "recover" /\ UNCHANGED <<log, part, final>> /\ status' = "none"
        /\ mem' = IF logged THEN log ELSE Manifest
    BY <1>1 DEF Start, disk
  <2>2. mem' = log
    BY <2>1 DEF Synced
  <2>3. QED
    BY <1>b, <2>1, <2>2 DEF Covered
<1>t. CASE TakeBack
  <2>1. /\ at \in Files /\ pc = "recover" /\ UNCHANGED <<log, pc, at, status>>
        /\ mem[at].complete
        /\ final' = [final EXCEPT ![at] = Absent]
        /\ part' = [part EXCEPT ![at] = IF final[at] = Absent THEN part[at] ELSE final[at]]
        /\ mem' = [mem EXCEPT ![at].complete = FALSE]
    BY <1>t, <1>a DEF TakeBack
  <2>2. log[at].complete
    BY <1>a, <2>1 DEF Covered
  <2>3. /\ \A f \in Files \ {at} : /\ mem'[f] = mem[f] /\ part'[f] = part[f]
                                   /\ final'[f] = final[f]
        /\ ~ mem'[at].complete /\ final'[at] = Absent /\ part'[at] # Absent
    <3>1. final[at] = Absent => part[at] # Absent
      BY <2>1, <2>2 DEF Covered
    <3>2. part'[at] = IF final[at] = Absent THEN part[at] ELSE final[at]
      BY <1>a, <2>1 DEF Data
    <3>3. QED
      BY <1>a, <2>1, <3>1, <3>2 DEF Data, FileState
  <2>4. QED
    BY <1>b, <1>c, <2>1, <2>3 DEF Covered
<1>2. CASE RecoverFile
  <2>1. /\ at \in Files /\ pc = "recover" /\ UNCHANGED <<log, final>>
        /\ status' \in {"none", "failed"}
        /\ (pc' = pc /\ at' \in {at, at + 1}) \/ pc' = "down"
    BY <1>2, <1>a, <1>c, RecoverFileCounts DEF End
  <2>2. /\ \A f \in Files : part'[f] = Absent <=> part[f] = Absent
        /\ \A f \in Files \ {at} : mem'[f] = mem[f]
        /\ pc' = pc => at' = at + 1
    <3>1. CASE mem' = [mem EXCEPT ![at].complete = TRUE] /\ part' = part /\ at' = at + 1
      BY <1>a, <2>1, <3>1 DEF Data
    <3>2. CASE UNCHANGED <<mem, part>> /\ (at' = at + 1 \/ End("failed"))
      BY <2>1, <3>2 DEF End
    <3>3. CASE /\ ~ TooShort(part[at], mem[at].chunks) /\ RecoverPartial(at)
               /\ at' = at + 1
      <4>1. PICK kept \in Seq({"good", "bad"}), q \in Stored :
               /\ part' = [part EXCEPT ![at] = q]
               /\ mem' = [mem EXCEPT ![at].chunks = kept]
               /\ q = Absent <=> part[at] = Absent
        BY <1>a, <2>1, <3>3, RecoverPartialData DEF Typed
      <4>2. QED
        BY <1>a, <2>1, <3>3, <4>1 DEF Data
    <3>4. QED
      BY <1>2, <3>1, <3>2, <3>3, RecoverFileData
  <2>3. pc' = pc => \A f \in Files : f >= at' => f # at /\ f >= at
    BY <1>a, <2>2
  <2>4. QED
    BY <1>b, <2>1, <2>2, <2>3 DEF Covered
<1>3. CASE Recovered
  <2>1. /\ pc = "recover" /\ at > NFiles /\ pc' = "saving"
        /\ UNCHANGED <<final, status>> /\ log' = mem
    BY <1>3 DEF Recovered, Kept, Synced
  <2>2. QED
    BY <1>c, <1>f, <2>1
<1>4. CASE Saved \/ Loop
  <2>1. /\ pc \in {"saving", "loop"} /\ UNCHANGED <<log, final, mem>>
        /\ pc' # "recover"
    BY <1>4 DEF Saved, Loop, End, disk
  <2>2. CASE status' \notin {"complete", "verified"}
    BY <1>e, <2>1, <2>2
  <2>3. CASE status' \in {"complete", "verified"}
    <3>1. \A f \in Files : mem[f].complete
      <4>1. status' = "verified" => \A f \in Files : mem[f].complete
        BY <1>4, <1>c, <2>1 DEF Saved, Loop, End
      <4>2. status' = "complete" => pc = "loop" /\ at > NFiles
        BY <1>4, <1>c, <2>1 DEF Saved, Loop, End
      <4>3. at > NFiles => \A f \in Files : f < at
        BY <1>a
      <4>4. QED
        BY <2>3, <4>1, <4>2, <4>3 DEF Claims
    <3>2. QED
      BY <1>b, <1>d, <2>1, <3>1 DEF Covered
  <2>4. QED
    BY <2>2, <2>3
<1>6. ASSUME NEW c \in {"good", "bad"}, FetchChunk(c)
      PROVE  Covered'
  BY <1>6, <1>c, <1>e DEF FetchChunk
<1>7. CASE FetchFails
  <2>1. /\ pc = "fetch" /\ pc' \in {"fetch", "down"} /\ UNCHANGED <<log, final>>
        /\ status' \in {status, "failed"}
    BY <1>7 DEF FetchFails, End
  <2>2. QED
    BY <2>1, <1>c, <1>e
<1>8. CASE Refused
  BY <1>8, <1>e DEF Refused, End, disk
<1>9. CASE Checkpoint
  <2>1. /\ at \in Files /\ pc = "checkpoint" /\ pc' = "loop" /\ log' = mem'
        /\ UNCHANGED <<final, status>>
        /\ mem' = [mem EXCEPT ![at].chunks = Append(@, got)]
    BY <1>9, <1>a DEF Checkpoint, Kept, Counts
  <2>2. \A f \in Files : log'[f].complete = mem[f].complete
    BY <1>a, <2>1 DEF Data, FileState
  <2>3. QED
    BY <1>c, <1>f, <2>1, <2>2
<1>10. CASE Finalize
  <2>1. at \in Files /\ pc = "finalize" /\ UNCHANGED <<log, status>>
    BY <1>10, <1>a DEF Finalize, Counts
  <2>2. CASE ~ pc' = "published"
    <3>1. pc' = "failing" /\ final' = final
      BY <1>10, <1>a, <2>1, <2>2, FinalizeData
    <3>2. QED
      BY <1>c, <1>e, <2>1, <3>1
  <2>3. CASE pc' = "published"
    <3>1. final' = [final EXCEPT ![at] = Good(at)]
      BY <1>10, <2>3, Zenon DEF Finalize, ChecksumMatches
    <3>2. final'[at] = Good(at) /\ \A f \in Files \ {at} : final'[f] = final[f]
      BY <1>a, <2>1, <3>1 DEF Data
    <3>3. \A f \in Files : f = at => final'[f] # Absent /\ Published(f)'
      <4>1. /\ Len(Good(at)) = Size[at] /\ Good(at) # Absent
            /\ \A i \in DOMAIN Good(at) : Good(at)[i] = "good"
        BY <2>1, GoodType DEF Good
      <4>2. QED
        BY <3>2, <4>1 DEF Published
    <3>4. QED
      BY <1>b, <1>c, <1>d, <2>1, <2>3, <3>2, <3>3 DEF Covered
  <2>4. QED
    BY <2>2, <2>3
<1>11. CASE CheckpointFile
  <2>1. /\ pc \in {"published", "failing"} /\ pc' \in {"loop", "down"}
        /\ log' = mem /\ final' = final /\ status' \in {status, "failed"}
    BY <1>11 DEF CheckpointFile, Kept, End
  <2>2. QED
    BY <1>c, <1>f, <2>1
<1>12. CASE Crash
  <2>1. pc' = "down" /\ UNCHANGED <<log, part, final>> /\ status' = "failed"
    BY <1>12 DEF Crash, End, disk
  <2>2. QED
    BY <1>b, <2>1 DEF Covered
<1>13. CASE Rot
  <2>1. pc = "down" /\ pc' = "down" /\ log' = log /\ status' = "none"
    BY <1>13 DEF Rot
  <2>2. \A f \in Files : part'[f] = Absent => part[f] = Absent
    <3>1. ASSUME NEW f \in Files, part[f] # Absent, NEW i \in DOMAIN part[f],
                 part' = [part EXCEPT ![f][i] = "rot"]
          PROVE  \A g \in Files : part'[g] = Absent => part[g] = Absent
      <4>1. part[f] \in Seq(Content)
        BY <1>a, <3>1 DEF Data, Stored
      <4>2. [part[f] EXCEPT ![i] = "rot"] \in Seq(Content)
        BY <4>1, <3>1, ExceptSeq, LenProperties DEF Content
      <4>3. part'[f] = [part[f] EXCEPT ![i] = "rot"]
        BY <1>a, <3>1 DEF Data
      <4>4. part'[f] # Absent
        BY <4>2, <4>3, NoPartIsAbsent
      <4>5. QED
        BY <1>a, <3>1, <4>4 DEF Data
    <3>2. QED
      BY <1>13, <3>1, Zenon DEF Rot
  <2>3. \A f \in Files : /\ Published(f) => Published(f)'
                         /\ final'[f] # Absent <=> final[f] # Absent
    <3>1. CASE final' = final
      BY <1>b, <3>1
    <3>2. ASSUME NEW f \in Files, final[f] # Absent, NEW i \in DOMAIN final[f],
                 final' = [final EXCEPT ![f][i] = "decay"]
          PROVE  \A g \in Files : /\ Published(g) => Published(g)'
                                  /\ final'[g] # Absent <=> final[g] # Absent
      <4>1. Published(f) => Published(f)'
        BY <1>a, <3>2, PublishedStays
      <4>2. \A g \in Files \ {f} : final'[g] = final[g]
        BY <1>a, <3>2 DEF Data
      <4>3. Published(f)
        BY <3>2 DEF Covered
      <4>4. final'[f] # Absent
        <5>1. final[f] \in Seq(Content)
          BY <1>a, <3>2 DEF Data, Stored
        <5>2. [final[f] EXCEPT ![i] = "decay"] \in Seq(Content)
          BY <5>1, <3>2, ExceptSeq, LenProperties DEF Content
        <5>3. final'[f] = [final[f] EXCEPT ![i] = "decay"]
          BY <1>a, <3>2 DEF Data
        <5>4. QED
          BY <5>2, <5>3, NoPartIsAbsent
      <4>5. QED
        BY <1>b, <3>2, <4>1, <4>2, <4>4
    <3>3. \/ final' = final
          \/ \E f \in Files :
               /\ final[f] # Absent
               /\ \E i \in DOMAIN final[f] : final' = [final EXCEPT ![f][i] = "decay"]
      BY <1>13, Zenon DEF Rot
    <3>4. QED
      BY <3>1, <3>2, <3>3, Zenon
  <2>4. QED
    BY <2>1, <2>2, <2>3 DEF Covered
<1>14. CASE UNCHANGED vars
  <2>1. UNCHANGED <<log, part, final, pc, mem, at, status>>
    BY <1>14 DEF vars, disk
  <2>2. QED
    BY <1>b, <2>1 DEF Covered
<1>15. QED
  BY <1>1, <1>t, <1>2, <1>3, <1>4, <1>6, <1>7, <1>8, <1>9, <1>10, <1>11,
     <1>12, <1>13, <1>14 DEF Next, Run

\* Whatever is under a final name had the upstream checksum when it got it; past
\* recovery what the checkpoint calls complete is there, as every file is when a
\* session reports success, and after a crash in recovery its part file is: for
\* any number of files, chunks, crashes and sessions, whatever rots.
THEOREM PublicationIsVerified == Spec => []PublishedIsVerified
<1>1. Init => Synced /\ Claims /\ Stands /\ Covered
  <2>1. Init => Claims /\ Stands
    BY DEF Init, Claims, CheckedIsGood, Stands
  <2>2. Init => Covered
    BY DEF Init, Covered, Manifest, NoChunks
  <2>3. QED
    BY <2>1, <2>2, RecoverableInit
<1>2. Covered => PublishedIsVerified
  BY DEF Covered, PublishedIsVerified
<1>3. Typed /\ Synced /\ Claims /\ Stands /\ Covered /\ [Next]_vars
        => Synced' /\ Claims' /\ Stands' /\ Covered'
  BY SyncedStep, ClaimsStep, StandsStep, CoveredStep
<1>4. QED
  BY <1>1, <1>2, <1>3, TypedInit, TypedStep, PTL DEF Spec

-----------------------------------------------------------------------------
(* The download implements the abstract Snapshot.                          *)

\* A published file that rots is there, and no longer good.
LEMMA RotSpoils ==
  ASSUME Data, NEW f \in Files, final[f] # Absent, NEW i \in DOMAIN final[f],
         final' = [final EXCEPT ![f][i] = "decay"]
  PROVE  /\ final'[f] # Absent /\ final'[f] # Good(f)
         /\ \A g \in Files \ {f} : final'[g] = final[g]
<1>1. final[f] \in Seq(Content)
  BY DEF Data, Stored
<1>2. /\ [final[f] EXCEPT ![i] = "decay"] \in Seq(Content)
      /\ DOMAIN [final[f] EXCEPT ![i] = "decay"] = DOMAIN final[f]
  BY <1>1, ExceptSeq, LenProperties DEF Content
<1>3. final'[f] = [final[f] EXCEPT ![i] = "decay"]
  BY DEF Data
<1>4. final'[f] # Absent
  BY <1>2, <1>3, NoPartIsAbsent
<1>5. final'[f][i] = "decay"
  BY <1>3
<1>6. final'[f] # Good(f)
  <2> SUFFICES ASSUME final'[f] = Good(f) PROVE FALSE
    OBVIOUS
  <2>1. i \in DOMAIN Good(f)
    BY <1>2, <1>3
  <2>2. Good(f)[i] = "good"
    BY <2>1 DEF Good
  <2>3. QED
    BY <1>5, <2>2
<1>7. \A g \in Files \ {f} : final'[g] = final[g]
  BY DEF Data
<1>8. QED
  BY <1>4, <1>6, <1>7

\* How a change of one published file looks from outside.
LEMMA StoreChanges ==
  ASSUME NEW f \in Files, NEW s, Store(f)' = s,
         \A g \in Files \ {f} : final'[g] = final[g]
  PROVE  Stores' = [Stores EXCEPT ![f] = s]
<1>1. \A g \in Files \ {f} : Store(g)' = Store(g)
  BY DEF Store, Good
<1>2. Stores = [g \in Files |-> Store(g)] /\ Stores' = [g \in Files |-> Store(g)']
  BY DEF Stores
<1> HIDE DEF Store
<1>3. QED
  BY <1>1, <1>2

\* What is published stays the same from outside when its content does.
LEMMA StoreStays ==
  ASSUME \A f \in Files : final'[f] = final[f]
  PROVE  Stores' = Stores
<1>1. \A f \in Files : Store(f)' = Store(f)
  BY DEF Store, Good
<1> HIDE DEF Store
<1>2. QED
  BY <1>1 DEF Stores

\* A step that changes no published file and no checkpoint, and reports no success.
LEMMA Forgets ==
  ASSUME UNCHANGED <<final, log>>, status' \notin {"verified", "complete"}
  PROVE  Snap!Forget
<1>1. Stores' = Stores /\ Claimed' = Claimed
  BY StoreStays DEF Claimed
<1>2. Checked' = FALSE
  BY DEF Checked
<1>3. QED
  BY <1>1, <1>2, Zenon DEF Snap!Forget

\* A step that writes the checkpoint of what the process knows after recovery.
LEMMA ClaimsAnew ==
  ASSUME Data, Counts, Stands, Keeps, pc # "down", pc = "recover" => at > NFiles,
         UNCHANGED final, status' \notin {"verified", "complete"},
         \A f \in Files : log'[f].complete = mem[f].complete
  PROVE  \E fs \in SUBSET Files : Snap!Claim(fs)
<1> DEFINE fs == {f \in Files : mem[f].complete}
<1>1. \A f \in Files : ~ (pc = "recover" /\ f >= at)
  BY DownloadAssumption DEF Files, Counts
<1>2. \A f \in fs : Stores[f] # "absent"
  BY <1>1 DEF Stands, Stores, Store
<1>3. \A f \in Claimed : Stores[f] = "good" => f \in fs
  BY <1>1 DEF Keeps, Claimed, Stores, Store
<1>4. Claimed' = fs
  BY DEF Claimed
<1>5. Stores' = Stores
  BY StoreStays
<1>6. Checked' = FALSE
  BY DEF Checked
<1>7. fs \in SUBSET Files
  OBVIOUS
<1> HIDE DEF fs
<1>8. Snap!Claim(fs)
  BY <1>2, <1>3, <1>4, <1>5, <1>6, Zenon DEF Snap!Claim
<1>9. QED
  BY <1>7, <1>8

\* Every step of the download is one of the abstract snapshot, or changes nothing
\* of it.
LEMMA SnapshotStep ==
  Typed /\ Synced /\ Keeps /\ Claims /\ Stands /\ [Next]_vars => [Snap!Next]_(Snap!vars)
<1> SUFFICES ASSUME Typed, Synced, Keeps, Claims, Stands, [Next]_vars
             PROVE  Snap!Next \/ UNCHANGED Snap!vars
  OBVIOUS
<1>a. Data /\ Counts /\ (at <= NFiles => at \in Files)
  BY DownloadAssumption DEF Typed, Counts, Files
<1>b. pc # "down" => status = "none"
  BY DEF Claims
<1>c. Snap!Forget \/ (\E fs \in SUBSET Files : Snap!Claim(fs)) => Snap!Next
  BY Zenon DEF Snap!Next
<1>d. ASSUME UNCHANGED <<final, log>>, pc # "down", status' \in {status, "checkpointed", "failed"}
      PROVE  Snap!Next
  BY <1>b, <1>c, <1>d, Forgets
<1>1. ASSUME NEW m \in {"transfer", "verify"}, NEW c \in BOOLEAN, Start(m, c)
      PROVE  Snap!Next
  <2>1. status' = "none" /\ UNCHANGED <<final, log>>
    BY <1>1 DEF Start, disk
  <2>2. QED
    BY <2>1, <1>c, Forgets
<1>t. CASE TakeBack
  <2>1. /\ at \in Files /\ pc = "recover" /\ UNCHANGED <<log, status>>
        /\ ~ Valid(at, deep) /\ final' = [final EXCEPT ![at] = Absent]
    BY <1>t, <1>a DEF TakeBack
  <2>2. CASE final' = final
    BY <1>b, <2>1, <2>2, <1>d
  <2>3. CASE final' # final
    <3>1. final[at] # Absent /\ final[at] # Good(at)
      BY <1>a, <2>1, <2>3, GoodType DEF Data, Valid
    <3>2. PICK f \in Files : f = at
      BY <2>1
    <3>3. final'[f] = Absent /\ \A g \in Files \ {f} : final'[g] = final[g]
      BY <1>a, <2>1, <3>2 DEF Data
    <3>4. Store(f) = "decayed" /\ Store(f)' = "absent"
      BY <3>1, <3>2, <3>3 DEF Store
    <3>5. Stores[f] = "decayed" /\ Stores' = [Stores EXCEPT ![f] = "absent"]
      BY <3>3, <3>4, StoreChanges DEF Stores
    <3>6. Claimed' = Claimed
      BY <2>1 DEF Claimed
    <3>7. Checked' = FALSE
      BY <1>b, <2>1 DEF Checked
    <3>8. Snap!TakeBack(f)
      BY <3>5, <3>6, <3>7, Zenon DEF Snap!TakeBack
    <3>9. QED
      BY <3>8, Zenon DEF Snap!Next
  <2>4. QED
    BY <2>2, <2>3
<1>2. CASE RecoverFile
  <2>1. UNCHANGED <<final, log>> /\ status' \in {"none", "failed"}
    BY <1>2, <1>b, RecoverFileCounts DEF End
  <2>2. QED
    BY <2>1, <1>c, Forgets
<1>3. CASE Recovered
  <2>1. /\ pc = "recover" /\ at > NFiles /\ UNCHANGED <<final, status>>
        /\ log' = mem \/ log' = log
    BY <1>3 DEF Recovered, Kept
  <2>2. CASE log' = log
    BY <2>1, <2>2, <1>d
  <2>3. CASE log' = mem
    BY <1>a, <1>b, <1>c, <2>1, <2>3, ClaimsAnew
  <2>4. QED
    BY <2>1, <2>2, <2>3
<1>4. CASE Saved \/ Loop
  <2>1. pc \in {"saving", "loop"} /\ UNCHANGED <<final, log, mem, deep, mode>>
    BY <1>4 DEF Saved, Loop, disk, session
  <2>2. CASE status' \notin {"verified", "complete"} \/ ~ (status' = "verified" \/ deep)
    <3>1. Stores' = Stores /\ Claimed' = Claimed
      BY <2>1, StoreStays DEF Claimed
    <3>2. Checked' = FALSE
      BY <2>1, <2>2 DEF Checked
    <3>3. Snap!Forget
      BY <3>1, <3>2, Zenon DEF Snap!Forget
    <3>4. QED
      BY <3>3, <1>c
  <2>3. CASE status' = "verified" \/ (status' = "complete" /\ deep)
    <3>1. \A f \in Files : mem[f].complete
      <4>1. status' = "verified" => \A f \in Files : mem[f].complete
        BY <1>4, <1>b, <2>1 DEF Saved, Loop, End
      <4>2. status' = "complete" => pc = "loop" /\ at > NFiles
        BY <1>4, <1>b, <2>1 DEF Saved, Loop, End
      <4>3. at > NFiles => \A f \in Files : f < at
        BY <1>a, DownloadAssumption DEF Files, Counts
      <4>4. QED
        BY <2>3, <4>1, <4>2, <4>3 DEF Claims
    <3>2. deep
      BY <1>4, <1>b, <2>1, <2>3 DEF Saved, Loop, End, Claims
    <3>3. \A f \in Files : final[f] = Good(f)
      BY <2>1, <3>1, <3>2 DEF Claims
    <3>4. \A f \in Files : log[f].complete
      BY <2>1, <3>1 DEF Synced
    <3>5. Claimed = Files /\ Claimed' = Claimed
      BY <2>1, <3>4 DEF Claimed
    <3>6. \A f \in Files : Stores[f] = "good"
      BY <3>3, GoodType DEF Stores, Store
    <3>7. Stores' = Stores
      BY <2>1, StoreStays
    <3>8. Checked' = TRUE
      BY <2>1, <2>3 DEF Checked
    <3>9. Snap!Report
      BY <3>5, <3>6, <3>7, <3>8, Zenon DEF Snap!Report
    <3>10. QED
      BY <3>9, Zenon DEF Snap!Next
  <2>4. QED
    BY <2>2, <2>3
<1>5. ASSUME NEW c \in {"good", "bad"}, FetchChunk(c) PROVE Snap!Next
  BY <1>5, <1>d DEF FetchChunk
<1>6. CASE FetchFails
  BY <1>6, <1>d DEF FetchFails, End
<1>7. CASE Refused \/ Crash
  BY <1>7, <1>d DEF Refused, Crash, End, disk
<1>8. CASE Checkpoint
  <2>1. /\ at \in Files /\ pc = "checkpoint" /\ UNCHANGED <<final, status>> /\ log' = mem'
        /\ mem' = [mem EXCEPT ![at].chunks = Append(@, got)]
    BY <1>8, <1>a DEF Checkpoint, Counts, Kept
  <2>2. \A f \in Files : log'[f].complete = mem[f].complete
    BY <1>a, <2>1 DEF Data, FileState
  <2>3. QED
    BY <1>a, <1>b, <1>c, <2>1, <2>2, ClaimsAnew
<1>9. CASE Finalize
  <2>1. at \in Files /\ pc = "finalize" /\ UNCHANGED <<log, status>>
    BY <1>9, <1>a DEF Finalize, Counts
  <2>2. CASE ~ pc' = "published"
    <3>1. final' = final
      BY <1>9, <1>a, <2>1, <2>2, FinalizeData
    <3>2. QED
      BY <2>1, <3>1, <1>d
  <2>3. CASE pc' = "published"
    <3>1. final' = [final EXCEPT ![at] = Good(at)]
      BY <1>9, <2>3, Zenon DEF Finalize, ChecksumMatches
    <3>2. PICK f \in Files : f = at
      BY <2>1
    <3>3. final'[f] = Good(f) /\ \A g \in Files \ {f} : final'[g] = final[g]
      BY <1>a, <3>1, <3>2 DEF Data
    <3>4. Store(f)' = "good"
      BY <3>3, GoodType DEF Store, Good
    <3>5. Stores' = [Stores EXCEPT ![f] = "good"]
      BY <3>3, <3>4, StoreChanges
    <3>6. Claimed' = Claimed
      BY <2>1 DEF Claimed
    <3>7. Checked' = FALSE
      BY <2>1, <1>b DEF Checked
    <3>8. Snap!Install(f)
      BY <3>5, <3>6, <3>7, Zenon DEF Snap!Install
    <3>9. QED
      BY <3>8, Zenon DEF Snap!Next
  <2>4. QED
    BY <2>2, <2>3
<1>10. CASE CheckpointFile
  <2>1. /\ pc \in {"published", "failing"} /\ final' = final /\ log' = mem
        /\ status' \in {status, "failed"}
    BY <1>10 DEF CheckpointFile, Kept, End
  <2>2. QED
    BY <1>a, <1>b, <1>c, <2>1, ClaimsAnew
<1>11. CASE Rot
  <2>1. status' = "none" /\ log' = log
    BY <1>11 DEF Rot
  <2>2. Claimed' = Claimed
    BY <2>1 DEF Claimed
  <2>3. Checked' = FALSE
    BY <2>1 DEF Checked
  <2>4. CASE final' = final
    BY <2>1, <2>4, <1>c, Forgets
  <2>5. ASSUME NEW f \in Files, final[f] # Absent, NEW i \in DOMAIN final[f],
               final' = [final EXCEPT ![f][i] = "decay"]
        PROVE  Snap!Next
    <3>1. /\ final'[f] # Absent /\ final'[f] # Good(f)
          /\ \A g \in Files \ {f} : final'[g] = final[g]
      BY <1>a, <2>5, RotSpoils
    <3>2. Store(f)' = "decayed"
      BY <3>1 DEF Store, Good
    <3>3. Stores' = [Stores EXCEPT ![f] = "decayed"]
      BY <3>1, <3>2, StoreChanges
    <3>4. CASE final[f] = Good(f)
      <4>1. Stores[f] = "good"
        BY <2>5, <3>4 DEF Stores, Store
      <4>2. Snap!Decay(f)
        BY <2>2, <2>3, <3>3, <4>1, Zenon DEF Snap!Decay
      <4>3. QED
        BY <4>2, Zenon DEF Snap!Next
    <3>5. CASE final[f] # Good(f)
      <4>1. Stores[f] = "decayed" /\ Stores = [g \in Files |-> Store(g)]
        BY <2>5, <3>5 DEF Stores, Store
      <4>2. Stores' = Stores
        BY <3>3, <4>1
      <4>3. Snap!Forget
        BY <2>2, <2>3, <4>2, Zenon DEF Snap!Forget
      <4>4. QED
        BY <4>3, <1>c
    <3>6. QED
      BY <3>4, <3>5
  <2>6. QED
    BY <1>11, <2>4, <2>5, Zenon DEF Rot
<1>12. CASE UNCHANGED vars
  <2>1. UNCHANGED <<final, log, status, deep>>
    BY <1>12 DEF vars, session
  <2>2. Stores' = Stores /\ Claimed' = Claimed
    BY <2>1, StoreStays DEF Claimed
  <2>3. Checked' = Checked
    BY <2>1, Zenon DEF Checked
  <2>4. QED
    BY <2>2, <2>3, Zenon DEF Snap!vars
<1>13. QED
  BY <1>1, <1>t, <1>2, <1>3, <1>4, <1>5, <1>6, <1>7, <1>8, <1>9, <1>10, <1>11, <1>12
  DEF Next, Run

\* Only verified content is published, only what has decayed is taken back, no good
\* file drops out of the checkpoint and no verification lies: for any number of
\* files, chunks and sessions, under every fault.
THEOREM DownloadImplementsSnapshot == Spec => ImplementsSnapshot
<1>1. Init => Synced /\ Claims /\ Stands
  <2>1. Init => Claims /\ Stands
    BY DEF Init, Claims, CheckedIsGood, Stands
  <2>2. QED
    BY <2>1, RecoverableInit
<1>2. Init => Snap!Init
  <2> SUFFICES ASSUME Init PROVE Snap!Init
    OBVIOUS
  <2>1. Stores = [f \in Files |-> "absent"] /\ Claimed = {}
    BY DEF Init, Stores, Store, Claimed, Manifest, NoChunks
  <2>2. Checked = FALSE
    BY DEF Init, Checked
  <2>3. QED
    BY <2>1, <2>2, Zenon DEF Snap!Init
<1>3. Typed /\ Synced /\ Keeps /\ Claims /\ Stands /\ [Next]_vars
        => Synced' /\ Keeps' /\ Claims' /\ Stands'
  BY SyncedStep, KeepsStep, ClaimsStep, StandsStep
<1>4. QED
  BY <1>1, <1>2, <1>3, KeepsInit, SnapshotStep, TypedInit, TypedStep, PTL
  DEF Spec, ImplementsSnapshot, Snap!Spec
=============================================================================
