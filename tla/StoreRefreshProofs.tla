------------------------- MODULE StoreRefreshProofs -------------------------
(***************************************************************************)
(* Proofs about StoreRefresh: rows stay with the texts they encode however *)
(* often a store is derived from another one, a refresh of a quiet corpus  *)
(* is a rebuild, a store that is called current is, and the chain of       *)
(* stores implements Reindex.                                              *)
(***************************************************************************)
EXTENDS StoreRefresh, TLAPS

-----------------------------------------------------------------------------
(* Types, and what the steps of a refresher make of its job.               *)

StoreType == [chunks : Marks, rows : [Docs -> Rows], prints : Marks,
              whole : Marks, time : Nat]
BuildType == [pc : {"idle", "whole", "prints", "chunks", "index", "meta"},
              chunks : Marks, whole : Marks, prints : Marks]

Typed == Types /\ job \in [Refreshers -> JobType]

\* A step that changes the job of r alone.
Only(r) ==
  /\ job' \in [Refreshers -> JobType]
  /\ \A q \in Refreshers : q # r => job'[q] = job[q]
  /\ UNCHANGED <<corpus, base, gens, clock, build, edits, builds, kills,
                 rollbacks>>

LEMMA TypedIs ==
  ASSUME Typed
  PROVE  /\ corpus \in Marks /\ base \in StoreType /\ gens \subseteq StoreType
         /\ clock \in Nat /\ build \in BuildType
         /\ job \in [Refreshers -> JobType]
  BY DEF Typed, Types, StoreType, BuildType

LEMMA ZeroType == Zero \in Marks
  BY StoreAssumption DEF Zero, Marks, Versions

LEMMA TextOfType == \A c \in Marks : TextOf(c) \in [Docs -> Rows]
  BY StoreAssumption DEF TextOf, Marks

LEMMA NoJobType == NoJob \in JobType
  <1>1. TextOf(Zero) \in [Docs -> Rows]
    BY ZeroType, TextOfType
  <1> QED
    BY <1>1, ZeroType DEF NoJob, JobType

LEMMA NoBuildType == NoBuild \in BuildType
  BY ZeroType DEF NoBuild, BuildType

LEMMA BecomesOnly ==
  ASSUME Typed, NEW r \in Refreshers, NEW j \in JobType, Becomes(r, j)
  PROVE  Only(r) /\ job'[r] = j
  BY TypedIs DEF Becomes, Only, counters

LEMMA ResolveIs ==
  ASSUME Typed, NEW r \in Refreshers, Resolve(r)
  PROVE  /\ Only(r) /\ job[r].pc = "idle"
         /\ \E s \in Live : \E src \in Nat :
              /\ s \in StoreType
              /\ src = IF s = base THEN 0 ELSE s.time
              /\ src = 0 /\ Saving => ~Alone
              /\ job'[r].pc = "prints" /\ job'[r].src = src
              /\ job'[r].recorded = s.prints
  <1>1. PICK s \in Live :
          LET src == IF s = base THEN 0 ELSE s.time IN
          /\ src = 0 /\ Saving => ~Alone
          /\ Becomes(r, [NoJob EXCEPT !.pc = "prints", !.src = src,
                                      !.recorded = s.prints])
    BY DEF Resolve
  <1> DEFINE src == IF s = base THEN 0 ELSE s.time
             j == [NoJob EXCEPT !.pc = "prints", !.src = src,
                                !.recorded = s.prints]
  <1>2. s \in StoreType
    BY TypedIs DEF Live, Candidates
  <1>3. src \in Nat
    BY <1>2 DEF StoreType
  <1>4. j \in JobType
    <2> HIDE DEF src
    <2> QED
      BY <1>2, <1>3, NoJobType DEF JobType, StoreType
  <1>5. Only(r) /\ job'[r] = j
    BY <1>1, <1>4, BecomesOnly
  <1>6. job[r].pc = "idle"
    BY DEF Resolve
  <1>7. job'[r].pc = "prints" /\ job'[r].src = src /\ job'[r].recorded = s.prints
    BY <1>5 DEF NoJob
  <1> QED
    BY <1>1, <1>2, <1>3, <1>5, <1>6, <1>7

LEMMA FingerprintIs ==
  ASSUME Typed, NEW r \in Refreshers, Fingerprint(r)
  PROVE  /\ Only(r) /\ job[r].pc = "prints"
         /\ \/ job'[r] = NoJob
            \/ /\ job'[r].pc = "chunks" /\ job'[r].src = job[r].src
               /\ job'[r].recorded = job[r].recorded /\ job'[r].current = corpus
               /\ job'[r].chunks = job[r].chunks /\ job'[r].rows = job[r].rows
               /\ job'[r].fresh = job[r].fresh /\ job'[r].quiet
  <1> DEFINE j == [job[r] EXCEPT !.pc = "chunks", !.current = corpus,
                                 !.quiet = TRUE]
             k == job'[r]
  <1>1. j \in JobType
    BY TypedIs DEF JobType
  <1>2. Becomes(r, NoJob) \/ Becomes(r, j)
    BY DEF Fingerprint
  <1>3. Only(r) /\ (k = NoJob \/ k = j)
    BY <1>1, <1>2, NoJobType, BecomesOnly
  <1>4. CASE k = j
    <2> HIDE DEF k
    <2>1. job[r] \in JobType
      BY TypedIs
    <2>2. /\ k.pc = "chunks" /\ k.src = job[r].src
          /\ k.recorded = job[r].recorded /\ k.current = corpus
          /\ k.chunks = job[r].chunks /\ k.rows = job[r].rows
          /\ k.fresh = job[r].fresh /\ k.quiet
      BY <1>4, <2>1 DEF JobType
    <2> QED
      BY <1>3, <2>2, Zenon DEF Fingerprint, k
  <1> QED
    BY <1>3, <1>4 DEF Fingerprint

LEMMA SourceType ==
  ASSUME Typed, NEW r \in Refreshers
  PROVE  Source(r) \subseteq StoreType
  BY TypedIs DEF Source

LEMMA ReadChunksIs ==
  ASSUME Typed, NEW r \in Refreshers, ReadChunks(r)
  PROVE  /\ Only(r) /\ job[r].pc = "chunks"
         /\ \E s \in Source(r) :
              /\ job'[r].pc = "index" /\ job'[r].src = job[r].src
              /\ job'[r].recorded = job[r].recorded
              /\ job'[r].current = job[r].current /\ job'[r].chunks = s.chunks
              /\ job'[r].rows = job[r].rows /\ job'[r].fresh = job[r].fresh
              /\ job'[r].quiet = job[r].quiet
  <1>1. PICK s \in Source(r) :
          Becomes(r, [job[r] EXCEPT !.pc = "index", !.chunks = s.chunks])
    BY DEF ReadChunks
  <1>2. [job[r] EXCEPT !.pc = "index", !.chunks = s.chunks] \in JobType
    BY TypedIs, SourceType DEF JobType, StoreType
  <1>3. Only(r) /\ job'[r] = [job[r] EXCEPT !.pc = "index", !.chunks = s.chunks]
    BY <1>1, <1>2, BecomesOnly
  <1>4. job[r] \in JobType
    BY TypedIs
  <1> DEFINE k == job'[r]
  <1>5. /\ k.pc = "index" /\ k.src = job[r].src
        /\ k.recorded = job[r].recorded /\ k.current = job[r].current
        /\ k.chunks = s.chunks /\ k.rows = job[r].rows
        /\ k.fresh = job[r].fresh /\ k.quiet = job[r].quiet
    <2>1. k = [job[r] EXCEPT !.pc = "index", !.chunks = s.chunks]
      BY <1>3
    <2> HIDE DEF k
    <2> QED
      BY <1>4, <2>1 DEF JobType
  <1> QED
    BY <1>3, <1>5 DEF ReadChunks

LEMMA ReadIndexIs ==
  ASSUME Typed, NEW r \in Refreshers, ReadIndex(r)
  PROVE  /\ Only(r) /\ job[r].pc = "index"
         /\ \E s \in Source(r) :
              /\ job'[r].pc = "chunk" /\ job'[r].src = 0
              /\ job'[r].recorded = job[r].recorded
              /\ job'[r].current = job[r].current
              /\ job'[r].chunks = job[r].chunks /\ job'[r].rows = s.rows
              /\ job'[r].fresh = job[r].fresh /\ job'[r].quiet = job[r].quiet
  <1>1. PICK s \in Source(r) :
          Becomes(r, [job[r] EXCEPT !.pc = "chunk", !.rows = s.rows, !.src = 0])
    BY DEF ReadIndex
  <1>2. [job[r] EXCEPT !.pc = "chunk", !.rows = s.rows, !.src = 0] \in JobType
    BY TypedIs, SourceType DEF JobType, StoreType
  <1>3. Only(r) /\ job'[r] = [job[r] EXCEPT !.pc = "chunk", !.rows = s.rows, !.src = 0]
    BY <1>1, <1>2, BecomesOnly
  <1>4. job[r] \in JobType
    BY TypedIs
  <1> DEFINE k == job'[r]
  <1>5. /\ k.pc = "chunk" /\ k.src = 0
        /\ k.recorded = job[r].recorded /\ k.current = job[r].current
        /\ k.chunks = job[r].chunks /\ k.rows = s.rows
        /\ k.fresh = job[r].fresh /\ k.quiet = job[r].quiet
    <2>1. k = [job[r] EXCEPT !.pc = "chunk", !.rows = s.rows, !.src = 0]
      BY <1>3
    <2> HIDE DEF k
    <2> QED
      BY <1>4, <2>1 DEF JobType
  <1> QED
    BY <1>3, <1>5 DEF ReadIndex

LEMMA SourceGoneIs ==
  ASSUME Typed, NEW r \in Refreshers, SourceGone(r)
  PROVE  Only(r) /\ job'[r] = NoJob
  BY NoJobType, BecomesOnly DEF SourceGone

FreshChunks(j) == [d \in Docs |-> IF d \in Changed(j) THEN corpus[d] ELSE 0]

LEMMA ChunkChangedIs ==
  ASSUME Typed, NEW r \in Refreshers, ChunkChanged(r)
  PROVE  /\ Only(r) /\ job[r].pc = "chunk"
         /\ job'[r].pc = "assemble" /\ job'[r].src = job[r].src
         /\ job'[r].recorded = job[r].recorded
         /\ job'[r].current = job[r].current /\ job'[r].chunks = job[r].chunks
         /\ job'[r].rows = job[r].rows /\ job'[r].fresh = FreshChunks(job[r])
         /\ job'[r].quiet = job[r].quiet
  <1> DEFINE j == [job[r] EXCEPT !.pc = "assemble", !.fresh = FreshChunks(job[r])]
             k == job'[r]
  <1>1. FreshChunks(job[r]) \in Marks
    BY TypedIs, StoreAssumption DEF Marks, Versions, FreshChunks
  <1>2. j \in JobType
    BY <1>1, TypedIs DEF JobType
  <1>3. Only(r) /\ k = j /\ job[r].pc = "chunk"
    BY <1>2, BecomesOnly DEF ChunkChanged, FreshChunks
  <1>4. job[r] \in JobType
    BY TypedIs
  <1>5. /\ k.pc = "assemble" /\ k.src = job[r].src
        /\ k.recorded = job[r].recorded /\ k.current = job[r].current
        /\ k.chunks = job[r].chunks /\ k.rows = job[r].rows
        /\ k.fresh = FreshChunks(job[r]) /\ k.quiet = job[r].quiet
    <2> HIDE DEF k
    <2> QED
      BY <1>3, <1>4 DEF JobType
  <1> QED
    BY <1>3, <1>5

MergedChunks(j) == [d \in Docs |-> Merged(j, d)]
MergedRows(j) == [d \in Docs |-> MergedRow(j, d)]

LEMMA MergedType ==
  ASSUME Typed, NEW j \in JobType
  PROVE  MergedChunks(j) \in Marks /\ MergedRows(j) \in [Docs -> Rows]
  <1>1. MergedChunks(j) \in Marks
    BY TypedIs DEF MergedChunks, Merged, JobType, Marks
  <1>2. ASSUME NEW d \in Docs
        PROVE  RowOf(j, d) \in Rows
    <2>1. Text[d][j.fresh[d]] \in Rows
      BY StoreAssumption DEF JobType, Marks
    <2>2. \A e \in Docs : j.rows[e] \in Rows
      BY DEF JobType
    <2>3. \A text : Holders(j, text) # {} =>
                      (CHOOSE e \in Holders(j, text) : TRUE) \in Docs
      BY DEF Holders
    <2> QED
      BY <2>1, <2>2, <2>3 DEF RowOf
  <1>3. \A d \in Docs : j.rows[d] \in Rows
    BY DEF JobType
  <1>4. None \in Rows
    BY DEF Rows
  <1> QED
    BY <1>1, <1>2, <1>3, <1>4 DEF MergedRows, MergedRow

LEMMA AssembleIs ==
  ASSUME Typed, NEW r \in Refreshers, Assemble(r)
  PROVE  /\ Only(r) /\ job[r].pc = "assemble"
         /\ \/ job'[r] = NoJob
            \/ /\ Present(MergedChunks(job[r])) # {}
               /\ job'[r].pc = "stamp" /\ job'[r].src = job[r].src
               /\ job'[r].recorded = Zero /\ job'[r].current = job[r].current
               /\ job'[r].chunks = MergedChunks(job[r])
               /\ job'[r].rows = MergedRows(job[r]) /\ job'[r].fresh = Zero
               /\ job'[r].quiet = job[r].quiet
  <1> DEFINE j == [job[r] EXCEPT !.pc = "stamp", !.chunks = MergedChunks(job[r]),
                                 !.rows = MergedRows(job[r]),
                                 !.recorded = Zero, !.fresh = Zero]
             k == job'[r]
  <1>1. job[r] \in JobType
    BY TypedIs
  <1>2. j \in JobType
    BY <1>1, MergedType, ZeroType DEF JobType
  <1>3. \/ Becomes(r, NoJob)
        \/ Present(MergedChunks(job[r])) # {} /\ Becomes(r, j)
    BY DEF Assemble, NoChunks, MergedChunks, MergedRows
  <1>4. /\ Only(r) /\ job[r].pc = "assemble"
        /\ k = NoJob \/ (Present(MergedChunks(job[r])) # {} /\ k = j)
    BY <1>2, <1>3, NoJobType, BecomesOnly DEF Assemble
  <1>5. CASE k = j
    <2> HIDE DEF k
    <2>1. /\ k.pc = "stamp" /\ k.src = job[r].src
          /\ k.recorded = Zero /\ k.current = job[r].current
          /\ k.chunks = MergedChunks(job[r])
          /\ k.rows = MergedRows(job[r]) /\ k.fresh = Zero
          /\ k.quiet = job[r].quiet
      BY <1>1, <1>5 DEF JobType
    <2>2. k = NoJob \/ Present(MergedChunks(job[r])) # {}
      BY <1>4
    <2> QED
      BY <1>4, <2>1, <2>2, Zenon DEF k
  <1> QED
    BY <1>4, <1>5

LEMMA StampIs ==
  ASSUME Typed, NEW r \in Refreshers, Stamp(r)
  PROVE  /\ Only(r) /\ job[r].pc = "stamp"
         /\ job'[r].pc = "save" /\ job'[r].src = job[r].src
         /\ job'[r].recorded = job[r].recorded
         /\ job'[r].current = job[r].current /\ job'[r].chunks = job[r].chunks
         /\ job'[r].rows = job[r].rows /\ job'[r].fresh = job[r].fresh
         /\ job'[r].whole = corpus /\ job'[r].quiet = job[r].quiet
  <1> DEFINE k == job'[r]
  <1>1. [job[r] EXCEPT !.pc = "save", !.whole = corpus] \in JobType
    BY TypedIs DEF JobType
  <1>2. /\ Only(r) /\ job[r].pc = "stamp"
        /\ k = [job[r] EXCEPT !.pc = "save", !.whole = corpus]
    BY <1>1, BecomesOnly DEF Stamp
  <1>3. job[r] \in JobType
    BY TypedIs
  <1>4. /\ k.pc = "save" /\ k.src = job[r].src
        /\ k.recorded = job[r].recorded /\ k.current = job[r].current
        /\ k.chunks = job[r].chunks /\ k.rows = job[r].rows
        /\ k.fresh = job[r].fresh /\ k.whole = corpus
        /\ k.quiet = job[r].quiet
    <2> HIDE DEF k
    <2> QED
      BY <1>2, <1>3 DEF JobType
  <1> QED
    BY <1>2, <1>4

LEMMA EditedFields ==
  ASSUME NEW j \in JobType, NEW k, k = [j EXCEPT !.quiet = FALSE]
  PROVE  /\ k.pc = j.pc /\ k.time = j.time /\ k.src = j.src
         /\ k.recorded = j.recorded /\ k.current = j.current
         /\ k.chunks = j.chunks /\ k.rows = j.rows /\ k.fresh = j.fresh
         /\ k.whole = j.whole /\ ~k.quiet
  BY DEF JobType

LEMMA SaveIs ==
  ASSUME Typed, NEW r \in Refreshers, Save(r)
  PROVE  /\ job' \in [Refreshers -> JobType]
         /\ \A q \in Refreshers : q # r => job'[q] = job[q]
         /\ job[r].pc = "save"
         /\ job'[r].pc = "publish" /\ job'[r].time = clock + 1
         /\ job'[r].src = job[r].src /\ job'[r].current = job[r].current
         /\ job'[r].chunks = job[r].chunks /\ job'[r].rows = job[r].rows
         /\ job'[r].whole = job[r].whole /\ job'[r].quiet = job[r].quiet
         /\ clock' = clock + 1
         /\ UNCHANGED <<corpus, base, gens, build, edits, builds, kills,
                        rollbacks>>
  <1>1. [job[r] EXCEPT !.pc = "publish", !.time = clock + 1] \in JobType
    <2> DEFINE t == clock + 1
    <2>1. t \in Nat
      BY TypedIs
    <2> HIDE DEF t
    <2>2. [job[r] EXCEPT !.pc = "publish", !.time = t] \in JobType
      BY <2>1, TypedIs DEF JobType
    <2> QED
      BY <2>2 DEF t
  <1>2. job' = [job EXCEPT ![r] = [job[r] EXCEPT !.pc = "publish",
                                                 !.time = clock + 1]]
    BY TypedIs DEF Save, JobType
  <1>3. job'[r] = [job[r] EXCEPT !.pc = "publish", !.time = clock + 1]
    BY <1>2, TypedIs
  <1>4. job[r] \in JobType
    BY TypedIs
  <1>5. /\ job'[r].pc = "publish" /\ job'[r].time = clock + 1
        /\ job'[r].src = job[r].src /\ job'[r].current = job[r].current
        /\ job'[r].chunks = job[r].chunks /\ job'[r].rows = job[r].rows
        /\ job'[r].whole = job[r].whole /\ job'[r].quiet = job[r].quiet
    <2> DEFINE t == clock + 1
               k == job'[r]
    <2>1. k = [job[r] EXCEPT !.pc = "publish", !.time = t]
      BY <1>3
    <2> HIDE DEF t, k
    <2>2. /\ k.pc = "publish" /\ k.time = t /\ k.src = job[r].src
          /\ k.current = job[r].current /\ k.chunks = job[r].chunks
          /\ k.rows = job[r].rows /\ k.whole = job[r].whole
          /\ k.quiet = job[r].quiet
      BY <1>4, <2>1 DEF JobType
    <2> QED
      BY <2>2, Zenon DEF t, k
  <1>6. /\ job' \in [Refreshers -> JobType]
        /\ \A q \in Refreshers : q # r => job'[q] = job[q]
    BY <1>1, <1>2, TypedIs
  <1> QED
    BY <1>5, <1>6, Zenon DEF Save, counters

Published(j) == Store(j.chunks, j.rows, j.current, j.whole, j.time)

LEMMA PublishIs ==
  ASSUME Typed, NEW r \in Refreshers, Publish(r)
  PROVE  /\ job' \in [Refreshers -> JobType]
         /\ \A q \in Refreshers : q # r => job'[q] = job[q]
         /\ job[r].pc = "publish" /\ job'[r] = NoJob
         /\ gens' = gens \cup {Published(job[r])}
         /\ Published(job[r]) \in StoreType
         /\ UNCHANGED <<corpus, base, clock, build, edits, builds, kills,
                        rollbacks>>
  <1>1. Published(job[r]) \in StoreType
    BY TypedIs DEF Published, Store, StoreType, JobType
  <1> QED
    BY <1>1, TypedIs, NoJobType DEF Publish, Published, Prints, counters

LEMMA KillIs ==
  ASSUME Typed, NEW r \in Refreshers, Kill(r)
  PROVE  /\ job' \in [Refreshers -> JobType]
         /\ \A q \in Refreshers : q # r => job'[q] = job[q]
         /\ job'[r] = NoJob
         /\ UNCHANGED <<corpus, base, gens, clock, build, edits, builds,
                        rollbacks>>
  BY TypedIs, NoJobType DEF Kill

LEMMA EditIs ==
  ASSUME Typed, NEW d \in Docs, Edit(d)
  PROVE  /\ job' \in [Refreshers -> JobType]
         /\ \A r \in Refreshers :
              /\ job'[r].pc = job[r].pc /\ job'[r].time = job[r].time
              /\ job'[r].src = job[r].src /\ job'[r].recorded = job[r].recorded
              /\ job'[r].current = job[r].current
              /\ job'[r].chunks = job[r].chunks /\ job'[r].rows = job[r].rows
              /\ job'[r].fresh = job[r].fresh /\ ~job'[r].quiet
         /\ corpus' = [corpus EXCEPT ![d] = @ + 1] /\ corpus' \in Marks
  <1>1. \A r \in Refreshers : [job[r] EXCEPT !.quiet = FALSE] \in JobType
    BY TypedIs DEF JobType
  <1>2. corpus' \in Marks
    BY TypedIs, StoreAssumption DEF Edit, Marks, Versions
  <1>3. \A r \in Refreshers : job'[r] = [job[r] EXCEPT !.quiet = FALSE]
    BY DEF Edit
  <1>4. \A r \in Refreshers : job[r] \in JobType
    BY TypedIs
  <1>5. ASSUME NEW r \in Refreshers
        PROVE  /\ job'[r].pc = job[r].pc /\ job'[r].time = job[r].time
               /\ job'[r].src = job[r].src /\ job'[r].recorded = job[r].recorded
               /\ job'[r].current = job[r].current
               /\ job'[r].chunks = job[r].chunks /\ job'[r].rows = job[r].rows
               /\ job'[r].fresh = job[r].fresh /\ ~job'[r].quiet
    BY <1>3, <1>4, EditedFields, Zenon
  <1>6. job' \in [Refreshers -> JobType]
    BY <1>1 DEF Edit
  <1> QED
    BY <1>2, <1>5, <1>6 DEF Edit

LEMMA TypesStep ==
  ASSUME Typed, [Next]_vars
  PROVE  Typed'
  <1> USE StoreAssumption
  <1>1. ASSUME NEW r \in Refreshers, Only(r)
        PROVE  Typed'
    BY <1>1 DEF Typed, Types, Only
  <1>2. ASSUME NEW r \in Refreshers, Refresh(r)
        PROVE  Typed'
    <2>1. CASE Save(r)
      <3> DEFINE t == clock + 1
      <3>1. clock' = t /\ t \in Nat
        <4>1. clock \in Nat
          BY TypedIs
        <4> QED
          BY <2>1, <4>1 DEF Save
      <3>2. job' \in [Refreshers -> JobType]
        BY <2>1, SaveIs
      <3> HIDE DEF t
      <3> QED
        BY <2>1, <3>1, <3>2 DEF Save, counters, Typed, Types
    <2>2. CASE Publish(r)
      <3>1. gens' \subseteq StoreType
        BY <2>2, PublishIs, TypedIs
      <3> QED
        BY <2>2, <3>1, PublishIs DEF Typed, Types, StoreType
    <2>3. Save(r) \/ Publish(r) \/ Only(r)
      BY <1>2, ResolveIs, FingerprintIs, ReadChunksIs, ReadIndexIs, SourceGoneIs,
         ChunkChangedIs, AssembleIs, StampIs DEF Refresh
    <2> QED
      BY <1>1, <2>1, <2>2, <2>3
  <1>3. ASSUME NEW r \in Refreshers, Kill(r)
        PROVE  Typed'
    <2>1. kills' \in 0..MaxKills
      <3>1. kills \in 0..MaxKills
        BY DEF Typed, Types
      <3> QED
        BY <1>3, <3>1 DEF Kill
    <2> QED
      BY <1>3, <2>1, KillIs DEF Typed, Types
  <1>4. CASE BuildChunks
    <2>1. build' \in BuildType
      BY <1>4, TypedIs DEF BuildChunks, Builds, BuildType
    <2> QED
      BY <1>4, <2>1 DEF Typed, Types, BuildChunks, Builds, BuildType
  <1>5. CASE Build
    <2>1. build' \in BuildType
      BY <1>5, TypedIs, NoBuildType DEF Build, BuildWhole, BuildPrints, SaveChunks,
         SaveIndex, SaveMeta, Builds, BuildType
    <2>2. base' \in StoreType /\ clock' \in Nat
      <3>1. TextOf(build.chunks) \in [Docs -> Rows]
        BY TypedIs, TextOfType DEF BuildType
      <3>2. CASE SaveMeta
        <4> DEFINE t == clock + 1
        <4>1. t \in Nat
          BY TypedIs
        <4>2. base' = [base EXCEPT !.prints = build.prints, !.whole = build.whole,
                                   !.time = t] /\ clock' = t
          BY <3>2 DEF SaveMeta
        <4> HIDE DEF t
        <4> QED
          BY <4>1, <4>2, TypedIs DEF StoreType, BuildType
      <3>3. CASE SaveChunks
        BY <3>3, TypedIs DEF SaveChunks, StoreType, BuildType
      <3>4. CASE SaveIndex
        BY <3>1, <3>4, TypedIs DEF SaveIndex, StoreType
      <3>5. CASE BuildWhole \/ BuildPrints
        BY <3>5, TypedIs DEF BuildWhole, BuildPrints
      <3> QED
        BY <1>5, <3>2, <3>3, <3>4, <3>5 DEF Build
    <2> QED
      BY <1>5, <2>1, <2>2 DEF Typed, Types, Build, BuildWhole, BuildPrints, SaveChunks,
         SaveIndex, SaveMeta, Builds, BuildType, StoreType
  <1>6. CASE KillBuild
    BY <1>6, NoBuildType DEF KillBuild, Typed, Types, BuildType
  <1>7. ASSUME NEW d \in Docs, Edit(d)
        PROVE  Typed'
    <2>1. edits' \in 0..MaxEdits
      BY <1>7 DEF Edit, Typed, Types
    <2> QED
      BY <1>7, <2>1, EditIs DEF Edit, Typed, Types
  <1>8. ASSUME NEW g \in gens, Rollback(g)
        PROVE  Typed'
    BY <1>8 DEF Rollback, Typed, Types
  <1>9. CASE UNCHANGED vars
    BY <1>9 DEF vars, counters, Typed, Types
  <1> QED
    BY <1>2, <1>3, <1>4, <1>5, <1>6, <1>7, <1>8, <1>9 DEF Next

LEMMA TypesInit ==
  ASSUME Init
  PROVE  Typed
  <1>1. base \in StoreType
    BY ZeroType, TextOfType DEF Init, Store, StoreType
  <1>2. build \in BuildType /\ job \in [Refreshers -> JobType]
    BY NoBuildType, NoJobType DEF Init
  <1> QED
    BY <1>1, <1>2, ZeroType, StoreAssumption DEF Init, Typed, Types, StoreType,
       BuildType

-----------------------------------------------------------------------------
(* No store is empty.                                                      *)

FullJob(j) == j.pc \in {"stamp", "save", "publish"} => Present(j.chunks) # {}

NonEmpty ==
  /\ \A s \in Candidates : Present(s.chunks) # {}
  /\ build.pc # "idle" => Present(build.chunks) # {}
  /\ \A r \in Refreshers : FullJob(job[r])

LEMMA NonEmptyStep ==
  ASSUME Typed, NonEmpty, [Next]_vars
  PROVE  NonEmpty'
  <1>1. ASSUME NEW r \in Refreshers,
               \A q \in Refreshers : q # r => job'[q] = job[q],
               FullJob(job'[r]), UNCHANGED <<base, build>>,
               \A g \in gens' \ gens : Present(g.chunks) # {}
        PROVE  NonEmpty'
    BY <1>1 DEF NonEmpty, Candidates
  <1>2. FullJob(NoJob)
    BY DEF FullJob, NoJob
  <1>3. ASSUME NEW r \in Refreshers, Refresh(r)
        PROVE  NonEmpty'
    <2>1. job[r] \in JobType /\ FullJob(job[r])
      BY TypedIs DEF NonEmpty
    <2>2. CASE Save(r)
      <3>1. FullJob(job'[r])
        <4>1. job[r].pc = "save" /\ job'[r].chunks = job[r].chunks
          BY <2>2, SaveIs, Zenon
        <4> QED
          BY <2>1, <4>1 DEF FullJob
      <3>2. /\ UNCHANGED <<base, build, gens>>
            /\ \A q \in Refreshers : q # r => job'[q] = job[q]
        BY <2>2, SaveIs, Zenon
      <3> QED
        BY <1>1, <3>1, <3>2
    <2>3. CASE Publish(r)
      <3>1. Present(Published(job[r]).chunks) # {}
        BY <2>1, <2>3, PublishIs DEF FullJob, Published, Store
      <3> QED
        BY <1>1, <1>2, <2>3, <3>1, PublishIs
    <2>4. CASE Stamp(r)
      <3>1. job'[r].chunks = job[r].chunks
        BY <2>4, StampIs
      <3> QED
        BY <1>1, <2>1, <2>4, <3>1, StampIs DEF FullJob, Only
    <2>5. CASE Assemble(r)
      <3>1. FullJob(job'[r])
        BY <1>2, <2>5, AssembleIs DEF FullJob
      <3> QED
        BY <1>1, <2>5, <3>1, AssembleIs DEF Only
    <2>6. CASE Resolve(r) \/ Fingerprint(r) \/ ReadChunks(r) \/ ReadIndex(r)
               \/ SourceGone(r) \/ ChunkChanged(r)
      <3>1. Only(r) /\ FullJob(job'[r])
        <4>1. CASE Resolve(r)
          <5>1. Only(r) /\ job'[r].pc = "prints"
            BY <4>1, ResolveIs DEF NoJob
          <5> QED
            BY <5>1 DEF FullJob
        <4>2. CASE Fingerprint(r)
          BY <1>2, <4>2, FingerprintIs DEF FullJob
        <4>3. CASE ReadChunks(r)
          <5>1. Only(r) /\ job'[r].pc = "index"
            BY <4>3, ReadChunksIs
          <5> QED
            BY <5>1 DEF FullJob
        <4>4. CASE ReadIndex(r)
          <5>1. Only(r) /\ job'[r].pc = "chunk"
            BY <4>4, ReadIndexIs
          <5> QED
            BY <5>1 DEF FullJob
        <4>5. CASE SourceGone(r)
          BY <1>2, <4>5, SourceGoneIs
        <4>6. CASE ChunkChanged(r)
          <5>1. Only(r) /\ job'[r].pc = "assemble"
            BY <4>6, ChunkChangedIs
          <5> QED
            BY <5>1 DEF FullJob
        <4> QED
          BY <2>6, <4>1, <4>2, <4>3, <4>4, <4>5, <4>6
      <3> QED
        BY <1>1, <3>1 DEF Only
    <2> QED
      BY <1>3, <2>2, <2>3, <2>4, <2>5, <2>6 DEF Refresh
  <1>4. ASSUME NEW r \in Refreshers, Kill(r)
        PROVE  NonEmpty'
    BY <1>1, <1>2, <1>4, KillIs
  <1>5. CASE BuildChunks
    <2>1. Present(build'.chunks) # {}
      BY <1>5, TypedIs DEF BuildChunks, Builds, BuildType
    <2> QED
      BY <1>5, <2>1 DEF NonEmpty, BuildChunks, Builds, Candidates
  <1>6. CASE Build
    <2>1. /\ build.pc # "idle" /\ UNCHANGED <<gens, job>>
          /\ build' = NoBuild \/ build'.chunks = build.chunks
      BY <1>6, TypedIs DEF Build, BuildWhole, BuildPrints, SaveChunks, SaveIndex,
         SaveMeta, Builds, BuildType
    <2>2. base'.chunks \in {base.chunks, build.chunks}
      BY <1>6, TypedIs DEF Build, BuildWhole, BuildPrints, SaveChunks, SaveIndex,
         SaveMeta, Builds, StoreType
    <2> QED
      BY <2>1, <2>2 DEF NonEmpty, Candidates, NoBuild
  <1>7. CASE KillBuild
    BY <1>7 DEF KillBuild, NonEmpty, Candidates, NoBuild
  <1>8. ASSUME NEW d \in Docs, Edit(d)
        PROVE  NonEmpty'
    <2>1. ASSUME NEW r \in Refreshers
          PROVE  FullJob(job'[r])
      <3>1. job'[r].pc = job[r].pc /\ job'[r].chunks = job[r].chunks
        BY <1>8, EditIs, Zenon
      <3> QED
        BY <3>1 DEF NonEmpty, FullJob
    <2> QED
      BY <1>8, <2>1 DEF Edit, NonEmpty, Candidates
  <1>9. ASSUME NEW g \in gens, Rollback(g)
        PROVE  NonEmpty'
    BY <1>9 DEF Rollback, NonEmpty, Candidates
  <1>10. CASE UNCHANGED vars
    BY <1>10 DEF vars, NonEmpty, Candidates
  <1> QED
    BY <1>3, <1>4, <1>5, <1>6, <1>7, <1>8, <1>9, <1>10 DEF Next

LEMMA NonEmptyInit ==
  ASSUME Init
  PROVE  NonEmpty
  <1>1. Present(Zero) # {}
    BY StoreAssumption DEF Present, Zero
  <1> QED
    BY <1>1 DEF Init, NonEmpty, Candidates, Store, NoBuild, FullJob, NoJob

\* Type correctness: every store, the one being written included, has a chunk.
THEOREM TypeCorrect == Spec => []TypeOK
  <1>1. Init => Typed /\ NonEmpty
    BY TypesInit, NonEmptyInit
  <1>2. Typed /\ NonEmpty /\ [Next]_vars => Typed' /\ NonEmpty'
    BY TypesStep, NonEmptyStep
  <1>3. Typed /\ NonEmpty => TypeOK
    BY DEF Typed, NonEmpty, TypeOK
  <1> QED
    BY <1>1, <1>2, <1>3, PTL DEF Spec

-----------------------------------------------------------------------------
(* Meta files are written at different times, so the source of a refresh   *)
(* names one store.                                                        *)

Publishing(j) == j.pc = "publish"

Times ==
  /\ \A g \in gens : 1 <= g.time /\ g.time <= clock
  /\ \A r \in Refreshers : job[r].src <= clock
  /\ \A r \in Refreshers : Publishing(job[r]) =>
       1 <= job[r].time /\ job[r].time <= clock

Apart ==
  /\ \A g, h \in gens : g.time = h.time => g = h
  /\ \A r \in Refreshers : Publishing(job[r]) =>
       /\ \A g \in gens : g.time # job[r].time
       /\ \A q \in Refreshers : job[q].src # job[r].time
       /\ \A q \in Refreshers : q # r /\ Publishing(job[q]) =>
            job[q].time # job[r].time

\* A step that publishes nothing and may take a store to derive from.
Unstamped(r) ==
  /\ \A q \in Refreshers : q # r => job'[q] = job[q]
  /\ UNCHANGED <<gens, clock>>
  /\ ~Publishing(job'[r])
  /\ job'[r].src \in {0, job[r].src} \cup {g.time : g \in gens}

LEMMA RefreshUnstamped ==
  ASSUME Typed, NEW r \in Refreshers,
         Refresh(r) \/ Kill(r), ~Save(r), ~Publish(r)
  PROVE  Unstamped(r)
  <1>2. ~Publishing(NoJob) /\ NoJob.src = 0
    BY DEF Publishing, NoJob
  <1>3. ASSUME Only(r), ~Publishing(job'[r]),
               job'[r].src \in {0, job[r].src} \cup {g.time : g \in gens}
        PROVE  Unstamped(r)
    BY <1>3 DEF Only, Unstamped
  <1>4. CASE Resolve(r)
    <2>1. PICK s \in Live, src \in Nat :
            /\ src = IF s = base THEN 0 ELSE s.time
            /\ job'[r].pc = "prints" /\ job'[r].src = src
      BY <1>4, ResolveIs
    <2>3. src \in {0} \cup {g.time : g \in gens}
      BY <2>1 DEF Live, Candidates
    <2> QED
      BY <1>3, <1>4, <2>1, <2>3, ResolveIs DEF Publishing
  <1>5. CASE Fingerprint(r)
    BY <1>2, <1>3, <1>5, FingerprintIs DEF Publishing
  <1>6. CASE ReadChunks(r)
    BY <1>3, <1>6, ReadChunksIs DEF Publishing
  <1>7. CASE ReadIndex(r)
    BY <1>3, <1>7, ReadIndexIs DEF Publishing
  <1>8. CASE SourceGone(r)
    BY <1>2, <1>3, <1>8, SourceGoneIs
  <1>9. CASE ChunkChanged(r)
    BY <1>3, <1>9, ChunkChangedIs DEF Publishing
  <1>10. CASE Assemble(r)
    BY <1>2, <1>3, <1>10, AssembleIs DEF Publishing
  <1>11. CASE Stamp(r)
    BY <1>3, <1>11, StampIs DEF Publishing
  <1>12. CASE Kill(r)
    BY <1>2, <1>12, KillIs DEF Unstamped, Kill
  <1> QED
    BY <1>4, <1>5, <1>6, <1>7, <1>8, <1>9, <1>10, <1>11, <1>12 DEF Refresh

LEMMA TimesStep ==
  ASSUME Typed, Times, Apart, [Next]_vars
  PROVE  Times' /\ Apart'
  <1>1. /\ clock \in Nat /\ \A g \in gens : g.time \in Nat
        /\ \A r \in Refreshers : job[r].src \in Nat /\ job[r].time \in Nat
    BY TypedIs DEF StoreType, JobType
  <1>2. ASSUME NEW r \in Refreshers, Unstamped(r)
        PROVE  Times' /\ Apart'
    <2>1. job'[r].src <= clock
      BY <1>1, <1>2 DEF Unstamped, Times
    <2>2. Times'
      BY <1>2, <2>1 DEF Unstamped, Times
    <2>3. \A q \in Refreshers : Publishing(job[q]) => job'[r].src # job[q].time
      BY <1>1, <1>2 DEF Unstamped, Apart, Times
    <2>4. Apart'
      BY <1>2, <2>3 DEF Unstamped, Apart
    <2> QED
      BY <2>2, <2>4
  <1>3. ASSUME NEW r \in Refreshers, Save(r)
        PROVE  Times' /\ Apart'
    <2> DEFINE t == clock + 1
    <2>1. /\ \A q \in Refreshers : q # r => job'[q] = job[q]
          /\ ~Publishing(job[r]) /\ job'[r].time = t
          /\ job'[r].src = job[r].src
          /\ clock' = t /\ gens' = gens
      BY <1>3, SaveIs, Zenon DEF Publishing
    <2>2. /\ t \in Nat /\ 1 <= t
          /\ \A n \in Nat : n <= clock => n <= t /\ n # t
      BY <1>1
    <2>3. /\ \A q \in Refreshers : job'[q].src = job[q].src /\ job[q].src # t
          /\ \A g \in gens : g.time # t /\ g.time <= t
          /\ \A q \in Refreshers : job[q].src <= t
          /\ \A q \in Refreshers : Publishing(job[q]) =>
               job[q].time # t /\ job[q].time <= t
      BY <1>1, <2>1, <2>2 DEF Times
    <2>4. t <= t
      BY <2>2
    <2> HIDE DEF t
    <2>5. Times'
      BY <2>1, <2>2, <2>3, <2>4 DEF Times
    <2>6. Apart'
      BY <2>1, <2>3 DEF Apart
    <2> QED
      BY <2>5, <2>6
  <1>4. ASSUME NEW r \in Refreshers, Publish(r)
        PROVE  Times' /\ Apart'
    <2> DEFINE g == Published(job[r])
    <2>1. /\ \A q \in Refreshers : q # r => job'[q] = job[q]
          /\ Publishing(job[r]) /\ job'[r] = NoJob
          /\ gens' = gens \cup {g} /\ clock' = clock
      BY <1>4, PublishIs DEF Publishing
    <2>2. g.time = job[r].time
      BY DEF Published, Store
    <2>3. ~Publishing(NoJob) /\ NoJob.src = 0
      BY DEF NoJob, Publishing
    <2> HIDE DEF g
    <2>4. Times'
      BY <1>1, <2>1, <2>2, <2>3 DEF Times
    <2>5. \A q \in Refreshers : Publishing(job[q]) => job[q].time # 0
      BY <1>1 DEF Times
    <2>6. Apart'
      BY <2>1, <2>2, <2>3, <2>5 DEF Apart
    <2> QED
      BY <2>4, <2>6
  <1>5. ASSUME gens' \subseteq gens, clock' = clock \/ clock' = clock + 1,
               \A r \in Refreshers : /\ job'[r].pc = job[r].pc
                                     /\ job'[r].src = job[r].src
                                     /\ job'[r].time = job[r].time
        PROVE  Times' /\ Apart'
    <2>1. \A n \in Nat : n <= clock => n <= clock'
      BY <1>1, <1>5
    <2>2. Times'
      BY <1>1, <1>5, <2>1 DEF Times, Publishing
    <2>3. Apart'
      BY <1>5 DEF Apart, Publishing
    <2> QED
      BY <2>2, <2>3
  <1>6. CASE Build \/ BuildChunks \/ KillBuild
    BY <1>5, <1>6 DEF Build, BuildWhole, BuildPrints, SaveChunks, SaveIndex,
       SaveMeta, Builds, BuildChunks, KillBuild
  <1>7. ASSUME NEW d \in Docs, Edit(d)
        PROVE  Times' /\ Apart'
    <2>1. \A r \in Refreshers : /\ job'[r].pc = job[r].pc
                                /\ job'[r].src = job[r].src
                                /\ job'[r].time = job[r].time
      BY <1>7, EditIs, Zenon
    <2> QED
      BY <1>5, <1>7, <2>1 DEF Edit
  <1>8. ASSUME NEW g \in gens, Rollback(g)
        PROVE  Times' /\ Apart'
    BY <1>5, <1>8 DEF Rollback
  <1>9. CASE UNCHANGED vars
    BY <1>5, <1>9 DEF vars
  <1> QED
    BY <1>2, <1>3, <1>4, <1>6, <1>7, <1>8, <1>9, RefreshUnstamped DEF Next

LEMMA TimesInit ==
  ASSUME Init
  PROVE  Times /\ Apart
  BY DEF Init, Times, Apart, Publishing, NoJob

-----------------------------------------------------------------------------
(* Rows stay with the texts they encode.                                   *)

Carried(j) == j.pc \in {"chunk", "assemble", "stamp", "save", "publish"}

\* Between its two reads a refresher has the chunks of its source.
HalfRead(r) ==
  job[r].pc = "index" => \A s \in Source(r) : s.chunks = job[r].chunks

RowsKept ==
  /\ \A g \in gens : g.rows = TextOf(g.chunks)
  /\ Saving => base.chunks = build.chunks /\ \A r \in Refreshers : ~ReadsBase(r)
  /\ build.pc # "index" => base.rows = TextOf(base.chunks)
  /\ \A r \in Refreshers : HalfRead(r)
  /\ \A r \in Refreshers : Carried(job[r]) => job[r].rows = TextOf(job[r].chunks)

\* Every row of the assembled store is a row of the old one with the same
\* text, or a new embedding.
LEMMA MergedRowsMatch ==
  ASSUME Typed, NEW j \in JobType, j.rows = TextOf(j.chunks)
  PROVE  MergedRows(j) = TextOf(MergedChunks(j))
  <1>1. \A e \in Docs : j.rows[e] = Text[e][j.chunks[e]]
    BY DEF TextOf
  <1>2. ASSUME NEW d \in Docs
        PROVE  RowOf(j, d) = Text[d][j.fresh[d]]
    <2> DEFINE text == Text[d][j.fresh[d]]
               e == CHOOSE e \in Holders(j, text) : TRUE
    <2>1. CASE SameText(j, d)
      BY <1>1, <2>1 DEF SameText, RowOf
    <2>2. CASE ~SameText(j, d) /\ Holders(j, text) # {}
      <3>1. e \in Holders(j, text)
        BY <2>2
      <3>2. e \in Docs /\ Text[e][j.chunks[e]] = text
        BY <3>1 DEF Holders
      <3> HIDE DEF e
      <3>3. j.rows[e] = text
        BY <1>1, <3>2
      <3> QED
        BY <2>2, <3>3 DEF RowOf, e
    <2>3. CASE ~SameText(j, d) /\ Holders(j, text) = {}
      BY <2>3 DEF RowOf
    <2> QED
      BY <2>1, <2>2, <2>3
  <1>3. ASSUME NEW d \in Docs
        PROVE  MergedRow(j, d) = Text[d][Merged(j, d)]
    <2>1. d \notin Present(corpus) => Text[d][corpus[d]] = None
      BY DEF Present
    <2> QED
      BY <1>1, <1>2, <2>1 DEF MergedRow, Merged
  <1> QED
    BY <1>3 DEF MergedRows, MergedChunks, TextOf

LEMMA RowsStep ==
  ASSUME Typed, Times, Apart, RowsKept, Alone, [Next]_vars
  PROVE  RowsKept'
  <1>1. ASSUME NEW r \in Refreshers,
               \A q \in Refreshers : q # r => job'[q] = job[q],
               UNCHANGED <<base, build, gens>>,
               ReadsBase(r)' => ~Saving,
               HalfRead(r)',
               Carried(job'[r]) => job'[r].rows = TextOf(job'[r].chunks)
        PROVE  RowsKept'
    <2>1. \A q \in Refreshers : HalfRead(q)'
      BY <1>1 DEF RowsKept, HalfRead, Source
    <2>2. \A q \in Refreshers : Saving => ~ReadsBase(q)'
      BY <1>1 DEF RowsKept, ReadsBase
    <2> QED
      BY <1>1, <2>1, <2>2 DEF RowsKept, Saving
  <1>2. ASSUME NEW r \in Refreshers,
               \A q \in Refreshers : q # r => job'[q] = job[q],
               UNCHANGED <<base, build, gens>>,
               job'[r] = NoJob
        PROVE  RowsKept'
    BY <1>1, <1>2 DEF NoJob, ReadsBase, HalfRead, Carried
  <1>3. ASSUME NEW r \in Refreshers, Refresh(r)
        PROVE  RowsKept'
    <2>1. CASE Resolve(r)
      <3>1. PICK s \in Live, src \in Nat :
              /\ Only(r) /\ job'[r].pc = "prints" /\ job'[r].src = src
              /\ src = 0 /\ Saving => ~Alone
        BY <2>1, ResolveIs
      <3> QED
        BY <1>1, <3>1 DEF Only, ReadsBase, HalfRead, Carried
    <2>2. CASE Fingerprint(r)
      <3>1. CASE job'[r] = NoJob
        BY <1>2, <2>2, <3>1, FingerprintIs DEF Only
      <3>2. CASE job'[r] # NoJob
        <4>1. Only(r) /\ job'[r].pc = "chunks" /\ job'[r].src = job[r].src
              /\ job[r].pc = "prints"
          BY <2>2, <3>2, FingerprintIs
        <4>2. ReadsBase(r)' => ~Saving
          BY <4>1 DEF RowsKept, ReadsBase
        <4> QED
          BY <1>1, <4>1, <4>2 DEF Only, HalfRead, Carried
      <3> QED
        BY <3>1, <3>2
    <2>3. CASE ReadChunks(r)
      <3>1. PICK s \in Source(r) :
              /\ Only(r) /\ job[r].pc = "chunks" /\ job'[r].pc = "index"
              /\ job'[r].src = job[r].src /\ job'[r].chunks = s.chunks
        BY <2>3, ReadChunksIs
      <3>2. ReadsBase(r)' => ~Saving
        BY <3>1 DEF RowsKept, ReadsBase
      <3>3. HalfRead(r)'
        BY <3>1 DEF HalfRead, Source, Only, Apart
      <3> QED
        BY <1>1, <3>1, <3>2, <3>3 DEF Only, Carried
    <2>4. CASE ReadIndex(r)
      <3>1. PICK s \in Source(r) :
              /\ Only(r) /\ job[r].pc = "index" /\ job'[r].pc = "chunk"
              /\ job'[r].chunks = job[r].chunks /\ job'[r].rows = s.rows
        BY <2>4, ReadIndexIs
      <3>2. s.chunks = job[r].chunks
        BY <3>1 DEF RowsKept, HalfRead
      <3>3. s.rows = TextOf(s.chunks)
        BY <3>1 DEF RowsKept, Source, ReadsBase, Saving
      <3> QED
        BY <1>1, <3>1, <3>2, <3>3 DEF Only, ReadsBase, HalfRead
    <2>5. CASE SourceGone(r)
      BY <1>2, <2>5, SourceGoneIs DEF Only
    <2>6. CASE ChunkChanged(r)
      BY <1>1, <2>6, ChunkChangedIs DEF Only, ReadsBase, HalfRead, Carried, RowsKept
    <2>7. CASE Assemble(r)
      <3>1. CASE job'[r] = NoJob
        BY <1>2, <2>7, <3>1, AssembleIs DEF Only
      <3>2. CASE job'[r] # NoJob
        <4>1. /\ Only(r) /\ job'[r].pc = "stamp" /\ job[r].pc = "assemble"
              /\ job'[r].chunks = MergedChunks(job[r])
              /\ job'[r].rows = MergedRows(job[r])
          BY <2>7, <3>2, AssembleIs
        <4>2. job[r].rows = TextOf(job[r].chunks) /\ job[r] \in JobType
          BY <4>1, TypedIs DEF RowsKept, Carried
        <4>3. job'[r].rows = TextOf(job'[r].chunks)
          BY <4>1, <4>2, MergedRowsMatch
        <4> QED
          BY <1>1, <4>1, <4>3 DEF Only, ReadsBase, HalfRead
      <3> QED
        BY <3>1, <3>2
    <2>8. CASE Stamp(r)
      BY <1>1, <2>8, StampIs DEF Only, ReadsBase, HalfRead, Carried, RowsKept
    <2>9. CASE Save(r)
      <3>1. /\ \A q \in Refreshers : q # r => job'[q] = job[q]
            /\ UNCHANGED <<base, build, gens>>
            /\ job[r].pc = "save" /\ job'[r].pc = "publish"
            /\ job'[r].chunks = job[r].chunks /\ job'[r].rows = job[r].rows
        BY <2>9, SaveIs, Zenon
      <3> QED
        BY <1>1, <3>1 DEF ReadsBase, HalfRead, Carried, RowsKept
    <2>10. CASE Publish(r)
      <3> DEFINE g == Published(job[r])
      <3>1. /\ \A q \in Refreshers : q # r => job'[q] = job[q]
            /\ UNCHANGED <<base, build>>
            /\ gens' = gens \cup {g}
            /\ job[r].pc = "publish" /\ job'[r] = NoJob
        BY <2>10, PublishIs
      <3>2. g.rows = TextOf(g.chunks) /\ g.time = job[r].time
        BY <3>1 DEF Published, Store, RowsKept, Carried
      <3> HIDE DEF g
      <3>3. ASSUME NEW q \in Refreshers, q # r
            PROVE  Source(q)' = Source(q)
        <4>1. g.time # job[q].src
          BY <3>1, <3>2 DEF Apart, Publishing
        <4>2. job'[q] = job[q]
          BY <3>1, <3>3
        <4> QED
          BY <3>1, <4>1, <4>2 DEF Source
      <3>4. \A q \in Refreshers : HalfRead(q)'
        BY <3>1, <3>3 DEF RowsKept, HalfRead, NoJob
      <3>5. \A q \in Refreshers : Saving => ~ReadsBase(q)'
        BY <3>1 DEF RowsKept, ReadsBase, NoJob
      <3>6. \A q \in Refreshers : Carried(job'[q]) =>
              job'[q].rows = TextOf(job'[q].chunks)
        BY <3>1 DEF RowsKept, Carried, NoJob
      <3> QED
        BY <3>1, <3>2, <3>4, <3>5, <3>6 DEF RowsKept, Saving
    <2> QED
      BY <1>3, <2>1, <2>2, <2>3, <2>4, <2>5, <2>6, <2>7, <2>8, <2>9, <2>10
         DEF Refresh
  <1>4. ASSUME NEW r \in Refreshers, Kill(r)
        PROVE  RowsKept'
    BY <1>2, <1>4, KillIs
  <1>5. CASE BuildChunks \/ BuildWhole \/ BuildPrints \/ KillBuild
    <2>1. UNCHANGED <<base, gens, job>> /\ ~Saving
      <3>1. CASE KillBuild
        BY <3>1 DEF KillBuild
      <3>2. CASE BuildChunks \/ BuildWhole \/ BuildPrints
        BY <3>2 DEF BuildChunks, BuildWhole, BuildPrints, Builds, Saving
      <3> QED
        BY <1>5, <3>1, <3>2
    <2>2. build'.pc \in {"whole", "prints", "chunks", "idle"}
      <3>1. CASE KillBuild
        BY <3>1 DEF KillBuild, NoBuild
      <3>2. CASE BuildChunks
        BY <3>2, TypedIs DEF BuildChunks, Builds, BuildType
      <3>3. CASE BuildWhole \/ BuildPrints
        BY <3>3, TypedIs DEF BuildWhole, BuildPrints, Builds, BuildType
      <3> QED
        BY <1>5, <3>1, <3>2, <3>3
    <2> QED
      BY <2>1, <2>2 DEF RowsKept, HalfRead, Source, Saving
  <1>6. CASE SaveChunks
    <2>1. /\ UNCHANGED <<gens, job>> /\ \A r \in Refreshers : ~ReadsBase(r)
          /\ base'.chunks = build.chunks /\ build'.chunks = build.chunks
          /\ build'.pc = "index"
      BY <1>6, TypedIs DEF SaveChunks, Builds, StoreType, BuildType
    <2>2. \A r \in Refreshers : HalfRead(r)'
      BY <2>1 DEF RowsKept, HalfRead, Source, ReadsBase
    <2> QED
      BY <2>1, <2>2 DEF RowsKept, ReadsBase
  <1>7. CASE SaveIndex
    <2>1. /\ UNCHANGED <<gens, job>> /\ base'.chunks = base.chunks
          /\ base'.rows = TextOf(build.chunks)
          /\ build'.chunks = build.chunks /\ Saving /\ build'.pc = "meta"
      BY <1>7, TypedIs DEF SaveIndex, Builds, StoreType, BuildType, Saving
    <2> QED
      BY <2>1 DEF RowsKept, HalfRead, Source, ReadsBase, Saving
  <1>8. CASE SaveMeta
    <2>1. /\ UNCHANGED <<gens, job>> /\ base'.chunks = base.chunks
          /\ base'.rows = base.rows /\ Saving /\ build.pc = "meta"
          /\ build'.pc = "idle"
      BY <1>8, TypedIs DEF SaveMeta, Builds, StoreType, NoBuild, Saving
    <2> QED
      BY <2>1 DEF RowsKept, HalfRead, Source, ReadsBase, Saving
  <1>9. ASSUME NEW d \in Docs, Edit(d)
        PROVE  RowsKept'
    <2>1. \A r \in Refreshers :
            /\ job'[r].pc = job[r].pc /\ job'[r].src = job[r].src
            /\ job'[r].chunks = job[r].chunks /\ job'[r].rows = job[r].rows
      BY <1>9, EditIs, Zenon
    <2>2. UNCHANGED <<base, gens, build>>
      BY <1>9 DEF Edit
    <2>3. \A r \in Refreshers : HalfRead(r)'
      BY <2>1, <2>2 DEF RowsKept, HalfRead, Source
    <2> QED
      BY <2>1, <2>2, <2>3 DEF RowsKept, ReadsBase, Saving, Carried
  <1>10. ASSUME NEW g \in gens, Rollback(g)
         PROVE  RowsKept'
    <2>1. gens' \subseteq gens /\ UNCHANGED <<base, build, job>>
      BY <1>10 DEF Rollback
    <2>2. \A r \in Refreshers : HalfRead(r)'
      BY <2>1 DEF RowsKept, HalfRead, Source
    <2> QED
      BY <2>1, <2>2 DEF RowsKept, ReadsBase, Saving
  <1>11. CASE UNCHANGED vars
    BY <1>11 DEF vars, RowsKept, HalfRead, Source, ReadsBase, Saving
  <1> QED
    BY <1>3, <1>4, <1>5, <1>6, <1>7, <1>8, <1>9, <1>10, <1>11 DEF Next, Build

LEMMA RowsInit ==
  ASSUME Init
  PROVE  RowsKept
  BY DEF Init, RowsKept, Saving, NoBuild, NoJob, Store, HalfRead, Carried

LEMMA RowsAlways ==
  ASSUME "mixed" \notin Faults
  PROVE  Spec => []RowsKept
  <1> DEFINE RInv == Typed /\ Times /\ Apart /\ RowsKept
  <1>1. Init => RInv
    BY TypesInit, TimesInit, RowsInit
  <1>2. RInv /\ [Next]_vars => RInv'
    BY TypesStep, TimesStep, RowsStep DEF Alone
  <1>3. RInv => RowsKept
    OBVIOUS
  <1> HIDE DEF RInv
  <1> QED
    BY <1>1, <1>2, <1>3, PTL DEF Spec

\* Rows that are carried over from store to store stay with their texts, when
\* build-index does not write the base directory under a refresher.
THEOREM RowsStay == "mixed" \notin Faults /\ Spec => []RowsMatchChunks
  <1> SUFFICES ASSUME "mixed" \notin Faults
               PROVE  Spec => []RowsMatchChunks
    OBVIOUS
  <1>1. RowsKept => RowsMatchChunks
    BY DEF RowsKept, RowsMatchChunks, Complete, Saving
  <1> QED
    BY <1>1, RowsAlways, PTL

-----------------------------------------------------------------------------
(* What the fingerprints of a store say about its chunks, whatever build-index *)
(* does to the base directory meanwhile.                                       *)

Below(p, q) == \A d \in Docs : p[d] <= q[d]

\* The chunk of a document is of a version since the recorded one; or of an older
\* one, if the document was missing and has come back.
Faithful(p, c, now) ==
  /\ Below(p, now) /\ Below(c, now)
  /\ \A d \in Docs : p[d] <= c[d] \/ (Text[d][p[d]] = None /\ p[d] < now[d])

\* The store that is read is the one that was compared, or a later build.
Compared(r) ==
  job[r].pc \in {"prints", "chunks"} =>
    \A s \in Source(r) : IF job[r].src = 0 THEN Below(job[r].recorded, s.prints)
                         ELSE s.prints = job[r].recorded

Traced(j, now) ==
  /\ j.pc \notin {"idle", "prints"} => Below(j.current, now)
  /\ j.pc \in {"index", "chunk", "assemble"} => Faithful(j.recorded, j.chunks, now)
  /\ j.pc = "assemble" =>
       \A d \in Changed(j) : j.current[d] <= j.fresh[d] /\ j.fresh[d] <= now[d]
  /\ j.pc \in {"stamp", "save", "publish"} => Faithful(j.current, j.chunks, now)
  /\ j.quiet /\ j.pc \notin {"idle", "prints"} => j.current = now

\* The chunks of the base directory are written before its fingerprints.
BaseTraced ==
  /\ Below(base.prints, base.chunks) /\ Below(base.chunks, corpus)
  /\ build.pc \in {"whole", "prints"} => build.chunks = corpus
  /\ build.pc # "idle" =>
       Below(base.prints, build.chunks) /\ Below(build.chunks, corpus)
  /\ build.pc \in {"chunks", "index", "meta"} => build.prints = build.chunks
  /\ build.pc \in {"index", "meta"} => base.chunks = build.chunks

AllTraced ==
  /\ BaseTraced
  /\ \A g \in gens : Faithful(g.prints, g.chunks, corpus)
  /\ \A r \in Refreshers : Compared(r) /\ Traced(job[r], corpus)

LEMMA MarksNat ==
  ASSUME NEW m \in Marks, NEW d \in Docs
  PROVE  m[d] \in Nat
  BY StoreAssumption DEF Marks, Versions

LEMMA BelowAll ==
  /\ \A m \in Marks : Below(m, m)
  /\ \A m, n, o \in Marks : Below(m, n) /\ Below(n, o) => Below(m, o)
  <1>1. ASSUME NEW m \in Marks
        PROVE  Below(m, m)
    BY MarksNat DEF Below
  <1>2. ASSUME NEW m \in Marks, NEW n \in Marks, NEW o \in Marks,
               Below(m, n), Below(n, o)
        PROVE  Below(m, o)
    <2>1. ASSUME NEW d \in Docs
          PROVE  m[d] <= o[d]
      <3>1. m[d] \in Nat /\ n[d] \in Nat /\ o[d] \in Nat
        BY MarksNat
      <3>2. m[d] <= n[d] /\ n[d] <= o[d]
        BY <1>2 DEF Below
      <3> QED
        BY <3>1, <3>2
    <2> QED
      BY <2>1 DEF Below
  <1> QED
    BY <1>1, <1>2

\* Editing takes nothing back.
LEMMA FaithfulGrows ==
  ASSUME NEW p \in Marks, NEW c \in Marks, NEW now \in Marks, NEW later \in Marks,
         Faithful(p, c, now), Below(now, later)
  PROVE  Faithful(p, c, later)
  <1>1. Below(p, later) /\ Below(c, later)
    BY BelowAll DEF Faithful
  <1>2. ASSUME NEW d \in Docs, ~(p[d] <= c[d])
        PROVE  Text[d][p[d]] = None /\ p[d] < later[d]
    <2>1. p[d] \in Nat /\ now[d] \in Nat /\ later[d] \in Nat
      BY MarksNat
    <2>2. now[d] <= later[d]
      BY DEF Below
    <2>3. Text[d][p[d]] = None /\ p[d] < now[d]
      BY <1>2 DEF Faithful
    <2> QED
      BY <2>1, <2>2, <2>3
  <1> QED
    BY <1>1, <1>2 DEF Faithful

\* What is below is faithful.
LEMMA BelowFaithful ==
  ASSUME NEW p \in Marks, NEW c \in Marks, NEW now \in Marks,
         Below(p, c), Below(c, now)
  PROVE  Faithful(p, c, now)
  <1>1. Below(p, now)
    BY BelowAll
  <1> QED
    BY <1>1 DEF Faithful, Below

LEMMA EditGrows ==
  ASSUME Typed, NEW d \in Docs, Edit(d)
  PROVE  corpus' \in Marks /\ Below(corpus, corpus')
  <1>1. corpus' \in Marks
    BY TypesStep, TypedIs DEF Next, Typed, Types
  <1>2. ASSUME NEW e \in Docs
        PROVE  corpus[e] <= corpus'[e]
    <2>1. corpus[e] \in Nat
      BY TypedIs, MarksNat
    <2>2. corpus'[e] = corpus[e] \/ corpus'[e] = corpus[e] + 1
      BY EditIs, TypedIs DEF Marks
    <2> QED
      BY <2>1, <2>2
  <1> QED
    BY <1>1, <1>2 DEF Below

\* A refresh that reads the base directory reads chunks that are no older than the
\* fingerprints it has compared.
LEMMA SourceFaithful ==
  ASSUME Typed, Times, AllTraced, NEW r \in Refreshers, NEW s \in Source(r),
         job[r].pc = "chunks"
  PROVE  Faithful(job[r].recorded, s.chunks, corpus)
  <1> DEFINE rec == job[r].recorded
  <1>1. rec \in Marks /\ corpus \in Marks
    BY TypedIs DEF JobType
  <1>2. s.chunks \in Marks /\ s.prints \in Marks
    BY SourceType DEF StoreType
  <1>3. Compared(r)
    BY DEF AllTraced
  <1>4. CASE job[r].src = 0
    <2>1. s = base /\ Below(rec, s.prints)
      BY <1>3, <1>4 DEF Compared, Source
    <2>2. Below(s.prints, s.chunks) /\ Below(s.chunks, corpus)
      BY <2>1 DEF AllTraced, BaseTraced
    <2>3. Below(rec, s.chunks)
      BY <1>1, <1>2, <2>1, <2>2, BelowAll
    <2> QED
      BY <1>1, <1>2, <2>2, <2>3, BelowFaithful
  <1>5. CASE job[r].src # 0
    <2>1. s \in gens /\ s.prints = rec
      BY <1>3, <1>5 DEF Compared, Source
    <2> QED
      BY <2>1 DEF AllTraced
  <1> QED
    BY <1>4, <1>5

\* Assembling gives what the new fingerprints say: a document without a fresh
\* chunk either has the recorded fingerprint, or was missing and has come back.
LEMMA MergedFaithful ==
  ASSUME Typed, NEW j \in JobType, j.pc = "assemble", Traced(j, corpus)
  PROVE  Faithful(j.current, MergedChunks(j), corpus)
  <1> DEFINE cur == j.current
  <1>1. corpus \in Marks /\ cur \in Marks /\ Below(cur, corpus)
    BY TypedIs DEF Traced, JobType
  <1>2. Faithful(j.recorded, j.chunks, corpus)
    BY DEF Traced
  <1>3. ASSUME NEW d \in Docs
        PROVE  /\ Merged(j, d) <= corpus[d]
               /\ \/ cur[d] <= Merged(j, d)
                  \/ Text[d][cur[d]] = None /\ cur[d] < corpus[d]
    <2>1. corpus[d] \in Nat /\ cur[d] \in Nat /\ cur[d] <= corpus[d]
      BY <1>1, MarksNat DEF Below
    <2>2. CASE d \notin Present(corpus)
      BY <2>1, <2>2 DEF Merged
    <2>3. CASE d \in Present(corpus) /\ d \in Changed(j)
      BY <2>3 DEF Merged, Traced
    <2>4. CASE d \in Present(corpus) /\ d \notin Changed(j)
      <3>1. Merged(j, d) = j.chunks[d] /\ j.chunks[d] <= corpus[d]
        BY <1>2, <2>4 DEF Merged, Faithful, Below
      <3>2. CASE d \in Present(cur)
        <4>1. j.recorded[d] = cur[d] /\ Text[d][cur[d]] # None
          BY <2>4, <3>2 DEF Changed, Modified, Present
        <4>2. cur[d] <= j.chunks[d]
          BY <1>2, <4>1 DEF Faithful
        <4> QED
          BY <3>1, <4>2
      <3>3. CASE d \notin Present(cur)
        <4>1. Text[d][cur[d]] = None /\ cur[d] # corpus[d]
          BY <2>4, <3>3 DEF Present
        <4>2. cur[d] < corpus[d]
          BY <2>1, <4>1
        <4> QED
          BY <3>1, <4>1, <4>2
      <3> QED
        BY <3>2, <3>3
    <2> QED
      BY <2>2, <2>3, <2>4
  <1> QED
    BY <1>1, <1>3 DEF Faithful, Below, MergedChunks

LEMMA RefreshTraced ==
  ASSUME Typed, Times, Apart, AllTraced, NEW r \in Refreshers,
         Refresh(r), ~Publish(r)
  PROVE  /\ \A q \in Refreshers : q # r => job'[q] = job[q]
         /\ UNCHANGED <<corpus, base, gens, build>>
         /\ Compared(r)' /\ Traced(job'[r], corpus)
  <1> DEFINE Goal ==
        /\ \A q \in Refreshers : q # r => job'[q] = job[q]
        /\ UNCHANGED <<corpus, base, gens, build>>
        /\ Compared(r)' /\ Traced(job'[r], corpus)
  <1>1. Compared(r) /\ Traced(job[r], corpus)
    BY DEF AllTraced
  <1>2. ASSUME Only(r), job'[r] = NoJob
        PROVE  Goal
    BY <1>2 DEF Only, Compared, Traced, NoJob
  <1>3. CASE Resolve(r)
    <2>1. PICK s \in Live, src \in Nat :
            /\ Only(r) /\ s \in StoreType
            /\ src = IF s = base THEN 0 ELSE s.time
            /\ job'[r].pc = "prints" /\ job'[r].src = src
            /\ job'[r].recorded = s.prints
      BY <1>3, ResolveIs
    <2>2. Source(r)' = {s}
      <3>1. CASE s = base
        BY <2>1, <3>1 DEF Source, Only
      <3>2. CASE s # base
        <4>1. s \in gens /\ s.time # 0
          BY <3>2, <2>1 DEF Live, Candidates, Times, StoreType
        <4> QED
          BY <2>1, <3>2, <4>1 DEF Source, Apart, Only
      <3> QED
        BY <3>1, <3>2
    <2>3. s.prints \in Marks
      BY <2>1 DEF StoreType
    <2>4. Compared(r)'
      BY <2>1, <2>2, <2>3, BelowAll DEF Compared
    <2> QED
      BY <2>1, <2>4 DEF Only, Traced
  <1>4. CASE Fingerprint(r)
    <2>1. CASE job'[r] = NoJob
      BY <1>2, <1>4, <2>1, FingerprintIs
    <2>2. CASE job'[r] # NoJob
      <3>1. /\ Only(r) /\ job[r].pc = "prints" /\ job'[r].pc = "chunks"
            /\ job'[r].src = job[r].src /\ job'[r].recorded = job[r].recorded
            /\ job'[r].current = corpus
        BY <1>4, <2>2, FingerprintIs
      <3>2. Compared(r)'
        BY <1>1, <3>1 DEF Compared, Source, Only
      <3>3. Below(corpus, corpus)
        BY TypedIs, BelowAll
      <3> QED
        BY <3>1, <3>2, <3>3 DEF Only, Traced
    <2> QED
      BY <2>1, <2>2
  <1>5. CASE ReadChunks(r)
    <2>1. PICK s \in Source(r) :
            /\ Only(r) /\ job[r].pc = "chunks" /\ job'[r].pc = "index"
            /\ job'[r].recorded = job[r].recorded
            /\ job'[r].current = job[r].current /\ job'[r].chunks = s.chunks
            /\ job'[r].quiet = job[r].quiet
      BY <1>5, ReadChunksIs
    <2>2. Faithful(job[r].recorded, s.chunks, corpus)
      BY <2>1, SourceFaithful
    <2> QED
      BY <1>1, <2>1, <2>2 DEF Only, Traced, Compared
  <1>6. CASE ReadIndex(r)
    <2>1. /\ Only(r) /\ job[r].pc = "index" /\ job'[r].pc = "chunk"
          /\ job'[r].recorded = job[r].recorded
          /\ job'[r].current = job[r].current /\ job'[r].chunks = job[r].chunks
          /\ job'[r].quiet = job[r].quiet
      BY <1>6, ReadIndexIs
    <2> QED
      BY <1>1, <2>1 DEF Only, Traced, Compared
  <1>7. CASE SourceGone(r)
    BY <1>2, <1>7, SourceGoneIs
  <1>8. CASE ChunkChanged(r)
    <2>1. /\ Only(r) /\ job[r].pc = "chunk" /\ job'[r].pc = "assemble"
          /\ job'[r].recorded = job[r].recorded
          /\ job'[r].current = job[r].current /\ job'[r].chunks = job[r].chunks
          /\ job'[r].fresh = FreshChunks(job[r])
          /\ job'[r].quiet = job[r].quiet
      BY <1>8, ChunkChangedIs
    <2>2. Changed(job'[r]) = Changed(job[r]) /\ Changed(job[r]) \subseteq Docs
      BY <2>1 DEF Changed, Modified, Present
    <2>3. \A d \in Changed(job'[r]) : job'[r].fresh[d] = corpus[d]
      BY <2>1, <2>2 DEF FreshChunks
    <2>4. Below(job[r].current, corpus) /\ Below(corpus, corpus)
      BY <1>1, <2>1, TypedIs, BelowAll DEF Traced
    <2> QED
      BY <1>1, <2>1, <2>2, <2>3, <2>4 DEF Only, Traced, Compared, Below
  <1>9. CASE Assemble(r)
    <2>1. CASE job'[r] = NoJob
      BY <1>2, <1>9, <2>1, AssembleIs
    <2>2. CASE job'[r] # NoJob
      <3>1. /\ Only(r) /\ job[r].pc = "assemble" /\ job'[r].pc = "stamp"
            /\ job'[r].current = job[r].current
            /\ job'[r].chunks = MergedChunks(job[r])
            /\ job'[r].quiet = job[r].quiet
        BY <1>9, <2>2, AssembleIs
      <3>2. Faithful(job[r].current, MergedChunks(job[r]), corpus)
        BY <1>1, <3>1, TypedIs, MergedFaithful
      <3> QED
        BY <1>1, <3>1, <3>2 DEF Only, Traced, Compared
    <2> QED
      BY <2>1, <2>2
  <1>10. CASE Stamp(r)
    <2>1. /\ Only(r) /\ job[r].pc = "stamp" /\ job'[r].pc = "save"
          /\ job'[r].current = job[r].current /\ job'[r].chunks = job[r].chunks
          /\ job'[r].quiet = job[r].quiet
      BY <1>10, StampIs
    <2> QED
      BY <1>1, <2>1 DEF Only, Traced, Compared
  <1>11. CASE Save(r)
    <2>1. /\ \A q \in Refreshers : q # r => job'[q] = job[q]
          /\ UNCHANGED <<corpus, base, gens, build>>
          /\ job[r].pc = "save" /\ job'[r].pc = "publish"
          /\ job'[r].current = job[r].current /\ job'[r].chunks = job[r].chunks
          /\ job'[r].quiet = job[r].quiet
      BY <1>11, SaveIs, Zenon
    <2> QED
      BY <1>1, <2>1 DEF Traced, Compared
  <1> QED
    BY <1>3, <1>4, <1>5, <1>6, <1>7, <1>8, <1>9, <1>10, <1>11 DEF Refresh

\* An edit during a refresh leaves what it has read as old as it was.
LEMMA TracedGrows ==
  ASSUME NEW j \in JobType, NEW now \in Marks, NEW later \in Marks,
         Traced(j, now), Below(now, later), NEW k,
         k.pc = j.pc, k.recorded = j.recorded, k.current = j.current,
         k.chunks = j.chunks, k.fresh = j.fresh, ~k.quiet
  PROVE  Traced(k, later)
  <1>1. /\ j.current \in Marks /\ j.recorded \in Marks /\ j.chunks \in Marks
        /\ j.fresh \in Marks
    BY DEF JobType
  <1>2. k.pc \notin {"idle", "prints"} => Below(k.current, later)
    BY <1>1, BelowAll DEF Traced
  <1>3. /\ k.pc \in {"index", "chunk", "assemble"} =>
             Faithful(k.recorded, k.chunks, later)
        /\ k.pc \in {"stamp", "save", "publish"} =>
             Faithful(k.current, k.chunks, later)
    BY <1>1, FaithfulGrows DEF Traced
  <1>4. ASSUME k.pc = "assemble", NEW d \in Changed(k)
        PROVE  k.current[d] <= k.fresh[d] /\ k.fresh[d] <= later[d]
    <2>1. d \in Docs /\ d \in Changed(j)
      BY DEF Changed, Modified, Present
    <2>2. j.current[d] <= j.fresh[d] /\ j.fresh[d] <= now[d]
      BY <1>4, <2>1 DEF Traced
    <2>3. j.fresh[d] \in Nat /\ now[d] \in Nat /\ later[d] \in Nat
      BY <1>1, <2>1, MarksNat
    <2>4. now[d] <= later[d]
      BY <2>1 DEF Below
    <2> QED
      BY <2>2, <2>3, <2>4
  <1> QED
    BY <1>2, <1>3, <1>4 DEF Traced

LEMMA BuildTraced ==
  ASSUME Typed, BaseTraced, BuildChunks \/ Build \/ KillBuild
  PROVE  /\ BaseTraced' /\ Below(base.prints, base'.prints)
         /\ UNCHANGED <<corpus, gens, job>>
  <1>1. /\ corpus \in Marks /\ base.prints \in Marks /\ base.chunks \in Marks
        /\ build.chunks \in Marks
    BY TypedIs DEF StoreType, BuildType
  <1>2. /\ Below(base.prints, base.prints) /\ Below(corpus, corpus)
        /\ Below(base.prints, corpus)
    BY <1>1, BelowAll DEF BaseTraced
  <1>3. CASE BuildChunks \/ BuildWhole
    <2>1. /\ UNCHANGED <<base, corpus, gens, job>> /\ build'.chunks = corpus
          /\ build'.pc \in {"whole", "prints"}
      BY <1>3, TypedIs DEF BuildChunks, BuildWhole, Builds, BuildType, BaseTraced
    <2> QED
      BY <1>2, <2>1 DEF BaseTraced
  <1>4. CASE BuildPrints
    <2>1. /\ UNCHANGED <<base, corpus, gens, job>> /\ build'.chunks = corpus
          /\ build'.prints = corpus /\ build'.pc = "chunks"
      BY <1>4, TypedIs DEF BuildPrints, Builds, BuildType, BaseTraced
    <2> QED
      BY <1>2, <2>1 DEF BaseTraced
  <1>5. CASE SaveChunks
    <2>1. /\ UNCHANGED <<corpus, gens, job>> /\ build.pc = "chunks"
          /\ build'.pc = "index" /\ build'.chunks = build.chunks
          /\ build'.prints = build.prints
          /\ base'.chunks = build.chunks /\ base'.prints = base.prints
      BY <1>5, TypedIs DEF SaveChunks, Builds, BuildType, StoreType
    <2> QED
      BY <1>2, <2>1 DEF BaseTraced
  <1>6. CASE SaveIndex
    <2>1. /\ UNCHANGED <<corpus, gens, job>> /\ build.pc = "index"
          /\ build'.pc = "meta" /\ build'.chunks = build.chunks
          /\ build'.prints = build.prints
          /\ base'.chunks = base.chunks /\ base'.prints = base.prints
      BY <1>6, TypedIs DEF SaveIndex, Builds, BuildType, StoreType
    <2> QED
      BY <1>2, <2>1 DEF BaseTraced
  <1>7. CASE SaveMeta
    <2>1. /\ UNCHANGED <<corpus, gens, job>> /\ build.pc = "meta"
          /\ build'.pc = "idle"
          /\ base'.chunks = base.chunks /\ base'.prints = build.prints
      BY <1>7, TypedIs DEF SaveMeta, Builds, BuildType, StoreType, NoBuild
    <2>2. base'.prints = base.chunks /\ Below(base.chunks, base.chunks)
      BY <1>1, <2>1, BelowAll DEF BaseTraced
    <2> QED
      BY <2>1, <2>2 DEF BaseTraced
  <1>8. CASE KillBuild
    <2>1. UNCHANGED <<corpus, base, gens, job>> /\ build'.pc = "idle"
      BY <1>8 DEF KillBuild, NoBuild
    <2> QED
      BY <1>2, <2>1 DEF BaseTraced
  <1> QED
    BY <1>3, <1>4, <1>5, <1>6, <1>7, <1>8 DEF Build

LEMMA TracedStep ==
  ASSUME Typed, Times, Apart, AllTraced, "late" \notin Faults, [Next]_vars
  PROVE  AllTraced'
  <1>0. /\ BaseTraced /\ \A g \in gens : Faithful(g.prints, g.chunks, corpus)
        /\ \A r \in Refreshers : Compared(r) /\ Traced(job[r], corpus)
    BY DEF AllTraced
  <1>1. ASSUME NEW r \in Refreshers, Refresh(r), ~Publish(r)
        PROVE  AllTraced'
    <2>1. /\ \A q \in Refreshers : q # r => job'[q] = job[q]
          /\ UNCHANGED <<corpus, base, gens, build>>
          /\ Compared(r)' /\ Traced(job'[r], corpus)
      BY <1>1, RefreshTraced
    <2>2. ASSUME NEW q \in Refreshers
          PROVE  Compared(q)' /\ Traced(job'[q], corpus')
      <3>1. CASE q = r
        BY <2>1, <3>1
      <3>2. CASE q # r
        BY <1>0, <2>1, <3>2 DEF Compared, Source
      <3> QED
        BY <3>1, <3>2
    <2>3. BaseTraced'
      BY <1>0, <2>1 DEF BaseTraced
    <2> QED
      BY <1>0, <2>1, <2>2, <2>3 DEF AllTraced
  <1>2. ASSUME NEW r \in Refreshers, Publish(r)
        PROVE  AllTraced'
    <2> DEFINE g == Published(job[r])
    <2>1. /\ \A q \in Refreshers : q # r => job'[q] = job[q]
          /\ UNCHANGED <<corpus, base, build>>
          /\ gens' = gens \cup {g}
          /\ job[r].pc = "publish" /\ job'[r] = NoJob
      BY <1>2, PublishIs
    <2>2. /\ g.prints = job[r].current /\ g.chunks = job[r].chunks
          /\ g.time = job[r].time
      BY DEF Published, Store
    <2>3. Faithful(g.prints, g.chunks, corpus)
      BY <1>0, <2>1, <2>2 DEF Traced
    <2> HIDE DEF g
    <2>4. BaseTraced'
      BY <1>0, <2>1 DEF BaseTraced
    <2>5. ASSUME NEW q \in Refreshers
          PROVE  Compared(q)' /\ Traced(job'[q], corpus')
      <3>1. CASE q = r
        BY <2>1, <3>1 DEF NoJob, Compared, Traced
      <3>2. CASE q # r
        <4>1. g.time # job[q].src
          BY <2>1, <2>2 DEF Apart, Publishing
        <4>2. job'[q] = job[q]
          BY <2>1, <3>2
        <4>3. Source(q)' = Source(q)
          BY <2>1, <4>1, <4>2 DEF Source
        <4> QED
          BY <1>0, <2>1, <4>2, <4>3 DEF Compared
      <3> QED
        BY <3>1, <3>2
    <2> QED
      BY <1>0, <2>1, <2>3, <2>4, <2>5 DEF AllTraced
  <1>3. ASSUME NEW r \in Refreshers, Kill(r)
        PROVE  AllTraced'
    <2>1. /\ \A q \in Refreshers : q # r => job'[q] = job[q]
          /\ job'[r] = NoJob /\ UNCHANGED <<corpus, base, gens, build>>
      BY <1>3, KillIs
    <2>2. ASSUME NEW q \in Refreshers
          PROVE  Compared(q)' /\ Traced(job'[q], corpus')
      <3>1. CASE q = r
        BY <2>1, <3>1 DEF NoJob, Compared, Traced
      <3>2. CASE q # r
        BY <1>0, <2>1, <3>2 DEF Compared, Source
      <3> QED
        BY <3>1, <3>2
    <2>3. BaseTraced'
      BY <1>0, <2>1 DEF BaseTraced
    <2> QED
      BY <1>0, <2>1, <2>2, <2>3 DEF AllTraced
  <1>4. CASE BuildChunks \/ Build \/ KillBuild
    <2>1. /\ BaseTraced' /\ Below(base.prints, base'.prints)
          /\ UNCHANGED <<corpus, gens, job>>
      BY <1>0, <1>4, BuildTraced
    <2>2. base.prints \in Marks /\ base'.prints \in Marks
      BY TypedIs, TypesStep DEF Typed, Types
    <2>3. ASSUME NEW r \in Refreshers, job[r].pc \in {"prints", "chunks"},
                 NEW s \in Source(r)'
          PROVE  IF job[r].src = 0 THEN Below(job[r].recorded, s.prints)
                 ELSE s.prints = job[r].recorded
      <3>1. CASE job[r].src = 0
        <4>1. s = base' /\ base \in Source(r)
          BY <2>1, <3>1 DEF Source
        <4>2. Below(job[r].recorded, base.prints)
          BY <1>0, <2>3, <3>1, <4>1 DEF Compared
        <4>3. job[r].recorded \in Marks
          BY TypedIs DEF JobType
        <4>4. Below(job[r].recorded, base'.prints)
          BY <2>1, <2>2, <4>2, <4>3, BelowAll
        <4> QED
          BY <3>1, <4>1, <4>4
      <3>2. CASE job[r].src # 0
        BY <1>0, <2>1, <2>3, <3>2 DEF Compared, Source
      <3> QED
        BY <3>1, <3>2
    <2>4. \A r \in Refreshers : Compared(r)'
      BY <2>1, <2>3 DEF Compared
    <2> QED
      BY <1>0, <2>1, <2>4 DEF AllTraced
  <1>5. ASSUME NEW d \in Docs, Edit(d)
        PROVE  AllTraced'
    <2>1. UNCHANGED <<base, gens, build>> /\ build.pc \notin {"whole", "prints"}
      BY <1>5 DEF Edit
    <2>2. /\ corpus \in Marks /\ corpus' \in Marks /\ Below(corpus, corpus')
          /\ base.chunks \in Marks /\ build.chunks \in Marks
      BY <1>5, EditGrows, TypedIs DEF StoreType, BuildType
    <2>3. BaseTraced'
      BY <1>0, <2>1, <2>2, BelowAll DEF BaseTraced
    <2>4. \A g \in gens' : Faithful(g.prints, g.chunks, corpus')
      <3>1. \A g \in gens : g.prints \in Marks /\ g.chunks \in Marks
        BY TypedIs DEF StoreType
      <3> QED
        BY <1>0, <2>1, <2>2, <3>1, FaithfulGrows
    <2>5. ASSUME NEW r \in Refreshers
          PROVE  Compared(r)' /\ Traced(job'[r], corpus')
      <3>1. /\ job'[r].pc = job[r].pc /\ job'[r].src = job[r].src
            /\ job'[r].recorded = job[r].recorded
            /\ job'[r].current = job[r].current
            /\ job'[r].chunks = job[r].chunks
            /\ job'[r].fresh = job[r].fresh /\ ~job'[r].quiet
        BY <1>5, EditIs, Zenon
      <3>2. Compared(r)'
        BY <1>0, <2>1, <3>1 DEF Compared, Source
      <3>3. job[r] \in JobType
        BY TypedIs
      <3>4. Traced(job'[r], corpus')
        BY <1>0, <2>2, <3>1, <3>3, TracedGrows
      <3> QED
        BY <3>2, <3>4
    <2> QED
      BY <2>3, <2>4, <2>5 DEF AllTraced
  <1>6. ASSUME NEW g \in gens, Rollback(g)
        PROVE  AllTraced'
    <2>1. gens' \subseteq gens /\ UNCHANGED <<corpus, base, build, job>>
      BY <1>6 DEF Rollback
    <2>2. BaseTraced'
      BY <1>0, <2>1 DEF BaseTraced
    <2>3. \A r \in Refreshers : Compared(r)'
      BY <1>0, <2>1 DEF Compared, Source
    <2> QED
      BY <1>0, <2>1, <2>2, <2>3 DEF AllTraced
  <1>7. CASE UNCHANGED vars
    BY <1>0, <1>7 DEF vars, AllTraced, BaseTraced, Compared, Source
  <1> QED
    BY <1>1, <1>2, <1>3, <1>4, <1>5, <1>6, <1>7 DEF Next

LEMMA TracedInit ==
  ASSUME Init
  PROVE  AllTraced
  <1>1. Below(Zero, Zero)
    BY ZeroType, BelowAll
  <1> QED
    BY <1>1 DEF Init, AllTraced, BaseTraced, NoBuild, Store, NoJob, Compared, Traced

TInv == Typed /\ Times /\ Apart /\ AllTraced

LEMMA TracedAlways ==
  ASSUME "late" \notin Faults
  PROVE  Spec => []TInv
  <1>1. Init => TInv
    BY TypesInit, TimesInit, TracedInit DEF TInv
  <1>2. TInv /\ [Next]_vars => TInv'
    BY TypesStep, TimesStep, TracedStep DEF TInv
  <1> QED
    BY <1>1, <1>2, PTL DEF Spec

\* Fingerprints that say the corpus is as it was say what the chunks are.
LEMMA FaithfulIsCurrent ==
  ASSUME Typed, NEW prints \in Marks, NEW chunks \in Marks,
         Faithful(prints, chunks, corpus), prints = corpus
  PROVE  chunks = corpus
  <1>1. ASSUME NEW d \in Docs
        PROVE  chunks[d] = corpus[d]
    <2>1. chunks[d] \in Nat /\ corpus[d] \in Nat
      BY TypedIs, MarksNat
    <2>2. chunks[d] <= corpus[d] /\ (prints[d] <= chunks[d] \/ prints[d] < corpus[d])
      BY DEF Faithful, Below
    <2> QED
      BY <2>1, <2>2
  <1> QED
    BY <1>1, TypedIs DEF Marks

\* The chunks a store has when its fingerprints are those of the corpus, and
\* those a refresh has assembled while nobody edited it.
ChunksAreCurrent ==
  /\ \A s \in Candidates : s.prints = corpus => s.chunks = corpus
  /\ \A r \in Refreshers : job[r].pc \in {"stamp", "save", "publish"} /\ job[r].quiet =>
       job[r].chunks = corpus

\* Chunks need less than vectors: nobody edits between the chunking of a build and
\* its fingerprints, and the chunks of a store that is called current, or was
\* refreshed quietly, are those of the corpus, even if builds overwrite the base
\* directory while refreshes read it or die half way.
THEOREM ChunksFollow == "late" \notin Faults /\ Spec => []ChunksAreCurrent
  <1> SUFFICES ASSUME "late" \notin Faults
               PROVE  Spec => []ChunksAreCurrent
    OBVIOUS
  <1>1. TInv => ChunksAreCurrent
    <2> SUFFICES ASSUME TInv
                 PROVE  ChunksAreCurrent
      OBVIOUS
    <2> USE DEF TInv
    <2>1. ASSUME NEW s \in Candidates, s.prints = corpus
          PROVE  s.chunks = corpus
      <3>1. s \in StoreType
        BY TypedIs DEF Candidates
      <3>2. s.prints \in Marks /\ s.chunks \in Marks
        BY <3>1 DEF StoreType
      <3>3. Faithful(s.prints, s.chunks, corpus)
        <4>1. CASE s \in gens
          BY <4>1 DEF AllTraced
        <4>2. CASE s = base
          BY <3>2, <4>2, TypedIs, BelowFaithful DEF AllTraced, BaseTraced
        <4> QED
          BY <4>1, <4>2 DEF Candidates
      <3> QED
        BY <2>1, <3>2, <3>3, FaithfulIsCurrent
    <2>2. ASSUME NEW r \in Refreshers, job[r].pc \in {"stamp", "save", "publish"},
                 job[r].quiet
          PROVE  job[r].chunks = corpus
      <3>1. job[r].current = corpus /\ Faithful(job[r].current, job[r].chunks, corpus)
        BY <2>2 DEF AllTraced, Traced
      <3>2. job[r].current \in Marks /\ job[r].chunks \in Marks
        BY TypedIs DEF JobType
      <3> QED
        BY <3>1, <3>2, FaithfulIsCurrent
    <2> QED
      BY <2>1, <2>2 DEF ChunksAreCurrent
  <1> QED
    BY <1>1, TracedAlways, PTL

\* A refresh during which nobody edits the corpus publishes what a rebuild would
\* write, when no build writes under a refresher and nobody edits between the
\* chunking of a build and its fingerprints.
THEOREM RefreshRebuilds == Faults = {} /\ Spec => []RefreshIsRebuild
  <1> SUFFICES ASSUME Faults = {}
               PROVE  Spec => []RefreshIsRebuild
    OBVIOUS
  <1>1. RowsKept /\ ChunksAreCurrent => RefreshIsRebuild
    BY DEF RowsKept, Carried, ChunksAreCurrent, RefreshIsRebuild, Rebuilt
  <1>2. Spec => []RowsKept
    BY RowsAlways
  <1>3. Spec => []ChunksAreCurrent
    BY ChunksFollow
  <1> QED
    BY <1>1, <1>2, <1>3, PTL

\* Under the same conditions a store that refresh-index would call unchanged is a
\* rebuild of the corpus.
THEOREM UnchangedCurrent == Faults = {} /\ Spec => []UnchangedIsCurrent
  <1> SUFFICES ASSUME Faults = {}
               PROVE  Spec => []UnchangedIsCurrent
    OBVIOUS
  <1>1. RowsKept /\ ChunksAreCurrent => UnchangedIsCurrent
    BY DEF RowsKept, Saving, Complete, Candidates, ChunksAreCurrent,
       UnchangedIsCurrent, Rebuilt
  <1>2. Spec => []RowsKept
    BY RowsAlways
  <1>3. Spec => []ChunksAreCurrent
    BY ChunksFollow
  <1> QED
    BY <1>1, <1>2, <1>3, PTL

-----------------------------------------------------------------------------
(* The chain of stores implements Reindex.                                 *)

Stores == {Seen(s) : s \in Complete}

\* A step of one refresher is seen as a step of that refresher.
LEMMA SinceOne ==
  ASSUME NEW r \in Refreshers, \A q \in Refreshers : q # r => job'[q] = job[q]
  PROVE  Since' = [Since EXCEPT ![r] = Since'[r]]
  BY DEF Since

LEMMA SinceIs ==
  ASSUME NEW r \in Refreshers
  PROVE  /\ Since[r] = IF job[r].pc \in {"idle", "prints"} THEN {}
                       ELSE {job[r].current}
         /\ Since'[r] = IF job'[r].pc \in {"idle", "prints"} THEN {}
                        ELSE {job'[r].current}
  BY DEF Since

LEMMA SeenIs ==
  ASSUME NEW s, s.rows = TextOf(s.chunks)
  PROVE  Seen(s) = R!Store(s.prints, s.chunks)
  BY DEF Seen, R!Store, TextOf

\* A refresher that neither starts from new fingerprints nor publishes is not seen,
\* or is seen to stop.
LEMMA RefreshSeen ==
  ASSUME Typed, NEW r \in Refreshers,
         \A q \in Refreshers : q # r => job'[q] = job[q],
         UNCHANGED <<corpus, base, gens, build>>,
         Since'[r] \in {Since[r], {}, {corpus}},
         Since'[r] = {corpus} => Since[r] \in {{}, {corpus}}
  PROVE  [R!Next]_(R!vars)
  <1>1. UNCHANGED <<corpus, Building, Stores>>
    BY DEF Building, Stores, Complete, Saving, Seen
  <1>2. Since' = [Since EXCEPT ![r] = Since'[r]]
    BY SinceOne
  <1>3. CASE Since'[r] = Since[r]
    <2>1. Since' = Since
      BY <1>2, <1>3 DEF Since
    <2> QED
      BY <1>1, <2>1 DEF R!vars, Stores
  <1>4. CASE Since'[r] = {}
    <2>1. R!Stop(r)
      BY <1>1, <1>2, <1>4 DEF R!Stop, Stores
    <2> QED
      BY <2>1 DEF R!Next
  <1>5. CASE Since'[r] = {corpus} /\ Since[r] = {}
    <2>1. R!Start(r)
      BY <1>1, <1>2, <1>5 DEF R!Start, Stores
    <2> QED
      BY <2>1 DEF R!Next
  <1> QED
    BY <1>3, <1>4, <1>5

LEMMA RefresherSeen ==
  ASSUME Typed, NEW r \in Refreshers, Refresh(r) \/ Kill(r), ~Publish(r)
  PROVE  [R!Next]_(R!vars)
  <1> DEFINE Frame == /\ \A q \in Refreshers : q # r => job'[q] = job[q]
                      /\ UNCHANGED <<corpus, base, gens, build>>
             Seldom == /\ Since'[r] \in {Since[r], {}, {corpus}}
                       /\ Since'[r] = {corpus} => Since[r] \in {{}, {corpus}}
  <1>1. ASSUME job'[r] = NoJob
        PROVE  Seldom
    <2>1. job'[r].pc = "idle"
      BY <1>1 DEF NoJob
    <2>2. Since'[r] = {}
      BY <2>1, SinceIs
    <2> QED
      BY <2>2
  <1>2. ASSUME job'[r].current = job[r].current,
               job[r].pc \notin {"idle", "prints"},
               job'[r].pc \notin {"idle", "prints"}
        PROVE  Seldom
    BY <1>2, SinceIs
  <1>3. ASSUME Only(r)
        PROVE  Frame
    BY <1>3 DEF Only
  <1>4. CASE Resolve(r)
    <2>1. Only(r) /\ job[r].pc = "idle" /\ job'[r].pc = "prints"
      BY <1>4, ResolveIs
    <2>2. Seldom
      BY <2>1, SinceIs
    <2> QED
      BY <1>3, <2>1, <2>2, RefreshSeen
  <1>5. CASE Fingerprint(r)
    <2>1. /\ Only(r) /\ job[r].pc = "prints"
          /\ \/ job'[r] = NoJob
             \/ job'[r].pc = "chunks" /\ job'[r].current = corpus
      BY <1>5, FingerprintIs
    <2>2. Seldom
      BY <1>1, <2>1, SinceIs
    <2> QED
      BY <1>3, <2>1, <2>2, RefreshSeen
  <1>6. CASE ReadChunks(r)
    <2>1. /\ Only(r) /\ job[r].pc = "chunks" /\ job'[r].pc = "index"
          /\ job'[r].current = job[r].current
      BY <1>6, ReadChunksIs
    <2> QED
      BY <1>2, <1>3, <2>1, RefreshSeen
  <1>7. CASE ReadIndex(r)
    <2>1. /\ Only(r) /\ job[r].pc = "index" /\ job'[r].pc = "chunk"
          /\ job'[r].current = job[r].current
      BY <1>7, ReadIndexIs
    <2> QED
      BY <1>2, <1>3, <2>1, RefreshSeen
  <1>8. CASE SourceGone(r)
    BY <1>1, <1>3, <1>8, SourceGoneIs, RefreshSeen
  <1>9. CASE ChunkChanged(r)
    <2>1. /\ Only(r) /\ job[r].pc = "chunk" /\ job'[r].pc = "assemble"
          /\ job'[r].current = job[r].current
      BY <1>9, ChunkChangedIs
    <2> QED
      BY <1>2, <1>3, <2>1, RefreshSeen
  <1>10. CASE Assemble(r)
    <2>1. /\ Only(r) /\ job[r].pc = "assemble"
          /\ \/ job'[r] = NoJob
             \/ job'[r].pc = "stamp" /\ job'[r].current = job[r].current
      BY <1>10, AssembleIs
    <2> QED
      BY <1>1, <1>2, <1>3, <2>1, RefreshSeen
  <1>11. CASE Stamp(r)
    <2>1. /\ Only(r) /\ job[r].pc = "stamp" /\ job'[r].pc = "save"
          /\ job'[r].current = job[r].current
      BY <1>11, StampIs
    <2> QED
      BY <1>2, <1>3, <2>1, RefreshSeen
  <1>12. CASE Save(r)
    <2>1. /\ Frame /\ job[r].pc = "save" /\ job'[r].pc = "publish"
          /\ job'[r].current = job[r].current
      BY <1>12, SaveIs, Zenon
    <2> QED
      BY <1>2, <2>1, RefreshSeen
  <1>13. CASE Kill(r)
    <2>1. Frame /\ job'[r] = NoJob
      BY <1>13, KillIs, Zenon
    <2> QED
      BY <1>1, <2>1, RefreshSeen
  <1> QED
    BY <1>4, <1>5, <1>6, <1>7, <1>8, <1>9, <1>10, <1>11, <1>12, <1>13 DEF Refresh

\* What is published was read since the fingerprints it records were taken.
LEMMA PublishSeen ==
  ASSUME TInv, RowsKept, NEW r \in Refreshers, Publish(r)
  PROVE  R!Publish(r)
  <1> DEFINE j == job[r]
             g == Published(j)
  <1>1. /\ \A q \in Refreshers : q # r => job'[q] = job[q]
        /\ UNCHANGED <<corpus, base, build>>
        /\ gens' = gens \cup {g}
        /\ j.pc = "publish" /\ job'[r] = NoJob
    BY PublishIs DEF TInv
  <1>2. /\ g.prints = j.current /\ g.chunks = j.chunks /\ g.rows = j.rows
    BY DEF Published, Store
  <1>3. Since[r] = {j.current} /\ Since' = [Since EXCEPT ![r] = {}]
    <2>1. j.pc = "publish" /\ job'[r].pc = "idle"
      BY <1>1 DEF NoJob
    <2>2. Since[r] = {j.current} /\ Since'[r] = {}
      BY <2>1, SinceIs
    <2>3. Since' = [Since EXCEPT ![r] = Since'[r]]
      BY <1>1, SinceOne
    <2> QED
      BY <2>2, <2>3
  <1>4. j.rows = TextOf(j.chunks)
    BY <1>1 DEF RowsKept, Carried
  <1>5. Seen(g) = R!Store(j.current, j.chunks)
    <2> HIDE DEF g
    <2> QED
      BY <1>2, <1>4, SeenIs
  <1>6. Stores' = Stores \cup {Seen(g)}
    <2> HIDE DEF g
    <2> QED
      BY <1>1 DEF Stores, Complete, Saving, Seen
  <1>7. Faithful(j.current, j.chunks, corpus)
    BY <1>1 DEF TInv, AllTraced, Traced
  <1>8. R!ReadSince(j.current, j.chunks)
    BY <1>7 DEF R!ReadSince, Faithful, Below
  <1>9. j.chunks \in R!Marks
    BY TypedIs DEF TInv, JobType, Marks, R!Marks
  <1>10. UNCHANGED <<corpus, Building>>
    BY <1>1 DEF Building
  <1> HIDE DEF g, j
  <1> QED
    BY <1>3, <1>5, <1>6, <1>8, <1>9, <1>10 DEF R!Publish, Stores

LEMMA BuildSeen ==
  ASSUME TInv, RowsKept, Alone, BuildChunks \/ Build \/ KillBuild
  PROVE  [R!Next]_(R!vars)
  <1>1. Typed /\ BaseTraced
    BY DEF TInv, AllTraced
  <1>2. UNCHANGED <<corpus, gens, job>> /\ Since' = Since
    BY <1>1, BuildTraced DEF Since
  <1>3. CASE BuildChunks
    <2>1. /\ build.pc = "idle" /\ build'.pc = "whole" /\ build'.chunks = corpus
          /\ base' = base
      BY <1>1, <1>3, TypedIs DEF BuildChunks, Builds, BuildType
    <2>2. Building = {} /\ Building' = {corpus} /\ Stores' = Stores
      BY <1>2, <2>1 DEF Building, Stores, Complete, Saving, Seen
    <2>3. R!StartBuild
      BY <1>2, <2>2 DEF R!StartBuild, Stores
    <2> QED
      BY <2>3 DEF R!Next
  <1>4. CASE BuildWhole \/ BuildPrints
    <2>1. /\ build.pc \in {"whole", "prints"} /\ build'.pc \in {"prints", "chunks"}
          /\ build'.chunks = build.chunks /\ base' = base
      BY <1>1, <1>4, TypedIs DEF BuildWhole, BuildPrints, Builds, BuildType
    <2>2. Building' = Building /\ Stores' = Stores
      BY <1>2, <2>1 DEF Building, Stores, Complete, Saving, Seen
    <2> QED
      BY <1>2, <2>2 DEF R!vars, Stores
  <1>5. CASE SaveChunks
    <2>1. /\ build.pc = "chunks" /\ build'.pc = "index"
          /\ build'.chunks = build.chunks
      BY <1>1, <1>5, TypedIs DEF SaveChunks, Builds, BuildType
    <2>2. Building' = Building /\ Stores' \subseteq Stores
      BY <1>2, <2>1 DEF Building, Stores, Complete, Saving, Seen
    <2>3. R!Drop
      BY <1>2, <2>2 DEF R!Drop, Stores
    <2> QED
      BY <2>3 DEF R!Next
  <1>6. CASE SaveIndex
    <2>1. /\ build.pc = "index" /\ build'.pc = "meta"
          /\ build'.chunks = build.chunks
      BY <1>1, <1>6, TypedIs DEF SaveIndex, Builds, BuildType
    <2>2. Building' = Building /\ Stores' = Stores
      BY <1>2, <2>1 DEF Building, Stores, Complete, Saving, Seen
    <2> QED
      BY <1>2, <2>2 DEF R!vars, Stores
  <1>7. CASE SaveMeta
    <2>1. /\ build.pc = "meta" /\ build'.pc = "idle"
          /\ base'.chunks = base.chunks /\ base'.prints = build.prints
          /\ base'.rows = base.rows
      BY <1>1, <1>7, TypedIs DEF SaveMeta, Builds, BuildType, StoreType, NoBuild
    <2>2. /\ base'.prints = build.chunks /\ base'.chunks = build.chunks
          /\ base'.rows = TextOf(base'.chunks)
      BY <1>1, <2>1 DEF BaseTraced, RowsKept
    <2>3. Seen(base') = R!Store(build.chunks, build.chunks)
      BY <2>2, SeenIs
    <2>4. Stores' = Stores \cup {Seen(base')}
      BY <1>2, <2>1 DEF Stores, Complete, Saving, Seen
    <2>5. Building = {build.chunks} /\ Building' = {}
      BY <2>1 DEF Building
    <2>6. R!FinishBuild
      BY <1>2, <2>3, <2>4, <2>5 DEF R!FinishBuild, Stores
    <2> QED
      BY <2>6 DEF R!Next
  <1>8. CASE KillBuild
    <2>1. base' = base /\ build'.pc = "idle" /\ ~Saving
      BY <1>8 DEF KillBuild, NoBuild
    <2>2. Building' = {} /\ Stores' = Stores
      BY <1>2, <2>1 DEF Building, Stores, Complete, Saving, Seen
    <2>3. R!StopBuild
      BY <1>2, <2>2 DEF R!StopBuild, Stores
    <2> QED
      BY <2>3 DEF R!Next
  <1> QED
    BY <1>3, <1>4, <1>5, <1>6, <1>7, <1>8 DEF Build

LEMMA EditSeen ==
  ASSUME Typed, NEW d \in Docs, Edit(d)
  PROVE  R!Edit(d)
  <1>1. corpus' = [corpus EXCEPT ![d] = @ + 1] /\ UNCHANGED <<base, gens, build>>
    BY DEF Edit
  <1>2. corpus[d] + 1 \in Versions
    <2>1. corpus'[d] = corpus[d] + 1 /\ corpus' \in Marks
      BY <1>1, EditGrows, TypedIs DEF Marks
    <2> QED
      BY <2>1 DEF Marks
  <1>3. \A r \in Refreshers : /\ job'[r].pc = job[r].pc
                              /\ job'[r].current = job[r].current
    BY EditIs, Zenon
  <1>4. Since' = Since
    BY <1>3 DEF Since
  <1>5. Building' = Building /\ Stores' = Stores
    BY <1>1 DEF Building, Stores, Complete, Saving, Seen
  <1> QED
    BY <1>1, <1>2, <1>4, <1>5 DEF R!Edit, Stores

\* Every step is a step of Reindex or is not seen.
LEMMA ReindexStep ==
  ASSUME Faults = {}, TInv, RowsKept, [Next]_vars
  PROVE  [R!Next]_(R!vars)
  <1>1. ASSUME NEW r \in Refreshers, Refresh(r) \/ Kill(r), ~Publish(r)
        PROVE  [R!Next]_(R!vars)
    BY <1>1, RefresherSeen DEF TInv
  <1>2. ASSUME NEW r \in Refreshers, Publish(r)
        PROVE  [R!Next]_(R!vars)
    BY <1>2, PublishSeen DEF R!Next
  <1>3. CASE BuildChunks \/ Build \/ KillBuild
    BY <1>3, BuildSeen DEF Alone
  <1>4. ASSUME NEW d \in Docs, Edit(d)
        PROVE  [R!Next]_(R!vars)
    BY <1>4, EditSeen DEF TInv, R!Next
  <1>5. ASSUME NEW g \in gens, Rollback(g)
        PROVE  [R!Next]_(R!vars)
    <2>1. gens' \subseteq gens /\ UNCHANGED <<corpus, base, build, job>>
      BY <1>5 DEF Rollback
    <2>2. Stores' \subseteq Stores /\ UNCHANGED <<Since, Building>>
      BY <2>1 DEF Stores, Complete, Saving, Seen, Since, Building
    <2>3. R!Drop
      BY <2>1, <2>2 DEF R!Drop, Stores
    <2> QED
      BY <2>3 DEF R!Next
  <1>6. CASE UNCHANGED vars
    <2>1. UNCHANGED <<corpus, base, gens, build, job>>
      BY <1>6 DEF vars
    <2>2. UNCHANGED <<Since, Building, Stores>>
      BY <2>1 DEF Stores, Complete, Saving, Seen, Since, Building
    <2> QED
      BY <2>1, <2>2 DEF R!vars, Stores
  <1> QED
    BY <1>1, <1>2, <1>3, <1>4, <1>5, <1>6 DEF Next

LEMMA ReindexInit ==
  ASSUME Init
  PROVE  R!Init
  <1>1. corpus = Zero /\ corpus \in R!Marks
    BY ZeroType DEF Init, Marks, R!Marks
  <1>2. Since = [r \in Refreshers |-> {}] /\ Building = {}
    BY DEF Init, Since, Building, NoJob, NoBuild
  <1>3. /\ base.prints = Zero /\ base.chunks = Zero /\ base.rows = TextOf(Zero)
        /\ Complete = {base}
    BY DEF Init, Store, Complete, Saving, NoBuild
  <1>4. Stores = {R!Store(corpus, corpus)}
    <2>1. Seen(base) = R!Store(Zero, Zero)
      BY <1>3, SeenIs
    <2> QED
      BY <1>1, <1>3, <2>1 DEF Stores
  <1> QED
    BY <1>1, <1>2, <1>4 DEF R!Init, Stores

\* With neither fault of a build, for any corpus and any number of refreshers,
\* builds, edits, kills and rollbacks, stores derived from each other look like
\* stores whose documents were all read again.
THEOREM StoresImplementReindex == Faults = {} /\ Spec => ImplementsReindex
  <1> SUFFICES ASSUME Faults = {}
               PROVE  Spec => ImplementsReindex
    OBVIOUS
  <1>1. Init => R!Init
    BY ReindexInit
  <1>2. TInv /\ RowsKept /\ [Next]_vars => [R!Next]_(R!vars)
    BY ReindexStep
  <1>3. Spec => []TInv
    BY TracedAlways
  <1>4. Spec => []RowsKept
    BY RowsAlways
  <1> QED
    BY <1>1, <1>2, <1>3, <1>4, PTL DEF Spec, ImplementsReindex, R!Spec
=============================================================================
