---------------------------- MODULE StoreRefresh ----------------------------
(***************************************************************************)
(* The retrieval store of a changing corpus (llb.rag.refresh,              *)
(* llb.rag.vector_store, llb.core.store_generations): build-index writes a *)
(* store into the base directory, file by file; refresh-index derives a    *)
(* store from the newest one, re-chunking and re-embedding what changed    *)
(* only, and publishes it as an immutable generation.  Which store is live *)
(* is decided by the time of its meta file.  People edit the corpus while  *)
(* all of this runs.                                                       *)
(*                                                                         *)
(* A document has one chunk.  What a corpus says of a document is the      *)
(* number of its version, absence being a version without text; the chunk  *)
(* made of it keeps that number, and its fingerprint is that number: no    *)
(* content comes back.  A vector is the text it encodes (every strategy    *)
(* but "late").  Collapsed duplicates are looked at expanded: every copy   *)
(* has the row of its survivor.  Meta files are written at different times *)
(* and staging directories have different names.                           *)
(***************************************************************************)
EXTENDS Naturals, FiniteSets

CONSTANTS Docs, Texts, None,
          MaxVersion,    \* bound: versions of a document
          MaxEdits,      \* bound: edits of the corpus
          Text,          \* the text of every version of every document, or None
          Refreshers,    \* processes of refresh-index
          Faults,        \* what this instance admits, see Alone and Edit
          MaxBuilds,     \* bound: runs of build-index
          MaxKills,      \* bound: killed processes
          MaxRollbacks   \* bound: generations deleted by hand

Versions == 0..MaxVersion
Rows == Texts \cup {None}

\* No fingerprint of a document comes back, the missing one of an absent document
\* included.
ASSUME StoreAssumption ==
  /\ MaxVersion \in Nat /\ MaxEdits \in Nat /\ MaxBuilds \in Nat
  /\ MaxKills \in Nat /\ MaxRollbacks \in Nat
  /\ None \notin Texts /\ \E d \in Docs : Text[d][0] # None
  /\ Text \in [Docs -> [Versions -> Rows]]
  /\ \A d \in Docs : \A v, w \in Versions :
       Text[d][v] = None /\ Text[d][w] = None => v = w
  /\ Faults \subseteq {"mixed", "late"}

VARIABLES
  corpus,   \* the version of each document
  base,     \* files of the base directory
  gens,     \* published generations
  clock,    \* time of the newest meta file
  build,    \* the process of build-index
  job,      \* the process of each refresher
  edits, builds, kills, rollbacks   \* bounds

counters == <<edits, builds, kills, rollbacks>>
vars == <<corpus, base, gens, clock, build, job, counters>>

TextOf(chunks) == [d \in Docs |-> Text[d][chunks[d]]]
Present(c) == {d \in Docs : Text[d][c[d]] # None}

\* A store directory: chunk records, vector rows, and from the meta file the
\* fingerprints per document and of the whole corpus, and its time.
Store(chunks, rows, prints, whole, time) ==
  [chunks |-> chunks, rows |-> rows, prints |-> prints, whole |-> whole,
   time |-> time]

\* resolve_store_dir: the store whose meta file is the newest.
Candidates == gens \cup {base}
Live == {s \in Candidates : \A o \in Candidates : o.time <= s.time}

Zero == [d \in Docs |-> 0]
NoJob == [pc |-> "idle", src |-> 0, recorded |-> Zero, current |-> Zero,
          chunks |-> Zero, rows |-> TextOf(Zero), fresh |-> Zero,
          whole |-> Zero, time |-> 0, quiet |-> FALSE]
NoBuild == [pc |-> "idle", chunks |-> Zero, whole |-> Zero, prints |-> Zero]

Init ==
  /\ corpus = Zero
  /\ base = Store(Zero, TextOf(Zero), Zero, Zero, 1)
  /\ gens = {} /\ clock = 1
  /\ build = NoBuild /\ job = [r \in Refreshers |-> NoJob]
  /\ edits = 0 /\ builds = 0 /\ kills = 0 /\ rollbacks = 0

-----------------------------------------------------------------------------
(* refresh-index.                                                          *)

Becomes(r, j) ==
  /\ job' = [job EXCEPT ![r] = j]
  /\ UNCHANGED <<corpus, base, gens, clock, build, counters>>

\* Without the fault "mixed" build-index neither writes the base directory
\* while a refresher reads it nor dies while it writes.
Alone == "mixed" \notin Faults
Saving == build.pc \in {"index", "meta"}
ReadsBase(r) == job[r].pc \in {"prints", "chunks", "index"} /\ job[r].src = 0

Resolve(r) ==
  /\ job[r].pc = "idle"
  /\ \E s \in Live :
       LET src == IF s = base THEN 0 ELSE s.time IN
       /\ src = 0 /\ Saving => ~Alone
       /\ Becomes(r, [NoJob EXCEPT !.pc = "prints", !.src = src,
                                   !.recorded = s.prints])

\* The mutant overlooks deletions.
ChangesIfPresent(j, current) ==
  \E d \in Present(current) : j.recorded[d] # current[d]

Changes(j, current) == j.recorded # current

\* Nothing has changed: the store is current.  (An empty corpus ends the
\* process, too.)
Fingerprint(r) ==
  /\ job[r].pc = "prints"
  /\ Becomes(r, IF Present(corpus) # {} /\ Changes(job[r], corpus)
                THEN [job[r] EXCEPT !.pc = "chunks", !.current = corpus,
                                    !.quiet = TRUE]
                ELSE NoJob)

\* The directory read from: the base, or a generation unless it was deleted.
Source(r) == IF job[r].src = 0 THEN {base}
             ELSE {g \in gens : g.time = job[r].src}

ReadChunks(r) ==
  /\ job[r].pc = "chunks"
  /\ \E s \in Source(r) :
       Becomes(r, [job[r] EXCEPT !.pc = "index", !.chunks = s.chunks])

ReadIndex(r) ==
  /\ job[r].pc = "index"
  /\ \E s \in Source(r) :
       Becomes(r, [job[r] EXCEPT !.pc = "chunk", !.rows = s.rows, !.src = 0])

SourceGone(r) ==
  /\ job[r].pc \in {"chunks", "index"} /\ Source(r) = {}
  /\ Becomes(r, NoJob)

\* diff_fingerprints: what is added or modified is chunked again.
Modified(j) == {d \in Present(j.recorded) \cap Present(j.current) :
                  j.recorded[d] # j.current[d]}

Changed(j) == Modified(j) \cup (Present(j.current) \ Present(j.recorded))

ChunkChanged(r) ==
  /\ job[r].pc = "chunk"
  /\ Becomes(r, [job[r] EXCEPT
       !.pc = "assemble",
       !.fresh = [d \in Docs |-> IF d \in Changed(job[r]) THEN corpus[d] ELSE 0]])

\* annotation_only_sources: the chunk of a modified document has the text of
\* the stored one.  The mutant compares spans alone.
SameSpan(j, d) == d \in Modified(j)

SameText(j, d) ==
  d \in Modified(j) /\ Text[d][j.fresh[d]] = Text[d][j.chunks[d]]

\* text_row_map: a stored chunk of any document with this text.
Holders(j, text) == {e \in Docs : Text[e][j.chunks[e]] = text}

\* The vector of a re-chunked document: the stored row if the text is the
\* same, the row of any stored chunk with that text, or a new embedding.
RowOf(j, d) ==
  LET text == Text[d][j.fresh[d]] IN
  IF SameText(j, d) THEN j.rows[d]
  ELSE IF Holders(j, text) # {} THEN j.rows[CHOOSE e \in Holders(j, text) : TRUE]
  ELSE text

\* Documents on disk: fresh ones and kept ones; the others drop out.  The
\* mutant keeps what it has of a deleted document.
MergedKept(j, d) ==
  IF d \in Changed(j) THEN j.fresh[d] ELSE j.chunks[d]

Merged(j, d) ==
  IF d \notin Present(corpus) THEN corpus[d]
  ELSE IF d \in Changed(j) THEN j.fresh[d] ELSE j.chunks[d]

MergedRow(j, d) ==
  IF d \notin Present(corpus) THEN None
  ELSE IF d \in Changed(j) THEN RowOf(j, d) ELSE j.rows[d]

\* The mutant publishes anything.
AnyChunks(chunks) == FALSE

NoChunks(chunks) == Present(chunks) = {}

Assemble(r) ==
  LET j == job[r]
      chunks == [d \in Docs |-> Merged(j, d)]
  IN /\ j.pc = "assemble"
     /\ Becomes(r, IF NoChunks(chunks) THEN NoJob
                   ELSE [j EXCEPT !.pc = "stamp", !.chunks = chunks,
                                  !.rows = [d \in Docs |-> MergedRow(j, d)],
                                  !.recorded = Zero, !.fresh = Zero])

\* _refreshed_meta fingerprints the whole corpus again; what is recorded per document is
\* from the beginning.
Stamp(r) ==
  /\ job[r].pc = "stamp"
  /\ Becomes(r, [job[r] EXCEPT !.pc = "save", !.whole = corpus])

\* The staging directory is complete when its meta file is written.
Save(r) ==
  /\ job[r].pc = "save"
  /\ clock' = clock + 1
  /\ job' = [job EXCEPT ![r].pc = "publish", ![r].time = clock + 1]
  /\ UNCHANGED <<corpus, base, gens, build, counters>>

\* The fingerprints the diff was made of.  The mutant takes them again.
PrintsAgain(j) == j.whole

Prints(j) == j.current

Publish(r) ==
  LET j == job[r] IN
  /\ j.pc = "publish"
  /\ gens' = gens \cup {Store(j.chunks, j.rows, Prints(j), j.whole, j.time)}
  /\ job' = [job EXCEPT ![r] = NoJob]
  /\ UNCHANGED <<corpus, base, clock, build, counters>>

Refresh(r) == Resolve(r) \/ Fingerprint(r) \/ ReadChunks(r) \/ ReadIndex(r)
              \/ SourceGone(r) \/ ChunkChanged(r) \/ Assemble(r) \/ Stamp(r)
              \/ Save(r) \/ Publish(r)

-----------------------------------------------------------------------------
(* build-index: everything is chunked and embedded, then fingerprinted,    *)
(* then written over the base directory, the meta file last.               *)

Builds(b) ==
  /\ build' = b
  /\ UNCHANGED <<corpus, gens, job, edits, kills, rollbacks>>

BuildChunks ==
  /\ build.pc = "idle" /\ builds < MaxBuilds /\ Present(corpus) # {}
  /\ builds' = builds + 1
  /\ Builds([build EXCEPT !.pc = "whole", !.chunks = corpus])
  /\ UNCHANGED <<base, clock>>

BuildWhole ==
  /\ build.pc = "whole"
  /\ Builds([build EXCEPT !.pc = "prints", !.whole = corpus])
  /\ UNCHANGED <<base, clock, builds>>

BuildPrints ==
  /\ build.pc = "prints"
  /\ Builds([build EXCEPT !.pc = "chunks", !.prints = corpus])
  /\ UNCHANGED <<base, clock, builds>>

SaveChunks ==
  /\ build.pc = "chunks"
  /\ Alone => \A r \in Refreshers : ~ReadsBase(r)
  /\ base' = [base EXCEPT !.chunks = build.chunks]
  /\ Builds([build EXCEPT !.pc = "index"])
  /\ UNCHANGED <<clock, builds>>

SaveIndex ==
  /\ build.pc = "index"
  /\ base' = [base EXCEPT !.rows = TextOf(build.chunks)]
  /\ Builds([build EXCEPT !.pc = "meta"])
  /\ UNCHANGED <<clock, builds>>

SaveMeta ==
  /\ build.pc = "meta"
  /\ clock' = clock + 1
  /\ base' = [base EXCEPT !.prints = build.prints, !.whole = build.whole,
                          !.time = clock + 1]
  /\ Builds(NoBuild)
  /\ UNCHANGED builds

Build == BuildWhole \/ BuildPrints \/ SaveChunks \/ SaveIndex \/ SaveMeta

-----------------------------------------------------------------------------
(* People and the operating system.                                        *)

\* Without the fault "late" nobody edits between the chunking of a build and
\* its fingerprints.
Edit(d) ==
  /\ corpus[d] < MaxVersion /\ edits < MaxEdits
  /\ edits' = edits + 1
  /\ "late" \notin Faults => build.pc \notin {"whole", "prints"}
  /\ corpus' = [corpus EXCEPT ![d] = @ + 1]
  /\ job' = [r \in Refreshers |-> [job[r] EXCEPT !.quiet = FALSE]]
  /\ UNCHANGED <<base, gens, clock, build, builds, kills, rollbacks>>

\* The rollback: the newest generation is deleted.
Rollback(g) ==
  /\ rollbacks < MaxRollbacks
  /\ \A o \in gens : o.time <= g.time
  /\ gens' = gens \ {g}
  /\ rollbacks' = rollbacks + 1
  /\ UNCHANGED <<corpus, base, clock, build, job, edits, builds, kills>>

Kill(r) ==
  /\ job[r].pc # "idle" /\ kills < MaxKills
  /\ kills' = kills + 1
  /\ job' = [job EXCEPT ![r] = NoJob]
  /\ UNCHANGED <<corpus, base, gens, clock, build, edits, builds, rollbacks>>

KillBuild ==
  /\ build.pc # "idle" /\ (Saving => ~Alone) /\ kills < MaxKills
  /\ kills' = kills + 1
  /\ build' = NoBuild
  /\ UNCHANGED <<corpus, base, gens, clock, job, edits, builds, rollbacks>>

Next ==
  \/ \E r \in Refreshers : Refresh(r) \/ Kill(r)
  \/ BuildChunks \/ Build \/ KillBuild
  \/ \E d \in Docs : Edit(d)
  \/ \E g \in gens : Rollback(g)

Spec == Init /\ [][Next]_vars

\* refresh-index is run again and again, a build that was started runs.
FairSpec == Spec /\ WF_vars(Build) /\ \A r \in Refreshers : WF_vars(Refresh(r))

-----------------------------------------------------------------------------
Marks == [Docs -> Versions]

Types ==
  /\ corpus \in Marks
  /\ base \in [chunks : Marks, rows : [Docs -> Rows], prints : Marks,
               whole : Marks, time : Nat]
  /\ gens \subseteq [chunks : Marks, rows : [Docs -> Rows], prints : Marks,
                     whole : Marks, time : Nat]
  /\ clock \in Nat
  /\ build \in [pc : {"idle", "whole", "prints", "chunks", "index", "meta"},
                chunks : Marks, whole : Marks, prints : Marks]
  /\ edits \in 0..MaxEdits /\ builds \in 0..MaxBuilds /\ kills \in 0..MaxKills
  /\ rollbacks \in 0..MaxRollbacks

JobType ==
  [pc : {"idle", "prints", "chunks", "index", "chunk", "assemble", "stamp",
         "save", "publish"},
   src : Nat, recorded : Marks, current : Marks, chunks : Marks,
   rows : [Docs -> Rows], fresh : Marks, whole : Marks, time : Nat,
   quiet : BOOLEAN]

\* Type invariant; a store is never without a chunk.
TypeOK ==
  /\ Types /\ job \in [Refreshers -> JobType]
  /\ \A s \in Candidates : Present(s.chunks) # {}

\* A store is what a build of the corpus c would be.
Rebuilt(chunks, rows, c) == chunks = c /\ rows = TextOf(c)

\* Stores that nobody is writing.
Complete == gens \cup (IF Saving THEN {} ELSE {base})

\* Every stored vector is the one of the text it is stored with, however
\* often rows were carried over from store to store.
RowsMatchChunks == \A s \in Complete : s.rows = TextOf(s.chunks)

\* A refresh during which nobody edits the corpus gives what a rebuild would
\* give, whatever happened to the stores it derives from.
RefreshIsRebuild ==
  \A r \in Refreshers :
    LET j == job[r] IN
    j.pc \in {"stamp", "save", "publish"} /\ j.quiet =>
      Rebuilt(j.chunks, j.rows, corpus)

\* When refresh-index calls a store current, it is: a document edited after
\* the fingerprints were taken is seen by the next refresh.
UnchangedIsCurrent ==
  \A s \in Complete : s.prints = corpus => Rebuilt(s.chunks, s.rows, corpus)

\* run-eval refuses a store of another corpus: a live store with the
\* fingerprint of the corpus holds no stale chunk.
StaleIsRefused ==
  \A s \in Live : s.whole = corpus => Rebuilt(s.chunks, s.rows, corpus)

\* What the stores look like from outside: the fingerprints a refresh works from,
\* the corpus a build was made of, and the stores that are complete.
Since == [r \in Refreshers |-> IF job[r].pc \in {"idle", "prints"} THEN {}
                               ELSE {job[r].current}]
Building == IF build.pc = "idle" THEN {} ELSE {build.chunks}
Seen(s) == [prints |-> s.prints, chunks |-> s.chunks, rows |-> s.rows]

R == INSTANCE Reindex WITH since <- Since, building <- Building,
                           stores <- {Seen(s) : s \in Complete}

\* A chain of refreshes that carry chunks and vectors over from store to store
\* cannot be told from refreshes that read every document anew.
ImplementsReindex == R!Spec

\* After the last edit, build and rollback, refreshing leads to a live store
\* that is a rebuild of the corpus, unless the corpus is empty.
Converges ==
  <>[](Present(corpus) # {} => \A s \in Live : Rebuilt(s.chunks, s.rows, corpus))
=============================================================================
