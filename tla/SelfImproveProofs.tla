-------------------------- MODULE SelfImproveProofs --------------------------
(***************************************************************************)
(* Proofs about SelfImprove: a registration that returned is listed, and   *)
(* gc-adapters loses neither recorded adapters nor the newest one, nor the *)
(* evidence of a run bundle, unless an operator deleted the only bundle    *)
(* that cited an adapter of the same directory, or a hand adapter was      *)
(* evaluated for the first time when the bundles had been looked at.       *)
(***************************************************************************)
EXTENDS SelfImprove, SequenceTheorems, WellFoundedInduction, TLAPS

-----------------------------------------------------------------------------
(* Directories and rounds.                                                 *)

LEMMA RoundFacts ==
  \A p \in Procs : /\ RoundsOf(p) \in Nat \ {0} /\ RoundsOf(p) <= Rounds
                   /\ p \notin Loops => RoundsOf(p) = 1
  BY FinetuneAssumption DEF RoundsOf

\* Every process is of one kind.
LEMMA Kinds ==
  \A p \in Procs : /\ p \in Orchestrators \/ p \in Hands
                   /\ ~(p \in Orchestrators /\ p \in Hands)
                   /\ p \in Loops => p \in Orchestrators
  BY FinetuneAssumption DEF Procs, Orchestrators

LEMMA DirFacts ==
  \A d \in Dirs : /\ d = <<d[1], d[2]>> /\ d[1] \in Procs
                  /\ d[2] \in 1..RoundsOf(d[1])
  BY DEF Dirs

LEMMA DirIs ==
  \A p \in Procs : \A k \in 1..RoundsOf(p) : <<p, k>> \in Dirs
  BY DEF Dirs

-----------------------------------------------------------------------------
(* The inductive invariant.                                                *)

\* Entries that anybody still holds.
Known == entries \cup seen \cup plan

Owner(e) == e.dir[1]

\* The round the entry's directory belongs to is in state.json, and the
\* directory is known by the entry.
InState(e) ==
  /\ Owner(e) \in Loops /\ e.dir[2] <= Len(saved[Owner(e)])
  /\ \A o \in Known : o.dir = e.dir => o.seq <= e.seq

\* An id belongs to the process that exported its dataset.
Fresh ==
  /\ \A p \in Procs : dataset[p] <= runs
  /\ \A p, q \in Procs : dataset[p] = dataset[q] /\ dataset[p] # 0 => p = q
  /\ \A e \in Known : e.id <= runs
  /\ \A e \in Known : \A p \in Procs : e.id = dataset[p] => Owner(e) = p

\* A loop has not registered the adapter it is working on ...
Unlisted ==
  \A p \in Loops : pc[p] \in {"train", "stamp", "final", "register"} =>
    \A e \in Known : e.id # dataset[p]

\* ... and a hand training is over when its adapter is listed.
HandListed ==
  \A h \in Hands :
    /\ saved[h] = <<>>
    /\ \A e \in Known : Owner(e) = h => e.id = dataset[h] /\ pc[h] = "done"

\* A campaign trains from one dataset only: all that is listed or cited of it
\* is one adapter.
OneAdapter ==
  \A c \in Campaigns :
    /\ \A e \in Known : Owner(e) = c => e.id = dataset[c]
    /\ \A b \in bundles : Owner(b) = c => b.id = dataset[c]

\* What a process in the middle of a round has on disk.
InHand(p) ==
  /\ pc[p] \in {"train", "stamp", "final", "register", "save"} =>
       dataset[p] # 0
  /\ pc[p] \in {"stamp", "final", "register", "save"} =>
       weights[Dir(p)] = dataset[p]
  /\ pc[p] \in {"final", "register", "save"} => manifest[Dir(p)] = dataset[p]
  /\ p \in Orchestrators /\ pc[p] = "register" =>
       [id |-> dataset[p], dir |-> Dir(p)] \in bundles
  /\ p \in Hands /\ pc[p] # "done" /\ manifest[Dir(p)] # 0 =>
       weights[Dir(p)] = dataset[p] /\ manifest[Dir(p)] = dataset[p]
  /\ p \in Hands /\ pc[p] = "done" => dataset[p] # 0

Ready == \A p \in Procs : InHand(p)

\* A directory with a manifest has the weights.
HandWhole == \A h \in Hands : manifest[<<h, 1>>] # 0 => weights[<<h, 1>>] # 0

\* Operators delete run bundles of recorded rounds.
StrippedRecorded == \A d \in stripped : Recorded(d)

\* No adapter of an orchestrator leaves the registry but for a deleted bundle,
\* and a loop registers each of its own once.
Listed ==
  \A e \in Known : Owner(e) \in Orchestrators =>
    /\ e.id \in Ids(entries) \/ e.dir \in stripped
    /\ Owner(e) \in Loops => \A o \in Known : o.id = e.id => o = e

\* Why gc-adapters cannot delete what an orchestrator registered: the bundle
\* of the final eval came first, and goes after the round is recorded.
CitedOrInState ==
  \A e \in Known : Owner(e) \in Orchestrators =>
    [id |-> e.id, dir |-> e.dir] \in bundles \/ InState(e) \/ e.dir \in stripped

\* The directory of a hand training is known by its one entry.
HandsOnce ==
  \A e, o \in Known : o.dir = e.dir /\ Owner(e) \in Hands => o.seq <= e.seq

Order == \A e \in Known : e.seq <= seq

\* No run bundle was served from the directory of the entry.
Bare(e) == \A b \in bundles : b.dir # e.dir

\* What gc-adapters has found out.
Scanned ==
  gcpc = "journals" => \A e \in seen :
    /\ Owner(e) \in Orchestrators => e.id \in cited \/ InState(e) \/ e.dir \in stripped
    /\ Owner(e) \in Hands => e.id \in cited \/ Bare(e) \/ e.dir \in late

Deletes(e) == \/ e.dir \in stripped
              \/ Owner(e) \in Hands /\ (Bare(e) \/ e.dir \in late)

Planned ==
  /\ \A e \in plan : Deletes(e)
  /\ gcpc = "tombstone" => seen \subseteq plan /\ Ids(seen) \cap acked = {}
  /\ gcpc \notin {"delete", "tombstone"} => plan = {}
  /\ gcpc \in {"idle", "delete"} => seen = {}

\* Why the newest adapter stays: whatever is planned or already lost is older
\* than a listed adapter that is not planned.  Until the plan is made, that one
\* is among those that were loaded.
Once(es) == \A e, o \in es : e.id = o.id => e = o

Dead(e) == weights[e.dir] = 0 /\ e.dir \notin stripped

Outlived(e) == \E o \in entries : o.seq > e.seq /\ o.id \notin Ids(plan)

Loaded ==
  gcpc \in {"bundles", "journals"} =>
    /\ \A s \in seen : \E o \in entries : o.id = s.id /\ o.seq >= s.seq
    /\ \A e \in entries : Dead(e) => \E s \in seen : s.seq > e.seq

Newer ==
  /\ Once(entries) /\ Once(seen)
  /\ Loaded
  /\ \A e \in plan : Outlived(e)
  /\ \A e \in entries : Dead(e) => Outlived(e)

IInv == /\ Types /\ Fresh /\ Unlisted /\ HandListed /\ Ready /\ HandWhole
        /\ OneAdapter /\ StrippedRecorded /\ Listed /\ CitedOrInState /\ HandsOnce
        /\ Order /\ Scanned /\ Planned /\ Newer
        /\ RecordedSurvive /\ EvidenceStands /\ AckedIsListed

\* Naturals below a bound have a largest one.
LEMMA Largest ==
  ASSUME NEW n \in Nat, NEW T \in SUBSET (0..n), T # {}
  PROVE  \E x \in T : \A y \in T : y <= x
<1> DEFINE R == {ss \in Nat \X Nat : ss[1] < ss[2]}
           U == {n - x : x \in T}
<1>1. IsWellFoundedOn(R, Nat)
  BY NatLessThanWellFounded DEF OpToRel
<1>2. U \subseteq Nat /\ U # {}
  <2>1. \A x \in T : n - x \in Nat
    OBVIOUS
  <2>2. QED
    BY <2>1
<1>3. \E u \in U : \A v \in U : <<v, u>> \notin R
  <2> HIDE DEF R, U
  <2>1. QED
    BY <1>1, <1>2, WFMin
<1>4. PICK u \in U : \A v \in U : <<v, u>> \notin R
  BY <1>3
<1>5. PICK x \in T : u = n - x
  BY <1>4
<1>6. ASSUME NEW y \in T PROVE y <= x
  <2>1. n - y \in U /\ n - y \in Nat /\ u \in Nat
    BY <1>2, <1>4
  <2>2. ~(n - y < u)
    BY <1>4, <2>1
  <2>3. QED
    BY <1>5, <2>2
<1>7. QED
  BY <1>6

\* Entries have a newest one.
LEMMA Newest ==
  ASSUME Types, Order, NEW es \in SUBSET Known, es # {}
  PROVE  \E t \in es : \A e \in es : e.seq <= t.seq
<1> DEFINE T == {e.seq : e \in es}
<1>1. seq \in Nat /\ T \in SUBSET (0..seq) /\ T # {}
  BY DEF Types, Known, Entry, Order
<1>2. PICK x \in T : \A y \in T : y <= x
  <2> HIDE DEF T
  <2>1. QED
    BY <1>1, Largest
<1>3. QED
  BY <1>2

\* The directory of the round a process is at.
LEMMA DirIn ==
  ASSUME Types, NEW p \in Procs, pc[p] # "done"
  PROVE  /\ Dir(p) \in Dirs /\ Dir(p) = <<p, Len(saved[p]) + 1>>
         /\ Len(saved[p]) \in Nat /\ Len(saved[p]) < RoundsOf(p)
<1>1. Len(saved[p]) \in Nat /\ Len(saved[p]) < RoundsOf(p)
  BY DEF Types
<1>2. QED
  BY <1>1, RoundFacts, DirIs DEF Dir

-----------------------------------------------------------------------------
(* Types.                                                                  *)

LEMMA EntryFacts ==
  \A e \in Entry : /\ e.id \in 1..MaxRuns /\ e.dir \in Dirs /\ e.seq \in Nat
                   /\ e.dir[1] \in Procs
  BY DirFacts DEF Entry

\* A registration that is appended is an entry.
LEMMA RegisteredTyped ==
  ASSUME Types, NEW id \in 1..MaxRuns, NEW dir \in Dirs
  PROVE  Registered(id, dir) \subseteq Entry
  BY DEF Registered, Types, Entry

\* The adapter a process works on.
LEMMA Holds ==
  ASSUME Types, Ready, NEW p \in Procs
  PROVE  /\ dataset[p] \in Nat
         /\ pc[p] \in {"train", "stamp", "final", "register", "save"} =>
              dataset[p] \in 1..MaxRuns
         /\ pc[p] \in {"final", "register", "save"} =>
              manifest[Dir(p)] = dataset[p]
<1>1. dataset[p] \in 0..MaxRuns
  BY DEF Types
<1>2. InHand(p)
  BY DEF Ready
<1>3. QED
  BY <1>1, <1>2, FinetuneAssumption DEF InHand

\* A kill changes nothing that reading the registry gives.
LEMMA CrashKeeps ==
  /\ \A p \in Procs : Crash(p) => UNCHANGED <<entries, seq>>
  /\ GcCrash => UNCHANGED <<entries, seq>>
  BY Zenon DEF Crash, GcCrash, TearAppend, registryVars

\* What an appended line leaves listed.
LEMMA RegisterKeeps ==
  ASSUME NEW p \in Procs, Register(p)
  PROVE  \/ entries' = entries /\ seq' = seq
         \/ /\ entries' = Registered(manifest[Dir(p)], Dir(p))
            /\ seq' = seq + 1
  BY DEF Register, AppendEvent, AfterAppend

LEMMA TombstoneKeeps ==
  ASSUME seq \in Nat, GcTombstone
  PROVE  /\ seq' = seq
         /\ \/ entries' = entries
            \/ entries' = {e \in entries : e.id \notin Ids(seen)}
  BY DEF GcTombstone, AppendEvent, AfterAppend

LEMMA TypeStep == Types /\ Ready /\ [Next]_vars => Types'
<1> SUFFICES ASSUME Types /\ Ready, [Next]_vars PROVE Types'
  OBVIOUS
<1> USE FinetuneAssumption DEF Types, Steps
<1>1. ASSUME NEW p \in Procs, Tune(p) PROVE Types'
  <2>1. CASE saved[p] # <<>> /\ manifest[Previous(p)] = 0
    BY <2>1, <1>1 DEF Tune, Goto, vars, registryVars, disk, gcVars, exempt
  <2>2. CASE ~(saved[p] # <<>> /\ manifest[Previous(p)] = 0)
    <3>1. saved[p] # <<>> => Previous(p) \in Dirs
      BY <1>1, DirIs, RoundFacts DEF Tune, Previous
    <3>2. bundles' \subseteq [id : 1..MaxRuns, dir : Dirs]
      BY <2>2, <3>1, <1>1 DEF Tune, Citation
    <3>3. /\ dataset' \in [Procs -> 0..MaxRuns] /\ runs' \in 0..MaxRuns
          /\ pc' = [pc EXCEPT ![p] = "train"] /\ pc[p] = "tune"
      <4>1. CASE Exports(p)
        <5>1. /\ runs' = runs + 1 /\ dataset' = [dataset EXCEPT ![p] = runs + 1]
              /\ pc' = [pc EXCEPT ![p] = "train"] /\ pc[p] = "tune"
              /\ runs < MaxRuns
          BY <4>1, <2>2, <1>1, Zenon DEF Tune, Goto
        <5>2. runs + 1 \in 0..MaxRuns
          BY <5>1
        <5>3. QED
          BY <5>1, <5>2
      <4>2. CASE ~Exports(p)
        BY <4>2, <2>2, <1>1 DEF Tune, Goto
      <4>3. QED
        BY <4>1, <4>2
    <3>4. UNCHANGED <<entries, seq, disk, saved, acked, exempt, gcVars, crashes>>
      BY <1>1 DEF Tune, registryVars
    <3>5. QED
      BY <3>2, <3>3, <3>4 DEF disk, gcVars, exempt
  <2>3. QED
    BY <2>1, <2>2
<1>2. ASSUME NEW p \in Procs, Train(p) PROVE Types'
  BY <1>2, DirIn, RoundFacts, EntryFacts DEF Train, Goto, vars, registryVars,
     disk, gcVars, exempt
<1>3. ASSUME NEW p \in Procs, Stamp(p) PROVE Types'
  BY <1>3, DirIn, RoundFacts, EntryFacts DEF Stamp, Goto, vars, registryVars,
     disk, gcVars, exempt
<1>4. ASSUME NEW p \in Procs, Final(p) PROVE Types'
  <2>1. pc[p] = "final" /\ pc[p] # "done"
    BY <1>4 DEF Final
  <2>2. manifest[Dir(p)] \in 1..MaxRuns /\ Dir(p) \in Dirs
    BY <2>1, DirIn, Holds
  <2>3. QED
    BY <1>4, <2>2
    DEF Final, Citation, Goto, vars, registryVars, disk, gcVars, exempt
<1>5. ASSUME NEW p \in Procs, SkipFinal(p) PROVE Types'
  BY <1>5, DirIn, RoundFacts, EntryFacts DEF SkipFinal, Goto, vars,
     registryVars, disk, gcVars, exempt
<1>6. ASSUME NEW p \in Procs, Register(p) PROVE Types'
  <2>1. pc[p] = "register" /\ pc[p] # "done"
    BY <1>6 DEF Register
  <2>2. manifest[Dir(p)] \in 1..MaxRuns /\ Dir(p) \in Dirs
    BY <2>1, DirIn, Holds
  <2>3. Registered(manifest[Dir(p)], Dir(p)) \subseteq Entry
    BY <2>2, RegisteredTyped
  <2>4. entries' \subseteq Entry /\ seq' \in Nat
    <3>1. \/ entries' = entries /\ seq' = seq
          \/ /\ entries' = Registered(manifest[Dir(p)], Dir(p))
             /\ seq' = seq + 1
      BY <1>6, RegisterKeeps, Zenon
    <3>2. QED
      BY <2>3, <3>1
  <2>5. acked' = acked \/ acked' = acked \cup {manifest[Dir(p)]}
    BY <1>6 DEF Register
  <2>6. pc' \in [Procs -> Steps \cup {"dead", "done"}]
    BY <1>6 DEF Register, Goto, AfterRegister
  <2>7. UNCHANGED <<dataset, weights, manifest, bundles, saved, gcpc, seen,
                    cited, plan, runs, crashes, stripped, late>>
    BY <1>6 DEF Register, disk, gcVars, exempt
  <2>8. acked' \subseteq 1..MaxRuns
    BY <2>2, <2>5
  <2>9. \A q \in Procs : pc'[q] # "done" => Len(saved[q]) < RoundsOf(q)
    BY <1>6 DEF Register, Goto
  <2>10. QED
    BY <2>4, <2>6, <2>7, <2>8, <2>9
<1>7. ASSUME NEW p \in Procs, RegisterFails(p) PROVE Types'
  BY <1>7, DirIn, RoundFacts, EntryFacts DEF RegisterFails, Goto, vars,
     registryVars, disk, gcVars, exempt
<1>8. ASSUME NEW p \in Orchestrators, NEW v \in {"accept", "reject"},
             Save(p, v)
      PROVE Types'
  <2>1. p \in Procs /\ pc[p] = "save"
    BY <1>8 DEF Save, Procs
  <2>2. dataset[p] \in 1..MaxRuns
    BY <2>1, Holds
  <2>3. saved' \in [Procs -> Seq(1..MaxRuns)]
    BY <1>8, <2>1, <2>2 DEF Save
  <2>4. Len(saved'[p]) = Len(saved[p]) + 1
    BY <1>8, <2>1, <2>2 DEF Save
  <2>5. QED
    BY <1>8, <2>1, <2>3, <2>4, RoundFacts
    DEF Save, Goto, Ends, vars, registryVars, disk, gcVars, exempt
<1>9. ASSUME NEW p \in Procs, Crash(p) PROVE Types'
  <2>1. UNCHANGED <<entries, seq>>
    BY <1>9, CrashKeeps
  <2>2. QED
    BY <1>9, <2>1 DEF Crash, Goto, disk, gcVars, exempt
<1>10. ASSUME NEW p \in Procs, Resume(p) PROVE Types'
  BY <1>10, DirIn, RoundFacts, EntryFacts DEF Resume, Goto, ResumesAt, vars,
     registryVars, disk, gcVars, exempt
<1>11. ASSUME NEW p \in Procs, GoesOn(p) PROVE Types'
  BY <1>11, DirIn, RoundFacts, EntryFacts DEF GoesOn, Goto, RoundsOf, vars,
     registryVars, disk, gcVars, exempt
<1>12. CASE GcLoad
  BY <1>12, DirIn, RoundFacts, EntryFacts DEF GcLoad, vars, registryVars,
     disk, gcVars, exempt
<1>13. CASE GcBundles
  <2>1. \A b \in bundles : b.id \in 1..MaxRuns
    OBVIOUS
  <2>2. \A b \in bundles : CitedBy(b) \subseteq 1..MaxRuns
    BY <2>1, EntryFacts DEF CitedBy, IdsOfDir
  <2>3. cited' \subseteq 1..MaxRuns
    BY <1>13, <2>2 DEF GcBundles
  <2>4. QED
    BY <1>13, <2>3 DEF GcBundles, vars, registryVars, disk, gcVars, exempt
<1>14. CASE GcJournals
  BY <1>14, DirIn, RoundFacts, EntryFacts DEF GcJournals, Deletable,
     Superseded, vars, registryVars, disk, gcVars, exempt
<1>15. ASSUME NEW d \in plan, GcDelete(d) PROVE Types'
  <2>1. d.dir \in Dirs
    BY EntryFacts
  <2>2. weights' \in [Dirs -> 0..MaxRuns]
    BY <1>15, <2>1 DEF GcDelete
  <2>4. manifest' \in [Dirs -> 0..MaxRuns]
    BY <1>15, <2>1 DEF GcDelete
  <2>5. acked' \subseteq 1..MaxRuns /\ seen' \subseteq Entry
    BY <1>15, <2>1 DEF GcDelete
  <2>3. QED
    BY <1>15, <2>2, <2>4, <2>5 DEF GcDelete, registryVars, exempt
<1>16. CASE GcTombstone
  <2>1. entries' \subseteq entries /\ seq' = seq
    BY <1>16, TombstoneKeeps
  <2>2. QED
    BY <1>16, <2>1 DEF GcTombstone, disk, exempt
<1>17. CASE GcDone
  BY <1>17, DirIn, RoundFacts, EntryFacts DEF GcDone, GcStops, vars,
     registryVars, disk, gcVars, exempt
<1>18. CASE GcCrash
  <2>1. UNCHANGED <<entries, seq>>
    BY <1>18, CrashKeeps
  <2>2. QED
    BY <1>18, <2>1 DEF GcCrash, GcStops, disk, exempt
<1>19. ASSUME NEW b \in bundles, Prune(b) PROVE Types'
  BY <1>19, DirIn, RoundFacts, EntryFacts DEF Prune, vars, registryVars, disk,
     gcVars, exempt
<1>22. ASSUME NEW h \in Hands, Evaluate(h) PROVE Types'
  <2>1. dataset[h] \in 1..MaxRuns /\ <<h, 1>> \in Dirs
    <3>1. h \in Procs /\ pc[h] = "done" /\ RoundsOf(h) \in Nat \ {0}
      BY <1>22, RoundFacts DEF Evaluate, Procs
    <3>2. dataset[h] # 0
      BY <3>1 DEF Ready, InHand
    <3>3. QED
      BY <3>1, <3>2, DirIs
  <2>2. /\ bundles' = bundles \cup {[id |-> dataset[h], dir |-> <<h, 1>>]}
        /\ late' = late \/ late' = late \cup {<<h, 1>>}
        /\ UNCHANGED <<entries, seq, pc, dataset, weights, manifest, saved, acked,
                       stripped, gcpc, seen, cited, plan, runs, crashes>>
    BY <1>22 DEF Evaluate, registryVars, disk, gcVars
  <2>3. [id |-> dataset[h], dir |-> <<h, 1>>] \in [id : 1..MaxRuns, dir : Dirs]
    BY <2>1
  <2>4. bundles' \subseteq [id : 1..MaxRuns, dir : Dirs] /\ late' \subseteq Dirs
    BY <2>1, <2>2, <2>3
  <2>5. QED
    BY <2>2, <2>4
<1>20. CASE UNCHANGED vars
  BY <1>20, DirIn, RoundFacts, EntryFacts DEF vars, registryVars, disk, gcVars, exempt
<1>21. QED
  BY <1>1, <1>2, <1>3, <1>4, <1>5, <1>6, <1>7, <1>8, <1>9, <1>10, <1>11,
     <1>12, <1>13, <1>14, <1>15, <1>16, <1>17, <1>18, <1>19, <1>20, <1>22 DEF Next,
     Step, Gc

-----------------------------------------------------------------------------
(* What a step can add to the entries somebody holds, and to the datasets. *)

\* The entry a registration appends.
New(p) == [id |-> manifest[Dir(p)], dir |-> Dir(p), seq |-> seq + 1]

KnownGrows == \A e \in Known' : e \in Known
                \/ \E p \in Procs : Register(p) /\ e = New(p) /\ entries' # entries

LEMMA KnownStep == Types /\ [Next]_vars => KnownGrows
<1> SUFFICES ASSUME Types, [Next]_vars PROVE KnownGrows
  OBVIOUS
<1> USE DEF KnownGrows, Known
<1>1. ASSUME NEW p \in Procs, Tune(p) PROVE KnownGrows
  BY <1>1 DEF Tune, Goto, Exports, vars, registryVars, disk, gcVars
<1>2. ASSUME NEW p \in Procs, Train(p) PROVE KnownGrows
  BY <1>2 DEF Train, Goto, vars, registryVars, disk, gcVars
<1>3. ASSUME NEW p \in Procs, Stamp(p) PROVE KnownGrows
  BY <1>3 DEF Stamp, Goto, vars, registryVars, disk, gcVars
<1>4. ASSUME NEW p \in Procs, Final(p) PROVE KnownGrows
  BY <1>4 DEF Final, Goto, vars, registryVars, disk, gcVars
<1>5. ASSUME NEW p \in Procs, SkipFinal(p) PROVE KnownGrows
  BY <1>5 DEF SkipFinal, Goto, vars, registryVars, disk, gcVars
<1>6. ASSUME NEW p \in Procs, Register(p) PROVE KnownGrows
  <2>1. \/ entries' = entries /\ seq' = seq
        \/ /\ entries' = Registered(manifest[Dir(p)], Dir(p))
           /\ seq' = seq + 1
    BY <1>6, RegisterKeeps, Zenon
  <2>2. seen' = seen /\ plan' = plan
    BY <1>6 DEF Register, gcVars
  <2>3. CASE entries' = entries
    BY <2>2, <2>3
  <2>4. CASE entries' # entries
    <3>1. \A e \in entries' : e \in entries \/ e = New(p)
      BY <2>1, <2>4 DEF Registered, New
    <3>2. QED
      BY <2>2, <2>4, <3>1, <1>6
  <2>5. QED
    BY <2>3, <2>4
<1>7. ASSUME NEW p \in Procs, RegisterFails(p) PROVE KnownGrows
  BY <1>7 DEF RegisterFails, Goto, vars, registryVars, disk, gcVars
<1>8. ASSUME NEW p \in Orchestrators, NEW v \in {"accept", "reject"},
             Save(p, v)
      PROVE KnownGrows
  BY <1>8 DEF Save, Goto, Ends, vars, registryVars, disk, gcVars
<1>9. ASSUME NEW p \in Procs, Crash(p) PROVE KnownGrows
  <2>1. UNCHANGED <<entries, seq>>
    BY <1>9, CrashKeeps
  <2>2. QED
    BY <1>9, <2>1 DEF Crash, gcVars
<1>10. ASSUME NEW p \in Procs, Resume(p) PROVE KnownGrows
  BY <1>10 DEF Resume, Goto, ResumesAt, vars, registryVars, disk, gcVars
<1>11. ASSUME NEW p \in Procs, GoesOn(p) PROVE KnownGrows
  BY <1>11 DEF GoesOn, Goto, vars, registryVars, disk, gcVars
<1>12. CASE GcLoad
  BY <1>12 DEF GcLoad, vars, registryVars, disk, gcVars
<1>13. CASE GcBundles
  BY <1>13 DEF GcBundles, vars, registryVars, disk, gcVars
<1>14. CASE GcJournals
  BY <1>14 DEF GcJournals, Deletable, Superseded, vars, registryVars, disk,
     gcVars
<1>15. ASSUME NEW d \in plan, GcDelete(d) PROVE KnownGrows
  BY <1>15 DEF GcDelete, vars, registryVars, disk, gcVars
<1>16. CASE GcTombstone
  <2>1. entries' \subseteq entries
    BY <1>16, TombstoneKeeps DEF Types
  <2>2. QED
    BY <1>16, <2>1 DEF GcTombstone
<1>17. CASE GcDone
  BY <1>17 DEF GcDone, GcStops, vars, registryVars, disk, gcVars
<1>18. CASE GcCrash
  <2>1. UNCHANGED <<entries, seq>>
    BY <1>18, CrashKeeps
  <2>2. QED
    BY <1>18, <2>1 DEF GcCrash, GcStops
<1>19. ASSUME NEW b \in bundles, Prune(b) PROVE KnownGrows
  BY <1>19 DEF Prune, vars, registryVars, disk, gcVars
<1>22. ASSUME NEW h \in Hands, Evaluate(h) PROVE KnownGrows
  BY <1>22 DEF Evaluate, vars, registryVars, disk, gcVars
<1>20. CASE UNCHANGED vars
  BY <1>20 DEF vars, registryVars, disk, gcVars
<1>21. QED
  BY <1>1, <1>2, <1>3, <1>4, <1>5, <1>6, <1>7, <1>8, <1>9, <1>10, <1>11,
     <1>12, <1>13, <1>14, <1>15, <1>16, <1>17, <1>18, <1>19, <1>20, <1>22 DEF Next,
     Step, Gc

\* A tuning run gives its process a new number.
Exported(p) ==
  /\ Tune(p) /\ pc[p] = "tune" /\ (p \in Loops \/ dataset[p] = 0)
  /\ dataset' = [dataset EXCEPT ![p] = runs + 1] /\ runs' = runs + 1

DatasetStays == \/ dataset' = dataset /\ runs' = runs
                \/ \E p \in Procs : Exported(p)

LEMMA TuneExports ==
  ASSUME NEW p \in Procs, Tune(p)
  PROVE  /\ pc[p] = "tune"
         /\ UNCHANGED <<entries, seq, weights, manifest, saved, acked, stripped, late,
                        gcpc, seen, cited, plan>>
         /\ \/ /\ UNCHANGED <<dataset, runs, bundles>>
               /\ pc' = [pc EXCEPT ![p] = "dead"]
            \/ /\ bundles' = IF saved[p] # <<>>
                             THEN bundles \cup {Citation(Previous(p))} ELSE bundles
               /\ saved[p] # <<>> => manifest[Previous(p)] # 0
               /\ pc' = [pc EXCEPT ![p] = "train"]
               /\ \/ UNCHANGED <<dataset, runs>> /\ p \notin Loops /\ dataset[p] # 0
                  \/ Exported(p)
<1>1. pc[p] = "tune"
  BY DEF Tune
<1>2. UNCHANGED <<entries, seq, weights, manifest, saved, acked, stripped, late,
                  gcpc, seen, cited, plan>>
  BY DEF Tune, registryVars, disk, gcVars, exempt
<1>3. CASE saved[p] # <<>> /\ manifest[Previous(p)] = 0
  BY <1>1, <1>2, <1>3 DEF Tune, Goto
<1>4. CASE ~(saved[p] # <<>> /\ manifest[Previous(p)] = 0)
  <2>1. /\ bundles' = IF saved[p] # <<>>
                      THEN bundles \cup {Citation(Previous(p))} ELSE bundles
        /\ pc' = [pc EXCEPT ![p] = "train"]
    BY <1>4 DEF Tune, Goto
  <2>2. CASE Exports(p)
    <3>1. Exported(p)
      BY <2>2, <1>4, <1>1, Zenon DEF Tune, Exported, Exports
    <3>2. QED
      BY <1>1, <1>2, <1>4, <2>1, <3>1
  <2>3. CASE ~Exports(p)
    <3>1. UNCHANGED <<dataset, runs>>
      BY <2>3, <1>4, Zenon DEF Tune
    <3>2. QED
      BY <1>1, <1>2, <1>4, <2>1, <2>3, <3>1 DEF Exports
  <2>4. QED
    BY <2>2, <2>3
<1>5. QED
  BY <1>3, <1>4

LEMMA DatasetStep == Types /\ [Next]_vars => DatasetStays
<1> SUFFICES ASSUME Types, [Next]_vars PROVE DatasetStays
  OBVIOUS
<1> USE DEF DatasetStays
<1>1. ASSUME NEW p \in Procs, Tune(p) PROVE DatasetStays
  <2>1. \/ UNCHANGED <<dataset, runs>>
        \/ Exported(p)
    BY <1>1, TuneExports, Zenon
  <2>2. QED
    BY <2>1
<1>2. ASSUME NEW p \in Procs, Train(p) PROVE DatasetStays
  BY <1>2 DEF Train, Goto, vars, registryVars, disk, gcVars
<1>3. ASSUME NEW p \in Procs, Stamp(p) PROVE DatasetStays
  BY <1>3 DEF Stamp, Goto, vars, registryVars, disk, gcVars
<1>4. ASSUME NEW p \in Procs, Final(p) PROVE DatasetStays
  BY <1>4 DEF Final, Goto, vars, registryVars, disk, gcVars
<1>5. ASSUME NEW p \in Procs, SkipFinal(p) PROVE DatasetStays
  BY <1>5 DEF SkipFinal, Goto, vars, registryVars, disk, gcVars
<1>6. ASSUME NEW p \in Procs, Register(p) PROVE DatasetStays
  BY <1>6 DEF Register, Goto, AppendEvent, AfterAppend, Registered, Reads,
     Ids, AfterRegister, vars, registryVars, disk, gcVars
<1>7. ASSUME NEW p \in Procs, RegisterFails(p) PROVE DatasetStays
  BY <1>7 DEF RegisterFails, Goto, vars, registryVars, disk, gcVars
<1>8. ASSUME NEW p \in Orchestrators, NEW v \in {"accept", "reject"},
             Save(p, v)
      PROVE DatasetStays
  BY <1>8 DEF Save, Goto, Ends, vars, registryVars, disk, gcVars
<1>9. ASSUME NEW p \in Procs, Crash(p) PROVE DatasetStays
  BY <1>9 DEF Crash, Goto, vars, registryVars, disk, gcVars
<1>10. ASSUME NEW p \in Procs, Resume(p) PROVE DatasetStays
  BY <1>10 DEF Resume, Goto, ResumesAt, vars, registryVars, disk, gcVars
<1>11. ASSUME NEW p \in Procs, GoesOn(p) PROVE DatasetStays
  BY <1>11 DEF GoesOn, Goto, vars, registryVars, disk, gcVars
<1>12. CASE GcLoad
  BY <1>12 DEF GcLoad, vars, registryVars, disk, gcVars
<1>13. CASE GcBundles
  BY <1>13 DEF GcBundles, vars, registryVars, disk, gcVars
<1>14. CASE GcJournals
  BY <1>14 DEF GcJournals, Deletable, Superseded, vars, registryVars, disk,
     gcVars
<1>15. ASSUME NEW d \in plan, GcDelete(d) PROVE DatasetStays
  BY <1>15 DEF GcDelete, vars, registryVars, disk, gcVars
<1>16. CASE GcTombstone
  BY <1>16 DEF GcTombstone, AppendEvent, AfterAppend, vars, registryVars,
     disk, gcVars
<1>17. CASE GcDone
  BY <1>17 DEF GcDone, GcStops, vars, registryVars, disk, gcVars
<1>18. CASE GcCrash
  BY <1>18 DEF GcCrash, GcStops, vars, registryVars, disk, gcVars
<1>19. ASSUME NEW b \in bundles, Prune(b) PROVE DatasetStays
  BY <1>19 DEF Prune, vars, registryVars, disk, gcVars
<1>22. ASSUME NEW h \in Hands, Evaluate(h) PROVE DatasetStays
  BY <1>22 DEF Evaluate, vars, registryVars, disk, gcVars
<1>20. CASE UNCHANGED vars
  BY <1>20 DEF vars, registryVars, disk, gcVars
<1>21. QED
  BY <1>1, <1>2, <1>3, <1>4, <1>5, <1>6, <1>7, <1>8, <1>9, <1>10, <1>11,
     <1>12, <1>13, <1>14, <1>15, <1>16, <1>17, <1>18, <1>19, <1>20, <1>22 DEF Next,
     Step, Gc

-----------------------------------------------------------------------------
(* Whose adapter an entry is.                                              *)

Busy == {"train", "stamp", "final", "register"}

PcMoves ==
  /\ \A q \in Loops : pc'[q] \in Busy => pc[q] \in Busy \/ Exported(q)
  /\ \A q \in Hands : pc[q] = "done" => pc'[q] = "done"

\* A registration that is listed was read back.
LEMMA RegisterTells ==
  ASSUME NEW p \in Procs, Register(p)
  PROVE  /\ pc[p] = "register"
         /\ \/ pc' = [pc EXCEPT ![p] = AfterRegister(p)]
            \/ pc' = [pc EXCEPT ![p] = "dead"] /\ entries' = entries
<1>1. pc[p] = "register"
  BY DEF Register
<1>2. CASE torn
  BY <1>1, <1>2, Zenon DEF Register, AppendEvent, AfterAppend, Goto
<1>3. CASE ~torn
  <2>1. Reads(manifest[Dir(p)], AfterAppend(Registered(manifest[Dir(p)], Dir(p))))
    <3>1. Reads(manifest[Dir(p)], Registered(manifest[Dir(p)], Dir(p)))
      <4>1. New(p) \in Registered(manifest[Dir(p)], Dir(p)) /\ New(p).id = manifest[Dir(p)]
        BY DEF New, Registered
      <4>2. QED
        BY <4>1 DEF Reads, Ids
    <3>2. QED
      BY <1>3, <3>1, Zenon DEF AfterAppend
  <2>2. QED
    BY <1>1, <2>1, Zenon DEF Register, Goto
<1>4. QED
  BY <1>2, <1>3

LEMMA PcStep == Types /\ [Next]_vars => PcMoves
<1> SUFFICES ASSUME Types, [Next]_vars PROVE PcMoves
  OBVIOUS
<1> USE FinetuneAssumption DEF PcMoves, Busy, Types, Steps, Procs,
     Orchestrators
<1>1. ASSUME NEW p \in Procs, Tune(p) PROVE PcMoves
  <2>1. \/ pc' = [pc EXCEPT ![p] = "dead"]
        \/ pc' = [pc EXCEPT ![p] = "train"] /\ (p \notin Loops \/ Exported(p))
    BY <1>1, TuneExports, Zenon
  <2>2. pc[p] = "tune"
    BY <1>1 DEF Tune
  <2>3. QED
    BY <2>1, <2>2
<1>2. ASSUME NEW p \in Procs, Train(p) PROVE PcMoves
  BY <1>2 DEF Train, Goto, vars, registryVars, disk, gcVars
<1>3. ASSUME NEW p \in Procs, Stamp(p) PROVE PcMoves
  BY <1>3 DEF Stamp, Goto, vars, registryVars, disk, gcVars
<1>4. ASSUME NEW p \in Procs, Final(p) PROVE PcMoves
  BY <1>4 DEF Final, Goto, vars, registryVars, disk, gcVars
<1>5. ASSUME NEW p \in Procs, SkipFinal(p) PROVE PcMoves
  BY <1>5 DEF SkipFinal, Goto, vars, registryVars, disk, gcVars
<1>6. ASSUME NEW p \in Procs, Register(p) PROVE PcMoves
  <2>1. \/ pc' = [pc EXCEPT ![p] = "save"]
        \/ pc' = [pc EXCEPT ![p] = "done"]
        \/ pc' = [pc EXCEPT ![p] = "dead"]
    BY <1>6, RegisterTells DEF AfterRegister
  <2>2. pc[p] = "register"
    BY <1>6 DEF Register
  <2>3. QED
    BY <2>1, <2>2
<1>7. ASSUME NEW p \in Procs, RegisterFails(p) PROVE PcMoves
  BY <1>7 DEF RegisterFails, Goto, vars, registryVars, disk, gcVars
<1>8. ASSUME NEW p \in Orchestrators, NEW v \in {"accept", "reject"},
             Save(p, v)
      PROVE PcMoves
  <2>1. pc[p] = "save" /\ (pc' = [pc EXCEPT ![p] = "done"] \/ pc' = [pc EXCEPT ![p] = "tune"])
    <3>1. CASE Ends(p, v)
      BY <3>1, <1>8, Zenon DEF Save, Goto
    <3>2. CASE ~Ends(p, v)
      BY <3>2, <1>8, Zenon DEF Save, Goto
    <3>3. QED
      BY <3>1, <3>2
  <2>2. \A q \in Procs : pc'[q] = pc[q] \/ (q = p /\ pc'[q] \in {"done", "tune"})
    BY <2>1
  <2>3. \A q \in Hands : q # p /\ q \in Procs
    OBVIOUS
  <2>4. \A q \in Loops : q \in Procs
    OBVIOUS
  <2>5. QED
    BY <2>2, <2>3, <2>4, Zenon
<1>9. ASSUME NEW p \in Procs, Crash(p) PROVE PcMoves
  BY <1>9 DEF Crash, Goto, vars, registryVars, disk, gcVars
<1>10. ASSUME NEW p \in Procs, Resume(p) PROVE PcMoves
  BY <1>10 DEF Resume, Goto, ResumesAt, vars, registryVars, disk, gcVars
<1>11. ASSUME NEW p \in Procs, GoesOn(p) PROVE PcMoves
  BY <1>11 DEF GoesOn, Goto, vars, registryVars, disk, gcVars
<1>12. CASE GcLoad
  BY <1>12 DEF GcLoad, vars, registryVars, disk, gcVars
<1>13. CASE GcBundles
  BY <1>13 DEF GcBundles, vars, registryVars, disk, gcVars
<1>14. CASE GcJournals
  BY <1>14 DEF GcJournals, Deletable, Superseded, vars, registryVars, disk,
     gcVars
<1>15. ASSUME NEW d \in plan, GcDelete(d) PROVE PcMoves
  BY <1>15 DEF GcDelete, vars, registryVars, disk, gcVars
<1>16. CASE GcTombstone
  BY <1>16 DEF GcTombstone, AppendEvent, AfterAppend, vars, registryVars,
     disk, gcVars
<1>17. CASE GcDone
  BY <1>17 DEF GcDone, GcStops, vars, registryVars, disk, gcVars
<1>18. CASE GcCrash
  BY <1>18 DEF GcCrash, GcStops, vars, registryVars, disk, gcVars
<1>19. ASSUME NEW b \in bundles, Prune(b) PROVE PcMoves
  BY <1>19 DEF Prune, vars, registryVars, disk, gcVars
<1>22. ASSUME NEW h \in Hands, Evaluate(h) PROVE PcMoves
  BY <1>22 DEF Evaluate, vars, registryVars, disk, gcVars
<1>20. CASE UNCHANGED vars
  BY <1>20 DEF vars, registryVars, disk, gcVars
<1>21. QED
  BY <1>1, <1>2, <1>3, <1>4, <1>5, <1>6, <1>7, <1>8, <1>9, <1>10, <1>11,
     <1>12, <1>13, <1>14, <1>15, <1>16, <1>17, <1>18, <1>19, <1>20, <1>22 DEF Next,
     Step, Gc

LEMMA NewIs ==
  ASSUME Types, Ready, NEW p \in Procs, Register(p)
  PROVE  /\ New(p).id = dataset[p] /\ New(p).dir = Dir(p)
         /\ New(p).seq = seq + 1 /\ dataset[p] \in 1..MaxRuns
         /\ Dir(p) = <<p, Len(saved[p]) + 1>> /\ Dir(p) \in Dirs
         /\ Dir(p)[1] = p
<1>1. pc[p] = "register" /\ pc[p] # "done"
  BY DEF Register
<1>2. Dir(p) = <<p, Len(saved[p]) + 1>> /\ Dir(p) \in Dirs
  BY <1>1, DirIn
<1>3. manifest[Dir(p)] = dataset[p] /\ dataset[p] \in 1..MaxRuns
  BY <1>1, Holds
<1>4. QED
  BY <1>2, <1>3 DEF New

LEMMA Sizes ==
  ASSUME Types
  PROVE  /\ runs \in Nat /\ seq \in Nat
         /\ dataset \in [Procs -> Nat] /\ pc \in [Procs -> Steps \cup {"dead", "done"}]
         /\ \A e \in Known : /\ e \in Entry /\ e.id \in Nat \ {0} /\ e.seq \in Nat
                             /\ e.dir \in Dirs /\ e.dir[1] \in Procs
<1>1. Known \subseteq Entry
  BY DEF Types, Known
<1>2. runs \in Nat /\ seq \in Nat
  BY FinetuneAssumption DEF Types
<1>3. dataset \in [Procs -> Nat] /\ pc \in [Procs -> Steps \cup {"dead", "done"}]
  BY FinetuneAssumption DEF Types
<1>4. \A e \in Known : /\ e.id \in Nat \ {0} /\ e.seq \in Nat
                       /\ e.dir \in Dirs /\ e.dir[1] \in Procs
  BY <1>1, EntryFacts, FinetuneAssumption
<1>5. QED
  BY <1>1, <1>2, <1>3, <1>4

LEMMA FreshStep == Types /\ Ready /\ Fresh /\ [Next]_vars => Fresh'
<1> SUFFICES ASSUME Types, Ready, Fresh, [Next]_vars PROVE Fresh'
  OBVIOUS
<1>1. \A e \in Known' : e.id <= runs
  <2> SUFFICES ASSUME NEW e \in Known' PROVE e.id <= runs
    OBVIOUS
  <2>1. CASE e \in Known
    BY <2>1 DEF Fresh
  <2>2. ASSUME NEW p \in Procs, Register(p), e = New(p) PROVE e.id <= runs
    BY <2>2, NewIs DEF Fresh
  <2>3. QED
    BY <2>1, <2>2, KnownStep DEF KnownGrows
<1>5. ASSUME NEW e \in Known', NEW q \in Procs, e.id = dataset[q] PROVE Owner(e) = q
  <2>1. CASE e \in Known
    BY <1>5, <2>1 DEF Fresh
  <2>2. ASSUME NEW p \in Procs, Register(p), e = New(p) PROVE Owner(e) = q
    <3>1. dataset[p] = dataset[q] /\ dataset[p] # 0 /\ Owner(e) = p
      BY <1>5, <2>2, NewIs DEF Owner
    <3>2. QED
      BY <3>1 DEF Fresh
  <2>3. QED
    BY <2>1, <2>2, KnownStep DEF KnownGrows
<1>2. CASE dataset' = dataset /\ runs' = runs
  BY <1>1, <1>2, <1>5 DEF Fresh, Owner
<1>3. ASSUME NEW p \in Procs, Exported(p) PROVE Fresh'
  <2>1. dataset' = [dataset EXCEPT ![p] = runs + 1] /\ runs' = runs + 1
    BY <1>3 DEF Exported
  <2>2. \A q \in Procs : dataset'[q] = (IF q = p THEN runs + 1 ELSE dataset[q])
    BY <2>1, Sizes
  <2>3. \A q \in Procs : dataset'[q] <= runs'
    BY <2>1, <2>2, Sizes DEF Fresh
  <2>4. \A q, r \in Procs : dataset'[q] = dataset'[r] /\ dataset'[q] # 0 => q = r
    BY <2>2, Sizes DEF Fresh
  <2>5. \A e \in Known' : e.id <= runs'
    <3>1. ASSUME NEW e \in Known' PROVE e.id \in Nat
      <4>1. CASE e \in Known
        BY <4>1, Sizes
      <4>2. ASSUME NEW q \in Procs, Register(q), e = New(q) PROVE e.id \in Nat
        BY <4>2, NewIs, FinetuneAssumption
      <4>3. QED
        BY <4>1, <4>2, KnownStep DEF KnownGrows
    <3>2. QED
      BY <1>1, <2>1, <3>1, Sizes
  <2>7. ASSUME NEW e \in Known', NEW q \in Procs, e.id = dataset'[q] PROVE Owner(e) = q
    <3>1. e.id <= runs
      BY <1>1
    <3>2. q # p
      BY <2>2, <2>7, <3>1, Sizes
    <3>3. QED
      BY <1>5, <2>2, <2>7, <3>2
  <2>6. QED
    BY <2>3, <2>4, <2>5, <2>7 DEF Fresh, Owner
<1>4. QED
  BY <1>2, <1>3, DatasetStep DEF DatasetStays

LEMMA UnlistedStep == Types /\ Ready /\ Fresh /\ Unlisted /\ [Next]_vars => Unlisted'
<1> SUFFICES ASSUME Types, Ready, Fresh, Unlisted, [Next]_vars,
                    NEW q \in Loops, pc'[q] \in Busy, NEW e \in Known'
             PROVE  e.id # dataset'[q]
  BY DEF Unlisted, Busy
<1>1. q \in Procs
  BY DEF Procs, Orchestrators
<1>2. e.id <= runs /\ e.id \in Nat \ {0}
  <2>1. CASE e \in Known
    BY <2>1, Sizes DEF Fresh
  <2>2. ASSUME NEW p \in Procs, Register(p), e = New(p)
        PROVE  e.id <= runs /\ e.id \in Nat \ {0}
    BY <2>2, NewIs, FinetuneAssumption DEF Fresh
  <2>3. QED
    BY <2>1, <2>2, KnownStep DEF KnownGrows
<1>3. CASE Exported(q)
  BY <1>1, <1>2, <1>3, Sizes DEF Exported
<1>4. CASE ~Exported(q)
  <2>1. pc[q] \in Busy
    BY <1>4, PcStep DEF PcMoves
  <2>2. dataset'[q] = dataset[q]
    <3>1. CASE dataset' = dataset
      BY <3>1
    <3>2. ASSUME NEW p \in Procs, Exported(p) PROVE dataset'[q] = dataset[q]
      BY <1>1, <1>4, <3>2, Sizes DEF Exported
    <3>3. QED
      BY <3>1, <3>2, DatasetStep DEF DatasetStays
  <2>3. CASE e \in Known
    BY <2>1, <2>2, <2>3 DEF Unlisted, Busy
  <2>4. ASSUME NEW p \in Procs, Register(p), e = New(p) PROVE e.id # dataset'[q]
    <3>1. p # q
      <4>1. SUFFICES ASSUME p = q PROVE FALSE
        OBVIOUS
      <4>2. pc' = [pc EXCEPT ![p] = AfterRegister(p)] \/ pc' = [pc EXCEPT ![p] = "dead"]
        BY <2>4, RegisterTells, Zenon
      <4>3. QED
        BY <1>1, <4>1, <4>2, Sizes DEF AfterRegister, Busy
    <3>2. QED
      BY <1>1, <2>2, <2>4, <3>1, NewIs DEF Fresh
  <2>5. QED
    BY <2>3, <2>4, KnownStep DEF KnownGrows
<1>5. QED
  BY <1>3, <1>4


\* A recorded round is never changed.
SavedStays ==
  \/ saved' = saved
  \/ \E p \in Orchestrators : /\ pc[p] = "save"
                              /\ saved' = [saved EXCEPT ![p] = Append(@, dataset[p])]

LEMMA SavedStep == Types /\ [Next]_vars => SavedStays
<1> SUFFICES ASSUME Types, [Next]_vars PROVE SavedStays
  OBVIOUS
<1> USE DEF SavedStays
<1>1. ASSUME NEW p \in Procs, Tune(p) PROVE SavedStays
  BY <1>1, TuneExports, Zenon
<1>2. ASSUME NEW p \in Procs, Train(p) PROVE SavedStays
  BY <1>2 DEF Train, Goto, vars, registryVars, disk, gcVars
<1>3. ASSUME NEW p \in Procs, Stamp(p) PROVE SavedStays
  BY <1>3 DEF Stamp, Goto, vars, registryVars, disk, gcVars
<1>4. ASSUME NEW p \in Procs, Final(p) PROVE SavedStays
  BY <1>4 DEF Final, Goto, vars, registryVars, disk, gcVars
<1>5. ASSUME NEW p \in Procs, SkipFinal(p) PROVE SavedStays
  BY <1>5 DEF SkipFinal, Goto, vars, registryVars, disk, gcVars
<1>6. ASSUME NEW p \in Procs, Register(p) PROVE SavedStays
  BY <1>6 DEF Register, Goto, AppendEvent, AfterAppend, Registered, Reads,
     Ids, AfterRegister, vars, registryVars, disk, gcVars
<1>7. ASSUME NEW p \in Procs, RegisterFails(p) PROVE SavedStays
  BY <1>7 DEF RegisterFails, Goto, vars, registryVars, disk, gcVars
<1>8. ASSUME NEW p \in Orchestrators, NEW v \in {"accept", "reject"},
             Save(p, v)
      PROVE SavedStays
  BY <1>8 DEF Save, Goto, Ends, vars, registryVars, disk, gcVars
<1>9. ASSUME NEW p \in Procs, Crash(p) PROVE SavedStays
  BY <1>9 DEF Crash, Goto, vars, registryVars, disk, gcVars
<1>10. ASSUME NEW p \in Procs, Resume(p) PROVE SavedStays
  BY <1>10 DEF Resume, Goto, ResumesAt, vars, registryVars, disk, gcVars
<1>11. ASSUME NEW p \in Procs, GoesOn(p) PROVE SavedStays
  BY <1>11 DEF GoesOn, Goto, vars, registryVars, disk, gcVars
<1>12. CASE GcLoad
  BY <1>12 DEF GcLoad, vars, registryVars, disk, gcVars
<1>13. CASE GcBundles
  BY <1>13 DEF GcBundles, vars, registryVars, disk, gcVars
<1>14. CASE GcJournals
  BY <1>14 DEF GcJournals, Deletable, Superseded, vars, registryVars, disk,
     gcVars
<1>15. ASSUME NEW d \in plan, GcDelete(d) PROVE SavedStays
  BY <1>15 DEF GcDelete, vars, registryVars, disk, gcVars
<1>16. CASE GcTombstone
  BY <1>16 DEF GcTombstone, AppendEvent, AfterAppend, vars, registryVars,
     disk, gcVars
<1>17. CASE GcDone
  BY <1>17 DEF GcDone, GcStops, vars, registryVars, disk, gcVars
<1>18. CASE GcCrash
  BY <1>18 DEF GcCrash, GcStops, vars, registryVars, disk, gcVars
<1>19. ASSUME NEW b \in bundles, Prune(b) PROVE SavedStays
  BY <1>19 DEF Prune, vars, registryVars, disk, gcVars
<1>22. ASSUME NEW h \in Hands, Evaluate(h) PROVE SavedStays
  BY <1>22 DEF Evaluate, vars, registryVars, disk, gcVars
<1>20. CASE UNCHANGED vars
  BY <1>20 DEF vars, registryVars, disk, gcVars
<1>21. QED
  BY <1>1, <1>2, <1>3, <1>4, <1>5, <1>6, <1>7, <1>8, <1>9, <1>10, <1>11,
     <1>12, <1>13, <1>14, <1>15, <1>16, <1>17, <1>18, <1>19, <1>20, <1>22 DEF Next,
     Step, Gc

LEMMA HandListedStep ==
  Types /\ Ready /\ HandListed /\ [Next]_vars => HandListed'
<1> SUFFICES ASSUME Types, Ready, HandListed, [Next]_vars, NEW h \in Hands
             PROVE  /\ saved'[h] = <<>>
                    /\ \A e \in Known' :
                         e.dir[1] = h => e.id = dataset'[h] /\ pc'[h] = "done"
  BY DEF HandListed, Owner
<1>1. h \in Procs /\ h \notin Orchestrators /\ saved[h] = <<>>
  BY Kinds DEF HandListed, Procs
<1>2. saved'[h] = <<>>
  BY <1>1, SavedStep DEF SavedStays, Types
<1>3. ASSUME NEW e \in Known, e.dir[1] = h PROVE e.id = dataset'[h] /\ pc'[h] = "done"
  <2>1. e.id = dataset[h] /\ pc[h] = "done"
    BY <1>3 DEF HandListed, Owner
  <2>2. ASSUME NEW p \in Procs, Exported(p) PROVE dataset'[h] = dataset[h]
    BY <1>1, <2>1, <2>2, Sizes DEF Exported
  <2>3. QED
    BY <2>1, <2>2, DatasetStep, PcStep DEF DatasetStays, PcMoves
<1>4. ASSUME NEW p \in Procs, Register(p), NEW e, e = New(p), entries' # entries,
             e.dir[1] = h
      PROVE  e.id = dataset'[h] /\ pc'[h] = "done"
  <2>1. p = h /\ e.id = dataset[h] /\ dataset' = dataset
    BY <1>4, NewIs DEF Register
  <2>2. pc'[h] = "done"
    BY <1>1, <1>4, <2>1, RegisterTells, Sizes DEF AfterRegister
  <2>3. QED
    BY <2>1, <2>2
<1>5. QED
  BY <1>2, <1>3, <1>4, KnownStep DEF KnownGrows


-----------------------------------------------------------------------------
(* What a step can do to the bundles, the directories and the registry.    *)

BundlesGrow == \A b \in bundles' :
  \/ b \in bundles
  \/ \E p \in Procs : Final(p) /\ b = Citation(Dir(p))
  \/ \E p \in Procs : /\ Tune(p) /\ saved[p] # <<>> /\ manifest[Previous(p)] # 0
                      /\ b = Citation(Previous(p))
  \/ \E h \in Hands : Evaluate(h) /\ b = [id |-> dataset[h], dir |-> <<h, 1>>]

BundlesShrink == \A b \in bundles : b \in bundles' \/ Prune(b)

DiskMoves ==
  \/ weights' = weights /\ manifest' = manifest
  \/ \E p \in Procs : /\ Train(p) /\ manifest' = manifest
                      /\ weights' = [weights EXCEPT ![Dir(p)] = dataset[p]]
  \/ \E p \in Procs : /\ Stamp(p) /\ weights' = weights
                      /\ manifest' = [manifest EXCEPT ![Dir(p)] = dataset[p]]
  \/ \E d \in plan : /\ GcDelete(d)
                     /\ weights' = [weights EXCEPT ![d.dir] = 0]
                     /\ manifest' = [manifest EXCEPT ![d.dir] = 0]

RegistryMoves ==
  \/ entries' \subseteq entries /\ seq' = seq /\ (entries' = entries \/ GcTombstone)
  \/ \E p \in Procs : /\ Register(p) /\ seq' = seq + 1
                      /\ entries' = Registered(manifest[Dir(p)], Dir(p))

LEMMA BundlesStep == Types /\ [Next]_vars => BundlesGrow
<1> SUFFICES ASSUME Types, [Next]_vars PROVE BundlesGrow
  OBVIOUS
<1> USE DEF BundlesGrow
<1>1. ASSUME NEW p \in Procs, Tune(p) PROVE BundlesGrow
  <2>1. bundles' = bundles \/ (saved[p] # <<>> /\ manifest[Previous(p)] # 0
          /\ bundles' = bundles \cup {Citation(Previous(p))})
    BY <1>1, TuneExports
  <2>2. QED
    BY <1>1, <2>1
<1>2. ASSUME NEW p \in Procs, Train(p) PROVE BundlesGrow
  BY <1>2 DEF Train, Goto, vars, registryVars, disk, gcVars
<1>3. ASSUME NEW p \in Procs, Stamp(p) PROVE BundlesGrow
  BY <1>3 DEF Stamp, Goto, vars, registryVars, disk, gcVars
<1>4. ASSUME NEW p \in Procs, Final(p) PROVE BundlesGrow
  BY <1>4 DEF Final, Goto, vars, registryVars, disk, gcVars
<1>5. ASSUME NEW p \in Procs, SkipFinal(p) PROVE BundlesGrow
  BY <1>5 DEF SkipFinal, Goto, vars, registryVars, disk, gcVars
<1>6. ASSUME NEW p \in Procs, Register(p) PROVE BundlesGrow
  BY <1>6 DEF Register, Goto, AppendEvent, AfterAppend, Registered, Reads,
     Ids, AfterRegister, vars, registryVars, disk, gcVars
<1>7. ASSUME NEW p \in Procs, RegisterFails(p) PROVE BundlesGrow
  BY <1>7 DEF RegisterFails, Goto, vars, registryVars, disk, gcVars
<1>8. ASSUME NEW p \in Orchestrators, NEW v \in {"accept", "reject"},
             Save(p, v)
      PROVE BundlesGrow
  BY <1>8 DEF Save, Goto, Ends, vars, registryVars, disk, gcVars
<1>9. ASSUME NEW p \in Procs, Crash(p) PROVE BundlesGrow
  BY <1>9 DEF Crash, Goto, vars, registryVars, disk, gcVars
<1>10. ASSUME NEW p \in Procs, Resume(p) PROVE BundlesGrow
  BY <1>10 DEF Resume, Goto, ResumesAt, vars, registryVars, disk, gcVars
<1>11. ASSUME NEW p \in Procs, GoesOn(p) PROVE BundlesGrow
  BY <1>11 DEF GoesOn, Goto, vars, registryVars, disk, gcVars
<1>12. CASE GcLoad
  BY <1>12 DEF GcLoad, vars, registryVars, disk, gcVars
<1>13. CASE GcBundles
  BY <1>13 DEF GcBundles, vars, registryVars, disk, gcVars
<1>14. CASE GcJournals
  BY <1>14 DEF GcJournals, Deletable, Superseded, vars, registryVars, disk,
     gcVars
<1>15. ASSUME NEW d \in plan, GcDelete(d) PROVE BundlesGrow
  BY <1>15 DEF GcDelete, vars, registryVars, disk, gcVars
<1>16. CASE GcTombstone
  BY <1>16 DEF GcTombstone, AppendEvent, AfterAppend, vars, registryVars,
     disk, gcVars
<1>17. CASE GcDone
  BY <1>17 DEF GcDone, GcStops, vars, registryVars, disk, gcVars
<1>18. CASE GcCrash
  BY <1>18 DEF GcCrash, GcStops, vars, registryVars, disk, gcVars
<1>19. ASSUME NEW b \in bundles, Prune(b) PROVE BundlesGrow
  BY <1>19 DEF Prune, vars, registryVars, disk, gcVars
<1>22. ASSUME NEW h \in Hands, Evaluate(h) PROVE BundlesGrow
  BY <1>22 DEF Evaluate, vars, registryVars, disk, gcVars
<1>20. CASE UNCHANGED vars
  BY <1>20 DEF vars, registryVars, disk, gcVars
<1>21. QED
  BY <1>1, <1>2, <1>3, <1>4, <1>5, <1>6, <1>7, <1>8, <1>9, <1>10, <1>11,
     <1>12, <1>13, <1>14, <1>15, <1>16, <1>17, <1>18, <1>19, <1>20, <1>22 DEF Next,
     Step, Gc
LEMMA PrunedStep == Types /\ [Next]_vars => BundlesShrink
<1> SUFFICES ASSUME Types, [Next]_vars PROVE BundlesShrink
  OBVIOUS
<1> USE DEF BundlesShrink
<1>1. ASSUME NEW p \in Procs, Tune(p) PROVE BundlesShrink
  <2>1. bundles' = bundles \/ bundles' = bundles \cup {Citation(Previous(p))}
    BY <1>1, TuneExports
  <2>2. QED
    BY <2>1
<1>2. ASSUME NEW p \in Procs, Train(p) PROVE BundlesShrink
  BY <1>2 DEF Train, Goto, vars, registryVars, disk, gcVars
<1>3. ASSUME NEW p \in Procs, Stamp(p) PROVE BundlesShrink
  BY <1>3 DEF Stamp, Goto, vars, registryVars, disk, gcVars
<1>4. ASSUME NEW p \in Procs, Final(p) PROVE BundlesShrink
  BY <1>4 DEF Final, Goto, vars, registryVars, disk, gcVars
<1>5. ASSUME NEW p \in Procs, SkipFinal(p) PROVE BundlesShrink
  BY <1>5 DEF SkipFinal, Goto, vars, registryVars, disk, gcVars
<1>6. ASSUME NEW p \in Procs, Register(p) PROVE BundlesShrink
  BY <1>6 DEF Register, Goto, AppendEvent, AfterAppend, Registered, Reads,
     Ids, AfterRegister, vars, registryVars, disk, gcVars
<1>7. ASSUME NEW p \in Procs, RegisterFails(p) PROVE BundlesShrink
  BY <1>7 DEF RegisterFails, Goto, vars, registryVars, disk, gcVars
<1>8. ASSUME NEW p \in Orchestrators, NEW v \in {"accept", "reject"},
             Save(p, v)
      PROVE BundlesShrink
  BY <1>8 DEF Save, Goto, Ends, vars, registryVars, disk, gcVars
<1>9. ASSUME NEW p \in Procs, Crash(p) PROVE BundlesShrink
  BY <1>9 DEF Crash, Goto, vars, registryVars, disk, gcVars
<1>10. ASSUME NEW p \in Procs, Resume(p) PROVE BundlesShrink
  BY <1>10 DEF Resume, Goto, ResumesAt, vars, registryVars, disk, gcVars
<1>11. ASSUME NEW p \in Procs, GoesOn(p) PROVE BundlesShrink
  BY <1>11 DEF GoesOn, Goto, vars, registryVars, disk, gcVars
<1>12. CASE GcLoad
  BY <1>12 DEF GcLoad, vars, registryVars, disk, gcVars
<1>13. CASE GcBundles
  BY <1>13 DEF GcBundles, vars, registryVars, disk, gcVars
<1>14. CASE GcJournals
  BY <1>14 DEF GcJournals, Deletable, Superseded, vars, registryVars, disk,
     gcVars
<1>15. ASSUME NEW d \in plan, GcDelete(d) PROVE BundlesShrink
  BY <1>15 DEF GcDelete, vars, registryVars, disk, gcVars
<1>16. CASE GcTombstone
  BY <1>16 DEF GcTombstone, AppendEvent, AfterAppend, vars, registryVars,
     disk, gcVars
<1>17. CASE GcDone
  BY <1>17 DEF GcDone, GcStops, vars, registryVars, disk, gcVars
<1>18. CASE GcCrash
  BY <1>18 DEF GcCrash, GcStops, vars, registryVars, disk, gcVars
<1>19. ASSUME NEW b \in bundles, Prune(b) PROVE BundlesShrink
  BY <1>19 DEF Prune, vars, registryVars, disk, gcVars
<1>22. ASSUME NEW h \in Hands, Evaluate(h) PROVE BundlesShrink
  BY <1>22 DEF Evaluate, vars, registryVars, disk, gcVars
<1>20. CASE UNCHANGED vars
  BY <1>20 DEF vars, registryVars, disk, gcVars
<1>21. QED
  BY <1>1, <1>2, <1>3, <1>4, <1>5, <1>6, <1>7, <1>8, <1>9, <1>10, <1>11,
     <1>12, <1>13, <1>14, <1>15, <1>16, <1>17, <1>18, <1>19, <1>20, <1>22 DEF Next,
     Step, Gc
LEMMA DiskStep == Types /\ [Next]_vars => DiskMoves
<1> SUFFICES ASSUME Types, [Next]_vars PROVE DiskMoves
  OBVIOUS
<1> USE DEF DiskMoves
<1>1. ASSUME NEW p \in Procs, Tune(p) PROVE DiskMoves
  BY <1>1, TuneExports, Zenon
<1>2. ASSUME NEW p \in Procs, Train(p) PROVE DiskMoves
  BY <1>2 DEF Train, Goto, vars, registryVars, disk, gcVars
<1>3. ASSUME NEW p \in Procs, Stamp(p) PROVE DiskMoves
  BY <1>3 DEF Stamp, Goto, vars, registryVars, disk, gcVars
<1>4. ASSUME NEW p \in Procs, Final(p) PROVE DiskMoves
  BY <1>4 DEF Final, Goto, vars, registryVars, disk, gcVars
<1>5. ASSUME NEW p \in Procs, SkipFinal(p) PROVE DiskMoves
  BY <1>5 DEF SkipFinal, Goto, vars, registryVars, disk, gcVars
<1>6. ASSUME NEW p \in Procs, Register(p) PROVE DiskMoves
  BY <1>6 DEF Register, Goto, AppendEvent, AfterAppend, Registered, Reads,
     Ids, AfterRegister, vars, registryVars, disk, gcVars
<1>7. ASSUME NEW p \in Procs, RegisterFails(p) PROVE DiskMoves
  BY <1>7 DEF RegisterFails, Goto, vars, registryVars, disk, gcVars
<1>8. ASSUME NEW p \in Orchestrators, NEW v \in {"accept", "reject"},
             Save(p, v)
      PROVE DiskMoves
  BY <1>8 DEF Save, Goto, Ends, vars, registryVars, disk, gcVars
<1>9. ASSUME NEW p \in Procs, Crash(p) PROVE DiskMoves
  BY <1>9 DEF Crash, Goto, vars, registryVars, disk, gcVars
<1>10. ASSUME NEW p \in Procs, Resume(p) PROVE DiskMoves
  BY <1>10 DEF Resume, Goto, ResumesAt, vars, registryVars, disk, gcVars
<1>11. ASSUME NEW p \in Procs, GoesOn(p) PROVE DiskMoves
  BY <1>11 DEF GoesOn, Goto, vars, registryVars, disk, gcVars
<1>12. CASE GcLoad
  BY <1>12 DEF GcLoad, vars, registryVars, disk, gcVars
<1>13. CASE GcBundles
  BY <1>13 DEF GcBundles, vars, registryVars, disk, gcVars
<1>14. CASE GcJournals
  BY <1>14 DEF GcJournals, Deletable, Superseded, vars, registryVars, disk,
     gcVars
<1>15. ASSUME NEW d \in plan, GcDelete(d) PROVE DiskMoves
  BY <1>15 DEF GcDelete, vars, registryVars, disk, gcVars
<1>16. CASE GcTombstone
  BY <1>16 DEF GcTombstone, AppendEvent, AfterAppend, vars, registryVars,
     disk, gcVars
<1>17. CASE GcDone
  BY <1>17 DEF GcDone, GcStops, vars, registryVars, disk, gcVars
<1>18. CASE GcCrash
  BY <1>18 DEF GcCrash, GcStops, vars, registryVars, disk, gcVars
<1>19. ASSUME NEW b \in bundles, Prune(b) PROVE DiskMoves
  BY <1>19 DEF Prune, vars, registryVars, disk, gcVars
<1>22. ASSUME NEW h \in Hands, Evaluate(h) PROVE DiskMoves
  BY <1>22 DEF Evaluate, vars, registryVars, disk, gcVars
<1>20. CASE UNCHANGED vars
  BY <1>20 DEF vars, registryVars, disk, gcVars
<1>21. QED
  BY <1>1, <1>2, <1>3, <1>4, <1>5, <1>6, <1>7, <1>8, <1>9, <1>10, <1>11,
     <1>12, <1>13, <1>14, <1>15, <1>16, <1>17, <1>18, <1>19, <1>20, <1>22 DEF Next,
     Step, Gc
LEMMA RegistryStep == Types /\ [Next]_vars => RegistryMoves
<1> SUFFICES ASSUME Types, [Next]_vars PROVE RegistryMoves
  OBVIOUS
<1> USE DEF RegistryMoves
<1>1. ASSUME NEW p \in Procs, Tune(p) PROVE RegistryMoves
  BY <1>1, TuneExports, Zenon
<1>2. ASSUME NEW p \in Procs, Train(p) PROVE RegistryMoves
  BY <1>2 DEF Train, Goto, vars, registryVars, disk, gcVars
<1>3. ASSUME NEW p \in Procs, Stamp(p) PROVE RegistryMoves
  BY <1>3 DEF Stamp, Goto, vars, registryVars, disk, gcVars
<1>4. ASSUME NEW p \in Procs, Final(p) PROVE RegistryMoves
  BY <1>4 DEF Final, Goto, vars, registryVars, disk, gcVars
<1>5. ASSUME NEW p \in Procs, SkipFinal(p) PROVE RegistryMoves
  BY <1>5 DEF SkipFinal, Goto, vars, registryVars, disk, gcVars
<1>6. ASSUME NEW p \in Procs, Register(p) PROVE RegistryMoves
  <2>1. \/ entries' = entries /\ seq' = seq
        \/ /\ entries' = Registered(manifest[Dir(p)], Dir(p))
           /\ seq' = seq + 1
    BY <1>6, RegisterKeeps, Zenon
  <2>2. QED
    BY <1>6, <2>1
<1>7. ASSUME NEW p \in Procs, RegisterFails(p) PROVE RegistryMoves
  BY <1>7 DEF RegisterFails, Goto, vars, registryVars, disk, gcVars
<1>8. ASSUME NEW p \in Orchestrators, NEW v \in {"accept", "reject"},
             Save(p, v)
      PROVE RegistryMoves
  BY <1>8 DEF Save, Goto, Ends, vars, registryVars, disk, gcVars
<1>9. ASSUME NEW p \in Procs, Crash(p) PROVE RegistryMoves
  BY <1>9, CrashKeeps, Zenon
<1>10. ASSUME NEW p \in Procs, Resume(p) PROVE RegistryMoves
  BY <1>10 DEF Resume, Goto, ResumesAt, vars, registryVars, disk, gcVars
<1>11. ASSUME NEW p \in Procs, GoesOn(p) PROVE RegistryMoves
  BY <1>11 DEF GoesOn, Goto, vars, registryVars, disk, gcVars
<1>12. CASE GcLoad
  BY <1>12 DEF GcLoad, vars, registryVars, disk, gcVars
<1>13. CASE GcBundles
  BY <1>13 DEF GcBundles, vars, registryVars, disk, gcVars
<1>14. CASE GcJournals
  BY <1>14 DEF GcJournals, Deletable, Superseded, vars, registryVars, disk,
     gcVars
<1>15. ASSUME NEW d \in plan, GcDelete(d) PROVE RegistryMoves
  BY <1>15 DEF GcDelete, vars, registryVars, disk, gcVars
<1>16. CASE GcTombstone
  <2>1. entries' \subseteq entries /\ seq' = seq
    BY <1>16, TombstoneKeeps, Sizes
  <2>2. QED
    BY <1>16, <2>1
<1>17. CASE GcDone
  BY <1>17 DEF GcDone, GcStops, vars, registryVars, disk, gcVars
<1>18. CASE GcCrash
  BY <1>18, CrashKeeps, Zenon
<1>19. ASSUME NEW b \in bundles, Prune(b) PROVE RegistryMoves
  BY <1>19 DEF Prune, vars, registryVars, disk, gcVars
<1>22. ASSUME NEW h \in Hands, Evaluate(h) PROVE RegistryMoves
  BY <1>22 DEF Evaluate, vars, registryVars, disk, gcVars
<1>20. CASE UNCHANGED vars
  BY <1>20 DEF vars, registryVars, disk, gcVars
<1>21. QED
  BY <1>1, <1>2, <1>3, <1>4, <1>5, <1>6, <1>7, <1>8, <1>9, <1>10, <1>11,
     <1>12, <1>13, <1>14, <1>15, <1>16, <1>17, <1>18, <1>19, <1>20, <1>22 DEF Next,
     Step, Gc

-----------------------------------------------------------------------------
(* What a process in the middle of a round has on disk.                    *)


\* A process a step does not touch.
LEMMA Undisturbed ==
  ASSUME NEW q \in Procs, InHand(q), pc'[q] = pc[q], dataset'[q] = dataset[q],
         saved'[q] = saved[q], weights'[Dir(q)] = weights[Dir(q)],
         manifest'[Dir(q)] = manifest[Dir(q)],
         pc[q] = "register" /\ q \in Orchestrators =>
           ([id |-> dataset[q], dir |-> Dir(q)] \in bundles =>
              [id |-> dataset[q], dir |-> Dir(q)] \in bundles')
  PROVE  InHand(q)'
<1>1. Dir(q)' = Dir(q)
  BY DEF Dir
<1>2. QED
  BY <1>1 DEF InHand

\* Two processes work in different directories.
LEMMA Apart ==
  \A p, q \in Procs : p # q => Dir(p) # Dir(q)
  BY DEF Dir


\* A hand training that has an adapter does not export its dataset again.
LEMMA HandKeeps ==
  ASSUME Types, NEW p \in Procs, InHand(p), Tune(p), p \in Hands, manifest[Dir(p)] # 0
  PROVE  dataset'[p] = dataset[p]
<1>1. pc[p] = "tune" /\ dataset[p] = manifest[Dir(p)] /\ p \notin Loops
  BY TuneExports, FinetuneAssumption DEF InHand, Orchestrators
<1>2. QED
  BY <1>1, TuneExports DEF Exported

LEMMA ReadyStep ==
  Types /\ Ready /\ HandListed /\ StrippedRecorded /\ Planned /\ [Next]_vars => Ready'
<1> SUFFICES ASSUME Types /\ Ready /\ HandListed /\ StrippedRecorded /\ Planned,
                    [Next]_vars
             PROVE  Ready'
  OBVIOUS
<1>1. ASSUME NEW p \in Procs, Tune(p) PROVE Ready'
  <2> SUFFICES ASSUME NEW q \in Procs PROVE InHand(q)'
    BY DEF Ready
  <2>1. InHand(q)
    BY DEF Ready
  <2>2. /\ pc' = [pc EXCEPT ![p] = "dead"] \/ pc' = [pc EXCEPT ![p] = "train"]
        /\ UNCHANGED <<weights, manifest, saved>> /\ pc[p] = "tune"
        /\ bundles \subseteq bundles'
    <3>1. bundles \subseteq bundles'
      BY <1>1, TuneExports
    <3>2. QED
      BY <1>1, <3>1, TuneExports, Zenon
  <2>3. /\ dataset' = dataset \/ dataset' = [dataset EXCEPT ![p] = runs + 1]
        /\ pc' = [pc EXCEPT ![p] = "train"] => dataset[p] # 0 \/ Exported(p)
    <3>1. \/ dataset' = dataset /\ pc' = [pc EXCEPT ![p] = "dead"]
          \/ /\ pc' = [pc EXCEPT ![p] = "train"]
             /\ (dataset' = dataset /\ dataset[p] # 0) \/ Exported(p)
      BY <1>1, TuneExports, Zenon
    <3>2. pc' = [pc EXCEPT ![p] = "dead"] => pc' # [pc EXCEPT ![p] = "train"]
      BY Sizes
    <3>3. QED
      BY <3>1, <3>2, Zenon DEF Exported
  <2>4. CASE q # p
    <3>1. /\ pc'[q] = pc[q] /\ dataset'[q] = dataset[q] /\ saved'[q] = saved[q]
      BY <2>2, <2>3, <2>4 DEF Types
    <3>2. QED
      BY <2>1, <2>2, <3>1, Undisturbed
  <2>5. CASE q = p
    <3>1. Dir(p)' = Dir(p)
      BY <2>2 DEF Dir
    <3>2. pc'[p] \in {"dead", "train"} /\ (pc'[p] = "train" => dataset'[p] # 0)
      BY <2>2, <2>3, Sizes DEF Exported
    <3>3. p \in Hands /\ manifest[Dir(p)] # 0 => dataset'[p] = dataset[p]
      BY <2>1, <2>2, <2>5, <1>1, HandKeeps
    <3>4. InHand(p)'
      BY <2>1, <2>2, <2>5, <3>1, <3>2, <3>3 DEF InHand
    <3>5. QED
      BY <2>5, <3>4
  <2>6. QED
    BY <2>4, <2>5
<1>2. ASSUME NEW p \in Procs, Train(p) PROVE Ready'
  <2> SUFFICES ASSUME NEW q \in Procs PROVE InHand(q)'
    BY DEF Ready
  <2>1. InHand(q)
    BY DEF Ready
  <2>2. CASE q # p
    <3>1. /\ pc'[q] = pc[q] /\ dataset'[q] = dataset[q] /\ saved'[q] = saved[q]
          /\ weights'[Dir(q)] = weights[Dir(q)]
          /\ manifest'[Dir(q)] = manifest[Dir(q)] /\ bundles \subseteq bundles'
      BY <1>2, <2>2, Apart DEF Train, Goto, Types, disk
    <3>2. QED
      BY <2>1, <3>1, Undisturbed
  <2>3. CASE q = p
    <3>1. Dir(p)' = Dir(p)
      BY <1>2 DEF Train, Dir
    <3>2. InHand(p)'
      BY <1>2, <2>1, <2>3, <3>1, DirIn, Holds DEF Train, Goto, InHand, Citation, disk, Types, Steps
    <3>3. QED
      BY <2>3, <3>2
  <2>4. QED
    BY <2>2, <2>3
<1>3. ASSUME NEW p \in Procs, Stamp(p) PROVE Ready'
  <2> SUFFICES ASSUME NEW q \in Procs PROVE InHand(q)'
    BY DEF Ready
  <2>1. InHand(q)
    BY DEF Ready
  <2>2. CASE q # p
    <3>1. /\ pc'[q] = pc[q] /\ dataset'[q] = dataset[q] /\ saved'[q] = saved[q]
          /\ weights'[Dir(q)] = weights[Dir(q)]
          /\ manifest'[Dir(q)] = manifest[Dir(q)] /\ bundles \subseteq bundles'
      BY <1>3, <2>2, Apart DEF Stamp, Goto, Types, disk
    <3>2. QED
      BY <2>1, <3>1, Undisturbed
  <2>3. CASE q = p
    <3>1. Dir(p)' = Dir(p)
      BY <1>3 DEF Stamp, Dir
    <3>2. InHand(p)'
      BY <1>3, <2>1, <2>3, <3>1, DirIn, Holds DEF Stamp, Goto, InHand, Citation, disk, Types, Steps
    <3>3. QED
      BY <2>3, <3>2
  <2>4. QED
    BY <2>2, <2>3
<1>4. ASSUME NEW p \in Procs, Final(p) PROVE Ready'
  <2> SUFFICES ASSUME NEW q \in Procs PROVE InHand(q)'
    BY DEF Ready
  <2>1. InHand(q)
    BY DEF Ready
  <2>2. CASE q # p
    <3>1. /\ pc'[q] = pc[q] /\ dataset'[q] = dataset[q] /\ saved'[q] = saved[q]
          /\ weights'[Dir(q)] = weights[Dir(q)]
          /\ manifest'[Dir(q)] = manifest[Dir(q)] /\ bundles \subseteq bundles'
      BY <1>4, <2>2, Apart DEF Final, Goto, Types, disk
    <3>2. QED
      BY <2>1, <3>1, Undisturbed
  <2>3. CASE q = p
    <3>1. Dir(p)' = Dir(p)
      BY <1>4 DEF Final, Dir
    <3>2. InHand(p)'
      BY <1>4, <2>1, <2>3, <3>1, DirIn, Holds DEF Final, Goto, InHand, Citation, disk, Types, Steps
    <3>3. QED
      BY <2>3, <3>2
  <2>4. QED
    BY <2>2, <2>3
<1>5. ASSUME NEW p \in Procs, SkipFinal(p) PROVE Ready'
  <2> SUFFICES ASSUME NEW q \in Procs PROVE InHand(q)'
    BY DEF Ready
  <2>1. InHand(q)
    BY DEF Ready
  <2>2. CASE q # p
    <3>1. /\ pc'[q] = pc[q] /\ dataset'[q] = dataset[q] /\ saved'[q] = saved[q]
          /\ weights'[Dir(q)] = weights[Dir(q)]
          /\ manifest'[Dir(q)] = manifest[Dir(q)] /\ bundles \subseteq bundles'
      BY <1>5, <2>2, Apart DEF SkipFinal, Goto, Types, disk
    <3>2. QED
      BY <2>1, <3>1, Undisturbed
  <2>3. CASE q = p
    <3>1. Dir(p)' = Dir(p)
      BY <1>5 DEF SkipFinal, Dir
    <3>2. UNCHANGED <<weights, manifest, dataset, bundles>> /\ pc[p] = "final"
      BY <1>5 DEF SkipFinal, disk
    <3>3. pc'[p] = "register" /\ p \notin Orchestrators
      BY <1>5, Kinds DEF SkipFinal, Goto, Types
    <3>4. InHand(p)'
      BY <2>1, <2>3, <3>1, <3>2, <3>3 DEF InHand
    <3>5. QED
      BY <2>3, <3>4
  <2>4. QED
    BY <2>2, <2>3
<1>6. ASSUME NEW p \in Procs, Register(p) PROVE Ready'
  <2> SUFFICES ASSUME NEW q \in Procs PROVE InHand(q)'
    BY DEF Ready
  <2>1. InHand(q)
    BY DEF Ready
  <2>2. CASE q # p
    <3>1. /\ pc'[q] = pc[q] /\ dataset'[q] = dataset[q] /\ saved'[q] = saved[q]
          /\ weights'[Dir(q)] = weights[Dir(q)]
          /\ manifest'[Dir(q)] = manifest[Dir(q)] /\ bundles \subseteq bundles'
      BY <1>6, <2>2, Apart DEF Register, Goto, Types, disk
    <3>2. QED
      BY <2>1, <3>1, Undisturbed
  <2>3. CASE q = p
    <3>1. Dir(p)' = Dir(p) /\ pc'[p] \in {"save", "done", "dead"} /\ pc[p] = "register"
      BY <1>6, RegisterTells DEF Register, Dir, AfterRegister, Types
    <3>2. UNCHANGED <<weights, manifest, dataset, bundles>>
      BY <1>6 DEF Register, disk
    <3>3. InHand(p)'
      BY <2>1, <2>3, <3>1, <3>2 DEF InHand
    <3>4. QED
      BY <2>3, <3>3
  <2>4. QED
    BY <2>2, <2>3
<1>7. ASSUME NEW p \in Procs, RegisterFails(p) PROVE Ready'
  <2> SUFFICES ASSUME NEW q \in Procs PROVE InHand(q)'
    BY DEF Ready
  <2>1. InHand(q)
    BY DEF Ready
  <2>2. CASE q # p
    <3>1. /\ pc'[q] = pc[q] /\ dataset'[q] = dataset[q] /\ saved'[q] = saved[q]
          /\ weights'[Dir(q)] = weights[Dir(q)]
          /\ manifest'[Dir(q)] = manifest[Dir(q)] /\ bundles \subseteq bundles'
      BY <1>7, <2>2, Apart DEF RegisterFails, Goto, Types, disk
    <3>2. QED
      BY <2>1, <3>1, Undisturbed
  <2>3. CASE q = p
    <3>1. Dir(p)' = Dir(p)
      BY <1>7 DEF RegisterFails, Dir
    <3>2. InHand(p)'
      BY <1>7, <2>1, <2>3, <3>1, DirIn, Holds DEF RegisterFails, Goto, InHand, Citation, disk, Types, Steps
    <3>3. QED
      BY <2>3, <3>2
  <2>4. QED
    BY <2>2, <2>3
<1>8. ASSUME NEW p \in Orchestrators, NEW v \in {"accept", "reject"},
             Save(p, v)
      PROVE Ready'
  <2> SUFFICES ASSUME NEW q \in Procs PROVE InHand(q)'
    BY DEF Ready
  <2>1. InHand(q)
    BY DEF Ready
  <2>2. CASE q # p
    <3>1. /\ pc'[q] = pc[q] /\ dataset'[q] = dataset[q] /\ saved'[q] = saved[q]
          /\ weights'[Dir(q)] = weights[Dir(q)]
          /\ manifest'[Dir(q)] = manifest[Dir(q)] /\ bundles \subseteq bundles'
      BY <1>8, <2>2, Apart DEF Save, Goto, Types, disk, Procs
    <3>2. QED
      BY <2>1, <3>1, Undisturbed
  <2>3. CASE q = p
    <3>1. pc'[p] \in {"tune", "done"} /\ p \notin Hands
      BY <1>8, Kinds DEF Save, Goto, Types, Procs
    <3>2. InHand(p)'
      BY <3>1 DEF InHand
    <3>3. QED
      BY <2>3, <3>2
  <2>4. QED
    BY <2>2, <2>3
<1>9. ASSUME NEW p \in Procs, Crash(p) PROVE Ready'
  <2> SUFFICES ASSUME NEW q \in Procs PROVE InHand(q)'
    BY DEF Ready
  <2>1. InHand(q)
    BY DEF Ready
  <2>2. CASE q # p
    <3>1. /\ pc'[q] = pc[q] /\ dataset'[q] = dataset[q] /\ saved'[q] = saved[q]
          /\ weights'[Dir(q)] = weights[Dir(q)]
          /\ manifest'[Dir(q)] = manifest[Dir(q)] /\ bundles \subseteq bundles'
      BY <1>9, <2>2, Apart DEF Crash, Goto, Types, disk
    <3>2. QED
      BY <2>1, <3>1, Undisturbed
  <2>3. CASE q = p
    <3>1. Dir(p)' = Dir(p)
      BY <1>9 DEF Crash, Dir
    <3>2. InHand(p)'
      BY <1>9, <2>1, <2>3, <3>1, DirIn, Holds DEF Crash, Goto, InHand, Citation, disk, Types, Steps
    <3>3. QED
      BY <2>3, <3>2
  <2>4. QED
    BY <2>2, <2>3
<1>10. ASSUME NEW p \in Procs, Resume(p) PROVE Ready'
  <2> SUFFICES ASSUME NEW q \in Procs PROVE InHand(q)'
    BY DEF Ready
  <2>1. InHand(q)
    BY DEF Ready
  <2>2. CASE q # p
    <3>1. /\ pc'[q] = pc[q] /\ dataset'[q] = dataset[q] /\ saved'[q] = saved[q]
          /\ weights'[Dir(q)] = weights[Dir(q)]
          /\ manifest'[Dir(q)] = manifest[Dir(q)] /\ bundles \subseteq bundles'
      BY <1>10, <2>2, Apart DEF Resume, Goto, Types, disk
    <3>2. QED
      BY <2>1, <3>1, Undisturbed
  <2>3. CASE q = p
    <3>1. Dir(p)' = Dir(p)
      BY <1>10 DEF Resume, Dir
    <3>2. UNCHANGED <<weights, manifest, dataset, bundles>> /\ pc[p] = "dead"
      BY <1>10 DEF Resume, disk
    <3>3. pc'[p] = ResumesAt(p)
      BY <1>10 DEF Resume, Goto, Types
    <3>4. CASE p \in Hands /\ manifest[Dir(p)] # 0
      <4>1. pc'[p] = "final" /\ p \notin Orchestrators
        BY <3>3, <3>4, Kinds DEF ResumesAt
      <4>2. dataset[p] # 0 /\ weights[Dir(p)] = dataset[p] /\ manifest[Dir(p)] = dataset[p]
        BY <2>1, <2>3, <3>2, <3>4 DEF InHand
      <4>3. InHand(p)'
        BY <3>1, <3>2, <4>1, <4>2 DEF InHand
      <4>4. QED
        BY <2>3, <4>3
    <3>5. CASE ~(p \in Hands /\ manifest[Dir(p)] # 0)
      <4>1. pc'[p] = "tune"
        BY <3>3, <3>5 DEF ResumesAt
      <4>2. InHand(p)'
        BY <3>1, <3>2, <3>5, <4>1 DEF InHand
      <4>3. QED
        BY <2>3, <4>2
    <3>6. QED
      BY <3>4, <3>5
  <2>4. QED
    BY <2>2, <2>3
<1>11. ASSUME NEW p \in Procs, GoesOn(p) PROVE Ready'
  <2> SUFFICES ASSUME NEW q \in Procs PROVE InHand(q)'
    BY DEF Ready
  <2>1. InHand(q)
    BY DEF Ready
  <2>2. CASE q # p
    <3>1. /\ pc'[q] = pc[q] /\ dataset'[q] = dataset[q] /\ saved'[q] = saved[q]
          /\ weights'[Dir(q)] = weights[Dir(q)]
          /\ manifest'[Dir(q)] = manifest[Dir(q)] /\ bundles \subseteq bundles'
      BY <1>11, <2>2, Apart DEF GoesOn, Goto, Types, disk
    <3>2. QED
      BY <2>1, <3>1, Undisturbed
  <2>3. CASE q = p
    <3>1. pc'[p] = "tune" /\ p \notin Hands
      BY <1>11, Kinds DEF GoesOn, Goto, Types
    <3>2. InHand(p)'
      BY <3>1 DEF InHand
    <3>3. QED
      BY <2>3, <3>2
  <2>4. QED
    BY <2>2, <2>3
<1>12. CASE GcLoad
  <2> SUFFICES ASSUME NEW q \in Procs PROVE InHand(q)'
    BY DEF Ready
  <2>1. InHand(q)
    BY DEF Ready
  <2>2. UNCHANGED <<pc, dataset, saved, weights, manifest, bundles>>
    BY <1>12 DEF GcLoad, disk
  <2>3. QED
    BY <2>1, <2>2, Undisturbed
<1>13. CASE GcBundles
  <2> SUFFICES ASSUME NEW q \in Procs PROVE InHand(q)'
    BY DEF Ready
  <2>1. InHand(q)
    BY DEF Ready
  <2>2. UNCHANGED <<pc, dataset, saved, weights, manifest, bundles>>
    BY <1>13 DEF GcBundles, disk
  <2>3. QED
    BY <2>1, <2>2, Undisturbed
<1>14. CASE GcJournals
  <2> SUFFICES ASSUME NEW q \in Procs PROVE InHand(q)'
    BY DEF Ready
  <2>1. InHand(q)
    BY DEF Ready
  <2>2. UNCHANGED <<pc, dataset, saved, weights, manifest, bundles>>
    BY <1>14 DEF GcJournals, disk
  <2>3. QED
    BY <2>1, <2>2, Undisturbed
<1>15. ASSUME NEW d \in plan, GcDelete(d) PROVE Ready'
  <2> SUFFICES ASSUME NEW q \in Procs PROVE InHand(q)'
    BY DEF Ready
  <2>1. InHand(q)
    BY DEF Ready
  <2>2. /\ UNCHANGED <<pc, dataset, saved, bundles>>
        /\ weights' = [weights EXCEPT ![d.dir] = 0]
        /\ manifest' = [manifest EXCEPT ![d.dir] = 0]
    BY <1>15 DEF GcDelete
  <2>3. CASE Dir(q) # d.dir
    <3>1. weights'[Dir(q)] = weights[Dir(q)] /\ manifest'[Dir(q)] = manifest[Dir(q)]
      BY <2>2, <2>3 DEF Types
    <3>2. QED
      BY <2>1, <2>2, <3>1, Undisturbed
  <2>4. CASE Dir(q) = d.dir
    <3>1. d.dir[1] = q /\ d.dir[1] \in Hands /\ d \in Known
      <4>1. d.dir[1] = q /\ d.dir[2] = Len(saved[q]) + 1 /\ Len(saved[q]) \in Nat
        BY <2>4 DEF Dir, Types
      <4>2. d.dir \notin stripped
        BY <4>1 DEF StrippedRecorded, Recorded
      <4>3. QED
        BY <4>1, <4>2 DEF Planned, Deletes, Owner, Known
    <3>2. pc'[q] = "done" /\ pc[q] = "done"
      BY <2>2, <3>1 DEF HandListed, Owner
    <3>3. QED
      BY <2>1, <2>2, <3>2 DEF InHand
  <2>5. QED
    BY <2>3, <2>4
<1>16. CASE GcTombstone
  <2> SUFFICES ASSUME NEW q \in Procs PROVE InHand(q)'
    BY DEF Ready
  <2>1. InHand(q)
    BY DEF Ready
  <2>2. UNCHANGED <<pc, dataset, saved, weights, manifest, bundles>>
    BY <1>16 DEF GcTombstone, disk
  <2>3. QED
    BY <2>1, <2>2, Undisturbed
<1>17. CASE GcDone
  <2> SUFFICES ASSUME NEW q \in Procs PROVE InHand(q)'
    BY DEF Ready
  <2>1. InHand(q)
    BY DEF Ready
  <2>2. UNCHANGED <<pc, dataset, saved, weights, manifest, bundles>>
    BY <1>17 DEF GcDone, disk, GcStops
  <2>3. QED
    BY <2>1, <2>2, Undisturbed
<1>18. CASE GcCrash
  <2> SUFFICES ASSUME NEW q \in Procs PROVE InHand(q)'
    BY DEF Ready
  <2>1. InHand(q)
    BY DEF Ready
  <2>2. UNCHANGED <<pc, dataset, saved, weights, manifest, bundles>>
    BY <1>18 DEF GcCrash, disk, GcStops
  <2>3. QED
    BY <2>1, <2>2, Undisturbed
<1>19. ASSUME NEW b \in bundles, Prune(b) PROVE Ready'
  <2> SUFFICES ASSUME NEW q \in Procs PROVE InHand(q)'
    BY DEF Ready
  <2>1. InHand(q)
    BY DEF Ready
  <2>2. UNCHANGED <<pc, dataset, saved, weights, manifest>> /\ bundles' = bundles \ {b}
    BY <1>19 DEF Prune, disk
  <2>3. b.dir # Dir(q)
    <3>1. b.dir[2] <= Len(saved[b.dir[1]])
      BY <1>19 DEF Prune, Recorded
    <3>2. Dir(q)[1] = q /\ Dir(q)[2] = Len(saved[q]) + 1 /\ Len(saved[q]) \in Nat
      BY DEF Dir, Types
    <3>3. QED
      BY <3>1, <3>2
  <2>4. [id |-> dataset[q], dir |-> Dir(q)] \in bundles =>
          [id |-> dataset[q], dir |-> Dir(q)] \in bundles'
    BY <2>2, <2>3
  <2>5. QED
    BY <2>1, <2>2, <2>4, Undisturbed
<1>22. ASSUME NEW h \in Hands, Evaluate(h) PROVE Ready'
  <2> SUFFICES ASSUME NEW q \in Procs PROVE InHand(q)'
    BY DEF Ready
  <2>1. InHand(q)
    BY DEF Ready
  <2>2. UNCHANGED <<pc, dataset, saved, weights, manifest>> /\ bundles \subseteq bundles'
    BY <1>22 DEF Evaluate, disk
  <2>3. QED
    BY <2>1, <2>2, Undisturbed
<1>20. CASE UNCHANGED vars
  <2> SUFFICES ASSUME NEW q \in Procs PROVE InHand(q)'
    BY DEF Ready
  <2>1. InHand(q)
    BY DEF Ready
  <2>2. UNCHANGED <<pc, dataset, saved, weights, manifest, bundles>>
    BY <1>20 DEF vars, disk
  <2>3. QED
    BY <2>1, <2>2, Undisturbed
<1>21. QED
  BY <1>1, <1>2, <1>3, <1>4, <1>5, <1>6, <1>7, <1>8, <1>9, <1>10, <1>11,
     <1>12, <1>13, <1>14, <1>15, <1>16, <1>17, <1>18, <1>19, <1>20, <1>22 DEF Next,
     Step, Gc

-----------------------------------------------------------------------------
(* What is recorded survives.                                              *)

\* A round that a step adds to the record is the one its process was at.
SavedGrows ==
  /\ \A q \in Procs : \A k \in 1..Len(saved'[q]) :
       \/ k <= Len(saved[q]) /\ saved'[q][k] = saved[q][k]
       \/ /\ pc[q] = "save" /\ k = Len(saved[q]) + 1
          /\ saved'[q][k] = dataset[q] /\ saved' # saved
  /\ \A q \in Procs : \A k \in 1..Len(saved[q]) :
       k <= Len(saved'[q]) /\ saved'[q][k] = saved[q][k]

LEMMA GrowsStep == Types /\ [Next]_vars => SavedGrows
<1> SUFFICES ASSUME Types, [Next]_vars PROVE SavedGrows
  OBVIOUS
<1>1. CASE saved' = saved
  BY <1>1 DEF SavedGrows
<1>2. ASSUME NEW p \in Orchestrators, pc[p] = "save",
             saved' = [saved EXCEPT ![p] = Append(@, dataset[p])], saved' # saved
      PROVE  SavedGrows
  <2>1. p \in Procs /\ saved \in [Procs -> Seq(1..MaxRuns)]
    BY DEF Types, Procs
  <2>2. \A q \in Procs : q # p => saved'[q] = saved[q]
    BY <1>2, <2>1
  <2>3. saved'[p] = Append(saved[p], dataset[p]) /\ saved[p] \in Seq(1..MaxRuns)
    BY <1>2, <2>1
  <2>4. /\ Len(saved'[p]) = Len(saved[p]) + 1 /\ Len(saved[p]) \in Nat
        /\ saved'[p][Len(saved[p]) + 1] = dataset[p]
        /\ \A k \in 1..Len(saved[p]) : saved'[p][k] = saved[p][k]
    BY <2>3
  <2>5. QED
    BY <1>2, <2>2, <2>4 DEF SavedGrows
<1>3. QED
  BY <1>1, <1>2, SavedStep DEF SavedStays

\* The directory of a recorded round, and that a process at work is past it.
LEMMA RecordedIn ==
  ASSUME Types, NEW q \in Procs, NEW k \in 1..Len(saved[q])
  PROVE  /\ <<q, k>> \in Dirs /\ saved[q][k] \in 1..MaxRuns
         /\ \A p \in Procs : <<q, k>> # Dir(p)
<1>1. saved[q] \in Seq(1..MaxRuns) /\ Len(saved[q]) <= RoundsOf(q)
  BY DEF Types
<1>2. <<q, k>> \in Dirs
  BY <1>1, RoundFacts, DirIs
<1>3. saved[q][k] \in 1..MaxRuns /\ Len(saved[q]) \in Nat
  <2>1. Len(saved[q]) \in Nat
    BY <1>1
  <2>2. \A S : \A s \in Seq(S) : \A n \in 1..Len(s) : s[n] \in S
    BY ElementOfSeq
  <2>3. saved[q][k] \in 1..MaxRuns
    BY <1>1, <2>2, Zenon
  <2>4. QED
    BY <2>1, <2>3
<1>4. ASSUME NEW p \in Procs PROVE <<q, k>> # Dir(p)
  <2>1. <<q, k>> # <<q, Len(saved[q]) + 1>>
    BY <1>3
  <2>2. QED
    BY <2>1 DEF Dir
<1>5. QED
  BY <1>2, <1>3, <1>4

\* A recorded round stays recorded.
LEMMA StaysRecorded ==
  ASSUME Types, [Next]_vars, NEW d \in Dirs, Recorded(d)
  PROVE  Recorded(d)'
<1>1. d[1] \in Procs /\ d[2] \in Nat \ {0}
  BY DirFacts, RoundFacts
<1>2. d[2] \in 1..Len(saved[d[1]])
  BY <1>1 DEF Recorded, Types
<1>3. QED
  BY <1>1, <1>2, GrowsStep DEF SavedGrows, Recorded

\* Exemptions are never taken back, and one is for a recorded round.
ExemptGrows ==
  /\ stripped \subseteq stripped' /\ late \subseteq late'
  /\ \A d \in stripped' : d \in stripped \/ Recorded(d)

LEMMA ExemptStep == Types /\ [Next]_vars => ExemptGrows
<1> SUFFICES ASSUME Types, [Next]_vars PROVE ExemptGrows
  OBVIOUS
<1> USE DEF ExemptGrows, exempt
<1>1. ASSUME NEW p \in Procs, Tune(p) PROVE ExemptGrows
  BY <1>1, TuneExports
<1>2. ASSUME NEW p \in Procs, Train(p) PROVE ExemptGrows
  BY <1>2 DEF Train, Goto, vars, registryVars, disk, gcVars
<1>3. ASSUME NEW p \in Procs, Stamp(p) PROVE ExemptGrows
  BY <1>3 DEF Stamp, Goto, vars, registryVars, disk, gcVars
<1>4. ASSUME NEW p \in Procs, Final(p) PROVE ExemptGrows
  BY <1>4 DEF Final, Goto, vars, registryVars, disk, gcVars
<1>5. ASSUME NEW p \in Procs, SkipFinal(p) PROVE ExemptGrows
  BY <1>5 DEF SkipFinal, Goto, vars, registryVars, disk, gcVars
<1>6. ASSUME NEW p \in Procs, Register(p) PROVE ExemptGrows
  BY <1>6 DEF Register, Goto, AppendEvent, AfterAppend, Registered, Reads,
     Ids, AfterRegister, vars, registryVars, disk, gcVars
<1>7. ASSUME NEW p \in Procs, RegisterFails(p) PROVE ExemptGrows
  BY <1>7 DEF RegisterFails, Goto, vars, registryVars, disk, gcVars
<1>8. ASSUME NEW p \in Orchestrators, NEW v \in {"accept", "reject"},
             Save(p, v)
      PROVE ExemptGrows
  BY <1>8 DEF Save, Goto, Ends, vars, registryVars, disk, gcVars
<1>9. ASSUME NEW p \in Procs, Crash(p) PROVE ExemptGrows
  BY <1>9 DEF Crash, Goto, vars, registryVars, disk, gcVars
<1>10. ASSUME NEW p \in Procs, Resume(p) PROVE ExemptGrows
  BY <1>10 DEF Resume, Goto, ResumesAt, vars, registryVars, disk, gcVars
<1>11. ASSUME NEW p \in Procs, GoesOn(p) PROVE ExemptGrows
  BY <1>11 DEF GoesOn, Goto, vars, registryVars, disk, gcVars
<1>12. CASE GcLoad
  BY <1>12 DEF GcLoad, vars, registryVars, disk, gcVars
<1>13. CASE GcBundles
  BY <1>13 DEF GcBundles, vars, registryVars, disk, gcVars
<1>14. CASE GcJournals
  BY <1>14 DEF GcJournals, Deletable, Superseded, vars, registryVars, disk,
     gcVars
<1>15. ASSUME NEW d \in plan, GcDelete(d) PROVE ExemptGrows
  BY <1>15 DEF GcDelete, vars, registryVars, disk, gcVars
<1>16. CASE GcTombstone
  BY <1>16 DEF GcTombstone, AppendEvent, AfterAppend, vars, registryVars,
     disk, gcVars
<1>17. CASE GcDone
  BY <1>17 DEF GcDone, GcStops, vars, registryVars, disk, gcVars
<1>18. CASE GcCrash
  BY <1>18 DEF GcCrash, GcStops, vars, registryVars, disk, gcVars
<1>19. ASSUME NEW b \in bundles, Prune(b) PROVE ExemptGrows
  <2>1. /\ late' = late /\ Recorded(b.dir)
        /\ stripped' = stripped \/ stripped' = stripped \cup {b.dir}
    BY <1>19 DEF Prune
  <2>2. QED
    BY <2>1
<1>22. ASSUME NEW h \in Hands, Evaluate(h) PROVE ExemptGrows
  <2>1. stripped' = stripped /\ late \subseteq late'
    BY <1>22 DEF Evaluate
  <2>2. QED
    BY <2>1
<1>20. CASE UNCHANGED vars
  BY <1>20 DEF vars
<1>21. QED
  BY <1>1, <1>2, <1>3, <1>4, <1>5, <1>6, <1>7, <1>8, <1>9, <1>10, <1>11,
     <1>12, <1>13, <1>14, <1>15, <1>16, <1>17, <1>18, <1>19, <1>20, <1>22 DEF Next,
     Step, Gc

LEMMA StrippedStep ==
  Types /\ Ready /\ StrippedRecorded /\ [Next]_vars => StrippedRecorded'
<1> SUFFICES ASSUME Types, Ready, StrippedRecorded, [Next]_vars, NEW d \in stripped'
             PROVE  Recorded(d)'
  BY DEF StrippedRecorded, Recorded
<1>1. Recorded(d)
  BY ExemptStep DEF ExemptGrows, StrippedRecorded
<1>2. d \in Dirs
  BY TypeStep DEF Types
<1>3. QED
  BY <1>1, <1>2, StaysRecorded

\* What gc-adapters deletes is a hand training's or was stripped of a bundle.
LEMMA DeletesThese ==
  ASSUME Types, Planned, NEW d \in plan
  PROVE  /\ d \in Known /\ d.dir \in Dirs /\ d.dir[1] \in Procs
         /\ \/ d.dir \in stripped
            \/ /\ d.dir[1] \in Hands /\ d.dir[1] \notin Orchestrators
               /\ d.dir \in late \/ \A b \in bundles : b.dir # d.dir
<1>1. d \in Known /\ Deletes(d)
  BY DEF Planned, Known
<1>2. QED
  BY <1>1, Sizes, Kinds DEF Deletes, Bare, Owner

\* What the step leaves of the directory of a recorded round.
LEMMA DirStays ==
  ASSUME Types, Planned, [Next]_vars, NEW q \in Orchestrators,
         NEW k \in 1..Len(saved[q]), <<q, k>> \notin stripped
  PROVE  weights'[<<q, k>>] = weights[<<q, k>>] /\ manifest'[<<q, k>>] = manifest[<<q, k>>]
<1>1. q \in Procs
  BY DEF Procs
<1>2. <<q, k>> \in Dirs /\ \A p \in Procs : <<q, k>> # Dir(p)
  BY <1>1, RecordedIn
<1>3. weights \in [Dirs -> 0..MaxRuns] /\ manifest \in [Dirs -> 0..MaxRuns]
  BY DEF Types
<1>4. ASSUME NEW p \in Procs, Train(p) \/ Stamp(p),
             weights' = [weights EXCEPT ![Dir(p)] = dataset[p]] \/ weights' = weights,
             manifest' = [manifest EXCEPT ![Dir(p)] = dataset[p]] \/ manifest' = manifest
      PROVE  weights'[<<q, k>>] = weights[<<q, k>>] /\ manifest'[<<q, k>>] = manifest[<<q, k>>]
  BY <1>2, <1>3, <1>4
<1>5. ASSUME NEW d \in plan, weights' = [weights EXCEPT ![d.dir] = 0],
             manifest' = [manifest EXCEPT ![d.dir] = 0]
      PROVE  weights'[<<q, k>>] = weights[<<q, k>>] /\ manifest'[<<q, k>>] = manifest[<<q, k>>]
  <2>1. d.dir # <<q, k>>
    BY DeletesThese
  <2>2. QED
    BY <1>2, <1>3, <1>5, <2>1
<1>6. QED
  BY <1>4, <1>5, DiskStep DEF DiskMoves

LEMMA RecordedStep ==
  Types /\ Ready /\ Planned /\ RecordedSurvive /\ [Next]_vars => RecordedSurvive'
<1> SUFFICES ASSUME Types, Ready, Planned, RecordedSurvive, [Next]_vars,
                    NEW q \in Orchestrators, NEW k \in 1..Len(saved'[q]),
                    <<q, k>> \notin stripped'
             PROVE  weights'[<<q, k>>] = saved'[q][k] /\ manifest'[<<q, k>>] = saved'[q][k]
  BY DEF RecordedSurvive, RecordStands
<1>1. q \in Procs /\ Len(saved[q]) \in Nat /\ <<q, k>> \notin stripped
  <2>1. q \in Procs /\ <<q, k>> \notin stripped
    BY ExemptStep DEF Procs, ExemptGrows
  <2>2. QED
    BY <2>1 DEF Types
<1>2. CASE k <= Len(saved[q]) /\ saved'[q][k] = saved[q][k]
  <2>1. k \in 1..Len(saved[q])
    <3>1. k \in Nat \ {0}
      OBVIOUS
    <3>2. QED
      BY <1>1, <1>2, <3>1
  <2>2. QED
    BY <1>1, <1>2, <2>1, DirStays DEF RecordedSurvive, RecordStands
<1>3. CASE /\ pc[q] = "save" /\ k = Len(saved[q]) + 1
           /\ saved'[q][k] = dataset[q] /\ saved' # saved
  <2>1. <<q, k>> = Dir(q)
    BY <1>3 DEF Dir
  <2>2. weights[Dir(q)] = dataset[q] /\ manifest[Dir(q)] = dataset[q]
    BY <1>1, <1>3 DEF Ready, InHand
  <2>3. weights' = weights /\ manifest' = manifest
    BY <1>3, DiskStep DEF DiskMoves, Train, Stamp, GcDelete
  <2>4. QED
    BY <1>3, <2>1, <2>2, <2>3
<1>4. QED
  BY <1>1, <1>2, <1>3, GrowsStep DEF SavedGrows

LEMMA HandWholeStep == Types /\ Ready /\ HandWhole /\ [Next]_vars => HandWhole'
<1> SUFFICES ASSUME Types, Ready, HandWhole, [Next]_vars, NEW h \in Hands,
                    manifest'[<<h, 1>>] # 0
             PROVE  weights'[<<h, 1>>] # 0
  BY DEF HandWhole
<1>1. <<h, 1>> \in Dirs
  BY RoundFacts, DirIs DEF Procs
<1>2. weights \in [Dirs -> 0..MaxRuns] /\ manifest \in [Dirs -> 0..MaxRuns]
  BY DEF Types
<1>3. manifest[<<h, 1>>] # 0 => weights[<<h, 1>>] # 0
  BY DEF HandWhole
<1>4. ASSUME NEW p \in Procs, Train(p), manifest' = manifest,
             weights' = [weights EXCEPT ![Dir(p)] = dataset[p]]
      PROVE  weights'[<<h, 1>>] # 0
  <2>1. dataset[p] # 0
    BY <1>4, Holds DEF Train
  <2>2. QED
    BY <1>1, <1>2, <1>3, <1>4, <2>1
<1>5. ASSUME NEW p \in Procs, Stamp(p), weights' = weights,
             manifest' = [manifest EXCEPT ![Dir(p)] = dataset[p]]
      PROVE  weights'[<<h, 1>>] # 0
  <2>1. weights[Dir(p)] = dataset[p] /\ dataset[p] # 0
    BY <1>5 DEF Stamp, Ready, InHand
  <2>2. QED
    BY <1>1, <1>2, <1>3, <1>5, <2>1
<1>6. ASSUME NEW d \in plan, manifest' = [manifest EXCEPT ![d.dir] = 0],
             weights' = [weights EXCEPT ![d.dir] = 0]
      PROVE  weights'[<<h, 1>>] # 0
  BY <1>1, <1>2, <1>3, <1>6
<1>7. QED
  BY <1>3, <1>4, <1>5, <1>6, DiskStep DEF DiskMoves

-----------------------------------------------------------------------------
(* What is listed, and what cites it.                                      *)

\* A registration is not of a recorded round.
LEMMA NewElsewhere ==
  ASSUME Types, Ready, NEW p \in Procs, Register(p), NEW d \in Dirs, Recorded(d)
  PROVE  New(p).dir # d
<1>1. New(p).dir = <<p, Len(saved[p]) + 1>> /\ Len(saved[p]) \in Nat
  <2>1. New(p).dir = <<p, Len(saved[p]) + 1>>
    BY NewIs, Zenon
  <2>2. saved[p] \in Seq(1..MaxRuns)
    BY DEF Types
  <2>3. QED
    BY <2>1, <2>2, LenProperties
<1>2. SUFFICES ASSUME d = <<p, Len(saved[p]) + 1>> PROVE FALSE
  BY <1>1
<1>3. d[1] = p /\ d[2] = Len(saved[p]) + 1
  BY <1>2
<1>4. Len(saved[p]) + 1 <= Len(saved[p])
  BY <1>3 DEF Recorded
<1>5. QED
  BY <1>1, <1>4

\* A loop registers an adapter that nobody knows.
LEMMA NewOfLoop ==
  ASSUME Types, Ready, Fresh, Unlisted, NEW p \in Procs, Register(p),
         NEW e \in Known, New(p).id = e.id
  PROVE  p \notin Loops /\ Owner(e) = p
<1>1. pc[p] = "register" /\ e.id = dataset[p]
  BY NewIs DEF Register
<1>2. QED
  BY <1>1 DEF Fresh, Unlisted

\* What a tombstone takes out of the registry is a hand training's, or goes
\* with a bundle that was deleted.
LEMMA Buried ==
  ASSUME Types, Fresh, HandListed, OneAdapter, Listed, Planned, GcTombstone,
         NEW e \in Known, e.id \in Ids(seen), Owner(e) \in Orchestrators
  PROVE  e.dir \in stripped
<1>1. PICK s \in seen : s.id = e.id
  BY DEF Ids
<1>2. s \in plan /\ s \in Known /\ Owner(s) \in Procs /\ Owner(e) \in Procs
  <2>1. s \in plan /\ s \in Known
    BY <1>1 DEF GcTombstone, Planned, Known
  <2>2. QED
    BY <2>1, Sizes DEF Owner
<1>3. CASE Owner(s) \in Hands
  <2>1. e.id = dataset[Owner(s)]
    BY <1>1, <1>2, <1>3 DEF HandListed
  <2>2. Owner(e) = Owner(s)
    BY <1>2, <2>1 DEF Fresh
  <2>3. QED
    BY <1>2, <1>3, <2>2, Kinds
<1>4. CASE Owner(s) \in Campaigns
  <2>1. e.id = dataset[Owner(s)]
    BY <1>1, <1>2, <1>4 DEF OneAdapter
  <2>2. Owner(e) = Owner(s)
    BY <1>2, <2>1 DEF Fresh
  <2>3. Owner(s) \notin Loops /\ Owner(s) \notin Hands
    BY <1>4, FinetuneAssumption DEF Orchestrators
  <2>4. \A k \in 1..RoundsOf(Owner(s)) : k = 1
    BY <1>2, <2>3, RoundFacts
  <2>5. e.dir = s.dir
    BY <1>2, <2>2, <2>4, Sizes, DirFacts DEF Owner
  <2>6. QED
    BY <1>2, <2>3, <2>5 DEF Planned, Deletes
<1>5. CASE Owner(s) \in Loops
  <2>1. e = s /\ Owner(s) \notin Hands
    BY <1>1, <1>2, <1>5, Kinds DEF Listed
  <2>2. QED
    BY <1>2, <2>1 DEF Planned, Deletes
<1>6. QED
  BY <1>2, <1>3, <1>4, <1>5, Kinds DEF Orchestrators

\* Replacing the entry of an id keeps every id listed.
LEMMA RegisteredLists ==
  ASSUME NEW id, NEW dir
  PROVE  Ids(entries) \cup {id} \subseteq Ids(Registered(id, dir))
<1>1. [id |-> id, dir |-> dir, seq |-> seq + 1] \in Registered(id, dir)
  BY DEF Registered
<1>2. ASSUME NEW e \in entries PROVE e.id \in Ids(Registered(id, dir))
  <2>1. CASE e.id = id
    BY <1>1, <2>1 DEF Ids
  <2>2. CASE e.id # id
    BY <2>2 DEF Registered, Ids
  <2>3. QED
    BY <2>1, <2>2
<1>3. id \in Ids(Registered(id, dir))
  BY <1>1 DEF Ids
<1>4. QED
  BY <1>2, <1>3 DEF Ids

\* An id leaves the registry by a tombstone only.
LEMMA IdsStay ==
  ASSUME Types, [Next]_vars, NEW i \in Ids(entries), i \notin Ids(entries')
  PROVE  GcTombstone /\ i \in Ids(seen)
<1>1. CASE GcTombstone
  <2>1. PICK e \in entries : e.id = i
    BY DEF Ids
  <2>2. QED
    BY <1>1, <2>1, TombstoneKeeps, Sizes DEF Ids
<1>2. CASE ~GcTombstone
  BY <1>2, RegistryStep, RegisteredLists DEF RegistryMoves
<1>3. QED
  BY <1>1, <1>2

LEMMA ListedStep ==
  Types /\ Ready /\ Fresh /\ Unlisted /\ HandListed /\ OneAdapter /\ Listed /\ Planned
    /\ [Next]_vars => Listed'
<1> SUFFICES ASSUME Types, Ready, Fresh, Unlisted, HandListed, OneAdapter, Listed,
                    Planned, [Next]_vars, NEW e \in Known', Owner(e) \in Orchestrators
             PROVE  /\ e.id \in Ids(entries') \/ e.dir \in stripped'
                    /\ Owner(e) \in Loops => \A o \in Known' : o.id = e.id => o = e
  BY DEF Listed, Owner, Ids
<1>1. e.id \in Ids(entries') \/ e.dir \in stripped'
  <2>1. CASE e \in Known
    <3>1. CASE e.dir \in stripped
      BY <3>1, ExemptStep DEF ExemptGrows
    <3>2. CASE e.id \in Ids(entries) /\ e.id \notin Ids(entries')
      <4>1. e.dir \in stripped
        BY <2>1, <3>2, IdsStay, Buried
      <4>2. QED
        BY <4>1, ExemptStep DEF ExemptGrows
    <3>3. QED
      BY <2>1, <3>1, <3>2 DEF Listed
  <2>2. ASSUME NEW p \in Procs, Register(p), e = New(p), entries' # entries
        PROVE  e.id \in Ids(entries')
    <3>1. entries' = Registered(manifest[Dir(p)], Dir(p)) /\ e.id = manifest[Dir(p)]
      BY <2>2, RegisterKeeps DEF New
    <3>2. QED
      BY <3>1, RegisteredLists
  <2>3. QED
    BY <2>1, <2>2, KnownStep DEF KnownGrows
<1>2. ASSUME Owner(e) \in Loops, NEW o \in Known', o.id = e.id PROVE o = e
  <2>1. CASE e \in Known /\ o \in Known
    BY <1>2, <2>1 DEF Listed
  <2>2. ASSUME e \in Known, NEW p \in Procs, Register(p), o = New(p) PROVE FALSE
    BY <1>2, <2>2, NewOfLoop
  <2>3. ASSUME o \in Known, NEW p \in Procs, Register(p), e = New(p) PROVE FALSE
    <3>1. Owner(e) = p
      BY <2>3, NewIs DEF Owner
    <3>2. QED
      BY <1>2, <2>3, <3>1, NewOfLoop
  <2>4. ASSUME NEW p \in Procs, Register(p), e = New(p),
               NEW q \in Procs, Register(q), o = New(q)
        PROVE  o = e
    <3>1. dataset[p] = dataset[q] /\ dataset[p] # 0
      BY <1>2, <2>4, NewIs
    <3>2. p = q
      BY <3>1 DEF Fresh
    <3>3. QED
      BY <2>4, <3>2
  <2>5. QED
    BY <2>1, <2>2, <2>3, <2>4, KnownStep DEF KnownGrows
<1>3. QED
  BY <1>1, <1>2

\* state.json keeps citing the entry that its directory is known by.
LEMMA StaysInState ==
  ASSUME Types, Ready, [Next]_vars, NEW e \in Known, InState(e)
  PROVE  InState(e)'
<1>1. e.dir \in Dirs /\ Owner(e) \in Procs /\ Owner(e) \in Loops /\ Recorded(e.dir)
  <2>1. e.dir \in Dirs /\ Owner(e) \in Procs
    BY Sizes DEF Owner
  <2>2. QED
    BY <2>1, Kinds DEF InState, Recorded, Owner
<1>2. Recorded(e.dir)'
  BY <1>1, StaysRecorded
<1>3. ASSUME NEW o \in Known', o.dir = e.dir PROVE o.seq <= e.seq
  <2>1. CASE o \in Known
    BY <1>3, <2>1 DEF InState
  <2>2. ASSUME NEW p \in Procs, Register(p), o = New(p) PROVE FALSE
    BY <1>1, <1>3, <2>2, NewElsewhere
  <2>3. QED
    BY <2>1, <2>2, KnownStep DEF KnownGrows
<1>4. QED
  BY <1>1, <1>2, <1>3 DEF InState, Recorded, Owner

\* An operator who deletes the bundle of an adapter leaves it cited by
\* state.json, or strips the directory.
LEMMA PruneLeaves ==
  ASSUME Types, Listed, NEW e \in Known, Owner(e) \in Orchestrators,
         Prune([id |-> e.id, dir |-> e.dir])
  PROVE  InState(e) \/ e.dir \in stripped'
<1> DEFINE b == [id |-> e.id, dir |-> e.dir]
<1>1. b.id = e.id /\ b.dir = e.dir /\ b.dir[1] = Owner(e)
  BY DEF Owner
<1>2. Recorded(e.dir) /\ stripped' = IF AloneCites(b) THEN stripped \cup {e.dir} ELSE stripped
  BY DEF Prune
<1> HIDE DEF b
<1>3. CASE AloneCites(b)
  BY <1>2, <1>3
<1>4. CASE e.id \notin Ids(entries)
  BY <1>2, <1>4 DEF Listed
<1>5. CASE Owner(e) \in Loops /\ e.id \in IdsOfDir(entries, e.dir) /\ e.dir \notin stripped
  <2>1. PICK f \in entries : /\ f.id = e.id /\ f.dir = e.dir
                             /\ \A o \in entries : o.dir = e.dir => o.seq <= f.seq
    BY <1>5 DEF IdsOfDir
  <2>2. f = e
    BY <1>5, <2>1 DEF Listed, Known
  <2>3. ASSUME NEW o \in Known, o.dir = e.dir PROVE o \in entries
    <3>1. Owner(o) = Owner(e) /\ o.id \in Ids(entries)
      BY <1>5, <2>3 DEF Listed, Owner
    <3>2. PICK g \in entries : g.id = o.id
      BY <3>1 DEF Ids
    <3>3. g = o
      BY <1>5, <2>3, <3>1, <3>2 DEF Listed, Known
    <3>4. QED
      BY <3>2, <3>3
  <2>4. QED
    BY <1>2, <1>5, <2>1, <2>2, <2>3 DEF InState, Recorded, Owner
<1>6. QED
  BY <1>1, <1>2, <1>3, <1>4, <1>5 DEF AloneCites

LEMMA CitedOrInStateStep ==
  Types /\ Ready /\ Listed /\ CitedOrInState /\ [Next]_vars => CitedOrInState'
<1> SUFFICES ASSUME Types, Ready, Listed, CitedOrInState, [Next]_vars,
                    NEW e \in Known', Owner(e) \in Orchestrators
             PROVE  [id |-> e.id, dir |-> e.dir] \in bundles' \/ InState(e)'
                      \/ e.dir \in stripped'
  BY DEF CitedOrInState, Owner
<1>1. CASE e \in Known
  <2>1. CASE InState(e)
    BY <1>1, <2>1, StaysInState
  <2>2. CASE [id |-> e.id, dir |-> e.dir] \in bundles
    <3>1. ASSUME Prune([id |-> e.id, dir |-> e.dir]) PROVE InState(e)' \/ e.dir \in stripped'
      BY <1>1, <3>1, PruneLeaves, StaysInState
    <3>2. QED
      BY <2>2, <3>1, PrunedStep DEF BundlesShrink
  <2>3. CASE e.dir \in stripped
    BY <2>3, ExemptStep DEF ExemptGrows
  <2>4. QED
    BY <1>1, <2>1, <2>2, <2>3 DEF CitedOrInState
<1>2. ASSUME NEW p \in Procs, Register(p), e = New(p)
      PROVE  [id |-> e.id, dir |-> e.dir] \in bundles'
  <2>1. e.id = dataset[p] /\ e.dir = Dir(p) /\ Owner(e) = p
    BY <1>2, NewIs DEF Owner
  <2>2. pc[p] = "register" /\ bundles' = bundles
    BY <1>2 DEF Register
  <2>3. QED
    BY <2>1, <2>2 DEF Ready, InHand
<1>3. QED
  BY <1>1, <1>2, KnownStep DEF KnownGrows

LEMMA HandsOnceStep ==
  Types /\ Ready /\ HandListed /\ HandsOnce /\ Order /\ [Next]_vars => HandsOnce'
<1> SUFFICES ASSUME Types, Ready, HandListed, HandsOnce, Order, [Next]_vars,
                    NEW e \in Known', NEW o \in Known', o.dir = e.dir, Owner(e) \in Hands
             PROVE  o.seq <= e.seq
  BY DEF HandsOnce, Owner
<1>1. CASE e \in Known /\ o \in Known
  BY <1>1 DEF HandsOnce
<1>2. ASSUME o \in Known, NEW p \in Procs, Register(p), e = New(p)
      PROVE  o.seq <= e.seq
  BY <1>2, NewIs, Sizes DEF Order
<1>3. ASSUME e \in Known, NEW p \in Procs, Register(p), o = New(p)
      PROVE  FALSE
  <2>1. Owner(e) = p /\ pc[p] = "register"
    BY <1>3, NewIs DEF Owner, Register
  <2>2. QED
    BY <1>3, <2>1 DEF HandListed
<1>4. ASSUME NEW p \in Procs, Register(p), e = New(p),
             NEW q \in Procs, Register(q), o = New(q)
      PROVE  o.seq <= e.seq
  BY <1>4, NewIs, Sizes
<1>5. QED
  BY <1>1, <1>2, <1>3, <1>4, KnownStep DEF KnownGrows

-----------------------------------------------------------------------------
(* What gc-adapters has in hand.                                           *)

GcMoves ==
  \/ UNCHANGED gcVars
  \/ GcLoad \/ GcBundles \/ GcJournals \/ GcTombstone
  \/ \E d \in plan : GcDelete(d)
  \/ gcpc' = "idle" /\ seen' = {} /\ cited' = {} /\ plan' = {}

LEMMA GcStep == Types /\ [Next]_vars => GcMoves
<1> SUFFICES ASSUME Types, [Next]_vars PROVE GcMoves
  OBVIOUS
<1> USE DEF GcMoves
<1>1. ASSUME NEW p \in Procs, Tune(p) PROVE GcMoves
  BY <1>1, TuneExports, Zenon DEF gcVars
<1>2. ASSUME NEW p \in Procs, Train(p) PROVE GcMoves
  BY <1>2 DEF Train, Goto, vars, registryVars, disk, gcVars
<1>3. ASSUME NEW p \in Procs, Stamp(p) PROVE GcMoves
  BY <1>3 DEF Stamp, Goto, vars, registryVars, disk, gcVars
<1>4. ASSUME NEW p \in Procs, Final(p) PROVE GcMoves
  BY <1>4 DEF Final, Goto, vars, registryVars, disk, gcVars
<1>5. ASSUME NEW p \in Procs, SkipFinal(p) PROVE GcMoves
  BY <1>5 DEF SkipFinal, Goto, vars, registryVars, disk, gcVars
<1>6. ASSUME NEW p \in Procs, Register(p) PROVE GcMoves
  BY <1>6 DEF Register, Goto, AppendEvent, AfterAppend, Registered, Reads,
     Ids, AfterRegister, vars, registryVars, disk, gcVars
<1>7. ASSUME NEW p \in Procs, RegisterFails(p) PROVE GcMoves
  BY <1>7 DEF RegisterFails, Goto, vars, registryVars, disk, gcVars
<1>8. ASSUME NEW p \in Orchestrators, NEW v \in {"accept", "reject"},
             Save(p, v)
      PROVE GcMoves
  BY <1>8 DEF Save, Goto, Ends, vars, registryVars, disk, gcVars
<1>9. ASSUME NEW p \in Procs, Crash(p) PROVE GcMoves
  BY <1>9 DEF Crash, Goto, vars, registryVars, disk, gcVars
<1>10. ASSUME NEW p \in Procs, Resume(p) PROVE GcMoves
  BY <1>10 DEF Resume, Goto, ResumesAt, vars, registryVars, disk, gcVars
<1>11. ASSUME NEW p \in Procs, GoesOn(p) PROVE GcMoves
  BY <1>11 DEF GoesOn, Goto, vars, registryVars, disk, gcVars
<1>12. CASE GcLoad
  BY <1>12 DEF GcLoad, vars, registryVars, disk, gcVars
<1>13. CASE GcBundles
  BY <1>13 DEF GcBundles, vars, registryVars, disk, gcVars
<1>14. CASE GcJournals
  BY <1>14 DEF GcJournals, Deletable, Superseded, vars, registryVars, disk,
     gcVars
<1>15. ASSUME NEW d \in plan, GcDelete(d) PROVE GcMoves
  BY <1>15 DEF GcDelete, vars, registryVars, disk, gcVars
<1>16. CASE GcTombstone
  BY <1>16 DEF GcTombstone, AppendEvent, AfterAppend, vars, registryVars,
     disk, gcVars
<1>17. CASE GcDone
  BY <1>17 DEF GcDone, GcStops, vars, registryVars, disk, gcVars
<1>18. CASE GcCrash
  BY <1>18 DEF GcCrash, GcStops, vars, registryVars, disk, gcVars
<1>19. ASSUME NEW b \in bundles, Prune(b) PROVE GcMoves
  BY <1>19 DEF Prune, vars, registryVars, disk, gcVars
<1>22. ASSUME NEW h \in Hands, Evaluate(h) PROVE GcMoves
  BY <1>22 DEF Evaluate, vars, registryVars, disk, gcVars
<1>20. CASE UNCHANGED vars
  BY <1>20 DEF vars, registryVars, disk, gcVars
<1>21. QED
  BY <1>1, <1>2, <1>3, <1>4, <1>5, <1>6, <1>7, <1>8, <1>9, <1>10, <1>11,
     <1>12, <1>13, <1>14, <1>15, <1>16, <1>17, <1>18, <1>19, <1>20, <1>22 DEF Next,
     Step, Gc

LEMMA OrderStep ==
  Types /\ Ready /\ Order /\ [Next]_vars => Order'
<1> SUFFICES ASSUME Types, Ready, Order, [Next]_vars
             PROVE  Order'
  OBVIOUS
<1>1. seq \in Nat /\ seq' \in Nat /\ seq <= seq'
  BY Sizes, RegistryStep DEF RegistryMoves
<1>2. ASSUME NEW e \in Known' PROVE e.seq <= seq'
  <2>1. CASE e \in Known
    BY <1>1, <2>1, Sizes DEF Order
  <2>2. ASSUME NEW p \in Procs, Register(p), e = New(p), entries' # entries
        PROVE  e.seq <= seq'
    <3>1. seq' = seq + 1
      BY <2>2, RegisterKeeps, Zenon
    <3>2. QED
      BY <1>1, <2>2, <3>1 DEF New
  <2>3. QED
    BY <2>1, <2>2, KnownStep DEF KnownGrows
<1>4. QED
  BY <1>2 DEF Order

-----------------------------------------------------------------------------
(* A campaign has one adapter.                                             *)

\* The journal of a campaign has its one round when it is over.
LEMMA OneRound ==
  ASSUME Types, NEW c \in Campaigns, pc[c] # "done"
  PROVE  c \in Procs /\ c \notin Loops /\ Len(saved[c]) = 0 /\ saved[c] = <<>>
<1>1. c \in Procs /\ c \notin Loops
  BY FinetuneAssumption DEF Procs, Orchestrators
<1>2. Len(saved[c]) < 1 /\ saved[c] \in Seq(1..MaxRuns)
  BY <1>1, RoundFacts DEF Types
<1>3. Len(saved[c]) = 0
  BY <1>2
<1>4. QED
  BY <1>1, <1>2, <1>3

LEMMA OneAdapterStep ==
  Types /\ Ready /\ OneAdapter /\ [Next]_vars => OneAdapter'
<1> SUFFICES ASSUME Types, Ready, OneAdapter, [Next]_vars, NEW c \in Campaigns
             PROVE  /\ \A e \in Known' : Owner(e) = c => e.id = dataset'[c]
                    /\ \A b \in bundles' : Owner(b) = c => b.id = dataset'[c]
  BY DEF OneAdapter, Owner
<1>1. c \in Procs /\ c \notin Loops /\ dataset \in [Procs -> Nat]
  BY Sizes, FinetuneAssumption DEF Procs, Orchestrators
<1>2. dataset'[c] = dataset[c] \/ dataset[c] = 0
  <2>1. ASSUME NEW p \in Procs, Exported(p)
        PROVE  dataset'[c] = dataset[c] \/ dataset[c] = 0
    BY <1>1, <2>1 DEF Exported
  <2>2. QED
    BY <2>1, DatasetStep DEF DatasetStays
<1>3. ASSUME NEW e \in Known', Owner(e) = c PROVE e.id = dataset'[c]
  <2>1. CASE e \in Known
    <3>1. e.id = dataset[c] /\ e.id # 0
      BY <1>3, <2>1, Sizes DEF OneAdapter
    <3>2. QED
      BY <1>2, <3>1
  <2>2. ASSUME NEW p \in Procs, Register(p), e = New(p) PROVE e.id = dataset'[c]
    <3>1. p = c /\ e.id = dataset[c] /\ dataset[c] # 0
      BY <1>3, <2>2, NewIs DEF Owner
    <3>2. QED
      BY <1>2, <3>1
  <2>3. QED
    BY <2>1, <2>2, KnownStep DEF KnownGrows
<1>4. ASSUME NEW b \in bundles', Owner(b) = c PROVE b.id = dataset'[c]
  <2>1. CASE b \in bundles
    <3>1. b.id = dataset[c] /\ b.id # 0
      BY <1>4, <2>1 DEF OneAdapter, Types
    <3>2. QED
      BY <1>2, <3>1
  <2>2. ASSUME NEW p \in Procs, Final(p), b = Citation(Dir(p)) PROVE b.id = dataset'[c]
    <3>1. p = c /\ pc[c] = "final"
      BY <1>4, <2>2 DEF Citation, Dir, Owner, Final
    <3>2. b.id = dataset[c] /\ dataset[c] # 0
      BY <1>1, <2>2, <3>1, Holds DEF Citation
    <3>3. QED
      BY <1>2, <3>2
  <2>3. ASSUME NEW p \in Procs, Tune(p), saved[p] # <<>>, b = Citation(Previous(p))
        PROVE  FALSE
    <3>1. p = c /\ pc[c] = "tune"
      BY <1>4, <2>3 DEF Citation, Previous, Owner, Tune
    <3>2. QED
      BY <2>3, <3>1, OneRound
  <2>4. ASSUME NEW h \in Hands, b = [id |-> dataset[h], dir |-> <<h, 1>>] PROVE FALSE
    <3>1. h = c
      BY <1>4, <2>4 DEF Owner
    <3>2. QED
      BY <3>1, FinetuneAssumption DEF Orchestrators
  <2>5. QED
    BY <2>1, <2>2, <2>3, <2>4, BundlesStep DEF BundlesGrow
<1>5. QED
  BY <1>3, <1>4

-----------------------------------------------------------------------------
(* What gc-adapters finds and plans.                                       *)

\* A hand adapter without evidence is evaluated late once the bundles were read.
LEMMA BareStays ==
  ASSUME Types, HandListed, [Next]_vars, NEW e \in Known, Owner(e) \in Hands,
         gcpc \in {"journals", "delete", "tombstone"}, Bare(e) \/ e.dir \in late
  PROVE  Bare(e)' \/ e.dir \in late'
<1>1. late \subseteq late'
  BY ExemptStep DEF ExemptGrows
<1> SUFFICES ASSUME Bare(e), NEW b \in bundles', b.dir = e.dir PROVE e.dir \in late'
  BY <1>1 DEF Bare
<1>2. pc[Owner(e)] = "done" /\ saved[Owner(e)] = <<>> /\ b \notin bundles
  BY DEF HandListed, Bare
<1>3. ASSUME NEW p \in Procs, Final(p), b = Citation(Dir(p)) PROVE FALSE
  <2>1. p = Owner(e) /\ pc[p] = "final"
    BY <1>3 DEF Final, Citation, Dir, Owner
  <2>2. QED
    BY <1>2, <2>1
<1>4. ASSUME NEW p \in Procs, saved[p] # <<>>, b = Citation(Previous(p)) PROVE FALSE
  <2>1. p = Owner(e)
    BY <1>4 DEF Citation, Previous, Owner
  <2>2. QED
    BY <1>2, <1>4, <2>1
<1>5. ASSUME NEW h \in Hands, Evaluate(h), b = [id |-> dataset[h], dir |-> <<h, 1>>]
      PROVE  e.dir \in late'
  <2>1. e.dir = <<h, 1>> /\ \A c \in bundles : c.dir # <<h, 1>>
    BY <1>5 DEF Bare
  <2>2. late' = late \cup {<<h, 1>>}
    BY <1>5, <2>1 DEF Evaluate
  <2>3. QED
    BY <2>1, <2>2
<1>6. QED
  BY <1>2, <1>3, <1>4, <1>5, BundlesStep DEF BundlesGrow

\* The entry that a directory is known by is cited with it.
LEMMA KnownBy ==
  ASSUME HandsOnce, NEW e \in seen, InState(e) \/ Owner(e) \in Hands
  PROVE  e.id \in IdsOfDir(seen, e.dir)
<1>1. \A o \in seen : o.dir = e.dir => o.seq <= e.seq
  BY DEF InState, HandsOnce, Known
<1>2. QED
  BY <1>1 DEF IdsOfDir

LEMMA ScannedStep ==
  Types /\ Ready /\ HandListed /\ CitedOrInState /\ HandsOnce /\ Scanned
    /\ [Next]_vars => Scanned'
<1> SUFFICES ASSUME Types, Ready, HandListed, CitedOrInState, HandsOnce, Scanned,
                    [Next]_vars, gcpc' = "journals", NEW e \in seen'
             PROVE  /\ Owner(e) \in Orchestrators =>
                         e.id \in cited' \/ InState(e)' \/ e.dir \in stripped'
                    /\ Owner(e) \in Hands => e.id \in cited' \/ Bare(e)' \/ e.dir \in late'
  BY DEF Scanned, Owner
<1>1. CASE GcBundles
  <2>1. /\ seen' = seen /\ bundles' = bundles /\ e \in Known
        /\ cited' = UNION {CitedBy(b) : b \in bundles}
    BY <1>1 DEF GcBundles, Known
  <2>2. ASSUME Owner(e) \in Orchestrators
        PROVE  e.id \in cited' \/ InState(e)' \/ e.dir \in stripped'
    <3>1. CASE InState(e)
      BY <2>1, <3>1, StaysInState
    <3>2. CASE [id |-> e.id, dir |-> e.dir] \in bundles
      BY <2>1, <3>2 DEF CitedBy
    <3>3. CASE e.dir \in stripped
      BY <3>3, ExemptStep DEF ExemptGrows
    <3>4. QED
      BY <2>1, <2>2, <3>1, <3>2, <3>3 DEF CitedOrInState
  <2>3. ASSUME Owner(e) \in Hands, NEW b \in bundles', b.dir = e.dir
        PROVE  e.id \in cited'
    <3>1. e.id \in IdsOfDir(seen, b.dir)
      BY <2>1, <2>3, KnownBy
    <3>2. QED
      BY <2>1, <2>3, <3>1 DEF CitedBy
  <2>4. Owner(e) \in Hands => e.id \in cited' \/ Bare(e)'
    BY <2>3 DEF Bare
  <2>5. QED
    BY <2>2, <2>4
<1>2. CASE UNCHANGED gcVars
  <2>1. gcpc = "journals" /\ e \in seen /\ e \in Known /\ cited' = cited
    BY <1>2 DEF gcVars, Known
  <2>2. ASSUME Owner(e) \in Orchestrators
        PROVE  e.id \in cited' \/ InState(e)' \/ e.dir \in stripped'
    <3>1. InState(e) => InState(e)'
      BY <2>1, StaysInState
    <3>2. e.dir \in stripped => e.dir \in stripped'
      BY ExemptStep DEF ExemptGrows
    <3>3. QED
      BY <2>1, <2>2, <3>1, <3>2 DEF Scanned
  <2>3. ASSUME Owner(e) \in Hands
        PROVE  e.id \in cited' \/ Bare(e)' \/ e.dir \in late'
    <3>1. e.id \in cited \/ Bare(e) \/ e.dir \in late
      BY <2>1, <2>3 DEF Scanned
    <3>2. Bare(e) \/ e.dir \in late => Bare(e)' \/ e.dir \in late'
      BY <2>1, <2>3, BareStays
    <3>3. QED
      BY <2>1, <3>1, <3>2
  <2>4. QED
    BY <2>2, <2>3
<1>3. QED
  BY <1>1, <1>2, GcStep DEF GcMoves, GcLoad, GcJournals, GcTombstone, GcDelete


\* Only a registration acknowledges.
AckedMoves ==
  \/ acked' \subseteq acked
  \/ \E p \in Procs : Register(p) /\ acked' = acked \cup {manifest[Dir(p)]}

LEMMA AckedMovesStep == Types /\ [Next]_vars => AckedMoves
<1> SUFFICES ASSUME Types, [Next]_vars PROVE AckedMoves
  OBVIOUS
<1> USE DEF AckedMoves
<1>1. ASSUME NEW p \in Procs, Tune(p) PROVE AckedMoves
  BY <1>1, TuneExports, Zenon
<1>2. ASSUME NEW p \in Procs, Train(p) PROVE AckedMoves
  BY <1>2 DEF Train, Goto, vars, registryVars, disk, gcVars
<1>3. ASSUME NEW p \in Procs, Stamp(p) PROVE AckedMoves
  BY <1>3 DEF Stamp, Goto, vars, registryVars, disk, gcVars
<1>4. ASSUME NEW p \in Procs, Final(p) PROVE AckedMoves
  BY <1>4 DEF Final, Goto, vars, registryVars, disk, gcVars
<1>5. ASSUME NEW p \in Procs, SkipFinal(p) PROVE AckedMoves
  BY <1>5 DEF SkipFinal, Goto, vars, registryVars, disk, gcVars
<1>6. ASSUME NEW p \in Procs, Register(p) PROVE AckedMoves
  <2>1. acked' = acked \/ acked' = acked \cup {manifest[Dir(p)]}
    BY <1>6 DEF Register
  <2>2. QED
    BY <1>6, <2>1
<1>7. ASSUME NEW p \in Procs, RegisterFails(p) PROVE AckedMoves
  BY <1>7 DEF RegisterFails, Goto, vars, registryVars, disk, gcVars
<1>8. ASSUME NEW p \in Orchestrators, NEW v \in {"accept", "reject"},
             Save(p, v)
      PROVE AckedMoves
  BY <1>8 DEF Save, Goto, Ends, vars, registryVars, disk, gcVars
<1>9. ASSUME NEW p \in Procs, Crash(p) PROVE AckedMoves
  BY <1>9 DEF Crash, Goto, vars, registryVars, disk, gcVars
<1>10. ASSUME NEW p \in Procs, Resume(p) PROVE AckedMoves
  BY <1>10 DEF Resume, Goto, ResumesAt, vars, registryVars, disk, gcVars
<1>11. ASSUME NEW p \in Procs, GoesOn(p) PROVE AckedMoves
  BY <1>11 DEF GoesOn, Goto, vars, registryVars, disk, gcVars
<1>12. CASE GcLoad
  BY <1>12 DEF GcLoad, vars, registryVars, disk, gcVars
<1>13. CASE GcBundles
  BY <1>13 DEF GcBundles, vars, registryVars, disk, gcVars
<1>14. CASE GcJournals
  BY <1>14 DEF GcJournals, Deletable, Superseded, vars, registryVars, disk,
     gcVars
<1>15. ASSUME NEW d \in plan, GcDelete(d) PROVE AckedMoves
  BY <1>15 DEF GcDelete, vars, registryVars, disk, gcVars
<1>16. CASE GcTombstone
  BY <1>16 DEF GcTombstone, AppendEvent, AfterAppend, vars, registryVars,
     disk, gcVars
<1>17. CASE GcDone
  BY <1>17 DEF GcDone, GcStops, vars, registryVars, disk, gcVars
<1>18. CASE GcCrash
  BY <1>18 DEF GcCrash, GcStops, vars, registryVars, disk, gcVars
<1>19. ASSUME NEW b \in bundles, Prune(b) PROVE AckedMoves
  BY <1>19 DEF Prune, vars, registryVars, disk, gcVars
<1>22. ASSUME NEW h \in Hands, Evaluate(h) PROVE AckedMoves
  BY <1>22 DEF Evaluate, vars, registryVars, disk, gcVars
<1>20. CASE UNCHANGED vars
  BY <1>20 DEF vars, registryVars, disk, gcVars
<1>21. QED
  BY <1>1, <1>2, <1>3, <1>4, <1>5, <1>6, <1>7, <1>8, <1>9, <1>10, <1>11,
     <1>12, <1>13, <1>14, <1>15, <1>16, <1>17, <1>18, <1>19, <1>20, <1>22 DEF Next,
     Step, Gc

\* The directory of every round that a state.json records is looked up.
LEMMA RowDirsHave ==
  ASSUME NEW p \in Loops, NEW k \in 1..Rounds, <<p, k>> \in Dirs, k <= Len(saved[p])
  PROVE  <<p, k>> \in RowDirs
  BY DEF RowDirs

\* What gc-adapters plans, it has looked for everywhere.
LEMMA PlansThese ==
  ASSUME Types, HandsOnce, Scanned, GcJournals, NEW e \in plan'
  PROVE  Deletes(e)'
<1>1. gcpc = "journals" /\ bundles' = bundles /\ stripped' = stripped /\ late' = late
  BY DEF GcJournals, exempt
<1>2. e \in seen /\ e.id \notin cited /\ e.id \notin CitedInJournals
  BY DEF GcJournals, Deletable, Superseded
<1>3. e \in Known /\ e.dir \in Dirs /\ Owner(e) \in Procs
  BY <1>2, Sizes DEF Known, Owner
<1>4. ~InState(e)
  <2>1. SUFFICES ASSUME InState(e) PROVE FALSE
    OBVIOUS
  <2>2. /\ e.dir = <<Owner(e), e.dir[2]>> /\ e.dir[2] \in 1..RoundsOf(Owner(e))
        /\ Owner(e) \in Loops /\ e.dir[2] <= Len(saved[Owner(e)])
    BY <1>3, <2>1, DirFacts DEF InState, Owner
  <2>3. e.dir[2] \in 1..Rounds
    BY <2>2 DEF RoundsOf
  <2>4. e.dir \in RowDirs
    <3>1. <<Owner(e), e.dir[2]>> \in RowDirs
      BY <1>3, <2>2, <2>3, RowDirsHave
    <3>2. QED
      BY <2>2, <3>1
  <2>5. e.id \in IdsOfDir(seen, e.dir)
    BY <1>2, <2>1, KnownBy
  <2>6. QED
    BY <1>2, <2>4, <2>5 DEF CitedInJournals
<1>5. e.dir \in stripped \/ (Owner(e) \in Hands /\ (Bare(e) \/ e.dir \in late))
  BY <1>1, <1>2, <1>3, <1>4, Kinds DEF Scanned
<1>6. QED
  BY <1>1, <1>5 DEF Deletes, Owner, Bare

\* Nobody registers anew what gc-adapters is deleting.
LEMMA NotPlanned ==
  ASSUME Types, Ready, Fresh, Unlisted, HandListed, OneAdapter, StrippedRecorded, Planned,
         NEW s \in plan, NEW p \in Procs, Register(p)
  PROVE  s.id # manifest[Dir(p)]
<1> SUFFICES ASSUME s.id = manifest[Dir(p)] PROVE FALSE
  OBVIOUS
<1>1. s \in Known /\ Deletes(s) /\ Owner(s) \in Procs /\ s.dir[2] \in Nat \ {0}
  <2>1. s \in Known /\ Deletes(s)
    BY DEF Planned, Known
  <2>2. QED
    BY <2>1, Sizes, DirFacts, RoundFacts DEF Owner
<1>2. s.id = dataset[p] /\ pc[p] = "register" /\ pc[p] # "done"
  BY Holds DEF Register
<1>3. Owner(s) = p
  BY <1>1, <1>2 DEF Fresh
<1>4. p \notin Loops
  BY <1>1, <1>2 DEF Unlisted
<1>5. p \notin Hands
  BY <1>1, <1>2, <1>3 DEF HandListed
<1>6. p \in Campaigns /\ Len(saved[p]) = 0
  BY <1>2, <1>4, <1>5, Kinds, OneRound DEF Orchestrators
<1>7. s.dir \in stripped
  BY <1>1, <1>3, <1>5 DEF Deletes
<1>8. QED
  BY <1>1, <1>3, <1>6, <1>7 DEF StrippedRecorded, Recorded, Owner

LEMMA PlannedStep ==
  Types /\ Ready /\ Fresh /\ Unlisted /\ HandListed /\ OneAdapter /\ StrippedRecorded
    /\ HandsOnce /\ Scanned /\ Planned /\ [Next]_vars => Planned'
<1> SUFFICES ASSUME Types, Ready, Fresh, Unlisted, HandListed, OneAdapter,
                    StrippedRecorded, HandsOnce, Scanned, Planned, [Next]_vars
             PROVE  Planned'
  OBVIOUS
<1>1. ASSUME NEW e \in plan' PROVE Deletes(e)'
  <2>1. CASE e \in plan
    <3>1. e \in Known /\ Deletes(e) /\ gcpc \in {"delete", "tombstone"}
      BY <2>1 DEF Planned, Known
    <3>2. CASE e.dir \in stripped
      BY <3>2, ExemptStep DEF ExemptGrows, Deletes
    <3>3. CASE Owner(e) \in Hands /\ (Bare(e) \/ e.dir \in late)
      <4>1. Bare(e)' \/ e.dir \in late'
        BY <3>1, <3>3, BareStays
      <4>2. QED
        BY <3>3, <4>1 DEF Deletes, Owner
    <3>4. QED
      BY <3>1, <3>2, <3>3 DEF Deletes
  <2>2. CASE GcJournals
    BY <2>2, PlansThese
  <2>3. QED
    BY <2>1, <2>2, GcStep DEF GcMoves, gcVars, GcLoad, GcBundles, GcTombstone, GcDelete
<1>2. ASSUME gcpc' = "tombstone" PROVE seen' \subseteq plan' /\ Ids(seen') \cap acked' = {}
  <2>1. ASSUME NEW d \in plan, GcDelete(d)
        PROVE  seen' \subseteq plan' /\ Ids(seen') \cap acked' = {}
    BY <2>1 DEF GcDelete, Ids
  <2>2. CASE UNCHANGED gcVars
    <3>1. /\ gcpc = "tombstone" /\ seen' = seen /\ plan' = plan
          /\ seen \subseteq plan /\ Ids(seen) \cap acked = {}
      BY <1>2, <2>2 DEF gcVars, Planned
    <3>2. ASSUME NEW p \in Procs, Register(p), NEW s \in seen PROVE s.id # manifest[Dir(p)]
      BY <3>1, <3>2, NotPlanned
    <3>3. QED
      BY <3>1, <3>2, AckedMovesStep DEF AckedMoves, Ids
  <2>3. QED
    BY <1>2, <2>1, <2>2, GcStep DEF GcMoves, GcLoad, GcBundles, GcJournals, GcTombstone
<1>3. gcpc' \notin {"delete", "tombstone"} => plan' = {}
  BY GcStep DEF GcMoves, gcVars, GcLoad, GcBundles, GcJournals, GcTombstone, GcDelete, Planned
<1>4. gcpc' \in {"idle", "delete"} => seen' = {}
  BY GcStep DEF GcMoves, gcVars, GcLoad, GcBundles, GcJournals, GcTombstone, GcDelete, Planned
<1>5. Ids(seen)' = Ids(seen')
  BY DEF Ids
<1>6. QED
  BY <1>1, <1>2, <1>3, <1>4, <1>5 DEF Planned

-----------------------------------------------------------------------------
(* Evidence, the newest adapter, and what was acknowledged.                *)

LEMMA EvidenceStep ==
  Types /\ Ready /\ HandListed /\ HandWhole /\ RecordedSurvive /\ Planned
    /\ EvidenceStands /\ [Next]_vars => EvidenceStands'
<1> SUFFICES ASSUME Types, Ready, HandListed, HandWhole, RecordedSurvive, Planned,
                    EvidenceStands, [Next]_vars, NEW b \in bundles',
                    b.dir \notin stripped', b.dir \notin late'
             PROVE  weights'[b.dir] # 0
  BY DEF EvidenceStands
<1>1. weights \in [Dirs -> 0..MaxRuns] /\ b.dir \notin stripped /\ b.dir \notin late
  BY ExemptStep DEF Types, ExemptGrows
<1>2. CASE b \in bundles
  <2>1. weights[b.dir] # 0 /\ b.dir \in Dirs
    BY <1>1, <1>2 DEF EvidenceStands, Types
  <2>2. ASSUME NEW p \in Procs, Train(p), weights' = [weights EXCEPT ![Dir(p)] = dataset[p]]
        PROVE  weights'[b.dir] # 0
    <3>1. dataset[p] # 0
      BY <2>2, Holds DEF Train
    <3>2. QED
      BY <1>1, <2>1, <2>2, <3>1
  <2>3. ASSUME NEW d \in plan, weights' = [weights EXCEPT ![d.dir] = 0]
        PROVE  weights'[b.dir] # 0
    <3>1. b.dir # d.dir
      BY <1>1, <1>2, DeletesThese
    <3>2. QED
      BY <1>1, <2>1, <2>3, <3>1
  <2>4. QED
    BY <2>1, <2>2, <2>3, DiskStep DEF DiskMoves
<1>3. ASSUME NEW p \in Procs, Final(p), b = Citation(Dir(p)) PROVE weights'[b.dir] # 0
  <2>1. weights' = weights /\ pc[p] = "final" /\ b.dir = Dir(p)
    BY <1>3 DEF Final, disk, Citation
  <2>2. weights[Dir(p)] = dataset[p] /\ dataset[p] # 0
    BY <2>1 DEF Ready, InHand
  <2>3. QED
    BY <2>1, <2>2
<1>4. ASSUME NEW p \in Procs, Tune(p), saved[p] # <<>>, b = Citation(Previous(p))
      PROVE  weights'[b.dir] # 0
  <2>1. weights' = weights /\ b.dir = <<p, Len(saved[p])>>
    BY <1>4, TuneExports DEF Citation, Previous
  <2>2. p \in Orchestrators
    BY <1>4, Kinds DEF HandListed
  <2>3. Len(saved[p]) \in 1..Len(saved[p])
    BY <1>4 DEF Types
  <2>4. weights[<<p, Len(saved[p])>>] = saved[p][Len(saved[p])]
    BY <1>1, <2>1, <2>2, <2>3 DEF RecordedSurvive, RecordStands
  <2>5. saved[p][Len(saved[p])] \in 1..MaxRuns
    BY <2>3, RecordedIn
  <2>6. QED
    BY <2>1, <2>4, <2>5
<1>5. ASSUME NEW h \in Hands, Evaluate(h), b = [id |-> dataset[h], dir |-> <<h, 1>>]
      PROVE  weights'[b.dir] # 0
  <2>1. weights' = weights /\ b.dir = <<h, 1>>
    BY <1>5 DEF Evaluate, disk
  <2>2. CASE \E c \in bundles : c.dir = <<h, 1>>
    BY <1>1, <2>1, <2>2 DEF EvidenceStands
  <2>3. CASE (\A c \in bundles : c.dir # <<h, 1>>) /\ manifest[<<h, 1>>] = 0
    <3>1. late' = late \cup {<<h, 1>>}
      BY <1>5, <2>3 DEF Evaluate
    <3>2. QED
      BY <2>1, <3>1
  <2>4. CASE manifest[<<h, 1>>] # 0
    BY <2>1, <2>4 DEF HandWhole
  <2>5. QED
    BY <2>2, <2>3, <2>4
<1>6. QED
  BY <1>2, <1>3, <1>4, <1>5, BundlesStep DEF BundlesGrow

\* An adapter that outlives another one of the plan goes on doing so.
LEMMA OutlivedStays ==
  ASSUME Types, Ready, Fresh, Planned, Order, [Next]_vars, plan' \subseteq plan,
         NEW e \in Known, Outlived(e)
  PROVE  Outlived(e)'
<1>1. PICK o \in entries : o.seq > e.seq /\ o.id \notin Ids(plan)
  BY DEF Outlived
<1>2. Ids(plan') \subseteq Ids(plan)
  BY DEF Ids
<1>3. CASE o \in entries'
  BY <1>1, <1>2, <1>3 DEF Outlived, Ids
<1>4. CASE o \notin entries'
  <2>1. ~GcTombstone
    <3>1. GcTombstone => Ids(seen) \subseteq Ids(plan)
      BY DEF GcTombstone, Planned, Ids
    <3>2. QED
      BY <1>1, <1>4, <3>1, TombstoneKeeps, Sizes
  <2>2. PICK p \in Procs : /\ Register(p) /\ seq' = seq + 1
                           /\ entries' = Registered(manifest[Dir(p)], Dir(p))
    BY <1>1, <1>4, <2>1, RegistryStep DEF RegistryMoves
  <2>3. /\ New(p) \in entries' /\ New(p).id = o.id /\ New(p).seq = seq + 1
    BY <1>1, <1>4, <2>2 DEF Registered, New
  <2>4. seq + 1 > e.seq
    BY Sizes DEF Order
  <2>5. QED
    BY <1>1, <1>2, <2>3, <2>4 DEF Outlived, Ids
<1>5. QED
  BY <1>3, <1>4

\* A listed id stays listed, and as late, until a tombstone.
LEMMA IdStays ==
  ASSUME Types, Order, [Next]_vars, ~GcTombstone, NEW o \in entries
  PROVE  \E n \in entries' : n.id = o.id /\ n.seq >= o.seq
<1>1. o \in Known /\ o.seq \in Nat /\ o.seq <= seq /\ seq \in Nat
  <2>1. o \in Known
    BY DEF Known
  <2>2. QED
    BY <2>1, Sizes DEF Order
<1>2. CASE entries' = entries
  BY <1>1, <1>2
<1>3. ASSUME NEW p \in Procs, entries' = Registered(manifest[Dir(p)], Dir(p))
      PROVE  \E n \in entries' : n.id = o.id /\ n.seq >= o.seq
  <2>1. CASE o.id = manifest[Dir(p)]
    <3>1. New(p) \in entries' /\ New(p).id = o.id /\ New(p).seq = seq + 1
      BY <1>3, <2>1 DEF Registered, New
    <3>2. QED
      BY <1>1, <3>1
  <2>2. CASE o.id # manifest[Dir(p)]
    BY <1>1, <1>3, <2>2 DEF Registered
  <2>3. QED
    BY <2>1, <2>2
<1>4. QED
  BY <1>2, <1>3, RegistryStep DEF RegistryMoves

\* An adapter that a step leaves without its weights had none before, or is the
\* one that gc-adapters deletes.
LEMMA Dies ==
  ASSUME Types, Ready, Planned, HandsOnce, [Next]_vars, NEW e \in entries', Dead(e)'
  PROVE  /\ e \in entries /\ e \in Known
         /\ Dead(e) \/ \E d \in plan : GcDelete(d) /\ e.seq = d.seq
<1>1. weights \in [Dirs -> 0..MaxRuns] /\ weights'[e.dir] = 0 /\ e.dir \notin stripped
  BY ExemptStep DEF Types, ExemptGrows, Dead
<1>2. e \in entries
  <2>1. ASSUME NEW p \in Procs, Register(p), e = New(p) PROVE FALSE
    <3>1. weights' = weights /\ pc[p] = "register" /\ e.dir = Dir(p)
      BY <2>1 DEF Register, disk, New
    <3>2. weights[Dir(p)] = dataset[p] /\ dataset[p] # 0
      BY <3>1 DEF Ready, InHand
    <3>3. QED
      BY <1>1, <3>1, <3>2
  <2>2. QED
    BY <2>1, RegistryStep DEF RegistryMoves, Registered, New
<1>3. e \in Known /\ e.dir \in Dirs /\ e.seq \in Nat
  <2>1. e \in Known
    BY <1>2 DEF Known
  <2>2. QED
    BY <2>1, Sizes
<1>4. ASSUME NEW p \in Procs, Train(p), weights' = [weights EXCEPT ![Dir(p)] = dataset[p]]
      PROVE  weights[e.dir] = 0
  <2>1. dataset[p] # 0
    BY <1>4, Holds DEF Train
  <2>2. QED
    BY <1>1, <1>3, <1>4, <2>1
<1>5. ASSUME NEW d \in plan, weights' = [weights EXCEPT ![d.dir] = 0], d.dir # e.dir
      PROVE  weights[e.dir] = 0
  BY <1>1, <1>3, <1>5
<1>6. ASSUME NEW d \in plan, d.dir = e.dir PROVE e.seq = d.seq
  <2>1. d \in Known /\ Owner(d) \in Hands /\ Owner(e) \in Hands /\ d.seq \in Nat
    BY <1>1, <1>6, DeletesThese, Sizes DEF Owner
  <2>2. e.seq <= d.seq /\ d.seq <= e.seq
    BY <1>3, <1>6, <2>1 DEF HandsOnce
  <2>3. QED
    BY <1>3, <2>1, <2>2
<1>7. weights[e.dir] = 0 \/ \E d \in plan : GcDelete(d) /\ e.seq = d.seq
  BY <1>1, <1>4, <1>5, <1>6, DiskStep DEF DiskMoves
<1>8. QED
  BY <1>1, <1>2, <1>3, <1>7 DEF Dead

\* The newest of the loaded entries is not planned.
LEMMA TopIsKept ==
  ASSUME Types, Order, Newer, GcJournals, NEW s \in seen
  PROVE  \E o \in entries : o.seq >= s.seq /\ o.id \notin Ids(plan')
<1>1. seen \subseteq Known /\ entries \subseteq Known /\ seen # {}
  BY DEF Known
<1>2. PICK t \in seen : \A e \in seen : e.seq <= t.seq
  BY <1>1, Newest
<1>3. plan' \subseteq Superseded(seen)
  BY DEF GcJournals, Deletable
<1>4. t.id \notin Ids(plan')
  <2>1. SUFFICES ASSUME NEW d \in plan', d.id = t.id PROVE FALSE
    BY DEF Ids
  <2>2. d \in seen /\ \E newer \in seen : newer.seq > d.seq
    BY <1>3 DEF Superseded
  <2>3. d = t
    BY <2>1, <2>2 DEF Newer, Once
  <2>4. PICK newer \in seen : newer.seq > t.seq
    BY <2>2, <2>3
  <2>5. newer.seq <= t.seq /\ newer.seq \in Nat /\ t.seq \in Nat
    BY <1>1, <1>2, Sizes
  <2>6. QED
    BY <2>4, <2>5
<1>5. PICK o \in entries : o.id = t.id /\ o.seq >= t.seq
  BY DEF GcJournals, Newer, Loaded
<1>6. o.seq \in Nat /\ t.seq \in Nat /\ s.seq \in Nat /\ s.seq <= t.seq
  BY <1>1, <1>2, Sizes
<1>7. QED
  BY <1>4, <1>5, <1>6

LEMMA OnceStep == Types /\ Newer /\ [Next]_vars => Once(entries') /\ Once(seen')
<1> SUFFICES ASSUME Types, Once(entries), Once(seen), [Next]_vars
             PROVE  Once(entries') /\ Once(seen')
  BY DEF Newer
<1>1. Once(entries')
  BY RegistryStep DEF RegistryMoves, Registered, Once
<1>2. Once(seen')
  BY GcStep DEF GcMoves, gcVars, GcLoad, GcBundles, GcJournals, GcTombstone, GcDelete, Once
<1>3. QED
  BY <1>1, <1>2

LEMMA LoadedStep ==
  Types /\ Ready /\ Planned /\ HandsOnce /\ Order /\ Newer /\ [Next]_vars => Loaded'
<1> SUFFICES ASSUME Types, Ready, Planned, HandsOnce, Order, Newer, [Next]_vars,
                    gcpc' \in {"bundles", "journals"}
             PROVE  /\ \A s \in seen' : \E o \in entries' : o.id = s.id /\ o.seq >= s.seq
                    /\ \A e \in entries' : Dead(e)' => \E s \in seen' : s.seq > e.seq
  BY DEF Loaded
<1>1. CASE GcLoad
  <2>1. seen' = entries /\ entries' = entries /\ weights' = weights /\ stripped' = stripped
    BY <1>1 DEF GcLoad, registryVars, disk, exempt
  <2>2. \A s \in entries : s.seq >= s.seq
    BY Sizes DEF Known
  <2>3. ASSUME NEW e \in entries, Dead(e)' PROVE \E s \in entries : s.seq > e.seq
    BY <2>1, <2>3 DEF Dead, Newer, Outlived
  <2>4. QED
    BY <2>1, <2>2, <2>3
<1>2. CASE gcpc \in {"bundles", "journals"} /\ seen' = seen /\ ~GcTombstone
  <2>1. ASSUME NEW s \in seen PROVE \E o \in entries' : o.id = s.id /\ o.seq >= s.seq
    <3>1. PICK o \in entries : o.id = s.id /\ o.seq >= s.seq
      BY <1>2 DEF Newer, Loaded
    <3>2. PICK n \in entries' : n.id = o.id /\ n.seq >= o.seq
      BY <1>2, IdStays
    <3>3. n.seq \in Nat /\ o.seq \in Nat /\ s.seq \in Nat
      <4>1. entries' \subseteq Entry
        BY TypeStep DEF Types
      <4>2. QED
        BY <4>1, Sizes DEF Known, Entry
    <3>4. QED
      BY <3>1, <3>2, <3>3
  <2>2. ASSUME NEW e \in entries', Dead(e)' PROVE \E s \in seen : s.seq > e.seq
    <3>1. e \in entries /\ Dead(e)
      BY <1>2, <2>2, Dies DEF GcDelete
    <3>2. QED
      BY <1>2, <3>1 DEF Newer, Loaded
  <2>3. QED
    BY <1>2, <2>1, <2>2
<1>3. QED
  BY <1>1, <1>2, GcStep DEF GcMoves, gcVars, GcBundles, GcJournals, GcTombstone, GcDelete

LEMMA NewerStep ==
  Types /\ Ready /\ Fresh /\ Planned /\ HandsOnce /\ Order /\ Newer /\ [Next]_vars
    => Newer'
<1> SUFFICES ASSUME Types, Ready, Fresh, Planned, HandsOnce, Order, Newer, [Next]_vars
             PROVE  Newer'
  OBVIOUS
<1>1. CASE GcJournals
  <2>1. entries' = entries /\ weights' = weights /\ stripped' = stripped
    BY <1>1 DEF GcJournals, registryVars, disk, exempt
  <2>2. ASSUME NEW e, e.seq \in Nat, NEW s \in seen, s.seq > e.seq PROVE Outlived(e)'
    <3>1. PICK o \in entries : o.seq >= s.seq /\ o.id \notin Ids(plan')
      BY <1>1, TopIsKept
    <3>2. o.seq \in Nat /\ s.seq \in Nat
      BY Sizes DEF Known
    <3>3. QED
      BY <2>1, <2>2, <3>1, <3>2 DEF Outlived, Ids
  <2>3. ASSUME NEW e \in plan' PROVE Outlived(e)'
    <3>1. e \in seen /\ \E s \in seen : s.seq > e.seq
      BY <1>1 DEF GcJournals, Deletable, Superseded
    <3>2. e.seq \in Nat
      BY <3>1, Sizes DEF Known
    <3>3. QED
      BY <2>2, <3>1, <3>2
  <2>4. ASSUME NEW e \in entries', Dead(e)' PROVE Outlived(e)'
    <3>1. \E s \in seen : s.seq > e.seq
      BY <1>1, <2>1, <2>4 DEF GcJournals, Dead, Newer, Loaded
    <3>2. e.seq \in Nat
      BY <2>1, Sizes DEF Known
    <3>3. QED
      BY <2>2, <3>1, <3>2
  <2>5. QED
    BY <2>3, <2>4, OnceStep, LoadedStep DEF Newer, Once
<1>2. CASE ~GcJournals
  <2>1. plan' \subseteq plan
    BY <1>2, GcStep DEF GcMoves, gcVars, GcLoad, GcBundles, GcTombstone, GcDelete
  <2>2. ASSUME NEW e \in plan' PROVE Outlived(e)'
    BY <2>1, OutlivedStays DEF Newer, Known
  <2>3. ASSUME NEW e \in entries', Dead(e)' PROVE Outlived(e)'
    <3>1. e \in Known /\ e \in entries
      BY <2>3, Dies
    <3>2. Outlived(e)
      <4>1. CASE Dead(e)
        BY <3>1, <4>1 DEF Newer
      <4>2. ASSUME NEW d \in plan, e.seq = d.seq PROVE Outlived(e)
        BY <4>2 DEF Newer, Outlived
      <4>3. QED
        BY <2>3, <4>1, <4>2, Dies
    <3>3. QED
      BY <2>1, <3>1, <3>2, OutlivedStays
  <2>4. QED
    BY <2>2, <2>3, OnceStep, LoadedStep DEF Newer, Once
<1>3. QED
  BY <1>1, <1>2

LEMMA AckedStep ==
  Types /\ Planned /\ AckedIsListed /\ [Next]_vars => AckedIsListed'
<1> SUFFICES ASSUME Types, Planned, AckedIsListed, [Next]_vars
             PROVE  acked' \subseteq Ids(entries')
  BY DEF AckedIsListed, Ids
<1>1. acked \subseteq Ids(entries)
  BY DEF AckedIsListed
<1>2. CASE entries' = entries
  <2>1. ASSUME NEW p \in Procs, Register(p), acked' = acked \cup {manifest[Dir(p)]}
        PROVE  acked' \subseteq Ids(entries')
    <3>1. acked' = acked \/ manifest[Dir(p)] \in Ids(entries')
      BY <2>1 DEF Register, Reads, AppendEvent
    <3>2. QED
      BY <1>1, <1>2, <2>1, <3>1
  <2>2. QED
    BY <1>1, <1>2, <2>1, AckedMovesStep DEF AckedMoves
<1>3. CASE GcTombstone
  <2>1. acked' = acked /\ Ids(seen) \cap acked = {}
    BY <1>3 DEF GcTombstone, Planned
  <2>2. ASSUME NEW i \in acked PROVE i \in Ids(entries')
    <3>1. PICK e \in entries : e.id = i
      BY <1>1 DEF Ids
    <3>2. e.id \notin Ids(seen)
      BY <2>1, <2>2, <3>1
    <3>3. e \in entries'
      BY <1>3, <3>2, TombstoneKeeps, Sizes
    <3>4. QED
      BY <3>1, <3>3 DEF Ids
  <2>3. QED
    BY <2>1, <2>2
<1>4. ASSUME NEW p \in Procs, Register(p), entries' = Registered(manifest[Dir(p)], Dir(p))
      PROVE  acked' \subseteq Ids(entries')
  <2>1. acked' \subseteq acked \cup {manifest[Dir(p)]}
    BY <1>4 DEF Register
  <2>2. QED
    BY <1>1, <1>4, <2>1, RegisteredLists
<1>5. QED
  BY <1>2, <1>3, <1>4, RegistryStep DEF RegistryMoves

-----------------------------------------------------------------------------
(* The theorems.                                                           *)

LEMMA InitIInv == Init => IInv
<1> SUFFICES ASSUME Init PROVE IInv
  OBVIOUS
<1> USE DEF Init, RegistryInit
<1>1. Types
  <2>1. \A p \in Procs : <<>> \in Seq(1..MaxRuns) /\ Len(<<>>) = 0 /\ Len(<<>>) < RoundsOf(p)
    BY RoundFacts
  <2>2. /\ saved \in [Procs -> Seq(1..MaxRuns)]
        /\ \A p \in Procs : Len(saved[p]) <= RoundsOf(p) /\ Len(saved[p]) < RoundsOf(p)
    BY <2>1, RoundFacts
  <2>3. QED
    BY <2>2, FinetuneAssumption DEF Types, Steps
<1>2. Known = {}
  BY DEF Known
<1>3. Fresh /\ Unlisted
  BY <1>2 DEF Fresh, Unlisted, Procs, Orchestrators
<1>4. HandListed
  BY <1>2 DEF HandListed, Procs
<1>5. Ready
  <2>1. \A p \in Procs : pc[p] # "done" /\ Dir(p) \in Dirs
    BY <1>1, DirIn
  <2>2. QED
    BY <2>1 DEF Ready, InHand
<1>6. HandWhole
  <2>1. \A h \in Hands : <<h, 1>> \in Dirs
    BY RoundFacts, DirIs DEF Procs
  <2>2. QED
    BY <2>1 DEF HandWhole
<1>7. RecordedSurvive
  <2>1. \A p \in Orchestrators : Len(saved[p]) = 0
    BY DEF Procs
  <2>2. QED
    BY <2>1 DEF RecordedSurvive
<1>8. OneAdapter /\ Listed /\ CitedOrInState /\ HandsOnce
  BY <1>2 DEF OneAdapter, Listed, CitedOrInState, HandsOnce
<1>9. StrippedRecorded /\ Order /\ Scanned /\ Planned
  BY <1>2 DEF StrippedRecorded, Order, Scanned, Planned
<1>10. Newer /\ EvidenceStands /\ AckedIsListed
  BY DEF Newer, Once, Loaded, EvidenceStands, AckedIsListed
<1>11. QED
  BY <1>1, <1>3, <1>4, <1>5, <1>6, <1>7, <1>8, <1>9, <1>10 DEF IInv

LEMMA IInvStep == IInv /\ [Next]_vars => IInv'
<1> SUFFICES ASSUME IInv, [Next]_vars PROVE IInv'
  OBVIOUS
<1> USE DEF IInv
<1>1. Types' /\ Ready' /\ HandWhole'
  BY TypeStep, ReadyStep, HandWholeStep
<1>2. Fresh' /\ Unlisted' /\ HandListed' /\ OneAdapter'
  BY FreshStep, UnlistedStep, HandListedStep, OneAdapterStep
<1>3. StrippedRecorded' /\ Listed' /\ CitedOrInState' /\ HandsOnce' /\ Order'
  BY StrippedStep, ListedStep, CitedOrInStateStep, HandsOnceStep, OrderStep
<1>4. Scanned' /\ Planned' /\ Newer'
  BY ScannedStep, PlannedStep, NewerStep
<1>5. RecordedSurvive' /\ EvidenceStands' /\ AckedIsListed'
  BY RecordedStep, EvidenceStep, AckedStep
<1>6. QED
  BY <1>1, <1>2, <1>3, <1>4, <1>5

\* The inductive invariant holds throughout.
LEMMA Inductive == Spec => []IInv
  BY InitIInv, IInvStep, PTL DEF Spec

\* A line is torn or it is not.
TornOK == torn \in BOOLEAN

LEMMA TornTyped == Spec => []TornOK
<1>1. Init => TornOK
  BY DEF Init, RegistryInit, TornOK
<1>2. TornOK /\ [Next]_vars => TornOK'
  <2> SUFFICES ASSUME torn \in BOOLEAN, [Next]_vars, torn' # torn
               PROVE  torn' \in BOOLEAN
    BY DEF TornOK
  <2>1. torn' = FALSE \/ torn' = TRUE
    BY Zenon DEF Next, Step, Gc, Tune, Train, Stamp, Final, SkipFinal, Register,
       RegisterFails, Save, Crash, Resume, GoesOn, GcLoad, GcBundles, GcJournals,
       GcDelete, GcTombstone, GcDone, GcCrash, GcStops, Prune, AppendEvent,
       TearAppend, Evaluate, vars, registryVars
  <2>2. QED
    BY <2>1
<1>3. QED
  BY <1>1, <1>2, PTL DEF Spec

\* Registry, bundles, records and directories keep their types whatever is
\* killed when: the rounds recorded stay within the rounds asked for.
THEOREM TypeCorrect == Spec => []TypeOK
<1>1. IInv /\ TornOK => TypeOK
  BY DEF IInv, TypeOK, TornOK
<1>2. QED
  BY <1>1, Inductive, TornTyped, PTL

\* gc-adapters never deletes or changes the adapter of a round that a loop's
\* state.json or a campaign's journal records, however often the round was killed
\* and trained over into the same directory, unless an operator deleted a run
\* bundle of that directory which alone cited a registered adapter.
THEOREM RecordedKept == Spec => []RecordedSurvive
<1>1. IInv => RecordedSurvive
  BY DEF IInv
<1>2. QED
  BY <1>1, Inductive, PTL

\* No published run bundle is left without the adapter it was served from, but for
\* a directory stripped of such a bundle and for a hand adapter that was first
\* evaluated when gc-adapters had looked at the bundles.
THEOREM EvidenceKept == Spec => []EvidenceStands
<1>1. IInv => EvidenceStands
  BY DEF IInv
<1>2. QED
  BY <1>1, Inductive, PTL

\* The newest registered adapter is never collected, whatever is registered anew
\* or deleted while gc-adapters runs, unless its own directory was stripped.
THEOREM NewestKept == Spec => []NewestSurvives
<1>1. IInv => NewestSurvives
  <2> SUFFICES ASSUME IInv, NEW e \in entries, \A o \in entries : o.seq <= e.seq, Dead(e)
               PROVE  FALSE
    BY DEF NewestSurvives, Dead
  <2>1. PICK o \in entries : o.seq > e.seq
    BY DEF IInv, Newer, Outlived
  <2>2. o \in Known /\ e \in Known
    BY DEF Known
  <2>3. o.seq \in Nat /\ e.seq \in Nat
    BY <2>2, Sizes DEF IInv
  <2>4. QED
    BY <2>1, <2>3
<1>2. QED
  BY <1>1, Inductive, PTL

\* A registration that returned stays listed until its adapter is deleted,
\* torn lines notwithstanding.
THEOREM AckedKept == Spec => []AckedIsListed
<1>1. IInv => AckedIsListed
  BY DEF IInv
<1>2. QED
  BY <1>1, Inductive, PTL
=============================================================================
