---------------------------- MODULE SelfImprove ----------------------------
(***************************************************************************)
(* Fine-tuning orchestration and adapter garbage collection                *)
(* (llb.finetune): self-improvement loops that resume from state.json,     *)
(* campaign entries that resume from a journal, adapters trained by hand,  *)
(* and gc-adapters, which deletes superseded adapters that no durable      *)
(* artifact cites.  They share the adapter registry, the published run     *)
(* bundles and the adapter directories, and each may be killed between any *)
(* two steps.                                                              *)
(*                                                                         *)
(* The digest of an adapter is a function of its dataset, and a dataset    *)
(* names the tuning run it was exported from: an adapter is identified by  *)
(* the number of that run.  A loop exports a dataset every round; the      *)
(* entry of a campaign and a hand training keep the one that is there, so  *)
(* training again gives the same digest.  Evaluation and training are      *)
(* taken for what they leave on disk, the verdict is any.                  *)
(***************************************************************************)
EXTENDS AdapterRegistry, Sequences

CONSTANTS Loops,       \* self-improve campaign directories
          Campaigns,   \* finetune-campaign entries (one round each, the default)
          Hands,       \* adapters trained and registered by hand, one directory each
          Rounds,      \* rounds asked of a loop
          MaxRuns,     \* bound: tuning runs
          MaxCrashes,  \* bound: killed processes
          Prunes       \* whose recorded rounds an operator deletes run bundles of

Orchestrators == Loops \cup Campaigns
Procs == Orchestrators \cup Hands
RoundsOf(p) == IF p \in Loops THEN Rounds ELSE 1
Dirs == UNION {{<<p, k>> : k \in 1..RoundsOf(p)} : p \in Procs}

ASSUME FinetuneAssumption ==
  /\ Loops \cap Campaigns = {} /\ Orchestrators \cap Hands = {}
  /\ Rounds \in Nat \ {0} /\ MaxRuns \in Nat /\ MaxCrashes \in Nat
  /\ Prunes \subseteq Orchestrators

VARIABLES
  pc,        \* where each process is
  dataset,   \* the tuning run its dataset was exported from, 0 for none
  weights,   \* id of the weights in each adapter directory, 0 for no directory
  manifest,  \* adapter_digest of its adapter_manifest.json, 0 for none
  bundles,   \* adapters [id, dir] that a published run bundle cites
  saved,     \* adapter of each recorded round: state.json, or the journal
  acked,     \* history: ids whose registration returned, not deleted since
  stripped,  \* history: directories an operator deleted a run bundle of which alone
             \* cited a registered adapter
  late,      \* history: directories first evaluated when gc-adapters had already
             \* looked for their bundles
  gcpc,      \* where gc-adapters is
  seen,      \* entries it loaded
  cited,     \* ids it found cited
  plan,      \* entries it is going to delete
  runs,      \* bound: tuning runs so far
  crashes    \* bound: killed processes so far

disk == <<weights, manifest>>
gcVars == <<gcpc, seen, cited, plan>>
exempt == <<stripped, late>>
vars == <<registryVars, pc, dataset, disk, bundles, saved, acked, exempt, gcVars,
          runs, crashes>>

Steps == {"tune", "train", "stamp", "final", "register", "save"}

Dir(p) == <<p, Len(saved[p]) + 1>>          \* round-N/adapter
Previous(p) == <<p, Len(saved[p])>>         \* reports[-1].adapter_dir

Init ==
  /\ RegistryInit
  /\ pc = [p \in Procs |-> "tune"] /\ dataset = [p \in Procs |-> 0]
  /\ weights = [d \in Dirs |-> 0] /\ manifest = [d \in Dirs |-> 0]
  /\ bundles = {} /\ saved = [p \in Procs |-> <<>>] /\ acked = {}
  /\ stripped = {} /\ late = {}
  /\ gcpc = "idle" /\ seen = {} /\ cited = {} /\ plan = {}
  /\ runs = 0 /\ crashes = 0

-----------------------------------------------------------------------------
(* One round: tuning eval, export, training, final eval, registration,    *)
(* record.                                                                 *)

Goto(p, step) == pc' = [pc EXCEPT ![p] = step]

\* An evaluation refuses an adapter directory without a manifest, and the
\* bundle it publishes cites the digest the manifest gives and the path.
Citation(d) == [id |-> manifest[d], dir |-> d]

\* The digest of the dataset the next training reads.
Exports(p) == p \in Loops \/ dataset[p] = 0

\* The tuning eval of a later round runs the adapter of the round before;
\* without it the process ends in an error.
Tune(p) ==
  /\ pc[p] = "tune"
  /\ IF saved[p] # <<>> /\ manifest[Previous(p)] = 0
     THEN Goto(p, "dead") /\ UNCHANGED <<dataset, bundles, runs>>
     ELSE /\ bundles' = IF saved[p] # <<>>
                        THEN bundles \cup {Citation(Previous(p))} ELSE bundles
          /\ IF Exports(p)
             THEN /\ runs < MaxRuns
                  /\ runs' = runs + 1
                  /\ dataset' = [dataset EXCEPT ![p] = runs + 1]
             ELSE UNCHANGED <<dataset, runs>>
          /\ Goto(p, "train")
  /\ UNCHANGED <<registryVars, disk, saved, acked, exempt, gcVars, crashes>>

Train(p) ==
  /\ pc[p] = "train"
  /\ weights' = [weights EXCEPT ![Dir(p)] = dataset[p]]
  /\ Goto(p, "stamp")
  /\ UNCHANGED <<registryVars, dataset, manifest, bundles, saved, acked,
                 exempt, gcVars, runs, crashes>>

\* _finalize_adapter: the manifest follows the weights.
Stamp(p) ==
  /\ pc[p] = "stamp"
  /\ manifest' = [manifest EXCEPT ![Dir(p)] = dataset[p]]
  /\ Goto(p, "final")
  /\ UNCHANGED <<registryVars, dataset, weights, bundles, saved, acked, exempt,
                 gcVars, runs, crashes>>

\* The final eval publishes a bundle; a hand training need not be evaluated.
Final(p) ==
  /\ pc[p] = "final"
  /\ bundles' = bundles \cup {Citation(Dir(p))}
  /\ Goto(p, "register")
  /\ UNCHANGED <<registryVars, dataset, disk, saved, acked, exempt, gcVars,
                 runs, crashes>>

SkipFinal(p) ==
  /\ p \in Hands /\ pc[p] = "final"
  /\ Goto(p, "register")
  /\ UNCHANGED <<registryVars, dataset, disk, bundles, saved, acked, exempt,
                 gcVars, runs, crashes>>

\* run-eval --adapter of a registered hand adapter.  It looked for the directory
\* when it started; what the collector has done since does not stop it.
Evaluate(h) ==
  LET d == <<h, 1>> IN
  /\ h \in Hands /\ pc[h] = "done"
  /\ bundles' = bundles \cup {[id |-> dataset[h], dir |-> d]}
  /\ late' = IF /\ \A b \in bundles : b.dir # d
                /\ gcpc \in {"journals", "delete", "tombstone"} \/ manifest[d] = 0
             THEN late \cup {d} ELSE late
  /\ UNCHANGED <<registryVars, pc, dataset, disk, saved, acked, stripped, gcVars,
                 runs, crashes>>

AfterRegister(p) == IF p \in Hands THEN "done" ELSE "save"

\* register_adapter() reads the registry again after its append.  The mutant
\* takes it for granted.
ReadsNothing(id, es) == TRUE

Reads(id, es) == id \in Ids(es)

\* The entry is appended and read back.  Nothing catches the KeyError of an
\* entry that is not there: it ends the process.
Register(p) ==
  LET id == manifest[Dir(p)]
      es == Registered(id, Dir(p))
  IN /\ pc[p] = "register"
     /\ AppendEvent(es, 1)
     /\ \/ /\ Reads(id, AfterAppend(es))
           /\ acked' = acked \cup {id}
           /\ Goto(p, AfterRegister(p))
        \/ /\ ~Reads(id, AfterAppend(es))
           /\ acked' = acked
           /\ Goto(p, "dead")
     /\ UNCHANGED <<dataset, disk, bundles, saved, exempt, gcVars, runs,
                    crashes>>

\* try_register_adapter: an orchestrator goes on without a registration the
\* disk refused.
RegisterFails(p) ==
  /\ p \in Orchestrators /\ pc[p] = "register"
  /\ Goto(p, "save")
  /\ UNCHANGED <<registryVars, dataset, disk, bundles, saved, acked, exempt,
                 gcVars, runs, crashes>>

\* state.json is replaced, or the journal line appended.  A loop ends at the
\* first rejected round.  The mutant goes one round too far.
EndsLate(p, verdict) == verdict = "reject" \/ Len(saved[p]) >= RoundsOf(p)

Ends(p, verdict) == verdict = "reject" \/ Len(saved[p]) + 1 >= RoundsOf(p)

Save(p, verdict) ==
  /\ pc[p] = "save"
  /\ saved' = [saved EXCEPT ![p] = Append(@, dataset[p])]
  /\ Goto(p, IF Ends(p, verdict) THEN "done" ELSE "tune")
  /\ UNCHANGED <<registryVars, dataset, disk, bundles, acked, exempt, gcVars,
                 runs, crashes>>

-----------------------------------------------------------------------------
(* Kills and resumption.                                                   *)

\* Killed between two steps; inside append_event the line may be torn.  (Killed
\* once the line is whole is killed at the next step.)
Crash(p) ==
  /\ pc[p] \in Steps /\ crashes < MaxCrashes
  /\ crashes' = crashes + 1
  /\ IF pc[p] = "register" THEN TearAppend ELSE UNCHANGED registryVars
  /\ Goto(p, "dead")
  /\ UNCHANGED <<dataset, disk, bundles, saved, acked, exempt, gcVars, runs>>

\* An orchestrator starts the first round that is not recorded over, in the
\* same directory; a hand training whose adapter is there is not repeated.
ResumesAt(p) == IF p \in Hands /\ manifest[Dir(p)] # 0 THEN "final" ELSE "tune"

Resume(p) ==
  /\ pc[p] = "dead"
  /\ Goto(p, ResumesAt(p))
  /\ UNCHANGED <<registryVars, dataset, disk, bundles, saved, acked, exempt,
                 gcVars, runs, crashes>>

\* Resuming a loop that ended with a rejected round goes on from the
\* rejected adapter.
GoesOn(p) ==
  /\ p \in Loops /\ pc[p] = "done" /\ Len(saved[p]) < Rounds
  /\ Goto(p, "tune")
  /\ UNCHANGED <<registryVars, dataset, disk, bundles, saved, acked, exempt,
                 gcVars, runs, crashes>>

-----------------------------------------------------------------------------
(* gc-adapters.                                                            *)

GcLoad ==
  /\ gcpc = "idle"
  /\ seen' = entries
  /\ gcpc' = "bundles"
  /\ UNCHANGED <<registryVars, pc, dataset, disk, bundles, saved, acked,
                 exempt, cited, plan, runs, crashes>>

\* A bundle cites by the digest it records and by the path it served from.  The
\* mutant looks at the path only.
CitedByPath(b) == IdsOfDir(seen, b.dir)

CitedBy(b) == {b.id} \cup IdsOfDir(seen, b.dir)

GcBundles ==
  /\ gcpc = "bundles"
  /\ cited' = UNION {CitedBy(b) : b \in bundles}
  /\ gcpc' = "journals"
  /\ UNCHANGED <<registryVars, pc, dataset, disk, bundles, saved, acked,
                 exempt, seen, plan, runs, crashes>>

\* Rows are matched by their top-level adapter_dir.  A state.json has it; a
\* campaign journal nests it under "entry", and none of its rows match.
\* The mutant misses the last row.
RowDirsButLast == {<<p, k>> : p \in Loops, k \in 1..Rounds} \cap
                  {d \in Dirs : d[2] < Len(saved[d[1]])}

RowDirs == {<<p, k>> : p \in Loops, k \in 1..Rounds} \cap
           {d \in Dirs : d[2] <= Len(saved[d[1]])}

\* The mutant reads no state.json.
CitedInNoJournal == {}

CitedInJournals == UNION {IdsOfDir(seen, d) : d \in RowDirs}

Deletable(es, ids) == {e \in Superseded(es) : e.id \notin ids}

GcJournals ==
  /\ gcpc = "journals"
  /\ plan' = Deletable(seen, cited \cup CitedInJournals)
  /\ seen' = {} /\ cited' = {}
  /\ gcpc' = "delete"
  /\ UNCHANGED <<registryVars, pc, dataset, disk, bundles, saved, acked,
                 exempt, runs, crashes>>

\* The directory goes first, the tombstone follows: plan keeps the entry
\* until it is written.
GcDelete(e) ==
  /\ gcpc = "delete" /\ e \in plan
  /\ weights' = [weights EXCEPT ![e.dir] = 0]
  /\ manifest' = [manifest EXCEPT ![e.dir] = 0]
  /\ acked' = acked \ {e.id}
  /\ seen' = {e} /\ gcpc' = "tombstone"
  /\ UNCHANGED <<registryVars, pc, dataset, bundles, saved, exempt, cited,
                 plan, runs, crashes>>

GcTombstone ==
  /\ gcpc = "tombstone"
  /\ AppendEvent({e \in entries : e.id \notin Ids(seen)}, 0)
  /\ plan' = plan \ seen /\ seen' = {}
  /\ gcpc' = "delete"
  /\ UNCHANGED <<pc, dataset, disk, bundles, saved, acked, exempt, cited, runs,
                 crashes>>

GcStops ==
  /\ gcpc' = "idle" /\ seen' = {} /\ cited' = {} /\ plan' = {}
  /\ UNCHANGED <<pc, dataset, disk, bundles, saved, acked, exempt, runs>>

GcDone ==
  /\ gcpc = "delete" /\ plan = {}
  /\ GcStops
  /\ UNCHANGED <<registryVars, crashes>>

GcCrash ==
  /\ gcpc # "idle" /\ crashes < MaxCrashes
  /\ crashes' = crashes + 1
  /\ IF gcpc = "tombstone" THEN TearAppend ELSE UNCHANGED registryVars
  /\ GcStops

-----------------------------------------------------------------------------
\* External: an operator deletes run bundles of a recorded round, those that a
\* killed attempt of it left included.
Recorded(d) == d[1] \in Orchestrators /\ d[2] <= Len(saved[d[1]])

\* The bundle is all that cites its adapter: state.json, which gives no digest,
\* cites the one that its directory is known by.
AloneCites(b) == /\ b.id \in Ids(entries)
                 /\ b.dir[1] \in Loops => b.id \notin IdsOfDir(entries, b.dir)

Prune(b) ==
  /\ b \in bundles /\ b.dir[1] \in Prunes /\ Recorded(b.dir)
  /\ bundles' = bundles \ {b}
  /\ stripped' = IF AloneCites(b) THEN stripped \cup {b.dir} ELSE stripped
  /\ UNCHANGED <<registryVars, pc, dataset, disk, saved, acked, late, gcVars, runs,
                 crashes>>

Step(p) == Tune(p) \/ Train(p) \/ Stamp(p) \/ Final(p) \/ SkipFinal(p)
           \/ Register(p) \/ RegisterFails(p)
           \/ \E verdict \in {"accept", "reject"} :
                p \in Orchestrators /\ Save(p, verdict)

Gc == GcLoad \/ GcBundles \/ GcJournals \/ (\E e \in plan : GcDelete(e))
      \/ GcTombstone \/ GcDone \/ GcCrash

Next ==
  \/ \E p \in Procs : Step(p) \/ Crash(p) \/ Resume(p) \/ GoesOn(p)
  \/ Gc
  \/ \E h \in Hands : Evaluate(h)
  \/ \E b \in bundles : Prune(b)

Spec == Init /\ [][Next]_vars

\* A process that was started runs; an operator resumes what died.
FairSpec == Spec /\ \A p \in Procs : WF_vars(Step(p)) /\ WF_vars(Resume(p))

-----------------------------------------------------------------------------
\* Type invariant.
Entry == [id : 1..MaxRuns, dir : Dirs, seq : Nat]

Types ==
  /\ entries \subseteq Entry /\ seq \in Nat
  /\ pc \in [Procs -> Steps \cup {"dead", "done"}]
  /\ dataset \in [Procs -> 0..MaxRuns]
  /\ weights \in [Dirs -> 0..MaxRuns] /\ manifest \in [Dirs -> 0..MaxRuns]
  /\ bundles \subseteq [id : 1..MaxRuns, dir : Dirs]
  /\ saved \in [Procs -> Seq(1..MaxRuns)]
  /\ \A p \in Procs :
       /\ Len(saved[p]) <= RoundsOf(p)
       /\ pc[p] # "done" => Len(saved[p]) < RoundsOf(p)
  /\ acked \subseteq 1..MaxRuns /\ stripped \subseteq Dirs /\ late \subseteq Dirs
  /\ gcpc \in {"idle", "bundles", "journals", "delete", "tombstone"}
  /\ seen \subseteq Entry /\ cited \subseteq 1..MaxRuns /\ plan \subseteq Entry
  /\ runs \in 0..MaxRuns /\ crashes \in 0..MaxCrashes

TypeOK == Types /\ torn \in BOOLEAN

\* What state.json and the journal record of a round stays: its directory
\* holds the weights and the manifest of the adapter that was evaluated,
\* whatever gc-adapters deletes in the meantime, unless an operator deleted a run
\* bundle of it which alone cited a registered adapter.
RecordStands(p, k) == weights[<<p, k>>] = saved[p][k] /\ manifest[<<p, k>>] = saved[p][k]
RecordedSurvive ==
  \A p \in Orchestrators : \A k \in 1..Len(saved[p]) :
     <<p, k>> \in stripped \/ RecordStands(p, k)

\* Evidence is not stranded: the directory a published run bundle served an
\* adapter from is still there, with the same exception, and unless a registered
\* adapter was evaluated for the first time beside a collector that had looked at
\* the bundles before.
EvidenceStands ==
  \A b \in bundles : b.dir \in stripped \cup late \/ weights[b.dir] # 0

\* What the documentation says, without the exceptions (lifecycle.py:3): a
\* recorded adapter is cited by its record, an evaluated one by its bundle.
CitationsHold ==
  /\ \A p \in Orchestrators : \A k \in 1..Len(saved[p]) : RecordStands(p, k)
  /\ \A b \in bundles : weights[b.dir] # 0

\* The newest registered adapter is never collected, with the first exception.
NewestSurvives ==
  \A e \in entries : (\A o \in entries : o.seq <= e.seq) =>
    e.dir \in stripped \/ weights[e.dir] # 0

\* A registration that returned is listed until gc-adapters deletes it, even
\* when its line was glued to one that a kill had torn.
AckedIsListed == acked \subseteq Ids(entries)

\* Every loop, campaign and hand training comes to its end and stays there: no
\* process is left resuming for ever over an adapter that was deleted, with the
\* exception of RecordedSurvive.
EverythingEnds ==
  <>[](\A p \in Procs : pc[p] = "done" \/ \E d \in stripped : d[1] = p)
=============================================================================
