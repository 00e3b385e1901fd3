----------------------------- MODULE DurableRun -----------------------------
(***************************************************************************)
(* One evaluation run of executor/runner.py: cases executed in order with  *)
(* retries and backend relaunches (executor/durability.py), the append-    *)
(* only case journal (executor/durability_journal.py), interruption, crash *)
(* and resume of its staging directory (executor/runner_target.py), and    *)
(* the publication of the bundle (tracking/manifest.py).                   *)
(*                                                                         *)
(* A journaled state is represented by the configuration it was computed   *)
(* under: that is what a resume must not mix.                              *)
(***************************************************************************)
EXTENDS Naturals

CONSTANTS N,           \* number of gold items; they run in the order 1..N
          Configs,     \* configuration and goldset fingerprints
          MaxRetries,  \* policy.max_case_retries
          MaxRelaunches, \* policy.max_backend_relaunches
          MaxSessions, \* bound: processes started for this run
          Faults       \* which of "tear", "finalize", "abort" happen

Items == 1..N
Missing == "missing"
FaultKinds == {"tear",      \* a write of the journal stops half way
               "finalize",  \* the process dies or fails while it publishes
               "abort"}     \* an exception leaves the case loop

ASSUME RunAssumption ==
  /\ N \in Nat \ {0}
  /\ MaxRetries \in Nat /\ MaxRelaunches \in Nat /\ MaxSessions \in Nat
  /\ Faults \subseteq FaultKinds
  /\ Missing \notin Configs /\ Configs # {}

VARIABLES
  staging,     \* the staging directory exists
  meta,        \* cases.progress.meta.json: the pinned fingerprint
  journal,     \* cases.progress.jsonl: the readable record of each item
  ragged,      \* ... which does not end with a newline
  last,        \* the item of that unterminated line, 0 if it is a fragment
  broken,      \* ... which ends inside a multi-byte character
  staged,      \* manifest.json and scores.jsonl are in the staging directory
  bundle,      \* the published rows
  published,   \* run_dir exists; the fingerprint of its manifest
  pc,          \* where the process is; "down" when there is none
  resumed,     \* the process was started with --resume
  config,      \* the process's fingerprint
  done,        \* journal._done and the rows computed so far
  at,          \* the item of the loop
  attempt,     \* _run_case_with_retry: retries since the last (re)launch
  relaunches,  \* _run_case_with_retry: relaunches_used
  sessions,    \* history: processes started, bounded
  calls,       \* history: model calls for the current item in this session,
               \* counted up to one more than CallLimit
  recorded,    \* history: items whose record() returned
  struck       \* history: the kinds of faults that have happened

file    == <<journal, ragged, last, broken>>
disk    == <<staging, meta, file, staged, bundle, published>>
process == <<resumed, config, done, at, attempt, relaunches>>
vars == <<staging, meta, journal, ragged, last, broken, staged, bundle,
          published, pc, resumed, config, done, at, attempt, relaunches,
          sessions, calls, recorded, struck>>

States == Configs \cup {Missing}
Empty == [i \in Items |-> Missing]
Steps == {"down", "pinning", "wiring", "loading", "loop", "call",
          "relaunch", "record", "probe", "judge", "drop", "dropping", "persist",
          "publish", "mirror"}
InTry == {"wiring", "loading", "loop", "call", "relaunch", "record", "probe"}
Finalizing == {"dropping", "persist", "publish"}
Holding == {"loop", "call", "relaunch", "record", "probe", "judge", "drop"}
           \cup Finalizing

\* The calls one case may cost: a round of attempts, and one per relaunch.
CallLimit == (MaxRetries + 1) * (MaxRelaunches + 1)

Init ==
  /\ staging = FALSE /\ meta = Missing
  /\ journal = Empty /\ ragged = FALSE /\ last = 0 /\ broken = FALSE
  /\ staged = FALSE /\ bundle = Empty /\ published = Missing
  /\ pc = "down" /\ resumed = FALSE /\ config = CHOOSE c \in Configs : TRUE
  /\ done = Empty /\ at = 1 /\ attempt = 0 /\ relaunches = 0
  /\ sessions = 0 /\ calls = 0 /\ recorded = {} /\ struck = {}

-----------------------------------------------------------------------------
(* Start: a fresh staging directory, or the one of an interrupted run.     *)

Start(c, asResume) ==
  /\ pc = "down" /\ sessions < MaxSessions
  /\ sessions' = sessions + 1
  /\ resumed' = asResume /\ config' = c
  /\ done' = Empty /\ at' = 1 /\ attempt' = 0 /\ relaunches' = 0 /\ calls' = 0

\* A new run id: its staging directory is made ...
StartFresh(c) ==
  /\ sessions = 0
  /\ Start(c, FALSE)
  /\ pc' = "pinning"
  /\ staging' = TRUE
  /\ UNCHANGED <<meta, file, staged, bundle, published, recorded, struck>>

\* ... and its identity is pinned in one atomic write.
Pin ==
  /\ pc = "pinning"
  /\ pc' = "wiring"
  /\ meta' = config
  /\ UNCHANGED <<staging, file, staged, bundle, published, process, sessions,
                 calls, recorded, struck>>

\* verify_resume_meta; trusting it is the mutant.
MetaMatchesAny(c) == meta # Missing
MetaMatches(c) == meta = c

\* A resume is refused once the run directory exists, without a staging
\* directory or its meta, and when the fingerprint has changed.
StartResume(c) ==
  /\ published = Missing /\ staging /\ MetaMatches(c)
  /\ Start(c, TRUE)
  /\ pc' = "wiring"
  /\ UNCHANGED <<disk, recorded, struck>>

\* The backend and the store are resolved and serving.
Wired ==
  /\ pc = "wiring"
  /\ pc' = "loading"
  /\ UNCHANGED <<disk, process, sessions, calls, recorded, struck>>

\* What load() puts in _done; not calling it is the mutant.
LoadedNone == Empty
Loaded == journal

\* CaseJournal.load: malformed lines are skipped ...
Load ==
  /\ pc = "loading" /\ ~ broken
  /\ pc' = "loop"
  /\ done' = Loaded
  /\ UNCHANGED <<disk, resumed, config, at, attempt, relaunches, sessions,
                 calls, recorded, struck>>

\* ... but text that does not decode raises before a line is looked at, and
\* the failed resume keeps its staging directory.
LoadFails ==
  /\ pc = "loading" /\ broken
  /\ pc' = "down"
  /\ UNCHANGED <<disk, process, sessions, calls, recorded, struck>>

-----------------------------------------------------------------------------
(* The case loop.                                                          *)

\* The next item: reuse its journaled state, or call the model for it.
NextItem ==
  /\ pc = "loop"
  /\ \/ /\ at > N
        /\ pc' = "probe"
        /\ UNCHANGED <<at, attempt, relaunches, calls>>
     \/ /\ at <= N /\ done[at] # Missing
        /\ at' = at + 1
        /\ UNCHANGED <<pc, attempt, relaunches, calls>>
     \/ /\ at <= N /\ done[at] = Missing
        /\ pc' = "call"
        /\ attempt' = 0 /\ relaunches' = 0 /\ calls' = 0
        /\ UNCHANGED at
  /\ UNCHANGED <<disk, resumed, config, done, sessions, recorded, struck>>

\* Whether a failed call is retried; the mutant is off by one.
RetriesLeftInclusive == attempt <= MaxRetries
RetriesLeft == attempt < MaxRetries

\* runner_fn answers: a final status, or a transport failure (timeout,
\* backend_error), which is retried, then met with a relaunch, then final.
CallModel ==
  /\ pc = "call"
  /\ calls' = IF calls <= CallLimit THEN calls + 1 ELSE calls
  /\ \/ /\ pc' = "record"
        /\ UNCHANGED attempt
     \/ /\ RetriesLeft
        /\ attempt' = attempt + 1
        /\ UNCHANGED pc
     \/ /\ ~ RetriesLeft /\ relaunches < MaxRelaunches
        /\ pc' = "relaunch"
        /\ UNCHANGED attempt
  /\ UNCHANGED <<disk, resumed, config, done, at, relaunches, sessions,
                 recorded, struck>>

\* relaunches_used counts the relaunches; not counting them is the mutant.
RelaunchUncounted == relaunches
RelaunchCount == relaunches + 1

\* backend.stop(); backend.start(): then another full round of attempts.
Relaunch ==
  /\ pc = "relaunch"
  /\ pc' = "call"
  /\ attempt' = 0
  /\ relaunches' = RelaunchCount
  /\ UNCHANGED <<disk, resumed, config, done, at, sessions, calls, recorded, struck>>

\* Opened for writing, the journal keeps only the last line (a mutant).
AppendTruncates(i, c) ==
  /\ journal' = [Empty EXCEPT ![i] = c]
  /\ ragged' = FALSE /\ last' = 0 /\ broken' = FALSE

\* What one appended line does to the file: it is glued to an unterminated
\* line, and then neither of the two can be read.
Append(i, c) ==
  /\ journal' = [j \in Items |->
       IF ragged /\ j \in {i, last} THEN Missing
       ELSE IF j = i THEN c ELSE journal[j]]
  /\ ragged' = FALSE /\ last' = 0 /\ broken' = FALSE

\* CaseJournal.record: the line, then _done; the row is scored from it.
Record ==
  /\ pc = "record"
  /\ pc' = "loop"
  /\ Append(at, config)
  /\ done' = [done EXCEPT ![at] = config]
  /\ recorded' = recorded \cup {at}
  /\ at' = at + 1
  /\ UNCHANGED <<staging, meta, staged, bundle, published, resumed, config,
                 attempt, relaunches, sessions, calls, struck>>

-----------------------------------------------------------------------------
(* The end of a run.                                                       *)

\* Telemetry and probes still run inside the try block.
Probed ==
  /\ pc = "probe"
  /\ pc' = "judge"
  /\ UNCHANGED <<disk, process, sessions, calls, recorded, struck>>

\* Judging and aggregation change nothing on disk that the model keeps.
Judged ==
  /\ pc = "judge"
  /\ pc' = "drop"
  /\ UNCHANGED <<disk, process, sessions, calls, recorded, struck>>

\* drop_journal: the journal is unlinked, then its meta.
DropJournal ==
  /\ pc = "drop"
  /\ pc' = "dropping"
  /\ journal' = Empty /\ ragged' = FALSE /\ last' = 0 /\ broken' = FALSE
  /\ UNCHANGED <<staging, meta, staged, bundle, published, process, sessions,
                 calls, recorded, struck>>

DropMeta ==
  /\ pc = "dropping"
  /\ pc' = "persist"
  /\ meta' = Missing
  /\ UNCHANGED <<staging, file, staged, bundle, published, process, sessions,
                 calls, recorded, struck>>

\* persist_run stages manifest, scores and retrieval rows and validates them.
Persist ==
  /\ pc = "persist" /\ ~ staged
  /\ pc' = "publish"
  /\ staged' = TRUE
  /\ UNCHANGED <<staging, meta, file, bundle, published,
                 process, sessions, calls, recorded, struck>>

\* The rename makes the staged members visible as the run directory.
Publish ==
  /\ pc = "publish"
  /\ pc' = "mirror"
  /\ published' = config /\ bundle' = done
  /\ staging' = FALSE /\ staged' = FALSE
  /\ UNCHANGED <<meta, file, process, sessions, calls,
                 recorded, struck>>

\* The mirror may fail; the process ends.
Mirror ==
  /\ pc = "mirror"
  /\ pc' = "down"
  /\ UNCHANGED <<disk, process, sessions, calls, recorded, struck>>

-----------------------------------------------------------------------------
(* What cuts a run short.                                                  *)

\* A kill, or a KeyboardInterrupt in the try block, which keeps the staging
\* directory; after the loop an exception of the judge has no handler.
Stop ==
  /\ pc # "down"
  /\ pc \in Finalizing => "finalize" \in Faults
  /\ struck' = IF pc \in Finalizing THEN struck \cup {"finalize"} ELSE struck
  /\ pc' = "down"
  /\ UNCHANGED <<disk, process, sessions, calls, recorded>>

\* A kill in the middle of an append: a fragment, or the whole line without
\* its newline.
Tear ==
  /\ "tear" \in Faults
  /\ pc = "record"
  /\ struck' = struck \cup {"tear"}
  /\ pc' = "down"
  /\ \/ /\ ~ ragged
        /\ ragged' = TRUE
        /\ \/ last' = 0 /\ broken' \in BOOLEAN /\ UNCHANGED journal
           \/ /\ last' = at /\ broken' = FALSE
              /\ journal' = [journal EXCEPT ![at] = config]
     \/ /\ ragged
        /\ last' = 0 /\ broken' \in BOOLEAN
        /\ journal' = [j \in Items |->
                         IF j = last THEN Missing ELSE journal[j]]
        /\ UNCHANGED ragged
  /\ UNCHANGED <<staging, meta, staged, bundle, published, process, sessions,
                 calls, recorded>>

Wipe == /\ staging' = FALSE /\ meta' = Missing /\ staged' = FALSE
        /\ journal' = Empty /\ ragged' = FALSE /\ last' = 0 /\ broken' = FALSE

\* An exception in the try block (a launch or relaunch that fails, a bug):
\* _preserve_failed_staging deletes the staging directory of a fresh run.
Abort ==
  /\ "abort" \in Faults
  /\ pc \in InTry
  /\ struck' = struck \cup {"abort"}
  /\ pc' = "down"
  /\ IF resumed THEN UNCHANGED <<staging, meta, staged, file>>
                ELSE Wipe
  /\ UNCHANGED <<bundle, published, process, sessions, calls, recorded>>

\* An exception while the bundle is staged removes the staging directory.
PersistFails ==
  /\ "finalize" \in Faults
  /\ pc \in {"persist", "publish"}
  /\ struck' = struck \cup {"finalize"}
  /\ pc' = "down"
  /\ Wipe
  /\ UNCHANGED <<bundle, published, process, sessions, calls, recorded>>

-----------------------------------------------------------------------------
Run == \/ Pin \/ Wired \/ Load \/ LoadFails \/ NextItem \/ CallModel
       \/ Relaunch \/ Record \/ Probed \/ Judged \/ DropJournal \/ DropMeta \/ Persist
       \/ Publish \/ Mirror

Next == \/ \E c \in Configs : StartFresh(c) \/ StartResume(c)
        \/ Run
        \/ Stop \/ Tear \/ Abort \/ PersistFails

Spec == Init /\ [][Next]_vars
FairSpec == Spec /\ WF_vars(Run)

-----------------------------------------------------------------------------
TypeOK ==
  /\ staging \in BOOLEAN /\ ragged \in BOOLEAN
  /\ broken \in BOOLEAN /\ staged \in BOOLEAN
  /\ meta \in States /\ published \in States
  /\ journal \in [Items -> States]
  /\ bundle \in [Items -> States]
  /\ done \in [Items -> States]
  /\ last \in 0..N
  /\ pc \in Steps
  /\ resumed \in BOOLEAN /\ config \in Configs
  /\ at \in 1..(N + 1)
  /\ attempt \in 0..MaxRetries
  /\ relaunches \in 0..MaxRelaunches
  /\ sessions \in 0..MaxSessions
  /\ calls \in 0..(CallLimit + 1)
  /\ recorded \subseteq Items
  /\ struck \subseteq Faults

\* A published bundle is one run: every gold item has its row, and every row
\* was computed under the configuration the manifest states, however many
\* interrupted processes, torn lines and resumes came before.
BundleIsOneRun ==
  published # Missing => \A i \in Items : bundle[i] = published

\* What the journal still holds was computed under the configuration that is
\* pinned beside it: a resume that is accepted can reuse all of it.
JournalMatchesMeta ==
  \A i \in Items : meta # Missing /\ journal[i] # Missing => journal[i] = meta

\* The promise of executor/durability.py: between processes, a run that is
\* not published can be resumed with every case it completed.
NothingLost ==
  pc = "down" /\ published = Missing /\ recorded # {} =>
    /\ staging /\ meta # Missing
    /\ \A i \in recorded : journal[i] # Missing

\* Its second half: a completed case is never sent to the model again, by any
\* later process.
NeverRespent == pc = "call" => at \notin recorded

\* Both are kept for as long as no line was torn, no exception left the case
\* loop and no process died while publishing: kills and resumes anywhere else,
\* and resumes refused for their configuration, lose no completed case ...
KillsKeepAll == struck = {} => NothingLost

\* ... and pay for none of them twice.
KillsRespendNone == struck = {} => NeverRespent

\* A case costs at most one round of attempts per (re)launch.
CallBound == calls <= CallLimit

\* What a run has answered: a process that has read the journal goes by what
\* it holds, and what it holds goes into the bundle.
Answered ==
  IF pc \in Holding THEN done
  ELSE IF published # Missing THEN bundle ELSE journal

\* The fingerprint a run is pinned to: the pin goes before the bundle comes.
PinnedTo ==
  IF pc \in Finalizing THEN config
  ELSE IF published # Missing THEN published ELSE meta

Asked == IF pc \in {"call", "relaunch", "record"} THEN {at} ELSE {}

R == INSTANCE CaseRun WITH config <- PinnedTo, answered <- Answered,
                           asking <- Asked, mauled <- struck # {}

\* The journal, the staging directory and the processes of a run together keep
\* the promise of executor/durability.py: one configuration, no answer lost, none
\* asked for twice, nothing published but all of them.
ImplementsCaseRun == R!Spec

\* Every process comes to an end: retries and relaunches cannot keep a case,
\* and journaled cases cannot keep the loop, forever.
SessionEnds == pc # "down" ~> pc = "down"
=============================================================================
