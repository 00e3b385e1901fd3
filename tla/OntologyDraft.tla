--------------------------- MODULE OntologyDraft ---------------------------
(***************************************************************************)
(* One drafting bundle of prep/ontology/pipeline/run.py on the frontier    *)
(* route: a pool of threads sends the windows of each document to a paid   *)
(* endpoint (extraction/run.py) and journals the parsed answers            *)
(* (coverage/journal.py), then the main thread drafts from seeds.  All     *)
(* calls share one budget of calls and money (frontier/telemetry.py),      *)
(* which lives as long as the process; the journal outlives it.            *)
(*                                                                         *)
(* Both phases go to the frontier and both caps are set: an unset cap is   *)
(* one that is never reached.  One process runs at a time, kills fall      *)
(* between two writes, and the corpus does not change between processes.   *)
(***************************************************************************)
EXTENDS Naturals, FiniteSets

CONSTANTS Workers,     \* threads of the extraction pool
          Main,        \* the main thread, which drafts
          N,           \* windows of the corpus, in document order
          Ends,        \* the last window of each document
          Seeds,       \* draft calls after the extraction
          Retries,     \* parse_retries
          MaxCalls,    \* DraftBudget.max_calls
          MaxCost,     \* DraftBudget.max_usd, in units of cost
          Dearest,     \* the highest cost of one call
          MaxSessions  \* bound: processes started for this bundle

Actors == Workers \cup {Main}
Windows == 1..N

ASSUME DraftAssumption ==
  /\ IsFiniteSet(Workers) /\ Workers # {} /\ Main \notin Workers
  /\ N \in Nat \ {0} /\ Ends \subseteq Windows /\ N \in Ends
  /\ Seeds \in Nat /\ Retries \in Nat /\ MaxSessions \in Nat
  /\ MaxCalls \in Nat \ {0} /\ MaxCost \in Nat \ {0} /\ Dearest \in Nat

VARIABLES
  pinned,    \* extraction_journal.meta.json is written
  journal,   \* extraction_journal.jsonl: windows with a parsed answer
  pc,        \* the phase of the process; "down" when there is none
  done,      \* ExtractionJournal._done
  upto,      \* the windows up to this one are submitted
  next,      \* the head of the pool's queue
  seed,      \* draft calls started
  raised,    \* DraftBudgetExceeded has left a window or a draft
  calls,     \* DraftBudget.calls
  cost,      \* DraftBudget.cost_usd
  newest,    \* the cost of the last record of the log
  step,      \* where each thread is in a guarded call
  window,    \* the window of each thread
  tries,     \* its failed attempts
  parsed,    \* its answer is a JSON object
  share,     \* the cost it has read from the log, to be charged
  sessions,  \* history: processes started, bounded
  spent,     \* history: the cost of all calls that returned an answer
  lost,      \* history: parsed answers thrown away by the budget
  overlapped \* history: a call was reserved while another was in flight

disk == <<pinned, journal>>
queue == <<upto, next, seed>>
budget == <<calls, cost>>
thread == <<step, window, tries, parsed, share>>
history == <<sessions, spent, lost, overlapped>>
vars == <<disk, pc, done, queue, raised, budget, newest, thread, history>>

Phases == {"down", "pin", "extract", "draft", "write"}
Steps == {"idle", "ready", "calling", "logged", "read", "record"}

\* Between the reservation of a call and its charge.
InFlight == {a \in Actors : step[a] \in {"calling", "logged", "read"}}

Quiet == \A a \in Actors : step[a] = "idle"

\* One thread runs the windows itself and stops at the first exception; a pool
\* is left only when every submitted window has run.
Pooled == Cardinality(Workers) > 1

Init ==
  /\ pinned = FALSE /\ journal = {}
  /\ pc = "down" /\ done = {}
  /\ upto = 0 /\ next = 1 /\ seed = 0 /\ raised = FALSE
  /\ calls = 0 /\ cost = 0 /\ newest = 0
  /\ step = [a \in Actors |-> "idle"]
  /\ window = [a \in Actors |-> 0] /\ tries = [a \in Actors |-> 0]
  /\ parsed = [a \in Actors |-> FALSE] /\ share = [a \in Actors |-> 0]
  /\ sessions = 0 /\ spent = 0 /\ lost = 0 /\ overlapped = FALSE

-----------------------------------------------------------------------------
(* A process starts.                                                       *)

Begin(phase, windows) ==
  /\ pc = "down" /\ sessions < MaxSessions
  /\ pc' = phase
  /\ done' = windows
  /\ sessions' = sessions + 1
  /\ UNCHANGED <<queue, raised, budget, newest, thread, spent, lost,
                 overlapped>>

\* A process ends, and its memory with it.
End ==
  /\ pc' = "down" /\ done' = {}
  /\ upto' = 0 /\ next' = 1 /\ seed' = 0 /\ raised' = FALSE
  /\ calls' = 0 /\ cost' = 0 /\ newest' = 0
  /\ step' = [a \in Actors |-> "idle"]
  /\ window' = [a \in Actors |-> 0] /\ tries' = [a \in Actors |-> 0]
  /\ parsed' = [a \in Actors |-> FALSE] /\ share' = [a \in Actors |-> 0]
  /\ spent' = 0 /\ lost' = 0 /\ overlapped' = FALSE
  /\ UNCHANGED <<disk, sessions>>

\* A fresh run drops the journal and the meta of an earlier one ...
StartFresh ==
  /\ Begin("pin", {})
  /\ journal' = {} /\ pinned' = FALSE

\* ... and pins its settings before the first call.
Pin ==
  /\ pc = "pin"
  /\ pc' = "extract"
  /\ pinned' = TRUE
  /\ UNCHANGED <<journal, done, queue, raised, budget, newest, thread, history>>

\* What load() puts in _done; not calling it is the mutant.
LoadedNone == {}
Loaded == journal

\* A resume needs the pinned settings and reuses what is journaled.
StartResume ==
  /\ pinned
  /\ Begin("extract", Loaded)
  /\ UNCHANGED disk

-----------------------------------------------------------------------------
(* The guarded call: budgeted_complete around litellm_complete.            *)

\* reserve_call's conditions; the mutants are an off-by-one and a cap on calls
\* alone.
ExhaustedLate == calls > MaxCalls \/ cost >= MaxCost
ExhaustedByCalls == calls >= MaxCalls
Exhausted == calls >= MaxCalls \/ cost >= MaxCost

\* A thread is done with its window or its draft.
Leave(a) ==
  /\ step' = [step EXCEPT ![a] = "idle"]
  /\ window' = [window EXCEPT ![a] = 0]
  /\ tries' = [tries EXCEPT ![a] = 0]

\* What follows a call that gave nothing to keep: another attempt at the
\* window, which is given up after the last; a draft is skipped at once.
Again(a) ==
  IF a \in Workers /\ tries[a] < Retries
    THEN /\ step' = [step EXCEPT ![a] = "ready"]
         /\ tries' = [tries EXCEPT ![a] = @ + 1]
         /\ UNCHANGED window
    ELSE Leave(a)

\* DraftBudgetExceeded passes every handler on its way to the pipeline; caught
\* with the other exceptions it costs an attempt (a mutant).
StoppedAsFailed(a) == Again(a) /\ UNCHANGED raised
Stopped(a) ==
  /\ raised' = TRUE
  /\ Leave(a)

\* DraftBudget.reserve_call, under its lock.
Reserve(a) ==
  /\ step[a] = "ready"
  /\ \/ /\ Exhausted
        /\ Stopped(a)
        /\ UNCHANGED <<calls, overlapped>>
     \/ /\ ~ Exhausted
        /\ calls' = calls + 1
        /\ step' = [step EXCEPT ![a] = "calling"]
        /\ overlapped' = (overlapped \/ InFlight # {})
        /\ UNCHANGED <<raised, window, tries>>
  /\ UNCHANGED <<disk, pc, done, queue, cost, newest, parsed, share, sessions,
                 spent, lost>>

\* The endpoint answers and its cost is logged.  A call that raises is logged
\* as well: at no cost when the endpoint failed, at its cost when the answer
\* has no content to return.
Answer(a) ==
  /\ step[a] = "calling"
  /\ \E c \in 0..Dearest :
       /\ newest' = c
       /\ \/ /\ spent' = spent + c
             /\ step' = [step EXCEPT ![a] = "logged"]
             /\ \E p \in BOOLEAN : parsed' = [parsed EXCEPT ![a] = p]
             /\ UNCHANGED <<window, tries>>
          \/ /\ Again(a)
             /\ UNCHANGED <<parsed, spent>>
  /\ UNCHANGED <<disk, pc, done, queue, raised, budget, share, sessions, lost,
                 overlapped>>

\* The cost of a call is that of the last record of the log, whoever made it;
\* charging the useful answers alone is the mutant.
LastCostIfParsed(a) == IF parsed[a] THEN newest ELSE 0
LastCost(a) == newest

ReadCost(a) ==
  /\ step[a] = "logged"
  /\ step' = [step EXCEPT ![a] = "read"]
  /\ share' = [share EXCEPT ![a] = LastCost(a)]
  /\ UNCHANGED <<disk, pc, done, queue, raised, budget, newest, window, tries,
                 parsed, history>>

\* DraftBudget.record_cost, under its lock: past the cap the answer is lost.
Charge(a) ==
  /\ step[a] = "read"
  /\ cost' = cost + share[a]
  /\ \/ /\ cost' > MaxCost
        /\ Stopped(a)
        /\ lost' = IF parsed[a] THEN lost + 1 ELSE lost
     \/ /\ cost' <= MaxCost
        /\ UNCHANGED <<raised, lost>>
        /\ \/ /\ ~ parsed[a]
              /\ Again(a)
           \/ /\ parsed[a] /\ a \in Workers
              /\ step' = [step EXCEPT ![a] = "record"]
              /\ UNCHANGED <<window, tries>>
           \/ /\ parsed[a] /\ a = Main
              /\ Leave(a)
  /\ parsed' = [parsed EXCEPT ![a] = FALSE]
  /\ share' = [share EXCEPT ![a] = 0]
  /\ UNCHANGED <<disk, pc, done, queue, calls, newest, sessions, spent,
                 overlapped>>

-----------------------------------------------------------------------------
(* The extraction pool.                                                    *)

\* Whether a thread goes on after a window has raised; the mutant leaves the
\* queue to nobody.
ServedUntilRaised == ~ raised
Served == raised => Pooled

\* _extract_window: a journaled window is not sent again.
Take(a) ==
  /\ pc = "extract" /\ step[a] = "idle" /\ next <= upto /\ Served
  /\ next' = next + 1
  /\ \/ /\ next \in done
        /\ UNCHANGED <<step, window>>
     \/ /\ next \notin done
        /\ step' = [step EXCEPT ![a] = "ready"]
        /\ window' = [window EXCEPT ![a] = next]
  /\ UNCHANGED <<disk, pc, done, upto, seed, raised, budget, newest, tries,
                 parsed, share, history>>

\* ExtractionJournal.record, under its lock.
Record(a) ==
  /\ step[a] = "record"
  /\ journal' = journal \cup {window[a]}
  /\ done' = done \cup {window[a]}
  /\ Leave(a)
  /\ UNCHANGED <<pinned, pc, queue, raised, budget, newest, parsed, share,
                 history>>

-----------------------------------------------------------------------------
(* The main thread.                                                        *)

\* The windows of the next document, once those of the last have all run.
Submit ==
  /\ pc = "extract" /\ Quiet /\ next > upto /\ ~ raised
  /\ \E e \in Ends :
       /\ e > upto /\ \A f \in Ends : f > upto => e <= f
       /\ upto' = e
  /\ UNCHANGED <<disk, pc, done, next, seed, raised, budget, newest, thread,
                 history>>

Extracted ==
  /\ pc = "extract" /\ Quiet /\ next > upto /\ upto = N /\ ~ raised
  /\ pc' = "draft"
  /\ UNCHANGED <<disk, done, queue, raised, budget, newest, thread, history>>

Draft ==
  /\ pc = "draft" /\ step[Main] = "idle" /\ ~ raised /\ seed < Seeds
  /\ seed' = seed + 1
  /\ step' = [step EXCEPT ![Main] = "ready"]
  /\ UNCHANGED <<disk, pc, done, upto, next, raised, budget, newest, window,
                 tries, parsed, share, history>>

Drafted ==
  /\ pc = "draft" /\ step[Main] = "idle" /\ ~ raised /\ seed = Seeds
  /\ pc' = "write"
  /\ UNCHANGED <<disk, done, queue, raised, budget, newest, thread, history>>

\* _write_bundle.
Write == pc = "write" /\ End

\* write_budget_abort, once the pool has drained.
Abort ==
  /\ raised /\ Quiet
  /\ pc = "extract" /\ Pooled => next > upto
  /\ End

\* The process is killed; calls in flight may have been paid.
Kill == pc # "down" /\ End

-----------------------------------------------------------------------------
Call(a) == Reserve(a) \/ Answer(a) \/ ReadCost(a) \/ Charge(a)
Work(a) == Take(a) \/ Call(a) \/ Record(a)
Manage == Pin \/ Submit \/ Extracted \/ Draft \/ Call(Main) \/ Drafted
          \/ Write \/ Abort

Next == \/ StartFresh \/ StartResume
        \/ Manage
        \/ \E a \in Workers : Work(a)
        \/ Kill

Spec == Init /\ [][Next]_vars

\* Every thread that can go on does: an endpoint answers or times out.
FairSpec == Spec /\ WF_vars(Manage) /\ \A a \in Workers : WF_vars(Work(a))

-----------------------------------------------------------------------------
TypeOK ==
  /\ pinned \in BOOLEAN /\ journal \subseteq Windows
  /\ pc \in Phases /\ done \subseteq Windows
  /\ upto \in 0..N /\ next \in 1..(upto + 1) /\ seed \in 0..Seeds
  /\ raised \in BOOLEAN
  /\ calls \in 0..MaxCalls /\ cost \in Nat /\ newest \in 0..Dearest
  /\ step \in [Actors -> Steps]
  /\ window \in [Actors -> 0..N]
  /\ tries \in [Actors -> 0..Retries]
  /\ parsed \in [Actors -> BOOLEAN]
  /\ share \in [Actors -> 0..Dearest]
  /\ sessions \in 0..MaxSessions
  /\ spent \in Nat /\ lost \in Nat /\ overlapped \in BOOLEAN

\* A window whose answer was journaled is never sent to the endpoint again, by
\* any thread of this or of a later process.
NeverReasked ==
  \A a \in Workers : step[a] # "idle" => window[a] \notin journal

\* The budget throws away at most one paid and parsed answer per thread: after
\* the charge that passes the cap no thread gets another call.
LossIsBounded == lost <= Cardinality(Workers)

\* A bundle is only written as complete by a process that stayed within its
\* budget: the exception of any thread ends the whole run.
WrittenWithinBudget == pc = "write" => cost <= MaxCost

\* As long as no calls overlap, the answers cost less than the cap and one call
\* more: the guard stops after the call that crosses the cap.
SerialSpendIsCapped == ~ overlapped => spent < MaxCost + Dearest

\* The promise of the guard to all threads: with no call in flight, it knows of
\* money that was spent up to the cap, and dispatches no more.
GuardSeesSpend ==
  InFlight = {} /\ spent >= MaxCost => cost >= MaxCost

\* The process seen from outside: the windows in the hands of the pool, and those
\* it has not worked off.
InHand == {window[a] : a \in {b \in Workers : step[b] # "idle"}}
Left == {w \in Windows : w >= next} \cup InHand
Phase == IF pc = "pin" THEN "extract" ELSE pc

X == INSTANCE Extraction WITH phase <- Phase, kept <- journal, asking <- InHand,
       left <- Left, halted <- raised

\* Pool, queue, budget and journal together keep their promise: every window is
\* worked off before anything is drafted, none that is kept is asked for again,
\* none by two threads, and once the budget has stopped one of them no call is
\* made and no bundle is written as complete.
ImplementsExtraction == X!Spec

\* A process always comes to an end, whatever windows fail or raise: nobody
\* waits for a window that nobody runs.
SessionEnds == pc # "down" ~> pc = "down"
=============================================================================
