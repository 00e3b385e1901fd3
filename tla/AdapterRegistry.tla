--------------------------- MODULE AdapterRegistry ---------------------------
(***************************************************************************)
(* The append-only adapter registry (finetune/registry): registrations and *)
(* tombstones appended as lines to registry.jsonl, folded on every read    *)
(* into the entries that are listed.  The log itself is not kept, only     *)
(* what reading it gives and whether it ends in the middle of a line: the  *)
(* next line is then glued to the torn one and the reader skips both.      *)
(*                                                                         *)
(* Recency is the order of the registrations that can be read: the clock   *)
(* of created_at does not run backwards.  There is one base model.         *)
(***************************************************************************)
EXTENDS Naturals, FiniteSets

VARIABLES
  entries,  \* load_registry(): the listed [id, dir, seq]
  seq,      \* registrations read so far
  torn      \* registry.jsonl ends in the middle of a line

registryVars == <<entries, seq, torn>>

Ids(es) == {e.id : e \in es}

\* Fold of a registration: an id listed already is replaced.
Registered(id, dir) ==
  {e \in entries : e.id # id} \cup {[id |-> id, dir |-> dir, seq |-> seq + 1]}

\* What is listed after a line was appended (n registrations) that would give es: a torn
\* line before it takes it along.
AfterAppend(es) == IF torn THEN entries ELSE es

AppendEvent(es, n) ==
  /\ entries' = AfterAppend(es)
  /\ seq' = IF torn THEN seq ELSE seq + n
  /\ torn' = FALSE

\* A writer is killed inside append_event: some of the line is written, or
\* none of it.
TearAppend ==
  /\ torn' = TRUE \/ torn' = torn
  /\ UNCHANGED <<entries, seq>>

\* A newer adapter of the same base model exists; the mutant counts itself.
SupersededOrNewest(es) == {e \in es : \E newer \in es : newer.seq >= e.seq}

Superseded(es) == {e \in es : \E newer \in es : newer.seq > e.seq}

\* The id a directory is known by: the last entry of it wins.  A replaced entry keeps
\* its place in the listing; no id returns to a directory after another one here.
IdsOfDir(es, dir) ==
  {e.id : e \in {e \in es : /\ e.dir = dir
                            /\ \A o \in es : o.dir = dir => o.seq <= e.seq}}

RegistryInit == entries = {} /\ seq = 0 /\ torn = FALSE
=============================================================================
