------------------------------ MODULE Reindex ------------------------------
(***************************************************************************)
(* What the chain of stores promises: an index that is refreshed by        *)
(* differences, each store derived from an earlier one, is as good as one  *)
(* whose documents are all read again.  A refresh reads every document at  *)
(* some moment after it took the fingerprints it records; a build reads    *)
(* all of them when it starts.  Which documents were read, which carried   *)
(* over, and from which store, does not show.                              *)
(***************************************************************************)
EXTENDS Naturals

CONSTANTS Docs, Versions, Text, None, Refreshers

VARIABLES
  corpus,    \* the version of each document
  since,     \* the fingerprints each refresh works from, none or one
  building,  \* the corpus a build works from, none or one
  stores     \* complete stores

vars == <<corpus, since, building, stores>>

Marks == [Docs -> Versions]

\* A store: fingerprints, the versions its chunks were made of, and vectors.
Store(prints, chunks) ==
  [prints |-> prints, chunks |-> chunks,
   rows |-> [d \in Docs |-> Text[d][chunks[d]]]]

Init ==
  /\ corpus \in Marks
  /\ since = [r \in Refreshers |-> {}] /\ building = {}
  /\ stores = {Store(corpus, corpus)}

Edit(d) ==
  /\ corpus[d] + 1 \in Versions
  /\ corpus' = [corpus EXCEPT ![d] = @ + 1]
  /\ UNCHANGED <<since, building, stores>>

Start(r) ==
  /\ since[r] = {}
  /\ since' = [since EXCEPT ![r] = {corpus}]
  /\ UNCHANGED <<corpus, building, stores>>

\* What the document was at a moment since.  One that was missing then and came
\* back is not read before the next refresh, and may be older.
ReadSince(mark, chunks) ==
  \A d \in Docs :
    /\ chunks[d] <= corpus[d]
    /\ \/ mark[d] <= chunks[d]
       \/ Text[d][mark[d]] = None /\ mark[d] < corpus[d]

Publish(r) ==
  \E mark \in since[r], chunks \in Marks :
    /\ ReadSince(mark, chunks)
    /\ stores' = stores \cup {Store(mark, chunks)}
    /\ since' = [since EXCEPT ![r] = {}]
    /\ UNCHANGED <<corpus, building>>

Stop(r) ==
  /\ since' = [since EXCEPT ![r] = {}]
  /\ UNCHANGED <<corpus, building, stores>>

StartBuild ==
  /\ building = {} /\ building' = {corpus}
  /\ UNCHANGED <<corpus, since, stores>>

FinishBuild ==
  \E mark \in building :
    /\ stores' = stores \cup {Store(mark, mark)}
    /\ building' = {}
    /\ UNCHANGED <<corpus, since>>

StopBuild ==
  /\ building' = {}
  /\ UNCHANGED <<corpus, since, stores>>

\* A store is overwritten or deleted.
Drop ==
  /\ stores' \subseteq stores
  /\ UNCHANGED <<corpus, since, building>>

Next ==
  \/ \E d \in Docs : Edit(d)
  \/ \E r \in Refreshers : Start(r) \/ Publish(r) \/ Stop(r)
  \/ StartBuild \/ FinishBuild \/ StopBuild \/ Drop

Spec == Init /\ [][Next]_vars
=============================================================================
