------------------------------ MODULE CaseRun ------------------------------
(***************************************************************************)
(* What executor/durability.py promises of one evaluation run, with no     *)
(* process, journal or staging directory in sight: its cases are asked one *)
(* at a time and answered under one configuration, an answer is never lost *)
(* and never asked for again, and what is published is all of them.  The   *)
(* promise is for a run that was not mauled: a torn write, an exception in *)
(* the case loop or a death while it is published may cost it answers, and *)
(* may leave it torn for later, but never mixes or adds any.               *)
(* DurableRun is shown to implement this specification.                    *)
(***************************************************************************)
CONSTANTS Items,     \* the gold items
          Configs,   \* configuration and goldset fingerprints
          Missing    \* no fingerprint

VARIABLES config,    \* the fingerprint the run was pinned to
          answered,  \* the fingerprint each answer was computed under
          asking,    \* the items that are being asked: one at most
          mauled,    \* something has happened to the run that it may suffer from
          published, \* the fingerprint of the published manifest
          bundle     \* the published rows

vars == <<config, answered, asking, mauled, published, bundle>>

Init ==
  /\ config = Missing /\ answered = [i \in Items |-> Missing]
  /\ asking = {} /\ mauled = FALSE
  /\ published = Missing /\ bundle = [i \in Items |-> Missing]

Pin(c) ==
  /\ config = Missing
  /\ config' = c
  /\ UNCHANGED <<answered, asking, mauled, published, bundle>>

\* A case is asked again after it was given up, never after it was answered.
Ask(i) ==
  /\ config # Missing /\ published = Missing
  /\ asking = {} /\ answered[i] = Missing
  /\ asking' = {i}
  /\ UNCHANGED <<config, answered, mauled, published, bundle>>

Answer(i) ==
  /\ i \in asking
  /\ answered' = [answered EXCEPT ![i] = config]
  /\ asking' = {}
  /\ UNCHANGED <<config, mauled, published, bundle>>

GiveUp ==
  /\ asking' = {}
  /\ UNCHANGED <<config, answered, mauled, published, bundle>>

Publish ==
  /\ published = Missing /\ config # Missing /\ asking = {}
  /\ \A i \in Items : answered[i] = config
  /\ published' = config /\ bundle' = answered
  /\ UNCHANGED <<config, answered, asking, mauled>>

\* The run is mauled, or suffers from it later: answers get lost, among them
\* the one that was just coming in, and at worst the run itself.
Suffer ==
  /\ published = Missing
  /\ mauled' = TRUE
  /\ asking' = {}
  /\ config' \in {config, Missing}
  /\ \E lost \in SUBSET Items, kept \in SUBSET asking :
       answered' = [i \in Items |-> IF i \in lost THEN Missing
                                    ELSE IF i \in kept THEN config
                                    ELSE answered[i]]
  /\ UNCHANGED <<published, bundle>>

Next == \/ \E c \in Configs : Pin(c)
        \/ \E i \in Items : Ask(i) \/ Answer(i)
        \/ GiveUp \/ Publish \/ Suffer

Spec == Init /\ [][Next]_vars
=============================================================================
