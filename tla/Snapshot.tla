------------------------------ MODULE Snapshot ------------------------------
(***************************************************************************)
(* What the resumable download promises of one model snapshot, with no     *)
(* part file, chunk, session or crash in sight: a file appears under its   *)
(* own name only with the content that the upstream checksum covers, it is *)
(* taken back only after it has decayed, the checkpoint claims only files  *)
(* that are there and drops no good one, and a verification succeeds only  *)
(* over a snapshot that is all good.                                       *)
(* ModelDownload is shown to implement this specification.                 *)
(***************************************************************************)
CONSTANTS Files    \* files of the snapshot

VARIABLES store,   \* what is under each file's name
          claimed, \* the files that the checkpoint calls complete
          checked  \* the last process verified the snapshot, nothing changed since

vars == <<store, claimed, checked>>

Init == store = [f \in Files |-> "absent"] /\ claimed = {} /\ checked = FALSE

\* The content was verified, the rename puts it in place.
Install(f) ==
  /\ store' = [store EXCEPT ![f] = "good"]
  /\ checked' = FALSE
  /\ UNCHANGED claimed

\* Between sessions the disk spoils what was good.
Decay(f) ==
  /\ store[f] = "good"
  /\ store' = [store EXCEPT ![f] = "decayed"]
  /\ checked' = FALSE
  /\ UNCHANGED claimed

\* Recovery makes a part file of a published one.
TakeBack(f) ==
  /\ store[f] = "decayed"
  /\ store' = [store EXCEPT ![f] = "absent"]
  /\ checked' = FALSE
  /\ UNCHANGED claimed

\* The checkpoint is written: of files that are there, and of each good one
\* that it has claimed before.
Claim(fs) ==
  /\ \A f \in fs : store[f] # "absent"
  /\ \A f \in claimed : store[f] = "good" => f \in fs
  /\ claimed' = fs
  /\ checked' = FALSE
  /\ UNCHANGED store

Report ==
  /\ claimed = Files /\ \A f \in Files : store[f] = "good"
  /\ checked' = TRUE
  /\ UNCHANGED <<store, claimed>>

\* Another session starts.
Forget == checked' = FALSE /\ UNCHANGED <<store, claimed>>

Next == \/ \E f \in Files : Install(f) \/ Decay(f) \/ TakeBack(f)
        \/ \E fs \in SUBSET Files : Claim(fs)
        \/ Report \/ Forget

Spec == Init /\ [][Next]_vars
=============================================================================
