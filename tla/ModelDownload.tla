---------------------------- MODULE ModelDownload ----------------------------
(***************************************************************************)
(* The resumable download of one pinned model snapshot                     *)
(* (backends/model_download): files fetched in chunks into part files, a   *)
(* checkpoint state.json replaced after every chunk, recovery of the disk  *)
(* at the start of every session, and a rename to the final name after the *)
(* upstream checksum of the whole file was verified.                       *)
(*                                                                         *)
(* A file is a sequence of chunks; what a chunk holds is "good" (what the  *)
(* upstream checksum covers), "bad" (other bytes the provider served),     *)
(* "rot" (bytes nobody served in one piece) or "decay" (what became of a   *)
(* chunk after its file was published).  The file lock of the target       *)
(* directory admits one process at a time.                                 *)
(***************************************************************************)
EXTENDS Naturals, Sequences, FiniteSets

CONSTANTS NFiles,     \* files of the snapshot, in manifest order
          Size,       \* chunks of each file
          Budget,     \* config.session_bytes, in chunks
          Retries,    \* config.retries
          MaxFaults   \* bound: crashes, failed requests, bad and rotten chunks

Files == 1..NFiles
Absent == <<"absent">>   \* no such file
Content == {"good", "bad", "rot", "decay"}

ASSUME DownloadAssumption ==
  /\ NFiles \in Nat /\ Size \in [Files -> Nat]
  /\ Budget \in Nat \ {0} /\ Retries \in Nat /\ MaxFaults \in Nat

VARIABLES
  log,       \* state.json: FileState of each file
  logged,    \* state.json exists
  part,      \* the part file of each file
  final,     \* the file under its own name
  pc,        \* where the process is; "down" when there is none
  mem,       \* SnapshotState.files of the process
  mode,      \* "transfer", or "verify" for verify_only
  deep,      \* verify_completed or verify_only
  changed,   \* the checkpoint must be saved after recovery
  at,        \* the file the process works on
  got,       \* the digest of the chunk in flight
  spent,     \* session.downloaded
  tries,     \* failed attempts of the current chunk
  status,    \* how the last process ended
  cut,       \* history: the process cut chunks off a part file and has not
             \* saved the checkpoint since
  hurt,      \* history: a process was killed while it had cut
  faults     \* history: faults so far, bounded

disk == <<log, logged, part, final>>
session == <<mode, deep>>
vars == <<log, logged, part, final, pc, mem, mode, deep, changed, at, got,
          spent, tries, status, cut, hurt, faults>>

Good(f) == [i \in 1..Size[f] |-> "good"]
NoChunks == [chunks |-> <<>>, complete |-> FALSE]
Manifest == [f \in Files |-> NoChunks]
Steps == {"down", "recover", "saving", "loop", "fetch", "checkpoint",
          "finalize", "published", "failing"}

Init ==
  /\ log = Manifest /\ logged = FALSE
  /\ part = [f \in Files |-> Absent] /\ final = [f \in Files |-> Absent]
  /\ pc = "down" /\ mem = Manifest /\ mode = "transfer" /\ deep = FALSE
  /\ changed = FALSE /\ at = 1 /\ got = "good"
  /\ spent = 0 /\ tries = 0 /\ status = "none" /\ faults = 0
  /\ cut = FALSE /\ hurt = FALSE

End(s) == pc' = "down" /\ status' = s

Fault == faults < MaxFaults /\ faults' = faults + 1

-----------------------------------------------------------------------------
(* A session starts by recovering the disk.                                *)

\* What a verify_only session looks at; the mutant forgets that it is deep.
DeepIfAsked(m, completed) == completed
DeepOf(m, completed) == completed \/ m = "verify"

\* The lock is taken; the checkpoint, or else the manifest, is loaded.
Start(m, completed) ==
  /\ pc = "down"
  /\ m = "verify" => logged
  /\ pc' = "recover" /\ status' = "none"
  /\ mode' = m /\ deep' = DeepOf(m, completed)
  /\ mem' = IF logged THEN log ELSE Manifest
  /\ changed' = ~ logged
  /\ at' = 1 /\ spent' = 0 /\ tries' = 0 /\ cut' = FALSE
  /\ UNCHANGED <<disk, got, hurt, faults>>

\* _valid_published_file: the size, and the checksum when it is asked for.
Valid(f, checksum) ==
  /\ final[f] # Absent /\ Len(final[f]) = Size[f]
  /\ checksum => final[f] = Good(f)

\* _valid_chunk_prefix: how many chunks precede the first one that the part
\* file does not hold.
Holds(p, chunks, i) == i <= Len(p) /\ p[i] = chunks[i]
ValidPrefix(p, chunks) ==
  Cardinality({i \in DOMAIN chunks : \A j \in 1..i : Holds(p, chunks, j)})

\* hash_range raises on a part file that ends before its last chunk does.
TooShort(p, chunks) == p # Absent /\ Len(p) < Len(chunks)

\* _recover_partial: what it makes of the part p and the chunks of a file.
Tidy(p, chunks) ==
  /\ Len(p) = Len(chunks)
  /\ chunks # <<>> => p[Len(p)] = chunks[Len(p)]
  /\ ~ deep

\* Repairing drops a valid chunk too (a mutant).
RepairsShort(p, chunks) ==
  LET k == ValidPrefix(p, chunks) IN IF k < Len(chunks) /\ k > 0 THEN k - 1 ELSE k
Repairs(p, chunks) == ValidPrefix(p, chunks)

RecoverPartial(f) ==
  LET p == part[f]
      chunks == mem[f].chunks
      k == Repairs(p, chunks)
      kept == IF p = Absent THEN <<>>
              ELSE IF Tidy(p, chunks) THEN chunks ELSE SubSeq(chunks, 1, k)
  IN
  /\ part' = [part EXCEPT ![f] = IF p = Absent \/ Tidy(p, chunks) THEN p
                                 ELSE SubSeq(p, 1, k)]
  /\ mem' = [mem EXCEPT ![f].chunks = kept]
  /\ changed' = (changed \/ kept # chunks \/ part' # part)
  /\ cut' = (cut \/ (p # Absent /\ kept # chunks))

\* A publication whose checkpoint was lost.
RenameCrashed(f) ==
  ~ mem[f].complete /\ Len(mem[f].chunks) = Size[f] /\ Valid(f, TRUE)

\* _recover_publication: a file that is complete no more is taken back, under
\* the name of its part file if it is there.
TakeBack ==
  /\ pc = "recover" /\ at <= NFiles
  /\ mem[at].complete /\ ~ Valid(at, deep)
  /\ final' = [final EXCEPT ![at] = Absent]
  /\ part' = [part EXCEPT ![at] = IF final[at] = Absent THEN @ ELSE final[at]]
  /\ mem' = [mem EXCEPT ![at].complete = FALSE]
  /\ changed' = TRUE
  /\ UNCHANGED <<log, logged, pc, session, at, got, spent, tries, status, cut,
                 hurt, faults>>

\* recover_file, in manifest order: a publication whose checkpoint was lost is
\* recognised, a valid one stands, and any other part file, one that was just
\* taken back included, is cut to its valid chunks.
RecoverFile ==
  /\ pc = "recover" /\ at <= NFiles
  /\ \/ /\ RenameCrashed(at)
        /\ mem' = [mem EXCEPT ![at].complete = TRUE]
        /\ changed' = TRUE
        /\ at' = at + 1
        /\ UNCHANGED <<part, pc, status, cut>>
     \/ /\ mem[at].complete /\ Valid(at, deep)
        /\ at' = at + 1
        /\ UNCHANGED <<mem, changed, part, pc, status, cut>>
     \/ /\ ~ mem[at].complete /\ ~ RenameCrashed(at)
        /\ IF TooShort(part[at], mem[at].chunks)
           THEN End("failed") /\ UNCHANGED <<mem, changed, at, part, cut>>
           ELSE /\ RecoverPartial(at)
                /\ at' = at + 1
                /\ UNCHANGED <<pc, status>>
  /\ UNCHANGED <<log, logged, final, session, got, spent, tries, hurt, faults>>

\* save_state: what state.json keeps of the files; the mutant keeps complete files only.
KeptIfComplete(files) ==
  [f \in Files |-> IF files[f].complete THEN files[f] ELSE NoChunks]
Kept(files) == files

\* After recovery the checkpoint is saved if it changed, and a verification ends.
Recovered ==
  /\ pc = "recover" /\ at > NFiles
  /\ pc' = "saving"
  /\ IF changed THEN log' = Kept(mem) /\ logged' = TRUE ELSE UNCHANGED <<log, logged>>
  /\ cut' = FALSE
  /\ UNCHANGED <<part, final, mem, session, changed, at, got, spent, tries,
                 status, hurt, faults>>

Saved ==
  /\ pc = "saving"
  /\ IF mode = "verify"
     THEN /\ End(IF \A f \in Files : mem[f].complete THEN "verified"
                                                     ELSE "failed")
          /\ UNCHANGED at
     ELSE pc' = "loop" /\ at' = 1 /\ UNCHANGED status
  /\ UNCHANGED <<disk, mem, session, changed, got, spent, tries, cut, hurt,
                 faults>>

-----------------------------------------------------------------------------
(* transfer_snapshot.                                                      *)

\* next_chunk_size has nothing left to give; the mutant is off by one.
ExhaustedLate == spent > Budget
Exhausted == spent >= Budget

\* The next chunk, the whole-file check, the next file, or the end.
Loop ==
  /\ pc = "loop"
  /\ \/ /\ at > NFiles
        /\ End("complete")
        /\ UNCHANGED <<at, tries>>
     \/ /\ at <= NFiles /\ mem[at].complete
        /\ at' = at + 1
        /\ UNCHANGED <<pc, status, tries>>
     \/ /\ at <= NFiles /\ ~ mem[at].complete
        /\ Len(mem[at].chunks) >= Size[at]
        /\ pc' = "finalize"
        /\ UNCHANGED <<at, status, tries>>
     \/ /\ at <= NFiles /\ ~ mem[at].complete
        /\ Len(mem[at].chunks) < Size[at]
        /\ IF Exhausted THEN End("checkpointed") /\ UNCHANGED tries
           ELSE pc' = "fetch" /\ tries' = 0 /\ UNCHANGED status
        /\ UNCHANGED at
  /\ UNCHANGED <<disk, mem, session, changed, got, spent, cut, hurt, faults>>

\* The part file after c was written at the offset of the next chunk; a seek
\* past its end leaves a hole.
Written(p, k, c) ==
  LET old == IF p = Absent THEN <<>> ELSE p IN
  [i \in 1..(IF Len(old) > k THEN Len(old) ELSE k + 1) |->
     IF i = k + 1 THEN c ELSE IF i <= Len(old) THEN old[i] ELSE "rot"]

\* A range arrives, is written, synced and read back.
FetchChunk(c) ==
  /\ pc = "fetch"
  /\ IF c = "good" THEN UNCHANGED faults ELSE Fault
  /\ pc' = "checkpoint"
  /\ got' = c
  /\ part' = [part EXCEPT ![at] = Written(@, Len(mem[at].chunks), c)]
  /\ UNCHANGED <<log, logged, final, mem, session, changed, at, spent, tries,
                 status, cut, hurt>>

\* A transient failure, before or after bytes were written, is retried until
\* the attempts are used up.
FetchFails ==
  /\ pc = "fetch"
  /\ Fault
  /\ \/ UNCHANGED part
     \/ part' = [part EXCEPT ![at] = Written(@, Len(mem[at].chunks), "rot")]
  /\ IF tries < Retries THEN tries' = tries + 1 /\ UNCHANGED <<pc, status>>
                        ELSE End("failed") /\ UNCHANGED tries
  /\ UNCHANGED <<log, logged, final, mem, session, changed, at, got, spent, cut,
                 hurt>>

\* Access denied, no free space: the process ends.
Refused ==
  /\ pc = "fetch"
  /\ Fault
  /\ End("failed")
  /\ UNCHANGED <<disk, mem, session, changed, at, got, spent, tries, cut, hurt>>

\* _checkpoint_chunk: the chunk is recorded, charged and checkpointed.
Checkpoint ==
  /\ pc = "checkpoint"
  /\ pc' = "loop"
  /\ mem' = [mem EXCEPT ![at].chunks = Append(@, got)]
  /\ spent' = spent + 1
  /\ log' = Kept(mem') /\ logged' = TRUE
  /\ UNCHANGED <<part, final, session, changed, at, got, tries, status, cut, hurt,
                 faults>>

\* Comparing sizes instead of the upstream checksum is the mutant.
ChecksumSkipped(f, p) == Len(p) = Size[f]
ChecksumMatches(f, p) == p = Good(f)

\* The chunks that stay after k of them did; the mutant forgets to drop them.
AllChunks(chunks, k) == chunks
FirstChunks(chunks, k) == SubSeq(chunks, 1, k)

\* _finalize_file: publish, or cut the part to its intact chunks, or, when
\* all of them are intact, drop what the provider served.
Finalize ==
  LET f == at
      p == IF part[f] = Absent THEN <<>> ELSE part[f]
      chunks == mem[f].chunks
      k == ValidPrefix(p, chunks)
      kept == IF k < Len(chunks) THEN k ELSE 0
  IN
  /\ pc = "finalize"
  /\ IF ChecksumMatches(f, p)
     THEN /\ pc' = "published"
          /\ final' = [final EXCEPT ![f] = p]
          /\ part' = [part EXCEPT ![f] = Absent]
          /\ mem' = [mem EXCEPT ![f].complete = TRUE]
          /\ UNCHANGED cut
     ELSE /\ pc' = "failing"
          /\ part' = [part EXCEPT ![f] = SubSeq(p, 1, kept)]
          /\ mem' = [mem EXCEPT ![f].chunks = FirstChunks(chunks, kept)]
          /\ cut' = TRUE
          /\ UNCHANGED final
  /\ UNCHANGED <<log, logged, session, changed, at, got, spent, tries, status,
                 hurt, faults>>

\* The checkpoint of a published file, and of one that was cut.
CheckpointFile ==
  /\ pc \in {"published", "failing"}
  /\ log' = Kept(mem) /\ logged' = TRUE
  /\ IF pc = "published" THEN pc' = "loop" /\ at' = at + 1 /\ UNCHANGED status
                         ELSE End("failed") /\ UNCHANGED at
  /\ cut' = FALSE
  /\ UNCHANGED <<part, final, mem, session, changed, got, spent, tries, hurt,
                 faults>>

-----------------------------------------------------------------------------
(* What happens to the process and to the disk.                            *)

\* Between any two steps the process is killed; what it cut off a part file is
\* still in the checkpoint then.
Crash ==
  /\ pc # "down"
  /\ Fault
  /\ End("failed")
  /\ hurt' = (hurt \/ cut)
  /\ UNCHANGED <<disk, mem, session, changed, at, got, spent, tries, cut>>

\* Between sessions a stored chunk goes bad.
Rot ==
  /\ pc = "down"
  /\ Fault
  /\ status' = "none"
  /\ \E f \in Files :
       \/ /\ part[f] # Absent
          /\ \E i \in DOMAIN part[f] : part' = [part EXCEPT ![f][i] = "rot"]
          /\ UNCHANGED final
       \/ /\ final[f] # Absent
          /\ \E i \in DOMAIN final[f] : final' = [final EXCEPT ![f][i] = "decay"]
          /\ UNCHANGED part
  /\ UNCHANGED <<log, logged, pc, mem, session, changed, at, got, spent, tries,
                 cut, hurt>>

-----------------------------------------------------------------------------
Run == \/ TakeBack \/ RecoverFile \/ Recovered \/ Saved \/ Loop
       \/ FetchChunk("good") \/ Checkpoint \/ Finalize \/ CheckpointFile

Next == \/ \E m \in {"transfer", "verify"}, completed \in BOOLEAN :
             Start(m, completed)
        \/ Run
        \/ FetchChunk("bad") \/ FetchFails \/ Refused \/ Crash \/ Rot

Spec == Init /\ [][Next]_vars

\* The process runs, and someone starts the download again after it ended.
FairSpec == /\ Spec /\ WF_vars(Run)
            /\ SF_vars(\E completed \in BOOLEAN : Start("transfer", completed))

-----------------------------------------------------------------------------
Stored == Seq(Content) \cup {Absent}
FileState == [chunks : Seq({"good", "bad"}), complete : BOOLEAN]

TypeOK ==
  /\ log \in [Files -> FileState] /\ mem \in [Files -> FileState]
  /\ part \in [Files -> Stored] /\ final \in [Files -> Stored]
  /\ logged \in BOOLEAN /\ deep \in BOOLEAN /\ changed \in BOOLEAN
  /\ cut \in BOOLEAN /\ hurt \in BOOLEAN
  /\ pc \in Steps /\ mode \in {"transfer", "verify"}
  /\ at \in 1..(NFiles + 1) /\ got \in {"good", "bad"}
  /\ spent \in 0..Budget /\ tries \in 0..Retries /\ faults \in 0..MaxFaults
  /\ status \in {"none", "complete", "checkpointed", "verified", "failed"}

\* Whatever appears under its final name had the upstream checksum when it got
\* the name.  Past recovery, a file the checkpoint calls complete is there, as
\* every file is when a session reports success; and where a crash came between
\* taking a file back and the checkpoint, what was published is its part file:
\* no false claim outlives the next recovery, and none hides lost bytes.
Published(f) == /\ Len(final[f]) = Size[f]
                /\ \A i \in DOMAIN final[f] : final[f][i] \in {"good", "decay"}
PublishedIsVerified ==
  \A f \in Files :
    /\ final[f] # Absent => Published(f)
    /\ log[f].complete /\ pc \notin {"down", "recover"} => Published(f)
    /\ status \in {"complete", "verified"} => Published(f)
    /\ log[f].complete /\ final[f] = Absent => part[f] # Absent

\* A verification, and a download that verifies completed files, reports success
\* only when every file is what the upstream checksum covers, whatever rotted
\* since it was published.
CheckedIsGood ==
  status = "verified" \/ (status = "complete" /\ deep)
    => \A f \in Files : final[f] = Good(f)

\* What is under a file's name, seen from outside.
Store(f) == IF final[f] = Absent THEN "absent"
            ELSE IF final[f] = Good(f) THEN "good" ELSE "decayed"

Stores == [f \in Files |-> Store(f)]
Claimed == {f \in Files : log[f].complete}
Checked == status = "verified" \/ (status = "complete" /\ deep)

Snap == INSTANCE Snapshot WITH store <- Stores, claimed <- Claimed, checked <- Checked

\* Part files, checkpoints, recovery and crashes together keep the promise: what
\* is published was verified, only what has decayed is taken back, the checkpoint
\* claims what is there and drops nothing good, and no verification lies.
ImplementsSnapshot == Snap!Spec

\* What the disk holds of a file that the next session need not fetch again.
Secured(f) == IF final[f] = Good(f) THEN Size[f]
              ELSE IF part[f] = Absent THEN 0
              ELSE ValidPrefix(part[f], log[f].chunks)

\* No step of a session, recovery and failed requests included, gives up a
\* chunk the disk secures, unless the provider served a wrong file whose chunks
\* are all intact.
SecuredIsKept ==
  [][\A f \in Files :
       \/ Secured(f)' >= Secured(f)
       \/ pc = "down"
       \/ (pc = "finalize" /\ Secured(f) = Size[f])]_vars

\* Whatever a session left on disk, the next one can recover it: hash_range
\* finds every chunk it is asked for.
Recoverable ==
  pc = "recover" /\ at <= NFiles =>
    LET p == IF mem[at].complete /\ final[at] # Absent
             THEN final[at] ELSE part[at]
    IN ~ TooShort(p, mem[at].chunks)

\* Only a process killed between cutting a part file and the checkpoint leaves
\* what cannot be recovered: no other crash, rename, failed range, wrong byte or
\* rot does, alone or together.
StrandedIfHurt == ~ hurt => Recoverable

\* Sessions that are started again complete the snapshot, unless it is stranded.
EventuallyComplete == <>(hurt \/ \A f \in Files : log[f].complete)
=============================================================================
