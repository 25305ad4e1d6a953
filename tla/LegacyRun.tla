------------------------------- MODULE LegacyRun -------------------------------
(***************************************************************************)
(* What a run of the legacy engine (search.py) keeps: the archive of its    *)
(* best candidates (memory, files of best/, rows of results.sqlite3), its   *)
(* checkpoint file with the hash that guards it, and its final status; with *)
(* a crash between any two writes and a resume from what is left.           *)
(*                                                                         *)
(* A candidate is its ordering key, a number, smaller being better.         *)
(***************************************************************************)
EXTENDS Naturals, FiniteSets, FiniteSetsExt

CONSTANTS
    Keys,
    TopK,           \* archive_top_k, at least 2
    MaxRestarts,    \* bound: crashes and resumes
    MaxCheckpoint   \* bound: lifetime_evaluated

VARIABLES
    pc,         \* the write the master is about to make
    incoming,   \* the key being archived
    archive,    \* memory
    best,       \* best/*.json
    rows,       \* candidates, committed
    pending,    \* candidates as the open transaction sees them
    checkpoint, \* lifetime_evaluated: in memory, in the file, in its hash
    restarts,   \* crashes, and resumes of a run that ended
    status,     \* run status in state.json and in the runs table
    record      \* the best candidate archived so far

runVars == <<pc, incoming, archive, best, rows, pending, checkpoint, restarts, status, record>>

RunInit ==
    /\ pc = "loop" /\ incoming = 0
    /\ archive = {} /\ best = {} /\ rows = {} /\ pending = {}
    /\ checkpoint = [memory |-> 0, file |-> 0, hash |-> 0]
    /\ restarts = 0 /\ status = "RUNNING"
    /\ record = Max(Keys) + 1

(* The entry a full archive gives up for a better candidate.                *)
WorstLeast(entries) == Min(entries)     \* variant: the entry with the least key
Worst(entries) == Max(entries)

Enters(key) ==
    /\ key \notin archive
    /\ IF Cardinality(archive) < TopK THEN TRUE ELSE key < Worst(archive)

(* An improvement message that enters the archive: the worst entry leaves   *)
(* the archive and, in the open transaction, the tables.                    *)
Improvement(key) ==
    /\ pc = "loop" /\ Enters(key)
    /\ incoming' = key
    /\ IF Cardinality(archive) < TopK
       THEN pc' = "write" /\ UNCHANGED <<archive, pending>>
       ELSE /\ pc' = "unlink"
            /\ archive' = archive \ {Worst(archive)}
            /\ pending' = pending \ {Worst(archive)}
    /\ UNCHANGED <<best, rows, checkpoint, restarts, status, record>>

(* Its files are removed, then those of the new candidate written.          *)
UnlinkFiles ==
    /\ pc = "unlink"
    /\ pc' = "write"
    /\ best' = best \cap archive
    /\ UNCHANGED <<incoming, archive, rows, pending, checkpoint, restarts, status, record>>

WriteCandidate ==
    /\ pc = "write"
    /\ pc' = "commit"
    /\ best' = best \cup {incoming} /\ archive' = archive \cup {incoming}
    /\ record' = Min({record, incoming})
    /\ UNCHANGED <<incoming, rows, pending, checkpoint, restarts, status>>

Commit ==
    /\ pc = "commit"
    /\ pc' = "loop" /\ incoming' = 0
    /\ pending' = pending \cup {incoming} /\ rows' = pending \cup {incoming}
    /\ UNCHANGED <<archive, best, checkpoint, restarts, status, record>>

(* A checkpoint message, and the two files of _write_checkpoint.            *)
CheckpointReceived ==
    /\ pc = "loop" /\ checkpoint.memory < MaxCheckpoint
    /\ checkpoint' = [checkpoint EXCEPT !.memory = @ + 1]
    /\ UNCHANGED <<pc, incoming, archive, best, rows, pending, restarts, status, record>>

WriteCheckpoint ==
    /\ pc = "loop"
    /\ pc' = "hash"
    /\ checkpoint' = [checkpoint EXCEPT !.file = checkpoint.memory]
    /\ UNCHANGED <<incoming, archive, best, rows, pending, restarts, status, record>>

WriteHash ==
    /\ pc = "hash"
    /\ pc' = "loop"
    /\ checkpoint' = [checkpoint EXCEPT !.hash = checkpoint.file]
    /\ UNCHANGED <<incoming, archive, best, rows, pending, restarts, status, record>>

(* The end of the run: the best candidate is certified, its file rewritten  *)
(* and the result put into the tables, where the verification of a          *)
(* candidate without a row violates a foreign key; then the final status.   *)
(* An exhausted disk skips the verification.                                *)
VerifyFinalist ==
    /\ pc = "loop" /\ archive # {}
    /\ pc' = IF Min(archive) \in rows THEN "status" ELSE "raised"
    /\ UNCHANGED <<incoming, archive, best, rows, pending, checkpoint, restarts, status, record>>

SetRunStatus(final) ==
    /\ pc \in {"loop", "status"}
    /\ pc' = "ended"
    /\ status' = final
    /\ UNCHANGED <<incoming, archive, best, rows, pending, checkpoint, restarts, record>>

RunCrashes ==
    /\ pc \notin {"ended", "raised", "crashed", "refused"} /\ restarts < MaxRestarts
    /\ restarts' = restarts + 1
    /\ pc' = "crashed" /\ incoming' = 0
    /\ archive' = {} /\ pending' = rows
    /\ UNCHANGED <<best, rows, checkpoint, status, record>>

(* sglab resume: the archive is read from best/, and a checkpoint whose     *)
(* hash does not match refuses the run.                                     *)
RunResumes ==
    /\ pc \in {"crashed", "ended", "raised"} /\ (pc # "crashed" => restarts < MaxRestarts)
    /\ restarts' = IF pc = "crashed" THEN restarts ELSE restarts + 1
    /\ status' = "RUNNING"
    /\ IF checkpoint.file = checkpoint.hash
       THEN /\ pc' = "loop" /\ archive' = best
            /\ checkpoint' = [checkpoint EXCEPT !.memory = checkpoint.file]
       ELSE pc' = "refused" /\ UNCHANGED <<archive, checkpoint>>
    /\ UNCHANGED <<incoming, best, rows, pending, record>>

RunNext ==
    \/ \E key \in Keys : Improvement(key)
    \/ UnlinkFiles \/ WriteCandidate \/ Commit
    \/ CheckpointReceived \/ WriteCheckpoint \/ WriteHash
    \/ VerifyFinalist
    \/ \E final \in {"NO_RESULT_WITHIN_BUDGET", "COUNTEREXAMPLE_VERIFIED"} : SetRunStatus(final)
    \/ RunCrashes \/ RunResumes

RunSpec == RunInit /\ [][RunNext]_runVars

-----------------------------------------------------------------------------
(* The best candidate ever archived stays in best/, from which a resumed    *)
(* run reads its archive, through evictions, crashes and resumes.           *)
(* _run_search_locked, write_candidate.                                     *)
RecordOnDisk == record <= Max(Keys) => \E key \in best : key <= record
=============================================================================
