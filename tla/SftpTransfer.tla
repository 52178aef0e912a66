----------------------------- MODULE SftpTransfer -----------------------------
(***************************************************************************)
(* The upload of internal/transfer/sftp.go: SFTPTransfer walks the source  *)
(* and starts one goroutine per file; a weighted semaphore limits how many *)
(* transfer at once; each goroutine hashes its file, copies it, hashes the *)
(* remote copy, and tries again on a mismatch.  Every attempt acquires one *)
(* permit, and the deferred releases run when the goroutine ends.          *)
(*                                                                         *)
(* Connecting, authenticating and making directories are left out.         *)
(* Operators named <definition>_<what> are plausible faults of <definition>. *)
(***************************************************************************)
EXTENDS Integers, FiniteSetsExt

CONSTANTS
  Files,        \* the regular files under srcPath
  MaxParallel,  \* --parallel
  MaxRetries,   \* --retries
  Versions,     \* contents a source file may have over time
  MaxBad        \* bound on edits of a source file and corrupted copies

ASSUME FilesAssumption == IsFiniteSet(Files)
ASSUME FlagAssumption == MaxParallel \in Nat /\ MaxRetries \in Nat \cup {-1}
ASSUME BadAssumption == MaxBad \in Nat
ASSUME VersionAssumption == Versions \cap {"none", "partial", "corrupt"} = {}

VARIABLES
  main,       \* the caller: "walking", "waiting", then "done" (nil) or "failed"
  unvisited,  \* files the walk has not reached
  pc, attempt, held, outcome,  \* per goroutine; held: releases it has deferred
  free,       \* permits of the semaphore
  local, sum, remote,  \* the source file, the checksum taken of it, the copy
  bad, mismatches

goroutine == <<pc, attempt, held, outcome>>
vars == <<main, unvisited, goroutine, free, local, sum, remote, bad, mismatches>>

Body == {"sum", "create", "copy", "check"}

TypeOK ==
  /\ main \in {"walking", "waiting", "done", "failed"}
  /\ unvisited \subseteq Files
  /\ pc \in [Files -> {"absent", "loop", "ended"} \cup Body]
  /\ attempt \in [Files -> 1 .. MaxRetries + 2]
  /\ held \in [Files -> 0 .. MaxRetries + 1]
  /\ outcome \in [Files -> {"none", "verified", "mismatch", "error"}]
  /\ free \in 0 .. MaxParallel
  /\ local \in [Files -> Versions] /\ sum \in [Files -> Versions \cup {"none"}]
  /\ remote \in [Files -> Versions \cup {"none", "partial", "corrupt"}]
  /\ bad \in 0 .. MaxBad /\ mismatches \in Nat

\* Contents of different files are never compared: all files start out alike.
Init ==
  /\ main = "walking" /\ unvisited = Files
  /\ pc = [f \in Files |-> "absent"] /\ attempt = [f \in Files |-> 1]
  /\ held = [f \in Files |-> 0] /\ outcome = [f \in Files |-> "none"]
  /\ free = MaxParallel
  /\ \E v \in Versions : local = [f \in Files |-> v]
  /\ sum = [f \in Files |-> "none"] /\ remote = [f \in Files |-> "none"]
  /\ bad = 0 /\ mismatches = 0

-----------------------------------------------------------------------------
(* The caller.                                                             *)

DataUnchanged == UNCHANGED <<local, sum, remote, bad, mismatches>>

\* The walk takes the files in the order of their names.
Following(S) == CHOOSE f \in S : TRUE

Spawn ==
  /\ main = "walking" /\ unvisited # {}
  /\ unvisited' = unvisited \ {Following(unvisited)}
  /\ pc' = [pc EXCEPT ![Following(unvisited)] = "loop"]
  /\ UNCHANGED <<main, attempt, held, outcome, free>> /\ DataUnchanged

WalkEnds ==
  /\ main = "walking" /\ unvisited = {} /\ main' = "waiting"
  /\ UNCHANGED <<unvisited, goroutine, free>> /\ DataUnchanged

\* An entry cannot be read, or a remote directory made: the program exits
\* without waiting for the goroutines.
WalkFails ==
  /\ main = "walking" /\ main' = "failed"
  /\ UNCHANGED <<unvisited, goroutine, free>> /\ DataUnchanged

\* wg.Wait, then nil whatever became of the files.
Wait ==
  /\ main = "waiting" /\ \A f \in Files : pc[f] = "ended"
  /\ main' = "done"
  /\ UNCHANGED <<unvisited, goroutine, free>> /\ DataUnchanged

-----------------------------------------------------------------------------
(* The goroutine of a file; it dies with the program.                      *)

Runs(f, at) == main \in {"walking", "waiting"} /\ pc[f] = at

CallerUnchanged == UNCHANGED <<main, unvisited, local, bad>>

End_ReleasesOnce(f, result) ==
  /\ pc' = [pc EXCEPT ![f] = "ended"] /\ outcome' = [outcome EXCEPT ![f] = result]
  /\ held' = [held EXCEPT ![f] = 0]
  /\ free' = IF held[f] > 0 THEN free + 1 ELSE free

End_OnSuccessOnly(f, result) ==
  /\ pc' = [pc EXCEPT ![f] = "ended"] /\ outcome' = [outcome EXCEPT ![f] = result]
  /\ held' = [held EXCEPT ![f] = 0]
  /\ free' = IF result = "verified" THEN free + held[f] ELSE free

\* Every deferred sem.Release(1) runs.
End(f, result) ==
  /\ pc' = [pc EXCEPT ![f] = "ended"] /\ outcome' = [outcome EXCEPT ![f] = result]
  /\ held' = [held EXCEPT ![f] = 0] /\ free' = free + held[f]

Acquire_Unlimited(f) ==
  /\ Runs(f, "loop") /\ attempt[f] <= MaxRetries + 1
  /\ free' = free - 1 /\ held' = [held EXCEPT ![f] = @ + 1]
  /\ pc' = [pc EXCEPT ![f] = "sum"]
  /\ UNCHANGED <<attempt, outcome, sum, remote, mismatches>> /\ CallerUnchanged

Acquire(f) ==
  /\ Runs(f, "loop") /\ attempt[f] <= MaxRetries + 1 /\ free > 0
  /\ free' = free - 1 /\ held' = [held EXCEPT ![f] = @ + 1]
  /\ pc' = [pc EXCEPT ![f] = "sum"]
  /\ UNCHANGED <<attempt, outcome, sum, remote, mismatches>> /\ CallerUnchanged

\* The loop ran out of attempts, or never had one.
GiveUp(f) ==
  /\ Runs(f, "loop") /\ attempt[f] > MaxRetries + 1
  /\ End(f, "mismatch")
  /\ UNCHANGED <<attempt, sum, remote, mismatches>> /\ CallerUnchanged

Sum_Once(f) ==
  /\ Runs(f, "sum")
  /\ sum' = [sum EXCEPT ![f] = IF @ = "none" THEN local[f] ELSE @]
  /\ pc' = [pc EXCEPT ![f] = "create"]
  /\ UNCHANGED <<attempt, held, outcome, free, remote, mismatches>> /\ CallerUnchanged

\* Each attempt hashes the source anew.
Sum(f) ==
  /\ Runs(f, "sum")
  /\ sum' = [sum EXCEPT ![f] = local[f]] /\ pc' = [pc EXCEPT ![f] = "create"]
  /\ UNCHANGED <<attempt, held, outcome, free, remote, mismatches>> /\ CallerUnchanged

Create(f) ==
  /\ Runs(f, "create")
  /\ remote' = [remote EXCEPT ![f] = "partial"] /\ pc' = [pc EXCEPT ![f] = "copy"]
  /\ UNCHANGED <<attempt, held, outcome, free, sum, mismatches>> /\ CallerUnchanged

Copy(f) ==
  /\ Runs(f, "copy")
  /\ remote' = [remote EXCEPT ![f] = local[f]] /\ pc' = [pc EXCEPT ![f] = "check"]
  /\ UNCHANGED <<attempt, held, outcome, free, sum, mismatches>> /\ CallerUnchanged

\* Hash the remote copy and compare; on a mismatch go round the loop, with
\* the permit still held.
Check(f) ==
  /\ Runs(f, "check")
  /\ IF remote[f] = sum[f]
     THEN End(f, "verified") /\ UNCHANGED <<attempt, mismatches>>
     ELSE /\ attempt' = [attempt EXCEPT ![f] = @ + 1] /\ mismatches' = mismatches + 1
          /\ pc' = [pc EXCEPT ![f] = "loop"] /\ UNCHANGED <<held, outcome, free>>
  /\ UNCHANGED <<sum, remote>> /\ CallerUnchanged

\* Any call of the body but the comparison may fail: no retry.
Fail(f) ==
  /\ \E at \in Body : Runs(f, at)
  /\ End(f, "error")
  /\ UNCHANGED <<attempt, sum, remote, mismatches>> /\ CallerUnchanged

FileStep(f) ==
  Acquire(f) \/ GiveUp(f) \/ Sum(f) \/ Create(f) \/ Copy(f) \/ Check(f)

-----------------------------------------------------------------------------
(* The environment.                                                        *)

Bad == bad < MaxBad /\ bad' = bad + 1

Edit(f, v) ==
  /\ Bad /\ v # local[f] /\ local' = [local EXCEPT ![f] = v]
  /\ UNCHANGED <<main, unvisited, goroutine, free, sum, remote, mismatches>>

\* What was copied is not what was read.
Corrupt(f) ==
  /\ Bad /\ Runs(f, "check") /\ remote' = [remote EXCEPT ![f] = "corrupt"]
  /\ UNCHANGED <<main, unvisited, goroutine, free, local, sum, mismatches>>

Next ==
  \/ Spawn \/ WalkEnds \/ WalkFails \/ Wait
  \/ \E f \in Files : FileStep(f) \/ Fail(f) \/ Corrupt(f)
  \/ \E f \in Files : \E v \in Versions : Edit(f, v)

Walk == Spawn \/ WalkEnds \/ Wait

Spec == Init /\ [][Next]_vars

\* The walk and every goroutine run while they can.
FairSpec ==
  /\ Spec
  /\ WF_vars(Walk)
  /\ \A f \in Files : WF_vars(FileStep(f))

-----------------------------------------------------------------------------
(* What must hold.                                                         *)

\* Whatever path a goroutine leaves by, the permits it took come back, all of
\* them (sftp.go:141-145).
PermitsConserved == free + MapThenSumSet(LAMBDA f : held[f], Files) = MaxParallel

\* No more than --parallel files are being transferred (README.md:189).
ParallelLimit == Cardinality({f \in Files : pc[f] \in Body}) <= MaxParallel

\* Every mismatch has an edit or a bad copy of its own to blame: none is left
\* over from an earlier attempt, or spills over to another file, so a file is
\* given up only after --retries + 1 incidents (sftp.go:135-212).
MismatchesHaveCauses == mismatches <= bad

\* Each mismatch pins one permit, so retries cannot starve each other while
\* there are fewer mismatches than permits (sftp.go:141-145).
PermitLeft ==
  mismatches < MaxParallel /\ (\E f \in Files : pc[f] = "loop")
    => free > 0 \/ \E f \in Files : pc[f] \in Body

\* A file that did not match is tried again, as long as retries are left
\* (README.md:197).
RetryProceeds ==
  \A f \in Files : (pc[f] = "loop" /\ main = "waiting") ~> (pc[f] # "loop")
=============================================================================
