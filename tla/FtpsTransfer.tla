----------------------------- MODULE FtpsTransfer -----------------------------
(***************************************************************************)
(* The upload of internal/transfer/ftps.go: one control connection, one    *)
(* file at a time, each stored again while the size of the remote copy     *)
(* differs from the size the walk listed.  Contents are not compared.      *)
(*                                                                         *)
(* The source files and their remote copies are those of SftpTransfer.     *)
(* Making directories, whose errors are ignored, is left out.              *)
(* Operators named <definition>_<what> are plausible faults of <definition>. *)
(***************************************************************************)
EXTENDS Integers

CONSTANTS
  Files,       \* the regular files under srcPath
  MaxRetries,  \* --retries
  Versions,    \* contents a source file may have over time
  SizeOf,      \* and their sizes
  MaxBad       \* bound on edits, altered copies and lost connections

VARIABLES
  ftps,        \* FTPSTransfer: "login", "walk", "loop", "size", "done" or "failed"
  todo, file, attempt,  \* the walk; the file at hand; the attempt counter
  listed,      \* per file, the size the walk found; -1 before
  stored,      \* per file, how its transfer ended
  remoteSize,  \* the size of the copy of the file at hand
  alive,       \* the control connection
  local, remote, bad

progress == <<todo, file, attempt, listed, stored>>
ftpsVars == <<ftps, progress, remoteSize, alive>>
vars == <<ftpsVars, local, remote, bad>>

FtpsTypeOK ==
  /\ ftps \in {"login", "walk", "loop", "size", "done", "failed"}
  /\ todo \subseteq Files /\ attempt \in 1 .. MaxRetries + 2
  /\ ftps \in {"loop", "size"} => file \in Files
  /\ listed \in [Files -> Nat \cup {-1}]
  /\ stored \in [Files -> {"none", "verified", "unchecked", "untried"}]
  /\ remoteSize \in Nat \cup {-1} /\ alive \in BOOLEAN

FtpsInit ==
  /\ ftps = "login" /\ todo = Files /\ file = (CHOOSE f \in Files : TRUE) /\ attempt = 1
  /\ listed = [f \in Files |-> -1] /\ stored = [f \in Files |-> "none"]
  /\ remoteSize = -1 /\ alive = TRUE

-----------------------------------------------------------------------------

Login ==
  /\ ftps = "login" /\ ftps' \in {"walk", "failed"}
  /\ UNCHANGED <<progress, remoteSize, alive, local, remote, bad>>

\* The walk lists a file: its size is taken once, for all attempts.  With
\* --retries=-1 the loop has no attempt, and that is no error.
Enter ==
  /\ ftps = "walk" /\ todo # {}
  /\ file' = (CHOOSE f \in todo : TRUE) /\ todo' = todo \ {file'} /\ attempt' = 1
  /\ listed' = [listed EXCEPT ![file'] = SizeOf[local[file']]]
  /\ IF MaxRetries >= 0 THEN ftps' = "loop" /\ UNCHANGED stored
                        ELSE UNCHANGED ftps /\ stored' = [stored EXCEPT ![file'] = "untried"]
  /\ UNCHANGED <<remoteSize, alive, local, remote, bad>>

WalkDone ==
  /\ ftps = "walk" /\ ftps' \in IF todo = {} THEN {"done", "failed"} ELSE {"failed"}
  /\ UNCHANGED <<progress, remoteSize, alive, local, remote, bad>>

\* The transfer of the file returns nil.
Returns(result) ==
  /\ ftps' = "walk" /\ stored' = [stored EXCEPT ![file] = result]
  /\ UNCHANGED <<todo, file, attempt, listed>>

Again_EndsQuietly ==
  /\ ftps' = IF attempt = MaxRetries + 1 THEN "walk" ELSE "loop"
  /\ attempt' = IF attempt = MaxRetries + 1 THEN attempt ELSE attempt + 1
  /\ UNCHANGED <<todo, file, listed, stored>>

Again_SameAttempt == ftps' = "loop" /\ UNCHANGED progress

\* The next attempt, or an error that ends the walk after the last one.
Again ==
  /\ IF attempt = MaxRetries + 1
     THEN ftps' = "failed" /\ UNCHANGED attempt
     ELSE ftps' = "loop" /\ attempt' = attempt + 1
  /\ UNCHANGED <<todo, file, listed, stored>>

\* Stor succeeds; what it stored may have been altered or cut on the way.  A cut
\* copy is shorter than the source is now, which may have grown since the walk.
Stor ==
  /\ ftps = "loop" /\ alive
  /\ \/ /\ remote' = [remote EXCEPT ![file] = local[file]]
        /\ remoteSize' = SizeOf[local[file]] /\ UNCHANGED bad
     \/ /\ bad < MaxBad /\ bad' = bad + 1
        /\ \/ remote' = [remote EXCEPT ![file] = "corrupt"] /\ remoteSize' = SizeOf[local[file]]
           \/ /\ remote' = [remote EXCEPT ![file] = "partial"]
              /\ remoteSize' \in 0 .. SizeOf[local[file]] - 1
  /\ ftps' = "size"
  /\ UNCHANGED <<progress, alive, local>>

\* The transfer breaks off; on a dead control connection it always does.
StorFails ==
  /\ ftps = "loop"
  /\ \/ alive /\ bad < MaxBad /\ bad' = bad + 1 /\ alive' \in BOOLEAN
          /\ remote' \in {remote, [remote EXCEPT ![file] = "partial"]}
     \/ ~alive /\ UNCHANGED <<alive, bad, remote>>
  /\ Again
  /\ UNCHANGED <<remoteSize, local>>

\* The source file cannot be opened: no retry.
OpenFails ==
  /\ ftps = "loop" /\ ftps' = "failed"
  /\ UNCHANGED <<progress, remoteSize, alive, local, remote, bad>>

Fits == remoteSize = listed[file]

CheckSize ==
  /\ ftps = "size" /\ alive
  /\ IF Fits THEN Returns("verified") ELSE Again
  /\ UNCHANGED <<remoteSize, alive, local, remote, bad>>

\* The server does not tell the size: a warning, and success.
SizeUnknown ==
  /\ ftps = "size" /\ Returns("unchecked")
  /\ UNCHANGED <<remoteSize, alive, local, remote, bad>>

FtpsStep ==
  \/ Login \/ Enter \/ WalkDone \/ Stor \/ StorFails \/ OpenFails
  \/ CheckSize \/ SizeUnknown

-----------------------------------------------------------------------------
(* What must hold.                                                         *)

\* What a comparison of sizes cannot see: a copy altered without change of its
\* size, or cut to the listed size after its source had grown, which takes the
\* growth and the cut.
Unseen(f) == remote[f] = "corrupt" \/ (remote[f] = "partial" /\ bad >= 2)

\* The copy is whole and of the size the walk listed; or its size was compared, and
\* could not tell; or the server would not tell its size, and nothing was compared.
Accounted(f) ==
  \/ remote[f] \in Versions /\ SizeOf[remote[f]] = listed[f]
  \/ stored[f] = "verified" /\ Unseen(f)
  \/ stored[f] = "unchecked" /\ remote[f] # "none"

\* However often a file was edited, broken off or retried, the walk leaves it
\* behind only with such a copy (ftps.go:60-101).
PassedIsListed ==
  ftps \in {"walk", "done"} /\ MaxRetries >= 0 => \A f \in Files \ todo : Accounted(f)
=============================================================================
