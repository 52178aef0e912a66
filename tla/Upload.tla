-------------------------------- MODULE Upload --------------------------------
(***************************************************************************)
(* The upload command of cmd/main.go: it runs one of SFTPTransfer,         *)
(* SCPTransfer and FTPSTransfer, and exits with 1 if that returned an      *)
(* error, with 0 and "Transfer complete." otherwise.                       *)
(* Operators named <definition>_<what> are plausible faults of <definition>. *)
(***************************************************************************)
EXTENDS SftpTransfer

CONSTANT SizeOf  \* of the contents

ASSUME SizeAssumption == SizeOf \in [Versions -> Nat]

VARIABLES
  protocol,  \* --protocol; "" until the flags are parsed
  scp,       \* SCPTransfer: "idle", "mkdir", "copy", "done" or "failed"
  exit,      \* the exit status, -1 while the program runs
  ftps, todo, file, attempts, listed, stored, remoteSize, alive

ftpsState == <<ftps, todo, file, attempts, listed, stored, remoteSize, alive>>
sftpState == <<main, unvisited, goroutine, free, sum, mismatches>>
uploadVars == <<vars, protocol, scp, exit, ftpsState>>

Ftps == INSTANCE FtpsTransfer WITH attempt <- attempts

UploadTypeOK ==
  /\ TypeOK /\ Ftps!FtpsTypeOK
  /\ protocol \in {"", "sftp", "scp", "ftps", "refused"}
  /\ scp \in {"idle", "mkdir", "copy", "done", "failed"}
  /\ exit \in {-1, 0, 1}

UploadInit ==
  /\ Init /\ Ftps!FtpsInit
  /\ protocol = "" /\ exit = -1 /\ scp = "idle"

-----------------------------------------------------------------------------

\* The flags are parsed.  Anything but the three names is refused, and so is a
\* call without host, user, source or destination.
Dispatch ==
  /\ protocol = "" /\ protocol' \in {"sftp", "scp", "ftps", "refused"}
  /\ exit' = IF protocol' = "refused" THEN 1 ELSE -1
  /\ UNCHANGED <<vars, scp, ftpsState>>

\* With --scp-mkdir, ssh mkdir -p; then scp.  Either command may fail.
Scp ==
  /\ scp' \in CASE scp = "idle" -> {"mkdir", "copy"}
               [] scp = "mkdir" -> {"copy", "failed"}
               [] scp = "copy" -> {"done", "failed"}
               [] OTHER -> {}
  /\ UNCHANGED <<vars, ftpsState>>

\* Where the transfer that runs is.
Transfer ==
  CASE protocol = "sftp" -> main
    [] protocol = "scp" -> scp
    [] protocol = "ftps" -> ftps
    [] OTHER -> "none"

Finish_AlwaysComplete ==
  /\ exit = -1 /\ Transfer \in {"done", "failed"}
  /\ exit' = 0
  /\ UNCHANGED <<vars, protocol, scp, ftpsState>>

\* The transfer has returned nil, or an error.
Finish ==
  /\ exit = -1 /\ Transfer \in {"done", "failed"}
  /\ exit' = IF Transfer = "done" THEN 0 ELSE 1
  /\ UNCHANGED <<vars, protocol, scp, ftpsState>>

Running(p) == protocol = p /\ exit = -1 /\ UNCHANGED <<protocol, exit>>
SftpOnly == UNCHANGED <<scp, ftpsState>>

UploadNext ==
  \/ Dispatch \/ Finish
  \/ Running("scp") /\ Scp
  \/ Running("sftp") /\ Next /\ SftpOnly
  \/ Running("ftps") /\ Ftps!FtpsStep /\ UNCHANGED <<sftpState, scp>>
  \/ Running("ftps") /\ (\E f \in Files : \E v \in Versions : Edit(f, v)) /\ SftpOnly

UploadSpec == UploadInit /\ [][UploadNext]_uploadVars

\* The process, its goroutines and the commands it starts run while they can.
UploadFairSpec ==
  /\ UploadSpec
  /\ WF_uploadVars(Dispatch \/ Finish)
  /\ WF_uploadVars(Running("scp") /\ Scp)
  /\ WF_uploadVars(Running("ftps") /\ Ftps!FtpsStep /\ UNCHANGED <<sftpState, scp>>)
  /\ WF_uploadVars(Running("sftp") /\ Walk /\ SftpOnly)
  /\ \A f \in Files : WF_uploadVars(Running("sftp") /\ FileStep(f) /\ SftpOnly)

-----------------------------------------------------------------------------
(* What must hold.                                                         *)

\* "Transfer complete." is printed when every file was transferred or given
\* up, and over FTPS only when none was given up (main.go:61-85).
CompleteIsDecided ==
  exit = 0 =>
    /\ protocol = "sftp" => \A f \in Files : outcome[f] # "none"
    /\ protocol = "ftps" => \A f \in Files : stored[f] # "none"

\* See FtpsTransfer.
PassedIsListed == Ftps!PassedIsListed

\* "GoXfer compares local and remote files and retries on mismatch"
\* (README.md:197): a completed FTPS upload has left no cut or altered copy.
ComparedWithRemote ==
  exit = 0 /\ protocol = "ftps" => \A f \in Files : remote[f] \in Versions

\* The program comes to an end, unless mismatches over SFTP have pinned all
\* permits (main.go:61-85, sftp.go:135-145, 218).
UploadEnds == <>(exit # -1 \/ (protocol = "sftp" /\ mismatches >= MaxParallel))
=============================================================================
