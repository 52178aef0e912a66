----------------------------- MODULE UploadProofs -----------------------------
(***************************************************************************)
(* Upload for any files, sizes and flags: what SftpTransferProofs shows of *)
(* the SFTP upload holds inside the command, the FTPS upload leaves behind *)
(* only files whose copies are accounted for, and "complete" means that    *)
(* every file was decided.                                                 *)
(***************************************************************************)
EXTENDS Upload, SftpTransferProofs

\* The types of the command's own variables.
CommandTypes ==
  /\ protocol \in {"", "sftp", "scp", "ftps", "refused"}
  /\ scp \in {"idle", "mkdir", "copy", "done", "failed"}
  /\ exit \in {-1, 0, 1}

\* One transfer at most has started; exit 0 is a transfer that returned nil.
OneTransfer ==
  /\ protocol # "sftp" =>
       main = "walking" /\ \A f \in Files : pc[f] = "absent" /\ outcome[f] = "none"
  /\ protocol # "ftps" => ftps = "login"
  /\ exit = 0 => (protocol = "sftp" => main = "done") /\ (protocol = "ftps" => ftps = "done")

\* What a file counts as once the walk has left it behind.
Passed == IF MaxRetries >= 0 THEN {"verified", "unchecked"} ELSE {"untried"}

\* The FTPS walk has one file at hand, and what it has not reached, or is at, is
\* not decided.
AtHand ==
  /\ ftps = "login" => todo = Files
  /\ \A f \in todo : stored[f] = "none"
  /\ ftps \in {"loop", "size"} =>
       /\ file \in Files \ todo /\ stored[file] = "none"
       /\ MaxRetries >= 0 /\ attempts <= MaxRetries + 1 /\ listed[file] \in Nat
       /\ \A f \in (Files \ todo) \ {file} : stored[f] \in Passed
  /\ ftps \in {"walk", "done"} => \A f \in Files \ todo : stored[f] \in Passed
  /\ ftps = "done" => todo = {}

\* The source at hand differs in size from the listing only by an edit; the size
\* the server tells is that of the copy, and a cut copy has the listed size only
\* if the source had grown.
CopyAtHand ==
  /\ ftps \in {"loop", "size"} /\ SizeOf[local[file]] # listed[file] => bad >= 1
  /\ ftps = "size" =>
       /\ remote[file] # "none"
       /\ remote[file] \in Versions => remoteSize = SizeOf[remote[file]]
       /\ remote[file] = "partial" /\ remoteSize = listed[file] => bad >= 2

\* What was left behind stays accounted for.
LeftBehind ==
  \A f \in Files : stored[f] \in {"verified", "unchecked"} => Ftps!Accounted(f)

\* What the FTPS upload keeps.
FtpsInv == Ftps!FtpsTypeOK /\ AtHand /\ CopyAtHand /\ LeftBehind

\* The inductive invariant of the command.
UploadInv == SftpInv /\ CausesLeft /\ CommandTypes /\ OneTransfer /\ FtpsInv

-----------------------------------------------------------------------------

\* It holds when the command starts.
LEMMA UploadStarts == UploadInit => UploadInv
<1> SUFFICES ASSUME UploadInit PROVE UploadInv
  OBVIOUS
<1>1. SftpInv /\ CausesLeft
  BY SftpInit, CausesInit DEF UploadInit
<1>2. CommandTypes /\ OneTransfer
  BY DEF UploadInit, Init, CommandTypes, OneTransfer, Ftps!FtpsInit
<1>3. Ftps!FtpsTypeOK
  <2>1. Ftps!FtpsInit
    BY DEF UploadInit
  <2>2. 1 \in 1 .. MaxRetries + 2
    BY FlagAssumption
  <2>3. /\ ftps = "login" /\ todo = Files /\ attempts = 1 /\ listed = [f \in Files |-> -1]
        /\ stored = [f \in Files |-> "none"] /\ remoteSize = -1 /\ alive = TRUE
    BY <2>1 DEF Ftps!FtpsInit
  <2> QED
    BY <2>2, <2>3 DEF Ftps!FtpsTypeOK
<1>4. AtHand /\ CopyAtHand /\ LeftBehind
  BY DEF UploadInit, AtHand, CopyAtHand, LeftBehind, Ftps!FtpsInit
<1> QED
  BY <1>1, <1>2, <1>3, <1>4 DEF UploadInv, FtpsInv

\* A step that leaves the FTPS upload alone keeps what holds of it, if it leaves
\* the copies alone too and counts its edits, or there is no FTPS upload.
LEMMA FtpsKept ==
  ASSUME FtpsInv, TypeOK, UNCHANGED ftpsState,
         \/ UNCHANGED <<remote, local, bad>>
         \/ UNCHANGED remote /\ bad' = bad + 1
         \/ ftps = "login"
  PROVE  FtpsInv'
<1>1. Ftps!FtpsTypeOK' /\ AtHand'
  BY DEF FtpsInv, ftpsState, Ftps!FtpsTypeOK, AtHand
<1>2. CASE UNCHANGED <<remote, local, bad>> \/ (UNCHANGED remote /\ bad' = bad + 1)
  <2>1. bad \in Nat /\ bad' \in Nat /\ bad' >= bad /\ (UNCHANGED local \/ bad' >= 1)
    BY <1>2 DEF TypeOK
  <2>2. UNCHANGED <<remote, ftps, file, listed, stored, remoteSize>>
    BY <1>2 DEF ftpsState
  <2>3. CopyAtHand'
    BY <2>1, <2>2 DEF FtpsInv, CopyAtHand
  <2>4. LeftBehind'
    BY <2>1, <2>2 DEF FtpsInv, LeftBehind, Ftps!Accounted, Ftps!Unseen
  <2> QED
    BY <1>1, <2>3, <2>4 DEF FtpsInv
<1>3. CASE ftps = "login"
  <2>1. \A f \in Files : stored[f] = "none"
    BY <1>3 DEF FtpsInv, AtHand
  <2> QED
    BY <1>1, <1>3, <2>1 DEF FtpsInv, ftpsState, CopyAtHand, LeftBehind
<1> QED
  BY <1>2, <1>3

\* The FTPS upload works on the copies, and leaves the state of the goroutines
\* of the SFTP upload as it was before any was started.
LEMMA SftpKept ==
  ASSUME SftpInv, UNCHANGED <<sftpState, local>>, bad' \in 0 .. MaxBad,
         remote' \in [Files -> Versions \cup {"none", "partial", "corrupt"}],
         bad' >= bad, CausesLeft, \A f \in Files : pc[f] = "absent"
  PROVE  SftpInv' /\ CausesLeft'
<1>1. TypeOK'
  BY DEF SftpInv, TypeOK, sftpState, goroutine
<1>2. CausesLeft'
  <2>1. mismatches' = mismatches /\ Due' = Due
    BY DEF sftpState, goroutine, Due, Doomed
  <2>2. mismatches \in Nat /\ bad \in Int /\ bad' \in Int
    BY DEF SftpInv, TypeOK
  <2>3. SumOf(Due, Files) \in Int
    <3>1. Due \in [Files -> Int]
      BY DEF Due
    <3> QED
      BY <3>1, FilesAssumption, SumType
  <2>4. mismatches + SumOf(Due, Files) <= bad'
    BY <2>2, <2>3 DEF CausesLeft
  <2> QED
    BY <2>1, <2>4 DEF CausesLeft
<1> QED
  BY <1>1, <1>2 DEF SftpInv, sftpState, goroutine, Conserved, HeldByAttempt,
     MismatchesPin, Idle, Progress

\* Every step of the FTPS upload keeps its part.
LEMMA FtpsSteps ==
  ASSUME TypeOK, FtpsInv, Ftps!FtpsStep
  PROVE  /\ FtpsInv'
         /\ bad' \in 0 .. MaxBad /\ bad' >= bad /\ UNCHANGED local
         /\ remote' \in [Files -> Versions \cup {"none", "partial", "corrupt"}]
<1>1. Ftps!FtpsTypeOK /\ AtHand /\ CopyAtHand /\ LeftBehind
  BY DEF FtpsInv
<1>2. CASE Ftps!Login
  <2>1. Ftps!FtpsTypeOK'
    BY <1>1, <1>2 DEF Ftps!Login, Ftps!progress, Ftps!FtpsTypeOK
  <2>2. AtHand'
    BY <1>1, <1>2 DEF Ftps!Login, Ftps!progress, AtHand
  <2>3. CopyAtHand'
    BY <1>2 DEF Ftps!Login, CopyAtHand
  <2>4. LeftBehind'
    BY <1>1, <1>2 DEF Ftps!Login, Ftps!progress, LeftBehind, Ftps!Accounted, Ftps!Unseen
  <2>5. /\ bad' \in 0 .. MaxBad /\ bad' >= bad /\ UNCHANGED local
        /\ remote' \in [Files -> Versions \cup {"none", "partial", "corrupt"}]
    BY <1>2 DEF Ftps!Login, TypeOK
  <2> QED
    BY <2>1, <2>2, <2>3, <2>4, <2>5 DEF FtpsInv
<1>3. CASE Ftps!Enter
  <2>1. file' \in todo
    BY <1>3 DEF Ftps!Enter
  <2>2. /\ ftps = "walk" /\ todo' = todo \ {file'} /\ attempts' = 1
        /\ listed' = [listed EXCEPT ![file'] = SizeOf[local[file']]]
        /\ IF MaxRetries >= 0 THEN ftps' = "loop" /\ UNCHANGED stored
           ELSE UNCHANGED ftps /\ stored' = [stored EXCEPT ![file'] = "untried"]
        /\ UNCHANGED <<remoteSize, alive, local, remote, bad>>
    BY <1>3 DEF Ftps!Enter
  <2>3. file' \in Files /\ SizeOf[local[file']] \in Nat /\ stored[file'] = "none"
    BY <1>1, <2>1, SizeAssumption DEF TypeOK, Ftps!FtpsTypeOK, AtHand
  <2>4. Ftps!FtpsTypeOK'
    <3>1. 1 \in 1 .. MaxRetries + 2
      BY FlagAssumption
    <3> QED
      BY <1>1, <2>2, <2>3, <3>1 DEF Ftps!FtpsTypeOK
  <2>5. AtHand'
    <3>1. CASE MaxRetries >= 0
      BY <1>1, <2>2, <2>3, <3>1, FlagAssumption DEF Ftps!FtpsTypeOK, AtHand
    <3>2. CASE ~(MaxRetries >= 0)
      BY <1>1, <2>2, <3>2 DEF Ftps!FtpsTypeOK, AtHand, Passed
    <3> QED
      BY <3>1, <3>2
  <2>6. CopyAtHand'
    BY <1>1, <2>2, <2>3 DEF CopyAtHand, Ftps!FtpsTypeOK
  <2>7. LeftBehind'
    <3>1. \A f \in Files : stored'[f] = "verified" => f # file' /\ stored[f] = "verified"
      BY <1>1, <2>2, <2>3 DEF Ftps!FtpsTypeOK
    <3>2. \A f \in Files : f # file' => listed'[f] = listed[f]
      BY <2>2
    <3>3. \A f \in Files : stored'[f] = "unchecked" => f # file' /\ stored[f] = "unchecked"
      BY <1>1, <2>2, <2>3 DEF Ftps!FtpsTypeOK
    <3> QED
      BY <1>1, <2>2, <3>1, <3>2, <3>3 DEF LeftBehind, Ftps!Accounted, Ftps!Unseen
  <2> QED
    BY <2>2, <2>4, <2>5, <2>6, <2>7 DEF FtpsInv, TypeOK
<1>4. CASE Ftps!WalkDone
  <2>1. Ftps!FtpsTypeOK'
    BY <1>1, <1>4 DEF Ftps!WalkDone, Ftps!progress, Ftps!FtpsTypeOK
  <2>2. AtHand'
    BY <1>1, <1>4 DEF Ftps!WalkDone, Ftps!progress, AtHand
  <2>3. CopyAtHand'
    BY <1>4 DEF Ftps!WalkDone, CopyAtHand
  <2>4. LeftBehind'
    BY <1>1, <1>4 DEF Ftps!WalkDone, Ftps!progress, LeftBehind,
       Ftps!Accounted, Ftps!Unseen
  <2>5. /\ bad' \in 0 .. MaxBad /\ bad' >= bad /\ UNCHANGED local
        /\ remote' \in [Files -> Versions \cup {"none", "partial", "corrupt"}]
    BY <1>4 DEF Ftps!WalkDone, TypeOK
  <2> QED
    BY <2>1, <2>2, <2>3, <2>4, <2>5 DEF FtpsInv
<1>5. CASE Ftps!Stor
  <2>1. Ftps!FtpsTypeOK'
    BY <1>1, <1>5, SizeAssumption DEF Ftps!Stor, Ftps!progress, TypeOK, Ftps!FtpsTypeOK
  <2>2. AtHand'
    BY <1>1, <1>5 DEF Ftps!Stor, Ftps!progress, AtHand
  <2>3. CopyAtHand'
    BY <1>1, <1>5, VersionAssumption DEF Ftps!Stor, Ftps!progress, TypeOK, AtHand,
       CopyAtHand
  <2>4. LeftBehind'
    BY <1>1, <1>5 DEF Ftps!Stor, Ftps!progress, TypeOK, AtHand, LeftBehind,
       Ftps!Accounted, Ftps!Unseen
  <2>5. /\ bad' \in 0 .. MaxBad /\ bad' >= bad /\ UNCHANGED local
        /\ remote' \in [Files -> Versions \cup {"none", "partial", "corrupt"}]
    BY <1>5, BadAssumption DEF Ftps!Stor, TypeOK
  <2> QED
    BY <2>1, <2>2, <2>3, <2>4, <2>5 DEF FtpsInv
<1>6. CASE Ftps!StorFails
  <2>1. Ftps!FtpsTypeOK'
    BY <1>1, <1>6, FlagAssumption DEF Ftps!StorFails, Ftps!Again, Ftps!FtpsTypeOK,
       AtHand
  <2>2. AtHand'
    BY <1>1, <1>6, FlagAssumption DEF Ftps!StorFails, Ftps!Again, Ftps!FtpsTypeOK,
       AtHand
  <2>3. CopyAtHand'
    BY <1>1, <1>6 DEF Ftps!StorFails, Ftps!Again, TypeOK, CopyAtHand
  <2>4. LeftBehind'
    BY <1>1, <1>6 DEF Ftps!StorFails, Ftps!Again, TypeOK, AtHand, LeftBehind,
       Ftps!Accounted, Ftps!Unseen
  <2>5. /\ bad' \in 0 .. MaxBad /\ bad' >= bad /\ UNCHANGED local
        /\ remote' \in [Files -> Versions \cup {"none", "partial", "corrupt"}]
    BY <1>6, BadAssumption DEF Ftps!StorFails, TypeOK
  <2> QED
    BY <2>1, <2>2, <2>3, <2>4, <2>5 DEF FtpsInv
<1>7. CASE Ftps!OpenFails
  <2>1. Ftps!FtpsTypeOK'
    BY <1>1, <1>7 DEF Ftps!OpenFails, Ftps!progress, Ftps!FtpsTypeOK
  <2>2. AtHand'
    BY <1>1, <1>7 DEF Ftps!OpenFails, Ftps!progress, AtHand
  <2>3. CopyAtHand'
    BY <1>7 DEF Ftps!OpenFails, CopyAtHand
  <2>4. LeftBehind'
    BY <1>1, <1>7 DEF Ftps!OpenFails, Ftps!progress, LeftBehind,
       Ftps!Accounted, Ftps!Unseen
  <2>5. /\ bad' \in 0 .. MaxBad /\ bad' >= bad /\ UNCHANGED local
        /\ remote' \in [Files -> Versions \cup {"none", "partial", "corrupt"}]
    BY <1>7 DEF Ftps!OpenFails, TypeOK
  <2> QED
    BY <2>1, <2>2, <2>3, <2>4, <2>5 DEF FtpsInv
<1>8. CASE Ftps!CheckSize
  <2>1. Ftps!FtpsTypeOK'
    BY <1>1, <1>8, FlagAssumption DEF Ftps!CheckSize, Ftps!Again, Ftps!Returns,
       Ftps!FtpsTypeOK, AtHand
  <2>2. AtHand'
    BY <1>1, <1>8, FlagAssumption DEF Ftps!CheckSize, Ftps!Again, Ftps!Returns,
       Ftps!FtpsTypeOK, AtHand, Passed
  <2>3. CopyAtHand'
    BY <1>1, <1>8 DEF Ftps!CheckSize, Ftps!Again, Ftps!Returns, CopyAtHand
  <2>4. LeftBehind'
    <3>1. UNCHANGED <<remoteSize, local, remote, bad, listed, file>>
      BY <1>8 DEF Ftps!CheckSize, Ftps!Again, Ftps!Returns
    <3>2. \A f \in Files : stored'[f] = stored[f] \/ (f = file /\ stored'[f] = "verified")
      BY <1>1, <1>8 DEF Ftps!CheckSize, Ftps!Again, Ftps!Returns, Ftps!FtpsTypeOK
    <3>3. stored' # stored => remoteSize = listed[file] /\ ftps = "size"
      BY <1>8 DEF Ftps!CheckSize, Ftps!Again, Ftps!Fits
    <3>4. ftps = "size" => remote[file] \in Versions \cup {"partial", "corrupt"}
      BY <1>1 DEF TypeOK, AtHand, CopyAtHand
    <3>5. stored' # stored => \/ remote[file] \in Versions /\ SizeOf[remote[file]] = listed[file]
                              \/ Ftps!Unseen(file)
      <4>1. SUFFICES ASSUME stored' # stored
                     PROVE  \/ remote[file] \in Versions /\ SizeOf[remote[file]] = listed[file]
                            \/ Ftps!Unseen(file)
        OBVIOUS
      <4>2. CASE remote[file] \in Versions
        BY <1>1, <3>3, <4>1, <4>2 DEF CopyAtHand
      <4>3. CASE remote[file] = "partial"
        BY <1>1, <3>3, <4>1, <4>3 DEF CopyAtHand, Ftps!Unseen
      <4>4. CASE remote[file] = "corrupt"
        BY <4>4 DEF Ftps!Unseen
      <4> QED
        BY <3>3, <3>4, <4>1, <4>2, <4>3, <4>4
    <3> QED
      BY <1>1, <3>1, <3>2, <3>5 DEF LeftBehind, Ftps!Accounted, Ftps!Unseen
  <2>5. /\ bad' \in 0 .. MaxBad /\ bad' >= bad /\ UNCHANGED local
        /\ remote' \in [Files -> Versions \cup {"none", "partial", "corrupt"}]
    BY <1>8 DEF Ftps!CheckSize, TypeOK
  <2> QED
    BY <2>1, <2>2, <2>3, <2>4, <2>5 DEF FtpsInv
<1>9. CASE Ftps!SizeUnknown
  <2>1. Ftps!FtpsTypeOK'
    BY <1>1, <1>9 DEF Ftps!SizeUnknown, Ftps!Returns, Ftps!FtpsTypeOK
  <2>2. AtHand'
    BY <1>1, <1>9 DEF Ftps!SizeUnknown, Ftps!Returns, Ftps!FtpsTypeOK, AtHand, Passed
  <2>3. CopyAtHand'
    BY <1>9 DEF Ftps!SizeUnknown, Ftps!Returns, CopyAtHand
  <2>4. LeftBehind'
    <3>1. UNCHANGED <<remoteSize, local, remote, bad, listed, file>>
      BY <1>9 DEF Ftps!SizeUnknown, Ftps!Returns
    <3>2. \A f \in Files : stored'[f] = stored[f] \/ (f = file /\ stored'[f] = "unchecked")
      BY <1>1, <1>9 DEF Ftps!SizeUnknown, Ftps!Returns, Ftps!FtpsTypeOK
    <3>3. remote[file] # "none"
      BY <1>1, <1>9 DEF Ftps!SizeUnknown, CopyAtHand
    <3> QED
      BY <1>1, <3>1, <3>2, <3>3 DEF LeftBehind, Ftps!Accounted, Ftps!Unseen
  <2>5. /\ bad' \in 0 .. MaxBad /\ bad' >= bad /\ UNCHANGED local
        /\ remote' \in [Files -> Versions \cup {"none", "partial", "corrupt"}]
    BY <1>9 DEF Ftps!SizeUnknown, TypeOK
  <2> QED
    BY <2>1, <2>2, <2>3, <2>4, <2>5 DEF FtpsInv
<1> QED
  BY <1>2, <1>3, <1>4, <1>5, <1>6, <1>7, <1>8, <1>9 DEF Ftps!FtpsStep

\* Every step of the command keeps the invariant.
LEMMA UploadStep == UploadInv /\ [UploadNext]_uploadVars => UploadInv'
<1> SUFFICES ASSUME UploadInv, [UploadNext]_uploadVars PROVE UploadInv'
  OBVIOUS
<1>1. SftpInv /\ CausesLeft /\ CommandTypes /\ OneTransfer /\ FtpsInv /\ TypeOK
  BY DEF UploadInv, SftpInv
<1>2. CASE Dispatch \/ Finish \/ (Running("scp") /\ Scp) \/ UNCHANGED uploadVars
  <2>1. UNCHANGED <<vars, ftpsState>>
    BY <1>2 DEF Dispatch, Finish, Scp, uploadVars
  <2>2. SftpInv' /\ CausesLeft'
    BY <1>1, <2>1, SftpStep, CausesStep
  <2>3. FtpsInv'
    BY <1>1, <2>1, FtpsKept DEF vars
  <2>4. UNCHANGED <<main, pc, outcome, ftps>>
    BY <2>1 DEF vars, goroutine, ftpsState
  <2>5. CommandTypes'
    BY <1>1, <1>2 DEF Dispatch, Finish, Scp, Running, uploadVars, CommandTypes
  <2>6. OneTransfer'
    <3>1. CASE Dispatch
      <4>1. protocol = "" /\ exit' = IF protocol' = "refused" THEN 1 ELSE -1
        BY <3>1 DEF Dispatch
      <4>2. exit' # 0
        <5>1. -1 # 0 /\ 1 # 0
          OBVIOUS
        <5>2. exit' = 1 \/ exit' = -1
          BY <4>1
        <5> QED
          BY <5>2
      <4> QED
        BY <1>1, <2>4, <4>1, <4>2 DEF OneTransfer
    <3>2. CASE Finish
      <4>1. exit' = 0 => Transfer = "done"
        BY <3>2 DEF Finish
      <4>2. protocol' = protocol
        BY <3>2 DEF Finish
      <4>3. exit' = 0 => (protocol = "sftp" => main = "done") /\ (protocol = "ftps" => ftps = "done")
        BY <4>1 DEF Transfer
      <4> QED
        BY <1>1, <2>4, <4>2, <4>3 DEF OneTransfer
    <3>3. CASE (Running("scp") /\ Scp) \/ UNCHANGED uploadVars
      BY <1>1, <2>4, <3>3 DEF Running, uploadVars, OneTransfer
    <3> QED
      BY <1>2, <3>1, <3>2, <3>3
  <2> QED
    BY <2>2, <2>3, <2>5, <2>6 DEF UploadInv
<1>3. CASE Running("sftp") /\ Next /\ SftpOnly
  <2>1. SftpInv' /\ CausesLeft'
    BY <1>1, <1>3, SftpStep, CausesStep
  <2>2. FtpsInv'
    BY <1>1, <1>3, FtpsKept DEF SftpOnly, Running, OneTransfer
  <2>3. CommandTypes' /\ OneTransfer'
    BY <1>1, <1>3 DEF SftpOnly, Running, CommandTypes, OneTransfer, ftpsState
  <2> QED
    BY <2>1, <2>2, <2>3 DEF UploadInv
<1>4. CASE Running("ftps") /\ Ftps!FtpsStep /\ UNCHANGED <<sftpState, scp>>
  <2>1. /\ FtpsInv' /\ bad' \in 0 .. MaxBad /\ bad' >= bad /\ UNCHANGED local
        /\ remote' \in [Files -> Versions \cup {"none", "partial", "corrupt"}]
    BY <1>1, <1>4, FtpsSteps
  <2>2. \A f \in Files : pc[f] = "absent"
    BY <1>1, <1>4 DEF OneTransfer, Running
  <2>3. SftpInv' /\ CausesLeft'
    BY <1>1, <1>4, <2>1, <2>2, SftpKept
  <2>4. CommandTypes' /\ OneTransfer'
    BY <1>1, <1>4 DEF Running, CommandTypes, OneTransfer, sftpState, goroutine
  <2> QED
    BY <2>1, <2>3, <2>4 DEF UploadInv
<1>5. CASE Running("ftps") /\ (\E f \in Files : \E v \in Versions : Edit(f, v)) /\ SftpOnly
  <2>1. SftpInv' /\ CausesLeft'
    BY <1>1, <1>5, SftpStep, CausesStep DEF Next
  <2>2. UNCHANGED <<main, pc, outcome, remote>> /\ bad' = bad + 1
    BY <1>5 DEF Edit, Bad, goroutine
  <2>3. FtpsInv'
    BY <1>1, <1>5, <2>2, FtpsKept DEF SftpOnly
  <2>4. CommandTypes' /\ OneTransfer'
    BY <1>1, <1>5, <2>2 DEF SftpOnly, Running, CommandTypes, OneTransfer
  <2> QED
    BY <2>1, <2>3, <2>4 DEF UploadInv
<1> QED
  BY <1>2, <1>3, <1>4, <1>5 DEF UploadNext

\* It holds in every reachable state.
LEMMA UploadInvariant == UploadSpec => []UploadInv
  BY UploadStarts, UploadStep, PTL DEF UploadSpec

-----------------------------------------------------------------------------
(* What follows.                                                           *)

\* The variables of the command and of its transfers keep their types
\* (main.go:18-99, sftp.go, ftps.go).
THEOREM UploadTypes == UploadSpec => []UploadTypeOK
<1>1. UploadInv => UploadTypeOK
  BY DEF UploadInv, UploadTypeOK, SftpInv, FtpsInv, CommandTypes
<1> QED
  BY <1>1, UploadInvariant, PTL

\* "Transfer complete." is printed only when no file is undecided
\* (main.go:61-85).
THEOREM CompleteMeansDecided == UploadSpec => []CompleteIsDecided
<1>1. UploadInv => CompleteIsDecided
  BY DEF UploadInv, CompleteIsDecided, SftpInv, FtpsInv, OneTransfer, Progress, AtHand,
     Passed
<1> QED
  BY <1>1, UploadInvariant, PTL

\* Over FTPS, for any files, sizes and retries, what was left behind is a whole
\* copy of the listed size, or an alteration a size cannot show, or was not
\* compared because the server gave no size (ftps.go:60-101).
THEOREM LeftAccounted == UploadSpec => []PassedIsListed
<1>1. UploadInv => PassedIsListed
  BY DEF UploadInv, FtpsInv, AtHand, Passed, LeftBehind, PassedIsListed,
     Ftps!PassedIsListed
<1> QED
  BY <1>1, UploadInvariant, PTL

\* Inside the command too, the SFTP upload keeps its permits and its limit,
\* and mismatches come from incidents only.
THEOREM UploadKeepsSftp ==
  UploadSpec => [](PermitsConserved /\ ParallelLimit /\ PermitLeft /\ MismatchesHaveCauses)
<1>1. UploadInv => PermitsConserved /\ ParallelLimit /\ PermitLeft /\ MismatchesHaveCauses
  BY ConservedIs, LimitHolds, PermitIsLeft, CausesSuffice DEF UploadInv, SftpInv
<1> QED
  BY <1>1, UploadInvariant, PTL
=============================================================================
