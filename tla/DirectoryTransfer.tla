--------------------------- MODULE DirectoryTransfer ---------------------------
(***************************************************************************)
(* The transfer of a directory in internal/transfer/p2p.go: a goroutine of *)
(* sendDirectory walks the tree and writes a tar.gz into a pipe, sendChunks *)
(* reads the pipe, hashes and sends; the receiver (receiveOneFile, its     *)
(* branch for archives) stores, verifies, acks, and unpacks entry by entry *)
(* (extractTarGz).  Directories are never resumed; the user may run both   *)
(* commands again.                                                         *)
(*                                                                         *)
(* A file is its size: nothing here tells two contents of one size apart.  *)
(* The archive is a sequence of headers and bytes; a chunk carries one.    *)
(* Compression only groups them.  The trailer is left out: the reader ends *)
(* at the end of the stream without it.                                    *)
(* Operators named <definition>_<what> are plausible faults of <definition>. *)
(***************************************************************************)
EXTENDS Integers, FiniteSets, Sequences, SequencesExt

CONSTANTS
  Entries,    \* 1 .. n in the order of filepath.Walk; 1 is the directory sent
  Kinds,      \* what the entries may be: functions to "dir", "file", "link", "fifo"
  Parents,    \* for each of Kinds, the directory an entry is in
  Sizes,      \* sizes a file, or the file a link points to, may have
  Places,     \* how the directory may be named, and where it may be received
  Window,     \* messages the connection buffers per direction
  MaxFaults,  \* bound on crashes, lost links and failed system calls
  MaxEdits    \* bound on changes of the tree

ASSUME EntriesAssumption ==
  IsFiniteSet(Entries) /\ Entries # {} /\ Entries = 1 .. Cardinality(Entries)
ASSUME KindsAssumption == Kinds \subseteq [Entries -> {"dir", "file", "link", "fifo"}]
ASSUME ParentsAssumption ==
  /\ Parents \in [Kinds -> [Entries -> Entries]]
  /\ \A k \in Kinds : \A e \in Entries : Parents[k][e] <= e /\ k[Parents[k][e]] = "dir"
ASSUME RootAssumption == \A k \in Kinds : k[1] = "dir"
ASSUME PlacesAssumption ==
  Places \subseteq [root : STRING, readOnly : SUBSET Entries, top : BOOLEAN,
                   taken : SUBSET Entries]
ASSUME SizesAssumption == Sizes \subseteq Nat
ASSUME BoundsAssumption == Window \in Nat /\ MaxFaults \in Nat /\ MaxEdits \in Nat

VARIABLES
  kind, root, readOnly,  \* the tree, fixed: what its entries are, the base name of the
                         \* directory, the files that are read-only
  top, taken,            \* the destination, fixed: whether it is "/", and where it has
                         \* something of another kind
  size,                  \* of the files, or Gone; what a FIFO's writer writes
  aPc, aAt, aList, aPos, aNeed, archiveErr,  \* the archiving goroutine
  pipe, pipeEnd,         \* what was written and not yet read; how it was closed
  sPc, hand, sHash,      \* the sender: the chunk just read, the stream hashed
  rPc, rTmp, xAt, xNeed, \* the receiver: its temp file, where unpacking is
  out,                   \* size of each file in the destination, or Gone
  up, toR, toS,          \* the session
  faults, edits

tree == <<kind, root, readOnly, top, taken, size>>
archiver == <<aPc, aAt, aList, aPos, aNeed, archiveErr>>
sender == <<sPc, hand, sHash>>
receiver == <<rPc, rTmp, xAt, xNeed, out>>
net == <<up, toR, toS>>
bounds == <<faults, edits>>
vars == <<tree, archiver, pipe, pipeEnd, sender, receiver, net, bounds>>

Gone == -1
Header(e, n) == [entry |-> e, size |-> n]
Byte(e) == [entry |-> e]
Items == [entry : Entries, size : Nat] \cup [entry : Entries]

Start == [type |-> "file_start"]
Chunk(i, item) == [type |-> "file_chunk", index |-> i, chunk |-> item]
Complete == [type |-> "file_complete"]
Checksum(data) == [type |-> "file_checksum", checksum |-> data]

MessageTypes ==
  {Start, Complete}
    \cup [type : {"file_chunk"}, index : Nat, chunk : Seq(Items)]
    \cup [type : {"file_checksum"}, checksum : Seq(Items)]

Finished == {"idle", "ok", "failed"}

\* How the directory is named and where it is received.
Place == [root |-> root, readOnly |-> readOnly, top |-> top, taken |-> taken]

TypeOK ==
  /\ kind \in Kinds /\ Place \in Places
  /\ size \in [Entries -> Sizes \cup {Gone}]
  /\ aPc \in {"off", "visit", "open", "copy", "close", "done"}
  /\ aAt \in Nat \ {0} /\ aList \subseteq Entries /\ aPos \in Nat /\ aNeed \in Nat
  /\ archiveErr \in BOOLEAN
  /\ pipe \in Seq(Items) /\ Len(pipe) <= 1 /\ pipeEnd \in {"open", "eof", "error"}
  /\ sPc \in Finished \cup {"start", "stream", "send", "complete", "checksum", "verdict"}
  /\ hand \in Seq(Items) /\ sHash \in Seq(Items)
  /\ rPc \in Finished \cup {"wait", "recv", "sum", "send_sum", "unpack"}
  /\ rTmp \in Seq(Items) /\ xAt \in Nat /\ xNeed \in Nat
  /\ out \in [Entries -> Nat \cup {Gone}]
  /\ up \in BOOLEAN /\ toR \in Seq(MessageTypes) /\ toS \in Seq(MessageTypes)
  /\ Len(toR) <= Window /\ Len(toS) <= Window
  /\ faults \in 0 .. MaxFaults /\ edits \in 0 .. MaxEdits

Init ==
  /\ kind \in Kinds
  /\ \E p \in Places :
       root = p.root /\ readOnly = p.readOnly /\ top = p.top /\ taken = p.taken
  /\ size \in [Entries -> Sizes]
  /\ \A e \in Entries : kind[e] = "dir" => size[e] = CHOOSE n \in Sizes : TRUE
  /\ aPc = "off" /\ aAt = 1 /\ aList = {} /\ aPos = 0 /\ aNeed = 0 /\ archiveErr = FALSE
  /\ pipe = <<>> /\ pipeEnd = "open"
  /\ sPc = "idle" /\ hand = <<>> /\ sHash = <<>>
  /\ rPc = "idle" /\ rTmp = <<>> /\ xAt = 1 /\ xNeed = 0
  /\ out = [e \in Entries |-> Gone]
  /\ up = FALSE /\ toR = <<>> /\ toS = <<>>
  /\ faults = 0 /\ edits = 0

Fault == faults < MaxFaults /\ faults' = faults + 1 /\ UNCHANGED edits

\* The connection, as in P2PTransfer.
CanSend(q) == up => Len(q) < Window
Sent(q, m) == IF up THEN Append(q, m) ELSE q

\* The user runs both commands, and they meet in a new session.
Connect ==
  /\ sPc \in Finished /\ rPc \in Finished
  /\ sPc' = "start" /\ hand' = <<>> /\ sHash' = <<>>
  /\ rPc' = "wait" /\ rTmp' = <<>> /\ xAt' = 1 /\ xNeed' = 0
  /\ aAt' = 1 /\ aList' = {} /\ aPos' = 0 /\ aNeed' = 0 /\ archiveErr' = FALSE
  /\ pipe' = <<>> /\ pipeEnd' = "open"
  /\ up' = TRUE /\ toR' = <<>> /\ toS' = <<>>
  /\ UNCHANGED <<tree, aPc, out, bounds>>

-----------------------------------------------------------------------------
(* The archiving goroutine.                                                *)

ArchiverOnly == UNCHANGED <<tree, sender, receiver, net>>

ArchiveFails ==
  /\ archiveErr' = TRUE /\ aPc' = "close"
  /\ UNCHANGED <<aAt, aList, aPos, aNeed, pipe>>

IsHeader(item) == "size" \in DOMAIN item

\* Lstat describes a link itself, Open follows it: a link is archived with no
\* size, and it may dangle.  A link to a directory fails like one to a file that
\* is not empty, and one to a FIFO is a "fifo" too.
Present(e) == kind[e] \in {"link", "fifo"} \/ size[e] # Gone
LstatSize(e) == IF kind[e] = "file" THEN size[e] ELSE 0

\* Offers an item to the pipe, which holds it until the sender reads it.
Write(item) == pipe = <<>> /\ pipe' = <<item>>

\* filepath.Walk reads the names in a directory when it comes to it, before the
\* directory is archived.  A file that is gone does not come back.
List ==
  {e \in IF aAt = 1 THEN Entries ELSE aList : Parents[kind][e] = aAt => Present(e)}

WriteHeader ==
  /\ Write(Header(aAt, LstatSize(aAt)))
  /\ aNeed' = LstatSize(aAt) /\ aPos' = 0 /\ aList' = List
  /\ IF kind[aAt] = "dir" THEN aPc' = "visit" /\ aAt' = aAt + 1
                          ELSE aPc' = "open" /\ UNCHANGED aAt
  /\ UNCHANGED archiveErr

CanVisit == aPc = "visit" /\ aAt \in {1} \cup aList

Visit_NoFlush ==
  /\ CanVisit /\ Present(aAt) /\ WriteHeader
  /\ UNCHANGED <<pipeEnd, bounds>> /\ ArchiverOnly

\* Lstat and WriteHeader; the latter fails if the file before was cut short.
Visit ==
  /\ CanVisit
  /\ IF Present(aAt) /\ aNeed = 0 THEN WriteHeader ELSE ArchiveFails
  /\ UNCHANGED <<pipeEnd, bounds>> /\ ArchiverOnly

\* A name that was not there when the directory was read, or no more names.
VisitNext ==
  /\ aPc = "visit" /\ aAt \notin {1} \cup aList
  /\ IF aAt \in Entries THEN aAt' = aAt + 1 /\ UNCHANGED aPc
                        ELSE aPc' = "close" /\ UNCHANGED aAt
  /\ UNCHANGED <<aList, aPos, aNeed, archiveErr, pipe, pipeEnd, bounds>> /\ ArchiverOnly

Opened ==
  /\ IF size[aAt] = Gone
     THEN ArchiveFails
     ELSE aPc' = "copy" /\ UNCHANGED <<aAt, aList, aPos, aNeed, archiveErr, pipe>>
  /\ UNCHANGED <<pipeEnd, bounds>> /\ ArchiverOnly

Open == aPc = "open" /\ kind[aAt] # "fifo" /\ Opened

\* os.Open of a FIFO waits for another process to write to it, and close it.
OpenFifo == aPc = "open" /\ kind[aAt] = "fifo" /\ Opened

CopyIn_NoLimit ==
  /\ aPc = "copy" /\ aPos < size[aAt]
  /\ Write(Byte(aAt)) /\ aPos' = aPos + 1 /\ aNeed' = aNeed - 1
  /\ UNCHANGED <<aPc, aAt, aList, archiveErr, pipeEnd, bounds>> /\ ArchiverOnly

\* io.Copy into the archive: one byte more than the header says is an error.
CopyIn ==
  /\ aPc = "copy" /\ aPos < size[aAt]
  /\ IF aNeed = 0
     THEN ArchiveFails
     ELSE /\ Write(Byte(aAt)) /\ aPos' = aPos + 1 /\ aNeed' = aNeed - 1
          /\ UNCHANGED <<aPc, aAt, aList, archiveErr>>
  /\ UNCHANGED <<pipeEnd, bounds>> /\ ArchiverOnly

\* The file ends, perhaps before the archive has what its header promised.
CopyInEnd ==
  /\ aPc = "copy" /\ aPos >= size[aAt]
  /\ aPc' = "visit" /\ aAt' = aAt + 1
  /\ UNCHANGED <<aList, aPos, aNeed, archiveErr, pipe, pipeEnd, bounds>> /\ ArchiverOnly

ArchiveFault ==
  /\ aPc \in {"visit", "open", "copy"} /\ Fault
  /\ ArchiveFails
  /\ UNCHANGED pipeEnd /\ ArchiverOnly

CloseArchive_NoEOF ==
  /\ aPc = "close" /\ pipe = <<>>
  /\ pipeEnd' = (IF archiveErr THEN "error" ELSE pipeEnd) /\ aPc' = "done"
  /\ UNCHANGED <<aAt, aList, aPos, aNeed, archiveErr, pipe, bounds>> /\ ArchiverOnly

\* The writers are closed, what they return (a file cut short) is dropped, and
\* the pipe ends with the error of the walk.
CloseArchive ==
  /\ aPc = "close" /\ pipe = <<>>
  /\ pipeEnd' = (IF archiveErr THEN "error" ELSE "eof") /\ aPc' = "done"
  /\ UNCHANGED <<aAt, aList, aPos, aNeed, archiveErr, pipe, bounds>> /\ ArchiverOnly

ArchiverStep == Visit \/ VisitNext \/ Open \/ CopyIn \/ CopyInEnd \/ CloseArchive

-----------------------------------------------------------------------------
(* The sender: sendDirectory and sendChunks.                               *)

SenderOnly == UNCHANGED <<tree, receiver, bounds>>
ArchiverUnchanged == UNCHANGED <<archiver, pipe, pipeEnd>>

\* The sender returns, the process ends, and its archiving goroutine with it.
SenderEnds(result) ==
  /\ sPc' = result /\ aPc' = "off" /\ pipe' = <<>>
  /\ up' = FALSE /\ toR' \in Prefixes(toR) /\ toS' = <<>>
  /\ UNCHANGED <<aAt, aList, aPos, aNeed, archiveErr, pipeEnd, hand, sHash>>

SendStart ==
  /\ sPc = "start" /\ CanSend(toR)
  /\ toR' = Sent(toR, Start) /\ sPc' = "stream" /\ aPc' = "visit"
  /\ UNCHANGED <<aAt, aList, aPos, aNeed, archiveErr, pipe, pipeEnd, hand, sHash, up, toS>>
  /\ SenderOnly

ReadPipe ==
  /\ sPc = "stream" /\ pipe # <<>>
  /\ hand' = pipe /\ sHash' = sHash \o pipe /\ pipe' = <<>> /\ sPc' = "send"
  /\ UNCHANGED <<archiver, pipeEnd, net>> /\ SenderOnly

SendChunk ==
  /\ sPc = "send" /\ CanSend(toR)
  /\ toR' = Sent(toR, Chunk(Len(sHash) - 1, hand)) /\ hand' = <<>> /\ sPc' = "stream"
  /\ UNCHANGED <<sHash, up, toS>> /\ ArchiverUnchanged /\ SenderOnly

ReadEnd ==
  /\ sPc = "stream" /\ pipeEnd # "open"
  /\ IF pipeEnd = "eof" /\ ~archiveErr
     THEN sPc' = "complete" /\ UNCHANGED <<hand, sHash, net>> /\ ArchiverUnchanged
     ELSE SenderEnds("failed")
  /\ SenderOnly

SendComplete ==
  /\ sPc = "complete" /\ CanSend(toR)
  /\ toR' = Sent(toR, Complete) /\ sPc' = "checksum"
  /\ UNCHANGED <<hand, sHash, up, toS>> /\ ArchiverUnchanged /\ SenderOnly

SendChecksum ==
  /\ sPc = "checksum" /\ CanSend(toR)
  /\ toR' = Sent(toR, Checksum(sHash)) /\ sPc' = "verdict"
  /\ UNCHANGED <<hand, sHash, up, toS>> /\ ArchiverUnchanged /\ SenderOnly

SenderVerdict ==
  /\ sPc = "verdict" /\ toS # <<>>
  /\ SenderEnds(IF Head(toS) = Checksum(sHash) THEN "ok" ELSE "failed") /\ SenderOnly

SenderLinkError ==
  /\ ~up
  /\ \/ sPc \in {"start", "send", "complete", "checksum"}
     \/ sPc = "verdict" /\ toS = <<>>
  /\ SenderEnds("failed") /\ SenderOnly

SenderFault ==
  /\ sPc \notin Finished /\ Fault
  /\ SenderEnds("failed") /\ UNCHANGED <<tree, receiver>>

SenderStep ==
  SendStart \/ ReadPipe \/ SendChunk \/ ReadEnd \/ SendComplete \/ SendChecksum
    \/ SenderVerdict \/ SenderLinkError

-----------------------------------------------------------------------------
(* The receiver: receiveFiles, receiveOneFile and extractTarGz.            *)

ReceiverOnly == UNCHANGED <<tree, archiver, pipe, pipeEnd, sender, bounds>>

ReceiverEnds(result) ==
  /\ rPc' = result
  /\ up' = FALSE /\ toR' = <<>> /\ toS' \in Prefixes(toS)

\* Takes the next message; anything but the one awaited ends the receiver.
Receive(pc, expected, next) ==
  /\ rPc = pc /\ toR # <<>>
  /\ IF expected THEN rPc' = next /\ toR' = Tail(toR) /\ UNCHANGED <<up, toS>>
                 ELSE ReceiverEnds("failed")

ReceiveStart ==
  /\ Receive("wait", Head(toR).type = "file_start", "recv")
  /\ UNCHANGED <<rTmp, xAt, xNeed, out>> /\ ReceiverOnly

ReceiveEOF ==
  /\ rPc = "wait" /\ toR = <<>> /\ ~up
  /\ ReceiverEnds("ok")
  /\ UNCHANGED <<rTmp, xAt, xNeed, out>> /\ ReceiverOnly

ReceiveChunk ==
  /\ rPc = "recv" /\ toR # <<>> /\ Head(toR).type = "file_chunk"
  /\ IF Head(toR).index = Len(rTmp)
     THEN /\ rTmp' = rTmp \o Head(toR).chunk /\ toR' = Tail(toR)
          /\ UNCHANGED <<rPc, up, toS>>
     ELSE ReceiverEnds("failed") /\ UNCHANGED rTmp
  /\ UNCHANGED <<xAt, xNeed, out>> /\ ReceiverOnly

ReceiveComplete ==
  /\ rPc = "recv" /\ toR # <<>> /\ Head(toR).type # "file_chunk"
  /\ Receive("recv", Head(toR).type = "file_complete", "sum")
  /\ UNCHANGED <<rTmp, xAt, xNeed, out>> /\ ReceiverOnly

ReceiveChecksum ==
  /\ Receive("sum", Head(toR) = Checksum(rTmp), "send_sum")
  /\ UNCHANGED <<rTmp, xAt, xNeed, out>> /\ ReceiverOnly

\* The sender is told before anything is unpacked.
SendSum ==
  /\ rPc = "send_sum" /\ CanSend(toS)
  /\ toS' = Sent(toS, Checksum(rTmp)) /\ rPc' = "unpack"
  /\ UNCHANGED <<rTmp, xAt, xNeed, out, up, toR>> /\ ReceiverOnly

Rejected_RelativeNames(e) == top \/ root \in {"..", "/"} \/ e = 1

\* Entries are named <root>/<path>.  A name that begins with ".." (as "..data"
\* does) or with "/" is unsafe; "." joined to the destination is the destination
\* itself, which does not lie below it; and below "/" nothing lies, as no path
\* begins with "//".
Rejected(e) == top \/ root \in {"..", "/"} \/ (root = "." /\ e = 1)

\* A directory or a file cannot be made where there is something else, nor a
\* read-only file be opened a second time.
Unwritable(e) ==
  \/ kind[e] \in {"dir", "file"} /\ e \in taken
  \/ kind[e] = "file" /\ e \in readOnly /\ out[e] # Gone

OpenOut_Append(e, n) == out' = [out EXCEPT ![e] = IF @ = Gone THEN 0 ELSE @] /\ xNeed' = n

OpenOut(e, n) == out' = [out EXCEPT ![e] = 0] /\ xNeed' = n

\* The next header.  Only directories and plain files are made.
UnpackHeader ==
  /\ rPc = "unpack" /\ xNeed = 0 /\ xAt <= Len(rTmp)
  /\ LET e == rTmp[xAt].entry IN
       IF Rejected(e) \/ Unwritable(e)
       THEN ReceiverEnds("failed") /\ UNCHANGED <<xAt, xNeed, out>>
       ELSE /\ xAt' = xAt + 1
            /\ IF kind[e] = "file" THEN OpenOut(e, rTmp[xAt].size)
                                   ELSE UNCHANGED <<xNeed, out>>
            /\ UNCHANGED <<rPc, net>>
  /\ UNCHANGED rTmp /\ ReceiverOnly

\* The contents of a file; an archive that ends here is an error.
UnpackByte ==
  /\ rPc = "unpack" /\ xNeed > 0
  /\ IF xAt <= Len(rTmp)
     THEN /\ out' = [out EXCEPT ![rTmp[xAt].entry] = @ + 1]
          /\ xAt' = xAt + 1 /\ xNeed' = xNeed - 1
          /\ UNCHANGED <<rPc, net>>
     ELSE ReceiverEnds("failed") /\ UNCHANGED <<xAt, xNeed, out>>
  /\ UNCHANGED rTmp /\ ReceiverOnly

UnpackEnd ==
  /\ rPc = "unpack" /\ xNeed = 0 /\ xAt > Len(rTmp)
  /\ rPc' = "wait"
  /\ UNCHANGED <<rTmp, xAt, xNeed, out, net>> /\ ReceiverOnly

ReceiverLinkError_Unpacks ==
  /\ ~up /\ rPc = "recv" /\ toR = <<>>
  /\ rPc' = "unpack"
  /\ UNCHANGED <<rTmp, xAt, xNeed, out, net>> /\ ReceiverOnly

ReceiverLinkError ==
  /\ ~up
  /\ \/ rPc \in {"recv", "sum"} /\ toR = <<>>
     \/ rPc = "send_sum"
  /\ ReceiverEnds("failed")
  /\ UNCHANGED <<rTmp, xAt, xNeed, out>> /\ ReceiverOnly

\* A system call fails or the receiver is killed; what is unpacked stays.
ReceiverFault ==
  /\ rPc \notin Finished /\ Fault
  /\ ReceiverEnds("failed")
  /\ UNCHANGED <<rTmp, xAt, xNeed, out, tree, archiver, pipe, pipeEnd, sender>>

ReceiverStep ==
  ReceiveStart \/ ReceiveEOF \/ ReceiveChunk \/ ReceiveComplete \/ ReceiveChecksum
    \/ SendSum \/ UnpackHeader \/ UnpackByte \/ UnpackEnd \/ ReceiverLinkError

-----------------------------------------------------------------------------
(* The environment.                                                        *)

LinkLoss ==
  /\ up /\ up' = FALSE /\ Fault
  /\ toR' \in Prefixes(toR) /\ toS' \in Prefixes(toS)
  /\ UNCHANGED <<tree, archiver, pipe, pipeEnd, sender, receiver>>

\* A file, or the target of a link, changes its size or is removed for good.
Edit(e, n) ==
  /\ edits < MaxEdits /\ edits' = edits + 1
  /\ kind[e] \in {"file", "link"} /\ size[e] \notin {Gone, n}
  /\ n = Gone => ~(aPc = "copy" /\ aAt = e)
  /\ size' = [size EXCEPT ![e] = n]
  /\ UNCHANGED <<kind, root, readOnly, top, taken, archiver, pipe, pipeEnd, sender, receiver, net, faults>>

Next ==
  \/ ArchiverStep \/ ArchiveFault \/ OpenFifo
  \/ SenderStep \/ SenderFault
  \/ ReceiverStep \/ ReceiverFault
  \/ LinkLoss
  \/ Connect
  \/ \E e \in Entries, n \in Sizes \cup {Gone} : Edit(e, n)

Spec == Init /\ [][Next]_vars

\* The goroutine and both processes run while they can; a FIFO need not find a
\* writer.
FairSpec ==
  /\ Spec
  /\ WF_vars(ArchiverStep) /\ WF_vars(SenderStep) /\ WF_vars(ReceiverStep)

-----------------------------------------------------------------------------
(* What must hold.                                                         *)

Headers(s) == {i \in 1 .. Len(s) : IsHeader(s[i])}
Holds(s, e) == \E i \in Headers(s) : s[i].entry = e

\* Each header is followed by the bytes it promises; only the end of the
\* archive may cut them off.
WellFormed(s) ==
  \A i \in Headers(s), j \in 1 .. Len(s) :
    /\ j > i /\ j <= i + s[i].size => s[j] = Byte(s[i].entry)
    /\ j = i + s[i].size + 1 => IsHeader(s[j])

Cut(s) == \E i \in Headers(s) : i + s[i].size > Len(s)

\* The sender announces an archive only when its goroutine has ended the walk
\* without an error: the error it reads unsynchronised (p2p.go:339) is final,
\* nothing is left in the pipe, everything that was listed is in the archive,
\* and files that change meanwhile can cut it short only at its end.
AnnouncedIsWhole ==
  sPc \in {"complete", "checksum", "verdict", "ok"} =>
    /\ ~archiveErr /\ pipe = <<>> /\ pipeEnd = "eof"
    /\ \A e \in {1} \cup aList : Holds(sHash, e)
    /\ WellFormed(sHash)

\* Nothing is unpacked but an archive the sender has finished: one that an
\* error of the walk, a crash or a lost link cut short never reaches
\* the destination (p2p.go:563-590).
NothingPartial ==
  [][out' # out => rTmp = sHash /\ \A e \in {1} \cup aList : Holds(sHash, e)]_vars

\* The sender reports success before the receiver unpacks (p2p.go:571, 589).
\* After that the receiver fails only for one of these reasons: a fault, a name
\* or a destination for which it rejects every archive, a last file that shrank
\* while it was archived, or an entry whose place is taken, be it by what an
\* earlier transfer has left (p2p.go:640-655).
FailsForAReason ==
  sPc = "ok" /\ rPc = "failed" =>
    \/ faults > 0
    \/ root # "plain" \/ top
    \/ Cut(sHash)
    \/ xAt <= Len(rTmp) /\ Unwritable(rTmp[xAt].entry)

\* "Directory transfers are streamed as a .tar.gz archive and extracted on
\* receipt" (README.md:162): after a success of the sender, with no fault, no
\* edit and nothing in the way, the receiver does not fail.
ExtractedOnReceipt ==
  sPc = "ok" /\ faults = 0 /\ edits = 0 /\ readOnly = {} /\ taken = {} => rPc # "failed"

\* When both ends report success, every plain file of the archive has its
\* archived size in the destination, whatever an earlier transfer left there;
\* without edits that is every plain file of the tree (p2p.go:651-665).
DeliveredIsArchive ==
  sPc = "ok" /\ rPc = "ok" =>
    /\ \A i \in Headers(sHash) :
         kind[sHash[i].entry] = "file" => out[sHash[i].entry] = sHash[i].size
    /\ edits = 0 => \A e \in Entries : kind[e] = "file" => out[e] = size[e]

\* The goroutine waits for a writer of a FIFO, and the sender for the goroutine.
AtFifo == aPc = "open" /\ kind[aAt] = "fifo"

\* No transfer hangs, except at a FIFO: not on the pipe between the goroutine and
\* the sender, nor on the connection (p2p.go:309-334, 367).
SessionEnds ==
  (sPc \notin Finished \/ rPc \notin Finished)
    ~> (AtFifo \/ (sPc \in Finished /\ rPc \in Finished))
===============================================================================
