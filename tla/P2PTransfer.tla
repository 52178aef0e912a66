----------------------------- MODULE P2PTransfer -----------------------------
(***************************************************************************)
(* The single-file peer-to-peer transfer of internal/transfer/p2p.go: a    *)
(* sender (sendSingleFile) and a receiver (receiveFiles, receiveOneFile)   *)
(* that exchange protocol messages over one session, with the optional     *)
(* resume handshake, the temp file, the persisted resume record and the    *)
(* destination file.  A session ends when either process returns; the user *)
(* may then run both commands again, with or without --resume.             *)
(*                                                                         *)
(* Operators named <definition>_<what> are plausible faults of <definition>;  *)
(* no specification uses them.                                             *)
(*                                                                         *)
(* What survives a process: the source file, the destination, the temp     *)
(* files and the resume records.  Everything else is process memory.       *)
(***************************************************************************)
EXTENDS Integers, Sequences, SequencesExt

CONSTANTS
  Byte,           \* what a file is made of
  Zero,           \* the byte a Truncate past the end fills a file with
  FileChunkSize,  \* bytes of a full chunk (32 KiB in the code)
  Contents,       \* the contents the source file may have over time
  Archives,       \* those of them that unpack as a tar.gz
  ArchiveNames,   \* may the source file be named *.tar.gz, may it not
  Temps,          \* names os.CreateTemp can return
  NoTemp,         \* "no temp file"
  RandomID,       \* stands for any file id drawn by randomFileID
  NoFile,         \* "no file was announced in this session"
  Window,         \* messages the connection buffers per direction
  MaxFaults,      \* bound on crashes, lost links and failed system calls
  MaxEdits        \* bound on edits of the source file

ASSUME ByteAssumption == Zero \in Byte
ASSUME ChunkAssumption == FileChunkSize \in Nat \ {0}
ASSUME ContentsAssumption == Contents \subseteq Seq(Byte) /\ Archives \subseteq Contents
ASSUME IdAssumption == RandomID \notin Nat /\ NoFile \notin Nat \cup {RandomID}
ASSUME BoundAssumption ==
  ArchiveNames \subseteq BOOLEAN /\ Window \in Nat \ {0} /\ MaxFaults \in Nat /\ MaxEdits \in Nat

VARIABLES
  source,     \* contents of the source file
  dest,       \* the destination: its status and, when whole, its contents
  stateFile,  \* per file id, the .goxfer-<id>.state record in destDir
  temps,      \* names of the temp files on disk
  temp,       \* contents of every temp file
  sPc, sResume, sSize, sSum, sPos, sIdx,                  \* sender process
  rPc, rResume, rId, rAck, rKeep, rTmp, rNext, rHash,     \* receiver process
  up, toR, toS,  \* the connection and the messages in flight on it
  isArchive,  \* the source file is named *.tar.gz
  faults, edits

disk == <<stateFile, temps, temp>>
sender == <<sPc, sResume, sSize, sSum, sPos, sIdx>>
receiver == <<rPc, rResume, rId, rAck, rKeep, rTmp, rNext, rHash>>
net == <<up, toR, toS>>
environment == <<isArchive, faults, edits>>
vars == <<source, dest, disk, sender, receiver, net, environment>>

-----------------------------------------------------------------------------
(* Data.  SHA-256 is injective here: a digest is its input, wrapped.       *)

Digest(data) == [sha256 |-> data]
Digests == [sha256 : Seq(Byte)]

Resize_Forgotten(data, n) == data

\* os.File.Truncate: cut the file at n bytes, or extend it with zeros.
Resize(data, n) == [i \in 1 .. n |-> IF i <= Len(data) THEN data[i] ELSE Zero]

\* rehashFile: the hash state over the first n bytes.
Rehash(data, n) == SubSeq(data, 1, n)

\* What one Read into a chunk-sized buffer returns at offset pos.
ChunkAt(data, pos) ==
  SubSeq(data, pos + 1, IF pos + FileChunkSize < Len(data) THEN pos + FileChunkSize
                                                           ELSE Len(data))

\* The path is the same in every retry, so a deterministic id is the size.
FileIDs == {Len(c) : c \in Contents} \cup {RandomID}

\* os.CreateTemp never runs out of names no record mentions.
ASSUME TempAssumption ==
  /\ NoTemp \notin Temps
  /\ \A named \in [FileIDs \ {RandomID} -> Temps \cup {NoTemp}] :
       \E t \in Temps : \A id \in FileIDs \ {RandomID} : named[id] # t

Absent == [st |-> "absent", next |-> 0, temp |-> NoTemp]
Torn == [st |-> "torn", next |-> 0, temp |-> NoTemp]
Saved_LastIndex(n, t) == [st |-> "saved", next |-> n - 1, temp |-> t]
Saved_OneAhead(n, t) == [st |-> "saved", next |-> n + 1, temp |-> t]
Saved(n, t) == [st |-> "saved", next |-> n, temp |-> t]

NoDest == [st |-> "none", data |-> <<>>]
TornDest == [st |-> "torn", data |-> <<>>]

Start(id, res) == [type |-> "file_start", id |-> id, resume |-> res]
Chunk(id, i, data) == [type |-> "file_chunk", id |-> id, index |-> i, chunk |-> data]
Complete(id) == [type |-> "file_complete", id |-> id]
Checksum(id, sum) == [type |-> "file_checksum", id |-> id, checksum |-> sum]
FileResume(id, off) == [type |-> "file_resume", id |-> id, offset |-> off]
Ready == [type |-> "ready"]

ToReceiver ==
  [type : {"file_start"}, id : FileIDs, resume : BOOLEAN]
    \cup [type : {"file_chunk"}, id : FileIDs, index : Nat, chunk : Seq(Byte)]
    \cup [type : {"file_complete"}, id : FileIDs]
    \cup [type : {"file_checksum"}, id : FileIDs, checksum : Digests]
ToSender ==
  [type : {"file_resume"}, id : FileIDs, offset : Nat] \cup [type : {"ready"}]
    \cup [type : {"file_checksum"}, id : FileIDs, checksum : Digests]

SenderPcs == {"idle", "stat", "start", "ack", "chunks", "complete", "checksum",
              "verdict", "ok", "failed"}
ReceiverPcs == {"idle", "wait_start", "create", "save", "saving", "ack", "recv",
                "sum", "send_sum", "delete", "store", "write", "cleanup",
                "failing", "ok", "failed"}
Finished == {"idle", "ok", "failed"}

TypeOK ==
  /\ source \in Contents
  /\ dest \in [st : {"none", "whole", "tree", "torn"}, data : Seq(Byte)]
  /\ stateFile \in [FileIDs -> [st : {"absent", "torn", "saved"}, next : Nat,
                                temp : Temps \cup {NoTemp}]]
  /\ temps \subseteq Temps
  /\ temp \in [Temps -> Seq(Byte)]
  /\ sPc \in SenderPcs /\ sResume \in BOOLEAN
  /\ sSize \in {Len(c) : c \in Contents} /\ sSum \in Digests
  /\ sPos \in Nat /\ sIdx \in Nat
  /\ rPc \in ReceiverPcs /\ rResume \in BOOLEAN
  /\ rId \in FileIDs \cup {NoFile} /\ rAck \in BOOLEAN /\ rKeep \in BOOLEAN
  /\ rTmp \in Temps \cup {NoTemp} /\ rNext \in Nat /\ rHash \in Seq(Byte)
  /\ up \in BOOLEAN /\ toR \in Seq(ToReceiver) /\ toS \in Seq(ToSender)
  /\ isArchive \in BOOLEAN /\ faults \in 0 .. MaxFaults /\ edits \in 0 .. MaxEdits

Init ==
  /\ source \in Contents
  /\ dest = NoDest
  /\ stateFile = [id \in FileIDs |-> Absent]
  /\ temps = {} /\ temp = [t \in Temps |-> <<>>]
  /\ sPc = "idle" /\ sResume = FALSE /\ sSize = Len(source) /\ sSum = Digest(<<>>)
  /\ sPos = 0 /\ sIdx = 0
  /\ rPc = "idle" /\ rResume = FALSE /\ rId = NoFile /\ rAck = FALSE /\ rKeep = FALSE
  /\ rTmp = NoTemp /\ rNext = 0 /\ rHash = <<>>
  /\ up = FALSE /\ toR = <<>> /\ toS = <<>>
  /\ isArchive \in ArchiveNames /\ faults = 0 /\ edits = 0

-----------------------------------------------------------------------------
(* The connection.  A message sent on a dead connection may be accepted by *)
(* the local socket and vanish.  When an end closes, what it sent may still *)
(* arrive, or be cut short by a reset.                                     *)

CanSend(q) == up => Len(q) < Window
Sent(q, m) == IF up THEN Append(q, m) ELSE q

SenderHangsUp == up' = FALSE /\ toR' \in Prefixes(toR) /\ toS' = <<>>
ReceiverHangsUp == up' = FALSE /\ toR' = <<>> /\ toS' \in Prefixes(toS)

Fault == faults < MaxFaults /\ faults' = faults + 1 /\ UNCHANGED <<isArchive, edits>>

SenderBegins(sr) ==
  /\ sPc \in Finished
  /\ sPc' = "stat" /\ sResume' = sr /\ sPos' = 0 /\ sIdx' = 0
  /\ UNCHANGED <<sSize, sSum>>

ReceiverBegins(rr) ==
  /\ rPc \in Finished
  /\ rPc' = "wait_start" /\ rResume' = rr /\ rId' = NoFile /\ rAck' = FALSE
  /\ rKeep' = FALSE /\ rTmp' = NoTemp /\ rNext' = 0 /\ rHash' = <<>>

\* The user runs both commands, with or without --resume on each side, and
\* they meet in a new session.
Connect(sr, rr) ==
  /\ SenderBegins(sr) /\ ReceiverBegins(rr)
  /\ up' = TRUE /\ toR' = <<>> /\ toS' = <<>>
  /\ UNCHANGED <<source, dest, disk, environment>>

-----------------------------------------------------------------------------
(* The sender: P2PSend after the session is up, sendSingleFile, sendChunks *)

SenderUnchanged == UNCHANGED <<source, dest, disk, receiver, environment>>

SenderStat ==
  /\ sPc = "stat"
  /\ sPc' = "start" /\ sSize' = Len(source)
  /\ UNCHANGED <<sResume, sSum, sPos, sIdx, net>> /\ SenderUnchanged

SenderId == IF sResume THEN sSize ELSE RandomID

\* The whole file is hashed, then announced.
SenderStart ==
  /\ sPc = "start" /\ CanSend(toR)
  /\ sSum' = Digest(source)
  /\ toR' = Sent(toR, Start(SenderId, sResume))
  /\ sPc' = IF sResume THEN "ack" ELSE "chunks"
  /\ UNCHANGED <<sResume, sSize, sPos, sIdx, up, toS>> /\ SenderUnchanged

\* Anything but file_resume means "start from zero".
StartOffset(m) == IF m.type = "file_resume" THEN m.offset ELSE 0

StartIndex_Zero(off) == 0
StartIndex(off) == off \div FileChunkSize

StartPos_NoSeek(off) == 0
StartPos(off) == off

SenderAck ==
  /\ sPc = "ack" /\ toS # <<>>
  /\ sPos' = StartPos(StartOffset(Head(toS)))
  /\ sIdx' = StartIndex(StartOffset(Head(toS)))
  /\ sPc' = "chunks" /\ toS' = Tail(toS)
  /\ UNCHANGED <<sResume, sSize, sSum, up, toR>> /\ SenderUnchanged

SenderChunk ==
  /\ sPc = "chunks" /\ sPos < Len(source) /\ CanSend(toR)
  /\ LET data == ChunkAt(source, sPos) IN
       /\ toR' = Sent(toR, Chunk(SenderId, sIdx, data))
       /\ sPos' = sPos + Len(data)
  /\ sIdx' = sIdx + 1
  /\ UNCHANGED <<sPc, sResume, sSize, sSum, up, toS>> /\ SenderUnchanged

SenderEOF ==
  /\ sPc = "chunks" /\ sPos >= Len(source)
  /\ sPc' = "complete"
  /\ UNCHANGED <<sResume, sSize, sSum, sPos, sIdx, net>> /\ SenderUnchanged

SenderComplete ==
  /\ sPc = "complete" /\ CanSend(toR)
  /\ toR' = Sent(toR, Complete(SenderId)) /\ sPc' = "checksum"
  /\ UNCHANGED <<sResume, sSize, sSum, sPos, sIdx, up, toS>> /\ SenderUnchanged

SenderChecksum ==
  /\ sPc = "checksum" /\ CanSend(toR)
  /\ toR' = Sent(toR, Checksum(SenderId, sSum)) /\ sPc' = "verdict"
  /\ UNCHANGED <<sResume, sSize, sSum, sPos, sIdx, up, toS>> /\ SenderUnchanged

Verdict(m) ==
  IF m.type = "file_checksum" THEN IF m.checksum = sSum THEN "ok" ELSE "failed"
                              ELSE "failed"

SenderVerdict ==
  /\ sPc = "verdict" /\ toS # <<>>
  /\ sPc' = Verdict(Head(toS)) /\ SenderHangsUp
  /\ UNCHANGED <<sResume, sSize, sSum, sPos, sIdx>> /\ SenderUnchanged

SenderLinkError_Ignored ==
  /\ ~up /\ sPc \in {"ack", "verdict"} /\ toS = <<>>
  /\ sPc' = (IF sPc = "verdict" THEN "ok" ELSE "failed") /\ SenderHangsUp
  /\ UNCHANGED <<sResume, sSize, sSum, sPos, sIdx>> /\ SenderUnchanged

\* A send or a receive on a dead connection returns an error.
SenderLinkError ==
  /\ ~up
  /\ \/ sPc \in {"start", "chunks", "complete", "checksum"}
     \/ sPc \in {"ack", "verdict"} /\ toS = <<>>
  /\ sPc' = "failed" /\ SenderHangsUp
  /\ UNCHANGED <<sResume, sSize, sSum, sPos, sIdx>> /\ SenderUnchanged

\* The sender is killed, or a stat, open, seek or read of the source fails.
SenderFault ==
  /\ sPc \notin Finished /\ Fault
  /\ sPc' = "failed" /\ SenderHangsUp
  /\ UNCHANGED <<sResume, sSize, sSum, sPos, sIdx, source, dest, disk, receiver>>

SenderStep ==
  SenderStat \/ SenderStart \/ SenderAck \/ SenderChunk \/ SenderEOF
    \/ SenderComplete \/ SenderChecksum \/ SenderVerdict \/ SenderLinkError

-----------------------------------------------------------------------------
(* The receiver: receiveFiles, receiveOneFile and their deferred cleanup.  *)

ReceiverUnchanged == UNCHANGED <<source, sender, environment>>

Resumable(m) == rResume /\ m.resume /\ ~isArchive

\* loadResumeState finds a record that parses, and its temp file opens.
CanReopen(id) == stateFile[id].st = "saved" /\ stateFile[id].temp \in temps

ResumeOffset(id) == stateFile[id].next * FileChunkSize

\* The temp files once the recorded one has been truncated.
Truncated(id) ==
  LET t == stateFile[id].temp IN [temp EXCEPT ![t] = Resize(@, ResumeOffset(id))]

\* Open the recorded temp file, truncate it to the recorded offset and hash
\* what is left.
ReceiveStartResume ==
  /\ rPc = "wait_start" /\ toR # <<>>
  /\ LET m == Head(toR) IN
       /\ m.type = "file_start" /\ Resumable(m) /\ CanReopen(m.id)
       /\ temp' = Truncated(m.id)
       /\ rTmp' = stateFile[m.id].temp /\ rNext' = stateFile[m.id].next
       /\ rHash' = Rehash(temp'[rTmp'], ResumeOffset(m.id))
       /\ rId' = m.id /\ rAck' = m.resume /\ rKeep' = TRUE
  /\ rPc' = "ack" /\ toR' = Tail(toR)
  /\ UNCHANGED <<dest, stateFile, temps, rResume, up, toS>> /\ ReceiverUnchanged

\* No usable record; or, with a fault, reopening the temp file failed, before
\* or after it was truncated.
ReceiveStartFresh ==
  /\ rPc = "wait_start" /\ toR # <<>>
  /\ LET m == Head(toR) IN
       IF m.type = "file_start"
       THEN /\ IF Resumable(m) /\ CanReopen(m.id)
               THEN Fault /\ temp' \in {temp, Truncated(m.id)}
               ELSE UNCHANGED <<environment, temp>>
            /\ rPc' = "create" /\ rId' = m.id /\ rAck' = m.resume /\ rKeep' = Resumable(m)
       ELSE rPc' = "failing" /\ UNCHANGED <<rId, rAck, rKeep, environment, temp>>
  /\ toR' = Tail(toR)
  /\ UNCHANGED <<source, dest, stateFile, temps, sender, rResume, rTmp, rNext, rHash, up, toS>>

ReceiveEOF_Continue ==
  rPc = "wait_start" /\ toR = <<>> /\ ~up /\ UNCHANGED vars

ReceiveEOF_Fails ==
  /\ rPc = "wait_start" /\ toR = <<>> /\ ~up
  /\ rPc' = "failed" /\ ReceiverHangsUp
  /\ UNCHANGED <<dest, disk, rResume, rId, rAck, rKeep, rTmp, rNext, rHash>>
  /\ ReceiverUnchanged

\* receiveFiles takes any receive error as the end of the transfers.
ReceiveEOF ==
  /\ rPc = "wait_start" /\ toR = <<>> /\ ~up
  /\ rPc' = "ok" /\ ReceiverHangsUp
  /\ UNCHANGED <<dest, disk, rResume, rId, rAck, rKeep, rTmp, rNext, rHash>>
  /\ ReceiverUnchanged

RemoveTemp(t) ==
  temps' = temps \ {t} /\ temp' = [x \in Temps |-> IF x = t THEN <<>> ELSE temp[x]]

\* Names a resume record mentions are not drawn again; an orphan's may be,
\* since nothing ever reads an orphan.
FreshTemps == {t \in Temps : \A id \in FileIDs : stateFile[id].temp # t}

CreateTemp ==
  /\ rPc = "create"
  /\ \E t \in FreshTemps :
       /\ rTmp' = t /\ temps' = temps \cup {t} /\ temp' = [temp EXCEPT ![t] = <<>>]
  /\ rNext' = 0 /\ rHash' = <<>>
  /\ rPc' = IF rKeep THEN "save" ELSE "ack"
  /\ UNCHANGED <<dest, stateFile, rResume, rId, rAck, rKeep, net>> /\ ReceiverUnchanged

\* saveResumeState is os.WriteFile: truncate, then write.
SaveTruncate ==
  /\ rPc = "save"
  /\ rPc' = "saving" /\ stateFile' = [stateFile EXCEPT ![rId] = Torn]
  /\ UNCHANGED <<dest, temps, temp, rResume, rId, rAck, rKeep, rTmp, rNext, rHash, net>>
  /\ ReceiverUnchanged

AfterSave == IF rNext = 0 THEN "ack" ELSE "recv"

SaveWrite ==
  /\ rPc = "saving"
  /\ rPc' = AfterSave /\ stateFile' = [stateFile EXCEPT ![rId] = Saved(rNext, rTmp)]
  /\ UNCHANGED <<dest, temps, temp, rResume, rId, rAck, rKeep, rTmp, rNext, rHash, net>>
  /\ ReceiverUnchanged

\* The errors of os.WriteFile and os.Remove on the record are ignored.
StateFault ==
  /\ rPc \in {"save", "saving", "delete"} /\ Fault
  /\ rPc' = IF rPc = "delete" THEN "store" ELSE AfterSave
  /\ UNCHANGED <<source, dest, disk, sender, rResume, rId, rAck, rKeep, rTmp, rNext,
                 rHash, net>>

AckResume ==
  /\ rPc = "ack" /\ (rAck => CanSend(toS))
  /\ toS' = IF rAck
            THEN Sent(toS, IF rNext > 0 THEN FileResume(rId, rNext * FileChunkSize)
                                        ELSE Ready)
            ELSE toS
  /\ rPc' = "recv"
  /\ UNCHANGED <<dest, disk, rResume, rId, rAck, rKeep, rTmp, rNext, rHash, up, toR>>
  /\ ReceiverUnchanged

Expected(m) == m.id = rId /\ m.index = rNext

ReceiveChunk ==
  /\ rPc = "recv" /\ toR # <<>>
  /\ LET m == Head(toR) IN
       /\ m.type = "file_chunk"
       /\ IF Expected(m)
          THEN /\ temp' = [temp EXCEPT ![rTmp] = @ \o m.chunk]
               /\ rHash' = rHash \o m.chunk
               /\ rNext' = rNext + 1
               /\ rPc' = IF rKeep THEN "save" ELSE "recv"
          ELSE rPc' = "failing" /\ UNCHANGED <<temp, rHash, rNext>>
  /\ toR' = Tail(toR)
  /\ UNCHANGED <<dest, stateFile, temps, rResume, rId, rAck, rKeep, rTmp, up, toS>>
  /\ ReceiverUnchanged

\* file_complete closes the temp file; any other type is an error.
ReceiveComplete ==
  /\ rPc = "recv" /\ toR # <<>>
  /\ LET m == Head(toR) IN
       /\ m.type # "file_chunk"
       /\ rPc' = IF m.type = "file_complete"
                 THEN IF m.id = rId THEN "sum" ELSE "failing"
                 ELSE "failing"
  /\ toR' = Tail(toR)
  /\ UNCHANGED <<dest, disk, rResume, rId, rAck, rKeep, rTmp, rNext, rHash, up, toS>>
  /\ ReceiverUnchanged

Matches_AnyChecksum(m) == m.type = "file_checksum"
Matches(m) == IF m.type = "file_checksum" THEN m.checksum = Digest(rHash) ELSE FALSE

ReceiveChecksum ==
  /\ rPc = "sum" /\ toR # <<>>
  /\ rPc' = IF Matches(Head(toR)) THEN "send_sum" ELSE "failing"
  /\ toR' = Tail(toR)
  /\ UNCHANGED <<dest, disk, rResume, rId, rAck, rKeep, rTmp, rNext, rHash, up, toS>>
  /\ ReceiverUnchanged

SendSum ==
  /\ rPc = "send_sum" /\ CanSend(toS)
  /\ toS' = Sent(toS, Checksum(rId, Digest(rHash))) /\ rPc' = "delete"
  /\ UNCHANGED <<dest, disk, rResume, rId, rAck, rKeep, rTmp, rNext, rHash, up, toR>>
  /\ ReceiverUnchanged

DeleteState ==
  /\ rPc = "delete"
  /\ stateFile' = IF rKeep THEN [stateFile EXCEPT ![rId] = Absent] ELSE stateFile
  /\ rPc' = "store"
  /\ UNCHANGED <<dest, temps, temp, rResume, rId, rAck, rKeep, rTmp, rNext, rHash, net>>
  /\ ReceiverUnchanged

\* The temp file becomes the destination in one rename.
Rename ==
  /\ rPc = "store" /\ ~isArchive
  /\ dest' = [st |-> "whole", data |-> temp[rTmp]]
  /\ RemoveTemp(rTmp) /\ rPc' = "cleanup"
  /\ UNCHANGED <<stateFile, rResume, rId, rAck, rKeep, rTmp, rNext, rHash, net>>
  /\ ReceiverUnchanged

\* Rename failed (another file system): copyFile truncates the destination
\* first.  An archive is unpacked into it entry by entry, if it is one at all.
OpenDest ==
  /\ rPc = "store"
  /\ dest' \in IF isArchive THEN {dest, TornDest} ELSE {TornDest}
  /\ rPc' = "write"
  /\ UNCHANGED <<disk, rResume, rId, rAck, rKeep, rTmp, rNext, rHash, net>>
  /\ ReceiverUnchanged

WriteDest ==
  /\ rPc = "write"
  /\ IF isArchive /\ temp[rTmp] \notin Archives
     THEN rPc' = "failing" /\ UNCHANGED dest
     ELSE /\ dest' = [st |-> IF isArchive THEN "tree" ELSE "whole", data |-> temp[rTmp]]
          /\ rPc' = "cleanup"
  /\ UNCHANGED <<disk, rResume, rId, rAck, rKeep, rTmp, rNext, rHash, net>>
  /\ ReceiverUnchanged

\* Deferred os.Remove(tmpPath), then receiveFiles waits for the next file.
Cleanup ==
  /\ rPc = "cleanup"
  /\ RemoveTemp(rTmp) /\ rTmp' = NoTemp /\ rPc' = "wait_start"
  /\ UNCHANGED <<dest, stateFile, rResume, rId, rAck, rKeep, rNext, rHash, net>>
  /\ ReceiverUnchanged

ReceiverLinkError ==
  /\ ~up
  /\ \/ rPc \in {"recv", "sum"} /\ toR = <<>>
     \/ rPc = "ack" /\ rAck
     \/ rPc = "send_sum"
  /\ rPc' = "failing"
  /\ UNCHANGED <<dest, disk, rResume, rId, rAck, rKeep, rTmp, rNext, rHash, net>>
  /\ ReceiverUnchanged

\* A system call of the receiver returns an error.
ReceiverFault ==
  /\ rPc \in {"create", "recv", "store", "write"} /\ Fault
  /\ rPc' = "failing"
  /\ UNCHANGED <<source, dest, disk, sender, rResume, rId, rAck, rKeep, rTmp, rNext,
                 rHash, net>>

Unwind_KeepsTemp ==
  /\ rPc = "failing" /\ rPc' = "failed" /\ rTmp' = NoTemp /\ ReceiverHangsUp
  /\ UNCHANGED <<dest, disk, rResume, rId, rAck, rKeep, rNext, rHash>>
  /\ ReceiverUnchanged

Unwind_Silent ==
  /\ rPc = "failing"
  /\ RemoveTemp(rTmp) /\ rTmp' = NoTemp /\ rPc' = "ok" /\ ReceiverHangsUp
  /\ UNCHANGED <<dest, stateFile, rResume, rId, rAck, rKeep, rNext, rHash>>
  /\ ReceiverUnchanged

\* Every error return runs the same deferred os.Remove, then sess.Close.
Unwind ==
  /\ rPc = "failing"
  /\ RemoveTemp(rTmp) /\ rTmp' = NoTemp /\ rPc' = "failed" /\ ReceiverHangsUp
  /\ UNCHANGED <<dest, stateFile, rResume, rId, rAck, rKeep, rNext, rHash>>
  /\ ReceiverUnchanged

\* The receiver is killed: no deferred call runs.  A chunk it was writing may be
\* on disk in part; what was written before is there, since the system lives on.
ReceiverCrash ==
  /\ rPc \notin Finished /\ Fault
  /\ rPc' = "failed" /\ rTmp' = NoTemp /\ ReceiverHangsUp
  /\ \/ UNCHANGED temp
     \/ /\ rPc = "recv" /\ toR # <<>> /\ Head(toR).type = "file_chunk"
        /\ Expected(Head(toR))
        /\ \E part \in Prefixes(Head(toR).chunk) :
             temp' = [temp EXCEPT ![rTmp] = @ \o part]
  /\ UNCHANGED <<source, dest, stateFile, temps, sender, rResume, rId, rAck, rKeep,
                 rNext, rHash>>

ReceiverStep ==
  ReceiveStartResume \/ ReceiveStartFresh \/ ReceiveEOF \/ CreateTemp \/ SaveTruncate
    \/ SaveWrite \/ AckResume \/ ReceiveChunk \/ ReceiveComplete \/ ReceiveChecksum
    \/ SendSum \/ DeleteState \/ Rename \/ OpenDest \/ WriteDest \/ Cleanup
    \/ ReceiverLinkError \/ Unwind

-----------------------------------------------------------------------------
(* The environment.                                                        *)

LinkLoss ==
  /\ up /\ up' = FALSE /\ Fault
  /\ toR' \in Prefixes(toR) /\ toS' \in Prefixes(toS)
  /\ UNCHANGED <<source, dest, disk, sender, receiver>>

EditSource(c) ==
  /\ c # source /\ edits < MaxEdits
  /\ source' = c /\ edits' = edits + 1
  /\ UNCHANGED <<dest, disk, sender, receiver, net, isArchive, faults>>

\* A cleaner of the temp directory removes a file nobody has open.
ReapTemp(t) ==
  /\ t \in temps /\ t # rTmp /\ Fault
  /\ RemoveTemp(t)
  /\ UNCHANGED <<source, dest, stateFile, sender, receiver, net>>

Next ==
  \/ SenderStep \/ SenderFault
  \/ ReceiverStep \/ StateFault \/ ReceiverFault \/ ReceiverCrash
  \/ LinkLoss
  \/ \E sr, rr \in BOOLEAN : Connect(sr, rr)
  \/ \E c \in Contents : EditSource(c)
  \/ \E t \in Temps : ReapTemp(t)

Spec == Init /\ [][Next]_vars

\* Both processes run while they can, and the user keeps retrying.
FairSpec ==
  /\ Spec
  /\ WF_vars(SenderStep) /\ WF_vars(ReceiverStep)
  /\ WF_vars(\E sr, rr \in BOOLEAN : Connect(sr, rr))

-----------------------------------------------------------------------------
(* What must hold.                                                         *)

\* The hash the receiver will compare covers exactly the bytes in its temp
\* file, also after a resume that truncated the file and rehashed it
\* (p2p.go:439-460 against 540-544).
HashTracksTemp == rTmp # NoTemp /\ rPc # "cleanup" => rHash = temp[rTmp]

\* A resume record never counts a chunk that is not in the temp file it
\* names: the chunk is written before the record (p2p.go:540, 550).  While
\* the source is not edited only the last chunk can be short.
StateNeverAhead ==
  \A id \in FileIDs :
    LET s == stateFile[id] IN
      s.st = "saved" /\ s.temp \in temps =>
        /\ s.next <= Len(temp[s.temp])
        /\ edits = 0 /\ s.next > 0 => (s.next - 1) * FileChunkSize < Len(temp[s.temp])

\* The two ends agree, through the resume handshake, on the chunk that comes
\* next: the receiver never meets a chunk of another file or out of order
\* (p2p.go:532-539), whichever side asked for --resume.
NoProtocolError ==
  rPc = "recv" /\ toR # <<>> =>
    \/ Head(toR).type = "file_chunk" /\ Expected(Head(toR))
    \/ Head(toR).type = "file_complete" /\ Head(toR).id = rId

\* A complete destination is written only with the data the sender announced
\* the checksum of in this session, whatever was resumed, lost or edited
\* (p2p.go:567-599).
SavedIsVerified ==
  [][dest' # dest /\ dest'.st \in {"whole", "tree"} => Digest(dest'.data) = sSum]_vars

\* The sender reports success only if the receiver hashed the very data the
\* sender announced (p2p.go:265, 567-576).
SenderOkImpliesVerified == sPc = "ok" => Digest(rHash) = sSum

\* Resuming a file that was not edited never ends in a checksum mismatch: the
\* prefix that was kept and the suffix that is sent fit together (p2p.go:439-460
\* against 231-241).
CleanResume ==
  edits = 0 /\ rPc = "sum" /\ toR # <<>> => Matches(Head(toR))

\* The same, unless the file ends in a short chunk and the temp file was
\* extended beyond that end.
CleanUnlessPadded ==
  Len(source) % FileChunkSize = 0 \/ Len(rHash) <= Len(source) => CleanResume

\* A receiver that ends without an error has stored what it announced last
\* (p2p.go:405, 567-603): every error return of receiveOneFile reaches the
\* command, and only the wait for the next file may end in silence.
ReceiverOkIsComplete ==
  rPc = "ok" /\ rId # NoFile =>
    /\ Digest(rHash) = sSum
    /\ dest = [st |-> IF isArchive THEN "tree" ELSE "whole", data |-> rHash]

\* The sender is told of success before the file is stored (p2p.go:572, 584-602).
\* Unless something fails, or what was sent as an archive is none, the receiver
\* stores it and ends without an error.
AckedIsStored ==
  sPc = "ok" /\ rPc \in Finished =>
    \/ faults > 0
    \/ isArchive /\ rHash \notin Archives
    \/ rPc = "ok" /\ dest = [st |-> IF isArchive THEN "tree" ELSE "whole", data |-> rHash]

\* A receiver that fails leaves the partial download its resume record names,
\* to be continued on reconnect (p2p.go:688-689).
PartialSurvivesFailure ==
  [][rPc = "failing" /\ rPc' = "failed" =>
       \A id \in FileIDs : stateFile[id].st = "saved" /\ stateFile[id].temp \in temps
                            => stateFile[id].temp \in temps']_vars

\* No session hangs: whatever the flags, neither end waits for the other for
\* ever (the ack the sender waits for at p2p.go:214 is sent at 490-508).
SessionEnds == (sPc = "stat" /\ rPc = "wait_start") ~> (sPc \in Finished /\ rPc \in Finished)

Delivered ==
  sPc = "ok" /\ rPc = "ok" /\ dest.st \in {"whole", "tree"} /\ Digest(dest.data) = sSum

\* Once failures and edits stop, a user who keeps retrying gets the file, or what
\* its archive unpacks to: no leftover record or temp file makes every later retry
\* fail.
RetriesConverge == []<>Delivered

-----------------------------------------------------------------------------
(* P2PTransfer implements VerifiedTransfer: the receiver has verified rHash *)
(* from the moment its comparison succeeds, and as long as an ack of it is *)
(* under way or has been taken.                                            *)

HasVerified ==
  \/ rPc \in {"send_sum", "delete", "store", "write", "cleanup"}
  \/ sPc = "ok"
  \/ \E i \in 1 .. Len(toS) : toS[i].type = "file_checksum"

Abstract == INSTANCE VerifiedTransfer WITH
  announced <- IF sPc \in {"idle", "stat", "start"} THEN {} ELSE {sSum},
  verified <- IF HasVerified THEN {rHash} ELSE {},
  confirmed <- (sPc = "ok")

\* Every behaviour of the code is one the abstract transfer allows.
ImplementsVerifiedTransfer == Abstract!Spec
=============================================================================
