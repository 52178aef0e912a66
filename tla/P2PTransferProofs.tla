-------------------------- MODULE P2PTransferProofs --------------------------
(***************************************************************************)
(* Proofs about P2PTransfer for all contents, chunk sizes, windows and     *)
(* bounds: its types, and that only verified data is ever saved or         *)
(* reported.                                                               *)
(***************************************************************************)
EXTENDS P2PTransfer, SequenceTheorems, TLAPS

USE ByteAssumption, ChunkAssumption, ContentsAssumption

-----------------------------------------------------------------------------
(* Data and messages.                                                      *)

\* A prefix of a queue has its type, is no longer, and agrees with it.
LEMMA PrefixFacts ==
  ASSUME NEW S, NEW q \in Seq(S), NEW p \in Prefixes(q)
  PROVE  p \in Seq(S) /\ Len(p) <= Len(q) /\ \A i \in 1 .. Len(p) : p[i] = q[i]
<1>1. PICK n \in 0 .. Len(q) : p = SubSeq(q, 1, n)
  BY DEF Prefixes
<1>2. p \in Seq(S) /\ Len(p) = n /\ \A i \in 1 .. n : p[i] = q[i]
  BY <1>1, SubSeqProperties
<1> QED
  BY <1>2, LenProperties

\* The head of a non-empty queue is an element of it, the tail is shorter and
\* keeps the others in order.
LEMMA HeadTailFacts ==
  ASSUME NEW S, NEW q \in Seq(S), q # <<>>
  PROVE  /\ Head(q) \in S /\ Head(q) = q[1] /\ Tail(q) \in Seq(S)
         /\ Len(q) >= 1 /\ Len(Tail(q)) = Len(q) - 1
         /\ \A i \in 1 .. Len(Tail(q)) : Tail(q)[i] = q[i + 1]
  BY HeadTailProperties, EmptySeq, LenProperties

\* Offsets and indices are natural numbers.
LEMMA OffsetFacts ==
  ASSUME NEW n \in Nat
  PROVE  n * FileChunkSize \in Nat /\ n \div FileChunkSize \in Nat
  OBVIOUS

\* Truncating, hashing and reading files gives bytes.
LEMMA DataTypes ==
  ASSUME NEW d \in Seq(Byte), NEW n \in Nat
  PROVE  /\ Resize(d, n) \in Seq(Byte) /\ Len(Resize(d, n)) = n
         /\ Rehash(Resize(d, n), n) = Resize(d, n)
<1>1. Resize(d, n) \in Seq(Byte) /\ Len(Resize(d, n)) = n
  <2>1. \A i \in 1 .. n : (IF i <= Len(d) THEN d[i] ELSE Zero) \in Byte
    BY ElementOfSeq, LenProperties
  <2> QED
    BY <2>1 DEF Resize
<1>2. SubSeq(Resize(d, n), 1, n) = Resize(d, n)
  <2> DEFINE r == Resize(d, n)
             p == SubSeq(r, 1, n)
  <2> HIDE DEF r
  <2>1. p \in Seq(Byte) /\ Len(p) = n /\ \A i \in 1 .. n : p[i] = r[i]
    BY <1>1, SubSeqProperties DEF r
  <2> QED
    BY <1>1, <2>1, SeqEqual DEF r
<1> QED
  BY <1>1, <1>2 DEF Rehash

\* What one Read returns is a string of bytes.
LEMMA ChunkType ==
  ASSUME NEW d \in Seq(Byte), NEW pos \in Nat, pos < Len(d)
  PROVE  ChunkAt(d, pos) \in Seq(Byte)
<1> DEFINE e == IF pos + FileChunkSize < Len(d) THEN pos + FileChunkSize ELSE Len(d)
<1>1. e \in Nat /\ e <= Len(d) /\ pos + 1 \in 1 .. Len(d) + 1
  BY LenProperties
<1> HIDE DEF e
<1>2. SubSeq(d, pos + 1, e) \in Seq(Byte)
  BY <1>1, SubSeqProperties
<1> QED
  BY <1>2 DEF ChunkAt, e

\* The messages either end builds are protocol messages.
LEMMA SentMessages ==
  ASSUME NEW id \in FileIDs, NEW n \in Nat, NEW d \in Seq(Byte), NEW b \in BOOLEAN
  PROVE  /\ Start(id, b) \in ToReceiver /\ Chunk(id, n, d) \in ToReceiver
         /\ Complete(id) \in ToReceiver /\ Checksum(id, Digest(d)) \in ToReceiver
         /\ FileResume(id, n) \in ToSender /\ Ready \in ToSender
         /\ Checksum(id, Digest(d)) \in ToSender
  BY DEF ToReceiver, ToSender, Start, Chunk, Complete, Checksum, FileResume, Ready,
         Digests, Digest

\* What a protocol message of each type carries.
LEMMA ReceivedMessages ==
  /\ \A m \in ToReceiver :
       /\ m.type \in {"file_start", "file_chunk", "file_complete", "file_checksum"}
       /\ m.id \in FileIDs
       /\ m.type = "file_start" => m.resume \in BOOLEAN
       /\ m.type = "file_chunk" => m.index \in Nat /\ m.chunk \in Seq(Byte)
       /\ m.type = "file_checksum" => m.checksum \in Digests
  /\ \A m \in ToSender :
       /\ m.type \in {"file_resume", "ready", "file_checksum"}
       /\ m.type = "file_resume" => m.offset \in Nat
       /\ m.type = "file_checksum" => m.checksum \in Digests
  BY DEF ToReceiver, ToSender

-----------------------------------------------------------------------------
(* Types.                                                                  *)

\* The receiver has a file id once it accepted a file, and a temp file once it
\* opened one, not before.
Typed ==
  /\ TypeOK
  /\ rPc \notin {"idle", "wait_start", "failing", "ok", "failed"} => rId \in FileIDs
  /\ rPc \notin {"idle", "wait_start", "create", "cleanup", "failing", "ok", "failed"}
       => rTmp \in Temps
  /\ rPc \in {"idle", "wait_start", "create"} => rTmp = NoTemp

\* The initial states are typed.
LEMMA TypedInit == Init => Typed
<1> SUFFICES ASSUME Init PROVE Typed
  OBVIOUS
<1>1. \A c \in Contents : c \in Seq(Byte) /\ Len(c) \in FileIDs
  BY DEF FileIDs
<1>2. Digest(<<>>) \in Digests
  BY DEF Digest, Digests
<1>3. stateFile \in [FileIDs -> [st : {"absent", "torn", "saved"}, next : Nat,
                                temp : Temps \cup {NoTemp}]]
  BY DEF Init, Absent
<1>4. source \in Contents /\ dest \in [st : {"none", "whole", "tree", "torn"}, data : Seq(Byte)]
  BY DEF Init, NoDest
<1>5. temps \subseteq Temps /\ temp \in [Temps -> Seq(Byte)]
  BY DEF Init
<1>6. /\ sPc \in SenderPcs /\ sResume \in BOOLEAN
      /\ sSize \in {Len(c) : c \in Contents} /\ sSum \in Digests
      /\ sPos \in Nat /\ sIdx \in Nat
  BY <1>1, <1>2 DEF Init, SenderPcs
<1>7. /\ rPc \in ReceiverPcs /\ rResume \in BOOLEAN
      /\ rId \in FileIDs \cup {NoFile} /\ rAck \in BOOLEAN /\ rKeep \in BOOLEAN
      /\ rTmp \in Temps \cup {NoTemp} /\ rNext \in Nat /\ rHash \in Seq(Byte)
  BY EmptySeq DEF Init, ReceiverPcs
<1>8. up \in BOOLEAN /\ toR \in Seq(ToReceiver) /\ toS \in Seq(ToSender)
  BY EmptySeq DEF Init
<1>9. isArchive \in BOOLEAN /\ faults \in 0 .. MaxFaults /\ edits \in 0 .. MaxEdits
  BY BoundAssumption DEF Init
<1>10. rPc = "idle" /\ rTmp = NoTemp
  BY DEF Init
<1> QED
  BY <1>3, <1>4, <1>5, <1>6, <1>7, <1>8, <1>9, <1>10 DEF Typed, TypeOK

\* Sending and hanging up keep the queues queues of messages.
LEMMA TypedNet ==
  ASSUME TypeOK
  PROVE  /\ \A m \in ToReceiver : Sent(toR, m) \in Seq(ToReceiver)
         /\ \A m \in ToSender : Sent(toS, m) \in Seq(ToSender)
         /\ \A p \in Prefixes(toR) : p \in Seq(ToReceiver)
         /\ \A p \in Prefixes(toS) : p \in Seq(ToSender)
         /\ SenderHangsUp \/ ReceiverHangsUp =>
              up' \in BOOLEAN /\ toR' \in Seq(ToReceiver) /\ toS' \in Seq(ToSender)
<1>1. toR \in Seq(ToReceiver) /\ toS \in Seq(ToSender)
  BY DEF TypeOK
<1>2. /\ \A p \in Prefixes(toR) : p \in Seq(ToReceiver)
      /\ \A p \in Prefixes(toS) : p \in Seq(ToSender)
  BY <1>1, PrefixFacts
<1>3. /\ \A m \in ToReceiver : Sent(toR, m) \in Seq(ToReceiver)
      /\ \A m \in ToSender : Sent(toS, m) \in Seq(ToSender)
  BY <1>1 DEF Sent
<1>4. CASE SenderHangsUp
  BY <1>2, <1>3, <1>4, EmptySeq DEF SenderHangsUp
<1>5. CASE ReceiverHangsUp
  BY <1>2, <1>3, <1>5, EmptySeq DEF ReceiverHangsUp
<1> QED
  BY <1>2, <1>3, <1>4, <1>5

\* A step of the sender, or its failure, keeps the types.
LEMMA TypedSender ==
  ASSUME Typed, SenderStep \/ SenderFault
  PROVE  Typed'
<1> USE DEF Typed, TypeOK, SenderPcs, SenderUnchanged, net, disk, receiver, environment
<1>1. SenderId \in FileIDs
  BY DEF SenderId, FileIDs
<1>2. /\ \A m \in ToReceiver : Sent(toR, m) \in Seq(ToReceiver)
      /\ SenderHangsUp => up' \in BOOLEAN /\ toR' \in Seq(ToReceiver) /\ toS' \in Seq(ToSender)
  BY TypedNet
<1>3. source \in Seq(Byte)
  OBVIOUS
<1>4. CASE SenderStat
  BY <1>4 DEF SenderStat
<1>5. CASE SenderStart
  <2>1. Digest(source) \in Digests /\ Start(SenderId, sResume) \in ToReceiver
    BY <1>1, SentMessages DEF Digest, Digests
  <2> QED
    BY <1>2, <1>5, <2>1 DEF SenderStart
<1>6. CASE SenderAck
  <2>1. Head(toS) \in ToSender /\ Tail(toS) \in Seq(ToSender)
    BY <1>6, HeadTailFacts DEF SenderAck
  <2>2. StartOffset(Head(toS)) \in Nat
    BY <2>1, ReceivedMessages DEF StartOffset
  <2>3. sPos' \in Nat /\ sIdx' \in Nat
    BY <1>6, <2>2, OffsetFacts DEF SenderAck, StartPos, StartIndex
  <2>4. sPc' = "chunks" /\ toS' \in Seq(ToSender)
    BY <1>6, <2>1 DEF SenderAck
  <2> QED
    BY <1>6, <2>3, <2>4 DEF SenderAck
<1>7. CASE SenderChunk
  <2>1. ChunkAt(source, sPos) \in Seq(Byte)
    BY <1>3, <1>7, ChunkType DEF SenderChunk
  <2>2. Chunk(SenderId, sIdx, ChunkAt(source, sPos)) \in ToReceiver
    BY <1>1, <2>1, SentMessages
  <2>3. sPos' \in Nat /\ sIdx' \in Nat
    BY <1>7, <2>1, LenProperties DEF SenderChunk
  <2>4. toR' \in Seq(ToReceiver)
    BY <1>2, <1>7, <2>2 DEF SenderChunk
  <2> QED
    BY <1>7, <2>3, <2>4 DEF SenderChunk
<1>8. CASE SenderEOF
  BY <1>8 DEF SenderEOF
<1>9. CASE SenderComplete
  <2>1. Complete(SenderId) \in ToReceiver
    BY <1>1 DEF Complete, ToReceiver
  <2> QED
    BY <1>2, <1>9, <2>1 DEF SenderComplete
<1>10. CASE SenderChecksum
  <2>1. Checksum(SenderId, sSum) \in ToReceiver
    BY <1>1 DEF Checksum, ToReceiver
  <2> QED
    BY <1>2, <1>10, <2>1 DEF SenderChecksum
<1>11. CASE SenderVerdict
  <2>1. sPc' \in {"ok", "failed"} /\ SenderHangsUp
    BY <1>11 DEF SenderVerdict, Verdict
  <2> QED
    BY <1>2, <1>11, <2>1 DEF SenderVerdict
<1>12. CASE SenderLinkError
  <2>1. sPc' = "failed" /\ SenderHangsUp
    BY <1>12 DEF SenderLinkError
  <2> QED
    BY <1>2, <1>12, <2>1 DEF SenderLinkError
<1>13. CASE SenderFault
  <2>1. sPc' = "failed" /\ SenderHangsUp
    BY <1>13 DEF SenderFault
  <2>2. faults' \in 0 .. MaxFaults /\ UNCHANGED <<isArchive, edits>>
    BY <1>13, BoundAssumption DEF SenderFault, Fault
  <2> QED
    BY <1>2, <1>13, <2>1, <2>2 DEF SenderFault
<1> QED
  BY <1>4, <1>5, <1>6, <1>7, <1>8, <1>9, <1>10, <1>11, <1>12, <1>13 DEF SenderStep

\* A step of the receiver, its failed system calls and its crash keep the types.
LEMMA TypedReceiver ==
  ASSUME Typed, ReceiverStep \/ StateFault \/ ReceiverFault \/ ReceiverCrash
  PROVE  Typed'
<1> USE DEF Typed, TypeOK, ReceiverPcs, ReceiverUnchanged, net, disk, sender, environment
<1>1. /\ \A m \in ToSender : Sent(toS, m) \in Seq(ToSender)
      /\ ReceiverHangsUp => up' \in BOOLEAN /\ toR' \in Seq(ToReceiver) /\ toS' \in Seq(ToSender)
  BY TypedNet
<1>2. \A m : toR # <<>> /\ m = Head(toR) => m \in ToReceiver /\ Tail(toR) \in Seq(ToReceiver)
  BY HeadTailFacts
<1>3. ASSUME NEW t, RemoveTemp(t)
      PROVE  temps' \subseteq Temps /\ temp' \in [Temps -> Seq(Byte)]
  BY <1>3, EmptySeq DEF RemoveTemp
<1>4. AfterSave \in {"ack", "recv"}
  BY DEF AfterSave
<1>5. Fault => faults' \in 0 .. MaxFaults /\ UNCHANGED <<isArchive, edits>>
  BY BoundAssumption DEF Fault
<1>6. CASE ReceiveStartResume
  <2> DEFINE m == Head(toR)
             s == stateFile[m.id]
             off == s.next * FileChunkSize
             data == Resize(temp[s.temp], off)
  <2>1. toR # <<>> /\ m.type = "file_start" /\ CanReopen(m.id)
    BY <1>6 DEF ReceiveStartResume
  <2>2. m.id \in FileIDs /\ m.resume \in BOOLEAN
    BY <1>2, <2>1, ReceivedMessages
  <2>3. s.next \in Nat /\ s.temp \in Temps
    BY <2>1, <2>2 DEF CanReopen
  <2>4. off \in Nat
    BY <2>3, OffsetFacts
  <2>5. data \in Seq(Byte) /\ Rehash(data, off) \in Seq(Byte)
    BY <2>3, <2>4, DataTypes
  <2>6. /\ temp' = [temp EXCEPT ![s.temp] = data]
        /\ rId' = m.id /\ rAck' = m.resume /\ rKeep' = TRUE
        /\ rTmp' = s.temp /\ rNext' = s.next /\ rHash' = Rehash(temp'[s.temp], off)
        /\ rPc' = "ack" /\ toR' = Tail(toR)
        /\ UNCHANGED <<dest, stateFile, temps, rResume, up, toS>> /\ ReceiverUnchanged
    BY <1>6 DEF ReceiveStartResume, Truncated, ResumeOffset
  <2> HIDE DEF m, s, off, data
  <2>7. temp' \in [Temps -> Seq(Byte)] /\ temp'[s.temp] = data
    BY <2>3, <2>5, <2>6
  <2>8. toR' \in Seq(ToReceiver)
    BY <1>2, <2>1, <2>6
  <2> QED
    BY <2>2, <2>3, <2>5, <2>6, <2>7, <2>8
<1>7. CASE ReceiveStartFresh
  <2> DEFINE m == Head(toR)
  <2>1. /\ toR' \in Seq(ToReceiver)
        /\ rPc' \in {"create", "failing"} /\ faults' \in 0 .. MaxFaults /\ UNCHANGED <<isArchive, edits>>
    BY <1>2, <1>5, <1>7 DEF ReceiveStartFresh
  <2>2. /\ rId' \in FileIDs \cup {NoFile} /\ rAck' \in BOOLEAN /\ rKeep' \in BOOLEAN
        /\ rPc' = "create" => rId' \in FileIDs
    BY <1>2, <1>7, ReceivedMessages, BoundAssumption DEF ReceiveStartFresh, Resumable
  <2>3. ASSUME m.type = "file_start", Resumable(m), CanReopen(m.id)
        PROVE  Truncated(m.id) \in [Temps -> Seq(Byte)]
    <3>1. m \in ToReceiver /\ m.id \in FileIDs
      BY <1>2, <1>7, <2>3, ReceivedMessages DEF ReceiveStartFresh
    <3>2. stateFile[m.id].next \in Nat /\ stateFile[m.id].temp \in Temps
      BY <2>3, <3>1 DEF CanReopen
    <3>3. Resize(temp[stateFile[m.id].temp], ResumeOffset(m.id)) \in Seq(Byte)
      BY <3>2, OffsetFacts, DataTypes DEF ResumeOffset
    <3> QED
      BY <3>2, <3>3 DEF Truncated
  <2>4. temp' \in [Temps -> Seq(Byte)]
    BY <1>7, <2>3 DEF ReceiveStartFresh
  <2> QED
    BY <1>7, <2>1, <2>2, <2>4 DEF ReceiveStartFresh
<1>8. CASE ReceiveEOF
  <2>1. rPc' = "ok" /\ ReceiverHangsUp
    BY <1>8 DEF ReceiveEOF
  <2> QED
    BY <1>1, <1>8, <2>1 DEF ReceiveEOF
<1>9. CASE CreateTemp
  <2>1. PICK t \in FreshTemps :
          rTmp' = t /\ temps' = temps \cup {t} /\ temp' = [temp EXCEPT ![t] = <<>>]
    BY <1>9 DEF CreateTemp
  <2>2. t \in Temps /\ temp' \in [Temps -> Seq(Byte)]
    BY <2>1, EmptySeq DEF FreshTemps
  <2>3. rHash' \in Seq(Byte)
    BY <1>9, EmptySeq DEF CreateTemp
  <2> QED
    BY <1>9, <2>1, <2>2, <2>3 DEF CreateTemp
<1>10. CASE SaveTruncate
  <2>1. stateFile' \in [FileIDs -> [st : {"absent", "torn", "saved"}, next : Nat,
                                temp : Temps \cup {NoTemp}]]
    BY <1>10 DEF SaveTruncate, Torn
  <2> QED
    BY <1>10, <2>1 DEF SaveTruncate
<1>11. CASE SaveWrite
  <2>1. stateFile' \in [FileIDs -> [st : {"absent", "torn", "saved"}, next : Nat,
                                temp : Temps \cup {NoTemp}]]
    BY <1>11 DEF SaveWrite, Saved
  <2> QED
    BY <1>4, <1>11, <2>1 DEF SaveWrite
<1>12. CASE StateFault
  BY <1>4, <1>5, <1>12 DEF StateFault
<1>13. CASE AckResume
  <2>1. rNext * FileChunkSize \in Nat
    BY OffsetFacts
  <2>2. rId \in FileIDs
    BY <1>13 DEF AckResume
  <2>3. FileResume(rId, rNext * FileChunkSize) \in ToSender /\ Ready \in ToSender
    BY <2>1, <2>2 DEF FileResume, Ready, ToSender
  <2>4. toS' \in Seq(ToSender)
    BY <1>1, <1>13, <2>3 DEF AckResume
  <2> QED
    BY <1>13, <2>4 DEF AckResume
<1>14. CASE ReceiveChunk
  <2> DEFINE m == Head(toR)
  <2>1. toR' \in Seq(ToReceiver) /\ m.chunk \in Seq(Byte)
    BY <1>2, <1>14, ReceivedMessages DEF ReceiveChunk
  <2>2. rTmp \in Temps
    BY <1>14 DEF ReceiveChunk
  <2>3. temp[rTmp] \o m.chunk \in Seq(Byte) /\ rHash \o m.chunk \in Seq(Byte)
    BY <2>1, <2>2
  <2>4. temp' \in [Temps -> Seq(Byte)] /\ rHash' \in Seq(Byte)
    BY <1>14, <2>3 DEF ReceiveChunk
  <2>5. rNext' \in Nat /\ rPc' \in {"save", "recv", "failing"} /\ rPc = "recv"
    BY <1>14 DEF ReceiveChunk
  <2>6. UNCHANGED <<dest, stateFile, temps, rResume, rId, rAck, rKeep, rTmp, up, toS>>
        /\ ReceiverUnchanged
    BY <1>14 DEF ReceiveChunk
  <2> QED
    BY <2>1, <2>2, <2>4, <2>5, <2>6
<1>15. CASE ReceiveComplete
  <2>1. toR' \in Seq(ToReceiver)
    BY <1>2, <1>15 DEF ReceiveComplete
  <2> QED
    BY <1>15, <2>1 DEF ReceiveComplete
<1>16. CASE ReceiveChecksum
  <2>1. toR' \in Seq(ToReceiver)
    BY <1>2, <1>16 DEF ReceiveChecksum
  <2> QED
    BY <1>16, <2>1 DEF ReceiveChecksum
<1>17. CASE SendSum
  <2>1. Checksum(rId, Digest(rHash)) \in ToSender
    BY <1>17 DEF SendSum, Checksum, Digest, Digests, ToSender
  <2> QED
    BY <1>1, <1>17, <2>1 DEF SendSum
<1>18. CASE DeleteState
  <2>1. stateFile' \in [FileIDs -> [st : {"absent", "torn", "saved"}, next : Nat,
                                temp : Temps \cup {NoTemp}]]
    BY <1>18 DEF DeleteState, Absent
  <2> QED
    BY <1>18, <2>1 DEF DeleteState
<1>19. CASE Rename
  <2>1. dest' \in [st : {"none", "whole", "tree", "torn"}, data : Seq(Byte)]
    BY <1>19 DEF Rename
  <2>2. RemoveTemp(rTmp) /\ rPc = "store" /\ rPc' = "cleanup"
    BY <1>19 DEF Rename
  <2>3. temps' \subseteq Temps /\ temp' \in [Temps -> Seq(Byte)]
    BY <1>3, <2>2
  <2>4. UNCHANGED <<stateFile, rResume, rId, rAck, rKeep, rTmp, rNext, rHash, net>>
        /\ ReceiverUnchanged
    BY <1>19 DEF Rename
  <2> QED
    BY <2>1, <2>2, <2>3, <2>4
<1>20. CASE OpenDest
  <2>1. TornDest \in [st : {"none", "whole", "tree", "torn"}, data : Seq(Byte)]
    BY EmptySeq DEF TornDest
  <2>2. dest' = dest \/ dest' = TornDest
    BY <1>20 DEF OpenDest
  <2>3. dest' \in [st : {"none", "whole", "tree", "torn"}, data : Seq(Byte)]
    BY <2>1, <2>2
  <2> QED
    BY <1>20, <2>3 DEF OpenDest
<1>21. CASE WriteDest
  <2>1. dest' \in [st : {"none", "whole", "tree", "torn"}, data : Seq(Byte)]
    BY <1>21 DEF WriteDest
  <2> QED
    BY <1>21, <2>1 DEF WriteDest
<1>22. CASE Cleanup
  BY <1>3, <1>22 DEF Cleanup
<1>23. CASE ReceiverLinkError
  BY <1>23 DEF ReceiverLinkError
<1>24. CASE Unwind
  <2>1. rPc' = "failed" /\ rTmp' = NoTemp /\ RemoveTemp(rTmp) /\ ReceiverHangsUp
    BY <1>24 DEF Unwind
  <2> QED
    BY <1>1, <1>3, <1>24, <2>1 DEF Unwind
<1>25. CASE ReceiverFault
  BY <1>5, <1>25 DEF ReceiverFault
<1>26. CASE ReceiverCrash
  <2>1. rPc' = "failed" /\ rTmp' = NoTemp /\ ReceiverHangsUp /\ Fault
    BY <1>26 DEF ReceiverCrash
  <2>2. temp' \in [Temps -> Seq(Byte)]
    <3>1. CASE UNCHANGED temp
      BY <3>1
    <3>2. CASE /\ rPc = "recv" /\ toR # <<>> /\ Head(toR).type = "file_chunk"
               /\ \E part \in Prefixes(Head(toR).chunk) :
                    temp' = [temp EXCEPT ![rTmp] = @ \o part]
      <4>1. Head(toR).chunk \in Seq(Byte) /\ rTmp \in Temps
        BY <1>2, <3>2, ReceivedMessages
      <4>2. PICK part \in Prefixes(Head(toR).chunk) :
              temp' = [temp EXCEPT ![rTmp] = @ \o part]
        BY <3>2
      <4>3. part \in Seq(Byte)
        BY <4>1, PrefixFacts
      <4>4. temp[rTmp] \o part \in Seq(Byte)
        BY <4>1, <4>3
      <4> QED
        BY <4>1, <4>2, <4>4
    <3> QED
      BY <1>26, <3>1, <3>2 DEF ReceiverCrash
  <2> QED
    BY <1>1, <1>5, <1>26, <2>1, <2>2 DEF ReceiverCrash
<1> QED
  BY <1>6, <1>7, <1>8, <1>9, <1>10, <1>11, <1>12, <1>13, <1>14, <1>15, <1>16, <1>17,
     <1>18, <1>19, <1>20, <1>21, <1>22, <1>23, <1>24, <1>25, <1>26 DEF ReceiverStep

\* So do a lost link, a new session, an edit and a reaped temp file.
LEMMA TypedEnvironment ==
  ASSUME Typed,
         \/ LinkLoss
         \/ \E sr, rr \in BOOLEAN : Connect(sr, rr)
         \/ \E c \in Contents : EditSource(c)
         \/ \E t \in Temps : ReapTemp(t)
  PROVE  Typed'
<1> USE DEF Typed, TypeOK, disk, sender, receiver, net, environment
<1>1. Fault => faults' \in 0 .. MaxFaults /\ UNCHANGED <<isArchive, edits>>
  BY BoundAssumption DEF Fault
<1>2. CASE LinkLoss
  <2>1. /\ up' = FALSE /\ toR' \in Seq(ToReceiver) /\ toS' \in Seq(ToSender)
        /\ Fault
    BY <1>2, TypedNet DEF LinkLoss
  <2>2. UNCHANGED <<source, dest, stateFile, temps, temp>>
    BY <1>2 DEF LinkLoss
  <2>3. UNCHANGED <<sPc, sResume, sSize, sSum, sPos, sIdx>>
    BY <1>2 DEF LinkLoss
  <2>4. UNCHANGED <<rPc, rResume, rId, rAck, rKeep, rTmp, rNext, rHash>>
    BY <1>2 DEF LinkLoss
  <2>5. TypeOK'
    <3>1. /\ source' \in Contents
          /\ dest' \in [st : {"none", "whole", "tree", "torn"}, data : Seq(Byte)]
          /\ stateFile' \in [FileIDs -> [st : {"absent", "torn", "saved"}, next : Nat,
                                         temp : Temps \cup {NoTemp}]]
          /\ temps' \subseteq Temps /\ temp' \in [Temps -> Seq(Byte)]
      BY <2>2
    <3>2. /\ sPc' \in SenderPcs /\ sResume' \in BOOLEAN
          /\ sSize' \in {Len(c) : c \in Contents} /\ sSum' \in Digests
          /\ sPos' \in Nat /\ sIdx' \in Nat
      BY <2>3
    <3>3. /\ rPc' \in ReceiverPcs /\ rResume' \in BOOLEAN
          /\ rId' \in FileIDs \cup {NoFile} /\ rAck' \in BOOLEAN /\ rKeep' \in BOOLEAN
          /\ rTmp' \in Temps \cup {NoTemp} /\ rNext' \in Nat /\ rHash' \in Seq(Byte)
      BY <2>4
    <3>4. isArchive' \in BOOLEAN /\ faults' \in 0 .. MaxFaults /\ edits' \in 0 .. MaxEdits
      BY <1>1, <2>1
    <3> QED
      BY <2>1, <3>1, <3>2, <3>3, <3>4
  <2> QED
    BY <2>4, <2>5 DEF Typed
<1>3. ASSUME NEW sr \in BOOLEAN, NEW rr \in BOOLEAN, Connect(sr, rr)
      PROVE  Typed'
  BY <1>3, EmptySeq DEF Connect, SenderBegins, ReceiverBegins, SenderPcs, ReceiverPcs
<1>4. ASSUME NEW c \in Contents, EditSource(c)
      PROVE  Typed'
  BY <1>4, BoundAssumption DEF EditSource
<1>5. ASSUME NEW t \in Temps, ReapTemp(t)
      PROVE  Typed'
  <2>1. temps' \subseteq Temps /\ temp' \in [Temps -> Seq(Byte)]
    BY <1>5, EmptySeq DEF ReapTemp, RemoveTemp
  <2> QED
    BY <1>1, <1>5, <2>1 DEF ReapTemp
<1> QED
  BY <1>2, <1>3, <1>4, <1>5

\* Typed is inductive.
LEMMA TypedStep == Typed /\ [Next]_vars => Typed'
<1>1. CASE UNCHANGED vars
  BY <1>1 DEF vars, disk, sender, receiver, net, environment, Typed, TypeOK
<1> QED
  BY <1>1, TypedSender, TypedReceiver, TypedEnvironment DEF Next

\* Every reachable state is well typed.  Typed, not TypeOK, is inductive: a
\* record is saved, a chunk appended and a file acknowledged under the file
\* id and in the temp file the receiver took earlier.
THEOREM TypeCorrect == Spec => []TypeOK
<1>1. Typed => TypeOK
  BY DEF Typed
<1> QED
  BY TypedInit, TypedStep, <1>1, PTL DEF Spec

-----------------------------------------------------------------------------
(* Only verified data is saved or reported.                                *)

\* The sender has not sent its checksum yet.
Sending == {"stat", "start", "ack", "chunks", "complete", "checksum"}
\* The receiver has compared the checksums and found them equal.
Verified == {"send_sum", "delete", "store", "write", "cleanup"}

\* The receiver's ack of the checksum is under way, or the sender has it.
Acked == sPc = "ok" \/ \E i \in 1 .. Len(toS) : toS[i].type = "file_checksum"

\* Before the sender announces a checksum nothing is under way.
BeforeStart ==
  sPc \in {"idle", "stat", "start"} =>
    toR = <<>> /\ toS = <<>> /\ rPc \in {"idle", "wait_start", "ok", "failed"}

\* The checksum the sender sends is the announced one, and its last message.
ChecksumIsLast ==
  \A i \in 1 .. Len(toR) :
    toR[i].type = "file_checksum" =>
      toR[i].checksum = sSum /\ i = Len(toR) /\ sPc \notin Sending

\* Once it has verified, or handled a file to the end, the receiver gets no
\* other message in this session.
VerifiedIsLast ==
  rPc \in Verified \/ (rPc = "wait_start" /\ rId # NoFile) =>
    toR = <<>> /\ sPc \notin Sending

\* What it hashed is then what the sender announced.
VerifiedHash == rPc \in Verified => Digest(rHash) = sSum

\* So is what an ack was sent for.
AckedHash ==
  Acked => /\ Digest(rHash) = sSum
           /\ rPc \in (Verified \ {"send_sum"}) \cup {"failing", "failed", "ok", "wait_start"}
           /\ rPc = "wait_start" => rId # NoFile

\* The inductive invariant: what is verified, and what is acked.
VerifiedInv ==
  /\ Typed /\ HashTracksTemp /\ BeforeStart /\ ChecksumIsLast /\ VerifiedIsLast
  /\ VerifiedHash /\ AckedHash

\* What a lost connection or a closed end leaves of the queues.
NetShrinks ==
  /\ Len(toR') <= Len(toR) /\ \A i \in 1 .. Len(toR') : toR'[i] = toR[i]
  /\ Len(toS') <= Len(toS) /\ \A i \in 1 .. Len(toS') : toS'[i] = toS[i]
  /\ toR = <<>> => toR' = <<>>
  /\ toS = <<>> => toS' = <<>>

\* Queue lengths are natural numbers.
LEMMA QueueLengths ==
  /\ Typed => Len(toR) \in Nat /\ Len(toS) \in Nat
  /\ Typed' => Len(toR') \in Nat /\ Len(toS') \in Nat
  BY LenProperties DEF Typed, TypeOK

\* A prefix of a queue keeps its messages in place, the first one first.
LEMMA ShrinkFacts ==
  ASSUME Typed, toR' \in Prefixes(toR) \/ toR' = <<>>, toS' \in Prefixes(toS) \/ toS' = <<>>
  PROVE  NetShrinks
<1>1. ASSUME NEW S, NEW q \in Seq(S), NEW r, r \in Prefixes(q) \/ r = <<>>
      PROVE  Len(r) <= Len(q) /\ (\A i \in 1 .. Len(r) : r[i] = q[i]) /\ (q = <<>> => r = <<>>)
  <2>1. CASE r \in Prefixes(q)
    <3>1. r \in Seq(S) /\ Len(r) <= Len(q) /\ \A i \in 1 .. Len(r) : r[i] = q[i]
      BY <2>1, PrefixFacts
    <3>2. q = <<>> => Len(r) = 0
      BY <3>1, EmptySeq, LenProperties
    <3> QED
      BY <3>1, <3>2, EmptySeq
  <2>2. CASE r = <<>>
    BY <2>2, LenProperties
  <2> QED
    BY <1>1, <2>1, <2>2
<1>2. toR \in Seq(ToReceiver) /\ toS \in Seq(ToSender)
  BY DEF Typed, TypeOK
<1> QED
  BY <1>1, <1>2 DEF NetShrinks

\* Losing the tail of the queues endangers neither checksum nor ack.
LEMMA ShrinkSafe ==
  ASSUME Typed, Typed', NetShrinks, ChecksumIsLast, sSum' = sSum, sPc' \notin Sending \/ sPc' = sPc
  PROVE  ChecksumIsLast' /\ (Acked' /\ sPc' # "ok" => Acked)
<1>1. ChecksumIsLast'
  BY QueueLengths DEF NetShrinks, ChecksumIsLast
<1>2. Acked' /\ sPc' # "ok" => Acked
  BY QueueLengths DEF NetShrinks, Acked
<1> QED
  BY <1>1, <1>2

\* Nor does the receiver's taking the next message.
LEMMA TailSafe ==
  ASSUME Typed, ChecksumIsLast, toR # <<>>, toR' = Tail(toR), sSum' = sSum, sPc' = sPc
  PROVE  /\ ChecksumIsLast'
         /\ Head(toR).type = "file_checksum" =>
              Head(toR).checksum = sSum /\ toR' = <<>> /\ sPc \notin Sending
<1>1. toR \in Seq(ToReceiver)
  BY DEF Typed, TypeOK
<1>2. /\ Head(toR) = toR[1] /\ toR' \in Seq(ToReceiver)
      /\ Len(toR) \in Nat /\ Len(toR) >= 1 /\ Len(toR') = Len(toR) - 1
      /\ \A i \in 1 .. Len(toR') : toR'[i] = toR[i + 1]
  BY <1>1, HeadTailFacts, LenProperties
<1>3. ChecksumIsLast'
  <2> SUFFICES ASSUME NEW i \in 1 .. Len(toR'), toR'[i].type = "file_checksum"
               PROVE  toR'[i].checksum = sSum /\ i = Len(toR') /\ sPc \notin Sending
    BY DEF ChecksumIsLast
  <2>1. i + 1 \in 1 .. Len(toR) /\ toR'[i] = toR[i + 1]
    BY <1>2
  <2>2. toR[i + 1].checksum = sSum /\ i + 1 = Len(toR) /\ sPc \notin Sending
    BY <2>1 DEF ChecksumIsLast
  <2>3. Len(toR) \in Nat /\ Len(toR') \in Nat /\ Len(toR') = Len(toR) - 1
    BY <1>2, LenProperties
  <2>4. i = Len(toR')
    BY <2>2, <2>3
  <2> QED
    BY <2>1, <2>2, <2>4
<1>4. ASSUME Head(toR).type = "file_checksum"
      PROVE  Head(toR).checksum = sSum /\ toR' = <<>> /\ sPc \notin Sending
  <2>1. toR[1].type = "file_checksum" /\ 1 \in 1 .. Len(toR)
    BY <1>2, <1>4
  <2>2. toR[1].checksum = sSum /\ 1 = Len(toR) /\ sPc \notin Sending
    BY <2>1 DEF ChecksumIsLast
  <2>3. Len(toR') = 0
    BY <1>2, <2>2
  <2> QED
    BY <1>2, <2>2, <2>3, EmptySeq
<1> QED
  BY <1>3, <1>4

\* Sending appends at the end, or loses the message.
LEMMA SentFacts ==
  ASSUME NEW S, NEW q \in Seq(S), NEW m \in S
  PROVE  \A i \in 1 .. Len(Sent(q, m)) :
           \/ i \in 1 .. Len(q) /\ Sent(q, m)[i] = q[i]
           \/ i = Len(Sent(q, m)) /\ Sent(q, m)[i] = m
<1>1. CASE up
  <2>1. Sent(q, m) = Append(q, m)
    BY <1>1 DEF Sent
  <2>2. /\ Len(Append(q, m)) = Len(q) + 1 /\ Append(q, m)[Len(q) + 1] = m
        /\ \A i \in 1 .. Len(q) : Append(q, m)[i] = q[i]
        /\ Len(q) \in Nat
    BY AppendProperties, LenProperties
  <2> QED
    BY <2>1, <2>2
<1>2. CASE ~up
  BY <1>2 DEF Sent
<1> QED
  BY <1>1, <1>2

\* While it is sending, the sender's only checksum can be the one it sends now.
LEMMA SendSafe ==
  ASSUME Typed, ChecksumIsLast, sPc \in Sending, NEW m \in ToReceiver, toR' = Sent(toR, m),
         NEW i \in 1 .. Len(toR'), toR'[i].type = "file_checksum"
  PROVE  toR'[i] = m /\ i = Len(toR')
<1>1. \/ i \in 1 .. Len(toR) /\ toR'[i] = toR[i]
      \/ i = Len(toR') /\ toR'[i] = m
  BY SentFacts DEF Typed, TypeOK
<1>2. ~(i \in 1 .. Len(toR) /\ toR'[i] = toR[i])
  BY DEF ChecksumIsLast
<1> QED
  BY <1>1, <1>2

\* The sender preserves the invariant: it sends the announced checksum last, and
\* takes an ack only of what the receiver verified.
LEMMA VerifiedSender ==
  ASSUME VerifiedInv, Typed', SenderStep \/ SenderFault
  PROVE  VerifiedInv'
<1> USE DEF VerifiedInv, SenderUnchanged, disk, receiver, net
<1>1. UNCHANGED <<dest, temps, temp, rPc, rId, rTmp, rHash>>
  BY DEF SenderStep, SenderFault, SenderStat, SenderStart, SenderAck, SenderChunk, SenderEOF,
         SenderComplete, SenderChecksum, SenderVerdict, SenderLinkError
<1>2. HashTracksTemp'
  BY <1>1 DEF HashTracksTemp
<1>3. ASSUME NEW m \in ToReceiver, sPc \in Sending \ {"stat", "start"}, toR' = Sent(toR, m),
             UNCHANGED <<toS, sSum>>, sPc' \notin {"idle", "stat", "start", "ok"},
             m.type = "file_checksum" => m.checksum = sSum /\ sPc' \notin Sending
      PROVE  VerifiedInv'
  <2>1. ChecksumIsLast'
    BY <1>3, SendSafe DEF ChecksumIsLast
  <2>2. VerifiedIsLast' /\ VerifiedHash' /\ AckedHash' /\ BeforeStart'
    BY <1>1, <1>3 DEF VerifiedIsLast, VerifiedHash, AckedHash, Acked, BeforeStart, Sending
  <2> QED
    BY <1>2, <2>1, <2>2
<1>4. SenderId \in FileIDs
  BY DEF SenderId, FileIDs, Typed, TypeOK
<1>5. CASE SenderStat
  <2>1. sPc = "stat" /\ sPc' = "start" /\ UNCHANGED <<sSum, toR, toS>>
    BY <1>5 DEF SenderStat
  <2> QED
    BY <1>1, <1>2, <2>1 DEF BeforeStart, ChecksumIsLast, VerifiedIsLast, VerifiedHash,
                            AckedHash, Acked, Sending, Verified
<1>6. CASE SenderStart
  <2>1. /\ sPc = "start" /\ sPc' \in {"ack", "chunks"} /\ UNCHANGED toS
        /\ toR' = Sent(toR, Start(SenderId, sResume))
    BY <1>6 DEF SenderStart
  <2>2. /\ Start(SenderId, sResume) \in ToReceiver
        /\ Start(SenderId, sResume).type = "file_start"
    BY <1>4 DEF Start, ToReceiver, Typed, TypeOK
  <2>3. ChecksumIsLast'
    BY <2>1, <2>2, SendSafe DEF ChecksumIsLast, Sending
  <2>4. toS = <<>> /\ rPc \in {"idle", "wait_start", "ok", "failed"}
    BY <2>1 DEF BeforeStart
  <2>5. ~Acked' /\ rPc' \notin Verified /\ (rPc' = "wait_start" => rId' = NoFile)
    BY <1>1, <2>1, <2>4, LenProperties DEF Acked, Verified, VerifiedIsLast, Sending
  <2> QED
    BY <1>1, <1>2, <2>1, <2>3, <2>5
    DEF BeforeStart, VerifiedIsLast, VerifiedHash, AckedHash
<1>7. CASE SenderAck
  <2>1. /\ sPc = "ack" /\ sPc' = "chunks" /\ toS # <<>> /\ toS' = Tail(toS)
        /\ UNCHANGED <<sSum, toR>>
    BY <1>7 DEF SenderAck
  <2>2. Acked' => Acked
    <3>1. /\ Len(toS) \in Nat /\ Len(toS') \in Nat /\ Len(toS') = Len(toS) - 1
          /\ \A i \in 1 .. Len(toS') : toS'[i] = toS[i + 1]
      BY <2>1, HeadTailFacts, LenProperties DEF Typed, TypeOK
    <3> QED
      BY <2>1, <3>1 DEF Acked
  <2> QED
    BY <1>1, <1>2, <2>1, <2>2 DEF BeforeStart, ChecksumIsLast, VerifiedIsLast, VerifiedHash,
                                  AckedHash, Sending
<1>8. CASE SenderChunk
  <2>1. ChunkAt(source, sPos) \in Seq(Byte)
    BY <1>8, ChunkType DEF SenderChunk, Typed, TypeOK
  <2>2. /\ Chunk(SenderId, sIdx, ChunkAt(source, sPos)) \in ToReceiver
        /\ Chunk(SenderId, sIdx, ChunkAt(source, sPos)).type = "file_chunk"
    BY <1>4, <2>1 DEF Chunk, ToReceiver, Typed, TypeOK
  <2> QED
    BY <1>3, <1>8, <2>2 DEF SenderChunk, Sending
<1>9. CASE SenderEOF
  <2>1. sPc = "chunks" /\ sPc' = "complete" /\ UNCHANGED <<sSum, toR, toS>>
    BY <1>9 DEF SenderEOF
  <2> QED
    BY <1>1, <1>2, <2>1 DEF BeforeStart, ChecksumIsLast, VerifiedIsLast, VerifiedHash,
                            AckedHash, Acked, Sending
<1>10. CASE SenderComplete
  <2>1. Complete(SenderId) \in ToReceiver /\ Complete(SenderId).type = "file_complete"
    BY <1>4 DEF Complete, ToReceiver
  <2> QED
    BY <1>3, <1>10, <2>1 DEF SenderComplete, Sending
<1>11. CASE SenderChecksum
  <2>1. Checksum(SenderId, sSum) \in ToReceiver /\ Checksum(SenderId, sSum).checksum = sSum
    BY <1>4 DEF Checksum, ToReceiver, Typed, TypeOK
  <2> QED
    BY <1>3, <1>11, <2>1 DEF SenderChecksum, Sending
\* The sender leaves: what matters is whether it takes an ack along.
<1>12. ASSUME SenderHangsUp, sPc' \in {"ok", "failed"}, UNCHANGED sSum,
              sPc' = "ok" => Acked
       PROVE  VerifiedInv'
  <2>1. NetShrinks
    BY <1>12, ShrinkFacts DEF SenderHangsUp
  <2>2. ChecksumIsLast'
    BY <1>12, <2>1, ShrinkSafe DEF Sending
  <2>3. Acked' => Acked
    BY <1>12, <2>1, ShrinkSafe DEF Sending
  <2>4. BeforeStart' /\ VerifiedIsLast' /\ VerifiedHash' /\ AckedHash'
    BY <1>1, <1>12, <2>1, <2>3
    DEF BeforeStart, VerifiedIsLast, VerifiedHash, AckedHash, Sending, NetShrinks
  <2> QED
    BY <1>2, <2>2, <2>4
<1>13. CASE SenderVerdict
  <2>1. Head(toS) = toS[1] /\ Len(toS) \in Nat /\ Len(toS) >= 1
    BY <1>13, HeadTailFacts, LenProperties DEF SenderVerdict, Typed, TypeOK
  <2>2. sPc' \in {"ok", "failed"} /\ (sPc' = "ok" => Head(toS).type = "file_checksum")
    BY <1>13 DEF SenderVerdict, Verdict
  <2>3. sPc' = "ok" => Acked
    BY <2>1, <2>2 DEF Acked
  <2> QED
    BY <1>12, <1>13, <2>2, <2>3 DEF SenderVerdict
<1>14. CASE SenderLinkError
  BY <1>12, <1>14 DEF SenderLinkError
<1>15. CASE SenderFault
  BY <1>12, <1>15 DEF SenderFault
<1> QED
  BY <1>5, <1>6, <1>7, <1>8, <1>9, <1>10, <1>11, <1>13, <1>14, <1>15 DEF SenderStep

\* The receiver preserves the invariant: the hash follows the temp file, and
\* is compared with the announced checksum before anything is acked or saved.
LEMMA VerifiedReceiver ==
  ASSUME VerifiedInv, Typed', ReceiverStep \/ StateFault \/ ReceiverFault \/ ReceiverCrash
  PROVE  VerifiedInv'
<1> USE DEF VerifiedInv, ReceiverUnchanged, disk, sender, net
<1>1. UNCHANGED <<sPc, sSum>>
  BY DEF ReceiverStep, StateFault, ReceiverFault, ReceiverCrash, ReceiveStartResume,
         ReceiveStartFresh, ReceiveEOF, CreateTemp, SaveTruncate, SaveWrite, AckResume,
         ReceiveChunk, ReceiveComplete, ReceiveChecksum, SendSum, DeleteState, Rename,
         OpenDest, WriteDest, Cleanup, ReceiverLinkError, Unwind
\* A step that leaves the queues alone and does not reach a new stage.
<1>2. ASSUME UNCHANGED <<toR, toS>>, HashTracksTemp',
             rPc \notin {"idle", "wait_start", "ok", "failed"},
             \/ UNCHANGED rHash /\ (rPc' \in Verified => rPc \in Verified)
             \/ rPc = "create" /\ rPc' \notin Verified,
             rPc' # "wait_start",
             Acked => rPc' \in (Verified \ {"send_sum"}) \cup {"failing", "failed", "ok"}
      PROVE  VerifiedInv'
  <2>1. Acked' = Acked /\ (rPc = "create" => ~Acked)
    BY <1>1, <1>2 DEF Acked, AckedHash, Verified
  <2>2. ChecksumIsLast'
    BY <1>1, <1>2 DEF ChecksumIsLast
  <2> QED
    BY <1>1, <1>2, <2>1, <2>2
    DEF BeforeStart, VerifiedIsLast, VerifiedHash, AckedHash, Verified
\* A step that takes a message, before anything is verified.
<1>3. ASSUME toR # <<>>, toR' = Tail(toR), UNCHANGED toS, HashTracksTemp',
             rPc \in {"wait_start", "recv", "sum"}, rPc' \notin Verified \cup {"wait_start"}
      PROVE  VerifiedInv'
  <2>1. ChecksumIsLast'
    BY <1>1, <1>3, TailSafe
  <2>2. ~Acked'
    BY <1>1, <1>3 DEF Acked, AckedHash, Verified, VerifiedIsLast
  <2> QED
    BY <1>1, <1>3, <2>1, <2>2
    DEF BeforeStart, VerifiedIsLast, VerifiedHash, AckedHash
<1>4. CASE ReceiveStartResume
  <2> DEFINE m == Head(toR)
             s == stateFile[m.id]
             off == s.next * FileChunkSize
             data == Resize(temp[s.temp], off)
  <2>1. /\ toR # <<>> /\ m.type = "file_start" /\ CanReopen(m.id)
        /\ temp' = [temp EXCEPT ![s.temp] = data]
        /\ rTmp' = s.temp /\ rHash' = Rehash(temp'[s.temp], off) /\ rPc' = "ack"
    BY <1>4 DEF ReceiveStartResume, Truncated, ResumeOffset
  <2>2. m \in ToReceiver
    BY <2>1, HeadTailFacts DEF Typed, TypeOK
  <2>3. s.next \in Nat /\ s.temp \in Temps
    BY <2>1, <2>2, ReceivedMessages DEF CanReopen, Typed, TypeOK
  <2>4. Rehash(data, off) = data
    BY <2>3, OffsetFacts, DataTypes DEF Typed, TypeOK
  <2> HIDE DEF m, s, off, data
  <2>5. HashTracksTemp'
    BY <2>1, <2>3, <2>4 DEF HashTracksTemp, Typed, TypeOK
  <2> QED
    BY <1>3, <1>4, <2>1, <2>5 DEF ReceiveStartResume, Verified
<1>5. CASE ReceiveStartFresh
  <2>1. /\ rPc = "wait_start" /\ toR # <<>> /\ toR' = Tail(toR) /\ UNCHANGED toS
        /\ UNCHANGED <<rTmp, rHash>> /\ rPc' \in {"create", "failing"}
    BY <1>5 DEF ReceiveStartFresh
  <2>2. HashTracksTemp'
    BY <1>5, <2>1 DEF HashTracksTemp, Typed
  <2> QED
    BY <1>3, <2>1, <2>2 DEF Verified
<1>6. CASE CreateTemp
  <2>1. PICK t \in FreshTemps :
          rTmp' = t /\ temps' = temps \cup {t} /\ temp' = [temp EXCEPT ![t] = <<>>]
    BY <1>6 DEF CreateTemp
  <2>2. rPc = "create" /\ rPc' \in {"save", "ack"} /\ rHash' = <<>> /\ UNCHANGED <<toR, toS>>
    BY <1>6 DEF CreateTemp
  <2>3. HashTracksTemp'
    BY <2>1, <2>2 DEF HashTracksTemp, FreshTemps, Typed, TypeOK
  <2>4. ~Acked
    BY <2>2 DEF AckedHash, Verified
  <2> QED
    BY <1>2, <2>2, <2>3, <2>4 DEF Verified
<1>7. CASE SaveTruncate \/ SaveWrite \/ ReceiverLinkError \/ ReceiverFault
  <2>1. /\ UNCHANGED <<toR, toS, temp, rTmp, rHash>>
        /\ rPc \in {"save", "saving", "recv", "sum", "ack", "send_sum", "create", "store", "write"}
        /\ rPc' \in {"saving", "ack", "recv", "failing"}
        /\ rPc \in {"store", "write", "send_sum"} => rPc' = "failing"
    BY <1>7 DEF SaveTruncate, SaveWrite, AfterSave, ReceiverLinkError, ReceiverFault
  <2>2. HashTracksTemp'
    BY <2>1 DEF HashTracksTemp
  <2>3. Acked => rPc' = "failing"
    BY <2>1 DEF AckedHash, Verified
  <2> QED
    BY <1>2, <2>1, <2>2, <2>3 DEF Verified
<1>8. CASE StateFault
  <2>1. /\ UNCHANGED <<toR, toS, temp, rTmp, rHash>>
        /\ \/ rPc = "delete" /\ rPc' = "store"
           \/ rPc \in {"save", "saving"} /\ rPc' \in {"ack", "recv"}
    BY <1>8 DEF StateFault, AfterSave
  <2>2. HashTracksTemp'
    BY <2>1 DEF HashTracksTemp
  <2>3. Acked => rPc' = "store"
    BY <2>1 DEF AckedHash, Verified
  <2> QED
    BY <1>2, <2>1, <2>2, <2>3 DEF Verified
<1>9. CASE DeleteState \/ OpenDest \/ WriteDest
  <2>1. /\ UNCHANGED <<toR, toS, temp, rTmp, rHash>>
        /\ rPc \in {"delete", "store", "write"}
        /\ rPc' \in {"store", "write", "cleanup", "failing"}
    BY <1>9 DEF DeleteState, OpenDest, WriteDest
  <2>2. HashTracksTemp'
    BY <2>1 DEF HashTracksTemp
  <2> QED
    BY <1>2, <2>1, <2>2 DEF Verified
<1>10. CASE Rename
  <2>1. rPc = "store" /\ rPc' = "cleanup" /\ UNCHANGED <<toR, toS, rHash>>
    BY <1>10 DEF Rename
  <2>2. HashTracksTemp'
    BY <2>1 DEF HashTracksTemp
  <2> QED
    BY <1>2, <2>1, <2>2 DEF Verified
<1>11. CASE AckResume
  <2>1. /\ rPc = "ack" /\ rPc' = "recv" /\ UNCHANGED <<toR, temp, rTmp, rHash>>
        /\ \/ toS' = toS
           \/ \E m \in ToSender : toS' = Sent(toS, m) /\ m.type # "file_checksum"
    <3>1. rId \in FileIDs /\ rNext * FileChunkSize \in Nat
      BY <1>11, OffsetFacts DEF AckResume, Typed, TypeOK
    <3>2. /\ Ready \in ToSender /\ Ready.type # "file_checksum"
          /\ FileResume(rId, rNext * FileChunkSize) \in ToSender
          /\ FileResume(rId, rNext * FileChunkSize).type # "file_checksum"
      BY <3>1 DEF Ready, FileResume, ToSender
    <3> QED
      BY <1>11, <3>2 DEF AckResume
  <2>2. ~Acked
    BY <2>1 DEF AckedHash, Verified
  <2>3. ~Acked'
    <3>1. CASE toS' = toS
      BY <1>1, <2>2, <3>1 DEF Acked
    <3>2. ASSUME NEW m \in ToSender, toS' = Sent(toS, m), m.type # "file_checksum"
          PROVE  ~Acked'
      <4>1. \A i \in 1 .. Len(toS') : \/ i \in 1 .. Len(toS) /\ toS'[i] = toS[i]
                                    \/ toS'[i] = m
        BY <3>2, SentFacts DEF Typed, TypeOK
      <4> QED
        BY <1>1, <2>2, <3>2, <4>1 DEF Acked
    <3> QED
      BY <2>1, <3>1, <3>2
  <2>4. HashTracksTemp' /\ ChecksumIsLast'
    BY <1>1, <2>1 DEF HashTracksTemp, ChecksumIsLast
  <2> QED
    BY <1>1, <2>1, <2>3, <2>4
    DEF BeforeStart, VerifiedIsLast, VerifiedHash, AckedHash, Verified
<1>12. CASE ReceiveChunk
  <2> DEFINE m == Head(toR)
  <2>1. /\ rPc = "recv" /\ toR # <<>> /\ toR' = Tail(toR) /\ UNCHANGED <<toS, rTmp>>
        /\ rPc' \in {"save", "recv", "failing"}
        /\ \/ temp' = [temp EXCEPT ![rTmp] = @ \o m.chunk] /\ rHash' = rHash \o m.chunk
           \/ UNCHANGED <<temp, rHash>>
    BY <1>12 DEF ReceiveChunk
  <2>2. rTmp \in Temps /\ rTmp # NoTemp /\ rHash = temp[rTmp]
    BY <2>1, TempAssumption DEF HashTracksTemp, Typed
  <2>3. HashTracksTemp'
    BY <2>1, <2>2 DEF HashTracksTemp, Typed, TypeOK
  <2> QED
    BY <1>3, <2>1, <2>3 DEF Verified
<1>13. CASE ReceiveComplete
  <2>1. /\ rPc = "recv" /\ toR # <<>> /\ toR' = Tail(toR) /\ rPc' \in {"sum", "failing"}
        /\ UNCHANGED <<toS, temp, rTmp, rHash>>
    BY <1>13 DEF ReceiveComplete
  <2>2. HashTracksTemp'
    BY <2>1 DEF HashTracksTemp
  <2> QED
    BY <1>3, <2>1, <2>2 DEF Verified
\* The comparison: the checksum that matches is the announced one, and no
\* other message follows it.
<1>14. CASE ReceiveChecksum
  <2>1. /\ rPc = "sum" /\ toR # <<>> /\ toR' = Tail(toR)
        /\ UNCHANGED <<toS, temp, rTmp, rHash>>
        /\ \/ rPc' = "failing"
           \/ /\ rPc' = "send_sum" /\ Head(toR).type = "file_checksum"
              /\ Head(toR).checksum = Digest(rHash)
    BY <1>14 DEF ReceiveChecksum, Matches
  <2>2. HashTracksTemp'
    BY <2>1 DEF HashTracksTemp
  <2>3. CASE rPc' = "failing"
    BY <1>3, <2>1, <2>2, <2>3 DEF Verified
  <2>4. CASE rPc' = "send_sum"
    <3>1. Digest(rHash) = sSum /\ toR' = <<>> /\ sPc \notin Sending /\ ChecksumIsLast'
      BY <1>1, <2>1, <2>4, TailSafe
    <3>2. ~Acked'
      BY <1>1, <2>1 DEF Acked, AckedHash, Verified
    <3>3. UNCHANGED rHash
      BY <2>1
    <3>4. sPc \notin {"idle", "stat", "start"}
      BY <2>1 DEF BeforeStart
    <3> QED
      BY <1>1, <2>2, <2>4, <3>1, <3>2, <3>3, <3>4
      DEF BeforeStart, VerifiedIsLast, VerifiedHash, AckedHash, Sending
  <2> QED
    BY <2>1, <2>3, <2>4
<1>15. CASE SendSum
  <2>1. rPc = "send_sum" /\ rPc' = "delete" /\ UNCHANGED <<toR, temp, rTmp, rHash>>
    BY <1>15 DEF SendSum
  <2>2. HashTracksTemp' /\ ChecksumIsLast'
    BY <1>1, <2>1 DEF HashTracksTemp, ChecksumIsLast
  <2> QED
    BY <1>1, <2>1, <2>2
    DEF BeforeStart, VerifiedIsLast, VerifiedHash, AckedHash, Verified, Sending
<1>16. CASE Cleanup
  <2>1. /\ rPc = "cleanup" /\ rPc' = "wait_start" /\ rTmp' = NoTemp
        /\ UNCHANGED <<toR, toS, rId, rHash>>
    BY <1>16 DEF Cleanup
  <2>2. rId # NoFile
    BY <2>1, IdAssumption, LenProperties DEF Typed, TypeOK, FileIDs
  <2>3. HashTracksTemp' /\ ChecksumIsLast' /\ Acked' = Acked
    BY <1>1, <2>1 DEF HashTracksTemp, ChecksumIsLast, Acked
  <2> QED
    BY <1>1, <2>1, <2>2, <2>3
    DEF BeforeStart, VerifiedIsLast, VerifiedHash, AckedHash, Verified, Sending
\* The receiver leaves.
<1>17. ASSUME ReceiverHangsUp, rPc' \in {"ok", "failed"}, HashTracksTemp', UNCHANGED rHash
       PROVE  VerifiedInv'
  <2>1. NetShrinks
    BY <1>17, ShrinkFacts DEF ReceiverHangsUp
  <2>2. ChecksumIsLast' /\ (Acked' => Acked)
    BY <1>1, <2>1, ShrinkSafe DEF Acked
  <2> QED
    BY <1>1, <1>17, <2>1, <2>2
    DEF BeforeStart, VerifiedIsLast, VerifiedHash, AckedHash, Verified, NetShrinks
<1>18. CASE ReceiveEOF
  <2>1. HashTracksTemp'
    BY <1>18 DEF ReceiveEOF, HashTracksTemp
  <2> QED
    BY <1>17, <1>18, <2>1 DEF ReceiveEOF
<1>19. CASE Unwind \/ ReceiverCrash
  <2>1. rTmp' = NoTemp /\ rPc' = "failed" /\ ReceiverHangsUp /\ UNCHANGED rHash
    BY <1>19 DEF Unwind, ReceiverCrash
  <2>2. HashTracksTemp'
    BY <2>1 DEF HashTracksTemp
  <2> QED
    BY <1>17, <2>1, <2>2
<1> QED
  BY <1>4, <1>5, <1>6, <1>7, <1>8, <1>9, <1>10, <1>11, <1>12, <1>13, <1>14, <1>15, <1>16,
     <1>18, <1>19 DEF ReceiverStep

\* The environment preserves the invariant: what it cuts off, resets, edits or
\* removes is not what the hash and the ack rest on.
LEMMA VerifiedEnvironment ==
  ASSUME VerifiedInv, Typed',
         \/ LinkLoss
         \/ \E sr, rr \in BOOLEAN : Connect(sr, rr)
         \/ \E c \in Contents : EditSource(c)
         \/ \E t \in Temps : ReapTemp(t)
  PROVE  VerifiedInv'
<1> USE DEF VerifiedInv, disk, sender, receiver, net
<1>1. CASE LinkLoss
  <2>1. /\ UNCHANGED <<sPc, sSum, rPc, rId, rTmp, rHash, temp>>
        /\ toR' \in Prefixes(toR) /\ toS' \in Prefixes(toS)
    BY <1>1 DEF LinkLoss
  <2>2. NetShrinks
    BY <2>1, ShrinkFacts
  <2>3. ChecksumIsLast' /\ (Acked' => Acked)
    BY <2>1, <2>2, ShrinkSafe DEF Acked
  <2> QED
    BY <2>1, <2>2, <2>3
    DEF BeforeStart, VerifiedIsLast, VerifiedHash, AckedHash, NetShrinks, HashTracksTemp
<1>2. ASSUME NEW sr \in BOOLEAN, NEW rr \in BOOLEAN, Connect(sr, rr)
      PROVE  VerifiedInv'
  <2>1. /\ sPc' = "stat" /\ rPc' = "wait_start" /\ rId' = NoFile /\ rTmp' = NoTemp
        /\ toR' = <<>> /\ toS' = <<>>
    BY <1>2 DEF Connect, SenderBegins, ReceiverBegins
  <2>2. ~Acked' /\ ChecksumIsLast'
    BY <2>1, LenProperties DEF Acked, ChecksumIsLast
  <2> QED
    BY <2>1, <2>2
    DEF BeforeStart, VerifiedIsLast, VerifiedHash, AckedHash, Verified, HashTracksTemp
<1>3. ASSUME NEW c \in Contents, EditSource(c)
      PROVE  VerifiedInv'
  BY <1>3 DEF EditSource, BeforeStart, ChecksumIsLast, VerifiedIsLast, VerifiedHash, AckedHash,
              Acked, HashTracksTemp
<1>4. ASSUME NEW t \in Temps, ReapTemp(t)
      PROVE  VerifiedInv'
  <2>1. HashTracksTemp'
    BY <1>4 DEF ReapTemp, RemoveTemp, HashTracksTemp, Typed, TypeOK
  <2> QED
    BY <1>4, <2>1 DEF ReapTemp, BeforeStart, ChecksumIsLast, VerifiedIsLast, VerifiedHash,
                      AckedHash, Acked
<1> QED
  BY <1>1, <1>2, <1>3, <1>4

\* The invariant holds initially.
LEMMA VerifiedInit == Init => VerifiedInv
  BY TypedInit, EmptySeq, LenProperties
  DEF Init, VerifiedInv, HashTracksTemp, BeforeStart, ChecksumIsLast, VerifiedIsLast,
      VerifiedHash, AckedHash, Acked, Verified

\* The invariant is inductive.
LEMMA VerifiedStep == VerifiedInv /\ [Next]_vars => VerifiedInv'
<1> SUFFICES ASSUME VerifiedInv, [Next]_vars PROVE VerifiedInv'
  OBVIOUS
<1>1. Typed'
  BY TypedStep DEF VerifiedInv
<1>2. CASE UNCHANGED vars
  BY <1>1, <1>2 DEF vars, disk, sender, receiver, net, VerifiedInv, HashTracksTemp, BeforeStart,
      ChecksumIsLast, VerifiedIsLast, VerifiedHash, AckedHash, Acked
<1> QED
  BY <1>1, <1>2, VerifiedSender, VerifiedReceiver, VerifiedEnvironment DEF Next

\* The hash is that of the temp file, in every reachable state.
THEOREM HashCorrect == Spec => []HashTracksTemp
<1>1. VerifiedInv => HashTracksTemp
  BY DEF VerifiedInv
<1> QED
  BY VerifiedInit, VerifiedStep, <1>1, PTL DEF Spec

\* A sender that reports success: the receiver hashed what was announced.
THEOREM SenderOkCorrect == Spec => []SenderOkImpliesVerified
<1>1. VerifiedInv => SenderOkImpliesVerified
  BY DEF VerifiedInv, AckedHash, Acked, SenderOkImpliesVerified
<1> QED
  BY VerifiedInit, VerifiedStep, <1>1, PTL DEF Spec

\* What is written to the destination is what was announced.
THEOREM SavedCorrect == Spec => SavedIsVerified
<1>1. ASSUME VerifiedInv, [Next]_vars, dest' # dest, dest'.st \in {"whole", "tree"}
      PROVE  Digest(dest'.data) = sSum
  <2>1. CASE Rename \/ WriteDest
    <3>1. rPc \in {"store", "write"} /\ dest'.data = temp[rTmp]
      BY <1>1, <2>1 DEF Rename, WriteDest
    <3>2. rTmp # NoTemp
      BY <1>1, <3>1, TempAssumption DEF VerifiedInv, Typed
    <3> QED
      BY <1>1, <3>1, <3>2 DEF VerifiedInv, HashTracksTemp, VerifiedHash, Verified
  <2>2. CASE OpenDest
    BY <1>1, <2>2 DEF OpenDest, TornDest
  <2>3. Rename \/ WriteDest \/ OpenDest
    <3> USE DEF disk, sender, receiver, net, environment
    <3>1. ~(SenderStep \/ SenderFault)
      BY <1>1 DEF SenderUnchanged, SenderStep, SenderFault, SenderStat, SenderStart, SenderAck,
         SenderChunk, SenderEOF, SenderComplete, SenderChecksum, SenderVerdict, SenderLinkError
    <3>2. ~\/ LinkLoss
           \/ \E sr, rr \in BOOLEAN : Connect(sr, rr)
           \/ \E c \in Contents : EditSource(c)
           \/ \E t \in Temps : ReapTemp(t)
      BY <1>1 DEF LinkLoss, Connect, EditSource, ReapTemp
    <3>3. ~(StateFault \/ ReceiverFault \/ ReceiverCrash) /\ ~UNCHANGED vars
      BY <1>1 DEF StateFault, ReceiverFault, ReceiverCrash, vars
    <3>4. ~(ReceiveStartResume \/ ReceiveStartFresh \/ ReceiveEOF \/ CreateTemp \/ SaveTruncate
            \/ SaveWrite \/ AckResume \/ ReceiveChunk \/ ReceiveComplete \/ ReceiveChecksum
            \/ SendSum \/ DeleteState \/ Cleanup \/ ReceiverLinkError \/ Unwind)
      BY <1>1 DEF ReceiveStartResume, ReceiveStartFresh, ReceiveEOF, CreateTemp, SaveTruncate,
         SaveWrite, AckResume, ReceiveChunk, ReceiveComplete, ReceiveChecksum, SendSum,
         DeleteState, Cleanup, ReceiverLinkError, Unwind
    <3> QED
      BY <1>1, <3>1, <3>2, <3>3, <3>4 DEF Next, ReceiverStep
  <2> QED
    BY <2>1, <2>2, <2>3
<1>2. VerifiedInv /\ [Next]_vars =>
        [dest' # dest /\ dest'.st \in {"whole", "tree"} => Digest(dest'.data) = sSum]_vars
  BY <1>1
<1> QED
  BY VerifiedInit, VerifiedStep, <1>2, PTL DEF Spec, SavedIsVerified

-----------------------------------------------------------------------------
(* P2PTransfer implements VerifiedTransfer.                                *)

\* The abstract state, written out.
announcedBar == IF sPc \in {"idle", "stat", "start"} THEN {} ELSE {sSum}
verifiedBar == IF HasVerified THEN {rHash} ELSE {}
AbsForget ==
  /\ sPc # "ok" /\ sPc' # "ok" /\ verifiedBar' = {}
  /\ announcedBar' = announcedBar /\ dest' = dest

\* HasVerified in the vocabulary of the invariant.
LEMMA HasVerifiedFacts ==
  /\ HasVerified <=> (rPc \in Verified \/ Acked)
  /\ HasVerified' <=> (rPc' \in Verified \/ Acked')
  BY DEF HasVerified, Verified, Acked

\* The abstract next-state relation, with the refinement mapping expanded.
LEMMA AbstractActions ==
  /\ /\ announcedBar' = announcedBar /\ verifiedBar' = verifiedBar
     /\ (sPc' = "ok") = (sPc = "ok") /\ dest' = dest
     => UNCHANGED Abstract!vars
  /\ AbsForget => Abstract!Next
  /\ announcedBar' = {} /\ verifiedBar' = {} /\ sPc' # "ok" /\ dest' = dest => Abstract!Next
  /\ /\ announcedBar = {} /\ announcedBar' # {} /\ verifiedBar' = verifiedBar
     /\ (sPc' = "ok") = (sPc = "ok") /\ dest' = dest
     => Abstract!Next
  /\ /\ verifiedBar = {} /\ (\A d \in verifiedBar' : Digest(d) \in announcedBar)
     /\ announcedBar' = announcedBar /\ (sPc' = "ok") = (sPc = "ok") /\ dest' = dest
     => Abstract!Next
  /\ /\ verifiedBar # {} /\ sPc' = "ok" /\ announcedBar' = announcedBar
     /\ verifiedBar' = verifiedBar /\ dest' = dest
     => Abstract!Next
  /\ /\ verifiedBar # {}
     /\ dest'.st = "torn" \/ (dest'.st \in {"whole", "tree"} /\ dest'.data \in verifiedBar)
     /\ announcedBar' = announcedBar /\ verifiedBar' = verifiedBar
     /\ (sPc' = "ok") = (sPc = "ok")
     => Abstract!Next
  BY DEF Abstract!vars, Abstract!Next, Abstract!Retry, Abstract!Announce, Abstract!Verify,
         Abstract!Forget, Abstract!Confirm, Abstract!Store, announcedBar, verifiedBar,
         AbsForget

\* An abstract step or a stutter.
AbsStep == Abstract!Next \/ UNCHANGED Abstract!vars

\* Without a verdict, losing an ack or a verified file is forgetting it.
LEMMA Forgets ==
  ASSUME UNCHANGED <<dest, rHash>>, announcedBar' = announcedBar, sPc # "ok", sPc' # "ok",
         HasVerified' => HasVerified
  PROVE  AbsStep
<1>1. CASE HasVerified' <=> HasVerified
  <2>1. verifiedBar' = verifiedBar
    BY <1>1 DEF verifiedBar
  <2> QED
    BY <2>1, AbstractActions DEF AbsStep
<1>2. CASE ~HasVerified'
  <2>1. AbsForget
    BY <1>2 DEF AbsForget, verifiedBar
  <2> QED
    BY <2>1, AbstractActions DEF AbsStep
<1> QED
  BY <1>1, <1>2 DEF HasVerified

\* A step of the sender is an abstract announcement, confirmation or stutter, or
\* forgets what was verified.
LEMMA AbstractSender ==
  ASSUME VerifiedInv, VerifiedInv', SenderStep \/ SenderFault
  PROVE  AbsStep
<1> USE DEF SenderUnchanged, disk, receiver, net, AbsStep
<1>1. UNCHANGED <<dest, rPc, rHash>>
  BY DEF SenderStep, SenderFault, SenderStat, SenderStart, SenderAck, SenderChunk, SenderEOF,
         SenderComplete, SenderChecksum, SenderVerdict, SenderLinkError
<1>2. sPc \in {"idle", "stat", "start"} => ~HasVerified
  BY HasVerifiedFacts, LenProperties DEF VerifiedInv, BeforeStart, Verified, Acked
\* Nothing verified changes hands.
<1>3. ASSUME HasVerified' <=> HasVerified, sPc # "ok", sPc' # "ok",
             sPc \notin {"idle", "stat", "start"} =>
               sSum' = sSum /\ sPc' \notin {"idle", "stat", "start"}
      PROVE  AbsStep
  <2>1. verifiedBar' = verifiedBar
    BY <1>1, <1>3 DEF verifiedBar
  <2>2. CASE sPc \in {"idle", "stat", "start"} /\ sPc' \notin {"idle", "stat", "start"}
    BY <1>1, <1>3, <2>1, <2>2, AbstractActions DEF announcedBar
  <2>3. CASE (sPc \in {"idle", "stat", "start"}) = (sPc' \in {"idle", "stat", "start"})
    <3>1. announcedBar' = announcedBar
      BY <1>3, <2>3 DEF announcedBar
    <3> QED
      BY <1>1, <1>3, <2>1, <3>1, AbstractActions
  <2> QED
    BY <1>3, <2>2, <2>3
<1>4. CASE SenderStat \/ SenderStart
  <2>1. /\ sPc \in {"stat", "start"} /\ sPc' \in {"start", "ack", "chunks"} /\ UNCHANGED toS
    BY <1>4 DEF SenderStat, SenderStart
  <2>2. HasVerified' <=> HasVerified
    BY <1>1, <2>1, HasVerifiedFacts DEF Acked
  <2> QED
    BY <1>3, <2>1, <2>2
<1>5. CASE SenderAck
  <2>1. /\ sPc = "ack" /\ sPc' = "chunks" /\ toS # <<>> /\ toS' = Tail(toS)
        /\ UNCHANGED sSum
    BY <1>5 DEF SenderAck
  <2>2. announcedBar' = announcedBar
    BY <2>1 DEF announcedBar
  <2>3. /\ Len(toS) \in Nat /\ Len(toS') \in Nat /\ Len(toS') = Len(toS) - 1
        /\ \A i \in 1 .. Len(toS') : toS'[i] = toS[i + 1]
    BY <2>1, HeadTailFacts, LenProperties DEF VerifiedInv, Typed, TypeOK
  <2>4. Acked' => Acked
    BY <2>1, <2>3 DEF Acked
  <2>5. HasVerified' => HasVerified
    BY <1>1, <2>4, HasVerifiedFacts
  <2> QED
    BY <1>1, <2>1, <2>2, <2>5, Forgets
<1>6. CASE SenderChunk \/ SenderEOF \/ SenderComplete \/ SenderChecksum
  <2>1. /\ sPc \in {"chunks", "complete", "checksum"}
        /\ sPc' \in {"chunks", "complete", "checksum", "verdict"} /\ UNCHANGED <<toS, sSum>>
    BY <1>6 DEF SenderChunk, SenderEOF, SenderComplete, SenderChecksum
  <2>2. HasVerified' <=> HasVerified
    BY <1>1, <2>1, HasVerifiedFacts DEF Acked
  <2> QED
    BY <1>3, <2>1, <2>2
\* The sender confirms, or leaves an ack behind that nobody will read.
<1>7. CASE SenderVerdict
  <2>1. /\ sPc = "verdict" /\ sPc' \in {"ok", "failed"} /\ toS # <<>> /\ toS' = <<>>
        /\ UNCHANGED sSum /\ (sPc' = "ok" => Head(toS).type = "file_checksum")
    BY <1>7 DEF SenderVerdict, Verdict, SenderHangsUp
  <2>2. Head(toS) = toS[1] /\ Len(toS) \in Nat /\ Len(toS) >= 1
    BY <2>1, HeadTailFacts, LenProperties DEF VerifiedInv, Typed, TypeOK
  <2>3. announcedBar' = announcedBar
    BY <2>1 DEF announcedBar
  <2>4. CASE sPc' = "ok"
    <3>1. HasVerified /\ HasVerified'
      BY <2>1, <2>2, <2>4, HasVerifiedFacts DEF Acked
    <3> QED
      BY <1>1, <2>3, <2>4, <3>1, AbstractActions DEF verifiedBar
  <2>5. CASE sPc' = "failed"
    <3>1. HasVerified' => HasVerified
      BY <1>1, <2>1, <2>5, HasVerifiedFacts, LenProperties DEF Acked
    <3> QED
      BY <1>1, <2>1, <2>3, <2>5, <3>1, Forgets
  <2> QED
    BY <2>1, <2>4, <2>5
<1>8. CASE SenderLinkError \/ SenderFault
  <2>1. sPc' = "failed" /\ sPc # "ok" /\ toS' = <<>> /\ UNCHANGED sSum
    BY <1>8 DEF SenderLinkError, SenderFault, SenderHangsUp, Finished
  <2>2. CASE sPc \in {"idle", "stat", "start"}
    <3>1. ~HasVerified /\ ~HasVerified'
      BY <1>1, <1>2, <2>1, <2>2, HasVerifiedFacts, LenProperties DEF Acked
    <3> QED
      BY <1>3, <2>1, <2>2, <3>1
  <2>3. CASE sPc \notin {"idle", "stat", "start"}
    <3>1. announcedBar' = announcedBar
      BY <2>1, <2>3 DEF announcedBar
    <3>2. HasVerified' => HasVerified
      BY <1>1, <2>1, HasVerifiedFacts, LenProperties DEF Acked
    <3> QED
      BY <1>1, <2>1, <3>1, <3>2, Forgets
  <2> QED
    BY <2>2, <2>3
<1> QED
  BY <1>4, <1>5, <1>6, <1>7, <1>8 DEF SenderStep

\* A step of the receiver is an abstract verification, store or stutter, or
\* forgets what was verified.
LEMMA AbstractReceiver ==
  ASSUME VerifiedInv, VerifiedInv', ReceiverStep \/ StateFault \/ ReceiverFault \/ ReceiverCrash
  PROVE  AbsStep
<1> USE DEF ReceiverUnchanged, disk, sender, net
<1>1. UNCHANGED <<sPc, sSum>> /\ announcedBar' = announcedBar
  BY DEF ReceiverStep, StateFault, ReceiverFault, ReceiverCrash, ReceiveStartResume,
         ReceiveStartFresh, ReceiveEOF, CreateTemp, SaveTruncate, SaveWrite, AckResume,
         ReceiveChunk, ReceiveComplete, ReceiveChecksum, SendSum, DeleteState, Rename,
         OpenDest, WriteDest, Cleanup, ReceiverLinkError, Unwind, announcedBar
\* Not verified before, not verified after.
<1>2. ASSUME ~HasVerified, ~HasVerified', dest' = dest
      PROVE  AbsStep
  <2>1. verifiedBar' = verifiedBar
    BY <1>2 DEF verifiedBar
  <2> QED
    BY <1>1, <1>2, <2>1, AbstractActions DEF AbsStep
\* A step after the comparison keeps the verified data or forgets it.
<1>3. ASSUME UNCHANGED <<dest, rHash>>, HasVerified' => HasVerified
      PROVE  AbsStep
  <2>1. CASE sPc = "ok"
    <3>1. HasVerified /\ HasVerified'
      BY <1>1, <2>1 DEF HasVerified
    <3>2. verifiedBar' = verifiedBar
      BY <1>3, <3>1 DEF verifiedBar
    <3> QED
      BY <1>1, <1>3, <3>2, AbstractActions DEF AbsStep
  <2>2. CASE sPc # "ok"
    BY <1>1, <1>3, <2>2, Forgets
  <2> QED
    BY <2>1, <2>2
\* Storing needs, and keeps, verified data.
<1>4. ASSUME rPc \in {"store", "write"}, rPc' \in {"write", "cleanup"}, UNCHANGED <<rHash, toS>>,
             dest'.st = "torn" \/ (dest'.st \in {"whole", "tree"} /\ dest'.data = rHash)
      PROVE  AbsStep
  <2>1. HasVerified /\ HasVerified'
    BY <1>4, HasVerifiedFacts DEF Verified
  <2>2. verifiedBar = {rHash} /\ verifiedBar' = {rHash}
    BY <1>4, <2>1 DEF verifiedBar
  <2> QED
    BY <1>1, <1>4, <2>2, AbstractActions DEF AbsStep
<1>5. CASE \/ ReceiveStartResume \/ ReceiveStartFresh \/ CreateTemp \/ SaveTruncate \/ SaveWrite
           \/ AckResume \/ ReceiveChunk \/ ReceiveComplete
  <2>1. /\ rPc \in {"wait_start", "create", "save", "saving", "ack", "recv"}
        /\ rPc = "wait_start" => toR # <<>>
        /\ rPc' \in {"create", "failing", "save", "saving", "ack", "recv", "sum"}
        /\ dest' = dest /\ (rPc' = "failing" => UNCHANGED toS)
    BY <1>5 DEF ReceiveStartResume, ReceiveStartFresh, CreateTemp, SaveTruncate, SaveWrite,
                AckResume, ReceiveChunk, ReceiveComplete, AfterSave
  <2>2. ~HasVerified
    BY <2>1, HasVerifiedFacts DEF VerifiedInv, AckedHash, VerifiedIsLast, Verified
  <2>3. ~HasVerified'
    <3>1. CASE rPc' = "failing"
      BY <1>1, <2>1, <2>2, <3>1, HasVerifiedFacts DEF Acked, Verified
    <3>2. CASE rPc' # "failing"
      BY <2>1, <3>2, HasVerifiedFacts DEF VerifiedInv, AckedHash, Verified
    <3> QED
      BY <3>1, <3>2
  <2> QED
    BY <1>2, <2>1, <2>2, <2>3
<1>6. CASE ReceiveChecksum
  <2>1. /\ rPc = "sum" /\ UNCHANGED <<dest, rHash, toS>> /\ rPc' \in {"send_sum", "failing"}
    BY <1>6 DEF ReceiveChecksum
  <2>2. ~HasVerified
    BY <2>1, HasVerifiedFacts DEF VerifiedInv, AckedHash, Verified
  <2>3. CASE rPc' = "failing"
    <3>1. ~HasVerified'
      BY <1>1, <2>1, <2>2, <2>3, HasVerifiedFacts DEF Acked, Verified
    <3> QED
      BY <1>2, <2>1, <2>2, <3>1
  <2>4. CASE rPc' = "send_sum"
    <3>1. Digest(rHash) = sSum
      BY <1>1, <2>1, <2>4 DEF VerifiedInv, VerifiedHash, Verified
    <3>2. sPc \notin {"idle", "stat", "start"}
      BY <2>1 DEF VerifiedInv, BeforeStart
    <3>3. announcedBar = {Digest(rHash)} /\ verifiedBar = {} /\ verifiedBar' \subseteq {rHash}
      BY <2>1, <2>2, <3>1, <3>2 DEF announcedBar, verifiedBar
    <3> QED
      BY <1>1, <2>1, <3>3, AbstractActions DEF AbsStep
  <2> QED
    BY <2>1, <2>3, <2>4
<1>7. CASE SendSum \/ DeleteState \/ StateFault \/ Cleanup \/ ReceiverLinkError \/ ReceiverFault
  <2>1. /\ UNCHANGED <<dest, rHash>>
        /\ rPc' \in Verified => rPc \in Verified
        /\ rPc = "send_sum" \/ UNCHANGED toS
    BY <1>7 DEF SendSum, DeleteState, StateFault, AfterSave, Cleanup, ReceiverLinkError,
                ReceiverFault, Verified
  <2>2. HasVerified' => HasVerified
    BY <1>1, <2>1, HasVerifiedFacts DEF Acked, Verified
  <2> QED
    BY <1>3, <2>1, <2>2
<1>8. CASE ReceiveEOF \/ Unwind \/ ReceiverCrash
  <2>1. /\ UNCHANGED <<dest, rHash>> /\ rPc' \in {"ok", "failed"}
        /\ toR' = <<>> /\ toS' \in Prefixes(toS)
    BY <1>8 DEF ReceiveEOF, Unwind, ReceiverCrash, ReceiverHangsUp
  <2>2. NetShrinks
    BY <2>1, ShrinkFacts DEF VerifiedInv
  <2>3. Acked' => Acked
    BY <1>1, <2>2, ShrinkSafe DEF VerifiedInv, Acked
  <2>4. HasVerified' => HasVerified
    BY <2>1, <2>3, HasVerifiedFacts DEF Verified
  <2> QED
    BY <1>3, <2>1, <2>4
<1>9. CASE Rename
  <2>1. rTmp # NoTemp /\ rHash = temp[rTmp]
    BY <1>9, TempAssumption DEF Rename, VerifiedInv, Typed, HashTracksTemp
  <2> QED
    BY <1>4, <1>9, <2>1 DEF Rename
<1>10. CASE OpenDest
  <2>1. UNCHANGED <<rHash, toS>> /\ rPc = "store" /\ rPc' = "write"
    BY <1>10 DEF OpenDest
  <2>2. CASE dest' = dest
    <3>1. HasVerified
      BY <2>1, HasVerifiedFacts DEF Verified
    <3> QED
      BY <1>3, <2>1, <2>2, <3>1
  <2>3. CASE dest' = TornDest
    BY <1>4, <2>1, <2>3 DEF TornDest
  <2> QED
    BY <1>10, <2>2, <2>3 DEF OpenDest
<1>11. CASE WriteDest
  <2>1. rTmp # NoTemp /\ rHash = temp[rTmp] /\ rPc = "write" /\ UNCHANGED <<rHash, toS>>
    BY <1>11, TempAssumption DEF WriteDest, VerifiedInv, Typed, HashTracksTemp
  <2>2. CASE rPc' = "failing"
    <3>1. dest' = dest /\ HasVerified
      BY <1>11, <2>1, <2>2, HasVerifiedFacts DEF WriteDest, Verified
    <3> QED
      BY <1>3, <2>1, <3>1
  <2>3. CASE rPc' # "failing"
    <3>1. rPc' = "cleanup" /\ dest'.st \in {"whole", "tree"} /\ dest'.data = rHash
      BY <1>11, <2>1, <2>3 DEF WriteDest
    <3> QED
      BY <1>4, <2>1, <3>1
  <2> QED
    BY <2>2, <2>3
<1> QED
  BY <1>5, <1>6, <1>7, <1>8, <1>9, <1>10, <1>11 DEF ReceiverStep

\* A new session is an abstract retry; the rest of the environment stutters, or
\* loses an ack.
LEMMA AbstractEnvironment ==
  ASSUME VerifiedInv, VerifiedInv',
         \/ LinkLoss
         \/ \E sr, rr \in BOOLEAN : Connect(sr, rr)
         \/ \E c \in Contents : EditSource(c)
         \/ \E t \in Temps : ReapTemp(t)
  PROVE  AbsStep
<1> USE DEF disk, sender, receiver, net
<1>1. CASE LinkLoss
  <2>1. /\ UNCHANGED <<sPc, sSum, rPc, rHash, dest>>
        /\ toR' \in Prefixes(toR) /\ toS' \in Prefixes(toS)
    BY <1>1 DEF LinkLoss
  <2>2. NetShrinks
    BY <2>1, ShrinkFacts DEF VerifiedInv
  <2>3. Acked' => Acked
    BY <2>1, <2>2, ShrinkSafe DEF VerifiedInv, Acked
  <2>4. HasVerified' => HasVerified
    BY <2>1, <2>3, HasVerifiedFacts
  <2>5. announcedBar' = announcedBar
    BY <2>1 DEF announcedBar
  <2>6. CASE sPc # "ok"
    BY <2>1, <2>4, <2>5, <2>6, Forgets
  <2>7. CASE sPc = "ok"
    <3>1. verifiedBar' = verifiedBar
      BY <2>1, <2>7 DEF verifiedBar, HasVerified
    <3> QED
      BY <2>1, <2>5, <3>1, AbstractActions DEF AbsStep
  <2> QED
    BY <2>6, <2>7
<1>2. ASSUME NEW sr \in BOOLEAN, NEW rr \in BOOLEAN, Connect(sr, rr)
      PROVE  AbsStep
  <2>1. sPc' = "stat" /\ rPc' = "wait_start" /\ toS' = <<>> /\ dest' = dest
    BY <1>2 DEF Connect, SenderBegins, ReceiverBegins
  <2>2. ~HasVerified'
    BY <2>1, HasVerifiedFacts, LenProperties DEF Acked, Verified
  <2>3. announcedBar' = {} /\ verifiedBar' = {}
    BY <2>1, <2>2 DEF announcedBar, verifiedBar
  <2> QED
    BY <2>1, <2>3, AbstractActions DEF AbsStep
<1>3. ASSUME UNCHANGED <<sPc, sSum, rPc, rHash, toS, dest>>
      PROVE  AbsStep
  <2>1. announcedBar' = announcedBar /\ verifiedBar' = verifiedBar
    BY <1>3 DEF announcedBar, verifiedBar, HasVerified
  <2> QED
    BY <1>3, <2>1, AbstractActions DEF AbsStep
<1>4. ASSUME NEW c \in Contents, EditSource(c)
      PROVE  AbsStep
  BY <1>3, <1>4 DEF EditSource
<1>5. ASSUME NEW t \in Temps, ReapTemp(t)
      PROVE  AbsStep
  BY <1>3, <1>5 DEF ReapTemp
<1> QED
  BY <1>1, <1>2, <1>4, <1>5

\* Every behaviour of the code is one VerifiedTransfer allows: the messages,
\* the resume records, crashes and retries add nothing to what it promises.
THEOREM Implementation == Spec => ImplementsVerifiedTransfer
<1>1. Init => Abstract!Init
  <2>1. Init => sPc = "idle" /\ rPc = "idle" /\ toS = <<>> /\ dest.st = "none"
    BY DEF Init, NoDest
  <2>2. Init => ~HasVerified
    BY <2>1, HasVerifiedFacts, LenProperties DEF Verified, Acked
  <2> QED
    BY <2>1, <2>2 DEF Abstract!Init
<1>2. VerifiedInv /\ VerifiedInv' /\ [Next]_vars => [Abstract!Next]_Abstract!vars
  <2> SUFFICES ASSUME VerifiedInv, VerifiedInv', [Next]_vars PROVE AbsStep
    BY DEF AbsStep
  <2>1. CASE UNCHANGED vars
    <3>1. UNCHANGED <<sPc, sSum, rPc, rHash, toS, dest>>
      BY <2>1 DEF vars, sender, receiver, net
    <3>2. announcedBar' = announcedBar /\ verifiedBar' = verifiedBar
      BY <3>1 DEF announcedBar, verifiedBar, HasVerified
    <3> QED
      BY <3>1, <3>2, AbstractActions DEF AbsStep
  <2> QED
    BY <2>1, AbstractSender, AbstractReceiver, AbstractEnvironment DEF Next
<1> QED
  BY VerifiedInit, VerifiedStep, <1>1, <1>2, PTL DEF Spec, ImplementsVerifiedTransfer, Abstract!Spec
=============================================================================
