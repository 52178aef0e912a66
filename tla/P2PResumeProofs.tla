--------------------------- MODULE P2PResumeProofs ---------------------------
(***************************************************************************)
(* More about P2PTransfer for all contents, chunk sizes, windows and       *)
(* bounds: the two ends agree on the next chunk, the resume records follow *)
(* the temp files, what is resumed fits, and a receiver that ends without  *)
(* an error has stored the file.                                           *)
(***************************************************************************)
EXTENDS P2PTransferProofs

\* The receiver has taken a file_start and still takes chunks.
Accepted == {"create", "save", "saving", "ack", "recv"}
\* It takes messages of a file, the file_start included.
Open == Accepted \cup {"wait_start"}
\* Its answer to the file_start is still to come.
PreAck ==
  \/ rPc = "wait_start" /\ rId = NoFile
  \/ rPc \in {"create", "ack"}
  \/ rPc \in {"save", "saving"} /\ rNext = 0
\* The sender has not sent file_complete.
Early == {"stat", "start", "ack", "chunks", "complete"}

\* A receiver that waits for the file_start has that message to take first.
Ahead == IF rPc = "wait_start" THEN 1 ELSE 0
\* The number a chunk has if it is message i of the queue.
Number(i) == rNext + i - 1 - Ahead

-----------------------------------------------------------------------------
(* Messages.                                                               *)

\* The queue holds a file_start the receiver has not taken, chunks in order,
\* file_complete, the checksum.
Queue ==
  rPc \in Open =>
    \A i \in 1 .. Len(toR) :
      LET m == toR[i] IN
        /\ m.id = SenderId
        /\ m.type = "file_start" <=> i = 1 /\ rPc = "wait_start"
        /\ m.type = "file_start" => m.resume = sResume
        /\ m.type = "file_chunk" => m.index = Number(i)
        /\ m.type = "file_complete" =>
             sPc \notin Early /\ (i < Len(toR) => toR[i + 1].type = "file_checksum")
        /\ m.type = "file_checksum" => i > 1 /\ toR[i - 1].type = "file_complete"

\* A receiver that waits for the checksum gets nothing else.
SumNext ==
  rPc = "sum" => sPc \notin Early /\ (toR # <<>> => Head(toR).type = "file_checksum")

\* While nothing is lost, the sender's counter is that of the receiver after
\* what is under way.
Counters ==
  /\ sPc \in {"stat", "start", "ack"} => sPos = 0 /\ sIdx = 0
  /\ up /\ rPc \in Open =>
       /\ sPc \in {"chunks", "complete"} => sIdx = Number(Len(toR) + 1)
       /\ sPc = "checksum" => toR # <<>> /\ toR[Len(toR)].type = "file_complete"

\* The receiver handles the file the sender announced, as the sender asked.
SameFile == rPc \in Accepted => rId = SenderId /\ rAck = sResume /\ (rKeep => sResume)

\* The sender waits for the answer before it sends more, and the answer is where
\* the receiver is.
Handshake ==
  /\ (rPc = "wait_start" /\ rId = NoFile) \/ rPc = "create" => rNext = 0
  /\ PreAck /\ sResume => sPc \in {"stat", "start", "ack", "failed"} /\ Len(toR) <= Ahead
  /\ sPc = "ack" /\ rPc \in Open =>
       /\ sResume /\ Len(toR) <= Ahead
       /\ toS # <<>> => rPc = "recv" /\ StartOffset(Head(toS)) = rNext * FileChunkSize

\* The inductive invariant of the exchange of messages.
FlowInv == VerifiedInv /\ Queue /\ SumNext /\ Counters /\ SameFile /\ Handshake

-----------------------------------------------------------------------------
(* Data.                                                                   *)

\* The receiver has a temp file and appends to it, or has appended all.
Holding == {"save", "saving", "ack", "recv", "sum"}

\* As far as both go, the data is that of the source.
Agrees(data) == \A j \in 1 .. Len(data) : j <= Len(source) => data[j] = source[j]

\* n chunks were taken of the source: full ones, but for the last.
Taken(n) == n > 0 => (n - 1) * FileChunkSize < Len(source)

\* A record, and the temp file it names, belong to one file.
Owned ==
  /\ \A a, b \in FileIDs :
       stateFile[a].temp = stateFile[b].temp /\ stateFile[a].temp # NoTemp => a = b
  /\ rTmp # NoTemp => \A id \in FileIDs : stateFile[id].temp = rTmp => id = rId

\* No chunk is empty; those of a source that is not edited are its chunks.
Chunks ==
  \A i \in 1 .. Len(toR) :
    LET m == toR[i] IN
      /\ m.type = "file_chunk" => Len(m.chunk) >= 1
      /\ m.type = "file_checksum" /\ edits = 0 => m.checksum = Digest(source)
      /\ rPc \in Open /\ edits = 0 =>
           /\ m.type = "file_chunk" => /\ Number(i) * FileChunkSize < Len(source)
                                       /\ m.chunk = ChunkAt(source, Number(i) * FileChunkSize)
           /\ m.type = "file_complete" => Number(i) * FileChunkSize >= Len(source)

\* The sender has read the source as far as its counter says.
SenderAt ==
  edits = 0 =>
    /\ sPc \in {"ack", "chunks", "complete", "checksum"} => sSum = Digest(source)
    /\ up /\ rPc \in Open /\ sPc \in {"chunks", "complete"} =>
         \/ sPos = sIdx * FileChunkSize
         \/ sPos = Len(source) /\ Len(source) < sIdx * FileChunkSize
    /\ up /\ rPc \in Open /\ sPc = "complete" => sIdx * FileChunkSize >= Len(source)

\* What the receiver has is what it counted, and agrees with the source.
Held ==
  rPc \in Holding =>
    /\ rNext <= Len(rHash)
    /\ edits = 0 =>
         /\ Agrees(rHash) /\ Taken(rNext)
         /\ \/ Len(rHash) = rNext * FileChunkSize
            \/ Len(rHash) = Len(source) /\ Len(source) < rNext * FileChunkSize
         /\ rPc = "sum" => Len(rHash) >= Len(source)

\* A record counts no chunk its temp file lacks, and that file agrees with the
\* source.
Records ==
  \A id \in FileIDs :
    LET s == stateFile[id] IN
      s.st = "saved" /\ s.temp \in temps =>
        /\ s.next <= Len(temp[s.temp])
        /\ edits = 0 =>
             /\ Agrees(temp[s.temp]) /\ Taken(s.next)
             /\ Len(temp[s.temp]) >= s.next * FileChunkSize \/ Len(temp[s.temp]) >= Len(source)

\* The inductive invariant of the exchange and of the data.
DataInv == FlowInv /\ Owned /\ Chunks /\ SenderAt /\ Held /\ Records

-----------------------------------------------------------------------------
(* The end.                                                                *)

\* From the moment the destination is complete to the next session.
Stored ==
  /\ rId # NoFile => sPc \notin {"stat", "start"}
  /\ rPc = "cleanup" \/ (rPc \in {"wait_start", "ok"} /\ rId # NoFile) =>
       /\ Digest(rHash) = sSum
       /\ dest = [st |-> IF isArchive THEN "tree" ELSE "whole", data |-> rHash]

\* Without a fault a receiver that sent an ack fails only over an archive that is
\* none, and ends after a file it has taken.
AckKept ==
  Acked /\ faults = 0 =>
    \/ isArchive /\ rHash \notin Archives
    \/ rPc \notin {"failing", "failed"} /\ (rPc = "ok" => rId # NoFile)

-----------------------------------------------------------------------------
(* The two ends agree on the next message.                                 *)

USE ByteAssumption, ChunkAssumption, ContentsAssumption DEF FlowInv, VerifiedInv

\* A whole number of chunks divides evenly.
LEMMA WholeChunks ==
  ASSUME NEW n \in Nat
  PROVE  (n * FileChunkSize) \div FileChunkSize = n
<1> DEFINE F == FileChunkSize
           q == (n * F) \div F
           r == (n * F) % F
<1>1. q \in Int /\ r \in Int /\ n * F \in Int /\ q * F \in Int
  OBVIOUS
<1>2. n * F = q * F + r /\ 0 <= r /\ r < F
  OBVIOUS
<1>3. F \in Nat /\ F > 0
  OBVIOUS
<1> HIDE DEF F, q, r
<1>4. (n - q) * F = r
  BY <1>1, <1>2, <1>3
<1>5. ASSUME NEW k \in Int, k * F >= 0, k * F < F PROVE k = 0
  <2>1. CASE k >= 1
    <3>1. k * F >= 1 * F
      BY <1>3, <2>1
    <3> QED
      BY <1>3, <1>5, <3>1
  <2>2. CASE k <= -1
    <3>1. k * F <= (-1) * F
      BY <1>3, <2>2
    <3> QED
      BY <1>3, <1>5, <3>1
  <2> QED
    BY <2>1, <2>2
<1>6. n - q = 0
  BY <1>1, <1>2, <1>4, <1>5
<1> QED
  BY <1>1, <1>6 DEF F, q


\* The receiver's queue holds protocol messages; taking one, or losing the tail,
\* keeps the others.
LEMMA QueueFacts ==
  ASSUME Typed, Typed'
  PROVE  /\ Len(toR) \in Nat /\ Len(toR') \in Nat /\ toR \in Seq(ToReceiver)
         /\ \A i \in 1 .. Len(toR) :
              toR[i].type \in {"file_start", "file_chunk", "file_complete", "file_checksum"}
         /\ toR # <<>> => Len(toR) >= 1 /\ Head(toR) = toR[1]
         /\ toR' # <<>> => Len(toR') >= 1 /\ Head(toR') = toR'[1]
         /\ toR # <<>> /\ toR' = Tail(toR) =>
              Len(toR') = Len(toR) - 1 /\ \A i \in 1 .. Len(toR') : toR'[i] = toR[i + 1]
<1>1. toR \in Seq(ToReceiver) /\ toR' \in Seq(ToReceiver)
  BY DEF Typed, TypeOK
<1>2. Len(toR) \in Nat /\ Len(toR') \in Nat /\ \A i \in 1 .. Len(toR) : toR[i] \in ToReceiver
  BY <1>1, ElementOfSeq, LenProperties
<1>3. toR' # <<>> => Len(toR') >= 1 /\ Head(toR') = toR'[1]
  BY <1>1, HeadTailFacts
<1>4. toR # <<>> => /\ Len(toR) >= 1 /\ Head(toR) = toR[1]
                    /\ toR' = Tail(toR) =>
                         Len(toR') = Len(toR) - 1 /\ \A i \in 1 .. Len(toR') : toR'[i] = toR[i + 1]
  BY <1>1, HeadTailFacts
<1> QED
  BY <1>1, <1>2, <1>3, <1>4, ReceivedMessages

\* What the sender appends to the queue.
LEMMA AppendFacts ==
  ASSUME Typed, Typed', NEW m \in ToReceiver, toR' = Sent(toR, m)
  PROVE  /\ up => /\ Len(toR') = Len(toR) + 1 /\ toR'[Len(toR) + 1] = m
                  /\ \A i \in 1 .. Len(toR) : toR'[i] = toR[i]
         /\ ~up => toR' = toR
  BY AppendProperties DEF Typed, TypeOK, Sent

\* The receiver leaves the exchange of messages for good.
LEMMA FlowLeft ==
  ASSUME FlowInv, VerifiedInv', UNCHANGED sender, rPc' \notin Open \cup {"sum"}
  PROVE  FlowInv'
  BY DEF sender, Queue, SumNext, Counters, SameFile, Handshake, PreAck, Open, Accepted

\* The link, or an end of it, goes away.
LEMMA FlowShrinks ==
  ASSUME FlowInv, VerifiedInv', NetShrinks, up' = FALSE, sPc' \in {sPc, "ok", "failed"},
         sPc' = "ok" => sPc \notin Early \cup {"failed"},
         UNCHANGED <<sResume, sSize, sPos, sIdx, rPc, rId, rAck, rKeep, rNext>>
  PROVE  FlowInv'
<1>1. Queue'
  <2> SUFFICES ASSUME rPc \in Open, NEW i \in 1 .. Len(toR')
               PROVE  /\ toR'[i].id = SenderId
                      /\ toR'[i].type = "file_start" <=> i = 1 /\ rPc = "wait_start"
                      /\ toR'[i].type = "file_start" => toR'[i].resume = sResume
                      /\ toR'[i].type = "file_chunk" => toR'[i].index = Number(i)
                      /\ toR'[i].type = "file_complete" => sPc' \notin Early
                           /\ (i < Len(toR') => toR'[i + 1].type = "file_checksum")
                      /\ toR'[i].type = "file_checksum" =>
                           i > 1 /\ toR'[i - 1].type = "file_complete"
    BY DEF Queue, Number, Ahead, SenderId
  <2>1. i \in 1 .. Len(toR) /\ toR'[i] = toR[i] /\ (i > 1 => toR'[i - 1] = toR[i - 1])
    <3>1. Len(toR) \in Nat /\ Len(toR') \in Nat
      BY QueueFacts
    <3> QED
      BY <3>1 DEF NetShrinks
  <2>2. i < Len(toR') => i < Len(toR) /\ toR'[i + 1] = toR[i + 1]
    BY QueueFacts DEF NetShrinks
  <2> QED
    BY <2>1, <2>2 DEF Queue, Early
<1>2. SumNext'
  BY QueueFacts DEF SumNext, NetShrinks, Early
<1>3. Counters'
  BY DEF Counters
<1>4. SameFile'
  BY DEF SameFile, SenderId
<1>5. Handshake'
  <2>1. toS' # <<>> => toS # <<>> /\ Head(toS') = Head(toS)
    <3>1. toS \in Seq(ToSender) /\ toS' \in Seq(ToSender)
      BY DEF Typed, TypeOK
    <3>2. toS # <<>> => Head(toS) = toS[1]
      BY <3>1, HeadTailFacts
    <3>3. toS' # <<>> => Head(toS') = toS'[1] /\ Len(toS') >= 1
      BY <3>1, HeadTailFacts
    <3> QED
      BY <3>2, <3>3, QueueLengths DEF NetShrinks
  <2>2. Len(toR') <= Len(toR)
    BY DEF NetShrinks
  <2>3. Ahead' = Ahead /\ PreAck' = PreAck
    BY DEF Ahead, PreAck
  <2>4. Ahead \in Nat
    BY DEF Ahead
  <2> QED
    BY <2>1, <2>2, <2>3, <2>4, QueueFacts DEF Handshake, Early
<1> QED
  BY <1>1, <1>2, <1>3, <1>4, <1>5

\* Before it knows a file, the receiver has counted no chunk; once it has handled
\* one, the sender is past the announcement.
LEMMA WaitsForFirst ==
  ASSUME FlowInv, rPc = "wait_start", sPc \in Sending
  PROVE  rId = NoFile /\ rNext = 0
  BY DEF Handshake, VerifiedIsLast

\* The sender sends the next message of the file.
LEMMA FlowSends ==
  ASSUME FlowInv, VerifiedInv', NEW m \in ToReceiver, toR' = Sent(toR, m),
         sPc \in {"chunks", "complete", "checksum"}, m.id = SenderId,
         UNCHANGED <<sResume, sSize, up, toS, rPc, rId, rAck, rKeep, rNext>>,
         \/ sPc = "chunks" /\ sPc' = "chunks" /\ m.type = "file_chunk" /\ m.index = sIdx
              /\ sIdx' = sIdx + 1
         \/ sPc = "complete" /\ sPc' = "checksum" /\ m.type = "file_complete" /\ sIdx' = sIdx
         \/ sPc = "checksum" /\ sPc' = "verdict" /\ m.type = "file_checksum" /\ sIdx' = sIdx
  PROVE  FlowInv'
<1>1. /\ Len(toR) \in Nat /\ Len(toR') \in Nat /\ rNext \in Nat /\ sIdx \in Nat
      /\ toR # <<>> => Len(toR) >= 1 /\ Head(toR) = toR[1]
      /\ toR' # <<>> => Len(toR') >= 1 /\ Head(toR') = toR'[1]
  BY QueueFacts DEF Typed, TypeOK
<1>2. SenderId' = SenderId /\ Ahead' = Ahead /\ PreAck' = PreAck /\ \A i : Number(i)' = Number(i)
  BY DEF SenderId, Ahead, PreAck, Number
<1>3. /\ Ahead \in {0, 1} /\ \A i \in Nat : Number(i) = rNext + i - 1 - Ahead
      /\ rPc = "wait_start" => rNext = 0 /\ Ahead = 1
  BY WaitsForFirst DEF Ahead, Number, Sending
<1>4. CASE ~up
  <2>1. toR' = toR
    BY <1>4, AppendFacts
  <2> QED
    BY <1>2, <1>4, <2>1 DEF Queue, SumNext, Counters, SameFile, Handshake, Early
<1>5. CASE up
  <2>1. /\ Len(toR') = Len(toR) + 1 /\ toR'[Len(toR) + 1] = m
        /\ \A i \in 1 .. Len(toR) : toR'[i] = toR[i]
    BY <1>5, AppendFacts
  <2>2. rPc \in Open =>
          /\ sPc # "checksum" => sIdx = Number(Len(toR) + 1)
          /\ sPc = "checksum" => Len(toR) >= 1 /\ toR[Len(toR)].type = "file_complete"
    BY <1>1, <1>5 DEF Counters
  <2>3. rPc \in Open => Len(toR) >= 1 \/ rPc # "wait_start"
    BY <1>1, <1>3, <2>2
  <2>4. Queue'
    <3> SUFFICES ASSUME rPc \in Open, NEW i \in 1 .. Len(toR')
                 PROVE  /\ toR'[i].id = SenderId
                        /\ toR'[i].type = "file_start" <=> i = 1 /\ rPc = "wait_start"
                        /\ toR'[i].type = "file_start" => toR'[i].resume = sResume
                        /\ toR'[i].type = "file_chunk" => toR'[i].index = Number(i)
                        /\ toR'[i].type = "file_complete" => sPc' \notin Early
                             /\ (i < Len(toR') => toR'[i + 1].type = "file_checksum")
                        /\ toR'[i].type = "file_checksum" =>
                             i > 1 /\ toR'[i - 1].type = "file_complete"
      BY <1>2 DEF Queue
    <3>1. CASE i \in 1 .. Len(toR)
      <4>1. toR'[i] = toR[i] /\ (i > 1 => toR'[i - 1] = toR[i - 1])
        BY <1>1, <2>1, <3>1
      <4>2. i < Len(toR) => toR'[i + 1] = toR[i + 1]
        BY <1>1, <2>1, <3>1
      <4>3. i = Len(toR) => toR'[i + 1] = m
        BY <2>1
      <4>4. toR[i].type = "file_complete" => m.type = "file_checksum" /\ sPc' \notin Early
        BY <3>1 DEF Queue, Early
      <4> QED
        BY <1>1, <2>1, <3>1, <4>1, <4>2, <4>3, <4>4 DEF Queue
    <3>2. CASE i = Len(toR) + 1
      <4>1. toR'[i] = m /\ (Len(toR) >= 1 => toR'[i - 1] = toR[Len(toR)])
        BY <1>1, <2>1, <3>2
      <4>2. ~(i = 1 /\ rPc = "wait_start") /\ m.type # "file_start"
        BY <1>1, <2>3, <3>2
      <4> QED
        BY <1>1, <2>1, <2>2, <3>2, <4>1, <4>2 DEF Early
    <3> QED
      BY <1>1, <2>1, <3>1, <3>2
  <2>5. SumNext'
    BY <1>1, <2>1 DEF SumNext, Early
  <2>6. Counters'
    <3>1. sPc' = "chunks" /\ rPc \in Open => sIdx' = Number(Len(toR') + 1)
      BY <1>1, <1>3, <2>1, <2>2
    <3>2. sPc' = "checksum" => toR' # <<>> /\ toR'[Len(toR')].type = "file_complete"
      BY <1>1, <2>1, EmptySeq, LenProperties
    <3> QED
      BY <1>2, <3>1, <3>2 DEF Counters
  <2>7. SameFile' /\ Handshake'
    BY <1>2 DEF SameFile, Handshake
  <2> QED
    BY <2>4, <2>5, <2>6, <2>7
<1> QED
  BY <1>4, <1>5

\* The sender keeps to the protocol.
LEMMA FlowSender ==
  ASSUME FlowInv, VerifiedInv', SenderStep \/ SenderFault
  PROVE  FlowInv'
<1> USE DEF SenderUnchanged, receiver, net
<1>1. UNCHANGED <<rPc, rId, rAck, rKeep, rNext>>
  BY DEF SenderStep, SenderFault, SenderStat, SenderStart, SenderAck, SenderChunk, SenderEOF,
         SenderComplete, SenderChecksum, SenderVerdict, SenderLinkError
<1>2. SenderId \in FileIDs
  BY DEF SenderId, FileIDs, Typed, TypeOK
<1>3. CASE SenderStat
  <2>1. /\ sPc = "stat" /\ sPc' = "start" /\ UNCHANGED <<sResume, sPos, sIdx, up, toR, toS>>
        /\ toR = <<>> /\ Len(toR) = 0 /\ rPc \notin Accepted \cup {"sum"}
    BY <1>3, LenProperties DEF SenderStat, BeforeStart, Accepted
  <2> QED
    BY <1>1, <2>1 DEF Queue, SumNext, Counters, SameFile, Handshake, PreAck, Early, Ahead
<1>4. CASE SenderStart
  <2> DEFINE m == Start(SenderId, sResume)
  <2>1. /\ sPc = "start" /\ sPc' = IF sResume THEN "ack" ELSE "chunks"
        /\ UNCHANGED <<sResume, sSize, sPos, sIdx, up, toS>> /\ toR' = Sent(toR, m)
    BY <1>4 DEF SenderStart
  <2>2. /\ m \in ToReceiver /\ m.type = "file_start" /\ m.id = SenderId /\ m.resume = sResume
    BY <1>2 DEF Start, ToReceiver, Typed, TypeOK
  <2> HIDE DEF m
  <2>3. toR = <<>> /\ toS = <<>> /\ Len(toR) = 0 /\ sPos = 0 /\ sIdx = 0
    BY <2>1, LenProperties DEF BeforeStart, Counters
  <2>4. rPc \in {"idle", "wait_start", "ok", "failed"} /\ (rPc = "wait_start" => rNext = 0)
    BY <2>1, WaitsForFirst DEF BeforeStart, Sending
  <2>5. (toR' = toR /\ ~up) \/ (up /\ Len(toR') = 1 /\ toR'[1] = m)
    BY <2>1, <2>2, <2>3, AppendFacts
  <2>6. SenderId' = SenderId
    BY <2>1 DEF SenderId
  <2>7. Queue'
    BY <1>1, <2>1, <2>2, <2>3, <2>4, <2>5, <2>6 DEF Queue, Open, Accepted
  <2>8. rPc \in Open => rPc = "wait_start" /\ rNext = 0 /\ (~up => toR' = <<>>)
    BY <2>3, <2>4, <2>5 DEF Open, Accepted
  <2>9. Counters'
    <3>1. up /\ rPc \in Open => Number(Len(toR) + 1)' = 0
      BY <1>1, <2>5, <2>8 DEF Number, Ahead
    <3> QED
      BY <1>1, <2>1, <2>3, <3>1 DEF Counters
  <2>10. Handshake'
    <3>1. rPc \in Open => Ahead' = 1 /\ Len(toR') <= 1
      <4>1. rPc \in Open => Ahead' = 1
        BY <1>1, <2>8 DEF Ahead
      <4>2. Len(toR') \in Nat /\ (Len(toR') = 1 \/ Len(toR') = 0)
        <5>1. Len(toR') = 1 \/ Len(toR') = 0
          BY <2>3, <2>5, Zenon
        <5> QED
          BY <5>1
      <4>3. \A n \in Nat : n = 1 \/ n = 0 => n <= 1
        OBVIOUS
      <4> QED
        BY <4>1, <4>2, <4>3, Zenon
    <3>2. PreAck' => rPc \in Open
      BY <1>1, <2>4 DEF PreAck, Open, Accepted
    <3> QED
      BY <1>1, <2>1, <2>3, <2>4, <3>1, <3>2 DEF Handshake, Accepted
  <2>11. SumNext' /\ SameFile'
    BY <1>1, <2>4 DEF SumNext, SameFile, Accepted
  <2> QED
    BY <2>7, <2>9, <2>10, <2>11
<1>5. CASE SenderAck
  <2> DEFINE off == StartOffset(Head(toS))
  <2>1. /\ sPc = "ack" /\ sPc' = "chunks" /\ toS # <<>> /\ sIdx' = off \div FileChunkSize
        /\ UNCHANGED <<sResume, sSize, up, toR>>
    BY <1>5 DEF SenderAck, StartIndex
  <2>2. rPc \in Open => rPc = "recv" /\ off = rNext * FileChunkSize /\ Len(toR) <= 0
    BY <2>1 DEF Handshake, Ahead
  <2> HIDE DEF off
  <2>3. rPc \in Open => sIdx' = Number(Len(toR) + 1)
    <3>1. rNext \in Nat /\ Len(toR) \in Nat
      BY QueueFacts DEF Typed, TypeOK
    <3>2. (rNext * FileChunkSize) \div FileChunkSize = rNext
      BY <3>1, WholeChunks
    <3> QED
      BY <2>1, <2>2, <3>1, <3>2 DEF Number, Ahead
  <2>4. PreAck => rPc \in Open /\ rPc # "recv"
    BY DEF PreAck, Open, Accepted
  <2>5. SenderId' = SenderId /\ Ahead' = Ahead /\ PreAck' = PreAck /\ \A i : Number(i)' = Number(i)
    BY <1>1, <2>1 DEF SenderId, Ahead, PreAck, Number
  <2> QED
    BY <1>1, <2>1, <2>2, <2>3, <2>4, <2>5 DEF Queue, SumNext, Counters, SameFile, Handshake, Early
<1>6. CASE SenderChunk
  <2> DEFINE m == Chunk(SenderId, sIdx, ChunkAt(source, sPos))
  <2>1. m \in ToReceiver /\ m.type = "file_chunk" /\ m.id = SenderId /\ m.index = sIdx
    <3>1. ChunkAt(source, sPos) \in Seq(Byte)
      BY <1>6, ChunkType DEF SenderChunk, Typed, TypeOK
    <3> QED
      BY <1>2, <3>1 DEF Chunk, ToReceiver, Typed, TypeOK
  <2>2. sPc = "chunks" /\ sPc' = "chunks" /\ toR' = Sent(toR, m) /\ sIdx' = sIdx + 1
    BY <1>6 DEF SenderChunk
  <2>3. UNCHANGED <<sResume, sSize, up, toS>>
    BY <1>6 DEF SenderChunk
  <2> HIDE DEF m
  <2> QED
    BY <1>1, <2>1, <2>2, <2>3, FlowSends
<1>7. CASE SenderEOF
  <2>1. sPc = "chunks" /\ sPc' = "complete" /\ UNCHANGED <<sResume, sSize, sIdx, up, toR, toS>>
    BY <1>7 DEF SenderEOF
  <2> QED
    BY <1>1, <2>1 DEF Queue, SumNext, Counters, SameFile, Handshake, Early, PreAck, Ahead, Number,
                      SenderId
<1>8. CASE SenderComplete
  <2> DEFINE m == Complete(SenderId)
  <2>1. m \in ToReceiver /\ m.type = "file_complete" /\ m.id = SenderId
    BY <1>2 DEF Complete, ToReceiver
  <2>2. /\ sPc = "complete" /\ sPc' = "checksum" /\ toR' = Sent(toR, m)
        /\ UNCHANGED <<sResume, sSize, sIdx, up, toS>>
    BY <1>8 DEF SenderComplete
  <2> HIDE DEF m
  <2> QED
    BY <1>1, <2>1, <2>2, FlowSends
<1>9. CASE SenderChecksum
  <2> DEFINE m == Checksum(SenderId, sSum)
  <2>1. m \in ToReceiver /\ m.type = "file_checksum" /\ m.id = SenderId
    BY <1>2 DEF Checksum, ToReceiver, Typed, TypeOK
  <2>2. /\ sPc = "checksum" /\ sPc' = "verdict" /\ toR' = Sent(toR, m)
        /\ UNCHANGED <<sResume, sSize, sIdx, up, toS>>
    BY <1>9 DEF SenderChecksum
  <2> HIDE DEF m
  <2> QED
    BY <1>1, <2>1, <2>2, FlowSends
<1>10. CASE SenderVerdict \/ SenderLinkError \/ SenderFault
  <2>1. /\ SenderHangsUp /\ sPc' \in {"ok", "failed"} /\ (sPc' = "ok" => sPc = "verdict")
        /\ UNCHANGED <<sResume, sSize, sPos, sIdx>>
    BY <1>10 DEF SenderVerdict, Verdict, SenderLinkError, SenderFault
  <2>2. NetShrinks
    BY <2>1, ShrinkFacts DEF SenderHangsUp
  <2> QED
    BY <1>1, <2>1, <2>2, FlowShrinks DEF SenderHangsUp, Early
<1> QED
  BY <1>3, <1>4, <1>5, <1>6, <1>7, <1>8, <1>9, <1>10 DEF SenderStep

\* What the receiver finds at the head of the queue.
LEMMA NextMessage ==
  ASSUME FlowInv, toR # <<>>, rPc \in Open
  PROVE  /\ Head(toR).id = SenderId
         /\ Head(toR).type \in {"file_start", "file_chunk", "file_complete"}
         /\ Head(toR).type = "file_start" <=> rPc = "wait_start"
         /\ Head(toR).type = "file_start" => Head(toR).resume = sResume
         /\ Head(toR).type = "file_chunk" => Head(toR).index = rNext
         /\ Head(toR).type = "file_complete" => sPc \notin Early
         /\ Head(toR).type = "file_complete" /\ Tail(toR) # <<>> =>
              Head(Tail(toR)).type = "file_checksum"
<1>1. toR \in Seq(ToReceiver)
  BY DEF Typed, TypeOK
<1>2. /\ Len(toR) \in Nat /\ Len(toR) >= 1 /\ Head(toR) = toR[1] /\ toR[1] \in ToReceiver
      /\ Tail(toR) # <<>> => Len(toR) > 1 /\ Head(Tail(toR)) = toR[2]
  <2>1. /\ Head(toR) \in ToReceiver /\ Head(toR) = toR[1] /\ Tail(toR) \in Seq(ToReceiver)
        /\ Len(toR) >= 1 /\ Len(Tail(toR)) = Len(toR) - 1 /\ Len(toR) \in Nat
        /\ \A i \in 1 .. Len(Tail(toR)) : Tail(toR)[i] = toR[i + 1]
    BY <1>1, HeadTailFacts, LenProperties
  <2>2. Tail(toR) # <<>> => Len(Tail(toR)) >= 1 /\ Head(Tail(toR)) = Tail(toR)[1]
    BY <2>1, HeadTailFacts
  <2> QED
    BY <2>1, <2>2
<1>3. toR[1].type \in {"file_start", "file_chunk", "file_complete", "file_checksum"}
  BY <1>2, ReceivedMessages
<1>4. rNext \in Nat
  BY DEF Typed, TypeOK
<1>5. Number(1) = rNext - Ahead
  BY <1>4 DEF Number, Ahead
<1>6. rPc # "wait_start" => Ahead = 0
  BY DEF Ahead
<1> QED
  BY <1>2, <1>3, <1>4, <1>5, <1>6 DEF Queue

\* The receiver takes a message and goes on with the file: what is left follows.
LEMMA FlowTakes ==
  ASSUME FlowInv, VerifiedInv', toR # <<>>, toR' = Tail(toR), UNCHANGED <<sender, up, toS>>,
         rPc \in Open, rPc' \in Accepted, Head(toR).type # "file_complete",
         Len(toR') = 0 \/ rNext' = (IF rPc = "wait_start" THEN rNext ELSE rNext + 1),
         sPc \notin {"chunks", "complete", "checksum"}
           \/ rNext' = (IF rPc = "wait_start" THEN rNext ELSE rNext + 1)
  PROVE  Queue' /\ SumNext' /\ Counters'
<1>1. /\ Len(toR) \in Nat /\ Len(toR') \in Nat /\ Len(toR) >= 1 /\ Len(toR') = Len(toR) - 1
      /\ Head(toR) = toR[1] /\ \A i \in 1 .. Len(toR') : toR'[i] = toR[i + 1]
  BY QueueFacts
<1>2. rNext \in Nat /\ rNext' \in Nat
  BY DEF Typed, TypeOK
<1>3. SenderId' = SenderId /\ sPc' = sPc /\ sResume' = sResume /\ sIdx' = sIdx /\ sPos' = sPos
  BY DEF SenderId, sender
<1>4. Ahead' = 0 /\ rPc' # "wait_start" /\ rPc' # "sum"
  BY DEF Ahead, Accepted
<1>5. ASSUME NEW i \in Nat, rNext' = (IF rPc = "wait_start" THEN rNext ELSE rNext + 1)
      PROVE  Number(i)' = Number(i + 1)
  BY <1>2, <1>4, <1>5 DEF Number, Ahead
<1>6. Queue'
  <2> SUFFICES ASSUME NEW i \in 1 .. Len(toR')
               PROVE  /\ toR'[i].id = SenderId
                      /\ toR'[i].type # "file_start"
                      /\ toR'[i].type = "file_chunk" => toR'[i].index = Number(i)'
                      /\ toR'[i].type = "file_complete" => sPc \notin Early
                           /\ (i < Len(toR') => toR'[i + 1].type = "file_checksum")
                      /\ toR'[i].type = "file_checksum" =>
                           i > 1 /\ toR'[i - 1].type = "file_complete"
    BY <1>3, <1>4 DEF Queue
  <2>1. /\ i + 1 \in 1 .. Len(toR) /\ toR'[i] = toR[i + 1] /\ i \in Nat /\ i >= 1
        /\ i < Len(toR') => toR'[i + 1] = toR[i + 2]
        /\ i > 1 => toR'[i - 1] = toR[i]
    BY <1>1
  <2>2. Number(i)' = Number(i + 1)
    <3>1. Len(toR') # 0
      BY <1>1, <2>1
    <3> QED
      BY <1>5, <2>1, <3>1
  <2>3. /\ toR[i + 1].id = SenderId
        /\ toR[i + 1].type # "file_start"
        /\ toR[i + 1].type = "file_chunk" => toR[i + 1].index = Number(i + 1)
        /\ toR[i + 1].type = "file_complete" => sPc \notin Early
             /\ (i + 1 < Len(toR) => toR[i + 1 + 1].type = "file_checksum")
        /\ toR[i + 1].type = "file_checksum" => toR[i + 1 - 1].type = "file_complete"
    BY <2>1 DEF Queue
  <2>4. toR[i + 1].type = "file_checksum" => i > 1
    BY <1>1, <2>1, <2>3
  <2> QED
    BY <1>1, <2>1, <2>2, <2>3, <2>4
<1>7. Counters'
  <2>1. up' /\ sPc \in {"chunks", "complete"} => sIdx = Number(Len(toR) + 1)
    BY DEF Counters
  <2>3. up' /\ sPc = "checksum" => Len(toR') >= 1 /\ toR'[Len(toR')].type = "file_complete"
    <3>1. up' /\ sPc = "checksum" => toR[Len(toR)].type = "file_complete"
      BY DEF Counters
    <3>2. up' /\ sPc = "checksum" => Len(toR) > 1
      BY <1>1, <3>1
    <3> QED
      BY <1>1, <3>1, <3>2
  <2>5. Len(toR') >= 1 => toR' # <<>>
    <3>1. toR' = <<>> => Len(toR') = 0
      BY LenProperties
    <3> QED
      BY <1>1, <3>1
  <2>6. sPc \in {"chunks", "complete"} /\ up' => sIdx' = (rNext + Len(toR) + 1 - 1 - Ahead)
    BY <1>1, <1>2, <1>3, <2>1 DEF Number, Ahead
  <2>7. sPc \in {"chunks", "complete"} => rNext' = (IF rPc = "wait_start" THEN rNext ELSE rNext + 1)
    OBVIOUS
  <2>8. sPc \in {"chunks", "complete"} /\ up' => sIdx' = rNext' + (Len(toR') + 1) - 1 - Ahead'
    BY <1>1, <1>2, <1>4, <2>6, <2>7 DEF Ahead
  <2> QED
    BY <1>3, <2>3, <2>5, <2>8 DEF Counters, Number
<1>8. SumNext'
  BY <1>4 DEF SumNext
<1> QED
  BY <1>6, <1>7, <1>8

\* The receiver keeps to the protocol.
LEMMA FlowReceiver ==
  ASSUME FlowInv, VerifiedInv', ReceiverStep \/ StateFault \/ ReceiverFault \/ ReceiverCrash
  PROVE  FlowInv'
<1> USE DEF ReceiverUnchanged, disk, net
<1>1. UNCHANGED sender
  BY DEF ReceiverStep, StateFault, ReceiverFault, ReceiverCrash, ReceiveStartResume,
         ReceiveStartFresh, ReceiveEOF, CreateTemp, SaveTruncate, SaveWrite, AckResume,
         ReceiveChunk, ReceiveComplete, ReceiveChecksum, SendSum, DeleteState, Rename,
         OpenDest, WriteDest, Cleanup, ReceiverLinkError, Unwind
<1>2. /\ SenderId' = SenderId /\ UNCHANGED <<sPc, sResume, sPos, sIdx>>
      /\ sResume \in BOOLEAN /\ rNext \in Nat /\ rNext' \in Nat
  BY <1>1 DEF sender, SenderId, Typed, TypeOK
<1>3. /\ Len(toR) \in Nat /\ Len(toR') \in Nat
      /\ toR # <<>> => Len(toR) >= 1
      /\ toR # <<>> /\ toR' = Tail(toR) => Len(toR') = Len(toR) - 1
      /\ toR' # <<>> => Len(toR') >= 1
  BY QueueFacts
<1>4. CASE ReceiveStartResume
  <2> DEFINE m == Head(toR)
  <2>1. /\ rPc = "wait_start" /\ toR # <<>> /\ m.type = "file_start" /\ Resumable(m)
        /\ rId' = m.id /\ rAck' = m.resume /\ rPc' = "ack" /\ toR' = Tail(toR)
        /\ UNCHANGED <<up, toS>>
    BY <1>4 DEF ReceiveStartResume
  <2>2. m.id = SenderId /\ m.resume = sResume /\ sResume
    BY <2>1, NextMessage DEF Open, Resumable
  <2>3. rId = NoFile
    BY <2>1 DEF VerifiedIsLast
  <2>4. sPc \in {"ack", "failed"} /\ Len(toR') = 0
    <3>1. sPc \in {"stat", "start", "ack", "failed"} /\ Len(toR) <= 1
      BY <2>1, <2>2, <2>3 DEF Handshake, PreAck, Ahead
    <3>2. sPc \notin {"stat", "start"}
      BY <2>1 DEF BeforeStart
    <3>3. Len(toR') = 0
      <4>1. Len(toR) >= 1 /\ Len(toR') = Len(toR) - 1
        BY <1>3, <2>1
      <4> QED
        BY <1>3, <3>1, <4>1
    <3> QED
      BY <3>1, <3>2, <3>3
  <2>5. sPc = "ack" => toS = <<>>
    BY <2>1 DEF Handshake, Open
  <2> HIDE DEF m
  <2>6. Queue' /\ SumNext' /\ Counters'
    <3>1. m.type # "file_complete"
      BY <2>1
    <3> QED
      BY <1>1, <2>1, <2>4, <3>1, FlowTakes DEF Open, Accepted, m
  <2>7. SameFile'
    BY <1>2, <2>1, <2>2 DEF SameFile
  <2>8. Handshake'
    <3>1. Len(toR') <= Ahead'
      <4>1. Ahead' = 0
        BY <2>1 DEF Ahead
      <4>2. Len(toR') = 0
        BY <2>4
      <4>3. 0 <= 0
        OBVIOUS
      <4> QED
        BY <4>1, <4>2, <4>3, Zenon
    <3>2. sResume' /\ (sPc' = "ack" => toS' = <<>>) /\ sPc' \in {"ack", "failed"}
      BY <1>2, <2>1, <2>2, <2>4, <2>5
    <3> QED
      BY <2>1, <3>1, <3>2 DEF Handshake
  <2> QED
    BY <2>6, <2>7, <2>8
<1>5. CASE ReceiveStartFresh
  <2> DEFINE m == Head(toR)
  <2>1. /\ rPc = "wait_start" /\ toR # <<>> /\ toR' = Tail(toR) /\ UNCHANGED <<up, toS, rNext>>
        /\ m.type = "file_start" =>
             rPc' = "create" /\ rId' = m.id /\ rAck' = m.resume /\ rKeep' = Resumable(m)
    BY <1>5 DEF ReceiveStartFresh
  <2>2. m.id = SenderId /\ m.resume = sResume /\ m.type = "file_start"
    BY <2>1, NextMessage DEF Open
  <2>3. rId = NoFile /\ rNext = 0
    BY <2>1 DEF VerifiedIsLast, Handshake
  <2>4. rKeep' => sResume
    BY <2>1, <2>2 DEF Resumable
  <2> HIDE DEF m
  <2>5. Queue' /\ SumNext' /\ Counters'
    <3>1. m.type # "file_complete"
      BY <2>2
    <3> QED
      BY <1>1, <2>1, <2>2, <3>1, FlowTakes DEF Open, Accepted, m
  <2>6. SameFile'
    BY <1>2, <2>1, <2>2, <2>4 DEF SameFile
  <2>7. Ahead = 1 /\ Ahead' = 0 /\ PreAck
    BY <2>1, <2>2, <2>3 DEF Ahead, PreAck
  <2>8. Handshake'
    BY <1>2, <1>3, <2>1, <2>2, <2>3, <2>7 DEF Handshake, Open, Accepted
  <2> QED
    BY <2>5, <2>6, <2>8
\* Steps that leave the queue alone and go on with the file.
<1>6. ASSUME UNCHANGED <<up, toR, rNext, rId, rAck, rKeep>>, rPc' \in Accepted,
             rPc \in Accepted, PreAck' => PreAck, rPc' = "create" => rPc = "create",
             sPc = "ack" /\ toS' # <<>> =>
               rPc' = "recv" /\ StartOffset(Head(toS')) = rNext * FileChunkSize
      PROVE  FlowInv'
  <2>1. Ahead' = 0 /\ Ahead = 0 /\ rPc' # "wait_start" /\ rPc # "wait_start" /\ rPc' # "sum"
    BY <1>6 DEF Ahead, Accepted
  <2>2. Queue' /\ Counters' /\ SumNext' /\ SameFile'
    BY <1>2, <1>6, <2>1 DEF Queue, Counters, SumNext, SameFile, Number, Open
  <2>3. Handshake'
    BY <1>2, <1>6, <2>1 DEF Handshake, Open
  <2> QED
    BY <2>2, <2>3
<1>7. CASE CreateTemp
  <2>1. /\ rPc = "create" /\ rPc' \in {"save", "ack"} /\ rNext' = 0
        /\ UNCHANGED <<up, toR, toS, rId, rAck, rKeep>>
    BY <1>7 DEF CreateTemp
  <2>2. rNext = 0 /\ (sPc = "ack" => toS = <<>>) /\ PreAck
    BY <2>1 DEF Handshake, Open, Accepted, PreAck
  <2> QED
    BY <1>6, <2>1, <2>2 DEF Accepted
<1>8. CASE SaveTruncate \/ SaveWrite \/ (StateFault /\ rPc # "delete")
  <2>1. /\ rPc \in {"save", "saving"} /\ UNCHANGED <<up, toR, toS, rNext, rId, rAck, rKeep>>
        /\ rPc' \in {"saving", "ack", "recv"} /\ (rPc' = "ack" => rNext = 0)
    BY <1>8 DEF SaveTruncate, SaveWrite, StateFault, AfterSave
  <2>2. sPc = "ack" => toS = <<>>
    BY <2>1 DEF Handshake, Open, Accepted
  <2>3. PreAck' => PreAck
    BY <2>1 DEF PreAck
  <2> QED
    BY <1>6, <2>1, <2>2, <2>3 DEF Accepted
<1>9. CASE AckResume
  <2> DEFINE m == IF rNext > 0 THEN FileResume(rId, rNext * FileChunkSize) ELSE Ready
  <2>1. /\ rPc = "ack" /\ rPc' = "recv" /\ UNCHANGED <<up, toR, rNext, rId, rAck, rKeep>>
        /\ toS' = IF rAck THEN Sent(toS, m) ELSE toS
    BY <1>9 DEF AckResume
  <2>2. m \in ToSender /\ StartOffset(m) = rNext * FileChunkSize
    <3>1. rId \in FileIDs /\ rNext * FileChunkSize \in Nat
      BY <1>2, <2>1, OffsetFacts DEF Typed
    <3>2. rNext = 0 => rNext * FileChunkSize = 0
      OBVIOUS
    <3> QED
      BY <1>2, <3>1, <3>2 DEF StartOffset, FileResume, Ready, ToSender
  <2> HIDE DEF m
  <2>3. sPc = "ack" /\ toS' # <<>> => StartOffset(Head(toS')) = rNext * FileChunkSize
    <3>1. SUFFICES ASSUME sPc = "ack", toS' # <<>> PROVE Head(toS') = m
      BY <2>2
    <3>2. toS = <<>>
      BY <2>1, <3>1 DEF Handshake, Open, Accepted
    <3>3. toS' = Append(<<>>, m)
      BY <2>1, <3>1, <3>2 DEF Sent
    <3> QED
      BY <3>3
  <2>4. ~PreAck'
    BY <2>1 DEF PreAck
  <2> QED
    BY <1>6, <2>1, <2>3, <2>4 DEF Accepted
<1>10. CASE ReceiveChunk
  <2> DEFINE m == Head(toR)
  <2>1. /\ rPc = "recv" /\ toR # <<>> /\ m.type = "file_chunk" /\ toR' = Tail(toR)
        /\ UNCHANGED <<up, toS, rId, rAck, rKeep>>
        /\ Expected(m) => rNext' = rNext + 1 /\ rPc' \in {"save", "recv"}
    BY <1>10 DEF ReceiveChunk
  <2>2. Expected(m)
    BY <2>1, NextMessage DEF SameFile, Expected, Open, Accepted
  <2> HIDE DEF m
  <2>3. Queue' /\ SumNext' /\ Counters'
    <3>1. m.type # "file_complete"
      BY <2>1
    <3> QED
      BY <1>1, <2>1, <2>2, <3>1, FlowTakes DEF Open, Accepted, m
  <2>4. SameFile'
    BY <1>2, <2>1, <2>2 DEF SameFile, Accepted
  <2>5. sPc # "ack"
    BY <1>3, <2>1 DEF Handshake, Open, Accepted, Ahead
  <2>6. Handshake'
    BY <1>2, <2>1, <2>2, <2>5 DEF Handshake, PreAck
  <2> QED
    BY <2>3, <2>4, <2>6
<1>11. CASE ReceiveComplete
  <2>1. /\ rPc = "recv" /\ toR # <<>> /\ toR' = Tail(toR) /\ rPc' \in {"sum", "failing"}
        /\ UNCHANGED <<up, toS, rId, rAck, rKeep>>
        /\ rPc' = "sum" => Head(toR).type = "file_complete"
    BY <1>11 DEF ReceiveComplete
  <2>2. CASE rPc' = "failing"
    BY <1>1, <2>2, FlowLeft DEF Open, Accepted
  <2>3. CASE rPc' = "sum"
    <3>1. SumNext'
      BY <1>2, <2>1, <2>3, NextMessage DEF SumNext, Open, Accepted
    <3> QED
      BY <1>2, <2>3, <3>1 DEF Queue, Counters, SameFile, Handshake, Open, Accepted, PreAck
  <2> QED
    BY <2>1, <2>2, <2>3
<1>12. CASE Cleanup
  <2>1. rPc = "cleanup" /\ rPc' = "wait_start" /\ UNCHANGED <<up, toR, toS, rId>>
    BY <1>12 DEF Cleanup
  <2>2. rId # NoFile
    BY <2>1, IdAssumption, LenProperties DEF Typed, TypeOK, FileIDs
  <2>3. toR = <<>> /\ sPc \notin Sending
    BY <2>1 DEF VerifiedIsLast, Verified
  <2>4. Len(toR') = 0
    BY <2>1, <2>3, LenProperties
  <2> QED
    BY <1>2, <2>1, <2>2, <2>3, <2>4
    DEF Queue, SumNext, Counters, SameFile, Handshake, PreAck, Accepted, Sending
<1>13. CASE \/ ReceiveEOF \/ ReceiveChecksum \/ SendSum \/ DeleteState \/ Rename \/ OpenDest
            \/ WriteDest \/ ReceiverLinkError \/ Unwind \/ ReceiverFault \/ ReceiverCrash
            \/ (StateFault /\ rPc = "delete")
  <2>1. rPc' \notin Open \cup {"sum"}
    BY <1>13 DEF ReceiveEOF, ReceiveChecksum, SendSum, DeleteState, Rename, OpenDest, WriteDest,
                 ReceiverLinkError, Unwind, ReceiverFault, ReceiverCrash, StateFault, Open, Accepted
  <2> QED
    BY <1>1, <2>1, FlowLeft
<1>14. CASE StateFault
  BY <1>8, <1>13, <1>14
<1>15. CASE ReceiverFault \/ ReceiverCrash
  BY <1>13, <1>15
<1>16. CASE ReceiverStep
  BY <1>4, <1>5, <1>7, <1>8, <1>9, <1>10, <1>11, <1>12, <1>13, <1>16 DEF ReceiverStep
<1> QED
  BY <1>14, <1>15, <1>16

\* The environment lets both ends keep to the protocol.
LEMMA FlowEnvironment ==
  ASSUME FlowInv, VerifiedInv',
         \/ LinkLoss
         \/ \E sr, rr \in BOOLEAN : Connect(sr, rr)
         \/ \E c \in Contents : EditSource(c)
         \/ \E t \in Temps : ReapTemp(t)
  PROVE  FlowInv'
<1> USE DEF disk, sender, receiver, net
<1>1. CASE LinkLoss
  <2>1. NetShrinks /\ up' = FALSE
    BY <1>1, ShrinkFacts DEF LinkLoss
  <2> QED
    BY <1>1, <2>1, FlowShrinks DEF LinkLoss, Early
<1>2. ASSUME NEW sr \in BOOLEAN, NEW rr \in BOOLEAN, Connect(sr, rr)
      PROVE  FlowInv'
  <2>1. /\ sPc' = "stat" /\ sPos' = 0 /\ sIdx' = 0 /\ rPc' = "wait_start" /\ rNext' = 0
        /\ toR' = <<>> /\ toS' = <<>> /\ Len(toR') = 0
    BY <1>2, LenProperties DEF Connect, SenderBegins, ReceiverBegins
  <2> QED
    BY <2>1 DEF Queue, SumNext, Counters, SameFile, Handshake, Accepted, Early, Ahead
<1>3. ASSUME \/ \E c \in Contents : EditSource(c)
             \/ \E t \in Temps : ReapTemp(t)
      PROVE  FlowInv'
  <2>1. UNCHANGED <<sender, receiver, net>>
    BY <1>3 DEF EditSource, ReapTemp
  <2> QED
    BY <2>1 DEF Queue, SumNext, Counters, SameFile, Handshake, SenderId, PreAck, Ahead, Number
<1> QED
  BY <1>1, <1>2, <1>3

\* Initially neither end runs.
LEMMA FlowInit == Init => FlowInv
  BY VerifiedInit DEF Init, Queue, SumNext, Counters, SameFile, Handshake, Open, Accepted, PreAck

\* The invariant is inductive.
LEMMA FlowStep == FlowInv /\ [Next]_vars => FlowInv'
<1> SUFFICES ASSUME FlowInv, [Next]_vars PROVE FlowInv'
  OBVIOUS
<1>1. VerifiedInv'
  BY VerifiedStep
<1>2. CASE UNCHANGED vars
  BY <1>1, <1>2 DEF vars, sender, receiver, net, Queue, SumNext, Counters, SameFile, Handshake,
                    SenderId, PreAck, Ahead, Number
<1> QED
  BY <1>1, <1>2, FlowSender, FlowReceiver, FlowEnvironment DEF Next

\* No chunk, and no other message, ever surprises the receiver.
THEOREM InProtocol == Spec => []NoProtocolError
<1>1. FlowInv => NoProtocolError
  BY NextMessage DEF NoProtocolError, SameFile, Expected, Open, Accepted
<1> QED
  BY FlowInit, FlowStep, <1>1, PTL DEF Spec

-----------------------------------------------------------------------------
(* Data.                                                                   *)

\* What one Read returns: the bytes at the offset, as many as fit.
LEMMA ChunkFacts ==
  ASSUME NEW d \in Seq(Byte), NEW pos \in Nat, pos < Len(d)
  PROVE  /\ ChunkAt(d, pos) \in Seq(Byte)
         /\ Len(ChunkAt(d, pos)) =
              IF pos + FileChunkSize < Len(d) THEN FileChunkSize ELSE Len(d) - pos
         /\ Len(ChunkAt(d, pos)) >= 1
         /\ \A j \in 1 .. Len(ChunkAt(d, pos)) : ChunkAt(d, pos)[j] = d[pos + j]
<1> DEFINE e == IF pos + FileChunkSize < Len(d) THEN pos + FileChunkSize ELSE Len(d)
           c == SubSeq(d, pos + 1, e)
<1>1. Len(d) \in Nat
  BY LenProperties
<1>2. e \in Nat /\ e <= Len(d) /\ pos + 1 <= e /\ pos + 1 \in 1 .. Len(d) + 1 /\ e \in pos .. Len(d)
  BY <1>1
<1> HIDE DEF e
<1>3. c \in Seq(Byte) /\ Len(c) = e - pos /\ \A j \in 1 .. e - pos : c[j] = d[pos + j]
  <2>1. c \in Seq(Byte) /\ Len(c) = (IF pos + 1 <= e THEN e - (pos + 1) + 1 ELSE 0)
        /\ \A j \in 1 .. e - (pos + 1) + 1 : c[j] = d[pos + 1 + j - 1]
    BY <1>1, <1>2, SubSeqProperties
  <2>2. e - (pos + 1) + 1 = e - pos /\ \A j \in 1 .. e - pos : pos + 1 + j - 1 = pos + j
    BY <1>2
  <2> QED
    BY <1>2, <2>1, <2>2
<1>4. ChunkAt(d, pos) = c
  BY DEF ChunkAt, e
<1>5. e - pos = IF pos + FileChunkSize < Len(d) THEN FileChunkSize ELSE Len(d) - pos
  BY <1>1 DEF e
<1> HIDE DEF c
<1> QED
  BY <1>1, <1>2, <1>3, <1>4, <1>5

\* Data that agrees with the source still does with more of the source appended.
LEMMA AgreesAppended ==
  ASSUME source \in Seq(Byte), NEW d \in Seq(Byte), Agrees(d), NEW c \in Seq(Byte),
         \A j \in 1 .. Len(c) : c[j] = source[Len(d) + j]
  PROVE  d \o c \in Seq(Byte) /\ Len(d \o c) = Len(d) + Len(c) /\ Agrees(d \o c)
<1>1. /\ d \o c \in Seq(Byte) /\ Len(d \o c) = Len(d) + Len(c)
      /\ Len(d) \in Nat /\ Len(c) \in Nat
      /\ \A i \in 1 .. Len(d) + Len(c) : (d \o c)[i] = IF i <= Len(d) THEN d[i] ELSE c[i - Len(d)]
  BY ConcatProperties, LenProperties
<1>2. ASSUME NEW i \in 1 .. Len(d \o c), i <= Len(source) PROVE (d \o c)[i] = source[i]
  <2>1. CASE i <= Len(d)
    BY <1>1, <1>2, <2>1 DEF Agrees
  <2>2. CASE i > Len(d)
    <3>1. i - Len(d) \in 1 .. Len(c) /\ Len(d) + (i - Len(d)) = i
      BY <1>1, <2>2
    <3>2. c[i - Len(d)] = source[i]
      BY <3>1
    <3> QED
      BY <1>1, <2>2, <3>2
  <2> QED
    BY <1>1, <2>1, <2>2
<1> QED
  BY <1>1, <1>2 DEF Agrees

\* So does what a Truncate makes of it, if no zero gets in before the source ends.
LEMMA AgreesResized ==
  ASSUME source \in Seq(Byte), NEW d \in Seq(Byte), NEW n \in Nat, Agrees(d),
         Len(d) >= n \/ Len(d) >= Len(source)
  PROVE  Agrees(Resize(d, n))
<1>1. Len(Resize(d, n)) = n /\ Len(d) \in Nat /\ Len(source) \in Nat
  BY DataTypes, LenProperties
<1>2. ASSUME NEW i \in 1 .. n, i <= Len(source) PROVE Resize(d, n)[i] = source[i]
  <2>1. i \in 1 .. Len(d) /\ Resize(d, n)[i] = IF i <= Len(d) THEN d[i] ELSE Zero
    BY <1>1, <1>2 DEF Resize
  <2> QED
    BY <1>2, <2>1 DEF Agrees
<1> QED
  BY <1>1, <1>2 DEF Agrees

\* Multiples of the chunk size.
LEMMA ChunkCounts ==
  ASSUME NEW n \in Nat
  PROVE  /\ n * FileChunkSize \in Nat /\ n <= n * FileChunkSize
         /\ (n + 1) * FileChunkSize = n * FileChunkSize + FileChunkSize
         /\ n > 0 => (n - 1) * FileChunkSize = n * FileChunkSize - FileChunkSize
         /\ FileChunkSize \in Nat /\ FileChunkSize > 0
<1> DEFINE F == FileChunkSize
<1>1. F \in Nat /\ F > 0
  OBVIOUS
<1> HIDE DEF F
<1>2. n * F \in Nat /\ (n + 1) * F = n * F + F /\ (n - 1) * F = n * F - F
  BY <1>1
<1>3. n * 1 <= n * F
  BY <1>1
<1> QED
  BY <1>1, <1>2, <1>3 DEF F

\* What leaves no remainder is a multiple.
LEMMA Multiples ==
  ASSUME NEW k \in Nat, k > 0, NEW n \in Nat, n % k = 0
  PROVE  \E q \in Int : n = q * k
<1>1. n = (n \div k) * k /\ n \div k \in Int
  OBVIOUS
<1> QED
  BY <1>1

\* If the source is made of full chunks, so many chunks of it are no longer.
LEMMA ChunksFit ==
  ASSUME source \in Seq(Byte), NEW n \in Nat, Taken(n), Len(source) % FileChunkSize = 0
  PROVE  n * FileChunkSize <= Len(source)
<1> DEFINE F == FileChunkSize
           L == Len(source)
<1>1. F \in Nat /\ F > 0 /\ L \in Nat
  BY LenProperties
<1>2. L % F = 0 /\ (n > 0 => (n - 1) * F < L)
  BY DEF Taken
<1> HIDE DEF F, L
<1>3. PICK q \in Int : L = q * F
  BY <1>1, <1>2, Multiples
<1>4. CASE n > 0
  <2>1. n - 1 < q
    <3>1. SUFFICES ASSUME n - 1 >= q PROVE FALSE
      BY <1>3
    <3>2. (n - 1) * F >= q * F
      BY <1>1, <1>3, <3>1
    <3> QED
      BY <1>1, <1>2, <1>3, <1>4, <3>2
  <2>2. n <= q
    BY <1>3, <2>1
  <2>3. n * F <= q * F
    BY <1>1, <1>3, <2>2
  <2> QED
    BY <1>3, <2>3 DEF F, L
<1>5. CASE n = 0
  BY <1>1, <1>5 DEF F, L
<1> QED
  BY <1>4, <1>5

\* What happens to a record and to the receiver's claim on it keeps the records
\* apart.
LEMMA OwnedStep ==
  ASSUME Owned, VerifiedInv, VerifiedInv', [Next]_vars
  PROVE  Owned'
<1> USE DEF disk, sender, receiver, net, vars, ReceiverUnchanged, SenderUnchanged
<1>1. /\ \A id \in FileIDs : stateFile[id].temp \in Temps \cup {NoTemp}
      /\ stateFile \in [FileIDs -> [st : {"absent", "torn", "saved"}, next : Nat,
                                    temp : Temps \cup {NoTemp}]]
      /\ NoTemp \notin Temps
  BY TempAssumption DEF Typed, TypeOK
<1>2. CASE UNCHANGED <<stateFile, rTmp, rId>>
  BY <1>2 DEF Owned
<1>3. CASE UNCHANGED stateFile /\ rTmp' = NoTemp
  BY <1>3 DEF Owned
<1>4. CASE ReceiveStartResume
  <2>1. /\ rId' \in FileIDs /\ rTmp' = stateFile[rId'].temp /\ UNCHANGED stateFile
        /\ rTmp' # NoTemp
    <3>1. toR # <<>> /\ CanReopen(rId') /\ rId' = Head(toR).id /\ UNCHANGED stateFile
          /\ rTmp' = stateFile[rId'].temp /\ rPc' = "ack"
      BY <1>4 DEF ReceiveStartResume
    <3>2. rId' \in FileIDs /\ rTmp' \in Temps
      BY <3>1 DEF Typed
    <3> QED
      BY <1>1, <3>1, <3>2
  <2> QED
    BY <2>1 DEF Owned
<1>5. CASE ReceiveStartFresh
  <2>1. rTmp' = NoTemp /\ UNCHANGED stateFile
    BY <1>5 DEF ReceiveStartFresh, Typed
  <2> QED
    BY <1>3, <2>1
<1>6. CASE CreateTemp
  <2>1. rTmp' \in FreshTemps /\ UNCHANGED stateFile
    BY <1>6 DEF CreateTemp
  <2> QED
    BY <1>1, <2>1 DEF Owned, FreshTemps
<1>7. CASE SaveTruncate \/ DeleteState
  <2>1. /\ rId \in FileIDs /\ UNCHANGED <<rTmp, rId>>
        /\ \/ UNCHANGED stateFile
           \/ stateFile' = [stateFile EXCEPT ![rId] = Torn]
           \/ stateFile' = [stateFile EXCEPT ![rId] = Absent]
    BY <1>7 DEF SaveTruncate, DeleteState, Typed
  <2>2. \A id \in FileIDs : stateFile'[id].temp = stateFile[id].temp \/ stateFile'[id].temp = NoTemp
    BY <1>1, <2>1 DEF Torn, Absent
  <2> QED
    BY <2>1, <2>2 DEF Owned
<1>8. CASE SaveWrite
  <2>1. /\ rId \in FileIDs /\ rTmp \in Temps /\ UNCHANGED <<rTmp, rId>>
        /\ stateFile' = [stateFile EXCEPT ![rId] = Saved(rNext, rTmp)]
    BY <1>8 DEF SaveWrite, Typed
  <2>2. \A id \in FileIDs : stateFile'[id].temp = IF id = rId THEN rTmp ELSE stateFile[id].temp
    BY <1>1, <2>1 DEF Saved
  <2>3. rTmp # NoTemp
    BY <1>1, <2>1
  <2> QED
    BY <2>1, <2>2, <2>3 DEF Owned
<1>9. CASE Cleanup \/ Unwind \/ ReceiverCrash
  BY <1>3, <1>9 DEF Cleanup, Unwind, ReceiverCrash
<1>10. ASSUME NEW sr \in BOOLEAN, NEW rr \in BOOLEAN, Connect(sr, rr)
       PROVE  UNCHANGED stateFile /\ rTmp' = NoTemp
  BY <1>10 DEF Connect, ReceiverBegins
<1>11. ASSUME SenderStep \/ SenderFault
       PROVE  UNCHANGED <<stateFile, rTmp, rId>>
  BY <1>11 DEF SenderStep, SenderFault, SenderStat, SenderStart, SenderAck, SenderChunk,
       SenderEOF, SenderComplete, SenderChecksum, SenderVerdict, SenderLinkError
<1>12. ASSUME \/ ReceiveEOF \/ AckResume \/ ReceiveChunk \/ ReceiveComplete \/ ReceiveChecksum
              \/ SendSum \/ Rename \/ OpenDest \/ WriteDest \/ ReceiverLinkError
              \/ StateFault \/ ReceiverFault \/ LinkLoss
              \/ (\E c \in Contents : EditSource(c)) \/ (\E t \in Temps : ReapTemp(t))
       PROVE  UNCHANGED <<stateFile, rTmp, rId>>
  BY <1>12 DEF ReceiveEOF, AckResume, ReceiveChunk, ReceiveComplete, ReceiveChecksum, SendSum,
       Rename, OpenDest, WriteDest, ReceiverLinkError, StateFault, ReceiverFault, LinkLoss,
       EditSource, ReapTemp
<1>13. CASE ReceiverStep
  BY <1>2, <1>4, <1>5, <1>6, <1>7, <1>8, <1>9, <1>12, <1>13 DEF ReceiverStep
<1> QED
  BY <1>2, <1>3, <1>9, <1>10, <1>11, <1>12, <1>13 DEF Next

\* The source stays as it is while it is not edited.
LEMMA SourceKept ==
  ASSUME VerifiedInv, [Next]_vars, edits' = 0
  PROVE  edits = 0 /\ source' = source
<1>1. edits \in Nat
  BY BoundAssumption DEF Typed, TypeOK
<1>2. ASSUME NEW c \in Contents, EditSource(c) PROVE FALSE
  BY <1>1, <1>2 DEF EditSource
<1>3. ASSUME \/ SenderStep \/ SenderFault \/ LinkLoss \/ UNCHANGED vars
             \/ (\E sr, rr \in BOOLEAN : Connect(sr, rr)) \/ (\E t \in Temps : ReapTemp(t))
      PROVE  edits = edits' /\ source' = source
  BY <1>3 DEF SenderStep, SenderFault, SenderStat, SenderStart, SenderAck, SenderChunk,
       SenderEOF, SenderComplete, SenderChecksum, SenderVerdict, SenderLinkError, LinkLoss,
       Connect, ReapTemp, Fault, SenderUnchanged, environment, vars
<1>4. ASSUME ReceiverStep \/ StateFault \/ ReceiverFault \/ ReceiverCrash
      PROVE  edits = edits' /\ source' = source
  BY <1>4 DEF ReceiverStep, StateFault, ReceiverFault, ReceiverCrash, ReceiveStartResume,
         ReceiveStartFresh, ReceiveEOF, CreateTemp, SaveTruncate, SaveWrite, AckResume,
         ReceiveChunk, ReceiveComplete, ReceiveChecksum, SendSum, DeleteState, Rename,
         OpenDest, WriteDest, Cleanup, ReceiverLinkError, Unwind, Fault, ReceiverUnchanged,
         environment
<1> QED
  BY <1>2, <1>3, <1>4 DEF Next

\* What a step does to the sender's side: one of its own actions, a new session, or
\* nothing.
LEMMA SenderFrame ==
  ASSUME [Next]_vars
  PROVE  \/ SenderStep \/ SenderFault
         \/ \E sr, rr \in BOOLEAN : Connect(sr, rr)
         \/ UNCHANGED sender
<1>1. ASSUME ReceiverStep \/ StateFault \/ ReceiverFault \/ ReceiverCrash
      PROVE  UNCHANGED sender
  BY <1>1 DEF ReceiverStep, StateFault, ReceiverFault, ReceiverCrash, ReceiveStartResume,
         ReceiveStartFresh, ReceiveEOF, CreateTemp, SaveTruncate, SaveWrite, AckResume,
         ReceiveChunk, ReceiveComplete, ReceiveChecksum, SendSum, DeleteState, Rename,
         OpenDest, WriteDest, Cleanup, ReceiverLinkError, Unwind, ReceiverUnchanged
<1> QED
  BY <1>1 DEF Next, LinkLoss, EditSource, ReapTemp, vars

\* The receiver comes back to the messages of a file only after it handled one, or in
\* a new session; the link comes up only then.
LEMMA OpenFrame ==
  ASSUME VerifiedInv, [Next]_vars, \A sr, rr \in BOOLEAN : ~Connect(sr, rr)
  PROVE  /\ up' => up
         /\ rPc' \in Open => rPc \in Open \/ sPc \notin Sending
<1>1. ASSUME \/ SenderStep \/ SenderFault \/ LinkLoss \/ UNCHANGED vars
             \/ (\E c \in Contents : EditSource(c)) \/ (\E t \in Temps : ReapTemp(t))
      PROVE  (up' => up) /\ rPc' = rPc
  BY <1>1 DEF SenderStep, SenderFault, SenderStat, SenderStart, SenderAck, SenderChunk,
       SenderEOF, SenderComplete, SenderChecksum, SenderVerdict, SenderLinkError, LinkLoss,
       SenderHangsUp, EditSource, ReapTemp, SenderUnchanged, receiver, net, vars
<1>2. ASSUME ReceiverStep \/ StateFault \/ ReceiverFault \/ ReceiverCrash
      PROVE  up' => up
  BY <1>2 DEF ReceiverStep, StateFault, ReceiverFault, ReceiverCrash, ReceiveStartResume,
         ReceiveStartFresh, ReceiveEOF, CreateTemp, SaveTruncate, SaveWrite, AckResume,
         ReceiveChunk, ReceiveComplete, ReceiveChecksum, SendSum, DeleteState, Rename,
         OpenDest, WriteDest, Cleanup, ReceiverLinkError, Unwind, ReceiverHangsUp, net
<1>4. ASSUME ReceiverStep, rPc' \in Open
      PROVE  rPc \in Open \cup {"cleanup"}
  <2>1. CASE Cleanup
    BY <2>1 DEF Cleanup
  <2>2. CASE \/ ReceiveStartResume \/ ReceiveStartFresh \/ CreateTemp \/ SaveTruncate
              \/ SaveWrite \/ AckResume \/ ReceiveChunk
    BY <2>2 DEF ReceiveStartResume, ReceiveStartFresh, CreateTemp, SaveTruncate, SaveWrite,
                AckResume, ReceiveChunk, Open, Accepted
  <2>3. CASE \/ ReceiveEOF \/ ReceiveComplete \/ ReceiveChecksum \/ SendSum \/ DeleteState
              \/ Rename \/ OpenDest \/ WriteDest \/ ReceiverLinkError \/ Unwind
    BY <1>4, <2>3 DEF ReceiveEOF, ReceiveComplete, ReceiveChecksum, SendSum, DeleteState, Rename,
                OpenDest, WriteDest, ReceiverLinkError, Unwind, Open, Accepted
  <2> QED
    BY <1>4, <2>1, <2>2, <2>3 DEF ReceiverStep
<1>5. ASSUME StateFault \/ ReceiverFault \/ ReceiverCrash, rPc' \in Open
      PROVE  rPc \in Open
  BY <1>5 DEF StateFault, ReceiverFault, ReceiverCrash, Open, Accepted
<1>3. rPc = "cleanup" => sPc \notin Sending
  BY DEF VerifiedIsLast, Verified
<1> QED
  BY <1>1, <1>2, <1>3, <1>4, <1>5 DEF Next

\* The sender's position is that of its counter.
LEMMA SenderAtStep ==
  ASSUME SenderAt, FlowInv, FlowInv', [Next]_vars
  PROVE  SenderAt'
<1> SUFFICES ASSUME edits' = 0
             PROVE  SenderAt'
  BY DEF SenderAt
<1> DEFINE F == FileChunkSize
           L == Len(source)
<1>1. edits = 0 /\ source' = source
  BY SourceKept
<1>2. /\ source \in Seq(Byte) /\ L \in Nat /\ F \in Nat /\ F > 0
      /\ sPos \in Nat /\ sIdx \in Nat /\ rNext \in Nat
  BY LenProperties DEF Typed, TypeOK
<1>3. CASE \E sr, rr \in BOOLEAN : Connect(sr, rr)
  BY <1>3 DEF Connect, SenderBegins, SenderAt
<1>4. CASE UNCHANGED sender /\ \A sr, rr \in BOOLEAN : ~Connect(sr, rr)
  BY <1>1, <1>4, OpenFrame DEF sender, SenderAt, Sending
<1>5. CASE SenderStep \/ SenderFault
  <2> USE DEF SenderUnchanged, receiver, net
  <2>1. CASE SenderStart
    <3>1. sPc = "start" /\ sSum' = Digest(source) /\ sPc' \in {"ack", "chunks"} /\ sPos' = 0 /\ sIdx' = 0
      BY <2>1 DEF SenderStart, Counters
    <3>2. 0 = 0 * F
      BY <1>2
    <3> QED
      BY <1>1, <3>1, <3>2 DEF SenderAt
  <2>2. CASE SenderAck
    <3> DEFINE off == StartOffset(Head(toS))
    <3>1. /\ sPc = "ack" /\ sPc' = "chunks" /\ toS # <<>> /\ UNCHANGED <<sSum, rPc, up>>
          /\ sIdx' = off \div F /\ sPos' = off
      BY <2>2 DEF SenderAck, StartIndex, StartPos
    <3>2. rPc \in Open => off = rNext * F
      BY <3>1 DEF Handshake
    <3> HIDE DEF off
    <3>3. (rNext * F) \div F = rNext
      BY <1>2, WholeChunks
    <3>4. rPc \in Open => sPos' = sIdx' * F
      BY <3>1, <3>2, <3>3
    <3> QED
      BY <1>1, <3>1, <3>4 DEF SenderAt
  <2>3. CASE SenderChunk
    <3> DEFINE n == Len(ChunkAt(source, sPos))
    <3>1. /\ sPc = "chunks" /\ sPc' = "chunks" /\ sPos < L /\ UNCHANGED <<sSum, rPc, up>>
          /\ sPos' = sPos + n /\ sIdx' = sIdx + 1
      BY <2>3 DEF SenderChunk
    <3>2. n = IF sPos + F < L THEN F ELSE L - sPos
      BY <1>2, <3>1, ChunkFacts
    <3>3. up /\ rPc \in Open => sPos = sIdx * F
      BY <1>1, <1>2, <3>1 DEF SenderAt
    <3>4. (sIdx + 1) * F = sIdx * F + F
      BY <1>2, ChunkCounts
    <3> HIDE DEF n, F, L
    <3>5. up /\ rPc \in Open =>
            sPos' = sIdx' * F \/ (sPos' = L /\ L < sIdx' * F)
      BY <1>2, <3>1, <3>2, <3>3, <3>4
    <3> QED
      BY <1>1, <3>1, <3>5 DEF SenderAt, F, L
  <2>4. CASE SenderEOF
    <3>1. sPc = "chunks" /\ sPc' = "complete" /\ sPos >= L /\ UNCHANGED <<sSum, sPos, sIdx, rPc, up>>
      BY <2>4 DEF SenderEOF
    <3>2. sIdx * F \in Nat
      BY <1>2, ChunkCounts
    <3>3. up /\ rPc \in Open => sIdx * F >= L
      BY <1>1, <1>2, <3>1, <3>2 DEF SenderAt
    <3> QED
      BY <1>1, <3>1, <3>3 DEF SenderAt
  <2>5. CASE SenderComplete
    <3>1. sPc = "complete" /\ sPc' = "checksum" /\ UNCHANGED sSum
      BY <2>5 DEF SenderComplete
    <3> QED
      BY <1>1, <3>1 DEF SenderAt
  <2>6. CASE SenderStat \/ SenderChecksum \/ SenderVerdict \/ SenderLinkError \/ SenderFault
    <3>1. sPc' \notin {"ack", "chunks", "complete", "checksum"}
      BY <2>6 DEF SenderStat, SenderChecksum, SenderVerdict, Verdict, SenderLinkError, SenderFault
    <3> QED
      BY <3>1 DEF SenderAt
  <2> QED
    BY <1>5, <2>1, <2>2, <2>3, <2>4, <2>5, <2>6 DEF SenderStep
<1> HIDE DEF FlowInv, VerifiedInv
<1> QED
  BY <1>3, <1>4, <1>5, SenderFrame

\* A message carries data of the source; message number n of the file carries its
\* chunk n, or ends it there.
OfSource(m) ==
  /\ m.type = "file_chunk" => Len(m.chunk) >= 1
  /\ m.type = "file_checksum" /\ edits = 0 => m.checksum = Digest(source)
InPlace(m, n) ==
  /\ m.type = "file_chunk" => /\ n * FileChunkSize < Len(source)
                              /\ m.chunk = ChunkAt(source, n * FileChunkSize)
  /\ m.type = "file_complete" => n * FileChunkSize >= Len(source)

\* What is in the queue after a step was there before, at its place in the file.
LEMMA ChunksFollow ==
  ASSUME Chunks, FlowInv, [Next]_vars,
         \A i \in 1 .. Len(toR') : \E j \in 1 .. Len(toR) :
           toR'[i] = toR[j] /\ (rPc' \in Open => rPc \in Open /\ Number(i)' = Number(j))
  PROVE  Chunks'
<1>1. edits' = 0 => edits = 0 /\ source' = source
  BY SourceKept
<1> SUFFICES ASSUME NEW i \in 1 .. Len(toR')
             PROVE  LET m == toR'[i] IN
                      /\ m.type = "file_chunk" => Len(m.chunk) >= 1
                      /\ m.type = "file_checksum" /\ edits' = 0 => m.checksum = Digest(source')
                      /\ rPc' \in Open /\ edits' = 0 =>
                           /\ m.type = "file_chunk" =>
                                /\ Number(i)' * FileChunkSize < Len(source')
                                /\ m.chunk = ChunkAt(source', Number(i)' * FileChunkSize)
                           /\ m.type = "file_complete" =>
                                Number(i)' * FileChunkSize >= Len(source')
  BY DEF Chunks, ChunkAt, Digest
<1>2. PICK j \in 1 .. Len(toR) :
        toR'[i] = toR[j] /\ (rPc' \in Open => rPc \in Open /\ Number(i)' = Number(j))
  OBVIOUS
<1> DEFINE m == toR[j]
           n == Number(j)
<1>3. OfSource(m) /\ (rPc \in Open /\ edits = 0 => InPlace(m, n))
  BY DEF Chunks, OfSource, InPlace
<1>4. toR'[i] = m /\ (rPc' \in Open => rPc \in Open /\ Number(i)' = n)
  BY <1>2
<1> HIDE DEF m, n, FlowInv
<1> QED
  BY <1>1, <1>3, <1>4 DEF OfSource, InPlace

\* The sender adds a message, in its place.
LEMMA ChunksSent ==
  ASSUME Chunks, FlowInv, FlowInv', NEW m \in ToReceiver, toR' = Sent(toR, m), OfSource(m),
         up /\ rPc \in Open /\ edits = 0 => InPlace(m, Number(Len(toR) + 1)),
         UNCHANGED <<source, edits, rPc, rNext>>
  PROVE  Chunks'
<1>1. Len(toR) \in Nat
  BY QueueFacts
<1>2. \A i : Number(i)' = Number(i)
  BY DEF Number, Ahead
<1>3. \A i \in 1 .. Len(toR') :
        \/ i \in 1 .. Len(toR) /\ toR'[i] = toR[i]
        \/ up /\ i = Len(toR) + 1 /\ toR'[i] = m
  <2>1. /\ up => /\ Len(toR') = Len(toR) + 1 /\ toR'[Len(toR) + 1] = m
                 /\ \A i \in 1 .. Len(toR) : toR'[i] = toR[i]
        /\ ~up => toR' = toR
    BY AppendFacts
  <2> QED
    BY <1>1, <2>1
<1> HIDE DEF FlowInv
<1> QED
  BY <1>2, <1>3 DEF Chunks, OfSource, InPlace

\* The queue carries the chunks of the source.
LEMMA ChunksStep ==
  ASSUME Chunks, SenderAt, FlowInv, FlowInv', [Next]_vars
  PROVE  Chunks'
<1>1. /\ Len(toR) \in Nat /\ Len(toR') \in Nat /\ toR \in Seq(ToReceiver)
      /\ toR # <<>> => Len(toR) >= 1
      /\ toR # <<>> /\ toR' = Tail(toR) =>
           Len(toR') = Len(toR) - 1 /\ \A i \in 1 .. Len(toR') : toR'[i] = toR[i + 1]
  BY QueueFacts
<1>2. ASSUME toR' = <<>> PROVE Chunks'
  <2>1. Len(toR') = 0
    BY <1>2, LenProperties
  <2> QED
    BY <2>1 DEF Chunks
<1>3. ASSUME toR' = toR, rPc' \in Open => rPc \in Open /\ rNext' = rNext /\ Ahead' = Ahead
      PROVE  Chunks'
  <2>1. \A i \in 1 .. Len(toR') :
          toR'[i] = toR[i] /\ (rPc' \in Open => rPc \in Open /\ Number(i)' = Number(i))
    BY <1>3 DEF Number
  <2> HIDE DEF FlowInv
  <2> QED
    BY <1>3, <2>1, ChunksFollow
<1>4. ASSUME NetShrinks, UNCHANGED <<rPc, rNext>>
      PROVE  Chunks'
  <2>1. \A i \in 1 .. Len(toR') : i \in 1 .. Len(toR) /\ toR'[i] = toR[i] /\ Number(i)' = Number(i)
    BY <1>1, <1>4 DEF NetShrinks, Number, Ahead
  <2> HIDE DEF FlowInv
  <2> QED
    BY <1>4, <2>1, ChunksFollow
<1>5. ASSUME toR # <<>>, toR' = Tail(toR), rPc' \in Open /\ toR' # <<>> =>
               rPc \in Open /\ Ahead' = 0 /\ rNext' = rNext + 1 - Ahead
      PROVE  Chunks'
  <2>1. \A i \in 1 .. Len(toR') : i + 1 \in 1 .. Len(toR) /\ toR'[i] = toR[i + 1] /\ toR' # <<>>
    <3> HIDE DEF FlowInv
    <3>1. /\ Len(toR) \in Nat /\ Len(toR') \in Nat /\ Len(toR') = Len(toR) - 1
          /\ \A i \in 1 .. Len(toR') : toR'[i] = toR[i + 1]
      BY <1>1, <1>5
    <3>2. toR' = <<>> => Len(toR') = 0
      BY EmptySeq
    <3>3. ASSUME NEW i \in 1 .. Len(toR') PROVE toR' # <<>>
      BY <3>1, <3>2, <3>3
    <3> QED
      BY <3>1, <3>3
  <2>2. rNext \in Nat /\ rNext' \in Nat /\ Ahead \in {0, 1} /\ Ahead' \in {0, 1}
    BY DEF Typed, TypeOK, Ahead
  <2>3. ASSUME NEW i \in 1 .. Len(toR'), rPc' \in Open
        PROVE  rPc \in Open /\ Number(i)' = Number(i + 1)
    <3>1. rPc \in Open /\ Ahead' = 0 /\ rNext' = rNext + 1 - Ahead
      BY <1>5, <2>1, <2>3
    <3>2. i \in Nat
      BY <1>1
    <3>3. Number(i)' = rNext' + i - 1
      BY <2>2, <3>1, <3>2 DEF Number
    <3>4. Number(i + 1) = rNext + i - Ahead
      BY <2>2, <3>2 DEF Number
    <3> QED
      BY <2>2, <3>1, <3>2, <3>3, <3>4
  <2> HIDE DEF FlowInv
  <2> QED
    BY <2>1, <2>3, ChunksFollow
<1>6. CASE SenderStep \/ SenderFault
  <2> USE DEF SenderUnchanged, receiver, net, environment
  <2>1. UNCHANGED <<rPc, rNext>>
    BY <1>6 DEF SenderStep, SenderFault, SenderStat, SenderStart, SenderAck, SenderChunk,
       SenderEOF, SenderComplete, SenderChecksum, SenderVerdict, SenderLinkError
  <2>2. CASE SenderStat \/ SenderAck \/ SenderEOF
    BY <1>3, <2>1, <2>2 DEF SenderStat, SenderAck, SenderEOF, Ahead
  <2>3. CASE SenderVerdict \/ SenderLinkError \/ SenderFault
    <3>1. NetShrinks
      BY <2>3, ShrinkFacts DEF SenderVerdict, SenderLinkError, SenderFault, SenderHangsUp
    <3> QED
      BY <1>4, <2>1, <3>1
  <2>4. SenderId \in FileIDs /\ source \in Seq(Byte) /\ sPos \in Nat /\ sIdx \in Nat /\ sSum \in Digests
    BY DEF SenderId, FileIDs, Typed, TypeOK
  <2>5. CASE SenderStart
    <3> DEFINE m == Start(SenderId, sResume)
    <3>1. m \in ToReceiver /\ m.type = "file_start"
      BY <2>4 DEF Start, ToReceiver, Typed, TypeOK
    <3>2. toR' = Sent(toR, m) /\ UNCHANGED <<source, edits>>
      BY <2>5 DEF SenderStart
    <3> HIDE DEF m, FlowInv
    <3>3. OfSource(m) /\ \A n : InPlace(m, n)
      BY <3>1 DEF OfSource, InPlace
    <3> QED
      BY <2>1, <3>1, <3>2, <3>3, ChunksSent
  <2>6. CASE SenderChunk
    <3> DEFINE c == ChunkAt(source, sPos)
               m == Chunk(SenderId, sIdx, c)
    <3>1. /\ sPc = "chunks" /\ sPos < Len(source) /\ UNCHANGED <<source, edits>>
          /\ toR' = Sent(toR, m)
      BY <2>6 DEF SenderChunk
    <3>2. c \in Seq(Byte) /\ Len(c) >= 1
      BY <2>4, <3>1, ChunkFacts
    <3>3. up /\ rPc \in Open /\ edits = 0 => sPos = sIdx * FileChunkSize /\ sIdx = Number(Len(toR) + 1)
      <4>1. sIdx * FileChunkSize \in Nat /\ Len(source) \in Nat
        BY <2>4, OffsetFacts, LenProperties
      <4>2. up /\ rPc \in Open => sIdx = Number(Len(toR) + 1)
        BY <3>1 DEF Counters
      <4>3. up /\ rPc \in Open /\ edits = 0 => sPos = sIdx * FileChunkSize
        BY <2>4, <3>1, <4>1 DEF SenderAt
      <4> QED
        BY <4>2, <4>3
    <3>4. m \in ToReceiver /\ m.type = "file_chunk" /\ m.chunk = c
      <4> HIDE DEF c
      <4> QED
        BY <2>4, <3>2 DEF Chunk, ToReceiver
    <3> HIDE DEF m, FlowInv
    <3>5. OfSource(m)
      BY <3>2, <3>4 DEF OfSource
    <3>6. up /\ rPc \in Open /\ edits = 0 => InPlace(m, Number(Len(toR) + 1))
      BY <3>1, <3>3, <3>4 DEF InPlace
    <3> QED
      BY <2>1, <3>1, <3>4, <3>5, <3>6, ChunksSent
  <2>7. CASE SenderComplete
    <3> DEFINE m == Complete(SenderId)
    <3>1. m \in ToReceiver /\ m.type = "file_complete"
      BY <2>4 DEF Complete, ToReceiver
    <3>2. sPc = "complete" /\ toR' = Sent(toR, m) /\ UNCHANGED <<source, edits>>
      BY <2>7 DEF SenderComplete
    <3>3. up /\ rPc \in Open /\ edits = 0 =>
            Number(Len(toR) + 1) * FileChunkSize >= Len(source)
      <4>1. up /\ rPc \in Open => sIdx = Number(Len(toR) + 1)
        BY <3>2 DEF Counters
      <4>2. up /\ rPc \in Open /\ edits = 0 => sIdx * FileChunkSize >= Len(source)
        BY <3>2 DEF SenderAt
      <4> QED
        BY <4>1, <4>2
    <3> HIDE DEF m, FlowInv
    <3>4. OfSource(m) /\ (up /\ rPc \in Open /\ edits = 0 => InPlace(m, Number(Len(toR) + 1)))
      BY <3>1, <3>3 DEF OfSource, InPlace
    <3> QED
      BY <2>1, <3>1, <3>2, <3>4, ChunksSent
  <2>8. CASE SenderChecksum
    <3> DEFINE m == Checksum(SenderId, sSum)
    <3>1. m \in ToReceiver /\ m.type = "file_checksum" /\ m.checksum = sSum
      BY <2>4 DEF Checksum, ToReceiver
    <3>2. sPc = "checksum" /\ toR' = Sent(toR, m) /\ UNCHANGED <<source, edits>>
      BY <2>8 DEF SenderChecksum
    <3>3. edits = 0 => sSum = Digest(source)
      BY <3>2 DEF SenderAt
    <3> HIDE DEF m, FlowInv
    <3>4. OfSource(m) /\ \A n : InPlace(m, n)
      BY <3>1, <3>3 DEF OfSource, InPlace
    <3> QED
      BY <2>1, <3>1, <3>2, <3>4, ChunksSent
  <2> QED
    BY <1>6, <2>2, <2>3, <2>5, <2>6, <2>7, <2>8 DEF SenderStep
<1>7. CASE ReceiverStep \/ StateFault \/ ReceiverFault \/ ReceiverCrash
  <2> USE DEF ReceiverUnchanged, net
  <2>1. CASE ReceiveStartResume
    <3>1. toR # <<>> /\ toR' = Tail(toR) /\ rPc' = "ack"
      BY <2>1 DEF ReceiveStartResume
    <3>2. toR' = <<>>
      <4>1. sResume'
        BY <2>1, NextMessage DEF ReceiveStartResume, Resumable, Open, sender
      <4>2. Len(toR') <= 0
        BY <3>1, <4>1 DEF Handshake, PreAck, Ahead
      <4> QED
        BY <1>1, <3>1, <4>2, HeadTailFacts, EmptySeq
    <3> QED
      BY <1>2, <3>2
  <2>2. CASE ReceiveStartFresh
    <3>1. /\ rPc = "wait_start" /\ toR # <<>> /\ toR' = Tail(toR) /\ rNext' = rNext
          /\ rPc' \in {"create", "failing"}
      BY <2>2 DEF ReceiveStartFresh
    <3>2. Ahead = 1 /\ Ahead' = 0 /\ rNext \in Nat
      BY <3>1 DEF Ahead, Typed, TypeOK
    <3> QED
      BY <1>5, <3>1, <3>2 DEF Open
  <2>3. CASE ReceiveChunk
    <3>1. /\ rPc = "recv" /\ toR # <<>> /\ toR' = Tail(toR)
          /\ \/ rPc' = "failing"
             \/ rNext' = rNext + 1 /\ rPc' \in {"save", "recv"}
      BY <2>3 DEF ReceiveChunk
    <3>2. Ahead = 0 /\ Ahead' = 0 /\ rNext \in Nat
      BY <3>1 DEF Ahead, Typed, TypeOK
    <3> QED
      BY <1>5, <3>1, <3>2 DEF Open, Accepted
  <2>4. CASE ReceiveComplete \/ ReceiveChecksum
    <3>1. toR # <<>> /\ toR' = Tail(toR) /\ rPc' \notin Open
      BY <2>4 DEF ReceiveComplete, ReceiveChecksum, Open, Accepted
    <3> QED
      BY <1>5, <3>1
  <2>5. CASE ReceiveEOF \/ Unwind \/ ReceiverCrash
    BY <1>2, <2>5 DEF ReceiveEOF, Unwind, ReceiverCrash, ReceiverHangsUp
  <2>6. CASE Cleanup
    BY <1>2, <2>6 DEF Cleanup, VerifiedIsLast, Verified
  <2>7. CASE CreateTemp
    <3>1. rPc = "create" /\ rPc' \in {"save", "ack"} /\ rNext' = rNext /\ toR' = toR
      BY <2>7 DEF CreateTemp, Handshake
    <3> QED
      BY <1>3, <3>1 DEF Ahead, Open, Accepted
  <2>8. CASE SaveTruncate \/ SaveWrite \/ AckResume
    <3>1. rPc \in Accepted /\ rPc' \in Accepted /\ rNext' = rNext /\ toR' = toR
      BY <2>8 DEF SaveTruncate, SaveWrite, AfterSave, AckResume, Accepted
    <3> QED
      BY <1>3, <3>1 DEF Ahead, Open, Accepted
  <2>9. CASE StateFault
    <3>1. /\ rNext' = rNext /\ toR' = toR
          /\ rPc \in {"save", "saving", "delete"} /\ rPc' \in {"store", "ack", "recv"}
          /\ rPc = "delete" => rPc' = "store"
      BY <2>9 DEF StateFault, AfterSave
    <3> QED
      BY <1>3, <3>1 DEF Ahead, Open, Accepted
  <2>10. CASE \/ SendSum \/ DeleteState \/ Rename \/ OpenDest \/ WriteDest
              \/ ReceiverLinkError \/ ReceiverFault
    <3>1. toR' = toR /\ rPc' \notin Open
      BY <2>10 DEF SendSum, DeleteState, Rename, OpenDest, WriteDest, ReceiverLinkError,
                   ReceiverFault, Open, Accepted
    <3> QED
      BY <1>3, <3>1
  <2> QED
    BY <1>7, <2>1, <2>2, <2>3, <2>4, <2>5, <2>6, <2>7, <2>8, <2>9, <2>10 DEF ReceiverStep
<1>8. CASE LinkLoss
  <2>1. NetShrinks /\ UNCHANGED <<rPc, rNext>>
    BY <1>8, ShrinkFacts DEF LinkLoss, receiver
  <2> QED
    BY <1>4, <2>1
<1>9. CASE \E sr, rr \in BOOLEAN : Connect(sr, rr)
  BY <1>2, <1>9 DEF Connect
<1>10. CASE \/ UNCHANGED vars \/ (\E c \in Contents : EditSource(c))
            \/ (\E t \in Temps : ReapTemp(t))
  <2>1. UNCHANGED <<toR, rPc, rNext>>
    BY <1>10 DEF vars, EditSource, ReapTemp, receiver, net
  <2> QED
    BY <1>3, <2>1 DEF Ahead
<1> HIDE DEF FlowInv
<1> QED
  BY <1>6, <1>7, <1>8, <1>9, <1>10 DEF Next

\* What the receiver holds is what it counted of the source.
LEMMA HeldStep ==
  ASSUME Held, Records, Chunks, FlowInv, FlowInv', [Next]_vars
  PROVE  Held'
<1> DEFINE F == FileChunkSize
           L == Len(source)
<1>1. /\ source \in Seq(Byte) /\ L \in Nat /\ F \in Nat /\ F > 0
      /\ rNext \in Nat /\ rHash \in Seq(Byte) /\ Len(rHash) \in Nat
  BY LenProperties DEF Typed, TypeOK
<1>2. edits' = 0 => edits = 0 /\ source' = source
  BY SourceKept
<1>3. CASE rPc' \notin Holding
  BY <1>3 DEF Held
<1>4. ASSUME UNCHANGED <<rNext, rHash>>, rPc' \in Holding => rPc \in Holding,
             rPc' = "sum" => rPc = "sum"
      PROVE  Held'
  BY <1>2, <1>4 DEF Held, Agrees, Taken
<1>5. ASSUME SenderStep \/ SenderFault
      PROVE  Held'
  <2>1. UNCHANGED <<rPc, rNext, rHash>>
    BY <1>5 DEF SenderStep, SenderFault, SenderStat, SenderStart, SenderAck, SenderChunk,
       SenderEOF, SenderComplete, SenderChecksum, SenderVerdict, SenderLinkError,
       SenderUnchanged, receiver
  <2> QED
    BY <1>4, <2>1
<1>6. CASE ReceiveStartResume
  <2> DEFINE m == Head(toR)
             s == stateFile[m.id]
             d == temp[s.temp]
             n == s.next * F
  <2>1. /\ toR # <<>> /\ s.st = "saved" /\ s.temp \in temps /\ rPc' = "ack" /\ rNext' = s.next
        /\ temp' = [temp EXCEPT ![s.temp] = Resize(d, n)]
        /\ rHash' = Rehash(temp'[s.temp], n)
    BY <1>6 DEF ReceiveStartResume, CanReopen, Truncated, ResumeOffset
  <2>2. m.id \in FileIDs
    BY <2>1, HeadTailFacts, ReceivedMessages DEF Typed, TypeOK
  <2>3. s.next \in Nat /\ s.temp \in Temps /\ d \in Seq(Byte) /\ n \in Nat /\ s.next <= n
    BY <2>1, <2>2, ChunkCounts DEF Typed, TypeOK
  <2>4. rHash' = Resize(d, n) /\ Len(rHash') = n
    <3> HIDE DEF d, n, s
    <3>1. Rehash(Resize(d, n), n) = Resize(d, n) /\ Len(Resize(d, n)) = n
      BY <2>3, DataTypes
    <3>2. temp'[s.temp] = Resize(d, n)
      BY <2>1, <2>3 DEF Typed, TypeOK
    <3> QED
      BY <2>1, <3>1, <3>2
  <2>5. edits = 0 => Agrees(d) /\ Taken(s.next) /\ (Len(d) >= n \/ Len(d) >= L)
    BY <2>1, <2>2 DEF Records
  <2> HIDE DEF m, s, d, n
  <2>6. edits = 0 => Agrees(Resize(d, n))
    BY <1>1, <2>3, <2>5, AgreesResized
  <2>7. rNext' * F = n
    BY <2>1 DEF n
  <2> QED
    BY <1>2, <2>1, <2>3, <2>4, <2>5, <2>6, <2>7 DEF Held, Agrees, Taken
<1>7. CASE CreateTemp
  <2>1. rPc' \in {"save", "ack"} /\ rNext' = 0 /\ rHash' = <<>> /\ Len(rHash') = 0
    BY <1>7, LenProperties DEF CreateTemp
  <2>2. 0 * F = 0
    BY <1>1
  <2> QED
    BY <1>2, <2>1, <2>2 DEF Held, Agrees, Taken
<1>8. CASE SaveTruncate \/ SaveWrite \/ AckResume
  <2>1. UNCHANGED <<rNext, rHash>> /\ rPc \in Holding /\ rPc' # "sum"
    BY <1>8 DEF SaveTruncate, SaveWrite, AckResume, AfterSave, Holding
  <2> QED
    BY <1>4, <2>1
<1>9. CASE StateFault
  <2>1. /\ UNCHANGED <<rNext, rHash>> /\ rPc' # "sum"
        /\ rPc' \in Holding => rPc \in Holding
    BY <1>9 DEF StateFault, AfterSave, Holding
  <2> QED
    BY <1>4, <2>1
<1>10. CASE ReceiveChunk
  <2> DEFINE m == Head(toR)
             k == rNext * F
  <2>1. /\ rPc = "recv" /\ toR # <<>> /\ m.type = "file_chunk"
        /\ \/ rPc' = "failing"
           \/ rNext' = rNext + 1 /\ rHash' = rHash \o m.chunk /\ rPc' \in {"save", "recv"}
    BY <1>10 DEF ReceiveChunk
  <2>2. CASE rPc' = "failing"
    BY <1>3, <2>2 DEF Holding
  <2>3. CASE rPc' # "failing"
    <3>1. m = toR[1] /\ 1 \in 1 .. Len(toR) /\ m \in ToReceiver
      BY <2>1, HeadTailFacts, LenProperties DEF Typed, TypeOK
    <3>2. m.chunk \in Seq(Byte) /\ Len(m.chunk) >= 1 /\ Len(m.chunk) \in Nat
      BY <2>1, <3>1, ReceivedMessages, LenProperties DEF Chunks
    <3>3. Number(1) = rNext
      BY <1>1, <2>1 DEF Number, Ahead
    <3>4. edits = 0 => k < L /\ m.chunk = ChunkAt(source, k)
      BY <2>1, <3>1, <3>3 DEF Chunks, Open, Accepted
    <3>5. k \in Nat /\ (rNext + 1) * F = k + F /\ (rNext + 1) - 1 = rNext
      BY <1>1, ChunkCounts
    <3>6. /\ rNext <= Len(rHash)
          /\ edits = 0 => Agrees(rHash) /\ (Len(rHash) = k \/ L < k)
      BY <2>1 DEF Held, Holding
    <3> HIDE DEF m, k, FlowInv, VerifiedInv
    <3>7. Len(rHash \o m.chunk) = Len(rHash) + Len(m.chunk)
      BY <1>1, <3>2, ConcatProperties
    <3>8. rNext + 1 <= Len(rHash \o m.chunk)
      BY <1>1, <3>2, <3>6, <3>7
    <3>9. ASSUME edits = 0
          PROVE  /\ Agrees(rHash \o m.chunk) /\ Taken(rNext + 1)
                 /\ \/ Len(rHash \o m.chunk) = (rNext + 1) * F
                    \/ Len(rHash \o m.chunk) = L /\ L < (rNext + 1) * F
      <4>1. k < L /\ Len(rHash) = k
        BY <1>1, <3>4, <3>5, <3>6, <3>9
      <4>2. /\ Len(m.chunk) = IF k + F < L THEN F ELSE L - k
            /\ \A j \in 1 .. Len(m.chunk) : m.chunk[j] = source[Len(rHash) + j]
        BY <1>1, <3>4, <3>5, <3>9, <4>1, ChunkFacts
      <4>3. Agrees(rHash \o m.chunk)
        BY <1>1, <3>2, <3>6, <3>9, <4>2, AgreesAppended
      <4>4. Taken(rNext + 1)
        BY <3>5, <4>1 DEF Taken, k
      <4> HIDE DEF F, L
      <4>5. \/ Len(rHash \o m.chunk) = (rNext + 1) * F
            \/ Len(rHash \o m.chunk) = L /\ L < (rNext + 1) * F
        BY <1>1, <3>5, <3>7, <4>1, <4>2
      <4> QED
        BY <4>3, <4>4, <4>5 DEF L, F
    <3>10. rNext' = rNext + 1 /\ rHash' = rHash \o m.chunk /\ rPc' \in {"save", "recv"}
      BY <2>1, <2>3
    <3> QED
      BY <1>2, <3>8, <3>9, <3>10 DEF Held, Agrees, Taken
  <2> QED
    BY <2>2, <2>3
<1>11. CASE ReceiveComplete
  <2> DEFINE m == Head(toR)
             k == rNext * F
  <2>1. /\ rPc = "recv" /\ toR # <<>> /\ UNCHANGED <<rNext, rHash>>
        /\ \/ rPc' = "failing"
           \/ rPc' = "sum" /\ m.type = "file_complete"
    BY <1>11 DEF ReceiveComplete
  <2>2. CASE rPc' = "failing"
    BY <1>3, <2>2 DEF Holding
  <2>3. CASE rPc' # "failing"
    <3>1. m = toR[1] /\ 1 \in 1 .. Len(toR) /\ m.type = "file_complete"
      BY <2>1, <2>3, HeadTailFacts, LenProperties DEF Typed, TypeOK
    <3>2. Number(1) = rNext
      BY <1>1, <2>1 DEF Number, Ahead
    <3>3. edits = 0 => k >= L
      BY <2>1, <3>1, <3>2 DEF Chunks, Open, Accepted
    <3>4. k \in Nat
      BY <1>1, ChunkCounts
    <3>5. rNext <= Len(rHash) /\ (edits = 0 => /\ Agrees(rHash) /\ Taken(rNext)
                                               /\ Len(rHash) = k \/ (Len(rHash) = L /\ L < k))
      BY <2>1 DEF Held, Holding
    <3>6. edits = 0 => Len(rHash) >= L
      BY <1>1, <3>3, <3>4, <3>5
    <3>7. UNCHANGED <<rNext, rHash>>
      BY <2>1
    <3> HIDE DEF m, FlowInv, VerifiedInv
    <3> QED
      BY <1>2, <3>5, <3>6, <3>7 DEF Held, Agrees, Taken
  <2> QED
    BY <2>2, <2>3
<1>12. CASE \/ ReceiveStartFresh \/ ReceiveEOF \/ ReceiveChecksum \/ SendSum \/ DeleteState
            \/ Rename \/ OpenDest \/ WriteDest \/ Cleanup \/ ReceiverLinkError \/ Unwind
            \/ ReceiverFault \/ ReceiverCrash \/ (\E sr, rr \in BOOLEAN : Connect(sr, rr))
  <2>1. rPc' \notin Holding
    BY <1>12 DEF ReceiveStartFresh, ReceiveEOF, ReceiveChecksum, SendSum, DeleteState, Rename,
       OpenDest, WriteDest, Cleanup, ReceiverLinkError, Unwind, ReceiverFault, ReceiverCrash,
       Connect, ReceiverBegins, Holding
  <2> QED
    BY <1>3, <2>1
<1>13. CASE \/ LinkLoss \/ UNCHANGED vars \/ (\E c \in Contents : EditSource(c))
            \/ (\E t \in Temps : ReapTemp(t))
  <2>1. UNCHANGED <<rPc, rNext, rHash>>
    BY <1>13 DEF LinkLoss, vars, EditSource, ReapTemp, receiver
  <2> QED
    BY <1>4, <2>1
<1>14. CASE ReceiverStep
  BY <1>6, <1>7, <1>8, <1>10, <1>11, <1>12, <1>14 DEF ReceiverStep
<1> HIDE DEF FlowInv, VerifiedInv
<1> QED
  BY <1>5, <1>9, <1>12, <1>13, <1>14 DEF Next

\* A record that is kept, and names the same temp file, stays good if that file
\* keeps its data or grows with the source.
Covered(data, n) ==
  /\ n <= Len(data)
  /\ edits = 0 => /\ Agrees(data) /\ Taken(n)
                  /\ Len(data) >= n * FileChunkSize \/ Len(data) >= Len(source)

\* Nothing else is needed of a step for the records to stay good.
LEMMA RecordsFollow ==
  ASSUME Records, VerifiedInv, [Next]_vars,
         \A id \in FileIDs :
           stateFile'[id].st = "saved" /\ stateFile'[id].temp \in temps' =>
             \/ /\ stateFile'[id] = stateFile[id] /\ stateFile[id].temp \in temps
                /\ temp'[stateFile[id].temp] = temp[stateFile[id].temp]
             \/ Covered(temp'[stateFile'[id].temp], stateFile'[id].next)
  PROVE  Records'
<1>1. edits' = 0 => edits = 0 /\ source' = source
  BY SourceKept
<1>2. Records <=> \A id \in FileIDs :
                    stateFile[id].st = "saved" /\ stateFile[id].temp \in temps =>
                      Covered(temp[stateFile[id].temp], stateFile[id].next)
  BY DEF Records, Covered
<1> SUFFICES ASSUME NEW id \in FileIDs, stateFile'[id].st = "saved", stateFile'[id].temp \in temps'
             PROVE  LET s == stateFile'[id] IN
                      /\ s.next <= Len(temp'[s.temp])
                      /\ edits' = 0 =>
                           /\ \A j \in 1 .. Len(temp'[s.temp]) :
                                j <= Len(source') => temp'[s.temp][j] = source'[j]
                           /\ s.next > 0 => (s.next - 1) * FileChunkSize < Len(source')
                           /\ \/ Len(temp'[s.temp]) >= s.next * FileChunkSize
                              \/ Len(temp'[s.temp]) >= Len(source')
  BY DEF Records, Agrees, Taken
<1> DEFINE d == temp'[stateFile'[id].temp]
           n == stateFile'[id].next
<1>3. Covered(d, n)
  BY <1>2
<1> HIDE DEF d, n
<1>4. /\ n <= Len(d)
      /\ edits' = 0 =>
           /\ \A j \in 1 .. Len(d) : j <= Len(source') => d[j] = source'[j]
           /\ n > 0 => (n - 1) * FileChunkSize < Len(source')
           /\ Len(d) >= n * FileChunkSize \/ Len(d) >= Len(source')
  BY <1>1, <1>3 DEF Covered, Agrees, Taken
<1> QED
  BY <1>4 DEF d, n

\* The resume records follow the temp files.
LEMMA RecordsStep ==
  ASSUME Records, Held, Owned, Chunks, FlowInv, FlowInv', Held', [Next]_vars
  PROVE  Records'
<1>1. /\ source \in Seq(Byte) /\ Len(source) \in Nat /\ temp \in [Temps -> Seq(Byte)]
      /\ rNext \in Nat /\ rHash \in Seq(Byte) /\ Len(rHash) \in Nat
      /\ temps \subseteq Temps /\ NoTemp \notin Temps
      /\ stateFile \in [FileIDs -> [st : {"absent", "torn", "saved"}, next : Nat,
                                    temp : Temps \cup {NoTemp}]]
  BY LenProperties, TempAssumption DEF Typed, TypeOK
<1>2. CASE UNCHANGED <<stateFile, temps, temp>>
  BY <1>2, RecordsFollow
<1>3. ASSUME NEW t, RemoveTemp(t), UNCHANGED stateFile
      PROVE  Records'
  <2>1. \A x \in temps' : x \in temps /\ temp'[x] = temp[x]
    BY <1>1, <1>3 DEF RemoveTemp
  <2> QED
    BY <1>3, <2>1, RecordsFollow
\* One temp file changes; the records that name it are covered.
<1>4. ASSUME NEW t \in Temps, NEW d, temp' = [temp EXCEPT ![t] = d],
             UNCHANGED <<stateFile, temps>>,
             \A id \in FileIDs : stateFile[id].st = "saved" /\ stateFile[id].temp = t /\ t \in temps =>
               Covered(d, stateFile[id].next)
      PROVE  Records'
  <2>1. VerifiedInv /\ temp'[t] = d /\ \A x \in Temps : x # t => temp'[x] = temp[x]
    BY <1>1, <1>4
  <2> HIDE DEF FlowInv, VerifiedInv
  <2>2. ASSUME NEW id \in FileIDs, stateFile'[id].st = "saved", stateFile'[id].temp \in temps'
        PROVE  \/ /\ stateFile'[id] = stateFile[id] /\ stateFile[id].temp \in temps
                  /\ temp'[stateFile[id].temp] = temp[stateFile[id].temp]
               \/ Covered(temp'[stateFile'[id].temp], stateFile'[id].next)
    <3>1. stateFile' = stateFile /\ temps' = temps
      BY <1>4
    <3>2. stateFile[id].temp \in Temps
      BY <1>1, <2>2, <3>1
    <3>3. CASE stateFile[id].temp = t
      BY <1>4, <2>1, <2>2, <3>1, <3>3
    <3>4. CASE stateFile[id].temp # t
      BY <2>1, <2>2, <3>1, <3>2, <3>4
    <3> QED
      BY <3>3, <3>4
  <2> QED
    BY <2>1, <2>2, RecordsFollow
\* The file a record names is cut, or extended, to what the record counts.
<1>5. ASSUME NEW a \in FileIDs, CanReopen(a), temp' = Truncated(a), UNCHANGED <<stateFile, temps>>
      PROVE  Records'
  <2> DEFINE s == stateFile[a]
             d == temp[s.temp]
             n == s.next * FileChunkSize
  <2>1. s.st = "saved" /\ s.temp \in temps /\ temp' = [temp EXCEPT ![s.temp] = Resize(d, n)]
    BY <1>5 DEF CanReopen, Truncated, ResumeOffset
  <2>2. s.temp \in Temps /\ s.next \in Nat /\ d \in Seq(Byte) /\ s.temp # NoTemp
    BY <1>1, <2>1
  <2>3. n \in Nat /\ s.next <= n
    BY <2>2, ChunkCounts
  <2>4. edits = 0 => Agrees(d) /\ Taken(s.next) /\ (Len(d) >= n \/ Len(d) >= Len(source))
    BY <2>1 DEF Records
  <2>5. \A id \in FileIDs : stateFile[id].temp = s.temp => id = a
    BY <2>2 DEF Owned
  <2>6. UNCHANGED <<stateFile, temps>>
    BY <1>5
  <2>7. n = s.next * FileChunkSize
    OBVIOUS
  <2> HIDE DEF FlowInv, d, n
  <2>8. Len(Resize(d, n)) = n
    BY <2>2, <2>3, DataTypes
  <2>9. edits = 0 => Agrees(Resize(d, n))
    BY <1>1, <2>2, <2>3, <2>4, AgreesResized
  <2>10. Covered(Resize(d, n), s.next)
    BY <2>3, <2>4, <2>7, <2>8, <2>9 DEF Covered
  <2>11. \A id \in FileIDs : stateFile[id].temp = s.temp => Covered(Resize(d, n), stateFile[id].next)
    BY <2>5, <2>10
  <2> QED
    BY <1>4, <2>1, <2>2, <2>6, <2>11
<1>6. CASE ReceiveStartResume
  <2>1. toR # <<>> /\ CanReopen(Head(toR).id) /\ temp' = Truncated(Head(toR).id)
    BY <1>6 DEF ReceiveStartResume
  <2>2. Head(toR).id \in FileIDs
    BY <2>1, HeadTailFacts, ReceivedMessages DEF Typed, TypeOK
  <2>3. UNCHANGED <<stateFile, temps>>
    BY <1>6 DEF ReceiveStartResume
  <2> QED
    BY <1>5, <2>1, <2>2, <2>3
<1>7. CASE ReceiveStartFresh
  <2>1. UNCHANGED <<stateFile, temps>> /\ toR # <<>>
    BY <1>7 DEF ReceiveStartFresh
  <2>2. temp' = temp \/ (CanReopen(Head(toR).id) /\ temp' = Truncated(Head(toR).id))
    BY <1>7 DEF ReceiveStartFresh
  <2>3. Head(toR).id \in FileIDs
    BY <2>1, HeadTailFacts, ReceivedMessages DEF Typed, TypeOK
  <2> QED
    BY <1>2, <1>5, <2>1, <2>2, <2>3
<1>8. CASE CreateTemp
  <2>1. PICK t \in FreshTemps :
          temps' = temps \cup {t} /\ temp' = [temp EXCEPT ![t] = <<>>] /\ stateFile' = stateFile
    BY <1>8 DEF CreateTemp
  <2>2. \A id \in FileIDs : stateFile[id].temp # t
    BY <2>1 DEF FreshTemps
  <2>3. \A x \in Temps : x # t => temp'[x] = temp[x]
    BY <1>1, <2>1
  <2>4. \A id \in FileIDs : stateFile'[id].temp \in temps' =>
          /\ stateFile'[id] = stateFile[id] /\ stateFile[id].temp \in temps
          /\ temp'[stateFile[id].temp] = temp[stateFile[id].temp]
    BY <1>1, <2>1, <2>2, <2>3
  <2> QED
    BY <2>4, RecordsFollow
<1>9. CASE SaveTruncate \/ DeleteState
  <2>1. /\ rId \in FileIDs /\ UNCHANGED <<temps, temp>>
        /\ \/ UNCHANGED stateFile
           \/ stateFile' = [stateFile EXCEPT ![rId] = Torn]
           \/ stateFile' = [stateFile EXCEPT ![rId] = Absent]
    BY <1>9 DEF SaveTruncate, DeleteState, Typed
  <2>2. \A id \in FileIDs : stateFile'[id].st = "saved" => stateFile'[id] = stateFile[id]
    BY <1>1, <2>1 DEF Torn, Absent
  <2> QED
    BY <2>1, <2>2, RecordsFollow
<1>10. CASE SaveWrite
  <2>1. /\ rPc = "saving" /\ rId \in FileIDs /\ rTmp \in Temps /\ UNCHANGED <<temps, temp>>
        /\ stateFile' = [stateFile EXCEPT ![rId] = Saved(rNext, rTmp)]
    BY <1>10 DEF SaveWrite, Typed
  <2>2. rHash = temp[rTmp]
    BY <1>1, <2>1 DEF HashTracksTemp
  <2>3. Covered(temp[rTmp], rNext)
    <3>1. rNext <= Len(rHash) /\ (edits = 0 => /\ Agrees(rHash) /\ Taken(rNext)
                                               /\ \/ Len(rHash) = rNext * FileChunkSize
                                                  \/ Len(rHash) = Len(source))
      BY <2>1 DEF Held, Holding
    <3>2. rNext * FileChunkSize \in Nat
      BY <1>1, ChunkCounts
    <3>3. edits = 0 => Len(rHash) >= rNext * FileChunkSize \/ Len(rHash) >= Len(source)
      BY <1>1, <3>1, <3>2
    <3> QED
      BY <2>2, <3>1, <3>3 DEF Covered
  <2>4. \A id \in FileIDs : stateFile'[id] = IF id = rId THEN Saved(rNext, rTmp) ELSE stateFile[id]
    BY <1>1, <2>1
  <2>5. Saved(rNext, rTmp).temp = rTmp /\ Saved(rNext, rTmp).next = rNext
    BY DEF Saved
  <2> QED
    BY <2>1, <2>3, <2>4, <2>5, RecordsFollow
\* More of the source lands in the temp file the receiver writes.
<1>11. ASSUME rTmp \in Temps, NEW c \in Seq(Byte), temp' = [temp EXCEPT ![rTmp] = @ \o c],
              UNCHANGED <<stateFile, temps>>,
              edits = 0 /\ Agrees(temp[rTmp]) => Agrees(temp[rTmp] \o c)
       PROVE  Records'
  <2> DEFINE d == temp[rTmp]
             e == d \o c
  <2>1. d \in Seq(Byte) /\ Len(e) = Len(d) + Len(c) /\ Len(d) \in Nat /\ Len(c) \in Nat
    BY <1>1, <1>11, ConcatProperties, LenProperties
  <2>2. temp' = [temp EXCEPT ![rTmp] = e]
    BY <1>11
  <2>3. edits = 0 /\ Agrees(d) => Agrees(e)
    BY <1>11
  <2> HIDE DEF e, FlowInv
  <2>4. ASSUME NEW id \in FileIDs, stateFile[id].st = "saved", stateFile[id].temp = rTmp, rTmp \in temps
        PROVE  Covered(e, stateFile[id].next)
    <3> DEFINE n == stateFile[id].next
    <3>1. n \in Nat /\ n * FileChunkSize \in Nat
      BY <1>1, ChunkCounts
    <3>2. Covered(d, n)
      BY <2>4 DEF Records, Covered
    <3> HIDE DEF n, d
    <3>3. n <= Len(e) /\ (Len(d) >= n * FileChunkSize => Len(e) >= n * FileChunkSize)
          /\ (Len(d) >= Len(source) => Len(e) >= Len(source))
      BY <1>1, <2>1, <3>1, <3>2 DEF Covered
    <3>4. Covered(e, n)
      BY <2>3, <3>2, <3>3 DEF Covered
    <3> QED
      BY <3>4 DEF n
  <2>5. rTmp \in Temps /\ UNCHANGED <<stateFile, temps>>
    BY <1>11
  <2> HIDE DEF d
  <2> QED
    BY <1>4, <2>2, <2>4, <2>5
\* A chunk the receiver expects continues what it holds.
<1>12. ASSUME rPc = "recv", toR # <<>>, Head(toR).type = "file_chunk", edits = 0
       PROVE  \A j \in 1 .. Len(Head(toR).chunk) : Head(toR).chunk[j] = source[Len(rHash) + j]
  <2> DEFINE k == rNext * FileChunkSize
  <2>1. Head(toR) = toR[1] /\ 1 \in 1 .. Len(toR)
    BY <1>12, HeadTailFacts, LenProperties DEF Typed, TypeOK
  <2>2. Number(1) = rNext
    BY <1>1, <1>12 DEF Number, Ahead
  <2>3. k < Len(source) /\ Head(toR).chunk = ChunkAt(source, k)
    BY <1>12, <2>1, <2>2 DEF Chunks, Open, Accepted
  <2>4. k \in Nat /\ (Len(rHash) = k \/ Len(source) < k)
    BY <1>1, <1>12, ChunkCounts DEF Held, Holding
  <2>5. Len(rHash) = k
    BY <1>1, <2>3, <2>4
  <2> HIDE DEF k
  <2> QED
    BY <1>1, <2>3, <2>4, <2>5, ChunkFacts
<1>13. rPc = "recv" => rTmp \in Temps /\ temp[rTmp] = rHash /\ rTmp # NoTemp
  BY <1>1 DEF Typed, HashTracksTemp
<1>14. toR # <<>> /\ Head(toR).type = "file_chunk" => Head(toR).chunk \in Seq(Byte)
  BY HeadTailFacts, ReceivedMessages DEF Typed, TypeOK
<1>15. CASE ReceiveChunk
  <2> DEFINE c == Head(toR).chunk
  <2>1. /\ rPc = "recv" /\ toR # <<>> /\ Head(toR).type = "file_chunk"
        /\ UNCHANGED <<stateFile, temps>>
        /\ UNCHANGED temp \/ temp' = [temp EXCEPT ![rTmp] = @ \o c]
    BY <1>15 DEF ReceiveChunk
  <2>2. edits = 0 => \A j \in 1 .. Len(c) : c[j] = source[Len(rHash) + j]
    BY <1>12, <2>1
  <2>3. c \in Seq(Byte) /\ rTmp \in Temps /\ temp[rTmp] = rHash
    BY <1>13, <1>14, <2>1
  <2> HIDE DEF c, FlowInv
  <2>4. edits = 0 /\ Agrees(temp[rTmp]) => Agrees(temp[rTmp] \o c)
    BY <1>1, <2>2, <2>3, AgreesAppended
  <2> QED
    BY <1>2, <1>11, <2>1, <2>3, <2>4
<1>16. CASE ReceiverCrash
  <2> DEFINE m == Head(toR)
  <2>1. UNCHANGED <<stateFile, temps>>
    BY <1>16 DEF ReceiverCrash
  <2>2. CASE UNCHANGED temp
    BY <1>2, <2>1, <2>2
  <2>3. CASE ~UNCHANGED temp
    <3>1. /\ rPc = "recv" /\ toR # <<>> /\ m.type = "file_chunk"
          /\ \E part \in Prefixes(m.chunk) : temp' = [temp EXCEPT ![rTmp] = @ \o part]
      BY <1>16, <2>3 DEF ReceiverCrash
    <3>2. PICK part \in Prefixes(m.chunk) : temp' = [temp EXCEPT ![rTmp] = @ \o part]
      BY <3>1
    <3>3. m.chunk \in Seq(Byte) /\ rTmp \in Temps /\ temp[rTmp] = rHash
      BY <1>13, <1>14, <3>1
    <3>4. /\ part \in Seq(Byte) /\ Len(part) \in Nat /\ Len(m.chunk) \in Nat
          /\ Len(part) <= Len(m.chunk) /\ \A j \in 1 .. Len(part) : part[j] = m.chunk[j]
      BY <3>2, <3>3, PrefixFacts, LenProperties
    <3>5. edits = 0 => \A j \in 1 .. Len(m.chunk) : m.chunk[j] = source[Len(rHash) + j]
      BY <1>12, <3>1
    <3>6. edits = 0 => \A j \in 1 .. Len(part) : part[j] = source[Len(rHash) + j]
      BY <3>4, <3>5
    <3> HIDE DEF m, FlowInv
    <3>7. edits = 0 /\ Agrees(temp[rTmp]) => Agrees(temp[rTmp] \o part)
      BY <1>1, <3>3, <3>4, <3>6, AgreesAppended
    <3> QED
      BY <1>11, <2>1, <3>2, <3>3, <3>4, <3>7
  <2> QED
    BY <2>2, <2>3
<1>17. CASE Rename \/ Cleanup \/ Unwind \/ (\E t \in Temps : ReapTemp(t))
  BY <1>3, <1>17 DEF Rename, Cleanup, Unwind, ReapTemp
<1>18. CASE SenderStep \/ SenderFault
  BY <1>2, <1>18 DEF SenderStep, SenderFault, SenderStat, SenderStart, SenderAck, SenderChunk,
       SenderEOF, SenderComplete, SenderChecksum, SenderVerdict, SenderLinkError,
       SenderUnchanged, disk
<1>19. CASE \/ ReceiveEOF \/ AckResume \/ ReceiveComplete \/ ReceiveChecksum \/ SendSum
            \/ OpenDest \/ WriteDest \/ ReceiverLinkError \/ StateFault \/ ReceiverFault
  BY <1>2, <1>19 DEF ReceiveEOF, AckResume, ReceiveComplete, ReceiveChecksum, SendSum, OpenDest,
       WriteDest, ReceiverLinkError, StateFault, ReceiverFault, disk
<1>20. CASE \/ LinkLoss \/ UNCHANGED vars \/ (\E c \in Contents : EditSource(c))
            \/ (\E sr, rr \in BOOLEAN : Connect(sr, rr))
  BY <1>2, <1>20 DEF LinkLoss, vars, EditSource, Connect, disk
<1>21. CASE ReceiverStep
  BY <1>6, <1>7, <1>8, <1>9, <1>10, <1>15, <1>17, <1>19, <1>21 DEF ReceiverStep
<1> HIDE DEF FlowInv, VerifiedInv
<1> QED
  BY <1>16, <1>17, <1>18, <1>19, <1>20, <1>21 DEF Next

\* Initially there are neither records nor messages.
LEMMA DataInit == Init => DataInv
<1> SUFFICES ASSUME Init PROVE DataInv
  OBVIOUS
<1>1. Len(toR) = 0
  BY LenProperties DEF Init
<1> QED
  BY <1>1, FlowInit DEF Init, DataInv, Owned, Chunks, SenderAt, Held, Records, Holding, Absent

\* The invariant is inductive.
LEMMA DataStep == DataInv /\ [Next]_vars => DataInv'
<1> HIDE DEF FlowInv
<1> SUFFICES ASSUME DataInv, [Next]_vars PROVE DataInv'
  OBVIOUS
<1>1. FlowInv /\ FlowInv' /\ Owned /\ Chunks /\ SenderAt /\ Held /\ Records
  BY FlowStep DEF DataInv
<1>2. VerifiedInv /\ VerifiedInv'
  BY <1>1 DEF FlowInv
<1> HIDE DEF VerifiedInv
<1>3. Owned'
  BY <1>1, <1>2, OwnedStep
<1>4. SenderAt'
  BY <1>1, SenderAtStep
<1>5. Chunks'
  BY <1>1, ChunksStep
<1>6. Held'
  BY <1>1, HeldStep
<1>7. Records'
  BY <1>1, <1>6, RecordsStep
<1> QED
  BY <1>1, <1>3, <1>4, <1>5, <1>6, <1>7 DEF DataInv

\* A record never counts more than its temp file holds.
THEOREM RecordsBehind == Spec => []StateNeverAhead
<1>1. ASSUME DataInv PROVE StateNeverAhead
  <2>1. /\ Records /\ Len(source) \in Nat /\ temp \in [Temps -> Seq(Byte)] /\ temps \subseteq Temps
        /\ stateFile \in [FileIDs -> [st : {"absent", "torn", "saved"}, next : Nat,
                                      temp : Temps \cup {NoTemp}]]
    BY <1>1, LenProperties DEF DataInv, Typed, TypeOK
  <2> SUFFICES ASSUME NEW id \in FileIDs, stateFile[id].st = "saved", stateFile[id].temp \in temps
               PROVE  LET s == stateFile[id] IN
                        /\ s.next <= Len(temp[s.temp])
                        /\ edits = 0 /\ s.next > 0 =>
                             (s.next - 1) * FileChunkSize < Len(temp[s.temp])
    BY DEF StateNeverAhead
  <2> DEFINE n == stateFile[id].next
             d == temp[stateFile[id].temp]
  <2>2. n \in Nat /\ d \in Seq(Byte) /\ Len(d) \in Nat
    BY <2>1, LenProperties
  <2>3. /\ n <= Len(d)
        /\ edits = 0 => /\ n > 0 => (n - 1) * FileChunkSize < Len(source)
                        /\ Len(d) >= n * FileChunkSize \/ Len(d) >= Len(source)
    BY <2>1 DEF Records, Taken
  <2>4. n > 0 => (n - 1) * FileChunkSize \in Nat /\ n * FileChunkSize \in Nat
                 /\ (n - 1) * FileChunkSize < n * FileChunkSize
    <3>1. n > 0 => n - 1 \in Nat
      BY <2>2
    <3> HIDE DEF n, d, FlowInv
    <3> QED
      BY <2>2, <3>1, ChunkCounts
  <2> HIDE DEF n, d
  <2>5. edits = 0 /\ n > 0 => (n - 1) * FileChunkSize < Len(d)
    BY <2>1, <2>2, <2>3, <2>4
  <2> QED
    BY <2>3, <2>5 DEF n, d
<1> QED
  BY DataInit, DataStep, <1>1, PTL DEF Spec

\* The prefix that was kept and the suffix that was sent are the source, unless the
\* temp file was extended beyond the end of a source with a short last chunk.
THEOREM ResumeFits == Spec => []CleanUnlessPadded
<1>1. ASSUME DataInv, Len(source) % FileChunkSize = 0 \/ Len(rHash) <= Len(source),
             edits = 0, rPc = "sum", toR # <<>>
      PROVE  Matches(Head(toR))
  <2>1. /\ source \in Seq(Byte) /\ rHash \in Seq(Byte) /\ rNext \in Nat
        /\ Len(source) \in Nat /\ Len(rHash) \in Nat
    BY <1>1, LenProperties DEF DataInv, Typed, TypeOK
  <2>2. Head(toR) = toR[1] /\ 1 \in 1 .. Len(toR)
    BY <1>1, HeadTailFacts, LenProperties DEF DataInv, Typed, TypeOK
  <2>3. Head(toR).type = "file_checksum" /\ Head(toR).checksum = Digest(source)
    BY <1>1, <2>2 DEF DataInv, SumNext, Chunks
  <2>4. /\ Agrees(rHash) /\ Taken(rNext) /\ Len(rHash) >= Len(source)
        /\ Len(rHash) = rNext * FileChunkSize \/ Len(rHash) = Len(source)
    BY <1>1 DEF DataInv, Held, Holding
  <2>5. Len(rHash) <= Len(source)
    <3>1. Len(source) % FileChunkSize = 0 => rNext * FileChunkSize <= Len(source)
      BY <2>1, <2>4, ChunksFit
    <3> QED
      BY <1>1, <2>1, <2>4, <3>1
  <2>6. Len(rHash) = Len(source)
    BY <2>1, <2>4, <2>5
  <2>7. \A i \in 1 .. Len(rHash) : rHash[i] = source[i]
    BY <2>4, <2>6 DEF Agrees
  <2>8. rHash = source
    BY <2>1, <2>6, <2>7, SeqEqual
  <2> QED
    BY <2>3, <2>8 DEF Matches
<1>2. DataInv => CleanUnlessPadded
  BY <1>1 DEF CleanUnlessPadded, CleanResume
<1> QED
  BY DataInit, DataStep, <1>2, PTL DEF Spec

-----------------------------------------------------------------------------
(* What an end without an error means.                                     *)

\* Stored holds initially.
LEMMA StoredInit == Init => Stored
  BY DEF Init, Stored

\* The destination, once complete, stays so to the end of the session, and the
\* announced checksum with it.
LEMMA StoredStep ==
  ASSUME Stored, VerifiedInv, VerifiedInv', [Next]_vars
  PROVE  Stored'
<1> DEFINE At(pc, id) == pc = "cleanup" \/ (pc \in {"wait_start", "ok"} /\ id # NoFile)
           Whole == [st |-> IF isArchive THEN "tree" ELSE "whole", data |-> rHash]
<1>1. ASSUME UNCHANGED <<rId, rPc, rHash, dest, isArchive>>,
             sPc' \in {"stat", "start"} => sPc \in {"stat", "start"},
             sSum' = sSum \/ sPc = "start"
      PROVE  Stored'
  BY <1>1 DEF Stored, BeforeStart
<1>2. ASSUME UNCHANGED <<rId, sPc, sSum>>,
             rPc' \notin {"cleanup", "wait_start", "ok"}
             \/ /\ rPc \in {"wait_start", "cleanup"} /\ rPc' \in {"wait_start", "ok"}
                /\ UNCHANGED <<rHash, dest, isArchive>>
             \/ /\ rPc' = "cleanup" /\ rPc \in Verified
                /\ rHash' = rHash /\ dest' = Whole /\ isArchive' = isArchive
      PROVE  Stored'
  BY <1>2 DEF Stored, VerifiedHash
<1>3. CASE SenderStep \/ SenderFault
  <2>1. UNCHANGED <<rId, rPc, rHash, dest, isArchive>>
    BY <1>3 DEF SenderStep, SenderFault, SenderStat, SenderStart, SenderAck, SenderChunk,
       SenderEOF, SenderComplete, SenderChecksum, SenderVerdict, SenderLinkError, Fault,
       SenderUnchanged, receiver, environment
  <2>2. /\ sPc' \in {"stat", "start"} => sPc \in {"stat", "start"}
        /\ sSum' = sSum \/ sPc = "start"
    BY <1>3 DEF SenderStep, SenderFault, SenderStat, SenderStart, SenderAck, SenderChunk,
       SenderEOF, SenderComplete, SenderChecksum, SenderVerdict, Verdict, SenderLinkError
  <2> QED
    BY <1>1, <2>1, <2>2
<1>4. CASE ReceiverStep \/ StateFault \/ ReceiverFault \/ ReceiverCrash
  <2> USE DEF ReceiverUnchanged, sender, environment
  <2>1. CASE ReceiveStartResume \/ ReceiveStartFresh
    <3>1. /\ toR # <<>> /\ rPc' \in {"ack", "create", "failing"} /\ sPc' = sPc
      BY <2>1 DEF ReceiveStartResume, ReceiveStartFresh
    <3> QED
      BY <3>1 DEF Stored, BeforeStart
  <2>2. CASE ReceiveEOF \/ Cleanup
    BY <1>2, <2>2 DEF ReceiveEOF, Cleanup
  <2>3. CASE Rename
    <3>1. rPc = "store" /\ rHash = temp[rTmp]
      BY <2>3, TempAssumption DEF Rename, HashTracksTemp, Typed
    <3> QED
      BY <1>2, <2>3, <3>1 DEF Rename, Verified
  <2>4. CASE WriteDest
    <3>1. rPc = "write" /\ rHash = temp[rTmp]
      BY <2>4, TempAssumption DEF WriteDest, HashTracksTemp, Typed
    <3> QED
      BY <1>2, <2>4, <3>1 DEF WriteDest, Verified
  <2>5. CASE \/ CreateTemp \/ SaveTruncate \/ SaveWrite \/ AckResume \/ ReceiveChunk
             \/ ReceiveComplete \/ ReceiveChecksum \/ SendSum \/ DeleteState \/ OpenDest
             \/ ReceiverLinkError \/ Unwind \/ StateFault \/ ReceiverFault \/ ReceiverCrash
    <3>1. UNCHANGED <<rId, sPc, sSum>> /\ rPc' \notin {"cleanup", "wait_start", "ok"}
      BY <2>5 DEF CreateTemp, SaveTruncate, SaveWrite, AckResume, AfterSave, ReceiveChunk,
         ReceiveComplete, ReceiveChecksum, SendSum, DeleteState, OpenDest, ReceiverLinkError,
         Unwind, StateFault, ReceiverFault, ReceiverCrash
    <3> QED
      BY <1>2, <3>1
  <2> QED
    BY <1>4, <2>1, <2>2, <2>3, <2>4, <2>5 DEF ReceiverStep
<1>5. CASE \E sr, rr \in BOOLEAN : Connect(sr, rr)
  BY <1>5 DEF Connect, ReceiverBegins, Stored
<1>6. CASE \/ LinkLoss \/ UNCHANGED vars \/ (\E c \in Contents : EditSource(c))
           \/ (\E t \in Temps : ReapTemp(t))
  <2>1. UNCHANGED <<rId, rPc, rHash, dest, isArchive, sPc, sSum>>
    BY <1>6 DEF LinkLoss, vars, EditSource, ReapTemp, Fault, receiver, sender, environment
  <2> QED
    BY <1>1, <2>1
<1> HIDE DEF VerifiedInv
<1> QED
  BY <1>3, <1>4, <1>5, <1>6 DEF Next

\* A receiver that ends without an error has stored what it announced last.
THEOREM OkIsStored == Spec => []ReceiverOkIsComplete
<1>1. Stored => ReceiverOkIsComplete
  BY DEF Stored, ReceiverOkIsComplete
<1>2. Init => VerifiedInv /\ Stored
  BY VerifiedInit, StoredInit
<1>3. (VerifiedInv /\ Stored) /\ [Next]_vars => (VerifiedInv /\ Stored)'
  BY VerifiedStep, StoredStep
<1> QED
  BY <1>1, <1>2, <1>3, PTL DEF Spec

\* The steps of the sender take an ack that is under way, and send none.
LEMMA AckTaken ==
  ASSUME VerifiedInv, SenderStep \/ SenderFault, Acked'
  PROVE  Acked
<1>1. toS \in Seq(ToSender) /\ Len(toS) \in Nat
  BY LenProperties DEF Typed, TypeOK
<1>2. toS # <<>> => /\ Head(toS) = toS[1] /\ Len(toS) >= 1 /\ Len(Tail(toS)) = Len(toS) - 1
                    /\ \A i \in 1 .. Len(Tail(toS)) : Tail(toS)[i] = toS[i + 1]
  BY <1>1, HeadTailFacts
<1>3. ASSUME sPc' # "ok", toS' \in {toS, <<>>}
      PROVE  Acked
  BY <1>3, LenProperties DEF Acked
<1>4. CASE SenderAck
  <2>1. PICK i \in 1 .. Len(Tail(toS)) : Tail(toS)[i].type = "file_checksum"
    BY <1>4 DEF SenderAck, Acked
  <2>2. i + 1 \in 1 .. Len(toS) /\ toS[i + 1].type = "file_checksum"
    BY <1>1, <1>2, <1>4, <2>1 DEF SenderAck
  <2> QED
    BY <2>2 DEF Acked
<1>5. CASE SenderVerdict
  <2>1. CASE Head(toS).type = "file_checksum"
    <3>1. 1 \in 1 .. Len(toS) /\ toS[1].type = "file_checksum"
      BY <1>1, <1>2, <1>5, <2>1 DEF SenderVerdict
    <3> QED
      BY <3>1 DEF Acked
  <2>2. CASE Head(toS).type # "file_checksum"
    BY <1>3, <1>5, <2>2 DEF SenderVerdict, Verdict, SenderHangsUp
  <2> QED
    BY <2>1, <2>2
<1>6. CASE \/ SenderStat \/ SenderStart \/ SenderChunk \/ SenderEOF \/ SenderComplete
           \/ SenderChecksum \/ SenderLinkError \/ SenderFault
  <2>1. sPc' # "ok" /\ toS' \in {toS, <<>>}
    BY <1>6 DEF SenderStat, SenderStart, SenderChunk, SenderEOF, SenderComplete, SenderChecksum,
       SenderLinkError, SenderFault, SenderHangsUp, Finished, net
  <2> QED
    BY <1>3, <2>1
<1> QED
  BY <1>4, <1>5, <1>6 DEF SenderStep

\* A fault is counted.
LEMMA FaultCounted ==
  ASSUME Typed, Fault
  PROVE  faults' # 0
<1>1. faults \in Nat
  BY BoundAssumption DEF Typed, TypeOK
<1> QED
  BY <1>1 DEF Fault

\* The receiver fails after its ack only by a fault or at an archive that is none.
LEMMA AckKeptReceiver ==
  ASSUME VerifiedInv, VerifiedInv', AckKept, ReceiverStep
  PROVE  AckKept'
<1> USE DEF ReceiverUnchanged, sender, environment
<1> SUFFICES ASSUME Acked', faults' = 0, ~(isArchive' /\ rHash' \notin Archives'),
                    rPc' \in {"failing", "failed", "ok"}
             PROVE  rPc' = "ok" /\ rId' # NoFile
  BY DEF AckKept
<1>1. ASSUME toS' = toS, sPc' = sPc
      PROVE  /\ rPc \in {"delete", "store", "write", "cleanup", "failing", "failed", "ok",
                         "wait_start"}
             /\ rPc = "wait_start" => rId # NoFile /\ toR = <<>>
  BY <1>1 DEF Acked, AckedHash, Verified, VerifiedIsLast
<1>2. ~ReceiveStartResume /\ ~CreateTemp /\ ~SaveTruncate /\ ~SaveWrite /\ ~AckResume
  BY DEF ReceiveStartResume, CreateTemp, SaveTruncate, SaveWrite, AfterSave, AckResume
<1>3. ~SendSum /\ ~DeleteState /\ ~Rename /\ ~OpenDest /\ ~Cleanup
  BY DEF SendSum, DeleteState, Rename, OpenDest, Cleanup
<1>4. ~ReceiveStartFresh
  <2>1. ReceiveStartFresh => toS' = toS /\ sPc' = sPc /\ rPc = "wait_start" /\ toR # <<>>
    BY DEF ReceiveStartFresh
  <2> QED
    BY <1>1, <2>1
<1>5. ~ReceiveChunk /\ ~ReceiveComplete /\ ~ReceiveChecksum /\ ~ReceiverLinkError
  <2>1. ReceiveChunk \/ ReceiveComplete \/ ReceiveChecksum \/ ReceiverLinkError =>
          toS' = toS /\ sPc' = sPc /\ rPc \in {"recv", "sum", "ack", "send_sum"}
    BY DEF ReceiveChunk, ReceiveComplete, ReceiveChecksum, ReceiverLinkError, net
  <2> QED
    BY <1>1, <2>1
<1>6. ~WriteDest
  <2> SUFFICES ASSUME WriteDest PROVE FALSE
    OBVIOUS
  <2>1. rHash = temp[rTmp] /\ UNCHANGED <<rHash, isArchive>>
    BY TempAssumption DEF WriteDest, HashTracksTemp, Typed
  <2>2. isArchive /\ temp[rTmp] \notin Archives
    BY DEF WriteDest
  <2> QED
    BY <2>1, <2>2
<1>7. ASSUME toS' \in Prefixes(toS), sPc' = sPc
      PROVE  Acked
  <2>1. toS \in Seq(ToSender)
    BY DEF Typed, TypeOK
  <2>2. Len(toS') <= Len(toS) /\ \A i \in 1 .. Len(toS') : toS'[i] = toS[i]
    BY <1>7, <2>1, PrefixFacts
  <2>3. Len(toS) \in Nat /\ Len(toS') \in Nat
    BY QueueLengths
  <2> QED
    BY <1>7, <2>2, <2>3 DEF Acked
<1>8. CASE ReceiveEOF
  BY <1>7, <1>8 DEF ReceiveEOF, ReceiverHangsUp, AckedHash
<1>9. CASE Unwind
  BY <1>7, <1>9 DEF Unwind, ReceiverHangsUp, AckKept
<1> HIDE DEF VerifiedInv
<1> QED
  BY <1>2, <1>3, <1>4, <1>5, <1>6, <1>8, <1>9 DEF ReceiverStep

\* Every step keeps it.
LEMMA AckKeptStep ==
  ASSUME VerifiedInv, VerifiedInv', AckKept, [Next]_vars
  PROVE  AckKept'
<1>1. CASE SenderStep \/ SenderFault
  <2>1. UNCHANGED <<rPc, rId, rHash, isArchive>>
    BY <1>1 DEF SenderStep, SenderFault, SenderStat, SenderStart, SenderAck, SenderChunk,
       SenderEOF, SenderComplete, SenderChecksum, SenderVerdict, SenderLinkError, Fault,
       SenderUnchanged, receiver, environment
  <2>2. faults' = faults \/ faults' # 0
    BY <1>1, FaultCounted DEF SenderStep, SenderFault, SenderStat, SenderStart, SenderAck,
       SenderChunk, SenderEOF, SenderComplete, SenderChecksum, SenderVerdict, SenderLinkError,
       SenderUnchanged, environment
  <2> QED
    BY <1>1, <2>1, <2>2, AckTaken DEF AckKept
<1>2. CASE ReceiverStep
  BY <1>2, AckKeptReceiver
<1>3. CASE StateFault \/ ReceiverFault \/ ReceiverCrash \/ LinkLoss \/ \E t \in Temps : ReapTemp(t)
  BY <1>3, FaultCounted DEF StateFault, ReceiverFault, ReceiverCrash, LinkLoss, ReapTemp, AckKept
<1>4. CASE \E sr, rr \in BOOLEAN : Connect(sr, rr)
  <2>1. sPc' = "stat" /\ Len(toS') = 0
    BY <1>4 DEF Connect, SenderBegins
  <2> QED
    BY <2>1 DEF AckKept, Acked
<1>5. CASE UNCHANGED vars \/ \E c \in Contents : EditSource(c)
  <2>1. UNCHANGED <<rPc, rId, rHash, isArchive, faults, sPc, toS>>
    BY <1>5 DEF vars, EditSource, receiver, sender, net, environment
  <2> QED
    BY <2>1 DEF AckKept, Acked
<1> HIDE DEF VerifiedInv
<1> QED
  BY <1>1, <1>2, <1>3, <1>4, <1>5 DEF Next

\* After the sender's success the receiver has stored the file, unless something
\* failed or an archive was none (p2p.go:572-602).
THEOREM AckedFilesAreStored == Spec => []AckedIsStored
<1>1. VerifiedInv /\ Stored /\ AckKept => AckedIsStored
  <2> SUFFICES ASSUME VerifiedInv, Stored, AckKept, sPc = "ok", rPc \in Finished, faults = 0,
                      ~(isArchive /\ rHash \notin Archives)
               PROVE  /\ rPc = "ok"
                      /\ dest = [st |-> IF isArchive THEN "tree" ELSE "whole", data |-> rHash]
    BY BoundAssumption DEF AckedIsStored, Typed, TypeOK
  <2>1. rPc = "ok" /\ rId # NoFile
    BY DEF AckKept, Acked, AckedHash, Verified, Finished
  <2> QED
    BY <2>1 DEF Stored
<1>2. Init => AckKept
  BY LenProperties DEF Init, AckKept, Acked
<1>3. Init => VerifiedInv /\ Stored /\ AckKept
  BY <1>2, VerifiedInit, StoredInit
<1>4. (VerifiedInv /\ Stored /\ AckKept) /\ [Next]_vars => (VerifiedInv /\ Stored /\ AckKept)'
  BY VerifiedStep, StoredStep, AckKeptStep
<1> QED
  BY <1>1, <1>3, <1>4, PTL DEF Spec
=============================================================================
