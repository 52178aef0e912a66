----------------------------- MODULE RelayProofs -----------------------------
(***************************************************************************)
(* Proofs about Relay for any number of clients and codes: its types, that *)
(* a code admits one receiver and brings it to the right sender, and that  *)
(* the hand-off never blocks.                                              *)
(***************************************************************************)
EXTENDS Relay, SequenceTheorems, TLAPS

USE CodeAssumption, NoneAssumption

-----------------------------------------------------------------------------
(* The inductive invariant.                                                *)

\* A client that has not dialled has no goroutine, and a receiver's goroutine
\* holds a sender exactly between a successful look-up and its end.
Started ==
  /\ \A s \in Senders : sc[s] = "idle" => sh[s] = "absent"
  /\ \A r \in Receivers :
       /\ rc[r] = "idle" => rh[r] = "absent"
       /\ rh[r] \in {"absent", "lookup", "reject"} => found[r] = None
       /\ rh[r] \in {"ack", "handoff"} => found[r] # None

\* A goroutine has a code once it registered one, and no two have the same.
CodesDiffer ==
  /\ \A s \in Senders : code[s] = NoCode <=> sh[s] \in {"absent", "register"}
  /\ \A s, t \in Senders : code[s] = code[t] /\ code[s] # NoCode => s = t

\* A code that was taken is out of the map, and was that of the sender found.
TakenIsGone ==
  \A r \in Receivers : Took(r) =>
    want[r] \in Codes /\ code[found[r]] = want[r] /\ pending[want[r]] = None

Told(r) == rWire[r] # <<>> \/ rc[r] # "await_ok"

\* What is in a channel, or bridged, is a receiver that found this sender, was
\* told ok and handed itself over.
HandedOver ==
  /\ \A r \in Receivers : rh[r] = "handoff" => Told(r)
  /\ \A s \in Senders : \A r \in Receivers : r \in {ch[s], peer[s]} =>
       found[r] = s /\ rh[r] = "done" /\ Told(r)

\* A goroutine has a peer while it bridges, and none before.
Bridged ==
  \A s \in Senders :
    /\ sh[s] = "pipe" => peer[s] # None
    /\ peer[s] # None => sh[s] \in {"pipe", "done"}

\* A sender has been sent one line at most before it is bridged, none before
\* its goroutine replies.
LinesSent ==
  \A s \in Senders :
    /\ peer[s] = None =>
         /\ Len(sWire[s]) <= 1
         /\ sc[s] = "await_ok" => sWire[s] = <<>>
         /\ sc[s] # "session"
    /\ sh[s] \in {"absent", "register", "reply"} =>
         sWire[s] = <<>> /\ sc[s] \notin {"await_ok", "session"}

RelayInv ==
  TypeOK /\ Started /\ CodesDiffer /\ PendingIsLive /\ TakenIsGone /\ CodeUsedOnce
    /\ HandedOver /\ Bridged /\ LinesSent

-----------------------------------------------------------------------------

\* The invariant holds of a relay nobody has dialled.
LEMMA RelayInit == Init => RelayInv
  BY DEF Init, RelayInv, TypeOK, Started, CodesDiffer, PendingIsLive, TakenIsGone,
     CodeUsedOnce, HandedOver, Bridged, LinesSent, Took

\* A step of a sender's goroutine, the timer included, keeps it.
LEMMA RelaySender ==
  ASSUME RelayInv, NEW s \in Senders,
         Register(s) \/ ReplyCode(s) \/ ReplyFails(s) \/ Bridge(s) \/
           BridgeFails(s) \/ Timeout(s) \/ Drop(s) \/ PipeEnds(s)
  PROVE  RelayInv'
<1> USE DEF RelayInv, SenderSide, Took, Told
<1>1. CASE Register(s)
  <2>1. TypeOK'
    BY <1>1 DEF Register, TypeOK
  <2>2. Started'
    BY <1>1 DEF Register, Started
  <2>3. CodesDiffer'
    BY <1>1 DEF Register, TypeOK, CodesDiffer
  <2>4. PendingIsLive'
    BY <1>1 DEF Register, TypeOK, PendingIsLive
  <2>5. TakenIsGone'
    BY <1>1 DEF Register, TypeOK, CodesDiffer, TakenIsGone
  <2>6. Bridged'
    BY <1>1 DEF Register, Bridged
  <2>7. LinesSent'
    BY <1>1 DEF Register, LinesSent
  <2>8. CodeUsedOnce' /\ HandedOver'
    BY <1>1 DEF Register, CodeUsedOnce, HandedOver
  <2> QED
    BY <2>1, <2>2, <2>3, <2>4, <2>5, <2>6, <2>7, <2>8
<1>2. CASE ReplyCode(s)
  <2>1. TypeOK'
    BY <1>2 DEF ReplyCode, TypeOK
  <2>2. Started'
    BY <1>2 DEF ReplyCode, Started
  <2>3. CodesDiffer'
    BY <1>2 DEF ReplyCode, CodesDiffer
  <2>4. PendingIsLive'
    BY <1>2 DEF ReplyCode, PendingIsLive
  <2>5. Bridged'
    BY <1>2 DEF ReplyCode, Bridged
  <2>6. LinesSent'
    BY <1>2 DEF ReplyCode, TypeOK, LinesSent
  <2>7. TakenIsGone' /\ CodeUsedOnce' /\ HandedOver'
    BY <1>2 DEF ReplyCode, TakenIsGone, CodeUsedOnce, HandedOver
  <2> QED
    BY <2>1, <2>2, <2>3, <2>4, <2>5, <2>6, <2>7
<1>3. CASE ReplyFails(s)
  <2>1. TypeOK'
    BY <1>3 DEF ReplyFails, TypeOK
  <2>2. Started'
    BY <1>3 DEF ReplyFails, Started
  <2>3. CodesDiffer'
    BY <1>3 DEF ReplyFails, CodesDiffer
  <2>4. PendingIsLive'
    BY <1>3 DEF ReplyFails, PendingIsLive
  <2>5. Bridged'
    BY <1>3 DEF ReplyFails, Bridged
  <2>6. LinesSent'
    BY <1>3 DEF ReplyFails, LinesSent
  <2>7. TakenIsGone' /\ CodeUsedOnce' /\ HandedOver'
    BY <1>3 DEF ReplyFails, TakenIsGone, CodeUsedOnce, HandedOver
  <2> QED
    BY <2>1, <2>2, <2>3, <2>4, <2>5, <2>6, <2>7
<1>4. CASE Bridge(s)
  <2>1. TypeOK'
    BY <1>4 DEF Bridge, TypeOK
  <2>2. Started'
    BY <1>4 DEF Bridge, Started
  <2>3. CodesDiffer'
    BY <1>4 DEF Bridge, CodesDiffer
  <2>4. PendingIsLive'
    BY <1>4 DEF Bridge, TypeOK, PendingIsLive, TakenIsGone, HandedOver
  <2>5. HandedOver'
    BY <1>4 DEF Bridge, HandedOver
  <2>6. Bridged'
    BY <1>4 DEF Bridge, TypeOK, Bridged
  <2>7. LinesSent'
    BY <1>4 DEF Bridge, TypeOK, LinesSent
  <2>8. TakenIsGone' /\ CodeUsedOnce'
    BY <1>4 DEF Bridge, TakenIsGone, CodeUsedOnce
  <2> QED
    BY <2>1, <2>2, <2>3, <2>4, <2>5, <2>6, <2>7, <2>8
<1>5. CASE BridgeFails(s)
  <2>1. TypeOK'
    BY <1>5 DEF BridgeFails, TypeOK
  <2>2. Started'
    BY <1>5 DEF BridgeFails, Started
  <2>3. CodesDiffer'
    BY <1>5 DEF BridgeFails, CodesDiffer
  <2>4. PendingIsLive'
    BY <1>5 DEF BridgeFails, TypeOK, PendingIsLive, TakenIsGone, HandedOver
  <2>5. HandedOver'
    BY <1>5 DEF BridgeFails, HandedOver
  <2>6. Bridged'
    BY <1>5 DEF BridgeFails, Bridged
  <2>7. LinesSent'
    BY <1>5 DEF BridgeFails, LinesSent
  <2>8. TakenIsGone' /\ CodeUsedOnce'
    BY <1>5 DEF BridgeFails, TakenIsGone, CodeUsedOnce
  <2> QED
    BY <2>1, <2>2, <2>3, <2>4, <2>5, <2>6, <2>7, <2>8
<1>6. CASE Timeout(s)
  <2>1. TypeOK'
    BY <1>6 DEF Timeout, TypeOK
  <2>2. Started'
    BY <1>6 DEF Timeout, Started
  <2>3. CodesDiffer'
    BY <1>6 DEF Timeout, CodesDiffer
  <2>4. PendingIsLive'
    BY <1>6 DEF Timeout, PendingIsLive
  <2>5. Bridged'
    BY <1>6 DEF Timeout, Bridged
  <2>6. LinesSent'
    BY <1>6 DEF Timeout, LinesSent
  <2>7. TakenIsGone' /\ CodeUsedOnce' /\ HandedOver'
    BY <1>6 DEF Timeout, TakenIsGone, CodeUsedOnce, HandedOver
  <2> QED
    BY <2>1, <2>2, <2>3, <2>4, <2>5, <2>6, <2>7
<1>7. CASE Drop(s)
  <2>1. TypeOK'
    BY <1>7 DEF Drop, TypeOK
  <2>2. Started'
    BY <1>7 DEF Drop, Started
  <2>3. CodesDiffer'
    BY <1>7 DEF Drop, CodesDiffer
  <2>4. PendingIsLive'
    BY <1>7 DEF Drop, TypeOK, PendingIsLive
  <2>5. TakenIsGone'
    BY <1>7 DEF Drop, TakenIsGone
  <2>6. Bridged'
    BY <1>7 DEF Drop, Bridged
  <2>7. LinesSent'
    BY <1>7 DEF Drop, LinesSent
  <2>8. CodeUsedOnce' /\ HandedOver'
    BY <1>7 DEF Drop, CodeUsedOnce, HandedOver
  <2> QED
    BY <2>1, <2>2, <2>3, <2>4, <2>5, <2>6, <2>7, <2>8
<1>8. CASE PipeEnds(s)
  <2>1. TypeOK'
    BY <1>8 DEF PipeEnds, TypeOK
  <2>2. Started'
    BY <1>8 DEF PipeEnds, Started
  <2>3. CodesDiffer'
    BY <1>8 DEF PipeEnds, CodesDiffer
  <2>4. PendingIsLive'
    BY <1>8 DEF PipeEnds, PendingIsLive
  <2>5. Bridged'
    BY <1>8 DEF PipeEnds, Bridged
  <2>6. LinesSent'
    BY <1>8 DEF PipeEnds, LinesSent
  <2>7. TakenIsGone' /\ CodeUsedOnce' /\ HandedOver'
    BY <1>8 DEF PipeEnds, TakenIsGone, CodeUsedOnce, HandedOver
  <2> QED
    BY <2>1, <2>2, <2>3, <2>4, <2>5, <2>6, <2>7
<1> QED
  BY <1>1, <1>2, <1>3, <1>4, <1>5, <1>6, <1>7, <1>8

\* A step of a receiver's goroutine keeps it; the look-up is what takes a code.
LEMMA RelayReceiver ==
  ASSUME RelayInv, NEW r \in Receivers,
         Lookup(r) \/ Reject(r) \/ AckReceiver(r) \/ AckFails(r) \/ Handoff(r)
           \/ Finalize(r)
  PROVE  RelayInv'
<1> USE DEF RelayInv, ReceiverSide, Took, Told
<1>1. CASE Lookup(r)
  <2>1. TypeOK'
    <3>1. CASE want[r] \in Codes
      <4>1. pending[want[r]] \in Senders \cup {None}
        BY <3>1 DEF TypeOK
      <4>2. /\ found' \in [Receivers -> Senders \cup {None}]
            /\ pending' \in [Codes -> Senders \cup {None}]
        BY <1>1, <4>1 DEF Lookup, TypeOK
      <4> QED
        BY <1>1, <4>2 DEF Lookup, TypeOK
    <3>2. CASE want[r] \notin Codes
      BY <1>1, <3>2 DEF Lookup, TypeOK
    <3> QED
      BY <3>1, <3>2
  <2>2. Started'
    BY <1>1 DEF Lookup, TypeOK, Started
  <2>3. PendingIsLive'
    BY <1>1 DEF Lookup, TypeOK, Started, PendingIsLive
  <2>4. TakenIsGone'
    BY <1>1 DEF Lookup, TypeOK, PendingIsLive, TakenIsGone
  <2>5. CodeUsedOnce'
    BY <1>1 DEF Lookup, TypeOK, Started, TakenIsGone, CodeUsedOnce
  <2>6. HandedOver'
    BY <1>1 DEF Lookup, TypeOK, HandedOver
  <2>7. CodesDiffer' /\ Bridged' /\ LinesSent'
    BY <1>1 DEF Lookup, CodesDiffer, Bridged, LinesSent
  <2> QED
    BY <2>1, <2>2, <2>3, <2>4, <2>5, <2>6, <2>7
<1>2. CASE Reject(r)
  <2>1. TypeOK'
    BY <1>2 DEF Reject, TypeOK
  <2>2. Started'
    BY <1>2 DEF Reject, Started
  <2>3. HandedOver'
    BY <1>2 DEF Reject, HandedOver
  <2>4. CodesDiffer' /\ PendingIsLive' /\ TakenIsGone' /\ CodeUsedOnce' /\ Bridged' /\ LinesSent'
    BY <1>2 DEF Reject, CodesDiffer, PendingIsLive, TakenIsGone, CodeUsedOnce, Bridged,
       LinesSent
  <2> QED
    BY <2>1, <2>2, <2>3, <2>4
<1>3. CASE AckReceiver(r)
  <2>1. TypeOK'
    BY <1>3 DEF AckReceiver, TypeOK
  <2>2. Started'
    BY <1>3 DEF AckReceiver, Started
  <2>3. HandedOver'
    <3>1. rWire'[r] # <<>>
      <4>1. rWire'[r] = Append(rWire[r], "ok") /\ rWire[r] \in Seq({"ok", "error"})
        BY <1>3 DEF AckReceiver, TypeOK
      <4> QED
        BY <4>1
    <3> QED
      BY <1>3, <3>1 DEF AckReceiver, HandedOver
  <2>4. CodesDiffer' /\ PendingIsLive' /\ TakenIsGone' /\ CodeUsedOnce' /\ Bridged' /\ LinesSent'
    BY <1>3 DEF AckReceiver, CodesDiffer, PendingIsLive, TakenIsGone, CodeUsedOnce,
       Bridged, LinesSent
  <2> QED
    BY <2>1, <2>2, <2>3, <2>4
<1>4. CASE AckFails(r)
  <2>1. TypeOK'
    BY <1>4 DEF AckFails, TypeOK
  <2>2. Started'
    BY <1>4 DEF AckFails, Started
  <2>3. HandedOver'
    BY <1>4 DEF AckFails, HandedOver
  <2>4. CodesDiffer' /\ PendingIsLive' /\ TakenIsGone' /\ CodeUsedOnce' /\ Bridged' /\ LinesSent'
    BY <1>4 DEF AckFails, CodesDiffer, PendingIsLive, TakenIsGone, CodeUsedOnce,
       Bridged, LinesSent
  <2> QED
    BY <2>1, <2>2, <2>3, <2>4
<1>5. CASE Handoff(r)
  <2>1. TypeOK'
    BY <1>5 DEF Handoff, TypeOK
  <2>2. Started'
    BY <1>5 DEF Handoff, Started
  <2>3. HandedOver'
    BY <1>5 DEF Handoff, TypeOK, HandedOver
  <2>4. CodesDiffer' /\ PendingIsLive' /\ TakenIsGone' /\ CodeUsedOnce' /\ Bridged' /\ LinesSent'
    BY <1>5 DEF Handoff, CodesDiffer, PendingIsLive, TakenIsGone, CodeUsedOnce, Bridged,
       LinesSent
  <2> QED
    BY <2>1, <2>2, <2>3, <2>4
<1>6. CASE Finalize(r)
  <2>1. TypeOK'
    BY <1>6 DEF Finalize, TypeOK
  <2>2. HandedOver'
    BY <1>6 DEF Finalize, HandedOver
  <2>3. Started' /\ CodesDiffer' /\ PendingIsLive' /\ TakenIsGone' /\ CodeUsedOnce' /\ Bridged' /\ LinesSent'
    BY <1>6 DEF Finalize, Started, CodesDiffer, PendingIsLive, TakenIsGone,
       CodeUsedOnce, Bridged, LinesSent
  <2> QED
    BY <2>1, <2>2, <2>3
<1> QED
  BY <1>1, <1>2, <1>3, <1>4, <1>5, <1>6

\* A step of a sender's client keeps it.
LEMMA SenderClients ==
  ASSUME RelayInv, NEW s \in Senders,
         SenderDials(s) \/ SenderReads(s) \/ SenderEOF(s) \/ SenderQuits(s)
  PROVE  RelayInv'
<1> USE DEF RelayInv, RelayUnchanged, Took, Told
<1>1. CASE SenderDials(s)
  <2>1. TypeOK'
    BY <1>1 DEF SenderDials, TypeOK
  <2>2. Started'
    BY <1>1 DEF SenderDials, TypeOK, Started
  <2>3. CodesDiffer'
    BY <1>1 DEF SenderDials, Started, CodesDiffer
  <2>4. PendingIsLive'
    BY <1>1 DEF SenderDials, Started, PendingIsLive
  <2>5. Bridged'
    BY <1>1 DEF SenderDials, Started, Bridged
  <2>6. LinesSent'
    BY <1>1 DEF SenderDials, Started, LinesSent
  <2>7. TakenIsGone' /\ CodeUsedOnce' /\ HandedOver'
    BY <1>1 DEF SenderDials, TakenIsGone, CodeUsedOnce, HandedOver
  <2> QED
    BY <2>1, <2>2, <2>3, <2>4, <2>5, <2>6, <2>7
<1>2. CASE SenderReads(s)
  <2>1. TypeOK'
    BY <1>2 DEF SenderReads, TypeOK
  <2>2. Started'
    BY <1>2 DEF SenderReads, Started
  <2>3. LinesSent'
    BY <1>2 DEF SenderReads, TypeOK, LinesSent
  <2>4. CodesDiffer' /\ PendingIsLive' /\ TakenIsGone' /\ CodeUsedOnce' /\ HandedOver' /\ Bridged'
    BY <1>2 DEF SenderReads, CodesDiffer, PendingIsLive, TakenIsGone, CodeUsedOnce,
       HandedOver, Bridged
  <2> QED
    BY <2>1, <2>2, <2>3, <2>4
<1>3. CASE SenderEOF(s)
  <2>1. TypeOK'
    BY <1>3 DEF SenderEOF, TypeOK
  <2>2. Started'
    BY <1>3 DEF SenderEOF, Started
  <2>3. LinesSent'
    BY <1>3 DEF SenderEOF, LinesSent
  <2>4. CodesDiffer' /\ PendingIsLive' /\ TakenIsGone' /\ CodeUsedOnce' /\ HandedOver' /\ Bridged'
    BY <1>3 DEF SenderEOF, CodesDiffer, PendingIsLive, TakenIsGone, CodeUsedOnce,
       HandedOver, Bridged
  <2> QED
    BY <2>1, <2>2, <2>3, <2>4
<1>4. CASE SenderQuits(s)
  <2>1. TypeOK'
    BY <1>4 DEF SenderQuits, TypeOK
  <2>2. Started'
    BY <1>4 DEF SenderQuits, Started
  <2>3. LinesSent'
    BY <1>4 DEF SenderQuits, LinesSent
  <2>4. CodesDiffer' /\ PendingIsLive' /\ TakenIsGone' /\ CodeUsedOnce' /\ HandedOver' /\ Bridged'
    BY <1>4 DEF SenderQuits, CodesDiffer, PendingIsLive, TakenIsGone, CodeUsedOnce,
       HandedOver, Bridged
  <2> QED
    BY <2>1, <2>2, <2>3, <2>4
<1> QED
  BY <1>1, <1>2, <1>3, <1>4

\* A step of a receiver's client keeps it.
LEMMA ReceiverClients ==
  ASSUME RelayInv, NEW r \in Receivers,
         ReceiverDials(r) \/ ReceiverReads(r) \/ ReceiverEOF(r) \/
           ReceiverQuits(r)
  PROVE  RelayInv'
<1> USE DEF RelayInv, RelayUnchanged, Took, Told
<1>1. CASE ReceiverDials(r)
  <2>1. TypeOK'
    <3>1. Known \subseteq Codes \cup {NoCode}
      BY DEF Known, TypeOK
    <3> QED
      BY <1>1, <3>1 DEF ReceiverDials, TypeOK
  <2>2. Started'
    BY <1>1 DEF ReceiverDials, TypeOK, Started
  <2>3. TakenIsGone'
    BY <1>1 DEF ReceiverDials, Started, TakenIsGone
  <2>4. CodeUsedOnce'
    BY <1>1 DEF ReceiverDials, Started, CodeUsedOnce
  <2>5. HandedOver'
    BY <1>1 DEF ReceiverDials, Started, HandedOver
  <2>6. CodesDiffer' /\ PendingIsLive' /\ Bridged' /\ LinesSent'
    BY <1>1 DEF ReceiverDials, CodesDiffer, PendingIsLive, Bridged, LinesSent
  <2> QED
    BY <2>1, <2>2, <2>3, <2>4, <2>5, <2>6
<1>2. CASE ReceiverReads(r)
  <2>1. TypeOK'
    BY <1>2 DEF ReceiverReads, TypeOK
  <2>2. Started'
    BY <1>2 DEF ReceiverReads, Started
  <2>3. HandedOver'
    BY <1>2 DEF ReceiverReads, TypeOK, HandedOver
  <2>4. CodesDiffer' /\ PendingIsLive' /\ TakenIsGone' /\ CodeUsedOnce' /\ Bridged' /\ LinesSent'
    BY <1>2 DEF ReceiverReads, CodesDiffer, PendingIsLive, TakenIsGone, CodeUsedOnce,
       Bridged, LinesSent
  <2> QED
    BY <2>1, <2>2, <2>3, <2>4
<1>3. CASE ReceiverEOF(r)
  <2>1. TypeOK'
    BY <1>3 DEF ReceiverEOF, TypeOK
  <2>2. Started'
    BY <1>3 DEF ReceiverEOF, Started
  <2>3. HandedOver'
    BY <1>3 DEF ReceiverEOF, HandedOver
  <2>4. CodesDiffer' /\ PendingIsLive' /\ TakenIsGone' /\ CodeUsedOnce' /\ Bridged' /\ LinesSent'
    BY <1>3 DEF ReceiverEOF, CodesDiffer, PendingIsLive, TakenIsGone, CodeUsedOnce,
       Bridged, LinesSent
  <2> QED
    BY <2>1, <2>2, <2>3, <2>4
<1>4. CASE ReceiverQuits(r)
  <2>1. TypeOK'
    BY <1>4 DEF ReceiverQuits, TypeOK
  <2>2. Started'
    BY <1>4 DEF ReceiverQuits, Started
  <2>3. HandedOver'
    BY <1>4 DEF ReceiverQuits, HandedOver
  <2>4. CodesDiffer' /\ PendingIsLive' /\ TakenIsGone' /\ CodeUsedOnce' /\ Bridged' /\ LinesSent'
    BY <1>4 DEF ReceiverQuits, CodesDiffer, PendingIsLive, TakenIsGone, CodeUsedOnce,
       Bridged, LinesSent
  <2> QED
    BY <2>1, <2>2, <2>3, <2>4
<1> QED
  BY <1>1, <1>2, <1>3, <1>4

\* Every step keeps it.
LEMMA RelayStep == RelayInv /\ [Next]_vars => RelayInv'
<1> SUFFICES ASSUME RelayInv, [Next]_vars PROVE RelayInv'
  OBVIOUS
<1>1. CASE UNCHANGED vars
  BY <1>1 DEF vars, RelayInv, TypeOK, Started, CodesDiffer, PendingIsLive, TakenIsGone,
     CodeUsedOnce, HandedOver, Bridged, LinesSent, Told, Took
<1>2. CASE Next
  BY <1>2, RelaySender, RelayReceiver, SenderClients, ReceiverClients DEF Next,
     SenderHandler, ReceiverHandler, SenderClient, ReceiverClient
<1> QED
  BY <1>1, <1>2

\* It holds in every reachable state.
LEMMA RelayInvariant == Spec => []RelayInv
  BY RelayInit, RelayStep, PTL DEF Spec

-----------------------------------------------------------------------------

\* Every variable of the relay and its clients keeps its type.
THEOREM RelayTypes == Spec => []TypeOK
<1>1. RelayInv => TypeOK
  BY DEF RelayInv
<1> QED
  BY <1>1, RelayInvariant, PTL

\* However many receivers present a code at once, one of them gets its sender.
THEOREM CodeAdmitsOne == Spec => []CodeUsedOnce
<1>1. RelayInv => CodeUsedOnce
  BY DEF RelayInv
<1> QED
  BY <1>1, RelayInvariant, PTL

\* A sender is handed, and bridged to, only a receiver that presented its code.
THEOREM PeerIsRight == Spec => []RightPeer
<1>1. RelayInv => RightPeer
  BY DEF RelayInv, TypeOK, TakenIsGone, HandedOver, RightPeer, Took
<1> QED
  BY <1>1, RelayInvariant, PTL

\* The channel of a sender is empty whenever a receiver's goroutine is about to
\* hand its connection over: the send at relay.go:117 never blocks.
THEOREM HandoffNeverBlocks == Spec => []HandoffHasRoom
<1>1. RelayInv => HandoffHasRoom
  BY DEF RelayInv, TypeOK, Started, TakenIsGone, CodeUsedOnce, HandedOver,
     HandoffHasRoom, Took
<1> QED
  BY <1>1, RelayInvariant, PTL

\* The map of pending codes leads only to goroutines that run.
THEOREM PendingLeadsToLive == Spec => []PendingIsLive
<1>1. RelayInv => PendingIsLive
  BY DEF RelayInv
<1> QED
  BY <1>1, RelayInvariant, PTL

\* A sender that starts its session is bridged to a receiver that was told ok.
THEOREM SessionsHavePeers == Spec => []SessionHasPeer
<1>1. RelayInv => SessionHasPeer
  BY DEF RelayInv, TypeOK, HandedOver, LinesSent, SessionHasPeer, Told
<1> QED
  BY <1>1, RelayInvariant, PTL
=============================================================================
