----------------------------- MODULE SecureSession -----------------------------
(***************************************************************************)
(* internal/session/session.go and internal/protocol: two ends run the     *)
(* three messages of Noise XX over a connection and then exchange encrypted *)
(* messages, one frame each, a file_chunk with a second frame of raw data. *)
(* Closing, and what becomes of the connection, is left to the module that *)
(* opens it: here it is up or cut.                                         *)
(*                                                                         *)
(* A frame cut in half reads like none (DecodeFrame fails either way), so  *)
(* the connection carries whole frames.  An encrypted frame is the key and *)
(* the nonce it was sealed with; noise fails to open it with any other.    *)
(* Operators named <definition>_<what> are plausible faults of <definition>. *)
(***************************************************************************)
EXTENDS Naturals, Sequences, SequencesExt

CONSTANTS
  MaxMessages,  \* bound on the messages each end sends
  Room          \* frames a direction of the connection buffers

VARIABLES
  pc,      \* what each end does
  hs,      \* handshake messages it has written or read
  ciphers, \* its two keys, to send and to receive with
  nonces,  \* their counters
  part,    \* the file_chunk it has sent, or received, the first frame of
  sent,    \* how often SendMessage was called
  got,     \* how many messages ReceiveMessage returned
  wire,    \* frames under way to each end
  live     \* whether the connection still carries frames

session == <<pc, hs, ciphers, nonces, part, sent, got, wire, live>>

Ends == {"initiator", "responder"}
Peer(e) == IF e = "initiator" THEN "responder" ELSE "initiator"

ASSUME SessionAssumption == MaxMessages \in [Ends -> Nat] /\ Room \in Nat

NoKey == [send |-> "none", receive |-> "none"]
NoPart == 0

Plain(n) == [type |-> "other", n |-> n]
FileChunk(n) == [type |-> "file_chunk", n |-> n]
Data(n) == [type |-> "data", n |-> n]
Sealed(key, nonce, body) == [key |-> key, nonce |-> nonce, body |-> body]
Handshake(n) == Sealed("noise", n, Plain(n))
Garbage == Sealed("garbage", 0, Plain(0))

Keys == {"none", "noise", "garbage", "cs1", "cs2"}
Frames == [key : Keys, nonce : Nat, body : [type : {"other", "file_chunk", "data"}, n : Nat]]

Active == {"handshake", "open", "sending", "receiving"}

SessionTypeOK ==
  /\ pc \in [Ends -> Active \cup {"off", "closed"}]
  /\ hs \in [Ends -> 0 .. 3]
  /\ ciphers \in [Ends -> [send : {"none", "cs1", "cs2"}, receive : {"none", "cs1", "cs2"}]]
  /\ nonces \in [Ends -> [send : Nat, receive : Nat]]
  /\ part \in [Ends -> Nat] /\ sent \in [Ends -> Nat] /\ got \in [Ends -> Nat]
  /\ \A e \in Ends : sent[e] <= MaxMessages[e] /\ got[e] <= MaxMessages[Peer(e)]
  /\ wire \in [Ends -> Seq(Frames)] /\ \A e \in Ends : Len(wire[e]) <= Room
  /\ live \in BOOLEAN

SessionInit ==
  /\ pc = [e \in Ends |-> "off"] /\ hs = [e \in Ends |-> 0]
  /\ ciphers = [e \in Ends |-> NoKey]
  /\ nonces = [e \in Ends |-> [send |-> 0, receive |-> 0]]
  /\ part = [e \in Ends |-> NoPart]
  /\ sent = [e \in Ends |-> 0] /\ got = [e \in Ends |-> 0]
  /\ wire = [e \in Ends |-> <<>>] /\ live = FALSE

\* A connection is open between a responder and a peer, which speaks the
\* protocol if it is another goxfer.
Open(speaks) ==
  /\ pc' = [e \in Ends |-> IF e = "responder" \/ speaks THEN "handshake" ELSE "off"]
  /\ live' = TRUE
  /\ UNCHANGED <<hs, ciphers, nonces, part, sent, got, wire>>

Become(e, p) == pc' = [pc EXCEPT ![e] = p]

\* Writing blocks while the connection is full; a frame written to one that is
\* cut is lost.
Carries(e) == live /\ pc[Peer(e)] # "closed"
CanWrite(e) == Carries(e) => Len(wire[Peer(e)]) < Room
Write(e, frame) ==
  wire' = [wire EXCEPT ![Peer(e)] = IF Carries(e) THEN Append(@, frame) ELSE @]
Read(e) == wire' = [wire EXCEPT ![e] = Tail(@)]

\* What a closed end knew, and what is on its way there, is of no more use.
Closes(e) ==
  /\ Become(e, "closed")
  /\ hs' = [hs EXCEPT ![e] = 0] /\ ciphers' = [ciphers EXCEPT ![e] = NoKey]
  /\ nonces' = [nonces EXCEPT ![e] = [send |-> 0, receive |-> 0]]
  /\ part' = [part EXCEPT ![e] = NoPart]
  /\ sent' = [sent EXCEPT ![e] = 0] /\ got' = [got EXCEPT ![e] = 0]
  /\ wire' = [wire EXCEPT ![e] = <<>>]

-----------------------------------------------------------------------------
(* The handshake: messages one and three are the initiator's.              *)

Writes(e) == (hs[e] % 2 = 0) = (e = "initiator")

\* Noise returns the cipher of the initiator's messages first, to both ends.
NewSession_NoSwap(e) == [send |-> "cs1", receive |-> "cs2"]

NewSession(e) == IF e = "initiator" THEN [send |-> "cs1", receive |-> "cs2"]
                                    ELSE [send |-> "cs2", receive |-> "cs1"]

Advance_NeverDone(e) ==
  hs' = [hs EXCEPT ![e] = @ + 1] /\ UNCHANGED <<pc, ciphers>>

Advance(e) ==
  /\ hs' = [hs EXCEPT ![e] = @ + 1]
  /\ IF hs[e] = 2
     THEN Become(e, "open") /\ ciphers' = [ciphers EXCEPT ![e] = NewSession(e)]
     ELSE UNCHANGED <<pc, ciphers>>

WriteHandshake(e) ==
  /\ pc[e] = "handshake" /\ Writes(e) /\ CanWrite(e)
  /\ Write(e, Handshake(hs[e] + 1)) /\ Advance(e)
  /\ UNCHANGED <<nonces, part, sent, got, live>>

\* Noise's verdict on a message: the first carries no proof of anything.
Verdicts(e, frame) ==
  IF hs[e] = 0 /\ frame = Garbage THEN BOOLEAN ELSE {frame = Handshake(hs[e] + 1)}

ReadHandshake(e) ==
  /\ pc[e] = "handshake" /\ ~Writes(e) /\ wire[e] # <<>>
  /\ \E valid \in Verdicts(e, Head(wire[e])) :
       IF valid THEN Advance(e) /\ Read(e) /\ UNCHANGED <<nonces, part, sent, got>>
                ELSE Closes(e)
  /\ UNCHANGED live

-----------------------------------------------------------------------------
(* Messages.                                                               *)

\* Encrypt counts the nonce up whether or not the frame arrives.
Encrypt(e, body) ==
  /\ CanWrite(e) /\ Write(e, Sealed(ciphers[e].send, nonces[e].send, body))
  /\ nonces' = [nonces EXCEPT ![e].send = @ + 1]

\* Of the two, only the sender of the files has chunks to send.
SendMessage(e) ==
  /\ pc[e] = "open" /\ sent[e] < MaxMessages[e]
  /\ LET n == sent[e] + 1 IN
       \E m \in {Plain(n)} \cup (IF e = "responder" THEN {FileChunk(n)} ELSE {}) :
         /\ Encrypt(e, m)
         /\ sent' = [sent EXCEPT ![e] = n]
         /\ IF m.type = "file_chunk"
            THEN Become(e, "sending") /\ part' = [part EXCEPT ![e] = n]
            ELSE UNCHANGED <<pc, part>>
  /\ UNCHANGED <<hs, ciphers, got, live>>

SendData(e) ==
  /\ pc[e] = "sending"
  /\ Encrypt(e, Data(part[e]))
  /\ Become(e, "open") /\ part' = [part EXCEPT ![e] = NoPart]
  /\ UNCHANGED <<hs, ciphers, sent, got, live>>

CanDecrypt(e, frame) == frame.key = ciphers[e].receive /\ frame.nonce = nonces[e].receive

\* A frame that does not decrypt, or whose text is no message, is an error;
\* Decrypt counts the nonce up when it succeeds.
Decrypt(e) == nonces' = [nonces EXCEPT ![e].receive = @ + 1]

ReceiveMessage(e) ==
  /\ pc[e] = "open" /\ wire[e] # <<>>
  /\ LET m == Head(wire[e]).body IN
       IF ~CanDecrypt(e, Head(wire[e])) \/ m.type = "data"
       THEN Closes(e)
       ELSE /\ Decrypt(e) /\ Read(e) /\ UNCHANGED <<hs, ciphers, sent>>
            /\ IF m.type = "file_chunk"
               THEN Become(e, "receiving") /\ part' = [part EXCEPT ![e] = m.n] /\ UNCHANGED got
               ELSE got' = [got EXCEPT ![e] = @ + 1] /\ UNCHANGED <<pc, part>>
  /\ UNCHANGED live

\* Whatever the second frame holds becomes the data of the chunk.
ReceiveData(e) ==
  /\ pc[e] = "receiving" /\ wire[e] # <<>>
  /\ IF CanDecrypt(e, Head(wire[e]))
     THEN /\ Decrypt(e) /\ Read(e) /\ got' = [got EXCEPT ![e] = @ + 1]
          /\ Become(e, "open") /\ part' = [part EXCEPT ![e] = NoPart]
          /\ UNCHANGED <<hs, ciphers, sent>>
     ELSE Closes(e)
  /\ UNCHANGED live

\* The error of a read or a write on a cut connection.
ConnError(e) ==
  /\ pc[e] \in Active /\ ~live
  /\ \/ wire[e] = <<>>
     \/ pc[e] = "sending"
     \/ pc[e] = "handshake" /\ Writes(e)
  /\ Closes(e) /\ UNCHANGED live

\* The transfer is over, or fails for a reason of its own.
Close(e) ==
  /\ pc[e] = "open" /\ Closes(e) /\ UNCHANGED live

\* What is under way when the connection is cut may arrive in part.
Cut ==
  /\ live /\ live' = FALSE
  /\ \E i \in Prefixes(wire["initiator"]), r \in Prefixes(wire["responder"]) :
       wire' = [initiator |-> i, responder |-> r]
  /\ UNCHANGED <<pc, hs, ciphers, nonces, part, sent, got>>

Progress(e) ==
  WriteHandshake(e) \/ ReadHandshake(e) \/ SendData(e) \/ ReceiveMessage(e)
    \/ ReceiveData(e) \/ ConnError(e)

-----------------------------------------------------------------------------
(* What must hold between two ends that speak the protocol.                *)

\* On a connection that loses nothing but its end, the two ends' keys are
\* crossed and their nonces in step through any mix of messages in both
\* directions: every frame decrypts, each message is the next the peer sent, and
\* the frame read after a file_chunk is that chunk's data (session.go:96-98,
\* 115, 129-130, 151, 161-166).
InStep ==
  \A e \in Ends :
    pc[e] \in {"open", "receiving"} /\ wire[e] # <<>> =>
      /\ CanDecrypt(e, Head(wire[e]))
      /\ Head(wire[e]).body.n = got[e] + 1
      /\ IF pc[e] = "receiving" THEN Head(wire[e]).body = Data(part[e])
                                ELSE Head(wire[e]).body.type # "data"
===============================================================================
