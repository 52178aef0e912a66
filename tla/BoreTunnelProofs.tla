--------------------------- MODULE BoreTunnelProofs ---------------------------
(***************************************************************************)
(* BoreTunnel and the SecureSession in it for any receivers, channel       *)
(* capacity and bounds: the two ends' keys and nonces stay in step through *)
(* any mix of messages, and no announced receiver is lost or doubled.      *)
(***************************************************************************)
EXTENDS BoreTunnel, SequenceTheorems, FiniteSetTheorems, TLAPS

Post == {"open", "sending", "receiving"}

\* What comes next in a stream of messages after b: the data of a file_chunk, or
\* the next message.
Follows(b, c) ==
  IF b.type = "file_chunk" THEN c = Data(b.n) ELSE c.n = b.n + 1 /\ c.type # "data"

\* Frames w, sealed with one key and consecutive nonces, that follow prev and go no
\* further than the last message.
Stream(w, key, nonce, prev, last) ==
  \A i \in 1 .. Len(w) :
    /\ w[i].key = key /\ w[i].nonce = nonce + i - 1 /\ w[i].body.n <= last
    /\ Follows(IF i = 1 THEN prev ELSE w[i - 1].body, w[i].body)

LastOf(w, prev) == IF w = <<>> THEN prev ELSE w[Len(w)].body

-----------------------------------------------------------------------------
(* The inductive invariant of the session.                                 *)

\* What end e has taken in last.
Taken(e) == IF pc[e] = "receiving" THEN FileChunk(part[e]) ELSE Plain(got[e])

\* The encrypted frames under way to e: a last handshake message comes before.
Rest(e) == IF pc[e] = "handshake" THEN Tail(wire[e]) ELSE wire[e]

ReceiveKey(e) == NewSession(e).receive

Streams(e) == Stream(Rest(e), ReceiveKey(e), nonces[e].receive, Taken(e), MaxMessages[Peer(e)])

\* What an end knows at each program counter.
Knows(e) ==
  /\ pc[e] = "off" => hs[e] = 0 /\ sent[e] = 0
  /\ pc[e] \in {"off", "handshake"} =>
       /\ hs[e] <= 2 /\ nonces[e] = [send |-> 0, receive |-> 0]
       /\ part[e] = 0 /\ sent[e] = 0 /\ got[e] = 0
  /\ pc[e] \in Post => ciphers[e] = NewSession(e)
  /\ pc[e] = "sending" => part[e] = sent[e]
  /\ pc[e] = "receiving" => part[e] = got[e] + 1

\* The last handshake message is under way once, ahead of the encrypted frames.
Under(e) ==
  /\ pc[e] \in Post => Streams(e)
  /\ pc[e] = "handshake" =>
       \A i \in 1 .. Len(wire[e]) : wire[e][i] = Handshake(3) => i = 1 /\ Streams(e)
  /\ pc[e] = "handshake" /\ e = "initiator" =>
       /\ Len(wire[e]) <= 1 /\ (hs[e] # 1 => wire[e] = <<>>)
       /\ \A i \in 1 .. Len(wire[e]) : wire[e][i] # Handshake(3)

\* After what is under way, e has taken what its peer has sent.
Linked(e) ==
  LET p == Peer(e)  b == LastOf(Rest(e), Taken(e)) IN
    /\ nonces[p].send = nonces[e].receive + Len(Rest(e))
    /\ b.n = sent[p] /\ (b.type = "file_chunk" <=> pc[p] = "sending")

\* The stages of the handshake, and of the session after it.
Greeting(i, r, toI, toR) ==
  /\ pc["initiator"] = "handshake" /\ pc["responder"] = "handshake"
  /\ hs["initiator"] = i /\ hs["responder"] = r
  /\ Len(wire["initiator"]) = toI /\ Len(wire["responder"]) = toR

Finishing ==
  /\ pc["initiator"] \in Post /\ pc["responder"] = "handshake" /\ hs["responder"] = 2
  /\ wire["initiator"] = <<>> /\ wire["responder"] # <<>>
  /\ wire["responder"][1] = Handshake(3)

Together ==
  live /\ (\A e \in Ends : pc[e] \in Active) =>
    \/ \E n \in {0, 1, 2} : Greeting(n, n, 0, 0)
    \/ Greeting(1, 0, 0, 1) \/ Greeting(1, 2, 1, 0)
    \/ /\ Finishing \/ (\A e \in Ends : pc[e] \in Post)
       /\ \A e \in Ends : Linked(e)

\* With a peer that is no goxfer, or gone before it spoke, no handshake ends.
Alone ==
  pc["initiator"] = "off" \/ serving \in Strays =>
    /\ pc["initiator"] \in {"off", "closed"} /\ pc["responder"] \notin Post
    /\ \A i \in 1 .. Len(wire["responder"]) : wire["responder"][i] # Handshake(3)

\* Before the sender accepts a connection nothing happens on it.
Unopened ==
  /\ serving = None => ~live /\ \A e \in Ends : pc[e] = "off" /\ wire[e] = <<>>
  /\ serving # None => pc["responder"] # "off"

SessionInv ==
  SessionTypeOK /\ (\A e \in Ends : Knows(e) /\ Under(e)) /\ Together /\ Alone /\ Unopened

-----------------------------------------------------------------------------
(* The inductive invariant of the tunnel.                                  *)

\* How often m occurs in a queue.
Count(q, m) == Cardinality({i \in 1 .. Len(q) : q[i] = m})

\* Before the hello is answered, and before a connection is accepted.
Before ==
  /\ main \in {"hello", "accept"} => serving = None
  /\ main = "hello" =>
       /\ mode = "bore" /\ loop = "off" /\ reader = "off" /\ held = None /\ msgCh = <<>>
       /\ \A r \in Receivers : rcv[r] = "away" /\ forward[r] = "none"
       /\ \A i \in 1 .. Len(down) : down[i] \notin Receivers

InHand == held # None <=> reader = "put"

\* While the tunnel is up, its goroutines run and a receiver is in one place from
\* the moment bore.pub announces it.
Tunnelled ==
  ctl = "up" =>
    /\ ~errCh /\ reader # "gone"
    /\ mode = "bore" /\ Listening =>
         /\ loop = "run" /\ reader # "off"
         /\ \A r \in Receivers : Places(r) = IF rcv[r] = "away" THEN 0 ELSE 1

\* Only a receiver with a goroutine gets to the listener.
Forwarded ==
  mode = "bore" =>
    /\ \A i \in 1 .. Len(backlog) : forward[backlog[i]] # "none"
    /\ serving # None => forward[serving] # "none"

TunnelInv == TypeOK /\ Before /\ InHand /\ Tunnelled /\ Forwarded

-----------------------------------------------------------------------------
(* Queues and streams.                                                     *)

USE SessionAssumption

\* A prefix of a queue has its type, is no longer, and agrees with it.
LEMMA PrefixFacts ==
  ASSUME NEW S, NEW q \in Seq(S), NEW p \in Prefixes(q)
  PROVE  p \in Seq(S) /\ Len(p) <= Len(q) /\ \A i \in 1 .. Len(p) : p[i] = q[i]
<1>1. PICK n \in 0 .. Len(q) : p = SubSeq(q, 1, n)
  BY DEF Prefixes
<1>2. p \in Seq(S) /\ Len(p) = n /\ \A i \in 1 .. n : p[i] = q[i]
  BY <1>1, SubSeqProperties
<1> QED
  BY <1>2, LenProperties

\* A queue that is not empty has a first element, and others in order.
LEMMA QueueFacts ==
  ASSUME NEW S, NEW q \in Seq(S)
  PROVE  /\ Len(q) \in Nat /\ (q = <<>> <=> Len(q) = 0)
         /\ \A i \in 1 .. Len(q) : q[i] \in S
         /\ q # <<>> => /\ Head(q) \in S /\ Head(q) = q[1] /\ Tail(q) \in Seq(S)
                        /\ Len(q) >= 1 /\ Len(Tail(q)) = Len(q) - 1
                        /\ \A i \in 1 .. Len(Tail(q)) : Tail(q)[i] = q[i + 1]
  BY HeadTailProperties, EmptySeq, LenProperties, ElementOfSeq

\* What is appended to a queue that is not empty is appended to its tail.
LEMMA TailOfAppend ==
  ASSUME NEW S, NEW q \in Seq(S), q # <<>>, NEW m \in S
  PROVE  Tail(Append(q, m)) = Append(Tail(q), m)
<1> DEFINE t == Tail(Append(q, m))
           u == Append(Tail(q), m)
<1>1. /\ Append(q, m) \in Seq(S) /\ Len(Append(q, m)) = Len(q) + 1 /\ Append(q, m) # <<>>
      /\ \A i \in 1 .. Len(q) : Append(q, m)[i] = q[i]
      /\ Append(q, m)[Len(q) + 1] = m
  BY AppendProperties
<1>2. /\ Len(q) \in Nat /\ Len(q) >= 1 /\ Tail(q) \in Seq(S) /\ Len(Tail(q)) = Len(q) - 1
      /\ \A i \in 1 .. Len(Tail(q)) : Tail(q)[i] = q[i + 1]
  BY QueueFacts
<1>3. /\ t \in Seq(S) /\ Len(t) = Len(Append(q, m)) - 1
      /\ \A i \in 1 .. Len(t) : t[i] = Append(q, m)[i + 1]
  BY <1>1, QueueFacts
<1>4. /\ u \in Seq(S) /\ Len(u) = Len(Tail(q)) + 1
      /\ \A i \in 1 .. Len(Tail(q)) : u[i] = Tail(q)[i]
      /\ u[Len(Tail(q)) + 1] = m
  BY <1>2, AppendProperties
<1> HIDE DEF t, u
<1>5. ASSUME NEW i \in 1 .. Len(t) PROVE t[i] = u[i]
  <2> Len(t) = Len(q) /\ i \in Nat /\ i <= Len(q) /\ i >= 1
    BY <1>1, <1>2, <1>3, <1>5
  <2>1. CASE i = Len(q)
    BY <1>1, <1>2, <1>3, <1>4, <2>1
  <2>2. CASE i # Len(q)
    <3>1. i \in 1 .. Len(Tail(q)) /\ i + 1 \in 1 .. Len(q)
      BY <1>2, <2>2
    <3> QED
      BY <1>1, <1>2, <1>3, <1>4, <3>1
  <2> QED
    BY <2>1, <2>2
<1>6. Len(t) = Len(u)
  BY <1>1, <1>2, <1>3, <1>4
<1> QED
  BY <1>3, <1>4, <1>5, <1>6, SeqEqual DEF t, u

\* A part of a stream from its beginning is a stream.
LEMMA StreamPart ==
  ASSUME NEW w \in Seq(Frames), NEW v \in Seq(Frames), Len(v) <= Len(w),
         \A i \in 1 .. Len(v) : v[i] = w[i],
         NEW key, NEW nonce, NEW prev, NEW last, Stream(w, key, nonce, prev, last)
  PROVE  Stream(v, key, nonce, prev, last)
<1>1. Len(v) \in Nat /\ Len(w) \in Nat
  BY LenProperties
<1>2. ASSUME NEW i \in 1 .. Len(v)
      PROVE  /\ i \in 1 .. Len(w) /\ v[i] = w[i]
             /\ i # 1 => v[i - 1] = w[i - 1]
  BY <1>1
<1> QED
  BY <1>2 DEF Stream

\* A frame with the next nonce and the next message continues a stream.
LEMMA StreamGrows ==
  ASSUME NEW w \in Seq(Frames), NEW f \in Frames, NEW key, NEW nonce \in Nat, NEW prev, NEW last,
         Stream(w, key, nonce, prev, last),
         f.key = key, f.nonce = nonce + Len(w), f.body.n <= last, Follows(LastOf(w, prev), f.body)
  PROVE  /\ Stream(Append(w, f), key, nonce, prev, last)
         /\ LastOf(Append(w, f), prev) = f.body
<1> DEFINE v == Append(w, f)
<1>1. /\ Len(w) \in Nat /\ (w = <<>> <=> Len(w) = 0) /\ Len(v) = Len(w) + 1 /\ v # <<>>
      /\ \A i \in 1 .. Len(w) : v[i] = w[i]
      /\ v[Len(w) + 1] = f
  BY AppendProperties, QueueFacts
<1> HIDE DEF v
<1>2. ASSUME NEW i \in 1 .. Len(w)
      PROVE  i \in 1 .. Len(v) /\ v[i] = w[i] /\ (i # 1 => v[i - 1] = w[i - 1])
  BY <1>1
<1>3. ASSUME NEW i \in 1 .. Len(v), i \notin 1 .. Len(w)
      PROVE  /\ i = Len(w) + 1 /\ f.nonce = nonce + i - 1
             /\ LastOf(w, prev) = IF i = 1 THEN prev ELSE v[i - 1].body
  <2>1. i = Len(w) + 1 /\ i \in Nat
    BY <1>1, <1>3
  <2>2. LastOf(w, prev) = IF i = 1 THEN prev ELSE v[i - 1].body
    BY <1>1, <2>1 DEF LastOf
  <2> QED
    BY <1>1, <2>1, <2>2
<1>4. Stream(v, key, nonce, prev, last)
  <2> SUFFICES ASSUME NEW i \in 1 .. Len(v)
               PROVE  /\ v[i].key = key /\ v[i].nonce = nonce + i - 1 /\ v[i].body.n <= last
                      /\ Follows(IF i = 1 THEN prev ELSE v[i - 1].body, v[i].body)
    BY DEF Stream
  <2>1. CASE i \in 1 .. Len(w)
    BY <1>2, <2>1 DEF Stream
  <2>2. CASE i \notin 1 .. Len(w)
    BY <1>1, <1>3, <2>2
  <2> QED
    BY <2>1, <2>2
<1>5. LastOf(v, prev) = f.body
  BY <1>1 DEF LastOf
<1> QED
  BY <1>4, <1>5 DEF v

\* After b as after c.
Alike(b, c) == b.n = c.n /\ (b.type = "file_chunk" <=> c.type = "file_chunk")

\* Without its first frame a stream goes on from that frame.
LEMMA StreamTaken ==
  ASSUME NEW w \in Seq(Frames), w # <<>>, NEW key, NEW nonce \in Nat, NEW prev, NEW last, NEW next,
         Stream(w, key, nonce, prev, last), Alike(next, w[1].body)
  PROVE  /\ Stream(Tail(w), key, nonce + 1, next, last)
         /\ Alike(LastOf(Tail(w), next), LastOf(w, prev))
<1> DEFINE v == Tail(w)
<1>1. /\ Len(w) \in Nat /\ Len(w) >= 1 /\ Len(v) = Len(w) - 1 /\ v \in Seq(Frames)
      /\ \A i \in 1 .. Len(v) : v[i] = w[i + 1]
  BY QueueFacts
<1>2. v = <<>> <=> Len(v) = 0
  BY <1>1, QueueFacts
<1> HIDE DEF v
<1>3. ASSUME NEW i \in 1 .. Len(v)
      PROVE  /\ i + 1 \in 1 .. Len(w) /\ v[i] = w[i + 1] /\ nonce + 1 + i - 1 = nonce + (i + 1) - 1
             /\ i # 1 => v[i - 1] = w[i]
  BY <1>1
<1>4. ASSUME NEW i \in 1 .. Len(v)
      PROVE  Follows(IF i = 1 THEN next ELSE v[i - 1].body, v[i].body)
  <2>1. Follows(w[i].body, w[i + 1].body)
    BY <1>3 DEF Stream
  <2>2. CASE i = 1
    BY <1>3, <2>1, <2>2 DEF Follows, Alike
  <2>3. CASE i # 1
    BY <1>3, <2>1, <2>3
  <2> QED
    BY <2>2, <2>3
<1>5. Stream(v, key, nonce + 1, next, last)
  <2> SUFFICES ASSUME NEW i \in 1 .. Len(v)
               PROVE  /\ v[i].key = key /\ v[i].nonce = nonce + 1 + i - 1 /\ v[i].body.n <= last
                      /\ Follows(IF i = 1 THEN next ELSE v[i - 1].body, v[i].body)
    BY DEF Stream
  <2>1. v[i].key = key /\ v[i].nonce = nonce + (i + 1) - 1 /\ v[i].body.n <= last
    BY <1>3 DEF Stream
  <2> QED
    BY <1>3, <1>4, <2>1
<1>6. Alike(LastOf(v, next), LastOf(w, prev))
  BY <1>1, <1>2 DEF LastOf, Alike
<1> QED
  BY <1>5, <1>6 DEF v

-----------------------------------------------------------------------------
(* The session.                                                            *)

\* There are two ends.
LEMMA PeerFacts ==
  ASSUME NEW e \in Ends
  PROVE  /\ Peer(e) \in Ends /\ Peer(e) # e /\ Peer(Peer(e)) = e
         /\ \A x \in Ends : x = e \/ x = Peer(e)
         /\ "initiator" \in Ends /\ "responder" \in Ends
  BY DEF Ends, Peer

\* The types of what one end has.
LEMMA EndTypes ==
  ASSUME SessionTypeOK, NEW e \in Ends
  PROVE  /\ pc[e] \in Active \cup {"off", "closed"} /\ hs[e] \in 0 .. 3
         /\ nonces[e].send \in Nat /\ nonces[e].receive \in Nat
         /\ part[e] \in Nat /\ sent[e] \in Nat /\ got[e] \in Nat
         /\ MaxMessages[e] \in Nat
         /\ wire[e] \in Seq(Frames) /\ Len(wire[e]) \in Nat
         /\ wire[e] = <<>> <=> Len(wire[e]) = 0
         /\ wire[e] # <<>> => /\ Head(wire[e]) = wire[e][1] /\ Head(wire[e]) \in Frames
                              /\ Tail(wire[e]) \in Seq(Frames) /\ Len(wire[e]) >= 1
                              /\ Len(Tail(wire[e])) = Len(wire[e]) - 1
<1>1. wire[e] \in Seq(Frames)
  BY DEF SessionTypeOK
<1> QED
  BY <1>1, QueueFacts DEF SessionTypeOK

\* What is under way to an end follows what it took, whatever the other end does
\* that sends it nothing.
LEMMA UnderKept ==
  ASSUME NEW x \in Ends, Under(x), wire'[x] = wire[x], x = "initiator" => hs'[x] = hs[x],
         nonces'[x].receive = nonces[x].receive, Taken(x)' = Taken(x),
         pc'[x] \in Post => pc[x] \in Post, pc'[x] = "handshake" => pc[x] = "handshake"
  PROVE  Under(x)'
<1>1. CASE pc'[x] \in Post
  <2>1. pc[x] \in Post /\ pc'[x] # "handshake" /\ pc[x] # "handshake"
    BY <1>1 DEF Post
  <2>2. Rest(x)' = Rest(x)
    BY <2>1 DEF Rest
  <2> QED
    BY <2>1, <2>2 DEF Under, Streams, ReceiveKey
<1>2. CASE pc'[x] = "handshake"
  <2>1. pc[x] = "handshake" /\ pc'[x] \notin Post /\ Rest(x)' = Rest(x)
    BY <1>2 DEF Post, Rest
  <2> QED
    BY <1>2, <2>1 DEF Under, Streams, ReceiveKey
<1>3. CASE pc'[x] \notin Post \cup {"handshake"}
  BY <1>3 DEF Under
<1> QED
  BY <1>1, <1>2, <1>3

\* An end closes the connection.
LEMMA SessionCloses ==
  ASSUME SessionInv, NEW e \in Ends, Closes(e), serving # None, UNCHANGED <<live, serving>>
  PROVE  SessionInv'
<1> DEFINE p == Peer(e)
<1>1. p \in Ends /\ p # e /\ (\A x \in Ends : x = e \/ x = p)
  BY PeerFacts
<1>2. /\ SessionTypeOK /\ (\A x \in Ends : Knows(x) /\ Under(x)) /\ Alone /\ Unopened
  BY DEF SessionInv
<1>3. /\ pc'[e] = "closed" /\ pc'[p] = pc[p] /\ hs'[p] = hs[p] /\ ciphers'[p] = ciphers[p]
      /\ nonces'[p] = nonces[p] /\ part'[p] = part[p] /\ sent'[p] = sent[p] /\ got'[p] = got[p]
      /\ wire'[p] = wire[p] /\ wire'[e] = <<>>
  BY <1>1, <1>2 DEF Closes, Become, SessionTypeOK
<1> HIDE DEF p
<1>4. SessionTypeOK'
  <2>1. <<>> \in Seq(Frames) /\ Len(<<>>) = 0
    BY EmptySeq
  <2>2. \A x \in Ends : MaxMessages[x] \in Nat /\ MaxMessages[Peer(x)] \in Nat
    BY PeerFacts
  <2> QED
    <3>1. /\ pc' \in [Ends -> Active \cup {"off", "closed"}] /\ hs' \in [Ends -> 0 .. 3]
          /\ part' \in [Ends -> Nat] /\ sent' \in [Ends -> Nat] /\ got' \in [Ends -> Nat]
          /\ live' \in BOOLEAN
      BY <1>2 DEF SessionTypeOK, Closes, Become, NoPart
    <3>2. /\ ciphers' \in [Ends -> [send : {"none", "cs1", "cs2"}, receive : {"none", "cs1", "cs2"}]]
          /\ nonces' \in [Ends -> [send : Nat, receive : Nat]]
      BY <1>2 DEF SessionTypeOK, Closes, NoKey
    <3>3. \A x \in Ends : sent'[x] <= MaxMessages[x] /\ got'[x] <= MaxMessages[Peer(x)]
      <4> SUFFICES ASSUME NEW x \in Ends
                   PROVE  sent'[x] <= MaxMessages[x] /\ got'[x] <= MaxMessages[Peer(x)]
        OBVIOUS
      <4>1. sent'[x] \in {0, sent[x]} /\ got'[x] \in {0, got[x]}
        BY <1>2 DEF SessionTypeOK, Closes
      <4>2. sent[x] <= MaxMessages[x] /\ got[x] <= MaxMessages[Peer(x)]
        BY <1>2 DEF SessionTypeOK
      <4> QED
        BY <2>2, <4>1, <4>2
    <3>4. wire' \in [Ends -> Seq(Frames)] /\ \A x \in Ends : Len(wire'[x]) <= Room
      BY <1>2, <2>1 DEF SessionTypeOK, Closes
    <3> QED
      BY <3>1, <3>2, <3>3, <3>4 DEF SessionTypeOK
<1>5. Knows(e)' /\ Under(e)'
  BY <1>3 DEF Knows, Under, Post
<1>6. Knows(p)'
  BY <1>1, <1>2, <1>3 DEF Knows, NewSession
<1>7. Under(p)'
  BY <1>1, <1>2, <1>3, UnderKept DEF Taken
<1>8. Together'
  BY <1>3 DEF Together, Active
<1>9. Alone'
  BY <1>1, <1>2, <1>3, PeerFacts DEF Alone, Post, Ends
<1>10. Unopened'
  BY <1>1, <1>2, <1>3, PeerFacts DEF Unopened
<1> QED
  BY <1>1, <1>4, <1>5, <1>6, <1>7, <1>8, <1>9, <1>10 DEF SessionInv

\* The connection is cut.
LEMMA SessionCut ==
  ASSUME SessionInv, Cut, serving # None, UNCHANGED serving
  PROVE  SessionInv'
<1>1. /\ SessionTypeOK /\ (\A x \in Ends : Knows(x) /\ Under(x)) /\ Alone /\ Unopened
  BY DEF SessionInv
<1>2. ASSUME NEW x \in Ends
      PROVE  /\ wire'[x] \in Seq(Frames) /\ Len(wire'[x]) \in Nat /\ Len(wire'[x]) <= Len(wire[x])
             /\ \A i \in 1 .. Len(wire'[x]) : i \in 1 .. Len(wire[x]) /\ wire'[x][i] = wire[x][i]
  <2>1. wire'[x] \in Prefixes(wire[x]) /\ wire[x] \in Seq(Frames)
    BY <1>1 DEF Cut, Ends, SessionTypeOK
  <2>2. /\ wire'[x] \in Seq(Frames) /\ Len(wire'[x]) <= Len(wire[x])
        /\ \A i \in 1 .. Len(wire'[x]) : wire'[x][i] = wire[x][i]
    BY <2>1, PrefixFacts
  <2>3. Len(wire'[x]) \in Nat /\ Len(wire[x]) \in Nat
    BY <2>1, <2>2, LenProperties
  <2> QED
    BY <2>2, <2>3
<1>3. SessionTypeOK'
  <2>1. wire' \in [Ends -> Seq(Frames)]
    BY <1>2 DEF Cut, Ends
  <2>2. \A x \in Ends : Len(wire'[x]) <= Room
    <3> SUFFICES ASSUME NEW x \in Ends PROVE Len(wire'[x]) <= Room
      OBVIOUS
    <3>1. Len(wire[x]) <= Room /\ Len(wire[x]) \in Nat
      BY <1>1, EndTypes DEF SessionTypeOK
    <3> QED
      BY <1>2, <3>1
  <2> QED
    BY <1>1, <2>1, <2>2 DEF SessionTypeOK, Cut
<1>4. \A x \in Ends : Knows(x)'
  BY <1>1 DEF Knows, Cut
<1>5. ASSUME NEW x \in Ends
      PROVE  Under(x)'
  <2>1. /\ pc' = pc /\ hs' = hs /\ nonces' = nonces /\ part' = part /\ got' = got /\ Under(x)
        /\ nonces[x].receive \in Nat
    BY <1>1, EndTypes DEF Cut
  <2>2. CASE pc[x] \in Post
    <3>1. Streams(x) /\ Rest(x) = wire[x] /\ Rest(x)' = wire'[x] /\ pc[x] # "handshake"
      BY <2>1, <2>2 DEF Under, Rest, Post
    <3>2. wire[x] \in Seq(Frames)
      BY <1>1 DEF SessionTypeOK
    <3>3. Streams(x)'
      BY <1>2, <2>1, <3>1, <3>2, StreamPart DEF Streams, Taken, ReceiveKey
    <3> QED
      BY <2>1, <3>1, <3>3 DEF Under
  <2>3. CASE pc[x] = "handshake"
    <3>1. ASSUME NEW i \in 1 .. Len(wire'[x]), wire'[x][i] = Handshake(3)
          PROVE  i = 1 /\ Streams(x)'
      <4>1. i = 1 /\ Streams(x) /\ Rest(x) = Tail(wire[x]) /\ Rest(x)' = Tail(wire'[x])
        BY <1>2, <2>1, <2>3, <3>1 DEF Under, Rest
      <4>2. wire[x] \in Seq(Frames) /\ wire'[x] \in Seq(Frames) /\ wire[x] # <<>> /\ wire'[x] # <<>>
        BY <1>1, <1>2, <3>1, QueueFacts DEF SessionTypeOK
      <4>3. /\ Tail(wire[x]) \in Seq(Frames) /\ Tail(wire'[x]) \in Seq(Frames)
            /\ Len(Tail(wire[x])) = Len(wire[x]) - 1 /\ Len(Tail(wire'[x])) = Len(wire'[x]) - 1
            /\ \A j \in 1 .. Len(Tail(wire[x])) : Tail(wire[x])[j] = wire[x][j + 1]
            /\ \A j \in 1 .. Len(Tail(wire'[x])) : Tail(wire'[x])[j] = wire'[x][j + 1]
            /\ Len(wire[x]) \in Nat
        BY <4>2, QueueFacts
      <4>4. ASSUME NEW j \in 1 .. Len(Tail(wire'[x]))
            PROVE  Tail(wire'[x])[j] = Tail(wire[x])[j]
        <5>1. j \in 1 .. Len(Tail(wire[x])) /\ j + 1 \in 1 .. Len(wire'[x])
          BY <1>2, <4>3, <4>4
        <5> QED
          BY <1>2, <4>3, <5>1
      <4>5. Len(Tail(wire'[x])) <= Len(Tail(wire[x]))
        BY <1>2, <4>3
      <4> QED
        <5>1. Stream(Tail(wire[x]), ReceiveKey(x), nonces[x].receive, Taken(x), MaxMessages[Peer(x)])
          BY <4>1 DEF Streams
        <5>2. Stream(Tail(wire'[x]), ReceiveKey(x), nonces[x].receive, Taken(x), MaxMessages[Peer(x)])
          BY <4>3, <4>4, <4>5, <5>1, StreamPart
        <5> QED
          BY <2>1, <4>1, <5>2 DEF Streams, Taken, ReceiveKey
    <3>2. x = "initiator" =>
            /\ Len(wire'[x]) <= 1 /\ (hs'[x] # 1 => wire'[x] = <<>>)
            /\ \A i \in 1 .. Len(wire'[x]) : wire'[x][i] # Handshake(3)
      <4> SUFFICES ASSUME x = "initiator"
                   PROVE  /\ Len(wire'[x]) <= 1 /\ (hs'[x] # 1 => wire'[x] = <<>>)
                          /\ \A i \in 1 .. Len(wire'[x]) : wire'[x][i] # Handshake(3)
        OBVIOUS
      <4>1. /\ Len(wire[x]) <= 1 /\ (hs[x] # 1 => wire[x] = <<>>)
            /\ \A i \in 1 .. Len(wire[x]) : wire[x][i] # Handshake(3)
        BY <2>1, <2>3 DEF Under
      <4>2. Len(wire[x]) \in Nat /\ (wire[x] = <<>> <=> Len(wire[x]) = 0)
            /\ (wire'[x] = <<>> <=> Len(wire'[x]) = 0)
        BY <1>1, <1>2, EndTypes, QueueFacts
      <4> QED
        BY <1>2, <2>1, <4>1, <4>2
    <3> QED
      BY <2>1, <2>3, <3>1, <3>2 DEF Under, Post
  <2>4. CASE pc[x] \notin Post \cup {"handshake"}
    BY <2>1, <2>4 DEF Under
  <2> QED
    BY <2>2, <2>3, <2>4
<1>6. Together'
  BY DEF Together, Cut
<1>7. Alone'
  <2>1. /\ pc' = pc /\ serving' = serving
        /\ \A i \in 1 .. Len(wire'["responder"]) :
             i \in 1 .. Len(wire["responder"]) /\ wire'["responder"][i] = wire["responder"][i]
    BY <1>2 DEF Cut, Ends
  <2> QED
    BY <1>1, <2>1 DEF Alone
<1>8. Unopened'
  BY <1>1 DEF Unopened, Cut
<1> QED
  BY <1>3, <1>4, <1>5, <1>6, <1>7, <1>8 DEF SessionInv

\* Whose turn it is in the handshake.
LEMMA Turns ==
  ASSUME SessionTypeOK
  PROVE  /\ Writes("initiator") <=> hs["initiator"] \in {0, 2}
         /\ Writes("responder") <=> hs["responder"] \in {1, 3}
<1>1. hs["initiator"] \in {0, 1, 2, 3} /\ hs["responder"] \in {0, 1, 2, 3}
  BY DEF SessionTypeOK, Ends
<1>2. 0 % 2 = 0 /\ 1 % 2 = 1 /\ 2 % 2 = 0 /\ 3 % 2 = 1
  OBVIOUS
<1> QED
  BY <1>1, <1>2 DEF Writes

\* Writing keeps the queue within the connection's room.
LEMMA WriteTypes ==
  ASSUME SessionTypeOK, NEW e \in Ends, CanWrite(e), NEW f \in Frames, Write(e, f)
  PROVE  /\ wire' \in [Ends -> Seq(Frames)] /\ \A x \in Ends : Len(wire'[x]) <= Room
         /\ wire'[e] = wire[e]
         /\ wire'[Peer(e)] = IF Carries(e) THEN Append(wire[Peer(e)], f) ELSE wire[Peer(e)]
<1> DEFINE p == Peer(e)
<1>1. p \in Ends /\ p # e /\ wire \in [Ends -> Seq(Frames)] /\ Len(wire[p]) \in Nat
  BY PeerFacts, EndTypes DEF SessionTypeOK
<1> HIDE DEF p
<1>2. Append(wire[p], f) \in Seq(Frames) /\ Len(Append(wire[p], f)) = Len(wire[p]) + 1
  BY <1>1, AppendProperties
<1>3. wire' = [wire EXCEPT ![p] = IF Carries(e) THEN Append(wire[p], f) ELSE wire[p]]
  BY DEF Write, p
<1>4. /\ wire' \in [Ends -> Seq(Frames)] /\ wire'[e] = wire[e]
      /\ wire'[p] = IF Carries(e) THEN Append(wire[p], f) ELSE wire[p]
  BY <1>1, <1>2, <1>3
<1>5. ASSUME NEW x \in Ends PROVE Len(wire'[x]) <= Room
  <2>1. Len(wire[x]) <= Room
    BY DEF SessionTypeOK
  <2>2. CASE x = p /\ Carries(e)
    BY <1>1, <1>2, <1>4, <2>2 DEF CanWrite, p
  <2>3. CASE ~(x = p /\ Carries(e))
    BY <1>1, <1>3, <2>1, <2>3
  <2> QED
    BY <2>2, <2>3
<1> QED
  BY <1>4, <1>5 DEF p

\* Nothing is under way to an end, or no last handshake message to the responder.
LEMMA UnderNothing ==
  ASSUME NEW x \in Ends, wire'[x] = <<>>
  PROVE  Under(x)'
<1>1. Len(<<>>) = 0
  BY EmptySeq
<1> QED
  BY <1>1 DEF Under, Streams, Stream, Rest, Post

LEMMA UnderFirst ==
  ASSUME pc'["responder"] = "handshake",
         \A i \in 1 .. Len(wire'["responder"]) : wire'["responder"][i] # Handshake(3)
  PROVE  Under("responder")'
  BY DEF Under, Post

\* An end writes a handshake message.
LEMMA HandshakeWritten ==
  ASSUME SessionInv, NEW e \in Ends, WriteHandshake(e), serving # None, UNCHANGED serving
  PROVE  SessionInv'
<1> DEFINE p == Peer(e)
<1>1. p \in Ends /\ p # e /\ (\A x \in Ends : x = e \/ x = p)
  BY PeerFacts
<1>2. /\ SessionTypeOK /\ (\A x \in Ends : Knows(x) /\ Under(x)) /\ Together /\ Alone /\ Unopened
  BY DEF SessionInv
<1>3. pc[e] = "handshake" /\ hs[e] \in 0 .. 2 /\ Handshake(hs[e] + 1) \in Frames
  BY <1>2 DEF WriteHandshake, Knows, SessionTypeOK, Handshake, Sealed, Plain, Frames, Keys
<1>4. /\ wire' \in [Ends -> Seq(Frames)] /\ \A x \in Ends : Len(wire'[x]) <= Room
      /\ wire'[e] = wire[e]
      /\ wire'[p] = IF Carries(e) THEN Append(wire[p], Handshake(hs[e] + 1)) ELSE wire[p]
  BY <1>2, <1>3, WriteTypes DEF WriteHandshake
<1>5. /\ hs'[e] = hs[e] + 1 /\ hs'[p] = hs[p] /\ ciphers'[p] = ciphers[p] /\ pc'[p] = pc[p]
      /\ hs[e] = 2 => pc'[e] = "open" /\ ciphers'[e] = NewSession(e)
      /\ hs[e] # 2 => pc'[e] = "handshake" /\ ciphers'[e] = ciphers[e]
      /\ UNCHANGED <<nonces, part, sent, got, live>>
  BY <1>1, <1>2, <1>3 DEF WriteHandshake, Advance, Become, SessionTypeOK
<1>6. Carries(e) <=> live /\ pc[p] # "closed"
  BY DEF Carries
<1> HIDE DEF p
<1>7. SessionTypeOK'
  <2>1. pc' \in [Ends -> Active \cup {"off", "closed"}] /\ hs' \in [Ends -> 0 .. 3]
    <3>1. hs' = [hs EXCEPT ![e] = hs[e] + 1] /\ hs[e] + 1 \in 0 .. 3
      BY <1>3 DEF WriteHandshake, Advance
    <3>2. pc' = pc \/ pc' = [pc EXCEPT ![e] = "open"]
      BY DEF WriteHandshake, Advance, Become
    <3>3. hs' \in [Ends -> 0 .. 3]
      BY <1>2, <3>1 DEF SessionTypeOK
    <3>4. pc' \in [Ends -> Active \cup {"off", "closed"}]
      BY <1>2, <3>2 DEF SessionTypeOK, Active
    <3> QED
      BY <3>3, <3>4
  <2>2. ciphers' \in [Ends -> [send : {"none", "cs1", "cs2"}, receive : {"none", "cs1", "cs2"}]]
    <3>1. ciphers' = ciphers \/ ciphers' = [ciphers EXCEPT ![e] = NewSession(e)]
      BY DEF WriteHandshake, Advance
    <3>2. NewSession(e) \in [send : {"none", "cs1", "cs2"}, receive : {"none", "cs1", "cs2"}]
      BY DEF NewSession
    <3> QED
      BY <1>2, <3>1, <3>2 DEF SessionTypeOK
  <2> QED
    BY <1>2, <1>4, <1>5, <2>1, <2>2 DEF SessionTypeOK
<1>8. Knows(e)' /\ Knows(p)'
  <2>1. /\ nonces[e] = [send |-> 0, receive |-> 0]
        /\ part[e] = 0 /\ sent[e] = 0 /\ got[e] = 0
    BY <1>2, <1>3 DEF Knows
  <2>2. Knows(e)'
    <3>1. CASE hs[e] = 2
      BY <1>5, <3>1 DEF Knows, NewSession
    <3>2. CASE hs[e] # 2
      BY <1>3, <1>5, <2>1, <3>2 DEF Knows, Post
    <3> QED
      BY <3>1, <3>2
  <2>3. Knows(p)'
    BY <1>1, <1>2, <1>5 DEF Knows, NewSession
  <2> QED
    BY <2>2, <2>3
<1>9. Unopened'
  BY <1>1, <1>2, <1>3, <1>5, PeerFacts DEF Unopened
\* Nothing else is under way when an end has its turn.
<1>10. ASSUME Carries(e), pc[p] # "off"
       PROVE  /\ pc[p] = "handshake" /\ wire[e] = <<>> /\ wire[p] = <<>>
              /\ hs["initiator"] = hs["responder"]
  <2>1. live /\ \A x \in Ends : pc[x] \in Active
    BY <1>1, <1>2, <1>3, <1>6, <1>10 DEF SessionTypeOK, Active
  <2>2. /\ \A x \in Ends : wire[x] = <<>> <=> Len(wire[x]) = 0
        /\ Writes(e) /\ pc["initiator"] \in Active /\ pc["responder"] \in Active
    BY <1>2, <2>1, EndTypes, PeerFacts DEF WriteHandshake
  <2>3. ~Finishing /\ ~\A x \in Ends : pc[x] \in Post
    BY <1>2, <1>3, <2>2, Turns DEF Finishing, Ends, Post
  <2>4. (\E n \in {0, 1, 2} : Greeting(n, n, 0, 0)) \/ Greeting(1, 0, 0, 1) \/ Greeting(1, 2, 1, 0)
    BY <1>2, <2>1, <2>3 DEF Together
  <2>5. ~Greeting(1, 0, 0, 1) /\ ~Greeting(1, 2, 1, 0)
    BY <1>2, <2>2, Turns DEF Greeting, Ends
  <2> QED
    BY <1>1, <2>2, <2>4, <2>5, PeerFacts DEF Greeting, Ends
<1>11. CASE e = "initiator" /\ hs[e] = 0
  <2>1. p = "responder" /\ pc[p] # "off"
    BY <1>1, <1>2, <1>11 DEF Unopened, Ends
  <2>2. wire'[e] = <<>>
    BY <1>2, <1>3, <1>4, <1>11 DEF Under
  <2>3. ASSUME Carries(e)
        PROVE  /\ pc'[p] = "handshake" /\ Len(wire'[p]) = 1 /\ wire'[p][1] = Handshake(1)
               /\ hs'["initiator"] = 1 /\ hs'["responder"] = 0
    <3>1. /\ pc[p] = "handshake" /\ wire[p] = <<>> /\ hs[p] = 0
      BY <1>10, <1>11, <2>1, <2>3
    <3>2. Len(Append(<<>>, Handshake(1))) = 1 /\ Append(<<>>, Handshake(1))[1] = Handshake(1)
      OBVIOUS
    <3> QED
      BY <1>4, <1>5, <1>11, <2>1, <2>3, <3>1, <3>2
  <2>4. Under(p)'
    <3>1. CASE Carries(e)
      <4>1. \A i \in 1 .. Len(wire'[p]) : wire'[p][i] # Handshake(3)
        BY <2>3, <3>1 DEF Handshake, Sealed
      <4> QED
        BY <2>1, <2>3, <3>1, <4>1, UnderFirst
    <3>2. CASE ~Carries(e)
      BY <1>1, <1>2, <1>4, <1>5, <3>2, UnderKept DEF Taken
    <3> QED
      BY <3>1, <3>2
  <2>5. Together'
    <3> SUFFICES ASSUME live', pc'["responder"] \in Active
                 PROVE  Greeting(1, 0, 0, 1)'
      BY PeerFacts DEF Together
    <3>1. Carries(e)
      BY <1>5, <1>6, <2>1 DEF Active
    <3>2. Len(wire'[e]) = 0
      BY <2>2, EmptySeq
    <3> QED
      BY <1>5, <1>11, <2>1, <2>3, <3>1, <3>2 DEF Greeting
  <2>6. Alone'
    BY <1>2, <1>3, <1>5, <1>11 DEF Alone
  <2> QED
    BY <1>1, <1>7, <1>8, <1>9, <2>2, <2>4, <2>5, <2>6, UnderNothing DEF SessionInv
<1>12. CASE e = "initiator" /\ hs[e] = 2
  <2>1. p = "responder" /\ pc[p] # "off" /\ pc'[e] = "open"
    BY <1>1, <1>2, <1>5, <1>12 DEF Unopened, Ends
  <2>2. wire'[e] = <<>>
    BY <1>2, <1>3, <1>4, <1>12 DEF Under
  <2>3. ASSUME Carries(e)
        PROVE  /\ pc[p] = "handshake" /\ pc'[p] = "handshake" /\ hs'[p] = 2
               /\ Len(wire'[p]) = 1 /\ wire'[p] # <<>> /\ wire'[p][1] = Handshake(3)
               /\ Tail(wire'[p]) = <<>>
    <3>1. /\ pc[p] = "handshake" /\ wire[p] = <<>> /\ hs[p] = 2
      BY <1>10, <1>12, <2>1, <2>3
    <3>2. wire'[p] = <<Handshake(3)>>
      BY <1>4, <1>12, <2>3, <3>1
    <3> QED
      BY <1>5, <3>1, <3>2
  <2>4. \A x \in Ends : pc[x] = "handshake" =>
          nonces'[x] = [send |-> 0, receive |-> 0] /\ sent'[x] = 0 /\ got'[x] = 0
    BY <1>2, <1>5 DEF Knows
  <2>5. Under(p)'
    <3>1. CASE Carries(e)
      <4>1. Rest(p)' = <<>> /\ Len(<<>>) = 0
        BY <2>3, <3>1, EmptySeq DEF Rest
      <4>2. Streams(p)'
        BY <4>1 DEF Streams, Stream
      <4> QED
        BY <2>1, <2>3, <3>1, <4>2 DEF Under, Post
    <3>2. CASE ~Carries(e)
      BY <1>1, <1>2, <1>4, <1>5, <3>2, UnderKept DEF Taken
    <3> QED
      BY <3>1, <3>2
  <2>6. Together'
    <3> SUFFICES ASSUME live', pc'["responder"] \in Active
                 PROVE  Finishing' /\ \A x \in Ends : Linked(x)'
      BY PeerFacts DEF Together
    <3>1. Carries(e)
      BY <1>5, <1>6, <2>1 DEF Active
    <3>2. Finishing'
      BY <1>12, <2>1, <2>2, <2>3, <3>1 DEF Finishing, Post
    <3>3. ASSUME NEW x \in Ends PROVE Linked(x)'
      <4>1. Rest(x)' = <<>> /\ Taken(x)' = Plain(0) /\ Len(<<>>) = 0
        BY <1>1, <1>3, <1>12, <2>1, <2>2, <2>3, <2>4, <3>1, EmptySeq DEF Rest, Taken
      <4>2. LastOf(<<>>, Plain(0)) = Plain(0) /\ Plain(0).n = 0 /\ Plain(0).type # "file_chunk"
        BY DEF LastOf, Plain
      <4>3. /\ nonces'[x].receive = 0 /\ nonces'[Peer(x)].send = 0 /\ sent'[Peer(x)] = 0
            /\ pc'[Peer(x)] # "sending"
        BY <1>1, <1>3, <1>12, <2>1, <2>3, <2>4, <3>1, PeerFacts
      <4> QED
        BY <4>1, <4>2, <4>3 DEF Linked
    <3> QED
      BY <3>2, <3>3
  <2>7. Alone'
    BY <1>2, <1>3, <1>5, <1>12, <2>1 DEF Alone
  <2> QED
    BY <1>1, <1>7, <1>8, <1>9, <2>2, <2>5, <2>6, <2>7, UnderNothing DEF SessionInv
<1>13. CASE e = "responder" /\ hs[e] = 1
  <2>1. p = "initiator" /\ pc' = pc /\ pc'[e] = "handshake" /\ hs'[e] = 2
    BY <1>1, <1>2, <1>3, <1>5, <1>13 DEF Ends, WriteHandshake, Advance
  <2>2. Under(e)'
    BY <1>2, <1>4, <1>5, <1>13, <2>1, UnderKept DEF Taken
  <2>3. ASSUME Carries(e), pc[p] # "off"
        PROVE  /\ pc'[p] = "handshake" /\ hs'[p] = 1 /\ wire'[e] = <<>>
               /\ Len(wire'[p]) = 1 /\ wire'[p][1] = Handshake(2)
    <3>1. /\ pc[p] = "handshake" /\ wire[p] = <<>> /\ wire[e] = <<>> /\ hs[p] = 1
      BY <1>10, <1>13, <2>1, <2>3
    <3>2. wire'[p] = <<Handshake(2)>>
      BY <1>4, <1>13, <2>3, <3>1
    <3>3. Len(wire'[p]) = 1 /\ wire'[p][1] = Handshake(2)
      BY <3>2
    <3> QED
      BY <1>4, <1>5, <2>1, <3>1, <3>3
  <2>4. Under(p)'
    <3>1. CASE Carries(e) /\ pc[p] # "off"
      <4>1. \A i \in 1 .. Len(wire'[p]) : wire'[p][i] # Handshake(3)
        BY <2>3, <3>1 DEF Handshake, Sealed
      <4> QED
        BY <2>3, <3>1, <4>1 DEF Under, Post
    <3>2. CASE ~Carries(e)
      BY <1>1, <1>2, <1>4, <1>5, <3>2, UnderKept DEF Taken
    <3>3. CASE pc[p] = "off"
      BY <1>5, <3>3 DEF Under, Post
    <3> QED
      BY <3>1, <3>2, <3>3
  <2>5. Together'
    <3> SUFFICES ASSUME live', pc'[p] \in Active
                 PROVE  Greeting(1, 2, 1, 0)'
      BY <1>1 DEF Together
    <3>1. Carries(e) /\ pc[p] # "off"
      BY <1>5, <1>6 DEF Active
    <3>2. Len(wire'[e]) = 0
      BY <2>3, <3>1, EmptySeq
    <3> QED
      BY <1>13, <2>1, <2>3, <3>1, <3>2 DEF Greeting
  <2>6. Alone'
    BY <1>2, <1>4, <1>13, <2>1 DEF Alone, Post
  <2> QED
    BY <1>1, <1>7, <1>8, <1>9, <2>2, <2>4, <2>5, <2>6 DEF SessionInv
<1> QED
  BY <1>2, <1>3, <1>11, <1>12, <1>13, Turns DEF WriteHandshake, Ends

\* An end reads a handshake message that is valid.
LEMMA HandshakeRead ==
  ASSUME SessionInv, NEW e \in Ends, pc[e] = "handshake", ~Writes(e), wire[e] # <<>>,
         TRUE \in Verdicts(e, Head(wire[e])), Advance(e), Read(e),
         UNCHANGED <<nonces, part, sent, got, live, serving>>, serving # None
  PROVE  SessionInv'
<1> DEFINE p == Peer(e)
<1>1. p \in Ends /\ p # e /\ (\A x \in Ends : x = e \/ x = p)
  BY PeerFacts
<1>2. /\ SessionTypeOK /\ (\A x \in Ends : Knows(x) /\ Under(x)) /\ Together /\ Alone /\ Unopened
  BY DEF SessionInv
<1>3. hs[e] \in 0 .. 2
  BY <1>2 DEF Knows, SessionTypeOK
<1>4. /\ wire'[e] = Tail(wire[e]) /\ wire'[p] = wire[p]
      /\ wire' = [wire EXCEPT ![e] = Tail(wire[e])]
      /\ wire[e] \in Seq(Frames) /\ Tail(wire[e]) \in Seq(Frames)
      /\ Len(wire[e]) \in Nat /\ Len(wire[e]) >= 1 /\ Len(Tail(wire[e])) = Len(wire[e]) - 1
      /\ Head(wire[e]) = wire[e][1]
      /\ \A i \in 1 .. Len(Tail(wire[e])) :
           i + 1 \in 1 .. Len(wire[e]) /\ i + 1 # 1 /\ Tail(wire[e])[i] = wire[e][i + 1]
  <2>1. wire[e] \in Seq(Frames) /\ wire' = [wire EXCEPT ![e] = Tail(wire[e])]
    BY <1>2 DEF SessionTypeOK, Read
  <2>2. wire'[e] = Tail(wire[e]) /\ wire'[p] = wire[p]
    BY <1>1, <1>2, <2>1 DEF SessionTypeOK
  <2>3. /\ Tail(wire[e]) \in Seq(Frames)
        /\ Len(wire[e]) \in Nat /\ Len(wire[e]) >= 1 /\ Len(Tail(wire[e])) = Len(wire[e]) - 1
        /\ Head(wire[e]) = wire[e][1]
        /\ \A i \in 1 .. Len(Tail(wire[e])) : Tail(wire[e])[i] = wire[e][i + 1]
    BY <2>1, QueueFacts
  <2> QED
    BY <2>1, <2>2, <2>3
<1>5. /\ hs'[e] = hs[e] + 1 /\ hs'[p] = hs[p] /\ ciphers'[p] = ciphers[p] /\ pc'[p] = pc[p]
      /\ hs[e] = 2 => pc'[e] = "open" /\ ciphers'[e] = NewSession(e)
      /\ hs[e] # 2 => pc'[e] = "handshake" /\ ciphers'[e] = ciphers[e]
  BY <1>1, <1>2, <1>3 DEF Advance, Become, SessionTypeOK
<1> HIDE DEF p
<1>6. SessionTypeOK'
  <2>1. pc' \in [Ends -> Active \cup {"off", "closed"}] /\ hs' \in [Ends -> 0 .. 3]
    <3>1. hs' = [hs EXCEPT ![e] = hs[e] + 1] /\ hs[e] + 1 \in 0 .. 3
      BY <1>3 DEF Advance
    <3>2. pc'[e] \in Active /\ (pc' = pc \/ pc' = [pc EXCEPT ![e] = "open"])
      BY <1>5 DEF Advance, Become, Active
    <3>3. hs' \in [Ends -> 0 .. 3]
      BY <1>2, <3>1 DEF SessionTypeOK
    <3>4. pc' \in [Ends -> Active \cup {"off", "closed"}]
      BY <1>2, <3>2 DEF SessionTypeOK, Active
    <3> QED
      BY <3>3, <3>4
  <2>2. ciphers' \in [Ends -> [send : {"none", "cs1", "cs2"}, receive : {"none", "cs1", "cs2"}]]
    <3>1. ciphers' = ciphers \/ ciphers' = [ciphers EXCEPT ![e] = NewSession(e)]
      BY DEF Advance
    <3>2. NewSession(e) \in [send : {"none", "cs1", "cs2"}, receive : {"none", "cs1", "cs2"}]
      BY DEF NewSession
    <3> QED
      BY <1>2, <3>1, <3>2 DEF SessionTypeOK
  <2>3. wire' \in [Ends -> Seq(Frames)]
    BY <1>2, <1>4 DEF SessionTypeOK
  <2>4. ASSUME NEW x \in Ends PROVE Len(wire'[x]) <= Room
    <3>1. Len(wire[x]) <= Room
      BY <1>2 DEF SessionTypeOK
    <3> QED
      BY <1>1, <1>4, <3>1
  <2> QED
    BY <1>2, <2>1, <2>2, <2>3, <2>4 DEF SessionTypeOK
<1>7. Knows(e)' /\ Knows(p)'
  <2>1. /\ nonces[e] = [send |-> 0, receive |-> 0]
        /\ part[e] = 0 /\ sent[e] = 0 /\ got[e] = 0
    BY <1>2 DEF Knows
  <2>2. Knows(e)'
    <3>1. CASE hs[e] = 2
      BY <1>5, <3>1 DEF Knows, NewSession
    <3>2. CASE hs[e] # 2
      BY <1>3, <1>5, <2>1, <3>2 DEF Knows, Post
    <3> QED
      BY <3>1, <3>2
  <2>3. Knows(p)'
    BY <1>1, <1>2, <1>5 DEF Knows, NewSession
  <2> QED
    BY <2>2, <2>3
<1>8. Under(p)'
  BY <1>1, <1>2, <1>4, <1>5, UnderKept DEF Taken
<1>9. Unopened'
  BY <1>1, <1>2, <1>5, PeerFacts DEF Unopened
<1>10. \A x \in Ends : wire[x] = <<>> <=> Len(wire[x]) = 0
  BY <1>2, EndTypes
<1>11. CASE e = "responder" /\ hs[e] = 0
  <2>1. p = "initiator" /\ pc' = pc /\ hs'[e] = 1
    BY <1>1, <1>5, <1>11 DEF Advance, Ends
  <2>2. \A i \in 1 .. Len(wire'[e]) : wire'[e][i] # Handshake(3)
    BY <1>2, <1>4, <1>11 DEF Under
  <2>3. Under(e)'
    BY <1>11, <2>1, <2>2, UnderFirst
  <2>4. Together'
    <3> SUFFICES ASSUME live', pc'[p] \in Active
                 PROVE  Greeting(1, 1, 0, 0)'
      BY <1>1 DEF Together
    <3>1. ~Finishing /\ (~\A x \in Ends : pc[x] \in Post) /\ ~Greeting(1, 2, 1, 0)
          /\ ~\E n \in {0, 1, 2} : Greeting(n, n, 0, 0)
      BY <1>4, <1>11 DEF Finishing, Post, Greeting
    <3>2. Greeting(1, 0, 0, 1)
      BY <1>1, <1>2, <2>1, <3>1 DEF Together, Active
    <3> QED
      <4>1. hs[p] = 1 /\ Len(wire[p]) = 0 /\ Len(wire[e]) = 1 /\ pc[p] = "handshake"
        BY <1>11, <2>1, <3>2 DEF Greeting
      <4>2. /\ hs'[p] = 1 /\ Len(wire'[p]) = 0 /\ Len(wire'[e]) = 0
            /\ pc'[p] = "handshake" /\ pc'[e] = "handshake"
        BY <1>4, <1>5, <1>11, <4>1
      <4> QED
        BY <1>11, <2>1, <4>2 DEF Greeting
  <2>5. Alone'
    <3>1. pc'["responder"] \notin Post
      BY <1>11, <2>1 DEF Post
    <3> QED
      BY <1>2, <1>11, <2>1, <2>2, <3>1 DEF Alone
  <2> QED
    BY <1>1, <1>6, <1>7, <1>8, <1>9, <2>3, <2>4, <2>5 DEF SessionInv
<1>12. CASE e = "initiator" /\ hs[e] = 1
  <2>1. p = "responder" /\ pc' = pc /\ hs'[e] = 2
    BY <1>1, <1>5, <1>12 DEF Advance, Ends
  <2>2. Len(wire[e]) = 1 /\ wire'[e] = <<>>
    <3>1. Under(e)
      BY <1>2
    <3>2. Len(wire[e]) <= 1
      BY <1>12, <3>1 DEF Under
    <3>3. Len(wire[e]) = 1
      <4>1. Len(wire[e]) \in Nat /\ Len(wire[e]) >= 1
        BY <1>4
      <4>2. \A n \in Nat : n >= 1 /\ n <= 1 => n = 1
        OBVIOUS
      <4> QED
        BY <3>2, <4>1, <4>2
    <3> QED
      BY <1>4, <3>3, QueueFacts
  <2>3. Together'
    <3> SUFFICES ASSUME live', pc'[p] \in Active
                 PROVE  Greeting(2, 2, 0, 0)'
      BY <1>1 DEF Together
    <3>1. ~Finishing /\ (~\A x \in Ends : pc[x] \in Post) /\ ~Greeting(1, 0, 0, 1)
          /\ ~\E n \in {0, 1, 2} : Greeting(n, n, 0, 0)
      BY <1>4, <1>12 DEF Finishing, Post, Greeting
    <3>2. Greeting(1, 2, 1, 0)
      BY <1>1, <1>2, <2>1, <3>1 DEF Together, Active
    <3>3. Len(wire'[e]) = 0
      BY <2>2, EmptySeq
    <3> QED
      BY <1>4, <1>5, <1>12, <2>1, <3>2, <3>3 DEF Greeting
  <2>4. Alone'
    BY <1>2, <1>4, <1>12, <2>1 DEF Alone
  <2> QED
    BY <1>1, <1>6, <1>7, <1>8, <1>9, <2>2, <2>3, <2>4, UnderNothing DEF SessionInv
<1>13. CASE e = "responder" /\ hs[e] = 2
  <2>1. p = "initiator" /\ pc'[e] = "open" /\ wire[e][1] = Handshake(3) /\ 1 \in 1 .. Len(wire[e])
    <3>1. ASSUME NEW v, TRUE \in {v} PROVE v
      BY <3>1
    <3>2. Verdicts(e, Head(wire[e])) = {Head(wire[e]) = Handshake(hs[e] + 1)} /\ hs[e] + 1 = 3
      BY <1>13 DEF Verdicts
    <3>3. Head(wire[e]) = Handshake(3)
      BY <3>1, <3>2
    <3> QED
      BY <1>1, <1>4, <1>5, <1>13, <3>3 DEF Ends
  <2>2. /\ Streams(e) /\ Rest(e) = Tail(wire[e]) /\ Rest(e)' = Tail(wire[e])
        /\ Taken(e)' = Taken(e) /\ Rest(p)' = Rest(p) /\ Taken(p)' = Taken(p)
    BY <1>2, <1>4, <1>5, <2>1 DEF Under, Rest, Taken
  <2>3. Under(e)'
    BY <2>1, <2>2 DEF Under, Streams, ReceiveKey
  <2>4. Together'
    <3> SUFFICES ASSUME live', pc'[p] \in Active
                 PROVE  pc'[p] \in Post /\ \A x \in Ends : Linked(x)'
      BY <1>1, <2>1 DEF Together, Post
    <3>1. ~Greeting(1, 2, 1, 0) /\ ~Greeting(1, 0, 0, 1) /\ ~\E n \in {0, 1, 2} : Greeting(n, n, 0, 0)
      BY <1>4, <1>13 DEF Greeting
    <3>2. Finishing /\ \A x \in Ends : Linked(x)
      BY <1>1, <1>2, <1>5, <3>1 DEF Together, Active, Post
    <3>3. ASSUME NEW x \in Ends PROVE Linked(x)'
      <4>1. /\ Rest(x)' = Rest(x) /\ Taken(x)' = Taken(x)
            /\ pc'[Peer(x)] = "sending" <=> pc[Peer(x)] = "sending"
        BY <1>1, <1>5, <2>1, <2>2, PeerFacts
      <4> QED
        BY <3>2, <4>1 DEF Linked
    <3> QED
      BY <1>5, <2>1, <3>2, <3>3 DEF Finishing
  <2>5. Alone'
    BY <1>2, <1>5, <1>13, <2>1 DEF Alone
  <2> QED
    BY <1>1, <1>6, <1>7, <1>8, <1>9, <2>3, <2>4, <2>5 DEF SessionInv
<1> QED
  BY <1>2, <1>3, <1>11, <1>12, <1>13, Turns DEF Ends

\* An end sends a message, or the data of a chunk.
LEMMA MessageSent ==
  ASSUME SessionInv, NEW e \in Ends, SendMessage(e) \/ SendData(e), serving # None,
         UNCHANGED serving
  PROVE  SessionInv'
<1> DEFINE p == Peer(e)
           Bodies == [type : {"other", "file_chunk", "data"}, n : Nat]
<1>1. p \in Ends /\ p # e /\ (\A x \in Ends : x = e \/ x = p) /\ Peer(p) = e
  BY PeerFacts
<1>2. /\ SessionTypeOK /\ (\A x \in Ends : Knows(x) /\ Under(x)) /\ Together /\ Alone /\ Unopened
  BY DEF SessionInv
<1>3. /\ sent[e] \in Nat /\ part[e] \in Nat /\ nonces[e].send \in Nat /\ nonces[p].receive \in Nat
      /\ MaxMessages[e] \in Nat /\ sent[e] <= MaxMessages[e]
  BY <1>1, <1>2, EndTypes DEF SessionTypeOK
<1>4. PICK b \in Bodies :
        /\ Encrypt(e, b) /\ b.n <= MaxMessages[e]
        /\ \/ pc[e] = "open" /\ b.n = sent[e] + 1 /\ b.type # "data"
           \/ pc[e] = "sending" /\ b = Data(part[e]) /\ part[e] = sent[e]
        /\ pc' = [pc EXCEPT ![e] = IF b.type = "file_chunk" THEN "sending" ELSE "open"]
        /\ sent' = [sent EXCEPT ![e] = b.n]
        /\ part' = [part EXCEPT ![e] = part'[e]] /\ part'[e] \in Nat
        /\ b.type = "file_chunk" => part'[e] = b.n
        /\ UNCHANGED <<hs, ciphers, got, live>>
  <2>1. CASE SendMessage(e)
    <3>1. PICK m \in {Plain(sent[e] + 1)}
                       \cup (IF e = "responder" THEN {FileChunk(sent[e] + 1)} ELSE {}) :
            /\ Encrypt(e, m)
            /\ sent' = [sent EXCEPT ![e] = sent[e] + 1]
            /\ IF m.type = "file_chunk"
               THEN Become(e, "sending") /\ part' = [part EXCEPT ![e] = sent[e] + 1]
               ELSE UNCHANGED <<pc, part>>
      BY <2>1 DEF SendMessage
    <3>2. m \in Bodies /\ m.n = sent[e] + 1 /\ m.type \in {"other", "file_chunk"}
      BY <1>3, <3>1 DEF Plain, FileChunk
    <3>3. pc[e] = "open" /\ sent[e] + 1 <= MaxMessages[e] /\ UNCHANGED <<hs, ciphers, got, live>>
      BY <1>3, <2>1 DEF SendMessage
    <3>4. /\ pc' = [pc EXCEPT ![e] = IF m.type = "file_chunk" THEN "sending" ELSE "open"]
          /\ part' = [part EXCEPT ![e] = part'[e]] /\ part'[e] \in Nat
          /\ m.type = "file_chunk" => part'[e] = m.n
      BY <1>2, <1>3, <3>1, <3>2, <3>3 DEF Become, SessionTypeOK
    <3> QED
      BY <3>1, <3>2, <3>3, <3>4
  <2>2. CASE SendData(e)
    <3>1. /\ pc[e] = "sending" /\ Encrypt(e, Data(part[e])) /\ pc' = [pc EXCEPT ![e] = "open"]
          /\ part' = [part EXCEPT ![e] = 0] /\ UNCHANGED <<hs, ciphers, sent, got, live>>
      BY <2>2 DEF SendData, Become, NoPart
    <3>2. part[e] = sent[e]
      BY <1>2, <3>1 DEF Knows
    <3>3. Data(part[e]) \in Bodies /\ Data(part[e]).type = "data" /\ Data(part[e]).n = part[e]
      BY <1>3 DEF Data
    <3>4. sent' = [sent EXCEPT ![e] = part[e]] /\ part'[e] = 0
      BY <1>2, <3>1, <3>2 DEF SessionTypeOK
    <3>5. /\ part' = [part EXCEPT ![e] = part'[e]] /\ part'[e] \in Nat
          /\ Data(part[e]).n <= MaxMessages[e] /\ sent' = [sent EXCEPT ![e] = Data(part[e]).n]
      <4>1. part' = [part EXCEPT ![e] = part'[e]] /\ part'[e] \in Nat
        BY <1>2, <3>1, <3>4 DEF SessionTypeOK
      <4> QED
        BY <1>3, <3>2, <3>3, <3>4, <4>1
    <3> HIDE DEF Bodies
    <3> QED
      BY <3>1, <3>2, <3>3, <3>5
  <2> QED
    BY <2>1, <2>2
<1> DEFINE f == Sealed(ciphers[e].send, nonces[e].send, b)
<1>5. /\ f \in Frames /\ f.key \in {"none", "cs1", "cs2"} /\ f.nonce = nonces[e].send /\ f.body = b
      /\ f # Handshake(3) /\ f.key = ciphers[e].send
  <2>1. ciphers[e].send \in {"none", "cs1", "cs2"}
    BY <1>2 DEF SessionTypeOK
  <2> QED
    BY <1>3, <2>1 DEF Frames, Sealed, Keys, Handshake
<1>6. /\ wire' \in [Ends -> Seq(Frames)] /\ \A x \in Ends : Len(wire'[x]) <= Room
      /\ wire'[e] = wire[e]
      /\ wire'[p] = IF Carries(e) THEN Append(wire[p], f) ELSE wire[p]
  BY <1>2, <1>4, <1>5, WriteTypes DEF Encrypt
<1>7. /\ nonces' = [nonces EXCEPT ![e].send = nonces[e].send + 1]
      /\ nonces'[e].send = nonces[e].send + 1 /\ nonces'[e].receive = nonces[e].receive
      /\ nonces'[p] = nonces[p]
  BY <1>1, <1>2, <1>4 DEF Encrypt, SessionTypeOK
<1>8. Carries(e) <=> live /\ pc[p] # "closed"
  BY DEF Carries
<1> HIDE DEF p, f, Bodies
<1>9. /\ pc[e] \in {"open", "sending"} /\ pc'[e] \in {"open", "sending"} /\ pc'[p] = pc[p]
      /\ pc'[e] = "sending" <=> b.type = "file_chunk"
      /\ sent'[e] = b.n /\ sent'[p] = sent[p] /\ part'[p] = part[p]
  BY <1>1, <1>2, <1>4 DEF SessionTypeOK
<1>10. SessionTypeOK'
  <2>1. /\ pc' \in [Ends -> Active \cup {"off", "closed"}] /\ part' \in [Ends -> Nat]
        /\ sent' \in [Ends -> Nat] /\ nonces' \in [Ends -> [send : Nat, receive : Nat]]
    <3>1. b.n \in Nat /\ (IF b.type = "file_chunk" THEN "sending" ELSE "open") \in Active
      BY DEF Bodies, Active
    <3>2. nonces[e] \in [send : Nat, receive : Nat]
      BY <1>2 DEF SessionTypeOK
    <3>3. [nonces[e] EXCEPT !.send = nonces[e].send + 1] \in [send : Nat, receive : Nat]
      BY <1>3, <3>2
    <3> QED
      BY <1>2, <1>4, <1>7, <3>1, <3>3 DEF SessionTypeOK
  <2>2. \A x \in Ends : sent'[x] <= MaxMessages[x] /\ got'[x] <= MaxMessages[Peer(x)]
    BY <1>1, <1>2, <1>4, <1>9 DEF SessionTypeOK
  <2> QED
    BY <1>2, <1>4, <1>6, <2>1, <2>2 DEF SessionTypeOK
<1>11. Knows(e)' /\ Knows(p)'
  <2>1. Knows(e)'
    BY <1>2, <1>4, <1>9 DEF Knows, NewSession, Post
  <2>2. Knows(p)'
    BY <1>1, <1>2, <1>4, <1>7, <1>9 DEF Knows, NewSession
  <2> QED
    BY <2>1, <2>2
<1>12. Under(e)' /\ Rest(e)' = Rest(e) /\ Taken(e)' = Taken(e)
  <2>1. Rest(e)' = Rest(e) /\ Taken(e)' = Taken(e)
    BY <1>4, <1>6, <1>9 DEF Rest, Taken
  <2> QED
    BY <1>2, <1>4, <1>6, <1>7, <1>9, <2>1, UnderKept DEF Post
<1>13. Taken(p)' = Taken(p)
  BY <1>4, <1>9 DEF Taken
<1>14. Alone' /\ Unopened'
  <2>1. Alone'
    BY <1>1, <1>2, <1>9, PeerFacts DEF Alone, Post, Ends
  <2> QED
    BY <1>1, <1>2, <1>9, <2>1, PeerFacts DEF Unopened
<1>15. CASE ~Carries(e)
  <2>1. Under(p)'
    BY <1>1, <1>2, <1>4, <1>6, <1>7, <1>9, <1>13, <1>15, UnderKept
  <2>2. Together'
    BY <1>1, <1>4, <1>8, <1>9, <1>15 DEF Together, Active
  <2> QED
    BY <1>1, <1>10, <1>11, <1>12, <1>14, <2>1, <2>2 DEF SessionInv
<1>16. CASE Carries(e)
  <2>1. live /\ \A x \in Ends : pc[x] \in Active
    BY <1>1, <1>2, <1>8, <1>9, <1>16, PeerFacts DEF SessionTypeOK, Active, Alone, Unopened, Post, Ends
  <2>2. /\ Finishing \/ \A x \in Ends : pc[x] \in Post
        /\ Linked(e) /\ Linked(p) /\ pc[e] # "handshake"
    <3>1. \A i, r, k, l : ~Greeting(i, r, k, l)
      BY <1>9, PeerFacts DEF Greeting, Ends
    <3> QED
      BY <1>1, <1>2, <1>9, <2>1, <3>1 DEF Together
  <2>3. /\ wire[p] \in Seq(Frames) /\ wire'[p] = Append(wire[p], f)
        /\ Len(wire[p]) \in Nat /\ Len(wire'[p]) = Len(wire[p]) + 1
        /\ \A i \in 1 .. Len(wire[p]) : wire'[p][i] = wire[p][i]
        /\ wire'[p][Len(wire[p]) + 1] = f
    BY <1>1, <1>2, <1>5, <1>6, <1>16, AppendProperties, LenProperties DEF SessionTypeOK
  <2>4. ASSUME pc[p] = "handshake"
        PROVE  p = "responder" /\ Finishing /\ wire[p] # <<>> /\ wire[p][1] = Handshake(3)
    BY <1>1, <2>2, <2>4 DEF Finishing, Post, Ends
  <2>5. Rest(p) \in Seq(Frames) /\ Rest(p)' = Append(Rest(p), f) /\ Streams(p)
    <3>1. CASE pc[p] = "handshake"
      <4>1. Rest(p) = Tail(wire[p]) /\ Rest(p)' = Tail(wire'[p])
        BY <1>9, <3>1 DEF Rest
      <4>2. 1 \in 1 .. Len(wire[p]) /\ Tail(wire[p]) \in Seq(Frames)
        BY <2>3, <2>4, <3>1, QueueFacts
      <4>3. Tail(Append(wire[p], f)) = Append(Tail(wire[p]), f)
        BY <1>5, <2>3, <2>4, <3>1, TailOfAppend
      <4>4. Streams(p)
        BY <1>1, <1>2, <2>4, <3>1, <4>2 DEF Under
      <4> QED
        BY <2>3, <4>1, <4>2, <4>3, <4>4
    <3>2. CASE pc[p] # "handshake"
      <4>1. pc[p] \in Post /\ Under(p)
        BY <1>1, <1>2, <2>2, <3>2 DEF Finishing, Ends
      <4> QED
        BY <1>9, <2>3, <3>2, <4>1 DEF Rest, Under
    <3> QED
      BY <3>1, <3>2
  <2>6. /\ Follows(LastOf(Rest(p), Taken(p)), b)
        /\ nonces[e].send = nonces[p].receive + Len(Rest(p))
    <3>1. /\ nonces[e].send = nonces[p].receive + Len(Rest(p))
          /\ LastOf(Rest(p), Taken(p)).n = sent[e]
          /\ LastOf(Rest(p), Taken(p)).type = "file_chunk" <=> pc[e] = "sending"
      BY <1>1, <2>2 DEF Linked
    <3>2. CASE pc[e] = "sending"
      BY <1>4, <3>1, <3>2 DEF Follows
    <3>3. CASE pc[e] # "sending"
      BY <1>4, <3>1, <3>3 DEF Follows
    <3> QED
      BY <3>1, <3>2, <3>3
  <2>7. Streams(p)' /\ LastOf(Rest(p)', Taken(p)') = b /\ Len(Rest(p)') = Len(Rest(p)) + 1
    <3>1. f.key = ReceiveKey(p)
      BY <1>1, <1>2, <1>5, <1>9 DEF Knows, ReceiveKey, NewSession, Post, Ends
    <3>2. Stream(Rest(p), ReceiveKey(p), nonces[p].receive, Taken(p), MaxMessages[e])
      BY <1>1, <2>5 DEF Streams
    <3>3. /\ Stream(Append(Rest(p), f), ReceiveKey(p), nonces[p].receive, Taken(p), MaxMessages[e])
          /\ LastOf(Append(Rest(p), f), Taken(p)) = b
      BY <1>3, <1>4, <1>5, <2>5, <2>6, <3>1, <3>2, StreamGrows
    <3>4. Len(Append(Rest(p), f)) = Len(Rest(p)) + 1
      BY <1>5, <2>5, AppendProperties
    <3>5. Streams(p)'
      BY <1>1, <1>7, <1>13, <2>5, <3>3 DEF Streams, ReceiveKey
    <3> QED
      BY <1>13, <2>5, <3>3, <3>4, <3>5
  <2>8. Under(p)'
    <3>1. CASE pc[p] = "handshake"
      <4>1. \A i \in 1 .. Len(wire'[p]) : wire'[p][i] = Handshake(3) => i = 1
        <5> SUFFICES ASSUME NEW i \in 1 .. Len(wire'[p]), wire'[p][i] = Handshake(3)
                     PROVE  i = 1
          OBVIOUS
        <5>1. i \in 1 .. Len(wire[p])
          BY <1>5, <2>3
        <5> QED
          BY <1>1, <1>2, <2>3, <3>1, <5>1 DEF Under
      <4> QED
        BY <1>9, <2>4, <2>7, <3>1, <4>1 DEF Under, Post
    <3>2. CASE pc[p] # "handshake"
      BY <1>9, <2>7, <3>2 DEF Under
    <3> QED
      BY <3>1, <3>2
  <2>9. Together'
    <3>1. Linked(p)'
      <4>1. nonces'[e].send = nonces'[p].receive + Len(Rest(p)')
        <5>1. Len(Rest(p)) \in Nat
          BY <2>5, LenProperties
        <5>2. nonces'[e].send = nonces[e].send + 1 /\ nonces'[p].receive = nonces[p].receive
          BY <1>7
        <5>3. nonces[e].send = nonces[p].receive + Len(Rest(p))
          BY <2>6
        <5>4. Len(Rest(p)') = Len(Rest(p)) + 1
          BY <2>7
        <5>5. nonces[p].receive \in Nat
          BY <1>3
        <5> QED
          BY <5>1, <5>2, <5>3, <5>4, <5>5
      <4> QED
        BY <1>1, <1>9, <2>7, <4>1 DEF Linked
    <3>2. Linked(e)'
      BY <1>1, <1>7, <1>9, <1>12, <2>2 DEF Linked, p
    <3>3. Finishing' \/ \A x \in Ends : pc'[x] \in Post
      <4>1. CASE Finishing
        <5>1. /\ e = "initiator" /\ p = "responder"
          BY <1>1, <2>2, <4>1 DEF Finishing, Ends
        <5>2. Len(wire[p]) >= 1 /\ Len(wire'[p]) # 0 /\ wire'[p][1] = Handshake(3)
          BY <2>3, <4>1, <5>1, QueueFacts DEF Finishing
        <5>3. wire'[p] # <<>>
          BY <5>2, EmptySeq
        <5> QED
          BY <1>4, <1>6, <1>9, <4>1, <5>1, <5>2, <5>3 DEF Finishing, Post
      <4>2. CASE \A x \in Ends : pc[x] \in Post
        BY <1>1, <1>9, <4>2 DEF Post
      <4> QED
        BY <2>2, <4>1, <4>2
    <3> QED
      BY <1>1, <3>1, <3>2, <3>3 DEF Together
  <2> QED
    BY <1>1, <1>10, <1>11, <1>12, <1>14, <2>8, <2>9 DEF SessionInv
<1> QED
  BY <1>15, <1>16

\* An end takes a message, or the data of a chunk, and goes on.
LEMMA MessageRead ==
  ASSUME SessionInv, NEW e \in Ends, ReceiveMessage(e) \/ ReceiveData(e), ~Closes(e),
         serving # None, UNCHANGED serving
  PROVE  SessionInv'
<1> DEFINE p == Peer(e)
           m == Head(wire[e]).body
<1>1. p \in Ends /\ p # e /\ (\A x \in Ends : x = e \/ x = p) /\ Peer(p) = e
  BY PeerFacts
<1>2. /\ SessionTypeOK /\ (\A x \in Ends : Knows(x) /\ Under(x)) /\ Together /\ Alone /\ Unopened
  BY DEF SessionInv
<1>3. /\ got[e] \in Nat /\ part[e] \in Nat /\ nonces[e].receive \in Nat /\ m.n \in Nat
      /\ wire[e] \in Seq(Frames) /\ wire[e] # <<>> /\ Head(wire[e]) = wire[e][1]
      /\ 1 \in 1 .. Len(wire[e]) /\ Tail(wire[e]) \in Seq(Frames)
      /\ Len(wire[e]) \in Nat /\ Len(Tail(wire[e])) = Len(wire[e]) - 1
  <2>1. wire[e] # <<>>
    BY DEF ReceiveMessage, ReceiveData
  <2>2. Head(wire[e]) \in Frames
    BY <1>2, <2>1, EndTypes
  <2>3. m.n \in Nat
    BY <2>2 DEF Frames
  <2> QED
    BY <1>2, <2>1, <2>3, EndTypes
<1>4. /\ pc[e] \in {"open", "receiving"} /\ Decrypt(e) /\ Read(e)
      /\ UNCHANGED <<hs, ciphers, sent, live>>
      /\ \/ /\ pc[e] = "open" /\ m.type = "file_chunk"
            /\ pc' = [pc EXCEPT ![e] = "receiving"] /\ part' = [part EXCEPT ![e] = m.n]
            /\ got' = got
         \/ /\ pc[e] = "open" /\ m.type # "file_chunk" /\ m.type # "data"
            /\ pc' = pc /\ part' = part /\ got' = [got EXCEPT ![e] = got[e] + 1]
         \/ /\ pc[e] = "receiving"
            /\ pc' = [pc EXCEPT ![e] = "open"] /\ part' = [part EXCEPT ![e] = 0]
            /\ got' = [got EXCEPT ![e] = got[e] + 1]
  <2>1. CASE ReceiveMessage(e)
    BY <2>1 DEF ReceiveMessage, Become
  <2>2. CASE ReceiveData(e)
    BY <2>2 DEF ReceiveData, Become, NoPart
  <2> QED
    BY <2>1, <2>2
<1> HIDE DEF p, m
<1>5. /\ Stream(wire[e], ReceiveKey(e), nonces[e].receive, Taken(e), MaxMessages[p])
      /\ Rest(e) = wire[e] /\ pc[e] \in Post /\ m = wire[e][1].body
      /\ Follows(Taken(e), m) /\ m.n <= MaxMessages[p]
  <2>1. pc[e] \in Post /\ Rest(e) = wire[e]
    BY <1>4 DEF Rest, Post
  <2>2. Streams(e)
    BY <1>2, <2>1 DEF Under
  <2> QED
    BY <1>3, <2>1, <2>2 DEF Streams, Stream, m, p
<1>6. /\ wire' = [wire EXCEPT ![e] = Tail(wire[e])] /\ wire'[e] = Tail(wire[e]) /\ wire'[p] = wire[p]
      /\ nonces' = [nonces EXCEPT ![e].receive = nonces[e].receive + 1]
      /\ nonces'[e].receive = nonces[e].receive + 1 /\ nonces'[e].send = nonces[e].send
      /\ nonces'[p] = nonces[p]
  BY <1>1, <1>2, <1>4 DEF Read, Decrypt, SessionTypeOK
<1>7. /\ pc'[e] \in {"open", "receiving"} /\ pc'[p] = pc[p] /\ part'[p] = part[p] /\ got'[p] = got[p]
      /\ Alike(Taken(e)', m) /\ (pc'[e] = "receiving" => part'[e] = got'[e] + 1)
      /\ got'[e] \in Nat /\ got'[e] <= MaxMessages[p] /\ part'[e] \in Nat
  <2>1. pc'[p] = pc[p] /\ part'[p] = part[p] /\ got'[p] = got[p]
    BY <1>1, <1>2, <1>4 DEF SessionTypeOK
  <2>2. CASE pc[e] = "open" /\ m.type = "file_chunk"
    <3>1. pc'[e] = "receiving" /\ part'[e] = m.n /\ got'[e] = got[e]
      BY <1>2, <1>4, <2>2 DEF SessionTypeOK
    <3>2. m.n = got[e] + 1
      BY <1>5, <2>2 DEF Follows, Taken, Plain
    <3>3. got[e] <= MaxMessages[p]
      BY <1>2 DEF SessionTypeOK, p
    <3> QED
      BY <1>3, <2>1, <2>2, <3>1, <3>2, <3>3 DEF Alike, Taken, FileChunk
  <2>3. CASE pc[e] = "open" /\ m.type # "file_chunk"
    <3>1. pc'[e] = "open" /\ part'[e] = part[e] /\ got'[e] = got[e] + 1
      BY <1>2, <1>4, <2>3 DEF SessionTypeOK
    <3>2. m.n = got[e] + 1
      BY <1>5, <2>3 DEF Follows, Taken, Plain
    <3> QED
      BY <1>3, <1>5, <2>1, <2>3, <3>1, <3>2 DEF Alike, Taken, Plain
  <2>4. CASE pc[e] = "receiving"
    <3>1. pc'[e] = "open" /\ part'[e] = 0 /\ got'[e] = got[e] + 1
      BY <1>2, <1>4, <2>4 DEF SessionTypeOK
    <3>2. part[e] = got[e] + 1
      BY <1>2, <2>4 DEF Knows
    <3>3. m.n = part[e] /\ m.type = "data"
      BY <1>5, <2>4 DEF Follows, Taken, FileChunk, Data
    <3> QED
      BY <1>3, <1>5, <2>1, <3>1, <3>2, <3>3 DEF Alike, Taken, Plain
  <2> QED
    BY <1>4, <2>2, <2>3, <2>4
<1>8. SessionTypeOK'
  <2>1. pc' = [pc EXCEPT ![e] = pc'[e]] /\ part' = [part EXCEPT ![e] = part'[e]]
        /\ got' = [got EXCEPT ![e] = got'[e]]
    BY <1>2, <1>4 DEF SessionTypeOK
  <2>2. /\ pc' \in [Ends -> Active \cup {"off", "closed"}] /\ part' \in [Ends -> Nat]
        /\ got' \in [Ends -> Nat]
    BY <1>2, <1>7, <2>1 DEF SessionTypeOK, Active
  <2>3. nonces' \in [Ends -> [send : Nat, receive : Nat]]
    <3>1. nonces[e] \in [send : Nat, receive : Nat]
      BY <1>2 DEF SessionTypeOK
    <3>2. nonces[e].receive + 1 \in Nat
      BY <1>3
    <3>3. [nonces[e] EXCEPT !.receive = nonces[e].receive + 1] \in [send : Nat, receive : Nat]
      BY <3>1, <3>2
    <3> QED
      BY <1>2, <1>6, <3>3 DEF SessionTypeOK
  <2>4. wire' \in [Ends -> Seq(Frames)]
    BY <1>2, <1>3, <1>6 DEF SessionTypeOK
  <2>5. ASSUME NEW x \in Ends
        PROVE  /\ sent'[x] <= MaxMessages[x] /\ got'[x] <= MaxMessages[Peer(x)]
               /\ Len(wire'[x]) <= Room
    <3>1. /\ sent[x] <= MaxMessages[x] /\ got[x] <= MaxMessages[Peer(x)] /\ Len(wire[x]) <= Room
      BY <1>2 DEF SessionTypeOK
    <3>2. CASE x = e
      BY <1>3, <1>4, <1>6, <1>7, <3>1, <3>2 DEF p
    <3>3. CASE x = p
      BY <1>4, <1>6, <1>7, <3>1, <3>3
    <3> QED
      BY <1>1, <3>2, <3>3
  <2> QED
    BY <1>2, <1>4, <2>2, <2>3, <2>4, <2>5 DEF SessionTypeOK
<1>9. Knows(e)' /\ Knows(p)'
  <2>1. Knows(e)'
    BY <1>2, <1>4, <1>5, <1>7 DEF Knows, NewSession
  <2>2. Knows(p)'
    BY <1>1, <1>2, <1>4, <1>6, <1>7 DEF Knows, NewSession
  <2> QED
    BY <2>1, <2>2
<1>10. Under(e)' /\ Alike(LastOf(Rest(e)', Taken(e)'), LastOf(Rest(e), Taken(e)))
  <2>1. /\ Stream(Tail(wire[e]), ReceiveKey(e), nonces[e].receive + 1, Taken(e)', MaxMessages[p])
        /\ Alike(LastOf(Tail(wire[e]), Taken(e)'), LastOf(wire[e], Taken(e)))
    BY <1>3, <1>5, <1>7, StreamTaken
  <2>2. Rest(e)' = Tail(wire[e])
    BY <1>6, <1>7 DEF Rest
  <2>3. Streams(e)'
    BY <1>6, <2>1, <2>2 DEF Streams, ReceiveKey, p
  <2> QED
    BY <1>5, <1>7, <2>1, <2>2, <2>3 DEF Under, Post
<1>11. Under(p)' /\ Rest(p)' = Rest(p) /\ Taken(p)' = Taken(p)
  <2>1. Rest(p)' = Rest(p) /\ Taken(p)' = Taken(p)
    BY <1>6, <1>7 DEF Rest, Taken
  <2> QED
    BY <1>1, <1>2, <1>4, <1>6, <1>7, <2>1, UnderKept
<1>12. Together'
  <2> SUFFICES ASSUME live', \A x \in Ends : pc'[x] \in Active
               PROVE  /\ \A x \in Ends : pc'[x] \in Post
                      /\ Linked(e)' /\ Linked(p)'
    BY <1>1 DEF Together
  <2>1. live /\ \A x \in Ends : pc[x] \in Active
    BY <1>1, <1>4, <1>7 DEF Active
  <2>2. \A i, r, k, l : ~Greeting(i, r, k, l)
    BY <1>4, PeerFacts DEF Greeting, Ends
  <2>3. ~Finishing
    BY <1>3, <1>4 DEF Finishing, Ends
  <2>4. (\A x \in Ends : pc[x] \in Post) /\ Linked(e) /\ Linked(p)
    BY <1>1, <1>2, <2>1, <2>2, <2>3 DEF Together
  <2>5. \A x \in Ends : pc'[x] \in Post
    BY <1>1, <1>7, <2>4 DEF Post
  <2>6. Linked(p)'
    BY <1>1, <1>4, <1>6, <1>7, <1>11, <2>4 DEF Linked
  <2>7. Linked(e)'
    <3>1. Rest(e)' = Tail(wire[e])
      BY <1>6, <1>7 DEF Rest
    <3>2. nonces'[p].send = nonces'[e].receive + Len(Rest(e)')
      <4>1. nonces[p].send = nonces[e].receive + Len(Rest(e))
        BY <2>4 DEF Linked, p
      <4>2. Rest(e) = wire[e] /\ Len(Rest(e)') = Len(wire[e]) - 1
        BY <1>3, <1>4, <3>1 DEF Rest
      <4>3. nonces'[p].send = nonces[p].send /\ nonces'[e].receive = nonces[e].receive + 1
        BY <1>6
      <4>4. nonces[e].receive \in Nat /\ Len(wire[e]) \in Nat
        BY <1>3
      <4>5. \A a, b \in Nat : a + b = (a + 1) + (b - 1)
        OBVIOUS
      <4>6. nonces[e].receive + Len(wire[e]) = (nonces[e].receive + 1) + (Len(wire[e]) - 1)
        BY <4>4, <4>5, Zenon
      <4> QED
        BY <4>1, <4>2, <4>3, <4>6, Zenon
    <3>3. /\ LastOf(Rest(e)', Taken(e)').n = sent'[p]
          /\ LastOf(Rest(e)', Taken(e)').type = "file_chunk" <=> pc'[p] = "sending"
      BY <1>4, <1>7, <1>10, <2>4 DEF Linked, Alike, p
    <3> QED
      BY <3>2, <3>3 DEF Linked, p
  <2> QED
    BY <2>5, <2>6, <2>7
<1>13. Alone' /\ Unopened'
  <2>1. Alone'
    BY <1>1, <1>2, <1>4, <1>7, PeerFacts DEF Alone, Post, Ends
  <2> QED
    BY <1>1, <1>2, <1>4, <1>7, <2>1, PeerFacts DEF Unopened
<1> QED
  BY <1>1, <1>8, <1>9, <1>10, <1>11, <1>12, <1>13 DEF SessionInv


\* The sender accepts a connection.
LEMMA SessionOpens ==
  ASSUME SessionInv, serving = None, NEW speaks \in BOOLEAN, Open(speaks), serving' \in Receivers,
         speaks => serving' \notin Strays
  PROVE  SessionInv'
<1>1. SessionTypeOK /\ (\A x \in Ends : Knows(x)) /\ Unopened
  BY DEF SessionInv
<1>2. \A x \in Ends : pc[x] = "off" /\ wire[x] = <<>> /\ Len(wire[x]) = 0
  <2> SUFFICES ASSUME NEW x \in Ends PROVE pc[x] = "off" /\ wire[x] = <<>> /\ Len(wire[x]) = 0
    OBVIOUS
  <2>1. pc[x] = "off" /\ wire[x] = <<>>
    BY <1>1 DEF Unopened
  <2> QED
    BY <2>1, EmptySeq
<1>3. /\ pc'["responder"] = "handshake"
      /\ pc'["initiator"] = IF speaks THEN "handshake" ELSE "off"
      /\ \A x \in Ends : pc'[x] \in {"handshake", "off"}
      /\ live' = TRUE /\ wire' = wire /\ hs' = hs /\ nonces' = nonces /\ part' = part
      /\ sent' = sent /\ got' = got /\ ciphers' = ciphers
  BY DEF Open, Ends
<1>4. serving' # None
  BY NamesAssumption DEF ServerMsgs
<1>5. SessionTypeOK'
  <2>1. pc' \in [Ends -> Active \cup {"off", "closed"}]
    BY DEF Open, Active
  <2> QED
    BY <1>1, <1>3, <2>1 DEF SessionTypeOK
<1>6. ASSUME NEW x \in Ends
      PROVE  Knows(x)' /\ Under(x)'
  <2>1. Knows(x)'
    BY <1>1, <1>2, <1>3 DEF Knows, Post
  <2>2. wire'[x] = <<>>
    BY <1>2, <1>3
  <2> QED
    BY <2>1, <2>2, UnderNothing
<1>7. Together'
  <2> SUFFICES ASSUME \A x \in Ends : pc'[x] \in Active
               PROVE  Greeting(0, 0, 0, 0)'
    BY DEF Together
  <2>1. pc'["initiator"] = "handshake"
    BY <1>3 DEF Active, Ends
  <2>2. \A x \in Ends : hs[x] = 0
    BY <1>1, <1>2 DEF Knows
  <2> QED
    BY <1>2, <1>3, <2>1, <2>2 DEF Greeting, Ends
<1>8. Alone'
  <2>1. ~(\E i \in 1 .. Len(wire'["responder"]) : TRUE)
    BY <1>2, <1>3 DEF Ends
  <2> QED
    BY <1>3, <2>1 DEF Alone, Post
<1>9. Unopened'
  BY <1>3, <1>4 DEF Unopened
<1> QED
  BY <1>5, <1>6, <1>7, <1>8, <1>9 DEF SessionInv

\* One who is no goxfer writes to the sender.
LEMMA GarbageWritten ==
  ASSUME SessionInv, serving \in Strays, CanWrite("initiator"), Write("initiator", Garbage),
         UNCHANGED <<pc, hs, ciphers, nonces, part, sent, got, live, serving>>
  PROVE  SessionInv'
<1>1. /\ SessionTypeOK /\ (\A x \in Ends : Knows(x) /\ Under(x)) /\ Alone /\ Unopened
      /\ "initiator" \in Ends /\ "responder" \in Ends /\ Peer("initiator") = "responder"
  BY DEF SessionInv, Ends, Peer
<1>2. Garbage \in Frames
  BY DEF Garbage, Frames, Sealed, Plain, Keys
<1>3. /\ wire' \in [Ends -> Seq(Frames)] /\ \A x \in Ends : Len(wire'[x]) <= Room
      /\ wire'["initiator"] = wire["initiator"]
      /\ wire'["responder"] \in {wire["responder"], Append(wire["responder"], Garbage)}
  BY <1>1, <1>2, WriteTypes
<1>4. SessionTypeOK'
  BY <1>1, <1>3 DEF SessionTypeOK
<1>5. \A x \in Ends : Knows(x)'
  BY <1>1 DEF Knows
<1>6. /\ pc["initiator"] \in {"off", "closed"} /\ pc["responder"] \notin Post
      /\ \A i \in 1 .. Len(wire["responder"]) : wire["responder"][i] # Handshake(3)
  BY <1>1 DEF Alone
<1>7. \A i \in 1 .. Len(wire'["responder"]) : wire'["responder"][i] # Handshake(3)
  <2>1. CASE wire'["responder"] = wire["responder"]
    BY <1>6, <2>1
  <2>2. CASE wire'["responder"] = Append(wire["responder"], Garbage)
    <3> SUFFICES ASSUME NEW i \in 1 .. Len(wire'["responder"])
                 PROVE  wire'["responder"][i] # Handshake(3)
      OBVIOUS
    <3>1. wire["responder"] \in Seq(Frames) /\ Len(wire["responder"]) \in Nat
      BY <1>1, EndTypes DEF SessionTypeOK
    <3>2. /\ Len(wire'["responder"]) = Len(wire["responder"]) + 1
          /\ \A j \in 1 .. Len(wire["responder"]) : wire'["responder"][j] = wire["responder"][j]
          /\ wire'["responder"][Len(wire["responder"]) + 1] = Garbage
      BY <1>2, <2>2, <3>1, AppendProperties
    <3>3. Garbage # Handshake(3)
      BY DEF Garbage, Handshake, Sealed
    <3>4. CASE i \in 1 .. Len(wire["responder"])
      BY <1>6, <3>2, <3>4
    <3>5. CASE i = Len(wire["responder"]) + 1
      BY <3>2, <3>3, <3>5
    <3> QED
      BY <3>1, <3>2, <3>4, <3>5
  <2> QED
    BY <1>3, <2>1, <2>2
<1>8. Under("responder")'
  <2>1. CASE pc["responder"] = "handshake"
    BY <1>7, <2>1, UnderFirst
  <2>2. CASE pc["responder"] # "handshake"
    BY <1>6, <2>2 DEF Under
  <2> QED
    BY <2>1, <2>2
<1>9. Under("initiator")'
  BY <1>1, <1>6 DEF Under, Post
<1>10. Together'
  BY <1>1, <1>6 DEF Together, Active
<1>11. Alone' /\ Unopened'
  <2>1. Alone'
    BY <1>6, <1>7 DEF Alone
  <2>2. serving # None
    BY StraysAssumption, NamesAssumption DEF ServerMsgs
  <2> QED
    BY <1>1, <2>1, <2>2 DEF Unopened
<1> QED
  BY <1>4, <1>5, <1>8, <1>9, <1>10, <1>11 DEF SessionInv, Ends

\* Steps beside the session.
LEMMA SessionKept ==
  ASSUME SessionInv, UNCHANGED <<session, serving>>
  PROVE  SessionInv'
<1>1. /\ pc' = pc /\ hs' = hs /\ ciphers' = ciphers /\ nonces' = nonces /\ part' = part
      /\ sent' = sent /\ got' = got /\ wire' = wire /\ live' = live /\ serving' = serving
  BY DEF session
<1>2. SessionTypeOK'
  BY <1>1 DEF SessionInv, SessionTypeOK
<1>3. \A x \in Ends : Rest(x)' = Rest(x) /\ Taken(x)' = Taken(x)
  BY <1>1 DEF Rest, Taken
<1>4. \A x \in Ends : Knows(x)' /\ Under(x)'
  BY <1>1, <1>3 DEF SessionInv, Knows, Under, Streams, ReceiveKey
<1>5. Together'
  BY <1>1, <1>3, PeerFacts DEF SessionInv, Together, Greeting, Finishing, Linked
<1>6. Alone' /\ Unopened'
  BY <1>1 DEF SessionInv, Alone, Unopened
<1> QED
  BY <1>2, <1>4, <1>5, <1>6 DEF SessionInv

\* An end of the session makes a step of its own.
LEMMA SessionGoes ==
  ASSUME SessionInv, NEW e \in Ends, Progress(e) \/ SendMessage(e) \/ Close(e), serving # None,
         UNCHANGED serving
  PROVE  SessionInv'
<1>1. CASE Closes(e) /\ UNCHANGED live
  BY <1>1, SessionCloses
<1>2. CASE WriteHandshake(e)
  BY <1>2, HandshakeWritten
<1>3. CASE ReadHandshake(e)
  <2>1. PICK valid \in Verdicts(e, Head(wire[e])) :
          IF valid THEN Advance(e) /\ Read(e) /\ UNCHANGED <<nonces, part, sent, got>>
                   ELSE Closes(e)
    BY <1>3 DEF ReadHandshake
  <2>2. valid \in BOOLEAN /\ UNCHANGED live
    BY <1>3 DEF Verdicts, ReadHandshake
  <2>3. CASE valid
    <3>1. TRUE \in Verdicts(e, Head(wire[e]))
      BY <2>2, <2>3
    <3> QED
      BY <1>3, <2>1, <2>2, <2>3, <3>1, HandshakeRead DEF ReadHandshake
  <2>4. CASE ~valid
    BY <1>1, <2>1, <2>2, <2>4
  <2> QED
    BY <2>3, <2>4
<1>4. CASE SendMessage(e) \/ SendData(e)
  BY <1>4, MessageSent
<1>5. CASE ReceiveMessage(e) \/ ReceiveData(e)
  <2>1. UNCHANGED live
    BY <1>5 DEF ReceiveMessage, ReceiveData
  <2> QED
    BY <1>1, <1>5, <2>1, MessageRead
<1>6. CASE ConnError(e) \/ Close(e)
  BY <1>1, <1>6 DEF ConnError, Close
<1> QED
  BY <1>2, <1>3, <1>4, <1>5, <1>6 DEF Progress

\* The session before anybody connects.
LEMMA SessionStarts ==
  ASSUME Init
  PROVE  SessionInv
<1>1. SessionInit /\ serving = None
  BY DEF Init
<1>2. /\ \A x \in Ends : /\ pc[x] = "off" /\ hs[x] = 0 /\ ciphers[x] = NoKey /\ part[x] = 0
                         /\ nonces[x] = [send |-> 0, receive |-> 0]
                         /\ sent[x] = 0 /\ got[x] = 0 /\ wire[x] = <<>> /\ Len(wire[x]) = 0
      /\ live = FALSE
  BY <1>1, EmptySeq DEF SessionInit, NoPart
<1>3. SessionTypeOK
  <2>1. \A x \in Ends : MaxMessages[x] \in Nat /\ MaxMessages[Peer(x)] \in Nat
    BY PeerFacts
  <2>2. <<>> \in Seq(Frames)
    BY EmptySeq
  <2>3. /\ pc \in [Ends -> Active \cup {"off", "closed"}] /\ hs \in [Ends -> 0 .. 3]
        /\ part \in [Ends -> Nat] /\ sent \in [Ends -> Nat] /\ got \in [Ends -> Nat]
    BY <1>1 DEF SessionInit, NoPart
  <2>6. wire \in [Ends -> Seq(Frames)] /\ live \in BOOLEAN
    BY <1>1, <2>2 DEF SessionInit
  <2>4. /\ ciphers \in [Ends -> [send : {"none", "cs1", "cs2"}, receive : {"none", "cs1", "cs2"}]]
        /\ nonces \in [Ends -> [send : Nat, receive : Nat]]
    BY <1>1 DEF SessionInit, NoKey
  <2>5. \A x \in Ends :
          sent[x] <= MaxMessages[x] /\ got[x] <= MaxMessages[Peer(x)] /\ Len(wire[x]) <= Room
    BY <1>2, <2>1
  <2> QED
    BY <2>3, <2>4, <2>5, <2>6 DEF SessionTypeOK
<1>4. ASSUME NEW x \in Ends
      PROVE  Knows(x) /\ Under(x)
  BY <1>2 DEF Knows, Under, Post
<1>5. Together /\ Unopened
  BY <1>1, <1>2 DEF Together, Unopened
<1>6. Alone
  <2>1. 1 .. Len(wire["responder"]) = {}
    BY <1>2 DEF Ends
  <2> QED
    BY <1>2, <2>1 DEF Alone, Post, Ends
<1> QED
  BY <1>3, <1>4, <1>5, <1>6 DEF SessionInv

\* The session goes on whatever happens around it.
LEMMA SessionNext ==
  ASSUME SessionInv, Before, backlog \in Seq(Receivers), [Next]_vars
  PROVE  SessionInv'
<1>1. CASE UNCHANGED <<session, serving>>
  BY <1>1, SessionKept
<1>2. CASE ServerHello \/ ServerHeartbeat \/ ControlLost
  BY <1>1, <1>2 DEF ServerHello, ServerHeartbeat, ControlLost, ServerOnly
<1>3. ASSUME NEW r \in Receivers,
             \/ ReceiverConnects(r) \/ ReceiverConnectsDirectly(r)
             \/ ServerDrops(r) \/ ReceiverLeaves(r)
      PROVE  SessionInv'
  <2>1. CASE ReceiverConnects(r) \/ ReceiverConnectsDirectly(r) \/ ServerDrops(r)
    BY <1>1, <2>1 DEF ReceiverConnects, ReceiverConnectsDirectly, ServerDrops, ServerOnly
  <2>2. CASE ReceiverLeaves(r) /\ serving = r
    <3>1. serving # None /\ "initiator" \in Ends
      BY <2>2, NamesAssumption DEF ServerMsgs, Ends
    <3> QED
      BY <2>2, <3>1, SessionCloses DEF ReceiverLeaves
  <2>3. CASE ReceiverLeaves(r) /\ serving # r
    BY <1>1, <2>3 DEF ReceiverLeaves
  <2> QED
    BY <1>3, <2>1, <2>2, <2>3
<1>4. CASE StrayWrites
  BY <1>4, GarbageWritten DEF StrayWrites
<1>5. CASE StartTunnel \/ ReaderRecv \/ ReaderPut \/ LoopMsg \/ LoopEnds
  BY <1>1, <1>5 DEF StartTunnel, ReaderRecv, ReaderPut, LoopMsg, LoopEnds, ControlOnly
<1>6. ASSUME NEW r \in Receivers, ForwardAccept(r) \/ ForwardLocal(r) \/ ForwardFails(r)
      PROVE  SessionInv'
  BY <1>1, <1>6 DEF ForwardAccept, ForwardLocal, ForwardFails
<1>7. CASE Accept
  <2>1. serving = None /\ serving' = Head(backlog) /\ serving' \in Receivers
    BY <1>7, QueueFacts DEF Accept, Before
  <2>2. PICK speaks \in BOOLEAN : speaks = (serving' \notin Strays /\ rcv[serving'] = "joined")
    OBVIOUS
  <2> QED
    BY <1>7, <2>1, <2>2, SessionOpens DEF Accept
<1>8. CASE PipeEnds
  BY <1>8, SessionCut DEF PipeEnds
<1>9. CASE MainReturns \/ Exit
  BY <1>1, <1>9 DEF MainReturns, Exit
<1>10. ASSUME NEW e \in Ends, SessionStep(e)
       PROVE  SessionInv'
  BY <1>10, SessionGoes DEF SessionStep
<1>11. CASE UNCHANGED vars
  BY <1>1, <1>11 DEF vars
<1> QED
  BY <1>2, <1>3, <1>4, <1>5, <1>6, <1>7, <1>8, <1>9, <1>10, <1>11 DEF Next

-----------------------------------------------------------------------------
(* How often a message occurs in a queue.                                  *)

\* Where m is in a queue is a finite set.
At(q, m) == {i \in 1 .. Len(q) : q[i] = m}

LEMMA AtFinite ==
  ASSUME NEW S, NEW q \in Seq(S), NEW m
  PROVE  IsFiniteSet(At(q, m)) /\ Count(q, m) \in Nat /\ Count(q, m) = Cardinality(At(q, m))
<1>1. Len(q) \in Nat /\ At(q, m) \in SUBSET (1 .. Len(q))
  BY LenProperties DEF At
<1>2. IsFiniteSet(1 .. Len(q))
  BY <1>1, FS_Interval
<1>3. IsFiniteSet(At(q, m))
  BY <1>1, <1>2, FS_Subset
<1> QED
  BY <1>3, FS_CardinalityType DEF Count, At

\* What is nowhere in the queue occurs in it no time.
LEMMA CountNone ==
  ASSUME NEW q, NEW m, \A i \in 1 .. Len(q) : q[i] # m
  PROVE  Count(q, m) = 0
<1>1. {i \in 1 .. Len(q) : q[i] = m} = {}
  OBVIOUS
<1> QED
  BY <1>1, FS_EmptySet DEF Count

LEMMA CountEmpty ==
  ASSUME NEW m
  PROVE  Count(<<>>, m) = 0
<1>1. 1 .. Len(<<>>) = {}
  BY EmptySeq
<1> QED
  BY <1>1, CountNone

\* A message more is counted once more.
LEMMA CountAppend ==
  ASSUME NEW S, NEW q \in Seq(S), NEW x \in S, NEW m
  PROVE  Count(Append(q, x), m) = Count(q, m) + (IF x = m THEN 1 ELSE 0)
<1> DEFINE v == Append(q, x)
<1>1. /\ Len(q) \in Nat /\ v \in Seq(S) /\ Len(v) = Len(q) + 1
      /\ \A i \in 1 .. Len(q) : v[i] = q[i]
      /\ v[Len(q) + 1] = x
  BY AppendProperties, LenProperties
<1>2. IsFiniteSet(At(q, m)) /\ Count(q, m) = Cardinality(At(q, m)) /\ Count(q, m) \in Nat
  BY AtFinite
<1>3. Count(v, m) = Cardinality(At(v, m))
  BY <1>1, AtFinite
<1> HIDE DEF v
<1>4. CASE x = m
  <2>1. At(v, m) = At(q, m) \cup {Len(q) + 1}
    <3>1. ASSUME NEW i \in At(v, m)
          PROVE  i \in At(q, m) \cup {Len(q) + 1}
      BY <1>1, <3>1 DEF At
    <3>2. ASSUME NEW i \in At(q, m) \cup {Len(q) + 1}
          PROVE  i \in At(v, m)
      BY <1>1, <1>4, <3>2 DEF At
    <3> QED
      BY <3>1, <3>2
  <2>2. Len(q) + 1 \notin At(q, m)
    BY <1>1 DEF At
  <2> QED
    <3>1. Cardinality(At(q, m) \cup {Len(q) + 1}) = Cardinality(At(q, m)) + 1
      BY <1>2, <2>2, FS_AddElement
    <3> QED
      BY <1>2, <1>3, <1>4, <2>1, <3>1 DEF v
<1>5. CASE x # m
  <2>1. At(v, m) = At(q, m)
    <3>1. ASSUME NEW i \in At(v, m)
          PROVE  i \in At(q, m)
      BY <1>1, <1>5, <3>1 DEF At
    <3>2. ASSUME NEW i \in At(q, m)
          PROVE  i \in At(v, m)
      BY <1>1, <3>2 DEF At
    <3> QED
      BY <3>1, <3>2
  <2> QED
    BY <1>2, <1>3, <1>5, <2>1 DEF v
<1> QED
  BY <1>4, <1>5

\* Taking the first message of a queue, it is counted once less.
LEMMA CountTail ==
  ASSUME NEW S, NEW q \in Seq(S), q # <<>>, NEW m
  PROVE  Count(q, m) = Count(Tail(q), m) + (IF Head(q) = m THEN 1 ELSE 0)
<1> DEFINE v == Tail(q)
           T == At(q, m) \ {1}
           F == [i \in At(v, m) |-> i + 1]
<1>1. /\ Len(q) \in Nat /\ Len(q) >= 1 /\ v \in Seq(S) /\ Len(v) = Len(q) - 1 /\ Head(q) = q[1]
      /\ \A i \in 1 .. Len(v) : v[i] = q[i + 1]
  BY QueueFacts
<1>2. /\ IsFiniteSet(At(q, m)) /\ Count(q, m) = Cardinality(At(q, m)) /\ Count(q, m) \in Nat
      /\ IsFiniteSet(At(v, m)) /\ Count(v, m) = Cardinality(At(v, m)) /\ Count(v, m) \in Nat
  BY <1>1, AtFinite
<1> HIDE DEF v
<1>3. Cardinality(T) = Cardinality(At(v, m))
  <2>1. ASSUME NEW i \in At(v, m)
        PROVE  i + 1 \in T
    BY <1>1, <2>1 DEF At
  <2>2. F \in [At(v, m) -> T] /\ \A i \in At(v, m) : F[i] = i + 1 /\ i \in Nat
    BY <2>1 DEF At
  <2>3. \A a, b \in At(v, m) : F[a] = F[b] => a = b
    <3> SUFFICES ASSUME NEW a \in At(v, m), NEW b \in At(v, m), F[a] = F[b] PROVE a = b
      OBVIOUS
    <3>1. a + 1 = b + 1 /\ a \in Nat /\ b \in Nat
      BY <2>2
    <3> QED
      BY <3>1
  <2>4. ASSUME NEW t \in T
        PROVE  \E i \in At(v, m) : F[i] = t
    <3>1. t - 1 \in At(v, m) /\ t - 1 + 1 = t
      BY <1>1, <2>4 DEF At
    <3> QED
      BY <2>2, <3>1
  <2> HIDE DEF F
  <2>5. DOMAIN F = At(v, m)
    BY <2>2
  <2>6. F \in Injection(At(v, m), T) /\ F \in Surjection(At(v, m), T)
    BY <2>2, <2>3, <2>4, <2>5 DEF Injection, Surjection, IsInjective
  <2>7. ExistsBijection(At(v, m), T)
    BY <2>6 DEF ExistsBijection, Bijection
  <2> QED
    BY <1>2, <2>7, FS_Bijection
<1>4. Cardinality(T) = IF 1 \in At(q, m) THEN Cardinality(At(q, m)) - 1 ELSE Cardinality(At(q, m))
  BY <1>2, FS_RemoveElement
<1>5. 1 \in At(q, m) <=> Head(q) = m
  BY <1>1 DEF At
<1> QED
  BY <1>2, <1>3, <1>4, <1>5 DEF v

-----------------------------------------------------------------------------
(* The tunnel.                                                             *)

\* A receiver is none of the other messages, and where it is can be counted.
LEMMA ReceiverFacts ==
  ASSUME TypeOK, NEW r \in Receivers
  PROVE  /\ r \in ServerMsgs /\ r \notin {None, Hello, Heartbeat, Refusal}
         /\ Places(r) = Count(down, r) + Count(msgCh, r)
                          + (IF held = r THEN 1 ELSE 0) + (IF forward[r] = "none" THEN 0 ELSE 1)
         /\ Count(down, r) \in Nat /\ Count(msgCh, r) \in Nat
<1>1. r \in ServerMsgs /\ r \notin {None, Hello, Heartbeat, Refusal}
  BY NamesAssumption DEF ServerMsgs
<1>2. down \in Seq(ServerMsgs) /\ msgCh \in Seq(ServerMsgs)
  BY DEF TypeOK
<1> QED
  BY <1>1, <1>2, AtFinite DEF Places, Count

\* The messages of bore.pub are messages.
LEMMA MessageNames ==
  /\ {Hello, Heartbeat, Refusal} \subseteq ServerMsgs /\ Receivers \subseteq ServerMsgs
  /\ \A m \in ServerMsgs : m # None
  BY NamesAssumption DEF ServerMsgs

\* Every step keeps the types.
LEMMA TypesNext ==
  ASSUME TypeOK, InHand, SessionTypeOK', [Next]_vars
  PROVE  TypeOK'
<1> USE DEF TypeOK
<1>1. <<>> \in Seq(ServerMsgs) /\ Len(<<>>) = 0
  BY EmptySeq
<1>2. \A r \in Receivers : r \in ServerMsgs
  BY MessageNames
<1>3. CASE ServerHello \/ ServerHeartbeat
  <2>1. down' \in Seq(ServerMsgs)
    BY <1>3, AppendProperties, MessageNames DEF ServerHello, ServerHeartbeat, Announce
  <2> QED
    BY <1>3, <2>1 DEF ServerHello, ServerHeartbeat, ServerOnly, Announce
<1>4. CASE ControlLost
  <2>1. down' \in Seq(ServerMsgs)
    BY <1>4, PrefixFacts DEF ControlLost
  <2> QED
    BY <1>4, <2>1, BoundsAssumption DEF ControlLost, Fault, ServerOnly
<1>5. ASSUME NEW r \in Receivers, ReceiverConnects(r)
      PROVE  TypeOK'
  <2>1. down' \in Seq(ServerMsgs)
    BY <1>2, <1>5, AppendProperties DEF ReceiverConnects, Announce
  <2> QED
    BY <1>5, <2>1 DEF ReceiverConnects, ServerOnly, Announce
<1>6. ASSUME NEW r \in Receivers, ReceiverConnectsDirectly(r)
      PROVE  TypeOK'
  <2>1. backlog' \in Seq(Receivers)
    BY <1>6, AppendProperties DEF ReceiverConnectsDirectly
  <2> QED
    BY <1>6, <2>1 DEF ReceiverConnectsDirectly, control
<1>7. ASSUME NEW r \in Receivers, ServerDrops(r) \/ ReceiverLeaves(r)
      PROVE  TypeOK'
  BY <1>7, BoundsAssumption DEF ServerDrops, ReceiverLeaves, Fault, ServerOnly, control
<1>8. CASE StrayWrites
  BY <1>8 DEF StrayWrites, control
<1>9. CASE StartTunnel
  <2>1. down # <<>> => Tail(down) \in Seq(ServerMsgs)
    BY QueueFacts
  <2>2. down' = <<>> \/ (down # <<>> /\ down' = Tail(down))
    BY <1>9 DEF StartTunnel
  <2>3. down' \in Seq(ServerMsgs)
    BY <1>1, <2>1, <2>2
  <2> QED
    BY <1>9, <2>3 DEF StartTunnel, ControlOnly
<1>10. CASE ReaderRecv
  <2>1. down # <<>> => Tail(down) \in Seq(ServerMsgs) /\ Head(down) \in ServerMsgs
    BY QueueFacts
  <2>2. down' \in Seq(ServerMsgs) /\ held' \in ServerMsgs \cup {None}
    BY <1>10, <2>1 DEF ReaderRecv
  <2> QED
    BY <1>10, <2>2 DEF ReaderRecv, ControlOnly
<1>11. CASE ReaderPut
  <2>0. held \in ServerMsgs
    BY <1>11 DEF ReaderPut, InHand
  <2>1. msgCh' \in Seq(ServerMsgs) /\ Len(msgCh') = Len(msgCh) + 1
    BY <1>11, <2>0, AppendProperties DEF ReaderPut
  <2>2. Len(msgCh') <= Capacity
    BY <1>11, <2>1, LenProperties, BoundsAssumption DEF ReaderPut
  <2> QED
    BY <1>11, <2>1, <2>2 DEF ReaderPut, ControlOnly
<1>12. CASE LoopMsg
  <2>1. msgCh' \in Seq(ServerMsgs) /\ Len(msgCh') <= Capacity
    BY <1>12, QueueFacts, BoundsAssumption DEF LoopMsg
  <2> QED
    BY <1>12, <2>1 DEF LoopMsg, ControlOnly
<1>13. CASE LoopEnds
  BY <1>1, <1>13 DEF LoopEnds, ControlOnly
<1>14. ASSUME NEW r \in Receivers, ForwardAccept(r) \/ ForwardFails(r)
       PROVE  TypeOK'
  <2>1. \E s \in {"local", "dead"} : forward' = [forward EXCEPT ![r] = s]
    BY <1>14 DEF ForwardAccept, ForwardFails, ForwardTo
  <2>2. \E s \in {"joined", "gone", rcv[r]} : rcv' = [rcv EXCEPT ![r] = s]
    BY <1>14 DEF ForwardAccept, ForwardFails
  <2>3. forward' \in [Receivers -> {"none", "spawned", "local", "pipe", "dead"}]
    BY <2>1
  <2>4. rcv' \in [Receivers -> {"away", "waiting", "joined", "gone"}]
    BY <2>2
  <2>5. faults' \in 0 .. MaxFaults
    BY <1>14, BoundsAssumption DEF ForwardAccept, ForwardFails, Fault
  <2> QED
    BY <1>14, <2>3, <2>4, <2>5 DEF ForwardAccept, ForwardFails, control
<1>15. ASSUME NEW r \in Receivers, ForwardLocal(r)
       PROVE  TypeOK'
  <2>1. Append(backlog, r) \in Seq(Receivers)
    BY AppendProperties
  <2>2. \E s \in {"pipe", "dead"} : forward' = [forward EXCEPT ![r] = s]
    BY <1>15 DEF ForwardLocal, ForwardTo
  <2>3. forward' \in [Receivers -> {"none", "spawned", "local", "pipe", "dead"}]
    BY <2>2
  <2>4. rcv' = rcv \/ rcv' = [rcv EXCEPT ![r] = "gone"]
    BY <1>15 DEF ForwardLocal
  <2>5. rcv' \in [Receivers -> {"away", "waiting", "joined", "gone"}]
    BY <2>4
  <2>6. backlog' \in Seq(Receivers)
    BY <1>15, <2>1 DEF ForwardLocal
  <2> QED
    BY <1>15, <2>3, <2>5, <2>6 DEF ForwardLocal, control
<1>16. CASE Accept
  <2>1. backlog' \in Seq(Receivers) /\ serving' \in Receivers
    BY <1>16, QueueFacts DEF Accept
  <2> QED
    BY <1>16, <2>1 DEF Accept, control
<1>17. CASE PipeEnds
  <2>1. faults' \in 0 .. MaxFaults
    BY <1>17, BoundsAssumption DEF PipeEnds, Fault
  <2>2. forward' = forward \/ forward' = [forward EXCEPT ![serving] = "dead"]
    BY <1>17 DEF PipeEnds, ForwardTo
  <2>3. forward' \in [Receivers -> {"none", "spawned", "local", "pipe", "dead"}]
    BY <2>2
  <2> QED
    BY <1>17, <2>1, <2>3 DEF PipeEnds, control
<1>18. CASE MainReturns \/ Exit
  BY <1>1, <1>18 DEF MainReturns, Exit, control
<1>19. ASSUME NEW e \in Ends, SessionStep(e)
       PROVE  TypeOK'
  BY <1>19 DEF SessionStep, control
<1>20. CASE UNCHANGED vars
  BY <1>20 DEF vars, control
<1> QED
  BY <1>3, <1>4, <1>5, <1>6, <1>7, <1>8, <1>9, <1>10, <1>11, <1>12, <1>13, <1>14, <1>15, <1>16,
     <1>17, <1>18, <1>19, <1>20 DEF Next

\* Until the hello is answered only bore.pub acts; a connection is accepted once.
LEMMA BeforeNext ==
  ASSUME TypeOK, Before, InHand, [Next]_vars
  PROVE  Before' /\ InHand'
<1>1. CASE UNCHANGED <<mode, main, loop, reader, held, msgCh, rcv, forward, down, serving>>
  BY <1>1 DEF Before, InHand
<1>2. CASE main # "hello" /\ main' = main /\ reader' = reader /\ held' = held /\ serving' = serving
  BY <1>2 DEF Before, InHand
<1>3. CASE ServerHello
  <2>1. \A i \in 1 .. Len(down') : down'[i] \notin Receivers
    <3>1. PICK m \in {Hello, Refusal} : down' = Append(down, m) /\ down = <<>>
      BY <1>3 DEF ServerHello, Announce
    <3>2. m \notin Receivers
      BY NamesAssumption
    <3>3. Len(down') = 1 /\ down'[1] = m
      BY <3>1
    <3> QED
      BY <3>2, <3>3
  <2> QED
    BY <1>3, <2>1 DEF ServerHello, Before, InHand, ServerOnly
<1>4. CASE ServerHeartbeat
  BY <1>2, <1>4 DEF ServerHeartbeat, ServerOnly
<1>5. CASE ControlLost
  <2>1. ASSUME main = "hello"
        PROVE  \A i \in 1 .. Len(down') : down'[i] \notin Receivers
    <3>1. down \in Seq(ServerMsgs) /\ down' \in Prefixes(down)
      BY <1>5 DEF TypeOK, ControlLost
    <3>2. /\ down' \in Seq(ServerMsgs) /\ Len(down') <= Len(down)
          /\ \A i \in 1 .. Len(down') : down'[i] = down[i]
      BY <3>1, PrefixFacts
    <3>3. Len(down') \in Nat /\ Len(down) \in Nat
      BY <3>1, <3>2, LenProperties
    <3>4. \A i \in 1 .. Len(down) : down[i] \notin Receivers
      BY <2>1 DEF Before
    <3> QED
      BY <3>2, <3>3, <3>4
  <2> QED
    BY <1>5, <2>1 DEF ControlLost, Before, InHand, ServerOnly
<1>6. ASSUME NEW r \in Receivers,
             \/ ReceiverConnects(r) \/ ReceiverConnectsDirectly(r)
             \/ ServerDrops(r) \/ ReceiverLeaves(r)
      PROVE  Before' /\ InHand'
  <2>1. main # "hello"
    BY <1>6 DEF ReceiverConnects, ReceiverConnectsDirectly, Listening, ServerDrops, ReceiverLeaves,
                Before
  <2> QED
    BY <1>2, <1>6, <2>1
    DEF ReceiverConnects, ReceiverConnectsDirectly, ServerDrops, ReceiverLeaves, ServerOnly, control
<1>7. CASE StrayWrites
  BY <1>1, <1>7 DEF StrayWrites, control
<1>8. CASE StartTunnel
  BY <1>8 DEF StartTunnel, Before, InHand, ControlOnly
<1>9. CASE ReaderRecv
  <2>1. main # "hello" /\ main' = main /\ serving' = serving /\ held = None
    BY <1>9 DEF ReaderRecv, Before, InHand, ControlOnly
  <2>2. down # <<>> => Head(down) # None
    BY MessageNames, QueueFacts DEF TypeOK
  <2> QED
    BY <1>9, <2>1, <2>2 DEF ReaderRecv, Before, InHand
<1>10. CASE ReaderPut
  BY <1>10 DEF ReaderPut, Before, InHand, ControlOnly
<1>11. CASE LoopMsg \/ LoopEnds
  <2>1. main # "hello"
    BY <1>11 DEF LoopMsg, LoopEnds, Before
  <2> QED
    BY <1>2, <1>11, <2>1 DEF LoopMsg, LoopEnds, ControlOnly
<1>12. ASSUME NEW r \in Receivers, ForwardAccept(r) \/ ForwardLocal(r) \/ ForwardFails(r)
       PROVE  Before' /\ InHand'
  <2>1. main # "hello"
    BY <1>12 DEF ForwardAccept, ForwardLocal, ForwardFails, Before
  <2> QED
    BY <1>2, <1>12, <2>1 DEF ForwardAccept, ForwardLocal, ForwardFails, control
<1>13. CASE Accept
  BY <1>13 DEF Accept, Before, InHand, control
<1>14. CASE PipeEnds
  <2>1. main # "hello"
    BY <1>14 DEF PipeEnds, Before
  <2> QED
    BY <1>2, <1>14, <2>1 DEF PipeEnds, control
<1>15. CASE MainReturns \/ Exit
  BY <1>15 DEF MainReturns, Exit, Before, InHand, control
<1>16. ASSUME NEW e \in Ends, SessionStep(e)
       PROVE  Before' /\ InHand'
  BY <1>1, <1>16 DEF SessionStep, control
<1>17. CASE UNCHANGED vars
  BY <1>1, <1>17 DEF vars, control
<1> QED
  BY <1>3, <1>4, <1>5, <1>6, <1>7, <1>8, <1>9, <1>10, <1>11, <1>12, <1>13, <1>14, <1>15, <1>16,
     <1>17 DEF Next

\* A goroutine once started for a receiver is not forgotten.
LEMMA ForwardedNext ==
  ASSUME TypeOK, Before, Forwarded, [Next]_vars
  PROVE  Forwarded'
<1>1. /\ backlog \in Seq(Receivers) /\ serving \in Receivers \cup {None}
      /\ forward \in [Receivers -> {"none", "spawned", "local", "pipe", "dead"}]
  BY DEF TypeOK
<1>2. \A i \in 1 .. Len(backlog) : backlog[i] \in Receivers
  BY <1>1, QueueFacts
<1>3. CASE /\ mode' = mode /\ backlog' = backlog /\ serving' = serving
           /\ \A r \in Receivers : forward[r] # "none" => forward'[r] # "none"
  BY <1>1, <1>2, <1>3 DEF Forwarded
<1>4. CASE ServerHello \/ ServerHeartbeat \/ ControlLost
  BY <1>3, <1>4 DEF ServerHello, ServerHeartbeat, ControlLost, ServerOnly
<1>5. ASSUME NEW r \in Receivers, ReceiverConnects(r) \/ ServerDrops(r) \/ ReceiverLeaves(r)
      PROVE  Forwarded'
  BY <1>3, <1>5 DEF ReceiverConnects, ServerDrops, ReceiverLeaves, ServerOnly
<1>6. ASSUME NEW r \in Receivers, ReceiverConnectsDirectly(r)
      PROVE  Forwarded'
  BY <1>6 DEF ReceiverConnectsDirectly, Forwarded
<1>7. CASE StrayWrites
  BY <1>3, <1>7 DEF StrayWrites
<1>8. CASE StartTunnel \/ ReaderRecv \/ ReaderPut \/ LoopEnds
  BY <1>3, <1>8 DEF StartTunnel, ReaderRecv, ReaderPut, LoopEnds, ControlOnly
<1>9. CASE LoopMsg
  BY <1>3, <1>9 DEF LoopMsg, ControlOnly
<1>10. ASSUME NEW r \in Receivers, ForwardAccept(r) \/ ForwardFails(r)
       PROVE  Forwarded'
  BY <1>1, <1>3, <1>10 DEF ForwardAccept, ForwardFails, ForwardTo
<1>11. ASSUME NEW r \in Receivers, ForwardLocal(r)
       PROVE  Forwarded'
  <2>1. /\ mode' = mode /\ serving' = serving /\ forward[r] # "none"
        /\ \A x \in Receivers : forward[x] # "none" => forward'[x] # "none"
    BY <1>1, <1>11 DEF ForwardLocal, ForwardTo
  <2>2. CASE Listening
    <3>1. backlog' = Append(backlog, r) /\ forward'[r] # "none"
      BY <1>11, <2>1, <2>2 DEF ForwardLocal
    <3>2. /\ Len(backlog') = Len(backlog) + 1 /\ Len(backlog) \in Nat
          /\ \A i \in 1 .. Len(backlog) : backlog'[i] = backlog[i]
          /\ backlog'[Len(backlog) + 1] = r
      BY <1>1, <3>1, AppendProperties, LenProperties
    <3>3. ASSUME mode = "bore", NEW i \in 1 .. Len(backlog')
          PROVE  forward'[backlog'[i]] # "none"
      <4>1. CASE i \in 1 .. Len(backlog)
        BY <1>2, <2>1, <3>2, <3>3, <4>1 DEF Forwarded
      <4>2. CASE i = Len(backlog) + 1
        BY <3>1, <3>2, <4>2
      <4> QED
        BY <3>2, <4>1, <4>2
    <3> QED
      BY <1>1, <2>1, <3>3 DEF Forwarded
  <2>3. CASE ~Listening
    BY <1>3, <1>11, <2>1, <2>3 DEF ForwardLocal
  <2> QED
    BY <2>2, <2>3
<1>12. CASE Accept
  <2>1. /\ Len(backlog) \in Nat /\ Len(backlog) >= 1 /\ Head(backlog) = backlog[1]
        /\ Len(Tail(backlog)) = Len(backlog) - 1
        /\ \A i \in 1 .. Len(Tail(backlog)) : Tail(backlog)[i] = backlog[i + 1]
    BY <1>1, <1>12, QueueFacts DEF Accept
  <2>2. /\ serving' = backlog[1] /\ backlog' = Tail(backlog) /\ forward' = forward /\ mode' = mode
    BY <1>12, <2>1 DEF Accept
  <2>3. ASSUME mode = "bore", NEW i \in 1 .. Len(backlog')
        PROVE  forward[backlog'[i]] # "none"
    <3>1. i + 1 \in 1 .. Len(backlog) /\ backlog'[i] = backlog[i + 1]
      BY <2>1, <2>2
    <3> QED
      BY <2>3, <3>1 DEF Forwarded
  <2>4. mode = "bore" => forward[serving'] # "none"
    <3>1. 1 \in 1 .. Len(backlog)
      BY <2>1
    <3> QED
      BY <2>2, <3>1 DEF Forwarded
  <2> QED
    BY <2>2, <2>3, <2>4 DEF Forwarded
<1>13. CASE PipeEnds
  BY <1>1, <1>3, <1>13 DEF PipeEnds, ForwardTo
<1>14. CASE MainReturns \/ Exit
  BY <1>3, <1>14 DEF MainReturns, Exit
<1>15. ASSUME NEW e \in Ends, SessionStep(e)
       PROVE  Forwarded'
  BY <1>3, <1>15 DEF SessionStep
<1>16. CASE UNCHANGED vars
  BY <1>3, <1>16 DEF vars
<1> QED
  BY <1>4, <1>5, <1>6, <1>7, <1>8, <1>9, <1>10, <1>11, <1>12, <1>13, <1>14, <1>15, <1>16 DEF Next

\* While the tunnel is up every step leaves each announced receiver in one place.
LEMMA TunnelledNext ==
  ASSUME TunnelInv, [Next]_vars
  PROVE  Tunnelled'
<1>1. /\ TypeOK /\ Before /\ InHand /\ Tunnelled
      /\ down \in Seq(ServerMsgs) /\ msgCh \in Seq(ServerMsgs)
      /\ forward \in [Receivers -> {"none", "spawned", "local", "pipe", "dead"}]
      /\ rcv \in [Receivers -> {"away", "waiting", "joined", "gone"}]
  BY DEF TunnelInv, TypeOK
<1>2. \A r \in Receivers :
        /\ r \in ServerMsgs /\ r \notin {None, Hello, Heartbeat, Refusal}
        /\ Places(r) = Count(down, r) + Count(msgCh, r)
                         + (IF held = r THEN 1 ELSE 0) + (IF forward[r] = "none" THEN 0 ELSE 1)
        /\ Count(down, r) \in Nat /\ Count(msgCh, r) \in Nat
  BY <1>1, ReceiverFacts
<1>3. \A r \in Receivers :
        Places(r)' = Count(down', r) + Count(msgCh', r)
                       + (IF held' = r THEN 1 ELSE 0) + (IF forward'[r] = "none" THEN 0 ELSE 1)
  BY DEF Places, Count
<1>4. CASE ctl' # "up"
  BY <1>4 DEF Tunnelled
<1>5. CASE ~Listening' /\ ctl' = ctl /\ errCh' = errCh /\ reader' = reader
  BY <1>1, <1>5 DEF Tunnelled
<1>6. CASE /\ ctl' = ctl /\ errCh' = errCh /\ reader' = reader /\ mode' = mode /\ loop' = loop
           /\ Listening' => Listening
           /\ \A r \in Receivers : Places(r)' = Places(r) /\ (rcv'[r] = "away" <=> rcv[r] = "away")
  BY <1>1, <1>6 DEF Tunnelled
<1>7. ASSUME down' = down, msgCh' = msgCh, held' = held,
             \A r \in Receivers : forward'[r] = "none" <=> forward[r] = "none"
      PROVE  \A r \in Receivers : Places(r)' = Places(r)
  BY <1>2, <1>3, <1>7
<1>8. CASE ServerHello
  BY <1>5, <1>8 DEF ServerHello, Announce, ServerOnly, Listening
<1>9. CASE ServerHeartbeat
  <2>1. Heartbeat \in ServerMsgs /\ down' = Append(down, Heartbeat)
    BY <1>9, MessageNames DEF ServerHeartbeat, Announce
  <2>2. ASSUME NEW r \in Receivers
        PROVE  Places(r)' = Places(r)
    <3>1. Count(down', r) = Count(down, r)
      BY <1>1, <1>2, <2>1, CountAppend
    <3> QED
      BY <1>2, <1>3, <1>9, <3>1 DEF ServerHeartbeat, ServerOnly
  <2> QED
    BY <1>6, <1>9, <2>2 DEF ServerHeartbeat, ServerOnly, Announce, Listening
<1>10. CASE ControlLost
  BY <1>4, <1>10 DEF ControlLost
<1>11. ASSUME NEW r \in Receivers, ReceiverConnects(r)
       PROVE  Tunnelled'
  <2>1. /\ ctl' = ctl /\ errCh' = errCh /\ reader' = reader /\ mode' = mode /\ loop' = loop
        /\ main' = main /\ msgCh' = msgCh /\ held' = held /\ forward' = forward
        /\ down' = Append(down, r) /\ rcv[r] = "away" /\ rcv' = [rcv EXCEPT ![r] = "waiting"]
    BY <1>11 DEF ReceiverConnects, ServerOnly, Announce
  <2>2. ASSUME NEW x \in Receivers
        PROVE  /\ Places(x)' = IF x = r THEN Places(x) + 1 ELSE Places(x)
               /\ rcv'[x] = IF x = r THEN "waiting" ELSE rcv[x]
    <3>1. Count(down', x) = Count(down, x) + (IF r = x THEN 1 ELSE 0)
      BY <1>1, <1>2, <2>1, CountAppend
    <3>2. rcv'[x] = IF x = r THEN "waiting" ELSE rcv[x]
      BY <1>1, <2>1
    <3>3. Places(x) = Count(down, x) + Count(msgCh, x)
                        + (IF held = x THEN 1 ELSE 0) + (IF forward[x] = "none" THEN 0 ELSE 1)
      BY <1>2
    <3>4. Places(x)' = Count(down', x) + Count(msgCh, x)
                         + (IF held = x THEN 1 ELSE 0) + (IF forward[x] = "none" THEN 0 ELSE 1)
      BY <1>3, <2>1
    <3>5. Count(down, x) \in Nat /\ Count(msgCh, x) \in Nat
      BY <1>2
    <3> QED
      BY <3>1, <3>2, <3>3, <3>4, <3>5
  <2>3. Listening' <=> Listening
    BY <2>1 DEF Listening
  <2> QED
    BY <1>1, <2>1, <2>2, <2>3 DEF Tunnelled
<1>12. ASSUME NEW r \in Receivers, ReceiverConnectsDirectly(r)
       PROVE  Tunnelled'
  BY <1>1, <1>12 DEF ReceiverConnectsDirectly, control, Tunnelled
<1>13. ASSUME NEW r \in Receivers, ServerDrops(r) \/ ReceiverLeaves(r)
       PROVE  Tunnelled'
  <2>1. /\ ctl' = ctl /\ errCh' = errCh /\ reader' = reader /\ mode' = mode /\ loop' = loop
        /\ main' = main /\ msgCh' = msgCh /\ held' = held /\ forward' = forward /\ down' = down
    BY <1>13 DEF ServerDrops, ReceiverLeaves, ServerOnly, control
  <2>2. \A x \in Receivers : rcv'[x] = "away" <=> rcv[x] = "away"
    BY <1>1, <1>13 DEF ServerDrops, ReceiverLeaves
  <2> QED
    BY <1>6, <1>7, <2>1, <2>2 DEF Listening
<1>14. CASE StrayWrites
  BY <1>6, <1>7, <1>14 DEF StrayWrites, control, Listening
<1>15. CASE StartTunnel
  <2>1. CASE down # <<>> /\ Head(down) = Hello
    <3>1. /\ main' = "accept" /\ reader' = "recv" /\ loop' = "run" /\ down' = Tail(down)
          /\ ctl' = ctl /\ held' = held /\ msgCh' = msgCh /\ errCh' = errCh /\ forward' = forward
          /\ mode' = mode /\ rcv' = rcv
      BY <1>15, <2>1 DEF StartTunnel, ControlOnly
    <3>2. /\ main = "hello" /\ held = None /\ msgCh = <<>>
          /\ \A r \in Receivers : rcv[r] = "away" /\ forward[r] = "none"
          /\ \A i \in 1 .. Len(down) : down[i] \notin Receivers
      BY <1>1, <1>15 DEF StartTunnel, Before
    <3>3. ASSUME NEW r \in Receivers
          PROVE  Places(r)' = 0 /\ rcv'[r] = "away"
      <4>1. Count(down, r) = 0
        BY <3>2, CountNone
      <4>2. Count(down, r) = Count(down', r) + (IF Head(down) = r THEN 1 ELSE 0)
        BY <1>1, <2>1, <3>1, CountTail
      <4>3. Head(down) # r
        BY <1>2, <2>1
      <4>4. Count(down', r) = 0
        <5>1. Tail(down) \in Seq(ServerMsgs)
          BY <1>1, <2>1, QueueFacts
        <5>2. Count(down', r) \in Nat
          BY <3>1, <5>1, AtFinite
        <5> QED
          BY <4>1, <4>2, <4>3, <5>2
      <4>5. Count(msgCh', r) = 0
        BY <3>1, <3>2, CountEmpty
      <4> QED
        BY <1>2, <1>3, <3>1, <3>2, <4>4, <4>5
    <3>4. ctl' = "up" => ~errCh'
      BY <1>1, <3>1 DEF Tunnelled
    <3> QED
      BY <3>1, <3>3, <3>4 DEF Tunnelled
  <2>2. CASE ~(down # <<>> /\ Head(down) = Hello)
    BY <1>4, <1>15, <2>2 DEF StartTunnel
  <2> QED
    BY <2>1, <2>2
<1>16. CASE ReaderRecv
  <2>1. CASE down # <<>>
    <3>1. /\ held' = Head(down) /\ down' = Tail(down) /\ reader' = "put" /\ errCh' = errCh
          /\ main' = main /\ ctl' = ctl /\ msgCh' = msgCh /\ loop' = loop /\ forward' = forward
          /\ mode' = mode /\ rcv' = rcv /\ held = None /\ reader = "recv"
      BY <1>1, <1>16, <2>1 DEF ReaderRecv, ControlOnly, InHand
    <3>2. ASSUME NEW r \in Receivers
          PROVE  Places(r)' = Places(r)
      <4>1. Count(down, r) = Count(down', r) + (IF held' = r THEN 1 ELSE 0)
        BY <1>1, <2>1, <3>1, CountTail
      <4>2. Count(down', r) \in Nat
        <5>1. Tail(down) \in Seq(ServerMsgs)
          BY <1>1, <2>1, QueueFacts
        <5> QED
          BY <3>1, <5>1, AtFinite
      <4> QED
        BY <1>2, <1>3, <3>1, <4>1, <4>2
    <3>3. Listening' <=> Listening
      BY <3>1 DEF Listening
    <3> QED
      BY <1>1, <3>1, <3>2, <3>3 DEF Tunnelled
  <2>2. CASE down = <<>>
    BY <1>4, <1>16, <2>2 DEF ReaderRecv
  <2> QED
    BY <2>1, <2>2
<1>17. CASE ReaderPut
  <2>1. /\ msgCh' = Append(msgCh, held) /\ held' = None /\ reader' = "recv" /\ reader = "put"
        /\ main' = main /\ ctl' = ctl /\ down' = down /\ errCh' = errCh /\ loop' = loop
        /\ forward' = forward /\ mode' = mode /\ rcv' = rcv
    BY <1>17 DEF ReaderPut, ControlOnly
  <2>2. held \in ServerMsgs
    BY <1>1, <2>1 DEF InHand, TypeOK
  <2>3. ASSUME NEW r \in Receivers
        PROVE  Places(r)' = Places(r)
    <3>1. Count(msgCh', r) = Count(msgCh, r) + (IF held = r THEN 1 ELSE 0)
      BY <1>1, <2>1, <2>2, CountAppend
    <3> QED
      BY <1>2, <1>3, <2>1, <3>1
  <2>4. Listening' <=> Listening
    BY <2>1 DEF Listening
  <2> QED
    BY <1>1, <2>1, <2>3, <2>4 DEF Tunnelled
<1>18. CASE LoopMsg
  <2>1. /\ msgCh # <<>> /\ msgCh' = Tail(msgCh) /\ held' = held /\ reader' = reader
        /\ main' = main /\ ctl' = ctl /\ down' = down /\ errCh' = errCh /\ loop' = loop
        /\ mode' = mode /\ rcv' = rcv
        /\ forward' = [r \in Receivers |-> IF r = Head(msgCh) THEN "spawned" ELSE forward[r]]
    BY <1>18 DEF LoopMsg, ControlOnly
  <2>2. ASSUME NEW r \in Receivers, Places(r) \in {0, 1}
        PROVE  Places(r)' = Places(r)
    <3>1. Count(msgCh, r) = Count(msgCh', r) + (IF Head(msgCh) = r THEN 1 ELSE 0)
      BY <1>1, <2>1, CountTail
    <3>2. Count(msgCh', r) \in Nat
      <4>1. Tail(msgCh) \in Seq(ServerMsgs)
        BY <1>1, <2>1, QueueFacts
      <4> QED
        BY <2>1, <4>1, AtFinite
    <3>3. /\ Places(r) = Count(down, r) + Count(msgCh, r)
                            + (IF held = r THEN 1 ELSE 0) + (IF forward[r] = "none" THEN 0 ELSE 1)
          /\ Count(down, r) \in Nat /\ Count(msgCh, r) \in Nat
      BY <1>2
    <3>4. Places(r)' = Count(down, r) + Count(msgCh', r)
                         + (IF held = r THEN 1 ELSE 0) + (IF forward'[r] = "none" THEN 0 ELSE 1)
      BY <1>3, <2>1
    <3>5. CASE Head(msgCh) = r
      <4>1. forward'[r] = "spawned"
        BY <2>1, <3>5
      <4>2. forward[r] = "none"
        BY <2>2, <3>1, <3>2, <3>3, <3>5
      <4> QED
        BY <3>1, <3>2, <3>3, <3>4, <3>5, <4>1, <4>2
    <3>6. CASE Head(msgCh) # r
      <4>1. forward'[r] = forward[r]
        BY <2>1, <3>6
      <4> QED
        BY <3>1, <3>2, <3>3, <3>4, <3>6, <4>1
    <3> QED
      BY <3>5, <3>6
  <2>3. Listening' <=> Listening
    BY <2>1 DEF Listening
  <2> QED
    BY <1>1, <2>1, <2>2, <2>3 DEF Tunnelled
<1>19. CASE LoopEnds
  BY <1>4, <1>19 DEF LoopEnds
<1>20. ASSUME NEW r \in Receivers, ForwardAccept(r) \/ ForwardLocal(r) \/ ForwardFails(r)
       PROVE  Tunnelled'
  <2>1. /\ ctl' = ctl /\ errCh' = errCh /\ reader' = reader /\ mode' = mode /\ loop' = loop
        /\ main' = main /\ msgCh' = msgCh /\ held' = held /\ down' = down
    BY <1>20 DEF ForwardAccept, ForwardLocal, ForwardFails, control
  <2>2. ASSUME ctl = "up", mode = "bore", Listening, NEW x \in Receivers
        PROVE  rcv'[x] = "away" <=> rcv[x] = "away"
    <3>1. rcv[r] # "away"
      <4>1. forward[r] # "none"
        BY <1>20 DEF ForwardAccept, ForwardLocal, ForwardFails
      <4>2. Places(r) # 0
        BY <1>2, <4>1
      <4> QED
        BY <1>1, <2>2, <4>2 DEF Tunnelled
    <3>2. rcv' = rcv \/ \E s \in {"joined", "gone", rcv[r]} : rcv' = [rcv EXCEPT ![r] = s]
      BY <1>20 DEF ForwardAccept, ForwardLocal, ForwardFails
    <3> QED
      BY <1>1, <3>1, <3>2
  <2>3. \A x \in Receivers : forward'[x] = "none" <=> forward[x] = "none"
    BY <1>1, <1>20 DEF ForwardAccept, ForwardLocal, ForwardFails, ForwardTo
  <2>4. \A x \in Receivers : Places(x)' = Places(x)
    BY <1>7, <2>1, <2>3
  <2>5. Listening' <=> Listening
    BY <2>1 DEF Listening
  <2> QED
    BY <1>1, <2>1, <2>2, <2>4, <2>5 DEF Tunnelled
<1>21. CASE Accept
  BY <1>6, <1>7, <1>21 DEF Accept, control, Listening
<1>22. CASE PipeEnds
  <2>1. \A x \in Receivers : forward'[x] = "none" <=> forward[x] = "none"
    BY <1>1, <1>22 DEF PipeEnds, ForwardTo, TunnelInv, Forwarded
  <2> QED
    BY <1>6, <1>7, <1>22, <2>1 DEF PipeEnds, control, Listening
<1>23. CASE MainReturns
  BY <1>5, <1>23 DEF MainReturns, control, Listening
<1>24. CASE Exit
  BY <1>4, <1>24 DEF Exit
<1>25. ASSUME NEW e \in Ends, SessionStep(e)
       PROVE  Tunnelled'
  BY <1>6, <1>7, <1>25 DEF SessionStep, control, Listening
<1>26. CASE UNCHANGED vars
  BY <1>6, <1>7, <1>26 DEF vars, control, Listening
<1> QED
  BY <1>8, <1>9, <1>10, <1>11, <1>12, <1>13, <1>14, <1>15, <1>16, <1>17, <1>18, <1>19, <1>20, <1>21,
     <1>22, <1>23, <1>24, <1>25, <1>26 DEF Next

-----------------------------------------------------------------------------
(* The theorems.                                                           *)

\* The tunnel before anything has happened.
LEMMA TunnelStarts ==
  ASSUME Init
  PROVE  TunnelInv
<1>1. SessionInv
  BY SessionStarts
<1>2. <<>> \in Seq(ServerMsgs) /\ <<>> \in Seq(Receivers) /\ Len(<<>>) = 0
  BY EmptySeq
<1>3. TypeOK
  <2>1. SessionTypeOK
    BY <1>1 DEF SessionInv
  <2>2. /\ mode \in {"direct", "bore"}
        /\ main \in {"hello", "accept", "session", "closing", "exited"}
        /\ ctl \in {"up", "lost", "closed"} /\ loop \in {"off", "run", "done"} /\ errCh \in BOOLEAN
        /\ reader \in {"off", "recv", "put", "gone"} /\ held \in ServerMsgs \cup {None}
        /\ serving \in Receivers \cup {None}
    BY DEF Init
  <2>3. /\ down \in Seq(ServerMsgs) /\ msgCh \in Seq(ServerMsgs) /\ backlog \in Seq(Receivers)
        /\ Len(msgCh) <= Capacity /\ faults \in 0 .. MaxFaults
    BY <1>2, BoundsAssumption DEF Init
  <2>4. /\ forward \in [Receivers -> {"none", "spawned", "local", "pipe", "dead"}]
        /\ rcv \in [Receivers -> {"away", "waiting", "joined", "gone"}]
    BY DEF Init
  <2> QED
    BY <2>1, <2>2, <2>3, <2>4 DEF TypeOK
<1>4. Before /\ InHand
  BY <1>2 DEF Init, Before, InHand
<1>5. Tunnelled
  BY DEF Init, Tunnelled, Listening
<1>6. Forwarded
  BY <1>2 DEF Init, Forwarded
<1> QED
  BY <1>3, <1>4, <1>5, <1>6 DEF TunnelInv

\* The two invariants hold together.
LEMMA BothHold == Spec => [](SessionInv /\ TunnelInv)
<1>1. Init => SessionInv /\ TunnelInv
  BY SessionStarts, TunnelStarts
<1>2. SessionInv /\ TunnelInv /\ [Next]_vars => SessionInv' /\ TunnelInv'
  <2> SUFFICES ASSUME SessionInv, TunnelInv, [Next]_vars
               PROVE  SessionInv' /\ TunnelInv'
    OBVIOUS
  <2>1. SessionInv'
    BY SessionNext DEF TunnelInv, TypeOK
  <2>2. TypeOK'
    BY <2>1, TypesNext DEF TunnelInv, SessionInv
  <2>3. Before' /\ InHand' /\ Forwarded'
    BY BeforeNext, ForwardedNext DEF TunnelInv
  <2> QED
    BY <2>1, <2>2, <2>3, TunnelledNext DEF TunnelInv
<1> QED
  BY <1>1, <1>2, PTL DEF Spec

\* The session, the control connection, the channels and the goroutines of the
\* tunnel keep their types, the queues their capacities (bore.go:98-170,
\* session.go:85-180).
THEOREM TunnelTypes == Spec => []TypeOK
<1>1. TunnelInv => TypeOK
  BY DEF TunnelInv
<1> QED
  BY <1>1, BothHold, PTL

\* Through any mix of messages in both directions every frame an end reads
\* decrypts, is the next message its peer sent, and the frame after a file_chunk
\* is that chunk's data (session.go:96-98, 115, 129-130, 151, 161-166).
THEOREM KeysInStep == Spec => []InStep
<1>1. SessionInv => InStep
  <2> SUFFICES ASSUME SessionInv, NEW e \in Ends, pc[e] \in {"open", "receiving"}, wire[e] # <<>>
               PROVE  /\ CanDecrypt(e, Head(wire[e]))
                      /\ Head(wire[e]).body.n = got[e] + 1
                      /\ IF pc[e] = "receiving" THEN Head(wire[e]).body = Data(part[e])
                                                ELSE Head(wire[e]).body.type # "data"
    BY DEF InStep
  <2>1. SessionTypeOK /\ Knows(e) /\ Under(e)
    BY DEF SessionInv
  <2>2. /\ Streams(e) /\ ciphers[e] = NewSession(e) /\ Rest(e) = wire[e]
        /\ pc[e] = "receiving" => part[e] = got[e] + 1
    BY <2>1 DEF Knows, Under, Rest, Post
  <2>3. Head(wire[e]) = wire[e][1] /\ 1 \in 1 .. Len(wire[e]) /\ nonces[e].receive \in Nat
    BY <2>1, EndTypes
  <2>4. /\ wire[e][1].key = ReceiveKey(e) /\ wire[e][1].nonce = nonces[e].receive
        /\ Follows(Taken(e), wire[e][1].body)
    BY <2>2, <2>3 DEF Streams, Stream
  <2>5. CanDecrypt(e, Head(wire[e]))
    BY <2>2, <2>3, <2>4 DEF CanDecrypt, ReceiveKey
  <2>6. CASE pc[e] = "receiving"
    BY <2>2, <2>3, <2>4, <2>5, <2>6 DEF Follows, Taken, FileChunk, Data
  <2>7. CASE pc[e] = "open"
    BY <2>3, <2>4, <2>5, <2>7 DEF Follows, Taken, Plain
  <2> QED
    BY <2>6, <2>7
<1> QED
  BY <1>1, BothHold, PTL

\* While the tunnel is up, a receiver bore.pub has announced is in exactly one
\* place, whatever the capacity of msgCh and the order in which the reader, the
\* loop and the goroutines go (bore.go:141-164).
THEOREM AnnouncedStaysOnce == Spec => []AnnouncedOnce
<1>1. TunnelInv => AnnouncedOnce
  BY DEF TunnelInv, Tunnelled, AnnouncedOnce
<1> QED
  BY <1>1, BothHold, PTL
=============================================================================
