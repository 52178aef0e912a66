------------------------------- MODULE BoreTunnel -------------------------------
(***************************************************************************)
(* How a sender without a relay gets its peer (p2p.go, the direct and the  *)
(* bore.pub branch of P2PSend; internal/tunnel/bore.go; Listener.Accept of *)
(* session.go), composed with the SecureSession the two then run.          *)
(*                                                                         *)
(* With bore.pub the sender keeps a control connection, on which a reader  *)
(* goroutine takes messages and a loop starts a goroutine per announced    *)
(* receiver: it dials bore.pub again, asks for that receiver, dials the    *)
(* sender's own listener and copies between the two.  Accept takes one     *)
(* connection, the first; the process ends when that one's session does.   *)
(*                                                                         *)
(* bore.pub is external: it answers the hello, announces each connection   *)
(* to the public port once, and may drop one nobody asks for.              *)
(* Operators named <definition>_<what> are plausible faults of <definition>. *)
(***************************************************************************)
EXTENDS SecureSession, FiniteSets

CONSTANTS
  Receivers,  \* those who connect
  Strays,     \* of these, the ones that are not goxfer: scanners, browsers
  None,
  Capacity,   \* of msgCh
  MaxFaults   \* bound on lost connections and failed dials

Hello == "hello"
Heartbeat == "heartbeat"
Refusal == "error"
ServerMsgs == {Hello, Heartbeat, Refusal} \cup Receivers

ASSUME StraysAssumption == Strays \subseteq Receivers
ASSUME NamesAssumption ==
  None \notin ServerMsgs /\ Receivers \cap {Hello, Heartbeat, Refusal} = {}
ASSUME BoundsAssumption == Capacity \in Nat /\ MaxFaults \in Nat

VARIABLES
  mode,           \* "direct" or "bore"
  main,           \* the sender's main goroutine, and its process
  ctl, down,      \* the control connection; messages of bore.pub under way
  reader, held,   \* the reader goroutine, the message it has in hand
  msgCh, errCh,   \* its channels
  loop,           \* runControlLoop
  forward,        \* forwardConnection, per receiver
  rcv,            \* the connection of each receiver
  backlog,        \* of the sender's listener
  serving,        \* whose connection was accepted
  faults

control == <<ctl, down, reader, held, msgCh, errCh, loop>>
vars == <<session, mode, main, control, forward, rcv, backlog, serving, faults>>

TypeOK ==
  /\ SessionTypeOK
  /\ mode \in {"direct", "bore"}
  /\ main \in {"hello", "accept", "session", "closing", "exited"}
  /\ ctl \in {"up", "lost", "closed"} /\ down \in Seq(ServerMsgs)
  /\ reader \in {"off", "recv", "put", "gone"} /\ held \in ServerMsgs \cup {None}
  /\ msgCh \in Seq(ServerMsgs) /\ Len(msgCh) <= Capacity /\ errCh \in BOOLEAN
  /\ loop \in {"off", "run", "done"}
  /\ forward \in [Receivers -> {"none", "spawned", "local", "pipe", "dead"}]
  /\ rcv \in [Receivers -> {"away", "waiting", "joined", "gone"}]
  /\ backlog \in Seq(Receivers) /\ serving \in Receivers \cup {None}
  /\ faults \in 0 .. MaxFaults

Init ==
  /\ SessionInit
  /\ mode \in {"direct", "bore"}
  /\ main = IF mode = "bore" THEN "hello" ELSE "accept"
  /\ ctl = "up" /\ down = <<>>
  /\ reader = "off" /\ held = None /\ msgCh = <<>> /\ errCh = FALSE /\ loop = "off"
  /\ forward = [r \in Receivers |-> "none"]
  /\ rcv = [r \in Receivers |-> "away"]
  /\ backlog = <<>> /\ serving = None /\ faults = 0

Fault == faults < MaxFaults /\ faults' = faults + 1

Listening == main \in {"accept", "session"}
Running == main # "exited"

-----------------------------------------------------------------------------
(* bore.pub and those who connect.                                         *)

ServerOnly == UNCHANGED <<session, mode, main, reader, held, msgCh, errCh, loop, forward,
                          backlog, serving>>

Announce(m) == down' = Append(down, m) /\ UNCHANGED ctl

ServerHello ==
  /\ main = "hello" /\ mode = "bore" /\ ctl = "up" /\ down = <<>>
  /\ \E m \in {Hello, Refusal} : Announce(m)
  /\ UNCHANGED <<rcv, faults>> /\ ServerOnly

\* Once a peer is served, heartbeats change nothing and are left out.
ServerHeartbeat ==
  /\ main = "accept" /\ mode = "bore" /\ ctl = "up" /\ down = <<>>
  /\ Announce(Heartbeat)
  /\ UNCHANGED <<rcv, faults>> /\ ServerOnly

ControlLost ==
  /\ ctl = "up" /\ mode = "bore" /\ Running /\ Fault
  /\ ctl' = "lost" /\ down' \in Prefixes(down)
  /\ UNCHANGED rcv /\ ServerOnly

\* The receiver knows the port from the sender, a scanner from nobody.
ReceiverConnects(r) ==
  /\ rcv[r] = "away" /\ loop # "off" /\ ctl = "up"
  /\ rcv' = [rcv EXCEPT ![r] = "waiting"] /\ Announce(r)
  /\ UNCHANGED faults /\ ServerOnly

ServerDrops(r) ==
  /\ rcv[r] = "waiting" /\ Fault
  /\ rcv' = [rcv EXCEPT ![r] = "gone"]
  /\ UNCHANGED <<ctl, down>> /\ ServerOnly

ReceiverConnectsDirectly(r) ==
  /\ mode = "direct" /\ rcv[r] = "away" /\ Listening
  /\ rcv' = [rcv EXCEPT ![r] = "joined"] /\ backlog' = Append(backlog, r)
  /\ UNCHANGED <<session, mode, main, control, forward, serving, faults>>

\* A receiver is interrupted, also while its session runs.
ReceiverLeaves(r) ==
  /\ rcv[r] \in {"waiting", "joined"} /\ Fault
  /\ rcv' = [rcv EXCEPT ![r] = "gone"]
  /\ IF serving = r THEN Closes("initiator") /\ UNCHANGED live ELSE UNCHANGED session
  /\ UNCHANGED <<mode, main, control, forward, backlog, serving>>

StrayWrites ==
  /\ serving \in Strays /\ rcv[serving] = "joined"
  /\ live /\ CanWrite("initiator") /\ Write("initiator", Garbage)
  /\ UNCHANGED <<pc, hs, ciphers, nonces, part, sent, got, live>>
  /\ UNCHANGED <<mode, main, control, forward, rcv, backlog, serving, faults>>

-----------------------------------------------------------------------------
(* The control connection.                                                 *)

ControlOnly == UNCHANGED <<session, mode, rcv, backlog, serving, faults>>

\* There is no deadline on the answer.
StartTunnel ==
  /\ main = "hello" /\ (down # <<>> \/ ctl = "lost")
  /\ IF down # <<>> /\ Head(down) = Hello
     THEN /\ main' = "accept" /\ reader' = "recv" /\ loop' = "run" /\ down' = Tail(down)
          /\ UNCHANGED ctl
     ELSE main' = "exited" /\ ctl' = "closed" /\ down' = <<>> /\ UNCHANGED <<reader, loop>>
  /\ UNCHANGED <<held, msgCh, errCh, forward>> /\ ControlOnly

ReaderRecv ==
  /\ Running /\ reader = "recv"
  /\ IF down # <<>>
     THEN /\ held' = Head(down) /\ down' = Tail(down) /\ reader' = "put" /\ UNCHANGED errCh
     ELSE /\ ctl # "up" /\ errCh' = TRUE /\ reader' = "gone" /\ UNCHANGED <<held, down>>
  /\ UNCHANGED <<main, ctl, msgCh, loop, forward>> /\ ControlOnly

ReaderPut_DropsWhenFull ==
  /\ Running /\ reader = "put"
  /\ msgCh' = (IF Len(msgCh) < Capacity THEN Append(msgCh, held) ELSE msgCh)
  /\ held' = None /\ reader' = "recv"
  /\ UNCHANGED <<main, ctl, down, errCh, loop, forward>> /\ ControlOnly

ReaderPut ==
  /\ Running /\ reader = "put" /\ Len(msgCh) < Capacity
  /\ msgCh' = Append(msgCh, held) /\ held' = None /\ reader' = "recv"
  /\ UNCHANGED <<main, ctl, down, errCh, loop, forward>> /\ ControlOnly

LoopMsg_StopsOnHeartbeat ==
  /\ Running /\ loop = "run" /\ msgCh # <<>>
  /\ msgCh' = Tail(msgCh)
  /\ forward' = [r \in Receivers |-> IF r = Head(msgCh) THEN "spawned" ELSE forward[r]]
  /\ loop' = IF Head(msgCh) = Heartbeat THEN "done" ELSE "run"
  /\ UNCHANGED <<main, ctl, down, reader, held, errCh>> /\ ControlOnly

\* A goroutine for each announced receiver; other messages are ignored.
LoopMsg ==
  /\ Running /\ loop = "run" /\ msgCh # <<>>
  /\ msgCh' = Tail(msgCh)
  /\ forward' = [r \in Receivers |-> IF r = Head(msgCh) THEN "spawned" ELSE forward[r]]
  /\ UNCHANGED <<main, ctl, down, reader, held, errCh, loop>> /\ ControlOnly

\* A read error or the cancelled context ends the loop, whatever waits in
\* msgCh: select takes any ready case.
LoopEnds ==
  /\ Running /\ loop = "run" /\ (errCh \/ main = "closing")
  /\ loop' = "done" /\ ctl' = "closed" /\ down' = <<>>
  /\ errCh' \in IF main = "closing" THEN {errCh, FALSE} ELSE {FALSE}
  /\ UNCHANGED <<main, reader, held, msgCh, forward>> /\ ControlOnly

-----------------------------------------------------------------------------
(* forwardConnection and the main goroutine.                               *)

ForwardTo(r, state) == forward' = [forward EXCEPT ![r] = state]

\* Dial bore.pub and ask for the receiver; if it is gone by now, that shows
\* when copying.
ForwardAccept(r) ==
  /\ Running /\ forward[r] = "spawned"
  /\ ForwardTo(r, "local")
  /\ rcv' = [rcv EXCEPT ![r] = IF @ = "waiting" THEN "joined" ELSE @]
  /\ UNCHANGED <<session, mode, main, control, backlog, serving, faults>>

\* The listener is open as long as the main goroutine is; the connection is
\* queued for it whether or not the receiver is still there.
ForwardLocal(r) ==
  /\ Running /\ forward[r] = "local"
  /\ IF Listening THEN ForwardTo(r, "pipe") /\ backlog' = Append(backlog, r) /\ UNCHANGED rcv
                  ELSE /\ ForwardTo(r, "dead") /\ UNCHANGED backlog
                       /\ rcv' = [rcv EXCEPT ![r] = "gone"]
  /\ UNCHANGED <<session, mode, main, control, serving, faults>>

\* A dial fails; the receiver that was asked for is dropped.
ForwardFails(r) ==
  /\ Running /\ forward[r] \in {"spawned", "local"} /\ Fault
  /\ ForwardTo(r, "dead")
  /\ rcv' = [rcv EXCEPT ![r] = IF forward[r] = "local" THEN "gone" ELSE @]
  /\ UNCHANGED <<session, mode, main, control, backlog, serving>>

\* Accept takes the first connection there is and runs the handshake on it.
Accept ==
  /\ main = "accept" /\ backlog # <<>>
  /\ serving' = Head(backlog) /\ backlog' = Tail(backlog) /\ main' = "session"
  /\ Open(serving' \notin Strays /\ rcv[serving'] = "joined")
  /\ UNCHANGED <<mode, control, forward, rcv, faults>>

\* One end of the accepted connection has closed it, or it breaks.
EndClosed ==
  /\ serving # None
  /\ pc["responder"] = "closed" \/ pc["initiator"] = "closed" \/ rcv[serving] = "gone"

PipeEnds_WaitsForBoth ==
  /\ serving # None /\ Running
  /\ pc["responder"] = "closed" /\ (rcv[serving] = "gone" \/ pc["initiator"] = "closed")
  /\ Cut
  /\ IF mode = "bore" THEN ForwardTo(serving, "dead") ELSE UNCHANGED forward
  /\ UNCHANGED <<mode, main, control, rcv, backlog, serving, faults>>

\* Directly, a close shows at the other end; through bore.pub pipe closes both
\* connections when one direction has ended.
PipeEnds ==
  /\ serving # None
  /\ IF EndClosed THEN UNCHANGED faults ELSE Fault
  /\ Cut
  /\ IF mode = "bore" THEN ForwardTo(serving, "dead") ELSE UNCHANGED forward
  /\ UNCHANGED <<mode, main, control, rcv, backlog, serving>>

SessionStep(e) ==
  /\ serving # None /\ (Progress(e) \/ SendMessage(e) \/ Close(e))
  /\ UNCHANGED <<mode, main, control, forward, rcv, backlog, serving, faults>>

\* The deferred calls: the session is closed, the context cancelled, the
\* listener closed.
MainReturns ==
  /\ main = "session" /\ pc["responder"] = "closed"
  /\ main' = IF mode = "bore" THEN "closing" ELSE "exited"
  /\ UNCHANGED <<session, mode, control, forward, rcv, backlog, serving, faults>>

\* The process ends with every goroutine in it.
Exit ==
  /\ main = "closing" /\ main' = "exited"
  /\ ctl' = "closed" /\ down' = <<>>
  /\ forward' = [r \in Receivers |-> IF forward[r] = "none" THEN "none" ELSE "dead"]
  /\ UNCHANGED <<session, mode, reader, held, msgCh, errCh, loop, rcv, backlog, serving, faults>>

Next ==
  \/ ServerHello \/ ServerHeartbeat \/ ControlLost
  \/ \E r \in Receivers :
       ReceiverConnects(r) \/ ReceiverConnectsDirectly(r) \/ ServerDrops(r) \/ ReceiverLeaves(r)
  \/ StrayWrites
  \/ StartTunnel \/ ReaderRecv \/ ReaderPut \/ LoopMsg \/ LoopEnds
  \/ \E r \in Receivers : ForwardAccept(r) \/ ForwardLocal(r) \/ ForwardFails(r)
  \/ Accept \/ PipeEnds \/ MainReturns \/ Exit
  \/ \E e \in Ends : SessionStep(e)

Spec == Init /\ [][Next]_vars

SessionProgress(e) ==
  /\ serving # None /\ Progress(e)
  /\ UNCHANGED <<mode, main, control, forward, rcv, backlog, serving, faults>>

Forwarding == \E r \in Receivers : ForwardAccept(r) \/ ForwardLocal(r)

\* Every goroutine runs while it can, a connection closed at one end is noticed
\* at the other, and the receiver goes on.
FairSpec ==
  /\ Spec
  /\ WF_vars(StartTunnel \/ Accept \/ SessionProgress("responder") \/ MainReturns \/ Exit)
  /\ WF_vars(ReaderRecv \/ ReaderPut) /\ WF_vars(LoopMsg \/ LoopEnds)
  /\ WF_vars(Forwarding)
  /\ WF_vars(EndClosed /\ PipeEnds)
  /\ WF_vars(SessionProgress("initiator"))

-----------------------------------------------------------------------------
(* What must hold.                                                         *)

Places(r) ==
  Cardinality({i \in 1 .. Len(down) : down[i] = r})
    + Cardinality({i \in 1 .. Len(msgCh) : msgCh[i] = r})
    + (IF held = r THEN 1 ELSE 0) + (IF forward[r] = "none" THEN 0 ELSE 1)

\* While the tunnel is up the loop and its reader run, and a receiver bore.pub
\* has announced is in exactly one place: under way, in the reader's hand, in
\* the channel, or with a goroutine of its own (bore.go:141-164).
AnnouncedOnce ==
  ctl = "up" /\ mode = "bore" /\ Listening =>
    /\ loop = "run" /\ reader # "gone"
    /\ \A r \in Receivers : rcv[r] # "away" => Places(r) = 1

\* A receiver that waits at bore.pub, while the tunnel lives, is brought to the
\* sender, unless some connection has been accepted already: the reader, the
\* loop and the goroutines never wait for one another for ever.
PeerServed ==
  \A r \in Receivers \ Strays :
    rcv[r] = "waiting" ~>
      (serving # None \/ ctl # "up" \/ rcv[r] = "gone" \/ forward[r] = "dead" \/ main = "exited")

\* The two ends go together: when the peer of the accepted connection leaves,
\* is cut off or fails, the sender's process ends, and when that ends the peer
\* does not wait on, through bore.pub as well as directly (bore.go:205-207).
SessionCollapses ==
  EndClosed ~> (main = "exited" /\ pc["initiator"] \in {"off", "closed"})
=============================================================================
