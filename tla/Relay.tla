-------------------------------- MODULE Relay --------------------------------
(***************************************************************************)
(* The self-hosted relay of internal/tunnel/relay.go: one goroutine per    *)
(* connection (handleRelayConn), a map of pending codes under a mutex, a   *)
(* channel of capacity one per waiting sender, and the two clients         *)
(* (ConnectAsSender, WaitForReceiver, ConnectAsReceiver).                  *)
(*                                                                         *)
(* Each element of Senders and Receivers is one connection, so one run of  *)
(* a client.  Reading a client's first line is part of its dialling; the   *)
(* data that crosses an established bridge is left out.                    *)
(* Operators named <definition>_<what> are plausible faults of <definition>. *)
(***************************************************************************)
EXTENDS Integers, Sequences

CONSTANTS Senders, Receivers, Codes, NoCode, None

ASSUME CodeAssumption == NoCode \notin Codes
ASSUME NoneAssumption == None \notin Senders \cup Receivers
\* randomCode draws eight of 36 characters: codes do not collide here.
ASSUME EnoughCodes ==
  \A used \in [Senders -> Codes \cup {NoCode}] :
    \A s \in Senders : used[s] = NoCode => \E c \in Codes : \A t \in Senders : used[t] # c

VARIABLES
  pending,   \* pending[c]: the sender connection registered under code c, or None
  ch,        \* ch[s]: the receiver connection in the channel of s, or None
  sh, code, peer,   \* the goroutine of a sender connection; its locals
  rh, want, found,  \* the goroutine of a receiver connection; its locals
  sc, rc,           \* the clients
  sWire, rWire,     \* lines from the relay a client has not read yet
  sOpen, rOpen      \* FALSE once either end closed the connection

vars == <<pending, ch, sh, code, peer, rh, want, found, sc, rc, sWire, rWire, sOpen, rOpen>>

TypeOK ==
  /\ pending \in [Codes -> Senders \cup {None}]
  /\ ch \in [Senders -> Receivers \cup {None}]
  /\ sh \in [Senders -> {"absent", "register", "reply", "wait", "drop", "pipe", "done"}]
  /\ code \in [Senders -> Codes \cup {NoCode}]
  /\ peer \in [Senders -> Receivers \cup {None}]
  /\ rh \in [Receivers -> {"absent", "lookup", "reject", "ack", "handoff", "done"}]
  /\ want \in [Receivers -> Codes \cup {NoCode}]
  /\ found \in [Receivers -> Senders \cup {None}]
  /\ sc \in [Senders -> {"idle", "await_code", "await_ok", "session", "gone"}]
  /\ rc \in [Receivers -> {"idle", "await_ok", "session", "gone"}]
  /\ sWire \in [Senders -> Seq({"code", "ok"})]
  /\ rWire \in [Receivers -> Seq({"ok", "error"})]
  /\ sOpen \in [Senders -> BOOLEAN] /\ rOpen \in [Receivers -> BOOLEAN]

Init ==
  /\ pending = [c \in Codes |-> None]
  /\ ch = [s \in Senders |-> None]
  /\ sh = [s \in Senders |-> "absent"]
  /\ code = [s \in Senders |-> NoCode]
  /\ peer = [s \in Senders |-> None]
  /\ rh = [r \in Receivers |-> "absent"]
  /\ want = [r \in Receivers |-> NoCode]
  /\ found = [r \in Receivers |-> None]
  /\ sc = [s \in Senders |-> "idle"] /\ rc = [r \in Receivers |-> "idle"]
  /\ sWire = [s \in Senders |-> <<>>] /\ rWire = [r \in Receivers |-> <<>>]
  /\ sOpen = [s \in Senders |-> FALSE] /\ rOpen = [r \in Receivers |-> FALSE]

-----------------------------------------------------------------------------
(* The goroutine of a sender connection.                                   *)

SenderSide == UNCHANGED <<rh, want, found, sc, rc, rWire>>

Register(s) ==
  /\ sh[s] = "register"
  /\ \E c \in Codes :
       /\ \A t \in Senders : code[t] # c
       /\ code' = [code EXCEPT ![s] = c]
       /\ pending' = [pending EXCEPT ![c] = s]
  /\ sh' = [sh EXCEPT ![s] = "reply"]
  /\ UNCHANGED <<ch, peer, sWire, sOpen, rOpen>> /\ SenderSide

\* A write to a connection the client closed may still succeed.
ReplyCode(s) ==
  /\ sh[s] = "reply"
  /\ sh' = [sh EXCEPT ![s] = "wait"]
  /\ sWire' = [sWire EXCEPT ![s] = Append(@, "code")]
  /\ UNCHANGED <<pending, ch, code, peer, sOpen, rOpen>> /\ SenderSide

ReplyFails(s) ==
  /\ sh[s] = "reply" /\ ~sOpen[s]
  /\ sh' = [sh EXCEPT ![s] = "drop"]
  /\ UNCHANGED <<pending, ch, code, peer, sWire, sOpen, rOpen>> /\ SenderSide

\* The select on the channel: take the receiver, tell the sender, bridge.
Bridge(s) ==
  /\ sh[s] = "wait" /\ ch[s] # None
  /\ peer' = [peer EXCEPT ![s] = ch[s]] /\ ch' = [ch EXCEPT ![s] = None]
  /\ sWire' = [sWire EXCEPT ![s] = Append(@, "ok")]
  /\ sh' = [sh EXCEPT ![s] = "pipe"]
  /\ UNCHANGED <<pending, code, sOpen, rOpen>> /\ SenderSide

\* The sender is gone: both connections are closed.
BridgeFails(s) ==
  /\ sh[s] = "wait" /\ ch[s] # None /\ ~sOpen[s]
  /\ rOpen' = [rOpen EXCEPT ![ch[s]] = FALSE] /\ ch' = [ch EXCEPT ![s] = None]
  /\ sh' = [sh EXCEPT ![s] = "done"]
  /\ UNCHANGED <<pending, code, peer, sWire, sOpen>> /\ SenderSide

Timeout_OnlyUnclaimed(s) ==
  /\ sh[s] = "wait" /\ pending[code[s]] = s
  /\ sOpen' = [sOpen EXCEPT ![s] = FALSE]
  /\ sh' = [sh EXCEPT ![s] = "drop"]
  /\ UNCHANGED <<pending, ch, code, peer, sWire, rOpen>> /\ SenderSide

\* The ten-minute timer.  A select with both cases ready may pick this one,
\* and a receiver may hold the entry already.
Timeout(s) ==
  /\ sh[s] = "wait"
  /\ sOpen' = [sOpen EXCEPT ![s] = FALSE]
  /\ sh' = [sh EXCEPT ![s] = "drop"]
  /\ UNCHANGED <<pending, ch, code, peer, sWire, rOpen>> /\ SenderSide

\* Under the mutex again: delete(pending, code).
Drop_Forgotten(s) ==
  /\ sh[s] = "drop"
  /\ sOpen' = [sOpen EXCEPT ![s] = FALSE]
  /\ sh' = [sh EXCEPT ![s] = "done"]
  /\ UNCHANGED <<pending, ch, code, peer, sWire, rOpen>> /\ SenderSide

Drop(s) ==
  /\ sh[s] = "drop"
  /\ pending' = [pending EXCEPT ![code[s]] = None]
  /\ sOpen' = [sOpen EXCEPT ![s] = FALSE]
  /\ sh' = [sh EXCEPT ![s] = "done"]
  /\ UNCHANGED <<ch, code, peer, sWire, rOpen>> /\ SenderSide

\* pipe: the first copy to end closes both connections.
PipeEnds(s) ==
  /\ sh[s] = "pipe" /\ (~sOpen[s] \/ ~rOpen[peer[s]])
  /\ sOpen' = [sOpen EXCEPT ![s] = FALSE] /\ rOpen' = [rOpen EXCEPT ![peer[s]] = FALSE]
  /\ sh' = [sh EXCEPT ![s] = "done"]
  /\ UNCHANGED <<pending, ch, code, peer, sWire>> /\ SenderSide

-----------------------------------------------------------------------------
(* The goroutine of a receiver connection.                                 *)

ReceiverSide == UNCHANGED <<sh, code, peer, want, sc, rc, sWire, sOpen>>

\* Look the code up and take it, in one critical section.
Lookup_KeepsEntry(r) ==
  /\ rh[r] = "lookup"
  /\ found' = [found EXCEPT ![r] = IF want[r] \in Codes THEN pending[want[r]] ELSE None]
  /\ rh' = [rh EXCEPT ![r] = IF found'[r] = None THEN "reject" ELSE "ack"]
  /\ UNCHANGED <<pending, ch, rWire, rOpen>> /\ ReceiverSide

Lookup_AnySender(r) ==
  /\ rh[r] = "lookup"
  /\ \E c \in Codes : /\ found' = [found EXCEPT ![r] = pending[c]]
                      /\ pending' = [pending EXCEPT ![c] = None]
  /\ rh' = [rh EXCEPT ![r] = IF found'[r] = None THEN "reject" ELSE "ack"]
  /\ UNCHANGED <<ch, rWire, rOpen>> /\ ReceiverSide

Lookup(r) ==
  /\ rh[r] = "lookup"
  /\ IF want[r] \in Codes
     THEN /\ found' = [found EXCEPT ![r] = pending[want[r]]]
          /\ pending' = [pending EXCEPT ![want[r]] = None]
     ELSE UNCHANGED <<found, pending>>
  /\ rh' = [rh EXCEPT ![r] = IF found'[r] = None THEN "reject" ELSE "ack"]
  /\ UNCHANGED <<ch, rWire, rOpen>> /\ ReceiverSide

Reject(r) ==
  /\ rh[r] = "reject"
  /\ rWire' = [rWire EXCEPT ![r] = Append(@, "error")]
  /\ rOpen' = [rOpen EXCEPT ![r] = FALSE]
  /\ rh' = [rh EXCEPT ![r] = "done"]
  /\ UNCHANGED <<pending, ch, found>> /\ ReceiverSide

AckReceiver_SendsCode(r) ==
  /\ rh[r] = "ack"
  /\ rWire' = [rWire EXCEPT ![r] = Append(@, "code")]
  /\ rh' = [rh EXCEPT ![r] = "handoff"]
  /\ UNCHANGED <<pending, ch, found, rOpen>> /\ ReceiverSide

AckReceiver(r) ==
  /\ rh[r] = "ack"
  /\ rWire' = [rWire EXCEPT ![r] = Append(@, "ok")]
  /\ rh' = [rh EXCEPT ![r] = "handoff"]
  /\ UNCHANGED <<pending, ch, found, rOpen>> /\ ReceiverSide

\* The code is spent all the same.
AckFails(r) ==
  /\ rh[r] = "ack" /\ ~rOpen[r]
  /\ rh' = [rh EXCEPT ![r] = "done"]
  /\ UNCHANGED <<pending, ch, found, rWire, rOpen>> /\ ReceiverSide

Handoff_BeforeAck(r) ==
  /\ rh[r] = "ack" /\ ch[found[r]] = None
  /\ ch' = [ch EXCEPT ![found[r]] = r]
  /\ UNCHANGED <<pending, rh, found, rWire, rOpen>> /\ ReceiverSide

\* p.ch <- conn: blocks while the channel is full.
Handoff(r) ==
  /\ rh[r] = "handoff" /\ ch[found[r]] = None
  /\ ch' = [ch EXCEPT ![found[r]] = r]
  /\ rh' = [rh EXCEPT ![r] = "done"]
  /\ UNCHANGED <<pending, found, rWire, rOpen>> /\ ReceiverSide

\* The Go runtime closes a connection that only a dead channel refers to;
\* nothing says when.
Finalize(r) ==
  /\ rh[r] = "done" /\ found[r] # None /\ ch[found[r]] = r /\ sh[found[r]] = "done"
  /\ ch' = [ch EXCEPT ![found[r]] = None] /\ rOpen' = [rOpen EXCEPT ![r] = FALSE]
  /\ UNCHANGED <<pending, rh, found, rWire>> /\ ReceiverSide

-----------------------------------------------------------------------------
(* The clients.                                                            *)

RelayUnchanged == UNCHANGED <<pending, ch, code, peer, found>>

SenderDials(s) ==
  /\ sc[s] = "idle"
  /\ sc' = [sc EXCEPT ![s] = "await_code"] /\ sOpen' = [sOpen EXCEPT ![s] = TRUE]
  /\ sh' = [sh EXCEPT ![s] = "register"]
  /\ UNCHANGED <<rh, want, rc, sWire, rWire, rOpen>> /\ RelayUnchanged

\* Codes whose sender has printed them for its user.
Known == {code[s] : s \in {t \in Senders : sc[t] \in {"await_ok", "session"}}}

\* With a code the sender's user passed on, or a wrong one.
ReceiverDials(r) ==
  /\ rc[r] = "idle"
  /\ \E c \in Known \cup {NoCode} : want' = [want EXCEPT ![r] = c]
  /\ rc' = [rc EXCEPT ![r] = "await_ok"] /\ rOpen' = [rOpen EXCEPT ![r] = TRUE]
  /\ rh' = [rh EXCEPT ![r] = "lookup"]
  /\ UNCHANGED <<sh, sc, sWire, rWire, sOpen>> /\ RelayUnchanged

\* relayRead of the code, then (WaitForReceiver) of the ok.
SenderReads(s) ==
  /\ sc[s] \in {"await_code", "await_ok"} /\ sWire[s] # <<>>
  /\ sc' = [sc EXCEPT ![s] = IF @ = "await_code" THEN "await_ok" ELSE "session"]
  /\ sWire' = [sWire EXCEPT ![s] = Tail(@)]
  /\ UNCHANGED <<sh, rh, want, rc, rWire, sOpen, rOpen>> /\ RelayUnchanged

ReceiverReads(r) ==
  /\ rc[r] = "await_ok" /\ rWire[r] # <<>>
  /\ rc' = [rc EXCEPT ![r] = IF Head(rWire[r]) = "ok" THEN "session" ELSE "gone"]
  /\ rWire' = [rWire EXCEPT ![r] = Tail(@)]
  /\ rOpen' = [rOpen EXCEPT ![r] = @ /\ Head(rWire[r]) = "ok"]
  /\ UNCHANGED <<sh, rh, want, sc, sWire, sOpen>> /\ RelayUnchanged

\* Every blocking read of a client ends when the relay closes the connection.
SenderEOF(s) ==
  /\ sc[s] \in {"await_code", "await_ok", "session"} /\ ~sOpen[s] /\ sWire[s] = <<>>
  /\ sc' = [sc EXCEPT ![s] = "gone"]
  /\ UNCHANGED <<sh, rh, want, rc, sWire, rWire, sOpen, rOpen>> /\ RelayUnchanged

ReceiverEOF(r) ==
  /\ rc[r] \in {"await_ok", "session"} /\ ~rOpen[r] /\ rWire[r] = <<>>
  /\ rc' = [rc EXCEPT ![r] = "gone"]
  /\ UNCHANGED <<sh, rh, want, sc, sWire, rWire, sOpen, rOpen>> /\ RelayUnchanged

\* A client ends its session, or is killed, whatever it waits for.
SenderQuits(s) ==
  /\ sc[s] \in {"await_code", "await_ok", "session"}
  /\ sc' = [sc EXCEPT ![s] = "gone"] /\ sOpen' = [sOpen EXCEPT ![s] = FALSE]
  /\ UNCHANGED <<sh, rh, want, rc, sWire, rWire, rOpen>> /\ RelayUnchanged

ReceiverQuits(r) ==
  /\ rc[r] \in {"await_ok", "session"}
  /\ rc' = [rc EXCEPT ![r] = "gone"] /\ rOpen' = [rOpen EXCEPT ![r] = FALSE]
  /\ UNCHANGED <<sh, rh, want, sc, sWire, rWire, sOpen>> /\ RelayUnchanged

-----------------------------------------------------------------------------

SenderHandler(s) ==
  Register(s) \/ ReplyCode(s) \/ ReplyFails(s) \/ Bridge(s) \/ BridgeFails(s) \/ Drop(s)
    \/ PipeEnds(s)
ReceiverHandler(r) ==
  Lookup(r) \/ Reject(r) \/ AckReceiver(r) \/ AckFails(r) \/ Handoff(r)
SenderClient(s) == SenderReads(s) \/ SenderEOF(s)
ReceiverClient(r) == ReceiverReads(r) \/ ReceiverEOF(r)

Next ==
  \/ \E s \in Senders : SenderHandler(s) \/ Timeout(s) \/ SenderClient(s)
                          \/ SenderDials(s) \/ SenderQuits(s)
  \/ \E r \in Receivers : ReceiverHandler(r) \/ ReceiverClient(r)
                          \/ Finalize(r) \/ ReceiverDials(r) \/ ReceiverQuits(r)

Spec == Init /\ [][Next]_vars

\* Goroutines and clients run while they can, and a goroutine whose only way on
\* is its timer sees it fire.
FairSpec ==
  /\ Spec
  /\ \A s \in Senders : WF_vars(SenderHandler(s) \/ Timeout(s)) /\ WF_vars(SenderClient(s))
  /\ \A r \in Receivers : WF_vars(ReceiverHandler(r)) /\ WF_vars(ReceiverClient(r))

-----------------------------------------------------------------------------
(* What must hold.                                                         *)

\* A receiver that took a code from the map and was not turned away.
Took(r) == found[r] # None

\* A code admits one receiver, however many present it at once
\* (relay.go:99-104).
CodeUsedOnce ==
  \A r, q \in Receivers : Took(r) /\ Took(q) /\ want[r] = want[q] => r = q

\* A sender is only ever handed, and bridged to, a receiver that presented
\* the code that sender was given (relay.go:69-71, 99-117).
RightPeer ==
  \A s \in Senders : \A r \in {ch[s], peer[s]} \ {None} : want[r] = code[s]

\* The hand-off never blocks the receiver's goroutine: the channel has room
\* for the only receiver that can hold its code (relay.go:68, 117).
HandoffHasRoom ==
  \A r \in Receivers : rh[r] = "handoff" => ch[found[r]] = None

\* The map holds no code of a goroutine that has ended (relay.go:75-77, 91-95).
PendingIsLive ==
  \A c \in Codes : pending[c] # None =>
    code[pending[c]] = c /\ sh[pending[c]] \in {"reply", "wait", "drop"}

\* The sender starts its session only with a receiver that has been told ok:
\* neither end speaks Noise to the relay (relay.go:84-90, 112-117).
SessionHasPeer ==
  \A s \in Senders : sc[s] = "session" =>
    peer[s] # None /\ rh[peer[s]] = "done" /\ (rWire[peer[s]] # <<>> \/ rc[peer[s]] # "await_ok")

\* A sender's client is gone, or in a session whose other end is not.
Settled(s) == sc[s] = "gone" \/ (sc[s] = "session" /\ rc[peer[s]] # "gone")

\* A waiting sender gets a receiver or an end of its connection: no code stays
\* claimed by a receiver that never comes; and when the receiver goes, the bridge
\* does not outlive it (relay.go:83-96).
SenderSettles == \A s \in Senders : sc[s] # "idle" ~> Settled(s)

\* A receiver that was told ok has a sender's goroutine that will bridge it,
\* or has bridged it, or has closed its connection: what ConnectAsReceiver
\* returns is ready for the Noise handshake (relay.go:164-165).
ReceiverServed ==
  \A r \in Receivers : rc[r] = "session" /\ rOpen[r] =>
    peer[found[r]] = r \/ sh[found[r]] \in {"reply", "wait"}
=============================================================================
