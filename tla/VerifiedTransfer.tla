--------------------------- MODULE VerifiedTransfer ---------------------------
(***************************************************************************)
(* What a peer-to-peer transfer promises, without messages, processes or   *)
(* temp files.  In an attempt the sender announces a digest; data is        *)
(* verified when it has that digest; only verified data may complete the    *)
(* destination, and only verified data lets the sender report success.      *)
(* announced and verified hold at most one element.                         *)
(***************************************************************************)
CONSTANT Digest(_)

VARIABLES announced, verified, confirmed, dest

vars == <<announced, verified, confirmed, dest>>

Init == announced = {} /\ verified = {} /\ confirmed = FALSE /\ dest.st = "none"

\* A new attempt starts from nothing.
Retry ==
  /\ announced' = {} /\ verified' = {} /\ confirmed' = FALSE
  /\ UNCHANGED dest

Announce ==
  /\ announced = {} /\ announced' # {}
  /\ UNCHANGED <<verified, confirmed, dest>>

Verify ==
  /\ verified = {} /\ \A d \in verified' : Digest(d) \in announced
  /\ UNCHANGED <<announced, confirmed, dest>>

\* The receiver fails before the sender hears of it.
Forget ==
  /\ ~confirmed /\ verified' = {}
  /\ UNCHANGED <<announced, confirmed, dest>>

Confirm ==
  /\ verified # {} /\ confirmed' = TRUE
  /\ UNCHANGED <<announced, verified, dest>>

\* The destination is complete with the verified data, or is being replaced.
Store ==
  /\ verified # {}
  /\ \/ dest'.st = "torn"
     \/ dest'.st \in {"whole", "tree"} /\ dest'.data \in verified
  /\ UNCHANGED <<announced, verified, confirmed>>

Next == Retry \/ Announce \/ Verify \/ Forget \/ Confirm \/ Store

Spec == Init /\ [][Next]_vars
===============================================================================
