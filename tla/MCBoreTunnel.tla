------------------------------ MODULE MCBoreTunnel ------------------------------
(* Small instances of BoreTunnel.                                           *)
EXTENDS BoreTunnel, TLC

MCMessages == [initiator |-> 1, responder |-> 2]
=============================================================================
