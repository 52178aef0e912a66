------------------------------- MODULE MCRelay -------------------------------
(* Small instances of Relay: two senders and two receivers, which may race *)
(* for one code or take one each; one of each where the timer is raced.    *)
EXTENDS Relay, TLC
=============================================================================
