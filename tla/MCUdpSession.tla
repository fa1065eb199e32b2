---------------------------- MODULE MCUdpSession ----------------------------
(* The instance of UdpSession that TLC checks: two places where a client is  *)
(* run; two hosts that may give the same port, and more ports than places on *)
(* the list.                                                                 *)
EXTENDS UdpSession

CONSTANTS c1, c2

TwoClients == {c1, c2}
FourAddresses ==
  {[host |-> "h1", port |-> p] : p \in 1..3} \cup {[host |-> "h2", port |-> 1]}
=============================================================================
