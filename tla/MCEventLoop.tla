---------------------------- MODULE MCEventLoop ----------------------------
(* The instance of EventLoop that TLC checks. *)
EXTENDS EventLoop

\* Two UDP clients on different hosts, sending from the same port.
SamePort == [u \in UdpClients |-> 6000]
=============================================================================
