---------------------------- MODULE MCPortDetect ----------------------------
(***************************************************************************)
(* Instances of PortDetect: a TCP connection or a listening port, and a    *)
(* hidden UDP port; a hidden listening port and a hidden connection of two *)
(* processes.                                                              *)
(***************************************************************************)
EXTENDS PortDetect

CONSTANTS v, w, h, l, c

Endpoint(proto, laddr, lport, raddr, rport, pid) ==
  [proto |-> proto, laddr |-> laddr, lport |-> lport,
   raddr |-> raddr, rport |-> rport, pid |-> pid, ipv4 |-> TRUE]

Three == {v, w, h}
ThreeEndpoints == [e \in Three |->
  CASE e = v -> Endpoint("tcp", "host", 1, "far", 80, 1)
    [] e = w -> Endpoint("tcp", "host", 3, AnyAddress, 0, 1)
    [] e = h -> Endpoint("udp", AnyAddress, 2, AnyAddress, 0, 2)]
OneHidden == {h}
SignedPids == {1}

HiddenTwo == {l, c}
HiddenEndpoints == [e \in HiddenTwo |->
  CASE e = l -> Endpoint("tcp", AnyAddress, 1, AnyAddress, 0, 1)
    [] e = c -> Endpoint("tcp", "host", 2, "far", 80, 2)]

MCHolders == {1, 2, 3}
OneHolder == {1}
None == {}

\* Bound: the listening port is there all through or not at all, and where it is
\* there is no connection.  What the machine does once the detection has returned
\* is of no interest.
Bounded(opened) == w \in opened => v \notin opened

MCInit == Init /\ Bounded(open)

MCNext ==
  /\ stage \notin {"done", "failed"} /\ Next
  /\ Bounded(open') /\ (w \in open' <=> w \in open)

MCSpec == MCInit /\ [][MCNext]_vars /\ WF_vars(App) /\ WF_vars(DriverStep)

=============================================================================
