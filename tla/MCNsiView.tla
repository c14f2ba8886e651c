------------------------------ MODULE MCNsiView ------------------------------
(***************************************************************************)
(* An instance of NsiView: a TCP endpoint, two UDP endpoints with the      *)
(* same row, one of IPv6, netio.sys in capitals among two modules, and     *)
(* exports that are not in the order of their functions.                   *)
(***************************************************************************)
EXTENDS NsiView

CONSTANTS t, u, v, s, netio, other

Endpoint(proto, port, pid, ipv4) ==
  [proto |-> proto, laddr |-> "host", lport |-> port,
   raddr |-> "far", rport |-> 80, pid |-> pid, ipv4 |-> ipv4]

MCEnds == {t, u, v, s}
MCEndpointOf == [e \in MCEnds |->
  CASE e = t -> Endpoint("tcp", 1, 1, TRUE)
    [] e \in {u, v} -> Endpoint("udp", 2, 2, TRUE)
    [] e = s -> Endpoint("tcp", 3, 3, FALSE)]

MCModules == {netio, other}
MCFileName == [m \in MCModules |->
  IF m = netio THEN [name |-> "netio.sys", case |-> "upper"]
               ELSE [name |-> "other.sys", case |-> "lower"]]

MCExports ==
  [names |-> <<"NsiAllocateAndGetTable", "NsiFreeTable", "NsiSetParameter">>,
   ordinals |-> <<2, 0, 1>>,
   functions |-> <<20, 30, 10>>]
MCFunctionAt == [rva \in {10, 20, 30} |->
  CASE rva = 10 -> "NsiAllocateAndGetTable"
    [] rva = 20 -> "NsiFreeTable"
    [] rva = 30 -> "NsiSetParameter"]

=============================================================================
