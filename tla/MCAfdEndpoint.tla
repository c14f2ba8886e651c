---------------------------- MODULE MCAfdEndpoint ----------------------------
(***************************************************************************)
(* An instance of AfdEndpoint: two processes with one handle each, two     *)
(* places for sockets, an address before and an address after connect, and *)
(* the addresses of an IPv6 and of a TDI socket.                           *)
(***************************************************************************)
EXTENDS AfdEndpoint

Address(kind, port, ip) == [kind |-> kind, port |-> port, ip |-> ip]

MCAddresses ==
  {[local |-> Address("tli", 11, <<1, 2>>), remote |-> NoAddress],
   [local |-> Address("tli", 12, <<1, 2>>), remote |-> Address("tli", 80, <<3, 4>>)],
   [local |-> Address("tli6", 13, <<14, 2>>), remote |-> Address("tdi", 81, <<5, 6>>)]}
MCPids == {1, 2}

=============================================================================
