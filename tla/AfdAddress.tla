----------------------------- MODULE AfdAddress -----------------------------
(***************************************************************************)
(* What the driver reads out of an address that AFD wrote                  *)
(* (ArkParseAfdAddressBuffer of AntiRootKitDriver/DetectHiddenPort.c).     *)
(*                                                                         *)
(* The buffer is a sequence of 16 bit words.  AFD writes a SOCKADDR for    *)
(* sockets of the TLI kind and a TDI_ADDRESS_INFO for those of the TDI     *)
(* kind, and does not say which.                                           *)
(***************************************************************************)
EXTENDS Integers, Sequences

AF_INET == 2
AF_INET6 == 23
TypeIP == 2               \* ARK_TDI_ADDRESS_TYPE_IP
BufferWords == 128        \* ARK_AFD_ADDRESS_BUFFER_BYTES

Kinds == {"none", "tli", "tli6", "tdi"}
SocketAddress == [kind : Kinds, port : Nat, ip : Nat \X Nat]
NoAddress == [kind |-> "none", port |-> 0, ip |-> <<0, 0>>]

\* SOCKADDR_IN, SOCKADDR_IN6 and TDI_ADDRESS_INFO as AFD writes them into a
\* zeroed buffer, as far as the driver looks.  The flow information of IPv6
\* is 0.  The TDI structures have no padding: a TDI_ADDRESS_IP has 14 bytes,
\* the address right behind the port.
Zeros(n) == [i \in 1..n |-> 0]

Words(w) ==
  CASE w.kind = "tli"  -> <<AF_INET, w.port>> \o w.ip \o Zeros(12)
    [] w.kind = "tli6" -> <<AF_INET6, w.port, 0, 0>> \o w.ip \o Zeros(10)
    [] w.kind = "tdi"  -> <<1, 0>> \o <<1, 0>> \o <<14, TypeIP>> \o <<w.port>> \o w.ip \o Zeros(7)
    [] OTHER           -> Zeros(16)

NotRead == [ok |-> FALSE, ip |-> <<0, 0>>, port |-> 0]
Read(ip, port) == [ok |-> TRUE, ip |-> ip, port |-> port]

-----------------------------------------------------------------------------
(* The parser; the structures of the driver, in words.                     *)

SizeofSockaddrIn == 8
SizeofTdiAddressIp == 4    \* sin_port, padding, in_addr: the compiler aligns it
OffsetOfAddress == 6       \* FIELD_OFFSET of Address.Address[0].Address

ParseSockaddrIn(b, n) ==
  IF n < SizeofSockaddrIn \/ b[1] # AF_INET THEN NotRead
  ELSE Read(<<b[3], b[4]>>, b[2])

TAAddressCount(b) == <<b[3], b[4]>>
AddressLength(b) == b[5]
AddressType(b) == b[6]

\* Seeded fault: an info without addresses is accepted.
TdiFits_NoCount(b, n) ==
  /\ n >= OffsetOfAddress + SizeofTdiAddressIp
  /\ AddressType(b) = TypeIP
  /\ AddressLength(b) >= 2 * SizeofTdiAddressIp
  /\ 2 * n >= 2 * OffsetOfAddress + AddressLength(b)

TdiFits(b, n) ==
  /\ n >= OffsetOfAddress + SizeofTdiAddressIp
  /\ TAAddressCount(b) # <<0, 0>>
  /\ AddressType(b) = TypeIP
  /\ AddressLength(b) >= 2 * SizeofTdiAddressIp
  /\ 2 * n >= 2 * OffsetOfAddress + AddressLength(b)

ParseTdi(b, n) ==
  IF TdiFits(b, n)
    THEN Read(<<b[OffsetOfAddress + 3], b[OffsetOfAddress + 4]>>, b[OffsetOfAddress + 1])
    ELSE NotRead

ParseAfdAddressBuffer(b, n) ==
  IF n < 1 THEN NotRead
  ELSE IF b[1] = AF_INET THEN ParseSockaddrIn(b, n)
  ELSE ParseTdi(b, n)

=============================================================================
