----------------------------- MODULE PortDetect -----------------------------
(***************************************************************************)
(* The app's hidden port detection (AntiRootKitApp/DetectHiddenPort.cpp)   *)
(* on top of the driver's port views (module PortViews).                   *)
(*                                                                         *)
(* crossDetectHiddenPorts lists the ports of user mode, asks the driver,   *)
(* lists user mode again, joins the two lists, subtracts them from the     *)
(* driver's answer and filters what is left.                               *)
(***************************************************************************)
EXTENDS PortViews

CONSTANTS
  Hooked,      \* endpoints a rootkit hides from GetExtendedTcp/UdpTable
  Signed,      \* PIDs whose image has a valid Authenticode signature
  MaxPerPid    \* kMaxHiddenEntriesPerPid

VARIABLES
  stage,       \* where crossDetectHiddenPorts is
  list,        \* the list enumerateR3Ports builds
  read,        \* the tables it could read
  r3,          \* endpoints listed, r3Front
  candidates,  \* result.hiddenPorts
  crowded,     \* pidCount: the PIDs with too many of them
  index        \* the loop index of the comparison, then of the filter

lists == <<list, read>>
hidden == <<candidates, crowded, index>>
appVars == <<stage, lists, r3, hidden>>
vars == <<portVars, appVars>>

-----------------------------------------------------------------------------
(* View A.                                                                 *)

Visible(proto) == {e \in open \ Hooked : EndpointOf[e].ipv4 /\ EndpointOf[e].proto = proto}

\* What one enumeration may add to a list of n: it stops at MaxEntries.
Listed(proto, n) ==
  {s \in SUBSET Visible(proto) :
     Cardinality(s) = Smaller(Cardinality(Visible(proto)), MaxEntries - n)}

\* isSamePortEndpoint: only the local side of UDP counts.
SameEndpoint(e, entry) ==
  LET f == EndpointOf[e] IN
  /\ f.proto = entry.proto
  /\ f.laddr = entry.laddr /\ f.lport = entry.lport
  /\ f.proto # "udp" => f.raddr = entry.raddr /\ f.rport = entry.rport

InR3(entry) == \E e \in r3 : SameEndpoint(e, entry)

Quit ==
  /\ stage' = "failed"
  /\ UNCHANGED <<lists, r3, hidden>>

\* enumerateR3TcpPorts, either time, into a list that is empty.
EnumerateTcp ==
  /\ \/ stage = "front" /\ stage' = "frontUdp"
     \/ stage = "after" /\ stage' = "afterUdp"
  /\ \/ list' \in Listed("tcp", 0) /\ read' = {"tcp"}
     \/ list' = {} /\ read' = {}
  /\ UNCHANGED <<portVars, r3, hidden>>

\* enumerateR3UdpPorts goes on with the list; enumerateR3Ports is content with
\* one of the two.
EnumerateUdp ==
  \/ /\ \E udp \in Listed("udp", Cardinality(list)) : list' = list \union udp
     /\ read' = read \union {"udp"}
  \/ read # {} /\ UNCHANGED lists

FrontUdp ==
  /\ stage = "frontUdp"
  /\ \/ /\ EnumerateUdp
        /\ stage' = "open" /\ r3' = list' /\ UNCHANGED hidden
     \/ read = {} /\ Quit
  /\ UNCHANGED portVars

-----------------------------------------------------------------------------
(* The driver.                                                             *)

OpenDevice ==
  /\ stage = "open"
  /\ \/ BeginPortQuery /\ stage' = "ioctl"
        /\ UNCHANGED <<lists, r3, hidden>>
     \/ Quit /\ UNCHANGED portVars

DriverStep ==
  /\ stage = "ioctl"
  /\ PortQuery
  /\ UNCHANGED appVars

IoctlReturns ==
  /\ stage = "ioctl" /\ pc = "returned"
  /\ \/ answer.status = "success" /\ stage' = "after"
        /\ UNCHANGED <<lists, r3, hidden>>
     \/ answer.status = "failed" /\ Quit
  /\ UNCHANGED portVars

-----------------------------------------------------------------------------
(* The second list and the comparison.                                     *)

\* integrateR3PortSnapshots adds one endpoint for each new address of the
\* second list until the list is full.
Joined(after, added) ==
  /\ Cardinality(r3 \union added) <= MaxEntries
  /\ \A e, f \in added : SameEndpoint(e, EndpointOf[f]) => e = f
  /\ \/ Cardinality(r3 \union added) = MaxEntries
     \/ \A e \in after : InR3(EndpointOf[e])
                        \/ \E f \in added : SameEndpoint(f, EndpointOf[e])

\* Seeded fault: the second list is not joined to the first.
AfterUdp_NotJoined ==
  /\ stage = "afterUdp"
  /\ \/ /\ EnumerateUdp
        /\ stage' = "compare" /\ UNCHANGED <<r3, hidden>>
     \/ read = {} /\ Quit
  /\ UNCHANGED portVars

AfterUdp ==
  /\ stage = "afterUdp"
  /\ \/ /\ EnumerateUdp
        /\ \E added \in SUBSET {e \in list' : ~InR3(EndpointOf[e])} :
             Joined(list', added) /\ r3' = r3 \union added
        /\ stage' = "compare" /\ UNCHANGED hidden
     \/ read = {} /\ Quit
  /\ UNCHANGED portVars

HasAddress(entry) ==
  <<entry.laddr, entry.lport, entry.raddr, entry.rport>> #
    <<AnyAddress, 0, AnyAddress, 0>>

\* Seeded fault: what user mode lists is reported.
Suspicious_Inverted(entry) == (entry.view = "afd" => HasAddress(entry)) /\ InR3(entry)

\* afdKernelEntryHasAddress and the comparison.
Suspicious(entry) == (entry.view = "afd" => HasAddress(entry)) /\ ~InR3(entry)

\* One turn of the comparison.
CompareEntry ==
  /\ stage = "compare" /\ index <= Len(answer.entries)
  /\ candidates' = IF Suspicious(answer.entries[index])
                     THEN Append(candidates, answer.entries[index]) ELSE candidates
  /\ index' = index + 1
  /\ UNCHANGED <<portVars, stage, lists, r3, crowded>>

\* filterHiddenPorts begins: rule 1 finds nothing left to do, rule 2 counts the
\* candidates of each process.
OfPid(s, pid) == {i \in 1..Len(s) : s[i].pid = pid}

CountPids ==
  /\ stage = "compare" /\ index > Len(answer.entries)
  /\ crowded' = {candidates[i].pid : i \in
       {j \in 1..Len(candidates) :
          Cardinality(OfPid(candidates, candidates[j].pid)) > MaxPerPid}}
  /\ stage' = "filter" /\ index' = 1
  /\ UNCHANGED <<portVars, lists, r3, candidates>>

-----------------------------------------------------------------------------
(* Rules 2 to 7 of filterHiddenPorts, an entry at a time.                  *)

Crowd(entry) == entry.pid \in crowded

\* Rule 3, the Bound table of Windows 10: an entry of this form may be in it.
BoundForm(entry) ==
  \/ entry.rport = 0 /\ entry.laddr = AnyAddress
  \/ entry.laddr = Loopback /\ entry.raddr = Loopback

\* Rules 4 and 5.
Unconnected(entry) == entry.rport = 0
Internal(entry) == entry.raddr \in {AnyAddress, Loopback, entry.laddr}

\* Rule 6: bind can only fail with WSAEADDRINUSE over a TCP endpoint that is
\* open now, on the address or on all addresses.
Occupied(entry) ==
  \E e \in open :
    /\ EndpointOf[e].proto = "tcp" /\ EndpointOf[e].lport = entry.lport
    /\ EndpointOf[e].laddr \in {entry.laddr, AnyAddress}

\* Rule 7, queryProcessImagePath and verifySignatureValidA: a process that can
\* no longer be opened has no path and no valid signature.
SignatureValid(entry) == entry.pid \in Signed

Drop ==
  /\ candidates' = RemoveAt(candidates, index)
  /\ UNCHANGED index

Keep == index' = index + 1 /\ UNCHANGED candidates

\* Seeded fault: an entry that is kept is looked at again.
FilterEntry_NoProgress ==
  /\ stage = "filter" /\ index <= Len(candidates)
  /\ IF Unconnected(candidates[index]) \/ Internal(candidates[index])
       THEN Drop ELSE UNCHANGED <<candidates, index>>
  /\ UNCHANGED <<portVars, stage, lists, r3, crowded>>

\* Rules 2, 4 and 5 depend on what is known; what the others ask can fail.
FilterEntry ==
  /\ stage = "filter" /\ index <= Len(candidates)
  /\ LET entry == candidates[index] IN
     \/ /\ \/ Crowd(entry)
           \/ BoundForm(entry)
           \/ Unconnected(entry) \/ Internal(entry)
           \/ Occupied(entry)
           \/ SignatureValid(entry)
        /\ Drop
     \/ /\ ~Crowd(entry) /\ ~Unconnected(entry) /\ ~Internal(entry)
        /\ Keep
  /\ UNCHANGED <<portVars, stage, lists, r3, crowded>>

Finish ==
  /\ stage = "filter" /\ index > Len(candidates)
  /\ stage' = "done"
  /\ UNCHANGED <<portVars, lists, r3, hidden>>

App ==
  \/ EnumerateTcp \/ FrontUdp \/ OpenDevice \/ IoctlReturns \/ AfterUdp
  \/ CompareEntry \/ CountPids \/ FilterEntry \/ Finish

Init ==
  /\ PortInit
  /\ stage = "front" /\ list = {} /\ read = {} /\ r3 = {}
  /\ candidates = <<>> /\ crowded = {} /\ index = 1

Next == App \/ DriverStep \/ (Network /\ UNCHANGED appVars)

\* The app's thread is scheduled, and so is the driver's work on its behalf.
Spec == Init /\ [][Next]_vars /\ WF_vars(App) /\ WF_vars(DriverStep)

-----------------------------------------------------------------------------
(* Properties.                                                             *)

Addresses == {AnyAddress} \union UNION {{EndpointOf[e].laddr, EndpointOf[e].raddr} : e \in Ends}
PortNumbers == {0} \union UNION {{EndpointOf[e].lport, EndpointOf[e].rport} : e \in Ends}
OwningPids == 0..(PidModulus - 1) \union {EndpointOf[e].pid : e \in Ends}

Entries == [view : Views, proto : Protocols, pid : OwningPids,
            laddr : Addresses, lport : PortNumbers,
            raddr : Addresses, rport : PortNumbers]

\* What a row may say of an endpoint: all of it, or, a row of View B whose
\* queries were not all answered, nothing that is not so.  A protocol that was
\* not told is "unknown", a side that was not told is NoSide.
LocalSide(entry) == [addr |-> entry.laddr, port |-> entry.lport]
RemoteSide(entry) == [addr |-> entry.raddr, port |-> entry.rport]

Concerns(entry, e) ==
  \/ SameEndpoint(e, entry)
  \/ /\ entry.view = "afd"
     /\ entry.proto \in {EndpointOf[e].proto, "unknown"}
     /\ LocalSide(entry) \in {LocalOf(e), NoSide}
     /\ RemoteSide(entry) \in {RemoteOf(e), NoSide}

\* A TCP endpoint that nobody hides and that is open from before the driver is
\* asked can only be reported as a connection, by a row of View B that lacks its
\* protocol or its local side.  No row of NSI, no row that was read whole and no
\* row without a remote side is reported for it, and nothing for a listening
\* port: the second list has what the first lacks, and the filter drops the rest.
\* Unless the second list was full, or the two joined (which is not the same
\* where endpoints share their addresses), or the second one could not read TCP,
\* which does not stop the detection as long as it could read UDP.
OnlyPartialRowsAccuse ==
  stage = "done" =>
    \A e \in since \ Hooked :
      /\ EndpointOf[e].ipv4 /\ EndpointOf[e].proto = "tcp"
      /\ Cardinality(list) < MaxEntries /\ Cardinality(r3) < MaxEntries
      /\ "tcp" \in read
      => \A i \in 1..Len(candidates) : Concerns(candidates[i], e) =>
           /\ candidates[i].view = "afd"
           /\ RemoteSide(candidates[i]) = RemoteOf(e) /\ EndpointOf[e].rport # 0
           /\ candidates[i].proto = "unknown" \/ LocalSide(candidates[i]) = NoSide

EntriesOf(s) == {s[i] : i \in 1..Len(s)}

Promise == INSTANCE CrossView WITH
  Items <- Entries,
  Filtering <- TRUE,
  stage <- CASE stage = "done" -> "reported"
             [] stage = "failed" -> "failed"
             [] OTHER -> "collecting",
  kernel <- IF stage \in {"front", "frontUdp", "open", "ioctl"} THEN {}
              ELSE EntriesOf(answer.entries),
  r3 <- IF stage \in {"compare", "filter", "done"}
          THEN {entry \in EntriesOf(answer.entries) : InR3(entry)} ELSE {},
  report <- IF stage = "done" THEN EntriesOf(candidates) ELSE {}

\* The detection keeps the promise of CrossView: what it reports is part of
\* the kernel's entries that user mode did not list, and excuses the rest.
KeepsPromise == Promise!Init /\ [][Promise!Next]_(Promise!vars)

\* The detection ends.
DetectionEnds == <>(stage \in {"done", "failed"})

\* "the comparison finds hidden listening ports and connections"
\* (README.md:96): a port or connection of a process without a signature that
\* was hidden all through the detection, and whose row is in the driver's
\* answer, is reported.
HiddenPortReported ==
  stage = "done" =>
    \A e \in since \intersect Hooked :
      RowOf(e) \in EntriesOf(answer.entries) /\ ~SignatureValid(RowOf(e))
        => RowOf(e) \in EntriesOf(candidates)

=============================================================================
