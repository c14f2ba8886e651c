----------------------------- MODULE PortViews -----------------------------
(***************************************************************************)
(* The driver's port views (AntiRootKitDriver/DetectHiddenPort.c).         *)
(*                                                                         *)
(* QueryKernelPortViews walks a snapshot of the system handle table for    *)
(* \Device\Afd file objects and asks each for its addresses (View B), then *)
(* reads the TCP and the UDP table of NSI (View C).  All three append to   *)
(* one bounded array.  Endpoints open and close meanwhile.                 *)
(***************************************************************************)
EXTENDS Integers, Sequences, FiniteSets, SequencesExt

CONSTANTS
  Ends,         \* the endpoints that ever exist
  EndpointOf,   \* the address, protocol and owner of each
  Holders,      \* PIDs that may hold an Afd handle
  PidModulus,   \* UniqueProcessId of a snapshot entry has 16 bits
  MaxEntries,   \* ARK_MAX_PORT_ENTRIES
  MaxSlots,     \* ARK_AFD_MAX_PID_SLOTS
  MaxQueries,   \* ARK_AFD_MAX_ADDRESS_QUERIES
  MaxTries,     \* turns of the snapshot's retry loop
  MaxHandles    \* bound: Afd handles in a snapshot

ASSUME PortLimits ==
  /\ MaxEntries \in Nat \ {0} /\ MaxSlots \in Nat \ {0}
  /\ MaxQueries \in Nat /\ MaxTries \in Nat \ {0} /\ PidModulus \in Nat \ {0}

ASSUME PortEndpoints ==
  /\ IsFiniteSet(Ends)
  /\ \A e \in Ends : EndpointOf[e].proto \in {"tcp", "udp"}
  /\ Holders \subseteq Nat

VARIABLES
  open,         \* the endpoints that exist
  \* the query
  pc,
  tries,        \* turns of the retry loop
  snapshot,     \* Afd handles not yet visited
  slots,        \* pidSlots
  queries,      \* afdAddressQueries
  pool,         \* pool blocks held
  succeeded,    \* the views whose status is a success
  answer,       \* ARK_KERNEL_PORT_VIEWS_RESPONSE
  \* history
  since         \* open since the query began

driverVars == <<pc, tries, snapshot, slots, queries, pool, succeeded, answer>>
portVars == <<open, driverVars, since>>

AnyAddress == "0.0.0.0"
Loopback == "127.0.0.1"
Protocols == {"tcp", "udp", "unknown"}
HandleValues == 1..MaxHandles
NoAnswer == [status |-> "none", entries |-> <<>>, tcp |-> 0, udp |-> 0,
             afdPids |-> 0, afdHandles |-> 0]

\* What an address query leaves in an entry when it fails.
NoSide == [addr |-> AnyAddress, port |-> 0]
LocalOf(e) == [addr |-> EndpointOf[e].laddr, port |-> EndpointOf[e].lport]
RemoteOf(e) == [addr |-> EndpointOf[e].raddr, port |-> EndpointOf[e].rport]

EntryOf(view, proto, pid, local, remote) ==
  [view |-> view, proto |-> proto, pid |-> pid,
   laddr |-> local.addr, lport |-> local.port,
   raddr |-> remote.addr, rport |-> remote.port]

-----------------------------------------------------------------------------
(* Endpoints come and go.                                                  *)

OpenEndpoint(e) ==
  /\ e \notin open
  /\ open' = open \union {e} /\ UNCHANGED since

CloseEndpoint(e) ==
  /\ e \in open
  /\ open' = open \ {e} /\ since' = since \ {e}

Network ==
  /\ \E e \in Ends : OpenEndpoint(e) \/ CloseEndpoint(e)
  /\ UNCHANGED driverVars

-----------------------------------------------------------------------------
(* The answer's array.                                                     *)

\* ArkAppendPortEntry drops what does not fit, silently.
Append1(entries, entry) ==
  IF Len(entries) >= MaxEntries THEN entries ELSE Append(entries, entry)

Smaller(m, n) == IF m < n THEN m ELSE n

\* Seeded fault: the last slot is never used.
AppendAll_LastSlot(entries, rows) ==
  IF Len(entries) = MaxEntries THEN entries
  ELSE entries \o SubSeq(rows, 1, Smaller(Len(rows), MaxEntries - 1 - Len(entries)))

\* Row after row is appended as long as there is room.
AppendAll(entries, rows) ==
  entries \o SubSeq(rows, 1, Smaller(Len(rows), MaxEntries - Len(entries)))

-----------------------------------------------------------------------------
(* View B.                                                                 *)

\* The view fails: its buffers are given back by the function that holds them,
\* and the query goes on with NSI.
ViewFails(held) ==
  /\ pool' = held \ {"name", "slots"}
  /\ pc' = "nsi"

BeginPortQuery ==
  /\ pc \in {"idle", "returned"}
  /\ since' = open
  /\ answer' = NoAnswer /\ succeeded' = {}
  /\ tries' = 0 /\ slots' = {} /\ queries' = 0
  /\ \/ pool' = pool \union {"name", "slots"} /\ pc' = "snapshot"
     \/ \E got \in {{}, {"name"}, {"slots"}} : ViewFails(pool \union got)
  /\ UNCHANGED <<open, snapshot>>

\* A turn of ArkQuerySystemHandleInformation begins: the buffer of the last one
\* is freed and a larger one allocated.  Before the first, the size is asked for.
SnapshotBuffer ==
  /\ pc = "snapshot"
  /\ \/ pool' = pool \union {"handles"} /\ pc' = "reading"
     \/ ViewFails(pool \ {"handles"})
  /\ UNCHANGED <<tries, snapshot>>

\* The handle table outgrew the buffer: another turn.
SnapshotGrows ==
  /\ tries + 1 < MaxTries
  /\ tries' = tries + 1
  /\ pc' = "snapshot"
  /\ UNCHANGED <<pool, snapshot>>

SnapshotTaken ==
  /\ snapshot' \in SUBSET (Holders \X HandleValues)
  /\ Cardinality(snapshot') <= MaxHandles
  /\ pc' = "afd"
  /\ UNCHANGED <<pool, tries>>

\* Seeded fault: a query that fails leaves its buffer allocated.
SnapshotFails_KeepsBuffer ==
  /\ ViewFails(pool)
  /\ UNCHANGED <<tries, snapshot>>

\* The query itself fails, or the last turn's buffer is too small as well.
SnapshotFails ==
  /\ ViewFails(pool \ {"handles"})
  /\ UNCHANGED <<tries, snapshot>>

SnapshotStep ==
  /\ \/ SnapshotBuffer
     \/ pc = "reading" /\ (SnapshotGrows \/ SnapshotTaken \/ SnapshotFails)
  /\ UNCHANGED <<open, slots, queries, succeeded, answer, since>>

\* What ArkQueryAfdEndpoint makes of its three queries, each of which may fail;
\* without any address there is no entry.  AfdEndpoint has them one by one: the
\* socket asked may be any open one, and it may have another peer by the time
\* of the last query.
Ipv4(ends) == {e \in ends : EndpointOf[e].ipv4}

SameSocket(e, f) == EndpointOf[e].proto = EndpointOf[f].proto

AfdEntries(pid) ==
  {EntryOf("afd", IF known THEN EndpointOf[ef[1]].proto ELSE "unknown", pid,
           IF "local" \in has THEN LocalOf(ef[1]) ELSE NoSide,
           IF "remote" \in has THEN RemoteOf(ef[2]) ELSE NoSide) :
     ef \in {p \in Ipv4(open) \X Ipv4(Ends) : SameSocket(p[1], p[2])},
     known \in BOOLEAN,
     has \in (SUBSET {"local", "remote"}) \ {{}}}

FindOrAddSlot(pid) ==
  slots' = IF Cardinality(slots) < MaxSlots THEN slots \union {pid} ELSE slots

AfdHandle(pid) ==
  /\ FindOrAddSlot(pid)
  /\ IF queries >= MaxQueries \/ Len(answer.entries) >= MaxEntries
       THEN /\ answer' = [answer EXCEPT !.afdHandles = @ + 1]
            /\ UNCHANGED queries
       ELSE /\ queries' = queries + 1
            /\ \/ answer' = [answer EXCEPT !.afdHandles = @ + 1]
               \/ \E entry \in AfdEntries(pid) :
                    answer' = [answer EXCEPT !.afdHandles = @ + 1,
                                             !.entries = Append1(@, entry)]

\* One handle of ArkEnumerateAfdHandleView.  It is skipped when its PID is
\* zero in 16 bits, its object is gone or no Afd file, or has no name.
AfdStep ==
  /\ pc = "afd"
  /\ \E h \in snapshot :
       /\ snapshot' = snapshot \ {h}
       /\ \/ UNCHANGED <<slots, queries, answer>>
          \/ h[1] % PidModulus # 0 /\ AfdHandle(h[1] % PidModulus)
  /\ UNCHANGED <<open, pc, tries, pool, succeeded, since>>

AfdDone ==
  /\ pc = "afd" /\ snapshot = {}
  /\ answer' = [answer EXCEPT !.afdPids = Cardinality(slots)]
  /\ succeeded' = succeeded \union {"afd"}
  /\ pool' = pool \ {"handles", "name", "slots"}
  /\ pc' = "nsi"
  /\ UNCHANGED <<open, tries, snapshot, slots, queries, since>>

-----------------------------------------------------------------------------
(* View C.                                                                 *)

Return(status) ==
  /\ answer' = [answer EXCEPT !.status = status]
  /\ pc' = "returned"

\* Seeded fault: what View B found is thrown away when NSI is not there.
ResolveNsi_NeedsNsi ==
  /\ pc = "nsi"
  /\ \/ pc' = "tcp" /\ UNCHANGED answer
     \/ Return("failed")
  /\ UNCHANGED <<open, tries, snapshot, slots, queries, pool, succeeded, since>>

\* ArkResolveNsiApis: without NSI, View B alone is an answer if it has PIDs.
ResolveNsi ==
  /\ pc = "nsi"
  /\ \/ pc' = "tcp" /\ UNCHANGED answer
     \/ Return(IF "afd" \in succeeded /\ answer.afdPids > 0
                 THEN "success" ELSE "failed")
  /\ UNCHANGED <<open, tries, snapshot, slots, queries, pool, succeeded, since>>

RowOf(e) ==
  LET proto == EndpointOf[e].proto
  IN  EntryOf(proto, proto, EndpointOf[e].pid, LocalOf(e),
              IF proto = "tcp" THEN RemoteOf(e) ELSE NoSide)

\* What NSI's table of a protocol may be at this moment: it has a row for each
\* endpoint, in any order, also where the rows of two are the same.
TablesOf(proto) ==
  {[i \in 1..Len(ends) |-> RowOf(ends[i])] :
     ends \in SetToSeqs({e \in Ipv4(open) : EndpointOf[e].proto = proto})}

\* ArkEnumerateTcpPorts: the table is read at once; rows that do not fit are
\* counted and dropped.
TcpView ==
  /\ pc = "tcp"
  /\ \/ /\ \E rows \in TablesOf("tcp") :
             answer' = [answer EXCEPT !.entries = AppendAll(@, rows),
                                      !.tcp = Len(rows)]
        /\ succeeded' = succeeded \union {"tcp"}
     \/ UNCHANGED <<answer, succeeded>>
  /\ pc' = "udp"
  /\ UNCHANGED <<open, tries, snapshot, slots, queries, pool, since>>

\* Seeded fault: rows that do not fit are not counted.
UdpView_CountsKept ==
  /\ pc = "udp"
  /\ \/ /\ \E rows \in TablesOf("udp") :
             answer' = [answer EXCEPT !.entries = AppendAll(@, rows),
               !.udp = Len(AppendAll(answer.entries, rows)) - Len(answer.entries),
               !.status = "success"]
        /\ succeeded' = succeeded \union {"udp"}
        /\ pc' = "returned"
     \/ /\ Return(IF succeeded = {} THEN "failed" ELSE "success")
        /\ UNCHANGED succeeded
  /\ UNCHANGED <<open, tries, snapshot, slots, queries, pool, since>>

\* ArkEnumerateUdpPorts, and the end of the query: it fails when every view
\* has failed.
UdpView ==
  /\ pc = "udp"
  /\ \/ /\ \E rows \in TablesOf("udp") :
             answer' = [answer EXCEPT !.entries = AppendAll(@, rows),
                                      !.udp = Len(rows),
                                      !.status = "success"]
        /\ succeeded' = succeeded \union {"udp"}
        /\ pc' = "returned"
     \/ /\ Return(IF succeeded = {} THEN "failed" ELSE "success")
        /\ UNCHANGED succeeded
  /\ UNCHANGED <<open, tries, snapshot, slots, queries, pool, since>>

PortQuery ==
  SnapshotStep \/ AfdStep \/ AfdDone \/ ResolveNsi \/ TcpView \/ UdpView

PortInit ==
  /\ open \in SUBSET Ends
  /\ pc = "idle" /\ tries = 0 /\ snapshot = {} /\ slots = {} /\ queries = 0
  /\ pool = {} /\ succeeded = {} /\ answer = NoAnswer /\ since = {}

PortNext == BeginPortQuery \/ PortQuery \/ Network

PortSpec == PortInit /\ [][PortNext]_portVars /\ WF_portVars(PortQuery)

-----------------------------------------------------------------------------
(* Properties of the driver's part.                                        *)

Views == {"afd", "tcp", "udp"}
OfView(view) == {i \in 1..Len(answer.entries) : answer.entries[i].view = view}
Full == Len(answer.entries) = MaxEntries

\* Whichever turn of the snapshot or allocation fails, and however often the
\* buffer was replaced, every pool block is given back before NSI is asked: the
\* buffer of the snapshot by one function, the other two by its caller.
NoPoolLeak == pc \notin {"snapshot", "reading", "afd"} => pool = {}

\* The counts of the answer tell how many entries each view has in it, unless
\* the array is full, and never less: it is filled in the order of the views
\* and what does not fit is only counted.
CountsExplainEntries ==
  /\ Cardinality(OfView("afd")) <= answer.afdHandles
  /\ Cardinality(OfView("tcp")) <= answer.tcp
  /\ Cardinality(OfView("udp")) <= answer.udp
  /\ ~Full => /\ Cardinality(OfView("tcp")) = answer.tcp
              /\ Cardinality(OfView("udp")) = answer.udp
  /\ answer.tcp > Cardinality(OfView("tcp")) => OfView("udp") = {}

\* An endpoint open all through the query is among the entries of its table,
\* if that could be read, or the count of the table shows that entries were
\* dropped: the array is never full silently.
SteadyEndpointAnswered ==
  pc = "returned" =>
    \A e \in since :
      LET proto == EndpointOf[e].proto
      IN  /\ EndpointOf[e].ipv4 /\ proto \in succeeded
          /\ Cardinality(OfView(proto)) =
               IF proto = "tcp" THEN answer.tcp ELSE answer.udp
          => \E i \in OfView(proto) : answer.entries[i] = RowOf(e)

\* A query that fails throws nothing away: none of its views found anything.
FailureLosesNothing == answer.status = "failed" => answer.entries = <<>>

=============================================================================
