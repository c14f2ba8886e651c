------------------------------- MODULE NsiView -------------------------------
(***************************************************************************)
(* View C of the ports, call by call (ArkFindNetioBase, ArkGetExportAddress, *)
(* ArkEnumerateTcpPorts and ArkEnumerateUdpPorts of                        *)
(* AntiRootKitDriver/DetectHiddenPort.c).                                  *)
(*                                                                         *)
(* The driver finds netio.sys in the list of loaded modules, two functions *)
(* among its exports, has NSI allocate the tables of a protocol and walks  *)
(* their rows.  PortViews takes each of the three in one step; ViewC shows *)
(* that this is what comes of it, whatever happens in between.             *)
(***************************************************************************)
EXTENDS Integers, Sequences, FiniteSets, SequencesExt

CONSTANTS
  Ends, EndpointOf,   \* as in PortViews
  MaxEntries,         \* ARK_MAX_PORT_ENTRIES
  Modules,            \* the kernel modules that are ever loaded
  FileName,           \* [name, case]: how each is called in its path
  Exports,            \* names, ordinals and functions of netio.sys
  FunctionAt,         \* what is at each RVA of netio.sys
  Slack,              \* modules that fit into the 0x1000 bytes added to the size
  MaxChanges          \* bound: what the machine does during the view

None == "none"

ASSUME NsiLimits ==
  /\ MaxEntries \in Nat \ {0} /\ Slack \in Nat /\ MaxChanges \in Nat
  /\ IsFiniteSet(Modules) /\ None \notin Modules
  /\ IsFiniteSet(Ends) /\ \A e \in Ends : EndpointOf[e].proto \in {"tcp", "udp"}

VARIABLES
  open, loaded, changes,   \* the machine
  pc,
  bufferSize,              \* modules that fit the buffer
  pool,                    \* blocks held
  imageBase,               \* the module found
  functions,               \* RVAs found, by name
  rows,                    \* the parallel tables of NSI: addresses and owners
  index,
  succeeded, answer,       \* as in PortViews
  since,
  refused                  \* history: calls that were refused

machine == <<open, loaded, changes, since>>
resolving == <<bufferSize, imageBase, functions>>
walk == <<rows, index>>
vars == <<machine, pc, pool, resolving, walk, succeeded, answer, refused>>

NoSide == [addr |-> "0.0.0.0", port |-> 0]
NoRows == [addr |-> <<>>, owner |-> <<>>]
Names == {"NsiAllocateAndGetTable", "NsiFreeTable"}
NotResolved == [name \in Names |-> 0]

-----------------------------------------------------------------------------
(* The machine: endpoints come and go, and so do modules other than netio. *)

\* ArkStringEqualsIgnoreCase(fileName, "netio.sys").
SameFileName(m) == FileName[m].name = "netio.sys"

Network ==
  /\ \/ \E e \in Ends \ open : open' = open \union {e} /\ UNCHANGED since
     \/ \E e \in open : open' = open \ {e} /\ since' = since \ {e}
  /\ UNCHANGED loaded

Loader ==
  /\ \/ \E m \in Modules \ loaded : loaded' = loaded \union {m}
     \/ \E m \in loaded : FileName[m].name # "netio.sys" /\ loaded' = loaded \ {m}
  /\ UNCHANGED <<open, since>>

Machine ==
  /\ changes < MaxChanges /\ changes' = changes + 1
  /\ Network \/ Loader
  /\ UNCHANGED <<pc, pool, resolving, walk, succeeded, answer, refused>>

-----------------------------------------------------------------------------
(* The two functions of netio.sys.                                         *)

\* QueryKernelPortViews without NSI.
ResolveFails ==
  /\ pc' = "returned" /\ pool' = {}
  /\ answer' = [answer EXCEPT !.status =
       IF "afd" \in succeeded /\ answer.afdPids > 0 THEN "success" ELSE "failed"]

\* Seeded fault: there is no room for modules that are loaded meanwhile.
SizeToAllocate_Exact == Cardinality(loaded)

SizeToAllocate == Cardinality(loaded) + Slack

\* The size of the list is asked for, and a buffer allocated.
ProbeSize ==
  /\ pc = "probe"
  /\ \/ bufferSize' = SizeToAllocate /\ pool' = {"modules"}
        /\ pc' = "list" /\ UNCHANGED <<answer, refused>>
     \/ refused' = refused \union {"modules"} /\ ResolveFails /\ UNCHANGED bufferSize
  /\ UNCHANGED <<machine, imageBase, functions, walk, succeeded>>

\* The list is taken, once: it has to fit.
SearchList ==
  /\ pc = "list"
  /\ \/ /\ Cardinality(loaded) <= bufferSize
        /\ \E m \in loaded : SameFileName(m) /\ imageBase' = m
        /\ pc' = "exports" /\ pool' = {}
        /\ UNCHANGED <<answer, refused>>
     \/ /\ Cardinality(loaded) > bufferSize \/ \A m \in loaded : ~SameFileName(m)
        /\ ResolveFails /\ UNCHANGED <<imageBase, refused>>
     \/ refused' = refused \union {"modules"} /\ ResolveFails /\ UNCHANGED imageBase
  /\ UNCHANGED <<machine, bufferSize, functions, walk, succeeded>>

FirstNamed(name) ==
  {i \in 1..Len(Exports.names) :
     /\ Exports.names[i] = name
     /\ \A j \in 1..(i - 1) : Exports.names[j] # name}

\* ArkGetExportAddress: 0 when there is no such name, or no function for it.
ExportAddress(name) ==
  IF FirstNamed(name) = {} THEN 0
  ELSE Exports.functions[Exports.ordinals[CHOOSE i \in FirstNamed(name) : TRUE] + 1]

ResolveExports ==
  /\ pc = "exports"
  /\ functions' = [name \in Names |-> ExportAddress(name)]
  /\ \/ (\A name \in Names : functions'[name] # 0) /\ pc' = "tcp" /\ UNCHANGED <<pool, answer>>
     \/ (\E name \in Names : functions'[name] = 0) /\ ResolveFails
  /\ UNCHANGED <<machine, bufferSize, imageBase, walk, succeeded, refused>>

-----------------------------------------------------------------------------
(* The tables.                                                             *)

EntryAt(proto, i) ==
  LET f == EndpointOf[rows.addr[i]]
  IN  [view |-> proto, proto |-> proto, pid |-> rows.owner[i],
       laddr |-> f.laddr, lport |-> f.lport,
       raddr |-> IF proto = "tcp" THEN f.raddr ELSE NoSide.addr,
       rport |-> IF proto = "tcp" THEN f.rport ELSE NoSide.port]

AppendPortEntry(entries, entry) ==
  IF Len(entries) >= MaxEntries THEN entries ELSE Append(entries, entry)

\* allocateFn takes the tables of a protocol at one moment.
Allocate(proto, tables) ==
  /\ rows' \in {[addr |-> s, owner |-> [i \in 1..Len(s) |-> EndpointOf[s[i]].pid]] :
                  s \in SetToSeqs({e \in open : EndpointOf[e].proto = proto})}
  /\ index' = 1
  /\ pool' = tables

TcpAllocate ==
  /\ pc = "tcp"
  /\ \/ Allocate("tcp", {"key", "state", "owner"}) /\ pc' = "tcpRows" /\ UNCHANGED refused
     \/ pc' = "udp" /\ refused' = refused \union {"tcp"} /\ UNCHANGED <<pool, walk>>
  /\ UNCHANGED <<machine, resolving, succeeded, answer>>

UdpAllocate ==
  /\ pc = "udp"
  /\ \/ Allocate("udp", {"key", "owner"}) /\ pc' = "udpRows" /\ UNCHANGED <<answer, refused>>
     \/ /\ answer' = [answer EXCEPT !.status =
             IF succeeded = {} THEN "failed" ELSE "success"]
        /\ pc' = "returned" /\ refused' = refused \union {"udp"} /\ UNCHANGED <<pool, walk>>
  /\ UNCHANGED <<machine, resolving, succeeded>>

Walking == pc \in {"tcpRows", "udpRows"} /\ index <= Len(rows.addr)
Proto == IF pc = "tcpRows" THEN "tcp" ELSE "udp"

\* Seeded fault: rows of any family are answered.
Row_AnyFamily ==
  /\ Walking
  /\ answer' = [answer EXCEPT !.entries = AppendPortEntry(@, EntryAt(Proto, index)),
                              ![Proto] = @ + 1]
  /\ index' = index + 1
  /\ UNCHANGED <<machine, pc, pool, resolving, rows, succeeded, refused>>

\* One row: those of another family are passed over, the others counted,
\* whether they fit or not.
Row ==
  /\ Walking
  /\ \/ /\ EndpointOf[rows.addr[index]].ipv4
        /\ answer' = [answer EXCEPT !.entries = AppendPortEntry(@, EntryAt(Proto, index)),
                                    ![Proto] = @ + 1]
     \/ ~EndpointOf[rows.addr[index]].ipv4 /\ UNCHANGED answer
  /\ index' = index + 1
  /\ UNCHANGED <<machine, pc, pool, resolving, rows, succeeded, refused>>

\* Seeded fault: the state table is not given back.
FreeTables_KeepsState == pool' = pool \ {"key", "owner"}

FreeTables == pool' = {}

EndOfRows ==
  /\ pc \in {"tcpRows", "udpRows"} /\ ~Walking
  /\ FreeTables
  /\ succeeded' = succeeded \union {Proto}
  /\ \/ pc = "tcpRows" /\ pc' = "udp" /\ UNCHANGED answer
     \/ pc = "udpRows" /\ pc' = "returned"
        /\ answer' = [answer EXCEPT !.status = "success"]
  /\ rows' = NoRows /\ index' = 1
  /\ UNCHANGED <<machine, resolving, refused>>

View ==
  \/ ProbeSize \/ SearchList \/ ResolveExports
  \/ TcpAllocate \/ UdpAllocate \/ Row \/ EndOfRows

AfdAnswers == {<<>>} \union {<<EntryAfd>> : EntryAfd \in
  {[view |-> "afd", proto |-> "unknown", pid |-> 1, laddr |-> "host", lport |-> 1,
    raddr |-> "0.0.0.0", rport |-> 0]}}

Init ==
  /\ open \in SUBSET Ends /\ since = open
  /\ loaded \in SUBSET Modules /\ changes = 0
  /\ pc = "probe" /\ pool = {} /\ bufferSize = 0 /\ imageBase = None
  /\ functions = NotResolved /\ rows = NoRows /\ index = 1 /\ refused = {}
  /\ \E entries \in AfdAnswers, afdPids \in {0, 1} :
       /\ answer = [status |-> "none", entries |-> entries, tcp |-> 0, udp |-> 0,
                    afdPids |-> afdPids, afdHandles |-> afdPids]
       /\ entries # <<>> => afdPids = 1
       /\ succeeded = IF afdPids = 1 THEN {"afd"} ELSE {}

Next == View \/ (pc # "returned" /\ Machine)

\* The thread of the request is scheduled; the machine may do nothing.
Spec == Init /\ [][Next]_vars /\ WF_vars(View)

-----------------------------------------------------------------------------
(* Properties.                                                             *)

\* Between the calls that need them nothing is held: neither the list of
\* modules, whichever way the search ends, nor a table of NSI.
NsiTablesGivenBack ==
  /\ pc \in {"probe", "exports", "tcp", "udp", "returned"} => pool = {}
  /\ pc \in {"tcpRows", "udpRows"} => "modules" \notin pool

\* With netio.sys loaded, however it is spelt, no call refused and no more
\* modules loaded meanwhile than the buffer has room for, the functions that
\* are called are the two of NSI: the one query of the list is enough.
NsiReached ==
  pc = "returned" /\ "modules" \notin refused /\ changes <= Slack
    /\ (\E m \in loaded : FileName[m].name = "netio.sys")
    => /\ imageBase # None
       /\ \A name \in Names : functions[name] # 0 /\ FunctionAt[functions[name]] = name

\* The abstract view: the rows still to go are in the answer from the moment
\* the tables were allocated.
Ahead ==
  IF pc \in {"tcpRows", "udpRows"}
    THEN {i \in index..Len(rows.addr) : EndpointOf[rows.addr[i]].ipv4}
    ELSE {}

\* The k-th number of a set.
Rank(K, i) == Cardinality({j \in K : j <= i})
Nth(K, k) == CHOOSE i \in K : Rank(K, i) = k

Left == [k \in 1..Cardinality(Ahead) |-> EntryAt(Proto, Nth(Ahead, k))]

\* What is in the array when all of them have been appended.
Filled(entries, more) ==
  LET room == MaxEntries - Len(entries)
  IN  entries \o SubSeq(more, 1, IF Len(more) < room THEN Len(more) ELSE room)

Finished ==
  [answer EXCEPT
     !.entries = Filled(@, Left),
     !.tcp = IF pc = "tcpRows" THEN @ + Len(Left) ELSE @,
     !.udp = IF pc = "udpRows" THEN @ + Len(Left) ELSE @,
     !.status = IF pc = "udpRows" THEN "success" ELSE @]

PV == INSTANCE PortViews WITH
  Holders <- {}, PidModulus <- 1, MaxSlots <- 1, MaxQueries <- 0,
  MaxTries <- 1, MaxHandles <- 0,
  tries <- 0, snapshot <- {}, slots <- {}, queries <- 0, pool <- {},
  pc <- CASE pc \in {"probe", "list", "exports"} -> "nsi"
          [] pc = "tcp" -> "tcp"
          [] pc \in {"tcpRows", "udp"} -> "udp"
          [] OTHER -> "returned",
  succeeded <- succeeded \union
    (IF pc \in {"tcpRows", "udpRows"} THEN {Proto} ELSE {}),
  answer <- Finished

\* View C implements the part of PortViews it stands for: each protocol's
\* rows are those of one moment, in NSI's order, whatever the machine does
\* while they are copied, and a failure is answered as PortViews says.
ViewC == [][PV!PortNext]_(PV!portVars)

=============================================================================
