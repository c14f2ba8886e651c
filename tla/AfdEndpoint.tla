----------------------------- MODULE AfdEndpoint -----------------------------
(***************************************************************************)
(* One AFD handle after the other (ArkEnumerateAfdHandleView of            *)
(* AntiRootKitDriver/DetectHiddenPort.c), call by call.                    *)
(*                                                                         *)
(* PortViews takes what a handle yields in one step.  Here the handle is   *)
(* referenced, named, counted, opened by its pointer or duplicated from    *)
(* its process, asked three times and given back, while the processes of   *)
(* the machine open, duplicate, bind, connect and close sockets.           *)
(***************************************************************************)
EXTENDS AfdAddress, FiniteSets

CONSTANTS
  Pids,        \* the processes
  Values,      \* handle values of a process
  Sockets,     \* addresses at which an AFD file object can be
  Addresses,   \* [local, remote] of bound and connected sockets
  PidModulus,  \* UniqueProcessId of a snapshot entry has 16 bits
  MaxSlots,    \* ARK_AFD_MAX_PID_SLOTS
  MaxQueries,  \* ARK_AFD_MAX_ADDRESS_QUERIES
  MaxEntries,  \* ARK_MAX_PORT_ENTRIES
  MaxChanges   \* bound: what the machine does during one query

ASSUME AfdLimits ==
  /\ Pids \subseteq Nat /\ Values \subseteq Nat
  /\ PidModulus \in Nat \ {0} /\ MaxSlots \in Nat /\ MaxQueries \in Nat
  /\ MaxEntries \in Nat /\ MaxChanges \in Nat
  /\ 0 \notin Sockets     \* no object is at NULL
  /\ Addresses \subseteq [local : SocketAddress, remote : SocketAddress]

VARIABLES
  \* the machine
  table,       \* the socket behind each handle of each process
  addr,        \* where each socket is bound and connected
  changes,     \* counts against MaxChanges
  \* ArkEnumerateAfdHandleView
  pc,
  snapshot,    \* records not yet visited
  current,     \* the record being visited
  held,        \* objects ObReferenceObjectByPointer has referenced
  opened,      \* sockets behind the handles the driver has opened: a kernel
               \* handle, or the duplicate in the table of the app it works for
  process,     \* processes it has a handle of, from ZwOpenProcess
  endpoint,    \* ARK_AFD_PARSED_ENDPOINT
  slots,       \* pidSlots: HandleCount of each PID
  scanned,     \* afdHandleScanned
  queries,     \* afdAddressQueries
  entries,     \* response->Entries
  \* history
  steady       \* records whose handle and socket have not changed since then

machine == <<table, addr, changes>>
counters == <<slots, scanned, queries>>
vars == <<machine, pc, snapshot, current, held, opened, process, endpoint,
          counters, entries, steady>>

None == 0
Unbound == [local |-> NoAddress, remote |-> NoAddress]
NothingRead == [local |-> NotRead, remote |-> NotRead]
Handles == Pids \X Values
Records == [pid : Pids, value : Values, socket : Sockets]

-----------------------------------------------------------------------------
(* The machine.                                                            *)

HasHandle(s, t) == s \in opened \/ \E h \in Handles : t[h] = s
Alive(s) == s \in held \/ HasHandle(s, table)

\* Closing the last handle of a socket cleans it up, references or not.
CleanUp(s, gone) == addr' = IF gone THEN [addr EXCEPT ![s] = Unbound] ELSE addr

Changed ==
  /\ changes < MaxChanges /\ changes' = changes + 1
  /\ steady' = {r \in steady : /\ table'[<<r.pid, r.value>>] = r.socket
                               /\ addr'[r.socket] = addr[r.socket]}

OpenSocket(h, s) ==
  /\ table[h] = None /\ ~Alive(s)
  /\ table' = [table EXCEPT ![h] = s]
  /\ UNCHANGED addr

DuplicateHandle(h, g) ==
  /\ table[h] = None /\ table[g] # None
  /\ table' = [table EXCEPT ![h] = table[g]]
  /\ UNCHANGED addr

\* bind, connect, disconnect.
Rename(h) ==
  /\ table[h] # None
  /\ \E a \in Addresses : a # addr[table[h]] /\ addr' = [addr EXCEPT ![table[h]] = a]
  /\ UNCHANGED table

CloseHandle(h) ==
  /\ table[h] # None
  /\ table' = [table EXCEPT ![h] = None]
  /\ CleanUp(table[h], ~HasHandle(table[h], table'))

Machine ==
  /\ \E h \in Handles : \/ \E s \in Sockets : OpenSocket(h, s)
                        \/ \E g \in Handles : DuplicateHandle(h, g)
                        \/ Rename(h) \/ CloseHandle(h)
  /\ Changed
  /\ UNCHANGED <<pc, snapshot, current, held, opened, process, endpoint,
                 counters, entries>>

-----------------------------------------------------------------------------
(* The view.                                                               *)

Pid(r) == r.pid % PidModulus

TakeSnapshot ==
  /\ pc = "idle" /\ pc' = "walk"
  /\ snapshot' = {r \in Records : table[<<r.pid, r.value>>] = r.socket}
  /\ steady' = snapshot'
  /\ UNCHANGED <<machine, current, held, opened, process, endpoint, counters, entries>>

\* continue, after ObDereferenceObject.
PassOver == pc' = "walk" /\ held' = held \ {current.socket} /\ UNCHANGED opened

\* The object of a record may be gone; another file may be at its address.
Reference ==
  /\ pc = "walk"
  /\ \E r \in snapshot :
       /\ snapshot' = snapshot \ {r} /\ current' = r
       /\ \/ UNCHANGED <<pc, held>>
          \/ /\ Pid(r) # 0 /\ Alive(r.socket)
             /\ held' = held \union {r.socket} /\ pc' = "name"
  /\ endpoint' = NothingRead
  /\ UNCHANGED <<machine, opened, process, counters, entries, steady>>

\* ArkFindOrAddAfdPidSlot and the two counts.
CountHandle ==
  /\ scanned' = scanned + 1
  /\ slots' = IF Pid(current) \in DOMAIN slots
                THEN [slots EXCEPT ![Pid(current)] = @ + 1]
              ELSE IF Cardinality(DOMAIN slots) < MaxSlots
                THEN [p \in DOMAIN slots \union {Pid(current)} |->
                        IF p = Pid(current) THEN 1 ELSE slots[p]]
                ELSE slots

AtLimit == queries >= MaxQueries \/ Len(entries) >= MaxEntries

\* ObQueryNameString and ArkIsAfdDeviceName.
Classify ==
  /\ pc = "name"
  /\ \/ PassOver /\ UNCHANGED counters
     \/ AtLimit /\ PassOver /\ CountHandle /\ UNCHANGED queries
     \/ ~AtLimit /\ CountHandle /\ queries' = queries + 1
        /\ pc' = "open" /\ UNCHANGED <<held, opened>>
  /\ UNCHANGED <<machine, snapshot, current, process, endpoint, entries, steady>>

Opened(s) == opened' = {s} /\ pc' = "context" /\ UNCHANGED held

\* ArkOpenAfdHandle by the pointer; else the process of the record is opened,
\* if there is one with the low bits of its PID.
OpenByPointer ==
  /\ pc = "open"
  /\ \/ Opened(current.socket) /\ UNCHANGED process
     \/ current.value # 0 /\ Pid(current) \in Pids
        /\ pc' = "duplicate" /\ process' = {Pid(current)} /\ UNCHANGED <<held, opened>>
     \/ PassOver /\ UNCHANGED process
  /\ UNCHANGED <<machine, snapshot, current, endpoint, counters, entries, steady>>

\* Seeded fault: the process is closed only when the duplicate was made.
Duplicate_KeepsProcess ==
  /\ pc = "duplicate"
  /\ LET s == table[<<Pid(current), current.value>>]
     IN  \/ s # None /\ Opened(s) /\ process' = {}
         \/ PassOver /\ UNCHANGED process
  /\ UNCHANGED <<machine, snapshot, current, endpoint, counters, entries, steady>>

\* ZwDuplicateObject: what the process has at that handle value by now.  The
\* process is closed whether that succeeds or not.
Duplicate ==
  /\ pc = "duplicate" /\ process' = {}
  /\ LET s == table[<<Pid(current), current.value>>]
     IN  \/ s # None /\ Opened(s)
         \/ PassOver
  /\ UNCHANGED <<machine, snapshot, current, endpoint, counters, entries, steady>>

\* ArkQueryAfdEndpoint: three requests, each of which may fail.
Answer(s, side) == ParseAfdAddressBuffer(Words(addr[s][side]), BufferWords)

Context ==
  /\ pc = "context" /\ pc' = "local"
  /\ UNCHANGED <<machine, snapshot, current, held, opened, process, endpoint,
                 counters, entries, steady>>

Local ==
  /\ pc = "local" /\ pc' = "remote"
  /\ \/ \E s \in opened : endpoint' = [endpoint EXCEPT !.local = Answer(s, "local")]
     \/ UNCHANGED endpoint
  /\ UNCHANGED <<machine, snapshot, current, held, opened, process, counters, entries, steady>>

Remote ==
  /\ pc = "remote" /\ pc' = "finish"
  /\ \/ \E s \in opened : endpoint' = [endpoint EXCEPT !.remote = Answer(s, "remote")]
     \/ UNCHANGED endpoint
  /\ UNCHANGED <<machine, snapshot, current, held, opened, process, counters, entries, steady>>

\* ZwClose, which may be the last close of the socket, ObDereferenceObject and,
\* with an address, a new entry.
Finish ==
  /\ pc = "finish" /\ pc' = "walk"
  /\ opened' = {} /\ held' = held \ {current.socket}
  /\ \E s \in opened : CleanUp(s, \A h \in Handles : table[h] # s)
  /\ entries' = IF ~endpoint.local.ok /\ ~endpoint.remote.ok THEN entries
                ELSE Append(entries, [pid |-> Pid(current), address |-> endpoint,
                                      record |-> current])
  /\ UNCHANGED <<table, changes, snapshot, current, process, endpoint, counters, steady>>

Done ==
  /\ pc = "walk" /\ snapshot = {}
  /\ pc' = "done"
  /\ UNCHANGED <<machine, snapshot, current, held, opened, process, endpoint,
                 counters, entries, steady>>

AfdView ==
  \/ TakeSnapshot \/ Reference \/ Classify \/ OpenByPointer \/ Duplicate
  \/ Context \/ Local \/ Remote \/ Finish \/ Done

Init ==
  /\ table \in [Handles -> Sockets \union {None}]
  /\ addr \in [Sockets -> {Unbound} \union Addresses]
  /\ \A s \in Sockets : addr[s] # Unbound => \E h \in Handles : table[h] = s
  /\ changes = 0 /\ pc = "idle" /\ snapshot = {} /\ held = {} /\ opened = {}
  /\ process = {}
  /\ current = CHOOSE r \in Records : TRUE
  /\ endpoint = NothingRead /\ slots = [p \in {} |-> 0] /\ scanned = 0 /\ queries = 0
  /\ entries = <<>> /\ steady = {}

Next == AfdView \/ (pc \notin {"idle", "done"} /\ Machine)

\* The thread of the request is scheduled; the machine may do nothing.
Spec == Init /\ [][Next]_vars /\ WF_vars(AfdView)

-----------------------------------------------------------------------------
(* Properties.                                                             *)

\* Whichever of the eight ways a visit ends, its reference, its handle and that
\* of the process are given back before the next handle is looked at: no socket
\* the processes have closed is kept alive by the driver, and no process pinned.
NothingHeldBetweenVisits ==
  pc \in {"walk", "done"} => held = {} /\ opened = {} /\ process = {}

\* A side of a socket's address as an entry may have it: an IPv4 SOCKADDR
\* exactly, one of IPv6 not at all.  (What is read from a TDI address depends
\* on how the compiler lays out ARK_TDI_ADDRESS_IP.)
Exact(answered, written) ==
  answered.ok => \/ written.kind = "tli" /\ answered = Read(written.ip, written.port)
                 \/ written.kind = "tdi"

\* A process that keeps its socket as it was when the snapshot was taken is
\* answered with the address of that socket, as far as AFD told it, under the
\* low bits of its PID: the other processes cannot disturb its entry, nor can
\* an address of another family be taken for one of IPv4.
SteadySocketExact ==
  \A i \in 1..Len(entries) :
    LET r == entries[i].record IN
    r \in steady /\ Pid(r) = r.pid =>
      /\ entries[i].pid = r.pid
      /\ Exact(entries[i].address.local, addr[r.socket].local)
      /\ Exact(entries[i].address.remote, addr[r.socket].remote)

=============================================================================
