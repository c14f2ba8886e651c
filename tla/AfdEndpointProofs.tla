-------------------------- MODULE AfdEndpointProofs --------------------------
(***************************************************************************)
(* Proofs about module AfdEndpoint, for any processes, handle values,      *)
(* sockets, addresses and limits, and any number of changes meanwhile.     *)
(***************************************************************************)
EXTENDS AfdEndpoint, SequenceTheorems, TLAPS

Pairs == [local : SocketAddress, remote : SocketAddress]

-----------------------------------------------------------------------------
(* What is read from a buffer.                                             *)

\* ArkParseAfdAddressBuffer answers a SOCKADDR_IN exactly, and neither one of
\* IPv6 nor an empty buffer: the count of addresses tells them from a TDI info.
LEMMA ReadExactly ==
  ASSUME NEW a \in SocketAddress
  PROVE  Exact(ParseAfdAddressBuffer(Words(a), BufferWords), a)
<1>. DEFINE b == Words(a)
<1>0. PICK x \in Nat, y \in Nat : a.ip = <<x, y>>
  BY DEF SocketAddress
<1>1. a.kind \in Kinds /\ a.port \in Nat
  BY DEF SocketAddress
<1>2. CASE a.kind = "tli"
  <2>1. b = <<2, a.port>> \o <<x, y>> \o Zeros(12)
    BY <1>0, <1>2 DEF Words, AF_INET
  <2>2. /\ b[1] = 2 /\ b[2] = a.port /\ b[3] = x /\ b[4] = y
    BY <2>1, <1>1 DEF Zeros
  <2>3. ParseAfdAddressBuffer(b, BufferWords) = Read(<<b[3], b[4]>>, b[2])
    BY <2>2 DEF ParseAfdAddressBuffer, ParseSockaddrIn, BufferWords, SizeofSockaddrIn, AF_INET
  <2>4. QED
    BY <1>0, <1>2, <2>2, <2>3 DEF Exact
<1>3. CASE a.kind = "tli6" \/ a.kind = "none"
  <2>1. b[1] # 2 /\ b[3] = 0 /\ b[4] = 0
    <3>1. CASE a.kind = "tli6"
      <4>1. b = <<23, a.port, 0, 0>> \o <<x, y>> \o Zeros(10)
        BY <1>0, <3>1 DEF Words, AF_INET6
      <4>2. QED
        BY <4>1, <1>1 DEF Zeros
    <3>2. CASE a.kind = "none"
      BY <3>2 DEF Words, Zeros
    <3>3. QED
      BY <1>3, <3>1, <3>2
  <2>2. ~TdiFits(b, BufferWords)
    BY <2>1 DEF TdiFits, TAAddressCount
  <2>3. ParseAfdAddressBuffer(b, BufferWords) = NotRead
    BY <2>1, <2>2 DEF ParseAfdAddressBuffer, ParseTdi, BufferWords, AF_INET
  <2>4. QED
    BY <2>3 DEF Exact, NotRead
<1>4. CASE a.kind = "tdi"
  BY <1>4 DEF Exact
<1>5. QED
  BY <1>1, <1>2, <1>3, <1>4 DEF Kinds

-----------------------------------------------------------------------------
(* The invariant.                                                          *)

AfdType ==
  /\ table \in [Handles -> Sockets \union {None}]
  /\ addr \in [Sockets -> Pairs]
  /\ snapshot \subseteq Records /\ steady \subseteq Records
  /\ \E x, y : endpoint = [local |-> x, remote |-> y]
  /\ \E S : entries \in Seq(S)

Visit == {"name", "open", "duplicate", "context", "local", "remote", "finish"}
Asking == {"context", "local", "remote", "finish"}

\* A record that is steady has not changed: its handle is that of its socket.
SteadyHandles == \A r \in steady : table[<<r.pid, r.value>>] = r.socket

\* Nothing is referenced but the object of the record, and nothing opened
\* before AFD is asked; when the record is steady it is its socket that is.
Holding ==
  /\ pc \in Visit => current \in Records /\ held \subseteq {current.socket}
  /\ pc \notin Visit => held = {}
  /\ pc \notin Asking => opened = {}
  /\ pc \in Asking => opened \subseteq Sockets
  /\ pc = "duplicate" => Pid(current) \in Pids
  /\ pc # "duplicate" => process = {}

Undisturbed(r) == r \in steady /\ Pid(r) = r.pid

AsksRightSocket ==
  pc \in Asking /\ Undisturbed(current) => opened = {current.socket}

AnswerExact ==
  pc \in Visit /\ Undisturbed(current) =>
    /\ Exact(endpoint.local, addr[current.socket].local)
    /\ Exact(endpoint.remote, addr[current.socket].remote)

Fresh == pc = "idle" => entries = <<>>

AInv ==
  /\ Fresh
  /\ AfdType /\ SteadyHandles /\ Holding /\ AsksRightSocket /\ AnswerExact
  /\ SteadySocketExact

\* What holds of the records and entries stays when fewer are steady and none
\* of those has another handle or address.
LEMMA Steadier ==
  ASSUME AInv,
         table' \in [Handles -> Sockets \union {None}], addr' \in [Sockets -> Pairs],
         steady' \subseteq steady,
         \A r \in steady' : /\ table'[<<r.pid, r.value>>] = r.socket
                            /\ addr'[r.socket] = addr[r.socket],
         UNCHANGED <<pc, snapshot, current, held, opened, process, endpoint, entries>>
  PROVE  AInv'
<1>1. AfdType' /\ SteadyHandles'
  BY DEF AInv, AfdType, SteadyHandles
<1>2. Holding'
  BY DEF AInv, Holding, Pid
<1>3. AsksRightSocket' /\ AnswerExact'
  BY DEF AInv, AsksRightSocket, AnswerExact, Undisturbed, Pid
<1>4. SteadySocketExact'
  BY DEF AInv, SteadySocketExact, Pid
<1>5. QED
  BY <1>1, <1>2, <1>3, <1>4 DEF AInv, Fresh

LEMMA UnboundType == Unbound \in Pairs
BY DEF Unbound, Pairs, SocketAddress, NoAddress, Kinds

LEMMA CleanUpType ==
  ASSUME addr \in [Sockets -> Pairs], NEW s, NEW gone, CleanUp(s, gone)
  PROVE  /\ addr' \in [Sockets -> Pairs]
         /\ ~gone => addr' = addr
         /\ \A t \in Sockets : t # s => addr'[t] = addr[t]
BY UnboundType DEF CleanUp

\* Whatever the processes do to their handles and sockets.
LEMMA MachineAInv ==
  ASSUME AInv, Machine
  PROVE  AInv'
<1>1. table \in [Handles -> Sockets \union {None}] /\ addr \in [Sockets -> Pairs]
  BY DEF AInv, AfdType
<1>2. table' \in [Handles -> Sockets \union {None}] /\ addr' \in [Sockets -> Pairs]
  <2>1. PICK h \in Handles : \/ \E s \in Sockets : OpenSocket(h, s)
                             \/ \E g \in Handles : DuplicateHandle(h, g)
                             \/ Rename(h) \/ CloseHandle(h)
    BY DEF Machine
  <2>2. CASE \E s \in Sockets : OpenSocket(h, s)
    BY <1>1, <2>2 DEF OpenSocket
  <2>3. CASE \E g \in Handles : DuplicateHandle(h, g)
    BY <1>1, <2>3 DEF DuplicateHandle
  <2>4. CASE Rename(h)
    BY <1>1, <2>4, AfdLimits DEF Rename, Pairs
  <2>5. CASE CloseHandle(h)
    <3>1. addr' \in [Sockets -> Pairs]
      BY <1>1, <2>5, CleanUpType DEF CloseHandle
    <3>2. QED
      BY <1>1, <2>5, <3>1 DEF CloseHandle
  <2>6. QED
    BY <2>1, <2>2, <2>3, <2>4, <2>5
<1>3. QED
  BY <1>2, Steadier DEF Machine, Changed

LEMMA NothingExact ==
  ASSUME NEW a, NEW b
  PROVE  Exact(NothingRead.local, a) /\ Exact(NothingRead.remote, b)
BY DEF NothingRead, NotRead, Exact

LEMMA TakeSnapshotAInv ==
  ASSUME AInv, TakeSnapshot
  PROVE  AInv'
<1>1. AfdType' /\ SteadyHandles'
  BY DEF TakeSnapshot, machine, AInv, AfdType, SteadyHandles
<1>2. Holding' /\ AsksRightSocket' /\ AnswerExact' /\ Fresh'
  BY DEF TakeSnapshot, AInv, Holding, AsksRightSocket, AnswerExact, Fresh, Visit, Asking
<1>3. SteadySocketExact'
  BY DEF TakeSnapshot, AInv, Fresh, SteadySocketExact
<1>4. QED
  BY <1>1, <1>2, <1>3 DEF AInv

\* A step of a visit that neither asks nor ends it.
LEMMA VisitStep ==
  ASSUME AInv, UNCHANGED <<table, addr, current, endpoint, entries, steady, snapshot>>,
         pc \in Visit \ Asking, pc' # "idle",
         pc' \in Visit => held' = held,
         pc' \notin Visit => held' = {},
         pc' = "duplicate" => Pid(current) \in Pids,
         pc' # "duplicate" => process' = {},
         pc' \notin Asking => opened' = {},
         pc' \in Asking => /\ opened' \subseteq Sockets
                           /\ Undisturbed(current) => opened' = {current.socket}
  PROVE  AInv'
<1>1. AfdType' /\ SteadyHandles' /\ Fresh'
  BY DEF AInv, AfdType, SteadyHandles, Fresh
<1>2. Holding'
  BY DEF AInv, Holding, Visit, Asking, Pid
<1>3. AsksRightSocket' /\ AnswerExact'
  BY DEF AInv, AsksRightSocket, AnswerExact, Undisturbed, Pid
<1>4. SteadySocketExact'
  BY DEF AInv, SteadySocketExact, Pid
<1>5. QED
  BY <1>1, <1>2, <1>3, <1>4 DEF AInv

LEMMA PassOverGivesBack ==
  ASSUME AInv, pc \in Visit \ Asking, PassOver
  PROVE  pc' = "walk" /\ held' = {} /\ opened' = {}
BY DEF AInv, Holding, PassOver, Visit, Asking

LEMMA ReferenceAInv ==
  ASSUME AInv, Reference
  PROVE  AInv'
<1>1. PICK r \in snapshot :
        /\ snapshot' = snapshot \ {r} /\ current' = r
        /\ \/ UNCHANGED <<pc, held>>
           \/ held' = held \union {r.socket} /\ pc' = "name"
  BY DEF Reference
<1>2. r \in Records /\ pc = "walk" /\ held = {} /\ opened = {} /\ process' = {}
  BY DEF AInv, AfdType, Holding, Visit, Asking, Reference
<1>3. AfdType' /\ SteadyHandles' /\ Fresh'
  BY <1>1, <1>2 DEF AInv, AfdType, SteadyHandles, Fresh, Reference, machine, NothingRead
<1>4. Holding' /\ AsksRightSocket'
  BY <1>1, <1>2 DEF Reference, Holding, AsksRightSocket, Visit, Asking
<1>5. AnswerExact'
  BY NothingExact DEF Reference, AnswerExact
<1>6. SteadySocketExact'
  BY DEF AInv, Reference, machine, SteadySocketExact, Pid
<1>7. QED
  BY <1>3, <1>4, <1>5, <1>6 DEF AInv

LEMMA ClassifyAInv ==
  ASSUME AInv, Classify
  PROVE  AInv'
<1>1. CASE PassOver
  <2>1. pc # "duplicate" /\ process = {} /\ process' = process
    BY DEF Classify, AInv, Holding
  <2>2. QED
    BY <1>1, <2>1, PassOverGivesBack, VisitStep DEF Classify, machine, Visit, Asking
<1>2. CASE pc' = "open" /\ UNCHANGED <<held, opened>>
  BY <1>2, VisitStep DEF Classify, machine, Visit, Asking, AInv, Holding
<1>3. QED
  BY <1>1, <1>2 DEF Classify

LEMMA OpenByPointerAInv ==
  ASSUME AInv, OpenByPointer
  PROVE  AInv'
<1>0. pc = "open" /\ process = {}
  BY DEF OpenByPointer, AInv, Holding
<1>1. CASE Opened(current.socket) /\ UNCHANGED process
  <2>1. current.socket \in Sockets
    BY DEF OpenByPointer, AInv, Holding, Visit, Records
  <2>2. QED
    BY <1>0, <1>1, <2>1, VisitStep DEF OpenByPointer, Opened, machine, Visit, Asking
<1>2. CASE pc' = "duplicate" /\ UNCHANGED <<held, opened>>
  <2>1. held' = held /\ opened' = {} /\ Pid(current) \in Pids
    BY <1>2 DEF OpenByPointer, Opened, PassOver, AInv, Holding, Asking
  <2>2. QED
    BY <1>2, <2>1, VisitStep DEF OpenByPointer, machine, Visit, Asking
<1>3. CASE PassOver /\ UNCHANGED process
  BY <1>0, <1>3, PassOverGivesBack, VisitStep DEF OpenByPointer, machine, Visit, Asking
<1>4. QED
  BY <1>1, <1>2, <1>3 DEF OpenByPointer

\* A process that keeps its handle is asked about its own socket.
LEMMA DuplicateAInv ==
  ASSUME AInv, Duplicate
  PROVE  AInv'
<1>. DEFINE s == table[<<Pid(current), current.value>>]
<1>1. CASE s # None /\ Opened(s)
  <2>1. Undisturbed(current) => s = current.socket
    BY DEF AInv, SteadyHandles, Undisturbed
  <2>2. s \in Sockets
    <3>1. <<Pid(current), current.value>> \in Handles
      BY DEF AInv, Holding, Duplicate, Visit, Records, Handles
    <3>2. QED
      BY <1>1, <3>1 DEF AInv, AfdType
  <2>3. QED
    BY <1>1, <2>1, <2>2, VisitStep DEF Duplicate, Opened, machine, Visit, Asking
<1>2. CASE PassOver
  BY <1>2, PassOverGivesBack, VisitStep DEF Duplicate, machine, Visit, Asking
<1>3. QED
  BY <1>1, <1>2 DEF Duplicate

\* What is asked of the socket of a steady record is its address.
LEMMA AskAInv ==
  ASSUME AInv, Context \/ Local \/ Remote
  PROVE  AInv'
<1>0. /\ pc \in Asking /\ pc' \in Asking /\ pc \in Visit /\ pc' \in Visit
      /\ UNCHANGED <<table, addr, snapshot, current, held, opened, process, entries, steady>>
  BY DEF Context, Local, Remote, Asking, Visit, machine
<1>1. PICK x, y : endpoint = [local |-> x, remote |-> y]
  BY DEF AInv, AfdType
<1>2. ASSUME Undisturbed(current), NEW s \in opened
      PROVE  /\ Exact(Answer(s, "local"), addr[current.socket].local)
             /\ Exact(Answer(s, "remote"), addr[current.socket].remote)
  <2>1. s = current.socket /\ s \in Sockets
    BY <1>0, <1>2 DEF AInv, AsksRightSocket, Holding
  <2>2. addr[s].local \in SocketAddress /\ addr[s].remote \in SocketAddress
    BY <2>1 DEF AInv, AfdType, Pairs
  <2>3. QED
    BY <2>1, <2>2, ReadExactly DEF Answer
<1>3. /\ \E v, w : endpoint' = [local |-> v, remote |-> w]
      /\ Undisturbed(current) =>
           /\ Exact(endpoint'.local, addr[current.socket].local)
           /\ Exact(endpoint'.remote, addr[current.socket].remote)
  <2>0. Undisturbed(current) =>
           /\ Exact(x, addr[current.socket].local)
           /\ Exact(y, addr[current.socket].remote)
    BY <1>0, <1>1 DEF AInv, AnswerExact
  <2>1. CASE UNCHANGED endpoint
    BY <1>1, <2>0, <2>1
  <2>2. ASSUME NEW s \in opened, endpoint' = [endpoint EXCEPT !.local = Answer(s, "local")]
        PROVE  <1>3!:
    <3>1. endpoint' = [local |-> Answer(s, "local"), remote |-> y]
      BY <1>1, <2>2
    <3>2. QED
      BY <1>2, <2>0, <3>1
  <2>3. ASSUME NEW s \in opened, endpoint' = [endpoint EXCEPT !.remote = Answer(s, "remote")]
        PROVE  <1>3!:
    <3>1. endpoint' = [local |-> x, remote |-> Answer(s, "remote")]
      BY <1>1, <2>3
    <3>2. QED
      BY <1>2, <2>0, <3>1
  <2>4. QED
    BY <2>1, <2>2, <2>3 DEF Context, Local, Remote
<1>4. AfdType' /\ SteadyHandles' /\ Fresh'
  BY <1>0, <1>3 DEF AInv, AfdType, SteadyHandles, Fresh, Asking
<1>5. Holding' /\ AsksRightSocket'
  BY <1>0 DEF AInv, Holding, AsksRightSocket, Undisturbed, Pid, Asking
<1>6. AnswerExact'
  BY <1>0, <1>3 DEF AnswerExact, Undisturbed, Pid
<1>7. SteadySocketExact'
  BY <1>0 DEF AInv, SteadySocketExact, Pid
<1>8. QED
  BY <1>4, <1>5, <1>6, <1>7 DEF AInv

\* The end of a visit may be the last close of a socket, which no steady
\* record is of.
LEMMA FinishAInv ==
  ASSUME AInv, Finish
  PROVE  AInv'
<1>. DEFINE e == [pid |-> Pid(current), address |-> endpoint, record |-> current]
<1>0. /\ pc = "finish" /\ pc' = "walk" /\ held' = {} /\ opened' = {} /\ process' = {}
      /\ UNCHANGED <<table, snapshot, current, endpoint, steady>>
      /\ entries' = entries \/ entries' = Append(entries, e)
      /\ current \in Records /\ opened \subseteq Sockets
  BY DEF Finish, AInv, Holding, Visit, Asking
<1>1. PICK s \in opened : CleanUp(s, \A h \in Handles : table[h] # s)
  BY DEF Finish
<1>2. addr' \in [Sockets -> Pairs]
  BY <1>1, CleanUpType DEF AInv, AfdType
<1>3. ASSUME NEW r \in steady PROVE addr'[r.socket] = addr[r.socket]
  <2>1. /\ <<r.pid, r.value>> \in Handles /\ r.socket \in Sockets
        /\ table[<<r.pid, r.value>>] = r.socket
    BY DEF AInv, AfdType, SteadyHandles, Records, Handles
  <2>2. CASE r.socket = s
    BY <1>1, <2>1, <2>2 DEF CleanUp
  <2>3. CASE r.socket # s
    BY <1>1, <2>1, <2>3, CleanUpType DEF AInv, AfdType
  <2>4. QED
    BY <2>2, <2>3
<1>4. PICK S : entries \in Seq(S)
  BY DEF AInv, AfdType
<1>5. \E T : entries' \in Seq(T)
  <2>1. entries \in Seq(S \union {e})
    BY <1>4, SeqDef
  <2>2. Append(entries, e) \in Seq(S \union {e})
    BY <2>1
  <2>3. QED
    BY <1>0, <2>1, <2>2
<1>6. AfdType' /\ SteadyHandles' /\ Fresh'
  BY <1>0, <1>2, <1>5 DEF AInv, AfdType, SteadyHandles, Fresh
<1>7. Holding' /\ AsksRightSocket' /\ AnswerExact'
  BY <1>0 DEF Holding, AsksRightSocket, AnswerExact, Visit, Asking
<1>8. SteadySocketExact'
  <2>. SUFFICES ASSUME NEW i \in 1..Len(entries'),
                       entries'[i].record \in steady,
                       Pid(entries'[i].record) = entries'[i].record.pid
                PROVE  /\ entries'[i].pid = entries'[i].record.pid
                       /\ Exact(entries'[i].address.local, addr'[entries'[i].record.socket].local)
                       /\ Exact(entries'[i].address.remote, addr'[entries'[i].record.socket].remote)
    BY <1>0 DEF SteadySocketExact, Pid
  <2>1. addr'[entries'[i].record.socket] = addr[entries'[i].record.socket]
    BY <1>3
  <2>2. CASE i \in 1..Len(entries) /\ entries'[i] = entries[i]
    BY <2>1, <2>2 DEF AInv, SteadySocketExact
  <2>3. CASE entries'[i] = e
    BY <1>0, <2>1, <2>3 DEF AInv, AnswerExact, Undisturbed, Visit
  <2>4. QED
    BY <1>0, <1>4, <2>2, <2>3
<1>9. QED
  BY <1>6, <1>7, <1>8 DEF AInv

LEMMA InitAInv == Init => AInv
<1>. SUFFICES ASSUME Init PROVE AInv
  OBVIOUS
<1>1. addr \in [Sockets -> Pairs]
  BY UnboundType, AfdLimits DEF Init, Pairs
<1>2. AfdType
  <2>1. endpoint = [local |-> NotRead, remote |-> NotRead] /\ entries \in Seq({})
    BY DEF Init, NothingRead
  <2>2. QED
    BY <1>1, <2>1 DEF Init, AfdType
<1>3. QED
  BY <1>2 DEF Init, AInv, SteadyHandles, Holding, AsksRightSocket, AnswerExact, Fresh,
              SteadySocketExact, Visit, Asking

LEMMA AInvariance == Spec => []AInv
<1>1. AInv /\ [Next]_vars => AInv'
  <2>. SUFFICES ASSUME AInv, [Next]_vars PROVE AInv'
    OBVIOUS
  <2>1. CASE UNCHANGED vars
    <3>1. \A r \in steady : table[<<r.pid, r.value>>] = r.socket
      BY DEF AInv, SteadyHandles
    <3>2. QED
      BY <2>1, <3>1, Steadier DEF vars, machine, AInv, AfdType
  <2>2. CASE Done
    <3>1. AfdType' /\ SteadyHandles' /\ Fresh'
      BY <2>2 DEF Done, machine, AInv, AfdType, SteadyHandles, Fresh
    <3>2. Holding' /\ AsksRightSocket' /\ AnswerExact'
      BY <2>2 DEF Done, AInv, Holding, AsksRightSocket, AnswerExact, Visit, Asking
    <3>3. SteadySocketExact'
      BY <2>2 DEF Done, machine, AInv, SteadySocketExact, Pid
    <3>4. QED
      BY <3>1, <3>2, <3>3 DEF AInv
  <2>3. QED
    BY <2>1, <2>2, MachineAInv, TakeSnapshotAInv, ReferenceAInv, ClassifyAInv,
       OpenByPointerAInv, DuplicateAInv, AskAInv, FinishAInv DEF Next, AfdView
<1>2. QED
  BY InitAInv, <1>1, PTL DEF Spec

\* However a visit of a handle ends, its reference, its handle and that of the
\* process are given back: nothing is held between visits, or at the end.
THEOREM NothingHeldBetweenVisitsThm == Spec => []NothingHeldBetweenVisits
<1>1. AInv => NothingHeldBetweenVisits
  BY DEF AInv, Holding, NothingHeldBetweenVisits, Visit, Asking
<1>2. QED
  BY AInvariance, <1>1, PTL

\* The entry of a process that leaves its socket alone has the address of
\* that socket and its PID, whatever the other processes do meanwhile and by
\* whichever of its ways the driver got at the socket.
THEOREM SteadySocketExactThm == Spec => []SteadySocketExact
<1>1. AInv => SteadySocketExact
  BY DEF AInv
<1>2. QED
  BY AInvariance, <1>1, PTL

=============================================================================
