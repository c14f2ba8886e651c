------------------------------ MODULE PortProofs ------------------------------
(***************************************************************************)
(* Proofs about modules PortViews and PortDetect, for any endpoints,       *)
(* holders and limits.                                                     *)
(***************************************************************************)
EXTENDS PortDetect, FiniteSetTheorems, SequenceTheorems, TLAPS

-----------------------------------------------------------------------------
(* Nothing is leaked.                                                      *)

\* What the invariant needs besides itself: which blocks there are.
PoolInv == pool \subseteq {"name", "slots", "handles"} /\ NoPoolLeak

\* Whichever turn of the snapshot fails, for any number of them, the pool blocks
\* are given back before NSI is asked.
THEOREM NoPoolLeakThm == PortSpec => []NoPoolLeak
<1>1. PortInit => PoolInv
  BY DEF PortInit, PoolInv, NoPoolLeak
<1>2. PoolInv /\ [PortNext]_portVars => PoolInv'
  <2>. SUFFICES ASSUME PoolInv, [PortNext]_portVars PROVE PoolInv'
    OBVIOUS
  <2>. USE DEF PoolInv, NoPoolLeak
  <2>1. CASE UNCHANGED <<pc, pool>>
    BY <2>1
  <2>2. CASE BeginPortQuery
    BY <2>2 DEF BeginPortQuery, ViewFails
  <2>3. CASE SnapshotStep
    <3>1. CASE SnapshotBuffer
      BY <3>1 DEF SnapshotBuffer, ViewFails
    <3>2. CASE pc = "reading" /\ (SnapshotGrows \/ SnapshotTaken)
      BY <3>2 DEF SnapshotGrows, SnapshotTaken
    <3>3. CASE SnapshotFails
      BY <3>3 DEF SnapshotFails, ViewFails
    <3>4. QED
      BY <2>3, <3>1, <3>2, <3>3 DEF SnapshotStep
  <2>4. CASE AfdStep \/ AfdDone
    BY <2>4 DEF AfdStep, AfdDone
  <2>5. CASE ResolveNsi
    BY <2>5 DEF ResolveNsi, Return
  <2>6. CASE TcpView
    BY <2>6 DEF TcpView
  <2>7. CASE UdpView
    BY <2>7 DEF UdpView, Return
  <2>8. CASE Network
    BY <2>1, <2>8 DEF Network, driverVars
  <2>9. QED
    BY <2>1, <2>2, <2>3, <2>4, <2>5, <2>6, <2>7, <2>8
       DEF PortNext, PortQuery, portVars, driverVars
<1>3. PoolInv => NoPoolLeak
  BY DEF PoolInv
<1>4. QED
  BY <1>1, <1>2, <1>3, PTL DEF PortSpec

-----------------------------------------------------------------------------
(* A failure loses nothing.                                                *)

Answer(E, N) ==
  [status : {"none", "success", "failed"}, entries : E, tcp : N, udp : N,
   afdPids : N, afdHandles : N]

\* What there is to lose: before View B is over its entries have a slot, after
\* that they are counted by AfdCount and by the views that succeeded.
FoundInv ==
  /\ \E E, N : answer \in Answer(E, N)
  /\ IsFiniteSet(slots)
  /\ pc # "returned" => answer.status = "none"
  /\ pc \in {"snapshot", "reading"} => answer.entries = <<>>
  /\ pc = "afd" /\ answer.entries # <<>> => slots # {}
  /\ pc = "nsi" /\ answer.entries # <<>> => "afd" \in succeeded /\ answer.afdPids > 0
  /\ pc \in {"tcp", "udp"} /\ answer.entries # <<>> => succeeded # {}
  /\ FailureLosesNothing

\* A change of some fields of the answer.
LEMMA AnswerStep ==
  ASSUME \E E, N : answer \in Answer(E, N),
         NEW st \in {"none", "success", "failed"}, NEW en, NEW t, NEW u, NEW p, NEW h,
         answer' = [status |-> st, entries |-> en, tcp |-> t, udp |-> u,
                    afdPids |-> p, afdHandles |-> h]
  PROVE  /\ \E E, N : answer' \in Answer(E, N)
         /\ answer'.status = st /\ answer'.entries = en /\ answer'.afdPids = p
<1>1. answer' \in Answer({en}, {t, u, p, h})
  BY DEF Answer
<1>2. QED
  BY <1>1

\* An answer is what its fields are.
LEMMA AnswerFields ==
  ASSUME \E E, N : answer \in Answer(E, N)
  PROVE  /\ answer = [status |-> answer.status, entries |-> answer.entries,
                      tcp |-> answer.tcp, udp |-> answer.udp,
                      afdPids |-> answer.afdPids, afdHandles |-> answer.afdHandles]
         /\ answer.status \in {"none", "success", "failed"}
BY DEF Answer

LEMMA BeginFoundInv == FoundInv /\ BeginPortQuery => FoundInv'
<1>. SUFFICES ASSUME BeginPortQuery, FoundInv PROVE FoundInv'
  OBVIOUS
<1>1. /\ answer' = NoAnswer /\ slots' = {} /\ pc' \in {"snapshot", "nsi"}
  BY DEF BeginPortQuery, ViewFails
<1>2. /\ \E E, N : answer' \in Answer(E, N)
      /\ answer'.status = "none" /\ answer'.entries = <<>>
  BY <1>1, AnswerStep DEF NoAnswer, FoundInv
<1>3. QED
  BY <1>1, <1>2, FS_EmptySet DEF FoundInv, FailureLosesNothing

\* View B: the entry of a handle comes with the slot of its PID.
LEMMA AfdFoundInv ==
  ASSUME FoundInv, AfdStep
  PROVE  FoundInv'
<1>1. CASE UNCHANGED <<slots, queries, answer>>
  BY <1>1 DEF AfdStep, FoundInv, FailureLosesNothing
<1>2. ASSUME NEW pid, AfdHandle(pid) PROVE FoundInv'
  <2>1. slots' # {} /\ IsFiniteSet(slots')
    <3>1. slots' = IF Cardinality(slots) < MaxSlots THEN slots \union {pid} ELSE slots
      BY <1>2 DEF AfdHandle, FindOrAddSlot
    <3>2. IsFiniteSet(slots) /\ IsFiniteSet(slots \union {pid})
      BY FS_AddElement DEF FoundInv
    <3>3. CASE Cardinality(slots) < MaxSlots
      BY <3>1, <3>2, <3>3
    <3>4. CASE ~(Cardinality(slots) < MaxSlots)
      <4>1. Cardinality(slots) # 0
        BY <3>4, PortLimits
      <4>2. slots # {}
        BY <4>1, FS_EmptySet
      <4>3. QED
        BY <3>1, <3>2, <3>4, <4>2
    <3>5. QED
      BY <3>3, <3>4
  <2>2. PICK en, h :
          answer' = [answer EXCEPT !.afdHandles = h, !.entries = en]
    <3>1. CASE answer' = [answer EXCEPT !.afdHandles = @ + 1]
      <4>1. answer' = [answer EXCEPT !.afdHandles = answer.afdHandles + 1,
                                     !.entries = answer.entries]
        BY <3>1, AnswerFields DEF FoundInv
      <4>2. QED
        BY <4>1
    <3>2. CASE \E entry \in AfdEntries(pid) :
                 answer' = [answer EXCEPT !.afdHandles = @ + 1,
                                          !.entries = Append1(@, entry)]
      BY <3>2
    <3>3. QED
      BY <1>2, <3>1, <3>2 DEF AfdHandle
  <2>3. answer' = [status |-> answer.status, entries |-> en, tcp |-> answer.tcp,
                   udp |-> answer.udp, afdPids |-> answer.afdPids, afdHandles |-> h]
    BY <2>2, AnswerFields DEF FoundInv
  <2>4. /\ \E E, N : answer' \in Answer(E, N)
        /\ answer'.status = answer.status
    BY <2>3, AnswerStep, AnswerFields DEF FoundInv
  <2>5. QED
    BY <2>1, <2>4 DEF AfdStep, FoundInv, FailureLosesNothing
<1>3. QED
  BY <1>1, <1>2 DEF AfdStep

LEMMA AfdDoneFoundInv ==
  ASSUME FoundInv, AfdDone
  PROVE  FoundInv'
<1>1. answer' = [status |-> answer.status, entries |-> answer.entries, tcp |-> answer.tcp,
                 udp |-> answer.udp, afdPids |-> Cardinality(slots),
                 afdHandles |-> answer.afdHandles]
  BY AnswerFields DEF AfdDone, FoundInv
<1>2. /\ \E E, N : answer' \in Answer(E, N)
      /\ answer'.status = answer.status /\ answer'.entries = answer.entries
      /\ answer'.afdPids = Cardinality(slots)
  BY <1>1, AnswerStep, AnswerFields DEF FoundInv
<1>3. slots # {} => Cardinality(slots) > 0
  <2>1. Cardinality(slots) \in Nat /\ (Cardinality(slots) = 0 <=> slots = {})
    BY FS_CardinalityType, FS_EmptySet DEF FoundInv
  <2>2. QED
    BY <2>1
<1>4. QED
  BY <1>2, <1>3 DEF AfdDone, FoundInv, FailureLosesNothing

\* Without NSI, View B alone decides.
LEMMA ResolveFoundInv ==
  ASSUME FoundInv, ResolveNsi
  PROVE  FoundInv'
<1>1. CASE pc' = "tcp" /\ UNCHANGED answer
  BY <1>1 DEF ResolveNsi, FoundInv, FailureLosesNothing
<1>2. CASE Return(IF "afd" \in succeeded /\ answer.afdPids > 0 THEN "success" ELSE "failed")
  <2>. DEFINE st == IF "afd" \in succeeded /\ answer.afdPids > 0 THEN "success" ELSE "failed"
  <2>1. answer' = [status |-> st, entries |-> answer.entries, tcp |-> answer.tcp,
                   udp |-> answer.udp, afdPids |-> answer.afdPids,
                   afdHandles |-> answer.afdHandles]
    BY <1>2, AnswerFields DEF Return, FoundInv
  <2>2. /\ \E E, N : answer' \in Answer(E, N)
        /\ answer'.status = st /\ answer'.entries = answer.entries
    BY <2>1, AnswerStep DEF FoundInv
  <2>3. QED
    BY <1>2, <2>2 DEF ResolveNsi, Return, FoundInv, FailureLosesNothing
<1>3. QED
  BY <1>1, <1>2 DEF ResolveNsi

LEMMA TcpFoundInv ==
  ASSUME FoundInv, TcpView
  PROVE  FoundInv'
<1>1. CASE UNCHANGED <<answer, succeeded>>
  BY <1>1 DEF TcpView, FoundInv, FailureLosesNothing
<1>2. CASE /\ \E rows \in TablesOf("tcp") :
                answer' = [answer EXCEPT !.entries = AppendAll(@, rows), !.tcp = Len(rows)]
           /\ succeeded' = succeeded \union {"tcp"}
  <2>1. PICK en, n : answer' = [answer EXCEPT !.entries = en, !.tcp = n]
    BY <1>2
  <2>2. answer' = [status |-> answer.status, entries |-> en, tcp |-> n, udp |-> answer.udp,
                   afdPids |-> answer.afdPids, afdHandles |-> answer.afdHandles]
    BY <2>1, AnswerFields DEF FoundInv
  <2>3. (\E E, N : answer' \in Answer(E, N)) /\ answer'.status = answer.status
    BY <2>2, AnswerStep, AnswerFields DEF FoundInv
  <2>4. QED
    BY <1>2, <2>3 DEF TcpView, FoundInv, FailureLosesNothing
<1>3. QED
  BY <1>1, <1>2 DEF TcpView

LEMMA UdpFoundInv ==
  ASSUME FoundInv, UdpView
  PROVE  FoundInv'
<1>1. CASE /\ Return(IF succeeded = {} THEN "failed" ELSE "success")
           /\ UNCHANGED succeeded
  <2>. DEFINE st == IF succeeded = {} THEN "failed" ELSE "success"
  <2>1. answer' = [status |-> st, entries |-> answer.entries, tcp |-> answer.tcp,
                   udp |-> answer.udp, afdPids |-> answer.afdPids,
                   afdHandles |-> answer.afdHandles]
    BY <1>1, AnswerFields DEF Return, FoundInv
  <2>2. /\ \E E, N : answer' \in Answer(E, N)
        /\ answer'.status = st /\ answer'.entries = answer.entries
    BY <2>1, AnswerStep DEF FoundInv
  <2>3. QED
    BY <1>1, <2>2 DEF UdpView, Return, FoundInv, FailureLosesNothing
<1>2. CASE /\ \E rows \in TablesOf("udp") :
                answer' = [answer EXCEPT !.entries = AppendAll(@, rows), !.udp = Len(rows),
                                         !.status = "success"]
           /\ pc' = "returned"
  <2>1. PICK en, n : answer' = [answer EXCEPT !.entries = en, !.udp = n, !.status = "success"]
    BY <1>2
  <2>2. answer' = [status |-> "success", entries |-> en, tcp |-> answer.tcp, udp |-> n,
                   afdPids |-> answer.afdPids, afdHandles |-> answer.afdHandles]
    BY <2>1, AnswerFields DEF FoundInv
  <2>3. (\E E, N : answer' \in Answer(E, N)) /\ answer'.status = "success"
    BY <2>2, AnswerStep DEF FoundInv
  <2>4. QED
    BY <1>2, <2>3 DEF UdpView, FoundInv, FailureLosesNothing
<1>3. QED
  BY <1>1, <1>2 DEF UdpView

LEMMA FoundInit == PortInit => FoundInv
<1>. SUFFICES ASSUME PortInit PROVE FoundInv
  OBVIOUS
<1>1. NoAnswer \in Answer({<<>>}, {0}) /\ NoAnswer.status = "none"
  BY DEF NoAnswer, Answer
<1>2. QED
  BY <1>1, FS_EmptySet DEF PortInit, FoundInv, FailureLosesNothing

LEMMA FoundStep == FoundInv /\ [PortNext]_portVars => FoundInv'
<1>. SUFFICES ASSUME FoundInv, [PortNext]_portVars PROVE FoundInv'
  OBVIOUS
<1>1. CASE UNCHANGED driverVars
  BY <1>1 DEF driverVars, FoundInv, FailureLosesNothing
<1>2. CASE SnapshotStep
  BY <1>2 DEF SnapshotStep, SnapshotBuffer, SnapshotGrows, SnapshotTaken, SnapshotFails,
              ViewFails, FoundInv,
              FailureLosesNothing
<1>3. QED
  BY <1>1, <1>2, BeginFoundInv, AfdFoundInv, AfdDoneFoundInv, ResolveFoundInv, TcpFoundInv,
     UdpFoundInv DEF PortNext, PortQuery, portVars, Network

\* A query that fails has found nothing, whichever of its views failed and
\* however many PIDs and rows there were.
THEOREM FailureLosesNothingThm == PortSpec => []FailureLosesNothing
<1>1. FoundInv => FailureLosesNothing
  BY DEF FoundInv
<1>2. QED
  BY <1>1, FoundInit, FoundStep, PTL DEF PortSpec

-----------------------------------------------------------------------------
(* The counts and the tables.                                              *)

Ipv4Of(ends, proto) == {e \in Ipv4(ends) : EndpointOf[e].proto = proto}

\* The array has the entries of View B, then those of the TCP table, then those
\* of the UDP table, each as far as there was room.
Parts(a, n, m) ==
  /\ n <= m /\ m <= Len(a.entries) /\ Len(a.entries) <= MaxEntries
  /\ \A i \in 1..Len(a.entries) :
       a.entries[i].view = IF i <= n THEN "afd" ELSE IF i <= m THEN "tcp" ELSE "udp"
  /\ n <= a.afdHandles
  /\ m - n = Smaller(a.tcp, MaxEntries - n)
  /\ Len(a.entries) - m = Smaller(a.udp, MaxEntries - m)

\* The endpoints of a table that are open from the beginning are in it.
Steady(a, ends, first, last) ==
  \A e \in ends : \E i \in first..last : a.entries[i] = RowOf(e)

SteadyParts(a, n, m) ==
  /\ "tcp" \in succeeded /\ m - n = a.tcp => Steady(a, Ipv4Of(since, "tcp"), n + 1, m)
  /\ "udp" \in succeeded /\ Len(a.entries) - m = a.udp =>
       Steady(a, Ipv4Of(since, "udp"), m + 1, Len(a.entries))

TableInv ==
  /\ open \subseteq Ends /\ since \subseteq open
  /\ snapshot \subseteq Holders \X HandleValues
  /\ answer \in Answer(Seq(Entries), Nat)
  /\ IsFiniteSet(slots)
  /\ pc \in {"idle", "snapshot", "reading", "afd", "nsi", "tcp"} => answer.tcp = 0 /\ "tcp" \notin succeeded
  /\ pc \in {"idle", "snapshot", "reading", "afd", "nsi", "tcp", "udp"} =>
       answer.udp = 0 /\ "udp" \notin succeeded
  /\ \E n, m \in 0..MaxEntries : Parts(answer, n, m) /\ SteadyParts(answer, n, m)

\* AppendAll: what was there stays, and as many rows as there is room for follow.
LEMMA AppendAllFacts ==
  ASSUME NEW s \in Seq(Entries), NEW rows \in Seq(Entries), Len(s) <= MaxEntries
  PROVE  LET k == Smaller(Len(rows), MaxEntries - Len(s))  r == AppendAll(s, rows)
         IN  /\ r \in Seq(Entries) /\ k \in Nat /\ Len(r) = Len(s) + k
             /\ Len(r) <= MaxEntries
             /\ \A i \in 1..Len(s) : r[i] = s[i]
             /\ \A i \in 1..k : r[Len(s) + i] = rows[i]
<1>. DEFINE k == Smaller(Len(rows), MaxEntries - Len(s))
            t == SubSeq(rows, 1, k)
            r == AppendAll(s, rows)
<1>1. /\ k \in Nat /\ k <= Len(rows) /\ k <= MaxEntries - Len(s)
      /\ Len(s) \in Nat /\ Len(rows) \in Nat /\ MaxEntries \in Nat
  BY PortLimits DEF Smaller
<1>2. t \in Seq(Entries) /\ Len(t) = k /\ \A i \in 1..k : t[i] = rows[i]
  <2>. HIDE DEF k
  <2>1. \A i \in 1..k : rows[i] \in Entries
    BY <1>1
  <2>2. QED
    BY <1>1, <2>1
<1>3. r = s \o t
  BY DEF AppendAll
<1>. HIDE DEF k, t, r
<1>4. /\ r \in Seq(Entries) /\ Len(r) = Len(s) + Len(t)
      /\ \A i \in 1..(Len(s) + Len(t)) :
           r[i] = IF i <= Len(s) THEN s[i] ELSE t[i - Len(s)]
  BY <1>2, <1>3, ConcatProperties
<1>5. \A i \in 1..Len(s) : r[i] = s[i]
  BY <1>1, <1>2, <1>4
<1>6. \A i \in 1..k : r[Len(s) + i] = t[i]
  <2>. TAKE i \in 1..k
  <2>1. Len(s) + i \in 1..(Len(s) + Len(t)) /\ ~(Len(s) + i <= Len(s)) /\ Len(s) + i - Len(s) = i
    BY <1>1, <1>2
  <2>2. QED
    BY <1>4, <2>1
<1>7. QED
  BY <1>1, <1>2, <1>4, <1>5, <1>6 DEF k, r

\* What a row is.
LEMMA RowIsEntry ==
  ASSUME NEW e \in Ends
  PROVE  /\ RowOf(e) \in Entries
         /\ RowOf(e).view = EndpointOf[e].proto /\ RowOf(e).proto = EndpointOf[e].proto
<1>1. EndpointOf[e].proto \in {"tcp", "udp"}
  BY PortEndpoints
<1>2. /\ {EndpointOf[e].laddr, EndpointOf[e].raddr, AnyAddress} \subseteq Addresses
      /\ {EndpointOf[e].lport, EndpointOf[e].rport, 0} \subseteq PortNumbers
      /\ EndpointOf[e].pid \in OwningPids
  BY DEF Addresses, PortNumbers, OwningPids
<1>3. EndpointOf[e].proto \in Views /\ EndpointOf[e].proto \in Protocols
  BY <1>1 DEF Views, Protocols
<1>4. QED
  BY <1>1, <1>2, <1>3 DEF RowOf, EntryOf, LocalOf, RemoteOf, NoSide, Entries

\* A table: all its rows are of its protocol, and every open endpoint has one.
LEMMA RowsFacts ==
  ASSUME open \subseteq Ends, NEW proto \in {"tcp", "udp"},
         NEW rows \in TablesOf(proto)
  PROVE  /\ rows \in Seq(Entries)
         /\ \A i \in 1..Len(rows) : rows[i].view = proto
         /\ Steady([entries |-> rows], Ipv4Of(open, proto), 1, Len(rows))
<1>. DEFINE S == Ipv4Of(open, proto)
            n == Cardinality(S)
<1>1. S \subseteq Ends
  BY DEF Ipv4Of, Ipv4
<1>2. IsFiniteSet(S) /\ n \in Nat
  BY <1>1, PortEndpoints, FS_Subset, FS_CardinalityType
<1>3. PICK ends \in SetToSeqs(S) : rows = [i \in 1..Len(ends) |-> RowOf(ends[i])]
  BY DEF TablesOf, Ipv4Of
<1>4. ends \in [1..n -> S] /\ \A i, j \in 1..n : i # j => ends[i] # ends[j]
  BY DEF SetToSeqs
<1>5. ends \in Injection(1..n, S)
  BY <1>4 DEF Injection, IsInjective
<1>6. Cardinality(1..n) = n
  <2>1. Cardinality(1..n) = IF 1 > n THEN 0 ELSE n - 1 + 1
    BY <1>2, FS_Interval
  <2>2. QED
    BY <1>2, <2>1
<1>7. ends \in Surjection(1..n, S)
  BY <1>2, <1>5, <1>6, FS_Injection
<1>8. Len(ends) = n
  BY <1>2, <1>4
<1>9. \A e \in S : RowOf(e) \in Entries /\ RowOf(e).view = proto
  BY <1>1, RowIsEntry DEF Ipv4Of
<1>10. rows = [i \in 1..n |-> RowOf(ends[i])]
  BY <1>3, <1>8
<1>11. \A i \in 1..n : rows[i] \in Entries /\ rows[i].view = proto
  BY <1>4, <1>9, <1>10
<1>12. \A e \in S : \E i \in 1..n : rows[i] = RowOf(e)
  BY <1>7, <1>10 DEF Surjection
<1>. HIDE DEF n
<1>13. rows \in Seq(Entries) /\ Len(rows) = n
  BY <1>2, <1>10, <1>11
<1>14. QED
  BY <1>11, <1>12, <1>13 DEF Steady

LEMMA AfdEntryFacts ==
  ASSUME open \subseteq Ends, NEW pid \in 0..(PidModulus - 1), NEW entry \in AfdEntries(pid)
  PROVE  entry \in Entries /\ entry.view = "afd"
<1>1. PICK ef \in {p \in Ipv4(open) \X Ipv4(Ends) : SameSocket(p[1], p[2])},
           known \in BOOLEAN, has \in (SUBSET {"local", "remote"}) \ {{}} :
        entry = EntryOf("afd", IF known THEN EndpointOf[ef[1]].proto ELSE "unknown", pid,
                        IF "local" \in has THEN LocalOf(ef[1]) ELSE NoSide,
                        IF "remote" \in has THEN RemoteOf(ef[2]) ELSE NoSide)
  BY DEF AfdEntries
<1>2. ef[1] \in Ends /\ ef[2] \in Ends
  BY DEF Ipv4
<1>. DEFINE local == IF "local" \in has THEN LocalOf(ef[1]) ELSE NoSide
            remote == IF "remote" \in has THEN RemoteOf(ef[2]) ELSE NoSide
            proto == IF known THEN EndpointOf[ef[1]].proto ELSE "unknown"
<1>3. local.addr \in Addresses /\ local.port \in PortNumbers
  BY <1>2 DEF LocalOf, NoSide, Addresses, PortNumbers
<1>4. remote.addr \in Addresses /\ remote.port \in PortNumbers
  BY <1>2 DEF RemoteOf, NoSide, Addresses, PortNumbers
<1>5. proto \in Protocols
  BY <1>2, PortEndpoints DEF Protocols
<1>6. pid \in OwningPids
  BY DEF OwningPids
<1>. HIDE DEF local, remote, proto
<1>7. entry = EntryOf("afd", proto, pid, local, remote)
  BY <1>1 DEF local, remote, proto
<1>8. QED
  BY <1>3, <1>4, <1>5, <1>6, <1>7 DEF EntryOf, Entries, Views

LEMMA BeginTableInv == TableInv /\ BeginPortQuery => TableInv'
<1>. SUFFICES ASSUME TableInv, BeginPortQuery PROVE TableInv'
  OBVIOUS
<1>1. /\ answer' = NoAnswer /\ succeeded' = {} /\ slots' = {} /\ since' = open
      /\ UNCHANGED <<open, snapshot>>
  BY DEF BeginPortQuery
<1>2. /\ NoAnswer.entries = <<>> /\ NoAnswer.tcp = 0 /\ NoAnswer.udp = 0
      /\ NoAnswer.afdHandles = 0 /\ NoAnswer \in Answer(Seq(Entries), Nat)
  BY DEF NoAnswer, Answer
<1>3. Parts(NoAnswer, 0, 0) /\ 0 \in 0..MaxEntries
  BY <1>2, PortLimits DEF Parts, Smaller
<1>4. SteadyParts(answer, 0, 0)'
  BY <1>1 DEF SteadyParts
<1>5. QED
  BY <1>1, <1>2, <1>3, <1>4, FS_EmptySet DEF TableInv

\* While the tables are still to come, all there is are entries of View B.
LEMMA OnlyAfd ==
  ASSUME TableInv, answer.tcp = 0, answer.udp = 0
  PROVE  /\ answer.entries \in Seq(Entries) /\ Len(answer.entries) \in 0..MaxEntries
         /\ \A i \in 1..Len(answer.entries) : answer.entries[i].view = "afd"
         /\ Len(answer.entries) <= answer.afdHandles /\ answer.afdHandles \in Nat
<1>1. PICK n, m \in 0..MaxEntries : Parts(answer, n, m)
  BY DEF TableInv
<1>2. answer.entries \in Seq(Entries) /\ answer.afdHandles \in Nat
  BY DEF TableInv, Answer
<1>3. Len(answer.entries) \in Nat
  BY <1>2
<1>4. Smaller(0, MaxEntries - n) = 0 /\ Smaller(0, MaxEntries - m) = 0
  BY PortLimits DEF Smaller
<1>5. n = m /\ m = Len(answer.entries)
  BY <1>1, <1>3, <1>4 DEF Parts
<1>6. QED
  BY <1>1, <1>2, <1>3, <1>5 DEF Parts

\* An answer with entries of View B only.
LEMMA AfdParts ==
  ASSUME NEW a \in Answer(Seq(Entries), Nat), a.tcp = 0, a.udp = 0,
         Len(a.entries) <= MaxEntries, Len(a.entries) <= a.afdHandles,
         \A i \in 1..Len(a.entries) : a.entries[i].view = "afd",
         "tcp" \notin succeeded, "udp" \notin succeeded
  PROVE  \E n, m \in 0..MaxEntries : Parts(a, n, m) /\ SteadyParts(a, n, m)
<1>. DEFINE n == Len(a.entries)
<1>1. n \in Nat /\ n \in 0..MaxEntries
  <2>1. a.entries \in Seq(Entries)
    BY DEF Answer
  <2>2. n \in Nat
    BY <2>1
  <2>3. QED
    BY <2>2, PortLimits
<1>2. Smaller(0, MaxEntries - n) = 0
  BY <1>1, PortLimits DEF Smaller
<1>3. Parts(a, n, n)
  BY <1>1, <1>2 DEF Parts
<1>4. SteadyParts(a, n, n)
  BY DEF SteadyParts
<1>5. QED
  BY <1>1, <1>3, <1>4

LEMMA AfdStepTableInv == TableInv /\ AfdStep => TableInv'
<1>. SUFFICES ASSUME TableInv, AfdStep PROVE TableInv'
  OBVIOUS
<1>1. PICK h \in snapshot :
        /\ snapshot' = snapshot \ {h}
        /\ \/ UNCHANGED <<slots, queries, answer>>
           \/ h[1] % PidModulus # 0 /\ AfdHandle(h[1] % PidModulus)
  BY DEF AfdStep
<1>2. pc = "afd" /\ UNCHANGED <<open, pc, succeeded, since>>
  BY DEF AfdStep
<1>3. snapshot' \subseteq Holders \X HandleValues
  BY <1>1 DEF TableInv
<1>4. CASE UNCHANGED <<slots, queries, answer>>
  BY <1>2, <1>3, <1>4 DEF TableInv, SteadyParts
<1>5. CASE AfdHandle(h[1] % PidModulus)
  <2>. DEFINE pid == h[1] % PidModulus
  <2>1. pid \in 0..(PidModulus - 1)
    <3>1. h[1] \in Nat
      BY PortEndpoints DEF TableInv
    <3>2. PidModulus \in Nat \ {0}
      BY PortLimits
    <3>3. QED
      BY <3>1, <3>2
  <2>2. answer.tcp = 0 /\ answer.udp = 0 /\ "tcp" \notin succeeded /\ "udp" \notin succeeded
    BY <1>2 DEF TableInv
  <2>3. /\ answer.entries \in Seq(Entries) /\ Len(answer.entries) \in 0..MaxEntries
        /\ \A i \in 1..Len(answer.entries) : answer.entries[i].view = "afd"
        /\ Len(answer.entries) <= answer.afdHandles /\ answer.afdHandles \in Nat
    BY <2>2, OnlyAfd
  <2>4. IsFiniteSet(slots')
    BY <1>5, FS_AddElement DEF AfdHandle, FindOrAddSlot, TableInv
  <2>5. PICK en : /\ answer' = [answer EXCEPT !.afdHandles = @ + 1, !.entries = en]
                  /\ en \in Seq(Entries) /\ Len(en) <= MaxEntries
                  /\ Len(en) <= Len(answer.entries) + 1
                  /\ \A i \in 1..Len(en) : en[i].view = "afd"
    <3>1. CASE answer' = [answer EXCEPT !.afdHandles = @ + 1]
      <4>1. answer' = [answer EXCEPT !.afdHandles = @ + 1, !.entries = answer.entries]
        BY <3>1 DEF TableInv, Answer
      <4>2. Len(answer.entries) <= MaxEntries /\ Len(answer.entries) <= Len(answer.entries) + 1
        BY <2>3
      <4>3. QED
        BY <2>3, <4>1, <4>2
    <3>2. ASSUME NEW entry \in AfdEntries(pid), ~(Len(answer.entries) >= MaxEntries),
                 answer' = [answer EXCEPT !.afdHandles = @ + 1, !.entries = Append1(@, entry)]
          PROVE  \E en : /\ answer' = [answer EXCEPT !.afdHandles = @ + 1, !.entries = en]
                         /\ en \in Seq(Entries) /\ Len(en) <= MaxEntries
                         /\ Len(en) <= Len(answer.entries) + 1
                         /\ \A i \in 1..Len(en) : en[i].view = "afd"
      <4>. DEFINE en == Append(answer.entries, entry)
      <4>1. answer' = [answer EXCEPT !.afdHandles = @ + 1, !.entries = en]
        BY <3>2 DEF Append1
      <4>2. entry \in Entries /\ entry.view = "afd"
        BY <2>1, AfdEntryFacts DEF TableInv
      <4>3. en \in Seq(Entries) /\ Len(en) = Len(answer.entries) + 1
        BY <2>3, <4>2
      <4>4. \A i \in 1..Len(en) :
              en[i] = IF i <= Len(answer.entries) THEN answer.entries[i] ELSE entry
        BY <2>3, <4>2
      <4>5. \A i \in 1..Len(en) : en[i].view = "afd"
        BY <2>3, <4>2, <4>3, <4>4
      <4>6. Len(en) <= MaxEntries
        BY <2>3, <3>2, <4>3, PortLimits
      <4>7. Len(en) <= Len(answer.entries) + 1
        BY <2>3, <4>3
      <4>. HIDE DEF en
      <4>8. QED
        BY <4>1, <4>3, <4>5, <4>6, <4>7
    <3>3. QED
      BY <1>5, <3>1, <3>2 DEF AfdHandle
  <2>6. /\ answer' \in Answer(Seq(Entries), Nat)
        /\ answer'.entries = en /\ answer'.tcp = 0 /\ answer'.udp = 0
        /\ answer'.afdHandles = answer.afdHandles + 1
    <3>1. answer.afdHandles + 1 \in Nat
      BY <2>3
    <3>2. QED
      BY <2>2, <2>5, <3>1 DEF TableInv, Answer
  <2>7. Len(en) <= answer.afdHandles + 1
    BY <2>3, <2>5
  <2>8. \E n, m \in 0..MaxEntries : Parts(answer', n, m) /\ SteadyParts(answer, n, m)'
    <3>1. succeeded' = succeeded /\ since' = since
      BY <1>2
    <3>2. \E n, m \in 0..MaxEntries : Parts(answer', n, m) /\ SteadyParts(answer', n, m)
      BY <2>2, <2>5, <2>6, <2>7, AfdParts
    <3>3. QED
      BY <1>2, <3>1, <3>2 DEF SteadyParts
  <2>9. QED
    BY <1>2, <1>3, <2>2, <2>4, <2>6, <2>8 DEF TableInv, Parts
<1>6. QED
  BY <1>1, <1>4, <1>5

\* Parts says nothing of the status and of the PIDs counted.
LEMMA SameParts ==
  ASSUME NEW a, NEW b, a.entries = b.entries, a.tcp = b.tcp, a.udp = b.udp,
         a.afdHandles = b.afdHandles, NEW n, NEW m
  PROVE  (Parts(a, n, m) <=> Parts(b, n, m)) /\ (SteadyParts(a, n, m) <=> SteadyParts(b, n, m))
BY DEF Parts, SteadyParts, Steady

LEMMA StatusTableInv ==
  ASSUME TableInv, AfdDone \/ ResolveNsi
  PROVE  TableInv'
<1>1. /\ UNCHANGED <<open, since, snapshot, slots>>
      /\ answer.tcp = 0 /\ answer.udp = 0 /\ "tcp" \notin succeeded /\ "udp" \notin succeeded
      /\ "tcp" \notin succeeded' /\ "udp" \notin succeeded'
  BY DEF AfdDone, ResolveNsi, TableInv
<1>2. /\ answer' \in Answer(Seq(Entries), Nat)
      /\ answer'.entries = answer.entries /\ answer'.tcp = 0 /\ answer'.udp = 0
      /\ answer'.afdHandles = answer.afdHandles
  <2>1. CASE AfdDone
    <3>1. Cardinality(slots) \in Nat
      BY FS_CardinalityType DEF TableInv
    <3>2. QED
      BY <1>1, <2>1, <3>1 DEF AfdDone, TableInv, Answer
  <2>2. CASE UNCHANGED answer
    BY <1>1, <2>2 DEF TableInv
  <2>3. ASSUME NEW st \in {"success", "failed"}, Return(st)
        PROVE  /\ answer' \in Answer(Seq(Entries), Nat)
               /\ answer'.entries = answer.entries /\ answer'.tcp = 0 /\ answer'.udp = 0
               /\ answer'.afdHandles = answer.afdHandles
    BY <1>1, <2>3 DEF Return, TableInv, Answer
  <2>4. QED
    BY <2>1, <2>2, <2>3 DEF ResolveNsi
<1>3. /\ Len(answer.entries) \in 0..MaxEntries /\ Len(answer.entries) <= answer.afdHandles
      /\ \A i \in 1..Len(answer.entries) : answer.entries[i].view = "afd"
  BY <1>1, OnlyAfd
<1>4. Len(answer.entries) <= MaxEntries
  BY <1>3
<1>5. \E n, m \in 0..MaxEntries : Parts(answer', n, m) /\ SteadyParts(answer', n, m)
  BY <1>1, <1>2, <1>3, <1>4, AfdParts
<1>6. \E n, m \in 0..MaxEntries : Parts(answer', n, m) /\ SteadyParts(answer, n, m)'
  BY <1>1, <1>5 DEF SteadyParts
<1>7. QED
  BY <1>1, <1>2, <1>6 DEF TableInv, Parts

LEMMA TcpTableInv == TableInv /\ TcpView => TableInv'
<1>. SUFFICES ASSUME TableInv, TcpView PROVE TableInv'
  OBVIOUS
<1>1. /\ UNCHANGED <<open, since, snapshot, slots>> /\ pc = "tcp" /\ pc' = "udp"
      /\ answer.tcp = 0 /\ answer.udp = 0 /\ "tcp" \notin succeeded /\ "udp" \notin succeeded
  BY DEF TcpView, TableInv
<1>2. CASE UNCHANGED <<answer, succeeded>>
  BY <1>1, <1>2 DEF TableInv, SteadyParts
<1>3. ASSUME NEW rows \in TablesOf("tcp"),
             answer' = [answer EXCEPT !.entries = AppendAll(@, rows), !.tcp = Len(rows)],
             succeeded' = succeeded \union {"tcp"}
      PROVE  TableInv'
  <2>1. PICK s \in Seq(Entries), n \in 0..MaxEntries :
          /\ s = answer.entries /\ n = Len(s) /\ n <= answer.afdHandles
          /\ \A i \in 1..n : s[i].view = "afd"
    BY <1>1, OnlyAfd
  <2>2. /\ rows \in Seq(Entries) /\ \A i \in 1..Len(rows) : rows[i].view = "tcp"
        /\ Steady([entries |-> rows], Ipv4Of(open, "tcp"), 1, Len(rows))
    BY RowsFacts DEF TableInv
  <2>3. PICK r \in Seq(Entries), k \in Nat :
          /\ r = AppendAll(s, rows) /\ k = Smaller(Len(rows), MaxEntries - n)
          /\ Len(r) = n + k /\ Len(r) <= MaxEntries
          /\ \A i \in 1..n : r[i] = s[i]
          /\ \A i \in 1..k : r[n + i] = rows[i]
    <3>1. Len(s) <= MaxEntries
      BY <2>1
    <3>2. LET kk == Smaller(Len(rows), MaxEntries - Len(s))  rr == AppendAll(s, rows)
          IN  /\ rr \in Seq(Entries) /\ kk \in Nat /\ Len(rr) = Len(s) + kk
              /\ Len(rr) <= MaxEntries
              /\ \A i \in 1..Len(s) : rr[i] = s[i]
              /\ \A i \in 1..kk : rr[Len(s) + i] = rows[i]
      BY <2>1, <2>2, <3>1, AppendAllFacts
    <3>3. QED
      BY <2>1, <3>2
  <2>4. Len(rows) \in Nat /\ k <= Len(rows)
    BY <2>1, <2>2, <2>3, PortLimits DEF Smaller
  <2>5. /\ answer' \in Answer(Seq(Entries), Nat)
        /\ answer'.entries = r /\ answer'.tcp = Len(rows) /\ answer'.udp = 0
        /\ answer'.afdHandles = answer.afdHandles
    BY <1>1, <1>3, <2>1, <2>3, <2>4 DEF TableInv, Answer
  <2>6. \A i \in 1..Len(r) : r[i].view = IF i <= n THEN "afd" ELSE "tcp"
    <3>. TAKE i \in 1..Len(r)
    <3>1. CASE i <= n
      <4>1. i \in 1..n
        BY <3>1
      <4>2. r[i] = s[i] /\ s[i].view = "afd"
        BY <2>1, <2>3, <4>1
      <4>3. QED
        BY <3>1, <4>2
    <3>2. CASE ~(i <= n)
      <4>1. i - n \in 1..k /\ i - n \in 1..Len(rows) /\ n + (i - n) = i
        <5>1. i \in 1..(n + k) /\ i \in Nat /\ n \in Nat /\ k \in Nat /\ n < i
          BY <2>3, <3>2
        <5>2. QED
          BY <2>4, <5>1
      <4>2. r[i] = rows[i - n]
        BY <2>3, <4>1
      <4>3. QED
        BY <2>2, <3>2, <4>1, <4>2
    <3>3. QED
      BY <3>1, <3>2
  <2>7. n + k - n = k /\ Smaller(0, MaxEntries - (n + k)) = 0 /\ n + k - (n + k) = 0
    <3>1. n \in Nat /\ k \in Nat /\ MaxEntries \in Nat /\ n + k <= MaxEntries
      BY <2>3, PortLimits
    <3>2. QED
      BY <3>1 DEF Smaller
  <2>8. Parts(answer', n, n + k)
    <3>1. n <= n + k
      OBVIOUS
    <3>2. n + k - n = Smaller(answer'.tcp, MaxEntries - n)
      BY <2>3, <2>5, <2>7
    <3>3. \A i \in 1..Len(r) :
            r[i].view = IF i <= n THEN "afd" ELSE IF i <= n + k THEN "tcp" ELSE "udp"
      BY <2>3, <2>6
    <3>4. n <= answer'.afdHandles
      BY <2>1, <2>5
    <3>5. Len(answer'.entries) - (n + k) = Smaller(answer'.udp, MaxEntries - (n + k))
      BY <2>3, <2>5, <2>7
    <3>6. n + k <= Len(r)
      BY <2>1, <2>3
    <3>7. answer'.entries = r /\ Len(r) <= MaxEntries
      BY <2>3, <2>5
    <3>8. QED
      BY <3>1, <3>2, <3>3, <3>4, <3>5, <3>6, <3>7 DEF Parts
  <2>9. n + k - n = answer'.tcp => Steady(answer', Ipv4Of(since, "tcp"), n + 1, n + k)
    <3>. SUFFICES ASSUME n + k - n = answer'.tcp, NEW e \in Ipv4Of(since, "tcp")
                  PROVE  \E i \in (n + 1)..(n + k) : r[i] = RowOf(e)
      BY <2>5 DEF Steady
    <3>1. e \in Ipv4Of(open, "tcp")
      BY DEF Ipv4Of, Ipv4, TableInv
    <3>2. PICK j \in 1..Len(rows) : rows[j] = RowOf(e)
      BY <2>2, <3>1 DEF Steady
    <3>3. k = Len(rows)
      BY <2>5, <2>7
    <3>4. n + j \in (n + 1)..(n + k) /\ r[n + j] = rows[j]
      BY <2>3, <2>4, <3>3
    <3>5. QED
      BY <3>2, <3>4
  <2>10. SteadyParts(answer, n, n + k)'
    <3>1. "udp" \notin succeeded' /\ since' = since
      BY <1>1, <1>3
    <3>2. QED
      BY <2>9, <3>1 DEF SteadyParts
  <2>11. n + k \in 0..MaxEntries
    BY <2>3, PortLimits
  <2>12. \E nn, m \in 0..MaxEntries : (Parts(answer, nn, m) /\ SteadyParts(answer, nn, m))'
    BY <2>8, <2>10, <2>11
  <2>13. QED
    BY <1>1, <1>3, <2>5, <2>12 DEF TableInv
<1>4. QED
  BY <1>2, <1>3 DEF TcpView

LEMMA UdpTableInv == TableInv /\ UdpView => TableInv'
<1>. SUFFICES ASSUME TableInv, UdpView PROVE TableInv'
  OBVIOUS
<1>1. /\ UNCHANGED <<open, since, snapshot, slots>> /\ pc = "udp" /\ pc' = "returned"
      /\ answer.udp = 0 /\ "udp" \notin succeeded
  BY DEF UdpView, Return, TableInv
<1>2. PICK n \in 0..MaxEntries, m \in 0..MaxEntries : Parts(answer, n, m) /\ SteadyParts(answer, n, m)
  BY DEF TableInv
<1>3. PICK s \in Seq(Entries) : /\ s = answer.entries /\ Len(s) = m /\ Len(s) <= MaxEntries
                                /\ n <= m
  <2>1. answer.entries \in Seq(Entries) /\ Len(answer.entries) \in Nat
    BY DEF TableInv, Answer
  <2>2. Smaller(0, MaxEntries - m) = 0
    BY <1>2, PortLimits DEF Smaller
  <2>3. Len(answer.entries) - m = 0
    BY <1>1, <1>2, <2>2 DEF Parts
  <2>4. Len(answer.entries) = m
    BY <1>2, <2>1, <2>3
  <2>5. QED
    BY <1>2, <2>1, <2>4 DEF Parts
<1>4. ASSUME NEW st \in {"success", "failed"}, Return(st), UNCHANGED succeeded
      PROVE  TableInv'
  <2>1. /\ answer' \in Answer(Seq(Entries), Nat)
        /\ answer'.entries = answer.entries /\ answer'.tcp = answer.tcp
        /\ answer'.udp = answer.udp /\ answer'.afdHandles = answer.afdHandles
    BY <1>4 DEF Return, TableInv, Answer
  <2>2. Parts(answer', n, m) /\ SteadyParts(answer', n, m)
    BY <1>2, <2>1, SameParts
  <2>3. Parts(answer, n, m)' /\ SteadyParts(answer, n, m)'
    BY <1>1, <1>4, <2>2 DEF SteadyParts
  <2>4. QED
    BY <1>1, <2>1, <2>3 DEF TableInv
<1>5. ASSUME NEW rows \in TablesOf("udp"),
             answer' = [answer EXCEPT !.entries = AppendAll(@, rows), !.udp = Len(rows),
                                      !.status = "success"],
             succeeded' = succeeded \union {"udp"}
      PROVE  TableInv'
  <2>1. /\ rows \in Seq(Entries) /\ \A i \in 1..Len(rows) : rows[i].view = "udp"
        /\ Steady([entries |-> rows], Ipv4Of(open, "udp"), 1, Len(rows))
    BY RowsFacts DEF TableInv
  <2>2. PICK r \in Seq(Entries), k \in Nat :
          /\ r = AppendAll(s, rows) /\ k = Smaller(Len(rows), MaxEntries - m)
          /\ Len(r) = m + k /\ Len(r) <= MaxEntries
          /\ \A i \in 1..m : r[i] = s[i]
          /\ \A i \in 1..k : r[m + i] = rows[i]
    <3>1. LET kk == Smaller(Len(rows), MaxEntries - Len(s))  rr == AppendAll(s, rows)
          IN  /\ rr \in Seq(Entries) /\ kk \in Nat /\ Len(rr) = Len(s) + kk
              /\ Len(rr) <= MaxEntries
              /\ \A i \in 1..Len(s) : rr[i] = s[i]
              /\ \A i \in 1..kk : rr[Len(s) + i] = rows[i]
      BY <1>3, <2>1, AppendAllFacts
    <3>2. QED
      BY <1>3, <3>1
  <2>3. Len(rows) \in Nat /\ k <= Len(rows)
    BY <1>2, <2>1, <2>2, PortLimits DEF Smaller
  <2>4. /\ answer' \in Answer(Seq(Entries), Nat)
        /\ answer'.entries = r /\ answer'.tcp = answer.tcp /\ answer'.udp = Len(rows)
        /\ answer'.afdHandles = answer.afdHandles
    BY <1>3, <1>5, <2>2, <2>3 DEF TableInv, Answer
  <2>5. \A i \in 1..Len(r) :
          r[i].view = IF i <= n THEN "afd" ELSE IF i <= m THEN "tcp" ELSE "udp"
    <3>. TAKE i \in 1..Len(r)
    <3>1. CASE i <= m
      <4>1. i \in 1..m /\ r[i] = s[i]
        BY <1>2, <2>2, <3>1
      <4>2. s[i].view = IF i <= n THEN "afd" ELSE IF i <= m THEN "tcp" ELSE "udp"
        BY <1>2, <1>3, <4>1 DEF Parts
      <4>3. QED
        BY <4>1, <4>2
    <3>2. CASE ~(i <= m)
      <4>1. i - m \in 1..k /\ i - m \in 1..Len(rows) /\ m + (i - m) = i /\ ~(i <= n)
        <5>1. i \in 1..(m + k) /\ i \in Nat /\ m \in Nat /\ k \in Nat /\ m < i
          BY <2>2, <3>2
        <5>2. QED
          BY <1>3, <2>3, <5>1
      <4>2. r[i] = rows[i - m]
        BY <2>2, <4>1
      <4>3. QED
        BY <2>1, <3>2, <4>1, <4>2
    <3>3. QED
      BY <3>1, <3>2
  <2>6. Parts(answer', n, m)
    <3>1. m + k - m = Smaller(Len(rows), MaxEntries - m) /\ m <= m + k
      BY <1>2, <2>2
    <3>2. n <= answer.afdHandles /\ m - n = Smaller(answer.tcp, MaxEntries - n)
      BY <1>2 DEF Parts
    <3>3. QED
      BY <1>3, <2>2, <2>4, <2>5, <3>1, <3>2 DEF Parts
  <2>7. "tcp" \in succeeded /\ m - n = answer'.tcp =>
          Steady(answer', Ipv4Of(since, "tcp"), n + 1, m)
    <3>. SUFFICES ASSUME "tcp" \in succeeded, m - n = answer.tcp, NEW e \in Ipv4Of(since, "tcp")
                  PROVE  \E i \in (n + 1)..m : r[i] = RowOf(e)
      BY <2>4 DEF Steady
    <3>1. PICK i \in (n + 1)..m : s[i] = RowOf(e)
      BY <1>2, <1>3 DEF SteadyParts, Steady
    <3>2. i \in 1..m
      BY <1>2, <1>3
    <3>3. QED
      BY <2>2, <3>1, <3>2
  <2>8. m + k - m = answer'.udp => Steady(answer', Ipv4Of(since, "udp"), m + 1, m + k)
    <3>. SUFFICES ASSUME m + k - m = answer'.udp, NEW e \in Ipv4Of(since, "udp")
                  PROVE  \E i \in (m + 1)..(m + k) : r[i] = RowOf(e)
      BY <2>4 DEF Steady
    <3>1. e \in Ipv4Of(open, "udp")
      BY DEF Ipv4Of, Ipv4, TableInv
    <3>2. PICK j \in 1..Len(rows) : rows[j] = RowOf(e)
      BY <2>1, <3>1 DEF Steady
    <3>3. k = Len(rows)
      BY <1>2, <2>2, <2>3, <2>4
    <3>4. m + j \in (m + 1)..(m + k) /\ r[m + j] = rows[j]
      BY <1>2, <2>2, <2>3, <3>3
    <3>5. QED
      BY <3>2, <3>4
  <2>9. SteadyParts(answer, n, m)'
    <3>1. since' = since /\ ("tcp" \in succeeded' => "tcp" \in succeeded)
      BY <1>1, <1>5
    <3>2. Len(answer'.entries) = m + k
      BY <2>2, <2>4
    <3>3. QED
      BY <2>7, <2>8, <3>1, <3>2 DEF SteadyParts
  <2>10. Parts(answer, n, m)'
    BY <2>6
  <2>11. QED
    BY <1>1, <2>4, <2>9, <2>10 DEF TableInv
<1>6. QED
  BY <1>4, <1>5 DEF UdpView

LEMMA TableInit == PortInit => TableInv
<1>. SUFFICES ASSUME PortInit PROVE TableInv
  OBVIOUS
<1>1. /\ NoAnswer \in Answer(Seq(Entries), Nat) /\ NoAnswer.entries = <<>>
      /\ NoAnswer.tcp = 0 /\ NoAnswer.udp = 0 /\ NoAnswer.afdHandles = 0
  BY DEF NoAnswer, Answer
<1>2. Parts(NoAnswer, 0, 0) /\ 0 \in 0..MaxEntries
  BY <1>1, PortLimits DEF Parts, Smaller
<1>3. QED
  BY <1>1, <1>2, FS_EmptySet DEF PortInit, TableInv, SteadyParts

LEMMA TableStep == TableInv /\ [PortNext]_portVars => TableInv'
<1>. SUFFICES ASSUME TableInv, [PortNext]_portVars PROVE TableInv'
  OBVIOUS
<1>1. CASE Network \/ UNCHANGED portVars
  <2>1. UNCHANGED driverVars
    BY <1>1 DEF Network, portVars
  <2>2. open' \subseteq Ends /\ since' \subseteq open' /\ since' \subseteq since
    BY <1>1 DEF Network, OpenEndpoint, CloseEndpoint, portVars, TableInv
  <2>3. UNCHANGED <<pc, snapshot, slots, succeeded, answer>>
    BY <2>1 DEF driverVars
  <2>4. PICK n \in 0..MaxEntries, m \in 0..MaxEntries :
          Parts(answer, n, m) /\ SteadyParts(answer, n, m)
    BY DEF TableInv
  <2>5. \A proto \in {"tcp", "udp"} : Ipv4Of(since', proto) \subseteq Ipv4Of(since, proto)
    BY <2>2 DEF Ipv4Of, Ipv4
  <2>6. SteadyParts(answer, n, m)' /\ Parts(answer, n, m)'
    BY <2>3, <2>4, <2>5 DEF SteadyParts, Steady
  <2>7. QED
    BY <2>2, <2>3, <2>6 DEF TableInv
<1>2. CASE SnapshotStep
  <2>1. /\ UNCHANGED <<open, slots, succeeded, answer, since>>
        /\ pc \in {"snapshot", "reading"} /\ pc' \in {"snapshot", "reading", "afd", "nsi"}
        /\ snapshot' \subseteq Holders \X HandleValues
    BY <1>2 DEF SnapshotStep, SnapshotBuffer, SnapshotGrows, SnapshotTaken, SnapshotFails,
              ViewFails, TableInv
  <2>2. QED
    BY <2>1 DEF TableInv, SteadyParts
<1>3. QED
  BY <1>1, <1>2, BeginTableInv, AfdStepTableInv, StatusTableInv, TcpTableInv, UdpTableInv
     DEF PortNext, PortQuery

\* Where the entries of each view are.
LEMMA ViewPlaces ==
  ASSUME NEW n \in 0..MaxEntries, NEW m \in 0..MaxEntries, Parts(answer, n, m),
         answer.entries \in Seq(Entries)
  PROVE  /\ OfView("afd") = 1..n /\ Cardinality(OfView("afd")) = n
         /\ OfView("tcp") = (n + 1)..m /\ Cardinality(OfView("tcp")) = m - n
         /\ OfView("udp") = (m + 1)..Len(answer.entries)
         /\ Cardinality(OfView("udp")) = Len(answer.entries) - m
<1>. DEFINE len == Len(answer.entries)
<1>1. len \in Nat /\ n <= m /\ m <= len
  BY DEF Parts
<1>2. \A i \in 1..len :
        answer.entries[i].view = IF i <= n THEN "afd" ELSE IF i <= m THEN "tcp" ELSE "udp"
  BY DEF Parts
<1>. HIDE DEF len
<1>3. /\ {i \in 1..len : answer.entries[i].view = "afd"} = 1..n
      /\ {i \in 1..len : answer.entries[i].view = "tcp"} = (n + 1)..m
      /\ {i \in 1..len : answer.entries[i].view = "udp"} = (m + 1)..len
  BY <1>1, <1>2
<1>4. /\ Cardinality(1..n) = IF 1 > n THEN 0 ELSE n - 1 + 1
      /\ Cardinality((n + 1)..m) = IF n + 1 > m THEN 0 ELSE m - (n + 1) + 1
      /\ Cardinality((m + 1)..len) = IF m + 1 > len THEN 0 ELSE len - (m + 1) + 1
  BY <1>1, FS_Interval
<1>5. /\ Cardinality(1..n) = n /\ Cardinality((n + 1)..m) = m - n
      /\ Cardinality((m + 1)..len) = len - m
  BY <1>1, <1>4
<1>6. QED
  BY <1>3, <1>5 DEF OfView, len

\* The counts of the answer explain what is missing in it, for any number of
\* endpoints and any size of the array.
THEOREM CountsExplainEntriesThm == PortSpec => []CountsExplainEntries
<1>1. TableInv => CountsExplainEntries
  <2>. SUFFICES ASSUME TableInv PROVE CountsExplainEntries
    OBVIOUS
  <2>1. PICK n \in 0..MaxEntries, m \in 0..MaxEntries : Parts(answer, n, m)
    BY DEF TableInv
  <2>2. /\ answer.entries \in Seq(Entries) /\ Len(answer.entries) \in Nat
        /\ answer.tcp \in Nat /\ answer.udp \in Nat /\ answer.afdHandles \in Nat
    BY DEF TableInv, Answer
  <2>3. /\ n <= m /\ m <= Len(answer.entries) /\ Len(answer.entries) <= MaxEntries
        /\ n <= answer.afdHandles
        /\ m - n = Smaller(answer.tcp, MaxEntries - n)
        /\ Len(answer.entries) - m = Smaller(answer.udp, MaxEntries - m)
    BY <2>1 DEF Parts
  <2>4. /\ m - n <= answer.tcp /\ Len(answer.entries) - m <= answer.udp
    BY <2>2, <2>3, PortLimits DEF Smaller
  <2>5. ~Full => m - n = answer.tcp /\ Len(answer.entries) - m = answer.udp
    BY <2>2, <2>3, PortLimits DEF Smaller, Full
  <2>6. answer.tcp > m - n => m = Len(answer.entries)
    BY <2>2, <2>3, PortLimits DEF Smaller
  <2>7. m = Len(answer.entries) => (m + 1)..Len(answer.entries) = {}
    BY <2>2
  <2>8. QED
    BY <2>1, <2>2, <2>3, <2>4, <2>5, <2>6, <2>7, ViewPlaces DEF CountsExplainEntries
<1>2. QED
  BY <1>1, TableInit, TableStep, PTL DEF PortSpec

\* An endpoint that is open all through a query is answered, or the counts show
\* that the array was full: for any order of the rows and any other endpoints
\* that come and go.
THEOREM SteadyEndpointAnsweredThm == PortSpec => []SteadyEndpointAnswered
<1>1. TableInv => SteadyEndpointAnswered
  <2>. SUFFICES ASSUME TableInv, NEW e \in since, EndpointOf[e].ipv4,
                       EndpointOf[e].proto \in succeeded,
                       Cardinality(OfView(EndpointOf[e].proto)) =
                         IF EndpointOf[e].proto = "tcp" THEN answer.tcp ELSE answer.udp
                PROVE  \E i \in OfView(EndpointOf[e].proto) : answer.entries[i] = RowOf(e)
    BY DEF SteadyEndpointAnswered
  <2>1. PICK n \in 0..MaxEntries, m \in 0..MaxEntries :
          Parts(answer, n, m) /\ SteadyParts(answer, n, m)
    BY DEF TableInv
  <2>2. answer.entries \in Seq(Entries)
    BY DEF TableInv, Answer
  <2>3. EndpointOf[e].proto \in {"tcp", "udp"} /\ e \in Ipv4Of(since, EndpointOf[e].proto)
    BY PortEndpoints DEF TableInv, Ipv4Of, Ipv4
  <2>4. CASE EndpointOf[e].proto = "tcp"
    BY <2>1, <2>2, <2>3, <2>4, ViewPlaces DEF SteadyParts, Steady
  <2>5. CASE EndpointOf[e].proto = "udp"
    BY <2>1, <2>2, <2>3, <2>5, ViewPlaces DEF SteadyParts, Steady
  <2>6. QED
    BY <2>3, <2>4, <2>5
<1>2. QED
  BY <1>1, TableInit, TableStep, PTL DEF PortSpec

-----------------------------------------------------------------------------
(* The detection.                                                          *)

\* The TCP endpoints nobody hides that are open from before the driver is asked.
SteadyTcp == Ipv4Of(since \ Hooked, "tcp")

\* The second list has them, unless it is full or TCP could not be read.
ListInv ==
  /\ list \subseteq Ends /\ r3 \subseteq Ends
  /\ stage = "afterUdp" /\ "tcp" \in read /\ Cardinality(list) < MaxEntries =>
       SteadyTcp \subseteq list

\* Then so has the join of the two lists, which is not changed any more.
JoinInv ==
  stage \in {"compare", "filter", "done"} /\ "tcp" \in read
    /\ Cardinality(list) < MaxEntries /\ Cardinality(r3) < MaxEntries =>
       \A e \in SteadyTcp : InR3(EndpointOf[e])

\* The kernel's entries that user mode did not list.
Unlisted == {entry \in EntriesOf(answer.entries) : ~InR3(entry)}

CandidatesInv ==
  /\ index \in Nat \ {0}
  /\ candidates \in Seq(Unlisted)
  /\ stage \notin {"compare", "filter", "done"} => candidates = <<>> /\ index = 1
  /\ stage \in {"front", "frontUdp", "open"} => answer.entries = <<>>

\* What the filter has passed has a remote side.
FilterInv ==
  /\ stage = "filter" =>
       \A i \in 1..Len(candidates) : i < index => candidates[i].rport # 0
  /\ stage = "done" => \A i \in 1..Len(candidates) : candidates[i].rport # 0

DetectInv == TableInv /\ FoundInv /\ ListInv /\ JoinInv /\ CandidatesInv /\ FilterInv

LEMMA QueryOfDetection == [Next]_vars => [PortNext]_portVars
BY DEF Next, App, EnumerateTcp, FrontUdp, OpenDevice, IoctlReturns, AfterUdp, CompareEntry,
       CountPids, FilterEntry, Finish, DriverStep, vars, PortNext

\* Endpoints are only ever taken from those that are steady, but for the moment
\* the query begins.
LEMMA SteadyShrinks ==
  ASSUME Network \/ UNCHANGED portVars
  PROVE  SteadyTcp' \subseteq SteadyTcp /\ since' \subseteq since /\ UNCHANGED answer
BY DEF Network, OpenEndpoint, CloseEndpoint, portVars, driverVars, SteadyTcp, Ipv4Of, Ipv4

LEMMA ListedFacts ==
  ASSUME TableInv, NEW proto, NEW n \in Nat, NEW s \in Listed(proto, n)
  PROVE  /\ s \subseteq Visible(proto) /\ s \subseteq Ends /\ IsFiniteSet(s)
         /\ Cardinality(s) < MaxEntries - n => s = Visible(proto)
<1>1. s \subseteq Visible(proto) /\ Visible(proto) \subseteq Ends
  BY DEF Listed, Visible, TableInv
<1>2. IsFiniteSet(Visible(proto)) /\ IsFiniteSet(s)
  BY <1>1, PortEndpoints, FS_Subset
<1>3. Cardinality(s) = Smaller(Cardinality(Visible(proto)), MaxEntries - n)
  BY DEF Listed
<1>4. Cardinality(s) \in Nat /\ Cardinality(Visible(proto)) \in Nat /\ MaxEntries \in Nat
  BY <1>2, FS_CardinalityType, PortLimits
<1>5. Cardinality(s) < MaxEntries - n => Cardinality(Visible(proto)) = Cardinality(s)
  BY <1>3, <1>4 DEF Smaller
<1>6. Cardinality(Visible(proto)) = Cardinality(s) => s = Visible(proto)
  BY <1>1, <1>2, FS_Subset
<1>7. QED
  BY <1>1, <1>2, <1>5, <1>6

\* What enumerateR3UdpPorts does to the list.
LEMMA UdpEffect ==
  ASSUME TableInv, ListInv, EnumerateUdp
  PROVE  /\ list \subseteq list' /\ list' \subseteq Ends
         /\ "tcp" \in read' => "tcp" \in read
         /\ Cardinality(list') < MaxEntries => Cardinality(list) < MaxEntries
<1>0. IsFiniteSet(list) /\ Cardinality(list) \in Nat
  BY PortEndpoints, FS_Subset, FS_CardinalityType DEF ListInv
<1>1. list \subseteq list' /\ list' \subseteq Ends /\ ("tcp" \in read' => "tcp" \in read)
  <2>1. CASE read # {} /\ UNCHANGED lists
    BY <2>1 DEF lists, ListInv
  <2>2. ASSUME NEW udp \in Listed("udp", Cardinality(list)), list' = list \union udp,
               read' = read \union {"udp"}
        PROVE  list \subseteq list' /\ list' \subseteq Ends /\ ("tcp" \in read' => "tcp" \in read)
    <3>1. udp \subseteq Ends
      BY <1>0, ListedFacts
    <3>2. QED
      BY <2>2, <3>1 DEF ListInv
  <2>3. QED
    BY <2>1, <2>2 DEF EnumerateUdp
<1>2. IsFiniteSet(list')
  BY <1>1, PortEndpoints, FS_Subset
<1>3. Cardinality(list) <= Cardinality(list') /\ Cardinality(list') \in Nat
  BY <1>1, <1>2, FS_Subset, FS_CardinalityType
<1>4. QED
  BY <1>0, <1>1, <1>3, PortLimits

LEMMA ListStep == TableInv /\ ListInv /\ [Next]_vars => ListInv'
<1>. SUFFICES ASSUME TableInv, ListInv, [Next]_vars PROVE ListInv'
  OBVIOUS
<1>1. CASE EnumerateTcp
  <2>1. UNCHANGED <<portVars, r3>> /\ SteadyTcp' \subseteq SteadyTcp
    BY <1>1, SteadyShrinks DEF EnumerateTcp
  <2>2. CASE list' \in Listed("tcp", 0)
    <3>1. list' \subseteq Ends /\ (Cardinality(list') < MaxEntries - 0 => list' = Visible("tcp"))
      BY <2>2, ListedFacts
    <3>2. MaxEntries - 0 = MaxEntries
      BY PortLimits
    <3>3. SteadyTcp \subseteq Visible("tcp")
      BY DEF SteadyTcp, Ipv4Of, Ipv4, Visible, TableInv
    <3>4. QED
      BY <2>1, <3>1, <3>2, <3>3 DEF ListInv
  <2>3. CASE list' = {} /\ read' = {}
    BY <2>1, <2>3 DEF ListInv
  <2>4. QED
    BY <1>1, <2>2, <2>3 DEF EnumerateTcp
<1>2. CASE FrontUdp
  BY <1>2, UdpEffect DEF FrontUdp, Quit, lists, ListInv
<1>3. CASE AfterUdp
  <2>1. stage' \in {"compare", "failed"}
    BY <1>3 DEF AfterUdp, Quit
  <2>2. list' \subseteq Ends /\ r3' \subseteq Ends
    BY <1>3, UdpEffect DEF AfterUdp, Quit, lists, ListInv
  <2>3. QED
    BY <2>1, <2>2 DEF ListInv
<1>4. CASE OpenDevice \/ IoctlReturns \/ CompareEntry \/ CountPids \/ FilterEntry \/ Finish \/ DriverStep
  <2>1. UNCHANGED <<lists, r3>> /\ stage' # "afterUdp"
    BY <1>4 DEF OpenDevice, IoctlReturns, CompareEntry, CountPids, FilterEntry, Finish, DriverStep,
                Quit, appVars
  <2>2. QED
    BY <2>1 DEF ListInv, lists
<1>5. CASE UNCHANGED vars \/ (Network /\ UNCHANGED appVars)
  <2>1. UNCHANGED <<stage, lists, r3>> /\ SteadyTcp' \subseteq SteadyTcp
    BY <1>5, SteadyShrinks DEF vars, appVars
  <2>2. QED
    BY <2>1 DEF ListInv, lists
<1>6. QED
  BY <1>1, <1>2, <1>3, <1>4, <1>5 DEF Next, App

LEMMA JoinStep == TableInv /\ ListInv /\ JoinInv /\ [Next]_vars => JoinInv'
<1>. SUFFICES ASSUME TableInv, ListInv, JoinInv, [Next]_vars PROVE JoinInv'
  OBVIOUS
<1>1. CASE AfterUdp
  <2>. SUFFICES ASSUME stage' = "compare", "tcp" \in read', Cardinality(list') < MaxEntries,
                       Cardinality(r3') < MaxEntries, NEW e \in SteadyTcp'
                PROVE  \E x \in r3' : SameEndpoint(x, EndpointOf[e])
    BY <1>1 DEF JoinInv, InR3, AfterUdp, Quit
  <2>1. PICK added \in SUBSET {x \in list' : ~InR3(EndpointOf[x])} :
          Joined(list', added) /\ r3' = r3 \union added
    BY <1>1 DEF AfterUdp, Quit
  <2>2. stage = "afterUdp" /\ EnumerateUdp /\ SteadyTcp' \subseteq SteadyTcp
    BY <1>1, SteadyShrinks DEF AfterUdp, Quit
  <2>3. e \in list'
    BY <2>2, UdpEffect DEF ListInv
  <2>4. Cardinality(r3 \union added) # MaxEntries
    <3>1. IsFiniteSet(r3')
      <4>1. r3' \subseteq Ends
        BY <1>1, <2>2, UdpEffect DEF AfterUdp, Quit, ListInv
      <4>2. QED
        BY <4>1, PortEndpoints, FS_Subset
    <3>2. Cardinality(r3') \in Nat
      BY <3>1, FS_CardinalityType
    <3>3. QED
      BY <2>1, <3>2, PortLimits
  <2>5. InR3(EndpointOf[e]) \/ \E f \in added : SameEndpoint(f, EndpointOf[e])
    BY <2>1, <2>3, <2>4 DEF Joined
  <2>6. QED
    BY <2>1, <2>5 DEF InR3
<1>2. CASE EnumerateTcp \/ FrontUdp \/ OpenDevice \/ IoctlReturns \/ DriverStep
  <2>1. stage' \notin {"compare", "filter", "done"}
    BY <1>2 DEF EnumerateTcp, FrontUdp, OpenDevice, IoctlReturns, DriverStep, Quit, appVars
  <2>2. QED
    BY <2>1 DEF JoinInv
<1>3. CASE \/ CompareEntry \/ CountPids \/ FilterEntry \/ Finish
           \/ UNCHANGED vars \/ (Network /\ UNCHANGED appVars)
  <2>1. /\ UNCHANGED <<lists, r3>> /\ SteadyTcp' \subseteq SteadyTcp
        /\ stage' \in {"compare", "filter", "done"} => stage \in {"compare", "filter", "done"}
    BY <1>3, SteadyShrinks DEF CompareEntry, CountPids, FilterEntry, Finish, vars, appVars
  <2>2. QED
    BY <2>1 DEF JoinInv, InR3, lists
<1>4. QED
  BY <1>1, <1>2, <1>3 DEF Next, App

\* RemoveAt leaves elements of the sequence only, those before it in their place.
LEMMA RemoveAtType ==
  ASSUME NEW S, NEW s \in Seq(S), NEW i \in 1..Len(s)
  PROVE  /\ RemoveAt(s, i) \in Seq(S)
         /\ \A j \in 1..Len(RemoveAt(s, i)) : j < i => RemoveAt(s, i)[j] = s[j]
<1>1. Len(s) \in Nat /\ i - 1 \in Int /\ i + 1 \in Int
  OBVIOUS
<1>2. (\A j \in 1..(i - 1) : s[j] \in S) /\ (\A j \in (i + 1)..Len(s) : s[j] \in S)
  OBVIOUS
<1>3. /\ SubSeq(s, 1, i - 1) \in Seq(S)
      /\ Len(SubSeq(s, 1, i - 1)) = i - 1
      /\ \A j \in 1..(i - 1) : SubSeq(s, 1, i - 1)[j] = s[j]
  BY <1>1, <1>2, SubSeqProperties
<1>4. SubSeq(s, i + 1, Len(s)) \in Seq(S)
  BY <1>1, <1>2, SubSeqProperties
<1>5. RemoveAt(s, i) \in Seq(S)
  BY <1>3, <1>4, ConcatProperties DEF RemoveAt
<1>6. ASSUME NEW j \in 1..Len(RemoveAt(s, i)), j < i
      PROVE  RemoveAt(s, i)[j] = s[j]
  <2>1. j \in 1..(i - 1) /\ j \in 1..Len(SubSeq(s, 1, i - 1))
    BY <1>3, <1>5, <1>6
  <2>2. RemoveAt(s, i)[j] = SubSeq(s, 1, i - 1)[j]
    BY <1>3, <1>4, <2>1, ConcatProperties DEF RemoveAt
  <2>3. QED
    BY <1>3, <2>1, <2>2
<1>7. QED
  BY <1>5, <1>6

LEMMA CandidatesStep == TableInv /\ CandidatesInv /\ [Next]_vars => CandidatesInv'
<1>. SUFFICES ASSUME TableInv, CandidatesInv, [Next]_vars PROVE CandidatesInv'
  OBVIOUS
<1>1. CASE EnumerateTcp \/ FrontUdp \/ OpenDevice \/ IoctlReturns \/ AfterUdp \/ DriverStep
  <2>1. stage \notin {"compare", "filter", "done"} /\ UNCHANGED hidden
    BY <1>1 DEF EnumerateTcp, FrontUdp, OpenDevice, IoctlReturns, AfterUdp, DriverStep, Quit, appVars
  <2>2. candidates' = <<>> /\ index' = 1
    BY <2>1 DEF CandidatesInv, hidden
  <2>3. stage' \in {"front", "frontUdp", "open"} => answer'.entries = <<>>
    BY <1>1 DEF EnumerateTcp, FrontUdp, OpenDevice, IoctlReturns, AfterUdp, DriverStep, Quit,
                appVars, portVars, driverVars, CandidatesInv
  <2>4. candidates' \in Seq(Unlisted')
    BY <2>2
  <2>5. QED
    BY <2>2, <2>3, <2>4 DEF CandidatesInv
<1>2. CASE CompareEntry \/ CountPids \/ FilterEntry \/ Finish
  <2>1. /\ UNCHANGED <<portVars, r3>>
        /\ stage \in {"compare", "filter"} /\ stage' \in {"compare", "filter", "done"}
    BY <1>2 DEF CompareEntry, CountPids, FilterEntry, Finish
  <2>2. answer' = answer /\ Unlisted' = Unlisted
    BY <2>1 DEF portVars, driverVars, Unlisted, EntriesOf, InR3
  <2>3. candidates' \in Seq(Unlisted) /\ index' \in Nat \ {0}
    <3>1. CASE CompareEntry
      <4>1. Suspicious(answer.entries[index]) => answer.entries[index] \in Unlisted
        <5>1. answer.entries \in Seq(Entries)
          BY DEF TableInv, Answer
        <5>2. index \in 1..Len(answer.entries)
          BY <3>1, <5>1 DEF CompareEntry, CandidatesInv
        <5>3. QED
          BY <5>2 DEF Suspicious, Unlisted, EntriesOf
      <4>2. QED
        BY <3>1, <4>1 DEF CompareEntry, CandidatesInv
    <3>2. CASE CountPids \/ Finish
      BY <3>2 DEF CountPids, Finish, hidden, CandidatesInv
    <3>3. CASE FilterEntry
      <4>1. index \in 1..Len(candidates)
        BY <3>3 DEF FilterEntry, CandidatesInv
      <4>2. RemoveAt(candidates, index) \in Seq(Unlisted)
        BY <4>1, RemoveAtType DEF CandidatesInv
      <4>3. QED
        BY <3>3, <4>2 DEF FilterEntry, Drop, Keep, CandidatesInv
    <3>4. QED
      BY <1>2, <3>1, <3>2, <3>3
  <2>4. QED
    BY <2>1, <2>2, <2>3 DEF CandidatesInv
<1>3. CASE UNCHANGED vars \/ (Network /\ UNCHANGED appVars)
  <2>1. UNCHANGED <<stage, r3, hidden, answer>>
    BY <1>3, SteadyShrinks DEF vars, appVars
  <2>2. Unlisted' = Unlisted
    BY <2>1 DEF Unlisted, EntriesOf, InR3
  <2>3. QED
    BY <2>1, <2>2 DEF CandidatesInv, hidden
<1>4. QED
  BY <1>1, <1>2, <1>3 DEF Next, App

LEMMA FilterStep == CandidatesInv /\ FilterInv /\ [Next]_vars => FilterInv'
<1>. SUFFICES ASSUME CandidatesInv, FilterInv, [Next]_vars PROVE FilterInv'
  OBVIOUS
<1>1. CASE EnumerateTcp \/ FrontUdp \/ OpenDevice \/ IoctlReturns \/ AfterUdp \/ DriverStep
  BY <1>1 DEF EnumerateTcp, FrontUdp, OpenDevice, IoctlReturns, AfterUdp, DriverStep, Quit,
              appVars, FilterInv
<1>2. CASE CompareEntry
  BY <1>2 DEF CompareEntry, FilterInv
<1>3. CASE CountPids
  <2>1. stage' = "filter" /\ index' = 1 /\ candidates' = candidates
    BY <1>3 DEF CountPids
  <2>2. \A i \in 1..Len(candidates) : ~(i < 1)
    OBVIOUS
  <2>3. QED
    BY <2>1, <2>2 DEF FilterInv
<1>4. CASE FilterEntry
  <2>1. stage = "filter" /\ stage' = "filter" /\ index \in 1..Len(candidates)
    BY <1>4 DEF FilterEntry, CandidatesInv
  <2>2. CASE Drop
    <3>1. candidates' = RemoveAt(candidates, index) /\ index' = index
      BY <2>2 DEF Drop
    <3>2. candidates \in Seq(Unlisted)
      BY DEF CandidatesInv
    <3>3. /\ RemoveAt(candidates, index) \in Seq(Unlisted)
          /\ \A j \in 1..Len(RemoveAt(candidates, index)) :
               j < index => RemoveAt(candidates, index)[j] = candidates[j]
      BY <2>1, <3>2, RemoveAtType
    <3>4. ASSUME NEW j \in 1..Len(candidates'), j < index'
          PROVE  candidates'[j].rport # 0
      <4>1. j \in Nat /\ j < index /\ j \in 1..Len(candidates)
        BY <2>1, <3>1, <3>2, <3>3, <3>4
      <4>2. QED
        BY <2>1, <3>1, <3>3, <3>4, <4>1 DEF FilterInv
    <3>5. QED
      BY <2>1, <3>4 DEF FilterInv
  <2>3. CASE ~Unconnected(candidates[index]) /\ Keep
    <3>1. candidates' = candidates /\ index' = index + 1 /\ candidates[index].rport # 0
      BY <2>3 DEF Keep, Unconnected
    <3>2. \A i \in 1..Len(candidates) : i < index + 1 => i < index \/ i = index
      BY <2>1
    <3>3. QED
      BY <2>1, <3>1, <3>2 DEF FilterInv
  <2>4. QED
    BY <1>4, <2>2, <2>3 DEF FilterEntry
<1>5. CASE Finish
  <2>1. stage = "filter" /\ stage' = "done" /\ index > Len(candidates) /\ candidates' = candidates
    BY <1>5 DEF Finish, hidden
  <2>2. index \in Nat /\ Len(candidates) \in Nat
    BY DEF CandidatesInv
  <2>3. QED
    BY <2>1, <2>2 DEF FilterInv
<1>6. CASE UNCHANGED vars \/ (Network /\ UNCHANGED appVars)
  BY <1>6 DEF vars, appVars, hidden, FilterInv
<1>7. QED
  BY <1>1, <1>2, <1>3, <1>4, <1>5, <1>6 DEF Next, App

LEMMA DetectInvariance == Spec => []DetectInv
<1>1. Init => DetectInv
  <2>. SUFFICES ASSUME Init PROVE DetectInv
    OBVIOUS
  <2>1. TableInv /\ FoundInv
    BY TableInit, FoundInit DEF Init
  <2>2. answer.entries = <<>>
    BY DEF Init, PortInit, NoAnswer
  <2>3. ListInv /\ JoinInv
    BY DEF Init, ListInv, JoinInv
  <2>4. CandidatesInv
    BY <2>2 DEF Init, CandidatesInv
  <2>5. FilterInv
    BY DEF Init, FilterInv
  <2>6. QED
    BY <2>1, <2>3, <2>4, <2>5 DEF DetectInv
<1>2. DetectInv /\ [Next]_vars => DetectInv'
  BY QueryOfDetection, TableStep, FoundStep, ListStep, JoinStep, CandidatesStep,
     FilterStep DEF DetectInv
<1>3. QED
  BY <1>1, <1>2, PTL DEF Spec

\* What is proved of the driver's query holds of it in the detection: its steps
\* there, and the machine's, are those of PortSpec.
THEOREM DetectionQueries == Spec => PortInit /\ [][PortNext]_portVars
<1>1. Init => PortInit
  BY DEF Init
<1>2. QED
  BY <1>1, QueryOfDetection, PTL DEF Spec

\* A TCP endpoint that nobody hides is not reported by any row that tells all of
\* it, nor at all when it listens: whatever opens and closes meanwhile, unless a
\* list was full or TCP could not be read.  What remains is a row of View B with
\* the remote side of a connection and without its protocol or its local side.
THEOREM OnlyPartialRowsAccuseThm == Spec => []OnlyPartialRowsAccuse
<1>1. DetectInv => OnlyPartialRowsAccuse
  <2>. SUFFICES ASSUME DetectInv, stage = "done", NEW e \in since \ Hooked,
                       EndpointOf[e].ipv4, EndpointOf[e].proto = "tcp",
                       Cardinality(list) < MaxEntries, Cardinality(r3) < MaxEntries,
                       "tcp" \in read, NEW i \in 1..Len(candidates),
                       Concerns(candidates[i], e)
                PROVE  /\ candidates[i].view = "afd"
                       /\ RemoteSide(candidates[i]) = RemoteOf(e) /\ EndpointOf[e].rport # 0
                       /\ candidates[i].proto = "unknown" \/ LocalSide(candidates[i]) = NoSide
    BY DEF OnlyPartialRowsAccuse
  <2>1. e \in SteadyTcp
    BY DEF SteadyTcp, Ipv4Of, Ipv4, DetectInv, TableInv
  <2>2. PICK f \in r3 : SameEndpoint(f, EndpointOf[e])
    BY <2>1 DEF DetectInv, JoinInv, InR3
  <2>3. ~InR3(candidates[i])
    <3>1. candidates \in Seq(Unlisted)
      BY DEF DetectInv, CandidatesInv
    <3>2. candidates[i] \in Unlisted
      BY <3>1
    <3>3. QED
      BY <3>2 DEF Unlisted
  <2>4. ~SameEndpoint(e, candidates[i])
    <3>. SUFFICES ASSUME SameEndpoint(e, candidates[i]) PROVE FALSE
      OBVIOUS
    <3>1. SameEndpoint(f, candidates[i])
      BY <2>2 DEF SameEndpoint
    <3>2. QED
      BY <2>2, <2>3, <3>1 DEF InR3
  <2>5. /\ candidates[i].view = "afd"
        /\ candidates[i].proto \in {"tcp", "unknown"}
        /\ LocalSide(candidates[i]) \in {LocalOf(e), NoSide}
        /\ RemoteSide(candidates[i]) \in {RemoteOf(e), NoSide}
    BY <2>4 DEF Concerns
  <2>6. RemoteSide(candidates[i]) = RemoteOf(e) /\ EndpointOf[e].rport # 0
    <3>1. RemoteSide(candidates[i]).port # 0
      BY DEF RemoteSide, DetectInv, FilterInv
    <3>2. NoSide.port = 0 /\ RemoteOf(e).port = EndpointOf[e].rport
      BY DEF NoSide, RemoteOf
    <3>3. QED
      BY <2>5, <3>1, <3>2
  <2>7. ASSUME candidates[i].proto = "tcp", LocalSide(candidates[i]) = LocalOf(e)
        PROVE  FALSE
    <3>1. candidates[i].laddr = EndpointOf[e].laddr /\ candidates[i].lport = EndpointOf[e].lport
      BY <2>7 DEF LocalSide, LocalOf
    <3>2. candidates[i].raddr = EndpointOf[e].raddr /\ candidates[i].rport = EndpointOf[e].rport
      BY <2>6 DEF RemoteSide, RemoteOf
    <3>3. QED
      BY <2>4, <2>7, <3>1, <3>2 DEF SameEndpoint
  <2>8. QED
    BY <2>5, <2>6, <2>7
<1>2. QED
  BY <1>1, DetectInvariance, PTL

-----------------------------------------------------------------------------
(* The promise of CrossView.                                               *)

AbsStage == CASE stage = "done" -> "reported"
              [] stage = "failed" -> "failed"
              [] OTHER -> "collecting"
AbsKernel == IF stage \in {"front", "frontUdp", "open", "ioctl"} THEN {}
             ELSE EntriesOf(answer.entries)
AbsR3 == IF stage \in {"compare", "filter", "done"}
           THEN {entry \in EntriesOf(answer.entries) : InR3(entry)} ELSE {}
AbsReport == IF stage = "done" THEN EntriesOf(candidates) ELSE {}

LEMMA SameView ==
  ASSUME UNCHANGED <<AbsStage, AbsKernel, AbsR3, AbsReport>>
  PROVE  UNCHANGED Promise!vars
BY DEF Promise!vars, AbsStage, AbsKernel, AbsR3, AbsReport

\* A failure of the app: the report stays empty, and the kernel's entries are
\* those it had, which are none if there was no answer.
LEMMA FailIsFail ==
  ASSUME stage \notin {"done", "failed", "compare", "filter"}, stage' = "failed",
         UNCHANGED answer,
         stage \in {"front", "frontUdp", "open", "ioctl"} => answer.entries = <<>>
  PROVE  Promise!Fail
<1>1. EntriesOf(answer.entries)' = EntriesOf(answer.entries)
  BY DEF EntriesOf
<1>2. answer.entries = <<>> => EntriesOf(answer.entries) = {}
  BY DEF EntriesOf
<1>3. QED
  BY <1>1, <1>2 DEF Promise!Fail

\* Every step of the detection is a step of the abstract detector or none.
LEMMA PromiseStep ==
  ASSUME DetectInv, [Next]_vars
  PROVE  [Promise!Next]_(Promise!vars)
<1>1. ASSUME UNCHANGED <<AbsStage, AbsKernel, AbsR3, AbsReport>>
      PROVE  [Promise!Next]_(Promise!vars)
  BY <1>1, SameView
<1>2. ASSUME Promise!Fail PROVE [Promise!Next]_(Promise!vars)
  BY <1>2 DEF Promise!Next
<1>3. EntriesOf(answer.entries) \in SUBSET Entries
  <2>1. answer.entries \in Seq(Entries)
    BY DEF DetectInv, TableInv, Answer
  <2>2. QED
    BY <2>1 DEF EntriesOf
<1>4. CASE EnumerateTcp \/ FrontUdp \/ OpenDevice \/ DriverStep
  <2>1. /\ stage \in {"front", "frontUdp", "open", "ioctl", "after"}
        /\ stage' \in {"frontUdp", "open", "ioctl", "afterUdp", "failed"}
        /\ stage = "after" <=> stage' = "afterUdp"
    BY <1>4 DEF EnumerateTcp, FrontUdp, OpenDevice, DriverStep, Quit, appVars
  <2>2. CASE stage' = "failed"
    <3>1. stage \in {"frontUdp", "open"} /\ UNCHANGED answer
      BY <1>4, <2>2 DEF EnumerateTcp, FrontUdp, OpenDevice, DriverStep, Quit, appVars,
                        portVars, driverVars
    <3>2. answer.entries = <<>>
      BY <3>1 DEF DetectInv, CandidatesInv
    <3>3. QED
      BY <1>2, <2>2, <3>1, <3>2, FailIsFail
  <2>3. CASE stage' \in {"frontUdp", "open", "ioctl"}
    <3>1. UNCHANGED <<AbsStage, AbsKernel, AbsR3, AbsReport>>
      BY <2>1, <2>3 DEF AbsStage, AbsKernel, AbsR3, AbsReport
    <3>2. QED
      BY <1>1, <3>1
  <2>4. CASE stage' = "afterUdp"
    <3>1. UNCHANGED answer
      BY <1>4, <2>1, <2>4 DEF EnumerateTcp, FrontUdp, OpenDevice, DriverStep, Quit, appVars,
                              portVars, driverVars
    <3>2. UNCHANGED <<AbsStage, AbsKernel, AbsR3, AbsReport>>
      BY <2>1, <2>4, <3>1 DEF AbsStage, AbsKernel, AbsR3, AbsReport, EntriesOf
    <3>3. QED
      BY <1>1, <3>2
  <2>5. QED
    BY <2>1, <2>2, <2>3, <2>4
<1>5. CASE IoctlReturns
  <2>1. stage = "ioctl" /\ UNCHANGED answer
    BY <1>5 DEF IoctlReturns, portVars, driverVars
  <2>2. EntriesOf(answer.entries)' = EntriesOf(answer.entries)
    BY <2>1 DEF EntriesOf
  <2>3. CASE stage' = "after"
    <3>1. Promise!SeeKernel
      BY <1>3, <2>1, <2>2, <2>3 DEF Promise!SeeKernel
    <3>2. QED
      BY <3>1 DEF Promise!Next
  <2>4. CASE stage' = "failed"
    <3>1. answer.entries = <<>>
      BY <1>5, <2>4 DEF IoctlReturns, DetectInv, FoundInv, FailureLosesNothing
    <3>2. QED
      BY <1>2, <2>1, <2>4, <3>1, FailIsFail
  <2>5. QED
    BY <1>5, <2>3, <2>4 DEF IoctlReturns, Quit
<1>6. CASE AfterUdp
  <2>1. stage = "afterUdp" /\ UNCHANGED answer
    BY <1>6 DEF AfterUdp, portVars, driverVars
  <2>2. EntriesOf(answer.entries)' = EntriesOf(answer.entries)
    BY <2>1 DEF EntriesOf
  <2>3. CASE stage' = "compare"
    <3>1. {entry \in EntriesOf(answer.entries) : InR3(entry)}' \in SUBSET Entries
      BY <1>3, <2>2
    <3>2. Promise!SeeR3
      BY <2>1, <2>2, <2>3, <3>1 DEF Promise!SeeR3
    <3>3. QED
      BY <3>2 DEF Promise!Next
  <2>4. CASE stage' = "failed"
    BY <1>2, <2>1, <2>4, FailIsFail
  <2>5. QED
    BY <1>6, <2>3, <2>4 DEF AfterUdp, Quit
<1>7. CASE CompareEntry \/ CountPids \/ FilterEntry
  <2>1. /\ stage \in {"compare", "filter"} /\ stage' \in {"compare", "filter"}
        /\ UNCHANGED <<answer, r3>>
    BY <1>7 DEF CompareEntry, CountPids, FilterEntry, portVars, driverVars
  <2>2. UNCHANGED <<AbsStage, AbsKernel, AbsR3, AbsReport>>
    BY <2>1 DEF AbsStage, AbsKernel, AbsR3, AbsReport, EntriesOf, InR3
  <2>3. QED
    BY <1>1, <2>2
<1>8. CASE Finish
  <2>1. stage = "filter" /\ stage' = "done" /\ UNCHANGED <<answer, r3, candidates>>
    BY <1>8 DEF Finish, portVars, driverVars, hidden
  <2>. DEFINE kernel == EntriesOf(answer.entries)
              listed == {entry \in EntriesOf(answer.entries) : InR3(entry)}
              report == EntriesOf(candidates)
  <2>2. kernel' = kernel /\ listed' = listed /\ report' = report
    BY <2>1 DEF EntriesOf, InR3
  <2>3. report \subseteq kernel \ listed
    <3>1. candidates \in Seq(Unlisted)
      BY DEF DetectInv, CandidatesInv
    <3>2. report \subseteq Unlisted
      BY <3>1 DEF EntriesOf
    <3>3. QED
      BY <3>2 DEF Unlisted
  <2>4. kernel \ report \in SUBSET kernel /\ report = kernel \ (listed \union (kernel \ report))
    BY <2>3
  <2>5. Promise!Report
    <3>. HIDE DEF kernel, listed, report
    <3>1. \E excused \in SUBSET kernel : report' = kernel \ (listed \union excused)
      BY <2>2, <2>4
    <3>. USE DEF kernel, listed, report
    <3>2. QED
      BY <2>1, <2>2, <3>1 DEF Promise!Report
  <2>6. QED
    BY <2>5 DEF Promise!Next
<1>9. CASE UNCHANGED vars \/ (Network /\ UNCHANGED appVars)
  <2>1. UNCHANGED <<stage, r3, candidates, answer>>
    BY <1>9, SteadyShrinks DEF vars, appVars, hidden
  <2>2. UNCHANGED <<AbsStage, AbsKernel, AbsR3, AbsReport>>
    BY <2>1 DEF AbsStage, AbsKernel, AbsR3, AbsReport, EntriesOf, InR3
  <2>3. QED
    BY <1>1, <2>2
<1>10. QED
  BY <1>4, <1>5, <1>6, <1>7, <1>8, <1>9 DEF Next, App

\* The detection keeps the promise of CrossView: what it reports, once, are
\* entries of the driver's answer that neither of user mode's lists has, or it
\* fails and reports nothing.
THEOREM KeepsPromiseThm == Spec => KeepsPromise
<1>1. Init => Promise!Init
  BY DEF Init, Promise!Init
<1>2. QED
  BY <1>1, DetectInvariance, PromiseStep, PTL DEF Spec, KeepsPromise

=============================================================================
