---------------------------- MODULE ProcessProofs ----------------------------
(***************************************************************************)
(* Proofs about the modules ProcessViews and ProcessDetect, for any number *)
(* of processes, any assignment of PIDs and any limits.                    *)
(*                                                                         *)
(* An addition to the accumulator is looked at once (the lemmas Add...),   *)
(* since both views go through AddProcessToAccumulator; the steps of the   *)
(* query then cite those lemmas.  The second half is about the app: a      *)
(* detection takes the query's steps, so what holds of every query holds   *)
(* of the one it issues.                                                   *)
(***************************************************************************)
EXTENDS ProcessDetect, FiniteSetTheorems, SequenceTheorems, TLAPS

-----------------------------------------------------------------------------
(* One addition to the accumulator.                                        *)

AccType ==
  /\ entries \in Seq(Entry)
  /\ cidCount \in Nat /\ threadCount \in Nat
  /\ bitmap \subseteq Pids

\* A flag more on an entry changes its flags only.
LEMMA WithFlagEffect ==
  ASSUME NEW e \in Entry, NEW flag \in ViewFlags
  PROVE  /\ WithFlag(e, flag) \in Entry
         /\ WithFlag(e, flag).pid = e.pid
         /\ WithFlag(e, flag).eprocess = e.eprocess
         /\ WithFlag(e, flag).flags = e.flags \union {flag}
BY DEF WithFlag, Entry

\* What MergeFlag does to the entries: nothing, or one more flag on one entry.
LEMMA MergeEffect ==
  ASSUME AccType, NEW pid, NEW flag \in ViewFlags, MergeFlag(pid, flag)
  PROVE  \E i \in 1..Len(entries) :
           /\ entries[i].pid = pid
           /\ bitmap' = bitmap
           /\ \/ /\ flag \in entries[i].flags
                 /\ UNCHANGED <<entries, cidCount, threadCount>>
              \/ /\ flag \notin entries[i].flags
                 /\ Bump(flag)
                 /\ entries' \in Seq(Entry) /\ Len(entries') = Len(entries)
                 /\ \A j \in 1..Len(entries) :
                      entries'[j] = IF j = i THEN WithFlag(entries[i], flag)
                                             ELSE entries[j]
<1>1. PICK i \in IndexesOf(pid) :
        /\ IF flag \in entries[i].flags
             THEN UNCHANGED <<entries, cidCount, threadCount>>
             ELSE /\ entries' = [entries EXCEPT ![i] = WithFlag(@, flag)]
                  /\ Bump(flag)
        /\ UNCHANGED bitmap
  BY DEF MergeFlag
<1>2. i \in 1..Len(entries) /\ entries[i].pid = pid
  BY DEF IndexesOf
<1>3. entries \in Seq(Entry) /\ entries[i] \in Entry
  BY <1>2 DEF AccType
<1>4. CASE flag \in entries[i].flags
  BY <1>1, <1>2, <1>4
<1>5. CASE flag \notin entries[i].flags
  <2>1. WithFlag(entries[i], flag) \in Entry
    BY <1>3, WithFlagEffect
  <2>2. entries' = [entries EXCEPT ![i] = WithFlag(entries[i], flag)]
    BY <1>1, <1>5
  <2>3. /\ entries' \in Seq(Entry) /\ Len(entries') = Len(entries)
        /\ \A j \in 1..Len(entries) :
             entries'[j] = IF j = i THEN WithFlag(entries[i], flag)
                                    ELSE entries[j]
    BY <1>2, <1>3, <2>1, <2>2, ExceptSeq
  <2>4. QED
    BY <1>1, <1>2, <1>5, <2>3
<1>6. QED
  BY <1>4, <1>5

\* What AppendEntry does to the entries: one more at the end.
LEMMA AppendEffect ==
  ASSUME AccType, NEW o \in Objs, NEW flag \in ViewFlags,
         AppendEntry(PidOf[o], flag, o)
  PROVE  /\ Len(entries) < MaxEntries
         /\ \A i \in 1..Len(entries) : entries[i].pid # PidOf[o]
         /\ entries' \in Seq(Entry) /\ Len(entries') = Len(entries) + 1
         /\ \A i \in 1..Len(entries) : entries'[i] = entries[i]
         /\ entries'[Len(entries) + 1].pid = PidOf[o]
         /\ entries'[Len(entries) + 1].flags = {flag}
         /\ entries'[Len(entries) + 1].eprocess = o
<1>. DEFINE e == [pid |-> PidOf[o], flags |-> {flag}, eprocess |-> o]
<1>1. e \in Entry /\ e.pid = PidOf[o] /\ e.flags = {flag} /\ e.eprocess = o
  BY DEF Entry, Pids
<1>2. entries \in Seq(Entry)
  BY DEF AccType
<1>3. \A i \in 1..Len(entries) : entries[i].pid # PidOf[o]
  BY DEF AppendEntry, IndexesOf
<1>4. Len(entries) < MaxEntries
  BY DEF AppendEntry
<1>5. entries' = Append(entries, e)
  BY DEF AppendEntry
<1>. HIDE DEF e
<1>6. /\ entries' \in Seq(Entry) /\ Len(entries') = Len(entries) + 1
      /\ \A i \in 1..Len(entries) : entries'[i] = entries[i]
      /\ entries'[Len(entries) + 1] = e
  BY <1>1, <1>2, <1>5
<1>7. QED
  BY <1>1, <1>3, <1>4, <1>6

\* An addition keeps the accumulator's type.
LEMMA AddType ==
  ASSUME AccType, NEW o \in Objs, NEW flag \in ViewFlags,
         AddProcessToAccumulator(PidOf[o], flag, o)
  PROVE  AccType'
<1>1. PidOf[o] \in Pids
  BY DEF Pids
<1>2. CASE MergeFlag(PidOf[o], flag)
  BY <1>2, MergeEffect DEF Bump, Count, AccType
<1>3. CASE AppendEntry(PidOf[o], flag, o)
  <2>1. entries' \in Seq(Entry)
    BY <1>3, AppendEffect
  <2>2. cidCount' \in Nat /\ threadCount' \in Nat
    BY <1>3 DEF AppendEntry, Bump, Count, AccType
  <2>3. bitmap' \subseteq Pids
    BY <1>1, <1>3 DEF AppendEntry, SetPidBit, AccType
  <2>4. QED
    BY <2>1, <2>2, <2>3 DEF AccType
<1>4. CASE Overflow(PidOf[o])
  BY <1>4 DEF Overflow, accVars, AccType
<1>5. QED
  BY <1>2, <1>3, <1>4 DEF AddProcessToAccumulator

\* An addition appends an entry or extends one: no entry is lost or renamed.
LEMMA AddGrows ==
  ASSUME AccType, NEW o \in Objs, NEW flag \in ViewFlags,
         AddProcessToAccumulator(PidOf[o], flag, o)
  PROVE  /\ Len(entries') >= Len(entries)
         /\ \A i \in 1..Len(entries) : Extends(i)
<1>1. entries \in Seq(Entry) /\ \A i \in 1..Len(entries) : entries[i] \in Entry
  BY DEF AccType
<1>2. CASE MergeFlag(PidOf[o], flag)
  <2>1. PICK i \in 1..Len(entries) :
          \/ entries' = entries
          \/ /\ Len(entries') = Len(entries)
             /\ \A j \in 1..Len(entries) :
                  entries'[j] = IF j = i THEN WithFlag(entries[i], flag)
                                         ELSE entries[j]
    BY <1>2, MergeEffect
  <2>2. /\ WithFlag(entries[i], flag).pid = entries[i].pid
        /\ WithFlag(entries[i], flag).eprocess = entries[i].eprocess
        /\ WithFlag(entries[i], flag).flags = entries[i].flags \union {flag}
    BY <1>1, WithFlagEffect
  <2>3. QED
    BY <1>1, <2>1, <2>2 DEF Extends
<1>3. CASE AppendEntry(PidOf[o], flag, o)
  BY <1>1, <1>3, AppendEffect DEF Extends
<1>4. CASE Overflow(PidOf[o])
  BY <1>1, <1>4 DEF Overflow, accVars, Extends
<1>5. QED
  BY <1>2, <1>3, <1>4 DEF AddProcessToAccumulator

\* An addition keeps the number of entries within the array.
LEMMA AddFits ==
  ASSUME AccType, Len(entries) <= MaxEntries,
         NEW o \in Objs, NEW flag \in ViewFlags,
         AddProcessToAccumulator(PidOf[o], flag, o)
  PROVE  Len(entries') <= MaxEntries
<1>1. CASE MergeFlag(PidOf[o], flag)
  BY <1>1, MergeEffect
<1>2. CASE AppendEntry(PidOf[o], flag, o)
  BY <1>2, AppendEffect, LimitAssumption DEF AccType
<1>3. CASE Overflow(PidOf[o])
  BY <1>3 DEF Overflow, accVars
<1>4. QED
  BY <1>1, <1>2, <1>3 DEF AddProcessToAccumulator

\* After an addition the PID has an entry, or the array is full.
LEMMA AddFinds ==
  ASSUME AccType, Len(entries) <= MaxEntries,
         NEW o \in Objs, NEW flag \in ViewFlags,
         AddProcessToAccumulator(PidOf[o], flag, o)
  PROVE  \/ \E i \in 1..Len(entries') : entries'[i].pid = PidOf[o]
         \/ Len(entries') = MaxEntries
<1>1. CASE MergeFlag(PidOf[o], flag)
  <2>1. PICK i \in 1..Len(entries) : entries[i].pid = PidOf[o]
    BY <1>1, MergeEffect
  <2>2. Len(entries') >= Len(entries) /\ entries'[i].pid = entries[i].pid
    BY AddGrows DEF Extends
  <2>3. entries \in Seq(Entry) /\ entries' \in Seq(Entry)
    BY AddType DEF AccType
  <2>4. QED
    BY <2>1, <2>2, <2>3
<1>2. CASE AppendEntry(PidOf[o], flag, o)
  BY <1>2, AppendEffect DEF AccType
<1>3. CASE Overflow(PidOf[o])
  BY <1>3, LimitAssumption DEF Overflow, accVars, AccType
<1>4. QED
  BY <1>1, <1>2, <1>3 DEF AddProcessToAccumulator

\* An addition of a process under its own PID keeps one entry per PID: an
\* entry is only appended when the search found none.
LEMMA AddOneEntry ==
  ASSUME AccType, OneEntryPerPid,
         NEW o \in Objs, PidOf[o] # 0, NEW flag \in ViewFlags,
         AddProcessToAccumulator(PidOf[o], flag, o)
  PROVE  OneEntryPerPid'
<1>1. entries \in Seq(Entry) /\ Len(entries) \in Nat
  BY DEF AccType
<1>2. ASSUME Len(entries') = Len(entries)
      PROVE  OneEntryPerPid'
  <2>1. \A i \in 1..Len(entries) : Extends(i)
    BY AddGrows
  <2>2. QED
    BY <1>2, <2>1 DEF OneEntryPerPid, Extends
<1>3. CASE MergeFlag(PidOf[o], flag)
  BY <1>2, <1>3, MergeEffect
<1>4. CASE AppendEntry(PidOf[o], flag, o)
  <2>. DEFINE n == Len(entries)
  <2>1. /\ \A i \in 1..n : entries[i].pid # PidOf[o] /\ entries'[i] = entries[i]
        /\ Len(entries') = n + 1
        /\ entries'[n + 1].pid = PidOf[o] /\ entries'[n + 1].eprocess = o
    BY <1>4, AppendEffect
  <2>2. ASSUME NEW i \in 1..n + 1, NEW j \in 1..n + 1
        PROVE  /\ entries'[i].pid = entries'[j].pid => i = j
               /\ entries'[i].pid = PidOf[entries'[i].eprocess]
               /\ entries'[i].pid # 0
    BY <1>1, <2>1 DEF OneEntryPerPid
  <2>3. QED
    BY <2>1, <2>2 DEF OneEntryPerPid
<1>5. CASE Overflow(PidOf[o])
  BY <1>2, <1>5 DEF Overflow, accVars
<1>6. QED
  BY <1>3, <1>4, <1>5 DEF AddProcessToAccumulator

\* An addition keeps the bitmap equal to the PIDs of the entries it can hold.
LEMMA AddMarks ==
  ASSUME AccType, BitmapMarksEntries,
         NEW o \in Objs, PidOf[o] # 0, NEW flag \in ViewFlags,
         AddProcessToAccumulator(PidOf[o], flag, o)
  PROVE  BitmapMarksEntries'
<1>1. entries \in Seq(Entry) /\ Len(entries) \in Nat
  BY DEF AccType
<1>2. ASSUME Len(entries') = Len(entries), bitmap' = bitmap
      PROVE  BitmapMarksEntries'
  <2>1. \A i \in 1..Len(entries) : entries'[i].pid = entries[i].pid
    BY AddGrows DEF Extends
  <2>2. QED
    BY <1>2, <2>1 DEF BitmapMarksEntries
<1>3. CASE MergeFlag(PidOf[o], flag)
  BY <1>2, <1>3, MergeEffect
<1>4. CASE AppendEntry(PidOf[o], flag, o)
  <2>1. /\ Len(entries') = Len(entries) + 1
        /\ \A i \in 1..Len(entries) : entries'[i] = entries[i]
        /\ entries'[Len(entries) + 1].pid = PidOf[o]
    BY <1>4, AppendEffect
  <2>2. bitmap' = IF PidOf[o] \div 8 < ScanLimit \div 8 + 1
                    THEN bitmap \union {PidOf[o]} ELSE bitmap
    BY <1>4 DEF AppendEntry, SetPidBit
  <2>3. /\ PidOf[o] \div 8 \in Int /\ ScanLimit \div 8 \in Int
    BY PidAssumption, LimitAssumption
  <2>4. PidOf[o] \div 8 < ScanLimit \div 8 + 1 <=> PidOf[o] \div 8 <= ScanLimit \div 8
    BY <2>3
  <2>5. QED
    BY <1>1, <2>1, <2>2, <2>4 DEF BitmapMarksEntries
<1>5. CASE Overflow(PidOf[o])
  BY <1>2, <1>5 DEF Overflow, accVars
<1>6. QED
  BY <1>3, <1>4, <1>5 DEF AddProcessToAccumulator

\* Sets of indexes into the entries are finite.
LEMMA FlaggedFinite ==
  ASSUME AccType, NEW flag
  PROVE  IsFiniteSet(Flagged(flag)) /\ Cardinality(Flagged(flag)) \in Nat
<1>1. Len(entries) \in Nat
  BY DEF AccType
<1>2. IsFiniteSet(1..Len(entries))
  BY <1>1, FS_Interval
<1>3. Flagged(flag) \in SUBSET (1..Len(entries))
  BY DEF Flagged
<1>4. QED
  BY <1>2, <1>3, FS_Subset, FS_CardinalityType

\* An addition counts an entry once per flag.
LEMMA AddCounts ==
  ASSUME AccType, CountsMatchFlags, NEW o \in Objs, NEW flag \in ViewFlags,
         AddProcessToAccumulator(PidOf[o], flag, o)
  PROVE  CountsMatchFlags'
<1>1. entries \in Seq(Entry) /\ Len(entries) \in Nat
      /\ \A i \in 1..Len(entries) : entries[i] \in Entry
  BY DEF AccType
<1>2. ASSUME NEW i, i \notin Flagged(flag), Bump(flag),
             Flagged(flag)' = Flagged(flag) \union {i},
             \A f \in ViewFlags \ {flag} : Flagged(f)' = Flagged(f)
      PROVE  CountsMatchFlags'
  <2>1. Cardinality(Flagged(flag) \union {i}) = Cardinality(Flagged(flag)) + 1
    BY <1>2, FlaggedFinite, FS_AddElement
  <2>2. CASE flag = "cid"
    <3>1. Cardinality(Flagged("cid")') = cidCount'
      BY <1>2, <2>1, <2>2 DEF CountsMatchFlags, Bump, Count
    <3>2. Cardinality(Flagged("thread")') = threadCount'
      BY <1>2, <2>2 DEF CountsMatchFlags, Bump, Count, ViewFlags
    <3>3. QED
      BY <3>1, <3>2 DEF CountsMatchFlags
  <2>3. CASE flag = "thread"
    <3>1. Cardinality(Flagged("thread")') = threadCount'
      BY <1>2, <2>1, <2>3 DEF CountsMatchFlags, Bump, Count
    <3>2. Cardinality(Flagged("cid")') = cidCount'
      BY <1>2, <2>3 DEF CountsMatchFlags, Bump, Count, ViewFlags
    <3>3. QED
      BY <3>1, <3>2 DEF CountsMatchFlags
  <2>4. QED
    BY <2>2, <2>3 DEF ViewFlags
<1>3. ASSUME UNCHANGED accVars
      PROVE  CountsMatchFlags'
  BY <1>3 DEF accVars, CountsMatchFlags, Flagged
<1>4. CASE MergeFlag(PidOf[o], flag)
  <2>1. PICK i \in 1..Len(entries) :
          /\ bitmap' = bitmap
          /\ \/ UNCHANGED <<entries, cidCount, threadCount>>
             \/ /\ flag \notin entries[i].flags
                /\ Bump(flag)
                /\ Len(entries') = Len(entries)
                /\ \A j \in 1..Len(entries) :
                     entries'[j] = IF j = i THEN WithFlag(entries[i], flag)
                                            ELSE entries[j]
    BY <1>4, MergeEffect
  <2>2. CASE UNCHANGED <<entries, cidCount, threadCount>>
    BY <1>3, <2>1, <2>2 DEF accVars
  <2>3. CASE /\ flag \notin entries[i].flags
             /\ Bump(flag)
             /\ Len(entries') = Len(entries)
             /\ \A j \in 1..Len(entries) :
                  entries'[j] = IF j = i THEN WithFlag(entries[i], flag)
                                         ELSE entries[j]
    <3>1. WithFlag(entries[i], flag).flags = entries[i].flags \union {flag}
      BY <1>1, WithFlagEffect
    <3>2. Flagged(flag)' = Flagged(flag) \union {i} /\ i \notin Flagged(flag)
      BY <2>3, <3>1 DEF Flagged
    <3>3. \A f \in ViewFlags \ {flag} : Flagged(f)' = Flagged(f)
      BY <2>3, <3>1 DEF Flagged
    <3>4. QED
      BY <1>2, <2>3, <3>2, <3>3
  <2>4. QED
    BY <2>1, <2>2, <2>3
<1>5. CASE AppendEntry(PidOf[o], flag, o)
  <2>1. /\ Len(entries') = Len(entries) + 1
        /\ \A i \in 1..Len(entries) : entries'[i] = entries[i]
        /\ entries'[Len(entries) + 1].flags = {flag}
    BY <1>5, AppendEffect
  <2>2. /\ Flagged(flag)' = Flagged(flag) \union {Len(entries) + 1}
        /\ Len(entries) + 1 \notin Flagged(flag)
    BY <1>1, <2>1 DEF Flagged
  <2>3. \A f \in ViewFlags \ {flag} : Flagged(f)' = Flagged(f)
    BY <1>1, <2>1 DEF Flagged
  <2>4. QED
    BY <1>2, <1>5, <2>2, <2>3 DEF AppendEntry
<1>6. CASE Overflow(PidOf[o])
  BY <1>3, <1>6 DEF Overflow
<1>7. QED
  BY <1>4, <1>5, <1>6 DEF AddProcessToAccumulator

-----------------------------------------------------------------------------
(* The inductive invariant.                                                *)

\* The accumulator is well formed.
AccInv ==
  /\ AccType
  /\ Len(entries) <= MaxEntries
  /\ OneEntryPerPid
  /\ CountsMatchFlags
  /\ BitmapMarksEntries

\* What the driver may rely on: the CID table has one object per PID, an
\* object that has exited stays so.
MachineInv ==
  /\ \A o, p \in Objs :
       Exists(o) /\ Exists(p) /\ o \notin erased /\ p \notin erased
         /\ PidOf[o] = PidOf[p] => o = p
  /\ \A o \in gone : life[o] \in {"exited", "freed"}
  /\ \A o \in steady : life[o] = "running" /\ o \notin erased

\* Where the query is tells what it holds.
PoolInv ==
  /\ pc \in {"idle", "returned"} => pool = {}
  /\ pc = "init" => pool = {"bitmap"}
  /\ pc = "cid" => pool = {"bitmap", "entries"}
  /\ pc \in {"idle", "init", "returned"} => entries = <<>>

\* An object that had exited when the query began is entered only if it fooled
\* both tests.
Fresh(o) == o \in gone => ReadsAlive(o)
EntriesFresh == \A i \in 1..Len(entries) : Fresh(entries[i].eprocess)
FreshInv == EntriesFresh /\ NoZombieReported

Entered(pid) ==
  \/ \E i \in 1..Len(entries) : entries[i].pid = pid
  \/ Len(entries) = MaxEntries

\* The PIDs View B has passed are entered.
ScanInv ==
  /\ cursor >= 4 /\ cursor % 4 = 0
  /\ pc = "init" => cursor = 4
  /\ pc \in {"cid", "handles"} =>
       \A o \in steady \ NoHandles :
         PidOf[o] \in 4..ScanLimit /\ (PidOf[o] < cursor \/ pc = "handles")
           => Entered(PidOf[o])
  /\ SteadyProcessFound

IInv == TypeOK /\ AccInv /\ MachineInv /\ PoolInv /\ FreshInv /\ ScanInv

\* An addition under a PID other than 0 keeps the accumulator well formed.
LEMMA AddKeepsAcc ==
  ASSUME AccInv, NEW o \in Objs, PidOf[o] # 0, NEW flag \in ViewFlags,
         AddProcessToAccumulator(PidOf[o], flag, o)
  PROVE  AccInv'
BY AddType, AddFits, AddOneEntry, AddCounts, AddMarks DEF AccInv

\* A released accumulator is well formed.
LEMMA EmptyAcc ==
  ASSUME entries' = <<>>, cidCount' = 0, threadCount' = 0, bitmap' = {}
  PROVE  AccInv' /\ Len(entries') = 0
<1>1. Len(entries') = 0 /\ entries' \in Seq(Entry)
  OBVIOUS
<1>2. \A flag : Flagged(flag)' = {}
  BY <1>1 DEF Flagged
<1>3. CountsMatchFlags'
  BY <1>2, FS_EmptySet DEF CountsMatchFlags
<1>4. QED
  BY <1>1, <1>3, LimitAssumption
     DEF AccInv, AccType, OneEntryPerPid, BitmapMarksEntries

\* What is entered stays entered by an addition.
LEMMA AddKeepsEntered ==
  ASSUME AccInv, NEW o \in Objs, NEW flag \in ViewFlags,
         AddProcessToAccumulator(PidOf[o], flag, o),
         NEW pid, Entered(pid)
  PROVE  Entered(pid)'
<1>1. entries \in Seq(Entry) /\ entries' \in Seq(Entry)
  BY AddType DEF AccInv, AccType
<1>2. /\ Len(entries') >= Len(entries) /\ Len(entries') <= MaxEntries
      /\ \A i \in 1..Len(entries) : entries'[i].pid = entries[i].pid
  BY AddGrows, AddFits DEF Extends, AccInv
<1>3. QED
  BY <1>1, <1>2, LimitAssumption DEF Entered

\* The object of every entry after an addition is o or was there before.
LEMMA AddEprocess ==
  ASSUME AccInv, NEW o \in Objs, NEW flag \in ViewFlags,
         AddProcessToAccumulator(PidOf[o], flag, o),
         NEW i \in 1..Len(entries')
  PROVE  \/ entries'[i].eprocess = o
         \/ \E j \in 1..Len(entries) : entries'[i].eprocess = entries[j].eprocess
<1>1. entries \in Seq(Entry) /\ AccType
  BY DEF AccInv, AccType
<1>2. CASE Len(entries') = Len(entries)
  BY <1>1, <1>2, AddGrows DEF Extends
<1>3. CASE AppendEntry(PidOf[o], flag, o)
  BY <1>1, <1>3, AppendEffect
<1>4. QED
  BY <1>1, <1>2, <1>3, MergeEffect
     DEF AddProcessToAccumulator, Overflow, accVars

\* The accumulator's invariant depends on the accumulator only.
LEMMA SameAcc ==
  ASSUME AccInv, UNCHANGED accVars
  PROVE  AccInv'
BY DEF AccInv, AccType, accVars, OneEntryPerPid, CountsMatchFlags, Flagged,
       BitmapMarksEntries

-----------------------------------------------------------------------------
(* The invariant holds initially and is kept by every action.              *)

\* The invariant holds in the initial states.
LEMMA InitInv == QueryInit => IInv
<1>. SUFFICES ASSUME QueryInit PROVE IInv
  OBVIOUS
<1>1. Len(entries) = 0 /\ Len(response.entries) = 0
  BY DEF QueryInit, NoResponse
<1>2. TypeOK
  BY DEF QueryInit, TypeOK, Lives, NoResponse, Response
<1>3. AccInv
  <2>1. \A flag : Flagged(flag) = {}
    BY <1>1 DEF Flagged
  <2>2. CountsMatchFlags
    BY <2>1, FS_EmptySet DEF CountsMatchFlags, QueryInit
  <2>3. QED
    BY <1>1, <1>2, <2>2, LimitAssumption
       DEF AccInv, AccType, TypeOK, OneEntryPerPid, BitmapMarksEntries, QueryInit
<1>4. MachineInv
  <2>1. ASSUME NEW o \in Objs, NEW p \in Objs,
               Exists(o), Exists(p), o \notin erased, p \notin erased,
               PidOf[o] = PidOf[p]
        PROVE  o = p
    <3>1. o \in CidLookup(PidOf[o]) /\ p \in CidLookup(PidOf[o])
      BY <2>1 DEF CidLookup
    <3>2. QED
      BY <3>1 DEF QueryInit
  <2>2. QED
    BY <2>1 DEF MachineInv, QueryInit
<1>5. PoolInv /\ FreshInv
  BY <1>1 DEF PoolInv, FreshInv, EntriesFresh, NoZombieReported, QueryInit
<1>6. ScanInv
  BY DEF ScanInv, SteadyProcessFound, QueryInit
<1>7. QED
  BY <1>2, <1>3, <1>4, <1>5, <1>6 DEF IInv

\* What happens to processes keeps the invariant.
LEMMA EnvironmentInv ==
  ASSUME IInv, Environment
  PROVE  IInv'
<1>. USE DEF IInv
<1>1. /\ UNCHANGED <<pc, cursor, snapshot, pool, response, gone, unopened>>
      /\ UNCHANGED accVars
      /\ steady' \subseteq steady /\ watched' \subseteq watched
  BY DEF Environment, Create, Exit, Delete, Erase, histVars
<1>2. TypeOK'
  <2>1. life' \in [Objs -> Lives] /\ erased' \subseteq Objs
    BY DEF Environment, Create, Exit, Delete, Erase, TypeOK, Lives
  <2>2. QED
    BY <1>1, <2>1 DEF TypeOK, accVars
<1>3. AccInv'
  BY <1>1, SameAcc
<1>4. MachineInv'
  <2>1. PICK o \in Objs : Create(o) \/ Exit(o) \/ Delete(o) \/ Erase(o)
    BY DEF Environment
  <2>. USE DEF TypeOK, Lives, MachineInv, Exists
  <2>2. CASE Create(o)
    <3>1. \A p \in Objs : Exists(p) /\ p \notin erased => PidOf[p] # PidOf[o]
      BY <2>2 DEF Create, CidLookup
    <3>2. life[o] = "unborn" /\ life' = [life EXCEPT ![o] = "running"]
          /\ UNCHANGED <<erased, steady, gone>>
      BY <2>2 DEF Create, histVars
    <3>3. QED
      BY <3>1, <3>2
  <2>3. CASE Exit(o)
    <3>1. PICK l \in {"stopping", "exited"} :
            /\ life[o] \in {"running", "stopping"}
            /\ life' = [life EXCEPT ![o] = l]
            /\ steady' = steady \ {o}
            /\ UNCHANGED <<erased, gone>>
      BY <2>3 DEF Exit
    <3>2. QED
      BY <3>1
  <2>4. CASE Delete(o)
    <3>1. /\ life[o] = "exited" /\ life' = [life EXCEPT ![o] = "freed"]
          /\ UNCHANGED <<erased, steady, gone>>
      BY <2>4 DEF Delete, histVars
    <3>2. QED
      BY <3>1
  <2>5. CASE Erase(o)
    BY <2>5 DEF Erase
  <2>6. QED
    BY <2>1, <2>2, <2>3, <2>4, <2>5
<1>5. PoolInv' /\ FreshInv'
  BY <1>1 DEF PoolInv, FreshInv, EntriesFresh, Fresh, ReadsAlive, NoZombieReported,
              accVars
<1>6. ScanInv'
  BY <1>1 DEF ScanInv, SteadyProcessFound, Answered, Entered, accVars
<1>7. QED
  BY <1>2, <1>3, <1>4, <1>5, <1>6

\* A failure leaves an empty accumulator and an answer without entries.
LEMMA FailEffect ==
  ASSUME NEW st \in {"no_memory", "failed"}, TypeOK, Fail(st)
  PROVE  /\ AccInv' /\ Len(entries') = 0 /\ entries' = <<>>
         /\ pc' = "returned"
         /\ pool' = pool \ {"bitmap", "entries"}
         /\ response' \in Response /\ Len(response'.entries) = 0
         /\ response'.status # "success"
<1>1. entries' = <<>> /\ cidCount' = 0 /\ threadCount' = 0 /\ bitmap' = {}
  BY DEF Fail, FreePidAccumulator
<1>2. /\ response' \in Response /\ response'.entries = <<>>
      /\ response'.status = st
  <2>1. response' = [status |-> st, entries |-> <<>>, cid |-> 0, thread |-> 0]
    BY DEF Fail, NoResponse
  <2>2. <<>> \in Seq(Entry)
    OBVIOUS
  <2>3. QED
    BY <2>1, <2>2 DEF Response
<1>3. QED
  BY <1>1, <1>2, EmptyAcc DEF Fail, FreePidAccumulator

\* Entering a query keeps the invariant.
LEMMA BeginQueryInv ==
  ASSUME IInv, BeginQuery
  PROVE  IInv'
<1>. USE DEF IInv
<1>1. /\ pc \in {"idle", "returned"} /\ cursor' = 4
      /\ UNCHANGED <<life, erased, snapshot>>
      /\ steady' = {o \in Objs : life[o] = "running" /\ o \notin erased}
      /\ gone' = {o \in Objs : life[o] = "exited"} /\ watched' = {}
      /\ unopened' = {}
  BY DEF BeginQuery, envVars
<1>2. entries = <<>> /\ pool = {}
  BY <1>1 DEF PoolInv
<1>3. /\ AccInv' /\ Len(entries') = 0 /\ entries' = <<>>
      /\ response' \in Response /\ Len(response'.entries) = 0
      /\ \/ pc' = "init" /\ pool' = {"bitmap"}
         \/ pc' = "returned" /\ pool' = {} /\ response'.status # "success"
  <2>1. CASE /\ pool' = pool \union {"bitmap"}
             /\ response' = NoResponse
             /\ pc' = "init"
             /\ UNCHANGED accVars
    BY <1>2, <2>1, SameAcc DEF NoResponse, Response, accVars
  <2>2. CASE Fail("no_memory")
    BY <1>2, <2>2, FailEffect
  <2>3. QED
    BY <2>1, <2>2 DEF BeginQuery
<1>4. TypeOK'
  BY <1>1, <1>3 DEF TypeOK, AccInv, AccType
<1>5. MachineInv'
  BY <1>1 DEF MachineInv, Exists
<1>6. PoolInv' /\ FreshInv'
  BY <1>3 DEF PoolInv, FreshInv, EntriesFresh, NoZombieReported
<1>7. ScanInv'
  BY <1>1, <1>3 DEF ScanInv, SteadyProcessFound
<1>8. QED
  BY <1>3, <1>4, <1>5, <1>6, <1>7

\* The second allocation keeps the invariant, whether it succeeds or not.
LEMMA AllocEntriesInv ==
  ASSUME IInv, AllocEntries
  PROVE  IInv'
<1>. USE DEF IInv
<1>1. /\ pc = "init" /\ pool = {"bitmap"} /\ entries = <<>> /\ cursor = 4
      /\ UNCHANGED <<life, erased, cursor, snapshot, histVars>>
      /\ UNCHANGED <<steady, watched, gone, unopened>>
  BY DEF AllocEntries, PoolInv, ScanInv, envVars, histVars
<1>2. /\ AccInv' /\ Len(entries') = 0 /\ entries' = <<>>
      /\ response' \in Response
      /\ \/ /\ pc' = "cid" /\ pool' = {"bitmap", "entries"}
            /\ response' = response
         \/ /\ pc' = "returned" /\ pool' = {}
            /\ Len(response'.entries) = 0 /\ response'.status # "success"
  <2>1. CASE /\ pool' = pool \union {"entries"}
             /\ pc' = "cid"
             /\ UNCHANGED <<accVars, response>>
    BY <1>1, <2>1, SameAcc DEF accVars, TypeOK
  <2>2. CASE Fail("no_memory")
    BY <1>1, <2>2, FailEffect
  <2>3. QED
    BY <2>1, <2>2 DEF AllocEntries
<1>3. TypeOK'
  BY <1>1, <1>2 DEF TypeOK, AccInv, AccType
<1>4. MachineInv'
  BY <1>1 DEF MachineInv, Exists
<1>5. PoolInv' /\ FreshInv'
  BY <1>1, <1>2 DEF PoolInv, FreshInv, EntriesFresh, Fresh, ReadsAlive,
                    NoZombieReported
<1>6. ScanInv'
  BY <1>1, <1>2 DEF ScanInv, SteadyProcessFound
<1>7. QED
  BY <1>2, <1>3, <1>4, <1>5, <1>6

\* What the query does to the accumulator when it visits object o: nothing, or
\* an addition of a process that reads as alive.
Visit(o, flag) ==
  \/ UNCHANGED accVars
  \/ /\ PidOf[o] # 0 /\ Fresh(o)'
     /\ AddProcessToAccumulator(PidOf[o], flag, o)

\* The test and the addition are a visit, and the history only grows by them.
LEMMA AddIsVisit ==
  ASSUME IInv, NEW o \in Objs, Exists(o), NEW flag \in ViewFlags,
         AddUnlessDead(o, flag), UNCHANGED gone
  PROVE  Visit(o, flag) /\ unopened \subseteq unopened' /\ unopened' \subseteq gone
<1>1. PICK opened \in OpenOutcomes(o) :
        /\ IF IsDeadProcess(o, opened)
             THEN UNCHANGED accVars
             ELSE AddProcessToAccumulator(PidOf[o], flag, o)
        /\ unopened' = IF opened = {o} THEN unopened
                                       ELSE unopened \union (gone \intersect {o})
  BY DEF AddUnlessDead
<1>2. unopened \subseteq unopened' /\ unopened' \subseteq gone
  BY <1>1 DEF IInv, TypeOK
<1>3. ASSUME ~IsDeadProcess(o, opened), o \in gone
      PROVE  o \in PendingExit /\ o \in unopened'
  <2>1. life[o] = "exited"
    BY <1>3 DEF IInv, MachineInv, Exists
  <2>2. o \in PendingExit /\ opened # {o}
    BY <1>3, <2>1 DEF IsDeadProcess
  <2>3. QED
    BY <1>1, <1>3, <2>2
<1>4. CASE IsDeadProcess(o, opened)
  BY <1>1, <1>2, <1>4 DEF Visit
<1>5. CASE ~IsDeadProcess(o, opened)
  <2>1. PidOf[o] # 0
    BY <1>5 DEF IsDeadProcess
  <2>2. QED
    BY <1>1, <1>2, <1>3, <1>5, <2>1 DEF Visit, Fresh, ReadsAlive
<1>6. QED
  BY <1>4, <1>5

\* A visit keeps what the invariant says of the accumulator and loses nothing.
LEMMA VisitInv ==
  ASSUME IInv, NEW o \in Objs, NEW flag \in ViewFlags, Visit(o, flag),
         UNCHANGED gone, unopened \subseteq unopened'
  PROVE  /\ AccInv'
         /\ EntriesFresh'
         /\ \A pid : Entered(pid) => Entered(pid)'
<1>. USE DEF IInv
<1>1. CASE UNCHANGED accVars
  <2>1. EntriesFresh'
    BY <1>1 DEF FreshInv, EntriesFresh, Fresh, ReadsAlive, accVars
  <2>2. QED
    BY <1>1, <2>1, SameAcc DEF accVars, Entered
<1>2. CASE /\ PidOf[o] # 0 /\ Fresh(o)'
           /\ AddProcessToAccumulator(PidOf[o], flag, o)
  <2>1. AccInv'
    BY <1>2, AddKeepsAcc
  <2>2. \A pid : Entered(pid) => Entered(pid)'
    BY <1>2, AddKeepsEntered
  <2>3. EntriesFresh'
    BY <1>2, AddEprocess DEF FreshInv, EntriesFresh, Fresh, ReadsAlive
  <2>4. QED
    BY <2>1, <2>2, <2>3
<1>3. QED
  BY <1>1, <1>2 DEF Visit

\* One PID of View B keeps the invariant: if a process has run under that PID
\* since the query began, it is the one found, it is not taken for dead, and it
\* is entered.
LEMMA CidStepInv ==
  ASSUME IInv, CidStep
  PROVE  IInv'
<1>. USE DEF IInv
<1>1. /\ pc = "cid" /\ cursor <= ScanLimit /\ cursor' = cursor + 4
      /\ UNCHANGED <<life, erased, pc, snapshot, pool, response, steady, watched, gone>>
  BY DEF CidStep, envVars
<1>2. /\ cursor \in Nat /\ cursor >= 4 /\ cursor % 4 = 0
      /\ cursor' >= 4 /\ cursor' % 4 = 0
  BY <1>1 DEF TypeOK, ScanInv
<1>3. CASE CidLookup(cursor) = {} /\ UNCHANGED <<accVars, unopened>>
  <2>1. AccInv' /\ FreshInv'
    BY <1>1, <1>3, SameAcc
       DEF accVars, FreshInv, EntriesFresh, Fresh, ReadsAlive, NoZombieReported
  <2>2. ASSUME NEW o \in steady
        PROVE  PidOf[o] # cursor
    <3>1. o \in Objs /\ life[o] = "running" /\ o \notin erased
      BY DEF MachineInv, TypeOK
    <3>2. QED
      BY <1>3, <3>1 DEF CidLookup, Exists
  <2>3. ASSUME NEW o \in steady \ NoHandles,
               PidOf[o] \in 4..ScanLimit, PidOf[o] < cursor'
        PROVE  Entered(PidOf[o])'
    <3>1. PidOf[o] \in Nat /\ PidOf[o] % 4 = 0
      BY PidAssumption DEF TypeOK
    <3>2. PidOf[o] < cursor
      BY <1>1, <1>2, <2>2, <2>3, <3>1
    <3>3. QED
      BY <1>1, <1>3, <2>3, <3>2 DEF ScanInv, Entered, accVars
  <2>4. QED
    BY <1>1, <1>2, <1>3, <2>1, <2>3
       DEF TypeOK, AccInv, AccType, MachineInv, Exists, PoolInv, accVars, ScanInv,
           SteadyProcessFound
<1>4. CASE \E o \in CidLookup(cursor) : AddUnlessDead(o, "cid")
  <2>. PICK o \in CidLookup(cursor) : AddUnlessDead(o, "cid")
    BY <1>4
  <2>1. PICK opened \in OpenOutcomes(o) :
          IF IsDeadProcess(o, opened)
            THEN UNCHANGED accVars
            ELSE AddProcessToAccumulator(PidOf[o], "cid", o)
    BY DEF AddUnlessDead
  <2>2. /\ o \in Objs /\ Exists(o) /\ o \notin erased /\ PidOf[o] = cursor
    BY DEF CidLookup
  <2>3. /\ Visit(o, "cid")
        /\ unopened \subseteq unopened' /\ unopened' \subseteq gone
    BY <1>1, <2>2, AddIsVisit DEF ViewFlags
  <2>4. /\ AccInv' /\ EntriesFresh'
        /\ \A pid : Entered(pid) => Entered(pid)'
    BY <1>1, <2>2, <2>3, VisitInv DEF ViewFlags
  <2>5. ASSUME NEW q \in steady \ NoHandles,
               PidOf[q] \in 4..ScanLimit, PidOf[q] < cursor'
        PROVE  Entered(PidOf[q])'
    <3>1. /\ q \in Objs /\ PidOf[q] \in Nat /\ PidOf[q] % 4 = 0
          /\ life[q] = "running" /\ q \notin erased
      BY PidAssumption DEF TypeOK, MachineInv
    <3>2. CASE PidOf[q] < cursor
      BY <1>1, <2>4, <2>5, <3>2 DEF ScanInv
    <3>3. CASE PidOf[q] = cursor
      <4>1. q = o
        BY <2>2, <3>1, <3>3 DEF MachineInv, Exists
      <4>2. CidLookup(PidOf[o]) = {o}
        BY <2>2 DEF CidLookup, MachineInv
      <4>3. ~IsDeadProcess(o, opened)
        BY <1>2, <2>2, <2>5, <3>1, <4>1, <4>2 DEF IsDeadProcess, OpenOutcomes
      <4>4. AddProcessToAccumulator(PidOf[o], "cid", o)
        BY <2>1, <2>2, <4>3
      <4>5. QED
        BY <2>2, <4>1, <4>4, AddFinds DEF Entered, AccInv, ViewFlags
    <3>4. QED
      BY <1>1, <1>2, <2>5, <3>1, <3>2, <3>3
  <2>6. FreshInv'
    BY <1>1, <2>3, <2>4 DEF FreshInv, NoZombieReported, ReadsAlive
  <2>7. QED
    BY <1>1, <1>2, <2>3, <2>4, <2>5, <2>6
       DEF TypeOK, AccInv, AccType, MachineInv, Exists, PoolInv, ScanInv,
           SteadyProcessFound
<1>5. QED
  BY <1>3, <1>4 DEF CidStep

\* Taking the snapshot keeps the invariant: View B is complete by then.
LEMMA TakeSnapshotInv ==
  ASSUME IInv, TakeSnapshot
  PROVE  IInv'
<1>. USE DEF IInv
<1>1. /\ pc = "cid" /\ cursor > ScanLimit
      /\ UNCHANGED <<life, erased, cursor, steady, gone, unopened>>
  BY DEF TakeSnapshot, envVars
<1>2. MachineInv'
  BY <1>1 DEF MachineInv, Exists
<1>3. CASE /\ snapshot' \in SUBSET {h \in Handle : Exists(h.owner)}
           /\ watched' = {h.owner : h \in {g \in snapshot' :
                            g.type = "process" /\ life[g.owner] = "running"}}
           /\ pool' = pool \union {"handles"}
           /\ pc' = "handles"
           /\ UNCHANGED <<accVars, response>>
  <2>1. AccInv'
    BY <1>3, SameAcc
  <2>2. watched' \subseteq Objs /\ snapshot' \subseteq Handle
    BY <1>3 DEF Handle
  <2>3. TypeOK'
    BY <1>1, <1>3, <2>2 DEF TypeOK, accVars
  <2>4. PoolInv' /\ FreshInv'
    BY <1>1, <1>3 DEF PoolInv, FreshInv, EntriesFresh, Fresh, ReadsAlive,
                      NoZombieReported, accVars
  <2>5. \A o \in steady \ NoHandles :
          PidOf[o] \in 4..ScanLimit => PidOf[o] < cursor
    BY <1>1, LimitAssumption DEF TypeOK
  <2>6. ScanInv'
    BY <1>1, <1>3, <2>5 DEF ScanInv, SteadyProcessFound, Entered, accVars
  <2>7. QED
    BY <1>2, <2>1, <2>3, <2>4, <2>6
<1>4. CASE Fail("failed") /\ UNCHANGED <<snapshot, watched>>
  <2>1. /\ AccInv' /\ Len(entries') = 0 /\ entries' = <<>>
        /\ pc' = "returned" /\ pool' = {}
        /\ response' \in Response /\ Len(response'.entries) = 0
        /\ response'.status # "success"
    BY <1>1, <1>4, FailEffect DEF PoolInv
  <2>2. QED
    BY <1>1, <1>2, <1>4, <2>1
       DEF TypeOK, AccInv, AccType, PoolInv, FreshInv, EntriesFresh,
           NoZombieReported, ScanInv, SteadyProcessFound
<1>5. QED
  BY <1>3, <1>4 DEF TakeSnapshot

\* One handle of View C keeps the invariant, whatever its pointer leads to.
LEMMA HandleStepInv ==
  ASSUME IInv, HandleStep
  PROVE  IInv'
<1>. USE DEF IInv
<1>1. /\ pc = "handles" /\ snapshot' \subseteq snapshot
      /\ UNCHANGED <<life, erased, pc, cursor, pool, response, steady, watched, gone>>
  BY DEF HandleStep, envVars
<1>2. PICK h \in snapshot :
        \/ MayBeInvalid(h) /\ UNCHANGED <<accVars, unopened>>
        \/ \E o \in Referents(h) : AddAliveProcessFromHandleView(o)
  BY DEF HandleStep
<1>3. /\ AccInv' /\ EntriesFresh'
      /\ unopened \subseteq unopened' /\ unopened' \subseteq gone
      /\ \A pid : Entered(pid) => Entered(pid)'
  <2>1. CASE UNCHANGED <<accVars, unopened>>
    BY <1>1, <2>1, SameAcc
       DEF accVars, Entered, FreshInv, EntriesFresh, Fresh, ReadsAlive, TypeOK
  <2>2. CASE \E o \in Referents(h) : AddAliveProcessFromHandleView(o)
    <3>1. PICK o \in Referents(h) : AddAliveProcessFromHandleView(o)
      BY <2>2
    <3>2. o \in Objs /\ Exists(o)
      BY DEF Referents, TypeOK, Handle
    <3>3. /\ Visit(o, "thread")
          /\ unopened \subseteq unopened' /\ unopened' \subseteq gone
      BY <1>1, <3>1, <3>2, AddIsVisit DEF AddAliveProcessFromHandleView, ViewFlags
    <3>4. QED
      BY <1>1, <3>2, <3>3, VisitInv DEF ViewFlags
  <2>3. QED
    BY <1>2, <2>1, <2>2
<1>4. MachineInv'
  BY <1>1 DEF MachineInv, Exists
<1>5. FreshInv'
  BY <1>1, <1>3 DEF FreshInv, NoZombieReported, ReadsAlive
<1>6. QED
  BY <1>1, <1>3, <1>4, <1>5
     DEF TypeOK, AccInv, AccType, PoolInv, ScanInv, SteadyProcessFound

\* The answer holds what was entered.
LEMMA ReplyInv ==
  ASSUME IInv, Reply
  PROVE  IInv'
<1>. USE DEF IInv
<1>1. /\ pc = "handles" /\ pc' = "returned"
      /\ response' = [status |-> "success", entries |-> entries,
                      cid |-> cidCount, thread |-> threadCount]
      /\ entries' = <<>> /\ cidCount' = 0 /\ threadCount' = 0 /\ bitmap' = {}
      /\ pool' = {}
      /\ UNCHANGED <<life, erased, cursor, snapshot, steady, watched, gone, unopened>>
  BY DEF Reply, TypeOK, envVars, histVars
<1>2. AccInv' /\ Len(entries') = 0
  BY <1>1, EmptyAcc
<1>3. /\ response' \in Response /\ response'.entries = entries
      /\ response'.status = "success"
  BY <1>1 DEF TypeOK, Response
<1>4. TypeOK'
  BY <1>1, <1>2, <1>3 DEF TypeOK, AccInv, AccType
<1>5. MachineInv' /\ PoolInv'
  BY <1>1 DEF MachineInv, Exists, PoolInv
<1>6. FreshInv'
  BY <1>1, <1>2, <1>3 DEF FreshInv, EntriesFresh, Fresh, ReadsAlive, NoZombieReported
<1>7. SteadyProcessFound'
  BY <1>1, <1>3 DEF ScanInv, SteadyProcessFound, Answered, Entered
<1>8. ScanInv'
  BY <1>1, <1>7 DEF ScanInv
<1>9. QED
  BY <1>2, <1>4, <1>5, <1>6, <1>8

\* Every step of a query, and of the machine around it, keeps the invariant.
LEMMA QueryStepInv == IInv /\ [QueryNext]_queryVars => IInv'
<1>. SUFFICES ASSUME IInv, [QueryNext]_queryVars PROVE IInv'
  OBVIOUS
<1>1. CASE UNCHANGED queryVars
  BY <1>1, SameAcc
     DEF IInv, queryVars, envVars, accVars, histVars, TypeOK, MachineInv, Exists,
         PoolInv, FreshInv, EntriesFresh, Fresh, ReadsAlive, NoZombieReported,
         ScanInv, SteadyProcessFound, Answered, Entered
<1>2. QED
  BY <1>1, BeginQueryInv, AllocEntriesInv, CidStepInv, TakeSnapshotInv,
     HandleStepInv, ReplyInv, EnvironmentInv DEF QueryNext, Driver

\* IInv is an inductive invariant.
THEOREM Invariance == QuerySpec => []IInv
BY InitInv, QueryStepInv, PTL DEF QuerySpec

-----------------------------------------------------------------------------
(* What View C makes of the handles.                                       *)

\* No other process ever has the PID of o.
OwnPid(o) == PidOf[o] # 0 /\ \A q \in Objs \ {o} : PidOf[q] # PidOf[o]

ProcessHandle(o) == [type |-> "process", owner |-> o]

\* A watched process runs, and is entered or has its handle still to come.
HandleInv ==
  /\ \A o \in watched : life[o] = "running"
  /\ pc = "handles" =>
       \A o \in watched \ NoHandles :
         OwnPid(o) => Entered(PidOf[o]) \/ ProcessHandle(o) \in snapshot
  /\ HandleFindsErased

\* What the machine does keeps the watched processes' entries and handles.
LEMMA EnvironmentHandles ==
  ASSUME IInv, HandleInv, Environment
  PROVE  HandleInv'
<1>1. /\ UNCHANGED <<pc, entries, snapshot, response>>
      /\ watched' \subseteq watched
  BY DEF Environment, accVars, Create, Exit, Delete, Erase, histVars
<1>2. \A o \in watched' : life'[o] = "running"
  <2>. SUFFICES ASSUME NEW o \in watched' PROVE life'[o] = "running"
    OBVIOUS
  <2>1. o \in Objs /\ life[o] = "running" /\ life \in [Objs -> Lives]
    BY <1>1 DEF HandleInv, IInv, TypeOK
  <2>2. PICK p \in Objs : Create(p) \/ Exit(p) \/ Delete(p) \/ Erase(p)
    BY DEF Environment
  <2>3. CASE p = o
    BY <2>1, <2>2, <2>3 DEF Create, Exit, Delete, Erase
  <2>4. CASE p # o
    BY <2>1, <2>2, <2>4 DEF Create, Exit, Delete, Erase
  <2>5. QED
    BY <2>3, <2>4
<1>3. QED
  BY <1>1, <1>2 DEF HandleInv, HandleFindsErased, Answered, Entered

\* The handle of a process that runs leads to it, and the process is not taken
\* for dead, so that the visit enters it.
LEMMA HandleStepHandles ==
  ASSUME IInv, HandleInv, HandleStep
  PROVE  HandleInv'
<1>. USE DEF IInv
<1>1. pc = "handles" /\ UNCHANGED <<life, erased, pc, response, watched>>
  BY DEF HandleStep, envVars
<1>2. PICK h \in snapshot :
        /\ \/ MayBeInvalid(h) /\ UNCHANGED <<accVars, unopened>>
           \/ \E o \in Referents(h) : AddAliveProcessFromHandleView(o)
        /\ snapshot' = snapshot \ {h}
  BY DEF HandleStep
<1>3. h \in Handle /\ h.owner \in Objs
  BY DEF TypeOK, Handle
<1>4. \A pid : Entered(pid) => Entered(pid)'
  <2>1. CASE UNCHANGED accVars
    BY <2>1 DEF accVars, Entered
  <2>2. CASE \E o \in Referents(h) : AddAliveProcessFromHandleView(o)
    <3>1. PICK o \in Referents(h) : AddAliveProcessFromHandleView(o)
      BY <2>2
    <3>2. o \in Objs
      BY <1>3 DEF Referents
    <3>3. \/ UNCHANGED accVars
          \/ AddProcessToAccumulator(PidOf[o], "thread", o)
      BY <3>1 DEF AddAliveProcessFromHandleView, AddUnlessDead
    <3>4. QED
      BY <2>1, <3>2, <3>3, AddKeepsEntered DEF ViewFlags
  <2>3. QED
    BY <1>2, <2>1, <2>2
<1>5. ASSUME NEW o \in watched \ NoHandles, OwnPid(o), ProcessHandle(o) = h
      PROVE  Entered(PidOf[o])'
  <2>1. o \in Objs /\ h.owner = o /\ h.type = "process" /\ life[o] = "running"
    BY <1>5 DEF ProcessHandle, HandleInv, TypeOK
  <2>2. ~MayBeInvalid(h) /\ Referents(h) = {o}
    BY <2>1 DEF MayBeInvalid, Referents, Exists
  <2>3. AddAliveProcessFromHandleView(o)
    BY <1>2, <2>2
  <2>4. CidLookup(PidOf[o]) \subseteq {o}
    BY <1>5, <2>1 DEF CidLookup, OwnPid
  <2>5. \A opened \in OpenOutcomes(o) : ~IsDeadProcess(o, opened)
    BY <1>5, <2>1, <2>4 DEF OpenOutcomes, IsDeadProcess, OwnPid
  <2>6. AddProcessToAccumulator(PidOf[o], "thread", o)
    BY <2>3, <2>5 DEF AddAliveProcessFromHandleView, AddUnlessDead
  <2>7. QED
    BY <2>1, <2>6, AddFinds DEF Entered, AccInv, ViewFlags
<1>6. ASSUME NEW o \in watched \ NoHandles, OwnPid(o)
      PROVE  Entered(PidOf[o])' \/ ProcessHandle(o) \in snapshot'
  BY <1>1, <1>2, <1>4, <1>5, <1>6 DEF HandleInv
<1>7. QED
  BY <1>1, <1>6 DEF HandleInv, HandleFindsErased, OwnPid

LEMMA QueryStepHandles == IInv /\ HandleInv /\ [QueryNext]_queryVars => HandleInv'
<1>. SUFFICES ASSUME IInv, HandleInv, [QueryNext]_queryVars PROVE HandleInv'
  OBVIOUS
<1>1. CASE UNCHANGED queryVars
  BY <1>1 DEF queryVars, envVars, accVars, histVars, HandleInv, HandleFindsErased,
              Answered, Entered
<1>2. CASE BeginQuery
  BY <1>2 DEF BeginQuery, Fail, NoResponse, HandleInv, HandleFindsErased
<1>3. CASE AllocEntries
  BY <1>3 DEF AllocEntries, Fail, NoResponse, HandleInv, HandleFindsErased, envVars,
              histVars
<1>4. CASE CidStep
  BY <1>4 DEF CidStep, HandleInv, HandleFindsErased, envVars
<1>5. CASE TakeSnapshot
  <2>1. CASE Fail("failed") /\ UNCHANGED <<snapshot, watched>>
    BY <1>5, <2>1 DEF TakeSnapshot, Fail, NoResponse, HandleInv, HandleFindsErased,
                      envVars
  <2>2. CASE /\ snapshot' \in SUBSET {h \in Handle : Exists(h.owner)}
             /\ watched' = {h.owner : h \in {g \in snapshot' :
                              g.type = "process" /\ life[g.owner] = "running"}}
             /\ pc' = "handles"
    <3>1. ASSUME NEW o \in watched'
          PROVE  ProcessHandle(o) \in snapshot' /\ life[o] = "running"
      <4>1. PICK h \in snapshot' :
              h.type = "process" /\ life[h.owner] = "running" /\ h.owner = o
        BY <2>2, <3>1
      <4>2. h = ProcessHandle(o)
        BY <2>2, <4>1 DEF Handle, ProcessHandle
      <4>3. QED
        BY <4>1, <4>2
    <3>2. UNCHANGED life
      BY <1>5 DEF TakeSnapshot, envVars
    <3>3. QED
      BY <2>2, <3>1, <3>2 DEF HandleInv, HandleFindsErased
  <2>3. QED
    BY <1>5, <2>1, <2>2 DEF TakeSnapshot
<1>6. CASE Reply
  <2>1. /\ pc = "handles" /\ snapshot = {} /\ pc' = "returned"
        /\ response'.entries = entries
        /\ UNCHANGED <<life, watched>>
    BY <1>6 DEF Reply, envVars, histVars
  <2>2. \A o \in watched \ NoHandles : OwnPid(o) => Entered(PidOf[o])
    BY <2>1 DEF HandleInv
  <2>3. HandleFindsErased'
    BY <2>1, <2>2 DEF HandleFindsErased, Answered, Entered, OwnPid
  <2>4. QED
    BY <2>1, <2>3 DEF HandleInv
<1>7. QED
  BY <1>1, <1>2, <1>3, <1>4, <1>5, <1>6, EnvironmentHandles, HandleStepHandles
     DEF QueryNext, Driver

LEMMA InitHandles == QueryInit => HandleInv
BY DEF QueryInit, HandleInv, HandleFindsErased

-----------------------------------------------------------------------------
(* What follows.                                                           *)

\* Every variable keeps its type.
THEOREM TypeCorrect == QuerySpec => []TypeOK
BY Invariance, PTL DEF IInv

\* However the two views and the processes' lives interleave, no PID has two
\* entries, and an entry's EPROCESS has the entry's PID.
THEOREM OneEntryPerPidThm == QuerySpec => []OneEntryPerPid
BY Invariance, PTL DEF IInv, AccInv

\* The two counts of the answer are the numbers of entries with each flag.
THEOREM CountsMatchFlagsThm == QuerySpec => []CountsMatchFlags
BY Invariance, PTL DEF IInv, AccInv

\* Every way out of the query gives its pool blocks back.
THEOREM NoPoolLeakThm == QuerySpec => []NoPoolLeak
BY Invariance, PTL DEF IInv, PoolInv, NoPoolLeak

\* A process that had exited before the query is in the answer only if its exit
\* code is STATUS_PENDING and a test could not open it by its PID.
THEOREM NoZombieReportedThm == QuerySpec => []NoZombieReported
BY Invariance, PTL DEF IInv, FreshInv

\* A process that runs, with handles and in the CID table, through the whole
\* query is in the answer unless the answer is full.
THEOREM SteadyProcessFoundThm == QuerySpec => []SteadyProcessFound
BY Invariance, PTL DEF IInv, ScanInv

\* A process erased from the CID table, or beyond the PID limit, whose PID is
\* its own and a process handle of which is in the snapshot, is in the answer
\* unless the answer is full.
THEOREM HandleFindsErasedThm == QuerySpec => []HandleFindsErased
<1>1. QuerySpec => [](IInv /\ HandleInv)
  BY InitInv, InitHandles, QueryStepInv, QueryStepHandles, PTL DEF QuerySpec
<1>2. QED
  BY <1>1, PTL DEF HandleInv

\* Entries are only added and extended while a query runs.
THEOREM EntriesOnlyGrowThm == QuerySpec => EntriesOnlyGrow
<1>1. IInv /\ [QueryNext]_queryVars => [OnlyGrow]_queryVars
  <2>. SUFFICES ASSUME IInv, QueryNext, pc \in {"cid", "handles"}, pc' # "returned"
                PROVE  /\ Len(entries') >= Len(entries)
                       /\ \A i \in 1..Len(entries) : Extends(i)
    BY DEF OnlyGrow
  <2>. USE DEF IInv
  <2>1. Len(entries) \in Nat
    BY DEF TypeOK
  <2>2. CASE UNCHANGED accVars
    BY <2>1, <2>2 DEF accVars, Extends
  <2>3. CASE \E o \in Objs, flag \in ViewFlags :
               AddProcessToAccumulator(PidOf[o], flag, o)
    BY <2>3, AddGrows DEF AccInv
  <2>4. ~BeginQuery /\ ~AllocEntries /\ ~Reply
    BY DEF BeginQuery, AllocEntries, Reply
  <2>5. CASE CidStep
    <3>1. \A o \in CidLookup(cursor) : o \in Objs /\ PidOf[o] = cursor
      BY DEF CidLookup
    <3>2. QED
      BY <2>2, <2>3, <2>5, <3>1 DEF CidStep, AddUnlessDead, ViewFlags
  <2>6. CASE TakeSnapshot
    BY <2>2, <2>6 DEF TakeSnapshot, Fail
  <2>7. CASE HandleStep
    BY <2>2, <2>3, <2>7
       DEF HandleStep, Referents, AddAliveProcessFromHandleView, AddUnlessDead,
           TypeOK, Handle, ViewFlags
  <2>8. CASE Environment
    BY <2>2, <2>8 DEF Environment
  <2>9. QED
    BY <2>4, <2>5, <2>6, <2>7, <2>8 DEF QueryNext, Driver
<1>2. QED
  BY <1>1, Invariance, PTL DEF QuerySpec, EntriesOnlyGrow

-----------------------------------------------------------------------------
(* What a detection relies on in the driver's answer.                      *)

Born(o) == life[o] # "unborn"

\* Entries are of processes that have been created; the answer's are those of
\* the accumulator, and a query that fails answers with none.
AnswerInv ==
  /\ \A i \in 1..Len(entries) : Born(entries[i].eprocess)
  /\ \A i \in 1..Len(response.entries) :
       LET e == response.entries[i]
       IN  e.pid # 0 /\ e.pid = PidOf[e.eprocess] /\ Born(e.eprocess)
  /\ pc = "idle" => response.status = "none"
  /\ response.status # "success" => response.entries = <<>>

\* The machine never takes a process back before its creation.
LEMMA StaysBorn ==
  ASSUME TypeOK, Environment, NEW o \in Objs, Born(o)
  PROVE  Born(o)'
<1>1. PICK p \in Objs : Create(p) \/ Exit(p) \/ Delete(p) \/ Erase(p)
  BY DEF Environment
<1>2. life \in [Objs -> Lives]
  BY DEF TypeOK
<1>3. CASE p = o
  BY <1>1, <1>2, <1>3 DEF Create, Exit, Delete, Erase, Born
<1>4. CASE p # o
  BY <1>1, <1>2, <1>4 DEF Create, Exit, Delete, Erase, Born
<1>5. QED
  BY <1>3, <1>4

\* A visit enters nothing but processes that exist.
LEMMA VisitBorn ==
  ASSUME IInv, AnswerInv, NEW o \in Objs, Exists(o), NEW flag \in ViewFlags,
         \/ UNCHANGED accVars
         \/ AddProcessToAccumulator(PidOf[o], flag, o)
  PROVE  \A i \in 1..Len(entries') : Born(entries'[i].eprocess)
<1>1. Born(o)
  BY DEF Born, Exists
<1>2. CASE UNCHANGED accVars
  BY <1>2 DEF accVars, AnswerInv
<1>3. CASE AddProcessToAccumulator(PidOf[o], flag, o)
  BY <1>1, <1>3, AddEprocess DEF AnswerInv, IInv
<1>4. QED
  BY <1>2, <1>3

LEMMA QueryStepAnswer == IInv /\ AnswerInv /\ [QueryNext]_queryVars => AnswerInv'
<1>. SUFFICES ASSUME IInv, AnswerInv, [QueryNext]_queryVars PROVE AnswerInv'
  OBVIOUS
<1>1. CASE UNCHANGED queryVars
  BY <1>1 DEF queryVars, envVars, accVars, AnswerInv, Born
<1>2. CASE BeginQuery
  BY <1>2 DEF BeginQuery, Fail, FreePidAccumulator, NoResponse, AnswerInv, IInv,
              PoolInv, accVars
<1>3. CASE AllocEntries
  BY <1>3 DEF AllocEntries, Fail, FreePidAccumulator, NoResponse, AnswerInv, IInv,
              PoolInv, accVars, envVars, Born
<1>4. CASE CidStep
  <2>1. /\ pc = "cid" /\ UNCHANGED <<life, pc, response>>
        /\ \/ UNCHANGED accVars
           \/ \E o \in CidLookup(cursor) : AddProcessToAccumulator(cursor, "cid", o)
    BY <1>4 DEF CidStep, AddUnlessDead, CidLookup, envVars
  <2>2. \A i \in 1..Len(entries') : Born(entries'[i].eprocess)
    <3>1. CASE UNCHANGED accVars
      BY <3>1 DEF accVars, AnswerInv
    <3>2. ASSUME NEW o \in CidLookup(cursor), AddProcessToAccumulator(cursor, "cid", o)
          PROVE  \A i \in 1..Len(entries') : Born(entries'[i].eprocess)
      <4>1. o \in Objs /\ Exists(o) /\ PidOf[o] = cursor
        BY <3>2 DEF CidLookup
      <4>2. QED
        BY <3>2, <4>1, VisitBorn DEF ViewFlags
    <3>3. QED
      BY <2>1, <3>1, <3>2
  <2>3. QED
    BY <2>1, <2>2 DEF AnswerInv, Born
<1>5. CASE TakeSnapshot
  BY <1>5 DEF TakeSnapshot, Fail, FreePidAccumulator, NoResponse, AnswerInv, Born,
              accVars, envVars
<1>6. CASE HandleStep
  <2>1. /\ pc = "handles" /\ UNCHANGED <<life, pc, response>>
    BY <1>6 DEF HandleStep, envVars
  <2>2. PICK h \in snapshot :
          \/ UNCHANGED accVars
          \/ \E o \in Referents(h) : AddAliveProcessFromHandleView(o)
    BY <1>6 DEF HandleStep
  <2>3. \A o \in Referents(h) : o \in Objs /\ Exists(o)
    BY DEF Referents, IInv, TypeOK, Handle
  <2>4. \A i \in 1..Len(entries') : Born(entries'[i].eprocess)
    <3>1. CASE UNCHANGED accVars
      BY <3>1 DEF accVars, AnswerInv
    <3>2. ASSUME NEW o \in Referents(h), AddAliveProcessFromHandleView(o)
          PROVE  \A i \in 1..Len(entries') : Born(entries'[i].eprocess)
      BY <2>3, <3>2, VisitBorn
         DEF AddAliveProcessFromHandleView, AddUnlessDead, ViewFlags
    <3>3. QED
      BY <2>2, <3>1, <3>2
  <2>5. QED
    BY <2>1, <2>4 DEF AnswerInv, Born
<1>7. CASE Reply
  <2>1. /\ pc' = "returned" /\ UNCHANGED life /\ entries' = <<>>
        /\ response'.entries = entries /\ response'.status = "success"
    BY <1>7 DEF Reply, envVars
  <2>2. \A i \in 1..Len(entries) :
          /\ entries[i].pid # 0 /\ entries[i].pid = PidOf[entries[i].eprocess]
          /\ Born(entries[i].eprocess)
    BY DEF IInv, AccInv, OneEntryPerPid, AnswerInv
  <2>3. QED
    BY <2>1, <2>2 DEF AnswerInv, Born
<1>8. CASE Environment
  <2>1. UNCHANGED <<pc, entries, response>>
    BY <1>8 DEF Environment, accVars
  <2>2. /\ \A i \in 1..Len(entries) : entries[i].eprocess \in Objs
        /\ \A i \in 1..Len(response.entries) : response.entries[i].eprocess \in Objs
    <3>1. entries \in Seq(Entry) /\ response.entries \in Seq(Entry)
      BY DEF IInv, TypeOK, Response
    <3>2. \A i \in 1..Len(entries) : entries[i] \in Entry
      BY <3>1
    <3>3. \A i \in 1..Len(response.entries) : response.entries[i] \in Entry
      BY <3>1
    <3>4. \A e \in Entry : e.eprocess \in Objs
      BY DEF Entry
    <3>5. QED
      BY <3>2, <3>3, <3>4
  <2>3. \A o \in Objs : Born(o) => Born(o)'
    BY <1>8, StaysBorn DEF IInv
  <2>4. QED
    BY <2>1, <2>2, <2>3 DEF AnswerInv
<1>9. QED
  BY <1>1, <1>2, <1>3, <1>4, <1>5, <1>6, <1>7, <1>8 DEF QueryNext, Driver

LEMMA InitAnswer == QueryInit => AnswerInv
BY DEF QueryInit, AnswerInv, NoResponse

-----------------------------------------------------------------------------
(* The detection.                                                          *)

\* o is hidden, or it has ended.  Neither changes.
Accountable(o) == o \in unlinked \/ life[o] \in {"stopping", "exited", "freed"}

Finding == [pid : Pids, eprocess : Objs, opened : Objs \union {NoObject}]

Compared == {response.entries[j].pid : j \in 1..(index - 1)}

\* Where the detection is tells where the query is and what the app has.
StageInv ==
  /\ unlinked \subseteq Objs /\ \A o \in unlinked : Born(o)
  /\ hidden \in Seq(Finding) /\ r3 \subseteq Pids
  /\ stage \in {"start", "ioctl", "r3", "compare", "done", "failed"}
  /\ index \in 1..(Len(response.entries) + 1)
  /\ stage = "start" => pc = "idle"
  /\ stage \in {"r3", "compare", "done"} =>
       pc = "returned" /\ response.status = "success"
  /\ stage \notin {"compare", "done"} => index = 1 /\ r3 = {} /\ hidden = <<>>

\* The comparison: what was passed over so far is reported or listed.
CompareInv ==
  /\ stage = "compare" => PidsOf(hidden) = Compared \ r3
  /\ stage = "done" => PidsOf(hidden) = PidsOf(response.entries) \ r3

\* The process of an entry that user mode did not list is accountable, and so
\* is that of a report.
AccountInv ==
  /\ stage = "compare" =>
       \A i \in 1..Len(response.entries) :
         \/ response.entries[i].pid \in r3
         \/ Accountable(response.entries[i].eprocess)
  /\ \A i \in 1..Len(hidden) :
       /\ Accountable(hidden[i].eprocess)
       /\ Born(hidden[i].eprocess)
  /\ EnrichedFromReported

DInv == IInv /\ AnswerInv /\ StageInv /\ CompareInv /\ AccountInv

\* A step of the detection is a step of the query it issues, or leaves it alone.
LEMMA DetectIsQuery == [Next]_vars => [QueryNext]_queryVars
BY DEF Next, App, DriverStep, Machine, OpenDevice, IoctlReturns, EnumerateR3,
       CompareEntry, Finish, Unlink, FailWith, QueryNext, vars, queryVars

\* What the answer's entries are.
LEMMA AnswerEntries ==
  ASSUME IInv
  PROVE  /\ response.entries \in Seq(Entry) /\ Len(response.entries) \in Nat
         /\ \A i \in 1..Len(response.entries) :
              /\ response.entries[i] \in Entry
              /\ response.entries[i].pid \in Pids
              /\ response.entries[i].eprocess \in Objs
<1>1. response.entries \in Seq(Entry) /\ Len(response.entries) \in Nat
  BY DEF IInv, TypeOK, Response
<1>2. \A i \in 1..Len(response.entries) : response.entries[i] \in Entry
  BY <1>1
<1>3. \A e \in Entry : e.pid \in Pids /\ e.eprocess \in Objs
  BY DEF Entry
<1>4. QED
  BY <1>1, <1>2, <1>3

\* What a comparison does to the report.
LEMMA CompareEffect ==
  ASSUME IInv, StageInv, CompareEntry
  PROVE  /\ stage = "compare" /\ index \in 1..Len(response.entries)
         /\ index' = index + 1
         /\ UNCHANGED <<life, erased, response, unlinked, stage, r3, pc>>
         /\ hidden' \in Seq(Finding)
         /\ \/ response.entries[index].pid \in r3 /\ hidden' = hidden
            \/ /\ response.entries[index].pid \notin r3
               /\ Len(hidden') = Len(hidden) + 1
               /\ \A i \in 1..Len(hidden) : hidden'[i] = hidden[i]
               /\ LET h == hidden'[Len(hidden) + 1]
                      e == response.entries[index]
                  IN  /\ h.pid = e.pid /\ h.eprocess = e.eprocess
                      /\ h.opened \in {NoObject} \union CidLookup(e.pid)
<1>. DEFINE e == response.entries[index]
<1>1. /\ stage = "compare" /\ index \in 1..Len(response.entries)
      /\ index' = index + 1
      /\ UNCHANGED <<life, erased, response, unlinked, stage, r3, pc>>
  BY AnswerEntries DEF CompareEntry, StageInv, queryVars, envVars
<1>2. CASE e.pid \in r3
  BY <1>1, <1>2 DEF CompareEntry, StageInv
<1>3. CASE e.pid \notin r3
  <2>1. PICK o \in {NoObject} \union CidLookup(e.pid) :
          hidden' = Append(hidden, [pid |-> e.pid, eprocess |-> e.eprocess, opened |-> o])
    BY <1>3 DEF CompareEntry, Report, EnrichProcessInfo
  <2>. DEFINE h == [pid |-> e.pid, eprocess |-> e.eprocess, opened |-> o]
  <2>2. /\ h \in Finding /\ h.pid = e.pid /\ h.eprocess = e.eprocess
        /\ h.opened = o
    BY <1>1, AnswerEntries DEF Finding, CidLookup
  <2>3. hidden \in Seq(Finding)
    BY DEF StageInv
  <2>. HIDE DEF h
  <2>4. /\ hidden' \in Seq(Finding) /\ Len(hidden') = Len(hidden) + 1
        /\ \A i \in 1..Len(hidden) : hidden'[i] = hidden[i]
        /\ hidden'[Len(hidden) + 1] = h
    BY <2>1, <2>2, <2>3, AppendProperties DEF h
  <2>5. QED
    BY <1>1, <1>3, <2>2, <2>4
<1>4. QED
  BY <1>2, <1>3

\* What user mode is listed for.
LEMMA EnumerateEffect ==
  ASSUME EnumerateR3
  PROVE  /\ stage = "r3"
         /\ UNCHANGED <<queryVars, unlinked, index, hidden>>
         /\ \/ stage' = "failed" /\ r3' = r3
            \/ /\ stage' = "compare" /\ r3' \subseteq Pids
               /\ \A o \in Linked : life[o] = "running" /\ PidOf[o] # 0 => PidOf[o] \in r3'
<1>1. /\ stage = "r3"
      /\ UNCHANGED <<queryVars, unlinked, index, hidden>>
  BY DEF EnumerateR3
<1>2. CASE FailWith(ErrorCode) /\ UNCHANGED r3
  BY <1>1, <1>2 DEF FailWith
<1>3. ASSUME NEW late \in SUBSET {o \in Linked : life[o] # "running"},
             LET listed == {o \in Linked : life[o] = "running"} \union late
                 pids == {PidOf[o] : o \in listed} \ {0}
             IN  IF Cardinality(pids) <= MaxEntries
                   THEN /\ r3' = pids /\ stage' = "compare"
                        /\ UNCHANGED <<status, lastError>>
                   ELSE /\ stage' = "failed" /\ status' = lastError
                        /\ UNCHANGED <<r3, lastError>>
      PROVE  \/ stage' = "failed" /\ r3' = r3
             \/ /\ stage' = "compare" /\ r3' \subseteq Pids
                /\ \A o \in Linked : life[o] = "running" /\ PidOf[o] # 0 => PidOf[o] \in r3'
  <2>. DEFINE listed == {o \in Linked : life[o] = "running"} \union late
              pids == {PidOf[o] : o \in listed} \ {0}
  <2>1. /\ pids \subseteq Pids
        /\ \A o \in Linked : life[o] = "running" /\ PidOf[o] # 0 => PidOf[o] \in pids
    BY DEF Linked, Pids
  <2>2. QED
    BY <1>3, <2>1
<1>4. QED
  BY <1>1, <1>2, <1>3 DEF EnumerateR3

-----------------------------------------------------------------------------
(* The detection's steps.                                                  *)

LEMMA StageStep ==
  ASSUME DInv, [Next]_vars
  PROVE  StageInv'
<1>. USE DEF DInv
<1>1. CASE UNCHANGED vars
  BY <1>1 DEF vars, queryVars, envVars, appVars, StageInv, Born
<1>2. CASE OpenDevice
  <2>1. /\ stage = "start" /\ pc = "idle" /\ UNCHANGED <<life, unlinked, r3, index, hidden>>
        /\ \/ stage' = "failed" /\ UNCHANGED <<pc, response>>
           \/ stage' = "ioctl" /\ response'.entries = <<>>
    BY <1>2 DEF OpenDevice, BeginQuery, Fail, NoResponse, FailWith, queryVars, envVars,
                StageInv
  <2>2. r3 = {} /\ hidden = <<>> /\ index = 1
    BY <2>1 DEF StageInv
  <2>3. index' \in 1..(Len(response'.entries) + 1)
    BY <2>1, <2>2 DEF StageInv
  <2>4. QED
    BY <2>1, <2>2, <2>3 DEF StageInv, Born
<1>3. CASE DriverStep
  <2>1. /\ stage = "ioctl" /\ UNCHANGED <<unlinked, stage, r3, index, hidden>>
        /\ life' = life
    BY <1>3 DEF DriverStep, appVars, Driver, AllocEntries, CidStep, TakeSnapshot,
                HandleStep, Reply, envVars
  <2>2. r3 = {} /\ hidden = <<>> /\ index = 1
    BY <2>1 DEF StageInv
  <2>3. IInv'
    BY DetectIsQuery, QueryStepInv
  <2>4. Len(response'.entries) \in Nat
    BY <2>3 DEF IInv, TypeOK, Response
  <2>5. index' \in 1..(Len(response'.entries) + 1)
    BY <2>1, <2>2, <2>4
  <2>6. QED
    BY <2>1, <2>2, <2>5 DEF StageInv, Born
<1>4. CASE IoctlReturns
  BY <1>4 DEF IoctlReturns, FailWith, queryVars, envVars, StageInv, Born
<1>5. CASE EnumerateR3
  BY <1>5, EnumerateEffect DEF queryVars, envVars, StageInv, Born
<1>6. CASE CompareEntry
  <2>1. index' \in 1..(Len(response'.entries) + 1)
    BY <1>6, CompareEffect, AnswerEntries
  <2>2. QED
    BY <1>6, <2>1, CompareEffect DEF StageInv, Born
<1>7. CASE Finish
  BY <1>7 DEF Finish, queryVars, envVars, StageInv, Born
<1>8. CASE Machine
  <2>1. CASE Environment /\ UNCHANGED <<unlinked, appVars>>
    <3>1. \A o \in Objs : Born(o) => Born(o)'
      BY <2>1, StaysBorn DEF IInv
    <3>2. QED
      BY <2>1, <3>1 DEF Environment, appVars, StageInv
  <2>2. CASE \E o \in Objs : Unlink(o)
    BY <2>2 DEF Unlink, queryVars, envVars, appVars, StageInv, Born
  <2>3. QED
    BY <1>8, <2>1, <2>2 DEF Machine
<1>9. QED
  BY <1>1, <1>2, <1>3, <1>4, <1>5, <1>6, <1>7, <1>8 DEF Next, App

\* One more comparison adds its PID to what was compared, and to the report
\* unless user mode listed it.
LEMMA ComparedPids ==
  ASSUME IInv, StageInv, CompareEntry, PidsOf(hidden) = Compared \ r3
  PROVE  PidsOf(hidden') = Compared' \ r3'
<1>. DEFINE pid == response.entries[index].pid
<1>1. index \in Nat /\ 1..(index' - 1) = (1..(index - 1)) \union {index}
  BY CompareEffect
<1>2. Compared' = Compared \union {pid} /\ r3' = r3
  BY <1>1, CompareEffect DEF Compared
<1>3. CASE pid \in r3
  BY <1>2, <1>3, CompareEffect DEF PidsOf
<1>4. CASE pid \notin r3
  <2>1. /\ Len(hidden) \in Nat /\ Len(hidden') = Len(hidden) + 1
        /\ \A i \in 1..Len(hidden) : hidden'[i] = hidden[i]
        /\ hidden'[Len(hidden) + 1].pid = pid
    BY <1>4, CompareEffect DEF StageInv
  <2>2. PidsOf(hidden') = PidsOf(hidden) \union {pid}
    BY <2>1 DEF PidsOf
  <2>3. QED
    BY <1>2, <1>4, <2>2
<1>5. QED
  BY <1>3, <1>4

LEMMA CompareStep ==
  ASSUME DInv, [Next]_vars
  PROVE  CompareInv'
<1>. USE DEF DInv
<1>1. ASSUME UNCHANGED <<response, stage, r3, index, hidden>> PROVE CompareInv'
  <2>1. /\ PidsOf(hidden)' = PidsOf(hidden) /\ Compared' = Compared
        /\ PidsOf(response.entries)' = PidsOf(response.entries)
    BY <1>1 DEF PidsOf, Compared
  <2>2. QED
    BY <1>1, <2>1 DEF CompareInv
<1>2. CASE OpenDevice \/ DriverStep \/ IoctlReturns
  BY <1>2 DEF OpenDevice, DriverStep, IoctlReturns, FailWith, appVars, StageInv,
              CompareInv
<1>3. CASE EnumerateR3
  <2>1. CASE stage' = "failed"
    BY <2>1 DEF CompareInv
  <2>2. CASE stage' = "compare"
    <3>1. hidden' = <<>> /\ index' = 1
      BY <1>3, EnumerateEffect DEF StageInv
    <3>2. Compared' = {} /\ PidsOf(hidden') = {}
      BY <3>1 DEF Compared, PidsOf
    <3>3. QED
      BY <2>2, <3>2 DEF CompareInv, PidsOf
  <2>3. QED
    BY <1>3, <2>1, <2>2, EnumerateEffect
<1>4. CASE CompareEntry
  <2>1. PidsOf(hidden') = Compared' \ r3'
    BY <1>4, CompareEffect, ComparedPids DEF CompareInv
  <2>2. stage' = "compare"
    BY <1>4, CompareEffect
  <2>3. QED
    BY <2>1, <2>2 DEF CompareInv, PidsOf
<1>5. CASE Finish
  <2>1. /\ stage = "compare" /\ index > Len(response.entries) /\ stage' = "done"
        /\ UNCHANGED <<response, r3, index, hidden>>
    BY <1>5 DEF Finish, queryVars
  <2>2. index - 1 = Len(response.entries)
    BY <2>1, AnswerEntries DEF StageInv
  <2>3. Compared = PidsOf(response.entries)
    BY <2>2 DEF Compared, PidsOf
  <2>4. QED
    BY <2>1, <2>3 DEF CompareInv, PidsOf
<1>6. CASE UNCHANGED vars \/ Machine
  BY <1>1, <1>6 DEF Machine, Environment, Unlink, vars, queryVars, appVars
<1>7. QED
  BY <1>2, <1>3, <1>4, <1>5, <1>6 DEF Next, App

\* What the machine does leaves the accountable accountable: nothing is linked
\* again, and what has ended does not run again.
LEMMA StaysAccountable ==
  ASSUME TypeOK, Machine, NEW o \in Objs, Accountable(o)
  PROVE  Accountable(o)'
<1>1. CASE \E p \in Objs : Unlink(p)
  BY <1>1 DEF Unlink, queryVars, envVars, Accountable
<1>2. CASE Environment /\ UNCHANGED <<unlinked, appVars>>
  <2>1. PICK p \in Objs : Create(p) \/ Exit(p) \/ Delete(p) \/ Erase(p)
    BY <1>2 DEF Environment
  <2>2. life \in [Objs -> Lives]
    BY DEF TypeOK
  <2>3. CASE p = o
    BY <1>2, <2>1, <2>2, <2>3 DEF Create, Exit, Delete, Erase, Accountable
  <2>4. CASE p # o
    BY <1>2, <2>1, <2>2, <2>4 DEF Create, Exit, Delete, Erase, Accountable
  <2>5. QED
    BY <2>3, <2>4
<1>3. QED
  BY <1>1, <1>2 DEF Machine

\* A process that was freed stays so, and one erased from the CID table too.
LEMMA StaysOut ==
  ASSUME TypeOK, Machine, NEW o \in Objs, life[o] = "freed" \/ o \in erased
  PROVE  life'[o] = "freed" \/ o \in erased'
<1>1. CASE \E p \in Objs : Unlink(p)
  BY <1>1 DEF Unlink, queryVars, envVars
<1>2. CASE Environment
  <2>1. PICK p \in Objs : Create(p) \/ Exit(p) \/ Delete(p) \/ Erase(p)
    BY <1>2 DEF Environment
  <2>2. life \in [Objs -> Lives]
    BY DEF TypeOK
  <2>3. CASE p = o
    BY <2>1, <2>2, <2>3 DEF Create, Exit, Delete, Erase
  <2>4. CASE p # o
    BY <2>1, <2>2, <2>4 DEF Create, Exit, Delete, Erase
  <2>5. QED
    BY <2>3, <2>4
<1>3. QED
  BY <1>1, <1>2 DEF Machine

LEMMA AccountStep ==
  ASSUME DInv, [Next]_vars
  PROVE  AccountInv'
<1>. USE DEF DInv
<1>1. /\ \A i \in 1..Len(hidden) : hidden[i].eprocess \in Objs
      /\ Len(hidden) \in Nat
  <2>1. hidden \in Seq(Finding)
    BY DEF StageInv
  <2>2. \A i \in 1..Len(hidden) : hidden[i] \in Finding
    BY <2>1
  <2>3. QED
    BY <2>1, <2>2 DEF Finding
<1>2. CASE OpenDevice \/ DriverStep \/ IoctlReturns
  <2>1. hidden' = <<>> /\ stage' # "compare"
    BY <1>2 DEF OpenDevice, DriverStep, IoctlReturns, FailWith, appVars, StageInv
  <2>2. QED
    BY <2>1 DEF AccountInv, EnrichedFromReported
<1>3. CASE EnumerateR3
  <2>1. hidden' = <<>> /\ UNCHANGED <<life, response, unlinked>>
    BY <1>3, EnumerateEffect DEF StageInv, queryVars, envVars
  <2>2. ASSUME stage' = "compare", NEW i \in 1..Len(response.entries)
        PROVE  \/ response.entries[i].pid \in r3'
               \/ Accountable(response.entries[i].eprocess)
    <3>. DEFINE o == response.entries[i].eprocess
    <3>1. /\ o \in Objs /\ Born(o)
          /\ response.entries[i].pid = PidOf[o] /\ PidOf[o] # 0
      BY AnswerEntries DEF AnswerInv
    <3>2. life[o] \in Lives
      BY <3>1 DEF IInv, TypeOK
    <3>3. CASE Accountable(o)
      BY <3>3
    <3>4. CASE ~Accountable(o)
      <4>1. life[o] = "running" /\ o \in Linked
        BY <3>1, <3>2, <3>4 DEF Accountable, Born, Lives, Linked, Exists
      <4>2. QED
        BY <1>3, <2>2, <3>1, <4>1, EnumerateEffect
    <3>5. QED
      BY <3>3, <3>4
  <2>3. QED
    BY <2>1, <2>2 DEF AccountInv, EnrichedFromReported, Accountable
<1>4. CASE CompareEntry
  <2>. DEFINE e == response.entries[index]
              h == hidden'[Len(hidden) + 1]
  <2>1. /\ stage = "compare" /\ index \in 1..Len(response.entries)
        /\ UNCHANGED <<life, erased, response, unlinked, stage, r3>>
    BY <1>4, CompareEffect
  <2>2. CASE hidden' = hidden
    BY <2>1, <2>2 DEF AccountInv, EnrichedFromReported, Accountable, Born
  <2>3. CASE /\ e.pid \notin r3
             /\ Len(hidden') = Len(hidden) + 1
             /\ \A i \in 1..Len(hidden) : hidden'[i] = hidden[i]
             /\ h.pid = e.pid /\ h.eprocess = e.eprocess
             /\ h.opened \in {NoObject} \union CidLookup(e.pid)
    <3>1. /\ e.eprocess \in Objs /\ Born(e.eprocess) /\ PidOf[e.eprocess] = e.pid
          /\ Accountable(e.eprocess)
      BY <2>1, <2>3, AnswerEntries DEF AnswerInv, AccountInv
    <3>2. \/ h.opened \in {NoObject, h.eprocess}
          \/ life[h.eprocess] = "freed"
          \/ h.eprocess \in erased
      <4>1. SUFFICES ASSUME h.opened \in CidLookup(e.pid), h.opened # e.eprocess,
                            e.eprocess \notin erased
                     PROVE  life[e.eprocess] = "freed"
        BY <2>3
      <4>2. /\ h.opened \in Objs /\ Exists(h.opened) /\ h.opened \notin erased
            /\ PidOf[h.opened] = PidOf[e.eprocess]
        BY <3>1, <4>1 DEF CidLookup
      <4>3. ~Exists(e.eprocess)
        BY <3>1, <4>1, <4>2 DEF IInv, MachineInv
      <4>4. life[e.eprocess] \in Lives
        BY <3>1 DEF IInv, TypeOK
      <4>5. QED
        BY <3>1, <4>3, <4>4 DEF Born, Exists, Lives
    <3>3. \A i \in 1..Len(hidden') :
            /\ Accountable(hidden'[i].eprocess)
            /\ Born(hidden'[i].eprocess)
            /\ \/ hidden'[i].opened \in {NoObject, hidden'[i].eprocess}
               \/ life[hidden'[i].eprocess] = "freed"
               \/ hidden'[i].eprocess \in erased
      <4>1. ASSUME NEW i \in 1..Len(hidden')
            PROVE  i \in 1..Len(hidden) \/ i = Len(hidden) + 1
        BY <1>1, <2>3
      <4>2. QED
        BY <2>3, <3>1, <3>2, <4>1 DEF AccountInv, EnrichedFromReported
    <3>4. QED
      BY <2>1, <3>3 DEF AccountInv, EnrichedFromReported, Accountable, Born
  <2>4. QED
    BY <1>4, <2>2, <2>3, CompareEffect
<1>5. CASE Finish \/ UNCHANGED vars
  BY <1>5 DEF Finish, vars, queryVars, envVars, appVars, AccountInv,
              EnrichedFromReported, Accountable, Born
<1>6. CASE Machine
  <2>1. UNCHANGED <<response, stage, r3, hidden>>
    BY <1>6 DEF Machine, Environment, Unlink, queryVars, appVars
  <2>2. \A o \in Objs : Accountable(o) => Accountable(o)'
    BY <1>6, StaysAccountable DEF IInv
  <2>3. \A o \in Objs : Born(o) => Born(o)'
    BY <1>6, StaysBorn DEF Machine, Unlink, queryVars, envVars, Born, IInv
  <2>4. \A o \in Objs : life[o] = "freed" \/ o \in erased
                         => life'[o] = "freed" \/ o \in erased'
    BY <1>6, StaysOut DEF IInv
  <2>5. \A i \in 1..Len(response.entries) : response.entries[i].eprocess \in Objs
    BY AnswerEntries
  <2>6. EnrichedFromReported'
    BY <1>1, <2>1, <2>4 DEF AccountInv, EnrichedFromReported
  <2>7. QED
    BY <1>1, <2>1, <2>2, <2>3, <2>5, <2>6 DEF AccountInv, Accountable, Born
<1>7. QED
  BY <1>2, <1>3, <1>4, <1>5, <1>6 DEF Next, App

LEMMA InitDetect == Init => DInv
<1>. SUFFICES ASSUME Init PROVE DInv
  OBVIOUS
<1>1. IInv /\ AnswerInv
  BY InitInv, InitAnswer DEF Init
<1>2. Len(response.entries) = 0 /\ pc = "idle"
  BY DEF Init, QueryInit, NoResponse
<1>3. StageInv
  BY <1>2 DEF Init, StageInv, Born, Finding
<1>4. CompareInv /\ AccountInv
  BY DEF Init, CompareInv, AccountInv, EnrichedFromReported
<1>5. QED
  BY <1>1, <1>3, <1>4 DEF DInv

LEMMA DetectInvariance == Spec => []DInv
<1>1. DInv /\ [Next]_vars => DInv'
  <2>. SUFFICES ASSUME DInv, [Next]_vars PROVE DInv'
    OBVIOUS
  <2>1. IInv' /\ AnswerInv'
    BY DetectIsQuery, QueryStepInv, QueryStepAnswer DEF DInv
  <2>2. QED
    BY <2>1, StageStep, CompareStep, AccountStep DEF DInv
<1>2. QED
  BY <1>1, InitDetect, PTL DEF Spec

-----------------------------------------------------------------------------
(* What follows for the detection.                                         *)

\* A detection issues one query, and what it does around it the query does not
\* see: every behaviour of a detection is one of the driver's part, so that all
\* the theorems about the query's safety hold of the query of a detection.
THEOREM DetectionQueries == Spec => QueryInit /\ [][QueryNext]_queryVars
BY DetectIsQuery, PTL DEF Spec, Init

\* No process that is on the active process list and running is reported,
\* however processes come, go and are hidden during the detection.
THEOREM NoVisibleProcessAccusedThm == Spec => []NoVisibleProcessAccused
<1>1. DInv => NoVisibleProcessAccused
  BY DEF DInv, AccountInv, Accountable, NoVisibleProcessAccused
<1>2. QED
  BY <1>1, DetectInvariance, PTL

\* The path and parent of a report are of the process reported, unless that
\* process has lost its PID by then.
THEOREM EnrichedFromReportedThm == Spec => []EnrichedFromReported
BY DetectInvariance, PTL DEF DInv, AccountInv

\* What runs, with handles and in the CID table, all through the detection, and
\* is not listed by user mode, is reported unless the driver's answer was full.
THEOREM SteadyHiddenReportedThm == Spec => []SteadyHiddenReported
<1>1. DInv => SteadyHiddenReported
  <2>. SUFFICES ASSUME DInv, stage = "done", NEW o \in steady \ NoHandles,
                       PidOf[o] \in 4..ScanLimit, PidOf[o] \notin r3,
                       Len(response.entries) # MaxEntries
                PROVE  \E i \in 1..Len(hidden) : hidden[i].pid = PidOf[o]
    BY DEF SteadyHiddenReported
  <2>1. PidsOf(hidden) = PidsOf(response.entries) \ r3
    BY DEF DInv, CompareInv
  <2>2. Answered(PidOf[o])
    BY DEF DInv, StageInv, IInv, ScanInv, SteadyProcessFound
  <2>3. PidOf[o] \in PidsOf(response.entries)
    BY <2>2 DEF Answered, PidsOf
  <2>4. PidOf[o] \in PidsOf(hidden)
    BY <2>1, <2>3
  <2>5. QED
    BY <2>4 DEF PidsOf
<1>2. QED
  BY <1>1, DetectInvariance, PTL

-----------------------------------------------------------------------------
(* The detection implements CrossView.                                     *)

\* What the abstract detector sees of a state of the detection.
AbsStage == CASE stage = "done" -> "reported"
              [] stage = "failed" -> "failed"
              [] OTHER -> "collecting"
AbsKernel == IF stage \in {"start", "ioctl"} THEN {} ELSE PidsOf(response.entries)
AbsReport == IF stage = "done" THEN PidsOf(hidden) ELSE {}

\* A step in which nothing changes that the abstract detector sees.
LEMMA SameView ==
  ASSUME UNCHANGED <<AbsStage, AbsKernel, r3, AbsReport>>
  PROVE  UNCHANGED Promise!vars
BY DEF Promise!vars, AbsStage, AbsKernel, AbsReport

\* Every step of the detection is a step of the abstract detector or none.
LEMMA PromiseStep ==
  ASSUME DInv, [Next]_vars
  PROVE  [Promise!Next]_(Promise!vars)
<1>. USE DEF DInv
<1>1. ASSUME UNCHANGED <<AbsStage, AbsKernel, r3, AbsReport>>
      PROVE  [Promise!Next]_(Promise!vars)
  BY <1>1, SameView
<1>2. PidsOf(response.entries) \in SUBSET Pids
  BY AnswerEntries DEF PidsOf
<1>3. CASE OpenDevice \/ DriverStep
  <2>1. CASE stage' = "ioctl"
    <3>1. /\ stage \in {"start", "ioctl"} /\ r3' = r3
      BY <1>3 DEF OpenDevice, DriverStep, FailWith, appVars
    <3>2. UNCHANGED <<AbsStage, AbsKernel, r3, AbsReport>>
      BY <2>1, <3>1 DEF AbsStage, AbsKernel, AbsReport
    <3>3. QED
      BY <1>1, <3>2
  <2>2. CASE stage' = "failed"
    <3>1. stage = "start" /\ UNCHANGED <<r3, response>>
      BY <1>3, <2>2 DEF OpenDevice, DriverStep, FailWith, appVars, queryVars, StageInv
    <3>2. response.entries = <<>>
      BY <3>1 DEF AnswerInv, StageInv
    <3>3. PidsOf(response.entries)' = {}
      BY <3>1, <3>2 DEF PidsOf
    <3>4. Promise!Fail
      BY <2>2, <3>1, <3>3 DEF Promise!Fail
    <3>5. QED
      BY <3>4 DEF Promise!Next
  <2>3. QED
    BY <1>3, <2>1, <2>2 DEF OpenDevice, DriverStep, FailWith, appVars
<1>4. CASE IoctlReturns
  <2>1. stage = "ioctl" /\ UNCHANGED <<response, r3>>
    BY <1>4 DEF IoctlReturns, queryVars
  <2>2. PidsOf(response.entries)' = PidsOf(response.entries)
    BY <2>1 DEF PidsOf
  <2>3. CASE stage' = "r3"
    <3>1. Promise!SeeKernel
      BY <1>2, <2>1, <2>2, <2>3 DEF Promise!SeeKernel
    <3>2. QED
      BY <3>1 DEF Promise!Next
  <2>4. CASE stage' = "failed"
    <3>1. response.entries = <<>>
      BY <1>4, <2>4 DEF IoctlReturns, AnswerInv
    <3>2. PidsOf(response.entries) = {}
      BY <3>1 DEF PidsOf
    <3>3. Promise!Fail
      BY <2>1, <2>2, <2>4, <3>2 DEF Promise!Fail
    <3>4. QED
      BY <3>3 DEF Promise!Next
  <2>5. QED
    BY <1>4, <2>3, <2>4 DEF IoctlReturns, FailWith
<1>5. CASE EnumerateR3
  <2>1. stage = "r3" /\ r3 = {} /\ UNCHANGED response
    BY <1>5, EnumerateEffect DEF StageInv, queryVars
  <2>2. PidsOf(response.entries)' = PidsOf(response.entries)
    BY <2>1 DEF PidsOf
  <2>3. CASE stage' = "compare" /\ r3' \subseteq Pids
    <3>1. Promise!SeeR3
      BY <2>1, <2>2, <2>3 DEF Promise!SeeR3
    <3>2. QED
      BY <3>1 DEF Promise!Next
  <2>4. CASE stage' = "failed" /\ r3' = r3
    <3>1. Promise!Fail
      BY <2>1, <2>2, <2>4 DEF Promise!Fail
    <3>2. QED
      BY <3>1 DEF Promise!Next
  <2>5. QED
    BY <1>5, <2>3, <2>4, EnumerateEffect
<1>6. CASE CompareEntry
  <2>1. stage = "compare" /\ UNCHANGED <<stage, response, r3>>
    BY <1>6, CompareEffect
  <2>2. UNCHANGED <<AbsStage, AbsKernel, r3, AbsReport>>
    BY <2>1 DEF AbsStage, AbsKernel, AbsReport, PidsOf
  <2>3. QED
    BY <1>1, <2>2
<1>7. CASE Finish
  <2>1. /\ stage = "compare" /\ stage' = "done"
        /\ UNCHANGED <<response, r3, hidden>>
    BY <1>7 DEF Finish, queryVars
  <2>2. /\ PidsOf(response.entries)' = PidsOf(response.entries)
        /\ PidsOf(hidden)' = PidsOf(response.entries) \ r3
    <3>1. CompareInv'
      BY CompareStep
    <3>2. QED
      BY <2>1, <3>1 DEF CompareInv, PidsOf
  <2>3. PidsOf(response.entries) \ r3 = PidsOf(response.entries) \ (r3 \union {})
    OBVIOUS
  <2>4. Promise!Report
    BY <2>1, <2>2, <2>3 DEF Promise!Report
  <2>5. QED
    BY <2>4 DEF Promise!Next
<1>8. CASE UNCHANGED vars \/ Machine
  <2>1. UNCHANGED <<stage, response, r3, hidden>>
    BY <1>8 DEF Machine, Environment, Unlink, vars, queryVars, appVars
  <2>2. UNCHANGED <<AbsStage, AbsKernel, r3, AbsReport>>
    BY <2>1 DEF AbsStage, AbsKernel, AbsReport, PidsOf
  <2>3. QED
    BY <1>1, <2>2
<1>9. QED
  BY <1>3, <1>4, <1>5, <1>6, <1>7, <1>8 DEF Next, App

\* The detection keeps the promise of CrossView: it reports, once, exactly the
\* PIDs of the driver's answer that user mode did not list, or it fails and
\* reports nothing.
THEOREM KeepsPromiseThm == Spec => KeepsPromise
<1>1. Init => Promise!Init
  BY DEF Init, Promise!Init
<1>2. QED
  BY <1>1, DetectInvariance, PromiseStep, PTL DEF Spec, KeepsPromise

=============================================================================
