---------------------------- MODULE ProcessViews ----------------------------
(***************************************************************************)
(* The driver's process views (AntiRootKitDriver/DetectHiddenProcess.c).   *)
(*                                                                         *)
(* QueryKernelProcessViews walks the CID table PID by PID (View B), then a *)
(* snapshot of the system handle table (View C), and merges both into one  *)
(* accumulator.  Processes are created, hidden, killed and deleted by the  *)
(* rest of the system between any two iterations: the driver takes no lock *)
(* that would stop them.                                                   *)
(*                                                                         *)
(* An EPROCESS object is a member of Objs, which stands for the object and *)
(* for its address.  One iteration of a scan is one action: the reference  *)
(* it takes pins the object until the iteration ends.  An exit between the *)
(* lookup and the test is seen by the test as one before the lookup, which *)
(* finds exited processes too; an exit after the test as one after the     *)
(* iteration; and whatever the calls inside the test make of an exit among *)
(* themselves, answer alive, dead or nothing, is among the outcomes of     *)
(* OpenOutcomes.                                                           *)
(***************************************************************************)
EXTENDS Integers, Sequences, FiniteSets

CONSTANTS
  Objs,        \* the process objects that ever exist
  PidOf,       \* the PID of each object; two objects may use one PID in turn
  NoHandles,   \* objects whose own handle table is empty (minimal processes)
  PendingExit, \* objects whose exit code is 259, which is STATUS_PENDING
  ScanLimit,   \* ARK_MAX_SCAN_PID
  MaxEntries,  \* ARK_MAX_PROCESS_ENTRIES
  MaxHandles   \* bound: entries in a handle snapshot

ASSUME ObjsAssumption ==
  IsFiniteSet(Objs) /\ NoHandles \subseteq Objs /\ PendingExit \subseteq Objs
ASSUME PidAssumption ==
  /\ DOMAIN PidOf = Objs
  /\ \A o \in Objs : PidOf[o] \in Nat /\ PidOf[o] % 4 = 0
ASSUME LimitAssumption ==
  /\ ScanLimit \in Nat /\ MaxEntries \in Nat \ {0} /\ MaxHandles \in Nat

VARIABLES
  \* the rest of the system
  life,        \* where each object is in its life
  erased,      \* objects a rootkit took out of the CID table
  \* the query
  pc,
  cursor,      \* the PID View B looks at next
  entries, cidCount, threadCount, bitmap,   \* ARK_PID_ACCUMULATOR
  snapshot,    \* the handles of the snapshot not yet visited
  pool,        \* the pool blocks the query holds
  response,
  \* history, read by properties only
  steady,      \* running and in the CID table since the query began
  watched,     \* named by a process handle of the snapshot, running since then
  gone,        \* had exited when the query began
  unopened     \* those of gone that a test did not get to open by their PID

envVars == <<life, erased>>
accVars == <<entries, cidCount, threadCount, bitmap>>
histVars == <<steady, watched, gone, unopened>>
queryVars == <<envVars, pc, cursor, accVars, snapshot, pool, response, histVars>>

Lives == {"unborn", "running", "stopping", "exited", "freed"}
ViewFlags == {"cid", "thread"}
Pids == {PidOf[o] : o \in Objs}
Entry == [pid : Pids, flags : SUBSET ViewFlags, eprocess : Objs]
Handle == [type : {"process", "thread"}, owner : Objs]
Response == [status : {"none", "success", "no_memory", "failed"},
             entries : Seq(Entry), cid : Nat, thread : Nat]
NoResponse == [status |-> "none", entries |-> <<>>, cid |-> 0, thread |-> 0]

-----------------------------------------------------------------------------
(* Processes, as the kernel keeps them.                                    *)

Exists(o) == life[o] \in {"running", "stopping", "exited"}

\* The objects PsLookupProcessByProcessId and ZwOpenProcess find for a PID.
CidLookup(pid) == {o \in Objs : Exists(o) /\ o \notin erased /\ PidOf[o] = pid}

\* A PID is given out again once the object that had it left the CID table.
Create(o) ==
  /\ life[o] = "unborn"
  /\ CidLookup(PidOf[o]) = {}
  /\ life' = [life EXCEPT ![o] = "running"]
  /\ UNCHANGED <<erased, histVars>>

\* ExitTime and ExitStatus are not set at once: a "stopping" process has only
\* the first, an "exited" one both.
Exit(o) ==
  /\ \/ /\ life[o] = "running"
        /\ \E l \in {"stopping", "exited"} : life' = [life EXCEPT ![o] = l]
     \/ life[o] = "stopping" /\ life' = [life EXCEPT ![o] = "exited"]
  /\ steady' = steady \ {o} /\ watched' = watched \ {o}
  /\ UNCHANGED <<erased, gone, unopened>>

Delete(o) ==
  /\ life[o] = "exited"
  /\ life' = [life EXCEPT ![o] = "freed"]
  /\ UNCHANGED <<erased, histVars>>

Erase(o) ==
  /\ life[o] = "running" /\ o \notin erased
  /\ erased' = erased \union {o}
  /\ steady' = steady \ {o}
  /\ UNCHANGED <<life, watched, gone, unopened>>

Environment ==
  /\ \E o \in Objs : Create(o) \/ Exit(o) \/ Delete(o) \/ Erase(o)
  /\ UNCHANGED <<pc, cursor, accVars, snapshot, pool, response>>

-----------------------------------------------------------------------------
(* The accumulator.                                                        *)

\* Seeded faults: the exit status is not read; a failed open counts as death.
IsDeadProcess_NoExitStatus(o, opened) ==
  PidOf[o] = 0 \/ \E t \in opened : life[t] # "running" \/ t \in NoHandles
IsDeadProcess_FailedOpen(o, opened) ==
  \/ PidOf[o] = 0 \/ (life[o] = "exited" /\ o \notin PendingExit) \/ opened = {}
  \/ \E t \in opened : life[t] # "running" \/ t \in NoHandles

\* What IsDeadProcess decides about object o.  Its own exit status comes
\* first: anything but STATUS_PENDING is death, so that a process that exited
\* with that very code reads as alive here.  Then comes what ZwOpenProcess by
\* PID shows, the exit time and the number of handles.  When the PID cannot be
\* opened or queried the process counts as alive, exited or not.
IsDeadProcess(o, opened) ==
  \/ PidOf[o] = 0
  \/ life[o] = "exited" /\ o \notin PendingExit
  \/ \E t \in opened : life[t] # "running" \/ t \in NoHandles

\* ZwOpenProcess and the two queries either fail or look at the PID's object.
OpenOutcomes(o) == {{}, CidLookup(PidOf[o])}

\* The bitmap has ScanLimit \div 8 + 1 bytes; bits beyond it are not set.
SetPidBit(pid) ==
  bitmap' = IF pid # 0 /\ pid \div 8 < ScanLimit \div 8 + 1
              THEN bitmap \union {pid} ELSE bitmap

Count(n, wanted, flag) == IF flag = wanted THEN n + 1 ELSE n

Bump(flag) ==
  /\ cidCount' = Count(cidCount, "cid", flag)
  /\ threadCount' = Count(threadCount, "thread", flag)

IndexesOf(pid) == {i \in 1..Len(entries) : entries[i].pid = pid}

WithFlag(e, flag) == [e EXCEPT !.flags = @ \union {flag}]

\* Seeded faults: a second handle counts again; the new flag replaces the old.
MergeFlag_CountsTwice(pid, flag) ==
  \E i \in IndexesOf(pid) :
    /\ entries' = [entries EXCEPT ![i] = WithFlag(@, flag)]
    /\ Bump(flag)
    /\ UNCHANGED bitmap
MergeFlag_Overwrites(pid, flag) ==
  \E i \in IndexesOf(pid) :
    /\ entries' = [entries EXCEPT ![i].flags = {flag}]
    /\ IF flag \in entries[i].flags
         THEN UNCHANGED <<cidCount, threadCount>> ELSE Bump(flag)
    /\ UNCHANGED bitmap

\* The PID is known: its entry gains the flag, and keeps its first EPROCESS.
MergeFlag(pid, flag) ==
  \E i \in IndexesOf(pid) :
    /\ \A j \in IndexesOf(pid) : i <= j
    /\ IF flag \in entries[i].flags
         THEN UNCHANGED <<entries, cidCount, threadCount>>
         ELSE /\ entries' = [entries EXCEPT ![i] = WithFlag(@, flag)]
              /\ Bump(flag)
    /\ UNCHANGED bitmap

\* Seeded fault: the PID is not searched for.
AppendEntry_NoSearch(pid, flag, o) ==
  /\ Len(entries) < MaxEntries
  /\ SetPidBit(pid) /\ Bump(flag)
  /\ entries' = Append(entries, [pid |-> pid, flags |-> {flag}, eprocess |-> o])

AppendEntry(pid, flag, o) ==
  /\ IndexesOf(pid) = {}
  /\ Len(entries) < MaxEntries
  /\ SetPidBit(pid)
  /\ entries' = Append(entries, [pid |-> pid, flags |-> {flag}, eprocess |-> o])
  /\ Bump(flag)

\* STATUS_BUFFER_OVERFLOW, which no caller looks at.
Overflow(pid) ==
  /\ IndexesOf(pid) = {}
  /\ Len(entries) >= MaxEntries
  /\ UNCHANGED accVars

AddProcessToAccumulator(pid, flag, o) ==
  \/ MergeFlag(pid, flag)
  \/ AppendEntry(pid, flag, o)
  \/ Overflow(pid)

\* Seeded fault: the bitmap is not given back.
FreePidAccumulator_KeepsBitmap ==
  /\ entries' = <<>> /\ cidCount' = 0 /\ threadCount' = 0 /\ bitmap' = {}
  /\ pool' = pool \ {"entries"}

FreePidAccumulator ==
  /\ entries' = <<>> /\ cidCount' = 0 /\ threadCount' = 0 /\ bitmap' = {}
  /\ pool' = pool \ {"bitmap", "entries"}

-----------------------------------------------------------------------------
(* The query.                                                              *)

Fail(status) ==
  /\ FreePidAccumulator
  /\ response' = [NoResponse EXCEPT !.status = status]
  /\ pc' = "returned"

\* QueryKernelProcessViews is entered; InitPidAccumulator asks for the bitmap.
BeginQuery ==
  /\ pc \in {"idle", "returned"}
  /\ steady' = {o \in Objs : life[o] = "running" /\ o \notin erased}
  /\ gone' = {o \in Objs : life[o] = "exited"} /\ watched' = {} /\ unopened' = {}
  /\ \/ /\ pool' = pool \union {"bitmap"}
        /\ response' = NoResponse
        /\ pc' = "init"
        /\ UNCHANGED accVars
     \/ Fail("no_memory")
  /\ cursor' = 4
  /\ UNCHANGED <<envVars, snapshot>>

\* InitPidAccumulator asks for the entries and gives the bitmap back without.
AllocEntries ==
  /\ pc = "init"
  /\ \/ /\ pool' = pool \union {"entries"}
        /\ pc' = "cid"
        /\ UNCHANGED <<accVars, response>>
     \/ Fail("no_memory")
  /\ UNCHANGED <<envVars, cursor, snapshot, histVars>>

\* IsDeadProcess and, for a process that is not dead, the addition.
AddUnlessDead(o, flag) ==
  \E opened \in OpenOutcomes(o) :
    /\ IF IsDeadProcess(o, opened)
         THEN UNCHANGED accVars
         ELSE AddProcessToAccumulator(PidOf[o], flag, o)
    /\ unopened' = IF opened = {o} THEN unopened
                                   ELSE unopened \union (gone \intersect {o})

\* One PID of CollectCidView.
CidStep ==
  /\ pc = "cid" /\ cursor <= ScanLimit
  /\ \/ CidLookup(cursor) = {} /\ UNCHANGED <<accVars, unopened>>
     \/ \E o \in CidLookup(cursor) : AddUnlessDead(o, "cid")
  /\ cursor' = cursor + 4
  /\ UNCHANGED <<envVars, pc, snapshot, pool, response, steady, watched, gone>>

\* QuerySystemHandleInformation, whose retries PortViews has:
\* it fails and leaves nothing allocated, or returns the handles open now.
TakeSnapshot ==
  /\ pc = "cid" /\ cursor > ScanLimit
  /\ \/ /\ snapshot' \in SUBSET {h \in Handle : Exists(h.owner)}
        /\ Cardinality(snapshot') <= MaxHandles
        /\ watched' = {h.owner : h \in {g \in snapshot' :
                         g.type = "process" /\ life[g.owner] = "running"}}
        /\ pool' = pool \union {"handles"}
        /\ pc' = "handles"
        /\ UNCHANGED <<accVars, response>>
     \/ Fail("failed") /\ UNCHANGED <<snapshot, watched>>
  /\ UNCHANGED <<envVars, cursor, steady, gone, unopened>>

AddAliveProcessFromHandleView(o) == AddUnlessDead(o, "thread")

\* What the pointer of a snapshot entry may refer to by the time it is
\* visited.  The snapshot holds no reference: once the object is freed the
\* memory is anything, another process included.  A thread may be gone while
\* its process lives.
Referents(h) ==
  IF Exists(h.owner) THEN {h.owner} ELSE {o \in Objs : Exists(o)}

MayBeInvalid(h) == h.type = "thread" \/ ~Exists(h.owner)

\* One handle of CollectSystemHandleView.
HandleStep ==
  /\ pc = "handles"
  /\ \E h \in snapshot :
       /\ \/ MayBeInvalid(h) /\ UNCHANGED <<accVars, unopened>>
          \/ \E o \in Referents(h) : AddAliveProcessFromHandleView(o)
       /\ snapshot' = snapshot \ {h}
  /\ UNCHANGED <<envVars, pc, cursor, pool, response, steady, watched, gone>>

\* The snapshot is released, the accumulator copied out and released.
Reply ==
  /\ pc = "handles" /\ snapshot = {}
  /\ response' = [status |-> "success", entries |-> entries,
                  cid |-> cidCount, thread |-> threadCount]
  /\ entries' = <<>> /\ cidCount' = 0 /\ threadCount' = 0 /\ bitmap' = {}
  /\ pool' = pool \ {"handles", "bitmap", "entries"}
  /\ pc' = "returned"
  /\ UNCHANGED <<envVars, cursor, snapshot, histVars>>

Driver == AllocEntries \/ CidStep \/ TakeSnapshot \/ HandleStep \/ Reply

QueryInit ==
  /\ life \in [Objs -> {"unborn", "running", "exited"}]
  /\ erased \in SUBSET {o \in Objs : life[o] = "running"}
  /\ \A o \in Objs : \A p, q \in CidLookup(PidOf[o]) : p = q
  /\ pc = "idle" /\ cursor = 4
  /\ entries = <<>> /\ cidCount = 0 /\ threadCount = 0 /\ bitmap = {}
  /\ snapshot = {} /\ pool = {} /\ response = NoResponse
  /\ steady = {} /\ watched = {} /\ gone = {} /\ unopened = {}

QueryNext == BeginQuery \/ Driver \/ Environment

\* The IOCTL thread is scheduled; nothing else has to happen.
QuerySpec == QueryInit /\ [][QueryNext]_queryVars /\ WF_queryVars(Driver)

-----------------------------------------------------------------------------
(* Properties.                                                             *)

TypeOK ==
  /\ life \in [Objs -> Lives]
  /\ erased \subseteq Objs
  /\ pc \in {"idle", "init", "cid", "handles", "returned"}
  /\ cursor \in Nat
  /\ entries \in Seq(Entry)
  /\ cidCount \in Nat /\ threadCount \in Nat
  /\ bitmap \subseteq Pids
  /\ snapshot \subseteq Handle
  /\ pool \subseteq {"bitmap", "entries", "handles"}
  /\ response \in Response
  /\ steady \subseteq Objs /\ watched \subseteq Objs
  /\ gone \subseteq Objs /\ unopened \subseteq gone

\* However the two views and the life of the processes interleave, a PID has
\* one entry (the search loop of AddProcessToAccumulator), and the entry's
\* EPROCESS is a process of that PID.
OneEntryPerPid ==
  \A i, j \in 1..Len(entries) :
    /\ entries[i].pid = entries[j].pid => i = j
    /\ entries[i].pid = PidOf[entries[i].eprocess]
    /\ entries[i].pid # 0

Flagged(flag) == {i \in 1..Len(entries) : flag \in entries[i].flags}

\* CidCount and ThreadCount of the response are the numbers of entries with
\* the flag, however many handles lead to one process.
CountsMatchFlags ==
  /\ cidCount = Cardinality(Flagged("cid"))
  /\ threadCount = Cardinality(Flagged("thread"))

\* The bitmap marks exactly the entries' PIDs that it has room for.
\* The bitmap is written and never read: part of the inductive invariant only.
BitmapMarksEntries ==
  bitmap = {entries[i].pid : i \in {k \in 1..Len(entries) :
                                       entries[k].pid \div 8 <= ScanLimit \div 8}}

\* Every way out of QueryKernelProcessViews gives back every pool block.
NoPoolLeak == pc \in {"idle", "returned"} => pool = {}

\* Both tests of IsDeadProcess missed the exit of o.
ReadsAlive(o) == o \in PendingExit /\ o \in unopened

\* By whatever path its EPROCESS was reached, a process that had exited before
\* the query began is in no answer, unless it fooled both tests of the zombie
\* filter: its exit code was that of a process that still runs, and a test
\* could not open it by its PID to see its exit time.
NoZombieReported ==
  \A i \in 1..Len(response.entries) :
    response.entries[i].eprocess \in gone => ReadsAlive(response.entries[i].eprocess)

Answered(pid) ==
  \/ \E i \in 1..Len(response.entries) : response.entries[i].pid = pid
  \/ Len(response.entries) = MaxEntries

\* A process with handles that runs, and is in the CID table, all through a
\* successful query is in the answer, unless the answer is full.
SteadyProcessFound ==
  pc = "returned" /\ response.status = "success" =>
    \A o \in steady \ NoHandles :
      PidOf[o] \in 4..ScanLimit => Answered(PidOf[o])

\* A process erased from the CID table, or beyond the PID limit, is found
\* through the handle table if a process handle to it was open when the
\* snapshot was taken and no other process has had its PID.
HandleFindsErased ==
  pc = "returned" /\ response.status = "success" =>
    \A o \in watched \ NoHandles :
      PidOf[o] # 0 /\ (\A q \in Objs \ {o} : PidOf[q] # PidOf[o])
        => Answered(PidOf[o])

\* Entry i of the next state extends the one of this state.
Extends(i) ==
  /\ entries'[i].pid = entries[i].pid
  /\ entries'[i].eprocess = entries[i].eprocess
  /\ entries[i].flags \subseteq entries'[i].flags

OnlyGrow ==
  pc \in {"cid", "handles"} /\ pc' # "returned"
    => /\ Len(entries') >= Len(entries)
       /\ \A i \in 1..Len(entries) : Extends(i)

\* While a query runs an entry keeps its PID and its EPROCESS and loses no
\* flag: the second view only adds to what the first one found.
EntriesOnlyGrow == [][OnlyGrow]_queryVars

=============================================================================
