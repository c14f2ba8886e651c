--------------------------- MODULE ProcessDetect ---------------------------
(***************************************************************************)
(* The app's hidden process detection                                      *)
(* (AntiRootKitApp/DetectHiddenProcess.cpp) together with the driver query *)
(* it issues (module ProcessViews) and the processes of the machine.       *)
(*                                                                         *)
(* crossDetectHiddenProcesses asks the driver first and takes one R3       *)
(* snapshot afterwards; entries of the driver's answer that the snapshot   *)
(* lacks are reported, each enriched through a fresh OpenProcess by PID.   *)
(***************************************************************************)
EXTENDS ProcessViews

VARIABLES
  unlinked,    \* objects a rootkit took off the active process list
  stage,       \* where crossDetectHiddenProcesses is
  r3,          \* View A, the r3Pids vector
  index,       \* next entry of the driver's answer to compare
  hidden,      \* result.hiddenProcesses
  status,      \* result.status, 0 being ERROR_SUCCESS
  lastError    \* what GetLastError() would return

appVars == <<stage, r3, index, hidden, status, lastError>>
vars == <<queryVars, unlinked, appVars>>

NoObject == "N/A"
ErrorCode == 1    \* any Win32 error code but ERROR_SUCCESS

-----------------------------------------------------------------------------
(* The machine.                                                            *)

Linked == {o \in Objs : Exists(o) /\ o \notin unlinked}

Unlink(o) ==
  /\ life[o] = "running" /\ o \notin unlinked
  /\ unlinked' = unlinked \union {o}
  /\ UNCHANGED <<queryVars, appVars>>

Machine ==
  \/ Environment /\ UNCHANGED <<unlinked, appVars>>
  \/ \E o \in Objs : Unlink(o)

-----------------------------------------------------------------------------
(* crossDetectHiddenProcesses.                                             *)

\* An API call fails and sets the thread's last error, which becomes the
\* status: nothing is reported.
FailWith(code) ==
  /\ stage' = "failed"
  /\ status' = code
  /\ lastError' = code

\* queryKernelProcessViews up to the IOCTL: the device is opened, or not.
OpenDevice ==
  /\ stage = "start"
  /\ \/ /\ BeginQuery
        /\ stage' = "ioctl"
        /\ UNCHANGED <<status, lastError>>
     \/ FailWith(ErrorCode) /\ UNCHANGED queryVars
  /\ UNCHANGED <<unlinked, r3, index, hidden>>

DriverStep ==
  /\ stage = "ioctl"
  /\ Driver
  /\ UNCHANGED <<unlinked, appVars>>

\* DeviceIoControl returns.  An answer of the driver is never shorter than the
\* structure, so the length test has nothing to refuse.
IoctlReturns ==
  /\ stage = "ioctl" /\ pc = "returned"
  /\ IF response.status = "success"
       THEN stage' = "r3" /\ UNCHANGED <<status, lastError>>
       ELSE FailWith(ErrorCode)
  /\ UNCHANGED <<queryVars, unlinked, r3, index, hidden>>

\* Seeded fault: user mode is listed before the driver is asked.
EnumerateR3_Early ==
  /\ stage = "r3"
  /\ r3' = {PidOf[o] : o \in Linked \intersect steady} \ {0}
  /\ stage' = "compare"
  /\ UNCHANGED <<queryVars, unlinked, index, hidden, status, lastError>>

\* enumerateR3Processes: every running process that is linked is listed, one
\* that is exiting may be.  addPidToSet ignores PID 0 and refuses a PID when
\* the vector is full: the whole detection then ends with GetLastError(),
\* which no failed call has set.
EnumerateR3 ==
  /\ stage = "r3"
  /\ \/ \E late \in SUBSET {o \in Linked : life[o] # "running"} :
          LET listed == {o \in Linked : life[o] = "running"} \union late
              pids == {PidOf[o] : o \in listed} \ {0}
          IN  IF Cardinality(pids) <= MaxEntries
                THEN /\ r3' = pids /\ stage' = "compare"
                     /\ UNCHANGED <<status, lastError>>
                ELSE /\ stage' = "failed" /\ status' = lastError
                     /\ UNCHANGED <<r3, lastError>>
     \/ FailWith(ErrorCode) /\ UNCHANGED r3
  /\ UNCHANGED <<queryVars, unlinked, index, hidden>>

\* Seeded fault: the process opened is that of the first entry.
EnrichProcessInfo_First(pid) ==
  {NoObject} \union CidLookup(response.entries[1].pid)

\* enrichProcessInfo opens whatever process has the PID now, or none.
EnrichProcessInfo(pid) == {NoObject} \union CidLookup(pid)

Report(e) ==
  \E o \in EnrichProcessInfo(e.pid) :
    hidden' = Append(hidden, [pid |-> e.pid, eprocess |-> e.eprocess, opened |-> o])

\* Seeded faults: the comparison is inverted; an entry that is not hidden does
\* not move the loop on.
CompareEntry_Inverted ==
  /\ stage = "compare" /\ index <= Len(response.entries)
  /\ IF response.entries[index].pid \in r3
       THEN Report(response.entries[index])
       ELSE UNCHANGED hidden
  /\ index' = index + 1
  /\ UNCHANGED <<queryVars, unlinked, stage, r3, status, lastError>>
CompareEntry_NoProgress ==
  /\ stage = "compare" /\ index <= Len(response.entries)
  /\ IF response.entries[index].pid \in r3
       THEN UNCHANGED <<hidden, index>>
       ELSE Report(response.entries[index]) /\ index' = index + 1
  /\ UNCHANGED <<queryVars, unlinked, stage, r3, status, lastError>>

\* One entry of the driver's answer is compared with View A.
CompareEntry ==
  /\ stage = "compare" /\ index <= Len(response.entries)
  /\ IF response.entries[index].pid \in r3
       THEN UNCHANGED hidden
       ELSE Report(response.entries[index])
  /\ index' = index + 1
  /\ UNCHANGED <<queryVars, unlinked, stage, r3, status, lastError>>

\* Seeded fault: the last entry is not compared.
Finish_OneShort ==
  /\ stage = "compare" /\ index >= Len(response.entries)
  /\ stage' = "done" /\ status' = 0
  /\ UNCHANGED <<queryVars, unlinked, r3, index, hidden, lastError>>

\* result.status is the driver's, which is success here.
Finish ==
  /\ stage = "compare" /\ index > Len(response.entries)
  /\ stage' = "done" /\ status' = 0
  /\ UNCHANGED <<queryVars, unlinked, r3, index, hidden, lastError>>

App == OpenDevice \/ IoctlReturns \/ EnumerateR3 \/ CompareEntry \/ Finish

Init ==
  /\ QueryInit
  /\ unlinked \in SUBSET {o \in Objs : life[o] = "running"}
  /\ stage = "start" /\ r3 = {} /\ index = 1 /\ hidden = <<>>
  /\ status = 0 /\ lastError \in {0, ErrorCode}

Next == App \/ DriverStep \/ Machine

\* The app's thread is scheduled, and so is the driver's work on its behalf.
Spec == Init /\ [][Next]_vars /\ WF_vars(App) /\ WF_vars(DriverStep)

-----------------------------------------------------------------------------
(* Properties.                                                             *)

\* A process on the active process list that is still running is never
\* reported, whenever it was created: the R3 snapshot is taken after the
\* kernel views.  Only a process that exits in between can be accused.
NoVisibleProcessAccused ==
  \A i \in 1..Len(hidden) :
    LET o == hidden[i].eprocess
    IN  o \in unlinked \/ life[o] # "running"

\* A process with handles that has run, in the CID table, since the driver was
\* asked and whose PID user mode did not list is reported, unless the driver's
\* answer was full.
SteadyHiddenReported ==
  stage = "done" =>
    \A o \in steady \ NoHandles :
      PidOf[o] \in 4..ScanLimit /\ PidOf[o] \notin r3 =>
        \/ \E i \in 1..Len(hidden) : hidden[i].pid = PidOf[o]
        \/ Len(response.entries) = MaxEntries

\* The path and parent attached to a report are of the process reported,
\* unless that process has lost its PID: freed, or erased from the CID table.
EnrichedFromReported ==
  \A i \in 1..Len(hidden) :
    LET h == hidden[i]
    IN  \/ h.opened \in {NoObject, h.eprocess}
        \/ life[h.eprocess] = "freed"
        \/ h.eprocess \in erased

PidsOf(s) == {s[i].pid : i \in 1..Len(s)}

Promise == INSTANCE CrossView WITH
  Items <- Pids,
  Filtering <- FALSE,
  stage <- CASE stage = "done" -> "reported"
             [] stage = "failed" -> "failed"
             [] OTHER -> "collecting",
  kernel <- IF stage \in {"start", "ioctl"} THEN {}
              ELSE PidsOf(response.entries),
  r3 <- r3,
  report <- IF stage = "done" THEN PidsOf(hidden) ELSE {}

\* The detection keeps the promise of CrossView: what it reports is exactly
\* the kernel's PIDs that user mode did not list.
KeepsPromise == Promise!Init /\ [][Promise!Next]_(Promise!vars)

\* The detection ends.
DetectionEnds == <>(stage \in {"done", "failed"})

\* "@return ... on failure status is a Win32 error code"
\* (AntiRootKitApp/DetectHiddenProcess.h:38, .cpp:213): a detection that did
\* not compare the views does not return ERROR_SUCCESS.
FailureHasError == stage = "failed" => status # 0

=============================================================================
