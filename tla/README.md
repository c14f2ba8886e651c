# AntiRootKit in TLA+

AntiRootKit finds processes, kernel modules and ports that a rootkit hides. A
driver collects what several independent kernel structures show, the app
collects what user mode shows, and what only the first has is reported. None of
the code takes a lock: every list is read while the machine goes on, and every
pointer, PID or endpoint is used after it was read. The modules here say what
the answer is still worth, model-check it on small machines with TLC and prove
the parts that matter most with TLAPS.

## The system's parts

| part | state | operations | module |
|---|---|---|---|
| process views, `DetectHiddenProcess.c` | accumulator (entries, counts, bitmap), handle snapshot | CID scan, handle view, merge by PID, answer | `ProcessViews` |
| process detection, `DetectHiddenProcess.cpp` | user mode PIDs, result, last error | IOCTL, Toolhelp list, comparison, path and parent of a report | `ProcessDetect` |
| module views, `DetectHiddenModule.c` | accumulator, node of the list, index into `\Driver`, pool snapshot | list walk (A), object directory (B), big pool (C), merge by base or name | `ModuleViews` |
| image check, `IsCredibleBigPoolPeImage` | section and directory index | headers, sections, directories, last page | `PeImage` |
| module detection, `DetectHiddenModule.cpp` | user mode modules, result | IOCTL, EnumDeviceDrivers, filter, comparison | `ModuleDetect` |
| port views, `DetectHiddenPort.c` | answer, handle snapshot, PID slots, queries | AFD handles, NSI TCP, NSI UDP | `PortViews` |
| one AFD handle, `ArkEnumerateAfdHandleView` | references and handles held, endpoint read | reference, name, count, open by pointer, duplicate, ask three times, give back | `AfdEndpoint`, `AfdAddress` |
| NSI, `ArkFindNetioBase` to `ArkEnumerateUdpPorts` | module list, functions, tables, row | find netio.sys, its exports, allocate, walk and free the tables | `NsiView` |
| port detection, `DetectHiddenPort.cpp` | user mode endpoints, candidates | two snapshots around the IOCTL, comparison, seven filter rules | `PortDetect` |
| life cycle, `DriverEntry.c`, `DriveRelated.cpp`, `main.cpp` | service, device, link; where each instance of the app is | install, start, query, stop, delete | `ArkLifecycle` |
| IOCTL dispatch, `DeviceControl` | none | calls one query | the step `stage = "ioctl"` of the three detections |
| JSON writer, `json_report_writer.cpp` | stream, file | open, write the parts, lose a write, close | `ArkReports` |
| `undocument.h`, `Log.h` | none | declarations, logging | not modelled |

The app calls the driver through one IOCTL per detection; the driver calls
nothing back. The two share no state but the response buffer. Instances of the
app share the service control manager's one service, and through it the driver,
and, started in one directory, the three report files.
What the machine does (processes, modules, sockets) is shared by everything and
is an environment process of each module: the kernel's own lists are modelled
from how the code reads them and marked external in `PROJECT.json`.

What is hard here, and what makes each part correct:

* **Processes.** A process can exit, be created and take over a PID between any
  two steps; an exited EPROCESS lives on while it is referenced; a rootkit
  removes one from the CID table; the handle snapshot holds pointers without
  references. Correct is: one entry per PID with counts that agree; no process
  whose exit the zombie filter could see; every process that ran all the time; nothing leaked; the scan
  ends. The app must not accuse a process that is visible and runs, and must
  report one that stays hidden.
* **Modules.** The list is walked without its lock from the driver's own entry,
  so the walk may run into freed memory or a node that links to itself. The
  directory is read by index. Correct is: the walk ends, three views merge into
  one entry per base and per name, an unlinked module with a driver object is
  answered unless the index shifted, a module still listed is never accused, and
  what was allocated is freed on the way it was left.
* **Images in pool blocks.** Sums of ULONGs wrap around. Correct is: what is
  accepted is whole, and no whole image is refused.
* **One AFD handle.** The record's object, handle value and PID are from the
  snapshot, each call after it may fail, and AFD's buffer does not say what it
  holds. Correct is: whatever is referenced or opened is given back before the
  next handle, and a process that leaves its socket alone gets that socket's
  address, whatever the others do.
* **NSI.** The list of modules grows between asking for its size and taking it;
  the rows of parallel tables are copied while sockets come and go. Correct is:
  NSI is found as long as the buffer had room, the tables are given back, and
  the rows are those of one moment.
* **Ports.** Each of three views may fail on its own, the array fills in their
  order, and user mode is listed twice, before and after. Correct is: no failure
  throws away what another view found, entries are never dropped silently, and an
  endpoint that was always open and visible is not accused. The last does not
  hold as it stands: see `OnlyPartialRowsAccuse` below.
* **Life cycle.** The driver outlives `stop` until its last handle is closed and
  the service outlives `delete` until its last handle is closed; instances
  overlap. Correct is: device and driver come and go together, every instance
  exits, and nothing is left behind unless an unload said so. Instances may be
  killed at any call.
* **Reports.** The files have fixed names, an earlier run or another instance
  may have written them, and a write may be lost with the buffer. Correct is: a
  report nobody else had a hand in and no write of which was lost is one whole
  JSON object, and exit code 0 means success: that the reports are in their files
  and the driver is unloaded. The code keeps half of it, the failures it is told of.

## Modules

* `ProcessViews` - `BeginQuery` is the entry of `QueryKernelProcessViews` with the
  two allocations that may fail (`AllocEntries` is the second); `CidStep` is one PID
  of `CollectCidView`, `TakeSnapshot` and `HandleStep` are `CollectSystemHandleView` with
  one action per handle, `Reply` copies the answer. `AddProcessToAccumulator` is
  composed of `MergeFlag`, `AppendEntry` and `Overflow`. `IsDeadProcess` is the two
  tests of the code: the exit status of the object at hand, which says "alive" of
  a process that exited with the code STATUS_PENDING (259; `PendingExit` is the
  set of processes that will), and then the exit time and handle count of
  whatever the PID opens (`OpenOutcomes`), where a failed open or query says
  "alive". `Create`, `Exit`, `Delete` and `Erase` are the machine. The history
  variables `steady`, `watched`, `gone` and `unopened` remember who ran all through
  the query, who had a process handle when the snapshot was taken, who was dead
  when the query began, and of whom among these a test could not see the exit time.
  Lookup, test and addition of one PID are one action (`AddUnlessDead`): the
  lookup references the object, so it stays what it is until the reference is
  dropped, and since the lookup finds exited processes as well, an exit between
  lookup and test has the effect of one just before the lookup, and an exit after
  the test that of one after the addition. An open by PID that finds another
  process than the lookup did is one of `OpenOutcomes`.
* `ProcessDetect`, `ModuleDetect`, `PortDetect` extend the module of their views (whose
  own specification is `QuerySpec`, `ModuleSpec`, `PortSpec`): `App` is the app around
  it, `DriverStep` a step of the query it waits for.
* `ModuleViews`, `ModuleDetect` - `SectionStep` is one node of the list, with links
  that lead to unloaded memory or back to the node; `DirectoryStep` one index of
  `\Driver`; the pool snapshot is retried, may fail, and `PoolStep` is one block with
  the filters of View C in their order (session space, tag, PE check, fingerprint
  of a listed module), `PoolException` an exception at any of them. `AddModule` drops
  what has no base or no name and merges the rest by base, then by name; a name
  is "unknown" where its conversion fails (`CopyUnicodeToAnsi`, for the modules in
  `Unconvertible`), and `unnamed` remembers what was dropped for that. The entries
  and the pool snapshot are freed each where the code frees it:
  `FreeModuleAccumulator` frees the entries and nothing else. `PlacesOf` is where the
  driver objects of a module that is loaded are put in `\Driver`. User mode's list
  is counted by one call (`CountR3`) and fetched by the next (`EnumerateR3`).
* `PortViews`, `PortDetect` - the same for ports. `BeginPortQuery` has the two
  allocations of View B, either of which may fail; `SnapshotBuffer` is the allocation
  of a turn of the handle snapshot, `SnapshotGrows`, `SnapshotTaken` and `SnapshotFails`
  the three ways its query ends, each with what it frees. `AfdStep` yields what one handle
  can yield; `EnumerateTcp`, `EnumerateUdp` and their second halves read the tables
  of user mode one by one, and each may fail or be cut off. `CompareEntry` is one turn
  of the comparison, `CountPids` the count rule 2 of `filterHiddenPorts` is based on
  (`crowded`), and `FilterEntry` one turn of its rules in order.
* `AfdEndpoint` - what `AfdStep` takes in one step, call by call, while processes
  open, duplicate, bind, connect and close. A reference keeps the object at its
  address, but not the socket open: the last close cleans it up (`CleanUp`), also
  when it is the driver's. What a visit holds is the reference, `process` (the handle
  of ZwOpenProcess) and `opened`: a kernel handle if the object was opened by
  pointer, and, if it was duplicated, one in the table of the app the driver works
  for, since ZwDuplicateObject is not given OBJ_KERNEL_HANDLE. `AfdAddress` has the buffer in words of 16 bits and
  `ArkParseAfdAddressBuffer`.
* `NsiView` - what `ResolveNsi`, `TcpView` and `UdpView` of `PortViews` take in one
  step each, call by call. Property `ViewC` is the refinement: its behaviours are
  ones of `PortViews` under a mapping in which the rows still to be copied are in
  the answer from the moment the tables were allocated.
* `CrossView` - the abstract detector: collect what the kernel shows and what user
  mode shows, then once report items of the first that are not in the second (all
  of them, or those no filter excuses), or fail and report nothing. The three
  detections implement it (property `KeepsPromise` of each) with a refinement
  mapping that takes the kernel's entries from the response and the report from
  the result at the end.
* `PeImage` - one check of one image; an unreadable address or an exception ends
  it at any step (`Fault`). The width of a word is a constant.
* `ArkLifecycle` - one action per call of the service control manager, each of
  which another instance may precede; `System` is the unload of a driver nobody
  has open and the removal of a service marked for deletion; `Kill` is the user
  who closes the console.
* `ArkReports` - extends `ArkLifecycle`: what happens between a detection and its
  `WriteReport`, part by part. `Kinds` says which reports are followed. Parts reach
  the file in order, at the writer's own offset; a write that fails is remembered
  by the stream, which nobody asks.
* `MC...` - the instances. They stop a run when the query or the detection has
  returned, since the next one starts from the same driver state.
* `...Proofs` - the theorems, see below.

Every definition named in `PROJECT.json` under `map` has the lines it stands
for. Definitions with a suffix (`MergeFlag_Overwrites`) are seeded faults: put in
place of the definition they vary they make the property listed with them fail,
so that each property is known to depend on the code.

## Runs

| run | instance | what it shows |
|---|---|---|
| `process_views` | two processes that share PID 4 one after the other, one of which exits with the code 259, one beyond the PID limit, three PIDs for 2 entries, 2 handles, a minimal process, allocations that fail | one entry per PID, counts, which zombies can be answered, nothing steady is lost, entries only grow, no leak, a process erased from the CID table is found by its handle |
| `process_detect` | a PID that changes hands, a process that may be unlinked, no handles | no visible process is accused; what stays hidden is reported; whose path a report may carry; implements `CrossView`; ends |
| `process_detect_status` | more processes than the app's vector holds | **violated** (`FailureHasError`): a failed detection has status 0 |
| `lifecycle` | two instances, one of which may be told to keep the driver and may be killed, two detections, one of them with a report of two items followed part by part over a longer report of an earlier run | device and driver together, nothing left behind, reports whole, a failure main was told of is in the exit code, every instance exits |
| `lifecycle_exit` | two instances, any of them killed or told to keep, one detection with a report of one item | **violated** (`ExitCodeTellsSuccess`): a report is not in its file, the unload failed, exit code 0 |
| `lifecycle_image` | instances one after the other | **violated** (`OwnImageQueried`): the unload of the first fails, and the second queries the first's sys |
| `port_detect` | a visible connection or a visible listening port, a hidden UDP port, three holders, a PID of one of which truncates to 0, 2 entries, 1 slot, 1 AFD query, 2 snapshot tries, 1 entry per PID | no leak, counts explain the entries, steady endpoints are answered, failures lose nothing, a visible endpoint is accused by partly read AFD rows of connections only, implements `CrossView`, ends |
| `port_hidden` | a hidden listening port and a hidden connection | **violated** (`HiddenPortReported`): the filter drops the listening port |
| `module_detect` | the driver, a module, a module of the same name without a valid section, three pool blocks: a copy of each listed module and one with a noise tag; the driver's own name may fail to convert; 3 entries | one entry per module, counts, no leak, nothing listed accused, copies not accused, what is unlinked is answered, implements `CrossView`, ends |
| `pe_image` | words of 4 bits, a few hundred images around every bound | accepted images are whole, rejected ones are not |
| `afd_endpoint` | two processes with one handle each, two sockets, addresses before and after connect, of IPv6 and of TDI, three changes during the query | nothing is held between visits, steady sockets are answered exactly |
| `nsi_view` | a TCP endpoint, two UDP endpoints with the same row, one of IPv6, netio.sys in capitals and another module, room for one module more, three changes, 2 entries of which View B may have one | the tables are given back, NSI is reached, implements `PortViews` |

The bounds are the smallest at which each hazard happens: a limit of two entries
is below the number of items, so that arrays fill; two users of one PID make
reuse possible; two instances are enough for every pair of calls to overlap, as
they share only the service and a file; one slot and one query make the AFD
limits bite at the second handle; two tries let the snapshot grow once and then
give up. The walk of the module list is bounded by `2 * MaxEntries` as in the
code, and with three entries both ends of the loop happen. In `module_detect` the
machine acts during the two walks and between the two calls of user mode's list,
where modules are only loaded; it rests before the query, which begins with any
list, during View C, which walks no list, and during the comparison. One module is
unloaded at most and one name not found by user mode; three pool snapshots are
enough for each block to be read or not. In `port_detect` the listening port is
open all through or not at all, and never beside the connection. In `afd_endpoint` three changes suffice for a handle
to be closed, opened on another socket and bound there; in `nsi_view` for one
module too many. In `pe_image` a word of 4 bits makes sums wrap that in the code
need images of 2 GB. Only one report of `lifecycle` is followed part by part,
since each has a file of its own. The runs have `CHECK_DEADLOCK FALSE`, since a
query, a detection and an instance of the app do end.

Fairness is weak fairness of the app's and the driver's thread (`App`,
`DriverStep`, `Driver`, `AfdView`, `View`), which Windows schedules, and in the
life cycle of each instance and of the system's workers, which unload a driver
once it is closed. Nothing is assumed of processes, modules, sockets, a user who
closes the console or a rootkit: they may do anything or nothing for ever.

## What the runs found

* `FailureHasError`: `enumerateR3Processes` fails without a failed API call when
  there are more than `ARK_MAX_PROCESS_ENTRIES` PIDs; `GetLastError()` may be 0,
  and `main` then writes an empty report as a success.
* `ExitCodeTellsSuccess`: `main` promises 0 on success only (`main.cpp:19`), and `write*`
  of the report writer true only on a successful write (`json_report_writer.h:32`).
  The trace breaks both: a write fails, which the stream remembers and nobody asks,
  `writeHiddenProcessResult` returns true, `main` says that the report was written;
  then `unloadDriver` fails, which `main` ignores, and 0 is returned with the driver
  loaded and the report not in its file. The property is stated as the weakest
  reading, that one of the two at least is in order, so that one trace shows both.
* `OwnImageQueried`: with the service running, `installDriver` updates ImagePath
  and keeps the loaded image, against its own comment. In the trace the service
  still runs because the first instance's unload failed; `-keep` leads there as well.
* `HiddenPortReported`: rule 4 of `filterHiddenPorts` drops each entry with
  remote port 0, and with it every hidden listener, which the trace shows. (Rule 6
  drops a hidden connection because its own local port is in use; this can be read
  in `FilterEntry` and is not what the trace shows.) The repository's README
  promises to find both.

What the passing runs say is weaker in three places than one would wish of the
code, because the code is:

* `NoZombieReported`: a process that had exited before the query may be in the answer
  if its exit code was 259 and it could not be opened by its PID, and only then.
* `OnlyPartialRowsAccuse`: View B makes an entry of whatever its three IOCTLs yield,
  also when GET_CONTEXT or one of the addresses failed. Such a row of a visible
  connection, without its protocol or local side, equals no row of user mode. With
  a remote port it passes rule 4, and without a local port there is nothing for
  rule 6 to find in use: the connection is reported as hidden. The property says
  that rows of this kind are the only ones: nothing is reported for a visible
  listening port, and nothing for a connection by a row of NSI or by one that was
  read whole. (A row that lacks its protocol only is dropped by rule 6 as long as
  the probe of its port succeeds; the property does not count on the probe.)
* `ToldFailuresKept`: the exit code tells of each failure `main` is told of, and
  `ExitCodeTellsSuccess` of those it is not.

## Proofs

Every theorem holds for any values of the constants, that is, for any number of
processes, modules, sockets or instances, any limits, and any interleaving. The
`PROJECT.json` list names them; this section says along which argument they hold.

### Processes

`ProcessProofs` proves of the query: `TypeOK`, `OneEntryPerPid`, `CountsMatchFlags`,
`NoPoolLeak`, `NoZombieReported`, `SteadyProcessFound`, `HandleFindsErased` as
invariants of `QuerySpec`, and `EntriesOnlyGrow` as an action property. All but one
rest on the inductive invariant `IInv`, of these parts:

* the accumulator is well formed: types, one entry per PID, counts equal to the
  numbers of flagged entries, the bitmap equal to the PIDs it has room for
  (`BitmapMarksEntries`, which no code reads, is only needed here);
* the machine: the CID table has one object per PID, and what has exited stays so;
* the program counter tells which pool blocks are held;
* an object that was dead when the query began is entered only if its exit code
  reads as running and a test could not open it (`ReadsAlive`);
* every steady process whose PID View B has passed is entered, or the array is full.

`HandleFindsErased` needs one part more (`HandleInv`): until View C is done, a watched
process is entered or its handle is still among those to come.

`SteadyProcessFound` is not inductive by itself: it speaks of the answer, and
needs the last part while the scan is under way, and the second (a PID in use
has one object) to know that the lookup at that PID finds the steady process.
Both views add through `AddProcessToAccumulator`, so its effect is proved once
(`AddType`, `AddGrows`, `AddFits`, `AddFinds`, `AddOneEntry`, `AddCounts`) and
each step of the query cites it.

Of the detection it proves `NoVisibleProcessAccused`, `EnrichedFromReported`,
`SteadyHiddenReported` and `KeepsPromise`. `DetectionQueries` says that a detection,
seen through the query's variables, is a behaviour of the query or leaves it alone,
so that what holds of every query holds of this one. The rest of the invariant is
about what the app does with the answer: an entry's object has that PID and was
created (`AnswerInv`); what the comparison has passed is reported or listed
(`CompareInv`); an entry that user mode did not list belongs to a process that is
hidden or has ended, and neither changes (`AccountInv`). This is established in one
step, the user mode snapshot, and it is what makes the order of the two snapshots
matter: with the snapshot taken first it cannot be proved, and TLC shows why
(`EnumerateR3_Early`).

### Images

`PeImageProofs` proves for every word width, header size and image that the
indexes stay in their tables, that in a block of at most half the word (2 GB)
an accepted image is whole in the arithmetic of integers, and that no whole
image is rejected, in a block of any size. The invariant says that headers
passed and that the ranges before the index passed; the two directions then are
lemmas about one image (`CheckedIsWhole`, `WholeHeaders`, `WholeRanges`) and the
fact that sums below the word do not wrap (`NoWrap`).

### Life cycle and reports

`ArkLifecycleProofs` proves `DeviceIffDriver` and `DriverNotLeftBehind` for any
number of instances. The first needs that at most one start is under way
(`OneStarts`) and what DriverEntry has made by then. The second is about the
end; the invariant says who is responsible on the way: while the driver runs,
some instance still owes its unload, was to keep it, failed to or was killed
(`Responsible`). `ArkReportsProofs` shows that `ReportsSpec` implements
`ArkLifecycle` (`ReportsImplement`), so that both carry over, and proves
`ReportWhole` and `ToldFailuresKept`: the parts a writer that is alone has
flushed are a prefix of a whole report (`StreamOK`, `IntactOK`), and the failures
and successes main was told of agree with where it is (`Told`).

### Modules

`ModuleProofs` proves of the driver `OneEntryPerModule` and `CountsMatchViews`, through
the effect of `AddModule`, which all three views use (`AccInv`), and
`NoModulePoolLeak`, from where the query stands: the entries are allocated until the
reply or a failure, the snapshot from a turn of View C to its end. Of the detection it
proves `NoListedModuleAccused`, `CopyNotAccused`, `UnlistedAnswered` and `KeepsPromise`.
These four are about what the three views and user mode have in common, so the
invariant has a part for each:

* `MachineInv`: the list of loaded modules is a ring. Each module has a place, and
  the link of a module leads to the next place that is taken (`Ring`). That loading
  and unlinking keep this is proved once and used for every walk.
* `WalkInv`: as long as the walk of View A is not diverted, it stands at a module of
  the list, every module it has passed is in the accumulator, and it has made no
  more turns than it passed modules: the limit of its turns cannot stop it early
  with fewer than `2 * MaxEntries` modules.
* `CopiesInv`: a pool block is entered under its own base only if its module could
  not be recognised, for one of the reasons `CopyNotAccused` lists. One of them is
  that View A dropped the module because its name did not convert (`unnamed`).
* `ObjectsInv`: while the directory has not shifted, each entry of View B belongs to
  a driver object of its own. This injection turns the count of View B into a
  statement about objects: if it equals the length of the directory, every object
  has an entry. From this `UnlistedAnswered` follows.
* `R3Inv`: what was found and is still in the list, user mode has listed, unless its
  list was full.

### Ports

`PortProofs` proves of the driver `NoPoolLeak`, `FailureLosesNothing`,
`CountsExplainEntries` and `SteadyEndpointAnswered`, and of the detection
`OnlyPartialRowsAccuse` and `KeepsPromise`. `PoolInv` says which blocks are held at
each turn of the handle snapshot. `FoundInv` follows an entry from its
PID slot to the views that succeeded, and uses that the limit of the slots is
positive. `TableInv` cuts the answer in three (`Parts`): entries of View B, of the
TCP table, of the UDP table, each as many as were counted or as there was room; a
table whose part is as long as its count has the rows of all that is open since the
query began (`SteadyParts`). The detection needs `ListInv`, that the second list has
each steady TCP endpoint nobody hides, `JoinInv`, that then so has the join of the
two, `CandidatesInv`, that the comparison and the filter only ever choose among
what user mode did not list, and `FilterInv`, that what the filter has kept has a
remote port.

### AFD handles and NSI

`AfdEndpointProofs` proves `NothingHeldBetweenVisits` and `SteadySocketExact` for any
number of processes, sockets and changes. The invariant: a steady record's handle
is still that of its socket, so that whichever way the driver got at it, the
socket asked is the record's (`AsksRightSocket`); what was read is its address
(`AnswerExact`, from `ReadExactly` about the parser); and the last close at the end
of a visit cannot clean up the socket of a steady record.

`NsiViewProofs` proves `NsiTablesGivenBack`, and `NsiReached` for a well formed
export table: the room left in the buffer shrinks by one with each change
(`LoaderCount`).

`ViewCThm` is the refinement of `PortViews`. The mapping puts into the answer what is
left of the table (`Left`): its rows of IPv4 that are still ahead, the k-th of them
being the one with k of them up to it (`Nth`, `Rank`), so that neither a recursion
nor a fold is needed. The lemmas are about this order: each number of a finite set
has a rank of its own and each rank is taken (`RankFacts`, by counting), without its
first number the others move up by one (`NthRest`), and what an enumeration has
of a subset enumerates the subset (`Chosen`). So at the allocation what is left is
one of the tables `PortViews` may read (`Allocated`), and when a row is appended and
leaves `Left`, or is dropped because the array is full, the answer it will come to
stays the same (`FilledOneMore`, `OneRow`). The invariant (`TableInv`) says that the
rows under way are a table of the protocol with the owners of its endpoints, and
that nothing was counted before.

### The abstract detector

`KeepsPromiseThm` of each of the three proof modules shows that the detection
implements `CrossView` under the mapping stated at its `Promise`: the first state
maps to the abstract first state (`AbsInit`), and each step to one abstract step or a
stutter. The answer of the driver is the abstract collection of the kernel's items
(`AbsKernel`), the user mode snapshot that of the others (`AbsR3`), the last step
the report (`AbsReport`), and all the rest, the driver's views and the machine
included, are stutters. That a report has only items of the kernel's answer that
user mode did not list is the part of the invariant the last step needs.

### What the proofs found about the model

* `OnlyPartialRowsAccuse` did not follow from the joined list not being full: the
  second list can be full while the join is not, where endpoints share addresses.
  The property now says so (`Cardinality(list) < MaxEntries`).
* `CopyNotAccused` does not hold when there are more modules than the walk has turns,
  which takes twice as many modules as entries; it is now an excuse.
* `UnlistedAnswered` had excused a full accumulator. That excuse was not needed, since
  an addition that fails is not counted and the count of View B then falls short;
  the property is now the stronger one.
* `PortViews` had NSI's table as a set of rows, in which two endpoints with the same
  row, such as a shared UDP port, are one. `NsiView` has both, as the code does, so
  that the refinement fails with two such endpoints; no run had them. The table is
  now a sequence with a row for each endpoint, and `nsi_view` has the two.

### Assumptions, and what is only model-checked

The assumptions are the named ones of each module about its constants; none is
about what the machine does. The sets of processes, modules and sockets are finite,
limits are positive, PIDs are multiples of 4, an endpoint is of TCP or UDP
(`PortEndpoints`, `NsiLimits`), and a pool block is not at the address of a module
(`ModuleAddresses`).

Only model-checked are:

* liveness, `DetectionEnds` of the three detections, `AppsExit` and
  `ServiceNotLeftBehind`: the prover does not reason about fairness and ENABLED;
* the four properties that runs show violated by the code: TLC's traces are their
  proof.

## Abstractions, and what is not modelled

* Names, paths and image names are model values, except where two of them must
  agree; reasons, formatting, logging, and the text, escaping and indentation of
  the JSON reports are left out.
* A freed EPROCESS may be any live process; a freed module's memory may still
  hold its entry, or lead anywhere there has been a node. Memory that faults is
  an exception where the code catches one. A crash of the machine is not modelled.
* A module base is not used again by another module.
* The process handle snapshot is one action; its retry loop is modelled for the
  ports, which use the same code.
* In `PortViews` the answer of AFD for a handle is its endpoint, one with a side
  missing or with an unknown protocol, or an error; `AfdEndpoint` has where it comes
  from, without the protocol and state.
* What a TDI address yields is left open: it depends on whether the compiler
  aligns `ARK_TDI_ADDRESS_IP` to 14 or to 16 bytes.
* `ZwClose` of a handle the driver opened may be the last close of a socket, which
  is in the model. That the app could close the duplicate in its own table before
  the driver does is not: it waits for its IOCTL.
* `DeviceControl` keeps nothing between calls. The app sends no unknown code and
  no short buffer, so that its error paths for these are left out.
* `undocument.h` declares structures and `Log.h` prints: there is no behaviour to
  check.

Hazards that no property covers, since the code has no remedy and promises none:

* two processes that hold one PID one after the other are merged into one entry,
  with the first one's EPROCESS (`DetectHiddenProcess.c:247`): the states are in the
  model, and the address decides nothing;
* `AfdCount` is called the number of PIDs with AFD handles, but PIDs are cut to 16
  bits and the slots are limited (`DetectHiddenPort.c:962`): the number is printed
  and nothing else depends on it.

Full arrays, a `\Driver` directory that shifts under its index and an enumeration
cut short lose items by design. The properties about what must be found excuse
these, each by what shows it (a full array, a count that falls short); what they
say is that nothing else loses an item.

`CollectDriverObjectView` returns success after an error of the enumeration,
although its comment says it returns the error; the model does as the code does,
and `UnlistedAnswered` has to excuse it.

## Plan

Done: the core (processes and life cycle), ports, modules and images, the reports,
AFD handles and NSI call by call, each with its runs; proofs of every invariant and
every refinement that a run checks.

Next, in this order:

1. That a visit of `AfdEndpoint` yields what one `AfdStep` of `PortViews` may yield.
2. Reuse of a module base.
