---------------------------- MODULE ModuleDetect ----------------------------
(***************************************************************************)
(* The app's hidden module detection                                       *)
(* (AntiRootKitApp/DetectHiddenModule.cpp) on top of the driver's module   *)
(* views (module ModuleViews).                                             *)
(*                                                                         *)
(* crossDetectHiddenModules asks the driver, lists the modules user mode   *)
(* sees afterwards, and reports the driver's entries that are in the list  *)
(* neither by base nor by name.                                            *)
(***************************************************************************)
EXTENDS ModuleViews

VARIABLES
  stage,       \* where crossDetectHiddenModules is
  counted,     \* modules in the list when room was made for them
  r3,          \* [base, name] of the modules listed
  index,       \* next entry of the driver's answer to compare
  hidden,      \* result.hiddenModules
  steady       \* history: hidden since before the query, with an object

appVars == <<stage, counted, r3, index, hidden>>
vars == <<moduleVars, appVars, steady>>

-----------------------------------------------------------------------------
(* crossDetectHiddenModules.                                               *)

\* Modules unlinked from the list, with a driver object.
Unlisted == {m \in loaded \ linked : PlacesOf(m) # {}}

Fail ==
  /\ stage' = "failed"
  /\ UNCHANGED <<counted, r3, index, hidden>>

OpenDevice ==
  /\ stage = "open"
  /\ \/ BeginModuleQuery /\ stage' = "ioctl"
        /\ UNCHANGED <<counted, r3, index, hidden>>
     \/ Fail /\ UNCHANGED moduleVars
  /\ steady' = Unlisted

DriverStep ==
  /\ stage = "ioctl"
  /\ ModuleQuery
  /\ UNCHANGED <<appVars, steady>>

IoctlReturns ==
  /\ stage = "ioctl" /\ pc = "returned"
  /\ \/ response.status = "success" /\ stage' = "r3"
        /\ UNCHANGED <<counted, r3, index, hidden>>
     \/ response.status = "failed" /\ Fail
  /\ UNCHANGED <<moduleVars, steady>>

\* EnumDeviceDrivers reads the list: what is unlinked it does not show.
ListedModules == linked

\* The first call of enumerateR3Modules asks for the size of the list.
CountR3 ==
  /\ stage = "r3"
  /\ \/ /\ counted' = ListedModules
        /\ stage' = "fetch" /\ UNCHANGED <<r3, index, hidden>>
     \/ Fail
  /\ UNCHANGED <<moduleVars, steady>>

\* What a call with room for the counted modules returns, and the vector takes:
\* modules loaded since are at the end of the list and fall off it first.
Fetched(s) ==
  /\ Cardinality(s) = Min({Cardinality(ListedModules), Cardinality(counted), MaxEntries})
  /\ Cardinality(s) < MaxEntries => ListedModules \intersect counted \subseteq s

\* The second call fetches it.  enumerateR3Modules stops when the vector is
\* full, and says nothing.  The name of a module may not be found any more once
\* its base is listed.
EnumerateR3 ==
  /\ stage = "fetch"
  /\ \/ /\ \E s \in SUBSET ListedModules :
             /\ Fetched(s)
             /\ \E anonymous \in SUBSET s :
                  r3' = {[base |-> m,
                          name |-> IF m \in anonymous THEN Unknown ELSE NameOf[m]]
                           : m \in s}
        /\ stage' = "compare" /\ UNCHANGED <<counted, index, hidden>>
     \/ Fail
  /\ UNCHANGED <<moduleVars, steady>>

\* Seeded fault: only names are compared.
InR3_NameOnly(entry) == \E m \in r3 : m.name = entry.name

\* isModuleInR3Set.
InR3(entry) == \E m \in r3 : m.base = entry.base \/ m.name = entry.name

\* isFalsePositiveKernelModule; no entry lacks a name or a base.
FalsePositive(entry) == ~entry.sized /\ "residual" \notin entry.views

\* Seeded fault: what is listed is reported.
CompareModule_Inverted ==
  /\ stage = "compare" /\ index <= Len(response.entries)
  /\ LET entry == response.entries[index] IN
     hidden' = IF FalsePositive(entry) \/ ~InR3(entry) THEN hidden
                 ELSE Append(hidden, entry)
  /\ index' = index + 1
  /\ UNCHANGED <<moduleVars, stage, counted, r3, steady>>

CompareModule ==
  /\ stage = "compare" /\ index <= Len(response.entries)
  /\ LET entry == response.entries[index] IN
     hidden' = IF FalsePositive(entry) \/ InR3(entry) THEN hidden
                 ELSE Append(hidden, entry)
  /\ index' = index + 1
  /\ UNCHANGED <<moduleVars, stage, counted, r3, steady>>

Finish ==
  /\ stage = "compare" /\ index > Len(response.entries)
  /\ stage' = "done"
  /\ UNCHANGED <<moduleVars, counted, r3, index, hidden, steady>>

App == OpenDevice \/ IoctlReturns \/ CountR3 \/ EnumerateR3 \/ CompareModule \/ Finish

Init ==
  /\ ModuleInit
  /\ stage = "open" /\ counted = {} /\ r3 = {} /\ index = 1 /\ hidden = <<>> /\ steady = {}

MachineStep ==
  /\ Machine
  /\ steady' = steady \intersect Unlisted'
  /\ UNCHANGED appVars

Next == App \/ DriverStep \/ MachineStep

\* The app's thread is scheduled, and so is the driver's work on its behalf.
Spec == Init /\ [][Next]_vars /\ WF_vars(App) /\ WF_vars(DriverStep)

-----------------------------------------------------------------------------
(* Properties.                                                             *)

Names == {NameOf[m] : m \in Mods} \union {ObjectName[m] : m \in Mods}
           \union {TagName[b] : b \in Blocks}
Entry == [base : Bases, name : Names, views : SUBSET Views, sized : BOOLEAN]

\* A module that nobody has unlinked and that is still loaded is never
\* reported, by whichever view it was found, also under the name of another
\* module: user mode is listed after the kernel, with its base.  Unless the
\* list of user mode was full: it is cut off without an error.
NoListedModuleAccused ==
  \A i \in 1..Len(hidden) :
    hidden[i].base \in linked => Cardinality(r3) = MaxEntries

Alike(m) == {n \in Mods \ {m} : NameOf[m] \in {NameOf[n], ObjectName[n]}}

\* A copy in a pool block of a module that is listed all through the query is
\* not reported: View A has the module, and its fingerprint gives the copy
\* away.  Unless a node left the list under the walk, there are more modules
\* than the walk has turns, View A dropped the module because its name could not
\* be converted, the module's entry went to another module of the same name, the
\* accumulator was full, or the module's header could not be read.
CopyNotAccused ==
  \A i \in 1..Len(hidden) :
    hidden[i].base \in Blocks =>
      LET m == CopyOf[hidden[i].base]
      IN  \/ m \notin listed \/ Alike(m) # {} \/ diverted
          \/ Cardinality(born) >= 2 * MaxEntries
          \/ Len(response.entries) = MaxEntries
          \/ hidden[i].base \in unread
          \/ <<"section", m>> \in unnamed

\* A module unlinked before the driver was asked, whose driver object is in
\* the directory all along, has an entry with its base or a name of its own
\* in the answer, unless View B missed an object: the enumeration is by index,
\* so that an object that leaves the directory hides another one; it ends
\* with an error unnoticed, and when the accumulator is full, and it drops what
\* has no base or no name, but then its count falls short of the directory.  The
\* name tells where the merge by name puts
\* the module under another one's base.
Excused == shifted \/ response.counts["driverobj"] < Len(directory)

UnlistedAnswered ==
  stage \in {"compare", "done"} =>
    \A m \in steady :
      \/ \E i \in 1..Len(response.entries) :
           \/ response.entries[i].base = m
           \/ response.entries[i].name \in {NameOf[m], ObjectName[m]}
      \/ Excused

EntriesOf(s) == {s[i] : i \in 1..Len(s)}

Promise == INSTANCE CrossView WITH
  Items <- Entry,
  Filtering <- TRUE,
  stage <- CASE stage = "done" -> "reported"
             [] stage = "failed" -> "failed"
             [] OTHER -> "collecting",
  kernel <- IF stage \in {"open", "ioctl"} THEN {} ELSE EntriesOf(response.entries),
  r3 <- {entry \in EntriesOf(response.entries) : InR3(entry)},
  report <- IF stage = "done" THEN EntriesOf(hidden) ELSE {}

\* The detection keeps the promise of CrossView: what it reports is part of
\* the kernel's entries that user mode did not list.
KeepsPromise == Promise!Init /\ [][Promise!Next]_(Promise!vars)

\* The detection ends, also when an unlinked module's links lead back to
\* itself or the walk runs into the memory of an unloaded module.
DetectionEnds == <>(stage \in {"done", "failed"})

=============================================================================
