---------------------------- MODULE ModuleViews ----------------------------
(***************************************************************************)
(* The driver's module views (AntiRootKitDriver/DetectHiddenModule.c).     *)
(*                                                                         *)
(* QueryKernelModuleViews walks the list of loaded modules from its own    *)
(* entry, without the list's lock (View A), then the \Driver directory by  *)
(* index (View B), then the images left in big pool blocks (View C), and   *)
(* merges what it finds by base, or else by name.  Modules are loaded,     *)
(* unlinked by a rootkit and unloaded meanwhile.                           *)
(***************************************************************************)
EXTENDS Integers, Sequences, FiniteSets, SequencesExt

CONSTANTS
  Mods,        \* the modules that are ever loaded
  Self,        \* this driver's own module
  ListHead,        \* PsLoadedModuleList, the head of the list
  NameOf,      \* name of a module
  Unconvertible, \* modules whose names may fail to convert: memory is short
  ObjectName,  \* name of its DRIVER_OBJECT
  NoSection,   \* modules whose DRIVER_OBJECT has no valid DriverSection
  NoSize,      \* ... and no DriverSize either
  NoStart,     \* ... and no DriverStart either
  Blocks,      \* pool blocks that begin like an image
  Session,     \* blocks in session space
  NoiseTags,   \* names of the tags Vi??
  Credible,    \* blocks that IsCredibleBigPoolPeImage accepts: see PeImage
  TagName,     \* the name made of a block's tag
  CopyOf,      \* the module a block is a copy of, or ListHead
  MaxTries,    \* turns of the snapshot's retry loop
  MaxEntries   \* ARK_MAX_MODULE_ENTRIES

ASSUME ModuleLimits ==
  /\ MaxEntries \in Nat \ {0} /\ MaxTries \in Nat \ {0}
  /\ Self \in Mods /\ ListHead \notin Mods


VARIABLES
  \* the machine
  loaded, born, \* modules in memory; modules ever loaded
  linked,       \* the nodes of the list besides ListHead
  flink,        \* InLoadOrderLinks.Flink
  directory,    \* \Driver
  \* the query
  pc,
  current,      \* node of the walk
  cursor,       \* loopIndex, the directory's context, retry, hitCount
  blocks,       \* snapshot of big pool blocks, not yet visited
  entries,      \* of the accumulator
  counts,       \* sectionCount, driverCount, residualCount
  pool,         \* pool blocks held
  response,     \* ARK_KERNEL_MODULE_VIEWS_RESPONSE
  \* history
  shifted,      \* an object left the directory while it was enumerated
  listed,       \* modules that have been in the list since the query began
  diverted,     \* a node left the list under the walk of View A
  unread,       \* blocks whose module's fingerprint could not be read
  unnamed       \* <<view, module>>: dropped by the view for want of a name

machine == <<loaded, born, linked, flink, directory>>
scan == <<current, cursor, blocks>>
driverVars == <<pc, scan, entries, counts, pool, response>>
history == <<shifted, listed, diverted, unread, unnamed>>
moduleVars == <<machine, driverVars, history>>

Nodes == Mods \union {ListHead}
Bases == Mods \union Blocks
Views == {"section", "driverobj", "residual"}
NoCounts == [view \in Views |-> 0]
Unknown == "unknown"   \* the name of what has none
NoBase == "0"             \* ... and the address of what has none

\* The image of a module and a pool block are at different addresses, not at 0.
ASSUME ModuleAddresses ==
  IsFiniteSet(Mods) /\ Blocks \intersect Mods = {} /\ NoBase \notin Mods

NoResponse == [status |-> "none", entries |-> <<>>, counts |-> NoCounts]

-----------------------------------------------------------------------------
(* The machine.                                                            *)

Before(n) == CHOOSE p \in linked \union {ListHead} : flink[p] = n

\* Where a module's driver object is in the directory: at one place, if any.
PlacesOf(m) == {i \in 1..Len(directory) : directory[i] = m}

\* A module goes to the end of the list, and its driver object, if it has
\* one, anywhere into the directory.
Load(m) ==
  /\ m \notin born
  /\ loaded' = loaded \union {m} /\ born' = born \union {m}
  /\ linked' = linked \union {m}
  /\ flink' = [flink EXCEPT ![Before(ListHead)] = m, ![m] = ListHead]
  /\ directory' \in {directory} \union
       {InsertAt(directory, i, m) : i \in 1..(Len(directory) + 1)}
  /\ UNCHANGED history

\* A rootkit unlinks a module, which goes on running; its own links stay, or
\* point to itself.
Unlink(m) ==
  /\ m \in linked \ {Self}
  /\ linked' = linked \ {m}
  /\ \E next \in {flink[m], m} :
       flink' = [flink EXCEPT ![Before(m)] = flink[m], ![m] = next]
  /\ listed' = listed \ {m} /\ diverted' = (diverted \/ pc = "section")
  /\ UNCHANGED <<loaded, born, directory, shifted, unread, unnamed>>

Unload(m) ==
  /\ m \in loaded \ {Self}
  /\ loaded' = loaded \ {m} /\ linked' = linked \ {m}
  /\ flink' = IF m \in linked THEN [flink EXCEPT ![Before(m)] = flink[m]] ELSE flink
  /\ \/ PlacesOf(m) = {} /\ UNCHANGED <<directory, shifted>>
     \/ \E i \in PlacesOf(m) : directory' = RemoveAt(directory, i) /\ shifted' = TRUE
  /\ listed' = listed \ {m} /\ diverted' = (diverted \/ pc = "section")
  /\ UNCHANGED <<born, unread, unnamed>>

Machine ==
  /\ \E m \in Mods : Load(m) \/ Unlink(m) \/ Unload(m)
  /\ UNCHANGED driverVars

-----------------------------------------------------------------------------
(* AddModuleToAccumulator.                                                 *)

WithBase(base) == {i \in 1..Len(entries) : entries[i].base = base}
WithName(name) == {i \in 1..Len(entries) : entries[i].name = name}

\* Seeded fault: names are not looked for.
SameModule_BaseOnly(base, name) == WithBase(base)

\* FindModuleByBase, then FindModuleByName.
SameModule(base, name) ==
  IF WithBase(base) # {} THEN WithBase(base) ELSE WithName(name)

\* Seeded fault: a module is counted each time it is found.
Merge_CountsTwice(i, view, sized) ==
  /\ entries' = [entries EXCEPT ![i].views = @ \union {view},
                                ![i].sized = @ \/ sized]
  /\ counts' = [counts EXCEPT ![view] = @ + 1]

Merge(i, view, sized) ==
  /\ entries' = [entries EXCEPT ![i].views = @ \union {view},
                                ![i].sized = @ \/ sized]
  /\ counts' = IF view \in entries[i].views THEN counts
                 ELSE [counts EXCEPT ![view] = @ + 1]

\* What has no base or no name is passed over (a pool block has both).  A full
\* accumulator refuses the module; no caller looks at the status.
AddModule(view, base, name, sized) ==
  \/ /\ base = NoBase \/ name = Unknown
     /\ UNCHANGED <<entries, counts>>
  \/ /\ base # NoBase /\ name # Unknown
     /\ \/ \E i \in SameModule(base, name) : Merge(i, view, sized)
        \/ /\ SameModule(base, name) = {} /\ Len(entries) < MaxEntries
           /\ entries' = Append(entries,
                [base |-> base, name |-> name, views |-> {view}, sized |-> sized])
           /\ counts' = [counts EXCEPT ![view] = @ + 1]
        \/ /\ SameModule(base, name) = {} /\ Len(entries) = MaxEntries
           /\ UNCHANGED <<entries, counts>>

\* CopyUnicodeToAnsi: RtlUnicodeStringToAnsiString needs memory for its result.
CopyUnicodeToAnsi(m, name) ==
  IF m \in Unconvertible THEN {name, Unknown} ELSE {name}

\* A view adds module m under a name of its own, or drops it for want of one.
AddNamed(view, m, base, name, sized) ==
  \E ansi \in CopyUnicodeToAnsi(m, name) :
    /\ AddModule(view, base, ansi, sized)
    /\ unnamed' = IF ansi = Unknown THEN unnamed \union {<<view, m>>} ELSE unnamed

-----------------------------------------------------------------------------
(* The query.                                                              *)

InitModuleAccumulator == entries' = <<>> /\ counts' = NoCounts

\* The entries only: the snapshot of View C has frees of its own.
FreeModuleAccumulator == pool' = pool \ {"entries"}

FailQuery ==
  /\ FreeModuleAccumulator
  /\ response' = [NoResponse EXCEPT !.status = "failed"]
  /\ pc' = "returned"

BeginModuleQuery ==
  /\ pc \in {"idle", "returned"}
  /\ InitModuleAccumulator
  /\ current' = Self /\ cursor' = 0 /\ blocks' = {}
  /\ \/ pool' = pool \union {"entries"} /\ pc' = "section" /\ response' = NoResponse
     \/ FailQuery
  /\ shifted' = FALSE /\ listed' = linked /\ diverted' = FALSE
  /\ unread' = {} /\ unnamed' = {}
  /\ UNCHANGED machine

\* What the memory of a node says: that of an unloaded module may still hold
\* its entry, or not, and its link may lead to any node there has been.
Visit(n) ==
  \/ n \in Mods /\ AddNamed("section", n, n, NameOf[n], TRUE)
  \/ n \notin loaded /\ UNCHANGED <<entries, counts, unnamed>>

After(n) == IF n \in loaded \union {ListHead} THEN {flink[n]} ELSE born \union {ListHead}

EndSection == pc' = "directory" /\ current' = Self /\ cursor' = 0

\* Seeded fault: the turns of the walk are not counted.
SectionStep_Unbounded ==
  /\ pc = "section"
  /\ Visit(current)
  /\ \E next \in After(current) :
       IF next # Self THEN current' = next /\ UNCHANGED <<pc, cursor>> ELSE EndSection
  /\ UNCHANGED <<machine, blocks, pool, response, shifted, listed, diverted, unread>>

\* One node of CollectDriverSectionView.
SectionStep ==
  /\ pc = "section"
  /\ Visit(current)
  /\ \E next \in After(current) :
       IF next # Self /\ cursor + 1 < 2 * MaxEntries
         THEN current' = next /\ cursor' = cursor + 1 /\ UNCHANGED pc
         ELSE EndSection
  /\ UNCHANGED <<machine, blocks, pool, response, shifted, listed, diverted, unread>>

\* The base, name and size View B has for a driver object.
ObjectModule(m) ==
  IF m \in NoSection
    THEN [base |-> IF m \in NoStart THEN NoBase ELSE m, name |-> ObjectName[m],
          sized |-> m \notin NoSize]
    ELSE [base |-> m, name |-> NameOf[m], sized |-> TRUE]

EndDirectory == pc' = "bigpool" /\ cursor' = 0

\* One object of CollectDriverObjectView, the next one by index.  It may be
\* gone before it is referenced; an error of the enumeration ends the view.
\* View B ends early when the accumulator is full.
DirectoryStep ==
  /\ pc = "directory" /\ cursor < Len(directory)
  /\ LET m == directory[cursor + 1]
         object == ObjectModule(m)
     IN  \/ /\ AddNamed("driverobj", m, object.base, object.name, object.sized)
            /\ IF Len(entries') = MaxEntries THEN EndDirectory
                 ELSE cursor' = cursor + 1 /\ UNCHANGED pc
         \/ cursor' = cursor + 1 /\ UNCHANGED <<pc, entries, counts, unnamed>>
         \/ EndDirectory /\ UNCHANGED <<entries, counts, unnamed>>
  /\ UNCHANGED <<machine, current, blocks, pool, response, shifted, listed, diverted,
                 unread>>

DirectoryDone ==
  /\ pc = "directory"
  /\ \/ cursor >= Len(directory) /\ EndDirectory
        /\ UNCHANGED <<entries, counts, pool, response>>
     \/ cursor = 0 /\ FailQuery /\ UNCHANGED <<cursor, entries, counts>>
  /\ UNCHANGED <<machine, current, blocks, history>>

\* CollectResidualModuleViews is content with whatever View C came to.
ResidualsDone == pc' = "reply" /\ cursor' = 0 /\ blocks' = {}

FreeSnapshot == pool' = pool \ {"info"}

\* One turn of CollectBigPoolResiduals' snapshot.  The buffer of the turn before
\* is freed and another one allocated; the table may outgrow it.  If a buffer
\* cannot be had or the table cannot be taken, View C is left out.
PoolSnapshot ==
  /\ pc = "bigpool"
  /\ \/ /\ blocks' \in SUBSET Blocks /\ pool' = pool \union {"info"}
        /\ pc' = "pool" /\ cursor' = 0
     \/ /\ cursor + 1 < MaxTries /\ cursor' = cursor + 1
        /\ pool' = pool \union {"info"}
        /\ UNCHANGED <<pc, blocks>>
     \/ ResidualsDone /\ FreeSnapshot
  /\ UNCHANGED <<machine, current, entries, counts, response, history>>

IsSessionSpaceAddress(b) == b \in Session
IsNoiseBigPoolTag(b) == TagName[b] \in NoiseTags

\* The fingerprint can be read as long as the module is in memory; PoolStep has
\* the case that its header is paged out.
ReadPeIdentityFingerprint(m) == m \in loaded

\* Seeded fault: the flags of an entry are compared as a whole.
IsBigPoolDuplicateOfKnownModule_OnlySection(b) ==
  /\ ReadPeIdentityFingerprint(CopyOf[b])
  /\ \E i \in WithBase(CopyOf[b]) : entries[i].views = {"section"}

\* The fingerprint of a block is that of an entry of View A.
IsBigPoolDuplicateOfKnownModule(b) ==
  /\ ReadPeIdentityFingerprint(CopyOf[b])
  /\ \E i \in WithBase(CopyOf[b]) : "section" \in entries[i].views

\* One block; the header of the module it is compared with may be paged out.
PoolStep ==
  /\ pc = "pool" /\ cursor < MaxEntries
  /\ \E b \in blocks :
       /\ blocks' = blocks \ {b}
       /\ \/ /\ \/ IsSessionSpaceAddress(b) \/ IsNoiseBigPoolTag(b)
                \/ b \notin Credible
                \/ IsBigPoolDuplicateOfKnownModule(b)
             /\ UNCHANGED <<cursor, entries, counts, unread>>
          \/ /\ ~IsSessionSpaceAddress(b) /\ ~IsNoiseBigPoolTag(b) /\ b \in Credible
             /\ unread' = IF IsBigPoolDuplicateOfKnownModule(b)
                             THEN unread \union {b} ELSE unread
             /\ AddModule("residual", b, TagName[b], TRUE)
             /\ cursor' = cursor + 1
  /\ UNCHANGED <<machine, pc, current, pool, response, shifted, listed, diverted,
                 unnamed>>

\* All blocks have been looked at, or as many residuals found as may be.
PoolDone ==
  /\ pc = "pool" /\ (blocks = {} \/ cursor = MaxEntries)
  /\ ResidualsDone /\ FreeSnapshot
  /\ UNCHANGED <<machine, current, entries, counts, response, history>>

\* Seeded fault: the exception leaves the snapshot allocated.
PoolException_KeepsSnapshot ==
  /\ pc = "pool"
  /\ ResidualsDone
  /\ UNCHANGED <<machine, current, entries, counts, pool, response, history>>

\* Memory that goes away under a read raises an exception, which ends the view.
PoolException ==
  /\ pc = "pool"
  /\ ResidualsDone /\ FreeSnapshot
  /\ UNCHANGED <<machine, current, entries, counts, response, history>>

\* Seeded fault: the last entry is not copied.
ReplyModules_LastEntry ==
  /\ pc = "reply"
  /\ response' = [status |-> "success", entries |-> SubSeq(entries, 1, Len(entries) - 1),
                  counts |-> counts]
  /\ FreeModuleAccumulator
  /\ pc' = "returned"
  /\ UNCHANGED <<machine, scan, entries, counts, history>>

ReplyModules ==
  /\ pc = "reply"
  /\ response' = [status |-> "success", entries |-> entries, counts |-> counts]
  /\ FreeModuleAccumulator
  /\ pc' = "returned"
  /\ UNCHANGED <<machine, scan, entries, counts, history>>

ModuleQuery ==
  \/ SectionStep \/ DirectoryStep \/ DirectoryDone
  \/ PoolSnapshot \/ PoolStep \/ PoolDone \/ PoolException \/ ReplyModules

\* The list and the directory as they are before the query: some modules are
\* hidden already.
ModuleInit ==
  /\ \E order \in SetToSeqs(Mods) : \E n \in 1..Len(order) :
       /\ Self \in {order[i] : i \in 1..n}
       /\ linked = {order[i] : i \in 1..n}
       /\ flink = [x \in Nodes |->
            IF x = ListHead THEN order[1]
            ELSE IF \E i \in 1..(n - 1) : order[i] = x
              THEN order[(CHOOSE i \in 1..(n - 1) : order[i] = x) + 1]
            ELSE IF x \in linked THEN ListHead ELSE x]
  /\ loaded \in {s \in SUBSET Mods : linked \subseteq s} /\ born = loaded
  /\ directory \in UNION {SetToSeqs(s) : s \in SUBSET loaded}
  /\ pc = "idle" /\ current = Self /\ cursor = 0 /\ blocks = {}
  /\ entries = <<>> /\ counts = NoCounts /\ pool = {} /\ response = NoResponse
  /\ shifted = FALSE /\ listed = {} /\ diverted = FALSE
  /\ unread = {} /\ unnamed = {}

ModuleNext == BeginModuleQuery \/ ModuleQuery \/ Machine

ModuleSpec == ModuleInit /\ [][ModuleNext]_moduleVars /\ WF_moduleVars(ModuleQuery)

-----------------------------------------------------------------------------
(* Properties of the driver's part.                                        *)

\* Three views merge into one entry for each base and for each name, however
\* the list changes under the walk.
OneEntryPerModule ==
  \A i, j \in 1..Len(entries) :
    entries[i].base = entries[j].base \/ entries[i].name = entries[j].name
      => i = j

\* The count of each view is the number of entries that it found.
CountsMatchViews ==
  \A view \in Views :
    counts[view] = Cardinality({i \in 1..Len(entries) : view \in entries[i].views})

\* Every way out of the query gives every pool block back: the entries on its
\* failures and at its end, the snapshot wherever View C ends, the exception and
\* the failures of its turns included.
NoModulePoolLeak == pc \in {"idle", "returned"} => pool = {}

=============================================================================
