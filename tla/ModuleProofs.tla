----------------------------- MODULE ModuleProofs -----------------------------
(***************************************************************************)
(* Proofs about modules ModuleViews and ModuleDetect, for any modules,     *)
(* names, blocks and limits, and whatever becomes of the list under the    *)
(* walk.                                                                   *)
(*                                                                         *)
(* The three views add through AddModule, so its effect is proved once.    *)
(* The list of loaded modules is a ring, by the places of its modules;     *)
(* from there on the invariant of the detection says what the walk of View *)
(* A has passed, which driver object an entry of View B belongs to, why a  *)
(* block has an entry, and what user mode's list has.                      *)
(***************************************************************************)
EXTENDS ModuleDetect, FiniteSetTheorems, SequenceTheorems, TLAPS

-----------------------------------------------------------------------------
(* The accumulator.                                                        *)

ModuleEntry(B, N) == [base : B, name : N, views : SUBSET Views, sized : BOOLEAN]

HasEntries == \E B, N : entries \in Seq(ModuleEntry(B, N))

OfView(view) == {i \in 1..Len(entries) : view \in entries[i].views}

AccInv ==
  /\ HasEntries
  /\ counts \in [Views -> Nat]
  /\ OneEntryPerModule
  /\ \A view \in Views : counts[view] = Cardinality(OfView(view))

LEMMA OfViewFinite ==
  ASSUME HasEntries, NEW view
  PROVE  IsFiniteSet(OfView(view)) /\ Len(entries) \in Nat
<1>1. PICK B, N : entries \in Seq(ModuleEntry(B, N))
  BY DEF HasEntries
<1>2. Len(entries) \in Nat
  BY <1>1, LenProperties
<1>3. IsFiniteSet(1..Len(entries))
  BY <1>2, FS_Interval
<1>4. QED
  BY <1>2, <1>3, FS_Subset DEF OfView

\* A module that was found before gains a view, which is counted once.
LEMMA MergeInv ==
  ASSUME AccInv, NEW i \in 1..Len(entries), NEW view \in Views, NEW sized \in BOOLEAN,
         Merge(i, view, sized)
  PROVE  AccInv'
<1>1. PICK B, N : entries \in Seq(ModuleEntry(B, N))
  BY DEF AccInv, HasEntries
<1>. DEFINE old == entries[i]
            new == [old EXCEPT !.views = @ \union {view}, !.sized = @ \/ sized]
<1>2. /\ old \in ModuleEntry(B, N) /\ new \in ModuleEntry(B, N)
      /\ new.base = old.base /\ new.name = old.name
      /\ new.views = old.views \union {view}
  <2>1. old \in ModuleEntry(B, N)
    BY <1>1, ElementOfSeq
  <2>2. QED
    BY <2>1 DEF ModuleEntry
<1>3. entries' = [entries EXCEPT ![i] = new]
  BY DEF Merge
<1>. HIDE DEF new
<1>4. /\ entries' \in Seq(ModuleEntry(B, N)) /\ Len(entries') = Len(entries)
      /\ \A j \in 1..Len(entries) : entries'[j] = IF j = i THEN new ELSE entries[j]
  BY <1>1, <1>2, <1>3, ExceptSeq
<1>5. OneEntryPerModule'
  BY <1>2, <1>4 DEF AccInv, OneEntryPerModule
<1>6. \A v \in Views \ {view} : OfView(v)' = OfView(v)
  BY <1>2, <1>4 DEF OfView
<1>7. OfView(view)' = OfView(view) \union {i}
  BY <1>2, <1>4 DEF OfView
<1>8. counts' \in [Views -> Nat] /\ \A v \in Views : counts'[v] = Cardinality(OfView(v)')
  <2>1. CASE view \in old.views
    <3>1. counts' = counts
      BY <2>1 DEF Merge
    <3>2. i \in OfView(view)
      BY <2>1 DEF OfView
    <3>3. \A v \in Views : OfView(v)' = OfView(v)
      BY <1>6, <1>7, <3>2
    <3>4. QED
      BY <3>1, <3>3 DEF AccInv
  <2>2. CASE view \notin old.views
    <3>1. counts' = [counts EXCEPT ![view] = @ + 1]
      BY <2>2 DEF Merge
    <3>2. IsFiniteSet(OfView(view)) /\ i \notin OfView(view)
      BY <2>2, OfViewFinite DEF AccInv, OfView
    <3>3. Cardinality(OfView(view)') = Cardinality(OfView(view)) + 1
      BY <1>7, <3>2, FS_AddElement
    <3>4. QED
      BY <1>6, <3>1, <3>3 DEF AccInv
  <2>3. QED
    BY <2>1, <2>2
<1>9. QED
  BY <1>4, <1>5, <1>8 DEF AccInv, HasEntries

\* A module that was not found before gets the next entry.
LEMMA AppendInv ==
  ASSUME AccInv, NEW base, NEW name, NEW view \in Views, NEW sized \in BOOLEAN,
         SameModule(base, name) = {},
         entries' = Append(entries,
           [base |-> base, name |-> name, views |-> {view}, sized |-> sized]),
         counts' = [counts EXCEPT ![view] = @ + 1]
  PROVE  AccInv'
<1>1. PICK B, N : entries \in Seq(ModuleEntry(B, N))
  BY DEF AccInv, HasEntries
<1>. DEFINE S == ModuleEntry(B \union {base}, N \union {name})
            e == [base |-> base, name |-> name, views |-> {view}, sized |-> sized]
<1>2. entries \in Seq(S)
  <2>1. ModuleEntry(B, N) \subseteq S
    BY DEF ModuleEntry
  <2>2. QED
    BY <1>1, <2>1, SeqMonotonic
<1>3. e \in S /\ e.base = base /\ e.name = name /\ e.views = {view}
  BY DEF ModuleEntry
<1>. HIDE DEF e, S
<1>4. /\ entries' \in Seq(S) /\ Len(entries) \in Nat /\ Len(entries') = Len(entries) + 1
      /\ \A j \in 1..Len(entries) : entries'[j] = entries[j]
      /\ entries'[Len(entries) + 1] = e
  BY <1>2, <1>3, AppendProperties, LenProperties DEF e
<1>5. \A j \in 1..Len(entries) : entries[j].base # base /\ entries[j].name # name
  BY DEF SameModule, WithBase, WithName
<1>6. OneEntryPerModule'
  BY <1>3, <1>4, <1>5 DEF AccInv, OneEntryPerModule
<1>7. \A v \in Views \ {view} : OfView(v)' = OfView(v)
  BY <1>3, <1>4 DEF OfView
<1>8. OfView(view)' = OfView(view) \union {Len(entries) + 1}
  BY <1>3, <1>4 DEF OfView
<1>9. IsFiniteSet(OfView(view)) /\ Len(entries) + 1 \notin OfView(view)
  <2>1. IsFiniteSet(OfView(view))
    BY OfViewFinite DEF AccInv
  <2>2. Len(entries) + 1 \notin 1..Len(entries)
    BY <1>4
  <2>3. QED
    BY <2>1, <2>2 DEF OfView
<1>10. Cardinality(OfView(view)') = Cardinality(OfView(view)) + 1
  BY <1>8, <1>9, FS_AddElement
<1>11. counts' \in [Views -> Nat] /\ \A v \in Views : counts'[v] = Cardinality(OfView(v)')
  BY <1>7, <1>10 DEF AccInv
<1>12. HasEntries'
  BY <1>4 DEF HasEntries, S
<1>13. QED
  BY <1>6, <1>11, <1>12 DEF AccInv

LEMMA AddModuleInv ==
  ASSUME AccInv, NEW view \in Views, NEW base, NEW name, NEW sized \in BOOLEAN,
         AddModule(view, base, name, sized)
  PROVE  AccInv'
<1>1. CASE \E i \in SameModule(base, name) : Merge(i, view, sized)
  BY <1>1, MergeInv DEF SameModule, WithBase, WithName
<1>2. CASE UNCHANGED <<entries, counts>>
  BY <1>2 DEF AccInv, HasEntries, OneEntryPerModule, OfView
<1>3. QED
  BY <1>1, <1>2, AppendInv DEF AddModule

LEMMA NoEntriesInv == entries = <<>> /\ counts = NoCounts => AccInv
<1>. SUFFICES ASSUME entries = <<>>, counts = NoCounts PROVE AccInv
  OBVIOUS
<1>1. <<>> \in Seq(ModuleEntry({}, {})) /\ Len(<<>>) = 0
  BY EmptySeq
<1>2. HasEntries /\ OneEntryPerModule
  BY <1>1 DEF HasEntries, OneEntryPerModule
<1>3. \A view \in Views : OfView(view) = {}
  BY <1>1 DEF OfView
<1>4. QED
  BY <1>2, <1>3, FS_EmptySet DEF AccInv, NoCounts

-----------------------------------------------------------------------------
(* The steps.                                                              *)

LEMMA BeginAccInv == BeginModuleQuery => AccInv'
<1>. SUFFICES ASSUME BeginModuleQuery PROVE AccInv'
  OBVIOUS
<1>1. entries' = <<>> /\ counts' = NoCounts
  BY DEF BeginModuleQuery, InitModuleAccumulator
<1>2. <<>> \in Seq(ModuleEntry({}, {})) /\ Len(<<>>) = 0
  BY EmptySeq
<1>3. HasEntries' /\ OneEntryPerModule'
  BY <1>1, <1>2 DEF HasEntries, OneEntryPerModule
<1>4. \A view \in Views : OfView(view)' = {}
  BY <1>1, <1>2 DEF OfView
<1>5. QED
  BY <1>1, <1>3, <1>4, FS_EmptySet DEF AccInv, NoCounts

LEMMA QueryAccInv ==
  ASSUME AccInv, ModuleQuery
  PROVE  AccInv'
<1>1. CASE UNCHANGED <<entries, counts>>
  BY <1>1 DEF AccInv, HasEntries, OneEntryPerModule, OfView
<1>2. CASE SectionStep
  <2>1. Visit(current)
    BY <1>2 DEF SectionStep
  <2>2. \/ \E ansi : AddModule("section", current, ansi, TRUE)
        \/ UNCHANGED <<entries, counts>>
    BY <2>1 DEF Visit, AddNamed
  <2>3. QED
    BY <1>1, <2>2, AddModuleInv DEF Views
<1>3. CASE DirectoryStep
  <2>. DEFINE object == ObjectModule(directory[cursor + 1])
  <2>1. \/ \E ansi : AddModule("driverobj", object.base, ansi, object.sized)
        \/ UNCHANGED <<entries, counts>>
    BY <1>3 DEF DirectoryStep, AddNamed
  <2>2. object.sized \in BOOLEAN
    BY DEF ObjectModule
  <2>. HIDE DEF object
  <2>3. QED
    BY <1>1, <2>1, <2>2, AddModuleInv DEF Views
<1>4. CASE PoolStep
  <2>1. \/ \E b \in blocks : AddModule("residual", b, TagName[b], TRUE)
        \/ UNCHANGED <<entries, counts>>
    BY <1>4 DEF PoolStep
  <2>2. QED
    BY <1>1, <2>1, AddModuleInv DEF Views
<1>5. CASE DirectoryDone \/ PoolSnapshot \/ PoolDone \/ PoolException \/ ReplyModules
  BY <1>1, <1>5 DEF DirectoryDone, PoolSnapshot, PoolDone, PoolException, ReplyModules
<1>6. QED
  BY <1>2, <1>3, <1>4, <1>5 DEF ModuleQuery

LEMMA AccInit == ModuleInit => AccInv
BY NoEntriesInv DEF ModuleInit

LEMMA AccStep == AccInv /\ [ModuleNext]_moduleVars => AccInv'
<1>1. ASSUME AccInv, UNCHANGED <<entries, counts>> PROVE AccInv'
  BY <1>1 DEF AccInv, HasEntries, OneEntryPerModule, OfView
<1>2. ASSUME Machine PROVE UNCHANGED <<entries, counts>>
  BY <1>2 DEF Machine, driverVars
<1>3. QED
  BY <1>1, <1>2, BeginAccInv, QueryAccInv DEF ModuleNext, moduleVars, driverVars

LEMMA AccInvariance == ModuleSpec => []AccInv
BY AccInit, AccStep, PTL DEF ModuleSpec

-----------------------------------------------------------------------------
(* The theorems about the accumulator.                                     *)

\* Whatever the three views find, in any order and under any names, and however
\* the list changes under the walk, no base and no name has two entries.
THEOREM OneEntryPerModuleThm == ModuleSpec => []OneEntryPerModule
BY AccInvariance, PTL DEF AccInv

\* The three counts are the numbers of entries with the flag of each view.
THEOREM CountsMatchViewsThm == ModuleSpec => []CountsMatchViews
<1>1. AccInv => CountsMatchViews
  BY DEF AccInv, CountsMatchViews, OfView
<1>2. QED
  BY <1>1, AccInvariance, PTL

\* What the query holds where it is: the snapshot as long as View C takes it or
\* goes through it, the entries until the reply.
PoolInv ==
  /\ pool \subseteq {"entries", "info"}
  /\ "info" \in pool => pc \in {"bigpool", "pool"}
  /\ "entries" \in pool => pc \notin {"idle", "returned"}

LEMMA PoolInvStep == PoolInv /\ [ModuleNext]_moduleVars => PoolInv'
<1>. SUFFICES ASSUME PoolInv, [ModuleNext]_moduleVars PROVE PoolInv'
  OBVIOUS
<1>1. CASE UNCHANGED <<pc, pool>>
  BY <1>1 DEF PoolInv
<1>2. CASE BeginModuleQuery
  BY <1>2 DEF PoolInv, BeginModuleQuery, FailQuery, FreeModuleAccumulator
<1>3. CASE SectionStep
  BY <1>3 DEF PoolInv, SectionStep, EndSection
<1>4. CASE DirectoryStep
  BY <1>4 DEF PoolInv, DirectoryStep, EndDirectory
<1>5. CASE DirectoryDone
  BY <1>5 DEF PoolInv, DirectoryDone, EndDirectory, FailQuery, FreeModuleAccumulator
<1>6. CASE PoolSnapshot
  BY <1>6 DEF PoolInv, PoolSnapshot, ResidualsDone, FreeSnapshot
<1>7. CASE PoolStep
  BY <1>1, <1>7 DEF PoolStep
<1>8. CASE PoolDone \/ PoolException
  BY <1>8 DEF PoolInv, PoolDone, PoolException, ResidualsDone, FreeSnapshot
<1>9. CASE ReplyModules
  BY <1>9 DEF PoolInv, ReplyModules, FreeModuleAccumulator
<1>10. CASE Machine
  BY <1>1, <1>10 DEF Machine, driverVars
<1>11. QED
  BY <1>1, <1>2, <1>3, <1>4, <1>5, <1>6, <1>7, <1>8, <1>9, <1>10
     DEF ModuleNext, ModuleQuery, moduleVars, driverVars

\* Every way out of the query gives every pool block back: the entries are freed
\* by the reply and by each failure, and they alone; the snapshot is freed
\* wherever View C ends, by its exception and by each turn that fails, before the
\* reply.
THEOREM NoModulePoolLeakThm == ModuleSpec => []NoModulePoolLeak
<1>1. ModuleInit => PoolInv
  BY DEF ModuleInit, PoolInv
<1>2. PoolInv => NoModulePoolLeak
  BY DEF PoolInv, NoModulePoolLeak
<1>3. QED
  BY <1>1, <1>2, PoolInvStep, PTL DEF ModuleSpec

-----------------------------------------------------------------------------
(* The list of loaded modules.                                             *)

\* A place for each module: the list goes up, from its head, which is before
\* all of them, back to its head.
At(pos, n) == IF n = ListHead THEN 0 ELSE pos[n]

Follows(nodes, pos, x, y) ==
  IF y = ListHead THEN \A z \in nodes : pos[z] <= At(pos, x)
  ELSE /\ y \in nodes /\ At(pos, x) < pos[y]
       /\ \A z \in nodes : ~(At(pos, x) < pos[z] /\ pos[z] < pos[y])

RingOf(nodes, link, pos) ==
  /\ nodes \subseteq Mods /\ pos \in [Mods -> Nat \ {0}]
  /\ \A m, n \in nodes : pos[m] = pos[n] => m = n
  /\ \A x \in nodes \union {ListHead} : Follows(nodes, pos, x, link[x])
  /\ \A y \in nodes \union {ListHead} : \E x \in nodes \union {ListHead} : link[x] = y

Ring(pos) == RingOf(linked, flink, pos)

Objects == EntriesOf(directory)

MachineInv ==
  /\ born \subseteq Mods /\ loaded \subseteq born /\ linked \subseteq loaded /\ Self \in linked
  /\ flink \in [Nodes -> Nodes]
  /\ \A n \in born \union {ListHead} : flink[n] \in born \union {ListHead}
  /\ directory \in Seq(born)
  /\ \E pos \in [Mods -> Nat \ {0}] : Ring(pos)

LEMMA RingPlaces ==
  ASSUME NEW nodes, NEW link, NEW pos, RingOf(nodes, link, pos)
  PROVE  /\ \A z \in nodes : /\ pos[z] \in Nat /\ pos[z] > 0 /\ z # ListHead
                             /\ At(pos, z) = pos[z]
         /\ \A x \in nodes \union {ListHead} : At(pos, x) \in Nat
         /\ At(pos, ListHead) = 0
         /\ \A x, y \in nodes \union {ListHead} : At(pos, x) = At(pos, y) => x = y
BY ModuleLimits DEF RingOf, At

\* No two nodes of the ring lead to the same one.
LEMMA RingInjective ==
  ASSUME NEW nodes, NEW link, NEW pos, RingOf(nodes, link, pos),
         NEW x \in nodes \union {ListHead}, NEW p \in nodes \union {ListHead},
         link[x] = link[p]
  PROVE  x = p
<1>. DEFINE y == link[x]
<1>1. Follows(nodes, pos, x, y) /\ Follows(nodes, pos, p, y)
  BY DEF RingOf
<1>. HIDE DEF y
<1>2. /\ \A z \in nodes : /\ pos[z] \in Nat /\ pos[z] > 0 /\ z # ListHead
                          /\ At(pos, z) = pos[z]
      /\ \A n \in nodes \union {ListHead} : At(pos, n) \in Nat
      /\ At(pos, ListHead) = 0
      /\ \A n, m \in nodes \union {ListHead} : At(pos, n) = At(pos, m) => n = m
  BY RingPlaces
<1>3. CASE y = ListHead
  <2>1. \A z \in nodes : pos[z] <= At(pos, x) /\ pos[z] <= At(pos, p)
    BY <1>1, <1>3 DEF Follows
  <2>2. At(pos, x) <= At(pos, p) /\ At(pos, p) <= At(pos, x)
    BY <1>2, <2>1
  <2>3. QED
    BY <1>2, <2>2
<1>4. CASE y # ListHead
  <2>1. /\ y \in nodes /\ At(pos, x) < pos[y] /\ At(pos, p) < pos[y]
        /\ \A z \in nodes : ~(At(pos, x) < pos[z] /\ pos[z] < pos[y])
        /\ \A z \in nodes : ~(At(pos, p) < pos[z] /\ pos[z] < pos[y])
    BY <1>1, <1>4 DEF Follows
  <2>2. At(pos, x) <= At(pos, p) /\ At(pos, p) <= At(pos, x)
    BY <1>2, <2>1
  <2>3. QED
    BY <1>2, <2>2
<1>5. QED
  BY <1>3, <1>4

\* A module that is loaded comes last.
LEMMA RingAdd ==
  ASSUME NEW nodes, NEW link, NEW pos, RingOf(nodes, link, pos),
         NEW p \in nodes \union {ListHead}, link[p] = ListHead,
         NEW m \in Mods \ nodes, NEW link2,
         \A x \in nodes \union {ListHead, m} :
           link2[x] = IF x = m THEN ListHead ELSE IF x = p THEN m ELSE link[x]
  PROVE  /\ RingOf(nodes \union {m}, link2, [pos EXCEPT ![m] = At(pos, p) + 1])
         /\ \A z \in nodes : pos[z] <= At(pos, p)
<1>. DEFINE q == At(pos, p)
            pos2 == [pos EXCEPT ![m] = q + 1]
            all == nodes \union {m}
<1>1. /\ \A z \in nodes : /\ pos[z] \in Nat /\ pos[z] > 0 /\ z # ListHead
                          /\ At(pos, z) = pos[z]
      /\ \A n \in nodes \union {ListHead} : At(pos, n) \in Nat
  BY RingPlaces
<1>2. /\ nodes \subseteq Mods /\ pos \in [Mods -> Nat \ {0}] /\ m # ListHead
      /\ \A a, b \in nodes : pos[a] = pos[b] => a = b
      /\ \A x \in nodes \union {ListHead} : Follows(nodes, pos, x, link[x])
      /\ \A y \in nodes \union {ListHead} : \E x \in nodes \union {ListHead} : link[x] = y
  BY ModuleLimits DEF RingOf
<1>3. q \in Nat /\ \A z \in nodes : pos[z] <= q
  BY <1>1, <1>2 DEF Follows
<1>4. /\ pos2 \in [Mods -> Nat \ {0}] /\ pos2[m] = q + 1
      /\ \A z \in nodes : pos2[z] = pos[z]
      /\ \A x \in nodes \union {ListHead} : At(pos2, x) = At(pos, x)
      /\ At(pos2, m) = q + 1
  BY <1>2, <1>3 DEF At
<1>5. \A x \in nodes \union {ListHead} : link[x] = ListHead => x = p
  BY RingInjective
<1>. HIDE DEF pos2
<1>6. \A a, b \in all : pos2[a] = pos2[b] => a = b
  BY <1>1, <1>2, <1>3, <1>4
<1>7. ASSUME NEW x \in all \union {ListHead} PROVE Follows(all, pos2, x, link2[x])
  <2>1. CASE x = m
    <3>1. link2[x] = ListHead /\ At(pos2, x) = q + 1
      BY <1>4, <2>1
    <3>2. \A z \in all : pos2[z] <= q + 1
      BY <1>1, <1>3, <1>4
    <3>. HIDE DEF q
    <3>3. QED
      BY <3>1, <3>2 DEF Follows
  <2>2. CASE x = p
    <3>1. link2[x] = m /\ At(pos2, x) = q
      BY <1>2, <1>4, <2>2
    <3>2. \A z \in all : ~(q < pos2[z] /\ pos2[z] < pos2[m])
      BY <1>1, <1>3, <1>4
    <3>3. m \in all /\ q < pos2[m] /\ m # ListHead
      BY <1>2, <1>3, <1>4
    <3>. HIDE DEF q
    <3>4. QED
      BY <3>1, <3>2, <3>3 DEF Follows
  <2>3. CASE x # m /\ x # p
    <3>1. x \in nodes \union {ListHead} /\ link2[x] = link[x] /\ link[x] # ListHead
      BY <1>5, <2>3
    <3>2. Follows(nodes, pos, x, link[x])
      BY <1>2, <3>1
    <3>3. /\ link[x] \in nodes /\ At(pos, x) < pos[link[x]]
          /\ \A z \in nodes : ~(At(pos, x) < pos[z] /\ pos[z] < pos[link[x]])
      BY <3>1, <3>2 DEF Follows
    <3>4. pos[link[x]] <= q /\ pos[link[x]] \in Nat
      BY <1>1, <1>3, <3>3
    <3>5. \A z \in all : ~(At(pos, x) < pos2[z] /\ pos2[z] < pos2[link[x]])
      BY <1>3, <1>4, <3>3, <3>4
    <3>6. link[x] \in all /\ At(pos2, x) < pos2[link[x]] /\ At(pos2, x) = At(pos, x)
      BY <1>4, <3>1, <3>3
    <3>7. QED
      BY <3>1, <3>5, <3>6 DEF Follows
  <2>4. QED
    BY <2>1, <2>2, <2>3
<1>8. \A y \in all \union {ListHead} : \E x \in all \union {ListHead} : link2[x] = y
  <2>. TAKE y \in all \union {ListHead}
  <2>1. CASE y = m
    <3>1. p \in all \union {ListHead} /\ link2[p] = m
      BY <1>2
    <3>2. QED
      BY <2>1, <3>1
  <2>2. CASE y = ListHead
    <3>1. m \in all \union {ListHead} /\ link2[m] = ListHead
      BY <1>2
    <3>2. QED
      BY <2>2, <3>1
  <2>3. CASE y \in nodes
    <3>1. PICK x \in nodes \union {ListHead} : link[x] = y
      BY <1>2, <2>3
    <3>2. x # p /\ x # m
      BY <1>1, <1>2, <2>3, <3>1
    <3>3. link2[x] = y /\ x \in all \union {ListHead}
      BY <3>1, <3>2
    <3>4. QED
      BY <3>3
  <2>4. QED
    BY <2>1, <2>2, <2>3
<1>9. RingOf(all, link2, pos2)
  BY <1>2, <1>4, <1>6, <1>7, <1>8 DEF RingOf
<1>10. QED
  BY <1>3, <1>9 DEF pos2

\* What is taken out of the list leaves the places of the others.
LEMMA RingDrop ==
  ASSUME NEW nodes, NEW link, NEW pos, RingOf(nodes, link, pos),
         NEW m \in nodes, NEW link2,
         \A x \in (nodes \ {m}) \union {ListHead} :
           link2[x] = IF link[x] = m THEN link[m] ELSE link[x]
  PROVE  RingOf(nodes \ {m}, link2, pos)
<1>. DEFINE rest == nodes \ {m}
<1>1. /\ \A z \in nodes : /\ pos[z] \in Nat /\ pos[z] > 0 /\ z # ListHead
                          /\ At(pos, z) = pos[z]
      /\ \A n \in nodes \union {ListHead} : At(pos, n) \in Nat
      /\ At(pos, ListHead) = 0
  BY RingPlaces
<1>2. /\ nodes \subseteq Mods /\ pos \in [Mods -> Nat \ {0}] /\ m # ListHead
      /\ \A a, b \in nodes : pos[a] = pos[b] => a = b
      /\ \A x \in nodes \union {ListHead} : Follows(nodes, pos, x, link[x])
      /\ \A y \in nodes \union {ListHead} : \E x \in nodes \union {ListHead} : link[x] = y
  BY <1>1 DEF RingOf
<1>3. link[m] # m /\ link[m] \in nodes \union {ListHead}
  <2>1. Follows(nodes, pos, m, link[m])
    BY <1>2
  <2>2. QED
    BY <1>1, <2>1 DEF Follows
<1>4. ASSUME NEW x \in rest \union {ListHead} PROVE Follows(rest, pos, x, link2[x])
  <2>1. Follows(nodes, pos, x, link[x]) /\ x \in nodes \union {ListHead}
    BY <1>2
  <2>2. CASE link[x] # m
    <3>1. link2[x] = link[x]
      BY <2>2
    <3>2. CASE link[x] = ListHead
      BY <2>1, <3>1, <3>2 DEF Follows
    <3>3. CASE link[x] # ListHead
      BY <2>1, <2>2, <3>1, <3>3 DEF Follows
    <3>4. QED
      BY <3>2, <3>3
  <2>3. CASE link[x] = m
    <3>1. link2[x] = link[m]
      BY <2>3
    <3>2. /\ At(pos, x) < pos[m]
          /\ \A z \in nodes : ~(At(pos, x) < pos[z] /\ pos[z] < pos[m])
      BY <1>2, <2>1, <2>3 DEF Follows
    <3>3. Follows(nodes, pos, m, link[m]) /\ At(pos, m) = pos[m] /\ pos[m] \in Nat
      BY <1>1, <1>2
    <3>4. \A z \in rest : pos[z] # pos[m] /\ pos[z] \in Nat
      BY <1>1, <1>2
    <3>5. At(pos, x) \in Nat
      BY <1>1, <2>1
    <3>6. CASE link[m] = ListHead
      <4>1. \A z \in nodes : pos[z] <= pos[m]
        BY <3>3, <3>6 DEF Follows
      <4>2. \A z \in rest : pos[z] <= At(pos, x)
        BY <3>2, <3>3, <3>4, <3>5, <4>1
      <4>3. QED
        BY <3>1, <3>6, <4>2 DEF Follows
    <3>7. CASE link[m] # ListHead
      <4>1. /\ link[m] \in nodes /\ pos[m] < pos[link[m]]
            /\ \A z \in nodes : ~(pos[m] < pos[z] /\ pos[z] < pos[link[m]])
        BY <3>3, <3>7 DEF Follows
      <4>2. /\ link[m] \in rest /\ At(pos, x) < pos[link[m]]
        BY <1>1, <1>3, <3>2, <3>3, <3>5, <4>1
      <4>3. \A z \in rest : ~(At(pos, x) < pos[z] /\ pos[z] < pos[link[m]])
        BY <3>2, <3>3, <3>4, <3>5, <4>1
      <4>4. QED
        BY <3>1, <3>7, <4>2, <4>3 DEF Follows
    <3>8. QED
      BY <3>6, <3>7
  <2>4. QED
    BY <2>2, <2>3
<1>5. \A y \in rest \union {ListHead} : \E x \in rest \union {ListHead} : link2[x] = y
  <2>. TAKE y \in rest \union {ListHead}
  <2>1. PICK x \in nodes \union {ListHead} : link[x] = y
    BY <1>2
  <2>2. CASE x # m
    <3>1. link2[x] = y /\ x \in rest \union {ListHead}
      BY <1>2, <2>1, <2>2
    <3>2. QED
      BY <3>1
  <2>3. CASE x = m
    <3>1. PICK p \in nodes \union {ListHead} : link[p] = m
      BY <1>2
    <3>2. p # m
      BY <1>3, <3>1
    <3>3. link2[p] = y /\ p \in rest \union {ListHead}
      BY <2>1, <2>3, <3>1, <3>2
    <3>4. QED
      BY <3>3
  <2>4. QED
    BY <2>2, <2>3
<1>6. QED
  BY <1>2, <1>4, <1>5 DEF RingOf

\* RemoveAt leaves elements of the sequence only.
LEMMA RemoveAtType ==
  ASSUME NEW S, NEW s \in Seq(S), NEW i \in 1..Len(s)
  PROVE  RemoveAt(s, i) \in Seq(S)
<1>1. Len(s) \in Nat /\ i - 1 \in Int /\ i + 1 \in Int
  OBVIOUS
<1>2. (\A j \in 1..(i - 1) : s[j] \in S) /\ (\A j \in (i + 1)..Len(s) : s[j] \in S)
  OBVIOUS
<1>3. SubSeq(s, 1, i - 1) \in Seq(S)
  BY <1>1, <1>2, SubSeqProperties
<1>4. SubSeq(s, i + 1, Len(s)) \in Seq(S)
  BY <1>1, <1>2, SubSeqProperties
<1>5. QED
  BY <1>3, <1>4, ConcatProperties DEF RemoveAt

\* InsertAt adds an element and keeps those of the sequence.
LEMMA InsertAtKeeps ==
  ASSUME NEW S, NEW s \in Seq(S), NEW i \in 1..(Len(s) + 1), NEW m \in S
  PROVE  /\ InsertAt(s, i, m) \in Seq(S)
         /\ EntriesOf(s) \subseteq EntriesOf(InsertAt(s, i, m))
<1>. DEFINE a == SubSeq(s, 1, i - 1)
            b == SubSeq(s, i, Len(s))
            am == a \o <<m>>
            r == am \o b
<1>1. Len(s) \in Nat /\ i - 1 \in Int /\ i \in Int
  OBVIOUS
<1>2. (\A j \in 1..(i - 1) : s[j] \in S) /\ (\A j \in i..Len(s) : s[j] \in S)
  OBVIOUS
<1>3. a \in Seq(S) /\ Len(a) = i - 1 /\ \A j \in 1..(i - 1) : a[j] = s[j]
  BY <1>1, <1>2, SubSeqProperties
<1>4. b \in Seq(S) /\ Len(b) = Len(s) - i + 1 /\ \A j \in 1..(Len(s) - i + 1) : b[j] = s[i + j - 1]
  BY <1>1, <1>2, SubSeqProperties
<1>. HIDE DEF a, b
<1>5. <<m>> \in Seq(S) /\ Len(<<m>>) = 1
  OBVIOUS
<1>6. am \in Seq(S) /\ Len(am) = i /\ \A j \in 1..(i - 1) : am[j] = s[j]
  BY <1>3, <1>5, ConcatProperties
<1>. HIDE DEF am
<1>7. /\ r \in Seq(S) /\ Len(r) = Len(s) + 1
      /\ \A j \in 1..(i - 1) : r[j] = s[j]
      /\ \A j \in (i + 1)..(Len(s) + 1) : r[j] = b[j - i]
  <2>1. /\ r \in Seq(S) /\ Len(r) = Len(am) + Len(b)
        /\ \A j \in 1..Len(am) : r[j] = am[j]
        /\ \A j \in (Len(am) + 1)..(Len(am) + Len(b)) : r[j] = b[j - Len(am)]
    BY <1>4, <1>6, ConcatProperties
  <2>2. Len(am) = i /\ Len(am) + Len(b) = Len(s) + 1 /\ 1..(i - 1) \subseteq 1..Len(am)
    BY <1>1, <1>4, <1>6
  <2>3. \A j \in 1..(i - 1) : r[j] = s[j]
    BY <1>6, <2>1, <2>2
  <2>4. QED
    BY <2>1, <2>2, <2>3
<1>. HIDE DEF r
<1>8. ASSUME NEW j \in 1..Len(s) PROVE \E k \in 1..Len(r) : r[k] = s[j]
  <2>1. CASE j <= i - 1
    BY <1>7, <2>1
  <2>2. CASE ~(j <= i - 1)
    <3>1. j + 1 \in (i + 1)..(Len(s) + 1) /\ j + 1 - i \in 1..(Len(s) - i + 1)
          /\ i + (j + 1 - i) - 1 = j /\ j + 1 \in 1..Len(r)
      BY <1>7, <2>2
    <3>2. r[j + 1] = b[j + 1 - i]
      BY <1>7, <3>1
    <3>3. b[j + 1 - i] = s[i + (j + 1 - i) - 1]
      BY <1>4, <3>1
    <3>4. r[j + 1] = s[j]
      BY <3>1, <3>2, <3>3
    <3>5. QED
      BY <3>1, <3>4
  <2>3. QED
    BY <2>1, <2>2
<1>9. InsertAt(s, i, m) = r
  BY DEF InsertAt, a, b, am, r
<1>10. QED
  BY <1>7, <1>8, <1>9 DEF EntriesOf

\* The injective sequences over a finite set are sequences of it.
LEMMA SetToSeqsType ==
  ASSUME NEW S, IsFiniteSet(S), NEW s \in SetToSeqs(S)
  PROVE  /\ s \in Seq(S) /\ Len(s) = Cardinality(S) /\ Len(s) \in Nat
         /\ \A i, j \in 1..Len(s) : s[i] = s[j] => i = j
<1>1. Cardinality(S) \in Nat
  BY FS_CardinalityType
<1>2. /\ s \in [1..Cardinality(S) -> S]
      /\ \A i, j \in 1..Cardinality(S) : i # j => s[i] # s[j]
  BY DEF SetToSeqs
<1>3. s \in Seq(S) /\ Len(s) = Cardinality(S)
  BY <1>1, <1>2
<1>4. QED
  BY <1>1, <1>2, <1>3

LEMMA MachineInit == ModuleInit => MachineInv
<1>. SUFFICES ASSUME ModuleInit PROVE MachineInv
  OBVIOUS
<1>0. PICK order \in SetToSeqs(Mods) : \E n \in 1..Len(order) :
        /\ Self \in {order[i] : i \in 1..n}
        /\ linked = {order[i] : i \in 1..n}
        /\ flink = [x \in Nodes |->
             IF x = ListHead THEN order[1]
             ELSE IF \E i \in 1..(n - 1) : order[i] = x
               THEN order[(CHOOSE i \in 1..(n - 1) : order[i] = x) + 1]
             ELSE IF x \in linked THEN ListHead ELSE x]
  BY DEF ModuleInit
<1>1. PICK n \in 1..Len(order) :
        /\ Self \in {order[i] : i \in 1..n}
        /\ linked = {order[i] : i \in 1..n}
        /\ flink = [x \in Nodes |->
             IF x = ListHead THEN order[1]
             ELSE IF \E i \in 1..(n - 1) : order[i] = x
               THEN order[(CHOOSE i \in 1..(n - 1) : order[i] = x) + 1]
             ELSE IF x \in linked THEN ListHead ELSE x]
  BY <1>0
<1>2. /\ order \in Seq(Mods) /\ Len(order) \in Nat
      /\ \A i, j \in 1..Len(order) : order[i] = order[j] => i = j
  BY SetToSeqsType, ModuleAddresses
<1>3. n \in Nat /\ n > 0 /\ n <= Len(order)
  BY <1>2
<1>4. /\ \A i \in 1..n : order[i] \in Mods /\ order[i] \in linked
      /\ \A i, j \in 1..n : order[i] = order[j] => i = j
      /\ \A x \in linked : \E i \in 1..n : order[i] = x
  BY <1>1, <1>2, <1>3
<1>5. linked \subseteq Mods /\ linked \subseteq loaded /\ loaded \subseteq Mods
      /\ Self \in linked /\ born = loaded
  <2>1. loaded \in SUBSET Mods /\ linked \subseteq loaded /\ born = loaded
    BY DEF ModuleInit
  <2>2. QED
    BY <1>1, <2>1
<1>. DEFINE rank(x) == CHOOSE i \in 1..n : order[i] = x
            pos == [x \in Mods |-> IF x \in linked THEN rank(x) ELSE 1]
<1>6. \A i \in 1..n : rank(order[i]) = i
  <2>. TAKE i \in 1..n
  <2>1. rank(order[i]) \in 1..n /\ order[rank(order[i])] = order[i]
    OBVIOUS
  <2>. HIDE DEF rank
  <2>2. QED
    BY <1>4, <2>1
<1>7. \A x \in linked : rank(x) \in 1..n /\ order[rank(x)] = x
  BY <1>4, <1>6
<1>. HIDE DEF rank
<1>8. /\ pos \in [Mods -> Nat \ {0}]
      /\ \A i \in 1..n : pos[order[i]] = i
      /\ \A x \in linked : pos[x] \in 1..n /\ order[pos[x]] = x
  BY <1>3, <1>4, <1>5, <1>6, <1>7
<1>. HIDE DEF pos
<1>9. \A i \in 1..(n - 1) : (CHOOSE j \in 1..(n - 1) : order[j] = order[i]) = i
  <2>. TAKE i \in 1..(n - 1)
  <2>. DEFINE c == CHOOSE j \in 1..(n - 1) : order[j] = order[i]
  <2>1. c \in 1..(n - 1) /\ order[c] = order[i]
    OBVIOUS
  <2>. HIDE DEF c
  <2>2. c = i
    BY <1>3, <1>4, <2>1
  <2>3. QED
    BY <2>2 DEF c
<1>10. /\ flink[ListHead] = order[1]
       /\ \A i \in 1..(n - 1) : flink[order[i]] = order[i + 1]
       /\ flink[order[n]] = ListHead
  <2>1. flink[ListHead] = order[1]
    BY <1>1 DEF Nodes
  <2>2. ASSUME NEW i \in 1..(n - 1) PROVE flink[order[i]] = order[i + 1]
    <3>1. order[i] \in Nodes /\ order[i] # ListHead
      BY <1>3, <1>4, ModuleLimits DEF Nodes
    <3>2. flink[order[i]] = order[(CHOOSE j \in 1..(n - 1) : order[j] = order[i]) + 1]
      BY <1>1, <3>1
    <3>3. QED
      BY <1>9, <3>2
  <2>3. flink[order[n]] = ListHead
    <3>1. order[n] \in linked /\ order[n] \in Nodes /\ order[n] # ListHead
      BY <1>3, <1>4, ModuleLimits DEF Nodes
    <3>2. ~\E i \in 1..(n - 1) : order[i] = order[n]
      BY <1>3, <1>4
    <3>3. QED
      BY <1>1, <3>1, <3>2
  <2>4. QED
    BY <2>1, <2>2, <2>3
<1>11. \A x \in Mods \ linked : flink[x] = x
  <2>. TAKE x \in Mods \ linked
  <2>1. x \in Nodes /\ x # ListHead /\ ~\E i \in 1..(n - 1) : order[i] = x
    BY <1>3, <1>4, ModuleLimits DEF Nodes
  <2>2. QED
    BY <1>1, <2>1
<1>12. Ring(pos)
  <2>1. \A a, b \in linked : pos[a] = pos[b] => a = b
    BY <1>8
  <2>2. ASSUME NEW x \in linked \union {ListHead} PROVE Follows(linked, pos, x, flink[x])
    <3>1. CASE x = ListHead
      <4>1. At(pos, x) = 0 /\ flink[x] = order[1] /\ order[1] \in linked
            /\ order[1] # ListHead /\ pos[order[1]] = 1
        BY <1>3, <1>4, <1>8, <1>10, <3>1, ModuleLimits DEF At
      <4>2. \A z \in linked : ~(0 < pos[z] /\ pos[z] < 1)
        BY <1>8
      <4>3. QED
        BY <4>1, <4>2 DEF Follows
    <3>2. CASE x # ListHead
      <4>1. pos[x] \in 1..n /\ order[pos[x]] = x /\ At(pos, x) = pos[x]
        BY <1>8, <3>2 DEF At
      <4>2. CASE pos[x] = n
        <5>1. flink[x] = ListHead
          BY <1>10, <4>1, <4>2
        <5>2. \A z \in linked : pos[z] <= n
          BY <1>8
        <5>3. QED
          BY <4>1, <4>2, <5>1, <5>2 DEF Follows
      <4>3. CASE pos[x] # n
        <5>1. pos[x] \in 1..(n - 1) /\ pos[x] + 1 \in 1..n
          BY <1>3, <4>1, <4>3
        <5>2. flink[x] = order[pos[x] + 1] /\ flink[x] \in linked /\ flink[x] # ListHead
              /\ pos[flink[x]] = pos[x] + 1
          <6>1. flink[x] = order[pos[x] + 1]
            BY <1>10, <4>1, <5>1
          <6>2. order[pos[x] + 1] \in linked
            BY <1>4, <5>1
          <6>3. pos[order[pos[x] + 1]] = pos[x] + 1
            BY <1>8, <5>1
          <6>4. ListHead \notin linked
            BY <1>4, ModuleLimits
          <6>5. QED
            BY <6>1, <6>2, <6>3, <6>4
        <5>3. \A z \in linked : ~(pos[x] < pos[z] /\ pos[z] < pos[x] + 1)
          BY <1>8, <4>1
        <5>4. pos[x] < pos[x] + 1
          BY <4>1
        <5>5. QED
          BY <4>1, <5>2, <5>3, <5>4 DEF Follows
      <4>4. QED
        BY <4>2, <4>3
    <3>3. QED
      BY <3>1, <3>2
  <2>3. ASSUME NEW y \in linked \union {ListHead}
        PROVE  \E x \in linked \union {ListHead} : flink[x] = y
    <3>1. CASE y = ListHead
      <4>1. order[n] \in linked
        BY <1>3, <1>4
      <4>2. QED
        BY <1>10, <3>1, <4>1
    <3>2. CASE y # ListHead
      <4>1. pos[y] \in 1..n /\ order[pos[y]] = y
        BY <1>8, <3>2
      <4>2. CASE pos[y] = 1
        BY <1>10, <4>1, <4>2
      <4>3. CASE pos[y] # 1
        <5>1. PICK k \in 1..(n - 1) : k + 1 = pos[y] /\ k \in 1..n
          <6>1. pos[y] - 1 \in 1..(n - 1) /\ pos[y] - 1 \in 1..n /\ (pos[y] - 1) + 1 = pos[y]
            BY <1>3, <4>1, <4>3
          <6>2. QED
            BY <6>1
        <5>2. flink[order[k]] = y /\ order[k] \in linked
          BY <1>4, <1>10, <4>1, <5>1
        <5>3. QED
          BY <5>2
      <4>4. QED
        BY <4>2, <4>3
    <3>3. QED
      BY <3>1, <3>2
  <2>4. QED
    BY <1>5, <1>8, <2>1, <2>2, <2>3 DEF Ring, RingOf
<1>13. /\ flink \in [Nodes -> Nodes]
       /\ \A x \in born \union {ListHead} : flink[x] \in born \union {ListHead}
  <2>1. ASSUME NEW x \in Nodes
        PROVE  flink[x] \in Nodes /\ flink[x] \in linked \union {ListHead, x}
    <3>1. CASE x \in linked \union {ListHead}
      <4>1. Follows(linked, pos, x, flink[x])
        BY <1>12, <3>1 DEF Ring, RingOf
      <4>2. QED
        BY <1>5, <4>1 DEF Follows, Nodes
    <3>2. CASE x \notin linked \union {ListHead}
      BY <1>11, <3>2 DEF Nodes
    <3>3. QED
      BY <3>1, <3>2
  <2>2. flink = [x \in Nodes |-> flink[x]]
    BY <1>1
  <2>3. flink \in [Nodes -> Nodes]
    BY <2>1, <2>2
  <2>4. QED
    BY <1>5, <2>1, <2>3 DEF Nodes
<1>14. directory \in Seq(born)
  <2>1. PICK s \in SUBSET loaded : directory \in SetToSeqs(s)
    BY DEF ModuleInit
  <2>2. IsFiniteSet(s)
    BY <1>5, <2>1, ModuleAddresses, FS_Subset
  <2>3. directory \in Seq(s)
    BY <2>1, <2>2, SetToSeqsType
  <2>4. QED
    BY <1>5, <2>1, <2>3, SeqMonotonic
<1>15. QED
  BY <1>5, <1>8, <1>12, <1>13, <1>14 DEF MachineInv

LEMMA BeforeFacts ==
  ASSUME MachineInv, NEW y \in linked \union {ListHead}
  PROVE  /\ Before(y) \in linked \union {ListHead} /\ flink[Before(y)] = y
         /\ \A x \in linked \union {ListHead} : flink[x] = y => x = Before(y)
<1>1. PICK pos : RingOf(linked, flink, pos)
  BY DEF MachineInv, Ring
<1>2. \E x \in linked \union {ListHead} : flink[x] = y
  BY <1>1 DEF RingOf
<1>3. Before(y) \in linked \union {ListHead} /\ flink[Before(y)] = y
  BY <1>2 DEF Before
<1>4. ASSUME NEW x \in linked \union {ListHead}, flink[x] = y PROVE x = Before(y)
  BY <1>1, <1>3, <1>4, RingInjective
<1>5. QED
  BY <1>3, <1>4

LEMMA LoadRing ==
  ASSUME MachineInv, NEW pos, Ring(pos), NEW m \in Mods, Load(m),
         NEW q, q = At(pos, Before(ListHead))
  PROVE  /\ RingOf(linked', flink', [pos EXCEPT ![m] = q + 1])
         /\ q \in Nat /\ \A z \in linked : pos[z] <= q
         /\ linked' = linked \union {m} /\ m \notin linked
<1>1. /\ Before(ListHead) \in linked \union {ListHead} /\ flink[Before(ListHead)] = ListHead
  BY BeforeFacts
<1>2. PICK p \in linked \union {ListHead} : p = Before(ListHead) /\ flink[p] = ListHead
  BY <1>1
<1>3. /\ m \notin linked /\ linked' = linked \union {m} /\ linked \subseteq Mods
      /\ flink' = [flink EXCEPT ![p] = m, ![m] = ListHead] /\ flink \in [Nodes -> Nodes]
  BY <1>2 DEF Load, MachineInv
<1>4. \A x \in linked \union {ListHead, m} :
        flink'[x] = IF x = m THEN ListHead ELSE IF x = p THEN m ELSE flink[x]
  <2>1. linked \union {ListHead, m} \subseteq Nodes
    BY <1>3 DEF Nodes
  <2>2. QED
    BY <1>3, <2>1
<1>5. q = At(pos, p) /\ q \in Nat
  BY <1>2, RingPlaces DEF Ring
<1>6. RingOf(linked \union {m}, flink', [pos EXCEPT ![m] = At(pos, p) + 1])
      /\ \A z \in linked : pos[z] <= At(pos, p)
  <2>1. RingOf(linked, flink, pos) /\ m \in Mods \ linked
    BY <1>3 DEF Ring
  <2>2. PICK link2 : link2 = flink'
    OBVIOUS
  <2>3. \A x \in linked \union {ListHead, m} :
          link2[x] = IF x = m THEN ListHead ELSE IF x = p THEN m ELSE flink[x]
    BY <1>4, <2>2
  <2>4. /\ RingOf(linked \union {m}, link2, [pos EXCEPT ![m] = At(pos, p) + 1])
        /\ \A z \in linked : pos[z] <= At(pos, p)
    BY <1>2, <2>1, <2>3, RingAdd
  <2>5. QED
    BY <2>2, <2>4
<1>7. QED
  BY <1>3, <1>5, <1>6

LEMMA DropRing ==
  ASSUME MachineInv, NEW pos, Ring(pos), NEW m \in linked,
         linked' = linked \ {m},
         \/ flink' = [flink EXCEPT ![Before(m)] = flink[m]]
         \/ \E next \in {flink[m], m} :
              flink' = [flink EXCEPT ![Before(m)] = flink[m], ![m] = next]
  PROVE  RingOf(linked', flink', pos)
<1>1. /\ Before(m) \in linked \union {ListHead} /\ flink[Before(m)] = m
      /\ \A x \in linked \union {ListHead} : flink[x] = m => x = Before(m)
  BY BeforeFacts
<1>2. linked \union {ListHead} \subseteq Nodes /\ flink \in [Nodes -> Nodes]
  BY DEF MachineInv, Nodes
<1>3. \A x \in (linked \ {m}) \union {ListHead} :
        flink'[x] = IF flink[x] = m THEN flink[m] ELSE flink[x]
  <2>. TAKE x \in (linked \ {m}) \union {ListHead}
  <2>1. x # m /\ x \in Nodes /\ m \in Nodes
    BY <1>2, ModuleLimits DEF MachineInv
  <2>2. flink'[x] = IF x = Before(m) THEN flink[m] ELSE flink[x]
    BY <1>2, <2>1
  <2>3. QED
    BY <1>1, <2>1, <2>2
<1>4. QED
  BY <1>3, RingDrop DEF Ring

\* Every link leads to a node there has been.
LEMMA LinksStep ==
  ASSUME MachineInv, NEW m \in Mods, Load(m) \/ Unlink(m) \/ Unload(m)
  PROVE  /\ flink' \in [Nodes -> Nodes]
         /\ \A n \in born' \union {ListHead} : flink'[n] \in born' \union {ListHead}
<1>1. /\ flink \in [Nodes -> Nodes] /\ born \subseteq Mods /\ linked \subseteq born
      /\ \A n \in born \union {ListHead} : flink[n] \in born \union {ListHead}
  BY DEF MachineInv
<1>2. m \in Nodes /\ ListHead \in Nodes /\ born \union {ListHead} \subseteq Nodes
  BY <1>1 DEF Nodes
<1>3. CASE Load(m)
  <2>1. PICK p \in Nodes : p = Before(ListHead)
    BY <1>1, <1>2, BeforeFacts
  <2>2. flink' = [flink EXCEPT ![p] = m, ![m] = ListHead] /\ born' = born \union {m}
    BY <1>3, <2>1 DEF Load
  <2>3. flink' \in [Nodes -> Nodes]
    BY <1>1, <1>2, <2>2
  <2>4. \A n \in born' \union {ListHead} : flink'[n] \in born' \union {ListHead}
    BY <1>1, <1>2, <2>2
  <2>5. QED
    BY <2>3, <2>4
<1>4. CASE flink' = flink /\ born' = born
  BY <1>1, <1>4
<1>5. CASE m \in linked /\ (Unlink(m) \/ Unload(m))
  <2>1. PICK p \in Nodes : p = Before(m)
    BY <1>1, <1>2, <1>5, BeforeFacts
  <2>2. born' = born
    BY <1>5 DEF Unlink, Unload
  <2>3. flink[m] \in Nodes /\ flink[m] \in born \union {ListHead} /\ m \in born
    BY <1>1, <1>2, <1>5
  <2>4. CASE Unlink(m)
    <3>1. PICK next \in {flink[m], m} : flink' = [flink EXCEPT ![p] = flink[m], ![m] = next]
      BY <2>1, <2>4 DEF Unlink
    <3>2. flink' \in [Nodes -> Nodes]
      BY <1>1, <1>2, <2>3, <3>1
    <3>3. \A n \in born \union {ListHead} : flink'[n] \in born \union {ListHead}
      BY <1>1, <1>2, <2>3, <3>1
    <3>4. QED
      BY <2>2, <3>2, <3>3
  <2>5. CASE Unload(m)
    <3>1. flink' = [flink EXCEPT ![p] = flink[m]]
      BY <1>5, <2>1, <2>5 DEF Unload
    <3>2. flink' \in [Nodes -> Nodes]
      BY <1>1, <1>2, <2>3, <3>1
    <3>3. \A n \in born \union {ListHead} : flink'[n] \in born \union {ListHead}
      BY <1>1, <1>2, <2>3, <3>1
    <3>4. QED
      BY <2>2, <3>2, <3>3
  <2>6. QED
    BY <1>5, <2>4, <2>5
<1>6. QED
  BY <1>3, <1>4, <1>5 DEF Unlink, Unload

\* A load keeps the objects of the directory.
LEMMA DirectoryStepType ==
  ASSUME MachineInv, NEW m \in Mods, Load(m) \/ Unlink(m) \/ Unload(m)
  PROVE  /\ directory' \in Seq(born')
         /\ Load(m) \/ UNCHANGED directory =>
              Objects \subseteq Objects'
<1>1. directory \in Seq(born) /\ born \subseteq Mods
  BY DEF MachineInv
<1>2. CASE Load(m)
  <2>1. directory \in Seq(born \union {m}) /\ born' = born \union {m}
    BY <1>1, <1>2, SeqMonotonic DEF Load
  <2>2. CASE directory' = directory
    BY <2>1, <2>2 DEF Objects
  <2>3. CASE \E i \in 1..(Len(directory) + 1) : directory' = InsertAt(directory, i, m)
    <3>1. PICK i \in 1..(Len(directory) + 1) : directory' = InsertAt(directory, i, m)
      BY <2>3
    <3>2. m \in born \union {m}
      OBVIOUS
    <3>3. /\ InsertAt(directory, i, m) \in Seq(born \union {m})
          /\ EntriesOf(directory) \subseteq EntriesOf(InsertAt(directory, i, m))
      BY <2>1, <3>2, InsertAtKeeps
    <3>4. QED
      BY <2>1, <3>1, <3>3 DEF Objects
  <2>4. QED
    BY <1>2, <2>2, <2>3 DEF Load
<1>3. CASE ~Load(m)
  <2>1. born' = born
    BY <1>3 DEF Unlink, Unload
  <2>2. CASE UNCHANGED directory
    BY <1>1, <2>1, <2>2 DEF Objects
  <2>3. CASE \E i \in PlacesOf(m) : directory' = RemoveAt(directory, i)
    <3>1. directory' \in Seq(born)
      BY <1>1, <2>3, RemoveAtType DEF PlacesOf
    <3>2. Unload(m) \/ UNCHANGED directory
      BY <1>3 DEF Unlink
    <3>3. QED
      BY <1>3, <2>1, <2>2, <3>1
  <2>4. QED
    BY <1>3, <2>2, <2>3 DEF Unlink, Unload
<1>4. QED
  BY <1>2, <1>3

LEMMA MachineMoves ==
  ASSUME MachineInv, NEW m \in Mods, Load(m) \/ Unlink(m) \/ Unload(m)
  PROVE  MachineInv'
<1>1. /\ born' \subseteq Mods /\ loaded' \subseteq born' /\ linked' \subseteq loaded'
      /\ Self \in linked'
  BY DEF Load, Unlink, Unload, MachineInv
<1>2. PICK pos \in [Mods -> Nat \ {0}] : Ring(pos)
  BY DEF MachineInv
<1>3. \E pos2 \in [Mods -> Nat \ {0}] : RingOf(linked', flink', pos2)
  <2>1. CASE Load(m)
    <3>1. PICK q : q = At(pos, Before(ListHead))
      OBVIOUS
    <3>2. RingOf(linked', flink', [pos EXCEPT ![m] = q + 1])
      BY <1>2, <2>1, <3>1, LoadRing
    <3>3. QED
      BY <3>2 DEF RingOf
  <2>2. CASE m \in linked /\ (Unlink(m) \/ Unload(m))
    <3>1. RingOf(linked', flink', pos)
      BY <1>2, <2>2, DropRing DEF Unlink, Unload
    <3>2. QED
      BY <1>2, <3>1
  <2>3. CASE m \notin linked /\ Unload(m)
    <3>1. linked' = linked /\ flink' = flink
      BY <2>3 DEF Unload
    <3>2. QED
      BY <1>2, <3>1 DEF Ring
  <2>4. QED
    BY <2>1, <2>2, <2>3 DEF Unlink
<1>4. QED
  BY <1>1, <1>3, LinksStep, DirectoryStepType DEF MachineInv, Ring

LEMMA MachineInvStep == MachineInv /\ [ModuleNext]_moduleVars => MachineInv'
<1>1. CASE UNCHANGED machine
  BY <1>1 DEF machine, MachineInv, Ring
<1>2. CASE Machine
  BY <1>2, MachineMoves DEF Machine
<1>3. QED
  BY <1>1, <1>2 DEF ModuleNext, moduleVars, BeginModuleQuery, ModuleQuery, SectionStep,
     DirectoryStep, DirectoryDone, PoolSnapshot, PoolStep, PoolDone, PoolException,
     ReplyModules

-----------------------------------------------------------------------------
(* What a query has found.                                                 *)

BornEntry == [base : born \union Blocks, name : Names, views : SUBSET Views, sized : BOOLEAN]

QueryInv ==
  /\ current \in born \union {ListHead} /\ cursor \in Nat /\ blocks \subseteq Blocks
  /\ listed \subseteq linked
  /\ entries \in Seq(BornEntry) /\ Len(entries) <= MaxEntries
  /\ response.entries \in Seq(BornEntry)
  /\ response.status = "failed" => response.entries = <<>>
  /\ pc # "returned" => response = NoResponse
  /\ pc = "returned" /\ response.status = "success" =>
       response.entries = entries /\ response.counts = counts

\* The entries stay where they are, under the same base and name.
SameEntries ==
  /\ Len(entries) <= Len(entries')
  /\ \A j \in 1..Len(entries) : /\ j \in 1..Len(entries')
                                /\ entries'[j].base = entries[j].base
                                /\ entries'[j].name = entries[j].name
                                /\ entries[j].views \subseteq entries'[j].views

Merged(i, view) ==
  /\ Len(entries') = Len(entries)
  /\ \A j \in 1..Len(entries) :
       entries'[j].views = IF j = i THEN entries[j].views \union {view} ELSE entries[j].views

Appended(base, name, view) ==
  /\ Len(entries') = Len(entries) + 1
  /\ \A j \in 1..Len(entries) : entries'[j].views = entries[j].views
  /\ entries'[Len(entries) + 1].base = base
  /\ entries'[Len(entries) + 1].name = name
  /\ entries'[Len(entries) + 1].views = {view}

AddsAs(view, base, name) ==
  \/ \E i \in SameModule(base, name) : i \in 1..Len(entries) /\ Merged(i, view)
  \/ SameModule(base, name) = {} /\ Appended(base, name, view)
  \/ /\ SameModule(base, name) = {} /\ Len(entries) = MaxEntries
     /\ UNCHANGED <<entries, counts>>

\* What becomes of the entries when a view adds a module.
LEMMA AddEffect ==
  ASSUME entries \in Seq(BornEntry), Len(entries) <= MaxEntries,
         NEW view \in Views, NEW base \in born \union Blocks, NEW name \in Names,
         NEW sized \in BOOLEAN, AddModule(view, base, name, sized),
         base # NoBase, name # Unknown
  PROVE  /\ entries' \in Seq(BornEntry) /\ Len(entries') <= MaxEntries
         /\ Len(entries) \in Nat /\ Len(entries') \in Nat
         /\ SameEntries /\ AddsAs(view, base, name)
<1>1. Len(entries) \in Nat /\ MaxEntries \in Nat
  BY ModuleLimits, LenProperties
<1>2. CASE \E i \in SameModule(base, name) : Merge(i, view, sized)
  <2>1. PICK i \in SameModule(base, name) : Merge(i, view, sized)
    BY <1>2
  <2>2. i \in 1..Len(entries)
    BY <2>1 DEF SameModule, WithBase, WithName
  <2>. DEFINE old == entries[i]
              new == [old EXCEPT !.views = @ \union {view}, !.sized = @ \/ sized]
  <2>3. old \in BornEntry
    BY <2>2, ElementOfSeq
  <2>4. /\ new \in BornEntry /\ new.base = old.base /\ new.name = old.name
        /\ new.views = old.views \union {view}
    BY <2>3 DEF BornEntry
  <2>5. entries' = [entries EXCEPT ![i] = new]
    BY <2>1 DEF Merge
  <2>. HIDE DEF new
  <2>6. /\ entries' \in Seq(BornEntry) /\ Len(entries') = Len(entries)
        /\ \A j \in 1..Len(entries) : entries'[j] = IF j = i THEN new ELSE entries[j]
    BY <2>2, <2>4, <2>5, ExceptSeq
  <2>7. SameEntries
    BY <1>1, <2>4, <2>6 DEF SameEntries
  <2>8. Merged(i, view)
    BY <2>4, <2>6 DEF Merged
  <2>9. QED
    BY <1>1, <2>1, <2>2, <2>6, <2>7, <2>8 DEF AddsAs
<1>3. CASE /\ SameModule(base, name) = {} /\ Len(entries) < MaxEntries
           /\ entries' = Append(entries,
                [base |-> base, name |-> name, views |-> {view}, sized |-> sized])
  <2>. DEFINE e == [base |-> base, name |-> name, views |-> {view}, sized |-> sized]
  <2>1. e \in BornEntry /\ e.base = base /\ e.name = name /\ e.views = {view}
    BY DEF BornEntry
  <2>. HIDE DEF e
  <2>2. /\ entries' \in Seq(BornEntry) /\ Len(entries') = Len(entries) + 1
        /\ \A j \in 1..Len(entries) : entries'[j] = entries[j]
        /\ entries'[Len(entries) + 1] = e
    BY <1>3, <2>1, AppendProperties DEF e
  <2>3. SameEntries
    BY <1>1, <2>2 DEF SameEntries
  <2>4. Appended(base, name, view)
    BY <2>1, <2>2 DEF Appended
  <2>5. QED
    BY <1>1, <1>3, <2>2, <2>3, <2>4 DEF AddsAs
<1>4. CASE /\ SameModule(base, name) = {} /\ Len(entries) = MaxEntries
           /\ UNCHANGED <<entries, counts>>
  <2>1. SameEntries
    BY <1>1, <1>4 DEF SameEntries
  <2>2. QED
    BY <1>1, <1>4, <2>1 DEF AddsAs
<1>5. QED
  BY <1>2, <1>3, <1>4 DEF AddModule

\* A module of a view is added under its own base and name, or dropped, because
\* it has no base or its name did not convert.
LEMMA AddNamedAdds ==
  ASSUME NEW view, NEW m, NEW base, NEW name, NEW sized,
         AddNamed(view, m, base, name, sized)
  PROVE  /\ \/ /\ UNCHANGED <<entries, counts>>
               /\ base = NoBase \/ <<view, m>> \in unnamed'
            \/ base # NoBase /\ name # Unknown /\ AddModule(view, base, name, sized)
         /\ unnamed \subseteq unnamed'
<1>1. PICK ansi \in CopyUnicodeToAnsi(m, name) :
        /\ AddModule(view, base, ansi, sized)
        /\ unnamed' = IF ansi = Unknown THEN unnamed \union {<<view, m>>} ELSE unnamed
  BY DEF AddNamed
<1>2. ansi \in {name, Unknown}
  BY <1>1 DEF CopyUnicodeToAnsi
<1>3. CASE base = NoBase \/ ansi = Unknown
  <2>1. UNCHANGED <<entries, counts>>
    BY <1>1, <1>3 DEF AddModule
  <2>2. QED
    BY <1>1, <1>3, <2>1
<1>4. CASE base # NoBase /\ ansi # Unknown
  BY <1>1, <1>2, <1>4
<1>5. QED
  BY <1>3, <1>4

\* What a step of the query leaves of its history.
LEMMA QueryHistory ==
  ASSUME ModuleQuery
  PROVE  UNCHANGED <<shifted, listed, diverted>> /\ unnamed \subseteq unnamed'
<1>1. CASE SectionStep
  <2>1. Visit(current) /\ UNCHANGED <<shifted, listed, diverted>>
    BY <1>1 DEF SectionStep
  <2>2. QED
    BY <2>1, AddNamedAdds DEF Visit
<1>2. CASE DirectoryStep
  <2>. DEFINE m == directory[cursor + 1]
              object == ObjectModule(m)
  <2>1. /\ \/ AddNamed("driverobj", m, object.base, object.name, object.sized)
           \/ unnamed' = unnamed
        /\ UNCHANGED <<shifted, listed, diverted>>
    BY <1>2 DEF DirectoryStep
  <2>. HIDE DEF object, m
  <2>2. QED
    BY <2>1, AddNamedAdds
<1>3. CASE ModuleQuery /\ ~SectionStep /\ ~DirectoryStep
  BY <1>3 DEF ModuleQuery, DirectoryDone, PoolSnapshot, PoolStep, PoolDone, PoolException,
     ReplyModules, history
<1>4. QED
  BY <1>1, <1>2, <1>3

\* What each step of the query adds, if anything.
Adds ==
  \/ UNCHANGED <<entries, counts>>
  \/ pc = "section" /\ current \in Mods /\ AddsAs("section", current, NameOf[current])
  \/ \E m \in Objects : pc = "directory" /\ AddsAs("driverobj", m, ObjectModule(m).name)
  \/ \E b \in blocks : pc = "pool" /\ AddsAs("residual", b, TagName[b])

LEMMA QueryAdds ==
  ASSUME MachineInv, QueryInv, ModuleQuery
  PROVE  /\ Adds /\ UNCHANGED machine
         /\ entries' \in Seq(BornEntry) /\ Len(entries') <= MaxEntries /\ SameEntries
<1>1. ASSUME UNCHANGED <<entries, counts>>
      PROVE  /\ Adds /\ entries' \in Seq(BornEntry) /\ Len(entries') <= MaxEntries
             /\ SameEntries
  <2>1. entries \in Seq(BornEntry) /\ Len(entries) <= MaxEntries
    BY DEF QueryInv
  <2>2. Len(entries) \in Nat
    BY <2>1, LenProperties
  <2>3. QED
    BY <1>1, <2>1, <2>2 DEF Adds, SameEntries
<1>2. ASSUME NEW view \in Views, NEW base \in born \union Blocks, NEW name \in Names,
             NEW sized \in BOOLEAN, AddModule(view, base, name, sized),
             base # NoBase, name # Unknown
      PROVE  /\ entries' \in Seq(BornEntry) /\ Len(entries') <= MaxEntries /\ SameEntries
             /\ AddsAs(view, base, name)
  BY <1>2, AddEffect DEF QueryInv
<1>3. /\ \A m \in Mods : /\ NameOf[m] \in Names /\ ObjectName[m] \in Names
                         /\ ObjectModule(m).name \in {NameOf[m], ObjectName[m]}
                         /\ ObjectModule(m).base \in {m, NoBase}
                         /\ ObjectModule(m).sized \in BOOLEAN
      /\ \A b \in Blocks : TagName[b] \in Names
  BY DEF Names, ObjectModule
<1>4. CASE SectionStep
  <2>1. Visit(current) /\ pc = "section" /\ UNCHANGED machine
    BY <1>4 DEF SectionStep
  <2>2. CASE /\ current \in Mods
             /\ AddNamed("section", current, current, NameOf[current], TRUE)
    <3>1. current \in born
      BY <2>2, ModuleLimits DEF QueryInv
    <3>2. \/ UNCHANGED <<entries, counts>>
          \/ /\ current # NoBase /\ NameOf[current] # Unknown
             /\ AddModule("section", current, NameOf[current], TRUE)
      BY <2>2, AddNamedAdds
    <3>3. QED
      BY <1>1, <1>2, <1>3, <2>1, <2>2, <3>1, <3>2 DEF Views, Adds
  <2>3. CASE UNCHANGED <<entries, counts>>
    BY <1>1, <2>1, <2>3
  <2>4. QED
    BY <2>1, <2>2, <2>3 DEF Visit
<1>5. CASE DirectoryStep
  <2>. DEFINE m == directory[cursor + 1]
  <2>1. cursor + 1 \in 1..Len(directory) /\ directory \in Seq(born) /\ born \subseteq Mods
    BY <1>5 DEF DirectoryStep, QueryInv, MachineInv
  <2>2. m \in Objects /\ m \in born /\ m \in Mods
    <3>1. m \in born
      BY <2>1, ElementOfSeq
    <3>2. QED
      BY <2>1, <3>1 DEF Objects, EntriesOf
  <2>. DEFINE object == ObjectModule(m)
  <2>3. /\ \/ AddNamed("driverobj", m, object.base, object.name, object.sized)
           \/ UNCHANGED <<entries, counts>>
        /\ pc = "directory" /\ UNCHANGED machine
    BY <1>5 DEF DirectoryStep
  <2>. HIDE DEF m
  <2>4. /\ object.name \in Names /\ object.sized \in BOOLEAN
        /\ object.base \in {m, NoBase}
    BY <1>3, <2>2
  <2>5. \/ UNCHANGED <<entries, counts>>
        \/ /\ object.base # NoBase /\ object.name # Unknown
           /\ AddModule("driverobj", m, object.name, object.sized)
    <3>. HIDE DEF object
    <3>1. QED
      BY <2>3, <2>4, AddNamedAdds
  <2>6. CASE /\ object.base # NoBase /\ object.name # Unknown
             /\ AddModule("driverobj", m, object.name, object.sized)
    <3>1. Adds
      BY <1>2, <2>2, <2>3, <2>4, <2>6 DEF Views, Adds
    <3>2. QED
      BY <1>2, <2>2, <2>3, <2>4, <2>6, <3>1 DEF Views
  <2>7. QED
    BY <1>1, <2>3, <2>5, <2>6
<1>6. CASE PoolStep
  <2>1. /\ \/ \E b \in blocks : AddModule("residual", b, TagName[b], TRUE)
           \/ UNCHANGED <<entries, counts>>
        /\ pc = "pool" /\ UNCHANGED machine
    BY <1>6 DEF PoolStep
  <2>2. CASE /\ \E b \in blocks : AddModule("residual", b, TagName[b], TRUE)
             /\ ~UNCHANGED <<entries, counts>>
    <3>1. PICK b \in blocks : /\ AddModule("residual", b, TagName[b], TRUE)
                              /\ b # NoBase /\ TagName[b] # Unknown
      BY <2>2 DEF AddModule
    <3>2. b \in Blocks /\ TagName[b] \in Names
      BY <1>3, <3>1 DEF QueryInv
    <3>3. Adds
      BY <1>2, <2>1, <3>1, <3>2 DEF Views, Adds
    <3>4. QED
      BY <1>2, <2>1, <3>1, <3>2, <3>3 DEF Views
  <2>3. QED
    BY <1>1, <2>1, <2>2
<1>7. CASE DirectoryDone \/ PoolSnapshot \/ PoolDone \/ PoolException \/ ReplyModules
  <2>1. UNCHANGED <<entries, counts>> /\ UNCHANGED machine
    BY <1>7 DEF DirectoryDone, PoolSnapshot, PoolDone, PoolException, ReplyModules
  <2>2. QED
    BY <1>1, <2>1
<1>8. QED
  BY <1>4, <1>5, <1>6, <1>7 DEF ModuleQuery

LEMMA FailedResponse ==
  LET r == [NoResponse EXCEPT !.status = "failed"]
  IN  r.entries = <<>> /\ r.status = "failed"
BY DEF NoResponse

LEMMA QueryInvStep == MachineInv /\ QueryInv /\ [ModuleNext]_moduleVars => QueryInv'
<1>. SUFFICES ASSUME MachineInv, QueryInv, [ModuleNext]_moduleVars PROVE QueryInv'
  OBVIOUS
<1>0. <<>> \in Seq(BornEntry) /\ <<>> \in Seq(BornEntry') /\ Len(<<>>) = 0
  BY EmptySeq
<1>1. CASE UNCHANGED moduleVars
  BY <1>1 DEF QueryInv, BornEntry, moduleVars, machine, driverVars, scan, history
<1>2. CASE BeginModuleQuery
  <2>1. UNCHANGED machine /\ BornEntry' = BornEntry
    BY <1>2 DEF BeginModuleQuery, machine, BornEntry
  <2>2. /\ current' = Self /\ cursor' = 0 /\ blocks' = {} /\ listed' = linked
        /\ entries' = <<>>
        /\ \/ pc' = "section" /\ response' = NoResponse
           \/ pc' = "returned" /\ response' = [NoResponse EXCEPT !.status = "failed"]
    BY <1>2 DEF BeginModuleQuery, InitModuleAccumulator, FailQuery
  <2>3. Self \in born
    BY DEF MachineInv
  <2>4. response'.entries = <<>> /\ response'.status \in {"none", "failed"}
    BY <2>2, FailedResponse DEF NoResponse
  <2>5. QED
    BY <1>0, <2>1, <2>2, <2>3, <2>4, ModuleLimits DEF QueryInv, machine
<1>3. CASE ModuleQuery
  <2>1. /\ UNCHANGED machine /\ entries' \in Seq(BornEntry) /\ Len(entries') <= MaxEntries
        /\ BornEntry' = BornEntry
    BY <1>3, QueryAdds DEF BornEntry, machine
  <2>2. listed' = listed /\ linked' = linked
    BY <1>3, <2>1, QueryHistory DEF machine
  <2>3. current' \in born \union {ListHead} /\ cursor' \in Nat /\ blocks' \subseteq Blocks
    <3>1. CASE SectionStep
      <4>1. After(current) \subseteq born \union {ListHead} /\ Self \in born
        BY DEF After, MachineInv, QueryInv
      <4>2. QED
        BY <3>1, <4>1 DEF SectionStep, EndSection, QueryInv
    <3>2. CASE DirectoryStep \/ DirectoryDone
      BY <3>2 DEF DirectoryStep, DirectoryDone, EndDirectory, QueryInv
    <3>3. CASE PoolSnapshot \/ PoolDone \/ PoolException
      BY <3>3 DEF PoolSnapshot, PoolDone, PoolException, ResidualsDone, QueryInv
    <3>4. CASE PoolStep
      <4>1. /\ current' = current /\ blocks' \subseteq blocks
            /\ cursor' = cursor \/ cursor' = cursor + 1
        BY <3>4 DEF PoolStep
      <4>2. QED
        BY <4>1 DEF QueryInv
    <3>5. CASE ReplyModules
      BY <3>5 DEF ReplyModules, scan, QueryInv
    <3>6. QED
      BY <1>3, <3>1, <3>2, <3>3, <3>4, <3>5 DEF ModuleQuery
  <2>4. /\ response'.entries \in Seq(BornEntry)
        /\ response'.status = "failed" => response'.entries = <<>>
        /\ pc' # "returned" => response' = NoResponse
        /\ pc' = "returned" /\ response'.status = "success" =>
             response'.entries = entries' /\ response'.counts = counts'
    <3>1. CASE ReplyModules
      BY <3>1 DEF ReplyModules, QueryInv
    <3>2. CASE DirectoryDone /\ FailQuery
      BY <1>0, <3>2, FailedResponse DEF FailQuery
    <3>3. CASE UNCHANGED response /\ pc # "returned" /\ pc' # "returned"
      BY <3>3 DEF QueryInv
    <3>4. QED
      BY <1>3, <3>1, <3>2, <3>3 DEF ModuleQuery, SectionStep, EndSection, DirectoryStep,
         DirectoryDone, EndDirectory, PoolSnapshot, PoolStep, PoolDone, PoolException,
         ResidualsDone
  <2>5. QED
    BY <2>1, <2>2, <2>3, <2>4 DEF QueryInv, machine
<1>4. CASE Machine
  <2>1. UNCHANGED driverVars /\ born \subseteq born'
    BY <1>4 DEF Machine, Load, Unlink, Unload
  <2>2. listed' \subseteq linked'
    BY <1>4 DEF Machine, Load, Unlink, Unload, QueryInv, history
  <2>3. Seq(BornEntry) \subseteq Seq(BornEntry')
    <3>1. BornEntry \subseteq BornEntry'
      BY <2>1 DEF BornEntry
    <3>2. QED
      BY <3>1, SeqMonotonic
  <2>4. QED
    BY <2>1, <2>2, <2>3 DEF QueryInv, driverVars, scan
<1>5. QED
  BY <1>1, <1>2, <1>3, <1>4 DEF ModuleNext

LEMMA QueryInit == ModuleInit => QueryInv
<1>. SUFFICES ASSUME ModuleInit PROVE QueryInv
  OBVIOUS
<1>1. MachineInv
  BY MachineInit
<1>2. <<>> \in Seq(BornEntry) /\ Len(<<>>) = 0
  BY EmptySeq
<1>3. /\ current = Self /\ cursor = 0 /\ blocks = {} /\ entries = <<>> /\ listed = {}
      /\ response = NoResponse /\ pc = "idle"
  BY DEF ModuleInit
<1>4. QED
  BY <1>1, <1>2, <1>3, ModuleLimits DEF QueryInv, MachineInv, NoResponse

-----------------------------------------------------------------------------
(* The driver objects that View B found.                                   *)

Found(m) == SameModule(m, ObjectModule(m).name)

Owners(f) ==
  /\ \A i, j \in OfView("driverobj") : f[i] = f[j] => i = j
  /\ \A i \in OfView("driverobj") : i \in Found(f[i])

\* While nothing left the directory, each entry of View B has a driver object
\* of its own to which it belongs.
ObjectsInv ==
  /\ pc \in {"idle", "section"} => OfView("driverobj") = {}
  /\ ~shifted => \E f \in [OfView("driverobj") -> Objects] : Owners(f)

LEMMA NoOwners ==
  ASSUME OfView("driverobj")' = {}
  PROVE  \E f \in [OfView("driverobj")' -> Objects'] : Owners(f)'
<1>. DEFINE f == [x \in {} |-> {}]
<1>1. f \in [{} -> Objects']
  OBVIOUS
<1>. HIDE DEF f
<1>2. Owners(f)'
  BY DEF Owners
<1>3. QED
  BY <1>1, <1>2

\* A module belongs to one entry, if any.
LEMMA FoundOnce ==
  ASSUME OneEntryPerModule, NEW m, NEW i \in Found(m), NEW j \in Found(m)
  PROVE  i = j
BY DEF OneEntryPerModule, Found, SameModule, WithBase, WithName

\* It goes on belonging to it, unless an entry with its base comes up.
LEMMA FoundStays ==
  ASSUME SameEntries, Len(entries) \in Nat, Len(entries') \in Nat, NEW m,
         \A j \in 1..Len(entries') : entries'[j].base = m => j \in 1..Len(entries),
         NEW i \in Found(m)
  PROVE  i \in Found(m)'
<1>1. WithBase(m)' = WithBase(m)
  BY DEF WithBase, SameEntries
<1>2. i \in WithBase(m) \/ (WithBase(m) = {} /\ i \in WithName(ObjectModule(m).name))
  BY DEF Found, SameModule
<1>3. WithName(ObjectModule(m).name) \subseteq WithName(ObjectModule(m).name)'
  BY DEF WithName, SameEntries, ObjectModule
<1>4. Found(m)' = IF WithBase(m)' # {} THEN WithBase(m)'
                    ELSE WithName(ObjectModule(m).name)'
  BY DEF Found, SameModule, ObjectModule
<1>5. QED
  BY <1>1, <1>2, <1>3, <1>4

\* A step that adds nothing to View B keeps the owners.
LEMMA OwnersStay ==
  ASSUME ObjectsInv, SameEntries, Len(entries) \in Nat, Len(entries') \in Nat,
         OfView("driverobj")' = OfView("driverobj"), Objects \subseteq Objects',
         ~shifted, Objects \subseteq Mods,
         \A j \in 1..Len(entries') : entries'[j].base \in Mods => j \in 1..Len(entries)
  PROVE  \E f \in [OfView("driverobj")' -> Objects'] : Owners(f)'
<1>1. PICK f \in [OfView("driverobj") -> Objects] : Owners(f)
  BY DEF ObjectsInv
<1>2. f \in [OfView("driverobj")' -> Objects']
  BY <1>1
<1>3. ASSUME NEW i \in OfView("driverobj") PROVE i \in Found(f[i])'
  <2>1. i \in Found(f[i]) /\ f[i] \in Mods
    BY <1>1 DEF Owners
  <2>2. PICK m \in Mods : m = f[i]
    BY <2>1
  <2>3. i \in Found(m)'
    BY <2>1, <2>2, FoundStays
  <2>4. QED
    BY <2>2, <2>3
<1>4. Owners(f)'
  BY <1>1, <1>3 DEF Owners
<1>5. QED
  BY <1>2, <1>4

\* View B gives the entry that it adds to, or adds, its object.
LEMMA OwnerComes ==
  ASSUME ObjectsInv, OneEntryPerModule, SameEntries, Len(entries) \in Nat, Len(entries') \in Nat,
         Objects' = Objects, Objects \subseteq Mods, ~shifted,
         NEW m \in Objects, NEW i \in 1..Len(entries'),
         OfView("driverobj")' = OfView("driverobj") \union {i},
         i \notin OfView("driverobj"), i \in Found(m)',
         \A j \in Found(m) : j = i,
         \A j \in 1..Len(entries') : entries'[j].base \in Mods \ {m} => j \in 1..Len(entries),
         \/ Len(entries') = Len(entries)
         \/ Found(m) = {}
  PROVE  \E f \in [OfView("driverobj")' -> Objects'] : Owners(f)'
<1>1. PICK f \in [OfView("driverobj") -> Objects] : Owners(f)
  BY DEF ObjectsInv
<1>2. PICK old : old = OfView("driverobj")
  OBVIOUS
<1>. DEFINE g == [j \in old \union {i} |-> IF j = i THEN m ELSE f[j]]
<1>3. /\ g \in [old \union {i} -> Objects] /\ g[i] = m
      /\ \A j \in old : g[j] = f[j]
  BY <1>1, <1>2
<1>. HIDE DEF g
<1>4. \A j \in old : j \in Found(f[j]) /\ f[j] # m /\ f[j] \in Mods
  BY <1>1, <1>2 DEF Owners
<1>5. ASSUME NEW j \in old PROVE j \in Found(g[j])'
  <2>1. PICK n \in Mods \ {m} : n = f[j]
    BY <1>4
  <2>2. j \in Found(n)
    BY <1>4, <2>1
  <2>3. \A k \in 1..Len(entries') : entries'[k].base = n => k \in 1..Len(entries)
    BY <2>1
  <2>4. j \in Found(n)'
    BY <2>2, <2>3, FoundStays
  <2>5. QED
    BY <1>3, <2>1, <2>4
<1>6. \A j, k \in old \union {i} : g[j] = g[k] => j = k
  BY <1>1, <1>2, <1>3, <1>4 DEF Owners
<1>7. Owners(g)'
  <2>1. OfView("driverobj")' = old \union {i}
    BY <1>2
  <2>2. \A j \in old \union {i} : j \in Found(g[j])'
    BY <1>3, <1>5
  <2>3. QED
    BY <1>6, <2>1, <2>2 DEF Owners
<1>8. QED
  BY <1>2, <1>3, <1>7

LEMMA ObjectsInvStep ==
  ASSUME MachineInv, AccInv, QueryInv, ObjectsInv, [ModuleNext]_moduleVars
  PROVE  ObjectsInv'
<1>1. CASE BeginModuleQuery
  <2>1. OfView("driverobj")' = {}
    <3>1. entries' = <<>> /\ Len(<<>>) = 0
      BY <1>1 DEF BeginModuleQuery, InitModuleAccumulator
    <3>2. QED
      BY <3>1 DEF OfView
  <2>2. QED
    BY <2>1, NoOwners DEF ObjectsInv
<1>2. /\ Len(entries) \in Nat /\ Objects \subseteq Mods /\ OneEntryPerModule
  <2>1. directory \in Seq(born) /\ born \subseteq Mods
    BY DEF MachineInv
  <2>2. Objects \subseteq Mods
    BY <2>1, ElementOfSeq DEF Objects, EntriesOf
  <2>3. QED
    BY <2>2, LenProperties DEF QueryInv, AccInv
<1>3. CASE ModuleQuery
  <2>1. /\ Adds /\ SameEntries /\ Len(entries') \in Nat /\ Objects' = Objects
        /\ shifted' = shifted
    <3>1. Adds /\ SameEntries /\ entries' \in Seq(BornEntry) /\ directory' = directory
      BY <1>3, QueryAdds DEF machine
    <3>2. Len(entries') \in Nat
      BY <3>1, LenProperties
    <3>3. shifted' = shifted
      BY <1>3, QueryHistory
    <3>4. QED
      BY <3>1, <3>2, <3>3 DEF Objects, EntriesOf
  <2>2. pc' \in {"idle", "section"} => pc = "section"
    BY <1>3 DEF ModuleQuery, SectionStep, EndSection, DirectoryStep, EndDirectory, DirectoryDone,
       FailQuery, PoolSnapshot, ResidualsDone, PoolStep, PoolDone, PoolException, ReplyModules
  <2>3. ASSUME OfView("driverobj")' = OfView("driverobj"),
               \A j \in 1..Len(entries') : entries'[j].base \in Mods => j \in 1..Len(entries)
        PROVE  ObjectsInv'
    <3>1. pc' \in {"idle", "section"} => OfView("driverobj")' = {}
      BY <2>2, <2>3 DEF ObjectsInv
    <3>2. ~shifted' => \E f \in [OfView("driverobj")' -> Objects'] : Owners(f)'
      BY <1>2, <2>1, <2>3, OwnersStay
    <3>3. QED
      BY <3>1, <3>2 DEF ObjectsInv
  <2>4. CASE UNCHANGED <<entries, counts>>
    BY <2>3, <2>4 DEF OfView
  <2>5. ASSUME NEW i \in 1..Len(entries), NEW view \in Views \ {"driverobj"}, Merged(i, view)
        PROVE  ObjectsInv'
    <3>1. OfView("driverobj")' = OfView("driverobj")
      BY <2>5 DEF Merged, OfView, Views
    <3>2. QED
      BY <2>3, <2>5, <3>1 DEF Merged
  <2>6. CASE pc = "section" /\ current \in Mods /\ AddsAs("section", current, NameOf[current])
    <3>1. CASE Appended(current, NameOf[current], "section")
      <4>1. OfView("driverobj") = {}
        BY <2>6 DEF ObjectsInv
      <4>2. OfView("driverobj")' = {}
        BY <1>2, <2>1, <3>1, <4>1 DEF Appended, OfView, SameEntries
      <4>3. QED
        BY <4>2, NoOwners DEF ObjectsInv
    <3>2. QED
      BY <2>4, <2>5, <2>6, <3>1 DEF AddsAs, Views
  <2>7. CASE \E b \in blocks : pc = "pool" /\ AddsAs("residual", b, TagName[b])
    <3>1. PICK b \in blocks : AddsAs("residual", b, TagName[b])
      BY <2>7
    <3>2. CASE Appended(b, TagName[b], "residual")
      <4>1. b \notin Mods
        BY ModuleAddresses DEF QueryInv
      <4>2. /\ OfView("driverobj")' = OfView("driverobj")
            /\ \A j \in 1..Len(entries') : entries'[j].base \in Mods => j \in 1..Len(entries)
        BY <1>2, <2>1, <3>2, <4>1 DEF Appended, OfView, SameEntries
      <4>3. QED
        BY <2>3, <4>2
    <3>3. QED
      BY <2>4, <2>5, <3>1, <3>2 DEF AddsAs, Views
  <2>8. CASE \E m \in Objects : pc = "directory" /\ AddsAs("driverobj", m, ObjectModule(m).name)
    <3>1. PICK m \in Objects : pc = "directory" /\ AddsAs("driverobj", m, ObjectModule(m).name)
      BY <2>8
    <3>2. pc' \notin {"idle", "section"}
      BY <2>2, <3>1
    <3>3. CASE \E i \in Found(m) : i \in 1..Len(entries) /\ Merged(i, "driverobj")
      <4>1. PICK i \in Found(m) : i \in 1..Len(entries) /\ Merged(i, "driverobj")
        BY <3>3
      <4>2. /\ OfView("driverobj")' = OfView("driverobj") \union {i}
            /\ 1..Len(entries') = 1..Len(entries)
        BY <4>1 DEF Merged, OfView
      <4>3. CASE i \in OfView("driverobj")
        BY <2>3, <4>2, <4>3
      <4>4. CASE i \notin OfView("driverobj")
        <5>1. i \in Found(m)'
          BY <1>2, <2>1, <4>1, <4>2, FoundStays
        <5>2. \A j \in Found(m) : j = i
          BY <1>2, <4>1, FoundOnce
        <5>3. Len(entries') = Len(entries) /\ i \in 1..Len(entries')
          BY <4>1 DEF Merged
        <5>4. ~shifted => \E f \in [OfView("driverobj")' -> Objects'] : Owners(f)'
          BY <1>2, <2>1, <4>2, <4>4, <5>1, <5>2, <5>3, OwnerComes
        <5>5. QED
          BY <2>1, <3>2, <5>4 DEF ObjectsInv
      <4>5. QED
        BY <4>3, <4>4
    <3>4. CASE Found(m) = {} /\ Appended(m, ObjectModule(m).name, "driverobj")
      <4>1. PICK i \in Nat : i = Len(entries) + 1
        BY <1>2
      <4>2. /\ OfView("driverobj")' = OfView("driverobj") \union {i}
            /\ i \notin OfView("driverobj") /\ i \in 1..Len(entries')
            /\ entries'[i].base = m
            /\ \A j \in 1..Len(entries') : j # i => j \in 1..Len(entries)
        BY <1>2, <2>1, <3>4, <4>1 DEF Appended, OfView, SameEntries
      <4>3. i \in Found(m)'
        <5>1. i \in WithBase(m)'
          BY <4>2 DEF WithBase
        <5>2. QED
          BY <5>1 DEF Found, SameModule, ObjectModule
      <4>4. ~shifted => \E f \in [OfView("driverobj")' -> Objects'] : Owners(f)'
        BY <1>2, <2>1, <3>4, <4>2, <4>3, OwnerComes
      <4>5. QED
        BY <2>1, <3>2, <4>4 DEF ObjectsInv
    <3>5. QED
      BY <2>4, <3>1, <3>3, <3>4 DEF AddsAs, Found
  <2>9. QED
    BY <2>1, <2>4, <2>6, <2>7, <2>8 DEF Adds
<1>4. CASE Machine \/ UNCHANGED moduleVars
  <2>1. UNCHANGED <<entries, pc>>
    BY <1>4 DEF Machine, moduleVars, driverVars
  <2>2. ~shifted' => ~shifted /\ Objects \subseteq Objects'
    <3>1. CASE UNCHANGED <<directory, shifted>>
      BY <3>1 DEF Objects, EntriesOf
    <3>2. CASE \E m \in Mods : Load(m)
      <4>1. shifted' = shifted
        BY <3>2 DEF Load, history
      <4>2. QED
        BY <3>2, <4>1, DirectoryStepType
    <3>3. QED
      BY <1>4, <3>1, <3>2 DEF Machine, Unlink, Unload, moduleVars, machine, history
  <2>3. SameEntries /\ OfView("driverobj")' = OfView("driverobj")
    BY <1>2, <2>1 DEF SameEntries, OfView
  <2>4. ~shifted' => \E f \in [OfView("driverobj")' -> Objects'] : Owners(f)'
    BY <1>2, <2>1, <2>2, <2>3, OwnersStay
  <2>5. QED
    BY <2>1, <2>3, <2>4 DEF ObjectsInv
<1>5. QED
  BY <1>1, <1>3, <1>4 DEF ModuleNext

-----------------------------------------------------------------------------
(* The walk of View A.                                                     *)

\* Where the walk has been when it is at the node n: from this driver's own
\* entry up to n, past the head.
Passed(pos, n, x) ==
  IF At(pos, n) >= pos[Self]
    THEN pos[Self] <= At(pos, x) /\ At(pos, x) < At(pos, n)
    ELSE pos[Self] <= At(pos, x) \/ At(pos, x) < At(pos, n)

PassedNodes(nodes, pos, n) == {x \in nodes \union {ListHead} : Passed(pos, n, x)}

LEMMA WalkStarts ==
  ASSUME NEW nodes, NEW link, NEW pos, RingOf(nodes, link, pos), Self \in nodes
  PROVE  PassedNodes(nodes, pos, Self) = {}
<1>1. pos[Self] \in Nat /\ At(pos, Self) = pos[Self]
      /\ \A x \in nodes \union {ListHead} : At(pos, x) \in Nat
  BY RingPlaces
<1>2. QED
  BY <1>1 DEF PassedNodes, Passed

\* A step of the walk passes the node that it was at.
LEMMA WalkGoesOn ==
  ASSUME NEW nodes, NEW link, NEW pos, RingOf(nodes, link, pos), Self \in nodes,
         NEW n \in nodes \union {ListHead}, NEW next, next = link[n], next # Self
  PROVE  /\ next \in nodes \union {ListHead}
         /\ PassedNodes(nodes, pos, next) = PassedNodes(nodes, pos, n) \union {n}
<1>1. /\ \A z \in nodes : /\ pos[z] \in Nat /\ pos[z] > 0 /\ z # ListHead
                          /\ At(pos, z) = pos[z]
      /\ \A x \in nodes \union {ListHead} : At(pos, x) \in Nat
      /\ At(pos, ListHead) = 0
      /\ \A x, y \in nodes \union {ListHead} : At(pos, x) = At(pos, y) => x = y
  BY RingPlaces
<1>2. Follows(nodes, pos, n, next)
  BY DEF RingOf
<1>3. next \in nodes \union {ListHead}
  BY <1>2 DEF Follows
<1>4. ASSUME NEW x \in nodes \union {ListHead}
      PROVE  Passed(pos, next, x) <=> Passed(pos, n, x) \/ x = n
  <2>1. CASE next = ListHead
    <3>1. \A z \in nodes : pos[z] <= At(pos, n)
      BY <1>2, <2>1 DEF Follows
    <3>2. pos[Self] <= At(pos, n) /\ At(pos, x) <= At(pos, n) /\ At(pos, next) = 0
      BY <1>1, <2>1, <3>1
    <3>3. Passed(pos, next, x) <=> pos[Self] <= At(pos, x)
      BY <1>1, <3>2 DEF Passed
    <3>4. Passed(pos, n, x) <=> pos[Self] <= At(pos, x) /\ At(pos, x) < At(pos, n)
      BY <3>2 DEF Passed
    <3>5. At(pos, x) = At(pos, n) \/ At(pos, x) < At(pos, n)
      BY <1>1, <3>2
    <3>6. QED
      BY <1>1, <3>2, <3>3, <3>4, <3>5
  <2>2. CASE next # ListHead
    <3>1. /\ next \in nodes /\ At(pos, n) < pos[next] /\ At(pos, next) = pos[next]
          /\ \A z \in nodes : ~(At(pos, n) < pos[z] /\ pos[z] < pos[next])
      BY <1>1, <1>2, <2>2 DEF Follows
    <3>2. At(pos, x) < pos[next] <=> At(pos, x) < At(pos, n) \/ x = n
      BY <1>1, <3>1
    <3>3. CASE At(pos, n) >= pos[Self]
      <4>1. pos[next] >= pos[Self]
        BY <1>1, <3>1, <3>3
      <4>2. Passed(pos, next, x) <=> pos[Self] <= At(pos, x) /\ At(pos, x) < pos[next]
        BY <3>1, <4>1 DEF Passed
      <4>3. Passed(pos, n, x) <=> pos[Self] <= At(pos, x) /\ At(pos, x) < At(pos, n)
        BY <3>3 DEF Passed
      <4>4. QED
        BY <3>2, <3>3, <4>2, <4>3
    <3>4. CASE ~(At(pos, n) >= pos[Self])
      <4>1. ~(pos[next] >= pos[Self])
        BY <1>1, <3>1, <3>4
      <4>2. Passed(pos, next, x) <=> pos[Self] <= At(pos, x) \/ At(pos, x) < pos[next]
        BY <3>1, <4>1 DEF Passed
      <4>3. Passed(pos, n, x) <=> pos[Self] <= At(pos, x) \/ At(pos, x) < At(pos, n)
        BY <3>4 DEF Passed
      <4>4. QED
        BY <3>2, <4>2, <4>3
    <3>5. QED
      BY <3>3, <3>4
  <2>3. QED
    BY <2>1, <2>2
<1>5. QED
  BY <1>3, <1>4 DEF PassedNodes

\* The node that it is at the walk has not passed.
LEMMA WalkIsNotThere ==
  ASSUME NEW nodes, NEW link, NEW pos, RingOf(nodes, link, pos), Self \in nodes,
         NEW n \in nodes \union {ListHead}
  PROVE  n \notin PassedNodes(nodes, pos, n)
<1>1. pos[Self] \in Nat /\ At(pos, n) \in Nat
  BY RingPlaces
<1>2. QED
  BY <1>1 DEF PassedNodes, Passed

\* Back at this driver's entry, the walk has been everywhere.
LEMMA WalkGoesRound ==
  ASSUME NEW nodes, NEW link, NEW pos, RingOf(nodes, link, pos), Self \in nodes,
         NEW n \in nodes \union {ListHead}, link[n] = Self, NEW m \in nodes
  PROVE  m = n \/ Passed(pos, n, m)
<1>1. /\ \A z \in nodes : pos[z] \in Nat /\ z # ListHead /\ At(pos, z) = pos[z]
      /\ At(pos, n) \in Nat
      /\ \A x, y \in nodes \union {ListHead} : At(pos, x) = At(pos, y) => x = y
  BY RingPlaces
<1>2. Follows(nodes, pos, n, Self) /\ Self # ListHead
  BY ModuleLimits DEF RingOf
<1>3. /\ At(pos, n) < pos[Self]
      /\ ~(At(pos, n) < pos[m] /\ pos[m] < pos[Self])
  BY <1>2 DEF Follows
<1>4. Passed(pos, n, m) <=> pos[Self] <= pos[m] \/ pos[m] < At(pos, n)
  BY <1>1, <1>3 DEF Passed
<1>5. At(pos, n) = pos[m] => m = n
  BY <1>1
<1>6. QED
  BY <1>1, <1>3, <1>4, <1>5

WalkExcused(m) ==
  \/ Alike(m) # {} \/ diverted
  \/ Cardinality(born) >= 2 * MaxEntries \/ Len(entries) = MaxEntries
  \/ <<"section", m>> \in unnamed

Sectioned(m) == \E i \in WithBase(m) : "section" \in entries[i].views

Walked(pos) ==
  /\ \A m \in listed : Passed(pos, current, m) => WalkExcused(m) \/ Sectioned(m)
  /\ cursor <= Cardinality(PassedNodes(linked, pos, current))

\* In the course of the walk, the entries are those of View A, and the modules
\* that it has passed are among them; afterwards, all are.
WalkInv ==
  /\ pc = "section" =>
       /\ \A i \in 1..Len(entries) : /\ entries[i].base \in Mods
                                     /\ entries[i].name = NameOf[entries[i].base]
                                     /\ entries[i].views = {"section"}
       /\ ~diverted =>
            /\ current \in linked \union {ListHead}
            /\ \E pos \in [Mods -> Nat \ {0}] : Ring(pos) /\ Walked(pos)
  /\ pc \in {"directory", "bigpool", "pool", "reply"} =>
       \A m \in listed : WalkExcused(m) \/ Sectioned(m)

\* A block is in an entry of its own only if the module it is a copy of could
\* not be recognised.
CopiesInv ==
  \A i \in 1..Len(entries) : \A b \in Blocks :
    entries[i].base = b =>
      CopyOf[b] \notin listed \/ WalkExcused(CopyOf[b]) \/ b \in unread

\* What the walk has seen it has seen.
LEMMA SeenStays ==
  ASSUME SameEntries, Len(entries) \in Nat, Len(entries') \in Nat, Len(entries') <= MaxEntries,
         diverted => diverted', unnamed \subseteq unnamed',
         born \subseteq born', born' \subseteq Mods,
         NEW m, WalkExcused(m) \/ Sectioned(m)
  PROVE  /\ WalkExcused(m)' \/ Sectioned(m)'
         /\ WalkExcused(m) => WalkExcused(m)'
<1>1. Len(entries) = MaxEntries => Len(entries') = MaxEntries
  BY ModuleLimits DEF SameEntries
<1>2. Cardinality(born) >= 2 * MaxEntries => Cardinality(born') >= 2 * MaxEntries
  <2>1. IsFiniteSet(born') /\ IsFiniteSet(born)
    BY ModuleAddresses, FS_Subset
  <2>2. Cardinality(born) <= Cardinality(born')
    BY <2>1, FS_Subset
  <2>3. Cardinality(born) \in Nat /\ Cardinality(born') \in Nat /\ 2 * MaxEntries \in Nat
    BY <2>1, FS_CardinalityType, ModuleLimits
  <2>4. QED
    BY <2>2, <2>3
<1>3. Sectioned(m) => Sectioned(m)'
  BY DEF Sectioned, WithBase, SameEntries
<1>4. Alike(m)' = Alike(m)
  BY DEF Alike
<1>5. QED
  BY <1>1, <1>2, <1>3, <1>4 DEF WalkExcused

\* The node that the walk is at is in an entry with its base, unless its name
\* is another module's too or did not convert, or the accumulator is full.
LEMMA VisitSections ==
  ASSUME MachineInv, QueryInv, WalkInv, pc = "section", SectionStep,
         NEW n \in linked, n = current
  PROVE  WalkExcused(n)' \/ Sectioned(n)'
<1>0. CASE <<"section", n>> \in unnamed'
  BY <1>0 DEF WalkExcused
<1>1. n \in Mods /\ n \in born /\ n \in loaded
  BY DEF MachineInv
<1>2. \/ UNCHANGED <<entries, counts>> /\ <<"section", n>> \in unnamed'
      \/ NameOf[n] # Unknown /\ n # NoBase /\ AddModule("section", n, NameOf[n], TRUE)
  <2>1. AddNamed("section", n, n, NameOf[n], TRUE) /\ n # NoBase
    BY <1>1, ModuleAddresses DEF SectionStep, Visit
  <2>2. QED
    BY <2>1, AddNamedAdds
<1>3. NameOf[n] \in Names
  BY <1>1 DEF Names
<1>. SUFFICES ASSUME <<"section", n>> \notin unnamed'
              PROVE  WalkExcused(n)' \/ Sectioned(n)'
  BY <1>0
<1>4. /\ SameEntries /\ AddsAs("section", n, NameOf[n])
      /\ Len(entries) \in Nat /\ Len(entries') \in Nat
  BY <1>1, <1>2, <1>3, AddEffect DEF QueryInv, Views
<1>5. CASE \E i \in SameModule(n, NameOf[n]) : i \in 1..Len(entries) /\ Merged(i, "section")
  <2>1. PICK i \in SameModule(n, NameOf[n]) : i \in 1..Len(entries) /\ Merged(i, "section")
    BY <1>5
  <2>2. CASE entries[i].base = n
    <3>1. i \in 1..Len(entries') /\ entries'[i].base = n /\ "section" \in entries'[i].views
      BY <1>4, <2>1, <2>2 DEF SameEntries, Merged
    <3>2. QED
      BY <3>1 DEF Sectioned, WithBase
  <2>3. CASE entries[i].base # n
    <3>1. entries[i].name = NameOf[n]
      BY <2>1, <2>3 DEF SameModule, WithBase, WithName
    <3>2. entries[i].base \in Mods \ {n} /\ NameOf[entries[i].base] = NameOf[n]
      BY <2>1, <2>3, <3>1 DEF WalkInv
    <3>3. Alike(n) # {}
      BY <3>2 DEF Alike
    <3>4. QED
      BY <3>3 DEF WalkExcused, Alike
  <2>4. QED
    BY <2>2, <2>3
<1>6. CASE Appended(n, NameOf[n], "section")
  <2>. DEFINE i == Len(entries) + 1
  <2>1. i \in 1..Len(entries') /\ entries'[i].base = n /\ "section" \in entries'[i].views
    BY <1>4, <1>6 DEF Appended
  <2>. HIDE DEF i
  <2>2. QED
    BY <2>1 DEF Sectioned, WithBase
<1>7. CASE Len(entries) = MaxEntries /\ UNCHANGED entries
  BY <1>7 DEF WalkExcused
<1>8. QED
  BY <1>4, <1>5, <1>6, <1>7 DEF AddsAs

\* One node of the walk.
LEMMA WalkSectionStep ==
  ASSUME MachineInv, QueryInv, QueryInv', WalkInv, SectionStep
  PROVE  WalkInv'
<1>1. /\ pc = "section" /\ pc' \in {"section", "directory"}
      /\ UNCHANGED machine /\ UNCHANGED <<linked, flink, born, listed, diverted>>
      /\ unnamed \subseteq unnamed'
  <2>1. UNCHANGED <<listed, diverted>> /\ unnamed \subseteq unnamed'
    BY QueryHistory DEF ModuleQuery
  <2>2. QED
    BY <2>1 DEF SectionStep, EndSection, machine
<1>2. /\ Adds /\ SameEntries /\ Len(entries) \in Nat /\ Len(entries') \in Nat
      /\ Len(entries') <= MaxEntries
  <2>1. Adds /\ SameEntries
    BY QueryAdds DEF ModuleQuery
  <2>2. QED
    BY <2>1, LenProperties DEF QueryInv
<1>3. \A i \in 1..Len(entries') : /\ entries'[i].base \in Mods
                                  /\ entries'[i].name = NameOf[entries'[i].base]
                                  /\ entries'[i].views = {"section"}
  <2>1. \A i \in 1..Len(entries) : /\ entries[i].base \in Mods
                                   /\ entries[i].name = NameOf[entries[i].base]
                                   /\ entries[i].views = {"section"}
    BY <1>1 DEF WalkInv
  <2>2. CASE UNCHANGED <<entries, counts>>
    BY <2>1, <2>2
  <2>3. CASE \E i \in 1..Len(entries) : Merged(i, "section")
    BY <1>2, <2>1, <2>3 DEF Merged, SameEntries
  <2>4. CASE current \in Mods /\ Appended(current, NameOf[current], "section")
    <3>1. \A i \in 1..Len(entries') : i \in 1..Len(entries) \/ i = Len(entries) + 1
      BY <1>2, <2>4 DEF Appended
    <3>2. \A i \in 1..Len(entries) : /\ entries'[i].base = entries[i].base
                                     /\ entries'[i].name = entries[i].name
                                     /\ entries'[i].views = entries[i].views
      BY <2>4, <1>2 DEF Appended, SameEntries
    <3>3. QED
      BY <2>1, <2>4, <3>1, <3>2 DEF Appended
  <2>5. QED
    BY <1>1, <1>2, <2>2, <2>3, <2>4 DEF Adds, AddsAs
<1>4. \A m : WalkExcused(m) \/ Sectioned(m) => WalkExcused(m)' \/ Sectioned(m)'
  <2>. TAKE m
  <2>. HAVE WalkExcused(m) \/ Sectioned(m)
  <2>1. born' \subseteq Mods /\ born \subseteq born'
    BY <1>1 DEF MachineInv
  <2>2. QED
    BY <1>1, <1>2, <2>1, SeenStays
<1>5. CASE diverted
  BY <1>1, <1>3, <1>5 DEF WalkInv, WalkExcused
<1>6. CASE ~diverted
  <2>1. PICK pos \in [Mods -> Nat \ {0}] : Ring(pos) /\ Walked(pos)
    BY <1>1, <1>6 DEF WalkInv
  <2>2. PICK n \in linked \union {ListHead} : n = current
    BY <1>1, <1>6 DEF WalkInv
  <2>3. PICK next : next = flink[n] /\
          IF next # Self /\ cursor + 1 < 2 * MaxEntries
            THEN current' = next /\ cursor' = cursor + 1 /\ UNCHANGED pc
            ELSE pc' = "directory"
    <3>1. After(current) = {flink[n]}
      BY <2>2 DEF After, MachineInv
    <3>2. QED
      BY <3>1 DEF SectionStep, EndSection
  <2>4. RingOf(linked, flink, pos) /\ Self \in linked /\ linked \subseteq Mods
    BY <2>1 DEF Ring, MachineInv
  <2>5. ASSUME NEW m \in listed, m = n \/ Passed(pos, n, m)
        PROVE  WalkExcused(m)' \/ Sectioned(m)'
    <3>1. CASE m = n
      <4>1. n \in linked
        BY <3>1 DEF QueryInv
      <4>2. QED
        BY <1>1, <2>2, <3>1, <4>1, VisitSections
    <3>2. CASE Passed(pos, n, m)
      BY <1>4, <2>1, <2>2, <3>2 DEF Walked
    <3>3. QED
      BY <2>5, <3>1, <3>2
  <2>6. CASE next = Self
    <3>1. \A m \in listed : m = n \/ Passed(pos, n, m)
      BY <2>3, <2>4, <2>6, WalkGoesRound DEF QueryInv
    <3>2. \A m \in listed : WalkExcused(m)' \/ Sectioned(m)'
      BY <2>5, <3>1
    <3>3. QED
      BY <1>1, <2>3, <2>6, <3>2 DEF WalkInv
  <2>7. CASE next # Self
    <3>1. /\ next \in linked \union {ListHead}
          /\ PassedNodes(linked, pos, next) = PassedNodes(linked, pos, n) \union {n}
          /\ n \notin PassedNodes(linked, pos, n) /\ next \notin PassedNodes(linked, pos, next)
      <4>1. /\ next \in linked \union {ListHead}
            /\ PassedNodes(linked, pos, next) = PassedNodes(linked, pos, n) \union {n}
        BY <2>3, <2>4, <2>7, WalkGoesOn
      <4>2. QED
        BY <2>4, <4>1, WalkIsNotThere
    <3>2. PICK passed \in SUBSET (linked \union {ListHead}) :
            passed = PassedNodes(linked, pos, next)
      BY DEF PassedNodes
    <3>3. IsFiniteSet(linked) /\ IsFiniteSet(passed) /\ IsFiniteSet(PassedNodes(linked, pos, n))
      <4>1. IsFiniteSet(linked)
        BY <2>4, ModuleAddresses, FS_Subset
      <4>2. IsFiniteSet(linked \union {ListHead})
        BY <4>1, FS_AddElement
      <4>3. PassedNodes(linked, pos, n) \subseteq linked \union {ListHead}
        BY DEF PassedNodes
      <4>4. QED
        BY <4>1, <4>2, <4>3, <3>2, FS_Subset
    <3>4. cursor \in Nat /\ cursor + 1 <= Cardinality(passed) /\ Cardinality(passed) \in Nat
      <4>1. Cardinality(passed) = Cardinality(PassedNodes(linked, pos, n)) + 1
        BY <3>1, <3>2, <3>3, FS_AddElement
      <4>2. cursor <= Cardinality(PassedNodes(linked, pos, n)) /\ cursor \in Nat
        BY <2>1, <2>2 DEF Walked, QueryInv
      <4>3. Cardinality(PassedNodes(linked, pos, n)) \in Nat
        BY <3>3, FS_CardinalityType
      <4>4. QED
        BY <4>1, <4>2, <4>3
    <3>5. CASE cursor + 1 < 2 * MaxEntries
      <4>1. current' = next /\ cursor' = cursor + 1 /\ pc' = "section"
        BY <1>1, <2>3, <2>7, <3>5
      <4>2. \A m \in listed : Passed(pos, next, m) => WalkExcused(m)' \/ Sectioned(m)'
        <5>. TAKE m \in listed
        <5>. HAVE Passed(pos, next, m)
        <5>1. m \in PassedNodes(linked, pos, next)
          BY DEF PassedNodes, QueryInv
        <5>2. m = n \/ Passed(pos, n, m)
          BY <3>1, <5>1 DEF PassedNodes
        <5>3. QED
          BY <2>5, <5>2
      <4>3. Walked(pos)'
        BY <1>1, <3>2, <3>4, <4>1, <4>2 DEF Walked
      <4>4. Ring(pos)'
        BY <1>1, <2>4 DEF Ring
      <4>5. QED
        BY <1>1, <1>3, <3>1, <4>1, <4>3, <4>4 DEF WalkInv
    <3>6. CASE ~(cursor + 1 < 2 * MaxEntries)
      <4>1. Cardinality(linked) >= 2 * MaxEntries
        <5>1. Cardinality(passed \union {next}) = Cardinality(passed) + 1
          BY <3>1, <3>2, <3>3, FS_AddElement
        <5>2. passed \union {next} \subseteq linked \union {ListHead}
          BY <3>1, <3>2
        <5>3. /\ IsFiniteSet(linked \union {ListHead})
              /\ Cardinality(linked \union {ListHead}) = Cardinality(linked) + 1
          BY <2>4, <3>3, FS_AddElement, ModuleLimits
        <5>4. Cardinality(passed \union {next}) <= Cardinality(linked \union {ListHead})
          BY <5>2, <5>3, FS_Subset
        <5>5. Cardinality(linked) \in Nat
          BY <3>3, FS_CardinalityType
        <5>6. QED
          BY <3>4, <3>6, <5>1, <5>3, <5>4, <5>5, ModuleLimits
      <4>2. Cardinality(born) >= 2 * MaxEntries
        <5>1. IsFiniteSet(born) /\ linked \subseteq born
          BY ModuleAddresses, FS_Subset DEF MachineInv
        <5>2. Cardinality(linked) <= Cardinality(born)
          BY <5>1, FS_Subset
        <5>3. Cardinality(linked) \in Nat /\ Cardinality(born) \in Nat
          BY <3>3, <5>1, FS_CardinalityType
        <5>4. QED
          BY <4>1, <5>2, <5>3, ModuleLimits
      <4>3. \A m : WalkExcused(m)'
        BY <1>1, <4>2 DEF WalkExcused
      <4>4. pc' = "directory"
        BY <2>3, <3>6
      <4>5. QED
        BY <4>3, <4>4 DEF WalkInv
    <3>7. QED
      BY <3>5, <3>6
  <2>8. QED
    BY <2>6, <2>7
<1>7. QED
  BY <1>5, <1>6

\* A module that is loaded while the walk goes on comes behind it or before it,
\* but not among the nodes that it has passed.
LEMMA WalkLoads ==
  ASSUME MachineInv, QueryInv, NEW m \in Mods, Load(m), UNCHANGED driverVars,
         current \in linked \union {ListHead},
         NEW pos, Ring(pos), Walked(pos),
         \A n : WalkExcused(n) \/ Sectioned(n) => WalkExcused(n)' \/ Sectioned(n)'
  PROVE  \E pos2 \in [Mods -> Nat \ {0}] : Ring(pos2)' /\ Walked(pos2)'
<1>1. PICK q : q = At(pos, Before(ListHead))
  OBVIOUS
<1>. DEFINE pos2 == [pos EXCEPT ![m] = q + 1]
<1>2. /\ RingOf(linked', flink', pos2) /\ q \in Nat
      /\ linked' = linked \union {m} /\ m \notin linked
  BY <1>1, LoadRing
<1>3. \A x \in linked \union {ListHead} : At(pos2, x) = At(pos, x)
  BY <1>2 DEF At, Ring, RingOf
<1>4. pos2[Self] = pos[Self] /\ pos2 \in [Mods -> Nat \ {0}]
  BY <1>2 DEF MachineInv, RingOf, Ring
<1>. HIDE DEF pos2
<1>5. PICK n \in linked \union {ListHead} : n = current
  OBVIOUS
<1>6. \A x \in linked \union {ListHead} : Passed(pos2, n, x) <=> Passed(pos, n, x)
  BY <1>3, <1>4 DEF Passed
<1>7. /\ current' = current /\ cursor' = cursor /\ listed' = listed /\ listed \subseteq linked
      /\ cursor \in Nat
  BY DEF driverVars, scan, Load, history, QueryInv
<1>8. \A x \in listed : Passed(pos2, n, x) => WalkExcused(x)' \/ Sectioned(x)'
  BY <1>5, <1>6, <1>7 DEF Walked
<1>9. cursor <= Cardinality(PassedNodes(linked', pos2, n))
  <2>1. PassedNodes(linked, pos, n) \subseteq PassedNodes(linked', pos2, n)
    BY <1>2, <1>6 DEF PassedNodes
  <2>2. IsFiniteSet(PassedNodes(linked', pos2, n))
    <3>1. linked' \subseteq Mods
      BY <1>2 DEF RingOf
    <3>2. IsFiniteSet(linked')
      BY <3>1, ModuleAddresses, FS_Subset
    <3>3. IsFiniteSet(linked' \union {ListHead})
      BY <3>2, FS_AddElement
    <3>4. PassedNodes(linked', pos2, n) \subseteq linked' \union {ListHead}
      BY DEF PassedNodes
    <3>5. QED
      BY <3>3, <3>4, FS_Subset
  <2>3. /\ IsFiniteSet(PassedNodes(linked, pos, n))
        /\ Cardinality(PassedNodes(linked, pos, n)) <= Cardinality(PassedNodes(linked', pos2, n))
    BY <2>1, <2>2, FS_Subset
  <2>4. /\ Cardinality(PassedNodes(linked, pos, n)) \in Nat
        /\ Cardinality(PassedNodes(linked', pos2, n)) \in Nat
    BY <2>2, <2>3, FS_CardinalityType
  <2>5. cursor <= Cardinality(PassedNodes(linked, pos, n))
    BY <1>5 DEF Walked
  <2>6. QED
    BY <1>7, <2>3, <2>4, <2>5
<1>10. Walked(pos2)'
  BY <1>5, <1>7, <1>8, <1>9 DEF Walked
<1>11. Ring(pos2)'
  BY <1>2 DEF Ring
<1>12. QED
  BY <1>4, <1>10, <1>11

\* What a step of the machine does to the history of a query.
LEMMA MachineHistory ==
  ASSUME Machine \/ UNCHANGED moduleVars
  PROVE  /\ UNCHANGED <<entries, pc, current>> /\ born \subseteq born'
         /\ diverted => diverted'
         /\ listed' \subseteq listed /\ UNCHANGED <<unread, unnamed>>
<1>1. CASE UNCHANGED moduleVars
  BY <1>1 DEF moduleVars, machine, driverVars, scan, history
<1>2. ASSUME NEW m \in Mods, Load(m) \/ Unlink(m) \/ Unload(m)
      PROVE  /\ born \subseteq born' /\ (diverted => diverted')
             /\ listed' \subseteq listed /\ UNCHANGED <<unread, unnamed>>
  <2>1. CASE Load(m)
    BY <2>1 DEF Load, history
  <2>2. CASE Unlink(m) \/ Unload(m)
    <3>1. diverted' = (diverted \/ pc = "section")
      BY <2>2 DEF Unlink, Unload
    <3>2. born' = born /\ listed' = listed \ {m} /\ UNCHANGED <<unread, unnamed>>
      BY <2>2 DEF Unlink, Unload
    <3>3. QED
      BY <3>1, <3>2
  <2>3. QED
    BY <1>2, <2>1, <2>2
<1>3. CASE Machine
  BY <1>2, <1>3 DEF Machine, driverVars, scan
<1>4. QED
  BY <1>1, <1>3

LEMMA WalkInvStep ==
  ASSUME MachineInv, MachineInv', QueryInv, QueryInv', WalkInv, [ModuleNext]_moduleVars
  PROVE  WalkInv'
<1>1. CASE BeginModuleQuery
  <2>1. /\ entries' = <<>> /\ current' = Self /\ cursor' = 0 /\ pc' \in {"section", "returned"}
        /\ Len(<<>>) = 0
    BY <1>1 DEF BeginModuleQuery, InitModuleAccumulator, FailQuery
  <2>2. PICK pos \in [Mods -> Nat \ {0}] : Ring(pos)'
    BY DEF MachineInv
  <2>3. PassedNodes(linked', pos, Self) = {}
    BY <2>2, WalkStarts DEF Ring, MachineInv
  <2>4. \A x \in linked' : ~Passed(pos, Self, x)
    BY <2>3 DEF PassedNodes
  <2>5. Walked(pos)'
    BY <2>1, <2>3, <2>4, FS_EmptySet DEF Walked, QueryInv
  <2>6. QED
    BY <2>1, <2>2, <2>5 DEF WalkInv, MachineInv
<1>2. ASSUME NEW m, SameEntries, diverted => diverted', born \subseteq born',
             unnamed \subseteq unnamed',
             WalkExcused(m) \/ Sectioned(m)
      PROVE  WalkExcused(m)' \/ Sectioned(m)'
  <2>1. Len(entries) \in Nat /\ Len(entries') \in Nat /\ Len(entries') <= MaxEntries
    BY LenProperties DEF QueryInv
  <2>2. born' \subseteq Mods
    BY DEF MachineInv
  <2>3. QED
    BY <1>2, <2>1, <2>2, SeenStays
<1>3. CASE SectionStep
  BY <1>3, WalkSectionStep
<1>4. CASE ModuleQuery /\ ~SectionStep
  <2>1. SameEntries /\ UNCHANGED machine
    BY <1>4, QueryAdds
  <2>2. /\ pc \in {"directory", "bigpool", "pool", "reply"} /\ pc' # "section"
        /\ UNCHANGED <<listed, diverted>> /\ unnamed \subseteq unnamed'
    <3>1. pc \in {"directory", "bigpool", "pool", "reply"} /\ pc' # "section"
      BY <1>4 DEF ModuleQuery, DirectoryStep, EndDirectory, DirectoryDone, FailQuery,
         PoolSnapshot, PoolStep, PoolDone, PoolException, ResidualsDone, ReplyModules
    <3>2. QED
      BY <1>4, <3>1, QueryHistory
  <2>3. \A m \in listed : WalkExcused(m)' \/ Sectioned(m)'
    BY <1>2, <2>1, <2>2 DEF WalkInv, machine
  <2>4. QED
    BY <2>2, <2>3 DEF WalkInv
<1>5. CASE Machine
  <2>1. UNCHANGED <<entries, pc, current>> /\ born \subseteq born' /\ (diverted => diverted')
        /\ listed' \subseteq listed /\ unnamed \subseteq unnamed'
    BY <1>5, MachineHistory
  <2>2. SameEntries
    BY <2>1, LenProperties DEF SameEntries, QueryInv
  <2>3. \A m : WalkExcused(m) \/ Sectioned(m) => WalkExcused(m)' \/ Sectioned(m)'
    BY <1>2, <2>1, <2>2
  <2>4. pc \in {"directory", "bigpool", "pool", "reply"} =>
          \A m \in listed' : WalkExcused(m)' \/ Sectioned(m)'
    BY <2>1, <2>3 DEF WalkInv
  <2>5. ASSUME pc = "section", ~diverted'
        PROVE  /\ current' \in linked' \union {ListHead}
               /\ \E pos \in [Mods -> Nat \ {0}] : Ring(pos)' /\ Walked(pos)'
    <3>1. ~diverted
      BY <2>1, <2>5
    <3>2. PICK m \in Mods : Load(m) /\ UNCHANGED driverVars
      BY <1>5, <2>5 DEF Machine, Unlink, Unload
    <3>3. /\ current \in linked \union {ListHead}
          /\ \E pos \in [Mods -> Nat \ {0}] : Ring(pos) /\ Walked(pos)
      BY <2>5, <3>1 DEF WalkInv
    <3>4. PICK pos \in [Mods -> Nat \ {0}] : Ring(pos) /\ Walked(pos)
      BY <3>3
    <3>5. linked \subseteq linked'
      BY <3>2 DEF Load
    <3>6. QED
      BY <2>1, <2>3, <3>2, <3>3, <3>4, <3>5, WalkLoads
  <2>6. QED
    BY <2>1, <2>4, <2>5 DEF WalkInv
<1>6. CASE UNCHANGED moduleVars
  <2>1. UNCHANGED <<machine, entries, pc, current, cursor, listed, diverted, unnamed>>
    BY <1>6 DEF moduleVars, driverVars, scan, history
  <2>2. \A m : WalkExcused(m)' = WalkExcused(m) /\ Sectioned(m)' = Sectioned(m)
    BY <2>1 DEF WalkExcused, Alike, Sectioned, WithBase, machine
  <2>3. \A pos : Ring(pos)' = Ring(pos) /\ Walked(pos)' = Walked(pos)
    BY <2>1, <2>2 DEF Ring, Walked, machine
  <2>4. QED
    BY <2>1, <2>2, <2>3 DEF WalkInv, machine
<1>7. QED
  BY <1>1, <1>3, <1>4, <1>5, <1>6 DEF ModuleNext

LEMMA CopiesInvStep ==
  ASSUME MachineInv, MachineInv', QueryInv, QueryInv', WalkInv, CopiesInv,
         [ModuleNext]_moduleVars
  PROVE  CopiesInv'
<1>1. CASE BeginModuleQuery
  <2>1. entries' = <<>> /\ Len(<<>>) = 0
    BY <1>1 DEF BeginModuleQuery, InitModuleAccumulator
  <2>2. QED
    BY <2>1 DEF CopiesInv
<1>2. /\ Len(entries) \in Nat /\ Len(entries') \in Nat /\ Len(entries') <= MaxEntries
      /\ born' \subseteq Mods
  BY LenProperties DEF QueryInv, MachineInv
<1>3. ASSUME SameEntries, diverted => diverted', born \subseteq born', listed' \subseteq listed,
             unread \subseteq unread', unnamed \subseteq unnamed',
             NEW i \in 1..Len(entries), NEW b \in Blocks, entries'[i].base = b
      PROVE  CopyOf[b] \notin listed' \/ WalkExcused(CopyOf[b])' \/ b \in unread'
  <2>1. entries[i].base = b
    BY <1>3 DEF SameEntries
  <2>2. CopyOf[b] \notin listed \/ WalkExcused(CopyOf[b]) \/ b \in unread
    BY <2>1 DEF CopiesInv
  <2>3. WalkExcused(CopyOf[b]) => WalkExcused(CopyOf[b])'
    BY <1>2, <1>3, SeenStays
  <2>4. QED
    BY <1>3, <2>2, <2>3
<1>4. CASE ModuleQuery
  <2>1. SameEntries /\ UNCHANGED machine /\ Adds
    BY <1>4, QueryAdds
  <2>2. /\ UNCHANGED <<listed, diverted, born>>
        /\ unread \subseteq unread' /\ unnamed \subseteq unnamed'
    <3>1. unread \subseteq unread'
      BY <1>4 DEF ModuleQuery, SectionStep, DirectoryStep, DirectoryDone, PoolSnapshot,
         PoolStep, PoolDone, PoolException, ReplyModules, history
    <3>2. QED
      BY <1>4, <2>1, <3>1, QueryHistory DEF machine
  <2>3. ASSUME NEW i \in 1..Len(entries), NEW b \in Blocks, entries'[i].base = b
        PROVE  CopyOf[b] \notin listed' \/ WalkExcused(CopyOf[b])' \/ b \in unread'
    BY <1>3, <2>1, <2>2, <2>3
  <2>4. ASSUME NEW i \in 1..Len(entries'), i \notin 1..Len(entries),
               NEW c \in Blocks, entries'[i].base = c
        PROVE  CopyOf[c] \notin listed' \/ WalkExcused(CopyOf[c])' \/ c \in unread'
    <3>1. pc = "pool"
      <4>1. ASSUME NEW base \in Mods, NEW name, NEW view, AddsAs(view, base, name)
            PROVE  FALSE
        <5>1. Len(entries') # Len(entries) /\ entries'[i].base = base
          BY <1>2, <2>4, <4>1 DEF AddsAs, Merged, Appended
        <5>2. QED
          BY <2>4, <5>1, ModuleAddresses
      <4>2. Objects \subseteq Mods
        <5>1. directory \in Seq(born) /\ born \subseteq Mods
          BY DEF MachineInv
        <5>2. QED
          BY <5>1, ElementOfSeq DEF Objects, EntriesOf
      <4>3. ~UNCHANGED <<entries, counts>>
        BY <2>4
      <4>4. QED
        BY <2>1, <4>1, <4>2, <4>3 DEF Adds
    <3>2. PoolStep
      BY <1>4, <2>4, <3>1 DEF ModuleQuery, SectionStep, DirectoryStep, DirectoryDone,
         PoolSnapshot, PoolDone, PoolException, ReplyModules
    <3>3. PICK b \in blocks :
            /\ unread' = IF IsBigPoolDuplicateOfKnownModule(b)
                           THEN unread \union {b} ELSE unread
            /\ AddModule("residual", b, TagName[b], TRUE)
            /\ b # NoBase /\ TagName[b] # Unknown
      BY <2>4, <3>2 DEF PoolStep, AddModule
    <3>4. b \in Blocks /\ TagName[b] \in Names
      BY DEF QueryInv, Names
    <3>5. AddsAs("residual", b, TagName[b])
      BY <3>3, <3>4, AddEffect DEF QueryInv, Views
    <3>6. c = b
      BY <1>2, <2>4, <3>5 DEF AddsAs, Merged, Appended
    <3>7. PICK m : m = CopyOf[b]
      OBVIOUS
    <3>8. m \notin listed' \/ WalkExcused(m)' \/ b \in unread'
      <4>1. CASE m \in listed /\ ~WalkExcused(m)
        <5>1. Sectioned(m)
          BY <3>1, <4>1 DEF WalkInv
        <5>2. m \in loaded
          BY <4>1 DEF QueryInv, MachineInv
        <5>3. IsBigPoolDuplicateOfKnownModule(b)
          BY <3>7, <5>1, <5>2
             DEF Sectioned, IsBigPoolDuplicateOfKnownModule, ReadPeIdentityFingerprint
        <5>4. QED
          BY <3>3, <5>3
      <4>2. CASE WalkExcused(m)
        BY <1>2, <2>1, <2>2, <4>2, SeenStays
      <4>3. QED
        BY <2>2, <4>1, <4>2
    <3>9. QED
      BY <3>6, <3>7, <3>8
  <2>5. QED
    BY <2>3, <2>4 DEF CopiesInv
<1>5. CASE Machine \/ UNCHANGED moduleVars
  <2>1. UNCHANGED entries /\ born \subseteq born' /\ (diverted => diverted')
        /\ listed' \subseteq listed /\ UNCHANGED <<unread, unnamed>>
    BY <1>5, MachineHistory
  <2>2. SameEntries
    BY <1>2, <2>1 DEF SameEntries
  <2>3. QED
    BY <1>3, <2>1, <2>2 DEF CopiesInv
<1>6. QED
  BY <1>1, <1>4, <1>5 DEF ModuleNext

LEMMA FirstQuery == ModuleInit => ObjectsInv /\ WalkInv /\ CopiesInv
<1>. SUFFICES ASSUME ModuleInit PROVE ObjectsInv /\ WalkInv /\ CopiesInv
  OBVIOUS
<1>1. entries = <<>> /\ Len(<<>>) = 0 /\ pc = "idle"
  BY DEF ModuleInit
<1>2. OfView("driverobj") = {}
  BY <1>1 DEF OfView
<1>. DEFINE f == [x \in {} |-> {}]
<1>3. f \in [{} -> Objects]
  OBVIOUS
<1>. HIDE DEF f
<1>4. Owners(f)
  BY <1>2 DEF Owners
<1>5. ObjectsInv
  BY <1>2, <1>3, <1>4 DEF ObjectsInv
<1>6. QED
  BY <1>1, <1>5 DEF WalkInv, CopiesInv

-----------------------------------------------------------------------------
(* The detection.                                                          *)

NotListed == {entry \in EntriesOf(response.entries) : ~InR3(entry)}

StageInv ==
  /\ stage \in {"open", "ioctl", "r3", "fetch", "compare", "done", "failed"}
  /\ stage = "open" => pc = "idle"
  /\ stage \in {"open", "ioctl", "r3", "fetch", "failed"} => r3 = {} /\ hidden = <<>>
  /\ stage \in {"r3", "fetch", "compare", "done"} => pc = "returned" /\ response.status = "success"
  /\ IsFiniteSet(counted)
  /\ index \in Nat \ {0}
  /\ hidden \in Seq(NotListed)
  /\ steady \subseteq Objects

\* What the driver found and is still in the list, user mode has made room for,
\* and has listed.
R3Inv ==
  /\ stage = "fetch" =>
       \A entry \in EntriesOf(response.entries) :
         entry.base \in linked => entry.base \in counted
  /\ stage \in {"compare", "done"} =>
       \/ Cardinality(r3) = MaxEntries
       \/ \A entry \in EntriesOf(response.entries) :
            entry.base \in linked => \E x \in r3 : x.base = entry.base

LEMMA QueryOfDetection == [Next]_vars => [ModuleNext]_moduleVars
BY DEF Next, App, OpenDevice, IoctlReturns, CountR3, EnumerateR3, CompareModule, Finish, DriverStep,
       MachineStep, ModuleNext, vars

\* What is proved of the driver's query holds of it in the detection: its steps
\* there, and the machine's, are those of ModuleSpec.
THEOREM DetectionQueries == Spec => ModuleInit /\ [][ModuleNext]_moduleVars
<1>1. Init => ModuleInit
  BY DEF Init
<1>2. QED
  BY <1>1, QueryOfDetection, PTL DEF Spec

LEMMA UnlistedObjects == Unlisted \subseteq Objects /\ Unlisted' \subseteq Objects'
BY DEF Unlisted, Objects, EntriesOf, PlacesOf

LEMMA StageInvStep ==
  ASSUME MachineInv, QueryInv, StageInv, [Next]_vars
  PROVE  StageInv'
<1>0. <<>> \in Seq(NotListed') /\ IsFiniteSet(linked)
  BY ModuleAddresses, FS_Subset DEF MachineInv
<1>1. CASE OpenDevice
  <2>1. /\ stage = "open" /\ UNCHANGED <<counted, r3, index, hidden>> /\ directory' = directory
        /\ stage' \in {"ioctl", "failed"} /\ steady' = Unlisted
    BY <1>1 DEF OpenDevice, BeginModuleQuery, Fail, moduleVars, machine
  <2>2. Objects' = Objects
    BY <2>1 DEF Objects, EntriesOf
  <2>3. QED
    BY <1>0, <2>1, <2>2, UnlistedObjects DEF StageInv
<1>2. CASE DriverStep
  <2>1. stage = "ioctl" /\ UNCHANGED <<appVars, steady>> /\ directory' = directory
    BY <1>2 DEF DriverStep, ModuleQuery, SectionStep, DirectoryStep, DirectoryDone, PoolSnapshot,
       PoolStep, PoolDone, PoolException, ReplyModules, machine
  <2>2. Objects' = Objects
    BY <2>1 DEF Objects, EntriesOf
  <2>3. QED
    BY <1>0, <2>1, <2>2 DEF StageInv, appVars
<1>3. CASE IoctlReturns
  <2>1. /\ stage = "ioctl" /\ UNCHANGED <<counted, r3, index, hidden, steady, directory, response, pc>>
        /\ \/ stage' = "r3" /\ pc = "returned" /\ response.status = "success"
           \/ stage' = "failed"
    BY <1>3 DEF IoctlReturns, Fail, moduleVars, machine, driverVars
  <2>2. Objects' = Objects
    BY <2>1 DEF Objects, EntriesOf
  <2>3. QED
    BY <1>0, <2>1, <2>2 DEF StageInv
<1>4. CASE CountR3
  <2>1. /\ stage = "r3" /\ UNCHANGED <<r3, index, hidden, steady, directory, response, pc>>
        /\ stage' \in {"fetch", "failed"} /\ counted' \in {linked, counted}
    BY <1>4 DEF CountR3, Fail, ListedModules, moduleVars, machine, driverVars
  <2>2. Objects' = Objects
    BY <2>1 DEF Objects, EntriesOf
  <2>3. QED
    BY <1>0, <2>1, <2>2 DEF StageInv
<1>9. CASE EnumerateR3
  <2>1. /\ stage = "fetch" /\ UNCHANGED <<counted, index, hidden, steady, directory, response, pc>>
        /\ stage' = "compare" \/ (stage' = "failed" /\ r3' = r3)
    BY <1>9 DEF EnumerateR3, Fail, moduleVars, machine, driverVars
  <2>2. Objects' = Objects
    BY <2>1 DEF Objects, EntriesOf
  <2>3. QED
    BY <1>0, <2>1, <2>2 DEF StageInv
<1>5. CASE CompareModule \/ Finish
  <2>1. /\ stage = "compare" /\ UNCHANGED <<counted, r3, steady, directory, response, pc>>
        /\ stage' \in {"compare", "done"}
    BY <1>5 DEF CompareModule, Finish, moduleVars, machine, driverVars
  <2>2. Objects' = Objects /\ NotListed' = NotListed
    BY <2>1 DEF Objects, EntriesOf, NotListed, InR3
  <2>3. index' \in Nat \ {0} /\ hidden' \in Seq(NotListed)
    <3>1. CASE Finish
      BY <3>1 DEF Finish, StageInv
    <3>2. CASE CompareModule
      <4>1. index \in 1..Len(response.entries)
        <5>1. Len(response.entries) \in Nat
          BY LenProperties DEF QueryInv
        <5>2. QED
          BY <3>2, <5>1 DEF CompareModule, StageInv
      <4>2. PICK entry : entry = response.entries[index]
        OBVIOUS
      <4>3. entry \in EntriesOf(response.entries)
        BY <4>1, <4>2 DEF EntriesOf
      <4>4. \/ hidden' = hidden
            \/ hidden' = Append(hidden, entry) /\ ~InR3(entry)
        BY <3>2, <4>2 DEF CompareModule
      <4>5. hidden' \in Seq(NotListed)
        BY <4>3, <4>4, AppendProperties DEF NotListed, StageInv
      <4>6. QED
        BY <3>2, <4>5 DEF CompareModule, StageInv
    <3>3. QED
      BY <1>5, <3>1, <3>2
  <2>4. QED
    BY <2>1, <2>2, <2>3 DEF StageInv
<1>6. CASE UNCHANGED vars
  <2>1. NotListed' = NotListed /\ Objects' = Objects
    BY <1>6 DEF vars, moduleVars, machine, driverVars, appVars, NotListed, Objects, EntriesOf,
       InR3
  <2>2. QED
    BY <1>6, <2>1 DEF vars, moduleVars, driverVars, appVars, StageInv
<1>7. CASE MachineStep
  <2>1. UNCHANGED <<appVars, driverVars>> /\ steady' \subseteq Unlisted'
    BY <1>7 DEF MachineStep, Machine
  <2>2. NotListed' = NotListed
    BY <2>1 DEF NotListed, EntriesOf, InR3, appVars, driverVars
  <2>3. QED
    BY <2>1, <2>2, UnlistedObjects DEF StageInv, appVars, driverVars
<1>8. QED
  BY <1>1, <1>2, <1>3, <1>4, <1>5, <1>6, <1>7, <1>9 DEF Next, App

LEMMA LeastOfThree ==
  ASSUME NEW a \in Nat, NEW b \in Nat, NEW c \in Nat
  PROVE  Min({a, b, c}) \in {a, b, c} /\ Min({a, b, c}) <= c
<1>1. \E x \in {a, b, c} : \A y \in {a, b, c} : x <= y
  <2>1. CASE a <= b /\ a <= c
    BY <2>1
  <2>2. CASE b <= a /\ b <= c
    BY <2>2
  <2>3. CASE c <= a /\ c <= b
    BY <2>3
  <2>4. QED
    BY <2>1, <2>2, <2>3
<1>2. QED
  BY <1>1 DEF Min

\* User mode's list has the base of every module for which room was made and
\* that is still in the list, or is full.
LEMMA R3Lists ==
  ASSUME MachineInv, EnumerateR3, stage' # "failed", IsFiniteSet(counted)
  PROVE  \/ Cardinality(r3') = MaxEntries
         \/ \A m \in linked \intersect counted : \E x \in r3' : x.base = m
<1>1. PICK s \in SUBSET linked, anonymous \in SUBSET linked :
        /\ Fetched(s)
        /\ r3' = {[base |-> m, name |-> IF m \in anonymous THEN Unknown ELSE NameOf[m]] : m \in s}
  BY DEF EnumerateR3, Fail, ListedModules
<1>2. IsFiniteSet(linked) /\ IsFiniteSet(s)
  <2>1. IsFiniteSet(linked)
    BY ModuleAddresses, FS_Subset DEF MachineInv
  <2>2. QED
    BY <2>1, FS_Subset
<1>3. Cardinality(s) \in Nat /\ Cardinality(s) <= MaxEntries /\ MaxEntries \in Nat
  <2>1. /\ Cardinality(s) \in Nat /\ Cardinality(linked) \in Nat
        /\ Cardinality(counted) \in Nat /\ MaxEntries \in Nat
    BY <1>2, FS_CardinalityType, ModuleLimits
  <2>2. Cardinality(s) = Min({Cardinality(linked), Cardinality(counted), MaxEntries})
    BY <1>1 DEF Fetched, ListedModules
  <2>3. QED
    BY <2>1, <2>2, LeastOfThree
<1>. DEFINE rec(m) == [base |-> m, name |-> IF m \in anonymous THEN Unknown ELSE NameOf[m]]
<1>4. CASE Cardinality(s) < MaxEntries
  <2>1. linked \intersect counted \subseteq s
    BY <1>1, <1>4 DEF Fetched, ListedModules
  <2>2. ASSUME NEW m \in linked \intersect counted PROVE \E x \in r3' : x.base = m
    <3>1. rec(m) \in r3' /\ rec(m).base = m
      BY <1>1, <2>1
    <3>2. QED
      BY <3>1
  <2>3. QED
    BY <2>2
<1>5. CASE Cardinality(s) = MaxEntries
  <2>. DEFINE f == [m \in s |-> rec(m)]
  <2>1. r3' = {rec(m) : m \in s}
    BY <1>1
  <2>2. \A m \in s : rec(m).base = m
    OBVIOUS
  <2>. HIDE DEF rec
  <2>3. f \in [s -> r3'] /\ \A a, b \in s : f[a] = f[b] => a = b
    <3>1. \A a \in s : f[a] = rec(a) /\ rec(a) \in r3'
      BY <2>1
    <3>2. \A a, b \in s : f[a] = f[b] => a = b
      <4>. TAKE a, b \in s
      <4>. HAVE f[a] = f[b]
      <4>1. rec(a) = rec(b)
        BY <3>1
      <4>2. QED
        BY <2>2, <4>1
    <3>3. QED
      BY <3>1, <3>2
  <2>4. \A y \in r3' : \E a \in s : f[a] = y
    BY <2>1
  <2>. HIDE DEF f
  <2>5. f \in Bijection(s, r3')
    BY <2>3, <2>4 DEF Bijection, Injection, Surjection, IsInjective
  <2>6. Cardinality(r3') = Cardinality(s)
    BY <1>2, <2>5, FS_Bijection DEF ExistsBijection
  <2>7. QED
    BY <1>5, <2>6
<1>6. QED
  BY <1>3, <1>4, <1>5

LEMMA R3InvStep ==
  ASSUME MachineInv, QueryInv, StageInv, R3Inv, [Next]_vars
  PROVE  R3Inv'
<1>1. CASE UNCHANGED <<stage, counted, r3, response, linked>>
  BY <1>1 DEF R3Inv, EntriesOf
<1>2. CASE OpenDevice \/ DriverStep \/ IoctlReturns
  BY <1>2 DEF OpenDevice, DriverStep, IoctlReturns, Fail, appVars, R3Inv
<1>7. CASE CountR3
  <2>1. /\ stage' \in {"fetch", "failed"} /\ UNCHANGED <<response, linked>>
        /\ stage' = "fetch" => counted' = linked
    BY <1>7 DEF CountR3, Fail, ListedModules, moduleVars, driverVars, machine
  <2>2. QED
    BY <2>1 DEF R3Inv
<1>3. CASE EnumerateR3
  <2>1. /\ stage' \in {"compare", "failed"} /\ stage = "fetch"
        /\ UNCHANGED <<response, linked>>
    BY <1>3 DEF EnumerateR3, Fail, moduleVars, driverVars, machine
  <2>2. EntriesOf(response.entries)' = EntriesOf(response.entries)
    BY <2>1 DEF EntriesOf
  <2>3. CASE stage' # "failed"
    <3>1. \/ Cardinality(r3') = MaxEntries
          \/ \A m \in linked \intersect counted : \E x \in r3' : x.base = m
      BY <1>3, <2>3, R3Lists DEF StageInv
    <3>2. QED
      BY <2>1, <2>2, <3>1 DEF R3Inv
  <2>4. QED
    BY <2>1, <2>3 DEF R3Inv
<1>4. CASE CompareModule \/ Finish
  <2>1. /\ UNCHANGED <<r3, response, linked>> /\ stage = "compare"
        /\ stage' \in {"compare", "done"}
    BY <1>4 DEF CompareModule, Finish, moduleVars, driverVars, machine
  <2>2. QED
    BY <2>1 DEF R3Inv, EntriesOf
<1>5. CASE MachineStep
  <2>1. UNCHANGED <<stage, counted, r3, response>>
    BY <1>5 DEF MachineStep, Machine, appVars, driverVars
  <2>2. linked' \ linked \subseteq Mods \ born
    BY <1>5 DEF MachineStep, Machine, Load, Unlink, Unload
  <2>3. \A entry \in EntriesOf(response.entries) : entry.base \in born \union Blocks
    <3>1. \A entry \in EntriesOf(response.entries) : entry \in BornEntry
      BY ElementOfSeq DEF QueryInv, EntriesOf
    <3>2. QED
      BY <3>1 DEF BornEntry
  <2>4. \A entry \in EntriesOf(response.entries) : entry.base \in linked' => entry.base \in linked
    BY <2>2, <2>3, ModuleAddresses
  <2>5. EntriesOf(response.entries)' = EntriesOf(response.entries)
    BY <2>1 DEF EntriesOf
  <2>6. QED
    BY <2>1, <2>4, <2>5 DEF R3Inv
<1>6. QED
  BY <1>1, <1>2, <1>3, <1>4, <1>5, <1>7
     DEF Next, App, vars, moduleVars, machine, driverVars, appVars

DetectInv ==
  /\ MachineInv /\ AccInv /\ QueryInv /\ ObjectsInv /\ WalkInv /\ CopiesInv
  /\ StageInv /\ R3Inv

LEMMA DetectInvariance == Spec => []DetectInv
<1>1. Init => DetectInv
  <2>. SUFFICES ASSUME Init PROVE DetectInv
    OBVIOUS
  <2>1. MachineInv /\ AccInv /\ QueryInv
    BY MachineInit, AccInit, QueryInit DEF Init
  <2>2. ObjectsInv /\ WalkInv /\ CopiesInv
    BY FirstQuery DEF Init
  <2>3. StageInv /\ R3Inv
    <3>1. <<>> \in Seq(NotListed)
      OBVIOUS
    <3>2. QED
      BY <3>1, FS_EmptySet DEF Init, ModuleInit, StageInv, R3Inv
  <2>4. QED
    BY <2>1, <2>2, <2>3 DEF DetectInv
<1>2. DetectInv /\ [Next]_vars => DetectInv'
  <2>. SUFFICES ASSUME DetectInv, [Next]_vars PROVE DetectInv'
    OBVIOUS
  <2>1. [ModuleNext]_moduleVars
    BY QueryOfDetection
  <2>2. MachineInv' /\ AccInv' /\ QueryInv'
    BY <2>1, MachineInvStep, AccStep, QueryInvStep DEF DetectInv
  <2>3. ObjectsInv' /\ WalkInv' /\ CopiesInv'
    BY <2>1, <2>2, ObjectsInvStep, WalkInvStep, CopiesInvStep DEF DetectInv
  <2>4. StageInv' /\ R3Inv'
    BY StageInvStep, R3InvStep DEF DetectInv
  <2>5. QED
    BY <2>2, <2>3, <2>4 DEF DetectInv
<1>3. QED
  BY <1>1, <1>2, PTL DEF Spec

\* A module in the list is never reported, by whichever view and under whatever
\* name it was found, unless user mode's list of modules was full.
THEOREM NoListedModuleAccusedThm == Spec => []NoListedModuleAccused
<1>1. DetectInv => NoListedModuleAccused
  <2>. SUFFICES ASSUME DetectInv, NEW i \in 1..Len(hidden), hidden[i].base \in linked
                PROVE  Cardinality(r3) = MaxEntries
    BY DEF NoListedModuleAccused
  <2>1. hidden \in Seq(NotListed)
    BY DEF DetectInv, StageInv
  <2>2. hidden[i] \in NotListed
    BY <2>1, ElementOfSeq
  <2>3. stage \in {"compare", "done"}
    <3>1. hidden # <<>>
      OBVIOUS
    <3>2. QED
      BY <3>1 DEF DetectInv, StageInv
  <2>4. QED
    BY <2>2, <2>3 DEF NotListed, InR3, DetectInv, R3Inv
<1>2. QED
  BY <1>1, DetectInvariance, PTL

\* A copy in a pool block of a module that is listed all through the query is
\* not reported, unless a node left the list under the walk, the list is longer
\* than the walk, View A could not convert the module's name, its entry went to
\* a namesake, the accumulator was full, or its header could not be read.
THEOREM CopyNotAccusedThm == Spec => []CopyNotAccused
<1>1. DetectInv => CopyNotAccused
  <2>. SUFFICES ASSUME DetectInv, NEW i \in 1..Len(hidden), hidden[i].base \in Blocks
                PROVE  LET m == CopyOf[hidden[i].base]
                       IN  \/ m \notin listed \/ Alike(m) # {} \/ diverted
                           \/ Cardinality(born) >= 2 * MaxEntries
                           \/ Len(response.entries) = MaxEntries
                           \/ hidden[i].base \in unread
                           \/ <<"section", m>> \in unnamed
    BY DEF CopyNotAccused
  <2>1. hidden \in Seq(NotListed) /\ hidden # <<>>
    BY DEF DetectInv, StageInv
  <2>2. hidden[i] \in EntriesOf(response.entries)
    BY <2>1, ElementOfSeq DEF NotListed
  <2>3. stage \in {"compare", "done"}
    BY <2>1 DEF DetectInv, StageInv
  <2>4. response.entries = entries
    BY <2>3 DEF DetectInv, StageInv, QueryInv
  <2>5. PICK j \in 1..Len(entries) : hidden[i] = entries[j]
    BY <2>2, <2>4 DEF EntriesOf
  <2>6. PICK b \in Blocks : b = hidden[i].base
    OBVIOUS
  <2>7. CopyOf[b] \notin listed \/ WalkExcused(CopyOf[b]) \/ b \in unread
    BY <2>5, <2>6 DEF DetectInv, CopiesInv
  <2>8. QED
    BY <2>4, <2>6, <2>7 DEF WalkExcused
<1>2. QED
  BY <1>1, DetectInvariance, PTL

\* A module unlinked before the query whose driver object stays in the
\* directory is answered, unless an object left the directory or the driver's
\* count of objects falls short of it: as many entries of View B as there are
\* objects, each with an object of its own, leave none out.
THEOREM UnlistedAnsweredThm == Spec => []UnlistedAnswered
<1>1. DetectInv => UnlistedAnswered
  <2>. SUFFICES ASSUME DetectInv, stage \in {"compare", "done"}, NEW m \in steady, ~Excused
                PROVE  \E i \in 1..Len(response.entries) :
                         \/ response.entries[i].base = m
                         \/ response.entries[i].name \in {NameOf[m], ObjectName[m]}
    BY DEF UnlistedAnswered
  <2>1. response.entries = entries /\ response.counts = counts
    BY DEF DetectInv, StageInv, QueryInv
  <2>2. ~shifted /\ ~(counts["driverobj"] < Len(directory))
    BY <2>1 DEF Excused
  <2>3. PICK f \in [OfView("driverobj") -> Objects] : Owners(f)
    BY <2>2 DEF DetectInv, ObjectsInv
  <2>4. m \in Objects
    BY DEF DetectInv, StageInv
  <2>5. CASE \E i \in OfView("driverobj") : f[i] = m
    <3>1. PICK i \in OfView("driverobj") : f[i] = m
      BY <2>5
    <3>2. i \in 1..Len(entries) /\ i \in SameModule(m, ObjectModule(m).name)
      BY <2>3, <3>1 DEF Owners, Found, OfView
    <3>3. entries[i].base = m \/ entries[i].name = ObjectModule(m).name
      BY <3>2 DEF SameModule, WithBase, WithName
    <3>4. ObjectModule(m).name \in {NameOf[m], ObjectName[m]}
      BY DEF ObjectModule
    <3>5. QED
      BY <2>1, <3>2, <3>3, <3>4
  <2>6. CASE ~\E i \in OfView("driverobj") : f[i] = m
    <3>1. Len(directory) \in Nat /\ IsFiniteSet(Objects) /\ Cardinality(Objects) <= Len(directory)
      <4>1. directory \in Seq(born)
        BY DEF DetectInv, MachineInv
      <4>2. Len(directory) \in Nat
        BY <4>1, LenProperties
      <4>3. IsFiniteSet(1..Len(directory)) /\ Cardinality(1..Len(directory)) = Len(directory)
        <5>1. /\ IsFiniteSet(1..Len(directory))
              /\ Cardinality(1..Len(directory)) =
                   IF 1 > Len(directory) THEN 0 ELSE Len(directory) - 1 + 1
          BY <4>2, FS_Interval
        <5>2. QED
          BY <4>2, <5>1
      <4>. DEFINE g == [i \in 1..Len(directory) |-> directory[i]]
      <4>4. g \in Surjection(1..Len(directory), Objects)
        BY DEF Surjection, Objects, EntriesOf
      <4>5. QED
        BY <4>2, <4>3, <4>4, FS_Surjection
    <3>2. /\ IsFiniteSet(Objects \ {m})
          /\ Cardinality(Objects \ {m}) = Cardinality(Objects) - 1
      BY <2>4, <3>1, FS_RemoveElement
    <3>3. f \in Injection(OfView("driverobj"), Objects \ {m})
      BY <2>3, <2>6 DEF Owners, Injection, IsInjective
    <3>4. Cardinality(OfView("driverobj")) <= Cardinality(Objects \ {m})
      BY <3>2, <3>3, FS_Injection
    <3>5. counts["driverobj"] = Cardinality(OfView("driverobj")) /\ counts["driverobj"] \in Nat
      BY DEF DetectInv, AccInv, Views
    <3>6. Cardinality(Objects) \in Nat
      BY <3>1, FS_CardinalityType
    <3>7. QED
      BY <2>2, <3>1, <3>2, <3>4, <3>5, <3>6
  <2>7. QED
    BY <2>5, <2>6
<1>2. QED
  BY <1>1, DetectInvariance, PTL

-----------------------------------------------------------------------------
(* The promise of CrossView.                                               *)

AbsStage == CASE stage = "done" -> "reported"
              [] stage = "failed" -> "failed"
              [] OTHER -> "collecting"
AbsKernel == IF stage \in {"open", "ioctl"} THEN {} ELSE EntriesOf(response.entries)
AbsR3 == {entry \in EntriesOf(response.entries) : InR3(entry)}
AbsReport == IF stage = "done" THEN EntriesOf(hidden) ELSE {}

LEMMA SameView ==
  ASSUME UNCHANGED <<AbsStage, AbsKernel, AbsR3, AbsReport>>
  PROVE  UNCHANGED Promise!vars
BY DEF Promise!vars, AbsStage, AbsKernel, AbsR3, AbsReport

\* A failure of the app: the report stays empty, and the kernel's entries are
\* those it had, which are none if there was no answer.
LEMMA FailIsFail ==
  ASSUME stage \notin {"done", "failed"}, stage' = "failed", UNCHANGED <<response, r3>>,
         stage \in {"open", "ioctl"} => response.entries = <<>>
  PROVE  Promise!Fail
<1>1. EntriesOf(response.entries)' = EntriesOf(response.entries)
  BY DEF EntriesOf
<1>2. response.entries = <<>> => EntriesOf(response.entries) = {}
  BY DEF EntriesOf
<1>3. {entry \in EntriesOf(response.entries) : InR3(entry)}' =
        {entry \in EntriesOf(response.entries) : InR3(entry)}
  BY <1>1 DEF InR3
<1>4. QED
  BY <1>1, <1>2, <1>3 DEF Promise!Fail

LEMMA AnswersAreEntries ==
  ASSUME MachineInv, QueryInv
  PROVE  EntriesOf(response.entries) \in SUBSET Entry
<1>1. BornEntry \subseteq Entry
  BY DEF BornEntry, Entry, Bases, MachineInv
<1>2. response.entries \in Seq(BornEntry)
  BY DEF QueryInv
<1>3. QED
  BY <1>1, <1>2, ElementOfSeq DEF EntriesOf

\* Every step of the detection is a step of the abstract detector or none.
LEMMA PromiseStep ==
  ASSUME DetectInv, [Next]_vars
  PROVE  [Promise!Next]_(Promise!vars)
<1>. USE DEF DetectInv
<1>1. ASSUME UNCHANGED <<AbsStage, AbsKernel, AbsR3, AbsReport>>
      PROVE  [Promise!Next]_(Promise!vars)
  BY <1>1, SameView
<1>2. ASSUME Promise!Fail PROVE [Promise!Next]_(Promise!vars)
  BY <1>2 DEF Promise!Next
<1>3. EntriesOf(response.entries) \in SUBSET Entry
  BY AnswersAreEntries
<1>4. CASE OpenDevice
  <2>1. stage = "open" /\ UNCHANGED r3 /\ r3 = {} /\ response.entries = <<>>
    BY <1>4 DEF OpenDevice, Fail, StageInv, QueryInv, NoResponse
  <2>2. CASE stage' = "failed"
    <3>1. UNCHANGED response
      BY <1>4, <2>2 DEF OpenDevice, moduleVars, driverVars
    <3>2. QED
      BY <1>2, <2>1, <2>2, <3>1, FailIsFail
  <2>3. CASE stage' = "ioctl"
    <3>1. UNCHANGED <<AbsStage, AbsKernel, AbsR3, AbsReport>>
      BY <2>1, <2>3 DEF AbsStage, AbsKernel, AbsR3, AbsReport, InR3
    <3>2. QED
      BY <1>1, <3>1
  <2>4. QED
    BY <1>4, <2>2, <2>3 DEF OpenDevice, Fail
<1>5. CASE DriverStep
  <2>1. stage = "ioctl" /\ UNCHANGED <<stage, r3, hidden>> /\ r3 = {}
    BY <1>5 DEF DriverStep, appVars, StageInv
  <2>2. UNCHANGED <<AbsStage, AbsKernel, AbsR3, AbsReport>>
    BY <2>1 DEF AbsStage, AbsKernel, AbsR3, AbsReport, InR3
  <2>3. QED
    BY <1>1, <2>2
<1>6. CASE IoctlReturns
  <2>1. stage = "ioctl" /\ UNCHANGED <<response, r3, hidden>> /\ r3 = {}
    BY <1>6 DEF IoctlReturns, Fail, moduleVars, driverVars, StageInv
  <2>2. EntriesOf(response.entries)' = EntriesOf(response.entries)
    BY <2>1 DEF EntriesOf
  <2>3. CASE stage' = "r3"
    <3>1. {entry \in EntriesOf(response.entries) : InR3(entry)}' =
            {entry \in EntriesOf(response.entries) : InR3(entry)}
      BY <2>1, <2>2 DEF InR3
    <3>2. Promise!SeeKernel
      BY <1>3, <2>1, <2>2, <2>3, <3>1 DEF Promise!SeeKernel
    <3>3. QED
      BY <3>2 DEF Promise!Next
  <2>4. CASE stage' = "failed"
    <3>1. response.entries = <<>>
      BY <1>6, <2>4 DEF IoctlReturns, QueryInv
    <3>2. QED
      BY <1>2, <2>1, <2>4, <3>1, FailIsFail
  <2>5. QED
    BY <1>6, <2>3, <2>4 DEF IoctlReturns, Fail
<1>12. CASE CountR3
  <2>1. /\ stage = "r3" /\ UNCHANGED <<response, r3, hidden>> /\ r3 = {}
        /\ stage' \in {"fetch", "failed"}
    BY <1>12 DEF CountR3, Fail, moduleVars, driverVars, StageInv
  <2>2. CASE stage' = "fetch"
    <3>1. UNCHANGED <<AbsStage, AbsKernel, AbsR3, AbsReport>>
      BY <2>1, <2>2 DEF AbsStage, AbsKernel, AbsR3, AbsReport, EntriesOf, InR3
    <3>2. QED
      BY <1>1, <3>1
  <2>3. CASE stage' = "failed"
    BY <1>2, <2>1, <2>3, FailIsFail
  <2>4. QED
    BY <2>1, <2>2, <2>3
<1>7. CASE EnumerateR3
  <2>1. stage = "fetch" /\ UNCHANGED response /\ r3 = {}
    BY <1>7 DEF EnumerateR3, moduleVars, driverVars, StageInv
  <2>2. EntriesOf(response.entries)' = EntriesOf(response.entries)
    BY <2>1 DEF EntriesOf
  <2>3. CASE stage' = "compare"
    <3>1. {entry \in EntriesOf(response.entries) : InR3(entry)}' \in SUBSET Entry
      BY <1>3, <2>2
    <3>2. {entry \in EntriesOf(response.entries) : InR3(entry)} = {}
      BY <2>1 DEF InR3
    <3>3. Promise!SeeR3
      BY <2>1, <2>2, <2>3, <3>1, <3>2 DEF Promise!SeeR3
    <3>4. QED
      BY <3>3 DEF Promise!Next
  <2>4. CASE stage' = "failed" /\ r3' = r3
    BY <1>2, <2>1, <2>4, FailIsFail
  <2>5. QED
    BY <1>7, <2>3, <2>4 DEF EnumerateR3, Fail
<1>8. CASE CompareModule
  <2>1. stage = "compare" /\ UNCHANGED <<stage, response, r3>>
    BY <1>8 DEF CompareModule, moduleVars, driverVars
  <2>2. UNCHANGED <<AbsStage, AbsKernel, AbsR3, AbsReport>>
    BY <2>1 DEF AbsStage, AbsKernel, AbsR3, AbsReport, EntriesOf, InR3
  <2>3. QED
    BY <1>1, <2>2
<1>9. CASE Finish
  <2>1. stage = "compare" /\ stage' = "done" /\ UNCHANGED <<response, r3, hidden>>
    BY <1>9 DEF Finish, moduleVars, driverVars
  <2>. DEFINE kernel == EntriesOf(response.entries)
              seen == {entry \in EntriesOf(response.entries) : InR3(entry)}
              report == EntriesOf(hidden)
  <2>2. kernel' = kernel /\ seen' = seen /\ report' = report
    BY <2>1 DEF EntriesOf, InR3
  <2>3. report \subseteq kernel \ seen
    <3>1. hidden \in Seq(NotListed)
      BY DEF StageInv
    <3>2. report \subseteq NotListed
      BY <3>1, ElementOfSeq DEF EntriesOf
    <3>3. QED
      BY <3>2 DEF NotListed
  <2>4. kernel \ report \in SUBSET kernel /\ report = kernel \ (seen \union (kernel \ report))
    BY <2>3
  <2>5. Promise!Report
    <3>. HIDE DEF kernel, seen, report
    <3>1. \E excused \in SUBSET kernel : report' = kernel \ (seen \union excused)
      BY <2>2, <2>4
    <3>. USE DEF kernel, seen, report
    <3>2. QED
      BY <2>1, <2>2, <3>1 DEF Promise!Report
  <2>6. QED
    BY <2>5 DEF Promise!Next
<1>10. CASE UNCHANGED vars \/ MachineStep
  <2>1. UNCHANGED <<stage, r3, hidden, response>>
    BY <1>10 DEF vars, appVars, moduleVars, driverVars, MachineStep, Machine
  <2>2. UNCHANGED <<AbsStage, AbsKernel, AbsR3, AbsReport>>
    BY <2>1 DEF AbsStage, AbsKernel, AbsR3, AbsReport, EntriesOf, InR3
  <2>3. QED
    BY <1>1, <2>2
<1>11. QED
  BY <1>4, <1>5, <1>6, <1>7, <1>8, <1>9, <1>10, <1>12 DEF Next, App

\* The detection keeps the promise of CrossView: what it reports, once, are
\* entries of the driver's answer that user mode's list does not have, or it
\* fails and reports nothing.
THEOREM KeepsPromiseThm == Spec => KeepsPromise
<1>1. Init => Promise!Init
  <2>. SUFFICES ASSUME Init PROVE Promise!Init
    OBVIOUS
  <2>1. stage = "open" /\ r3 = {}
    BY DEF Init
  <2>2. {entry \in EntriesOf(response.entries) : InR3(entry)} = {}
    BY <2>1 DEF InR3
  <2>3. QED
    BY <2>1, <2>2 DEF Promise!Init
<1>2. QED
  BY <1>1, DetectInvariance, PromiseStep, PTL DEF Spec, KeepsPromise

=============================================================================
