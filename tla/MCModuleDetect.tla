--------------------------- MODULE MCModuleDetect ---------------------------
(***************************************************************************)
(* An instance of ModuleDetect: the driver itself, a module, a module      *)
(* whose driver object lost its section; two pool blocks of one tag with   *)
(* copies, and one of a tag that is passed over.  The driver's own name may *)
(* fail to convert.                                                        *)
(***************************************************************************)
EXTENDS ModuleDetect

CONSTANTS self, v, h, b, c, n, head

MCMods == {self, v, h}
MCBlocks == {b, c, n}
MCNameOf == [m \in MCMods |-> IF m = self THEN "ark.sys" ELSE "v.sys"]
MCObjectName == [m \in MCMods |-> IF m = self THEN "ark" ELSE "v"]
OnlyH == {h}
OnlySelf == {self}
MCTagName == [x \in MCBlocks |-> IF x = n THEN "pool_ViMm" ELSE "pool_tag"]
MCNoiseTags == {"pool_ViMm"}
None == {}
MCCopyOf == [x \in MCBlocks |-> IF x = b THEN v ELSE self]

\* The driver and h have driver objects; h is listed before the driver, or
\* unlinked already.
MCInit ==
  /\ Init
  /\ h \in loaded /\ flink[self] # h
  /\ {self, h} \subseteq {directory[i] : i \in 1..Len(directory)}

\* Bounds: one module is unloaded; three snapshots of the pool; user mode fails to
\* find one name, and while it lists the modules they are only loaded.
Bounded ==
  /\ Cardinality(born' \ loaded') <= 1
  /\ pc = "bigpool" => blocks' \in {{}, {b, c}, {c, n}}
  /\ Cardinality({m \in r3' : m.name = Unknown}) <= 1
  /\ stage = "fetch" => linked \subseteq linked'

\* The machine rests before the query, which begins with any list, during View C,
\* which has no walk to disturb, until the size of user mode's list is known, and
\* once the list has been fetched.
MachineActs == stage = "fetch" \/ pc \in {"section", "directory"}

MCNext ==
  /\ stage \notin {"done", "failed"}
  /\ App \/ DriverStep \/ (MachineActs /\ MachineStep)
  /\ Bounded
MCSpec == MCInit /\ [][MCNext]_vars /\ WF_vars(App) /\ WF_vars(DriverStep)

=============================================================================
