----------------------------- MODULE CrossView -----------------------------
(***************************************************************************)
(* What a cross-view detector promises (the formula of the app's headers,  *)
(* Hidden = kernel views - R3 view): it collects what the kernel shows and *)
(* what user mode shows, and then, once, reports items of the first that   *)
(* are not among the second, or fails and reports nothing.                 *)
(***************************************************************************)
CONSTANTS
  Items,
  Filtering    \* a Boolean: whether the detector may excuse items it would report

VARIABLES
  stage,       \* "collecting", "reported" or "failed"
  kernel,      \* what the kernel views showed
  r3,          \* what user mode showed
  report

vars == <<stage, kernel, r3, report>>

Init ==
  /\ stage = "collecting"
  /\ kernel = {} /\ r3 = {} /\ report = {}

SeeKernel ==
  /\ stage = "collecting"
  /\ kernel = {} /\ kernel' \in SUBSET Items
  /\ UNCHANGED <<stage, r3, report>>

SeeR3 ==
  /\ stage = "collecting"
  /\ r3' \in SUBSET Items /\ r3 \subseteq r3'
  /\ UNCHANGED <<stage, kernel, report>>

Report ==
  /\ stage = "collecting"
  /\ \E excused \in SUBSET kernel :
       /\ ~Filtering => excused = {}
       /\ report' = kernel \ (r3 \union excused)
  /\ stage' = "reported"
  /\ UNCHANGED <<kernel, r3>>

Fail ==
  /\ stage = "collecting"
  /\ stage' = "failed"
  /\ report' = {}
  /\ UNCHANGED <<kernel, r3>>

Next == SeeKernel \/ SeeR3 \/ Report \/ Fail

Spec == Init /\ [][Next]_vars

=============================================================================
