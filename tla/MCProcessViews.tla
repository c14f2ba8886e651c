--------------------------- MODULE MCProcessViews ---------------------------
(***************************************************************************)
(* An instance of ProcessViews: a and b use PID 4 in turn, d is beyond the *)
(* scan limit and exits with the code 259, and there are more PIDs than    *)
(* entries.                                                                *)
(***************************************************************************)
EXTENDS ProcessViews

CONSTANTS a, b, c, d

MCObjs == {a, b, c, d}
MCPidOf == [o \in MCObjs |-> CASE o = c -> 8 [] o = d -> 12 [] OTHER -> 4]
MCNoHandles == {c}
MCPendingExit == {d}

\* a runs or has exited, and b can only be created once a has left PID 4.
MCInit ==
  /\ QueryInit /\ erased = {}
  /\ life[a] # "unborn" /\ life[b] = "unborn"
  /\ life[c] = "running" /\ life[d] # "unborn"

\* The accumulator is local to a query: a second query starts from the same
\* driver state, so a run stops at the answer.
MCNext ==
  /\ pc # "returned"
  /\ BeginQuery \/ Driver \/ (pc # "idle" /\ Environment)
MCSpec == MCInit /\ [][MCNext]_queryVars /\ WF_queryVars(Driver)

=============================================================================
