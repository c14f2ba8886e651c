-------------------------- MODULE MCArkLifecycle --------------------------
(***************************************************************************)
(* Two instances of the app: overlapping, with the reports they write to   *)
(* one directory, and one after the other.                                 *)
(***************************************************************************)
EXTENDS ArkReports

CONSTANTS x, y

MCApps == {x, y}

\* x may be told to keep the driver and may be killed, y is neither; there are
\* reports of an earlier run.
MCInit == ReportsInit /\ ~keep[y] /\ \A k \in Kinds : files[k] # <<>>
MCNext ==
  \/ System /\ UNCHANGED reportVars
  \/ Reporting(x) \/ Reporting(y) \/ KillWriter(x)
MCSpec ==
  /\ MCInit /\ [][MCNext]_allVars
  /\ WF_allVars(System /\ UNCHANGED reportVars)
  /\ \A a \in Apps : WF_allVars(Reporting(a))

\* One instance after the other.
Alone(a) == \A b \in Apps \ {a} : pc[b] \in {"main", "exited"}
InTurnNext ==
  \/ System /\ UNCHANGED reportVars
  \/ \E a \in Apps : Alone(a) /\ Reporting(a)
InTurnSpec == ReportsInit /\ [][InTurnNext]_allVars

=============================================================================
