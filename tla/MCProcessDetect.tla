-------------------------- MODULE MCProcessDetect --------------------------
(***************************************************************************)
(* Instances of ProcessDetect: two processes that use PID 4 in turn beside *)
(* one that may be hidden; three processes of their own PIDs, more than    *)
(* the R3 vector has room for.                                             *)
(***************************************************************************)
EXTENDS ProcessDetect

CONSTANTS a, b, c

MCObjs == {a, b, c}
ReusePidOf == [o \in MCObjs |-> IF o = c THEN 8 ELSE 4]
DistinctPidOf == [o \in MCObjs |-> CASE o = a -> 4 [] o = b -> 8 [] o = c -> 12]
NoneMinimal == {}

\* What the machine does once the detection has returned is of no interest.
MCNext == stage \notin {"done", "failed"} /\ Next
MCSpec == Init /\ [][MCNext]_vars /\ WF_vars(App) /\ WF_vars(DriverStep)

\* PID reuse: a and c run and a is visible when the detection starts; b can
\* only be created once a has left PID 4.
ReuseInit ==
  /\ Init /\ erased = {} /\ unlinked \subseteq {c}
  /\ life = [o \in MCObjs |-> IF o = b THEN "unborn" ELSE "running"]
ReuseNext ==
  /\ stage \notin {"done", "failed"}
  /\ App \/ DriverStep \/ (stage # "start" /\ Machine)
ReuseSpec ==
  ReuseInit /\ [][ReuseNext]_vars /\ WF_vars(App) /\ WF_vars(DriverStep)

=============================================================================
