-------------------------- MODULE ArkLifecycleProofs --------------------------
(***************************************************************************)
(* Proofs about module ArkLifecycle, for any number of instances, whichever *)
(* of them are killed, and any length of the wait for the driver to stop.  *)
(***************************************************************************)
EXTENDS ArkLifecycle, TLAPS

-----------------------------------------------------------------------------
(* The inductive invariant.                                                *)

States == {"STOPPED", "START_PENDING", "RUNNING", "STOP_PENDING"}

PCs ==
  {"main", "create", "change", "query", "start", "starting", "detect", "ioctl",
   "report", "stop", "poll", "delete", "exited", "killed"}

Results == {"not called", "ok", "failed"}

LifecycleType ==
  /\ state \in States
  /\ service \subseteq Apps
  /\ pc \in [Apps -> PCs] /\ unload \in [Apps -> Results]

\* Where an instance has a handle of the service.
HasService ==
  {"change", "query", "start", "starting", "stop", "poll", "delete"}

\* A handle keeps the service registered, and so does a driver that is not
\* stopped.
Kept ==
  /\ \A a \in Apps : pc[a] \in HasService => a \in service
  /\ service # {} \/ state # "STOPPED" => registered

\* One instance at a time is inside StartServiceA's start of the driver.
OneStarts ==
  /\ \A a \in Apps : pc[a] = "starting" => state = "START_PENDING"
  /\ \A a, b \in Apps : pc[a] = "starting" /\ pc[b] = "starting" => a = b

\* An instance that still has to stop the driver, or is not going to.
Owes(a) ==
  \/ pc[a] \in {"starting", "detect", "ioctl", "report", "stop", "killed"}
  \/ keep[a]
  \/ pc[a] = "exited" /\ unload[a] = "failed"

Responsible ==
  state \in {"START_PENDING", "RUNNING"} => \E a \in Apps : Owes(a)

LInv == LifecycleType /\ DeviceIffDriver /\ Kept /\ OneStarts /\ Responsible

LEMMA InitLInv == Init => LInv
<1>. SUFFICES ASSUME Init PROVE LInv
  OBVIOUS
<1>1. LifecycleType
  BY DEF Init, LifecycleType, States, PCs, Results
<1>2. DeviceIffDriver
  BY DEF Init, DeviceIffDriver
<1>3. Kept /\ OneStarts /\ Responsible
  BY DEF Init, Kept, HasService, OneStarts, Responsible
<1>4. QED
  BY <1>1, <1>2, <1>3 DEF LInv

-----------------------------------------------------------------------------
(* Steps that leave the driver's state alone.                              *)

\* An instance takes a step that neither starts nor stops the driver, and does
\* not drop what it owes.
LEMMA QuietStep ==
  ASSUME LInv, NEW a \in Apps, NEW next \in PCs,
         UNCHANGED <<device, link, keep>>, state' = state, registered => registered',
         pc' = [pc EXCEPT ![a] = next], next # "starting",
         unload' \in [Apps -> Results],
         \A b \in Apps \ {a} : unload'[b] = unload[b],
         \/ service' = service
         \/ service' = service \union {a} /\ registered'
         \/ service' = service \ {a} /\ next \notin HasService,
         next \in HasService => a \in service',
         state \in {"START_PENDING", "RUNNING"} /\ Owes(a) => Owes(a)'
  PROVE  LInv'
<1>1. LifecycleType'
  BY DEF LInv, LifecycleType
<1>2. DeviceIffDriver'
  BY DEF LInv, DeviceIffDriver
<1>3. Kept'
  BY DEF LInv, Kept, LifecycleType, HasService
<1>4. OneStarts'
  BY DEF LInv, OneStarts, LifecycleType
<1>5. Responsible'
  <2>. SUFFICES ASSUME state \in {"START_PENDING", "RUNNING"} PROVE \E b \in Apps : Owes(b)'
    BY DEF Responsible
  <2>1. PICK b \in Apps : Owes(b)
    BY DEF LInv, Responsible
  <2>2. Owes(b)'
    BY <2>1 DEF Owes, LInv, LifecycleType
  <2>3. QED
    BY <2>2
<1>6. QED
  BY <1>1, <1>2, <1>3, <1>4, <1>5 DEF LInv

LEMMA InstallInv ==
  ASSUME LInv, NEW a \in Apps,
         OpenForInstall(a) \/ CreateService(a) \/ ChangeServiceConfig(a) \/ QueryState(a)
  PROVE  LInv'
<1>. USE DEF HasService, PCs, Owes, scmVars, ioVars, LoadFailed, LoadSucceeded, ExitWith,
            Goto, CloseService
<1>. unload \in [Apps -> Results] /\ a \in Apps
  BY DEF LInv, LifecycleType
<1>1. CASE OpenForInstall(a)
  BY <1>1, QuietStep DEF OpenForInstall, LInv, LifecycleType
<1>2. CASE CreateService(a)
  BY <1>2, QuietStep DEF CreateService, LInv, LifecycleType
<1>3. CASE ChangeServiceConfig(a)
  BY <1>3, QuietStep DEF ChangeServiceConfig, LInv, LifecycleType, Kept
<1>4. CASE QueryState(a)
  BY <1>4, QuietStep DEF QueryState, LInv, LifecycleType, Kept
<1>5. QED
  BY <1>1, <1>2, <1>3, <1>4

LEMMA DetectInv ==
  ASSUME LInv, NEW a \in Apps,
         \/ OpenDevice(a) \/ FinishDetection(a) \/ Kill(a)
         \/ \E failed \in BOOLEAN : WriteReport(a, failed)
  PROVE  LInv'
<1>. USE DEF HasService, PCs, Owes, scmVars, ioVars, DetectionDone, Goto, CloseService
<1>. unload \in [Apps -> Results] /\ pc \in [Apps -> PCs]
  BY DEF LInv, LifecycleType
<1>1. CASE OpenDevice(a)
  BY <1>1, QuietStep DEF OpenDevice
<1>2. CASE FinishDetection(a)
  BY <1>2, QuietStep DEF FinishDetection
<1>3. CASE Kill(a)
  BY <1>3, QuietStep DEF Kill
<1>4. CASE \E failed \in BOOLEAN : WriteReport(a, failed)
  <2>1. /\ pc[a] = "report" /\ pc' = [pc EXCEPT ![a] = "detect"]
        /\ UNCHANGED <<registered, state, device, link, keep, service, unload>>
    BY <1>4 DEF WriteReport
  <2>2. QED
    BY <2>1, QuietStep
<1>5. QED
  BY <1>1, <1>2, <1>3, <1>4

\* unloadDriver may return true once the driver does not run, or when the
\* instance has stopped it or was to keep it.
LEMMA UnloadReturnsInv ==
  ASSUME LInv, NEW a \in Apps, NEW result \in {"ok", "failed"},
         UnloadReturns(a, result),
         UNCHANGED <<device, link, keep, state, registered>>,
         \/ result = "failed"
         \/ state = "STOPPED"
         \/ pc[a] \in {"poll", "delete"}
         \/ keep[a]
  PROVE  LInv'
<1>1. /\ unload' = [unload EXCEPT ![a] = result]
      /\ service' = service \ {a}
      /\ pc' = [pc EXCEPT ![a] = "exited"]
  BY DEF UnloadReturns, CloseService, Goto
<1>2. unload \in [Apps -> Results] /\ pc \in [Apps -> PCs]
  BY DEF LInv, LifecycleType
<1>3. /\ unload' \in [Apps -> Results]
      /\ \A b \in Apps \ {a} : unload'[b] = unload[b]
  BY <1>1, <1>2 DEF Results
<1>4. state \in {"START_PENDING", "RUNNING"} /\ Owes(a) => Owes(a)'
  BY <1>1, <1>2 DEF Owes
<1>5. "exited" \in PCs /\ "exited" \notin HasService /\ "exited" # "starting"
  BY DEF PCs, HasService
<1>6. QED
  BY <1>1, <1>3, <1>4, <1>5, QuietStep

LEMMA UninstallInv ==
  ASSUME LInv, NEW a \in Apps,
         Leave(a) \/ PollStopped(a) \/ DeleteService(a)
  PROVE  LInv'
<1>. /\ unload \in [Apps -> Results] /\ pc \in [Apps -> PCs]
     /\ pc[a] \in HasService => a \in service
  BY DEF LInv, LifecycleType, Kept
<1>1. UNCHANGED <<device, link, keep, state>> /\ registered' = registered
  BY DEF Leave, PollStopped, DeleteService, scmVars, ioVars
<1>2. CASE \E result \in {"ok", "failed"} : UnloadReturns(a, result)
  <2>1. PICK result \in {"ok", "failed"} : UnloadReturns(a, result)
    BY <1>2
  <2>2. result = "failed" \/ state = "STOPPED" \/ pc[a] \in {"poll", "delete"} \/ keep[a]
    <3>1. CASE Leave(a)
      <4>1. ~registered \/ unload'[a] = "failed" \/ keep[a]
        <5>1. pc'[a] = "exited"
          BY <2>1 DEF UnloadReturns, Goto
        <5>2. CASE Goto(a, "stop")
          BY <5>1, <5>2 DEF Goto
        <5>3. CASE UnloadReturns(a, "failed")
          BY <5>3 DEF UnloadReturns
        <5>4. QED
          BY <3>1, <5>2, <5>3 DEF Leave
      <4>2. unload'[a] = result
        BY <2>1 DEF UnloadReturns
      <4>3. QED
        BY <4>1, <4>2 DEF LInv, Kept
    <3>2. CASE PollStopped(a) \/ DeleteService(a)
      BY <3>2 DEF PollStopped, DeleteService
    <3>3. QED
      BY <3>1, <3>2
  <2>3. QED
    BY <1>1, <2>1, <2>2, UnloadReturnsInv
<1>3. CASE ~\E result \in {"ok", "failed"} : UnloadReturns(a, result)
  <2>1. unload' = unload
    BY <1>3 DEF Leave, PollStopped, DeleteService
  <2>2. \/ /\ pc[a] = "detect" /\ keep[a]
           /\ pc' = [pc EXCEPT ![a] = "exited"] /\ service' = service
        \/ /\ pc[a] = "detect" /\ registered
           /\ pc' = [pc EXCEPT ![a] = "stop"] /\ service' = service \union {a}
        \/ /\ pc[a] = "poll" /\ service' = service
           /\ pc' = [pc EXCEPT ![a] = "delete"] \/ pc' = [pc EXCEPT ![a] = "poll"]
    <3>1. CASE Leave(a)
      BY <1>3, <3>1 DEF Leave, Goto
    <3>2. CASE PollStopped(a)
      <4>1. pc[a] = "poll" => pc = [pc EXCEPT ![a] = "poll"]
        OBVIOUS
      <4>2. QED
        BY <1>3, <3>2, <4>1 DEF PollStopped, Goto
    <3>3. QED
      BY <1>3, <3>1, <3>2 DEF DeleteService
  <2>3. QED
    BY <1>1, <2>1, <2>2, QuietStep DEF Owes, PCs, HasService
<1>4. QED
  BY <1>2, <1>3

-----------------------------------------------------------------------------
(* Steps of the driver's state.                                            *)

LEMMA StartServiceInv ==
  ASSUME LInv, NEW a \in Apps, StartService(a)
  PROVE  LInv'
<1>. USE DEF HasService, PCs, Owes, scmVars, ioVars, LoadFailed, LoadSucceeded, ExitWith,
            Goto, CloseService
<1>. /\ unload \in [Apps -> Results] /\ pc \in [Apps -> PCs]
     /\ a \in service
  BY DEF LInv, LifecycleType, Kept, StartService
<1>1. CASE state' = state
  BY <1>1, QuietStep DEF StartService
<1>2. CASE state' # state
  <2>1. /\ state = "STOPPED" /\ state' = "START_PENDING"
        /\ pc' = [pc EXCEPT ![a] = "starting"]
        /\ UNCHANGED <<registered, service, device, link, keep, unload>>
    BY <1>2 DEF StartService
  <2>2. LifecycleType' /\ DeviceIffDriver'
    BY <2>1 DEF LInv, LifecycleType, States, DeviceIffDriver
  <2>3. Kept' /\ OneStarts' /\ Responsible'
    BY <2>1 DEF LInv, Kept, OneStarts, Responsible
  <2>4. QED
    BY <2>2, <2>3 DEF LInv
<1>3. QED
  BY <1>1, <1>2

\* DriverEntry runs while no other instance starts the driver, and whoever
\* started it owes its stop.
LEMMA StartedInv ==
  ASSUME LInv, NEW a \in Apps, Started(a)
  PROVE  LInv'
<1>. USE DEF LInv
<1>1. state = "START_PENDING" /\ ~device /\ ~link /\ registered
  BY DEF Started, OneStarts, DeviceIffDriver, Kept
<1>2. /\ UNCHANGED <<registered, keep, unload>>
      /\ service' = service \ {a}
      /\ \/ state' = "RUNNING" /\ device' = TRUE /\ link' = TRUE
            /\ pc' = [pc EXCEPT ![a] = "detect"]
         \/ state' = "STOPPED" /\ device' = FALSE /\ link' = FALSE
            /\ pc' = [pc EXCEPT ![a] = "exited"]
         \/ state' = "STOPPED" /\ UNCHANGED <<device, link>>
            /\ pc' = [pc EXCEPT ![a] = "exited"]
  BY DEF Started, DriverEntry, LoadSucceeded, LoadFailed, ExitWith, Goto, CloseService
<1>3. LifecycleType'
  BY <1>2 DEF LifecycleType, PCs, States
<1>4. DeviceIffDriver'
  BY <1>1, <1>2 DEF DeviceIffDriver
<1>5. Kept'
  BY <1>1, <1>2 DEF Kept, LifecycleType, HasService
<1>6. OneStarts'
  BY <1>2 DEF OneStarts, LifecycleType, Started
<1>7. Responsible'
  BY <1>2 DEF Responsible, Owes, LifecycleType
<1>8. QED
  BY <1>3, <1>4, <1>5, <1>6, <1>7

LEMMA StopServiceInv ==
  ASSUME LInv, NEW a \in Apps, StopService(a)
  PROVE  LInv'
<1>. USE DEF HasService, PCs, Owes, scmVars, ioVars, Goto
<1>. /\ unload \in [Apps -> Results] /\ pc \in [Apps -> PCs]
     /\ a \in service
  BY DEF LInv, LifecycleType, Kept, StopService
<1>1. CASE state' = state
  <2>1. CASE UnloadReturns(a, "failed")
    BY <1>1, <2>1, UnloadReturnsInv DEF StopService
  <2>2. CASE ~UnloadReturns(a, "failed")
    <3>1. /\ pc[a] = "stop" /\ state = "STOPPED"
          /\ pc' = [pc EXCEPT ![a] = "poll"]
          /\ UNCHANGED <<registered, service, device, link, keep, unload>>
      BY <1>1, <2>2 DEF StopService
    <3>2. QED
      BY <1>1, <3>1, QuietStep
  <2>3. QED
    BY <2>1, <2>2
<1>2. CASE state' # state
  <2>1. /\ state = "RUNNING" /\ state' = "STOP_PENDING"
        /\ pc' = [pc EXCEPT ![a] = "poll"]
        /\ UNCHANGED <<registered, service, device, link, keep, unload>>
    BY <1>2 DEF StopService
  <2>2. LifecycleType' /\ DeviceIffDriver'
    BY <2>1 DEF LInv, LifecycleType, States, DeviceIffDriver
  <2>3. Kept' /\ OneStarts' /\ Responsible'
    BY <2>1 DEF LInv, Kept, OneStarts, Responsible
  <2>4. QED
    BY <2>2, <2>3 DEF LInv
<1>3. QED
  BY <1>1, <1>2

LEMMA SystemInv == LInv /\ System => LInv'
<1>. SUFFICES ASSUME LInv, System PROVE LInv'
  OBVIOUS
<1>. USE DEF LInv, appVars, ioVars
<1>1. CASE UnloadWhenClosed
  <2>1. /\ state = "STOP_PENDING" /\ state' = "STOPPED" /\ device' = FALSE /\ link' = FALSE
        /\ UNCHANGED <<registered, pc, keep, service, unload>>
    BY <1>1 DEF UnloadWhenClosed, DriverUnload
  <2>2. LifecycleType' /\ DeviceIffDriver'
    BY <2>1 DEF LifecycleType, States, DeviceIffDriver
  <2>3. Kept' /\ OneStarts' /\ Responsible'
    BY <2>1 DEF Kept, OneStarts, Responsible
  <2>4. QED
    BY <2>2, <2>3
<1>2. CASE Remove
  BY <1>2 DEF Remove, LifecycleType, DeviceIffDriver, Kept, OneStarts, Responsible, Owes
<1>3. QED
  BY <1>1, <1>2 DEF System

-----------------------------------------------------------------------------
(* The theorems.                                                           *)

LEMMA StepLInv == LInv /\ [Next]_vars => LInv'
<1>. SUFFICES ASSUME LInv, [Next]_vars PROVE LInv'
  OBVIOUS
<1>1. CASE UNCHANGED vars
  BY <1>1 DEF vars, scmVars, ioVars, appVars, LInv, LifecycleType, DeviceIffDriver, Kept,
              OneStarts, Responsible, Owes
<1>2. CASE System
  BY <1>2, SystemInv
<1>3. CASE \E a \in Apps : App(a) \/ Kill(a)
  BY <1>3, InstallInv, DetectInv, UninstallInv, StartServiceInv, StartedInv, StopServiceInv
     DEF App, Manage
<1>4. QED
  BY <1>1, <1>2, <1>3 DEF Next

LEMMA LifecycleInvariance == Init /\ [][Next]_vars => []LInv
BY InitLInv, StepLInv, PTL

\* For any number of instances, and whichever step of a start fails, the device
\* and its link are there exactly while the driver is.
THEOREM DeviceIffDriverThm == Spec => []DeviceIffDriver
BY LifecycleInvariance, PTL DEF Spec, LInv

\* For any number of instances, none of which keeps the driver, is killed or
\* fails to unload: when all have exited the driver does not run.
THEOREM DriverNotLeftBehindThm == Spec => []DriverNotLeftBehind
<1>1. LInv => DriverNotLeftBehind
  BY DEF LInv, Responsible, Owes, DriverNotLeftBehind
<1>2. QED
  BY <1>1, LifecycleInvariance, PTL DEF Spec

=============================================================================
