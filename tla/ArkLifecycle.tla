---------------------------- MODULE ArkLifecycle ----------------------------
(***************************************************************************)
(* The life of the driver: instances of the app (AntiRootKitApp/main.cpp)  *)
(* that register, start, use, stop and delete the ARK service              *)
(* (AntiRootKitApp/DriveRelated.cpp), and what the driver does when it is  *)
(* started and stopped (AntiRootKitDriver/DriverEntry.c).                  *)
(*                                                                         *)
(* Each call of the service control manager, or SCM, is one action: it is  *)
(* a remote call, and another instance may act between any two of them.    *)
(* Opening the SCM itself changes nothing and is part of the call that     *)
(* follows.                                                                *)
(***************************************************************************)
EXTENDS Integers, FiniteSets

CONSTANTS
  Apps,        \* instances of the app
  Detections,  \* how many detections main runs: 3
  StopPolls    \* STOP_WAIT_COUNT

ASSUME LifecycleAssumption == Detections \in Nat \ {0} /\ StopPolls \in Nat \ {0}

VARIABLES
  \* the SCM and the I/O manager
  registered,  \* the ARK service exists
  marked,      \* it has been marked for deletion
  imagePath,   \* the instance whose sys the service names
  state,       \* dwCurrentState
  image,       \* the instance whose sys was loaded last
  device,      \* \Device\ARK exists
  link,        \* \DosDevices\ARK exists
  users,       \* instances with the device open
  \* the instances
  pc,
  keep,        \* -keep was given
  service,     \* instances with a handle of the service
  polls,       \* waitIndex of uninstallDriver
  detections,  \* how many of the detections are done
  exitCode,
  unload       \* what unloadDriver returned

scmVars == <<registered, marked, imagePath, state, image>>
ioVars == <<device, link, users>>
appVars == <<pc, keep, service, polls, detections, exitCode, unload>>
vars == <<scmVars, ioVars, appVars>>

NoImage == "none"

Goto(a, next) == pc' = [pc EXCEPT ![a] = next]
CloseService(a) == service' = service \ {a}

-----------------------------------------------------------------------------
(* The driver.                                                             *)

\* Seeded fault: the device is left behind when the link cannot be made.
DriverEntry_NoRollback ==
  \/ /\ ~device
     /\ \/ device' = TRUE /\ link' = TRUE /\ state' = "RUNNING"
        \/ device' = TRUE /\ link' = FALSE /\ state' = "STOPPED"
  \/ UNCHANGED <<device, link>> /\ state' = "STOPPED"

\* DriverEntry, run by the start of the service: IoCreateDevice may fail, and
\* does when the name is taken; the link is made anew, and when that fails
\* the device is deleted.
DriverEntry ==
  \/ ~device /\ device' = TRUE /\ link' = TRUE /\ state' = "RUNNING"
  \/ ~device /\ device' = FALSE /\ link' = FALSE /\ state' = "STOPPED"
  \/ UNCHANGED <<device, link>> /\ state' = "STOPPED"

DriverUnload == device' = FALSE /\ link' = FALSE /\ state' = "STOPPED"

\* The I/O manager calls DriverUnload once nobody has the device open.
UnloadWhenClosed ==
  /\ state = "STOP_PENDING" /\ users = {}
  /\ DriverUnload
  /\ UNCHANGED <<registered, marked, imagePath, image, users, appVars>>

\* The SCM removes a service marked for deletion when it is stopped and
\* nobody has a handle of it.
Remove ==
  /\ registered /\ marked /\ state = "STOPPED" /\ service = {}
  /\ registered' = FALSE /\ marked' = FALSE /\ imagePath' = NoImage
  /\ UNCHANGED <<state, image, ioVars, appVars>>

System == UnloadWhenClosed \/ Remove

-----------------------------------------------------------------------------
(* installDriver.                                                          *)

\* main returns.
ExitWith(a, code) ==
  /\ Goto(a, "exited")
  /\ exitCode' = [exitCode EXCEPT ![a] = code]

\* loadDriver returned false: main returns 1, and does not unload.
LoadFailed(a) ==
  /\ CloseService(a)
  /\ ExitWith(a, 1)

LoadSucceeded(a) ==
  /\ CloseService(a)
  /\ Goto(a, "detect")
  /\ UNCHANGED exitCode

\* main finds its directory and the sys file; the SCM and the service are
\* opened, or cannot be.
OpenForInstall(a) ==
  /\ pc[a] = "main"
  /\ \/ /\ registered /\ Goto(a, "change")
        /\ service' = service \union {a} /\ UNCHANGED exitCode
     \/ ~registered /\ Goto(a, "create") /\ UNCHANGED <<service, exitCode>>
     \/ LoadFailed(a)
  /\ UNCHANGED <<scmVars, ioVars, keep, polls, detections, unload>>

\* CreateServiceA fails when another instance was first.
CreateService(a) ==
  /\ pc[a] = "create"
  /\ \/ /\ ~registered
        /\ registered' = TRUE /\ imagePath' = a
        /\ service' = service \union {a}
        /\ Goto(a, "query")
        /\ UNCHANGED exitCode
     \/ LoadFailed(a) /\ UNCHANGED <<registered, imagePath>>
  /\ UNCHANGED <<marked, state, image, ioVars, keep, polls, detections, unload>>

\* ChangeServiceConfigA is refused for a service marked for deletion.
ChangeServiceConfig(a) ==
  /\ pc[a] = "change"
  /\ \/ /\ ~marked
        /\ imagePath' = a
        /\ Goto(a, "query")
        /\ UNCHANGED <<service, exitCode>>
     \/ LoadFailed(a) /\ UNCHANGED imagePath
  /\ UNCHANGED <<registered, marked, state, image, ioVars, keep, polls, detections,
                 unload>>

\* A running service is a success whatever image it runs; one that is being
\* started is not.
QueryState(a) ==
  /\ pc[a] = "query"
  /\ \/ state = "RUNNING" /\ LoadSucceeded(a)
     \/ /\ state \in {"STOPPED", "STOP_PENDING"}
        /\ Goto(a, "start")
        /\ UNCHANGED <<service, exitCode>>
     \/ LoadFailed(a)
  /\ UNCHANGED <<scmVars, ioVars, keep, polls, detections, unload>>

\* StartServiceA.  The SCM starts a stopped service that is not marked for
\* deletion; ERROR_SERVICE_ALREADY_RUNNING counts as success.
StartService(a) ==
  /\ pc[a] = "start"
  /\ \/ /\ state = "STOPPED" /\ ~marked
        /\ state' = "START_PENDING"
        /\ Goto(a, "starting")
        /\ UNCHANGED <<service, exitCode>>
     \/ state \in {"RUNNING", "START_PENDING"} /\ LoadSucceeded(a) /\ UNCHANGED state
     \/ LoadFailed(a) /\ UNCHANGED state
  /\ UNCHANGED <<registered, marked, imagePath, image, ioVars, keep, polls,
                 detections, unload>>

\* The image is loaded and DriverEntry runs; StartServiceA returns.
Started(a) ==
  /\ pc[a] = "starting"
  /\ DriverEntry
  /\ IF state' = "RUNNING"
       THEN LoadSucceeded(a) /\ image' = imagePath
       ELSE LoadFailed(a) /\ UNCHANGED image
  /\ UNCHANGED <<registered, marked, imagePath, users, keep, polls, detections, unload>>

-----------------------------------------------------------------------------
(* The detections.                                                         *)

\* Seeded fault: the last detection decides.
DetectionDone_LastWins(a, failed) ==
  /\ detections' = [detections EXCEPT ![a] = @ + 1]
  /\ exitCode' = [exitCode EXCEPT ![a] = IF failed THEN 1 ELSE 0]
  /\ Goto(a, "detect")

\* The first error becomes the exit code; the next detection follows anyway.
DetectionDone(a, failed) ==
  /\ detections' = [detections EXCEPT ![a] = @ + 1]
  /\ exitCode' = [exitCode EXCEPT ![a] = IF failed THEN 1 ELSE @]
  /\ Goto(a, "detect")

\* CreateFileW finds the device through its link; the device is exclusive
\* and not opened any more once its unloading has been asked for.
OpenDevice(a) ==
  /\ pc[a] = "detect" /\ detections[a] < Detections
  /\ \/ /\ link /\ state = "RUNNING" /\ users = {}
        /\ users' = {a}
        /\ Goto(a, "ioctl")
        /\ UNCHANGED <<detections, exitCode>>
     \/ DetectionDone(a, TRUE) /\ UNCHANGED users
  /\ UNCHANGED <<scmVars, device, link, keep, service, polls, unload>>

\* DeviceIoControl returns, the handle is closed and the views are compared,
\* unless something fails.
FinishDetection(a) ==
  /\ pc[a] = "ioctl"
  /\ users' = users \ {a}
  /\ \/ Goto(a, "report") /\ UNCHANGED <<detections, exitCode>>
     \/ DetectionDone(a, TRUE)
  /\ UNCHANGED <<scmVars, device, link, keep, service, polls, unload>>

\* The report is written, or is said not to be.  ArkReports says how.
WriteReport(a, failed) ==
  /\ pc[a] = "report"
  /\ DetectionDone(a, failed)
  /\ UNCHANGED <<scmVars, ioVars, keep, service, polls, unload>>

-----------------------------------------------------------------------------
(* uninstallDriver.                                                        *)

\* main ignores what unloadDriver returns.
UnloadReturns(a, result) ==
  /\ unload' = [unload EXCEPT ![a] = result]
  /\ CloseService(a)
  /\ Goto(a, "exited")

\* Seeded fault: a failed detection leaves without unloading.
Leave_OnError(a) ==
  /\ pc[a] = "detect" /\ detections[a] = Detections
  /\ IF keep[a] \/ exitCode[a] # 0
       THEN Goto(a, "exited") /\ UNCHANGED <<service, unload>>
       ELSE \/ /\ registered /\ Goto(a, "stop")
               /\ service' = service \union {a} /\ UNCHANGED unload
            \/ ~registered /\ UnloadReturns(a, "ok")
            \/ UnloadReturns(a, "failed")
  /\ UNCHANGED <<scmVars, ioVars, keep, polls, detections, exitCode>>

\* The detections are over: with -keep that is all; otherwise the service is
\* opened to be stopped, and is a success when it is gone already.
Leave(a) ==
  /\ pc[a] = "detect" /\ detections[a] = Detections
  /\ IF keep[a]
       THEN Goto(a, "exited") /\ UNCHANGED <<service, unload>>
       ELSE \/ /\ registered /\ Goto(a, "stop")
               /\ service' = service \union {a} /\ UNCHANGED unload
            \/ ~registered /\ UnloadReturns(a, "ok")
            \/ UnloadReturns(a, "failed")
  /\ UNCHANGED <<scmVars, ioVars, keep, polls, detections, exitCode>>

\* ControlService(STOP): ERROR_SERVICE_NOT_ACTIVE is no failure.  A driver
\* whose device is open stops when it is closed.
StopService(a) ==
  /\ pc[a] = "stop"
  /\ \/ /\ state = "RUNNING" /\ state' = "STOP_PENDING"
        /\ Goto(a, "poll") /\ UNCHANGED <<service, unload>>
     \/ state = "STOPPED" /\ Goto(a, "poll") /\ UNCHANGED <<state, service, unload>>
     \/ UnloadReturns(a, "failed") /\ UNCHANGED state
  /\ polls' = [polls EXCEPT ![a] = 0]
  /\ UNCHANGED <<registered, marked, imagePath, image, ioVars, keep, detections,
                 exitCode>>

\* Seeded fault: the turns of the wait are not counted.
PollStopped_Uncounted(a) ==
  /\ pc[a] = "poll"
  /\ state = "STOPPED" /\ Goto(a, "delete")
  /\ UNCHANGED <<scmVars, ioVars, keep, service, polls, unload, detections, exitCode>>

\* One turn of the wait.  The query may fail; when the wait is over the
\* service is not deleted.
PollStopped(a) ==
  /\ pc[a] = "poll"
  /\ \/ /\ polls[a] < StopPolls /\ state = "STOPPED"
        /\ Goto(a, "delete") /\ UNCHANGED <<service, polls, unload>>
     \/ /\ polls[a] < StopPolls /\ state # "STOPPED"
        /\ polls' = [polls EXCEPT ![a] = @ + 1]
        /\ UNCHANGED <<pc, service, unload>>
     \/ UnloadReturns(a, "failed") /\ UNCHANGED polls
  /\ UNCHANGED <<scmVars, ioVars, keep, detections, exitCode>>

\* Seeded fault: the service is left registered.
DeleteService_Skipped(a) ==
  /\ pc[a] = "delete"
  /\ UnloadReturns(a, "ok")
  /\ UNCHANGED <<scmVars, ioVars, keep, polls, detections, exitCode>>

\* DeleteService marks the service, running again or not; a service that is
\* marked already is no failure.
DeleteService(a) ==
  /\ pc[a] = "delete"
  /\ \/ marked' = TRUE /\ UnloadReturns(a, "ok")
     \/ UNCHANGED marked /\ UnloadReturns(a, "failed")
  /\ UNCHANGED <<registered, imagePath, state, image, ioVars, keep, polls,
                 detections, exitCode>>

-----------------------------------------------------------------------------

Manage(a) ==
  \/ OpenForInstall(a) \/ CreateService(a) \/ ChangeServiceConfig(a)
  \/ QueryState(a) \/ StartService(a) \/ Started(a)
  \/ OpenDevice(a) \/ FinishDetection(a)
  \/ Leave(a) \/ StopService(a) \/ PollStopped(a) \/ DeleteService(a)

App(a) == Manage(a) \/ \E failed \in BOOLEAN : WriteReport(a, failed)

\* The user closes the console: the instance's handles are closed and nothing
\* of what it was to do is done.  Not while the service is being started: that
\* call would go on without it.
Kill(a) ==
  /\ pc[a] \notin {"main", "starting", "exited", "killed"}
  /\ Goto(a, "killed")
  /\ users' = users \ {a}
  /\ CloseService(a)
  /\ UNCHANGED <<scmVars, device, link, keep, polls, detections, exitCode, unload>>

Init ==
  /\ registered = FALSE /\ marked = FALSE /\ imagePath = NoImage
  /\ image = NoImage
  /\ state = "STOPPED" /\ device = FALSE /\ link = FALSE /\ users = {}
  /\ pc = [a \in Apps |-> "main"]
  /\ keep \in [Apps -> BOOLEAN]
  /\ service = {}
  /\ polls = [a \in Apps |-> 0]
  /\ detections = [a \in Apps |-> 0]
  /\ exitCode = [a \in Apps |-> 0]
  /\ unload = [a \in Apps |-> "not called"]

Next == System \/ \E a \in Apps : App(a) \/ Kill(a)

\* Every instance's thread is scheduled, and so are the system's workers.
Spec ==
  /\ Init /\ [][Next]_vars
  /\ WF_vars(System) /\ \A a \in Apps : WF_vars(App(a))

-----------------------------------------------------------------------------
(* Properties.                                                             *)

\* The device and its link exist exactly while the driver runs or waits to be
\* unloaded, whichever step of a start failed before (the rollback of
\* DriverEntry): otherwise no later start could create the device.
DeviceIffDriver ==
  /\ device <=> state \in {"RUNNING", "STOP_PENDING"}
  /\ link <=> device

AllExited == \A a \in Apps : pc[a] \in {"exited", "killed"}

\* However instances overlap, when all have exited and none was to keep the
\* driver or was killed, it is not running, unless an unloadDriver returned
\* false: every instance that found it running, its own start or not, tries
\* to stop it.
DriverNotLeftBehind ==
  (\A a \in Apps : pc[a] = "exited" /\ ~keep[a] /\ unload[a] # "failed")
    => state # "RUNNING"

\* When every instance has unloaded with success the service disappears, also
\* when it was marked for deletion while another instance had it restarted.
ServiceNotLeftBehind ==
  (AllExited /\ \A a \in Apps : unload[a] = "ok") ~> ~registered

\* Every instance exits: the wait for the driver to stop is bounded.
AppsExit == <>AllExited

\* "When the service exists ImagePath is updated too, so that the sys under
\* the old path is not loaded any more" (AntiRootKitApp/DriveRelated.cpp:97): an
\* instance queries the driver of its own directory.
OwnImageQueried == \A a \in Apps : pc[a] = "ioctl" => image = a

=============================================================================
