----------------------------- MODULE ArkReports -----------------------------
(***************************************************************************)
(* The reports of the detections (AntiRootKitApp/json_report_writer.cpp),  *)
(* written by instances of the app that share a directory: what happens    *)
(* before the action WriteReport of ArkLifecycle, and with it.             *)
(*                                                                         *)
(* Each detection has a file of its own.  A report is a sequence of parts: *)
(* its fields, one part for each hidden item, and its end.  The parts pass *)
(* through the stream's buffer and reach the file when it is flushed, at   *)
(* the latest when the stream is destroyed; nobody looks at the stream's   *)
(* state.  Instances open a file without sharing restrictions, and each    *)
(* writes at an offset of its own.                                         *)
(***************************************************************************)
EXTENDS ArkLifecycle, Sequences

CONSTANTS
  Kinds,         \* the detections whose reports are followed part by part
  HiddenCounts   \* sizes of their result vectors

ASSUME ReportsAssumption == Kinds \subseteq 1..Detections /\ HiddenCounts \subseteq Nat

VARIABLES
  files,       \* the file of each of Kinds: the parts in it
  stream,      \* the JsonReportWriter of each instance
  \* history
  closed,      \* <<a, k>>: instance a has closed its report of detection k
  intact       \* the latter, with its size: no write was lost, no other
               \* instance had the file open meanwhile or has opened it since

reportVars == <<files, stream, closed, intact>>
allVars == <<vars, reportVars>>

NoStream == [kind |-> 0, hidden |-> 0, next |-> 0, good |-> FALSE, alone |-> FALSE]
IsOpen(a) == stream[a].kind # 0
Others(a, k) == {b \in Apps \ {a} : stream[b].kind = k}

-----------------------------------------------------------------------------
(* The text.                                                               *)

\* What follows item i of a result: a comma, unless it is the last.
ItemEnd(i, hidden) == IF i < hidden THEN "comma" ELSE "none"

\* Part i of the report of an instance.
Part(a, i, hidden) ==
  CASE i = 1          -> [by |-> a, part |-> "fields", count |-> hidden]
    [] i = hidden + 2 -> [by |-> a, part |-> "end"]
    [] OTHER          -> [by |-> a, part |-> "item", after |-> ItemEnd(i - 1, hidden)]

Parts(hidden) == hidden + 2

\* A write at an offset beyond the end leaves a hole before it.
WriteAt(file, i, part) ==
  [j \in 1..(IF i > Len(file) THEN i ELSE Len(file)) |->
     IF j = i THEN part ELSE IF j <= Len(file) THEN file[j] ELSE [part |-> "hole"]]

-----------------------------------------------------------------------------
(* main, with a report to write.                                           *)

\* Seeded fault: what was in the file stays.
Truncated_NotAtAll(file) == file

\* ofstream::open for output alone truncates the file.
Truncated(file) == <<>>

OpenReport(a) ==
  /\ pc[a] = "report" /\ ~IsOpen(a) /\ detections[a] + 1 \in Kinds
  /\ LET k == detections[a] + 1 IN
     /\ files' = [files EXCEPT ![k] = Truncated(@)]
     /\ intact' = {i \in intact : i.kind # k}
     /\ \E n \in HiddenCounts :
          stream' = [b \in Apps |->
            IF b = a THEN [kind |-> k, hidden |-> n, next |-> 1, good |-> TRUE,
                           alone |-> Others(a, k) = {}]
            ELSE IF b \in Others(a, k) THEN [stream[b] EXCEPT !.alone = FALSE]
            ELSE stream[b]]
  /\ UNCHANGED <<vars, closed>>

\* isOpen() is false: the one failure of a report that main is told of.
OpenFails(a) ==
  /\ ~IsOpen(a) /\ detections[a] + 1 \in Kinds
  /\ WriteReport(a, TRUE)
  /\ UNCHANGED reportVars

\* Part i goes to the file, or the write fails, which the stream remembers.
Flush(a, i) ==
  LET s == stream[a] IN
  \/ /\ s.good
     /\ files' = [files EXCEPT ![s.kind] = WriteAt(@, i, Part(a, i, s.hidden))]
     /\ stream' = [stream EXCEPT ![a].next = i + 1]
  \/ /\ UNCHANGED files
     /\ stream' = [stream EXCEPT ![a].next = i + 1, ![a].good = FALSE]

\* One part but the last.
WritePart(a) ==
  /\ IsOpen(a) /\ stream[a].next < Parts(stream[a].hidden)
  /\ Flush(a, stream[a].next)
  /\ UNCHANGED <<vars, closed, intact>>

\* write* has returned true, and main has said so, when the stream flushes the
\* rest and is closed.
CloseReport(a) ==
  /\ IsOpen(a) /\ stream[a].next = Parts(stream[a].hidden)
  /\ LET s == stream[a] IN
     /\ \/ /\ s.good
           /\ files' = [files EXCEPT ![s.kind] =
                          WriteAt(@, s.next, Part(a, s.next, s.hidden))]
           /\ intact' = intact \union
                IF s.alone THEN {[by |-> a, kind |-> s.kind, hidden |-> s.hidden]} ELSE {}
        \/ UNCHANGED <<files, intact>>
     /\ closed' = closed \union {<<a, s.kind>>}
  /\ stream' = [stream EXCEPT ![a] = NoStream]
  /\ WriteReport(a, FALSE)

\* The reports that are not followed part by part.
OtherReport(a) ==
  /\ detections[a] + 1 \notin Kinds
  /\ \/ WriteReport(a, TRUE) /\ UNCHANGED closed
     \/ WriteReport(a, FALSE) /\ closed' = closed \union {<<a, detections[a] + 1>>}
  /\ UNCHANGED <<files, stream, intact>>

\* A stream of an instance that is killed is closed as it is.
KillWriter(a) ==
  /\ Kill(a)
  /\ stream' = [stream EXCEPT ![a] = NoStream]
  /\ UNCHANGED <<files, closed, intact>>

-----------------------------------------------------------------------------

Reporting(a) ==
  \/ Manage(a) /\ UNCHANGED reportVars
  \/ OpenReport(a) \/ OpenFails(a) \/ WritePart(a) \/ CloseReport(a) \/ OtherReport(a)

\* Reports of an earlier run may be there.
ReportsInit ==
  /\ Init
  /\ \E n \in {0, 5} : files = [k \in Kinds |-> [i \in 1..n |-> [part |-> "old"]]]
  /\ stream = [a \in Apps |-> NoStream]
  /\ closed = {} /\ intact = {}

ReportsNext ==
  \/ System /\ UNCHANGED reportVars
  \/ \E a \in Apps : Reporting(a) \/ KillWriter(a)

\* Fair as in ArkLifecycle.
ReportsSpec ==
  /\ ReportsInit /\ [][ReportsNext]_allVars
  /\ WF_allVars(System /\ UNCHANGED reportVars)
  /\ \A a \in Apps : WF_allVars(Reporting(a))

-----------------------------------------------------------------------------
(* Properties.                                                             *)

\* The file is one JSON object of one instance: its fields, as many items as
\* its hiddenCount says, with commas between them and only there, its end, and
\* nothing after that.
WholeReport(file, a) ==
  /\ Len(file) >= 2
  /\ \A i \in 1..Len(file) : file[i].part \in {"fields", "item", "end"} /\ file[i].by = a
  /\ file[1].part = "fields" /\ file[1].count = Len(file) - 2
  /\ file[Len(file)].part = "end"
  /\ \A i \in 2..(Len(file) - 1) :
       /\ file[i].part = "item"
       /\ file[i].after = "comma" <=> file[i + 1].part = "item"

\* A report that was written without a lost write, and whose file no other
\* instance had open meanwhile, is whole until the file is opened again,
\* whatever an earlier run left there and whoever is killed.
ReportWhole == \A i \in intact : WholeReport(files[i.kind], i.by)

\* A failure that main is told of decides the exit code, also when the detections
\* after it succeed: 0 exactly if every detection got as far as a report that
\* main took for written.  What is in the file then is another matter: see
\* ExitCodeTellsSuccess.
ToldFailuresKept ==
  \A a \in Apps : pc[a] = "exited" =>
    (exitCode[a] = 0 <=> \A k \in 1..Detections : <<a, k>> \in closed)

NoOtherRan(a) == \A b \in Apps \ {a} : pc[b] = "main"

\* "Returns 0 on success and a non-zero error code on failure"
\* (AntiRootKitApp/main.cpp:19), and a write* of the JsonReportWriter "returns
\* true when the write succeeded" (AntiRootKitApp/json_report_writer.h:32).  The
\* least that this can mean: an instance that returns 0, and that no other was
\* in the way of, has left its reports whole in their files, or else its
\* unloadDriver at least did not fail.
ExitCodeTellsSuccess ==
  \A a \in Apps :
    pc[a] = "exited" /\ exitCode[a] = 0 /\ NoOtherRan(a)
      => \/ \A k \in Kinds : WholeReport(files[k], a)
         \/ unload[a] # "failed"

=============================================================================
