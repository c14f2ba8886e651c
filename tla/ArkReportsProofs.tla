--------------------------- MODULE ArkReportsProofs ---------------------------
(***************************************************************************)
(* Proofs about module ArkReports, for any number of instances, detections *)
(* and hidden items: a step with its reports is a step of ArkLifecycle, a  *)
(* report that was written undisturbed is whole, and the exit code tells   *)
(* which reports there are.                                                *)
(***************************************************************************)
EXTENDS ArkReports, ArkLifecycleProofs, SequenceTheorems

-----------------------------------------------------------------------------
(* The reports implement the life cycle.                                   *)

LEMMA ReportsStep == [ReportsNext]_allVars => [Next]_vars
<1>. SUFFICES ASSUME [ReportsNext]_allVars PROVE [Next]_vars
  OBVIOUS
<1>1. CASE UNCHANGED allVars
  BY <1>1 DEF allVars
<1>2. CASE System /\ UNCHANGED reportVars
  BY <1>2 DEF Next
<1>3. ASSUME NEW a \in Apps, Reporting(a) PROVE [Next]_vars
  <2>1. CASE Manage(a)
    BY <2>1 DEF Next, App
  <2>2. CASE OpenReport(a) \/ WritePart(a)
    BY <2>2 DEF OpenReport, WritePart
  <2>3. CASE OpenFails(a) \/ CloseReport(a) \/ OtherReport(a)
    <3>1. \E failed \in BOOLEAN : WriteReport(a, failed)
      BY <2>3 DEF OpenFails, CloseReport, OtherReport
    <3>2. QED
      BY <3>1 DEF Next, App
  <2>4. QED
    BY <1>3, <2>1, <2>2, <2>3 DEF Reporting
<1>4. ASSUME NEW a \in Apps, KillWriter(a) PROVE [Next]_vars
  BY <1>4 DEF KillWriter, Next
<1>5. QED
  BY <1>1, <1>2, <1>3, <1>4 DEF ReportsNext

\* Nothing that is done with the files changes what an instance does: each
\* behaviour with reports is one of ArkLifecycle, up to fairness.
THEOREM ReportsImplement == ReportsSpec => Init /\ [][Next]_vars
<1>1. ReportsInit => Init
  BY DEF ReportsInit
<1>2. QED
  BY <1>1, ReportsStep, PTL DEF ReportsSpec

-----------------------------------------------------------------------------
(* Files.                                                                  *)

\* A function on 1..n has length n.
LEMMA LengthOfFunction ==
  ASSUME NEW n \in Nat, NEW f, f = [j \in 1..n |-> f[j]]
  PROVE  Len(f) = n
<1>. DEFINE S == {f[j] : j \in 1..n}
<1>1. f \in [1..n -> S]
  OBVIOUS
<1>2. f \in Seq(S)
  BY <1>1, SeqDef
<1>3. DOMAIN f = 1..n /\ DOMAIN f = 1..Len(f) /\ Len(f) \in Nat
  BY <1>1, <1>2, LenProperties
<1>4. QED
  BY <1>3

\* The first n parts of a report of instance a are in a file, and no more.
HasParts(file, a, hidden, n) ==
  /\ Len(file) = n
  /\ \A j \in 1..n : file[j] = Part(a, j, hidden)

LEMMA WritesNextPart ==
  ASSUME NEW file, NEW a, NEW hidden, NEW n \in Nat, HasParts(file, a, hidden, n)
  PROVE  HasParts(WriteAt(file, n + 1, Part(a, n + 1, hidden)), a, hidden, n + 1)
<1>. DEFINE new == WriteAt(file, n + 1, Part(a, n + 1, hidden))
<1>1. new = [j \in 1..(n + 1) |->
               IF j = n + 1 THEN Part(a, n + 1, hidden)
               ELSE IF j <= n THEN file[j] ELSE [part |-> "hole"]]
  BY DEF WriteAt, HasParts
<1>2. new = [j \in 1..(n + 1) |-> new[j]]
  BY <1>1
<1>3. Len(new) = n + 1
  <2>. HIDE DEF new
  <2>. QED
    BY <1>2, LengthOfFunction
<1>4. \A j \in 1..(n + 1) : new[j] = Part(a, j, hidden)
  BY <1>1 DEF HasParts
<1>5. QED
  BY <1>3, <1>4 DEF HasParts

\* All the parts make the report that ReportWhole speaks of.
LEMMA AllPartsAreWhole ==
  ASSUME NEW file, NEW a, NEW hidden \in Nat,
         HasParts(file, a, hidden, Parts(hidden))
  PROVE  WholeReport(file, a)
<1>1. Len(file) = hidden + 2
  BY DEF HasParts, Parts
<1>2. file[1] = [by |-> a, part |-> "fields", count |-> hidden]
  BY <1>1 DEF HasParts, Parts, Part
<1>3. file[hidden + 2] = [by |-> a, part |-> "end"]
  BY <1>1 DEF HasParts, Parts, Part
<1>4. ASSUME NEW i \in 2..(hidden + 1)
      PROVE  /\ file[i].part = "item" /\ file[i].by = a
             /\ file[i].after = ItemEnd(i - 1, hidden)
  <2>1. file[i] = [by |-> a, part |-> "item", after |-> ItemEnd(i - 1, hidden)]
    BY DEF HasParts, Parts, Part
  <2>2. QED
    BY <2>1
<1>5. \A i \in 1..Len(file) : file[i].part \in {"fields", "item", "end"} /\ file[i].by = a
  <2>. TAKE i \in 1..Len(file)
  <2>1. i = 1 \/ i = hidden + 2 \/ i \in 2..(hidden + 1)
    BY <1>1
  <2>2. CASE i \in 2..(hidden + 1)
    BY <1>4, <2>2
  <2>3. QED
    BY <1>2, <1>3, <2>1, <2>2
<1>6. \A i \in 2..(Len(file) - 1) :
        /\ file[i].part = "item"
        /\ file[i].after = "comma" <=> file[i + 1].part = "item"
  <2>. TAKE i \in 2..(Len(file) - 1)
  <2>. i \in 2..(hidden + 1) /\ i \in Int
    BY <1>1
  <2>1. file[i].part = "item" /\ file[i].after = ItemEnd(i - 1, hidden)
    BY <1>4
  <2>2. CASE i - 1 < hidden
    <3>1. i + 1 \in 2..(hidden + 1)
      BY <2>2
    <3>2. file[i + 1].part = "item"
      BY <1>4, <3>1
    <3>3. QED
      BY <2>1, <2>2, <3>2 DEF ItemEnd
  <2>3. CASE ~(i - 1 < hidden)
    <3>1. i + 1 = hidden + 2
      BY <1>1, <2>3
    <3>2. QED
      BY <1>3, <2>1, <2>3, <3>1 DEF ItemEnd
  <2>4. QED
    BY <2>2, <2>3
<1>7. QED
  BY <1>1, <1>2, <1>3, <1>5, <1>6 DEF WholeReport

-----------------------------------------------------------------------------
(* The inductive invariant of the files.                                   *)

\* What is known of an open stream: only one of a file can be alone, and its
\* parts so far are the file.
StreamOK(a) ==
  LET s == stream[a] IN
  /\ s.kind \in Kinds
  /\ s.hidden \in Nat /\ s.next \in 1..Parts(s.hidden)
  /\ s.alone => \A b \in Apps \ {a} : stream[b].kind # s.kind
  /\ s.alone /\ s.good => HasParts(files[s.kind], a, s.hidden, s.next - 1)

\* A report of intact is complete, and nobody has its file open.
IntactOK(i) ==
  /\ i.kind \in Kinds /\ i.hidden \in Nat
  /\ \A b \in Apps : stream[b].kind # i.kind
  /\ HasParts(files[i.kind], i.by, i.hidden, Parts(i.hidden))

StreamRecord ==
  [kind : Nat, hidden : Nat, next : Nat, good : BOOLEAN, alone : BOOLEAN]

FilesInv ==
  /\ stream \in [Apps -> StreamRecord]
  /\ DOMAIN files = Kinds
  /\ \A a \in Apps : IsOpen(a) => StreamOK(a)
  /\ \A i \in intact : IntactOK(i)

KindsAreNumbers == Kinds \subseteq Nat \ {0}

LEMMA KindsNat == KindsAreNumbers
BY ReportsAssumption, LifecycleAssumption DEF KindsAreNumbers

LEMMA InitFilesInv == ReportsInit => FilesInv
BY DEF ReportsInit, FilesInv, NoStream, IsOpen, StreamRecord

LEMMA OpenFilesInv ==
  ASSUME FilesInv, NEW a \in Apps, OpenReport(a)
  PROVE  FilesInv'
<1>0. PICK k \in Kinds : k = detections[a] + 1
  BY DEF OpenReport
<1>1. /\ k \in Nat \ {0}
      /\ files' = [files EXCEPT ![k] = <<>>]
      /\ intact' = {i \in intact : i.kind # k}
  BY <1>0, KindsNat DEF OpenReport, Truncated, KindsAreNumbers
<1>2. PICK n \in HiddenCounts :
        stream' = [b \in Apps |->
            IF b = a THEN [kind |-> k, hidden |-> n, next |-> 1, good |-> TRUE,
                           alone |-> Others(a, k) = {}]
            ELSE IF b \in Others(a, k) THEN [stream[b] EXCEPT !.alone = FALSE]
            ELSE stream[b]]
  BY <1>0 DEF OpenReport
<1>3. n \in Nat
  BY ReportsAssumption
<1>4. /\ stream'[a] = [kind |-> k, hidden |-> n, next |-> 1, good |-> TRUE,
                       alone |-> Others(a, k) = {}]
      /\ \A b \in Apps \ {a} :
           stream'[b] = IF stream[b].kind = k THEN [stream[b] EXCEPT !.alone = FALSE]
                                              ELSE stream[b]
  BY <1>2 DEF Others
<1>5. ASSUME NEW b \in Apps \ {a}
      PROVE  /\ stream'[b].kind = stream[b].kind /\ stream'[b].hidden = stream[b].hidden
             /\ stream'[b].next = stream[b].next /\ stream'[b].good = stream[b].good
             /\ stream'[b].alone => stream[b].alone /\ stream[b].kind # k
             /\ stream'[b] \in StreamRecord
  <2>1. stream[b] \in StreamRecord
    BY DEF FilesInv
  <2>2. CASE stream[b].kind = k
    <3>1. stream'[b] = [stream[b] EXCEPT !.alone = FALSE]
      BY <1>4, <2>2
    <3>2. stream'[b].alone = FALSE
      BY <2>1, <3>1 DEF StreamRecord
    <3>3. QED
      BY <2>1, <3>1, <3>2 DEF StreamRecord
  <2>3. CASE stream[b].kind # k
    <3>1. stream'[b] = stream[b]
      BY <1>4, <2>3
    <3>2. QED
      BY <2>1, <2>3, <3>1
  <2>4. QED
    BY <2>2, <2>3
<1>6. DOMAIN files' = Kinds /\ files'[k] = <<>> /\ \A m \in Kinds \ {k} : files'[m] = files[m]
  BY <1>1 DEF FilesInv
<1>7. stream' \in [Apps -> StreamRecord]
  <2>1. stream'[a] \in StreamRecord
    BY <1>1, <1>3, <1>4 DEF StreamRecord
  <2>2. QED
    BY <1>2, <1>5, <2>1
<1>8. StreamOK(a)'
  <2>1. HasParts(<<>>, a, n, 0)
    BY DEF HasParts
  <2>2. Others(a, k) = {} => \A b \in Apps \ {a} : stream'[b].kind # k
    BY <1>5 DEF Others
  <2>3. /\ stream'[a].kind = k /\ stream'[a].hidden = n /\ stream'[a].next = 1
        /\ stream'[a].alone => Others(a, k) = {}
    <3>1. (Others(a, k) = {}) \in BOOLEAN
      OBVIOUS
    <3>2. PICK alone \in BOOLEAN : alone = (Others(a, k) = {})
      BY <3>1
    <3>3. stream'[a] = [kind |-> k, hidden |-> n, next |-> 1, good |-> TRUE, alone |-> alone]
      BY <1>4, <3>2
    <3>4. /\ stream'[a].kind = k /\ stream'[a].hidden = n /\ stream'[a].next = 1
          /\ stream'[a].alone = alone
      BY <3>3
    <3>5. alone => Others(a, k) = {}
      BY <3>2, Zenon
    <3>6. QED
      BY <3>4, <3>5
  <2>4. HasParts(files[k], a, n, 1 - 1)'
    BY <1>6, <2>1
  <2>5. QED
    BY <1>1, <1>3, <2>2, <2>3, <2>4 DEF StreamOK, Parts
<1>9. ASSUME NEW b \in Apps \ {a}, IsOpen(b)' PROVE StreamOK(b)'
  <2>1. StreamOK(b)
    BY <1>5, <1>9 DEF IsOpen, FilesInv
  <2>2. stream'[b].alone => stream'[a].kind # stream'[b].kind
    BY <1>4, <1>5
  <2>3. QED
    BY <1>5, <1>6, <2>1, <2>2 DEF StreamOK
<1>10. ASSUME NEW i \in intact' PROVE IntactOK(i)'
  BY <1>1, <1>4, <1>5, <1>6 DEF IntactOK, FilesInv
<1>11. QED
  BY <1>6, <1>7, <1>8, <1>9, <1>10 DEF FilesInv

LEMMA WriteFilesInv ==
  ASSUME FilesInv, NEW a \in Apps, WritePart(a)
  PROVE  FilesInv'
<1>. DEFINE i == stream[a].next
            s == stream[a]
<1>1. StreamOK(a) /\ s \in StreamRecord /\ i \in Nat \ {0} /\ i < Parts(s.hidden)
  BY DEF FilesInv, WritePart, StreamOK
<1>2. UNCHANGED intact
  BY DEF WritePart
<1>3. PICK good \in BOOLEAN :
        /\ stream' = [stream EXCEPT ![a] = [s EXCEPT !.next = i + 1, !.good = good]]
        /\ \/ /\ good = TRUE /\ s.good = TRUE
              /\ files' = [files EXCEPT ![s.kind] = WriteAt(@, i, Part(a, i, s.hidden))]
           \/ good = FALSE /\ UNCHANGED files
  <2>1. CASE /\ s.good
             /\ files' = [files EXCEPT ![s.kind] = WriteAt(@, i, Part(a, i, s.hidden))]
             /\ stream' = [stream EXCEPT ![a].next = i + 1]
    <3>1. s.good = TRUE
      BY <1>1, <2>1 DEF StreamRecord
    <3>2. [s EXCEPT !.next = i + 1] = [s EXCEPT !.next = i + 1, !.good = TRUE]
      BY <1>1, <3>1 DEF StreamRecord
    <3>3. stream' = [stream EXCEPT ![a] = [s EXCEPT !.next = i + 1, !.good = TRUE]]
      BY <2>1, <3>2
    <3>4. QED
      BY <2>1, <3>3
  <2>2. CASE /\ UNCHANGED files
             /\ stream' = [stream EXCEPT ![a].next = i + 1, ![a].good = FALSE]
    <3>1. stream' = [stream EXCEPT ![a] = [s EXCEPT !.next = i + 1, !.good = FALSE]]
      BY <2>2 DEF FilesInv
    <3>2. QED
      BY <2>2, <3>1
  <2>3. QED
    BY <2>1, <2>2 DEF WritePart, Flush
<1>. HIDE DEF s, i
<1>4. /\ stream' \in [Apps -> StreamRecord]
      /\ \A b \in Apps \ {a} : stream'[b] = stream[b]
      /\ stream'[a].kind = s.kind /\ stream'[a].hidden = s.hidden
      /\ stream'[a].next = i + 1
      /\ stream'[a].alone = s.alone /\ stream'[a].good = good
  <2>. DEFINE t == [s EXCEPT !.next = i + 1, !.good = good]
  <2>1. /\ t \in StreamRecord
        /\ t.kind = s.kind /\ t.hidden = s.hidden /\ t.next = i + 1
        /\ t.alone = s.alone /\ t.good = good
    <3>1. good \in BOOLEAN /\ s \in StreamRecord /\ i + 1 \in Nat
      BY <1>1
    <3>2. t \in StreamRecord
      BY <3>1 DEF StreamRecord
    <3>3. t.kind = s.kind /\ t.hidden = s.hidden /\ t.next = i + 1
      BY <3>1 DEF StreamRecord
    <3>4. t.alone = s.alone /\ t.good = good
      BY <3>1, Zenon DEF StreamRecord
    <3>5. QED
      BY <3>2, <3>3, <3>4
  <2>2. stream \in [Apps -> StreamRecord] /\ stream' = [stream EXCEPT ![a] = t]
    BY <1>3 DEF FilesInv
  <2>. HIDE DEF t
  <2>3. stream'[a] = t
    BY <2>2
  <2>4. stream' \in [Apps -> StreamRecord] /\ \A b \in Apps \ {a} : stream'[b] = stream[b]
    BY <2>1, <2>2
  <2>5. QED
    BY <2>1, <2>3, <2>4
<1>5. DOMAIN files' = Kinds /\ \A k \in Kinds \ {s.kind} : files'[k] = files[k]
  BY <1>3 DEF FilesInv
<1>6. StreamOK(a)'
  <2>1. s.alone = TRUE /\ good = TRUE => HasParts(files'[s.kind], a, s.hidden, i)
    <3>. SUFFICES ASSUME s.alone = TRUE, good = TRUE PROVE HasParts(files'[s.kind], a, s.hidden, i)
      OBVIOUS
    <3>1. HasParts(files[s.kind], a, s.hidden, i - 1) /\ s.kind \in Kinds
      BY <1>1, <1>3 DEF StreamOK, s, i
    <3>2. files'[s.kind] = WriteAt(files[s.kind], i, Part(a, i, s.hidden))
      BY <1>3, <3>1 DEF FilesInv
    <3>3. i - 1 \in Nat /\ i - 1 + 1 = i
      BY <1>1
    <3>4. QED
      BY <3>1, <3>2, <3>3, WritesNextPart
  <2>2. s.kind \in Kinds /\ s.hidden \in Nat /\ i + 1 \in 1..Parts(s.hidden)
    BY <1>1 DEF StreamOK, Parts, s
  <2>3. s.alone => \A b \in Apps \ {a} : stream'[b].kind # s.kind
    BY <1>1, <1>4 DEF StreamOK, s
  <2>4. /\ stream'[a].kind \in Kinds /\ stream'[a].hidden \in Nat
        /\ stream'[a].next \in 1..Parts(stream'[a].hidden)
    BY <1>4, <2>2
  <2>5. stream'[a].alone => \A b \in Apps \ {a} : stream'[b].kind # stream'[a].kind
    BY <1>4, <2>3
  <2>6. stream'[a].alone /\ stream'[a].good
          => HasParts(files'[stream'[a].kind], a, stream'[a].hidden, stream'[a].next - 1)
    <3>1. stream'[a].alone \in BOOLEAN /\ stream'[a].good \in BOOLEAN
      BY <1>4 DEF StreamRecord
    <3>. SUFFICES ASSUME stream'[a].alone = TRUE, stream'[a].good = TRUE
                  PROVE HasParts(files'[stream'[a].kind], a, stream'[a].hidden,
                                 stream'[a].next - 1)
      BY <3>1
    <3>2. HasParts(files'[s.kind], a, s.hidden, i)
      BY <1>4, <2>1
    <3>3. stream'[a].next - 1 = i /\ stream'[a].kind = s.kind /\ stream'[a].hidden = s.hidden
      BY <1>1, <1>4
    <3>4. QED
      BY <3>2, <3>3
  <2>7. QED
    BY <2>4, <2>5, <2>6 DEF StreamOK, HasParts, Part, Parts
<1>7. ASSUME NEW b \in Apps \ {a}, IsOpen(b)' PROVE StreamOK(b)'
  <2>1. StreamOK(b)
    BY <1>4, <1>7 DEF IsOpen, FilesInv
  <2>2. stream[b].alone => s.kind # stream[b].kind
    BY <2>1 DEF StreamOK, s
  <2>3. stream[b].alone => files'[stream[b].kind] = files[stream[b].kind]
    BY <1>5, <2>1, <2>2 DEF StreamOK
  <2>4. \A c \in Apps : stream'[c].kind = stream[c].kind
    BY <1>4 DEF s
  <2>5. QED
    BY <1>4, <2>1, <2>3, <2>4 DEF StreamOK
<1>8. ASSUME NEW r \in intact' PROVE IntactOK(r)'
  <2>1. IntactOK(r) /\ s.kind # r.kind
    BY <1>2, <1>8 DEF FilesInv, IntactOK, s
  <2>2. files'[r.kind] = files[r.kind]
    BY <1>5, <2>1 DEF IntactOK
  <2>3. \A c \in Apps : stream'[c].kind = stream[c].kind
    BY <1>4 DEF s
  <2>4. QED
    BY <2>1, <2>2, <2>3 DEF IntactOK
<1>9. QED
  BY <1>4, <1>5, <1>6, <1>7, <1>8 DEF FilesInv

\* A stream is closed, or an instance without one takes a step: only the file
\* of the stream may have changed.
LEMMA StreamGoneInv ==
  ASSUME FilesInv, NEW a \in Apps,
         stream' = [stream EXCEPT ![a] = NoStream],
         DOMAIN files' = Kinds,
         \A k \in Kinds : k # stream[a].kind => files'[k] = files[k],
         IsOpen(a) \/ files' = files,
         \A r \in intact' \ intact : IntactOK(r)'
  PROVE  FilesInv'
<1>1. /\ stream' \in [Apps -> StreamRecord] /\ stream'[a].kind = 0
      /\ \A b \in Apps \ {a} : stream'[b] = stream[b]
  BY DEF FilesInv, NoStream, StreamRecord
<1>2. 0 \notin Kinds
  BY KindsNat DEF KindsAreNumbers
<1>3. ASSUME NEW b \in Apps, IsOpen(b)' PROVE StreamOK(b)'
  <2>1. b # a /\ StreamOK(b)
    BY <1>1, <1>3 DEF IsOpen, FilesInv
  <2>2. stream[b].alone => files'[stream[b].kind] = files[stream[b].kind]
    BY <2>1 DEF StreamOK
  <2>3. \A c \in Apps \ {b} : stream'[c].kind = stream[c].kind \/ stream'[c].kind = 0
    BY <1>1
  <2>4. QED
    BY <1>1, <1>2, <2>1, <2>2, <2>3 DEF StreamOK
<1>4. ASSUME NEW r \in intact' PROVE IntactOK(r)'
  <2>1. CASE r \in intact
    <3>1. IntactOK(r)
      BY <2>1 DEF FilesInv
    <3>2. files'[r.kind] = files[r.kind]
      BY <3>1 DEF IntactOK
    <3>3. \A c \in Apps : stream'[c].kind = stream[c].kind \/ stream'[c].kind = 0
      BY <1>1
    <3>4. QED
      BY <1>2, <3>1, <3>2, <3>3 DEF IntactOK
  <2>2. CASE r \notin intact
    BY <1>4, <2>2
  <2>3. QED
    BY <2>1, <2>2
<1>5. QED
  BY <1>1, <1>3, <1>4 DEF FilesInv

LEMMA CloseFilesInv ==
  ASSUME FilesInv, NEW a \in Apps, CloseReport(a)
  PROVE  FilesInv'
<1>. DEFINE s == stream[a]
<1>1. /\ StreamOK(a) /\ s \in StreamRecord /\ IsOpen(a) /\ s.next = Parts(s.hidden)
      /\ stream' = [stream EXCEPT ![a] = NoStream]
  BY DEF FilesInv, CloseReport
<1>2. CASE UNCHANGED <<files, intact>>
  BY <1>1, <1>2, StreamGoneInv DEF FilesInv
<1>3. CASE /\ s.good
           /\ files' = [files EXCEPT ![s.kind] =
                          WriteAt(@, s.next, Part(a, s.next, s.hidden))]
           /\ intact' = intact \union
                IF s.alone THEN {[by |-> a, kind |-> s.kind, hidden |-> s.hidden]} ELSE {}
  <2>1. /\ DOMAIN files' = Kinds
        /\ \A k \in Kinds : k # s.kind => files'[k] = files[k]
    BY <1>3 DEF FilesInv
  <2>2. ASSUME NEW r \in intact' \ intact PROVE IntactOK(r)'
    <3>1. s.alone /\ r = [by |-> a, kind |-> s.kind, hidden |-> s.hidden]
      BY <1>3, <2>2
    <3>2. r.by = a /\ r.kind = s.kind /\ r.hidden = s.hidden
      BY <3>1
    <3>3. HasParts(files[s.kind], a, s.hidden, s.next - 1) /\ s.kind \in Kinds
      BY <1>1, <1>3, <3>1 DEF StreamOK
    <3>4. files'[s.kind] = WriteAt(files[s.kind], s.next, Part(a, s.next, s.hidden))
      BY <1>3, <3>3 DEF FilesInv
    <3>5. s.hidden \in Nat /\ s.next - 1 \in Nat /\ s.next - 1 + 1 = s.next
      BY <1>1 DEF StreamOK, Parts
    <3>6. HasParts(files'[s.kind], a, s.hidden, s.next)
      BY <3>3, <3>4, <3>5, WritesNextPart
    <3>7. \A b \in Apps : stream'[b].kind # s.kind
      <4>1. stream'[a].kind = 0 /\ 0 \notin Kinds
        BY <1>1, KindsNat DEF NoStream, FilesInv, KindsAreNumbers
      <4>2. \A b \in Apps \ {a} : stream'[b] = stream[b] /\ stream[b].kind # s.kind
        BY <1>1, <3>1 DEF StreamOK, FilesInv
      <4>3. QED
        BY <3>3, <4>1, <4>2
    <3>8. QED
      BY <1>1, <3>2, <3>3, <3>5, <3>6, <3>7 DEF IntactOK
  <2>3. QED
    BY <1>1, <2>1, <2>2, StreamGoneInv
<1>4. QED
  BY <1>2, <1>3 DEF CloseReport

LEMMA StepFilesInv == FilesInv /\ [ReportsNext]_allVars => FilesInv'
<1>. SUFFICES ASSUME FilesInv, [ReportsNext]_allVars PROVE FilesInv'
  OBVIOUS
<1>1. CASE UNCHANGED <<files, stream, intact>>
  BY <1>1 DEF FilesInv, IsOpen, StreamOK, IntactOK
<1>2. ASSUME NEW a \in Apps, Reporting(a) PROVE FilesInv'
  BY <1>1, <1>2, OpenFilesInv, WriteFilesInv, CloseFilesInv
     DEF Reporting, OpenFails, OtherReport, reportVars
<1>3. ASSUME NEW a \in Apps, KillWriter(a) PROVE FilesInv'
  BY <1>3, StreamGoneInv DEF KillWriter, FilesInv
<1>4. QED
  BY <1>1, <1>2, <1>3 DEF ReportsNext, allVars, reportVars

\* For any number of instances that open, write and close reports in one
\* directory, and are killed while they do: a report all of whose writes went
\* through, and whose file nobody else had open meanwhile, is whole.
THEOREM ReportWholeThm == ReportsSpec => []ReportWhole
<1>1. FilesInv => ReportWhole
  BY AllPartsAreWhole DEF FilesInv, IntactOK, ReportWhole
<1>2. QED
  BY <1>1, InitFilesInv, StepFilesInv, PTL DEF ReportsSpec

-----------------------------------------------------------------------------
(* The inductive invariant of the exit codes.                              *)

\* The steps of main before the detections, and after them.
Loading == {"main", "create", "change", "query", "start", "starting"}
Unloading == {"stop", "poll", "delete"}

Told(a) ==
  exitCode[a] = 0 <=> \A k \in 1..detections[a] : <<a, k>> \in closed

\* Where main is tells how many detections are done.
MainOK(a) ==
  /\ detections[a] <= Detections
  /\ pc[a] \in Loading => detections[a] = 0 /\ exitCode[a] = 0
  /\ pc[a] \in {"ioctl", "report"} => detections[a] < Detections
  /\ pc[a] \in Unloading => detections[a] = Detections
  /\ \/ Told(a) /\ (pc[a] = "exited" => detections[a] = Detections)
     \/ pc[a] = "exited" /\ detections[a] = 0 /\ exitCode[a] = 1
  /\ IsOpen(a) => pc[a] = "report" /\ stream[a].kind = detections[a] + 1
  /\ \A k : <<a, k>> \in closed => k \in 1..detections[a]

CodeInv ==
  /\ detections \in [Apps -> Nat] /\ exitCode \in [Apps -> {0, 1}]
  /\ \A a \in Apps : MainOK(a)

LEMMA InitCodeInv == ReportsInit => CodeInv
<1>. SUFFICES ASSUME ReportsInit PROVE CodeInv
  OBVIOUS
<1>1. detections \in [Apps -> Nat] /\ exitCode \in [Apps -> {0, 1}]
  BY DEF ReportsInit, Init
<1>2. ASSUME NEW a \in Apps PROVE MainOK(a)
  <2>1. /\ detections[a] = 0 /\ exitCode[a] = 0 /\ closed = {} /\ stream[a].kind = 0
        /\ pc[a] = "main"
    BY DEF ReportsInit, Init, NoStream
  <2>2. QED
    BY <2>1, LifecycleAssumption DEF MainOK, Told, IsOpen, Loading, Unloading
<1>3. QED
  BY <1>1, <1>2 DEF CodeInv

\* One instance takes a step: the others' codes and reports stay.
LEMMA OthersStay ==
  ASSUME CodeInv, NEW a \in Apps, NEW b \in Apps \ {a},
         pc'[b] = pc[b], detections'[b] = detections[b], exitCode'[b] = exitCode[b],
         stream'[b].kind = stream[b].kind,
         \A k : <<b, k>> \in closed' <=> <<b, k>> \in closed
  PROVE  MainOK(b)'
<1>1. MainOK(b)
  BY DEF CodeInv
<1>2. QED
  BY <1>1 DEF MainOK, Told, IsOpen

\* A detection is done: its report is closed, or it has failed.
LEMMA DoneCodeInv ==
  ASSUME CodeInv, LInv, NEW a \in Apps, NEW failed \in BOOLEAN,
         pc[a] \in {"detect", "ioctl", "report"}, detections[a] < Detections,
         DetectionDone(a, failed),
         \A b \in Apps \ {a} : stream'[b] = stream[b],
         stream'[a].kind = 0,
         closed' = IF failed THEN closed ELSE closed \union {<<a, detections[a] + 1>>}
  PROVE  CodeInv'
<1>1. /\ detections' = [detections EXCEPT ![a] = detections[a] + 1]
      /\ exitCode' = [exitCode EXCEPT ![a] = IF failed THEN 1 ELSE exitCode[a]]
      /\ pc' = [pc EXCEPT ![a] = "detect"]
  BY DEF DetectionDone, Goto
<1>2. /\ detections' \in [Apps -> Nat] /\ exitCode' \in [Apps -> {0, 1}]
      /\ detections[a] \in Nat /\ exitCode[a] \in {0, 1}
      /\ detections'[a] = detections[a] + 1 /\ pc'[a] = "detect"
      /\ exitCode'[a] = IF failed THEN 1 ELSE exitCode[a]
  BY <1>1 DEF CodeInv, LInv, LifecycleType
<1>3. MainOK(a)'
  <2>1. MainOK(a) /\ Told(a)
    BY DEF CodeInv, MainOK
  <2>2. Told(a)'
    <3>1. CASE failed
      <4>1. <<a, detections[a] + 1>> \notin closed
        BY <1>2, <2>1 DEF MainOK
      <4>2. QED
        BY <1>2, <3>1, <4>1 DEF Told
    <3>2. CASE ~failed
      <4>1. (\A k \in 1..(detections[a] + 1) : <<a, k>> \in closed')
              <=> \A k \in 1..detections[a] : <<a, k>> \in closed
        BY <1>2, <3>2
      <4>2. QED
        BY <1>2, <2>1, <3>2, <4>1 DEF Told
    <3>3. QED
      BY <3>1, <3>2
  <2>3. \A k : <<a, k>> \in closed' => k \in 1..detections'[a]
    BY <1>2, <2>1 DEF MainOK
  <2>4. QED
    BY <1>2, <2>2, <2>3, LifecycleAssumption DEF MainOK, IsOpen, Loading, Unloading
<1>4. ASSUME NEW b \in Apps \ {a} PROVE MainOK(b)'
  BY <1>1, OthersStay DEF LInv, LifecycleType, CodeInv
<1>5. QED
  BY <1>2, <1>3, <1>4 DEF CodeInv

\* An instance goes on without a detection being done.
LEMMA MoveCodeInv ==
  ASSUME CodeInv, LInv, NEW a \in Apps, NEW next \in PCs,
         UNCHANGED <<detections, exitCode, closed>>,
         pc' = [pc EXCEPT ![a] = next], pc[a] # "exited",
         \A b \in Apps \ {a} : stream'[b] = stream[b],
         stream'[a].kind = 0,
         next \in Loading => pc[a] \in Loading,
         next \in {"ioctl", "report"} => detections[a] < Detections,
         next \in Unloading \union {"exited"} => detections[a] = Detections
  PROVE  CodeInv'
<1>1. pc'[a] = next /\ \A b \in Apps \ {a} : pc'[b] = pc[b]
  BY DEF LInv, LifecycleType
<1>2. MainOK(a)'
  <2>1. MainOK(a)
    BY DEF CodeInv
  <2>2. QED
    BY <1>1, <2>1 DEF MainOK, Told, IsOpen
<1>3. ASSUME NEW b \in Apps \ {a} PROVE MainOK(b)'
  BY <1>1, OthersStay
<1>4. QED
  BY <1>2, <1>3 DEF CodeInv

\* loadDriver has failed.
LEMMA LoadFailedCodeInv ==
  ASSUME CodeInv, LInv, NEW a \in Apps, pc[a] \in Loading, LoadFailed(a),
         UNCHANGED <<detections, closed, stream>>
  PROVE  CodeInv'
<1>1. /\ pc'[a] = "exited" /\ exitCode'[a] = 1 /\ exitCode' \in [Apps -> {0, 1}]
      /\ \A b \in Apps \ {a} : pc'[b] = pc[b] /\ exitCode'[b] = exitCode[b]
  BY DEF LoadFailed, ExitWith, Goto, LInv, LifecycleType, CodeInv
<1>2. MainOK(a)'
  <2>1. MainOK(a)
    BY DEF CodeInv
  <2>2. QED
    BY <1>1, <2>1 DEF MainOK, IsOpen, Loading, Unloading
<1>3. ASSUME NEW b \in Apps \ {a} PROVE MainOK(b)'
  BY <1>1, OthersStay
<1>4. QED
  BY <1>1, <1>2, <1>3 DEF CodeInv

LEMMA LoadCodeInv ==
  ASSUME CodeInv, LInv, NEW a \in Apps, UNCHANGED reportVars,
         \/ OpenForInstall(a) \/ CreateService(a) \/ ChangeServiceConfig(a)
         \/ QueryState(a) \/ StartService(a) \/ Started(a)
  PROVE  CodeInv'
<1>1. /\ pc[a] \in Loading /\ UNCHANGED <<detections, closed, stream>>
      /\ \/ LoadFailed(a)
         \/ /\ exitCode' = exitCode
            /\ \E next \in Loading \union {"detect"} : pc' = [pc EXCEPT ![a] = next]
  BY DEF OpenForInstall, CreateService, ChangeServiceConfig, QueryState, StartService,
         Started, LoadSucceeded, Goto, Loading, reportVars
<1>2. stream[a].kind = 0
  BY <1>1 DEF CodeInv, MainOK, IsOpen, Loading
<1>3. CASE LoadFailed(a)
  BY <1>1, <1>3, LoadFailedCodeInv
<1>4. ASSUME exitCode' = exitCode, NEW next \in Loading \union {"detect"},
             pc' = [pc EXCEPT ![a] = next]
      PROVE  CodeInv'
  <2>1. next \in PCs /\ next \notin Unloading \union {"exited", "ioctl", "report"}
    BY DEF Loading, Unloading, PCs
  <2>2. pc[a] # "exited"
    BY <1>1 DEF Loading
  <2>3. QED
    BY <1>1, <1>2, <1>4, <2>1, <2>2, MoveCodeInv
<1>5. QED
  BY <1>1, <1>3, <1>4

LEMMA DetectCodeInv ==
  ASSUME CodeInv, LInv, NEW a \in Apps, UNCHANGED reportVars,
         OpenDevice(a) \/ FinishDetection(a)
  PROVE  CodeInv'
<1>1. /\ pc[a] \in {"detect", "ioctl"} /\ UNCHANGED <<closed, stream>>
      /\ detections[a] < Detections
      /\ \/ DetectionDone(a, TRUE)
         \/ /\ UNCHANGED <<detections, exitCode>>
            /\ \E next \in {"ioctl", "report"} : pc' = [pc EXCEPT ![a] = next]
  BY DEF OpenDevice, FinishDetection, Goto, reportVars, CodeInv, MainOK
<1>2. stream[a].kind = 0
  BY <1>1 DEF CodeInv, MainOK, IsOpen
<1>3. CASE DetectionDone(a, TRUE)
  BY <1>1, <1>2, <1>3, DoneCodeInv
<1>4. ASSUME UNCHANGED <<detections, exitCode>>, NEW next \in {"ioctl", "report"},
             pc' = [pc EXCEPT ![a] = next]
      PROVE  CodeInv'
  <2>1. next \in PCs /\ next \notin Loading /\ next \notin Unloading \union {"exited"}
    BY DEF Loading, Unloading, PCs
  <2>2. QED
    BY <1>1, <1>2, <1>4, <2>1, MoveCodeInv
<1>5. QED
  BY <1>1, <1>3, <1>4

LEMMA UnloadCodeInv ==
  ASSUME CodeInv, LInv, NEW a \in Apps, UNCHANGED reportVars,
         Leave(a) \/ StopService(a) \/ PollStopped(a) \/ DeleteService(a)
  PROVE  CodeInv'
<1>1. /\ pc[a] \in Unloading \union {"detect"} /\ detections[a] = Detections
      /\ UNCHANGED <<detections, exitCode, closed, stream>>
  BY DEF Leave, StopService, PollStopped, DeleteService, Unloading, reportVars, CodeInv,
         MainOK
<1>2. \E next \in Unloading \union {"exited"} : pc' = [pc EXCEPT ![a] = next]
  <2>1. CASE pc' = pc
    <3>1. pc[a] \in Unloading
      <4>1. CASE Leave(a)
        BY <2>1, <4>1 DEF Leave, Goto, UnloadReturns, LInv, LifecycleType
      <4>2. QED
        BY <4>1 DEF StopService, PollStopped, DeleteService, Unloading
    <3>2. pc = [pc EXCEPT ![a] = pc[a]]
      BY DEF LInv, LifecycleType
    <3>3. QED
      BY <2>1, <3>1, <3>2
  <2>2. CASE pc' # pc
    BY <2>2 DEF Leave, StopService, PollStopped, DeleteService, UnloadReturns, Goto, Unloading
  <2>3. QED
    BY <2>1, <2>2
<1>3. stream[a].kind = 0 /\ pc[a] # "exited"
  BY <1>1 DEF CodeInv, MainOK, IsOpen, Unloading
<1>4. ASSUME NEW next \in Unloading \union {"exited"}, pc' = [pc EXCEPT ![a] = next]
      PROVE  CodeInv'
  <2>1. next \in PCs /\ next \notin Loading /\ next \notin {"ioctl", "report"}
    BY DEF Loading, Unloading, PCs
  <2>2. QED
    BY <1>1, <1>3, <1>4, <2>1, MoveCodeInv
<1>5. QED
  BY <1>2, <1>4

\* A stream is opened or written to: main stays where it is.
LEMMA WritingCodeInv ==
  ASSUME CodeInv, FilesInv, NEW a \in Apps, OpenReport(a) \/ WritePart(a)
  PROVE  CodeInv'
<1>1. UNCHANGED <<pc, detections, exitCode, closed>>
  BY DEF OpenReport, WritePart, vars, appVars
<1>2. ASSUME NEW b \in Apps \ {a} PROVE stream'[b].kind = stream[b].kind
  <2>1. stream[b] \in StreamRecord
    BY DEF FilesInv
  <2>2. CASE OpenReport(a)
    <3>1. \/ stream'[b] = stream[b]
          \/ stream'[b] = [stream[b] EXCEPT !.alone = FALSE]
      BY <2>2 DEF OpenReport
    <3>2. QED
      BY <2>1, <3>1 DEF StreamRecord
  <2>3. CASE WritePart(a)
    BY <2>3 DEF WritePart, Flush, FilesInv
  <2>4. QED
    BY <2>2, <2>3
<1>3. pc[a] = "report" /\ stream'[a].kind = detections[a] + 1
  <2>1. CASE OpenReport(a)
    BY <2>1 DEF OpenReport
  <2>2. CASE WritePart(a)
    <3>1. pc[a] = "report" /\ stream[a].kind = detections[a] + 1 /\ stream[a] \in StreamRecord
      BY <2>2 DEF WritePart, CodeInv, MainOK, FilesInv
    <3>2. stream'[a].kind = stream[a].kind
      BY <2>2, <3>1 DEF WritePart, Flush, FilesInv, StreamRecord
    <3>3. QED
      BY <3>1, <3>2
  <2>3. QED
    BY <2>1, <2>2
<1>4. MainOK(a)'
  <2>1. MainOK(a)
    BY DEF CodeInv
  <2>2. QED
    BY <1>1, <1>3, <2>1 DEF MainOK, Told
<1>5. ASSUME NEW b \in Apps \ {a} PROVE MainOK(b)'
  BY <1>1, <1>2, OthersStay
<1>6. QED
  BY <1>1, <1>4, <1>5 DEF CodeInv

\* main is told of a report.
LEMMA ToldCodeInv ==
  ASSUME CodeInv, LInv, FilesInv, NEW a \in Apps,
         OpenFails(a) \/ CloseReport(a) \/ OtherReport(a)
  PROVE  CodeInv'
<1>. DEFINE k == detections[a] + 1
<1>1. /\ pc[a] = "report" /\ detections[a] < Detections /\ MainOK(a)
  BY DEF OpenFails, CloseReport, OtherReport, WriteReport, CodeInv, MainOK
<1>2. /\ \A b \in Apps \ {a} : stream'[b] = stream[b]
      /\ stream'[a].kind = 0
  <2>1. CASE CloseReport(a)
    BY <2>1 DEF CloseReport, FilesInv, NoStream
  <2>2. CASE OpenFails(a)
    BY <2>2 DEF OpenFails, IsOpen, reportVars
  <2>3. CASE OtherReport(a)
    <3>1. ~IsOpen(a)
      BY <1>1, <2>3 DEF OtherReport, MainOK, FilesInv, StreamOK
    <3>2. QED
      BY <2>3, <3>1 DEF OtherReport, IsOpen
  <2>4. QED
    BY <2>1, <2>2, <2>3
<1>3. \E failed \in BOOLEAN :
        /\ DetectionDone(a, failed)
        /\ closed' = IF failed THEN closed ELSE closed \union {<<a, k>>}
  <2>1. CASE CloseReport(a)
    BY <1>1, <2>1 DEF CloseReport, WriteReport, MainOK
  <2>2. CASE OpenFails(a)
    BY <2>2 DEF OpenFails, WriteReport, reportVars
  <2>3. CASE OtherReport(a)
    BY <2>3 DEF OtherReport, WriteReport
  <2>4. QED
    BY <2>1, <2>2, <2>3
<1>4. QED
  BY <1>1, <1>2, <1>3, DoneCodeInv

LEMMA KillCodeInv ==
  ASSUME CodeInv, LInv, FilesInv, NEW a \in Apps, KillWriter(a)
  PROVE  CodeInv'
<1>1. /\ pc' = [pc EXCEPT ![a] = "killed"] /\ pc[a] # "exited"
      /\ UNCHANGED <<detections, exitCode, closed>>
      /\ \A b \in Apps \ {a} : stream'[b] = stream[b]
      /\ stream'[a].kind = 0
  BY DEF KillWriter, Kill, Goto, FilesInv, NoStream
<1>2. "killed" \in PCs /\ "killed" \notin Loading
      /\ "killed" \notin Unloading \union {"exited", "ioctl", "report"}
  BY DEF PCs, Loading, Unloading
<1>3. QED
  BY <1>1, <1>2, MoveCodeInv

LEMMA StepCodeInv == CodeInv /\ LInv /\ FilesInv /\ [ReportsNext]_allVars => CodeInv'
<1>. SUFFICES ASSUME CodeInv, LInv, FilesInv, [ReportsNext]_allVars PROVE CodeInv'
  OBVIOUS
<1>1. CASE UNCHANGED <<appVars, reportVars>>
  BY <1>1 DEF appVars, reportVars, CodeInv, MainOK, Told, IsOpen
<1>2. ASSUME System, UNCHANGED reportVars PROVE CodeInv'
  BY <1>1, <1>2 DEF System, UnloadWhenClosed, Remove
<1>3. ASSUME NEW a \in Apps, Reporting(a) PROVE CodeInv'
  <2>1. CASE Manage(a) /\ UNCHANGED reportVars
    BY <2>1, LoadCodeInv, DetectCodeInv, UnloadCodeInv DEF Manage
  <2>2. QED
    BY <1>3, <2>1, WritingCodeInv, ToldCodeInv DEF Reporting
<1>4. ASSUME NEW a \in Apps, KillWriter(a) PROVE CodeInv'
  BY <1>4, KillCodeInv
<1>5. QED
  BY <1>1, <1>2, <1>3, <1>4 DEF ReportsNext, allVars, vars

\* For any number of instances and detections: an instance that is not killed
\* returns 0 exactly when each of its detections got as far as a report that main
\* took for written; a failure it was told of is in its exit code, whatever came
\* after it.  That the report is in its file is not said, and is not so.
THEOREM ToldFailuresKeptThm == ReportsSpec => []ToldFailuresKept
<1>1. CodeInv => ToldFailuresKept
  <2>. SUFFICES ASSUME CodeInv, NEW a \in Apps, pc[a] = "exited"
                PROVE  exitCode[a] = 0 <=> \A k \in 1..Detections : <<a, k>> \in closed
    BY DEF ToldFailuresKept
  <2>1. MainOK(a)
    BY DEF CodeInv
  <2>2. CASE detections[a] = Detections
    BY <2>1, <2>2, LifecycleAssumption DEF MainOK, Told
  <2>3. CASE detections[a] = 0 /\ exitCode[a] = 1
    <3>1. <<a, 1>> \notin closed /\ 1 \in 1..Detections
      BY <2>1, <2>3, LifecycleAssumption DEF MainOK
    <3>2. QED
      BY <2>3, <3>1
  <2>4. QED
    BY <2>1, <2>2, <2>3 DEF MainOK
<1>2. ReportsInit => Init
  BY DEF ReportsInit
<1>3. ReportsSpec => []LInv
  BY <1>2, ReportsStep, InitLInv, StepLInv, PTL DEF ReportsSpec
<1>4. ReportsSpec => []FilesInv
  BY InitFilesInv, StepFilesInv, PTL DEF ReportsSpec
<1>5. QED
  BY <1>1, <1>3, <1>4, InitCodeInv, StepCodeInv, PTL DEF ReportsSpec

=============================================================================
