-------------------------- MODULE WorkspaceProofs --------------------------
(***************************************************************************)
(* Proofs about Workspace, for any number of interruptions and with or     *)
(* without torn writes.                                                    *)
(*                                                                         *)
(* The argument: a step on an identity holds the key of the private file   *)
(* (HandIsFile), so what it publishes or enrolls is that key; and what the *)
(* steps before the current one wrote is there (DoneIsThere), because no   *)
(* step and no interruption takes it away.                                 *)
(***************************************************************************)
EXTENDS Workspace, SequenceTheorems, TLAPS

\* the places of the elements of a concatenation
LEMMA Join ==
  ASSUME NEW S, NEW a \in Seq(S), NEW b \in Seq(S), Len(a) = 3, Len(b) = 4
  PROVE  /\ Len(a \o b) = 7
         /\ \A i \in 1..3 : (a \o b)[i] = a[i]
         /\ \A i \in 4..7 : (a \o b)[i] = b[i - 3]
<1>1. /\ Len(a \o b) = Len(a) + Len(b)
      /\ \A i \in 1 .. Len(a) + Len(b) :
           (a \o b)[i] = IF i <= Len(a) THEN a[i] ELSE b[i - Len(a)]
  BY ConcatProperties, Zenon
<1> QED
  BY <1>1

\* the steps of the script by their place
LEMMA ScriptSteps ==
  /\ Len(Script) = 7 /\ Len(Sample) = 4
  /\ Script[1] = "coordinator" /\ Script[2] = "robot-1" /\ Script[3] = "enroll"
  /\ Script[4] = Sample[1] /\ Script[5] = Sample[2]
  /\ Script[6] = Sample[3] /\ Script[7] = Sample[4]
  /\ Sample[1] = "coordinator.toml" /\ Sample[2] = "robot-1.toml"
  /\ Sample[3] = "sample-token-request.json" /\ Sample[4] = "spacl-workspace.json"
  /\ SampleFile = {"coordinator.toml", "robot-1.toml", "sample-token-request.json",
                   "spacl-workspace.json"}
<1>1. Len(Sample) = 4 /\ DOMAIN Sample = 1..4
  BY DEF Sample
<1>2. /\ Sample[1] = "coordinator.toml" /\ Sample[2] = "robot-1.toml"
      /\ Sample[3] = "sample-token-request.json" /\ Sample[4] = "spacl-workspace.json"
  BY DEF Sample
<1>3. SampleFile = {Sample[1], Sample[2], Sample[3], Sample[4]}
  BY <1>1 DEF SampleFile
<1> DEFINE Begin == <<"coordinator", "robot-1", "enroll">>
           Name  == {"coordinator", "robot-1", "enroll", "coordinator.toml", "robot-1.toml",
                     "sample-token-request.json", "spacl-workspace.json"}
<1>4. Begin \in Seq(Name) /\ Len(Begin) = 3
  <2>1. \A i \in 1..3 : Begin[i] \in Name
    OBVIOUS
  <2> QED
    BY <2>1
<1>9. Sample \in Seq(Name)
  <2>1. \A i \in 1..4 : Sample[i] \in Name
    BY DEF Sample
  <2> QED
    BY <2>1 DEF Sample
<1>5. Script = Begin \o Sample
  BY DEF Script
<1>6. Begin[1] = "coordinator" /\ Begin[2] = "robot-1" /\ Begin[3] = "enroll"
  OBVIOUS
<1> HIDE DEF Begin, Name
<1>7. /\ Len(Begin \o Sample) = 7
      /\ \A i \in 1..3 : (Begin \o Sample)[i] = Begin[i]
      /\ \A i \in 4..7 : (Begin \o Sample)[i] = Sample[i - 3]
  BY <1>1, <1>4, <1>9, Join
<1>8. Script[4] = Sample[1] /\ Script[5] = Sample[2] /\ Script[6] = Sample[3]
        /\ Script[7] = Sample[4]
  BY <1>5, <1>7
<1> QED
  BY <1>1, <1>2, <1>3, <1>5, <1>6, <1>7, <1>8

\* the script has seven steps
LEMMA ScriptLength == Len(Script) = 7
BY ScriptSteps

\* the name of the i-th step
Place(i) == IF i = 0 THEN "none" ELSE Script[i]

\* where the running init is, by the number of its step
LEMMA NowIs ==
  ASSUME NEW i \in 0..7
  PROVE  /\ Place(i) = "coordinator" <=> i = 1
         /\ Place(i) = "robot-1" <=> i = 2
         /\ Place(i) = "enroll" <=> i = 3
         /\ \A f \in SampleFile : Place(i) = f => i \in 4..7
         /\ \A j \in 1..4 : Place(i) = Sample[j] <=> i = j + 3
         /\ \A s \in Subject : Place(i) = s => i \in 1..2
BY ScriptSteps DEF Place, Subject

\* Now is the name of the step, before and after an action
LEMMA NowPlace == Now = Place(step) /\ Now' = Place(step')
BY DEF Now, Place

-----------------------------------------------------------------------------
(***************************************************************************)
(* TypeOK without ready, the one Boolean.                                  *)
(***************************************************************************)
Types ==
  /\ private \in [Subject -> Int]
  /\ ownerOnly \subseteq Subject
  /\ public \in [Subject -> Int]
  /\ enrolled \in Nat
  /\ log \in {"empty", "whole", "torn"}
  /\ sample \in [SampleFile -> {"missing", "torn", "whole"}]
  /\ step \in 0..7
  /\ doing \in {"open", "write", "chmod", "publish", "publish-if-missing",
                "audit", "record"}
  /\ key \in Nat
  /\ drawn \in Nat
  /\ stops \in 0..MaxStops

\* the two parts of the type invariant
LEMMA TypeParts == TypeOK <=> Types /\ ready \in BOOLEAN
BY ScriptLength DEF TypeOK, Types

\* ready is a truth value
LEMMA ReadyType ==
  /\ Init => ready \in BOOLEAN
  /\ ready \in BOOLEAN /\ [Next]_vars => ready' \in BOOLEAN
<1>1. Init => ready \in BOOLEAN
  BY DEF Init
<1>2. ready \in BOOLEAN /\ [Next]_vars => ready' \in BOOLEAN
  BY DEF vars, Next, InitStep, StartInit, Generate, Load, Refuse, WritePrivate,
    Restrict0600, SavePublic, KeepPublic, OpenLog, RefuseLog, KnowsRobot,
    EnrollRobot, RecordEnrollment, SaveSample, Interrupted, RepairMode
<1> QED
  BY <1>1, <1>2

\* the types hold before the first init
LEMMA InitType == Init => Types
BY WorkspaceAssumption DEF Init, Types, Missing

(***************************************************************************)
(* Within which steps the sub-steps on an identity and on the log lie.     *)
(***************************************************************************)
Within ==
  /\ doing # "open" => step \in 1..3
  /\ doing = "audit" => step = 1
  /\ doing = "record" <=> (step = 3 /\ doing # "open")

\* every step keeps the types
LEMMA NextType == Types /\ Within /\ [Next]_vars => Types'
<1> SUFFICES ASSUME Types, Within, [Next]_vars PROVE Types'
  OBVIOUS
<1> USE DEF Types, nodeFiles
<1>1. ASSUME StartInit PROVE Types'
  BY <1>1 DEF StartInit, files
<1>2. ASSUME NEW s \in Subject, Generate(s) PROVE Types'
  BY <1>2 DEF Generate, files
<1>3. ASSUME NEW s \in Subject, Load(s) PROVE Types'
  BY <1>3 DEF Load, Readable, Whole, files
<1>4. ASSUME NEW s \in Subject, Refuse(s) PROVE Types'
  BY <1>4 DEF Refuse, Quit, files
<1>5. ASSUME NEW s \in Subject, WritePrivate(s) PROVE Types'
  BY <1>5 DEF WritePrivate
<1>6. ASSUME NEW s \in Subject, Restrict0600(s) PROVE Types'
  BY <1>6 DEF Restrict0600
<1>7. ASSUME NEW s \in Subject, SavePublic(s) PROVE Types'
  <2>1. step \in 1..2
    BY <1>7, NowIs, NowPlace DEF SavePublic, WritesPublic
  <2> QED
    BY <1>7, <2>1 DEF SavePublic, Published, GoOn
<1>8. ASSUME NEW s \in Subject, KeepPublic(s) PROVE Types'
  <2>1. step \in 1..2
    BY <1>8, NowIs, NowPlace DEF KeepPublic
  <2> QED
    BY <1>8, <2>1 DEF KeepPublic, Published, GoOn, files
<1>9. ASSUME OpenLog \/ RefuseLog \/ RecordEnrollment PROVE Types'
  BY <1>9 DEF Within, OpenLog, RefuseLog, RecordEnrollment, GoOn, Quit, files, nodeFiles
<1>14. ASSUME KnowsRobot \/ EnrollRobot PROVE Types'
  <2>1. step = 3
    BY <1>14, NowIs, NowPlace DEF KnowsRobot, EnrollRobot
  <2> QED
    BY <1>14, <2>1 DEF KnowsRobot, EnrollRobot, GoOn, files, nodeFiles
<1>10. ASSUME NEW f \in SampleFile, SaveSample(f) PROVE Types'
  <2>1. step \in 4..7
    BY <1>10, NowIs, NowPlace DEF SaveSample
  <2>2. step' \in 0..7 /\ doing' = "open" /\ key' \in Nat
    BY <1>10, <2>1, ScriptLength DEF SaveSample, Quit, GoOn
  <2>3. sample' \in [SampleFile -> {"missing", "torn", "whole"}]
    BY <1>10 DEF SaveSample
  <2> QED
    BY <1>10, <2>2, <2>3 DEF SaveSample
<1>11. ASSUME Interrupted PROVE Types'
  <2>1. private' \in [Subject -> Int]
    BY <1>11 DEF Interrupted, Leaves, Torn
  <2>2. public' \in [Subject -> Int]
    BY <1>11 DEF Interrupted, Leaves, Torn
  <2>3. sample' \in [SampleFile -> {"missing", "torn", "whole"}]
    BY <1>11 DEF Interrupted, Leaves
  <2>4. stops' \in 0..MaxStops
    BY <1>11, WorkspaceAssumption DEF Interrupted
  <2>5. log' \in {"empty", "whole", "torn"}
    BY <1>11 DEF Interrupted, Leaves
  <2> QED
    BY <1>11, <2>1, <2>2, <2>3, <2>4, <2>5 DEF Interrupted, Quit
<1>12. ASSUME NEW s \in Subject, RepairMode(s) PROVE Types'
  BY <1>12 DEF RepairMode
<1>13. ASSUME UNCHANGED vars PROVE Types'
  BY <1>13 DEF vars, files
<1> QED
  BY <1>1, <1>2, <1>3, <1>4, <1>5, <1>6, <1>7, <1>8, <1>9, <1>10, <1>11, <1>12, <1>13,
     <1>14
  DEF Next, InitStep

\* the sub-steps stay within their steps
LEMMA WithinStep == Types /\ Within /\ [Next]_vars => Within'
<1> SUFFICES ASSUME Types, Within, [Next]_vars PROVE Within'
  OBVIOUS
<1>0. step \in 0..7 /\ step' \in 0..7
  BY NextType DEF Types
<1> USE <1>0, NowPlace, NowIs DEF Within
<1>1. ASSUME StartInit PROVE Within'
  BY <1>1 DEF StartInit
<1>2. ASSUME NEW s \in Subject,
             Generate(s) \/ Load(s) \/ WritePrivate(s) \/ Restrict0600(s) PROVE Within'
  <2>1. step \in 1..2 /\ step' = step
          /\ doing' \in {"write", "chmod", "publish", "publish-if-missing"}
    BY <1>2 DEF Generate, Load, WritePrivate, Restrict0600
  <2> QED
    BY <2>1
<1>3. ASSUME NEW s \in Subject, SavePublic(s) \/ KeepPublic(s) PROVE Within'
  <2>1. step \in 1..2
    BY <1>3 DEF SavePublic, KeepPublic, WritesPublic
  <2>2. \/ step = 1 /\ step' = step /\ doing' = "audit"
        \/ step' = step + 1 /\ doing' = "open"
    BY <1>3, <2>1 DEF SavePublic, KeepPublic, Published, GoOn
  <2> QED
    BY <2>1, <2>2
<1>4. ASSUME NEW s \in Subject, Refuse(s) PROVE Within'
  BY <1>4 DEF Refuse, Quit
<1>5. ASSUME OpenLog \/ RefuseLog \/ KnowsRobot \/ RecordEnrollment PROVE Within'
  BY <1>5 DEF OpenLog, RefuseLog, KnowsRobot, RecordEnrollment, GoOn, Quit
<1>6. ASSUME EnrollRobot PROVE Within'
  <2>1. step = 3 /\ step' = 3 /\ doing' = "record"
    BY <1>6 DEF EnrollRobot
  <2> QED
    BY <2>1
<1>7. ASSUME NEW f \in SampleFile, SaveSample(f) PROVE Within'
  BY <1>7 DEF SaveSample, GoOn, Quit
<1>8. ASSUME Interrupted PROVE Within'
  BY <1>8 DEF Interrupted, Quit
<1>9. ASSUME NEW s \in Subject, RepairMode(s) PROVE Within'
  BY <1>9 DEF RepairMode
<1>10. ASSUME UNCHANGED vars PROVE Within'
  BY <1>10 DEF vars
<1> QED
  BY <1>1, <1>2, <1>3, <1>4, <1>5, <1>6, <1>7, <1>8, <1>9, <1>10 DEF Next, InitStep

\* Workspace keeps its types for any number of interruptions (main.rs:431-512)
THEOREM TypeCorrect == Spec => []TypeOK
<1>1. Init => TypeOK /\ Within
  BY InitType, ReadyType, TypeParts DEF Init, Within
<1>2. TypeOK /\ Within /\ [Next]_vars => TypeOK' /\ Within'
  <2>1. (Types' /\ ready' \in BOOLEAN) => TypeOK'
    BY ScriptLength DEF TypeOK, Types
  <2> QED
    BY <2>1, NextType, WithinStep, ReadyType, TypeParts
<1> QED
  BY <1>1, <1>2, PTL DEF Spec

-----------------------------------------------------------------------------
(***************************************************************************)
(* The identity in memory is the one of the private file, from the write   *)
(* of that file to the enrollment of robot-1.                              *)
(***************************************************************************)
HandIsFile ==
  /\ Within
  /\ \A s \in Subject : Now = s =>
       /\ doing = "write" => private[s] = Missing /\ Whole(key)
       /\ doing \in {"chmod", "publish", "publish-if-missing", "audit"}
            => private[s] = key /\ Whole(key)
       /\ doing \in {"publish", "publish-if-missing", "audit"} => s \in ownerOnly
  /\ step = 3 => private["robot-1"] = key /\ Whole(key)
  /\ doing = "record" => Whole(enrolled)

(***************************************************************************)
(* What the earlier steps of the running init wrote is there.              *)
(***************************************************************************)
DoneIsThere ==
  /\ step > 1 \/ doing = "audit" =>
       Readable("coordinator") /\ public["coordinator"] # Missing
  /\ step > 2 => Readable("robot-1") /\ public["robot-1"] # Missing
  /\ step > 3 => Whole(enrolled)
  /\ step > 1 => log # "torn"
  /\ \A i \in 1..4 : step > i + 3 => sample[Sample[i]] # "missing"

(***************************************************************************)
(* The enrollment is recorded once, and before any init has got ready.     *)
(***************************************************************************)
RecordedBefore == doing = "record" => ~ready

SafetyInv ==
  /\ Types /\ HandIsFile /\ PublishedIsPrivate /\ DoneIsThere
  /\ RecordedBefore /\ ReadyIsComplete

(***************************************************************************)
(* No step and no interruption takes away a whole private identity, its    *)
(* mode, a published key, the enrollment or a sample file, and none but    *)
(* the record of the enrollment can tear the log.                          *)
(***************************************************************************)
FilesAreKept ==
  /\ \A s \in Subject :
       /\ Whole(private[s]) => private'[s] = private[s]
       /\ s \in ownerOnly => s \in ownerOnly'
       /\ public[s] # Missing => public'[s] # Missing
       /\ Readable(s) => Readable(s)'
  /\ Whole(enrolled) => enrolled' = enrolled
  /\ \A f \in SampleFile : sample[f] # "missing" => sample'[f] # "missing"
  /\ log # "torn" /\ log' = "torn" => doing = "record" /\ step' = 0

\* files are only ever added, since init writes none that exists
LEMMA FilesStep == Types /\ HandIsFile /\ [Next]_vars => FilesAreKept
<1> SUFFICES ASSUME Types, HandIsFile, [Next]_vars PROVE FilesAreKept
  OBVIOUS
<1> USE DEF Types, FilesAreKept, Readable, Whole, Missing, Torn
<1>1. ASSUME UNCHANGED files PROVE FilesAreKept
  BY <1>1 DEF files, nodeFiles
<1>2. ASSUME NEW s \in Subject, WritePrivate(s) PROVE FilesAreKept
  BY <1>2 DEF WritePrivate, HandIsFile, nodeFiles
<1>3. ASSUME NEW s \in Subject, Restrict0600(s) \/ RepairMode(s) PROVE FilesAreKept
  BY <1>3 DEF Restrict0600, RepairMode, nodeFiles
<1>4. ASSUME NEW s \in Subject, SavePublic(s) PROVE FilesAreKept
  BY <1>4 DEF SavePublic, HandIsFile, WritesPublic, nodeFiles
<1>5. ASSUME EnrollRobot \/ RecordEnrollment PROVE FilesAreKept
  BY <1>5 DEF EnrollRobot, RecordEnrollment
<1>6. ASSUME NEW f \in SampleFile, SaveSample(f) PROVE FilesAreKept
  BY <1>6 DEF SaveSample, nodeFiles
<1>7. ASSUME Interrupted PROVE FilesAreKept
  <2>1. \A s \in Subject : Whole(private[s]) => private'[s] = private[s]
    BY <1>7 DEF Interrupted, Leaves, HandIsFile
  <2>2. \A s \in Subject : public[s] # Missing => public'[s] # Missing
    BY <1>7 DEF Interrupted, Leaves
  <2>3. \A f \in SampleFile : sample[f] # "missing" => sample'[f] # "missing"
    BY <1>7 DEF Interrupted, Leaves
  <2>4. log # "torn" /\ log' = "torn" => doing = "record" /\ step' = 0
    BY <1>7 DEF Interrupted, Leaves, Quit
  <2> QED
    BY <1>7, <2>1, <2>2, <2>3, <2>4 DEF Interrupted
<1> QED
  BY <1>1, <1>2, <1>3, <1>4, <1>5, <1>6, <1>7
  DEF Next, InitStep, StartInit, Generate, Load, Refuse, KeepPublic, OpenLog, RefuseLog,
      KnowsRobot, vars

-----------------------------------------------------------------------------
\* the identity in memory stays the one of the private file
LEMMA HandStep == Types /\ HandIsFile /\ [Next]_vars => HandIsFile'
<1> SUFFICES ASSUME Types, HandIsFile, [Next]_vars PROVE HandIsFile'
  OBVIOUS
<1>0. step \in 0..7 /\ step' \in 0..7 /\ Within /\ Within'
  BY NextType, WithinStep DEF Types, HandIsFile
<1> USE <1>0, NowPlace DEF Whole, Missing, files, nodeFiles
<1>1. ASSUME StartInit PROVE HandIsFile'
  <2>1. step' = 1 /\ doing' = "open"
    BY <1>1 DEF StartInit, Within
  <2> QED
    BY <2>1, NowIs DEF HandIsFile
<1>2. ASSUME NEW s \in Subject, Generate(s) PROVE HandIsFile'
  <2>1. step \in 1..2 /\ step' = step /\ doing' = "write" /\ key' = drawn + 1
          /\ private' = private /\ private[s] = 0 /\ Place(step) = s
    BY <1>2, NowIs DEF Generate, files
  <2> QED
    BY <2>1, NowIs DEF HandIsFile, Types
<1>3. ASSUME NEW s \in Subject, Load(s) PROVE HandIsFile'
  <2>1. step \in 1..2 /\ step' = step /\ doing' = "publish-if-missing" /\ key' = private[s]
          /\ private' = private /\ ownerOnly' = ownerOnly /\ private[s] > 0
          /\ s \in ownerOnly /\ Place(step) = s
    BY <1>3, NowIs DEF Load, Readable, files
  <2> QED
    BY <2>1, NowIs DEF HandIsFile, Types
<1>4. ASSUME NEW s \in Subject, Refuse(s) PROVE HandIsFile'
  BY <1>4, NowIs DEF Refuse, Quit, HandIsFile
<1>5. ASSUME NEW s \in Subject, WritePrivate(s) PROVE HandIsFile'
  <2>1. /\ step \in 1..2 /\ step' = step /\ doing = "write" /\ doing' = "chmod" /\ key' = key
        /\ private'[s] = key /\ Place(step) = s
    BY <1>5, NowIs DEF WritePrivate, Types
  <2> QED
    BY <2>1, NowIs DEF HandIsFile
<1>6. ASSUME NEW s \in Subject, Restrict0600(s) PROVE HandIsFile'
  <2>1. /\ step \in 1..2 /\ step' = step /\ doing = "chmod" /\ key' = key
        /\ doing' \in {"publish", "publish-if-missing"}
        /\ private' = private /\ s \in ownerOnly' /\ Place(step) = s
    BY <1>6, NowIs DEF Restrict0600
  <2> QED
    BY <2>1, NowIs DEF HandIsFile
<1>7. ASSUME NEW s \in Subject, SavePublic(s) \/ KeepPublic(s) PROVE HandIsFile'
  <2>1. /\ step \in 1..2 /\ key' = key /\ doing \in {"publish", "publish-if-missing"}
        /\ private' = private /\ ownerOnly' = ownerOnly /\ Place(step) = s
    BY <1>7, NowIs DEF SavePublic, KeepPublic, WritesPublic, Published, GoOn, files
  <2>2. \/ step = 1 /\ step' = step /\ doing' = "audit"
        \/ step' = step + 1 /\ doing' = "open"
    BY <1>7, <2>1, NowIs DEF SavePublic, KeepPublic, Published, GoOn
  <2>3. private[s] = key /\ key > 0 /\ s \in ownerOnly
    BY <2>1 DEF HandIsFile
  <2>4. step' = 3 => s = "robot-1"
    BY <2>1, <2>2, NowIs
  <2> QED
    BY <2>1, <2>2, <2>3, <2>4, NowIs DEF HandIsFile
<1>8. ASSUME KnowsRobot \/ RecordEnrollment \/ \E f \in SampleFile : SaveSample(f)
      PROVE  HandIsFile'
  <2>1. step' \notin {1, 2, 3} /\ doing' = "open"
    BY <1>8, NowIs DEF KnowsRobot, RecordEnrollment, SaveSample, GoOn, Quit, Within
  <2> QED
    BY <2>1, NowIs DEF HandIsFile
<1>12. ASSUME OpenLog PROVE HandIsFile'
  <2>1. step' = 2 /\ doing' = "open"
    BY <1>12 DEF OpenLog, GoOn, Within
  <2> QED
    BY <2>1, NowIs DEF HandIsFile
<1>13. ASSUME RefuseLog PROVE HandIsFile'
  BY <1>13, NowIs DEF RefuseLog, Quit, HandIsFile
<1>14. ASSUME EnrollRobot PROVE HandIsFile'
  <2>1. step = 3 /\ step' = 3 /\ doing' = "record" /\ private' = private /\ key' = key
          /\ enrolled' = key
    BY <1>14, NowIs DEF EnrollRobot
  <2> QED
    BY <2>1, NowIs DEF HandIsFile
<1>9. ASSUME Interrupted PROVE HandIsFile'
  BY <1>9, NowIs DEF Interrupted, Quit, HandIsFile
<1>10. ASSUME NEW s \in Subject, RepairMode(s) PROVE HandIsFile'
  BY <1>10, NowIs DEF RepairMode, HandIsFile
<1>11. ASSUME UNCHANGED vars PROVE HandIsFile'
  BY <1>11 DEF vars, files, nodeFiles, HandIsFile
<1> QED
  BY <1>1, <1>2, <1>3, <1>4, <1>5, <1>6, <1>7, <1>8, <1>9, <1>10, <1>11,
     <1>12, <1>13, <1>14
  DEF Next, InitStep

\* what is published stays a key of a private file
LEMMA PublishedStep ==
  Types /\ HandIsFile /\ PublishedIsPrivate /\ [Next]_vars => PublishedIsPrivate'
<1> SUFFICES ASSUME Types, HandIsFile, PublishedIsPrivate, [Next]_vars
             PROVE  PublishedIsPrivate'
  OBVIOUS
<1> USE DEF PublishedIsPrivate, Whole, Missing, Torn, nodeFiles
<1>1. ASSUME UNCHANGED <<private, public, enrolled>> PROVE PublishedIsPrivate'
  BY <1>1
<1>2. ASSUME NEW s \in Subject, WritePrivate(s) PROVE PublishedIsPrivate'
  <2>1. private[s] = 0 /\ \A t \in Subject \ {s} : private'[t] = private[t]
    BY <1>2 DEF WritePrivate, HandIsFile, Types
  <2>2. ~(public[s] > 0) /\ (s = "robot-1" => ~(enrolled > 0))
    BY <2>1
  <2> QED
    BY <1>2, <2>1, <2>2 DEF WritePrivate, Types, Subject
<1>3. ASSUME NEW s \in Subject, SavePublic(s) PROVE PublishedIsPrivate'
  <2>1. private[s] = key
    BY <1>3 DEF SavePublic, WritesPublic, HandIsFile
  <2> QED
    BY <1>3, <2>1 DEF SavePublic, Types
<1>4. ASSUME EnrollRobot PROVE PublishedIsPrivate'
  <2>1. step = 3
    BY <1>4, NowIs, NowPlace DEF EnrollRobot, Types
  <2> QED
    BY <1>4, <2>1 DEF EnrollRobot, HandIsFile
<1>5. ASSUME Interrupted PROVE PublishedIsPrivate'
  <2>1. \A s \in Subject : private'[s] = private[s] \/ private[s] = 0
    BY <1>5 DEF Interrupted, Leaves, HandIsFile
  <2>2. \A s \in Subject : public'[s] > 0 => public'[s] = public[s]
    BY <1>5 DEF Interrupted, Leaves
  <2>3. enrolled' = enrolled
    BY <1>5 DEF Interrupted
  <2> QED
    BY <2>1, <2>2, <2>3 DEF Subject
<1> QED
  BY <1>1, <1>2, <1>3, <1>4, <1>5
  DEF Next, InitStep, StartInit, Generate, Load, Refuse, Restrict0600, KeepPublic, OpenLog,
      RefuseLog, KnowsRobot, RecordEnrollment, SaveSample, RepairMode, vars, files, nodeFiles

\* what the earlier steps wrote stays there, and each step adds its part
LEMMA DoneStep ==
  Types /\ HandIsFile /\ DoneIsThere /\ [Next]_vars => DoneIsThere'
<1> SUFFICES ASSUME Types, HandIsFile, DoneIsThere, [Next]_vars PROVE DoneIsThere'
  OBVIOUS
<1>0. FilesAreKept /\ step \in 0..7 /\ step' \in 0..7 /\ Types' /\ Within
  BY FilesStep, NextType DEF Types, HandIsFile
<1>1. /\ "coordinator" \in Subject /\ "robot-1" \in Subject
      /\ \A i \in 1..4 : Sample[i] \in SampleFile
  BY ScriptSteps DEF Subject
<1>2. CASE step' <= step /\ doing' # "audit"
  BY <1>0, <1>1, <1>2 DEF DoneIsThere, FilesAreKept
<1>3. CASE step' = 1 /\ doing' # "audit"
  BY <1>3 DEF DoneIsThere
<1>9. CASE step' = step /\ doing' = doing
  BY <1>0, <1>1, <1>9 DEF DoneIsThere, FilesAreKept
<1>4. ASSUME NEW s \in Subject, SavePublic(s) \/ KeepPublic(s) PROVE DoneIsThere'
  <2>1. /\ step \in 1..2 /\ Place(step) = s
        /\ doing \in {"publish", "publish-if-missing"}
        /\ step = 1 => step' = 1
        /\ step = 2 => step' = 3 /\ doing' = "open"
    BY <1>0, <1>4, NowIs, NowPlace
    DEF SavePublic, KeepPublic, WritesPublic, Published, GoOn
  <2>2. private[s] = key /\ Whole(key) /\ s \in ownerOnly
    BY <2>1, NowPlace DEF HandIsFile
  <2>3. Readable(s)' /\ public'[s] # Missing
    <3>1. Readable(s)
      BY <2>2 DEF Readable
    <3>2. public'[s] = key \/ public[s] # Missing
      BY <1>4 DEF SavePublic, KeepPublic, Types
    <3> QED
      BY <1>0, <2>2, <3>1, <3>2 DEF FilesAreKept, Whole, Missing
  <2>4. step = 1 => s = "coordinator"
    BY <1>0, <2>1, NowIs
  <2>5. step = 2 => s = "robot-1"
    BY <1>0, <2>1, NowIs
  <2> QED
    BY <1>0, <1>1, <2>1, <2>3, <2>4, <2>5 DEF DoneIsThere, FilesAreKept
<1>5. ASSUME OpenLog PROVE DoneIsThere'
  <2>1. step = 1 /\ step' = 2 /\ doing' = "open" /\ log' # "torn"
    BY <1>5, <1>0 DEF OpenLog, GoOn, Within, files, nodeFiles
  <2>2. Readable("coordinator") /\ public["coordinator"] # Missing
    BY <1>5 DEF OpenLog, DoneIsThere
  <2> QED
    BY <1>0, <1>1, <2>1, <2>2 DEF DoneIsThere, FilesAreKept
<1>7. ASSUME KnowsRobot \/ RecordEnrollment PROVE DoneIsThere'
  <2>1. step = 3 /\ step' = 4 /\ doing' = "open" /\ log' # "torn"
    BY <1>7, <1>0, NowIs, NowPlace
    DEF KnowsRobot, RecordEnrollment, GoOn, Within, files, nodeFiles, DoneIsThere
  <2>2. Whole(enrolled')
    BY <1>7 DEF KnowsRobot, RecordEnrollment, HandIsFile, Whole, Missing, Types, files,
      nodeFiles
  <2> QED
    BY <1>0, <1>1, <2>1, <2>2 DEF DoneIsThere, FilesAreKept
<1>8. ASSUME EnrollRobot PROVE DoneIsThere'
  <2>1. step' = step /\ doing' = "record" /\ log' = log
    BY <1>8 DEF EnrollRobot
  <2> QED
    BY <1>0, <1>1, <2>1 DEF DoneIsThere, FilesAreKept
<1>6. ASSUME NEW f \in SampleFile, SaveSample(f) PROVE DoneIsThere'
  <2>1. step \in 4..7 /\ (step' = step + 1 \/ step' = 0) /\ Place(step) = f
          /\ doing' = "open"
    BY <1>0, <1>6, NowIs, NowPlace DEF SaveSample, GoOn, Quit
  <2>2. CASE step' = 0
    BY <1>0, <2>1, <2>2, <1>2
  <2>3. CASE step' = step + 1
    <3>1. f = Sample[step - 3]
      BY <1>0, <2>1, NowIs
    <3>2. sample'[f] # "missing"
      BY <1>6 DEF SaveSample, WritesSample, Types
    <3> QED
      BY <1>0, <1>1, <2>1, <2>3, <3>1, <3>2 DEF DoneIsThere, FilesAreKept
  <2> QED
    BY <2>1, <2>2, <2>3
<1> QED
  BY <1>0, <1>2, <1>3, <1>4, <1>5, <1>6, <1>7, <1>8, <1>9
  DEF Next, InitStep, StartInit, Generate, Load, Refuse, WritePrivate, Restrict0600,
      RefuseLog, Interrupted, RepairMode, Quit, Within, vars

\* an enrollment is recorded only while robot-1 is new
LEMMA RecordStep ==
  Types /\ Within /\ RecordedBefore /\ ReadyIsComplete /\ [Next]_vars => RecordedBefore'
<1> SUFFICES ASSUME Types, Within, RecordedBefore, ReadyIsComplete, [Next]_vars,
                    doing' = "record"
             PROVE  ~ready'
  BY DEF RecordedBefore
<1>1. CASE EnrollRobot
  BY <1>1 DEF EnrollRobot, ReadyIsComplete, Whole, Missing
<1>2. CASE \/ UNCHANGED vars \/ StartInit \/ \E s \in Subject : RepairMode(s)
  BY <1>2 DEF RecordedBefore, vars, StartInit, RepairMode
<1> QED
  BY <1>1, <1>2
  DEF Next, InitStep, Generate, Load, Refuse, WritePrivate, Restrict0600, SavePublic,
      KeepPublic, Published, OpenLog, RefuseLog, KnowsRobot, RecordEnrollment, SaveSample,
      Interrupted, GoOn, Quit

\* init says ready when every step is done, and nothing is taken away after
LEMMA ReadyStep ==
  /\ Types /\ HandIsFile /\ DoneIsThere /\ RecordedBefore /\ ReadyIsComplete
  /\ [Next]_vars
  => ReadyIsComplete'
<1> SUFFICES ASSUME Types, HandIsFile, DoneIsThere, RecordedBefore, ReadyIsComplete,
                    [Next]_vars, ready'
             PROVE  /\ \A s \in Subject : Readable(s)' /\ public'[s] # Missing
                    /\ Whole(enrolled') /\ log' # "torn"
                    /\ \A f \in SampleFile : sample'[f] # "missing"
  BY DEF ReadyIsComplete, Readable, Whole
<1>1. FilesAreKept
  BY FilesStep
<1>2. CASE ready
  BY <1>1, <1>2 DEF ReadyIsComplete, RecordedBefore, FilesAreKept
<1>3. CASE ~ready
  <2>1. PICK f \in SampleFile : SaveSample(f) /\ step = Len(Script)
    BY <1>3 DEF Next, InitStep, StartInit, Generate, Load, Refuse, WritePrivate,
      Restrict0600, SavePublic, KeepPublic, OpenLog, RefuseLog, KnowsRobot, EnrollRobot,
      RecordEnrollment, SaveSample, Interrupted, RepairMode, vars
  <2>2. step = 7 /\ f = Sample[4]
    BY <2>1, ScriptLength, NowIs, NowPlace DEF SaveSample
  <2>3. /\ Readable("coordinator") /\ public["coordinator"] # Missing
        /\ Readable("robot-1") /\ public["robot-1"] # Missing
        /\ Whole(enrolled) /\ log # "torn"
        /\ \A i \in 1..3 : sample[Sample[i]] # "missing"
    BY <2>2 DEF DoneIsThere
  <2>6. doing # "record"
    BY <2>2 DEF HandIsFile, Within
  <2>4. sample'[f] # "missing"
    BY <2>1 DEF SaveSample, WritesSample, Types
  <2>5. \A g \in SampleFile : g = f \/ \E i \in 1..3 : g = Sample[i]
    BY <2>2, ScriptSteps
  <2> QED
    BY <1>1, <2>3, <2>4, <2>5, <2>6 DEF FilesAreKept, Subject
<1> QED
  BY <1>2, <1>3

\* the inductive invariant holds in every behaviour
LEMMA SafetyCorrect == Spec => []SafetyInv
<1>1. Init => SafetyInv
  <2>1. /\ Init => HandIsFile /\ DoneIsThere /\ PublishedIsPrivate
        /\ Init => RecordedBefore /\ ReadyIsComplete
    BY DEF Init, Within, RecordedBefore, HandIsFile, DoneIsThere, PublishedIsPrivate, ReadyIsComplete,
      Now, Whole, Missing, Subject
  <2> QED
    BY <2>1, InitType DEF SafetyInv
<1>2. SafetyInv /\ [Next]_vars => SafetyInv'
  BY NextType, HandStep, PublishedStep, DoneStep, RecordStep, ReadyStep
  DEF SafetyInv, HandIsFile
<1> QED
  BY <1>1, <1>2, PTL DEF Spec

-----------------------------------------------------------------------------
\* A published key, in a public file or in the coordinator's state, is a key
\* that its owner holds (coordinator.rs:69-79, main.rs:445-467).
THEOREM PublishedCorrect == Spec => []PublishedIsPrivate
BY SafetyCorrect, PTL DEF SafetyInv

\* When init has said "workspace ready" no file is missing, however often it
\* was interrupted before (main.rs:500).
THEOREM ReadyCorrect == Spec => []ReadyIsComplete
BY SafetyCorrect, PTL DEF SafetyInv

\* "Existing keys are preserved" (main.rs:75): no rerun, interruption or torn
\* write replaces a private identity that is whole.
THEOREM KeysCorrect == Spec => KeysAreKept
<1>1. SafetyInv /\ [Next]_vars
        => [\A s \in Subject : Whole(private[s]) => private'[s] = private[s]]_vars
  BY FilesStep DEF SafetyInv, FilesAreKept
<1> QED
  BY <1>1, SafetyCorrect, PTL DEF Spec, KeysAreKept
=============================================================================
