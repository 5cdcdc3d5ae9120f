----------------------------- MODULE Workspace -----------------------------
(***************************************************************************)
(* spacl init (src/src/main.rs, init_workspace) and the identity files it  *)
(* and Coordinator::open create.  Init is one process that writes file     *)
(* after file; it may be interrupted between any two of them or inside a   *)
(* write, and the operator runs it again with --force, which keeps every   *)
(* file that exists.                                                       *)
(*                                                                         *)
(* A key pair is a number.  Of the coordinator's audit log, the subject of *)
(* AuditLog, it is told here whether it verifies: enroll appends to it and *)
(* every later init opens it.                                              *)
(***************************************************************************)
EXTENDS Integers, Sequences

CONSTANTS TornWrites,  \* may an interrupted fs::write leave a torn file?
          MaxStops     \* bound: how often init is interrupted

VARIABLES private,    \* the key in each private identity file
          ownerOnly,  \* the private files that have mode 0600
          public,     \* the key in each public identity file
          enrolled,   \* the key of robot-1 in the coordinator's state.json
          log,        \* the coordinator's audit.jsonl: empty, whole or torn
          sample,     \* the sample files: missing, torn or whole
          step,       \* the next step of the running init; 0 when none runs
          doing,      \* where it is within a step
          key,        \* the identity that step holds in memory
          drawn,      \* how many key pairs were generated
          stops,      \* how often init was interrupted
          ready       \* history: an init printed "workspace ready"

nodeFiles == <<enrolled, log>>
files == <<private, ownerOnly, public, nodeFiles, sample>>
vars  == <<files, step, doing, key, drawn, stops, ready>>

-----------------------------------------------------------------------------
Missing == 0
Torn    == -1
Whole(k) == k > 0

Subject == {"coordinator", "robot-1"}

\* the sample files in the order they are written; the marker is the last
Sample == <<"coordinator.toml", "robot-1.toml", "sample-token-request.json",
            "spacl-workspace.json">>
SampleFile == {Sample[i] : i \in DOMAIN Sample}

Script == <<"coordinator", "robot-1", "enroll">> \o Sample
Now == IF step = 0 THEN "none" ELSE Script[step]

ASSUME WorkspaceAssumption == TornWrites \in BOOLEAN /\ MaxStops \in Nat

TypeOK ==
  /\ private \in [Subject -> Int]
  /\ ownerOnly \subseteq Subject
  /\ public \in [Subject -> Int]
  /\ enrolled \in Nat
  /\ log \in {"empty", "whole", "torn"}
  /\ sample \in [SampleFile -> {"missing", "torn", "whole"}]
  /\ step \in 0..Len(Script)
  /\ doing \in {"open", "write", "chmod", "publish", "publish-if-missing",
                "audit", "record"}
  /\ key \in Nat
  /\ drawn \in Nat
  /\ stops \in 0..MaxStops
  /\ ready \in BOOLEAN

Init ==
  /\ private = [s \in Subject |-> Missing]
  /\ ownerOnly = {}
  /\ public = [s \in Subject |-> Missing]
  /\ enrolled = Missing
  /\ log = "empty"
  /\ sample = [f \in SampleFile |-> "missing"]
  /\ step = 0
  /\ doing = "open"
  /\ key = 0
  /\ drawn = 0
  /\ stops = 0
  /\ ready = FALSE

-----------------------------------------------------------------------------
Quit == step' = 0 /\ doing' = "open" /\ key' = 0
GoOn == step' = step + 1 /\ doing' = "open" /\ UNCHANGED key

\* the first init, or one with --force
StartInit ==
  /\ step = 0
  /\ step' = 1
  /\ UNCHANGED <<files, doing, key, drawn, stops, ready>>

Readable(s) == Whole(private[s]) /\ s \in ownerOnly

\* faulty variant of Generate: an identity that cannot be read is replaced
GenerateIfUnreadable(s) ==
  /\ Now = s /\ doing = "open"
  /\ ~Readable(s)
  /\ drawn' = drawn + 1
  /\ key' = drawn + 1
  /\ doing' = "write"
  /\ UNCHANGED <<files, step, stops, ready>>

\* faulty variant of Generate: the private file is not written
GenerateUnsaved(s) ==
  /\ Now = s /\ doing = "open"
  /\ private[s] = Missing
  /\ drawn' = drawn + 1
  /\ key' = drawn + 1
  /\ doing' = "publish"
  /\ UNCHANGED <<files, step, stops, ready>>

Generate(s) ==
  /\ Now = s /\ doing = "open"
  /\ private[s] = Missing
  /\ drawn' = drawn + 1
  /\ key' = drawn + 1
  /\ doing' = "write"
  /\ UNCHANGED <<files, step, stops, ready>>

\* faulty variant of Load: a public file that is missing stays missing
LoadOnly(s) ==
  /\ Now = s /\ doing = "open"
  /\ Readable(s)
  /\ step' = step + 1
  /\ key' = private[s]
  /\ UNCHANGED <<files, doing, drawn, stops, ready>>

Load(s) ==
  /\ Now = s /\ doing = "open"
  /\ Readable(s)
  /\ key' = private[s]
  /\ doing' = "publish-if-missing"
  /\ UNCHANGED <<files, step, drawn, stops, ready>>

\* load_private: the file grants more than owner access, or does not parse
Refuse(s) ==
  /\ Now = s /\ doing = "open"
  /\ private[s] # Missing
  /\ ~Readable(s)
  /\ Quit
  /\ UNCHANGED <<files, drawn, stops, ready>>

\* save_private: fs::write, then set_permissions
WritePrivate(s) ==
  /\ Now = s /\ doing = "write"
  /\ private' = [private EXCEPT ![s] = key]
  /\ doing' = "chmod"
  /\ UNCHANGED <<ownerOnly, public, nodeFiles, sample, step, key, drawn, stops, ready>>

\* Coordinator::open publishes a new identity in any case, init only when
\* the public file is missing
Restrict0600(s) ==
  /\ Now = s /\ doing = "chmod"
  /\ ownerOnly' = ownerOnly \cup {s}
  /\ doing' = IF s = "coordinator" THEN "publish" ELSE "publish-if-missing"
  /\ UNCHANGED <<private, public, nodeFiles, sample, step, key, drawn, stops, ready>>

WritesPublic(s) ==
  /\ Now = s
  /\ \/ doing = "publish"
     \/ doing = "publish-if-missing" /\ public[s] = Missing

\* Coordinator::open has its audit log still to open
Published ==
  IF Now = "coordinator" THEN doing' = "audit" /\ UNCHANGED <<step, key>> ELSE GoOn

SavePublic(s) ==
  /\ WritesPublic(s)
  /\ public' = [public EXCEPT ![s] = key]
  /\ Published
  /\ UNCHANGED <<private, ownerOnly, nodeFiles, sample, drawn, stops, ready>>

KeepPublic(s) ==
  /\ Now = s /\ doing = "publish-if-missing"
  /\ public[s] # Missing
  /\ Published
  /\ UNCHANGED <<files, drawn, stops, ready>>

\* AuditLog::open_verified: a log that does not verify ends every init
OpenLog ==
  /\ doing = "audit" /\ log # "torn"
  /\ GoOn
  /\ UNCHANGED <<files, drawn, stops, ready>>

RefuseLog ==
  /\ doing = "audit" /\ log = "torn"
  /\ Quit
  /\ UNCHANGED <<files, drawn, stops, ready>>

-----------------------------------------------------------------------------
\* faulty variant of KnowsRobot: enroll is called without looking first, and
\* returns AlreadyEnrolled the second time
EnrollBlindly ==
  /\ Now = "enroll" /\ doing = "open"
  /\ enrolled # Missing
  /\ Quit
  /\ UNCHANGED <<files, drawn, stops, ready>>

KnowsRobot ==
  /\ Now = "enroll" /\ doing = "open"
  /\ enrolled # Missing
  /\ GoOn
  /\ UNCHANGED <<files, drawn, stops, ready>>

\* Coordinator::enroll: state.json is replaced whole, then the log written
EnrollRobot ==
  /\ Now = "enroll" /\ doing = "open"
  /\ enrolled = Missing
  /\ enrolled' = key
  /\ doing' = "record"
  /\ UNCHANGED <<private, ownerOnly, public, log, sample, step, key, drawn, stops, ready>>

RecordEnrollment ==
  /\ doing = "record"
  /\ log' = "whole"
  /\ GoOn
  /\ UNCHANGED <<private, ownerOnly, public, enrolled, sample, drawn, stops, ready>>

\* write_if_missing; the marker file is written over
WritesSample(f) == Now = f /\ (sample[f] = "missing" \/ step = Len(Script))

\* faulty variant of SaveSample: init runs on behind its last step
SaveSampleRunsOn(f) ==
  /\ Now = f
  /\ sample' = IF WritesSample(f) THEN [sample EXCEPT ![f] = "whole"] ELSE sample
  /\ GoOn
  /\ UNCHANGED <<private, ownerOnly, public, nodeFiles, drawn, stops, ready>>

SaveSample(f) ==
  /\ Now = f
  /\ sample' = IF WritesSample(f) THEN [sample EXCEPT ![f] = "whole"] ELSE sample
  /\ IF step = Len(Script) THEN Quit /\ ready' = TRUE
                           ELSE GoOn /\ UNCHANGED ready
  /\ UNCHANGED <<private, ownerOnly, public, nodeFiles, drawn, stops>>

-----------------------------------------------------------------------------
\* what an interrupted write may leave behind
Leaves(old, torn) == {old} \cup (IF TornWrites THEN {torn} ELSE {})

\* killed, or a write returned an error; a record that only lacks its newline
\* is whole, since open_verified accepts it
Interrupted ==
  /\ step # 0
  /\ stops < MaxStops
  /\ stops' = stops + 1
  /\ \E left \in Leaves(private, [s \in Subject |->
         IF Now = s /\ doing = "write" THEN Torn ELSE private[s]]) : private' = left
  /\ \E left \in Leaves(public, [s \in Subject |->
         IF WritesPublic(s) THEN Torn ELSE public[s]]) : public' = left
  /\ \E left \in Leaves(sample, [f \in SampleFile |->
         IF WritesSample(f) THEN "torn" ELSE sample[f]]) : sample' = left
  /\ \E left \in Leaves(log, IF doing = "record" THEN "torn" ELSE log) : log' = left
  /\ Quit
  /\ UNCHANGED <<ownerOnly, enrolled, drawn, ready>>

\* docs/troubleshooting.md: the operator repairs the mode of a private file
RepairMode(s) ==
  /\ step = 0
  /\ private[s] # Missing
  /\ s \notin ownerOnly
  /\ ownerOnly' = ownerOnly \cup {s}
  /\ UNCHANGED <<private, public, nodeFiles, sample, step, doing, key, drawn, stops, ready>>

InitStep ==
  \/ \E s \in Subject :
       \/ Generate(s) \/ Load(s) \/ Refuse(s) \/ WritePrivate(s) \/ Restrict0600(s)
       \/ SavePublic(s) \/ KeepPublic(s)
  \/ OpenLog \/ RefuseLog \/ KnowsRobot \/ EnrollRobot \/ RecordEnrollment
  \/ \E f \in SampleFile : SaveSample(f)

Next ==
  \/ StartInit \/ InitStep \/ Interrupted
  \/ \E s \in Subject : RepairMode(s)

Spec == Init /\ [][Next]_vars

\* init runs on by itself; the operator reruns it until it reports success,
\* and follows the documented repair
FairSpec ==
  /\ Spec
  /\ WF_vars(StartInit) /\ WF_vars(InitStep)
  /\ \A s \in Subject : SF_vars(RepairMode(s))

-----------------------------------------------------------------------------
(***************************************************************************)
(* main.rs:75, "Existing keys are preserved": whatever interrupts init, a  *)
(* private identity that was written completely is never replaced.         *)
(***************************************************************************)
KeysAreKept ==
  [][\A s \in Subject : Whole(private[s]) => private'[s] = private[s]]_vars

(***************************************************************************)
(* What others may already have pinned is a key that its owner still has:  *)
(* a public file, or the enrollment of robot-1, names the key of the       *)
(* private file (coordinator.rs:69-79, main.rs:445-467).                   *)
(***************************************************************************)
PublishedIsPrivate ==
  /\ \A s \in Subject : Whole(public[s]) => public[s] = private[s]
  /\ Whole(enrolled) => enrolled = private["robot-1"]

(***************************************************************************)
(* main.rs:500, "workspace ready": no file is missing, both private        *)
(* identities load, robot-1 is enrolled and the coordinator's log verifies *)
(* (coordinator.rs:87, 115-131), however often init was interrupted        *)
(* before, also inside a write.                                            *)
(***************************************************************************)
ReadyIsComplete ==
  ready => /\ \A s \in Subject : Readable(s) /\ public[s] # Missing
           /\ Whole(enrolled) /\ log # "torn"
           /\ \A f \in SampleFile : sample[f] # "missing"

(***************************************************************************)
(* main.rs:70, "a ready-to-run workspace": every file is whole besides, so *)
(* that both services can start from it.                                   *)
(***************************************************************************)
ReadyIsUsable ==
  ready => /\ \A s \in Subject : Readable(s) /\ Whole(public[s])
           /\ Whole(enrolled)
           /\ \A f \in SampleFile : sample[f] = "whole"

(***************************************************************************)
(* main.rs:75, init --force fills missing files: an operator who reruns an *)
(* interrupted init gets a workspace, except when what was interrupted is  *)
(* the write of a private identity, which init neither reads nor replaces, *)
(* or of the record of the enrollment (coordinator.rs:122-130): over a log *)
(* that is torn no init gets through Coordinator::open again.              *)
(***************************************************************************)
InitCompletes ==
  <>(ready \/ log = "torn" \/ \E s \in Subject : private[s] = Torn)
=============================================================================
