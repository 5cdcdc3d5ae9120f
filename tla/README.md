# SPACL in TLA+

Formal models of SPACL (`src/`), the TLC runs that check them on small
instances, and TLAPS proofs of the properties that matter most. SPACL is a
coordination node that owns a fleet's tasks and signs action tokens, and one
runtime beside each robot that checks a token and calls the skill adapter. Both
keep a JSON snapshot and a signed, hash-chained audit log on disk. The program is
small; what is hard about it is what happens when a process is killed or a write
fails between two of its steps, when handlers of one service interleave, and when
the replies that tie the nodes together are lost, late or repeated.

Line references are to `src/src/*.rs` unless another directory is given.

## The system

| Component | State | Operations | Talks to |
|---|---|---|---|
| Audit log (`audit.rs`) | `audit.jsonl`; a cursor (next index, last hash) in memory | `open`, `open_verified`, `append`, `verify`, `read` | owned by a coordinator or a runtime |
| Coordinator (`coordinator.rs`) | robots, revocations, sequence counters, task owners: in memory and in `state.json` | `open`, `enroll`, `revoke`, `assign_task`, `issue_token`, `persist` | its audit log; clients through HTTP |
| Robot runtime (`runtime.rs`) | next sequence, consumed tokens, emergency stop: in memory and in `runtime-state.json` | `open`, `execute` (`verify`, `check_policy`), `set_emergency_stop`, `persist` | its audit log; the skill adapter; clients through HTTP |
| HTTP services (`main.rs`, `metrics.rs`) | one tokio mutex around each node; counters | one route per operation, `/metrics`, graceful shutdown | the two nodes |
| Operators (`main.rs`: `token issue`, `execute`, `stop`, `clear-stop`) | the token file | ask, present, do what the error body advises | both services |
| Identities (`crypto.rs`) | private and public identity files | `generate`, `save_private`, `load_private`, `save_public`, `sign`, `verify` | everything |
| Start-up and CLI (`main.rs`) | the files of a workspace | `init`, `keygen`, `audit verify`, `audit tail`, `status`, token commands | the files and the services |
| Data model (`model.rs`), key establishment | records; none | | |
| Demonstrations, examples, renderer | none of their own | straight-line scripts | |

A token travels from the coordinator to a runtime through a client: the two
nodes never talk to each other. A runtime pins the coordinator's public identity
and decides from the token, the context it is handed, its own state and its
clock.

Every handler runs alone in its process, under the mutex, but it is not atomic
towards the outside:

1. It changes the state in memory; a failure of a later step does not undo this.
2. It writes the snapshot to a temporary file and renames it (all or nothing).
3. It appends a record to the audit log: a JSON text in many small writes, a
   newline, `sync_data`. The cursor moves only when all of them succeeded.
4. It replies.

A kill is possible between any two of these and inside step 3; steps 2 and 3 can
return an error after which the process goes on serving. A restart reads the
snapshot and refuses to start over a log that does not verify. Hence the hazards
listed in PROJECT.json: a change that exists only in memory and that a later
request saves or relies on; a snapshot without its record or a record without
its snapshot; a log damaged in one life and unreadable in the next; a skill that
ran and was not recorded as consumed; a number drawn twice or skipped; a stop or
revocation that a restart forgets; an interrupted `init` and its rerun.

Between the parts there are three more: handlers of one service wait for its mutex
while others work, clients hang up and counters are read; `audit tail --follow`
reads the log while its owner writes it; and a robot accepts only the next number
of its tokens, so that a token that was drawn and lost, or came too late, stands
in the way of all later ones.

## The modules

| Module | Models | Extends / instantiates |
|---|---|---|
| `AuditFile` | the log as data: records, chain, `verify`, one `append` and where it can be cut | |
| `AuditLog` | the log as a state machine of its own, with I/O errors and kills | `AuditFile` |
| `Authority` | the abstract specification of a coordination node, and a proof that it is safe | |
| `Actuation` | the abstract specification of the robots of a fleet | |
| `Coordinator` | the coordination node | `Log == INSTANCE AuditFile`, `Auth == INSTANCE Authority` |
| `ExecutionGate` | `verify` and `check_policy` as a function | |
| `RobotRuntime` | the robot runtime | `ExecutionGate`, `Log == INSTANCE AuditFile`, `Actuator == INSTANCE Actuation` |
| `AuditFollow` | `audit tail --follow` beside the writer of the log | `AuditLog` |
| `Workspace` | `init`, the identity files, interrupted and rerun | |
| `Fleet` | operators, a coordinator and several robots | `Gate(r) == INSTANCE ExecutionGate`, `Auth == INSTANCE Authority`, `Actuators == INSTANCE Actuation` |
| `Service` | the handlers of one HTTP service, its mutex and its metrics | |
| `AuditFileProofs`, `AuditLogProofs`, `CoordinatorProofs`, `RobotRuntimeProofs`, `WorkspaceProofs`, `FleetProofs`, `ServiceProofs` | theorems | the module they are about |
| `MC*` | model values and small sets for TLC | the module they are about |

Definitions named "faulty variant of ..." in the modules are not used by any
specification: each is what a plausible slip in the code would have made of the
definition that follows it, and the run named in PROJECT.json refutes a property
when it is put in that definition's place. They show that the properties can
fail.

### AuditFile and AuditLog

`file` is a sequence of pieces: a whole record, a torn record, a newline. A
hash is the list of bodies it covers, so that two hashes are equal exactly when
the histories are (SHA-256 without collisions), and a signature is the key and
the message (unforgeable). `Written(e, cut)` says what an `append` of `e`
leaves behind when it is cut while opening, inside the text, before the newline or
at `sync_data`; `Appended` is a complete append, `AppendCut` one that returned
an error and left the cursor where it was. `Verifies` is `AuditLog::verify`
(index, previous hash, record hash, signer, signature of each line), `Parses`
is `read`: the odd pieces are whole records and the even ones newlines; a last
line without a newline is accepted, as `BufRead::lines` accepts it. `Opened` is
`open_verified`. `AuditLog` adds the life of a process around it.

### AuditFollow

The command is another process that takes no lock. It reads the whole file when it
starts and at every tick of its interval (`StartTail`, `Poll`), at rest or in
the middle of an append: `TailInsideAppend` combines a step of the writer with a
read of what `Written(e, cut)` leaves before that append is complete. A line that
does not parse ends the command, as the error of `print_audit` does; a missing
file does so at the start.

### Coordinator

`state` is memory, `disk` is `state.json`, `file` and `last` the audit log. A
handler is a chain of steps selected by `at`:

    Enroll | Revoke | AssignTask            memory changed, at = "persist"
    Persist | PersistFails                  snapshot, at = "audit" | error reply
    EnrollReturns | RevokeReturns | ...     record appended, reply
    AuditFails                              error reply

`issue_token` is `IssueTokenNewTask` (assign the task, persist, append
`task.assigned`, `AuditThenSign`, then `SignToken`, persist, append
`token.issued`, `IssueReturns`) or, for a task the robot owns,
`IssueTokenOwnTask` (straight to `SignToken`). `AssignTaskAgain` is the early
`Ok` of line 227. `Crash` may come in front of any step and cuts an append
that is under way; `Open` is `Coordinator::open`. Refused requests change
nothing in `coordinator.rs`, so that their conditions are the guards. History
variables record what clients were told: `granted`, `barred`, `handed`.

`Authority` is what the fleet relies on: a durable owner per task that never
changes, a counter per robot that never goes back, a revocation that is never
lifted, and tokens issued only under these, in the order of their numbers. One
`Commit` may carry the effects of several requests, because a request whose own
snapshot failed leaves its change in memory for the next one. The coordinator
implements it with `disk` for the authority and `handed` for the tokens.

### ExecutionGate and RobotRuntime

`Gates` lists the errors of the nine gates of `verify` in the order of the code and
`Opens` says when each gate is open; `Verify` is the first that is closed. In `RobotRuntime`,
`execute` is `ExecutePasses`, `StartedLogged` (the started record), `RunSkill`
(the adapter is called, the token consumed in memory) or `UnknownSkill`, then
`Persist` and `AuditThenReply`; a refusal is `ExecuteRefused` with the ignored
errors of its snapshot and its record. `SetEmergencyStop` changes memory first,
as the code does. `released` records every call of the adapter, in order.
`Tick` lets time pass between any two steps.

`Actuation` is what the fleet relies on: for each robot a durable next number and
durable consumed tokens that never go back and that remember only calls which
were made (`Save`), and calls of the adapter under them, in the order of the
numbers and never under an acknowledged stop (`Call`). A call and the snapshot
that remembers it are two steps, because a kill between them takes the call back
from the snapshot and not from the world. The runtime implements it with `disk` for
the durable state, `held` for the stop and `released` for the calls.

### Workspace

One `init` at a time writes file after file (`Script`), the private identities in
two steps (write, then mode 0600). `Coordinator::open` ends with the audit log
(`OpenLog`, `RefuseLog`), and the enrollment is the snapshot (`EnrollRobot`) and its
audit record (`RecordEnrollment`), or neither when `robots()` knows the robot
(`KnowsRobot`). Of the log only `log` is kept: does it verify, as `AuditLog` says in
detail. `Interrupted` stops `init` anywhere and, with `TornWrites`, inside an
`fs::write` or inside that record. The next `init` runs with `--force`.
`RepairMode` is the `chmod 600` of `docs/troubleshooting.md`.

### Fleet

The nodes never talk to each other: what connects them is an operator, who asks for
a token (`Ask`, `IssueToken`), presents it (`Present`) and reacts to an error
by the `action` that `ApiError` puts in its body (`Advice`, `Follow`): ask for a
fresh token, present the same one again, or give up. A handler is one step here,
with an outcome of its own for each fault that leaves a different state behind.

For the node that is: nothing saved (`AskFails`), the assignment saved and the number
not (`DrawFails`), the number saved and no token (`IssueFails`), the reply lost
(`IssueReplyLost`). The books `owner`, `next` and `revoked` are its snapshot. Its
memory is ahead of them after a failed persist, and a request then meets what it
would meet had that snapshot been written and the rest of the handler failed, or a
refusal; that it changes nothing for the tokens in hand is what
`CoordinatorProofs!Refinement` shows with memory and disk apart.

A robot has both: `state` is its memory and `saved` its `runtime-state.json`. A run
that passes is `Saved`; when persist fails it is `Unsaved`, the operator reads an
error and the process works on a number ahead of its disk; when the process is killed
before persist it is `Killed`, and memory is what the disk says. `ExecuteFails` also
covers an execution whose started record fails, which changes nothing, and one whose
completed record fails, which is saved. Any refused request writes the whole memory
(`ExecuteRefused`, `RefuseStranger`), unless that fails too. `SetEmergencyStop`
changes the memory first (`Stop`, `ClearStop`, `ClearFails`). `Restart` kills the
process between two requests; afterwards, as after `Killed`, the robot may be `down`
for good, over a log that does not verify. `ExecuteLate` is a copy of an old request,
or one whose reply nobody reads.

Only issuing keeps two steps (`DrawToken` and its reply), so that everything else
may come between them. The node here and `Coordinator` are both shown to implement
`Authority`, the robots here and `RobotRuntime` to implement `Actuation`. That the same two
promises are kept by the detailed nodes and by these is what justifies leaving the
inside of the handlers out. (It is a check of the seams, not a composition: `Fleet`
also has replies and codes that the two promises do not mention.)

### Service

One service of either role. A handler counts its request and joins the queue of the
mutex (`Arrive`), gets it in the order of arrival (`Lock`; a tokio mutex is fair),
decides and works (`Decide`, `Finish`), and counts the outcome afterwards, outside
the mutex. The await at the mutex is the only point where a dropped connection
takes the handler with it (`HangUp`: it leaves the queue, wherever it stands in it). What a handler does to the node is the subject
of the other modules; here it is a decision and an effect, because the mutex is what
keeps other handlers from between the two. Every `fetch_add` is a step, and so is
every `load` of `render`. `CtrlC` and `Exit` are the graceful shutdown.

## What is checked

| Run | Question | Outcome |
|---|---|---|
| `audit_follow` | With errors and kills at every write and a follower that reads at any moment: types; is every acknowledged record in a log that verifies, is damage permanent, is each record behind the old ones printed once and in order, and does the follower keep up or end? | holds |
| `audit_kill` | Are lines always records (what `docs/architecture.md:47` implies)? | violated |
| `coordinator_crash` | With kills between any two steps: types, exclusive grants, a log backed by the snapshot and usable by the next start, refinement of `Authority` | holds |
| `coordinator_faults` | With snapshot errors, append errors and kills at every step: exclusive, unique, ordered tokens; none after a revocation | holds |
| `coordinator_grants` | Are acknowledged assignments exclusive when a snapshot may fail (`docs/architecture.md:49`)? | violated |
| `runtime_faults` | With errors and kills, an expiring token and an unknown skill: types, no number skipped, a started record for every call, settled tokens stay settled, a stop holds, refinement of `Actuation` | holds |
| `runtime_once` | Is the adapter called at most once with a token? | violated |
| `workspace_init` | Interrupted anywhere, also inside a write: types, keys kept, only keys on disk published, nothing missing when init reports success, and init completes unless a private key or the record of the enrollment was torn | holds |
| `workspace_ready` | Is everything whole besides, when init reports success? | violated |
| `fleet` | With lost replies, failed requests and snapshots, restarts, late copies, expiry, revocation and stops: types, one robot per task, numbers run in order, a gap never heals, a robot reaches the drawn numbers unless one of the obstacles that `HeldUp` names is in its way, refinement of `Authority` by the node and of `Actuation` by the robots | holds |
| `fleet_advice` | Does a fresh token help after `TOKEN_EXPIRED`, as the error body says? | violated |
| `service` | With concurrent handlers, clients that hang up, a reader of the metrics and a shutdown: types, counters that add up, readings that are current, nothing acts under a stop, somebody can always go on while a request is open, every request ends | holds |

### Bounds

- The coordinator instances have two robots, one task (and an empty task id), two
  tokens and a log of up to four or five requests' records: enough for both
  robots to contend for the task, for a second token of the same robot, and for
  restarts between any two requests. A second task would add no new conflict: an
  owner is looked up by task, and the counter of a robot does not depend on it.
  `MaxPieces` and `MaxTokens` stop new requests, never a request under way, and
  never `Crash` or `Open`.
- The request set holds the shortest and longest lifetime and their neighbours,
  one approver named twice and two approvers, a foreign subject and a malformed
  identity.
- `runtime_once` has two consecutive tokens, presented in any order any number of
  times; `runtime_faults` an expiring token with the first number, and two tokens
  with the second, one for a skill the simulator does not know. Two numbers are
  what a gap or a repetition needs. The log holds up to five pieces before the
  last request: a complete execution, and a second one after it.
- `MaxNow` bounds the clock at the values the tokens' lifetimes distinguish. The
  code reads the clock once, before it writes the started record; a token may
  therefore expire before its skill is called, by however long the write takes.
  The model lets that happen and claims nothing about it.
- `MaxStops` is four: one interruption for each private identity's two steps, and
  two more for the reruns.
- `audit_follow` has every cut point of an append, three records and one old line
  to leave out. The coordinator runs leave out a torn text, which makes the log
  unreadable exactly as two records on one line do, and `runtime_faults` takes the
  torn text for errors and the missing newline for kills. The proofs cover all
  cut points.
- `fleet` has two robots and four jobs: three operators at one robot, two of them with
  a skill that it can run and one with a skill that passes every gate and cannot run,
  and one at another robot who contends for the task; two tokens (`MaxTokens` stops
  drawing, nothing else), a lifetime of one second in a clock of three values, and
  any two faults, where a stop, a revocation and a change of the world count as
  faults. A gap needs two numbers of one robot and one fault; a robot that runs n,
  n + 1 and n again needs two numbers, a failed snapshot and a kill; a stolen task
  two robots and a token.
  `fleet_advice` needs one job and no fault at all.
- `service` has any three requests, of any routes of one role: one that works, one
  that waits and one that reads, or two that wait, of which one hangs up. The latency
  of a token is 0 or 1.

### Fairness

Four modules state liveness properties.

- `Workspace`: `init` runs on by itself once started (weak fairness of `InitStep`),
  the operator starts it again until it reports success (weak fairness of
  `StartInit`), and follows the documented repair when a private file is refused
  (strong fairness of `RepairMode`, which is enabled only between two attempts).
  Interruptions are bounded by `MaxStops`, which is the usual assumption that they
  stop eventually.
- `AuditFollow`: the interval of the follower keeps ticking (weak fairness of a poll
  of the file at rest). Nothing is assumed of the writer.
- `Fleet`: the node replies, operators present the tokens they have and clear the
  stops, and robots that are not down answer: weak fairness of `IssueToken`, of
  `Present` of each operator and of `ClearStop` of each robot. Nobody has to ask, and
  faults, ticks and changes of the world need not happen.
- `Service`: weak fairness of each handler and of `Exit`: the runtime polls the tasks
  it has accepted. For `Lock` weak fairness is enough, because whoever is at the head
  of the queue stays there until the mutex is free. Requests, hang-ups and Ctrl-C
  come as they like.

`Coordinator` and `RobotRuntime` promise no progress of their own: they wait for
requests, and an I/O error may repeat for ever.

## What is proved

The proofs hold for all values of the constants allowed by the modules'
assumptions: any robots, tasks, requests, tokens, contexts, any fault and kill
points, any bounds.

| Theorem | Says |
|---|---|
| `AuditLogProofs!TypeCorrect`, `DamagePersists`, `VerifiedLogIsComplete` | `TypeOK`; `DamageIsPermanent`; `VerifiedIsComplete` |
| `AuditLogProofs!FollowTypeCorrect`, `FollowerPrintsEachOnce`, `FollowedDamagePersists`, `FollowedLogIsComplete` | the same beside a follower: `FollowTypeOK`; `PrintsEachOnce`; `DamageIsPermanent`; `VerifiedIsComplete` |
| `AuditLogProofs!CursorFollowsTip` | `CursorIsTip`, if appends are all or nothing |
| `Authority!TokensAreSafe` | one owner per task, one token per number |
| `CoordinatorProofs!TypeCorrect`, `LogBacked`, `Revocation`, `LogIsOrdered` | `TypeOK`; `LogIsBacked`; `RevokedGetsNoToken`; `LogOrdersTokens` |
| `CoordinatorProofs!Refinement` | `IsAuthority`: the coordinator implements `Authority` |
| `CoordinatorProofs!HandedTokens`, `NumbersAreUnique` | `TokensAreExclusive` and `SequencesAreUnique`, through the refinement |
| `CoordinatorProofs!UsableLog` | `LogStaysUsable`, if appends are all or nothing (`audit_kill` shows why the assumption is needed) |
| `CoordinatorProofs!ExclusiveGrants` | `GrantsAreExclusive`, if no snapshot fails (`coordinator_grants` shows why the assumption is needed) |
| `RobotRuntimeProofs!TypeCorrect`, `NumbersInOrder`, `SettledStays`, `StopIsHeld`, `CallsAreEvidenced` | `TypeOK`; `NoReleaseSkipsANumber`; `SettledIsFinal`; `StopHolds`; `ReleasesAreEvidenced` |
| `RobotRuntimeProofs!Refinement` | `IsActuation`: the runtime implements `Actuation` |
| `WorkspaceProofs!TypeCorrect`, `KeysCorrect`, `PublishedCorrect`, `ReadyCorrect` | `TypeOK`; `KeysAreKept`; `PublishedIsPrivate`; `ReadyIsComplete` |
| `FleetProofs!TypeCorrect`, `TasksCorrect`, `OrderCorrect`, `DeadEndsCorrect` | `TypeOK`; `TasksRunOnOneRobot`; `RunsInIssueOrder`; `DeadEndsStay` |
| `FleetProofs!Refinement` | `IsAuthority`: so does the node of the fleet |
| `FleetProofs!RobotsCorrect` | `IsActuation`: so do the robots of the fleet |
| `ServiceProofs!TypeCorrect`, `StopCorrect`, `ReadingsCorrect`, `BooksCorrect`, `NeverStuck` | `TypeOK`; `NothingActsUnderStop`; `ReadingsAreCurrent`; `BooksBalance`; `NobodyIsStuck` |

The arguments:

- *Log.* A step of the log only appends pieces, and a prefix of a log that
  verifies verifies (`PrefixVerifies`): damage cannot be repaired. An
  acknowledged record stays in the file as a whole text, and in a file that
  parses the whole texts are the lines. For the cursor the invariant adds that
  the file ends in a newline; without it the next record would share a line.
- *Follower.* What a poll reads that parses alternates between records and newlines,
  also in the middle of an append; what was read before stays in place, because a
  step of the writer only appends (`ReadInside`, `PrintedStays`). So the lines of
  the next poll that are past `seen` continue the stretch that was printed
  (`CutStretch`, `Continued`).
- *Coordinator.* The properties speak of replies and disk, but a reply is
  prepared in memory, perhaps on top of changes an earlier request failed to
  save. `SafetyInv` says how the three hang together: memory is ahead of disk
  in one direction only (`Grows`: owners stay, counters rise, revocations
  stay), memory and disk agree when a handler reaches its append, the pending
  event is backed by memory, a pending token continues the numbers of its robot,
  and what clients hold is saved. Restarting throws memory back to disk, which
  keeps all of it. `Refinement` then maps `Persist` to `Commit`, `IssueReturns`
  to `Issue` and every other step to a stutter. `LogInv` adds, for the order of
  the issued records, that every number in the file is below the saved counter.
- *Runtime.* `SafetyInv` says that a token on its way to the adapter still passes
  the replay, sequence and stop gates, that receipts and held stops are saved,
  and that the number before the expected one was released, for the disk as well
  as for memory: a restart may expect an earlier number, never a later one.
  `CallInv` is the other half, for the refinement: what a snapshot remembers was
  called (`Remembered`), of the disk and of the memory, so that a step between them
  is a `Save`, `RunSkill` a `Call`, and a restart changes nothing in `Actuation`.
  `Evidence` counts: the calls with a token, plus the one whose started record is
  already written, are at most the started records in the file.

- *Workspace.* Between the write of a private identity and the enrollment, memory
  holds the key of the file (`HandIsFile`), so what is published is what is on
  disk. No step and no interruption takes a whole key, a mode, a published key, the
  enrollment or a sample file away (`FilesAreKept`), so what the steps before the
  current one wrote is there (`DoneIsThere`), at the end everything. The log is only
  torn inside the record of the enrollment, which no init writes once one got ready
  (`Within`, `RecordedBefore`), and no init gets past a torn one.
- *Fleet.* Operators present only tokens that were delivered (`Presenting`); a token
  is drawn for the owner of its task and under a new number (`TokensBacked`).
  The calls of all adapters go back to such tokens, which gives one robot per task.
  What a robot remembers, in memory and on disk, it did, and the memory is not behind
  the disk (`Remembered`); a run adds to the memory, a snapshot takes the disk up to
  it, a restart takes the memory down. So every number below one that runs was run
  before, also after restarts, and the snapshots and calls are an `Actuation`. A dead
  end holds for the number in memory and for the one on disk: a lost number stays
  lost (`LostStays`), because every number still to be drawn is higher, and without
  a run the two can only take each other's place.
- *Service.* Whoever works has the mutex, so the flag is what it was when the handler
  looked (`MutexInv`). Counters only grow (`CountersGrow`), so a reading lies
  between their values at its beginning and now (`ReadingInv`). The queue holds
  exactly those who wait, each once, and the mutex is held by one who works
  (`QueueInv`), so its head or its holder can go on; a client that hangs up takes its
  place out of the middle, which keeps the order of the others (`Without`). A
  counter is the number of the handlers that have passed the line which counts them
  (`Books`); `Progress` says how far each can be, so that at rest the numbers add up.

Only model-checked: the violations, and liveness (`FollowsOrEnds`, `InitCompletes`,
`NumbersAreConsumed`, `WorkEnds`: fairness and ENABLED are out of the prover's
reach). `NobodyIsStuck` says with explicit conditions what is needed of ENABLED in
`Service`, and is proved.

Assumed throughout: SHA-256 has no collisions and signatures are not forged; a
rename is atomic and survives a kill of the process (not a power loss: the
snapshots are not synced); one process per data directory; a pinned identity is
the right one. `Fleet` gives all nodes one clock; the five seconds of skew that the
runtime grants are in the gate, and never needed there.

## Findings

1. `audit_kill`: a kill between a record's text and its newline leaves a log that
   opens without complaint. The next record is written on the same line, and the
   node never starts again (`audit.rs:108`).
2. `coordinator_grants`: an assignment whose snapshot failed is acknowledged when
   the robot asks again (`coordinator.rs:227`) without being written. After a
   restart another robot is given the task, against `docs/architecture.md:49`.
3. `workspace_ready`: a file left torn by an interrupted `init` is taken for
   present by the rerun, which reports the workspace ready (`main.rs:515`, `:453`).
4. `runtime_once`: a kill after the adapter ran and before the snapshot makes the
   runtime accept the same token again (`runtime.rs:129`).
5. `fleet_advice`: a token that expired is never consumed and its number never given
   out again, so the fresh token that the error body (`main.rs:1679`) and
   `docs/troubleshooting.md:39` advise is refused with a sequence gap, and so is every
   later one; no command reconciles the number (`runtime.rs:190`,
   `docs/architecture.md:51`). `FleetProofs!DeadEndsCorrect` is the general fact.

The model also shows, without a text that says otherwise: an operator whose reply to
an execution was lost and who follows the advice of `TOKEN_REPLAY` gets the action
done a second time, with a second token; and the error that a robot reports after an
unknown skill leaves its number unconsumed, which is a dead end too. A robot whose
snapshot failed and that was then killed runs n, n + 1 and n again, when the token is
presented again (`runtime.rs:134`). An `init` that is interrupted inside the record of
the enrollment (`coordinator.rs:122`) never completes, however often it is rerun,
although all its keys are whole.

## Not modelled

- The bytes of signatures, digests and canonical JSON; ML-KEM key establishment,
  which no service calls.
- Two processes on one data directory: nothing locks it, and `init --force` opens
  the coordinator's directory while the service may run. No text says what should
  hold then.
- Clocks that differ between nodes by more than nothing: each node reads its own, and
  no text bounds the difference beyond the five seconds of the gate.
- The reading of a log at rest by `audit verify` beyond `Verifies`; tampering with a log
  is left to the tests of `audit.rs`, since `Verifies` compares ideal digests and would
  detect it by construction.
- `keygen`, printing, merging of configuration, the status commands, CORS, request ids,
  the text format of the metrics, the demonstrations: no state that a property is about.
- Wall-clock and display fields, `last_activity`: no decision reads them.

## What could be added

1. `AuditFollow` with a writer whose single writes are steps: it would separate a read
   between two writes from the append as a whole, at the price of a larger log model.
2. The safety of `Fleet` from a composition in which its node is `Coordinator` itself
   and its robots are `RobotRuntime` themselves, with the steps of all handlers; the
   state space is out of reach for TLC with more than one request in each node.
