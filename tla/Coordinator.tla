---------------------------- MODULE Coordinator ----------------------------
(***************************************************************************)
(* The coordination node (src/src/coordinator.rs) behind its tokio mutex   *)
(* (src/src/main.rs, CoordinatorApp).  One request at a time holds the     *)
(* mutex; its handler changes the state in memory, then writes the         *)
(* snapshot, then appends to the audit log, and returns.  Each of these is *)
(* a step here, because the process can be killed, or the step can fail,   *)
(* between them: a failed step returns an error to the client and leaves   *)
(* the earlier ones in place.                                              *)
(*                                                                         *)
(* A refused request (unknown or revoked robot, foreign task, bad TTL...)  *)
(* changes nothing: its conditions are the guards of the handler's action. *)
(***************************************************************************)
EXTENDS Integers, Sequences, FiniteSets

CONSTANTS Robot, Task,
          Blank,           \* the task ids that are empty or white space
          Nobody,          \* the owner of a task that has no owner
          Direct,          \* no token request: the client asked for this step
          Registration,    \* bodies of POST /v1/robots that may arrive
          Request,         \* bodies of POST /v1/tokens that may arrive
          PersistMayFail,  \* may fs::write or fs::rename return an error?
          IoFaults,        \* where an audit append may return an error
          KillPoints,      \* where a kill may cut an audit append
          MaxTokens,       \* bound: no request once so many ids were drawn
          MaxPieces        \* bound: no request once the log has these pieces

VARIABLES up,       \* is the process running?
          state,    \* Coordinator.state, in memory
          disk,     \* state.json
          file,     \* audit.jsonl
          last,     \* the cursor of the AuditLog
          at,       \* the next step of the request that holds the mutex
          event,    \* the audit event of that step
          request,  \* the token request it belongs to, or Direct
          serial,   \* how many token ids Uuid::new_v4 has drawn
          granted,  \* task assignments acknowledged to a client
          barred,   \* robots whose revocation was acknowledged
          handed    \* tokens returned to a client

requestVars == <<at, event, request>>
replyVars   == <<granted, barred, handed>>
vars == <<up, state, disk, file, last, at, event, request, serial,
          granted, barred, handed>>

-----------------------------------------------------------------------------
Token == [id : Nat, robot : Robot, task : Task, seq : Nat]

CoordinatorEvent ==
  [kind : {"robot.enrolled", "robot.revoked"}, robot : Robot]
    \cup [kind : {"task.assigned"}, task : Task, robot : Robot]
    \cup [kind : {"token.issued"}, token : Token]
NoEvent == [kind |-> "none"]

\* RobotRecord and TaskOwnership, one field per column
PersistentState ==
  [enrolled : SUBSET Robot, revoked : SUBSET Robot,
   next : [Robot -> Nat], owner : [Task -> Robot \cup {Nobody}]]

DefaultState ==
  [enrolled |-> {}, revoked |-> {},
   next |-> [r \in Robot |-> 0], owner |-> [k \in Task |-> Nobody]]

Log == INSTANCE AuditFile WITH
         Event <- CoordinatorEvent,
         Signer <- "coordinator", Trusted <- {"coordinator"}

ASSUME CoordinatorAssumption ==
  /\ Nobody \notin Robot
  /\ Direct \notin Request
  /\ Registration \subseteq [robot : Robot, subject : Robot, valid : BOOLEAN]
  /\ \A q \in Request : q.robot \in Robot /\ q.task \in Task
  /\ PersistMayFail \in BOOLEAN
  /\ IoFaults \subseteq Log!CutPoint
  /\ KillPoints \subseteq Log!CutPoint
  /\ MaxTokens \in Nat

TypeOK ==
  /\ up \in BOOLEAN
  /\ state \in PersistentState
  /\ disk \in PersistentState
  /\ file \in Seq(Log!Piece)
  /\ last \in Log!Cursor
  /\ at \in {"idle", "persist", "audit", "sign"}
  /\ event \in CoordinatorEvent \cup {NoEvent}
  /\ request \in Request \cup {Direct}
  /\ serial \in Nat
  /\ granted \subseteq Task \X Robot
  /\ barred \subseteq Robot
  /\ handed \subseteq Token

Init ==
  /\ up = FALSE
  /\ state = DefaultState
  /\ disk = DefaultState
  /\ file = << >>
  /\ last = Log!NoTip
  /\ at = "idle"
  /\ event = NoEvent
  /\ request = Direct
  /\ serial = 0
  /\ granted = {}
  /\ barred = {}
  /\ handed = {}

-----------------------------------------------------------------------------
\* the mutex is free and the bounds leave room for one more request
Free == up /\ at = "idle" /\ Len(file) < MaxPieces

\* the handler changed the memory; it goes on to persist, then to the log
Change(s, e, q) ==
  /\ state' = s
  /\ at' = "persist"
  /\ event' = e
  /\ request' = q
  /\ UNCHANGED <<up, disk, file, last, replyVars>>

Release ==
  /\ at' = "idle"
  /\ event' = NoEvent
  /\ request' = Direct

\* faulty variant of Enroll: a robot may be enrolled over its own record
EnrollReplaces(reg) ==
  /\ Free
  /\ reg.valid /\ reg.subject = reg.robot
  /\ Change([state EXCEPT !.enrolled = @ \cup {reg.robot},
                          !.revoked = @ \ {reg.robot},
                          !.next[reg.robot] = 0],
            [kind |-> "robot.enrolled", robot |-> reg.robot], Direct)
  /\ UNCHANGED serial

Enroll(reg) ==
  /\ Free
  /\ reg.valid /\ reg.subject = reg.robot
  /\ reg.robot \notin state.enrolled
  /\ Change([state EXCEPT !.enrolled = @ \cup {reg.robot}],
            [kind |-> "robot.enrolled", robot |-> reg.robot], Direct)
  /\ UNCHANGED serial

\* faulty variant of Revoke: no snapshot before the audit record
RevokeUnsaved(r) ==
  /\ Free
  /\ r \in state.enrolled
  /\ state' = [state EXCEPT !.revoked = @ \cup {r}]
  /\ at' = "audit"
  /\ event' = [kind |-> "robot.revoked", robot |-> r]
  /\ UNCHANGED <<up, disk, file, last, request, serial, replyVars>>

Revoke(r) ==
  /\ Free
  /\ r \in state.enrolled
  /\ Change([state EXCEPT !.revoked = @ \cup {r}],
            [kind |-> "robot.revoked", robot |-> r], Direct)
  /\ UNCHANGED serial

-----------------------------------------------------------------------------
(***************************************************************************)
(* assign_task, called by its own route (q = Direct) or by issue_token.    *)
(***************************************************************************)
MayOwn(k, r) ==
  /\ k \notin Blank
  /\ r \in state.enrolled
  /\ r \notin state.revoked

\* faulty variants of TakeTask: it takes a task that has an owner; it swaps
\* its two string arguments in the audit event
TakeOwnedTask(k, r, q) ==
  /\ MayOwn(k, r)
  /\ Change([state EXCEPT !.owner[k] = r],
            [kind |-> "task.assigned", task |-> k, robot |-> r], q)
  /\ UNCHANGED serial

TakeTaskSwapped(k, r, q) ==
  /\ MayOwn(k, r)
  /\ state.owner[k] = Nobody
  /\ Change([state EXCEPT !.owner[k] = r],
            [kind |-> "task.assigned", task |-> r, robot |-> k], q)
  /\ UNCHANGED serial

TakeTask(k, r, q) ==
  /\ MayOwn(k, r)
  /\ state.owner[k] = Nobody
  /\ Change([state EXCEPT !.owner[k] = r],
            [kind |-> "task.assigned", task |-> k, robot |-> r], q)
  /\ UNCHANGED serial

\* faulty variant of OwnsAlready: any owner will do
SomeoneOwns(k, r) ==
  /\ MayOwn(k, r)
  /\ state.owner[k] # Nobody

\* the owner asks again: Ok at once, nothing is persisted or logged
OwnsAlready(k, r) ==
  /\ MayOwn(k, r)
  /\ state.owner[k] = r

AssignTask(k, r) ==
  /\ Free
  /\ TakeTask(k, r, Direct)

AssignTaskAgain(k, r) ==
  /\ Free
  /\ OwnsAlready(k, r)
  /\ granted' = granted \cup {<<k, r>>}
  /\ UNCHANGED <<up, state, disk, file, last, requestVars, serial, barred, handed>>

-----------------------------------------------------------------------------
DistinctApprovers(q) == {q.approvals[i] : i \in DOMAIN q.approvals}

Admissible(q) ==
  /\ q.ttl \in 1..300
  /\ q.risk = "high" => Cardinality(DistinctApprovers(q)) >= 2

IssueTokenNewTask(q) ==
  /\ Free
  /\ serial < MaxTokens
  /\ Admissible(q)
  /\ TakeTask(q.task, q.robot, q)

IssueTokenOwnTask(q) ==
  /\ Free
  /\ serial < MaxTokens
  /\ Admissible(q)
  /\ OwnsAlready(q.task, q.robot)
  /\ at' = "sign"
  /\ request' = q
  /\ UNCHANGED <<up, state, disk, file, last, event, serial, replyVars>>

\* faulty variant of SignToken: the counter is not advanced
SignTokenSameNumber ==
  LET r  == request.robot
      tk == [id |-> serial, robot |-> r, task |-> request.task,
             seq |-> state.next[r]]
  IN  /\ at = "sign"
      /\ r \in state.enrolled
      /\ r \notin state.revoked
      /\ serial' = serial + 1
      /\ Change(state, [kind |-> "token.issued", token |-> tk], request)

\* the half of issue_token after assign_task returned Ok
SignToken ==
  LET r  == request.robot
      tk == [id |-> serial, robot |-> r, task |-> request.task,
             seq |-> state.next[r]]
  IN  /\ at = "sign"
      /\ r \in state.enrolled
      /\ r \notin state.revoked
      /\ serial' = serial + 1
      /\ Change([state EXCEPT !.next[r] = @ + 1],
                [kind |-> "token.issued", token |-> tk], request)

-----------------------------------------------------------------------------
\* faulty variant of Persist: the snapshot is not written
PersistSkipped ==
  /\ at = "persist"
  /\ at' = "audit"
  /\ UNCHANGED <<up, state, disk, file, last, event, request, serial, replyVars>>

\* fs::write to state.json.tmp and fs::rename over state.json
Persist ==
  /\ at = "persist"
  /\ disk' = state
  /\ at' = "audit"
  /\ UNCHANGED <<up, state, file, last, event, request, serial, replyVars>>

PersistFails ==
  /\ PersistMayFail
  /\ at = "persist"
  /\ Release
  /\ UNCHANGED <<up, state, disk, file, last, serial, replyVars>>

\* assign_task was called by issue_token: its Ok is not the client's reply
GoesOnToSign == event.kind = "task.assigned" /\ request # Direct

AuditThenSign ==
  /\ at = "audit"
  /\ GoesOnToSign
  /\ Log!Appended(event)
  /\ at' = "sign"
  /\ event' = NoEvent
  /\ UNCHANGED <<up, state, disk, request, serial, replyVars>>

AuditThenReply ==
  /\ at = "audit"
  /\ ~GoesOnToSign
  /\ Log!Appended(event)
  /\ Release
  /\ UNCHANGED <<up, state, disk, serial>>

EnrollReturns ==
  /\ AuditThenReply
  /\ event.kind = "robot.enrolled"
  /\ UNCHANGED replyVars

RevokeReturns ==
  /\ AuditThenReply
  /\ event.kind = "robot.revoked"
  /\ barred' = barred \cup {event.robot}
  /\ UNCHANGED <<granted, handed>>

AssignReturns ==
  /\ AuditThenReply
  /\ event.kind = "task.assigned"
  /\ granted' = granted \cup {<<event.task, event.robot>>}
  /\ UNCHANGED <<barred, handed>>

IssueReturns ==
  /\ AuditThenReply
  /\ event.kind = "token.issued"
  /\ handed' = handed \cup {event.token}
  /\ UNCHANGED <<granted, barred>>

\* faulty variant of AuditFails: issue_token ignores the error of its append
AuditFailsButHands ==
  /\ at = "audit"
  /\ \E cut \in IoFaults : Log!AppendCut(event, cut)
  /\ handed' = IF event.kind = "token.issued" THEN handed \cup {event.token}
                                               ELSE handed
  /\ Release
  /\ UNCHANGED <<up, state, disk, serial, granted, barred>>

AuditFails ==
  /\ at = "audit"
  /\ \E cut \in IoFaults : Log!AppendCut(event, cut)
  /\ Release
  /\ UNCHANGED <<up, state, disk, serial, replyVars>>

-----------------------------------------------------------------------------
\* killed, or stopped; inside an append the file keeps what was written
Crash ==
  /\ up
  /\ up' = FALSE
  /\ IF at = "audit"
     THEN \E cut \in KillPoints : file' = file \o Log!Written(event, cut)
     ELSE file' = file
  /\ state' = DefaultState
  /\ last' = Log!NoTip
  /\ Release
  /\ UNCHANGED <<disk, serial, replyVars>>

\* Coordinator::open: it refuses to start over a log that does not verify
Open ==
  /\ ~up
  /\ Log!Opened
  /\ up' = TRUE
  /\ state' = disk
  /\ UNCHANGED <<disk, requestVars, serial, replyVars>>

Next ==
  \/ \E reg \in Registration : Enroll(reg)
  \/ \E r \in Robot : Revoke(r)
  \/ \E k \in Task, r \in Robot : AssignTask(k, r) \/ AssignTaskAgain(k, r)
  \/ \E q \in Request : IssueTokenNewTask(q) \/ IssueTokenOwnTask(q)
  \/ SignToken \/ Persist \/ PersistFails
  \/ AuditThenSign \/ AuditFails
  \/ EnrollReturns \/ RevokeReturns \/ AssignReturns \/ IssueReturns
  \/ Crash \/ Open

Spec == Init /\ [][Next]_vars
-----------------------------------------------------------------------------
(***************************************************************************)
(* No two tokens in clients' hands authorise different robots for one      *)
(* task, although the owner was decided in an earlier life of the process  *)
(* or by a request whose own snapshot failed (coordinator.rs:227-245).     *)
(***************************************************************************)
TokensAreExclusive ==
  \A a, b \in handed : a.task = b.task => a.robot = b.robot

(***************************************************************************)
(* No two tokens in clients' hands carry the same sequence number of a     *)
(* robot: a counter that was bumped only in memory is lost with the token  *)
(* it was drawn for (coordinator.rs:187-208).                              *)
(***************************************************************************)
SequencesAreUnique ==
  \A a, b \in handed : a.robot = b.robot /\ a.seq = b.seq => a = b

(***************************************************************************)
(* After revoke returned Ok no token is handed out for the robot, in this  *)
(* or in any later life of the process (coordinator.rs:134-153, 178-180).  *)
(***************************************************************************)
RevokedGetsNoToken ==
  [][\A tk \in handed' \ handed : tk.robot \notin barred]_vars

(***************************************************************************)
(* The log never claims what the snapshot lacks: whatever record reached   *)
(* the file, acknowledged or not, state.json already holds its effect      *)
(* (persist before append in every handler).                               *)
(***************************************************************************)
Backed(e, s) ==
  /\ e.kind = "robot.enrolled" => e.robot \in s.enrolled
  /\ e.kind = "robot.revoked"  => e.robot \in s.revoked
  /\ e.kind = "task.assigned"  => s.owner[e.task] = e.robot
  /\ e.kind = "token.issued"   => e.token.seq < s.next[e.token.robot]

LogIsBacked ==
  \A i \in DOMAIN file :
    file[i].kind = "record" => Backed(file[i].body.event, disk)

(***************************************************************************)
(* Every token in a client's hands has its token.issued record in the log, *)
(* and the issued records of a robot count upwards: the log tells in which *)
(* order the robot has to execute (coordinator.rs:201-208).                *)
(***************************************************************************)
IssuedRecords ==
  {i \in DOMAIN file : file[i].kind = "record"
                         /\ file[i].body.event.kind = "token.issued"}

IssuedAt(i) == file[i].body.event.token

LogOrdersTokens ==
  /\ handed \subseteq {IssuedAt(i) : i \in IssuedRecords}
  /\ \A i, j \in IssuedRecords :
       i < j /\ IssuedAt(i).robot = IssuedAt(j).robot
         => IssuedAt(i).seq < IssuedAt(j).seq

(***************************************************************************)
(* The node can always start again, and what it appends continues the log: *)
(* the file verifies, and the cursor that a handler appends with is its    *)
(* tip.  It needs appends that are all or nothing: a record cut in two,    *)
(* one without its newline or one whose sync_data failed each break it     *)
(* (coordinator.rs:87-90, audit.rs:79-113).                                *)
(***************************************************************************)
LogStaysUsable ==
  /\ Log!Verifies(file)
  /\ up => last = Log!Tip(file)

(***************************************************************************)
(* docs/architecture.md:49: "Task assignment is persistent and exclusive": *)
(* no two robots were told that a task is theirs.                          *)
(***************************************************************************)
GrantsAreExclusive ==
  \A a, b \in granted : a[1] = b[1] => a[2] = b[2]

(***************************************************************************)
(* Across kills, restarts, lost replies and I/O errors the node behaves as *)
(* Authority: its disk is the authority, its handed tokens what it issued. *)
(***************************************************************************)
Auth == INSTANCE Authority WITH
          owner <- disk.owner, next <- disk.next,
          revoked <- disk.revoked, issued <- handed

IsAuthority == Auth!Spec
=============================================================================
