------------------------- MODULE CoordinatorProofs -------------------------
(***************************************************************************)
(* Proofs about Coordinator, for every number of robots, tasks, tokens and *)
(* requests, and for every choice of the faults that may happen.           *)
(*                                                                         *)
(* The argument rests on the order of each handler (memory, snapshot, log, *)
(* reply): the memory only ever grows beyond the snapshot (MemoryAhead),   *)
(* and a request that has reached its log step works on a memory that the  *)
(* snapshot equals (SavedBeforeLog), so what is then logged and handed out *)
(* is durable already.                                                     *)
(***************************************************************************)
EXTENDS Coordinator, TLAPS

LogP == INSTANCE AuditFileProofs WITH
          Event <- CoordinatorEvent,
          Signer <- "coordinator", Trusted <- {"coordinator"}

(***************************************************************************)
(* The facts about audit files that are needed here, for this log.         *)
(***************************************************************************)
LEMMA SameLog ==
  /\ LogP!Piece = Log!Piece /\ LogP!Cursor = Log!Cursor
  /\ LogP!CutPoint = Log!CutPoint /\ LogP!Record = Log!Record
BY DEF LogP!Piece, Log!Piece, LogP!Cursor, Log!Cursor, LogP!CutPoint, Log!CutPoint,
       LogP!Record, Log!Record, LogP!Body, Log!Body, LogP!Hash, Log!Hash,
       LogP!Signature, Log!Signature

\* what an append that was cut short adds to the file is a sequence of pieces
LEMMA WrittenPieces ==
  ASSUME last \in Log!Cursor, NEW e \in CoordinatorEvent, NEW cut \in Log!CutPoint
  PROVE  /\ Log!Written(e, cut) \in Seq(Log!Piece)
         /\ \A i \in DOMAIN Log!Written(e, cut) :
              Log!Written(e, cut)[i].kind = "record"
                => i = 1 /\ Log!Written(e, cut)[i].body.event = e
<1>1. LogP!Written(e, cut) = Log!Written(e, cut)
  BY DEF LogP!Written, Log!Written, LogP!NextRecord, Log!NextRecord,
         LogP!NextBody, Log!NextBody, LogP!Sha256, Log!Sha256, LogP!Sign, Log!Sign,
         LogP!Torn, Log!Torn, LogP!NewLine, Log!NewLine
<1>2. Log!Written(e, cut) \in Seq(Log!Piece)
  BY <1>1, SameLog, LogP!WrittenType
<1>3. Log!NextRecord(e).body.event = e
  BY DEF Log!NextRecord, Log!NextBody
<1>4. Log!Torn.kind # "record" /\ Log!NewLine.kind # "record"
  BY DEF Log!Torn, Log!NewLine
<1> HIDE DEF Log!NextRecord
<1>5. \A i \in DOMAIN Log!Written(e, cut) :
        Log!Written(e, cut)[i].kind = "record"
          => i = 1 /\ Log!Written(e, cut)[i].body.event = e
  <2>1. CASE cut = "open"
    BY <2>1 DEF Log!Written
  <2>2. CASE cut = "write"
    BY <1>4, <2>2 DEF Log!Written
  <2>3. CASE cut = "newline"
    BY <1>3, <2>3 DEF Log!Written
  <2>4. CASE cut = "sync"
    BY <1>3, <1>4, <2>4 DEF Log!Written
  <2> QED
    BY <2>1, <2>2, <2>3, <2>4 DEF Log!CutPoint
<1> QED
  BY <1>2, <1>5

\* the cursor after an append is a cursor
LEMMA CursorAfterAppend ==
  ASSUME last \in Log!Cursor, NEW e \in CoordinatorEvent, Log!Appended(e)
  PROVE  last' \in Log!Cursor
<1>1. [index |-> LogP!NextBody(e).index, hash |-> LogP!Sha256(LogP!NextBody(e))]
        \in LogP!Cursor
  BY SameLog, LogP!NextRecordType
<1>2. LogP!NextBody(e) = Log!NextBody(e)
  BY DEF LogP!NextBody, Log!NextBody
<1>3. LogP!Sha256(LogP!NextBody(e)) = Log!Sha256(Log!NextBody(e))
  BY <1>2 DEF LogP!Sha256, Log!Sha256
<1> QED
  BY <1>1, <1>2, <1>3, SameLog DEF Log!Appended

\* the cursor after an open is a cursor
LEMMA CursorAfterOpen ==
  ASSUME file \in Seq(Log!Piece), Log!Opened
  PROVE  last' \in Log!Cursor
<1>1. LogP!Parses(file)
  BY DEF Log!Opened, Log!Verifies, Log!Parses, LogP!Parses
<1>2. LogP!Tip(file) \in LogP!Cursor
  BY <1>1, SameLog, LogP!TipType
<1>3. LogP!Tip(file) = Log!Tip(file)
  BY DEF LogP!Tip, Log!Tip, LogP!NoTip, Log!NoTip, LogP!Genesis, Log!Genesis,
         LogP!Records, Log!Records
<1> QED
  BY <1>2, <1>3, SameLog DEF Log!Opened

\* the cursor of an empty log is a cursor
LEMMA NoTipType == Log!NoTip \in Log!Cursor
BY DEF Log!NoTip, Log!Cursor, Log!Genesis, Log!Hash

(***************************************************************************)
(* How a step changes the file: not at all, or by what an append of the    *)
(* pending event writes.                                                   *)
(***************************************************************************)
LEMMA FileStep ==
  ASSUME [Next]_vars
  PROVE  \/ file' = file
         \/ /\ at = "audit"
            /\ disk' = disk
            /\ \E cut \in Log!CutPoint : file' = file \o Log!Written(event, cut)
<1> USE CoordinatorAssumption DEF replyVars, requestVars
<1>1. CASE AuditThenSign \/ AuditThenReply
  <2>1. "sync" \in Log!CutPoint
    BY DEF Log!CutPoint
  <2> QED
    BY <1>1, <2>1 DEF AuditThenSign, AuditThenReply, Log!Appended
<1>2. CASE AuditFails
  BY <1>2 DEF AuditFails, Log!AppendCut
<1>3. CASE Crash
  BY <1>3 DEF Crash
<1>4. CASE Open
  BY <1>4 DEF Open, Log!Opened
<1>5. CASE UNCHANGED vars
  BY <1>5 DEF vars
<1> QED
  BY <1>1, <1>2, <1>3, <1>4, <1>5
     DEF Next, Enroll, Revoke, AssignTask, AssignTaskAgain, IssueTokenNewTask,
         IssueTokenOwnTask, TakeTask, SignToken, Persist, PersistFails, Change,
         EnrollReturns, RevokeReturns, AssignReturns, IssueReturns

-----------------------------------------------------------------------------
(***************************************************************************)
(* Type correctness.                                                       *)
(***************************************************************************)
LEMMA InitType == Init => TypeOK
<1> SUFFICES ASSUME Init PROVE TypeOK
  OBVIOUS
<1>1. << >> \in Seq(Log!Piece)
  OBVIOUS
<1>2. DefaultState \in PersistentState
  BY DEF DefaultState, PersistentState
<1> QED
  BY <1>1, <1>2, NoTipType DEF Init, TypeOK

\* every step leaves a sequence of pieces in the file
LEMMA FileType ==
  ASSUME TypeOK, [Next]_vars, at = "audit" => event \in CoordinatorEvent
  PROVE  file' \in Seq(Log!Piece)
<1>1. file \in Seq(Log!Piece) /\ last \in Log!Cursor
  BY DEF TypeOK
<1>2. ASSUME at = "audit", NEW cut \in Log!CutPoint,
             file' = file \o Log!Written(event, cut)
      PROVE  file' \in Seq(Log!Piece)
  <2>1. Log!Written(event, cut) \in Seq(Log!Piece)
    BY <1>1, <1>2, WrittenPieces
  <2> QED
    BY <1>1, <1>2, <2>1
<1> QED
  BY <1>1, <1>2, FileStep

\* a request that is past its first step has an event to log
HasEvent == at \in {"persist", "audit"} => event \in CoordinatorEvent

\* a request between assign_task and signing is a token request
HasRequest == at = "sign" => request \in Request

\* the events that the handlers append are events of the log
LEMMA EventTypes ==
  /\ \A r \in Robot : [kind |-> "robot.enrolled", robot |-> r] \in CoordinatorEvent
  /\ \A r \in Robot : [kind |-> "robot.revoked", robot |-> r] \in CoordinatorEvent
  /\ \A k \in Task, r \in Robot :
       [kind |-> "task.assigned", task |-> k, robot |-> r] \in CoordinatorEvent
  /\ \A tk \in Token : [kind |-> "token.issued", token |-> tk] \in CoordinatorEvent
  /\ \A e \in CoordinatorEvent :
       /\ e.kind \in {"robot.enrolled", "robot.revoked", "task.assigned", "token.issued"}
       /\ e.kind \in {"robot.enrolled", "robot.revoked"} => e.robot \in Robot
       /\ e.kind = "task.assigned" => e.task \in Task /\ e.robot \in Robot
       /\ e.kind = "token.issued" => e.token \in Token
BY DEF CoordinatorEvent

\* the next token number is a number
LEMMA NextNumberType ==
  ASSUME NEW s \in PersistentState, NEW r \in Robot
  PROVE  [s EXCEPT !.next[r] = @ + 1] \in PersistentState
BY DEF PersistentState

TypeInv == TypeOK /\ HasEvent /\ HasRequest

\* every step of the coordinator keeps the type invariant
LEMMA NextType == TypeInv /\ [Next]_vars => TypeInv'
<1> SUFFICES ASSUME TypeInv, [Next]_vars PROVE TypeInv'
  OBVIOUS
<1> USE CoordinatorAssumption DEF TypeInv
<1>1. file' \in Seq(Log!Piece)
  BY FileType DEF HasEvent
<1>2. ASSUME NEW s \in PersistentState, NEW e \in CoordinatorEvent,
             NEW q \in Request \cup {Direct}, Change(s, e, q), serial' \in Nat
      PROVE  TypeInv'
  BY <1>1, <1>2 DEF TypeOK, HasEvent, HasRequest, Change, replyVars
<1>3. ASSUME Release, last' \in Log!Cursor, state' \in PersistentState,
             UNCHANGED <<disk, serial>>, up' \in BOOLEAN,
             granted' \subseteq Task \X Robot, barred' \subseteq Robot,
             handed' \subseteq Token
      PROVE  TypeInv'
  BY <1>1, <1>3 DEF TypeOK, HasEvent, HasRequest, Release
<1>4. ASSUME NEW reg \in Registration, Enroll(reg)
      PROVE  TypeInv'
  <2>1. reg.robot \in Robot
    OBVIOUS
  <2>2. [state EXCEPT !.enrolled = @ \cup {reg.robot}] \in PersistentState
    BY <2>1 DEF TypeOK, PersistentState
  <2> QED
    BY <1>2, <1>4, <2>1, <2>2, EventTypes DEF Enroll, TypeOK
<1>5. ASSUME NEW r \in Robot, Revoke(r)
      PROVE  TypeInv'
  <2>1. [state EXCEPT !.revoked = @ \cup {r}] \in PersistentState
    BY DEF TypeOK, PersistentState
  <2> QED
    BY <1>2, <1>5, <2>1, EventTypes DEF Revoke, TypeOK
<1>6. ASSUME NEW k \in Task, NEW r \in Robot, NEW q \in Request \cup {Direct},
             TakeTask(k, r, q)
      PROVE  TypeInv'
  <2>1. [state EXCEPT !.owner[k] = r] \in PersistentState
    BY DEF TypeOK, PersistentState
  <2> QED
    BY <1>2, <1>6, <2>1, EventTypes DEF TakeTask, TypeOK
<1>7. ASSUME NEW k \in Task, NEW r \in Robot, AssignTaskAgain(k, r)
      PROVE  TypeInv'
  BY <1>1, <1>7 DEF AssignTaskAgain, requestVars, TypeOK, HasEvent, HasRequest
<1>8. ASSUME NEW q \in Request, IssueTokenOwnTask(q)
      PROVE  TypeInv'
  BY <1>1, <1>8 DEF IssueTokenOwnTask, replyVars, TypeOK, HasEvent, HasRequest
<1>9. CASE SignToken
  <2> DEFINE r  == request.robot
             tk == [id |-> serial, robot |-> r, task |-> request.task,
                    seq |-> state.next[r]]
             s  == [state EXCEPT !.next[r] = @ + 1]
             e  == [kind |-> "token.issued", token |-> tk]
  <2>1. request \in Request /\ r \in Robot /\ request.task \in Task
    BY <1>9 DEF SignToken, HasRequest
  <2>2. tk \in Token
    BY <2>1 DEF Token, TypeOK, PersistentState
  <2>3. s \in PersistentState
    BY <2>1, NextNumberType DEF TypeOK
  <2>4. serial' \in Nat
    BY <1>9 DEF SignToken, TypeOK
  <2>5. Change(s, e, request)
    BY <1>9 DEF SignToken
  <2>6. e \in CoordinatorEvent
    BY <2>2, EventTypes
  <2> HIDE DEF s, e
  <2> QED
    BY <1>2, <2>1, <2>3, <2>4, <2>5, <2>6
<1>10. CASE Persist
  BY <1>1, <1>10 DEF Persist, replyVars, TypeOK, HasEvent, HasRequest
<1>11. CASE PersistFails
  BY <1>3, <1>11 DEF PersistFails, replyVars, TypeOK
<1>12. CASE AuditThenSign
  <2>1. last' \in Log!Cursor
    BY <1>12, CursorAfterAppend DEF AuditThenSign, HasEvent, TypeOK
  <2> QED
    BY <1>1, <1>12, <2>1
       DEF AuditThenSign, GoesOnToSign, replyVars, TypeOK, HasEvent, HasRequest
<1>13. ASSUME EnrollReturns \/ RevokeReturns \/ AssignReturns \/ IssueReturns
       PROVE  TypeInv'
  <2>1. AuditThenReply /\ event \in CoordinatorEvent
    BY <1>13 DEF EnrollReturns, RevokeReturns, AssignReturns, IssueReturns,
                 AuditThenReply, HasEvent
  <2>2. last' \in Log!Cursor
    BY <2>1, CursorAfterAppend DEF AuditThenReply, TypeOK
  <2>3. /\ granted' \subseteq Task \X Robot
        /\ barred' \subseteq Robot
        /\ handed' \subseteq Token
    BY <1>13, <2>1, EventTypes
       DEF EnrollReturns, RevokeReturns, AssignReturns, IssueReturns, replyVars, TypeOK
  <2> QED
    BY <1>3, <2>1, <2>2, <2>3 DEF AuditThenReply, TypeOK
<1>14. CASE AuditFails
  BY <1>3, <1>14 DEF AuditFails, Log!AppendCut, replyVars, TypeOK
<1>15. CASE Crash
  <2>1. state' \in PersistentState /\ last' \in Log!Cursor
    BY <1>15, NoTipType DEF Crash, DefaultState, PersistentState
  <2> QED
    BY <1>3, <1>15, <2>1 DEF Crash, replyVars, TypeOK
<1>16. CASE Open
  BY <1>1, <1>16, CursorAfterOpen
     DEF Open, requestVars, replyVars, TypeOK, HasEvent, HasRequest
<1>17. CASE UNCHANGED vars
  BY <1>17 DEF vars, TypeOK, HasEvent, HasRequest
<1> QED
  BY <1>4, <1>5, <1>6, <1>7, <1>8, <1>9, <1>10, <1>11, <1>12, <1>13, <1>14,
     <1>15, <1>16, <1>17 DEF Next, AssignTask, IssueTokenNewTask

\* Coordinator keeps its types for all robots, tasks, requests, faults and bounds (coordinator.rs:48-97)
THEOREM TypeCorrect == Spec => []TypeOK
<1>1. Init => TypeInv
  BY InitType DEF Init, TypeInv, HasEvent, HasRequest
<1>2. TypeInv => TypeOK
  BY DEF TypeInv
<1> QED
  BY <1>1, <1>2, NextType, PTL DEF Spec

-----------------------------------------------------------------------------
(***************************************************************************)
(* The inductive invariant.                                                *)
(***************************************************************************)
\* t may follow s: robots and revocations stay, counters rise, owners stay
Grows(s, t) ==
  /\ s.enrolled \subseteq t.enrolled
  /\ s.revoked \subseteq t.revoked
  /\ \A r \in Robot : s.next[r] <= t.next[r]
  /\ \A k \in Task : s.owner[k] # Nobody => t.owner[k] = s.owner[k]

MemoryAhead   == up => Grows(disk, state)
IdleWhenDown  == ~up => at = "idle"
SavedBeforeLog == at = "audit" => disk = state

Pending == at \in {"persist", "audit"}

\* a token about to be handed out continues the numbers of its robot
PendingToken ==
  Pending /\ event.kind = "token.issued" =>
    /\ state.owner[event.token.task] = event.token.robot
    /\ event.token.robot \notin state.revoked
    /\ \A old \in handed :
         old.robot = event.token.robot => old.seq < event.token.seq

\* a task taken on behalf of a token request is the task of that request
PendingTask ==
  Pending /\ event.kind = "task.assigned" /\ request # Direct =>
    event.task = request.task /\ event.robot = request.robot

TaskBeforeToken == at = "sign" => state.owner[request.task] = request.robot

TokensAreSaved ==
  \A tk \in handed : /\ disk.owner[tk.task] = tk.robot
                     /\ tk.seq < disk.next[tk.robot]

RevocationsAreSaved == barred \subseteq disk.revoked

SafetyInv ==
  /\ TypeInv
  /\ MemoryAhead /\ IdleWhenDown /\ SavedBeforeLog
  /\ Pending => Backed(event, state)
  /\ PendingToken /\ PendingTask /\ TaskBeforeToken
  /\ TokensAreSaved /\ RevocationsAreSaved

(***************************************************************************)
(* A handler that changes the memory, in the direction in which it grows,  *)
(* and queues an event that the new memory backs, keeps the invariant.     *)
(***************************************************************************)
LEMMA ChangeKeeps ==
  ASSUME SafetyInv, up, NEW s \in PersistentState, NEW e \in CoordinatorEvent, NEW q,
         Change(s, e, q), TypeInv', Grows(state, s), Backed(e, s),
         e.kind = "token.issued" =>
           /\ s.owner[e.token.task] = e.token.robot
           /\ e.token.robot \notin s.revoked
           /\ \A old \in handed :
                old.robot = e.token.robot => old.seq < e.token.seq,
         e.kind = "task.assigned" /\ q # Direct =>
           e.task = q.task /\ e.robot = q.robot
  PROVE  SafetyInv'
<1> USE DEF SafetyInv, Change, replyVars
<1>1. state \in PersistentState /\ disk \in PersistentState
  BY DEF TypeInv, TypeOK
<1>2. Grows(disk, s)
  BY <1>1 DEF MemoryAhead, Grows, PersistentState
<1>3. MemoryAhead' /\ IdleWhenDown' /\ SavedBeforeLog'
  BY <1>2 DEF MemoryAhead, IdleWhenDown, SavedBeforeLog, Grows
<1>4. (Pending => Backed(event, state))'
  BY DEF Backed
<1>5. PendingToken' /\ PendingTask' /\ TaskBeforeToken'
  BY DEF PendingToken, PendingTask, TaskBeforeToken, Pending
<1>6. TokensAreSaved' /\ RevocationsAreSaved'
  BY DEF TokensAreSaved, RevocationsAreSaved
<1> QED
  BY <1>3, <1>4, <1>5, <1>6

(***************************************************************************)
(* A request that ends, or goes on to signing, leaves memory, snapshot and *)
(* the covered replies as they are.                                        *)
(***************************************************************************)
LEMMA QuietStepKeeps ==
  ASSUME SafetyInv, TypeInv', UNCHANGED <<up, state, disk>>,
         at' \in {"idle", "sign"}, IdleWhenDown',
         at' = "sign" => state.owner[request'.task] = request'.robot,
         TokensAreSaved', RevocationsAreSaved'
  PROVE  SafetyInv'
<1> USE DEF SafetyInv
<1>1. MemoryAhead' /\ SavedBeforeLog'
  BY DEF MemoryAhead, SavedBeforeLog, Grows
<1>2. ~Pending'
  BY DEF Pending
<1>3. PendingToken' /\ PendingTask' /\ TaskBeforeToken'
  BY <1>2 DEF PendingToken, PendingTask, TaskBeforeToken
<1> QED
  BY <1>1, <1>2, <1>3

\* every step of the coordinator keeps the safety invariant, one case per action
LEMMA NextSafety == SafetyInv /\ [Next]_vars => SafetyInv'
<1> SUFFICES ASSUME SafetyInv, [Next]_vars PROVE SafetyInv'
  OBVIOUS
<1>1. /\ TypeInv /\ TypeInv'
      /\ state \in PersistentState /\ disk \in PersistentState /\ handed \subseteq Token
  BY NextType DEF SafetyInv, TypeInv, TypeOK
<1>2. at # "idle" => up
  BY DEF SafetyInv, IdleWhenDown
<1> USE CoordinatorAssumption
<1>3. ASSUME NEW reg \in Registration, Enroll(reg)
      PROVE  SafetyInv'
  <2> DEFINE s == [state EXCEPT !.enrolled = @ \cup {reg.robot}]
             e == [kind |-> "robot.enrolled", robot |-> reg.robot]
  <2>1. reg.robot \in Robot
    OBVIOUS
  <2>2. s \in PersistentState /\ Grows(state, s) /\ reg.robot \in s.enrolled
    BY <1>1, <2>1 DEF PersistentState, Grows
  <2>3. e \in CoordinatorEvent /\ e.kind = "robot.enrolled" /\ Backed(e, s)
    BY <2>1, <2>2 DEF CoordinatorEvent, Backed
  <2>4. up /\ Change(s, e, Direct)
    BY <1>3 DEF Enroll, Free
  <2> HIDE DEF s, e
  <2> QED
    BY <1>1, <2>2, <2>3, <2>4, ChangeKeeps
<1>4. ASSUME NEW r \in Robot, Revoke(r)
      PROVE  SafetyInv'
  <2> DEFINE s == [state EXCEPT !.revoked = @ \cup {r}]
             e == [kind |-> "robot.revoked", robot |-> r]
  <2>1. s \in PersistentState /\ Grows(state, s) /\ r \in s.revoked
    BY <1>1 DEF PersistentState, Grows
  <2>2. e \in CoordinatorEvent /\ e.kind = "robot.revoked" /\ Backed(e, s)
    BY <2>1 DEF CoordinatorEvent, Backed
  <2>3. up /\ Change(s, e, Direct)
    BY <1>4 DEF Revoke, Free
  <2> HIDE DEF s, e
  <2> QED
    BY <1>1, <2>1, <2>2, <2>3, ChangeKeeps
<1>5. ASSUME NEW k \in Task, NEW r \in Robot, NEW q, up, TakeTask(k, r, q),
             q # Direct => k = q.task /\ r = q.robot
      PROVE  SafetyInv'
  <2> DEFINE s == [state EXCEPT !.owner[k] = r]
             e == [kind |-> "task.assigned", task |-> k, robot |-> r]
  <2>1. s \in PersistentState /\ Grows(state, s) /\ s.owner[k] = r
    BY <1>1, <1>5 DEF PersistentState, Grows, TakeTask
  <2>2. e \in CoordinatorEvent /\ e.kind = "task.assigned" /\ Backed(e, s)
        /\ e.task = k /\ e.robot = r
    BY <2>1 DEF CoordinatorEvent, Backed
  <2>3. Change(s, e, q)
    BY <1>5 DEF TakeTask
  <2> HIDE DEF s, e
  <2> QED
    BY <1>1, <1>5, <2>1, <2>2, <2>3, ChangeKeeps
<1>6. ASSUME NEW k \in Task, NEW r \in Robot, AssignTaskAgain(k, r)
      PROVE  SafetyInv'
  <2>1. UNCHANGED <<up, state, disk, at, handed, barred>> /\ at' = "idle"
    BY <1>6 DEF AssignTaskAgain, Free, requestVars
  <2>2. TokensAreSaved' /\ RevocationsAreSaved' /\ IdleWhenDown'
    BY <2>1 DEF SafetyInv, TokensAreSaved, RevocationsAreSaved, IdleWhenDown
  <2> QED
    BY <1>1, <2>1, <2>2, QuietStepKeeps
<1>7. ASSUME NEW q \in Request, IssueTokenOwnTask(q)
      PROVE  SafetyInv'
  <2>1. /\ UNCHANGED <<up, state, disk, handed, barred>>
        /\ at' = "sign" /\ request' = q /\ up
        /\ state.owner[q.task] = q.robot
    BY <1>7 DEF IssueTokenOwnTask, Free, OwnsAlready, replyVars
  <2>2. TokensAreSaved' /\ RevocationsAreSaved' /\ IdleWhenDown'
    BY <2>1 DEF SafetyInv, TokensAreSaved, RevocationsAreSaved, IdleWhenDown
  <2> QED
    BY <1>1, <2>1, <2>2, QuietStepKeeps
<1>8. CASE SignToken
  <2> DEFINE r  == request.robot
             tk == [id |-> serial, robot |-> r, task |-> request.task,
                    seq |-> state.next[r]]
             s  == [state EXCEPT !.next[r] = @ + 1]
             e  == [kind |-> "token.issued", token |-> tk]
  <2>1. at = "sign" /\ up /\ r \notin state.revoked /\ Change(s, e, request)
    BY <1>2, <1>8 DEF SignToken
  <2>2. request \in Request /\ r \in Robot /\ request.task \in Task /\ serial \in Nat
    BY <1>1, <2>1 DEF TypeInv, TypeOK, HasRequest
  <2>3. tk \in Token
    BY <1>1, <2>2 DEF Token, PersistentState
  <2>4. s \in PersistentState
    BY <1>1, <2>2, NextNumberType
  <2>5. /\ s.enrolled = state.enrolled /\ s.revoked = state.revoked
        /\ s.owner = state.owner
        /\ \A x \in Robot : s.next[x] = IF x = r THEN state.next[r] + 1
                                                 ELSE state.next[x]
    BY <1>1, <2>2 DEF PersistentState
  <2>6. Grows(state, s)
    BY <1>1, <2>2, <2>5 DEF Grows, PersistentState
  <2>7. /\ e \in CoordinatorEvent /\ e.kind = "token.issued" /\ e.token = tk
        /\ tk.robot = r /\ tk.task = request.task /\ tk.seq = state.next[r]
    BY <2>3, EventTypes
  <2>8. state.owner[request.task] = r
    BY <2>1 DEF SafetyInv, TaskBeforeToken
  <2>9. \A old \in handed : old.robot = r => old.seq < state.next[r]
    BY <1>1, <2>1, <2>2
       DEF SafetyInv, TokensAreSaved, MemoryAhead, Grows, Token, PersistentState
  <2> HIDE DEF tk, s, e
  <2>10. Backed(e, s)
    BY <1>1, <2>2, <2>5, <2>7 DEF Backed, PersistentState
  <2> QED
    BY <1>1, <2>1, <2>4, <2>5, <2>6, <2>7, <2>8, <2>9, <2>10, ChangeKeeps
<1>9. CASE Persist
  <2>1. /\ at = "persist" /\ up /\ disk' = state /\ at' = "audit"
        /\ UNCHANGED <<up, state, event, request, handed, barred>>
    BY <1>2, <1>9 DEF Persist, replyVars
  <2>2. Grows(disk, state) /\ Grows(state, state)
    BY <1>1, <2>1 DEF SafetyInv, MemoryAhead, Grows, PersistentState
  <2>3. MemoryAhead' /\ IdleWhenDown' /\ SavedBeforeLog'
    BY <2>1, <2>2 DEF MemoryAhead, IdleWhenDown, SavedBeforeLog, Grows
  <2>4. (Pending => Backed(event, state))'
    BY <2>1 DEF SafetyInv, Pending, Backed
  <2>5. PendingToken' /\ PendingTask' /\ TaskBeforeToken'
    BY <2>1 DEF SafetyInv, PendingToken, PendingTask, TaskBeforeToken, Pending
  <2>6. TokensAreSaved'
    <3>1. ASSUME NEW tk \in handed
          PROVE  state.owner[tk.task] = tk.robot /\ tk.seq < state.next[tk.robot]
      BY <1>1, <2>2, CoordinatorAssumption
         DEF SafetyInv, TokensAreSaved, Grows, Token, PersistentState
    <3> QED
      BY <2>1, <3>1 DEF TokensAreSaved
  <2>7. RevocationsAreSaved'
    BY <2>1, <2>2 DEF SafetyInv, RevocationsAreSaved, Grows
  <2> QED
    BY <1>1, <2>3, <2>4, <2>5, <2>6, <2>7 DEF SafetyInv
<1>10. CASE PersistFails \/ AuditFails
  <2>1. UNCHANGED <<up, state, disk, handed, barred>> /\ at' = "idle"
    BY <1>10 DEF PersistFails, AuditFails, Release, replyVars
  <2>2. TokensAreSaved' /\ RevocationsAreSaved' /\ IdleWhenDown'
    BY <2>1 DEF SafetyInv, TokensAreSaved, RevocationsAreSaved, IdleWhenDown
  <2> QED
    BY <1>1, <2>1, <2>2, QuietStepKeeps
<1>11. CASE AuditThenSign
  <2>1. /\ UNCHANGED <<up, state, disk, request, handed, barred>>
        /\ at = "audit" /\ at' = "sign" /\ GoesOnToSign
    BY <1>11 DEF AuditThenSign, replyVars
  <2>2. state.owner[request.task] = request.robot
    BY <2>1 DEF SafetyInv, PendingTask, Pending, Backed, GoesOnToSign
  <2>3. TokensAreSaved' /\ RevocationsAreSaved' /\ IdleWhenDown'
    BY <1>2, <2>1 DEF SafetyInv, TokensAreSaved, RevocationsAreSaved, IdleWhenDown
  <2> QED
    BY <1>1, <2>1, <2>2, <2>3, QuietStepKeeps
<1>12. ASSUME EnrollReturns \/ RevokeReturns \/ AssignReturns \/ IssueReturns
       PROVE  SafetyInv'
  <2>1. /\ UNCHANGED <<up, state, disk>> /\ at = "audit" /\ at' = "idle"
        /\ Pending /\ up /\ disk = state
    BY <1>2, <1>12
       DEF EnrollReturns, RevokeReturns, AssignReturns, IssueReturns, AuditThenReply,
           Release, Pending, SafetyInv, SavedBeforeLog
  <2>2. TokensAreSaved'
    <3>1. handed' \subseteq handed \cup
            (IF event.kind = "token.issued" THEN {event.token} ELSE {})
      BY <1>12 DEF EnrollReturns, RevokeReturns, AssignReturns, IssueReturns, replyVars
    <3>2. event.kind = "token.issued" =>
            /\ disk.owner[event.token.task] = event.token.robot
            /\ event.token.seq < disk.next[event.token.robot]
      BY <2>1 DEF SafetyInv, PendingToken, Backed
    <3> QED
      BY <2>1, <3>1, <3>2 DEF SafetyInv, TokensAreSaved
  <2>3. RevocationsAreSaved'
    <3>1. barred' \subseteq barred \cup
            (IF event.kind = "robot.revoked" THEN {event.robot} ELSE {})
      BY <1>12 DEF EnrollReturns, RevokeReturns, AssignReturns, IssueReturns, replyVars
    <3> QED
      BY <2>1, <3>1 DEF SafetyInv, RevocationsAreSaved, Backed
  <2>4. IdleWhenDown'
    BY <2>1 DEF IdleWhenDown
  <2> QED
    BY <1>1, <2>1, <2>2, <2>3, <2>4, QuietStepKeeps
<1>13. CASE Crash
  <2>1. ~up' /\ at' = "idle" /\ UNCHANGED <<disk, handed, barred>>
    BY <1>13 DEF Crash, Release, replyVars
  <2> QED
    BY <1>1, <2>1
       DEF SafetyInv, MemoryAhead, IdleWhenDown, SavedBeforeLog, Pending, PendingToken,
           PendingTask, TaskBeforeToken, TokensAreSaved, RevocationsAreSaved
<1>14. CASE Open
  <2>1. /\ up' /\ at = "idle" /\ at' = "idle" /\ state' = disk
        /\ UNCHANGED <<disk, handed, barred>>
    BY <1>14 DEF Open, requestVars, replyVars, SafetyInv, IdleWhenDown
  <2>2. Grows(disk, disk)
    BY <1>1 DEF Grows, PersistentState
  <2>3. MemoryAhead'
    BY <2>1, <2>2 DEF MemoryAhead, Grows
  <2> QED
    BY <1>1, <2>1, <2>3
       DEF SafetyInv, IdleWhenDown, SavedBeforeLog, Pending, PendingToken,
           PendingTask, TaskBeforeToken, TokensAreSaved, RevocationsAreSaved
<1>15. CASE UNCHANGED vars
  BY <1>1, <1>15
     DEF vars, SafetyInv, MemoryAhead, IdleWhenDown, SavedBeforeLog, Pending, PendingToken,
         PendingTask, TaskBeforeToken, TokensAreSaved, RevocationsAreSaved, Grows, Backed
<1>16. ASSUME NEW k \in Task, NEW r \in Robot, AssignTask(k, r)
       PROVE  SafetyInv'
  BY <1>5, <1>16 DEF AssignTask, Free
<1>17. ASSUME NEW q \in Request, IssueTokenNewTask(q)
       PROVE  SafetyInv'
  BY <1>5, <1>17 DEF IssueTokenNewTask, Free
<1> QED
  BY <1>3, <1>4, <1>6, <1>7, <1>8, <1>9, <1>10, <1>11, <1>12, <1>13, <1>14,
     <1>15, <1>16, <1>17 DEF Next

\* the safety invariant holds when the first process opens
LEMMA InitSafety == Init => SafetyInv
<1> SUFFICES ASSUME Init PROVE SafetyInv
  OBVIOUS
<1>1. TypeInv
  BY InitType DEF Init, TypeInv, HasEvent, HasRequest
<1> QED
  BY <1>1 DEF Init, SafetyInv, MemoryAhead, IdleWhenDown, SavedBeforeLog, Pending,
              PendingToken, PendingTask, TaskBeforeToken, TokensAreSaved,
              RevocationsAreSaved

\* memory, snapshot and pending replies agree as SafetyInv says at every moment (coordinator.rs:99-291)
THEOREM Safety == Spec => []SafetyInv
BY InitSafety, NextSafety, PTL DEF Spec

-----------------------------------------------------------------------------
(***************************************************************************)
(* The node implements Authority.  A snapshot is a Commit; handing a token *)
(* out is an Issue; every other step leaves disk and tokens as they are.   *)
(***************************************************************************)
LEMMA StepRefines == SafetyInv /\ [Next]_vars => [Auth!Next]_Auth!vars
<1> SUFFICES ASSUME SafetyInv, [Next]_vars PROVE [Auth!Next]_Auth!vars
  OBVIOUS
<1>1. state \in PersistentState /\ disk \in PersistentState
  BY DEF SafetyInv, TypeInv, TypeOK
<1>2. CASE Persist
  <2>1. disk' = state /\ handed' = handed /\ Grows(disk, state)
    BY <1>2 DEF Persist, replyVars, SafetyInv, IdleWhenDown, MemoryAhead
  <2>2. Auth!Commit
    BY <1>1, <2>1 DEF Auth!Commit, Grows, PersistentState
  <2> QED
    BY <2>2 DEF Auth!Next
<1>3. CASE IssueReturns
  <2> DEFINE tk == event.token
  <2>1. /\ at = "audit" /\ Pending /\ event.kind = "token.issued"
        /\ handed' = handed \cup {tk} /\ disk' = disk /\ disk = state
    BY <1>3 DEF IssueReturns, AuditThenReply, Pending, SafetyInv, SavedBeforeLog
  <2>2. tk \in Token
    BY <2>1, EventTypes DEF SafetyInv, TypeInv, HasEvent, Pending
  <2>3. Auth!Issue(tk)
    BY <2>1, <2>2 DEF Auth!Issue, Auth!Token, Token, SafetyInv, PendingToken, Backed
  <2>4. CASE tk \in handed
    BY <2>1, <2>4 DEF Auth!vars
  <2>5. CASE tk \notin handed
    BY <2>1, <2>3, <2>5 DEF Auth!Next
  <2> QED
    BY <2>4, <2>5
<1>4. CASE ~Persist /\ ~IssueReturns
  <2>1. disk' = disk /\ handed' = handed
    BY <1>4 DEF Next, vars, Enroll, Revoke, AssignTask, AssignTaskAgain,
      IssueTokenNewTask, IssueTokenOwnTask, TakeTask, SignToken, PersistFails, Change,
      AuditThenSign, AuditThenReply, EnrollReturns, RevokeReturns, AssignReturns,
      AuditFails, Crash, Open, replyVars, requestVars
  <2> QED
    BY <2>1 DEF Auth!vars
<1> QED
  BY <1>2, <1>3, <1>4

\* Across crashes and I/O errors the coordinator implements Authority, with the snapshot as its state (coordinator.rs:99-291)
THEOREM Refinement == Spec => IsAuthority
<1>1. Init => Auth!Init
  BY DEF Init, Auth!Init, DefaultState
<1> QED
  BY <1>1, StepRefines, Safety, PTL DEF Spec, IsAuthority, Auth!Spec

(***************************************************************************)
(* The tokens in clients' hands are exclusive, by task and by number,      *)
(* because Authority's are.                                                *)
(***************************************************************************)
THEOREM HandedTokens == Spec => [](TokensAreExclusive /\ SequencesAreUnique)
<1>1. Auth!Spec => [](Auth!OneOwner /\ Auth!OneTokenPerNumber)
  BY Auth!TokensAreSafe, CoordinatorAssumption
<1>2. Auth!OneOwner /\ Auth!OneTokenPerNumber
        => TokensAreExclusive /\ SequencesAreUnique
  BY DEF Auth!OneOwner, Auth!OneTokenPerNumber, TokensAreExclusive, SequencesAreUnique
<1> QED
  BY <1>1, <1>2, Refinement, PTL DEF IsAuthority

\* No number of a robot is on two tokens that were handed out, across crashes
\* and I/O errors (coordinator.rs:187-208).
THEOREM NumbersAreUnique == Spec => []SequencesAreUnique
BY HandedTokens, PTL

(***************************************************************************)
(* After an acknowledged revocation no token is handed out for the robot.  *)
(***************************************************************************)
THEOREM Revocation == Spec => RevokedGetsNoToken
<1>1. SafetyInv /\ [Next]_vars
        => [\A tk \in handed' \ handed : tk.robot \notin barred]_vars
  <2> SUFFICES ASSUME SafetyInv, [Next]_vars, NEW tk \in handed' \ handed
               PROVE  tk.robot \notin barred
    OBVIOUS
  <2>1. [Auth!Next]_Auth!vars
    BY StepRefines
  <2>2. PICK new \in handed' \ handed : Auth!Issue(new)
    BY <2>1 DEF Auth!Next, Auth!vars, Auth!Commit
  <2>3. tk.robot \notin disk.revoked
    BY <2>2 DEF Auth!Issue
  <2> QED
    BY <2>3 DEF SafetyInv, RevocationsAreSaved
<1> QED
  BY <1>1, Safety, PTL DEF Spec, RevokedGetsNoToken

-----------------------------------------------------------------------------
(***************************************************************************)
(* Whatever is cut, failed or killed, no record of the log claims more     *)
(* than the snapshot on disk holds.                                        *)
(***************************************************************************)
LogEvents ==
  \A i \in DOMAIN file :
    file[i].kind = "record" => file[i].body.event \in CoordinatorEvent

\* a snapshot never takes back an enrollment, an owner, a revocation or a number
LEMMA DiskGrows == SafetyInv /\ [Next]_vars => Grows(disk, disk')
<1> SUFFICES ASSUME SafetyInv, [Next]_vars PROVE Grows(disk, disk')
  OBVIOUS
<1>1. disk \in PersistentState
  BY DEF SafetyInv, TypeInv, TypeOK
<1>2. [Auth!Next]_Auth!vars
  BY StepRefines
<1>3. CASE Persist
  BY <1>3 DEF Persist, SafetyInv, IdleWhenDown, MemoryAhead
<1>4. CASE ~Persist
  <2>1. disk' = disk
    BY <1>4 DEF Next, vars, Enroll, Revoke, AssignTask, AssignTaskAgain,
      IssueTokenNewTask, IssueTokenOwnTask, TakeTask, SignToken, PersistFails, Change,
      AuditThenSign, AuditThenReply, EnrollReturns, RevokeReturns, AssignReturns,
      IssueReturns, AuditFails, Crash, Open, replyVars, requestVars
  <2> QED
    BY <1>1, <2>1 DEF Grows, PersistentState
<1> QED
  BY <1>3, <1>4

\* a record that a snapshot backs is backed by every later one
LEMMA BackedGrows ==
  ASSUME NEW s \in PersistentState, NEW t \in PersistentState, Grows(s, t),
         NEW e \in CoordinatorEvent, Backed(e, s)
  PROVE  Backed(e, t)
BY CoordinatorAssumption, EventTypes DEF Backed, Grows, PersistentState, Token

\* every step keeps the records of the file backed by the snapshot
LEMMA LogStep ==
  SafetyInv /\ LogEvents /\ LogIsBacked /\ [Next]_vars => LogEvents' /\ LogIsBacked'
<1> SUFFICES ASSUME SafetyInv, LogEvents, LogIsBacked, [Next]_vars
             PROVE  LogEvents' /\ LogIsBacked'
  OBVIOUS
<1>1. /\ file \in Seq(Log!Piece) /\ last \in Log!Cursor
      /\ disk \in PersistentState /\ disk' \in PersistentState
  BY NextType DEF SafetyInv, TypeInv, TypeOK
<1>2. ASSUME NEW e \in CoordinatorEvent, Backed(e, disk)
      PROVE  Backed(e, disk')
  BY <1>1, <1>2, DiskGrows, BackedGrows
<1>3. CASE file' = file
  BY <1>2, <1>3 DEF LogEvents, LogIsBacked
<1>4. ASSUME at = "audit", disk' = disk, NEW cut \in Log!CutPoint,
             file' = file \o Log!Written(event, cut)
      PROVE  LogEvents' /\ LogIsBacked'
  <2> DEFINE w == Log!Written(event, cut)
  <2>1. event \in CoordinatorEvent /\ Backed(event, disk)
    BY <1>4 DEF SafetyInv, TypeInv, HasEvent, Pending, SavedBeforeLog
  <2>2. /\ w \in Seq(Log!Piece)
        /\ \A i \in DOMAIN w : w[i].kind = "record" => w[i].body.event = event
    BY <1>1, <2>1, WrittenPieces
  <2>3. ASSUME NEW i \in DOMAIN file', file'[i].kind = "record"
        PROVE  /\ file'[i].body.event \in CoordinatorEvent
               /\ Backed(file'[i].body.event, disk)
    <3> HIDE DEF w
    <3>1. CASE i \in DOMAIN file
      <4>1. file'[i] = file[i]
        BY <1>1, <1>4, <2>2, <3>1 DEF w
      <4> QED
        BY <2>3, <3>1, <4>1 DEF LogEvents, LogIsBacked
    <3>2. CASE i \notin DOMAIN file
      <4>1. i - Len(file) \in DOMAIN w /\ file'[i] = w[i - Len(file)]
        BY <1>1, <1>4, <2>2, <2>3, <3>2 DEF w
      <4> QED
        BY <2>1, <2>2, <2>3, <4>1
    <3> QED
      BY <3>1, <3>2
  <2> QED
    BY <1>4, <2>3 DEF LogEvents, LogIsBacked
<1> QED
  BY <1>3, <1>4, FileStep

\* every record in the audit file is backed by state.json, since handlers save before they append (coordinator.rs:245, 203)
THEOREM LogBacked == Spec => []LogIsBacked
<1>1. Init => LogEvents /\ LogIsBacked
  BY DEF Init, LogEvents, LogIsBacked
<1> QED
  BY <1>1, Safety, LogStep, PTL DEF Spec

-----------------------------------------------------------------------------
(***************************************************************************)
(* When no snapshot fails, task assignments are exclusive towards clients: *)
(* between two steps of a handler the memory is then what the disk holds,  *)
(* also when the owner asks again and nothing is written.                  *)
(***************************************************************************)
MemoryIsSaved == up /\ at # "persist" => disk = state

GrantsAreSaved ==
  \A g \in granted : g \in Task \X Robot /\ disk.owner[g[1]] = g[2]

\* when no snapshot fails, every step keeps acknowledged assignments in the snapshot
LEMMA GrantsStep ==
  ~PersistMayFail /\ SafetyInv /\ MemoryIsSaved /\ GrantsAreSaved /\ [Next]_vars
    => MemoryIsSaved' /\ GrantsAreSaved'
<1> SUFFICES ASSUME ~PersistMayFail, SafetyInv, MemoryIsSaved, GrantsAreSaved, [Next]_vars
             PROVE  MemoryIsSaved' /\ GrantsAreSaved'
  OBVIOUS
<1>1. MemoryIsSaved'
  <2>1. ASSUME NEW st, NEW e, NEW q, Change(st, e, q)
        PROVE  MemoryIsSaved'
    BY <2>1 DEF Change, MemoryIsSaved
  <2>2. CASE Persist
    BY <2>2 DEF Persist, MemoryIsSaved
  <2>3. CASE Crash
    BY <2>3 DEF Crash, MemoryIsSaved
  <2>4. CASE Open
    BY <2>4 DEF Open, MemoryIsSaved
  <2>5. ASSUME UNCHANGED <<up, state, disk>>, at # "persist"
        PROVE  MemoryIsSaved'
    BY <2>5 DEF MemoryIsSaved
  <2>6. CASE UNCHANGED vars
    BY <2>6 DEF vars, MemoryIsSaved
  <2>7. CASE \/ AuditThenSign \/ AuditThenReply \/ AuditFails
             \/ \E k \in Task, r \in Robot : AssignTaskAgain(k, r)
             \/ \E q \in Request : IssueTokenOwnTask(q)
    BY <2>5, <2>7 DEF AuditThenSign, AuditThenReply, AuditFails, AssignTaskAgain,
      IssueTokenOwnTask, Free
  <2> QED
    BY <2>1, <2>2, <2>3, <2>4, <2>6, <2>7
       DEF Next, Enroll, Revoke, AssignTask, IssueTokenNewTask, TakeTask, SignToken,
         PersistFails, EnrollReturns, RevokeReturns, AssignReturns, IssueReturns
<1>2. ASSUME NEW g \in granted
      PROVE  g \in Task \X Robot /\ disk'.owner[g[1]] = g[2]
  <2>1. g[1] \in Task /\ g[2] \in Robot /\ disk.owner[g[1]] = g[2]
    BY DEF GrantsAreSaved
  <2> QED
    BY <2>1, CoordinatorAssumption, DiskGrows DEF GrantsAreSaved, Grows
<1>3. ASSUME granted' = granted
      PROVE  GrantsAreSaved'
  BY <1>2, <1>3 DEF GrantsAreSaved
<1>4. ASSUME NEW k \in Task, NEW r \in Robot, granted' = granted \cup {<<k, r>>},
             disk'.owner[k] = r
      PROVE  GrantsAreSaved'
  BY <1>2, <1>4 DEF GrantsAreSaved
<1>5. ASSUME NEW k \in Task, NEW r \in Robot, AssignTaskAgain(k, r)
      PROVE  GrantsAreSaved'
  <2>1. disk'.owner[k] = r
    BY <1>5 DEF AssignTaskAgain, Free, OwnsAlready, MemoryIsSaved
  <2> QED
    BY <1>4, <1>5, <2>1 DEF AssignTaskAgain
<1>6. ASSUME AssignReturns
      PROVE  GrantsAreSaved'
  <2>1. at = "audit" /\ event.kind = "task.assigned" /\ disk' = disk
    BY <1>6 DEF AssignReturns, AuditThenReply
  <2>2. /\ event \in CoordinatorEvent
        /\ disk = state /\ state.owner[event.task] = event.robot
    BY <2>1 DEF SafetyInv, SavedBeforeLog, Pending, TypeInv, HasEvent, Backed
  <2>3. event.task \in Task /\ event.robot \in Robot
    BY <2>1, <2>2, EventTypes
  <2> QED
    BY <1>4, <1>6, <2>1, <2>2, <2>3 DEF AssignReturns
<1>7. ASSUME ~AssignReturns,
             \A k \in Task, r \in Robot : ~AssignTaskAgain(k, r)
      PROVE  GrantsAreSaved'
  <2>1. granted' = granted
    BY <1>7 DEF Next, vars, Enroll, Revoke, AssignTask, IssueTokenNewTask,
      IssueTokenOwnTask, TakeTask, SignToken, Persist, PersistFails, Change,
      AuditThenSign, EnrollReturns, RevokeReturns, IssueReturns, AuditFails, Crash, Open,
      replyVars
  <2> QED
    BY <1>3, <2>1
<1> QED
  BY <1>1, <1>5, <1>6, <1>7

\* when no snapshot fails, acknowledged assignments are exclusive (coordinator.rs:211-256)
THEOREM ExclusiveGrants ==
  ASSUME ~PersistMayFail
  PROVE  Spec => []GrantsAreExclusive
<1>1. Init => MemoryIsSaved /\ GrantsAreSaved
  BY DEF Init, MemoryIsSaved, GrantsAreSaved
<1>2. GrantsAreSaved => GrantsAreExclusive
  BY DEF GrantsAreSaved, GrantsAreExclusive
<1>3. SafetyInv /\ MemoryIsSaved /\ GrantsAreSaved /\ [Next]_vars
        => MemoryIsSaved' /\ GrantsAreSaved'
  BY GrantsStep
<1> QED
  BY <1>1, <1>2, <1>3, Safety, PTL DEF Spec

-----------------------------------------------------------------------------
(***************************************************************************)
(* The log orders the tokens.  A token that waits for its record has a     *)
(* higher number than every record of its robot, because those are below   *)
(* the counter on disk (LogIsBacked) and it took the counter in memory.    *)
(***************************************************************************)
PendingContinuesLog ==
  Pending /\ event.kind = "token.issued" =>
    \A i \in IssuedRecords :
      IssuedAt(i).robot = event.token.robot => IssuedAt(i).seq < event.token.seq

LogInv ==
  /\ SafetyInv /\ LogEvents /\ LogIsBacked /\ PendingContinuesLog
  /\ LogOrdersTokens

\* how the issued records change: they stay, or the pending token follows them
LEMMA IssuedStep ==
  ASSUME LogInv, [Next]_vars
  PROVE  /\ \A i \in IssuedRecords : i \in IssuedRecords' /\ IssuedAt(i)' = IssuedAt(i)
         /\ \A i \in IssuedRecords' \ IssuedRecords :
              /\ at = "audit" /\ event.kind = "token.issued"
              /\ i = Len(file) + 1 /\ IssuedAt(i)' = event.token
<1>1. /\ file \in Seq(Log!Piece) /\ last \in Log!Cursor
      /\ at = "audit" => event \in CoordinatorEvent
  BY DEF LogInv, SafetyInv, TypeInv, TypeOK, HasEvent
<1>2. CASE file' = file
  BY <1>2 DEF IssuedRecords, IssuedAt
<1>3. ASSUME at = "audit", NEW cut \in Log!CutPoint,
             file' = file \o Log!Written(event, cut)
      PROVE  /\ \A i \in IssuedRecords : i \in IssuedRecords' /\ IssuedAt(i)' = IssuedAt(i)
             /\ \A i \in IssuedRecords' \ IssuedRecords :
                  /\ at = "audit" /\ event.kind = "token.issued"
                  /\ i = Len(file) + 1 /\ IssuedAt(i)' = event.token
  <2> DEFINE w == Log!Written(event, cut)
  <2>1. /\ w \in Seq(Log!Piece)
        /\ \A i \in DOMAIN w :
             w[i].kind = "record" => i = 1 /\ w[i].body.event = event
    BY <1>1, <1>3, WrittenPieces
  <2>2. file' = file \o w
    BY <1>3
  <2> HIDE DEF w
  <2>3. \A i \in DOMAIN file : i \in DOMAIN file' /\ file'[i] = file[i]
    BY <1>1, <2>1, <2>2
  <2>4. \A i \in DOMAIN file' \ DOMAIN file :
          i - Len(file) \in DOMAIN w /\ file'[i] = w[i - Len(file)] /\ i \in Nat
    BY <1>1, <2>1, <2>2
  <2>5. \A i \in IssuedRecords : i \in IssuedRecords' /\ IssuedAt(i)' = IssuedAt(i)
    BY <2>3 DEF IssuedRecords, IssuedAt
  <2>6. ASSUME NEW i \in IssuedRecords' \ IssuedRecords
        PROVE  /\ event.kind = "token.issued"
               /\ i = Len(file) + 1 /\ IssuedAt(i)' = event.token
    <3>1. i \in DOMAIN file' \ DOMAIN file /\ file'[i].kind = "record"
          /\ file'[i].body.event.kind = "token.issued"
      BY <2>3, <2>6 DEF IssuedRecords
    <3>2. i - Len(file) = 1 /\ file'[i].body.event = event
      BY <2>1, <2>4, <3>1
    <3>3. i = Len(file) + 1
      BY <1>1, <2>4, <3>1, <3>2
    <3> QED
      BY <3>1, <3>2, <3>3 DEF IssuedAt
  <2> QED
    BY <1>3, <2>5, <2>6
<1> QED
  BY <1>2, <1>3, FileStep

\* every step keeps the issued records of the file in the order of the token numbers
LEMMA OrderStep == LogInv /\ [Next]_vars => LogInv'
<1> SUFFICES ASSUME LogInv, [Next]_vars PROVE LogInv'
  OBVIOUS
<1>1. SafetyInv' /\ LogEvents' /\ LogIsBacked'
  BY NextSafety, LogStep DEF LogInv
<1>2. /\ file \in Seq(Log!Piece)
      /\ \A i \in IssuedRecords : i \in 1..Len(file) /\ IssuedAt(i) \in Token
      /\ \A i \in IssuedRecords : IssuedAt(i).seq < disk.next[IssuedAt(i).robot]
  <2>1. \A i \in IssuedRecords :
          IssuedAt(i) \in Token /\ Backed(file[i].body.event, disk)
    BY EventTypes DEF LogInv, LogEvents, LogIsBacked, IssuedRecords, IssuedAt
  <2> QED
    BY <2>1 DEF LogInv, SafetyInv, TypeInv, TypeOK, IssuedRecords, IssuedAt, Backed
<1>3. PendingContinuesLog'
  <2>1. CASE SignToken
    <3> DEFINE r == request.robot
    <3>1. /\ event'.kind = "token.issued" /\ event'.token.robot = r
          /\ event'.token.seq = state.next[r]
          /\ file' = file /\ up
      BY <2>1 DEF SignToken, Change, LogInv, SafetyInv, IdleWhenDown
    <3>2. r \in Robot /\ disk.next[r] <= state.next[r]
          /\ disk.next[r] \in Nat /\ state.next[r] \in Nat
      BY <2>1, <3>1, CoordinatorAssumption
         DEF SignToken, LogInv, SafetyInv, TypeInv, HasRequest, MemoryAhead, Grows,
           TypeOK, PersistentState
    <3>3. \A i \in IssuedRecords :
            IssuedAt(i).robot = r => IssuedAt(i).seq < state.next[r]
      BY <1>2, <3>2 DEF Token
    <3> QED
      BY <3>1, <3>3 DEF PendingContinuesLog, IssuedRecords, IssuedAt
  <2>2. ASSUME ~SignToken, Pending', event'.kind = "token.issued"
        PROVE  Pending /\ event' = event /\ file' = file
    BY <2>2 DEF Next, vars, Enroll, Revoke, AssignTask, AssignTaskAgain,
      IssueTokenNewTask, IssueTokenOwnTask, TakeTask, Persist, PersistFails, Change,
      AuditThenSign, AuditThenReply, EnrollReturns, RevokeReturns, AssignReturns,
      IssueReturns, AuditFails, Crash, Open, Release, Pending, NoEvent, replyVars,
      requestVars, LogInv, SafetyInv, IdleWhenDown, Free
  <2> QED
    BY <2>1, <2>2 DEF LogInv, PendingContinuesLog, IssuedRecords, IssuedAt
<1>4. handed' \subseteq {IssuedAt(i) : i \in IssuedRecords}'
  <2>1. handed \subseteq {IssuedAt(i) : i \in IssuedRecords}'
    BY IssuedStep DEF LogInv, LogOrdersTokens
  <2>2. CASE IssueReturns
    <3>1. handed' = handed \cup {event.token} /\ event.kind = "token.issued"
          /\ file' = file \o <<Log!NextRecord(event), Log!NewLine>>
      BY <2>2 DEF IssueReturns, AuditThenReply, Log!Appended, Log!Written
    <3>2. /\ Log!NextRecord(event).kind = "record"
          /\ Log!NextRecord(event).body.event = event
      BY DEF Log!NextRecord, Log!NextBody
    <3> HIDE DEF Log!NextRecord
    <3> PICK n \in Nat : n = Len(file) + 1
      BY <1>2
    <3>3. n \in DOMAIN file' /\ file'[n] = Log!NextRecord(event)
      BY <1>2, <3>1
    <3>4. n \in IssuedRecords' /\ IssuedAt(n)' = event.token
      BY <3>1, <3>2, <3>3 DEF IssuedRecords, IssuedAt
    <3> QED
      BY <2>1, <3>1, <3>4
  <2>3. CASE ~IssueReturns
    <3>1. handed' = handed
      BY <2>3 DEF Next, vars, Enroll, Revoke, AssignTask, AssignTaskAgain,
        IssueTokenNewTask, IssueTokenOwnTask, TakeTask, SignToken, Persist, PersistFails,
        Change, AuditThenSign, EnrollReturns, RevokeReturns, AssignReturns, AuditFails,
        Crash, Open, replyVars
    <3> QED
      BY <2>1, <3>1
  <2> QED
    BY <2>2, <2>3
<1>5. ASSUME NEW i \in IssuedRecords', NEW j \in IssuedRecords', i < j,
             IssuedAt(i)'.robot = IssuedAt(j)'.robot
      PROVE  IssuedAt(i)'.seq < IssuedAt(j)'.seq
  <2>1. CASE i \in IssuedRecords /\ j \in IssuedRecords
    BY <1>5, <2>1, IssuedStep DEF LogInv, LogOrdersTokens
  <2>2. CASE i \in IssuedRecords /\ j \notin IssuedRecords
    BY <1>5, <2>2, IssuedStep DEF LogInv, PendingContinuesLog, Pending
  <2>3. CASE i \notin IssuedRecords
    BY <1>2, <1>5, <2>3, IssuedStep
  <2> QED
    BY <2>1, <2>2, <2>3
<1> QED
  BY <1>1, <1>3, <1>4, <1>5 DEF LogInv, LogOrdersTokens

\* tokens in clients' hands appear in the log in the order of their numbers (coordinator.rs:173-209)
THEOREM LogIsOrdered == Spec => []LogOrdersTokens
<1>1. Init => LogInv
  <2> SUFFICES ASSUME Init PROVE LogInv
    OBVIOUS
  <2>1. IssuedRecords = {} /\ handed = {}
    BY DEF Init, IssuedRecords
  <2> QED
    BY <2>1, InitSafety
       DEF Init, LogInv, LogEvents, LogIsBacked, PendingContinuesLog, Pending,
         LogOrdersTokens
<1>2. LogInv => LogOrdersTokens
  BY DEF LogInv
<1> QED
  BY <1>1, <1>2, OrderStep, PTL DEF Spec

-----------------------------------------------------------------------------
(***************************************************************************)
(* When appends are all or nothing the node can always start again.  The   *)
(* invariant adds that the file ends in a newline, for the next record.    *)
(***************************************************************************)
AtomicAppends == IoFaults \subseteq {"open"} /\ KillPoints \subseteq {"open", "sync"}

LogIsWhole == LogP!Whole(file) /\ (up => last = Log!Tip(file))

\* verify and the tip are the same in both instances of AuditFile
LEMMA SameVerdict ==
  ASSUME NEW f
  PROVE  LogP!Verifies(f) = Log!Verifies(f) /\ LogP!Tip(f) = Log!Tip(f)
BY DEF LogP!Verifies, Log!Verifies, LogP!Parses, Log!Parses, LogP!Records, Log!Records,
       LogP!HoldsAt, Log!HoldsAt, LogP!Sha256, Log!Sha256, LogP!Sign, Log!Sign,
       LogP!Genesis, Log!Genesis, LogP!Tip, Log!Tip, LogP!NoTip, Log!NoTip

\* a complete append leaves a whole log whose tip is the cursor of Appended
LEMMA WholeAppend ==
  ASSUME LogIsWhole, up, last \in Log!Cursor, file \in Seq(Log!Piece),
         NEW e \in CoordinatorEvent, NEW g, g = file \o Log!Written(e, "sync")
  PROVE  /\ LogP!Whole(g)
         /\ Log!Tip(g) = [index |-> Log!NextBody(e).index,
                          hash |-> Log!Sha256(Log!NextBody(e))]
<1>1. LogP!Written(e, "sync") = Log!Written(e, "sync")
  BY DEF LogP!Written, Log!Written, LogP!NextRecord, Log!NextRecord,
         LogP!NextBody, Log!NextBody, LogP!Sha256, Log!Sha256, LogP!Sign, Log!Sign,
         LogP!Torn, Log!Torn, LogP!NewLine, Log!NewLine
<1>2. /\ LogP!NextBody(e) = Log!NextBody(e)
      /\ LogP!Sha256(LogP!NextBody(e)) = Log!Sha256(Log!NextBody(e))
  BY DEF LogP!NextBody, Log!NextBody, LogP!Sha256, Log!Sha256
<1>3. LogP!Whole(file) /\ last = LogP!Tip(file)
  BY SameVerdict DEF LogIsWhole
<1>4. /\ LogP!Whole(file \o LogP!Written(e, "sync"))
      /\ LogP!Tip(file \o LogP!Written(e, "sync"))
           = [index |-> LogP!NextBody(e).index, hash |-> LogP!Sha256(LogP!NextBody(e))]
  BY <1>3, SameLog, LogP!AppendKeepsWhole
<1> QED
  BY <1>1, <1>2, <1>4, SameVerdict

\* with appends that are all or nothing, every step keeps the log whole
LEMMA WholeStep ==
  AtomicAppends /\ SafetyInv /\ LogIsWhole /\ [Next]_vars => LogIsWhole'
<1> SUFFICES ASSUME AtomicAppends, SafetyInv, LogIsWhole, [Next]_vars
             PROVE  LogP!Whole(file') /\ (up' => last' = Log!Tip(file'))
  BY DEF LogIsWhole
<1>1. /\ file \in Seq(Log!Piece) /\ last \in Log!Cursor
      /\ at # "idle" => up
      /\ at = "audit" => event \in CoordinatorEvent
  BY DEF SafetyInv, TypeInv, TypeOK, IdleWhenDown, HasEvent, Pending
<1>2. Log!Written(event, "open") = << >>
  BY DEF Log!Written
<1>3. CASE AuditThenSign \/ AuditThenReply
  <2>1. at = "audit" /\ Log!Appended(event)
    BY <1>3 DEF AuditThenSign, AuditThenReply
  <2> QED
    BY <1>1, <2>1, WholeAppend DEF Log!Appended
<1>4. CASE AuditFails
  <2>1. Log!AppendCut(event, "open") /\ up' = up
    BY <1>4 DEF AuditFails, AtomicAppends
  <2>2. file' = file /\ last' = last
    BY <1>1, <1>2, <2>1 DEF Log!AppendCut
  <2> QED
    BY <2>1, <2>2 DEF LogIsWhole
<1>5. CASE Crash
  <2>1. ~up' /\ (at # "audit" => file' = file)
    BY <1>5 DEF Crash
  <2>2. at = "audit" => \E cut \in KillPoints : file' = file \o Log!Written(event, cut)
    BY <1>5, Zenon DEF Crash
  <2>3. at = "audit" => \/ file' = file \o Log!Written(event, "open")
                        \/ file' = file \o Log!Written(event, "sync")
    BY <2>2 DEF AtomicAppends
  <2>4. CASE file' = file
    BY <2>1, <2>4 DEF LogIsWhole
  <2>5. CASE at = "audit" /\ file' = file \o Log!Written(event, "open")
    <3>1. file' = file
      BY <1>1, <1>2, <2>5
    <3> QED
      BY <2>1, <3>1 DEF LogIsWhole
  <2>6. CASE at = "audit" /\ file' = file \o Log!Written(event, "sync")
    BY <1>1, <2>1, <2>6, WholeAppend
  <2> QED
    BY <2>1, <2>3, <2>4, <2>5, <2>6
<1>6. CASE Open
  BY <1>6 DEF Open, Log!Opened, LogIsWhole
<1>7. CASE UNCHANGED <<up, file, last>>
  BY <1>7 DEF LogIsWhole
<1> QED
  BY <1>3, <1>4, <1>5, <1>6, <1>7
     DEF Next, Enroll, Revoke, AssignTask, AssignTaskAgain, IssueTokenNewTask,
         IssueTokenOwnTask, TakeTask, SignToken, Persist, PersistFails, Change,
         EnrollReturns, RevokeReturns, AssignReturns, IssueReturns, vars

\* with appends that are all or nothing, the node can always open its log, and its cursor is the tip (coordinator.rs:87-90)
THEOREM UsableLog ==
  ASSUME AtomicAppends
  PROVE  Spec => []LogStaysUsable
<1>1. Init => LogIsWhole
  BY DEF Init, LogIsWhole, LogP!Whole, LogP!Verifies, LogP!Parses, LogP!Records
<1>2. LogIsWhole => LogStaysUsable
  BY SameVerdict DEF LogIsWhole, LogStaysUsable, LogP!Whole
<1>3. SafetyInv /\ LogIsWhole /\ [Next]_vars => LogIsWhole'
  BY WholeStep
<1> QED
  BY <1>1, <1>2, <1>3, Safety, PTL DEF Spec
=============================================================================
