---------------------------- MODULE RobotRuntime ----------------------------
(***************************************************************************)
(* One robot runtime (src/src/runtime.rs) behind its tokio mutex           *)
(* (src/src/main.rs, RuntimeApp).  Tokens arrive in any order, any number  *)
(* of times.  The steps of a request between which the process can be      *)
(* killed, or a write can fail, are steps here:                            *)
(*                                                                         *)
(*   execute, refused : persist, audit "rejected", both failures ignored   *)
(*   execute, passed  : audit "started", skill adapter, persist,           *)
(*                      audit "completed", receipt                         *)
(*   emergency stop   : change the memory, persist, audit                  *)
(***************************************************************************)
EXTENDS ExecutionGate

CONSTANTS Tokens,          \* the tokens that may be presented
          Contexts,        \* the contexts they may be presented with
          PersistMayFail,  \* may fs::write or fs::rename return an error?
          IoFaults,        \* where an audit append may return an error
          KillPoints,      \* where a kill may cut an audit append
          MaxNow,          \* bound on the clock
          MaxPieces        \* bound: no request once the log has these pieces

VARIABLES up,        \* is the process running?
          state,     \* RobotRuntime.state, in memory
          disk,      \* runtime-state.json
          file,      \* audit.jsonl
          last,      \* the cursor of the AuditLog
          now,       \* the clock
          at,        \* the next step of the request that holds the mutex
          event,     \* the audit event of that step
          token,     \* the token it executes, or NoToken
          released,  \* history: the calls of the skill adapter, in order
          receipts,  \* history: ids of the tokens whose receipt was returned
          held       \* history: a stop was acknowledged, no clear requested since

requestVars == <<at, event, token>>
replyVars   == <<receipts, held>>
vars == <<up, state, disk, file, last, now, at, event, token,
          released, receipts, held>>

-----------------------------------------------------------------------------
TokenId == {tk.id : tk \in Tokens}

Refusal == {"EmergencyStop", "Schema", "WrongRobot", "InvalidSignature",
            "Expired", "Replay", "Sequence", "Context", "Policy"}

RuntimeEvent ==
  [kind : {"execution.started", "execution.completed"}, id : TokenId]
    \cup [kind : {"execution.rejected"}, id : TokenId, reason : Refusal]
    \cup [kind : {"emergency_stop.activated", "emergency_stop.cleared"}]
NoEvent == [kind |-> "none"]
NoToken == [id |-> "none"]

RuntimeState ==
  [next : Nat, emergency_stop : BOOLEAN, consumed : SUBSET TokenId]
DefaultState == [next |-> 0, emergency_stop |-> FALSE, consumed |-> {}]

Log == INSTANCE AuditFile WITH
         Event <- RuntimeEvent, Signer <- Self, Trusted <- {Self}

ASSUME RuntimeAssumption ==
  /\ \A tk \in Tokens : tk.seq \in Nat
  /\ \A a, b \in Tokens : a.id = b.id => a = b
  /\ NoToken \notin Tokens
  /\ PersistMayFail \in BOOLEAN
  /\ IoFaults \subseteq Log!CutPoint
  /\ KillPoints \subseteq Log!CutPoint
  /\ MaxNow \in Nat

TypeOK ==
  /\ up \in BOOLEAN
  /\ state \in RuntimeState
  /\ disk \in RuntimeState
  /\ file \in Seq(Log!Piece)
  /\ last \in Log!Cursor
  /\ now \in Nat
  /\ at \in {"idle", "started", "skill", "persist", "audit"}
  /\ event \in RuntimeEvent \cup {NoEvent}
  /\ token \in Tokens \cup {NoToken}
  /\ released \in Seq(Tokens)
  /\ receipts \subseteq TokenId
  /\ held \in BOOLEAN

Init ==
  /\ up = FALSE
  /\ state = DefaultState
  /\ disk = DefaultState
  /\ file = << >>
  /\ last = Log!NoTip
  /\ now = 0
  /\ at = "idle"
  /\ event = NoEvent
  /\ token = NoToken
  /\ released = << >>
  /\ receipts = {}
  /\ held = FALSE

-----------------------------------------------------------------------------
\* the mutex is free and the bound leaves room for one more request
Free == up /\ at = "idle" /\ Len(file) < MaxPieces

GoTo(step, e, tk) ==
  /\ at' = step
  /\ event' = e
  /\ token' = tk

Release == GoTo("idle", NoEvent, NoToken)

\* faulty variant of ExecutePasses: no started record before the skill runs
ExecuteUnannounced(tk, context) ==
  /\ Free
  /\ Verify(tk, context, state, now) = "Ok"
  /\ GoTo("skill", NoEvent, tk)
  /\ UNCHANGED <<up, state, disk, file, last, now, released, replyVars>>

ExecutePasses(tk, context) ==
  /\ Free
  /\ Verify(tk, context, state, now) = "Ok"
  /\ GoTo("started", [kind |-> "execution.started", id |-> tk.id], tk)
  /\ UNCHANGED <<up, state, disk, file, last, now, released, replyVars>>

ExecuteRefused(tk, context) ==
  /\ Free
  /\ Verify(tk, context, state, now) # "Ok"
  /\ GoTo("persist",
          [kind |-> "execution.rejected", id |-> tk.id,
           reason |-> Verify(tk, context, state, now)], tk)
  /\ UNCHANGED <<up, state, disk, file, last, now, released, replyVars>>

StartedLogged ==
  /\ at = "started"
  /\ Log!Appended(event)
  /\ GoTo("skill", NoEvent, token)
  /\ UNCHANGED <<up, state, disk, now, released, replyVars>>

StartedFails ==
  /\ at = "started"
  /\ \E cut \in IoFaults : Log!AppendCut(event, cut)
  /\ Release
  /\ UNCHANGED <<up, state, disk, now, released, replyVars>>

\* faulty variants of RunSkill: the robot's id is inserted for the token's;
\* the completed record and the receipt come before the snapshot
RunSkillConsumesRobot ==
  /\ at = "skill"
  /\ token.skill \in KnownSkill
  /\ released' = Append(released, token)
  /\ state' = [state EXCEPT !.consumed = @ \cup {token.robot}, !.next = @ + 1]
  /\ GoTo("persist", [kind |-> "execution.completed", id |-> token.id], token)
  /\ UNCHANGED <<up, disk, file, last, now, replyVars>>

RunSkillUnsaved ==
  /\ at = "skill"
  /\ token.skill \in KnownSkill
  /\ released' = Append(released, token)
  /\ state' = [state EXCEPT !.consumed = @ \cup {token.id}, !.next = @ + 1]
  /\ GoTo("audit", [kind |-> "execution.completed", id |-> token.id], token)
  /\ UNCHANGED <<up, disk, file, last, now, replyVars>>

RunSkill ==
  /\ at = "skill"
  /\ token.skill \in KnownSkill
  /\ released' = Append(released, token)
  /\ state' = [state EXCEPT !.consumed = @ \cup {token.id}, !.next = @ + 1]
  /\ GoTo("persist", [kind |-> "execution.completed", id |-> token.id], token)
  /\ UNCHANGED <<up, disk, file, last, now, replyVars>>

\* the token passed every gate: the refusal is returned, nothing is undone
UnknownSkill ==
  /\ at = "skill"
  /\ token.skill \notin KnownSkill
  /\ Release
  /\ UNCHANGED <<up, state, disk, file, last, now, released, replyVars>>

-----------------------------------------------------------------------------
\* faulty variant of SetEmergencyStop: the flag is not persisted
SetEmergencyStopUnsaved(active) ==
  /\ Free
  /\ state' = [state EXCEPT !.emergency_stop = active]
  /\ held' = (held /\ active)
  /\ GoTo("audit",
          [kind |-> IF active THEN "emergency_stop.activated"
                              ELSE "emergency_stop.cleared"], NoToken)
  /\ UNCHANGED <<up, disk, file, last, now, released, receipts>>

\* set_emergency_stop: the flag is in force before anything is written
SetEmergencyStop(active) ==
  /\ Free
  /\ state' = [state EXCEPT !.emergency_stop = active]
  /\ held' = (held /\ active)
  /\ GoTo("persist",
          [kind |-> IF active THEN "emergency_stop.activated"
                              ELSE "emergency_stop.cleared"], NoToken)
  /\ UNCHANGED <<up, disk, file, last, now, released, receipts>>

-----------------------------------------------------------------------------
Refusing == event.kind = "execution.rejected"

\* fs::write to runtime-state.json.tmp and fs::rename
Persist ==
  /\ at = "persist"
  /\ disk' = state
  /\ GoTo("audit", event, token)
  /\ UNCHANGED <<up, state, file, last, now, released, replyVars>>

PersistFails ==
  /\ PersistMayFail
  /\ at = "persist"
  /\ IF Refusing THEN GoTo("audit", event, token) ELSE Release
  /\ UNCHANGED <<up, state, disk, file, last, now, released, replyVars>>

\* the reply of a request whose last append returned Ok
Reply ==
  CASE event.kind = "execution.completed" ->
         receipts' = receipts \cup {token.id} /\ UNCHANGED held
    [] event.kind = "emergency_stop.activated" ->
         held' = TRUE /\ UNCHANGED receipts
    [] event.kind \in {"emergency_stop.cleared", "execution.rejected"} ->
         UNCHANGED replyVars

AuditThenReply ==
  /\ at = "audit"
  /\ Log!Appended(event)
  /\ Reply
  /\ Release
  /\ UNCHANGED <<up, state, disk, now, released>>

AuditFails ==
  /\ at = "audit"
  /\ \E cut \in IoFaults : Log!AppendCut(event, cut)
  /\ Release
  /\ UNCHANGED <<up, state, disk, now, released, replyVars>>

-----------------------------------------------------------------------------
\* killed, or stopped; inside an append the file keeps what was written
Crash ==
  /\ up
  /\ up' = FALSE
  /\ IF at \in {"started", "audit"}
     THEN \E cut \in KillPoints : file' = file \o Log!Written(event, cut)
     ELSE file' = file
  /\ state' = DefaultState
  /\ last' = Log!NoTip
  /\ Release
  /\ UNCHANGED <<disk, now, released, replyVars>>

\* RobotRuntime::open: it refuses to start over a log that does not verify
Open ==
  /\ ~up
  /\ Log!Opened
  /\ up' = TRUE
  /\ state' = disk
  /\ UNCHANGED <<disk, now, requestVars, released, replyVars>>

Tick ==
  /\ now < MaxNow
  /\ now' = now + 1
  /\ UNCHANGED <<up, state, disk, file, last, requestVars, released, replyVars>>

Next ==
  \/ \E tk \in Tokens, context \in Contexts :
       ExecutePasses(tk, context) \/ ExecuteRefused(tk, context)
  \/ StartedLogged \/ StartedFails \/ RunSkill \/ UnknownSkill
  \/ \E active \in BOOLEAN : SetEmergencyStop(active)
  \/ Persist \/ PersistFails \/ AuditThenReply \/ AuditFails
  \/ Crash \/ Open \/ Tick

Spec == Init /\ [][Next]_vars

-----------------------------------------------------------------------------
(***************************************************************************)
(* The skill adapter is called with sequence number n > 0 only after it    *)
(* was called with n - 1, through crashes, failed snapshots and restarts   *)
(* from an old snapshot (runtime.rs:129-134, 190-195).                     *)
(***************************************************************************)
NoReleaseSkipsANumber ==
  \A j \in DOMAIN released :
    released[j].seq > 0 =>
      \E i \in 1..(j - 1) : released[i].seq = released[j].seq - 1

(***************************************************************************)
(* A token whose receipt reached the client, or that is consumed in        *)
(* runtime-state.json, is never released again, in this life of the        *)
(* process or in a later one (runtime.rs:129-152).                         *)
(***************************************************************************)
SettledIsFinal ==
  [][released' # released =>
       token.id \notin receipts /\ token.id \notin disk.consumed]_vars

(***************************************************************************)
(* Between an acknowledged emergency stop and the next request to clear it *)
(* the skill adapter is not called, whatever crashes and restarts happen   *)
(* (runtime.rs:160-162, 252-278).                                          *)
(***************************************************************************)
StopHolds == [][released' # released => ~held]_vars

(***************************************************************************)
(* No call of the skill adapter without evidence: the log holds at least   *)
(* as many started records of a token as there were calls with it          *)
(* (runtime.rs:115-128).                                                   *)
(***************************************************************************)
StartedRecords(id) ==
  {i \in DOMAIN file : /\ file[i].kind = "record"
                       /\ file[i].body.event.kind = "execution.started"
                       /\ file[i].body.event.id = id}

ReleasesAreEvidenced ==
  \A id \in TokenId :
    Cardinality({j \in DOMAIN released : released[j].id = id})
      <= Cardinality(StartedRecords(id))

(***************************************************************************)
(* Whatever is killed or fails, the runtime is a robot of Actuation: what  *)
(* the snapshot says was done was done, in order, and a call continues it  *)
(* (runtime.rs:66-91, 94-153, 252-304).                                    *)
(***************************************************************************)
Actuator == INSTANCE Actuation WITH
              Robot   <- {Self},
              Id      <- TokenId,
              next    <- [r \in {Self} |-> disk.next],
              spent   <- [r \in {Self} |-> disk.consumed],
              stopped <- IF held THEN {Self} ELSE {},
              called  <- [i \in DOMAIN released |->
                            [id |-> released[i].id, robot |-> released[i].robot,
                             seq |-> released[i].seq]]

IsActuation == Actuator!Spec

(***************************************************************************)
(* docs/threat-model.md:59: "A consumed token cannot execute again": the   *)
(* skill adapter is called at most once with a token.                      *)
(***************************************************************************)
ExecutesOnce ==
  \A i, j \in DOMAIN released : released[i].id = released[j].id => i = j
=============================================================================
