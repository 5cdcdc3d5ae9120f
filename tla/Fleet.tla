------------------------------- MODULE Fleet -------------------------------
(***************************************************************************)
(* A coordination node, several robot runtimes and the operators between   *)
(* them.  The two kinds of nodes never talk to each other: an operator     *)
(* asks for a token (src/src/main.rs, issue_token_cli), presents it to the *)
(* robot (execute_cli) and does what the error body of a refusal says      *)
(* ("Next: ...", parse_response).  Replies get lost, requests are late or  *)
(* arrive twice, time passes, the world changes.                           *)
(*                                                                         *)
(* The steps inside a node are the subject of Coordinator, whose disk and  *)
(* replies implement Authority as the node here does, and of RobotRuntime, *)
(* which implements Actuation as the robots here do; here a handler is one *)
(* step, with an outcome of its own for each fault that leaves a different *)
(* state behind.                                                           *)
(*                                                                         *)
(* A robot has its memory and its snapshot, which differ after a failed    *)
(* persist until a later one or a restart.  The books of the coordination  *)
(* node are its snapshot: while its memory is ahead of it, requests meet   *)
(* what they would meet had the snapshot been written and the rest of the  *)
(* handler failed (DrawFails, IssueFails), or a refusal (AskFails).        *)
(***************************************************************************)
EXTENDS Integers, Sequences, FiniteSets

CONSTANTS Robot, Task, Nobody,
          NoLimit,    \* a number that a token does not give
          Job,        \* what operators want done: [robot, task, skill]
          Ttl,        \* --ttl-seconds
          MaxTokens,  \* bound: no request once so many ids were drawn
          MaxNow,     \* bound on the clock
          MaxFaults   \* bound: faults (lost replies, failed requests, kills),
                      \* stops, revocations and changes of the world

VARIABLES owner,      \* the coordinator's state.json: owners of the tasks,
          next,       \* next sequence number of each robot,
          revoked,    \* and revoked robots
          serial,     \* how many token ids were drawn
          pending,    \* the token that issue_token is working on, or none
          issued,     \* tokens the coordinator replied with
          delivered,  \* those of them whose reply reached the operator
          state,      \* RuntimeState of each robot, in memory
          saved,      \* and in its runtime-state.json
          down,       \* robots that do not start again over a damaged log
          client,     \* where the operator of each job is
          now,        \* the clock
          world,      \* the attested state of the world
          faults,     \* how many of what MaxFaults bounds happened
          released    \* history: the calls of all skill adapters, in order

coordinatorVars == <<owner, next, revoked, serial, pending, issued>>
robotVars == <<state, saved, down>>
worldVars == <<now, world, faults>>
vars == <<coordinatorVars, delivered, robotVars, client, worldVars, released>>

-----------------------------------------------------------------------------
Gate(r) == INSTANCE ExecutionGate WITH Self <- r, Coordinator <- "coordinator"

Skill == {"move", "pick", "place", "wait", "fly"}
Skills == Gate("any")!KnownSkill

ASSUME FleetAssumption ==
  /\ Nobody \notin Robot
  /\ Job \subseteq [robot : Robot, task : Task, skill : Skill]
  /\ Ttl \in 1..300
  /\ MaxTokens \in Nat /\ MaxNow \in Nat /\ MaxFaults \in Nat

\* ExecutionContext: one zone, and a state hash that the world determines
Context(task, w) == [task |-> task, zone |-> "cell-1", world |-> w]

\* the token of a request of issue_token_cli, which allows what it asks for
TokenFor(j) ==
  [id |-> serial, schema |-> "spacl.action-token.v1", robot |-> j.robot,
   issuer |-> "coordinator", signed |-> TRUE,
   issued_at |-> now, expires_at |-> now + Ttl, seq |-> next[j.robot],
   context |-> Context(j.task, world), skill |-> j.skill,
   allowed_skills |-> {j.skill}, allowed_zones |-> {"cell-1"},
   speed |-> NoLimit, max_speed |-> NoLimit,
   force |-> NoLimit, max_force |-> NoLimit,
   risk |-> "normal", approvals |-> << >>]

Token == [id : Nat, schema : {"spacl.action-token.v1"}, robot : Robot,
          issuer : {"coordinator"}, signed : {TRUE},
          issued_at : Nat, expires_at : Nat, seq : Nat,
          context : [task : Task, zone : {"cell-1"}, world : Nat], skill : Skill,
          allowed_skills : SUBSET Skill, allowed_zones : {{"cell-1"}},
          speed : {NoLimit}, max_speed : {NoLimit},
          force : {NoLimit}, max_force : {NoLimit},
          risk : {"normal"}, approvals : {<< >>}]
NoToken == [id |-> -1]

-----------------------------------------------------------------------------
(***************************************************************************)
(* The codes that reach an operator, and what the "action" of their error  *)
(* body tells to do next: ask for a fresh token, present the same token    *)
(* again, or give the request up because it has to be another one.         *)
(***************************************************************************)
Advice(error) ==
  CASE error \in {"Schema", "InvalidSignature", "Expired", "Replay", "Context"} -> "ask"
    [] error \in {"EmergencyStop", "WrongRobot", "Sequence"} -> "present"
    [] error \in {"Policy", "UnknownRobot", "RevokedRobot", "TaskOwnershipConflict",
                 "InvalidTtl", "InvalidTaskId", "TwoPersonApprovalRequired",
                 "Internal"} -> "give-up"

\* faulty variant of Follow: a sequence gap is answered with a fresh token
FollowImpatiently(j, error) ==
  LET does == IF error = "Sequence" THEN "ask" ELSE Advice(error)
  IN  client' = [client EXCEPT ![j] =
        [at    |-> does,
         token |-> IF does = "present" THEN @.token ELSE NoToken]]

\* the operator of j reads an error and does what it says
Follow(j, error) ==
  client' = [client EXCEPT ![j] =
    [at    |-> Advice(error),
     token |-> IF Advice(error) = "present" THEN @.token ELSE NoToken]]

RuntimeState ==
  [next : Nat, emergency_stop : BOOLEAN, consumed : SUBSET Nat]

TypeOK ==
  /\ owner \in [Task -> Robot \cup {Nobody}]
  /\ next \in [Robot -> Nat]
  /\ revoked \subseteq Robot
  /\ serial \in Nat
  /\ pending \in [job : Job, token : Token] \cup {NoToken}
  /\ delivered \subseteq issued /\ issued \subseteq Token
  /\ state \in [Robot -> RuntimeState]
  /\ saved \in [Robot -> RuntimeState]
  /\ down \subseteq Robot
  /\ client \in [Job -> [at : {"ask", "present", "give-up", "done"},
                         token : Token \cup {NoToken}]]
  /\ now \in Nat /\ world \in Nat /\ faults \in Nat
  /\ released \in Seq(Token)

Init ==
  /\ owner = [k \in Task |-> Nobody]
  /\ next = [r \in Robot |-> 0]
  /\ revoked = {}
  /\ serial = 0
  /\ pending = NoToken
  /\ issued = {}
  /\ delivered = {}
  /\ state = [r \in Robot |->
                [next |-> 0, emergency_stop |-> FALSE, consumed |-> {}]]
  /\ saved = state
  /\ down = {}
  /\ client = [j \in Job |-> [at |-> "ask", token |-> NoToken]]
  /\ now = 0
  /\ world = 0
  /\ faults = 0
  /\ released = << >>

-----------------------------------------------------------------------------
(***************************************************************************)
(* POST /v1/tokens.  The node works on one request at a time: it saves the *)
(* owner and the counter, appends to its log, and replies.                 *)
(***************************************************************************)
Fault == faults < MaxFaults /\ faults' = faults + 1

Asks(j) == client[j].at = "ask" /\ pending = NoToken /\ serial < MaxTokens

MayIssue(j) == j.robot \notin revoked /\ owner[j.task] \in {Nobody, j.robot}

\* faulty variant of DrawToken: the owner is not looked at
DrawTokenOfAnyTask(j) ==
  /\ Asks(j) /\ j.robot \notin revoked
  /\ owner' = [owner EXCEPT ![j.task] = j.robot]
  /\ next' = [next EXCEPT ![j.robot] = @ + 1]
  /\ serial' = serial + 1
  /\ pending' = [job |-> j, token |-> TokenFor(j)]
  /\ UNCHANGED <<revoked, issued, delivered, robotVars, client, worldVars, released>>

\* faulty variant of DrawToken: the counter stays
DrawTokenSameNumber(j) ==
  /\ Asks(j) /\ MayIssue(j)
  /\ owner' = [owner EXCEPT ![j.task] = j.robot]
  /\ serial' = serial + 1
  /\ pending' = [job |-> j, token |-> TokenFor(j)]
  /\ UNCHANGED <<next, revoked, issued, delivered, robotVars, client, worldVars, released>>

DrawToken(j) ==
  /\ Asks(j) /\ MayIssue(j)
  /\ owner' = [owner EXCEPT ![j.task] = j.robot]
  /\ next' = [next EXCEPT ![j.robot] = @ + 1]
  /\ serial' = serial + 1
  /\ pending' = [job |-> j, token |-> TokenFor(j)]
  /\ UNCHANGED <<revoked, issued, delivered, robotVars, client, worldVars, released>>

\* nothing was saved, or the node refuses because of what only a failed
\* snapshot has left in its memory
AskFails(j) ==
  /\ Asks(j)
  /\ Fault
  /\ Follow(j, "Internal")
  /\ UNCHANGED <<coordinatorVars, delivered, robotVars, now, world, released>>

\* the assignment was saved, the second half of issue_token failed
DrawFails(j) ==
  /\ Asks(j) /\ MayIssue(j)
  /\ Fault
  /\ owner' = [owner EXCEPT ![j.task] = j.robot]
  /\ Follow(j, "Internal")
  /\ UNCHANGED <<next, revoked, serial, pending, issued, delivered, robotVars,
                 now, world, released>>

AskRefused(j) ==
  /\ Asks(j) /\ ~MayIssue(j)
  /\ Follow(j, IF j.robot \in revoked THEN "RevokedRobot" ELSE "TaskOwnershipConflict")
  /\ UNCHANGED <<coordinatorVars, delivered, robotVars, worldVars, released>>

Settled(reply) ==
  /\ pending # NoToken
  /\ pending' = NoToken
  /\ issued' = issued \cup reply
  /\ UNCHANGED <<owner, next, revoked, serial, robotVars, now, world, released>>

IssueToken ==
  /\ Settled({pending.token})
  /\ delivered' = delivered \cup {pending.token}
  /\ client' = [client EXCEPT ![pending.job] =
                  [at |-> "present", token |-> pending.token]]
  /\ UNCHANGED faults

\* the reply does not arrive, or the token file cannot be written
IssueReplyLost ==
  /\ Settled({pending.token})
  /\ Fault
  /\ UNCHANGED <<delivered, client>>

\* the number is saved; the audit append failed or the node was killed
IssueFails ==
  /\ Settled({})
  /\ Fault
  /\ Follow(pending.job, "Internal")
  /\ UNCHANGED delivered

Revoke(r) ==
  /\ pending = NoToken
  /\ r \notin revoked
  /\ Fault
  /\ revoked' = revoked \cup {r}
  /\ UNCHANGED <<owner, next, serial, pending, issued, delivered, robotVars, client,
                 now, world, released>>

-----------------------------------------------------------------------------
(***************************************************************************)
(* POST /v1/execute.                                                       *)
(***************************************************************************)
Verdict(tk, context) == Gate(tk.robot)!Verify(tk, context, state[tk.robot], now)

\* faulty variant of Consumed: the robot's id is remembered, not the token's
ConsumedRobot(tk) ==
  LET s == state[tk.robot]
  IN  [state EXCEPT ![tk.robot] =
         [s EXCEPT !.consumed = @ \cup {tk.robot}, !.next = @ + 1]]

Consumed(tk) ==
  LET s == state[tk.robot]
  IN  [state EXCEPT ![tk.robot] =
         [s EXCEPT !.consumed = @ \cup {tk.id}, !.next = @ + 1]]

Runs(tk, context) ==
  /\ Verdict(tk, context) = "Ok"
  /\ tk.skill \in Skills
  /\ released' = Append(released, tk)

Presents(j) == client[j].at = "present" /\ j.robot \notin down
Seen(j)     == Context(j.task, world)

\* the snapshot of r, which is written whole
Persist(r) == saved' = [saved EXCEPT ![r] = state'[r]]

Saved(tk) ==
  /\ state' = Consumed(tk)
  /\ Persist(tk.robot)
  /\ UNCHANGED down

\* persist returned an error: the process works on with what it has in memory
Unsaved(tk) ==
  /\ state' = Consumed(tk)
  /\ UNCHANGED <<saved, down>>

\* killed and opened again, or not, if its log does not verify any more
Killed(r) ==
  /\ state' = [state EXCEPT ![r] = saved[r]]
  /\ down' \in {down, down \cup {r}}
  /\ UNCHANGED saved

Execute(j) ==
  /\ Presents(j)
  /\ Runs(client[j].token, Seen(j))
  /\ Saved(client[j].token)
  /\ client' = [client EXCEPT ![j].at = "done"]
  /\ UNCHANGED <<coordinatorVars, delivered, worldVars>>

\* the record of the started execution, the snapshot or the record of the
\* completed execution cannot be written
ExecuteFails(j) ==
  LET tk == client[j].token
  IN  /\ Presents(j)
      /\ Verdict(tk, Seen(j)) = "Ok"
      /\ \/ UNCHANGED <<robotVars, released>>
         \/ Runs(tk, Seen(j)) /\ (Unsaved(tk) \/ Saved(tk))
      /\ Fault
      /\ Follow(j, "Internal")
      /\ UNCHANGED <<coordinatorVars, delivered, now, world>>

\* a request whose reply is lost, an old one, or a copy of one: nobody reads
\* what becomes of it, also when the robot is killed over it
ExecuteLate(tk) ==
  /\ tk \in delivered /\ tk.robot \notin down
  /\ Runs(tk, tk.context)
  /\ \/ Saved(tk) /\ UNCHANGED faults
     \/ Fault /\ (Unsaved(tk) \/ Killed(tk.robot))
  /\ UNCHANGED <<coordinatorVars, delivered, client, now, world>>

\* a refusal saves the memory, if it can; an unknown skill passes every gate
\* and is a policy error all the same
ExecuteRefused(j) ==
  /\ Presents(j)
  /\ UNCHANGED state
  /\ \E v \in {Verdict(client[j].token, Seen(j))} :
       \/ v # "Ok" /\ Follow(j, v) /\ Persist(j.robot) /\ UNCHANGED faults
       \/ /\ v # "Ok" /\ Follow(j, v)
          /\ saved[j.robot] # state[j.robot] /\ Fault /\ UNCHANGED saved
       \/ /\ v = "Ok" /\ client[j].token.skill \notin Skills /\ Follow(j, "Policy")
          /\ UNCHANGED <<saved, faults>>
  /\ UNCHANGED <<coordinatorVars, delivered, down, now, world, released>>

\* anybody's request that is refused saves the memory too
RefuseStranger(r) ==
  /\ r \notin down
  /\ saved[r] # state[r]
  /\ UNCHANGED state
  /\ Persist(r)
  /\ UNCHANGED <<coordinatorVars, delivered, down, client, worldVars, released>>

-----------------------------------------------------------------------------
\* set_emergency_stop: the memory first, then the snapshot
SetEmergencyStop(r, active) ==
  /\ r \notin down
  /\ state[r].emergency_stop # active
  /\ state' = [state EXCEPT ![r].emergency_stop = active]
  /\ UNCHANGED <<coordinatorVars, delivered, down, client, now, world, released>>

Stop(r) ==
  /\ SetEmergencyStop(r, TRUE)
  /\ Fault
  /\ Persist(r) \/ UNCHANGED saved

ClearStop(r) ==
  /\ SetEmergencyStop(r, FALSE)
  /\ Persist(r)
  /\ UNCHANGED faults

ClearFails(r) ==
  /\ SetEmergencyStop(r, FALSE)
  /\ Fault
  /\ UNCHANGED saved

\* between two requests; nothing changes if the snapshot is up to date and the
\* log verifies
Restart(r) ==
  /\ r \notin down
  /\ Killed(r)
  /\ robotVars' # robotVars
  /\ Fault
  /\ UNCHANGED <<coordinatorVars, delivered, client, now, world, released>>

Tick ==
  /\ now < MaxNow
  /\ now' = now + 1
  /\ UNCHANGED <<coordinatorVars, delivered, robotVars, client, world, faults, released>>

WorldChanges ==
  /\ Fault
  /\ world' = world + 1
  /\ UNCHANGED <<coordinatorVars, delivered, robotVars, client, now, released>>

Ask(j) == DrawToken(j) \/ AskRefused(j)
Present(j) == Execute(j) \/ ExecuteRefused(j)

Next ==
  \/ \E j \in Job : Ask(j) \/ AskFails(j) \/ DrawFails(j)
  \/ IssueToken \/ IssueReplyLost \/ IssueFails
  \/ \E j \in Job : Present(j) \/ ExecuteFails(j)
  \/ \E tk \in delivered : ExecuteLate(tk)
  \/ \E r \in Robot : \/ Revoke(r) \/ RefuseStranger(r) \/ Restart(r)
                      \/ Stop(r) \/ ClearStop(r) \/ ClearFails(r)
  \/ Tick \/ WorldChanges

Spec == Init /\ [][Next]_vars

\* replies are sent, operators present what they have and clear the stops, and
\* robots that are up answer; nobody has to be fast or to ask, and faults, ticks
\* and changes of the world need not happen
FairSpec ==
  /\ Spec
  /\ WF_vars(IssueToken)
  /\ \A j \in Job : WF_vars(Present(j))
  /\ \A r \in Robot : WF_vars(ClearStop(r))

-----------------------------------------------------------------------------
(***************************************************************************)
(* Two robots never run the same task, although the runtimes know nothing  *)
(* of each other and tokens are presented late, twice, or after replies    *)
(* were lost (coordinator.rs:227-236, runtime.rs:155-200).                 *)
(***************************************************************************)
TasksRunOnOneRobot ==
  \A a, b \in DOMAIN released :
    released[a].context.task = released[b].context.task
      => released[a].robot = released[b].robot

(***************************************************************************)
(* Each robot acts in the order in which the coordinator issued: when it   *)
(* calls a number it has called every smaller one before, and a number is  *)
(* only repeated with the same token.  A restart may repeat numbers whose  *)
(* snapshot failed or was never written; IsActuation says how far back     *)
(* (coordinator.rs:187-208, runtime.rs:66-78, 129-134, 190-195).           *)
(***************************************************************************)
RunsInIssueOrder ==
  \A b \in DOMAIN released :
    LET before == {a \in 1..b : released[a].robot = released[b].robot}
    IN  /\ 0..released[b].seq \subseteq {released[a].seq : a \in before}
        /\ \A a \in before : released[a].seq = released[b].seq => released[a] = released[b]

Hopeless(tk) == now > tk.expires_at \/ tk.skill \notin Skills

\* n was drawn for robot r, and what was drawn is lost or cannot pass
Lost(r, n) ==
  /\ n < next[r]
  /\ pending = NoToken \/ pending.token.robot # r \/ pending.token.seq # n
  /\ \A tk \in delivered : tk.robot = r /\ tk.seq = n => Hopeless(tk)

\* the number that r expects is lost, and the one it expects after a restart
DeadEnd(r) == Lost(r, state[r].next) /\ Lost(r, saved[r].next)

(***************************************************************************)
(* A gap does not heal: when the token of the expected number was lost, is *)
(* expired or names an unknown skill, the robot acts no more, whatever is  *)
(* issued, presented or repeated afterwards, and also restarts and failed  *)
(* snapshots do not help (runtime.rs:129-134, 190-195,                     *)
(* docs/architecture.md:51).                                               *)
(***************************************************************************)
DeadEndsStay ==
  [][\A r \in Robot : DeadEnd(r) =>
       /\ DeadEnd(r)'
       /\ released' # released => released'[Len(released')].robot # r]_vars

\* the token with the number that robot r expects, as far as there is one
Expected(r) == {tk \in delivered : tk.robot = r /\ tk.seq = state[r].next}

\* the operator who asked for tk was told to give the request up
GivenUp(tk) ==
  \E j \in Job : /\ j.robot = tk.robot /\ j.task = tk.context.task /\ j.skill = tk.skill
                /\ client[j].at = "give-up"

\* tk was run, and a restart of the robot has forgotten it since
RunAndForgotten(tk) ==
  /\ \E i \in DOMAIN released : released[i] = tk
  /\ ~ \E j \in Job : Presents(j) /\ client[j].token = tk

(***************************************************************************)
(* What can hold a robot up, again and again short of the numbers that     *)
(* were drawn for it, is one of these: its log is damaged, the number it   *)
(* expects is lost, or the token with that number was issued for another   *)
(* state of the world, given up after an error, or run and forgotten, when *)
(* a replay was reported and a restart came after (main.rs:1498-1519,      *)
(* 1576-1713).                                                             *)
(***************************************************************************)
HeldUp(r) ==
  \/ r \in down
  \/ Lost(r, state[r].next)
  \/ \E tk \in Expected(r) :
       tk.context.world # world \/ GivenUp(tk) \/ RunAndForgotten(tk)

NumbersAreConsumed ==
  \A r \in Robot : []<>(state[r].next = next[r] \/ HeldUp(r))

(***************************************************************************)
(* main.rs:1679, "Issue a fresh token with the current execution context", *)
(* and docs/troubleshooting.md:39, "Issue a new token": an operator who    *)
(* does so after TOKEN_EXPIRED gets the action done, or is too late again. *)
(***************************************************************************)
TriedInVain(j) ==
  \E old \in delivered :
    /\ old.robot = j.robot /\ old.skill = j.skill /\ old.context.task = j.task
    /\ old.id < client[j].token.id
    /\ old.id \notin state[j.robot].consumed /\ now > old.expires_at

FreshTokenWorks ==
  \A j \in Job :
    (Presents(j) /\ TriedInVain(j))
      ~> \/ client[j].at = "done"
         \/ Presents(j) /\ now > client[j].token.expires_at

(***************************************************************************)
(* Through lost replies, failed requests and revocations the node of the   *)
(* fleet is the Authority that Coordinator is shown to implement.          *)
(***************************************************************************)
Auth == INSTANCE Authority WITH
          issued <- {[id |-> tk.id, robot |-> tk.robot, task |-> tk.context.task,
                      seq |-> tk.seq] : tk \in issued}

IsAuthority == Auth!Spec

(***************************************************************************)
(* And its robots are the Actuation that RobotRuntime is shown to          *)
(* implement.                                                              *)
(***************************************************************************)
Actuators == INSTANCE Actuation WITH
               Id      <- Nat,
               next    <- [r \in Robot |-> saved[r].next],
               spent   <- [r \in Robot |-> saved[r].consumed],
               stopped <- {r \in Robot : state[r].emergency_stop},
               called  <- [i \in DOMAIN released |->
                             [id |-> released[i].id, robot |-> released[i].robot,
                              seq |-> released[i].seq]]

IsActuation == Actuators!Spec
=============================================================================
