---------------------------- MODULE FleetProofs ----------------------------
(***************************************************************************)
(* Proofs about Fleet, for any robots, tasks and jobs and any number of    *)
(* faults, ticks and changes of the world.                                 *)
(*                                                                         *)
(* The argument: operators only present tokens that were delivered to them *)
(* (Presenting), and a token is only drawn for the owner of its task and   *)
(* under a new number (TokensBacked).  So the calls of the skill adapters, *)
(* which all go back to issued tokens (RunsBacked), inherit one owner for  *)
(* each task from the books.  What a robot remembers, in memory and on     *)
(* disk, it did (Remembered), and a restart only takes the memory back to  *)
(* the disk: as a token runs only under the number that the memory         *)
(* expects, every smaller number was run before, and the robots are an     *)
(* Actuation.  A dead end holds for the number in memory and for the one   *)
(* on disk, and no step of the fleet brings in a third.                    *)
(***************************************************************************)
EXTENDS Fleet, TLAPS

\* the codes of the gates
Refusal == {"EmergencyStop", "Schema", "WrongRobot", "InvalidSignature", "Expired",
            "Replay", "Sequence", "Context", "Policy"}

\* a non-empty set of small numbers has a least one
LEMMA LeastGate ==
  ASSUME NEW S \in SUBSET (1..9), S # {}
  PROVE  \E i \in S : \A j \in S : i <= j
<1> SUFFICES ASSUME \A i \in S : \E j \in S : j < i PROVE FALSE
  OBVIOUS
<1>1. 1 \notin S /\ 2 \notin S /\ 3 \notin S
  OBVIOUS
<1>2. 4 \notin S /\ 5 \notin S /\ 6 \notin S
  BY <1>1
<1>3. 7 \notin S /\ 8 \notin S /\ 9 \notin S
  BY <1>1, <1>2
<1>4. PICK i \in S : TRUE
  OBVIOUS
<1> QED
  BY <1>1, <1>2, <1>3, <1>4

\* a verdict is the code of a closed gate, or "Ok" when all are open
LEMMA FirstClosed ==
  ASSUME NEW tk, NEW context
  PROVE  \/ /\ \A i \in 1..9 : Gate(tk.robot)!Opens(Gate(tk.robot)!Gates[i], tk, context,
                                                   state[tk.robot], now)
            /\ Verdict(tk, context) = "Ok"
         \/ \E i \in 1..9 : Verdict(tk, context) = Gate(tk.robot)!Gates[i]
<1> DEFINE r == tk.robot
           IsOpen(i) == Gate(r)!Opens(Gate(r)!Gates[i], tk, context, state[r], now)
           first == CHOOSE i \in 1..9 : ~IsOpen(i) /\ \A j \in 1..(i - 1) : IsOpen(j)
<1>1. CASE \A i \in 1..9 : IsOpen(i)
  BY <1>1 DEF Verdict, Gate!Verify
<1>2. CASE \E i \in 1..9 : ~IsOpen(i)
  <2> DEFINE closed == {i \in 1..9 : ~IsOpen(i)}
  <2>1. closed \in SUBSET (1..9) /\ closed # {}
    BY <1>2
  <2> HIDE DEF closed
  <2>2. PICK k \in closed : \A j \in closed : k <= j
    BY <2>1, LeastGate
  <2>3. k \in 1..9 /\ ~IsOpen(k)
    BY <2>2 DEF closed
  <2>4. \A j \in 1..(k - 1) : IsOpen(j)
    <3>1. ASSUME NEW j \in 1..(k - 1) PROVE IsOpen(j)
      BY <2>2, <2>3, <3>1 DEF closed
    <3> QED
      BY <3>1
  <2>5. first \in 1..9
    <3> HIDE DEF IsOpen
    <3> QED
      BY <2>3, <2>4
  <2>6. Verdict(tk, context) = Gate(r)!Gates[first]
    BY <1>2 DEF Verdict, Gate!Verify
  <2> HIDE DEF first
  <2> QED
    BY <2>5, <2>6
<1> QED
  BY <1>1, <1>2

LEMMA VerdictIs ==
  ASSUME NEW tk, NEW context
  PROVE  /\ Verdict(tk, context) \in Refusal \cup {"Ok"}
         /\ Verdict(tk, context) = "Ok" =>
              /\ tk.seq = state[tk.robot].next /\ now <= tk.expires_at
              /\ ~state[tk.robot].emergency_stop /\ tk.id \notin state[tk.robot].consumed
<1> DEFINE r == tk.robot
           s == state[r]
<1>1. \A i \in 1..9 : Gate(r)!Gates[i] \in Refusal
  BY DEF Gate!Gates, Refusal
<1>2. CASE \E i \in 1..9 : Verdict(tk, context) = Gate(r)!Gates[i]
  BY <1>1, <1>2 DEF Refusal
<1>3. CASE /\ \A i \in 1..9 : Gate(r)!Opens(Gate(r)!Gates[i], tk, context, s, now)
           /\ Verdict(tk, context) = "Ok"
  <2>1. /\ Gate(r)!Gates[1] = "EmergencyStop" /\ Gate(r)!Gates[5] = "Expired"
        /\ Gate(r)!Gates[6] = "Replay" /\ Gate(r)!Gates[7] = "Sequence"
    BY DEF Gate!Gates
  <2>2. /\ Gate(r)!Opens("EmergencyStop", tk, context, s, now)
        /\ Gate(r)!Opens("Expired", tk, context, s, now)
        /\ Gate(r)!Opens("Replay", tk, context, s, now)
        /\ Gate(r)!Opens("Sequence", tk, context, s, now)
    BY <1>3, <2>1
  <2>3. /\ tk.seq = state[tk.robot].next /\ now <= tk.expires_at
        /\ ~state[tk.robot].emergency_stop /\ tk.id \notin state[tk.robot].consumed
    BY <2>2 DEF Gate!Opens
  <2> QED
    BY <1>3, <2>3
<1> QED
  BY <1>2, <1>3, FirstClosed

\* what each code advises
LEMMA AdviceIs ==
  /\ \A e \in Refusal : Advice(e) \in {"ask", "present", "give-up"}
  /\ \A e \in {"Internal", "RevokedRobot", "TaskOwnershipConflict", "Policy"} :
       Advice(e) = "give-up"
BY DEF Advice, Refusal

-----------------------------------------------------------------------------
\* what a token that is drawn says
LEMMA TokenForIs ==
  ASSUME TypeOK, NEW j \in Job
  PROVE  /\ TokenFor(j) \in Token
         /\ TokenFor(j).robot = j.robot /\ TokenFor(j).seq = next[j.robot]
         /\ TokenFor(j).id = serial /\ TokenFor(j).context.task = j.task
<1>1. j.robot \in Robot /\ j.task \in Task /\ j.skill \in Skill
  BY FleetAssumption
<1>2. now + Ttl \in Nat /\ serial \in Nat /\ now \in Nat /\ next[j.robot] \in Nat /\ world \in Nat
  <2>1. serial \in Nat /\ now \in Nat /\ world \in Nat /\ next \in [Robot -> Nat]
    BY DEF TypeOK
  <2>2. Ttl \in Nat
    BY FleetAssumption
  <2> QED
    BY <1>1, <2>1, <2>2
<1>3. Context(j.task, world) \in [task : Task, zone : {"cell-1"}, world : Nat]
        /\ Context(j.task, world).task = j.task
  BY <1>1, <1>2 DEF Context
<1> QED
  BY <1>1, <1>2, <1>3 DEF TokenFor, Token

\* the state of a robot after it ran a token
LEMMA ConsumedIs ==
  ASSUME TypeOK, NEW tk \in Token
  PROVE  /\ Consumed(tk) \in [Robot -> RuntimeState]
         /\ Consumed(tk)[tk.robot].next = state[tk.robot].next + 1
         /\ Consumed(tk)[tk.robot].consumed = state[tk.robot].consumed \cup {tk.id}
         /\ Consumed(tk)[tk.robot].emergency_stop = state[tk.robot].emergency_stop
         /\ \A r \in Robot \ {tk.robot} : Consumed(tk)[r] = state[r]
<1>1. tk.robot \in Robot /\ tk.id \in Nat
  BY DEF Token
<1>2. state \in [Robot -> RuntimeState]
  BY DEF TypeOK
<1>3. state[tk.robot] \in RuntimeState
  BY <1>1, <1>2
<1> DEFINE s == state[tk.robot]
           new == [s EXCEPT !.consumed = @ \cup {tk.id}, !.next = @ + 1]
<1>4. /\ new \in RuntimeState /\ new.next = s.next + 1
      /\ new.consumed = s.consumed \cup {tk.id} /\ new.emergency_stop = s.emergency_stop
  <2>1. s.consumed \cup {tk.id} \in SUBSET Nat /\ s.next + 1 \in Nat
    BY <1>1, <1>3 DEF RuntimeState
  <2>2. new \in RuntimeState
    BY <1>3, <2>1 DEF RuntimeState
  <2> QED
    BY <1>3, <2>2 DEF RuntimeState
<1>5. Consumed(tk) = [state EXCEPT ![tk.robot] = new]
  BY DEF Consumed
<1> HIDE DEF new
<1> QED
  BY <1>1, <1>2, <1>4, <1>5

\* operators present tokens that were delivered to them
Presenting == \A j \in Job : client[j].at = "present" => client[j].token \in delivered

ClientType == [at : {"ask", "present", "give-up", "done"}, token : Token \cup {NoToken}]

\* what an operator does after an error
LEMMA FollowIs ==
  ASSUME TypeOK, NEW j \in Job, NEW error, Follow(j, error),
         Advice(error) \in {"ask", "present", "give-up"}
  PROVE  /\ client' \in [Job -> ClientType]
         /\ \A i \in Job \ {j} : client'[i] = client[i]
         /\ client'[j].at = Advice(error)
         /\ Advice(error) = "present" => client'[j].token = client[j].token
<1>1. client \in [Job -> ClientType]
  BY DEF TypeOK, ClientType
<1>2. client[j] \in ClientType
  BY <1>1
<1> DEFINE new == [at    |-> Advice(error),
                   token |-> IF Advice(error) = "present" THEN client[j].token ELSE NoToken]
<1>3. client' = [client EXCEPT ![j] = new]
  BY DEF Follow
<1>4. new \in ClientType /\ new.at = Advice(error)
        /\ (Advice(error) = "present" => new.token = client[j].token)
  BY <1>2 DEF ClientType
<1> HIDE DEF new
<1> QED
  BY <1>1, <1>3, <1>4

\* pending is a request that is worked on, or there is none
LEMMA PendingIs ==
  ASSUME TypeOK, pending # NoToken PROVE pending.job \in Job /\ pending.token \in Token
BY DEF TypeOK, NoToken

-----------------------------------------------------------------------------
\* two states that agree on what was run
Same(a, b) == a.next = b.next /\ a.consumed = b.consumed

\* nothing runs; at most the memory is saved, or falls back to the disk
Rests(r) ==
  \/ Same(state'[r], state[r]) /\ (Same(saved'[r], saved[r]) \/ Same(saved'[r], state[r]))
  \/ Same(state'[r], saved[r]) /\ Same(saved'[r], saved[r])

KeepsRobots == released' = released /\ \A r \in Robot : Rests(r)

\* a token runs that the memory of its robot expects; what the robot has of it
\* afterwards is in memory and on disk, only in memory, or lost
Ran(tk) ==
  /\ released' = Append(released, tk)
  /\ tk.seq = state[tk.robot].next /\ ~Hopeless(tk)
  /\ ~state[tk.robot].emergency_stop /\ tk.id \notin state[tk.robot].consumed
  /\ \A r \in Robot \ {tk.robot} : state'[r] = state[r] /\ saved'[r] = saved[r]
  /\ \/ /\ state'[tk.robot].next = state[tk.robot].next + 1
        /\ state'[tk.robot].consumed = state[tk.robot].consumed \cup {tk.id}
        /\ saved'[tk.robot] = saved[tk.robot] \/ saved'[tk.robot] = state'[tk.robot]
     \/ state'[tk.robot] = saved[tk.robot] /\ saved'[tk.robot] = saved[tk.robot]

RunsOne == (\E tk \in delivered : Ran(tk)) /\ UNCHANGED <<coordinatorVars, delivered>>

\* the robots have their types after a step
RobotsType ==
  /\ state' \in [Robot -> RuntimeState] /\ saved' \in [Robot -> RuntimeState]
  /\ down' \subseteq Robot /\ released' \in Seq(Token)

\* a kill takes the memory back to the disk
LEMMA KilledIs ==
  ASSUME TypeOK, NEW r \in Robot, Killed(r)
  PROVE  /\ state' \in [Robot -> RuntimeState] /\ saved' = saved /\ down' \subseteq Robot
         /\ state'[r] = saved[r] /\ \A q \in Robot \ {r} : state'[q] = state[q]
BY DEF Killed, TypeOK

\* what was written, if anything was, is the memory
LEMMA PersistIs ==
  ASSUME TypeOK, NEW r \in Robot, state' \in [Robot -> RuntimeState],
         Persist(r) \/ saved' = saved
  PROVE  /\ saved' \in [Robot -> RuntimeState]
         /\ saved'[r] = saved[r] \/ saved'[r] = state'[r]
         /\ \A q \in Robot \ {r} : saved'[q] = saved[q]
BY DEF Persist, TypeOK

\* a token runs under the number that its robot expects, while it is valid
LEMMA RunIsExpected ==
  ASSUME TypeOK, NEW tk \in Token, NEW context, Runs(tk, context)
  PROVE  /\ tk.seq = state[tk.robot].next /\ ~Hopeless(tk)
         /\ ~state[tk.robot].emergency_stop /\ tk.id \notin state[tk.robot].consumed
<1>1. /\ tk.seq = state[tk.robot].next /\ now <= tk.expires_at
      /\ ~state[tk.robot].emergency_stop /\ tk.id \notin state[tk.robot].consumed
  BY VerdictIs DEF Runs
<1>2. tk.skill \in Skills
  BY DEF Runs
<1>3. now \in Nat /\ tk.expires_at \in Nat
  BY DEF TypeOK, Token
<1> QED
  BY <1>1, <1>2, <1>3 DEF Hopeless

\* each of the three outcomes of a run is one of Ran
LEMMA RunIs ==
  ASSUME TypeOK, NEW tk \in delivered, NEW context, Runs(tk, context),
         Saved(tk) \/ Unsaved(tk) \/ Killed(tk.robot)
  PROVE  Ran(tk) /\ RobotsType
<1>1. tk \in Token /\ tk.robot \in Robot /\ released \in Seq(Token)
        /\ state \in [Robot -> RuntimeState] /\ saved \in [Robot -> RuntimeState]
        /\ down \subseteq Robot
  BY DEF TypeOK, Token
<1>2. released' = Append(released, tk) /\ released' \in Seq(Token)
  BY <1>1 DEF Runs
<1>3. CASE Saved(tk) \/ Unsaved(tk)
  <2>1. state' = Consumed(tk) /\ (Persist(tk.robot) \/ saved' = saved) /\ down' = down
    BY <1>3 DEF Saved, Unsaved
  <2>2. /\ state' \in [Robot -> RuntimeState]
        /\ state'[tk.robot].next = state[tk.robot].next + 1
        /\ state'[tk.robot].consumed = state[tk.robot].consumed \cup {tk.id}
        /\ \A r \in Robot \ {tk.robot} : state'[r] = state[r]
    BY <1>1, <2>1, ConsumedIs
  <2>3. /\ saved' \in [Robot -> RuntimeState]
        /\ saved'[tk.robot] = saved[tk.robot] \/ saved'[tk.robot] = state'[tk.robot]
        /\ \A q \in Robot \ {tk.robot} : saved'[q] = saved[q]
    BY <1>1, <2>1, <2>2, PersistIs
  <2> QED
    BY <1>1, <1>2, <2>1, <2>2, <2>3, RunIsExpected DEF Ran, RobotsType
<1>4. CASE Killed(tk.robot)
  BY <1>1, <1>2, <1>4, KilledIs, RunIsExpected DEF Ran, RobotsType
<1> QED
  BY <1>3, <1>4

\* the types hold at the start
LEMMA InitType == Init => TypeOK /\ Presenting
<1> SUFFICES ASSUME Init PROVE TypeOK /\ Presenting
  OBVIOUS
<1>1. state \in [Robot -> RuntimeState] /\ saved \in [Robot -> RuntimeState]
  BY DEF Init, RuntimeState
<1>2. released \in Seq(Token)
  BY DEF Init
<1> QED
  BY <1>1, <1>2 DEF Init, TypeOK, Presenting

-----------------------------------------------------------------------------
\* the four kinds of steps: requests to the coordinator, requests to a robot,
\* what happens to a robot besides, and the rest of the world
CoordinatorStep ==
  \/ \E j \in Job : Ask(j) \/ AskFails(j) \/ DrawFails(j)
  \/ IssueToken \/ IssueReplyLost \/ IssueFails
  \/ \E r \in Robot : Revoke(r)

RobotStep ==
  \/ \E j \in Job : Execute(j) \/ ExecuteFails(j) \/ ExecuteRefused(j)
  \/ \E tk \in delivered : ExecuteLate(tk)

RestStep ==
  \/ \E r \in Robot : \/ RefuseStranger(r) \/ Restart(r)
                      \/ Stop(r) \/ ClearStop(r) \/ ClearFails(r)
  \/ Tick \/ WorldChanges \/ UNCHANGED vars

LEMMA StepIs == [Next]_vars => CoordinatorStep \/ RobotStep \/ RestStep
BY DEF Next, Present, CoordinatorStep, RobotStep, RestStep

\* requests to the coordinator keep the types
LEMMA CoordinatorType ==
  ASSUME TypeOK, Presenting, CoordinatorStep
  PROVE  TypeOK' /\ Presenting'
<1> USE DEF TypeOK, Presenting, robotVars
<1>1. ASSUME NEW j \in Job, DrawToken(j) PROVE TypeOK' /\ Presenting'
  <2>1. j.robot \in Robot /\ j.task \in Task
    BY FleetAssumption
  <2>2. owner' \in [Task -> Robot \cup {Nobody}] /\ next' \in [Robot -> Nat] /\ serial' \in Nat
    BY <1>1, <2>1 DEF DrawToken
  <2>3. pending' \in [job : Job, token : Token]
    BY <1>1, TokenForIs DEF DrawToken
  <2> QED
    BY <1>1, <2>2, <2>3 DEF DrawToken, worldVars
<1>2. ASSUME NEW j \in Job, DrawFails(j) PROVE TypeOK' /\ Presenting'
  <2>1. j.robot \in Robot /\ j.task \in Task
    BY FleetAssumption
  <2>2. owner' \in [Task -> Robot \cup {Nobody}] /\ faults' \in Nat
    BY <1>2, <2>1 DEF DrawFails, Fault
  <2>3. Follow(j, "Internal") /\ Advice("Internal") = "give-up"
    BY <1>2, AdviceIs DEF DrawFails
  <2>4. client' \in [Job -> ClientType] /\ client'[j].at = "give-up"
          /\ \A i \in Job \ {j} : client'[i] = client[i]
    BY <2>3, FollowIs
  <2>5. UNCHANGED <<next, revoked, serial, pending, issued, delivered, robotVars, now, world,
                    released>>
    BY <1>2 DEF DrawFails
  <2>6. TypeOK'
    BY <2>2, <2>4, <2>5 DEF ClientType
  <2>7. Presenting'
    BY <2>4, <2>5
  <2> QED
    BY <2>6, <2>7
<1>3. ASSUME NEW j \in Job, AskRefused(j) PROVE TypeOK' /\ Presenting'
  <2> DEFINE error == IF j.robot \in revoked THEN "RevokedRobot" ELSE "TaskOwnershipConflict"
  <2>1. Follow(j, error) /\ Advice(error) = "give-up"
    BY <1>3, AdviceIs DEF AskRefused
  <2> HIDE DEF error
  <2>2. client' \in [Job -> ClientType] /\ client'[j].at = "give-up"
          /\ \A i \in Job \ {j} : client'[i] = client[i]
    BY <2>1, FollowIs
  <2>3. UNCHANGED <<coordinatorVars, delivered, robotVars, worldVars, released>>
    BY <1>3 DEF AskRefused
  <2>4. TypeOK'
    BY <2>2, <2>3 DEF ClientType, coordinatorVars, worldVars
  <2>5. Presenting'
    BY <2>2, <2>3
  <2> QED
    BY <2>4, <2>5
<1>4. ASSUME IssueToken PROVE TypeOK' /\ Presenting'
  <2>1. pending # NoToken /\ pending.job \in Job /\ pending.token \in Token
    BY <1>4, PendingIs DEF IssueToken, Settled
  <2>2. /\ issued' = issued \cup {pending.token} /\ delivered' = delivered \cup {pending.token}
        /\ pending' = NoToken
        /\ client' = [client EXCEPT ![pending.job] = [at |-> "present", token |-> pending.token]]
        /\ UNCHANGED <<owner, next, revoked, serial, robotVars, now, world, released, faults>>
    BY <1>4 DEF IssueToken, Settled
  <2>3. client \in [Job -> ClientType]
    BY DEF ClientType
  <2>4. [at |-> "present", token |-> pending.token] \in ClientType
    BY <2>1 DEF ClientType
  <2>5. client' \in [Job -> ClientType]
    BY <2>2, <2>3, <2>4
  <2>6. TypeOK'
    BY <2>1, <2>2, <2>5 DEF ClientType
  <2>7. Presenting'
    BY <2>1, <2>2, <2>3
  <2> QED
    BY <2>6, <2>7
<1>5. ASSUME IssueReplyLost PROVE TypeOK' /\ Presenting'
  <2>1. pending.token \in Token
    BY <1>5, PendingIs DEF IssueReplyLost, Settled
  <2>2. /\ issued' = issued \cup {pending.token} /\ pending' = NoToken /\ faults' = faults + 1
        /\ UNCHANGED <<owner, next, revoked, serial, robotVars, now, world, released, delivered,
                       client>>
    BY <1>5 DEF IssueReplyLost, Settled, Fault
  <2> QED
    BY <2>1, <2>2
<1>6. ASSUME IssueFails PROVE TypeOK' /\ Presenting'
  <2>1. pending.job \in Job
    BY <1>6, PendingIs DEF IssueFails, Settled
  <2>2. Follow(pending.job, "Internal") /\ Advice("Internal") = "give-up"
    BY <1>6, AdviceIs DEF IssueFails
  <2>3. client' \in [Job -> ClientType] /\ client'[pending.job].at = "give-up"
          /\ \A i \in Job \ {pending.job} : client'[i] = client[i]
    BY <2>1, <2>2, FollowIs
  <2>4. /\ issued' = issued /\ pending' = NoToken /\ faults' = faults + 1
        /\ UNCHANGED <<owner, next, revoked, serial, robotVars, now, world, released, delivered>>
    BY <1>6 DEF IssueFails, Settled, Fault
  <2>5. TypeOK'
    BY <2>3, <2>4 DEF ClientType
  <2>6. Presenting'
    BY <2>1, <2>3, <2>4
  <2> QED
    BY <2>5, <2>6
<1>7. ASSUME NEW r \in Robot, Revoke(r) PROVE TypeOK' /\ Presenting'
  BY <1>7 DEF Revoke, Fault
<1>8. ASSUME NEW j \in Job, AskFails(j) PROVE TypeOK' /\ Presenting'
  <2>1. Follow(j, "Internal") /\ Advice("Internal") = "give-up"
    BY <1>8, AdviceIs DEF AskFails
  <2>2. client' \in [Job -> ClientType] /\ client'[j].at = "give-up"
          /\ \A i \in Job \ {j} : client'[i] = client[i]
    BY <2>1, FollowIs
  <2>3. UNCHANGED <<coordinatorVars, delivered, robotVars, now, world, released>>
          /\ faults' \in Nat
    BY <1>8 DEF AskFails, Fault
  <2>4. TypeOK'
    BY <2>2, <2>3 DEF ClientType, coordinatorVars
  <2>5. Presenting'
    BY <2>2, <2>3
  <2> QED
    BY <2>4, <2>5
<1> QED
  BY <1>1, <1>2, <1>3, <1>4, <1>5, <1>6, <1>7, <1>8 DEF Ask, CoordinatorStep

\* and leave the robots alone
LEMMA CoordinatorRests == ASSUME CoordinatorStep PROVE KeepsRobots
BY DEF CoordinatorStep, Ask, AskFails, AskRefused, DrawToken, DrawFails, IssueToken,
  IssueReplyLost, IssueFails, Settled, Revoke, robotVars, KeepsRobots, Rests, Same

\* requests to a robot keep the types, and run only what was delivered
LEMMA RobotType ==
  ASSUME TypeOK, Presenting, RobotStep
  PROVE  TypeOK' /\ Presenting' /\ (RunsOne \/ KeepsRobots)
<1> USE DEF TypeOK, Presenting
<1>1. ASSUME NEW j \in Job, Execute(j)
      PROVE  TypeOK' /\ Presenting' /\ RunsOne
  <2>1. client[j].token \in delivered
    BY <1>1 DEF Execute, Presents
  <2>2. Ran(client[j].token) /\ RobotsType
    BY <1>1, <2>1, RunIs DEF Execute
  <2>3. client \in [Job -> ClientType] /\ client[j] \in ClientType
    BY DEF ClientType
  <2>4. client' = [client EXCEPT ![j] = [client[j] EXCEPT !.at = "done"]]
    BY <1>1 DEF Execute
  <2>5. [client[j] EXCEPT !.at = "done"] \in ClientType
          /\ [client[j] EXCEPT !.at = "done"].at = "done"
    BY <2>3 DEF ClientType
  <2>6. client' \in [Job -> ClientType] /\ client'[j].at = "done"
          /\ \A i \in Job \ {j} : client'[i] = client[i]
    BY <2>3, <2>4, <2>5
  <2>7. UNCHANGED <<coordinatorVars, delivered, worldVars>>
    BY <1>1 DEF Execute
  <2>8. TypeOK'
    BY <2>2, <2>6, <2>7 DEF ClientType, coordinatorVars, worldVars, RobotsType
  <2>9. Presenting'
    BY <2>6, <2>7
  <2> QED
    BY <2>1, <2>2, <2>7, <2>8, <2>9 DEF RunsOne
<1>2. ASSUME NEW j \in Job, ExecuteFails(j)
      PROVE  TypeOK' /\ Presenting' /\ (RunsOne \/ KeepsRobots)
  <2> DEFINE tk == client[j].token
  <2>1. tk \in delivered
    BY <1>2 DEF ExecuteFails, Presents
  <2>2. UNCHANGED <<coordinatorVars, delivered, now, world>> /\ faults' \in Nat
    BY <1>2 DEF ExecuteFails, Fault
  <2>3. Follow(j, "Internal") /\ Advice("Internal") = "give-up"
    BY <1>2, AdviceIs DEF ExecuteFails
  <2>4. client' \in [Job -> ClientType] /\ client'[j].at = "give-up"
          /\ \A i \in Job \ {j} : client'[i] = client[i]
    BY <2>3, FollowIs
  <2>5. RobotsType /\ (Ran(tk) \/ KeepsRobots)
    <3>1. CASE UNCHANGED <<robotVars, released>>
      BY <3>1 DEF robotVars, RobotsType, KeepsRobots, Rests, Same
    <3>2. CASE Runs(tk, Seen(j)) /\ (Unsaved(tk) \/ Saved(tk))
      BY <2>1, <3>2, RunIs
    <3> QED
      BY <1>2, <3>1, <3>2 DEF ExecuteFails
  <2>6. TypeOK'
    BY <2>2, <2>4, <2>5 DEF ClientType, coordinatorVars, RobotsType
  <2>7. Presenting'
    BY <2>2, <2>4
  <2> QED
    BY <2>1, <2>2, <2>5, <2>6, <2>7 DEF RunsOne
<1>3. ASSUME NEW tk \in delivered, ExecuteLate(tk)
      PROVE  TypeOK' /\ Presenting' /\ RunsOne
  <2>1. Ran(tk) /\ RobotsType
    BY <1>3, RunIs DEF ExecuteLate
  <2>2. UNCHANGED <<coordinatorVars, delivered, client, now, world>> /\ faults' \in Nat
    BY <1>3 DEF ExecuteLate, Fault
  <2> QED
    BY <2>1, <2>2 DEF coordinatorVars, RobotsType, RunsOne
<1>4. ASSUME NEW j \in Job, ExecuteRefused(j)
      PROVE  TypeOK' /\ Presenting' /\ KeepsRobots
  <2>1. PICK error \in Refusal : Follow(j, error)
    BY <1>4, VerdictIs DEF ExecuteRefused, Refusal
  <2>2. /\ client' \in [Job -> ClientType]
        /\ \A i \in Job \ {j} : client'[i] = client[i]
        /\ client'[j].at = Advice(error)
        /\ Advice(error) = "present" => client'[j].token = client[j].token
    BY <2>1, AdviceIs, FollowIs
  <2>3. client[j].token \in delivered /\ j.robot \in Robot
    BY <1>4, FleetAssumption DEF ExecuteRefused, Presents
  <2>4. /\ UNCHANGED <<coordinatorVars, delivered, state, down, now, world, released>>
        /\ faults' \in Nat /\ (Persist(j.robot) \/ saved' = saved)
    BY <1>4 DEF ExecuteRefused, Fault
  <2>5. /\ saved' \in [Robot -> RuntimeState]
        /\ saved'[j.robot] = saved[j.robot] \/ saved'[j.robot] = state'[j.robot]
        /\ \A q \in Robot \ {j.robot} : saved'[q] = saved[q]
    BY <2>3, <2>4, PersistIs
  <2>6. TypeOK'
    BY <2>2, <2>4, <2>5 DEF ClientType, coordinatorVars
  <2>7. Presenting'
    BY <2>2, <2>3, <2>4
  <2>8. KeepsRobots
    BY <2>4, <2>5 DEF KeepsRobots, Rests, Same
  <2> QED
    BY <2>6, <2>7, <2>8
<1> QED
  BY <1>1, <1>2, <1>3, <1>4 DEF RobotStep

\* what a switch of the emergency stop leaves alone
LEMMA SwitchIs ==
  ASSUME TypeOK, NEW r \in Robot, NEW active \in BOOLEAN, SetEmergencyStop(r, active)
  PROVE  /\ state' \in [Robot -> RuntimeState]
         /\ \A q \in Robot : Same(state'[q], state[q])
<1> DEFINE new == [state[r] EXCEPT !.emergency_stop = active]
<1>1. state \in [Robot -> RuntimeState] /\ state[r] \in RuntimeState
  BY DEF TypeOK
<1>2. new \in RuntimeState /\ Same(new, state[r])
  BY <1>1 DEF RuntimeState, Same
<1>3. state' = [state EXCEPT ![r] = new]
  BY DEF SetEmergencyStop
<1> HIDE DEF new
<1> QED
  BY <1>1, <1>2, <1>3 DEF Same

\* stops, restarts, the clock and the world keep the types and run nothing
LEMMA RestType ==
  ASSUME TypeOK, Presenting, RestStep
  PROVE  TypeOK' /\ Presenting' /\ KeepsRobots
<1> USE DEF TypeOK, Presenting
<1>1. ASSUME NEW r \in Robot, Stop(r) \/ ClearStop(r) \/ ClearFails(r)
      PROVE  TypeOK' /\ Presenting' /\ KeepsRobots
  <2>1. SetEmergencyStop(r, TRUE) \/ SetEmergencyStop(r, FALSE)
    BY <1>1 DEF Stop, ClearStop, ClearFails
  <2>2. state' \in [Robot -> RuntimeState] /\ \A q \in Robot : Same(state'[q], state[q])
    <3>1. CASE SetEmergencyStop(r, TRUE)
      BY <3>1, SwitchIs
    <3>2. CASE SetEmergencyStop(r, FALSE)
      BY <3>2, SwitchIs
    <3> QED
      BY <2>1, <3>1, <3>2
  <2>3. /\ UNCHANGED <<coordinatorVars, delivered, down, client, now, world, released>>
        /\ faults' \in Nat /\ (Persist(r) \/ saved' = saved)
    <3>1. CASE Stop(r)
      BY <3>1 DEF Stop, SetEmergencyStop, Fault
    <3>2. CASE ClearStop(r)
      BY <3>2 DEF ClearStop, SetEmergencyStop
    <3>3. CASE ClearFails(r)
      BY <3>3 DEF ClearFails, SetEmergencyStop, Fault
    <3> QED
      BY <1>1, <3>1, <3>2, <3>3
  <2>4. /\ saved' \in [Robot -> RuntimeState]
        /\ saved'[r] = saved[r] \/ saved'[r] = state'[r]
        /\ \A q \in Robot \ {r} : saved'[q] = saved[q]
    BY <2>2, <2>3, PersistIs
  <2>5. KeepsRobots
    BY <2>2, <2>3, <2>4 DEF KeepsRobots, Rests, Same
  <2> QED
    BY <2>2, <2>3, <2>4, <2>5 DEF coordinatorVars
<1>2. ASSUME NEW r \in Robot, RefuseStranger(r)
      PROVE  TypeOK' /\ Presenting' /\ KeepsRobots
  <2>1. UNCHANGED <<coordinatorVars, delivered, state, down, client, worldVars, released>>
          /\ Persist(r)
    BY <1>2 DEF RefuseStranger
  <2>2. /\ saved' \in [Robot -> RuntimeState]
        /\ saved'[r] = saved[r] \/ saved'[r] = state'[r]
        /\ \A q \in Robot \ {r} : saved'[q] = saved[q]
    BY <2>1, PersistIs
  <2>3. KeepsRobots
    BY <2>1, <2>2 DEF KeepsRobots, Rests, Same
  <2> QED
    BY <2>1, <2>2, <2>3 DEF coordinatorVars, worldVars
<1>3. ASSUME NEW r \in Robot, Restart(r)
      PROVE  TypeOK' /\ Presenting' /\ KeepsRobots
  <2>1. /\ UNCHANGED <<coordinatorVars, delivered, client, now, world, released>>
        /\ faults' \in Nat /\ Killed(r)
    BY <1>3 DEF Restart, Fault
  <2>2. /\ state' \in [Robot -> RuntimeState] /\ saved' = saved /\ down' \subseteq Robot
        /\ state'[r] = saved[r] /\ \A q \in Robot \ {r} : state'[q] = state[q]
    BY <2>1, KilledIs
  <2>3. KeepsRobots
    BY <2>1, <2>2 DEF KeepsRobots, Rests, Same
  <2> QED
    BY <2>1, <2>2, <2>3 DEF coordinatorVars
<1>4. ASSUME Tick \/ WorldChanges \/ UNCHANGED vars
      PROVE  TypeOK' /\ Presenting' /\ KeepsRobots
  BY <1>4 DEF Tick, WorldChanges, Fault, vars, coordinatorVars, robotVars, worldVars,
    KeepsRobots, Rests, Same
<1> QED
  BY <1>1, <1>2, <1>3, <1>4 DEF RestStep

\* every step keeps the types and the tokens that are presented
LEMMA NextType ==
  TypeOK /\ Presenting /\ [Next]_vars => TypeOK' /\ Presenting'
BY StepIs, CoordinatorType, RobotType, RestType

\* every step runs one token that was delivered, or none
LEMMA RunsStep ==
  ASSUME TypeOK, Presenting, [Next]_vars PROVE RunsOne \/ KeepsRobots
BY StepIs, CoordinatorRests, RobotType, RestType

\* The fleet keeps its types, for any robots, tasks, jobs and bounds.
THEOREM TypeCorrect == Spec => []TypeOK
BY InitType, NextType, PTL DEF Spec

-----------------------------------------------------------------------------
(***************************************************************************)
(* What every token that was drawn rests on: the owner of its task is its  *)
(* robot, and its number is below the counter and above the older ones.    *)
(***************************************************************************)
TokensBacked ==
  /\ \A tk \in issued : owner[tk.context.task] = tk.robot /\ tk.seq < next[tk.robot]
  /\ \A a, b \in issued : a.robot = b.robot /\ a.seq = b.seq => a = b
  /\ pending # NoToken =>
       /\ owner[pending.token.context.task] = pending.token.robot
       /\ pending.token.seq < next[pending.token.robot]
       /\ pending.token.robot \notin revoked
       /\ \A old \in issued : old.robot = pending.token.robot => old.seq < pending.token.seq

RunsBacked == \A i \in DOMAIN released : released[i] \in issued

SafetyInv == TypeOK /\ Presenting /\ TokensBacked /\ RunsBacked

\* what a request to the coordinator does to its books
LEMMA BooksStep ==
  ASSUME TypeOK, [Next]_vars
  PROVE  \/ UNCHANGED <<coordinatorVars, delivered>>
         \/ \E j \in Job : DrawToken(j) \/ DrawFails(j)
         \/ IssueToken \/ IssueReplyLost \/ IssueFails
         \/ \E r \in Robot : Revoke(r)
<1>1. CASE CoordinatorStep
  BY <1>1 DEF CoordinatorStep, Ask, AskFails, AskRefused
<1>2. CASE RobotStep
  BY <1>2 DEF RobotStep, Execute, ExecuteFails, ExecuteRefused, ExecuteLate
<1>3. CASE RestStep
  BY <1>3 DEF RestStep, RefuseStranger, Restart, Stop, ClearStop, ClearFails,
    SetEmergencyStop, Tick, WorldChanges, vars
<1> QED
  BY <1>1, <1>2, <1>3, StepIs

\* the parts of a token
LEMMA TokenParts ==
  \A tk \in Token : tk.robot \in Robot /\ tk.context.task \in Task /\ tk.seq \in Nat
                      /\ tk.id \in Nat
BY DEF Token

\* tokens stay backed
LEMMA BackedStep == TypeOK /\ TokensBacked /\ [Next]_vars => TokensBacked'
<1> SUFFICES ASSUME TypeOK, TokensBacked, [Next]_vars PROVE TokensBacked'
  OBVIOUS
<1>0. /\ issued \subseteq Token /\ owner \in [Task -> Robot \cup {Nobody}]
      /\ next \in [Robot -> Nat]
      /\ \A tk \in issued : tk.robot \in Robot /\ tk.context.task \in Task /\ tk.seq \in Nat
      /\ Nobody \notin Robot
      /\ pending # NoToken => pending.job \in Job /\ pending.token \in Token
  BY TokenParts, FleetAssumption, PendingIs DEF TypeOK
<1>1. CASE UNCHANGED <<coordinatorVars, delivered>>
  BY <1>1 DEF coordinatorVars, TokensBacked
<1>2. ASSUME NEW j \in Job, DrawToken(j) PROVE TokensBacked'
  <2>1. /\ j.robot \in Robot /\ j.task \in Task
        /\ j.robot \notin revoked /\ owner[j.task] \in {Nobody, j.robot}
    BY <1>2, FleetAssumption DEF DrawToken, MayIssue
  <2>2. /\ owner' = [owner EXCEPT ![j.task] = j.robot]
        /\ next' = [next EXCEPT ![j.robot] = @ + 1]
        /\ pending' = [job |-> j, token |-> TokenFor(j)]
        /\ UNCHANGED <<revoked, issued>>
    BY <1>2 DEF DrawToken
  <2>3. \A tk \in issued : owner'[tk.context.task] = tk.robot
    BY <1>0, <2>1, <2>2 DEF TokensBacked
  <2>4. \A tk \in issued : tk.seq < next'[tk.robot]
    BY <1>0, <2>1, <2>2 DEF TokensBacked
  <2>5. /\ pending'.token = TokenFor(j) /\ TokenFor(j).robot = j.robot
        /\ TokenFor(j).seq = next[j.robot] /\ TokenFor(j).context.task = j.task
    BY <2>2, TokenForIs
  <2>6. \A old \in issued : old.robot = j.robot => old.seq < next[j.robot]
    BY DEF TokensBacked
  <2>7. owner'[j.task] = j.robot /\ next[j.robot] < next'[j.robot]
    BY <1>0, <2>1, <2>2
  <2> QED
    BY <2>1, <2>2, <2>3, <2>4, <2>5, <2>6, <2>7 DEF TokensBacked
<1>3. ASSUME NEW j \in Job, DrawFails(j) PROVE TokensBacked'
  <2>1. /\ j.task \in Task /\ owner[j.task] \in {Nobody, j.robot}
        /\ owner' = [owner EXCEPT ![j.task] = j.robot]
        /\ pending = NoToken
        /\ UNCHANGED <<next, revoked, issued, pending>>
    BY <1>3, FleetAssumption DEF DrawFails, MayIssue, Asks
  <2> QED
    BY <1>0, <2>1 DEF TokensBacked
<1>4. ASSUME IssueToken \/ IssueReplyLost PROVE TokensBacked'
  <2>1. /\ pending # NoToken /\ pending' = NoToken /\ issued' = issued \cup {pending.token}
        /\ UNCHANGED <<owner, next, revoked>>
    BY <1>4 DEF IssueToken, IssueReplyLost, Settled
  <2>2. \A old \in issued : old.robot = pending.token.robot => old.seq # pending.token.seq
    BY <1>0, <2>1, TokenParts DEF TokensBacked
  <2> QED
    BY <2>1, <2>2 DEF TokensBacked
<1>5. ASSUME IssueFails PROVE TokensBacked'
  BY <1>5 DEF IssueFails, Settled, TokensBacked
<1>6. ASSUME NEW r \in Robot, Revoke(r) PROVE TokensBacked'
  BY <1>6 DEF Revoke, TokensBacked
<1> QED
  BY <1>1, <1>2, <1>3, <1>4, <1>5, <1>6, BooksStep

\* the books keep what was issued
LEMMA IssuedStays == TypeOK /\ [Next]_vars => issued \subseteq issued'
BY BooksStep DEF DrawToken, DrawFails, IssueToken, IssueReplyLost, IssueFails, Settled, Revoke,
  coordinatorVars

\* what is appended when a token runs
LEMMA ReleasedIs ==
  ASSUME TypeOK, NEW tk \in Token, released' = Append(released, tk)
  PROVE  /\ Len(released) \in Nat /\ DOMAIN released = 1..Len(released)
         /\ Len(released') = Len(released) + 1 /\ DOMAIN released' = 1..(Len(released) + 1)
         /\ \A i \in 1..Len(released) : released'[i] = released[i]
         /\ released'[Len(released) + 1] = tk
BY DEF TypeOK

\* what runs was issued
LEMMA RunsBackedStep == SafetyInv /\ [Next]_vars => RunsBacked'
<1> SUFFICES ASSUME SafetyInv, [Next]_vars PROVE RunsBacked'
  OBVIOUS
<1>0. TypeOK /\ Presenting /\ RunsBacked /\ issued \subseteq issued'
  BY IssuedStays DEF SafetyInv
<1>1. CASE RunsOne
  <2>1. PICK tk \in delivered : released' = Append(released, tk)
    BY <1>1 DEF RunsOne, Ran
  <2>2. tk \in issued /\ tk \in Token
    BY <1>0 DEF TypeOK
  <2>3. \A i \in 1..(Len(released) + 1) : i \in 1..Len(released) \/ i = Len(released) + 1
    BY <1>0, <2>1, <2>2, ReleasedIs
  <2> QED
    BY <1>0, <2>1, <2>2, <2>3, ReleasedIs DEF RunsBacked
<1>2. CASE released' = released
  BY <1>0, <1>2 DEF RunsBacked
<1> QED
  BY <1>0, <1>1, <1>2, RunsStep DEF KeepsRobots

\* the invariant holds in every behaviour of the fleet
LEMMA SafetyCorrect == Spec => []SafetyInv
<1>1. Init => SafetyInv
  <2>1. Init => TokensBacked /\ RunsBacked
    BY DEF Init, TokensBacked, RunsBacked
  <2> QED
    BY <2>1, InitType DEF SafetyInv
<1>2. SafetyInv /\ [Next]_vars => SafetyInv'
  BY NextType, BackedStep, RunsBackedStep DEF SafetyInv
<1> QED
  BY <1>1, <1>2, PTL DEF Spec

-----------------------------------------------------------------------------
\* Two robots never run one task, whatever is lost, late or repeated
\* (coordinator.rs:227-236, runtime.rs:155-200).
THEOREM TasksCorrect == Spec => []TasksRunOnOneRobot
<1>1. SafetyInv => TasksRunOnOneRobot
  BY DEF SafetyInv, TokensBacked, RunsBacked, TasksRunOnOneRobot
<1> QED
  BY <1>1, SafetyCorrect, PTL

-----------------------------------------------------------------------------
\* the clock and the counters do not go back
LEMMA Grows ==
  ASSUME TypeOK, [Next]_vars
  PROVE  now <= now' /\ \A r \in Robot : next[r] <= next'[r]
<1>1. now \in Nat /\ next \in [Robot -> Nat]
  BY DEF TypeOK
<1>2. now' = now \/ now' = now + 1
  <2>1. CASE CoordinatorStep
    BY <2>1 DEF CoordinatorStep, Ask, AskFails, AskRefused, DrawToken, DrawFails, IssueToken,
      IssueReplyLost, IssueFails, Settled, Revoke, worldVars
  <2>2. CASE RobotStep
    BY <2>2 DEF RobotStep, Execute, ExecuteFails, ExecuteRefused, ExecuteLate, worldVars
  <2>3. CASE RestStep
    BY <2>3 DEF RestStep, RefuseStranger, Restart, Stop, ClearStop, ClearFails,
      SetEmergencyStop, Tick, WorldChanges, vars, worldVars
  <2> QED
    BY <2>1, <2>2, <2>3, StepIs
<1>3. ASSUME NEW j \in Job, DrawToken(j) PROVE \A r \in Robot : next[r] <= next'[r]
  BY <1>1, <1>3 DEF DrawToken
<1>4. next' = next \/ \E j \in Job : DrawToken(j)
  BY BooksStep DEF DrawFails, IssueToken, IssueReplyLost, IssueFails, Settled, Revoke,
    coordinatorVars
<1> QED
  BY <1>1, <1>2, <1>3, <1>4

\* what may come from the coordinator in a step
LEMMA Arrives ==
  ASSUME TypeOK, [Next]_vars
  PROVE  /\ delivered' \subseteq delivered
              \cup (IF pending # NoToken THEN {pending.token} ELSE {})
         /\ \/ pending' \in {pending, NoToken}
            \/ \E r \in Robot : pending'.token.robot = r /\ pending'.token.seq = next[r]
<1>1. ASSUME NEW j \in Job, DrawToken(j)
      PROVE  /\ delivered' = delivered
             /\ pending'.token.robot = j.robot /\ pending'.token.seq = next[j.robot]
             /\ j.robot \in Robot
  BY <1>1, TokenForIs, FleetAssumption DEF DrawToken
<1> QED
  BY <1>1, BooksStep DEF DrawFails, IssueToken, IssueReplyLost, IssueFails, Settled, Revoke,
    coordinatorVars

\* a number that is lost stays lost
LEMMA LostStays ==
  ASSUME TypeOK, TypeOK', [Next]_vars, NEW r \in Robot, NEW n \in Nat, Lost(r, n)
  PROVE  Lost(r, n)'
<1>0. delivered \subseteq Token /\ delivered' \subseteq Token
        /\ next[r] \in Nat /\ next'[r] \in Nat
  BY DEF TypeOK
<1>1. /\ n < next[r]
      /\ pending = NoToken \/ pending.token.robot # r \/ pending.token.seq # n
      /\ \A tk \in delivered : tk.robot = r /\ tk.seq = n => Hopeless(tk)
  BY DEF Lost
<1>2. n < next'[r]
  BY <1>0, <1>1, Grows
<1>3. pending' = NoToken \/ pending'.token.robot # r \/ pending'.token.seq # n
  BY <1>0, <1>1, Arrives
<1>4. ASSUME NEW tk \in delivered', tk.robot = r, tk.seq = n
      PROVE  now' > tk.expires_at \/ tk.skill \notin Skills
  <2>1. tk \in delivered
    BY <1>1, <1>4, Arrives
  <2>2. Hopeless(tk)
    BY <1>1, <1>4, <2>1
  <2>3. now <= now' /\ now \in Nat /\ now' \in Nat /\ tk.expires_at \in Nat
    BY <1>0, Grows DEF TypeOK, Token
  <2> QED
    BY <2>2, <2>3 DEF Hopeless
<1> QED
  BY <1>2, <1>3, <1>4 DEF Lost, Hopeless

\* a dead end stays one, and its robot runs nothing
LEMMA DeadEndStep ==
  ASSUME SafetyInv, [Next]_vars, NEW r \in Robot, DeadEnd(r)
  PROVE  /\ DeadEnd(r)'
         /\ released' # released => released'[Len(released')].robot # r
<1>0. TypeOK /\ TypeOK' /\ Presenting /\ delivered \subseteq Token
        /\ state[r].next \in Nat /\ saved[r].next \in Nat
  BY NextType DEF SafetyInv, TypeOK, RuntimeState
<1>1. ASSUME RunsOne
      PROVE  /\ state'[r] = state[r] /\ saved'[r] = saved[r]
             /\ released'[Len(released')].robot # r
  <2>1. PICK tk \in delivered : Ran(tk)
    BY <1>1 DEF RunsOne
  <2>2. tk \in Token /\ tk.seq = state[tk.robot].next /\ ~Hopeless(tk)
          /\ released' = Append(released, tk)
    BY <1>0, <2>1 DEF Ran
  <2>3. tk.robot # r
    BY <2>2 DEF DeadEnd, Lost
  <2>4. released'[Len(released')] = tk
    BY <1>0, <2>2, ReleasedIs
  <2> QED
    BY <2>1, <2>3, <2>4 DEF Ran
<1>2. /\ state'[r].next \in {state[r].next, saved[r].next}
      /\ saved'[r].next \in {state[r].next, saved[r].next}
  BY <1>0, <1>1, RunsStep DEF KeepsRobots, Rests, Same
<1>3. \A n \in {state[r].next, saved[r].next} : Lost(r, n)'
  <2>1. ASSUME NEW n \in Nat, n \in {state[r].next, saved[r].next} PROVE Lost(r, n)'
    BY <1>0, <2>1, LostStays DEF DeadEnd
  <2> QED
    BY <1>0, <2>1
<1>4. DeadEnd(r)'
  <2>1. PICK n \in Nat, m \in Nat : n = state'[r].next /\ m = saved'[r].next
    BY <1>0 DEF TypeOK, RuntimeState
  <2>2. Lost(r, n)' /\ Lost(r, m)'
    BY <1>2, <1>3, <2>1
  <2> QED
    BY <2>1, <2>2 DEF DeadEnd, Lost
<1> QED
  BY <1>0, <1>1, <1>4, RunsStep DEF KeepsRobots

\* A gap in the numbers of a robot never heals, by failed snapshots and
\* restarts neither (runtime.rs:129-134, 190-195).
THEOREM DeadEndsCorrect == Spec => DeadEndsStay
<1>1. SafetyInv /\ [Next]_vars
        => [\A r \in Robot : DeadEnd(r) =>
              /\ DeadEnd(r)'
              /\ released' # released => released'[Len(released')].robot # r]_vars
  BY DeadEndStep
<1> QED
  BY <1>1, SafetyCorrect, PTL DEF Spec, DeadEndsStay

-----------------------------------------------------------------------------
(***************************************************************************)
(* What a robot remembers was done: the numbers below its own by tokens it *)
(* has consumed, and nothing is consumed that was not called.              *)
(***************************************************************************)
Done(r, n, id) ==
  \E a \in DOMAIN released : released[a].robot = r /\ released[a].seq = n /\ released[a].id = id

Recalls(r, s) ==
  /\ \A n \in Nat : n < s.next => \E id \in s.consumed : Done(r, n, id)
  /\ \A id \in s.consumed : \E n \in Nat : Done(r, n, id)

\* of the memory and of the disk, and the memory is not behind the disk
Remembered ==
  \A r \in Robot :
    /\ Recalls(r, state[r]) /\ Recalls(r, saved[r])
    /\ saved[r].next <= state[r].next /\ saved[r].consumed \subseteq state[r].consumed

RobotInv == TypeOK /\ Presenting /\ Remembered

\* what was done stays done
LEMMA DoneStays ==
  ASSUME TypeOK, NEW r \in Robot, NEW n \in Nat, NEW id, Done(r, n, id),
         released' = released \/ \E tk \in Token : released' = Append(released, tk)
  PROVE  Done(r, n, id)'
<1>1. CASE released' = released
  BY <1>1 DEF Done
<1>2. ASSUME NEW tk \in Token, released' = Append(released, tk) PROVE Done(r, n, id)'
  BY <1>2, ReleasedIs DEF Done
<1> QED
  BY <1>1, <1>2

LEMMA RecallsStays ==
  ASSUME TypeOK, NEW r \in Robot, NEW s, NEW t, Recalls(r, s), Same(t, s),
         released' = released \/ \E tk \in Token : released' = Append(released, tk)
  PROVE  Recalls(r, t)'
<1>1. t.next = s.next /\ t.consumed = s.consumed
  BY DEF Same
<1>2. \A n \in Nat : n < s.next => \E id \in s.consumed : Done(r, n, id)'
  BY DoneStays DEF Recalls
<1>3. \A id \in s.consumed : \E n \in Nat : Done(r, n, id)'
  BY DoneStays DEF Recalls
<1> QED
  BY <1>1, <1>2, <1>3 DEF Recalls

\* a robot remembers only what it did, and forgets no number it has on disk
LEMMA RememberedStep ==
  RobotInv /\ [Next]_vars
    => Remembered' /\ \A r \in Robot : /\ saved[r].next <= saved'[r].next
                                      /\ saved[r].consumed \subseteq saved'[r].consumed
<1> SUFFICES ASSUME RobotInv, [Next]_vars
             PROVE  Remembered' /\ \A r \in Robot :
                                     /\ saved[r].next <= saved'[r].next
                                     /\ saved[r].consumed \subseteq saved'[r].consumed
  OBVIOUS
<1>0. TypeOK /\ Presenting /\ delivered \subseteq Token
        /\ \A r \in Robot : state[r].next \in Nat /\ saved[r].next \in Nat
  BY DEF RobotInv, TypeOK, RuntimeState
<1> SUFFICES ASSUME NEW r \in Robot
             PROVE  /\ Recalls(r, state[r])' /\ Recalls(r, saved[r])'
                    /\ saved'[r].next <= state'[r].next
                    /\ saved'[r].consumed \subseteq state'[r].consumed
                    /\ saved[r].next <= saved'[r].next
                    /\ saved[r].consumed \subseteq saved'[r].consumed
  BY DEF Remembered
<1>1. PICK mem, disk, mem1, disk1 :
        mem = state[r] /\ disk = saved[r] /\ mem1 = state'[r] /\ disk1 = saved'[r]
  OBVIOUS
<1>2. /\ Recalls(r, mem) /\ Recalls(r, disk) /\ mem.next \in Nat /\ disk.next \in Nat
      /\ disk.next <= mem.next /\ disk.consumed \subseteq mem.consumed
  BY <1>0, <1>1 DEF RobotInv, Remembered
<1>3. released' = released \/ \E tk \in Token : released' = Append(released, tk)
  BY <1>0, RunsStep DEF RunsOne, Ran, KeepsRobots
<1>4. \A s, t : Recalls(r, s) /\ Same(t, s) => Recalls(r, t)'
  <2>1. ASSUME NEW s, NEW t, Recalls(r, s), Same(t, s) PROVE Recalls(r, t)'
    BY <1>0, <1>3, <2>1, RecallsStays
  <2> QED
    BY <2>1
<1>5. ASSUME \/ Same(mem1, mem) /\ (Same(disk1, disk) \/ Same(disk1, mem))
             \/ Same(mem1, disk) /\ Same(disk1, disk)
      PROVE  /\ Recalls(r, mem1)' /\ Recalls(r, disk1)'
             /\ disk1.next <= mem1.next /\ disk1.consumed \subseteq mem1.consumed
             /\ disk.next <= disk1.next /\ disk.consumed \subseteq disk1.consumed
  <2>1. Recalls(r, mem1)' /\ Recalls(r, disk1)'
    BY <1>2, <1>4, <1>5
  <2> QED
    BY <1>2, <1>5, <2>1 DEF Same
<1>6. ASSUME NEW tk \in delivered, Ran(tk), tk.robot = r,
             mem1.next = mem.next + 1, mem1.consumed = mem.consumed \cup {tk.id},
             disk1 = disk \/ disk1 = mem1
      PROVE  /\ Recalls(r, mem1)' /\ Recalls(r, disk1)'
             /\ disk1.next <= mem1.next /\ disk1.consumed \subseteq mem1.consumed
             /\ disk.next <= disk1.next /\ disk.consumed \subseteq disk1.consumed
  <2>1. Recalls(r, mem)' /\ Recalls(r, disk)'
    BY <1>2, <1>4 DEF Same
  <2>2. tk \in Token /\ tk.seq \in Nat /\ tk.seq = mem.next /\ released' = Append(released, tk)
    BY <1>0, <1>1, <1>6, TokenParts DEF Ran
  <2>3. Done(r, tk.seq, tk.id)'
    BY <1>0, <1>6, <2>2, ReleasedIs DEF Done
  <2>4. \A n \in Nat : n < mem1.next => n < mem.next \/ n = tk.seq
    BY <1>2, <1>6, <2>2
  <2>5. Recalls(r, mem1)'
    BY <1>6, <2>1, <2>2, <2>3, <2>4 DEF Recalls
  <2>6. Recalls(r, disk1)'
    BY <1>6, <2>1, <2>5
  <2> QED
    BY <1>2, <1>6, <2>5, <2>6
<1>7. /\ Recalls(r, mem1)' /\ Recalls(r, disk1)'
      /\ disk1.next <= mem1.next /\ disk1.consumed \subseteq mem1.consumed
      /\ disk.next <= disk1.next /\ disk.consumed \subseteq disk1.consumed
  <2>1. CASE KeepsRobots
    BY <1>1, <1>5, <2>1 DEF KeepsRobots, Rests
  <2>2. ASSUME NEW tk \in delivered, Ran(tk)
        PROVE \/ Same(mem1, mem) /\ Same(disk1, disk)
              \/ Same(mem1, disk) /\ Same(disk1, disk)
              \/ /\ tk.robot = r /\ mem1.next = mem.next + 1
                 /\ mem1.consumed = mem.consumed \cup {tk.id} /\ (disk1 = disk \/ disk1 = mem1)
    BY <1>1, <2>2 DEF Ran, Same
  <2> QED
    BY <1>0, <1>5, <1>6, <2>1, <2>2, RunsStep DEF RunsOne
<1>8. Recalls(r, state[r])' /\ Recalls(r, saved[r])'
  BY <1>1, <1>7 DEF Recalls, Done
<1> QED
  BY <1>1, <1>7, <1>8

\* the robots remember what they did in every behaviour of the fleet
LEMMA RobotsRemember == Spec => []RobotInv
<1>1. Init => RobotInv
  <2>1. Init => Remembered
    BY DEF Init, Remembered, Recalls
  <2> QED
    BY <2>1, InitType DEF RobotInv
<1>2. RobotInv /\ [Next]_vars => RobotInv'
  BY NextType, RememberedStep DEF RobotInv
<1> QED
  BY <1>1, <1>2, PTL DEF Spec

-----------------------------------------------------------------------------
Before(runs, b) == {a \in 1..b : runs[a].robot = runs[b].robot}

\* no number is left out below one that was run
NoneLeftOut ==
  \A b \in DOMAIN released :
    \A m \in 0..released[b].seq : \E a \in Before(released, b) : released[a].seq = m

\* each token that runs continues the numbers that its robot has run
LEMMA OrderStep == RobotInv /\ NoneLeftOut /\ [Next]_vars => NoneLeftOut'
<1> SUFFICES ASSUME RobotInv, NoneLeftOut, [Next]_vars PROVE NoneLeftOut'
  OBVIOUS
<1>0. TypeOK /\ Presenting /\ Remembered /\ delivered \subseteq Token
  BY DEF RobotInv, TypeOK
<1>1. CASE KeepsRobots
  BY <1>1 DEF KeepsRobots, NoneLeftOut, Before
<1>2. ASSUME NEW tk \in delivered, Ran(tk) PROVE NoneLeftOut'
  <2> DEFINE n == Len(released)
             q == tk.robot
  <2>1. tk \in Token /\ q \in Robot /\ tk.seq \in Nat /\ tk.seq = state[q].next
    BY <1>0, <1>2, TokenParts DEF Ran
  <2>2. /\ n \in Nat /\ DOMAIN released = 1..n /\ DOMAIN released' = 1..(n + 1)
        /\ \A i \in 1..n : released'[i] = released[i]
        /\ released'[n + 1] = tk
    BY <1>0, <1>2, <2>1, ReleasedIs DEF Ran
  <2> HIDE DEF n
  <2>3. ASSUME NEW b \in 1..n, NEW m \in 0..released'[b].seq
        PROVE  \E a \in Before(released', b) : released'[a].seq = m
    <3>1. PICK a \in Before(released, b) : released[a].seq = m
      BY <2>2, <2>3 DEF NoneLeftOut
    <3> QED
      BY <2>2, <3>1 DEF Before
  <2>4. ASSUME NEW m \in 0..tk.seq
        PROVE  \E a \in Before(released', n + 1) : released'[a].seq = m
    <3>1. CASE m = tk.seq
      BY <2>2, <3>1 DEF Before
    <3>2. CASE m < tk.seq
      <4>1. PICK r \in Robot : r = q
        BY <2>1
      <4>2. m \in Nat /\ m < state[r].next
        BY <2>1, <3>2, <4>1
      <4>3. PICK a \in 1..n : released[a].robot = r /\ released[a].seq = m
        BY <1>0, <2>2, <4>2 DEF Remembered, Recalls, Done
      <4> QED
        BY <2>2, <4>1, <4>3 DEF Before
    <3> QED
      BY <2>1, <3>1, <3>2
  <2>5. \A b \in 1..(n + 1) : b \in 1..n \/ b = n + 1
    BY <2>2
  <2> QED
    BY <2>2, <2>3, <2>4, <2>5 DEF NoneLeftOut
<1> QED
  BY <1>0, <1>1, <1>2, RunsStep DEF RunsOne

\* Each robot acts in the order of issue: no number is left out, and one is
\* only repeated with the same token, also after restarts
\* (coordinator.rs:187-208, runtime.rs:129-134, 190-195).
THEOREM OrderCorrect == Spec => []RunsInIssueOrder
<1>1. Init => NoneLeftOut
  BY DEF Init, NoneLeftOut
<1>2. SafetyInv /\ NoneLeftOut => RunsInIssueOrder
  <2> SUFFICES ASSUME SafetyInv, NoneLeftOut, NEW b \in DOMAIN released
               PROVE  /\ 0..released[b].seq \subseteq {released[a].seq : a \in Before(released, b)}
                      /\ \A a \in Before(released, b) :
                           released[a].seq = released[b].seq => released[a] = released[b]
    BY DEF RunsInIssueOrder, Before
  <2>1. Before(released, b) \subseteq DOMAIN released
    BY DEF SafetyInv, TypeOK, Before
  <2> QED
    BY <2>1 DEF NoneLeftOut, SafetyInv, RunsBacked, TokensBacked, Before
<1>3. NoneLeftOut /\ RobotInv /\ [Next]_vars => NoneLeftOut'
  BY OrderStep
<1> QED
  BY <1>1, <1>2, <1>3, SafetyCorrect, RobotsRemember, PTL DEF Spec

-----------------------------------------------------------------------------
\* what Authority knows of a token
Ticket(tk) == [id |-> tk.id, robot |-> tk.robot, task |-> tk.context.task, seq |-> tk.seq]

Tickets == {Ticket(tk) : tk \in issued}

\* a request to the node is a Commit or an Issue of Authority, or nothing
LEMMA StepRefines == SafetyInv /\ [Next]_vars => [Auth!Next]_Auth!vars
<1> SUFFICES ASSUME SafetyInv, [Next]_vars PROVE [Auth!Next]_Auth!vars
  OBVIOUS
<1>0. /\ TypeOK /\ TypeOK' /\ TokensBacked
      /\ owner \in [Task -> Robot \cup {Nobody}] /\ next \in [Robot -> Nat]
      /\ owner' \in [Task -> Robot \cup {Nobody}] /\ next' \in [Robot -> Nat]
      /\ issued \subseteq Token
  BY NextType DEF SafetyInv, TypeOK
<1>1. CASE UNCHANGED <<coordinatorVars, delivered>>
  BY <1>1 DEF coordinatorVars, Auth!vars
<1>2. ASSUME issued' = issued, revoked \subseteq revoked',
             \A k \in Task : owner[k] # Nobody => owner'[k] = owner[k]
      PROVE  Auth!Next
  <2>1. \A r \in Robot : next[r] <= next'[r]
    BY <1>0, Grows
  <2>2. Auth!Commit
    BY <1>0, <1>2, <2>1 DEF Auth!Commit
  <2> QED
    BY <2>2 DEF Auth!Next
<1>3. ASSUME NEW j \in Job, DrawToken(j) \/ DrawFails(j) PROVE Auth!Next
  <2>1. /\ owner' = [owner EXCEPT ![j.task] = j.robot] /\ owner[j.task] \in {Nobody, j.robot}
        /\ issued' = issued /\ revoked' = revoked
    BY <1>3 DEF DrawToken, DrawFails, MayIssue
  <2> QED
    BY <1>0, <1>2, <2>1
<1>4. ASSUME IssueFails \/ \E r \in Robot : Revoke(r) PROVE Auth!Next
  BY <1>2, <1>4 DEF IssueFails, Settled, Revoke
<1>5. ASSUME IssueToken \/ IssueReplyLost PROVE Auth!Next
  <2>1. /\ pending # NoToken /\ issued' = issued \cup {pending.token}
        /\ UNCHANGED <<owner, next, revoked>>
    BY <1>5 DEF IssueToken, IssueReplyLost, Settled
  <2> DEFINE tk == pending.token
  <2>t. PICK new : new = Ticket(tk)
    OBVIOUS
  <2>2. tk \in Token /\ tk.robot \in Robot /\ tk.context.task \in Task /\ tk.seq \in Nat
          /\ tk.id \in Nat
    BY <1>0, <2>1, PendingIs, TokenParts
  <2>3. /\ owner[tk.context.task] = tk.robot /\ tk.robot \notin revoked
        /\ tk.seq < next[tk.robot]
        /\ \A old \in issued : old.robot = tk.robot => old.seq < tk.seq
    BY <1>0, <2>1 DEF TokensBacked
  <2> HIDE DEF tk
  <2>4. /\ new.id = tk.id /\ new.robot = tk.robot /\ new.task = tk.context.task
        /\ new.seq = tk.seq /\ new \in Auth!Token
    BY <2>2, <2>t DEF Ticket, Auth!Token
  <2>5. \A old \in Tickets : old.robot = new.robot => old.seq < new.seq
    BY <2>3, <2>4 DEF Tickets, Ticket
  <2>6. new \notin Tickets
    BY <2>2, <2>4, <2>5
  <2>7. Tickets' = Tickets \cup {new}
    BY <2>1, <2>t DEF Tickets, tk
  <2>8. Auth!Issue(new)
    BY <2>1, <2>3, <2>4, <2>5, <2>7 DEF Auth!Issue, Tickets, Ticket
  <2>9. new \in Tickets' \ Tickets
    BY <2>6, <2>7
  <2> QED
    BY <2>8, <2>9 DEF Auth!Next, Tickets, Ticket
<1> QED
  BY <1>0, <1>1, <1>3, <1>4, <1>5, BooksStep

\* The node of the fleet is the Authority that Coordinator implements.
THEOREM Refinement == Spec => IsAuthority
<1>1. Init => Auth!Init
  BY DEF Init, Auth!Init
<1> QED
  BY <1>1, StepRefines, SafetyCorrect, PTL DEF Spec, IsAuthority, Auth!Spec

-----------------------------------------------------------------------------
(***************************************************************************)
(* The robots of the fleet implement Actuation: what the snapshot of a     *)
(* robot says was done, was done.                                          *)
(***************************************************************************)
\* the calls as Actuation sees them
Order(tk) == [id |-> tk.id, robot |-> tk.robot, seq |-> tk.seq]

CalledNow == [i \in DOMAIN released |-> Order(released[i])]

\* the snapshots of the robots are right in the sense of Actuation
SnapshotsAreRight == \A r \in Robot : Actuators!Remembers(r)

LEMMA SnapshotsRemember == RobotInv => SnapshotsAreRight
<1> SUFFICES ASSUME RobotInv, NEW r \in Robot PROVE Actuators!Remembers(r)
  BY DEF SnapshotsAreRight
<1>1. saved[r].next \in Nat /\ Recalls(r, saved[r])
  BY DEF RobotInv, Remembered, TypeOK, RuntimeState
<1>2. /\ \A n \in 0..(saved[r].next - 1) :
           \E a \in DOMAIN released :
             released[a].robot = r /\ released[a].seq = n /\ released[a].id \in saved[r].consumed
      /\ \A id \in saved[r].consumed :
           \E a \in DOMAIN released : released[a].robot = r /\ released[a].id = id
  <2>1. ASSUME NEW n \in 0..(saved[r].next - 1) PROVE n \in Nat /\ n < saved[r].next
    BY <1>1
  <2> QED
    BY <1>1, <2>1 DEF Recalls, Done
<1>3. Actuators!Calls(r) = {a \in DOMAIN released : released[a].robot = r}
  BY DEF Actuators!Calls
<1>4. /\ \A a \in DOMAIN released :
           CalledNow[a].seq = released[a].seq /\ CalledNow[a].id = released[a].id
      /\ [q \in Robot |-> saved[q].next][r] = saved[r].next
      /\ [q \in Robot |-> saved[q].consumed][r] = saved[r].consumed
  BY DEF CalledNow, Order
<1>5. /\ \A n \in 0..(saved[r].next - 1) : \E i \in Actuators!Calls(r) :
           CalledNow[i].seq = n /\ CalledNow[i].id \in saved[r].consumed
      /\ \A id \in saved[r].consumed : \E i \in Actuators!Calls(r) : CalledNow[i].id = id
  BY <1>2, <1>3, <1>4
<1>6. /\ \A n \in 0..([q \in Robot |-> saved[q].next][r] - 1) : \E i \in Actuators!Calls(r) :
           CalledNow[i].seq = n /\ CalledNow[i].id \in [q \in Robot |-> saved[q].consumed][r]
      /\ \A id \in [q \in Robot |-> saved[q].consumed][r] :
           \E i \in Actuators!Calls(r) : CalledNow[i].id = id
  BY <1>4, <1>5, Zenon
<1> QED
  BY <1>6, Zenon DEF Actuators!Remembers, CalledNow, Order

\* a token that runs is called as Actuation calls it
LEMMA RunCalls ==
  ASSUME RobotInv, NEW tk \in Token, Ran(tk)
  PROVE  Actuators!Call
<1>1. /\ TypeOK /\ Remembered /\ released \in Seq(Token)
      /\ tk.robot \in Robot /\ tk.id \in Nat /\ tk.seq \in Nat
      /\ released' = Append(released, tk) /\ tk.seq = state[tk.robot].next
      /\ ~state[tk.robot].emergency_stop /\ tk.id \notin state[tk.robot].consumed
  BY TokenParts DEF RobotInv, TypeOK, Ran
<1>2. PICK o : o = Order(tk)
  OBVIOUS
<1>3. o.id = tk.id /\ o.robot = tk.robot /\ o.seq = tk.seq /\ o \in Actuators!Order
  BY <1>1, <1>2 DEF Order, Actuators!Order
<1>4. Actuators!MayCall(o)
  <2>1. \A i \in DOMAIN released :
          CalledNow[i].robot = released[i].robot /\ CalledNow[i].seq = released[i].seq
    BY DEF CalledNow, Order
  <2>2. \A n \in 0..(tk.seq - 1) : \E i \in DOMAIN released :
          released[i].robot = tk.robot /\ released[i].seq = n
    <3>1. \A n \in Nat : n < state[tk.robot].next =>
            \E i \in DOMAIN released : released[i].robot = tk.robot /\ released[i].seq = n
      <4>1. PICK r \in Robot : r = tk.robot
        BY <1>1
      <4>2. \A n \in Nat : n < state[r].next =>
              \E i \in DOMAIN released : released[i].robot = r /\ released[i].seq = n
        BY <1>1 DEF Remembered, Recalls, Done
      <4> QED
        BY <4>1, <4>2
    <3>2. \A n \in 0..(tk.seq - 1) : n \in Nat /\ n < state[tk.robot].next
      BY <1>1
    <3> QED
      BY <3>1, <3>2, Zenon
  <2>3. \A n \in 0..(o.seq - 1) : \E i \in DOMAIN CalledNow :
          CalledNow[i].robot = o.robot /\ CalledNow[i].seq = n
    BY <1>3, <2>1, <2>2 DEF CalledNow
  <2>4. /\ o.robot \notin {r \in Robot : state[r].emergency_stop}
        /\ o.id \notin [r \in Robot |-> saved[r].consumed][o.robot]
        /\ [r \in Robot |-> saved[r].next][o.robot] <= o.seq
    <3>1. PICK r \in Robot : r = tk.robot
      BY <1>1
    <3>2. saved[r].next <= state[r].next /\ saved[r].consumed \subseteq state[r].consumed
      BY <1>1 DEF Remembered
    <3> QED
      BY <1>1, <1>3, <3>1, <3>2
  <2> QED
    BY <1>3, <2>3, <2>4 DEF Actuators!MayCall, Actuators!Calls, CalledNow, Order
<1>5. /\ Len(CalledNow') = Len(CalledNow) + 1
      /\ CalledNow'[Len(CalledNow')] = o
      /\ CalledNow' = Append(CalledNow, o)
  <2> DEFINE n == Len(released)
             old == CalledNow
             new == CalledNow'
  <2>1. /\ n \in Nat /\ DOMAIN released = 1..n /\ DOMAIN released' = 1..(n + 1)
        /\ \A i \in 1..n : released'[i] = released[i]
        /\ released'[n + 1] = tk
    BY <1>1, ReleasedIs
  <2> HIDE DEF n
  <2>2. old = [i \in 1..n |-> Order(released[i])]
    BY <2>1 DEF CalledNow
  <2>3. new = [i \in 1..(n + 1) |-> Order(released'[i])]
    BY <2>1 DEF CalledNow
  <2>4. old \in Seq(Actuators!Order)
    <3>1. ASSUME NEW i \in 1..n PROVE Order(released[i]) \in Actuators!Order
      <4>1. released[i] \in Token
        BY <1>1, <2>1
      <4>2. PICK one \in Token : one = released[i]
        BY <4>1
      <4>3. one.robot \in Robot /\ one.id \in Nat /\ one.seq \in Nat
        BY TokenParts
      <4> QED
        BY <4>2, <4>3 DEF Order, Actuators!Order
    <3> QED
      BY <2>1, <2>2, <3>1
  <2> HIDE DEF old, new
  <2>5. Len(old) = n /\ Len(new) = n + 1
    BY <2>1, <2>2, <2>3
  <2>6. new[n + 1] = o
    BY <1>2, <2>1, <2>3
  <2>7. new = Append(old, o)
    <3>1. /\ Append(old, o) \in Seq(Actuators!Order) /\ Len(Append(old, o)) = n + 1
          /\ Append(old, o)[n + 1] = o
          /\ \A i \in 1..n : Append(old, o)[i] = old[i]
      BY <1>3, <2>1, <2>4, <2>5
    <3>2. PICK seq \in Seq(Actuators!Order) : seq = Append(old, o)
      BY <3>1
    <3>3. seq = [i \in 1..(n + 1) |-> seq[i]]
      <4>1. seq = [i \in 1..Len(seq) |-> seq[i]]
        OBVIOUS
      <4>2. Len(seq) = n + 1
        BY <3>1, <3>2
      <4> QED
        BY <4>1, <4>2, Zenon
    <3>4. \A i \in 1..(n + 1) : seq[i] = Order(released'[i])
      BY <1>2, <2>1, <2>2, <3>1, <3>2
    <3> QED
      BY <2>3, <3>2, <3>3, <3>4
  <2> QED
    BY <2>5, <2>6, <2>7 DEF old, new
<1> QED
  BY <1>4, <1>5 DEF Actuators!Call, CalledNow, Order

\* the snapshots are kept or written as Actuation saves them
LEMMA StepSaves ==
  ASSUME RobotInv, RobotInv', [Next]_vars PROVE Actuators!Save
<1>1. saved' \in [Robot -> RuntimeState] /\ SnapshotsAreRight'
  <2>1. SnapshotsAreRight'
    BY SnapshotsRemember, PTL
  <2> QED
    BY <2>1 DEF RobotInv, TypeOK
<1>2. ASSUME NEW r \in Robot
      PROVE  /\ saved[r].next <= saved'[r].next /\ saved[r].consumed \subseteq saved'[r].consumed
             /\ saved'[r].next \in Nat /\ saved'[r].consumed \in SUBSET Nat
  BY <1>1, RememberedStep DEF RuntimeState
<1>3. /\ [r \in Robot |-> saved'[r].next] \in [Robot -> Nat]
      /\ [r \in Robot |-> saved'[r].consumed] \in [Robot -> SUBSET Nat]
      /\ \A r \in Robot :
           /\ [q \in Robot |-> saved[q].next][r] <= [q \in Robot |-> saved'[q].next][r]
           /\ [q \in Robot |-> saved[q].consumed][r] \subseteq [q \in Robot |-> saved'[q].consumed][r]
  BY <1>2
<1> QED
  BY <1>1, <1>3 DEF Actuators!Save, SnapshotsAreRight

\* a step of the fleet is a step of its robots
LEMMA RobotsRefine == RobotInv /\ RobotInv' /\ [Next]_vars => Actuators!Next
<1> SUFFICES ASSUME RobotInv, RobotInv', [Next]_vars PROVE Actuators!Next
  OBVIOUS
<1>1. Actuators!Save
  BY StepSaves
<1>2. {r \in Robot : state'[r].emergency_stop} \subseteq Robot
  OBVIOUS
<1>3. CASE KeepsRobots
  BY <1>1, <1>2, <1>3 DEF Actuators!Next, KeepsRobots
<1>4. CASE RunsOne
  <2>1. PICK tk \in Token : Ran(tk)
    BY <1>4 DEF RunsOne, RobotInv, TypeOK
  <2>2. Actuators!Call
    BY <2>1, RunCalls
  <2> QED
    BY <1>1, <1>2, <2>2 DEF Actuators!Next
<1> QED
  BY <1>3, <1>4, RunsStep DEF RobotInv

\* The robots of the fleet are the Actuation that RobotRuntime implements
\* (runtime.rs:66-78, 129-134, 155-200).
THEOREM RobotsCorrect == Spec => IsActuation
<1>1. Init => Actuators!Init
  <2> SUFFICES ASSUME Init PROVE Actuators!Init
    OBVIOUS
  <2>1. /\ [r \in Robot |-> saved[r].next] = [r \in Robot |-> 0]
        /\ [r \in Robot |-> saved[r].consumed] = [r \in Robot |-> {}]
        /\ {r \in Robot : state[r].emergency_stop} = {}
    BY DEF Init
  <2>2. released = << >>
    BY DEF Init
  <2> QED
    BY <2>1, <2>2 DEF Actuators!Init
<1> QED
  BY <1>1, RobotsRefine, RobotsRemember, PTL DEF Spec, IsActuation, Actuators!Spec

=============================================================================
