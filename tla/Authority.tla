----------------------------- MODULE Authority -----------------------------
(***************************************************************************)
(* What the fleet relies on from the coordination node, whatever crashes,  *)
(* lost replies and I/O errors it goes through: one durable owner for each *)
(* task, one durable sequence counter and one durable revocation flag for  *)
(* each robot, and tokens that are only handed out under them.             *)
(*                                                                         *)
(* A Commit is one snapshot reaching the disk.  A snapshot may carry the   *)
(* work of several requests, because a request whose own snapshot failed   *)
(* leaves its changes in memory for the next one.                          *)
(***************************************************************************)
EXTENDS Integers, TLAPS

CONSTANTS Robot, Task, Nobody

VARIABLES owner,    \* the robot that owns each task, or Nobody
          next,     \* the next sequence number of each robot
          revoked,  \* the robots that are revoked
          issued    \* the tokens handed out

vars == <<owner, next, revoked, issued>>

Token == [id : Nat, robot : Robot, task : Task, seq : Nat]

Init ==
  /\ owner = [k \in Task |-> Nobody]
  /\ next = [r \in Robot |-> 0]
  /\ revoked = {}
  /\ issued = {}

\* ownership never moves, counters never go back, revocation is for ever
Commit ==
  /\ owner' \in [Task -> Robot \cup {Nobody}]
  /\ \A k \in Task : owner[k] # Nobody => owner'[k] = owner[k]
  /\ next' \in [Robot -> Nat]
  /\ \A r \in Robot : next[r] <= next'[r]
  /\ revoked \subseteq revoked'
  /\ UNCHANGED issued

Issue(tk) ==
  /\ tk \in Token
  /\ owner[tk.task] = tk.robot
  /\ tk.robot \notin revoked
  /\ tk.seq < next[tk.robot]
  /\ \A old \in issued : old.robot = tk.robot => old.seq < tk.seq
  /\ issued' = issued \cup {tk}
  /\ UNCHANGED <<owner, next, revoked>>

Next == Commit \/ \E tk \in issued' \ issued : Issue(tk)

Spec == Init /\ [][Next]_vars

-----------------------------------------------------------------------------
(***************************************************************************)
(* Two tokens for one task are for one robot (threat-model.md:64).         *)
(***************************************************************************)
OneOwner ==
  \A a, b \in issued : a.task = b.task => a.robot = b.robot

(***************************************************************************)
(* No sequence number of a robot is on two tokens: the runtime, which      *)
(* accepts each number once, can execute every token it is given.          *)
(***************************************************************************)
OneTokenPerNumber ==
  \A a, b \in issued : a.robot = b.robot /\ a.seq = b.seq => a = b

(***************************************************************************)
(* What makes both inductive: a token is handed out under a task owner and *)
(* a counter that are already durable.                                     *)
(***************************************************************************)
Inv ==
  /\ owner \in [Task -> Robot \cup {Nobody}]
  /\ next \in [Robot -> Nat]
  /\ issued \subseteq Token
  /\ \A tk \in issued : owner[tk.task] = tk.robot
  /\ OneTokenPerNumber

\* the invariant holds at the start
LEMMA InitInv == Init => Inv
BY DEF Init, Inv, OneTokenPerNumber

(***************************************************************************)
(* Owners never move and counters never go back, so the tokens that were   *)
(* issued stay covered; a new token continues the numbers of its robot.    *)
(***************************************************************************)
LEMMA NextInv == Nobody \notin Robot /\ Inv /\ [Next]_vars => Inv'
<1> SUFFICES ASSUME Nobody \notin Robot, Inv, [Next]_vars PROVE Inv'
  OBVIOUS
<1>1. CASE Commit
  <2>1. \A tk \in issued : owner'[tk.task] = tk.robot
    BY <1>1 DEF Commit, Inv, Token
  <2> QED
    BY <1>1, <2>1 DEF Commit, Inv, OneTokenPerNumber
<1>2. ASSUME NEW tk \in issued', Issue(tk)
      PROVE  Inv'
  <2>1. \A a \in issued : a.robot = tk.robot => a.seq # tk.seq
    BY <1>2 DEF Issue, Inv, Token
  <2> QED
    BY <1>2, <2>1 DEF Issue, Inv, OneTokenPerNumber, Token
<1>3. CASE UNCHANGED vars
  BY <1>3 DEF vars, Inv, OneTokenPerNumber
<1> QED
  BY <1>1, <1>2, <1>3 DEF Next

(***************************************************************************)
(* The authority never issues tokens of one task to two robots, nor two    *)
(* tokens under one number of a robot.                                     *)
(***************************************************************************)
THEOREM TokensAreSafe ==
  ASSUME Nobody \notin Robot
  PROVE  Spec => [](OneOwner /\ OneTokenPerNumber)
<1>1. Inv => OneOwner /\ OneTokenPerNumber
  BY DEF Inv, OneOwner
<1>2. Inv /\ [Next]_vars => Inv'
  BY NextInv
<1> QED
  BY <1>1, <1>2, InitInv, PTL DEF Spec
=============================================================================
