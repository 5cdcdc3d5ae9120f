----------------------------- MODULE Actuation -----------------------------
(***************************************************************************)
(* What the fleet relies on from the robot runtimes, whatever crashes,     *)
(* failed writes and repeated requests they go through: each robot has a   *)
(* durable next number and durable consumed tokens, and its skill adapter  *)
(* is called under them, in the order of the numbers, and never while an   *)
(* acknowledged stop is in force.                                          *)
(*                                                                         *)
(* A call and the snapshot that remembers it are two steps, and a kill     *)
(* between them takes the call back from the snapshot, not from the world: *)
(* the same number may be called again.  A snapshot may remember several   *)
(* calls, because one that failed leaves its changes in memory.            *)
(***************************************************************************)
EXTENDS Integers, Sequences

CONSTANTS Robot, Id

VARIABLES next,     \* the durable next number of each robot
          spent,    \* the durable consumed tokens of each robot
          stopped,  \* the robots whose acknowledged stop is in force
          called    \* the calls of the skill adapters, in their order

vars == <<next, spent, stopped, called>>

\* what a call is about: one token
Order == [id : Id, robot : Robot, seq : Nat]

Init ==
  /\ next = [r \in Robot |-> 0]
  /\ spent = [r \in Robot |-> {}]
  /\ stopped = {}
  /\ called = << >>

-----------------------------------------------------------------------------
Calls(r) == {i \in DOMAIN called : called[i].robot = r}

\* the snapshot of r is right: below its number every call was made and is
\* remembered, and what it remembers was called
Remembers(r) ==
  /\ \A n \in 0..(next[r] - 1) :
       \E i \in Calls(r) : called[i].seq = n /\ called[i].id \in spent[r]
  /\ \A id \in spent[r] : \E i \in Calls(r) : called[i].id = id

\* no number is left out, none that is settled is called again
MayCall(tk) ==
  /\ tk \in Order
  /\ tk.robot \notin stopped
  /\ tk.id \notin spent[tk.robot]
  /\ next[tk.robot] <= tk.seq
  /\ \A n \in 0..(tk.seq - 1) : \E i \in Calls(tk.robot) : called[i].seq = n

Call ==
  /\ Len(called') = Len(called) + 1
  /\ MayCall(called'[Len(called')])
  /\ called' = Append(called, called'[Len(called')])

\* snapshots reach the disk; numbers and consumed tokens are kept
Save ==
  /\ next' \in [Robot -> Nat] /\ spent' \in [Robot -> SUBSET Id]
  /\ \A r \in Robot : next[r] <= next'[r] /\ spent[r] \subseteq spent'[r]
  /\ (\A r \in Robot : Remembers(r))'

\* stops are acknowledged and cleared meanwhile; a call looks at the stop first
Next ==
  /\ Call \/ UNCHANGED called
  /\ Save \/ UNCHANGED <<next, spent>>
  /\ stopped' \subseteq Robot

Spec == Init /\ [][Next]_vars
=============================================================================
