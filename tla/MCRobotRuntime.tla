--------------------------- MODULE MCRobotRuntime ---------------------------
(***************************************************************************)
(* Model-checking instances of RobotRuntime.                               *)
(***************************************************************************)
EXTENDS RobotRuntime

Here == [task |-> "task-1", zone |-> "dock", world |-> "w1"]

MCHere == {Here}

MCToken(id, seq, skill, expires) ==
  [id |-> id, schema |-> "spacl.action-token.v1", robot |-> Self,
   issuer |-> Coordinator, signed |-> TRUE, issued_at |-> 0,
   expires_at |-> expires, seq |-> seq, context |-> Here, skill |-> skill,
   allowed_skills |-> {}, allowed_zones |-> {"dock"},
   speed |-> 1, max_speed |-> 1, force |-> NoLimit, max_force |-> 0,
   risk |-> "normal", approvals |-> << >>]

\* consecutive tokens of the robot, both valid for the whole run
MCInOrder == {MCToken("a", 0, "move", 9), MCToken("b", 1, "pick", 9)}

\* a token that expires, and two for the next number, one of them with a
\* skill that the simulator cannot run
MCMixed == {MCToken("a", 0, "move", 0), MCToken("b", 1, "pick", 9),
            MCToken("c", 1, "fly", 9)}
=============================================================================
