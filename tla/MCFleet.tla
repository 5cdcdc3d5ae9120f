------------------------------ MODULE MCFleet ------------------------------
(***************************************************************************)
(* Model-checking instances of Fleet.                                      *)
(***************************************************************************)
EXTENDS Fleet

CONSTANTS r1, r2, t1

Wants(r, skill) == [robot |-> r, task |-> t1, skill |-> skill]

\* three jobs of r1, one with a skill that the simulator does not know, and one
\* of r2 that contends for the task
MCJobs == {Wants(r1, "move"), Wants(r1, "pick"), Wants(r1, "fly"), Wants(r2, "move")}

\* a single job
MCOneJob == {Wants(r1, "move")}
=============================================================================
