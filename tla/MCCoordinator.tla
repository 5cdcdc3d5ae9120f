--------------------------- MODULE MCCoordinator ---------------------------
(***************************************************************************)
(* Model-checking instances of Coordinator: two robots that contend for    *)
(* the same tasks.                                                         *)
(***************************************************************************)
EXTENDS Coordinator

CONSTANTS r1, r2, t1

\* one well-formed registration for each robot, one with a foreign subject
\* and one with a malformed identity
MCRegistration ==
  {[robot |-> r, subject |-> r, valid |-> TRUE] : r \in Robot}
    \cup {[robot |-> r1, subject |-> r2, valid |-> TRUE],
          [robot |-> r2, subject |-> r2, valid |-> FALSE]}

Ask(r, k, ttl, risk, approvals) ==
  [robot |-> r, task |-> k, ttl |-> ttl, risk |-> risk, approvals |-> approvals]

\* the shortest and the longest admissible lifetime, and their neighbours;
\* two approvals of one operator, and of two
MCPlainRequest ==
  {Ask(r, k, 1, "normal", << >>) : r \in Robot, k \in Task}

MCRequest ==
  MCPlainRequest
    \cup {Ask(r1, t1, ttl, "normal", << >>) : ttl \in {0, 300, 301}}
    \cup {Ask(r1, t1, 30, "high", <<"alice", op>>) : op \in {"alice", "bob"}}
=============================================================================
