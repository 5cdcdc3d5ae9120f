--------------------------- MODULE ExecutionGate ---------------------------
(***************************************************************************)
(* The gates a token passes before a robot runtime calls the skill adapter *)
(* (src/src/runtime.rs, RobotRuntime::{verify, check_policy}), as a        *)
(* function from a token, the context it is presented with, the runtime's  *)
(* state and the clock to the error the runtime returns, or "Ok".          *)
(*                                                                         *)
(* A signature that verifies under the pinned coordinator identity is the  *)
(* field "signed"; the digest of a context is the context itself.  Times   *)
(* are in seconds.  NoLimit is a None among the optional numbers.          *)
(***************************************************************************)
EXTENDS Integers, Sequences, FiniteSets

CONSTANTS Self,         \* robot_id of this runtime
          Coordinator,  \* key id of the pinned coordinator identity
          NoLimit

ClockSkew == 5

\* both signatures verify under the identity that the runtime pins
SignatureHolds(tk) == tk.issuer = Coordinator /\ tk.signed

\* an empty list of allowed values allows every value
Allows(values, v) == values = {} \/ v \in values

\* a requested number is checked when both it and its maximum are given
Within(requested, maximum) ==
  requested # NoLimit /\ maximum # NoLimit => requested \in 0..maximum

Approvers(tk) == {tk.approvals[i] : i \in DOMAIN tk.approvals}

PolicyAllows(tk, context) ==
  /\ Allows(tk.allowed_skills, tk.skill)
  /\ Allows(tk.allowed_zones, context.zone)
  /\ Within(tk.speed, tk.max_speed)
  /\ Within(tk.force, tk.max_force)
  /\ tk.risk = "high" => Cardinality(Approvers(tk)) >= 2

\* the gates in the order of the code, by the error of each
Gates == <<"EmergencyStop", "Schema", "WrongRobot", "InvalidSignature", "Expired",
           "Replay", "Sequence", "Context", "Policy">>

\* faulty variant of Opens: a later number is accepted too
OpensSkip(gate, tk, context, s, now) ==
  CASE gate = "EmergencyStop"    -> ~s.emergency_stop
    [] gate = "Schema"           -> tk.schema = "spacl.action-token.v1"
    [] gate = "WrongRobot"       -> tk.robot = Self
    [] gate = "InvalidSignature" -> SignatureHolds(tk)
    [] gate = "Expired"          -> tk.issued_at <= now + ClockSkew /\ now <= tk.expires_at
    [] gate = "Replay"           -> tk.id \notin s.consumed
    [] gate = "Sequence"         -> tk.seq >= s.next
    [] gate = "Context"          -> tk.context = context
    [] gate = "Policy"           -> PolicyAllows(tk, context)

Opens(gate, tk, context, s, now) ==
  CASE gate = "EmergencyStop"    -> ~s.emergency_stop
    [] gate = "Schema"           -> tk.schema = "spacl.action-token.v1"
    [] gate = "WrongRobot"       -> tk.robot = Self
    [] gate = "InvalidSignature" -> SignatureHolds(tk)
    [] gate = "Expired"          -> tk.issued_at <= now + ClockSkew /\ now <= tk.expires_at
    [] gate = "Replay"           -> tk.id \notin s.consumed
    [] gate = "Sequence"         -> tk.seq = s.next
    [] gate = "Context"          -> tk.context = context
    [] gate = "Policy"           -> PolicyAllows(tk, context)

Verify(tk, context, s, now) ==
  LET IsOpen(i) == Opens(Gates[i], tk, context, s, now)
  IN  IF \A i \in 1..9 : IsOpen(i)
      THEN "Ok"
      ELSE Gates[CHOOSE i \in 1..9 : ~IsOpen(i) /\ \A j \in 1..(i - 1) : IsOpen(j)]

\* the skills the simulator knows
KnownSkill == {"move", "pick", "place", "wait"}
=============================================================================
