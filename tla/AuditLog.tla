------------------------------ MODULE AuditLog ------------------------------
(***************************************************************************)
(* One process that appends to an audit file and may meet I/O errors, be   *)
(* killed inside an append, and be started again over the file it left     *)
(* (src/src/audit.rs, AuditLog::{open_verified, append}).                  *)
(***************************************************************************)
EXTENDS AuditFile

CONSTANTS IoFaults,    \* cut points at which an append may fail with an error
          KillPoints,  \* cut points at which the process may be killed
          MaxPieces    \* bound on the file: no append starts at or above it

ASSUME FaultAssumption == /\ IoFaults \subseteq CutPoint
                          /\ KillPoints \subseteq CutPoint

VARIABLES up,     \* is a process holding the log open?
          acked   \* the records that append returned to its callers

vars == <<file, last, up, acked>>

TypeOK ==
  /\ file \in Seq(Piece)
  /\ last \in Cursor
  /\ up \in BOOLEAN
  /\ acked \subseteq Record

Init ==
  /\ file = << >>
  /\ last = NoTip
  /\ up = FALSE
  /\ acked = {}

-----------------------------------------------------------------------------
OpenVerified ==
  /\ ~up
  /\ Opened
  /\ up' = TRUE
  /\ UNCHANGED acked

Room == Len(file) < MaxPieces

AppendRecord(e) ==
  /\ up
  /\ Room
  /\ Appended(e)
  /\ acked' = acked \cup {NextRecord(e)}
  /\ UNCHANGED up

AppendFails(e) ==
  /\ up
  /\ Room
  /\ \E at \in IoFaults : AppendCut(e, at)
  /\ UNCHANGED <<up, acked>>

KilledInAppend(e) ==
  /\ up
  /\ Room
  /\ \E at \in KillPoints : file' = file \o Written(e, at)
  /\ last' = NoTip
  /\ up' = FALSE
  /\ UNCHANGED acked

Stop ==
  /\ up
  /\ up' = FALSE
  /\ last' = NoTip
  /\ UNCHANGED <<file, acked>>

Next ==
  \/ OpenVerified
  \/ Stop
  \/ \E e \in Event : AppendRecord(e) \/ AppendFails(e) \/ KilledInAppend(e)

Spec == Init /\ [][Next]_vars

-----------------------------------------------------------------------------
(***************************************************************************)
(* A log that is verified when it is opened (audit.rs:79-85) stays         *)
(* verifiable while its process runs, and the cursor in memory is the tip  *)
(* of the file, so the next record links to the last one.  It needs        *)
(* appends that are all or nothing: a record cut in two, a record without  *)
(* its newline or one whose sync_data failed each break it.                *)
(***************************************************************************)
CursorIsTip == up => Verifies(file) /\ last = Tip(file)

(***************************************************************************)
(* Whatever the faults, a log that verifies holds every record whose       *)
(* append was acknowledged (audit.rs:104-113): an auditor is never shown a *)
(* clean chain from which an acknowledged record is missing.               *)
(***************************************************************************)
VerifiedIsComplete ==
  Verifies(file) =>
    \A r \in acked : \E i \in DOMAIN Records(file) : Records(file)[i] = r

(***************************************************************************)
(* Damage is permanent: no later append, error or restart makes a damaged  *)
(* log verify again, so open_verified keeps refusing it (audit.rs:79-85).  *)
(***************************************************************************)
DamageIsPermanent == [][~Verifies(file) => ~Verifies(file')]_vars

(***************************************************************************)
(* docs/architecture.md:47: the node "writes audit records to JSON Lines   *)
(* and calls sync_data after each record": a process that opened its log   *)
(* and met no I/O error has a log whose every line is one record.          *)
(***************************************************************************)
LinesAreRecords == up => Parses(file)
=============================================================================
