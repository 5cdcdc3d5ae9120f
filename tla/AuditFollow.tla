---------------------------- MODULE AuditFollow ----------------------------
(***************************************************************************)
(* spacl audit tail --follow (src/src/main.rs, tail_audit, print_audit)    *)
(* beside the process that writes the log: another process, without a      *)
(* lock, which reads the whole file again and again and prints the lines   *)
(* behind those it has seen.  The writer is AuditLog with its errors and   *)
(* kills; a read may fall between two writes of one append.                *)
(***************************************************************************)
EXTENDS AuditLog

CONSTANT Lines  \* the --lines option: how many old records are printed

ASSUME LinesAssumption == Lines \in Nat

VARIABLES follower,  \* not started, following, or ended
          first,     \* how many old records it left out
          seen,      \* how many records it has read
          printed    \* history: the records it printed

followVars == <<follower, first, seen, printed>>
allVars    == <<vars, followVars>>

FollowTypeOK ==
  /\ TypeOK
  /\ follower \in {"none", "following", "ended"}
  /\ first \in Nat
  /\ seen \in Nat
  /\ printed \in Seq(Record)

FollowInit ==
  /\ Init
  /\ follower = "none"
  /\ first = 0
  /\ seen = 0
  /\ printed = << >>

-----------------------------------------------------------------------------
\* saturating_sub
OldestShown(n) == IF n <= Lines THEN 0 ELSE n - Lines

\* AuditLog::read fails on a line that is not one record, and on a file that
\* is missing, as it is before the first append
StartTail(view) ==
  /\ follower = "none"
  /\ \/ /\ Parses(view)
        /\ first' = OldestShown(Len(Records(view)))
        /\ printed' = SubSeq(Records(view), first' + 1, Len(Records(view)))
        /\ seen' = Len(Records(view))
        /\ follower' = "following"
     \/ /\ ~Parses(view) \/ view = << >>
        /\ follower' = "ended"
        /\ UNCHANGED <<first, seen, printed>>

\* faulty variants of Poll: seen counts the lines printed in this round only;
\* lines that cannot be read are passed over in silence
PollForgets(view) ==
  /\ follower = "following"
  /\ Parses(view)
  /\ printed' = printed \o SubSeq(Records(view), seen + 1, Len(Records(view)))
  /\ seen' = Len(Records(view)) - seen
  /\ UNCHANGED <<follower, first>>

PollPatiently(view) ==
  /\ follower = "following"
  /\ Parses(view)
  /\ printed' = printed \o SubSeq(Records(view), seen + 1, Len(Records(view)))
  /\ seen' = Len(Records(view))
  /\ UNCHANGED <<follower, first>>

\* one tick of the interval: an error of print_audit ends the command
Poll(view) ==
  /\ follower = "following"
  /\ \/ /\ Parses(view)
        /\ printed' = printed \o SubSeq(Records(view), seen + 1, Len(Records(view)))
        /\ seen' = Len(Records(view))
        /\ UNCHANGED <<follower, first>>
     \/ /\ ~Parses(view)
        /\ follower' = "ended"
        /\ UNCHANGED <<first, seen, printed>>

\* ctrl-c
QuitTail ==
  /\ follower = "following"
  /\ follower' = "ended"
  /\ UNCHANGED <<first, seen, printed>>

-----------------------------------------------------------------------------
(***************************************************************************)
(* The writes of an append are one step of AuditLog.  A read that falls    *)
(* into it sees the file after a part of them: a torn text, or the whole   *)
(* text without its newline.                                               *)
(***************************************************************************)
AnyAppend(e) == AppendRecord(e) \/ AppendFails(e) \/ KilledInAppend(e)

SeenInside(e) == {file \o Written(e, cut) : cut \in {"write", "newline"}}

TailAtRest ==
  /\ StartTail(file) \/ Poll(file)
  /\ UNCHANGED vars

TailInsideAppend(e) ==
  /\ AnyAppend(e)
  /\ Len(file') > Len(file) /\ file'[Len(file) + 1] = NextRecord(e)
  /\ \E view \in SeenInside(e) : StartTail(view) \/ Poll(view)

FollowNext ==
  \/ Next /\ UNCHANGED followVars
  \/ QuitTail /\ UNCHANGED vars
  \/ TailAtRest
  \/ \E e \in Event : TailInsideAppend(e)

\* the interval of the follower keeps ticking
PollAtRest == Poll(file) /\ UNCHANGED vars

FollowSpec == FollowInit /\ [][FollowNext]_allVars /\ WF_allVars(PollAtRest)

-----------------------------------------------------------------------------
(***************************************************************************)
(* What tail printed is a stretch of the records in the file, none left    *)
(* out and none printed twice, although reads fall inside appends and the  *)
(* file may be damaged, or its writer restarted, between two reads         *)
(* (main.rs:863-869, 891-910): the part it has read is still there, a      *)
(* record on every line, and it printed the lines of that part behind the  *)
(* first ones.                                                             *)
(***************************************************************************)
PrintsEachOnce ==
  /\ \A i \in 1..(2 * seen - 1) :
       i \in DOMAIN file /\ file[i].kind = IF i % 2 = 1 THEN "record" ELSE "newline"
  /\ first <= seen
  /\ printed = [i \in 1..(seen - first) |-> file[2 * (first + i) - 1]]

\* the records that reached the file as a whole text, in their order
Texts == SelectSeq(file, LAMBDA p : p.kind = "record")

(***************************************************************************)
(* A record that reached the file is printed or was among the old ones     *)
(* left out, unless the command ends; and it ends, instead of following in *)
(* silence, when the log becomes unreadable (main.rs:903-908).             *)
(***************************************************************************)
FollowsOrEnds ==
  \A n \in 1..(MaxPieces + 2) :
    (follower = "following" /\ n <= Len(Texts))
      ~> (n <= seen \/ follower = "ended")
=============================================================================
