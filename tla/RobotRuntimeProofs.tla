------------------------- MODULE RobotRuntimeProofs -------------------------
(***************************************************************************)
(* Proofs about RobotRuntime, for any tokens, contexts, clock and faults.  *)
(*                                                                         *)
(* The argument: what the snapshot holds the memory holds (MemoryAhead),   *)
(* so a token that passed the gates of the memory is not consumed on disk; *)
(* and what was promised to a client, a receipt or a stop, was on disk     *)
(* before the reply (ReceiptsSaved, StopSaved).  That disk and memory      *)
(* remember only calls that were made (CallInv) gives the refinement.      *)
(***************************************************************************)
EXTENDS RobotRuntime, FiniteSetTheorems, TLAPS

LogP == INSTANCE AuditFileProofs WITH
          Event <- RuntimeEvent, Signer <- Self, Trusted <- {Self}

-----------------------------------------------------------------------------
(***************************************************************************)
(* One of the closed gates is the first.                                   *)
(***************************************************************************)
LEMMA LeastNumber ==
  ASSUME NEW S \in SUBSET (1..9), S # {}
  PROVE  \E i \in S : \A j \in S : i <= j
<1> SUFFICES ASSUME \A i \in S : \E j \in S : j < i PROVE FALSE
  OBVIOUS
<1>1. 1 \notin S /\ 2 \notin S /\ 3 \notin S
  OBVIOUS
<1>2. 4 \notin S /\ 5 \notin S /\ 6 \notin S
  BY <1>1
<1>3. 7 \notin S /\ 8 \notin S /\ 9 \notin S
  BY <1>1, <1>2
<1>4. PICK i \in S : TRUE
  OBVIOUS
<1> QED
  BY <1>1, <1>2, <1>3, <1>4

(***************************************************************************)
(* Verify names the first closed gate.                                     *)
(***************************************************************************)
LEMMA LeastClosed ==
  ASSUME NEW tk, NEW context, NEW s
  PROVE  \/ /\ \A i \in 1..9 : Opens(Gates[i], tk, context, s, now)
            /\ Verify(tk, context, s, now) = "Ok"
         \/ \E i \in 1..9 : /\ ~Opens(Gates[i], tk, context, s, now)
                            /\ Verify(tk, context, s, now) = Gates[i]
                            /\ Gates[i] # "Ok"
<1> DEFINE IsOpen(i) == Opens(Gates[i], tk, context, s, now)
           first     == CHOOSE i \in 1..9 : ~IsOpen(i) /\ \A j \in 1..(i - 1) : IsOpen(j)
<1>1. CASE \A i \in 1..9 : IsOpen(i)
  BY <1>1 DEF Verify
<1>2. CASE \E i \in 1..9 : ~IsOpen(i)
  <2> DEFINE closed == {i \in 1..9 : ~IsOpen(i)}
  <2>1. closed \in SUBSET (1..9) /\ closed # {}
    BY <1>2
  <2> HIDE DEF closed
  <2>2. PICK k \in closed : \A j \in closed : k <= j
    BY <2>1, LeastNumber
  <2>3. k \in 1..9 /\ ~IsOpen(k)
    BY <2>2 DEF closed
  <2>4. ASSUME NEW j \in 1..(k - 1) PROVE IsOpen(j)
    BY <2>2, <2>3 DEF closed
  <2>5. first \in 1..9 /\ ~IsOpen(first)
    <3> HIDE DEF IsOpen
    <3> QED
      BY <2>3, <2>4
  <2>6. Verify(tk, context, s, now) = Gates[first]
    BY <1>2 DEF Verify
  <2>7. \A i \in 1..9 : Gates[i] # "Ok"
    BY DEF Gates
  <2> HIDE DEF first
  <2> QED
    BY <2>5, <2>6, <2>7
<1> QED
  BY <1>1, <1>2

(***************************************************************************)
(* A token that Verify lets pass found every gate open.                    *)
(***************************************************************************)
LEMMA GatesOpen ==
  ASSUME NEW tk, NEW context, NEW s, Verify(tk, context, s, now) = "Ok"
  PROVE  /\ ~s.emergency_stop
         /\ tk.robot = Self
         /\ tk.id \notin s.consumed
         /\ tk.seq = s.next
<1>1. \A i \in 1..9 : Opens(Gates[i], tk, context, s, now)
  BY LeastClosed
<1>2. Gates[1] = "EmergencyStop" /\ Gates[3] = "WrongRobot" /\ Gates[6] = "Replay" /\ Gates[7] = "Sequence"
  BY DEF Gates
<1>3. /\ Opens("EmergencyStop", tk, context, s, now)
      /\ Opens("WrongRobot", tk, context, s, now)
      /\ Opens("Replay", tk, context, s, now)
      /\ Opens("Sequence", tk, context, s, now)
  BY <1>1, <1>2
<1> QED
  BY <1>3 DEF Opens

-----------------------------------------------------------------------------
(***************************************************************************)
(* The facts about audit files that are needed here, for this log.         *)
(***************************************************************************)
LEMMA SameLog ==
  /\ LogP!Piece = Log!Piece /\ LogP!Cursor = Log!Cursor
  /\ LogP!CutPoint = Log!CutPoint
BY DEF LogP!Piece, Log!Piece, LogP!Cursor, Log!Cursor, LogP!CutPoint, Log!CutPoint,
       LogP!Record, Log!Record, LogP!Body, Log!Body, LogP!Hash, Log!Hash,
       LogP!Signature, Log!Signature

\* what an append that was cut short adds to the file is a sequence of pieces
LEMMA WrittenType ==
  ASSUME last \in Log!Cursor, NEW e \in RuntimeEvent, NEW cut \in Log!CutPoint
  PROVE  Log!Written(e, cut) \in Seq(Log!Piece)
<1>1. LogP!Written(e, cut) = Log!Written(e, cut)
  BY DEF LogP!Written, Log!Written, LogP!NextRecord, Log!NextRecord,
         LogP!NextBody, Log!NextBody, LogP!Sha256, Log!Sha256, LogP!Sign, Log!Sign,
         LogP!Torn, Log!Torn, LogP!NewLine, Log!NewLine
<1> QED
  BY <1>1, SameLog, LogP!WrittenType

\* the cursor after an append is a cursor
LEMMA CursorAfterAppend ==
  ASSUME last \in Log!Cursor, NEW e \in RuntimeEvent, Log!Appended(e)
  PROVE  last' \in Log!Cursor
<1>1. [index |-> LogP!NextBody(e).index, hash |-> LogP!Sha256(LogP!NextBody(e))]
        \in LogP!Cursor
  BY SameLog, LogP!NextRecordType
<1>2. LogP!NextBody(e) = Log!NextBody(e)
  BY DEF LogP!NextBody, Log!NextBody
<1>3. LogP!Sha256(LogP!NextBody(e)) = Log!Sha256(Log!NextBody(e))
  BY <1>2 DEF LogP!Sha256, Log!Sha256
<1> QED
  BY <1>1, <1>2, <1>3, SameLog DEF Log!Appended

\* the cursor after an open is a cursor
LEMMA CursorAfterOpen ==
  ASSUME file \in Seq(Log!Piece), Log!Opened
  PROVE  last' \in Log!Cursor
<1>1. LogP!Parses(file)
  BY DEF Log!Opened, Log!Verifies, Log!Parses, LogP!Parses
<1>2. LogP!Tip(file) \in LogP!Cursor
  BY <1>1, SameLog, LogP!TipType
<1>3. LogP!Tip(file) = Log!Tip(file)
  BY DEF LogP!Tip, Log!Tip, LogP!NoTip, Log!NoTip, LogP!Genesis, Log!Genesis,
         LogP!Records, Log!Records
<1> QED
  BY <1>2, <1>3, SameLog DEF Log!Opened

\* the cursor of an empty log is a cursor
LEMMA NoTipType == Log!NoTip \in Log!Cursor
BY DEF Log!NoTip, Log!Cursor, Log!Genesis, Log!Hash

(***************************************************************************)
(* How a step changes the file: not at all, or by what an append of the    *)
(* pending event writes.                                                   *)
(***************************************************************************)
LEMMA FileStep ==
  ASSUME [Next]_vars
  PROVE  \/ file' = file
         \/ /\ at \in {"started", "audit"}
            /\ \E cut \in Log!CutPoint : file' = file \o Log!Written(event, cut)
<1> USE RuntimeAssumption DEF replyVars, requestVars
<1>1. CASE StartedLogged \/ AuditThenReply
  <2>1. "sync" \in Log!CutPoint
    BY DEF Log!CutPoint
  <2> QED
    BY <1>1, <2>1 DEF StartedLogged, AuditThenReply, Log!Appended
<1>2. CASE StartedFails \/ AuditFails
  BY <1>2 DEF StartedFails, AuditFails, Log!AppendCut
<1>3. CASE Crash
  BY <1>3 DEF Crash
<1>4. CASE Open
  BY <1>4 DEF Open, Log!Opened
<1>5. CASE UNCHANGED vars
  BY <1>5 DEF vars
<1> QED
  BY <1>1, <1>2, <1>3, <1>4, <1>5
     DEF Next, ExecutePasses, ExecuteRefused, RunSkill, UnknownSkill,
         SetEmergencyStop, Persist, PersistFails, Tick

-----------------------------------------------------------------------------
(***************************************************************************)
(* Type correctness.                                                       *)
(***************************************************************************)
Pending == at \in {"persist", "audit"}

\* a request that writes, or will write, has an event to log
HasEvent ==
  /\ Pending => event \in RuntimeEvent /\ event.kind # "execution.started"
  /\ at = "started" => event = [kind |-> "execution.started", id |-> token.id]

\* a request that executes a token, or refused one, has it
HasToken ==
  /\ at \in {"started", "skill"} => token \in Tokens
  /\ Pending /\ event.kind \in {"execution.completed", "execution.rejected"}
       => token \in Tokens

\* the events that the handlers append are events of the log
LEMMA EventTypes ==
  /\ \A id \in TokenId : [kind |-> "execution.started", id |-> id] \in RuntimeEvent
  /\ \A id \in TokenId : [kind |-> "execution.completed", id |-> id] \in RuntimeEvent
  /\ \A id \in TokenId, why \in Refusal :
       [kind |-> "execution.rejected", id |-> id, reason |-> why] \in RuntimeEvent
  /\ [kind |-> "emergency_stop.activated"] \in RuntimeEvent
  /\ [kind |-> "emergency_stop.cleared"] \in RuntimeEvent
BY DEF RuntimeEvent

\* verify refuses with one of the errors of the enumeration, or with none
LEMMA RefusalType ==
  ASSUME NEW tk, NEW context, NEW s, Verify(tk, context, s, now) # "Ok"
  PROVE  Verify(tk, context, s, now) \in Refusal
<1>1. \A i \in 1..9 : Gates[i] \in Refusal
  BY DEF Gates, Refusal
<1> QED
  BY <1>1, LeastClosed

\* what a reply adds to the histories
LEMMA ReplyCases ==
  ASSUME event \in RuntimeEvent, event.kind # "execution.started", Reply
  PROVE  /\ receipts' = receipts
              \/ (event.kind = "execution.completed" /\ receipts' = receipts \cup {token.id})
         /\ held' = held \/ (event.kind = "emergency_stop.activated" /\ held' = TRUE)
BY DEF Reply, RuntimeEvent, replyVars

\* the state after a consumed token is a state
LEMMA ConsumeType ==
  ASSUME NEW s \in RuntimeState, NEW id \in TokenId
  PROVE  [s EXCEPT !.consumed = @ \cup {id}, !.next = @ + 1] \in RuntimeState
<1>1. s.consumed \cup {id} \in SUBSET TokenId /\ s.next + 1 \in Nat
  BY DEF RuntimeState
<1> QED
  BY <1>1 DEF RuntimeState

TypeInv == TypeOK /\ HasEvent /\ HasToken

\* the type invariant holds when the first process opens
LEMMA InitType == Init => TypeInv
<1> SUFFICES ASSUME Init PROVE TypeInv
  OBVIOUS
<1>1. << >> \in Seq(Log!Piece) /\ << >> \in Seq(Tokens)
  OBVIOUS
<1>2. DefaultState \in RuntimeState
  BY DEF DefaultState, RuntimeState
<1> QED
  BY <1>1, <1>2, NoTipType DEF Init, TypeInv, TypeOK, HasEvent, HasToken, Pending

\* every step leaves a sequence of pieces in the file
LEMMA FileType ==
  ASSUME TypeInv, [Next]_vars
  PROVE  file' \in Seq(Log!Piece)
<1>1. file \in Seq(Log!Piece) /\ last \in Log!Cursor
  BY DEF TypeInv, TypeOK
<1>2. at \in {"started", "audit"} => event \in RuntimeEvent
  BY EventTypes DEF TypeInv, HasEvent, HasToken, Pending, TokenId
<1>3. ASSUME at \in {"started", "audit"}, NEW cut \in Log!CutPoint,
             file' = file \o Log!Written(event, cut)
      PROVE  file' \in Seq(Log!Piece)
  <2>1. Log!Written(event, cut) \in Seq(Log!Piece)
    BY <1>1, <1>2, <1>3, WrittenType
  <2> QED
    BY <1>1, <1>3, <2>1
<1> QED
  BY <1>1, <1>3, FileStep

\* every step of the runtime keeps the type invariant
LEMMA NextType == TypeInv /\ [Next]_vars => TypeInv'
<1> SUFFICES ASSUME TypeInv, [Next]_vars PROVE TypeInv'
  OBVIOUS
<1> USE DEF replyVars, requestVars
<1>1. file' \in Seq(Log!Piece)
  BY FileType
<1>2. ASSUME NEW step \in {"started", "skill", "persist", "audit"},
             NEW e \in RuntimeEvent \cup {NoEvent}, NEW tk \in Tokens \cup {NoToken},
             GoTo(step, e, tk),
             step \in {"persist", "audit"}
               => e \in RuntimeEvent /\ e.kind # "execution.started",
             step = "started" => e = [kind |-> "execution.started", id |-> tk.id],
             \/ tk \in Tokens
             \/ /\ step \in {"persist", "audit"}
                /\ e.kind \in {"emergency_stop.activated", "emergency_stop.cleared"},
             up' \in BOOLEAN, state' \in RuntimeState, disk' \in RuntimeState,
             last' \in Log!Cursor, now' \in Nat, released' \in Seq(Tokens),
             receipts' \subseteq TokenId, held' \in BOOLEAN
      PROVE  TypeInv'
  BY <1>1, <1>2 DEF TypeInv, TypeOK, HasEvent, HasToken, Pending, GoTo
<1>3. ASSUME Release,
             up' \in BOOLEAN, state' \in RuntimeState, disk' \in RuntimeState,
             last' \in Log!Cursor, now' \in Nat, released' \in Seq(Tokens),
             receipts' \subseteq TokenId, held' \in BOOLEAN
      PROVE  TypeInv'
  BY <1>1, <1>3
     DEF TypeInv, TypeOK, HasEvent, HasToken, Pending, Release, GoTo
<1>4. ASSUME NEW tk \in Tokens, NEW context, ExecutePasses(tk, context)
      PROVE  TypeInv'
  <2>1. [kind |-> "execution.started", id |-> tk.id] \in RuntimeEvent
    BY EventTypes DEF TokenId
  <2> QED
    BY <1>2, <1>4, <2>1 DEF ExecutePasses, TypeInv, TypeOK
<1>5. ASSUME NEW tk \in Tokens, NEW context, ExecuteRefused(tk, context)
      PROVE  TypeInv'
  <2> DEFINE why == Verify(tk, context, state, now)
  <2>1. why \in Refusal
    BY <1>5, RefusalType DEF ExecuteRefused
  <2>2. [kind |-> "execution.rejected", id |-> tk.id, reason |-> why] \in RuntimeEvent
    BY <2>1, EventTypes DEF TokenId
  <2>3. GoTo("persist", [kind |-> "execution.rejected", id |-> tk.id, reason |-> why], tk)
    BY <1>5 DEF ExecuteRefused
  <2> QED
    BY <1>2, <1>5, <2>2, <2>3 DEF ExecuteRefused, TypeInv, TypeOK
<1>6. CASE StartedLogged
  <2>1. event \in RuntimeEvent /\ token \in Tokens
    BY <1>6, EventTypes DEF StartedLogged, TypeInv, HasEvent, HasToken, TokenId
  <2>2. last' \in Log!Cursor
    BY <1>6, <2>1, CursorAfterAppend DEF StartedLogged, TypeInv, TypeOK
  <2> QED
    BY <1>2, <1>6, <2>1, <2>2 DEF StartedLogged, TypeInv, TypeOK
<1>7. CASE StartedFails \/ UnknownSkill
  <2>1. last' = last
    BY <1>7 DEF StartedFails, UnknownSkill, Log!AppendCut
  <2> QED
    BY <1>3, <1>7, <2>1 DEF StartedFails, UnknownSkill, TypeInv, TypeOK, replyVars
<1>8. CASE RunSkill
  <2>1. token \in Tokens /\ token.id \in TokenId
    BY <1>8 DEF RunSkill, TypeInv, HasToken, TokenId
  <2>2. state' \in RuntimeState
    BY <1>8, <2>1, ConsumeType DEF RunSkill, TypeInv, TypeOK
  <2>3. released' \in Seq(Tokens)
    BY <1>8, <2>1 DEF RunSkill, TypeInv, TypeOK
  <2>4. [kind |-> "execution.completed", id |-> token.id] \in RuntimeEvent
    BY <2>1, EventTypes
  <2> QED
    BY <1>2, <1>8, <2>1, <2>2, <2>3, <2>4 DEF RunSkill, TypeInv, TypeOK
<1>9. ASSUME NEW active \in BOOLEAN, SetEmergencyStop(active)
      PROVE  TypeInv'
  <2> DEFINE e == [kind |-> IF active THEN "emergency_stop.activated"
                                      ELSE "emergency_stop.cleared"]
  <2>1. e \in RuntimeEvent
        /\ e.kind \in {"emergency_stop.activated", "emergency_stop.cleared"}
    BY EventTypes
  <2>2. state' \in RuntimeState
    BY <1>9 DEF SetEmergencyStop, TypeInv, TypeOK, RuntimeState
  <2>3. held' \in BOOLEAN
    BY <1>9 DEF SetEmergencyStop
  <2>4. GoTo("persist", e, NoToken)
    BY <1>9 DEF SetEmergencyStop
  <2> HIDE DEF e
  <2> QED
    BY <1>2, <1>9, <2>1, <2>2, <2>3, <2>4 DEF SetEmergencyStop, TypeInv, TypeOK
<1>10. CASE Persist
  BY <1>1, <1>10 DEF Persist, GoTo, TypeInv, TypeOK, HasEvent, HasToken, Pending
<1>11. CASE PersistFails
  <2>1. CASE Refusing
    BY <1>1, <1>11, <2>1
       DEF PersistFails, GoTo, TypeInv, TypeOK, HasEvent, HasToken, Pending
  <2>2. CASE ~Refusing
    BY <1>3, <1>11, <2>2 DEF PersistFails, TypeInv, TypeOK
  <2> QED
    BY <2>1, <2>2
<1>12. CASE AuditThenReply
  <2>1. event \in RuntimeEvent /\ event.kind # "execution.started"
    BY <1>12 DEF AuditThenReply, TypeInv, HasEvent, Pending
  <2>2. last' \in Log!Cursor
    BY <1>12, <2>1, CursorAfterAppend DEF AuditThenReply, TypeInv, TypeOK
  <2>3. event.kind = "execution.completed" => token.id \in TokenId
    BY <1>12 DEF AuditThenReply, TypeInv, HasToken, Pending, TokenId
  <2>4. receipts' \subseteq TokenId /\ held' \in BOOLEAN
    BY <1>12, <2>1, <2>3, ReplyCases DEF AuditThenReply, TypeInv, TypeOK
  <2> QED
    BY <1>3, <1>12, <2>2, <2>4 DEF AuditThenReply, TypeInv, TypeOK
<1>13. CASE AuditFails
  <2> QED
    BY <1>3, <1>13 DEF AuditFails, Log!AppendCut, TypeInv, TypeOK, replyVars
<1>14. CASE Crash
  <2>1. DefaultState \in RuntimeState
    BY DEF DefaultState, RuntimeState
  <2> QED
    BY <1>3, <1>14, <2>1, NoTipType DEF Crash, TypeInv, TypeOK
<1>15. CASE Open
  BY <1>1, <1>15, CursorAfterOpen
     DEF Open, TypeInv, TypeOK, HasEvent, HasToken, Pending
<1>16. CASE Tick \/ UNCHANGED vars
  BY <1>1, <1>16 DEF Tick, vars, TypeInv, TypeOK, HasEvent, HasToken, Pending
<1> QED
  BY <1>4, <1>5, <1>6, <1>7, <1>8, <1>9, <1>10, <1>11, <1>12, <1>13, <1>14, <1>15,
     <1>16 DEF Next

\* RobotRuntime keeps its types for all tokens, contexts, faults and bounds (runtime.rs:43-92)
THEOREM TypeCorrect == Spec => []TypeOK
<1>1. TypeInv => TypeOK
  BY DEF TypeInv
<1> QED
  BY <1>1, InitType, NextType, PTL DEF Spec

-----------------------------------------------------------------------------
(***************************************************************************)
(* The inductive invariant.                                                *)
(***************************************************************************)
IdleWhenDown == ~up => at = "idle"
MemoryAhead  == up => disk.consumed \subseteq state.consumed

\* a token on its way to the skill adapter still passes these gates
StillPasses ==
  at \in {"started", "skill"} =>
    /\ token.id \notin state.consumed
    /\ token.seq = state.next
    /\ ~state.emergency_stop

\* a token that was executed is consumed in memory, then on disk
Consumed ==
  Pending /\ event.kind = "execution.completed" =>
    /\ token.id \in state.consumed
    /\ at = "audit" => token.id \in disk.consumed

ReceiptsSaved == receipts \subseteq disk.consumed

\* a stop that is being set is in force in memory, then on disk
Stopping ==
  Pending /\ event.kind = "emergency_stop.activated" =>
    /\ state.emergency_stop
    /\ at = "audit" => disk.emergency_stop

StopSaved == held => disk.emergency_stop /\ (up => state.emergency_stop)

\* the number before n was released
Reached(n) == n > 0 => \E i \in DOMAIN released : released[i].seq = n - 1
NumbersReached == Reached(disk.next) /\ (up => Reached(state.next))

SafetyInv ==
  /\ TypeInv /\ IdleWhenDown /\ MemoryAhead
  /\ StillPasses /\ Consumed /\ ReceiptsSaved /\ Stopping /\ StopSaved
  /\ NumbersReached /\ NoReleaseSkipsANumber

\* every step of the runtime keeps the safety invariant, one case per action
LEMMA SafetyStep == SafetyInv /\ [Next]_vars => SafetyInv'
<1> SUFFICES ASSUME SafetyInv, [Next]_vars PROVE SafetyInv'
  OBVIOUS
<1> USE DEF replyVars, requestVars
<1>1. TypeInv'
  BY NextType DEF SafetyInv
<1>2. ASSUME released' = released
      PROVE  NoReleaseSkipsANumber' /\ \A n : Reached(n) => Reached(n)'
  BY <1>2 DEF SafetyInv, NoReleaseSkipsANumber, Reached
\* a request ends; the replies it gave were earned
<1>3. ASSUME Release, UNCHANGED <<state, disk, released>>, up' => up,
             receipts' \subseteq disk.consumed,
             held' => disk.emergency_stop /\ (up => state.emergency_stop)
      PROVE  SafetyInv'
  BY <1>1, <1>2, <1>3
     DEF SafetyInv, IdleWhenDown, MemoryAhead, StillPasses, Consumed, ReceiptsSaved,
         Stopping, StopSaved, NumbersReached, Release, GoTo, Pending
<1>4. ASSUME NEW tk \in Tokens, NEW context, ExecutePasses(tk, context)
      PROVE  SafetyInv'
  <2>1. ~state.emergency_stop /\ tk.id \notin state.consumed /\ tk.seq = state.next
    BY <1>4, GatesOpen DEF ExecutePasses
  <2> QED
    BY <1>1, <1>2, <1>4, <2>1
       DEF ExecutePasses, Free, GoTo, SafetyInv, IdleWhenDown, MemoryAhead, StillPasses,
         Consumed, ReceiptsSaved, Stopping, StopSaved, NumbersReached, Pending
<1>5. ASSUME NEW tk \in Tokens, NEW context, ExecuteRefused(tk, context)
      PROVE  SafetyInv'
  BY <1>1, <1>2, <1>5
     DEF ExecuteRefused, Free, GoTo, SafetyInv, IdleWhenDown, MemoryAhead, StillPasses,
       Consumed, ReceiptsSaved, Stopping, StopSaved, NumbersReached, Pending
<1>6. CASE StartedLogged
  BY <1>1, <1>2, <1>6
     DEF StartedLogged, GoTo, SafetyInv, IdleWhenDown, MemoryAhead, StillPasses,
       Consumed, ReceiptsSaved, Stopping, StopSaved, NumbersReached, Pending
<1>7. CASE StartedFails \/ UnknownSkill \/ AuditFails
  BY <1>3, <1>7
     DEF StartedFails, UnknownSkill, AuditFails, SafetyInv, ReceiptsSaved, StopSaved
<1>8. CASE RunSkill
  <2>1. /\ token \in Tokens /\ token.seq \in Nat /\ released \in Seq(Tokens)
        /\ state \in RuntimeState /\ up
    BY <1>8, RuntimeAssumption
       DEF RunSkill, SafetyInv, TypeInv, HasToken, TypeOK, IdleWhenDown
  <2>2. /\ released' = Append(released, token)
        /\ state'.consumed = state.consumed \cup {token.id}
        /\ state'.next = state.next + 1
        /\ state'.emergency_stop = state.emergency_stop
        /\ at' = "persist" /\ event'.kind = "execution.completed" /\ token' = token
        /\ UNCHANGED <<up, disk, receipts, held>>
    BY <1>8, <2>1 DEF RunSkill, GoTo, RuntimeState
  <2>3. token.seq = state.next /\ Reached(state.next) /\ Reached(disk.next)
    BY <1>8, <2>1 DEF RunSkill, SafetyInv, StillPasses, NumbersReached
  <2>4. /\ Len(released') = Len(released) + 1
        /\ released'[Len(released) + 1] = token
        /\ \A i \in DOMAIN released : i \in DOMAIN released' /\ released'[i] = released[i]
        /\ DOMAIN released' = 1..(Len(released) + 1)
        /\ DOMAIN released = 1..Len(released) /\ Len(released) \in Nat
    BY <2>1, <2>2
  <2>5. \A n : Reached(n) => Reached(n)'
    BY <2>4 DEF Reached
  <2>6. Reached(state.next)'
    <3>1. released'[Len(released) + 1].seq = state'.next - 1
      BY <2>1, <2>2, <2>3, <2>4
    <3> QED
      BY <2>4, <3>1 DEF Reached
  <2>7. NoReleaseSkipsANumber'
    <3> SUFFICES ASSUME NEW j \in DOMAIN released', released'[j].seq > 0
                 PROVE  \E i \in 1..(j - 1) : released'[i].seq = released'[j].seq - 1
      BY DEF NoReleaseSkipsANumber
    <3>1. CASE j \in DOMAIN released
      BY <2>4, <3>1 DEF SafetyInv, NoReleaseSkipsANumber
    <3>2. CASE j = Len(released) + 1
      BY <2>3, <2>4, <3>2 DEF Reached
    <3> QED
      BY <2>4, <3>1, <3>2
  <2>8. Reached(disk.next)'
    BY <2>2, <2>3, <2>5 DEF Reached
  <2> QED
    BY <1>1, <2>1, <2>2, <2>6, <2>7, <2>8
       DEF SafetyInv, IdleWhenDown, MemoryAhead, StillPasses, Consumed, ReceiptsSaved,
         Stopping, StopSaved, NumbersReached, Pending
<1>9. ASSUME NEW active \in BOOLEAN, SetEmergencyStop(active)
      PROVE  SafetyInv'
  <2>1. /\ state'.consumed = state.consumed /\ state'.next = state.next
        /\ state'.emergency_stop = active
        /\ held' = (held /\ active)
        /\ at' = "persist"
        /\ event'.kind = "emergency_stop.activated" => active
        /\ event'.kind # "execution.completed"
        /\ up /\ UNCHANGED <<up, disk, released, receipts>>
    BY <1>9 DEF SetEmergencyStop, Free, GoTo, SafetyInv, TypeInv, TypeOK, RuntimeState
  <2> QED
    BY <1>1, <1>2, <2>1
       DEF SafetyInv, IdleWhenDown, MemoryAhead, StillPasses, Consumed, ReceiptsSaved,
         Stopping, StopSaved, NumbersReached, Pending
<1>10. CASE Persist
  <2>1. up
    BY <1>10 DEF Persist, SafetyInv, IdleWhenDown
  <2> QED
    BY <1>1, <1>2, <1>10, <2>1
       DEF Persist, GoTo, SafetyInv, IdleWhenDown, MemoryAhead, StillPasses, Consumed,
         ReceiptsSaved, Stopping, StopSaved, NumbersReached, Pending
<1>11. CASE PersistFails
  <2>1. CASE Refusing
    BY <1>1, <1>2, <1>11, <2>1
       DEF PersistFails, Refusing, GoTo, SafetyInv, IdleWhenDown, MemoryAhead,
         StillPasses, Consumed, ReceiptsSaved, Stopping, StopSaved, NumbersReached,
         Pending
  <2>2. CASE ~Refusing
    BY <1>3, <1>11, <2>2 DEF PersistFails, SafetyInv, ReceiptsSaved, StopSaved
  <2> QED
    BY <2>1, <2>2
<1>12. CASE AuditThenReply
  <2>1. event \in RuntimeEvent /\ event.kind # "execution.started"
    BY <1>12 DEF AuditThenReply, SafetyInv, TypeInv, HasEvent, Pending
  <2>2. receipts' \subseteq disk.consumed
    BY <1>12, <2>1, ReplyCases
       DEF AuditThenReply, SafetyInv, ReceiptsSaved, Consumed, Pending
  <2>3. held' => disk.emergency_stop /\ (up => state.emergency_stop)
    BY <1>12, <2>1, ReplyCases
       DEF AuditThenReply, SafetyInv, StopSaved, Stopping, Pending
  <2> QED
    BY <1>3, <1>12, <2>2, <2>3 DEF AuditThenReply
<1>13. CASE Crash
  BY <1>1, <1>2, <1>13
     DEF Crash, Release, GoTo, SafetyInv, IdleWhenDown, MemoryAhead, StillPasses,
       Consumed, ReceiptsSaved, Stopping, StopSaved, NumbersReached, Pending
<1>14. CASE Open
  BY <1>1, <1>2, <1>14
     DEF Open, SafetyInv, IdleWhenDown, MemoryAhead, StillPasses, Consumed,
       ReceiptsSaved, Stopping, StopSaved, NumbersReached, Pending
<1>15. CASE Tick \/ UNCHANGED vars
  BY <1>1, <1>2, <1>15
     DEF Tick, vars, SafetyInv, IdleWhenDown, MemoryAhead, StillPasses, Consumed,
       ReceiptsSaved, Stopping, StopSaved, NumbersReached, Pending
<1> QED
  BY <1>4, <1>5, <1>6, <1>7, <1>8, <1>9, <1>10, <1>11, <1>12, <1>13, <1>14, <1>15
     DEF Next

\* the safety invariant holds when the first process opens
LEMMA SafetyInit == Init => SafetyInv
<1> SUFFICES ASSUME Init PROVE SafetyInv
  OBVIOUS
<1>1. DefaultState.next = 0 /\ DefaultState.consumed = {}
  BY DEF DefaultState
<1> QED
  BY <1>1, InitType
     DEF Init, SafetyInv, IdleWhenDown, MemoryAhead, StillPasses, Consumed,
       ReceiptsSaved, Stopping, StopSaved, NumbersReached, Reached, Pending,
       NoReleaseSkipsANumber, NoEvent

\* the expected number, the consumed tokens and the stop agree in memory and snapshot as SafetyInv says (runtime.rs:94-304)
THEOREM Safety == Spec => []SafetyInv
BY SafetyInit, SafetyStep, PTL DEF Spec

(***************************************************************************)
(* The skill adapter sees every number of the robot only after the one     *)
(* before it, whatever crashes and failures happen.                        *)
(***************************************************************************)
THEOREM NumbersInOrder == Spec => []NoReleaseSkipsANumber
<1>1. SafetyInv => NoReleaseSkipsANumber
  BY DEF SafetyInv
<1> QED
  BY <1>1, Safety, PTL

\* the only step that calls the skill adapter
LEMMA ReleaseStep ==
  ASSUME [Next]_vars, released' # released
  PROVE  RunSkill
BY DEF Next, vars, ExecutePasses, ExecuteRefused, StartedLogged, StartedFails,
  UnknownSkill, SetEmergencyStop, Persist, PersistFails, AuditThenReply, AuditFails,
  Crash, Open, Tick

(***************************************************************************)
(* A token whose receipt was returned, or that is consumed on disk, is     *)
(* never released again.                                                   *)
(***************************************************************************)
THEOREM SettledStays == Spec => SettledIsFinal
<1>1. SafetyInv /\ [Next]_vars =>
        [released' # released =>
           token.id \notin receipts /\ token.id \notin disk.consumed]_vars
  <2> SUFFICES ASSUME SafetyInv, [Next]_vars, released' # released
               PROVE  token.id \notin receipts /\ token.id \notin disk.consumed
    OBVIOUS
  <2>1. RunSkill
    BY ReleaseStep
  <2> QED
    BY <2>1 DEF RunSkill, SafetyInv, IdleWhenDown, MemoryAhead, StillPasses, ReceiptsSaved
<1> QED
  BY <1>1, Safety, PTL DEF Spec, SettledIsFinal

(***************************************************************************)
(* An acknowledged emergency stop holds until a clear is requested.        *)
(***************************************************************************)
THEOREM StopIsHeld == Spec => StopHolds
<1>1. SafetyInv /\ [Next]_vars => [released' # released => ~held]_vars
  <2> SUFFICES ASSUME SafetyInv, [Next]_vars, released' # released
               PROVE  ~held
    OBVIOUS
  <2>1. RunSkill
    BY ReleaseStep
  <2> QED
    BY <2>1 DEF RunSkill, SafetyInv, IdleWhenDown, StillPasses, StopSaved
<1> QED
  BY <1>1, Safety, PTL DEF Spec, StopHolds

-----------------------------------------------------------------------------
(***************************************************************************)
(* The runtime implements Actuation.  What a snapshot says was done, was   *)
(* done (Remembered), for the snapshot on disk and for the state in        *)
(* memory, which becomes the next one; a call continues the numbers of the *)
(* memory, and the disk is never ahead of it.                              *)
(***************************************************************************)
Remembered(s) ==
  /\ \A n \in Nat : n < s.next =>
       \E i \in DOMAIN released : released[i].seq = n /\ released[i].id \in s.consumed
  /\ \A id \in s.consumed : \E i \in DOMAIN released : released[i].id = id

NumberAhead == up => disk.next <= state.next
OwnToken    == at \in {"started", "skill"} => token.robot = Self
OwnCalls    == \A i \in DOMAIN released : released[i].robot = Self

CallInv ==
  /\ NumberAhead /\ OwnToken /\ OwnCalls
  /\ Remembered(disk) /\ (up => Remembered(state))

\* what a snapshot remembers it still remembers after a call, and one that knows the call remembers it, too
LEMMA CallRemembered ==
  ASSUME released \in Seq(Tokens), token \in Tokens, released' = Append(released, token)
  PROVE  /\ \A s : Remembered(s) => Remembered(s)'
         /\ \A s, t \in RuntimeState :
              /\ Remembered(s) /\ token.seq = s.next
              /\ t.next = s.next + 1 /\ t.consumed = s.consumed \cup {token.id}
              => Remembered(t)'
<1>1. /\ Len(released) \in Nat
      /\ DOMAIN released = 1..Len(released)
      /\ DOMAIN released' = 1..(Len(released) + 1)
      /\ Len(released) + 1 \in DOMAIN released'
      /\ \A i \in DOMAIN released : i \in DOMAIN released' /\ released'[i] = released[i]
      /\ released'[Len(released) + 1] = token
  OBVIOUS
<1>2. ASSUME NEW s, Remembered(s) PROVE Remembered(s)'
  BY <1>1, <1>2 DEF Remembered
<1>3. ASSUME NEW s \in RuntimeState, NEW t \in RuntimeState, Remembered(s), token.seq = s.next,
             t.next = s.next + 1, t.consumed = s.consumed \cup {token.id}
      PROVE  Remembered(t)'
  <2>1. ASSUME NEW n \in Nat, n < t.next
        PROVE  \E i \in DOMAIN released' : released'[i].seq = n /\ released'[i].id \in t.consumed
    <3>1. CASE n = s.next
      BY <1>1, <1>3, <3>1
    <3>2. CASE n < s.next
      BY <1>1, <1>3, <3>2 DEF Remembered
    <3> QED
      BY <1>3, <2>1, <3>1, <3>2 DEF RuntimeState
  <2>2. ASSUME NEW id \in t.consumed PROVE \E i \in DOMAIN released' : released'[i].id = id
    BY <1>1, <1>3, <2>2 DEF Remembered
  <2> QED
    BY <2>1, <2>2 DEF Remembered
<1> QED
  BY <1>2, <1>3

\* every step of the runtime keeps what its snapshots remember
LEMMA CallStep == SafetyInv /\ CallInv /\ [Next]_vars => CallInv'
<1> SUFFICES ASSUME SafetyInv, CallInv, [Next]_vars PROVE CallInv'
  OBVIOUS
<1> USE DEF replyVars, requestVars
<1>1. TypeOK /\ TypeOK' /\ TypeInv /\ IdleWhenDown /\ StillPasses
  BY NextType DEF SafetyInv, TypeInv
\* the states that are remembered are those that were
<1>2. ASSUME released' = released, disk' = disk \/ (up /\ disk' = state),
             up' => \/ up /\ state'.next = state.next /\ state'.consumed = state.consumed
                    \/ state' = disk',
             at' \in {"started", "skill"} => token'.robot = Self
      PROVE  CallInv'
  <2>1. disk \in RuntimeState /\ state \in RuntimeState
    BY <1>1 DEF TypeOK
  <2>2. Remembered(disk)' /\ (up' => Remembered(state)')
    BY <1>2 DEF CallInv, Remembered
  <2>3. NumberAhead'
    BY <1>2, <2>1 DEF CallInv, NumberAhead, RuntimeState
  <2> QED
    BY <1>2, <2>2, <2>3 DEF CallInv, OwnToken, OwnCalls
<1>3. ASSUME NEW tk \in Tokens, NEW context, ExecutePasses(tk, context) PROVE CallInv'
  <2>1. tk.robot = Self
    BY <1>3, GatesOpen DEF ExecutePasses
  <2> QED
    BY <1>2, <1>3, <2>1 DEF ExecutePasses, Free, GoTo
<1>4. ASSUME NEW tk \in Tokens, NEW context, ExecuteRefused(tk, context) PROVE CallInv'
  BY <1>2, <1>4 DEF ExecuteRefused, Free, GoTo
<1>5. CASE StartedLogged
  <2>1. up /\ token.robot = Self
    BY <1>1, <1>5 DEF StartedLogged, IdleWhenDown, CallInv, OwnToken
  <2> QED
    BY <1>2, <1>5, <2>1 DEF StartedLogged, GoTo
<1>6. CASE StartedFails \/ UnknownSkill \/ PersistFails \/ AuditThenReply \/ AuditFails
  <2>1. up
    BY <1>1, <1>6 DEF StartedFails, UnknownSkill, PersistFails, AuditThenReply, AuditFails,
      IdleWhenDown
  <2> QED
    BY <1>2, <1>6, <2>1 DEF StartedFails, UnknownSkill, PersistFails, AuditThenReply,
      AuditFails, Release, GoTo
<1>7. CASE Persist
  <2>1. up
    BY <1>1, <1>7 DEF Persist, IdleWhenDown
  <2> QED
    BY <1>2, <1>7, <2>1 DEF Persist, GoTo
<1>8. CASE RunSkill
  <2>1. /\ up /\ token \in Tokens /\ token.robot = Self /\ token.seq = state.next
        /\ released \in Seq(Tokens) /\ state \in RuntimeState /\ state' \in RuntimeState
        /\ disk \in RuntimeState
    BY <1>1, <1>8 DEF RunSkill, TypeInv, HasToken, TypeOK, IdleWhenDown, StillPasses,
      CallInv, OwnToken
  <2>2. /\ released' = Append(released, token)
        /\ state'.next = state.next + 1
        /\ state'.consumed = state.consumed \cup {token.id}
        /\ at' = "persist" /\ UNCHANGED <<up, disk>>
    BY <1>8, <2>1 DEF RunSkill, GoTo, RuntimeState
  <2>3. Remembered(disk) /\ Remembered(state)
    BY <2>1 DEF CallInv
  <2>4. PICK s \in RuntimeState : s = state
    BY <2>1
  <2>5. PICK t \in RuntimeState : t = state'
    BY <2>1
  <2>6. Remembered(t)'
    BY <2>1, <2>2, <2>3, <2>4, <2>5, CallRemembered DEF Remembered
  <2>7. PICK d \in RuntimeState : d = disk
    BY <2>1
  <2>8. Remembered(d)'
    <3>1. Remembered(d)
      BY <2>3, <2>7 DEF Remembered
    <3> QED
      BY <2>1, <2>2, <3>1, CallRemembered
  <2>9. Remembered(disk)' /\ Remembered(state)'
    BY <2>2, <2>5, <2>6, <2>7, <2>8 DEF Remembered
  <2>10. OwnCalls'
    BY <2>1, <2>2 DEF OwnCalls, CallInv
  <2>11. NumberAhead'
    BY <2>1, <2>2 DEF CallInv, NumberAhead, RuntimeState
  <2> QED
    BY <2>2, <2>9, <2>10, <2>11 DEF CallInv, OwnToken
<1>9. ASSUME NEW active \in BOOLEAN, SetEmergencyStop(active) PROVE CallInv'
  <2>1. state'.next = state.next /\ state'.consumed = state.consumed
    BY <1>1, <1>9 DEF SetEmergencyStop, TypeOK, RuntimeState
  <2> QED
    BY <1>2, <1>9, <2>1 DEF SetEmergencyStop, Free, GoTo
<1>10. CASE Crash
  BY <1>2, <1>10 DEF Crash, Release, GoTo
<1>11. CASE Open
  BY <1>1, <1>2, <1>11 DEF Open, IdleWhenDown
<1>12. CASE Tick \/ UNCHANGED vars
  BY <1>2, <1>12 DEF Tick, vars, CallInv, OwnToken
<1> QED
  BY <1>3, <1>4, <1>5, <1>6, <1>7, <1>8, <1>9, <1>10, <1>11, <1>12 DEF Next

\* the calls as Actuation sees them
Order(tk) == [id |-> tk.id, robot |-> tk.robot, seq |-> tk.seq]

CalledNow == [i \in DOMAIN released |-> Order(released[i])]

\* a call of the skill adapter is a Call of Actuation
LEMMA CallRefines ==
  ASSUME SafetyInv, CallInv, RunSkill
  PROVE  Actuator!Call
<1>1. /\ token \in Tokens /\ token.id \in TokenId /\ token.seq \in Nat /\ token.robot = Self
      /\ token.seq = state.next /\ token.id \notin state.consumed /\ up
      /\ ~state.emergency_stop /\ released \in Seq(Tokens)
      /\ disk \in RuntimeState /\ state \in RuntimeState
  BY RuntimeAssumption DEF RunSkill, SafetyInv, TypeInv, HasToken, TypeOK, IdleWhenDown,
    StillPasses, CallInv, OwnToken, TokenId
<1>2. released' = Append(released, token)
  BY DEF RunSkill
<1>3. /\ disk.next <= token.seq /\ token.id \notin disk.consumed /\ ~held
  BY <1>1 DEF CallInv, NumberAhead, SafetyInv, MemoryAhead, StopSaved
<1>4. \A n \in 0..(token.seq - 1) : \E i \in DOMAIN released : released[i].robot = Self /\ released[i].seq = n
  BY <1>1 DEF CallInv, Remembered, OwnCalls
<1>5. PICK tk : tk = Order(token)
  OBVIOUS
<1>6. tk.id = token.id /\ tk.robot = Self /\ tk.seq = token.seq /\ tk \in Actuator!Order
  BY <1>1, <1>5 DEF Order, Actuator!Order
<1>7. \A i \in DOMAIN released :
        CalledNow[i].robot = released[i].robot /\ CalledNow[i].seq = released[i].seq
  BY DEF CalledNow, Order
<1>8. Actuator!MayCall(tk)
  <2>1. \A n \in 0..(tk.seq - 1) : \E i \in DOMAIN CalledNow :
          CalledNow[i].robot = tk.robot /\ CalledNow[i].seq = n
    BY <1>4, <1>6, <1>7 DEF CalledNow
  <2> QED
    BY <1>3, <1>6, <2>1 DEF Actuator!MayCall, Actuator!Calls, CalledNow, Order
<1>9. /\ Len(CalledNow') = Len(CalledNow) + 1
      /\ CalledNow'[Len(CalledNow')] = tk
      /\ CalledNow' = Append(CalledNow, tk)
  <2> DEFINE n == Len(released)
             old == CalledNow
             new == CalledNow'
  <2>1. /\ n \in Nat /\ DOMAIN released = 1..n /\ DOMAIN released' = 1..(n + 1)
        /\ \A i \in 1..n : released'[i] = released[i]
        /\ released'[n + 1] = token
    BY <1>1, <1>2
  <2> HIDE DEF n
  <2>2. old = [i \in 1..n |-> Order(released[i])]
    BY <2>1 DEF CalledNow
  <2>3. new = [i \in 1..(n + 1) |-> Order(released'[i])]
    BY <2>1 DEF CalledNow
  <2>4. /\ old \in Seq(Actuator!Order)
    <3>1. ASSUME NEW i \in 1..n PROVE Order(released[i]) \in Actuator!Order
      <4>1. released[i] \in Tokens /\ released[i].robot = Self
        BY <1>1, <2>1 DEF CallInv, OwnCalls
      <4> QED
        BY <4>1, RuntimeAssumption DEF Order, Actuator!Order, TokenId
    <3> QED
      BY <2>1, <2>2, <3>1
  <2> HIDE DEF old, new
  <2>5. Len(old) = n /\ Len(new) = n + 1
    BY <2>1, <2>2, <2>3
  <2>6. new[n + 1] = tk /\ \A i \in 1..n : new[i] = old[i]
    BY <1>5, <2>1, <2>2, <2>3
  <2>7. new = Append(old, tk)
    <3>1. /\ Append(old, tk) \in Seq(Actuator!Order) /\ Len(Append(old, tk)) = n + 1
          /\ Append(old, tk)[n + 1] = tk
          /\ \A i \in 1..n : Append(old, tk)[i] = old[i]
      BY <1>6, <2>1, <2>4, <2>5
    <3>2. PICK seq \in Seq(Actuator!Order) : seq = Append(old, tk)
      BY <3>1
    <3>3. seq = [i \in 1..(n + 1) |-> seq[i]]
      <4>1. seq = [i \in 1..Len(seq) |-> seq[i]]
        OBVIOUS
      <4>2. Len(seq) = n + 1
        BY <3>1, <3>2
      <4> QED
        BY <4>1, <4>2, Zenon
    <3>4. \A i \in 1..(n + 1) : seq[i] = Order(released'[i])
      BY <1>5, <2>1, <2>2, <3>1, <3>2
    <3> QED
      BY <2>3, <3>2, <3>3, <3>4
  <2> QED
    BY <2>5, <2>6, <2>7 DEF old, new
<1> QED
  BY <1>8, <1>9 DEF Actuator!Call, CalledNow, Order

\* the snapshot on disk is right in the sense of Actuation
DiskIsRight == \A r \in {Self} : Actuator!Remembers(r)

LEMMA DiskRemembers == SafetyInv /\ CallInv => DiskIsRight
<1> SUFFICES ASSUME SafetyInv, CallInv, NEW r \in {Self} PROVE Actuator!Remembers(r)
  BY DEF DiskIsRight
<1>1. disk.next \in Nat
  BY DEF SafetyInv, TypeInv, TypeOK, RuntimeState
<1>2. ASSUME NEW n \in 0..(disk.next - 1)
      PROVE  \E i \in DOMAIN released : /\ released[i].robot = Self /\ released[i].seq = n
                                        /\ released[i].id \in disk.consumed
  <2>1. n \in Nat /\ n < disk.next
    BY <1>1
  <2> QED
    BY <2>1 DEF CallInv, Remembered, OwnCalls
<1>3. \A id \in disk.consumed :
        \E i \in DOMAIN released : released[i].robot = Self /\ released[i].id = id
  BY DEF CallInv, Remembered, OwnCalls
<1>4. r = Self /\ Actuator!Calls(r) = DOMAIN released
  BY DEF Actuator!Calls, CallInv, OwnCalls
<1>5. /\ \A i \in DOMAIN released :
           CalledNow[i].seq = released[i].seq /\ CalledNow[i].id = released[i].id
      /\ [q \in {Self} |-> disk.next][r] = disk.next
      /\ [q \in {Self} |-> disk.consumed][r] = disk.consumed
  BY <1>4 DEF CalledNow, Order
<1>6. /\ \A n \in 0..(disk.next - 1) : \E i \in Actuator!Calls(r) :
           CalledNow[i].seq = n /\ CalledNow[i].id \in disk.consumed
      /\ \A id \in disk.consumed : \E i \in Actuator!Calls(r) : CalledNow[i].id = id
  BY <1>2, <1>3, <1>4, <1>5
<1>7. /\ \A n \in 0..([q \in {Self} |-> disk.next][r] - 1) : \E i \in Actuator!Calls(r) :
           CalledNow[i].seq = n /\ CalledNow[i].id \in [q \in {Self} |-> disk.consumed][r]
      /\ \A id \in [q \in {Self} |-> disk.consumed][r] :
           \E i \in Actuator!Calls(r) : CalledNow[i].id = id
  BY <1>5, <1>6, Zenon
<1> QED
  BY <1>7, Zenon DEF Actuator!Remembers, CalledNow, Order

\* a snapshot that reaches the disk is a Save of Actuation
LEMMA SaveRefines ==
  ASSUME SafetyInv, CallInv, SafetyInv', DiskIsRight', Persist
  PROVE  Actuator!Save
<1>1. up /\ disk' = state /\ released' = released
  BY DEF Persist, SafetyInv, IdleWhenDown
<1>2. disk \in RuntimeState /\ disk' \in RuntimeState
  BY DEF SafetyInv, TypeInv, TypeOK
<1>3. disk.next <= disk'.next /\ disk.consumed \subseteq disk'.consumed
  BY <1>1 DEF CallInv, NumberAhead, SafetyInv, MemoryAhead
<1> QED
  BY <1>2, <1>3 DEF Actuator!Save, RuntimeState, DiskIsRight

\* every step of the runtime is a step of Actuation or changes nothing there
LEMMA StepRefines ==
  SafetyInv /\ CallInv /\ SafetyInv' /\ DiskIsRight' /\ [Next]_vars
    => [Actuator!Next]_Actuator!vars
<1> SUFFICES ASSUME SafetyInv, CallInv, SafetyInv', DiskIsRight', [Next]_vars
             PROVE  [Actuator!Next]_Actuator!vars
  OBVIOUS
<1>1. CASE RunSkill
  <2>1. Actuator!Call
    BY <1>1, CallRefines
  <2>2. UNCHANGED <<disk, held>>
    BY <1>1 DEF RunSkill, replyVars
  <2> QED
    BY <2>1, <2>2 DEF Actuator!Next
<1>2. CASE Persist
  <2>1. Actuator!Save
    BY <1>2, SaveRefines
  <2>2. UNCHANGED <<released, held>>
    BY <1>2 DEF Persist, replyVars
  <2> QED
    BY <2>1, <2>2 DEF Actuator!Next
<1>3. CASE UNCHANGED <<disk, released>>
  BY <1>3 DEF Actuator!Next
<1> QED
  BY <1>1, <1>2, <1>3 DEF Next, vars, ExecutePasses, ExecuteRefused, StartedLogged,
    StartedFails, UnknownSkill, SetEmergencyStop, PersistFails, AuditThenReply, AuditFails,
    Crash, Open, Tick

(***************************************************************************)
(* Through kills and failed writes the runtime is the robot that the fleet *)
(* relies on.                                                              *)
(***************************************************************************)
THEOREM Refinement == Spec => IsActuation
<1>1. Init => CallInv
  BY DEF Init, CallInv, NumberAhead, OwnToken, OwnCalls, Remembered, DefaultState
<1>2. Init => Actuator!Init
  BY DEF Init, Actuator!Init, DefaultState
<1> QED
  BY <1>1, <1>2, CallStep, DiskRemembers, StepRefines, Safety, PTL DEF Spec, IsActuation, Actuator!Spec

-----------------------------------------------------------------------------
(***************************************************************************)
(* Evidence.  A token on its way from the started record to the skill      *)
(* adapter has one record more than it had calls.                          *)
(***************************************************************************)
Calls(id) == {j \in DOMAIN released : released[j].id = id}
OnItsWay(id) == IF at = "skill" /\ token.id = id THEN 1 ELSE 0

Evidence ==
  \A id \in TokenId :
    Cardinality(Calls(id)) + OnItsWay(id) <= Cardinality(StartedRecords(id))

\* a file has finitely many lines
LEMMA FiniteIndices ==
  ASSUME NEW S, NEW f \in Seq(S), NEW T \in SUBSET DOMAIN f
  PROVE  IsFiniteSet(T) /\ Cardinality(T) \in Nat
<1>1. Len(f) \in Nat /\ DOMAIN f = 1..Len(f)
  OBVIOUS
<1>2. IsFiniteSet(1..Len(f))
  BY <1>1, FS_Interval
<1> QED
  BY <1>1, <1>2, FS_Subset, FS_CardinalityType

\* the calls and the started records of a token are finitely many
LEMMA FiniteHistories ==
  ASSUME TypeInv, NEW id
  PROVE  /\ IsFiniteSet(Calls(id)) /\ IsFiniteSet(StartedRecords(id))
         /\ Cardinality(Calls(id)) \in Nat /\ Cardinality(StartedRecords(id)) \in Nat
<1>1. released \in Seq(Tokens) /\ file \in Seq(Log!Piece)
  BY DEF TypeInv, TypeOK
<1>2. Calls(id) \in SUBSET DOMAIN released /\ StartedRecords(id) \in SUBSET DOMAIN file
  BY DEF Calls, StartedRecords
<1> QED
  BY <1>1, <1>2, FiniteIndices

\* and so they are after the next step
LEMMA FiniteHistoriesNext ==
  ASSUME TypeInv', NEW id
  PROVE  /\ IsFiniteSet(Calls(id)') /\ IsFiniteSet(StartedRecords(id)')
         /\ Cardinality(Calls(id)') \in Nat /\ Cardinality(StartedRecords(id)') \in Nat
<1>1. released' \in Seq(Tokens) /\ file' \in Seq(Log!Piece)
  BY DEF TypeInv, TypeOK
<1>2. Calls(id)' \in SUBSET DOMAIN released' /\ StartedRecords(id)' \in SUBSET DOMAIN file'
  BY DEF Calls, StartedRecords
<1> QED
  BY <1>1, <1>2, FiniteIndices

\* an append never takes a started record away
LEMMA RecordsStay ==
  ASSUME TypeInv, [Next]_vars, NEW id
  PROVE  Cardinality(StartedRecords(id)) <= Cardinality(StartedRecords(id)')
<1>1. TypeInv'
  BY NextType
<1>2. IsFiniteSet(StartedRecords(id)')
  BY <1>1, FiniteHistoriesNext
<1>3. StartedRecords(id) \subseteq StartedRecords(id)'
  <2>1. file \in Seq(Log!Piece) /\ last \in Log!Cursor
    BY DEF TypeInv, TypeOK
  <2>2. CASE file' = file
    BY <2>2 DEF StartedRecords
  <2>3. ASSUME at \in {"started", "audit"}, NEW cut \in Log!CutPoint,
               file' = file \o Log!Written(event, cut)
        PROVE  StartedRecords(id) \subseteq StartedRecords(id)'
    <3>1. event \in RuntimeEvent
      BY <2>3, EventTypes DEF TypeInv, HasEvent, HasToken, Pending, TokenId
    <3>2. Log!Written(event, cut) \in Seq(Log!Piece)
      BY <2>1, <3>1, WrittenType
    <3>3. \A i \in DOMAIN file : i \in DOMAIN file' /\ file'[i] = file[i]
      BY <2>1, <2>3, <3>2
    <3> QED
      BY <3>3 DEF StartedRecords
  <2> QED
    BY <2>2, <2>3, FileStep
<1> QED
  BY <1>2, <1>3, FS_Subset

\* every step keeps a started record for each call of the skill adapter
LEMMA EvidenceStep ==
  SafetyInv /\ Evidence /\ [Next]_vars => Evidence'
<1> SUFFICES ASSUME SafetyInv, Evidence, [Next]_vars, NEW id \in TokenId
             PROVE  Cardinality(Calls(id)') + OnItsWay(id)'
                      <= Cardinality(StartedRecords(id)')
  BY DEF Evidence
<1>1. TypeInv /\ TypeInv'
  BY NextType DEF SafetyInv
<1>2. /\ Cardinality(Calls(id)) + OnItsWay(id) <= Cardinality(StartedRecords(id))
      /\ Cardinality(StartedRecords(id)) <= Cardinality(StartedRecords(id)')
      /\ Cardinality(Calls(id)) \in Nat /\ Cardinality(Calls(id)') \in Nat
      /\ Cardinality(StartedRecords(id)) \in Nat
      /\ Cardinality(StartedRecords(id)') \in Nat
      /\ OnItsWay(id) \in {0, 1} /\ OnItsWay(id)' \in {0, 1}
  BY <1>1, RecordsStay, FiniteHistories, FiniteHistoriesNext DEF Evidence, OnItsWay
<1>3. CASE StartedLogged
  <2>1. /\ Calls(id)' = Calls(id)
        /\ OnItsWay(id) = 0
        /\ token' = token
    BY <1>3 DEF StartedLogged, GoTo, Calls, OnItsWay
  <2>2. CASE token.id # id
    BY <1>2, <2>1, <2>2 DEF OnItsWay
  <2>3. CASE token.id = id
    <3> DEFINE n == Len(file) + 1
    <3>1. file \in Seq(Log!Piece) /\ last \in Log!Cursor /\ event \in RuntimeEvent
          /\ event.kind = "execution.started" /\ event.id = id
      BY <1>1, <1>3, <2>3, EventTypes
         DEF StartedLogged, TypeInv, TypeOK, HasEvent, HasToken, TokenId
    <3>2. file' = file \o <<Log!NextRecord(event), Log!NewLine>>
      BY <1>3 DEF StartedLogged, Log!Appended, Log!Written
    <3>3. /\ Log!NextRecord(event).kind = "record"
          /\ Log!NextRecord(event).body.event = event
      BY DEF Log!NextRecord, Log!NextBody
    <3> HIDE DEF Log!NextRecord
    <3>4. /\ n \in DOMAIN file' /\ file'[n] = Log!NextRecord(event)
          /\ n \notin DOMAIN file
          /\ \A i \in DOMAIN file : i \in DOMAIN file' /\ file'[i] = file[i]
      BY <3>1, <3>2
    <3>5. n \in StartedRecords(id)' /\ n \notin StartedRecords(id)
          /\ StartedRecords(id) \subseteq StartedRecords(id)'
      BY <3>1, <3>3, <3>4 DEF StartedRecords
    <3>6. Cardinality(StartedRecords(id) \cup {n}) = Cardinality(StartedRecords(id)) + 1
      BY <1>1, <3>5, FiniteHistories, FS_AddElement
    <3>7. Cardinality(StartedRecords(id) \cup {n}) <= Cardinality(StartedRecords(id)')
      <4>1. StartedRecords(id) \cup {n} \subseteq StartedRecords(id)'
        BY <3>5
      <4>2. IsFiniteSet(StartedRecords(id)')
        BY <1>1, FiniteHistoriesNext
      <4> QED
        BY <4>1, <4>2, FS_Subset
    <3> QED
      BY <1>2, <2>1, <3>6, <3>7
  <2> QED
    BY <2>2, <2>3
<1>4. CASE RunSkill
  <2> DEFINE n == Len(released) + 1
  <2>1. released \in Seq(Tokens) /\ token \in Tokens /\ OnItsWay(id)' = 0
    BY <1>1, <1>4 DEF RunSkill, GoTo, TypeInv, TypeOK, HasToken, OnItsWay
  <2>2. /\ DOMAIN released' = DOMAIN released \cup {n} /\ n \notin DOMAIN released
        /\ released'[n] = token
        /\ \A j \in DOMAIN released : released'[j] = released[j]
    BY <1>4, <2>1 DEF RunSkill
  <2>3. CASE token.id # id
    <3>1. Calls(id)' = Calls(id)
      BY <2>2, <2>3 DEF Calls
    <3> QED
      BY <1>2, <2>1, <3>1
  <2>4. CASE token.id = id
    <3>1. Calls(id)' = Calls(id) \cup {n} /\ n \notin Calls(id)
      BY <2>2, <2>4 DEF Calls
    <3>2. Cardinality(Calls(id)') = Cardinality(Calls(id)) + 1
      BY <1>1, <3>1, FiniteHistories, FS_AddElement
    <3>3. OnItsWay(id) = 1
      BY <1>4, <2>4 DEF RunSkill, OnItsWay
    <3> QED
      BY <1>2, <2>1, <3>2, <3>3
  <2> QED
    BY <2>3, <2>4
<1>5. ASSUME ~StartedLogged, ~RunSkill
      PROVE  Calls(id)' = Calls(id) /\ OnItsWay(id)' <= OnItsWay(id)
  <2>1. released' = released
    BY <1>5, ReleaseStep
  <2>2. at' = "skill" => at = "skill" /\ token' = token
    BY <1>5 DEF Next, vars, ExecutePasses, ExecuteRefused, StartedFails,
      UnknownSkill, SetEmergencyStop, Persist, PersistFails, AuditThenReply, AuditFails,
      Crash, Open, Tick, GoTo, Release, requestVars
  <2> QED
    BY <2>1, <2>2 DEF Calls, OnItsWay
<1> QED
  BY <1>2, <1>3, <1>4, <1>5

(***************************************************************************)
(* No call of the skill adapter without its own started record in the log. *)
(***************************************************************************)
THEOREM CallsAreEvidenced == Spec => []ReleasesAreEvidenced
<1>1. Init => Evidence
  <2> SUFFICES ASSUME Init, NEW id \in TokenId
               PROVE  Cardinality(Calls(id)) + OnItsWay(id)
                        <= Cardinality(StartedRecords(id))
    BY DEF Evidence
  <2>1. Calls(id) = {} /\ StartedRecords(id) = {} /\ OnItsWay(id) = 0
    BY DEF Init, Calls, StartedRecords, OnItsWay
  <2> QED
    BY <2>1, FS_EmptySet
<1>2. SafetyInv /\ Evidence => ReleasesAreEvidenced
  <2> SUFFICES ASSUME TypeInv, Evidence, NEW id \in TokenId
               PROVE  Cardinality(Calls(id)) <= Cardinality(StartedRecords(id))
    BY DEF SafetyInv, ReleasesAreEvidenced, Calls
  <2> QED
    BY FiniteHistories DEF Evidence, OnItsWay
<1> QED
  BY <1>1, <1>2, EvidenceStep, Safety, PTL DEF Spec
=============================================================================
