--------------------------- MODULE AuditLogProofs ---------------------------
(***************************************************************************)
(* Proofs about one audit log: types, the permanence of damage, the        *)
(* completeness of a log that verifies, and, when appends are all or       *)
(* nothing, that the log always verifies.  The same facts hold beside a    *)
(* follower, whose output is proved to be a stretch of the log.            *)
(***************************************************************************)
EXTENDS AuditFollow, AuditFileProofs, SequenceTheorems

(***************************************************************************)
(* A step leaves the file alone or writes pieces behind it.                *)
(***************************************************************************)
LEMMA StepAppends ==
  ASSUME TypeOK, [Next]_vars
  PROVE  file' = file \/ \E w \in Seq(Piece) : file' = file \o w
<1> USE FaultAssumption DEF TypeOK
<1>1. CASE OpenVerified
  BY <1>1 DEF OpenVerified, Opened
<1>2. CASE Stop
  BY <1>2 DEF Stop
<1>3. ASSUME NEW e \in Event, AppendRecord(e)
      PROVE  \E w \in Seq(Piece) : file' = file \o w
  BY <1>3, WrittenType DEF AppendRecord, Appended, CutPoint
<1>4. ASSUME NEW e \in Event, AppendFails(e)
      PROVE  \E w \in Seq(Piece) : file' = file \o w
  <2>1. PICK at \in IoFaults : AppendCut(e, at)
    BY <1>4 DEF AppendFails
  <2> QED
    BY <2>1, WrittenType DEF AppendCut
<1>5. ASSUME NEW e \in Event, KilledInAppend(e)
      PROVE  \E w \in Seq(Piece) : file' = file \o w
  <2>1. PICK at \in KillPoints : file' = file \o Written(e, at)
    BY <1>5 DEF KilledInAppend
  <2> QED
    BY <2>1, WrittenType
<1>6. CASE UNCHANGED vars
  BY <1>6 DEF vars
<1> QED
  BY <1>1, <1>2, <1>3, <1>4, <1>5, <1>6 DEF Next

-----------------------------------------------------------------------------
(***************************************************************************)
(* The file is made of pieces and the cursor is one, at every cut point.   *)
(***************************************************************************)
LEMMA NoTipType == NoTip \in Cursor
BY DEF NoTip, Cursor, Genesis, Hash

\* the type invariant holds before the first open
LEMMA InitType == Init => TypeOK
<1> SUFFICES ASSUME Init PROVE TypeOK
  OBVIOUS
<1>1. << >> \in Seq(Piece)
  OBVIOUS
<1> QED
  BY <1>1, NoTipType DEF Init, TypeOK

\* every step of the log keeps the type invariant
LEMMA NextType == TypeOK /\ [Next]_vars => TypeOK'
<1> SUFFICES ASSUME TypeOK, [Next]_vars PROVE TypeOK'
  OBVIOUS
<1>1. file' \in Seq(Piece)
  <2>1. file' = file \/ \E w \in Seq(Piece) : file' = file \o w
    BY StepAppends
  <2>2. file \in Seq(Piece)
    BY DEF TypeOK
  <2>3. ASSUME NEW w \in Seq(Piece), file' = file \o w
        PROVE  file' \in Seq(Piece)
    BY <2>2, <2>3
  <2> QED
    BY <2>1, <2>2, <2>3
<1>2. CASE OpenVerified
  <2>1. last' \in Cursor
    BY <1>2, TipType DEF OpenVerified, Opened, Verifies, TypeOK
  <2> QED
    BY <1>1, <1>2, <2>1 DEF OpenVerified, TypeOK
<1>3. CASE Stop
  BY <1>1, <1>3, NoTipType DEF Stop, TypeOK
<1>4. ASSUME NEW e \in Event, AppendRecord(e)
      PROVE  TypeOK'
  <2>1. last' \in Cursor /\ NextRecord(e) \in Record
    BY <1>4, NextRecordType DEF AppendRecord, Appended, TypeOK
  <2> QED
    BY <1>1, <1>4, <2>1 DEF AppendRecord, TypeOK
<1>5. ASSUME NEW e \in Event, AppendFails(e)
      PROVE  TypeOK'
  BY <1>1, <1>5 DEF AppendFails, AppendCut, TypeOK
<1>6. ASSUME NEW e \in Event, KilledInAppend(e)
      PROVE  TypeOK'
  BY <1>1, <1>6, NoTipType DEF KilledInAppend, TypeOK
<1>7. CASE UNCHANGED vars
  BY <1>7 DEF vars, TypeOK
<1> QED
  BY <1>2, <1>3, <1>4, <1>5, <1>6, <1>7 DEF Next

\* AuditLog keeps its types for all events, signers, faults and bounds (audit.rs:40-114)
THEOREM TypeCorrect == Spec => []TypeOK
BY InitType, NextType, PTL DEF Spec

-----------------------------------------------------------------------------
(***************************************************************************)
(* Whatever the faults, a damaged log stays damaged.                       *)
(***************************************************************************)
THEOREM DamagePersists == Spec => DamageIsPermanent
<1>1. TypeOK /\ [Next]_vars => [~Verifies(file) => ~Verifies(file')]_vars
  <2> SUFFICES ASSUME TypeOK, [Next]_vars, Verifies(file')
               PROVE  Verifies(file)
    OBVIOUS
  <2>1. CASE file' = file
    BY <2>1
  <2>2. ASSUME NEW w \in Seq(Piece), file' = file \o w
        PROVE  Verifies(file)
    BY <2>2, PrefixVerifies DEF TypeOK
  <2> QED
    BY <2>1, <2>2, StepAppends
<1> QED
  BY <1>1, TypeCorrect, PTL DEF Spec, DamageIsPermanent

-----------------------------------------------------------------------------
(***************************************************************************)
(* Whatever the faults, a log that verifies shows every record that was    *)
(* acknowledged.  Such a record stays in the file as a whole text; in a    *)
(* file that parses the whole texts are exactly the lines.                 *)
(***************************************************************************)
AckedInFile ==
  \A r \in acked : \E i \in DOMAIN file : file[i] = r

\* every step keeps the acknowledged records among the lines of the file
LEMMA AckedStep == TypeOK /\ AckedInFile /\ [Next]_vars => AckedInFile'
<1> SUFFICES ASSUME TypeOK, AckedInFile, [Next]_vars PROVE AckedInFile'
  OBVIOUS
<1>1. \A i \in DOMAIN file : i \in DOMAIN file' /\ file'[i] = file[i]
  <2>1. file' = file \/ \E w \in Seq(Piece) : file' = file \o w
    BY StepAppends
  <2>2. file \in Seq(Piece)
    BY DEF TypeOK
  <2>3. ASSUME NEW w \in Seq(Piece), file' = file \o w
        PROVE  \A i \in DOMAIN file : i \in DOMAIN file' /\ file'[i] = file[i]
    BY <2>2, <2>3
  <2> QED
    BY <2>1, <2>2, <2>3
<1>2. \A r \in acked : \E i \in DOMAIN file' : file'[i] = r
  BY <1>1 DEF AckedInFile
<1>3. ASSUME NEW e \in Event, AppendRecord(e)
      PROVE  AckedInFile'
  <2>1. file' = file \o <<NextRecord(e), NewLine>>
    BY <1>3 DEF AppendRecord, Appended, Written
  <2>2. Len(file) + 1 \in DOMAIN file' /\ file'[Len(file) + 1] = NextRecord(e)
    BY <2>1 DEF TypeOK
  <2> QED
    BY <1>2, <1>3, <2>2 DEF AppendRecord, AckedInFile
<1>4. CASE acked' = acked
  BY <1>2, <1>4 DEF AckedInFile
<1> QED
  BY <1>3, <1>4 DEF Next, OpenVerified, Stop, AppendFails, KilledInAppend, vars

\* in a file that verifies, a line that holds a record is one of its records
LEMMA AckedIsShown == TypeOK /\ AckedInFile => VerifiedIsComplete
<1> SUFFICES ASSUME TypeOK, AckedInFile, Verifies(file), NEW r \in acked
             PROVE  \E i \in DOMAIN Records(file) : Records(file)[i] = r
  BY DEF VerifiedIsComplete
<1>1. PICK j \in 1..Len(file) : file[j] = r
  BY DEF AckedInFile, TypeOK
<1>2. file[j].kind = "record"
  BY <1>1 DEF TypeOK, Record
<1>3. j % 2 = 1
  BY <1>1, <1>2 DEF Verifies, Parses, TypeOK
<1> DEFINE i == (j + 1) \div 2
<1>4. i \in 1..((Len(file) + 1) \div 2) /\ 2 * i - 1 = j
  BY <1>3 DEF TypeOK
<1>5. Records(file)[i] = r /\ i \in DOMAIN Records(file)
  BY <1>1, <1>4 DEF Records
<1> QED
  BY <1>5

\* a log that verifies holds every acknowledged record (audit.rs:87-149)
THEOREM VerifiedLogIsComplete == Spec => []VerifiedIsComplete
<1>1. Init => AckedInFile
  BY DEF Init, AckedInFile
<1> QED
  BY <1>1, TypeCorrect, AckedStep, AckedIsShown, PTL DEF Spec

-----------------------------------------------------------------------------
(***************************************************************************)
(* When an append fails before it writes, or not at all, and a kill comes  *)
(* before or after an append, the log verifies in every state and the      *)
(* cursor of the running process is its tip.  The invariant adds that the  *)
(* file ends in a newline: without it the next record would share a line.  *)
(***************************************************************************)
AtomicAppends == IoFaults \subseteq {"open"} /\ KillPoints \subseteq {"open", "sync"}

CursorInv ==
  /\ TypeOK
  /\ Whole(file)
  /\ up => last = Tip(file)

\* with appends that are all or nothing, every step keeps the cursor at the tip of a log that verifies
LEMMA CursorStep == AtomicAppends /\ CursorInv /\ [Next]_vars => CursorInv'
<1> SUFFICES ASSUME AtomicAppends, CursorInv, [Next]_vars
             PROVE  Whole(file') /\ (up' => last' = Tip(file'))
  BY NextType DEF CursorInv
<1>1. TypeOK /\ last \in Cursor /\ file \in Seq(Piece)
  BY DEF CursorInv, TypeOK
<1>2. CASE OpenVerified
  BY <1>2 DEF OpenVerified, Opened, CursorInv
<1>3. CASE Stop
  BY <1>3 DEF Stop, CursorInv
<1>4. ASSUME NEW e \in Event, up, NEW at \in {"open", "sync"},
             file' = file \o Written(e, at)
      PROVE  Whole(file')
  <2>1. CASE at = "open"
    BY <1>1, <1>4, <2>1 DEF Written, CursorInv
  <2>2. CASE at = "sync"
    BY <1>1, <1>4, <2>2, AppendKeepsWhole DEF CursorInv
  <2> QED
    BY <1>4, <2>1, <2>2
<1>5. ASSUME NEW e \in Event, AppendRecord(e)
      PROVE  Whole(file') /\ last' = Tip(file')
  BY <1>1, <1>5, AppendKeepsWhole DEF AppendRecord, Appended, CursorInv
<1>6. ASSUME NEW e \in Event, AppendFails(e)
      PROVE  Whole(file') /\ last' = Tip(file')
  <2>1. AppendCut(e, "open")
    BY <1>6 DEF AppendFails, AtomicAppends
  <2>2. file' = file /\ last' = last
    BY <1>1, <2>1 DEF AppendCut, Written
  <2> QED
    BY <1>6, <2>2 DEF AppendFails, CursorInv
<1>7. ASSUME NEW e \in Event, KilledInAppend(e)
      PROVE  Whole(file') /\ ~up'
  BY <1>4, <1>7 DEF KilledInAppend, AtomicAppends
<1>8. CASE UNCHANGED vars
  BY <1>8 DEF vars, CursorInv
<1> QED
  BY <1>2, <1>3, <1>5, <1>6, <1>7, <1>8 DEF Next

\* with appends that are all or nothing, the open log verifies and its cursor is its tip (audit.rs:87-114)
THEOREM CursorFollowsTip ==
  ASSUME AtomicAppends
  PROVE  Spec => []CursorIsTip
<1>1. Init => CursorInv
  BY InitType DEF Init, CursorInv, Whole, Verifies, Parses, Records
<1>2. CursorInv => CursorIsTip
  BY DEF CursorInv, CursorIsTip, Whole
<1>3. CursorInv /\ [Next]_vars => CursorInv'
  BY CursorStep
<1> QED
  BY <1>1, <1>2, <1>3, PTL DEF Spec

-----------------------------------------------------------------------------
(***************************************************************************)
(* The follower.  It writes nothing that the log reads, so each step of    *)
(* the two together is a step of the log, or leaves the log alone.         *)
(***************************************************************************)
LEMMA FollowerOnlyReads == [FollowNext]_allVars => [Next]_vars
<1> SUFFICES ASSUME [FollowNext]_allVars PROVE [Next]_vars
  OBVIOUS
<1>1. ASSUME NEW e \in Event, TailInsideAppend(e) PROVE Next
  BY <1>1 DEF TailInsideAppend, AnyAppend, Next
<1> QED
  BY <1>1 DEF FollowNext, TailAtRest, allVars

\* beside a follower the log behaves as it does alone
LEMMA LogBesideFollower == FollowSpec => Spec
<1>1. FollowInit => Init
  BY DEF FollowInit
<1> QED
  BY <1>1, FollowerOnlyReads, PTL DEF FollowSpec, Spec

\* a follower does not change what is permanent in the log it reads (audit.rs:79-85)
THEOREM FollowedDamagePersists == FollowSpec => DamageIsPermanent
BY LogBesideFollower, DamagePersists, PTL

\* nor that a log which verifies holds every acknowledged record (audit.rs:87-149)
THEOREM FollowedLogIsComplete == FollowSpec => []VerifiedIsComplete
BY LogBesideFollower, VerifiedLogIsComplete, PTL

-----------------------------------------------------------------------------
(***************************************************************************)
(* What the follower reads is a file that extends the one it knew and is   *)
(* extended by the one that the step leaves behind: at rest it is both, in *)
(* the middle of an append it ends with a part of what the append writes.  *)
(***************************************************************************)
Extends(g, f) == Len(f) <= Len(g) /\ \A i \in 1..Len(f) : g[i] = f[i]

\* a read inside an append sees the old file and a prefix of the new one, or cannot be parsed
LEMMA ReadInside ==
  ASSUME TypeOK, [Next]_vars, NEW e \in Event, TailInsideAppend(e),
         NEW view \in SeenInside(e)
  PROVE  /\ view \in Seq(Piece)
         /\ Extends(view, file)
         /\ Parses(view) => Extends(file', view)
<1>1. file \in Seq(Piece) /\ file' \in Seq(Piece) /\ last \in Cursor
  BY NextType DEF TypeOK
<1>2. NextRecord(e) \in Piece /\ Torn \in Piece
  BY <1>1, NextRecordType DEF Piece, Torn
<1>3. /\ Len(file') > Len(file) /\ file'[Len(file) + 1] = NextRecord(e)
      /\ Extends(file', file)
  <2>1. file' = file \/ \E w \in Seq(Piece) : file' = file \o w
    BY StepAppends
  <2>2. ASSUME NEW w \in Seq(Piece), file' = file \o w PROVE Extends(file', file)
    BY <1>1, <2>2 DEF Extends
  <2>3. Len(file') > Len(file) /\ file'[Len(file) + 1] = NextRecord(e)
    BY DEF TailInsideAppend
  <2>4. file' # file
    BY <1>1, <2>3
  <2> QED
    BY <2>1, <2>2, <2>3, <2>4
<1>4. CASE view = file \o <<NextRecord(e)>>
  <2>1. /\ view \in Seq(Piece) /\ Len(view) = Len(file) + 1
        /\ view[Len(file) + 1] = NextRecord(e)
        /\ \A i \in 1..Len(file) : view[i] = file[i]
    BY <1>1, <1>2, <1>4
  <2>2. Len(file) \in Nat /\ Len(file') \in Nat
    BY <1>1
  <2> QED
    BY <1>3, <2>1, <2>2 DEF Extends
<1>5. CASE view = file \o <<Torn>>
  <2>1. /\ view \in Seq(Piece) /\ Len(view) = Len(file) + 1
        /\ view[Len(file) + 1] = Torn
        /\ \A i \in 1..Len(file) : view[i] = file[i]
    BY <1>1, <1>2, <1>5
  <2>2. Len(file) + 1 \in DOMAIN view /\ Torn.kind = "torn"
    BY <1>1, <2>1 DEF Torn
  <2>3. ~Parses(view)
    BY <2>1, <2>2 DEF Parses
  <2> QED
    BY <1>1, <2>1, <2>3 DEF Extends
<1> QED
  BY <1>4, <1>5 DEF SeenInside, Written

\* the positions of a stretch of records, and of their lines in the file
LEMMA Positions ==
  ASSUME NEW lo \in Nat, NEW hi \in Nat, lo <= hi
  PROVE  /\ hi - lo \in Nat
         /\ \A i \in 1..(hi - lo) : /\ lo + i \in 1..hi
                                    /\ 2 * (lo + i) - 1 \in 1..(2 * hi - 1)
OBVIOUS

\* s is the stretch of the records rs behind the first lo, up to number hi
IsStretch(s, rs, lo, hi) ==
  /\ s \in Seq(Record) /\ Len(s) = hi - lo
  /\ \A i \in 1..(hi - lo) : s[i] = rs[lo + i]

\* a stretch cut out of a sequence
LEMMA CutStretch ==
  ASSUME NEW rs \in Seq(Record), NEW lo \in Nat, lo <= Len(rs)
  PROVE  IsStretch(SubSeq(rs, lo + 1, Len(rs)), rs, lo, Len(rs))
<1> DEFINE hi == Len(rs)
<1>1. lo + 1 \in Int /\ hi \in Int /\ \A i \in (lo + 1)..hi : rs[i] \in Record
  OBVIOUS
<1>2. /\ SubSeq(rs, lo + 1, hi) \in Seq(Record)
      /\ Len(SubSeq(rs, lo + 1, hi)) = IF lo + 1 <= hi THEN hi - (lo + 1) + 1 ELSE 0
      /\ \A i \in 1..(hi - (lo + 1) + 1) :
           SubSeq(rs, lo + 1, hi)[i] = rs[(lo + 1) + i - 1]
  BY <1>1, SubSeqProperties
<1> QED
  BY <1>2 DEF IsStretch

\* a stretch followed by the next one is a stretch
LEMMA Continued ==
  ASSUME NEW rs \in Seq(Record), NEW s, NEW lo \in Nat, NEW mid \in Nat,
         lo <= mid, mid <= Len(rs), IsStretch(s, rs, lo, mid)
  PROVE  IsStretch(s \o SubSeq(rs, mid + 1, Len(rs)), rs, lo, Len(rs))
<1> DEFINE hi == Len(rs)
           u  == SubSeq(rs, mid + 1, hi)
           t  == s \o u
<1>1. /\ u \in Seq(Record) /\ Len(u) = hi - mid
      /\ \A i \in 1..(hi - mid) : u[i] = rs[mid + i]
      /\ hi \in Nat
  BY CutStretch DEF IsStretch
<1>2. /\ s \in Seq(Record) /\ Len(s) = mid - lo
      /\ \A i \in 1..(mid - lo) : s[i] = rs[lo + i]
  BY DEF IsStretch
<1>3. /\ t \in Seq(Record) /\ Len(t) = Len(s) + Len(u)
      /\ \A i \in 1..(Len(s) + Len(u)) :
           t[i] = IF i <= Len(s) THEN s[i] ELSE u[i - Len(s)]
  <2> HIDE DEF u
  <2> QED
    BY <1>1, <1>2, ConcatProperties, Zenon
<1> HIDE DEF hi, u, t
<1>4. Len(s) + Len(u) = hi - lo
  BY <1>1, <1>2
<1>5. ASSUME NEW i \in 1..(hi - lo) PROVE t[i] = rs[lo + i]
  <2>1. CASE i <= mid - lo
    BY <1>1, <1>2, <1>3, <1>4, <2>1
  <2>2. CASE ~(i <= mid - lo)
    <3>1. i - (mid - lo) \in 1..(hi - mid) /\ mid + (i - (mid - lo)) = lo + i
      BY <1>1, <2>2
    <3> QED
      BY <1>1, <1>2, <1>3, <1>4, <2>2, <3>1
  <2> QED
    BY <2>1, <2>2
<1>6. IsStretch(t, rs, lo, hi)
  BY <1>3, <1>4, <1>5 DEF IsStretch
<1> QED
  BY <1>6 DEF t, u, hi

\* what was printed is a stretch of every longer file, too
LEMMA PrintedStays ==
  ASSUME FollowTypeOK, PrintsEachOnce, file' \in Seq(Piece), Extends(file', file),
         UNCHANGED <<first, seen, printed>>
  PROVE  PrintsEachOnce'
<1>1. /\ file \in Seq(Piece) /\ seen \in Nat /\ first \in Nat
      /\ Len(file) \in Nat /\ Len(file') \in Nat
  BY DEF FollowTypeOK, TypeOK
<1>2. ASSUME NEW i \in 1..(2 * seen - 1)
      PROVE  /\ i \in 1..Len(file) /\ i \in 1..Len(file') /\ file'[i] = file[i]
             /\ file[i].kind = IF i % 2 = 1 THEN "record" ELSE "newline"
  <2>1. i \in 1..Len(file) /\ file[i].kind = IF i % 2 = 1 THEN "record" ELSE "newline"
    BY <1>1 DEF PrintsEachOnce
  <2>2. Len(file) <= Len(file') /\ \A j \in 1..Len(file) : file'[j] = file[j]
    BY DEF Extends
  <2> QED
    BY <1>1, <2>1, <2>2
<1>3. \A i \in 1..(seen - first) : 2 * (first + i) - 1 \in 1..(2 * seen - 1)
  BY <1>1, Positions DEF PrintsEachOnce
<1>4. /\ first <= seen
      /\ printed = [i \in 1..(seen - first) |-> file'[2 * (first + i) - 1]]
  BY <1>2, <1>3 DEF PrintsEachOnce
<1>5. \A i \in 1..(2 * seen - 1) :
        i \in DOMAIN file' /\ file'[i].kind = IF i % 2 = 1 THEN "record" ELSE "newline"
  BY <1>1, <1>2
<1> QED
  BY <1>4, <1>5 DEF PrintsEachOnce

(***************************************************************************)
(* One read, at rest or inside an append: the lines it prints continue     *)
(* those printed before.                                                   *)
(***************************************************************************)
LEMMA ReadPrints ==
  ASSUME FollowTypeOK, PrintsEachOnce, NEW view \in Seq(Piece),
         file' \in Seq(Piece), Extends(view, file), Extends(file', file),
         Parses(view) => Extends(file', view), StartTail(view) \/ Poll(view)
  PROVE  /\ PrintsEachOnce'
         /\ follower' \in {"none", "following", "ended"}
         /\ first' \in Nat /\ seen' \in Nat /\ printed' \in Seq(Record)
<1> DEFINE rs == Records(view)
           n  == Len(rs)
<1>1. /\ file \in Seq(Piece) /\ seen \in Nat /\ first \in Nat /\ printed \in Seq(Record)
      /\ Len(file) \in Nat /\ Len(file') \in Nat /\ Len(view) \in Nat
  BY DEF FollowTypeOK, TypeOK
<1>2. CASE UNCHANGED <<first, seen, printed>>
  BY <1>1, <1>2, PrintedStays DEF StartTail, Poll
<1>3. CASE Parses(view)
  <2>1. /\ rs \in Seq(Record) /\ n = (Len(view) + 1) \div 2
        /\ \A i \in 1..n : rs[i] = view[2 * i - 1]
    BY <1>3, RecordsType
  <2>2. /\ n \in Nat /\ 2 * n - 1 <= Len(view) /\ Len(view) <= 2 * n
        /\ Len(view) <= Len(file')
    BY <1>1, <1>3, <2>1 DEF Extends
  <2> HIDE DEF rs, n
  <2>3. \A i \in 1..(2 * n - 1) :
          /\ i \in DOMAIN file' /\ file'[i] = view[i]
          /\ file'[i].kind = IF i % 2 = 1 THEN "record" ELSE "newline"
    BY <1>1, <1>3, <2>2 DEF Extends, Parses
  <2>4. \A i \in 1..n : rs[i] = file'[2 * i - 1]
    <3>1. \A i \in 1..n : 2 * i - 1 \in 1..(2 * n - 1)
      BY <2>2
    <3> QED
      BY <2>1, <2>3, <3>1
  <2>5. rs \in Seq(Record) /\ n = Len(rs)
    BY <2>1 DEF n
  <2>6. ASSUME seen' = n, first' \in Nat, first' <= n, IsStretch(printed', rs, first', n)
        PROVE  PrintsEachOnce' /\ printed' \in Seq(Record) /\ seen' \in Nat
    <3>1. \A i \in 1..(n - first') : first' + i \in 1..n
      BY <2>2, <2>6, Positions
    <3>2. \A i \in 1..(n - first') : printed'[i] = file'[2 * (first' + i) - 1]
      BY <2>4, <2>6, <3>1 DEF IsStretch
    <3>3. printed' = [i \in 1..(n - first') |-> file'[2 * (first' + i) - 1]]
      BY <2>6, <3>2 DEF IsStretch
    <3> QED
      BY <2>2, <2>3, <2>6, <3>3 DEF PrintsEachOnce, IsStretch
  <2>7. CASE /\ first' = OldestShown(n)
             /\ printed' = SubSeq(rs, first' + 1, n)
             /\ seen' = n
             /\ follower' = "following"
    <3>1. first' \in Nat /\ first' <= n
      BY <2>2, <2>7, LinesAssumption DEF OldestShown
    <3>2. IsStretch(printed', rs, first', n)
      BY <2>5, <2>7, <3>1, CutStretch
    <3> QED
      BY <2>6, <2>7, <3>1, <3>2
  <2>8. CASE /\ printed' = printed \o SubSeq(rs, seen + 1, n)
             /\ seen' = n
             /\ UNCHANGED <<follower, first>>
    <3>1. first <= seen
      BY DEF PrintsEachOnce
    <3>2. seen <= n
      <4>1. seen # 0 => 2 * seen - 1 \in 1..Len(file)
        BY <1>1 DEF PrintsEachOnce
      <4>2. Len(file) <= Len(view)
        BY DEF Extends
      <4> QED
        BY <1>1, <2>2, <4>1, <4>2
    <3>3. IsStretch(printed, rs, first, seen)
      <4>1. \A i \in 1..(seen - first) : printed[i] = file[2 * (first + i) - 1]
        BY DEF PrintsEachOnce
      <4>2. \A i \in 1..(2 * seen - 1) : file'[i] = file[i]
        BY <1>1 DEF PrintsEachOnce, Extends
      <4>3. \A i \in 1..(seen - first) : printed[i] = file'[2 * (first + i) - 1]
        BY <1>1, <3>1, <4>1, <4>2, Positions
      <4>4. \A i \in 1..(seen - first) : first + i \in 1..n
        BY <1>1, <2>2, <3>1, <3>2
      <4>5. Len(printed) = seen - first
        BY <1>1, <3>1, Positions DEF PrintsEachOnce
      <4> QED
        BY <1>1, <2>4, <4>3, <4>4, <4>5 DEF IsStretch
    <3>4. IsStretch(printed', rs, first', n)
      BY <1>1, <2>5, <2>8, <3>1, <3>2, <3>3, Continued
    <3>5. first' \in Nat /\ first' <= n
      BY <1>1, <2>2, <2>8, <3>1, <3>2
    <3>6. follower' \in {"none", "following", "ended"}
      BY <2>8 DEF FollowTypeOK
    <3> QED
      BY <2>6, <2>8, <3>4, <3>5, <3>6
  <2> QED
    BY <1>2, <1>3, <2>7, <2>8 DEF StartTail, Poll, rs, n
<1> QED
  BY <1>2, <1>3 DEF StartTail, Poll

(***************************************************************************)
(* Nothing is left out and nothing printed twice, wherever the reads fall  *)
(* and whatever happens to the writer between them.                        *)
(***************************************************************************)
FollowInv == FollowTypeOK /\ PrintsEachOnce

\* every step of the log and of its follower keeps what was printed a stretch of the log
LEMMA FollowStep == FollowInv /\ [FollowNext]_allVars => FollowInv'
<1> SUFFICES ASSUME FollowInv, [FollowNext]_allVars PROVE FollowInv'
  OBVIOUS
<1>1. FollowTypeOK /\ PrintsEachOnce /\ TypeOK /\ [Next]_vars /\ TypeOK'
  BY FollowerOnlyReads, NextType DEF FollowInv, FollowTypeOK
<1>2. file \in Seq(Piece) /\ file' \in Seq(Piece)
  BY <1>1 DEF TypeOK
<1>3. Extends(file', file) /\ Extends(file, file)
  <2>1. file' = file \/ \E w \in Seq(Piece) : file' = file \o w
    BY <1>1, StepAppends
  <2>2. ASSUME NEW w \in Seq(Piece), file' = file \o w PROVE Extends(file', file)
    BY <1>2, <2>2 DEF Extends
  <2>3. Extends(file, file)
    BY <1>2 DEF Extends
  <2> QED
    BY <2>1, <2>2, <2>3
<1>4. ASSUME UNCHANGED <<first, seen, printed>>, follower' \in {follower, "ended"}
      PROVE  FollowInv'
  BY <1>1, <1>2, <1>3, <1>4, PrintedStays DEF FollowInv, FollowTypeOK
<1>5. CASE TailAtRest
  <2>1. file' = file /\ (StartTail(file) \/ Poll(file))
    BY <1>5 DEF TailAtRest, vars
  <2> QED
    BY <1>1, <1>2, <1>3, <2>1, ReadPrints DEF FollowInv, FollowTypeOK
<1>6. ASSUME NEW e \in Event, TailInsideAppend(e) PROVE FollowInv'
  <2>1. PICK view \in SeenInside(e) : StartTail(view) \/ Poll(view)
    BY <1>6 DEF TailInsideAppend
  <2>2. /\ view \in Seq(Piece) /\ Extends(view, file)
        /\ Parses(view) => Extends(file', view)
    BY <1>1, <1>6, <2>1, ReadInside
  <2> QED
    BY <1>1, <1>2, <1>3, <2>1, <2>2, ReadPrints DEF FollowInv, FollowTypeOK
<1> QED
  BY <1>4, <1>5, <1>6 DEF FollowNext, QuitTail, followVars, allVars

\* what tail prints is a stretch of the log, and the types are kept (main.rs:863-869, 891-910)
LEMMA FollowCorrect == FollowSpec => []FollowInv
<1>1. FollowInit => FollowInv
  <2> SUFFICES ASSUME FollowInit PROVE FollowInv
    OBVIOUS
  <2>1. TypeOK
    BY InitType DEF FollowInit
  <2>2. printed = << >> /\ first = 0 /\ seen = 0 /\ follower = "none"
    BY DEF FollowInit
  <2>3. printed \in Seq(Record) /\ printed = [i \in 1..(seen - first) |-> file[2 * (first + i) - 1]]
    BY <2>2
  <2> QED
    BY <2>1, <2>2, <2>3 DEF FollowInv, FollowTypeOK, PrintsEachOnce
<1> QED
  BY <1>1, FollowStep, PTL DEF FollowSpec

\* the types of the log and of its follower (audit.rs:40-114, main.rs:855-925)
THEOREM FollowTypeCorrect == FollowSpec => []FollowTypeOK
BY FollowCorrect, PTL DEF FollowInv

\* the follower leaves nothing out and prints nothing twice (main.rs:863-869, 891-910)
THEOREM FollowerPrintsEachOnce == FollowSpec => []PrintsEachOnce
BY FollowCorrect, PTL DEF FollowInv
=============================================================================
