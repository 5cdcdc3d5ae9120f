-------------------------- MODULE AuditFileProofs --------------------------
(***************************************************************************)
(* Facts about the pieces of an audit file and its verification, for any   *)
(* process that writes one.                                                *)
(***************************************************************************)
EXTENDS AuditFile, TLAPS

(***************************************************************************)
(* What append writes, wherever it is cut, are pieces; its cursor is one.  *)
(***************************************************************************)
LEMMA NextRecordType ==
  ASSUME last \in Cursor, NEW e \in Event
  PROVE  /\ NextRecord(e) \in Record
         /\ NextRecord(e).kind = "record"
         /\ NextRecord(e).body = NextBody(e)
         /\ [index |-> NextBody(e).index, hash |-> Sha256(NextBody(e))] \in Cursor
<1> USE SignerAssumption
<1>1. NextBody(e) \in Body
  BY DEF NextBody, Body, Cursor
<1>2. NextBody(e).prev \in Hash /\ NextBody(e).index \in Nat
  BY <1>1 DEF Body
<1>3. Sha256(NextBody(e)) \in Hash
  BY <1>1, <1>2 DEF Sha256, Hash, Body
<1>4. Sign(Signer, Sha256(NextBody(e))) \in Signature
  BY <1>3 DEF Sign, Signature
<1> QED
  BY <1>1, <1>2, <1>3, <1>4 DEF NextRecord, Record, Cursor

\* a cut append adds pieces to the file, whatever the cut point
LEMMA WrittenType ==
  ASSUME last \in Cursor, NEW e \in Event, NEW cut \in CutPoint
  PROVE  Written(e, cut) \in Seq(Piece)
<1>1. NextRecord(e) \in Piece
  BY NextRecordType DEF Piece
<1>2. Torn \in Piece /\ NewLine \in Piece
  BY DEF Torn, NewLine, Piece
<1> QED
  BY <1>1, <1>2 DEF Written, CutPoint

(***************************************************************************)
(* A prefix of a log that verifies verifies: what is damaged cannot be     *)
(* repaired by writing behind it.                                          *)
(***************************************************************************)
LEMMA PrefixVerifies ==
  ASSUME NEW f \in Seq(Piece), NEW w \in Seq(Piece), Verifies(f \o w)
  PROVE  Verifies(f)
<1> DEFINE g == f \o w
<1>1. /\ g \in Seq(Piece)
      /\ Len(f) \in Nat /\ Len(g) \in Nat /\ Len(f) <= Len(g)
      /\ \A i \in 1..Len(f) : g[i] = f[i]
  OBVIOUS
<1>2. Parses(f)
  BY <1>1 DEF Verifies, Parses
<1>3. \A i \in DOMAIN Records(f) :
        i \in DOMAIN Records(g) /\ Records(f)[i] = Records(g)[i]
  BY <1>1 DEF Records
<1>4. ASSUME NEW i \in DOMAIN Records(f)
      PROVE  HoldsAt(Records(f), i)
  <2>1. HoldsAt(Records(g), i)
    BY <1>3 DEF Verifies
  <2>2. i \in Nat /\ (i # 1 => i - 1 \in DOMAIN Records(f))
    BY <1>1 DEF Records
  <2> QED
    BY <1>3, <2>1, <2>2 DEF HoldsAt
<1> QED
  BY <1>2, <1>4 DEF Verifies
(***************************************************************************)
(* The readable lines of a log that parses are records, one for every two  *)
(* pieces; its tip is a cursor.                                            *)
(***************************************************************************)
LEMMA RecordsType ==
  ASSUME NEW f \in Seq(Piece), Parses(f)
  PROVE  /\ Records(f) \in Seq(Record)
         /\ Len(Records(f)) = (Len(f) + 1) \div 2
         /\ \A i \in 1..Len(Records(f)) : Records(f)[i] = f[2 * i - 1]
<1> DEFINE n == (Len(f) + 1) \div 2
<1>1. n \in Nat /\ \A i \in 1..n : 2 * i - 1 \in 1..Len(f) /\ (2 * i - 1) % 2 = 1
  OBVIOUS
<1>2. \A i \in 1..n : f[2 * i - 1] \in Piece /\ f[2 * i - 1].kind = "record"
  BY <1>1 DEF Parses
<1>3. \A i \in 1..n : f[2 * i - 1] \in Record
  BY <1>2 DEF Piece
<1> QED
  BY <1>1, <1>3 DEF Records

\* the tip of a log whose lines are records is a cursor
LEMMA TipType ==
  ASSUME NEW f \in Seq(Piece), Parses(f)
  PROVE  Tip(f) \in Cursor
<1>1. CASE f = << >>
  BY <1>1 DEF Tip, NoTip, Cursor, Genesis, Hash
<1>2. CASE f # << >>
  <2>1. Len(Records(f)) \in 1..Len(Records(f))
    BY <1>2, RecordsType
  <2>2. Records(f)[Len(Records(f))] \in Record
    BY <2>1, RecordsType
  <2> QED
    BY <1>2, <2>2 DEF Tip, Record, Body, Cursor
<1> QED
  BY <1>1, <1>2

(***************************************************************************)
(* A record appended in one piece to a log that verifies, ends in a        *)
(* newline and has the cursor as its tip leaves such a log behind.         *)
(***************************************************************************)
Whole(f) == Verifies(f) /\ Len(f) % 2 = 0

\* a complete append to a whole log leaves a whole log that holds one record more (audit.rs:87-114)
LEMMA AppendKeepsWhole ==
  ASSUME last \in Cursor, NEW e \in Event, NEW f \in Seq(Piece),
         Whole(f), last = Tip(f)
  PROVE  LET g == f \o Written(e, "sync")
         IN  /\ Whole(g)
             /\ Tip(g) = [index |-> NextBody(e).index, hash |-> Sha256(NextBody(e))]
<1> DEFINE r == NextRecord(e)
           g == f \o <<r, NewLine>>
           n == Len(f) \div 2
<1>1. Written(e, "sync") = <<r, NewLine>>
  BY DEF Written
<1>2. r \in Piece /\ NewLine \in Piece /\ r.kind = "record" /\ NewLine.kind = "newline"
  BY NextRecordType DEF Piece, NewLine
<1>3. /\ Len(f) \in Nat /\ n \in Nat /\ Len(f) = 2 * n
      /\ g \in Seq(Piece) /\ Len(g) = 2 * n + 2
      /\ g[2 * n + 1] = r /\ g[2 * n + 2] = NewLine
      /\ \A i \in 1..(2 * n) : g[i] = f[i]
  BY <1>2 DEF Whole
<1>4. Parses(f) /\ Parses(g)
  <2>1. Parses(f)
    BY DEF Whole, Verifies
  <2> HIDE DEF g, n
  <2>2. ASSUME NEW i \in 1..(2 * n + 2)
        PROVE  g[i].kind = IF i % 2 = 1 THEN "record" ELSE "newline"
    <3>1. CASE i \in 1..(2 * n)
      BY <1>3, <2>1, <3>1 DEF Parses
    <3>2. CASE i = 2 * n + 1
      <4>1. i % 2 = 1
        BY <1>3, <3>2
      <4> QED
        BY <1>2, <1>3, <3>2, <4>1
    <3>3. CASE i = 2 * n + 2
      <4>1. i % 2 = 0
        BY <1>3, <3>3
      <4> QED
        BY <1>2, <1>3, <3>3, <4>1
    <3> QED
      BY <1>3, <3>1, <3>2, <3>3
  <2> QED
    BY <1>3, <2>1, <2>2 DEF Parses
<1>5. /\ Len(Records(f)) = n /\ Len(Records(g)) = n + 1
      /\ Records(f) \in Seq(Record) /\ Records(g) \in Seq(Record)
      /\ Records(g)[n + 1] = r
      /\ \A i \in 1..n : Records(g)[i] = Records(f)[i]
  <2> HIDE DEF g, n
  <2>1. (Len(f) + 1) \div 2 = n /\ (Len(g) + 1) \div 2 = n + 1
    BY <1>3
  <2>2. /\ Records(f) \in Seq(Record) /\ Len(Records(f)) = n
        /\ \A i \in 1..n : Records(f)[i] = f[2 * i - 1]
    BY <1>4, <2>1, RecordsType
  <2>3. /\ Records(g) \in Seq(Record) /\ Len(Records(g)) = n + 1
        /\ \A i \in 1..(n + 1) : Records(g)[i] = g[2 * i - 1]
    BY <1>3, <1>4, <2>1, RecordsType
  <2>4. /\ n + 1 \in 1..(n + 1) /\ 2 * (n + 1) - 1 = 2 * n + 1
        /\ \A i \in 1..n : i \in 1..(n + 1) /\ 2 * i - 1 \in 1..(2 * n)
    BY <1>3
  <2> QED
    BY <1>3, <2>2, <2>3, <2>4
<1>6. \A i \in 1..n : HoldsAt(Records(f), i)
  BY <1>5 DEF Whole, Verifies
<1>7. /\ last.index = n - 1
      /\ last.hash = IF n = 0 THEN Genesis ELSE Records(f)[n].hash
  <2>1. CASE n = 0
    BY <1>3, <2>1 DEF Tip, NoTip, Genesis
  <2>2. CASE n # 0
    <3>1. f # << >> /\ n \in 1..n
      BY <1>3, <2>2
    <3>2. last = [index |-> Records(f)[n].body.index, hash |-> Records(f)[n].hash]
      BY <1>5, <3>1 DEF Tip
    <3> QED
      BY <1>6, <2>2, <3>1, <3>2 DEF HoldsAt
  <2> QED
    BY <2>1, <2>2
<1>8. HoldsAt(Records(g), n + 1)
  <2>1. /\ r.body = NextBody(e) /\ r.hash = Sha256(NextBody(e))
        /\ r.sig = Sign(Signer, Sha256(NextBody(e)))
    BY DEF NextRecord
  <2>2. NextBody(e).index = n /\ NextBody(e).signer = Signer
    BY <1>3, <1>7 DEF NextBody
  <2>3. NextBody(e).prev = last.hash
    BY DEF NextBody
  <2> HIDE DEF r, g, n
  <2>4. last.hash = IF n + 1 = 1 THEN Genesis ELSE Records(g)[n + 1 - 1].hash
    <3>1. CASE n = 0
      BY <1>7, <3>1
    <3>2. CASE n # 0
      <4>1. n \in 1..n /\ n + 1 # 1 /\ n + 1 - 1 = n
        BY <1>3, <3>2
      <4> QED
        BY <1>5, <1>7, <3>2, <4>1
    <3> QED
      BY <3>1, <3>2
  <2>5. n + 1 - 1 = n
    BY <1>3
  <2> QED
    BY <1>5, <2>1, <2>2, <2>3, <2>4, <2>5, SignerAssumption DEF HoldsAt
<1>9. \A i \in 1..n : HoldsAt(Records(g), i)
  <2>1. \A i \in 1..n : i # 1 => i - 1 \in 1..n
    BY <1>3
  <2> HIDE DEF g, n
  <2> QED
    BY <1>5, <1>6, <2>1 DEF HoldsAt
<1>10. Whole(g)
  <2>1. DOMAIN Records(g) = 1..(n + 1) /\ Len(g) % 2 = 0
    BY <1>3, <1>5
  <2> HIDE DEF g, n
  <2> QED
    BY <1>3, <1>4, <1>8, <1>9, <2>1 DEF Whole, Verifies
<1>11. Tip(g) = [index |-> NextBody(e).index, hash |-> Sha256(NextBody(e))]
  <2>1. g # << >>
    BY <1>3
  <2>2. r.body = NextBody(e) /\ r.hash = Sha256(NextBody(e))
    BY DEF NextRecord
  <2> HIDE DEF r, g, n
  <2> QED
    BY <1>5, <2>1, <2>2 DEF Tip
<1> QED
  BY <1>1, <1>10, <1>11
=============================================================================
