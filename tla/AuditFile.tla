----------------------------- MODULE AuditFile -----------------------------
(***************************************************************************)
(* One audit.jsonl file of src/src/audit.rs and the cursor (last_index,    *)
(* last_hash) that the process which writes it keeps in memory.  A         *)
(* coordinator and every robot runtime own one of each; their modules      *)
(* INSTANCE this one.                                                      *)
(*                                                                         *)
(* AuditLog::append issues several writes for one record: the JSON text,   *)
(* then the newline, then sync_data.  The file is therefore a sequence of  *)
(* pieces: a whole JSON text, a torn one, or a newline.  A line of the     *)
(* file is readable when it is exactly one whole text.                     *)
(*                                                                         *)
(* SHA-256 is taken to be free of collisions: the digest of a body is the  *)
(* list of everything it covers, the previous digest first.                *)
(***************************************************************************)
EXTENDS Integers, Sequences

CONSTANTS Event,   \* what an AuditEvent can say
          Signer,  \* key id of the identity that signs the records
          Trusted  \* key ids of the identities given to open_verified

VARIABLES file,    \* the pieces written to audit.jsonl so far
          last     \* AuditLog.last_index and last_hash

fileVars == <<file, last>>

ASSUME SignerAssumption == Signer \in Trusted

-----------------------------------------------------------------------------
Hash      == Seq([index : Nat, signer : Trusted, event : Event])
Genesis   == << >>
Body      == [index : Nat, prev : Hash, signer : Trusted, event : Event]
Signature == [key : Trusted, over : Hash]
Record    == [kind : {"record"}, body : Body, hash : Hash, sig : Signature]
Piece     == Record \cup [kind : {"newline", "torn"}]

\* last_index is None before the first record; -1 stands for None
Cursor  == [index : Nat \cup {-1}, hash : Hash]
NoTip   == [index |-> -1, hash |-> Genesis]

NewLine == [kind |-> "newline"]
Torn    == [kind |-> "torn"]

Sha256(body) ==
  Append(body.prev,
         [index |-> body.index, signer |-> body.signer, event |-> body.event])

Sign(key, hash) == [key |-> key, over |-> hash]

-----------------------------------------------------------------------------
(***************************************************************************)
(* The record that append builds from the cursor.                          *)
(***************************************************************************)
\* faulty variant of NextBody: the index is not advanced
SameIndexBody(e) == [index |-> last.index, prev |-> last.hash,
                     signer |-> Signer, event |-> e]

NextBody(e) == [index |-> last.index + 1, prev |-> last.hash,
                signer |-> Signer, event |-> e]

NextRecord(e) ==
  [kind |-> "record", body |-> NextBody(e), hash |-> Sha256(NextBody(e)),
   sig |-> Sign(Signer, Sha256(NextBody(e)))]

(***************************************************************************)
(* Where an append can stop, and the pieces that are then in the file: it  *)
(* cannot open the file, it stops inside the JSON text, before the         *)
(* newline, or when everything is written (at sync_data or later).         *)
(***************************************************************************)
CutPoint == {"open", "write", "newline", "sync"}

Written(e, at) ==
  CASE at = "open"    -> << >>
    [] at = "write"   -> <<Torn>>
    [] at = "newline" -> <<NextRecord(e)>>
    [] at = "sync"    -> <<NextRecord(e), NewLine>>

\* faulty variant of Appended: last_hash keeps its old value
AppendedUnlinked(e) ==
  /\ file' = file \o Written(e, "sync")
  /\ last' = [index |-> NextBody(e).index, hash |-> last.hash]

\* append returned Ok: the cursor moves to the new record
Appended(e) ==
  /\ file' = file \o Written(e, "sync")
  /\ last' = [index |-> NextBody(e).index, hash |-> Sha256(NextBody(e))]

\* append returned an I/O error: every `?` comes before the cursor moves
AppendCut(e, at) ==
  /\ file' = file \o Written(e, at)
  /\ last' = last

-----------------------------------------------------------------------------
(***************************************************************************)
(* AuditLog::verify and the reading half of AuditLog::open.  BufRead's     *)
(* lines() yields a last line that has no newline like any other line.     *)
(***************************************************************************)
Parses(f) == \A i \in DOMAIN f :
               f[i].kind = IF i % 2 = 1 THEN "record" ELSE "newline"

Records(f) == [i \in 1..((Len(f) + 1) \div 2) |-> f[2 * i - 1]]

HoldsAt(rs, i) ==
  /\ rs[i].body.index = i - 1
  /\ rs[i].body.prev = IF i = 1 THEN Genesis ELSE rs[i - 1].hash
  /\ rs[i].hash = Sha256(rs[i].body)
  /\ rs[i].body.signer \in Trusted
  /\ rs[i].sig = Sign(rs[i].body.signer, rs[i].hash)

\* faulty variant of Verifies: unreadable lines are skipped
VerifiesWhatItReads(f) ==
  \A i \in DOMAIN Records(f) :
    Records(f)[i].kind = "record" => Records(f)[i].hash = Sha256(Records(f)[i].body)

Verifies(f) ==
  /\ Parses(f)
  /\ \A i \in DOMAIN Records(f) : HoldsAt(Records(f), i)

\* the cursor that open computes from a file
Tip(f) ==
  IF f = << >> THEN NoTip
  ELSE LET rs == Records(f)
           r  == rs[Len(rs)]
       IN  [index |-> r.body.index, hash |-> r.hash]

\* faulty variant of Opened: a log that does not verify is replaced
OpenedAfresh ==
  /\ file' = IF Verifies(file) THEN file ELSE << >>
  /\ last' = Tip(file')

\* open_verified succeeded
Opened ==
  /\ Verifies(file)
  /\ last' = Tip(file)
  /\ file' = file

\* the events that reached the file as a whole text, readable or not
HasEvent(f, e) == \E i \in DOMAIN f : f[i].kind = "record" /\ f[i].body.event = e
=============================================================================
