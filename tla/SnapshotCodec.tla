---------------------------- MODULE SnapshotCodec ----------------------------
(***************************************************************************)
(* The binary snapshot (internal/snapshot: Encode and Decode).  The file   *)
(* carries no field names: what the writer puts, field after field, the    *)
(* reader has to take in the same order.  Both orders are written down     *)
(* here as the two functions have them, and the framing around them.       *)
(*                                                                         *)
(* A file is a sequence of pieces: one for the magic, one for each number  *)
(* or counted string, one for the checksum.  A map is the sequence of its  *)
(* pairs in the order in which range visits them.  The header's counts are *)
(* made again by Tally and are not kept in the file.                       *)
(***************************************************************************)
EXTENDS Naturals, Sequences

CONSTANT Nil  \* the nil *GrayRule, and no value

Magic == <<"CHB1">>
Half == <<"half">>  \* what is left of a piece that was cut
Item(v) == <<"item", v>>

(* The checksum, of which only this is used: another body has another one. *)
Crc(body) == <<"crc", body>>

(* A field that is one number or string, one that is a flag, one that is a *)
(* count and as many records, one that is a flag and at most one record.   *)
One(name) == [name |-> name, how |-> "one", of |-> "none"]
Flag(name) == [name |-> name, how |-> "flag", of |-> "none"]
Many(name, of) == [name |-> name, how |-> "many", of |-> of]
Maybe(name, of) == [name |-> name, how |-> "maybe", of |-> of]

StringFields == <<One("s")>>
PairFields == <<One("k"), One("v")>>

-----------------------------------------------------------------------------
(* What Encode and putGray write.                                          *)
WriteGray == <<One("percent"), Many("allow_ids", "string"), Many("match_tags", "pair")>>
WriteNamespace == <<One("id"), One("owner"), One("created_at"), One("max_keys"), One("max_bytes")>>
WriteVersion ==
  <<One("rev"), One("payload"), One("sig"), One("algo"), One("author"), One("ts"), Maybe("gray", "gray")>>
WriteEntry == <<One("ns"), One("key"), One("head"), One("stable"), Many("versions", "version")>>
WriteAudit ==
  <<One("seq"), One("ts"), One("ns"), One("key"), One("rev"), One("kind"), One("actor"), One("detail"),
    One("bytes"), Flag("ok"), One("err")>>
WriteGrants == <<One("ns"), Many("subs", "pair")>>
WriteUsage == <<One("ns"), One("keys"), One("bytes")>>
WriteBlob ==
  <<One("magic"), One("format"), One("created_at"), Many("namespaces", "namespace"), Many("entries", "entry"),
    Many("audit", "audit"), Many("grants", "grants"), Many("usage", "usage")>>

Written ==
  [blob |-> WriteBlob, namespace |-> WriteNamespace, entry |-> WriteEntry,
   version |-> WriteVersion, gray |-> WriteGray, audit |-> WriteAudit,
   grants |-> WriteGrants, usage |-> WriteUsage,
   string |-> StringFields, pair |-> PairFields]

(* The first n sequences of ss one after the other.                        *)
Flat(n, ss) ==
  LET upTo[m \in 0..n] == IF m = 0 THEN <<>> ELSE upTo[m - 1] \o ss[m]
  IN  upTo[n]

(* The records in a field, and the piece that comes before them.           *)
Within(f, v) ==
  CASE f.how = "many" -> v
    [] f.how = "maybe" -> IF v = Nil THEN <<>> ELSE <<v>>
    [] OTHER -> <<>>

Lead(f, v) ==
  CASE f.how = "one" -> Item(v)
    [] f.how = "flag" -> Item(IF v THEN 1 ELSE 0)
    [] OTHER -> Item(Len(Within(f, v)))

(* A record is its fields in order; Put writes the records in a field.  No *)
(* record of the file has more than four others around it.                 *)
PiecesOf(kind, r, Put(_, _)) ==
  LET fields == Written[kind]
      PutField(f, v) ==
        LET within == Within(f, v)
        IN  <<Lead(f, v)>> \o Flat(Len(within), [m \in 1..Len(within) |-> Put(f.of, within[m])])
  IN  Flat(Len(fields), [n \in 1..Len(fields) |-> PutField(fields[n], r[fields[n].name])])

PutNone(kind, r) == <<>>
PutLeaf(kind, r) == PiecesOf(kind, r, PutNone)
PutGray(kind, r) == PiecesOf(kind, r, PutLeaf)
PutVersion(kind, r) == PiecesOf(kind, r, PutGray)
PutEntry(kind, r) == PiecesOf(kind, r, PutVersion)
PutBlob(kind, r) == PiecesOf(kind, r, PutEntry)

(* Encode: the magic, the body, the checksum of the body.                  *)
Framed(body) == <<Magic>> \o body \o <<Crc(body)>>
Encode(blob) == Framed(PutBlob("blob", blob))

-----------------------------------------------------------------------------
(* What Decode and reader.gray read.                                       *)
ReadGray == <<One("percent"), Many("allow_ids", "string"), Many("match_tags", "pair")>>
ReadNamespace == <<One("id"), One("owner"), One("created_at"), One("max_keys"), One("max_bytes")>>
ReadVersion ==
  <<One("rev"), One("payload"), One("sig"), One("algo"), One("author"), One("ts"), Maybe("gray", "gray")>>

(* mutant: the two pointers are read the other way round                   *)
ReadEntrySwapped == <<One("ns"), One("key"), One("stable"), One("head"), Many("versions", "version")>>

ReadEntry == <<One("ns"), One("key"), One("head"), One("stable"), Many("versions", "version")>>
ReadAudit ==
  <<One("seq"), One("ts"), One("ns"), One("key"), One("rev"), One("kind"), One("actor"), One("detail"),
    One("bytes"), Flag("ok"), One("err")>>
ReadGrants == <<One("ns"), Many("subs", "pair")>>
ReadUsage == <<One("ns"), One("keys"), One("bytes")>>
ReadBlob ==
  <<One("magic"), One("format"), One("created_at"), Many("namespaces", "namespace"), Many("entries", "entry"),
    Many("audit", "audit"), Many("grants", "grants"), Many("usage", "usage")>>

Expected ==
  [blob |-> ReadBlob, namespace |-> ReadNamespace, entry |-> ReadEntry,
   version |-> ReadVersion, gray |-> ReadGray, audit |-> ReadAudit,
   grants |-> ReadGrants, usage |-> ReadUsage,
   string |-> StringFields, pair |-> PairFields]

(* The reader has the body b and how much of it is read.  A read gives a   *)
(* value and the place behind it; it fails at the end of the body and at a *)
(* piece that was cut.                                                     *)
Failed == [ok |-> FALSE, val |-> Nil, i |-> 0]
Got(val, i) == [ok |-> TRUE, val |-> val, i |-> i]

NextPiece(b, i) == IF i >= Len(b) \/ b[i + 1] = Half THEN Failed ELSE Got(b[i + 1][2], i + 1)

(* n records, one after the other: record[i] is the one that starts at i.  *)
TakeMany(record, n, i) ==
  LET upTo[m \in 0..n] ==
        IF m = 0 THEN Got(<<>>, i)
        ELSE LET before == upTo[m - 1]
                 more == record[before.i]
             IN  IF before.ok /\ more.ok THEN Got(Append(before.val, more.val), more.i) ELSE Failed
  IN  upTo[n]

(* A field: how many records follow the first piece, and the value of both.*)
Count(f, lead) ==
  CASE f.how = "many" -> lead
    [] f.how = "maybe" -> IF lead = 0 THEN 0 ELSE 1
    [] OTHER -> 0

Value(f, lead, within) ==
  CASE f.how = "one" -> lead
    [] f.how = "flag" -> lead = 1
    [] f.how = "many" -> within
    [] f.how = "maybe" -> IF within = <<>> THEN Nil ELSE within[1]

TakeField(f, records, b, i) ==
  LET lead == NextPiece(b, i)
      within == TakeMany(records[f.of], Count(f, lead.val), lead.i)
  IN  IF lead.ok /\ within.ok THEN Got(Value(f, lead.val, within.val), within.i) ELSE Failed

(* A record has no value in its fields until they are read.                *)
TakeRecord(fields, records, b, i) ==
  LET empty == [name \in {fields[n].name : n \in 1..Len(fields)} |-> Nil]
      upTo[n \in 0..Len(fields)] ==
        IF n = 0 THEN Got(empty, i)
        ELSE LET before == upTo[n - 1]
                 got == TakeField(fields[n], records, b, before.i)
             IN  IF before.ok /\ got.ok
                 THEN Got([before.val EXCEPT ![fields[n].name] = got.val], got.i)
                 ELSE Failed
  IN  upTo[Len(fields)]

(* The records of every kind from every place, given those within them.    *)
Records(within, b) ==
  [kind \in DOMAIN Expected |-> [i \in 0..Len(b) |-> TakeRecord(Expected[kind], within, b, i)]]

TakeBlob(b) ==
  LET leaves == Records(<<>>, b)
      grays == Records(leaves, b)
      versions == Records(grays, b)
      entries == Records(versions, b)
  IN  Records(entries, b)["blob"][0]

(* Decode of a file that is not JSON: too short, no magic, another         *)
(* checksum, or a body that ends too early.  What follows a complete body  *)
(* is not looked at.                                                       *)
Decode(raw) ==
  IF Len(raw) < 2 \/ Head(raw) # Magic THEN Failed
  ELSE LET body == SubSeq(raw, 2, Len(raw) - 1)
       IN  IF raw[Len(raw)] # Crc(body) THEN Failed ELSE TakeBlob(body)

-----------------------------------------------------------------------------
(* What is decoded is what was encoded, in every field; and a file that    *)
(* was cut, anywhere, or a body that ends early under a checksum of its    *)
(* own, is refused as a whole and never yields a part of the snapshot.     *)
Cuts(s, n) == {SubSeq(s, 1, n), Append(SubSeq(s, 1, n), Half)}

AllOrNothing(blob) ==
  LET file == Encode(blob)
      body == PutBlob("blob", blob)
  IN  /\ Decode(file).ok /\ Decode(file).val = blob
      /\ \A n \in 0..(Len(file) - 1) : \A cut \in Cuts(file, n) : ~Decode(cut).ok
      /\ \A n \in 0..(Len(body) - 1) : \A cut \in Cuts(body, n) : ~Decode(Framed(cut)).ok
=============================================================================
