------------------------------ MODULE AuditLog ------------------------------
(***************************************************************************)
(* The audit log of go-confhub (internal/audit/log.go): a ring of Cap      *)
(* places, the place of the oldest record, the number of records, and the  *)
(* last sequence number.  Every operation holds Log.mu, so each is one     *)
(* action.  AuditTrail says what the ring is for.                          *)
(***************************************************************************)
EXTENDS Integers, Sequences, FiniteSets

Sets == INSTANCE FiniteSetsExt

CONSTANTS
  Cap,       \* NewLog's cap; 0 or less is replaced by DefaultCap
  Contents,  \* what a record says, apart from its number
  Imported,  \* what the record of an import says
  MaxSeq     \* bound: the highest number given out

Places == 0..Cap - 1

Record == [seq : 1..MaxSeq, what : Contents]

NoRecord == [seq |-> 0, what |-> "nothing"]

VARIABLES buf, head, len, seq

vars == <<buf, head, len, seq>>

Init ==
  /\ buf = [i \in Places |-> NoRecord]
  /\ head = 0
  /\ len = 0
  /\ seq = 0

(* One record enters the ring r: at the end while there is room, else over *)
(* the oldest one.                                                         *)
Push(r, rec) ==
  IF r.len < Cap
  THEN [r EXCEPT !.buf[(r.head + r.len) % Cap] = rec, !.len = @ + 1]
  ELSE [r EXCEPT !.buf[r.head] = rec, !.head = (@ + 1) % Cap]

Ring == [buf |-> buf, head |-> head, len |-> len]

Become(r) == buf' = r.buf /\ head' = r.head /\ len' = r.len

(* mutant: a full ring does not move its oldest place on *)
LogStuck(what) ==
  /\ seq < MaxSeq
  /\ seq' = seq + 1
  /\ IF len < Cap
     THEN Become(Push(Ring, [seq |-> seq + 1, what |-> what]))
     ELSE Become([Ring EXCEPT !.buf[head] = [seq |-> seq + 1, what |-> what]])

(* Append, by way of OK or Fail.                                           *)
Log(what) ==
  /\ seq < MaxSeq
  /\ seq' = seq + 1
  /\ Become(Push(Ring, [seq |-> seq + 1, what |-> what]))

(* One record of ReplaceAll: the places are filled from 0 on.              *)
Refill(r, rec) ==
  IF r.len < Cap
  THEN [r EXCEPT !.buf[r.len] = rec, !.len = @ + 1]
  ELSE [r EXCEPT !.buf[r.head] = rec, !.head = (@ + 1) % Cap]

(* ReplaceAll                                                              *)
Refilled(recs) ==
  LET after[i \in 0..Len(recs)] ==
        IF i = 0 THEN [buf |-> buf, head |-> 0, len |-> 0] ELSE Refill(after[i - 1], recs[i])
  IN  after[Len(recs)]

(* The record of an import, after what the import left.                    *)
Enter(ring, from) ==
  /\ from < MaxSeq
  /\ seq' = from + 1
  /\ Become(Push(ring, [seq |-> from + 1, what |-> Imported]))

Highest(recs) == IF recs = <<>> THEN 0 ELSE Sets!Max({recs[i].seq : i \in DOMAIN recs})

(* The audit part of ImportSnapshot: a snapshot without a list of records  *)
(* leaves the log as it is; the records of a list, and be it an empty one, *)
(* replace those of the log, which goes on from the highest number.        *)
ImportBare == Enter(Ring, seq)

Import(recs) == Enter(Refilled(recs), Highest(recs))

(* The records a snapshot may bring: those of a log, of any capacity.      *)
Exported ==
  LET OfLength(n) == {[i \in 1..n |-> [seq |-> run[1] + i, what |-> run[2][i]]] :
                         run \in (0..MaxSeq - n) \X [1..n -> Contents]}
  IN  UNION {OfLength(n) : n \in 0..Cap + 1}

(* A hub that is made anew (confhub.New) has an empty log.                 *)
Restart ==
  /\ buf' = [i \in Places |-> NoRecord]
  /\ head' = 0
  /\ len' = 0
  /\ seq' = 0

Next ==
  \/ \E what \in Contents : Log(what)
  \/ ImportBare
  \/ \E recs \in Exported : Import(recs)
  \/ Restart

Spec == Init /\ [][Next]_vars

(* All: the records, oldest first.                                         *)
All == [i \in 1..len |-> buf[(head + i - 1) % Cap]]

Most(limit) == IF limit <= 0 THEN 100 ELSE limit

(* mutant: the ring's own order is taken for the order of the records *)
QueryByPlace(wanted, limit) ==
  LET newest == [i \in 1..len |-> buf[len - i]]
      found  == SelectSeq(newest, LAMBDA r : r.what \in wanted)
  IN  SubSeq(found, 1, IF Len(found) < Most(limit) THEN Len(found) ELSE Most(limit))

(* Query, record by record from the newest: at most as many of those the   *)
(* filter lets through as are asked for.                                   *)
Query(wanted, limit) ==
  LET found[i \in 0..len] ==
        IF i = 0 THEN <<>>
        ELSE LET r == buf[(head + len - i) % Cap] IN
             IF r.what \in wanted /\ Len(found[i - 1]) < Most(limit)
             THEN Append(found[i - 1], r) ELSE found[i - 1]
  IN  found[len]

-----------------------------------------------------------------------------
(* Properties.                                                             *)

(* The ring, however often it wrapped round or was refilled, holds exactly *)
(* the newest Cap records (comment on Log: beyond cap the oldest goes, the *)
(* numbers go on).                                                         *)
Trail == INSTANCE AuditTrail WITH trail <- All

ImplementsTrail == Trail!Spec

(* A query never answers with an older record while a newer one that its   *)
(* filter lets through is missing from the answer, and orders them newest  *)
(* first; a limit that is none asks for the newest hundred.                *)
QueryNewestFirst ==
  \A wanted \in SUBSET Contents, limit \in 0..Cap + 1 :
    LET q == Query(wanted, limit)
        matching == {i \in 1..len : All[i].what \in wanted}
    IN  /\ Len(q) = IF Cardinality(matching) < Most(limit)
                    THEN Cardinality(matching) ELSE Most(limit)
        /\ \A i, j \in DOMAIN q : i < j => q[i].seq > q[j].seq
        /\ \A i \in DOMAIN q : q[i].what \in wanted
        /\ \A i \in matching :
             (\E j \in DOMAIN q : q[j].seq <= All[i].seq) => \E j \in DOMAIN q : q[j] = All[i]
=============================================================================
