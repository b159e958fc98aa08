----------------------------- MODULE AuditTrail -----------------------------
(***************************************************************************)
(* What the audit log promises (internal/audit, the comment on Log): the   *)
(* newest Cap records in the order they were made, each with a number one  *)
(* above the one before it.  An import puts the records of a snapshot in   *)
(* their place and goes on from the last of them; a new hub starts over.   *)
(***************************************************************************)
EXTENDS Integers, Sequences

CONSTANTS
  Cap,       \* how many records are kept
  Contents,  \* what a record says, apart from its number
  Imported,  \* what the record of an import says
  MaxSeq     \* bound: the highest number given out

Record == [seq : 1..MaxSeq, what : Contents]

VARIABLES trail, seq

vars == <<trail, seq>>

Init == trail = <<>> /\ seq = 0

(* The newest Cap records of a longer trail.                               *)
Newest(t) == IF Len(t) <= Cap THEN t ELSE SubSeq(t, Len(t) - Cap + 1, Len(t))

Log(what) ==
  /\ seq < MaxSeq
  /\ seq' = seq + 1
  /\ trail' = Newest(Append(trail, [seq |-> seq + 1, what |-> what]))

(* Records with numbers that go up by one, from wherever they begin.       *)
Run(recs) ==
  /\ recs \in Seq(Record)
  /\ \A i \in 1..Len(recs) - 1 : recs[i + 1].seq = recs[i].seq + 1

(* What an import leaves: its own record is the newest, those before it    *)
(* are a run that leads up to it.                                          *)
Import ==
  /\ Run(trail') /\ Len(trail') \in 1..Cap
  /\ trail'[Len(trail')] = [seq |-> seq', what |-> Imported]

Restart == trail' = <<>> /\ seq' = 0

Next == Import \/ Restart \/ \E what \in Contents : Log(what)

Spec == Init /\ [][Next]_vars
=============================================================================
