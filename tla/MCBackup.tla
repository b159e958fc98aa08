------------------------------ MODULE MCBackup ------------------------------
(* An instance of Backup for TLC: the logs of other hubs, two writers.     *)
EXTENDS Backup, FiniteSets

LOCAL INSTANCE TLC

(* Without records, with fewer than the log keeps, and with more.          *)
SomeForeign ==
  {<<>>, <<[seq |-> 2, what |-> "op"]>>,
   [i \in 1..Cap + 1 |-> [seq |-> i, what |-> "op"]]}

(* Bound: several calls are under way at once only while the log, what     *)
(* they write and what the path names hold no record but the first two.    *)
Early(recs) == \A i \in DOMAIN recs : recs[i].seq <= 2

FewAtOnce ==
  Cardinality({w \in Writers : pc[w] # "idle"}) > 1 =>
    /\ Early(buf)
    /\ \A w \in Writers : want[w] # NoFile => Early(want[w])
    /\ \A f \in named \cup {file} : f # NoFile => Early(f.data)

StaysFew == FewAtOnce'

(* No property or bound tells the writers apart.                           *)
WriterSymmetry == Permutations(Writers)
=============================================================================
