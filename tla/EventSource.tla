---------------------------- MODULE EventSource ----------------------------
(***************************************************************************)
(* What a watcher may rely on (watch.NewEvent as the hub calls it): per    *)
(* topic, a chain of versions that grows by one, whose head moves, or that *)
(* ends; and each such change is told by the newest event of that topic.   *)
(* WatchHub takes its events from here, one at a time; only the end of a   *)
(* namespace is told for several topics in one step.                       *)
(***************************************************************************)
EXTENDS Integers

CONSTANTS Topics

VARIABLES
  chain,  \* topic -> length and head of its version chain
  last    \* topic -> kind and revision of its newest event

vars == <<chain, last>>

NoChain == [len |-> 0, head |-> 0]

Init ==
  /\ chain = [t \in Topics |-> NoChain]
  /\ last = [t \in Topics |-> [kind |-> "none", rev |-> 0]]

(* A topic is left alone.                                                  *)
Rests(t) == chain'[t] = chain[t] /\ last'[t] = last[t]

(* A change of a topic, told by an event of this kind and revision.        *)
Told(t, kind, rev) == last'[t] = [kind |-> kind, rev |-> rev]

Published(t) ==
  LET rev == chain[t].len + 1 IN
    chain'[t] = [len |-> rev, head |-> rev] /\ Told(t, "publish", rev)

RolledBack(t) ==
  \E rev \in 1..chain[t].len :
    chain'[t] = [len |-> chain[t].len, head |-> rev] /\ Told(t, "rollback", rev)

Deleted(t) ==
  /\ chain[t].len > 0
  /\ chain'[t] = NoChain
  /\ Told(t, "delete", chain[t].head)

Change(t) ==
  /\ Published(t) \/ RolledBack(t) \/ Deleted(t)
  /\ \A u \in Topics \ {t} : Rests(u)

DeleteMany == \A t \in Topics : Deleted(t) \/ Rests(t)

Next == DeleteMany \/ \E t \in Topics : Change(t)

Spec == Init /\ [][Next]_vars
=============================================================================
