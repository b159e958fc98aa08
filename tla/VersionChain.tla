---------------------------- MODULE VersionChain ----------------------------
(***************************************************************************)
(* The version chain of one (namespace, key) and its two pointers          *)
(* (internal/store/entry.go, meta.Entry), and the choice a reader gets     *)
(* between them (gray.Select).  Everything here is a pure operator.        *)
(*                                                                         *)
(* A payload is its size; a signature is what it was computed for.         *)
(***************************************************************************)
EXTENDS GrayRules, Sequences, Functions

(* A signature: none at all, or none but the name of an algorithm; one for *)
(* an algorithm or a key that is not known; a bad one; or a good one for a *)
(* revision (0: bound to none).                                            *)
Signature == [kind : {"none", "algo", "unknownAlgo", "unknownKey", "bad", "good"}, rev : Nat]

Unsigned == [kind |-> "none", rev |-> 0]

Version == [rev : Nat, size : Nat, sig : Signature, rule : Rule]

(* An entry of the store.  ValidateChain refuses an empty chain, so no     *)
(* entry of the store is one and Absent can stand for "no entry".          *)
Chain == [versions : Seq(Version), head : Nat, stable : Nat]

Absent == [versions |-> <<>>, head |-> 0, stable |-> 0]

Exists(e) == e.versions # <<>>

(* mutant: the revision after the head, which a rollback moved back *)
NextRevAfterHead(e) == e.head + 1

NextRev(e) == IF Exists(e) THEN e.versions[Len(e.versions)].rev + 1 ELSE 1

(* meta.Entry.ByRev finds a version: it sits at its own place.             *)
HasRev(e, rev) == rev \in 1..Len(e.versions) /\ e.versions[rev].rev = rev

(* mutant: every version becomes the stable one *)
AppendAlwaysStable(e, v) ==
  [versions |-> Append(e.versions, v), head |-> v.rev, stable |-> v.rev]

(* NewEntry and AppendVersion, for a version that carries NextRev(e).      *)
AppendVersion(e, v) ==
  [versions |-> Append(e.versions, v),
   head     |-> v.rev,
   stable   |-> IF Full(v.rule) THEN v.rev ELSE e.stable]

(* The versions at or before rev that everybody may read.                  *)
FullUpTo(e, rev) == {i \in 1..rev : HasRev(e, i) /\ Full(e.versions[i].rule)}

LastStableAtOrBefore(e, rev) ==
  IF FullUpTo(e, rev) = {}
  THEN 0
  ELSE CHOOSE i \in FullUpTo(e, rev) : \A j \in FullUpTo(e, rev) : j <= i

(* mutant: the stable pointer is left where it was *)
RollbackHeadOnly(e, rev) == [e EXCEPT !.head = rev]

(* RollbackHead, for a revision the chain has.                             *)
RollbackHead(e, rev) ==
  [versions |-> e.versions,
   head     |-> rev,
   stable   |-> IF Full(e.versions[rev].rule) THEN rev ELSE LastStableAtOrBefore(e, rev)]

(* ValidateChain accepts e.                                                *)
ValidateChain(e) ==
  /\ Exists(e)
  /\ \A i \in 1..Len(e.versions) : e.versions[i].rev = i
  /\ e.head \in 1..Len(e.versions)
  /\ e.stable \in 0..Len(e.versions)

(* Where the stable pointer of an entry is, seen from its head.            *)
Pointers(e) ==
  /\ e.stable <= e.head
  /\ e.stable # 0 => Full(e.versions[e.stable].rule)
  /\ Full(e.versions[e.head].rule) <=> e.stable = e.head

(* BytesOf, and the loops of DeleteKey and recalcQuotaLocked.              *)
BytesOf(e) == SumFunction([i \in 1..Len(e.versions) |-> e.versions[i].size])

(* gray.Select: the revision a client reads, or 0 when there is none.      *)
Select(e, c) ==
  IF ~HasRev(e, e.head) THEN 0
  ELSE IF Eval(e.versions[e.head].rule, c) THEN e.head
  ELSE IF e.stable = e.head THEN 0
  ELSE e.stable
=============================================================================
