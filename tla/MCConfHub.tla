----------------------------- MODULE MCConfHub -----------------------------
(* Instances of ConfHub for TLC: the vocabulary of rules and signatures,   *)
(* and the inputs the operations are called with.                          *)
EXTENDS ConfHub

LOCAL INSTANCE TLC

CONSTANTS alice, bob, c1, c2

NoTrimId == [i \in Ids |-> i]
NoTrimKey == [k \in TagKeys |-> k]
Buckets == [i \in Ids |-> IF i = c1 THEN 10 ELSE 80]

(* Half of the clients; one client by name; nobody at all, refused.        *)
Canary == [percent |-> 50, allow |-> {}, tags |-> NoMap]
Allowed == [percent |-> 0, allow |-> {c2}, tags |-> NoMap]
Wrong == [percent |-> 101, allow |-> {}, tags |-> NoMap]
AllRules == {NilRule, Canary, Allowed, Wrong}
NilOnly == {NilRule}

Good(rev) == [kind |-> "good", rev |-> rev]
Sig(kind) == [kind |-> kind, rev |-> 0]
SomeSigs == {Sig(kind) : kind \in {"none", "algo", "unknownAlgo", "unknownKey", "bad"}}
              \cup {Good(rev) : rev \in 0..2}
NoSigs == {Unsigned}

Limit(keys, bytes) == [maxKeys |-> keys, maxBytes |-> bytes]
Unlimited == {Limit(0, 0)}
Tight == {Limit(1, 2), Limit(0, 0), Limit(-1, 0)}
OneKey == {Limit(1, 0)}

(* Snapshots from elsewhere, for one namespace: of another owner or of     *)
(* none, with what it holds counted exactly or too high, or with entries   *)
(* of a namespace that is not registered; and two that ValidateChain       *)
(* refuses, for a gap and for a head that is not in the chain.             *)
One == [rev |-> 1, size |-> 1, sig |-> Unsigned, rule |-> NilRule]
Whole == AppendVersion(Absent, One)
Gapped == AppendVersion(Absent, [One EXCEPT !.rev = 2])
Headless == [Whole EXCEPT !.head = 2]

Abroad(meta, chain, keys, bytes, held) ==
  [EmptyBlob EXCEPT
     !.reg = [n \in Namespaces |-> meta],
     !.store = [t \in Topics |-> IF t[2] \in held THEN chain ELSE Absent],
     !.usage = [n \in Namespaces |-> [keys |-> keys, bytes |-> bytes]]]

OwnedBy(owner) == [owner |-> owner, maxKeys |-> 2, maxBytes |-> 3]

SomeForeign ==
  {Abroad(OwnedBy(bob), Whole, Cardinality(held), Cardinality(held), held) : held \in SUBSET Keys}
    \cup {Abroad(meta, Whole, 2, 3, {k}) : meta \in {OwnedBy(NoActor), NoNS}, k \in Keys}
    \cup {Abroad(OwnedBy(NoActor), chain, 1, 1, {k}) : chain \in {Gapped, Headless}, k \in Keys}

(* What an operation answered last: no action reads it, and not every run  *)
(* has a property that does.                                               *)
AllButOut == <<closed, reg, owners, grants, store, usage, last, disk, blob>>

(* No property or input tells namespaces apart, or keys.                   *)
NameSymmetry == Permutations(Namespaces) \cup Permutations(Keys)
=============================================================================
