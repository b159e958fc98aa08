---------------------------- MODULE MCApiServer ----------------------------
(* Instances of ApiServer for TLC. *)
EXTENDS ApiServer

CONSTANTS alice, n1, k1, k2, p1, p2, c1

NoTrimId == [i \in Ids |-> i]
NoTrimKey == [k \in TagKeys |-> k]
Buckets == [i \in Ids |-> 10]
NilOnly == {NilRule}
NoSigs == {Unsigned}
Unlimited == {[maxKeys |-> 0, maxBytes |-> 0]}

TheKey == <<n1, k1>>
(* States that differ in `out` or in the newest events only are the same:  *)
(* no action and no property of this run reads them.  (TLC needs `last` to *)
(* be looked at.)                                                          *)
Unread == <<last = last, closed, reg, owners, grants, store, usage, disk, blob,
            client, net, listing>>

Payloads == [p \in Publishers |-> IF p = p1 THEN 2 ELSE 3]
=============================================================================
