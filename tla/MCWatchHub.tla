----------------------------- MODULE MCWatchHub -----------------------------
(* Instances of WatchHub for TLC. *)
EXTENDS WatchHub

CONSTANTS n1, k1, k2

OneKey == {<<n1, k1>>}
KeyOrAll == {<<n1, k1>>, <<n1, Wild>>}
=============================================================================
