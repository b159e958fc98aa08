----------------------------- MODULE MCGrayRules -----------------------------
(***************************************************************************)
(* GrayRules for TLC: every rule of a small vocabulary is submitted to     *)
(* Put, which stores what Normalize makes of it or refuses it; every       *)
(* client is then asked for.                                               *)
(***************************************************************************)
EXTENDS GrayRules

CONSTANTS Percents  \* the percentages that are tried

ASSUME PercentsAssumption == Percents \subseteq Int

Trims == [i \in Ids |-> IF i = " a" THEN "a" ELSE IF i = " " THEN "" ELSE i]
KeyTrims == [k \in TagKeys |-> IF k = " env" THEN "env" ELSE k]
Buckets == [i \in Ids |-> IF i = "a" THEN 0 ELSE IF i = "b" THEN 98 ELSE 50]

AllPercents == {-1, 0, 1, 50, 99, 100, 101}
ZeroOnly == {0}

VARIABLES rule, stored, phase

vars == <<rule, stored, phase>>

Init ==
  /\ rule \in [percent : Percents, allow : SUBSET Ids, tags : TagMap]
  /\ stored = NilRule
  /\ phase = "submitted"

Accept ==
  /\ phase = "submitted"
  /\ stored' \in Normalize(rule)
  /\ phase' = "stored"
  /\ UNCHANGED rule

Reject ==
  /\ phase = "submitted"
  /\ Normalize(rule) = {}
  /\ phase' = "rejected"
  /\ UNCHANGED <<rule, stored>>

Settled == phase # "submitted" /\ UNCHANGED vars

Next == Accept \/ Reject \/ Settled

Spec == Init /\ [][Next]_vars

-----------------------------------------------------------------------------
IsStored == phase = "stored"

(* Rules 2 and 3 of the comment on Eval, in this order: whoever is on the  *)
(* allow list is in, whatever the tags and the percentage say; whoever is  *)
(* not and lacks the value of one of the rule's tags is out, whatever the  *)
(* percentage says.                                                        *)
Listed(c) == c.id # Blank /\ c.id \in stored.allow

Lacks(c, k) == stored.tags[k] # NoVal /\ (c.tags = NoTags \/ k \notin DOMAIN c.tags \/ c.tags[k] # stored.tags[k])

EvalOrder ==
  IsStored =>
    \A c \in Client :
      /\ Listed(c) => Eval(stored, c)
      /\ (~Listed(c) /\ \E k \in DOMAIN stored.tags : Lacks(c, k)) => ~Eval(stored, c)

(* A release that is widened never takes a client out again: Bucket is     *)
(* stable and the comparison is with a growing percentage.                 *)
WideningKeepsClients ==
  IsStored =>
    \A c \in Client, p \in Percents :
      (stored.percent > 0 /\ p > stored.percent /\ Eval(stored, c))
      => Eval([stored EXCEPT !.percent = p], c)

(* What Normalize returns it accepts, and returns again: a rule read back  *)
(* from the store can be published as it is.                               *)
NormalizeIdempotent == IsStored => Normalize(stored) = {stored}

(* Rule 4 of the comment on Eval, "percent==0 且无白名单则未命中": a rule     *)
(* published with percent 0 and no allow list lets nobody in.              *)
ZeroPercentMisses ==
  (IsStored /\ rule.percent = 0 /\ rule.allow = {}) => \A c \in Client : ~Eval(stored, c)
=============================================================================
