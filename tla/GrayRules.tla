------------------------------ MODULE GrayRules ------------------------------
(***************************************************************************)
(* Gray release rules (internal/gray, meta.GrayRule): what a rule is, how  *)
(* Put normalises the one it is given, and which clients it lets through.  *)
(* Everything here is a pure operator.                                     *)
(***************************************************************************)
EXTENDS Integers, FiniteSets

CONSTANTS
  Ids,       \* client identifiers and allow list entries, as they are written
  Blank,     \* the empty identifier
  TrimId,    \* identifier -> the identifier without surrounding blanks
  Bucket,    \* identifier -> 0..99, the FNV hash modulo 100
  TagKeys,   \* tag names, as they are written
  BlankKey,  \* the empty tag name
  TrimKey,   \* tag name -> the tag name without surrounding blanks
  TagVals,   \* tag values
  NoVal,     \* the empty string: what a Go map yields for a missing tag
  NoTags     \* a client whose tag map is nil

ASSUME IdsAssumption ==
  /\ Blank \in Ids
  /\ TrimId \in [Ids -> Ids]
  /\ Bucket \in [Ids -> 0..99]

ASSUME TagsAssumption ==
  /\ BlankKey \in TagKeys
  /\ TrimKey \in [TagKeys -> TagKeys]
  /\ NoVal \in TagVals

(* strings.TrimSpace: a trimmed string is trimmed.                         *)
ASSUME TrimAssumption ==
  /\ \A i \in Ids : TrimId[TrimId[i]] = TrimId[i]
  /\ \A k \in TagKeys : TrimKey[TrimKey[k]] = TrimKey[k]

(* A map of tags is a function on the names it has.                        *)
TagMap == UNION {[K -> TagVals] : K \in SUBSET TagKeys}

Rule == [percent : Int, allow : SUBSET Ids, tags : TagMap]

Client == [id : Ids, tags : TagMap \cup {NoTags}]

NoMap == [k \in {} |-> NoVal]

(* The nil rule.  The code treats it as it treats the rule with nothing in *)
(* it, wherever it looks at one, so they are one value here.               *)
NilRule == [percent |-> 0, allow |-> {}, tags |-> NoMap]

(* meta.GrayRule.IsZero *)
IsZero(g) == g.percent <= 0 /\ g.allow = {} /\ DOMAIN g.tags = {}

(* meta.GrayRule.IsFullRollout *)
IsFullRollout(g) == g.percent >= 100 /\ g.allow = {} /\ DOMAIN g.tags = {}

(* The test of AppendVersion, NewEntry, RollbackHead and Eval: the version *)
(* is published to everybody.                                              *)
Full(g) == IsFullRollout(g) \/ IsZero(g)

(* mutant: the bucket moves with the percentage *)
InPercentSalted(id, percent) ==
  percent > 0 /\ (percent >= 100 \/ (Bucket[id] + 100 - percent) % 100 < percent)

InPercent(id, percent) ==
  /\ percent > 0
  /\ \/ percent >= 100
     \/ Bucket[id] < percent

InAllow(allow, id) == id # Blank /\ id \in allow

(* mutant: only the tags the client has are compared *)
MatchAnyTags(need, have) ==
  have = NoTags \/ \A k \in DOMAIN need \cap DOMAIN have : have[k] = need[k]

(* Every tag the rule names must have its value; a nil map has none.       *)
MatchAllTags(need, have) ==
  \/ DOMAIN need = {}
  \/ /\ have # NoTags
     /\ \A k \in DOMAIN need :
          (IF k \in DOMAIN have THEN have[k] ELSE NoVal) = need[k]

(* mutant: the tags are looked at before the allow list *)
EvalTagsFirst(g, c) ==
  \/ Full(g)
  \/ /\ MatchAllTags(g.tags, c.tags)
     /\ InAllow(g.allow, c.id) \/ InPercent(c.id, g.percent)

Eval(g, c) ==
  \/ Full(g)
  \/ InAllow(g.allow, c.id)
  \/ MatchAllTags(g.tags, c.tags) /\ InPercent(c.id, g.percent)

(* The maps the loop over MatchTags can leave: names are trimmed, and when *)
(* two of them become one, Go's map order decides whose value stays.       *)
TrimmedTags(tags) ==
  LET names == {TrimKey[k] : k \in DOMAIN tags} IN
    {m \in [names -> TagVals] :
       \A n \in names : \E k \in DOMAIN tags : TrimKey[k] = n /\ m[n] = tags[k]}

(* The rules that Normalize may return for g; none if it rejects g.  A     *)
(* result without content becomes nil.                                     *)
Normalize(g) ==
  IF g.percent \notin 0..100 \/ \E k \in DOMAIN g.tags : TrimKey[k] = BlankKey
  THEN {}
  ELSE {[percent |-> g.percent,
         allow   |-> {TrimId[i] : i \in g.allow} \ {Blank},
         tags    |-> m] : m \in TrimmedTags(g.tags)}
=============================================================================
