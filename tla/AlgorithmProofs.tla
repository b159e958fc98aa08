--------------------------- MODULE AlgorithmProofs ---------------------------
(***************************************************************************)
(* Theorems about the rules that Put stores, for any identifiers, tags,    *)
(* buckets and percentages; about the keyring, for any namespaces,         *)
(* identifiers, secrets and pairs; about names, for texts of any length;   *)
(* about the texts that a behaviour compares; and about the codec, for     *)
(* snapshots of any size.                                                  *)
(***************************************************************************)
EXTENDS MCAlgorithms, LineDiffProofs

(***************************************************************************)
(* Gray rules.                                                             *)
(***************************************************************************)
(* What is stored is what Normalize made of the rule that was submitted.   *)
StoredNormal ==
  /\ rule \in [percent : Percents, allow : SUBSET Ids, tags : TagMap]
  /\ IsStored => stored \in Normalize(rule)

LEMMA NormalizeType ==
  ASSUME NEW g \in [percent : Percents, allow : SUBSET Ids, tags : TagMap],
         NEW n \in Normalize(g)
  PROVE  /\ n = [percent |-> n.percent, allow |-> n.allow, tags |-> n.tags]
         /\ n.percent \in 0..100
         /\ n.allow \subseteq Ids
         /\ \A i \in n.allow : i # Blank /\ TrimId[i] = i
         /\ n.tags \in [DOMAIN n.tags -> TagVals]
         /\ DOMAIN n.tags \subseteq TagKeys
         /\ \A k \in DOMAIN n.tags : k # BlankKey /\ TrimKey[k] = k
<1>1. PICK m \in TrimmedTags(g.tags) :
        n = [percent |-> g.percent, allow |-> {TrimId[i] : i \in g.allow} \ {Blank}, tags |-> m]
  BY DEF Normalize
<1>2. g.percent \in 0..100 /\ \A k \in DOMAIN g.tags : TrimKey[k] # BlankKey
  BY DEF Normalize
<1>3. PICK K \in SUBSET TagKeys : g.tags \in [K -> TagVals]
  BY DEF TagMap
<1>4. m \in [{TrimKey[k] : k \in DOMAIN g.tags} -> TagVals]
  BY DEF TrimmedTags
<1>5. \A k \in DOMAIN m : k # BlankKey /\ TrimKey[k] = k /\ k \in TagKeys
  BY <1>2, <1>3, <1>4, TrimAssumption, TagsAssumption
<1>6. \A i \in n.allow : i \in Ids /\ i # Blank /\ TrimId[i] = i
  BY <1>1, TrimAssumption, IdsAssumption
<1> QED BY <1>1, <1>2, <1>4, <1>5, <1>6

(* A rule that Normalize returned it returns again, and only it.           *)
LEMMA NormalizeFixed ==
  ASSUME NEW n, n = [percent |-> n.percent, allow |-> n.allow, tags |-> n.tags],
         n.percent \in 0..100,
         \A i \in n.allow : i # Blank /\ TrimId[i] = i,
         n.tags \in [DOMAIN n.tags -> TagVals],
         \A k \in DOMAIN n.tags : k # BlankKey /\ TrimKey[k] = k
  PROVE  Normalize(n) = {n}
<1>1. {TrimKey[k] : k \in DOMAIN n.tags} = DOMAIN n.tags
  OBVIOUS
<1>2. {TrimId[i] : i \in n.allow} \ {Blank} = n.allow
  OBVIOUS
<1>3. TrimmedTags(n.tags) = {n.tags}
  <2>1. ASSUME NEW m \in TrimmedTags(n.tags) PROVE m = n.tags
    <3>1. m \in [DOMAIN n.tags -> TagVals]
      BY <1>1 DEF TrimmedTags
    <3>2. \A k \in DOMAIN n.tags : m[k] = n.tags[k]
      BY <1>1 DEF TrimmedTags
    <3> QED BY <3>1, <3>2
  <2>2. n.tags \in TrimmedTags(n.tags)
    BY <1>1 DEF TrimmedTags
  <2> QED BY <2>1, <2>2
<1>4. n.percent \in 0..100 /\ \A k \in DOMAIN n.tags : TrimKey[k] # BlankKey
  OBVIOUS
<1>5. Normalize(n) = {[percent |-> n.percent, allow |-> {TrimId[i] : i \in n.allow} \ {Blank}, tags |-> m]
                        : m \in TrimmedTags(n.tags)}
  BY <1>4 DEF Normalize
<1>6. ASSUME NEW x PROVE x \in Normalize(n) <=> x = n
  BY <1>2, <1>3, <1>5
<1> QED BY <1>6

LEMMA StoredNormalStays == Spec => []StoredNormal
<1>1. Init => StoredNormal
  BY DEF Init, StoredNormal, IsStored
<1>2. StoredNormal /\ [Next]_vars => StoredNormal'
  BY DEF StoredNormal, Next, vars, Accept, Reject, Settled, IsStored
<1> QED BY <1>1, <1>2, PTL DEF Spec

-----------------------------------------------------------------------------
(* The allow list decides first, then the tags, whatever the percentage.   *)
THEOREM EvalKeepsOrder == Spec => []EvalOrder
<1>1. EvalOrder
  <2> SUFFICES ASSUME IsStored, NEW c \in Client
               PROVE  /\ Listed(c) => Eval(stored, c)
                      /\ (~Listed(c) /\ \E k \in DOMAIN stored.tags : Lacks(c, k)) => ~Eval(stored, c)
    BY DEF EvalOrder
  <2>1. Listed(c) => Eval(stored, c)
    BY DEF Listed, Eval, InAllow
  <2>2. ASSUME ~Listed(c), NEW k \in DOMAIN stored.tags, Lacks(c, k)
        PROVE  ~Eval(stored, c)
    <3>1. ~Full(stored)
      BY <2>2 DEF Full, IsFullRollout, IsZero
    <3>2. ~InAllow(stored.allow, c.id)
      BY <2>2 DEF InAllow, Listed
    <3>3. ~MatchAllTags(stored.tags, c.tags)
      BY <2>2 DEF MatchAllTags, Lacks
    <3> QED BY <3>1, <3>2, <3>3 DEF Eval
  <2> QED BY <2>1, <2>2
<1> QED BY <1>1, PTL

(* A rule with a larger percentage lets in every client the smaller one    *)
(* let in.                                                                 *)
THEOREM WideningKeeps == Spec => []WideningKeepsClients
<1>1. StoredNormal => WideningKeepsClients
  <2> SUFFICES ASSUME StoredNormal, IsStored, NEW c \in Client, NEW p \in Percents,
                      stored.percent > 0, p > stored.percent, Eval(stored, c)
               PROVE  Eval([stored EXCEPT !.percent = p], c)
    BY DEF WideningKeepsClients
  <2> DEFINE wide == [stored EXCEPT !.percent = p]
  <2>1. stored.percent \in 0..100 /\ stored = [percent |-> stored.percent, allow |-> stored.allow, tags |-> stored.tags]
    BY NormalizeType DEF StoredNormal
  <2>2. wide.percent = p /\ wide.allow = stored.allow /\ wide.tags = stored.tags
    BY <2>1
  <2>3. p \in Int /\ c.id \in Ids /\ Bucket[c.id] \in 0..99
    BY PercentsAssumption, IdsAssumption DEF Client
  <2>4. CASE Full(stored)
    <3>1. IsFullRollout(wide)
      BY <2>1, <2>2, <2>3, <2>4 DEF Full, IsFullRollout, IsZero
    <3> QED BY <3>1 DEF Eval, Full
  <2>5. CASE InAllow(stored.allow, c.id)
    BY <2>2, <2>5 DEF Eval
  <2>6. CASE MatchAllTags(stored.tags, c.tags) /\ InPercent(c.id, stored.percent)
    <3>1. InPercent(c.id, p)
      BY <2>1, <2>3, <2>6 DEF InPercent
    <3> QED BY <2>2, <2>6, <3>1 DEF Eval
  <2> QED BY <2>4, <2>5, <2>6 DEF Eval
<1> QED BY <1>1, StoredNormalStays, PTL

(* A stored rule can be published again as it is, and stays what it is.    *)
THEOREM NormalizeSettles == Spec => []NormalizeIdempotent
<1>1. StoredNormal => NormalizeIdempotent
  BY NormalizeType, NormalizeFixed DEF StoredNormal, NormalizeIdempotent
<1> QED BY <1>1, StoredNormalStays, PTL

-----------------------------------------------------------------------------
(***************************************************************************)
(* The keyring.                                                            *)
(***************************************************************************)
(* Every signature that was given out is one of the bytes of its request.  *)
IssuedFor == \A s \in issued : s.for \in Request /\ s.sig.msg = Canonical(s.for.ns, s.for.key, s.for.rev)

RingOK ==
  /\ DOMAIN ed = Places
  /\ deflt \in KeyIDs
  /\ IssuedFor

(* A signature that Sign returns has the bytes of its request.             *)
LEMMA SignatureIsFor ==
  ASSUME NEW r \in Request, Signature(r) # NoKey
  PROVE  Signature(r).msg = Canonical(r.ns, r.key, r.rev)
<1> DEFINE secret == Lookup(hmac, r.ns, r.id, deflt)
           pair == Lookup(ed, r.ns, r.id, deflt)
           msg == Canonical(r.ns, r.key, r.rev)
<1>1. Signature(r) = CASE Scheme(r.algo) = HMAC /\ secret # NoKey -> [by |-> secret, msg |-> msg]
        [] Scheme(r.algo) = Ed25519 /\ pair # NoKey /\ pair.priv # NoKey -> [by |-> pair.priv, msg |-> msg]
        [] OTHER -> NoKey
  BY DEF Signature
<1> HIDE DEF secret, pair, msg
<1>2. CASE Scheme(r.algo) = HMAC /\ secret # NoKey
  <2>1. Scheme(r.algo) # Ed25519
    BY <1>2 DEF HMAC, Ed25519
  <2> QED BY <1>1, <1>2, <2>1 DEF msg
<1>3. CASE Scheme(r.algo) = Ed25519 /\ pair # NoKey /\ pair.priv # NoKey
  <2>1. Scheme(r.algo) # HMAC
    BY <1>3 DEF HMAC, Ed25519
  <2> QED BY <1>1, <1>3, <2>1 DEF msg
<1> QED BY <1>1, <1>2, <1>3

(* A signature that Sign returns is one that Verify accepts for the same    *)
(* request in the same ring, unless it was made with the private half of   *)
(* another pair.                                                           *)
LEMMA SignedIsAccepted ==
  ASSUME NEW r \in Request, Signature(r) # NoKey
  PROVE  Verify(r, Signature(r)) <=> Paired(r)
<1> DEFINE secret == Lookup(hmac, r.ns, r.id, deflt)
           pair == Lookup(ed, r.ns, r.id, deflt)
           msg == Canonical(r.ns, r.key, r.rev)
<1>1. Signature(r) = CASE Scheme(r.algo) = HMAC /\ secret # NoKey -> [by |-> secret, msg |-> msg]
        [] Scheme(r.algo) = Ed25519 /\ pair # NoKey /\ pair.priv # NoKey -> [by |-> pair.priv, msg |-> msg]
        [] OTHER -> NoKey
  BY DEF Signature
<1>2. \A sig : Verify(r, sig) <=>
        /\ sig # NoKey
        /\ sig.msg = msg
        /\ \/ Scheme(r.algo) = HMAC /\ secret # NoKey /\ sig.by = secret
           \/ Scheme(r.algo) = Ed25519 /\ pair # NoKey /\ sig.by = pair.pub
  BY DEF Verify
<1>3. Paired(r) <=> (Scheme(r.algo) = Ed25519 => pair.priv = pair.pub)
  BY DEF Paired
<1> HIDE DEF secret, pair, msg
<1>4. CASE Scheme(r.algo) = HMAC /\ secret # NoKey
  <2>1. Scheme(r.algo) # Ed25519
    BY <1>4 DEF HMAC, Ed25519
  <2>2. Signature(r) = [by |-> secret, msg |-> msg]
    BY <1>1, <1>4, <2>1
  <2>3. Signature(r).by = secret /\ Signature(r).msg = msg
    BY <2>2
  <2> QED BY <1>2, <1>3, <1>4, <2>1, <2>3
<1>5. CASE Scheme(r.algo) = Ed25519 /\ pair # NoKey /\ pair.priv # NoKey
  <2>1. Scheme(r.algo) # HMAC
    BY <1>5 DEF HMAC, Ed25519
  <2>2. Signature(r) = [by |-> pair.priv, msg |-> msg]
    BY <1>1, <1>5, <2>1
  <2>3. Signature(r).by = pair.priv /\ Signature(r).msg = msg
    BY <2>2
  <2> QED BY <1>2, <1>3, <1>5, <2>1, <2>3
<1> QED BY <1>1, <1>4, <1>5

-----------------------------------------------------------------------------
(* Steps.                                                                  *)
LEMMA RingInitOK ==
  ASSUME KeyringNames, RingInit
  PROVE  RingOK
  BY DEF RingInit, RingOK, KeyringNames, IssuedFor, Empty

LEMMA RingStepOK ==
  ASSUME KeyringNames, RingOK, [RingNext]_ringVars
  PROVE  RingOK'
<1>1. ASSUME NEW ns \in Spaces \cup {Global}, NEW id \in KeyIDs \cup {NoID}, NEW secret \in Secrets,
             PutHMAC(ns, id, secret)
      PROVE  RingOK'
  BY <1>1 DEF RingOK, PutHMAC, IssuedFor
<1>2. ASSUME NEW ns \in Spaces \cup {Global}, NEW id \in KeyIDs \cup {NoID}, NEW pair \in Pairs,
             NEW priv \in Pairs \cup {NoKey}, PutEd(ns, id, pair, priv)
      PROVE  RingOK'
  BY <1>2 DEF RingOK, PutEd, IssuedFor
<1>3. ASSUME NEW id \in KeyIDs \cup {NoID}, SetDefaultID(id)
      PROVE  RingOK'
  BY <1>3 DEF RingOK, SetDefaultID, IssuedFor
<1>4. ASSUME NEW r \in Request, Issue(r)
      PROVE  RingOK'
  <2>1. Signature(r).msg = Canonical(r.ns, r.key, r.rev)
    BY <1>4, SignatureIsFor DEF Issue
  <2>2. issued' = issued \cup {[for |-> r, sig |-> Signature(r)]}
    BY <1>4 DEF Issue
  <2>3. IssuedFor'
    BY <2>1, <2>2 DEF RingOK, IssuedFor
  <2> QED BY <1>4, <2>3 DEF RingOK, Issue
<1>5. CASE UNCHANGED ringVars
  BY <1>5 DEF ringVars, RingOK, IssuedFor
<1> QED BY <1>1, <1>2, <1>3, <1>4, <1>5 DEF RingNext

(* What Verify answers depends on the key of its request alone.            *)
LEMMA VerdictFollowsKey ==
  ASSUME NEW r, NEW sig, ~KeyChanges(r)
  PROVE  Verify(r, sig)' <=> Verify(r, sig)
<1> DEFINE id == Named(r.id, deflt)
<1>1. Named(r.id, deflt') = id
  BY DEF KeyChanges, Named
<1>2. /\ ~Moved(r, id, hmac, hmac')
      /\ ~Moved(r, id, ed, ed')
  BY DEF KeyChanges
<1>3. Lookup(hmac', r.ns, r.id, deflt') = Lookup(hmac, r.ns, r.id, deflt)
  BY <1>1, <1>2 DEF Lookup, Moved
<1>4. Lookup(ed', r.ns, r.id, deflt') = Lookup(ed, r.ns, r.id, deflt)
  BY <1>1, <1>2 DEF Lookup, Moved
<1> QED BY <1>3, <1>4 DEF Verify

(* The bytes that are signed tell requests apart.                          *)
LEMMA CanonicalTellsApart ==
  ASSUME NEW r \in Request, NEW q \in Request,
         Canonical(r.ns, r.key, r.rev) = Canonical(q.ns, q.key, q.rev)
  PROVE  r.ns = q.ns /\ r.key = q.key /\ r.rev = q.rev
<1>1. r.rev \in 0..1 /\ q.rev \in 0..1
  BY DEF Request
<1> QED BY <1>1 DEF Canonical

LEMMA OwnKeyRulesStep ==
  ASSUME KeyringNames, RingOK, RingOK', [RingNext]_ringVars
  PROVE  /\ \A s \in issued' \ issued : Verify(s.for, s.sig)' <=> Paired(s.for)
         /\ \A s \in issued : Verify(s.for, s.sig)' # Verify(s.for, s.sig) => KeyChanges(s.for)
         /\ \A s \in issued', r \in Request :
              (r.ns # s.for.ns \/ r.key # s.for.key \/ r.rev # s.for.rev) => ~Verify(r, s.sig)'
<1>1. \A s \in issued' \ issued : Verify(s.for, s.sig)' <=> Paired(s.for)
  <2> SUFFICES ASSUME NEW s \in issued' \ issued
               PROVE  Verify(s.for, s.sig)' <=> Paired(s.for)
    OBVIOUS
  <2>1. PICK r \in Request : Issue(r)
    BY DEF RingNext, ringVars, PutHMAC, PutEd, SetDefaultID
  <2>2. s = [for |-> r, sig |-> Signature(r)]
    BY <2>1 DEF Issue
  <2>3. Verify(r, Signature(r)) <=> Paired(r)
    BY <2>1, SignedIsAccepted DEF Issue
  <2>4. UNCHANGED <<hmac, ed, deflt>>
    BY <2>1 DEF Issue
  <2>5. Verify(s.for, s.sig) <=> Paired(s.for)
    BY <2>2, <2>3
  <2> QED BY <2>4, <2>5 DEF Verify, Paired
<1>2. \A s \in issued : Verify(s.for, s.sig)' # Verify(s.for, s.sig) => KeyChanges(s.for)
  <2> SUFFICES ASSUME NEW s \in issued, ~KeyChanges(s.for) PROVE Verify(s.for, s.sig)' = Verify(s.for, s.sig)
    OBVIOUS
  <2>1. Verify(s.for, s.sig)' <=> Verify(s.for, s.sig)
    BY VerdictFollowsKey
  <2> QED BY <2>1 DEF Verify
<1>3. \A s \in issued', r \in Request :
        (r.ns # s.for.ns \/ r.key # s.for.key \/ r.rev # s.for.rev) => ~Verify(r, s.sig)'
  <2> SUFFICES ASSUME NEW s \in issued', NEW r \in Request, Verify(r, s.sig)'
               PROVE  r.ns = s.for.ns /\ r.key = s.for.key /\ r.rev = s.for.rev
    OBVIOUS
  <2>1. s.sig.msg = Canonical(r.ns, r.key, r.rev)
    BY DEF Verify
  <2>2. s.for \in Request /\ s.sig.msg = Canonical(s.for.ns, s.for.key, s.for.rev)
    BY DEF RingOK, IssuedFor
  <2>3. Canonical(r.ns, r.key, r.rev) = Canonical(s.for.ns, s.for.key, s.for.rev)
    BY <2>1, <2>2
  <2>4. s.for \in Request
    BY <2>2
  <2> QED BY <2>3, <2>4, CanonicalTellsApart
<1> QED BY <1>1, <1>2, <1>3

-----------------------------------------------------------------------------
(* A signature is accepted for its own request, unless it was made with    *)
(* the private half of another pair, and for no other, and until its key   *)
(* changes: a namespace with a key of its own does not see the ring for    *)
(* all.                                                                    *)
THEOREM OwnKeysRule == RingSpec => OwnKeyRules
<1>1. RingInit => RingOK
  BY RingInitOK, KeyringNames
<1>2. RingOK /\ [RingNext]_ringVars => RingOK'
  BY RingStepOK, KeyringNames
<1>3. RingSpec => []RingOK
  BY <1>1, <1>2, PTL DEF RingSpec
<1>4. RingOK /\ RingOK' /\ [RingNext]_ringVars =>
        /\ \A s \in issued' \ issued : Verify(s.for, s.sig)' <=> Paired(s.for)
        /\ \A s \in issued : Verify(s.for, s.sig)' # Verify(s.for, s.sig) => KeyChanges(s.for)
        /\ \A s \in issued', r \in Request :
             (r.ns # s.for.ns \/ r.key # s.for.key \/ r.rev # s.for.rev) => ~Verify(r, s.sig)'
  BY OwnKeyRulesStep, KeyringNames
<1> QED BY <1>3, <1>4, PTL DEF RingSpec, OwnKeyRules

-----------------------------------------------------------------------------
(***************************************************************************)
(* Names.                                                                  *)
(***************************************************************************)
KeyChars == Alnum \cup {".", "_", Slash}

(* Two texts with a character between them.                                *)
LEMMA Between ==
  ASSUME NEW S, NEW x \in S, NEW a \in Seq(S), NEW b \in Seq(S), NEW t, t = a \o <<x>> \o b
  PROVE  /\ t \in Seq(S)
         /\ Len(t) = (Len(a) + 1) + Len(b)
         /\ t[Len(a) + 1] = x
         /\ \A i \in 1..Len(a) : t[i] = a[i]
         /\ \A i \in 1..Len(b) : t[(Len(a) + 1) + i] = b[i]
<1> DEFINE h == a \o <<x>>
<1>0. Len(a) \in Nat /\ Len(b) \in Nat
  OBVIOUS
<1>1. <<x>> \in Seq(S) /\ Len(<<x>>) = 1 /\ <<x>>[1] = x
  OBVIOUS
<1>2. h \in Seq(S) /\ Len(h) = Len(a) + 1 /\ h[Len(a) + 1] = x /\ \A i \in 1..Len(a) : h[i] = a[i]
  BY <1>1
<1>3. t = h \o b
  OBVIOUS
<1> HIDE DEF h
<1>4. /\ t \in Seq(S)
      /\ Len(t) = Len(h) + Len(b)
      /\ \A i \in 1..Len(h) : t[i] = h[i]
      /\ \A i \in 1..Len(b) : t[Len(h) + i] = b[i]
  BY <1>2, <1>3
<1>5. Len(a) + 1 \in 1..Len(h) /\ \A i \in 1..Len(a) : i \in 1..Len(h)
  BY <1>0, <1>2
<1> QED BY <1>2, <1>4, <1>5

(* Between the cuts i and j of p there is a segment,                       *)
Piece(p, i, j) ==
  /\ i < j
  /\ i = 0 \/ p[i] = Slash
  /\ j = Len(p) + 1 \/ p[j] = Slash
  /\ \A c \in 1..Len(p) : i < c /\ c < j => p[c] # Slash

(* and it is empty, "." or "..".                                           *)
BadPiece(p, i, j) ==
  \/ j = i + 1
  \/ j = i + 2 /\ p[i + 1] = "."
  \/ j = i + 3 /\ p[i + 1] = "." /\ p[i + 2] = "."

Clean(p) ==
  /\ p \in Seq(KeyChars)
  /\ \A i \in 0..Len(p), j \in 1..Len(p) + 1 : Piece(p, i, j) => ~BadPiece(p, i, j)

LEMMA CharsDiffer ==
  /\ Slash \notin Alnum \cup {".", "_"} /\ Nul \notin KeyChars /\ Nul \notin {"a", "0", "_"}
  /\ KeyChars = Alnum \cup {".", "_"} \cup {Slash} /\ KeyChars \subseteq Chars
BY DEF Slash, Nul, Alnum, Letters, KeyChars, Chars

(* The segment that ValidKey looks at before a cut.                        *)
LEMMA SegmentIs ==
  ASSUME NEW key \in Seq(Chars), NEW j \in Ends(key)
  PROVE  \E i \in 0..Len(key) : Piece(key, i, j) /\ SegmentAt(key, j) = SubSeq(key, i + 1, j - 1)
<1>1. Len(key) \in Nat /\ Ends(key) \subseteq 1..Len(key) + 1 /\ j \in 1..Len(key) + 1
  BY DEF Ends
<1> DEFINE Start(s) == s < j /\ \A c \in Ends(key) : c < j => c <= s
           start == CHOOSE s \in {0} \cup Ends(key) : Start(s)
<1>2. \E s \in {0} \cup Ends(key) : Start(s)
  <2> DEFINE T == {c \in Ends(key) : c < j}
  <2>1. T \subseteq 1..Len(key) + 1 /\ (\A c \in T : c < j)
    BY <1>1
  <2>2. CASE T = {}
    BY <1>1, <2>2
  <2>3. CASE T # {}
    <3>1. PICK s \in T : \A c \in T : c <= s
      <4>1. Len(key) + 1 \in Nat
        BY <1>1
      <4> HIDE DEF T
      <4> QED BY <2>1, <2>3, <4>1, GreatestBelow
    <3> QED BY <3>1
  <2> QED BY <2>2, <2>3
<1>3. start \in {0} \cup Ends(key) /\ Start(start)
  BY <1>2
<1> HIDE DEF start
<1>4. start \in 0..Len(key) /\ (start = 0 \/ key[start] = Slash)
  BY <1>1, <1>3 DEF Ends
<1>5. j = Len(key) + 1 \/ key[j] = Slash
  BY DEF Ends
<1>6. ASSUME NEW c \in 1..Len(key), start < c, c < j PROVE key[c] # Slash
  <2> SUFFICES ASSUME key[c] = Slash PROVE FALSE
    OBVIOUS
  <2>1. c \in Ends(key)
    BY DEF Ends
  <2> QED BY <1>1, <1>3, <1>4, <1>6, <2>1
<1>7. Piece(key, start, j)
  BY <1>3, <1>4, <1>5, <1>6 DEF Piece
<1>8. SegmentAt(key, j) = SubSeq(key, start + 1, j - 1)
  BY DEF SegmentAt, start
<1> QED BY <1>4, <1>7, <1>8

(* It is bad if it is empty, "." or "..".                                  *)
LEMMA BadSegment ==
  ASSUME NEW key \in Seq(Chars), NEW i \in 0..Len(key), NEW j \in 1..Len(key) + 1, i < j
  PROVE  SubSeq(key, i + 1, j - 1) \in {<<>>, <<".">>, <<".", ".">>} <=> BadPiece(key, i, j)
<1> DEFINE s == SubSeq(key, i + 1, j - 1)
<1>0. Len(key) \in Nat /\ i + 1 \in Int /\ j - 1 \in Int
  OBVIOUS
<1>1. s \in Seq(Chars) /\ Len(s) = j - 1 - i /\ \A c \in 1..Len(s) : s[c] = key[i + c]
  <2>1. \A c \in (i + 1)..(j - 1) : key[c] \in Chars
    OBVIOUS
  <2>2. /\ s \in Seq(Chars)
        /\ Len(s) = IF i + 1 <= j - 1 THEN (j - 1) - (i + 1) + 1 ELSE 0
        /\ \A c \in 1..(j - 1) - (i + 1) + 1 : s[c] = key[(i + 1) + c - 1]
    BY <1>0, <2>1, SubSeqProperties
  <2> HIDE DEF s
  <2>3. Len(s) = j - 1 - i /\ (j - 1) - (i + 1) + 1 = j - 1 - i
    BY <2>2
  <2>4. \A c \in 1..Len(s) : (i + 1) + c - 1 = i + c
    OBVIOUS
  <2> QED BY <2>2, <2>3, <2>4
<1> HIDE DEF s
<1>2. s = <<>> <=> j = i + 1
  BY <1>1
<1>3. s = <<".">> <=> (Len(s) = 1 /\ s[1] = ".")
  <2>1. ASSUME Len(s) = 1, s[1] = "." PROVE s = <<".">>
    <3>1. Len(<<".">>) = 1 /\ <<".">>[1] = "."
      OBVIOUS
    <3>2. s = [c \in 1..1 |-> s[c]]
      <4>1. s = [c \in 1..Len(s) |-> s[c]]
        BY <1>1
      <4> QED BY <2>1, <4>1
    <3> QED BY <2>1, <3>1, <3>2
  <2>2. ASSUME s = <<".">> PROVE Len(s) = 1 /\ s[1] = "."
    BY <2>2
  <2> QED BY <2>1, <2>2
<1>4. s = <<".", ".">> <=> (Len(s) = 2 /\ s[1] = "." /\ s[2] = ".")
  <2>1. ASSUME Len(s) = 2, s[1] = ".", s[2] = "." PROVE s = <<".", ".">>
    <3>1. s = [c \in 1..2 |-> s[c]]
      <4>1. s = [c \in 1..Len(s) |-> s[c]]
        BY <1>1
      <4> QED BY <2>1, <4>1
    <3> QED BY <2>1, <3>1
  <2>2. ASSUME s = <<".", ".">> PROVE Len(s) = 2 /\ s[1] = "." /\ s[2] = "."
    BY <2>2
  <2> QED BY <2>1, <2>2
<1>5. Len(s) = 1 <=> j = i + 2
  BY <1>1
<1>6. Len(s) = 2 <=> j = i + 3
  BY <1>1
<1>7. Len(s) = 1 => s[1] = key[i + 1]
  <2>1. Len(s) = 1 => 1 \in 1..Len(s)
    OBVIOUS
  <2> QED BY <1>1, <2>1
<1>8. Len(s) = 2 => s[1] = key[i + 1] /\ s[2] = key[i + 2]
  <2>1. Len(s) = 2 => 1 \in 1..Len(s) /\ 2 \in 1..Len(s)
    OBVIOUS
  <2> QED BY <1>1, <2>1
<1> QED BY <1>2, <1>3, <1>4, <1>5, <1>6, <1>7, <1>8 DEF BadPiece, s

(* ValidKey, by places and not by segments.                                *)
LEMMA ValidIsClean ==
  ASSUME NEW key \in Seq(Chars)
  PROVE  ValidKey(key) <=> Clean(key) /\ key # <<>> /\ Len(key) <= MaxKeyLen /\ key[1] \in Alnum
<1>0. Len(key) \in Nat
  OBVIOUS
<1>1. ASSUME ValidKey(key) PROVE Clean(key)
  <2>1. key \in Seq(KeyChars)
    <3>1. \A c \in 1..Len(key) : key[c] \in KeyChars
      BY <1>1 DEF ValidKey, KeyChars
    <3>2. key = [c \in 1..Len(key) |-> key[c]]
      OBVIOUS
    <3> QED BY <1>0, <3>1, <3>2
  <2>2. ASSUME NEW i \in 0..Len(key), NEW j \in 1..Len(key) + 1, Piece(key, i, j) PROVE ~BadPiece(key, i, j)
    <3>1. j \in Ends(key)
      BY <2>2 DEF Piece, Ends
    <3>2. PICK k \in 0..Len(key) : Piece(key, k, j) /\ SegmentAt(key, j) = SubSeq(key, k + 1, j - 1)
      BY <3>1, SegmentIs
    <3>3. k = i
      <4>1. ASSUME k < i PROVE FALSE
        <5>1. i \in 1..Len(key) /\ i < j
          BY <1>0, <2>2, <4>1 DEF Piece
        <5>2. key[i] = Slash
          BY <2>2, <5>1 DEF Piece
        <5>3. key[i] # Slash
          BY <3>2, <4>1, <5>1 DEF Piece
        <5> QED BY <5>2, <5>3
      <4>2. ASSUME i < k PROVE FALSE
        <5>1. k \in 1..Len(key) /\ k < j
          BY <1>0, <3>2, <4>2 DEF Piece
        <5>2. key[k] = Slash
          BY <3>2, <5>1 DEF Piece
        <5>3. key[k] # Slash
          BY <2>2, <4>2, <5>1 DEF Piece
        <5> QED BY <5>2, <5>3
      <4>3. i \in Int /\ k \in Int
        BY <1>0
      <4> QED BY <4>1, <4>2, <4>3
    <3>4. SubSeq(key, i + 1, j - 1) \notin {<<>>, <<".">>, <<".", ".">>}
      BY <1>1, <3>1, <3>2, <3>3 DEF ValidKey
    <3> QED BY <2>2, <3>4, BadSegment DEF Piece
  <2> QED BY <2>1, <2>2 DEF Clean
<1>2. ASSUME Clean(key), key # <<>>, Len(key) <= MaxKeyLen, key[1] \in Alnum PROVE ValidKey(key)
  <2>1. \A c \in 1..Len(key) : key[c] \in KeyChars
    BY <1>2 DEF Clean
  <2>2. key[1] # Slash
    BY <1>2, CharsDiffer
  <2>3. key[Len(key)] # Slash
    <3> SUFFICES ASSUME key[Len(key)] = Slash PROVE FALSE
      OBVIOUS
    <3>1. Len(key) \in 0..Len(key) /\ Len(key) + 1 \in 1..Len(key) + 1 /\ Len(key) # 0
      BY <1>0, <1>2
    <3>2. Piece(key, Len(key), Len(key) + 1)
      BY <1>0 DEF Piece
    <3>3. BadPiece(key, Len(key), Len(key) + 1)
      BY DEF BadPiece
    <3> QED BY <1>2, <3>1, <3>2, <3>3 DEF Clean
  <2>4. ASSUME NEW j \in Ends(key) PROVE SegmentAt(key, j) \notin {<<>>, <<".">>, <<".", ".">>}
    <3>1. PICK i \in 0..Len(key) : Piece(key, i, j) /\ SegmentAt(key, j) = SubSeq(key, i + 1, j - 1)
      BY SegmentIs
    <3>2. j \in 1..Len(key) + 1 /\ i < j
      BY <1>0, <3>1 DEF Ends, Piece
    <3>3. ~BadPiece(key, i, j)
      BY <1>2, <3>1, <3>2 DEF Clean
    <3> QED BY <3>1, <3>2, <3>3, BadSegment
  <2> QED BY <1>2, <2>1, <2>2, <2>3, <2>4 DEF ValidKey, KeyChars
<1>3. ValidKey(key) => key # <<>> /\ Len(key) <= MaxKeyLen /\ key[1] \in Alnum
  BY DEF ValidKey
<1> QED BY <1>1, <1>2, <1>3

(* The parts of a clean name: a segment alone, or one before a slash.      *)
Text(p) == p \in Seq(Alnum \cup {".", "_"}) /\ p \notin {<<>>, <<".">>, <<".", ".">>}

LEMMA SegmentsAre ==
  ASSUME NEW n \in Int, NEW p
  PROVE  p \in Segments(n) <=> Text(p) /\ Len(p) <= n
<1> DEFINE C == Alnum \cup {".", "_"}
           Odd == {<<".">>, <<".", ".">>}
           Long == UNION {[1..k -> C] : k \in 1..n}
<1>1. p \in Segments(n) <=> p \in Long /\ p \notin Odd
  BY DEF Segments
<1>2. Text(p) <=> p \in Seq(C) /\ p # <<>> /\ p \notin Odd
  BY DEF Text
<1> HIDE DEF C, Odd
<1>3. ASSUME NEW k \in 1..n, p \in [1..k -> C] PROVE p \in Seq(C) /\ Len(p) = k /\ p # <<>>
  <2>1. k \in Nat
    OBVIOUS
  <2>2. p \in Seq(C) /\ Len(p) = k
    BY <1>3, <2>1
  <2> QED BY <2>2
<1>4. ASSUME p \in Seq(C), p # <<>>, Len(p) <= n PROVE Len(p) \in 1..n /\ p \in [1..Len(p) -> C]
  BY <1>4
<1>5. ASSUME p \in Segments(n) PROVE Text(p) /\ Len(p) <= n
  <2>1. PICK k \in 1..n : p \in [1..k -> C]
    <3>1. p \in Long
      <4> HIDE DEF Long
      <4> QED BY <1>1, <1>5
    <3> QED BY <3>1
  <2>2. p \in Seq(C) /\ Len(p) = k /\ p # <<>>
    BY <1>3, <2>1
  <2>3. Len(p) <= n
    BY <2>2
  <2>4. p \notin Odd
    <3> HIDE DEF Long
    <3> QED BY <1>1, <1>5
  <2> QED BY <1>2, <2>2, <2>3, <2>4
<1>6. ASSUME Text(p), Len(p) <= n PROVE p \in Segments(n)
  <2>1. p \in Seq(C) /\ p # <<>> /\ p \notin Odd
    BY <1>2, <1>6
  <2>2. Len(p) \in 1..n /\ p \in [1..Len(p) -> C]
    BY <1>4, <1>6, <2>1
  <2>3. p \in Long
    <3> DEFINE k == Len(p)
    <3>1. k \in 1..n /\ p \in [1..k -> C]
      BY <2>2
    <3> HIDE DEF k
    <3> QED BY <3>1
  <2> HIDE DEF Long
  <2> QED BY <1>1, <2>1, <2>3
<1> QED BY <1>5, <1>6

LEMMA TextIsClean ==
  ASSUME NEW p \in Seq(KeyChars), \A c \in 1..Len(p) : p[c] # Slash
  PROVE  Clean(p) <=> Text(p)
<1> DEFINE C == Alnum \cup {".", "_"}
           n == Len(p)
<1>0. n \in Nat
  OBVIOUS
<1>1. p \in Seq(C) /\ p \in Seq(Chars)
  <2>1. KeyChars = C \cup {Slash} /\ KeyChars \subseteq Chars
    BY CharsDiffer
  <2> HIDE DEF C
  <2>2. \A c \in 1..Len(p) : p[c] \in KeyChars
    OBVIOUS
  <2>3. \A c \in 1..Len(p) : p[c] \in C /\ p[c] \in Chars
    BY <2>1, <2>2
  <2>4. p = [c \in 1..Len(p) |-> p[c]]
    OBVIOUS
  <2>5. p \in [1..Len(p) -> C] /\ p \in [1..Len(p) -> Chars]
    BY <2>3, <2>4
  <2> QED BY <1>0, <2>5
<1>2. Text(p) <=> p \notin {<<>>, <<".">>, <<".", ".">>}
  BY <1>1 DEF Text
<1> HIDE DEF C
<1>3. ASSUME NEW i \in 0..n, NEW j \in 1..n + 1
      PROVE  Piece(p, i, j) <=> i = 0 /\ j = n + 1
  <2>1. i \in 1..n => p[i] # Slash
    OBVIOUS
  <2>2. j \in 1..n => p[j] # Slash
    OBVIOUS
  <2> HIDE DEF n
  <2>3. (i = 0 \/ i \in 1..n) /\ (j = n + 1 \/ j \in 1..n)
    BY <1>0
  <2>4. 0 < n + 1
    BY <1>0
  <2> QED BY <2>1, <2>2, <2>3, <2>4 DEF Piece, n
<1>4. 0 \in 0..n /\ n + 1 \in 1..n + 1 /\ 0 < n + 1
  <2> HIDE DEF n
  <2> QED BY <1>0
<1>5. Clean(p) <=> ~BadPiece(p, 0, n + 1)
  BY <1>3, <1>4 DEF Clean
<1>6. BadPiece(p, 0, n + 1) <=> p \in {<<>>, <<".">>, <<".", ".">>}
  <2>1. SubSeq(p, 0 + 1, (n + 1) - 1) \in {<<>>, <<".">>, <<".", ".">>} <=> BadPiece(p, 0, n + 1)
    BY <1>1, <1>4, BadSegment
  <2>2. 0 + 1 = 1 /\ (n + 1) - 1 = n
    <3> HIDE DEF n
    <3> QED BY <1>0
  <2>3. SubSeq(p, 1, Len(p)) = p
    BY <1>1, SubSeqFull
  <2> QED BY <2>1, <2>2, <2>3
<1> QED BY <1>2, <1>5, <1>6

(* A name with a slash is clean if and only if both its parts are.         *)
LEMMA JoinIsClean ==
  ASSUME NEW s \in Seq(KeyChars), \A c \in 1..Len(s) : s[c] # Slash, NEW q \in Seq(KeyChars),
         NEW p, p = s \o <<Slash>> \o q
  PROVE  p \in Seq(KeyChars) /\ (Clean(p) <=> Clean(s) /\ Clean(q))
<1> DEFINE m == Len(s)
           n == Len(q)
           k == m + 1
           l == Len(p)
<1>0. m \in Nat /\ n \in Nat
  OBVIOUS
<1>1. /\ p \in Seq(KeyChars) /\ l = k + n /\ p[k] = Slash
      /\ \A c \in 1..m : p[c] = s[c]
      /\ \A c \in 1..n : p[k + c] = q[c]
  <2>1. Slash \in KeyChars
    BY DEF KeyChars
  <2> QED BY <2>1, Between
<1>2. k \in Nat /\ l \in Nat /\ k >= 1 /\ k = m + 1 /\ l = k + n
  BY <1>0, <1>1
<1>3. \A c \in 1..m : p[c] # Slash
  BY <1>1
<1> HIDE DEF k, l, m, n
<1>4. ASSUME NEW i \in 0..l, NEW j \in 1..l + 1, Piece(p, i, j) PROVE (i = 0 /\ j = k) \/ i >= k
  <2>1. i < j /\ (i = 0 \/ p[i] = Slash) /\ (j = l + 1 \/ p[j] = Slash)
        /\ \A c \in 1..l : i < c /\ c < j => p[c] # Slash
    BY <1>4 DEF Piece, l
  <2>2. i \notin 1..m
    <3> SUFFICES ASSUME i \in 1..m PROVE FALSE
      OBVIOUS
    <3>1. p[i] # Slash
      BY <1>3
    <3>2. i # 0
      BY <1>0
    <3>3. i = 0 \/ p[i] = Slash
      BY <2>1
    <3> QED BY <3>1, <3>2, <3>3
  <2>3. i = 0 => j = k
    <3>1. k \in 1..l
      BY <1>0, <1>2
    <3>2. i = 0 => ~(k < j)
      BY <1>1, <1>2, <2>1, <3>1
    <3>3. j \notin 1..m
      BY <1>0, <1>2, <1>3, <2>1
    <3> QED BY <1>0, <1>2, <3>2, <3>3
  <2> QED BY <1>0, <1>2, <2>2, <2>3
<1>5. Piece(p, 0, k)
  <2>1. \A c \in 1..l : 0 < c /\ c < k => c \in 1..m
    BY <1>0, <1>2
  <2>2. \A c \in 1..l : 0 < c /\ c < k => p[c] # Slash
    BY <1>3, <2>1
  <2>3. 0 < k
    BY <1>2
  <2> QED BY <1>1, <2>2, <2>3 DEF Piece, l
<1>6. BadPiece(p, 0, k) <=> BadPiece(s, 0, k)
  <2>1. k = 2 => 1 \in 1..m
    BY <1>0, <1>2
  <2>2. k = 3 => 1 \in 1..m /\ 2 \in 1..m
    BY <1>0, <1>2
  <2>3. k = 2 => p[1] = s[1]
    BY <1>1, <2>1
  <2>4. k = 3 => p[1] = s[1] /\ p[2] = s[2]
    BY <1>1, <2>2
  <2>5. 0 + 1 = 1 /\ 0 + 2 = 2 /\ 0 + 3 = 3
    OBVIOUS
  <2> QED BY <2>3, <2>4, <2>5 DEF BadPiece
<1>7. Clean(s) <=> ~BadPiece(s, 0, k)
  <2>2. ASSUME NEW i \in 0..m, NEW j \in 1..m + 1
        PROVE  Piece(s, i, j) <=> i = 0 /\ j = m + 1
    <3>1. i \in 1..m => s[i] # Slash
      BY DEF m
    <3>2. j \in 1..m => s[j] # Slash
      BY DEF m
    <3>3. (i = 0 \/ i \in 1..m) /\ (j = m + 1 \/ j \in 1..m) /\ 0 < m + 1
      BY <1>0
    <3>4. \A c \in 1..m : s[c] # Slash
      BY DEF m
    <3> QED BY <3>1, <3>2, <3>3, <3>4 DEF Piece, m
  <2>3. 0 \in 0..m /\ m + 1 \in 1..m + 1
    BY <1>0
  <2> QED BY <1>2, <2>2, <2>3 DEF Clean, m
<1>8. ASSUME NEW i \in 0..n, NEW j \in 1..n + 1
      PROVE  /\ Piece(p, k + i, k + j) <=> Piece(q, i, j)
             /\ BadPiece(p, k + i, k + j) <=> BadPiece(q, i, j)
  <2>1. k + i # 0 /\ (k + j = l + 1 <=> j = n + 1) /\ (k + i < k + j <=> i < j)
    BY <1>0, <1>2
  <2>2. (k + i = 0 \/ p[k + i] = Slash) <=> (i = 0 \/ q[i] = Slash)
    <3>1. i = 0 => k + i = k
      BY <1>2
    <3>2. i # 0 => i \in 1..n
      BY <1>0
    <3> QED BY <1>1, <2>1, <3>1, <3>2
  <2>3. (k + j = l + 1 \/ p[k + j] = Slash) <=> (j = n + 1 \/ q[j] = Slash)
    <3>1. j # n + 1 => j \in 1..n
      BY <1>0
    <3> QED BY <1>1, <2>1, <3>1
  <2>4. (\A c \in 1..l : k + i < c /\ c < k + j => p[c] # Slash)
          <=> (\A c \in 1..n : i < c /\ c < j => q[c] # Slash)
    <3>1. ASSUME \A c \in 1..l : k + i < c /\ c < k + j => p[c] # Slash,
                 NEW c \in 1..n, i < c, c < j
          PROVE  q[c] # Slash
      <4>1. k + c \in 1..l /\ k + i < k + c /\ k + c < k + j
        BY <1>0, <1>2, <3>1
      <4>2. p[k + c] # Slash
        BY <3>1, <4>1
      <4> QED BY <1>1, <4>2
    <3>2. ASSUME \A c \in 1..n : i < c /\ c < j => q[c] # Slash,
                 NEW c \in 1..l, k + i < c, c < k + j
          PROVE  p[c] # Slash
      <4>1. c - k \in 1..n /\ i < c - k /\ c - k < j /\ k + (c - k) = c
        BY <1>0, <1>2, <3>2
      <4>2. q[c - k] # Slash
        BY <3>2, <4>1
      <4>3. p[k + (c - k)] = q[c - k]
        BY <1>1, <4>1
      <4> QED BY <4>1, <4>2, <4>3
    <3> QED BY <3>1, <3>2
  <2>5. Piece(p, k + i, k + j) <=> Piece(q, i, j)
    BY <2>1, <2>2, <2>3, <2>4 DEF Piece, l, n
  <2>6. BadPiece(p, k + i, k + j) <=> BadPiece(q, i, j)
    <3>1. (k + j = (k + i) + 1 <=> j = i + 1) /\ (k + j = (k + i) + 2 <=> j = i + 2)
          /\ (k + j = (k + i) + 3 <=> j = i + 3)
      BY <1>0, <1>2
    <3>2. /\ j = i + 2 \/ j = i + 3 => i + 1 \in 1..n /\ (k + i) + 1 = k + (i + 1)
          /\ j = i + 3 => i + 2 \in 1..n /\ (k + i) + 2 = k + (i + 2)
      BY <1>0, <1>2
    <3>3. /\ j = i + 2 \/ j = i + 3 => p[(k + i) + 1] = q[i + 1]
          /\ j = i + 3 => p[(k + i) + 2] = q[i + 2]
      BY <1>1, <3>2
    <3> QED BY <3>1, <3>3 DEF BadPiece
  <2> QED BY <2>5, <2>6
<1>9. ASSUME Clean(p) PROVE Clean(s) /\ Clean(q)
  <2>1. Clean(s)
    <3>1. 0 \in 0..l /\ k \in 1..l + 1
      BY <1>0, <1>2
    <3>2. ~BadPiece(p, 0, k)
      BY <1>5, <1>9, <3>1 DEF Clean, l
    <3> QED BY <1>6, <1>7, <3>2
  <2>2. ASSUME NEW i \in 0..n, NEW j \in 1..n + 1, Piece(q, i, j) PROVE ~BadPiece(q, i, j)
    <3>1. k + i \in 0..l /\ k + j \in 1..l + 1
      BY <1>0, <1>2
    <3>2. Piece(p, k + i, k + j) => ~BadPiece(p, k + i, k + j)
      BY <1>9, <3>1 DEF Clean, l
    <3> QED BY <1>8, <2>2, <3>2
  <2> QED BY <2>1, <2>2 DEF Clean, n
<1>10. ASSUME Clean(s), Clean(q) PROVE Clean(p)
  <2>1. ASSUME NEW i \in 0..l, NEW j \in 1..l + 1, Piece(p, i, j) PROVE ~BadPiece(p, i, j)
    <3>1. CASE i = 0 /\ j = k
      BY <1>6, <1>7, <1>10, <3>1
    <3>2. CASE i >= k
      <4> DEFINE a == i - k
                 b == j - k
      <4>1. i < j
        BY <2>1 DEF Piece
      <4>2. a \in 0..n /\ b \in 1..n + 1 /\ k + a = i /\ k + b = j
        BY <1>0, <1>2, <3>2, <4>1
      <4> HIDE DEF a, b
      <4>3. Piece(q, a, b) /\ (BadPiece(p, i, j) <=> BadPiece(q, a, b))
        BY <1>8, <2>1, <4>2
      <4> QED BY <1>10, <4>2, <4>3 DEF Clean, n
    <3> QED BY <1>4, <2>1, <3>1, <3>2
  <2> QED BY <1>1, <2>1 DEF Clean, l
<1> QED BY <1>1, <1>9, <1>10

-----------------------------------------------------------------------------
(* What is joined out of at most d parts.                                  *)
Joined(joined) == joined = [d \in 0..MaxKeyLen |-> IF d = 0 THEN {} ELSE Joins(joined[d - 1])]

Joining(q, S) ==
  \E a \in Segments(MaxKeyLen - 2) :
    \E b \in S : Len(b) <= MaxKeyLen - 2 /\ q = a \o <<Slash>> \o b

LEMMA JoinsAre ==
  ASSUME NEW S, NEW q
  PROVE  q \in Joins(S) <=> q \in Segments(MaxKeyLen) \/ Joining(q, S)
<1> DEFINE A == Segments(MaxKeyLen)
           B == Segments(MaxKeyLen - 2)
           C == {x \in S : Len(x) <= MaxKeyLen - 2}
           D == {sp[1] \o <<Slash>> \o sp[2] : sp \in B \X C}
<1>1. Joins(S) = A \cup D
  BY DEF Joins
<1> HIDE DEF A, B, C
<1>2. ASSUME q \in D PROVE \E a \in B : \E b \in C : q = a \o <<Slash>> \o b
  <2>1. PICK sp \in B \X C : q = sp[1] \o <<Slash>> \o sp[2]
    BY <1>2
  <2>2. sp[1] \in B /\ sp[2] \in C
    OBVIOUS
  <2> QED BY <2>1, <2>2
<1>3. ASSUME NEW a \in B, NEW b \in C, q = a \o <<Slash>> \o b PROVE q \in D
  <2> DEFINE sp == <<a, b>>
  <2>1. sp \in B \X C /\ sp[1] = a /\ sp[2] = b
    OBVIOUS
  <2>2. q = sp[1] \o <<Slash>> \o sp[2]
    BY <1>3, <2>1
  <2> HIDE DEF sp
  <2> QED BY <2>1, <2>2
<1> HIDE DEF D
<1>4. q \in Joins(S) <=> q \in A \/ q \in D
  BY <1>1
<1>5. q \in D <=> \E a \in B : \E b \in C : q = a \o <<Slash>> \o b
  BY <1>2, <1>3
<1>6. (\E a \in B : \E b \in C : q = a \o <<Slash>> \o b) <=> Joining(q, S)
  <2> DEFINE J(a, b) == q = a \o <<Slash>> \o b
  <2>1. Joining(q, S) <=> \E a \in B : \E b \in S : Len(b) <= MaxKeyLen - 2 /\ J(a, b)
    BY DEF Joining, B
  <2>2. \A b : b \in C <=> b \in S /\ Len(b) <= MaxKeyLen - 2
    BY DEF C
  <2> HIDE DEF J
  <2>3. (\E a \in B : \E b \in C : J(a, b)) <=> Joining(q, S)
    BY <2>1, <2>2
  <2> QED BY <2>3 DEF J
<1> QED BY <1>4, <1>5, <1>6 DEF A

LEMMA JoinedStep ==
  ASSUME NEW joined, Joined(joined)
  PROVE  joined[0] = {} /\ \A d \in 0..MaxKeyLen : d # 0 => joined[d] = Joins(joined[d - 1])
<1>1. \A d \in 0..MaxKeyLen : joined[d] = IF d = 0 THEN {} ELSE Joins(joined[d - 1])
  BY DEF Joined
<1>2. 0 \in 0..MaxKeyLen
  BY NameLengths
<1> QED BY <1>1, <1>2

(* Every one of them is clean, and a clean name is one.                    *)
LEMMA JoinedIsClean ==
  ASSUME NEW joined, Joined(joined), NEW d \in 0..MaxKeyLen, NEW p \in joined[d]
  PROVE  Clean(p) /\ p # <<>>
<1> DEFINE G == {n \in Nat : n <= MaxKeyLen => \A q \in joined[n] : Clean(q) /\ q # <<>>}
<1>0. MaxKeyLen \in Nat \ {0} /\ MaxKeyLen - 2 \in Int
  BY NameLengths
<1>1. 0 \in G
  BY JoinedStep
<1>2. ASSUME NEW n \in Int, NEW s \in Segments(n)
      PROVE  s \in Seq(KeyChars) /\ (\A c \in 1..Len(s) : s[c] # Slash) /\ s # <<>> /\ Clean(s)
  <2>1. Text(s)
    BY SegmentsAre
  <2> DEFINE C == Alnum \cup {".", "_"}
  <2>2. s \in Seq(C) /\ s # <<>>
    BY <2>1 DEF Text
  <2>3. C \subseteq KeyChars /\ Slash \notin C
    BY CharsDiffer
  <2> HIDE DEF C
  <2>4. \A c \in 1..Len(s) : s[c] \in C
    BY <2>2
  <2>5. s \in Seq(KeyChars)
    BY <2>2, <2>3
  <2>6. \A c \in 1..Len(s) : s[c] # Slash
    BY <2>3, <2>4
  <2> QED BY <2>1, <2>2, <2>5, <2>6, TextIsClean
<1>3. ASSUME NEW n \in Nat, n \in G PROVE n + 1 \in G
  <2> SUFFICES ASSUME n + 1 <= MaxKeyLen, NEW q \in joined[n + 1] PROVE Clean(q) /\ q # <<>>
    OBVIOUS
  <2>1. n + 1 \in 0..MaxKeyLen /\ n + 1 # 0 /\ (n + 1) - 1 = n
    BY <1>0
  <2>2. q \in Joins(joined[n])
    BY <2>1, JoinedStep
  <2>3. CASE q \in Segments(MaxKeyLen)
    BY <1>0, <1>2, <2>3
  <2>4. CASE q \notin Segments(MaxKeyLen)
    <3>1. PICK s \in Segments(MaxKeyLen - 2), t \in joined[n] : q = s \o <<Slash>> \o t
      <4>1. Joining(q, joined[n])
        BY <2>2, <2>4, JoinsAre
      <4> QED BY <4>1 DEF Joining
    <3>2. Clean(t) /\ t # <<>> /\ t \in Seq(KeyChars)
      <4>1. n <= MaxKeyLen
        BY <1>0, <2>1
      <4>2. Clean(t) /\ t # <<>>
        BY <1>3, <3>1, <4>1
      <4> HIDE DEF G
      <4>3. t \in Seq(KeyChars)
        BY <4>2 DEF Clean
      <4> QED BY <4>2, <4>3
    <3>3. s \in Seq(KeyChars) /\ (\A c \in 1..Len(s) : s[c] # Slash) /\ s # <<>> /\ Clean(s)
      BY <1>0, <1>2
    <3>4. Clean(q)
      <4> HIDE DEF G
      <4>1. Clean(q) <=> Clean(s) /\ Clean(t)
        <5>1. s \in Seq(KeyChars) /\ t \in Seq(KeyChars) /\ \A c \in 1..Len(s) : s[c] # Slash
          BY <3>2, <3>3
        <5> QED BY <3>1, <5>1, JoinIsClean
      <4> QED BY <3>2, <3>3, <4>1
    <3>5. q # <<>>
      <4>1. <<Slash>> \in Seq(KeyChars)
        BY DEF KeyChars
      <4> QED BY <3>1, <3>2, <3>3, <4>1
    <3> QED BY <3>4, <3>5
  <2> QED BY <2>3, <2>4
<1>4. \A n \in Nat : n \in G
  <2> HIDE DEF G
  <2> QED BY <1>1, <1>3, NumberInduction
<1> QED BY <1>0, <1>4

LEMMA CleanIsJoined ==
  ASSUME NEW joined, Joined(joined), NEW p, Clean(p), p # <<>>, Len(p) <= MaxKeyLen
  PROVE  p \in joined[MaxKeyLen]
<1> DEFINE G == {n \in Nat : n <= MaxKeyLen =>
                   \A q \in Seq(KeyChars) : Clean(q) /\ q # <<>> /\ Len(q) <= n => q \in joined[n]}
<1>0. MaxKeyLen \in Nat \ {0} /\ MaxKeyLen - 2 \in Int
  BY NameLengths
<1>1. 0 \in G
  <2>1. ASSUME NEW q \in Seq(KeyChars), Len(q) <= 0 PROVE q = <<>>
    BY <2>1
  <2> QED BY <2>1
<1>2. ASSUME NEW n \in Nat, n \in G PROVE n + 1 \in G
  <2> SUFFICES ASSUME n + 1 <= MaxKeyLen, NEW q \in Seq(KeyChars), Clean(q), q # <<>>, Len(q) <= n + 1
               PROVE  q \in joined[n + 1]
    OBVIOUS
  <2>1. n + 1 \in 0..MaxKeyLen /\ n + 1 # 0 /\ (n + 1) - 1 = n /\ n <= MaxKeyLen
    BY <1>0
  <2>2. joined[n + 1] = Joins(joined[n])
    BY <2>1, JoinedStep
  <2>3. Len(q) \in Nat /\ Len(q) <= MaxKeyLen
    BY <1>0
  <2>4. CASE \A c \in 1..Len(q) : q[c] # Slash
    <3>1. q \in Segments(MaxKeyLen)
      BY <1>0, <2>3, <2>4, TextIsClean, SegmentsAre
    <3> QED BY <2>2, <3>1, JoinsAre
  <2>5. CASE \E c \in 1..Len(q) : q[c] = Slash
    <3> DEFINE S == {c \in 1..Len(q) : q[c] = Slash}
    <3>1. S \in SUBSET Nat /\ S # {}
      BY <2>5
    <3>2. PICK k \in S : \A c \in S : k <= c
      <4> HIDE DEF S
      <4> QED BY <3>1, LeastOf
    <3>3. k \in 1..Len(q) /\ q[k] = Slash
      BY <3>2
    <3>4. \A c \in 1..Len(q) : c < k => q[c] # Slash
      BY <3>2
    <3> DEFINE s == SubSeq(q, 1, k - 1)
               t == SubSeq(q, k + 1, Len(q))
    <3>5. s \in Seq(KeyChars) /\ Len(s) = k - 1 /\ \A c \in 1..k - 1 : s[c] = q[c]
      <4>1. 1 \in Int /\ k - 1 \in Int /\ \A c \in 1..k - 1 : c \in 1..Len(q)
        BY <2>3, <3>3
      <4>2. \A c \in 1..k - 1 : q[c] \in KeyChars
        BY <4>1
      <4>3. /\ s \in Seq(KeyChars)
            /\ Len(s) = IF 1 <= k - 1 THEN (k - 1) - 1 + 1 ELSE 0
            /\ \A c \in 1..(k - 1) - 1 + 1 : s[c] = q[1 + c - 1]
        BY <4>1, <4>2, SubSeqProperties
      <4>4. (k - 1) - 1 + 1 = k - 1 /\ \A c \in 1..k - 1 : 1 + c - 1 = c
        BY <2>3, <3>3
      <4>5. Len(s) = k - 1
        <5> HIDE DEF s
        <5> QED BY <3>3, <4>3
      <4> HIDE DEF s
      <4> QED BY <4>3, <4>4, <4>5
    <3>6. t \in Seq(KeyChars) /\ Len(t) = Len(q) - k /\ \A c \in 1..Len(q) - k : t[c] = q[k + c]
      <4>1. k + 1 \in Int /\ Len(q) \in Int /\ \A c \in (k + 1)..Len(q) : c \in 1..Len(q)
        BY <2>3, <3>3
      <4>2. \A c \in (k + 1)..Len(q) : q[c] \in KeyChars
        BY <4>1
      <4>3. /\ t \in Seq(KeyChars)
            /\ Len(t) = IF k + 1 <= Len(q) THEN Len(q) - (k + 1) + 1 ELSE 0
            /\ \A c \in 1..Len(q) - (k + 1) + 1 : t[c] = q[(k + 1) + c - 1]
        BY <4>1, <4>2, SubSeqProperties
      <4>4. Len(q) - (k + 1) + 1 = Len(q) - k /\ \A c \in 1..Len(q) - k : (k + 1) + c - 1 = k + c
        BY <2>3, <3>3
      <4>5. Len(t) = Len(q) - k
        <5> HIDE DEF t
        <5> QED BY <2>3, <3>3, <4>3
      <4> HIDE DEF t
      <4> QED BY <4>3, <4>4, <4>5
    <3> HIDE DEF s, t
    <3>7. q = s \o <<Slash>> \o t
      <4> DEFINE r == s \o <<Slash>> \o t
      <4>1. Slash \in KeyChars
        BY DEF KeyChars
      <4>2. /\ r \in Seq(KeyChars) /\ Len(r) = (Len(s) + 1) + Len(t) /\ r[Len(s) + 1] = Slash
            /\ \A c \in 1..Len(s) : r[c] = s[c]
            /\ \A c \in 1..Len(t) : r[(Len(s) + 1) + c] = t[c]
        <5>1. s \in Seq(KeyChars) /\ t \in Seq(KeyChars) /\ r = s \o <<Slash>> \o t
          BY <3>5, <3>6
        <5> HIDE DEF r
        <5> QED BY <4>1, <5>1, Between
      <4> HIDE DEF r
      <4>3. Len(s) + 1 = k /\ (Len(s) + 1) + Len(t) = Len(q)
        BY <2>3, <3>3, <3>5, <3>6
      <4>4. /\ r \in Seq(KeyChars) /\ Len(r) = Len(q) /\ r[k] = Slash
            /\ \A c \in 1..k - 1 : r[c] = s[c]
            /\ \A c \in 1..Len(q) - k : r[k + c] = t[c]
        BY <3>5, <3>6, <4>2, <4>3
      <4>5. ASSUME NEW c \in 1..Len(q) PROVE r[c] = q[c]
        <5>1. CASE c < k
          <6>1. c \in 1..k - 1
            BY <3>3, <5>1
          <6> QED BY <3>5, <4>4, <6>1
        <5>2. CASE c = k
          BY <3>3, <4>4, <5>2
        <5>3. CASE c > k
          <6>1. c - k \in 1..Len(q) - k /\ k + (c - k) = c
            BY <2>3, <3>3, <5>3
          <6>2. r[k + (c - k)] = t[c - k] /\ t[c - k] = q[k + (c - k)]
            BY <3>6, <4>4, <6>1
          <6> QED BY <6>1, <6>2
        <5> QED BY <3>3, <5>1, <5>2, <5>3
      <4>6. r = q
        BY <4>4, <4>5
      <4> QED BY <4>6 DEF r
    <3>8. \A c \in 1..Len(s) : s[c] # Slash
      <4>1. \A c \in 1..k - 1 : c \in 1..Len(q) /\ c < k
        BY <2>3, <3>3
      <4> QED BY <3>4, <3>5, <4>1
    <3>9. Clean(s) /\ Clean(t)
      BY <3>5, <3>6, <3>7, <3>8, JoinIsClean
    <3>10. s \in Segments(MaxKeyLen - 2) /\ t # <<>> /\ Len(t) <= n /\ Len(t) <= MaxKeyLen - 2
      <4>1. Text(s)
        BY <3>5, <3>8, <3>9, TextIsClean
      <4>2. s # <<>>
        BY <4>1 DEF Text
      <4>3. k # 1
        BY <3>5, <4>2
      <4>4. t # <<>>
        <5> SUFFICES ASSUME t = <<>> PROVE FALSE
          OBVIOUS
        <5>1. 0 \in 0..Len(t) /\ Len(t) + 1 \in 1..Len(t) + 1 /\ Len(t) = 0
          OBVIOUS
        <5>2. Piece(t, 0, 1) /\ BadPiece(t, 0, 1)
          BY <5>1 DEF Piece, BadPiece
        <5> QED BY <3>9, <5>1, <5>2 DEF Clean
      <4>5. Len(t) >= 1
        BY <3>6, <4>4
      <4>6. Len(s) <= MaxKeyLen - 2 /\ Len(t) <= MaxKeyLen - 2 /\ Len(t) <= n
        BY <1>0, <2>3, <3>3, <3>5, <3>6, <4>3, <4>5
      <4> QED BY <1>0, <4>1, <4>4, <4>6, SegmentsAre
    <3>11. t \in joined[n]
      BY <1>2, <2>1, <3>6, <3>9, <3>10
    <3>12. Joining(q, joined[n])
      BY <3>7, <3>10, <3>11 DEF Joining
    <3>13. q \in Joins(joined[n])
      BY <3>12, JoinsAre
    <3> QED BY <2>2, <3>13
  <2> QED BY <2>4, <2>5
<1>3. \A n \in Nat : n \in G
  <2> HIDE DEF G
  <2> QED BY <1>1, <1>2, NumberInduction
<1>4. p \in Seq(KeyChars)
  BY DEF Clean
<1> QED BY <1>0, <1>3, <1>4

LEMMA JoinedExists == \E joined : Joined(joined)
<1> DEFINE R == SUBSET Seq(KeyChars)
           F == [x \in (1..MaxKeyLen) \X R |-> Joins(x[2])]
<1>0. MaxKeyLen \in Nat /\ MaxKeyLen - 2 \in Int
  BY NameLengths
<1>1. ASSUME NEW n \in Int, NEW s \in Segments(n) PROVE s \in Seq(KeyChars)
  <2> DEFINE C == Alnum \cup {".", "_"}
  <2>1. s \in Seq(C)
    BY SegmentsAre DEF Text
  <2>2. C \subseteq KeyChars
    BY CharsDiffer
  <2> HIDE DEF C
  <2> QED BY <2>1, <2>2
<1>2. ASSUME NEW S \in R PROVE Joins(S) \in R
  <2> SUFFICES ASSUME NEW q \in Joins(S) PROVE q \in Seq(KeyChars)
    OBVIOUS
  <2>1. CASE q \in Segments(MaxKeyLen)
    BY <1>0, <1>1, <2>1
  <2>2. CASE q \notin Segments(MaxKeyLen)
    <3>1. PICK s \in Segments(MaxKeyLen - 2), t \in S : q = s \o <<Slash>> \o t
      <4>1. Joining(q, S)
        BY <2>2, JoinsAre
      <4> QED BY <4>1 DEF Joining
    <3>2. s \in Seq(KeyChars) /\ t \in Seq(KeyChars) /\ <<Slash>> \in Seq(KeyChars)
      <4>1. Slash \in KeyChars
        BY DEF KeyChars
      <4> QED BY <1>0, <1>1, <4>1
    <3> QED BY <3>1, <3>2
  <2> QED BY <2>1, <2>2
<1>3. F \in [(1..MaxKeyLen) \X R -> R]
  <2> HIDE DEF R
  <2> QED BY <1>2
<1>4. PICK g \in [0..MaxKeyLen -> R] : Unfolds(g, MaxKeyLen, {}, F)
  <2>1. {} \in R
    OBVIOUS
  <2> HIDE DEF R, F
  <2> QED BY <1>0, <1>3, <2>1, UnfoldExists
<1>5. ASSUME NEW d \in 0..MaxKeyLen PROVE g[d] = IF d = 0 THEN {} ELSE Joins(g[d - 1])
  <2>1. g[d] = IF d = 0 THEN {} ELSE F[<<d, g[d - 1]>>]
    <3> HIDE DEF F
    <3> QED BY <1>4 DEF Unfolds
  <2>2. d # 0 => d \in 1..MaxKeyLen /\ g[d - 1] \in R
    <3>1. d # 0 => d \in 1..MaxKeyLen /\ d - 1 \in 0..MaxKeyLen
      BY <1>0
    <3> HIDE DEF R
    <3> QED BY <3>1
  <2>3. d # 0 => F[<<d, g[d - 1]>>] = Joins(g[d - 1])
    <3> HIDE DEF R
    <3> QED BY <2>2
  <2> HIDE DEF F
  <2> QED BY <2>1, <2>3
<1>6. g = [d \in 0..MaxKeyLen |-> g[d]]
  OBVIOUS
<1>7. g = [d \in 0..MaxKeyLen |-> IF d = 0 THEN {} ELSE Joins(g[d - 1])]
  BY <1>5, <1>6
<1>8. Joined(g)
  BY <1>7 DEF Joined
<1> QED BY <1>8

(* The names the comment on ValidKey describes are the clean ones.         *)
LEMMA KeysAreClean ==
  ASSUME NEW key \in Seq(Chars)
  PROVE  key \in Keys <=> Clean(key) /\ key # <<>> /\ Len(key) <= MaxKeyLen /\ key[1] \in Alnum
<1> DEFINE joined == CHOOSE g : Joined(g)
<1>1. Joined(joined)
  BY JoinedExists
<1>2. Keys = {k \in joined[MaxKeyLen] : Len(k) <= MaxKeyLen /\ k[1] \in Alnum}
  BY Zenon DEF Keys, Joined
<1>3. MaxKeyLen \in 0..MaxKeyLen
  BY NameLengths
<1> HIDE DEF joined
<1> QED BY <1>1, <1>2, <1>3, JoinedIsClean, CleanIsJoined

(* For every text: ValidKey, which cuts it at its slashes, accepts it if   *)
(* and only if it is put together as its comment says, and the place of    *)
(* the byte 0 in what the store keeps tells where the namespace ends.      *)
THEOREM KeysAreThoseDescribed ==
  ASSUME NEW ns \in Seq(Chars), NEW key \in Seq(Chars)
  PROVE  KeyAllowed(ns, key)
<1>1. ValidKey(key) <=> key \in Keys
  BY KeysAreClean, ValidIsClean
<1>2. ASSUME ValidNSID(ns), ValidKey(key)
      PROVE  {i \in 1..Len(NsKey(ns, key)) : NsKey(ns, key)[i] = Nul} = {Len(ns) + 1}
  <2> DEFINE n == Len(ns)
             m == Len(key)
             t == NsKey(ns, key)
  <2>0. n \in Nat /\ m \in Nat
    OBVIOUS
  <2>1. \A i \in 1..n : ns[i] # Nul
    <3>1. ns[1] # Nul /\ \A i \in 2..n : ns[i] # Nul
      BY <1>2, CharsDiffer DEF ValidNSID
    <3> HIDE DEF n
    <3>2. \A i \in 1..n : i = 1 \/ i \in 2..n
      BY <2>0
    <3> QED BY <3>1, <3>2
  <2>2. \A i \in 1..m : key[i] # Nul
    <3>1. key \in Seq(KeyChars)
      BY <1>2, ValidIsClean DEF Clean
    <3>2. \A i \in 1..m : key[i] \in KeyChars
      BY <3>1
    <3> QED BY <3>2, CharsDiffer
  <2>3. /\ Len(t) = n + 1 + m /\ t[n + 1] = Nul
        /\ \A i \in 1..n : t[i] = ns[i]
        /\ \A i \in 1..m : t[(n + 1) + i] = key[i]
    <3>1. Nul \in Chars
      BY DEF Chars
    <3>2. t = ns \o <<Nul>> \o key
      BY DEF NsKey
    <3> HIDE DEF t
    <3> QED BY <3>1, <3>2, Between
  <2> HIDE DEF t, n, m
  <2>4. ASSUME NEW i \in 1..Len(t), i # n + 1 PROVE t[i] # Nul
    <3>1. CASE i \in 1..n
      BY <2>1, <2>3, <3>1
    <3>2. CASE i > n + 1
      <4>1. i - (n + 1) \in 1..m /\ (n + 1) + (i - (n + 1)) = i
        BY <2>0, <2>3, <3>2
      <4>2. t[(n + 1) + (i - (n + 1))] = key[i - (n + 1)]
        BY <2>3, <4>1
      <4> QED BY <2>2, <4>1, <4>2
    <3> QED BY <2>0, <2>3, <2>4, <3>1, <3>2
  <2>5. n + 1 \in 1..Len(t)
    BY <2>0, <2>3
  <2>6. {i \in 1..Len(t) : t[i] = Nul} = {n + 1}
    BY <2>3, <2>4, <2>5
  <2> QED BY <2>6 DEF t, n
<1> QED BY <1>1, <1>2, Zenon DEF KeyAllowed

LEMMA NsKeyIs ==
  ASSUME NEW ns \in Seq(Chars), NEW key \in Seq(Chars), NEW u, u = NsKey(ns, key)
  PROVE  /\ \A i \in 1..Len(ns) : u[i] = ns[i]
         /\ \A i \in 1..Len(key) : u[(Len(ns) + 1) + i] = key[i]
         /\ Len(u) = (Len(ns) + 1) + Len(key)
<1>1. Nul \in Chars /\ u = ns \o <<Nul>> \o key
  BY DEF Chars, NsKey
<1> QED BY <1>1, Between

(* Two entries with valid names never share a place in the map of the      *)
(* store, whatever they are called (nsKey).                                *)
THEOREM EntriesStayApart ==
  ASSUME NEW ns1 \in Seq(Chars), NEW key1 \in Seq(Chars), NEW ns2 \in Seq(Chars), NEW key2 \in Seq(Chars),
         ValidNSID(ns1), ValidKey(key1), ValidNSID(ns2), ValidKey(key2),
         NsKey(ns1, key1) = NsKey(ns2, key2)
  PROVE  ns1 = ns2 /\ key1 = key2
<1> DEFINE t == NsKey(ns1, key1)
<1>1. {i \in 1..Len(t) : t[i] = Nul} = {Len(ns1) + 1} /\ {i \in 1..Len(t) : t[i] = Nul} = {Len(ns2) + 1}
  BY KeysAreThoseDescribed DEF KeyAllowed
<1>2. Len(ns1) = Len(ns2) /\ Len(ns1) \in Nat
  <2>1. Len(ns1) \in Nat /\ Len(ns2) \in Nat
    OBVIOUS
  <2>2. Len(ns1) + 1 = Len(ns2) + 1
    BY <1>1
  <2> QED BY <2>1, <2>2
<1>3. t = NsKey(ns1, key1) /\ t = NsKey(ns2, key2)
  OBVIOUS
<1> HIDE DEF t
<1>4. /\ \A i \in 1..Len(ns1) : t[i] = ns1[i]
      /\ \A i \in 1..Len(key1) : t[(Len(ns1) + 1) + i] = key1[i]
      /\ Len(t) = (Len(ns1) + 1) + Len(key1)
  BY <1>3, NsKeyIs
<1>5. /\ \A i \in 1..Len(ns2) : t[i] = ns2[i]
      /\ \A i \in 1..Len(key2) : t[(Len(ns2) + 1) + i] = key2[i]
      /\ Len(t) = (Len(ns2) + 1) + Len(key2)
  BY <1>3, NsKeyIs
<1>6. ns1 = ns2
  <2>1. \A i \in 1..Len(ns1) : ns1[i] = ns2[i]
    BY <1>2, <1>4, <1>5
  <2> QED BY <1>2, <2>1
<1>7. Len(key1) = Len(key2)
  <2>1. Len(key1) \in Nat /\ Len(key2) \in Nat
    OBVIOUS
  <2>2. (Len(ns1) + 1) + Len(key1) = (Len(ns1) + 1) + Len(key2)
    BY <1>2, <1>4, <1>5
  <2> QED BY <1>2, <2>1, <2>2
<1>8. \A i \in 1..Len(key1) : key1[i] = key2[i]
  BY <1>2, <1>4, <1>5, <1>7
<1> QED BY <1>6, <1>7, <1>8

(* What a behaviour compares are texts.                                    *)
NamesAreTexts == job.part = "names" => job.ns \in Seq(Chars) /\ job.key \in Seq(Chars)

LEMMA ShortSequences ==
  ASSUME NEW S, NEW n \in Nat, NEW s \in SeqsUpTo(S, n)
  PROVE  s \in Seq(S)
<1>1. PICK k \in 0..n : s \in [1..k -> S]
  BY DEF SeqsUpTo
<1>2. k \in Nat
  OBVIOUS
<1> QED BY <1>1, <1>2

LEMMA TextsAtFirst == AllInit => NamesAreTexts
<1> SUFFICES ASSUME AllInit, job.part = "names"
             PROVE  job.ns \in Seq(Chars) /\ job.key \in Seq(Chars)
  BY DEF NamesAreTexts
<1>1. job \in NameJobs
  <2>1. job # [part |-> "gray"] /\ job # [part |-> "ring"]
    OBVIOUS
  <2>2. job \notin DiffJobs /\ job \notin CodecJobs
    <3>1. \A j \in DiffJobs : j.part = "diff"
      BY DEF DiffJobs
    <3>2. \A j \in CodecJobs : j.part = "codec"
      BY DEF CodecJobs
    <3> QED BY <3>1, <3>2
  <2> QED BY <2>1, <2>2 DEF AllInit, About
<1>2. MaxKeyLen + 1 \in Nat /\ MaxNSLen + 1 \in Nat
  BY NameLengths
<1> DEFINE Few == {"a", ".", "_", Slash, "?"}
<1>3. Few \subseteq Chars /\ "a" \in Chars
  BY DEF Chars, Letters, Slash
<1>4. CASE job \in [part : {"names"}, ns : {<<"a">>}, key : SeqsUpTo(Few, MaxKeyLen + 1)]
  <2>1. job.ns = <<"a">> /\ job.key \in SeqsUpTo(Few, MaxKeyLen + 1)
    BY <1>4
  <2> HIDE DEF Few
  <2>2. job.key \in Seq(Few)
    BY <1>2, <2>1, ShortSequences
  <2> QED BY <1>3, <2>1, <2>2
<1>5. CASE job \in [part : {"names"}, ns : SeqsUpTo(Chars, MaxNSLen + 1), key : SeqsUpTo(Chars, 2)]
  <2>1. job.ns \in SeqsUpTo(Chars, MaxNSLen + 1) /\ job.key \in SeqsUpTo(Chars, 2)
    BY <1>5
  <2> QED BY <1>2, <2>1, ShortSequences
<1> QED BY <1>1, <1>4, <1>5 DEF NameJobs

(* A key is accepted if and only if it is one of those the comment on      *)
(* ValidKey describes, and two entries never share a place in the map of   *)
(* the store, whatever the limits of the two lengths are.                  *)
THEOREM NamesUnderstood == AllSpec => []KeyGrammar
<1>1. ASSUME NamesAreTexts, [AllNext]_allVars PROVE NamesAreTexts'
  BY <1>1 DEF NamesAreTexts, AllNext, allVars
<1>2. NamesAreTexts => KeyGrammar
  BY KeysAreThoseDescribed DEF NamesAreTexts, KeyGrammar
<1> QED BY <1>1, <1>2, TextsAtFirst, PTL DEF AllSpec

-----------------------------------------------------------------------------
(* The payloads that a behaviour compares are sequences of characters.     *)
PayloadsAreTexts == job.part = "diff" => \E S : job.old \in Seq(S) /\ job.new \in Seq(S)

LEMMA PayloadIsSequence ==
  ASSUME NEW b \in BOOLEAN, NEW p \in Payloads(b)
  PROVE  p \in Seq({"x", "y", NL, CR, Byte0})
<1> DEFINE C == {"x", "y", NL, CR, Byte0}
<1>1. ASSUME b = FALSE PROVE p \in Seq(C)
  <2>1. p \in SeqsUpTo({"x", NL, CR, Byte0}, 3)
    BY <1>1 DEF Payloads
  <2>2. p \in Seq({"x", NL, CR, Byte0})
    BY <2>1, ShortSequences
  <2> QED BY <2>2, SeqMonotonic
<1>2. ASSUME b = TRUE PROVE p \in Seq(C)
  <2>1. PICK t \in SeqsUpTo({"x", "y"}, 4) :
          p = [i \in 1..(2 * Len(t)) |-> IF i % 2 = 0 THEN NL ELSE t[(i + 1) \div 2]]
    BY <1>2 DEF Payloads
  <2>2. t \in Seq({"x", "y"})
    BY ShortSequences
  <2> DEFINE n == 2 * Len(t)
  <2>3. n \in Nat
    BY <2>2
  <2>4. ASSUME NEW i \in 1..n PROVE (IF i % 2 = 0 THEN NL ELSE t[(i + 1) \div 2]) \in C
    <3>1. CASE i % 2 = 0
      BY <3>1
    <3>2. CASE i % 2 # 0
      <4>1. (i + 1) \div 2 \in 1..Len(t)
        BY <2>2, <3>2
      <4> QED BY <2>2, <3>2, <4>1
    <3> QED BY <3>1, <3>2
  <2>5. p \in [1..n -> C]
    BY <2>1, <2>4
  <2> QED BY <2>3, <2>5, FunctionIsSeq
<1> QED BY <1>1, <1>2

LEMMA PayloadsAtFirst == AllInit => PayloadsAreTexts
<1> SUFFICES ASSUME AllInit, job.part = "diff"
             PROVE  \E S : job.old \in Seq(S) /\ job.new \in Seq(S)
  BY DEF PayloadsAreTexts
<1>1. job \in DiffJobs
  <2>1. job # [part |-> "gray"] /\ job # [part |-> "ring"]
    OBVIOUS
  <2>2. job \notin NameJobs /\ job \notin CodecJobs
    <3>1. \A j \in NameJobs : j.part = "names"
      BY DEF NameJobs
    <3>2. \A j \in CodecJobs : j.part = "codec"
      BY DEF CodecJobs
    <3> QED BY <3>1, <3>2
  <2> QED BY <2>1, <2>2 DEF AllInit, About
<1>2. PICK b \in BOOLEAN : job.old \in Payloads(b) /\ job.new \in Payloads(b)
  BY <1>1 DEF DiffJobs
<1> QED BY <1>2, PayloadIsSequence

(* Of any two payloads, the changes that Diff lists tell the one and the   *)
(* other, line by line, and as many lines are equal as can be; Unified     *)
(* shows nothing only of payloads that have the same lines.                *)
THEOREM DiffsExplain == AllSpec => []DiffExplains
<1>1. ASSUME PayloadsAreTexts, [AllNext]_allVars PROVE PayloadsAreTexts'
  BY <1>1 DEF PayloadsAreTexts, AllNext, allVars
<1>2. PayloadsAreTexts => DiffExplains
  BY AnyDiffExplains DEF PayloadsAreTexts, DiffExplains
<1> QED BY <1>1, <1>2, PayloadsAtFirst, PTL DEF AllSpec

(***************************************************************************)
(* The snapshot codec.  A body b of which n pieces can be read may be the  *)
(* whole of what was written, or the first n pieces of it: what the reader *)
(* makes of the pieces of a value at place i is the value if they all lie  *)
(* within the n, and nothing if not.  That is shown of a sequence of       *)
(* records, of a field, of a record, and then of the kinds of records, a   *)
(* level of nesting at a time.                                             *)
(***************************************************************************)
(* What Flat, TakeMany and TakeRecord have when they have come to m.       *)
Flats(g, n, ss) == g[0] = <<>> /\ \A m \in 0..n - 1 : g[m + 1] = g[m] \o ss[m + 1]

FlatTable(g, n, ss) == g = [m \in 0..n |-> IF m = 0 THEN <<>> ELSE g[m - 1] \o ss[m]]

LEMMA FlatIs ==
  ASSUME NEW P, NEW n \in Nat, NEW ss \in [1..n -> Seq(P)]
  PROVE  \E g : Flats(g, n, ss) /\ Flat(n, ss) = g[n] /\ \A m \in 0..n : g[m] \in Seq(P)
<1> DEFINE R == Seq(P)
           F == [x \in (1..n) \X R |-> x[2] \o ss[x[1]]]
<1>1. F \in [(1..n) \X R -> R] /\ <<>> \in R
  <2>1. ASSUME NEW x \in (1..n) \X R PROVE x[2] \o ss[x[1]] \in R
    <3>1. x[2] \in Seq(P) /\ ss[x[1]] \in Seq(P)
      OBVIOUS
    <3> QED BY <3>1, ConcatProperties
  <2> HIDE DEF R
  <2>2. F \in [(1..n) \X R -> R]
    BY <2>1
  <2>3. <<>> \in R
    BY DEF R
  <2> QED BY <2>2, <2>3
<1>2. \E g : FlatTable(g, n, ss)
  <2>1. PICK g \in [0..n -> R] : Unfolds(g, n, <<>>, F)
    <3> HIDE DEF R, F
    <3> QED BY <1>1, UnfoldExists
  <2>2. ASSUME NEW m \in 0..n PROVE g[m] = IF m = 0 THEN <<>> ELSE g[m - 1] \o ss[m]
    <3>1. g[m] = IF m = 0 THEN <<>> ELSE F[<<m, g[m - 1]>>]
      <4> HIDE DEF F
      <4> QED BY <2>1 DEF Unfolds
    <3>2. m # 0 => m \in 1..n /\ m - 1 \in 0..n
      OBVIOUS
    <3>3. m # 0 => <<m, g[m - 1]>> \in (1..n) \X R
      <4> HIDE DEF R
      <4> QED BY <3>2
    <3>4. m # 0 => F[<<m, g[m - 1]>>] = g[m - 1] \o ss[m]
      <4> HIDE DEF R
      <4> QED BY <3>3
    <3> HIDE DEF F
    <3> QED BY <3>1, <3>4
  <2>3. g = [m \in 0..n |-> g[m]]
    OBVIOUS
  <2>4. FlatTable(g, n, ss)
    BY <2>2, <2>3 DEF FlatTable
  <2> QED BY <2>4
<1> DEFINE g == CHOOSE h : FlatTable(h, n, ss)
<1>3. FlatTable(g, n, ss)
  BY <1>2
<1>4. Flat(n, ss) = g[n]
  BY DEF Flat, FlatTable
<1> HIDE DEF g
<1>5. \A m \in 0..n : g[m] = IF m = 0 THEN <<>> ELSE g[m - 1] \o ss[m]
  BY <1>3 DEF FlatTable
<1>6. ASSUME NEW m \in 0..n - 1 PROVE g[m + 1] = g[m] \o ss[m + 1]
  <2>1. m + 1 \in 0..n /\ m + 1 # 0 /\ (m + 1) - 1 = m
    OBVIOUS
  <2> QED BY <1>5, <2>1
<1>7. g[0] = <<>>
  BY <1>5
<1> DEFINE G == {m \in Nat : m <= n => g[m] \in Seq(P)}
<1>8. 0 \in G
  <2>1. <<>> \in Seq(P)
    OBVIOUS
  <2> QED BY <1>7, <2>1
<1>9. ASSUME NEW m \in Nat, m \in G PROVE m + 1 \in G
  <2> SUFFICES ASSUME m + 1 <= n PROVE g[m + 1] \in Seq(P)
    OBVIOUS
  <2>1. m \in 0..n - 1 /\ m + 1 \in 1..n /\ g[m] \in Seq(P)
    BY <1>9
  <2>2. ss[m + 1] \in Seq(P)
    BY <2>1
  <2>3. g[m] \o ss[m + 1] \in Seq(P)
    BY <2>1, <2>2, ConcatProperties
  <2> QED BY <1>6, <2>1, <2>3
<1>10. \A m \in Nat : m \in G
  <2> HIDE DEF G
  <2> QED BY <1>8, <1>9, NumberInduction
<1>11. \A m \in 0..n : g[m] \in Seq(P)
  BY <1>10
<1>12. Flats(g, n, ss)
  BY <1>6, <1>7 DEF Flats
<1> QED BY <1>4, <1>11, <1>12

ManyStep(record, before) ==
  IF before.ok /\ record[before.i].ok
  THEN Got(Append(before.val, record[before.i].val), record[before.i].i) ELSE Failed

Manies(g, record, n, i) ==
  g[0] = Got(<<>>, i) /\ \A m \in 0..n - 1 : g[m + 1] = ManyStep(record, g[m])

ManyTable(g, record, n, i) ==
  g = [m \in 0..n |-> IF m = 0 THEN Got(<<>>, i) ELSE ManyStep(record, g[m - 1])]

LEMMA TakeManyIs ==
  ASSUME NEW record, NEW n \in Nat, NEW i
  PROVE  \E g : Manies(g, record, n, i) /\ TakeMany(record, n, i) = g[n]
<1> DEFINE G == {m \in Nat : \E g : ManyTable(g, record, m, i)}
<1>1. 0 \in G
  <2> DEFINE g == [m \in 0..0 |-> Got(<<>>, i)]
  <2>1. ManyTable(g, record, 0, i)
    BY DEF ManyTable
  <2> HIDE DEF g
  <2> QED BY <2>1
<1>2. ASSUME NEW m \in Nat, m \in G PROVE m + 1 \in G
  <2>1. PICK g : ManyTable(g, record, m, i)
    BY <1>2
  <2> DEFINE h == [k \in 0..m + 1 |-> IF k = m + 1 THEN ManyStep(record, g[m]) ELSE g[k]]
  <2>2. ASSUME NEW k \in 0..m + 1
        PROVE  h[k] = IF k = 0 THEN Got(<<>>, i) ELSE ManyStep(record, h[k - 1])
    <3>1. CASE k = m + 1
      <4>1. m \in 0..m + 1 /\ m # m + 1 /\ k # 0 /\ k - 1 = m
        BY <3>1
      <4> QED BY <3>1, <4>1
    <3>2. CASE k # m + 1
      <4>1. k \in 0..m
        BY <3>2
      <4>2. g[k] = IF k = 0 THEN Got(<<>>, i) ELSE ManyStep(record, g[k - 1])
        BY <2>1, <4>1 DEF ManyTable
      <4>3. k # 0 => k - 1 \in 0..m + 1 /\ k - 1 # m + 1
        BY <4>1
      <4> QED BY <3>2, <4>2, <4>3
    <3> QED BY <3>1, <3>2
  <2>3. h = [k \in 0..m + 1 |-> h[k]]
    OBVIOUS
  <2> HIDE DEF h
  <2>4. ManyTable(h, record, m + 1, i)
    BY <2>2, <2>3 DEF ManyTable
  <2> QED BY <2>4
<1>3. n \in G
  <2> HIDE DEF G
  <2> QED BY <1>1, <1>2, NumberInduction
<1> DEFINE g == CHOOSE h : ManyTable(h, record, n, i)
<1>4. ManyTable(g, record, n, i)
  BY <1>3
<1>5. TakeMany(record, n, i) = g[n]
  BY DEF TakeMany, ManyTable, ManyStep
<1> HIDE DEF g
<1>6. \A m \in 0..n : g[m] = IF m = 0 THEN Got(<<>>, i) ELSE ManyStep(record, g[m - 1])
  BY <1>4 DEF ManyTable
<1>7. ASSUME NEW m \in 0..n - 1 PROVE g[m + 1] = ManyStep(record, g[m])
  <2>1. m + 1 \in 0..n /\ m + 1 # 0 /\ (m + 1) - 1 = m
    OBVIOUS
  <2> QED BY <1>6, <2>1
<1>8. g[0] = Got(<<>>, i)
  BY <1>6
<1>9. Manies(g, record, n, i)
  BY <1>7, <1>8 DEF Manies
<1> QED BY <1>5, <1>9

EmptyOf(fields) == [name \in {fields[n].name : n \in 1..Len(fields)} |-> Nil]

FieldStep(f, records, b, before) ==
  IF before.ok /\ TakeField(f, records, b, before.i).ok
  THEN Got([before.val EXCEPT ![f.name] = TakeField(f, records, b, before.i).val],
           TakeField(f, records, b, before.i).i)
  ELSE Failed

Fieldses(g, fields, records, b, i) ==
  /\ g[0] = Got(EmptyOf(fields), i)
  /\ \A m \in 0..Len(fields) - 1 : g[m + 1] = FieldStep(fields[m + 1], records, b, g[m])

FieldTable(g, n, fields, records, b, i) ==
  g = [m \in 0..n |-> IF m = 0 THEN Got(EmptyOf(fields), i) ELSE FieldStep(fields[m], records, b, g[m - 1])]

LEMMA TakeRecordIs ==
  ASSUME NEW fields, Len(fields) \in Nat, NEW records, NEW b, NEW i
  PROVE  \E g : Fieldses(g, fields, records, b, i) /\ TakeRecord(fields, records, b, i) = g[Len(fields)]
<1> DEFINE n == Len(fields)
           G == {m \in Nat : \E g : FieldTable(g, m, fields, records, b, i)}
<1>1. 0 \in G
  <2> DEFINE g == [m \in 0..0 |-> Got(EmptyOf(fields), i)]
  <2>1. FieldTable(g, 0, fields, records, b, i)
    BY DEF FieldTable
  <2> HIDE DEF g
  <2> QED BY <2>1
<1>2. ASSUME NEW m \in Nat, m \in G PROVE m + 1 \in G
  <2>1. PICK g : FieldTable(g, m, fields, records, b, i)
    BY <1>2
  <2> DEFINE h == [k \in 0..m + 1 |-> IF k = m + 1 THEN FieldStep(fields[m + 1], records, b, g[m]) ELSE g[k]]
  <2>2. ASSUME NEW k \in 0..m + 1
        PROVE  h[k] = IF k = 0 THEN Got(EmptyOf(fields), i) ELSE FieldStep(fields[k], records, b, h[k - 1])
    <3>1. CASE k = m + 1
      <4>1. m \in 0..m + 1 /\ m # m + 1 /\ k # 0 /\ k - 1 = m
        BY <3>1
      <4> QED BY <3>1, <4>1
    <3>2. CASE k # m + 1
      <4>1. k \in 0..m
        BY <3>2
      <4>2. g[k] = IF k = 0 THEN Got(EmptyOf(fields), i) ELSE FieldStep(fields[k], records, b, g[k - 1])
        BY <2>1, <4>1 DEF FieldTable
      <4>3. k # 0 => k - 1 \in 0..m + 1 /\ k - 1 # m + 1
        BY <4>1
      <4> QED BY <3>2, <4>2, <4>3
    <3> QED BY <3>1, <3>2
  <2>3. h = [k \in 0..m + 1 |-> h[k]]
    OBVIOUS
  <2> HIDE DEF h
  <2>4. FieldTable(h, m + 1, fields, records, b, i)
    BY <2>2, <2>3 DEF FieldTable
  <2> QED BY <2>4
<1>3. n \in G
  <2> HIDE DEF G
  <2> QED BY <1>1, <1>2, NumberInduction
<1> DEFINE g == CHOOSE h : FieldTable(h, n, fields, records, b, i)
<1>4. FieldTable(g, n, fields, records, b, i)
  BY <1>3
<1>5. TakeRecord(fields, records, b, i) = g[n]
  BY DEF TakeRecord, FieldTable, FieldStep, EmptyOf
<1> HIDE DEF g
<1>6. \A m \in 0..n : g[m] = IF m = 0 THEN Got(EmptyOf(fields), i) ELSE FieldStep(fields[m], records, b, g[m - 1])
  BY <1>4 DEF FieldTable
<1>7. ASSUME NEW m \in 0..n - 1 PROVE g[m + 1] = FieldStep(fields[m + 1], records, b, g[m])
  <2>1. m + 1 \in 0..n /\ m + 1 # 0 /\ (m + 1) - 1 = m
    OBVIOUS
  <2> QED BY <1>6, <2>1
<1>8. g[0] = Got(EmptyOf(fields), i)
  BY <1>6
<1>9. Fieldses(g, fields, records, b, i)
  BY <1>7, <1>8 DEF Fieldses
<1> QED BY <1>5, <1>9

(* n pieces of b can be read.                                              *)
Readable(b, n) ==
  /\ Len(b) \in Nat /\ n \in 0..Len(b)
  /\ \A k \in 1..n : b[k] # Half
  /\ n = Len(b) \/ b[n + 1] = Half

(* From place i on, b has the pieces ps, as far as it can be read.         *)
Lies(ps, b, i, n) == \A k \in 1..Len(ps) : i + k <= n => b[i + k] = ps[k]

(* What is read of pieces that stand for v: v, or nothing.                 *)
Result(v, ps, i, n) == IF i + Len(ps) <= n THEN Got(v, i + Len(ps)) ELSE Failed

RecordReads(record, v, ps, b, n) ==
  \A i \in 0..n : Lies(ps, b, i, n) => record[i] = Result(v, ps, i, n)

LEMMA LiesBoth ==
  ASSUME NEW P, NEW ps \in Seq(P), NEW qs \in Seq(P), NEW b, NEW i \in Nat, NEW n \in Nat,
         Lies(ps \o qs, b, i, n)
  PROVE  Lies(ps, b, i, n) /\ Lies(qs, b, i + Len(ps), n)
<1> DEFINE u == ps \o qs
<1>1. /\ Len(u) = Len(ps) + Len(qs) /\ Len(ps) \in Nat /\ Len(qs) \in Nat
      /\ \A k \in 1..Len(ps) + Len(qs) : u[k] = IF k <= Len(ps) THEN ps[k] ELSE qs[k - Len(ps)]
  BY ConcatProperties
<1>2. \A k \in 1..Len(u) : i + k <= n => b[i + k] = u[k]
  BY DEF Lies
<1> HIDE DEF u
<1>3. ASSUME NEW k \in 1..Len(ps), i + k <= n PROVE b[i + k] = ps[k]
  <2>1. k \in 1..Len(ps) + Len(qs) /\ k <= Len(ps)
    BY <1>1
  <2> QED BY <1>1, <1>2, <1>3, <2>1
<1>4. ASSUME NEW k \in 1..Len(qs), (i + Len(ps)) + k <= n PROVE b[(i + Len(ps)) + k] = qs[k]
  <2> DEFINE l == Len(ps) + k
  <2>1. l \in 1..Len(ps) + Len(qs) /\ ~(l <= Len(ps)) /\ l - Len(ps) = k /\ (i + Len(ps)) + k = i + l
    BY <1>1
  <2> HIDE DEF l
  <2>2. u[l] = qs[k] /\ l \in 1..Len(u)
    BY <1>1, <2>1
  <2> QED BY <1>2, <1>4, <2>1, <2>2
<1> QED BY <1>3, <1>4 DEF Lies

LEMMA NextReads ==
  ASSUME NEW b, NEW n, Readable(b, n), NEW i \in 0..n
  PROVE  NextPiece(b, i) = IF i + 1 <= n THEN Got(b[i + 1][2], i + 1) ELSE Failed
<1>1. Len(b) \in Nat /\ n \in 0..Len(b)
  BY DEF Readable
<1>2. CASE i + 1 <= n
  <2>1. i + 1 \in 1..n /\ ~(i >= Len(b))
    BY <1>1, <1>2
  <2>2. b[i + 1] # Half
    BY <2>1 DEF Readable
  <2> QED BY <1>2, <2>1, <2>2 DEF NextPiece
<1>3. CASE ~(i + 1 <= n)
  <2>1. i = n
    BY <1>1, <1>3
  <2>2. n = Len(b) \/ b[n + 1] = Half
    BY DEF Readable
  <2>3. i >= Len(b) \/ b[i + 1] = Half
    BY <1>1, <2>1, <2>2
  <2> QED BY <1>3, <2>3 DEF NextPiece
<1> QED BY <1>2, <1>3

(* The first m of the values, as a sequence.                               *)
Firsts(vals, m) == [k \in 1..m |-> vals[k]]

LEMMA FirstsMore ==
  ASSUME NEW vals, NEW m \in Nat
  PROVE  Append(Firsts(vals, m), vals[m + 1]) = Firsts(vals, m + 1)
<1> DEFINE R == {vals[k] : k \in 1..m + 1}
           s == Firsts(vals, m)
           e == vals[m + 1]
           t == Firsts(vals, m + 1)
           u == Append(s, e)
<1>1. s \in [1..m -> R] /\ t \in [1..m + 1 -> R] /\ e \in R
  <2>1. \A k \in 1..m : k \in 1..m + 1
    OBVIOUS
  <2>2. m + 1 \in 1..m + 1
    OBVIOUS
  <2> QED BY <2>1, <2>2 DEF Firsts
<1>2. /\ \A k \in 1..m : s[k] = vals[k]
      /\ \A k \in 1..m + 1 : t[k] = vals[k]
  BY DEF Firsts
<1> HIDE DEF R, s, t
<1>3. s \in Seq(R) /\ Len(s) = m /\ t \in Seq(R) /\ Len(t) = m + 1
  <2>1. m + 1 \in Nat
    OBVIOUS
  <2> QED BY <1>1, <2>1, FunctionIsSeq
<1>4. u \in Seq(R) /\ Len(u) = m + 1 /\ u[m + 1] = e /\ \A k \in 1..m : u[k] = s[k]
  <2> HIDE DEF e
  <2> QED BY <1>1, <1>3, AppendProperties
<1> HIDE DEF u
<1>5. ASSUME NEW k \in 1..Len(u) PROVE u[k] = t[k]
  <2>1. k = m + 1 \/ k \in 1..m
    BY <1>4
  <2>2. k \in 1..m + 1
    BY <1>4
  <2> QED BY <1>2, <1>4, <2>1, <2>2
<1>6. u = t
  BY <1>3, <1>4, <1>5, SeqEqual
<1> QED BY <1>6 DEF u, s, t

(* The sequences ss stand for the first c of the values.                   *)
Stand(ss, c, vals, record, P, b, n) ==
  /\ ss \in [1..c -> Seq(P)]
  /\ \A m \in 1..c : RecordReads(record, vals[m], ss[m], b, n)

LEMMA ManyReads ==
  ASSUME NEW P, NEW c \in Nat, NEW vals, NEW ss, NEW record, NEW b, NEW n \in Nat,
         Stand(ss, c, vals, record, P, b, n), NEW i \in 0..n, Lies(Flat(c, ss), b, i, n)
  PROVE  TakeMany(record, c, i) = Result(Firsts(vals, c), Flat(c, ss), i, n)
<1>0. ss \in [1..c -> Seq(P)] /\ \A m \in 1..c : RecordReads(record, vals[m], ss[m], b, n)
  BY DEF Stand
<1>1. PICK J : Flats(J, c, ss) /\ Flat(c, ss) = J[c] /\ \A m \in 0..c : J[m] \in Seq(P)
  BY <1>0, FlatIs
<1>2. PICK g : Manies(g, record, c, i) /\ TakeMany(record, c, i) = g[c]
  BY TakeManyIs
<1> DEFINE At(m) == Lies(J[m], b, i, n) => g[m] = Result(Firsts(vals, m), J[m], i, n)
           G == {m \in Nat : m <= c => At(m)}
<1>3. 0 \in G
  <2>1. J[0] = <<>> /\ g[0] = Got(<<>>, i)
    BY <1>1, <1>2 DEF Flats, Manies
  <2>2. Firsts(vals, 0) = <<>>
    BY DEF Firsts
  <2>3. i + Len(<<>>) = i /\ i <= n
    OBVIOUS
  <2>4. At(0)
    BY <2>1, <2>2, <2>3 DEF Result
  <2> HIDE DEF At
  <2> QED BY <2>4
<1>4. ASSUME NEW m \in Nat, m \in G PROVE m + 1 \in G
  <2> SUFFICES ASSUME m + 1 <= c, Lies(J[m + 1], b, i, n)
               PROVE  g[m + 1] = Result(Firsts(vals, m + 1), J[m + 1], i, n)
    OBVIOUS
  <2>1. m \in 0..c - 1 /\ m \in 0..c /\ m + 1 \in 1..c /\ m <= c
    OBVIOUS
  <2> DEFINE x == J[m]
             y == ss[m + 1]
             at == i + Len(x)
             to == at + Len(y)
  <2>2. J[m + 1] = x \o y /\ x \in Seq(P) /\ y \in Seq(P)
    <3>1. J[m + 1] = x \o y
      BY <1>1, <2>1 DEF Flats
    <3>2. x \in Seq(P)
      BY <1>1, <2>1
    <3>3. y \in Seq(P)
      BY <1>0, <2>1
    <3> QED BY <3>1, <3>2, <3>3
  <2>3. g[m + 1] = ManyStep(record, g[m])
    BY <1>2, <2>1 DEF Manies
  <2>4. RecordReads(record, vals[m + 1], y, b, n)
    BY <1>0, <2>1
  <2>5. g[m] = Result(Firsts(vals, m), x, i, n) \/ ~Lies(x, b, i, n)
    BY <1>4, <2>1
  <2> HIDE DEF x, y
  <2>6. Lies(x, b, i, n) /\ Lies(y, b, at, n)
    BY <2>2, LiesBoth
  <2>7. Len(x) \in Nat /\ Len(y) \in Nat /\ Len(J[m + 1]) = Len(x) + Len(y)
    <3>1. Len(x \o y) = Len(x) + Len(y)
      BY <2>2, ConcatProperties
    <3> QED BY <2>2, <3>1
  <2>8. at \in Nat /\ to \in Nat /\ at <= to /\ i + Len(J[m + 1]) = to
    BY <2>7
  <2> HIDE DEF at, to
  <2>9. CASE at <= n
    <3>1. g[m] = Got(Firsts(vals, m), at)
      BY <2>5, <2>6, <2>9 DEF Result, at
    <3>2. record[at] = Result(vals[m + 1], y, at, n)
      <4>1. at \in 0..n
        BY <2>8, <2>9
      <4> QED BY <2>4, <2>6, <4>1 DEF RecordReads
    <3>3. g[m].ok /\ g[m].i = at /\ g[m].val = Firsts(vals, m)
      BY <3>1 DEF Got
    <3>4. CASE to <= n
      <4>1. record[at] = Got(vals[m + 1], to)
        BY <3>2, <3>4 DEF Result, to
      <4>2. g[m + 1] = Got(Append(Firsts(vals, m), vals[m + 1]), to)
        BY <2>3, <3>3, <4>1 DEF ManyStep, Got
      <4>3. g[m + 1] = Got(Firsts(vals, m + 1), to)
        BY <4>2, FirstsMore
      <4> QED BY <2>8, <3>4, <4>3 DEF Result
    <3>5. CASE ~(to <= n)
      <4>1. ~record[at].ok
        BY <3>2, <3>5 DEF Result, to, Failed
      <4>2. g[m + 1] = Failed
        BY <2>3, <3>3, <4>1 DEF ManyStep
      <4> QED BY <2>8, <3>5, <4>2 DEF Result
    <3> QED BY <3>4, <3>5
  <2>10. CASE ~(at <= n)
    <3>1. ~g[m].ok
      BY <2>5, <2>6, <2>10 DEF Result, at, Failed
    <3>2. g[m + 1] = Failed
      BY <2>3, <3>1 DEF ManyStep
    <3>3. ~(to <= n)
      BY <2>8, <2>10
    <3> QED BY <2>8, <3>2, <3>3 DEF Result
  <2> QED BY <2>9, <2>10
<1>5. c \in G
  <2> HIDE DEF G
  <2> QED BY <1>3, <1>4, NumberInduction
<1> QED BY <1>1, <1>2, <1>5

(* The pieces of a body whose numbers and strings are in V.                *)
ItemsOf(V) == {Item(v) : v \in V \cup Nat}

(* v may be in field f; the records in it are in T.                        *)
Fits(f, v, V, T) ==
  \/ f.how = "one" /\ v \in V
  \/ f.how = "flag" /\ v \in BOOLEAN
  \/ f.how = "many" /\ v \in Seq(T)
  \/ f.how = "maybe" /\ v \in {Nil} \cup T

LEMMA WithinIs ==
  ASSUME NEW V, NEW T, NEW f, NEW v, Fits(f, v, V, T)
  PROVE  /\ Within(f, v) \in Seq(T)
         /\ Lead(f, v) \in ItemsOf(V)
         /\ Count(f, Lead(f, v)[2]) = Len(Within(f, v))
         /\ Value(f, Lead(f, v)[2], Within(f, v)) = v
<1>1. CASE f.how = "one" /\ v \in V
  <2>1. Within(f, v) = <<>> /\ Lead(f, v) = Item(v)
    BY <1>1 DEF Within, Lead
  <2>2. Item(v) \in ItemsOf(V) /\ Item(v)[2] = v
    BY <1>1 DEF ItemsOf, Item
  <2>3. Count(f, v) = 0 /\ Value(f, v, <<>>) = v
    BY <1>1 DEF Count, Value
  <2> QED BY <2>1, <2>2, <2>3
<1>2. CASE f.how = "flag" /\ v \in BOOLEAN
  <2> DEFINE l == IF v THEN 1 ELSE 0
  <2>1. Within(f, v) = <<>> /\ Lead(f, v) = Item(l)
    BY <1>2 DEF Within, Lead
  <2>2. Item(l) \in ItemsOf(V) /\ Item(l)[2] = l
    <3>1. l \in V \cup Nat
      OBVIOUS
    <3> HIDE DEF l
    <3> QED BY <3>1 DEF ItemsOf, Item
  <2>3. (l = 1) = v
    BY <1>2
  <2> HIDE DEF l
  <2>4. Count(f, l) = 0 /\ Value(f, l, <<>>) = v
    BY <1>2, <2>3 DEF Count, Value
  <2> QED BY <2>1, <2>2, <2>4
<1>3. CASE f.how = "many" /\ v \in Seq(T)
  <2>1. Within(f, v) = v
    BY <1>3 DEF Within
  <2>2. Lead(f, v) = Item(Len(v))
    BY <1>3, <2>1 DEF Lead
  <2>3. Item(Len(v)) \in ItemsOf(V) /\ Item(Len(v))[2] = Len(v)
    <3>1. Len(v) \in V \cup Nat
      BY <1>3
    <3> QED BY <3>1 DEF ItemsOf, Item
  <2>4. Count(f, Len(v)) = Len(v) /\ Value(f, Len(v), v) = v
    BY <1>3 DEF Count, Value
  <2> QED BY <1>3, <2>1, <2>2, <2>3, <2>4
<1>4. CASE f.how = "maybe" /\ v \in {Nil} \cup T
  <2> DEFINE w == IF v = Nil THEN <<>> ELSE <<v>>
             l == Len(w)
  <2>1. Within(f, v) = w
    BY <1>4 DEF Within
  <2>2. Lead(f, v) = Item(l)
    BY <1>4, <2>1 DEF Lead
  <2>3. w \in Seq(T) /\ l = IF v = Nil THEN 0 ELSE 1
    BY <1>4
  <2>4. Item(l) \in ItemsOf(V) /\ Item(l)[2] = l
    <3>1. l \in V \cup Nat
      BY <2>3
    <3> HIDE DEF l
    <3> QED BY <3>1 DEF ItemsOf, Item
  <2>5. (IF w = <<>> THEN Nil ELSE w[1]) = v
    <3>1. CASE v = Nil
      BY <3>1
    <3>2. CASE v # Nil
      <4>1. w = <<v>>
        BY <3>2
      <4>2. <<v>> # <<>>
        OBVIOUS
      <4> HIDE DEF w
      <4> QED BY <4>1, <4>2
    <3> QED BY <3>1, <3>2
  <2>6. l = 0 \/ l = 1
    BY <2>3
  <2> HIDE DEF w, l
  <2>7. Count(f, l) = l /\ Value(f, l, w) = v
    BY <1>4, <2>5, <2>6 DEF Count, Value
  <2>8. l = Len(w)
    BY DEF l
  <2> QED BY <2>1, <2>2, <2>3, <2>4, <2>7, <2>8
<1> QED BY <1>1, <1>2, <1>3, <1>4 DEF Fits

LEMMA FirstsAll ==
  ASSUME NEW T, NEW s \in Seq(T)
  PROVE  Firsts(s, Len(s)) = s
BY DEF Firsts

(* The pieces q of a field: the first one, and those of the records in it. *)
RecordsIn(f, v, q, records, P, b, n) ==
  \E ss :
    /\ q = <<Lead(f, v)>> \o Flat(Len(Within(f, v)), ss)
    /\ Stand(ss, Len(Within(f, v)), Within(f, v), records[f.of], P, b, n)

FieldReads(f, v, q, records, b, n) ==
  \A i \in 0..n : Lies(q, b, i, n) => TakeField(f, records, b, i) = Result(v, q, i, n)

LEMMA FieldIsRead ==
  ASSUME NEW V, NEW T, NEW f, NEW v, Fits(f, v, V, T), NEW b, NEW n, Readable(b, n),
         NEW records, NEW q, RecordsIn(f, v, q, records, ItemsOf(V), b, n)
  PROVE  q \in Seq(ItemsOf(V)) /\ FieldReads(f, v, q, records, b, n)
<1> DEFINE P == ItemsOf(V)
           w == Within(f, v)
           c == Len(w)
           p == Lead(f, v)
<1>1. w \in Seq(T) /\ c \in Nat /\ p \in P /\ Count(f, p[2]) = c /\ Value(f, p[2], w) = v
  BY WithinIs
<1>2. PICK ss : q = <<p>> \o Flat(c, ss) /\ Stand(ss, c, w, records[f.of], P, b, n)
  BY DEF RecordsIn
<1>3. n \in Nat
  BY DEF Readable
<1> DEFINE z == Flat(c, ss)
<1>4. Firsts(w, c) = w
  BY <1>1, FirstsAll
<1>5. ss \in [1..c -> Seq(P)]
  BY <1>2 DEF Stand
<1> HIDE DEF w, p, c, P
<1>6. z \in Seq(P) /\ Len(z) \in Nat
  <2>1. PICK J : Flats(J, c, ss) /\ Flat(c, ss) = J[c] /\ \A m \in 0..c : J[m] \in Seq(P)
    BY <1>1, <1>5, FlatIs
  <2>2. c \in 0..c
    BY <1>1
  <2> QED BY <2>1, <2>2
<1>7. /\ <<p>> \in Seq(P) /\ q \in Seq(P)
      /\ Len(q) = 1 + Len(z) /\ Len(<<p>>) = 1 /\ q[1] = p
  <2>1. <<p>> \in Seq(P) /\ Len(<<p>>) = 1 /\ <<p>>[1] = p
    BY <1>1
  <2> DEFINE o == <<p>>
  <2>2. q = o \o z
    BY <1>2
  <2> HIDE DEF o, z
  <2>3. o \in Seq(P) /\ Len(o) = 1 /\ o[1] = p
    BY <2>1 DEF o
  <2>4. /\ q \in Seq(P) /\ Len(q) = 1 + Len(z)
        /\ \A k \in 1..Len(o) + Len(z) : q[k] = IF k <= Len(o) THEN o[k] ELSE z[k - Len(o)]
    <3>1. /\ o \o z \in Seq(P) /\ Len(o \o z) = Len(o) + Len(z)
          /\ \A k \in 1..Len(o) + Len(z) : (o \o z)[k] = IF k <= Len(o) THEN o[k] ELSE z[k - Len(o)]
      BY <1>6, <2>3, ConcatProperties
    <3> QED BY <2>2, <2>3, <3>1
  <2>5. 1 \in 1..Len(o) + Len(z) /\ 1 <= Len(o)
    BY <1>6, <2>3, <2>4
  <2>6. q[1] = p
    BY <2>3, <2>4, <2>5
  <2> QED BY <2>1, <2>4, <2>6
<1>8. ASSUME NEW i \in 0..n, Lies(q, b, i, n)
      PROVE  TakeField(f, records, b, i) = Result(v, q, i, n)
  <2> DEFINE lead == NextPiece(b, i)
             in == TakeMany(records[f.of], Count(f, lead.val), lead.i)
  <2>1. TakeField(f, records, b, i) =
          IF lead.ok /\ in.ok THEN Got(Value(f, lead.val, in.val), in.i) ELSE Failed
    BY DEF TakeField
  <2>2. lead = IF i + 1 <= n THEN Got(b[i + 1][2], i + 1) ELSE Failed
    BY NextReads
  <2>3. CASE ~(i + 1 <= n)
    <3>1. ~lead.ok
      BY <2>2, <2>3 DEF Failed
    <3>2. TakeField(f, records, b, i) = Failed
      <4> HIDE DEF lead, in
      <4> QED BY <2>1, <3>1
    <3>3. ~(i + Len(q) <= n)
      <4> HIDE DEF z
      <4> QED BY <1>3, <1>6, <1>7, <2>3
    <3> QED BY <3>2, <3>3 DEF Result
  <2>4. CASE i + 1 <= n
    <3>1. b[i + 1] = p
      <4>1. 1 \in 1..Len(q)
        <5> HIDE DEF z
        <5> QED BY <1>6, <1>7
      <4> QED BY <1>7, <1>8, <2>4, <4>1 DEF Lies
    <3>2. lead = Got(p[2], i + 1)
      BY <2>2, <2>4, <3>1
    <3>3. lead.ok /\ lead.val = p[2] /\ lead.i = i + 1
      BY <3>2 DEF Got
    <3>4. in = TakeMany(records[f.of], c, i + 1)
      BY <1>1, <3>3
    <3>5. Lies(z, b, i + 1, n)
      <4>1. Lies(<<p>> \o z, b, i, n)
        BY <1>2, <1>8
      <4>2. i \in Nat
        OBVIOUS
      <4>3. Lies(z, b, i + Len(<<p>>), n)
        <5> DEFINE o == <<p>>
        <5>1. Lies(o \o z, b, i, n) /\ o \in Seq(P)
          BY <1>7, <4>1
        <5>2. Lies(z, b, i + Len(o), n)
          <6> HIDE DEF o, z
          <6> QED BY <1>3, <1>6, <4>2, <5>1, LiesBoth
        <5> QED BY <5>2
      <4> QED BY <1>7, <4>3
    <3>6. TakeMany(records[f.of], c, i + 1) = Result(Firsts(w, c), z, i + 1, n)
      <4>1. i + 1 \in 0..n
        BY <1>3, <2>4
      <4>2. Stand(ss, c, w, records[f.of], P, b, n)
        BY <1>2
      <4> QED BY <1>1, <1>3, <3>5, <4>1, <4>2, ManyReads
    <3>7. in = Result(w, z, i + 1, n)
      <4> HIDE DEF in, z
      <4> QED BY <1>4, <3>4, <3>6
    <3>8. (i + 1) + Len(z) = i + Len(q)
      <4> HIDE DEF z
      <4> QED BY <1>6, <1>7
    <3> HIDE DEF in, lead, z
    <3>9. CASE (i + 1) + Len(z) <= n
      <4>1. in = Got(w, i + Len(q))
        BY <3>7, <3>8, <3>9 DEF Result
      <4>2. in.ok /\ in.val = w /\ in.i = i + Len(q)
        BY <4>1 DEF Got
      <4>3. TakeField(f, records, b, i) = Got(v, i + Len(q))
        BY <1>1, <2>1, <3>3, <4>2
      <4> QED BY <3>8, <3>9, <4>3 DEF Result
    <3>10. CASE ~((i + 1) + Len(z) <= n)
      <4>1. ~in.ok
        BY <3>7, <3>10 DEF Result, Failed
      <4>2. TakeField(f, records, b, i) = Failed
        BY <2>1, <4>1
      <4> QED BY <3>8, <3>10, <4>2 DEF Result
    <3> QED BY <3>9, <3>10
  <2> QED BY <2>3, <2>4
<1>9. FieldReads(f, v, q, records, b, n)
  BY <1>8 DEF FieldReads
<1> QED BY <1>7, <1>9 DEF P

NamesOf(fields) == {fields[m].name : m \in 1..Len(fields)}

(* Record r with a value in its first m fields only.                       *)
Partial(r, fields, m) ==
  [x \in NamesOf(fields) |-> IF \E k \in 1..m : fields[k].name = x THEN r[x] ELSE Nil]

LEMMA PartialMore ==
  ASSUME NEW r, NEW fields, NEW m \in Nat, Len(fields) \in Nat, m + 1 <= Len(fields),
         NEW name, name = fields[m + 1].name
  PROVE  [Partial(r, fields, m) EXCEPT ![name] = r[name]] = Partial(r, fields, m + 1)
<1> DEFINE p == Partial(r, fields, m)
           q == Partial(r, fields, m + 1)
           N == NamesOf(fields)
<1>1. name \in N
  <2>1. m + 1 \in 1..Len(fields)
    OBVIOUS
  <2> QED BY <2>1 DEF NamesOf
<1>2. p = [x \in N |-> p[x]] /\ q = [x \in N |-> q[x]]
  BY DEF Partial
<1>3. ASSUME NEW x \in N PROVE q[x] = IF x = name THEN r[name] ELSE p[x]
  <2>1. q[x] = IF \E k \in 1..m + 1 : fields[k].name = x THEN r[x] ELSE Nil
    BY DEF Partial
  <2>2. p[x] = IF \E k \in 1..m : fields[k].name = x THEN r[x] ELSE Nil
    BY DEF Partial
  <2>3. (\E k \in 1..m + 1 : fields[k].name = x) <=> (x = name \/ \E k \in 1..m : fields[k].name = x)
    <3>1. \A k : k \in 1..m + 1 <=> (k = m + 1 \/ k \in 1..m)
      OBVIOUS
    <3> QED BY <3>1
  <2> HIDE DEF p, q
  <2> QED BY <2>1, <2>2, <2>3
<1> HIDE DEF p, q, N
<1>4. [p EXCEPT ![name] = r[name]] = [x \in N |-> IF x = name THEN r[name] ELSE p[x]]
  BY <1>1, <1>2
<1>5. q = [x \in N |-> IF x = name THEN r[name] ELSE p[x]]
  BY <1>2, <1>3
<1> QED BY <1>4, <1>5 DEF p, q

FieldsRead(qs, fields, r, records, P, b, n) ==
  /\ qs \in [1..Len(fields) -> Seq(P)]
  /\ \A m \in 1..Len(fields) : FieldReads(fields[m], r[fields[m].name], qs[m], records, b, n)

LEMMA RecordIsRead ==
  ASSUME NEW P, NEW fields, Len(fields) \in Nat, NEW r, r = [x \in NamesOf(fields) |-> r[x]],
         NEW records, NEW b, NEW n \in Nat, NEW qs, FieldsRead(qs, fields, r, records, P, b, n),
         NEW i \in 0..n, Lies(Flat(Len(fields), qs), b, i, n)
  PROVE  TakeRecord(fields, records, b, i) = Result(r, Flat(Len(fields), qs), i, n)
<1> DEFINE c == Len(fields)
           part(m) == Partial(r, fields, m)
<1>0. c \in Nat /\ qs \in [1..c -> Seq(P)]
  BY DEF FieldsRead
<1>1. PICK J : Flats(J, c, qs) /\ Flat(c, qs) = J[c] /\ \A m \in 0..c : J[m] \in Seq(P)
  <2> HIDE DEF c
  <2> QED BY <1>0, FlatIs
<1>2. PICK g : Fieldses(g, fields, records, b, i) /\ TakeRecord(fields, records, b, i) = g[c]
  BY TakeRecordIs
<1>3. part(c) = r
  <2>1. ASSUME NEW x \in NamesOf(fields) PROVE \E k \in 1..c : fields[k].name = x
    BY DEF NamesOf
  <2> QED BY <2>1 DEF Partial
<1>4. part(0) = EmptyOf(fields)
  BY DEF Partial, EmptyOf, NamesOf
<1> DEFINE At(m) == Lies(J[m], b, i, n) => g[m] = Result(part(m), J[m], i, n)
           G == {m \in Nat : m <= c => At(m)}
<1>5. 0 \in G
  <2>1. J[0] = <<>> /\ g[0] = Got(EmptyOf(fields), i)
    BY <1>1, <1>2 DEF Flats, Fieldses
  <2>3. i + Len(<<>>) = i /\ i <= n
    OBVIOUS
  <2>4. At(0)
    <3> HIDE DEF part
    <3> QED BY <1>4, <2>1, <2>3 DEF Result
  <2> HIDE DEF At
  <2> QED BY <2>4
<1>6. ASSUME NEW m \in Nat, m \in G PROVE m + 1 \in G
  <2> SUFFICES ASSUME m + 1 <= c, Lies(J[m + 1], b, i, n)
               PROVE  g[m + 1] = Result(part(m + 1), J[m + 1], i, n)
    OBVIOUS
  <2>1. m \in 0..c - 1 /\ m \in 0..c /\ m + 1 \in 1..c /\ m <= c
    BY <1>0
  <2> DEFINE x == J[m]
             y == qs[m + 1]
             f == fields[m + 1]
             name == f.name
             v == r[name]
             at == i + Len(x)
             to == at + Len(y)
  <2>2. J[m + 1] = x \o y /\ x \in Seq(P) /\ y \in Seq(P)
    <3>1. J[m + 1] = x \o y
      BY <1>1, <2>1 DEF Flats
    <3>2. x \in Seq(P)
      BY <1>1, <2>1
    <3>3. y \in Seq(P)
      BY <1>0, <2>1
    <3> QED BY <3>1, <3>2, <3>3
  <2>3. g[m + 1] = FieldStep(f, records, b, g[m])
    BY <1>2, <2>1 DEF Fieldses
  <2>4. FieldReads(f, v, y, records, b, n)
    BY <2>1 DEF FieldsRead
  <2>5. g[m] = Result(part(m), x, i, n) \/ ~Lies(x, b, i, n)
    BY <1>6, <2>1
  <2>50. [part(m) EXCEPT ![name] = v] = part(m + 1)
    <3>1. Len(fields) \in Nat /\ m + 1 <= Len(fields)
      BY <1>0
    <3> QED BY <3>1, PartialMore
  <2> HIDE DEF x, y, f, v, name, part
  <2>6. Lies(x, b, i, n) /\ Lies(y, b, at, n)
    BY <2>2, LiesBoth
  <2>7. Len(x) \in Nat /\ Len(y) \in Nat /\ Len(J[m + 1]) = Len(x) + Len(y)
    <3>1. Len(x \o y) = Len(x) + Len(y)
      BY <2>2, ConcatProperties
    <3> QED BY <2>2, <3>1
  <2>8. at \in Nat /\ to \in Nat /\ at <= to /\ i + Len(J[m + 1]) = to
    BY <2>7
  <2> HIDE DEF at, to
  <2>9. CASE at <= n
    <3>1. g[m] = Got(part(m), at)
      BY <2>5, <2>6, <2>9 DEF Result, at
    <3> DEFINE t == TakeField(f, records, b, at)
    <3>2. t = Result(v, y, at, n)
      <4>1. at \in 0..n
        BY <2>8, <2>9
      <4> QED BY <2>4, <2>6, <4>1 DEF FieldReads
    <3>3. g[m].ok /\ g[m].i = at /\ g[m].val = part(m)
      BY <3>1 DEF Got
    <3>31. g[m + 1] = IF t.ok THEN Got([part(m) EXCEPT ![name] = t.val], t.i) ELSE Failed
      BY <2>3, <3>3 DEF FieldStep, name
    <3> HIDE DEF t
    <3>4. CASE to <= n
      <4>1. t = Got(v, to)
        BY <3>2, <3>4 DEF Result, to
      <4>2. t.ok /\ t.val = v /\ t.i = to
        BY <4>1 DEF Got
      <4>3. g[m + 1] = Got(part(m + 1), to)
        BY <2>50, <3>31, <4>2
      <4> QED BY <2>8, <3>4, <4>3 DEF Result
    <3>5. CASE ~(to <= n)
      <4>1. ~t.ok
        BY <3>2, <3>5 DEF Result, to, Failed
      <4>2. g[m + 1] = Failed
        BY <3>31, <4>1
      <4> QED BY <2>8, <3>5, <4>2 DEF Result
    <3> QED BY <3>4, <3>5
  <2>10. CASE ~(at <= n)
    <3>1. ~g[m].ok
      BY <2>5, <2>6, <2>10 DEF Result, at, Failed
    <3>2. g[m + 1] = Failed
      BY <2>3, <3>1 DEF FieldStep
    <3>3. ~(to <= n)
      BY <2>8, <2>10
    <3> QED BY <2>8, <3>2, <3>3 DEF Result
  <2> QED BY <2>9, <2>10
<1>7. c \in G
  <2> HIDE DEF G, c
  <2> QED BY <1>0, <1>5, <1>6, NumberInduction
<1>8. At(c)
  BY <1>0, <1>7
<1> QED
  <2> HIDE DEF part, c
  <2>1. TakeRecord(fields, records, b, i) = Result(r, Flat(c, qs), i, n)
    BY <1>1, <1>2, <1>3, <1>8 DEF c
  <2> QED BY <2>1 DEF c

(* The records of a snapshot whose numbers and strings are in V.           *)
StringsOf(V) == [s : V]
PairsOf(V) == [k : V, v : V]
NamespacesOf(V) == [id : V, owner : V, created_at : V, max_keys : V, max_bytes : V]
GraysOf(V) == [percent : V, allow_ids : Seq(StringsOf(V)), match_tags : Seq(PairsOf(V))]
VersionsOf(V) ==
  [rev : V, payload : V, sig : V, algo : V, author : V, ts : V, gray : {Nil} \cup GraysOf(V)]
EntriesOf(V) == [ns : V, key : V, head : V, stable : V, versions : Seq(VersionsOf(V))]
AuditOf(V) ==
  [seq : V, ts : V, ns : V, key : V, rev : V, kind : V, actor : V, detail : V, bytes : V,
   ok : BOOLEAN, err : V]
GrantsOf(V) == [ns : V, subs : Seq(PairsOf(V))]
UsageOf(V) == [ns : V, keys : V, bytes : V]
SnapshotsOf(V) ==
  [magic : V, format : V, created_at : V, namespaces : Seq(NamespacesOf(V)),
   entries : Seq(EntriesOf(V)), audit : Seq(AuditOf(V)), grants : Seq(GrantsOf(V)),
   usage : Seq(UsageOf(V))]

RecordsOf(V) ==
  [blob |-> SnapshotsOf(V), namespace |-> NamespacesOf(V), entry |-> EntriesOf(V),
   version |-> VersionsOf(V), gray |-> GraysOf(V), audit |-> AuditOf(V),
   grants |-> GrantsOf(V), usage |-> UsageOf(V),
   string |-> StringsOf(V), pair |-> PairsOf(V)]

(* The kinds by how many records are around and within them.               *)
LeafKinds == {"string", "pair", "namespace", "audit", "usage"}
GrayKinds == LeafKinds \cup {"gray", "grants"}
VersionKinds == GrayKinds \cup {"version"}
EntryKinds == VersionKinds \cup {"entry"}
Kinds == EntryKinds \cup {"blob"}

FieldsFit(fields, r, V, kinds) ==
  /\ Len(fields) \in Nat
  /\ r = [x \in NamesOf(fields) |-> r[x]]
  /\ \A m \in 1..Len(fields) :
       /\ Fits(fields[m], r[fields[m].name], V, RecordsOf(V)[fields[m].of])
       /\ fields[m].how \in {"one", "flag"} \/ fields[m].of \in kinds

LEMMA AsWritten == Written = Expected /\ DOMAIN Expected = Kinds
<1>1. DOMAIN Expected = Kinds
  BY DEF Expected, Kinds, EntryKinds, VersionKinds, GrayKinds, LeafKinds
<1>2. Written = Expected
  BY DEF Written, Expected, WriteBlob, ReadBlob, WriteNamespace, ReadNamespace, WriteEntry, ReadEntry,
         WriteVersion, ReadVersion, WriteGray, ReadGray, WriteAudit, ReadAudit, WriteGrants, ReadGrants,
         WriteUsage, ReadUsage
<1> QED BY <1>1, <1>2

LEMMA LeafFits ==
  ASSUME NEW V, NEW kind \in LeafKinds, NEW r \in RecordsOf(V)[kind]
  PROVE  FieldsFit(Expected[kind], r, V, {})
<1>1. CASE kind = "string"
  <2>1. Expected[kind] = StringFields /\ r \in StringsOf(V)
    BY <1>1 DEF Expected, RecordsOf
  <2>2. r = [x \in NamesOf(StringFields) |-> r[x]]
    BY <2>1 DEF StringFields, StringsOf, NamesOf, One
  <2>3. FieldsFit(StringFields, r, V, {})
    BY <2>1, <2>2 DEF FieldsFit, StringFields, StringsOf, Fits, One
  <2> QED BY <2>1, <2>3
<1>2. CASE kind = "pair"
  <2>1. Expected[kind] = PairFields /\ r \in PairsOf(V)
    BY <1>2 DEF Expected, RecordsOf
  <2>2. r = [x \in NamesOf(PairFields) |-> r[x]]
    BY <2>1 DEF PairFields, PairsOf, NamesOf, One
  <2>3. FieldsFit(PairFields, r, V, {})
    BY <2>1, <2>2 DEF FieldsFit, PairFields, PairsOf, Fits, One
  <2> QED BY <2>1, <2>3
<1>3. CASE kind = "namespace"
  <2>1. Expected[kind] = ReadNamespace /\ r \in NamespacesOf(V)
    BY <1>3 DEF Expected, RecordsOf
  <2>2. r = [x \in NamesOf(ReadNamespace) |-> r[x]]
    BY <2>1 DEF ReadNamespace, NamespacesOf, NamesOf, One
  <2>3. FieldsFit(ReadNamespace, r, V, {})
    BY <2>1, <2>2 DEF FieldsFit, ReadNamespace, NamespacesOf, Fits, One
  <2> QED BY <2>1, <2>3
<1>4. CASE kind = "usage"
  <2>1. Expected[kind] = ReadUsage /\ r \in UsageOf(V)
    BY <1>4 DEF Expected, RecordsOf
  <2>2. r = [x \in NamesOf(ReadUsage) |-> r[x]]
    BY <2>1 DEF ReadUsage, UsageOf, NamesOf, One
  <2>3. FieldsFit(ReadUsage, r, V, {})
    BY <2>1, <2>2 DEF FieldsFit, ReadUsage, UsageOf, Fits, One
  <2> QED BY <2>1, <2>3
<1>5. CASE kind = "audit"
  <2>1. Expected[kind] = ReadAudit /\ r \in AuditOf(V)
    BY <1>5 DEF Expected, RecordsOf
  <2>2. r = [x \in NamesOf(ReadAudit) |-> r[x]]
    BY <2>1 DEF ReadAudit, AuditOf, NamesOf, One, Flag
  <2>3. FieldsFit(ReadAudit, r, V, {})
    BY <2>1, <2>2 DEF FieldsFit, ReadAudit, AuditOf, Fits, One, Flag
  <2> QED BY <2>1, <2>3
<1> QED BY <1>1, <1>2, <1>3, <1>4, <1>5 DEF LeafKinds

LEMMA OthersFit ==
  ASSUME NEW V, NEW r
  PROVE  /\ r \in GraysOf(V) => FieldsFit(ReadGray, r, V, LeafKinds)
         /\ r \in GrantsOf(V) => FieldsFit(ReadGrants, r, V, LeafKinds)
         /\ r \in VersionsOf(V) => FieldsFit(ReadVersion, r, V, GrayKinds)
         /\ r \in EntriesOf(V) => FieldsFit(ReadEntry, r, V, VersionKinds)
         /\ r \in SnapshotsOf(V) => FieldsFit(ReadBlob, r, V, EntryKinds)
<1>1. ASSUME r \in GraysOf(V) PROVE FieldsFit(ReadGray, r, V, LeafKinds)
  <2>2. r = [x \in NamesOf(ReadGray) |-> r[x]]
    BY <1>1 DEF ReadGray, GraysOf, NamesOf, One, Many
  <2>3. RecordsOf(V)["string"] = StringsOf(V) /\ RecordsOf(V)["pair"] = PairsOf(V)
    BY DEF RecordsOf
  <2> QED BY <1>1, <2>2, <2>3 DEF FieldsFit, ReadGray, GraysOf, Fits, One, Many, LeafKinds
<1>2. ASSUME r \in GrantsOf(V) PROVE FieldsFit(ReadGrants, r, V, LeafKinds)
  <2>2. r = [x \in NamesOf(ReadGrants) |-> r[x]]
    BY <1>2 DEF ReadGrants, GrantsOf, NamesOf, One, Many
  <2>3. RecordsOf(V)["pair"] = PairsOf(V)
    BY DEF RecordsOf
  <2> QED BY <1>2, <2>2, <2>3 DEF FieldsFit, ReadGrants, GrantsOf, Fits, One, Many, LeafKinds
<1>3. ASSUME r \in VersionsOf(V) PROVE FieldsFit(ReadVersion, r, V, GrayKinds)
  <2>2. r = [x \in NamesOf(ReadVersion) |-> r[x]]
    BY <1>3 DEF ReadVersion, VersionsOf, NamesOf, One, Maybe
  <2>3. RecordsOf(V)["gray"] = GraysOf(V)
    BY DEF RecordsOf
  <2> QED BY <1>3, <2>2, <2>3 DEF FieldsFit, ReadVersion, VersionsOf, Fits, One, Maybe, GrayKinds
<1>4. ASSUME r \in EntriesOf(V) PROVE FieldsFit(ReadEntry, r, V, VersionKinds)
  <2>2. r = [x \in NamesOf(ReadEntry) |-> r[x]]
    BY <1>4 DEF ReadEntry, EntriesOf, NamesOf, One, Many
  <2>3. RecordsOf(V)["version"] = VersionsOf(V)
    BY DEF RecordsOf
  <2> QED BY <1>4, <2>2, <2>3 DEF FieldsFit, ReadEntry, EntriesOf, Fits, One, Many, VersionKinds
<1>5. ASSUME r \in SnapshotsOf(V) PROVE FieldsFit(ReadBlob, r, V, EntryKinds)
  <2>2. r = [x \in NamesOf(ReadBlob) |-> r[x]]
    BY <1>5 DEF ReadBlob, SnapshotsOf, NamesOf, One, Many
  <2>3. /\ RecordsOf(V)["namespace"] = NamespacesOf(V) /\ RecordsOf(V)["entry"] = EntriesOf(V)
        /\ RecordsOf(V)["audit"] = AuditOf(V) /\ RecordsOf(V)["grants"] = GrantsOf(V)
        /\ RecordsOf(V)["usage"] = UsageOf(V)
    BY DEF RecordsOf
  <2> QED BY <1>5, <2>2, <2>3
          DEF FieldsFit, ReadBlob, SnapshotsOf, Fits, One, Many, EntryKinds, VersionKinds, GrayKinds, LeafKinds
<1> QED BY <1>1, <1>2, <1>3, <1>4, <1>5

LEMMA KindFits ==
  ASSUME NEW V, NEW kind, NEW r \in RecordsOf(V)[kind]
  PROVE  /\ kind \in LeafKinds => FieldsFit(Expected[kind], r, V, {})
         /\ kind \in GrayKinds => FieldsFit(Expected[kind], r, V, LeafKinds)
         /\ kind \in VersionKinds => FieldsFit(Expected[kind], r, V, GrayKinds)
         /\ kind \in EntryKinds => FieldsFit(Expected[kind], r, V, VersionKinds)
         /\ kind \in Kinds => FieldsFit(Expected[kind], r, V, EntryKinds)
<1>1. ASSUME NEW ks, NEW ls, ks \subseteq ls, FieldsFit(Expected[kind], r, V, ks)
      PROVE  FieldsFit(Expected[kind], r, V, ls)
  BY <1>1 DEF FieldsFit
<1>2. /\ {} \subseteq LeafKinds /\ LeafKinds \subseteq GrayKinds /\ GrayKinds \subseteq VersionKinds
      /\ VersionKinds \subseteq EntryKinds
  BY DEF GrayKinds, VersionKinds, EntryKinds
<1>3. ASSUME kind \in LeafKinds PROVE FieldsFit(Expected[kind], r, V, {})
  BY <1>3, LeafFits
<1>4. ASSUME kind \in {"gray", "grants"} PROVE FieldsFit(Expected[kind], r, V, LeafKinds)
  <2>1. CASE kind = "gray"
    <3>1. Expected[kind] = ReadGray /\ r \in GraysOf(V)
      BY <2>1 DEF Expected, RecordsOf
    <3> QED BY <3>1, OthersFit
  <2>2. CASE kind = "grants"
    <3>1. Expected[kind] = ReadGrants /\ r \in GrantsOf(V)
      BY <2>2 DEF Expected, RecordsOf
    <3> QED BY <3>1, OthersFit
  <2> QED BY <1>4, <2>1, <2>2
<1>5. ASSUME kind = "version" PROVE FieldsFit(Expected[kind], r, V, GrayKinds)
  <2>1. Expected[kind] = ReadVersion /\ r \in VersionsOf(V)
    BY <1>5 DEF Expected, RecordsOf
  <2> QED BY <2>1, OthersFit
<1>6. ASSUME kind = "entry" PROVE FieldsFit(Expected[kind], r, V, VersionKinds)
  <2>1. Expected[kind] = ReadEntry /\ r \in EntriesOf(V)
    BY <1>6 DEF Expected, RecordsOf
  <2> QED BY <2>1, OthersFit
<1>7. ASSUME kind = "blob" PROVE FieldsFit(Expected[kind], r, V, EntryKinds)
  <2>1. Expected[kind] = ReadBlob /\ r \in SnapshotsOf(V)
    BY <1>7 DEF Expected, RecordsOf
  <2> QED BY <2>1, OthersFit
<1>8. kind \in GrayKinds => FieldsFit(Expected[kind], r, V, LeafKinds)
  BY <1>1, <1>2, <1>3, <1>4 DEF GrayKinds
<1>9. kind \in VersionKinds => FieldsFit(Expected[kind], r, V, GrayKinds)
  BY <1>1, <1>2, <1>8, <1>5 DEF VersionKinds
<1>10. kind \in EntryKinds => FieldsFit(Expected[kind], r, V, VersionKinds)
  BY <1>1, <1>2, <1>9, <1>6 DEF EntryKinds
<1>11. kind \in Kinds => FieldsFit(Expected[kind], r, V, EntryKinds)
  BY <1>1, <1>2, <1>10, <1>7 DEF Kinds
<1> QED BY <1>3, <1>8, <1>9, <1>10, <1>11

(* Record r of a kind, its pieces ps, and what the reader makes of them.   *)
Reads(kind, ps, r, records, V, b, n) ==
  ps \in Seq(ItemsOf(V)) /\ RecordReads(records[kind], r, ps, b, n)

AllIn(fields, r, qs, records, V, b, n) ==
  /\ qs = [m \in 1..Len(fields) |-> qs[m]]
  /\ \A m \in 1..Len(fields) :
       RecordsIn(fields[m], r[fields[m].name], qs[m], records, ItemsOf(V), b, n)

LEMMA RecordStands ==
  ASSUME NEW V, NEW b, NEW n, Readable(b, n), NEW kind \in Kinds, NEW kinds, NEW r,
         FieldsFit(Expected[kind], r, V, kinds), NEW records, NEW qs,
         AllIn(Expected[kind], r, qs, records, V, b, n)
  PROVE  Reads(kind, Flat(Len(Expected[kind]), qs), r, Records(records, b), V, b, n)
<1> DEFINE fields == Expected[kind]
           P == ItemsOf(V)
<1>1. /\ Len(fields) \in Nat /\ r = [x \in NamesOf(fields) |-> r[x]]
      /\ \A m \in 1..Len(fields) : Fits(fields[m], r[fields[m].name], V, RecordsOf(V)[fields[m].of])
  BY DEF FieldsFit
<1>2. /\ qs = [m \in 1..Len(fields) |-> qs[m]]
      /\ \A m \in 1..Len(fields) :
           RecordsIn(fields[m], r[fields[m].name], qs[m], records, P, b, n)
  BY DEF AllIn
<1>3. n \in Nat /\ Len(b) \in Nat /\ n <= Len(b)
  BY DEF Readable
<1>4. Records(records, b)[kind] = [i \in 0..Len(b) |-> TakeRecord(fields, records, b, i)]
  BY AsWritten DEF Records
<1> HIDE DEF fields
<1>5. ASSUME NEW m \in 1..Len(fields)
      PROVE  qs[m] \in Seq(P) /\ FieldReads(fields[m], r[fields[m].name], qs[m], records, b, n)
  <2> DEFINE f == fields[m]
             v == r[f.name]
             q == qs[m]
             T == RecordsOf(V)[f.of]
  <2>1. Fits(f, v, V, T) /\ RecordsIn(f, v, q, records, ItemsOf(V), b, n)
    BY <1>1, <1>2
  <2>2. q \in Seq(ItemsOf(V)) /\ FieldReads(f, v, q, records, b, n)
    <3> HIDE DEF f, v, q, T
    <3> QED BY <2>1, FieldIsRead
  <2> QED BY <2>2
<1> HIDE DEF P
<1>6. FieldsRead(qs, fields, r, records, P, b, n)
  <2>1. qs \in [1..Len(fields) -> Seq(P)]
    BY <1>2, <1>5
  <2> QED BY <1>5, <2>1 DEF FieldsRead
<1> DEFINE ps == Flat(Len(fields), qs)
<1>7. ps \in Seq(P)
  <2> DEFINE c == Len(fields)
  <2>1. c \in Nat /\ qs \in [1..c -> Seq(P)]
    BY <1>1, <1>6 DEF FieldsRead
  <2> HIDE DEF c
  <2>2. PICK J : Flats(J, c, qs) /\ Flat(c, qs) = J[c] /\ \A m \in 0..c : J[m] \in Seq(P)
    BY <2>1, FlatIs
  <2>3. c \in 0..c
    BY <2>1
  <2> QED BY <2>2, <2>3 DEF c
<1>8. ASSUME NEW i \in 0..n, Lies(ps, b, i, n)
      PROVE  Records(records, b)[kind][i] = Result(r, ps, i, n)
  <2>1. TakeRecord(fields, records, b, i) = Result(r, Flat(Len(fields), qs), i, n)
    BY <1>1, <1>3, <1>6, <1>8, RecordIsRead
  <2>2. i \in 0..Len(b)
    BY <1>3
  <2>3. Records(records, b)[kind][i] = TakeRecord(fields, records, b, i)
    BY <1>4, <2>2
  <2> QED BY <2>1, <2>3
<1>9. RecordReads(Records(records, b)[kind], r, ps, b, n)
  BY <1>8 DEF RecordReads
<1> HIDE DEF ps
<1>10. Reads(kind, ps, r, Records(records, b), V, b, n)
  BY <1>7, <1>9 DEF Reads, P
<1> QED BY <1>10 DEF ps, fields

(* The sequences that stand for the records in a field.                    *)
LEMMA FieldStands ==
  ASSUME NEW V, NEW T, NEW f, NEW v, Fits(f, v, V, T), NEW records, NEW b, NEW n, NEW ss,
         ss = [k \in 1..Len(Within(f, v)) |-> ss[k]],
         f.how \in {"one", "flag"} \/
           \A k \in 1..Len(Within(f, v)) : Within(f, v)[k] \in T => Reads(f.of, ss[k], Within(f, v)[k], records, V, b, n)
  PROVE  RecordsIn(f, v, <<Lead(f, v)>> \o Flat(Len(Within(f, v)), ss), records, ItemsOf(V), b, n)
<1> DEFINE w == Within(f, v)
           c == Len(w)
<1>1. w \in Seq(T)
  BY WithinIs
<1>2. f.how \in {"one", "flag"} => c = 0
  BY DEF Within
<1>3. ss = [k \in 1..c |-> ss[k]]
  OBVIOUS
<1>4. \A k \in 1..c : w[k] \in T
  BY <1>1
<1>5. ASSUME NEW k \in 1..c PROVE ss[k] \in Seq(ItemsOf(V)) /\ RecordReads(records[f.of], w[k], ss[k], b, n)
  <2>1. ~(f.how \in {"one", "flag"})
    <3> HIDE DEF c
    <3> QED BY <1>2
  <2>2. Reads(f.of, ss[k], w[k], records, V, b, n)
    BY <1>4, <2>1
  <2> QED BY <2>2 DEF Reads
<1>6. Stand(ss, c, w, records[f.of], ItemsOf(V), b, n)
  <2> HIDE DEF c, w
  <2>1. ss \in [1..c -> Seq(ItemsOf(V))]
    BY <1>3, <1>5
  <2> QED BY <1>5, <2>1 DEF Stand
<1> QED BY <1>6 DEF RecordsIn

(* A kind with no records within it.                                       *)
LEMMA LeavesRead ==
  ASSUME NEW V, NEW b, NEW n, Readable(b, n), NEW records,
         \A kind \in {} : \A r \in RecordsOf(V)[kind] : Reads(kind, PutNone(kind, r), r, records, V, b, n),
         NEW kind \in LeafKinds, NEW r \in RecordsOf(V)[kind]
  PROVE  Reads(kind, PutLeaf(kind, r), r, Records(records, b), V, b, n)
<1> DEFINE fields == Expected[kind]
           v(m) == r[fields[m].name]
           w(m) == Within(fields[m], v(m))
           ss(m) == [k \in 1..Len(w(m)) |-> PutNone(fields[m].of, w(m)[k])]
           qs == [m \in 1..Len(fields) |-> <<Lead(fields[m], v(m))>> \o Flat(Len(w(m)), ss(m))]
<1>1. FieldsFit(fields, r, V, {})
  BY KindFits
<1>2. kind \in Kinds
  BY DEF Kinds, EntryKinds, VersionKinds, GrayKinds
<1>3. PutLeaf(kind, r) = Flat(Len(fields), qs)
  BY AsWritten DEF PutLeaf, PiecesOf
<1> HIDE DEF fields
<1>4. ASSUME NEW m \in 1..Len(fields)
      PROVE  RecordsIn(fields[m], v(m), qs[m], records, ItemsOf(V), b, n)
  <2> DEFINE f == fields[m]
             T == RecordsOf(V)[f.of]
             x == v(m)
             s == ss(m)
  <2>1. Fits(f, x, V, T) /\ (f.how \in {"one", "flag"} \/ f.of \in {})
    BY <1>1 DEF FieldsFit
  <2>2. ASSUME f.of \in {}, NEW k \in 1..Len(Within(f, x)), Within(f, x)[k] \in T
        PROVE  Reads(f.of, s[k], Within(f, x)[k], records, V, b, n)
    <3>1. s[k] = PutNone(f.of, Within(f, x)[k])
      OBVIOUS
    <3> HIDE DEF s, x, f
    <3> QED BY <2>2, <3>1
  <2>3. s = [k \in 1..Len(Within(f, x)) |-> s[k]]
    OBVIOUS
  <2>4. qs[m] = <<Lead(f, x)>> \o Flat(Len(Within(f, x)), s)
    OBVIOUS
  <2> HIDE DEF s, x, f, T
  <2>5. RecordsIn(f, x, <<Lead(f, x)>> \o Flat(Len(Within(f, x)), s), records, ItemsOf(V), b, n)
    BY <2>1, <2>2, <2>3, FieldStands
  <2>6. RecordsIn(f, x, qs[m], records, ItemsOf(V), b, n)
    <3> HIDE DEF qs
    <3> QED BY <2>4, <2>5
  <2> QED BY <2>6 DEF f, x
<1>5. AllIn(fields, r, qs, records, V, b, n)
  <2>1. qs = [m \in 1..Len(fields) |-> qs[m]]
    OBVIOUS
  <2> HIDE DEF qs
  <2> QED BY <1>4, <2>1 DEF AllIn
<1> HIDE DEF qs
<1>6. Reads(kind, Flat(Len(fields), qs), r, Records(records, b), V, b, n)
  BY <1>1, <1>2, <1>5, RecordStands DEF fields
<1> QED BY <1>3, <1>6

(* A kind with leaves at most within it.                                   *)
LEMMA GraysRead ==
  ASSUME NEW V, NEW b, NEW n, Readable(b, n), NEW records,
         \A kind \in LeafKinds : \A r \in RecordsOf(V)[kind] : Reads(kind, PutLeaf(kind, r), r, records, V, b, n),
         NEW kind \in GrayKinds, NEW r \in RecordsOf(V)[kind]
  PROVE  Reads(kind, PutGray(kind, r), r, Records(records, b), V, b, n)
<1> DEFINE fields == Expected[kind]
           v(m) == r[fields[m].name]
           w(m) == Within(fields[m], v(m))
           ss(m) == [k \in 1..Len(w(m)) |-> PutLeaf(fields[m].of, w(m)[k])]
           qs == [m \in 1..Len(fields) |-> <<Lead(fields[m], v(m))>> \o Flat(Len(w(m)), ss(m))]
<1>1. FieldsFit(fields, r, V, LeafKinds)
  BY KindFits
<1>2. kind \in Kinds
  BY DEF Kinds, EntryKinds, VersionKinds, GrayKinds
<1>3. PutGray(kind, r) = Flat(Len(fields), qs)
  BY AsWritten DEF PutGray, PiecesOf
<1> HIDE DEF fields
<1>4. ASSUME NEW m \in 1..Len(fields)
      PROVE  RecordsIn(fields[m], v(m), qs[m], records, ItemsOf(V), b, n)
  <2> DEFINE f == fields[m]
             T == RecordsOf(V)[f.of]
             x == v(m)
             s == ss(m)
  <2>1. Fits(f, x, V, T) /\ (f.how \in {"one", "flag"} \/ f.of \in LeafKinds)
    BY <1>1 DEF FieldsFit
  <2>2. ASSUME f.of \in LeafKinds, NEW k \in 1..Len(Within(f, x)), Within(f, x)[k] \in T
        PROVE  Reads(f.of, s[k], Within(f, x)[k], records, V, b, n)
    <3>1. s[k] = PutLeaf(f.of, Within(f, x)[k])
      OBVIOUS
    <3> HIDE DEF s, x, f
    <3> QED BY <2>2, <3>1
  <2>3. s = [k \in 1..Len(Within(f, x)) |-> s[k]]
    OBVIOUS
  <2>4. qs[m] = <<Lead(f, x)>> \o Flat(Len(Within(f, x)), s)
    OBVIOUS
  <2> HIDE DEF s, x, f, T
  <2>5. RecordsIn(f, x, <<Lead(f, x)>> \o Flat(Len(Within(f, x)), s), records, ItemsOf(V), b, n)
    BY <2>1, <2>2, <2>3, FieldStands
  <2>6. RecordsIn(f, x, qs[m], records, ItemsOf(V), b, n)
    <3> HIDE DEF qs
    <3> QED BY <2>4, <2>5
  <2> QED BY <2>6 DEF f, x
<1>5. AllIn(fields, r, qs, records, V, b, n)
  <2>1. qs = [m \in 1..Len(fields) |-> qs[m]]
    OBVIOUS
  <2> HIDE DEF qs
  <2> QED BY <1>4, <2>1 DEF AllIn
<1> HIDE DEF qs
<1>6. Reads(kind, Flat(Len(fields), qs), r, Records(records, b), V, b, n)
  BY <1>1, <1>2, <1>5, RecordStands DEF fields
<1> QED BY <1>3, <1>6

(* A kind with gray rules and grants at most within it.                    *)
LEMMA VersionsRead ==
  ASSUME NEW V, NEW b, NEW n, Readable(b, n), NEW records,
         \A kind \in GrayKinds : \A r \in RecordsOf(V)[kind] : Reads(kind, PutGray(kind, r), r, records, V, b, n),
         NEW kind \in VersionKinds, NEW r \in RecordsOf(V)[kind]
  PROVE  Reads(kind, PutVersion(kind, r), r, Records(records, b), V, b, n)
<1> DEFINE fields == Expected[kind]
           v(m) == r[fields[m].name]
           w(m) == Within(fields[m], v(m))
           ss(m) == [k \in 1..Len(w(m)) |-> PutGray(fields[m].of, w(m)[k])]
           qs == [m \in 1..Len(fields) |-> <<Lead(fields[m], v(m))>> \o Flat(Len(w(m)), ss(m))]
<1>1. FieldsFit(fields, r, V, GrayKinds)
  BY KindFits
<1>2. kind \in Kinds
  BY DEF Kinds, EntryKinds, VersionKinds, GrayKinds
<1>3. PutVersion(kind, r) = Flat(Len(fields), qs)
  BY AsWritten DEF PutVersion, PiecesOf
<1> HIDE DEF fields
<1>4. ASSUME NEW m \in 1..Len(fields)
      PROVE  RecordsIn(fields[m], v(m), qs[m], records, ItemsOf(V), b, n)
  <2> DEFINE f == fields[m]
             T == RecordsOf(V)[f.of]
             x == v(m)
             s == ss(m)
  <2>1. Fits(f, x, V, T) /\ (f.how \in {"one", "flag"} \/ f.of \in GrayKinds)
    BY <1>1 DEF FieldsFit
  <2>2. ASSUME f.of \in GrayKinds, NEW k \in 1..Len(Within(f, x)), Within(f, x)[k] \in T
        PROVE  Reads(f.of, s[k], Within(f, x)[k], records, V, b, n)
    <3>1. s[k] = PutGray(f.of, Within(f, x)[k])
      OBVIOUS
    <3> HIDE DEF s, x, f
    <3> QED BY <2>2, <3>1
  <2>3. s = [k \in 1..Len(Within(f, x)) |-> s[k]]
    OBVIOUS
  <2>4. qs[m] = <<Lead(f, x)>> \o Flat(Len(Within(f, x)), s)
    OBVIOUS
  <2> HIDE DEF s, x, f, T
  <2>5. RecordsIn(f, x, <<Lead(f, x)>> \o Flat(Len(Within(f, x)), s), records, ItemsOf(V), b, n)
    BY <2>1, <2>2, <2>3, FieldStands
  <2>6. RecordsIn(f, x, qs[m], records, ItemsOf(V), b, n)
    <3> HIDE DEF qs
    <3> QED BY <2>4, <2>5
  <2> QED BY <2>6 DEF f, x
<1>5. AllIn(fields, r, qs, records, V, b, n)
  <2>1. qs = [m \in 1..Len(fields) |-> qs[m]]
    OBVIOUS
  <2> HIDE DEF qs
  <2> QED BY <1>4, <2>1 DEF AllIn
<1> HIDE DEF qs
<1>6. Reads(kind, Flat(Len(fields), qs), r, Records(records, b), V, b, n)
  BY <1>1, <1>2, <1>5, RecordStands DEF fields
<1> QED BY <1>3, <1>6

(* A kind with versions at most within it.                                 *)
LEMMA EntriesRead ==
  ASSUME NEW V, NEW b, NEW n, Readable(b, n), NEW records,
         \A kind \in VersionKinds : \A r \in RecordsOf(V)[kind] : Reads(kind, PutVersion(kind, r), r, records, V, b, n),
         NEW kind \in EntryKinds, NEW r \in RecordsOf(V)[kind]
  PROVE  Reads(kind, PutEntry(kind, r), r, Records(records, b), V, b, n)
<1> DEFINE fields == Expected[kind]
           v(m) == r[fields[m].name]
           w(m) == Within(fields[m], v(m))
           ss(m) == [k \in 1..Len(w(m)) |-> PutVersion(fields[m].of, w(m)[k])]
           qs == [m \in 1..Len(fields) |-> <<Lead(fields[m], v(m))>> \o Flat(Len(w(m)), ss(m))]
<1>1. FieldsFit(fields, r, V, VersionKinds)
  BY KindFits
<1>2. kind \in Kinds
  BY DEF Kinds, EntryKinds, VersionKinds, GrayKinds
<1>3. PutEntry(kind, r) = Flat(Len(fields), qs)
  BY AsWritten DEF PutEntry, PiecesOf
<1> HIDE DEF fields
<1>4. ASSUME NEW m \in 1..Len(fields)
      PROVE  RecordsIn(fields[m], v(m), qs[m], records, ItemsOf(V), b, n)
  <2> DEFINE f == fields[m]
             T == RecordsOf(V)[f.of]
             x == v(m)
             s == ss(m)
  <2>1. Fits(f, x, V, T) /\ (f.how \in {"one", "flag"} \/ f.of \in VersionKinds)
    BY <1>1 DEF FieldsFit
  <2>2. ASSUME f.of \in VersionKinds, NEW k \in 1..Len(Within(f, x)), Within(f, x)[k] \in T
        PROVE  Reads(f.of, s[k], Within(f, x)[k], records, V, b, n)
    <3>1. s[k] = PutVersion(f.of, Within(f, x)[k])
      OBVIOUS
    <3> HIDE DEF s, x, f
    <3> QED BY <2>2, <3>1
  <2>3. s = [k \in 1..Len(Within(f, x)) |-> s[k]]
    OBVIOUS
  <2>4. qs[m] = <<Lead(f, x)>> \o Flat(Len(Within(f, x)), s)
    OBVIOUS
  <2> HIDE DEF s, x, f, T
  <2>5. RecordsIn(f, x, <<Lead(f, x)>> \o Flat(Len(Within(f, x)), s), records, ItemsOf(V), b, n)
    BY <2>1, <2>2, <2>3, FieldStands
  <2>6. RecordsIn(f, x, qs[m], records, ItemsOf(V), b, n)
    <3> HIDE DEF qs
    <3> QED BY <2>4, <2>5
  <2> QED BY <2>6 DEF f, x
<1>5. AllIn(fields, r, qs, records, V, b, n)
  <2>1. qs = [m \in 1..Len(fields) |-> qs[m]]
    OBVIOUS
  <2> HIDE DEF qs
  <2> QED BY <1>4, <2>1 DEF AllIn
<1> HIDE DEF qs
<1>6. Reads(kind, Flat(Len(fields), qs), r, Records(records, b), V, b, n)
  BY <1>1, <1>2, <1>5, RecordStands DEF fields
<1> QED BY <1>3, <1>6

(* The snapshot.                                                           *)
LEMMA BlobRead ==
  ASSUME NEW V, NEW b, NEW n, Readable(b, n), NEW records,
         \A kind \in EntryKinds : \A r \in RecordsOf(V)[kind] : Reads(kind, PutEntry(kind, r), r, records, V, b, n),
         NEW kind \in Kinds, NEW r \in RecordsOf(V)[kind]
  PROVE  Reads(kind, PutBlob(kind, r), r, Records(records, b), V, b, n)
<1> DEFINE fields == Expected[kind]
           v(m) == r[fields[m].name]
           w(m) == Within(fields[m], v(m))
           ss(m) == [k \in 1..Len(w(m)) |-> PutEntry(fields[m].of, w(m)[k])]
           qs == [m \in 1..Len(fields) |-> <<Lead(fields[m], v(m))>> \o Flat(Len(w(m)), ss(m))]
<1>1. FieldsFit(fields, r, V, EntryKinds)
  BY KindFits
<1>2. kind \in Kinds
  BY DEF Kinds, EntryKinds, VersionKinds, GrayKinds
<1>3. PutBlob(kind, r) = Flat(Len(fields), qs)
  BY AsWritten DEF PutBlob, PiecesOf
<1> HIDE DEF fields
<1>4. ASSUME NEW m \in 1..Len(fields)
      PROVE  RecordsIn(fields[m], v(m), qs[m], records, ItemsOf(V), b, n)
  <2> DEFINE f == fields[m]
             T == RecordsOf(V)[f.of]
             x == v(m)
             s == ss(m)
  <2>1. Fits(f, x, V, T) /\ (f.how \in {"one", "flag"} \/ f.of \in EntryKinds)
    BY <1>1 DEF FieldsFit
  <2>2. ASSUME f.of \in EntryKinds, NEW k \in 1..Len(Within(f, x)), Within(f, x)[k] \in T
        PROVE  Reads(f.of, s[k], Within(f, x)[k], records, V, b, n)
    <3>1. s[k] = PutEntry(f.of, Within(f, x)[k])
      OBVIOUS
    <3> HIDE DEF s, x, f
    <3> QED BY <2>2, <3>1
  <2>3. s = [k \in 1..Len(Within(f, x)) |-> s[k]]
    OBVIOUS
  <2>4. qs[m] = <<Lead(f, x)>> \o Flat(Len(Within(f, x)), s)
    OBVIOUS
  <2> HIDE DEF s, x, f, T
  <2>5. RecordsIn(f, x, <<Lead(f, x)>> \o Flat(Len(Within(f, x)), s), records, ItemsOf(V), b, n)
    BY <2>1, <2>2, <2>3, FieldStands
  <2>6. RecordsIn(f, x, qs[m], records, ItemsOf(V), b, n)
    <3> HIDE DEF qs
    <3> QED BY <2>4, <2>5
  <2> QED BY <2>6 DEF f, x
<1>5. AllIn(fields, r, qs, records, V, b, n)
  <2>1. qs = [m \in 1..Len(fields) |-> qs[m]]
    OBVIOUS
  <2> HIDE DEF qs
  <2> QED BY <1>4, <2>1 DEF AllIn
<1> HIDE DEF qs
<1>6. Reads(kind, Flat(Len(fields), qs), r, Records(records, b), V, b, n)
  BY <1>1, <1>2, <1>5, RecordStands DEF fields
<1> QED BY <1>3, <1>6

(* What TakeBlob makes of a body b of which n pieces can be read, if they  *)
(* are those of the snapshot.                                              *)
LEMMA SnapshotIsRead ==
  ASSUME NEW V, NEW blob \in SnapshotsOf(V), NEW b, NEW n, Readable(b, n)
  PROVE  /\ PutBlob("blob", blob) \in Seq(ItemsOf(V))
         /\ Lies(PutBlob("blob", blob), b, 0, n) => TakeBlob(b) = Result(blob, PutBlob("blob", blob), 0, n)
<1> DEFINE leaves == Records(<<>>, b)
           grays == Records(leaves, b)
           versions == Records(grays, b)
           entries == Records(versions, b)
<1>1. \A kind \in LeafKinds : \A r \in RecordsOf(V)[kind] : Reads(kind, PutLeaf(kind, r), r, leaves, V, b, n)
  <2>1. \A kind \in {} : \A r \in RecordsOf(V)[kind] : Reads(kind, PutNone(kind, r), r, <<>>, V, b, n)
    OBVIOUS
  <2> QED BY <2>1, LeavesRead
<1> HIDE DEF leaves
<1>2. \A kind \in GrayKinds : \A r \in RecordsOf(V)[kind] : Reads(kind, PutGray(kind, r), r, grays, V, b, n)
  BY <1>1, GraysRead
<1> HIDE DEF grays
<1>3. \A kind \in VersionKinds : \A r \in RecordsOf(V)[kind] : Reads(kind, PutVersion(kind, r), r, versions, V, b, n)
  BY <1>2, VersionsRead
<1> HIDE DEF versions
<1>4. \A kind \in EntryKinds : \A r \in RecordsOf(V)[kind] : Reads(kind, PutEntry(kind, r), r, entries, V, b, n)
  BY <1>3, EntriesRead
<1> HIDE DEF entries
<1>5. "blob" \in Kinds /\ blob \in RecordsOf(V)["blob"]
  BY DEF Kinds, RecordsOf
<1>6. Reads("blob", PutBlob("blob", blob), blob, Records(entries, b), V, b, n)
  BY <1>4, <1>5, BlobRead
<1>7. TakeBlob(b) = Records(entries, b)["blob"][0]
  BY DEF TakeBlob, entries, versions, grays, leaves
<1>8. 0 \in 0..n
  BY DEF Readable
<1> QED BY <1>6, <1>7, <1>8 DEF Reads, RecordReads

LEMMA FirstPieces ==
  ASSUME NEW Q, NEW s \in Seq(Q), NEW n \in 0..Len(s)
  PROVE  /\ SubSeq(s, 1, n) \in Seq(Q) /\ Len(SubSeq(s, 1, n)) = n
         /\ \A k \in 1..n : SubSeq(s, 1, n)[k] = s[k]
<1>1. n \in Int /\ 1 \in Int /\ \A k \in 1..n : s[k] \in Q
  OBVIOUS
<1> DEFINE u == SubSeq(s, 1, n)
<1>2. /\ u \in Seq(Q) /\ Len(u) = IF 1 <= n THEN n - 1 + 1 ELSE 0
      /\ \A k \in 1..n - 1 + 1 : u[k] = s[1 + k - 1]
  BY <1>1, SubSeqProperties
<1> HIDE DEF u
<1>3. Len(u) = n
  BY <1>2
<1>4. ASSUME NEW k \in 1..n PROVE u[k] = s[k]
  <2>1. k \in 1..n - 1 + 1 /\ 1 + k - 1 = k
    OBVIOUS
  <2> QED BY <1>2, <2>1
<1> QED BY <1>2, <1>3, <1>4 DEF u

LEMMA FramedIs ==
  ASSUME NEW Q, NEW s \in Seq(Q)
  PROVE  /\ Framed(s) \in Seq(Q \cup {Magic, Crc(s)})
         /\ Len(Framed(s)) = Len(s) + 2
         /\ Framed(s)[1] = Magic
         /\ Framed(s)[Len(s) + 2] = Crc(s)
         /\ \A k \in 1..Len(s) : Framed(s)[k + 1] = s[k]
<1> DEFINE R == Q \cup {Magic, Crc(s)}
           o == <<Magic>>
           z == <<Crc(s)>>
           x == o \o s
           y == x \o z
<1>1. /\ o \in Seq(R) /\ Len(o) = 1 /\ o[1] = Magic
      /\ z \in Seq(R) /\ Len(z) = 1 /\ z[1] = Crc(s)
      /\ s \in Seq(R) /\ Len(s) \in Nat
  OBVIOUS
<1>2. Framed(s) = y
  BY DEF Framed
<1> HIDE DEF o, z, R
<1>3. /\ x \in Seq(R) /\ Len(x) = Len(o) + Len(s)
      /\ \A k \in 1..Len(o) + Len(s) : x[k] = IF k <= Len(o) THEN o[k] ELSE s[k - Len(o)]
  <2>1. o \in Seq(R) /\ s \in Seq(R)
    BY <1>1
  <2> QED BY <2>1, ConcatProperties
<1> HIDE DEF x
<1>4. /\ y \in Seq(R) /\ Len(y) = Len(x) + Len(z)
      /\ \A k \in 1..Len(x) + Len(z) : y[k] = IF k <= Len(x) THEN x[k] ELSE z[k - Len(x)]
  <2>1. x \in Seq(R) /\ z \in Seq(R)
    BY <1>1, <1>3
  <2> QED BY <2>1, ConcatProperties
<1> HIDE DEF y
<1>5. Len(y) = Len(s) + 2
  BY <1>1, <1>3, <1>4
<1>6. y[1] = Magic
  <2>1. 1 \in 1..Len(x) + Len(z) /\ 1 <= Len(x) /\ 1 \in 1..Len(o) + Len(s) /\ 1 <= Len(o)
    BY <1>1, <1>3
  <2>2. y[1] = x[1] /\ x[1] = o[1]
    BY <1>3, <1>4, <2>1
  <2> QED BY <1>1, <2>2
<1>7. y[Len(s) + 2] = Crc(s)
  <2> DEFINE l == Len(s) + 2
  <2>1. l \in 1..Len(x) + Len(z) /\ ~(l <= Len(x)) /\ l - Len(x) = 1
    BY <1>1, <1>3
  <2> HIDE DEF l
  <2>2. y[l] = z[1]
    BY <1>4, <2>1
  <2> QED BY <1>1, <2>2 DEF l
<1>8. ASSUME NEW k \in 1..Len(s) PROVE y[k + 1] = s[k]
  <2> DEFINE l == k + 1
  <2>1. /\ l \in 1..Len(x) + Len(z) /\ l <= Len(x) /\ l \in 1..Len(o) + Len(s) /\ ~(l <= Len(o))
        /\ l - Len(o) = k
    BY <1>1, <1>3
  <2> HIDE DEF l
  <2>2. y[l] = s[k]
    BY <1>3, <1>4, <2>1
  <2> QED BY <2>2 DEF l
<1> QED BY <1>2, <1>4, <1>5, <1>6, <1>7, <1>8 DEF R

LEMMA FramedDecodes ==
  ASSUME NEW Q, NEW s \in Seq(Q)
  PROVE  Decode(Framed(s)) = TakeBlob(s)
<1> DEFINE R == Q \cup {Magic, Crc(s)}
           y == Framed(s)
           n == Len(s)
<1>1. /\ y \in Seq(R) /\ Len(y) = n + 2 /\ y[1] = Magic /\ y[n + 2] = Crc(s)
      /\ \A k \in 1..n : y[k + 1] = s[k]
  BY FramedIs
<1>2. n \in Nat
  OBVIOUS
<1> DEFINE u == SubSeq(y, 2, Len(y) - 1)
<1> HIDE DEF y, n, R
<1>3. Head(y) = Magic /\ ~(Len(y) < 2) /\ y[Len(y)] = Crc(s) /\ Len(y) - 1 = n + 1
  BY <1>1, <1>2
<1>4. u \in Seq(R) /\ Len(u) = n /\ \A k \in 1..n : u[k] = y[k + 1]
  <2> DEFINE m == n + 1
  <2>1. m \in Int /\ 2 \in Int /\ \A k \in 2..m : y[k] \in R
    <3>1. m \in Int
      BY <1>2
    <3>2. ASSUME NEW k \in 2..m PROVE y[k] \in R
      <4>1. k \in 1..Len(y)
        BY <1>1, <1>2
      <4> QED BY <1>1, <4>1
    <3> QED BY <3>1, <3>2
  <2> DEFINE t == SubSeq(y, 2, m)
  <2>2. /\ t \in Seq(R) /\ Len(t) = IF 2 <= m THEN m - 2 + 1 ELSE 0
        /\ \A k \in 1..m - 2 + 1 : t[k] = y[2 + k - 1]
    <3> HIDE DEF m
    <3> QED BY <2>1, SubSeqProperties
  <2>3. u = t
    BY <1>3
  <2> HIDE DEF t, u
  <2>4. Len(t) = n
    BY <1>2, <2>2
  <2>5. ASSUME NEW k \in 1..n PROVE t[k] = y[k + 1]
    <3>1. k \in 1..m - 2 + 1 /\ 2 + k - 1 = k + 1
      BY <1>2
    <3> QED BY <2>2, <3>1
  <2> QED BY <2>2, <2>3, <2>4, <2>5
<1>5. u = s
  <2>1. u \in Seq(R \cup Q) /\ s \in Seq(R \cup Q) /\ Len(u) = Len(s)
    BY <1>4 DEF n
  <2>2. \A k \in 1..Len(u) : u[k] = s[k]
    <3> HIDE DEF u
    <3> QED BY <1>1, <1>4
  <2> HIDE DEF u
  <2> QED BY <2>1, <2>2, SeqEqual
<1>6. Decode(y) = IF y[Len(y)] # Crc(u) THEN Failed ELSE TakeBlob(u)
  BY <1>3 DEF Decode
<1> HIDE DEF u
<1>7. Decode(y) = TakeBlob(s)
  BY <1>3, <1>5, <1>6
<1> QED BY <1>7 DEF y

(* A file whose last piece is not a checksum is refused.                   *)
LEMMA NoChecksum ==
  ASSUME NEW raw, ASSUME NEW body PROVE raw[Len(raw)] # Crc(body)
  PROVE  ~Decode(raw).ok
BY DEF Decode, Failed

LEMMA NotChecksums ==
  ASSUME NEW V, NEW piece, piece \in ItemsOf(V) \cup {Magic, Half}, NEW body
  PROVE  piece # Crc(body)
BY DEF ItemsOf, Item, Magic, Half, Crc

(* Any snapshot, whatever its numbers and strings are and however many     *)
(* records it has: Decode of what Encode wrote is the snapshot, a file that*)
(* was cut is refused, and so is a body that ends early under a checksum   *)
(* of its own.                                                             *)
THEOREM AnySnapshotAllOrNothing ==
  \A V : \A blob \in SnapshotsOf(V) : AllOrNothing(blob)
<1> SUFFICES ASSUME NEW V, NEW blob \in SnapshotsOf(V) PROVE AllOrNothing(blob)
  OBVIOUS
<1> DEFINE body == PutBlob("blob", blob)
           file == Framed(body)
           P == ItemsOf(V)
           c == Len(body)
<1>1. body \in Seq(P)
  <2>1. Readable(<<>>, 0)
    BY DEF Readable
  <2> QED BY <2>1, SnapshotIsRead
<1>2. c \in Nat
  BY <1>1
<1>3. ASSUME NEW b, NEW n, Readable(b, n), Lies(body, b, 0, n)
      PROVE  TakeBlob(b) = Result(blob, body, 0, n)
  BY <1>3, SnapshotIsRead
<1>4. Encode(blob) = file
  BY DEF Encode
<1> HIDE DEF body
<1>5. ASSUME NEW k \in 1..c PROVE body[k] \in P /\ body[k] # Half
  <2>1. body[k] \in P
    BY <1>1
  <2> QED BY <2>1 DEF ItemsOf, Item, Half
<1>6. Decode(file).ok /\ Decode(file).val = blob
  <2>1. Decode(file) = TakeBlob(body)
    BY <1>1, FramedDecodes
  <2>2. Readable(body, c)
    <3> HIDE DEF P
    <3> QED BY <1>2, <1>5 DEF Readable
  <2>3. Lies(body, body, 0, c)
    <3>1. \A k \in 1..Len(body) : 0 + k = k
      OBVIOUS
    <3> QED BY <3>1 DEF Lies
  <2>4. TakeBlob(body) = Result(blob, body, 0, c)
    BY <1>3, <2>2, <2>3
  <2>5. 0 + Len(body) <= c
    BY <1>2
  <2> QED BY <2>1, <2>4, <2>5 DEF Result, Got
<1>7. ASSUME NEW n \in 0..Len(file) - 1, NEW cut \in Cuts(file, n) PROVE ~Decode(cut).ok
  <2> DEFINE R == P \cup {Magic, Crc(body)}
             s == SubSeq(file, 1, n)
  <2>1. /\ file \in Seq(R) /\ Len(file) = c + 2 /\ file[1] = Magic
        /\ \A k \in 1..c : file[k + 1] = body[k]
    BY <1>1, FramedIs
  <2>2. /\ s \in Seq(R) /\ Len(s) = n /\ \A k \in 1..n : s[k] = file[k]
    <3>1. n \in 0..Len(file)
      BY <1>2, <2>1
    <3> HIDE DEF R, file
    <3> QED BY <2>1, <3>1, FirstPieces
  <2>3. cut = s \/ cut = Append(s, Half)
    BY DEF Cuts
  <2>4. ASSUME NEW k \in 1..n PROVE s[k] \in P \cup {Magic}
    <3>1. CASE k = 1
      BY <2>1, <2>2, <3>1
    <3>2. CASE k # 1
      <4>1. k - 1 \in 1..c /\ (k - 1) + 1 = k
        BY <1>2, <2>1, <3>2
      <4>2. s[k] = file[k] /\ file[(k - 1) + 1] = body[k - 1]
        <5> HIDE DEF s, file
        <5> QED BY <2>1, <2>2, <4>1
      <4>3. s[k] = body[k - 1]
        BY <4>1, <4>2
      <4> QED BY <1>5, <4>1, <4>3
    <3> QED BY <3>1, <3>2
  <2> HIDE DEF s, file, P, R
  <2>5. CASE cut = s
    <3>1. CASE n = 0
      <4>1. Len(cut) < 2
        BY <2>2, <2>5, <3>1
      <4> QED BY <4>1 DEF Decode, Failed
    <3>2. CASE n # 0
      <4>1. n \in 1..n /\ Len(cut) = n
        BY <2>2, <2>5, <3>2
      <4>2. cut[Len(cut)] \in P \cup {Magic}
        BY <2>4, <2>5, <4>1
      <4>3. ASSUME NEW x PROVE cut[Len(cut)] # Crc(x)
        <5>1. cut[Len(cut)] \in ItemsOf(V) \cup {Magic, Half}
          BY <4>2 DEF P
        <5> QED BY <5>1, NotChecksums
      <4> QED BY <4>3, NoChecksum
    <3> QED BY <3>1, <3>2
  <2>6. CASE cut = Append(s, Half)
    <3>1. s \in Seq(R \cup {Half}) /\ Half \in R \cup {Half}
      BY <2>2
    <3>2. Len(cut) = Len(s) + 1 /\ cut[Len(s) + 1] = Half
      BY <2>6, <3>1, AppendProperties
    <3>3. ASSUME NEW x PROVE cut[Len(cut)] # Crc(x)
      <4>1. cut[Len(cut)] \in ItemsOf(V) \cup {Magic, Half}
        BY <3>2
      <4> QED BY <4>1, NotChecksums
    <3> QED BY <3>3, NoChecksum
  <2> QED BY <2>3, <2>5, <2>6
<1>8. ASSUME NEW n \in 0..c - 1, NEW cut \in Cuts(body, n) PROVE ~Decode(Framed(cut)).ok
  <2> DEFINE s == SubSeq(body, 1, n)
             Q == P \cup {Half}
  <2>1. s \in Seq(P) /\ Len(s) = n /\ \A k \in 1..n : s[k] = body[k]
    <3>1. n \in 0..Len(body)
      BY <1>2
    <3> HIDE DEF P
    <3> QED BY <1>1, <3>1, FirstPieces
  <2>2. cut = s \/ cut = Append(s, Half)
    BY DEF Cuts
  <2>3. ASSUME NEW k \in 1..n PROVE s[k] = body[k] /\ s[k] # Half
    <3>1. k \in 1..c
      BY <1>2
    <3> QED BY <1>5, <2>1, <3>1
  <2> HIDE DEF s, P
  <2>4. /\ cut \in Seq(Q) /\ n \in 0..Len(cut) /\ \A k \in 1..n : cut[k] = s[k]
        /\ n = Len(cut) \/ cut[n + 1] = Half
    <3>1. s \in Seq(Q) /\ Half \in Q
      BY <2>1
    <3>2. CASE cut = s
      BY <2>1, <3>1, <3>2
    <3>3. CASE cut = Append(s, Half)
      <4>1. /\ cut \in Seq(Q) /\ Len(cut) = Len(s) + 1 /\ cut[Len(s) + 1] = Half
            /\ \A k \in 1..Len(s) : cut[k] = s[k]
        <5> HIDE DEF Q
        <5> QED BY <3>1, <3>3, AppendProperties
      <4> QED BY <2>1, <4>1
    <3> QED BY <2>2, <3>2, <3>3
  <2> HIDE DEF Q
  <2>5. Readable(cut, n)
    <3>1. Len(cut) \in Nat
      BY <2>4
    <3> QED BY <2>3, <2>4, <3>1 DEF Readable
  <2>6. Lies(body, cut, 0, n)
    <3>1. ASSUME NEW k \in 1..Len(body), 0 + k <= n PROVE cut[0 + k] = body[k]
      <4>1. 0 + k = k /\ k \in 1..n
        BY <3>1
      <4> QED BY <2>3, <2>4, <4>1
    <3> QED BY <3>1 DEF Lies
  <2>7. TakeBlob(cut) = Result(blob, body, 0, n)
    BY <1>3, <2>5, <2>6
  <2>8. ~(0 + Len(body) <= n)
    BY <1>2
  <2>9. Decode(Framed(cut)) = TakeBlob(cut)
    BY <2>4, FramedDecodes
  <2> QED BY <2>7, <2>8, <2>9 DEF Result, Failed
<1> QED
  <2> HIDE DEF file
  <2>1. AllOrNothing(blob) =
          (/\ Decode(file).ok /\ Decode(file).val = blob
           /\ \A n \in 0..Len(file) - 1 : \A cut \in Cuts(file, n) : ~Decode(cut).ok
           /\ \A n \in 0..Len(body) - 1 : \A cut \in Cuts(body, n) : ~Decode(Framed(cut)).ok)
    BY <1>4 DEF AllOrNothing, body
  <2> QED BY <1>6, <1>7, <1>8, <2>1

(* The snapshots that a behaviour writes have numbers in their fields.     *)
CodecJobsStay == job.part = "codec" => job \in CodecJobs

LEMMA CodecJobsAtFirst == AllInit => CodecJobsStay
<1> SUFFICES ASSUME AllInit, job.part = "codec" PROVE job \in CodecJobs
  BY DEF CodecJobsStay
<1>1. job # [part |-> "gray"] /\ job # [part |-> "ring"]
  OBVIOUS
<1>2. job \notin NameJobs /\ job \notin DiffJobs
  <2>1. \A j \in NameJobs : j.part = "names"
    BY DEF NameJobs
  <2>2. \A j \in DiffJobs : j.part = "diff"
    BY DEF DiffJobs
  <2> QED BY <2>1, <2>2
<1> QED BY <1>1, <1>2 DEF AllInit, About

LEMMA FewAreSeq ==
  ASSUME NEW S, NEW x \in S, NEW y \in S
  PROVE  <<>> \in Seq(S) /\ <<x>> \in Seq(S) /\ <<x, y>> \in Seq(S)
OBVIOUS

LEMMA JobIsSnapshot ==
  ASSUME NEW j \in CodecJobs
  PROVE  Blob(j) \in SnapshotsOf(Nat)
<1>1. /\ j.magic = 1 /\ j.format = 2 /\ j.created_at = 3
      /\ j.namespaces \in {<<>>, <<Named2(20), Named2(30)>>}
      /\ \/ j.entries \in {<<>>, <<Entry2(40, <<>>)>>}
         \/ \E g \in Grays :
              j.entries = <<Entry2(40, <<Version2(50, g)>>), Entry2(60, <<Version2(70, Nil), Version2(80, g)>>)>>
      /\ j.audit = <<>> \/ \E ok \in BOOLEAN : j.audit = <<Audit2(90, ok), Audit2(110, ~ok)>>
      /\ j.grants \in {<<>>, <<[ns |-> 120, subs |-> <<Pair(121, 122), Pair(123, 124)>>], [ns |-> 125, subs |-> <<>>]>>}
      /\ j.usage \in {<<>>, <<[ns |-> 130, keys |-> 131, bytes |-> 132]>>}
      /\ DOMAIN j = {"part", "magic", "format", "created_at", "namespaces", "entries", "audit", "grants", "usage"}
  BY DEF CodecJobs
<1>2. j.namespaces \in Seq(NamespacesOf(Nat))
  <2>1. Named2(20) \in NamespacesOf(Nat) /\ Named2(30) \in NamespacesOf(Nat)
    BY DEF Named2, NamespacesOf
  <2>2. <<>> \in Seq(NamespacesOf(Nat)) /\ <<Named2(20), Named2(30)>> \in Seq(NamespacesOf(Nat))
    BY <2>1, FewAreSeq
  <2> QED BY <1>1, <2>2
<1>3. \A k, v \in Nat : Pair(k, v) \in PairsOf(Nat)
  BY DEF Pair, PairsOf
<1>4. ASSUME NEW g \in Grays PROVE g \in {Nil} \cup GraysOf(Nat)
  <2> DEFINE ids == {<<>>, <<[s |-> 11], [s |-> 12]>>}
             tags == {<<>>, <<Pair(13, 14)>>, <<Pair(15, 16), Pair(13, 14)>>}
  <2>1. ids \subseteq Seq(StringsOf(Nat))
    <3>1. [s |-> 11] \in StringsOf(Nat) /\ [s |-> 12] \in StringsOf(Nat)
      BY DEF StringsOf
    <3> QED BY <3>1
  <2>2. tags \subseteq Seq(PairsOf(Nat))
    <3>1. Pair(13, 14) \in PairsOf(Nat) /\ Pair(15, 16) \in PairsOf(Nat)
      BY <1>3
    <3> QED BY <3>1
  <2>3. g = Nil \/ g \in [percent : {5}, allow_ids : ids, match_tags : tags]
    BY DEF Grays
  <2> HIDE DEF ids, tags
  <2> QED BY <2>1, <2>2, <2>3 DEF GraysOf
<1>5. j.entries \in Seq(EntriesOf(Nat))
  <2> DEFINE two(g) == <<Entry2(40, <<Version2(50, g)>>), Entry2(60, <<Version2(70, Nil), Version2(80, g)>>)>>
             few == {<<>>, <<Entry2(40, <<>>)>>}
  <2>0. j.entries \in few \/ \E g \in Grays : j.entries = two(g)
    BY <1>1
  <2>1. ASSUME NEW n \in Nat, NEW g \in {Nil} \cup GraysOf(Nat) PROVE Version2(n, g) \in VersionsOf(Nat)
    BY DEF Version2, VersionsOf
  <2>2. ASSUME NEW n \in Nat, NEW vs \in Seq(VersionsOf(Nat)) PROVE Entry2(n, vs) \in EntriesOf(Nat)
    BY DEF Entry2, EntriesOf
  <2>3. ASSUME j.entries \in few PROVE j.entries \in Seq(EntriesOf(Nat))
    <3>1. Entry2(40, <<>>) \in EntriesOf(Nat)
      <4>1. <<>> \in Seq(VersionsOf(Nat)) /\ 40 \in Nat
        OBVIOUS
      <4> QED BY <2>2, <4>1
    <3>2. <<>> \in Seq(EntriesOf(Nat)) /\ <<Entry2(40, <<>>)>> \in Seq(EntriesOf(Nat))
      BY <3>1, FewAreSeq
    <3> QED BY <2>3, <3>2
  <2>4. ASSUME NEW g \in Grays, j.entries = two(g) PROVE j.entries \in Seq(EntriesOf(Nat))
    <3>1. /\ Version2(50, g) \in VersionsOf(Nat) /\ Version2(70, Nil) \in VersionsOf(Nat)
          /\ Version2(80, g) \in VersionsOf(Nat)
      BY <1>4, <2>1
    <3> DEFINE vs == <<Version2(50, g)>>
               ws == <<Version2(70, Nil), Version2(80, g)>>
    <3>2. vs \in Seq(VersionsOf(Nat)) /\ ws \in Seq(VersionsOf(Nat))
      BY <3>1
    <3> HIDE DEF vs, ws
    <3> DEFINE e1 == Entry2(40, vs)
               e2 == Entry2(60, ws)
    <3>3. e1 \in EntriesOf(Nat) /\ e2 \in EntriesOf(Nat)
      BY <2>2, <3>2
    <3>4. j.entries = <<e1, e2>>
      BY <2>4 DEF vs, ws
    <3> HIDE DEF e1, e2
    <3>5. <<e1, e2>> \in Seq(EntriesOf(Nat))
      BY <3>3, FewAreSeq
    <3> QED BY <3>4, <3>5
  <2> HIDE DEF two, few
  <2> QED BY <2>0, <2>3, <2>4
<1>6. j.audit \in Seq(AuditOf(Nat))
  <2>1. CASE j.audit = <<>>
    BY <2>1
  <2>2. ASSUME NEW ok \in BOOLEAN, j.audit = <<Audit2(90, ok), Audit2(110, ~ok)>>
        PROVE  j.audit \in Seq(AuditOf(Nat))
    <3>1. ASSUME NEW n \in Nat, NEW done \in BOOLEAN PROVE Audit2(n, done) \in AuditOf(Nat)
      BY DEF Audit2, AuditOf
    <3>2. Audit2(90, ok) \in AuditOf(Nat)
      BY <3>1
    <3>3. Audit2(110, ~ok) \in AuditOf(Nat)
      <4> DEFINE done == ~ok
      <4>1. done \in BOOLEAN
        OBVIOUS
      <4>2. 110 \in Nat
        OBVIOUS
      <4> HIDE DEF done
      <4>3. Audit2(110, done) \in AuditOf(Nat)
        BY <3>1, <4>1, <4>2
      <4> QED BY <4>3 DEF done
    <3> QED BY <2>2, <3>2, <3>3
  <2> QED BY <1>1, <2>1, <2>2
<1>7. j.grants \in Seq(GrantsOf(Nat))
  <2> DEFINE ps == <<Pair(121, 122), Pair(123, 124)>>
  <2>1. ps \in Seq(PairsOf(Nat)) /\ <<>> \in Seq(PairsOf(Nat))
    <3>1. Pair(121, 122) \in PairsOf(Nat) /\ Pair(123, 124) \in PairsOf(Nat)
      BY <1>3
    <3> QED BY <3>1
  <2>2. j.grants \in {<<>>, <<[ns |-> 120, subs |-> ps], [ns |-> 125, subs |-> <<>>]>>}
    BY <1>1
  <2> HIDE DEF ps
  <2> DEFINE g1 == [ns |-> 120, subs |-> ps]
             g2 == [ns |-> 125, subs |-> <<>>]
  <2>3. g1 \in GrantsOf(Nat) /\ g2 \in GrantsOf(Nat)
    BY <2>1 DEF GrantsOf
  <2>4. j.grants \in {<<>>, <<g1, g2>>}
    BY <2>2
  <2> HIDE DEF g1, g2
  <2>5. <<>> \in Seq(GrantsOf(Nat)) /\ <<g1, g2>> \in Seq(GrantsOf(Nat))
    BY <2>3, FewAreSeq
  <2> QED BY <2>4, <2>5
<1>8. j.usage \in Seq(UsageOf(Nat))
  <2> DEFINE u == [ns |-> 130, keys |-> 131, bytes |-> 132]
  <2>1. u \in UsageOf(Nat) /\ j.usage \in {<<>>, <<u>>}
    BY <1>1 DEF UsageOf
  <2> HIDE DEF u
  <2>2. <<>> \in Seq(UsageOf(Nat)) /\ <<u>> \in Seq(UsageOf(Nat))
    BY <2>1, FewAreSeq
  <2> QED BY <2>1, <2>2
<1>9. DOMAIN j \ {"part"} =
        {"magic", "format", "created_at", "namespaces", "entries", "audit", "grants", "usage"}
  BY <1>1
<1>10. j.magic \in Nat /\ j.format \in Nat /\ j.created_at \in Nat
  BY <1>1
<1>11. Blob(j) =
         [f \in {"magic", "format", "created_at", "namespaces", "entries", "audit", "grants", "usage"} |-> j[f]]
  BY <1>9 DEF Blob
<1> QED BY <1>2, <1>5, <1>6, <1>7, <1>8, <1>10, <1>11 DEF SnapshotsOf

(* A snapshot that is written as a binary file is read back as it was, and *)
(* a part of the file or of its body is refused as a whole.                *)
THEOREM SnapshotsDecode == AllSpec => []DecodeAllOrNothing
<1>1. ASSUME CodecJobsStay, [AllNext]_allVars PROVE CodecJobsStay'
  BY <1>1 DEF CodecJobsStay, AllNext, allVars
<1>2. CodecJobsStay => DecodeAllOrNothing
  BY JobIsSnapshot, AnySnapshotAllOrNothing DEF CodecJobsStay, DecodeAllOrNothing
<1> QED BY <1>1, <1>2, CodecJobsAtFirst, PTL DEF AllSpec
=============================================================================
