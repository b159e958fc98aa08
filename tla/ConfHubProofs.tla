--------------------------- MODULE ConfHubProofs ---------------------------
(***************************************************************************)
(* Theorems about the store of the hub, for every number of namespaces,    *)
(* keys, clients and versions, every rule and signature, with and without  *)
(* a persist path.  Snapshots may be imported, the hub's own and those of  *)
(* Foreign; a theorem says what it asks of them, as an import looks at     *)
(* little.  The lemmas come first: what publishing a version and rolling   *)
(* back do to an entry, for chains of every length, and what a sum is, so  *)
(* that the bytes of an entry can be reasoned about.                       *)
(***************************************************************************)
EXTENDS ConfHub, InductionProofs

(* An entry that the store may hold: none, or one that ValidateChain       *)
(* accepts.                                                                *)
Sound(e) == e \in Chain /\ (e = Absent \/ ValidateChain(e))

(* Its stable pointer is where the hub itself puts it.                     *)
Pointed(e) == Exists(e) => Pointers(e)

(* lastStableAtOrBefore finds the newest version at or before rev that     *)
(* everybody may read, and answers 0 only when there is none.              *)
LEMMA LastStableFound ==
  ASSUME NEW e, NEW rev \in Nat
  PROVE  /\ LastStableAtOrBefore(e, rev) \in {0} \cup FullUpTo(e, rev)
         /\ \A j \in FullUpTo(e, rev) : j <= LastStableAtOrBefore(e, rev)
<1>1. FullUpTo(e, rev) \subseteq 1..rev
  BY DEF FullUpTo
<1>2. CASE FullUpTo(e, rev) = {}
  BY <1>2 DEF LastStableAtOrBefore
<1>3. CASE FullUpTo(e, rev) # {}
  <2>1. \E i \in FullUpTo(e, rev) : \A j \in FullUpTo(e, rev) : j <= i
    BY <1>1, <1>3, GreatestBelow
  <2> QED BY <1>3, <2>1 DEF LastStableAtOrBefore
<1> QED BY <1>2, <1>3

(* A version that carries the next revision keeps an entry sound, and      *)
(* makes one of none.                                                      *)
LEMMA AppendKeepsSound ==
  ASSUME NEW e, Sound(e), NEW v \in Version, v.rev = NextRev(e)
  PROVE  /\ Sound(AppendVersion(e, v))
         /\ Exists(AppendVersion(e, v))
         /\ Len(AppendVersion(e, v).versions) = Len(e.versions) + 1
         /\ \A i \in 1..Len(e.versions) : AppendVersion(e, v).versions[i] = e.versions[i]
<1> DEFINE f == AppendVersion(e, v)
           n == Len(e.versions)
<1>1. e \in Chain /\ e.versions \in Seq(Version) /\ n \in Nat /\ e.stable \in Nat /\ v.rev \in Nat
  BY DEF Sound, Chain, Version
<1>2. v.rev = n + 1
  BY <1>1 DEF Sound, NextRev, Exists, ValidateChain, Absent
<1>3. /\ f.versions = Append(e.versions, v)
      /\ f.head = v.rev
      /\ f.stable = IF Full(v.rule) THEN v.rev ELSE e.stable
  BY DEF AppendVersion
<1>4. f \in Chain
  BY <1>1 DEF AppendVersion, Chain
<1>5. /\ Len(f.versions) = n + 1
      /\ \A i \in 1..n : f.versions[i] = e.versions[i]
      /\ f.versions[n + 1] = v
  BY <1>1, <1>3
<1>6. e.stable \in 0..n /\ (\A i \in 1..n : e.versions[i].rev = i)
  BY <1>1 DEF Sound, ValidateChain, Absent
<1> HIDE DEF f, n
<1>8. ValidateChain(f)
  <2>1. Exists(f)
    BY <1>1, <1>5 DEF Exists
  <2>2. \A i \in 1..Len(f.versions) : f.versions[i].rev = i
    BY <1>1, <1>2, <1>5, <1>6
  <2>3. f.head \in 1..Len(f.versions) /\ f.stable \in 0..Len(f.versions)
    BY <1>1, <1>2, <1>3, <1>5, <1>6
  <2> QED BY <2>1, <2>2, <2>3 DEF ValidateChain
<1>9. Exists(f)
  BY <1>8 DEF ValidateChain
<1> QED BY <1>4, <1>5, <1>8, <1>9 DEF Sound, f, n

(* It also leaves the stable pointer where it belongs.                     *)
LEMMA AppendKeepsPointed ==
  ASSUME NEW e, Sound(e), Pointed(e), NEW v \in Version, v.rev = NextRev(e)
  PROVE  Pointed(AppendVersion(e, v))
<1> DEFINE f == AppendVersion(e, v)
           n == Len(e.versions)
<1>1. e \in Chain /\ e.versions \in Seq(Version) /\ n \in Nat /\ e.stable \in Nat
  BY DEF Sound, Chain
<1>2. v.rev = n + 1 /\ e.stable \in 0..n
  BY <1>1 DEF Sound, NextRev, Exists, ValidateChain, Absent
<1>3. e.stable # 0 => Full(e.versions[e.stable].rule)
  BY <1>1 DEF Sound, Pointed, ValidateChain, Pointers, Absent
<1>4. /\ f.versions = Append(e.versions, v)
      /\ f.head = v.rev
      /\ f.stable = IF Full(v.rule) THEN v.rev ELSE e.stable
  BY DEF AppendVersion
<1>5. /\ \A i \in 1..n : f.versions[i] = e.versions[i]
      /\ f.versions[n + 1] = v
  BY <1>1, <1>4
<1> HIDE DEF f, n
<1>6. Pointers(f)
  <2>1. f.head = n + 1 /\ f.versions[f.head] = v
    BY <1>2, <1>4, <1>5
  <2>2. CASE Full(v.rule)
    <3>1. f.stable = f.head /\ f.head \in Nat
      BY <2>1, <2>2, <1>1, <1>2, <1>4
    <3> QED BY <2>1, <2>2, <3>1 DEF Pointers
  <2>3. CASE ~Full(v.rule)
    <3>1. f.stable = e.stable /\ e.stable < f.head
      BY <2>1, <2>3, <1>1, <1>2, <1>4
    <3>2. f.stable # 0 => f.versions[f.stable] = e.versions[e.stable]
      BY <3>1, <1>1, <1>2, <1>5
    <3> QED BY <2>1, <2>3, <3>1, <3>2, <1>1, <1>3 DEF Pointers
  <2> QED BY <2>2, <2>3
<1> QED BY <1>6 DEF Pointed, f

(* A rollback to a revision the chain has keeps the entry sound and its    *)
(* versions as they are; it puts the stable pointer where it belongs,      *)
(* wherever it was.                                                        *)
LEMMA RollbackKeepsSound ==
  ASSUME NEW e, Sound(e), NEW rev, HasRev(e, rev)
  PROVE  /\ Sound(RollbackHead(e, rev))
         /\ Pointed(RollbackHead(e, rev))
         /\ RollbackHead(e, rev).versions = e.versions
         /\ RollbackHead(e, rev).head = rev
<1> DEFINE f == RollbackHead(e, rev)
           s == LastStableAtOrBefore(e, rev)
           n == Len(e.versions)
<1>1. e \in Chain /\ e.versions \in Seq(Version) /\ n \in Nat
  BY DEF Sound, Chain
<1>2. rev \in 1..n /\ rev \in Nat
  BY <1>1 DEF HasRev
<1>3. /\ f.versions = e.versions
      /\ f.head = rev
      /\ f.stable = IF Full(e.versions[rev].rule) THEN rev ELSE s
  BY <1>1 DEF RollbackHead, Chain
<1>4. s \in {0} \cup FullUpTo(e, rev)
  BY <1>2, LastStableFound
<1>5. s \in 0..rev /\ (s # 0 => Full(e.versions[s].rule))
  BY <1>2, <1>4 DEF FullUpTo
<1>6. f \in Chain
  BY <1>1, <1>2, <1>3, <1>5 DEF RollbackHead, Chain
<1>7. e # Absent /\ ValidateChain(e)
  BY <1>1, <1>2 DEF Sound, Absent
<1> HIDE DEF f, s, n
<1>8. ValidateChain(f)
  BY <1>1, <1>2, <1>3, <1>5, <1>7 DEF ValidateChain, Exists, n
<1>9. Pointers(f)
  BY <1>1, <1>2, <1>3, <1>5 DEF Pointers
<1> QED BY <1>3, <1>6, <1>8, <1>9 DEF Sound, Pointed, f

(* A client that the head's rule leaves out, and that is not told that     *)
(* there is nothing for it, reads an older version that is for everybody.  *)
LEMMA MissReadsStable ==
  ASSUME NEW e, Sound(e), Pointed(e), Exists(e), NEW c,
         ~Eval(e.versions[e.head].rule, c), Select(e, c) # 0
  PROVE  /\ HasRev(e, Select(e, c))
         /\ Select(e, c) < e.head
         /\ Full(e.versions[Select(e, c)].rule)
<1> DEFINE n == Len(e.versions)
<1>1. /\ e.versions \in Seq(Version) /\ n \in Nat
      /\ ValidateChain(e) /\ Pointers(e)
  BY DEF Sound, Pointed, Chain, Exists, Absent
<1>2. /\ e.head \in 1..n /\ e.stable \in 0..n
      /\ \A i \in 1..n : e.versions[i].rev = i
  BY <1>1 DEF ValidateChain
<1>3. ~Full(e.versions[e.head].rule)
  BY DEF Eval
<1>4. Select(e, c) = e.stable /\ e.stable # e.head
  BY <1>1, <1>2, <1>3 DEF Select, HasRev, Pointers
<1>5. e.stable \in 1..n /\ HasRev(e, e.stable)
  BY <1>1, <1>2, <1>4 DEF HasRev
<1> QED BY <1>1, <1>2, <1>4, <1>5 DEF Pointers

(* What Normalize returns is a rule, over the same names.                  *)
LEMMA NormalizeType ==
  ASSUME NEW g \in Rule
  PROVE  Normalize(g) \subseteq Rule
<1>1. g.percent \in Int /\ g.allow \subseteq Ids /\ g.tags \in TagMap
  BY DEF Rule
<1>2. {TrimId[i] : i \in g.allow} \ {Blank} \subseteq Ids
  BY <1>1, IdsAssumption
<1>3. TrimmedTags(g.tags) \subseteq TagMap
  <2> DEFINE names == {TrimKey[k] : k \in DOMAIN g.tags}
  <2>1. DOMAIN g.tags \subseteq TagKeys
    BY <1>1 DEF TagMap
  <2>2. names \in SUBSET TagKeys
    BY <2>1, TagsAssumption
  <2>3. TrimmedTags(g.tags) \subseteq [names -> TagVals]
    BY DEF TrimmedTags
  <2> HIDE DEF names
  <2>4. [names -> TagVals] \subseteq TagMap
    BY <2>2 DEF TagMap
  <2> QED BY <2>3, <2>4
<1> QED BY <1>1, <1>2, <1>3 DEF Normalize, Rule

-----------------------------------------------------------------------------
(* Sums.                                                                   *)

OneOf(s) == CHOOSE x \in s : TRUE

(* g adds up f over each set of indices in S.                              *)
AddsUp(g, f, S) ==
  g = [s \in SUBSET S |-> IF s = {} THEN 0 ELSE f[OneOf(s)] + g[s \ {OneOf(s)}]]

LEMMA AddsUpExists ==
  ASSUME NEW S, IsFiniteSet(S), NEW f
  PROVE  \E g : AddsUp(g, f, S)
<1> DEFINE At(g, s) == g[s] = IF s = {} THEN 0 ELSE f[OneOf(s)] + g[s \ {OneOf(s)}]
           NextOf(g) == [s \in SUBSET S |-> IF s = {} THEN 0 ELSE f[OneOf(s)] + g[s \ {OneOf(s)}]]
           Upto(n) == \E g : g = [s \in SUBSET S |-> g[s]] /\ \A s \in SUBSET S : Cardinality(s) <= n => At(g, s)
           N == {n \in Nat : Upto(n)}
<1>1. \A s \in SUBSET S : IsFiniteSet(s) /\ Cardinality(s) \in Nat
  BY FS_Subset, FS_CardinalityType
<1>2. \A s \in SUBSET S : s # {} => /\ OneOf(s) \in s /\ s \ {OneOf(s)} \in SUBSET S
                                    /\ Cardinality(s \ {OneOf(s)}) = Cardinality(s) - 1
  <2> SUFFICES ASSUME NEW s \in SUBSET S, s # {}
               PROVE  /\ OneOf(s) \in s /\ s \ {OneOf(s)} \in SUBSET S
                      /\ Cardinality(s \ {OneOf(s)}) = Cardinality(s) - 1
    OBVIOUS
  <2>1. OneOf(s) \in s
    BY DEF OneOf
  <2> QED BY <1>1, <2>1, FS_RemoveElement
<1>3. 0 \in N
  <2> DEFINE g == [s \in SUBSET S |-> 0]
  <2>1. ASSUME NEW s \in SUBSET S, Cardinality(s) <= 0 PROVE At(g, s)
    <3>1. s = {}
      BY <1>1, <2>1, FS_EmptySet
    <3> QED BY <3>1
  <2>2. g = [s \in SUBSET S |-> g[s]]
    OBVIOUS
  <2>3. Upto(0)
    BY <2>1, <2>2
  <2> QED BY <2>3
<1>4. ASSUME NEW n \in Nat, n \in N PROVE n + 1 \in N
  <2>1. PICK g : g = [s \in SUBSET S |-> g[s]] /\ \A s \in SUBSET S : Cardinality(s) <= n => At(g, s)
    BY <1>4
  <2> DEFINE h == NextOf(g)
  <2>2. \A s \in SUBSET S : h[s] = IF s = {} THEN 0 ELSE f[OneOf(s)] + g[s \ {OneOf(s)}]
    OBVIOUS
  <2>3. h = [s \in SUBSET S |-> h[s]]
    OBVIOUS
  <2> HIDE DEF h
  <2>4. ASSUME NEW s \in SUBSET S, Cardinality(s) <= n + 1 PROVE At(h, s)
    <3>1. CASE s = {}
      BY <2>2, <3>1
    <3>2. CASE s # {}
      <4> DEFINE r == s \ {OneOf(s)}
      <4>1. r \in SUBSET S /\ Cardinality(r) <= n
        BY <1>1, <1>2, <2>4, <3>2
      <4>2. g[r] = IF r = {} THEN 0 ELSE f[OneOf(r)] + g[r \ {OneOf(r)}]
        BY <2>1, <4>1
      <4>3. h[r] = g[r]
        BY <2>2, <4>1, <4>2
      <4> QED BY <2>2, <3>2, <4>3
    <3> QED BY <3>1, <3>2
  <2>5. Upto(n + 1)
    BY <2>3, <2>4
  <2> HIDE DEF Upto
  <2> QED BY <2>5
<1>5. Upto(Cardinality(S))
  <2>1. \A n \in Nat : n \in N
    <3> HIDE DEF N
    <3> QED BY <1>3, <1>4, NumberInduction
  <2>2. Cardinality(S) \in Nat
    BY <1>1
  <2> QED BY <2>1, <2>2
<1>6. \A s \in SUBSET S : Cardinality(s) <= Cardinality(S)
  BY FS_Subset
<1>7. PICK g : g = [s \in SUBSET S |-> g[s]] /\ \A s \in SUBSET S : At(g, s)
  BY <1>5, <1>6
<1>8. AddsUp(g, f, S)
  BY <1>7 DEF AddsUp
<1> QED BY <1>8

LEMMA SumIs ==
  ASSUME NEW f, IsFiniteSet(DOMAIN f)
  PROVE  \E g : AddsUp(g, f, DOMAIN f) /\ SumFunction(f) = g[DOMAIN f]
<1>1. SumFunction(f) = (CHOOSE g : AddsUp(g, f, DOMAIN f))[DOMAIN f]
  BY DEF SumFunction, SumFunctionOnSet, FoldFunctionOnSet, MapThenFoldSet, AddsUp, OneOf
<1>2. \E g : AddsUp(g, f, DOMAIN f)
  BY AddsUpExists
<1>3. AddsUp(CHOOSE g : AddsUp(g, f, DOMAIN f), f, DOMAIN f)
  BY <1>2
<1> QED BY <1>1, <1>3

(* What is added up over a set does not depend on what else there is.      *)
LEMMA SumsAgree ==
  ASSUME NEW S, NEW T, NEW f, NEW h, NEW g, NEW k, AddsUp(g, f, S), AddsUp(k, h, T),
         NEW W \in SUBSET S, W \subseteq T, IsFiniteSet(W), \A x \in W : f[x] = h[x]
  PROVE  g[W] = k[W]
<1> DEFINE G == {U \in SUBSET W : g[U] = k[U]}
<1>1. ASSUME NEW U \in SUBSET W, \A x \in U : U \ {x} \in G
      PROVE  U \in G
  <2>1. /\ g[U] = IF U = {} THEN 0 ELSE f[OneOf(U)] + g[U \ {OneOf(U)}]
        /\ k[U] = IF U = {} THEN 0 ELSE h[OneOf(U)] + k[U \ {OneOf(U)}]
    BY DEF AddsUp
  <2>2. U # {} => OneOf(U) \in U
    BY DEF OneOf
  <2> QED BY <1>1, <2>1, <2>2
<1>2. \A U \in SUBSET W : U \in G
  <2> HIDE DEF G
  <2> QED BY <1>1, SubsetInduction
<1> QED BY <1>2

(* Sums of natural numbers are natural numbers, and 0 if all of them are.  *)
LEMMA SumsNatural ==
  ASSUME NEW S, IsFiniteSet(S), NEW f, \A x \in S : f[x] \in Nat, NEW g, AddsUp(g, f, S)
  PROVE  \A U \in SUBSET S : g[U] \in Nat /\ ((\A x \in U : f[x] = 0) => g[U] = 0)
<1> DEFINE G == {U \in SUBSET S : g[U] \in Nat /\ ((\A x \in U : f[x] = 0) => g[U] = 0)}
<1>1. ASSUME NEW U \in SUBSET S, \A x \in U : U \ {x} \in G
      PROVE  U \in G
  <2>1. g[U] = IF U = {} THEN 0 ELSE f[OneOf(U)] + g[U \ {OneOf(U)}]
    BY DEF AddsUp
  <2>2. U # {} => OneOf(U) \in U
    BY DEF OneOf
  <2> QED BY <1>1, <2>1, <2>2
<1>2. \A U \in SUBSET S : U \in G
  <2> HIDE DEF G
  <2> QED BY <1>1, SubsetInduction
<1> QED BY <1>2

(* The order of addition does not matter: any element may be the first.    *)
LEMMA SumsReorder ==
  ASSUME NEW S, IsFiniteSet(S), NEW f, \A x \in S : f[x] \in Nat, NEW g, AddsUp(g, f, S)
  PROVE  \A U \in SUBSET S : \A x \in U : g[U] = f[x] + g[U \ {x}]
<1> DEFINE G == {U \in SUBSET S : \A x \in U : g[U] = f[x] + g[U \ {x}]}
<1>1. ASSUME NEW U \in SUBSET S, \A x \in U : U \ {x} \in G
      PROVE  U \in G
  <2> SUFFICES ASSUME NEW x \in U PROVE g[U] = f[x] + g[U \ {x}]
    OBVIOUS
  <2> DEFINE p == OneOf(U)
  <2>1. p \in U
    BY DEF OneOf
  <2>2. g[U] = f[p] + g[U \ {p}]
    BY DEF AddsUp
  <2> HIDE DEF p
  <2>3. CASE p # x
    <3>1. x \in U \ {p} /\ p \in U \ {x} /\ (U \ {p}) \ {x} = (U \ {x}) \ {p}
      BY <2>1, <2>3
    <3>2. g[U \ {p}] = f[x] + g[(U \ {p}) \ {x}] /\ g[U \ {x}] = f[p] + g[(U \ {x}) \ {p}]
      BY <1>1, <2>1, <3>1
    <3>3. f[x] \in Nat /\ f[p] \in Nat /\ g[(U \ {p}) \ {x}] \in Nat
      BY <2>1, SumsNatural
    <3>4. PICK r \in Nat : r = g[(U \ {p}) \ {x}] /\ r = g[(U \ {x}) \ {p}]
      BY <3>1, <3>3
    <3>5. g[U] = f[p] + (f[x] + r) /\ g[U \ {x}] = f[p] + r
      BY <2>2, <3>2, <3>4
    <3> QED BY <3>3, <3>5
  <2> QED BY <2>2, <2>3
<1>2. \A U \in SUBSET S : U \in G
  <2> HIDE DEF G
  <2> QED BY <1>1, SubsetInduction
<1> QED BY <1>2

(* What SumFunction returns, as far as it is used: sums of numbers.        *)
LEMMA SumType ==
  ASSUME NEW f, IsFiniteSet(DOMAIN f), \A x \in DOMAIN f : f[x] \in Nat
  PROVE  SumFunction(f) \in Nat /\ ((\A x \in DOMAIN f : f[x] = 0) => SumFunction(f) = 0)
BY SumIs, SumsNatural

LEMMA SumWithout ==
  ASSUME NEW f, IsFiniteSet(DOMAIN f), \A x \in DOMAIN f : f[x] \in Nat,
         NEW p \in DOMAIN f, NEW h, DOMAIN h = DOMAIN f \ {p}, \A x \in DOMAIN h : h[x] = f[x]
  PROVE  SumFunction(f) = f[p] + SumFunction(h)
<1>1. IsFiniteSet(DOMAIN h)
  BY FS_Subset
<1>2. PICK g : AddsUp(g, f, DOMAIN f) /\ SumFunction(f) = g[DOMAIN f]
  BY SumIs
<1>3. PICK k : AddsUp(k, h, DOMAIN h) /\ SumFunction(h) = k[DOMAIN h]
  BY <1>1, SumIs
<1>4. g[DOMAIN f] = f[p] + g[DOMAIN h]
  BY <1>2, SumsReorder
<1>5. g[DOMAIN h] = k[DOMAIN h]
  BY <1>1, <1>2, <1>3, SumsAgree
<1> QED BY <1>2, <1>3, <1>4, <1>5

-----------------------------------------------------------------------------
(* Bytes.                                                                  *)

LEMMA BytesOfType ==
  ASSUME NEW e \in Chain
  PROVE  BytesOf(e) \in Nat /\ (~Exists(e) => BytesOf(e) = 0)
<1> DEFINE n == Len(e.versions)
           f == [i \in 1..n |-> e.versions[i].size]
<1>1. e.versions \in Seq(Version) /\ n \in Nat
  BY DEF Chain
<1>2. DOMAIN f = 1..n /\ IsFiniteSet(1..n)
  <2>1. IsFiniteSet(1..n)
    BY <1>1, FS_Interval
  <2> QED BY <2>1
<1>3. \A i \in 1..n : f[i] \in Nat
  <2> SUFFICES ASSUME NEW i \in 1..n PROVE f[i] \in Nat
    OBVIOUS
  <2>1. e.versions[i] \in Version
    BY <1>1
  <2> QED BY <2>1 DEF Version
<1>4. ~Exists(e) => DOMAIN f = {}
  <2>1. ~Exists(e) => n = 0
    BY <1>1 DEF Exists
  <2> QED BY <2>1
<1>5. BytesOf(e) = SumFunction(f)
  BY DEF BytesOf
<1> HIDE DEF f, n
<1>6. SumFunction(f) \in Nat /\ (DOMAIN f = {} => SumFunction(f) = 0)
  BY <1>2, <1>3, SumType
<1> QED BY <1>4, <1>5, <1>6

(* A new version costs its size, whatever is there.                        *)
LEMMA AppendBytes ==
  ASSUME NEW e \in Chain, NEW v \in Version
  PROVE  BytesOf(AppendVersion(e, v)) = BytesOf(e) + v.size
<1> DEFINE n == Len(e.versions)
           a == AppendVersion(e, v).versions
           h == [i \in 1..n |-> e.versions[i].size]
           f == [i \in 1..Len(a) |-> a[i].size]
<1>1. e.versions \in Seq(Version) /\ n \in Nat
  BY DEF Chain
<1>2. a = Append(e.versions, v)
  BY DEF AppendVersion
<1>3. Len(a) = n + 1 /\ a[n + 1] = v /\ \A i \in 1..n : a[i] = e.versions[i]
  BY <1>1, <1>2
<1>4. BytesOf(e) = SumFunction(h) /\ BytesOf(AppendVersion(e, v)) = SumFunction(f)
  BY DEF BytesOf
<1>5. /\ DOMAIN f = 1..n + 1 /\ f[n + 1] = v.size
      /\ DOMAIN h = 1..n /\ \A i \in 1..n : f[i] = e.versions[i].size /\ h[i] = e.versions[i].size
  <2> HIDE DEF a
  <2>1. DOMAIN f = 1..n + 1 /\ \A i \in 1..n + 1 : f[i] = a[i].size
    BY <1>3
  <2>2. n + 1 \in 1..n + 1 /\ 1..n \subseteq 1..n + 1
    BY <1>1
  <2> QED BY <1>3, <2>1, <2>2
<1>6. v.size \in Nat /\ \A i \in 1..n : e.versions[i].size \in Nat
  <2>1. \A i \in 1..n : e.versions[i] \in Version
    BY <1>1
  <2> QED BY <2>1 DEF Version
<1> HIDE DEF f, h, a, n
<1>7. IsFiniteSet(1..n + 1) /\ IsFiniteSet(1..n)
  <2>1. 1 \in Int /\ n \in Int /\ n + 1 \in Int
    BY <1>1
  <2> QED BY <2>1, FS_Interval
<1>8. n + 1 \in DOMAIN f /\ DOMAIN h = DOMAIN f \ {n + 1} /\ \A i \in DOMAIN f : f[i] \in Nat
  <2>1. 1..n = (1..n + 1) \ {n + 1} /\ n + 1 \in 1..n + 1
    BY <1>1
  <2> QED BY <1>5, <1>6, <2>1
<1>9. SumFunction(f) = f[n + 1] + SumFunction(h)
  <2>1. IsFiniteSet(DOMAIN f) /\ \A i \in DOMAIN h : h[i] = f[i]
    BY <1>5, <1>7
  <2> QED BY <1>8, <2>1, SumWithout
<1>10. SumFunction(h) \in Nat
  BY <1>5, <1>6, <1>7, SumType
<1> QED BY <1>4, <1>5, <1>6, <1>9, <1>10

-----------------------------------------------------------------------------
(* An operation other than an import, with any arguments of the right      *)
(* types: those of Next are some of them.                                  *)
Subject == Actors \cup {NoActor}

Request == [actor : Subject, size : Nat, rule : Rule, sig : Signature, bind : Nat]

Operation ==
  \/ \E n \in Namespaces, owner \in Actors, l \in [maxKeys : Int, maxBytes : Int] : CreateNS(n, owner, l)
  \/ \E n \in Namespaces, actor \in Subject : DeleteNS(n, actor)
  \/ \E n \in Namespaces, a \in Actors, r \in 0..3, actor \in Subject : Grant(n, a, r, actor)
  \/ \E t \in Topics, p \in Request : Put(t, p)
  \/ \E t \in Topics, rev \in Nat, actor \in Subject : Rollback(t, rev, actor)
  \/ \E t \in Topics, actor \in Subject : DeleteKey(t, actor)
  \/ Export \/ SnapshotClosed \/ Close \/ UNCHANGED vars

LEMMA PutInputsTyped == PutInputs \subseteq Request
BY InputsAssumption DEF PutInputs, Request, Subject

LEMMA StepIsOperation ==
  ASSUME [Next]_vars
  PROVE  Operation \/ \E b \in {blob} \cup Foreign, form \in Forms : ImportOpen(b, form)
<1>1. /\ Owners \subseteq Actors /\ Limits \subseteq [maxKeys : Int, maxBytes : Int]
      /\ Callers \subseteq Subject /\ Subjects \subseteq Actors /\ GrantRoles \subseteq 0..3
      /\ 0..MaxRev \subseteq Nat
  BY InputsAssumption DEF Subject
<1>2. ASSUME NEW n \in Namespaces, NEW owner \in Owners, NEW l \in Limits, CreateNS(n, owner, l)
      PROVE  Operation
  BY <1>1, <1>2 DEF Operation
<1>3. ASSUME NEW n \in Namespaces, NEW actor \in Callers, DeleteNS(n, actor)
      PROVE  Operation
  BY <1>1, <1>3 DEF Operation
<1>4. ASSUME NEW n \in Namespaces, NEW a \in Subjects, NEW r \in GrantRoles, NEW actor \in Callers,
             Grant(n, a, r, actor)
      PROVE  Operation
  BY <1>1, <1>4 DEF Operation
<1>5. ASSUME NEW t \in Topics, NEW p \in PutInputs, Put(t, p)
      PROVE  Operation
  BY <1>5, PutInputsTyped DEF Operation
<1>6. ASSUME NEW t \in Topics, NEW rev \in 0..MaxRev, NEW actor \in Callers, Rollback(t, rev, actor)
      PROVE  Operation
  BY <1>1, <1>6 DEF Operation
<1>7. ASSUME NEW t \in Topics, NEW actor \in Callers, DeleteKey(t, actor)
      PROVE  Operation
  BY <1>1, <1>7 DEF Operation
<1>8. ASSUME Export \/ SnapshotClosed \/ Close \/ UNCHANGED vars
      PROVE  Operation
  BY <1>8 DEF Operation
<1>9. CASE Next
  BY <1>9, <1>2, <1>3, <1>4, <1>5, <1>6, <1>7, <1>8 DEF Next
<1> QED BY <1>8, <1>9

(* The four ways in which a step changes the store.                        *)
PublishedTo(t, v) ==
  /\ v \in Version /\ v.rev = NextRev(store[t])
  /\ RequireSign => v.sig.kind = "good"
  /\ v.sig.kind = "good" => v.sig.rev \in {0, v.rev}
  /\ store' = [store EXCEPT ![t] = AppendVersion(store[t], v)]

RolledBackTo(t, rev) ==
  /\ Exists(store[t]) /\ HasRev(store[t], rev)
  /\ store' = [store EXCEPT ![t] = RollbackHead(store[t], rev)]

Removed(T) == store' = [t \in Topics |-> IF t \in T THEN Absent ELSE store[t]]

Imported ==
  \E b \in {blob} \cup Foreign : ~Refused(b) /\ store' = b.store /\ out'.op = "import"

StoreChange ==
  \/ store' = store
  \/ \E t \in Topics, v \in Version : PublishedTo(t, v)
  \/ \E t \in Topics, rev \in Nat : RolledBackTo(t, rev)
  \/ \E T \in SUBSET Topics : Removed(T)
  \/ Imported

(* What is saved is the store, and what is exported is the store.          *)
StoreCopied == (disk' = disk \/ disk' = store') /\ (blob' = blob \/ blob'.store = store)

(* A Put that is not refused publishes one version, with the rule that     *)
(* Normalize made and a signature that was verified, or with none when     *)
(* none is required.                                                       *)
LEMMA PutChange ==
  ASSUME store \in [Topics -> Chain], NEW t \in Topics, NEW p \in Request, Put(t, p),
         PutError(t, p) = "none"
  PROVE  \E v \in Version : PublishedTo(t, v) /\ v.size = p.size
<1>1. PICK r \in Normalize(p.rule) :
        store' = [store EXCEPT ![t] = AppendVersion(store[t],
                    [rev |-> NextRev(store[t]), size |-> p.size, sig |-> p.sig, rule |-> r])]
  BY DEF Put
<1> DEFINE v == [rev |-> NextRev(store[t]), size |-> p.size, sig |-> p.sig, rule |-> r]
<1>2. p.size \in Nat /\ p.rule \in Rule /\ p.sig \in Signature /\ p.bind \in Nat
  BY DEF Request
<1>3. NextRev(store[t]) \in Nat
  <2>1. store[t].versions \in Seq(Version)
    BY DEF Chain
  <2>2. CASE Exists(store[t])
    <3>1. store[t].versions[Len(store[t].versions)] \in Version
      BY <2>1, <2>2 DEF Exists
    <3> QED BY <2>2, <3>1 DEF NextRev, Version
  <2>3. CASE ~Exists(store[t])
    BY <2>3 DEF NextRev
  <2> QED BY <2>2, <2>3
<1>4. r \in Rule
  BY <1>2, NormalizeType
<1>5. v \in Version
  BY <1>2, <1>3, <1>4 DEF Version
<1>6. /\ p.bind > 0 => p.bind = NextRev(store[t])
      /\ NeedSign(p) => HasSign(p) /\ Verify(p)
  BY DEF PutError, VerifyError, Conflict
<1>7. RequireSign => p.sig.kind = "good"
  BY <1>6 DEF NeedSign, Verify
<1>8. p.sig.kind = "good" => p.sig.rev \in {0, NextRev(store[t])}
  BY <1>2, <1>6 DEF NeedSign, Verify
<1> QED BY <1>1, <1>5, <1>7, <1>8 DEF PublishedTo

(* Every operation changes the store in one of those ways or not at all.   *)
LEMMA OperationChanges ==
  ASSUME store \in [Topics -> Chain], Operation
  PROVE  StoreChange /\ StoreCopied
<1>1. ASSUME NEW n, NEW owner, NEW l, CreateNS(n, owner, l)
      PROVE  StoreChange /\ StoreCopied
  BY <1>1 DEF CreateNS, Refuse, Save, StoreChange, StoreCopied
<1>2. ASSUME NEW n, NEW actor, DeleteNS(n, actor)
      PROVE  StoreChange /\ StoreCopied
  <2>1. CASE DeleteNSError(n, actor) # "none"
    BY <1>2, <2>1 DEF DeleteNS, Refuse, StoreChange, StoreCopied
  <2>2. CASE DeleteNSError(n, actor) = "none"
    <3>1. Removed({t \in Topics : t[1] = n})
      BY <1>2, <2>2 DEF DeleteNS, Removed
    <3> QED BY <1>2, <2>2, <3>1 DEF DeleteNS, Save, StoreChange, StoreCopied
  <2> QED BY <2>1, <2>2
<1>3. ASSUME NEW n, NEW a, NEW r, NEW actor, Grant(n, a, r, actor)
      PROVE  StoreChange /\ StoreCopied
  BY <1>3 DEF Grant, Refuse, StoreChange, StoreCopied
<1>4. ASSUME NEW t \in Topics, NEW p \in Request, Put(t, p)
      PROVE  StoreChange /\ StoreCopied
  <2>1. CASE PutError(t, p) # "none"
    BY <1>4, <2>1 DEF Put, Refuse, StoreChange, StoreCopied
  <2>2. CASE PutError(t, p) = "none"
    <3>1. StoreChange
      BY <1>4, <2>2, PutChange DEF StoreChange
    <3> QED BY <1>4, <2>2, <3>1 DEF Put, Save, StoreCopied
  <2> QED BY <2>1, <2>2
<1>5. ASSUME NEW t \in Topics, NEW rev \in Nat, NEW actor, Rollback(t, rev, actor)
      PROVE  StoreChange /\ StoreCopied
  <2>1. CASE RollbackError(t, rev, actor) # "none"
    BY <1>5, <2>1 DEF Rollback, Refuse, StoreChange, StoreCopied
  <2>2. CASE RollbackError(t, rev, actor) = "none"
    <3>1. RolledBackTo(t, rev)
      BY <1>5, <2>2 DEF Rollback, RollbackError, RolledBackTo
    <3> QED BY <1>5, <2>2, <3>1 DEF Rollback, Save, StoreChange, StoreCopied
  <2> QED BY <2>1, <2>2
<1>6. ASSUME NEW t \in Topics, NEW actor, DeleteKey(t, actor)
      PROVE  StoreChange /\ StoreCopied
  <2>1. CASE DeleteKeyError(t, actor) # "none"
    BY <1>6, <2>1 DEF DeleteKey, Refuse, StoreChange, StoreCopied
  <2>2. CASE DeleteKeyError(t, actor) = "none"
    <3>1. store' = [store EXCEPT ![t] = Absent]
      BY <1>6, <2>2 DEF DeleteKey
    <3>2. Removed({t})
      BY <3>1 DEF Removed
    <3> QED BY <1>6, <2>2, <3>2 DEF DeleteKey, Save, StoreChange, StoreCopied
  <2> QED BY <2>1, <2>2
<1>7. ASSUME Export PROVE StoreChange /\ StoreCopied
  BY <1>7 DEF Export, Built, StoreChange, StoreCopied
<1>8. ASSUME SnapshotClosed PROVE StoreChange /\ StoreCopied
  BY <1>8 DEF SnapshotClosed, Refuse, StoreChange, StoreCopied
<1>9. ASSUME Close \/ UNCHANGED vars PROVE StoreChange /\ StoreCopied
  BY <1>9 DEF Close, vars, StoreChange, StoreCopied
<1> QED BY <1>1, <1>2, <1>3, <1>4, <1>5, <1>6, <1>7, <1>8, <1>9 DEF Operation

(* So does every step; an import stores what it brought, if it passed.     *)
LEMMA StepChanges ==
  ASSUME store \in [Topics -> Chain], [Next]_vars
  PROVE  StoreChange /\ StoreCopied
<1>1. ASSUME NEW b \in {blob} \cup Foreign, NEW form, ImportOpen(b, form) PROVE StoreChange /\ StoreCopied
  <2>1. CASE Refused(b)
    BY <1>1, <2>1 DEF ImportOpen, Import, StoreChange, StoreCopied
  <2>2. CASE ~Refused(b)
    <3>1. /\ store' = b.store
          /\ out' = [op |-> "import", err |-> "none", audit |-> "ok", events |-> {}]
          /\ disk' = disk \/ disk' = store'
          /\ blob' = blob
      BY <1>1, <2>2 DEF ImportOpen, Import, ReplaceStore, Save, Done
    <3> QED BY <2>2, <3>1 DEF StoreChange, Imported, StoreCopied
  <2> QED BY <2>1, <2>2
<1> QED BY <1>1, StepIsOperation, OperationChanges

-----------------------------------------------------------------------------
(* The store, the saved copy and the exported copy hold sound entries,     *)
(* whatever snapshots there are: an import refuses the chains that         *)
(* ValidateChain does.                                                     *)

SoundStore(s) == s \in [Topics -> Chain] /\ \A t \in Topics : Sound(s[t])

StoreInv == SoundStore(store) /\ SoundStore(disk) /\ SoundStore(blob.store)

LEMMA AbsentSound == Absent \in Chain /\ Sound(Absent)
<1>1. <<>> \in Seq(Version)
  OBVIOUS
<1> QED BY <1>1 DEF Sound, Chain, Absent

LEMMA StoreInvInit == Init => StoreInv
BY AbsentSound DEF Init, EmptyBlob, StoreInv, SoundStore

LEMMA PassedIsSound ==
  ASSUME NEW b, b.store \in [Topics -> Chain], ~Refused(b)
  PROVE  SoundStore(b.store)
BY DEF Refused, SoundStore, Sound

LEMMA ForeignTyped ==
  ASSUME NEW b \in Foreign
  PROVE  /\ b.reg \in [Namespaces -> NSMeta \cup {NoNS}]
         /\ b.store \in [Topics -> Chain]
         /\ b.grants \in [Namespaces -> [Actors -> 0..3]]
         /\ b.usage \in [Namespaces -> Usage]
BY ForeignAssumption DEF Snapshot

LEMMA SoundStays ==
  ASSUME SoundStore(store), SoundStore(blob.store), StoreChange
  PROVE  SoundStore(store')
<1>1. CASE store' = store
  BY <1>1
<1>2. ASSUME NEW t \in Topics, NEW v \in Version, PublishedTo(t, v)
      PROVE  SoundStore(store')
  <2>1. Sound(AppendVersion(store[t], v))
    BY <1>2, AppendKeepsSound DEF PublishedTo, SoundStore
  <2> QED BY <1>2, <2>1 DEF PublishedTo, SoundStore, Sound
<1>3. ASSUME NEW t \in Topics, NEW rev \in Nat, RolledBackTo(t, rev)
      PROVE  SoundStore(store')
  <2>1. Sound(RollbackHead(store[t], rev))
    BY <1>3, RollbackKeepsSound DEF RolledBackTo, SoundStore
  <2> QED BY <1>3, <2>1 DEF RolledBackTo, SoundStore, Sound
<1>4. ASSUME NEW T \in SUBSET Topics, Removed(T)
      PROVE  SoundStore(store')
  BY <1>4, AbsentSound DEF Removed, SoundStore
<1>5. CASE Imported
  <2>1. PICK b \in {blob} \cup Foreign : ~Refused(b) /\ store' = b.store
    BY <1>5 DEF Imported
  <2>2. b.store \in [Topics -> Chain]
    BY <2>1, ForeignTyped DEF SoundStore
  <2> QED BY <2>1, <2>2, PassedIsSound
<1> QED BY <1>1, <1>2, <1>3, <1>4, <1>5 DEF StoreChange

LEMMA StoreInvStep == StoreInv /\ [Next]_vars => StoreInv'
<1> SUFFICES ASSUME StoreInv, [Next]_vars
             PROVE  StoreInv'
  OBVIOUS
<1>1. StoreChange /\ StoreCopied
  BY StepChanges DEF StoreInv, SoundStore
<1>2. SoundStore(store')
  BY <1>1, SoundStays DEF StoreInv
<1>3. SoundStore(disk')
  BY <1>1, <1>2 DEF StoreCopied, StoreInv
<1>4. SoundStore(blob'.store)
  BY <1>1 DEF StoreCopied, StoreInv
<1> QED BY <1>2, <1>3, <1>4 DEF StoreInv

(* Publishing, rolling back, deleting, and importing from anywhere, in any *)
(* order, keep what ValidateChain asks for in every entry, in the entries  *)
(* that were saved, and in the entries that were exported.                 *)
THEOREM StoreStaysSound == Spec => []StoreInv
BY StoreInvInit, StoreInvStep, PTL DEF Spec

(* The chains of the store are gapless and their pointers are in them      *)
(* (ValidateChain), whatever was published, rolled back and imported, and  *)
(* from wherever.                                                          *)
THEOREM ChainsStayValid == Spec => []ChainsValid
<1>1. StoreInv => ChainsValid
  BY DEF StoreInv, SoundStore, Sound, ChainsValid, WellFormed
<1> QED BY <1>1, StoreStaysSound, PTL

(* The stable pointers of s are where they belong.                         *)
PointedStore(s) == \A t \in Topics : Pointed(s[t])

(* What is asked of the snapshots from elsewhere that are not refused:     *)
(* ValidateChain only looks whether a stable pointer is in its chain.      *)
PointedSnapshots == \A b \in Foreign : Refused(b) \/ PointedStore(b.store)

PointedInv == StoreInv /\ PointedStore(store) /\ PointedStore(blob.store)

(* Publications put the stable pointer of an entry where it belongs if it  *)
(* was there before, rollbacks in any case (AppendVersion, RollbackHead).  *)
THEOREM PointersStay ==
  ASSUME PointedSnapshots
  PROVE  Spec => []PointedInv
<1>1. Pointed(Absent)
  BY DEF Pointed, Exists, Absent
<1>2. Init => PointedInv
  BY <1>1, StoreInvInit DEF Init, EmptyBlob, PointedInv, PointedStore
<1>3. ASSUME PointedInv, [Next]_vars PROVE PointedInv'
  <2>1. StoreChange /\ StoreCopied
    BY <1>3, StepChanges DEF PointedInv, StoreInv, SoundStore
  <2>2. store \in [Topics -> Chain] /\ \A t \in Topics : Sound(store[t]) /\ Pointed(store[t])
    BY <1>3 DEF PointedInv, PointedStore, StoreInv, SoundStore
  <2>3. ASSUME store' = store PROVE PointedStore(store')
    BY <2>2, <2>3 DEF PointedStore
  <2>4. ASSUME NEW t \in Topics, NEW v \in Version, PublishedTo(t, v)
        PROVE  PointedStore(store')
    <3>1. Pointed(AppendVersion(store[t], v))
      BY <2>2, <2>4, AppendKeepsPointed DEF PublishedTo
    <3> QED BY <2>2, <2>4, <3>1 DEF PublishedTo, PointedStore
  <2>5. ASSUME NEW t \in Topics, NEW rev \in Nat, RolledBackTo(t, rev)
        PROVE  PointedStore(store')
    <3>1. Pointed(RollbackHead(store[t], rev))
      BY <2>2, <2>5, RollbackKeepsSound DEF RolledBackTo
    <3> QED BY <2>2, <2>5, <3>1 DEF RolledBackTo, PointedStore
  <2>6. ASSUME NEW T \in SUBSET Topics, Removed(T) PROVE PointedStore(store')
    BY <1>1, <2>2, <2>6 DEF Removed, PointedStore
  <2>7. ASSUME Imported PROVE PointedStore(store')
    BY <1>3, <2>7, PointedSnapshots DEF Imported, PointedInv, PointedSnapshots
  <2>8. PointedStore(store')
    BY <2>1, <2>2, <2>3, <2>4, <2>5, <2>6, <2>7 DEF StoreChange
  <2>9. PointedStore(blob'.store)
    BY <1>3, <2>1 DEF StoreCopied, PointedInv
  <2> QED BY <1>3, <2>8, <2>9, StoreInvStep DEF PointedInv
<1> QED BY <1>2, <1>3, PTL DEF Spec

(* The stable pointer always names a version for everybody at or before    *)
(* the head (AppendVersion, RollbackHead, lastStableAtOrBefore), if it     *)
(* does in the snapshots that are imported from elsewhere.                 *)
THEOREM StablePointerStays ==
  ASSUME PointedSnapshots
  PROVE  Spec => []StablePointer
<1>1. PointedInv => StablePointer
  BY DEF PointedInv, PointedStore, Pointed, StablePointer
<1> QED BY <1>1, PointersStay, PTL

(* A client that the newest rule leaves out reads an older version that    *)
(* was published to everybody (gray.Select), under the same condition.     *)
THEOREM MissesReadStable ==
  ASSUME PointedSnapshots
  PROVE  Spec => []MissReadsFull
<1>1. PointedInv => MissReadsFull
  <2> SUFFICES ASSUME PointedInv, NEW t \in Topics, NEW c \in Client, Exists(store[t]),
                      ~Eval(store[t].versions[store[t].head].rule, c),
                      Select(store[t], c) # 0
               PROVE  /\ HasRev(store[t], Select(store[t], c))
                      /\ Select(store[t], c) < store[t].head
                      /\ Full(store[t].versions[Select(store[t], c)].rule)
    BY DEF MissReadsFull
  <2> QED BY MissReadsStable DEF PointedInv, PointedStore, StoreInv, SoundStore
<1> QED BY <1>1, PointersStay, PTL

(* A published version is never changed or lost while its key lives.       *)
THEOREM VersionsImmutable == Spec => HistoryImmutable
<1>1. StoreInv /\ [Next]_vars =>
        [\A t \in Topics :
           (Exists(store[t]) /\ Exists(store'[t]) /\ out'.op # "import") =>
             /\ Len(store[t].versions) <= Len(store'[t].versions)
             /\ \A i \in 1..Len(store[t].versions) :
                  store'[t].versions[i] = store[t].versions[i]]_vars
  <2> SUFFICES ASSUME StoreInv, [Next]_vars, NEW t \in Topics,
                      Exists(store[t]), Exists(store'[t]), out'.op # "import"
               PROVE  /\ Len(store[t].versions) <= Len(store'[t].versions)
                      /\ \A i \in 1..Len(store[t].versions) :
                           store'[t].versions[i] = store[t].versions[i]
    OBVIOUS
  <2>1. StoreChange
    BY StepChanges DEF StoreInv, SoundStore
  <2>2. Len(store[t].versions) \in Nat
    BY DEF StoreInv, SoundStore, Chain
  <2>3. CASE store'[t] = store[t]
    BY <2>2, <2>3
  <2>4. ASSUME NEW u \in Topics, NEW v \in Version, PublishedTo(u, v), u = t
        PROVE  /\ Len(store[t].versions) <= Len(store'[t].versions)
               /\ \A i \in 1..Len(store[t].versions) :
                    store'[t].versions[i] = store[t].versions[i]
    <3>1. store'[t] = AppendVersion(store[t], v)
      BY <2>4 DEF PublishedTo, StoreInv, SoundStore
    <3>2. v.rev = NextRev(store[t]) /\ Sound(store[t])
      BY <2>4 DEF PublishedTo, StoreInv, SoundStore
    <3> QED BY <2>2, <3>1, <3>2, AppendKeepsSound
  <2>5. ASSUME NEW u \in Topics, NEW rev \in Nat, RolledBackTo(u, rev), u = t
        PROVE  store'[t].versions = store[t].versions
    <3>1. store'[t] = RollbackHead(store[t], rev)
      BY <2>5 DEF RolledBackTo, StoreInv, SoundStore
    <3> QED BY <2>5, <3>1, RollbackKeepsSound DEF RolledBackTo, StoreInv, SoundStore
  <2>6. CASE \E u \in Topics, v \in Version : PublishedTo(u, v)
    BY <2>3, <2>4, <2>6 DEF PublishedTo, StoreInv, SoundStore
  <2>7. CASE \E u \in Topics, rev \in Nat : RolledBackTo(u, rev)
    <3>1. PICK u \in Topics, rev \in Nat : RolledBackTo(u, rev)
      BY <2>7
    <3>2. u # t => store'[t] = store[t]
      BY <3>1 DEF RolledBackTo, StoreInv, SoundStore
    <3>3. store'[t].versions = store[t].versions
      BY <2>5, <3>1, <3>2
    <3> QED BY <2>2, <3>3
  <2>8. CASE \E T \in SUBSET Topics : Removed(T)
    BY <2>3, <2>8 DEF Removed, Exists, Absent
  <2> QED BY <2>1, <2>3, <2>6, <2>7, <2>8 DEF StoreChange, Imported
<1> QED BY <1>1, StoreStaysSound, PTL DEF Spec, HistoryImmutable

-----------------------------------------------------------------------------
(* Signatures.                                                             *)

SignedChain(e) ==
  \A i \in 1..Len(e.versions) :
    /\ RequireSign => e.versions[i].sig.kind = "good"
    /\ e.versions[i].sig.kind = "good" => e.versions[i].sig.rev \in {0, i}

SignedStore(s) == \A t \in Topics : SignedChain(s[t])

(* What is asked of the snapshots from elsewhere that are not refused:     *)
(* ImportSnapshot verifies no signature.                                   *)
SignedSnapshots == \A b \in Foreign : Refused(b) \/ SignedStore(b.store)

SignedInv == StoreInv /\ SignedStore(store) /\ SignedStore(blob.store)

(* Every stored version has the signature that is asked for, and one that  *)
(* is bound to a revision is stored at that revision only, also after      *)
(* rollbacks, deletions and imports of the hub's own snapshots (Put,       *)
(* Keyring.Verify).  Snapshots from elsewhere may only be imported if they *)
(* hold no version that the hub itself would not have stored.              *)
THEOREM SignaturesStay ==
  ASSUME SignedSnapshots
  PROVE  Spec => []SignedOnly
<1>1. SignedChain(Absent)
  BY DEF SignedChain, Absent
<1>2. Init => SignedInv
  BY <1>1, StoreInvInit DEF Init, EmptyBlob, SignedInv, SignedStore
<1>3. ASSUME SignedInv, [Next]_vars PROVE SignedInv'
  <2>1. StoreChange /\ StoreCopied
    BY <1>3, StepChanges DEF SignedInv, StoreInv, SoundStore
  <2>2. SignedStore(store')
    <3>1. CASE store' = store
      BY <1>3, <3>1 DEF SignedInv
    <3>2. ASSUME NEW t \in Topics, NEW v \in Version, PublishedTo(t, v)
          PROVE  SignedStore(store')
      <4> DEFINE e == store[t]
                 f == AppendVersion(e, v)
                 n == Len(e.versions)
      <4>1. Sound(e) /\ SignedChain(e) /\ v.rev = NextRev(e)
        BY <1>3, <3>2 DEF PublishedTo, SignedInv, SignedStore, StoreInv, SoundStore
      <4>2. /\ Sound(f)
            /\ n \in Nat /\ Len(f.versions) = n + 1
            /\ \A i \in 1..n : f.versions[i] = e.versions[i]
        <5>1. e \in Chain
          BY <4>1 DEF Sound
        <5>2. n \in Nat
          BY <5>1 DEF Chain
        <5>3. /\ Sound(f) /\ Len(f.versions) = Len(e.versions) + 1
              /\ \A i \in 1..Len(e.versions) : f.versions[i] = e.versions[i]
          BY <4>1, AppendKeepsSound
        <5> QED BY <5>2, <5>3
      <4>3. f.versions[n + 1] = v /\ f # Absent
        BY <4>1, <4>2 DEF AppendVersion, Sound, Chain, Absent
      <4>4. v.rev = n + 1
        BY <4>2, <4>3 DEF Sound, ValidateChain
      <4>5. SignedChain(f)
        <5>1. SignedChain(e)
          BY <4>1
        <5> HIDE DEF e, f, n
        <5>2. \A i \in 1..n :
                /\ RequireSign => f.versions[i].sig.kind = "good"
                /\ f.versions[i].sig.kind = "good" => f.versions[i].sig.rev \in {0, i}
          BY <4>2, <5>1 DEF SignedChain, n
        <5>3. /\ RequireSign => f.versions[n + 1].sig.kind = "good"
              /\ f.versions[n + 1].sig.kind = "good" => f.versions[n + 1].sig.rev \in {0, n + 1}
          BY <3>2, <4>3, <4>4 DEF PublishedTo
        <5> QED BY <4>2, <5>2, <5>3 DEF SignedChain
      <4> QED BY <1>3, <3>2, <4>5 DEF PublishedTo, SignedInv, SignedStore, StoreInv, SoundStore
    <3>3. ASSUME NEW t \in Topics, NEW rev \in Nat, RolledBackTo(t, rev)
          PROVE  SignedStore(store')
      <4>1. RollbackHead(store[t], rev).versions = store[t].versions
        BY <1>3, <3>3, RollbackKeepsSound DEF RolledBackTo, SignedInv, StoreInv, SoundStore
      <4>2. SignedChain(RollbackHead(store[t], rev))
        BY <1>3, <3>3, <4>1 DEF SignedInv, SignedStore, SignedChain
      <4> QED BY <1>3, <3>3, <4>2 DEF RolledBackTo, SignedInv, SignedStore, StoreInv, SoundStore
    <3>4. ASSUME NEW T \in SUBSET Topics, Removed(T)
          PROVE  SignedStore(store')
      BY <1>1, <1>3, <3>4 DEF Removed, SignedInv, SignedStore
    <3>5. CASE Imported
      BY <1>3, <3>5, SignedSnapshots DEF Imported, SignedInv, SignedSnapshots
    <3> QED BY <2>1, <3>1, <3>2, <3>3, <3>4, <3>5 DEF StoreChange
  <2>3. SignedStore(blob'.store)
    BY <1>3, <2>1 DEF StoreCopied, SignedInv
  <2> QED BY <1>3, <2>2, <2>3, StoreInvStep DEF SignedInv
<1>4. SignedInv => SignedOnly
  BY DEF SignedInv, SignedStore, SignedChain, SignedOnly
<1> QED BY <1>2, <1>3, <1>4, PTL DEF Spec

-----------------------------------------------------------------------------
(* The saved copy.                                                         *)

(* As long as no write of the file fails, it holds what memory holds: each *)
(* operation that changes the store ends with a save (maybePersistLocked). *)
THEOREM DiskStaysCurrent ==
  ASSUME SaveOutcomes = {TRUE}
  PROVE  Spec => []DiskCurrent
<1>1. Init => DiskCurrent
  BY DEF Init, DiskCurrent
<1>2. ASSUME DiskCurrent, [Next]_vars
      PROVE  DiskCurrent'
  <2>1. ASSUME NEW s, Save(s) PROVE disk' = s
    BY <2>1, SaveOutcomes = {TRUE} DEF Save
  <2>2. ASSUME UNCHANGED <<store, disk>> PROVE DiskCurrent'
    BY <1>2, <2>2 DEF DiskCurrent
  <2>3. ASSUME NEW op, NEW err, NEW audited, Refuse(op, err, audited) PROVE DiskCurrent'
    BY <2>2, <2>3 DEF Refuse
  <2>4. ASSUME NEW n \in Namespaces, NEW owner \in Owners, NEW l \in Limits, CreateNS(n, owner, l)
        PROVE  DiskCurrent'
    BY <1>2, <2>1, <2>3, <2>4 DEF CreateNS, DiskCurrent
  <2>5. ASSUME NEW n \in Namespaces, NEW actor \in Callers, DeleteNS(n, actor)
        PROVE  DiskCurrent'
    BY <2>1, <2>3, <2>5 DEF DeleteNS, DiskCurrent
  <2>6. ASSUME NEW n \in Namespaces, NEW a \in Subjects, NEW r \in GrantRoles,
               NEW actor \in Callers, Grant(n, a, r, actor)
        PROVE  DiskCurrent'
    BY <2>2, <2>3, <2>6 DEF Grant
  <2>7. ASSUME NEW t \in Topics, NEW p \in PutInputs, Put(t, p)
        PROVE  DiskCurrent'
    BY <2>1, <2>3, <2>7 DEF Put, DiskCurrent
  <2>8. ASSUME NEW t \in Topics, NEW rev \in 0..MaxRev, NEW actor \in Callers,
               Rollback(t, rev, actor)
        PROVE  DiskCurrent'
    BY <2>1, <2>3, <2>8 DEF Rollback, DiskCurrent
  <2>9. ASSUME NEW t \in Topics, NEW actor \in Callers, DeleteKey(t, actor)
        PROVE  DiskCurrent'
    BY <2>1, <2>3, <2>9 DEF DeleteKey, DiskCurrent
  <2>10. ASSUME NEW b \in {blob} \cup Foreign, NEW form \in Forms, ImportOpen(b, form)
         PROVE  DiskCurrent'
    BY <2>1, <2>2, <2>10 DEF ImportOpen, Import, DiskCurrent
  <2>11. ASSUME Export \/ SnapshotClosed \/ Close \/ UNCHANGED vars
         PROVE  DiskCurrent'
    BY <2>2, <2>3, <2>11 DEF Export, SnapshotClosed, Close, vars
  <2>12. CASE Next
    BY <2>12, <2>4, <2>5, <2>6, <2>7, <2>8, <2>9, <2>10, <2>11 DEF Next
  <2> QED BY <1>2, <2>11, <2>12
<1> QED BY <1>1, <1>2, PTL DEF Spec

-----------------------------------------------------------------------------
(* The announcements.  Without imports a step leaves each topic alone,     *)
(* apart from one that it publishes to or rolls back, or some that it      *)
(* deletes; and `last` says just that.                                     *)

LeftAlone(t) == store'[t] = store[t] /\ last'[t] = last[t]

ToldPublished(t) ==
  LET n == Len(store[t].versions) + 1 IN
    /\ Len(store'[t].versions) = n /\ store'[t].head = n
    /\ last'[t] = [kind |-> "publish", rev |-> n]

ToldRolledBack(t) ==
  \E rev \in 1..Len(store[t].versions) :
    /\ store'[t].versions = store[t].versions /\ store'[t].head = rev
    /\ last'[t] = [kind |-> "rollback", rev |-> rev]

ToldDeleted(t) ==
  /\ Exists(store[t]) /\ store'[t] = Absent
  /\ last'[t] = [kind |-> "delete", rev |-> store[t].head]

ToldStep ==
  \/ \A t \in Topics : ToldDeleted(t) \/ LeftAlone(t)
  \/ \E t \in Topics : /\ ToldPublished(t) \/ ToldRolledBack(t)
                       /\ \A u \in Topics \ {t} : LeftAlone(u)

LEMMA AnnounceOne ==
  ASSUME NEW t \in Topics, NEW kind, NEW rev,
         Announce({[topic |-> t, kind |-> kind, rev |-> rev]})
  PROVE  /\ last'[t] = [kind |-> kind, rev |-> rev]
         /\ \A u \in Topics \ {t} : last'[u] = last[u]
<1> DEFINE event == [topic |-> t, kind |-> kind, rev |-> rev]
<1>1. (CHOOSE e \in {event} : e.topic = t) = event
  OBVIOUS
<1> QED BY <1>1 DEF Announce

LEMMA StepIsTold ==
  ASSUME Forms = {}, StoreInv, [Next]_vars
  PROVE  ToldStep
<1>1. ASSUME UNCHANGED <<store, last>> PROVE ToldStep
  BY <1>1 DEF ToldStep, LeftAlone
<1>2. ASSUME NEW op, NEW err, NEW audited, Refuse(op, err, audited) PROVE ToldStep
  BY <1>1, <1>2 DEF Refuse
<1>3. store \in [Topics -> Chain] /\ \A t \in Topics : Sound(store[t])
  BY DEF StoreInv, SoundStore
<1>4. ASSUME NEW t \in Topics, NEW p \in PutInputs, Put(t, p), PutError(t, p) = "none"
      PROVE  ToldStep
  <2>1. PICK v \in Version : PublishedTo(t, v)
    BY <1>3, <1>4, PutChange, PutInputsTyped
  <2> DEFINE f == AppendVersion(store[t], v)
             n == Len(store[t].versions) + 1
  <2>2. store'[t] = f /\ \A u \in Topics \ {t} : store'[u] = store[u]
    BY <1>3, <2>1 DEF PublishedTo
  <2>3. Len(f.versions) = n /\ Sound(f) /\ Exists(f)
    BY <1>3, <2>1, AppendKeepsSound DEF PublishedTo
  <2>4. f.head = n
    <3>1. f.head = v.rev /\ f.versions = Append(store[t].versions, v)
      BY DEF AppendVersion
    <3>2. store[t].versions \in Seq(Version) /\ n \in Nat
      BY <1>3 DEF Chain
    <3>3. n \in 1..Len(f.versions) /\ f.versions[n] = v
      BY <2>3, <3>1, <3>2
    <3>4. f.versions[n].rev = n
      BY <2>3, <3>3 DEF Sound, ValidateChain, Exists, Absent
    <3> QED BY <3>1, <3>3, <3>4
  <2>5. /\ last'[t] = [kind |-> "publish", rev |-> n]
        /\ \A u \in Topics \ {t} : last'[u] = last[u]
    <3>1. Announce({[topic |-> t, kind |-> "publish", rev |-> store'[t].head]})
      BY <1>4 DEF Put
    <3> QED BY <2>2, <2>4, <3>1, AnnounceOne
  <2> QED BY <2>2, <2>3, <2>4, <2>5 DEF ToldStep, ToldPublished, LeftAlone
<1>5. ASSUME NEW t \in Topics, NEW rev \in 0..MaxRev, NEW actor \in Callers, Rollback(t, rev, actor),
             RollbackError(t, rev, actor) = "none"
      PROVE  ToldStep
  <2>1. HasRev(store[t], rev) /\ store' = [store EXCEPT ![t] = RollbackHead(@, rev)]
    BY <1>5 DEF Rollback, RollbackError
  <2>2. /\ store'[t] = RollbackHead(store[t], rev)
        /\ \A u \in Topics \ {t} : store'[u] = store[u]
    BY <1>3, <2>1
  <2>3. store'[t].versions = store[t].versions /\ store'[t].head = rev
    BY <1>3, <2>1, <2>2, RollbackKeepsSound
  <2>4. /\ last'[t] = [kind |-> "rollback", rev |-> rev]
        /\ \A u \in Topics \ {t} : last'[u] = last[u]
    <3>1. Announce({[topic |-> t, kind |-> "rollback", rev |-> store'[t].head]})
      BY <1>5 DEF Rollback
    <3> QED BY <2>3, <3>1, AnnounceOne
  <2> QED BY <2>1, <2>2, <2>3, <2>4 DEF ToldStep, ToldRolledBack, LeftAlone, HasRev
<1>6. ASSUME NEW t \in Topics, NEW actor \in Callers, DeleteKey(t, actor), DeleteKeyError(t, actor) = "none"
      PROVE  ToldStep
  <2>1. /\ Exists(store[t]) /\ store' = [store EXCEPT ![t] = Absent]
        /\ Announce({[topic |-> t, kind |-> "delete", rev |-> store[t].head]})
    BY <1>6 DEF DeleteKey, DeleteKeyError
  <2>2. store'[t] = Absent /\ \A u \in Topics \ {t} : store'[u] = store[u]
    BY <1>3, <2>1
  <2>3. /\ last'[t] = [kind |-> "delete", rev |-> store[t].head]
        /\ \A u \in Topics \ {t} : last'[u] = last[u]
    BY <2>1, AnnounceOne
  <2>4. ToldDeleted(t) /\ \A u \in Topics \ {t} : LeftAlone(u)
    BY <2>1, <2>2, <2>3 DEF ToldDeleted, LeftAlone
  <2> QED BY <2>4 DEF ToldStep
<1>7. ASSUME NEW n \in Namespaces, NEW actor \in Callers, DeleteNS(n, actor), DeleteNSError(n, actor) = "none"
      PROVE  ToldStep
  <2> DEFINE gone == {[topic |-> <<n, k>>, kind |-> "delete", rev |-> store[<<n, k>>].head] :
                        k \in Entries(store, n)}
  <2>1. store' = [t \in Topics |-> IF t[1] = n THEN Absent ELSE store[t]] /\ Announce(gone)
    BY <1>7 DEF DeleteNS
  <2>2. ASSUME NEW t \in Topics PROVE ToldDeleted(t) \/ LeftAlone(t)
    <3>1. CASE t[1] = n /\ Exists(store[t])
      <4>1. t = <<n, t[2]>> /\ t[2] \in Entries(store, n)
        BY <3>1 DEF Topics, Entries
      <4> DEFINE event == [topic |-> t, kind |-> "delete", rev |-> store[t].head]
      <4>2. event \in gone /\ \A e \in gone : e.topic = t => e = event
        <5>1. event \in gone
          BY <4>1
        <5>2. ASSUME NEW e \in gone, e.topic = t PROVE e = event
          <6>1. PICK k \in Entries(store, n) :
                  e = [topic |-> <<n, k>>, kind |-> "delete", rev |-> store[<<n, k>>].head]
            OBVIOUS
          <6>2. <<n, k>> = t
            BY <5>2, <6>1
          <6> QED BY <6>1, <6>2
        <5> QED BY <5>1, <5>2
      <4>3. (CHOOSE e \in gone : e.topic = t) = event
        BY <4>2
      <4>4. last'[t] = [kind |-> "delete", rev |-> store[t].head]
        <5> HIDE DEF gone
        <5> QED BY <2>1, <4>2, <4>3 DEF Announce
      <4> QED BY <2>1, <3>1, <4>4 DEF ToldDeleted
    <3>2. CASE ~(t[1] = n /\ Exists(store[t]))
      <4>1. ~\E e \in gone : e.topic = t
        <5>1. ASSUME NEW e \in gone, e.topic = t PROVE FALSE
          <6>1. PICK k \in Entries(store, n) :
                  e = [topic |-> <<n, k>>, kind |-> "delete", rev |-> store[<<n, k>>].head]
            OBVIOUS
          <6>2. <<n, k>> = t
            BY <5>1, <6>1
          <6>3. t[1] = n /\ Exists(store[t])
            BY <6>1, <6>2 DEF Entries
          <6> QED BY <3>2, <6>3
        <5> QED BY <5>1
      <4>2. last'[t] = last[t]
        <5> HIDE DEF gone
        <5> QED BY <2>1, <4>1 DEF Announce
      <4>3. store'[t] = store[t]
        BY <1>3, <2>1, <3>2 DEF Sound, Exists, ValidateChain
      <4> QED BY <4>2, <4>3 DEF LeftAlone
    <3> QED BY <3>1, <3>2
  <2> QED BY <2>2 DEF ToldStep
<1>8. ASSUME NEW n \in Namespaces, NEW owner \in Owners, NEW l \in Limits, CreateNS(n, owner, l)
      PROVE  ToldStep
  BY <1>1, <1>2, <1>8 DEF CreateNS
<1>9. ASSUME NEW n \in Namespaces, NEW a \in Subjects, NEW r \in GrantRoles, NEW actor \in Callers,
             Grant(n, a, r, actor)
      PROVE  ToldStep
  BY <1>1, <1>2, <1>9 DEF Grant
<1>10. ASSUME Export \/ SnapshotClosed \/ Close \/ UNCHANGED vars PROVE ToldStep
  BY <1>1, <1>2, <1>10 DEF Export, SnapshotClosed, Close, vars
<1>11. ASSUME NEW n \in Namespaces, NEW actor \in Callers, DeleteNS(n, actor) PROVE ToldStep
  BY <1>2, <1>7, <1>11 DEF DeleteNS
<1>12. ASSUME NEW t \in Topics, NEW p \in PutInputs, Put(t, p) PROVE ToldStep
  BY <1>2, <1>4, <1>12 DEF Put
<1>13. ASSUME NEW t \in Topics, NEW rev \in 0..MaxRev, NEW actor \in Callers, Rollback(t, rev, actor)
       PROVE  ToldStep
  BY <1>2, <1>5, <1>13 DEF Rollback
<1>14. ASSUME NEW t \in Topics, NEW actor \in Callers, DeleteKey(t, actor) PROVE ToldStep
  BY <1>2, <1>6, <1>14 DEF DeleteKey
<1>15. CASE Next
  BY <1>8, <1>9, <1>10, <1>11, <1>12, <1>13, <1>14, <1>15, Forms = {} DEF Next
<1> QED BY <1>10, <1>15

(* The newest event of a key names its head while it exists, and is a      *)
(* deletion after it went.                                                 *)
THEOREM LastStaysTrue ==
  ASSUME Forms = {}
  PROVE  Spec => []LastTracksStore
<1>1. Init => LastTracksStore
  BY DEF Init, EmptyBlob, NoEvent, Exists, Absent, LastTracksStore
<1>2. ASSUME StoreInv, LastTracksStore, [Next]_vars
      PROVE  LastTracksStore'
  <2>1. ToldStep
    BY <1>2, StepIsTold, Forms = {}
  <2> DEFINE Tracks(t) == IF Exists(store[t])
                          THEN last[t].kind \in {"publish", "rollback"} /\ last[t].rev = store[t].head
                          ELSE last[t].kind \in {"none", "delete"}
  <2>2. ASSUME NEW t \in Topics, LeftAlone(t) PROVE Tracks(t)'
    BY <1>2, <2>2 DEF LeftAlone, LastTracksStore, Exists
  <2>3. ASSUME NEW t \in Topics, ToldDeleted(t) PROVE Tracks(t)'
    BY <2>3 DEF ToldDeleted, Exists, Absent
  <2>4. ASSUME NEW t \in Topics PROVE store[t].versions \in Seq(Version)
    BY <1>2 DEF StoreInv, SoundStore, Chain
  <2>5. ASSUME NEW t \in Topics, ToldPublished(t) PROVE Tracks(t)'
    <3>1. Exists(store[t])'
      BY <2>4, <2>5 DEF ToldPublished, Exists
    <3> QED BY <2>5, <3>1 DEF ToldPublished
  <2>6. ASSUME NEW t \in Topics, ToldRolledBack(t) PROVE Tracks(t)'
    <3>1. Exists(store[t])'
      BY <2>4, <2>6 DEF ToldRolledBack, Exists
    <3> QED BY <2>6, <3>1 DEF ToldRolledBack
  <2>7. \A t \in Topics : Tracks(t)'
    BY <2>1, <2>2, <2>3, <2>5, <2>6 DEF ToldStep
  <2> QED BY <2>7 DEF LastTracksStore
<1> QED BY <1>1, <1>2, StoreStaysSound, PTL DEF Spec

(* The hub is the source of events its watchers count on: every change of  *)
(* a chain is told once, with the kind and the revision it has.            *)
THEOREM SourceImplemented ==
  ASSUME Forms = {}
  PROVE  Spec => ImplementsSource
<1>1. Init => Source!Init
  BY DEF Init, EmptyBlob, NoEvent, Absent, Source!Init, Source!NoChain
<1>2. ASSUME StoreInv, [Next]_vars
      PROVE  Source!Next
  <2>1. ToldStep
    BY <1>2, StepIsTold, Forms = {}
  <2>2. ASSUME NEW t \in Topics, LeftAlone(t) PROVE Source!Rests(t)
    BY <2>2 DEF LeftAlone, Source!Rests
  <2>3. ASSUME NEW t \in Topics
        PROVE  /\ store[t].versions \in Seq(Version) /\ Len(store[t].versions) \in Nat
               /\ Exists(store[t]) => Len(store[t].versions) > 0
    BY <1>2 DEF StoreInv, SoundStore, Chain, Exists
  <2>4. ASSUME NEW t \in Topics, ToldDeleted(t) PROVE Source!Deleted(t)
    BY <2>3, <2>4 DEF ToldDeleted, Absent, Source!Deleted, Source!NoChain, Source!Told
  <2>5. ASSUME NEW t \in Topics, ToldPublished(t) PROVE Source!Published(t)
    BY <2>5 DEF ToldPublished, Source!Published, Source!Told
  <2>6. ASSUME NEW t \in Topics, ToldRolledBack(t) PROVE Source!RolledBack(t)
    BY <2>6 DEF ToldRolledBack, Source!RolledBack, Source!Told
  <2> QED BY <2>1, <2>2, <2>4, <2>5, <2>6 DEF ToldStep, Source!Next, Source!DeleteMany, Source!Change
<1> QED BY <1>1, <1>2, StoreStaysSound, PTL DEF Spec, ImplementsSource, Source!Spec
=============================================================================
