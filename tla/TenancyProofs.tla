--------------------------- MODULE TenancyProofs ---------------------------
(***************************************************************************)
(* Theorems about who owns and may change what, about what the quota       *)
(* counts and bounds, and about what is left of a namespace that is gone,  *)
(* for any number of namespaces and actors, any finite set of keys and any *)
(* limits; and the types of the whole state.                               *)
(***************************************************************************)
EXTENDS ConfHubProofs

Registries == [Namespaces -> NSMeta \cup {NoNS}]
GrantMaps == [Namespaces -> [Actors -> 0..3]]
LastMaps == [Topics -> [kind : Kinds \cup {"none"}, rev : Nat]]

(* The registry and the access list agree, and what was exported has the   *)
(* types that an import needs.                                             *)
AccessInv ==
  /\ closed \in BOOLEAN
  /\ reg \in Registries
  /\ owners \in [Namespaces -> Actors \cup {NoActor}]
  /\ grants \in GrantMaps
  /\ blob.reg \in Registries
  /\ blob.grants \in GrantMaps
  /\ OwnersMatch

LEMMA AccessInvInit == Init => AccessInv
<1> SUFFICES ASSUME Init
             PROVE  AccessInv
  OBVIOUS
<1>1. /\ EmptyBlob.reg = [n \in Namespaces |-> NoNS]
      /\ EmptyBlob.grants = [n \in Namespaces |-> [a \in Actors |-> 0]]
  BY DEF EmptyBlob, RoleNone
<1>2. EmptyBlob.reg \in Registries /\ EmptyBlob.grants \in GrantMaps
  BY <1>1 DEF Registries, GrantMaps
<1>3. OwnersMatch
  BY <1>1 DEF Init, OwnersMatch, Registered
<1> QED BY <1>2, <1>3 DEF Init, AccessInv

(* The metadata a namespace is created with.                               *)
LEMMA CreatedMeta ==
  ASSUME NEW n, NEW owner \in Actors, NEW l \in [maxKeys : Int, maxBytes : Int],
         CreateNSError(n, l) = "none"
  PROVE  [owner    |-> owner,
          maxKeys  |-> OrDefault(l.maxKeys, DefaultMaxKeys),
          maxBytes |-> OrDefault(l.maxBytes, DefaultMaxBytes)]
           \in [owner : Actors, maxKeys : Nat \ {0}, maxBytes : Nat \ {0}]
<1>1. l.maxKeys >= 0 /\ l.maxBytes >= 0
  BY DEF CreateNSError
<1> QED BY <1>1, DefaultsAssumption DEF OrDefault

LEMMA AccessInvStep == AccessInv /\ [Next]_vars => AccessInv'
<1> SUFFICES ASSUME AccessInv, [Next]_vars
             PROVE  AccessInv'
  OBVIOUS
<1>1. ASSUME UNCHANGED <<closed, reg, owners, grants>>, blob' = blob
      PROVE  AccessInv'
  BY <1>1 DEF AccessInv, OwnersMatch, Registered
<1>2. ASSUME NEW op, NEW err, NEW audited, Refuse(op, err, audited)
      PROVE  AccessInv'
  BY <1>1, <1>2 DEF Refuse
<1>3. ASSUME NEW n \in Namespaces, NEW owner \in Owners, NEW l \in Limits, CreateNS(n, owner, l)
      PROVE  AccessInv'
  <2>1. CASE CreateNSError(n, l) # "none"
    BY <1>2, <1>3, <2>1 DEF CreateNS
  <2>2. CASE CreateNSError(n, l) = "none"
    <3> DEFINE m == [owner    |-> owner,
                     maxKeys  |-> OrDefault(l.maxKeys, DefaultMaxKeys),
                     maxBytes |-> OrDefault(l.maxBytes, DefaultMaxBytes)]
    <3>1. /\ reg' = [reg EXCEPT ![n] = m]
          /\ owners' = [owners EXCEPT ![n] = owner]
          /\ UNCHANGED <<closed, grants, blob>>
      BY <1>3, <2>2 DEF CreateNS
    <3>2. m \in NSMeta /\ m.owner = owner /\ owner \in Actors
      BY <2>2, CreatedMeta, InputsAssumption DEF NSMeta
    <3> HIDE DEF m
    <3>3. reg' \in Registries /\ owners' \in [Namespaces -> Actors \cup {NoActor}]
      BY <3>1, <3>2 DEF AccessInv, Registries
    <3>4. OwnersMatch'
      BY <3>1, <3>2 DEF AccessInv, Registries, OwnersMatch, Registered
    <3> QED BY <3>1, <3>3, <3>4 DEF AccessInv
  <2> QED BY <2>1, <2>2
<1>4. ASSUME NEW n \in Namespaces, NEW actor \in Callers, DeleteNS(n, actor)
      PROVE  AccessInv'
  <2>1. CASE DeleteNSError(n, actor) # "none"
    BY <1>2, <1>4, <2>1 DEF DeleteNS
  <2>2. CASE DeleteNSError(n, actor) = "none"
    <3>1. Unregister(n) /\ UNCHANGED <<closed, blob>>
      BY <1>4, <2>2 DEF DeleteNS
    <3> QED BY <3>1 DEF Unregister, AccessInv, Registries, GrantMaps, RoleNone, OwnersMatch, Registered
  <2> QED BY <2>1, <2>2
<1>5. ASSUME NEW n \in Namespaces, NEW a \in Subjects, NEW r \in GrantRoles, NEW actor \in Callers,
             Grant(n, a, r, actor)
      PROVE  AccessInv'
  <2>1. CASE GrantError(n, actor) # "none"
    BY <1>2, <1>5, <2>1 DEF Grant
  <2>2. CASE GrantError(n, actor) = "none"
    <3>1. /\ grants' = [grants EXCEPT ![n][a] = r]
          /\ UNCHANGED <<closed, reg, owners, blob>>
      BY <1>5, <2>2 DEF Grant, SetRole
    <3>2. r \in 0..3
      BY InputsAssumption
    <3>3. grants' \in GrantMaps
      BY <3>1, <3>2 DEF AccessInv, GrantMaps
    <3> QED BY <3>1, <3>3 DEF AccessInv, OwnersMatch, Registered
  <2> QED BY <2>1, <2>2
<1>6. ASSUME NEW t \in Topics, NEW p \in PutInputs, Put(t, p)
      PROVE  AccessInv'
  BY <1>1, <1>2, <1>6 DEF Put
<1>7. ASSUME NEW t \in Topics, NEW rev \in 0..MaxRev, NEW actor \in Callers, Rollback(t, rev, actor)
      PROVE  AccessInv'
  BY <1>1, <1>2, <1>7 DEF Rollback
<1>8. ASSUME NEW t \in Topics, NEW actor \in Callers, DeleteKey(t, actor)
      PROVE  AccessInv'
  BY <1>1, <1>2, <1>8 DEF DeleteKey
<1>9. ASSUME Export
      PROVE  AccessInv'
  BY <1>9 DEF Export, Built, AccessInv, OwnersMatch, Registered
<1>10. ASSUME NEW b \in {blob} \cup Foreign, NEW form \in Forms, ImportOpen(b, form)
       PROVE  AccessInv'
  <2>1. PICK missing \in Missing(form, b) :
          ReplaceRegistry(b) /\ ReplaceGrants(b, missing) /\ UNCHANGED <<closed, blob>>
    BY <1>10 DEF ImportOpen, Import
  <2> b.reg \in Registries /\ b.grants \in GrantMaps
    BY ForeignTyped DEF AccessInv, Registries, GrantMaps
  <2>2. reg' \in Registries /\ grants' \in GrantMaps
    BY <2>1 DEF ReplaceRegistry, ReplaceGrants, AccessInv
  <2>3. owners' \in [Namespaces -> Actors \cup {NoActor}]
    BY <2>1 DEF ReplaceRegistry, AccessInv, Registries, NSMeta
  <2>4. OwnersMatch'
    BY <2>1 DEF ReplaceRegistry, OwnersMatch, Registered
  <2> QED BY <2>1, <2>2, <2>3, <2>4 DEF AccessInv
<1>11. ASSUME SnapshotClosed
       PROVE  AccessInv'
  BY <1>2, <1>11 DEF SnapshotClosed
<1>12. ASSUME Close
       PROVE  AccessInv'
  BY <1>12 DEF Close, AccessInv, OwnersMatch, Registered
<1>13. ASSUME UNCHANGED vars
       PROVE  AccessInv'
  BY <1>1, <1>13 DEF vars
<1>14. CASE Next
  BY <1>14, <1>3, <1>4, <1>5, <1>6, <1>7, <1>8, <1>9, <1>10, <1>11, <1>12 DEF Next
<1> QED BY <1>13, <1>14

(* The two maps that know who owns a namespace, the registry's and the     *)
(* access list's, never disagree about a registered one, although an       *)
(* import replaces them one after the other (Registry.ReplaceAll).         *)
THEOREM OwnersAgree == Spec => []OwnersMatch
<1>1. AccessInv => OwnersMatch
  BY DEF AccessInv
<1> QED BY <1>1, AccessInvInit, AccessInvStep, PTL DEF Spec

-----------------------------------------------------------------------------
(* What an operation does to the registry, the grants, the entries and the *)
(* counters: nothing, or one of five deeds.                                *)

KeyOf(e) == IF Exists(e) THEN 1 ELSE 0

Created(n) ==
  /\ reg[n] = NoNS
  /\ \E m \in NSMeta : m.maxKeys # 0 /\ m.maxBytes # 0 /\ reg' = [reg EXCEPT ![n] = m]
  /\ UNCHANGED <<grants, store, usage>>

Dropped(n) ==
  /\ reg' = [reg EXCEPT ![n] = NoNS]
  /\ grants' = [grants EXCEPT ![n] = [a \in Actors |-> RoleNone]]
  /\ store' = [t \in Topics |-> IF t[1] = n THEN Absent ELSE store[t]]
  /\ usage' = [usage EXCEPT ![n] = NoUsage]

Granted(n) ==
  /\ reg[n] # NoNS
  /\ \E g \in [Actors -> 0..3] : grants' = [grants EXCEPT ![n] = g]
  /\ UNCHANGED <<reg, store, usage>>

(* The limits of n allow k keys and b bytes more than it is charged for.   *)
Allowed(n, k, b) ==
  /\ reg[n].maxKeys > 0 => usage[n].keys + k <= reg[n].maxKeys
  /\ reg[n].maxBytes > 0 => usage[n].bytes + b <= reg[n].maxBytes

(* The entry of t becomes e, and its namespace is charged k keys and b     *)
(* bytes: the difference.                                                  *)
Charging(t, e, k, b) ==
  /\ reg[t[1]] # NoNS \/ Exists(store[t])
  /\ (k <= 0 /\ b <= 0) \/ (reg[t[1]] # NoNS /\ Allowed(t[1], k, b))
  /\ store' = [store EXCEPT ![t] = e]
  /\ usage' = [usage EXCEPT ![t[1]] = Add(usage[t[1]], k, b)]
  /\ UNCHANGED <<reg, grants>>

Charged(t, e) ==
  Charging(t, e, KeyOf(e) - KeyOf(store[t]), BytesOf(e) - BytesOf(store[t]))

Deed ==
  \/ UNCHANGED <<reg, grants, store, usage>>
  \/ \E n \in Namespaces : Created(n) \/ Dropped(n) \/ Granted(n)
  \/ \E t \in Topics, e \in Chain : Sound(e) /\ Charged(t, e)

(* The registry r, the entries s, the grants g and the counters u have     *)
(* their types: those of the hub, and those of the exported snapshot.      *)
UsageMaps == [Namespaces -> Usage]

Typed(r, s, g, u) == r \in Registries /\ SoundStore(s) /\ g \in GrantMaps /\ u \in UsageMaps

HubTyped == Typed(reg, store, grants, usage)
BlobTyped == Typed(blob.reg, blob.store, blob.grants, blob.usage)

LEMMA PutIsDeed ==
  ASSUME HubTyped, NEW t \in Topics, NEW p \in Request, Put(t, p), PutError(t, p) = "none"
  PROVE  \E e \in Chain : Sound(e) /\ Charged(t, e)
<1>1. store \in [Topics -> Chain] /\ Sound(store[t]) /\ store[t] \in Chain
  BY DEF HubTyped, Typed, SoundStore
<1>2. PICK v \in Version : PublishedTo(t, v) /\ v.size = p.size
  BY <1>1, PutChange
<1> DEFINE e == AppendVersion(store[t], v)
           k == IF Exists(store[t]) THEN 0 ELSE 1
<1>3. Sound(e) /\ Exists(e) /\ e \in Chain
  BY <1>1, <1>2, AppendKeepsSound DEF PublishedTo, Sound
<1>4. KeyOf(e) - KeyOf(store[t]) = k
  BY <1>3 DEF KeyOf
<1>5. BytesOf(e) - BytesOf(store[t]) = p.size
  <2>1. BytesOf(e) = BytesOf(store[t]) + v.size
    BY <1>1, AppendBytes
  <2>2. BytesOf(store[t]) \in Nat /\ p.size \in Nat
    BY <1>1, BytesOfType DEF Request
  <2> HIDE DEF e
  <2> QED BY <1>2, <2>1, <2>2
<1>6. store' = [store EXCEPT ![t] = e]
  BY <1>2 DEF PublishedTo
<1>7. /\ usage' = [usage EXCEPT ![t[1]] = Add(usage[t[1]], k, p.size)]
      /\ UNCHANGED <<reg, grants>>
  BY DEF Put
<1>8. reg[t[1]] # NoNS /\ QuotaError(t[1], ~Exists(store[t]), p.size) = "none"
  BY DEF PutError, VerifyError, Registered
<1> HIDE DEF e
<1>9. Allowed(t[1], k, p.size)
  <2> DEFINE n == t[1]
  <2>1. /\ reg[n] \in NSMeta /\ usage[n] \in Usage
    BY <1>8 DEF HubTyped, Typed, Registries, UsageMaps, Topics
  <2>2. /\ reg[n].maxKeys \in Nat /\ reg[n].maxBytes \in Nat
        /\ usage[n].keys \in Nat /\ usage[n].bytes \in Nat /\ p.size \in Nat
    BY <2>1 DEF NSMeta, Usage, Request
  <2> HIDE DEF n
  <2>3. CASE Exists(store[t])
    BY <1>8, <2>2, <2>3 DEF QuotaError, Allowed, n
  <2>4. CASE ~Exists(store[t])
    BY <1>8, <2>2, <2>4 DEF QuotaError, Allowed, n
  <2> QED BY <2>3, <2>4
<1> HIDE DEF k
<1>10. Charging(t, e, k, p.size)
  BY <1>6, <1>7, <1>8, <1>9 DEF Charging
<1>11. Charged(t, e)
  BY <1>4, <1>5, <1>10 DEF Charged
<1> QED BY <1>3, <1>11

LEMMA RollbackIsDeed ==
  ASSUME HubTyped, NEW t \in Topics, NEW rev \in Nat, NEW actor, Rollback(t, rev, actor),
         RollbackError(t, rev, actor) = "none"
  PROVE  \E e \in Chain : Sound(e) /\ Charged(t, e)
<1> DEFINE e == RollbackHead(store[t], rev)
<1>1. store \in [Topics -> Chain] /\ Sound(store[t]) /\ store[t] \in Chain
  BY DEF HubTyped, Typed, SoundStore
<1>2. /\ Exists(store[t]) /\ HasRev(store[t], rev)
      /\ store' = [store EXCEPT ![t] = e] /\ UNCHANGED <<reg, grants, usage>>
  BY DEF Rollback, RollbackError
<1>3. Sound(e) /\ e \in Chain /\ e.versions = store[t].versions
  BY <1>1, <1>2, RollbackKeepsSound DEF Sound
<1> HIDE DEF e
<1>4. KeyOf(e) = KeyOf(store[t]) /\ BytesOf(e) = BytesOf(store[t])
  BY <1>3 DEF KeyOf, Exists, BytesOf
<1>5. KeyOf(e) - KeyOf(store[t]) = 0 /\ BytesOf(e) - BytesOf(store[t]) = 0
  BY <1>1, <1>4, BytesOfType DEF KeyOf
<1>6. t[1] \in Namespaces /\ usage[t[1]] \in Usage /\ usage \in UsageMaps
  BY DEF HubTyped, Typed, UsageMaps, Topics
<1>7. Add(usage[t[1]], 0, 0) = usage[t[1]]
  BY <1>6 DEF Add, AtLeast0, Usage
<1>8. usage' = [usage EXCEPT ![t[1]] = Add(usage[t[1]], 0, 0)]
  BY <1>2, <1>6, <1>7 DEF UsageMaps
<1>9. Charging(t, e, 0, 0)
  <2>1. 0 <= 0
    OBVIOUS
  <2>2. Exists(store[t]) /\ store' = [store EXCEPT ![t] = e] /\ UNCHANGED <<reg, grants>>
    BY <1>2
  <2> QED BY <1>8, <2>1, <2>2, Zenon DEF Charging
<1> DEFINE k == KeyOf(e) - KeyOf(store[t])
           b == BytesOf(e) - BytesOf(store[t])
<1>10. k = 0 /\ b = 0
  BY <1>5
<1> HIDE DEF k, b
<1>11. Charging(t, e, k, b)
  BY <1>9, <1>10
<1>12. Charged(t, e)
  BY <1>11 DEF Charged, k, b
<1> QED BY <1>3, <1>12

LEMMA DeleteKeyIsDeed ==
  ASSUME HubTyped, NEW t \in Topics, NEW actor, DeleteKey(t, actor),
         DeleteKeyError(t, actor) = "none"
  PROVE  \E e \in Chain : Sound(e) /\ Charged(t, e)
<1> DEFINE e == Absent
<1>1. store \in [Topics -> Chain] /\ store[t] \in Chain
  BY DEF HubTyped, Typed, SoundStore
<1>2. e \in Chain /\ Sound(e) /\ ~Exists(e)
  BY AbsentSound DEF Exists, Absent
<1>3. /\ Exists(store[t]) /\ store' = [store EXCEPT ![t] = e]
      /\ usage' = [usage EXCEPT ![t[1]] = Add(usage[t[1]], -1, -BytesOf(store[t]))]
      /\ UNCHANGED <<reg, grants>>
  BY DEF DeleteKey, DeleteKeyError
<1> HIDE DEF e
<1>4. KeyOf(e) - KeyOf(store[t]) = -1
  BY <1>2, <1>3 DEF KeyOf
<1>5. BytesOf(e) - BytesOf(store[t]) = -BytesOf(store[t]) /\ BytesOf(store[t]) \in Nat
  BY <1>1, <1>2, BytesOfType
<1>6. -BytesOf(store[t]) <= 0
  BY <1>5
<1>7. Charging(t, e, -1, -BytesOf(store[t]))
  BY <1>3, <1>6 DEF Charging
<1>8. Charged(t, e)
  BY <1>4, <1>5, <1>7 DEF Charged
<1> QED BY <1>2, <1>8

(* Whatever an operation is called with, it does one of these deeds.       *)
LEMMA OperationIsDeed ==
  ASSUME HubTyped, Operation
  PROVE  Deed
<1>1. ASSUME UNCHANGED <<reg, grants, store, usage>> PROVE Deed
  BY <1>1 DEF Deed
<1>2. ASSUME NEW op, NEW err, NEW audited, Refuse(op, err, audited) PROVE Deed
  BY <1>1, <1>2 DEF Refuse
<1>3. ASSUME NEW n \in Namespaces, NEW owner \in Actors, NEW l \in [maxKeys : Int, maxBytes : Int],
             CreateNS(n, owner, l), CreateNSError(n, l) = "none"
      PROVE  Deed
  <2> DEFINE m == [owner    |-> owner,
                   maxKeys  |-> OrDefault(l.maxKeys, DefaultMaxKeys),
                   maxBytes |-> OrDefault(l.maxBytes, DefaultMaxBytes)]
  <2>1. m \in [owner : Actors, maxKeys : Nat \ {0}, maxBytes : Nat \ {0}]
    BY <1>3, CreatedMeta
  <2>2. reg' = [reg EXCEPT ![n] = m] /\ UNCHANGED <<grants, store, usage>> /\ reg[n] = NoNS
    BY <1>3 DEF CreateNS, CreateNSError, Registered
  <2> HIDE DEF m
  <2>3. m \in NSMeta /\ m.maxKeys # 0 /\ m.maxBytes # 0
    BY <2>1 DEF NSMeta
  <2> QED BY <2>2, <2>3 DEF Created, Deed
<1>4. ASSUME NEW n \in Namespaces, NEW actor, DeleteNS(n, actor), DeleteNSError(n, actor) = "none"
      PROVE  Deed
  <2>1. Dropped(n)
    BY <1>4 DEF DeleteNS, Unregister, Dropped
  <2> QED BY <2>1 DEF Deed
<1>5. ASSUME NEW n \in Namespaces, NEW a \in Actors, NEW r \in 0..3, NEW actor, Grant(n, a, r, actor),
             GrantError(n, actor) = "none"
      PROVE  Deed
  <2> DEFINE g == [grants[n] EXCEPT ![a] = r]
  <2>1. reg[n] # NoNS /\ grants' = [grants EXCEPT ![n] = g] /\ UNCHANGED <<reg, store, usage>>
    BY <1>5 DEF Grant, GrantError, SetRole, Registered
  <2>2. g \in [Actors -> 0..3]
    BY DEF HubTyped, Typed, GrantMaps
  <2> QED BY <2>1, <2>2 DEF Granted, Deed
<1>6. ASSUME NEW t \in Topics, NEW p \in Request, Put(t, p) PROVE Deed
  BY <1>2, <1>6, PutIsDeed DEF Put, Deed
<1>7. ASSUME NEW t \in Topics, NEW rev \in Nat, NEW actor, Rollback(t, rev, actor) PROVE Deed
  BY <1>2, <1>7, RollbackIsDeed DEF Rollback, Deed
<1>8. ASSUME NEW t \in Topics, NEW actor, DeleteKey(t, actor) PROVE Deed
  BY <1>2, <1>8, DeleteKeyIsDeed DEF DeleteKey, Deed
<1>9. ASSUME NEW n \in Namespaces, NEW owner \in Actors, NEW l \in [maxKeys : Int, maxBytes : Int],
             CreateNS(n, owner, l)
      PROVE  Deed
  BY <1>2, <1>3, <1>9 DEF CreateNS
<1>10. ASSUME NEW n \in Namespaces, NEW actor, DeleteNS(n, actor) PROVE Deed
  BY <1>2, <1>4, <1>10 DEF DeleteNS
<1>11. ASSUME NEW n \in Namespaces, NEW a \in Actors, NEW r \in 0..3, NEW actor, Grant(n, a, r, actor)
       PROVE  Deed
  BY <1>2, <1>5, <1>11 DEF Grant
<1>12. ASSUME Export \/ SnapshotClosed \/ Close \/ UNCHANGED vars PROVE Deed
  BY <1>1, <1>2, <1>12 DEF Export, SnapshotClosed, Close, vars
<1> QED BY <1>6, <1>7, <1>8, <1>9, <1>10, <1>11, <1>12 DEF Operation

(* No operation changes the snapshot that was exported, but an export.     *)
LEMMA OperationKeepsBlob ==
  ASSUME Operation
  PROVE  blob' = blob \/ blob' = Built
<1>1. ASSUME NEW op, NEW err, NEW audited, Refuse(op, err, audited) PROVE blob' = blob
  BY <1>1 DEF Refuse
<1> QED BY <1>1 DEF Operation, CreateNS, DeleteNS, Grant, Put, Rollback, DeleteKey, Export,
                   SnapshotClosed, Close, vars

-----------------------------------------------------------------------------
(* What the namespaces hold.                                               *)

LEMMA EntriesFinite ==
  ASSUME IsFiniteSet(Keys), NEW s, NEW n
  PROVE  /\ IsFiniteSet(Entries(s, n))
         /\ Cardinality(Entries(s, n)) \in Nat
         /\ Cardinality(Entries(s, n)) = 0 <=> Entries(s, n) = {}
<1>1. Entries(s, n) \subseteq Keys
  BY DEF Entries
<1> QED BY <1>1, FS_Subset, FS_CardinalityType, FS_EmptySet

LEMMA BytesInType ==
  ASSUME IsFiniteSet(Keys), NEW s \in [Topics -> Chain], NEW n \in Namespaces
  PROVE  BytesIn(s, n) \in Nat /\ (Entries(s, n) = {} => BytesIn(s, n) = 0)
<1> DEFINE f == [k \in Keys |-> BytesOf(s[<<n, k>>])]
<1>1. \A k \in Keys : f[k] \in Nat /\ (~Exists(s[<<n, k>>]) => f[k] = 0)
  <2> SUFFICES ASSUME NEW k \in Keys PROVE f[k] \in Nat /\ (~Exists(s[<<n, k>>]) => f[k] = 0)
    OBVIOUS
  <2>1. s[<<n, k>>] \in Chain
    BY DEF Topics
  <2> QED BY <2>1, BytesOfType
<1>2. Entries(s, n) = {} => \A k \in Keys : f[k] = 0
  BY <1>1 DEF Entries
<1>3. DOMAIN f = Keys /\ BytesIn(s, n) = SumFunction(f)
  BY DEF BytesIn
<1> HIDE DEF f
<1> QED BY <1>1, <1>2, <1>3, SumType

(* z holds e for t, and for all others what s holds.                       *)
Replaced(z, s, t, e) == z = [s EXCEPT ![t] = e]

(* When one entry is replaced, its namespace gains it, loses it or keeps   *)
(* it; the other namespaces keep what they have.                           *)
LEMMA EntriesReplaced ==
  ASSUME NEW s \in [Topics -> Chain], NEW t \in Topics, NEW e, NEW n \in Namespaces,
         NEW z, Replaced(z, s, t, e)
  PROVE  /\ n # t[1] => Entries(z, n) = Entries(s, n)
         /\ n = t[1] /\ Exists(e) => Entries(z, n) = Entries(s, n) \cup {t[2]}
         /\ n = t[1] /\ ~Exists(e) => Entries(z, n) = Entries(s, n) \ {t[2]}
<1>1. t = <<t[1], t[2]>> /\ t[1] \in Namespaces /\ t[2] \in Keys
  BY DEF Topics
<1>2. \A k \in Keys : <<n, k>> \in Topics /\ (<<n, k>> = t <=> n = t[1] /\ k = t[2])
  BY <1>1 DEF Topics
<1>3. \A k \in Keys : z[<<n, k>>] = IF <<n, k>> = t THEN e ELSE s[<<n, k>>]
  BY <1>2 DEF Replaced
<1> QED BY <1>1, <1>2, <1>3 DEF Entries

LEMMA OthersKept ==
  ASSUME NEW s \in [Topics -> Chain], NEW t \in Topics, NEW e, NEW z, Replaced(z, s, t, e),
         NEW m \in Namespaces, m # t[1]
  PROVE  Entries(z, m) = Entries(s, m) /\ BytesIn(z, m) = BytesIn(s, m)
<1>1. Entries(z, m) = Entries(s, m)
  BY EntriesReplaced
<1>2. \A k \in Keys : z[<<m, k>>] = s[<<m, k>>]
  <2>1. \A k \in Keys : <<m, k>> \in Topics /\ <<m, k>> # t
    BY DEF Topics
  <2> QED BY <2>1 DEF Replaced
<1>3. BytesIn(z, m) = BytesIn(s, m)
  BY <1>2 DEF BytesIn
<1> QED BY <1>1, <1>3

LEMMA KeysReplaced ==
  ASSUME IsFiniteSet(Keys), NEW s \in [Topics -> Chain], NEW t \in Topics, NEW e,
         NEW z, Replaced(z, s, t, e)
  PROVE  Cardinality(Entries(z, t[1])) = Cardinality(Entries(s, t[1])) + (KeyOf(e) - KeyOf(s[t]))
<1> DEFINE S == Entries(s, t[1])
<1>1. t = <<t[1], t[2]>> /\ t[1] \in Namespaces /\ t[2] \in Keys
  BY DEF Topics
<1>2. t[2] \in S <=> Exists(s[t])
  BY <1>1 DEF Entries
<1>3. IsFiniteSet(S) /\ Cardinality(S) \in Nat
  BY EntriesFinite
<1>4. CASE Exists(e)
  <2>1. Entries(z, t[1]) = S \cup {t[2]}
    BY <1>1, <1>4, EntriesReplaced
  <2> HIDE DEF S
  <2>2. CASE Exists(s[t])
    <3>1. Cardinality(S \cup {t[2]}) = Cardinality(S)
      <4>1. S \cup {t[2]} = S
        BY <1>2, <2>2
      <4> QED BY <4>1
    <3>2. KeyOf(e) - KeyOf(s[t]) = 0
      BY <1>4, <2>2 DEF KeyOf
    <3> QED BY <1>3, <2>1, <3>1, <3>2 DEF S
  <2>3. CASE ~Exists(s[t])
    <3>1. Cardinality(S \cup {t[2]}) = Cardinality(S) + 1
      BY <1>2, <1>3, <2>3, FS_AddElement
    <3>2. KeyOf(e) - KeyOf(s[t]) = 1
      BY <1>4, <2>3 DEF KeyOf
    <3> QED BY <1>3, <2>1, <3>1, <3>2 DEF S
  <2> QED BY <2>2, <2>3
<1>5. CASE ~Exists(e)
  <2>1. Entries(z, t[1]) = S \ {t[2]}
    BY <1>1, <1>5, EntriesReplaced
  <2> HIDE DEF S
  <2>2. CASE Exists(s[t])
    <3>1. Cardinality(S \ {t[2]}) = Cardinality(S) - 1
      BY <1>2, <1>3, <2>2, FS_RemoveElement
    <3>2. KeyOf(e) - KeyOf(s[t]) = -1
      BY <1>5, <2>2 DEF KeyOf
    <3> QED BY <1>3, <2>1, <3>1, <3>2 DEF S
  <2>3. CASE ~Exists(s[t])
    <3>1. Cardinality(S \ {t[2]}) = Cardinality(S)
      <4>1. S \ {t[2]} = S
        BY <1>2, <2>3
      <4> QED BY <4>1
    <3>2. KeyOf(e) - KeyOf(s[t]) = 0
      BY <1>5, <2>3 DEF KeyOf
    <3> QED BY <1>3, <2>1, <3>1, <3>2 DEF S
  <2> QED BY <2>2, <2>3
<1> QED BY <1>4, <1>5

LEMMA BytesReplaced ==
  ASSUME IsFiniteSet(Keys), NEW s \in [Topics -> Chain], NEW t \in Topics, NEW e \in Chain,
         NEW z, Replaced(z, s, t, e)
  PROVE  BytesIn(z, t[1]) = BytesIn(s, t[1]) + (BytesOf(e) - BytesOf(s[t]))
<1> DEFINE n == t[1]
           q == t[2]
           f == [k \in Keys |-> BytesOf(s[<<n, k>>])]
           h == [k \in Keys |-> BytesOf(z[<<n, k>>])]
           r == [k \in Keys \ {q} |-> BytesOf(s[<<n, k>>])]
<1>1. t = <<n, q>> /\ n \in Namespaces /\ q \in Keys
  BY DEF Topics
<1>2. z \in [Topics -> Chain]
  BY DEF Replaced
<1>3. \A k \in Keys : s[<<n, k>>] \in Chain /\ z[<<n, k>>] \in Chain
  BY <1>1, <1>2 DEF Topics
<1>4. \A k \in Keys : f[k] \in Nat /\ h[k] \in Nat
  BY <1>3, BytesOfType
<1>5. \A k \in Keys \ {q} : r[k] = f[k] /\ h[k] = f[k]
  <2>1. \A k \in Keys \ {q} : <<n, k>> \in Topics /\ <<n, k>> # t
    BY <1>1 DEF Topics
  <2> QED BY <2>1 DEF Replaced
<1>6. f[q] = BytesOf(s[t]) /\ h[q] = BytesOf(e)
  BY <1>1 DEF Replaced
<1>7. DOMAIN f = Keys /\ DOMAIN h = Keys /\ DOMAIN r = Keys \ {q}
  OBVIOUS
<1>8. BytesIn(s, n) = SumFunction(f) /\ BytesIn(z, n) = SumFunction(h)
  BY DEF BytesIn
<1> HIDE DEF f, h, r, n, q
<1>9. SumFunction(f) = f[q] + SumFunction(r)
  <2>1. \A k \in DOMAIN r : r[k] = f[k]
    BY <1>5, <1>7
  <2>2. IsFiniteSet(DOMAIN f) /\ \A k \in DOMAIN f : f[k] \in Nat
    BY <1>4, <1>7
  <2>3. q \in DOMAIN f /\ DOMAIN r = DOMAIN f \ {q}
    BY <1>1, <1>7
  <2> QED BY <2>1, <2>2, <2>3, SumWithout
<1>10. SumFunction(h) = h[q] + SumFunction(r)
  <2>1. \A k \in DOMAIN r : r[k] = h[k]
    BY <1>5, <1>7
  <2>2. IsFiniteSet(DOMAIN h) /\ \A k \in DOMAIN h : h[k] \in Nat
    BY <1>4, <1>7
  <2>3. q \in DOMAIN h /\ DOMAIN r = DOMAIN h \ {q}
    BY <1>1, <1>7
  <2> QED BY <2>1, <2>2, <2>3, SumWithout
<1>11. SumFunction(r) \in Nat
  <2>1. IsFiniteSet(Keys \ {q})
    BY FS_Subset
  <2>2. IsFiniteSet(DOMAIN r) /\ \A k \in DOMAIN r : r[k] \in Nat
    BY <1>4, <1>5, <1>7, <2>1
  <2> QED BY <2>2, SumType
<1>12. f[q] \in Nat /\ h[q] \in Nat
  BY <1>1, <1>4
<1>13. SumFunction(h) = SumFunction(f) + (h[q] - f[q])
  BY <1>9, <1>10, <1>11, <1>12
<1> QED BY <1>6, <1>8, <1>13 DEF n

-----------------------------------------------------------------------------
(* What a deed means for one namespace.                                    *)

KeepsAll(n) ==
  /\ Entries(store', n) = Entries(store, n) /\ BytesIn(store', n) = BytesIn(store, n)
  /\ usage'[n] = usage[n]

Untouched(n) == KeepsAll(n) /\ reg'[n] = reg[n] /\ grants'[n] = grants[n]

Opened(n) ==
  /\ KeepsAll(n) /\ grants'[n] = grants[n] /\ reg[n] = NoNS
  /\ reg'[n] \in NSMeta /\ reg'[n].maxKeys # 0 /\ reg'[n].maxBytes # 0

Regranted(n) == KeepsAll(n) /\ reg'[n] = reg[n] /\ reg[n] # NoNS

Emptied(n) ==
  /\ reg'[n] = NoNS /\ usage'[n] = NoUsage /\ \A a \in Actors : grants'[n][a] = RoleNone
  /\ Entries(store', n) = {} /\ BytesIn(store', n) = 0

Changed(n) ==
  \E k \in Int, b \in Int :
    /\ reg[n] # NoNS \/ Entries(store, n) # {}
    /\ (k <= 0 /\ b <= 0) \/ (reg[n] # NoNS /\ Allowed(n, k, b))
    /\ Cardinality(Entries(store', n)) = Cardinality(Entries(store, n)) + k
    /\ BytesIn(store', n) = BytesIn(store, n) + b
    /\ usage'[n] = Add(usage[n], k, b)
    /\ reg'[n] = reg[n] /\ grants'[n] = grants[n]

LEMMA AddType ==
  ASSUME NEW u \in Usage, NEW k \in Int, NEW b \in Int
  PROVE  /\ Add(u, k, b) \in Usage
         /\ u.keys + k >= 0 => Add(u, k, b).keys = u.keys + k
         /\ u.bytes + b >= 0 => Add(u, k, b).bytes = u.bytes + b
<1>1. u.keys \in Nat /\ u.bytes \in Nat
  BY DEF Usage
<1>2. AtLeast0(u.keys + k) \in Nat /\ AtLeast0(u.bytes + b) \in Nat
  BY <1>1 DEF AtLeast0
<1>3. /\ u.keys + k >= 0 => AtLeast0(u.keys + k) = u.keys + k
      /\ u.bytes + b >= 0 => AtLeast0(u.bytes + b) = u.bytes + b
  BY <1>1 DEF AtLeast0
<1> QED BY <1>2, <1>3 DEF Add, Usage

LEMMA DifferenceTypes ==
  ASSUME NEW s \in [Topics -> Chain], NEW t \in Topics, NEW e \in Chain
  PROVE  KeyOf(e) - KeyOf(s[t]) \in Int /\ BytesOf(e) - BytesOf(s[t]) \in Int
<1>1. BytesOf(e) \in Nat /\ BytesOf(s[t]) \in Nat /\ KeyOf(e) \in Nat /\ KeyOf(s[t]) \in Nat
  BY BytesOfType DEF KeyOf
<1> QED BY <1>1

LEMMA DeedKeepsTypes == HubTyped /\ Deed => HubTyped'
<1> SUFFICES ASSUME HubTyped, Deed PROVE HubTyped'
  OBVIOUS
<1>1. reg \in Registries /\ SoundStore(store) /\ grants \in GrantMaps /\ usage \in UsageMaps
  BY DEF HubTyped, Typed
<1>2. CASE UNCHANGED <<reg, grants, store, usage>>
  BY <1>1, <1>2 DEF HubTyped, Typed
<1>3. ASSUME NEW n \in Namespaces, Created(n) PROVE HubTyped'
  <2>1. reg' \in Registries
    BY <1>1, <1>3 DEF Created, Registries
  <2> QED BY <1>1, <1>3, <2>1 DEF Created, HubTyped, Typed
<1>4. ASSUME NEW n \in Namespaces, Dropped(n) PROVE HubTyped'
  <2>1. reg' \in Registries /\ grants' \in GrantMaps
    BY <1>1, <1>4 DEF Dropped, Registries, GrantMaps, RoleNone
  <2>2. usage' \in UsageMaps
    <3>1. NoUsage \in Usage
      BY DEF NoUsage, Usage
    <3> QED BY <1>1, <1>4, <3>1 DEF Dropped, UsageMaps
  <2>3. SoundStore(store')
    BY <1>1, <1>4, AbsentSound DEF Dropped, SoundStore
  <2> QED BY <2>1, <2>2, <2>3 DEF HubTyped, Typed
<1>5. ASSUME NEW n \in Namespaces, Granted(n) PROVE HubTyped'
  <2>1. grants' \in GrantMaps
    BY <1>1, <1>5 DEF Granted, GrantMaps
  <2> QED BY <1>1, <1>5, <2>1 DEF Granted, HubTyped, Typed
<1>6. ASSUME NEW t \in Topics, NEW e \in Chain, Sound(e), Charged(t, e) PROVE HubTyped'
  <2> DEFINE k == KeyOf(e) - KeyOf(store[t])
             b == BytesOf(e) - BytesOf(store[t])
  <2>1. k \in Int /\ b \in Int
    BY <1>1, DifferenceTypes DEF SoundStore
  <2>2. Charging(t, e, k, b)
    BY <1>6 DEF Charged
  <2> HIDE DEF k, b
  <2>3. t[1] \in Namespaces /\ usage[t[1]] \in Usage
    BY <1>1 DEF Topics, UsageMaps
  <2>4. usage' \in UsageMaps
    BY <1>1, <2>1, <2>2, <2>3, AddType DEF Charging, UsageMaps
  <2>5. SoundStore(store')
    BY <1>1, <1>6, <2>2 DEF Charging, SoundStore
  <2> QED BY <1>1, <2>2, <2>4, <2>5 DEF Charging, HubTyped, Typed
<1> QED BY <1>2, <1>3, <1>4, <1>5, <1>6 DEF Deed

LEMMA NamespaceDeed ==
  ASSUME IsFiniteSet(Keys), HubTyped, Deed, NEW n \in Namespaces
  PROVE  Untouched(n) \/ Opened(n) \/ Regranted(n) \/ Emptied(n) \/ Changed(n)
<1>1. /\ reg \in Registries /\ grants \in GrantMaps /\ usage \in UsageMaps
      /\ store \in [Topics -> Chain]
  BY DEF HubTyped, Typed, SoundStore
<1>2. CASE UNCHANGED <<reg, grants, store, usage>>
  BY <1>2 DEF Untouched, KeepsAll
<1>3. ASSUME NEW m \in Namespaces, Created(m) PROVE Untouched(n) \/ Opened(n)
  <2>1. CASE n = m
    BY <1>1, <1>3, <2>1 DEF Created, Registries, Opened, KeepsAll
  <2>2. CASE n # m
    BY <1>1, <1>3, <2>2 DEF Created, Registries, Untouched, KeepsAll
  <2> QED BY <2>1, <2>2
<1>4. ASSUME NEW m \in Namespaces, Granted(m) PROVE Untouched(n) \/ Regranted(n)
  <2>1. CASE n = m
    BY <1>1, <1>4, <2>1 DEF Granted, Regranted, KeepsAll
  <2>2. CASE n # m
    BY <1>1, <1>4, <2>2 DEF Granted, GrantMaps, Untouched, KeepsAll
  <2> QED BY <2>1, <2>2
<1>5. ASSUME NEW m \in Namespaces, Dropped(m) PROVE Untouched(n) \/ Emptied(n)
  <2>1. \A k \in Keys : /\ <<n, k>> \in Topics
                        /\ store'[<<n, k>>] = IF n = m THEN Absent ELSE store[<<n, k>>]
    BY <1>5 DEF Dropped, Topics
  <2>2. CASE n = m
    <3>1. Entries(store', n) = {}
      BY <2>1, <2>2 DEF Entries, Exists, Absent
    <3>2. store' \in [Topics -> Chain]
      BY <1>1, <1>5, AbsentSound DEF Dropped
    <3>3. BytesIn(store', n) = 0
      BY <3>1, <3>2, BytesInType
    <3>4. reg'[n] = NoNS /\ usage'[n] = NoUsage /\ \A a \in Actors : grants'[n][a] = RoleNone
      BY <1>1, <1>5, <2>2 DEF Dropped, Registries, GrantMaps, UsageMaps
    <3> QED BY <3>1, <3>3, <3>4 DEF Emptied
  <2>3. CASE n # m
    <3>1. Entries(store', n) = Entries(store, n)
      BY <2>1, <2>3 DEF Entries
    <3>2. BytesIn(store', n) = BytesIn(store, n)
      BY <2>1, <2>3 DEF BytesIn
    <3> QED BY <1>1, <1>5, <2>3, <3>1, <3>2
            DEF Dropped, Registries, GrantMaps, UsageMaps, Untouched, KeepsAll
  <2> QED BY <2>2, <2>3
<1>6. ASSUME NEW t \in Topics, NEW e \in Chain, Charged(t, e) PROVE Untouched(n) \/ Changed(n)
  <2> DEFINE k == KeyOf(e) - KeyOf(store[t])
             b == BytesOf(e) - BytesOf(store[t])
  <2>1. k \in Int /\ b \in Int
    BY <1>1, DifferenceTypes
  <2>2. Charging(t, e, k, b)
    BY <1>6 DEF Charged
  <2>3. Replaced(store', store, t, e)
    BY <2>2 DEF Charging, Replaced
  <2>4. CASE n = t[1]
    <3>1. Cardinality(Entries(store', n)) = Cardinality(Entries(store, n)) + k
      BY <1>1, <2>3, <2>4, KeysReplaced
    <3>2. BytesIn(store', n) = BytesIn(store, n) + b
      BY <1>1, <2>3, <2>4, BytesReplaced
    <3> HIDE DEF k, b
    <3>3. reg[n] # NoNS \/ Entries(store, n) # {}
      <4>1. t = <<t[1], t[2]>> /\ t[2] \in Keys
        BY DEF Topics
      <4> QED BY <2>2, <2>4, <4>1 DEF Charging, Entries
    <3>4. usage'[n] = Add(usage[n], k, b)
      BY <1>1, <2>2, <2>4 DEF Charging, UsageMaps
    <3> QED BY <2>1, <2>2, <2>4, <3>1, <3>2, <3>3, <3>4 DEF Charging, Changed
  <2>5. CASE n # t[1]
    <3>1. Entries(store', n) = Entries(store, n) /\ BytesIn(store', n) = BytesIn(store, n)
      BY <1>1, <2>3, <2>5, OthersKept
    <3> HIDE DEF k, b
    <3> QED BY <1>1, <2>2, <2>5, <3>1 DEF Charging, UsageMaps, Untouched, KeepsAll
  <2> QED BY <2>4, <2>5
<1> QED BY <1>2, <1>3, <1>4, <1>5, <1>6 DEF Deed

-----------------------------------------------------------------------------
(* Four invariants of a namespace, as the maps r, s, g and u have it.      *)

(* It is charged for what it holds,                                        *)
Exact(n, s, u) ==
  u[n].keys = Cardinality(Entries(s, n)) /\ u[n].bytes = BytesIn(s, n)

(* or at least for that (Covered);                                         *)
(* it is within its limits while it is registered, and has no entries when *)
(* it is not;                                                              *)
Fits(n, r, s) ==
  IF r[n] = NoNS
  THEN Entries(s, n) = {}
  ELSE /\ r[n].maxKeys # 0 /\ r[n].maxBytes # 0
       /\ Cardinality(Entries(s, n)) <= r[n].maxKeys /\ BytesIn(s, n) <= r[n].maxBytes

(* and it has neither grants nor charges when it is not registered.        *)
Clean(n, r, g, u) == r[n] = NoNS => u[n] = NoUsage /\ \A a \in Actors : g[n][a] = RoleNone

(* The numbers of namespace n, before and after a step.                    *)
LEMMA Numbers ==
  ASSUME IsFiniteSet(Keys), NEW r, NEW s, NEW g, NEW u, Typed(r, s, g, u), NEW n \in Namespaces
  PROVE  /\ u[n] \in Usage /\ u[n].keys \in Nat /\ u[n].bytes \in Nat
         /\ Cardinality(Entries(s, n)) \in Nat /\ BytesIn(s, n) \in Nat
         /\ r[n] # NoNS => r[n].maxKeys \in Nat /\ r[n].maxBytes \in Nat
         /\ Entries(s, n) = {} => Cardinality(Entries(s, n)) = 0 /\ BytesIn(s, n) = 0
         /\ Cardinality(Entries(s, n)) = 0 => Entries(s, n) = {}
<1>1. u[n] \in Usage /\ s \in [Topics -> Chain] /\ r[n] \in NSMeta \cup {NoNS}
  BY DEF Typed, UsageMaps, SoundStore, Registries
<1> QED BY <1>1, EntriesFinite, BytesInType DEF Usage, NSMeta

LEMMA DeedNumbers ==
  ASSUME IsFiniteSet(Keys), HubTyped, Deed, NEW n \in Namespaces, Changed(n),
         Covered(n, store, usage)
  PROVE  \E k \in Int, b \in Int :
           /\ reg[n] # NoNS \/ Entries(store, n) # {}
           /\ (k <= 0 /\ b <= 0) \/ (reg[n] # NoNS /\ Allowed(n, k, b))
           /\ Cardinality(Entries(store', n)) = Cardinality(Entries(store, n)) + k
           /\ BytesIn(store', n) = BytesIn(store, n) + b
           /\ usage'[n].keys = usage[n].keys + k /\ usage'[n].bytes = usage[n].bytes + b
           /\ reg'[n] = reg[n] /\ grants'[n] = grants[n]
<1>1. PICK k \in Int, b \in Int :
        /\ reg[n] # NoNS \/ Entries(store, n) # {}
        /\ (k <= 0 /\ b <= 0) \/ (reg[n] # NoNS /\ Allowed(n, k, b))
        /\ Cardinality(Entries(store', n)) = Cardinality(Entries(store, n)) + k
        /\ BytesIn(store', n) = BytesIn(store, n) + b
        /\ usage'[n] = Add(usage[n], k, b)
        /\ reg'[n] = reg[n] /\ grants'[n] = grants[n]
  BY DEF Changed
<1>2. /\ usage[n] \in Usage /\ usage[n].keys \in Nat /\ usage[n].bytes \in Nat
      /\ Cardinality(Entries(store, n)) \in Nat /\ BytesIn(store, n) \in Nat
  BY Numbers DEF HubTyped
<1>3. Cardinality(Entries(store', n)) \in Nat /\ BytesIn(store', n) \in Nat
  <2>1. Typed(reg', store', grants', usage')
    BY DeedKeepsTypes DEF HubTyped
  <2> QED BY <2>1, Numbers
<1>4. usage[n].keys + k >= 0 /\ usage[n].bytes + b >= 0
  BY <1>1, <1>2, <1>3 DEF Covered
<1>5. usage'[n].keys = usage[n].keys + k /\ usage'[n].bytes = usage[n].bytes + b
  BY <1>1, <1>2, <1>4, AddType
<1> QED BY <1>1, <1>5

LEMMA ExactStays ==
  ASSUME IsFiniteSet(Keys), HubTyped, Deed, NEW n \in Namespaces, Exact(n, store, usage)
  PROVE  Exact(n, store', usage')
<1>1. /\ usage[n].keys \in Nat /\ usage[n].bytes \in Nat
      /\ Cardinality(Entries(store, n)) \in Nat /\ BytesIn(store, n) \in Nat
  BY Numbers DEF HubTyped
<1>2. Covered(n, store, usage)
  BY <1>1 DEF Exact, Covered
<1>3. CASE KeepsAll(n)
  BY <1>3 DEF KeepsAll, Exact
<1>4. CASE Emptied(n)
  BY <1>4, FS_EmptySet DEF Emptied, Exact, NoUsage
<1>5. CASE Changed(n)
  BY <1>1, <1>2, <1>5, DeedNumbers DEF Exact
<1> QED BY <1>3, <1>4, <1>5, NamespaceDeed DEF Untouched, Opened, Regranted

LEMMA CoveredStays ==
  ASSUME IsFiniteSet(Keys), HubTyped, Deed, NEW n \in Namespaces, Covered(n, store, usage)
  PROVE  Covered(n, store', usage')
<1>1. /\ usage[n].keys \in Nat /\ usage[n].bytes \in Nat
      /\ Cardinality(Entries(store, n)) \in Nat /\ BytesIn(store, n) \in Nat
  BY Numbers DEF HubTyped
<1>2. CASE KeepsAll(n)
  BY <1>2 DEF KeepsAll, Covered
<1>3. CASE Emptied(n)
  BY <1>3, FS_EmptySet DEF Emptied, Covered, NoUsage
<1>4. CASE Changed(n)
  BY <1>1, <1>4, DeedNumbers DEF Covered
<1> QED BY <1>2, <1>3, <1>4, NamespaceDeed DEF Untouched, Opened, Regranted

(* A namespace that is charged for at least what it holds does not grow    *)
(* over its limits (Limiter.Check before, Counter.Commit after).           *)
LEMMA FitsStays ==
  ASSUME IsFiniteSet(Keys), HubTyped, Deed, NEW n \in Namespaces,
         Covered(n, store, usage), Fits(n, reg, store)
  PROVE  Fits(n, reg', store')
<1>1. /\ usage[n].keys \in Nat /\ usage[n].bytes \in Nat
      /\ Cardinality(Entries(store, n)) \in Nat /\ BytesIn(store, n) \in Nat
      /\ reg[n] # NoNS => reg[n].maxKeys \in Nat /\ reg[n].maxBytes \in Nat
      /\ Entries(store, n) = {} => Cardinality(Entries(store, n)) = 0 /\ BytesIn(store, n) = 0
  BY Numbers DEF HubTyped
<1>2. CASE Untouched(n) \/ Regranted(n)
  BY <1>2 DEF Untouched, Regranted, KeepsAll, Fits
<1>3. CASE Opened(n)
  <2>1. reg'[n] # NoNS /\ reg'[n].maxKeys \in Nat \ {0} /\ reg'[n].maxBytes \in Nat \ {0}
    BY <1>3, NoNSAssumption DEF Opened, NSMeta
  <2>2. Cardinality(Entries(store', n)) = 0 /\ BytesIn(store', n) = 0
    BY <1>1, <1>3 DEF Opened, KeepsAll, Fits
  <2> QED BY <2>1, <2>2 DEF Fits
<1>4. CASE Emptied(n)
  BY <1>4 DEF Emptied, Fits
<1>5. CASE Changed(n)
  <2>1. PICK k \in Int, b \in Int :
          /\ reg[n] # NoNS \/ Entries(store, n) # {}
          /\ (k <= 0 /\ b <= 0) \/ (reg[n] # NoNS /\ Allowed(n, k, b))
          /\ Cardinality(Entries(store', n)) = Cardinality(Entries(store, n)) + k
          /\ BytesIn(store', n) = BytesIn(store, n) + b
          /\ reg'[n] = reg[n]
    BY <1>5 DEF Changed
  <2>2. reg[n] # NoNS
    BY <2>1 DEF Fits
  <2>3. /\ reg[n].maxKeys \in Nat \ {0} /\ reg[n].maxBytes \in Nat \ {0}
        /\ Cardinality(Entries(store, n)) <= reg[n].maxKeys /\ BytesIn(store, n) <= reg[n].maxBytes
    BY <1>1, <2>2 DEF Fits
  <2>4. /\ Cardinality(Entries(store, n)) + k <= reg[n].maxKeys
        /\ BytesIn(store, n) + b <= reg[n].maxBytes
    <3>1. CASE k <= 0 /\ b <= 0
      BY <1>1, <2>3, <3>1
    <3>2. CASE Allowed(n, k, b)
      BY <1>1, <2>3, <3>2 DEF Allowed, Covered
    <3> QED BY <2>1, <3>1, <3>2
  <2> QED BY <2>1, <2>2, <2>3, <2>4 DEF Fits
<1> QED BY <1>2, <1>3, <1>4, <1>5, NamespaceDeed

LEMMA CleanStays ==
  ASSUME IsFiniteSet(Keys), HubTyped, Deed, NEW n \in Namespaces,
         Fits(n, reg, store), Clean(n, reg, grants, usage)
  PROVE  Clean(n, reg', grants', usage')
<1>1. CASE Untouched(n)
  BY <1>1 DEF Untouched, KeepsAll, Clean
<1>2. CASE Opened(n)
  BY <1>2, NoNSAssumption DEF Opened, Clean
<1>3. CASE Regranted(n)
  BY <1>3 DEF Regranted, Clean
<1>4. CASE Emptied(n)
  BY <1>4 DEF Emptied, Clean
<1>5. CASE Changed(n)
  <2>1. reg'[n] # NoNS
    BY <1>5 DEF Changed, Fits
  <2> QED BY <2>1 DEF Clean
<1> QED BY <1>1, <1>2, <1>3, <1>4, <1>5, NamespaceDeed

(* The hub that was just made, and the snapshot that nobody exported yet.  *)
LEMMA EmptyIsFine ==
  /\ Typed(EmptyBlob.reg, EmptyBlob.store, EmptyBlob.grants, EmptyBlob.usage)
  /\ IsFiniteSet(Keys) => \A n \in Namespaces :
       /\ Exact(n, EmptyBlob.store, EmptyBlob.usage)
       /\ Covered(n, EmptyBlob.store, EmptyBlob.usage)
       /\ Fits(n, EmptyBlob.reg, EmptyBlob.store)
       /\ Clean(n, EmptyBlob.reg, EmptyBlob.grants, EmptyBlob.usage)
<1>1. /\ EmptyBlob.reg = [n \in Namespaces |-> NoNS]
      /\ EmptyBlob.store = [t \in Topics |-> Absent]
      /\ EmptyBlob.grants = [n \in Namespaces |-> [a \in Actors |-> RoleNone]]
      /\ EmptyBlob.usage = [n \in Namespaces |-> NoUsage]
  BY DEF EmptyBlob
<1>2. Typed(EmptyBlob.reg, EmptyBlob.store, EmptyBlob.grants, EmptyBlob.usage)
  <2>1. NoUsage \in Usage
    BY DEF NoUsage, Usage
  <2>2. EmptyBlob.reg \in Registries /\ EmptyBlob.grants \in GrantMaps /\ EmptyBlob.usage \in UsageMaps
    BY <1>1, <2>1 DEF Registries, GrantMaps, UsageMaps, RoleNone
  <2>3. SoundStore(EmptyBlob.store)
    BY <1>1, AbsentSound DEF SoundStore
  <2> QED BY <2>2, <2>3 DEF Typed
<1>3. ASSUME IsFiniteSet(Keys), NEW n \in Namespaces
      PROVE  /\ Exact(n, EmptyBlob.store, EmptyBlob.usage)
             /\ Covered(n, EmptyBlob.store, EmptyBlob.usage)
             /\ Fits(n, EmptyBlob.reg, EmptyBlob.store)
             /\ Clean(n, EmptyBlob.reg, EmptyBlob.grants, EmptyBlob.usage)
  <2>1. Entries(EmptyBlob.store, n) = {}
    BY <1>1 DEF Entries, Topics, Exists, Absent
  <2>2. Cardinality(Entries(EmptyBlob.store, n)) = 0 /\ BytesIn(EmptyBlob.store, n) = 0
    BY <1>2, <1>3, <2>1, Numbers
  <2>3. EmptyBlob.usage[n].keys = 0 /\ EmptyBlob.usage[n].bytes = 0 /\ EmptyBlob.usage[n] = NoUsage
    BY <1>1 DEF NoUsage
  <2> QED BY <1>1, <2>1, <2>2, <2>3 DEF Exact, Covered, Fits, Clean
<1> QED BY <1>2, <1>3

LEMMA InitIsEmpty ==
  ASSUME Init
  PROVE  /\ reg = EmptyBlob.reg /\ store = EmptyBlob.store
         /\ grants = EmptyBlob.grants /\ usage = EmptyBlob.usage /\ blob = EmptyBlob
BY DEF Init

LEMMA BuiltIs ==
  /\ Built.reg = reg /\ Built.store = store /\ Built.grants = grants /\ Built.usage = usage
BY DEF Built

-----------------------------------------------------------------------------
(* Imports.                                                                *)

(* What is imported has its types, if it is not refused.                   *)
LEMMA ImportedTyped ==
  ASSUME BlobTyped, NEW b \in {blob} \cup Foreign
  PROVE  /\ b.reg \in Registries /\ b.grants \in GrantMaps
         /\ ~Refused(b) => Typed(b.reg, b.store, b.grants, b.usage)
<1>1. CASE b = blob
  BY <1>1 DEF BlobTyped, Typed
<1>2. CASE b \in Foreign
  BY <1>2, ForeignTyped, PassedIsSound DEF Typed, Registries, GrantMaps, UsageMaps
<1> QED BY <1>1, <1>2

(* The hub's own snapshot is never refused.                                *)
LEMMA OwnPasses == BlobTyped => ~Refused(blob)
BY DEF BlobTyped, Typed, SoundStore, Sound, Refused

(* recalcQuotaLocked charges each namespace of the imported entries for    *)
(* just what it has.                                                       *)
LEMMA RecalculatedIs ==
  ASSUME IsFiniteSet(Keys), HubTyped, NEW b, Typed(b.reg, b.store, b.grants, b.usage)
  PROVE  /\ Recalculated(b) \in UsageMaps
         /\ \A n \in Namespaces : Covered(n, b.store, Recalculated(b))
<1> SUFFICES ASSUME NEW n \in Namespaces
             PROVE  Recalculated(b)[n] \in Usage /\ Covered(n, b.store, Recalculated(b))
  BY DEF Recalculated, UsageMaps
<1> DEFINE S == Entries(b.store, n)
<1>1. /\ Cardinality(S) \in Nat /\ BytesIn(b.store, n) \in Nat
      /\ S = {} => Cardinality(S) = 0 /\ BytesIn(b.store, n) = 0
  BY Numbers
<1>2. usage[n] \in Usage /\ usage[n].keys \in Nat /\ usage[n].bytes \in Nat
  BY Numbers DEF HubTyped
<1>3. CASE S # {}
  <2>1. Recalculated(b)[n] = [keys |-> Cardinality(S), bytes |-> BytesIn(b.store, n)]
    BY <1>3 DEF Recalculated
  <2> QED BY <1>1, <2>1 DEF Usage, Covered
<1>4. CASE S = {} /\ b.reg[n] # NoNS
  <2>1. Recalculated(b)[n] = NoUsage
    BY <1>4 DEF Recalculated
  <2> QED BY <1>1, <1>4, <2>1 DEF NoUsage, Usage, Covered
<1>5. CASE S = {} /\ b.reg[n] = NoNS
  <2>1. Recalculated(b)[n] = usage[n]
    BY <1>5 DEF Recalculated
  <2> QED BY <1>1, <1>2, <1>5, <2>1 DEF Covered
<1> QED BY <1>3, <1>4, <1>5

(* What an import leaves: the registry of the snapshot, the grants of the  *)
(* snapshot or those there were, and, unless an entry was refused, the     *)
(* entries of the snapshot with its counters or with a count.              *)
LEMMA ImportChanges ==
  ASSUME NEW b, NEW form, ImportOpen(b, form)
  PROVE  /\ reg' = b.reg /\ blob' = blob
         /\ grants' = grants \/ grants' = b.grants
         /\ Refused(b) => UNCHANGED <<store, usage>>
         /\ ~Refused(b) => store' = b.store /\ (usage' = b.usage \/ usage' = Recalculated(b))
         /\ form = "blob" => grants' = b.grants /\ (~Refused(b) => usage' = b.usage)
<1>1. PICK missing \in Missing(form, b) :
        /\ ReplaceGrants(b, missing)
        /\ Refused(b) => UNCHANGED <<store, usage>>
        /\ ~Refused(b) => ReplaceStore(b) /\ ReplaceUsage(b, missing)
  BY DEF ImportOpen, Import
<1>2. form = "blob" => missing = {}
  BY DEF Missing
<1>3. reg' = b.reg /\ blob' = blob
  BY DEF ImportOpen, Import, ReplaceRegistry
<1> QED BY <1>1, <1>2, <1>3 DEF ReplaceGrants, ReplaceStore, ReplaceUsage

LEMMA ImportKeepsTypes ==
  ASSUME IsFiniteSet(Keys), HubTyped, BlobTyped,
         NEW b \in {blob} \cup Foreign, NEW form, ImportOpen(b, form)
  PROVE  HubTyped'
<1>1. reg' \in Registries /\ grants' \in GrantMaps
  BY ImportChanges, ImportedTyped DEF HubTyped, Typed
<1>2. CASE Refused(b)
  BY <1>1, <1>2, ImportChanges DEF HubTyped, Typed
<1>3. CASE ~Refused(b)
  <2>1. Typed(b.reg, b.store, b.grants, b.usage)
    BY <1>3, ImportedTyped
  <2>2. SoundStore(store') /\ usage' \in UsageMaps
    BY <1>3, <2>1, ImportChanges, RecalculatedIs DEF Typed
  <2> QED BY <1>1, <2>2 DEF HubTyped, Typed
<1> QED BY <1>2, <1>3

-----------------------------------------------------------------------------
(* The theorems.                                                           *)

BothTyped == HubTyped /\ BlobTyped

(* An invariant step: a deed, after which the snapshot is what it was or   *)
(* what the hub was; or an import.                                         *)
DeedStep ==
  Deed /\ (blob' = blob \/ (/\ blob'.reg = reg /\ blob'.store = store
                            /\ blob'.grants = grants /\ blob'.usage = usage))

LEMMA StepIsDeed ==
  ASSUME HubTyped, [Next]_vars
  PROVE  DeedStep \/ \E b \in {blob} \cup Foreign, form \in Forms : ImportOpen(b, form)
<1>1. ASSUME Operation PROVE DeedStep
  BY <1>1, OperationIsDeed, OperationKeepsBlob, BuiltIs DEF DeedStep
<1> QED BY <1>1, StepIsOperation

LEMMA BothTypedInit == Init => BothTyped
<1> SUFFICES ASSUME Init PROVE BothTyped
  OBVIOUS
<1> QED BY InitIsEmpty, EmptyIsFine DEF BothTyped, HubTyped, BlobTyped

LEMMA BothTypedStep == ASSUME IsFiniteSet(Keys) PROVE BothTyped /\ [Next]_vars => BothTyped'
<1> SUFFICES ASSUME BothTyped, [Next]_vars PROVE BothTyped'
  OBVIOUS
<1>1. HubTyped /\ BlobTyped
  BY DEF BothTyped
<1>2. CASE DeedStep
  <2>1. HubTyped'
    BY <1>1, <1>2, DeedKeepsTypes DEF DeedStep
  <2>2. BlobTyped'
    BY <1>1, <1>2 DEF DeedStep, HubTyped, BlobTyped
  <2> QED BY <2>1, <2>2 DEF BothTyped
<1>3. ASSUME NEW b \in {blob} \cup Foreign, NEW form \in Forms, ImportOpen(b, form) PROVE BothTyped'
  <2>1. HubTyped'
    BY <1>1, <1>3, ImportKeepsTypes
  <2>2. blob' = blob
    BY <1>3, ImportChanges
  <2> QED BY <1>1, <2>1, <2>2 DEF BothTyped, BlobTyped
<1> QED BY <1>1, <1>2, <1>3, StepIsDeed

(* What is asked of the snapshots from elsewhere: counters that are exact. *)
ExactSnapshots == \A b \in Foreign : \A n \in Namespaces : Exact(n, b.store, b.usage)

ExactInv ==
  /\ BothTyped
  /\ \A n \in Namespaces : Exact(n, store, usage) /\ Exact(n, blob.store, blob.usage)

LEMMA ExactInvInit == IsFiniteSet(Keys) /\ Init => ExactInv
<1> SUFFICES ASSUME IsFiniteSet(Keys), Init PROVE ExactInv
  OBVIOUS
<1> QED BY InitIsEmpty, EmptyIsFine, BothTypedInit DEF ExactInv

LEMMA ExactInvStep ==
  ASSUME IsFiniteSet(Keys), ExactSnapshots, Forms \subseteq {"blob"}, ExactInv, [Next]_vars
  PROVE  ExactInv'
<1>1. HubTyped /\ BothTyped'
  BY BothTypedStep DEF ExactInv, BothTyped
<1>2. CASE DeedStep
  <2>1. ASSUME NEW n \in Namespaces
        PROVE  Exact(n, store', usage') /\ Exact(n, blob'.store, blob'.usage)
    BY <1>1, <1>2, ExactStays DEF ExactInv, DeedStep
  <2> QED BY <1>1, <2>1 DEF ExactInv
<1>3. ASSUME NEW b \in {blob} \cup Foreign, NEW form \in Forms, ImportOpen(b, form) PROVE ExactInv'
  <2>1. form = "blob"
    OBVIOUS
  <2>2. /\ blob' = blob
        /\ UNCHANGED <<store, usage>> \/ (store' = b.store /\ usage' = b.usage)
    BY <1>3, <2>1, ImportChanges
  <2>3. ASSUME NEW n \in Namespaces PROVE Exact(n, store', usage')
    BY <2>2 DEF ExactInv, ExactSnapshots
  <2> QED BY <1>1, <2>2, <2>3 DEF ExactInv
<1> QED BY <1>1, <1>2, <1>3, StepIsDeed

(* While snapshots come with their counters (a Blob, or its binary         *)
(* encoding), and those from elsewhere with exact ones, every namespace is *)
(* charged for just the keys and the bytes it holds, whatever is           *)
(* published, rolled back, deleted, created again, imported, or refused by *)
(* an import.                                                              *)
THEOREM QuotaStaysExact ==
  ASSUME IsFiniteSet(Keys), ExactSnapshots, Forms \subseteq {"blob"}
  PROVE  Spec => []QuotaExact
<1>1. Init => ExactInv
  BY ExactInvInit
<1>2. ExactInv /\ [Next]_vars => ExactInv'
  BY ExactInvStep
<1>3. ExactInv => QuotaExact
  BY DEF ExactInv, Exact, QuotaExact, KeysExact, BytesExact
<1> QED BY <1>1, <1>2, <1>3, PTL DEF Spec

CoverInv ==
  /\ BothTyped
  /\ \A n \in Namespaces : Covered(n, store, usage) /\ Covered(n, blob.store, blob.usage)

LEMMA CoverInvInit == IsFiniteSet(Keys) /\ Init => CoverInv
<1> SUFFICES ASSUME IsFiniteSet(Keys), Init PROVE CoverInv
  OBVIOUS
<1> QED BY InitIsEmpty, EmptyIsFine, BothTypedInit DEF CoverInv

LEMMA CoverInvStep ==
  ASSUME IsFiniteSet(Keys), CoveringSnapshots
  PROVE  CoverInv /\ [Next]_vars => CoverInv'
<1> SUFFICES ASSUME CoverInv, [Next]_vars PROVE CoverInv'
  OBVIOUS
<1>1. HubTyped /\ BlobTyped /\ BothTyped'
  BY BothTypedStep DEF CoverInv, BothTyped
<1>2. CASE DeedStep
  <2>1. ASSUME NEW n \in Namespaces
        PROVE  Covered(n, store', usage') /\ Covered(n, blob'.store, blob'.usage)
    BY <1>1, <1>2, CoveredStays DEF CoverInv, DeedStep
  <2> QED BY <1>1, <2>1 DEF CoverInv
<1>3. ASSUME NEW b \in {blob} \cup Foreign, NEW form \in Forms, ImportOpen(b, form) PROVE CoverInv'
  <2>1. blob' = blob
    BY <1>3, ImportChanges
  <2>2. ASSUME NEW n \in Namespaces PROVE Covered(n, store', usage')
    <3>1. CASE Refused(b)
      BY <1>3, <3>1, ImportChanges DEF CoverInv
    <3>2. CASE ~Refused(b)
      <4>1. Typed(b.reg, b.store, b.grants, b.usage)
        BY <1>1, <3>2, ImportedTyped
      <4>2. Covered(n, b.store, b.usage)
        BY CoveringSnapshots DEF CoverInv, CoveringSnapshots
      <4>3. Covered(n, b.store, Recalculated(b))
        BY <1>1, <4>1, RecalculatedIs
      <4> QED BY <1>3, <3>2, <4>2, <4>3, ImportChanges
    <3> QED BY <3>1, <3>2
  <2> QED BY <1>1, <2>1, <2>2 DEF CoverInv
<1> QED BY <1>1, <1>2, <1>3, StepIsDeed

(* No namespace is charged for less than it holds, in whatever form        *)
(* snapshots are imported, and wherever an import is refused (recalc-      *)
(* QuotaLocked), as long as the counters of those from elsewhere cover     *)
(* what they bring: Counter.Import takes them unseen.  The hub's own       *)
(* snapshots always do.                                                    *)
THEOREM NeverUndercharged ==
  ASSUME IsFiniteSet(Keys)
  PROVE  Spec => []QuotaNeverUnder
<1> DEFINE Inv == CoveringSnapshots => CoverInv
<1>1. Init => Inv
  BY CoverInvInit
<1>2. Inv /\ [Next]_vars => Inv'
  <2> SUFFICES ASSUME Inv, [Next]_vars, CoveringSnapshots PROVE CoverInv'
    OBVIOUS
  <2> QED BY CoverInvStep
<1>3. Inv => QuotaNeverUnder
  BY DEF CoverInv, QuotaNeverUnder
<1> QED BY <1>1, <1>2, <1>3, PTL DEF Spec

(* What is asked of the snapshots from elsewhere: that none is refused,    *)
(* which would leave the registry of the one with the entries of the       *)
(* other, and that they keep their own limits.                             *)
FittingSnapshots ==
  /\ CoveringSnapshots
  /\ \A b \in Foreign : ~Refused(b) /\ \A n \in Namespaces : Fits(n, b.reg, b.store)

FitsInv ==
  /\ CoverInv
  /\ \A n \in Namespaces : Fits(n, reg, store) /\ Fits(n, blob.reg, blob.store)

LEMMA FitsInvInit == IsFiniteSet(Keys) /\ Init => FitsInv
<1> SUFFICES ASSUME IsFiniteSet(Keys), Init PROVE FitsInv
  OBVIOUS
<1> QED BY InitIsEmpty, EmptyIsFine, CoverInvInit DEF FitsInv

LEMMA FitsInvStep ==
  ASSUME IsFiniteSet(Keys), FittingSnapshots
  PROVE  FitsInv /\ [Next]_vars => FitsInv'
<1> SUFFICES ASSUME FitsInv, [Next]_vars PROVE FitsInv'
  OBVIOUS
<1>1. HubTyped /\ BlobTyped /\ CoverInv'
  BY CoverInvStep DEF FitsInv, CoverInv, BothTyped, FittingSnapshots
<1>2. CASE DeedStep
  <2>1. ASSUME NEW n \in Namespaces
        PROVE  Fits(n, reg', store') /\ Fits(n, blob'.reg, blob'.store)
    BY <1>1, <1>2, FitsStays DEF FitsInv, CoverInv, DeedStep
  <2> QED BY <1>1, <2>1 DEF FitsInv
<1>3. ASSUME NEW b \in {blob} \cup Foreign, NEW form \in Forms, ImportOpen(b, form) PROVE FitsInv'
  <2>1. ~Refused(b)
    BY <1>1, OwnPasses DEF FittingSnapshots
  <2>2. reg' = b.reg /\ store' = b.store /\ blob' = blob
    BY <1>3, <2>1, ImportChanges
  <2>3. \A n \in Namespaces : Fits(n, b.reg, b.store)
    BY DEF FitsInv, FittingSnapshots
  <2> QED BY <1>1, <2>2, <2>3 DEF FitsInv
<1> QED BY <1>1, <1>2, <1>3, StepIsDeed

(* No registered namespace ever holds more keys or more bytes than it was  *)
(* created with (Limiter.Check and Counter.Commit together), in whatever   *)
(* form snapshots come, as long as those from elsewhere pass, keep their   *)
(* own limits, and have counters that cover them.                          *)
THEOREM QuotasHold ==
  ASSUME IsFiniteSet(Keys), FittingSnapshots
  PROVE  Spec => []WithinQuota
<1>1. Init => FitsInv
  BY FitsInvInit
<1>2. FitsInv => WithinQuota
  BY DEF FitsInv, Fits, WithinQuota, KeysWithin, BytesWithin, Registered
<1> QED BY <1>1, <1>2, FitsInvStep, PTL DEF Spec

(* What is asked of the snapshots from elsewhere: neither grants nor       *)
(* charges of namespaces they do not register.                             *)
CleanSnapshots ==
  /\ FittingSnapshots
  /\ \A b \in Foreign : \A n \in Namespaces : Clean(n, b.reg, b.grants, b.usage)

CleanInv ==
  /\ FitsInv
  /\ \A n \in Namespaces :
       Clean(n, reg, grants, usage) /\ Clean(n, blob.reg, blob.grants, blob.usage)

LEMMA CleanInvInit == IsFiniteSet(Keys) /\ Init => CleanInv
<1> SUFFICES ASSUME IsFiniteSet(Keys), Init PROVE CleanInv
  OBVIOUS
<1> QED BY InitIsEmpty, EmptyIsFine, FitsInvInit DEF CleanInv

LEMMA CleanInvStep ==
  ASSUME IsFiniteSet(Keys), CleanSnapshots, Forms \subseteq {"blob"}
  PROVE  CleanInv /\ [Next]_vars => CleanInv'
<1> SUFFICES ASSUME CleanInv, [Next]_vars PROVE CleanInv'
  OBVIOUS
<1>1. HubTyped /\ BlobTyped /\ FitsInv'
  BY FitsInvStep DEF CleanInv, FitsInv, CoverInv, BothTyped, CleanSnapshots
<1>2. CASE DeedStep
  <2>1. ASSUME NEW n \in Namespaces
        PROVE  /\ Clean(n, reg', grants', usage')
               /\ Clean(n, blob'.reg, blob'.grants, blob'.usage)
    BY <1>1, <1>2, CleanStays DEF CleanInv, FitsInv, DeedStep
  <2> QED BY <1>1, <2>1 DEF CleanInv
<1>3. ASSUME NEW b \in {blob} \cup Foreign, NEW form \in Forms, ImportOpen(b, form) PROVE CleanInv'
  <2>1. form = "blob" /\ ~Refused(b)
    BY <1>1, OwnPasses DEF CleanSnapshots, FittingSnapshots
  <2>2. reg' = b.reg /\ grants' = b.grants /\ usage' = b.usage /\ blob' = blob
    BY <1>3, <2>1, ImportChanges
  <2>3. \A n \in Namespaces : Clean(n, b.reg, b.grants, b.usage)
    BY DEF CleanInv, CleanSnapshots
  <2> QED BY <1>1, <2>2, <2>3 DEF CleanInv
<1> QED BY <1>1, <1>2, <1>3, StepIsDeed

(* A namespace that was deleted, or was never there, has no entries, no    *)
(* grants that would hold in its next life and no charges, while snapshots *)
(* come whole, pass, and leave nothing behind themselves.                  *)
THEOREM NothingStaysBehind ==
  ASSUME IsFiniteSet(Keys), CleanSnapshots, Forms \subseteq {"blob"}
  PROVE  Spec => []NothingOrphaned
<1>1. Init => CleanInv
  BY CleanInvInit
<1>2. CleanInv => NothingOrphaned
  BY DEF CleanInv, FitsInv, Clean, Fits, NothingOrphaned, Registered
<1> QED BY <1>1, <1>2, CleanInvStep, PTL DEF Spec

-----------------------------------------------------------------------------
(* Types.                                                                  *)

LEMMA AnnounceType ==
  ASSUME last \in LastMaps, NEW events \in SUBSET Event, Announce(events)
  PROVE  last' \in LastMaps
<1> SUFFICES ASSUME NEW t \in Topics
             PROVE  last'[t] \in [kind : Kinds \cup {"none"}, rev : Nat]
  BY DEF Announce, LastMaps
<1>1. CASE \E e \in events : e.topic = t
  <2> DEFINE e == CHOOSE e \in events : e.topic = t
  <2>1. e \in Event
    BY <1>1
  <2>2. last'[t] = [kind |-> e.kind, rev |-> e.rev]
    BY <1>1 DEF Announce
  <2> HIDE DEF e
  <2> QED BY <2>1, <2>2 DEF Event
<1>2. CASE ~\E e \in events : e.topic = t
  BY <1>2 DEF Announce, LastMaps
<1> QED BY <1>1, <1>2

LEMMA LastStep == StoreInv /\ last \in LastMaps /\ [Next]_vars => last' \in LastMaps
<1> SUFFICES ASSUME StoreInv, last \in LastMaps, [Next]_vars
             PROVE  last' \in LastMaps
  OBVIOUS
<1>1. /\ StoreInv'
      /\ \A t \in Topics : store[t].head \in Nat /\ store'[t].head \in Nat
  BY StoreInvStep DEF StoreInv, SoundStore, Chain
<1>2. ASSUME last' = last PROVE last' \in LastMaps
  BY <1>2
<1>3. ASSUME NEW op, NEW err, NEW audited, Refuse(op, err, audited)
      PROVE  last' \in LastMaps
  BY <1>3 DEF Refuse
<1>4. ASSUME NEW n \in Namespaces, NEW owner \in Owners, NEW l \in Limits, CreateNS(n, owner, l)
      PROVE  last' \in LastMaps
  BY <1>3, <1>4 DEF CreateNS
<1>5. ASSUME NEW n \in Namespaces, NEW actor \in Callers, DeleteNS(n, actor)
      PROVE  last' \in LastMaps
  <2> DEFINE gone == {[topic |-> <<n, k>>, kind |-> "delete", rev |-> store[<<n, k>>].head] :
                        k \in Entries(store, n)}
  <2>1. gone \subseteq Event
    <3> SUFFICES ASSUME NEW k \in Keys
                 PROVE  [topic |-> <<n, k>>, kind |-> "delete", rev |-> store[<<n, k>>].head] \in Event
      BY DEF Entries
    <3>1. <<n, k>> \in Topics
      BY DEF Topics
    <3> QED BY <1>1, <3>1 DEF Event, Kinds
  <2>2. Announce(gone) => last' \in LastMaps
    BY <2>1, AnnounceType
  <2> QED BY <1>3, <1>5, <2>2 DEF DeleteNS
<1>6. ASSUME NEW n \in Namespaces, NEW a \in Subjects, NEW r \in GrantRoles, NEW actor \in Callers,
             Grant(n, a, r, actor)
      PROVE  last' \in LastMaps
  BY <1>3, <1>6 DEF Grant
<1>7. ASSUME NEW t \in Topics, NEW kind \in Kinds, NEW r \in Nat,
             Announce({[topic |-> t, kind |-> kind, rev |-> r]})
      PROVE  last' \in LastMaps
  <2>1. {[topic |-> t, kind |-> kind, rev |-> r]} \subseteq Event
    BY DEF Event
  <2> QED BY <1>7, <2>1, AnnounceType
<1>8. ASSUME NEW t \in Topics, NEW p \in PutInputs, Put(t, p)
      PROVE  last' \in LastMaps
  BY <1>1, <1>3, <1>7, <1>8 DEF Put, Kinds
<1>9. ASSUME NEW t \in Topics, NEW rev \in 0..MaxRev, NEW actor \in Callers, Rollback(t, rev, actor)
      PROVE  last' \in LastMaps
  BY <1>1, <1>3, <1>7, <1>9 DEF Rollback, Kinds
<1>10. ASSUME NEW t \in Topics, NEW actor \in Callers, DeleteKey(t, actor)
       PROVE  last' \in LastMaps
  BY <1>1, <1>3, <1>7, <1>10 DEF DeleteKey, Kinds
<1>11. ASSUME NEW b \in {blob} \cup Foreign, NEW form \in Forms, ImportOpen(b, form)
       PROVE  last' \in LastMaps
  BY <1>11 DEF ImportOpen, Import
<1>12. ASSUME Export \/ SnapshotClosed \/ Close \/ UNCHANGED vars
       PROVE  last' \in LastMaps
  BY <1>3, <1>12 DEF Export, SnapshotClosed, Close, vars
<1>13. CASE Next
  BY <1>13, <1>4, <1>5, <1>6, <1>8, <1>9, <1>10, <1>11, <1>12 DEF Next
<1> QED BY <1>12, <1>13

(* The state has its types, after any number of operations and imports.    *)
THEOREM StateHasItsTypes == Spec => []StateOK
<1> DEFINE Inv == StoreInv /\ AccessInv /\ last \in LastMaps
<1>1. Init => Inv
  <2>1. Init => last \in LastMaps
    BY DEF Init, NoEvent, LastMaps
  <2> QED BY <2>1, StoreInvInit, AccessInvInit
<1>2. Inv /\ [Next]_vars => Inv'
  BY StoreInvStep, AccessInvStep, LastStep DEF LastMaps
<1>3. Inv => StateOK
  BY DEF StoreInv, SoundStore, AccessInv, Registries, GrantMaps, LastMaps, StateOK
<1> QED BY <1>1, <1>2, <1>3, PTL DEF Spec

(* What operations answer.                                                 *)
Operations == {"new", "createNS", "deleteNS", "grant", "put", "rollback", "deleteKey",
               "export", "import", "close"}

Errors == {"none", "ErrClosed", "ErrInvalidArg", "ErrAlreadyExists", "ErrNotFound",
           "ErrForbidden", "ErrPayloadEmpty", "ErrGrayInvalid", "ErrConflict",
           "ErrSignRequired", "ErrSignFailed", "ErrUnknownAlgo", "ErrUnknownKey",
           "ErrQuotaKeys", "ErrQuotaBytes", "ErrNoEntry", "ErrBadRevision"}

LEMMA RefusalType ==
  ASSUME NEW op \in Operations, NEW err \in Errors, NEW audited, Refuse(op, err, audited)
  PROVE  out' \in Output
BY DEF Refuse, Output, Operations, Errors

LEMMA DoneType ==
  ASSUME NEW op \in Operations, NEW events \in SUBSET Event, Done(op, events)
  PROVE  out' \in Output
BY DEF Done, Output, Operations

LEMMA OutStep == StoreInv /\ out \in Output /\ [Next]_vars => out' \in Output
<1> SUFFICES ASSUME StoreInv, out \in Output, [Next]_vars
             PROVE  out' \in Output
  OBVIOUS
<1>1. /\ StoreInv'
      /\ \A t \in Topics : store[t].head \in Nat /\ store'[t].head \in Nat
  BY StoreInvStep DEF StoreInv, SoundStore, Chain
<1>2. {} \in SUBSET Event
  OBVIOUS
<1>3. ASSUME NEW t \in Topics, NEW kind \in Kinds, NEW r \in Nat
      PROVE  {[topic |-> t, kind |-> kind, rev |-> r]} \in SUBSET Event
  BY DEF Event
<1>4. ASSUME NEW n \in Namespaces, NEW owner \in Owners, NEW l \in Limits, CreateNS(n, owner, l)
      PROVE  out' \in Output
  <2>1. CreateNSError(n, l) \in Errors /\ "createNS" \in Operations
    BY DEF CreateNSError, Errors, Operations
  <2> QED BY <1>2, <1>4, <2>1, RefusalType, DoneType DEF CreateNS
<1>5. ASSUME NEW n \in Namespaces, NEW actor \in Callers, DeleteNS(n, actor)
      PROVE  out' \in Output
  <2> DEFINE gone == {[topic |-> <<n, k>>, kind |-> "delete", rev |-> store[<<n, k>>].head] :
                        k \in Entries(store, n)}
  <2>1. DeleteNSError(n, actor) \in Errors /\ "deleteNS" \in Operations
    BY DEF DeleteNSError, Errors, Operations
  <2>2. gone \subseteq Event
    <3> SUFFICES ASSUME NEW k \in Keys
                 PROVE  [topic |-> <<n, k>>, kind |-> "delete", rev |-> store[<<n, k>>].head] \in Event
      BY DEF Entries
    <3>1. <<n, k>> \in Topics
      BY DEF Topics
    <3> QED BY <1>1, <3>1 DEF Event, Kinds
  <2>3. CASE DeleteNSError(n, actor) # "none"
    BY <1>5, <2>1, <2>3, RefusalType DEF DeleteNS
  <2>4. CASE DeleteNSError(n, actor) = "none"
    <3>1. Done("deleteNS", gone)
      BY <1>5, <2>4 DEF DeleteNS
    <3> HIDE DEF gone
    <3> QED BY <2>1, <2>2, <3>1, DoneType
  <2> QED BY <2>3, <2>4
<1>6. ASSUME NEW n \in Namespaces, NEW a \in Subjects, NEW r \in GrantRoles, NEW actor \in Callers,
             Grant(n, a, r, actor)
      PROVE  out' \in Output
  <2>1. GrantError(n, actor) \in Errors /\ "grant" \in Operations
    BY DEF GrantError, Errors, Operations
  <2>2. CASE GrantError(n, actor) # "none"
    BY <1>6, <2>1, <2>2, RefusalType DEF Grant
  <2>3. CASE GrantError(n, actor) = "none"
    BY <1>6, <2>3 DEF Grant, Output
  <2> QED BY <2>2, <2>3
<1>7. ASSUME NEW t \in Topics, NEW p \in PutInputs, Put(t, p)
      PROVE  out' \in Output
  <2>1. PutError(t, p) \in Errors /\ "put" \in Operations /\ "publish" \in Kinds
    <3>1. QuotaError(t[1], ~Exists(store[t]), p.size) \in Errors
      BY DEF QuotaError, Errors
    <3> QED BY <3>1 DEF PutError, VerifyError, Errors, Operations, Kinds
  <2>2. CASE PutError(t, p) # "none"
    BY <1>7, <2>1, <2>2, RefusalType DEF Put
  <2>3. CASE PutError(t, p) = "none"
    <3>1. Done("put", {[topic |-> t, kind |-> "publish", rev |-> store'[t].head]})
      BY <1>7, <2>3 DEF Put
    <3> QED BY <1>1, <1>3, <2>1, <3>1, DoneType
  <2> QED BY <2>2, <2>3
<1>8. ASSUME NEW t \in Topics, NEW rev \in 0..MaxRev, NEW actor \in Callers, Rollback(t, rev, actor)
      PROVE  out' \in Output
  <2>1. RollbackError(t, rev, actor) \in Errors /\ "rollback" \in Operations /\ "rollback" \in Kinds
    BY DEF RollbackError, Errors, Operations, Kinds
  <2>2. CASE RollbackError(t, rev, actor) # "none"
    BY <1>8, <2>1, <2>2, RefusalType DEF Rollback
  <2>3. CASE RollbackError(t, rev, actor) = "none"
    <3>1. Done("rollback", {[topic |-> t, kind |-> "rollback", rev |-> store'[t].head]})
      BY <1>8, <2>3 DEF Rollback
    <3> QED BY <1>1, <1>3, <2>1, <3>1, DoneType
  <2> QED BY <2>2, <2>3
<1>9. ASSUME NEW t \in Topics, NEW actor \in Callers, DeleteKey(t, actor)
      PROVE  out' \in Output
  <2>1. DeleteKeyError(t, actor) \in Errors /\ "deleteKey" \in Operations /\ "delete" \in Kinds
    BY DEF DeleteKeyError, Errors, Operations, Kinds
  <2>2. CASE DeleteKeyError(t, actor) # "none"
    BY <1>9, <2>1, <2>2, RefusalType DEF DeleteKey
  <2>3. CASE DeleteKeyError(t, actor) = "none"
    <3>1. Done("deleteKey", {[topic |-> t, kind |-> "delete", rev |-> store[t].head]})
      BY <1>9, <2>3 DEF DeleteKey
    <3> QED BY <1>1, <1>3, <2>1, <3>1, DoneType
  <2> QED BY <2>2, <2>3
<1>10. ASSUME Export \/ Close
       PROVE  out' \in Output
  BY <1>10 DEF Export, Close, Output
<1>11. ASSUME NEW b \in {blob} \cup Foreign, NEW form \in Forms, ImportOpen(b, form)
       PROVE  out' \in Output
  <2>1. CASE Refused(b)
    BY <1>11, <2>1 DEF ImportOpen, Import, Output
  <2>2. CASE ~Refused(b)
    BY <1>2, <1>11, <2>2, DoneType DEF ImportOpen, Import, Operations
  <2> QED BY <2>1, <2>2
<1>12. ASSUME SnapshotClosed
       PROVE  out' \in Output
  <2>1. PICK op \in {"export", "import"} : Refuse(op, "ErrClosed", FALSE)
    BY <1>12 DEF SnapshotClosed
  <2>2. op \in Operations /\ "ErrClosed" \in Errors
    BY DEF Operations, Errors
  <2> QED BY <2>1, <2>2, RefusalType
<1>13. ASSUME UNCHANGED vars
       PROVE  out' \in Output
  BY <1>13 DEF vars
<1>14. CASE Next
  BY <1>14, <1>4, <1>5, <1>6, <1>7, <1>8, <1>9, <1>10, <1>11, <1>12 DEF Next
<1> QED BY <1>13, <1>14

(* The whole state has its types: the counters never go below zero, and    *)
(* what was exported can be imported.                                      *)
THEOREM TypesHold ==
  ASSUME IsFiniteSet(Keys)
  PROVE  Spec => []TypeOK
<1> DEFINE Inv == StoreInv /\ AccessInv /\ last \in LastMaps /\ BothTyped /\ blob \in Snapshot /\ out \in Output
<1>1. Init => Inv
  <2> SUFFICES ASSUME Init PROVE Inv
    OBVIOUS
  <2>1. out \in Output
    BY DEF Init, Output
  <2>2. last \in LastMaps
    BY DEF Init, NoEvent, LastMaps
  <2>3. EmptyBlob \in Snapshot
    BY EmptyIsFine DEF Typed, Registries, GrantMaps, UsageMaps, SoundStore, Snapshot, EmptyBlob
  <2> QED BY <2>1, <2>2, <2>3, InitIsEmpty, StoreInvInit, AccessInvInit, BothTypedInit
<1>2. Inv /\ [Next]_vars => Inv'
  <2> SUFFICES ASSUME Inv, [Next]_vars PROVE Inv'
    OBVIOUS
  <2>1. blob' = blob \/ blob' = Built
    <3>1. ASSUME NEW b \in {blob} \cup Foreign, NEW form \in Forms, ImportOpen(b, form) PROVE blob' = blob
      BY <3>1 DEF ImportOpen, Import
    <3> QED BY <3>1, StepIsOperation, OperationKeepsBlob
  <2>2. Built \in Snapshot
    BY DEF Built, BothTyped, HubTyped, Typed, Registries, GrantMaps, UsageMaps, SoundStore, Snapshot
  <2>3. BothTyped' /\ StoreInv' /\ AccessInv' /\ (last \in LastMaps)' /\ (out \in Output)'
    BY BothTypedStep, StoreInvStep, AccessInvStep, LastStep, OutStep DEF LastMaps
  <2> QED BY <2>1, <2>2, <2>3
<1>3. Inv => TypeOK
  BY DEF StoreInv, SoundStore, AccessInv, BothTyped, HubTyped, Typed, Registries, GrantMaps,
         UsageMaps, LastMaps, StateOK, TypeOK
<1> QED BY <1>1, <1>2, <1>3, PTL DEF Spec
=============================================================================
