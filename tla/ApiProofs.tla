----------------------------- MODULE ApiProofs -----------------------------
(***************************************************************************)
(* Theorems about the HTTP layer and its clients, for any number of        *)
(* publishers, listings, namespaces, keys and retries: requests that are   *)
(* lost, late, repeated or die of a panic, and servers that are restarted. *)
(***************************************************************************)
EXTENDS ApiServer, TenancyProofs

-----------------------------------------------------------------------------
(* What happens to the hub under the HTTP layer: an operation, a deletion  *)
(* that a panic stopped, or a restart.                                     *)

Aborted == \E n \in Namespaces : DeleteNSAborted(n)

Emptiest ==
  /\ reg' = EmptyBlob.reg /\ store' = EmptyBlob.store
  /\ grants' = EmptyBlob.grants /\ usage' = EmptyBlob.usage

LEMMA BodyIsRequest ==
  ASSUME NEW c \in Publishers, client[c].read \in Seq(Nat)
  PROVE  Body(c) \in Request
<1>1. NilRule \in Rule
  <2>1. NoMap \in [{} -> TagVals]
    BY DEF NoMap
  <2>2. NoMap \in TagMap
    BY <2>1 DEF TagMap
  <2> QED BY <2>2 DEF NilRule, Rule
<1>2. Payload[c] \in Nat /\ Len(client[c].read) + 1 \in Nat
  BY PublishersAssumption
<1>3. Unsigned \in Signature /\ NoActor \in Subject
  BY DEF Unsigned, Signature, Subject
<1> QED BY <1>1, <1>2, <1>3 DEF Body, Request

LEMMA OtherIsOperation == OtherRequest => Operation \/ Aborted
<1>1. /\ Owners \subseteq Actors /\ Limits \subseteq [maxKeys : Int, maxBytes : Int]
      /\ NoActor \in Subject /\ 0..MaxRev \subseteq Nat
  BY InputsAssumption DEF Subject
<1>2. ASSUME NEW n \in Namespaces, NEW owner \in Owners, NEW l \in Limits, CreateNS(n, owner, l)
      PROVE  Operation
  BY <1>1, <1>2 DEF Operation
<1>3. ASSUME NEW n \in Namespaces, DeleteNS(n, NoActor)
      PROVE  Operation
  BY <1>1, <1>3 DEF Operation
<1>4. ASSUME NEW t \in Topics, NEW p \in PutInputs, Put(t, p)
      PROVE  Operation
  BY <1>4, PutInputsTyped DEF Operation
<1>5. ASSUME NEW t \in Topics, DeleteKey(t, NoActor)
      PROVE  Operation
  BY <1>1, <1>5 DEF Operation
<1>6. ASSUME NEW t \in Topics, NEW rev \in 0..MaxRev, Rollback(t, rev, NoActor)
      PROVE  Operation
  BY <1>1, <1>6 DEF Operation
<1> QED BY <1>2, <1>3, <1>4, <1>5, <1>6 DEF OtherRequest, Aborted

(* The publishers, their requests and the listings have their types.       *)
ClientState == [pc : {"idle", "ready", "sent", "answered"}, read : Seq(Nat), current : BOOLEAN,
                sends : Nat, status : Nat, rev : Nat]
Message == [from : Publishers, nth : Nat]
ListingState == [pc : {"idle", "reading", "answered"}, todo : SUBSET Keys,
                 items : SUBSET [key : Keys, head : Nat, stable : Nat], alive : SUBSET Keys]

LayerTyped ==
  /\ client \in [Publishers -> ClientState]
  /\ net \subseteq Message
  /\ listing \in [Listings -> ListingState]

(* A step leaves the hub alone, or is one of those.                        *)
LEMMA HubStep ==
  ASSUME LayerTyped, [ApiNext]_apiVars
  PROVE  Operation \/ Aborted \/ Emptiest
<1>1. UNCHANGED vars => Operation
  BY DEF Operation
<1>2. ASSUME NEW m \in net, HandlePut(m) PROVE Operation
  <2>1. m.from \in Publishers /\ client[m.from].read \in Seq(Nat)
    BY DEF LayerTyped, Message, ClientState
  <2>2. Put(Target, Body(m.from)) /\ Body(m.from) \in Request /\ Target \in Topics
    BY <1>2, <2>1, BodyIsRequest, PublishersAssumption DEF HandlePut
  <2> QED BY <2>2 DEF Operation
<1>3. Other => Operation \/ Aborted
  BY OtherIsOperation DEF Other
<1>4. Restart => Emptiest
  BY DEF Restart, Emptiest
<1> QED BY <1>1, <1>2, <1>3, <1>4
        DEF ApiNext, ReadHistory, Send, ListBegin, ListItem, ListEnd, apiVars

LEMMA AbortedIsDeed == Aborted => Deed
BY DEF Aborted, DeleteNSAborted, Unregister, Dropped, Deed

(* The invariant of the hub: a namespace is charged for what it holds,     *)
(* within its limits, and leaves nothing behind.                           *)
ApiHubInv ==
  /\ HubTyped
  /\ \A n \in Namespaces :
       Exact(n, store, usage) /\ Fits(n, reg, store) /\ Clean(n, reg, grants, usage)

LEMMA ApiHubInvInit == IsFiniteSet(Keys) /\ Init => ApiHubInv
<1> SUFFICES ASSUME IsFiniteSet(Keys), Init PROVE ApiHubInv
  OBVIOUS
<1> QED BY InitIsEmpty, EmptyIsFine DEF ApiHubInv, HubTyped

LEMMA ApiHubInvStep ==
  ASSUME IsFiniteSet(Keys), LayerTyped, ApiHubInv, [ApiNext]_apiVars
  PROVE  ApiHubInv'
<1>1. HubTyped /\ (Operation \/ Aborted \/ Emptiest)
  BY HubStep DEF ApiHubInv
<1>2. CASE Deed
  <2>1. HubTyped'
    BY <1>1, <1>2, DeedKeepsTypes
  <2>2. ASSUME NEW n \in Namespaces
        PROVE  Exact(n, store', usage') /\ Fits(n, reg', store') /\ Clean(n, reg', grants', usage')
    <3>1. Exact(n, store, usage) /\ Fits(n, reg, store) /\ Clean(n, reg, grants, usage)
      BY DEF ApiHubInv
    <3>2. Covered(n, store, usage)
      BY <1>1, <3>1, Numbers DEF HubTyped, Exact, Covered
    <3> QED BY <1>1, <1>2, <3>1, <3>2, ExactStays, FitsStays, CleanStays
  <2> QED BY <2>1, <2>2 DEF ApiHubInv
<1>3. CASE Emptiest
  BY <1>3, EmptyIsFine DEF Emptiest, ApiHubInv, HubTyped
<1> QED BY <1>1, <1>2, <1>3, OperationIsDeed, AbortedIsDeed

-----------------------------------------------------------------------------
(* What happens to the chain of the key: e is it before, f after a step.   *)

SameVersions(e, f) == f.versions = e.versions

(* A version of size z is added.                                           *)
Added(e, f, z) ==
  LET n == Len(e.versions) IN
    /\ Len(f.versions) = n + 1 /\ f.head = n + 1
    /\ \A i \in 1..n : f.versions[i] = e.versions[i]
    /\ f.versions[n + 1].size = z

LEMMA PublishedAdds ==
  ASSUME SoundStore(store), NEW t \in Topics, NEW v \in Version, PublishedTo(t, v), NEW u \in Topics
  PROVE  IF u = t THEN Added(store[u], store'[u], v.size) /\ v.rev = Len(store[u].versions) + 1
                  ELSE store'[u] = store[u]
<1> DEFINE e == store[t]
           f == AppendVersion(e, v)
<1>1. /\ store \in [Topics -> Chain] /\ Sound(e) /\ v.rev = NextRev(e)
      /\ store' = [store EXCEPT ![t] = f]
  BY DEF SoundStore, PublishedTo
<1>2. CASE u # t
  BY <1>1, <1>2
<1>3. CASE u = t
  <2>1. store'[u] = f /\ store[u] = e
    BY <1>1, <1>3
  <2>2. /\ Sound(f) /\ Exists(f) /\ Len(f.versions) = Len(e.versions) + 1
        /\ \A i \in 1..Len(e.versions) : f.versions[i] = e.versions[i]
    BY <1>1, AppendKeepsSound
  <2>3. e.versions \in Seq(Version) /\ Len(e.versions) \in Nat
    BY <1>1 DEF Sound, Chain
  <2>4. f.versions[Len(e.versions) + 1] = v /\ f.head = v.rev
    BY <2>3 DEF AppendVersion
  <2>5. v.rev = Len(e.versions) + 1
    <3>1. f # Absent /\ ValidateChain(f)
      BY <2>2 DEF Sound, Exists, Absent
    <3>2. f.versions[Len(e.versions) + 1].rev = Len(e.versions) + 1
      BY <2>2, <2>3, <3>1 DEF ValidateChain
    <3> QED BY <2>4, <3>2
  <2> HIDE DEF e, f
  <2> QED BY <1>3, <2>1, <2>2, <2>4, <2>5 DEF Added
<1> QED BY <1>2, <1>3

(* Any other request leaves the chain of the key, ends it, or adds a       *)
(* version of a size that is nobody's payload.                             *)
ByOthers(e, f) ==
  \/ SameVersions(e, f)
  \/ ~Exists(f)
  \/ \E z \in PutSizes : Added(e, f, z)

LEMMA OthersAtKey ==
  ASSUME SoundStore(store), OtherRequest, NEW u \in Topics
  PROVE  ByOthers(store[u], store'[u])
<1>1. store \in [Topics -> Chain]
  BY DEF SoundStore
<1>2. ASSUME store' = store PROVE ByOthers(store[u], store'[u])
  BY <1>2 DEF ByOthers, SameVersions
<1>3. ASSUME NEW op, NEW err, NEW audited, Refuse(op, err, audited)
      PROVE  ByOthers(store[u], store'[u])
  BY <1>2, <1>3 DEF Refuse
<1>4. ASSUME NEW n, store' = [t \in Topics |-> IF t[1] = n THEN Absent ELSE store[t]]
      PROVE  ByOthers(store[u], store'[u])
  BY <1>4 DEF ByOthers, SameVersions, Exists, Absent
<1>5. ASSUME NEW n \in Namespaces, NEW owner, NEW l, CreateNS(n, owner, l)
      PROVE  ByOthers(store[u], store'[u])
  BY <1>2, <1>3, <1>5 DEF CreateNS
<1>6. ASSUME NEW n \in Namespaces, DeleteNS(n, NoActor) \/ DeleteNSAborted(n)
      PROVE  ByOthers(store[u], store'[u])
  <2>1. CASE DeleteNS(n, NoActor)
    <3>1. CASE DeleteNSError(n, NoActor) # "none"
      BY <1>3, <2>1, <3>1 DEF DeleteNS
    <3>2. CASE DeleteNSError(n, NoActor) = "none"
      <4>1. store' = [t \in Topics |-> IF t[1] = n THEN Absent ELSE store[t]]
        BY <2>1, <3>2 DEF DeleteNS
      <4> QED BY <1>4, <4>1
    <3> QED BY <3>1, <3>2
  <2>2. CASE DeleteNSAborted(n)
    BY <1>3, <1>4, <2>2 DEF DeleteNSAborted
  <2> QED BY <1>6, <2>1, <2>2
<1>7. ASSUME NEW t \in Topics, NEW p \in PutInputs, Put(t, p)
      PROVE  ByOthers(store[u], store'[u])
  <2>1. CASE PutError(t, p) # "none"
    BY <1>3, <1>7, <2>1 DEF Put
  <2>2. CASE PutError(t, p) = "none"
    <3>1. PICK v \in Version : PublishedTo(t, v) /\ v.size = p.size
      BY <1>1, <1>7, <2>2, PutChange, PutInputsTyped
    <3>2. v.size \in PutSizes
      BY <3>1 DEF PutInputs
    <3> QED BY <3>1, <3>2, PublishedAdds DEF ByOthers, SameVersions
  <2> QED BY <2>1, <2>2
<1>8. ASSUME NEW t \in Topics, DeleteKey(t, NoActor)
      PROVE  ByOthers(store[u], store'[u])
  <2>1. CASE DeleteKeyError(t, NoActor) # "none"
    BY <1>3, <1>8, <2>1 DEF DeleteKey
  <2>2. CASE DeleteKeyError(t, NoActor) = "none"
    <3>1. store' = [store EXCEPT ![t] = Absent]
      BY <1>8, <2>2 DEF DeleteKey
    <3> QED BY <1>1, <3>1 DEF ByOthers, SameVersions, Exists, Absent
  <2> QED BY <2>1, <2>2
<1>9. ASSUME NEW t \in Topics, NEW rev \in 0..MaxRev, Rollback(t, rev, NoActor)
      PROVE  ByOthers(store[u], store'[u])
  <2>1. CASE RollbackError(t, rev, NoActor) # "none"
    BY <1>3, <1>9, <2>1 DEF Rollback
  <2>2. CASE RollbackError(t, rev, NoActor) = "none"
    <3>1. store' = [store EXCEPT ![t] = RollbackHead(store[t], rev)]
      BY <1>9, <2>2 DEF Rollback
    <3>2. RollbackHead(store[t], rev).versions = store[t].versions
      BY DEF RollbackHead
    <3>3. store'[u].versions = store[u].versions
      BY <1>1, <3>1, <3>2
    <3> QED BY <3>3 DEF ByOthers, SameVersions
  <2> QED BY <2>1, <2>2
<1> QED BY <1>5, <1>6, <1>7, <1>8, <1>9 DEF OtherRequest

(* The PUT of a publisher either adds its payload right after what it had  *)
(* read, or leaves the chain as it is; and it only says that there is a    *)
(* conflict when the chain is not as long as what it had read.             *)
LEMMA PutAtKey ==
  ASSUME SoundStore(store), NEW c \in Publishers, client[c].read \in Seq(Nat), Put(Target, Body(c))
  PROVE  \/ /\ out'.err = "none" /\ Added(store[Target], store'[Target], Payload[c])
            /\ Len(client[c].read) = Len(store[Target].versions)
         \/ /\ out'.err # "none" /\ out'.err # "ErrAlreadyExists" /\ store' = store
            /\ out'.err = "ErrConflict" => Len(client[c].read) # Len(store[Target].versions)
<1> DEFINE p == Body(c)
           e == store[Target]
<1>1. /\ Target \in Topics /\ Sound(e) /\ e.versions \in Seq(Version) /\ Len(e.versions) \in Nat
      /\ store \in [Topics -> Chain]
  BY PublishersAssumption DEF SoundStore, Chain
<1>2. p.size = Payload[c] /\ p.bind = Len(client[c].read) + 1 /\ Len(client[c].read) \in Nat
  BY DEF Body
<1>3. NextRev(e) = Len(e.versions) + 1
  BY <1>1 DEF Sound, NextRev, Exists, ValidateChain, Absent
<1>4. Conflict(Target, p) <=> Len(client[c].read) # Len(e.versions)
  <2>1. Conflict(Target, p) <=> p.bind > 0 /\ p.bind # NextRev(e)
    BY DEF Conflict
  <2> HIDE DEF p, e
  <2> QED BY <1>1, <1>2, <1>3, <2>1
<1>5. CASE PutError(Target, p) # "none"
  <2>1. out'.err = PutError(Target, p) /\ store' = store
    BY <1>5 DEF Put, Refuse
  <2>2. PutError(Target, p) = "ErrConflict" => Conflict(Target, p)
    <3> HIDE DEF p
    <3> QED BY DEF PutError, VerifyError, QuotaError
  <2>3. PutError(Target, p) # "ErrAlreadyExists"
    <3> HIDE DEF p
    <3> QED BY DEF PutError, VerifyError, QuotaError
  <2> QED BY <1>4, <1>5, <2>1, <2>2, <2>3
<1>6. CASE PutError(Target, p) = "none"
  <2>1. out'.err = "none"
    BY <1>6 DEF Put, Done
  <2>2. p \in Request
    BY BodyIsRequest
  <2>3. PICK v \in Version : PublishedTo(Target, v) /\ v.size = p.size
    BY <1>1, <1>6, <2>2, PutChange
  <2>4. ~Conflict(Target, p)
    <3> HIDE DEF p
    <3> QED BY <1>6 DEF PutError
  <2>5. Added(e, store'[Target], Payload[c])
    BY <1>1, <1>2, <2>3, PublishedAdds
  <2> QED BY <1>4, <2>1, <2>4, <2>5
<1> QED BY <1>5, <1>6

-----------------------------------------------------------------------------
(* What a publisher knows: cl is its state, e the chain of the key, z the  *)
(* size of its payload.                                                    *)

At(e, z) == {i \in 1..Len(e.versions) : e.versions[i].size = z}

ReadIsPrefix(cl, e) ==
  /\ Len(cl.read) <= Len(e.versions)
  /\ \A i \in 1..Len(cl.read) : cl.read[i] = e.versions[i].size

(* Its payload is where it asked for, if anywhere, and not before it sent  *)
(* anything; as long as the key lives, what it read is how the chain       *)
(* begins, and what it was told is true.                                   *)
Knows(cl, e, z) ==
  /\ At(e, z) \subseteq {Len(cl.read) + 1}
  /\ cl.pc = "idle" => At(e, z) = {}
  /\ cl.current => ReadIsPrefix(cl, e)
  /\ cl.pc = "answered" /\ cl.current =>
       /\ cl.status = 200 => cl.rev \in At(e, z)
       /\ cl.status = 409 => Len(e.versions) > Len(cl.read)

AgedTo(cl, e, f) == [cl EXCEPT !.current = @ /\ (Exists(e) => Exists(f))]

LEMMA Lengths ==
  ASSUME NEW e \in Chain
  PROVE  Len(e.versions) \in Nat /\ (Exists(e) <=> Len(e.versions) # 0)
<1>1. e.versions \in Seq(Version)
  BY DEF Chain
<1> QED BY <1>1 DEF Exists

(* What others do to the key does not make it wrong.                       *)
LEMMA KnowsStays ==
  ASSUME NEW cl \in ClientState, NEW e \in Chain, NEW f \in Chain, NEW z, Knows(cl, e, z),
         \/ SameVersions(e, f)
         \/ ~Exists(f)
         \/ \E y : y # z /\ Added(e, f, y)
  PROVE  AgedTo(cl, e, f) \in ClientState /\ Knows(AgedTo(cl, e, f), f, z)
<1> DEFINE g == AgedTo(cl, e, f)
<1>1. /\ g.pc = cl.pc /\ g.read = cl.read /\ g.status = cl.status /\ g.rev = cl.rev
      /\ g.current => cl.current /\ (Exists(e) => Exists(f))
      /\ g \in ClientState
  BY DEF AgedTo, ClientState
<1>2. /\ Len(e.versions) \in Nat /\ Len(f.versions) \in Nat /\ Len(cl.read) \in Nat
      /\ Exists(e) <=> Len(e.versions) # 0
      /\ Exists(f) <=> Len(f.versions) # 0
  BY Lengths DEF ClientState
<1>3. /\ At(e, z) \subseteq {Len(cl.read) + 1}
      /\ cl.pc = "idle" => At(e, z) = {}
      /\ cl.current => ReadIsPrefix(cl, e)
      /\ cl.pc = "answered" /\ cl.current /\ cl.status = 200 => cl.rev \in At(e, z)
      /\ cl.pc = "answered" /\ cl.current /\ cl.status = 409 => Len(e.versions) > Len(cl.read)
  BY DEF Knows
<1> HIDE DEF g
<1>4. ASSUME At(f, z) = At(e, z), ReadIsPrefix(cl, e) => ReadIsPrefix(g, f),
             Len(f.versions) >= Len(e.versions)
      PROVE  Knows(g, f, z)
  <2>1. g.pc = "answered" /\ g.current /\ g.status = 409 => Len(f.versions) > Len(g.read)
    <3>1. cl.pc = "answered" /\ cl.current /\ cl.status = 409 => Len(f.versions) > Len(cl.read)
      BY <1>2, <1>3, <1>4
    <3> QED BY <1>1, <3>1
  <2> QED BY <1>1, <1>3, <1>4, <2>1 DEF Knows
<1>5. ASSUME SameVersions(e, f) PROVE Knows(g, f, z)
  <2>1. At(f, z) = At(e, z)
    BY <1>5 DEF SameVersions, At
  <2>2. ReadIsPrefix(cl, e) => ReadIsPrefix(g, f)
    BY <1>1, <1>5 DEF SameVersions, ReadIsPrefix
  <2>3. Len(f.versions) >= Len(e.versions)
    BY <1>2, <1>5 DEF SameVersions
  <2> QED BY <1>4, <2>1, <2>2, <2>3
<1>6. ASSUME ~Exists(f) PROVE Knows(g, f, z)
  <2>1. At(f, z) = {} /\ Len(f.versions) = 0
    BY <1>2, <1>6 DEF At
  <2>2. g.current => cl.current /\ Len(e.versions) = 0
    BY <1>1, <1>2, <1>6
  <2>3. Len(e.versions) = 0 => At(e, z) = {}
    BY DEF At
  <2>4. g.current => Len(cl.read) = 0
    <3>1. ReadIsPrefix(cl, e) => Len(cl.read) <= Len(e.versions)
      BY DEF ReadIsPrefix
    <3> QED BY <1>2, <1>3, <2>2, <3>1
  <2>5. g.current => ReadIsPrefix(g, f)
    BY <1>1, <2>1, <2>4 DEF ReadIsPrefix
  <2>6. g.pc = "answered" /\ g.current => g.status # 200
    BY <1>1, <1>3, <2>2, <2>3
  <2>7. g.pc = "answered" /\ g.current => g.status # 409
    BY <1>1, <1>2, <1>3, <2>2, <2>4
  <2> QED BY <2>1, <2>5, <2>6, <2>7 DEF Knows
<1>7. ASSUME NEW y, y # z, Added(e, f, y) PROVE Knows(g, f, z)
  <2> DEFINE n == Len(e.versions)
  <2>1. /\ Len(f.versions) = n + 1 /\ f.versions[n + 1].size = y
        /\ \A i \in 1..n : f.versions[i] = e.versions[i]
    BY <1>7 DEF Added
  <2>2. n \in Nat /\ Len(f.versions) >= n
    BY <1>2, <2>1
  <2>3. At(f, z) = At(e, z)
    <3>1. ASSUME NEW i \in 1..(n + 1) PROVE f.versions[i].size = z <=> i \in 1..n /\ e.versions[i].size = z
      <4>1. i \in 1..n \/ (i = n + 1 /\ i \notin 1..n)
        BY <2>2
      <4> QED BY <1>7, <2>1, <4>1
    <3>2. 1..n \subseteq 1..(n + 1)
      BY <2>2
    <3>3. 1..Len(f.versions) = 1..(n + 1)
      BY <2>1
    <3> HIDE DEF n
    <3> QED BY <3>1, <3>2, <3>3 DEF At, n
  <2>4. ASSUME ReadIsPrefix(cl, e) PROVE ReadIsPrefix(g, f)
    <3>1. Len(cl.read) <= n /\ \A i \in 1..Len(cl.read) : cl.read[i] = e.versions[i].size
      BY <2>4 DEF ReadIsPrefix
    <3>2. 1..Len(cl.read) \subseteq 1..n
      BY <1>2, <3>1
    <3>3. Len(cl.read) <= Len(f.versions)
      BY <1>2, <2>1, <3>1
    <3> QED BY <1>1, <2>1, <3>1, <3>2, <3>3 DEF ReadIsPrefix
  <2> QED BY <1>4, <2>2, <2>3, <2>4
<1> QED BY <1>1, <1>5, <1>6, <1>7 DEF g

(* Nor does its own PUT, and the answer is true.                           *)
LEMMA KnowsAfterPut ==
  ASSUME NEW cl \in ClientState, NEW e \in Chain, NEW f \in Chain, NEW z, Knows(cl, e, z),
         cl.pc # "idle", Added(e, f, z), Len(cl.read) = Len(e.versions),
         NEW g \in ClientState, g.read = cl.read, g.current => cl.current,
         \/ g.pc = cl.pc /\ g.status = cl.status /\ g.rev = cl.rev
         \/ g.pc = "answered" /\ g.status = 200 /\ g.rev = f.head
  PROVE  Knows(g, f, z)
<1> DEFINE n == Len(e.versions)
<1>1. n \in Nat /\ Len(cl.read) = n
  BY Lengths
<1>2. /\ Len(f.versions) = n + 1 /\ f.versions[n + 1].size = z /\ f.head = n + 1
      /\ \A i \in 1..n : f.versions[i] = e.versions[i]
  BY DEF Added
<1>3. At(e, z) = {}
  BY <1>1 DEF Knows, At
<1>4. At(f, z) = {n + 1}
  <2>1. \A i \in 1..n : f.versions[i].size # z
    <3>1. \A i \in 1..n : e.versions[i].size # z
      BY <1>3 DEF At
    <3> QED BY <1>2, <3>1
  <2>2. 1..Len(f.versions) = (1..n) \cup {n + 1} /\ n + 1 \in 1..Len(f.versions)
    BY <1>1, <1>2
  <2>3. At(f, z) \subseteq {n + 1}
    BY <2>1, <2>2 DEF At
  <2>4. n + 1 \in At(f, z)
    BY <1>2, <2>2 DEF At
  <2> QED BY <2>3, <2>4
<1>5. g.current => ReadIsPrefix(g, f)
  BY <1>1, <1>2 DEF Knows, ReadIsPrefix
<1>6. g.pc # "idle"
  OBVIOUS
<1>7. g.pc = "answered" /\ g.current =>
        /\ g.status = 200 => g.rev \in At(f, z)
        /\ g.status = 409 => Len(f.versions) > Len(g.read)
  BY <1>1, <1>2, <1>3, <1>4 DEF Knows
<1> QED BY <1>1, <1>4, <1>5, <1>6, <1>7 DEF Knows

LEMMA KnowsAfterRefusal ==
  ASSUME NEW cl \in ClientState, NEW e \in Chain, NEW f \in Chain, NEW z, Knows(cl, e, z),
         cl.pc # "idle", f = e, NEW g \in ClientState, g.read = cl.read, g.current => cl.current,
         \/ g.pc = cl.pc /\ g.status = cl.status /\ g.rev = cl.rev
         \/ /\ g.pc = "answered" /\ g.status # 200
            /\ g.status = 409 => Len(cl.read) # Len(e.versions)
  PROVE  Knows(g, f, z)
<1>1. Len(e.versions) \in Nat /\ Len(cl.read) \in Nat
  BY Lengths DEF ClientState
<1>2. g.current => ReadIsPrefix(g, f)
  BY DEF Knows, ReadIsPrefix
<1>3. g.current => Len(cl.read) <= Len(e.versions)
  BY DEF Knows, ReadIsPrefix
<1>4. g.pc = "answered" /\ g.current =>
        /\ g.status = 200 => g.rev \in At(f, z)
        /\ g.status = 409 => Len(f.versions) > Len(g.read)
  BY <1>1, <1>3 DEF Knows
<1> QED BY <1>2, <1>4 DEF Knows

-----------------------------------------------------------------------------
(* The publishers.                                                         *)

PublisherInv ==
  /\ LayerTyped
  /\ \A m \in net : client[m.from].pc # "idle"
  /\ \A c \in Publishers : Knows(client[c], store[Target], Payload[c])

LEMMA StatusType ==
  ASSUME NEW err
  PROVE  /\ StatusOf(err) \in Nat
         /\ StatusOf(err) = 200 <=> err = "none"
         /\ StatusOf(err) = 409 <=> err \in {"ErrAlreadyExists", "ErrConflict"}
<1>1. CASE err = "none"
  BY <1>1 DEF StatusOf
<1>2. CASE err \in {"ErrNotFound", "ErrNoEntry"}
  BY <1>2 DEF StatusOf
<1>3. CASE err = "ErrForbidden"
  BY <1>3 DEF StatusOf
<1>4. CASE err \in {"ErrSignRequired", "ErrSignFailed"}
  BY <1>4 DEF StatusOf
<1>5. CASE err \in {"ErrAlreadyExists", "ErrConflict"}
  BY <1>5 DEF StatusOf
<1>6. CASE err \in {"ErrQuotaKeys", "ErrQuotaBytes"}
  BY <1>6 DEF StatusOf
<1>7. CASE err \notin {"none", "ErrNotFound", "ErrNoEntry", "ErrForbidden", "ErrSignRequired",
                       "ErrSignFailed", "ErrAlreadyExists", "ErrConflict", "ErrQuotaKeys",
                       "ErrQuotaBytes"}
  BY <1>7 DEF StatusOf
<1> QED BY <1>1, <1>2, <1>3, <1>4, <1>5, <1>6, <1>7

LEMMA HistoryIs ==
  ASSUME NEW e \in Chain
  PROVE  /\ History(e) \in Seq(Nat) /\ Len(History(e)) = Len(e.versions)
         /\ \A i \in 1..Len(e.versions) : History(e)[i] = e.versions[i].size
<1>1. e.versions \in Seq(Version) /\ Len(e.versions) \in Nat
  BY DEF Chain
<1>2. ASSUME NEW i \in 1..Len(e.versions) PROVE e.versions[i].size \in Nat
  <2>1. e.versions[i] \in Version
    BY <1>1
  <2> QED BY <2>1 DEF Version
<1>3. History(e) \in [1..Len(e.versions) -> Nat]
  BY <1>2 DEF History
<1> QED BY <1>1, <1>3 DEF History

LEMMA AgedIs ==
  ASSUME NEW cs \in [Publishers -> ClientState], client' = Aged(cs), NEW c \in Publishers
  PROVE  client'[c] = AgedTo(cs[c], store[Target], store'[Target])
BY DEF Aged, AgedTo

LEMMA AgedType ==
  ASSUME NEW cs \in [Publishers -> ClientState], client' = Aged(cs)
  PROVE  client' \in [Publishers -> ClientState]
<1>1. ASSUME NEW c \in Publishers PROVE AgedTo(cs[c], store[Target], store'[Target]) \in ClientState
  BY DEF AgedTo, ClientState
<1>2. client' = [c \in Publishers |-> AgedTo(cs[c], store[Target], store'[Target])]
  BY DEF Aged, AgedTo
<1> QED BY <1>1, <1>2

LEMMA ListingStep ==
  ASSUME HubTyped, listing \in [Listings -> ListingState], [ApiNext]_apiVars
  PROVE  listing' \in [Listings -> ListingState]
<1>1. Home \in Namespaces /\ \A k \in Keys : <<Home, k>> \in Topics
  BY PublishersAssumption DEF Topics, Home
<1>2. \A k \in Keys : store[<<Home, k>>].head \in Nat /\ store[<<Home, k>>].stable \in Nat
  BY <1>1 DEF HubTyped, Typed, SoundStore, Chain
<1>3. ASSUME UNCHANGED listing PROVE listing' \in [Listings -> ListingState]
  BY <1>3
<1>4. ASSUME NEW l \in Listings, ListBegin(l) PROVE listing' \in [Listings -> ListingState]
  <2>1. Entries(store, Home) \in SUBSET Keys
    BY DEF Entries
  <2>2. ASSUME NEW keys \in SUBSET Keys
        PROVE  [pc |-> "reading", todo |-> keys, items |-> {}, alive |-> keys] \in ListingState
    BY DEF ListingState
  <2> QED BY <1>4, <2>1, <2>2 DEF ListBegin
<1>5. ASSUME NEW l \in Listings, NEW k \in Keys, ListItem(l, k)
      PROVE  listing' \in [Listings -> ListingState]
  <2>1. Item(k) \in [key : Keys, head : Nat, stable : Nat]
    BY <1>2 DEF Item
  <2>2. listing[l].todo \in SUBSET Keys
        /\ listing[l].items \in SUBSET [key : Keys, head : Nat, stable : Nat]
    BY DEF ListingState
  <2>3. /\ listing[l].todo \ {k} \in SUBSET Keys
        /\ (IF Found(k) THEN listing[l].items \cup {Item(k)} ELSE listing[l].items)
             \in SUBSET [key : Keys, head : Nat, stable : Nat]
    BY <2>1, <2>2
  <2>4. [listing[l] EXCEPT !.todo = listing[l].todo \ {k},
                           !.items = IF Found(k) THEN listing[l].items \cup {Item(k)} ELSE listing[l].items]
          \in ListingState
    BY <2>3 DEF ListingState
  <2>5. listing' = [listing EXCEPT ![l] =
                      [listing[l] EXCEPT !.todo = listing[l].todo \ {k},
                         !.items = IF Found(k) THEN listing[l].items \cup {Item(k)} ELSE listing[l].items]]
    BY <1>5 DEF ListItem
  <2> QED BY <2>4, <2>5
<1>6. ASSUME NEW l \in Listings, ListEnd(l) PROVE listing' \in [Listings -> ListingState]
  BY <1>6 DEF ListEnd, ListingState
<1>7. ASSUME ListingsAge PROVE listing' \in [Listings -> ListingState]
  <2>1. ASSUME NEW l \in Listings
        PROVE  [listing[l] EXCEPT !.alive = {k \in @ : Exists(store'[<<Home, k>>])}] \in ListingState
    BY DEF ListingState
  <2> QED BY <1>7, <2>1 DEF ListingsAge
<1>8. ASSUME Restart PROVE listing' \in [Listings -> ListingState]
  <2>1. NewListing \in ListingState
    BY DEF NewListing, ListingState
  <2> QED BY <1>8, <2>1 DEF Restart
<1> QED BY <1>3, <1>4, <1>5, <1>6, <1>7, <1>8 DEF ApiNext, ReadHistory, Send, HandlePut, Other, apiVars

LEMMA HubTypedStep ==
  ASSUME LayerTyped, HubTyped, [ApiNext]_apiVars
  PROVE  HubTyped'
<1>1. Operation \/ Aborted \/ Emptiest
  BY HubStep
<1>2. CASE Emptiest
  BY <1>2, EmptyIsFine DEF Emptiest, HubTyped
<1> QED BY <1>1, <1>2, OperationIsDeed, AbortedIsDeed, DeedKeepsTypes

LEMMA PublisherInvInit == ApiInit => PublisherInv
<1> SUFFICES ASSUME ApiInit PROVE PublisherInv
  OBVIOUS
<1>1. /\ client = [c \in Publishers |-> NewClient] /\ net = {}
      /\ listing = [l \in Listings |-> NewListing]
      /\ store = EmptyBlob.store
  BY DEF ApiInit, Init
<1>2. NewClient \in ClientState /\ NewListing \in ListingState
  BY DEF NewClient, NewListing, ClientState, ListingState
<1>3. LayerTyped
  BY <1>1, <1>2 DEF LayerTyped
<1>4. store[Target] = Absent
  BY <1>1, PublishersAssumption DEF EmptyBlob
<1>5. ASSUME NEW c \in Publishers PROVE Knows(client[c], store[Target], Payload[c])
  <2>1. At(Absent, Payload[c]) = {}
    BY DEF At, Absent
  <2>2. client[c].pc = "idle" /\ client[c].current = FALSE
    BY <1>1 DEF NewClient
  <2> QED BY <1>4, <2>1, <2>2 DEF Knows
<1> QED BY <1>1, <1>3, <1>5 DEF PublisherInv

(* What a publisher is after a step.                                       *)
PublisherAfter(c) ==
  /\ client'[c] \in ClientState
  /\ client[c].pc # "idle" => client'[c].pc # "idle"
  /\ Knows(client'[c], store'[Target], Payload[c])

(* What the PUT of c does to the chain is right for what everybody knows.  *)
LEMMA AfterHandlePut ==
  ASSUME PublisherInv, SoundStore(store), SoundStore(store'), NEW m \in net, HandlePut(m),
         NEW c \in Publishers
  PROVE  PublisherAfter(c)
<1> DEFINE e == store[Target]
           f == store'[Target]
           z == Payload[c]
           d == m.from
           status == StatusOf(out'.err)
           rev == IF out'.err = "none" THEN store'[Target].head ELSE 0
           told == [client EXCEPT ![d].pc = "answered", ![d].status = status, ![d].rev = rev]
<1>1. /\ client \in [Publishers -> ClientState] /\ d \in Publishers /\ client[d].pc # "idle"
      /\ client[d].read \in Seq(Nat)
      /\ Knows(client[c], e, z)
      /\ e \in Chain /\ f \in Chain
  BY PublishersAssumption DEF PublisherInv, LayerTyped, Message, ClientState, SoundStore
<1>0. client[c] \in ClientState
  BY <1>1
<1>2. status \in Nat /\ rev \in Nat
  <2>1. status \in Nat
    BY StatusType
  <2>2. f.head \in Nat
    BY <1>1 DEF Chain
  <2>3. rev \in Nat
    <3> DEFINE head == f.head
    <3>1. rev = IF out'.err = "none" THEN head ELSE 0
      OBVIOUS
    <3>2. head \in Nat
      BY <2>2
    <3> HIDE DEF rev, head
    <3> QED BY <3>1, <3>2
  <2> QED BY <2>1, <2>3
<1>3. told \in [Publishers -> ClientState]
  <2> DEFINE old == client[d]
  <2>1. old \in ClientState
    BY <1>1
  <2>2. [old EXCEPT !.pc = "answered", !.status = status, !.rev = rev] \in ClientState
    <3> HIDE DEF old, status, rev
    <3> QED BY <1>2, <2>1 DEF ClientState
  <2> QED BY <1>1, <2>2
<1>4. \/ client' = Aged(client)
      \/ client' = Aged(told)
  BY DEF HandlePut, Answer
<1>5. client'[c] \in ClientState
  BY <1>1, <1>3, <1>4, AgedType
<1>6. Put(Target, Body(d))
  BY DEF HandlePut
<1>7. \/ /\ out'.err = "none" /\ Added(e, f, Payload[d]) /\ Len(client[d].read) = Len(e.versions)
      \/ /\ out'.err # "none" /\ out'.err # "ErrAlreadyExists" /\ f = e
         /\ out'.err = "ErrConflict" => Len(client[d].read) # Len(e.versions)
  BY <1>1, <1>6, PutAtKey
<1>8. ASSUME c # d PROVE Knows(client'[c], f, z)
  <2>1. client'[c] = AgedTo(client[c], e, f)
    <3>1. told[c] = client[c]
      BY <1>1, <1>8
    <3> HIDE DEF told
    <3> QED BY <1>1, <1>3, <1>4, <3>1, AgedIs
  <2>2. Payload[d] # z
    BY <1>1, <1>8, PublishersAssumption DEF IsInjective
  <2>3. SameVersions(e, f) \/ \E y : y # z /\ Added(e, f, y)
    BY <1>7, <2>2 DEF SameVersions
  <2>4. Knows(client'[c], f, z)
    <3> HIDE DEF e, f, z
    <3> QED BY <1>0, <1>1, <2>1, <2>3, KnowsStays
  <2> QED BY <2>4
<1>9. ASSUME c = d PROVE Knows(client'[c], f, z)
  <2> DEFINE g == client'[c]
  <2>0. g \in ClientState
    BY <1>5
  <2>1. /\ g.read = client[c].read /\ (g.current => client[c].current)
        /\ \/ g.pc = client[c].pc /\ g.status = client[c].status /\ g.rev = client[c].rev
           \/ g.pc = "answered" /\ g.status = status /\ g.rev = rev
    <3>1. CASE client' = Aged(client)
      <4>1. g = AgedTo(client[c], e, f)
        BY <1>1, <3>1, AgedIs
      <4>2. AgedTo(client[c], e, f).current => client[c].current
        BY <1>1 DEF AgedTo, ClientState
      <4> QED BY <1>1, <4>1, <4>2 DEF AgedTo, ClientState
    <3>2. CASE client' = Aged(told)
      <4>1. g = AgedTo(told[c], e, f)
        BY <1>3, <3>2, AgedIs
      <4>2. /\ told[c].pc = "answered" /\ told[c].status = status /\ told[c].rev = rev
            /\ told[c].read = client[c].read /\ told[c].current = client[c].current
        <5> HIDE DEF status, rev
        <5> QED BY <1>1, <1>9 DEF ClientState
      <4>3. told[c] \in ClientState
        BY <1>3
      <4>4. AgedTo(told[c], e, f).current => told[c].current
        BY <4>3 DEF AgedTo, ClientState
      <4> HIDE DEF told
      <4> QED BY <4>1, <4>2, <4>3, <4>4 DEF AgedTo, ClientState
    <3> QED BY <1>4, <3>1, <3>2
  <2>2. CASE out'.err = "none"
    <3>1. status = 200 /\ rev = f.head
      BY <2>2, StatusType
    <3>2. Added(e, f, z) /\ Len(client[c].read) = Len(e.versions) /\ client[c].pc # "idle"
      BY <1>1, <1>7, <1>9, <2>2
    <3>3. Knows(g, f, z)
      <4>1. \/ g.pc = client[c].pc /\ g.status = client[c].status /\ g.rev = client[c].rev
            \/ g.pc = "answered" /\ g.status = 200 /\ g.rev = f.head
        <5> HIDE DEF f, g, status, rev
        <5> QED BY <2>1, <3>1
      <4>2. g.read = client[c].read /\ (g.current => client[c].current)
        <5> HIDE DEF g, status, rev
        <5> QED BY <2>1
      <4>3. e \in Chain /\ f \in Chain /\ Knows(client[c], e, z)
        BY <1>1
      <4> HIDE DEF e, f, z, g
      <4> QED BY <1>0, <2>0, <3>2, <4>1, <4>2, <4>3, KnowsAfterPut
    <3> QED BY <3>3
  <2>3. CASE out'.err # "none"
    <3>1. status # 200 /\ (status = 409 => Len(client[c].read) # Len(e.versions))
      BY <1>7, <1>9, <2>3, StatusType
    <3>2. f = e /\ client[c].pc # "idle"
      BY <1>1, <1>7, <1>9, <2>3
    <3>3. Knows(g, f, z)
      <4>1. \/ g.pc = client[c].pc /\ g.status = client[c].status /\ g.rev = client[c].rev
            \/ /\ g.pc = "answered" /\ g.status # 200
               /\ g.status = 409 => Len(client[c].read) # Len(e.versions)
        <5> HIDE DEF e, g, status, rev
        <5> QED BY <2>1, <3>1
      <4>2. g.read = client[c].read /\ (g.current => client[c].current)
        <5> HIDE DEF g, status, rev
        <5> QED BY <2>1
      <4>3. e \in Chain /\ f \in Chain /\ Knows(client[c], e, z)
        BY <1>1
      <4> HIDE DEF e, f, z, g
      <4> QED BY <1>0, <2>0, <3>2, <4>1, <4>2, <4>3, KnowsAfterRefusal
    <3> QED BY <3>3
  <2> QED BY <2>2, <2>3
<1>10. client[c].pc # "idle" => client'[c].pc # "idle"
  <2>1. CASE client' = Aged(client)
    <3>1. client'[c] = AgedTo(client[c], e, f)
      BY <1>1, <2>1, AgedIs
    <3> QED BY <1>0, <2>1, <3>1 DEF AgedTo, ClientState
  <2>2. CASE client' = Aged(told)
    <3>1. client'[c] = AgedTo(told[c], e, f)
      BY <1>3, <2>2, AgedIs
    <3>2. told[c] \in ClientState
      BY <1>3
    <3>3. told[c].pc = client[c].pc \/ told[c].pc = "answered"
      <4> HIDE DEF status, rev
      <4> QED BY <1>1, <1>0 DEF ClientState
    <3> HIDE DEF told
    <3> QED BY <1>0, <2>2, <3>1, <3>2, <3>3 DEF AgedTo, ClientState
  <2> QED BY <1>4, <2>1, <2>2
<1> QED BY <1>5, <1>8, <1>9, <1>10 DEF PublisherAfter

(* Nor do the requests of others, or a restart, make it wrong.             *)
LEMMA AfterOthers ==
  ASSUME PublisherInv, SoundStore(store), SoundStore(store'), Other \/ Restart, NEW c \in Publishers
  PROVE  PublisherAfter(c)
<1> DEFINE e == store[Target]
           f == store'[Target]
           z == Payload[c]
<1>1. /\ client \in [Publishers -> ClientState] /\ Knows(client[c], e, z)
      /\ e \in Chain /\ f \in Chain /\ Target \in Topics
  BY PublishersAssumption DEF PublisherInv, LayerTyped, SoundStore
<1>2. client[c] \in ClientState
  BY <1>1
<1>3. client'[c] = AgedTo(client[c], e, f)
  BY <1>1, AgedIs DEF Other, Restart
<1>4. ASSUME Other PROVE client'[c] \in ClientState /\ Knows(client'[c], f, z)
  <2>1. ByOthers(e, f)
    BY <1>1, <1>4, OthersAtKey DEF Other
  <2>2. z \notin PutSizes
    BY PublishersAssumption
  <2>3. SameVersions(e, f) \/ ~Exists(f) \/ \E y : y # z /\ Added(e, f, y)
    <3> HIDE DEF e, f, z
    <3> QED BY <2>1, <2>2 DEF ByOthers
  <2>4. client'[c] \in ClientState /\ Knows(client'[c], f, z)
    <3> HIDE DEF e, f, z
    <3> QED BY <1>1, <1>2, <1>3, <2>3, KnowsStays
  <2> QED BY <2>4
<1>5. ASSUME Restart PROVE client'[c] \in ClientState /\ Knows(client'[c], f, z)
  <2>1. ~Exists(f)
    BY <1>1, <1>5 DEF Restart, EmptyBlob, Exists, Absent
  <2>2. client'[c] \in ClientState /\ Knows(client'[c], f, z)
    <3> HIDE DEF e, f, z
    <3> QED BY <1>1, <1>2, <1>3, <2>1, KnowsStays
  <2> QED BY <2>2
<1>6. client'[c].pc = client[c].pc
  BY <1>2, <1>3 DEF AgedTo, ClientState
<1> QED BY <1>4, <1>5, <1>6 DEF PublisherAfter

(* What a publisher reads is what there is.                                *)
LEMMA AfterRead ==
  ASSUME NEW cl \in ClientState, NEW e \in Chain, NEW z, Knows(cl, e, z), cl.pc = "idle",
         NEW g, g = [NewClient EXCEPT !.pc = "ready", !.read = History(e), !.current = TRUE]
  PROVE  g \in ClientState /\ Knows(g, e, z)
<1>1. /\ History(e) \in Seq(Nat) /\ Len(History(e)) = Len(e.versions)
      /\ \A i \in 1..Len(e.versions) : History(e)[i] = e.versions[i].size
      /\ Len(e.versions) \in Nat
  BY HistoryIs, Lengths
<1>2. g \in ClientState /\ g.pc = "ready" /\ g.read = History(e)
  BY <1>1 DEF NewClient, ClientState
<1>3. At(e, z) = {}
  BY DEF Knows
<1>4. ReadIsPrefix(g, e)
  BY <1>1, <1>2 DEF ReadIsPrefix
<1> QED BY <1>2, <1>3, <1>4 DEF Knows

LEMMA AfterSend ==
  ASSUME NEW cl \in ClientState, NEW e \in Chain, NEW z, Knows(cl, e, z), cl.pc # "idle",
         NEW g, g = [cl EXCEPT !.pc = "sent", !.sends = cl.sends + 1]
  PROVE  g \in ClientState /\ Knows(g, e, z)
<1>1. /\ g.pc = "sent" /\ g.read = cl.read
      /\ g.current => cl.current
  BY DEF ClientState
<1>0. g \in ClientState
  <2>1. cl.sends + 1 \in Nat
    BY DEF ClientState
  <2> QED BY <2>1 DEF ClientState
<1>2. g.current => ReadIsPrefix(g, e)
  BY <1>1 DEF Knows, ReadIsPrefix
<1>3. At(e, z) \subseteq {Len(g.read) + 1} /\ g.pc # "idle" /\ g.pc # "answered"
  BY <1>1 DEF Knows
<1> QED BY <1>0, <1>1, <1>2, <1>3 DEF Knows

LEMMA PublisherInvStep ==
  ASSUME HubTyped, PublisherInv, [ApiNext]_apiVars
  PROVE  PublisherInv'
<1>1. /\ client \in [Publishers -> ClientState] /\ net \subseteq Message
      /\ listing \in [Listings -> ListingState]
      /\ LayerTyped /\ SoundStore(store) /\ SoundStore(store')
      /\ listing' \in [Listings -> ListingState]
      /\ Target \in Topics /\ store[Target] \in Chain
  <2>1. HubTyped' /\ LayerTyped
    BY HubTypedStep DEF PublisherInv
  <2> QED BY <2>1, ListingStep, PublishersAssumption DEF LayerTyped, HubTyped, Typed, SoundStore
<1>2. /\ \A m \in net : client[m.from].pc # "idle"
      /\ \A c \in Publishers : Knows(client[c], store[Target], Payload[c])
  BY DEF PublisherInv
<1>3. ASSUME client' \in [Publishers -> ClientState], net' \subseteq Message,
             \A m \in net' : client'[m.from].pc # "idle",
             \A c \in Publishers : Knows(client'[c], store'[Target], Payload[c])
      PROVE  PublisherInv'
  BY <1>1, <1>3 DEF PublisherInv, LayerTyped
<1>4. ASSUME UNCHANGED <<vars, client, net>> PROVE PublisherInv'
  BY <1>1, <1>2, <1>3, <1>4 DEF vars
<1>5. ASSUME NEW c \in Publishers, ReadHistory(c) PROVE PublisherInv'
  <2> DEFINE g == [NewClient EXCEPT !.pc = "ready", !.read = History(store[Target]), !.current = TRUE]
  <2>1. /\ client' = [client EXCEPT ![c] = g] /\ store' = store /\ net' = net
        /\ client[c].pc = "idle"
    BY <1>5 DEF ReadHistory, vars
  <2>2. g \in ClientState /\ Knows(g, store[Target], Payload[c])
    BY <1>1, <1>2, <2>1, AfterRead
  <2>3. g.pc # "idle"
    BY DEF NewClient
  <2> HIDE DEF g
  <2>4. \A d \in Publishers : client'[d] = IF d = c THEN g ELSE client[d]
    BY <1>1, <2>1
  <2>5. \A d \in Publishers : Knows(client'[d], store'[Target], Payload[d])
    BY <1>2, <2>1, <2>2, <2>4
  <2>6. \A m \in net' : client'[m.from].pc # "idle"
    BY <1>1, <1>2, <2>1, <2>3, <2>4 DEF Message
  <2> QED BY <1>1, <1>3, <2>1, <2>2, <2>5, <2>6
<1>6. ASSUME NEW c \in Publishers, Send(c) PROVE PublisherInv'
  <2> DEFINE g == [client[c] EXCEPT !.pc = "sent", !.sends = client[c].sends + 1]
             new == [from |-> c, nth |-> client[c].sends + 1]
  <2>1. /\ client' = [client EXCEPT ![c] = g] /\ store' = store /\ net' = net \cup {new}
        /\ client[c].pc # "idle" /\ client[c] \in ClientState
    BY <1>1, <1>6 DEF Send, vars
  <2>2. g \in ClientState /\ Knows(g, store[Target], Payload[c])
    BY <1>1, <1>2, <2>1, AfterSend
  <2>3. g.pc = "sent" /\ new \in Message /\ new.from = c
    BY <2>1 DEF ClientState, Message
  <2> HIDE DEF g, new
  <2>4. \A d \in Publishers : client'[d] = IF d = c THEN g ELSE client[d]
    BY <1>1, <2>1
  <2>5. \A d \in Publishers : Knows(client'[d], store'[Target], Payload[d])
    BY <1>2, <2>1, <2>2, <2>4
  <2>6. \A m \in net' : client'[m.from].pc # "idle"
    BY <1>1, <1>2, <2>1, <2>3, <2>4 DEF Message
  <2> QED BY <1>1, <1>3, <2>1, <2>2, <2>3, <2>5, <2>6
<1>7. ASSUME net' \subseteq net, client' = [c \in Publishers |-> client'[c]],
             \A c \in Publishers : PublisherAfter(c)
      PROVE  PublisherInv'
  <2>1. \A m \in net' : m.from \in Publishers /\ client[m.from].pc # "idle"
    BY <1>1, <1>2, <1>7 DEF Message
  <2>2. \A m \in net' : client'[m.from].pc # "idle"
    BY <1>7, <2>1 DEF PublisherAfter
  <2>3. net' \subseteq Message
    BY <1>1, <1>7
  <2>4. client' \in [Publishers -> ClientState]
    BY <1>7 DEF PublisherAfter
  <2> QED BY <1>3, <1>7, <2>2, <2>3, <2>4 DEF PublisherAfter
<1>8. ASSUME NEW m \in net, HandlePut(m) PROVE PublisherInv'
  <2>1. \A c \in Publishers : PublisherAfter(c)
    BY <1>1, <1>8, AfterHandlePut
  <2>2. client' = [c \in Publishers |-> client'[c]]
    BY <1>8 DEF HandlePut, Answer, Aged
  <2> QED BY <1>7, <1>8, <2>1, <2>2 DEF HandlePut
<1>9. ASSUME Other \/ Restart PROVE PublisherInv'
  <2>1. \A c \in Publishers : PublisherAfter(c)
    BY <1>1, <1>9, AfterOthers
  <2>2. client' = [c \in Publishers |-> client'[c]]
    BY <1>9 DEF Other, Restart, Aged
  <2> QED BY <1>7, <1>9, <2>1, <2>2 DEF Other, Restart
<1> QED
  BY <1>4, <1>5, <1>6, <1>8, <1>9 DEF ApiNext, ListBegin, ListItem, ListEnd, apiVars

PublishersInv == HubTyped /\ PublisherInv

LEMMA PublishersInvHolds == ApiSpec => []PublishersInv
<1>1. ApiInit => PublishersInv
  <2> SUFFICES ASSUME ApiInit PROVE PublishersInv
    OBVIOUS
  <2>1. HubTyped
    BY InitIsEmpty, EmptyIsFine DEF ApiInit, HubTyped
  <2> QED BY <2>1, PublisherInvInit DEF PublishersInv
<1>2. PublishersInv /\ [ApiNext]_apiVars => PublishersInv'
  BY HubTypedStep, PublisherInvStep DEF PublishersInv, PublisherInv
<1> QED BY <1>1, <1>2, PTL DEF ApiSpec

(* Where a payload is stored, in the words of the specification.           *)
LEMMA StoredIs ==
  ASSUME PublishersInv, NEW c \in Publishers
  PROVE  Stored(c) = At(store[Target], Payload[c])
<1>1. store[Target] \in Chain
  BY PublishersAssumption DEF PublishersInv, HubTyped, Typed, SoundStore
<1> QED BY <1>1, HistoryIs DEF Stored, At

(* A PUT that binds a revision can be sent again and again, its answers    *)
(* lost or late: the key never holds its payload twice.                    *)
THEOREM RetryStoresOnce == ApiSpec => []RetryOnce
<1>1. PublishersInv => RetryOnce
  <2> SUFFICES ASSUME PublishersInv, NEW c \in Publishers
               PROVE  Cardinality(Stored(c)) <= 1
    BY DEF RetryOnce
  <2> DEFINE next == Len(client[c].read) + 1
  <2>1. Stored(c) \subseteq {next}
    BY StoredIs DEF PublishersInv, PublisherInv, Knows
  <2>2. IsFiniteSet({next}) /\ Cardinality({next}) = 1
    BY FS_Singleton
  <2> HIDE DEF next
  <2>3. Cardinality(Stored(c)) <= Cardinality({next})
    BY <2>1, <2>2, FS_Subset
  <2> QED BY <2>2, <2>3
<1> QED BY <1>1, PublishersInvHolds, PTL

(* Nobody overwrites what he has not seen: as long as the key lives, below *)
(* the version that a publisher stored are exactly those it had read.      *)
THEOREM NobodyOverwrites == ApiSpec => []NoLostUpdate
<1>1. PublishersInv => NoLostUpdate
  <2> SUFFICES ASSUME PublishersInv, NEW c \in Publishers, client[c].current, NEW i \in Stored(c)
               PROVE  SubSeq(History(store[Target]), 1, i - 1) = client[c].read
    BY DEF NoLostUpdate
  <2> DEFINE e == store[Target]
             h == History(e)
             read == client[c].read
  <2>1. e \in Chain /\ Knows(client[c], e, Payload[c]) /\ client[c] \in ClientState
    BY PublishersAssumption
    DEF PublishersInv, HubTyped, Typed, SoundStore, PublisherInv, LayerTyped
  <2>2. read \in Seq(Nat) /\ Len(read) \in Nat
    BY <2>1 DEF ClientState
  <2>3. i = Len(read) + 1 /\ i \in 1..Len(e.versions)
    BY <2>1, StoredIs DEF Knows, At
  <2>4. /\ h \in Seq(Nat) /\ Len(h) = Len(e.versions)
        /\ \A j \in 1..Len(e.versions) : h[j] = e.versions[j].size
    BY <2>1, HistoryIs
  <2>5. Len(read) <= Len(h) /\ \A j \in 1..Len(read) : read[j] = e.versions[j].size
    BY <2>1, <2>4 DEF Knows, ReadIsPrefix
  <2> HIDE DEF e, h, read
  <2>6. Len(h) \in Nat /\ Len(e.versions) \in Nat
    BY <2>1, <2>4, Lengths
  <2>7. ASSUME NEW j \in 1..Len(read) PROVE h[j] = read[j]
    <3>1. j \in 1..Len(e.versions)
      BY <2>2, <2>4, <2>5, <2>6
    <3> QED BY <2>4, <2>5, <3>1
  <2>8. SubSeq(h, 1, Len(read)) = read
    <3>1. SubSeq(h, 1, Len(read)) \in Seq(Nat) /\ Len(SubSeq(h, 1, Len(read))) = Len(read)
      BY <2>2, <2>4, <2>5, <2>6
    <3>2. \A j \in 1..Len(read) : SubSeq(h, 1, Len(read))[j] = read[j]
      BY <2>2, <2>4, <2>5, <2>6, <2>7
    <3> QED BY <2>2, <3>1, <3>2
  <2>9. i - 1 = Len(read)
    BY <2>2, <2>3
  <2> QED BY <2>8, <2>9 DEF h, e, read
<1> QED BY <1>1, PublishersInvHolds, PTL

(* What a publisher was told stays true while the key lives: the revision  *)
(* in a 200 is its own, and a 409 means a version it had not read.         *)
THEOREM AnswersStayTrue == ApiSpec => []AnswersTrue
<1>1. PublishersInv => AnswersTrue
  <2> SUFFICES ASSUME PublishersInv, NEW c \in Publishers,
                      client[c].pc = "answered", client[c].current
               PROVE  /\ client[c].status = 200 => client[c].rev \in Stored(c)
                      /\ client[c].status = 409 => Len(store[Target].versions) > Len(client[c].read)
    BY DEF AnswersTrue
  <2>1. Knows(client[c], store[Target], Payload[c])
    BY DEF PublishersInv, PublisherInv
  <2> QED BY <2>1, StoredIs DEF Knows
<1> QED BY <1>1, PublishersInvHolds, PTL

-----------------------------------------------------------------------------
(* Panics and listings.                                                    *)

TracelessInv == ApiHubInv /\ PublisherInv

LEMMA TracelessInvHolds == ASSUME IsFiniteSet(Keys) PROVE ApiSpec => []TracelessInv
<1>1. ApiInit => TracelessInv
  BY ApiHubInvInit, PublisherInvInit DEF TracelessInv, ApiInit
<1>2. TracelessInv /\ [ApiNext]_apiVars => TracelessInv'
  BY ApiHubInvStep, PublisherInvStep DEF TracelessInv, PublisherInv, ApiHubInv
<1> QED BY <1>1, <1>2, PTL DEF ApiSpec

(* A request that dies of a panic leaves the counters exact and nothing of *)
(* the namespaces that it deleted.                                         *)
THEOREM PanicsStayTraceless ==
  ASSUME IsFiniteSet(Keys)
  PROVE  ApiSpec => []PanicsLeaveNoTrace
<1>1. TracelessInv => PanicsLeaveNoTrace
  <2>1. TracelessInv => QuotaExact
    BY DEF TracelessInv, ApiHubInv, Exact, QuotaExact, KeysExact, BytesExact
  <2>2. TracelessInv => NothingOrphaned
    BY DEF TracelessInv, ApiHubInv, Fits, Clean, NothingOrphaned, Registered
  <2> QED BY <2>1, <2>2 DEF PanicsLeaveNoTrace
<1> QED BY <1>1, TracelessInvHolds, PTL

(* What a listing has found, and has yet to look at, covers the keys that  *)
(* have been there since it began.                                         *)
ListingSound(ls, s) ==
  /\ ls.alive \subseteq Entries(s, Home)
  /\ ls.alive \subseteq ls.todo \cup {i.key : i \in ls.items}
  /\ ls.pc = "answered" => ls.todo = {}

ListingInv == TracelessInv /\ \A l \in Listings : ListingSound(listing[l], store)

LEMMA NewListingSound == ASSUME NEW s PROVE ListingSound(NewListing, s)
BY DEF ListingSound, NewListing

LEMMA ListingInvStep ==
  ASSUME IsFiniteSet(Keys), ListingInv, [ApiNext]_apiVars
  PROVE  ListingInv'
<1>1. /\ TracelessInv' /\ LayerTyped /\ listing \in [Listings -> ListingState]
      /\ listing' \in [Listings -> ListingState] /\ HubTyped
  <2>1. LayerTyped /\ HubTyped /\ PublisherInv /\ ApiHubInv
    BY DEF ListingInv, TracelessInv, PublisherInv, ApiHubInv
  <2> QED BY <2>1, ListingStep, ApiHubInvStep, PublisherInvStep DEF TracelessInv, LayerTyped
<1>2. ASSUME \A l \in Listings : ListingSound(listing'[l], store') PROVE ListingInv'
  BY <1>1, <1>2 DEF ListingInv
<1>3. \A l \in Listings : ListingSound(listing[l], store)
  BY DEF ListingInv
<1>4. ASSUME UNCHANGED <<store, listing>> PROVE ListingInv'
  BY <1>2, <1>3, <1>4
<1>5. ASSUME NEW l \in Listings, NEW ls, ListingSound(ls, store), store' = store,
             listing' = [listing EXCEPT ![l] = ls]
      PROVE  ListingInv'
  <2> SUFFICES ASSUME NEW x \in Listings PROVE ListingSound(listing'[x], store')
    BY <1>2
  <2>1. listing'[x] = IF x = l THEN ls ELSE listing[x]
    BY <1>1, <1>5
  <2> QED BY <1>3, <1>5, <2>1
<1>6. ASSUME NEW l \in Listings, ListBegin(l) PROVE ListingInv'
  <2> DEFINE keys == Entries(store, Home)
             ls == [pc |-> "reading", todo |-> keys, items |-> {}, alive |-> keys]
  <2>1. ListingSound(ls, store)
    BY DEF ListingSound
  <2>2. listing' = [listing EXCEPT ![l] = ls] /\ store' = store
    BY <1>6 DEF ListBegin, vars
  <2> HIDE DEF ls
  <2> QED BY <1>5, <2>1, <2>2
<1>7. ASSUME NEW l \in Listings, NEW k \in Keys, ListItem(l, k) PROVE ListingInv'
  <2> DEFINE old == listing[l]
             items == IF Found(k) THEN old.items \cup {Item(k)} ELSE old.items
             ls == [old EXCEPT !.todo = old.todo \ {k}, !.items = items]
  <2>1. listing' = [listing EXCEPT ![l] = ls] /\ store' = store /\ old.pc = "reading"
    BY <1>7 DEF ListItem, vars
  <2>2. old \in ListingState /\ ListingSound(old, store)
    BY <1>1, <1>3
  <2>3. /\ ls.pc = "reading" /\ ls.alive = old.alive /\ ls.todo = old.todo \ {k}
        /\ ls.items = items
    <3> HIDE DEF items, old
    <3> QED BY <2>1, <2>2 DEF ListingState
  <2>4. k \in old.alive => Found(k)
    <3> SUFFICES ASSUME k \in old.alive PROVE Found(k)
      OBVIOUS
    <3>1. k \in Entries(store, Home)
      BY <2>2 DEF ListingSound
    <3>2. Home \in Namespaces
      BY PublishersAssumption DEF Home, Topics
    <3>3. reg[Home] # NoNS
      BY <3>1, <3>2 DEF ListingInv, TracelessInv, ApiHubInv, Fits
    <3> QED BY <3>1, <3>3 DEF Found, Registered, Entries
  <2>5. {i.key : i \in old.items} \subseteq {i.key : i \in items}
    OBVIOUS
  <2>6. Found(k) => k \in {i.key : i \in items}
    <3>1. Item(k).key = k
      BY DEF Item
    <3> QED BY <3>1
  <2> HIDE DEF old, items, ls
  <2>7. ListingSound(ls, store)
    <3>1. ASSUME NEW x \in ls.alive PROVE x \in ls.todo \cup {i.key : i \in ls.items}
      <4>1. x \in old.todo \/ x \in {i.key : i \in old.items}
        BY <2>2, <2>3, <3>1 DEF ListingSound
      <4> QED BY <2>3, <2>4, <2>5, <2>6, <3>1, <4>1
    <3> QED BY <2>2, <2>3, <3>1 DEF ListingSound
  <2> QED BY <1>5, <2>1, <2>7
<1>8. ASSUME NEW l \in Listings, ListEnd(l) PROVE ListingInv'
  <2> DEFINE old == listing[l]
             ls == [old EXCEPT !.pc = "answered"]
  <2>1. listing' = [listing EXCEPT ![l] = ls] /\ store' = store /\ old.todo = {}
    BY <1>8 DEF ListEnd, vars
  <2>2. old \in ListingState /\ ListingSound(old, store)
    BY <1>1, <1>3
  <2>3. ls.alive = old.alive /\ ls.todo = old.todo /\ ls.items = old.items
    <3> HIDE DEF old
    <3> QED BY <2>2 DEF ListingState
  <2> HIDE DEF old, ls
  <2>4. ListingSound(ls, store)
    BY <2>1, <2>2, <2>3 DEF ListingSound
  <2> QED BY <1>5, <2>1, <2>4
<1>9. ASSUME ListingsAge PROVE ListingInv'
  <2> SUFFICES ASSUME NEW l \in Listings PROVE ListingSound(listing'[l], store')
    BY <1>2
  <2> DEFINE old == listing[l]
             alive == {k \in old.alive : Exists(store'[<<Home, k>>])}
             ls == [old EXCEPT !.alive = alive]
  <2>1. listing'[l] = ls
    BY <1>9 DEF ListingsAge
  <2>2. old \in ListingState /\ ListingSound(old, store)
    BY <1>1, <1>3
  <2>3. ls.alive = alive /\ ls.todo = old.todo /\ ls.items = old.items /\ ls.pc = old.pc
    <3> HIDE DEF old, alive
    <3> QED BY <2>2 DEF ListingState
  <2>4. alive \subseteq old.alive /\ alive \subseteq Entries(store', Home)
    <3>1. old.alive \subseteq Keys
      BY <2>2 DEF ListingState
    <3> QED BY <3>1 DEF Entries
  <2> HIDE DEF old, alive, ls
  <2> QED BY <2>1, <2>2, <2>3, <2>4 DEF ListingSound
<1>10. ASSUME Restart PROVE ListingInv'
  BY <1>2, <1>10, NewListingSound DEF Restart
<1> QED
  BY <1>4, <1>6, <1>7, <1>8, <1>9, <1>10
  DEF ApiNext, ReadHistory, Send, HandlePut, Other, apiVars, vars

(* A listing leaves out no key that was there from the request to the      *)
(* answer, however many others went while it was put together.             *)
THEOREM ListingsAreComplete ==
  ASSUME IsFiniteSet(Keys)
  PROVE  ApiSpec => []ListingComplete
<1>1. ApiInit => ListingInv
  <2> SUFFICES ASSUME ApiInit PROVE ListingInv
    OBVIOUS
  <2>1. TracelessInv
    BY ApiHubInvInit, PublisherInvInit DEF TracelessInv, ApiInit
  <2>2. \A l \in Listings : listing[l] = NewListing
    BY DEF ApiInit
  <2> QED BY <2>1, <2>2, NewListingSound DEF ListingInv
<1>2. ListingInv /\ [ApiNext]_apiVars => ListingInv'
  BY ListingInvStep
<1>3. ListingInv => ListingComplete
  BY DEF ListingInv, ListingSound, ListingComplete
<1> QED BY <1>1, <1>2, <1>3, PTL DEF ApiSpec
=============================================================================
