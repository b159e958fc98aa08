------------------------------- MODULE ConfHub -------------------------------
(***************************************************************************)
(* confhub.Hub: namespaces, access control, versioned store, quota, audit, *)
(* announcements to the watch hub, snapshots and the saved copy, as the    *)
(* operations of the library change them.  Every operation runs from its   *)
(* first check to its save under Hub.mu, so each is one action; what it    *)
(* answered, whether it left an audit record and what it announced are in  *)
(* `out`.  WatchHub models how an announcement reaches its watchers.       *)
(***************************************************************************)
EXTENDS VersionChain

CONSTANTS
  Namespaces, Keys,
  Actors,           \* the subjects of grants, and the owners
  NoActor,          \* the empty actor: the call is not checked
  NoNS,             \* a namespace that is not registered
  DefaultMaxKeys, DefaultMaxBytes,
  RequireSign,      \* WithRequireSign
  SaveOutcomes,     \* {}: no persist path; else whether a save may succeed, fail
  Limits,           \* bound: the quotas namespaces are created with
  Owners, Subjects, \* bound: who is made an owner, who is granted a role
  Callers,          \* bound: who calls, NoActor or an actor
  PutSizes, PutRules, PutSigs, PutBinds,  \* bound: what Put is called with
  GrantRoles,       \* bound: the roles that are granted
  Forms,            \* bound: the forms of snapshot that are imported
  Foreign,          \* the snapshots of other hubs, or written by hand
  MaxRev            \* bound: versions of one key

ASSUME ActorsAssumption == NoActor \notin Actors
ASSUME DefaultsAssumption == DefaultMaxKeys \in Nat \ {0} /\ DefaultMaxBytes \in Nat \ {0}
ASSUME SwitchesAssumption == RequireSign \in BOOLEAN /\ SaveOutcomes \subseteq BOOLEAN
ASSUME InputsAssumption ==
  /\ Limits \subseteq [maxKeys : Int, maxBytes : Int]
  /\ Owners \subseteq Actors /\ Subjects \subseteq Actors
  /\ Callers \subseteq Actors \cup {NoActor}
  /\ PutSizes \subseteq Nat
  /\ PutRules \subseteq Rule
  /\ PutSigs \subseteq Signature
  /\ PutBinds \subseteq Nat
  /\ GrantRoles \subseteq 0..3
  /\ Forms \subseteq {"blob", "json", "bare"}
  /\ MaxRev \in Nat

Topics == Namespaces \X Keys

(* ns.Role *)
RoleNone == 0
RoleReader == 1
RoleWriter == 2
RoleAdmin == 3

(* Only an import may bring a namespace without an owner, or without a     *)
(* limit.  Nothing binds less than a limit of 0, so lower ones are left    *)
(* out, and so are counters below 0.                                       *)
NSMeta == [owner : Actors \cup {NoActor}, maxKeys : Nat, maxBytes : Nat]

ASSUME NoNSAssumption == NoNS \notin NSMeta

Usage == [keys : Nat, bytes : Nat]
NoUsage == [keys |-> 0, bytes |-> 0]

Kinds == {"publish", "rollback", "delete"}
Event == [topic : Topics, kind : Kinds, rev : Nat]

VARIABLES
  closed,   \* Hub.closed
  reg,      \* ns.Registry.items
  owners,   \* ns.ACL.owners
  grants,   \* ns.ACL.grants; a missing one is RoleNone
  store,    \* store.Memory.entries
  usage,    \* quota.Counter.use; a missing one is NoUsage
  last,     \* watch.Hub.last: topic -> kind and revision of its newest event
  disk,     \* the entries in the file at persistPath
  blob,     \* the snapshot that was exported last
  out       \* what the last operation answered, audited and announced

vars == <<closed, reg, owners, grants, store, usage, last, disk, blob, out>>

NoEvent == [kind |-> "none", rev |-> 0]

Snapshot == [reg : [Namespaces -> NSMeta \cup {NoNS}],
             store : [Topics -> Chain],
             grants : [Namespaces -> [Actors -> 0..3]],
             usage : [Namespaces -> Usage]]

(* An import looks at nothing but the chains (Refused): a snapshot from    *)
(* elsewhere may hold any of them, unsigned, with a stable pointer that    *)
(* names no full version, and counters that are not those of its entries.  *)
ASSUME ForeignAssumption == Foreign \subseteq Snapshot

EmptyBlob == [reg    |-> [n \in Namespaces |-> NoNS],
              store  |-> [t \in Topics |-> Absent],
              grants |-> [n \in Namespaces |-> [a \in Actors |-> RoleNone]],
              usage  |-> [n \in Namespaces |-> NoUsage]]

Init ==
  /\ closed = FALSE
  /\ reg = EmptyBlob.reg
  /\ owners = [n \in Namespaces |-> NoActor]
  /\ grants = EmptyBlob.grants
  /\ store = EmptyBlob.store
  /\ usage = EmptyBlob.usage
  /\ last = [t \in Topics |-> NoEvent]
  /\ disk = EmptyBlob.store
  /\ blob = EmptyBlob
  /\ out = [op |-> "new", err |-> "none", audit |-> "none", events |-> {}]

-----------------------------------------------------------------------------
(* What the operations are made of.                                        *)

(* An operation that returns err; `audited` tells whether it left a record *)
(* of its failure.  It changes nothing else.                               *)
Refuse(op, err, audited) ==
  /\ out' = [op |-> op, err |-> err, audit |-> IF audited THEN "fail" ELSE "none",
             events |-> {}]
  /\ UNCHANGED <<closed, reg, owners, grants, store, usage, last, disk, blob>>

(* An operation that succeeds, with an audit record.                       *)
Done(op, events) ==
  out' = [op |-> op, err |-> "none", audit |-> "ok", events |-> events]

(* watch.Hub.Publish of each event, as far as `last` goes.                 *)
Announce(events) ==
  last' = [t \in Topics |->
             IF \E e \in events : e.topic = t
             THEN LET e == CHOOSE e \in events : e.topic = t
                  IN  [kind |-> e.kind, rev |-> e.rev]
             ELSE last[t]]

(* maybePersistLocked: nothing without a path; else the store is written,  *)
(* and an error of the write is dropped.                                   *)
Save(entries) ==
  \/ SaveOutcomes = {} /\ UNCHANGED disk
  \/ TRUE \in SaveOutcomes /\ disk' = entries
  \/ FALSE \in SaveOutcomes /\ UNCHANGED disk

Registered(n) == reg[n] # NoNS

(* ns.ACL.RoleOf *)
RoleOf(n, subject) ==
  IF owners[n] = subject THEN RoleAdmin ELSE grants[n][subject]

(* The callers without a name are not checked; the others need the role.   *)
May(n, actor, need) == actor = NoActor \/ RoleOf(n, actor) >= need

(* The entries of a namespace.                                             *)
Entries(s, n) == {k \in Keys : Exists(s[<<n, k>>])}

BytesIn(s, n) == SumFunction([k \in Keys |-> BytesOf(s[<<n, k>>])])

(* mutant: only the first version of a key is charged, nothing is bounded *)
AddFirstOnly(u, keys, bytes) ==
  [keys |-> u.keys + keys, bytes |-> IF keys = 0 THEN u.bytes ELSE u.bytes + bytes]

AtLeast0(i) == IF i < 0 THEN 0 ELSE i

(* quota.Usage.Add, as Commit applies it.                                  *)
Add(u, keys, bytes) ==
  [keys |-> AtLeast0(u.keys + keys), bytes |-> AtLeast0(u.bytes + bytes)]

(* mutant: a namespace may go one key over its limit *)
QuotaErrorLate(n, newKey, size) ==
  IF reg[n].maxKeys > 0 /\ usage[n].keys > reg[n].maxKeys
  THEN "ErrQuotaKeys"
  ELSE IF reg[n].maxBytes > 0 /\ usage[n].bytes + size > reg[n].maxBytes
  THEN "ErrQuotaBytes"
  ELSE "none"

(* quota.Limiter.Check *)
QuotaError(n, newKey, size) ==
  LET keys == usage[n].keys + (IF newKey THEN 1 ELSE 0) IN
    IF reg[n].maxKeys > 0 /\ keys > reg[n].maxKeys
    THEN "ErrQuotaKeys"
    ELSE IF reg[n].maxBytes > 0 /\ usage[n].bytes + size > reg[n].maxBytes
    THEN "ErrQuotaBytes"
    ELSE "none"

-----------------------------------------------------------------------------
(* CreateNSSpec                                                            *)

OrDefault(limit, default) == IF limit = 0 THEN default ELSE limit

CreateNSError(n, l) ==
  IF closed THEN "ErrClosed"
  ELSE IF l.maxKeys < 0 \/ l.maxBytes < 0 THEN "ErrInvalidArg"
  ELSE IF Registered(n) THEN "ErrAlreadyExists"
  ELSE "none"

CreateNS(n, owner, l) ==
  LET err == CreateNSError(n, l) IN
  \/ err # "none" /\ Refuse("createNS", err, err # "ErrClosed")
  \/ /\ err = "none"
     /\ reg' = [reg EXCEPT ![n] = [owner    |-> owner,
                                   maxKeys  |-> OrDefault(l.maxKeys, DefaultMaxKeys),
                                   maxBytes |-> OrDefault(l.maxBytes, DefaultMaxBytes)]]
     /\ owners' = [owners EXCEPT ![n] = owner]
     /\ Done("createNS", {})
     /\ Save(store)
     /\ UNCHANGED <<closed, grants, store, usage, last, blob>>

(* DeleteNSActor: the entries, the registration with its owner and grants, *)
(* and the usage go; each entry that went is announced with its head.      *)
DeleteNSError(n, actor) ==
  IF closed THEN "ErrClosed"
  ELSE IF ~Registered(n) THEN "ErrNotFound"
  ELSE IF ~May(n, actor, RoleAdmin) THEN "ErrForbidden"
  ELSE "none"

(* mutant: the grants are left behind *)
UnregisterKeepsGrants(n) ==
  /\ reg' = [reg EXCEPT ![n] = NoNS]
  /\ owners' = [owners EXCEPT ![n] = NoActor]
  /\ UNCHANGED grants

(* Registry.Delete with ACL.RemoveNS.                                      *)
Unregister(n) ==
  /\ reg' = [reg EXCEPT ![n] = NoNS]
  /\ owners' = [owners EXCEPT ![n] = NoActor]
  /\ grants' = [grants EXCEPT ![n] = [a \in Actors |-> RoleNone]]

DeleteNS(n, actor) ==
  LET err == DeleteNSError(n, actor)
      gone == {[topic |-> <<n, k>>, kind |-> "delete", rev |-> store[<<n, k>>].head] :
                 k \in Entries(store, n)}
  IN
  \/ err # "none" /\ Refuse("deleteNS", err, err = "ErrNotFound")
  \/ /\ err = "none"
     /\ store' = [t \in Topics |-> IF t[1] = n THEN Absent ELSE store[t]]
     /\ Unregister(n)
     /\ usage' = [usage EXCEPT ![n] = NoUsage]
     /\ Announce(gone)
     /\ Done("deleteNS", gone)
     /\ Save(store')
     /\ UNCHANGED <<closed, blob>>

(* Grant, which neither looks at `closed` nor leaves a record or a copy.   *)
GrantError(n, actor) ==
  IF ~Registered(n) THEN "ErrNotFound"
  ELSE IF ~May(n, actor, RoleAdmin) THEN "ErrForbidden"
  ELSE "none"

(* ACL.Grant: to grant RoleNone is to take the grant away.                 *)
SetRole(n, subject, role) == grants' = [grants EXCEPT ![n][subject] = role]

Grant(n, subject, role, actor) ==
  LET err == GrantError(n, actor) IN
  \/ err # "none" /\ Refuse("grant", err, FALSE)
  \/ /\ err = "none"
     /\ SetRole(n, subject, role)
     /\ out' = [op |-> "grant", err |-> "none", audit |-> "none", events |-> {}]
     /\ UNCHANGED <<closed, reg, owners, store, usage, last, disk, blob>>

-----------------------------------------------------------------------------
(* Put.  p is what it is called with: actor, size, rule, sig, bind.        *)

NeedSign(p) == RequireSign \/ p.sig.kind # "none"
HasSign(p) == p.sig.kind \notin {"none", "algo"}

(* mutant: the signature is checked against the revision it names *)
VerifyAnyRev(p) == p.sig.kind = "good"

(* Keyring.Verify against the revision the call binds, or none.            *)
Verify(p) == p.sig.kind = "good" /\ p.sig.rev = p.bind

(* Why Verify refuses.                                                     *)
VerifyError(p) ==
  CASE p.sig.kind = "unknownAlgo" -> "ErrUnknownAlgo"
    [] p.sig.kind = "unknownKey" -> "ErrUnknownKey"
    [] OTHER -> "ErrSignFailed"

ConflictIgnored(t, p) == FALSE \* mutant: BindRev is not looked at

(* mutant: BindRev is compared with the revision after the head *)
ConflictAfterHead(t, p) == p.bind > 0 /\ p.bind # store[t].head + 1

(* A call that binds a revision asks for its version to become that one.   *)
Conflict(t, p) == p.bind > 0 /\ p.bind # NextRev(store[t])

(* The checks of Put, in the order it makes them.                          *)
PutError(t, p) ==
  IF closed THEN "ErrClosed"
  ELSE IF p.size = 0 THEN "ErrPayloadEmpty"
  ELSE IF ~Registered(t[1]) THEN "ErrNotFound"
  ELSE IF ~May(t[1], p.actor, RoleWriter) THEN "ErrForbidden"
  ELSE IF Normalize(p.rule) = {} THEN "ErrGrayInvalid"
  ELSE IF Conflict(t, p) THEN "ErrConflict"
  ELSE IF NeedSign(p) /\ ~HasSign(p) THEN "ErrSignRequired"
  ELSE IF NeedSign(p) /\ ~Verify(p) THEN VerifyError(p)
  ELSE QuotaError(t[1], ~Exists(store[t]), p.size)

Put(t, p) ==
  LET err == PutError(t, p) IN
  \/ /\ err # "none"
     /\ Refuse("put", err, err \notin {"ErrClosed", "ErrPayloadEmpty", "ErrNotFound"})
  \/ /\ err = "none"
     /\ Len(store[t].versions) < MaxRev
     /\ \E r \in Normalize(p.rule) :
          LET v == [rev |-> NextRev(store[t]), size |-> p.size, sig |-> p.sig, rule |-> r]
          IN  store' = [store EXCEPT ![t] = AppendVersion(@, v)]
     /\ LET events == {[topic |-> t, kind |-> "publish", rev |-> store'[t].head]} IN
          Announce(events) /\ Done("put", events)
     /\ usage' = [usage EXCEPT ![t[1]] =
                    Add(@, IF Exists(store[t]) THEN 0 ELSE 1, p.size)]
     /\ Save(store')
     /\ UNCHANGED <<closed, reg, owners, grants, blob>>

-----------------------------------------------------------------------------
(* RollbackActor.  An entry that is not there is the code's ErrNotFound    *)
(* too; ErrNoEntry tells the two apart, because only this one leaves a     *)
(* record.                                                                 *)

RollbackError(t, rev, actor) ==
  IF closed THEN "ErrClosed"
  ELSE IF ~Registered(t[1]) THEN "ErrNotFound"
  ELSE IF ~May(t[1], actor, RoleWriter) THEN "ErrForbidden"
  ELSE IF ~Exists(store[t]) THEN "ErrNoEntry"
  ELSE IF ~HasRev(store[t], rev) THEN "ErrBadRevision"
  ELSE "none"

(* mutant: neither announced nor saved *)
RollbackSilently(t, rev, actor) ==
  LET err == RollbackError(t, rev, actor) IN
  \/ err # "none" /\ Refuse("rollback", err, err \notin {"ErrClosed", "ErrNotFound"})
  \/ /\ err = "none"
     /\ store' = [store EXCEPT ![t] = RollbackHead(@, rev)]
     /\ Done("rollback", {})
     /\ UNCHANGED <<closed, reg, owners, grants, usage, last, disk, blob>>

(* mutant: the versions after the one that is returned to are dropped *)
RollbackTruncates(t, rev, actor) ==
  LET err == RollbackError(t, rev, actor) IN
  \/ err # "none" /\ Refuse("rollback", err, err \notin {"ErrClosed", "ErrNotFound"})
  \/ /\ err = "none"
     /\ store' = [store EXCEPT ![t] =
                    [RollbackHead(@, rev) EXCEPT !.versions = SubSeq(@, 1, rev)]]
     /\ LET events == {[topic |-> t, kind |-> "rollback", rev |-> store'[t].head]} IN
          Announce(events) /\ Done("rollback", events)
     /\ Save(store')
     /\ UNCHANGED <<closed, reg, owners, grants, usage, blob>>

Rollback(t, rev, actor) ==
  LET err == RollbackError(t, rev, actor) IN
  \/ err # "none" /\ Refuse("rollback", err, err \notin {"ErrClosed", "ErrNotFound"})
  \/ /\ err = "none"
     /\ store' = [store EXCEPT ![t] = RollbackHead(@, rev)]
     /\ LET events == {[topic |-> t, kind |-> "rollback", rev |-> store'[t].head]} IN
          Announce(events) /\ Done("rollback", events)
     /\ Save(store')
     /\ UNCHANGED <<closed, reg, owners, grants, usage, blob>>

(* DeleteKey: the registry is not asked whether the namespace exists, and  *)
(* a caller without the role leaves no record.                             *)
DeleteKeyError(t, actor) ==
  IF closed THEN "ErrClosed"
  ELSE IF ~May(t[1], actor, RoleWriter) THEN "ErrForbidden"
  ELSE IF ~Exists(store[t]) THEN "ErrNoEntry"
  ELSE "none"

(* mutant: the head is looked up after the entry was taken out *)
DeleteKeyHeadless(t, actor) ==
  LET err == DeleteKeyError(t, actor)
      events == {[topic |-> t, kind |-> "delete", rev |-> 0]}
  IN
  \/ err # "none" /\ Refuse("deleteKey", err, err = "ErrNoEntry")
  \/ /\ err = "none"
     /\ store' = [store EXCEPT ![t] = Absent]
     /\ usage' = [usage EXCEPT ![t[1]] = Add(@, -1, -BytesOf(store[t]))]
     /\ Announce(events)
     /\ Done("deleteKey", events)
     /\ Save(store')
     /\ UNCHANGED <<closed, reg, owners, grants, blob>>

DeleteKey(t, actor) ==
  LET err == DeleteKeyError(t, actor)
      events == {[topic |-> t, kind |-> "delete", rev |-> store[t].head]}
  IN
  \/ err # "none" /\ Refuse("deleteKey", err, err = "ErrNoEntry")
  \/ /\ err = "none"
     /\ store' = [store EXCEPT ![t] = Absent]
     /\ usage' = [usage EXCEPT ![t[1]] = Add(@, -1, -BytesOf(store[t]))]
     /\ Announce(events)
     /\ Done("deleteKey", events)
     /\ Save(store')
     /\ UNCHANGED <<closed, reg, owners, grants, blob>>

-----------------------------------------------------------------------------
(* Snapshots and the end.                                                  *)

(* snapshot.Build *)
Built == [reg |-> reg, store |-> store, grants |-> grants, usage |-> usage]

Export ==
  /\ ~closed
  /\ blob' = Built
  /\ out' = [op |-> "export", err |-> "none", audit |-> "none", events |-> {}]
  /\ UNCHANGED <<closed, reg, owners, grants, store, usage, last, disk>>

LeftOut(b, part) == IF b[part] = EmptyBlob[part] THEN {part} ELSE {}

(* The parts a form of the snapshot b may come without.  A Blob, its       *)
(* binary encoding, and JSON that says so have both maps, if only empty    *)
(* ones; in the JSON of an export an empty map is left out, but counters   *)
(* that went back to zero are there as long as their namespace; a bare one *)
(* is JSON that was written without one of them, or without both.          *)
Missing(form, b) ==
  IF form = "blob" THEN {{}}
  ELSE IF form = "bare" THEN {{"grants"}, {"usage"}, {"grants", "usage"}}
  ELSE {LeftOut(b, "grants"), LeftOut(b, "grants") \cup LeftOut(b, "usage")}

(* mutant: only gaps are looked for, not where the pointers are *)
RefusedForGaps(b) ==
  \E t \in Topics : \E i \in 1..Len(b.store[t].versions) : b.store[t].versions[i].rev # i

(* ValidateChain refuses an entry of b.                                    *)
Refused(b) == \E t \in Topics : b.store[t] # Absent /\ ~ValidateChain(b.store[t])

(* mutant: the registered namespaces are cleared after they were counted *)
RecalculatedCleared(b) ==
  [n \in Namespaces |->
     IF b.reg[n] # NoNS THEN NoUsage
     ELSE IF Entries(b.store, n) # {}
     THEN [keys |-> Cardinality(Entries(b.store, n)), bytes |-> BytesIn(b.store, n)]
     ELSE usage[n]]

(* recalcQuotaLocked, after the registry and the store were replaced: the  *)
(* registered namespaces start from nothing, and those with entries, which *)
(* need not be registered, are counted.                                    *)
Recalculated(b) ==
  [n \in Namespaces |->
     IF Entries(b.store, n) # {}
     THEN [keys |-> Cardinality(Entries(b.store, n)), bytes |-> BytesIn(b.store, n)]
     ELSE IF b.reg[n] # NoNS THEN NoUsage ELSE usage[n]]

(* mutant: the owners of the imported namespaces are not set *)
ReplaceRegistryOnly(b) ==
  /\ reg' = b.reg
  /\ UNCHANGED owners

(* Registry.ReplaceAll: the owners of namespaces that are no longer there  *)
(* stay behind.                                                            *)
ReplaceRegistry(b) ==
  /\ reg' = b.reg
  /\ owners' = [n \in Namespaces |->
                  IF b.reg[n] = NoNS THEN owners[n] ELSE b.reg[n].owner]

(* ACL.Import; a snapshot without grants leaves the present ones alone.    *)
ReplaceGrants(b, missing) ==
  grants' = IF "grants" \in missing THEN grants ELSE b.grants

(* Memory.ReplaceAll: nothing is taken over if one entry is refused.       *)
ReplaceStore(b) == store' = b.store

(* Counter.Import, whatever the counters are, or a count when the snapshot *)
(* has none.                                                               *)
ReplaceUsage(b, missing) ==
  usage' = IF "usage" \in missing THEN Recalculated(b) ELSE b.usage

(* ImportSnapshot.  When the store refuses an entry, the registry and the  *)
(* grants were replaced by then.  No signature is verified.                *)
Import(b, form) ==
  /\ ReplaceRegistry(b)
  /\ \E missing \in Missing(form, b) :
       /\ ReplaceGrants(b, missing)
       /\ IF Refused(b)
          THEN /\ out' = [op |-> "import", err |-> "ErrBadRevision", audit |-> "none", events |-> {}]
               /\ UNCHANGED <<store, usage, disk>>
          ELSE /\ ReplaceStore(b)
               /\ ReplaceUsage(b, missing)
               /\ Done("import", {})
               /\ Save(store')
  /\ UNCHANGED <<closed, last, blob>>

(* The snapshot is the one this hub exported last, or comes from elsewhere. *)
ImportOpen(b, form) == ~closed /\ Import(b, form)

SnapshotClosed ==
  /\ closed
  /\ \E op \in {"export", "import"} : Refuse(op, "ErrClosed", FALSE)

Close ==
  /\ ~closed
  /\ closed' = TRUE
  /\ out' = [op |-> "close", err |-> "none", audit |-> "none", events |-> {}]
  /\ UNCHANGED <<reg, owners, grants, store, usage, last, disk, blob>>

PutInputs == [actor : Callers, size : PutSizes, rule : PutRules, sig : PutSigs, bind : PutBinds]

Next ==
  \/ \E n \in Namespaces :
       \/ \E owner \in Owners, l \in Limits : CreateNS(n, owner, l)
       \/ \E actor \in Callers :
            DeleteNS(n, actor) \/ \E a \in Subjects, r \in GrantRoles : Grant(n, a, r, actor)
  \/ \E t \in Topics :
       \/ \E p \in PutInputs : Put(t, p)
       \/ \E actor \in Callers :
            DeleteKey(t, actor) \/ \E rev \in 0..MaxRev : Rollback(t, rev, actor)
  \/ Forms # {} /\ Export
  \/ \E b \in {blob} \cup Foreign, form \in Forms : ImportOpen(b, form)
  \/ SnapshotClosed
  \/ Close

Spec == Init /\ [][Next]_vars
-----------------------------------------------------------------------------
(* Properties.                                                             *)

Output == [op : {"new", "createNS", "deleteNS", "grant", "put", "rollback", "deleteKey",
                 "export", "import", "close"},
           err : {"none", "ErrClosed", "ErrInvalidArg", "ErrAlreadyExists", "ErrNotFound",
                  "ErrForbidden", "ErrPayloadEmpty", "ErrGrayInvalid", "ErrConflict",
                  "ErrSignRequired", "ErrSignFailed", "ErrUnknownAlgo", "ErrUnknownKey",
                  "ErrQuotaKeys", "ErrQuotaBytes", "ErrNoEntry", "ErrBadRevision"},
           audit : {"none", "ok", "fail"},
           events : SUBSET Event]

(* What is stored and who may change it has its types.                     *)
StateOK ==
  /\ closed \in BOOLEAN
  /\ reg \in [Namespaces -> NSMeta \cup {NoNS}]
  /\ owners \in [Namespaces -> Actors \cup {NoActor}]
  /\ grants \in [Namespaces -> [Actors -> 0..3]]
  /\ store \in [Topics -> Chain]
  /\ last \in [Topics -> [kind : Kinds \cup {"none"}, rev : Nat]]
  /\ disk \in [Topics -> Chain]

(* The state has its types: so have the counters, the snapshot, and what   *)
(* an operation answers.                                                   *)
TypeOK ==
  /\ StateOK
  /\ usage \in [Namespaces -> Usage]
  /\ blob \in Snapshot
  /\ out \in Output

(* What PutVersion checks before it stores an entry, and ReplaceAll before *)
(* it takes one over, stays true of every entry: revisions 1, 2, 3 ...     *)
(* without a gap, and pointers into the chain.                             *)
WellFormed(s) == \A t \in Topics : s[t] = Absent \/ ValidateChain(s[t])

ChainsValid == WellFormed(store)

(* The stable pointer names a version that everybody may read, never one   *)
(* newer than the head; it is the head itself exactly when everybody may   *)
(* read the head (AppendVersion, RollbackHead).                            *)
StablePointer == \A t \in Topics : Exists(store[t]) => Pointers(store[t])

(* Whatever sequence of publications and rollbacks led here, a client that *)
(* the head's rule leaves out and that reads something reads a version     *)
(* published to everybody and older than the head.                         *)
MissReadsFull ==
  \A t \in Topics, c \in Client :
    LET e == store[t]  r == Select(e, c) IN
      (Exists(e) /\ ~Eval(e.versions[e.head].rule, c) /\ r # 0) =>
        HasRev(e, r) /\ r < e.head /\ Full(e.versions[r].rule)

(* A version, once published, is never changed or lost while its key lives *)
(* (meta.VersionMeta, "immutable"): a rollback moves pointers only.        *)
HistoryImmutable ==
  [][\A t \in Topics :
       (Exists(store[t]) /\ Exists(store'[t]) /\ out'.op # "import") =>
         /\ Len(store[t].versions) <= Len(store'[t].versions)
         /\ \A i \in 1..Len(store[t].versions) : store'[t].versions[i] = store[t].versions[i]]_vars

(* The newest event of a key says what the store says: its head while the  *)
(* key exists, a deletion after it went.  A long poll answers from it.     *)
LastTracksStore ==
  \A t \in Topics :
    IF Exists(store[t])
    THEN last[t].kind \in {"publish", "rollback"} /\ last[t].rev = store[t].head
    ELSE last[t].kind \in {"none", "delete"}

(* Without imports, the hub is the source of events its watchers count on: *)
(* no change of a chain goes untold, none is told twice or with another    *)
(* revision than it led to, and nothing else is told.  WatchHub assumes    *)
(* as much of the holder of Hub.mu.                                        *)
Source == INSTANCE EventSource WITH
  chain <- [t \in Topics |-> [len |-> Len(store[t].versions), head |-> store[t].head]]

ImplementsSource == Source!Spec

(* With WithRequireSign every stored version carries a good signature, and *)
(* one that was bound to a revision is stored at that revision only.       *)
SignedOnly ==
  \A t \in Topics : \A i \in 1..Len(store[t].versions) :
    LET s == store[t].versions[i].sig IN
      /\ RequireSign => s.kind = "good"
      /\ s.kind = "good" => s.rev \in {0, i}

(* When saves succeed, the file holds what memory holds after every        *)
(* operation: each handler that changes the store ends with a save.        *)
DiskCurrent == disk = store

KeysExact == \A n \in Namespaces : usage[n].keys = Cardinality(Entries(store, n))
BytesExact == \A n \in Namespaces : usage[n].bytes = BytesIn(store, n)

(* The counters of the quota are what the store holds, for every namespace *)
(* that exists or ever existed: neither rollbacks nor the deletion and     *)
(* re-creation of keys and namespaces leak or return too much.             *)
QuotaExact == KeysExact /\ BytesExact

KeysWithin ==
  \A n \in Namespaces : Registered(n) => Cardinality(Entries(store, n)) <= reg[n].maxKeys
BytesWithin ==
  \A n \in Namespaces : Registered(n) => BytesIn(store, n) <= reg[n].maxBytes

(* No registered namespace holds more than it was created with.            *)
WithinQuota == KeysWithin /\ BytesWithin

(* The access list and the registry, two maps, agree on who owns what.     *)
OwnersMatch == \A n \in Namespaces : Registered(n) => owners[n] = reg[n].owner

(* Nothing outlives its namespace: neither entries, nor grants that would  *)
(* hold in its next life, nor counters.                                    *)
NothingOrphaned ==
  \A n \in Namespaces :
    ~Registered(n) => /\ Entries(store, n) = {}
                      /\ \A a \in Actors : grants[n][a] = RoleNone
                      /\ usage[n] = NoUsage

(* The counters u of a namespace are not below what s holds.               *)
Covered(n, s, u) ==
  /\ u[n].keys >= Cardinality(Entries(s, n))
  /\ u[n].bytes >= BytesIn(s, n)

(* What is asked of the snapshots from elsewhere: their own counters cover *)
(* their own entries, as those of every hub that only exports do.          *)
CoveringSnapshots == \A b \in Foreign : \A n \in Namespaces : Covered(n, b.store, b.usage)

(* As long as that is so, the counters are never below what is stored, and *)
(* no namespace grows past its quota: not through imports with or without  *)
(* counters, of older snapshots or of those of other hubs, nor through any *)
(* that are refused half way.  Without it the counters may be too low,     *)
(* because ImportSnapshot takes those it is given, even none at all.       *)
QuotaNeverUnder == CoveringSnapshots => \A n \in Namespaces : Covered(n, store, usage)

(* internal/errors, ErrQuotaKeys, "namespace key quota exceeded": a Put is *)
(* refused for the number of keys only when its namespace holds as many    *)
(* keys as it may.                                                         *)
QuotaErrorJustified ==
  out.err = "ErrQuotaKeys" =>
    \E n \in Namespaces : Registered(n) /\ Cardinality(Entries(store, n)) >= reg[n].maxKeys
=============================================================================
