# A TLA+ model of go-confhub

go-confhub is a multi-tenant configuration centre: namespaces hold keys, a key
holds a chain of immutable versions, a gray rule decides which client reads
which version, and watchers are told of every change. This directory holds a
specification of it, the TLC configurations that check the specification on
small instances, and theorems about it with proofs for TLAPS.

    tlc -config hub_chains.cfg MCConfHub       # every run: see PROJECT.json
    tlapm TenancyProofs.tla                    # and the other *Proofs modules

`PROJECT.json` says which lines of the repository each definition stands for,
which run checks which property, and which small change of a definition makes
each property fail.

## 1. Inventory

| part | state | operations | modelled in |
|---|---|---|---|
| hub facade (`hub.go put.go get.go snap.go query.go`) | `closed`, `persistPath`, one mutex | CreateNS, DeleteNS, Grant, Put, Rollback, DeleteKey, Export, Import, Close, reads | ConfHub, EventSource |
| versioned store (`internal/store`) | (ns, key) -> chain, head, stable | append, roll back, delete, replace all | VersionChain, ConfHub |
| gray rules (`internal/gray`) | none | normalise, evaluate, select | GrayRules, VersionChain |
| namespaces and access (`internal/ns`) | registry, owners, grants | create, delete, grant, check, replace all; valid names | ConfHub, Names |
| quota (`internal/quota`) | (keys, bytes) per namespace | check, commit, recount | ConfHub |
| watch hub (`internal/watch`) | subscriptions, newest event per key | subscribe, cancel, publish, wait, close | WatchHub |
| audit (`internal/audit`) | ring of records, sequence number | append, query, replace all | AuditLog, AuditTrail |
| snapshot (`internal/snapshot`) | a file | build, encode, decode, write, read | ConfHub, SnapshotCodec, Backup |
| persistence (`store/persist.go`) | a file | write a file atomically | Persist, AtomicFile |
| signatures (`internal/sign`) | keys per namespace, default identifier | put keys, sign, verify | Keyring |
| version history (`internal/version`) | none | history, line diff | ApiServer, LineDiff |
| HTTP API and server (`internal/api`, `cmd`) | none of their own | call the hub, once or several times | ApiServer |
| client context, clock, web page | none | parse, tell the time, draw | not modelled |

How they interact. Every operation of the hub takes `Hub.mu` and keeps it from
its first check to its save; under it the hub calls registry, store, quota and
audit (each with a lock of its own that is always free then) and at last
`watch.Publish`. So the hub itself is sequential, and an operation is one action.
The concurrency is around it: `Watch`, its cancel and `Wait` do not take
`Hub.mu`; they meet a running `Publish` at `watch.Hub.mu` (held for the map
only), at the atomic flag of a subscription, and at its bounded channel.
Handlers of the HTTP API that call the hub several times do so without a lock;
`snapshot.WriteFile` and the hub's own saves share only the file system.

Hard behaviours: send against close; check-then-subscribe in `Wait`; dropping
the oldest event while the reader reads; a timer against an event against
`Close`; a panic in the middle of a publication; two pointers into a chain
through mixed publications and rollbacks; counters that are clamped at zero;
imports that replace five maps one after the other and may stop half way;
owners kept in two places; save errors that are dropped; requests that are
lost, late or sent twice; listings put together from several calls; system
calls that fail and machines that stop between them; two files that must agree
on the order of forty fields. `PROJECT.json` lists them under `hazards`, each at
its line.

What makes each part correct:

- watch hub: events in order, none twice, the newest never lost; nothing after
  cancel; publishers never wait for readers; polls return and are fresh.
- store: chains without gaps; history is immutable; the stable pointer names a
  version for everybody, never one newer than the head.
- hub: every change of a chain is announced once, as what it was.
- gray: allow list before tags before percentage; widening keeps clients.
- quota and tenancy: counters are what is stored; limits hold; nothing outlives
  its namespace; owners agree.
- audit: the newest records, in order, however often the ring wrapped or was refilled.
- persistence: nobody reads half a file; an error replaced nothing.
- codec: what is read is what was written, in every field, or nothing.
- signatures: good for what they were made for only, until their key changes.
- HTTP API: a repeated PUT is stored once, nobody overwrites unseen, answers stay true.

## 2. The modules

**WatchHub** (`internal/watch`). Processes are the holder of `Hub.mu` (the only
caller of Publish and Close; variable `pub` is where it is), the callers of
Watch, and the callers of Wait. One step is one critical section of
`watch.Hub.mu`, one channel operation, or one access of the atomic `closed`:
`Publish` is `PublishBegin` (lock, newest event, copy of the list), then for
each subscription `SendBegin` (flag and filter) and `SendTry`, `SendDrop`,
`SendRetry` (the three selects), then `PublishEnd`. A send on a closed channel
is `Panic`: the deferred unlock runs, the rest of the list is never visited.
`Wait` is `WaitBegin` (first look), `WaitSubscribe`, then `WaitReceive`,
`WaitClosed` or `WaitTimeout`, then the deferred cancel. A cancel is
`Unsubscribe`, `Flag`, `CloseOwn`. What the hub does to the chain before it
publishes is `Change`, so the announced revisions are ones the store can have.
`log` and `from` are history variables for the properties.

**GrayRules** (`internal/gray`) is pure. Identifiers are model values with a
trimming function, the hash is any function into 0..99, and `Normalize` returns
the set of its possible results: when two tag names become equal by trimming,
the order of Go's map decides. The nil rule and the rule with nothing in it are
one value because the code never tells them apart.

**VersionChain** (`internal/store/entry.go`, `gray.Select`) is pure: a chain,
its head and stable pointers, and how publishing and rolling back move them. A
payload is its size; a signature is what it is good for, or why it is refused.

**ConfHub** (the root package with `internal/ns`, `store`, `quota`, `snapshot`)
extends VersionChain. Variables are the maps of the code; `blob` is the snapshot
exported last, `disk` what the file holds, `out` what the last operation
answered, audited and announced. Each operation is an action with two
disjuncts: refused, with the first check that fails in the code's order, or
done, with every map it touches, its announcement (`Announce`) and its save
(`Save`). `Import` takes a snapshot and its form. The snapshot is the one the hub
exported last, or one of the constant `Foreign`: those of other hubs, or written
by hand, of which nothing is assumed but their types, since ImportSnapshot looks at
nothing but the chains (`Refused`, ValidateChain). It verifies no signature, lets the
stable pointer name any version, and takes the counters it is given. When the
store refuses an entry, the registry and the grants were replaced
already. A `blob` (the exported value, its binary encoding, or JSON that names them) has both maps of
grants and usage; in `json` an empty one is left out and read back as nil (counters
that went back to zero may be in it or not); a `bare` one is JSON without one of them, or without both.
What a property or theorem needs to know of foreign snapshots is its hypothesis.

**EventSource** is what a watcher may rely on: per topic a chain that grows by
one, whose head moves, or that ends, and its newest event, which tells the
change. ConfHub implements it (`ImplementsSource`), WatchHub takes its events
from such a source.

**ApiServer** (`internal/api`) extends ConfHub with its HTTP clients. A
publisher follows the protocol the API offers: read the history (`ReadHistory`),
bind the revision after it, `Send` the PUT, and send it again when no answer
came. A sent request stays in `net` until `HandlePut` takes it, late or after
its repetition or never; its answer reaches the client only on the connection
opened last, and may be lost too. `ListBegin`, `ListItem` and `ListEnd` are the calls of
handleListKeys. `OtherRequest` is everybody else, with DeleteNS also as
`DeleteNSAborted`, what is left of it when a Publish panics under it (finding 1):
net/http catches the panic and drops the connection. `Restart` is a new confhubd: main
gives it no persist path and nothing is loaded, so the hub is empty and what
was under way is gone. The properties are about what the clients know (`read`,
`status`, `rev`) against what the hub holds.

**AtomicFile** is the promise of `store.AtomicWriteFile`: a call takes effect in
one step or not at all, and after a power loss the file is one of those it was since
its directory reached the disk. **Persist** is the function, one step per system
call, each of which may fail, with any number of callers of one path, `Kill`
and `PowerLoss` between any two steps. The file system is external: data that was
not synced may be torn or gone (`AfterLoss`), a rename is atomic but becomes
durable when the kernel likes (`Settle`). `ImplementsFile` is the refinement.

**AuditTrail** is the abstract audit log: the newest `Cap` records. **AuditLog**
is the ring, shown to implement it by `ImplementsTrail` with `trail <- All`.
`Import` refills the ring from place 0 with the records of a snapshot of a log
of any capacity and goes on from their highest number, or from 0 when the list is empty;
`ImportBare` is the import of a snapshot without a list, which leaves the log as it is.

**Backup** composes Persist and AuditLog: what the hub exports is written to
the file while the hub goes on, a crash ends hub and writers, and the snapshot
in the file is read back and imported by whoever is there then.

**Keyring** (`internal/sign`): both rings by namespace and identifier, the ring for
all namespaces behind them, the default identifier, Sign and Verify. Cryptography is ideal: a
signature is the key it was made with and the canonical bytes it was made for.
PutEd looks at the public half only, so a private half may belong to another pair.

**LineDiff** (`version.Diff`), **Names** (`ns.ValidNSID`, `ns.ValidKey`, the
composed name of an entry) and **SnapshotCodec** (`snapshot.Encode`, `Decode`)
are pure, each with the definition it is compared with: all common subsequences
of two texts, keys made up from segments, the blob that was encoded. LineDiff keeps
the table and the walk of the code, and its reading of line ends. SnapshotCodec
writes the field orders of writer and reader down separately, as two tables,
with the framing and the reader's failures around them; a number or a counted
string is one piece that may be cut. Records nest five deep, so both directions are written a
level at a time: what a level puts, or reads, is given to the one around it.

**MCWatchHub, MCConfHub, MCApiServer, MCBackup, MCGrayRules** give TLC the
values of the constants. MCGrayRules submits every rule of a vocabulary to
`Normalize` and asks for every client. **MCAlgorithms** joins it with Keyring,
LineDiff, Names and SnapshotCodec: a behaviour is about one of them, chosen with
its input at the start.

The theorems stand in modules of their own: **InductionProofs** (induction over
numbers and finite sets, unfolding of recursive functions), **ConfHubProofs**
(VersionChain, ConfHub) and **TenancyProofs** (ConfHub), **ApiProofs** (ApiServer),
**WatchProofs** (WatchHub), **BackupProofs** (Persist, AuditLog and Backup),
**LineDiffProofs** (LineDiff), **AlgorithmProofs** (gray rules, Keyring, Names,
SnapshotCodec, and what MCAlgorithms compares).

## 3. The runs

| run | expects | what it shows |
|---|---|---|
| watch_safety | pass | order, newest kept, closing, freshness, silence after cancel |
| watch_live | pass | publishers finish, polls return, Close reaches all, timeouts are sound |
| watch_closed_send | violation | a send can meet a closed channel (finding 1) |
| watch_lost_wakeup | violation | a poll can sleep through an event (finding 2) |
| hub_chains | pass | chains, pointers, history, newest events, signatures, saved copy |
| hub_tenancy | pass | exact counters, limits, nothing orphaned, every change announced |
| hub_snapshot | pass | chains stay valid and owners agree after any import; counters are not too low as long as those of the snapshots are not |
| hub_stale_usage | violation | a counter outlives its namespace through an import (finding 3) |
| gray_zero | violation | percent 0 alone is a full rollout (finding 4) |
| server_api | pass | repeated PUTs are stored once, no update is lost, answers stay true, listings are complete, panics leave the counters exact |
| backup | pass | the file is whole whatever fails and whoever writes at the same time, the ring is the newest records through files, imports and restarts, and queries find them |
| algorithms | pass | gray rules, diff, names, codec and keyring against their references |

Bounds, and why they are enough to be of use:

- *watch*: one watcher and one poll; no subscription's state refers to another's,
  they meet only in the list of a publication, and two make a list with a rest
  to skip. WatchProofs covers any number of both, and any capacity. `BufCap = 1` makes every second event meet a full channel. Three events are one
  in the channel, one that overtakes it, and one more while the reader reads;
  three kinds over two keys give every way a revision can go back.
- *hub_chains*: one key, since entries are independent; `MaxRev = 4` gives every
  mix of gray and full versions before, at and after a rollback target, and a
  publication after it. Rules: none, half of the clients, one client by name, and
  one that is refused. Signatures: none, the name of an algorithm alone, of an unknown algorithm or
  key, bad, good for no revision and for 1 and 2;
  with `PutBinds` a signature can be replayed at every later revision.
- *hub_tenancy*: two namespaces (one cannot be charged for the other), two keys
  with a limit of one or two, bytes that reach the limit exactly, a caller that
  is checked and one that is not.
- *hub_snapshot*: one namespace with two keys and two possible owners; snapshots
  mix present and past states of it with twelve from elsewhere (`SomeForeign`): of another owner with
  every set of keys and exact counters, of nobody, or with entries but no namespace, and counters
  that are too high, and with chains that have a gap or a head outside. Each comes in all three forms.
  Grants are left to hub_tenancy. The other runs of ConfHub have no foreign snapshots.
- *server_api*: one publisher with a payload nobody else has, against other
  clients that do everything the API allows, so it meets every competitor; it
  sends twice (`MaxSends = 2`), of which both, one or none arrive, in either
  order; two keys make a listing with something to miss; three revisions let its
  own version lie below, between and above others.
- *backup*: `Cap = 2` and five numbers wrap the ring more than once; three foreign logs (empty,
  shorter, longer than the ring), snapshots without a list of records, and every trail of the log's own.
  Queries ask for every set of records with every limit, and with none. Two writers, but both under way only
  while log and file have no record beyond the second (`StaysFew`): whatever a third could do to the file one of the two has
  done, and a snapshot is then one of several contents, which is all that AtomicFile tells apart.
  `Settled` bounds the contents a power loss can bring back to those there were when a save began. BackupProofs
  has no such bounds.
- *algorithms*: percentages 0, 1, 50, 99, 100 and one outside on each side;
  identifiers with and without blanks, with buckets 0, 50 and 98. Texts of up to five lines
  over two words (`MaxDiffLines = 4`, so the limit is met) and every text of three
  characters with both line ends and a binary byte. Every key of up to six
  characters over the classes that make segments, every shorter name over all
  classes, and one more than the longest allowed. Snapshots with every section
  empty and filled, cut after every piece and inside every piece. A ring with two
  keys out of two secrets and two pairs, halves mixed or missing, over two namespaces and the one for all,
  and one signature in view.

`MaxRev`, `MaxEvents`, `MaxSeq`, `MaxSends`, `MaxRing` and `MaxIssued` are the only
limits on counters; they stand in guards (`StaysFew` is a constraint of its run). Symmetry over namespaces, keys
and writers is used where no constant names one. The VIEWs of hub_tenancy, hub_snapshot and
server_api leave out the variable `out` (and in server_api the newest events), which no
action and no property of these runs reads: states that differ in it only have the same
successors. Deadlock is checked in every run: `SnapshotClosed`, refusals and `Finished`
are the steps a closed or finished system has.

Fairness (`WatchHub!Fairness`, used by watch_live only) is weak and covers what
the Go scheduler and the code guarantee: a goroutine that holds the lock runs
on, because none of its steps can block; a poll's timer fires, so its select
has a branch to take; deferred cancels run, and a cancel that took a
subscription out closes it. No fairness is assumed of watchers: they may stop
reading for ever, and publications finish all the same. In watch_live every
event is a publication, since `TimeoutSound` speaks of keys whose revisions grow.

## 4. Findings

1. `watch_closed_send`: `send` tests the flag and sends later; a cancel in
   between closes the channel and the send panics under `Hub.mu`
   (`watch/sub.go:28`, against the comment at `watch/hub.go:9`). Subscribers later
   in the list miss the event, and the caller never reaches its save. In
   DeleteNS the remaining keys are not announced and nothing is audited; the
   counters and the registry are exact all the same (`PanicsLeaveNoTrace`).
2. `watch_lost_wakeup`: `Wait` checks and subscribes in two critical sections
   (`watch/hub.go:84`, against the comment at `watch/hub.go:82`). The check after the
   timer keeps it from losing the event (`TimeoutSound` holds), so it is late by up
   to its whole timeout.
3. `hub_stale_usage`: `recalcQuotaLocked` (`snap.go:53`) clears counters of the
   namespaces that are there after the import only. One that the snapshot does not name and
   that is created again starts with the old counter, and is refused with
   "namespace key quota exceeded" while it is empty.
4. `gray_zero`: percent 0 without allow list and tags, or with an allow list of
   blanks, is a hit for everybody (`gray/eval.go:12`), where the comment above it
   says it is a miss.

Met while modelling, with no text of the repository that says otherwise:

- An import is not a publication. ImportSnapshot verifies no signature (`snap.go:37`), so a hub with
  WithRequireSign stores the unsigned versions of another; the flag of confhubd that asks for signatures
  (`cmd/confhubd/main.go:19`) speaks of writes, and no text says whether an import is one. It accepts any stable pointer
  inside the chain (`store/entry.go:128`), and any counters: with entries and `"usage":{}` a
  namespace is charged nothing for what it holds, and may grow past its quota from there (`snap.go:41`). Hence
  the antecedent `CoveringSnapshots` of `QuotaNeverUnder` and the hypotheses in section 5.
- A bound revision is compared with the number of versions, not with a life of
  the key: after a deletion the numbers begin again, so a repeated PUT may store its
  payload in the key's next life. `RetryOnce` holds because the first copy went
  with the deletion; `NoLostUpdate` is stated for keys that were not deleted.
- The value to bind is one more than the length of the history. One more than
  the head (which is what a read of the key shows) is refused for ever after a rollback.
- A late copy of a PUT may be stored after an earlier copy was answered with 404.
- Decode ignores what follows a complete body. A change of line ends only is not
  `Equal`, and its `Unified` form is empty (`DiffExplains` says: empty means the same lines).
- A signature in hex is valid base64, so handlePutKey never takes it for hex;
  handleImport imports what it has when reading the body fails.
- With WithHMACSecret before WithDefaultKeyID the secret stays under the old
  default identifier; SetDefaultID writes it without the lock.
- confhubd sets no persist path, the hub never loads the file it saves, and
  registry and grants are not in it: the first save after a restart replaces it.
- A rollback to the head that is already there moves the stable pointer as any other does.

## 5. What is proved

For every number of namespaces, keys, actors, versions, watchers, polls, writers and every input, not just
the instances above (`Len`, `Cardinality` and arithmetic unbounded):

| theorem | says | under |
|---|---|---|
| `StoreStaysSound` | the inductive invariant of store, file and snapshot | |
| `ChainsStayValid` | `ChainsValid` | |
| `PointersStay` | the stable pointers of store and snapshot | `PointedSnapshots` |
| `StablePointerStays`, `MissesReadStable` | `StablePointer`, `MissReadsFull` | the same |
| `VersionsImmutable` | `HistoryImmutable`, an action property | |
| `SignaturesStay` | `SignedOnly` | `SignedSnapshots` |
| `DiskStaysCurrent` | `DiskCurrent` | `SaveOutcomes = {TRUE}` |
| `LastStaysTrue` | `LastTracksStore` | `Forms = {}` |
| `SourceImplemented` | `ImplementsSource`: ConfHub implements EventSource | `Forms = {}` |
| `OwnersAgree` | `OwnersMatch` | |
| `StateHasItsTypes` | `StateOK`, the stored part of `TypeOK` | |
| `TypesHold` | `TypeOK` of ConfHub | finitely many keys |
| `QuotaStaysExact` | `QuotaExact`: keys and bytes | finitely many keys, `ExactSnapshots`, `Forms` at most `"blob"` |
| `NeverUndercharged` | `QuotaNeverUnder`, which has `CoveringSnapshots` as its antecedent | finitely many keys |
| `QuotasHold` | `WithinQuota` | finitely many keys, `FittingSnapshots` |
| `NothingStaysBehind` | `NothingOrphaned` | finitely many keys, `CleanSnapshots`, `Forms` at most `"blob"` |
| `RetryStoresOnce`, `NobodyOverwrites`, `AnswersStayTrue` | `RetryOnce`, `NoLostUpdate`, `AnswersTrue` of ApiServer | |
| `PanicsStayTraceless`, `ListingsAreComplete` | `PanicsLeaveNoTrace`, `ListingComplete` | finitely many keys |
| `TypeCorrect` | `TypeOK` of WatchHub | |
| `ClosedAfterRemoval`, `NothingAfterReturn` | `ClosedIsRemoved`, `SilentAfterCancel` | |
| `EventsInOrder`, `NewestNeverLost` | `InOrder`, `NewestKept` | |
| `PollsReturnFresh` | `WaitFresh` | |
| `TimeoutsMissNothing` | `TimeoutSound` | `Kinds = {"publish"}` |
| `OwnKeysRule` | `OwnKeyRules`, an action property of Keyring | |
| `EvalKeepsOrder`, `WideningKeeps` | `EvalOrder`, `WideningKeepsClients` | |
| `NormalizeSettles` | `NormalizeIdempotent`, which no run checks | |
| `KeysAreThoseDescribed` | `KeyAllowed`, for two texts of any length | |
| `EntriesStayApart` | entries with valid names never share a place in the store | |
| `NamesUnderstood` | `KeyGrammar` | |
| `AnyDiffExplains` | `Explains`, for two texts of any length and characters | |
| `DiffsExplain` | `DiffExplains` | |
| `AnySnapshotAllOrNothing` | `AllOrNothing`, for snapshots of any size with any values in their fields | |
| `SnapshotsDecode` | `DecodeAllOrNothing` | |
| `TempFilesGo` | `TempRemoved` | |
| `FileImplemented` | `ImplementsFile`: Persist implements AtomicFile | |
| `SnapshotFileImplemented` | `ImplementsFile` of Backup, hub and writers together | |
| `TrailImplemented` | `ImplementsTrail`: AuditLog, in Backup, implements AuditTrail | |
| `QueriesAreNewestFirst` | `QueryNewestFirst` | |

`PointedSnapshots` to `CleanSnapshots` are conditions on the constant `Foreign` alone, defined beside
the theorems: what a theorem asks of the snapshots that come from elsewhere, because an
import does not. Of the hub's own the proofs show it. With `Foreign = {}` all of them hold.
`PointedSnapshots`: stable pointers name full versions not above the head; `SignedSnapshots`: every version is
signed as this hub demands (both but for snapshots the store refuses); `ExactSnapshots` and
`CoveringSnapshots`: counters are exact, or at least not too low; `FittingSnapshots`: besides that, none is refused half way
and each keeps its own limits; `CleanSnapshots`: besides that, they hold no grants or charges of
namespaces they do not register.

The requests of ApiServer do not import, so its theorems need nothing of the forms of
snapshots.

The assumptions besides these are the named ASSUMEs of the modules: what type
each constant has, and that trimming twice is trimming once. TLC evaluates them
in the runs.

The argument. `ChainsValid` alone is not inductive: a rollback needs to know
that the versions before its target carry their own numbers, and an import needs the same of the snapshot.
`Sound(e)` says that `e` is absent, or `ValidateChain(e)`; `StoreInv` says it of
`store`, `disk` and `blob.store`, and needs nothing of foreign snapshots, as an import refuses the others.
`PointedInv` adds `Pointers(e)` for `store` and `blob.store`, which an import does not look at, and
`SignedInv` the signatures. ConfHubProofs proves, once, that `AppendVersion`
and `RollbackHead` keep `Sound` and `Pointers` (with `LastStableFound`: the CHOOSE over earlier full
versions has a witness, by well-foundedness of the naturals). `StepChanges`
then reduces every action of the hub to one of four changes of the store
(publish, roll back, remove, import) or none, so the invariants and the action
property need four cases, not twelve. `OwnersMatch` is inductive with the types of
the maps (`AccessInv`).

The counters. The bytes of a namespace are a sum over the versions of each key,
and then over its keys. InductionProofs gets what such a sum does when one
summand changes from the library's facts on well-founded sets (`LeastOf`,
`NumberInduction`, `SubsetInduction`), stated over sets, so that no theorem needs
an operator as a parameter; the sum itself is a recursive function, and exists
by `UnfoldExists`. TenancyProofs then says once what each operation does to one
namespace, and four invariants follow from it. `ExactInv`: what is charged is what
is stored, in the hub and in `blob`, since an import brings both. `CoverInv`: nobody is
charged less, which imports of every form keep, because a counter that the
snapshot leaves out is counted again or was too high, and one that it brings covers what it
brings (of `blob` that is an invariant, of `Foreign` the antecedent). `FitsInv`: what is stored
fits the limits, in the hub and in `blob`; it needs `CoverInv`, as the checks
compare with the charge and not with the store. `CleanInv`: a namespace that
is not registered has no entries, grants or charge. The hypotheses are needed: finding 3 is
the counterexample to the first and last for JSON, after a refused import
the registry is new and the store is old, and `"usage":{}` over entries breaks all but the last.

ApiServer reuses these facts for one namespace at a time (`Exact`, `Fits`, `Clean`) and proves them
for DeleteNS under a panic too, which ends with `TracelessInv`. `PublisherInv`
relates what a client knows to the hub: `Knows` says, of every client, that what it read is
a prefix of the history unless the key was deleted since, that its payload is stored at most at
the revision it bound, and what its last answer entitles it to believe; messages
in the net add nothing, since a copy that arrives late meets the same check
under the hub's mutex. `ListingInv` says that a listing under way has in its answer or
still before it every key that was there from its begin on.

`StepIsTold` is the other reading of a step of the hub: each topic is left alone with
its newest event, or published to, rolled back or deleted and told so; both
theorems about announcements follow from it. An import changes chains and tells
nothing, so they need `Forms = {}`.

WatchProofs builds its invariants one on the other. `LifeInv` is the life of a
subscription: whoever takes it out of the map marks it, then closes its channel, and
nobody else does; Close comes last, so a call that returned while a Publish still
has it among its targets has a closed channel, and the send panics instead of
delivering. `FlowInv` says that what a subscriber received, followed by what
its channel holds, increases, passes its filter, and is older than the event
being sent to those who still are to get it. `KeptInv` says that the newest event a
subscriber asked for is in its hands unless Publish has not come to it, and that
Publish has made room when it sends again; that needs a capacity of at least one. `PollInv`
says that `last` points at the newest event of its key and what a poll that is
done returned; only where keys grow does a poll that sees nothing new know
that nothing was told.

`PersistInv` says, besides types, what each temporary file holds at each place
of its writer (whole from the write on, synced from the sync on) and that what the path
names, or may name after a power loss, is whole and synced: the file that a
rename installs is, and nothing else reaches the path. So a power loss never meets a torn
file, and the step that renames is the one step of AtomicFile that takes effect.
In Backup the contents of the file are trails, whole by construction of the type
(`ContentsAssumption`), and every step of the hub is a stutter of the file.

`LogInv` says that the ring, read from its head, holds numbers that go up by one and end
at `seq`, whatever place the head has wrapped to. `PushShows` is the one lemma about
the arithmetic of the ring: what it shows after a push is what it showed,
without its oldest when it was full, and the new record last. An import refills the ring record
by record, and every record goes where Append would put it (`RefillIsPush`),
so it ends with the newest of the snapshot. A query is a loop over the ring; its invariant
(`FoundSoFar`) counts the matches behind it.

Names: `Clean` says that no two cuts of a key enclose an empty segment, "." or "..",
without mentioning how the cuts are found. `ValidIsClean` is the scan of the code
against it, `KeysAreClean` the grammar of the comment, by induction on its length.
`RingOK` says that a signature
that was given out carries the bytes of its request; whether it is accepted depends on the two halves
of the pair alone (`SignedIsAccepted`); that a signature stays good
needs no more than that `Lookup` reads two places. `StoredNormal` says that a
stored rule is what Normalize makes of itself; the theorems about Eval then are
propositional over one client.

The line diff. Its table and its walk are recursive functions of two numbers.
`TableExists` and `BackInduction` say, once, that such a function exists and that what
holds of a cell when it holds of the cells below, beside and across holds of all;
each proof then looks at one cell. `WalkTells`: from any cell on, the changes tell
what is left of both texts, and as many of them are equal as the table says.
`MostIs`: the table has the most lines that what is left has in common, and
`TableIsCommonLength` that this is the longest of all common subsequences. What a
selection of places is (`InOrder`) is unique (`EnumerationIsInOrder`), so a side of the
changes, a subsequence and the lines of `Unified` are read in one way. The walk is
greedy only on equal lines; that this loses nothing is the fifth fact of
`CommonSteps`: without their first pair, m + 1 lines in common leave m.

The codec. `Readable(b, n)` says that n pieces of the body b can be read, and the
next is missing or was cut; `Lies` that the pieces of a value stand at a place of b as far as
it can be read. Then the reader ends with the value behind its last piece, or fails if that
is not within the n (`Result`): one statement for the whole body, n being its length,
and for every early end. `ManyReads` is that of a loop over records, `FieldIsRead`
of a field, `RecordIsRead` of a record, by inductions over the tables of their
recursive functions; the only place where the two orders of fields meet is
`AsWritten`: they are the same. `LeavesRead` to `BlobRead` climb the levels of nesting. A
file that was cut ends in something that is not a checksum (`NotChecksums`). That two
bodies have two checksums is the one ideal: a CRC-32 only makes it likely.

Only model-checked: liveness (`PublishFinishes`, `WaitReturns`, `CloseReachesAll`: the
prover has neither ENABLED nor fairness).

## 6. Not modelled, and why

- Owners and actors that are refused for their spelling: they change nothing.
  Wording of errors and audit details, timestamps, logging.
- JSON as a text: of a snapshot in JSON the model has which maps it leaves out. An import may bring
  any snapshot of the types of the model, so negative counters and limits, grants of roles
  that do not exist, and two entries of one name are not among them. Bytes of numbers in the binary form.
- LoadJSON and the helpers for entries in JSON: the program never calls them.
- Over HTTP: the answer about one namespace, snapshots (ConfHub has the
  operations), the long poll (WatchHub has `Wait`), static files.
- Parsing of client headers, revision strings, the clock, listening, the web page.
- Integer overflow: revisions and sizes are 64-bit and reached one by one.

## 7. Plan

1. Several publishers in one instance of ApiServer (the theorems cover them); a
   composed run of WatchHub with long polls over HTTP.
2. Snapshots over HTTP, whose body may end early.
