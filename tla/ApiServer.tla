----------------------------- MODULE ApiServer -----------------------------
(***************************************************************************)
(* The HTTP layer (internal/api) and its clients: requests that call the   *)
(* hub several times while other requests change it, requests and answers  *)
(* that are lost or late, clients that send again, a hub that panics under *)
(* a request (net/http catches it), and a confhubd that is restarted, with *)
(* nothing but an empty hub, since main gives it no persist path.          *)
(*                                                                         *)
(* The publishers follow the protocol the API offers them: read the        *)
(* history of a key, bind the revision after its last one, PUT, and PUT    *)
(* the same again when no answer came.                                     *)
(***************************************************************************)
EXTENDS ConfHub

CONSTANTS
  Publishers,  \* the clients that read the history and then PUT, each once
  Payload,     \* publisher -> the size of what it puts; nobody else puts one
  Target,      \* the key they put it under
  Listings,    \* requests for the keys of Target's namespace
  MaxSends     \* bound: how often a PUT is sent

ASSUME PublishersAssumption ==
  /\ Target \in Topics
  /\ Payload \in [Publishers -> Nat \ ({0} \cup PutSizes)]
  /\ IsInjective(Payload)

VARIABLES
  client,   \* publisher -> its state
  net,      \* the PUTs of publishers that may still be handled
  listing   \* listing -> the state of its handler

apiVars == <<vars, client, net, listing>>

Home == Target[1]

(* version.History: the versions of a chain, each told by its size.        *)
History(e) == [i \in 1..Len(e.versions) |-> e.versions[i].size]

(* `current` until the key is deleted, or lost by a restart.               *)
NewClient == [pc |-> "idle", read |-> <<>>, current |-> FALSE, sends |-> 0, status |-> 0, rev |-> 0]

(* `alive`: the keys that were there all the time since it began.          *)
NewListing == [pc |-> "idle", todo |-> {}, items |-> {}, alive |-> {}]

ApiInit ==
  /\ Init
  /\ client = [c \in Publishers |-> NewClient]
  /\ net = {}
  /\ listing = [l \in Listings |-> NewListing]

(* writeErr, and the 200 of writeJSON.                                     *)
StatusOf(err) ==
  CASE err = "none" -> 200
    [] err \in {"ErrNotFound", "ErrNoEntry"} -> 404
    [] err = "ErrForbidden" -> 403
    [] err \in {"ErrSignRequired", "ErrSignFailed"} -> 401
    [] err \in {"ErrAlreadyExists", "ErrConflict"} -> 409
    [] err \in {"ErrQuotaKeys", "ErrQuotaBytes"} -> 413
    [] OTHER -> 400

-----------------------------------------------------------------------------
(* What a change of the hub means for those who looked at it before.       *)

Aged(clients) ==
  [c \in Publishers |->
     [clients[c] EXCEPT !.current = @ /\ (Exists(store[Target]) => Exists(store'[Target]))]]

ListingsAge ==
  listing' = [l \in Listings |->
                [listing[l] EXCEPT !.alive = {k \in @ : Exists(store'[<<Home, k>>])}]]

-----------------------------------------------------------------------------
(* Publishers.                                                             *)

(* handleHistory; a key that is not there has no versions.                 *)
ReadHistory(c) ==
  /\ client[c].pc = "idle"
  /\ client' = [client EXCEPT ![c] =
       [NewClient EXCEPT !.pc = "ready", !.read = History(store[Target]), !.current = TRUE]]
  /\ UNCHANGED <<vars, net, listing>>

(* A PUT is sent, for the first time or again: no answer came, because the *)
(* request or its answer was lost or is late.                              *)
Send(c) ==
  /\ client[c].pc \in {"ready", "sent"}
  /\ client[c].sends < MaxSends
  /\ client' = [client EXCEPT ![c].pc = "sent", ![c].sends = @ + 1]
  /\ net' = net \cup {[from |-> c, nth |-> client[c].sends + 1]}
  /\ UNCHANGED <<vars, listing>>

(* It binds the revision after the last one its client has seen.           *)
Body(c) == [actor |-> NoActor, size |-> Payload[c], rule |-> NilRule, sig |-> Unsigned,
            bind |-> Len(client[c].read) + 1]

(* The answer comes on the connection of its request, and the client only  *)
(* listens to the one it opened last; else it is lost.                     *)
Answer(m, status, rev) ==
  \/ client' = Aged(client)
  \/ /\ client[m.from].pc = "sent" /\ client[m.from].sends = m.nth
     /\ client' = Aged([client EXCEPT ![m.from].pc = "answered",
                                      ![m.from].status = status, ![m.from].rev = rev])

(* handlePutKey *)
HandlePut(m) ==
  /\ m \in net
  /\ net' = net \ {m}
  /\ Put(Target, Body(m.from))
  /\ Answer(m, StatusOf(out'.err), IF out'.err = "none" THEN store'[Target].head ELSE 0)
  /\ ListingsAge

-----------------------------------------------------------------------------
(* handleListKeys: the keys, and then each entry by a call of its own.     *)

ListBegin(l) ==
  /\ listing[l].pc = "idle"
  /\ Registered(Home)
  /\ LET keys == Entries(store, Home) IN
       listing' = [listing EXCEPT ![l] =
                     [pc |-> "reading", todo |-> keys, items |-> {}, alive |-> keys]]
  /\ UNCHANGED <<vars, client, net>>

(* GetEntry, which asks for the namespace too.                             *)
Found(k) == Registered(Home) /\ Exists(store[<<Home, k>>])

Item(k) == [key |-> k, head |-> store[<<Home, k>>].head, stable |-> store[<<Home, k>>].stable]

(* mutant: a key that went meanwhile ends the answer *)
ListItemOrStop(l, k) ==
  /\ listing[l].pc = "reading" /\ k \in listing[l].todo
  /\ listing' = [listing EXCEPT
       ![l].todo  = IF Found(k) THEN @ \ {k} ELSE {},
       ![l].items = IF Found(k) THEN @ \cup {Item(k)} ELSE @]
  /\ UNCHANGED <<vars, client, net>>

(* The next key; one that went meanwhile is left out.                      *)
ListItem(l, k) ==
  /\ listing[l].pc = "reading" /\ k \in listing[l].todo
  /\ listing' = [listing EXCEPT
       ![l].todo  = @ \ {k},
       ![l].items = IF Found(k) THEN @ \cup {Item(k)} ELSE @]
  /\ UNCHANGED <<vars, client, net>>

ListEnd(l) ==
  /\ listing[l].pc = "reading" /\ listing[l].todo = {}
  /\ listing' = [listing EXCEPT ![l].pc = "answered"]
  /\ UNCHANGED <<vars, client, net>>

-----------------------------------------------------------------------------
(* What else happens to the hub.                                           *)

(* mutant: the usage is given back after the events were published *)
DeleteNSAbortedEarly(n) ==
  /\ DeleteNSError(n, NoActor) = "none"
  /\ Entries(store, n) # {}
  /\ store' = [t \in Topics |-> IF t[1] = n THEN Absent ELSE store[t]]
  /\ Unregister(n)
  /\ \E told \in SUBSET Entries(store, n) \ {{}} :
       LET events == {[topic |-> <<n, k>>, kind |-> "delete", rev |-> store[<<n, k>>].head] :
                        k \in told}
       IN  /\ Announce(events)
           /\ out' = [op |-> "deleteNS", err |-> "panic", audit |-> "none", events |-> events]
  /\ UNCHANGED <<closed, usage, disk, blob>>

(* DeleteNS, when a Publish panics (WatchHub, SendTry): the events after   *)
(* it are not published, nothing is audited or saved, and net/http drops   *)
(* the connection.  In the other operations, a panic under confhubd is a   *)
(* lost answer: only the save, which it does not make, comes after it.     *)
DeleteNSAborted(n) ==
  /\ DeleteNSError(n, NoActor) = "none"
  /\ Entries(store, n) # {}
  /\ store' = [t \in Topics |-> IF t[1] = n THEN Absent ELSE store[t]]
  /\ Unregister(n)
  /\ usage' = [usage EXCEPT ![n] = NoUsage]
  /\ \E told \in SUBSET Entries(store, n) \ {{}} :
       LET events == {[topic |-> <<n, k>>, kind |-> "delete", rev |-> store[<<n, k>>].head] :
                        k \in told}
       IN  /\ Announce(events)
           /\ out' = [op |-> "deleteNS", err |-> "panic", audit |-> "none", events |-> events]
  /\ UNCHANGED <<closed, disk, blob>>

(* Requests that nobody here follows up; the HTTP API has no Grant.        *)
OtherRequest ==
  \/ \E n \in Namespaces :
       \/ \E owner \in Owners, l \in Limits : CreateNS(n, owner, l)
       \/ DeleteNS(n, NoActor)
       \/ DeleteNSAborted(n)
  \/ \E t \in Topics :
       \/ \E p \in PutInputs : Put(t, p)
       \/ DeleteKey(t, NoActor)
       \/ \E rev \in 0..MaxRev : Rollback(t, rev, NoActor)

Other == OtherRequest /\ client' = Aged(client) /\ ListingsAge /\ UNCHANGED net

(* confhubd ends and is started again: main makes a hub without a persist  *)
(* path, which would not be read if there was one.  Requests under way are *)
(* dropped with their connections.                                         *)
Restart ==
  /\ closed' = FALSE
  /\ reg' = EmptyBlob.reg
  /\ owners' = [n \in Namespaces |-> NoActor]
  /\ grants' = EmptyBlob.grants
  /\ store' = EmptyBlob.store
  /\ usage' = EmptyBlob.usage
  /\ last' = [t \in Topics |-> NoEvent]
  /\ out' = [op |-> "new", err |-> "none", audit |-> "none", events |-> {}]
  /\ client' = Aged(client)
  /\ net' = {}
  /\ listing' = [l \in Listings |-> NewListing]
  /\ UNCHANGED <<disk, blob>>

ApiNext ==
  \/ \E c \in Publishers : ReadHistory(c) \/ Send(c)
  \/ \E m \in net : HandlePut(m)
  \/ \E l \in Listings : ListBegin(l) \/ ListEnd(l) \/ \E k \in Keys : ListItem(l, k)
  \/ Other
  \/ Restart

ApiSpec == ApiInit /\ [][ApiNext]_apiVars

-----------------------------------------------------------------------------
(* Properties.                                                             *)

(* Where a publisher's payload is in the chain of the key.                 *)
Stored(c) == {i \in 1..Len(store[Target].versions) : History(store[Target])[i] = Payload[c]}

(* A PUT that binds a revision can be sent again and again: the key never  *)
(* holds its payload twice, whatever is rolled back in between.            *)
RetryOnce == \A c \in Publishers : Cardinality(Stored(c)) <= 1

(* Nobody overwrites what he has not seen: the versions below the one a    *)
(* publisher stored are those it had read, unless the key was deleted in   *)
(* the meantime (and begins at revision 1 again).                          *)
NoLostUpdate ==
  \A c \in Publishers : client[c].current =>
    \A i \in Stored(c) : SubSeq(History(store[Target]), 1, i - 1) = client[c].read

(* What a publisher was told stays true while the key lives: the revision  *)
(* in a 200 is its own, and after a 409 there is a version that it had not *)
(* read, somebody else's or the one of its first try.                      *)
AnswersTrue ==
  \A c \in Publishers : (client[c].pc = "answered" /\ client[c].current) =>
    /\ client[c].status = 200 => client[c].rev \in Stored(c)
    /\ client[c].status = 409 => Len(store[Target].versions) > Len(client[c].read)

(* A listing leaves out no key that was there from the request to the      *)
(* answer, however many others went while it was put together.             *)
ListingComplete ==
  \A l \in Listings : listing[l].pc = "answered" =>
    listing[l].alive \subseteq {i.key : i \in listing[l].items}

(* A request that dies of a panic leaves the counters and the namespaces   *)
(* as exact as one that is answered.                                       *)
PanicsLeaveNoTrace == QuotaExact /\ NothingOrphaned
=============================================================================
