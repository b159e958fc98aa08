------------------------------- MODULE Keyring -------------------------------
(***************************************************************************)
(* The keyring (internal/sign): HMAC secrets and Ed25519 pairs by          *)
(* namespace and key identifier, with a ring for all namespaces behind     *)
(* them; signing and verification of a publication.  Keys are added,       *)
(* replaced and given out as signatures while publications are verified.   *)
(* A signature is what it was made with and what it was made for.          *)
(***************************************************************************)
EXTENDS Naturals, FiniteSets

CONSTANTS
  Spaces,    \* the namespaces
  Global,    \* the empty namespace, under which the keys for all are kept
  KeyIDs,    \* key identifiers
  NoID,      \* the empty identifier
  FirstID,   \* the identifier NewKeyring starts with, "default"
  Secrets,   \* HMAC secrets
  Pairs,     \* Ed25519 key pairs
  NoKey,     \* no key, no signature
  Items,     \* what is signed: keys, each with a payload
  MaxRing,   \* bound: keys in both rings
  MaxIssued  \* bound: signatures that are kept in view

ASSUME KeyringNames ==
  /\ Global \notin Spaces
  /\ NoID \notin KeyIDs
  /\ FirstID \in KeyIDs
  /\ NoKey \notin Secrets \cup Pairs
  /\ Secrets \cap Pairs = {}
  /\ MaxRing \in Nat
  /\ MaxIssued \in Nat

VARIABLES
  hmac,    \* Keyring.hmac: namespace and identifier -> secret
  ed,      \* Keyring.ed: namespace and identifier -> public and private half
  deflt,   \* Keyring.deflt
  issued   \* the signatures SignPayload gave out, with its arguments

ringVars == <<hmac, ed, deflt, issued>>

Places == (Spaces \cup {Global}) \X KeyIDs
EdKey == [pub : Pairs, priv : Pairs \cup {NoKey}]
Empty == [at \in Places |-> NoKey]

HMAC == "hmac-sha256"
Ed25519 == "ed25519"
Algos == {"", HMAC, "hmac", "sha256", Ed25519, "ed", "rsa"}

(* NormalizeAlgo, which leaves names it does not know as they are.         *)
NormalizeAlgo(algo) ==
  IF algo \in {HMAC, "hmac", "sha256"} THEN HMAC
  ELSE IF algo \in {Ed25519, "ed"} THEN Ed25519 ELSE algo

(* Both switches: HMAC is what no algorithm at all means.                  *)
Scheme(algo) == IF NormalizeAlgo(algo) = "" THEN HMAC ELSE NormalizeAlgo(algo)

(* Canonical: the bytes that are signed.  Every field has its line, and no *)
(* valid name holds a line end; revision 0 and below have no line.         *)
Canonical(ns, key, rev) == [ns |-> ns, key |-> key, rev |-> IF rev > 0 THEN rev ELSE 0]

(* The empty identifier is the default one, when keys are put and looked up.*)
Named(id, default) == IF id = NoID THEN default ELSE id

(* mutant: the ring for all namespaces is asked first                      *)
LookupGlobalFirst(ring, ns, id, default) ==
  LET own == ring[<<ns, Named(id, default)>>]
      all == ring[<<Global, Named(id, default)>>]
  IN  IF all # NoKey THEN all ELSE own

(* lookupHMAC, lookupEd: the key of the namespace, or the one for all.     *)
Lookup(ring, ns, id, default) ==
  LET own == ring[<<ns, Named(id, default)>>]
      all == ring[<<Global, Named(id, default)>>]
  IN  IF own # NoKey THEN own ELSE all

(* Keyring.Sign: the signature it returns, NoKey for an error.  r is a     *)
(* request: namespace, key with its payload, identifier, algorithm and     *)
(* revision.                                                               *)
Signature(r) ==
  LET secret == Lookup(hmac, r.ns, r.id, deflt)
      pair == Lookup(ed, r.ns, r.id, deflt)
      msg == Canonical(r.ns, r.key, r.rev)
  IN  CASE Scheme(r.algo) = HMAC /\ secret # NoKey -> [by |-> secret, msg |-> msg]
        [] Scheme(r.algo) = Ed25519 /\ pair # NoKey /\ pair.priv # NoKey -> [by |-> pair.priv, msg |-> msg]
        [] OTHER -> NoKey

(* Keyring.Verify, TRUE when it returns no error.                          *)
Verify(r, sig) ==
  LET secret == Lookup(hmac, r.ns, r.id, deflt)
      pair == Lookup(ed, r.ns, r.id, deflt)
  IN  /\ sig # NoKey
      /\ sig.msg = Canonical(r.ns, r.key, r.rev)
      /\ \/ Scheme(r.algo) = HMAC /\ secret # NoKey /\ sig.by = secret
         \/ Scheme(r.algo) = Ed25519 /\ pair # NoKey /\ sig.by = pair.pub

Request == [ns : Spaces, key : Items, id : KeyIDs \cup {NoID}, algo : Algos, rev : 0..1]

RingInit ==
  /\ hmac = Empty
  /\ ed = Empty
  /\ deflt = FirstID
  /\ issued = {}

(* PutHMAC; WithHMACSecret is the call with the global ring and the        *)
(* default identifier.                                                     *)
PutHMAC(ns, id, secret) ==
  /\ hmac' = [hmac EXCEPT ![<<ns, Named(id, deflt)>>] = secret]
  /\ UNCHANGED <<ed, deflt, issued>>

(* PutEd; WithEd25519.  Only the public half is looked at: the private one *)
(* may be missing, which one of another length amounts to, or belong to    *)
(* another pair.                                                           *)
PutEd(ns, id, pair, priv) ==
  /\ ed' = [ed EXCEPT ![<<ns, Named(id, deflt)>>] = [pub |-> pair, priv |-> priv]]
  /\ UNCHANGED <<hmac, deflt, issued>>

(* SetDefaultID, which does nothing for the empty identifier.              *)
SetDefaultID(id) ==
  /\ deflt' = IF id # NoID THEN id ELSE deflt
  /\ UNCHANGED <<hmac, ed, issued>>

(* SignPayload, when it succeeds: the caller has a signature.              *)
Issue(r) ==
  /\ Signature(r) # NoKey
  /\ Cardinality(issued) < MaxIssued
  /\ issued' = issued \cup {[for |-> r, sig |-> Signature(r)]}
  /\ UNCHANGED <<hmac, ed, deflt>>

(* Bound: a key replaces the one in its place, or there are fewer than     *)
(* MaxRing.                                                                *)
HasRoom(ring, at) ==
  LET used(r) == {p \in Places : r[p] # NoKey}
  IN  ring[at] # NoKey \/ Cardinality(used(hmac)) + Cardinality(used(ed)) < MaxRing

RingNext ==
  \/ \E ns \in Spaces \cup {Global}, id \in KeyIDs \cup {NoID}, secret \in Secrets :
       HasRoom(hmac, <<ns, Named(id, deflt)>>) /\ PutHMAC(ns, id, secret)
  \/ \E ns \in Spaces \cup {Global}, id \in KeyIDs \cup {NoID}, pair \in Pairs :
       HasRoom(ed, <<ns, Named(id, deflt)>>) /\ \E priv \in Pairs \cup {NoKey} : PutEd(ns, id, pair, priv)
  \/ \E id \in KeyIDs \cup {NoID} : SetDefaultID(id)
  \/ \E r \in Request : Issue(r)

RingSpec == RingInit /\ [][RingNext]_ringVars

-----------------------------------------------------------------------------
(* Whether a step changes the key r is looked up under: the namespace's    *)
(* own, or the one for all while the namespace has none.                   *)
Moved(r, id, ring, ring2) ==
  \/ ring2[<<r.ns, id>>] # ring[<<r.ns, id>>]
  \/ ring[<<r.ns, id>>] = NoKey /\ ring2[<<Global, id>>] # ring[<<Global, id>>]

KeyChanges(r) ==
  \/ Moved(r, Named(r.id, deflt), hmac, hmac')
  \/ Moved(r, Named(r.id, deflt), ed, ed')
  \/ r.id = NoID /\ deflt' # deflt

(* The key r is signed with is the one it is verified with: a secret, or   *)
(* the two halves of one pair.                                             *)
Paired(r) ==
  Scheme(r.algo) = Ed25519 =>
    LET pair == Lookup(ed, r.ns, r.id, deflt) IN pair.priv = pair.pub

(* A signature that was given out is accepted, unless it was made with the *)
(* private half of another pair, for what it was made for and for nothing  *)
(* else, until the key it was looked up under changes: keys of other       *)
(* namespaces do not matter, and a key for all does not reach a namespace  *)
(* that has its own.                                                       *)
OwnKeyRules ==
  [][/\ \A s \in issued' \ issued : Verify(s.for, s.sig)' <=> Paired(s.for)
     /\ \A s \in issued : Verify(s.for, s.sig)' # Verify(s.for, s.sig) => KeyChanges(s.for)
     /\ \A s \in issued', r \in Request :
          (r.ns # s.for.ns \/ r.key # s.for.key \/ r.rev # s.for.rev) => ~Verify(r, s.sig)'
    ]_ringVars
=============================================================================
