---------------------------- MODULE MCAlgorithms ----------------------------
(***************************************************************************)
(* The algorithms of the service that keep no state of their own, and the  *)
(* keyring, for TLC.  A behaviour is about one of them: a rule that is     *)
(* submitted (MCGrayRules), a ring that is filled and used (Keyring), a    *)
(* pair of payloads, a pair of names, or a snapshot that is written and    *)
(* read back.  The last three are chosen at the start and compared with    *)
(* their reference.                                                        *)
(***************************************************************************)
EXTENDS MCGrayRules, Keyring, LineDiff, Names, SnapshotCodec

VARIABLE job  \* what the behaviour is about

allVars == <<vars, ringVars, job>>

SeqsUpTo(S, n) == UNION {[1..k -> S] : k \in 0..n}

(* Texts of up to five lines over two words, and every short sequence of   *)
(* characters: all mixes of line ends, blank lines, missing last ends.     *)
Payloads(lines) ==
  IF lines
  THEN {[i \in 1..(2 * Len(t)) |-> IF i % 2 = 0 THEN NL ELSE t[(i + 1) \div 2]] : t \in SeqsUpTo({"x", "y"}, 4)}
  ELSE SeqsUpTo({"x", NL, CR, Byte0}, 3)

DiffJobs == UNION {[part : {"diff"}, old : Payloads(b), new : Payloads(b)] : b \in BOOLEAN}

NameJobs ==
  [part : {"names"}, ns : {<<"a">>}, key : SeqsUpTo({"a", ".", "_", Slash, "?"}, MaxKeyLen + 1)] \cup
  [part : {"names"}, ns : SeqsUpTo(Chars, MaxNSLen + 1), key : SeqsUpTo(Chars, 2)]

(* Snapshots whose fields all have values of their own.                    *)
Pair(k, v) == [k |-> k, v |-> v]
Named2(n) == [id |-> n, owner |-> n + 1, created_at |-> n + 2, max_keys |-> n + 3, max_bytes |-> n + 4]
Version2(n, g) == [rev |-> n, payload |-> n + 1, sig |-> n + 2, algo |-> n + 3, author |-> n + 4, ts |-> n + 5, gray |-> g]
Entry2(n, vs) == [ns |-> n, key |-> n + 1, head |-> n + 2, stable |-> n + 3, versions |-> vs]
Audit2(n, ok) == [seq |-> n, ts |-> n + 1, ns |-> n + 2, key |-> n + 3, rev |-> n + 4, kind |-> n + 5,
                  actor |-> n + 6, detail |-> n + 7, bytes |-> n + 8, ok |-> ok, err |-> n + 9]

Grays ==
  {Nil} \cup
  [percent : {5}, allow_ids : {<<>>, <<[s |-> 11], [s |-> 12]>>},
   match_tags : {<<>>, <<Pair(13, 14)>>, <<Pair(15, 16), Pair(13, 14)>>}]

CodecJobs ==
  [part : {"codec"},
   magic : {1}, format : {2}, created_at : {3},
   namespaces : {<<>>, <<Named2(20), Named2(30)>>},
   entries : {<<>>, <<Entry2(40, <<>>)>>} \cup {<<Entry2(40, <<Version2(50, g)>>), Entry2(60, <<Version2(70, Nil), Version2(80, g)>>)>> : g \in Grays},
   audit : {<<>>} \cup {<<Audit2(90, ok), Audit2(110, ~ok)>> : ok \in BOOLEAN},
   grants : {<<>>, <<[ns |-> 120, subs |-> <<Pair(121, 122), Pair(123, 124)>>], [ns |-> 125, subs |-> <<>>]>>},
   usage : {<<>>, <<[ns |-> 130, keys |-> 131, bytes |-> 132]>>}]

Blob(j) == [f \in DOMAIN j \ {"part"} |-> j[f]]

NoGray == rule = NilRule /\ stored = NilRule /\ phase = "none"

(* A behaviour about what was chosen at the start changes nothing.         *)
About(jobs) == NoGray /\ RingInit /\ job \in jobs

AllInit ==
  \/ Init /\ RingInit /\ job = [part |-> "gray"]
  \/ About({[part |-> "ring"]} \cup DiffJobs \cup NameJobs \cup CodecJobs)

AllNext ==
  \/ Next /\ UNCHANGED <<ringVars, job>>
  \/ job.part = "ring" /\ RingNext /\ UNCHANGED <<vars, job>>

AllSpec == AllInit /\ [][AllNext]_allVars

-----------------------------------------------------------------------------
(* The line diff of every pair of payloads explains one by the other, with *)
(* as few changes as can be (version.Diff, version.Unified).               *)
DiffExplains == job.part = "diff" => Explains(job.old, job.new, Diff(job.old, job.new))

(* ValidKey accepts the keys its comment describes and no others, and the  *)
(* store never confuses two entries with valid names.                      *)
KeyGrammar == job.part = "names" => KeyAllowed(job.ns, job.key)

(* A snapshot file is read back as it was written, or not at all.          *)
DecodeAllOrNothing == job.part = "codec" => AllOrNothing(Blob(job))
=============================================================================
