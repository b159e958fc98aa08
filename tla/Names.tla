-------------------------------- MODULE Names --------------------------------
(***************************************************************************)
(* Names of namespaces and keys (internal/ns/validate.go) and the string   *)
(* under which the store keeps an entry (nsKey of internal/store).  A name *)
(* is a sequence of characters, and a character stands for its class: a    *)
(* small letter, a capital, a digit, one of the marks the rules name, the  *)
(* byte 0, or anything else.                                               *)
(***************************************************************************)
EXTENDS Naturals, Sequences

CONSTANTS
  MaxNSLen,  \* the longest namespace
  MaxKeyLen  \* the longest key

ASSUME NameLengths == MaxNSLen \in Nat \ {0} /\ MaxKeyLen \in Nat \ {0}

Nul == "nul"
Slash == "/"
Letters == {"a", "A"}
Chars == Letters \cup {"0", ".", "_", Slash, "?", Nul}

Texts(n) == UNION {[1..k -> Chars] : k \in 0..n}

(* ValidNSID: a small letter, then small letters, digits and the marks _ - *)
(* (one class here).                                                       *)
ValidNSID(id) ==
  /\ id # <<>>
  /\ Len(id) <= MaxNSLen
  /\ id[1] = "a"
  /\ \A i \in 2..Len(id) : id[i] \in {"a", "0", "_"}

(* mutant: the loop stops at the last character, so that the last segment  *)
(* is never looked at                                                      *)
EndsAtSlash(key) == {i \in 1..Len(key) : key[i] = Slash}

(* Where ValidKey's loop cuts: at every slash, and one past the end.       *)
Ends(key) == {i \in 1..Len(key) : key[i] = Slash} \cup {Len(key) + 1}

(* The segment that ends before i: segStart is one past the cut before.    *)
SegmentAt(key, i) ==
  LET start == CHOOSE s \in {0} \cup Ends(key) :
                 s < i /\ \A c \in Ends(key) : c < i => c <= s
  IN  SubSeq(key, start + 1, i - 1)

Alnum == Letters \cup {"0"}

ValidKey(key) ==
  /\ key # <<>>
  /\ Len(key) <= MaxKeyLen
  /\ Slash \notin {key[1], key[Len(key)]}
  /\ \A i \in 1..Len(key) : key[i] \in Alnum \cup {".", "_", Slash}
  /\ \A i \in Ends(key) :
       SegmentAt(key, i) \notin {<<>>, <<".">>, <<".", ".">>}
  /\ key[1] \in Alnum

(* nsKey: both names, with the byte 0 between them.                        *)
NsKey(ns, key) == ns \o <<Nul>> \o key

-----------------------------------------------------------------------------
(* The keys of the comment on ValidKey, made up from their parts: segments *)
(* of the allowed characters, none of them empty, "." or "..", joined by   *)
(* slashes, the whole beginning with a letter or a digit.                  *)
Segments(n) ==
  (UNION {[1..k -> Alnum \cup {".", "_"}] : k \in 1..n}) \ {<<".">>, <<".", ".">>}

(* One segment, or one and a slash before one of the others.               *)
Joins(others) ==
  Segments(MaxKeyLen) \cup
  {sp[1] \o <<Slash>> \o sp[2] : sp \in Segments(MaxKeyLen - 2) \X {q \in others : Len(q) <= MaxKeyLen - 2}}

Keys ==
  LET joined[d \in 0..MaxKeyLen] == IF d = 0 THEN {} ELSE Joins(joined[d - 1])
  IN  {k \in joined[MaxKeyLen] : Len(k) <= MaxKeyLen /\ k[1] \in Alnum}

(* A key is accepted if and only if it is one of those the comment on      *)
(* ValidKey describes, and what the store keeps for an accepted namespace  *)
(* and key can be taken apart in one way only: two entries never share a   *)
(* place in the map.                                                       *)
KeyAllowed(ns, key) ==
  /\ ValidKey(key) <=> key \in Keys
  /\ (ValidNSID(ns) /\ ValidKey(key)) =>
       {i \in 1..Len(NsKey(ns, key)) : NsKey(ns, key)[i] = Nul} = {Len(ns) + 1}
=============================================================================
