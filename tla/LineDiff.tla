------------------------------- MODULE LineDiff -------------------------------
(***************************************************************************)
(* The comparison of two versions of a key (internal/version/diff.go): the *)
(* payloads are cut into lines, a longest common subsequence of the lines  *)
(* is computed, and a walk along it yields the changes.  A payload is a    *)
(* sequence of characters: letters, the two line ends, and one byte that   *)
(* no text has.                                                            *)
(***************************************************************************)
EXTENDS Naturals, Sequences, FiniteSets

CONSTANT MaxDiffLines  \* the most lines of a payload that are compared

ASSUME DiffLimit == MaxDiffLines \in Nat

NL == "nl"
CR == "cr"
Byte0 == "bin"   \* a byte 0, or bytes that are not UTF-8

LooksBinary(p) == \E i \in 1..Len(p) : p[i] = Byte0

(* The members of I among the numbers 1 to n, in order; what stands at the *)
(* places I of s.                                                          *)
InOrder(I, n) ==
  LET upTo[m \in 0..n] ==
        IF m = 0 THEN <<>> ELSE IF m \in I THEN Append(upTo[m - 1], m) ELSE upTo[m - 1]
  IN  upTo[n]

Pick(s, I) == LET at == InOrder(I, Len(s)) IN [n \in 1..Len(at) |-> s[at[n]]]

(* splitLines: CR NL and a lone CR become NL, then the text is cut at each *)
(* NL.  The empty payload has no line, any other one more than it has NL.  *)
Unix(p) ==
  LET kept == Pick(p, {i \in 1..Len(p) : ~(p[i] = NL /\ i > 1 /\ p[i - 1] = CR)})
  IN  [n \in 1..Len(kept) |-> IF kept[n] = CR THEN NL ELSE kept[n]]

SplitLines(p) ==
  LET s == Unix(p)
      cuts == <<0>> \o InOrder({i \in 1..Len(s) : s[i] = NL}, Len(s)) \o <<Len(s) + 1>>
  IN  IF p = <<>> THEN <<>>
      ELSE [n \in 1..(Len(cuts) - 1) |-> SubSeq(s, cuts[n] + 1, cuts[n + 1] - 1)]

(* The places of the table: a line of each, or one past its last.          *)
Grid(a, b) == (1..(Len(a) + 1)) \X (1..(Len(b) + 1))

(* The table of lcsChanges: dp[<<i, j>>] is the length of the longest      *)
(* common subsequence of what follows line i of a and line j of b (both    *)
(* included).                                                              *)
Lcs(a, b) ==
  LET dp[at \in Grid(a, b)] ==
        LET i == at[1]
            j == at[2]
        IN  IF i > Len(a) \/ j > Len(b) THEN 0
            ELSE IF a[i] = b[j] THEN dp[<<i + 1, j + 1>>] + 1
            ELSE IF dp[<<i + 1, j>>] >= dp[<<i, j + 1>>] THEN dp[<<i + 1, j>>] ELSE dp[<<i, j + 1>>]
  IN  dp

Eq(a, i, j) == [op |-> "eq", old |-> i, new |-> j, text |-> a[i]]
Del(a, i) == [op |-> "del", old |-> i, new |-> 0, text |-> a[i]]
Add(b, j) == [op |-> "add", old |-> 0, new |-> j, text |-> b[j]]

(* mutant: without the loop that lists what is left of the new payload     *)
LeftOverOld(a, b, i, j) == [n \in 1..(Len(a) + 1 - i) |-> Del(a, i + n - 1)]

(* The two loops at the end of lcsChanges: one payload has ended, what is  *)
(* left of the other was deleted or added.                                 *)
LeftOver(a, b, i, j) ==
  [n \in 1..(Len(a) + 1 - i) |-> Del(a, i + n - 1)] \o
  [n \in 1..(Len(b) + 1 - j) |-> Add(b, j + n - 1)]

(* The walk of lcsChanges from the first lines on.                         *)
Changes(a, b) ==
  LET dp == Lcs(a, b)
      walk[at \in Grid(a, b)] ==
        LET i == at[1]
            j == at[2]
        IN  IF i > Len(a) \/ j > Len(b) THEN LeftOver(a, b, i, j)
            ELSE IF a[i] = b[j] THEN <<Eq(a, i, j)>> \o walk[<<i + 1, j + 1>>]
            ELSE IF dp[<<i + 1, j>>] >= dp[<<i, j + 1>>] THEN <<Del(a, i)>> \o walk[<<i + 1, j>>]
            ELSE <<Add(b, j)>> \o walk[<<i, j + 1>>]
  IN  walk[<<1, 1>>]

(* Diff.  Sizes are Len of the payloads and left out.                      *)
Diff(old, new) ==
  LET a == SplitLines(old)
      b == SplitLines(new)
      result == [equal |-> FALSE, binary |-> FALSE, truncated |-> FALSE, changes |-> <<>>]
  IN  IF old = new THEN [result EXCEPT !.equal = TRUE]
      ELSE IF LooksBinary(old) \/ LooksBinary(new) THEN [result EXCEPT !.binary = TRUE]
      ELSE IF Len(a) > MaxDiffLines \/ Len(b) > MaxDiffLines THEN [result EXCEPT !.truncated = TRUE]
      ELSE [result EXCEPT !.changes = Changes(a, b)]

(* The places of the changes of some kinds.                                *)
Marked(changes, ops) == {n \in 1..Len(changes) : changes[n].op \in ops}

(* Unified: the added and the deleted lines in order, one summary line in  *)
(* the other cases.                                                        *)
Unified(d) ==
  IF d.equal THEN <<>>
  ELSE IF d.binary THEN <<"binary">>
  ELSE Pick(d.changes, Marked(d.changes, {"del", "add"})) \o (IF d.truncated THEN <<"truncated">> ELSE <<>>)

-----------------------------------------------------------------------------
(* The length of a longest common subsequence, by trying them all.         *)
Parts(s) == {Pick(s, I) : I \in SUBSET (1..Len(s))}

CommonLength(a, b) ==
  LET lengths == {Len(t) : t \in Parts(a) \cap Parts(b)}
  IN  CHOOSE n \in lengths : \A m \in lengths : m <= n

(* What a reader of one side of the changes sees: its line numbers and its *)
(* lines, "eq" being on both sides.                                        *)
OldSide(changes) ==
  Pick([n \in 1..Len(changes) |-> <<changes[n].old, changes[n].text>>], Marked(changes, {"eq", "del"}))
NewSide(changes) ==
  Pick([n \in 1..Len(changes) |-> <<changes[n].new, changes[n].text>>], Marked(changes, {"eq", "add"}))

Numbered(lines) == [n \in 1..Len(lines) |-> <<n, lines[n]>>]

(* The changes of two texts explain the one by the other: the lines that   *)
(* are equal or deleted are the old payload, those that are equal or added *)
(* the new one, each with its number and in order, and no shorter list     *)
(* does (as many lines are equal as can be).  Unified shows nothing only   *)
(* of payloads that have the same lines.                                   *)
Explains(old, new, d) ==
  LET a == SplitLines(old)
      b == SplitLines(new)
  IN  /\ (~d.equal /\ ~d.binary /\ ~d.truncated) =>
           /\ OldSide(d.changes) = Numbered(a)
           /\ NewSide(d.changes) = Numbered(b)
           /\ Cardinality(Marked(d.changes, {"eq"})) = CommonLength(a, b)
      /\ Unified(d) = <<>> => a = b
=============================================================================
