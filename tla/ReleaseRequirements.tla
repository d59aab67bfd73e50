------------------------- MODULE ReleaseRequirements -------------------------
(***************************************************************************)
(* Versions of releases and the requirements they are matched with         *)
(* (src/src/domain/requirement/index.ts).                                  *)
(*                                                                         *)
(* A version is [at, pre]: the sequence <<major, minor, patch>> and the    *)
(* sequence of pre-release identifiers [word, n]: a number n, or the n-th  *)
(* word of the alphabet.  Build metadata takes no part in matching.        *)
(* A comparator is [op, at, pre] with one to three numbers, none for "*".  *)
(* Scanning the text is left out: what is read is the operator, "default"  *)
(* when none is written, the numbers, whether a star follows them, and the *)
(* pre-release.                                                            *)
(***************************************************************************)
EXTENDS Integers, Sequences, FiniteSets

Operators == {"caret", "tilde", "exact", "greater", "greater-equal", "less", "less-equal"}

(* What scanning gives: numbers of any size (bigint).                      *)
Identifier == [word : BOOLEAN, n : Nat]
IsVersion(v) ==
  v = [at |-> v.at, pre |-> v.pre] /\ v.at \in [1..3 -> Nat] /\ v.pre \in Seq(Identifier)
IsText(text) ==
  /\ text.op \in Operators \cup {"default"} /\ text.star \in BOOLEAN
  /\ text.at \in Seq(Nat) /\ text.pre \in Seq(Identifier)

Major(x) == x.at[1]
Part(x, i) == i <= Len(x.at)

----------------------------------------------------------------------------
(* comparePrerelease, as "precedes": nothing comes after every pre-release, *)
(* numbers come before words, and a prefix before what extends it.         *)

IdBefore(x, y) == IF x.word = y.word THEN x.n < y.n ELSE y.word

SamePrefix(x, y, n) == \A i \in 1..n : x[i] = y[i]

PreBefore(x, y) ==
  \/ x # <<>> /\ y = <<>>
  \/ /\ x # <<>> /\ y # <<>>
     /\ \/ Len(x) < Len(y) /\ SamePrefix(x, y, Len(x))
        \/ \E i \in 1..Len(x) : /\ i <= Len(y) /\ SamePrefix(x, y, i - 1)
                                /\ x[i] # y[i] /\ IdBefore(x[i], y[i])

PreAtLeast(x, y) == ~PreBefore(x, y)

(* The first of the first n parts in which two versions differ decides.    *)
NumbersBefore(x, y, n) ==
  \E i \in 1..n : /\ SamePrefix(x, y, i - 1) /\ x[i] < y[i]

(* compareReleaseVersions.                                                 *)
Before(v, w) ==
  \/ NumbersBefore(v.at, w.at, 3)
  \/ v.at = w.at /\ PreBefore(v.pre, w.pre)

----------------------------------------------------------------------------
(* parseComparator, parseWildcardComparator, parsePartialVersion: text is  *)
(* [op, at, star, pre].                                                    *)
ComparatorOk(text) ==
  /\ text.pre # <<>> => Len(text.at) = 3
  /\ text.star => text.op = "default" /\ Len(text.at) <= 2
  /\ ~text.star => Len(text.at) \in 1..3

Comparator(text) ==
  [op |-> CASE text.star -> "wildcard"
            [] ~text.star /\ text.op = "default" -> "caret"
            [] OTHER -> text.op,
   at |-> text.at, pre |-> text.pre]

(* parseReleaseRequirement: a bare star stands alone, and then no          *)
(* comparator is left.                                                     *)
Bare(text) == text.star /\ text.at = <<>>
RequirementOk(texts) ==
  /\ texts # {}
  /\ \A text \in texts : ComparatorOk(text)
  /\ (\E text \in texts : Bare(text)) => Cardinality(texts) = 1
Requirement(texts) == {Comparator(text) : text \in {t \in texts : ~Bare(t)}}

----------------------------------------------------------------------------
(* matchesComparator.                                                      *)

Agrees(c, v) == SamePrefix(c.at, v.at, Len(c.at))

MatchesExact(c, v) == Agrees(c, v) /\ v.pre = c.pre
MatchesGreater(c, v) ==
  \/ NumbersBefore(c.at, v.at, Len(c.at))
  \/ Len(c.at) = 3 /\ Agrees(c, v) /\ PreBefore(c.pre, v.pre)
MatchesLess(c, v) ==
  \/ NumbersBefore(v.at, c.at, Len(c.at))
  \/ Len(c.at) = 3 /\ Agrees(c, v) /\ PreBefore(v.pre, c.pre)

MatchesTilde(c, v) ==
  /\ SamePrefix(c.at, v.at, IF Len(c.at) = 1 THEN 1 ELSE 2)
  /\ IF Part(c, 3) /\ v.at[3] # c.at[3] THEN v.at[3] > c.at[3] ELSE PreAtLeast(v.pre, c.pre)

(* The first number that is not 0 may not change.                          *)
MatchesCaret(c, v) ==
  /\ Major(v) = Major(c)
  /\ CASE Len(c.at) = 1 -> TRUE
       [] Len(c.at) = 2 -> IF Major(c) > 0 THEN v.at[2] >= c.at[2] ELSE v.at[2] = c.at[2]
       [] OTHER ->
            IF Major(c) > 0 /\ v.at[2] # c.at[2] THEN v.at[2] > c.at[2]
            ELSE /\ v.at[2] = c.at[2]
                 /\ IF (Major(c) > 0 \/ c.at[2] > 0) /\ v.at[3] # c.at[3]
                      THEN v.at[3] > c.at[3]
                      ELSE v.at[3] = c.at[3] /\ PreAtLeast(v.pre, c.pre)

MatchesComparator(c, v) ==
  CASE c.op \in {"exact", "wildcard"} -> MatchesExact(c, v)
    [] c.op = "greater" -> MatchesGreater(c, v)
    [] c.op = "greater-equal" -> MatchesExact(c, v) \/ MatchesGreater(c, v)
    [] c.op = "less" -> MatchesLess(c, v)
    [] c.op = "less-equal" -> MatchesExact(c, v) \/ MatchesLess(c, v)
    [] c.op = "tilde" -> MatchesTilde(c, v)
    [] c.op = "caret" -> MatchesCaret(c, v)

(* matchesReleaseRequirement: a pre-release only where one of the          *)
(* comparators names a pre-release of the same numbers.                    *)
MatchesRequirement(comparators, v) ==
  /\ \A c \in comparators : MatchesComparator(c, v)
  /\ v.pre # <<>> => \E c \in comparators : c.at = v.at /\ c.pre # <<>>

----------------------------------------------------------------------------
(* The reference: a comparator stands for an interval of versions, from    *)
(* the numbers it writes up to the next that it does not admit.            *)

Pad(at) == [i \in 1..3 |-> IF i <= Len(at) THEN at[i] ELSE 0]
Next3(at, i) == [j \in 1..3 |-> IF j < i THEN at[j] ELSE IF j = i THEN at[j] + 1 ELSE 0]

(* What a caret keeps: up to the first number that is not 0.               *)
CaretPart(c) ==
  IF \E i \in 1..Len(c.at) : c.at[i] # 0
    THEN CHOOSE i \in 1..Len(c.at) : c.at[i] # 0 /\ \A j \in 1..(i - 1) : c.at[j] = 0
    ELSE Len(c.at)

AtLeast(v, w) == ~Before(v, w)

InInterval(c, v) ==
  LET low == [at |-> Pad(c.at), pre |-> c.pre]
      below(i) == NumbersBefore(v.at, Next3(Pad(c.at), i), 3)
      full == Len(c.at) = 3
  IN CASE c.op = "caret" -> AtLeast(v, low) /\ below(CaretPart(c))
       [] c.op = "tilde" -> AtLeast(v, low) /\ below(IF Len(c.at) = 1 THEN 1 ELSE 2)
       [] c.op \in {"exact", "wildcard"} /\ full -> v = low
       [] c.op \in {"exact", "wildcard"} /\ ~full -> AtLeast(v, low) /\ below(Len(c.at))
       [] c.op = "greater-equal" -> AtLeast(v, low)
       [] c.op = "less" -> Before(v, low)
       [] c.op = "greater" -> IF full THEN Before(low, v) ELSE ~below(Len(c.at))
       [] c.op = "less-equal" -> IF full THEN AtLeast(low, v) ELSE below(Len(c.at))

(* A comparator admits exactly the versions of its interval: every stable  *)
(* one, and with all three numbers written every pre-release as well.  A   *)
(* requirement admits what all its comparators admit, and no pre-release   *)
(* that nobody named.                                                      *)
AdmitsTheInterval(texts, v) ==
  LET comparators == Requirement(texts) IN
  RequirementOk(texts) =>
    /\ \A c \in comparators :
         (v.pre = <<>> \/ Len(c.at) = 3) => (MatchesComparator(c, v) <=> InInterval(c, v))
    /\ v.pre = <<>> =>
         (MatchesRequirement(comparators, v) <=> \A c \in comparators : InInterval(c, v))
    /\ comparators = {} => (MatchesRequirement(comparators, v) <=> v.pre = <<>>)
=============================================================================
