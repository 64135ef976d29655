----------------------------- MODULE PackageName -----------------------------
(***************************************************************************)
(* NormalizeName of server/normalize.go; normalizeName of                  *)
(* syncer/normalize.go, which names the directories the server looks in,   *)
(* has the same text.  A name is a sequence of characters.                 *)
(***************************************************************************)
EXTENDS Integers, SequencesExt

CONSTANTS
  Chars,        \* characters of names
  Lower         \* [Chars -> Chars]: strings.ToLower of a character

Separators == {"-", "_", "."}

ASSUME NameAssumption ==
  /\ Separators \subseteq Chars /\ Lower \in [Chars -> Chars]
  /\ \A c \in Chars \ Separators : Lower[c] \notin Separators /\ Lower[Lower[c]] = Lower[c]

\* A character of the name comes after what has been made of those before it: the first
\* separator of a run becomes a dash, the others go; the rest is lowercased.
Each(done, c) ==      \* mutant: a dash for each separator of a run
  Append(done, IF c \in Separators THEN "-" ELSE Lower[c])

Joined(done, c) ==
  IF c \notin Separators THEN Append(done, Lower[c])
  ELSE IF done # << >> /\ Last(done) = "-" THEN done
  ELSE Append(done, "-")

NormalizeName(name) == FoldLeft(Joined, << >>, name)

\* What PEP 503 asks for, place by place: every character but those that follow a
\* separator and are one, a separator as a dash, in the order they have in the name.
Kept(name) ==
  {i \in DOMAIN name : name[i] \notin Separators \/ i = 1 \/ name[i - 1] \notin Separators}
Rank(name, i) == Cardinality({j \in Kept(name) : j <= i})

NormalForm(name) ==
  [k \in 1..Cardinality(Kept(name)) |->
     LET i == CHOOSE i \in Kept(name) : Rank(name, i) = k
     IN IF name[i] \in Separators THEN "-" ELSE Lower[name[i]]]
=============================================================================
