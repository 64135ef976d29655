--------------------------- MODULE RequestProofs ---------------------------
(***************************************************************************)
(* What a request says: the address of its client, for any networks, lines *)
(* and chains of proxies, and the name of the project it asks for, for any *)
(* name and any letters.                                                   *)
(***************************************************************************)
EXTENDS ClientAddress, PackageName, FiniteSetTheorems, SequenceTheorems, TLAPS

\* A non-empty set of places on a line has a rightmost one.
LEMMA RightmostFact ==
  ASSUME NEW line \in Seq(Texts), NEW i \in Strangers(line),
         \A j \in Strangers(line) : j <= i
  PROVE  Rightmost(Strangers(line)) = i
<1>1. \A j \in Strangers(line) : j \in Int
  BY DEF Strangers
<1> QED BY <1>1 DEF Rightmost

\* A line with the client's address in it, what is left of it and what is right of it.
LEMMA LineFacts ==
  ASSUME NEW kept \in Seq(Texts), NEW client \in Texts, NEW rest \in Seq(Texts)
  PROVE  /\ kept \o <<client>> \o rest \in Seq(Texts)
         /\ Len(kept \o <<client>> \o rest) = Len(kept) + 1 + Len(rest)
         /\ (kept \o <<client>> \o rest)[Len(kept) + 1] = client
         /\ \A j \in 1..Len(rest) :
              (kept \o <<client>> \o rest)[Len(kept) + 1 + j] = rest[j]
<1> DEFINE left == kept \o <<client>>
<1>1. left \in Seq(Texts) /\ Len(left) = Len(kept) + 1 /\ left[Len(kept) + 1] = client
  OBVIOUS
<1> HIDE DEF left
<1>2. /\ left \o rest \in Seq(Texts) /\ Len(left \o rest) = Len(left) + Len(rest)
      /\ \A i \in 1..Len(left) : (left \o rest)[i] = left[i]
      /\ \A j \in 1..Len(rest) : (left \o rest)[Len(left) + j] = rest[j]
  BY <1>1
<1>3. Len(kept) \in Nat
  OBVIOUS
<1> QED BY <1>1, <1>2, <1>3 DEF left

(***************************************************************************)
(* A client outside the trusted networks is known by its own address       *)
(* behind any chain of trusted proxies, whatever line it sends of its own  *)
(* and whatever X-Real-IP says.                                            *)
(***************************************************************************)
THEOREM ClientKnown ==
  ASSUME NEW client \in Addrs \ Trusted, NEW claimed \in Seq(Texts),
         NEW via \in Seq(Trusted), NEW replaces \in BOOLEAN, NEW realIP \in Texts
  PROVE  ExtractClientIP(PeerOf(client, via), LineOf(client, claimed, via, replaces), realIP)
           = client
<1>1. CASE via = << >>
  BY <1>1, AddressAssumption DEF AddressAssumption, PeerOf, ExtractClientIP
<1>2. CASE via # << >>
  <2> DEFINE kept == IF replaces THEN << >> ELSE claimed
             rest == SubSeq(via, 1, Len(via) - 1)
             line == kept \o <<client>> \o rest
             here == Len(kept) + 1
  <2>1. Len(via) \in Nat \ {0} /\ via[Len(via)] \in Trusted
    BY <1>2
  <2>2. kept \in Seq(Texts) /\ Len(kept) \in Nat
    OBVIOUS
  <2>3. rest \in Seq(Trusted) /\ Len(rest) \in Nat /\ \A j \in 1..Len(rest) : rest[j] \in Trusted
    BY <2>1
  <2>4. rest \in Seq(Texts) /\ client \in Texts
    BY <2>3, AddressAssumption DEF AddressAssumption, Texts
  <2>5. LineOf(client, claimed, via, replaces) = line /\ PeerOf(client, via) = via[Len(via)]
    BY <1>2 DEF LineOf, PeerOf
  <2> HIDE DEF kept, rest
  <2>6. /\ line \in Seq(Texts) /\ Len(line) = here + Len(rest) /\ line[here] = client
        /\ \A j \in 1..Len(rest) : line[here + j] = rest[j]
    BY <2>2, <2>4, LineFacts
  <2> HIDE DEF line
  <2>7. here \in DOMAIN line /\ here \in Nat
    BY <2>2, <2>3, <2>6
  <2>8. \A j \in DOMAIN line : here < j => line[j] \in Trusted
    <3> SUFFICES ASSUME NEW j \in DOMAIN line, here < j PROVE line[j] \in Trusted
      OBVIOUS
    <3>1. j - here \in 1..Len(rest) /\ here + (j - here) = j
      BY <2>2, <2>3, <2>6
    <3> QED BY <2>3, <2>6, <3>1
  <2>9. here \in Strangers(line) /\ \A j \in Strangers(line) : j <= here
    <3>1. here \in Strangers(line)
      BY <2>6, <2>7 DEF Strangers
    <3>2. \A j \in Strangers(line) : j \in DOMAIN line /\ line[j] \notin Trusted /\ j \in Int
      BY <2>6 DEF Strangers
    <3> QED BY <2>7, <2>8, <3>1, <3>2
  <2>10. Rightmost(Strangers(line)) = here
    BY <2>6, <2>9, RightmostFact
  <2>11. via[Len(via)] # NoAddress
    BY <2>1, AddressAssumption DEF AddressAssumption
  <2> HIDE DEF here
  <2> QED BY <2>1, <2>5, <2>6, <2>9, <2>10, <2>11 DEF ExtractClientIP
<1> QED BY <1>1, <1>2
-----------------------------------------------------------------------------
(***************************************************************************)
(* Names.  NormalizeName is a fold: it takes the last character off a name *)
(* until none is left.  What it computes is shown by descent, as no        *)
(* natural number is the least for which the fact fails.                   *)
(***************************************************************************)
LEMMA LeastNat ==
  ASSUME NEW Bad \in SUBSET Nat, Bad # {}
  PROVE  \E m \in Bad : \A k \in Bad : m <= k
<1> DEFINE R == {ss \in Nat \X Nat : ss[1] < ss[2]}
<1>1. IsWellFoundedOn(R, Nat)
  BY NatLessThanWellFounded DEF OpToRel
<1>2. PICK m \in Bad : \A k \in Bad : ~ (<<k, m>> \in R)
  <2> HIDE DEF R
  <2> QED BY <1>1, WFMin
<1>3. \A k \in Bad : ~ (k < m) /\ k \in Nat /\ m \in Nat
  BY <1>2
<1> QED BY <1>3

\* A set of numbers with 0, and with every next one up to n, has all up to n.
LEMMA AllUpTo ==
  ASSUME NEW n \in Nat, NEW Good, 0 \in Good,
         \A k \in 1..n : k - 1 \in Good => k \in Good
  PROVE  0..n \subseteq Good
<1> SUFFICES ASSUME (0..n) \ Good # {} PROVE FALSE
  OBVIOUS
<1>1. PICK m \in (0..n) \ Good : \A k \in (0..n) \ Good : m <= k
  <2> DEFINE Bad == (0..n) \ Good
  <2>1. Bad \in SUBSET Nat /\ Bad # {}
    OBVIOUS
  <2> HIDE DEF Bad
  <2>2. \E m \in Bad : \A k \in Bad : m <= k
    BY <2>1, LeastNat
  <2> QED BY <2>2 DEF Bad
<1>2. m \in 1..n /\ m - 1 \in 0..n
  BY <1>1
<1>3. m - 1 \in Good
  BY <1>1, <1>2
<1> QED BY <1>1, <1>2, <1>3

LEMMA JoinedType ==
  ASSUME NEW done \in Seq(Chars), NEW c \in Chars
  PROVE  Joined(done, c) \in Seq(Chars)
<1>1. Lower[c] \in Chars /\ "-" \in Chars
  BY NameAssumption DEF Separators
<1>2. Append(done, Lower[c]) \in Seq(Chars) /\ Append(done, "-") \in Seq(Chars)
  BY <1>1
<1> QED BY <1>2 DEF Joined

(***************************************************************************)
(* The fold.                                                               *)
(***************************************************************************)
Folds(it, name) ==
  it = [s \in SUBSET (DOMAIN name) |->
          IF s = {} THEN << >> ELSE Joined(it[s \ {Max(s)}], name[Max(s)])]
Fold(name) == CHOOSE it : Folds(it, name)

LEMMA NormalizeIsFold ==
  ASSUME NEW name
  PROVE  NormalizeName(name) = Fold(name)[DOMAIN name]
BY DEF NormalizeName, FoldLeft, MapThenFoldSet, Folds, Fold

LEMMA MaxIn ==
  ASSUME NEW n \in Nat, NEW s \in SUBSET (1..n), s # {}
  PROVE  Max(s) \in s
<1> DEFINE Above == {k \in Nat : \A x \in s : x <= k}
<1>1. n \in Above
  OBVIOUS
<1>2. PICK m \in Above : \A k \in Above : m <= k
  <2>1. Above \in SUBSET Nat /\ Above # {}
    BY <1>1
  <2> HIDE DEF Above
  <2> QED BY <2>1, LeastNat
<1>3. PICK x \in s : TRUE
  OBVIOUS
<1>4. m \in s
  <2>1. CASE m = 0
    BY <1>2, <1>3, <2>1
  <2>2. CASE m # 0 /\ m \notin s
    <3>1. m - 1 \in Above
      BY <1>2, <2>2
    <3> QED BY <1>2, <3>1
  <2> QED BY <2>1, <2>2
<1>5. \A y \in s : m >= y
  BY <1>2
<1> QED BY <1>4, <1>5 DEF Max

LEMMA MaxInterval ==
  ASSUME NEW i \in Nat, i # 0
  PROVE  Max(1..i) = i /\ (1..i) \ {i} = 1..(i - 1)
<1>1. Max(1..i) \in 1..i /\ \A y \in 1..i : Max(1..i) >= y
  <2>1. i \in 1..i /\ \A y \in 1..i : i >= y
    OBVIOUS
  <2> QED BY <2>1 DEF Max
<1> QED BY <1>1

LEMMA FoldExists ==
  ASSUME NEW name \in Seq(Chars)
  PROVE  Folds(Fold(name), name)
<1> DEFINE S == SUBSET (DOMAIN name)
           After(it) == [s \in S |-> IF s = {} THEN << >>
                                     ELSE Joined(it[s \ {Max(s)}], name[Max(s)])]
           Right(it, k) == \A s \in S : Cardinality(s) <= k => it[s] = After(it)[s]
           Good == {k \in Nat : \E it \in [S -> Seq(Chars)] : Right(it, k)}
<1>0. DOMAIN name = 1..Len(name) /\ Len(name) \in Nat /\ IsFiniteSet(DOMAIN name)
  BY FS_Interval
<1>1. ASSUME NEW s \in S, s # {} PROVE Max(s) \in s /\ name[Max(s)] \in Chars
  <2>1. s \in SUBSET (1..Len(name))
    BY <1>0
  <2>2. Max(s) \in s
    BY <1>0, <1>1, <2>1, MaxIn
  <2> QED BY <2>1, <2>2
<1>2. ASSUME NEW s \in S
      PROVE  /\ IsFiniteSet(s) /\ Cardinality(s) \in Nat
             /\ Cardinality(s) <= Cardinality(DOMAIN name)
  BY <1>0, FS_Subset, FS_CardinalityType
<1>3. ASSUME NEW it \in [S -> Seq(Chars)] PROVE After(it) \in [S -> Seq(Chars)]
  <2>1. ASSUME NEW s \in S, s # {}
        PROVE  Joined(it[s \ {Max(s)}], name[Max(s)]) \in Seq(Chars)
    <3>1. name[Max(s)] \in Chars /\ s \ {Max(s)} \in S
      BY <1>1, <2>1
    <3>2. it[s \ {Max(s)}] \in Seq(Chars)
      BY <1>3, <3>1
    <3> QED BY <3>1, <3>2, JoinedType
  <2>2. << >> \in Seq(Chars)
    OBVIOUS
  <2> QED BY <2>1, <2>2
<1>4. 0 \in Good
  <2> DEFINE none == [s \in S |-> << >>]
  <2>1. \A s \in S : Cardinality(s) <= 0 => s = {}
    BY <1>2, FS_EmptySet
  <2>2. Right(none, 0) /\ none \in [S -> Seq(Chars)]
    BY <2>1
  <2> HIDE DEF Right, none
  <2> QED BY <2>2
<1>5. ASSUME NEW k \in Good PROVE k + 1 \in Good
  <2>1. PICK it \in [S -> Seq(Chars)] : Right(it, k)
    OBVIOUS
  <2>2. ASSUME NEW s \in S, Cardinality(s) <= k + 1
        PROVE  After(it)[s] = After(After(it))[s]
    <3>1. CASE s = {}
      BY <3>1
    <3>2. CASE s # {}
      <4> DEFINE r == s \ {Max(s)}
      <4>1. r \in S /\ Cardinality(r) = Cardinality(s) - 1 /\ Cardinality(s) \in Nat
        BY <1>1, <1>2, <3>2, FS_RemoveElement
      <4>2. Cardinality(r) <= k
        BY <2>2, <4>1
      <4>3. it[r] = After(it)[r]
        BY <2>1, <4>1, <4>2
      <4> QED BY <3>2, <4>3
    <3> QED BY <3>1, <3>2
  <2>3. Right(After(it), k + 1) /\ After(it) \in [S -> Seq(Chars)]
    BY <1>3, <2>1, <2>2
  <2>4. k + 1 \in Nat
    OBVIOUS
  <2> HIDE DEF Right, After
  <2> QED BY <2>3, <2>4
<1> DEFINE n == Cardinality(DOMAIN name)
<1>6. n \in Nat
  BY <1>0, FS_CardinalityType
<1> HIDE DEF Good, n
<1>7. n \in Good
  <2>1. \A k \in 1..n : k - 1 \in Good => (k - 1) + 1 \in Good
    BY <1>5
  <2>2. \A k \in 1..n : k - 1 \in Good => k \in Good
    BY <1>6, <2>1
  <2>3. 0..n \subseteq Good
    BY <1>4, <1>6, <2>2, AllUpTo
  <2> QED BY <1>6, <2>3
<1>8. PICK it \in [S -> Seq(Chars)] : Right(it, n)
  BY <1>7 DEF Good
<1>9. it = After(it)
  BY <1>2, <1>3, <1>8 DEF n
<1> QED BY <1>9 DEF Folds, Fold

\* A name is normalized from left to right, a character at a time.
LEMMA StepByStep ==
  ASSUME NEW name \in Seq(Chars)
  PROVE  \E f \in [0..Len(name) -> Seq(Chars)] :
           /\ f[0] = << >> /\ f[Len(name)] = NormalizeName(name)
           /\ \A i \in 1..Len(name) : f[i] = Joined(f[i - 1], name[i])
<1> DEFINE it == Fold(name)
           n  == Len(name)
           f  == [i \in 0..n |-> it[1..i]]
<1>1. it = [s \in SUBSET (1..n) |->
              IF s = {} THEN << >> ELSE Joined(it[s \ {Max(s)}], name[Max(s)])]
  <2>1. Folds(Fold(name), name) /\ DOMAIN name = 1..Len(name)
    BY FoldExists
  <2> QED BY <2>1 DEF Folds
<1>2. it[1..n] = NormalizeName(name) /\ n \in Nat
  BY NormalizeIsFold
<1> HIDE DEF it
<1>3. 1..0 = {} /\ it[1..0] = << >>
  BY <1>1
<1>4. ASSUME NEW i \in 1..n PROVE it[1..i] = Joined(it[1..(i - 1)], name[i])
  <2>1. 1..i \in SUBSET (1..n) /\ 1..i # {} /\ i \in Nat /\ i # 0
    <3>1. i \in Nat /\ i >= 1 /\ i <= n
      BY <1>2
    <3>2. i \in 1..i
      BY <3>1
    <3>3. \A j \in 1..i : j \in 1..n
      BY <1>2, <3>1
    <3>4. 1..i # {}
      BY <3>2
    <3> QED BY <3>1, <3>3, <3>4
  <2>2. Max(1..i) = i /\ (1..i) \ {i} = 1..(i - 1)
    BY <2>1, MaxInterval
  <2> QED BY <1>1, <2>1, <2>2
<1>5. ASSUME NEW i \in 0..n PROVE it[1..i] \in Seq(Chars)
  <2> DEFINE Good == {i_1 \in 0..n : it[1..i_1] \in Seq(Chars)}
  <2>1. 0 \in Good
    <3>1. << >> \in Seq(Chars) /\ 0 \in 0..n
      BY <1>2
    <3>2. it[1..0] \in Seq(Chars)
      BY <1>3, <3>1
    <3> QED BY <3>1, <3>2
  <2>2. ASSUME NEW k \in 1..n, k - 1 \in Good PROVE k \in Good
    <3>1. name[k] \in Chars /\ it[1..(k - 1)] \in Seq(Chars)
      BY <2>2
    <3>2. it[1..k] \in Seq(Chars)
      BY <1>4, <3>1, JoinedType
    <3> QED BY <1>2, <3>2
  <2>3. 0..n \subseteq Good
    <3> HIDE DEF Good
    <3> QED BY <1>2, <2>1, <2>2, AllUpTo
  <2> QED BY <2>3
<1>6. f \in [0..n -> Seq(Chars)]
  BY <1>5
<1>7. f[0] = << >> /\ f[n] = NormalizeName(name)
  BY <1>2, <1>3
<1>8. \A i \in 1..n : f[i] = Joined(f[i - 1], name[i])
  BY <1>2, <1>4
<1> HIDE DEF f
<1> QED BY <1>6, <1>7, <1>8

\* A name without runs of separators, without other separators than dashes, in lower case.
Normal(name) ==
  /\ name \in Seq(Chars)
  /\ \A k \in 1..Len(name) : name[k] = "-" \/ (name[k] \notin Separators /\ Lower[name[k]] = name[k])
  /\ \A k \in 2..Len(name) : name[k] # "-" \/ name[k - 1] # "-"

\* Kept's place i of the name was given place Rank(name, i) of what has been made so far.
Placed(done, name, i) ==
  /\ Len(done) = Rank(name, i)
  /\ \A j \in Kept(name) : j <= i =>
       /\ Rank(name, j) \in 1..Len(done)
       /\ done[Rank(name, j)] = IF name[j] \in Separators THEN "-" ELSE Lower[name[j]]
  /\ \A k \in 1..Len(done) : \E j \in Kept(name) : j <= i /\ Rank(name, j) = k
  /\ i # 0 => Len(done) > 0 /\ (done[Len(done)] = "-" <=> name[i] \in Separators)

LEMMA RankFacts ==
  ASSUME NEW name \in Seq(Chars), NEW i \in 0..Len(name)
  PROVE  /\ Rank(name, i) \in Nat
         /\ i = 0 => Rank(name, i) = 0
         /\ i \in Kept(name) => Rank(name, i) = Rank(name, i - 1) + 1
         /\ i # 0 /\ i \notin Kept(name) => Rank(name, i) = Rank(name, i - 1)
         /\ \A j \in 0..i : Rank(name, j) <= Rank(name, i)
<1> DEFINE To(k) == {j \in Kept(name) : j <= k}
<1>1. Kept(name) \subseteq 1..Len(name) /\ Len(name) \in Nat /\ IsFiniteSet(1..Len(name))
  BY FS_Interval DEF Kept
<1>2. \A k \in Int : IsFiniteSet(To(k)) /\ Cardinality(To(k)) \in Nat
  <2>1. \A k \in Int : To(k) \in SUBSET (1..Len(name))
    BY <1>1
  <2> QED BY <1>1, <2>1, FS_Subset, FS_CardinalityType
<1>3. i = 0 => To(i) = {}
  BY <1>1
<1>4. i \in Kept(name) => To(i) = To(i - 1) \cup {i} /\ i \notin To(i - 1)
  BY <1>1
<1>5. i # 0 /\ i \notin Kept(name) => To(i) = To(i - 1)
  BY <1>1
<1>6. \A j \in 0..i : To(j) \in SUBSET To(i)
  BY <1>1
<1>7. i \in Int /\ i - 1 \in Int
  OBVIOUS
<1> HIDE DEF To
<1>8. i \in Kept(name) => Cardinality(To(i)) = Cardinality(To(i - 1)) + 1
  BY <1>2, <1>4, <1>7, FS_AddElement
<1>9. \A j \in 0..i : Cardinality(To(j)) <= Cardinality(To(i))
  BY <1>2, <1>6, <1>7, FS_Subset
<1>10. i = 0 => Cardinality(To(i)) = 0
  BY <1>3, FS_EmptySet
<1> QED BY <1>2, <1>5, <1>7, <1>8, <1>9, <1>10 DEF Rank, To

\* One more character.
LEMMA PlacedStep ==
  ASSUME NEW name \in Seq(Chars), NEW i \in 1..Len(name), NEW done \in Seq(Chars),
         Normal(done), Placed(done, name, i - 1)
  PROVE  Normal(Joined(done, name[i])) /\ Placed(Joined(done, name[i]), name, i)
<1> DEFINE new == Joined(done, name[i])
           c   == IF name[i] \in Separators THEN "-" ELSE Lower[name[i]]
<1>1. /\ name[i] \in Chars /\ i \in Nat /\ i # 0 /\ Len(name) \in Nat
      /\ i \in 0..Len(name) /\ i - 1 \in 0..Len(name) /\ Kept(name) \subseteq 1..Len(name)
  BY DEF Kept
<1>2. /\ Rank(name, i) \in Nat /\ Rank(name, i - 1) \in Nat
      /\ i \in Kept(name) => Rank(name, i) = Rank(name, i - 1) + 1
      /\ i \notin Kept(name) => Rank(name, i) = Rank(name, i - 1)
  BY <1>1, RankFacts
<1>3. i \in Kept(name) <=> name[i] \notin Separators \/ i = 1 \/ name[i - 1] \notin Separators
  BY DEF Kept
<1>4. done = << >> <=> i = 1
  <2>1. i = 1 => Len(done) = 0
    <3>1. i = 1 => Rank(name, i - 1) = 0
      BY <1>1, RankFacts
    <3> QED BY <3>1 DEF Placed
  <2>2. i # 1 => Len(done) > 0
    BY <1>1 DEF Placed
  <2> QED BY <2>1, <2>2
<1>5. i # 1 => (Last(done) = "-" <=> name[i - 1] \in Separators)
  BY <1>1 DEF Placed, Last
<1>6. CASE i \notin Kept(name)
  <2>1. new = done /\ name[i] \in Separators /\ name[i - 1] \in Separators /\ i # 1
    BY <1>3, <1>4, <1>5, <1>6 DEF Joined
  <2>2. \A j \in Kept(name) : j <= i <=> j <= i - 1
    BY <1>1, <1>6
  <2>3. Placed(done, name, i)
    BY <1>1, <1>2, <1>6, <2>1, <2>2 DEF Placed
  <2> QED BY <2>1, <2>3
<1>7. CASE i \in Kept(name)
  <2>1. new = Append(done, c)
    BY <1>3, <1>4, <1>5, <1>7 DEF Joined
  <2>2. c \in Chars /\ (c = "-" <=> name[i] \in Separators)
        /\ (c # "-" => c \notin Separators /\ Lower[c] = c)
    <3>1. name[i] \notin Separators =>
            /\ Lower[name[i]] \in Chars /\ Lower[name[i]] \notin Separators
            /\ Lower[Lower[name[i]]] = Lower[name[i]]
      BY <1>1, NameAssumption
    <3>2. "-" \in Separators /\ Separators \subseteq Chars
      BY NameAssumption DEF Separators
    <3> QED BY <3>1, <3>2
  <2>3. c = "-" /\ i # 1 => done[Len(done)] # "-"
    BY <1>3, <1>5, <1>7, <2>2 DEF Last
  <2> HIDE DEF c, new
  <2>4. /\ new \in Seq(Chars) /\ Len(new) = Len(done) + 1 /\ new[Len(done) + 1] = c
        /\ \A k \in 1..Len(done) : new[k] = done[k]
    BY <2>1, <2>2
  <2>5. Len(done) \in Nat /\ Len(done) = Rank(name, i - 1) /\ Rank(name, i) = Len(done) + 1
    BY <1>2, <1>7 DEF Placed
  <2>6. Normal(new)
    <3>1. ASSUME NEW k \in 1..Len(new)
          PROVE  new[k] = "-" \/ (new[k] \notin Separators /\ Lower[new[k]] = new[k])
      BY <2>2, <2>4, <2>5 DEF Normal
    <3>2. ASSUME NEW k \in 2..Len(new) PROVE new[k] # "-" \/ new[k - 1] # "-"
      <4>1. CASE k \in 2..Len(done)
        BY <2>4, <2>5, <4>1 DEF Normal
      <4>2. CASE k = Len(done) + 1
        <5>1. i # 1 /\ new[k] = c /\ new[k - 1] = done[Len(done)]
          BY <1>4, <2>4, <2>5, <3>2, <4>2
        <5> QED BY <2>3, <5>1
      <4> QED BY <2>4, <2>5, <4>1, <4>2
    <3> QED BY <2>4, <3>1, <3>2 DEF Normal
  <2>7. ASSUME NEW j \in Kept(name), j <= i
        PROVE  /\ Rank(name, j) \in 1..Len(new)
               /\ new[Rank(name, j)] = IF name[j] \in Separators THEN "-" ELSE Lower[name[j]]
    <3>1. CASE j = i
      BY <2>4, <2>5, <3>1 DEF c
    <3>2. CASE j # i
      <4>1. j <= i - 1
        BY <1>1, <2>7, <3>2
      <4> QED BY <2>4, <2>5, <4>1 DEF Placed
    <3> QED BY <3>1, <3>2
  <2>8. ASSUME NEW k \in 1..Len(new) PROVE \E j \in Kept(name) : j <= i /\ Rank(name, j) = k
    <3>1. CASE k = Len(new)
      BY <1>1, <1>7, <2>4, <2>5, <3>1
    <3>2. CASE k \in 1..Len(done)
      <4>1. PICK j \in Kept(name) : j <= i - 1 /\ Rank(name, j) = k
        BY <3>2 DEF Placed
      <4>2. j <= i
        BY <1>1, <4>1
      <4> QED BY <4>1, <4>2
    <3> QED BY <2>4, <2>5, <3>1, <3>2
  <2>9. Placed(new, name, i)
    BY <2>2, <2>4, <2>5, <2>7, <2>8 DEF Placed
  <2> QED BY <2>6, <2>9 DEF new
<1> QED BY <1>6, <1>7

\* All of them.
LEMMA PlacedAll ==
  ASSUME NEW name \in Seq(Chars)
  PROVE  Normal(NormalizeName(name)) /\ Placed(NormalizeName(name), name, Len(name))
<1>1. PICK f \in [0..Len(name) -> Seq(Chars)] :
        /\ f[0] = << >> /\ f[Len(name)] = NormalizeName(name)
        /\ \A i \in 1..Len(name) : f[i] = Joined(f[i - 1], name[i])
  BY StepByStep
<1> DEFINE Good == {i \in 0..Len(name) : Normal(f[i]) /\ Placed(f[i], name, i)}
<1>2. Len(name) \in Nat /\ Kept(name) \subseteq 1..Len(name)
  BY DEF Kept
<1>3. 0 \in Good
  <2>1. Normal(<< >>)
    BY DEF Normal
  <2>2. Rank(name, 0) = 0 /\ \A j \in Kept(name) : ~ (j <= 0)
    BY <1>2, RankFacts
  <2>3. Placed(<< >>, name, 0)
    BY <2>2 DEF Placed
  <2> QED BY <1>1, <1>2, <2>1, <2>3
<1>4. ASSUME NEW k \in 1..Len(name), k - 1 \in Good PROVE k \in Good
  BY <1>1, <1>2, <1>4, PlacedStep
<1>5. 0..Len(name) \subseteq Good
  <2> HIDE DEF Good
  <2> QED BY <1>2, <1>3, <1>4, AllUpTo
<1> QED BY <1>1, <1>2, <1>5

(***************************************************************************)
(* NormalizeName does for every name what PEP 503 asks for.                *)
(***************************************************************************)
THEOREM NamesAreNormalized ==
  ASSUME NEW name \in Seq(Chars)
  PROVE  NormalizeName(name) = NormalForm(name)
<1> DEFINE done == NormalizeName(name)
           n    == Cardinality(Kept(name))
<1>1. Normal(done) /\ Placed(done, name, Len(name))
  BY PlacedAll
<1>2. Len(name) \in Nat /\ Kept(name) \subseteq 1..Len(name)
  BY DEF Kept
<1> HIDE DEF done
<1>3. Len(done) = n
  <2>1. Kept(name) = {j \in Kept(name) : j <= Len(name)}
    BY <1>2
  <2> QED BY <1>1, <2>1 DEF Placed, Rank
<1>4. ASSUME NEW i \in Kept(name), NEW j \in Kept(name), i < j
      PROVE  Rank(name, i) < Rank(name, j)
  <2>1. i \in 0..(j - 1) /\ j - 1 \in 0..Len(name) /\ j \in 0..Len(name) /\ i \in 0..Len(name)
    BY <1>2, <1>4
  <2>2. Rank(name, i) <= Rank(name, j - 1) /\ Rank(name, j) = Rank(name, j - 1) + 1
        /\ Rank(name, i) \in Nat /\ Rank(name, j - 1) \in Nat
    BY <2>1, RankFacts
  <2> QED BY <2>2
<1>5. ASSUME NEW k \in 1..n
      PROVE  done[k] = LET i == CHOOSE i \in Kept(name) : Rank(name, i) = k
                       IN IF name[i] \in Separators THEN "-" ELSE Lower[name[i]]
  <2> DEFINE i == CHOOSE i \in Kept(name) : Rank(name, i) = k
  <2>1. i \in Kept(name) /\ Rank(name, i) = k
    BY <1>1, <1>3 DEF Placed
  <2> HIDE DEF i
  <2>2. done[Rank(name, i)] = IF name[i] \in Separators THEN "-" ELSE Lower[name[i]]
    BY <1>1, <1>2, <2>1 DEF Placed
  <2> QED BY <2>1, <2>2 DEF i
<1>6. done = [k \in 1..n |-> done[k]]
  BY <1>1, <1>3 DEF Normal
<1> QED BY <1>5, <1>6 DEF NormalForm, done

\* A name in normal form stays as it is.
LEMMA NormalStays ==
  ASSUME NEW name, Normal(name)
  PROVE  NormalizeName(name) = name
<1>1. name \in Seq(Chars) /\ Len(name) \in Nat
  BY DEF Normal
<1>2. PICK f \in [0..Len(name) -> Seq(Chars)] :
        /\ f[0] = << >> /\ f[Len(name)] = NormalizeName(name)
        /\ \A i \in 1..Len(name) : f[i] = Joined(f[i - 1], name[i])
  BY <1>1, StepByStep
<1> DEFINE Same(i) == /\ Len(f[i]) = i /\ \A k \in 1..i : f[i][k] = name[k]
           Good == {i \in 0..Len(name) : Same(i)}
<1>3. 0 \in Good
  BY <1>1, <1>2
<1>4. ASSUME NEW i \in 1..Len(name), i - 1 \in Good PROVE i \in Good
  <2>1. /\ f[i - 1] \in Seq(Chars) /\ Len(f[i - 1]) = i - 1 /\ i - 1 \in 0..Len(name)
        /\ \A k \in 1..(i - 1) : f[i - 1][k] = name[k]
    BY <1>1, <1>2, <1>4
  <2>2. f[i] = Joined(f[i - 1], name[i]) /\ name[i] \in Chars
    BY <1>1, <1>2
  <2>9. ASSUME f[i] = Append(f[i - 1], name[i]) PROVE i \in Good
    <3> DEFINE made == f[i - 1]
    <3>1. made \in Seq(Chars) /\ Len(made) = i - 1 /\ \A k \in 1..(i - 1) : made[k] = name[k]
      BY <2>1
    <3> HIDE DEF made
    <3>2. /\ Len(Append(made, name[i])) = i /\ Append(made, name[i])[i] = name[i]
          /\ \A k \in 1..(i - 1) : Append(made, name[i])[k] = name[k]
      BY <1>1, <2>2, <3>1
    <3>3. \A k \in 1..i : k \in 1..(i - 1) \/ k = i
      BY <1>1
    <3> QED BY <1>1, <2>9, <3>2, <3>3 DEF made
  <2>3. CASE name[i] = "-"
    <3>1. "-" \in Separators
      BY DEF Separators
    <3>2. ~ (f[i - 1] # << >> /\ Last(f[i - 1]) = "-")
      <4>1. CASE i = 1
        BY <2>1, <4>1
      <4>2. CASE i # 1
        <5>1. i \in 2..Len(name) /\ name[i - 1] # "-"
          BY <1>1, <2>3, <4>2 DEF Normal
        <5>2. Last(f[i - 1]) = name[i - 1]
          BY <1>1, <2>1, <4>2, <5>1 DEF Last
        <5> QED BY <5>1, <5>2
      <4> QED BY <4>1, <4>2
    <3>3. f[i] = Append(f[i - 1], name[i])
      BY <2>2, <2>3, <3>1, <3>2 DEF Joined
    <3> QED BY <2>9, <3>3
  <2>4. CASE name[i] # "-"
    <3>1. name[i] \notin Separators /\ Lower[name[i]] = name[i]
      BY <1>1, <2>4 DEF Normal
    <3>2. f[i] = Append(f[i - 1], name[i])
      BY <2>2, <3>1 DEF Joined
    <3> QED BY <2>9, <3>2
  <2> QED BY <2>3, <2>4
<1>5. Same(Len(name))
  <2>1. 0..Len(name) \subseteq Good
    <3> HIDE DEF Good
    <3> QED BY <1>1, <1>3, <1>4, AllUpTo
  <2> QED BY <1>1, <2>1
<1> QED BY <1>1, <1>2, <1>5

\* One redirect leads to the name that is served.
THEOREM NormalizeTwice ==
  ASSUME NEW name \in Seq(Chars)
  PROVE  NormalizeName(NormalizeName(name)) = NormalizeName(name)
BY PlacedAll, NormalStays

\* A redirect adds a name.
LEMMA AppendToOne ==
  ASSUME NEW a, NEW b
  PROVE  Append(<<a>>, b) = <<a, b>>
<1> DEFINE S   == {a, b}
           x   == <<a>>
           y   == <<b>>
           two == <<a, b>>
<1>1. x \in Seq(S) /\ y \in Seq(S) /\ two \in Seq(S) /\ b \in S
  OBVIOUS
<1>2. Len(two) = 2 /\ two[1] = a /\ two[2] = b
  OBVIOUS
<1>3. x \o y \in Seq(S) /\ Len(x \o y) = 2 /\ (x \o y)[1] = a /\ (x \o y)[2] = b
  OBVIOUS
<1>4. Append(x, b) = x \o y
  BY <1>1, AppendIsConcat
<1> HIDE DEF x, y, two
<1>5. \A i \in 1..2 : (x \o y)[i] = two[i]
  BY <1>2, <1>3
<1>6. x \o y = two
  BY <1>1, <1>2, <1>3, <1>5, SeqEqual
<1> QED BY <1>4, <1>6 DEF x, two
=============================================================================
