---------------------------- MODULE NamesProofs ----------------------------
(* The two workers take a key from the same name whatever the order of the     *)
(* terminal's answers, and a spelling leads to the series it names: for every  *)
(* list of names, of suffixes and of spellings.                                *)
EXTENDS Names, FiniteSetTheorems, WellFoundedInduction, TLAPS

-----------------------------------------------------------------------------
(* Places and ranks *)

Rank(places, k) == Cardinality({j \in places : j <= k})

\* Every set of numbers has a least one.
LEMMA Least ==
  ASSUME NEW S \in SUBSET Nat, S # {}
  PROVE  /\ First(S) \in S /\ \A j \in S : First(S) <= j
         /\ \A i \in S : (\A j \in S : i <= j) => First(S) = i
<1>1. PICK m \in S : \A y \in S : ~(<<y, m>> \in OpToRel(<, Nat))
  BY NatLessThanWellFounded, WFMin
<1>2. ASSUME NEW y \in S
      PROVE  ~(y < m)
  <2>1. ~(<<y, m>> \in OpToRel(<, Nat))
    BY <1>1
  <2>2. y \in Nat /\ m \in Nat
    OBVIOUS
  <2> QED
    BY <2>1, <2>2 DEF OpToRel
<1>3. m \in Nat /\ \A y \in S : y \in Nat /\ m <= y
  <2>1. \A y \in S : y \in Nat
    OBVIOUS
  <2> QED
    BY <1>2, <2>1
<1>4. \A x \in S : (\A j \in S : x <= j) => x = m
  BY <1>3
<1> QED
  BY <1>3, <1>4 DEF First

\* The rank of a place in a finite set numbers the places from 1 on, in their order.
LEMMA RankGrows ==
  ASSUME NEW P \in SUBSET Nat, IsFiniteSet(P), NEW k \in P, NEW l \in P, k < l
  PROVE  Rank(P, k) < Rank(P, l)
<1> DEFINE low == {j \in P : j <= k}
           high == {j \in P : j <= l}
<1>0. P \subseteq Nat /\ k \in Nat /\ l \in Nat
  OBVIOUS
<1>1. low \in SUBSET high /\ l \in high /\ l \notin low
  <2>1. \A j \in P : j <= k => j <= l
    BY <1>0
  <2>2. l <= l /\ ~(l <= k)
    BY <1>0
  <2> QED
    BY <2>1, <2>2
<1>2. IsFiniteSet(high)
  BY FS_Subset
<1>3. Cardinality(low) <= Cardinality(high) /\ Cardinality(low) # Cardinality(high)
  BY <1>1, <1>2, FS_Subset
<1>4. Cardinality(low) \in Nat /\ Cardinality(high) \in Nat
  BY <1>1, <1>2, FS_Subset, FS_CardinalityType
<1> QED
  BY <1>3, <1>4 DEF Rank

LEMMA RankIsBijection ==
  ASSUME NEW P \in SUBSET Nat, IsFiniteSet(P)
  PROVE  [k \in P |-> Rank(P, k)] \in Bijection(P, 1 .. Cardinality(P))
<1> DEFINE f == [k \in P |-> Rank(P, k)]
<1>1. Cardinality(P) \in Nat
  BY FS_CardinalityType
<1>2. ASSUME NEW k \in P
      PROVE  Rank(P, k) \in 1 .. Cardinality(P)
  <2> DEFINE low == {j \in P : j <= k}
  <2>1. IsFiniteSet(low) /\ Cardinality(low) <= Cardinality(P) /\ Cardinality(low) \in Nat
    BY FS_Subset, FS_CardinalityType
  <2>2. k \in low
    OBVIOUS
  <2>3. Cardinality(low) # 0
    BY <2>1, <2>2, FS_EmptySet
  <2> QED
    BY <1>1, <2>1, <2>3 DEF Rank
<1>3. f \in Injection(P, 1 .. Cardinality(P))
  <2>1. ASSUME NEW k \in P, NEW l \in P, k # l
        PROVE  f[k] # f[l]
    <3>1. Rank(P, k) \in Nat /\ Rank(P, l) \in Nat
      BY <1>2
    <3>2. CASE k < l
      BY <3>1, <3>2, RankGrows
    <3>3. CASE l < k
      BY <3>1, <3>3, RankGrows
    <3> QED
      BY <2>1, <3>2, <3>3
  <2> QED
    BY <1>2, <2>1 DEF Injection, IsInjective
<1>4. IsFiniteSet(1 .. Cardinality(P)) /\ Cardinality(1 .. Cardinality(P)) = Cardinality(P)
  BY <1>1, FS_Interval
<1>5. f \in Surjection(P, 1 .. Cardinality(P))
  BY <1>3, <1>4, FS_Injection
<1> QED
  BY <1>3, <1>5 DEF Bijection

\* The place of a rank, as Kept picks it.
PlaceOf(places, i) == CHOOSE k \in places : Rank(places, k) = i

LEMMA PlacesByRank ==
  ASSUME NEW P \in SUBSET Nat, IsFiniteSet(P)
  PROVE  /\ Cardinality(P) \in Nat
         /\ \A i \in 1 .. Cardinality(P) : PlaceOf(P, i) \in P /\ Rank(P, PlaceOf(P, i)) = i
         /\ \A k \in P : Rank(P, k) \in 1 .. Cardinality(P) /\ PlaceOf(P, Rank(P, k)) = k
<1> DEFINE f == [k \in P |-> Rank(P, k)]
<1>1. f \in Bijection(P, 1 .. Cardinality(P))
  BY RankIsBijection
<1>2. \A i \in 1 .. Cardinality(P) : \E k \in P : Rank(P, k) = i
  BY <1>1 DEF Bijection, Surjection
<1>3. \A k, l \in P : Rank(P, k) = Rank(P, l) => k = l
  BY <1>1 DEF Bijection, Injection, IsInjective
<1>4. \A k \in P : Rank(P, k) \in 1 .. Cardinality(P)
  BY <1>1 DEF Bijection, Surjection
<1>5. \A i \in 1 .. Cardinality(P) : PlaceOf(P, i) \in P /\ Rank(P, PlaceOf(P, i)) = i
  BY <1>2 DEF PlaceOf
<1> QED
  BY <1>3, <1>4, <1>5, FS_CardinalityType

LEMMA KeptByRank ==
  ASSUME NEW text, NEW P \in SUBSET Nat, IsFiniteSet(P)
  PROVE  /\ Kept(text, P) = [i \in 1 .. Cardinality(P) |-> text[PlaceOf(P, i)]]
         /\ Kept(text, P) \in Seq({text[k] : k \in P}) /\ Len(Kept(text, P)) = Cardinality(P)
         /\ \A k \in P : Kept(text, P)[Rank(P, k)] = text[k]
<1>1. Kept(text, P) = [i \in 1 .. Cardinality(P) |-> text[PlaceOf(P, i)]]
  BY DEF Kept, PlaceOf, Rank
<1>2. Kept(text, P) \in [1 .. Cardinality(P) -> {text[k] : k \in P}]
  BY <1>1, PlacesByRank
<1>3. Cardinality(P) \in Nat
  BY PlacesByRank
<1>4. Kept(text, P) \in Seq({text[k] : k \in P})
  BY <1>2, <1>3
<1>5. Len(Kept(text, P)) = Cardinality(P)
  BY <1>2, <1>3, <1>4
<1> QED
  BY <1>1, <1>4, <1>5, PlacesByRank

\* Two texts keep the same when their places correspond, in order and with the same characters.
LEMMA SameKept ==
  ASSUME NEW s, NEW t, NEW P \in SUBSET Nat, NEW Q \in SUBSET Nat,
         IsFiniteSet(P), IsFiniteSet(Q), NEW h \in Bijection(Q, P),
         \A a, b \in Q : a < b => h[a] < h[b],
         \A q \in Q : s[h[q]] = t[q]
  PROVE  Kept(s, P) = Kept(t, Q)
<1>1. Cardinality(P) = Cardinality(Q)
  <2>1. ExistsBijection(Q, P)
    BY DEF ExistsBijection
  <2> QED
    BY <2>1, FS_Bijection
<1>2. ASSUME NEW q \in Q
      PROVE  Rank(P, h[q]) = Rank(Q, q)
  <2> DEFINE low  == {j \in Q : j <= q}
             high == {j \in P : j <= h[q]}
             g    == [j \in low |-> h[j]]
  <2>1. \A a \in Q : h[a] \in P /\ h[a] \in Nat /\ a \in Nat
    BY DEF Bijection, Surjection
  <2>2. \A a \in Q : a <= q <=> h[a] <= h[q]
    BY <2>1
  <2>3. \A k \in P : \E a \in Q : h[a] = k
    BY DEF Bijection, Surjection
  <2>4. g \in [low -> high]
    BY <2>1, <2>2
  <2>5. \A a, b \in low : a # b => g[a] # g[b]
    BY DEF Bijection, Injection, IsInjective
  <2>6. \A k \in high : \E a \in low : g[a] = k
    BY <2>2, <2>3
  <2>7. g \in Bijection(low, high)
    BY <2>4, <2>5, <2>6 DEF Bijection, Injection, IsInjective, Surjection
  <2>8. IsFiniteSet(low)
    BY FS_Subset
  <2>9. ExistsBijection(low, high)
    BY <2>7 DEF ExistsBijection
  <2> QED
    BY <2>8, <2>9, FS_Bijection DEF Rank
<1>3. ASSUME NEW i \in 1 .. Cardinality(Q)
      PROVE  s[PlaceOf(P, i)] = t[PlaceOf(Q, i)]
  <2>1. PlaceOf(Q, i) \in Q /\ Rank(Q, PlaceOf(Q, i)) = i
    BY PlacesByRank
  <2>2. h[PlaceOf(Q, i)] \in P /\ Rank(P, h[PlaceOf(Q, i)]) = i
    BY <1>2, <2>1 DEF Bijection, Surjection
  <2> DEFINE k == h[PlaceOf(Q, i)]
  <2>3. PlaceOf(P, Rank(P, k)) = k
    <3> HIDE DEF k
    <3> QED
      BY <2>2, PlacesByRank DEF k
  <2>4. PlaceOf(P, i) = h[PlaceOf(Q, i)]
    BY <2>2, <2>3
  <2> QED
    BY <2>1, <2>4
<1>4. /\ Kept(s, P) = [i \in 1 .. Cardinality(P) |-> s[PlaceOf(P, i)]]
      /\ Kept(t, Q) = [i \in 1 .. Cardinality(Q) |-> t[PlaceOf(Q, i)]]
  BY KeptByRank
<1> QED
  BY <1>1, <1>3, <1>4

-----------------------------------------------------------------------------
(* The stages of normalize *)

Characters == Range(Alphabet)
Texts      == Seq(Characters)
KeyTexts   == Seq(Uppers \cup Numerals)

LEMMA TheCharacters == Characters = {" ", ".", "/", "1", "A", "M", "a", "m"}
<1>1. DOMAIN Alphabet = 1 .. 8
  BY DEF Alphabet
<1>2. Characters = {Alphabet[i] : i \in 1 .. 8}
  BY <1>1 DEF Characters, Range
<1>3. 1 .. 8 = {1, 2, 3, 4, 5, 6, 7, 8}
  OBVIOUS
<1>4. /\ Alphabet[1] = " " /\ Alphabet[2] = "." /\ Alphabet[3] = "/" /\ Alphabet[4] = "1"
      /\ Alphabet[5] = "A" /\ Alphabet[6] = "M" /\ Alphabet[7] = "a" /\ Alphabet[8] = "m"
  BY DEF Alphabet
<1>5. \A i \in 1 .. 8 : Alphabet[i] \in {" ", ".", "/", "1", "A", "M", "a", "m"}
  BY <1>3, <1>4
<1>6. {" ", ".", "/", "1", "A", "M", "a", "m"} \subseteq Characters
  BY <1>2, <1>3, <1>4
<1> QED
  BY <1>2, <1>5, <1>6

LEMMA PlacesOfCharacters ==
  ASSUME NEW S, NEW text \in Seq(S), NEW chars
  PROVE  /\ At(text, chars) \in SUBSET Nat /\ IsFiniteSet(At(text, chars))
         /\ At(text, chars) = {i \in 1 .. Len(text) : text[i] \in chars}
         /\ DOMAIN text = 1 .. Len(text) /\ DOMAIN text \in SUBSET Nat /\ IsFiniteSet(DOMAIN text)
<1>1. At(text, chars) = {i \in 1 .. Len(text) : text[i] \in chars}
  BY DEF At
<1>2. IsFiniteSet(1 .. Len(text))
  BY FS_Interval
<1> QED
  BY <1>1, <1>2, FS_Subset

\* Two texts whose digits correspond, in order, have the same digits.
LEMMA SameDigits ==
  ASSUME NEW S, NEW T, NEW s \in Seq(S), NEW t \in Seq(T),
         NEW h \in Bijection(At(t, Numerals), At(s, Numerals)),
         \A a, b \in At(t, Numerals) : a < b => h[a] < h[b],
         \A q \in At(t, Numerals) : s[h[q]] = t[q]
  PROVE  Digits(t) = Digits(s)
<1>1. /\ At(s, Numerals) \in SUBSET Nat /\ IsFiniteSet(At(s, Numerals))
      /\ At(t, Numerals) \in SUBSET Nat /\ IsFiniteSet(At(t, Numerals))
  BY PlacesOfCharacters
<1> QED
  BY <1>1, SameKept DEF Digits

\* Places that hold every digit keep the digits.
LEMMA KeptDigits ==
  ASSUME NEW S, NEW text \in Seq(S), NEW P \in SUBSET DOMAIN text, At(text, Numerals) \subseteq P
  PROVE  Kept(text, P) \in Seq(S) /\ Digits(Kept(text, P)) = Digits(text)
<1> DEFINE kept == Kept(text, P)
           Q == At(kept, Numerals)
           R == At(text, Numerals)
           h == [q \in Q |-> PlaceOf(P, q)]
<1>1. P \in SUBSET Nat /\ IsFiniteSet(P) /\ \A k \in P : text[k] \in S
  <2>1. DOMAIN text \in SUBSET Nat /\ IsFiniteSet(DOMAIN text)
    BY PlacesOfCharacters
  <2> QED
    BY <2>1, FS_Subset
<1>2. kept \in Seq({text[k] : k \in P}) /\ Len(kept) = Cardinality(P)
  BY <1>1, KeptByRank
<1>3. kept \in Seq(S)
  BY <1>1, <1>2
<1>4. Q = {i \in 1 .. Cardinality(P) : kept[i] \in Numerals}
  <2>1. Q = {i \in 1 .. Len(kept) : kept[i] \in Numerals}
    BY <1>3, PlacesOfCharacters
  <2> QED
    BY <1>2, <2>1
<1>5. \A i \in 1 .. Cardinality(P) :
        PlaceOf(P, i) \in P /\ Rank(P, PlaceOf(P, i)) = i /\ kept[i] = text[PlaceOf(P, i)]
  <2>1. kept = [i \in 1 .. Cardinality(P) |-> text[PlaceOf(P, i)]]
    BY <1>1, KeptByRank
  <2> QED
    BY <1>1, <2>1, PlacesByRank
<1>6. \A k \in P : Rank(P, k) \in 1 .. Cardinality(P) /\ PlaceOf(P, Rank(P, k)) = k
  BY <1>1, PlacesByRank
<1>7. R = {k \in P : text[k] \in Numerals}
  BY DEF At
<1> HIDE DEF kept, Q, R
<1>8. \A q \in Q : q \in 1 .. Cardinality(P) /\ PlaceOf(P, q) \in R /\ text[PlaceOf(P, q)] = kept[q]
  BY <1>4, <1>5, <1>7
<1>9. ASSUME NEW a \in Q, NEW b \in Q, a < b
      PROVE  PlaceOf(P, a) < PlaceOf(P, b)
  <2> DEFINE k == PlaceOf(P, a)
             l == PlaceOf(P, b)
  <2>1. k \in P /\ l \in P /\ Rank(P, k) = a /\ Rank(P, l) = b
    BY <1>5, <1>8
  <2> HIDE DEF k, l
  <2>2. k \in Nat /\ l \in Nat /\ a \in Int /\ b \in Int
    BY <1>1, <1>8, <2>1, PlacesByRank
  <2>3. l < k => b < a
    BY <1>1, <2>1, RankGrows
  <2>4. k # l
    BY <1>9, <2>1, <2>2
  <2>5. k < l
    BY <1>9, <2>2, <2>3, <2>4
  <2> QED
    BY <2>5 DEF k, l
<1>10. h \in Bijection(Q, R)
  <2>1. h \in [Q -> R]
    BY <1>8
  <2>2. \A a, b \in Q : h[a] = h[b] => a = b
    BY <1>5, <1>8
  <2>3. ASSUME NEW k \in R
        PROVE  \E q \in Q : h[q] = k
    <3>1. k \in P /\ text[k] \in Numerals
      BY <1>7
    <3>2. Rank(P, k) \in Q /\ PlaceOf(P, Rank(P, k)) = k
      BY <1>4, <1>5, <1>6, <3>1
    <3> QED
      BY <3>2
  <2> QED
    BY <2>1, <2>2, <2>3 DEF Bijection, Injection, IsInjective, Surjection
<1>11. Digits(kept) = Digits(text)
  BY <1>3, <1>8, <1>9, <1>10, SameDigits DEF Q, R
<1> QED
  BY <1>3, <1>11 DEF kept

\* Leaving out characters that are no digits, some places excepted.
LEMMA CutDigits ==
  ASSUME NEW text \in Texts, NEW more \in SUBSET DOMAIN text, NEW chars, chars \cap Numerals = {}
  PROVE  /\ Kept(text, (DOMAIN text \ At(text, chars)) \cup more) \in Texts
         /\ Digits(Kept(text, (DOMAIN text \ At(text, chars)) \cup more)) = Digits(text)
<1> DEFINE P == (DOMAIN text \ At(text, chars)) \cup more
<1>1. P \in SUBSET DOMAIN text /\ At(text, Numerals) \subseteq P
  BY DEF At
<1> HIDE DEF P
<1>2. Kept(text, P) \in Texts /\ Digits(Kept(text, P)) = Digits(text)
  BY <1>1, KeptDigits DEF Texts
<1> QED
  BY <1>2 DEF P

LEMMA CollapsedDigits ==
  ASSUME NEW raw \in Texts
  PROVE  Collapsed(raw) \in Texts /\ Digits(Collapsed(raw)) = Digits(raw)
<1>1. Joined(raw) \in Texts /\ Digits(Joined(raw)) = Digits(raw)
  <2>1. {"/"} \cap Numerals = {} /\ {} \in SUBSET DOMAIN raw
    BY DEF Numerals
  <2>2. /\ Kept(raw, (DOMAIN raw \ At(raw, {"/"})) \cup {}) \in Texts
        /\ Digits(Kept(raw, (DOMAIN raw \ At(raw, {"/"})) \cup {})) = Digits(raw)
    BY <2>1, CutDigits
  <2>3. Joined(raw) = Kept(raw, (DOMAIN raw \ At(raw, {"/"})) \cup {})
    BY DEF Joined
  <2> QED
    BY <2>2, <2>3
<1> DEFINE text == Joined(raw)
           inside == {i \in At(text, {" "}) : /\ i > 1 /\ text[i - 1] # " "
                                              /\ \E j \in i .. Len(text) : text[j] # " "}
<1>2. Collapsed(raw) = Kept(text, (DOMAIN text \ At(text, {" "})) \cup inside)
  BY DEF Collapsed
<1>3. inside \in SUBSET DOMAIN text /\ {" "} \cap Numerals = {}
  BY DEF At, Numerals
<1> HIDE DEF text, inside
<1>4. text \in Texts /\ Digits(text) = Digits(raw)
  BY <1>1 DEF text
<1>5. /\ Kept(text, (DOMAIN text \ At(text, {" "})) \cup inside) \in Texts
      /\ Digits(Kept(text, (DOMAIN text \ At(text, {" "})) \cup inside)) = Digits(text)
  BY <1>3, <1>4, CutDigits
<1> QED
  BY <1>2, <1>4, <1>5

\* A text without its end has the same digits, if there were none in its end.
LEMMA HeadDigits ==
  ASSUME NEW text \in Texts, NEW n \in 0 .. Len(text),
         \A i \in n + 1 .. Len(text) : text[i] \notin Numerals
  PROVE  SubSeq(text, 1, n) \in Texts /\ Digits(SubSeq(text, 1, n)) = Digits(text)
<1> DEFINE head == SubSeq(text, 1, n)
           Q == At(head, Numerals)
           h == [q \in Q |-> q]
<1>1. head \in Texts /\ Len(head) = n /\ \A i \in 1 .. n : head[i] = text[i]
  BY DEF Texts
<1>2. Q = {i \in 1 .. n : text[i] \in Numerals}
  BY <1>1 DEF At, Texts
<1>3. At(text, Numerals) = {i \in 1 .. Len(text) : text[i] \in Numerals}
  BY DEF At, Texts
<1>4. \A i \in 1 .. Len(text) : text[i] \in Numerals => i \in 1 .. n
  OBVIOUS
<1>5. At(text, Numerals) = Q
  BY <1>2, <1>3, <1>4
<1> HIDE DEF head, Q
<1>6. h \in Bijection(Q, At(text, Numerals))
  BY <1>5 DEF Bijection, Injection, IsInjective, Surjection
<1>7. \A q \in Q : text[h[q]] = head[q]
  BY <1>1, <1>2
<1>8. Digits(head) = Digits(text)
  BY <1>1, <1>6, <1>7, SameDigits DEF Q, Texts
<1> QED
  BY <1>1, <1>8 DEF head

\* What stands before the first letter or digit holds no digit.
LEMMA LeadingDigits ==
  ASSUME NEW text \in Texts
  PROVE  StripLeading(text) \in Texts /\ Digits(StripLeading(text)) = Digits(text)
<1> DEFINE places == At(text, Alnum)
           f == First(places)
<1>1. places \in SUBSET Nat /\ places = {i \in 1 .. Len(text) : text[i] \in Alnum}
  BY PlacesOfCharacters DEF Texts
<1>2. CASE places = {}
  <2>1. SubSeq(text, 1, 0) \in Texts /\ Digits(SubSeq(text, 1, 0)) = Digits(text)
    <3>1. \A i \in 0 + 1 .. Len(text) : text[i] \notin Numerals
      <4>1. \A i \in 1 .. Len(text) : text[i] \notin Numerals
        BY <1>1, <1>2 DEF Alnum
      <4> QED
        BY <4>1
    <3>2. 0 \in 0 .. Len(text)
      BY DEF Texts
    <3> QED
      BY <3>1, <3>2, HeadDigits
  <2>2. SubSeq(text, 1, 0) = <<>>
    BY DEF Texts
  <2>3. StripLeading(text) = <<>>
    BY <1>2 DEF StripLeading, First
  <2> QED
    BY <2>1, <2>2, <2>3
<1>3. CASE places # {}
  <2>1. f \in places /\ \A j \in places : f <= j
    BY <1>1, <1>3, Least
  <2> HIDE DEF f
  <2>2. f \in 1 .. Len(text) /\ StripLeading(text) = SubSeq(text, f, Len(text))
    <3>1. f \in 1 .. Len(text)
      BY <1>1, <2>1
    <3>2. f # 0
      BY <3>1
    <3> QED
      BY <3>1, <3>2 DEF StripLeading, f
  <2> DEFINE rest == SubSeq(text, f, Len(text))
             Q == At(rest, Numerals)
             h == [q \in Q |-> q + f - 1]
  <2>3. /\ rest \in Texts /\ Len(rest) = Len(text) - f + 1
        /\ \A i \in 1 .. Len(text) - f + 1 : rest[i] = text[i + f - 1]
    BY <2>2 DEF Texts
  <2>4. Q = {i \in 1 .. Len(text) - f + 1 : text[i + f - 1] \in Numerals}
    BY <2>3 DEF At, Texts
  <2>5. At(text, Numerals) = {i \in 1 .. Len(text) : text[i] \in Numerals}
    BY DEF At, Texts
  <2>6. \A i \in At(text, Numerals) : i \in Nat /\ f <= i
    BY <1>1, <2>1, <2>5 DEF Alnum
  <2> HIDE DEF rest, Q
  <2>7. Len(text) \in Nat /\ f \in Nat
    BY <2>2 DEF Texts
  <2>8. h \in Bijection(Q, At(text, Numerals))
    <3>1. h \in [Q -> At(text, Numerals)]
      <4>1. \A i \in Int : i \in 1 .. Len(text) - f + 1 => i + f - 1 \in 1 .. Len(text)
        BY <2>2, <2>7
      <4>2. \A q \in Q : q + f - 1 \in At(text, Numerals)
        BY <2>4, <2>5, <4>1
      <4> QED
        BY <4>2
    <3>2. \A a, b \in Q : h[a] = h[b] => a = b
      BY <2>4, <2>7
    <3>3. ASSUME NEW k \in At(text, Numerals)
          PROVE  \E q \in Q : h[q] = k
      <4>1. k - f + 1 \in 1 .. Len(text) - f + 1 /\ (k - f + 1) + f - 1 = k
        <5>1. k \in Nat /\ k <= Len(text) /\ f <= k
          BY <2>5, <2>6, <2>7
        <5> QED
          BY <2>7, <5>1
      <4>2. k - f + 1 \in Q
        BY <2>4, <2>5, <4>1
      <4> QED
        BY <4>1, <4>2
    <3> QED
      BY <3>1, <3>2, <3>3 DEF Bijection, Injection, IsInjective, Surjection
  <2>9. \A a, b \in Q : a < b => h[a] < h[b]
    BY <2>4, <2>7
  <2>10. \A q \in Q : text[h[q]] = rest[q]
    BY <2>3, <2>4
  <2>11. Digits(rest) = Digits(text)
    BY <2>3, <2>8, <2>9, <2>10, SameDigits DEF Q, Texts
  <2> QED
    BY <2>2, <2>3, <2>11 DEF rest
<1> QED
  BY <1>2, <1>3

\* A decoration behind a separator holds no digit.
LEMMA SeparatorDigits ==
  ASSUME NEW text \in Texts
  PROVE  StripSeparator(text) \in Texts /\ Digits(StripSeparator(text)) = Digits(text)
<1> DEFINE places == At(text, Separator)
           cut == First(places)
           tail == SubSeq(text, cut + 1, Len(text))
<1>1. places \in SUBSET Nat /\ places = {i \in 1 .. Len(text) : text[i] \in Separator}
  BY PlacesOfCharacters DEF Texts
<1>2. CASE cut # 0 /\ IsDecoration(tail) /\ StripSeparator(text) = SubSeq(text, 1, cut - 1)
  <2>1. cut \in places
    BY <1>1, <1>2, Least DEF First
  <2>2. cut \in 1 .. Len(text) /\ text[cut] \in Separator
    BY <1>1, <2>1
  <2> HIDE DEF cut, places
  <2>3. \A i \in 1 .. Len(text) - cut : tail[i] \notin Numerals
    <3>1. tail \in Texts /\ Len(tail) = Len(text) - cut
      BY <2>2 DEF Texts
    <3>2. DOMAIN tail = 1 .. Len(text) - cut
      BY <3>1 DEF Texts
    <3> QED
      BY <1>2, <3>2 DEF IsDecoration, Range
  <2>4. \A i \in 1 .. Len(text) - cut : tail[i] = text[i + cut]
    BY <2>2 DEF Texts
  <2>5. ASSUME NEW i \in (cut - 1) + 1 .. Len(text)
        PROVE  text[i] \notin Numerals
    <3>1. CASE i = cut
      BY <2>2, <3>1 DEF Separator, Numerals
    <3>2. CASE i # cut
      <4>1. i - cut \in 1 .. Len(text) - cut /\ (i - cut) + cut = i
        BY <2>2, <3>2 DEF Texts
      <4> QED
        BY <2>3, <2>4, <4>1
    <3> QED
      BY <3>1, <3>2
  <2>6. cut - 1 \in 0 .. Len(text)
    BY <2>2 DEF Texts
  <2> QED
    BY <1>2, <2>5, <2>6, HeadDigits
<1>3. CASE StripSeparator(text) = text
  BY <1>3
<1> QED
  BY <1>2, <1>3 DEF StripSeparator

LEMMA SuffixCharacters ==
  ASSUME NEW suffix \in Texts, NEW text \in Texts, IsSuffix(suffix, text)
  PROVE  /\ Len(suffix) <= Len(text)
         /\ \A i \in 1 .. Len(suffix) : text[Len(text) - Len(suffix) + i] = suffix[i]
<1> DEFINE m == Len(suffix)
           n == Len(text)
           back  == [i \in 1 .. m |-> suffix[(m - i) + 1]]
           front == [i \in 1 .. n |-> text[(n - i) + 1]]
<1>1. m \in Nat /\ n \in Nat
  BY DEF Texts
<1>2. back \in Seq(Characters) /\ Len(back) = m /\ front \in Seq(Characters) /\ Len(front) = n
  <2>1. back \in [1 .. m -> Characters] /\ front \in [1 .. n -> Characters]
    BY <1>1 DEF Texts
  <2> QED
    BY <1>1, <2>1
<1>3. IsPrefix(back, front)
  BY DEF IsSuffix, Reverse
<1> HIDE DEF back, front
<1>4. m <= n /\ SubSeq(back, 1, m) = SubSeq(front, 1, m)
  BY <1>2, <1>3 DEF IsPrefix
<1>5. ASSUME NEW i \in 1 .. m
      PROVE  text[n - m + i] = suffix[i]
  <2> DEFINE k == m - i + 1
  <2>1. k \in 1 .. m /\ k \in 1 .. n
    BY <1>1, <1>4
  <2>2. back[k] = front[k]
    <3>1. SubSeq(back, 1, m)[k] = back[k] /\ SubSeq(front, 1, m)[k] = front[k]
      BY <1>1, <1>2, <1>4, <2>1
    <3> QED
      BY <1>4, <3>1
  <2>3. back[k] = suffix[(m - k) + 1] /\ front[k] = text[(n - k) + 1]
    BY <2>1 DEF back, front
  <2>4. (m - k) + 1 = i /\ (n - k) + 1 = n - m + i
    BY <1>1
  <2> QED
    BY <2>2, <2>3, <2>4
<1> QED
  BY <1>4, <1>5

LEMMA TheSuffixes ==
  \A k \in DOMAIN SuffixList :
    /\ SuffixList[k] \in Texts
    /\ Range(SuffixList[k]) \cap Lowers # {} /\ Range(SuffixList[k]) \cap Numerals = {}
<1>1. \A k \in DOMAIN SuffixList : SuffixList[k] \in Seq(Range(Alphabet))
  BY NamesAssumption
<1> QED
  BY <1>1, NamesAssumption DEF Texts, Characters

\* A suffix that is cut holds no digit.
LEMMA SuffixDigits ==
  ASSUME NEW text \in Texts
  PROVE  StripSuffix(text) \in Texts /\ Digits(StripSuffix(text)) = Digits(text)
<1> DEFINE Stem(suffix) == SubSeq(text, 1, Len(text) - Len(suffix))
           cuts == {k \in DOMAIN SuffixList :
                      /\ IsSuffix(SuffixList[k], text) /\ Len(Stem(SuffixList[k])) >= MinLength
                      /\ text[Len(Stem(SuffixList[k]))] \in Uppers \cup Numerals}
           i == First(cuts)
<1>1. cuts \in SUBSET Nat
  BY NamesAssumption
<1>2. StripSuffix(text) = IF i = 0 THEN text ELSE Stem(SuffixList[i])
  BY DEF StripSuffix
<1>3. CASE i # 0
  <2>1. i \in cuts
    BY <1>1, <1>3, Least DEF First
  <2> DEFINE suffix == SuffixList[i]
  <2>2. suffix \in Texts /\ IsSuffix(suffix, text) /\ Range(suffix) \cap Numerals = {}
    BY <2>1, TheSuffixes
  <2> HIDE DEF i, cuts, suffix
  <2>3. /\ Len(suffix) <= Len(text) /\ Len(suffix) \in Nat /\ Len(text) \in Nat
        /\ \A j \in 1 .. Len(suffix) : text[Len(text) - Len(suffix) + j] = suffix[j]
    BY <2>2, SuffixCharacters DEF Texts
  <2>4. \A j \in 1 .. Len(suffix) : suffix[j] \notin Numerals
    BY <2>2 DEF Range, Texts
  <2> DEFINE n == Len(text) - Len(suffix)
  <2>5. ASSUME NEW k \in n + 1 .. Len(text)
        PROVE  text[k] \notin Numerals
    <3>1. k - n \in 1 .. Len(suffix) /\ n + (k - n) = k
      BY <2>3
    <3> QED
      BY <2>3, <2>4, <3>1
  <2>6. n \in 0 .. Len(text)
    BY <2>3
  <2>7. SubSeq(text, 1, n) \in Texts /\ Digits(SubSeq(text, 1, n)) = Digits(text)
    BY <2>5, <2>6, HeadDigits
  <2>8. StripSuffix(text) = SubSeq(text, 1, n)
    BY <1>2, <1>3 DEF suffix
  <2> QED
    BY <2>7, <2>8
<1> QED
  BY <1>2, <1>3

\* compact leaves capital letters and digits, and every digit.
LEMMA CompactDigits ==
  ASSUME NEW text \in Texts
  PROVE  Compact(text) \in KeyTexts /\ Digits(Compact(text)) = Digits(text)
<1> DEFINE kept == KeptCase(text)
           out == Compact(text)
           P == At(text, Alnum)
           Q == At(out, Numerals)
           h == [q \in Q |-> q]
<1>1. P \in SUBSET DOMAIN text /\ At(text, Numerals) \subseteq P
  BY DEF At, Alnum
<1>2. Digits(kept) = Digits(text)
  BY <1>1, KeptDigits DEF KeptCase, Texts
<1>3. kept \in Seq(Alnum)
  <2>1. P \in SUBSET Nat /\ IsFiniteSet(P) /\ {text[k] : k \in P} \subseteq Alnum
    BY PlacesOfCharacters DEF At, Texts
  <2>2. kept \in Seq({text[k] : k \in P})
    BY <2>1, KeptByRank DEF KeptCase
  <2> QED
    BY <2>1, <2>2
<1>4. \A c \in Alnum : Upper(c) \in Uppers \cup Numerals /\ (Upper(c) \in Numerals <=> c \in Numerals)
  BY DEF Alnum, Upper, Uppers, Lowers, Numerals
<1>5. \A c \in Numerals : Upper(c) = c
  BY DEF Upper, Numerals
<1> HIDE DEF kept
<1>6. out = [i \in 1 .. Len(kept) |-> Upper(kept[i])] /\ Len(kept) \in Nat
      /\ \A i \in 1 .. Len(kept) : kept[i] \in Alnum
  BY <1>3 DEF Compact, kept
<1>7. out \in KeyTexts /\ Len(out) = Len(kept)
  <2>1. out \in [1 .. Len(kept) -> Uppers \cup Numerals]
    BY <1>4, <1>6
  <2> QED
    BY <1>6, <2>1 DEF KeyTexts
<1> HIDE DEF out
<1>8. Q = {i \in 1 .. Len(kept) : out[i] \in Numerals}
  BY <1>7 DEF At, KeyTexts
<1>9. At(kept, Numerals) = {i \in 1 .. Len(kept) : kept[i] \in Numerals}
  BY <1>3 DEF At
<1>10. \A i \in 1 .. Len(kept) : out[i] \in Numerals <=> kept[i] \in Numerals
  BY <1>4, <1>6
<1>11. Q = At(kept, Numerals)
  BY <1>8, <1>9, <1>10
<1> HIDE DEF Q
<1>12. h \in Bijection(Q, At(kept, Numerals))
  BY <1>11 DEF Bijection, Injection, IsInjective, Surjection
<1>13. \A q \in Q : kept[h[q]] = out[q]
  BY <1>5, <1>6, <1>9, <1>11
<1>14. Digits(out) = Digits(kept)
  BY <1>3, <1>7, <1>12, <1>13, SameDigits DEF Q, KeyTexts
<1> QED
  BY <1>2, <1>7, <1>14 DEF out

\* A key consists of capital letters and digits, and has the digits of what it was made from.
LEMMA NormalizedDigits ==
  ASSUME NEW raw \in Texts
  PROVE  Normalize(raw) \in KeyTexts /\ Digits(Normalize(raw)) = Digits(raw)
<1> DEFINE a == Collapsed(raw)
           b == StripLeading(a)
           c == StripSeparator(b)
           d == StripSuffix(c)
<1>1. a \in Texts /\ Digits(a) = Digits(raw)
  BY CollapsedDigits
<1>2. b \in Texts /\ Digits(b) = Digits(raw)
  BY <1>1, LeadingDigits
<1>3. c \in Texts /\ Digits(c) = Digits(raw)
  BY <1>2, SeparatorDigits
<1>4. d \in Texts /\ Digits(d) = Digits(raw)
  BY <1>3, SuffixDigits
<1> HIDE DEF d
<1>5. Compact(d) \in KeyTexts /\ Digits(Compact(d)) = Digits(raw)
  BY <1>4, CompactDigits
<1> QED
  BY <1>5 DEF Normalize, d

-----------------------------------------------------------------------------
(* A key is its own key *)

\* Keeping every place keeps the text.
LEMMA KeepAll ==
  ASSUME NEW S, NEW text \in Seq(S)
  PROVE  Kept(text, DOMAIN text) = text
<1> DEFINE n == Len(text)
           P == 1 .. n
<1>1. n \in Nat /\ DOMAIN text = P /\ text = [i \in P |-> text[i]]
  OBVIOUS
<1> HIDE DEF n
<1>0. ASSUME NEW m \in Nat
      PROVE  IsFiniteSet(1 .. m) /\ Cardinality(1 .. m) = m
  <2>1. IsFiniteSet(1 .. m) /\ Cardinality(1 .. m) = IF 1 > m THEN 0 ELSE m - 1 + 1
    BY FS_Interval
  <2> QED
    BY <2>1
<1>2. P \in SUBSET Nat /\ IsFiniteSet(P) /\ Cardinality(P) = n
  BY <1>0, <1>1
<1>3. ASSUME NEW i \in P
      PROVE  PlaceOf(P, i) = i
  <2>1. {j \in P : j <= i} = 1 .. i
    BY <1>1
  <2>2. Cardinality(1 .. i) = i
    BY <1>0, <1>1
  <2>3. Rank(P, i) = i
    BY <2>1, <2>2 DEF Rank
  <2> HIDE DEF P
  <2>4. PlaceOf(P, Rank(P, i)) = i
    BY <1>2, PlacesByRank
  <2> QED
    BY <2>3, <2>4
<1>4. Kept(text, P) = [i \in 1 .. Cardinality(P) |-> text[PlaceOf(P, i)]]
  <2> HIDE DEF P
  <2> QED
    BY <1>2, KeptByRank
<1> QED
  BY <1>1, <1>2, <1>3, <1>4

LEMMA KeyIsNormal ==
  ASSUME NEW key \in KeyTexts, key # <<>>
  PROVE  Normalize(key) = key
<1> DEFINE n == Len(key)
<1>1. n \in Nat \ {0} /\ DOMAIN key = 1 .. n /\ \A i \in 1 .. n : key[i] \in Uppers \cup Numerals
  BY DEF KeyTexts
<1>2. Kept(key, DOMAIN key) = key
  BY KeepAll DEF KeyTexts
<1>3. /\ At(key, {"/"}) = {} /\ At(key, {" "}) = {} /\ At(key, Separator) = {}
      /\ At(key, Alnum) = DOMAIN key
  BY <1>1 DEF At, Uppers, Numerals, Lowers, Separator, Alnum
<1>4. Collapsed(key) = key
  <2>1. Joined(key) = key
    BY <1>2, <1>3 DEF Joined
  <2> QED
    BY <1>2, <1>3, <2>1 DEF Collapsed
<1>5. StripLeading(key) = key
  <2>1. First(At(key, Alnum)) = 1
    <3>1. \A m \in Nat \ {0} : 1 .. m \in SUBSET Nat /\ 1 \in 1 .. m /\ \A j \in 1 .. m : 1 <= j
      OBVIOUS
    <3>2. \A m \in Nat \ {0} : First(1 .. m) = 1
      <4> TAKE m \in Nat \ {0}
      <4> DEFINE S == 1 .. m
      <4>1. S \in SUBSET Nat /\ 1 \in S /\ \A j \in S : 1 <= j
        BY <3>1
      <4> HIDE DEF S
      <4>2. First(S) = 1
        BY <4>1, Least
      <4> QED
        BY <4>2 DEF S
    <3> QED
      BY <1>1, <1>3, <3>2
  <2>2. SubSeq(key, 1, Len(key)) = key
    BY DEF KeyTexts
  <2> QED
    BY <2>1, <2>2 DEF StripLeading
<1>6. StripSeparator(key) = key
  BY <1>3 DEF StripSeparator, First
<1>7. StripSuffix(key) = key
  <2>1. key \in Texts
    <3>1. Uppers \cup Numerals \subseteq Characters
      BY TheCharacters DEF Uppers, Numerals
    <3> QED
      BY <3>1 DEF KeyTexts, Texts
  <2>2. ASSUME NEW k \in DOMAIN SuffixList
        PROVE  ~IsSuffix(SuffixList[k], key)
    <3> DEFINE suffix == SuffixList[k]
    <3>1. suffix \in Texts /\ Range(suffix) \cap Lowers # {}
      BY TheSuffixes
    <3> HIDE DEF suffix
    <3>2. PICK j \in 1 .. Len(suffix) : suffix[j] \in Lowers
      BY <3>1 DEF Range, Texts
    <3>3. ASSUME IsSuffix(suffix, key)
          PROVE  FALSE
      <4>1. Len(suffix) <= n /\ key[n - Len(suffix) + j] = suffix[j]
        BY <2>1, <3>1, <3>2, <3>3, SuffixCharacters
      <4>2. n - Len(suffix) + j \in 1 .. n
        BY <1>1, <3>1, <4>1 DEF Texts
      <4>3. suffix[j] \in Uppers \cup Numerals
        BY <1>1, <4>1, <4>2
      <4> QED
        BY <3>2, <4>3 DEF Lowers, Uppers, Numerals
    <3> QED
      BY <3>3 DEF suffix
  <2> QED
    BY <2>2 DEF StripSuffix, First
<1>8. Compact(key) = key
  <2>1. KeptCase(key) = key
    BY <1>2, <1>3 DEF KeptCase
  <2>2. \A c \in Uppers \cup Numerals : Upper(c) = c
    BY DEF Upper, Uppers, Numerals
  <2>3. key = [i \in 1 .. n |-> key[i]]
    BY DEF KeyTexts
  <2> QED
    BY <1>1, <2>1, <2>2, <2>3 DEF Compact
<1> QED
  BY <1>4, <1>5, <1>6, <1>7, <1>8 DEF Normalize

-----------------------------------------------------------------------------
(* The order of the names *)

LEMMA PlacesDiffer ==
  \A c, d \in Characters : Place(c) \in Nat /\ (Place(c) = Place(d) => c = d)
<1>1. DOMAIN Alphabet \subseteq Nat
  BY DEF Alphabet
<1>2. \A c \in Characters : Place(c) \in DOMAIN Alphabet /\ Alphabet[Place(c)] = c
  BY DEF Characters, Range, Place
<1> QED
  BY <1>1, <1>2

LEMMA LessIsOrder ==
  /\ \A a \in Texts : ~Less(a, a)
  /\ \A a, b, c \in Texts : Less(a, b) /\ Less(b, c) => Less(a, c)
  /\ \A a, b \in Texts : Len(a) = Len(b) /\ a # b => Less(a, b) \/ Less(b, a)
<1> USE DEF Texts
<1>1. \A a \in Texts : \A i \in 1 .. Len(a) : Place(a[i]) \in Nat
  BY PlacesDiffer
<1>2. ASSUME NEW a \in Texts
      PROVE  ~Less(a, a)
  <2>1. \A i \in 1 .. Len(a) : i # Len(a) + 1 /\ ~(Place(a[i]) < Place(a[i]))
    BY <1>1
  <2> QED
    BY <2>1 DEF Less
<1>3. ASSUME NEW a \in Texts, NEW b \in Texts, NEW c \in Texts, Less(a, b), Less(b, c)
      PROVE  Less(a, c)
  <2>1. PICK i \in 1 .. Len(b) :
          /\ \A j \in 1 .. i - 1 : j <= Len(a) /\ a[j] = b[j]
          /\ i = Len(a) + 1 \/ (i <= Len(a) /\ Place(a[i]) < Place(b[i]))
    BY <1>3 DEF Less
  <2>2. PICK k \in 1 .. Len(c) :
          /\ \A j \in 1 .. k - 1 : j <= Len(b) /\ b[j] = c[j]
          /\ k = Len(b) + 1 \/ (k <= Len(b) /\ Place(b[k]) < Place(c[k]))
    BY <1>3 DEF Less
  <2>3. Len(a) \in Nat /\ Len(b) \in Nat /\ Len(c) \in Nat /\ i \in Nat /\ k \in Nat
    OBVIOUS
  <2>4. CASE i < k
    <3>1. i \in 1 .. Len(c) /\ b[i] = c[i]
      BY <2>2, <2>3, <2>4
    <3>2. \A j \in 1 .. i - 1 : j <= Len(a) /\ a[j] = c[j]
      BY <2>1, <2>2, <2>3, <2>4
    <3> QED
      BY <2>1, <3>1, <3>2 DEF Less
  <2>5. CASE k < i
    <3>1. k <= Len(a) /\ a[k] = b[k] /\ Place(a[k]) < Place(c[k])
      BY <2>1, <2>2, <2>3, <2>5
    <3>2. \A j \in 1 .. k - 1 : j <= Len(a) /\ a[j] = c[j]
      BY <2>1, <2>2, <2>3, <2>5
    <3> QED
      BY <3>1, <3>2 DEF Less
  <2>6. CASE i = k
    <3>1. k <= Len(b) /\ Place(b[k]) < Place(c[k])
      BY <2>1, <2>2, <2>3, <2>6
    <3>2. \A j \in 1 .. k - 1 : j <= Len(a) /\ a[j] = c[j]
      BY <2>1, <2>2, <2>3, <2>6
    <3>3. k = Len(a) + 1 \/ (k <= Len(a) /\ Place(a[k]) < Place(c[k]))
      <4>1. CASE k <= Len(a) /\ Place(a[k]) < Place(b[k])
        <5>1. Place(a[k]) \in Nat /\ Place(b[k]) \in Nat /\ Place(c[k]) \in Nat
          BY <1>1, <2>3, <3>1, <4>1
        <5> QED
          BY <3>1, <4>1, <5>1
      <4> QED
        BY <2>1, <2>6, <4>1
    <3> QED
      BY <3>2, <3>3 DEF Less
  <2> QED
    BY <2>3, <2>4, <2>5, <2>6
<1>4. ASSUME NEW a \in Texts, NEW b \in Texts, Len(a) = Len(b), a # b
      PROVE  Less(a, b) \/ Less(b, a)
  <2> DEFINE apart == {i \in 1 .. Len(a) : a[i] # b[i]}
             i == First(apart)
  <2>1. apart # {}
    BY <1>4
  <2>8. apart \in SUBSET Nat
    OBVIOUS
  <2>2. i \in apart /\ \A j \in apart : i <= j
    <3> HIDE DEF apart
    <3> QED
      BY <2>1, <2>8, Least
  <2> HIDE DEF i
  <2>3. i \in 1 .. Len(a) /\ a[i] # b[i]
    BY <2>2
  <2>4. \A j \in 1 .. i - 1 : j <= Len(a) /\ j <= Len(b) /\ a[j] = b[j]
    <3>1. \A j \in 1 .. i - 1 : j \in 1 .. Len(a) /\ ~(i <= j)
      BY <2>3
    <3> QED
      BY <1>4, <2>2, <3>1
  <2>5. /\ Place(a[i]) \in Nat /\ Place(b[i]) \in Nat /\ Place(a[i]) # Place(b[i])
    <3>1. a[i] \in Characters /\ b[i] \in Characters
      BY <1>4, <2>3
    <3> QED
      BY <2>3, <3>1, PlacesDiffer
  <2> HIDE DEF apart
  <2>6. CASE Place(a[i]) < Place(b[i])
    BY <1>4, <2>3, <2>4, <2>6 DEF Less
  <2>7. CASE Place(b[i]) < Place(a[i])
    BY <1>4, <2>3, <2>4, <2>7 DEF Less
  <2> QED
    BY <2>5, <2>6, <2>7
<1> QED
  BY <1>2, <1>3, <1>4

\* _rank puts any two names in an order.
LEMMA AheadIsOrder ==
  /\ \A a \in Texts : ~Ahead(a, a)
  /\ \A a, b, c \in Texts : Ahead(a, b) /\ Ahead(b, c) => Ahead(a, c)
  /\ \A a, b \in Texts : a # b => Ahead(a, b) \/ Ahead(b, a)
<1>1. \A a \in Texts : Exact(a) \in Nat /\ Len(a) \in Nat
  BY DEF Exact, Texts
<1>2. \A a \in Texts : ~Ahead(a, a)
  BY <1>1, LessIsOrder DEF Ahead
<1>3. ASSUME NEW a \in Texts, NEW b \in Texts, NEW c \in Texts, Ahead(a, b), Ahead(b, c)
      PROVE  Ahead(a, c)
  <2>1. Less(a, b) /\ Less(b, c) => Less(a, c)
    BY LessIsOrder
  <2> QED
    BY <1>1, <1>3, <2>1 DEF Ahead
<1>4. ASSUME NEW a \in Texts, NEW b \in Texts, a # b
      PROVE  Ahead(a, b) \/ Ahead(b, a)
  <2>1. Len(a) = Len(b) => Less(a, b) \/ Less(b, a)
    BY <1>4, LessIsOrder
  <2> QED
    BY <1>1, <2>1 DEF Ahead
<1> QED
  BY <1>2, <1>3, <1>4

-----------------------------------------------------------------------------
(* The name a worker takes for a key *)

\* The first in the order of _rank of some names with a key.
IsBest(name, names, key) ==
  /\ name \in names /\ KeyOf[name] = key
  /\ \A other \in names : KeyOf[other] = key => ~Ahead(other, name)

LEMMA NamesAreTexts == Names \subseteq Texts
  BY NamesAssumption DEF Texts, Characters

LEMMA BestIsOne ==
  ASSUME NEW names \in SUBSET Names, NEW key, NEW c, NEW d, IsBest(c, names, key), IsBest(d, names, key)
  PROVE  c = d
<1>1. c \in Texts /\ d \in Texts /\ ~Ahead(c, d) /\ ~Ahead(d, c)
  BY NamesAreTexts DEF IsBest
<1> QED
  BY <1>1, AheadIsOrder

\* An answer lists every name once.
LEMMA AnswerListsAll ==
  ASSUME NEW names \in SUBSET Names, NEW found \in SetToSeqs(names)
  PROVE  /\ found \in [1 .. Cardinality(names) -> names]
         /\ DOMAIN found \in SUBSET Nat /\ IsFiniteSet(DOMAIN found)
         /\ \A i, j \in DOMAIN found : found[i] = found[j] => i = j
         /\ \A name \in names : \E i \in DOMAIN found : found[i] = name
<1> DEFINE D == 1 .. Cardinality(names)
<1>1. found \in [D -> names] /\ \A i, j \in D : i # j => found[i] # found[j]
  BY DEF SetToSeqs
<1>2. IsFiniteSet(names) /\ Cardinality(names) \in Nat
  BY NamesAssumption, FS_Subset, FS_CardinalityType
<1>3. D \in SUBSET Nat /\ IsFiniteSet(D) /\ Cardinality(D) = Cardinality(names)
  <2>1. IsFiniteSet(D) /\ Cardinality(D) = IF 1 > Cardinality(names) THEN 0 ELSE Cardinality(names) - 1 + 1
    BY <1>2, FS_Interval
  <2> QED
    BY <1>2, <2>1
<1> HIDE DEF D
<1>4. found \in Injection(D, names)
  BY <1>1 DEF Injection, IsInjective
<1>5. found \in Surjection(D, names)
  BY <1>2, <1>3, <1>4, FS_Injection
<1> QED
  BY <1>1, <1>3, <1>5 DEF Surjection, D

\* Of the names at some places, Chosen takes the best one of each key.
LEMMA ChosenIsBest ==
  ASSUME NEW names \in SUBSET Names, NEW found \in SetToSeqs(names), NEW places \in SUBSET DOMAIN found,
         NEW key \in KeysAt(found, places)
  PROVE  IsBest(Chosen(found, places)[key], {found[i] : i \in places}, key)
<1> DEFINE group == {i \in places : KeyOf[found[i]] = key}
           Before(i) == {j \in group : Ahead(found[j], found[i])}
           counts == {Cardinality(Before(i)) : i \in group}
           first == {i \in group : \A j \in group : ~Ahead(found[j], found[i])}
<1>1. group \in SUBSET Nat /\ IsFiniteSet(group) /\ \A i \in group : found[i] \in Texts
  <2>1. DOMAIN found \in SUBSET Nat /\ IsFiniteSet(DOMAIN found) /\ \A i \in DOMAIN found : found[i] \in Names
    <3>1. found \in [1 .. Cardinality(names) -> names]
      BY AnswerListsAll
    <3>2. DOMAIN found \in SUBSET Nat /\ IsFiniteSet(DOMAIN found)
      BY AnswerListsAll
    <3> QED
      BY <3>1, <3>2
  <2>2. group \in SUBSET DOMAIN found
    OBVIOUS
  <2> QED
    BY <2>1, <2>2, NamesAreTexts, FS_Subset
<1>2. group # {}
  BY DEF KeysAt
<1>3. Chosen(found, places)[key] = found[First(first)]
  BY DEF Chosen
<1>4. \A i \in group : i \in places /\ KeyOf[found[i]] = key
  OBVIOUS
<1>5. \A i \in places : KeyOf[found[i]] = key => i \in group
  OBVIOUS
<1> HIDE DEF group
<1>6. \A i \in group : IsFiniteSet(Before(i)) /\ Cardinality(Before(i)) \in Nat
  <2> TAKE i \in group
  <2>1. Before(i) \in SUBSET group
    OBVIOUS
  <2> HIDE DEF Before
  <2> QED
    BY <1>1, <2>1, FS_Subset, FS_CardinalityType
<1>7. counts \in SUBSET Nat /\ counts # {}
  BY <1>2, <1>6
<1>8. PICK i \in group : \A j \in group : Cardinality(Before(i)) <= Cardinality(Before(j))
  <2>1. First(counts) \in counts /\ \A n \in counts : First(counts) <= n
    <3> HIDE DEF counts
    <3> QED
      BY <1>7, Least
  <2> QED
    BY <2>1
<1>9. ASSUME NEW j \in group, Ahead(found[j], found[i])
      PROVE  FALSE
  <2>1. j \in Before(i) /\ j \notin Before(j)
    BY <1>1, <1>9, AheadIsOrder
  <2>2. Before(j) \in SUBSET Before(i)
    BY <1>1, <1>9, AheadIsOrder
  <2> HIDE DEF Before
  <2>3. /\ Cardinality(Before(j)) \in Nat /\ Cardinality(Before(i)) \in Nat /\ IsFiniteSet(Before(i))
        /\ Cardinality(Before(i)) <= Cardinality(Before(j))
    BY <1>6, <1>8
  <2>4. Cardinality(Before(j)) <= Cardinality(Before(i))
        /\ (Cardinality(Before(i)) = Cardinality(Before(j)) => Before(i) = Before(j))
    BY <2>2, <2>3, FS_Subset
  <2> QED
    BY <2>1, <2>3, <2>4
<1>10. first \in SUBSET Nat /\ i \in first
  BY <1>1, <1>9
<1>11. First(first) \in first
  <2> HIDE DEF first
  <2> QED
    BY <1>10, Least
<1> DEFINE k == First(first)
<1>12. k \in group /\ \A j \in group : ~Ahead(found[j], found[k])
  BY <1>11
<1> HIDE DEF k, first
<1>13. Chosen(found, places)[key] = found[k]
  BY <1>3 DEF k
<1> QED
  BY <1>4, <1>5, <1>12, <1>13 DEF IsBest

\* What the price worker subscribes to, of the names of its groups.
LEMMA FeedIsBest ==
  ASSUME NEW L \in SUBSET Names, NEW chosen \in Feeds[L], NEW key \in DOMAIN chosen
  PROVE  IsBest(chosen[key], L \cap Included, key)
<1> DEFINE names == L \cap Included
<1>1. PICK found \in SetToSeqs(names) : chosen = Chosen(found, DOMAIN found)
  BY DEF Feeds
<1>2. names \in SUBSET Names
  OBVIOUS
<1> HIDE DEF names
<1>3. {found[i] : i \in DOMAIN found} = names
  <2>1. found \in [1 .. Cardinality(names) -> names] /\ \A name \in names : \E i \in DOMAIN found : found[i] = name
    BY <1>2, AnswerListsAll
  <2> QED
    BY <2>1
<1>4. key \in KeysAt(found, DOMAIN found)
  BY <1>1 DEF Chosen
<1>5. IsBest(Chosen(found, DOMAIN found)[key], {found[i] : i \in DOMAIN found}, key)
  BY <1>2, <1>4, ChosenIsBest
<1> QED
  BY <1>1, <1>3, <1>5 DEF names

\* What the candles worker writes: a name with that key, and where no extra name has the key, the
\* best of the names of its groups.
LEMMA CatalogIsBest ==
  ASSUME NEW L \in SUBSET Names, NEW chosen \in Catalogs[L]
  PROVE  /\ \A key \in DOMAIN chosen : chosen[key] \in Names /\ KeyOf[chosen[key]] = key
         /\ \A key \in Keys :
              /\ key \notin {KeyOf[name] : name \in L \cap Extra}
              /\ \E name \in L \cap Included : KeyOf[name] = key
              => key \in DOMAIN chosen /\ IsBest(chosen[key], L \cap Included, key)
<1> DEFINE names == L \cap (Included \cup IF MaxExtra > 0 THEN Extra ELSE {})
<1>1. PICK found \in SetToSeqs(names) : chosen = Chosen(found, Limited(found))
  BY DEF Catalogs
<1>2. names \in SUBSET Names /\ names \subseteq L /\ L \cap Included \subseteq names
  OBVIOUS
<1>3. \A name \in names : name \notin Extra => name \in L \cap Included
  OBVIOUS
<1> HIDE DEF names
<1>4. /\ \A i \in DOMAIN found : found[i] \in names
      /\ \A name \in names : \E i \in DOMAIN found : found[i] = name
  <2>1. found \in [1 .. Cardinality(names) -> names]
    BY <1>2, AnswerListsAll
  <2>2. \A name \in names : \E i \in DOMAIN found : found[i] = name
    BY <1>2, AnswerListsAll
  <2> QED
    BY <2>1, <2>2
<1> DEFINE places == Limited(found)
           kept == {found[i] : i \in places}
<1>5. places \in SUBSET DOMAIN found /\ \A i \in DOMAIN found : found[i] \notin Extra => i \in places
  BY DEF Limited
<1>6. chosen = Chosen(found, places)
  BY <1>1
<1> HIDE DEF places
<1>7. DOMAIN chosen = KeysAt(found, places)
  BY <1>6 DEF Chosen
<1>8. \A key \in DOMAIN chosen : IsBest(chosen[key], kept, key)
  BY <1>2, <1>5, <1>6, <1>7, ChosenIsBest
<1>9. \A key \in DOMAIN chosen : chosen[key] \in Names /\ KeyOf[chosen[key]] = key
  BY <1>2, <1>4, <1>5, <1>8 DEF IsBest
<1>10. ASSUME NEW key \in Keys, key \notin {KeyOf[name] : name \in L \cap Extra},
              NEW name \in L \cap Included, KeyOf[name] = key
       PROVE  key \in DOMAIN chosen /\ IsBest(chosen[key], L \cap Included, key)
  <2>1. \A other \in L : KeyOf[other] = key => other \notin Extra
    BY <1>10
  <2>2. \A other \in L \cap Included : KeyOf[other] = key => other \in kept
    BY <1>2, <1>4, <1>5, <2>1
  <2>3. \A other \in kept : other \in L /\ other \in names
    BY <1>2, <1>4, <1>5
  <2>4. \A other \in kept : KeyOf[other] = key => other \in L \cap Included
    BY <1>3, <2>1, <2>3
  <2>5. key \in DOMAIN chosen
    <3>1. PICK i \in places : found[i] = name
      BY <1>10, <2>2
    <3>2. key # <<>>
      BY <1>10 DEF Keys
    <3> QED
      BY <1>7, <1>10, <3>1, <3>2 DEF KeysAt
  <2>6. IsBest(chosen[key], kept, key)
    BY <1>8, <2>5
  <2> QED
    BY <2>2, <2>4, <2>5, <2>6 DEF IsBest
<1> QED
  BY <1>9, <1>10

-----------------------------------------------------------------------------
(* The invariant *)

\* Each worker holds the best of the names it read last.
ChoicesInv ==
  /\ TypeOK
  /\ \A key \in Keys : feed[key] # NoName => IsBest(feed[key], read.price \cap Included, key)
  /\ \A key \in Keys :
       /\ key \notin {KeyOf[name] : name \in read.candles \cap Extra}
       /\ \E name \in read.candles \cap Included : KeyOf[name] = key
       => IsBest(rows[key], read.candles \cap Included, key)

LEMMA ChoicesInitially == Init => ChoicesInv
  BY DEF Init, ChoicesInv, TypeOK

LEMMA ChoicesStep == ChoicesInv /\ [Next]_vars => ChoicesInv'
<1> SUFFICES ASSUME ChoicesInv, [Next]_vars
             PROVE  ChoicesInv'
  OBVIOUS
<1> USE DEF ChoicesInv, TypeOK
<1>1. CASE BrokerChanges
  BY <1>1 DEF BrokerChanges, IsBest
<1>2. CASE Refresh
  <2>1. PICK chosen \in Catalogs[listing] :
          rows' = [key \in Keys |-> IF key \in DOMAIN chosen THEN chosen[key] ELSE rows[key]]
    BY <1>2 DEF Refresh
  <2>2. /\ \A key \in DOMAIN chosen : chosen[key] \in Names /\ KeyOf[chosen[key]] = key
        /\ \A key \in Keys :
             /\ key \notin {KeyOf[name] : name \in listing \cap Extra}
             /\ \E name \in listing \cap Included : KeyOf[name] = key
             => key \in DOMAIN chosen /\ IsBest(chosen[key], listing \cap Included, key)
    BY CatalogIsBest
  <2>3. /\ read' = [read EXCEPT !.candles = listing] /\ UNCHANGED <<listing, feed, changes>>
        /\ read'.candles = listing /\ read'.price = read.price
    BY <1>2 DEF Refresh
  <2>4. TypeOK'
    BY <2>1, <2>2, <2>3
  <2>5. ASSUME NEW key \in Keys, feed'[key] # NoName
        PROVE  IsBest(feed'[key], read'.price \cap Included, key)
    BY <2>3, <2>5
  <2>6. ASSUME NEW key \in Keys,
               key \notin {KeyOf[name] : name \in read'.candles \cap Extra},
               \E name \in read'.candles \cap Included : KeyOf[name] = key
        PROVE  IsBest(rows'[key], read'.candles \cap Included, key)
    BY <2>1, <2>2, <2>3, <2>6
  <2> QED
    BY <2>4, <2>5, <2>6 DEF IsBest
<1>3. CASE Subscribe
  <2>1. PICK chosen \in Feeds[listing] : \E selected \in SUBSET DOMAIN chosen :
          feed' = [key \in Keys |-> IF key \in selected THEN chosen[key] ELSE NoName]
    BY <1>3 DEF Subscribe
  <2>2. PICK selected \in SUBSET DOMAIN chosen :
          feed' = [key \in Keys |-> IF key \in selected THEN chosen[key] ELSE NoName]
    BY <2>1
  <2>3. \A key \in DOMAIN chosen : IsBest(chosen[key], listing \cap Included, key)
    BY FeedIsBest
  <2>4. /\ read' = [read EXCEPT !.price = listing] /\ UNCHANGED <<listing, rows, changes>>
        /\ read'.price = listing /\ read'.candles = read.candles
    BY <1>3 DEF Subscribe
  <2>5. \A key \in selected : chosen[key] \in Names /\ KeyOf[chosen[key]] = key
    BY <2>3 DEF IsBest
  <2>6. TypeOK'
    BY <2>2, <2>4, <2>5
  <2>7. ASSUME NEW key \in Keys, feed'[key] # NoName
        PROVE  IsBest(feed'[key], read'.price \cap Included, key)
    BY <2>2, <2>3, <2>4, <2>7
  <2> QED
    BY <2>4, <2>6, <2>7 DEF IsBest
<1>4. CASE UNCHANGED vars
  BY <1>4 DEF vars, IsBest
<1> QED
  BY <1>1, <1>2, <1>3, <1>4 DEF Next

LEMMA ChoicesInvariant == Spec => []ChoicesInv
  BY ChoicesInitially, ChoicesStep, PTL DEF Spec

\* Every variable has its type, and what is stored or watched under a key has that key.
THEOREM NamesTypes == Spec => []TypeOK
  BY ChoicesInvariant, PTL DEF ChoicesInv

\* However the terminal orders its answers, the two workers take the candles and the quotes of a
\* key from the same name of the broker.
THEOREM OneInstrument == Spec => []SameInstrument
<1>1. ASSUME ChoicesInv, read.candles = read.price, NEW key \in Keys, feed[key] # NoName,
             key \notin {KeyOf[name] : name \in read.price \cap Extra}
      PROVE  rows[key] = feed[key]
  <2>1. IsBest(feed[key], read.price \cap Included, key)
    BY <1>1 DEF ChoicesInv
  <2>2. feed[key] \in read.candles \cap Included /\ KeyOf[feed[key]] = key
    BY <1>1, <2>1 DEF IsBest
  <2>3. IsBest(rows[key], read.candles \cap Included, key)
    BY <1>1, <2>2 DEF ChoicesInv
  <2>4. read.candles \cap Included \in SUBSET Names
    BY NamesAssumption
  <2> QED
    BY <1>1, <2>1, <2>3, <2>4, BestIsOne
<1>2. ChoicesInv => SameInstrument
  BY <1>1 DEF SameInstrument
<1> QED
  BY <1>2, ChoicesInvariant, PTL

-----------------------------------------------------------------------------
(* What a client asks for *)

LEMMA KeysAreTexts == \A key \in Keys : key \in KeyTexts /\ key # <<>>
  BY NamesAreTexts, NormalizedDigits DEF Keys, KeyOf

\* A symbol is always found under the key it was stored with, and under the broker's own name.
THEOREM FoundAsStored == Spec => []FoundUnderItsKey
<1>1. ASSUME TypeOK, NEW key \in Keys, IsKnown(key), NEW name \in {key, rows[key]}
      PROVE  Resolution(Normalize(name)) = [symbol |-> key, by |-> "exact"]
  <2>1. Normalize(key) = key
    BY KeysAreTexts, KeyIsNormal
  <2>2. Normalize(rows[key]) = key
    BY <1>1 DEF TypeOK, IsKnown, KeyOf
  <2> QED
    BY <1>1, <2>1, <2>2 DEF Resolution
<1>2. TypeOK => FoundUnderItsKey
  BY <1>1 DEF FoundUnderItsKey
<1> QED
  BY <1>2, NamesTypes, PTL

LEMMA SpelledAre ==
  ASSUME NEW spelled \in Spelled
  PROVE  \E name \in Texts : spelled = [key |-> Normalize(name), digits |-> Digits(name)]
<1>1. PICK name \in (UNION {[1 .. n -> Range(Alphabet)] : n \in 0 .. MaxTyped}) \cup Names :
        spelled = [key |-> Normalize(name), digits |-> Digits(name)]
  BY DEF Spelled
<1>2. name \in Texts
  <2>1. CASE name \in Names
    BY <2>1, NamesAreTexts
  <2>2. ASSUME NEW n \in Nat, name \in [1 .. n -> Characters]
        PROVE  name \in Texts
    BY <2>2 DEF Texts
  <2>3. MaxTyped \in Nat
    BY NamesAssumption
  <2>4. CASE \E n \in 0 .. MaxTyped : name \in [1 .. n -> Characters]
    <3>1. PICK n \in 0 .. MaxTyped : name \in [1 .. n -> Characters]
      BY <2>4
    <3>2. n \in Nat
      BY <2>3
    <3> QED
      BY <2>2, <3>1, <3>2
  <2>5. name \in Names \/ \E n \in 0 .. MaxTyped : name \in [1 .. n -> Characters]
    <3>1. \A S, T, x : x \in (UNION S) \cup T => x \in T \/ \E U \in S : x \in U
      OBVIOUS
    <3>2. name \in Names \/ \E U \in {[1 .. n -> Range(Alphabet)] : n \in 0 .. MaxTyped} : name \in U
      BY <1>1, <3>1
    <3> QED
      BY <3>2 DEF Characters
  <2> QED
    BY <2>1, <2>4, <2>5
<1> QED
  BY <1>1, <1>2

\* Of every length, a spelling that is no alias has the digits of the series it is answered with.
THEOREM DigitsAreNotLost == Spec => []DigitsAreKept
<1>1. DigitsAreKept
  <2> SUFFICES ASSUME NEW spelled \in Spelled, Resolution(spelled.key).by = "exact"
               PROVE  Digits(Resolution(spelled.key).symbol) = spelled.digits
    BY DEF DigitsAreKept
  <2>1. PICK name \in Texts : spelled = [key |-> Normalize(name), digits |-> Digits(name)]
    BY SpelledAre
  <2>2. Resolution(spelled.key).symbol = spelled.key
    BY DEF Resolution, NotFound
  <2> QED
    BY <2>1, <2>2, NormalizedDigits
<1> QED
  BY <1>1, PTL

\* Where no alias is the key of a name the broker may list, whatever spelling brings the candles
\* of a series brings its price as well.
THEOREM PriceFollows ==
  ASSUME DOMAIN Aliases \cap Keys = {}
  PROVE  Spec => []PriceIsOfTheSymbol
<1>1. PriceIsOfTheSymbol
  BY DEF PriceIsOfTheSymbol, Resolution, NotFound, Canonical, IsKnown
<1> QED
  BY <1>1, PTL
=============================================================================
