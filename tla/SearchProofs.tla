---------------------------- MODULE SearchProofs ---------------------------
(***************************************************************************)
(* TLAPS proofs about fuzzy search, for any tokens, queries, index, scores *)
(* and sizes of pages: the filters of a query mean what its tokens say,    *)
(* every page is its part of the ranking, whichever of the code's ways of  *)
(* sorting, cutting and merging made it, and who pages skips no result.    *)
(***************************************************************************)
EXTENDS FuzzySearch, SequenceTheorems, FiniteSetTheorems, WellFoundedInduction, TLAPS

\* A subset is no larger, and smaller unless it is the whole.
LEMMA SubsetCard ==
    ASSUME NEW S, IsFiniteSet(S), NEW T, T \subseteq S
    PROVE  /\ IsFiniteSet(T) /\ Cardinality(T) \in Nat /\ Cardinality(S) \in Nat
           /\ Cardinality(T) <= Cardinality(S)
           /\ T # S => Cardinality(T) < Cardinality(S)
<1>1. IsFiniteSet(T) /\ Cardinality(T) <= Cardinality(S) /\ (Cardinality(S) = Cardinality(T) => S = T)
  BY FS_Subset
<1>2. Cardinality(T) \in Nat /\ Cardinality(S) \in Nat
  BY <1>1, FS_CardinalityType
<1> QED BY <1>1, <1>2

\* The numbers up to n are n.
LEMMA UpToIsFinite == \A n \in Nat : IsFiniteSet(1..n) /\ Cardinality(1..n) = n
BY FS_Interval

\* A set of which each member has a number of its own.
LEMMA NoMoreThan ==
    ASSUME NEW S, NEW n \in Nat, NEW f \in [S -> 1..n], \A a, b \in S : f[a] = f[b] => a = b
    PROVE  IsFiniteSet(S) /\ Cardinality(S) \in Nat /\ Cardinality(S) <= n
<1>1. f \in Injection(S, 1..n)
  BY DEF Injection, IsInjective
<1>2. IsFiniteSet(S) /\ Cardinality(S) <= n
  BY <1>1, UpToIsFinite, FS_Injection
<1> QED BY <1>2, FS_CardinalityType

\* A finite set that holds so many different things.
LEMMA NoLessThan ==
    ASSUME NEW S, IsFiniteSet(S), NEW n \in Nat, NEW f \in [1..n -> S], \A a, b \in 1..n : f[a] = f[b] => a = b
    PROVE  Cardinality(S) \in Nat /\ n <= Cardinality(S)
<1>1. f \in Injection(1..n, S)
  BY DEF Injection, IsInjective
<1>2. Cardinality(1..n) <= Cardinality(S)
  BY <1>1, FS_Injection
<1> QED BY <1>2, UpToIsFinite, FS_CardinalityType

\* A set of numbers has a least.
LEMMA LeastNat ==
    ASSUME NEW T, T \subseteq Nat, T # {}
    PROVE  \E x \in T : \A y \in T : x <= y
<1>1. ASSUME NEW x \in Nat, NEW y \in Nat, y < x PROVE <<y, x>> \in OpToRel(<, Nat)
  BY <1>1 DEF OpToRel
<1>2. PICK x \in T : \A y \in T : ~ (<<y, x>> \in OpToRel(<, Nat))
  BY NatLessThanWellFounded, WFMin
<1>3. ASSUME NEW y \in T PROVE x <= y
  <2>1. x \in Nat /\ y \in Nat
    OBVIOUS
  <2>2. ~(y < x)
    BY <1>1, <1>2, <2>1
  <2> QED BY <2>1, <2>2
<1> QED BY <1>3

\* The members of a set that an order puts before b; the numbers up to i.
BeforeIn(S, L, b) == {a \in S : <<a, b>> \in L}
UpTo(I, i) == {j \in I : j <= i}

StrictOrder(S, L) ==
    /\ L \subseteq S \X S
    /\ \A a \in S : <<a, a>> \notin L
    /\ \A a, b, c \in S : <<a, b>> \in L /\ <<b, c>> \in L => <<a, c>> \in L
    /\ \A a, b \in S : a # b => <<a, b>> \in L \/ <<b, a>> \in L

Placing(S, L, n, place) ==
    /\ place \in [S -> 1..n]
    /\ \A b \in S : place[b] = Cardinality(BeforeIn(S, L, b)) + 1
    /\ \A a, b \in S : <<a, b>> \in L <=> place[a] < place[b]
    /\ \A a, b \in S : place[a] = place[b] => a = b
    /\ \A i \in 1..n : \E a \in S : place[a] = i

(***************************************************************************)
(* In a finite set with a strict total order, given as a set of pairs, the *)
(* places, by how many come before, run from 1 to the number of members.   *)
(***************************************************************************)
LEMMA PlacesAreAll ==
    ASSUME NEW S, IsFiniteSet(S), NEW L, StrictOrder(S, L), NEW n \in Nat, n = Cardinality(S)
    PROVE  \E place : Placing(S, L, n, place)
<1> DEFINE Below(b) == BeforeIn(S, L, b)
           place == [b \in S |-> Cardinality(BeforeIn(S, L, b)) + 1]
<1>o. /\ \A a \in S : <<a, a>> \notin L
      /\ \A a, b, c \in S : <<a, b>> \in L /\ <<b, c>> \in L => <<a, c>> \in L
      /\ \A a, b \in S : a # b => <<a, b>> \in L \/ <<b, a>> \in L
  BY DEF StrictOrder
<1>1. \A b \in S : place[b] = Cardinality(Below(b)) + 1
  OBVIOUS
<1>2. \A b \in S : Below(b) \subseteq S /\ b \notin Below(b)
  BY <1>o DEF BeforeIn
<1>p. \A b \in S : place[b] = Cardinality(BeforeIn(S, L, b)) + 1
  OBVIOUS
<1>d. place = [b \in S |-> place[b]]
  OBVIOUS
<1> HIDE DEF place
<1>3. ASSUME NEW b \in S PROVE Cardinality(Below(b)) \in 0..n - 1 /\ place[b] \in 1..n
  <2>1. Below(b) # S
    BY <1>2
  <2> HIDE DEF Below
  <2>2. Cardinality(Below(b)) \in Nat /\ Cardinality(Below(b)) < n
    BY <1>2, <2>1, SubsetCard
  <2> QED BY <1>1, <2>2
<1>4. \A a, b \in S : <<a, b>> \in L => place[a] < place[b]
  <2> SUFFICES ASSUME NEW a \in S, NEW b \in S, <<a, b>> \in L PROVE place[a] < place[b]
    OBVIOUS
  <2>1. Below(a) \subseteq Below(b) /\ a \in Below(b) /\ a \notin Below(a)
    BY <1>o DEF BeforeIn
  <2>2. IsFiniteSet(Below(b))
    BY <1>2, SubsetCard
  <2>3. Cardinality(Below(a)) \in Nat /\ Cardinality(Below(b)) \in Nat
    BY <1>3
  <2> HIDE DEF Below
  <2>4. Cardinality(Below(a)) < Cardinality(Below(b))
    BY <2>1, <2>2, SubsetCard
  <2> QED BY <1>1, <2>3, <2>4
<1>5. place \in [S -> 1..n]
  BY <1>3, <1>d
<1>6. \A a, b \in S : place[a] = place[b] => a = b
  <2> SUFFICES ASSUME NEW a \in S, NEW b \in S, place[a] = place[b] PROVE a = b
    OBVIOUS
  <2>1. place[a] \in Nat /\ place[b] \in Nat
    BY <1>5
  <2>2. <<a, b>> \notin L /\ <<b, a>> \notin L
    BY <1>4, <2>1
  <2> QED BY <1>o, <2>2
<1>7. \A a, b \in S : <<a, b>> \in L <=> place[a] < place[b]
  <2> SUFFICES ASSUME NEW a \in S, NEW b \in S, place[a] < place[b] PROVE <<a, b>> \in L
    BY <1>4
  <2>1. place[a] \in Nat /\ place[b] \in Nat
    BY <1>5
  <2>2. a # b /\ <<b, a>> \notin L
    BY <1>4, <2>1
  <2> QED BY <1>o, <2>2
<1> HIDE DEF Below
<1>8. place \in Injection(S, 1..n)
  BY <1>5, <1>6 DEF Injection, IsInjective
<1>9. IsFiniteSet(1..n) /\ Cardinality(1..n) = n
  BY FS_Interval
<1>10. place \in Surjection(S, 1..n)
  BY <1>8, <1>9, FS_Injection
<1>11. \A i \in 1..n : \E a \in S : place[a] = i
  BY <1>10 DEF Surjection
<1> QED BY <1>5, <1>6, <1>7, <1>11, <1>p DEF Placing

(***************************************************************************)
(* What Pick picks: the k-th is the member at the k-th of the places.      *)
(***************************************************************************)
Picks(e, s, I, n) ==
    /\ e \in [1..n -> I]
    /\ \A k \in 1..n : Pick(s, I)[k] = s[e[k]] /\ Cardinality(UpTo(I, e[k])) = k
    /\ \A j, k \in 1..n : j < k <=> e[j] < e[k]
    /\ \A j, k \in 1..n : e[j] = e[k] => j = k
    /\ \A i \in I : \E k \in 1..n : e[k] = i

\* The members picked are in the order of the list.
LEMMA PickIs ==
    ASSUME NEW T, NEW s \in Seq(T), NEW I, I \subseteq Nat, IsFiniteSet(I), NEW n \in Nat, n = Cardinality(I)
    PROVE  \E e : Picks(e, s, I, n)
<1> DEFINE L == {p \in I \X I : p[1] < p[2]}
           e == [k \in 1..n |-> CHOOSE i \in I : Cardinality(UpTo(I, i)) = k]
<1>0. L \in SUBSET (I \X I)
  OBVIOUS
<1>1. \A a, b \in I : a \in Nat /\ b \in Nat /\ (<<a, b>> \in L <=> a < b)
  OBVIOUS
<1> HIDE DEF L
<1>3. StrictOrder(I, L)
  BY <1>0, <1>1 DEF StrictOrder
<1>p. PICK place : Placing(I, L, n, place)
  BY <1>3, PlacesAreAll
<1>4. /\ place \in [I -> 1..n]
      /\ \A b \in I : place[b] = Cardinality(BeforeIn(I, L, b)) + 1
      /\ \A a, b \in I : <<a, b>> \in L <=> place[a] < place[b]
      /\ \A a, b \in I : place[a] = place[b] => a = b
      /\ \A i \in 1..n : \E a \in I : place[a] = i
  BY <1>p DEF Placing
<1>5. ASSUME NEW i \in I PROVE Cardinality(UpTo(I, i)) = place[i]
  <2> DEFINE B == BeforeIn(I, L, i)
             U == UpTo(I, i)
  <2>1. \A j \in I : j <= i <=> j < i \/ j = i
    BY <1>1
  <2>2. \A j \in I : j \in U <=> j \in B \/ j = i
    BY <1>1, <2>1 DEF UpTo, BeforeIn
  <2>3. U = B \cup {i}
    <3>1. U \subseteq I /\ B \subseteq I
      BY DEF UpTo, BeforeIn
    <3> QED BY <2>2, <3>1
  <2>4. i \notin B /\ B \subseteq I
    BY <1>3 DEF BeforeIn, StrictOrder
  <2> HIDE DEF U, B
  <2>5. IsFiniteSet(B)
    BY <2>4, SubsetCard
  <2>6. Cardinality(U) = Cardinality(B) + 1
    BY <2>3, <2>4, <2>5, FS_AddElement
  <2> QED BY <1>4, <2>6 DEF U, B
<1>6. \A k \in 1..n : \E i \in I : Cardinality(UpTo(I, i)) = k
  BY <1>4, <1>5
<1>7. \A k \in 1..n : e[k] \in I /\ Cardinality(UpTo(I, e[k])) = k
  BY <1>6
<1>8. \A k \in 1..n : Pick(s, I)[k] = s[e[k]]
  BY DEF Pick, UpTo
<1>10. e \in [1..n -> I]
  BY <1>7
<1> HIDE DEF e
<1>11. \A k \in 1..n : place[e[k]] = k
  BY <1>5, <1>7
<1>12. \A j, k \in 1..n : j < k <=> e[j] < e[k]
  <2> TAKE j \in 1..n, k \in 1..n
  <2>1. e[j] \in I /\ e[k] \in I
    BY <1>7
  <2>2. <<e[j], e[k]>> \in L <=> place[e[j]] < place[e[k]]
    BY <1>4, <2>1
  <2> QED BY <1>1, <1>11, <2>1, <2>2
<1>13. \A j, k \in 1..n : e[j] = e[k] => j = k
  BY <1>11
<1>14. \A i \in I : \E k \in 1..n : e[k] = i
  <2> TAKE i \in I
  <2>1. place[i] \in 1..n /\ place[e[place[i]]] = place[i] /\ e[place[i]] \in I
    BY <1>4, <1>7, <1>11
  <2> QED BY <1>4, <2>1
<1>15. Picks(e, s, I, n)
  BY <1>7, <1>8, <1>10, <1>12, <1>13, <1>14 DEF Picks
<1> QED BY <1>15

\* The places of a list.
LEMMA DomainIs ==
    ASSUME NEW T, NEW s \in Seq(T), NEW I, I \subseteq DOMAIN s
    PROVE  /\ Len(s) \in Nat /\ DOMAIN s = 1..Len(s) /\ \A k \in DOMAIN s : s[k] \in T
           /\ IsFiniteSet(DOMAIN s) /\ Cardinality(DOMAIN s) = Len(s)
           /\ I \subseteq Nat /\ IsFiniteSet(I) /\ Cardinality(I) \in Nat
<1>1. Len(s) \in Nat /\ DOMAIN s = 1..Len(s) /\ \A k \in DOMAIN s : s[k] \in T
  OBVIOUS
<1>2. IsFiniteSet(1..Len(s)) /\ Cardinality(1..Len(s)) = Len(s)
  BY <1>1, UpToIsFinite
<1>3. IsFiniteSet(I) /\ Cardinality(I) \in Nat
  BY <1>1, <1>2, SubsetCard
<1>4. I \subseteq Nat
  BY <1>1
<1> QED BY <1>1, <1>2, <1>3, <1>4

\* A list of some members of a list.
LEMMA PickSeq ==
    ASSUME NEW T, NEW s \in Seq(T), NEW I, I \subseteq DOMAIN s
    PROVE  LET p == Pick(s, I) IN
           /\ p \in Seq(T) /\ Len(p) = Cardinality(I) /\ Cardinality(I) \in Nat
           /\ DOMAIN p = 1..Cardinality(I)
           /\ \A k \in DOMAIN p : \E i \in I : p[k] = s[i]
           /\ \A i \in I : \E k \in DOMAIN p : p[k] = s[i]
           /\ IsInjective(s) => IsInjective(p)
<1> DEFINE n == Cardinality(I)
           p == Pick(s, I)
<1>1. n \in Nat /\ n = Cardinality(I) /\ I \subseteq Nat /\ IsFiniteSet(I) /\ \A i \in I : s[i] \in T
  BY DomainIs
<1> HIDE DEF n
<1>2. p = [k \in 1..n |-> p[k]]
  BY <1>1 DEF Pick
<1>p. PICK e : Picks(e, s, I, n)
  BY <1>1, PickIs
<1>3. /\ e \in [1..n -> I]
      /\ \A k \in 1..n : p[k] = s[e[k]]
      /\ \A j, k \in 1..n : e[j] = e[k] => j = k
      /\ \A i \in I : \E k \in 1..n : e[k] = i
  BY <1>p DEF Picks
<1> HIDE DEF p
<1>4. DOMAIN p = 1..n
  BY <1>2
<1>5. \A k \in 1..n : p[k] \in T
  BY <1>1, <1>3
<1>6. p \in [1..n -> T]
  BY <1>2, <1>5
<1>7. p \in Seq(T) /\ Len(p) = n
  BY <1>1, <1>6, SeqDef
<1>8. ASSUME IsInjective(s) PROVE IsInjective(p)
  <2>1. \A k \in 1..n : e[k] \in DOMAIN s
    BY <1>3
  <2>2. \A j, k \in 1..n : p[j] = p[k] => e[j] = e[k]
    BY <1>3, <1>8, <2>1 DEF IsInjective
  <2> QED BY <1>3, <1>4, <2>2 DEF IsInjective
<1> QED BY <1>1, <1>3, <1>4, <1>7, <1>8, SMTT(30) DEF n, p
-----------------------------------------------------------------------------
(***************************************************************************)
(* The ranking.  What a search finds is a list of hits, each with an item  *)
(* of its own; the k-th of a ranking has fewer than k hits above it, and k *)
(* or more not below.                                                      *)
(***************************************************************************)
Hit == [item : Items, total : Int, modified : Int]
Listing(R) == R \in Seq(Hit) /\ \A j, k \in DOMAIN R : R[j].item = R[k].item => j = k

HitsAbove(R, x) == {n \in 1..Len(R) : Above(R[n], x)}
HitsUpTo(R, x) == {n \in 1..Len(R) : ~Above(x, R[n])}
AtPlace(R, x, k) == Cardinality(HitsAbove(R, x)) < k /\ k <= Cardinality(HitsUpTo(R, x))

Distinct(t, n) == \A j, k \in 1..n : t[j] = t[k] => j = k

\* Better by total, then by time: an order in which hits may tie.
LEMMA AboveIsOrder ==
    /\ \A a \in Hit : ~Above(a, a)
    /\ \A a, b \in Hit : Above(a, b) => ~Above(b, a)
    /\ \A a, b, c \in Hit : Above(a, b) /\ ~Above(c, b) => Above(a, c)
    /\ \A a, b, c \in Hit : ~Above(b, a) /\ Above(b, c) => Above(a, c)
    /\ \A a, b, c \in Hit : ~Above(b, a) /\ ~Above(c, b) => ~Above(c, a)
BY DEF Above, Hit

\* What a listing holds.
LEMMA HitsAre ==
    ASSUME NEW R, Listing(R), NEW total \in Nat, total = Len(R)
    PROVE  /\ DOMAIN R = 1..total /\ \A k \in 1..total : R[k] \in Hit
           /\ \A j, k \in 1..total : R[j] = R[k] => j = k
           /\ ToSet(R) \subseteq Hit /\ \A x \in ToSet(R) : \E k \in 1..total : R[k] = x
           /\ \A k \in 1..total : R[k] \in ToSet(R)
           /\ IsFiniteSet(1..total) /\ Cardinality(1..total) = total
<1>1. DOMAIN R = 1..total /\ \A k \in 1..total : R[k] \in Hit
  BY DEF Listing
<1>2. IsFiniteSet(1..total) /\ Cardinality(1..total) = total
  BY UpToIsFinite
<1>3. ToSet(R) \subseteq Hit /\ \A x \in ToSet(R) : \E k \in 1..total : R[k] = x
  BY <1>1 DEF ToSet
<1>4. \A k \in 1..total : R[k] \in ToSet(R)
  BY <1>1 DEF ToSet
<1>5. \A j, k \in 1..total : R[j] = R[k] => j = k
  BY <1>1 DEF Listing
<1> QED BY <1>1, <1>2, <1>3, <1>4, <1>5

\* What is above a hit, and what is not below it, can be counted.
LEMMA HitSets ==
    ASSUME NEW R, Listing(R), NEW x
    PROVE  /\ IsFiniteSet(HitsAbove(R, x)) /\ Cardinality(HitsAbove(R, x)) \in Nat
           /\ IsFiniteSet(HitsUpTo(R, x)) /\ Cardinality(HitsUpTo(R, x)) \in Nat
           /\ HitsAbove(R, x) \subseteq DOMAIN R /\ HitsUpTo(R, x) \subseteq DOMAIN R
<1>1. PICK total \in Nat : total = Len(R)
  BY DEF Listing
<1>2. DOMAIN R = 1..total /\ IsFiniteSet(1..total)
  BY <1>1, HitsAre
<1>3. HitsAbove(R, x) \subseteq 1..total /\ HitsUpTo(R, x) \subseteq 1..total
  BY <1>1 DEF HitsAbove, HitsUpTo
<1> QED BY <1>2, <1>3, SubsetCard

\* Adjacent hits in order are all in order.
LEMMA Descending ==
    ASSUME NEW n \in Nat, NEW s \in [1..n -> Hit], \A k \in 1..n - 1 : ~Above(s[k+1], s[k])
    PROVE  \A i, j \in 1..n : i <= j => ~Above(s[j], s[i])
<1> SUFFICES ASSUME NEW i \in 1..n, NEW j \in 1..n, i <= j, Above(s[j], s[i]) PROVE FALSE
  OBVIOUS
<1> DEFINE T == {k \in 1..n : i <= k /\ Above(s[k], s[i])}
<1>1. T # {}
  OBVIOUS
<1>2. T \subseteq Nat
  OBVIOUS
<1>3. PICK k \in T : \A h \in T : k <= h
  BY <1>1, <1>2, LeastNat
<1>4. k \in 1..n /\ i <= k /\ Above(s[k], s[i])
  OBVIOUS
<1>5. s[i] \in Hit /\ s[k] \in Hit
  BY <1>4
<1>6. k # i
  BY <1>4, <1>5, AboveIsOrder
<1> DEFINE h == k - 1
<1>7. h \in 1..n - 1 /\ h \in 1..n /\ i <= h /\ h < k /\ h + 1 = k
  BY <1>4, <1>6
<1> HIDE DEF h
<1>8. ~Above(s[h], s[i])
  <2>1. h \notin T
    BY <1>3, <1>4, <1>7
  <2> QED BY <1>7, <2>1
<1>9. ~Above(s[k], s[h]) /\ s[h] \in Hit
  BY <1>7
<1> HIDE DEF T
<1> QED BY <1>4, <1>5, <1>8, <1>9, AboveIsOrder

\* What a list of top hits is.
LEMMA TopsAre ==
    ASSUME NEW R, Listing(R), NEW n \in Nat, n <= Len(R), NEW s \in Tops(R, n)
    PROVE  /\ s \in [1..n -> ToSet(R)] /\ s \in [1..n -> Hit] /\ Distinct(s, n)
           /\ \A i, j \in 1..n : i <= j => ~Above(s[j], s[i])
           /\ \A r \in ToSet(R) : (\A k \in 1..n : s[k] # r) => \A k \in 1..n : ~Above(r, s[k])
           /\ s \in Seq(ToSet(R)) /\ s \in Seq(Hit) /\ Len(s) = n /\ DOMAIN s = 1..n
<1>1. PICK total \in Nat : total = Len(R)
  BY DEF Listing
<1>2. ToSet(R) \subseteq Hit
  BY <1>1, HitsAre
<1>3. /\ s \in [1..n -> ToSet(R)] /\ IsInjective(s)
      /\ \A k \in 1..n-1 : ~Above(s[k+1], s[k])
      /\ \A r \in ToSet(R) \ {s[k] : k \in 1..n} : ~Above(r, s[n])
  BY DEF Tops
<1>4. s \in [1..n -> Hit]
  BY <1>2, <1>3
<1>5. \A i, j \in 1..n : i <= j => ~Above(s[j], s[i])
  BY <1>3, <1>4, Descending
<1>6. ASSUME NEW r \in ToSet(R), \A k \in 1..n : s[k] # r, NEW k \in 1..n PROVE ~Above(r, s[k])
  <2>1. r \notin {s[i] : i \in 1..n}
    BY <1>6
  <2>2. ~Above(r, s[n])
    BY <1>3, <2>1
  <2>3. n \in 1..n /\ k <= n
    OBVIOUS
  <2>4. ~Above(s[n], s[k])
    BY <1>5, <2>3
  <2>5. r \in Hit /\ s[k] \in Hit /\ s[n] \in Hit
    BY <1>2, <1>4, <2>3
  <2> QED BY <2>2, <2>4, <2>5, AboveIsOrder
<1>7. Distinct(s, n)
  BY <1>3 DEF IsInjective, Distinct
<1>8. s \in Seq(ToSet(R)) /\ s \in Seq(Hit) /\ Len(s) = n /\ DOMAIN s = 1..n
  BY <1>3, <1>4, SeqDef
<1> QED BY <1>3, <1>4, <1>5, <1>6, <1>7, <1>8

\* The best n, sorted, are at their places in the ranking.
LEMMA TopsRank ==
    ASSUME NEW R, Listing(R), NEW n \in Nat, n <= Len(R), NEW s \in Tops(R, n), NEW k \in 1..n
    PROVE  AtPlace(R, s[k], k)
<1> DEFINE A == HitsAbove(R, s[k])
           B == HitsUpTo(R, s[k])
           at == [j \in 1..k |-> CHOOSE m \in DOMAIN R : R[m] = s[j]]
           of == [m \in A |-> CHOOSE j \in 1..n : s[j] = R[m]]
<1>1. PICK total \in Nat : total = Len(R)
  BY DEF Listing
<1>2. /\ s \in [1..n -> ToSet(R)] /\ s \in [1..n -> Hit] /\ Distinct(s, n)
      /\ \A i, j \in 1..n : i <= j => ~Above(s[j], s[i])
      /\ \A r \in ToSet(R) : (\A i \in 1..n : s[i] # r) => \A i \in 1..n : ~Above(r, s[i])
  BY TopsAre
<1>3. /\ DOMAIN R = 1..total /\ \A i \in 1..total : R[i] \in Hit /\ R[i] \in ToSet(R)
      /\ \A i, j \in 1..total : R[i] = R[j] => i = j
      /\ \A x \in ToSet(R) : \E i \in 1..total : R[i] = x
  BY <1>1, HitsAre
<1>4. k \in Nat /\ k - 1 \in Nat /\ 1..k \subseteq 1..n
  OBVIOUS
<1>5. A \subseteq 1..total /\ \A m \in A : Above(R[m], s[k])
  BY <1>1 DEF HitsAbove
<1>6. ASSUME NEW m \in A PROVE of[m] \in 1..k - 1 /\ s[of[m]] = R[m]
  <2>1. R[m] \in ToSet(R) /\ Above(R[m], s[k])
    BY <1>3, <1>5
  <2>2. \E j \in 1..n : s[j] = R[m]
    BY <1>2, <2>1
  <2>3. of[m] \in 1..n /\ s[of[m]] = R[m]
    BY <2>2
  <2> HIDE DEF of
  <2>4. ~(k <= of[m])
    BY <1>2, <2>1, <2>3
  <2> QED BY <2>3, <2>4
<1>7. of \in [A -> 1..k - 1]
  BY <1>6
<1>8. \A m, h \in A : of[m] = of[h] => m = h
  <2>1. \A m, h \in A : of[m] = of[h] => R[m] = R[h]
    BY <1>6
  <2> QED BY <1>3, <1>5, <2>1
<1> HIDE DEF of
<1>9. Cardinality(A) <= k - 1 /\ Cardinality(A) \in Nat
  <2> HIDE DEF A
  <2> QED BY <1>4, <1>7, <1>8, NoMoreThan
<1>10. ASSUME NEW j \in 1..k PROVE at[j] \in 1..total /\ R[at[j]] = s[j] /\ at[j] \in B
  <2>1. j \in 1..n /\ s[j] \in ToSet(R) /\ j <= k
    BY <1>2, <1>4
  <2>2. at[j] \in 1..total /\ R[at[j]] = s[j]
    BY <1>3, <2>1
  <2> HIDE DEF at
  <2>3. ~Above(s[k], s[j])
    BY <1>2, <2>1
  <2> QED BY <1>1, <2>2, <2>3 DEF HitsUpTo
<1>11. at \in [1..k -> B]
  BY <1>10
<1> HIDE DEF at
<1>12. \A i, j \in 1..k : at[i] = at[j] => i = j
  BY <1>2, <1>4, <1>10 DEF Distinct
<1>13. IsFiniteSet(B)
  BY HitSets
<1>14. k <= Cardinality(B)
  <2> HIDE DEF B
  <2> QED BY <1>4, <1>11, <1>12, <1>13, NoLessThan
<1> QED BY <1>4, <1>9, <1>14 DEF AtPlace

\* A hit that ties with no other is at one place only, that of its rank.
LEMMA UntiedIsThere ==
    ASSUME NEW R, Listing(R), NEW x \in ToSet(R), NEW m \in DOMAIN R,
           \A k \in DOMAIN R : ~Above(R[k], R[m]) /\ ~Above(R[m], R[k]) => k = m,
           AtPlace(R, x, Cardinality(HitsAbove(R, R[m])) + 1)
    PROVE  x = R[m]
<1>1. PICK total \in Nat : total = Len(R)
  BY DEF Listing
<1>2. /\ DOMAIN R = 1..total /\ \A i \in 1..total : R[i] \in Hit
      /\ x \in Hit
  BY <1>1, HitsAre
<1>3. PICK k \in 1..total : R[k] = x
  BY <1>1, HitsAre
<1> DEFINE r == R[m]
           a == HitsAbove(R, r)
<1>4. /\ IsFiniteSet(a) /\ Cardinality(a) \in Nat
      /\ IsFiniteSet(HitsUpTo(R, x)) /\ Cardinality(HitsUpTo(R, x)) \in Nat
      /\ IsFiniteSet(HitsAbove(R, x)) /\ Cardinality(HitsAbove(R, x)) \in Nat
  BY HitSets
<1>5. Cardinality(HitsAbove(R, x)) <= Cardinality(a) /\ Cardinality(a) + 1 <= Cardinality(HitsUpTo(R, x))
  BY <1>4 DEF AtPlace
<1>6. ~Above(x, r)
  <2> SUFFICES ASSUME Above(x, r) PROVE FALSE
    OBVIOUS
  <2>1. \A i \in 1..total : ~Above(x, R[i]) => Above(R[i], r)
    BY <1>2, AboveIsOrder
  <2>2. HitsUpTo(R, x) \subseteq a
    BY <1>1, <2>1 DEF HitsUpTo, HitsAbove
  <2>3. Cardinality(HitsUpTo(R, x)) <= Cardinality(a)
    BY <1>4, <2>2, SubsetCard
  <2> QED BY <1>4, <1>5, <2>3
<1>7. ~Above(r, x)
  <2> SUFFICES ASSUME Above(r, x) PROVE FALSE
    OBVIOUS
  <2>1. \A i \in 1..total : Above(R[i], r) => Above(R[i], x)
    BY <1>2, AboveIsOrder
  <2>2. a \subseteq HitsAbove(R, x) /\ m \in HitsAbove(R, x)
    BY <1>1, <1>2, <2>1 DEF HitsAbove
  <2>3. m \notin a
    BY <1>2, AboveIsOrder DEF HitsAbove
  <2>4. Cardinality(a) < Cardinality(HitsAbove(R, x))
    BY <1>4, <2>2, <2>3, SubsetCard
  <2> QED BY <1>4, <1>5, <2>4
<1>8. k = m
  BY <1>2, <1>3, <1>6, <1>7
<1> QED BY <1>3, <1>8

\* The stable sort is one of the rankings.
LEMMA StableIsRanking ==
    ASSUME NEW R, Listing(R), NEW total \in Nat, total = Len(R)
    PROVE  Stable(R) \in Tops(R, total)
<1> DEFINE S == 1..total
           Earlier(a, b) == Above(R[a], R[b]) \/ (a < b /\ ~Above(R[b], R[a]))
           L == {p \in S \X S : Earlier(p[1], p[2])}
           s == Stable(R)
<1>1. /\ DOMAIN R = S /\ \A i \in S : R[i] \in Hit /\ R[i] \in ToSet(R)
      /\ \A i, j \in S : R[i] = R[j] => i = j
      /\ \A x \in ToSet(R) : \E i \in S : R[i] = x
      /\ IsFiniteSet(S) /\ Cardinality(S) = total
  BY HitsAre
<1>2. \A a, b \in S : <<a, b>> \in L <=> Earlier(a, b)
  OBVIOUS
<1>3. L \subseteq S \X S
  OBVIOUS
<1>4. StrictOrder(S, L)
  <2>1. \A a \in S : ~Earlier(a, a)
    BY <1>1, AboveIsOrder
  <2>2. \A a, b, c \in S : Earlier(a, b) /\ Earlier(b, c) => Earlier(a, c)
    <3> TAKE a \in S, b \in S, c \in S
    <3>1. R[a] \in Hit /\ R[b] \in Hit /\ R[c] \in Hit
      BY <1>1
    <3>2. a < b /\ b < c => a < c
      OBVIOUS
    <3> QED BY <3>1, <3>2, AboveIsOrder
  <2>3. \A a, b \in S : a # b => Earlier(a, b) \/ Earlier(b, a)
    <3> TAKE a \in S, b \in S
    <3>1. a # b => a < b \/ b < a
      OBVIOUS
    <3> QED BY <3>1
  <2> HIDE DEF L, Earlier
  <2> QED BY <1>2, <1>3, <2>1, <2>2, <2>3 DEF StrictOrder
<1>p. PICK place : Placing(S, L, total, place)
  <2> HIDE DEF S, L
  <2> QED BY <1>1, <1>4, PlacesAreAll
<1>5. /\ \A b \in S : place[b] = Cardinality(BeforeIn(S, L, b)) + 1
      /\ \A a, b \in S : <<a, b>> \in L <=> place[a] < place[b]
      /\ \A a, b \in S : place[a] = place[b] => a = b
      /\ \A i \in 1..total : \E a \in S : place[a] = i
  <2> HIDE DEF S, L
  <2> QED BY <1>p DEF Placing
<1>6. ASSUME NEW b \in S PROVE place[b] = Place(R, b)
  <2>1. \A k \in S : k \in BeforeIn(S, L, b) <=> k \in {h \in DOMAIN R : Earlier(h, b)}
    <3>1. \A k \in S : k \in BeforeIn(S, L, b) <=> Earlier(k, b)
      BY <1>2 DEF BeforeIn
    <3>2. \A k \in S : k \in {h \in DOMAIN R : Earlier(h, b)} <=> Earlier(k, b)
      BY <1>1
    <3> QED BY <3>1, <3>2
  <2>2. BeforeIn(S, L, b) \subseteq S /\ {h \in DOMAIN R : Earlier(h, b)} \subseteq S
    BY <1>1 DEF BeforeIn
  <2>3. BeforeIn(S, L, b) = {h \in DOMAIN R : Earlier(h, b)}
    <3> HIDE DEF Earlier, L
    <3> QED BY <2>1, <2>2
  <2>4. Place(R, b) = Cardinality({h \in DOMAIN R : Earlier(h, b)}) + 1
    BY DEF Place
  <2> HIDE DEF Earlier, L
  <2> QED BY <1>5, <2>3, <2>4
<1> HIDE DEF L
<1>7. ASSUME NEW k \in S
      PROVE  \E a \in S : place[a] = k /\ s[k] = R[a]
  <2> DEFINE a == CHOOSE b \in S : Place(R, b) = k
  <2>1. \E b \in S : Place(R, b) = k
    BY <1>5, <1>6
  <2>2. a \in S /\ Place(R, a) = k
    BY <2>1
  <2>3. s[k] = R[a]
    BY <1>1 DEF Stable
  <2> QED BY <1>6, <2>2, <2>3
<1>8. s = [k \in S |-> s[k]]
  BY <1>1 DEF Stable
<1> HIDE DEF s
<1>9. s \in [1..total -> ToSet(R)]
  <2>1. \A k \in S : s[k] \in ToSet(R)
    BY <1>1, <1>7
  <2> QED BY <1>8, <2>1
<1>10. \A j, k \in 1..total : s[j] = s[k] => j = k
  <2> SUFFICES ASSUME NEW j \in S, NEW k \in S, s[j] = s[k] PROVE j = k
    OBVIOUS
  <2>1. PICK a \in S : place[a] = j /\ s[j] = R[a]
    BY <1>7
  <2>2. PICK b \in S : place[b] = k /\ s[k] = R[b]
    BY <1>7
  <2>4. R[a] = R[b]
    BY <2>1, <2>2
  <2>3. a = b
    BY <1>1, <2>4
  <2> QED BY <2>1, <2>2, <2>3
<1>11. \A k \in 1..total-1 : ~Above(s[k+1], s[k])
  <2> SUFFICES ASSUME NEW k \in 1..total-1 PROVE ~Above(s[k+1], s[k])
    OBVIOUS
  <2>1. k \in S /\ k + 1 \in S /\ k < k + 1
    OBVIOUS
  <2>2. PICK a \in S : place[a] = k /\ s[k] = R[a]
    BY <1>7, <2>1
  <2>3. PICK b \in S : place[b] = k + 1 /\ s[k+1] = R[b]
    BY <1>7, <2>1
  <2>7. place[a] < place[b]
    BY <2>1, <2>2, <2>3
  <2>4. <<a, b>> \in L
    BY <1>5, <2>7
  <2>6. Earlier(a, b)
    BY <1>2, <2>4
  <2>5. R[a] \in Hit /\ R[b] \in Hit
    BY <1>1
  <2> QED BY <2>2, <2>3, <2>6, <2>5, AboveIsOrder
<1>12. \A r \in ToSet(R) : \E k \in 1..total : s[k] = r
  <2> SUFFICES ASSUME NEW a \in S PROVE \E k \in 1..total : s[k] = R[a]
    BY <1>1, SMTT(30)
  <2>1. place[a] \in S
    BY <1>p DEF Placing
  <2>2. PICK b \in S : place[b] = place[a] /\ s[place[a]] = R[b]
    BY <1>7, <2>1
  <2> QED BY <1>5, <2>1, <2>2
<1>13. IsInjective(s)
  BY <1>9, <1>10 DEF IsInjective
<1>14. \A r \in ToSet(R) \ {s[k] : k \in 1..total} : ~Above(r, s[total])
  BY <1>12
<1>15. s \in Tops(R, total)
  BY <1>9, <1>11, <1>13, <1>14 DEF Tops
<1> QED BY <1>15 DEF s

(***************************************************************************)
(* A list that is ranked as far as n, and a page that is part of it.       *)
(***************************************************************************)
Ranked(t, R, n) ==
    /\ t \in Seq(ToSet(R)) /\ Distinct(t, Len(t)) /\ Least(n, Len(t)) = Least(n, Len(R))
    /\ \A k \in 1..Len(t) : k <= n => AtPlace(R, t[k], k)

PageSize(total, start, limit) == IF start < total THEN Least(limit, total - start) ELSE 0

IsPage(items, R, start, limit) ==
    /\ items \in Seq(ToSet(R)) /\ Distinct(items, Len(items))
    /\ Len(items) = PageSize(Len(R), start, limit)
    /\ \A k \in 1..Len(items) : AtPlace(R, items[k], start + k)

\* A list of the best is ranked as far as it goes.
LEMMA TopsAreRanked ==
    ASSUME NEW R, Listing(R), NEW n \in Nat, NEW m \in Nat, m <= Len(R),
           m >= n \/ m = Len(R), NEW s \in Tops(R, m)
    PROVE  Ranked(s, R, n)
<1>1. s \in Seq(ToSet(R)) /\ Len(s) = m /\ Distinct(s, m)
  BY TopsAre
<1>2. \A k \in 1..m : AtPlace(R, s[k], k)
  BY TopsRank
<1>3. Len(R) \in Nat
  BY DEF Listing
<1>4. Least(n, m) = Least(n, Len(R))
  BY <1>3 DEF Least
<1> QED BY <1>1, <1>2, <1>4 DEF Ranked

\* A slice of what is ranked to its end is a page of the ranking.
LEMMA SliceIsPage ==
    ASSUME NEW R, Listing(R), NEW offset \in Nat, NEW limit \in Nat \ {0},
           NEW t, Ranked(t, R, offset + limit)
    PROVE  IsPage(Slice(t, offset, limit), R, offset, limit)
<1> DEFINE p == Slice(t, offset, limit)
           last == Least(offset + limit, Len(t))
<1>1. PICK total \in Nat : total = Len(R)
  BY DEF Listing
<1>2. /\ t \in Seq(ToSet(R)) /\ Distinct(t, Len(t)) /\ Least(offset + limit, Len(t)) = Least(offset + limit, total)
      /\ \A k \in 1..Len(t) : k <= offset + limit => AtPlace(R, t[k], k)
  BY <1>1 DEF Ranked
<1>3. PICK len \in Nat : len = Len(t)
  BY <1>2
<1>4. /\ \A i \in 1..len : t[i] \in ToSet(R)
      /\ last \in Nat /\ last <= len /\ last <= offset + limit
  BY <1>2, <1>3 DEF Least
<1>5. p = SubSeq(t, offset + 1, last)
  BY DEF Slice
<1> DEFINE size == IF offset < last THEN last - offset ELSE 0
<1>6. size \in Nat /\ \A k \in 1..size : offset + k \in 1..len /\ offset + k <= offset + limit
  BY <1>4
<1>7. p \in Seq(ToSet(R)) /\ Len(p) = size /\ \A k \in 1..size : p[k] = t[offset + k]
  <2> HIDE DEF last
  <2>1. \A i \in offset + 1..last : t[i] \in ToSet(R)
    BY <1>4
  <2>2. CASE offset < last
    <3>1. /\ SubSeq(t, offset + 1, last) \in Seq(ToSet(R))
          /\ Len(SubSeq(t, offset + 1, last)) = last - (offset + 1) + 1
          /\ \A i \in 1..(last - (offset + 1) + 1) : SubSeq(t, offset + 1, last)[i] = t[(offset + 1) + i - 1]
      BY <1>2, <1>3, <1>4, <2>2, SubSeqProperties
    <3>2. size = last - (offset + 1) + 1
      BY <1>4, <2>2
    <3>3. \A k \in 1..size : (offset + 1) + k - 1 = offset + k
      BY <1>6
    <3> QED BY <1>5, <3>1, <3>2, <3>3
  <2>3. CASE ~(offset < last)
    <3>1. SubSeq(t, offset + 1, last) = << >>
      BY <1>4, <2>3, SubSeqEmpty
    <3>2. size = 0
      BY <2>3
    <3>3. p = << >>
      BY <1>5, <3>1
    <3> HIDE DEF p, size
    <3> QED BY <3>2, <3>3, EmptySeq
  <2> QED BY <2>2, <2>3
<1>8. size = PageSize(total, offset, limit)
  BY <1>2, <1>3 DEF PageSize, Least
<1> HIDE DEF p, size, last
<1>9. \A k \in 1..size : AtPlace(R, p[k], offset + k)
  BY <1>2, <1>3, <1>6, <1>7
<1>10. \A j, k \in 1..size : p[j] = p[k] => j = k
  <2> SUFFICES ASSUME NEW j \in 1..size, NEW k \in 1..size, p[j] = p[k] PROVE j = k
    OBVIOUS
  <2>1. offset + j \in 1..len /\ offset + k \in 1..len /\ t[offset + j] = t[offset + k]
    BY <1>6, <1>7
  <2>2. offset + j = offset + k
    BY <1>2, <1>3, <2>1 DEF Distinct
  <2>3. j \in Nat /\ k \in Nat
    BY <1>6
  <2> QED BY <2>2, <2>3
<1>11. IsPage(p, R, offset, limit)
  BY <1>1, <1>7, <1>8, <1>9, <1>10 DEF IsPage, Distinct
<1> QED BY <1>11 DEF p
-----------------------------------------------------------------------------
(***************************************************************************)
(* What a search finds is a listing.  The texts of a query are tokens, and *)
(* the score of the parts of a text is a number.                           *)
(***************************************************************************)
Text == Tokens \cup {Bare(t) : t \in Tokens}

\* The averages of the parts, one after the other, are defined.
LEMMA ScoresExist ==
    ASSUME NEW n \in Nat, NEW f \in [1..n -> Int], NEW d \in Nat \ {0}
    PROVE  \E s \in [1..n -> Int] :
             s = [k \in 1..n |-> IF k = 1 THEN f[1] ELSE (s[k-1] + f[k]) \div d]
<1> DEFINE Good(m) == \E s \in [1..m -> Int] : s = [k \in 1..m |-> IF k = 1 THEN f[1] ELSE (s[k-1] + f[k]) \div d]
           Bad == {m \in 0..n : ~Good(m)}
<1> SUFFICES ASSUME ~Good(n) PROVE FALSE
  OBVIOUS
<1>1. n \in Bad
  OBVIOUS
<1>2. Bad \subseteq Nat
  OBVIOUS
<1> HIDE DEF Good
<1>3. PICK m \in Bad : \A h \in Bad : m <= h
  BY <1>1, <1>2, LeastNat
<1>4. m \in 0..n /\ ~Good(m)
  OBVIOUS
<1>5. Good(0)
  <2> DEFINE s == [k \in 1..0 |-> 0]
  <2>1. s \in [1..0 -> Int]
    OBVIOUS
  <2>2. s = [k \in 1..0 |-> IF k = 1 THEN f[1] ELSE (s[k-1] + f[k]) \div d]
    OBVIOUS
  <2> QED BY <2>1, <2>2 DEF Good
<1>6. m - 1 \in 0..n /\ m \in Nat /\ m > 0 /\ m - 1 \in Nat
  <2>1. m # 0
    BY <1>4, <1>5
  <2> QED BY <1>4, <2>1
<1>7. Good(m - 1)
  <2>1. m - 1 \notin Bad
    BY <1>3, <1>6
  <2> QED BY <1>6, <2>1
<1> HIDE DEF Bad
<1>8. PICK s \in [1..m - 1 -> Int] : s = [k \in 1..m - 1 |-> IF k = 1 THEN f[1] ELSE (s[k-1] + f[k]) \div d]
  BY <1>7 DEF Good
<1> DEFINE v == IF m = 1 THEN f[1] ELSE (s[m - 1] + f[m]) \div d
           t == [k \in 1..m |-> IF k = m THEN v ELSE s[k]]
<1>9. m \in 1..n /\ 1 \in 1..n
  BY <1>4, <1>6
<1>10. v \in Int
  <2>1. f[1] \in Int /\ f[m] \in Int
    BY <1>9
  <2>2. m # 1 => s[m - 1] \in Int
    BY <1>6
  <2>3. \A a, b \in Int : (a + b) \div d \in Int
    OBVIOUS
  <2> QED BY <2>1, <2>2, <2>3
<1> HIDE DEF v
<1>11. t \in [1..m -> Int]
  <2>1. \A k \in 1..m : k # m => k \in 1..m - 1
    BY <1>6
  <2> QED BY <1>10, <2>1
<1>12. \A k \in 1..m : t[k] = IF k = 1 THEN f[1] ELSE (t[k-1] + f[k]) \div d
  <2> TAKE k \in 1..m
  <2>1. CASE k = m
    <3>1. m # 1 => t[m - 1] = s[m - 1]
      BY <1>6
    <3>2. t[m] = v
      BY <1>6
    <3> QED BY <2>1, <3>1, <3>2 DEF v
  <2>2. CASE k # m
    <3>1. k \in 1..m - 1
      BY <1>6, <2>2
    <3>2. t[k] = s[k]
      BY <2>2
    <3>3. s[k] = IF k = 1 THEN f[1] ELSE (s[k-1] + f[k]) \div d
      BY <1>8, <3>1
    <3>4. k # 1 => t[k - 1] = s[k - 1]
      BY <1>6, <3>1
    <3> QED BY <3>2, <3>3, <3>4
  <2> QED BY <2>1, <2>2
<1>13. t = [k \in 1..m |-> t[k]]
  OBVIOUS
<1> HIDE DEF t
<1>14. t = [k \in 1..m |-> IF k = 1 THEN f[1] ELSE (t[k-1] + f[k]) \div d]
  BY <1>12, <1>13
<1> QED BY <1>4, <1>11, <1>14 DEF Good

\* The score of the parts of a query is a number.
LEMMA BaseScoreIsInt ==
    ASSUME NEW parts \in Seq(Text), parts # << >>, NEW i \in Items
    PROVE  BaseScore(parts, i) \in Int
<1> DEFINE f == [k \in 1..Len(parts) |-> Similar(parts[k], i)]
<1>1. PICK n \in Nat \ {0} : n = Len(parts)
  BY EmptySeq
<1>2. \A k \in 1..n : Similar(parts[k], i) \in Int
  <2> TAKE k \in 1..n
  <2>1. parts[k] \in Text
    BY <1>1
  <2> QED BY <2>1, SearchAssumption DEF Text
<1>3. f \in [1..n -> Int] /\ \A k \in 1..n : f[k] = Similar(parts[k], i)
  BY <1>1, <1>2
<1> HIDE DEF f
<1> DEFINE Good(s) == s = [k \in 1..n |-> IF k = 1 THEN Similar(parts[1], i)
                                         ELSE (s[k-1] + Similar(parts[k], i)) \div n]
<1>4. \E s : Good(s)
  <2>1. PICK s \in [1..n -> Int] : s = [k \in 1..n |-> IF k = 1 THEN f[1] ELSE (s[k-1] + f[k]) \div n]
    BY <1>3, ScoresExist
  <2>2. \A k \in 1..n : s[k] = IF k = 1 THEN Similar(parts[1], i) ELSE (s[k-1] + Similar(parts[k], i)) \div n
    BY <1>3, <2>1
  <2>3. s = [k \in 1..n |-> s[k]]
    BY <2>1
  <2>4. Good(s)
    BY <2>2, <2>3
  <2> QED BY <2>4
<1> DEFINE score == CHOOSE s : Good(s)
<1>5. BaseScore(parts, i) = score[n]
  BY <1>1 DEF BaseScore
<1>6. Good(score)
  BY <1>4
<1> HIDE DEF score
<1>7. \A k \in 1..n : score[k] = IF k = 1 THEN Similar(parts[1], i) ELSE (score[k-1] + Similar(parts[k], i)) \div n
  BY <1>6
<1> DEFINE T == {k \in 1..n : score[k] \notin Int}
<1>8. ASSUME T # {} PROVE FALSE
  <2>1. T \subseteq Nat
    OBVIOUS
  <2>2. PICK k \in T : \A h \in T : k <= h
    BY <1>8, <2>1, LeastNat
  <2>3. k \in 1..n /\ score[k] \notin Int
    OBVIOUS
  <2>4. k # 1
    BY <1>2, <1>7, <2>3
  <2>5. k - 1 \in 1..n /\ ~(k <= k - 1)
    BY <2>3, <2>4
  <2>6. score[k - 1] \in Int /\ Similar(parts[k], i) \in Int
    BY <1>2, <2>2, <2>3, <2>5
  <2>7. \A a, b \in Int : (a + b) \div n \in Int
    OBVIOUS
  <2>8. score[k] = (score[k - 1] + Similar(parts[k], i)) \div n
    BY <1>7, <2>3, <2>4
  <2> HIDE DEF T
  <2> QED BY <2>3, <2>6, <2>7, <2>8
<1>9. n \in 1..n
  OBVIOUS
<1> QED BY <1>5, <1>8, <1>9

\* Every score by which hits are compared is a number.
LEMMA ScoresAreInt ==
    ASSUME NEW parts \in Seq(Text), NEW i \in Items
    PROVE  /\ FrecencyScore(i) \in Int /\ i.frecency \in Int /\ i.modified \in Int
           /\ \A combo \in [Items -> Int] : parts # << >> => FileScore(parts, i, combo) \in Int
           /\ parts # << >> => DirScore(BaseScore(parts, i), i) \in Int
<1>1. i.frecency \in Int /\ i.modified \in Int /\ i.bonus \in Int
  BY SearchAssumption
<1>2. FrecencyScore(i) \in Int
  BY <1>1 DEF FrecencyScore, Penalty
<1>3. ASSUME parts # << >>
      PROVE  /\ \A combo \in [Items -> Int] : FileScore(parts, i, combo) \in Int
             /\ DirScore(BaseScore(parts, i), i) \in Int
  <2> DEFINE base == BaseScore(parts, i)
  <2>1. base \in Int
    BY <1>3, BaseScoreIsInt
  <2> HIDE DEF base
  <2>2. base * i.frecency \in Int
    BY <1>1, <2>1
  <2>3. (base * i.frecency) \div 100 \in Int
    BY <2>2
  <2>4. DirScore(base, i) \in Int
    BY <1>1, <2>1, <2>3 DEF DirScore
  <2>5. Weighted(base, i) \in Int
    BY <1>1, <2>1, <2>3 DEF Weighted, Penalty
  <2>6. ASSUME NEW combo \in [Items -> Int] PROVE Weighted(base, i) + combo[i] \in Int
    BY <2>5
  <2> QED BY <2>4, <2>6 DEF FileScore, base
<1> QED BY <1>1, <1>2, <1>3

\* The text of a query, once its location is taken off, is of tokens.
LEMMA ResultText ==
    ASSUME NEW cs, NEW text \in Seq(Tokens), NEW c
    PROVE  Result(cs, text, c).text \in Seq(Text)
<1> DEFINE loc == Locations(c) /\ text # << >> /\ Located(Last(text))
           rest == IF loc THEN [text EXCEPT ![Len(text)] = Bare(Last(text))] ELSE text
<1>1. PICK n \in Nat : n = Len(text) /\ text \in [1..n -> Tokens]
  BY LenProperties
<1>2. text \in Seq(Text)
  BY SeqMonotonic DEF Text
<1>3. rest \in Seq(Text)
  <2>1. CASE loc
    <3>1. n > 0
      BY <1>1, <2>1, EmptySeq
    <3>2. Last(text) \in Tokens
      BY <1>1, <3>1 DEF Last
    <3>3. Bare(Last(text)) \in Text
      BY <3>2 DEF Text
    <3>4. rest = [text EXCEPT ![n] = Bare(Last(text))]
      BY <1>1, <2>1
    <3>5. text \in [1..n -> Text]
      BY <1>1 DEF Text
    <3>6. [text EXCEPT ![n] = Bare(Last(text))] \in [1..n -> Text]
      BY <3>3, <3>5
    <3>7. rest \in [1..n -> Text]
      BY <3>4, <3>6
    <3> HIDE DEF rest
    <3> QED BY <3>7, SeqDef
  <2>2. CASE ~loc
    BY <1>2, <2>2
  <2> QED BY <2>1, <2>2
<1>4. Result(cs, text, c).text = IF \A i \in DOMAIN rest : rest[i].shape = "empty" THEN << >> ELSE rest
  BY DEF Result
<1> HIDE DEF rest
<1> QED BY <1>3, <1>4, EmptySeq

\* What is left to be matched is a list of tokens.
LEMMA ParseText ==
    ASSUME NEW q \in Seq(Tokens), NEW c
    PROVE  Parse(q, c).text \in Seq(Text)
<1>1. << >> \in Seq(Tokens)
  BY EmptySeq
<1>2. CASE Len(q) = 0
  <2>1. Parse(q, c) = Result(<< >>, << >>, c)
    BY <1>2 DEF Parse
  <2> QED BY <1>1, <2>1, ResultText
<1>3. CASE Len(q) = 1
  <2>1. q[1] \in Tokens
    BY <1>3
  <2>2. <<q[1]>> \in Seq(Tokens)
    BY <2>1
  <2>3. Parse(q, c) = ParseOne(q[1], c)
    BY <1>3 DEF Parse
  <2>4. \E cs : \E text \in Seq(Tokens) : ParseOne(q[1], c) = Result(cs, text, c)
    BY <1>1, <2>2 DEF ParseOne
  <2> QED BY <2>3, <2>4, ResultText
<1>4. CASE Len(q) # 0 /\ Len(q) # 1
  <2>1. Parse(q, c) = ParseMany(q, c)
    BY <1>4 DEF Parse
  <2>2. \E cs : \E I \in SUBSET DOMAIN q : ParseMany(q, c) = Result(cs, Pick(q, I), c)
    <3> DEFINE parsed == [i \in DOMAIN q |-> ParseToken(q[i], c)]
               names == {i \in DOMAIN q : IsName(parsed[i])}
               first == {i \in names : \A j \in names : i <= j}
               text == {i \in DOMAIN q : parsed[i] = None} \cup (names \ first)
               promoted == IF text = {} THEN first ELSE {}
    <3>1. ParseMany(q, c) = Result(Pick(parsed, DOMAIN q \ (text \cup promoted)), Pick(q, text \cup promoted), c)
      BY DEF ParseMany
    <3>2. text \cup promoted \in SUBSET DOMAIN q
      OBVIOUS
    <3> HIDE DEF parsed, text, promoted
    <3> QED BY <3>1, <3>2
  <2>3. \A I \in SUBSET DOMAIN q : Pick(q, I) \in Seq(Tokens)
    BY PickSeq
  <2> QED BY <2>1, <2>2, <2>3, ResultText
<1> QED BY <1>2, <1>3, <1>4

\* A list in which every item is once, and the listing of its scores.
OneEach(list) == list \in Seq(Items) /\ IsInjective(list)
Of(R, D) == Listing(R) /\ \A k \in DOMAIN R : R[k].item \in D

\* Picking repeats nothing.
LEMMA PickOneEach ==
    ASSUME NEW list, OneEach(list), NEW I, I \subseteq DOMAIN list
    PROVE  OneEach(Pick(list, I)) /\ ToSet(Pick(list, I)) \subseteq ToSet(list)
<1>1. /\ Pick(list, I) \in Seq(Items) /\ IsInjective(Pick(list, I))
      /\ \A k \in DOMAIN Pick(list, I) : \E i \in I : Pick(list, I)[k] = list[i]
  BY PickSeq DEF OneEach
<1>2. \A k \in DOMAIN Pick(list, I) : Pick(list, I)[k] \in ToSet(list)
  BY <1>1 DEF ToSet
<1>3. ToSet(Pick(list, I)) \subseteq ToSet(list)
  BY <1>2 DEF ToSet
<1> QED BY <1>1, <1>3 DEF OneEach

\* Filtering repeats nothing and adds nothing.
LEMMA FilteredIs ==
    ASSUME NEW list, OneEach(list), NEW cs
    PROVE  OneEach(Filtered(cs, list)) /\ ToSet(Filtered(cs, list)) \subseteq ToSet(list)
<1> DEFINE kept == ApplyConstraints(cs, ToSet(list))
           I == {k \in DOMAIN list : list[k] \in kept}
<1>1. Filtered(cs, list) = IF cs = << >> THEN list ELSE Pick(list, I)
  BY DEF Filtered
<1>2. I \subseteq DOMAIN list
  OBVIOUS
<1> HIDE DEF I
<1> QED BY <1>1, <1>2, PickOneEach

\* A hit, field by field.
HitOf(i, t, m) == [item |-> i, total |-> t, modified |-> m]

\* A hit is its item, its total and its time.
LEMMA HitFields ==
    /\ \A i, t, m : HitOf(i, t, m).item = i /\ HitOf(i, t, m).total = t /\ HitOf(i, t, m).modified = m
    /\ \A i \in Items, t \in Int, m \in Int : HitOf(i, t, m) \in Hit
    /\ \A h \in Hit : /\ h = HitOf(h.item, h.total, h.modified)
                       /\ h.item \in Items /\ h.total \in Int /\ h.modified \in Int
    /\ \A h \in Hit : [h EXCEPT !.modified = 0] = HitOf(h.item, h.total, 0)
BY DEF HitOf, Hit

\* Scoring a list makes one hit of each item.
LEMMA ScoredIs ==
    ASSUME NEW list, OneEach(list), NEW score, \A i \in Items : score[i] \in Int
    PROVE  Of(Scored(list, score), ToSet(list))
<1> DEFINE R == Scored(list, score)
<1>1. PICK n \in Nat : n = Len(list) /\ list \in [1..n -> Items] /\ DOMAIN list = 1..n
  BY LenProperties DEF OneEach
<1>2. R = [k \in 1..n |-> [item |-> list[k], total |-> score[list[k]], modified |-> list[k].modified]]
  BY <1>1 DEF Scored
<1>3. \A k \in 1..n : R[k] = HitOf(list[k], score[list[k]], list[k].modified)
  BY <1>2 DEF HitOf
<1>5. R = [k \in 1..n |-> R[k]]
  BY <1>2
<1> HIDE DEF R
<1>4. \A k \in 1..n : R[k] \in Hit
  <2> TAKE k \in 1..n
  <2>1. list[k] \in Items
    BY <1>1
  <2>2. score[list[k]] \in Int /\ list[k].modified \in Int
    BY <2>1, SearchAssumption
  <2> QED BY <1>3, <2>1, <2>2, HitFields
<1>6. R \in [1..n -> Hit]
  BY <1>4, <1>5
<1>7. R \in Seq(Hit) /\ DOMAIN R = 1..n
  BY <1>6, SeqDef
<1>10. \A k \in 1..n : R[k].item = list[k]
  BY <1>3, HitFields
<1>8. \A j, k \in 1..n : R[j].item = R[k].item => j = k
  BY <1>1, <1>10 DEF OneEach, IsInjective
<1>9. \A k \in 1..n : R[k].item \in ToSet(list)
  BY <1>1, <1>10 DEF ToSet
<1> QED BY <1>7, <1>8, <1>9 DEF Of, Listing, R

\* The mixed search compares totals alone.
LEMMA ByTotalIs ==
    ASSUME NEW R, NEW D, Of(R, D)
    PROVE  /\ Of(ByTotal(R), D) /\ Len(ByTotal(R)) = Len(R) /\ DOMAIN ByTotal(R) = DOMAIN R
           /\ \A k \in DOMAIN R : ByTotal(R)[k] = HitOf(R[k].item, R[k].total, 0)
<1> DEFINE B == ByTotal(R)
<1>1. PICK n \in Nat : n = Len(R) /\ R \in [1..n -> Hit] /\ DOMAIN R = 1..n
  BY LenProperties DEF Of, Listing
<1>2. B = [k \in 1..n |-> [R[k] EXCEPT !.modified = 0]]
  BY <1>1 DEF ByTotal
<1>3. \A k \in 1..n : B[k] = HitOf(R[k].item, R[k].total, 0)
  <2> TAKE k \in 1..n
  <2>1. R[k] \in Hit
    BY <1>1
  <2>2. B[k] = [R[k] EXCEPT !.modified = 0]
    BY <1>2
  <2> QED BY <2>1, <2>2, HitFields
<1>5. B = [k \in 1..n |-> B[k]]
  BY <1>2
<1> HIDE DEF B
<1>4. \A k \in 1..n : B[k] \in Hit /\ B[k].item = R[k].item
  <2> TAKE k \in 1..n
  <2>1. R[k] \in Hit
    BY <1>1
  <2> QED BY <1>3, <2>1, HitFields
<1>6. B \in [1..n -> Hit]
  BY <1>4, <1>5
<1>7. B \in Seq(Hit) /\ DOMAIN B = 1..n /\ Len(B) = n
  BY <1>6, SeqDef
<1>8. \A j, k \in 1..n : B[j].item = B[k].item => j = k
  BY <1>1, <1>4 DEF Of, Listing
<1>9. \A k \in 1..n : B[k].item \in D
  BY <1>1, <1>4 DEF Of
<1> QED BY <1>1, <1>3, <1>7, <1>8, <1>9 DEF Of, Listing, B

\* Two listings of different items make one.
LEMMA ConcatIs ==
    ASSUME NEW R, NEW D, Of(R, D), NEW S, NEW E, Of(S, E), D \cap E = {}
    PROVE  /\ Of(R \o S, D \cup E) /\ Len(R \o S) = Len(R) + Len(S)
           /\ \A k \in DOMAIN R : (R \o S)[k] = R[k]
           /\ \A k \in DOMAIN S : (R \o S)[Len(R) + k] = S[k]
<1>1. PICK n \in Nat : n = Len(R) /\ R \in Seq(Hit) /\ DOMAIN R = 1..n
  BY LenProperties DEF Of, Listing
<1>2. PICK m \in Nat : m = Len(S) /\ S \in Seq(Hit) /\ DOMAIN S = 1..m
  BY LenProperties DEF Of, Listing
<1> DEFINE C == R \o S
<1>3. /\ C \in Seq(Hit) /\ Len(C) = n + m
      /\ \A i \in 1..n + m : C[i] = IF i <= n THEN R[i] ELSE S[i - n]
  BY <1>1, <1>2, ConcatProperties
<1>4. DOMAIN C = 1..n + m
  BY <1>3
<1> HIDE DEF C
<1>5. \A k \in 1..n : k \in 1..n + m /\ C[k] = R[k]
  BY <1>3
<1>6. \A k \in 1..m : n + k \in 1..n + m /\ C[n + k] = S[k]
  <2> TAKE k \in 1..m
  <2>1. n + k \in 1..n + m /\ ~(n + k <= n) /\ (n + k) - n = k
    OBVIOUS
  <2> QED BY <1>3, <2>1
<1>7. ASSUME NEW i \in 1..n + m
      PROVE  \/ i \in 1..n /\ C[i] = R[i] /\ C[i].item \in D
             \/ i - n \in 1..m /\ C[i] = S[i - n] /\ C[i].item \in E
  <2>1. CASE i <= n
    <3>1. i \in 1..n
      BY <2>1
    <3> QED BY <1>1, <1>5, <3>1 DEF Of
  <2>2. CASE ~(i <= n)
    <3>1. i - n \in 1..m
      BY <2>2
    <3>2. C[i] = S[i - n]
      BY <1>3, <2>2
    <3> QED BY <1>2, <3>1, <3>2 DEF Of
  <2> QED BY <2>1, <2>2
<1>8. \A k \in 1..n + m : C[k].item \in D \cup E
  BY <1>7
<1>9. \A i, j \in 1..n + m : C[i].item = C[j].item => i = j
  <2> SUFFICES ASSUME NEW i \in 1..n + m, NEW j \in 1..n + m, C[i].item = C[j].item PROVE i = j
    OBVIOUS
  <2>1. CASE i \in 1..n /\ j \in 1..n /\ C[i] = R[i] /\ C[j] = R[j]
    BY <1>1, <2>1 DEF Of, Listing
  <2>2. CASE i - n \in 1..m /\ j - n \in 1..m /\ C[i] = S[i - n] /\ C[j] = S[j - n]
    <3>1. i - n = j - n
      BY <1>2, <2>2 DEF Of, Listing
    <3> QED BY <3>1
  <2> QED BY <1>7, <2>1, <2>2
<1> QED BY <1>1, <1>2, <1>3, <1>4, <1>5, <1>6, <1>8, <1>9 DEF Of, Listing, C

\* A listing is of any larger set too.
LEMMA OfMore ==
    ASSUME NEW R, NEW D, NEW E, Of(R, D), D \subseteq E
    PROVE  Of(R, E)
BY DEF Of

\* Matching repeats nothing and adds nothing.
LEMMA MatchingIs ==
    ASSUME NEW list, OneEach(list), NEW parts
    PROVE  OneEach(Matching(list, parts)) /\ ToSet(Matching(list, parts)) \subseteq ToSet(list)
<1> DEFINE I == {k \in DOMAIN list : Matches(parts, list[k])}
<1>1. I \subseteq DOMAIN list
  OBVIOUS
<1> HIDE DEF I
<1>2. Matching(list, parts) = Pick(list, I)
  BY DEF Matching, I
<1> QED BY <1>1, <1>2, PickOneEach

\* What is found in an arena is a listing of its items.
LEMMA ArenaIs ==
    ASSUME NEW items, OneEach(items), NEW p, p.text \in Seq(Text), NEW combo \in [Items -> Int]
    PROVE  Of(InArena(items, p, combo), ToSet(items))
<1> DEFINE kept == Filtered(p.constraints, items)
           I == {k \in DOMAIN kept : ~kept[k].deleted}
           live == Pick(kept, I)
           parts == Valid(p.text)
           byText == Matching(live, parts)
           J == {k \in DOMAIN p.text : p.text[k].shape \notin {"short", "empty"}}
           text == [i \in Items |-> FileScore(parts, i, combo)]
           frecency == [i \in Items |-> FrecencyScore(i)]
<1>1. InArena(items, p, combo) = IF ByText(p.text) THEN Scored(byText, text) ELSE Scored(live, frecency)
  BY DEF InArena
<1>2. parts \in Seq(Text)
  <2>1. J \subseteq DOMAIN p.text
    OBVIOUS
  <2> HIDE DEF J
  <2>2. Pick(p.text, J) \in Seq(Text)
    BY <2>1, PickSeq
  <2> QED BY <2>2 DEF Valid, J
<1>3. \A i \in Items : frecency[i] \in Int
  BY <1>2, ScoresAreInt
<1>4. \A i \in Items : parts # << >> => text[i] \in Int
  BY <1>2, ScoresAreInt
<1>5. I \subseteq DOMAIN kept
  OBVIOUS
<1> HIDE DEF text, frecency, I, parts, kept
<1>6. OneEach(kept) /\ ToSet(kept) \subseteq ToSet(items)
  BY FilteredIs DEF kept
<1>7. OneEach(live) /\ ToSet(live) \subseteq ToSet(items)
  BY <1>5, <1>6, PickOneEach
<1> HIDE DEF live
<1>8. OneEach(byText) /\ ToSet(byText) \subseteq ToSet(items)
  BY <1>7, MatchingIs
<1>9. Of(Scored(live, frecency), ToSet(items))
  BY <1>3, <1>7, ScoredIs, OfMore
<1>10. CASE parts # << >>
  BY <1>1, <1>4, <1>8, <1>9, <1>10, ScoredIs, OfMore
<1>11. CASE parts = << >>
  <2>1. ~Matches(parts, live[1]) /\ \A i : ~Matches(parts, i)
    BY <1>11 DEF Matches
  <2>2. byText = << >>
    <3> DEFINE K == {k \in DOMAIN live : Matches(parts, live[k])}
    <3>1. K = {}
      BY <2>1
    <3> HIDE DEF K
    <3>2. byText = Pick(live, K)
      BY DEF Matching, K
    <3>3. Pick(live, K) \in Seq(Items) /\ Len(Pick(live, K)) = 0
      BY <1>7, <3>1, PickSeq, FS_EmptySet DEF OneEach
    <3> QED BY <3>2, <3>3, EmptySeq
  <2>3. Scored(byText, text) = << >>
    BY <2>2 DEF Scored
  <2>4. Of(<< >>, ToSet(items))
    BY EmptySeq DEF Of, Listing
  <2> QED BY <1>1, <1>9, <2>3, <2>4
<1> QED BY <1>10, <1>11

\* Base and overflow files and directories are different items.
LEMMA IndexLists ==
    /\ OneEach(FileSeq) /\ OneEach(DirSeq) /\ ToSet(FileSeq) \cap ToSet(DirSeq) = {}
    /\ OneEach(SubSeq(FileSeq, BaseCount + 1, Len(FileSeq))) /\ OneEach(SubSeq(FileSeq, 1, BaseCount))
    /\ ToSet(SubSeq(FileSeq, BaseCount + 1, Len(FileSeq))) \subseteq ToSet(FileSeq)
    /\ ToSet(SubSeq(FileSeq, 1, BaseCount)) \subseteq ToSet(FileSeq)
    /\ ToSet(SubSeq(FileSeq, BaseCount + 1, Len(FileSeq))) \cap ToSet(SubSeq(FileSeq, 1, BaseCount)) = {}
<1>1. PICK n \in Nat : n = Len(FileSeq) /\ FileSeq \in Seq(Items) /\ DOMAIN FileSeq = 1..n
  BY SearchAssumption, LenProperties
<1>2. PICK m \in Nat : m = Len(DirSeq) /\ DirSeq \in Seq(Items) /\ DOMAIN DirSeq = 1..m
  BY SearchAssumption, LenProperties
<1> DEFINE both == FileSeq \o DirSeq
<1>3. /\ both \in Seq(Items) /\ Len(both) = n + m
      /\ \A i \in 1..n + m : both[i] = IF i <= n THEN FileSeq[i] ELSE DirSeq[i - n]
  BY <1>1, <1>2, ConcatProperties
<1>4. DOMAIN both = 1..n + m /\ IsInjective(both)
  BY <1>3, SearchAssumption
<1> HIDE DEF both
<1>5. \A i, j \in 1..n + m : both[i] = both[j] => i = j
  BY <1>4 DEF IsInjective
<1>6. \A k \in 1..n : k \in 1..n + m /\ both[k] = FileSeq[k] /\ FileSeq[k] \in Items
  BY <1>1, <1>3
<1>7. \A k \in 1..m : n + k \in 1..n + m /\ both[n + k] = DirSeq[k]
  <2> TAKE k \in 1..m
  <2>1. n + k \in 1..n + m /\ ~(n + k <= n) /\ (n + k) - n = k
    OBVIOUS
  <2> QED BY <1>3, <2>1
<1>8. \A i, j \in 1..n : FileSeq[i] = FileSeq[j] => i = j
  BY <1>5, <1>6
<1>9. OneEach(FileSeq)
  BY <1>1, <1>8 DEF OneEach, IsInjective
<1>10. \A i, j \in 1..m : DirSeq[i] = DirSeq[j] => i = j
  <2> SUFFICES ASSUME NEW i \in 1..m, NEW j \in 1..m, DirSeq[i] = DirSeq[j] PROVE i = j
    OBVIOUS
  <2>1. n + i = n + j
    BY <1>5, <1>7
  <2> QED BY <2>1
<1>11. OneEach(DirSeq)
  BY <1>2, <1>10 DEF OneEach, IsInjective
<1>12. ToSet(FileSeq) \cap ToSet(DirSeq) = {}
  <2> SUFFICES ASSUME NEW i \in 1..n, NEW j \in 1..m, FileSeq[i] = DirSeq[j] PROVE FALSE
    BY <1>1, <1>2 DEF ToSet
  <2>1. i = n + j
    BY <1>5, <1>6, <1>7
  <2> QED BY <2>1
<1>13. PICK b \in 0..n : b = BaseCount
  BY <1>1, SearchAssumption
<1> DEFINE new == SubSeq(FileSeq, b + 1, n)
           base == SubSeq(FileSeq, 1, b)
<1>14. new \in Seq(Items) /\ Len(new) = n - b /\ \A k \in 1..n - b : new[k] = FileSeq[b + k]
  <2>1. /\ new \in Seq(Items) /\ Len(new) = IF b + 1 <= n THEN n - (b + 1) + 1 ELSE 0
        /\ \A k \in 1..n - (b + 1) + 1 : new[k] = FileSeq[(b + 1) + k - 1]
    BY <1>6, SubSeqProperties
  <2>2. n - (b + 1) + 1 = n - b /\ (~(b + 1 <= n) => n - b = 0)
    BY <1>13
  <2>3. \A k \in 1..n - b : (b + 1) + k - 1 = b + k
    BY <1>13
  <2> HIDE DEF new
  <2> QED BY <2>1, <2>2, <2>3
<1>15. base \in Seq(Items) /\ Len(base) = b /\ \A k \in 1..b : base[k] = FileSeq[k]
  <2>1. /\ base \in Seq(Items) /\ Len(base) = IF 1 <= b THEN b - 1 + 1 ELSE 0
        /\ \A k \in 1..b - 1 + 1 : base[k] = FileSeq[1 + k - 1]
    BY <1>6, SubSeqProperties
  <2>2. b - 1 + 1 = b /\ (~(1 <= b) => b = 0) /\ \A k \in 1..b : 1 + k - 1 = k
    BY <1>13
  <2> HIDE DEF base
  <2> QED BY <2>1, <2>2
<1> HIDE DEF new, base
<1>16. DOMAIN new = 1..n - b /\ DOMAIN base = 1..b
  BY <1>14, <1>15
<1>17. \A k \in 1..n - b : b + k \in 1..n
  BY <1>13
<1>18. \A k \in 1..b : k \in 1..n
  BY <1>13
<1>19. \A j, k \in 1..n - b : new[j] = new[k] => j = k
  <2> SUFFICES ASSUME NEW j \in 1..n - b, NEW k \in 1..n - b, new[j] = new[k] PROVE j = k
    OBVIOUS
  <2>1. b + j = b + k
    BY <1>8, <1>14, <1>17
  <2> QED BY <1>13, <2>1
<1>20. OneEach(new)
  BY <1>14, <1>16, <1>19 DEF OneEach, IsInjective
<1>21. \A j, k \in 1..b : base[j] = base[k] => j = k
  BY <1>8, <1>15, <1>18
<1>22. OneEach(base)
  BY <1>15, <1>16, <1>21 DEF OneEach, IsInjective
<1>23. ToSet(new) \subseteq ToSet(FileSeq)
  BY <1>1, <1>14, <1>16, <1>17 DEF ToSet
<1>24. ToSet(base) \subseteq ToSet(FileSeq)
  BY <1>1, <1>15, <1>16, <1>18 DEF ToSet
<1>25. ToSet(new) \cap ToSet(base) = {}
  <2> SUFFICES ASSUME NEW i \in 1..n - b, NEW j \in 1..b, new[i] = base[j] PROVE FALSE
    BY <1>16 DEF ToSet
  <2>1. b + i = j
    BY <1>8, <1>14, <1>15, <1>17, <1>18
  <2> QED BY <1>13, <2>1
<1> QED BY <1>1, <1>9, <1>11, <1>12, <1>13, <1>20, <1>22, <1>23, <1>24, <1>25 DEF new, base

IndexStands == filesFound = FilesFound /\ dirsFound = DirsFound

\* The files found are a listing, those of the overflow first.
LEMMA FilesAre ==
    ASSUME NEW p, p.text \in Seq(Text), NEW combo \in [Items -> Int]
    PROVE  Of(FileResults(p, combo), ToSet(FileSeq))
<1> DEFINE new == SubSeq(FileSeq, BaseCount + 1, Len(FileSeq))
           base == SubSeq(FileSeq, 1, BaseCount)
<1>1. OneEach(new) /\ OneEach(base) /\ ToSet(new) \cap ToSet(base) = {}
  BY IndexLists
<1>2. ToSet(new) \cup ToSet(base) \subseteq ToSet(FileSeq)
  BY IndexLists
<1>3. FileResults(p, combo) = InArena(new, p, combo) \o InArena(base, p, combo)
  BY DEF FileResults
<1> HIDE DEF new, base
<1>4. Of(InArena(new, p, combo), ToSet(new)) /\ Of(InArena(base, p, combo), ToSet(base))
  BY <1>1, ArenaIs
<1>5. Of(FileResults(p, combo), ToSet(new) \cup ToSet(base))
  BY <1>1, <1>3, <1>4, ConcatIs
<1> QED BY <1>2, <1>5, OfMore

\* The directories found are a listing.
LEMMA DirsAre ==
    ASSUME NEW p, p.text \in Seq(Text)
    PROVE  \E R : Of(R, ToSet(DirSeq)) /\ DirResults(p) = ByTotal(R)
<1> DEFINE dirs == Filtered(p.constraints, DirSeq)
           parts == Valid(p.text)
           byText == Matching(dirs, parts)
           J == {k \in DOMAIN p.text : p.text[k].shape \notin {"short", "empty"}}
           text == [i \in Items |-> DirScore(BaseScore(parts, i), i)]
           frecency == [i \in Items |-> i.frecency]
           R == IF parts # << >> THEN Scored(byText, text) ELSE Scored(dirs, frecency)
<1>1. DirResults(p) = ByTotal(R)
  BY DEF DirResults
<1>2. parts \in Seq(Text)
  <2>1. J \subseteq DOMAIN p.text
    OBVIOUS
  <2> HIDE DEF J
  <2>2. Pick(p.text, J) \in Seq(Text)
    BY <2>1, PickSeq
  <2> QED BY <2>2 DEF Valid, J
<1>3. \A i \in Items : frecency[i] \in Int
  BY <1>2, ScoresAreInt
<1>4. \A i \in Items : parts # << >> => text[i] \in Int
  BY <1>2, ScoresAreInt
<1> HIDE DEF text, frecency, parts, dirs
<1>5. OneEach(dirs) /\ ToSet(dirs) \subseteq ToSet(DirSeq)
  BY IndexLists, FilteredIs DEF dirs
<1>6. OneEach(byText) /\ ToSet(byText) \subseteq ToSet(DirSeq)
  BY <1>5, MatchingIs
<1> HIDE DEF byText
<1>7. Of(R, ToSet(DirSeq))
  BY <1>3, <1>4, <1>5, <1>6, ScoredIs, OfMore
<1> QED BY <1>1, <1>7

\* What may be searched for is made of tokens.
LEMMA SearchedAre == Searched \subseteq Seq(Tokens) /\ Queries \subseteq Searched
<1>1. Queries \subseteq Seq(Tokens)
  BY SearchAssumption
<1>2. ASSUME NEW q \in Queries, Len(q) >= 3 PROVE SubSeq(q, 1, 2) \in Seq(Tokens)
  <2>1. \A i \in 1..2 : q[i] \in Tokens
    BY <1>1, <1>2
  <2> QED BY <2>1, SubSeqProperties
<1> QED BY <1>1, <1>2 DEF Searched

\* What any search finds is a listing.
LEMMA FoundAre ==
    ASSUME IndexStands, NEW q \in Searched, NEW kind \in Kinds
    PROVE  /\ Of(filesFound[q][kind], ToSet(FileSeq))
           /\ Of(dirsFound[q][kind], ToSet(DirSeq))
           /\ \E R : Of(R, ToSet(DirSeq)) /\ dirsFound[q][kind] = ByTotal(R)
           /\ Listing(Found(q, kind))
<1> DEFINE f == filesFound[q][kind]
           d == dirsFound[q][kind]
           p == Parse(q, Parser(kind))
           combo == Combos(q, kind)
<1>1. p.text \in Seq(Text)
  BY SearchedAre, ParseText
<1>2. f = FileResults(p, combo) /\ d = DirResults(p)
  BY DEF IndexStands, FilesFound, DirsFound
<1>c. combo \in [Items -> Int]
  <2>1. \A i \in Items : Combo(kind = "recalled", q, i) \in Int
    <3>1. (kind = "recalled") \in BOOLEAN
      OBVIOUS
    <3> QED BY <3>1, SearchAssumption
  <2> QED BY <2>1 DEF Combos
<1> HIDE DEF f, d, p, combo
<1>3. Of(f, ToSet(FileSeq))
  BY <1>1, <1>2, <1>c, FilesAre
<1>4. PICK R : Of(R, ToSet(DirSeq)) /\ d = ByTotal(R)
  BY <1>1, <1>2, DirsAre
<1>5. Of(d, ToSet(DirSeq))
  BY <1>4, ByTotalIs
<1>6. Listing(ByTotal(f \o d))
  <2>1. Of(f \o d, ToSet(FileSeq) \cup ToSet(DirSeq))
    BY <1>3, <1>5, IndexLists, ConcatIs
  <2> QED BY <2>1, ByTotalIs DEF Of
<1>7. Listing(Found(q, kind))
  <2>1. Found(q, kind) \in {f, d, ByTotal(f \o d)}
    BY DEF Found, Kinds, f, d
  <2> QED BY <1>3, <1>5, <1>6, <2>1 DEF Of
<1> QED BY <1>3, <1>4, <1>5, <1>7 DEF f, d
-----------------------------------------------------------------------------
(***************************************************************************)
(* Every answer is a page of the ranking.  A list that fits the limit      *)
(* comes whole.                                                            *)
(***************************************************************************)
StartOf(R, offset, limit) == IF Len(R) <= limit /\ offset < Len(R) THEN 0 ELSE offset

\* A page as it is sorted and cut is a page of the ranking, or the whole list.
LEMMA PagesArePages ==
    ASSUME NEW R, Listing(R), NEW offset \in Nat, NEW limit \in Nat \ {0}, NEW items \in Pages(R, offset, limit)
    PROVE  IsPage(items, R, StartOf(R, offset, limit), limit)
<1> DEFINE needed == Needed(Len(R), offset, limit)
           partial == needed < Len(R) \div 2 /\ Len(R) > PartialAbove
<1>1. PICK total \in Nat : total = Len(R)
  BY DEF Listing
<1>2. items \in IF offset >= Len(R) THEN {<<>>}
                ELSE {Cut(s, offset, limit) : s \in IF partial THEN Tops(R, needed) ELSE {Stable(R)}}
  BY DEF Pages
<1> HIDE DEF partial
<1>3. CASE offset >= total
  <2>1. items = <<>>
    BY <1>1, <1>2, <1>3
  <2>2. items \in Seq(ToSet(R)) /\ Len(items) = 0
    BY <2>1, EmptySeq
  <2>3. StartOf(R, offset, limit) = offset /\ PageSize(Len(R), offset, limit) = 0
    BY <1>1, <1>3 DEF StartOf, PageSize
  <2> QED BY <2>2, <2>3 DEF IsPage, Distinct
<1>4. CASE offset < total
  <2>1. PICK s : items = Cut(s, offset, limit) /\ s \in IF partial THEN Tops(R, needed) ELSE {Stable(R)}
    BY <1>1, <1>2, <1>4
  <2>2. needed \in Nat /\ needed <= total /\ (needed = offset + limit \/ needed = total)
        /\ (offset + limit >= total => needed = total)
    BY <1>1 DEF Needed, Least
  <2> HIDE DEF needed
  <2>3. PICK m \in Nat : m \in {needed, total} /\ s \in Tops(R, m)
    BY <1>1, <2>1, <2>2, StableIsRanking
  <2>4. m <= total /\ (m = offset + limit \/ m = total) /\ (offset + limit >= total => m = total)
    BY <1>1, <2>2, <2>3
  <2>5. Len(s) = m
    BY <1>1, <2>3, <2>4, TopsAre
  <2>6. Ranked(s, R, offset + limit) /\ Ranked(s, R, m)
    BY <1>1, <2>3, <2>4, TopsAreRanked
  <2>7. ASSUME m <= limit, PageSize(total, 0, limit) = m PROVE IsPage(s, R, 0, limit)
    <3>1. \A k \in 1..m : AtPlace(R, s[k], 0 + k)
      BY <2>5, <2>6 DEF Ranked
    <3> QED BY <1>1, <2>5, <2>6, <2>7, <3>1 DEF Ranked, IsPage
  <2>8. CASE total <= limit
    <3>1. m = total /\ items = s /\ StartOf(R, offset, limit) = 0 /\ PageSize(total, 0, limit) = m
      BY <1>1, <1>4, <2>1, <2>4, <2>5, <2>8 DEF Cut, StartOf, PageSize, Least
    <3> QED BY <2>7, <2>8, <3>1
  <2>9. CASE total > limit
    <3>1. StartOf(R, offset, limit) = offset
      BY <1>1, <2>9 DEF StartOf
    <3>2. CASE m > limit
      <4>1. items = Slice(s, offset, limit)
        BY <2>1, <2>5, <3>2 DEF Cut
      <4> QED BY <2>6, <3>1, <4>1, SliceIsPage
    <3>3. CASE m <= limit
      <4>1. offset = 0 /\ m = limit /\ items = s /\ PageSize(total, 0, limit) = m
        BY <1>1, <2>1, <2>4, <2>5, <2>9, <3>3 DEF Cut, PageSize, Least
      <4> QED BY <2>7, <3>1, <3>3, <4>1
    <3> QED BY <2>5, <3>2, <3>3
  <2> QED BY <1>1, <2>8, <2>9
<1> QED BY <1>1, <1>3, <1>4

\* A ranking of all hits leaves none out.
LEMMA TopsOfAll ==
    ASSUME NEW R, Listing(R), NEW n \in Nat, n = Len(R), NEW s \in Tops(R, n), NEW x \in ToSet(R)
    PROVE  \E k \in 1..n : s[k] = x
<1> SUFFICES ASSUME \A k \in 1..n : s[k] # x PROVE FALSE
  OBVIOUS
<1> DEFINE T == {i \in 1..n : R[i] # x}
           at == [k \in 1..n |-> CHOOSE i \in 1..n : R[i] = s[k]]
<1>1. /\ \A y \in ToSet(R) : \E i \in 1..n : R[i] = y
      /\ IsFiniteSet(1..n) /\ Cardinality(1..n) = n
  BY HitsAre
<1>2. s \in [1..n -> ToSet(R)] /\ Distinct(s, n)
  BY TopsAre
<1>3. \A k \in 1..n : at[k] \in 1..n /\ R[at[k]] = s[k]
  BY <1>1, <1>2
<1>4. at \in [1..n -> T]
  BY <1>3
<1>5. \A j, k \in 1..n : at[j] = at[k] => j = k
  BY <1>2, <1>3 DEF Distinct
<1>6. T \subseteq 1..n /\ T # 1..n
  BY <1>1
<1> HIDE DEF T, at
<1>7. IsFiniteSet(T) /\ Cardinality(T) \in Nat /\ Cardinality(T) < n
  BY <1>1, <1>6, SubsetCard
<1>8. n <= Cardinality(T)
  BY <1>4, <1>5, <1>7, NoLessThan
<1> QED BY <1>7, <1>8

\* The first of the best are the best.
LEMMA PrefixIsTops ==
    ASSUME NEW R, Listing(R), NEW m \in Nat, m <= Len(R), NEW s \in Tops(R, m), NEW n \in 1..m
    PROVE  [k \in 1..n |-> s[k]] \in Tops(R, n)
<1> DEFINE t == [k \in 1..n |-> s[k]]
<1>1. /\ s \in [1..m -> ToSet(R)] /\ Distinct(s, m)
      /\ \A i, j \in 1..m : i <= j => ~Above(s[j], s[i])
      /\ \A r \in ToSet(R) : (\A k \in 1..m : s[k] # r) => \A k \in 1..m : ~Above(r, s[k])
  BY TopsAre
<1>2. \A k \in 1..n : k \in 1..m /\ t[k] = s[k]
  OBVIOUS
<1>3. t \in [1..n -> ToSet(R)]
  BY <1>1, <1>2
<1>4. IsInjective(t)
  BY <1>1, <1>2 DEF IsInjective, Distinct
<1>5. \A k \in 1..n-1 : ~Above(t[k+1], t[k])
  <2> TAKE k \in 1..n-1
  <2>1. k \in 1..n /\ k + 1 \in 1..n /\ k <= k + 1
    OBVIOUS
  <2> HIDE DEF t
  <2> QED BY <1>1, <1>2, <2>1
<1>6. \A r \in ToSet(R) \ {t[k] : k \in 1..n} : ~Above(r, t[n])
  <2> TAKE r \in ToSet(R) \ {t[k] : k \in 1..n}
  <2>1. \A k \in 1..n : s[k] # r
    BY <1>2
  <2>2. n \in 1..n
    OBVIOUS
  <2>3. CASE \E k \in 1..m : s[k] = r
    <3>1. PICK k \in 1..m : s[k] = r
      BY <2>3
    <3>2. n <= k /\ n \in 1..m
      BY <2>1, <3>1
    <3> QED BY <1>1, <1>2, <2>2, <3>1, <3>2
  <2>4. CASE \A k \in 1..m : s[k] # r
    BY <1>1, <1>2, <2>2, <2>4
  <2> QED BY <2>3, <2>4
<1> HIDE DEF t
<1>7. t \in Tops(R, n)
  BY <1>3, <1>4, <1>5, <1>6 DEF Tops
<1> QED BY <1>7 DEF t

\* The first page: what is left out of it is not above any of it.
LEMMA FirstPage ==
    ASSUME NEW R, Listing(R), NEW most \in Nat \ {0}, NEW f \in Pages(R, 0, most)
    PROVE  /\ f \in Seq(ToSet(R)) /\ Distinct(f, Len(f)) /\ Len(f) = Least(most, Len(R))
           /\ \A x \in ToSet(R) : (\A j \in 1..Len(f) : f[j] # x) =>
                Len(f) = most /\ \A j \in 1..most : x.total <= f[j].total
<1> DEFINE needed == Needed(Len(R), 0, most)
           partial == needed < Len(R) \div 2 /\ Len(R) > PartialAbove
<1>1. PICK total \in Nat : total = Len(R)
  BY DEF Listing
<1>2. f \in IF 0 >= Len(R) THEN {<<>>}
            ELSE {Cut(s, 0, most) : s \in IF partial THEN Tops(R, needed) ELSE {Stable(R)}}
  BY DEF Pages
<1>3. IsPage(f, R, 0, most)
  <2>1. StartOf(R, 0, most) = 0
    BY DEF StartOf
  <2> QED BY <2>1, PagesArePages
<1>4. f \in Seq(ToSet(R)) /\ Distinct(f, Len(f)) /\ Len(f) = Least(most, Len(R))
  BY <1>1, <1>3 DEF IsPage, PageSize, Least
<1>5. needed = Least(most, total) /\ needed \in Nat /\ needed <= total
  BY <1>1 DEF Needed, Least
<1> HIDE DEF partial, needed
<1> SUFFICES ASSUME NEW x \in ToSet(R), \A j \in 1..Len(f) : f[j] # x
             PROVE  Len(f) = most /\ \A j \in 1..most : x.total <= f[j].total
  BY <1>4
<1>6. total > 0 /\ x \in Hit /\ ToSet(R) \subseteq Hit
  BY <1>1, HitsAre
<1>7. PICK s : f = Cut(s, 0, most) /\ s \in IF partial THEN Tops(R, needed) ELSE {Stable(R)}
  BY <1>1, <1>2, <1>6
<1>8. PICK m \in Nat : m \in {needed, total} /\ s \in Tops(R, m)
  BY <1>1, <1>5, <1>7, StableIsRanking
<1>9. m <= total
  BY <1>5, <1>8
<1>10. /\ s \in [1..m -> ToSet(R)] /\ s \in Seq(ToSet(R)) /\ Len(s) = m
       /\ \A i, j \in 1..m : i <= j => ~Above(s[j], s[i])
       /\ \A r \in ToSet(R) : (\A k \in 1..m : s[k] # r) => \A k \in 1..m : ~Above(r, s[k])
  BY <1>1, <1>8, <1>9, TopsAre
<1>11. Len(f) <= m /\ \A j \in 1..Len(f) : f[j] = s[j]
  <2>1. CASE Len(s) <= most
    BY <1>7, <1>10, <2>1 DEF Cut
  <2>2. CASE Len(s) > most
    <3>1. f = SubSeq(s, 1, most)
      BY <1>7, <1>10, <2>2 DEF Cut, Slice, Least
    <3>2. Len(f) = most /\ \A j \in 1..most : f[j] = s[j]
      BY <1>10, <2>2, <3>1, SubSeqProperties
    <3> QED BY <1>10, <2>2, <3>2
  <2> QED BY <1>10, <2>1, <2>2
<1>12. \A j \in 1..Len(f) : j \in 1..m
  BY <1>1, <1>4, <1>9, <1>11 DEF Least
<1>13. ASSUME NEW j \in 1..Len(f) PROVE ~Above(x, f[j])
  <2>1. f[j] = s[j] /\ j \in 1..m
    BY <1>11, <1>12
  <2>2. CASE \A k \in 1..m : s[k] # x
    BY <1>10, <2>1, <2>2
  <2>3. CASE \E k \in 1..m : s[k] = x
    <3>1. PICK k \in 1..m : s[k] = x
      BY <2>3
    <3>2. k \notin 1..Len(f)
      BY <1>11, <3>1
    <3>3. j <= k
      BY <1>4, <3>2
    <3> QED BY <1>10, <2>1, <3>1, <3>3
  <2> QED BY <2>2, <2>3
<1>14. ASSUME NEW j \in 1..Len(f) PROVE x.total <= f[j].total
  <2>1. f[j] \in Hit
    BY <1>4, <1>6
  <2>2. ~Above(x, f[j])
    BY <1>13
  <2> QED BY <1>6, <2>1, <2>2 DEF Above, Hit
<1>15. Len(f) = most
  <2> SUFFICES ASSUME Len(f) # most PROVE FALSE
    OBVIOUS
  <2>1. Len(f) = total
    BY <1>1, <1>4 DEF Least
  <2>2. m = total
    BY <1>9, <1>11, <2>1
  <2>3. \E k \in 1..m : s[k] = x
    BY <1>1, <1>8, <2>2, TopsOfAll
  <2> QED BY <1>11, <2>1, <2>2, <2>3
<1> QED BY <1>14, <1>15

(***************************************************************************)
(* The mixed search takes two pages of either list and merges them: up to  *)
(* the end of the page the merged list ranks as the whole of both would.   *)
(***************************************************************************)
Plain(h) == HitOf(h.item, h.total, 0)
MergedOf(M, R, S) ==
    /\ Len(M) = Len(R) + Len(S) /\ DOMAIN M = 1..Len(M)
    /\ \A k \in 1..Len(R) : M[k] = Plain(R[k])
    /\ \A k \in 1..Len(S) : M[Len(R) + k] = Plain(S[k])
    /\ \A x \in ToSet(M) : (\E k \in 1..Len(R) : x = Plain(R[k])) \/ (\E k \in 1..Len(S) : x = Plain(S[k]))

\* The merged list has the hits of both, by their totals.
LEMMA MergedIs ==
    ASSUME NEW R, NEW D, Of(R, D), NEW S, NEW E, Of(S, E), D \cap E = {}
    PROVE  Listing(ByTotal(R \o S)) /\ MergedOf(ByTotal(R \o S), R, S)
<1> DEFINE C == R \o S
           M == ByTotal(C)
<1>1. PICK n \in Nat, m \in Nat : n = Len(R) /\ m = Len(S) /\ DOMAIN R = 1..n /\ DOMAIN S = 1..m
  BY DEF Of, Listing
<1>2. /\ Of(C, D \cup E) /\ Len(C) = n + m
      /\ \A k \in 1..n : C[k] = R[k]
      /\ \A k \in 1..m : C[n + k] = S[k]
  BY <1>1, ConcatIs
<1> HIDE DEF C
<1>3. DOMAIN C = 1..n + m
  BY <1>1, <1>2 DEF Of, Listing
<1>4. /\ Of(M, D \cup E) /\ Len(M) = n + m /\ DOMAIN M = 1..n + m
      /\ \A k \in 1..n + m : M[k] = Plain(C[k])
  BY <1>2, <1>3, ByTotalIs DEF Plain
<1> HIDE DEF M
<1>5. \A k \in 1..n : M[k] = Plain(R[k])
  <2> TAKE k \in 1..n
  <2>1. k \in 1..n + m /\ C[k] = R[k]
    BY <1>1, <1>2
  <2> QED BY <1>4, <2>1
<1>6. \A k \in 1..m : M[n + k] = Plain(S[k])
  <2> TAKE k \in 1..m
  <2>1. n + k \in 1..n + m /\ C[n + k] = S[k]
    BY <1>1, <1>2
  <2> QED BY <1>4, <2>1
<1>7. ASSUME NEW x \in ToSet(M)
      PROVE  (\E k \in 1..n : x = Plain(R[k])) \/ (\E k \in 1..m : x = Plain(S[k]))
  <2>1. PICK i \in 1..n + m : M[i] = x
    BY <1>4 DEF ToSet
  <2>2. i \in 1..n \/ (i - n \in 1..m /\ i = n + (i - n))
    BY <1>1
  <2> QED BY <1>5, <1>6, <2>1, <2>2
<1>8. MergedOf(M, R, S)
  BY <1>1, <1>4, <1>5, <1>6, <1>7 DEF MergedOf
<1> QED BY <1>4, <1>8 DEF Of, M, C

\* A part of a listing is one.
LEMMA PartIs ==
    ASSUME NEW R, NEW D, Of(R, D), NEW t, t \in Seq(ToSet(R)), Distinct(t, Len(t))
    PROVE  Of(t, D)
<1>1. PICK total \in Nat : total = Len(R)
  BY DEF Of, Listing
<1>2. /\ DOMAIN R = 1..total
      /\ ToSet(R) \subseteq Hit /\ \A x \in ToSet(R) : \E k \in 1..total : R[k] = x
  BY <1>1, HitsAre DEF Of
<1>3. PICK n \in Nat : n = Len(t) /\ DOMAIN t = 1..n /\ \A k \in 1..n : t[k] \in ToSet(R)
  OBVIOUS
<1>4. t \in Seq(Hit)
  BY <1>2, <1>3, SeqDef
<1>5. \A x, y \in ToSet(R) : x.item = y.item => x = y
  BY <1>2 DEF Of, Listing
<1>6. \A x \in ToSet(R) : x.item \in D
  BY <1>2 DEF Of
<1> QED BY <1>3, <1>4, <1>5, <1>6 DEF Of, Listing, Distinct

\* The numbers after a, to the number of n.
LEMMA RunOf ==
    ASSUME NEW a \in Nat, NEW n \in Nat
    PROVE  IsFiniteSet(a + 1..a + n) /\ Cardinality(a + 1..a + n) = n
<1>1. a + 1 \in Int /\ a + n \in Int
  OBVIOUS
<1>2. IsFiniteSet(a + 1..a + n) /\ Cardinality(a + 1..a + n) = IF a + 1 > a + n THEN 0 ELSE (a + n) - (a + 1) + 1
  BY <1>1, FS_Interval
<1> QED BY <1>2

\* A hit that either side leaves out has a page and more with no lower total before it.
LEMMA LeftOut ==
    ASSUME NEW R, Listing(R), NEW S, Listing(S), NEW most \in Nat \ {0},
           NEW f \in Pages(R, 0, most), NEW d \in Pages(S, 0, most),
           NEW G, MergedOf(G, f, d), NEW M, MergedOf(M, R, S), NEW r \in ToSet(M), r \notin ToSet(G)
    PROVE  \E a \in Nat : /\ a + most <= Len(G)
                          /\ \A i \in a + 1..a + most : r.total <= G[i].total
<1>1. /\ f \in Seq(ToSet(R)) /\ Len(f) \in Nat /\ d \in Seq(ToSet(S)) /\ Len(d) \in Nat
      /\ \A x \in ToSet(R) : (\A j \in 1..Len(f) : f[j] # x) =>
           Len(f) = most /\ \A j \in 1..most : x.total <= f[j].total
      /\ \A x \in ToSet(S) : (\A j \in 1..Len(d) : d[j] # x) =>
           Len(d) = most /\ \A j \in 1..most : x.total <= d[j].total
  BY FirstPage, SMTT(30)
<1>2. PICK n \in Nat, m \in Nat : n = Len(R) /\ m = Len(S)
  BY DEF Listing
<1>3. (\A k \in 1..n : R[k] \in ToSet(R)) /\ (\A k \in 1..m : S[k] \in ToSet(S))
  BY <1>2, HitsAre
<1>4. \A h : Plain(h).total = h.total
  BY HitFields DEF Plain
<1>5. /\ Len(G) = Len(f) + Len(d)
      /\ \A k \in 1..Len(f) : G[k] = Plain(f[k])
      /\ \A k \in 1..Len(d) : G[Len(f) + k] = Plain(d[k])
  BY DEF MergedOf
<1>6. \A i \in 1..Len(f) + Len(d) : G[i] \in ToSet(G)
  BY <1>5 DEF MergedOf, ToSet
<1>7. CASE \E k \in 1..n : r = Plain(R[k])
  <2>1. PICK k \in 1..n : r = Plain(R[k])
    BY <1>7
  <2>2. ASSUME NEW j \in 1..Len(f) PROVE f[j] # R[k]
    <3>1. G[j] = Plain(f[j]) /\ G[j] \in ToSet(G)
      BY <1>1, <1>5, <1>6
    <3> QED BY <2>1, <3>1
  <2>3. Len(f) = most /\ \A j \in 1..most : r.total <= f[j].total
    BY <1>1, <1>3, <1>4, <2>1, <2>2
  <2>4. \A i \in 0 + 1..0 + most : r.total <= G[i].total
    BY <1>4, <1>5, <2>3
  <2>5. 0 + most <= Len(G)
    BY <1>1, <1>5, <2>3
  <2> QED BY <2>4, <2>5
<1>8. CASE \E k \in 1..m : r = Plain(S[k])
  <2>1. PICK k \in 1..m : r = Plain(S[k])
    BY <1>8
  <2>2. ASSUME NEW j \in 1..Len(d) PROVE d[j] # S[k]
    <3>1. G[Len(f) + j] = Plain(d[j]) /\ G[Len(f) + j] \in ToSet(G)
      BY <1>1, <1>5, <1>6
    <3> QED BY <2>1, <3>1
  <2>3. Len(d) = most /\ \A j \in 1..most : r.total <= d[j].total
    BY <1>1, <1>3, <1>4, <2>1, <2>2
  <2>4. ASSUME NEW i \in Len(f) + 1..Len(f) + most PROVE r.total <= G[i].total
    <3>1. PICK a \in Nat : a = Len(f)
      BY <1>1
    <3>2. i - a \in 1..Len(d) /\ i = a + (i - a)
      BY <2>3, <3>1
    <3>3. G[i] = Plain(d[i - a])
      BY <1>5, <3>1, <3>2
    <3> QED BY <1>4, <2>3, <3>2, <3>3
  <2>5. Len(f) + most <= Len(G)
    BY <1>1, <1>5, <2>3
  <2> QED BY <1>1, <2>4, <2>5
<1> QED BY <1>2, <1>7, <1>8 DEF MergedOf

\* Two pages of either list hold all that the merged page can show.
LEMMA MergedIsRanked ==
    ASSUME NEW R, NEW D, Of(R, D), NEW S, NEW E, Of(S, E), D \cap E = {}, NEW n \in Nat \ {0},
           NEW f \in Pages(R, 0, 2 * n), NEW d \in Pages(S, 0, 2 * n),
           NEW s \in Tops(ByTotal(f \o d), Len(f \o d))
    PROVE  Ranked(s, ByTotal(R \o S), n)
<1> DEFINE M == ByTotal(R \o S)
           G == ByTotal(f \o d)
<1>0. Listing(R) /\ Listing(S) /\ 2 * n \in Nat \ {0}
  BY DEF Of
<1>1. /\ f \in Seq(ToSet(R)) /\ Distinct(f, Len(f)) /\ Len(f) = Least(2 * n, Len(R))
      /\ d \in Seq(ToSet(S)) /\ Distinct(d, Len(d)) /\ Len(d) = Least(2 * n, Len(S))
  BY <1>0, FirstPage
<1>2. Of(f, D) /\ Of(d, E)
  BY <1>1, PartIs
<1>3. Listing(G) /\ MergedOf(G, f, d) /\ Listing(M) /\ MergedOf(M, R, S)
  BY <1>2, MergedIs
<1>4. PICK a \in Nat, b \in Nat, p \in Nat, q \in Nat : a = Len(f) /\ b = Len(d) /\ p = Len(R) /\ q = Len(S)
  BY <1>0, <1>1 DEF Listing
<1>5. Len(f \o d) = a + b
  BY <1>1, <1>4
<1>6. Len(G) = a + b /\ Len(M) = p + q /\ DOMAIN G = 1..a + b /\ DOMAIN M = 1..p + q
  BY <1>3, <1>4 DEF MergedOf
<1>7. s \in Tops(G, a + b)
  BY <1>5
<1> HIDE DEF G, M
<1>8. ToSet(G) \subseteq ToSet(M)
  <2>1. ASSUME NEW k \in 1..a PROVE Plain(f[k]) \in ToSet(M)
    <3>0. f[k] \in ToSet(R)
      BY <1>1, <1>4
    <3>1. PICK i \in 1..p : R[i] = f[k]
      BY <1>0, <1>4, <3>0, HitsAre
    <3>2. M[i] = Plain(f[k]) /\ i \in DOMAIN M
      BY <1>3, <1>4, <1>6, <3>1 DEF MergedOf
    <3> QED BY <3>2 DEF ToSet
  <2>2. ASSUME NEW k \in 1..b PROVE Plain(d[k]) \in ToSet(M)
    <3>0. d[k] \in ToSet(S)
      BY <1>1, <1>4
    <3>1. PICK i \in 1..q : S[i] = d[k]
      BY <1>0, <1>4, <3>0, HitsAre
    <3>2. M[p + i] = Plain(d[k]) /\ p + i \in DOMAIN M
      BY <1>3, <1>4, <1>6, <3>1 DEF MergedOf
    <3> QED BY <3>2 DEF ToSet
  <2> QED BY <1>3, <1>4, <2>1, <2>2 DEF MergedOf
<1>9. /\ s \in [1..a + b -> ToSet(G)] /\ Distinct(s, a + b) /\ s \in Seq(ToSet(G)) /\ Len(s) = a + b
      /\ \A i, j \in 1..a + b : i <= j => ~Above(s[j], s[i])
      /\ \A r \in ToSet(G) : (\A k \in 1..a + b : s[k] # r) => \A k \in 1..a + b : ~Above(r, s[k])
  BY <1>3, <1>6, <1>7, TopsAre
<1>10. s \in Seq(ToSet(M))
  BY <1>8, <1>9
<1>11. a + b <= p + q /\ Least(n, a + b) = Least(n, p + q)
  <2>1. a <= p /\ (a = p \/ a = 2 * n)
    BY <1>1, <1>4 DEF Least
  <2>2. b <= q /\ (b = q \/ b = 2 * n)
    BY <1>1, <1>4 DEF Least
  <2>3. a + b = p + q \/ (n <= a + b /\ n <= p + q)
    BY <2>1, <2>2
  <2> QED BY <2>1, <2>2, <2>3 DEF Least
<1>12. ASSUME NEW c \in 1..a + b, c <= n PROVE AtPlace(M, s[c], c)
  <2> DEFINE t == [k \in 1..c |-> s[k]]
  <2>1. \A k \in 1..c : k \in 1..a + b /\ t[k] = s[k]
    BY <1>12
  <2>2. t \in Tops(G, c)
    BY <1>3, <1>6, <1>7, <1>12, PrefixIsTops
  <2>3. t \in [1..c -> ToSet(M)] /\ IsInjective(t)
    BY <1>8, <1>9, <2>1 DEF Distinct, IsInjective
  <2>4. /\ \A k \in 1..c-1 : ~Above(t[k+1], t[k])
        /\ \A r \in ToSet(G) \ {t[k] : k \in 1..c} : ~Above(r, t[c])
    BY <2>2 DEF Tops
  <2>5. AtPlace(G, t[c], c)
    BY <1>3, <1>6, <2>2, <1>12, TopsRank, SMTT(30)
  <2>6. c \in 1..c /\ t[c] = s[c] /\ s[c] \in ToSet(G)
    BY <1>9, <1>12, <2>1
  <2> HIDE DEF t
  <2>7. ASSUME NEW r \in ToSet(M), r \notin ToSet(G) PROVE ~Above(r, t[c])
    <3>1. PICK h \in Nat : /\ h + 2 * n <= Len(G)
                           /\ \A i \in h + 1..h + 2 * n : r.total <= G[i].total
      BY <1>0, <1>3, <2>7, LeftOut
    <3>2. r \in Hit /\ t[c] \in Hit /\ \A i \in 1..a + b : G[i] \in Hit
      BY <1>3, <1>6, <2>6, HitsAre
    <3> SUFFICES ASSUME Above(r, t[c]) PROVE FALSE
      OBVIOUS
    <3>3. \A h1 \in ToSet(M) \cup ToSet(G) : h1.modified = 0
      <4>1. \A x : Plain(x).modified = 0
        BY HitFields DEF Plain
      <4>2. (\A x \in ToSet(M) : \E y : x = Plain(y)) /\ (\A x \in ToSet(G) : \E y : x = Plain(y))
        BY <1>3, ZenonT(60) DEF MergedOf
      <4> QED BY <4>1, <4>2
    <3>4. r.total > t[c].total
      BY <2>6, <3>3 DEF Above
    <3>5. ASSUME NEW i \in h + 1..h + 2 * n PROVE i \in 1..a + b /\ Above(G[i], t[c])
      <4>1. i \in 1..a + b
        BY <1>6, <3>1
      <4>2. r.total <= G[i].total
        BY <3>1
      <4> QED BY <3>2, <3>4, <4>1, <4>2 DEF Above, Hit
    <3>6. h + 1..h + 2 * n \subseteq HitsAbove(G, t[c])
      BY <1>6, <3>5 DEF HitsAbove
    <3>7. IsFiniteSet(HitsAbove(G, t[c])) /\ Cardinality(HitsAbove(G, t[c])) \in Nat
      BY <1>3, HitSets
    <3>8. Cardinality(h + 1..h + 2 * n) = 2 * n
      BY RunOf
    <3>9. 2 * n <= Cardinality(HitsAbove(G, t[c]))
      BY <3>6, <3>7, <3>8, SubsetCard
    <3>10. Cardinality(HitsAbove(G, t[c])) < c
      BY <2>5 DEF AtPlace
    <3> QED BY <1>12, <3>7, <3>9, <3>10
  <2>8. \A r \in ToSet(M) \ {t[k] : k \in 1..c} : ~Above(r, t[c])
    BY <2>4, <2>7
  <2>9. t \in Tops(M, c)
    BY <2>3, <2>4, <2>8 DEF Tops
  <2>10. c <= Len(M)
    BY <1>6, <1>11
  <2> QED BY <1>3, <2>6, <2>9, <2>10, TopsRank
<1>13. Ranked(s, M, n)
  BY <1>6, <1>9, <1>10, <1>11, <1>12 DEF Ranked
<1> QED BY <1>13 DEF M

StartFor(R, kind, offset, limit) == IF kind # "mixed" THEN StartOf(R, offset, limit) ELSE offset

\* Whatever kind of search answers, the answer is a page of the ranking.
LEMMA AnswersArePages ==
    ASSUME IndexStands, NEW q \in Searched, NEW kind \in Kinds, NEW offset \in Nat, NEW limit \in Nat \ {0},
           NEW r \in Answers(q, kind, offset, limit)
    PROVE  /\ Listing(Found(q, kind)) /\ r.total = Len(Found(q, kind)) /\ r.total \in Nat
           /\ IsPage(r.items, Found(q, kind), StartFor(Found(q, kind), kind, offset, limit), limit)
<1> DEFINE F == filesFound[q][kind]
           D == dirsFound[q][kind]
           both == offset + limit
           R == Found(q, kind)
<1>1. Of(F, ToSet(FileSeq)) /\ Of(D, ToSet(DirSeq)) /\ Listing(R) /\ ToSet(FileSeq) \cap ToSet(DirSeq) = {}
  BY FoundAre, IndexLists
<1>2. Listing(F) /\ Listing(D) /\ both \in Nat \ {0}
  BY <1>1 DEF Of
<1>3. R = CASE kind \in {"files", "recalled"} -> F [] kind = "dirs" -> D [] kind = "mixed" /\ DirsOnly(q) -> D
            [] kind = "mixed" /\ ~DirsOnly(q) -> ByTotal(F \o D)
  BY DEF Found
<1>4. \E s : /\ r = [items |-> s, total |-> Len(R)]
             /\ s \in CASE kind \in {"files", "recalled"} -> Pages(F, offset, limit)
                        [] kind = "dirs" -> Pages(D, offset, limit)
                        [] kind = "mixed" /\ DirsOnly(q) -> {Slice(t, offset, limit) : t \in Pages(D, 0, 2 * both)}
                        [] kind = "mixed" /\ ~DirsOnly(q) ->
                            {Slice(t, offset, limit) : t \in Mixed(q, offset, limit)}
  BY DEF Answers
<1> HIDE DEF R
<1>5. PICK s : /\ r = [items |-> s, total |-> Len(R)]
               /\ kind \in {"files", "recalled"} => s \in Pages(F, offset, limit)
               /\ kind = "dirs" => s \in Pages(D, offset, limit)
               /\ kind = "mixed" /\ DirsOnly(q) => s \in {Slice(t, offset, limit) : t \in Pages(D, 0, 2 * both)}
               /\ kind = "mixed" /\ ~DirsOnly(q) => s \in {Slice(t, offset, limit) : t \in Mixed(q, offset, limit)}
  BY <1>4
<1>6. r.items = s /\ r.total = Len(R) /\ Len(R) \in Nat
  BY <1>1, <1>5 DEF Listing
<1>7. CASE kind \in {"files", "recalled"}
  <2>1. R = F /\ s \in Pages(F, offset, limit) /\ StartFor(R, kind, offset, limit) = StartOf(R, offset, limit)
    BY <1>3, <1>5, <1>7 DEF StartFor
  <2> QED BY <1>1, <1>6, <2>1, PagesArePages DEF R
<1>8. CASE kind = "dirs"
  <2>1. R = D /\ s \in Pages(D, offset, limit) /\ StartFor(R, kind, offset, limit) = StartOf(R, offset, limit)
    BY <1>3, <1>5, <1>8 DEF StartFor
  <2> QED BY <1>1, <1>6, <2>1, PagesArePages DEF R
<1>9. CASE kind = "mixed" /\ DirsOnly(q)
  <2>1. R = D /\ StartFor(R, kind, offset, limit) = offset
    BY <1>3, <1>9 DEF StartFor
  <2>2. PICK t \in Pages(D, 0, 2 * both) : s = Slice(t, offset, limit)
    BY <1>5, <1>9
  <2>3. IsPage(t, D, 0, 2 * both)
    <3>1. StartOf(D, 0, 2 * both) = 0 /\ 2 * both \in Nat \ {0} /\ 0 \in Nat
      BY <1>2 DEF StartOf
    <3> QED BY <1>2, <2>2, <3>1, PagesArePages
  <2>4. PICK total \in Nat, n \in Nat \ {0} : total = Len(D) /\ n = both
    BY <1>2 DEF Listing
  <2> HIDE DEF D, both
  <2>5. t \in Seq(ToSet(D)) /\ Distinct(t, Len(t)) /\ Len(t) = PageSize(total, 0, 2 * n)
        /\ \A k \in 1..Len(t) : AtPlace(D, t[k], 0 + k)
    BY <2>3, <2>4 DEF IsPage
  <2>6. Least(n, Len(t)) = Least(n, total)
    BY <2>4, <2>5 DEF PageSize, Least
  <2>7. \A k \in 1..Len(t) : k <= n => AtPlace(D, t[k], k)
    BY <2>5
  <2>8. Ranked(t, D, both)
    BY <2>4, <2>5, <2>6, <2>7 DEF Ranked
  <2>9. IsPage(s, D, offset, limit)
    BY <1>2, <2>2, <2>8, SliceIsPage DEF both
  <2> QED BY <1>1, <1>6, <2>1, <2>9 DEF R
<1>10. CASE kind = "mixed" /\ ~DirsOnly(q)
  <2>1. R = ByTotal(F \o D) /\ StartFor(R, kind, offset, limit) = offset
    BY <1>3, <1>10 DEF StartFor
  <2>2. PICK t \in Mixed(q, offset, limit) : s = Slice(t, offset, limit)
    BY <1>5, <1>10
  <2>3. \E f \in Pages(F, 0, 2 * both), d \in Pages(D, 0, 2 * both) : t \in Tops(ByTotal(f \o d), Len(f \o d))
    BY <1>10, <2>2 DEF Mixed
  <2>4. Ranked(t, ByTotal(F \o D), both)
    <3> HIDE DEF F, D, both
    <3> QED BY <1>1, <1>2, <2>3, MergedIsRanked
  <2>5. Ranked(t, R, both)
    BY <2>1, <2>4
  <2>6. IsPage(s, R, offset, limit)
    BY <1>1, <2>2, <2>5, SliceIsPage
  <2> QED BY <1>1, <1>6, <2>1, <2>6 DEF R
<1>11. kind \in {"files", "recalled", "dirs", "mixed"}
  BY DEF Kinds
<1> QED BY <1>7, <1>8, <1>9, <1>10, <1>11
-----------------------------------------------------------------------------
(***************************************************************************)
(* The invariant: the index stands, and the result on the screen is an     *)
(* answer to what was asked.                                               *)
(***************************************************************************)
Answered ==
    /\ client # "none"
    /\ asked.searched \in Searched /\ asked.query \in Queries /\ asked.kind \in Kinds
    /\ page.offset \in Nat /\ page.index \in Nat /\ page.limit \in Nat \ {0}
    /\ result \in Answers(asked.searched, asked.kind, page.offset, page.limit)

AnswerInv == IndexStands /\ (client = "none" \/ Answered)

\* While the index stands, so do the answers.
LEMMA AnswersStand ==
    ASSUME UNCHANGED <<filesFound, dirsFound>>
    PROVE  /\ \A q, kind : Found(q, kind)' = Found(q, kind)
           /\ \A q, kind, o, l : Answers(q, kind, o, l)' = Answers(q, kind, o, l)
BY DEF Found, Answers, Mixed

\* A call shows an answer to what it asks.
LEMMA CallAnswers ==
    ASSUME IndexStands, NEW c, c # "none", NEW fresh, NEW q \in Queries, NEW kind \in Kinds, NEW offset \in Nat,
           NEW limit \in Nat \ {0}, NEW index \in Nat, Call(c, fresh, q, kind, offset, limit, index)
    PROVE  AnswerInv'
<1>1. UNCHANGED <<filesFound, dirsFound>> /\ client' = c
      /\ asked'.searched = q /\ asked'.query = q /\ asked'.kind = kind
      /\ page'.offset = offset /\ page'.limit = limit /\ page'.index = index
      /\ result' \in Answers(q, kind, offset, limit)
  BY DEF Call
<1>2. q \in Searched
  BY SearchedAre
<1>3. Answers(q, kind, offset, limit)' = Answers(q, kind, offset, limit)
  BY <1>1, AnswersStand
<1>4. IndexStands'
  BY <1>1 DEF IndexStands, FilesFound, DirsFound
<1>5. result' \in Answers(asked.searched, asked.kind, page.offset, page.limit)'
  BY <1>1, <1>3
<1>6. Answered'
  BY <1>1, <1>2, <1>5 DEF Answered
<1> QED BY <1>4, <1>6 DEF AnswerInv

\* Every step of every client calls with legal arguments.
LEMMA AnswerOpen ==
    ASSUME IndexStands, Open PROVE AnswerInv'
<1>1. PICK q \in Queries, size \in Sizes :
        \/ \E recalled \in BOOLEAN : Type(q, size, recalled)
        \/ FindFiles(q, size)
        \/ PiFind(q, size)
        \/ \E kind \in {"files", "dirs", "mixed"}, offset \in Offsets : Search(q, kind, offset, size)
  BY DEF Open
<1>2. size \in Nat \ {0} /\ {"files", "recalled"} \subseteq Kinds /\ 0 \in Nat
  BY SearchAssumption DEF Kinds
<1>3. CASE \E recalled \in BOOLEAN : Type(q, size, recalled)
  <2>1. PICK recalled \in BOOLEAN : Type(q, size, recalled)
    BY <1>3
  <2>2. PICK kind \in Kinds : kind = IF recalled THEN "recalled" ELSE "files"
    BY <1>2
  <2>3. Call("lua", TRUE, q, kind, 0, size, 0) /\ "lua" # "none"
    BY <2>1, <2>2 DEF Type
  <2> QED BY <1>2, <2>3, CallAnswers
<1>4. CASE FindFiles(q, size)
  <2>1. PICK s \in Searched : /\ UNCHANGED <<filesFound, dirsFound>> /\ client' = "mcp"
                              /\ asked' = [query |-> q, searched |-> s, kind |-> "files", first |-> "files"]
                              /\ page' = [offset |-> 0, limit |-> size, index |-> 0]
                              /\ result' \in Answers(s, "files", 0, size)
    <3>1. Len(q) >= 3 => SubSeq(q, 1, 2) \in Searched
      BY DEF Searched
    <3>2. q \in Searched
      BY SearchedAre
    <3> QED BY <1>4, <3>1, <3>2 DEF FindFiles
  <2>2. Answers(s, "files", 0, size)' = Answers(s, "files", 0, size)
    BY <2>1, AnswersStand
  <2>3. result' \in Answers(asked.searched, asked.kind, page.offset, page.limit)'
    BY <2>1, <2>2
  <2>4. IndexStands'
    BY <2>1 DEF IndexStands, FilesFound, DirsFound
  <2>5. Answered'
    BY <1>2, <2>1, <2>3 DEF Answered
  <2> QED BY <2>4, <2>5 DEF AnswerInv
<1>5. CASE PiFind(q, size)
  BY <1>2, <1>5, CallAnswers DEF PiFind
<1>6. CASE \E kind \in {"files", "dirs", "mixed"}, offset \in Offsets : Search(q, kind, offset, size)
  <2>1. PICK kind \in Kinds, offset \in Offsets : Search(q, kind, offset, size)
    BY <1>6 DEF Kinds
  <2>2. offset \in Nat
    BY SearchAssumption
  <2> QED BY <1>2, <2>1, <2>2, CallAnswers DEF Search
<1> QED BY <1>1, <1>3, <1>4, <1>5, <1>6

\* Every step keeps the invariant.
LEMMA AnswerNext ==
    ASSUME AnswerInv, [Next]_vars PROVE AnswerInv'
<1>1. IndexStands
  BY DEF AnswerInv
<1>2. CASE Open
  BY <1>1, <1>2, AnswerOpen
<1>3. ASSUME NEW n \in 0..Len(FileSeq), LoadPage(n) PROVE AnswerInv'
  <2>1. client # "none" /\ Call("lua", FALSE, asked.query, "files", n * page.limit, page.limit, n)
    BY <1>3 DEF LoadPage
  <2>2. asked.query \in Queries /\ page.limit \in Nat \ {0} /\ n \in Nat
    BY <2>1 DEF AnswerInv, Answered
  <2>3. n * page.limit \in Nat /\ "files" \in Kinds
    BY <2>2 DEF Kinds
  <2> QED BY <1>1, <2>1, <2>2, <2>3, CallAnswers
<1>4. ASSUME NEW size \in Sizes, FindMore(size) PROVE AnswerInv'
  <2>1. client # "none" /\ Call("mcp", FALSE, asked.query, "files", page.offset + Len(result.items), size, 0)
    BY <1>4 DEF FindMore
  <2>2. asked.query \in Queries /\ page.offset \in Nat /\ size \in Nat \ {0}
    BY <2>1, SearchAssumption DEF AnswerInv, Answered
  <2>3. Len(result.items) \in Nat
    BY <1>1, <2>1, AnswersArePages DEF AnswerInv, Answered, IsPage
  <2>4. page.offset + Len(result.items) \in Nat /\ "files" \in Kinds /\ 0 \in Nat
    BY <2>2, <2>3 DEF Kinds
  <2> QED BY <1>1, <2>1, <2>2, <2>4, CallAnswers
<1>5. CASE PiMore
  <2>1. client # "none" /\ Call("pi", FALSE, asked.query, "files", page.index + 1, page.limit, page.index + 1)
    BY <1>5 DEF PiMore
  <2>2. asked.query \in Queries /\ page.limit \in Nat \ {0} /\ page.index + 1 \in Nat /\ "files" \in Kinds
    BY <2>1 DEF AnswerInv, Answered, Kinds
  <2> QED BY <1>1, <2>1, <2>2, CallAnswers
<1>6. CASE Close
  BY <1>1, <1>6 DEF Close, AnswerInv, IndexStands, FilesFound, DirsFound
<1>7. CASE UNCHANGED vars
  <2>1. UNCHANGED <<filesFound, dirsFound>> /\ UNCHANGED <<client, asked, page, result>>
    BY <1>7 DEF vars
  <2>2. IndexStands'
    BY <1>1, <2>1 DEF IndexStands, FilesFound, DirsFound
  <2>3. client # "none" => result' \in Answers(asked.searched, asked.kind, page.offset, page.limit)'
    BY <2>1, AnswersStand DEF AnswerInv, Answered
  <2> QED BY <2>1, <2>2, <2>3 DEF AnswerInv, Answered
<1> QED BY <1>2, <1>3, <1>4, <1>5, <1>6, <1>7 DEF Next

\* At first the index stands and nobody has asked.
LEMMA AnswerInit == Init => AnswerInv
BY DEF Init, AnswerInv, IndexStands

\* An answer to what was asked is the page of the ranking that was asked for.
LEMMA RankingFromAnswer == AnswerInv => PagesAreTheRanking
<1> SUFFICES ASSUME AnswerInv, client # "none" PROVE PagesAreTheRanking
  BY DEF PagesAreTheRanking
<1> DEFINE R == Found(asked.searched, asked.kind)
           items == result.items
           start == StartFor(R, asked.kind, page.offset, page.limit)
<1>1. /\ Listing(R) /\ result.total = Len(R) /\ Len(R) \in Nat
      /\ IsPage(items, R, start, page.limit)
  BY AnswersArePages DEF AnswerInv, Answered
<1> HIDE DEF R, items
<1>2. start = IF asked.kind # "mixed" /\ Len(R) <= page.limit /\ page.offset < Len(R) THEN 0 ELSE page.offset
  BY DEF StartFor, StartOf
<1> HIDE DEF start
<1>3. Len(items) = IF start < Len(R) THEN Least(page.limit, Len(R) - start) ELSE 0
  BY <1>1 DEF IsPage, PageSize
<1>4. DOMAIN items = 1..Len(items) /\ \A k \in DOMAIN items : items[k] \in ToSet(R)
  BY <1>1 DEF IsPage
<1>5. \A j, k \in DOMAIN items : items[j].item = items[k].item => j = k
  <2>1. \A x, y \in ToSet(R) : x.item = y.item => x = y
    BY <1>1 DEF Listing, ToSet
  <2> QED BY <1>1, <1>4, <2>1 DEF IsPage, Distinct
<1>6. \A k \in DOMAIN items :
        /\ Cardinality({n \in 1..Len(R) : Above(R[n], items[k])}) < start + k
        /\ start + k <= Cardinality({n \in 1..Len(R) : ~Above(items[k], R[n])})
  BY <1>1, <1>4 DEF IsPage, AtPlace, HitsAbove, HitsUpTo
<1> QED BY <1>1, <1>2, <1>3, <1>5, <1>6 DEF PagesAreTheRanking, Rankings, R, items

(***************************************************************************)
(* Every page is the part of the ranking that its offset and limit ask     *)
(* for, whatever the index, the scores, the query and the kind of search:  *)
(* partial and full sort, whole lists, the merge of files and directories. *)
(***************************************************************************)
THEOREM PagesFollowTheRanking == Spec => []PagesAreTheRanking
<1>1. Init => AnswerInv
  BY AnswerInit
<1>2. AnswerInv /\ [Next]_vars => AnswerInv'
  BY AnswerNext
<1>3. AnswerInv => PagesAreTheRanking
  BY RankingFromAnswer
<1> QED BY <1>1, <1>2, <1>3, PTL DEF Spec
-----------------------------------------------------------------------------
(***************************************************************************)
(* What a session has shown.  A hit that ties with no other is on the page *)
(* of its rank.                                                            *)
(***************************************************************************)
Untied(R, n) == \A k \in DOMAIN R : ~Above(R[k], R[n]) /\ ~Above(R[n], R[k]) => k = n
RankOf(R, n) == Cardinality(HitsAbove(R, R[n])) + 1
SeenIn(R, low, e, S) ==
    \A n \in DOMAIN R : Untied(R, n) /\ low < RankOf(R, n) /\ RankOf(R, n) <= e => R[n].item \in S

\* A page that begins where the session has got to takes it to its own end.
LEMMA PageShows ==
    ASSUME NEW R, Listing(R), NEW offset \in Nat, NEW limit \in Nat \ {0}, NEW items,
           IsPage(items, R, StartOf(R, offset, limit), limit),
           NEW low \in Nat, NEW e \in Nat, offset <= e, NEW S, SeenIn(R, low, e, S)
    PROVE  SeenIn(R, low, offset + Len(items), S \cup {items[k].item : k \in DOMAIN items})
<1> DEFINE start == StartOf(R, offset, limit)
<1>1. PICK total \in Nat : total = Len(R) /\ DOMAIN R = 1..total
  BY DEF Listing
<1>2. PICK m \in Nat : m = Len(items) /\ DOMAIN items = 1..m
  BY DEF IsPage
<1>3. /\ \A k \in 1..m : AtPlace(R, items[k], start + k) /\ items[k] \in ToSet(R)
      /\ m = PageSize(total, start, limit)
  BY <1>1, <1>2 DEF IsPage
<1>4. \/ start = offset
      \/ start = 0 /\ m = total
  BY <1>1, <1>3 DEF StartOf, PageSize, Least
<1> HIDE DEF start
<1> SUFFICES ASSUME NEW n \in DOMAIN R, Untied(R, n), low < RankOf(R, n), RankOf(R, n) <= offset + m
             PROVE  R[n].item \in S \cup {items[k].item : k \in DOMAIN items}
  BY <1>2 DEF SeenIn
<1>5. RankOf(R, n) \in Nat /\ RankOf(R, n) >= 1 /\ RankOf(R, n) <= total
  <2>1. /\ IsFiniteSet(HitsAbove(R, R[n])) /\ HitsAbove(R, R[n]) \subseteq 1..total
    BY <1>1, HitSets
  <2>2. R[n] \in Hit /\ IsFiniteSet(1..total) /\ Cardinality(1..total) = total
    BY <1>1, HitsAre
  <2>3. n \notin HitsAbove(R, R[n])
    BY <2>2, AboveIsOrder DEF HitsAbove
  <2>4. Cardinality(HitsAbove(R, R[n])) \in Nat /\ Cardinality(HitsAbove(R, R[n])) < total
    BY <1>1, <2>1, <2>2, <2>3, SubsetCard
  <2> QED BY <2>4 DEF RankOf
<1>6. CASE RankOf(R, n) <= e
  BY <1>6 DEF SeenIn
<1>7. CASE RankOf(R, n) > e
  <2>1. PICK k \in 1..m : start + k = RankOf(R, n)
    <3>1. CASE start = offset
      <4>1. RankOf(R, n) - offset \in 1..m /\ start + (RankOf(R, n) - offset) = RankOf(R, n)
        BY <1>5, <1>7, <3>1
      <4> QED BY <4>1
    <3>2. CASE start = 0 /\ m = total
      <4>1. RankOf(R, n) \in 1..m /\ start + RankOf(R, n) = RankOf(R, n)
        BY <1>5, <3>2
      <4> QED BY <4>1
    <3> QED BY <1>4, <3>1, <3>2
  <2>2. AtPlace(R, items[k], RankOf(R, n)) /\ items[k] \in ToSet(R)
    BY <1>3, <2>1
  <2>3. items[k] = R[n]
    BY <2>2, UntiedIsThere DEF RankOf, Untied
  <2> QED BY <1>2, <2>3
<1> QED BY <1>5, <1>6, <1>7

\* A session begins with nothing to have seen.
LEMMA NothingSeen == \A R : Listing(R) => \A e \in Nat : \A S : SeenIn(R, e, e, S)
<1> SUFFICES ASSUME NEW R, Listing(R), NEW e \in Nat, NEW n \in DOMAIN R
             PROVE  ~(e < RankOf(R, n) /\ RankOf(R, n) <= e)
  BY DEF SeenIn
<1>1. Cardinality(HitsAbove(R, R[n])) \in Nat
  BY HitSets
<1> QED BY <1>1 DEF RankOf

\* The pages before the last are full.
LEMMA WholePages ==
    ASSUME NEW t \in Nat, NEW l \in Nat \ {0}, NEW n \in Nat, n <= t \div l
    PROVE  n * l <= t
<1>1. PICK d \in Int, r \in Int : d = t \div l /\ r = t % l
  OBVIOUS
<1>2. t = l * d + r /\ 0 <= r
  BY <1>1
<1>3. n * l <= d * l
  BY <1>1
<1> QED BY <1>2, <1>3

(***************************************************************************)
(* The invariant of a session: of the ranking that it pages through,       *)
(* everything up to the end of the page has been shown, after a first page *)
(* of another ranking everything behind that page; a query that was        *)
(* shortened finds nothing.                                                *)
(***************************************************************************)
Files(q) == Found(q, "files")

MissedBy(kind, first, limit) == IF kind = first THEN 0 ELSE limit

Paging ==
    /\ asked.kind \in {"files", "recalled"}
    /\ asked.kind = "recalled" => client = "lua" /\ asked.first = "recalled" /\ page.index = 0
    /\ client = "mcp" => asked.first = "files"
    /\ client = "lua" => asked.query = asked.searched /\ page.offset = page.index * page.limit
    /\ asked.query = asked.searched =>
        SeenIn(Found(asked.query, asked.kind), MissedBy(asked.kind, asked.first, page.limit),
               page.offset + Len(result.items), seen)
    /\ asked.query # asked.searched => Len(Files(asked.query)) = 0

SessionInv == AnswerInv /\ (client \in {"lua", "mcp"} => Paging)

\* An answer takes a session on by its items.
LEMMA FirstShown ==
    ASSUME IndexStands, NEW q \in Searched, NEW kind \in {"files", "recalled"}, NEW offset \in Nat,
           NEW limit \in Nat \ {0}, NEW r \in Answers(q, kind, offset, limit),
           NEW low \in Nat, NEW e \in Nat, offset <= e, NEW S, SeenIn(Found(q, kind), low, e, S)
    PROVE  SeenIn(Found(q, kind), low, offset + Len(r.items), S \cup Shown(r))
<1>1. Listing(Found(q, kind)) /\ IsPage(r.items, Found(q, kind), StartOf(Found(q, kind), offset, limit), limit)
  <2>1. kind \in Kinds /\ kind # "mixed"
    BY DEF Kinds
  <2>2. /\ Listing(Found(q, kind))
        /\ IsPage(r.items, Found(q, kind), StartFor(Found(q, kind), kind, offset, limit), limit)
    BY <2>1, AnswersArePages
  <2> QED BY <2>1, <2>2 DEF StartFor
<1> DEFINE R == Found(q, kind)
           items == r.items
<1>2. Listing(R) /\ IsPage(items, R, StartOf(R, offset, limit), limit) /\ SeenIn(R, low, e, S)
  BY <1>1
<1> HIDE DEF R, items
<1>3. SeenIn(R, low, offset + Len(items), S \cup {items[k].item : k \in DOMAIN items})
  BY <1>2, PageShows
<1> QED BY <1>3 DEF R, items, Shown

\* While the index stands, what was seen of a ranking has been seen.
LEMMA SeenStands ==
    ASSUME UNCHANGED <<filesFound, dirsFound>>, NEW q, NEW kind, NEW low, NEW e, NEW S,
           SeenIn(Found(q, kind), low, e, S)
    PROVE  SeenIn(Found(q, kind)', low, e, S)
<1>1. Found(q, kind)' = Found(q, kind)
  BY AnswersStand
<1> QED BY <1>1 DEF SeenIn, Untied, RankOf, HitsAbove

\* A call that goes on where the session has got to keeps it complete.
LEMMA CallShows ==
    ASSUME IndexStands, NEW c \in {"lua", "mcp"}, NEW fresh \in BOOLEAN, NEW q \in Queries,
           NEW kind \in {"files", "recalled"}, NEW offset \in Nat, NEW limit \in Nat \ {0}, NEW index \in Nat,
           Call(c, fresh, q, kind, offset, limit, index), c = "lua" => offset = index * limit,
           kind = "recalled" => fresh /\ c = "lua" /\ index = 0,
           c = "mcp" => ~fresh /\ asked.first = "files",
           NEW low \in Nat, low = MissedBy(kind, IF fresh THEN kind ELSE asked.first, limit),
           NEW e \in Nat, offset <= e, SeenIn(Found(q, kind), low, e, IF fresh THEN {} ELSE seen)
    PROVE  Paging'
<1> DEFINE first == IF fresh THEN kind ELSE asked.first
           before == IF fresh THEN {} ELSE seen
<1>1. UNCHANGED <<filesFound, dirsFound>> /\ client' = c
      /\ asked' = [query |-> q, searched |-> q, kind |-> kind, first |-> first]
      /\ page' = [offset |-> offset, limit |-> limit, index |-> index]
      /\ result' \in Answers(q, kind, offset, limit)
      /\ seen' = before \cup Shown(result')
  BY DEF Call
<1>2. q \in Searched
  BY SearchedAre
<1>3. /\ kind = "recalled" => c = "lua" /\ first = "recalled" /\ index = 0
      /\ c = "mcp" => first = "files"
      /\ low = MissedBy(kind, first, limit)
  OBVIOUS
<1> HIDE DEF first, before
<1>4. SeenIn(Found(q, kind), low, offset + Len(result'.items), seen')
  <2>1. SeenIn(Found(q, kind), low, offset + Len(result'.items), before \cup Shown(result'))
    BY <1>1, <1>2, FirstShown DEF before
  <2> QED BY <1>1, <2>1
<1>5. SeenIn(Found(q, kind)', low, offset + Len(result'.items), seen')
  BY <1>1, <1>4, SeenStands
<1>6. /\ asked'.query = q /\ asked'.searched = q /\ asked'.kind = kind /\ asked'.first = first
      /\ page'.offset = offset /\ page'.limit = limit /\ page'.index = index
  BY <1>1
<1>7. SeenIn(Found(asked.query, asked.kind)', MissedBy(asked'.kind, asked'.first, page'.limit),
             page'.offset + Len(result'.items), seen')
  BY <1>3, <1>5, <1>6
<1> QED BY <1>1, <1>3, <1>6, <1>7 DEF Paging, SeenIn, Untied, RankOf, HitsAbove, MissedBy

\* A query typed or recalled begins a session with nothing to have seen.
LEMMA TypeShows ==
    ASSUME IndexStands, NEW q \in Queries, NEW size \in Nat \ {0}, NEW recalled \in BOOLEAN,
           Type(q, size, recalled)
    PROVE  Paging'
<1>1. PICK kind \in {"files", "recalled"} : kind = IF recalled THEN "recalled" ELSE "files"
  OBVIOUS
<1>2. Call("lua", TRUE, q, kind, 0, size, 0) /\ TRUE \in BOOLEAN /\ "lua" \in {"lua", "mcp"}
  BY <1>1 DEF Type
<1>3. 0 = 0 * size /\ 0 \in Nat /\ 0 <= 0 /\ "lua" # "mcp"
  OBVIOUS
<1>4. SeenIn(Found(q, kind), 0, 0, {})
  <2>1. kind \in Kinds
    BY DEF Kinds
  <2>2. Listing(Found(q, kind))
    BY <2>1, SearchedAre, FoundAre
  <2> QED BY <1>3, <2>2, NothingSeen
<1>5. 0 = MissedBy(kind, IF TRUE THEN kind ELSE asked.first, size)
  BY DEF MissedBy
<1>6. SeenIn(Found(q, kind), 0, 0, IF TRUE THEN {} ELSE seen)
  BY <1>4
<1> QED BY <1>2, <1>3, <1>5, <1>6, CallShows

\* The first files an agent is shown, and what it is not shown of a query that was shortened.
LEMMA FindShows ==
    ASSUME IndexStands, NEW q \in Queries, NEW size \in Nat \ {0}, FindFiles(q, size)
    PROVE  Paging'
<1> DEFINE s == asked'.searched
<1>0. "files" \in Kinds /\ "files" \in {"files", "recalled"} /\ 0 \in Nat /\ 0 <= 0 /\ q \in Searched
  BY SearchedAre DEF Kinds
<1>1. /\ UNCHANGED <<filesFound, dirsFound>> /\ client' = "mcp"
      /\ asked' = [query |-> q, searched |-> s, kind |-> "files", first |-> "files"]
      /\ page' = [offset |-> 0, limit |-> size, index |-> 0]
      /\ result' \in Answers(s, "files", 0, size)
      /\ seen' = Shown(result')
  BY DEF FindFiles
<1>2. s # q => \E r \in Answers(q, "files", 0, size) : r.items = <<>>
  BY DEF FindFiles
<1> HIDE DEF s
<1>a. /\ asked'.query = q /\ asked'.searched = s /\ asked'.kind = "files" /\ asked'.first = "files"
      /\ page'.offset = 0 /\ page'.limit = size /\ page'.index = 0
  BY <1>1
<1>3. CASE s = q
  <2>1. Listing(Found(q, "files"))
    BY <1>0, FoundAre
  <2>2. SeenIn(Found(q, "files"), 0, 0, {})
    BY <1>0, <2>1, NothingSeen
  <2>3. SeenIn(Found(q, "files"), 0, 0 + Len(result'.items), {} \cup Shown(result'))
    BY <1>0, <1>1, <1>3, <2>2, FirstShown
  <2>4. SeenIn(Found(q, "files"), 0, page'.offset + Len(result'.items), seen')
    <3>1. seen' = {} \cup Shown(result')
      BY <1>1
    <3> QED BY <1>a, <2>3, <3>1
  <2>5. SeenIn(Found(q, "files")', 0, page'.offset + Len(result'.items), seen')
    BY <1>1, <2>4, SeenStands
  <2>6. MissedBy(asked'.kind, asked'.first, page'.limit) = 0
    BY <1>a DEF MissedBy
  <2>7. SeenIn(Found(asked.query, asked.kind)', MissedBy(asked'.kind, asked'.first, page'.limit),
               page'.offset + Len(result'.items), seen')
    BY <1>a, <2>5, <2>6
  <2> QED BY <1>1, <1>3, <1>a, <2>7 DEF Paging, SeenIn, Untied, RankOf, HitsAbove, MissedBy
<1>4. CASE s # q
  <2>1. PICK r \in Answers(q, "files", 0, size) : r.items = <<>>
    BY <1>2, <1>4
  <2>2. /\ IsPage(r.items, Files(q), StartFor(Files(q), "files", 0, size), size)
        /\ Len(Files(q)) \in Nat
    <3>1. Listing(Files(q)) /\ IsPage(r.items, Files(q), StartFor(Files(q), "files", 0, size), size)
      BY <1>0, AnswersArePages DEF Files
    <3> QED BY <3>1 DEF Listing
  <2>3. Len(Files(q)) = 0
    <3>1. StartFor(Files(q), "files", 0, size) = 0
      BY DEF StartFor, StartOf
    <3>2. Len(r.items) = 0
      BY <2>1
    <3> QED BY <2>2, <3>1, <3>2 DEF IsPage, PageSize, Least
  <2>4. Files(q)' = Files(q)
    BY <1>1, AnswersStand DEF Files
  <2>5. Len(Files(asked.query)') = 0
    BY <1>a, <2>3, <2>4
  <2> QED BY <1>1, <1>4, <1>a, <2>5 DEF Paging
<1> QED BY <1>3, <1>4

\* The picker goes on or back by a page.
LEMMA LoadShows ==
    ASSUME SessionInv, IndexStands, NEW n \in 0..Len(FileSeq), LoadPage(n)
    PROVE  Paging'
<1> DEFINE R == Found(asked.query, asked.kind)
           first == asked.first
<1>1. /\ client = "lua" /\ result.total # 0
      /\ n \in {page.index - 1, page.index + 1} /\ n \in 0..((result.total - 1) \div page.limit)
      /\ Call("lua", FALSE, asked.query, "files", n * page.limit, page.limit, n)
  BY DEF LoadPage
<1>2. /\ asked.query \in Queries /\ page.limit \in Nat \ {0} /\ n \in Nat /\ page.index \in Nat
      /\ page.offset = page.index * page.limit /\ asked.query = asked.searched
      /\ asked.kind \in {"files", "recalled"}
      /\ asked.kind = "recalled" => first = "recalled" /\ page.index = 0
      /\ SeenIn(R, MissedBy(asked.kind, first, page.limit), page.offset + Len(result.items), seen)
      /\ page.offset \in Nat /\ result \in Answers(asked.query, asked.kind, page.offset, page.limit)
  BY <1>1 DEF SessionInv, AnswerInv, Answered, Paging
<1>3. /\ result.total = Len(R) /\ result.total \in Nat
      /\ IsPage(result.items, R, StartOf(R, page.offset, page.limit), page.limit)
  <2>1. asked.kind \in Kinds /\ asked.kind # "mixed" /\ asked.query \in Searched
    BY <1>2, SearchedAre DEF Kinds
  <2>2. result.total = Len(R) /\ result.total \in Nat
        /\ IsPage(result.items, R, StartFor(R, asked.kind, page.offset, page.limit), page.limit)
    <3> HIDE DEF first
    <3> QED BY <1>2, <2>1, AnswersArePages
  <2> QED BY <2>1, <2>2 DEF StartFor
<1> HIDE DEF R, first
<1>4. PICK t \in Nat, l \in Nat \ {0}, i \in Nat, m \in Nat :
          t = result.total /\ l = page.limit /\ i = page.index /\ m = Len(result.items)
  BY <1>2, <1>3 DEF IsPage
<1>5. /\ n * l \in Nat /\ i * l \in Nat /\ page.offset = i * l
      /\ (n = i + 1 => n * l = i * l + l) /\ (n = i - 1 => n * l <= i * l)
  BY <1>2, <1>4, SMTT(30)
<1>6. n = i + 1 => m = l
  <2> SUFFICES ASSUME n = i + 1 PROVE m = l
    OBVIOUS
  <2>1. t - 1 \in Nat /\ n <= (t - 1) \div l
    <3>1. t # 0 /\ n \in 0..((t - 1) \div l)
      BY <1>1, <1>4
    <3> QED BY <1>2, <1>4, <3>1
  <2>2. n * l <= t - 1
    BY <1>2, <2>1, WholePages
  <2>3. i * l + l < t /\ i * l + l = n * l
    BY <1>5, <2>2
  <2>4. StartOf(R, page.offset, page.limit) = i * l
    BY <1>3, <1>4, <1>5, <2>3 DEF StartOf
  <2>5. m = PageSize(t, i * l, l)
    BY <1>3, <1>4, <2>4 DEF IsPage
  <2> QED BY <1>5, <2>3, <2>5 DEF PageSize, Least
<1>7. n * l <= i * l + m /\ i * l + m \in Nat
  <2>1. n = i - 1 \/ n = i + 1
    BY <1>1, <1>4
  <2>2. CASE n = i - 1
    BY <1>4, <1>5, <2>2
  <2>3. CASE n = i + 1
    BY <1>4, <1>5, <1>6, <2>3
  <2> QED BY <2>1, <2>2, <2>3
<1>8. /\ Call("lua", FALSE, asked.query, "files", n * l, l, n) /\ FALSE \in BOOLEAN
      /\ "lua" \in {"lua", "mcp"} /\ "lua" # "mcp"
      /\ "files" \in {"files", "recalled"} /\ "files" # "recalled"
  BY <1>1, <1>4, Zenon
<1>9. PICK low \in Nat : low = MissedBy("files", first, l)
  BY <1>4 DEF MissedBy
<1>10. PICK e \in Nat : n * l <= e /\ SeenIn(Found(asked.query, "files"), low, e, seen)
  <2>1. CASE asked.kind = "files"
    <3>1. SeenIn(Found(asked.query, "files"), low, i * l + m, seen)
      BY <1>2, <1>4, <1>5, <1>9, <2>1 DEF R
    <3> QED BY <1>7, <3>1
  <2>2. CASE asked.kind = "recalled"
    <3>1. i = 0 /\ low = l /\ n = 1
      <4>1. i = 0 /\ low = l
        BY <1>2, <1>4, <1>9, <2>2 DEF MissedBy
      <4> QED BY <1>1, <1>2, <1>4, <4>1
    <3>2. n * l = low
      BY <1>4, <3>1
    <3>3. Listing(Found(asked.query, "files"))
      <4>1. "files" \in Kinds /\ asked.query \in Searched
        BY <1>2, SearchedAre DEF Kinds
      <4> QED BY <4>1, FoundAre
    <3>4. SeenIn(Found(asked.query, "files"), low, low, seen)
      BY <3>3, NothingSeen
    <3> QED BY <3>2, <3>4
  <2> QED BY <1>2, <2>1, <2>2
<1>11. /\ low = MissedBy("files", IF FALSE THEN "files" ELSE asked.first, l)
       /\ SeenIn(Found(asked.query, "files"), low, e, IF FALSE THEN {} ELSE seen)
  BY <1>9, <1>10 DEF first
<1>12. asked.query \in Queries /\ n \in Nat /\ n * l \in Nat
  BY <1>2, <1>5
<1> QED BY <1>4, <1>8, <1>9, <1>10, <1>11, <1>12, CallShows

\* An agent goes on from its cursor.
LEMMA MoreShows ==
    ASSUME SessionInv, IndexStands, NEW size \in Sizes, FindMore(size)
    PROVE  Paging'
<1>1. client = "mcp" /\ Call("mcp", FALSE, asked.query, "files", page.offset + Len(result.items), size, 0)
  BY DEF FindMore
<1>2. asked.query \in Queries /\ page.offset \in Nat /\ size \in Nat \ {0} /\ Paging
  BY <1>1, SearchAssumption DEF SessionInv, AnswerInv, Answered
<1>3. Len(result.items) \in Nat
  BY <1>1, AnswersArePages DEF AnswerInv, Answered, IsPage
<1>4. PICK e \in Nat : e = page.offset + Len(result.items)
  BY <1>2, <1>3
<1>5. asked.kind = "files" /\ asked.first = "files"
  BY <1>1, <1>2 DEF Paging
<1>6. SeenIn(Found(asked.query, "files"), 0, e, seen)
  <2>1. CASE asked.query = asked.searched
    BY <1>2, <1>4, <1>5, <2>1 DEF Paging, MissedBy
  <2>2. CASE asked.query # asked.searched
    <3>1. Len(Files(asked.query)) = 0
      BY <1>2, <2>2 DEF Paging
    <3>2. Listing(Files(asked.query))
      <4>1. "files" \in Kinds /\ asked.query \in Searched
        BY <1>2, SearchedAre DEF Kinds
      <4> QED BY <4>1, FoundAre DEF Files
    <3>3. DOMAIN Files(asked.query) = {}
      BY <3>1, <3>2 DEF Listing
    <3> QED BY <3>3 DEF SeenIn, Files
  <2> QED BY <2>1, <2>2
<1>7. /\ e <= e /\ FALSE \in BOOLEAN /\ 0 \in Nat /\ "mcp" # "lua" /\ "mcp" \in {"lua", "mcp"}
      /\ "files" \in {"files", "recalled"} /\ "files" # "recalled"
  BY <1>4
<1>8. /\ 0 = MissedBy("files", IF FALSE THEN "files" ELSE asked.first, size)
      /\ SeenIn(Found(asked.query, "files"), 0, e, IF FALSE THEN {} ELSE seen)
  BY <1>5, <1>6 DEF MissedBy
<1> QED BY <1>1, <1>2, <1>4, <1>5, <1>7, <1>8, CallShows

\* Every step of the picker and of the MCP server keeps the session complete.
LEMMA SessionNext ==
    ASSUME SessionInv, AnswerInv', [Next]_vars, client' \in {"lua", "mcp"} PROVE Paging'
<1>1. IndexStands
  BY DEF SessionInv, AnswerInv
<1>2. CASE Open
  <2>1. PICK q \in Queries, size \in Sizes :
          \/ \E recalled \in BOOLEAN : Type(q, size, recalled)
          \/ FindFiles(q, size)
          \/ PiFind(q, size)
          \/ \E kind \in {"files", "dirs", "mixed"}, offset \in Offsets : Search(q, kind, offset, size)
    BY <1>2 DEF Open
  <2>2. size \in Nat \ {0}
    BY SearchAssumption
  <2>3. ~PiFind(q, size)
    BY DEF PiFind, Call
  <2>4. \A kind, offset : ~Search(q, kind, offset, size)
    BY DEF Search, Call
  <2> QED BY <1>1, <2>1, <2>2, <2>3, <2>4, TypeShows, FindShows
<1>3. ASSUME NEW n \in 0..Len(FileSeq), LoadPage(n) PROVE Paging'
  BY <1>1, <1>3, LoadShows
<1>4. ASSUME NEW size \in Sizes, FindMore(size) PROVE Paging'
  BY <1>1, <1>4, MoreShows
<1>5. ~PiMore
  BY DEF PiMore, Call
<1>6. ~Close
  BY DEF Close
<1>7. CASE UNCHANGED vars
  <2>1. UNCHANGED <<filesFound, dirsFound>> /\ UNCHANGED <<client, asked, page, result, seen>>
    BY <1>7 DEF vars
  <2>2. Paging
    BY <2>1 DEF SessionInv
  <2>3. /\ Files(asked.query)' = Files(asked.query)
        /\ Found(asked.query, asked.kind)' = Found(asked.query, asked.kind)
    BY <2>1, AnswersStand DEF Files
  <2> QED BY <2>1, <2>2, <2>3 DEF Paging, SeenIn, Untied, RankOf, HitsAbove, MissedBy
<1> QED BY <1>2, <1>3, <1>4, <1>5, <1>6, <1>7 DEF Next

\* A session that has got to the end has shown every result of its own rank.
LEMMA SessionsSkipNothing == SessionInv => NoResultSkipped
<1> SUFFICES ASSUME SessionInv, client \in {"lua", "mcp"}, asked.query = asked.searched PROVE ShownAfter(Missed)
  BY DEF NoResultSkipped
<1> DEFINE R == Rankings
           e == page.offset + Len(result.items)
           low == Missed
<1>1. Paging
  BY DEF SessionInv
<1>2. R = Found(asked.query, asked.kind)
  BY DEF Rankings
<1>3. Listing(R)
  BY <1>1, <1>2, AnswersArePages DEF SessionInv, AnswerInv, Answered, Paging
<1>4. SeenIn(R, low, e, seen)
  BY <1>1, <1>2 DEF Paging, Missed, MissedBy
<1> HIDE DEF R, e, low
<1>5. DOMAIN R = 1..Len(R)
  BY <1>3 DEF Listing
<1>6. \A n \in DOMAIN R : low < RankOf(R, n) /\ RankOf(R, n) <= e /\ Untied(R, n) => R[n].item \in seen
  BY <1>4 DEF SeenIn
<1>7. \A n \in DOMAIN R : Rank(n) = RankOf(R, n) /\ (Alone(n) <=> Untied(R, n))
  BY <1>5 DEF RankOf, HitsAbove, Untied, Alone, Rank, R
<1> QED BY <1>6, <1>7 DEF ShownAfter, R, e, low

(***************************************************************************)
(* Nobody who pages with the Neovim picker or the MCP server skips a       *)
(* result, whatever the index, the ranking and the sizes of the pages; of  *)
(* a query recalled from the history, none behind the first page's ranks.  *)
(***************************************************************************)
THEOREM NobodySkips == Spec => []NoResultSkipped
<1>1. Init => SessionInv
  BY AnswerInit DEF Init, SessionInv
<1>2. SessionInv /\ [Next]_vars => SessionInv'
  BY AnswerNext, SessionNext DEF SessionInv
<1>3. SessionInv => NoResultSkipped
  BY SessionsSkipNothing
<1> QED BY <1>1, <1>2, <1>3, PTL DEF Spec
-----------------------------------------------------------------------------
(***************************************************************************)
(* The constraints of a query.  What a token is parsed to is what it says. *)
(***************************************************************************)
\* What a constraint, in whatever place, asks of an item.
Plainly(i, p) ==
    CASE p.c = "glob" -> p.t.v \in i.globs
      [] p.c = "extension" -> i.ext = p.t.v
      [] p.c = "segment" -> p.t.v \in i.segments
      [] p.c = "path" -> i.name = p.t.v
      [] p.c = "git" -> i.status = p.t.v
      [] p.c = "text" -> p.t.v \in i.words
      [] OTHER -> TRUE
Meets(i, p) == Plainly(i, p) # p.neg

\* A constraint is its kind, its sign and its token.
LEMMA ConstraintFields ==
    ASSUME NEW kind, NEW neg, NEW t
    PROVE  /\ Constraint(kind, neg, t).c = kind
           /\ Constraint(kind, neg, t).neg = neg
           /\ Constraint(kind, neg, t).t = t
           /\ kind # "none" => Constraint(kind, neg, t) # None
<1>1. /\ Constraint(kind, neg, t).c = kind
      /\ Constraint(kind, neg, t).neg = neg
      /\ Constraint(kind, neg, t).t = t
  BY DEF Constraint
<1>2. None.c = "none"
  BY DEF None
<1> QED BY <1>1, <1>2

\* The kind of constraint a token is, and "none" for a text.
KindOf(t, c) ==
    IF t.shape = "extension" /\ Extensions(c) THEN "extension"
    ELSE IF t.shape = "star" /\ Extensions(c) /\ ~t.neg THEN "none"
    ELSE IF t.shape = "segment" /\ Segments(c) THEN "segment"
    ELSE IF IsGlob(t, c) THEN "glob"
    ELSE IF t.shape = "type" /\ Types(c) THEN "type"
    ELSE IF t.shape = "git" /\ GitStatus(c) THEN "git"
    ELSE IF t.shape = "name" /\ Names(c) THEN "path"
    ELSE IF t.neg THEN "text" ELSE "none"

\* A token is parsed to a constraint of its kind, or to none.
LEMMA TokenIs ==
    ASSUME NEW t \in Tokens, NEW c \in Searches
    PROVE  ParseToken(t, c) = IF KindOf(t, c) = "none" THEN None ELSE Constraint(KindOf(t, c), t.neg, t)
<1>1. t.neg \in BOOLEAN /\ t.shape \in Shapes
  BY TokensAssumption
<1>2. IsGlob(t, c) => t.shape \in Globs \cup {"extension"}
  BY DEF IsGlob, Globs
<1>3. ParseInner(t, c, t.neg) =
        IF KindOf(t, c) \in {"none", "text"} THEN None ELSE Constraint(KindOf(t, c), FALSE, t)
  BY <1>1, <1>2 DEF ParseInner, KindOf, Globs
<1>4. KindOf(t, c) = "text" => t.neg
  BY DEF KindOf
<1>5. t.neg => KindOf(t, c) # "none"
  BY DEF KindOf
<1>6. CASE ~t.neg
  BY <1>3, <1>4, <1>6, <1>1 DEF ParseToken
<1>7. CASE t.neg
  <2>1. ParseToken(t, c) = Constraint(IF ParseInner(t, c, t.neg) = None THEN "text"
                                      ELSE ParseInner(t, c, t.neg).c, TRUE, t)
    BY <1>7 DEF ParseToken
  <2>2. (IF ParseInner(t, c, t.neg) = None THEN "text" ELSE ParseInner(t, c, t.neg).c) = KindOf(t, c)
    <3>1. CASE KindOf(t, c) = "text"
      BY <1>3, <3>1
    <3>2. CASE KindOf(t, c) # "text"
      <4>1. KindOf(t, c) # "none"
        BY <1>5, <1>7
      <4>2. ParseInner(t, c, t.neg) = Constraint(KindOf(t, c), FALSE, t)
        BY <1>3, <3>2, <4>1
      <4>3. ParseInner(t, c, t.neg).c = KindOf(t, c)
        BY <4>2 DEF Constraint
      <4>4. ParseInner(t, c, t.neg) # None
        BY <4>1, <4>3 DEF None
      <4> QED BY <4>3, <4>4
    <3> QED BY <3>1, <3>2
  <2>3. t.neg = TRUE
    BY <1>1, <1>7
  <2> QED BY <1>5, <1>7, <2>1, <2>2, <2>3
<1> QED BY <1>1, <1>6, <1>7

\* A constraint of the kind is satisfied as the token says.
LEMMA KindMeans ==
    ASSUME NEW t \in Tokens, NEW c \in Searches
    PROVE  /\ KindOf(t, c) # "none" /\ ~(KindOf(t, c) = "path" /\ ~t.neg) <=> Recognised(t, c)
           /\ KindOf(t, c) = "path" /\ ~t.neg <=> ~t.neg /\ t.shape = "name" /\ Names(c)
           /\ KindOf(t, c) = "segment" <=> t.shape = "segment" /\ Segments(c)
           /\ KindOf(t, c) = "extension" <=> t.shape = "extension" /\ Extensions(c)
           /\ \A i : KindOf(t, c) # "none" =>
                    (Plainly(i, Constraint(KindOf(t, c), t.neg, t)) <=> Satisfies(i, t, c))
<1>1. t.neg \in BOOLEAN /\ t.shape \in Shapes /\ c \in Searches
  BY TokensAssumption
<1>2. IsGlob(t, c) => t.shape \in Globs \cup {"extension"}
  BY DEF IsGlob, Globs
<1>3. t.shape = "extension" => (IsGlob(t, c) \/ Extensions(c))
  BY <1>1 DEF IsGlob, Extensions, Searches
<1>4. t.shape = "star" => (Extensions(c) <=> c # "dirs") /\ (c = "dirs" => IsGlob(t, c))
  BY <1>1 DEF IsGlob, Extensions, Globs
<1>5. KindOf(t, c) # "none" /\ ~(KindOf(t, c) = "path" /\ ~t.neg) <=> Recognised(t, c)
  BY <1>1, <1>2, <1>3, <1>4 DEF KindOf, Recognised, Globs, Shapes
<1>6. KindOf(t, c) = "path" /\ ~t.neg <=> ~t.neg /\ t.shape = "name" /\ Names(c)
  BY <1>1, <1>2 DEF KindOf, Globs
<1>7. KindOf(t, c) = "segment" <=> t.shape = "segment" /\ Segments(c)
  BY <1>1, <1>2 DEF KindOf, Globs
<1>8. KindOf(t, c) = "extension" <=> t.shape = "extension" /\ Extensions(c)
  BY <1>1, <1>2 DEF KindOf, Globs
<1>9. ASSUME NEW i, KindOf(t, c) # "none"
      PROVE  Plainly(i, Constraint(KindOf(t, c), t.neg, t)) <=> Satisfies(i, t, c)
  <2>1. /\ Constraint(KindOf(t, c), t.neg, t).c = KindOf(t, c)
        /\ Constraint(KindOf(t, c), t.neg, t).t = t
    BY ConstraintFields
  <2>2. Plainly(i, Constraint(KindOf(t, c), t.neg, t)) <=>
          CASE KindOf(t, c) = "glob" -> t.v \in i.globs
            [] KindOf(t, c) = "extension" -> i.ext = t.v
            [] KindOf(t, c) = "segment" -> t.v \in i.segments
            [] KindOf(t, c) = "path" -> i.name = t.v
            [] KindOf(t, c) = "git" -> i.status = t.v
            [] KindOf(t, c) = "text" -> t.v \in i.words
            [] OTHER -> TRUE
    BY <2>1 DEF Plainly
  <2> QED BY <1>1, <1>2, <1>9, <2>2 DEF KindOf, Satisfies, Globs
<1> QED BY <1>5, <1>6, <1>7, <1>8, <1>9

(***************************************************************************)
(* The constraints of a query are its filters, each token read once.       *)
(***************************************************************************)
Filters(q, c) == {n \in DOMAIN q : IsFilter(q, n, c)}

\* A list of what so many tokens are parsed to.
Lists(cs, q, c) ==
    /\ cs \in Seq({ParseToken(t, c) : t \in Tokens}) /\ Len(cs) = Cardinality(Filters(q, c))
    /\ \A k \in DOMAIN cs : \E n \in Filters(q, c) : cs[k] = ParseToken(q[n], c)
    /\ \A n \in Filters(q, c) : \E k \in DOMAIN cs : cs[k] = ParseToken(q[n], c)

\* Every token is in the constraints or in the text, if there is one.
Tells(r, q, c) ==
    /\ Lists(r.constraints, q, c)
    /\ r.text # <<>> => Len(r.text) + Len(r.constraints) = Len(q)

\* Taking the location off the text leaves the constraints as they are.
LEMMA ResultTells ==
    ASSUME NEW q, NEW c, NEW cs, Lists(cs, q, c),
           NEW text \in Seq(Tokens), text # <<>> => Len(text) + Len(cs) = Len(q)
    PROVE  Tells(Result(cs, text, c), q, c)
<1> DEFINE loc == Locations(c) /\ text # <<>> /\ Located(Last(text))
           rest == IF loc THEN [text EXCEPT ![Len(text)] = Bare(Last(text))] ELSE text
           r == Result(cs, text, c)
<1>1. r.constraints = cs /\ r.text = IF \A i \in DOMAIN rest : rest[i].shape = "empty" THEN <<>> ELSE rest
  BY DEF Result
<1>2. Len(rest) = Len(text) /\ (text = <<>> => rest = <<>>)
  OBVIOUS
<1> HIDE DEF rest, r
<1>3. r.text # <<>> => r.text = rest /\ text # <<>>
  BY <1>1, <1>2
<1>4. Tells(r, q, c)
  BY <1>1, <1>2, <1>3 DEF Tells
<1> QED BY <1>4 DEF r

\* An empty query has no filter.
LEMMA NoTokens ==
    ASSUME NEW q \in Seq(Tokens), Len(q) = 0, NEW c
    PROVE  Tells(Result(<<>>, <<>>, c), q, c)
<1>1. Filters(q, c) = {}
  BY DEF Filters
<1>2. Cardinality({}) = 0
  BY FS_EmptySet
<1>3. <<>> \in Seq(Tokens) /\ <<>> \in Seq({ParseToken(t, c) : t \in Tokens}) /\ Len(<<>>) = 0
  BY EmptySeq
<1>4. Lists(<<>>, q, c)
  BY <1>1, <1>2, <1>3 DEF Lists
<1> QED BY <1>3, <1>4, ResultTells

\* A query of one token.
LEMMA OneToken ==
    ASSUME NEW q \in Seq(Tokens), Len(q) = 1, NEW c \in Searches
    PROVE  Tells(ParseOne(q[1], c), q, c)
<1> DEFINE t == q[1]
           p == ParseToken(t, c)
           P == {ParseToken(u, c) : u \in Tokens}
<1>1. t \in Tokens /\ DOMAIN q = {1} /\ p \in P
  OBVIOUS
<1>2. p = IF KindOf(t, c) = "none" THEN None ELSE Constraint(KindOf(t, c), t.neg, t)
  BY <1>1, TokenIs
<1>3. p # None <=> KindOf(t, c) # "none"
  BY <1>2, ConstraintFields
<1>4. p # None => p.c = KindOf(t, c) /\ p.neg = t.neg
  BY <1>2, <1>3, ConstraintFields
<1>5. t.neg \in BOOLEAN /\ t.shape \in Shapes
  BY <1>1, TokensAssumption
<1>6. p # None /\ (p.neg \/ p.c \notin {"path", "segment"}) <=> IsFilter(q, 1, c)
  <2>1. DOMAIN q \ {1} = {} /\ ~(Len(q) > 1)
    BY <1>1
  <2>2. IsFilter(q, 1, c) <=> Recognised(t, c) /\ ~(t.shape = "segment" /\ ~t.neg)
    BY <2>1 DEF IsFilter
  <2>3. t.shape = "segment" /\ ~t.neg /\ Recognised(t, c) => KindOf(t, c) = "segment"
    BY <1>1, KindMeans DEF Recognised, Globs
  <2>4. Recognised(t, c) <=> KindOf(t, c) # "none" /\ ~(KindOf(t, c) = "path" /\ ~t.neg)
    BY <1>1, KindMeans
  <2>5. KindOf(t, c) = "segment" => t.shape = "segment"
    BY <1>1, KindMeans
  <2> HIDE DEF p, t
  <2> QED BY <1>3, <1>4, <1>5, <2>2, <2>3, <2>4, <2>5
<1>7. <<>> \in Seq(Tokens) /\ <<>> \in Seq(P) /\ Len(<<>>) = 0 /\ <<t>> \in Seq(Tokens) /\ Len(<<t>>) = 1
  BY <1>1, EmptySeq
<1>8. ParseOne(t, c) = IF p # None /\ (p.neg \/ p.c \notin {"path", "segment"})
                       THEN Result(<<p>>, <<>>, c) ELSE Result(<<>>, <<t>>, c)
  BY DEF ParseOne
<1>9. CASE IsFilter(q, 1, c)
  <2>1. Filters(q, c) = {1}
    BY <1>1, <1>9 DEF Filters
  <2>2. Cardinality({1}) = 1
    BY FS_Singleton
  <2>3. <<p>> \in Seq(P) /\ Len(<<p>>) = 1 /\ DOMAIN <<p>> = {1} /\ <<p>>[1] = p
    BY <1>1
  <2> HIDE DEF P
  <2>4. Lists(<<p>>, q, c)
    BY <2>1, <2>2, <2>3 DEF Lists, P
  <2> HIDE DEF p, t
  <2>5. ParseOne(t, c) = Result(<<p>>, <<>>, c)
    BY <1>6, <1>8, <1>9
  <2> QED BY <1>7, <2>4, <2>5, ResultTells DEF t
<1>10. CASE ~IsFilter(q, 1, c)
  <2>1. Filters(q, c) = {}
    BY <1>1, <1>10 DEF Filters
  <2>2. Cardinality({}) = 0
    BY FS_EmptySet
  <2>3. Lists(<<>>, q, c)
    BY <1>7, <2>1, <2>2 DEF Lists
  <2> HIDE DEF p, t
  <2>4. ParseOne(t, c) = Result(<<>>, <<t>>, c)
    BY <1>6, <1>8, <1>10
  <2>5. Len(<<t>>) + Len(<<>>) = Len(q)
    BY <1>7
  <2> QED BY <1>7, <2>3, <2>4, <2>5, ResultTells DEF t
<1> QED BY <1>9, <1>10

\* Several tokens: the first name filters if there is text besides.
LEMMA ManyTokens ==
    ASSUME NEW q \in Seq(Tokens), Len(q) > 1, NEW c \in Searches
    PROVE  Tells(ParseMany(q, c), q, c)
<1> DEFINE parsed == [i \in DOMAIN q |-> ParseToken(q[i], c)]
           names == {i \in DOMAIN q : IsName(parsed[i])}
           first == {i \in names : \A j \in names : i <= j}
           text == {i \in DOMAIN q : parsed[i] = None} \cup (names \ first)
           promoted == IF text = {} THEN first ELSE {}
           J == text \cup promoted
           I == DOMAIN q \ J
           P == {ParseToken(t, c) : t \in Tokens}
           RC(n) == Recognised(q[n], c)
           NM(n) == ~q[n].neg /\ q[n].shape = "name" /\ Names(c)
<1>1. ParseMany(q, c) = Result(Pick(parsed, I), Pick(q, J), c)
  BY DEF ParseMany
<1>2. PICK len \in Nat : len = Len(q) /\ DOMAIN q = 1..len /\ len > 1
  OBVIOUS
<1>3. \A n \in DOMAIN q : q[n] \in Tokens /\ q[n].neg \in BOOLEAN
  BY TokensAssumption
<1>4. parsed \in Seq(P) /\ DOMAIN parsed = DOMAIN q /\ \A n \in DOMAIN q : parsed[n] = ParseToken(q[n], c)
  <2>1. parsed \in [1..len -> P]
    BY <1>2
  <2> HIDE DEF P, parsed
  <2>2. parsed \in Seq(P)
    BY <2>1, SeqDef
  <2> QED BY <2>2 DEF parsed
<1>5. ASSUME NEW n \in DOMAIN q
      PROVE  /\ IsName(parsed[n]) <=> NM(n)
             /\ parsed[n] # None <=> RC(n) \/ NM(n)
             /\ RC(n) => ~NM(n)
             /\ q[n].neg => RC(n)
  <2>0. q[n] \in Tokens /\ q[n].neg \in BOOLEAN
    BY <1>3
  <2>1. parsed[n] = IF KindOf(q[n], c) = "none" THEN None ELSE Constraint(KindOf(q[n], c), q[n].neg, q[n])
    BY <2>0, TokenIs
  <2>2. /\ KindOf(q[n], c) # "none" /\ ~(KindOf(q[n], c) = "path" /\ ~q[n].neg) <=> RC(n)
        /\ KindOf(q[n], c) = "path" /\ ~q[n].neg <=> NM(n)
    BY <2>0, KindMeans
  <2> HIDE DEF parsed, RC, NM
  <2>3. parsed[n] # None <=> KindOf(q[n], c) # "none"
    BY <2>1, ConstraintFields
  <2>4. parsed[n] # None => parsed[n].c = KindOf(q[n], c) /\ parsed[n].neg = q[n].neg
    BY <2>1, <2>3, ConstraintFields
  <2>5. ~IsName(None)
    BY DEF IsName, None
  <2>6. IsName(parsed[n]) <=> KindOf(q[n], c) = "path" /\ ~q[n].neg
    BY <2>3, <2>4, <2>5 DEF IsName
  <2>7. q[n].neg => RC(n)
    BY DEF RC, Recognised
  <2> QED BY <2>2, <2>3, <2>6, <2>7
<1>6. names = {n \in DOMAIN q : NM(n)}
  BY <1>5
<1>7. \A n \in DOMAIN q : n \in text <=> (~RC(n) /\ ~NM(n)) \/ (NM(n) /\ n \notin first)
  BY <1>5, <1>6
<1>8. \A n \in DOMAIN q : n \in first <=> NM(n) /\ \A k \in 1..n-1 : ~NM(k)
  <2> HIDE DEF NM, names, parsed
  <2> TAKE n \in DOMAIN q
  <2>1. n \in first <=> NM(n) /\ \A k \in DOMAIN q : NM(k) => n <= k
    BY <1>6
  <2>2. ASSUME NEW k \in DOMAIN q PROVE n <= k <=> k \notin 1..n-1
    BY <1>2
  <2>3. 1..n-1 \subseteq DOMAIN q
    BY <1>2
  <2> QED BY <2>1, <2>2, <2>3
<1>9. \A n \in DOMAIN q : IsFilter(q, n, c) <=>
        \/ RC(n)
        \/ /\ NM(n) /\ \A k \in 1..n-1 : ~NM(k)
           /\ \E k \in DOMAIN q \ {n} : ~RC(k)
  <2> TAKE n \in DOMAIN q
  <2>1. IsFilter(q, n, c) <=>
          \/ RC(n)
          \/ /\ q[n].shape = "name" /\ Names(c) /\ \A k \in 1..n-1 : q[k].shape # "name" \/ q[k].neg
             /\ \E k \in DOMAIN q \ {n} : ~RC(k)
    BY <1>2 DEF IsFilter
  <2>2. q[n].neg => RC(n)
    BY <1>5
  <2> QED BY <2>1, <2>2
<1>10. text \subseteq DOMAIN q /\ J \subseteq DOMAIN q /\ I \subseteq DOMAIN q
  OBVIOUS
<1>11. \A n \in DOMAIN q : n \in I <=> n \notin text /\ ~(text = {} /\ n \in first)
  OBVIOUS
<1> HIDE DEF RC, NM, parsed, text, first, names
<1>12. ASSUME NEW n \in DOMAIN q PROVE n \in I <=> IsFilter(q, n, c)
  <2>1. CASE RC(n)
    BY <1>5, <1>7, <1>8, <1>9, <1>11, <2>1
  <2>2. CASE ~RC(n) /\ n \in first
    <3>1. NM(n) /\ \A k \in 1..n-1 : ~NM(k)
      BY <1>8, <2>2
    <3>2. ASSUME text # {} PROVE \E k \in DOMAIN q \ {n} : ~RC(k)
      <4>1. PICK k \in text : TRUE
        BY <3>2
      <4>2. k \in DOMAIN q /\ k # n /\ ~RC(k)
        BY <1>5, <1>7, <1>10, <2>2, <3>1, <4>1
      <4> QED BY <4>2
    <3>3. ASSUME NEW k \in DOMAIN q \ {n}, ~RC(k) PROVE k \in text
      <4>1. CASE ~NM(k)
        BY <1>7, <3>3, <4>1
      <4>2. CASE NM(k)
        <5>1. ~(k <= n - 1)
          BY <1>2, <3>1, <4>2
        <5>2. n \in 1..k-1
          BY <1>2, <5>1
        <5>3. k \notin first
          BY <1>8, <3>1, <5>2
        <5> QED BY <1>7, <4>2, <5>3
      <4> QED BY <4>1, <4>2
    <3>4. n \notin text
      BY <1>7, <2>2, <3>1
    <3> QED BY <1>9, <1>11, <2>2, <3>1, <3>2, <3>3, <3>4
  <2>3. CASE ~RC(n) /\ n \notin first
    BY <1>7, <1>8, <1>9, <1>11, <2>3
  <2> QED BY <2>1, <2>2, <2>3
<1>13. I = Filters(q, c)
  BY <1>10, <1>12 DEF Filters
<1> HIDE DEF I
<1>14. LET cs == Pick(parsed, I) IN
       /\ cs \in Seq(P) /\ Len(cs) = Cardinality(I) /\ Cardinality(I) \in Nat
       /\ \A k \in DOMAIN cs : \E n \in I : cs[k] = parsed[n]
       /\ \A n \in I : \E k \in DOMAIN cs : cs[k] = parsed[n]
  <2> HIDE DEF P
  <2> QED BY <1>4, <1>10, PickSeq
<1>15. Lists(Pick(parsed, I), q, c)
  BY <1>4, <1>10, <1>13, <1>14 DEF Lists
<1>16. Pick(q, J) \in Seq(Tokens) /\ Len(Pick(q, J)) = Cardinality(J) /\ Cardinality(J) \in Nat
  <2> HIDE DEF J
  <2> QED BY <1>10, PickSeq
<1>17. Cardinality(J) + Cardinality(I) = len
  <2>1. IsFiniteSet(DOMAIN q) /\ Cardinality(DOMAIN q) = len
    BY <1>2, UpToIsFinite
  <2>2. I = DOMAIN q \ J /\ DOMAIN q \cap J = J
    BY <1>10 DEF I
  <2> HIDE DEF J
  <2>3. Cardinality(DOMAIN q \ J) = Cardinality(DOMAIN q) - Cardinality(DOMAIN q \cap J)
    BY <2>1, FS_Difference
  <2>4. Cardinality(I) = len - Cardinality(J)
    BY <2>1, <2>2, <2>3
  <2>5. Cardinality(J) \in Nat
    BY <1>16
  <2> QED BY <2>4, <2>5
<1> HIDE DEF J
<1>18. Len(Pick(q, J)) + Len(Pick(parsed, I)) = Len(q)
  BY <1>2, <1>14, <1>16, <1>17
<1> QED BY <1>1, <1>15, <1>16, <1>18, ResultTells

\* The constraints of a parsed query are its filters, each once.
LEMMA ParseTells ==
    ASSUME NEW q \in Seq(Tokens), NEW c \in Searches
    PROVE  Tells(Parse(q, c), q, c)
<1>1. PICK n \in Nat : n = Len(q)
  OBVIOUS
<1>2. CASE Len(q) = 0
  <2>1. Parse(q, c) = Result(<<>>, <<>>, c)
    BY <1>2 DEF Parse
  <2> QED BY <1>2, <2>1, NoTokens
<1>3. CASE Len(q) = 1
  BY <1>3, OneToken DEF Parse
<1>4. CASE Len(q) > 1
  <2>0. Len(q) # 0 /\ Len(q) # 1
    BY <1>1, <1>4, SMTT(30)
  <2>1. Parse(q, c) = ParseMany(q, c)
    BY <2>0 DEF Parse
  <2> QED BY <1>4, <2>1, ManyTokens
<1> QED BY <1>1, <1>2, <1>3, <1>4

(***************************************************************************)
(* Applying the constraints: the match of a glob is found where the globs  *)
(* before it are counted to.                                               *)
(***************************************************************************)
LEMMA GlobFound ==
    ASSUME NEW P, NEW cs \in Seq(P), NEW n \in DOMAIN cs, cs[n].c = "glob"
    PROVE  /\ GlobIndex(cs, n) \in 1..Len(GlobsOf(cs)) /\ DOMAIN GlobsOf(cs) = 1..Len(GlobsOf(cs))
           /\ GlobsOf(cs)[GlobIndex(cs, n)] = cs[n]
<1> DEFINE G == {k \in DOMAIN cs : cs[k].c = "glob"}
<1>1. PICK len \in Nat : len = Len(cs) /\ DOMAIN cs = 1..len
  OBVIOUS
<1>2. UpTo(G, n) = {k \in 1..n : cs[k].c = "glob"}
  BY <1>1 DEF UpTo
<1>3. GlobIndex(cs, n) = Cardinality(UpTo(G, n))
  BY <1>2 DEF GlobIndex
<1>4. GlobsOf(cs) = Pick(cs, G)
  BY DEF GlobsOf
<1>5. n \in G /\ G \subseteq DOMAIN cs
  OBVIOUS
<1> HIDE DEF G
<1>6. G \subseteq Nat /\ IsFiniteSet(G) /\ Cardinality(G) \in Nat
  BY <1>5, DomainIs
<1>7. PICK m \in Nat : m = Cardinality(G)
  BY <1>6
<1>8. Len(GlobsOf(cs)) = m /\ DOMAIN GlobsOf(cs) = 1..m
  BY <1>4, <1>5, <1>7, PickSeq
<1>p. PICK e : Picks(e, cs, G, m)
  BY <1>6, <1>7, PickIs
<1>9. /\ \A k \in 1..m : Pick(cs, G)[k] = cs[e[k]] /\ Cardinality(UpTo(G, e[k])) = k
      /\ \A i \in G : \E k \in 1..m : e[k] = i
  BY <1>p DEF Picks
<1>10. PICK k \in 1..m : e[k] = n
  BY <1>5, <1>9
<1>11. GlobIndex(cs, n) = k /\ GlobsOf(cs)[k] = cs[n]
  BY <1>3, <1>4, <1>9, <1>10
<1> QED BY <1>8, <1>11

\* Being satisfied is true or false.
LEMMA PlainOrNot ==
    ASSUME NEW i, NEW p, NEW c
    PROVE  /\ Plainly(i, p) = TRUE \/ Plainly(i, p) = FALSE
           /\ Satisfies(i, p, c) = TRUE \/ Satisfies(i, p, c) = FALSE
<1>1. Plainly(i, p) = TRUE \/ Plainly(i, p) = FALSE
  BY DEF Plainly
<1>2. Satisfies(i, p, c) = TRUE \/ Satisfies(i, p, c) = FALSE
  BY DEF Satisfies
<1> QED BY <1>1, <1>2

\* An item matches at the place of a constraint if it meets the constraint.
LEMMA MatchIs ==
    ASSUME NEW P, NEW cs \in Seq(P), NEW n \in DOMAIN cs, NEW i \in Items
    PROVE  MatchesAt(i, cs, n, CollectGlobs(cs)) <=> Meets(i, cs[n])
<1> DEFINE p == cs[n]
           globs == CollectGlobs(cs)
           x == GlobIndex(cs, n)
<1>1. ASSUME p.c = "glob" PROVE (x > Len(globs) \/ i \in globs[x]) <=> p.t.v \in i.globs
  <2>1. /\ x \in 1..Len(GlobsOf(cs)) /\ DOMAIN GlobsOf(cs) = 1..Len(GlobsOf(cs))
        /\ GlobsOf(cs)[x] = p
    BY <1>1, GlobFound
  <2>2. /\ DOMAIN globs = DOMAIN GlobsOf(cs)
        /\ \A k \in DOMAIN GlobsOf(cs) : globs[k] = {j \in Items : GlobsOf(cs)[k].t.v \in j.globs}
    BY DEF CollectGlobs
  <2> HIDE DEF globs, p, x
  <2>3. globs[x] = {j \in Items : p.t.v \in j.globs}
    BY <2>1, <2>2
  <2>4. ~(x > Len(globs))
    <3>1. PICK len \in Nat : len = Len(GlobsOf(cs))
      <4>1. GlobsOf(cs) \in Seq(P)
        <5> DEFINE G == {k \in DOMAIN cs : cs[k].c = "glob"}
        <5>1. GlobsOf(cs) = Pick(cs, G) /\ G \subseteq DOMAIN cs
          BY DEF GlobsOf
        <5> HIDE DEF G
        <5> QED BY <5>1, PickSeq
      <4> QED BY <4>1
    <3>2. DOMAIN globs = 1..len
      BY <2>1, <2>2, <3>1
    <3>3. Len(globs) = len
      <4>1. globs = [k \in DOMAIN GlobsOf(cs) |-> globs[k]]
        BY <2>2 DEF globs, CollectGlobs
      <4>2. globs \in [1..len -> {globs[k] : k \in 1..len}]
        BY <2>1, <3>1, <4>1
      <4> QED BY <4>2, LenProperties, SeqDef
    <3> QED BY <2>1, <3>1, <3>3
  <2> QED BY <2>3, <2>4
<1>2. MatchesAt(i, cs, n, globs) <=>
        (CASE p.c = "glob" -> x > Len(globs) \/ i \in globs[x]
           [] p.c = "extension" -> i.ext = p.t.v
           [] p.c = "segment" -> p.t.v \in i.segments
           [] p.c = "path" -> i.name = p.t.v
           [] p.c = "git" -> i.status = p.t.v
           [] p.c = "text" -> p.t.v \in i.words
           [] OTHER -> TRUE) # p.neg
  BY DEF MatchesAt
<1> DEFINE plain == CASE p.c = "glob" -> x > Len(globs) \/ i \in globs[x]
                      [] p.c = "extension" -> i.ext = p.t.v
                      [] p.c = "segment" -> p.t.v \in i.segments
                      [] p.c = "path" -> i.name = p.t.v
                      [] p.c = "git" -> i.status = p.t.v
                      [] p.c = "text" -> p.t.v \in i.words
                      [] OTHER -> TRUE
<1> HIDE DEF globs, p, x
<1>3. MatchesAt(i, cs, n, globs) <=> Meets(i, p)
  <2>1. plain = TRUE \/ plain = FALSE
    OBVIOUS
  <2>2. plain <=> Plainly(i, p)
    BY <1>1 DEF Plainly
  <2>3. MatchesAt(i, cs, n, globs) <=> plain # p.neg
    BY <1>2
  <2> HIDE DEF plain
  <2>4. plain = Plainly(i, p)
    BY <2>1, <2>2, PlainOrNot
  <2> QED BY <2>3, <2>4 DEF Meets
<1> QED BY <1>3 DEF globs, p

Wanted(i, cs) ==
    /\ (\E n \in DOMAIN cs : IsExtension(cs[n])) => \E n \in DOMAIN cs : IsExtension(cs[n]) /\ i.ext = cs[n].t.v
    /\ \A n \in DOMAIN cs : IsExtension(cs[n]) \/ Meets(i, cs[n])

\* Applying constraints keeps what meets them: one of the extensions, all others.
LEMMA AppliedIs ==
    ASSUME NEW P, NEW cs \in Seq(P)
    PROVE  ApplyConstraints(cs, Items) = {i \in Items : Wanted(i, cs)}
<1> DEFINE I == {n \in DOMAIN cs : ~IsExtension(cs[n])}
           others == Others(cs)
           globs == CollectGlobs(others)
           exts == {cs[n].t.v : n \in {k \in DOMAIN cs : IsExtension(cs[k])}}
<1>1. ApplyConstraints(cs, Items) =
        {i \in Items : /\ exts # {} => i.ext \in exts
                       /\ \A n \in DOMAIN others : MatchesAt(i, others, n, globs)}
  BY DEF ApplyConstraints
<1>2. others = Pick(cs, I) /\ I \subseteq DOMAIN cs
  BY DEF Others
<1>3. /\ others \in Seq(P)
      /\ \A k \in DOMAIN others : \E n \in I : others[k] = cs[n]
      /\ \A n \in I : \E k \in DOMAIN others : others[k] = cs[n]
  <2> HIDE DEF I
  <2> QED BY <1>2, PickSeq
<1>4. \A i : (exts # {} => i.ext \in exts) <=>
        ((\E n \in DOMAIN cs : IsExtension(cs[n])) => \E n \in DOMAIN cs : IsExtension(cs[n]) /\ i.ext = cs[n].t.v)
  OBVIOUS
<1> HIDE DEF exts, others
<1>5. ASSUME NEW i \in Items
      PROVE  (\A n \in DOMAIN others : MatchesAt(i, others, n, globs))
               <=> \A n \in DOMAIN cs : IsExtension(cs[n]) \/ Meets(i, cs[n])
  <2>1. \A n \in DOMAIN others : MatchesAt(i, others, n, globs) <=> Meets(i, others[n])
    BY <1>3, MatchIs
  <2>2. \A n \in DOMAIN cs : n \in I <=> ~IsExtension(cs[n])
    OBVIOUS
  <2> HIDE DEF globs, I
  <2> QED BY <1>2, <1>3, <2>1, <2>2
<1> HIDE DEF globs
<1> QED BY <1>1, <1>4, <1>5 DEF Wanted

\* What a filter is parsed to keeps what its token asks for.
LEMMA FilterIs ==
    ASSUME NEW q \in Seq(Tokens), NEW c \in Searches, NEW n \in Filters(q, c), NEW i
    PROVE  LET p == ParseToken(q[n], c) IN
           /\ q[n] \in Tokens
           /\ IsExtension(p) <=> q[n].shape = "extension" /\ ~q[n].neg /\ Extensions(c)
           /\ IsExtension(p) => (i.ext = p.t.v <=> Satisfies(i, q[n], c))
           /\ Meets(i, p) <=> Satisfies(i, q[n], c) # q[n].neg
<1> DEFINE t == q[n]
           p == ParseToken(t, c)
<1>1. t \in Tokens /\ t.neg \in BOOLEAN /\ t.shape \in Shapes
  BY TokensAssumption DEF Filters
<1>2. KindOf(t, c) # "none"
  <2>1. Recognised(t, c) \/ (t.shape = "name" /\ Names(c))
    BY DEF Filters, IsFilter
  <2>2. t.neg => Recognised(t, c)
    BY DEF Recognised
  <2>3. Recognised(t, c) \/ (~t.neg /\ t.shape = "name" /\ Names(c))
    BY <2>1, <2>2
  <2>4. KindOf(t, c) = "path" \/ KindOf(t, c) # "none"
    BY <1>1, <2>3, KindMeans
  <2> QED BY <2>4
<1>3. p = Constraint(KindOf(t, c), t.neg, t)
  BY <1>1, <1>2, TokenIs
<1>4. p.c = KindOf(t, c) /\ p.neg = t.neg /\ p.t = t
  BY <1>3, ConstraintFields
<1>5. Plainly(i, p) <=> Satisfies(i, t, c)
  BY <1>1, <1>2, <1>3, KindMeans
<1>6. KindOf(t, c) = "extension" <=> t.shape = "extension" /\ Extensions(c)
  BY <1>1, KindMeans
<1> HIDE DEF t, p
<1>7. IsExtension(p) <=> t.shape = "extension" /\ ~t.neg /\ Extensions(c)
  BY <1>4, <1>6 DEF IsExtension
<1>8. IsExtension(p) => (i.ext = p.t.v <=> Plainly(i, p))
  BY DEF IsExtension, Plainly
<1>9. Plainly(i, p) = Satisfies(i, t, c)
  BY <1>5, PlainOrNot
<1>10. Meets(i, p) <=> Satisfies(i, t, c) # t.neg
  BY <1>4, <1>9 DEF Meets
<1> QED BY <1>1, <1>5, <1>7, <1>8, <1>10 DEF t, p

\* The constraints of a query keep the items it accepts.
LEMMA QueryMeans ==
    ASSUME NEW q \in Seq(Tokens), NEW c \in Searches
    PROVE  ApplyConstraints(Parse(q, c).constraints, Items) = {i \in Items : Accepted(q, c, i)}
<1> DEFINE cs == Parse(q, c).constraints
           P == {ParseToken(t, c) : t \in Tokens}
           F == Filters(q, c)
           exts == {n \in F : q[n].shape = "extension" /\ ~q[n].neg /\ Extensions(c)}
           p(n) == ParseToken(q[n], c)
<1>1. /\ cs \in Seq(P)
      /\ \A k \in DOMAIN cs : \E n \in F : cs[k] = p(n)
      /\ \A n \in F : \E k \in DOMAIN cs : cs[k] = p(n)
  BY ParseTells DEF Tells, Lists
<1>2. ApplyConstraints(cs, Items) = {i \in Items : Wanted(i, cs)}
  <2> HIDE DEF cs, P
  <2> QED BY <1>1, AppliedIs
<1>3. \A i : Accepted(q, c, i) <=> /\ exts # {} => \E n \in exts : Satisfies(i, q[n], c)
                                   /\ \A n \in F \ exts : Satisfies(i, q[n], c) # q[n].neg
  BY DEF Accepted, Filters
<1>4. \A i : \A n \in F : /\ IsExtension(p(n)) <=> n \in exts
                          /\ IsExtension(p(n)) => (i.ext = p(n).t.v <=> Satisfies(i, q[n], c))
                          /\ Meets(i, p(n)) <=> Satisfies(i, q[n], c) # q[n].neg
  BY FilterIs
<1>5. exts \subseteq F
  OBVIOUS
<1> HIDE DEF cs, exts, F, p
<1>6. ASSUME NEW i PROVE Wanted(i, cs) <=> Accepted(q, c, i)
  <2>1. (\E k \in DOMAIN cs : IsExtension(cs[k])) <=> exts # {}
    BY <1>1, <1>4, <1>5
  <2>2. (\E k \in DOMAIN cs : IsExtension(cs[k]) /\ i.ext = cs[k].t.v)
          <=> \E n \in exts : Satisfies(i, q[n], c)
    <3>1. ASSUME NEW k \in DOMAIN cs, IsExtension(cs[k]), i.ext = cs[k].t.v
          PROVE  \E n \in exts : Satisfies(i, q[n], c)
      <4>1. PICK n \in F : cs[k] = p(n)
        BY <1>1
      <4> QED BY <1>4, <3>1, <4>1
    <3>2. ASSUME NEW n \in exts, Satisfies(i, q[n], c)
          PROVE  \E k \in DOMAIN cs : IsExtension(cs[k]) /\ i.ext = cs[k].t.v
      <4>1. PICK k \in DOMAIN cs : cs[k] = p(n)
        BY <1>1, <1>5
      <4>2. IsExtension(p(n)) /\ i.ext = p(n).t.v
        BY <1>4, <1>5, <3>2
      <4> QED BY <4>1, <4>2
    <3> QED BY <3>1, <3>2
  <2>3. (\A k \in DOMAIN cs : IsExtension(cs[k]) \/ Meets(i, cs[k]))
          <=> \A n \in F \ exts : Satisfies(i, q[n], c) # q[n].neg
    <3>1. ASSUME \A k \in DOMAIN cs : IsExtension(cs[k]) \/ Meets(i, cs[k]), NEW n \in F \ exts
          PROVE  Satisfies(i, q[n], c) # q[n].neg
      <4>1. PICK k \in DOMAIN cs : cs[k] = p(n)
        BY <1>1
      <4>2. Meets(i, p(n))
        BY <1>4, <3>1, <4>1
      <4> QED BY <1>4, <4>2
    <3>2. ASSUME \A n \in F \ exts : Satisfies(i, q[n], c) # q[n].neg, NEW k \in DOMAIN cs, ~IsExtension(cs[k])
          PROVE  Meets(i, cs[k])
      <4>1. PICK n \in F : cs[k] = p(n)
        BY <1>1
      <4>2. n \in F \ exts
        BY <1>4, <3>2, <4>1
      <4> QED BY <1>4, <3>2, <4>1, <4>2
    <3> QED BY <3>1, <3>2
  <2> QED BY <1>3, <2>1, <2>2, <2>3 DEF Wanted
<1> QED BY <1>2, <1>6 DEF cs

\* Nobody asks for anything but tokens.
LEMMA AskedIsTokens == Spec => [](asked.query \in Seq(Tokens))
<1> DEFINE Asked == asked.query \in Seq(Tokens)
<1>1. <<>> \in Seq(Tokens) /\ Queries \subseteq Seq(Tokens)
  BY EmptySeq, SearchAssumption
<1>2. Init => Asked
  BY <1>1 DEF Init
<1>3. ASSUME Asked, [Next]_vars PROVE Asked'
  <2>1. \A cl, fresh, q, kind, offset, limit, index :
          Call(cl, fresh, q, kind, offset, limit, index) => asked'.query = q
    BY DEF Call
  <2>2. CASE Open
    <3>1. PICK q \in Queries, size \in Sizes :
            \/ \E recalled \in BOOLEAN : Type(q, size, recalled)
            \/ FindFiles(q, size)
            \/ PiFind(q, size)
            \/ \E kind \in {"files", "dirs", "mixed"}, offset \in Offsets : Search(q, kind, offset, size)
      BY <2>2 DEF Open
    <3>2. FindFiles(q, size) => asked'.query = q
      BY DEF FindFiles
    <3>3. asked'.query = q
      <4>1. (\E recalled \in BOOLEAN : Type(q, size, recalled)) => asked'.query = q
        BY <2>1 DEF Type
      <4>2. (\E kind \in {"files", "dirs", "mixed"}, offset \in Offsets : Search(q, kind, offset, size))
              => asked'.query = q
        BY <2>1 DEF Search
      <4> QED BY <2>1, <3>1, <3>2, <4>1, <4>2 DEF PiFind
    <3> QED BY <1>1, <3>3
  <2>3. CASE \E n \in 0..Len(FileSeq) : LoadPage(n)
    BY <1>3, <2>1, <2>3 DEF LoadPage
  <2>4. CASE \E size \in Sizes : FindMore(size)
    BY <1>3, <2>1, <2>4 DEF FindMore
  <2>5. CASE PiMore
    BY <1>3, <2>1, <2>5 DEF PiMore
  <2>6. CASE Close
    BY <1>1, <2>6 DEF Close
  <2>7. CASE UNCHANGED vars
    BY <1>3, <2>7 DEF vars
  <2> QED BY <1>3, <2>2, <2>3, <2>4, <2>5, <2>6, <2>7 DEF Next
<1> QED BY <1>2, <1>3, PTL DEF Spec

(***************************************************************************)
(* Whatever the tokens of a query and the kind of search, the constraints  *)
(* keep the items that the tokens ask for, each token read once.           *)
(***************************************************************************)
THEOREM FiltersMeanTheQuery == Spec => []FilterMeansQuery
<1>1. ASSUME asked.query \in Seq(Tokens) PROVE FilterMeansQuery
  <2> SUFFICES ASSUME NEW c \in Searches
               PROVE  LET q == asked.query
                          p == Parse(q, c)
                      IN  /\ ApplyConstraints(p.constraints, Items) = {i \in Items : Accepted(q, c, i)}
                          /\ Len(p.constraints) = Cardinality({n \in DOMAIN q : IsFilter(q, n, c)})
                          /\ p.text # <<>> => Len(p.text) + Len(p.constraints) = Len(q)
    BY DEF FilterMeansQuery
  <2>1. Tells(Parse(asked.query, c), asked.query, c)
    BY <1>1, ParseTells
  <2>2. ApplyConstraints(Parse(asked.query, c).constraints, Items) = {i \in Items : Accepted(asked.query, c, i)}
    BY <1>1, QueryMeans
  <2> QED BY <2>1, <2>2 DEF Tells, Lists, Filters
<1> QED BY <1>1, AskedIsTokens, PTL
=============================================================================
