--------------------------- MODULE SearchIDsProofs --------------------------
(***************************************************************************)
(* What uniqueIDsExcluding returns, and what filtering a list keeps, for   *)
(* every list.                                                             *)
(***************************************************************************)
EXTENDS SearchIDs, FunctionTheorems, FiniteSetTheorems, SequenceTheorems, TLAPS

\* Every rank up to the number of positions is the rank of one of them: the
\* comprehension in UniqueIDsExcluding picks a position for every index.
LEMMA RanksAreAllTaken ==
    ASSUME NEW positions \in SUBSET Int, IsFiniteSet(positions)
    PROVE  /\ Cardinality(positions) \in Nat
           /\ \A i \in positions : Rank(positions, i) \in 1 .. Cardinality(positions)
           /\ \A k \in 1 .. Cardinality(positions) :
                  \E i \in positions : Rank(positions, i) = k
           /\ \A i, j \in positions : Rank(positions, i) = Rank(positions, j) => i = j
<1> DEFINE UpTo(i) == {j \in positions : j <= i}
           f == [i \in positions |-> Rank(positions, i)]
           c == Cardinality(positions)
<1>1. c \in Nat
  BY FS_CardinalityType
<1>2. \A i \in positions : UpTo(i) \in SUBSET positions
  OBVIOUS
<1>3. \A i \in positions : /\ IsFiniteSet(UpTo(i))
                           /\ Rank(positions, i) \in Nat
                           /\ Rank(positions, i) \in 1 .. c
  <2> TAKE i \in positions
  <2>1. IsFiniteSet(UpTo(i)) /\ Cardinality(UpTo(i)) <= c
    BY <1>1, <1>2, FS_Subset
  <2>2. i \in UpTo(i) /\ Cardinality(UpTo(i)) \in Nat
    BY <2>1, FS_CardinalityType
  <2>3. Cardinality(UpTo(i)) # 0
    BY <2>1, <2>2, FS_EmptySet
  <2> QED
    BY <1>1, <2>1, <2>2, <2>3 DEF Rank
<1>4. \A i, j \in positions : i < j => Rank(positions, i) < Rank(positions, j)
  <2> SUFFICES ASSUME NEW i \in positions, NEW j \in positions, i < j
               PROVE  Rank(positions, i) < Rank(positions, j)
    OBVIOUS
  <2>0. i \in Int /\ j \in Int /\ \A x \in positions : x \in Int
    OBVIOUS
  <2>1. UpTo(i) \in SUBSET UpTo(j)
    <3>1. \A x \in positions : x <= i => x <= j
      BY <2>0
    <3> QED
      BY <3>1
  <2>1a. j \in UpTo(j) /\ j \notin UpTo(i)
    OBVIOUS
  <2>2. Cardinality(UpTo(i)) <= Cardinality(UpTo(j)) /\ Cardinality(UpTo(i)) # Cardinality(UpTo(j))
    BY <1>3, <2>1, <2>1a, FS_Subset
  <2> QED
    BY <1>3, <2>2 DEF Rank
<1>5. f \in Injection(positions, 1 .. c)
  <2>1. f \in [positions -> 1 .. c]
    BY <1>3
  <2>2. ASSUME NEW i \in positions, NEW j \in positions, f[i] = f[j]
        PROVE  i = j
    <3>1. Rank(positions, i) = Rank(positions, j)
      BY <2>2
    <3>2. Rank(positions, i) \in Nat /\ Rank(positions, j) \in Nat
      BY <1>3
    <3>3. ~(i < j) /\ ~(j < i)
      BY <1>4, <3>1, <3>2
    <3> QED
      BY <3>3
  <2> QED
    BY <2>1, <2>2 DEF Injection, IsInjective
<1>6. f \in Surjection(positions, 1 .. c)
  BY <1>1, <1>5, FS_Injection, FS_Interval
<1> QED
  BY <1>1, <1>3, <1>5, <1>6 DEF Surjection, Injection, IsInjective

\* Ranks are in the order of the positions.
LEMMA RanksAreOrdered ==
    ASSUME NEW P \in SUBSET Int, IsFiniteSet(P)
    PROVE  \A i, j \in P : i <= j <=> Rank(P, i) <= Rank(P, j)
<1> DEFINE UpTo(i) == {j \in P : j <= i}
<1>1. \A i \in P : Rank(P, i) \in Nat
  <2> TAKE i \in P
  <2>1. IsFiniteSet(UpTo(i))
    BY FS_Subset
  <2> QED
    BY <2>1, FS_CardinalityType DEF Rank
<1>2. ASSUME NEW i \in P, NEW j \in P, i <= j PROVE Rank(P, i) <= Rank(P, j)
  <2>1. \A x \in P : x \in Int
    OBVIOUS
  <2>2. \A x \in P : x <= i => x <= j
    BY <1>2, <2>1
  <2>3. UpTo(i) \in SUBSET UpTo(j) /\ IsFiniteSet(UpTo(j))
    BY <2>2, FS_Subset
  <2> QED
    BY <2>3, FS_Subset DEF Rank
<1>3. ASSUME NEW i \in P, NEW j \in P, Rank(P, i) <= Rank(P, j) PROVE i <= j
  <2>1. i \in Int /\ j \in Int
    OBVIOUS
  <2>2. CASE j <= i
    <3>1. Rank(P, i) = Rank(P, j)
      BY <1>1, <1>2, <1>3, <2>2
    <3>2. i = j
      BY <3>1, RanksAreAllTaken
    <3> QED
      BY <2>1, <3>2
  <2> QED
    BY <2>1, <2>2
<1> QED
  BY <1>2, <1>3

\* Positions of a sequence are finitely many integers.
LEMMA PositionsAreFinite ==
    ASSUME NEW n \in Nat, NEW positions \in SUBSET (1 .. n)
    PROVE  positions \in SUBSET Int /\ IsFiniteSet(positions)
<1>1. IsFiniteSet(1 .. n)
  BY FS_Interval, 1 \in Int, n \in Int
<1>2. IsFiniteSet(positions)
  BY <1>1, FS_Subset
<1>3. positions \in SUBSET Int
  OBVIOUS
<1> QED
  BY <1>2, <1>3

\* A set of finitely many integers has a least and a greatest element.
LEMMA LeastAndGreatest ==
    ASSUME NEW P \in SUBSET Int, IsFiniteSet(P), P # {}
    PROVE  (\E x \in P : \A y \in P : x <= y) /\ (\E x \in P : \A y \in P : y <= x)
<1> DEFINE c == Cardinality(P)
           UpTo(i) == {j \in P : j <= i}
<1>1. /\ c \in Nat
      /\ \A k \in 1 .. c : \E i \in P : Rank(P, i) = k
  BY RanksAreAllTaken
<1>2. c # 0
  BY FS_EmptySet
<1>3. PICK l \in P : Rank(P, l) = 1
  <2>1. 1 \in 1 .. c
    BY <1>1, <1>2
  <2> QED
    BY <1>1, <2>1
<1>4. PICK g \in P : Rank(P, g) = c
  <2>1. c \in 1 .. c
    BY <1>1, <1>2
  <2> QED
    BY <1>1, <2>1
<1>5. ASSUME NEW y \in P PROVE l <= y
  <2>1. IsFiniteSet(UpTo(l)) /\ Cardinality(UpTo(l)) = 1
    BY <1>3, FS_Subset DEF Rank
  <2>2. PICK h : UpTo(l) = {h}
    BY <2>1, FS_Singleton
  <2>3. l \in UpTo(l) /\ (y <= l => y \in UpTo(l))
    BY <1>5
  <2>4. l \in Int /\ y \in Int
    BY <1>5
  <2> QED
    BY <2>2, <2>3, <2>4
<1>6. ASSUME NEW y \in P PROVE y <= g
  <2>1. UpTo(g) \in SUBSET P /\ Cardinality(UpTo(g)) = Cardinality(P)
    BY <1>4 DEF Rank
  <2>2. UpTo(g) = P
    BY <2>1, FS_Subset
  <2> QED
    BY <1>6, <2>2
<1> QED
  BY <1>3, <1>4, <1>5, <1>6

\* AtPositions has, at each place, what the sequence has at the position of that
\* rank.
LEMMA AtPositionsProperties ==
    ASSUME NEW S, NEW s \in Seq(S), NEW P \in SUBSET (1 .. Len(s))
    PROVE  LET r == AtPositions(s, P)
           IN  /\ r \in Seq(S) /\ Len(r) = Cardinality(P) /\ Len(r) \in Nat
               /\ \A i \in P : Rank(P, i) \in 1 .. Len(r) /\ r[Rank(P, i)] = s[i]
               /\ \A k \in 1 .. Len(r) : \E i \in P : Rank(P, i) = k /\ r[k] = s[i]
<1> DEFINE r == AtPositions(s, P)
           c == Cardinality(P)
           at(k) == CHOOSE i \in P : Rank(P, i) = k
<1>1. Len(s) \in Nat /\ \A i \in 1 .. Len(s) : s[i] \in S
  OBVIOUS
<1>2. /\ c \in Nat
      /\ \A i \in P : Rank(P, i) \in 1 .. c
      /\ \A k \in 1 .. c : \E i \in P : Rank(P, i) = k
      /\ \A i, j \in P : Rank(P, i) = Rank(P, j) => i = j
  BY <1>1, PositionsAreFinite, RanksAreAllTaken
<1>3. \A k \in 1 .. c : at(k) \in P /\ Rank(P, at(k)) = k
  BY <1>2
<1>4. r = [k \in 1 .. c |-> s[at(k)]]
  BY DEF AtPositions
<1>5. \A i \in P : at(Rank(P, i)) = i
  BY <1>2
<1> HIDE DEF at, r
<1>6. r \in [1 .. c -> S]
  BY <1>1, <1>3, <1>4
<1>7. r \in Seq(S) /\ Len(r) = c
  BY <1>2, <1>6
<1>8. \A i \in P : r[Rank(P, i)] = s[i]
  BY <1>2, <1>4, <1>5
<1>9. \A k \in 1 .. c : r[k] = s[at(k)]
  BY <1>4
<1> QED
  BY <1>2, <1>3, <1>7, <1>8, <1>9 DEF r

\* uniqueIDsExcluding returns identifiers of its input, none of them excluded
\* and none of them twice.
THEOREM UniqueIDsExcludingIsUnique ==
    ASSUME NEW S, NEW ids \in Seq(S), NEW excluded
    PROVE  /\ UniqueIDsExcluding(ids, excluded) \in Seq(S)
           /\ Range(UniqueIDsExcluding(ids, excluded)) \subseteq Range(ids) \ excluded
           /\ IsInjective(UniqueIDsExcluding(ids, excluded))
<1> DEFINE kept == FirstOccurrences(ids, excluded)
           c    == Cardinality(kept)
           pos  == [k \in 1 .. c |-> CHOOSE i \in kept : Rank(kept, i) = k]
           u    == UniqueIDsExcluding(ids, excluded)
<1>1. Len(ids) \in Nat /\ DOMAIN ids = 1 .. Len(ids) /\ \A i \in 1 .. Len(ids) : ids[i] \in S
  OBVIOUS
<1>2. kept \in SUBSET (1 .. Len(ids))
  BY <1>1 DEF FirstOccurrences
<1>3. c \in Nat /\ \A k \in 1 .. c : \E i \in kept : Rank(kept, i) = k
  BY <1>1, <1>2, PositionsAreFinite, RanksAreAllTaken
<1>4. \A k \in 1 .. c : pos[k] \in kept /\ Rank(kept, pos[k]) = k
  BY <1>3
<1>5. u = [k \in 1 .. c |-> ids[pos[k]]]
  BY DEF UniqueIDsExcluding, AtPositions
<1> HIDE DEF kept, pos, u
<1>6. \A k \in 1 .. c : u[k] \in S /\ u[k] \in Range(ids) /\ u[k] \notin excluded
  BY <1>1, <1>2, <1>4, <1>5 DEF kept, FirstOccurrences, Range
<1>7. u \in Seq(S) /\ DOMAIN u = 1 .. c
  BY <1>3, <1>5, <1>6
<1>8. \A a, b \in 1 .. c : u[a] = u[b] => a = b
  <2> SUFFICES ASSUME NEW a \in 1 .. c, NEW b \in 1 .. c, u[a] = u[b]
               PROVE  a = b
    OBVIOUS
  <2>1. ids[pos[a]] = ids[pos[b]] /\ pos[a] \in kept /\ pos[b] \in kept
    BY <1>4, <1>5
  <2>2. pos[a] = pos[b]
    BY <1>1, <1>2, <2>1 DEF kept, FirstOccurrences
  <2> QED
    BY <1>4, <2>2
<1> QED
  BY <1>6, <1>7, <1>8 DEF u, IsInjective, Range

\* An element of a sequence has a first occurrence: the position of rank 1.
LEMMA FirstOccurrenceExists ==
    ASSUME NEW S, NEW ids \in Seq(S), NEW x \in Range(ids)
    PROVE  \E k \in DOMAIN ids : ids[k] = x /\ \A j \in 1 .. k - 1 : ids[j] # x
<1> DEFINE places == {j \in 1 .. Len(ids) : ids[j] = x}
<1>1. Len(ids) \in Nat /\ DOMAIN ids = 1 .. Len(ids)
  OBVIOUS
<1>2. PICK i \in places : TRUE
  BY <1>1 DEF Range
<1>2a. places \in SUBSET (1 .. Len(ids))
  OBVIOUS
<1> HIDE DEF places
<1>3. /\ IsFiniteSet(places) /\ Cardinality(places) \in Nat
      /\ \A k \in 1 .. Cardinality(places) : \E j \in places : Rank(places, j) = k
  BY <1>1, <1>2a, PositionsAreFinite, RanksAreAllTaken
<1>4. Cardinality(places) # 0
  BY <1>2, <1>3, FS_EmptySet
<1>5. PICK k \in places : Rank(places, k) = 1
  <2>1. 1 \in 1 .. Cardinality(places)
    BY <1>3, <1>4
  <2> QED
    BY <1>3, <2>1
<1>6. ASSUME NEW j \in 1 .. k - 1, ids[j] = x PROVE FALSE
  <2> DEFINE upTo == {h \in places : h <= k}
  <2>1. k \in upTo /\ j \in upTo /\ j # k
    BY <1>1, <1>6 DEF places
  <2>2. IsFiniteSet(upTo) /\ Cardinality(upTo) = 1
    BY <1>3, <1>5, FS_Subset DEF Rank
  <2>3. \E h : upTo = {h}
    BY <2>2, FS_Singleton
  <2> QED
    BY <2>1, <2>3
<1> QED
  BY <1>1, <1>6 DEF places

\* uniqueIDsExcluding loses nothing: what is in its input and not excluded is in
\* its result.
THEOREM UniqueIDsExcludingIsComplete ==
    ASSUME NEW S, NEW ids \in Seq(S), NEW excluded
    PROVE  Range(ids) \ excluded \subseteq Range(UniqueIDsExcluding(ids, excluded))
<1> DEFINE kept == FirstOccurrences(ids, excluded)
           c    == Cardinality(kept)
           u    == UniqueIDsExcluding(ids, excluded)
<1> SUFFICES ASSUME NEW x \in Range(ids), x \notin excluded
             PROVE  x \in Range(u)
  OBVIOUS
<1>1. PICK k \in DOMAIN ids : ids[k] = x /\ \A j \in 1 .. k - 1 : ids[j] # x
  BY FirstOccurrenceExists
<1>2. k \in kept
  BY <1>1 DEF FirstOccurrences
<1>3. Len(ids) \in Nat /\ kept \in SUBSET (1 .. Len(ids))
  BY DEF FirstOccurrences
<1>4. /\ c \in Nat /\ Rank(kept, k) \in 1 .. c
      /\ \A i, j \in kept : Rank(kept, i) = Rank(kept, j) => i = j
  <2>1. kept \in SUBSET Int /\ IsFiniteSet(kept)
    BY <1>3, PositionsAreFinite
  <2> QED
    BY <1>2, <2>1, RanksAreAllTaken
<1>5. u = [r \in 1 .. c |-> ids[CHOOSE i \in kept : Rank(kept, i) = r]]
  BY DEF UniqueIDsExcluding, AtPositions
<1> HIDE DEF kept, u
<1>6. (CHOOSE i \in kept : Rank(kept, i) = Rank(kept, k)) = k
  BY <1>2, <1>4
<1>7. u[Rank(kept, k)] = x /\ Rank(kept, k) \in DOMAIN u
  BY <1>1, <1>4, <1>5, <1>6
<1> QED
  BY <1>7 DEF Range

\* What is kept of a sequence are its elements in the set; without repetitions
\* when there were none.
LEMMA KeepProperties ==
    ASSUME NEW S, NEW s \in Seq(S), NEW T
    PROVE  /\ Keep(s, T) \in Seq(S) /\ Len(Keep(s, T)) \in Nat
           /\ Range(Keep(s, T)) = Range(s) \cap T
           /\ Keep(s, T) = <<>> <=> Range(s) \cap T = {}
           /\ IsInjective(s) => IsInjective(Keep(s, T))
<1> DEFINE P == {i \in DOMAIN s : s[i] \in T}
           r == Keep(s, T)
<1>1. DOMAIN s = 1 .. Len(s) /\ P \in SUBSET (1 .. Len(s))
  OBVIOUS
<1>2. r = AtPositions(s, P)
  BY DEF Keep
<1> HIDE DEF r, P
<1>3. /\ r \in Seq(S) /\ Len(r) \in Nat /\ DOMAIN r = 1 .. Len(r)
      /\ \A i \in P : Rank(P, i) \in 1 .. Len(r) /\ r[Rank(P, i)] = s[i]
      /\ \A k \in 1 .. Len(r) : \E i \in P : Rank(P, i) = k /\ r[k] = s[i]
  BY <1>1, <1>2, AtPositionsProperties
<1>4. Range(r) = Range(s) \cap T
  <2>1. ASSUME NEW k \in DOMAIN r PROVE r[k] \in Range(s) \cap T
    BY <1>3, <2>1 DEF Range, P
  <2>2. ASSUME NEW i \in DOMAIN s, s[i] \in T PROVE s[i] \in Range(r)
    <3>1. i \in P
      BY <2>2 DEF P
    <3> QED
      BY <1>3, <3>1 DEF Range
  <2> QED
    BY <2>1, <2>2 DEF Range
<1>5. r = <<>> <=> Range(r) = {}
  <2>1. CASE r = <<>>
    BY <2>1 DEF Range
  <2>2. CASE r # <<>>
    <3>1. Len(r) # 0
      BY <1>3, <2>2
    <3>2. 1 \in DOMAIN r
      BY <1>3, <3>1
    <3> QED
      BY <2>2, <3>2 DEF Range
  <2> QED
    BY <2>1, <2>2
<1>6. IsInjective(s) => IsInjective(r)
  <2> SUFFICES ASSUME IsInjective(s), NEW k \in DOMAIN r, NEW l \in DOMAIN r, r[k] = r[l]
               PROVE  k = l
    BY DEF IsInjective
  <2>1. PICK i \in P : Rank(P, i) = k /\ r[k] = s[i]
    BY <1>3
  <2>2. PICK j \in P : Rank(P, j) = l /\ r[l] = s[j]
    BY <1>3
  <2>3. i = j
    BY <2>1, <2>2 DEF IsInjective, P
  <2> QED
    BY <2>1, <2>2, <2>3
<1> QED
  BY <1>3, <1>4, <1>5, <1>6 DEF r

\* A filter only asks about the elements there are.
LEMMA KeepAgrees ==
    ASSUME NEW S, NEW s \in Seq(S), NEW T, NEW U, Range(s) \cap T = Range(s) \cap U
    PROVE  Keep(s, T) = Keep(s, U)
<1>1. {i \in DOMAIN s : s[i] \in T} = {i \in DOMAIN s : s[i] \in U}
  BY DEF Range
<1> QED
  BY <1>1 DEF Keep

\* What is kept of a single element.
LEMMA KeepOfOne ==
    ASSUME NEW S, NEW x \in S, NEW T
    PROVE  Keep(<<x>>, T) = IF x \in T THEN <<x>> ELSE <<>>
<1> DEFINE r == Keep(<<x>>, T)
<1>1. /\ <<x>> \in Seq(S) /\ IsInjective(<<x>>) /\ Range(<<x>>) = {x}
  BY DEF IsInjective, Range
<1>2. /\ r \in Seq(S) /\ Len(r) \in Nat /\ DOMAIN r = 1 .. Len(r)
      /\ Range(r) = {x} \cap T /\ IsInjective(r)
      /\ r = <<>> <=> {x} \cap T = {}
  <2>1. /\ r \in Seq(S) /\ Len(r) \in Nat
        /\ Range(r) = Range(<<x>>) \cap T
        /\ r = <<>> <=> Range(<<x>>) \cap T = {}
        /\ IsInjective(<<x>>) => IsInjective(r)
    BY <1>1, KeepProperties
  <2>2. DOMAIN r = 1 .. Len(r)
    BY <2>1
  <2> QED
    BY <1>1, <2>1, <2>2
<1> HIDE DEF r
<1>3. CASE x \in T
  <2>1. \A k \in 1 .. Len(r) : r[k] = x
    BY <1>2 DEF Range
  <2>2. \A k, l \in 1 .. Len(r) : k = l
    BY <1>2, <2>1 DEF IsInjective
  <2>3. Len(r) # 0
    BY <1>2, <1>3
  <2>4. Len(r) = 1
    <3>1. 1 \in 1 .. Len(r) /\ Len(r) \in 1 .. Len(r)
      BY <1>2, <2>3
    <3> QED
      BY <2>2, <3>1
  <2>5. r[1] = x
    BY <2>1, <2>4
  <2> QED
    BY <1>2, <1>3, <2>4, <2>5 DEF r
<1>4. CASE x \notin T
  BY <1>2, <1>4 DEF r
<1> QED
  BY <1>3, <1>4

\* Positions of positions: taking from what was taken is taking once.
LEMMA AtPositionsOfPositions ==
    ASSUME NEW S, NEW s \in Seq(S), NEW P \in SUBSET (1 .. Len(s)),
           NEW Q \in SUBSET (1 .. Cardinality(P))
    PROVE  AtPositions(AtPositions(s, P), Q) = AtPositions(s, {i \in P : Rank(P, i) \in Q})
<1> DEFINE r == AtPositions(s, P)
           R == {i \in P : Rank(P, i) \in Q}
           f == [i \in R |-> Rank(P, i)]
<1>1. Len(s) \in Nat /\ R \in SUBSET (1 .. Len(s)) /\ R \in SUBSET P
  <2>1. Len(s) \in Nat /\ R \in SUBSET P
    OBVIOUS
  <2>2. \A i \in R : i \in 1 .. Len(s)
    BY <2>1
  <2> QED
    BY <2>1, <2>2
<1>2. /\ P \in SUBSET Int /\ IsFiniteSet(P) /\ Cardinality(P) \in Nat
      /\ \A i \in P : Rank(P, i) \in 1 .. Cardinality(P)
      /\ \A k \in 1 .. Cardinality(P) : \E i \in P : Rank(P, i) = k
      /\ \A i, j \in P : Rank(P, i) = Rank(P, j) => i = j
  BY <1>1, PositionsAreFinite, RanksAreAllTaken
<1>3. /\ r \in Seq(S) /\ Len(r) = Cardinality(P)
      /\ \A i \in P : r[Rank(P, i)] = s[i]
  BY AtPositionsProperties
<1>4. Q \in SUBSET Int /\ IsFiniteSet(Q)
  BY <1>2, PositionsAreFinite
<1>5. \A i, j \in P : i <= j <=> Rank(P, i) <= Rank(P, j)
  BY <1>2, RanksAreOrdered
<1>6. \A i \in R : Rank(R, i) = Rank(Q, Rank(P, i))
  <2> TAKE i \in R
  <2> DEFINE below == {j \in R : j <= i}
             image == {q \in Q : q <= Rank(P, i)}
             g     == [j \in below |-> Rank(P, j)]
  <2>1. g \in [below -> image]
    BY <1>5
  <2>2. \A j, k \in below : g[j] = g[k] => j = k
    BY <1>2
  <2>3. \A q \in image : \E j \in below : g[j] = q
    <3> TAKE q \in image
    <3>1. PICK j \in P : Rank(P, j) = q
      BY <1>2
    <3>2. j \in below
      BY <1>5, <3>1
    <3> QED
      BY <3>1, <3>2
  <2>4. g \in Bijection(below, image)
    <3> HIDE DEF g, below, image
    <3> QED
      BY <2>1, <2>2, <2>3 DEF Bijection, Injection, Surjection, IsInjective
  <2>5. IsFiniteSet(below)
    BY <1>2, FS_Subset
  <2>6. Cardinality(below) = Cardinality(image)
    BY <2>4, <2>5, FS_Bijection DEF ExistsBijection
  <2> QED
    BY <2>6 DEF Rank
<1>7. Cardinality(R) = Cardinality(Q)
  <2>1. f \in [R -> Q]
    OBVIOUS
  <2>2. \A j, k \in R : f[j] = f[k] => j = k
    BY <1>2
  <2>3. \A q \in Q : \E j \in R : f[j] = q
    BY <1>2
  <2>4. f \in Bijection(R, Q)
    <3> HIDE DEF f, R
    <3> QED
      BY <2>1, <2>2, <2>3 DEF Bijection, Injection, Surjection, IsInjective
  <2>5. IsFiniteSet(R)
    BY <1>2, FS_Subset
  <2> QED
    BY <2>4, <2>5, FS_Bijection DEF ExistsBijection
<1>8. /\ AtPositions(s, R) \in Seq(S) /\ Len(AtPositions(s, R)) = Cardinality(R)
      /\ \A i \in R : AtPositions(s, R)[Rank(R, i)] = s[i]
  BY <1>1, AtPositionsProperties
<1>9. /\ AtPositions(r, Q) \in Seq(S) /\ Len(AtPositions(r, Q)) = Cardinality(Q)
      /\ \A q \in Q : AtPositions(r, Q)[Rank(Q, q)] = r[q]
      /\ \A k \in 1 .. Cardinality(Q) : \E q \in Q : Rank(Q, q) = k
  BY <1>3, AtPositionsProperties
<1>10. ASSUME NEW k \in 1 .. Cardinality(Q)
       PROVE  AtPositions(r, Q)[k] = AtPositions(s, R)[k]
  <2>1. PICK q \in Q : Rank(Q, q) = k
    BY <1>9
  <2>2. PICK i \in P : Rank(P, i) = q
    BY <1>2
  <2>3. i \in R
    BY <2>2
  <2>4. AtPositions(s, R)[k] = s[i]
    BY <1>6, <1>8, <2>1, <2>2, <2>3
  <2>5. AtPositions(r, Q)[k] = s[i]
    BY <1>3, <1>9, <2>1, <2>2
  <2> QED
    BY <2>4, <2>5
<1> HIDE DEF r, R
<1>11. AtPositions(r, Q) = AtPositions(s, R)
  BY <1>7, <1>8, <1>9, <1>10, SeqEqual
<1> QED
  BY <1>11 DEF r, R

\* Filtering twice is filtering for both.
LEMMA KeepOfKeep ==
    ASSUME NEW S, NEW s \in Seq(S), NEW T, NEW U
    PROVE  Keep(Keep(s, T), U) = Keep(s, T \cap U)
<1> DEFINE P == {i \in DOMAIN s : s[i] \in T}
           r == AtPositions(s, P)
           Q == {k \in DOMAIN r : r[k] \in U}
<1>1. DOMAIN s = 1 .. Len(s) /\ P \in SUBSET (1 .. Len(s))
  OBVIOUS
<1>2. /\ r \in Seq(S) /\ Len(r) = Cardinality(P) /\ DOMAIN r = 1 .. Len(r)
      /\ \A i \in P : Rank(P, i) \in 1 .. Len(r) /\ r[Rank(P, i)] = s[i]
  <2> HIDE DEF P
  <2> QED
    BY <1>1, AtPositionsProperties
<1>3. Q \in SUBSET (1 .. Cardinality(P))
  BY <1>2
<1>4. AtPositions(r, Q) = AtPositions(s, {i \in P : Rank(P, i) \in Q})
  <2> HIDE DEF P, Q
  <2> QED
    BY <1>1, <1>3, AtPositionsOfPositions
<1>5. {i \in P : Rank(P, i) \in Q} = {i \in DOMAIN s : s[i] \in T \cap U}
  BY <1>2
<1> HIDE DEF P, r, Q
<1>6. Keep(s, T) = r
  BY DEF Keep, P, r
<1>7. Keep(r, U) = AtPositions(r, Q)
  BY DEF Keep, Q
<1> QED
  BY <1>4, <1>5, <1>6, <1>7 DEF Keep

\* All positions, taken in order, are the sequence.
LEMMA AllPositions ==
    ASSUME NEW S, NEW s \in Seq(S)
    PROVE  AtPositions(s, DOMAIN s) = s
<1> DEFINE P == 1 .. Len(s)
           r == AtPositions(s, P)
<1>1. Len(s) \in Nat /\ DOMAIN s = P
  OBVIOUS
<1>2. Cardinality(P) = Len(s)
  BY <1>1, FS_Interval, 1 \in Int
<1>3. ASSUME NEW i \in P PROVE Rank(P, i) = i
  <2>1. {j \in P : j <= i} = 1 .. i
    BY <1>1
  <2>2. Cardinality(1 .. i) = i
    BY <1>1, FS_Interval, 1 \in Int, i \in Int
  <2> QED
    BY <2>1, <2>2 DEF Rank
<1>4. r \in Seq(S) /\ Len(r) = Len(s) /\ \A i \in P : r[Rank(P, i)] = s[i]
  <2>1. P \in SUBSET (1 .. Len(s))
    OBVIOUS
  <2> HIDE DEF P
  <2> QED
    BY <1>2, <2>1, AtPositionsProperties
<1>5. \A i \in 1 .. Len(s) : r[i] = s[i]
  BY <1>3, <1>4
<1> HIDE DEF r
<1>6. r = s
  BY <1>4, <1>5, SeqEqual
<1> QED
  BY <1>1, <1>6 DEF r

\* uniqueIDsExcluding leaves a list as it is that repeats nothing and has nothing
\* that is excluded.
LEMMA UniqueIDsAreLeftAlone ==
    ASSUME NEW S, NEW ids \in Seq(S), NEW excluded, IsInjective(ids),
           Range(ids) \cap excluded = {}
    PROVE  UniqueIDsExcluding(ids, excluded) = ids
<1>1. DOMAIN ids = 1 .. Len(ids) /\ Len(ids) \in Nat
  OBVIOUS
<1>2. FirstOccurrences(ids, excluded) = DOMAIN ids
  <2>1. ASSUME NEW i \in DOMAIN ids PROVE ids[i] \notin excluded
    BY <2>1 DEF Range
  <2>2. ASSUME NEW i \in DOMAIN ids, NEW j \in 1 .. i - 1 PROVE ids[j] # ids[i]
    <3>1. j \in DOMAIN ids /\ j # i
      BY <1>1, <2>2
    <3> QED
      BY <3>1 DEF IsInjective
  <2> QED
    BY <2>1, <2>2 DEF FirstOccurrences
<1> QED
  BY <1>2, AllPositions DEF UniqueIDsExcluding

\* Of the elements of a sequence with the greatest date there is a first.
LEMMA FirstOfTheGreatest ==
    ASSUME NEW S, NEW s \in Seq(S), s # <<>>, NEW date \in [S -> Nat]
    PROVE  \E i \in DOMAIN s : /\ \A j \in DOMAIN s : date[s[j]] <= date[s[i]]
                              /\ \A j \in 1 .. i - 1 : date[s[j]] < date[s[i]]
<1> DEFINE dates  == {date[m] : m \in Range(s)}
           latest == {i \in DOMAIN s : \A j \in DOMAIN s : date[s[j]] <= date[s[i]]}
<1>1. /\ Len(s) \in Nat /\ DOMAIN s = 1 .. Len(s) /\ Len(s) # 0
      /\ \A i \in DOMAIN s : s[i] \in S
  BY EmptySeq
<1>2. \A i \in DOMAIN s : date[s[i]] \in Nat
  BY <1>1
<1>3. latest # {}
  <2>1. IsFiniteSet(DOMAIN s)
    BY <1>1, FS_Interval, 1 \in Int
  <2>2. dates = {date[s[i]] : i \in DOMAIN s}
    BY DEF Range
  <2>3. IsFiniteSet({date[s[i]] : i \in DOMAIN s})
    <3> DEFINE values == {date[s[i]] : i \in DOMAIN s}
               f == [i \in DOMAIN s |-> date[s[i]]]
    <3>1. f \in [DOMAIN s -> values] /\ \A v \in values : \E i \in DOMAIN s : f[i] = v
      OBVIOUS
    <3>2. f \in Surjection(DOMAIN s, values)
      BY <3>1 DEF Surjection
    <3> QED
      BY <2>1, <3>2, FS_Surjection
  <2>4. dates \in SUBSET Int
    BY <1>2, <2>2
  <2>5. dates # {}
    BY <1>1, <2>2, 1 \in DOMAIN s
  <2>6. PICK d \in dates : \A e \in dates : e <= d
    BY <2>2, <2>3, <2>4, <2>5, LeastAndGreatest
  <2>7. PICK i \in DOMAIN s : d = date[s[i]]
    BY <2>2
  <2>8. i \in latest
    BY <2>2, <2>6, <2>7
  <2> QED
    BY <2>8
<1>4. PICK k \in latest : \A i \in latest : k <= i
  <2>1. latest \in SUBSET (1 .. Len(s))
    BY <1>1
  <2> HIDE DEF latest
  <2> QED
    BY <1>1, <1>3, <2>1, PositionsAreFinite, LeastAndGreatest
<1>5. \A j \in 1 .. k - 1 : date[s[j]] < date[s[k]]
  <2> TAKE j \in 1 .. k - 1
  <2>1. j \in DOMAIN s /\ k \in DOMAIN s /\ ~(k <= j)
    BY <1>1
  <2>2. j \notin latest
    BY <1>4, <2>1
  <2>3. PICK i \in DOMAIN s : ~(date[s[i]] <= date[s[j]])
    BY <2>1, <2>2
  <2>4. date[s[i]] <= date[s[k]]
    BY <1>4
  <2> QED
    BY <1>2, <2>1, <2>3, <2>4
<1> QED
  BY <1>4, <1>5

\* A sequence without repetitions is as long as it has elements.
LEMMA LengthCounts ==
    ASSUME NEW S, NEW s \in Seq(S), IsInjective(s)
    PROVE  IsFiniteSet(Range(s)) /\ Cardinality(Range(s)) = Len(s)
<1>1. Len(s) \in Nat /\ DOMAIN s = 1 .. Len(s)
  OBVIOUS
<1>2. IsFiniteSet(1 .. Len(s)) /\ Cardinality(1 .. Len(s)) = Len(s)
  BY <1>1, FS_Interval, 1 \in Int
<1>3. s \in Bijection(1 .. Len(s), Range(s))
  BY <1>1 DEF IsInjective, Range, Bijection, Injection, Surjection
<1> QED
  BY <1>2, <1>3, FS_Bijection DEF ExistsBijection

=============================================================================
