---------------------------- MODULE ListingProofs ----------------------------
(***************************************************************************)
(* Theorems of ListingSystem, for every table, page size and number of     *)
(* changes: what a walk through the pages of a listing can miss or repeat. *)
(***************************************************************************)
EXTENDS ListingInvariant, FiniteSetTheorems, TLAPS

(* How many rows there are in sets of rows.                                *)

\* A subset is no larger.
LEMMA SubsetCounts ==
  ASSUME NEW A, NEW B, IsFiniteSet(B), A \subseteq B
  PROVE  /\ IsFiniteSet(A) /\ Cardinality(A) \in Nat /\ Cardinality(B) \in Nat
         /\ Cardinality(A) <= Cardinality(B)
BY FS_Subset, FS_CardinalityType

\* Two sets are as large as what they cover, or larger.
LEMMA CoverCounts ==
  ASSUME NEW A, NEW B, NEW C, IsFiniteSet(A), IsFiniteSet(B), C \subseteq A \cup B
  PROVE  /\ IsFiniteSet(C)
         /\ Cardinality(A) \in Nat /\ Cardinality(B) \in Nat
         /\ Cardinality(C) \in Nat
         /\ Cardinality(C) <= Cardinality(A) + Cardinality(B)
<1>1. /\ IsFiniteSet(A \cup B)
      /\ Cardinality(A \cup B) =
           Cardinality(A) + Cardinality(B) - Cardinality(A \cap B)
  BY FS_Union
<1>2. Cardinality(A \cap B) \in Nat /\ Cardinality(A) \in Nat
      /\ Cardinality(B) \in Nat
  BY FS_Intersection, FS_CardinalityType
<1>3. IsFiniteSet(C) /\ Cardinality(C) \in Nat
      /\ Cardinality(C) <= Cardinality(A \cup B)
  BY <1>1, SubsetCounts
<1> QED
  BY <1>1, <1>2, <1>3

\* Two sets apart are no larger than what they are within.
LEMMA DisjointCounts ==
  ASSUME NEW A, NEW B, NEW C, IsFiniteSet(C), A \cup B \subseteq C, A \cap B = {}
  PROVE  /\ IsFiniteSet(A) /\ IsFiniteSet(B)
         /\ Cardinality(A) \in Nat /\ Cardinality(B) \in Nat
         /\ Cardinality(C) \in Nat
         /\ Cardinality(A) + Cardinality(B) <= Cardinality(C)
<1>1. /\ IsFiniteSet(A) /\ IsFiniteSet(B)
      /\ Cardinality(A) \in Nat /\ Cardinality(B) \in Nat
  BY SubsetCounts
<1>2. Cardinality(A \cup B) = Cardinality(A) + Cardinality(B)
  <2>1. Cardinality(A \cup B) =
          Cardinality(A) + Cardinality(B) - Cardinality(A \cap B)
    BY <1>1, FS_Union
  <2>2. Cardinality(A \cap B) = 0
    BY FS_EmptySet
  <2> QED
    BY <1>1, <2>1, <2>2
<1>3. Cardinality(A \cup B) <= Cardinality(C) /\ Cardinality(C) \in Nat
  BY SubsetCounts
<1> QED
  BY <1>1, <1>2, <1>3

\* A set is as large as its parts.
LEMMA SplitCounts ==
  ASSUME NEW A, NEW B, IsFiniteSet(A)
  PROVE  /\ IsFiniteSet(A \cap B) /\ IsFiniteSet(A \ B)
         /\ Cardinality(A \cap B) \in Nat /\ Cardinality(A \ B) \in Nat
         /\ Cardinality(A) = Cardinality(A \cap B) + Cardinality(A \ B)
<1>1. Cardinality(A \cap B) \in Nat /\ IsFiniteSet(A \cap B)
  BY FS_Intersection, FS_CardinalityType
<1>2. /\ IsFiniteSet(A \ B)
      /\ Cardinality(A \ B) = Cardinality(A) - Cardinality(A \cap B)
  BY FS_Difference
<1>3. Cardinality(A \ B) \in Nat /\ Cardinality(A) \in Nat
  BY <1>2, FS_CardinalityType
<1> QED
  BY <1>1, <1>2, <1>3

\* The last page is one that has room for all rows that were counted.
LEMMA LastPageHasRoom ==
  ASSUME NEW n \in Nat, NEW k \in Nat \ {0}, NEW p \in Nat,
         p >= (n + k - 1) \div k
  PROVE  n <= p * k
<1>1. n + k - 1 < k * (((n + k - 1) \div k) + 1)
  OBVIOUS
<1>2. PICK q \in Nat : q = (n + k - 1) \div k
  OBVIOUS
<1>3. k * (q + 1) <= k * (p + 1)
  BY <1>2
<1>4. k * (p + 1) = p * k + k
  OBVIOUS
<1> QED
  BY <1>1, <1>2, <1>3, <1>4

\* Each page has room for as many rows.
LEMMA RoomGrows ==
  ASSUME NEW n \in Nat, NEW k \in Nat
  PROVE  /\ n * k \in Nat
         /\ (n + 1) * k = n * k + k
         /\ (n + 1 - 1) * k = n * k
OBVIOUS

-----------------------------------------------------------------------------
(* A page, where the order of the rows decides it.                         *)

RowsOK ==
  /\ IsFiniteSet(Where) /\ limit \in Nat \ {0} /\ Skip \in Nat
  /\ \A x \in Where : created[x] \in Nat

\* Rows in the order of an answer: each row of the listing has one place.
LEMMA AnswerIsBijection ==
  ASSUME RowsOK, NEW s \in SetToSeqs(Where)
  PROVE  /\ Cardinality(Where) \in Nat
         /\ s \in [1..Cardinality(Where) -> Where]
         /\ \A i, j \in 1..Cardinality(Where) : s[i] = s[j] => i = j
         /\ \A x \in Where : \E i \in 1..Cardinality(Where) : s[i] = x
<1>1. /\ Cardinality(Where) \in Nat
      /\ s \in [1..Cardinality(Where) -> Where]
      /\ \A i, j \in 1..Cardinality(Where) : s[i] = s[j] => i = j
  BY FS_CardinalityType DEF SetToSeqs, RowsOK
<1>2. s \in Injection(1..Cardinality(Where), Where)
  BY <1>1 DEF Injection, IsInjective
<1>3. Cardinality(1..Cardinality(Where)) = Cardinality(Where)
  BY <1>1, FS_Interval
<1>4. s \in Surjection(1..Cardinality(Where), Where)
  BY <1>2, <1>3, FS_Injection DEF RowsOK
<1> QED
  BY <1>1, <1>4 DEF Surjection

\* As many rows as places.
LEMMA PlacesCount ==
  ASSUME RowsOK, NEW s \in SetToSeqs(Where),
         NEW i \in 1..Cardinality(Where) + 1, NEW j \in 0..Cardinality(Where),
         i <= j + 1
  PROVE  Cardinality({s[n] : n \in i..j}) = j + 1 - i
<1> DEFINE A == {s[n] : n \in i..j}
           f == [n \in i..j |-> s[n]]
<1>1. /\ Cardinality(Where) \in Nat
      /\ s \in [1..Cardinality(Where) -> Where]
      /\ \A m, n \in 1..Cardinality(Where) : s[m] = s[n] => m = n
  BY AnswerIsBijection
<1>2. i \in Nat /\ j \in Nat /\ i..j \subseteq 1..Cardinality(Where)
  BY <1>1
<1>3. IsFiniteSet(i..j) /\ Cardinality(i..j) = j + 1 - i
  <2>1. i \in Int /\ j \in Int
    BY <1>2
  <2>2. /\ IsFiniteSet(i..j)
        /\ Cardinality(i..j) = IF i > j THEN 0 ELSE j - i + 1
    BY <2>1, FS_Interval, Zenon
  <2> QED
    BY <1>2, <2>2
<1>4. f \in Bijection(i..j, A)
  BY <1>1, <1>2 DEF Bijection, Injection, Surjection, IsInjective
<1>5. ExistsBijection(i..j, A)
  BY <1>4 DEF ExistsBijection
<1> HIDE DEF A
<1>6. Cardinality(A) = Cardinality(i..j)
  BY <1>3, <1>5, FS_Bijection
<1> QED
  BY <1>3, <1>6 DEF A

\* Two rows that may change places are on the same page: only one answer was
\* possible.
LEMMA NeighboursDiffer ==
  ASSUME RowsOK, Cardinality(Pages) = 1,
         NEW s \in SetToSeqs(Where), Decided(s),
         NEW k \in Nat, k = Skip, 1 <= k, k < Cardinality(Where)
  PROVE  Listing.ordered /\ created[s[k]] > created[s[k + 1]]
<1> DEFINE N == Cardinality(Where)
           z == [s EXCEPT ![k] = s[k + 1], ![k + 1] = s[k]]
<1>1. /\ N \in Nat /\ s \in [1..N -> Where]
      /\ \A m, n \in 1..N : s[m] = s[n] => m = n
  BY AnswerIsBijection
<1>2. k \in 1..N /\ k + 1 \in 1..N /\ k # k + 1
  BY <1>1
<1> HIDE DEF N
<1>3. /\ z \in [1..N -> Where]
      /\ z[k] = s[k + 1] /\ z[k + 1] = s[k]
      /\ \A n \in 1..N : n # k /\ n # k + 1 => z[n] = s[n]
  BY <1>1, <1>2
<1>4. z \in SetToSeqs(Where)
  <2>1. \A m, n \in 1..N : m # n => z[m] # z[n]
    BY <1>1, <1>2, <1>3
  <2> QED
    BY <1>3, <2>1 DEF SetToSeqs, N
<1>5. OnPage(s) # OnPage(z)
  <2>1. k + 1 \in 1..N /\ Skip < k + 1 /\ k + 1 <= Skip + limit
    BY <1>2 DEF RowsOK
  <2>2. s[k + 1] \in OnPage(s)
    BY <1>1, <2>1 DEF OnPage
  <2>3. ASSUME s[k + 1] \in OnPage(z)
        PROVE  FALSE
    <3>1. PICK n \in 1..N : z[n] = s[k + 1] /\ Skip < n
      BY <1>3, <2>3 DEF OnPage
    <3>2. n # k /\ n \in Nat
      BY <1>1, <3>1
    <3> QED
      BY <1>1, <1>2, <1>3, <3>1, <3>2
  <2> QED
    BY <2>2, <2>3
<1>6. ~Decided(z)
  <2>1. SUFFICES ASSUME Decided(z)
                 PROVE  FALSE
    OBVIOUS
  <2>2. OnPage(s) \in Pages /\ OnPage(z) \in Pages
    BY <1>4, <2>1 DEF Pages
  <2>3. Pages \subseteq SUBSET Where
    <3> SUFFICES ASSUME NEW q \in SetToSeqs(Where)
                 PROVE  OnPage(q) \subseteq Where
      BY DEF Pages
    <3>1. q \in [1..Cardinality(Where) -> Where]
      BY AnswerIsBijection
    <3>2. \A n \in DOMAIN q : q[n] \in Where
      BY <3>1
    <3> QED
      BY <3>2 DEF OnPage
  <2>4. IsFiniteSet(Pages)
    BY <2>3, FS_SUBSET, FS_Subset DEF RowsOK
  <2>5. \E P : Pages = {P}
    BY <2>4, FS_Singleton
  <2> QED
    BY <1>5, <2>2, <2>5
<1>7. Listing.ordered
  BY <1>6 DEF Decided
<1>8. \A m, n \in 1..N : m < n => created[s[m]] >= created[s[n]]
  BY <1>1, <1>7 DEF Decided
<1>9. \A n \in 1..N : created[s[n]] \in Nat
  BY <1>1 DEF RowsOK
<1>10. ASSUME created[s[k]] = created[s[k + 1]]
       PROVE  FALSE
  <2>1. \A n \in 1..N : created[z[n]] = created[s[n]]
    BY <1>2, <1>3, <1>10
  <2>2. Decided(z)
    BY <1>3, <1>8, <2>1 DEF Decided
  <2> QED
    BY <1>6, <2>2
<1> QED
  BY <1>2, <1>7, <1>8, <1>9, <1>10

\* What was in front of the page when it was read: T, the rows of the pages
\* before it.  Any other front is within these pages, or has them all.
PageAfter(T, P) ==
  /\ T \subseteq Where /\ P \subseteq Where /\ T \cap P = {}
  /\ Cardinality(T) <= Skip /\ Cardinality(T) + Cardinality(P) <= Skip + limit
  /\ Cardinality(P) <= limit /\ (P # {} => Cardinality(T) = Skip)
  /\ (T = {} /\ Skip = 0) \/ \E t \in Nat : T = InFront(t)
  /\ \A t \in Nat :
       \/ InFront(t) \subseteq T \cup P
       \/ /\ T \cup P \subseteq InFront(t)
          /\ Cardinality(T \cup P) = Skip + limit

\* A page that the order decides is what comes after the pages before it.
LEMMA PageIsNext ==
  ASSUME RowsOK, Cardinality(Pages) = 1, NEW P \in Pages
  PROVE  \E T \in SUBSET Where : PageAfter(T, P)
<1> DEFINE N == Cardinality(Where)
<1>1. PICK s \in SetToSeqs(Where) : Decided(s) /\ P = OnPage(s)
  BY DEF Pages
<1>2. /\ N \in Nat /\ s \in [1..N -> Where]
      /\ \A i, j \in 1..N : s[i] = s[j] => i = j
      /\ \A x \in Where : \E i \in 1..N : s[i] = x
  BY AnswerIsBijection
<1>3. PICK k \in Nat : k = Skip
  BY DEF RowsOK
<1>4. limit \in Nat /\ limit >= 1
  BY DEF RowsOK
<1>5. P = {s[n] : n \in {m \in 1..N : k < m /\ m <= k + limit}}
  BY <1>1, <1>2, <1>3 DEF OnPage
<1>6. CASE N <= k
  <2>1. P = {}
    BY <1>2, <1>5, <1>6
  <2>2. Where = InFront(0)
    BY DEF InFront, RowsOK
  <2>3. Cardinality(P) = 0
    BY <2>1, FS_EmptySet
  <2>4. \A t \in Nat : InFront(t) \subseteq Where
    BY DEF InFront
  <2>5. PageAfter(Where, P)
    BY <1>2, <1>3, <1>4, <1>6, <2>1, <2>2, <2>3, <2>4 DEF PageAfter
  <2> QED
    BY <2>5
<1>7. CASE k < N
  <2> DEFINE T == {s[n] : n \in 1..k}
             M == IF k + limit <= N THEN k + limit ELSE N
  <2>1. /\ M \in Nat /\ M \in 1..N /\ k < M /\ M <= k + limit
        /\ (M = N \/ M = k + limit)
    BY <1>2, <1>4, <1>7
  <2>2. P = {s[n] : n \in k + 1..M}
    <3>1. {m \in 1..N : k < m /\ m <= k + limit} = k + 1..M
      BY <1>2, <1>4, <1>7
    <3> QED
      BY <1>5, <3>1
  <2>3. T \cup P = {s[n] : n \in 1..M}
    <3>1. 1..M = (1..k) \cup (k + 1..M)
      BY <2>1
    <3> QED
      BY <2>2, <3>1
  <2> HIDE DEF M
  <2>4. /\ Cardinality(T) = k /\ Cardinality(P) = M - k
        /\ Cardinality(T \cup P) = M
    <3>1. /\ 1 \in 1..N + 1 /\ k \in 0..N /\ k + 1 \in 1..N + 1
          /\ M \in 0..N /\ 1 <= k + 1 /\ k + 1 <= M + 1 /\ 1 <= M + 1
      BY <1>2, <1>7, <2>1
    <3>2. Cardinality({s[n] : n \in 1..k}) = k + 1 - 1
      BY <3>1, PlacesCount
    <3>3. Cardinality({s[n] : n \in k + 1..M}) = M + 1 - (k + 1)
      BY <3>1, PlacesCount
    <3>4. Cardinality({s[n] : n \in 1..M}) = M + 1 - 1
      BY <3>1, PlacesCount
    <3>5. Cardinality(T) = k
      BY <3>2
    <3>6. Cardinality(P) = M - k
      BY <2>1, <2>2, <3>3
    <3>7. Cardinality(T \cup P) = M
      BY <2>1, <2>3, <3>4
    <3> QED
      BY <3>5, <3>6, <3>7
  <2>5. T \subseteq Where /\ P \subseteq Where /\ T \cap P = {}
    BY <1>2, <1>7, <2>1, <2>2
  <2>6. /\ Cardinality(T) <= Skip /\ Cardinality(T) + Cardinality(P) <= Skip + limit
        /\ Cardinality(P) <= limit /\ Cardinality(T) = Skip
    BY <1>3, <1>4, <2>1, <2>4
  <2>7. \A i \in 1..N : created[s[i]] \in Nat
    BY <1>2 DEF RowsOK
  <2>8. ASSUME Listing.ordered
        PROVE  \A i, j \in 1..N : i <= j => created[s[i]] >= created[s[j]]
    <3>1. \A i, j \in 1..N : i < j => created[s[i]] >= created[s[j]]
      BY <1>1, <1>2, <2>8 DEF Decided
    <3> QED
      BY <1>2, <2>7, <3>1
  <2>9. (T = {} /\ Skip = 0) \/ \E t \in Nat : T = InFront(t)
    <3>1. CASE k = 0
      BY <1>3, <3>1
    <3>2. CASE k # 0
      <4>1. Listing.ordered /\ created[s[k]] > created[s[k + 1]]
        BY <1>1, <1>3, <1>7, <3>2, NeighboursDiffer
      <4>2. PICK t \in Nat : t = created[s[k]]
        BY <1>2, <1>7, <2>7, <3>2
      <4>3. ASSUME NEW i \in 1..N
            PROVE  created[s[i]] >= t <=> i \in 1..k
        <5>1. CASE i <= k
          BY <1>2, <1>7, <2>8, <3>2, <4>1, <4>2, <5>1
        <5>2. CASE i >= k + 1
          <6>1. created[s[k + 1]] >= created[s[i]] /\ k + 1 \in 1..N
            BY <1>2, <1>7, <2>8, <4>1, <5>2
          <6> QED
            BY <1>2, <2>7, <4>1, <4>2, <5>2, <6>1
        <5> QED
          BY <1>2, <5>1, <5>2
      <4>4. T = InFront(t)
        <5>1. \A x \in T : x \in Where /\ created[x] >= t
          BY <1>2, <1>7, <4>3
        <5>2. \A x \in Where : created[x] >= t => x \in T
          BY <1>2, <4>3
        <5> QED
          BY <2>5, <4>1, <5>1, <5>2 DEF InFront
      <4> QED
        BY <4>4
    <3> QED
      BY <3>1, <3>2
  <2>10. ASSUME NEW t \in Nat
         PROVE  \/ InFront(t) \subseteq T \cup P
                \/ T \cup P \subseteq InFront(t) /\ Cardinality(T \cup P) = Skip + limit
    <3>1. CASE M = N
      <4>1. Where \subseteq T \cup P
        BY <1>2, <2>3, <3>1
      <4> QED
        BY <4>1 DEF InFront
    <3>2. CASE M = k + limit /\ (Listing.ordered => created[s[M]] >= t)
      <4>1. ASSUME NEW i \in 1..M, Listing.ordered
            PROVE  created[s[i]] >= t
        <5>1. created[s[i]] >= created[s[M]] /\ i \in 1..N
          BY <1>2, <2>1, <2>8, <4>1
        <5> QED
          BY <2>1, <2>7, <3>2, <4>1, <5>1
      <4>2. T \cup P \subseteq InFront(t)
        BY <2>3, <2>5, <4>1 DEF InFront
      <4> QED
        BY <1>3, <2>4, <3>2, <4>2
    <3>3. CASE Listing.ordered /\ ~(created[s[M]] >= t)
      <4>1. SUFFICES ASSUME NEW x \in InFront(t)
                     PROVE  x \in T \cup P
        OBVIOUS
      <4>2. PICK i \in 1..N : s[i] = x
        BY <1>2 DEF InFront
      <4>3. created[s[i]] >= t
        BY <3>3, <4>2 DEF InFront
      <4>4. i <= M
        <5>1. SUFFICES ASSUME M <= i
                       PROVE  i <= M
          BY <1>2, <2>1
        <5>2. created[s[M]] >= created[s[i]]
          BY <2>1, <2>8, <3>3, <5>1
        <5> QED
          BY <2>1, <2>7, <3>3, <4>3, <5>2
      <4> QED
        BY <1>2, <2>1, <2>3, <4>2, <4>4
    <3> QED
      BY <2>1, <3>1, <3>2, <3>3
  <2> HIDE DEF T
  <2>11. PageAfter(T, P)
    BY <2>5, <2>6, <2>9, <2>10 DEF PageAfter
  <2> QED
    BY <2>5, <2>11
<1> QED
  BY <1>2, <1>6, <1>7

-----------------------------------------------------------------------------
(* What a step of a request, of the client or of another one, changes.     *)

TableOK == TypeOK /\ ShownOK /\ WalkOK

\* The rows of the listing are rows that exist.
LEMMA WhereRows ==
  ASSUME TableOK
  PROVE  /\ Where \subseteq Existing /\ Existing \subseteq Row
         /\ IsFiniteSet(Where) /\ IsFiniteSet(Missed) /\ Missed \subseteq Where
         /\ \A x \in Existing : created[x] \in Nat
         /\ limit \in Nat \ {0}
         /\ InFront(0) = Where
         /\ \A t : InFront(t) \subseteq Where
<1>1. Where \subseteq Existing /\ Existing \subseteq Row
  BY DEF Where, Existing
<1>2. \A x \in Existing : created[x] \in Nat
  BY DEF Existing, TableOK, TypeOK
<1>3. Missed \subseteq Where
  BY DEF TableOK, ShownOK, Missed
<1>4. IsFiniteSet(Where) /\ IsFiniteSet(Missed)
  BY <1>1, <1>3, SubsetCounts DEF TableOK, ShownOK
<1>5. limit \in Nat \ {0}
  BY ListingAssumption DEF TableOK, TypeOK
<1>6. InFront(0) = Where /\ \A t : InFront(t) \subseteq Where
  BY <1>1, <1>2 DEF InFront
<1> QED
  BY <1>1, <1>2, <1>3, <1>4, <1>5, <1>6

\* A page shows rows of the listing.
LEMMA PageIsRows ==
  ASSUME RowsOK, NEW P \in Pages
  PROVE  P \subseteq Where
<1>1. PICK s \in SetToSeqs(Where) : P = OnPage(s)
  BY DEF Pages
<1>2. s \in [1..Cardinality(Where) -> Where]
  BY AnswerIsBijection
<1>3. \A n \in DOMAIN s : s[n] \in Where
  BY <1>2
<1> QED
  BY <1>1, <1>3 DEF OnPage

\* While a page is asked for, the pages before it have been answered.
LEMMA FindReady ==
  ASSUME TableOK, "find" \in todo
  PROVE  /\ RowsOK /\ Skip = Room /\ Room \in Nat /\ limit \in Nat \ {0}
         /\ pc # "idle" /\ page \in Nat /\ Len(shown) = page - 1 /\ page >= 1
<1>1. pc # "idle" /\ Len(shown) = page - 1 /\ page >= 1 /\ page \in Nat
  BY DEF TableOK, WalkOK, TypeOK
<1>2. PICK n \in Nat : n = page - 1
  BY <1>1
<1>3. limit \in Nat \ {0}
  BY WhereRows
<1>4. n * limit \in Nat
  BY <1>3, RoomGrows
<1>5. Skip = Room /\ Room \in Nat
  BY <1>1, <1>2, <1>4 DEF Skip, Room
<1> QED
  BY <1>1, <1>3, <1>5, WhereRows DEF RowsOK

\* Other requests change the table, and no row that stays is moved in time.
LEMMA OthersChange ==
  ASSUME TableOK, Others
  PROVE  /\ UNCHANGED <<question, walk>>
         /\ created' \in [Row -> Nat \cup {None, Gone}]
         /\ mine' \subseteq Row /\ hits' \subseteq Row /\ now' \in Nat
         /\ IsFiniteSet(Existing')
         /\ \A x \in Where \cap Where' : created'[x] = created[x]
<1> USE DEF question, walk, TableOK, TypeOK, ShownOK
<1>1. PICK x \in Row : Insert(x) \/ Delete(x) \/ Move(x) \/ Edit(x)
  BY DEF Others
<1>2. CASE Insert(x)
  <2>1. PICK t \in Nat : created' = [created EXCEPT ![x] = t]
    <3>1. \A t \in 0..now' : t \in Nat
      OBVIOUS
    <3>2. \E t \in 0..now' : created' = [created EXCEPT ![x] = t]
      BY <1>2 DEF Insert
    <3> HIDE DEF TableOK, TypeOK, ShownOK, question, walk
    <3> QED
      BY <3>1, <3>2
  <2>2. x \notin Where
    BY <1>2 DEF Insert, Where, Existing
  <2>3. Existing' \subseteq Existing \cup {x}
    BY <2>1 DEF Existing
  <2>4. IsFiniteSet(Existing \cup {x})
    BY FS_AddElement
  <2>5. IsFiniteSet(Existing')
    BY <2>3, <2>4, FS_Subset
  <2>6. mine' \subseteq Row /\ hits' \subseteq Row
    BY <1>2 DEF Insert
  <2>7. \A y \in Where : created'[y] = created[y]
    BY <2>1, <2>2 DEF Where, Existing
  <2> QED
    BY <1>2, <2>1, <2>5, <2>6, <2>7 DEF Insert
<1>3. CASE Delete(x)
  <2>1. x \notin Existing' /\ Existing' \subseteq Existing
    BY <1>3 DEF Delete, Existing
  <2>2. IsFiniteSet(Existing')
    BY <2>1, FS_Subset
  <2>3. \A y \in Existing' : created'[y] = created[y]
    BY <1>3, <2>1 DEF Delete, Existing
  <2>4. Where' \subseteq Existing'
    BY DEF Where
  <2> QED
    BY <1>3, <2>2, <2>3, <2>4 DEF Delete
<1>4. CASE Move(x) \/ Edit(x)
  <2>1. created' = created /\ UNCHANGED <<question, walk, now>>
    BY <1>4 DEF Move, Edit
  <2>2. Existing' = Existing
    BY <2>1 DEF Existing
  <2>3. mine' \subseteq Row /\ hits' \subseteq Row
    BY <1>4 DEF Move, Edit
  <2> QED
    BY <2>1, <2>2, <2>3
<1> QED
  BY <1>1, <1>2, <1>3, <1>4

\* The client reads.
LEMMA ClientKeepsTable ==
  ASSUME Client
  PROVE  /\ UNCHANGED <<question, table>> /\ Where' = Where /\ Existing' = Existing
         /\ \A t : InFront(t)' = InFront(t)
<1>1. UNCHANGED <<question, table>>
  BY DEF Client, Start, Find, Count, NextPage, LastPage
<1>2. Listing' = Listing
  BY <1>1 DEF Listing, question
<1>3. Existing' = Existing
  BY <1>1 DEF Existing, table
<1>4. Where' = Where
  BY <1>1, <1>2, <1>3 DEF Where, question, table
<1> QED
  BY <1>1, <1>2, <1>3, <1>4 DEF InFront, table

\* What is shown when one more page is.
LEMMA PageShown ==
  ASSUME TableOK, NEW P \in SUBSET Where, shown' = Append(shown, P)
  PROVE  /\ shown' \in Seq(SUBSET Row) /\ Len(shown') = Len(shown) + 1
         /\ Seen' = Seen \cup P
         /\ Showings' = Showings \cup ({Len(shown) + 1} \X P)
         /\ IsFiniteSet(P)
         /\ IsFiniteSet({Len(shown) + 1} \X P)
         /\ Cardinality({Len(shown) + 1} \X P) = Cardinality(P)
<1>1. shown \in Seq(SUBSET Row) /\ P \in SUBSET Row
  BY WhereRows DEF TableOK, ShownOK
<1>2. shown' \in Seq(SUBSET Row) /\ Len(shown') = Len(shown) + 1
  BY <1>1
<1>3. /\ DOMAIN shown' = DOMAIN shown \cup {Len(shown) + 1}
      /\ shown'[Len(shown) + 1] = P
      /\ \A p \in DOMAIN shown : shown'[p] = shown[p]
  BY <1>1
<1>4. Seen' = Seen \cup P
  BY <1>3 DEF Seen, Range
<1>5. Showings' = Showings \cup ({Len(shown) + 1} \X P)
  BY <1>3 DEF Showings
<1>6. IsFiniteSet(P)
  BY WhereRows, FS_Subset
<1>7. /\ IsFiniteSet({Len(shown) + 1}) /\ Cardinality({Len(shown) + 1}) = 1
  BY FS_Singleton
<1>8. /\ IsFiniteSet({Len(shown) + 1} \X P)
      /\ Cardinality({Len(shown) + 1} \X P) = 1 * Cardinality(P)
  BY <1>6, <1>7, FS_Product
<1>9. Cardinality(P) \in Nat
  BY <1>6, FS_CardinalityType
<1> QED
  BY <1>2, <1>4, <1>5, <1>6, <1>8, <1>9

\* Every step keeps the types, the table finite and the walk in order.
LEMMA TableStep ==
  ASSUME TableOK, Next
  PROVE  TableOK'
<1>1. /\ pc # "done" /\ decided
      /\ Client \/ Others
      /\ Remember
  BY DEF Next
<1>2. /\ IsFiniteSet(Existing') /\ Existing' \subseteq Row
      /\ Where' \subseteq Existing' /\ IsFiniteSet(Where')
  <2>1. IsFiniteSet(Existing')
    BY <1>1, OthersChange, ClientKeepsTable DEF TableOK, ShownOK
  <2>2. Existing' \subseteq Row /\ Where' \subseteq Existing'
    BY DEF Existing, Where
  <2> QED
    BY <2>1, <2>2, FS_Subset
<1>3. /\ stayed' \subseteq Where' /\ stayed' \subseteq Row
      /\ added' \in Nat /\ removed' \in Nat /\ decided' \in BOOLEAN
      /\ Cardinality(Where' \ Where) \in Nat /\ Cardinality(Where \ Where') \in Nat
      /\ (pc = "idle" => stayed' = Where')
  <2>1. Cardinality(Where' \ Where) \in Nat /\ Cardinality(Where \ Where') \in Nat
    BY <1>2, WhereRows, SplitCounts
  <2>2. stayed' \subseteq Where'
    BY <1>1 DEF Remember
  <2> QED
    BY <1>1, <1>2, <2>1, <2>2 DEF Remember, TableOK, TypeOK
<1> USE DEF TableOK, TypeOK, ShownOK, WalkOK, question, table, walk
<1>4. CASE Others
  <2>1. UNCHANGED <<question, walk>> /\ Seen' = Seen /\ Showings' = Showings
    BY <1>4, OthersChange DEF Seen, Showings
  <2>2. Listing' = Listing
    BY <2>1 DEF Listing
  <2>3. TypeOK'
    BY <1>3, <1>4, <2>1, OthersChange
  <2>4. ShownOK' /\ WalkOK'
    BY <1>1, <1>2, <1>3, <2>1, <2>2
  <2> QED
    BY <2>3, <2>4
<1>5. CASE Client
  <2>1. UNCHANGED <<question, table>> /\ Where' = Where /\ Listing' = Listing
    BY <1>5, ClientKeepsTable DEF Listing
  <2>2. Cardinality(Where) \in Nat
    BY WhereRows, FS_CardinalityType
  <2>3. CASE Start
    <3>1. Seen' = Seen /\ Showings' = Showings
      BY <2>3 DEF Start, Seen, Showings
    <3> QED
      BY <1>2, <1>3, <2>1, <2>3, <3>1 DEF Start
  <2>4. CASE Find
    <3>1. PICK P \in Pages : shown' = Append(shown, P)
      BY <2>4 DEF Find
    <3>2. P \in SUBSET Where
      BY <2>4, FindReady, PageIsRows DEF Find
    <3>3. /\ shown' \in Seq(SUBSET Row) /\ Len(shown') = Len(shown) + 1
          /\ Seen' = Seen \cup P
          /\ Showings' = Showings \cup ({Len(shown) + 1} \X P)
          /\ IsFiniteSet(P)
          /\ IsFiniteSet({Len(shown) + 1} \X P)
      BY <3>1, <3>2, PageShown
    <3>4. IsFiniteSet(Seen') /\ IsFiniteSet(Showings')
      BY <3>3, FS_Union
    <3>5. pc # "idle" /\ Len(shown) = page - 1 /\ page >= 1
      BY <2>4, FindReady DEF Find
    <3>6. \A p \in DOMAIN shown' : shown'[p] \subseteq Row
      BY <3>3
    <3>7. TypeOK'
      BY <1>2, <1>3, <2>1, <2>4, <3>6 DEF Find
    <3>8. ShownOK' /\ WalkOK'
      BY <1>1, <1>2, <1>3, <2>1, <2>4, <3>3, <3>4, <3>5 DEF Find
    <3> QED
      BY <3>7, <3>8
  <2>5. CASE Count
    <3>1. Seen' = Seen /\ Showings' = Showings
      BY <2>5 DEF Count, Seen, Showings
    <3>2. pc # "idle"
      BY <2>5 DEF Count
    <3> QED
      BY <1>1, <1>2, <1>3, <2>1, <2>2, <2>5, <3>1, <3>2 DEF Count
  <2>6. CASE NextPage
    <3>1. Seen' = Seen /\ Showings' = Showings
      BY <2>6 DEF NextPage, Seen, Showings
    <3> QED
      BY <1>2, <1>3, <2>1, <2>6, <3>1 DEF NextPage
  <2>7. CASE LastPage
    <3>1. Seen' = Seen /\ Showings' = Showings
      BY <2>7 DEF LastPage, Seen, Showings
    <3>2. total <= page * limit
      BY <2>7, WhereRows, LastPageHasRoom DEF LastPage, TotalPages
    <3>3. decided'
      BY <1>1, <2>7 DEF LastPage, Remember
    <3> QED
      BY <1>2, <1>3, <2>1, <2>7, <3>1, <3>2, <3>3 DEF LastPage
  <2> QED
    BY <1>5, <2>3, <2>4, <2>5, <2>6, <2>7 DEF Client
<1> QED
  BY <1>1, <1>4, <1>5

-----------------------------------------------------------------------------
(* What was missed and repeated, while others change the table.            *)

PromisesOK == MissesOK /\ RepeatsOK /\ CountOK

\* The sets that are counted are finite.
LEMMA SetCounts ==
  ASSUME TableOK, NEW t \in Nat
  PROVE  /\ IsFiniteSet(InFront(t)) /\ Cardinality(InFront(t)) \in Nat
         /\ Cardinality(Where) \in Nat
         /\ IsFiniteSet(Seen \cap Where)
         /\ IsFiniteSet((Seen \cap Where) \ InFront(t))
         /\ Cardinality((Seen \cap Where) \ InFront(t)) \in Nat
         /\ Cardinality(Seen) \in Nat /\ Cardinality(Showings) \in Nat
         /\ Cardinality(Missed) \in Nat
         /\ IsFiniteSet(Missed \cap InFront(t))
         /\ Cardinality(Missed \cap InFront(t)) \in Nat
         /\ removed \in Nat /\ added \in Nat
         /\ limit \in Nat \ {0} /\ Len(shown) \in Nat /\ Room \in Nat
<1>1. IsFiniteSet(Where) /\ IsFiniteSet(Missed) /\ InFront(t) \subseteq Where
  BY WhereRows
<1>2. IsFiniteSet(InFront(t)) /\ Cardinality(InFront(t)) \in Nat
  BY <1>1, SubsetCounts
<1>3. IsFiniteSet(Seen \cap Where)
  BY <1>1, FS_Intersection
<1>4. /\ IsFiniteSet((Seen \cap Where) \ InFront(t))
      /\ Cardinality((Seen \cap Where) \ InFront(t)) \in Nat
  BY <1>3, SplitCounts
<1>5. IsFiniteSet(Seen) /\ IsFiniteSet(Showings)
  BY DEF TableOK, ShownOK
<1>6. /\ IsFiniteSet(Missed \cap InFront(t))
      /\ Cardinality(Missed \cap InFront(t)) \in Nat
  BY <1>1, SplitCounts
<1>7. limit \in Nat \ {0} /\ Len(shown) \in Nat
  BY WhereRows DEF TableOK, ShownOK
<1>8. Room \in Nat
  BY <1>7, RoomGrows DEF Room
<1> QED
  BY <1>1, <1>2, <1>3, <1>4, <1>5, <1>6, <1>7, <1>8, FS_CardinalityType
     DEF TableOK, TypeOK

\* Nothing was missed or repeated before the first page.
LEMMA NothingShown == TableOK /\ shown = <<>> => MissesOK /\ RepeatsOK
<1> SUFFICES ASSUME TableOK, shown = <<>>
             PROVE  MissesOK /\ RepeatsOK
  OBVIOUS
<1>1. Room = 0
  BY WhereRows DEF Room
<1>2. Seen = {} /\ Showings = {}
  BY DEF Seen, Showings, Range
<1> SUFFICES ASSUME NEW t \in Nat
             PROVE  /\ Cardinality(Missed \cap InFront(t)) + Room <=
                         removed + Cardinality(InFront(t))
                    /\ Cardinality(Showings)
                         + Cardinality((Seen \cap Where) \ InFront(t)) <=
                         Cardinality(Seen) + added
  <2>1. Cardinality(Showings) <= Cardinality(Seen) + added
    BY <1>2, FS_EmptySet DEF TableOK, TypeOK
  <2> QED
    BY <2>1 DEF MissesOK, RepeatsOK
<1>3. Cardinality(Missed \cap InFront(t)) <= Cardinality(InFront(t))
  BY SetCounts, SubsetCounts
<1>4. (Seen \cap Where) \ InFront(t) = {}
  BY <1>2
<1>5. Cardinality({}) = 0
  BY FS_EmptySet
<1>6. /\ Cardinality(Missed \cap InFront(t)) \in Nat
      /\ Cardinality(InFront(t)) \in Nat /\ removed \in Nat /\ added \in Nat
  BY SetCounts
<1>7. Cardinality(Showings) = 0 /\ Cardinality(Seen) = 0
  BY <1>2, <1>5
<1>8. Cardinality((Seen \cap Where) \ InFront(t)) = 0
  BY <1>4, <1>5
<1>9. Cardinality(Missed \cap InFront(t)) + Room <=
        removed + Cardinality(InFront(t))
  BY <1>1, <1>3, <1>6
<1> QED
  BY <1>6, <1>7, <1>8, <1>9

\* How a front, what was missed of it, and what was shown behind it move.
LEMMA FrontsMove ==
  ASSUME TableOK, TableOK', Others, Remember, pc # "idle", NEW t \in Nat
  PROVE  /\ Cardinality(InFront(t)') \in Nat /\ Cardinality(Where') \in Nat
         /\ Cardinality(Missed' \cap InFront(t)') \in Nat
         /\ Cardinality((Seen \cap Where') \ InFront(t)') \in Nat
         /\ removed' \in Nat /\ added' \in Nat
         /\ Cardinality(Missed') <= Cardinality(Missed)
         /\ Cardinality(Missed') \in Nat
         /\ Cardinality(Missed' \cap InFront(t)') <=
              Cardinality(Missed \cap InFront(t))
         /\ Cardinality(InFront(t)) + removed <=
              Cardinality(InFront(t)') + removed'
         /\ Cardinality((Seen \cap Where') \ InFront(t)') + added <=
              Cardinality((Seen \cap Where) \ InFront(t)) + added'
         /\ Cardinality((Seen \cap Where') \ InFront(t)') + Cardinality(InFront(t)')
              + added <=
            Cardinality((Seen \cap Where) \ InFront(t)) + Cardinality(InFront(t))
              + added'
         /\ Cardinality(Where') + added <= Cardinality(Where) + added'
         /\ added <= added' /\ removed <= removed'
<1> DEFINE W == Where
           V == Where'
           F == InFront(t)
           G == InFront(t)'
           X == (Seen \cap W) \ F
           Y == (Seen \cap V) \ G
<1>1. /\ UNCHANGED <<question, walk>> /\ Seen' = Seen
      /\ \A x \in W \cap V : created'[x] = created[x]
      /\ Listing' = Listing
  BY OthersChange DEF walk, question, Seen, Listing
<1>2. F \subseteq W /\ G \subseteq V /\ \A x \in W \cap V : x \in F <=> x \in G
  <2>1. Where' = V
    OBVIOUS
  <2> QED
    BY <1>1 DEF InFront
<1>3. /\ added' = added + Cardinality(V \ W)
      /\ removed' = removed + Cardinality(W \ V)
      /\ stayed' = stayed \cap V
  BY DEF Remember
<1>4. /\ IsFiniteSet(V) /\ IsFiniteSet(W) /\ IsFiniteSet(Missed)
      /\ Missed \subseteq W /\ stayed \subseteq W
  <2>1. IsFiniteSet(Existing') /\ V \subseteq Existing'
    BY DEF TableOK, ShownOK, Where
  <2> QED
    BY <2>1, WhereRows, SubsetCounts DEF TableOK, ShownOK
<1>5. /\ IsFiniteSet(F) /\ IsFiniteSet(G) /\ IsFiniteSet(X)
      /\ IsFiniteSet(Missed \cap F)
      /\ Cardinality(F) \in Nat /\ Cardinality(G) \in Nat
      /\ Cardinality(X) \in Nat /\ removed \in Nat /\ added \in Nat
      /\ Cardinality(W) \in Nat
  BY <1>2, <1>4, SetCounts, SubsetCounts
<1>6. Missed' = (stayed \cap V) \ Seen
  BY <1>1, <1>3 DEF Missed
<1>7. Missed' \subseteq Missed /\ Missed' \cap G \subseteq Missed \cap F
  BY <1>2, <1>4, <1>6 DEF Missed
<1> HIDE DEF W, V, F, G, X
<1>8. /\ Cardinality(Missed') <= Cardinality(Missed)
      /\ Cardinality(Missed') \in Nat
  BY <1>4, <1>7, SubsetCounts
<1>9. /\ Cardinality(Missed' \cap G) <= Cardinality(Missed \cap F)
      /\ Cardinality(Missed' \cap G) \in Nat
  BY <1>5, <1>7, SubsetCounts
<1>10. /\ IsFiniteSet(V \ W) /\ IsFiniteSet(W \ V)
       /\ Cardinality(V \ W) \in Nat /\ Cardinality(W \ V) \in Nat
  BY <1>4, SplitCounts
<1>11. Cardinality(F) <= Cardinality(G) + Cardinality(W \ V)
  <2>1. F \subseteq G \cup (W \ V)
    BY <1>2
  <2> QED
    BY <1>5, <1>10, <2>1, CoverCounts
<1>12. /\ IsFiniteSet((V \ W) \cap G) /\ IsFiniteSet((V \ W) \ G)
       /\ Cardinality((V \ W) \cap G) \in Nat /\ Cardinality((V \ W) \ G) \in Nat
       /\ Cardinality(V \ W) =
            Cardinality((V \ W) \cap G) + Cardinality((V \ W) \ G)
  BY <1>10, SplitCounts
<1>13. Cardinality(Y) <= Cardinality(X) + Cardinality((V \ W) \ G)
       /\ Cardinality(Y) \in Nat
  <2>1. Y \subseteq X \cup ((V \ W) \ G)
    BY <1>2 DEF X
  <2> HIDE DEF Y
  <2> QED
    BY <1>5, <1>12, <2>1, CoverCounts
<1>14. Cardinality(G) <= Cardinality(F) + Cardinality((V \ W) \cap G)
  <2>1. G \subseteq F \cup ((V \ W) \cap G)
    BY <1>2
  <2> QED
    BY <1>5, <1>12, <2>1, CoverCounts
<1>15. /\ Cardinality(V) <= Cardinality(W) + Cardinality(V \ W)
       /\ Cardinality(V) \in Nat
  <2>1. V \subseteq W \cup (V \ W)
    OBVIOUS
  <2> QED
    BY <1>4, <1>10, <2>1, CoverCounts
<1> HIDE DEF Y
<1>16. /\ Cardinality(F) + removed <= Cardinality(G) + removed'
       /\ Cardinality(Y) + added <= Cardinality(X) + added'
       /\ Cardinality(Y) + Cardinality(G) + added <=
            Cardinality(X) + Cardinality(F) + added'
       /\ Cardinality(V) + added <= Cardinality(W) + added'
       /\ added <= added' /\ removed <= removed'
  BY <1>3, <1>5, <1>10, <1>11, <1>12, <1>13, <1>14, <1>15
<1>17. /\ Cardinality(G) \in Nat /\ Cardinality(V) \in Nat
       /\ Cardinality(Y) \in Nat /\ removed' \in Nat /\ added' \in Nat
  BY <1>5, <1>13, <1>15 DEF TableOK, TypeOK
<1> QED
  BY <1>8, <1>9, <1>16, <1>17 DEF W, V, F, G, X, Y

\* A change of the table keeps the bounds.
LEMMA OthersStep ==
  ASSUME TableOK, TableOK', Others, Remember, PromisesOK
  PROVE  PromisesOK'
<1>1. /\ UNCHANGED <<question, walk>> /\ Seen' = Seen /\ Showings' = Showings
      /\ Room' = Room /\ Listing' = Listing
  BY OthersChange DEF walk, question, Seen, Showings, Room, Listing
<1>2. CASE pc = "idle"
  <2>1. shown' = <<>> /\ pc' = "idle"
    BY <1>1, <1>2 DEF TableOK, WalkOK, walk
  <2>2. (TableOK /\ shown = <<>> => MissesOK /\ RepeatsOK)'
    BY NothingShown, PTL
  <2> QED
    BY <2>1, <2>2 DEF PromisesOK, CountOK
<1>3. CASE pc # "idle"
  <2>1. MissesOK'
    <3> SUFFICES ASSUME NEW t \in Nat
                 PROVE  \/ Cardinality(Missed' \cap InFront(t)') <= removed'
                        \/ Cardinality(Missed' \cap InFront(t)') + Room' <=
                             removed' + Cardinality(InFront(t)')
      BY DEF MissesOK
    <3>1. \/ Cardinality(Missed \cap InFront(t)) <= removed
          \/ Cardinality(Missed \cap InFront(t)) + Room <=
               removed + Cardinality(InFront(t))
      BY DEF PromisesOK, MissesOK
    <3>2. /\ Cardinality(InFront(t)') \in Nat
          /\ Cardinality(Missed' \cap InFront(t)') \in Nat
          /\ removed' \in Nat /\ removed <= removed'
          /\ Cardinality(Missed' \cap InFront(t)') <=
               Cardinality(Missed \cap InFront(t))
          /\ Cardinality(InFront(t)) + removed <=
               Cardinality(InFront(t)') + removed'
      BY <1>3, FrontsMove
    <3>3. /\ Cardinality(InFront(t)) \in Nat /\ Room \in Nat /\ removed \in Nat
          /\ Cardinality(Missed \cap InFront(t)) \in Nat
      BY SetCounts
    <3> QED
      BY <1>1, <3>1, <3>2, <3>3
  <2>2. RepeatsOK'
    <3> SUFFICES ASSUME NEW t \in Nat
                 PROVE  \/ Cardinality(Showings)
                             + Cardinality((Seen \cap Where') \ InFront(t)') <=
                             Cardinality(Seen) + added'
                        \/ Cardinality(Showings)
                             + Cardinality((Seen \cap Where') \ InFront(t)')
                             + Cardinality(InFront(t)') <=
                             Cardinality(Seen) + added' + Room
      <4>1. Cardinality(Showings) <= Cardinality(Seen) + added
        BY DEF PromisesOK, RepeatsOK
      <4>2. /\ added <= added' /\ added \in Nat /\ added' \in Nat
            /\ Cardinality(Showings) \in Nat /\ Cardinality(Seen) \in Nat
        <5>1. 0 \in Nat
          OBVIOUS
        <5> QED
          BY <1>3, <5>1, FrontsMove, SetCounts
      <4>3. Cardinality(Showings) <= Cardinality(Seen) + added'
        BY <4>1, <4>2
      <4> QED
        BY <1>1, <4>3 DEF RepeatsOK
    <3>1. \/ Cardinality(Showings)
               + Cardinality((Seen \cap Where) \ InFront(t)) <=
               Cardinality(Seen) + added
          \/ Cardinality(Showings)
               + Cardinality((Seen \cap Where) \ InFront(t))
               + Cardinality(InFront(t)) <= Cardinality(Seen) + added + Room
      BY DEF PromisesOK, RepeatsOK
    <3>2. /\ Cardinality(InFront(t)') \in Nat /\ added' \in Nat
          /\ Cardinality((Seen \cap Where') \ InFront(t)') \in Nat
          /\ Cardinality((Seen \cap Where') \ InFront(t)') + added <=
               Cardinality((Seen \cap Where) \ InFront(t)) + added'
          /\ Cardinality((Seen \cap Where') \ InFront(t)')
               + Cardinality(InFront(t)') + added <=
             Cardinality((Seen \cap Where) \ InFront(t))
               + Cardinality(InFront(t)) + added'
      BY <1>3, FrontsMove
    <3>3. /\ Cardinality(InFront(t)) \in Nat /\ Room \in Nat /\ added \in Nat
          /\ Cardinality((Seen \cap Where) \ InFront(t)) \in Nat
          /\ Cardinality(Seen) \in Nat /\ Cardinality(Showings) \in Nat
      BY SetCounts
    <3> QED
      BY <3>1, <3>2, <3>3
  <2>3. CountOK'
    <3>1. /\ Cardinality(Where') + added <= Cardinality(Where) + added'
          /\ Cardinality(Missed') <= Cardinality(Missed)
          /\ added <= added' /\ removed <= removed'
          /\ Cardinality(Where') \in Nat /\ Cardinality(Missed') \in Nat
          /\ added' \in Nat /\ removed' \in Nat
          /\ Cardinality(Where) \in Nat /\ Cardinality(Missed) \in Nat
          /\ added \in Nat /\ removed \in Nat /\ total \in Nat
      <4>1. 0 \in Nat
        OBVIOUS
      <4> QED
        BY <1>3, <4>1, FrontsMove, SetCounts DEF TableOK, TypeOK
    <3>2. /\ page' = page /\ limit' = limit /\ total' = total /\ todo' = todo
          /\ pc' = pc /\ Listing' = Listing
      BY <1>1 DEF walk, question
    <3> QED
      BY <3>1, <3>2 DEF PromisesOK, CountOK
  <2> QED
    BY <2>1, <2>2, <2>3 DEF PromisesOK
<1> QED
  BY <1>2, <1>3

-----------------------------------------------------------------------------
(* What was missed and repeated, when the client takes a step.             *)

\* While the client takes a step, no row comes or goes.
LEMMA ClientRemembers ==
  ASSUME TableOK, Client, Remember
  PROVE  /\ Where' = Where /\ \A t : InFront(t)' = InFront(t)
         /\ limit' = limit /\ kind' = kind /\ Listing' = Listing
         /\ stayed' = stayed /\ added' = added /\ removed' = removed
<1>1. /\ UNCHANGED <<question, table>> /\ Where' = Where
      /\ \A t : InFront(t)' = InFront(t)
  BY ClientKeepsTable
<1>2. Where' \ Where = {} /\ Where \ Where' = {}
  BY <1>1
<1>3. Cardinality({}) = 0
  BY FS_EmptySet
<1>4. stayed' = stayed
  BY <1>1 DEF Remember, TableOK, ShownOK, WalkOK
<1>5. added' = added /\ removed' = removed
  <2>1. CASE pc = "idle"
    BY <2>1 DEF Remember
  <2>2. CASE pc # "idle"
    <3>1. /\ added' = added + Cardinality(Where' \ Where)
          /\ removed' = removed + Cardinality(Where \ Where')
      BY <2>2 DEF Remember
    <3>2. added \in Nat /\ removed \in Nat
      BY DEF TableOK, TypeOK
    <3> QED
      BY <1>2, <1>3, <3>1, <3>2
  <2> QED
    BY <2>1, <2>2
<1> QED
  BY <1>1, <1>4, <1>5 DEF question, Listing

\* A count, and a step to the next page or to the end, keep the bounds.
LEMMA WalkStep ==
  ASSUME TableOK, TableOK', Client, Remember, PromisesOK, ~Find
  PROVE  PromisesOK'
<1>1. /\ Where' = Where /\ \A t : InFront(t)' = InFront(t)
      /\ limit' = limit /\ kind' = kind /\ Listing' = Listing
      /\ stayed' = stayed /\ added' = added /\ removed' = removed
  BY ClientRemembers
<1>2. shown' = shown
  BY DEF Client, Start, Count, NextPage, LastPage
<1>3. /\ Seen' = Seen /\ Showings' = Showings /\ Room' = Room
      /\ Missed' = Missed
  BY <1>1, <1>2 DEF Seen, Showings, Room, Missed
<1>4. MissesOK' /\ RepeatsOK'
  BY <1>1, <1>3 DEF PromisesOK, MissesOK, RepeatsOK
<1>5. CountOK'
  <2>1. CASE Start \/ NextPage
    BY <2>1 DEF Start, NextPage, CountOK
  <2>2. CASE LastPage
    <3>1. /\ page' = page /\ total' = total /\ todo' = todo
          /\ pc # "idle" /\ "count" \notin todo
      BY <2>2 DEF LastPage
    <3> QED
      BY <1>1, <1>3, <3>1 DEF PromisesOK, CountOK
  <2>3. CASE Count
    <3>1. /\ page' = page /\ total' = Cardinality(Where) /\ pc # "idle"
          /\ todo' = todo \ {"count"}
      BY <2>3 DEF Count, TableOK, WalkOK
    <3>2. /\ Cardinality(Where) \in Nat /\ Cardinality(Missed) \in Nat
          /\ added \in Nat /\ removed \in Nat
      <4>1. 0 \in Nat
        OBVIOUS
      <4> QED
        BY <4>1, SetCounts
    <3>3. CASE "find" \in todo
      BY <1>1, <1>3, <3>1, <3>2, <3>3 DEF CountOK
    <3>4. CASE "find" \notin todo
      <4>1. Room = page * limit /\ Room \in Nat
        BY <3>1, <3>4, WhereRows, SetCounts DEF Room, TableOK, WalkOK, TypeOK
      <4>2. Missed \cap InFront(0) = Missed /\ InFront(0) = Where
        BY WhereRows
      <4>3. \/ Cardinality(Missed) <= removed
            \/ Cardinality(Missed) + Room <= removed + Cardinality(Where)
        BY <4>2 DEF PromisesOK, MissesOK
      <4>4. Cardinality(Where) <= page * limit => Cardinality(Missed) <= removed
        BY <3>2, <4>1, <4>3
      <4> QED
        BY <1>1, <1>3, <3>1, <3>2, <3>4, <4>4 DEF CountOK
    <3> QED
      BY <3>3, <3>4
  <2> QED
    BY <2>1, <2>2, <2>3 DEF Client
<1> QED
  BY <1>4, <1>5 DEF PromisesOK

\* A page that is read misses no row that was not missed before.
LEMMA PageMisses ==
  ASSUME TableOK, MissesOK,
         NEW P \in SUBSET Where, NEW T \in SUBSET Where, PageAfter(T, P),
         Skip = Room, \A t : InFront(t)' = InFront(t),
         stayed' = stayed, removed' = removed,
         Seen' = Seen \cup P, Room' = Room + limit
  PROVE  MissesOK'
<1>1. /\ IsFiniteSet(Missed) /\ IsFiniteSet(Where) /\ removed \in Nat
      /\ Room \in Nat /\ limit \in Nat
  <2>1. 0 \in Nat
    OBVIOUS
  <2> QED
    BY <2>1, SetCounts, WhereRows
<1>2. /\ IsFiniteSet(Missed \cap T) /\ Cardinality(Missed \cap T) \in Nat
      /\ IsFiniteSet(T) /\ Cardinality(T) \in Nat
  BY <1>1, SplitCounts, SubsetCounts
<1>3. Cardinality(Missed \cap T) <= removed
  <2>1. CASE T = {}
    <3>1. Missed \cap T = {}
      BY <2>1
    <3>2. Cardinality(Missed \cap T) = 0
      BY <3>1, FS_EmptySet
    <3> QED
      BY <1>1, <3>2
  <2>2. ASSUME NEW t \in Nat, T = InFront(t)
        PROVE  Cardinality(Missed \cap T) <= removed
    <3>1. \/ Cardinality(Missed \cap T) <= removed
          \/ Cardinality(Missed \cap T) + Room <= removed + Cardinality(T)
      BY <2>2 DEF MissesOK
    <3>2. Cardinality(T) <= Room
      BY DEF PageAfter
    <3> QED
      BY <1>1, <1>2, <3>1, <3>2
  <2> QED
    BY <2>1, <2>2 DEF PageAfter
<1> SUFFICES ASSUME NEW t \in Nat
             PROVE  \/ Cardinality(Missed' \cap InFront(t)) <= removed
                    \/ Cardinality(Missed' \cap InFront(t)) + (Room + limit) <=
                         removed + Cardinality(InFront(t))
  BY Zenon DEF MissesOK
<1>4. Missed' = Missed \ P
  BY DEF Missed
<1> DEFINE F == InFront(t)
           M == Missed' \cap F
<1>5. F \subseteq Where /\ IsFiniteSet(F) /\ Cardinality(F) \in Nat
  BY WhereRows, SubsetCounts
<1>6. CASE F \subseteq T \cup P
  <2>1. M \subseteq Missed \cap T
    BY <1>4, <1>6
  <2>2. Cardinality(M) <= Cardinality(Missed \cap T) /\ Cardinality(M) \in Nat
    BY <1>2, <2>1, SubsetCounts
  <2> QED
    BY <1>1, <1>2, <1>3, <2>2
<1>7. CASE T \cup P \subseteq F /\ Cardinality(T \cup P) = Room + limit
  <2>1. M \subseteq (Missed \cap T) \cup (F \ (T \cup P))
    BY <1>4
  <2>2. /\ IsFiniteSet(F \ (T \cup P))
        /\ Cardinality(F \ (T \cup P)) \in Nat
        /\ Cardinality(F) =
             Cardinality(F \cap (T \cup P)) + Cardinality(F \ (T \cup P))
    BY <1>5, SplitCounts
  <2>3. F \cap (T \cup P) = T \cup P
    BY <1>7
  <2> HIDE DEF M
  <2>4. /\ Cardinality(M) \in Nat
        /\ Cardinality(M) <=
             Cardinality(Missed \cap T) + Cardinality(F \ (T \cup P))
    BY <1>2, <2>1, <2>2, CoverCounts
  <2>5. Cardinality(F) = Room + limit + Cardinality(F \ (T \cup P))
    BY <1>7, <2>2, <2>3
  <2>6. Cardinality(M) + (Room + limit) <= removed + Cardinality(F)
    BY <1>1, <1>2, <1>3, <1>5, <2>2, <2>4, <2>5
  <2> QED
    BY <2>6 DEF M
<1> QED
  BY <1>6, <1>7 DEF PageAfter

\* A page that is read repeats no row that had not come back.
LEMMA PageRepeats ==
  ASSUME TableOK, RepeatsOK,
         NEW P \in SUBSET Where, NEW T \in SUBSET Where, PageAfter(T, P),
         Skip = Room, \A t : InFront(t)' = InFront(t), Where' = Where,
         added' = added, Seen' = Seen \cup P, Room' = Room + limit,
         NEW K, Showings' = Showings \cup K, IsFiniteSet(K),
         Cardinality(K) = Cardinality(P), IsFiniteSet(P)
  PROVE  RepeatsOK'
<1> DEFINE X(A) == (Seen \cap Where) \ A
           sh == Cardinality(Showings)
           sn == Cardinality(Seen)
           old == Cardinality(P \cap Seen)
           new == Cardinality(P \ Seen)
<1>1. /\ IsFiniteSet(Seen) /\ IsFiniteSet(Showings) /\ IsFiniteSet(Where)
      /\ sh \in Nat /\ sn \in Nat /\ added \in Nat /\ Room \in Nat
      /\ limit \in Nat /\ IsFiniteSet(Seen \cap Where)
  <2>1. 0 \in Nat
    OBVIOUS
  <2> QED
    BY <2>1, SetCounts, WhereRows DEF TableOK, ShownOK
<1>2. /\ old \in Nat /\ new \in Nat /\ Cardinality(P) = old + new
      /\ IsFiniteSet(P \cap Seen) /\ IsFiniteSet(P \ Seen)
  BY SplitCounts
<1>3. Cardinality(Seen') = sn + new
  <2>1. Cardinality(Seen \cup (P \ Seen)) =
          sn + new - Cardinality(Seen \cap (P \ Seen))
    BY <1>1, <1>2, FS_Union
  <2>2. Seen \cup (P \ Seen) = Seen' /\ Seen \cap (P \ Seen) = {}
    OBVIOUS
  <2>3. Cardinality(Seen \cap (P \ Seen)) = 0
    BY <2>2, FS_EmptySet
  <2>4. Cardinality(Seen') = sn + new - 0
    BY <2>1, <2>2, <2>3
  <2> QED
    BY <1>1, <1>2, <2>4
<1>4. Cardinality(Showings') \in Nat /\ Cardinality(Showings') <= sh + old + new
  <2>1. /\ Cardinality(Showings') <= sh + Cardinality(K)
        /\ Cardinality(Showings') \in Nat
    BY <1>1, CoverCounts
  <2> QED
    BY <1>1, <1>2, <2>1
<1> HIDE DEF sh, sn, old, new
<1>5. ASSUME NEW A
      PROVE  IsFiniteSet(X(A)) /\ Cardinality(X(A)) \in Nat
  BY <1>1, SplitCounts
<1>6. ASSUME NEW A, IsFiniteSet(A)
      PROVE  Cardinality(A) \in Nat
  BY <1>6, FS_CardinalityType
<1>7. IsFiniteSet(T) /\ Cardinality(T) \in Nat /\ Cardinality(P) \in Nat
  BY <1>1, SubsetCounts, FS_CardinalityType
<1>8. /\ T \cap P = {} /\ Cardinality(T) <= Room
      /\ Cardinality(T) + Cardinality(P) <= Room + limit
      /\ Cardinality(P) <= limit
      /\ (P # {} => Cardinality(T) = Room)
  BY DEF PageAfter
<1>9. P # {} => sh + Cardinality(X(T)) <= sn + added
  <2>1. CASE T = {} /\ Room = 0
    <3>1. Len(shown) = 0
      BY <2>1, WhereRows DEF Room, TableOK, ShownOK
    <3>2. shown = <<>>
      BY <3>1 DEF TableOK, ShownOK
    <3>3. Seen = {} /\ Showings = {}
      BY <3>2 DEF Seen, Showings, Range
    <3>4. X(T) = {}
      BY <3>3
    <3>5. sh = 0 /\ Cardinality(X(T)) = 0
      BY <3>3, <3>4, FS_EmptySet DEF sh
    <3> QED
      BY <1>1, <3>5
  <2>2. ASSUME NEW t \in Nat, T = InFront(t)
        PROVE  P # {} => sh + Cardinality(X(T)) <= sn + added
    <3>1. \/ sh + Cardinality(X(T)) <= sn + added
          \/ sh + Cardinality(X(T)) + Cardinality(T) <= sn + added + Room
      BY <2>2 DEF RepeatsOK, sh, sn
    <3> QED
      BY <1>1, <1>5, <1>7, <1>8, <3>1
  <2> QED
    BY <2>1, <2>2 DEF PageAfter
<1>10. Cardinality(Showings') <= Cardinality(Seen') + added
  <2>1. CASE P = {}
    <3>1. P \cap Seen = {} /\ P \ Seen = {}
      BY <2>1
    <3>2. old = 0 /\ new = 0
      BY <3>1, FS_EmptySet DEF old, new
    <3>3. sh <= sn + added
      BY DEF RepeatsOK, sh, sn
    <3> QED
      BY <1>1, <1>3, <1>4, <3>2, <3>3
  <2>2. CASE P # {}
    <3>1. P \cap Seen \subseteq X(T)
      BY <1>8
    <3>2. old <= Cardinality(X(T))
      BY <1>5, <3>1, SubsetCounts DEF old
    <3> QED
      BY <1>1, <1>2, <1>3, <1>4, <1>5, <1>9, <2>2, <3>2
  <2> QED
    BY <2>1, <2>2
<1> SUFFICES ASSUME NEW t \in Nat
             PROVE  \/ Cardinality(Showings')
                         + Cardinality((Seen' \cap Where) \ InFront(t)) <=
                         Cardinality(Seen') + added
                    \/ Cardinality(Showings')
                         + Cardinality((Seen' \cap Where) \ InFront(t))
                         + Cardinality(InFront(t)) <=
                         Cardinality(Seen') + added + (Room + limit)
  BY <1>10, Zenon DEF RepeatsOK
<1> DEFINE F == InFront(t)
           Y == (Seen' \cap Where) \ F
           f == Cardinality(F)
           x == Cardinality(X(F))
           y == Cardinality(Y)
<1>11. F \subseteq Where /\ IsFiniteSet(F) /\ f \in Nat
  BY <1>1, WhereRows, SubsetCounts
<1>12. x \in Nat /\ IsFiniteSet(X(F))
  BY <1>5
<1>13. \/ sh + x <= sn + added
       \/ sh + x + f <= sn + added + Room
  BY DEF RepeatsOK, sh, sn
<1>14. Y = X(F) \cup ((P \ Seen) \ F)
  OBVIOUS
<1>15. CASE P = {}
  <2>1. Y = X(F)
    BY <1>14, <1>15
  <2>2. y = x /\ old = 0 /\ new = 0
    <3>1. P \cap Seen = {} /\ P \ Seen = {}
      BY <1>15
    <3> QED
      BY <2>1, <3>1, FS_EmptySet DEF old, new
  <2> HIDE DEF x, y, f
  <2>3. \/ Cardinality(Showings') + y <= sn + new + added
        \/ Cardinality(Showings') + y + f <= sn + new + added + (Room + limit)
    BY <1>1, <1>4, <1>11, <1>12, <1>13, <2>2
  <2> QED
    BY <1>3, <2>3 DEF y, f
<1>16. CASE P # {}
  <2> DEFINE z == Cardinality(X(T))
  <2>1. sh + z <= sn + added /\ z \in Nat /\ IsFiniteSet(X(T))
    BY <1>5, <1>9, <1>16
  <2>2. IsFiniteSet(Y) /\ y \in Nat
    <3>1. IsFiniteSet((P \ Seen) \ F)
      BY <1>2, SplitCounts
    <3>2. IsFiniteSet(X(F) \cup ((P \ Seen) \ F))
      BY <1>12, <3>1, FS_Union
    <3>3. IsFiniteSet(Y)
      BY <1>14, <3>2
    <3> QED
      BY <3>3, <1>6
  <2> HIDE DEF x, y, f, z
  <2>3. CASE T \cup P \subseteq F
    <3>1. X(F) \cup (P \cap Seen) \subseteq X(T) /\ X(F) \cap (P \cap Seen) = {}
      BY <1>8, <2>3
    <3>2. x + old <= z
      BY <2>1, <3>1, DisjointCounts DEF x, old, z
    <3>3. y = x
      <4>1. Y = X(F)
        BY <1>14, <2>3
      <4> QED
        BY <4>1 DEF x, y
    <3>4. Cardinality(Showings') + y <= sn + new + added
      BY <1>1, <1>2, <1>4, <1>12, <2>1, <3>2, <3>3
    <3> QED
      BY <1>3, <3>4 DEF y
  <2>4. CASE T \subseteq F /\ F \subseteq T \cup P
    <3> DEFINE Q == X(T) \ P
               q == Cardinality(Q)
               p == Cardinality(P \ F)
    <3>1. IsFiniteSet(Q) /\ q \in Nat /\ IsFiniteSet(P \ F) /\ p \in Nat
      BY <2>1, SplitCounts
    <3>2. Y \subseteq Q \cup (P \ F)
      BY <2>4
    <3>3. Q \cup (P \cap Seen) \subseteq X(T) /\ Q \cap (P \cap Seen) = {}
      BY <1>8
    <3>4. (P \ F) \cup F \subseteq T \cup P /\ (P \ F) \cap F = {}
      BY <2>4
    <3>5. /\ IsFiniteSet(T \cup P) /\ Cardinality(T \cup P) \in Nat
          /\ Cardinality(T \cup P) <= Cardinality(T) + Cardinality(P)
      BY <1>7, CoverCounts
    <3> HIDE DEF Q
    <3>6. y <= q + p
      BY <3>1, <3>2, CoverCounts DEF y
    <3>7. q + old <= z
      BY <2>1, <3>3, DisjointCounts DEF old, z
    <3>8. p + f <= Cardinality(T \cup P)
      BY <3>4, <3>5, DisjointCounts DEF f
    <3> HIDE DEF q, p
    <3>9. p + f <= Room + limit
      BY <1>1, <1>7, <1>8, <1>11, <3>1, <3>5, <3>8 DEF f
    <3>10. f \in Nat
      BY <1>11 DEF f
    <3>11. Cardinality(Showings') + y + f <= sn + new + added + (Room + limit)
      BY <1>1, <1>2, <1>4, <2>1, <2>2, <3>1, <3>6, <3>7, <3>9, <3>10
    <3> QED
      BY <1>3, <3>11 DEF y, f
  <2>5. CASE F \subseteq T
    <3>1. Y \subseteq X(F) \cup (P \ Seen)
      BY <1>14
    <3>2. y <= x + new
      BY <1>2, <1>12, <3>1, CoverCounts DEF x, y, new
    <3>3. f <= Cardinality(T) /\ f \in Nat
      BY <1>7, <2>5, SubsetCounts DEF f
    <3>4. x \in Nat
      BY <1>12
    <3>5. \/ sh + x <= sn + added
          \/ sh + x + f <= sn + added + Room
      BY <1>13 DEF x, f
    <3>6. Cardinality(Showings') + y + f <= sn + new + added + (Room + limit)
      BY <1>1, <1>2, <1>4, <1>7, <1>8, <2>2, <3>2, <3>3, <3>4, <3>5
    <3> QED
      BY <1>3, <3>6 DEF y, f
  <2>6. T \subseteq F \/ F \subseteq T
    <3>1. CASE T = {}
      BY <3>1
    <3>2. ASSUME NEW u \in Nat, T = InFront(u)
          PROVE  T \subseteq F \/ F \subseteq T
      <4>1. \A r \in Where : created[r] \in Nat
        BY WhereRows
      <4> QED
        BY <3>2, <4>1 DEF InFront
    <3> QED
      BY <3>1, <3>2 DEF PageAfter
  <2>7. F \subseteq T \cup P \/ T \cup P \subseteq F
    BY DEF PageAfter
  <2> QED
    BY <2>3, <2>4, <2>5, <2>6, <2>7
<1> QED
  BY <1>15, <1>16

\* The client reads a page.
LEMMA FindStep ==
  ASSUME TableOK, TableOK', Find, Remember, decided', PromisesOK
  PROVE  PromisesOK'
<1>1. /\ Where' = Where /\ \A t : InFront(t)' = InFront(t)
      /\ limit' = limit /\ kind' = kind /\ Listing' = Listing
      /\ stayed' = stayed /\ added' = added /\ removed' = removed
  BY ClientRemembers DEF Client
<1>2. /\ RowsOK /\ Skip = Room /\ Room \in Nat /\ limit \in Nat \ {0}
      /\ pc # "idle" /\ page \in Nat /\ Len(shown) = page - 1 /\ page >= 1
  BY FindReady DEF Find
<1>3. PICK P \in Pages : shown' = Append(shown, P)
  BY DEF Find
<1>4. P \in SUBSET Where
  BY <1>2, PageIsRows
<1>5. /\ Len(shown') = Len(shown) + 1 /\ Seen' = Seen \cup P
      /\ Showings' = Showings \cup ({Len(shown) + 1} \X P)
      /\ IsFiniteSet(P) /\ IsFiniteSet({Len(shown) + 1} \X P)
      /\ Cardinality({Len(shown) + 1} \X P) = Cardinality(P)
  BY <1>3, <1>4, PageShown
<1>6. Cardinality(Pages) = 1
  <2>1. shown' # shown
    BY <1>5 DEF TableOK, ShownOK
  <2> QED
    BY <2>1 DEF Remember
<1>7. PICK T \in SUBSET Where : PageAfter(T, P)
  BY <1>2, <1>6, PageIsNext
<1>8. /\ Len(shown') = page /\ Room' = page * limit /\ Room' = Room + limit
      /\ Room' \in Nat
  <2>1. PICK n \in Nat : n = Len(shown)
    BY <1>2
  <2>2. page = n + 1 /\ Len(shown') = n + 1
    BY <1>2, <1>5, <2>1
  <2>3. (n + 1) * limit = n * limit + limit
    BY <1>2, RoomGrows
  <2> QED
    BY <1>1, <1>2, <2>1, <2>2, <2>3 DEF Room
<1>9. MissesOK'
  BY <1>1, <1>2, <1>4, <1>5, <1>7, <1>8, PageMisses DEF PromisesOK
<1>10. RepeatsOK'
  BY <1>1, <1>2, <1>4, <1>5, <1>7, <1>8, PageRepeats DEF PromisesOK
<1>11. CountOK'
  <2>1. todo' = todo \ {"find"} /\ page' = page /\ total' = total /\ pc' = pc
    BY DEF Find
  <2>2. CASE "count" \in todo
    BY <2>1, <2>2 DEF CountOK
  <2>3. CASE "count" \notin todo
    <3>1. ~Listing.awaited
      BY <2>3 DEF TableOK, WalkOK, Find
    <3>2. ASSUME total <= page * limit
          PROVE  Cardinality(Where) <= total + added
      BY <1>2, <2>3, <3>2 DEF PromisesOK, CountOK, Find
    <3>3. /\ Missed' \subseteq Where
          /\ Missed' \cap InFront(0)' = Missed' /\ InFront(0)' = Where
      <4>1. Missed' \subseteq stayed' /\ stayed \subseteq Where
        BY DEF Missed, TableOK, ShownOK
      <4>2. InFront(0)' = InFront(0) /\ InFront(0) = Where
        BY <1>1, WhereRows
      <4> QED
        BY <1>1, <4>1, <4>2
    <3>4. \/ Cardinality(Missed') <= removed
          \/ Cardinality(Missed') + Room' <= removed + Cardinality(Where)
      BY <1>1, <1>9, <3>3 DEF MissesOK
    <3>5. Cardinality(Missed') \in Nat /\ Cardinality(Where) \in Nat
      BY <3>3, WhereRows, SubsetCounts
    <3>6. /\ total \in Nat /\ added \in Nat /\ removed \in Nat
      BY DEF TableOK, TypeOK
    <3>7. total <= page * limit => Cardinality(Missed') <= removed + added
      BY <1>8, <3>2, <3>4, <3>5, <3>6
    <3> QED
      BY <1>1, <2>1, <3>1, <3>7 DEF CountOK
  <2> QED
    BY <2>2, <2>3
<1> QED
  BY <1>9, <1>10, <1>11 DEF PromisesOK

-----------------------------------------------------------------------------
(* The theorems.                                                           *)

\* A walk starts with the invariant,
LEMMA StartsOK == WalkInit => ListingInv
<1> SUFFICES ASSUME WalkInit
             PROVE  ListingInv
  OBVIOUS
<1> USE DEF WalkInit, Init
<1>1. kind \in Kinds /\ limit \in Limit /\ searching \in BOOLEAN
  <2>1. kind \in Kinds => Listing.searched \in {FALSE, TRUE}
    <3>1. CASE kind = "auditLogs"
      BY <3>1 DEF Listing, getCompanyAuditLogs
    <3>2. CASE kind \in Kinds \ {"auditLogs"}
      <4>1. Listing.searched = TRUE
        BY <3>2, ListingAssumption
           DEF Listing, getCompanies, getUsers, getCompanyUsers, getIncidents,
               getCompanyIncidents, getHandlerIncidents
      <4> QED
        BY <4>1
    <3> QED
      BY <3>1, <3>2
  <2> QED
    BY <2>1
<1>2. Existing = {} /\ Where = {}
  BY DEF Existing, Where
<1>3. Seen = {} /\ Showings = {}
  BY DEF Seen, Showings, Range
<1>4. IsFiniteSet({})
  BY FS_EmptySet
<1>5. TypeOK
  BY <1>1 DEF TypeOK
<1>6. ShownOK /\ WalkOK
  BY <1>2, <1>3, <1>4 DEF ShownOK, WalkOK
<1>7. MissesOK /\ RepeatsOK /\ CountOK
  BY <1>5, <1>6, NothingShown DEF TableOK, CountOK
<1> QED
  BY <1>5, <1>6, <1>7 DEF ListingInv

\* and every step keeps it.
LEMMA ListingStep == ListingInv /\ [Next]_<<vars, history>> => ListingInv'
<1> SUFFICES ASSUME ListingInv, [Next]_<<vars, history>>
             PROVE  ListingInv'
  OBVIOUS
<1>1. CASE UNCHANGED <<vars, history>>
  <2> USE <1>1 DEF vars, history, question, table, walk
  <2>1. /\ Listing' = Listing /\ Existing' = Existing /\ Where' = Where
        /\ Seen' = Seen /\ Showings' = Showings /\ Room' = Room
        /\ Missed' = Missed /\ \A t : InFront(t)' = InFront(t)
    BY DEF Listing, Existing, Where, Seen, Showings, Room, Missed, InFront
  <2>2. TypeOK' /\ ShownOK' /\ WalkOK'
    BY <2>1 DEF ListingInv, TypeOK, ShownOK, WalkOK
  <2>3. decided' => MissesOK' /\ RepeatsOK' /\ CountOK'
    BY <2>1 DEF ListingInv, MissesOK, RepeatsOK, CountOK
  <2> QED
    BY <2>2, <2>3 DEF ListingInv
<1>2. CASE Next
  <2>1. TableOK /\ TableOK'
    BY <1>2, TableStep DEF ListingInv, TableOK
  <2>2. decided /\ (Client \/ Others) /\ Remember
    BY <1>2 DEF Next
  <2>3. PromisesOK
    BY <2>2 DEF ListingInv, PromisesOK
  <2>4. decided' => PromisesOK'
    BY <2>1, <2>2, <2>3, OthersStep, WalkStep, FindStep
  <2> QED
    BY <2>1, <2>4 DEF ListingInv, TableOK, PromisesOK
<1> QED
  BY <1>1, <1>2

\* The inductive invariant of a walk.
THEOREM ListingInvariance == Spec => []ListingInv
BY StartsOK, ListingStep, PTL DEF Spec

\* Type correctness.
THEOREM ListingTyping == Spec => []TypeOK
<1>1. ListingInv => TypeOK
  BY DEF ListingInv
<1> QED
  BY <1>1, ListingInvariance, PTL

\* A walk that has reached the last page has missed no more of the rows that
\* were there all the time than rows have left the listing, or, where the count
\* may be answered first, have left it or come into it.
THEOREM WalksMissLittle == Spec => []MissesAtMostRemoved
<1>1. ListingInv => MissesAtMostRemoved
  <2> SUFFICES ASSUME ListingInv, pc = "done"
               PROVE  Cardinality(Missed) <=
                        removed + IF kind \in {"auditLogs", "handlerIncidents"}
                                  THEN added ELSE 0
    BY DEF MissesAtMostRemoved, Missed
  <2>1. decided /\ todo = {} /\ total <= page * limit
    BY DEF ListingInv, WalkOK
  <2>2. Cardinality(Missed) <= removed + IF Listing.awaited THEN 0 ELSE added
    BY <2>1 DEF ListingInv, CountOK
  <2>3. Listing.awaited <=> kind \notin {"auditLogs", "handlerIncidents"}
    BY ListingAssumption
       DEF ListingInv, TypeOK, Listing, getCompanies, getUsers,
           getCompanyUsers, getIncidents, getCompanyIncidents,
           getCompanyAuditLogs, getHandlerIncidents
  <2> QED
    BY <2>2, <2>3
<1> QED
  BY <1>1, ListingInvariance, PTL

\* A walk shows no row again, except one for every row that has come in.
THEOREM WalksRepeatLittle == Spec => []RepeatsAtMostAdded
<1>1. ListingInv => RepeatsAtMostAdded
  BY DEF ListingInv, RepeatsOK, RepeatsAtMostAdded
<1> QED
  BY <1>1, ListingInvariance, PTL
=============================================================================
