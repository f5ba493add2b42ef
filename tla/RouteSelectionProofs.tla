-------------------------- MODULE RouteSelectionProofs --------------------------
(***************************************************************************)
(* What TLAPS proves of RouteSelection and CudaSelection: for every table and  *)
(* every k, whatever the distances, the accumulators hold the best, and the    *)
(* answer is that of a full sort; and the parity check says of CPU and GPU      *)
(* what CudaAgreesWithCpu says.                                               *)
(*                                                                         *)
(* The invariant is about the CPU's scan.  The kernel's loop is a function from *)
(* turns to registers: what it holds after each turn is shown turn by turn.     *)
(***************************************************************************)
EXTENDS CudaSelection, FiniteSetTheorems, FunctionTheorems, WellFoundedInduction, TLAPS

-----------------------------------------------------------------------------
(* Order. *)

\* Candidates are ordered, but for those of equal distance and id.
LEMMA LessIsOrder ==
  ASSUME NEW sort, NEW a \in Candidate, NEW b \in Candidate, NEW c \in Candidate
  PROVE  /\ ~Less(a, a, sort)
         /\ Less(a, b, sort) => ~Less(b, a, sort)
         /\ Less(a, b, sort) /\ Less(b, c, sort) => Less(a, c, sort)
         /\ ~Less(a, b, sort) /\ ~Less(b, c, sort) => ~Less(a, c, sort)
         /\ ~Less(a, b, sort) /\ ~Less(b, a, sort) =>
              Key(a, sort) = Key(b, sort) /\ a.agent_id = b.agent_id
BY DEF Less, Key, Candidate

\* The same with places to tell equals apart: a stable order.
LEMMA StableIsOrder ==
  ASSUME NEW sort, NEW x \in Candidate, NEW y \in Candidate, NEW z \in Candidate,
         NEW h \in Nat, NEW i \in Nat, NEW j \in Nat,
         Less(x, y, sort) \/ (~Less(y, x, sort) /\ h < i),
         Less(y, z, sort) \/ (~Less(z, y, sort) /\ i < j)
  PROVE  Less(x, z, sort) \/ (~Less(z, x, sort) /\ h < j)
<1>1. /\ Key(x, sort) \in Int /\ Key(y, sort) \in Int /\ Key(z, sort) \in Int
      /\ x.agent_id \in Int /\ y.agent_id \in Int /\ z.agent_id \in Int
  BY DEF Key, Candidate
<1> QED
  BY <1>1 DEF Less

\* There are n numbers below n.
LEMMA NumbersBelow ==
  ASSUME NEW n \in Nat
  PROVE  IsFiniteSet(0..(n - 1)) /\ Cardinality(0..(n - 1)) = n
<1>1. n - 1 \in Int /\ 0 \in Int
  OBVIOUS
<1>2. \A b \in Int : IsFiniteSet(0..b) /\ Cardinality(0..b) = IF 0 > b THEN 0 ELSE b - 0 + 1
  BY FS_Interval
<1> QED
  BY <1>1, <1>2

\* And n from 1 to n.
LEMMA NumbersUpTo ==
  ASSUME NEW n \in Nat
  PROVE  IsFiniteSet(1..n) /\ Cardinality(1..n) = n
<1>1. n \in Int /\ 1 \in Int
  OBVIOUS
<1>2. \A b \in Int : IsFiniteSet(1..b) /\ Cardinality(1..b) = IF 1 > b THEN 0 ELSE b - 1 + 1
  BY FS_Interval
<1>3. IsFiniteSet(1..n) /\ Cardinality(1..n) = IF 1 > n THEN 0 ELSE n - 1 + 1
  BY <1>1, <1>2
<1> QED
  BY <1>3

\* Places of a sequence are finitely many.
LEMMA PlacesAreFinite ==
  ASSUME NEW n \in Nat, NEW places \in SUBSET (1..n)
  PROVE  IsFiniteSet(places) /\ Cardinality(places) \in Nat
<1>1. IsFiniteSet(1..n)
  BY FS_Interval
<1>2. IsFiniteSet(places)
  BY <1>1, FS_Subset
<1> QED
  BY <1>2, FS_CardinalityType

\* Each number of places comes before exactly one place.
LEMMA EachPlaceInTurn ==
  ASSUME NEW sort, NEW s \in Seq(Candidate), NEW places \in SUBSET (1..Len(s))
  PROVE  \A r \in 1..Cardinality(places) :
           \E i \in places : Cardinality(Before(s, i, places, sort)) = r - 1
<1> DEFINE B(i) == Before(s, i, places, sort)
           n == Cardinality(places)
           f == [i \in places |-> Cardinality(B(i))]
<1>1. IsFiniteSet(places) /\ n \in Nat
  <2>1. Len(s) \in Nat
    OBVIOUS
  <2> QED BY <2>1, PlacesAreFinite
<1>2. \A i \in places : s[i] \in Candidate /\ i \in Nat
  OBVIOUS
<1>3. ASSUME NEW i \in places
      PROVE  /\ B(i) \subseteq places /\ i \notin B(i)
             /\ IsFiniteSet(B(i)) /\ Cardinality(B(i)) \in 0..(n - 1)
  <2>1. B(i) \subseteq places
    BY DEF Before
  <2>2. i \notin B(i)
    BY <1>2, LessIsOrder DEF Before
  <2>3. IsFiniteSet(B(i)) /\ Cardinality(B(i)) \in Nat
    BY <1>1, <2>1, FS_Subset, FS_CardinalityType
  <2>4. IsFiniteSet(places \ {i}) /\ Cardinality(places \ {i}) = n - 1
    BY <1>1, FS_RemoveElement
  <2>5. Cardinality(B(i)) <= n - 1
    <3>1. B(i) \in SUBSET (places \ {i})
      BY <2>1, <2>2
    <3>2. Cardinality(B(i)) <= Cardinality(places \ {i})
      BY <2>4, <3>1, FS_Subset
    <3> QED BY <2>4, <3>2
  <2> QED BY <1>1, <2>1, <2>2, <2>3, <2>5
<1>4. ASSUME NEW i \in places, NEW j \in places, i \in B(j)
      PROVE  Cardinality(B(i)) < Cardinality(B(j))
  <2>1. B(i) \cup {i} \subseteq B(j)
    <3> SUFFICES ASSUME NEW h \in B(i) PROVE h \in B(j)
      BY <1>4
    <3>1. h \in places /\ h \in Nat /\ i \in Nat /\ j \in Nat
      BY <1>2 DEF Before
    <3>2. s[h] \in Candidate /\ s[i] \in Candidate /\ s[j] \in Candidate
      BY <1>2, <3>1
    <3>3. Less(s[h], s[i], sort) \/ (~Less(s[i], s[h], sort) /\ h < i)
      BY DEF Before
    <3>4. Less(s[i], s[j], sort) \/ (~Less(s[j], s[i], sort) /\ i < j)
      BY <1>4 DEF Before
    <3>5. Less(s[h], s[j], sort) \/ (~Less(s[j], s[h], sort) /\ h < j)
      BY <3>1, <3>2, <3>3, <3>4, StableIsOrder
    <3> QED BY <3>1, <3>5 DEF Before
  <2>2. Cardinality(B(i) \cup {i}) = Cardinality(B(i)) + 1
    BY <1>3, FS_AddElement
  <2>3. Cardinality(B(i) \cup {i}) <= Cardinality(B(j))
    BY <1>3, <2>1, FS_Subset
  <2> QED BY <1>3, <2>2, <2>3
<1>5. ASSUME NEW i \in places, NEW j \in places, i # j
      PROVE  i \in B(j) \/ j \in B(i)
  BY <1>2, <1>5, LessIsOrder DEF Before
<1>6. f \in Injection(places, 0..(n - 1))
  <2>1. f \in [places -> 0..(n - 1)]
    BY <1>3
  <2>2. \A i, j \in places : f[i] = f[j] => i = j
    BY <1>3, <1>4, <1>5
  <2> QED BY <2>1, <2>2, Fun_IsInj
<1>7. IsFiniteSet(0..(n - 1)) /\ Cardinality(0..(n - 1)) = n
  BY <1>1, NumbersBelow
<1>8. f \in Surjection(places, 0..(n - 1))
  BY <1>6, <1>7, FS_Injection
<1>9. \A m \in 0..(n - 1) : \E i \in places : f[i] = m
  BY <1>8 DEF Surjection
<1> QED
  <2> SUFFICES ASSUME NEW r \in 1..n PROVE \E i \in places : Cardinality(B(i)) = r - 1
    OBVIOUS
  <2>1. r - 1 \in 0..(n - 1)
    BY <1>1
  <2> QED BY <1>9, <2>1

\* What is put in order is a candidate of each place, in its turn.
LEMMA InOrderFacts ==
  ASSUME NEW sort, NEW s \in Seq(Candidate), NEW places \in SUBSET (1..Len(s))
  PROVE  /\ InOrder(s, places, sort) \in Seq(Candidate)
         /\ Len(InOrder(s, places, sort)) = Cardinality(places)
         /\ Cardinality(places) \in Nat
         /\ \A r \in 1..Cardinality(places) :
              \E i \in places : /\ InOrder(s, places, sort)[r] = s[i]
                                /\ Cardinality(Before(s, i, places, sort)) = r - 1
<1> DEFINE n == Cardinality(places)
           place == [r \in 1..n |->
                       CHOOSE i \in places : Cardinality(Before(s, i, places, sort)) = r - 1]
<1>1. n \in Nat
  <2>1. Len(s) \in Nat
    OBVIOUS
  <2> QED BY <2>1, PlacesAreFinite
<1>2. \A r \in 1..n :
        place[r] \in places /\ Cardinality(Before(s, place[r], places, sort)) = r - 1
  BY EachPlaceInTurn
<1>3. InOrder(s, places, sort) = [r \in 1..n |-> s[place[r]]]
  BY DEF InOrder
<1>4. \A i \in places : s[i] \in Candidate
  OBVIOUS
<1> HIDE DEF place, n
<1>5. \A r \in 1..n : place[r] \in places
  BY <1>2
<1>6. \A r \in 1..n : s[place[r]] \in Candidate
  BY <1>4, <1>5
<1>7. InOrder(s, places, sort) \in Seq(Candidate) /\ Len(InOrder(s, places, sort)) = n
  BY <1>1, <1>3, <1>6
<1>8. \A r \in 1..n : /\ InOrder(s, places, sort)[r] = s[place[r]]
                      /\ Cardinality(Before(s, place[r], places, sort)) = r - 1
  BY <1>2, <1>3
<1> QED
  BY <1>1, <1>5, <1>7, <1>8 DEF n

\* The places with less than c, and with no more than c.
Below(s, places, c, sort) == {j \in places : Less(s[j], c, sort)}
UpTo(s, places, c, sort) == {j \in places : ~Less(c, s[j], sort)}

\* c is a candidate of rank r.
HasRank(s, places, c, r, sort) ==
  /\ Cardinality(Below(s, places, c, sort)) < r
  /\ r <= Cardinality(UpTo(s, places, c, sort))

\* Both are finite.
LEMMA CountsAreNumbers ==
  ASSUME NEW sort, NEW s \in Seq(Candidate), NEW places \in SUBSET (1..Len(s)), NEW c
  PROVE  /\ IsFiniteSet(Below(s, places, c, sort)) /\ IsFiniteSet(UpTo(s, places, c, sort))
         /\ Cardinality(Below(s, places, c, sort)) \in Nat
         /\ Cardinality(UpTo(s, places, c, sort)) \in Nat
<1>1. Len(s) \in Nat
  OBVIOUS
<1>2. Below(s, places, c, sort) \in SUBSET (1..Len(s)) /\ UpTo(s, places, c, sort) \in SUBSET (1..Len(s))
  BY DEF Below, UpTo
<1> QED
  BY <1>1, <1>2, PlacesAreFinite

\* What is put in order has the rank of its turn.
LEMMA RanksInOrder ==
  ASSUME NEW sort, NEW s \in Seq(Candidate), NEW places \in SUBSET (1..Len(s)),
         NEW r \in 1..Cardinality(places)
  PROVE  HasRank(s, places, InOrder(s, places, sort)[r], r, sort)
<1>1. PICK i \in places : /\ InOrder(s, places, sort)[r] = s[i]
                          /\ Cardinality(Before(s, i, places, sort)) = r - 1
  BY InOrderFacts
<1>2. Cardinality(places) \in Nat
  BY InOrderFacts
<1>3. \A j \in places : s[j] \in Candidate
  OBVIOUS
<1> DEFINE before == Before(s, i, places, sort)
           below  == Below(s, places, s[i], sort)
           upto   == UpTo(s, places, s[i], sort)
<1>4. below \subseteq before
  BY DEF Below, Before
<1>5. before \cup {i} \subseteq upto /\ i \notin before
  <2>1. s[i] \in Candidate /\ ~Less(s[i], s[i], sort)
    BY <1>3, LessIsOrder
  <2>2. \A j \in places : Less(s[j], s[i], sort) => ~Less(s[i], s[j], sort)
    BY <1>3, <2>1, LessIsOrder
  <2>3. i \in upto
    BY <2>1 DEF UpTo
  <2>4. before \subseteq upto
    BY <2>2 DEF Before, UpTo
  <2>5. i \notin before
    BY <2>1 DEF Before
  <2> QED BY <2>3, <2>4, <2>5
<1>6. IsFiniteSet(upto)
  BY CountsAreNumbers
<1>7. IsFiniteSet(before)
  BY <1>5, <1>6, FS_Subset
<1>8. Cardinality(below) <= r - 1 /\ Cardinality(below) \in Nat
  BY <1>1, <1>4, <1>7, FS_Subset, CountsAreNumbers
<1>9. Cardinality(before \cup {i}) = r
  <2>1. Cardinality(before \cup {i}) = Cardinality(before) + 1
    BY <1>5, <1>7, FS_AddElement
  <2>2. Cardinality(before) = r - 1 /\ r \in Int
    BY <1>1, <1>2
  <2> QED BY <2>1, <2>2
<1>10. r <= Cardinality(upto)
  BY <1>5, <1>6, <1>9, FS_Subset
<1> QED
  BY <1>1, <1>2, <1>8, <1>10 DEF HasRank

\* Candidates of one rank are of one distance and one id.
LEMMA RankIsOne ==
  ASSUME NEW sort, NEW s \in Seq(Candidate), NEW places \in SUBSET (1..Len(s)), NEW r \in Nat,
         NEW c \in Candidate, NEW d \in Candidate,
         HasRank(s, places, c, r, sort), HasRank(s, places, d, r, sort)
  PROVE  Key(c, sort) = Key(d, sort) /\ c.agent_id = d.agent_id
<1>1. \A j \in places : s[j] \in Candidate
  OBVIOUS
<1>2. ASSUME NEW x \in Candidate, NEW y \in Candidate,
             HasRank(s, places, x, r, sort), HasRank(s, places, y, r, sort), Less(x, y, sort)
      PROVE  FALSE
  <2>1. UpTo(s, places, x, sort) \subseteq Below(s, places, y, sort)
    BY <1>1, <1>2, LessIsOrder DEF UpTo, Below
  <2>2. Cardinality(UpTo(s, places, x, sort)) <= Cardinality(Below(s, places, y, sort))
    BY <2>1, CountsAreNumbers, FS_Subset
  <2> QED BY <1>2, <2>2, CountsAreNumbers DEF HasRank
<1>3. ~Less(c, d, sort) /\ ~Less(d, c, sort)
  BY <1>2
<1> QED
  BY <1>3, LessIsOrder

-----------------------------------------------------------------------------
(* Accumulators. *)

\* held is the best of some places, at most most of them: each held candidate is
\* from a place of its own, and no place left out is less than one held.
BestAt(f, held, s, places, most, sort) ==
  /\ held \in Seq(Candidate) /\ Len(held) <= most
  /\ f \in [1..Len(held) -> places]
  /\ \A i, j \in 1..Len(held) : f[i] = f[j] => i = j
  /\ \A j \in 1..Len(held) : held[j] = s[f[j]]
  /\ \A i \in places : \/ \E j \in 1..Len(held) : f[j] = i
                       \/ /\ Len(held) = most
                          /\ \A j \in 1..Len(held) : ~Less(s[i], held[j], sort)

Best(held, s, places, most, sort) ==
  \E f \in [1..Len(held) -> places] : BestAt(f, held, s, places, most, sort)

\* The worst candidate held, and where it is.
WorstHeld(top, sort) ==
  IF top.held = <<>> THEN top.worst = 0
  ELSE /\ top.worst \in 1..Len(top.held)
       /\ \A j \in 1..Len(top.held) : ~Less(top.held[top.worst], top.held[j], sort)

\* A candidate more, while there is room.
LEMMA TakeFree ==
  ASSUME NEW sort, NEW s \in Seq(Candidate), NEW places \in SUBSET (1..Len(s)), NEW most \in Nat,
         NEW held, Best(held, s, places, most, sort), NEW c \in Candidate, Len(held) < most
  PROVE  Best(Append(held, c), Append(s, c), places \cup {Len(s) + 1}, most, sort)
<1> DEFINE n == Len(s)
           m == Len(held)
           t == Append(s, c)
           grown == Append(held, c)
           wider == places \cup {n + 1}
<1>1. PICK f : BestAt(f, held, s, places, most, sort)
  BY DEF Best
<1>2. n \in Nat /\ m \in Nat /\ held \in Seq(Candidate) /\ t[n + 1] = c /\ \A i \in places : t[i] = s[i] /\ i # n + 1
  <2>1. held \in Seq(Candidate)
    BY <1>1 DEF BestAt
  <2>2. n \in Nat /\ m \in Nat
    BY <2>1
  <2>3. t[n + 1] = c /\ \A i \in 1..n : t[i] = s[i]
    BY <2>2
  <2>4. \A i \in places : i \in 1..n /\ i # n + 1
    BY <2>2
  <2> QED BY <2>1, <2>2, <2>3, <2>4
<1>3. grown \in Seq(Candidate) /\ Len(grown) = m + 1 /\ grown[m + 1] = c /\ \A j \in 1..m : grown[j] = held[j]
  BY <1>2
<1> DEFINE g == [j \in 1..(m + 1) |-> IF j = m + 1 THEN n + 1 ELSE f[j]]
<1>4. f \in [1..m -> places]
  BY <1>1 DEF BestAt
<1>5. 1..(m + 1) = 1..m \cup {m + 1} /\ m + 1 \notin 1..m
  BY <1>2
<1>6. g[m + 1] = n + 1 /\ \A j \in 1..m : g[j] = f[j]
  BY <1>5
<1>7. g \in [1..(m + 1) -> wider]
  BY <1>4, <1>5
<1> HIDE DEF n, m, t, grown, g
<1>8. \A i, j \in 1..(m + 1) : g[i] = g[j] => i = j
  <2>1. \A i, j \in 1..m : f[i] = f[j] => i = j
    BY <1>1 DEF BestAt, m
  <2>2. \A j \in 1..m : f[j] # n + 1
    BY <1>2, <1>4
  <2> QED BY <1>5, <1>6, <2>1, <2>2
<1>9. \A j \in 1..(m + 1) : grown[j] = t[g[j]]
  <2>1. \A j \in 1..m : held[j] = s[f[j]] /\ f[j] \in places
    BY <1>1, <1>4 DEF BestAt, m
  <2>2. grown[m + 1] = t[g[m + 1]]
    BY <1>2, <1>3, <1>6
  <2>3. ASSUME NEW j \in 1..m PROVE grown[j] = t[g[j]]
    <3>1. f[j] \in places /\ held[j] = s[f[j]] /\ grown[j] = held[j] /\ g[j] = f[j]
      BY <1>3, <1>6, <2>1
    <3>2. t[f[j]] = s[f[j]]
      BY <1>2, <3>1
    <3> QED BY <3>1, <3>2
  <2> QED BY <1>5, <2>2, <2>3
<1>10. \A i \in wider : \E j \in 1..(m + 1) : g[j] = i
  <2>1. \A i \in places : \E j \in 1..m : f[j] = i
    BY <1>1, <1>2 DEF BestAt, m
  <2> QED BY <1>5, <1>6, <2>1
<1>11. Len(grown) <= most /\ 1..Len(grown) = 1..(m + 1)
  BY <1>2, <1>3 DEF m
<1>12. BestAt(g, grown, t, wider, most, sort)
  BY <1>3, <1>7, <1>8, <1>9, <1>10, <1>11 DEF BestAt
<1>13. Best(grown, t, wider, most, sort)
  BY <1>7, <1>11, <1>12 DEF Best
<1> QED
  BY <1>13 DEF t, n, grown

\* A candidate instead of the worst.
LEMMA TakeOver ==
  ASSUME NEW sort, NEW s \in Seq(Candidate), NEW places \in SUBSET (1..Len(s)), NEW most \in Nat,
         NEW held, Best(held, s, places, most, sort), NEW c \in Candidate, Len(held) = most,
         NEW w \in 1..Len(held), \A j \in 1..Len(held) : ~Less(held[w], held[j], sort),
         Less(c, held[w], sort)
  PROVE  Best([held EXCEPT ![w] = c], Append(s, c), places \cup {Len(s) + 1}, most, sort)
<1> DEFINE n == Len(s)
           m == Len(held)
           t == Append(s, c)
           changed == [held EXCEPT ![w] = c]
           wider == places \cup {n + 1}
<1>1. PICK f : BestAt(f, held, s, places, most, sort)
  BY DEF Best
<1> DEFINE g == [f EXCEPT ![w] = n + 1]
<1>2. n \in Nat /\ m \in Nat /\ held \in Seq(Candidate) /\ t[n + 1] = c /\ \A i \in places : t[i] = s[i] /\ i # n + 1
  <2>1. held \in Seq(Candidate)
    BY <1>1 DEF BestAt
  <2>2. n \in Nat /\ m \in Nat
    BY <2>1
  <2>3. t[n + 1] = c /\ \A i \in 1..n : t[i] = s[i]
    BY <2>2
  <2>4. \A i \in places : i \in 1..n /\ i # n + 1
    BY <2>2
  <2> QED BY <2>1, <2>2, <2>3, <2>4
<1>3. /\ changed \in Seq(Candidate) /\ Len(changed) = m /\ changed[w] = c
      /\ \A j \in 1..m : j # w => changed[j] = held[j]
  BY <1>2
<1>4. f \in [1..m -> places]
  BY <1>1 DEF BestAt
<1>5. g \in [1..m -> wider] /\ g[w] = n + 1 /\ \A j \in 1..m : j # w => g[j] = f[j]
  BY <1>4
<1>6. /\ \A j \in 1..m : held[j] \in Candidate
      /\ \A i \in places : s[i] \in Candidate
  BY <1>2
<1> HIDE DEF n, m, t, changed, g
<1>7. \A i, j \in 1..m : g[i] = g[j] => i = j
  <2>1. \A i, j \in 1..m : f[i] = f[j] => i = j
    BY <1>1 DEF BestAt, m
  <2>2. \A j \in 1..m : f[j] # n + 1
    BY <1>2, <1>4
  <2> QED BY <1>5, <2>1, <2>2
<1>8. \A j \in 1..m : changed[j] = t[g[j]]
  <2>1. \A j \in 1..m : held[j] = s[f[j]] /\ f[j] \in places
    BY <1>1, <1>4 DEF BestAt, m
  <2>2. CASE w \in 1..m
    <3>1. changed[w] = t[g[w]]
      BY <1>2, <1>3, <1>5
    <3>2. ASSUME NEW j \in 1..m, j # w PROVE changed[j] = t[g[j]]
      <4>1. f[j] \in places /\ held[j] = s[f[j]] /\ changed[j] = held[j] /\ g[j] = f[j]
        BY <1>3, <1>5, <2>1, <3>2
      <4>2. t[f[j]] = s[f[j]]
        BY <1>2, <4>1
      <4> QED BY <4>1, <4>2
    <3> QED BY <3>1, <3>2
  <2> QED BY <2>2 DEF m
<1>9. ASSUME NEW x \in Candidate, ~Less(x, held[w], sort)
      PROVE  ~Less(x, c, sort)
  BY <1>6, <1>9, LessIsOrder DEF m
<1>10. ASSUME NEW i \in wider
       PROVE  \/ \E j \in 1..m : g[j] = i
              \/ \A j \in 1..m : ~Less(t[i], changed[j], sort)
  <2>1. CASE i = n + 1
    BY <1>5, <2>1 DEF m
  <2>2. CASE i \in places /\ \E j \in 1..m : f[j] = i
    <3>1. PICK j \in 1..m : f[j] = i
      BY <2>2
    <3>2. CASE j = w
      <4>1. t[i] = held[w] /\ held[w] \in Candidate
        BY <1>1, <1>2, <1>6, <2>2, <3>1, <3>2 DEF BestAt, m
      <4>2. ~Less(held[w], c, sort)
        BY <4>1, LessIsOrder
      <4> QED BY <1>3, <4>1, <4>2 DEF m
    <3> QED BY <1>5, <3>1, <3>2
  <2>3. CASE i \in places /\ ~ \E j \in 1..m : f[j] = i
    <3>1. \A j \in 1..m : ~Less(s[i], held[j], sort)
      BY <1>1, <2>3 DEF BestAt, m
    <3>2. ~Less(s[i], c, sort)
      BY <1>6, <1>9, <2>3, <3>1 DEF m
    <3> QED BY <1>2, <1>3, <2>3, <3>1, <3>2
  <2> QED BY <2>1, <2>2, <2>3 DEF wider
<1>11. Len(changed) = most /\ 1..Len(changed) = 1..m
  BY <1>3 DEF m
<1>12. BestAt(g, changed, t, wider, most, sort)
  BY <1>3, <1>5, <1>7, <1>8, <1>10, <1>11 DEF BestAt
<1>13. Best(changed, t, wider, most, sort)
  BY <1>5, <1>11, <1>12 DEF Best
<1> QED
  BY <1>13 DEF t, n, changed

\* A candidate not worth holding.
LEMMA LeaveOut ==
  ASSUME NEW sort, NEW s \in Seq(Candidate), NEW places \in SUBSET (1..Len(s)), NEW most \in Nat,
         NEW held, Best(held, s, places, most, sort), NEW c \in Candidate, Len(held) = most,
         \A j \in 1..Len(held) : ~Less(c, held[j], sort)
  PROVE  Best(held, Append(s, c), places \cup {Len(s) + 1}, most, sort)
<1>1. PICK f : BestAt(f, held, s, places, most, sort)
  BY DEF Best
<1>2. /\ Append(s, c)[Len(s) + 1] = c
      /\ \A i \in places : Append(s, c)[i] = s[i]
  OBVIOUS
<1> DEFINE t == Append(s, c)
           wider == places \cup {Len(s) + 1}
<1> HIDE DEF t
<1>3. f \in [1..Len(held) -> wider]
  BY <1>1 DEF BestAt
<1>4. \A j \in 1..Len(held) : held[j] = t[f[j]]
  BY <1>1, <1>2 DEF BestAt, t
<1>5. \A i \in wider : \/ \E j \in 1..Len(held) : f[j] = i
                       \/ \A j \in 1..Len(held) : ~Less(t[i], held[j], sort)
  <2>1. \A i \in places : \/ \E j \in 1..Len(held) : f[j] = i
                          \/ \A j \in 1..Len(held) : ~Less(t[i], held[j], sort)
    BY <1>1, <1>2 DEF BestAt, t
  <2>2. \A j \in 1..Len(held) : ~Less(t[Len(s) + 1], held[j], sort)
    BY <1>2 DEF t
  <2> QED BY <2>1, <2>2
<1>6. BestAt(f, held, t, wider, most, sort)
  BY <1>1, <1>3, <1>4, <1>5 DEF BestAt
<1> QED
  BY <1>3, <1>6 DEF Best, t

\* A place that does not count.
LEMMA PassOver ==
  ASSUME NEW sort, NEW s \in Seq(Candidate), NEW places \in SUBSET (1..Len(s)), NEW most \in Nat,
         NEW held, Best(held, s, places, most, sort), NEW c \in Candidate
  PROVE  Best(held, Append(s, c), places, most, sort)
<1>1. PICK f : BestAt(f, held, s, places, most, sort)
  BY DEF Best
<1>2. \A i \in places : Append(s, c)[i] = s[i]
  OBVIOUS
<1>3. BestAt(f, held, Append(s, c), places, most, sort)
  BY <1>1, <1>2 DEF BestAt
<1> QED
  BY <1>3 DEF Best, BestAt

\* The search for the next worst finds one: the candidate that a stable sort
\* puts last.
LEMMA NextWorst ==
  ASSUME NEW sort, NEW held \in Seq(Candidate), Len(held) > 0
  PROVE  /\ RecomputeWorst(held, sort) \in 1..Len(held)
         /\ IsWorst(held, RecomputeWorst(held, sort), sort)
<1> DEFINE m == Len(held)
           all == 1..m
<1>1. m \in Nat /\ \A j \in all : held[j] \in Candidate
  OBVIOUS
<1>2. IsFiniteSet(all) /\ Cardinality(all) = m
  BY <1>1, NumbersUpTo
<1>3. PICK i \in all : Cardinality(Before(held, i, all, sort)) = m - 1
  <2>1. all \in SUBSET (1..Len(held)) /\ m \in 1..Cardinality(all)
    BY <1>1, <1>2
  <2> QED BY <2>1, EachPlaceInTurn
<1>4. Before(held, i, all, sort) \subseteq all \ {i}
  <2>1. ~Less(held[i], held[i], sort)
    BY <1>1, LessIsOrder
  <2> QED BY <2>1 DEF Before
<1>5. IsFiniteSet(all \ {i}) /\ Cardinality(all \ {i}) = m - 1
  BY <1>2, FS_RemoveElement
<1>6. Before(held, i, all, sort) = all \ {i}
  BY <1>3, <1>4, <1>5, FS_Subset
<1>7. ASSUME NEW j \in all
      PROVE  ~Less(held[i], held[j], sort) /\ (j > i => Less(held[j], held[i], sort))
  <2>1. held[i] \in Candidate /\ held[j] \in Candidate /\ i \in Nat /\ j \in Nat
    BY <1>1
  <2>2. CASE j = i
    BY <2>1, <2>2, LessIsOrder
  <2>3. CASE j # i
    <3>1. j \in Before(held, i, all, sort)
      BY <1>6, <2>3
    <3>2. Less(held[j], held[i], sort) \/ (~Less(held[i], held[j], sort) /\ j < i)
      BY <3>1 DEF Before
    <3>3. Less(held[j], held[i], sort) => ~Less(held[i], held[j], sort)
      BY <2>1, LessIsOrder
    <3>4. j < i => ~(j > i)
      BY <2>1
    <3> QED BY <3>2, <3>3, <3>4
  <2> QED BY <2>2, <2>3
<1>8. IsWorst(held, i, sort)
  BY <1>7 DEF IsWorst
<1> QED
  BY <1>8 DEF RecomputeWorst

\* A push to the top k of some places makes it the top k of one place more.
LEMMA PushTopKHoldsTheBest ==
  ASSUME NEW sort, NEW s \in Seq(Candidate), NEW places \in SUBSET (1..Len(s)), NEW most \in Nat,
         NEW top \in Accumulator, Best(top.held, s, places, most, sort), WorstHeld(top, sort),
         NEW c \in Candidate
  PROVE  /\ PushTopK(top, most, c, sort) \in Accumulator
         /\ Best(PushTopK(top, most, c, sort).held, Append(s, c), places \cup {Len(s) + 1}, most, sort)
         /\ WorstHeld(PushTopK(top, most, c, sort), sort)
<1> DEFINE held == top.held
           w    == top.worst
           m    == Len(held)
           new  == PushTopK(top, most, c, sort)
<1>1. held \in Seq(Candidate) /\ m \in Nat /\ w \in Nat /\ \A j \in 1..m : held[j] \in Candidate
  BY DEF Accumulator
<1>2. m <= most
  BY DEF Best, BestAt
<1>3. CASE most = 0
  <2>1. new = top
    BY <1>3 DEF PushTopK
  <2>2. m = most /\ \A j \in 1..m : ~Less(c, held[j], sort)
    BY <1>1, <1>2, <1>3
  <2> QED BY <2>1, <2>2, LeaveOut
<1>4. CASE most # 0 /\ m < most
  <2> DEFINE grown == Append(held, c)
             v     == IF w = 0 \/ Less(grown[w], c, sort) THEN Len(grown) ELSE w
  <2>1. new = [held |-> grown, worst |-> v]
    BY <1>4 DEF PushTopK
  <2>2. /\ grown \in Seq(Candidate) /\ Len(grown) = m + 1 /\ grown[m + 1] = c
        /\ grown # <<>> /\ \A j \in 1..m : grown[j] = held[j]
    BY <1>1
  <2>3. Best(grown, Append(s, c), places \cup {Len(s) + 1}, most, sort)
    BY <1>4, TakeFree
  <2>4. 1..(m + 1) = 1..m \cup {m + 1} /\ m + 1 \in 1..(m + 1)
    BY <1>1
  <2>5. ~Less(c, c, sort)
    BY LessIsOrder
  <2>6. v \in 1..(m + 1) /\ \A j \in 1..(m + 1) : ~Less(grown[v], grown[j], sort)
    <3>1. CASE held = <<>>
      <4>1. m = 0 /\ w = 0 /\ v = m + 1
        BY <2>2, <3>1 DEF WorstHeld
      <4> QED BY <2>2, <2>4, <2>5, <4>1
    <3>2. CASE held # <<>>
      <4>1. w \in 1..m /\ w # 0 /\ \A j \in 1..m : ~Less(held[w], held[j], sort)
        BY <1>1, <3>2 DEF WorstHeld
      <4>2. grown[w] = held[w] /\ held[w] \in Candidate
        BY <1>1, <2>2, <4>1
      <4>3. CASE Less(held[w], c, sort)
        <5>1. v = m + 1
          BY <2>2, <4>2, <4>3
        <5>2. \A j \in 1..m : ~Less(c, held[j], sort)
          BY <1>1, <4>1, <4>2, <4>3, LessIsOrder
        <5> QED BY <2>2, <2>4, <2>5, <5>1, <5>2
      <4>4. CASE ~Less(held[w], c, sort)
        <5>1. v = w
          BY <4>1, <4>2, <4>4
        <5> QED BY <2>2, <2>4, <4>1, <4>2, <4>4, <5>1
      <4> QED BY <4>3, <4>4
    <3> QED BY <3>1, <3>2
  <2>7. new.held = grown /\ new.worst = v /\ new \in Accumulator
    <3> HIDE DEF new, grown, v
    <3>1. new.held = grown /\ new.worst = v
      BY <2>1
    <3>2. v \in Nat
      BY <1>1, <2>6
    <3> QED BY <2>1, <2>2, <3>1, <3>2 DEF Accumulator
  <2>8. WorstHeld(new, sort)
    BY <2>2, <2>6, <2>7 DEF WorstHeld
  <2> QED BY <2>3, <2>7, <2>8
<1>5. CASE most # 0 /\ m = most
  <2>1. w \in 1..m /\ \A j \in 1..m : ~Less(held[w], held[j], sort)
    BY <1>1, <1>5 DEF WorstHeld
  <2>2. CASE Less(c, held[w], sort)
    <3> DEFINE changed == [held EXCEPT ![w] = c]
               v       == RecomputeWorst(changed, sort)
    <3>1. new = [held |-> changed, worst |-> v]
      BY <1>1, <1>5, <2>2 DEF PushTopK
    <3>2. changed \in Seq(Candidate) /\ Len(changed) = m /\ changed # <<>>
      BY <1>1, <2>1
    <3>3. Best(changed, Append(s, c), places \cup {Len(s) + 1}, most, sort)
      BY <1>5, <2>1, <2>2, TakeOver
    <3>4. v \in 1..m /\ IsWorst(changed, v, sort)
      <4>1. Len(changed) > 0
        BY <1>1, <1>5, <3>2
      <4> HIDE DEF changed, m
      <4>2. v \in 1..Len(changed) /\ IsWorst(changed, v, sort)
        BY <3>2, <4>1, NextWorst
      <4> QED BY <3>2, <4>2
    <3>5. new.held = changed /\ new.worst = v /\ new \in Accumulator
      BY <3>1, <3>2, <3>4 DEF Accumulator
    <3>6. WorstHeld(new, sort)
      BY <3>2, <3>4, <3>5 DEF WorstHeld, IsWorst
    <3> QED BY <3>3, <3>5, <3>6
  <2>3. CASE ~Less(c, held[w], sort)
    <3>1. new = top
      BY <1>1, <1>5, <2>3 DEF PushTopK
    <3>2. \A j \in 1..m : ~Less(c, held[j], sort)
      BY <1>1, <2>1, <2>3, LessIsOrder
    <3> QED BY <1>5, <3>1, <3>2, LeaveOut
  <2> QED BY <2>2, <2>3
<1> QED
  BY <1>1, <1>2, <1>3, <1>4, <1>5

\* So does a push to the best of them.
LEMMA PushBestHoldsTheBest ==
  ASSUME NEW sort, NEW s \in Seq(Candidate), NEW places \in SUBSET (1..Len(s)),
         NEW enabled \in BOOLEAN, NEW most \in Nat, most = IF enabled THEN 1 ELSE 0,
         NEW held, Best(held, s, places, most, sort), NEW c \in Candidate
  PROVE  Best(PushBest(held, enabled, c, sort), Append(s, c), places \cup {Len(s) + 1}, most, sort)
<1>1. held \in Seq(Candidate) /\ Len(held) \in Nat /\ Len(held) <= most
  BY DEF Best, BestAt
<1>2. CASE ~enabled
  <2>1. PushBest(held, enabled, c, sort) = held /\ Len(held) = most
    BY <1>1, <1>2 DEF PushBest
  <2>2. \A j \in 1..Len(held) : ~Less(c, held[j], sort)
    BY <1>1, <1>2
  <2> QED BY <2>1, <2>2, LeaveOut
<1>3. CASE enabled /\ held = <<>>
  <2>1. PushBest(held, enabled, c, sort) = Append(held, c) /\ Len(held) < most
    BY <1>3 DEF PushBest
  <2> QED BY <2>1, TakeFree
<1>4. CASE enabled /\ held # <<>>
  <2>1. Len(held) = 1 /\ most = 1 /\ held[1] \in Candidate /\ 1..Len(held) = {1}
    <3>1. Len(held) # 0 /\ most = 1
      BY <1>1, <1>4
    <3>2. \A a \in Nat : a <= 1 /\ a # 0 => a = 1
      OBVIOUS
    <3>3. Len(held) = 1
      BY <1>1, <3>1, <3>2
    <3>4. held[1] \in Candidate
      <4>1. 1 \in 1..Len(held)
        BY <3>3
      <4> QED BY <1>1, <4>1
    <3>5. 1..1 = {1}
      OBVIOUS
    <3> QED BY <3>1, <3>3, <3>4, <3>5
  <2>2. CASE Less(c, held[1], sort)
    <3>1. PushBest(held, enabled, c, sort) = <<c>>
      BY <1>4, <2>2 DEF PushBest
    <3>2. [held EXCEPT ![1] = c] = <<c>>
      BY <1>1, <2>1
    <3>3. \A j \in 1..Len(held) : ~Less(held[1], held[j], sort)
      BY <2>1, LessIsOrder
    <3>4. Best([held EXCEPT ![1] = c], Append(s, c), places \cup {Len(s) + 1}, most, sort)
      BY <2>1, <2>2, <3>3, TakeOver
    <3> QED BY <3>1, <3>2, <3>4
  <2>3. CASE ~Less(c, held[1], sort)
    <3>1. PushBest(held, enabled, c, sort) = held
      BY <1>4, <2>3 DEF PushBest
    <3> QED BY <2>1, <2>3, <3>1, LeaveOut
  <2> QED BY <2>2, <2>3
<1> QED
  BY <1>2, <1>3, <1>4

\* A function that tells the elements of X apart counts them.
LEMMA CountByImage ==
  ASSUME NEW X, NEW Y, IsFiniteSet(Y), NEW f,
         \A x, y \in X : f[x] = f[y] => x = y, \A x \in X : f[x] \in Y
  PROVE  Cardinality(X) <= Cardinality(Y)
<1> DEFINE g == [x \in X |-> f[x]]
<1>1. g \in [X -> Y]
  OBVIOUS
<1>2. \A x, y \in X : g[x] = g[y] => x = y
  OBVIOUS
<1>3. g \in Injection(X, Y)
  BY <1>1, <1>2, Fun_IsInj
<1> QED
  BY <1>3, FS_Injection

\* When it gets to every element of Y, it counts all of Y.
LEMMA CountByWholeImage ==
  ASSUME NEW X, NEW Y, IsFiniteSet(Y), NEW f,
         \A x, y \in X : f[x] = f[y] => x = y, \A x \in X : f[x] \in Y,
         \A y \in Y : \E x \in X : f[x] = y
  PROVE  Cardinality(X) = Cardinality(Y)
<1> DEFINE g == [x \in X |-> f[x]]
<1>1. g \in [X -> Y]
  OBVIOUS
<1>2. \A x, y \in X : g[x] = g[y] => x = y
  OBVIOUS
<1>3. g \in Injection(X, Y)
  BY <1>1, <1>2, Fun_IsInj
<1>4. g \in Surjection(X, Y)
  BY <1>1 DEF Surjection
<1> QED
  BY <1>3, <1>4, FS_Injection

\* In order, what is held has the ranks of its turns among all of the places, and
\* is as much as there may be.
HeldInOrder(held, s, places, most, sort) ==
  /\ held \in Seq(Candidate)
  /\ Len(held) = IF most < Cardinality(places) THEN most ELSE Cardinality(places)
  /\ Sorted(held, sort) \in Seq(Candidate) /\ Len(Sorted(held, sort)) = Len(held)
  /\ \A r \in 1..Len(held) : /\ HasRank(s, places, Sorted(held, sort)[r], r, sort)
                             /\ \E i \in places : Sorted(held, sort)[r] = s[i]

\* So it is with the best of some places.
LEMMA BestInOrder ==
  ASSUME NEW sort, NEW s \in Seq(Candidate), NEW places \in SUBSET (1..Len(s)), NEW most \in Nat,
         NEW held, Best(held, s, places, most, sort)
  PROVE  HeldInOrder(held, s, places, most, sort)
<1> DEFINE m == Len(held)
           all == 1..m
           o == Sorted(held, sort)
<1>1. PICK f : BestAt(f, held, s, places, most, sort)
  BY DEF Best
<1>2. held \in Seq(Candidate) /\ m \in Nat /\ m <= most
  BY <1>1 DEF BestAt
<1>3. f \in [all -> places] /\ \A i, j \in all : f[i] = f[j] => i = j
  BY <1>1 DEF BestAt
<1>4. \A j \in all : held[j] = s[f[j]] /\ held[j] \in Candidate
  BY <1>1, <1>2 DEF BestAt
<1>5. \A i \in places : \/ \E j \in all : f[j] = i
                        \/ m = most /\ \A j \in all : ~Less(s[i], held[j], sort)
  BY <1>1 DEF BestAt
<1>6. IsFiniteSet(places) /\ Cardinality(places) \in Nat
  <2>1. Len(s) \in Nat
    OBVIOUS
  <2> QED BY <2>1, PlacesAreFinite
<1>7. IsFiniteSet(all) /\ Cardinality(all) = m
  BY <1>2, NumbersUpTo
<1>8. m = IF most < Cardinality(places) THEN most ELSE Cardinality(places)
  <2>1. m <= Cardinality(places)
    <3>1. \A j \in all : f[j] \in places
      BY <1>3
    <3>2. Cardinality(all) <= Cardinality(places)
      BY <1>3, <1>6, <3>1, CountByImage
    <3> QED BY <1>7, <3>2
  <2>2. CASE m = most
    BY <1>6, <2>1, <2>2
  <2>3. CASE m # most
    <3>1. \A i \in places : \E j \in all : f[j] = i
      BY <1>5, <2>3
    <3>2. \A j \in all : f[j] \in places
      BY <1>3
    <3>3. Cardinality(all) = Cardinality(places)
      <4> HIDE DEF all
      <4> QED BY <1>3, <1>6, <3>1, <3>2, CountByWholeImage
    <3> QED BY <1>2, <1>6, <1>7, <2>3, <3>3
  <2> QED BY <2>2, <2>3
<1>9. o = InOrder(held, all, sort) /\ all \in SUBSET (1..Len(held))
  BY DEF Sorted
<1>10. o \in Seq(Candidate) /\ Len(o) = m
  BY <1>2, <1>7, <1>9, InOrderFacts
<1>11. ASSUME NEW r \in all
       PROVE  HasRank(s, places, o[r], r, sort) /\ \E i \in places : o[r] = s[i]
  <2> DEFINE c == o[r]
  <2>1. PICK j \in all : c = held[j]
    <3> HIDE DEF all, m, o
    <3>1. \A q \in 1..Cardinality(all) : \E j \in all : o[q] = held[j]
      BY <1>2, <1>9, InOrderFacts
    <3>2. r \in 1..Cardinality(all)
      BY <1>7 DEF all
    <3> QED BY <3>1, <3>2
  <2>2. c \in Candidate /\ f[j] \in places /\ c = s[f[j]]
    BY <1>3, <1>4, <2>1
  <2>3. HasRank(held, all, c, r, sort)
    BY <1>2, <1>7, <1>9, RanksInOrder
  <2> HIDE DEF c
  <2>4. Cardinality(Below(held, all, c, sort)) = Cardinality(Below(s, places, c, sort))
    <3> DEFINE X == Below(held, all, c, sort)
               Y == Below(s, places, c, sort)
    <3>1. X \in SUBSET all /\ IsFiniteSet(Y)
      BY CountsAreNumbers DEF Below
    <3>2. \A x \in X : f[x] \in Y
      BY <1>3, <1>4 DEF Below
    <3>3. \A y \in Y : \E x \in X : f[x] = y
      BY <1>4, <1>5, <2>1 DEF Below
    <3> HIDE DEF X, Y, all
    <3>4. Cardinality(X) = Cardinality(Y)
      BY <1>3, <3>1, <3>2, <3>3, CountByWholeImage
    <3> QED BY <3>4 DEF X, Y
  <2>5. Cardinality(UpTo(held, all, c, sort)) <= Cardinality(UpTo(s, places, c, sort))
    <3> DEFINE X == UpTo(held, all, c, sort)
               Y == UpTo(s, places, c, sort)
    <3>1. X \in SUBSET all /\ IsFiniteSet(Y)
      BY CountsAreNumbers DEF UpTo
    <3>2. \A x \in X : f[x] \in Y
      BY <1>3, <1>4 DEF UpTo
    <3> HIDE DEF X, Y
    <3>3. Cardinality(X) <= Cardinality(Y)
      BY <1>3, <3>1, <3>2, CountByImage
    <3> QED BY <3>3 DEF X, Y
  <2>6. Cardinality(UpTo(held, all, c, sort)) \in Nat /\ Cardinality(UpTo(s, places, c, sort)) \in Nat
    BY <1>2, CountsAreNumbers
  <2>7. HasRank(s, places, c, r, sort)
    BY <2>3, <2>4, <2>5, <2>6 DEF HasRank
  <2> QED BY <2>2, <2>7 DEF c
<1> QED
  BY <1>2, <1>8, <1>10, <1>11 DEF HeldInOrder

\* The head of a full sort.
FullSort(s, places, most, sort) ==
  LET n == Cardinality(places) IN SubSeq(InOrder(s, places, sort), 1, IF most < n THEN most ELSE n)

\* The best of some places rank like the head of a full sort of them, and are the
\* head when no two places have one id.
LEMMA BestIsHead ==
  ASSUME NEW sort, NEW s \in Seq(Candidate), NEW places \in SUBSET (1..Len(s)), NEW most \in Nat,
         NEW held, Best(held, s, places, most, sort)
  PROVE  /\ Rank(Sorted(held, sort), sort) = Rank(FullSort(s, places, most, sort), sort)
         /\ (\A i, j \in places : s[i].agent_id = s[j].agent_id => i = j) =>
              Sorted(held, sort) = FullSort(s, places, most, sort)
<1> DEFINE o    == Sorted(held, sort)
           full == InOrder(s, places, sort)
           head == FullSort(s, places, most, sort)
           m    == Len(held)
<1>1. /\ m \in Nat /\ o \in Seq(Candidate) /\ Len(o) = m
      /\ m = IF most < Cardinality(places) THEN most ELSE Cardinality(places)
      /\ \A r \in 1..m : HasRank(s, places, o[r], r, sort) /\ \E i \in places : o[r] = s[i]
  <2>1. HeldInOrder(held, s, places, most, sort)
    BY BestInOrder
  <2>2. m \in Nat
    BY <2>1 DEF HeldInOrder
  <2> HIDE DEF o, m
  <2> QED BY <2>1, <2>2 DEF HeldInOrder, o, m
<1>2. /\ full \in Seq(Candidate) /\ Len(full) = Cardinality(places) /\ Cardinality(places) \in Nat
      /\ \A r \in 1..Cardinality(places) : \E i \in places : full[r] = s[i]
  BY InOrderFacts
<1>3. m <= Len(full) /\ \A r \in 1..m : r \in 1..Len(full) /\ r \in Nat
  BY <1>1, <1>2
<1>4. head = SubSeq(full, 1, m)
  BY <1>1 DEF FullSort
<1> HIDE DEF o, full, head, m
<1>5. head \in Seq(Candidate) /\ Len(head) = m /\ \A r \in 1..m : head[r] = full[r]
  BY <1>1, <1>2, <1>3, <1>4
<1>6. ASSUME NEW r \in 1..m
      PROVE  Key(o[r], sort) = Key(head[r], sort) /\ o[r].agent_id = head[r].agent_id
  <2>1. HasRank(s, places, full[r], r, sort)
    BY <1>2, <1>3, RanksInOrder DEF full
  <2>2. o[r] \in Candidate /\ full[r] \in Candidate /\ r \in Nat
    BY <1>1, <1>2, <1>3
  <2>3. Key(o[r], sort) = Key(full[r], sort) /\ o[r].agent_id = full[r].agent_id
    BY <1>1, <2>1, <2>2, RankIsOne
  <2> QED BY <1>5, <2>3
<1>7. Rank(o, sort) = Rank(head, sort)
  BY <1>1, <1>5, <1>6 DEF Rank
<1>8. ASSUME \A i, j \in places : s[i].agent_id = s[j].agent_id => i = j
      PROVE  o = head
  <2>1. ASSUME NEW r \in 1..m PROVE o[r] = head[r]
    <3>1. PICK i \in places : o[r] = s[i]
      BY <1>1
    <3>2. PICK j \in places : head[r] = s[j]
      BY <1>2, <1>3, <1>5
    <3>3. s[i].agent_id = s[j].agent_id
      BY <1>6, <3>1, <3>2
    <3> QED BY <1>8, <3>1, <3>2, <3>3
  <2> QED BY <1>1, <1>5, <2>1
<1> QED
  BY <1>7, <1>8 DEF o, head

-----------------------------------------------------------------------------
(* The scan. *)

\* Of all candidates, the observed accumulator holds k with debug information,
\* and one otherwise: only its best is asked for.
ObservedMost == IF ObservesTopK THEN k ELSE IF k > 0 THEN 1 ELSE 0

Places == 1..Len(scanned)

\* What the scan keeps.
ScanInv ==
  /\ TypeOK
  /\ Best(available.held, scanned, Usable, k, "Available")
  /\ Best(observed.held, scanned, Places, ObservedMost, "Observed")
  /\ k # 1 => WorstHeld(available, "Available")
  /\ ObservesTopK => WorstHeld(observed, "Observed")
  /\ result # None => scanned # <<>> /\ result = Select

\* Candidates are of the type, the fallback too.
LEMMA Typing ==
  ASSUME TypeOK
  PROVE  /\ k \in Nat /\ debug \in BOOLEAN
         /\ scanned \in Seq(Candidate) /\ Len(scanned) \in Nat
         /\ observed \in Accumulator /\ available \in Accumulator
         /\ Usable \in SUBSET Places /\ ObservedMost \in Nat /\ ObservedMost <= k
         /\ FallbackCandidate \in Candidate
<1>1. scanned \in Seq(Candidate)
  BY ScannableAssumption DEF TypeOK
<1>2. k \in Nat /\ debug \in BOOLEAN
  BY BoundsAssumption DEF TypeOK
<1>3. ObservedMost \in Nat /\ ObservedMost <= k
  BY <1>2 DEF ObservedMost
<1>4. FallbackCandidate \in Candidate
  BY FallbackAssumption, DistanceAssumption DEF FallbackCandidate, Candidate
<1> QED
  BY <1>1, <1>2, <1>3, <1>4 DEF TypeOK, Usable, Places

\* The answer is of its type.
LEMMA SelectIsResult ==
  ASSUME TypeOK
  PROVE  Select \in Result
<1>1. \A sort : \A held \in Seq(Candidate) : Sorted(held, sort) \in Seq(Candidate)
  <2> SUFFICES ASSUME NEW sort, NEW held \in Seq(Candidate) PROVE Sorted(held, sort) \in Seq(Candidate)
    OBVIOUS
  <2>1. 1..Len(held) \in SUBSET (1..Len(held))
    OBVIOUS
  <2> QED BY <2>1, InOrderFacts DEF Sorted
<1> DEFINE best == Sorted(available.held, "Available")
           all  == Sorted(observed.held, "Observed")
           far  == best = <<>> \/ TooFar(best[1])
<1>2. best \in Seq(Candidate) /\ all \in Seq(Candidate)
  BY <1>1, Typing DEF Accumulator
<1>3. (all # <<>> /\ ~all[1].available) \in BOOLEAN
  OBVIOUS
<1>4. Append(best, FallbackCandidate) \in Seq(Candidate)
  BY <1>2, Typing
<1> HIDE DEF best, all
<1>5. far \in BOOLEAN
  BY DEF TooFar
<1>6. Select = [ candidates        |-> IF far THEN Append(best, FallbackCandidate) ELSE best,
                 used_fallback     |-> far,
                 ideal_unavailable |-> all # <<>> /\ ~all[1].available,
                 debug             |-> IF debug THEN all ELSE None ]
  BY DEF Select, best, all
<1> HIDE DEF far
<1> QED
  BY <1>2, <1>3, <1>4, <1>5, <1>6 DEF Result

\* Before the scan nothing is held.
LEMMA InitHolds ==
  Init => ScanInv
<1> SUFFICES ASSUME Init PROVE ScanInv
  OBVIOUS
<1>1. TypeOK
  <2>1. <<>> \in Seq(Scannable) /\ Len(<<>>) = 0 /\ <<>> \in Seq(Candidate)
    OBVIOUS
  <2>2. k \in Nat
    BY BoundsAssumption DEF Init
  <2> QED BY <2>1, <2>2, BoundsAssumption DEF Init, TypeOK, Accumulator, EmptyTopK
<1>2. Usable = {} /\ Places = {}
  BY DEF Init, Usable, Places
<1>3. ASSUME NEW sort, NEW most \in Nat PROVE Best(<<>>, scanned, {}, most, sort)
  <2>1. <<>> \in Seq(Candidate) /\ Len(<<>>) = 0 /\ 1..Len(<<>>) = {}
    OBVIOUS
  <2> DEFINE f == [j \in 1..Len(<<>>) |-> 1]
  <2>2. f \in [1..Len(<<>>) -> {}]
    BY <2>1
  <2>3. BestAt(f, <<>>, scanned, {}, most, sort)
    BY <2>1, <2>2 DEF BestAt
  <2> QED BY <2>2, <2>3 DEF Best
<1>4. ObservedMost \in Nat /\ k \in Nat
  BY <1>1, Typing
<1>5. available.held = <<>> /\ available.worst = 0 /\ observed.held = <<>> /\ observed.worst = 0
  BY DEF Init, EmptyTopK
<1>6. WorstHeld(available, "Available") /\ WorstHeld(observed, "Observed")
  BY <1>5 DEF WorstHeld
<1> QED
  BY <1>1, <1>2, <1>3, <1>4, <1>5, <1>6 DEF ScanInv, Init

\* The observed accumulator takes each candidate.
LEMMA ScanObserves ==
  ASSUME ScanInv, NEW c \in Candidate
  PROVE  /\ PushObserved(c) \in Accumulator
         /\ Best(PushObserved(c).held, Append(scanned, c), Places \cup {Len(scanned) + 1},
                 ObservedMost, "Observed")
         /\ ObservesTopK => WorstHeld(PushObserved(c), "Observed")
<1>1. /\ scanned \in Seq(Candidate) /\ Places \in SUBSET (1..Len(scanned))
      /\ ObservedMost \in Nat /\ observed \in Accumulator /\ k \in Nat
  BY Typing DEF ScanInv, Places
<1>2. Best(observed.held, scanned, Places, ObservedMost, "Observed")
  BY DEF ScanInv
<1>3. CASE ObservesTopK
  <2>1. PushObserved(c) = PushTopK(observed, ObservedMost, c, "Observed")
    BY <1>3 DEF PushObserved, ObservedMost
  <2>2. WorstHeld(observed, "Observed")
    BY <1>3 DEF ScanInv
  <2> QED BY <1>1, <1>2, <2>1, <2>2, PushTopKHoldsTheBest
<1>4. CASE ~ObservesTopK
  <2> DEFINE new == PushBest(observed.held, k > 0, c, "Observed")
  <2>1. (k > 0) \in BOOLEAN /\ ObservedMost = IF k > 0 THEN 1 ELSE 0
    BY <1>4 DEF ObservedMost
  <2>2. Best(new, Append(scanned, c), Places \cup {Len(scanned) + 1}, ObservedMost, "Observed")
    BY <1>1, <1>2, <2>1, PushBestHoldsTheBest
  <2>3. new \in Seq(Candidate)
    BY <2>2 DEF Best, BestAt
  <2>4. PushObserved(c) = [observed EXCEPT !.held = new]
    BY <1>4 DEF PushObserved
  <2> HIDE DEF new
  <2>5. PushObserved(c) \in Accumulator /\ PushObserved(c).held = new
    BY <1>1, <2>3, <2>4 DEF Accumulator
  <2> QED BY <1>4, <2>2, <2>5
<1> QED
  BY <1>3, <1>4

\* The available one each candidate that is.
LEMMA ScanTakesAvailable ==
  ASSUME ScanInv, NEW c \in Candidate
  PROVE  /\ PushAvailable(c) \in Accumulator
         /\ Best(PushAvailable(c).held, Append(scanned, c),
                 IF c.available THEN Usable \cup {Len(scanned) + 1} ELSE Usable, k, "Available")
         /\ k # 1 => WorstHeld(PushAvailable(c), "Available")
<1>1. /\ scanned \in Seq(Candidate) /\ Usable \in SUBSET (1..Len(scanned))
      /\ available \in Accumulator /\ k \in Nat
  BY Typing DEF ScanInv, Places
<1>2. Best(available.held, scanned, Usable, k, "Available") /\ (k # 1 => WorstHeld(available, "Available"))
  BY DEF ScanInv
<1>3. CASE ~c.available
  <2>1. PushAvailable(c) = available
    BY <1>3 DEF PushAvailable
  <2>2. Best(available.held, Append(scanned, c), Usable, k, "Available")
    BY <1>1, <1>2, PassOver
  <2> QED BY <1>1, <1>2, <1>3, <2>1, <2>2
<1>4. CASE c.available /\ k = 1
  <2> DEFINE new == PushBest(available.held, TRUE, c, "Available")
  <2>1. Best(new, Append(scanned, c), Usable \cup {Len(scanned) + 1}, k, "Available")
    BY <1>1, <1>2, <1>4, PushBestHoldsTheBest
  <2>2. new \in Seq(Candidate)
    BY <2>1 DEF Best, BestAt
  <2>3. PushAvailable(c) = [available EXCEPT !.held = new]
    BY <1>4 DEF PushAvailable
  <2> HIDE DEF new
  <2>4. PushAvailable(c) \in Accumulator /\ PushAvailable(c).held = new
    BY <1>1, <2>2, <2>3 DEF Accumulator
  <2> QED BY <1>4, <2>1, <2>4
<1>5. CASE c.available /\ k # 1
  <2>1. PushAvailable(c) = PushTopK(available, k, c, "Available")
    BY <1>5 DEF PushAvailable
  <2>2. /\ PushTopK(available, k, c, "Available") \in Accumulator
        /\ Best(PushTopK(available, k, c, "Available").held, Append(scanned, c),
                Usable \cup {Len(scanned) + 1}, k, "Available")
        /\ WorstHeld(PushTopK(available, k, c, "Available"), "Available")
    BY <1>1, <1>2, <1>5, PushTopKHoldsTheBest
  <2> QED BY <1>5, <2>1, <2>2
<1> QED
  BY <1>3, <1>4, <1>5

\* Every step keeps it.
LEMMA StepKeeps ==
  ScanInv /\ [Next]_vars => ScanInv'
<1> SUFFICES ASSUME ScanInv, [Next]_vars PROVE ScanInv'
  OBVIOUS
<1>1. ASSUME NEW c \in Scannable, Scan(c) PROVE ScanInv'
  <2>1. c \in Candidate /\ TypeOK
    BY ScannableAssumption DEF ScanInv
  <2>2. /\ scanned' = Append(scanned, c) /\ scanned \in Seq(Candidate) /\ scanned \in Seq(Scannable)
        /\ Len(scanned) \in Nat /\ Len(scanned) < MaxAgents
    BY <1>1, <2>1, Typing DEF Scan, TypeOK
  <2>3. scanned' \in Seq(Scannable) /\ Len(scanned') = Len(scanned) + 1 /\ Len(scanned') <= MaxAgents
    BY <2>2, BoundsAssumption
  <2>4. Places' = Places \cup {Len(scanned) + 1}
    BY <2>2, <2>3 DEF Places
  <2>5. Usable' = IF c.available THEN Usable \cup {Len(scanned) + 1} ELSE Usable
    <3>1. scanned'[Len(scanned) + 1] = c /\ \A i \in 1..Len(scanned) : scanned'[i] = scanned[i]
      BY <2>2
    <3>2. 1..Len(scanned') = 1..Len(scanned) \cup {Len(scanned) + 1}
      BY <2>2, <2>3
    <3> QED BY <3>1, <3>2 DEF Usable
  <2>6. /\ observed' = PushObserved(c) /\ available' = PushAvailable(c)
        /\ k' = k /\ radius' = radius /\ debug' = debug /\ result' = result /\ result = None
    BY <1>1 DEF Scan, request
  <2>7. ObservedMost' = ObservedMost /\ (ObservesTopK' <=> ObservesTopK)
    BY <2>6 DEF ObservedMost, ObservesTopK
  <2>8. /\ observed' \in Accumulator
        /\ Best(observed'.held, scanned', Places', ObservedMost, "Observed")
        /\ ObservesTopK => WorstHeld(observed', "Observed")
    BY <2>1, <2>2, <2>4, <2>6, ScanObserves
  <2>9. /\ available' \in Accumulator
        /\ Best(available'.held, scanned', Usable', k, "Available")
        /\ k # 1 => WorstHeld(available', "Available")
    BY <2>1, <2>2, <2>5, <2>6, ScanTakesAvailable
  <2>10. Len(observed'.held) <= k /\ Len(available'.held) <= k
    <3>1. Len(observed'.held) <= ObservedMost /\ Len(available'.held) <= k
      BY <2>8, <2>9 DEF Best, BestAt
    <3>2. Len(observed'.held) \in Nat /\ ObservedMost \in Nat /\ k \in Nat /\ ObservedMost <= k
      BY <2>1, <2>8, Typing DEF Accumulator
    <3> QED BY <3>1, <3>2
  <2>11. TypeOK'
    BY <2>1, <2>3, <2>6, <2>8, <2>9, <2>10 DEF TypeOK
  <2> QED BY <2>6, <2>7, <2>8, <2>9, <2>11 DEF ScanInv, WorstHeld
<1>2. ASSUME Finish PROVE ScanInv'
  <2>1. /\ UNCHANGED <<k, radius, debug, scanned, observed, available>>
        /\ result' = Select /\ scanned # <<>>
    BY <1>2 DEF Finish, request
  <2>2. TypeOK'
    BY <2>1, SelectIsResult DEF ScanInv, TypeOK
  <2>3. Select' = Select /\ Usable' = Usable /\ Places' = Places
    BY <2>1 DEF Select, TooFar, Usable, Places
  <2>4. ObservedMost' = ObservedMost /\ (ObservesTopK' <=> ObservesTopK)
    BY <2>1 DEF ObservedMost, ObservesTopK
  <2> QED BY <2>1, <2>2, <2>3, <2>4 DEF ScanInv, WorstHeld
<1>3. CASE UNCHANGED vars
  <2>1. UNCHANGED <<k, radius, debug, scanned, observed, available, result>>
    BY <1>3 DEF vars
  <2> QED BY <2>1 DEF ScanInv, TypeOK, Usable, Places, ObservedMost, ObservesTopK, WorstHeld, Select, TooFar
<1> QED
  BY <1>1, <1>2, <1>3 DEF Next

\* What the accumulators hold, throughout.
THEOREM ScanInvariant == Spec => []ScanInv
BY InitHolds, StepKeeps, PTL DEF Spec

-----------------------------------------------------------------------------
(* What the runs check. *)

\* Requests, accumulators and results keep their types; no accumulator holds more
\* candidates than the request asks for.
THEOREM TypeCorrectness == Spec => []TypeOK
<1>1. ScanInv => TypeOK
  BY DEF ScanInv
<1> QED
  BY <1>1, ScanInvariant, PTL

\* The best k of some places are what Ranked gives.
LEMMA RankedIsFullSort ==
  ASSUME NEW places, NEW sort
  PROVE  Ranked(places, sort) = FullSort(scanned, places, k, sort)
BY DEF Ranked, FullSort

LEMMA ScanHoldsTheBest ==
  ScanInv => HoldsTheBest
<1> SUFFICES ASSUME ScanInv PROVE HoldsTheBest
  OBVIOUS
<1>1. /\ scanned \in Seq(Candidate) /\ k \in Nat
      /\ Usable \in SUBSET (1..Len(scanned)) /\ Places \in SUBSET (1..Len(scanned))
  BY Typing DEF ScanInv, Places
<1>2. Rank(Sorted(available.held, "Available"), "Available")
        = Rank(Ranked(Usable, "Available"), "Available")
  BY <1>1, BestIsHead, RankedIsFullSort DEF ScanInv
<1>3. ASSUME ObservesTopK
      PROVE  Rank(Sorted(observed.held, "Observed"), "Observed")
               = Rank(Ranked(1..Len(scanned), "Observed"), "Observed")
  <2>1. Best(observed.held, scanned, Places, k, "Observed")
    BY <1>3 DEF ScanInv, ObservedMost
  <2>2. Rank(Sorted(observed.held, "Observed"), "Observed")
          = Rank(FullSort(scanned, Places, k, "Observed"), "Observed")
    BY <1>1, <2>1, BestIsHead
  <2> QED BY <2>2, RankedIsFullSort DEF Places
<1> QED BY <1>2, <1>3 DEF HoldsTheBest

\* At any moment of the scan the accumulators of BoundedTopK and BestCandidate
\* rank like the head of a full sort of what was met, for every table and every k.
THEOREM HoldsTheBestAlways == Spec => []HoldsTheBest
BY ScanHoldsTheBest, ScanInvariant, PTL

LEMMA ScanAnswersAsFullSort ==
  ScanInv => AnswersAsFullSort
<1> SUFFICES ASSUME ScanInv, result # None, DistinctIds PROVE AnswersAsFullSort
  BY DEF AnswersAsFullSort
<1> DEFINE best  == Ranked(Usable, "Available")
           all   == Sorted(scanned, "Observed")
           first == Sorted(available.held, "Available")
           seen  == Sorted(observed.held, "Observed")
<1>1. /\ scanned \in Seq(Candidate) /\ Len(scanned) \in Nat /\ k \in Nat /\ debug \in BOOLEAN
      /\ Usable \in SUBSET (1..Len(scanned)) /\ Places \in SUBSET (1..Len(scanned))
      /\ ObservedMost \in Nat
  BY Typing DEF ScanInv, Places
<1>2. result = Select /\ Len(scanned) > 0
  BY <1>1 DEF ScanInv
<1>3. \A i, j \in 1..Len(scanned) : scanned[i].agent_id = scanned[j].agent_id => i = j
  BY DEF DistinctIds
<1>4. first = best
  <2>1. \A i, j \in Usable : scanned[i].agent_id = scanned[j].agent_id => i = j
    BY <1>1, <1>3
  <2>2. first = FullSort(scanned, Usable, k, "Available")
    BY <1>1, <2>1, BestIsHead DEF ScanInv
  <2> QED BY <2>2, RankedIsFullSort
<1>5. Best(observed.held, scanned, Places, ObservedMost, "Observed")
  BY DEF ScanInv
<1>6. \A i, j \in Places : scanned[i].agent_id = scanned[j].agent_id => i = j
  BY <1>3 DEF Places
<1>7. seen = FullSort(scanned, Places, ObservedMost, "Observed")
  BY <1>1, <1>5, <1>6, BestIsHead
<1>8. all \in Seq(Candidate) /\ Len(all) = Len(scanned) /\ Cardinality(Places) = Len(scanned)
      /\ all = InOrder(scanned, Places, "Observed")
  <2>1. Cardinality(Places) = Len(scanned)
    BY <1>1, NumbersUpTo DEF Places
  <2>2. all = InOrder(scanned, Places, "Observed")
    BY DEF Sorted, Places
  <2> QED BY <1>1, <2>1, <2>2, InOrderFacts
<1>9. debug => seen = Ranked(1..Len(scanned), "Observed")
  <2>1. ASSUME debug PROVE ObservedMost = k
    BY <1>1, <2>1 DEF ObservedMost, ObservesTopK
  <2> QED BY <1>7, <2>1, RankedIsFullSort DEF Places
<1>10. (seen # <<>> /\ ~seen[1].available) <=> (k > 0 /\ ~all[1].available)
  <2>1. ObservedMost = 0 <=> k = 0
    BY <1>1 DEF ObservedMost, ObservesTopK
  <2>2. CASE k = 0
    <3>1. HeldInOrder(observed.held, scanned, Places, ObservedMost, "Observed")
      BY <1>1, <1>5, BestInOrder
    <3>2. Len(seen) = 0 /\ seen \in Seq(Candidate)
      BY <1>1, <1>8, <2>1, <2>2, <3>1 DEF HeldInOrder
    <3> QED BY <2>2, <3>2
  <2>3. CASE k # 0
    <3> DEFINE n == IF ObservedMost < Len(scanned) THEN ObservedMost ELSE Len(scanned)
    <3>1. n \in Nat /\ n >= 1 /\ n <= Len(scanned)
      BY <1>1, <1>2, <2>1, <2>3
    <3>2. seen = SubSeq(all, 1, n)
      BY <1>7, <1>8 DEF FullSort
    <3> HIDE DEF n, all, seen
    <3>3. seen[1] = all[1] /\ Len(seen) = n /\ seen # <<>>
      BY <1>8, <3>1, <3>2
    <3> QED BY <1>1, <2>3, <3>3
  <2> QED BY <2>2, <2>3
<1> HIDE DEF best, all, first, seen
<1> DEFINE far == first = <<>> \/ TooFar(first[1])
<1>11. result = [ candidates        |-> IF far THEN Append(first, FallbackCandidate) ELSE first,
                  used_fallback     |-> far,
                  ideal_unavailable |-> seen # <<>> /\ ~seen[1].available,
                  debug             |-> IF debug THEN seen ELSE None ]
  BY <1>2 DEF Select, first, seen
<1> DEFINE near == best # <<>> /\ ~TooFar(best[1])
<1>12. far = ~near
  BY <1>4 DEF TooFar
<1> HIDE DEF far, near
<1>13. result.candidates = IF near THEN best ELSE Append(best, FallbackCandidate)
  BY <1>4, <1>11, <1>12
<1>14. result.used_fallback = ~near
  BY <1>11, <1>12
<1>15. result.ideal_unavailable = (k > 0 /\ ~all[1].available)
  BY <1>10, <1>11
<1>16. result.debug = IF debug THEN Ranked(1..Len(scanned), "Observed") ELSE None
  BY <1>9, <1>11
<1> QED BY <1>13, <1>14, <1>15, <1>16 DEF AnswersAsFullSort, near, best, all

\* With unique agent ids the answer is that of a full sort, whichever
\* accumulators the router picked for the k and the debug flag of the request.
THEOREM AnswersAsFullSortAlways == Spec => []AnswersAsFullSort
BY ScanAnswersAsFullSort, ScanInvariant, PTL

-----------------------------------------------------------------------------
(* The kernel's loop. *)

LEMMA LeastNatural ==
  ASSUME NEW T \in SUBSET Nat, T # {}
  PROVE  \E n \in T : \A m \in T : n <= m
<1>1. PICK n \in T : \A m \in T : <<m, n>> \notin OpToRel(<, Nat)
  BY WFMin, NatLessThanWellFounded
<1>2. n \in Nat /\ \A m \in T : m \in Nat /\ ~(m < n)
  BY <1>1 DEF OpToRel
<1>3. \A m \in T : n <= m
  BY <1>2
<1> QED BY <1>3

\* Turn by turn every turn is reached.
LEMMA TurnByTurn ==
  ASSUME NEW n \in Nat, NEW T \in SUBSET (0..n), 0 \in T, \A i \in 1..n : i - 1 \in T => i \in T
  PROVE  T = 0..n
<1> DEFINE left == (0..n) \ T
<1>1. left \in SUBSET Nat
  OBVIOUS
<1>2. ASSUME left # {}
      PROVE  FALSE
  <2>1. PICK i \in left : \A m \in left : i <= m
    <3> HIDE DEF left
    <3> QED BY <1>1, <1>2, LeastNatural
  <2>2. i \in 1..n /\ i - 1 \in 0..n /\ i - 1 \notin left
    BY <2>1
  <2> QED BY <2>1, <2>2
<1> QED BY <1>2

\* The registers after each turn.
KernelRun(table, turn) ==
  turn = [i \in 0..Len(table) |->
            IF i = 0 THEN KernelStart ELSE KernelTurn(turn[i - 1], table[i])]

LEMMA KernelRuns ==
  ASSUME NEW table \in Seq(Candidate)
  PROVE  \E turn : KernelRun(table, turn) /\ Kernel(table) = turn[Len(table)]
<1> DEFINE n == Len(table)
           After(i, turn) ==
             turn = [j \in 0..i |-> IF j = 0 THEN KernelStart ELSE KernelTurn(turn[j - 1], table[j])]
           T == {i \in 0..n : \E turn : After(i, turn)}
<1>1. n \in Nat
  OBVIOUS
<1>2. 0 \in T
  <2>1. After(0, [j \in 0..0 |-> KernelStart])
    OBVIOUS
  <2> HIDE DEF After
  <2> QED BY <1>1, <2>1
<1>3. ASSUME NEW i \in 1..n, i - 1 \in T
      PROVE  i \in T
  <2>1. PICK turn : After(i - 1, turn)
    BY <1>3
  <2> DEFINE longer == [j \in 0..i |-> IF j = i THEN KernelTurn(turn[i - 1], table[i]) ELSE turn[j]]
  <2>2. \A j \in 0..(i - 1) :
          turn[j] = IF j = 0 THEN KernelStart ELSE KernelTurn(turn[j - 1], table[j])
    BY <2>1
  <2>3. /\ longer[i] = KernelTurn(turn[i - 1], table[i])
        /\ \A j \in 0..(i - 1) : longer[j] = turn[j]
        /\ longer = [j \in 0..i |-> longer[j]]
    BY <1>1
  <2> HIDE DEF longer
  <2>4. ASSUME NEW j \in 0..i
        PROVE  longer[j] = IF j = 0 THEN KernelStart ELSE KernelTurn(longer[j - 1], table[j])
    <3>1. CASE j = i
      <4>1. i - 1 \in 0..(i - 1) /\ i # 0
        BY <1>1
      <4> QED BY <2>3, <3>1, <4>1
    <3>2. CASE j \in 1..(i - 1)
      <4>1. j \in 0..(i - 1) /\ j - 1 \in 0..(i - 1) /\ j # 0
        BY <1>1, <3>2
      <4> QED BY <2>2, <2>3, <4>1
    <3>3. CASE j = 0
      <4>1. 0 \in 0..(i - 1)
        BY <1>1
      <4> QED BY <2>2, <2>3, <3>3, <4>1
    <3> QED BY <1>1, <3>1, <3>2, <3>3
  <2>5. After(i, longer)
    BY <2>3, <2>4
  <2> HIDE DEF After
  <2> QED BY <1>1, <2>5
<1>4. n \in T
  <2>1. T \in SUBSET (0..n)
    OBVIOUS
  <2> HIDE DEF T
  <2>2. T = 0..n
    BY <1>1, <1>2, <1>3, <2>1, TurnByTurn
  <2> QED BY <1>1, <2>2
<1>5. \E turn : KernelRun(table, turn)
  BY <1>4 DEF KernelRun
<1> DEFINE turns == CHOOSE turn : KernelRun(table, turn)
<1>6. KernelRun(table, turns)
  BY <1>5
<1>7. Kernel(table) = turns[Len(table)]
  BY DEF Kernel, KernelRun
<1> QED BY <1>6, <1>7

Registers ==
  [ best : Nat, effective : Int, base : Int, seen : BOOLEAN,
    observed : Nat, observed_base : Int, observed_available : BOOLEAN ]

\* What one turn does to the registers.
Turned(t, r, c) ==
  /\ t \in Registers
  /\ Improves(r, c) =>
       t.best = c.agent_id /\ t.effective = c.effective /\ t.base = c.base /\ t.seen = TRUE
  /\ ~Improves(r, c) =>
       t.best = r.best /\ t.effective = r.effective /\ t.base = r.base /\ t.seen = r.seen
  /\ ObservesNearer(r, c) =>
       /\ t.observed = c.agent_id /\ t.observed_base = c.base
       /\ t.observed_available = c.available
  /\ ~ObservesNearer(r, c) =>
       /\ t.observed = r.observed /\ t.observed_base = r.observed_base
       /\ t.observed_available = r.observed_available

LEMMA OneTurn ==
  ASSUME NEW r \in Registers, NEW c \in Candidate
  PROVE  Turned(KernelTurn(r, c), r, c)
<1> DEFINE o == IF ObservesNearer(r, c)
                THEN [r EXCEPT !.observed = c.agent_id, !.observed_base = c.base,
                               !.observed_available = c.available]
                ELSE r
           t == KernelTurn(r, c)
<1>1. /\ c.agent_id \in Nat /\ c.base \in Int /\ c.effective \in Int /\ c.available \in BOOLEAN
  BY DEF Candidate
<1>2. /\ o \in Registers
      /\ o.best = r.best /\ o.effective = r.effective /\ o.base = r.base /\ o.seen = r.seen
      /\ ObservesNearer(r, c) =>
           /\ o.observed = c.agent_id /\ o.observed_base = c.base
           /\ o.observed_available = c.available
      /\ ~ObservesNearer(r, c) => o = r
  BY <1>1 DEF Registers
<1>3. t = IF Improves(r, c)
          THEN [o EXCEPT !.best = c.agent_id, !.effective = c.effective,
                         !.base = c.base, !.seen = TRUE]
          ELSE o
  BY DEF KernelTurn
<1> HIDE DEF o, t
<1>4. /\ t \in Registers
      /\ Improves(r, c) =>
           t.best = c.agent_id /\ t.effective = c.effective /\ t.base = c.base /\ t.seen = TRUE
      /\ ~Improves(r, c) => t = o
      /\ t.observed = o.observed /\ t.observed_base = o.observed_base
      /\ t.observed_available = o.observed_available
  BY <1>1, <1>2, <1>3 DEF Registers
<1>5. Turned(t, r, c)
  BY <1>2, <1>4 DEF Turned
<1> QED BY <1>5 DEF t

LEMMA KernelStarts ==
  KernelStart \in Registers /\ Infinity \notin NaN /\ Infinity \in Int
BY DistanceAssumption DEF KernelStart, Registers

\* The registers always are, and turn after turn is one.
LEMMA RunFacts ==
  ASSUME NEW table \in Seq(Candidate), NEW turn, KernelRun(table, turn)
  PROVE  /\ turn[0] = KernelStart
         /\ \A i \in 1..Len(table) : turn[i] = KernelTurn(turn[i - 1], table[i])
         /\ \A i \in 0..Len(table) : turn[i] \in Registers
<1> DEFINE n == Len(table)
           T == {i \in 0..n : turn[i] \in Registers}
<1>1. n \in Nat
  OBVIOUS
<1>2. \A i \in 0..n : turn[i] = IF i = 0 THEN KernelStart ELSE KernelTurn(turn[i - 1], table[i])
  BY DEF KernelRun
<1>3. turn[0] = KernelStart
  BY <1>1, <1>2
<1>4. \A i \in 1..n : turn[i] = KernelTurn(turn[i - 1], table[i])
  BY <1>1, <1>2
<1>5. 0 \in T
  BY <1>1, <1>3, KernelStarts
<1>6. ASSUME NEW i \in 1..n, i - 1 \in T
      PROVE  i \in T
  <2>1. turn[i - 1] \in Registers /\ table[i] \in Candidate
    BY <1>6
  <2>2. turn[i] \in Registers
    BY <1>4, <2>1, OneTurn DEF Turned
  <2> QED BY <1>1, <2>2
<1>7. T = 0..n
  <2>1. T \in SUBSET (0..n)
    OBVIOUS
  <2> HIDE DEF T
  <2> QED BY <1>1, <1>5, <1>6, <2>1, TurnByTurn
<1> QED BY <1>3, <1>4, <1>7

\* The kernel's comparisons, field by field.
LEMMA KernelCompares ==
  ASSUME NEW r \in Registers, NEW c \in Candidate
  PROVE  /\ Improves(r, c) <=>
              /\ c.available
              /\ \/ ~r.seen
                 \/ c.effective \notin NaN /\ r.effective \notin NaN /\ c.effective < r.effective
                 \/ c.effective \notin NaN /\ r.effective \notin NaN
                    /\ c.effective = r.effective /\ c.agent_id < r.best
         /\ ObservesNearer(r, c) <=>
              \/ c.base \notin NaN /\ r.observed_base \notin NaN /\ c.base < r.observed_base
              \/ c.base \notin NaN /\ r.observed_base \notin NaN
                 /\ c.base = r.observed_base /\ c.agent_id < r.observed
<1>1. \A a, b : {a, b} \cap NaN = {} <=> a \notin NaN /\ b \notin NaN
  OBVIOUS
<1>2. Improves(r, c) <=>
        /\ c.available
        /\ \/ ~r.seen
           \/ c.effective \notin NaN /\ r.effective \notin NaN /\ c.effective < r.effective
           \/ c.effective \notin NaN /\ r.effective \notin NaN
              /\ c.effective = r.effective /\ c.agent_id < r.best
  BY <1>1 DEF Improves, Lower, Equal
<1>3. ObservesNearer(r, c) <=>
        \/ c.base \notin NaN /\ r.observed_base \notin NaN /\ c.base < r.observed_base
        \/ c.base \notin NaN /\ r.observed_base \notin NaN
           /\ c.base = r.observed_base /\ c.agent_id < r.observed
  BY <1>1 DEF ObservesNearer, Lower, Equal
<1> QED BY <1>2, <1>3

\* The registers hold candidate c as the best.
HoldsBest(r, c) == r.best = c.agent_id /\ r.effective = c.effective /\ r.base = c.base

\* If the first available distance is a number, the kernel finds the available
\* agent that is less than every other with a number.
LEMMA KernelFindsBest ==
  ASSUME NEW table \in Seq(Candidate), NEW w \in 1..Len(table),
         table[w].available, table[w].effective \notin NaN,
         \A i \in 1..Len(table) :
           table[i].available /\ (\A j \in 1..Len(table) : table[j].available => i <= j) =>
             table[i].effective \notin NaN,
         \A j \in 1..Len(table) :
           table[j].available /\ j # w =>
             table[j].effective \in NaN \/ Less(table[w], table[j], "Available")
  PROVE  HoldsBest(Kernel(table), table[w])
<1> DEFINE n == Len(table)
<1>1. PICK turn : KernelRun(table, turn) /\ Kernel(table) = turn[n]
  BY KernelRuns
<1>2. /\ n \in Nat /\ turn[0] = KernelStart
      /\ \A i \in 1..n : turn[i] = KernelTurn(turn[i - 1], table[i])
      /\ \A i \in 0..n : turn[i] \in Registers
      /\ \A i \in 1..n : table[i] \in Candidate
  BY <1>1, RunFacts
<1>3. \A j \in 1..n : table[j].available /\ j # w =>
        \/ table[j].effective \in NaN
        \/ table[w].effective < table[j].effective
        \/ table[w].effective = table[j].effective /\ table[w].agent_id < table[j].agent_id
  BY DEF Less, Key
<1> DEFINE Held(i, p) == /\ p \in 1..i /\ table[p].available /\ table[p].effective \notin NaN
                         /\ HoldsBest(turn[i], table[p])
                         /\ w <= i => p = w
           Good(i) == IF turn[i].seen THEN \E p \in 1..i : Held(i, p)
                      ELSE \A p \in 1..i : ~table[p].available
           T == {i \in 0..n : Good(i)}
<1>4. 0 \in T
  BY <1>2 DEF KernelStart
<1>5. ASSUME NEW i \in 1..n, i - 1 \in T
      PROVE  i \in T
  <2> DEFINE r == turn[i - 1]
             c == table[i]
  <2>1. Good(i - 1) /\ i - 1 \in 0..n /\ 1..i = 1..(i - 1) \cup {i}
    BY <1>2, <1>5
  <2>2. /\ turn[i] = KernelTurn(r, c) /\ r \in Registers /\ c \in Candidate /\ turn[i] \in Registers
    BY <1>2, <2>1
  <2>3. /\ Improves(r, c) => HoldsBest(turn[i], c) /\ turn[i].seen
        /\ ~Improves(r, c) =>
             /\ turn[i].best = r.best /\ turn[i].effective = r.effective /\ turn[i].base = r.base
             /\ turn[i].seen = r.seen
    <3>1. Turned(turn[i], r, c)
      BY <2>2, OneTurn
    <3> QED BY <3>1 DEF Turned, HoldsBest
  <2>4. Improves(r, c) <=>
              /\ c.available
              /\ \/ ~r.seen
                 \/ c.effective \notin NaN /\ r.effective \notin NaN /\ c.effective < r.effective
                 \/ c.effective \notin NaN /\ r.effective \notin NaN
                    /\ c.effective = r.effective /\ c.agent_id < r.best
    BY <2>2, KernelCompares
  <2>5. CASE ~r.seen
    <3>1. \A p \in 1..(i - 1) : ~table[p].available
      BY <2>1, <2>5
    <3>2. CASE ~c.available
      <4>1. ~turn[i].seen
        BY <2>3, <2>4, <2>5, <3>2
      <4> QED BY <1>2, <2>1, <3>1, <3>2, <4>1
    <3>3. CASE c.available
      <4>1. HoldsBest(turn[i], c) /\ turn[i].seen
        BY <2>3, <2>4, <2>5, <3>3
      <4>2. \A j \in 1..n : table[j].available => i <= j
        BY <1>2, <3>1
      <4>3. c.effective \notin NaN
        BY <3>3, <4>2
      <4>4. w <= i => i = w
        BY <1>2, <4>2
      <4>5. Held(i, i) /\ i \in 1..i
        BY <1>2, <3>3, <4>1, <4>3, <4>4
      <4> HIDE DEF Held
      <4> QED BY <1>2, <4>1, <4>5
    <3> QED BY <3>2, <3>3
  <2>6. CASE r.seen
    <3>1. PICK p \in 1..(i - 1) : Held(i - 1, p)
      BY <2>1, <2>6
    <3>2. /\ table[p].available /\ table[p].effective \notin NaN /\ p \in 1..n /\ p # i
          /\ r.best = table[p].agent_id /\ r.effective = table[p].effective
          /\ r.base = table[p].base /\ (w <= i - 1 => p = w)
      BY <1>2, <3>1 DEF HoldsBest
    <3>3. turn[i].seen
      BY <2>3, <2>6
    <3>4. CASE Improves(r, c)
      <4>1. c.available /\ c.effective \notin NaN /\ HoldsBest(turn[i], c)
        BY <2>3, <2>4, <2>6, <3>4
      <4>2. w <= i => i = w
        <5> SUFFICES ASSUME w <= i, i # w PROVE FALSE
          OBVIOUS
        <5>1. p = w
          BY <1>2, <3>2
        <5>2. \/ table[w].effective < c.effective
              \/ table[w].effective = c.effective /\ table[w].agent_id < c.agent_id
          BY <1>3, <4>1
        <5>3. \/ c.effective < table[w].effective
              \/ c.effective = table[w].effective /\ c.agent_id < table[w].agent_id
          BY <2>4, <2>6, <3>2, <3>4, <5>1
        <5>4. /\ c.effective \in Int /\ table[w].effective \in Int
              /\ c.agent_id \in Nat /\ table[w].agent_id \in Nat
          BY <1>2 DEF Candidate
        <5> QED BY <5>2, <5>3, <5>4
      <4>3. Held(i, i) /\ i \in 1..i
        BY <1>2, <4>1, <4>2
      <4> HIDE DEF Held
      <4> QED BY <1>2, <3>3, <4>3
    <3>5. CASE ~Improves(r, c)
      <4>1. HoldsBest(turn[i], table[p])
        BY <2>3, <3>2, <3>5 DEF HoldsBest
      <4>2. i # w
        <5> SUFFICES ASSUME i = w PROVE FALSE
          OBVIOUS
        <5>1. \/ c.effective < table[p].effective
              \/ c.effective = table[p].effective /\ c.agent_id < table[p].agent_id
          BY <1>3, <3>2
        <5>2. c.available /\ c.effective \notin NaN
          OBVIOUS
        <5> QED BY <2>4, <3>2, <3>5, <5>1, <5>2
      <4>3. w <= i => p = w
        BY <1>2, <3>2, <4>2
      <4>4. Held(i, p) /\ p \in 1..i
        BY <1>2, <3>2, <4>1, <4>3
      <4> HIDE DEF Held
      <4> QED BY <1>2, <3>3, <4>4
    <3> QED BY <3>4, <3>5
  <2>7. r.seen \in BOOLEAN
    BY <2>2 DEF Registers
  <2> QED BY <2>5, <2>6, <2>7
<1>6. n \in T
  <2>1. T \in SUBSET (0..n)
    OBVIOUS
  <2> HIDE DEF T
  <2>2. T = 0..n
    BY <1>2, <1>4, <1>5, <2>1, TurnByTurn
  <2> QED BY <1>2, <2>2
<1>7. Good(n)
  BY <1>6
<1>8. \E p \in 1..n : Held(n, p)
  <2> HIDE DEF Held
  <2> QED BY <1>2, <1>7
<1>9. HoldsBest(turn[n], table[w])
  BY <1>2, <1>8
<1> QED BY <1>1, <1>9

\* Without an available agent it finds none.
LEMMA KernelFindsNone ==
  ASSUME NEW table \in Seq(Candidate), \A i \in 1..Len(table) : ~table[i].available
  PROVE  Kernel(table).best = 0
<1> DEFINE n == Len(table)
<1>1. PICK turn : KernelRun(table, turn) /\ Kernel(table) = turn[n]
  BY KernelRuns
<1>2. /\ n \in Nat /\ turn[0] = KernelStart
      /\ \A i \in 1..n : turn[i] = KernelTurn(turn[i - 1], table[i])
      /\ \A i \in 0..n : turn[i] \in Registers
      /\ \A i \in 1..n : table[i] \in Candidate
  BY <1>1, RunFacts
<1> DEFINE T == {i \in 0..n : turn[i].best = 0}
<1>3. 0 \in T
  BY <1>2 DEF KernelStart
<1>4. ASSUME NEW i \in 1..n, i - 1 \in T
      PROVE  i \in T
  <2>1. turn[i - 1] \in Registers /\ table[i] \in Candidate /\ ~table[i].available
    BY <1>2, <1>4
  <2>2. ~Improves(turn[i - 1], table[i])
    BY <2>1 DEF Improves
  <2>3. Turned(turn[i], turn[i - 1], table[i])
    BY <1>2, <2>1, OneTurn
  <2>4. turn[i].best = turn[i - 1].best
    BY <2>2, <2>3 DEF Turned
  <2> QED BY <1>2, <1>4, <2>4
<1>5. n \in T
  <2>1. T \in SUBSET (0..n)
    OBVIOUS
  <2> HIDE DEF T
  <2>2. T = 0..n
    BY <1>2, <1>3, <1>4, <2>1, TurnByTurn
  <2> QED BY <1>2, <2>2
<1> QED BY <1>1, <1>5

\* It knows whether the nearest agent is available, if that has a finite distance
\* and is less than every other with a number.
LEMMA KernelObserves ==
  ASSUME NEW table \in Seq(Candidate), NEW q \in 1..Len(table),
         table[q].base \notin NaN, table[q].base < Infinity,
         \A j \in 1..Len(table) :
           j # q => table[j].base \in NaN \/ Less(table[q], table[j], "Observed")
  PROVE  Kernel(table).observed_available = table[q].available
<1> DEFINE n == Len(table)
<1>1. PICK turn : KernelRun(table, turn) /\ Kernel(table) = turn[n]
  BY KernelRuns
<1>2. /\ n \in Nat /\ turn[0] = KernelStart
      /\ \A i \in 1..n : turn[i] = KernelTurn(turn[i - 1], table[i])
      /\ \A i \in 0..n : turn[i] \in Registers
      /\ \A i \in 1..n : table[i] \in Candidate
  BY <1>1, RunFacts
<1>3. \A j \in 1..n : j # q =>
        \/ table[j].base \in NaN
        \/ table[q].base < table[j].base
        \/ table[q].base = table[j].base /\ table[q].agent_id < table[j].agent_id
  BY DEF Less, Key
<1> DEFINE Saw(i, p) == /\ turn[i].observed = table[p].agent_id
                        /\ turn[i].observed_base = table[p].base
                        /\ turn[i].observed_available = table[p].available
           Good(i) == /\ turn[i].observed_base \notin NaN
                      /\ IF q <= i THEN Saw(i, q)
                         ELSE \/ turn[i].observed_base = Infinity
                              \/ \E p \in 1..i : Saw(i, p)
           T == {i \in 0..n : Good(i)}
<1>4. 0 \in T
  BY <1>2, KernelStarts DEF KernelStart
<1>5. ASSUME NEW i \in 1..n, i - 1 \in T
      PROVE  i \in T
  <2> DEFINE r == turn[i - 1]
             c == table[i]
  <2>1. Good(i - 1) /\ i - 1 \in 0..n
    BY <1>2, <1>5
  <2>2. turn[i] = KernelTurn(r, c) /\ r \in Registers /\ c \in Candidate
    BY <1>2, <2>1
  <2>3. /\ ObservesNearer(r, c) => Saw(i, i)
        /\ ~ObservesNearer(r, c) =>
             /\ turn[i].observed = r.observed /\ turn[i].observed_base = r.observed_base
             /\ turn[i].observed_available = r.observed_available
    <3>1. Turned(turn[i], r, c)
      BY <2>2, OneTurn
    <3> QED BY <3>1 DEF Turned
  <2>4. ObservesNearer(r, c) <=>
          \/ c.base \notin NaN /\ r.observed_base \notin NaN /\ c.base < r.observed_base
          \/ c.base \notin NaN /\ r.observed_base \notin NaN
             /\ c.base = r.observed_base /\ c.agent_id < r.observed
    BY <2>2, KernelCompares
  <2>5. r.observed_base \notin NaN
    BY <2>1
  <2>6. turn[i].observed_base \notin NaN
    BY <2>3, <2>4, <2>5
  <2>7. CASE i < q
    <3>1. r.observed_base = Infinity \/ \E p \in 1..(i - 1) : Saw(i - 1, p)
      BY <1>2, <2>1, <2>7
    <3>2. CASE ObservesNearer(r, c)
      <4>1. Saw(i, i) /\ i \in 1..i
        BY <1>2, <2>3, <3>2
      <4> HIDE DEF Saw
      <4> QED BY <1>2, <2>6, <2>7, <4>1
    <3>3. CASE ~ObservesNearer(r, c) /\ r.observed_base = Infinity
      BY <1>2, <2>3, <2>6, <2>7, <3>3
    <3>4. CASE ~ObservesNearer(r, c) /\ \E p \in 1..(i - 1) : Saw(i - 1, p)
      <4>1. PICK p \in 1..(i - 1) : Saw(i - 1, p)
        BY <3>4
      <4>2. Saw(i, p) /\ p \in 1..i
        BY <1>2, <2>3, <3>4, <4>1
      <4> HIDE DEF Saw
      <4> QED BY <1>2, <2>6, <2>7, <4>2
    <3> QED BY <3>1, <3>2, <3>3, <3>4
  <2>8. CASE i = q
    <3>1. r.observed_base = Infinity \/ \E p \in 1..(i - 1) : Saw(i - 1, p)
      BY <1>2, <2>1, <2>8
    <3>2. c.base < r.observed_base \/ (c.base = r.observed_base /\ c.agent_id < r.observed)
      <4>1. CASE r.observed_base = Infinity
        BY <2>8, <4>1
      <4>2. CASE \E p \in 1..(i - 1) : Saw(i - 1, p)
        <5>1. PICK p \in 1..(i - 1) : Saw(i - 1, p)
          BY <4>2
        <5>2. p \in 1..n /\ p # q /\ table[p].base \notin NaN
          BY <1>2, <2>5, <2>8, <5>1
        <5> QED BY <1>3, <2>8, <5>1, <5>2
      <4> QED BY <3>1, <4>1, <4>2
    <3>3. Saw(i, i)
      BY <2>3, <2>4, <2>5, <2>8, <3>2
    <3> HIDE DEF Saw
    <3> QED BY <1>2, <2>6, <2>8, <3>3
  <2>9. CASE i > q
    <3>1. Saw(i - 1, q)
      BY <1>2, <2>1, <2>9
    <3>2. /\ c.base \in Int /\ table[q].base \in Int /\ c.agent_id \in Nat /\ table[q].agent_id \in Nat
          /\ i # q
      <4>1. table[i] \in Candidate /\ table[q] \in Candidate
        BY <1>2
      <4>2. i # q
        BY <1>2, <2>9
      <4> QED BY <4>1, <4>2 DEF Candidate
    <3>3. \/ c.base \in NaN
          \/ table[q].base < c.base
          \/ table[q].base = c.base /\ table[q].agent_id < c.agent_id
      BY <1>3, <3>2
    <3>4. ~ObservesNearer(r, c)
      BY <2>4, <3>1, <3>2, <3>3
    <3>5. Saw(i, q)
      BY <2>3, <3>1, <3>4
    <3> HIDE DEF Saw
    <3> QED BY <1>2, <2>6, <2>9, <3>5
  <2> QED BY <1>2, <2>7, <2>8, <2>9
<1>6. n \in T
  <2>1. T \in SUBSET (0..n)
    OBVIOUS
  <2> HIDE DEF T
  <2>2. T = 0..n
    BY <1>2, <1>4, <1>5, <2>1, TurnByTurn
  <2> QED BY <1>2, <2>2
<1>7. Saw(n, q)
  BY <1>2, <1>6
<1> QED BY <1>1, <1>7

-----------------------------------------------------------------------------
(* The CPU's answer to a request for one agent. *)

\* What comes first is preceded by none.
LEMMA FirstInOrder ==
  ASSUME NEW sort, NEW s \in Seq(Candidate), NEW places \in SUBSET (1..Len(s)), places # {}
  PROVE  \E w \in places : /\ InOrder(s, places, sort)[1] = s[w]
                           /\ \A j \in places : ~Less(s[j], s[w], sort)
<1>0. Len(s) \in Nat
  OBVIOUS
<1>1. IsFiniteSet(places) /\ Cardinality(places) \in Nat
  BY <1>0, PlacesAreFinite
<1>2. 1 \in 1..Cardinality(places)
  <2>1. Cardinality(places) # 0
    BY <1>1, FS_EmptySet
  <2> QED BY <1>1, <2>1
<1>3. \E i \in places : Cardinality(Before(s, i, places, sort)) = 1 - 1
  BY <1>2, EachPlaceInTurn
<1> DEFINE w == CHOOSE i \in places : Cardinality(Before(s, i, places, sort)) = 1 - 1
<1>4. w \in places /\ Cardinality(Before(s, w, places, sort)) = 1 - 1
  BY <1>3
<1>5. InOrder(s, places, sort)[1] = s[w]
  BY <1>2 DEF InOrder
<1> HIDE DEF w
<1>6. Before(s, w, places, sort) = {}
  <2>1. Before(s, w, places, sort) \in SUBSET (1..Len(s))
    BY DEF Before
  <2>2. IsFiniteSet(Before(s, w, places, sort))
    BY <1>0, <2>1, PlacesAreFinite
  <2> QED BY <1>4, <2>2, FS_EmptySet
<1>7. \A j \in places : ~Less(s[j], s[w], sort)
  BY <1>6 DEF Before
<1> QED BY <1>4, <1>5, <1>7

\* The choice is the available agent preceded by none.
LEMMA ChosenFacts ==
  ASSUME TypeOK, k = 1
  PROVE  /\ Chosen = Ranked(Usable, "Available")
         /\ Chosen \in Seq(Candidate)
         /\ Usable = {} => Chosen = <<>>
         /\ Usable # {} =>
              /\ Len(Chosen) = 1
              /\ \E w \in Usable : /\ Chosen[1] = scanned[w]
                                   /\ \A j \in Usable : ~Less(scanned[j], scanned[w], "Available")
<1> DEFINE full == InOrder(scanned, Usable, "Available")
           n == Cardinality(Usable)
<1>1. scanned \in Seq(Candidate) /\ Usable \in SUBSET (1..Len(scanned)) /\ Len(scanned) \in Nat
  BY Typing DEF Places
<1>2. full \in Seq(Candidate) /\ Len(full) = n /\ n \in Nat
  BY <1>1, InOrderFacts
<1>3. Usable = {} <=> n = 0
  <2>1. IsFiniteSet(Usable)
    BY <1>1, PlacesAreFinite
  <2> QED BY <2>1, FS_EmptySet
<1>4. /\ Ranked(Usable, "Available") = SubSeq(full, 1, IF 1 < n THEN 1 ELSE n)
      /\ Chosen = SubSeq(Ranked(Usable, "Available"), 1, IF Usable = {} THEN 0 ELSE 1)
  BY DEF Ranked, Chosen
<1>5. CASE Usable = {}
  <2>1. n = 0
    BY <1>3, <1>5
  <2> HIDE DEF full, n
  <2>2. Ranked(Usable, "Available") = <<>>
    <3>1. (IF 1 < n THEN 1 ELSE n) = 0
      BY <2>1
    <3>2. SubSeq(full, 1, 0) = <<>>
      BY <1>2
    <3> QED BY <1>4, <3>1, <3>2
  <2>3. Chosen = <<>>
    BY <1>4, <1>5, <2>2
  <2> QED BY <1>5, <2>2, <2>3
<1>6. CASE Usable # {}
  <2>1. n >= 1
    BY <1>2, <1>3, <1>6
  <2>2. \E w \in Usable : /\ full[1] = scanned[w]
                          /\ \A j \in Usable : ~Less(scanned[j], scanned[w], "Available")
    BY <1>1, <1>6, FirstInOrder
  <2> HIDE DEF full, n
  <2>3. Ranked(Usable, "Available") = SubSeq(full, 1, 1)
    <3>1. (IF 1 < n THEN 1 ELSE n) = 1
      BY <1>2, <2>1
    <3> QED BY <1>4, <3>1
  <2>4. /\ SubSeq(full, 1, 1) \in Seq(Candidate) /\ Len(SubSeq(full, 1, 1)) = 1
        /\ SubSeq(full, 1, 1)[1] = full[1]
    BY <1>2, <2>1
  <2>5. Chosen = SubSeq(Ranked(Usable, "Available"), 1, 1)
    BY <1>4, <1>6
  <2>6. Chosen = Ranked(Usable, "Available")
    <3> DEFINE one == SubSeq(full, 1, 1)
    <3>1. one \in Seq(Candidate) /\ Len(one) = 1
      BY <2>4
    <3> HIDE DEF one
    <3>2. SubSeq(one, 1, 1) = one
      BY <3>1
    <3> QED BY <2>3, <2>5, <3>2 DEF one
  <2> QED BY <1>6, <2>2, <2>3, <2>4, <2>6
<1> QED BY <1>5, <1>6

\* So is the nearest among all.
LEMMA NearestFacts ==
  ASSUME TypeOK, k = 1, scanned # <<>>
  PROVE  /\ Nearest = Sorted(scanned, "Observed")[1]
         /\ \E q \in 1..Len(scanned) :
              /\ Nearest = scanned[q]
              /\ \A j \in 1..Len(scanned) : ~Less(scanned[j], scanned[q], "Observed")
<1> DEFINE places == 1..Len(scanned)
           full == InOrder(scanned, places, "Observed")
           n == Cardinality(places)
<1>1. scanned \in Seq(Candidate) /\ Len(scanned) \in Nat /\ Len(scanned) >= 1
  BY Typing
<1>2. n = Len(scanned) /\ places # {} /\ places \in SUBSET (1..Len(scanned))
  BY <1>1, NumbersUpTo
<1>3. full \in Seq(Candidate) /\ Len(full) = n
  BY <1>1, <1>2, InOrderFacts
<1>4. \E q \in places : /\ full[1] = scanned[q]
                        /\ \A j \in places : ~Less(scanned[j], scanned[q], "Observed")
  BY <1>1, <1>2, FirstInOrder
<1>5. Nearest = SubSeq(full, 1, IF 1 < n THEN 1 ELSE n)[1] /\ Sorted(scanned, "Observed") = full
  BY DEF Nearest, Ranked, Sorted
<1> HIDE DEF full, n
<1>6. Nearest = full[1]
  BY <1>1, <1>2, <1>3, <1>5
<1> QED BY <1>4, <1>5, <1>6

-----------------------------------------------------------------------------
(* The kernel's table. *)

\* A distance and what the kernel computes for it.
RoundsTo(a, b) ==
  IF a \in NaN \cup {Infinity} THEN b = a
  ELSE /\ b \in Int /\ a - Epsilon <= b /\ b <= a + Epsilon
       /\ a \notin NaN /\ b \notin NaN /\ a < Infinity /\ b < Infinity

RoundedAs(c, d) ==
  /\ d \in Candidate /\ d.agent_id = c.agent_id /\ d.available = c.available
  /\ RoundsTo(c.base, d.base) /\ RoundsTo(c.effective, d.effective)

LEMMA OffRounds ==
  ASSUME NEW c \in Scannable, NEW off \in Rounding
  PROVE  RoundedAs(c, Rounded(c, off))
<1>1. /\ c \in Candidate /\ Epsilon \in Nat /\ Infinity \in Int
      /\ off.base \in (-Epsilon)..Epsilon /\ off.effective \in (-Epsilon)..Epsilon
  BY ScannableAssumption, EpsilonAssumption, DistanceAssumption, RoundingAssumption
<1>2. ASSUME NEW a \in {c.base, c.effective}, NEW o \in (-Epsilon)..Epsilon
      PROVE  Off(a, o) \in Int /\ RoundsTo(a, Off(a, o))
  <2>1. a \in Int /\ o \in Int /\ -Epsilon <= o /\ o <= Epsilon
    BY <1>1, <1>2 DEF Candidate
  <2>2. CASE a \in NaN \cup {Infinity}
    BY <2>1, <2>2 DEF Off, RoundsTo
  <2>3. CASE a \notin NaN \cup {Infinity}
    <3>1. /\ a \in {c.base, c.effective} \ (NaN \cup {Infinity})
          /\ 0 \in (-Epsilon)..Epsilon
      BY <1>1, <1>2, <2>3
    <3>2. a + o < Infinity /\ a + o \notin NaN /\ a + 0 < Infinity
      BY <1>2, <3>1, NumberAssumption
    <3>3. Off(a, o) = a + o
      BY <2>3 DEF Off
    <3>4. a + o \in Int /\ a - Epsilon <= a + o /\ a + o <= a + Epsilon /\ a < Infinity
      BY <1>1, <2>1, <3>2
    <3> QED BY <2>3, <3>2, <3>3, <3>4 DEF RoundsTo
  <2> QED BY <2>2, <2>3
<1>3. Rounded(c, off) =
        [c EXCEPT !.base = Off(c.base, off.base), !.effective = Off(c.effective, off.effective)]
  BY <1>1 DEF Rounded, Candidate
<1> DEFINE b == Off(c.base, off.base)
           f == Off(c.effective, off.effective)
<1>4. b \in Int /\ f \in Int /\ RoundsTo(c.base, b) /\ RoundsTo(c.effective, f)
  BY <1>1, <1>2
<1>5. Rounded(c, off) = [c EXCEPT !.base = b, !.effective = f]
  BY <1>3
<1> HIDE DEF b, f
<1>6. /\ Rounded(c, off) \in Candidate /\ Rounded(c, off).agent_id = c.agent_id
      /\ Rounded(c, off).available = c.available
      /\ Rounded(c, off).base = b /\ Rounded(c, off).effective = f
  BY <1>1, <1>4, <1>5 DEF Candidate
<1> QED BY <1>4, <1>6 DEF RoundedAs

LEMMA ExactRounds ==
  ASSUME NEW c \in Scannable
  PROVE  RoundedAs(c, c)
<1>1. c \in Candidate /\ Epsilon \in Nat /\ Infinity \in Int
  BY ScannableAssumption, EpsilonAssumption, DistanceAssumption
<1>2. ASSUME NEW a \in {c.base, c.effective} PROVE RoundsTo(a, a)
  <2>1. a \in Int /\ 0 \in (-Epsilon)..Epsilon
    BY <1>1, <1>2 DEF Candidate
  <2>2. a \notin NaN \cup {Infinity} => a + 0 < Infinity
    BY <1>2, <2>1, NumberAssumption
  <2> QED BY <1>1, <2>1, <2>2 DEF RoundsTo
<1> QED BY <1>1, <1>2 DEF RoundedAs

LEMMA TableFacts ==
  ASSUME TypeOK, NEW table \in KernelTables
  PROVE  /\ table \in Seq(Candidate) /\ Len(table) = Len(scanned)
         /\ \A i \in 1..Len(scanned) : RoundedAs(scanned[i], table[i])
<1>1. scanned \in Seq(Scannable) /\ Len(scanned) \in Nat /\ DOMAIN scanned = 1..Len(scanned)
  BY DEF TypeOK
<1>2. table = [i \in 1..Len(scanned) |-> table[i]]
  <2>1. CASE table = scanned
    BY <1>1, <2>1
  <2>2. CASE table # scanned
    <3>1. PICK off \in [DOMAIN scanned -> Rounding] :
            table = [i \in DOMAIN scanned |-> Rounded(scanned[i], off[i])]
      BY <2>2 DEF KernelTables
    <3> QED BY <1>1, <3>1
  <2> QED BY <2>1, <2>2
<1>3. ASSUME NEW i \in 1..Len(scanned)
      PROVE  RoundedAs(scanned[i], table[i])
  <2>1. scanned[i] \in Scannable
    BY <1>1
  <2>2. CASE table = scanned
    BY <2>1, <2>2, ExactRounds
  <2>3. CASE table # scanned
    <3>1. PICK off \in [DOMAIN scanned -> Rounding] :
            table = [j \in DOMAIN scanned |-> Rounded(scanned[j], off[j])]
      BY <2>3 DEF KernelTables
    <3>2. table[i] = Rounded(scanned[i], off[i]) /\ off[i] \in Rounding
      BY <1>1, <3>1
    <3> QED BY <2>1, <3>2, OffRounds
  <2> QED BY <2>2, <2>3
<1>4. table \in [1..Len(scanned) -> Candidate]
  <2>1. \A i \in 1..Len(scanned) : table[i] \in Candidate
    BY <1>3 DEF RoundedAs
  <2> QED BY <1>2, <2>1
<1>5. table \in Seq(Candidate) /\ Len(table) = Len(scanned)
  BY <1>1, <1>4
<1> QED BY <1>3, <1>5

\* The answer decoded from the kernel's registers is a result.
LEMMA DecodedIsResult ==
  ASSUME TypeOK, NEW table \in Seq(Candidate)
  PROVE  /\ Kernel(table) \in Registers
         /\ Decode(Kernel(table)) \in Result
<1> DEFINE r == Kernel(table)
<1>1. r \in Registers
  <2>1. PICK turn : KernelRun(table, turn) /\ Kernel(table) = turn[Len(table)]
    BY KernelRuns
  <2>2. Len(table) \in 0..Len(table)
    OBVIOUS
  <2> QED BY <2>1, <2>2, RunFacts
<1> DEFINE one == [agent_id |-> r.best, base |-> r.base, effective |-> r.effective, available |-> TRUE]
           found == IF r.best = 0 THEN <<>> ELSE << one >>
           far == found = <<>> \/ TooFar(found[1])
<1>2. one \in Candidate
  BY <1>1 DEF Registers, Candidate
<1> HIDE DEF one
<1>3. found \in Seq(Candidate) /\ Append(found, FallbackCandidate) \in Seq(Candidate)
  BY <1>2, Typing
<1>4. far \in BOOLEAN /\ (~r.observed_available) \in BOOLEAN
  <2> HIDE DEF found, r
  <2> QED BY DEF TooFar
<1>5. Decode(r) = [ candidates        |-> IF far THEN Append(found, FallbackCandidate) ELSE found,
                    used_fallback     |-> far,
                    ideal_unavailable |-> ~r.observed_available,
                    debug             |-> None ]
  BY DEF Decode, one
<1> HIDE DEF r, found, far
<1>6. Decode(r) \in Result
  BY <1>3, <1>4, <1>5 DEF Result
<1> QED BY <1>1, <1>6 DEF r

-----------------------------------------------------------------------------
(* The parity check. *)

LEMMA SameFacts ==
  ASSUME NEW a \in Int, NEW b \in Int
  PROVE  /\ P!Same(a, b, Epsilon) => P!Same(b, a, Epsilon)
         /\ P!Same(a, b, None) => P!Same(a, b, Epsilon)
         /\ P!Same(a, b, Epsilon) => a \notin NaN
         /\ RoundsTo(a, b) /\ a \notin NaN => P!Same(a, b, Epsilon)
<1>1. Epsilon \in Nat /\ Epsilon # None /\ Infinity \in Int /\ Infinity \notin NaN
  BY EpsilonAssumption, NoneAssumption, DistanceAssumption
<1>2. {a, b} \cap NaN = {} <=> a \notin NaN /\ b \notin NaN
  OBVIOUS
<1>3. {b, a} = {a, b}
  OBVIOUS
<1>4. /\ P!Same(a, b, Epsilon) <=> P!Close(a, b, Epsilon)
      /\ P!Same(b, a, Epsilon) <=> P!Close(b, a, Epsilon)
      /\ P!Same(a, b, None) <=> P!Exact(a, b)
  BY <1>1 DEF P!Same
<1>5. /\ P!Exact(a, b) <=> a \notin NaN /\ b \notin NaN /\ a = b
      /\ P!Exact(b, a) <=> a \notin NaN /\ b \notin NaN /\ a = b
  BY <1>2, <1>3 DEF P!Exact
<1>6. Infinity \in {a, b} <=> a = Infinity \/ b = Infinity
  OBVIOUS
<1>7. /\ P!Close(a, b, Epsilon) <=>
           IF a = Infinity \/ b = Infinity THEN P!Exact(a, b)
           ELSE a \notin NaN /\ b \notin NaN /\ a - b <= Epsilon /\ b - a <= Epsilon
      /\ P!Close(b, a, Epsilon) <=>
           IF a = Infinity \/ b = Infinity THEN P!Exact(b, a)
           ELSE a \notin NaN /\ b \notin NaN /\ a - b <= Epsilon /\ b - a <= Epsilon
  <2>1. /\ a - b \in (-Epsilon)..Epsilon <=> a - b <= Epsilon /\ b - a <= Epsilon
        /\ b - a \in (-Epsilon)..Epsilon <=> a - b <= Epsilon /\ b - a <= Epsilon
    BY <1>1
  <2> QED BY <1>2, <1>3, <1>6, <2>1 DEF P!Close
<1>8. P!Exact(a, b) => P!Close(a, b, Epsilon)
  BY <1>1, <1>5, <1>7
<1>9. RoundsTo(a, b) /\ a \notin NaN => P!Close(a, b, Epsilon)
  <2>1. CASE a = Infinity
    BY <1>1, <1>5, <1>7, <2>1 DEF RoundsTo
  <2>2. CASE a # Infinity /\ RoundsTo(a, b) /\ a \notin NaN
    <3>1. b \notin NaN /\ b < Infinity /\ a - Epsilon <= b /\ b <= a + Epsilon /\ b \in Int
      BY <2>2 DEF RoundsTo
    <3> QED BY <1>1, <1>7, <2>2, <3>1
  <2> QED BY <2>1, <2>2
<1> QED BY <1>4, <1>5, <1>7, <1>8, <1>9

\* Matching with a tolerance does not depend on which result is the reference, and
\* whatever matches exactly matches with a tolerance.
LEMMA ListsMatch ==
  ASSUME NEW a \in Seq(Candidate), NEW b \in Seq(Candidate)
  PROVE  /\ P!ListMatches(a, b, Epsilon) => P!ListMatches(b, a, Epsilon)
         /\ P!ListMatches(a, b, None) => P!ListMatches(a, b, Epsilon)
<1>1. ASSUME NEW x \in Candidate, NEW y \in Candidate
      PROVE  /\ P!CandidateMatches(x, y, Epsilon) => P!CandidateMatches(y, x, Epsilon)
             /\ P!CandidateMatches(x, y, None) => P!CandidateMatches(x, y, Epsilon)
  <2>1. x.base \in Int /\ y.base \in Int /\ x.effective \in Int /\ y.effective \in Int
    BY DEF Candidate
  <2> QED BY <2>1, SameFacts DEF P!CandidateMatches
<1>2. /\ \A i \in 1..Len(a) : a[i] \in Candidate
      /\ \A i \in 1..Len(b) : b[i] \in Candidate
  OBVIOUS
<1> QED BY <1>1, <1>2 DEF P!ListMatches

LEMMA ResultsMatch ==
  ASSUME NEW r \in Result, NEW d \in Result
  PROVE  /\ P!ResultMatches(r, d, Epsilon) => P!ResultMatches(d, r, Epsilon)
         /\ P!ResultMatches(r, d, None) => P!ResultMatches(r, d, Epsilon)
<1>1. /\ r.candidates \in Seq(Candidate) /\ d.candidates \in Seq(Candidate)
      /\ r.debug \in {None} \cup Seq(Candidate) /\ d.debug \in {None} \cup Seq(Candidate)
  BY DEF Result
<1>2. /\ P!ListMatches(r.candidates, d.candidates, Epsilon) =>
           P!ListMatches(d.candidates, r.candidates, Epsilon)
      /\ P!ListMatches(r.candidates, d.candidates, None) =>
           P!ListMatches(r.candidates, d.candidates, Epsilon)
  BY <1>1, ListsMatch
<1>3. /\ P!DebugMatches(r.debug, d.debug, Epsilon) => P!DebugMatches(d.debug, r.debug, Epsilon)
      /\ P!DebugMatches(r.debug, d.debug, None) => P!DebugMatches(r.debug, d.debug, Epsilon)
  <2>1. CASE None \in {r.debug, d.debug}
    BY <2>1 DEF P!DebugMatches
  <2>2. CASE None \notin {r.debug, d.debug}
    <3>1. r.debug \in Seq(Candidate) /\ d.debug \in Seq(Candidate)
      BY <1>1, <2>2
    <3>2. /\ P!ListMatches(r.debug, d.debug, Epsilon) => P!ListMatches(d.debug, r.debug, Epsilon)
          /\ P!ListMatches(r.debug, d.debug, None) => P!ListMatches(r.debug, d.debug, Epsilon)
      BY <3>1, ListsMatch
    <3> QED BY <2>2, <3>2 DEF P!DebugMatches
  <2> QED BY <2>1, <2>2
<1> QED BY <1>2, <1>3 DEF P!ResultMatches

\* Batches of one result match if the results do.
LEMMA ParityOfOne ==
  ASSUME NEW r \in Result, NEW d \in Result, NEW tolerance
  PROVE  P!Parity(<<r>>, <<d>>, tolerance).error =
           IF P!ResultMatches(r, d, tolerance) THEN "" ELSE "Mismatch"
<1>1. <<r>> # None /\ <<d>> # None
  <2>1. <<r>> \in Seq(Result) /\ <<d>> \in Seq(Result)
    OBVIOUS
  <2> QED BY <2>1, NoneAssumption
<1>2. P!BatchMatches(<<r>>, <<d>>, tolerance) <=> P!ResultMatches(r, d, tolerance)
  BY DEF P!BatchMatches
<1>3. CASE P!ResultMatches(r, d, tolerance)
  <2>1. P!BatchMatches(<<r>>, <<d>>, tolerance)
    BY <1>2, <1>3
  <2> DEFINE routes == Len(<<d>>)
  <2>2. P!Parity(<<r>>, <<d>>, tolerance) = [error |-> "", routes |-> routes]
    BY <1>1, <2>1 DEF P!Parity
  <2> HIDE DEF routes
  <2>3. P!Parity(<<r>>, <<d>>, tolerance).error = ""
    <3>1. \A error : [error |-> error, routes |-> routes].error = error
      OBVIOUS
    <3> QED BY <2>2, <3>1, Zenon
  <2> QED BY <1>3, <2>3
<1>4. CASE ~P!ResultMatches(r, d, tolerance)
  <2>1. ~P!BatchMatches(<<r>>, <<d>>, tolerance)
    BY <1>2, <1>4
  <2>2. P!Parity(<<r>>, <<d>>, tolerance) =
          [ error |-> "Mismatch", first_mismatch_index |-> P!FirstMismatch(<<r>>, <<d>>, tolerance),
            reference_len |-> Len(<<r>>), candidate_len |-> Len(<<d>>) ]
    BY <1>1, <2>1 DEF P!Parity
  <2> QED BY <1>4, <2>2
<1> QED BY <1>3, <1>4

\* A batch of two beside the batch of one it continues differs where that ends.
LEMMA ParityOfUnequal ==
  ASSUME NEW r \in Result, NEW d \in Result, P!ResultMatches(r, d, Epsilon)
  PROVE  /\ P!Parity(<<r>> \o <<d>>, <<d>>, Epsilon).first_mismatch_index = 1
         /\ P!Parity(<<d>>, <<r>> \o <<d>>, Epsilon).first_mismatch_index = 1
<1> DEFINE two == <<r>> \o <<d>>
           one == <<d>>
<1>1. two # None /\ one # None /\ Len(two) = 2 /\ Len(one) = 1 /\ two[1] = r /\ one[1] = d
  <2>1. two \in Seq(Result) /\ one \in Seq(Result)
    OBVIOUS
  <2>2. Len(two) = 2 /\ Len(one) = 1 /\ two[1] = r /\ one[1] = d
    OBVIOUS
  <2> HIDE DEF two, one
  <2> QED BY <2>1, <2>2, NoneAssumption
<1>2. P!ResultMatches(two[1], one[1], Epsilon) /\ P!ResultMatches(one[1], two[1], Epsilon)
  BY <1>1, ResultsMatch
<1>3. ~P!BatchMatches(two, one, Epsilon) /\ ~P!BatchMatches(one, two, Epsilon)
  BY <1>1 DEF P!BatchMatches
<1>4. P!FirstMismatch(two, one, Epsilon) = 1 /\ P!FirstMismatch(one, two, Epsilon) = 1
  <2>1. 1..1 = {1}
    OBVIOUS
  <2>2. /\ {i \in 1..1 : ~P!ResultMatches(two[i], one[i], Epsilon)} = {}
        /\ {i \in 1..1 : ~P!ResultMatches(one[i], two[i], Epsilon)} = {}
    BY <1>2, <2>1
  <2> QED BY <1>1, <2>2 DEF P!FirstMismatch
<1>5. /\ P!Parity(two, one, Epsilon) =
           [ error |-> "Mismatch", first_mismatch_index |-> P!FirstMismatch(two, one, Epsilon),
             reference_len |-> Len(two), candidate_len |-> Len(one) ]
      /\ P!Parity(one, two, Epsilon) =
           [ error |-> "Mismatch", first_mismatch_index |-> P!FirstMismatch(one, two, Epsilon),
             reference_len |-> Len(one), candidate_len |-> Len(two) ]
  BY <1>1, <1>3 DEF P!Parity
<1>6. /\ P!Parity(two, one, Epsilon).first_mismatch_index = 1
      /\ P!Parity(one, two, Epsilon).first_mismatch_index = 1
  BY <1>4, <1>5
<1> QED BY <1>6 DEF one, two

-----------------------------------------------------------------------------
(* The kernel beside the CPU. *)

LEMMA RoundedFacts ==
  ASSUME NEW a \in Int, NEW b, RoundsTo(a, b)
  PROVE  /\ b \in Int /\ a - Epsilon <= b /\ b <= a + Epsilon
         /\ b \in NaN <=> a \in NaN
         /\ a < Infinity => b < Infinity
<1>1. Epsilon \in Nat /\ Infinity \in Int /\ Infinity \notin NaN
  BY EpsilonAssumption, DistanceAssumption
<1>2. CASE a \in NaN \cup {Infinity}
  BY <1>1, <1>2 DEF RoundsTo
<1>3. CASE a \notin NaN \cup {Infinity}
  BY <1>1, <1>3 DEF RoundsTo
<1> QED BY <1>2, <1>3

\* If every distance is clear of the least, or the table is exact, what is less in
\* the CPU's table is less in the kernel's.
LEMMA LessWhenRounded ==
  ASSUME NEW sort \in Sort, NEW a \in Candidate, NEW b \in Candidate,
         NEW x \in Candidate, NEW y \in Candidate,
         RoundedAs(a, x), RoundedAs(b, y),
         \/ x = a /\ y = b /\ ~Less(b, a, sort) /\ a.agent_id # b.agent_id
         \/ Key(b, sort) > Key(a, sort) + 2 * Epsilon
  PROVE  Key(y, sort) \in NaN \/ Less(x, y, sort)
<1>1. RoundsTo(Key(a, sort), Key(x, sort)) /\ RoundsTo(Key(b, sort), Key(y, sort))
  BY DEF RoundedAs, Key
<1>2. /\ Key(a, sort) \in Int /\ Key(b, sort) \in Int /\ Epsilon \in Nat
      /\ a.agent_id \in Nat /\ b.agent_id \in Nat
  BY EpsilonAssumption DEF Key, Candidate
<1>3. CASE x = a /\ y = b /\ ~Less(b, a, sort) /\ a.agent_id # b.agent_id
  BY <1>2, <1>3 DEF Less
<1>4. CASE Key(b, sort) > Key(a, sort) + 2 * Epsilon
  <2>1. /\ Key(x, sort) \in Int /\ Key(x, sort) <= Key(a, sort) + Epsilon
        /\ Key(y, sort) \in Int /\ Key(b, sort) - Epsilon <= Key(y, sort)
    BY <1>1, <1>2, RoundedFacts
  <2>2. Key(x, sort) < Key(y, sort)
    BY <1>2, <1>4, <2>1
  <2> QED BY <2>2 DEF Less
<1> QED BY <1>3, <1>4

\* The kernel chooses the CPU's agent.
LEMMA ChoosesTheSame ==
  ASSUME TypeOK, k = 1, DistinctIds, Comparable, NEW table \in KernelTables,
         table = scanned \/ Clear, Usable # {}, Chosen[1].effective \notin NaN
  PROVE  \E w \in Usable : Chosen[1] = scanned[w] /\ HoldsBest(Kernel(table), table[w])
<1>1. PICK w \in Usable : /\ Chosen[1] = scanned[w]
                          /\ \A j \in Usable : ~Less(scanned[j], scanned[w], "Available")
  BY ChosenFacts
<1>2. /\ table \in Seq(Candidate) /\ Len(table) = Len(scanned)
      /\ \A i \in 1..Len(scanned) : RoundedAs(scanned[i], table[i])
  BY TableFacts
<1>3. \A i \in 1..Len(scanned) : scanned[i] \in Candidate /\ table[i] \in Candidate
  BY <1>2, Typing
<1>4. \A i \in 1..Len(scanned) :
        /\ table[i].available = scanned[i].available
        /\ table[i].effective \in NaN <=> scanned[i].effective \in NaN
  BY <1>2, <1>3, RoundedFacts DEF RoundedAs, Candidate
<1>5. w \in 1..Len(table) /\ table[w].available /\ table[w].effective \notin NaN
  BY <1>1, <1>2, <1>4 DEF Usable
<1>6. \A i \in 1..Len(table) :
        table[i].available /\ (\A j \in 1..Len(table) : table[j].available => i <= j) =>
          table[i].effective \notin NaN
  BY <1>2, <1>4 DEF Comparable, Usable
<1>7. ASSUME NEW j \in 1..Len(table), table[j].available, j # w
      PROVE  table[j].effective \in NaN \/ Less(table[w], table[j], "Available")
  <2>1. j \in Usable /\ j \in 1..Len(scanned) /\ w \in 1..Len(scanned)
    BY <1>2, <1>4, <1>5, <1>7 DEF Usable
  <2>2. scanned[j].agent_id # scanned[w].agent_id
    BY <1>7, <2>1 DEF DistinctIds
  <2>3. \/ table[w] = scanned[w] /\ table[j] = scanned[j]
        \/ scanned[j].effective > scanned[w].effective + 2 * Epsilon
    BY <1>1, <2>1, <2>2 DEF Clear
  <2>4. ~Less(scanned[j], scanned[w], "Available") /\ "Available" \in Sort
    BY <1>1, <2>1 DEF Sort
  <2>5. \A c : Key(c, "Available") = c.effective
    BY DEF Key
  <2>6. RoundedAs(scanned[w], table[w]) /\ RoundedAs(scanned[j], table[j])
    BY <1>2, <2>1
  <2>7. Key(table[j], "Available") \in NaN \/ Less(table[w], table[j], "Available")
    BY <1>3, <2>1, <2>2, <2>3, <2>4, <2>5, <2>6, LessWhenRounded
  <2> QED BY <2>5, <2>7
<1>8. HoldsBest(Kernel(table), table[w])
  BY <1>2, <1>5, <1>6, <1>7, KernelFindsBest
<1> QED BY <1>1, <1>8

\* And sees the same agent nearest.
LEMMA SeesTheSame ==
  ASSUME TypeOK, k = 1, scanned # <<>>, DistinctIds, Comparable, NEW table \in KernelTables,
         table = scanned \/ Clear
  PROVE  Kernel(table).observed_available = Nearest.available
<1>1. PICK q \in 1..Len(scanned) :
        /\ Nearest = scanned[q]
        /\ \A j \in 1..Len(scanned) : ~Less(scanned[j], scanned[q], "Observed")
  BY NearestFacts
<1>2. /\ table \in Seq(Candidate) /\ Len(table) = Len(scanned)
      /\ \A i \in 1..Len(scanned) : RoundedAs(scanned[i], table[i])
  BY TableFacts
<1>3. \A i \in 1..Len(scanned) : scanned[i] \in Candidate /\ table[i] \in Candidate
  BY <1>2, Typing
<1>4. q \in 1..Len(table) /\ table[q].base \notin NaN /\ table[q].base < Infinity
  <2>1. RoundsTo(scanned[q].base, table[q].base) /\ scanned[q].base \in Int
    BY <1>2, <1>3 DEF RoundedAs, Candidate
  <2>2. scanned[q].base < Infinity /\ scanned[q].base \notin NaN
    BY <1>1 DEF Comparable
  <2> QED BY <1>2, <2>1, <2>2, RoundedFacts
<1>5. ASSUME NEW j \in 1..Len(table), j # q
      PROVE  table[j].base \in NaN \/ Less(table[q], table[j], "Observed")
  <2>1. j \in 1..Len(scanned)
    BY <1>2
  <2>2. scanned[j].agent_id # scanned[q].agent_id
    BY <1>5, <2>1 DEF DistinctIds
  <2>3. \/ table[q] = scanned[q] /\ table[j] = scanned[j]
        \/ scanned[j].base > scanned[q].base + 2 * Epsilon
    BY <1>1, <2>1, <2>2 DEF Clear
  <2>4. ~Less(scanned[j], scanned[q], "Observed") /\ "Observed" \in Sort
    BY <1>1, <2>1 DEF Sort
  <2>5. \A c : Key(c, "Observed") = c.base
    BY DEF Key
  <2>6. RoundedAs(scanned[q], table[q]) /\ RoundedAs(scanned[j], table[j])
    BY <1>2, <2>1
  <2>7. Key(table[j], "Observed") \in NaN \/ Less(table[q], table[j], "Observed")
    BY <1>3, <2>1, <2>2, <2>3, <2>4, <2>5, <2>6, LessWhenRounded
  <2> QED BY <2>5, <2>7
<1>6. Kernel(table).observed_available = table[q].available
  BY <1>2, <1>4, <1>5, KernelObserves
<1> QED BY <1>1, <1>2, <1>6 DEF RoundedAs

\* An answer's candidates, the fallback after them if they are not near enough.
WithFallback(found, far) == IF far THEN Append(found, FallbackCandidate) ELSE found

\* Matching lists match with the fallback after them.
LEMMA FallbacksMatch ==
  ASSUME TypeOK, NEW a \in Seq(Candidate), NEW b \in Seq(Candidate), NEW far \in BOOLEAN,
         P!ListMatches(a, b, Epsilon)
  PROVE  P!ListMatches(WithFallback(a, far), WithFallback(b, far), Epsilon)
<1> DEFINE x == Append(a, FallbackCandidate)
           y == Append(b, FallbackCandidate)
<1>1. FallbackCandidate \in Candidate
  BY Typing
<1>2. P!CandidateMatches(FallbackCandidate, FallbackCandidate, Epsilon)
  <2>1. Infinity \in Int /\ Infinity \notin NaN
    BY DistanceAssumption
  <2>2. P!Same(Infinity, Infinity, Epsilon)
    BY <2>1, SameFacts DEF RoundsTo
  <2>3. FallbackCandidate.base = Infinity /\ FallbackCandidate.effective = Infinity
    BY DEF FallbackCandidate
  <2> QED BY <2>2, <2>3 DEF P!CandidateMatches
<1>3. Len(a) = Len(b) /\ \A i \in 1..Len(a) : P!CandidateMatches(a[i], b[i], Epsilon)
  BY DEF P!ListMatches
<1>4. /\ Len(x) = Len(a) + 1 /\ Len(y) = Len(b) + 1 /\ Len(a) \in Nat
      /\ x[Len(a) + 1] = FallbackCandidate /\ y[Len(b) + 1] = FallbackCandidate
      /\ \A i \in 1..Len(a) : x[i] = a[i]
      /\ \A i \in 1..Len(b) : y[i] = b[i]
  BY <1>1
<1> HIDE DEF x, y
<1>5. \A i \in 1..Len(x) : i = Len(a) + 1 \/ i \in 1..Len(a)
  BY <1>4
<1>6. P!ListMatches(x, y, Epsilon)
  BY <1>2, <1>3, <1>4, <1>5 DEF P!ListMatches
<1> QED BY <1>6 DEF WithFallback, x, y

\* The CPU's answer, for any table: it ranks as its choice does.
LEMMA CpuAnswer ==
  ASSUME ScanInv, result # None, k = 1
  PROVE  /\ result \in Result /\ scanned # <<>>
         /\ result.debug = None <=> ~debug
         /\ \E found \in Seq(Candidate) :
              /\ Len(found) = Len(Chosen)
              /\ Chosen # <<>> =>
                   /\ found[1].agent_id = Chosen[1].agent_id
                   /\ found[1].effective = Chosen[1].effective
              /\ result.used_fallback = (found = <<>> \/ TooFar(found[1]))
              /\ result.candidates = WithFallback(found, result.used_fallback)
<1> DEFINE found == Sorted(available.held, "Available")
           all == Sorted(observed.held, "Observed")
           far == found = <<>> \/ TooFar(found[1])
<1>1. TypeOK /\ result \in Result /\ result = Select /\ scanned # <<>>
  BY DEF ScanInv, TypeOK
<1>2. found \in Seq(Candidate) /\ all \in Seq(Candidate)
  <2>1. available.held \in Seq(Candidate) /\ observed.held \in Seq(Candidate)
    BY <1>1 DEF TypeOK, Accumulator
  <2>2. \A s \in Seq(Candidate) : 1..Len(s) \in SUBSET (1..Len(s))
    OBVIOUS
  <2> QED BY <2>1, <2>2, InOrderFacts DEF Sorted
<1>3. Rank(found, "Available") = Rank(Chosen, "Available") /\ Chosen \in Seq(Candidate)
  BY <1>1, ChosenFacts, ScanHoldsTheBest DEF HoldsTheBest
<1>4. result = [ candidates        |-> IF far THEN Append(found, FallbackCandidate) ELSE found,
                 used_fallback     |-> far,
                 ideal_unavailable |-> all # <<>> /\ ~all[1].available,
                 debug             |-> IF debug THEN all ELSE None ]
  BY <1>1 DEF Select
<1> HIDE DEF found, all
<1>5. Len(found) = Len(Chosen)
  <2>1. DOMAIN Rank(found, "Available") = 1..Len(found)
        /\ DOMAIN Rank(Chosen, "Available") = 1..Len(Chosen)
    BY DEF Rank
  <2>2. Len(found) \in Nat /\ Len(Chosen) \in Nat
    BY <1>2, <1>3
  <2> QED BY <1>3, <2>1, <2>2
<1>6. Chosen # <<>> =>
        /\ found[1].agent_id = Chosen[1].agent_id
        /\ found[1].effective = Chosen[1].effective
  <2> SUFFICES ASSUME Chosen # <<>>
               PROVE  /\ found[1].agent_id = Chosen[1].agent_id
                      /\ found[1].effective = Chosen[1].effective
    OBVIOUS
  <2>1. 1 \in 1..Len(Chosen) /\ 1 \in 1..Len(found)
    BY <1>2, <1>3, <1>5
  <2>2. Rank(found, "Available")[1] = <<found[1].effective, found[1].agent_id>>
        /\ Rank(Chosen, "Available")[1] = <<Chosen[1].effective, Chosen[1].agent_id>>
    BY <2>1 DEF Rank, Key
  <2> QED BY <1>3, <2>2
<1> HIDE DEF far
<1>7. /\ result.used_fallback = far
      /\ result.candidates = WithFallback(found, far)
      /\ result.debug = IF debug THEN all ELSE None
  BY <1>4 DEF WithFallback
<1>8. result.debug = None <=> ~debug
  <2>1. all # None
    BY <1>2, NoneAssumption
  <2> QED BY <1>7, <2>1
<1> QED BY <1>1, <1>2, <1>5, <1>6, <1>7, <1>8 DEF far

\* The answer decoded from the kernel's registers.
Decoded(r) ==
  [agent_id |-> r.best, base |-> r.base, effective |-> r.effective, available |-> TRUE]

LEMMA CudaAnswer ==
  ASSUME TypeOK, NEW r \in Registers
  PROVE  /\ Decode(r).debug = None
         /\ Decode(r).ideal_unavailable = ~r.observed_available
         /\ r.best = 0 =>
              /\ Decode(r).used_fallback = TRUE
              /\ Decode(r).candidates = WithFallback(<<>>, TRUE)
         /\ r.best # 0 =>
              /\ Decode(r).used_fallback = TooFar(Decoded(r))
              /\ Decode(r).candidates = WithFallback(<<Decoded(r)>>, TooFar(Decoded(r)))
<1> DEFINE found == IF r.best = 0 THEN <<>> ELSE << Decoded(r) >>
           far == found = <<>> \/ TooFar(found[1])
<1>1. Decode(r) = [ candidates        |-> IF far THEN Append(found, FallbackCandidate) ELSE found,
                    used_fallback     |-> far,
                    ideal_unavailable |-> ~r.observed_available,
                    debug             |-> None ]
  BY DEF Decode, Decoded
<1>2. r.best = 0 => found = <<>> /\ far = TRUE
  OBVIOUS
<1>3. r.best # 0 => found = <<Decoded(r)>> /\ far = TooFar(Decoded(r))
  <2>1. \A c : <<c>> # <<>> /\ <<c>>[1] = c
    OBVIOUS
  <2>2. TooFar(Decoded(r)) \in BOOLEAN
    BY DEF TooFar
  <2> QED BY <2>1, <2>2
<1> HIDE DEF found, far
<1>4. /\ Decode(r).candidates = WithFallback(found, far) /\ Decode(r).used_fallback = far
      /\ Decode(r).ideal_unavailable = ~r.observed_available /\ Decode(r).debug = None
  BY <1>1 DEF WithFallback
<1> QED BY <1>2, <1>3, <1>4

\* The chosen candidate matches what the kernel makes of it, and is as far.
LEMMA ChoiceMatches ==
  ASSUME TypeOK, NEW c \in Scannable, NEW d \in Candidate, RoundedAs(c, d),
         c.available, c.effective \notin NaN,
         d = c \/ c.base + Epsilon <= radius \/ c.base - Epsilon > radius
  PROVE  /\ P!CandidateMatches(c, d, Epsilon)
         /\ TooFar(c) = TooFar(d)
<1>1. /\ c \in Candidate /\ c.base \in Int /\ c.effective \in Int /\ d.base \in Int
      /\ d.effective \in Int /\ radius \in Int /\ Epsilon \in Nat
  BY ScannableAssumption, DistanceAssumption, EpsilonAssumption DEF TypeOK, Candidate
<1>2. c.base \notin NaN
  BY NumberAssumption
<1>3. /\ d.agent_id = c.agent_id /\ d.available = c.available
      /\ RoundsTo(c.base, d.base) /\ RoundsTo(c.effective, d.effective)
  BY DEF RoundedAs
<1>4. P!Same(c.base, d.base, Epsilon) /\ P!Same(c.effective, d.effective, Epsilon)
  BY <1>1, <1>2, <1>3, SameFacts
<1>5. TooFar(c) = TooFar(d)
  <2>1. d.base \notin NaN /\ c.base - Epsilon <= d.base /\ d.base <= c.base + Epsilon
    BY <1>1, <1>2, <1>3, RoundedFacts
  <2>2. CASE d = c
    BY <2>2
  <2>3. CASE c.base + Epsilon <= radius
    <3>1. ~(c.base > radius) /\ ~(d.base > radius)
      BY <1>1, <2>1, <2>3
    <3> QED BY <3>1 DEF TooFar
  <2>4. CASE c.base - Epsilon > radius
    <3>1. c.base > radius /\ d.base > radius
      BY <1>1, <2>1, <2>4
    <3> QED BY <1>2, <2>1, <2>4, <3>1 DEF TooFar
  <2> QED BY <2>2, <2>3, <2>4
<1> QED BY <1>3, <1>4, <1>5 DEF P!CandidateMatches

\* On every table that leaves no decision to rounding the results match.
LEMMA BackendsAgree ==
  ASSUME ScanInv, result # None, k = 1, ~debug, DistinctIds, Comparable,
         NEW table \in KernelTables, table = scanned \/ Clear,
         Chosen = <<>> \/ (Chosen[1].agent_id # 0 /\ Chosen[1].effective \notin NaN)
  PROVE  P!ResultMatches(result, Decode(Kernel(table)), Epsilon)
<1> DEFINE r == Kernel(table)
           d == Decode(r)
<1>1. /\ TypeOK /\ scanned # <<>> /\ result.debug = None
      /\ table \in Seq(Candidate) /\ Len(table) = Len(scanned)
      /\ \A i \in 1..Len(scanned) : RoundedAs(scanned[i], table[i])
  BY CpuAnswer, TableFacts DEF ScanInv
<1>2. r \in Registers
  BY <1>1, DecodedIsResult
<1>3. /\ result.candidates = WithFallback(Chosen, result.used_fallback)
      /\ result.used_fallback = (Chosen = <<>> \/ TooFar(Chosen[1]))
      /\ result.ideal_unavailable = ~Nearest.available
  <2>1. Chosen = Ranked(Usable, "Available") /\ Nearest = Sorted(scanned, "Observed")[1]
    BY <1>1, ChosenFacts, NearestFacts
  <2> DEFINE near == Chosen # <<>> /\ ~TooFar(Chosen[1])
  <2>2. /\ result.candidates = IF near THEN Chosen ELSE Append(Chosen, FallbackCandidate)
        /\ result.used_fallback = ~near
        /\ result.ideal_unavailable = (k > 0 /\ ~Nearest.available)
    BY <2>1, ScanAnswersAsFullSort DEF AnswersAsFullSort
  <2>3. (~near) = (Chosen = <<>> \/ TooFar(Chosen[1]))
    BY DEF TooFar
  <2> HIDE DEF near
  <2>4. result.candidates = WithFallback(Chosen, ~near)
    BY <2>2 DEF WithFallback
  <2>5. Nearest.available \in BOOLEAN
    <3>1. PICK q \in 1..Len(scanned) : Nearest = scanned[q]
      BY <1>1, NearestFacts
    <3>2. scanned[q] \in Candidate
      BY <1>1, Typing
    <3> QED BY <3>1, <3>2 DEF Candidate
  <2> QED BY <2>2, <2>3, <2>4, <2>5
<1>4. d.ideal_unavailable = result.ideal_unavailable /\ d.debug = result.debug
  <2>1. r.observed_available = Nearest.available
    BY <1>1, SeesTheSame
  <2>2. d.ideal_unavailable = ~r.observed_available /\ d.debug = None
    BY <1>1, <1>2, CudaAnswer
  <2> HIDE DEF r, d
  <2> QED BY <1>1, <1>3, <2>1, <2>2
<1>5. /\ result.used_fallback = d.used_fallback
      /\ P!ListMatches(result.candidates, d.candidates, Epsilon)
  <2>1. CASE Usable = {}
    <3>1. \A i \in 1..Len(table) : ~table[i].available
      BY <1>1, <2>1 DEF Usable, RoundedAs
    <3>2. r.best = 0
      BY <1>1, <3>1, KernelFindsNone
    <3>3. d.used_fallback = TRUE /\ d.candidates = WithFallback(<<>>, TRUE)
      BY <1>1, <1>2, <3>2, CudaAnswer
    <3>4. Chosen = <<>>
      BY <1>1, <2>1, ChosenFacts
    <3>5. P!ListMatches(<<>>, <<>>, Epsilon) /\ <<>> \in Seq(Candidate)
      BY DEF P!ListMatches
    <3>6. P!ListMatches(WithFallback(<<>>, TRUE), WithFallback(<<>>, TRUE), Epsilon)
      BY <1>1, <3>5, FallbacksMatch
    <3> HIDE DEF d, r
    <3>7. result.used_fallback = TRUE
      BY <1>3, <3>4
    <3> QED BY <1>3, <3>3, <3>4, <3>6, <3>7
  <2>2. CASE Usable # {}
    <3>1. Len(Chosen) = 1 /\ Chosen \in Seq(Candidate) /\ Chosen # <<>>
      BY <1>1, <2>2, ChosenFacts
    <3> DEFINE c == Chosen[1]
    <3>2. c.agent_id # 0 /\ c.effective \notin NaN
      BY <3>1
    <3>3. PICK w \in Usable : c = scanned[w] /\ HoldsBest(r, table[w])
      BY <1>1, <2>2, <3>2, ChoosesTheSame
    <3>4. /\ w \in 1..Len(scanned) /\ c.available /\ c \in Scannable
          /\ RoundedAs(c, table[w]) /\ table[w] \in Candidate
      <4>1. w \in 1..Len(scanned) /\ scanned[w].available
        BY DEF Usable
      <4>2. scanned \in Seq(Scannable)
        BY <1>1 DEF TypeOK
      <4>3. scanned[w] \in Scannable /\ RoundedAs(scanned[w], table[w])
        BY <1>1, <4>1, <4>2
      <4>4. table[w] \in Candidate
        BY <4>3 DEF RoundedAs
      <4> HIDE DEF c
      <4> QED BY <3>3, <4>1, <4>3, <4>4
    <3>5. Decoded(r) = table[w]
      <4>1. table[w].available = TRUE
        BY <3>4 DEF RoundedAs, Candidate
      <4> HIDE DEF r
      <4> QED BY <3>3, <3>4, <4>1 DEF Decoded, HoldsBest, Candidate
    <3>6. r.best # 0
      <4> HIDE DEF r
      <4> QED BY <3>2, <3>3, <3>4 DEF HoldsBest, RoundedAs
    <3>7. d.used_fallback = TooFar(table[w])
          /\ d.candidates = WithFallback(<<table[w]>>, TooFar(table[w]))
      BY <1>1, <1>2, <3>5, <3>6, CudaAnswer
    <3>8. table[w] = c \/ c.base + Epsilon <= radius \/ c.base - Epsilon > radius
      BY <3>1, <3>3 DEF Clear
    <3>9. P!CandidateMatches(c, table[w], Epsilon) /\ TooFar(c) = TooFar(table[w])
      BY <1>1, <3>2, <3>4, <3>8, ChoiceMatches
    <3> HIDE DEF r, d
    <3>10. P!ListMatches(Chosen, <<table[w]>>, Epsilon)
      <4>1. Len(Chosen) = Len(<<table[w]>>) /\ <<table[w]>>[1] = table[w]
        BY <3>1
      <4>2. 1..Len(Chosen) = {1}
        BY <3>1
      <4> QED BY <3>9, <4>1, <4>2 DEF P!ListMatches
    <3>11. TooFar(c) \in BOOLEAN /\ <<table[w]>> \in Seq(Candidate)
      BY <3>4 DEF TooFar
    <3>12. result.used_fallback = TooFar(c)
      BY <1>3, <3>1, <3>11
    <3>13. P!ListMatches(WithFallback(Chosen, TooFar(c)), WithFallback(<<table[w]>>, TooFar(c)), Epsilon)
      BY <1>1, <3>1, <3>10, <3>11, FallbacksMatch
    <3> QED BY <1>3, <3>7, <3>9, <3>12, <3>13
  <2> QED BY <2>1, <2>2
<1>6. P!DebugMatches(result.debug, d.debug, Epsilon)
  <2> HIDE DEF d
  <2> QED BY <1>1, <1>4 DEF P!DebugMatches
<1> HIDE DEF d
<1>7. P!ResultMatches(result, d, Epsilon)
  BY <1>4, <1>5, <1>6 DEF P!ResultMatches
<1> QED BY <1>7 DEF d

\* An answer of agent 0, one whose distance is not a number, and debug information
\* make the results differ.
LEMMA BackendsDiffer ==
  ASSUME ScanInv, result # None, k = 1, NEW table \in KernelTables,
         \/ debug
         \/ ~(Chosen = <<>> \/ (Chosen[1].agent_id # 0 /\ Chosen[1].effective \notin NaN))
  PROVE  ~P!ResultMatches(result, Decode(Kernel(table)), Epsilon)
<1> SUFFICES ASSUME P!ResultMatches(result, Decode(Kernel(table)), Epsilon) PROVE FALSE
  OBVIOUS
<1> DEFINE r == Kernel(table)
           d == Decode(r)
<1>1. TypeOK /\ r \in Registers /\ d \in Result
  BY TableFacts, DecodedIsResult DEF ScanInv
<1>2. d.debug = None
  BY <1>1, CudaAnswer
<1>3. /\ result.used_fallback = d.used_fallback
      /\ P!ListMatches(result.candidates, d.candidates, Epsilon)
      /\ P!DebugMatches(result.debug, d.debug, Epsilon)
  BY DEF P!ResultMatches
<1>4. ~debug
  <2>1. result.debug = None
    BY <1>2, <1>3 DEF P!DebugMatches
  <2> QED BY <2>1, CpuAnswer
<1>5. /\ Chosen # <<>> /\ Chosen \in Seq(Candidate)
      /\ Chosen[1].agent_id = 0 \/ Chosen[1].effective \in NaN
  BY <1>1, <1>4, ChosenFacts
<1>6. PICK found \in Seq(Candidate) :
        /\ Len(found) = Len(Chosen)
        /\ Chosen # <<>> =>
             /\ found[1].agent_id = Chosen[1].agent_id
             /\ found[1].effective = Chosen[1].effective
        /\ result.used_fallback = (found = <<>> \/ TooFar(found[1]))
        /\ result.candidates = WithFallback(found, result.used_fallback)
  BY CpuAnswer
<1> DEFINE far == result.used_fallback
<1>7. /\ Len(found) \in Nat /\ Len(found) >= 1 /\ found[1] \in Candidate
      /\ found[1].agent_id = 0 \/ found[1].effective \in NaN
  BY <1>5, <1>6
<1>8. /\ result.candidates \in Seq(Candidate) /\ result.candidates[1] = found[1]
      /\ Len(result.candidates) = IF far THEN Len(found) + 1 ELSE Len(found)
  <2>1. FallbackCandidate \in Candidate
    BY <1>1, Typing
  <2>2. CASE far
    <3> HIDE DEF far
    <3>1. result.candidates = Append(found, FallbackCandidate)
      BY <1>6, <2>2 DEF WithFallback, far
    <3> QED BY <1>7, <2>1, <2>2, <3>1
  <2>3. CASE ~far
    BY <1>6, <1>7, <2>3 DEF WithFallback
  <2> QED BY <2>2, <2>3
<1>9. /\ Len(result.candidates) = Len(d.candidates)
      /\ P!CandidateMatches(result.candidates[1], d.candidates[1], Epsilon)
  <2>1. 1 \in 1..Len(result.candidates)
    BY <1>7, <1>8
  <2> QED BY <1>3, <2>1 DEF P!ListMatches
<1>10. d.candidates \in Seq(Candidate) /\ d.candidates[1] \in Candidate
  <2>1. d.candidates \in Seq(Candidate)
    BY <1>1 DEF Result
  <2> HIDE DEF d
  <2>2. 1 \in 1..Len(d.candidates)
    BY <1>7, <1>8, <1>9
  <2> QED BY <2>1, <2>2
<1>11. found[1].effective \notin NaN
  <2>1. P!Same(found[1].effective, d.candidates[1].effective, Epsilon)
    BY <1>8, <1>9 DEF P!CandidateMatches
  <2>2. found[1].effective \in Int /\ d.candidates[1].effective \in Int
    BY <1>7, <1>10 DEF Candidate
  <2> QED BY <2>1, <2>2, SameFacts
<1>12. found[1].agent_id = 0 /\ d.candidates[1].agent_id = 0
  BY <1>7, <1>8, <1>9, <1>11 DEF P!CandidateMatches
<1>13. CASE r.best = 0
  <2>1. d.used_fallback = TRUE /\ d.candidates = WithFallback(<<>>, TRUE)
    BY <1>1, <1>13, CudaAnswer
  <2> HIDE DEF d
  <2>2. Len(d.candidates) = 1
    BY <2>1 DEF WithFallback
  <2>3. far
    BY <1>3, <2>1
  <2>4. Len(result.candidates) = Len(found) + 1
    BY <1>8, <2>3
  <2>5. Len(result.candidates) = 1
    BY <1>9, <2>2
  <2> DEFINE n == Len(found)
             m == Len(result.candidates)
  <2>6. n \in Nat /\ n >= 1 /\ m = n + 1 /\ m = 1
    BY <1>7, <2>4, <2>5
  <2> HIDE DEF n, m
  <2> QED BY <2>6
<1>14. CASE r.best # 0
  <2>1. d.candidates = WithFallback(<<Decoded(r)>>, TooFar(Decoded(r)))
    BY <1>1, <1>14, CudaAnswer
  <2> HIDE DEF d, r
  <2>2. d.candidates[1] = Decoded(r)
    BY <2>1 DEF WithFallback
  <2>3. Decoded(r).agent_id = r.best
    BY DEF Decoded
  <2> QED BY <1>12, <1>14, <2>2, <2>3
<1> QED BY <1>13, <1>14

\* Without a batch of the GPU there is nothing to compare.
LEMMA ParityOfNone ==
  ASSUME NEW r \in Result, NEW tolerance
  PROVE  P!Parity(<<r>>, None, tolerance).error = "CandidateRoute"
<1>1. <<r>> # None
  <2>1. <<r>> \in Seq(Result)
    OBVIOUS
  <2> QED BY <2>1, NoneAssumption
<1>2. P!Parity(<<r>>, None, tolerance) = [error |-> "CandidateRoute"]
  BY <1>1 DEF P!Parity
<1> QED BY <1>2

LEMMA ErrorsDiffer == "Mismatch" # "" /\ "CandidateRoute" # ""
OBVIOUS

LEMMA ScanMeetsCuda ==
  ScanInv => CudaAgreesWithCpu
<1> SUFFICES ASSUME ScanInv, result # None, NEW table \in KernelTables
             PROVE  LET cuda == CudaBatch(table)
                        parity == P!Parity(<<result>>, cuda, Epsilon)
                        sound == Chosen = <<>> \/ (Chosen[1].agent_id # 0 /\ Chosen[1].effective \notin NaN)
                    IN /\ k # 1 => parity.error = "CandidateRoute"
                       /\ k = 1 /\ ~debug /\ DistinctIds /\ Comparable /\ sound /\ (table = scanned \/ Clear)
                            => parity.error = ""
                       /\ k = 1 /\ (debug \/ ~sound) => parity.error = "Mismatch"
                       /\ P!Parity(<<result>>, cuda, None).error = "" => parity.error = ""
                       /\ parity.error = "" =>
                            /\ P!Parity(<<result>> \o cuda, cuda, Epsilon).first_mismatch_index = 1
                            /\ P!Parity(cuda, <<result>> \o cuda, Epsilon).first_mismatch_index = 1
  BY DEF CudaAgreesWithCpu
<1> DEFINE d == Decode(Kernel(table))
           cuda == CudaBatch(table)
           parity == P!Parity(<<result>>, cuda, Epsilon)
           exact == P!Parity(<<result>>, cuda, None)
           sound == Chosen = <<>> \/ (Chosen[1].agent_id # 0 /\ Chosen[1].effective \notin NaN)
           same == P!ResultMatches(result, d, Epsilon)
<1>1. result \in Result /\ d \in Result
  BY TableFacts, DecodedIsResult DEF ScanInv, TypeOK
<1>2. k # 1 => parity.error = "CandidateRoute" /\ exact.error = "CandidateRoute"
  BY <1>1, ParityOfNone DEF CudaBatch, Validated
<1>3. k = 1 => cuda = <<d>>
  BY DEF CudaBatch, Validated
<1>4. k = 1 => parity.error = IF same THEN "" ELSE "Mismatch"
  BY <1>1, <1>3, ParityOfOne
<1>5. k = 1 /\ ~debug /\ DistinctIds /\ Comparable /\ sound /\ (table = scanned \/ Clear) => same
  BY BackendsAgree
<1>6. k = 1 /\ (debug \/ ~sound) => ~same
  BY BackendsDiffer
<1>7. k = 1 /\ exact.error = "" => same
  <2>1. k = 1 => exact.error = IF P!ResultMatches(result, d, None) THEN "" ELSE "Mismatch"
    BY <1>1, <1>3, ParityOfOne
  <2>2. P!ResultMatches(result, d, None) => same
    BY <1>1, ResultsMatch
  <2> HIDE DEF d, exact, same
  <2> QED BY <2>1, <2>2, ErrorsDiffer
<1>8. k = 1 /\ same =>
        /\ P!Parity(<<result>> \o cuda, cuda, Epsilon).first_mismatch_index = 1
        /\ P!Parity(cuda, <<result>> \o cuda, Epsilon).first_mismatch_index = 1
  BY <1>1, <1>3, ParityOfUnequal
<1> HIDE DEF d, cuda, parity, exact, sound, same
<1>9. k # 1 => parity.error # "" /\ exact.error # ""
  BY <1>2, ErrorsDiffer
<1>10. parity.error = "" => k = 1 /\ same
  BY <1>4, <1>9, ErrorsDiffer
<1>11. exact.error = "" => parity.error = ""
  BY <1>4, <1>7, <1>9
<1>12. /\ k # 1 => parity.error = "CandidateRoute"
       /\ k = 1 /\ ~debug /\ DistinctIds /\ Comparable /\ sound /\ (table = scanned \/ Clear)
            => parity.error = ""
       /\ k = 1 /\ (debug \/ ~sound) => parity.error = "Mismatch"
  BY <1>2, <1>4, <1>5, <1>6
<1> QED BY <1>8, <1>10, <1>11, <1>12 DEF cuda, parity, exact, sound

\* Whatever the table, and however the kernel's distances are rounded within the
\* tolerance, the parity check passes where < orders the table as the CPU does and
\* rounding decides nothing; it is not passed by an answer of agent 0, a distance that
\* is not a number, or debug information; and it finds a batch that is cut short.
THEOREM CudaAgrees == Spec => []CudaAgreesWithCpu
BY ScanMeetsCuda, ScanInvariant, PTL
===============================================================================
