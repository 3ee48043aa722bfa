--------------------------- MODULE AlgorithmProofs ---------------------------
(***************************************************************************)
(* What is proved of the algorithms: the signals of the three rules agree  *)
(* with every table of prices, the loops of market_data_sync.py compute    *)
(* what CoverageRanges says, for every request, calendar and set of        *)
(* coverage rows, what the providers' checks accept fits the tables, the   *)
(* pages of the stock directory show every stock once, AShareHub's pages   *)
(* make whole batches, the chunks of a document hold all its text, and     *)
(* hours and charts are made of exactly the prices they show.              *)
(***************************************************************************)
EXTENDS MCAlgorithms, FiniteSetTheorems, SequenceTheorems, TLAPS

-----------------------------------------------------------------------------
(* Finite sets of dates *)

\* Of the sets in a nonempty family of subsets of a finite set, one is minimal.
LEMMA MinimalSet ==
  ASSUME NEW S, IsFiniteSet(S), NEW F, F \subseteq SUBSET S, F # {}
  PROVE  \E X \in F : \A Y \in F : Y \subseteq X => Y = X
<1>1. FiniteSubsetsOf(S) = SUBSET S
  BY FS_FiniteSubsetsOfFinite
<1>2. IsWellFoundedOn(StrictSubsetOrdering(S), SUBSET S)
  BY <1>1, FS_StrictSubsetOrderingWellFounded
<1>3. PICK X \in F : \A Y \in F : ~ (<<Y, X>> \in StrictSubsetOrdering(S))
  BY <1>2, WFMin
<1>4. ASSUME NEW Y \in F, Y \subseteq X PROVE Y = X
  BY <1>3, <1>4 DEF StrictSubsetOrdering
<1> QED BY <1>4

IsDates(S) == IsFiniteSet(S) /\ S \subseteq Int

\* A nonempty finite set of dates has an earliest one and a latest one.
LEMMA EarliestDate ==
  ASSUME NEW S, IsDates(S), S # {}
  PROVE  \E m \in S : \A n \in S : m <= n
<1> DEFINE UpTo(n) == {x \in S : x <= n}
           F == {UpTo(n) : n \in S}
<1>1. F \subseteq SUBSET S /\ F # {}
  OBVIOUS
<1>2. PICK X \in F : \A Y \in F : Y \subseteq X => Y = X
  <2>1. F \subseteq SUBSET S
    OBVIOUS
  <2>2. F # {}
    OBVIOUS
  <2>3. IsFiniteSet(S)
    BY DEF IsDates
  <2> HIDE DEF F, UpTo
  <2> QED BY <2>1, <2>2, <2>3, MinimalSet
<1>3. PICK m \in S : X = UpTo(m)
  OBVIOUS
<1>4. ASSUME NEW n \in S, n < m PROVE FALSE
  <2>1. m \in Int /\ n \in Int
    BY DEF IsDates
  <2>2. ASSUME NEW x \in UpTo(n) PROVE x \in UpTo(m)
    <3>1. x \in Int /\ x \in S /\ x <= n
      BY DEF IsDates
    <3> QED BY <1>4, <2>1, <3>1
  <2>3. UpTo(n) = UpTo(m)
    BY <2>2, <1>2, <1>3
  <2>4. m \in UpTo(m)
    BY <2>1
  <2> QED BY <2>1, <2>3, <2>4, <1>4
<1>5. m \in Int /\ \A n \in S : n \in Int
  BY DEF IsDates
<1> QED BY <1>4, <1>5

LEMMA LatestDate ==
  ASSUME NEW S, IsDates(S), S # {}
  PROVE  \E m \in S : \A n \in S : n <= m
<1> DEFINE From(n) == {x \in S : n <= x}
           F == {From(n) : n \in S}
<1>1. F \subseteq SUBSET S /\ F # {}
  OBVIOUS
<1>2. PICK X \in F : \A Y \in F : Y \subseteq X => Y = X
  <2>1. F \subseteq SUBSET S
    OBVIOUS
  <2>2. F # {}
    OBVIOUS
  <2>3. IsFiniteSet(S)
    BY DEF IsDates
  <2> HIDE DEF F, From
  <2> QED BY <2>1, <2>2, <2>3, MinimalSet
<1>3. PICK m \in S : X = From(m)
  OBVIOUS
<1>4. ASSUME NEW n \in S, m < n PROVE FALSE
  <2>1. m \in Int /\ n \in Int
    BY DEF IsDates
  <2>2. ASSUME NEW x \in From(n) PROVE x \in From(m)
    <3>1. x \in Int /\ x \in S /\ n <= x
      BY DEF IsDates
    <3> QED BY <1>4, <2>1, <3>1
  <2>3. From(n) = From(m)
    BY <2>2, <1>2, <1>3
  <2>4. m \in From(m)
    BY <2>1
  <2> QED BY <2>1, <2>3, <2>4, <1>4
<1>5. m \in Int /\ \A n \in S : n \in Int
  BY DEF IsDates
<1> QED BY <1>4, <1>5

-----------------------------------------------------------------------------
(* Sums over sets of dates *)

Naturals(prices, dates, field) == \A d \in dates : prices[d][field] \in Nat

\* The sums of all subsets, each one price more than another.
First(s) == CHOOSE x \in s : TRUE
PartialSums(prices, field, S, g) ==
  /\ g \in [SUBSET S -> Nat] /\ g[{}] = 0
  /\ \A s \in SUBSET S : s # {} => g[s] = prices[First(s)][field] + g[s \ {First(s)}]

\* Two such functions agree where both are defined.
LEMMA PartialSumsAgree ==
  ASSUME NEW S, NEW R, NEW prices, NEW field, NEW f, NEW g, IsFiniteSet(R),
         PartialSums(prices, field, S, f), PartialSums(prices, field, R, g), R \subseteq S
  PROVE  f[R] = g[R]
<1> DEFINE F == {q \in SUBSET R : f[q] # g[q]}
<1>1. SUFFICES ASSUME F # {} PROVE FALSE
  OBVIOUS
<1>2. PICK q \in F : \A p \in F : p \subseteq q => p = q
  <2>1. F \subseteq SUBSET R
    OBVIOUS
  <2> HIDE DEF F
  <2> QED BY <1>1, <2>1, MinimalSet
<1>3. q \in SUBSET S /\ q \in SUBSET R /\ f[q] # g[q] /\ q # {}
  BY DEF PartialSums
<1> DEFINE p == q \ {First(q)}
<1>4. First(q) \in q /\ p \in SUBSET R /\ p # q
  BY <1>3 DEF First
<1>5. f[p] = g[p]
  BY <1>2, <1>4
<1>6. f[q] = prices[First(q)][field] + f[p] /\ g[q] = prices[First(q)][field] + g[p]
  BY <1>3 DEF PartialSums
<1> QED BY <1>3, <1>5, <1>6

\* There is such a function for every finite set of dates.
LEMMA PartialSumsExist ==
  ASSUME NEW S, NEW prices, NEW field, IsFiniteSet(S), Naturals(prices, S, field)
  PROVE  \E g : PartialSums(prices, field, S, g)
<1> DEFINE Bad == {T \in SUBSET S : ~\E g : PartialSums(prices, field, T, g)}
<1>1. SUFFICES ASSUME Bad # {} PROVE FALSE
  OBVIOUS
<1>2. PICK T \in Bad : \A R \in Bad : R \subseteq T => R = T
  <2>1. Bad \subseteq SUBSET S
    OBVIOUS
  <2> HIDE DEF Bad
  <2> QED BY <1>1, <2>1, MinimalSet
<1> DEFINE I(s) == CHOOSE g : PartialSums(prices, field, s, g)
           Below(s) == I(s \ {First(s)})[s \ {First(s)}]
           G == [s \in SUBSET T |->
                   IF s = {} THEN 0
                   ELSE IF s = T THEN prices[First(s)][field] + Below(s) ELSE I(s)[s]]
<1>3. ASSUME NEW s \in SUBSET T, s # T PROVE PartialSums(prices, field, s, I(s))
  <2>1. s \notin Bad /\ s \in SUBSET S
    BY <1>2, <1>3
  <2>2. \E g : PartialSums(prices, field, s, g)
    BY <2>1
  <2> QED BY <2>2
<1> HIDE DEF I
<1>4. ASSUME NEW r \in SUBSET T, r # T PROVE G[r] = I(r)[r] /\ I(r)[r] \in Nat
  <2>1. PartialSums(prices, field, r, I(r))
    BY <1>3, <1>4
  <2>2. I(r)[r] \in Nat /\ (r = {} => I(r)[r] = 0)
    BY <2>1 DEF PartialSums
  <2> QED BY <2>2, <1>4
<1>5. ASSUME NEW s \in SUBSET T, s # {}
      PROVE  G[s] \in Nat /\ G[s] = prices[First(s)][field] + G[s \ {First(s)}]
  <2> DEFINE r == s \ {First(s)}
  <2>1. First(s) \in s /\ r \in SUBSET T /\ r # T /\ First(s) \in S
    BY <1>5 DEF First
  <2>2. prices[First(s)][field] \in Nat
    BY <2>1 DEF Naturals
  <2>3. G[r] = I(r)[r] /\ I(r)[r] \in Nat
    BY <2>1, <1>4
  <2>4. CASE s = T
    <3>1. G[s] = prices[First(s)][field] + I(r)[r]
      BY <1>5, <2>4
    <3> HIDE DEF G, r
    <3> QED BY <2>2, <2>3, <3>1 DEF r
  <2>5. CASE s # T
    <3>1. G[s] = I(s)[s]
      BY <2>5, <1>4
    <3>2. PartialSums(prices, field, s, I(s)) /\ PartialSums(prices, field, r, I(r))
      BY <2>1, <2>5, <1>3
    <3>3. I(s)[s] = prices[First(s)][field] + I(s)[r]
      BY <1>5, <3>2 DEF PartialSums
    <3>4. r \subseteq s /\ r \subseteq S
      OBVIOUS
    <3> HIDE DEF r
    <3>5. IsFiniteSet(r)
      BY <3>4, FS_Subset
    <3>6. I(s)[r] = I(r)[r]
      BY <3>2, <3>4, <3>5, PartialSumsAgree
    <3> HIDE DEF G
    <3> QED BY <2>2, <2>3, <3>1, <3>3, <3>6 DEF r
  <2> QED BY <2>4, <2>5
<1>6. G[{}] = 0
  OBVIOUS
<1>7. G = [s \in SUBSET T |-> G[s]]
  OBVIOUS
<1> HIDE DEF G
<1>8. G \in [SUBSET T -> Nat]
  <2>1. ASSUME NEW s \in SUBSET T PROVE G[s] \in Nat
    <3>1. CASE s = {}
      BY <1>6, <3>1
    <3>2. CASE s # {}
      BY <1>5, <3>2
    <3> QED BY <3>1, <3>2
  <2> QED BY <1>7, <2>1
<1>9. PartialSums(prices, field, T, G)
  BY <1>5, <1>6, <1>8 DEF PartialSums
<1> QED BY <1>2, <1>9

\* A sum of the model is one of these.
LEMMA SumIsPartial ==
  ASSUME NEW S, NEW prices, NEW field, NEW g, IsFiniteSet(S),
         PartialSums(prices, field, S, g)
  PROVE  WindowSum(prices, S, field) = g[S]
<1> DEFINE Sums(f) == f = [s \in SUBSET S |->
                             IF s = {} THEN 0
                             ELSE prices[CHOOSE x \in s : TRUE][field]
                                    + f[s \ {CHOOSE x \in s : TRUE}]]
           f == CHOOSE f : Sums(f)
<1>1. WindowSum(prices, S, field) = f[S]
  BY DEF WindowSum, MapThenSumSet, MapThenFoldSet
<1>2. Sums(g)
  <2>1. ASSUME NEW s \in SUBSET S, s # {}
        PROVE  g[s] = prices[First(s)][field] + g[s \ {First(s)}]
    BY <2>1 DEF PartialSums
  <2>2. g[{}] = 0 /\ g = [s \in SUBSET S |-> g[s]]
    BY DEF PartialSums
  <2>3. [s \in SUBSET S |-> g[s]]
        = [s \in SUBSET S |-> IF s = {} THEN 0 ELSE prices[First(s)][field] + g[s \ {First(s)}]]
    BY <2>1, <2>2
  <2> QED BY <2>2, <2>3 DEF First
<1>3. Sums(f)
  <2> HIDE DEF Sums
  <2> QED BY <1>2
<1>4. ASSUME NEW s \in SUBSET S
      PROVE  f[s] = IF s = {} THEN 0 ELSE prices[First(s)][field] + f[s \ {First(s)}]
  <2> HIDE DEF f
  <2> QED BY <1>3 DEF First
<1> HIDE DEF f, Sums
<1> DEFINE F == {q \in SUBSET S : f[q] # g[q]}
<1>5. SUFFICES ASSUME F # {} PROVE FALSE
  BY <1>1
<1>6. PICK q \in F : \A p \in F : p \subseteq q => p = q
  <2>1. F \subseteq SUBSET S
    OBVIOUS
  <2> HIDE DEF F
  <2> QED BY <1>5, <2>1, MinimalSet
<1>7. q \in SUBSET S /\ f[q] # g[q] /\ q # {}
  BY <1>4 DEF PartialSums
<1> DEFINE p == q \ {First(q)}
<1>8. First(q) \in q /\ p \in SUBSET S /\ p # q
  BY <1>7 DEF First
<1>9. f[p] = g[p]
  BY <1>6, <1>8
<1>10. f[q] = prices[First(q)][field] + f[p]
  BY <1>4, <1>7
<1>11. g[q] = prices[First(q)][field] + g[p]
  BY <1>7 DEF PartialSums
<1> HIDE DEF p
<1> QED BY <1>7, <1>9, <1>10, <1>11

\* A sum of no prices is zero, and any other is one price more than a smaller sum.
LEMMA SumStep ==
  ASSUME NEW S, NEW prices, NEW field, IsFiniteSet(S), Naturals(prices, S, field)
  PROVE  /\ WindowSum(prices, S, field) \in Nat
         /\ S = {} => WindowSum(prices, S, field) = 0
         /\ S # {} => \E x \in S : WindowSum(prices, S, field)
                                    = prices[x][field] + WindowSum(prices, S \ {x}, field)
<1>1. ASSUME NEW R, R \subseteq S
      PROVE  \E g : PartialSums(prices, field, R, g) /\ WindowSum(prices, R, field) = g[R]
  <2>1. IsFiniteSet(R) /\ Naturals(prices, R, field)
    BY <1>1, FS_Subset DEF Naturals
  <2>2. PICK g : PartialSums(prices, field, R, g)
    BY <2>1, PartialSumsExist
  <2>3. WindowSum(prices, R, field) = g[R]
    BY <2>1, <2>2, SumIsPartial
  <2> QED BY <2>2, <2>3
<1>2. PICK g : PartialSums(prices, field, S, g) /\ WindowSum(prices, S, field) = g[S]
  BY <1>1
<1>3. g[S] \in Nat /\ g[{}] = 0
  BY <1>2 DEF PartialSums
<1>4. ASSUME S # {}
      PROVE  \E x \in S : WindowSum(prices, S, field)
                           = prices[x][field] + WindowSum(prices, S \ {x}, field)
  <2> DEFINE x == First(S)
             R == S \ {x}
  <2>1. x \in S /\ R \subseteq S
    BY <1>4 DEF First
  <2>2. PICK f : PartialSums(prices, field, R, f) /\ WindowSum(prices, R, field) = f[R]
    BY <1>1, <2>1
  <2>3. f[R] = g[R]
    <3>1. IsFiniteSet(R)
      BY <2>1, FS_Subset
    <3> HIDE DEF R, x
    <3> QED BY <1>2, <2>1, <2>2, <3>1, PartialSumsAgree
  <2>4. g[S] = prices[x][field] + g[R]
    BY <1>2, <1>4 DEF PartialSums
  <2> HIDE DEF x
  <2> QED BY <1>2, <2>1, <2>2, <2>3, <2>4
<1> QED BY <1>2, <1>3, <1>4

\* A sum of zeros is zero.
LEMMA SumOfZeros ==
  ASSUME NEW S, NEW prices, NEW field, IsFiniteSet(S), \A d \in S : prices[d][field] = 0
  PROVE  WindowSum(prices, S, field) = 0
<1> DEFINE F == {R \in SUBSET S : WindowSum(prices, R, field) # 0}
<1>1. SUFFICES ASSUME F # {} PROVE FALSE
  OBVIOUS
<1>2. PICK R \in F : \A Q \in F : Q \subseteq R => Q = R
  <2>1. F \subseteq SUBSET S
    OBVIOUS
  <2> HIDE DEF F
  <2> QED BY <1>1, <2>1, MinimalSet
<1>3. R \subseteq S /\ WindowSum(prices, R, field) # 0
  OBVIOUS
<1>4. Naturals(prices, R, field) /\ IsFiniteSet(R)
  BY <1>3, FS_Subset DEF Naturals
<1>5. R # {}
  BY <1>3, <1>4, SumStep
<1>6. PICK x \in R : WindowSum(prices, R, field)
                      = prices[x][field] + WindowSum(prices, R \ {x}, field)
  BY <1>4, <1>5, SumStep
<1>7. WindowSum(prices, R \ {x}, field) = 0
  <2>1. R \ {x} \in SUBSET S /\ R \ {x} # R /\ R \ {x} \subseteq R
    BY <1>3
  <2> QED BY <1>2, <2>1
<1>8. prices[x][field] = 0
  BY <1>3
<1> QED BY <1>3, <1>6, <1>7, <1>8

\* Prices that all exceed w when multiplied also do so on average.
LEMMA SumExceeds ==
  ASSUME NEW S, NEW prices, NEW field, IsFiniteSet(S), Naturals(prices, S, field), S # {},
         NEW m \in Nat, NEW w \in Nat, \A d \in S : m * prices[d][field] > w
  PROVE  m * WindowSum(prices, S, field) > w * Cardinality(S)
<1> DEFINE Above(R) == m * WindowSum(prices, R, field) > w * Cardinality(R)
           F == {R \in SUBSET S : R # {} /\ ~Above(R)}
<1>1. SUFFICES ASSUME F # {} PROVE FALSE
  OBVIOUS
<1>2. PICK R \in F : \A Q \in F : Q \subseteq R => Q = R
  <2>1. F \subseteq SUBSET S
    OBVIOUS
  <2> HIDE DEF F
  <2> QED BY <1>1, <2>1, MinimalSet
<1>3. R \subseteq S /\ R # {} /\ ~Above(R)
  OBVIOUS
<1>4. Naturals(prices, R, field) /\ IsFiniteSet(R)
  BY <1>3, FS_Subset DEF Naturals
<1>5. PICK x \in R : WindowSum(prices, R, field)
                      = prices[x][field] + WindowSum(prices, R \ {x}, field)
  BY <1>3, <1>4, SumStep
<1> DEFINE Q == R \ {x}
<1>6. Q \subseteq S /\ Q # R /\ Q \subseteq R /\ R = Q \cup {x} /\ x \notin Q
  BY <1>3
<1>7. Naturals(prices, Q, field) /\ IsFiniteSet(Q)
  BY <1>4, <1>6, FS_Subset DEF Naturals
<1>8. prices[x][field] \in Nat /\ m * prices[x][field] > w
  BY <1>3, <1>4 DEF Naturals
<1>9. Q # {} => Above(Q)
  BY <1>2, <1>6
<1> HIDE DEF Q
<1> DEFINE s == WindowSum(prices, Q, field)
           p == prices[x][field]
           n == Cardinality(Q)
<1>10. s \in Nat /\ p \in Nat /\ n \in Nat /\ Cardinality(R) = n + 1
  <2>1. s \in Nat
    BY <1>7, SumStep
  <2>2. n \in Nat
    BY <1>7, FS_CardinalityType
  <2>3. Cardinality(R) = n + 1
    BY <1>6, <1>7, FS_AddElement
  <2> QED BY <1>8, <2>1, <2>2, <2>3
<1>11. WindowSum(prices, R, field) = p + s
  BY <1>5 DEF Q
<1>12. m * s >= w * n
  <2>1. CASE Q = {}
    <3>1. s = 0 /\ n = 0
      BY <1>7, <2>1, SumStep, FS_EmptySet
    <3> QED BY <3>1
  <2>2. CASE Q # {}
    <3>1. m * s > w * n
      BY <1>9, <2>2
    <3>2. m * s \in Int /\ w * n \in Int
      BY <1>10
    <3> QED BY <3>1, <3>2
  <2> QED BY <2>1, <2>2
<1>13. ~(m * (p + s) > w * (n + 1))
  BY <1>3, <1>10, <1>11
<1>14. m * p > w
  BY <1>8
<1> HIDE DEF s, p, n
<1>15. m * (p + s) = m * p + m * s /\ w * (n + 1) = w * n + w
  BY <1>10
<1>16. m * p \in Int /\ m * s \in Int /\ w * n \in Int
  BY <1>10
<1> QED BY <1>12, <1>13, <1>14, <1>15, <1>16

-----------------------------------------------------------------------------
(* Row numbers *)

From(T, d) == {e \in T : e >= d}

LEMMA DatesAreIntegers == ASSUME NEW T, IsDates(T), NEW d \in T PROVE d \in Int
BY DEF IsDates

LEMMA SomeDates ==
  ASSUME NEW T, IsDates(T), NEW R, R \subseteq T
  PROVE  IsDates(R) /\ Cardinality(R) \in Nat /\ Cardinality(T) \in Nat
         /\ Cardinality(R) <= Cardinality(T)
<1>1. IsFiniteSet(T) /\ T \subseteq Int
  BY DEF IsDates
<1>2. IsFiniteSet(R) /\ Cardinality(R) <= Cardinality(T)
  BY <1>1, FS_Subset
<1>3. R \subseteq Int
  BY <1>1
<1> QED BY <1>1, <1>2, <1>3, FS_CardinalityType DEF IsDates

LEMMA RowNumberType ==
  ASSUME NEW T, IsDates(T), NEW d
  PROVE  /\ row_number(T, d) \in Nat /\ row_number(T, d) = Cardinality(From(T, d))
         /\ IsDates(From(T, d)) /\ From(T, d) \subseteq T
         /\ row_number(T, d) <= Cardinality(T)
<1>1. From(T, d) \subseteq T /\ row_number(T, d) = Cardinality(From(T, d))
  BY DEF From, row_number
<1> QED BY <1>1, SomeDates

\* Earlier days have higher numbers.
LEMMA RowNumbersFall ==
  ASSUME NEW T, IsDates(T), NEW d \in T, NEW e \in T, d < e
  PROVE  row_number(T, e) < row_number(T, d)
<1>1. d \in Int /\ e \in Int /\ \A x \in T : x \in Int
  BY DEF IsDates
<1>2. From(T, e) \subseteq From(T, d) /\ d \notin From(T, e) /\ d \in From(T, d)
  <2>1. ~(d >= e) /\ d >= d
    BY <1>1
  <2>2. ASSUME NEW x \in T, x >= e PROVE x >= d
    BY <1>1, <2>2
  <2> QED BY <2>1, <2>2 DEF From
<1>3. IsFiniteSet(From(T, d))
  BY RowNumberType DEF IsDates
<1>4. Cardinality(From(T, e)) <= Cardinality(From(T, d))
      /\ Cardinality(From(T, e)) # Cardinality(From(T, d))
  BY <1>2, <1>3, FS_Subset
<1>5. row_number(T, e) \in Nat /\ row_number(T, e) = Cardinality(From(T, e))
  BY RowNumberType
<1>6. row_number(T, d) \in Nat /\ row_number(T, d) = Cardinality(From(T, d))
  BY RowNumberType
<1> QED BY <1>4, <1>5, <1>6

\* The last day has number one, and each day one more than the next.
LEMMA LastRowNumber ==
  ASSUME NEW T, IsDates(T), NEW d \in T, \A e \in T : e <= d
  PROVE  row_number(T, d) = 1
<1>1. \A x \in T : x \in Int
  BY DEF IsDates
<1>2. From(T, d) = {d}
  <2>1. ASSUME NEW e \in T, e >= d PROVE e = d
    BY <1>1, <2>1
  <2>2. d >= d
    BY <1>1
  <2> QED BY <2>1, <2>2 DEF From
<1> QED BY <1>2, FS_Singleton, RowNumberType

LEMMA NextRowNumber ==
  ASSUME NEW T, IsDates(T), NEW d \in T, NEW e \in T, d < e, \A x \in T : x <= d \/ e <= x
  PROVE  row_number(T, d) = row_number(T, e) + 1
<1>1. \A x \in T : x \in Int
  BY DEF IsDates
<1>2. From(T, d) = From(T, e) \cup {d} /\ d \notin From(T, e)
  BY <1>1 DEF From
<1>3. IsFiniteSet(From(T, e))
  BY RowNumberType DEF IsDates
<1>4. Cardinality(From(T, d)) = Cardinality(From(T, e)) + 1
  BY <1>2, <1>3, FS_AddElement
<1> QED BY <1>4, RowNumberType

\* The next day is a later day without one in between.
LEMMA NextDate ==
  ASSUME NEW T, IsDates(T), NEW d \in T, \E e \in T : d < e
  PROVE  \E e \in T : d < e /\ \A x \in T : x <= d \/ e <= x
<1> DEFINE L == {e \in T : d < e}
<1>1. L \subseteq T /\ L # {}
  OBVIOUS
<1>2. IsDates(L)
  <2> HIDE DEF L
  <2> QED BY <1>1, SomeDates
<1>3. PICK e \in L : \A n \in L : e <= n
  <2> HIDE DEF L
  <2> QED BY <1>1, <1>2, EarliestDate
<1>4. d \in Int /\ \A x \in T : x \in Int
  BY DEF IsDates
<1>5. e \in T /\ d < e
  BY <1>3
<1>6. ASSUME NEW x \in T PROVE x <= d \/ e <= x
  BY <1>3, <1>4
<1> QED BY <1>5, <1>6

\* The previous day is an earlier day without one in between.
LEMMA PreviousDate ==
  ASSUME NEW T, IsDates(T), NEW d \in T, \E e \in T : e < d
  PROVE  \E e \in T : e < d /\ \A x \in T : x <= e \/ d <= x
<1> DEFINE L == {e \in T : e < d}
<1>1. L \subseteq T /\ L # {}
  OBVIOUS
<1>2. IsDates(L)
  <2> HIDE DEF L
  <2> QED BY <1>1, SomeDates
<1>3. PICK e \in L : \A n \in L : n <= e
  <2> HIDE DEF L
  <2> QED BY <1>1, <1>2, LatestDate
<1>4. d \in Int /\ \A x \in T : x \in Int
  BY DEF IsDates
<1>5. e \in T /\ e < d
  BY <1>3
<1>6. ASSUME NEW x \in T PROVE x <= e \/ d <= x
  BY <1>3, <1>4
<1> QED BY <1>5, <1>6

\* Every number up to that of days is some day's.
LEMMA RowNumbersOnto ==
  ASSUME NEW T, IsDates(T), NEW k \in Nat, 1 <= k, k <= Cardinality(T)
  PROVE  \E d \in T : row_number(T, d) = k
<1> DEFINE A == {d \in T : row_number(T, d) >= k}
<1>1. A \subseteq T
  OBVIOUS
<1>2. A # {}
  <2>1. T # {}
    BY FS_EmptySet
  <2>2. PICK d \in T : \A e \in T : d <= e
    BY <2>1, EarliestDate
  <2>3. From(T, d) = T
    <3>1. \A x \in T : x \in Int
      BY DEF IsDates
    <3> QED BY <2>2, <3>1 DEF From
  <2>4. row_number(T, d) = Cardinality(T)
    BY <2>3, RowNumberType
  <2> QED BY <2>4
<1>3. IsDates(A)
  <2> HIDE DEF A
  <2> QED BY <1>1, SomeDates
<1>4. PICK d \in A : \A e \in A : e <= d
  <2> HIDE DEF A
  <2> QED BY <1>2, <1>3, LatestDate
<1>5. d \in T /\ row_number(T, d) >= k
  OBVIOUS
<1>6. \A e \in T : e > d => row_number(T, e) < k
  <2> SUFFICES ASSUME NEW e \in T, e > d, ~(row_number(T, e) < k) PROVE FALSE
    OBVIOUS
  <2>1. row_number(T, e) \in Nat /\ e \in Int /\ d \in Int
    BY <1>5, RowNumberType, DatesAreIntegers
  <2>2. e \in A
    BY <2>1
  <2> QED BY <1>4, <2>1, <2>2
<1> HIDE DEF A
<1>7. CASE \E e \in T : d < e
  <2>1. PICK e \in T : d < e /\ \A x \in T : x <= d \/ e <= x
    BY <1>5, <1>7, NextDate
  <2>2. row_number(T, d) = row_number(T, e) + 1
    BY <1>5, <2>1, NextRowNumber
  <2>3. e > d /\ row_number(T, e) \in Nat
    BY <1>5, <2>1, RowNumberType, DatesAreIntegers
  <2>4. row_number(T, e) < k
    BY <1>6, <2>3
  <2> QED BY <1>5, <2>2, <2>3, <2>4
<1>8. CASE ~\E e \in T : d < e
  <2>1. \A e \in T : e <= d
    BY <1>5, <1>8, DatesAreIntegers
  <2>2. row_number(T, d) = 1
    BY <1>5, <2>1, LastRowNumber
  <2> QED BY <1>5, <2>2
<1> QED BY <1>7, <1>8

\* The days from the second last to the (n+1)-th last are n days.
LEMMA WindowSize ==
  ASSUME NEW T, IsDates(T), NEW n \in Nat, n + 1 <= Cardinality(T)
  PROVE  Cardinality(Window(T, 2, n + 1)) = n
<1>1. PICK a \in T : row_number(T, a) = n + 1
  BY RowNumbersOnto
<1>2. T # {}
  BY <1>1
<1>3. PICK b \in T : \A e \in T : e <= b
  BY <1>2, LatestDate
<1>4. row_number(T, b) = 1
  BY <1>3, LastRowNumber
<1>5. Window(T, 2, n + 1) = From(T, a) \ {b}
  <2>1. ASSUME NEW d \in T
        PROVE  row_number(T, d) \in 2 .. (n + 1) <=> (d >= a /\ d # b)
    <3>1. d \in Int /\ a \in Int /\ b \in Int /\ d <= b
      BY <1>3, DatesAreIntegers
    <3>2. row_number(T, d) \in Nat
      BY RowNumberType
    <3>3. d < a => row_number(T, a) < row_number(T, d)
      BY RowNumbersFall
    <3>4. a < d => row_number(T, d) < row_number(T, a)
      BY RowNumbersFall
    <3>5. d < b => row_number(T, b) < row_number(T, d)
      BY RowNumbersFall
    <3> QED BY <1>1, <1>4, <3>1, <3>2, <3>3, <3>4, <3>5
  <2> QED BY <2>1 DEF Window, From
<1>6. b \in From(T, a)
  <2>1. a \in Int /\ b \in Int /\ a <= b
    BY <1>3, DatesAreIntegers
  <2> QED BY <2>1 DEF From
<1>7. IsFiniteSet(From(T, a)) /\ Cardinality(From(T, a)) = n + 1
  BY <1>1, RowNumberType DEF IsDates
<1> QED BY <1>5, <1>6, <1>7, FS_RemoveElement

-----------------------------------------------------------------------------
(* The loaded history *)

\* The days of a table up to one of them.
LEMMA HistoryDates ==
  ASSUME NEW prices, IsDates(DOMAIN prices), NEW d \in DOMAIN prices
  PROVE  /\ IsDates(Through(prices, d)) /\ Through(prices, d) \subseteq DOMAIN prices
         /\ d \in Through(prices, d) /\ \A e \in Through(prices, d) : e <= d
         /\ row_number(Through(prices, d), d) = 1
<1>1. Through(prices, d) \subseteq DOMAIN prices
  BY DEF Through
<1>2. IsDates(Through(prices, d))
  BY <1>1, SomeDates
<1>3. d \in Through(prices, d) /\ \A e \in Through(prices, d) : e <= d
  <2>1. d \in Int
    BY DatesAreIntegers
  <2> QED BY <2>1 DEF Through
<1> QED BY <1>1, <1>2, <1>3, LastRowNumber

\* The last m days keep their numbers.
LEMMA LoadedRowNumbers ==
  ASSUME NEW T, IsDates(T), NEW m \in Nat, NEW e \in Window(T, 1, m)
  PROVE  row_number(Window(T, 1, m), e) = row_number(T, e)
<1>1. e \in T /\ row_number(T, e) <= m
  BY RowNumberType DEF Window
<1>2. ASSUME NEW x \in T, x >= e PROVE x \in Window(T, 1, m)
  <2>1. x \in Int /\ e \in Int
    BY <1>1, DatesAreIntegers
  <2>2. row_number(T, x) \in Nat /\ row_number(T, e) \in Nat
    BY RowNumberType
  <2>3. row_number(T, x) <= row_number(T, e)
    <3>1. CASE x = e
      BY <2>2, <3>1
    <3>2. CASE e < x
      <4>1. row_number(T, x) < row_number(T, e)
        BY <1>1, <3>2, RowNumbersFall
      <4> QED BY <2>2, <4>1
    <3> QED BY <1>2, <2>1, <3>1, <3>2
  <2>4. row_number(T, x) # 0
    <3>1. x \in From(T, x)
      BY <2>1 DEF From
    <3>2. IsFiniteSet(From(T, x)) /\ row_number(T, x) = Cardinality(From(T, x))
      BY RowNumberType DEF IsDates
    <3> QED BY <3>1, <3>2, FS_EmptySet
  <2> QED BY <1>1, <2>2, <2>3, <2>4 DEF Window
<1>3. From(Window(T, 1, m), e) = From(T, e)
  BY <1>2 DEF From, Window
<1> QED BY <1>3 DEF row_number, From

\* So windows within them are those of all days.
LEMMA LoadedWindow ==
  ASSUME NEW T, IsDates(T), NEW m \in Nat, NEW i \in Nat, NEW j \in Nat, 1 <= i, j <= m
  PROVE  Window(Window(T, 1, m), i, j) = Window(T, i, j)
<1> DEFINE L == Window(T, 1, m)
<1>1. L \subseteq T
  BY DEF Window
<1>2. ASSUME NEW d \in Window(L, i, j) PROVE d \in Window(T, i, j)
  <2>1. d \in L /\ row_number(L, d) \in i .. j
    BY <1>2 DEF Window
  <2>2. row_number(L, d) = row_number(T, d)
    BY <2>1, LoadedRowNumbers
  <2> QED BY <1>1, <2>1, <2>2 DEF Window
<1>3. ASSUME NEW d \in Window(T, i, j) PROVE d \in Window(L, i, j)
  <2>1. d \in T /\ row_number(T, d) \in i .. j
    BY <1>3 DEF Window
  <2>2. d \in L
    BY <2>1 DEF Window
  <2>3. row_number(L, d) = row_number(T, d)
    BY <2>2, LoadedRowNumbers
  <2> QED BY <2>1, <2>2, <2>3 DEF Window
<1> QED BY <1>2, <1>3

\* And they are enough days for a rule exactly when all days are.
LEMMA LoadedCount ==
  ASSUME NEW T, IsDates(T), NEW m \in Nat, NEW k \in Nat, 1 <= k, k <= m
  PROVE  Cardinality(Window(T, 1, m)) < k <=> Cardinality(T) < k
<1> DEFINE L == Window(T, 1, m)
<1>1. L \subseteq T
  BY DEF Window
<1>2. IsDates(L) /\ Cardinality(L) \in Nat /\ Cardinality(T) \in Nat
      /\ Cardinality(L) <= Cardinality(T)
  <2> HIDE DEF L
  <2> QED BY <1>1, SomeDates
<1>3. ASSUME k <= Cardinality(T) PROVE k <= Cardinality(L)
  <2>1. PICK d \in T : row_number(T, d) = k
    BY <1>3, RowNumbersOnto
  <2>2. d \in L
    BY <2>1 DEF Window
  <2>3. row_number(L, d) = k
    BY <2>1, <2>2, LoadedRowNumbers
  <2>4. row_number(L, d) <= Cardinality(L)
    <3> HIDE DEF L
    <3> QED BY <1>2, RowNumberType
  <2> QED BY <2>3, <2>4
<1> HIDE DEF L
<1> QED BY <1>2, <1>3 DEF L

\* A largest element, as the library's Max chooses it.
LEMMA MaxIsLatest ==
  ASSUME NEW S, IsDates(S), NEW d \in S, \A e \in S : e <= d
  PROVE  Max(S) = d
<1>1. d \in Int /\ \A e \in S : e \in Int
  BY DEF IsDates
<1>2. \A e \in S : d >= e
  BY <1>1
<1>3. Max(S) \in S /\ \A e \in S : Max(S) >= e
  BY <1>2 DEF Max
<1>4. Max(S) >= d /\ Max(S) <= d /\ Max(S) \in Int
  BY <1>1, <1>3
<1> QED BY <1>1, <1>4

\* What a rule says of the loaded history it says of all days.
LEMMA VerdictOfAllDays ==
  ASSUME NEW prices, IsDates(DOMAIN prices), NEW d \in DOMAIN prices,
         NEW rule \in RULES, NEW m \in Nat, required_bars[rule] <= m
  PROVE  evaluate_rule(rule, prices, load_price_histories(prices, d, m), d)
         = evaluate_rule(rule, prices, Through(prices, d), d)
<1> USE RuleAssumption
<1> DEFINE T == Through(prices, d)
           L == load_price_histories(prices, d, m)
<1>1. IsDates(T) /\ d \in T /\ (\A e \in T : e <= d) /\ row_number(T, d) = 1
  BY HistoryDates
<1>2. L = Window(T, 1, m) /\ L \subseteq T
  BY DEF load_price_histories, Window
<1> HIDE DEF T, L
<1>3. required_bars[rule] \in Nat /\ 2 <= required_bars[rule]
  BY DEF RULES, required_bars
<1>4. d \in L /\ IsDates(L) /\ \A e \in L : e <= d
  <2>1. d \in L
    BY <1>1, <1>2, <1>3 DEF Window
  <2> QED BY <1>1, <1>2, <2>1, SomeDates
<1>5. Max(L) = d /\ Max(T) = d
  BY <1>1, <1>4, MaxIsLatest
<1>6. Cardinality(L) < required_bars[rule] <=> Cardinality(T) < required_bars[rule]
  BY <1>1, <1>2, <1>3, LoadedCount
<1>7. \A i, j \in Nat : 1 <= i /\ j <= required_bars[rule] => Window(L, i, j) = Window(T, i, j)
  <2> SUFFICES ASSUME NEW i \in Nat, NEW j \in Nat, 1 <= i, j <= required_bars[rule]
               PROVE  Window(L, i, j) = Window(T, i, j)
    OBVIOUS
  <2>1. j <= m
    BY <1>3
  <2> QED BY <1>1, <1>2, <2>1, LoadedWindow
<1>8. CASE rule = "moving_average_cross"
  <2>1. required_bars[rule] = LONG_MA_WINDOW + 1
    BY <1>8 DEF required_bars
  <2>2. /\ Window(L, 1, 1 + SHORT_MA_WINDOW - 1) = Window(T, 1, 1 + SHORT_MA_WINDOW - 1)
        /\ Window(L, 1, 1 + LONG_MA_WINDOW - 1) = Window(T, 1, 1 + LONG_MA_WINDOW - 1)
        /\ Window(L, 2, 2 + SHORT_MA_WINDOW - 1) = Window(T, 2, 2 + SHORT_MA_WINDOW - 1)
        /\ Window(L, 2, 2 + LONG_MA_WINDOW - 1) = Window(T, 2, 2 + LONG_MA_WINDOW - 1)
    BY <1>7, <2>1
  <2>3. Lead(prices, L, 1) = Lead(prices, T, 1) /\ Lead(prices, L, 2) = Lead(prices, T, 2)
    BY <2>2 DEF Lead
  <2>4. evaluate_moving_average_cross(prices, L) = evaluate_moving_average_cross(prices, T)
    BY <2>3 DEF evaluate_moving_average_cross
  <2> QED BY <1>1, <1>4, <1>6, <1>8, <2>4 DEF evaluate_rule, T, L
<1>9. CASE rule = "recent_breakout"
  <2>1. required_bars[rule] = BREAKOUT_LOOKBACK + 1
    BY <1>9 DEF required_bars
  <2>2. Window(L, 2, BREAKOUT_LOOKBACK + 1) = Window(T, 2, BREAKOUT_LOOKBACK + 1)
    BY <1>7, <2>1
  <2>3. evaluate_recent_breakout(prices, L) = evaluate_recent_breakout(prices, T)
    BY <1>5, <2>2 DEF evaluate_recent_breakout
  <2> QED BY <1>1, <1>4, <1>6, <1>9, <2>3 DEF evaluate_rule, T, L
<1>10. CASE rule = "volume_spike"
  <2>1. required_bars[rule] = VOLUME_LOOKBACK + 1
    BY <1>10 DEF required_bars
  <2>2. Window(L, 2, VOLUME_LOOKBACK + 1) = Window(T, 2, VOLUME_LOOKBACK + 1)
    BY <1>7, <2>1
  <2>3. evaluate_volume_spike(prices, L) = evaluate_volume_spike(prices, T)
    BY <1>5, <2>2 DEF evaluate_volume_spike
  <2> QED BY <1>1, <1>4, <1>6, <1>10, <2>3 DEF evaluate_rule, T, L
<1> QED BY <1>8, <1>9, <1>10 DEF RULES, required_bars

\* So the signal of a scan depends on its date only.
LEMMA ScanSays ==
  ASSUME NEW prices, IsDates(DOMAIN prices), NEW d \in DOMAIN prices,
         NEW rules, rules \subseteq RULES, NEW rule \in rules
  PROVE  run_scan(rules, prices, d)[rule] = evaluate_rule(rule, prices, Through(prices, d), d)
<1> USE RuleAssumption
<1> DEFINE S == {required_bars[r] : r \in rules}
           N == {LONG_MA_WINDOW + 1, BREAKOUT_LOOKBACK + 1, VOLUME_LOOKBACK + 1}
<1>1. S \subseteq N
  BY DEF RULES, required_bars
<1>2. IsDates(N)
  <2>1. N = (({} \cup {LONG_MA_WINDOW + 1}) \cup {BREAKOUT_LOOKBACK + 1}) \cup {VOLUME_LOOKBACK + 1}
    OBVIOUS
  <2>2. IsFiniteSet(N)
    <3> HIDE DEF N
    <3> QED BY <2>1, FS_EmptySet, FS_AddElement
  <2>3. N \subseteq Int
    OBVIOUS
  <2> QED BY <2>2, <2>3 DEF IsDates
<1>3. \A k \in N : k \in Nat
  OBVIOUS
<1>4. required_bars[rule] \in S
  OBVIOUS
<1> HIDE DEF N
<1>5. IsDates(S) /\ S # {}
  <2> HIDE DEF S
  <2> QED BY <1>1, <1>2, <1>4, SomeDates
<1>6. PICK m \in S : \A k \in S : k <= m
  <2> HIDE DEF S
  <2> QED BY <1>5, LatestDate
<1>7. m \in Nat /\ required_bars[rule] <= m
  BY <1>1, <1>3, <1>4, <1>6
<1>8. Max(S) = m
  <2> HIDE DEF S
  <2> QED BY <1>5, <1>6, MaxIsLatest
<1>9. run_scan(rules, prices, d)[rule]
      = evaluate_rule(rule, prices, load_price_histories(prices, d, m), d)
  BY <1>8 DEF run_scan
<1>10. rule \in RULES
  OBVIOUS
<1> QED BY <1>7, <1>9, <1>10, VerdictOfAllDays

-----------------------------------------------------------------------------
(* The signals *)

\* A table of daily prices: finitely many days, no close above its high.
IsPriceTable(prices) ==
  /\ IsDates(DOMAIN prices)
  /\ \A d \in DOMAIN prices :
       /\ prices[d].close \in Nat /\ prices[d].high \in Nat /\ prices[d].volume \in Nat
       /\ prices[d].close <= prices[d].high

LEMMA SignalIsVerdict ==
  ASSUME NEW prices, IsPriceTable(prices), NEW d \in DOMAIN prices, NEW rule \in RULES
  PROVE  Signal(rule, prices, d) = evaluate_rule(rule, prices, Through(prices, d), d)
<1>1. IsDates(DOMAIN prices) /\ {rule} \subseteq RULES /\ rule \in {rule}
  BY DEF IsPriceTable
<1>2. run_scan({rule}, prices, d)[rule] = evaluate_rule(rule, prices, Through(prices, d), d)
  BY <1>1, ScanSays
<1> QED BY <1>2 DEF Signal

LEMMA SelectionIrrelevant ==
  ASSUME NEW prices, IsPriceTable(prices)
  PROVE  SelectionIsIrrelevant(prices)
<1> SUFFICES ASSUME NEW d \in DOMAIN prices, NEW rules \in SUBSET RULES \ {{}}, NEW rule \in rules
             PROVE  run_scan(rules, prices, d)[rule] = Signal(rule, prices, d)
  BY DEF SelectionIsIrrelevant
<1>1. IsDates(DOMAIN prices) /\ rules \subseteq RULES /\ rule \in RULES
  BY DEF IsPriceTable
<1>2. run_scan(rules, prices, d)[rule] = evaluate_rule(rule, prices, Through(prices, d), d)
  BY <1>1, ScanSays
<1>3. Signal(rule, prices, d) = evaluate_rule(rule, prices, Through(prices, d), d)
  BY <1>1, SignalIsVerdict
<1> QED BY <1>2, <1>3

LEMMA LeadType ==
  ASSUME NEW prices, IsPriceTable(prices), NEW T, T \subseteq DOMAIN prices,
         NEW n \in Nat
  PROVE  Lead(prices, T, n) \in Int
<1> USE RuleAssumption
<1>1. IsDates(DOMAIN prices) /\ IsFiniteSet(DOMAIN prices)
  BY DEF IsPriceTable, IsDates
<1>2. ASSUME NEW i, NEW j PROVE WindowSum(prices, Window(T, i, j), "close") \in Nat
  <2>1. Window(T, i, j) \subseteq DOMAIN prices
    BY DEF Window
  <2>2. IsFiniteSet(Window(T, i, j))
    BY <1>1, <2>1, FS_Subset
  <2>3. Naturals(prices, Window(T, i, j), "close")
    BY <2>1 DEF Naturals, IsPriceTable
  <2> QED BY <2>2, <2>3, SumStep
<1> QED BY <1>2 DEF Lead

\* The days before a day are those of the day before, numbered one less.
LEMMA PreviousHistory ==
  ASSUME NEW prices, IsPriceTable(prices), NEW p \in DOMAIN prices, NEW d \in DOMAIN prices,
         p < d, \A x \in DOMAIN prices : x <= p \/ d <= x
  PROVE  /\ Cardinality(Through(prices, d)) = Cardinality(Through(prices, p)) + 1
         /\ Cardinality(Through(prices, p)) \in Nat
         /\ Lead(prices, Through(prices, d), 2) = LeadOn(prices, p)
<1> USE RuleAssumption
<1> DEFINE T == Through(prices, d)
           P == Through(prices, p)
<1>1. IsDates(DOMAIN prices)
  BY DEF IsPriceTable
<1>2. p \in Int /\ d \in Int /\ \A x \in DOMAIN prices : x \in Int
  BY <1>1 DEF IsDates
<1>3. T = P \cup {d} /\ d \notin P
  BY <1>2 DEF Through
<1>4. /\ IsDates(P) /\ \A x \in P : x <= p
      /\ IsDates(T) /\ row_number(T, d) = 1 /\ d \in T
  BY <1>1, HistoryDates
<1> HIDE DEF T, P
<1>5. Cardinality(T) = Cardinality(P) + 1 /\ Cardinality(P) \in Nat
  BY <1>3, <1>4, FS_AddElement, FS_CardinalityType DEF IsDates
<1>6. ASSUME NEW e \in P PROVE row_number(T, e) = row_number(P, e) + 1
  <2>1. e \in Int /\ e <= p
    BY <1>4, DatesAreIntegers
  <2>2. d >= e
    BY <1>2, <2>1
  <2>3. From(T, e) = From(P, e) \cup {d} /\ d \notin From(P, e)
    BY <1>3, <2>2 DEF From
  <2>4. IsFiniteSet(From(P, e)) /\ row_number(P, e) = Cardinality(From(P, e))
    BY <1>4, RowNumberType DEF IsDates
  <2>5. row_number(T, e) = Cardinality(From(T, e))
    BY <1>4, RowNumberType
  <2> QED BY <2>3, <2>4, <2>5, FS_AddElement
<1>7. ASSUME NEW i \in Nat, NEW j \in Nat, 1 <= i
      PROVE  Window(T, i + 1, j + 1) = Window(P, i, j)
  <2>1. d \notin Window(T, i + 1, j + 1)
    BY <1>4, <1>7 DEF Window
  <2>2. ASSUME NEW e \in P
        PROVE  row_number(T, e) \in (i + 1) .. (j + 1) <=> row_number(P, e) \in i .. j
    <3>1. row_number(P, e) \in Nat
      BY <1>4, RowNumberType
    <3> QED BY <1>6, <3>1
  <2> QED BY <1>3, <2>1, <2>2 DEF Window
<1>8. /\ Window(T, 2, 2 + SHORT_MA_WINDOW - 1) = Window(P, 1, 1 + SHORT_MA_WINDOW - 1)
      /\ Window(T, 2, 2 + LONG_MA_WINDOW - 1) = Window(P, 1, 1 + LONG_MA_WINDOW - 1)
  <2>1. Window(T, 1 + 1, SHORT_MA_WINDOW + 1) = Window(P, 1, SHORT_MA_WINDOW)
    BY <1>7
  <2>2. Window(T, 1 + 1, LONG_MA_WINDOW + 1) = Window(P, 1, LONG_MA_WINDOW)
    BY <1>7
  <2>3. /\ 1 + 1 = 2 /\ 2 + SHORT_MA_WINDOW - 1 = SHORT_MA_WINDOW + 1
        /\ 2 + LONG_MA_WINDOW - 1 = LONG_MA_WINDOW + 1
        /\ 1 + SHORT_MA_WINDOW - 1 = SHORT_MA_WINDOW /\ 1 + LONG_MA_WINDOW - 1 = LONG_MA_WINDOW
    OBVIOUS
  <2> QED BY <2>1, <2>2, <2>3
<1>9. Lead(prices, T, 2) = Lead(prices, P, 1)
  BY <1>8 DEF Lead
<1> QED BY <1>5, <1>9 DEF LeadOn, T, P

\* The cross of a day whose previous day has a lead.
LEMMA CrossIs ==
  ASSUME NEW prices, IsPriceTable(prices), NEW p \in Judged(prices), NEW d \in DOMAIN prices,
         p < d, \A x \in DOMAIN prices : x <= p \/ d <= x
  PROVE  Signal("moving_average_cross", prices, d)
         = CASE LeadOn(prices, p) <= 0 /\ LeadOn(prices, d) > 0 -> "above"
             [] LeadOn(prices, p) >= 0 /\ LeadOn(prices, d) < 0 -> "below"
             [] OTHER -> "not_matched"
<1> USE RuleAssumption
<1> DEFINE rule == "moving_average_cross"
           T == Through(prices, d)
<1>1. rule \in RULES /\ required_bars[rule] = LONG_MA_WINDOW + 1
  BY DEF RULES, required_bars
<1>2. Signal(rule, prices, d) = evaluate_rule(rule, prices, T, d)
  BY <1>1, SignalIsVerdict
<1>3. p \in DOMAIN prices /\ Cardinality(Through(prices, p)) >= LONG_MA_WINDOW
  BY DEF Judged
<1>4. /\ Cardinality(T) = Cardinality(Through(prices, p)) + 1
      /\ Cardinality(Through(prices, p)) \in Nat
      /\ Lead(prices, T, 2) = LeadOn(prices, p)
  BY <1>3, PreviousHistory
<1>5. d \in T
  BY HistoryDates DEF IsPriceTable
<1>6. Lead(prices, T, 1) = LeadOn(prices, d)
  BY DEF LeadOn
<1> HIDE DEF T
<1>7. ~(d \notin T \/ Cardinality(T) < required_bars[rule])
  BY <1>1, <1>3, <1>4, <1>5
<1>8. evaluate_rule(rule, prices, T, d) = evaluate_moving_average_cross(prices, T)
  BY <1>7 DEF evaluate_rule
<1> QED BY <1>2, <1>4, <1>6, <1>8 DEF evaluate_moving_average_cross

\* Days after a judged one are judged.
LEMMA JudgedStays ==
  ASSUME NEW prices, IsPriceTable(prices), NEW a \in Judged(prices), NEW d \in DOMAIN prices,
         a <= d
  PROVE  d \in Judged(prices)
<1> USE RuleAssumption
<1>1. IsDates(DOMAIN prices)
  BY DEF IsPriceTable
<1>2. a \in DOMAIN prices /\ Cardinality(Through(prices, a)) >= LONG_MA_WINDOW
  BY DEF Judged
<1>3. a \in Int /\ d \in Int /\ \A x \in DOMAIN prices : x \in Int
  BY <1>1, <1>2 DEF IsDates
<1>4. Through(prices, a) \subseteq Through(prices, d)
  BY <1>3 DEF Through
<1>5. IsDates(Through(prices, d))
  BY <1>1, HistoryDates
<1>6. /\ Cardinality(Through(prices, a)) <= Cardinality(Through(prices, d))
      /\ Cardinality(Through(prices, a)) \in Nat /\ Cardinality(Through(prices, d)) \in Nat
  BY <1>4, <1>5, SomeDates
<1>7. Cardinality(Through(prices, d)) >= LONG_MA_WINDOW
  BY <1>2, <1>6
<1> QED BY <1>7 DEF Judged

\* Between a day with a property and a later one without it, two consecutive days part.
LEMMA FirstChange ==
  ASSUME NEW prices, IsPriceTable(prices), NEW H, H \subseteq DOMAIN prices,
         NEW a \in DOMAIN prices, NEW b \in H, a < b, a \notin H
  PROVE  \E p \in DOMAIN prices \ H, d \in H :
           a <= p /\ p < d /\ d <= b /\ \A x \in DOMAIN prices : x <= p \/ d <= x
<1>1. IsDates(DOMAIN prices)
  BY DEF IsPriceTable
<1>2. a \in Int /\ b \in Int /\ \A x \in DOMAIN prices : x \in Int
  BY <1>1 DEF IsDates
<1> DEFINE L == {x \in H : a < x}
<1>3. L \subseteq DOMAIN prices /\ b \in L
  OBVIOUS
<1>4. IsDates(L)
  <2> HIDE DEF L
  <2> QED BY <1>1, <1>3, SomeDates
<1>5. PICK d \in L : \A x \in L : d <= x
  <2> HIDE DEF L
  <2> QED BY <1>3, <1>4, EarliestDate
<1>6. d \in H /\ a < d /\ d <= b /\ d \in DOMAIN prices
  BY <1>3, <1>5
<1>7. PICK p \in DOMAIN prices : p < d /\ \A x \in DOMAIN prices : x <= p \/ d <= x
  BY <1>1, <1>6, PreviousDate
<1>8. a <= p
  BY <1>2, <1>6, <1>7
<1>9. p \notin H
  <2> SUFFICES ASSUME p \in H PROVE FALSE
    OBVIOUS
  <2>1. a < p
    BY <1>2, <1>8
  <2>2. d <= p
    BY <1>5, <2>1
  <2> QED BY <1>2, <1>6, <1>7, <2>2
<1> QED BY <1>6, <1>7, <1>8, <1>9

\* A cross shows the lead of its day.
LEMMA CrossHasLead ==
  ASSUME NEW prices, IsPriceTable(prices), NEW d \in DOMAIN prices
  PROVE  /\ Signal("moving_average_cross", prices, d) = "above" => LeadOn(prices, d) > 0
         /\ Signal("moving_average_cross", prices, d) = "below" => LeadOn(prices, d) < 0
<1> DEFINE rule == "moving_average_cross"
           T == Through(prices, d)
<1>1. rule \in RULES
  BY DEF RULES, required_bars
<1>2. Signal(rule, prices, d) = evaluate_rule(rule, prices, T, d)
  BY <1>1, SignalIsVerdict
<1>3. Lead(prices, T, 1) = LeadOn(prices, d)
  BY DEF LeadOn
<1>4. T \subseteq DOMAIN prices
  BY DEF Through
<1> HIDE DEF T
<1>5. Lead(prices, T, 1) \in Int /\ Lead(prices, T, 2) \in Int
  BY <1>4, LeadType
<1>6. evaluate_rule(rule, prices, T, d)
        \in {"insufficient_data", evaluate_moving_average_cross(prices, T)}
  BY DEF evaluate_rule
<1>7. /\ evaluate_moving_average_cross(prices, T) = "above" => Lead(prices, T, 1) > 0
      /\ evaluate_moving_average_cross(prices, T) = "below" => Lead(prices, T, 1) < 0
  BY <1>5 DEF evaluate_moving_average_cross
<1> QED BY <1>2, <1>3, <1>6, <1>7

LEMMA CrossesFollow ==
  ASSUME NEW prices, IsPriceTable(prices)
  PROVE  CrossesFollowTheLead(prices)
<1> DEFINE cross(d) == Signal("moving_average_cross", prices, d)
           J == Judged(prices)
           lead(d) == LeadOn(prices, d)
<1>1. J \subseteq DOMAIN prices /\ IsDates(DOMAIN prices)
  BY DEF Judged, IsPriceTable
<1>2. \A d \in DOMAIN prices : d \in Int /\ lead(d) \in Int
  <2> SUFFICES ASSUME NEW d \in DOMAIN prices PROVE d \in Int /\ lead(d) \in Int
    OBVIOUS
  <2>1. Through(prices, d) \subseteq DOMAIN prices
    BY DEF Through
  <2> QED BY <1>1, <2>1, LeadType, DatesAreIntegers DEF LeadOn
<1>3. ASSUME NEW p \in J, NEW d \in DOMAIN prices, p < d,
             \A x \in DOMAIN prices : x <= p \/ d <= x
      PROVE  /\ d \in J
             /\ lead(p) <= 0 /\ lead(d) > 0 <=> cross(d) = "above"
             /\ lead(p) >= 0 /\ lead(d) < 0 <=> cross(d) = "below"
  <2>1. cross(d) = CASE lead(p) <= 0 /\ lead(d) > 0 -> "above"
                     [] lead(p) >= 0 /\ lead(d) < 0 -> "below"
                     [] OTHER -> "not_matched"
    BY <1>3, CrossIs
  <2>2. lead(p) \in Int /\ lead(d) \in Int /\ p \in Int /\ d \in Int
    BY <1>1, <1>2
  <2>3. p <= d
    BY <1>3, <2>2
  <2>4. d \in J
    BY <2>3, JudgedStays
  <2> HIDE DEF lead, cross
  <2> QED BY <2>1, <2>2, <2>4
<1>4. \A d \in DOMAIN prices : /\ cross(d) = "above" => lead(d) > 0
                               /\ cross(d) = "below" => lead(d) < 0
  BY CrossHasLead
<1>5. ASSUME NEW a \in J, NEW b \in J, a < b
      PROVE  \E p \in J : /\ a <= p /\ p < b
                          /\ \A x \in DOMAIN prices : x <= p \/ b <= x
  <2>1. a \in DOMAIN prices /\ b \in DOMAIN prices
    BY <1>1
  <2>2. PICK p \in DOMAIN prices : p < b /\ \A x \in DOMAIN prices : x <= p \/ b <= x
    BY <1>1, <1>5, <2>1, PreviousDate
  <2>3. a <= p
    BY <1>2, <1>5, <2>1, <2>2
  <2>4. p \in J
    BY <2>3, JudgedStays
  <2> QED BY <2>2, <2>3, <2>4
<1>6. ASSUME NEW H, H \subseteq DOMAIN prices, NEW a \in J, NEW b \in H, a < b, a \notin H
      PROVE  \E p \in J \ H, d \in J \cap H :
               /\ a <= p /\ p < d /\ d <= b /\ a < d
               /\ \A x \in DOMAIN prices : x <= p \/ d <= x
  <2>1. a \in DOMAIN prices
    BY <1>1
  <2>2. PICK p \in DOMAIN prices \ H, d \in H :
          a <= p /\ p < d /\ d <= b /\ \A x \in DOMAIN prices : x <= p \/ d <= x
    BY <1>6, <2>1, FirstChange
  <2>3. d \in DOMAIN prices
    BY <1>6
  <2>4. a \in Int /\ p \in Int /\ d \in Int
    BY <1>2, <2>1, <2>2, <2>3
  <2>5. a <= d /\ a < d
    BY <2>2, <2>4
  <2>6. p \in J /\ d \in J
    BY <2>2, <2>3, <2>5, JudgedStays
  <2> QED BY <2>2, <2>5, <2>6
<1> HIDE DEF cross, J, lead
<1>7. ASSUME NEW a \in J, NEW b \in J, a < b, lead(a) < 0, lead(b) > 0
      PROVE  \E d \in J : a < d /\ d <= b /\ cross(d) = "above"
  <2> DEFINE H == {d \in DOMAIN prices : lead(d) > 0}
  <2>1. H \subseteq DOMAIN prices /\ b \in H /\ a \notin H
    BY <1>1, <1>2, <1>7
  <2>2. \A d \in DOMAIN prices : d \in H <=> lead(d) > 0
    OBVIOUS
  <2> HIDE DEF H
  <2>3. PICK p \in J \ H, d \in J \cap H :
               /\ a <= p /\ p < d /\ d <= b /\ a < d
               /\ \A x \in DOMAIN prices : x <= p \/ d <= x
    BY <1>6, <1>7, <2>1
  <2>4. lead(p) <= 0 /\ lead(d) > 0
    BY <1>1, <1>2, <2>2, <2>3
  <2>5. cross(d) = "above"
    BY <1>1, <1>3, <2>3, <2>4
  <2> QED BY <2>3, <2>5
<1>8. ASSUME NEW a \in J, NEW b \in J, a < b, lead(a) > 0, lead(b) < 0
      PROVE  \E d \in J : a < d /\ d <= b /\ cross(d) = "below"
  <2> DEFINE H == {d \in DOMAIN prices : lead(d) < 0}
  <2>1. H \subseteq DOMAIN prices /\ b \in H /\ a \notin H
    BY <1>1, <1>2, <1>8
  <2>2. \A d \in DOMAIN prices : d \in H <=> lead(d) < 0
    OBVIOUS
  <2> HIDE DEF H
  <2>3. PICK p \in J \ H, d \in J \cap H :
               /\ a <= p /\ p < d /\ d <= b /\ a < d
               /\ \A x \in DOMAIN prices : x <= p \/ d <= x
    BY <1>6, <1>8, <2>1
  <2>4. lead(p) >= 0 /\ lead(d) < 0
    BY <1>1, <1>2, <2>2, <2>3
  <2>5. cross(d) = "below"
    BY <1>1, <1>3, <2>3, <2>4
  <2> QED BY <2>3, <2>5
<1>9. ASSUME NEW a \in J, NEW b \in J, a < b, cross(a) = "above", cross(b) = "above"
      PROVE  \E d \in J : a < d /\ d < b /\ lead(d) <= 0
  <2>1. PICK p \in J : /\ a <= p /\ p < b
                       /\ \A x \in DOMAIN prices : x <= p \/ b <= x
    BY <1>5, <1>9
  <2>2. lead(p) <= 0
    BY <1>1, <1>3, <1>9, <2>1
  <2>3. lead(a) > 0
    BY <1>1, <1>4, <1>9
  <2>4. a < p
    BY <1>1, <1>2, <2>1, <2>2, <2>3
  <2> QED BY <2>1, <2>2, <2>4
<1>10. ASSUME NEW a \in J, NEW b \in J, a < b, cross(a) = "below", cross(b) = "below"
       PROVE  \E d \in J : a < d /\ d < b /\ lead(d) >= 0
  <2>1. PICK p \in J : /\ a <= p /\ p < b
                       /\ \A x \in DOMAIN prices : x <= p \/ b <= x
    BY <1>5, <1>10
  <2>2. lead(p) >= 0
    BY <1>1, <1>3, <1>10, <2>1
  <2>3. lead(a) < 0
    BY <1>1, <1>4, <1>10
  <2>4. a < p
    BY <1>1, <1>2, <2>1, <2>2, <2>3
  <2> QED BY <2>1, <2>2, <2>4
<1> QED BY <1>7, <1>8, <1>9, <1>10 DEF CrossesFollowTheLead, J, lead, cross

\* A rule other than the crosses, when it matches.
LEMMA MatchMeans ==
  ASSUME NEW prices, IsPriceTable(prices), NEW d \in DOMAIN prices, NEW rule \in RULES,
         Signal(rule, prices, d) = "matched"
  PROVE  /\ required_bars[rule] <= Cardinality(Through(prices, d))
         /\ rule = "recent_breakout" =>
              \A e \in Window(Through(prices, d), 2, BREAKOUT_LOOKBACK + 1) :
                prices[d].close > prices[e].high
         /\ rule = "volume_spike" =>
              LET volume == WindowSum(prices, Window(Through(prices, d), 2, VOLUME_LOOKBACK + 1),
                                        "volume")
              IN volume > 0
                 /\ prices[d].volume * VOLUME_LOOKBACK >= volume * VOLUME_MULTIPLIER
<1> USE RuleAssumption
<1> DEFINE T == Through(prices, d)
<1>1. IsDates(T) /\ d \in T /\ \A e \in T : e <= d
  BY HistoryDates DEF IsPriceTable
<1>2. Signal(rule, prices, d) = evaluate_rule(rule, prices, T, d)
  BY SignalIsVerdict
<1> HIDE DEF T
<1>3. Max(T) = d
  BY <1>1, MaxIsLatest
<1>4. required_bars[rule] \in Nat /\ Cardinality(T) \in Nat
  BY <1>1, FS_CardinalityType DEF RULES, required_bars, IsDates
<1>5. ~(d \notin T \/ Cardinality(T) < required_bars[rule])
  BY <1>2 DEF evaluate_rule
<1>6. required_bars[rule] <= Cardinality(T)
  BY <1>4, <1>5
<1>7. ASSUME rule = "recent_breakout"
      PROVE  \A e \in Window(T, 2, BREAKOUT_LOOKBACK + 1) : prices[d].close > prices[e].high
  <2>1. evaluate_recent_breakout(prices, T) = "matched"
    BY <1>2, <1>5, <1>7 DEF evaluate_rule
  <2> QED BY <1>3, <2>1 DEF evaluate_recent_breakout
<1>8. ASSUME rule = "volume_spike"
      PROVE  LET volume == WindowSum(prices, Window(T, 2, VOLUME_LOOKBACK + 1), "volume")
             IN volume > 0
                /\ prices[d].volume * VOLUME_LOOKBACK >= volume * VOLUME_MULTIPLIER
  <2>1. evaluate_volume_spike(prices, T) = "matched"
    BY <1>2, <1>5, <1>8 DEF evaluate_rule
  <2> QED BY <1>3, <2>1 DEF evaluate_volume_spike
<1> QED BY <1>6, <1>7, <1>8 DEF T

LEMMA BreakoutsClimb ==
  ASSUME NEW prices, IsPriceTable(prices)
  PROVE  BreakoutsRise(prices)
<1> USE RuleAssumption
<1> SUFFICES ASSUME NEW a \in DOMAIN prices, NEW b \in DOMAIN prices,
                    a < b, Signal("recent_breakout", prices, b) = "matched",
                    row_number(Through(prices, b), a) <= BREAKOUT_LOOKBACK + 1
             PROVE  prices[a].close < prices[b].close
  BY DEF BreakoutsRise
<1> DEFINE T == Through(prices, b)
<1>1. IsDates(T) /\ b \in T /\ row_number(T, b) = 1
  BY HistoryDates DEF IsPriceTable
<1>2. a \in T
  <2>1. a \in Int /\ b \in Int
    BY DatesAreIntegers DEF IsPriceTable
  <2> QED BY <2>1 DEF Through
<1>3. "recent_breakout" \in RULES
  BY DEF RULES, required_bars
<1>4. \A e \in Window(T, 2, BREAKOUT_LOOKBACK + 1) : prices[b].close > prices[e].high
  BY <1>3, MatchMeans
<1> HIDE DEF T
<1>5. row_number(T, b) < row_number(T, a) /\ row_number(T, a) \in Nat
  BY <1>1, <1>2, RowNumbersFall, RowNumberType
<1>6. a \in Window(T, 2, BREAKOUT_LOOKBACK + 1)
  BY <1>1, <1>2, <1>5 DEF Window, T
<1>7. prices[b].close > prices[a].high
  BY <1>4, <1>6
<1>8. /\ prices[a].close \in Nat /\ prices[a].high \in Nat /\ prices[b].close \in Nat
      /\ prices[a].close <= prices[a].high
  BY DEF IsPriceTable
<1> QED BY <1>7, <1>8

LEMMA SpikesAreAbove ==
  ASSUME NEW prices, IsPriceTable(prices)
  PROVE  SpikesStandOut(prices)
<1> USE RuleAssumption
<1> SUFFICES ASSUME NEW b \in DOMAIN prices, Signal("volume_spike", prices, b) = "matched"
             PROVE  LET days == Window(Through(prices, b), 2, VOLUME_LOOKBACK + 1)
                    IN /\ \E a \in days : prices[a].volume > 0
                       /\ \E a \in days :
                            prices[b].volume >= VOLUME_MULTIPLIER * prices[a].volume
  BY DEF SpikesStandOut
<1> DEFINE T == Through(prices, b)
           W == Window(T, 2, VOLUME_LOOKBACK + 1)
           s == WindowSum(prices, W, "volume")
<1>1. "volume_spike" \in RULES /\ required_bars["volume_spike"] = VOLUME_LOOKBACK + 1
  BY DEF RULES, required_bars
<1>2. /\ VOLUME_LOOKBACK + 1 <= Cardinality(T)
      /\ s > 0 /\ prices[b].volume * VOLUME_LOOKBACK >= s * VOLUME_MULTIPLIER
  BY <1>1, MatchMeans
<1>3. IsDates(T) /\ T \subseteq DOMAIN prices
  BY HistoryDates DEF IsPriceTable
<1> HIDE DEF T
<1>4. Cardinality(W) = VOLUME_LOOKBACK
  BY <1>2, <1>3, WindowSize
<1>5. W \subseteq T
  BY DEF Window
<1> HIDE DEF W
<1>6. IsFiniteSet(W) /\ W # {}
  BY <1>3, <1>4, <1>5, FS_Subset, FS_EmptySet DEF IsDates
<1>7. \A a \in W : prices[a].volume \in Nat
  BY <1>3, <1>5 DEF IsPriceTable
<1>8. prices[b].volume \in Nat
  BY DEF IsPriceTable
<1>9. Naturals(prices, W, "volume")
  <2>1. \A a \in W : prices[a]["volume"] \in Nat
    BY <1>7
  <2> QED BY <2>1 DEF Naturals
<1>10. \E a \in W : prices[a].volume > 0
  <2> SUFFICES ASSUME ~\E a \in W : prices[a].volume > 0 PROVE FALSE
    OBVIOUS
  <2>1. \A a \in W : prices[a]["volume"] = 0
    BY <1>7
  <2>2. s = 0
    BY <1>6, <2>1, SumOfZeros
  <2> QED BY <1>2, <2>2
<1>11. \E a \in W : prices[b].volume >= VOLUME_MULTIPLIER * prices[a].volume
  <2> SUFFICES ASSUME ~\E a \in W : prices[b].volume >= VOLUME_MULTIPLIER * prices[a].volume
               PROVE  FALSE
    OBVIOUS
  <2> DEFINE w == prices[b].volume
  <2>1. \A a \in W : VOLUME_MULTIPLIER * prices[a]["volume"] > w
    <3> SUFFICES ASSUME NEW a \in W PROVE VOLUME_MULTIPLIER * prices[a].volume > w
      OBVIOUS
    <3>1. prices[a].volume \in Nat /\ VOLUME_MULTIPLIER * prices[a].volume \in Int
      BY <1>7
    <3> QED BY <1>8, <3>1
  <2>2. w \in Nat /\ VOLUME_MULTIPLIER \in Nat
    BY <1>8
  <2>3. VOLUME_MULTIPLIER * s > w * Cardinality(W)
    <3> HIDE DEF w
    <3> QED BY <1>6, <1>9, <2>1, <2>2, SumExceeds
  <2>4. s \in Nat
    BY <1>6, <1>9, SumStep
  <2>5. VOLUME_MULTIPLIER * s = s * VOLUME_MULTIPLIER /\ s * VOLUME_MULTIPLIER \in Int
        /\ w * VOLUME_LOOKBACK \in Int
    <3> HIDE DEF s, w
    <3> QED BY <2>2, <2>4
  <2> QED BY <1>2, <1>4, <2>3, <2>5
<1> QED BY <1>10, <1>11 DEF T, W

-----------------------------------------------------------------------------

\* For every table of prices, as repository.py loads it and the rules of
\* scanner/signals/rules.py read it: a verdict depends on its date alone, a change of the
\* averages' order is signalled and signalled once, breakouts rise, spikes stand out.
THEOREM TablesHaveSoundSignals ==
  ASSUME NEW prices, IsPriceTable(prices)
  PROVE  SignalsAgree(prices)
BY SelectionIrrelevant, CrossesFollow, BreakoutsClimb, SpikesAreAbove DEF SignalsAgree

\* So SignalsFollowPrices, which TLC checks on small tables, holds of every table: the
\* only thing asked of a probe is that its input is a table of prices.
THEOREM SignalsAreSound ==
  ASSUME probe[1] = "signals" => IsPriceTable(probe[2])
  PROVE  SignalsFollowPrices
BY TablesHaveSoundSignals DEF SignalsFollowPrices

-----------------------------------------------------------------------------
(* The two loops over dates *)

USE InputsAssumption

InputInv == input \in Inputs

LEMMA InputStays == Spec => []InputInv
<1>1. Init => InputInv
  BY DEF Init, InputInv
<1>2. InputInv /\ [Next]_vars => InputInv'
  BY DEF InputInv, Next, vars, VisitItem, EndOfItems, NothingMissing,
         FirstMissing, VisitIndex, LastRun
<1> QED BY <1>1, <1>2, PTL DEF Spec

-----------------------------------------------------------------------------
(* range_is_covered *)

CoverInv == CursorInv /\ CoverScanCorrect

LEMMA VisitItemInv ==
  ASSUME InputInv, CoverInv, VisitItem
  PROVE  CoverInv'
<1>1. PICK r \in items :
        /\ Earliest(r) /\ items' = items \ {r}
        /\ SkipItem(r) \/ MeetGap(r) \/ AdvanceCursor(r)
  BY DEF VisitItem
<1>2. /\ phase = "cover" /\ UNCHANGED input
      /\ input.start_date \in Nat /\ input.end_date \in Nat
      /\ \A q \in input.coverage : /\ q.start_date \in Nat /\ q.end_date \in Nat
  BY DEF VisitItem, InputInv
<1>3. /\ cursor \in Nat /\ input.start_date <= cursor /\ cursor <= input.end_date
      /\ input.start_date .. (cursor - 1) \subseteq CoveredDates(input.coverage)
      /\ items \subseteq input.coverage /\ r \in input.coverage
      /\ \A q \in input.coverage \ items : q.end_date < cursor
  BY <1>2 DEF CoverInv, CursorInv
<1>4. CASE SkipItem(r)
  BY <1>1, <1>2, <1>3, <1>4 DEF SkipItem, CoverInv, CursorInv, CoverScanCorrect
<1>5. CASE MeetGap(r)
  <2>1. \A q \in input.coverage : q.end_date < cursor \/ q.start_date > cursor
    BY <1>1, <1>2, <1>3, <1>5 DEF MeetGap, Earliest
  <2>2. cursor \notin CoveredDates(input.coverage)
    BY <1>2, <1>3, <2>1 DEF CoveredDates, Span
  <2>3. ~range_is_covered(input.coverage, input.start_date, input.end_date)
    BY <1>2, <1>3, <2>2 DEF range_is_covered
  <2> QED BY <1>2, <1>5, <2>3 DEF MeetGap, Decide, CoverInv, CursorInv, CoverScanCorrect
<1>6. CASE AdvanceCursor(r)
  <2>1. input.start_date .. r.end_date \subseteq CoveredDates(input.coverage)
    <3> SUFFICES ASSUME NEW d \in input.start_date .. r.end_date
                 PROVE  d \in CoveredDates(input.coverage)
      OBVIOUS
    <3>1. CASE d < cursor
      BY <1>2, <1>3, <3>1
    <3>2. CASE d >= cursor
      <4>1. d \in Span(r)
        BY <1>2, <1>3, <1>6, <3>2 DEF AdvanceCursor, Span
      <4> QED BY <1>3, <4>1 DEF CoveredDates
    <3> QED BY <1>2, <1>3, <3>1, <3>2
  <2>2. cursor' = r.end_date + 1 /\ cursor' \in Nat /\ cursor < cursor'
    BY <1>2, <1>3, <1>6 DEF AdvanceCursor
  <2>3. CASE cursor' > input.end_date
    <3>1. range_is_covered(input.coverage, input.start_date, input.end_date)
      BY <1>2, <1>3, <2>1, <2>2, <2>3 DEF range_is_covered
    <3>2. phase' = "done" /\ covered'
      BY <1>6, <2>2, <2>3 DEF AdvanceCursor, Decide
    <3> QED BY <1>2, <3>1, <3>2 DEF CoverInv, CursorInv, CoverScanCorrect
  <2>4. CASE ~(cursor' > input.end_date)
    <3>1. phase' = "cover"
      BY <1>2, <1>6, <2>2, <2>4 DEF AdvanceCursor
    <3>2. \A q \in input.coverage \ items' : q.end_date < cursor'
      BY <1>1, <1>2, <1>3, <2>2
    <3>3. input.start_date .. (cursor' - 1) \subseteq CoveredDates(input.coverage)
      BY <1>2, <1>3, <2>1, <2>2
    <3> QED
      BY <1>1, <1>2, <1>3, <2>2, <2>4, <3>1, <3>2, <3>3
         DEF CoverInv, CursorInv, CoverScanCorrect
  <2> QED BY <2>3, <2>4
<1> QED BY <1>1, <1>4, <1>5, <1>6

LEMMA EndOfItemsInv ==
  ASSUME InputInv, CoverInv, EndOfItems
  PROVE  CoverInv'
<1>1. /\ phase = "cover" /\ items = {} /\ UNCHANGED input
      /\ IF cursor > input.end_date THEN Decide(TRUE) ELSE Decide(FALSE)
      /\ input.start_date \in Nat /\ input.end_date \in Nat
      /\ \A q \in input.coverage : /\ q.start_date \in Nat /\ q.end_date \in Nat
  BY DEF EndOfItems, InputInv
<1>2. /\ cursor \in Nat /\ input.start_date <= cursor /\ cursor <= input.end_date
      /\ \A q \in input.coverage : q.end_date < cursor
  BY <1>1 DEF CoverInv, CursorInv
<1>3. cursor \notin CoveredDates(input.coverage)
  BY <1>1, <1>2 DEF CoveredDates, Span
<1>4. ~range_is_covered(input.coverage, input.start_date, input.end_date)
  BY <1>1, <1>2, <1>3 DEF range_is_covered
<1>5. covered' = FALSE /\ phase' = "start"
  <2>1. ~(cursor > input.end_date)
    BY <1>1, <1>2
  <2> QED BY <1>1, <2>1 DEF Decide
<1> QED BY <1>1, <1>4, <1>5 DEF CoverInv, CursorInv, CoverScanCorrect

(* range_is_covered answers TRUE exactly when every date of the request is  *)
(* in some coverage row, however the rows overlap and touch.                *)
THEOREM CoverScanIsCorrect == Spec => []CoverScanCorrect
<1>1. InputInv /\ Init => CoverInv
  BY DEF Init, InputInv, CoverInv, CursorInv, CoverScanCorrect
<1>2. InputInv /\ CoverInv /\ [Next]_vars => CoverInv'
  <2> SUFFICES ASSUME InputInv, CoverInv, [Next]_vars PROVE CoverInv'
    OBVIOUS
  <2>1. CASE NothingMissing \/ FirstMissing \/ VisitIndex \/ LastRun
    BY <2>1 DEF NothingMissing, FirstMissing, VisitIndex, LastRun,
                CoverInv, CursorInv, CoverScanCorrect
  <2>2. CASE UNCHANGED vars
    BY <2>2 DEF vars, CoverInv, CursorInv, CoverScanCorrect
  <2> QED BY <2>1, <2>2, VisitItemInv, EndOfItemsInv DEF Next
<1>3. CoverInv => CoverScanCorrect
  BY DEF CoverInv
<1> QED BY <1>1, <1>2, <1>3, InputStays, PTL DEF Spec

-----------------------------------------------------------------------------
(* group_missing_sessions *)

RunOf(a, b) == [start_date |-> open_dates[a], end_date |-> open_dates[b]]

\* The indexes a to b are missing, those just before and after are not.
MaximalRun(a, b) ==
  /\ a \in missing_indexes /\ b \in missing_indexes /\ a <= b
  /\ a .. b \subseteq missing_indexes
  /\ a - 1 \notin missing_indexes /\ b + 1 \notin missing_indexes

\* The maximal runs that end before index n.
RunsBefore(n, R) ==
  \A r : r \in R <=> \E a, b \in missing_indexes :
                       MaximalRun(a, b) /\ b < n /\ r = RunOf(a, b)
AllRuns(R) ==
  \A r : r \in R <=> \E a, b \in missing_indexes :
                       MaximalRun(a, b) /\ r = RunOf(a, b)

\* Inside the second loop: the run being built starts where a run must, is
\* missing so far, and the runs before it are in the result.
GroupInv ==
  /\ phase \in {"cover", "start"} => ranges = {}
  /\ phase = "group" =>
       /\ range_start \in missing_indexes /\ previous \in missing_indexes
       /\ range_start <= previous
       /\ range_start .. previous \subseteq missing_indexes
       /\ range_start - 1 \notin missing_indexes
       /\ indexes = {i \in missing_indexes : previous < i}
       /\ RunsBefore(range_start, ranges)
  /\ phase = "done" /\ ~covered => AllRuns(ranges)

LEMMA IndexFacts ==
  ASSUME InputInv
  PROVE  /\ missing_indexes \subseteq DOMAIN open_dates
         /\ missing_indexes \subseteq Nat \ {0}
         /\ \A i \in DOMAIN open_dates : i \in Nat \ {0} /\ open_dates[i] \in Nat
         /\ \A i, k \in DOMAIN open_dates : open_dates[i] < open_dates[k] <=> i < k
         /\ \A i, k, n : i \in DOMAIN open_dates /\ k \in DOMAIN open_dates
                           /\ n \in Int /\ i <= n /\ n <= k => n \in DOMAIN open_dates
<1>1. open_dates \in Seq(Nat) /\ Increasing(open_dates)
  BY DEF InputInv, open_dates
<1>2. \A i \in DOMAIN open_dates : i \in Nat \ {0} /\ open_dates[i] \in Nat
  BY <1>1
<1>3. \A i, k \in DOMAIN open_dates : open_dates[i] < open_dates[k] <=> i < k
  <2> SUFFICES ASSUME NEW i \in DOMAIN open_dates, NEW k \in DOMAIN open_dates
               PROVE  open_dates[i] < open_dates[k] <=> i < k
    OBVIOUS
  <2>1. i < k => open_dates[i] < open_dates[k]
    BY <1>1 DEF Increasing
  <2>2. k < i => open_dates[k] < open_dates[i]
    BY <1>1 DEF Increasing
  <2> QED BY <1>2, <2>1, <2>2
<1>4. \A i, k, n : i \in DOMAIN open_dates /\ k \in DOMAIN open_dates
                     /\ n \in Int /\ i <= n /\ n <= k => n \in DOMAIN open_dates
  BY <1>1
<1> QED BY <1>2, <1>3, <1>4 DEF missing_indexes

\* What one run of the loop closes, or the last one: no missing index lies
\* strictly between previous and n.
LEMMA CloseRun ==
  ASSUME InputInv, GroupInv, phase = "group", NEW n \in Nat, previous + 1 < n,
         \A i \in missing_indexes : i <= previous \/ n <= i
  PROVE  RunsBefore(n, ranges \cup {Run})
<1>1. missing_indexes \subseteq Nat
  BY IndexFacts
<1>2. /\ range_start \in missing_indexes /\ previous \in missing_indexes
      /\ range_start <= previous
      /\ range_start .. previous \subseteq missing_indexes
      /\ range_start - 1 \notin missing_indexes
      /\ RunsBefore(range_start, ranges)
  BY DEF GroupInv
<1>3. range_start \in Nat /\ previous \in Nat /\ previous < n /\ previous + 1 \notin missing_indexes
  <2>1. range_start \in Nat /\ previous \in Nat
    BY <1>1, <1>2
  <2>2. ASSUME previous + 1 \in missing_indexes PROVE FALSE
    <3>1. previous + 1 <= previous \/ n <= previous + 1
      BY <2>2
    <3> QED BY <2>1, <3>1
  <2> QED BY <2>1, <2>2
<1>4. MaximalRun(range_start, previous) /\ previous < n
  BY <1>2, <1>3 DEF MaximalRun
<1>5. Run = RunOf(range_start, previous)
  BY DEF Run, RunOf
<1>6. ASSUME NEW a \in missing_indexes, NEW b \in missing_indexes,
             MaximalRun(a, b), b < n, ~(b < range_start)
      PROVE  a = range_start /\ b = previous
  <2>1. a \in Nat /\ b \in Nat /\ range_start \in Nat /\ previous \in Nat
    BY <1>1, <1>2
  <2>2. b <= previous
    BY <1>6, <2>1
  <2>3. b = previous
    BY <1>2, <1>6, <2>1, <2>2 DEF MaximalRun
  <2>4. ~(a < range_start)
    BY <1>2, <1>6, <2>1 DEF MaximalRun
  <2>5. ~(range_start < a)
    BY <1>2, <1>6, <2>1, <2>3 DEF MaximalRun
  <2> QED BY <2>1, <2>3, <2>4, <2>5
<1>7. ASSUME NEW r, r \in ranges \cup {Run}
      PROVE  \E a, b \in missing_indexes :
               MaximalRun(a, b) /\ b < n /\ r = RunOf(a, b)
  <2>1. CASE r \in ranges
    <3>1. PICK a \in missing_indexes, b \in missing_indexes :
            MaximalRun(a, b) /\ b < range_start /\ r = RunOf(a, b)
      BY <1>2, <2>1 DEF RunsBefore
    <3>2. b < n
      BY <1>1, <1>2, <1>4, <3>1
    <3> QED BY <3>1, <3>2
  <2>2. CASE r = Run
    BY <1>2, <1>4, <1>5, <2>2
  <2> QED BY <1>7, <2>1, <2>2
<1>8. ASSUME NEW r, NEW a \in missing_indexes, NEW b \in missing_indexes,
             MaximalRun(a, b), b < n, r = RunOf(a, b)
      PROVE  r \in ranges \cup {Run}
  <2>1. CASE b < range_start
    BY <1>2, <1>8, <2>1 DEF RunsBefore
  <2>2. CASE ~(b < range_start)
    BY <1>5, <1>6, <1>8, <2>2
  <2> QED BY <2>1, <2>2
<1> QED BY <1>7, <1>8 DEF RunsBefore

LEMMA FirstMissingInv ==
  ASSUME InputInv, GroupInv, FirstMissing
  PROVE  GroupInv'
<1>1. PICK i \in missing_indexes :
        /\ Least(i, missing_indexes) /\ range_start' = i /\ previous' = i
        /\ indexes' = missing_indexes \ {i} /\ ranges' = ranges
  BY DEF FirstMissing
<1>2. phase' = "group" /\ ranges = {} /\ missing_indexes' = missing_indexes
  BY DEF FirstMissing, GroupInv, missing_indexes, open_dates, available
<1>3. missing_indexes \subseteq Nat
  BY IndexFacts
<1>4. \A k \in missing_indexes : i <= k
  BY <1>1 DEF Least
<1>5. \A a, b \in missing_indexes : ~(b < i)
  BY <1>3, <1>4
<1>6. RunsBefore(range_start, ranges)'
  BY <1>1, <1>2, <1>5 DEF RunsBefore
<1>7. i .. i \subseteq missing_indexes /\ i - 1 \notin missing_indexes /\ i <= i
  BY <1>3, <1>4
<1>8. \A k \in missing_indexes : i < k <=> k # i
  BY <1>3, <1>4
<1>9. missing_indexes \ {i} = {k \in missing_indexes : i < k}
  BY <1>8
<1> QED BY <1>1, <1>2, <1>6, <1>7, <1>9 DEF GroupInv

LEMMA VisitIndexInv ==
  ASSUME InputInv, GroupInv, VisitIndex
  PROVE  GroupInv'
<1>1. /\ phase = "group" /\ phase' = "group" /\ missing_indexes' = missing_indexes
      /\ UNCHANGED input
  BY DEF VisitIndex, missing_indexes, open_dates, available
<1>2. PICK i \in indexes :
        /\ Least(i, indexes) /\ indexes' = indexes \ {i} /\ previous' = i
        /\ IF i # previous + 1
           THEN ranges' = ranges \cup {Run} /\ range_start' = i
           ELSE UNCHANGED <<ranges, range_start>>
  BY DEF VisitIndex
<1>3. missing_indexes \subseteq Nat
  BY IndexFacts
<1>4. /\ range_start \in missing_indexes /\ previous \in missing_indexes
      /\ range_start <= previous
      /\ range_start .. previous \subseteq missing_indexes
      /\ range_start - 1 \notin missing_indexes
      /\ indexes = {k \in missing_indexes : previous < k}
      /\ RunsBefore(range_start, ranges)
  BY <1>1 DEF GroupInv
<1>5. /\ i \in missing_indexes /\ previous < i
      /\ \A k \in missing_indexes : k <= previous \/ i <= k
  BY <1>2, <1>3, <1>4 DEF Least
<1>6. indexes' = {k \in missing_indexes : i < k}
  <2>1. ASSUME NEW k \in missing_indexes PROVE i < k <=> previous < k /\ k # i
    <3>1. k \in Nat /\ i \in Nat /\ previous \in Nat
      BY <1>3, <1>4, <1>5
    <3>2. k <= previous \/ i <= k
      BY <1>5
    <3> QED BY <1>5, <3>1, <3>2
  <2> QED BY <1>2, <1>4, <2>1
<1>7. CASE i = previous + 1
  <2>1. ranges' = ranges /\ range_start' = range_start
    BY <1>2, <1>7
  <2>2. range_start .. i \subseteq missing_indexes /\ range_start <= i
    <3>1. i \in Nat /\ previous \in Nat /\ range_start \in Nat
      BY <1>3, <1>4, <1>5
    <3>2. ASSUME NEW k \in range_start .. i PROVE k = i \/ k \in range_start .. previous
      BY <1>7, <3>1
    <3> QED BY <1>4, <1>5, <3>1, <3>2
  <2>3. RunsBefore(range_start, ranges)'
    BY <1>1, <1>4, <2>1 DEF RunsBefore, MaximalRun, RunOf, open_dates
  <2> QED BY <1>1, <1>2, <1>4, <1>5, <1>6, <2>1, <2>2, <2>3 DEF GroupInv
<1>8. CASE i # previous + 1
  <2>1. ranges' = ranges \cup {Run} /\ range_start' = i
    BY <1>2, <1>8
  <2>2. RunsBefore(i, ranges \cup {Run})
    <3>1. i \in Nat /\ previous \in Nat
      BY <1>3, <1>4, <1>5
    <3>2. previous + 1 < i
      BY <1>5, <1>8, <3>1
    <3> QED BY <1>1, <1>5, <3>1, <3>2, CloseRun
  <2>3. RunsBefore(range_start, ranges)'
    BY <1>1, <2>1, <2>2 DEF RunsBefore, MaximalRun, RunOf, open_dates
  <2>4. i .. i \subseteq missing_indexes /\ i - 1 \notin missing_indexes /\ i <= i
    <3>1. i \in Nat /\ previous \in Nat
      BY <1>3, <1>4, <1>5
    <3>2. ~(i - 1 <= previous) /\ ~(i <= i - 1) /\ i <= i
      BY <1>5, <1>8, <3>1
    <3>3. i - 1 \notin missing_indexes
      BY <1>5, <3>2
    <3>4. \A k \in i .. i : k = i
      BY <3>1
    <3> QED BY <1>5, <3>2, <3>3, <3>4
  <2> QED BY <1>1, <1>2, <1>5, <1>6, <2>1, <2>3, <2>4 DEF GroupInv
<1> QED BY <1>7, <1>8

LEMMA LastRunInv ==
  ASSUME InputInv, GroupInv, LastRun
  PROVE  GroupInv'
<1>1. /\ phase = "group" /\ indexes = {} /\ phase' = "done"
      /\ ranges' = ranges \cup {Run}
      /\ missing_indexes' = missing_indexes /\ UNCHANGED input
  BY DEF LastRun, missing_indexes, open_dates, available
<1>2. missing_indexes \subseteq Nat
  BY IndexFacts
<1>3. previous \in missing_indexes /\ \A k \in missing_indexes : ~(previous < k)
  BY <1>1 DEF GroupInv
<1>4. \A k \in missing_indexes : k <= previous
  BY <1>2, <1>3
<1>5. previous \in Nat /\ previous + 2 \in Nat /\ previous + 1 < previous + 2
  BY <1>2, <1>3
<1>6. RunsBefore(previous + 2, ranges \cup {Run})
  BY <1>1, <1>4, <1>5, CloseRun
<1>7. \A k \in missing_indexes : k < previous + 2
  BY <1>2, <1>4, <1>5
<1>8. AllRuns(ranges \cup {Run})
  BY <1>6, <1>7 DEF AllRuns, RunsBefore
<1>9. AllRuns(ranges)'
  BY <1>1, <1>8 DEF AllRuns, MaximalRun, RunOf, open_dates
<1> QED BY <1>1, <1>9 DEF GroupInv

\* The runs of indexes are the runs of dates.
LEMMA RunsAreGroups ==
  ASSUME InputInv, AllRuns(ranges)
  PROVE  ranges = group_missing_sessions(OpenDates, available)
<1> DEFINE missing == OpenDates \ available
           Separated(d, e) == \E x \in OpenDates \ missing : d < x /\ x < e
<1>1. /\ missing = {open_dates[i] : i \in missing_indexes}
      /\ \A i \in DOMAIN open_dates : open_dates[i] \in missing <=> i \in missing_indexes
  BY DEF missing_indexes, OpenDates
<1>2. ASSUME NEW r \in ranges
      PROVE  r \in group_missing_sessions(OpenDates, available)
  <2>1. PICK a \in missing_indexes, b \in missing_indexes :
          MaximalRun(a, b) /\ r = RunOf(a, b)
    BY DEF AllRuns
  <2>2. /\ a \in DOMAIN open_dates /\ b \in DOMAIN open_dates
        /\ a \in Nat /\ b \in Nat
        /\ open_dates[a] \in Nat /\ open_dates[b] \in Nat
    BY IndexFacts
  <2>3. r.start_date = open_dates[a] /\ r.end_date = open_dates[b]
        /\ r \in [start_date : missing, end_date : missing]
    BY <1>1, <2>1 DEF RunOf
  <2>4. r.start_date <= r.end_date
    BY <2>1, <2>2, <2>3, IndexFacts DEF MaximalRun
  <2>5. ASSUME NEW d \in Span(r) \cap OpenDates PROVE d \in missing
    <3>1. PICK k \in DOMAIN open_dates : d = open_dates[k]
      BY DEF OpenDates
    <3>2. k \in a .. b
      BY <2>2, <2>3, <3>1, IndexFacts DEF Span
    <3> QED BY <1>1, <2>1, <3>1, <3>2 DEF MaximalRun
  <2>6. ASSUME NEW d \in missing, d < r.start_date PROVE Separated(d, r.start_date)
    <3>1. PICK k \in missing_indexes : d = open_dates[k]
      BY <1>1
    <3>2. k \in DOMAIN open_dates /\ k \in Nat /\ k < a
      BY <2>2, <2>3, <2>6, <3>1, IndexFacts
    <3>3. k < a - 1 /\ a - 1 \in DOMAIN open_dates /\ a - 1 < a
      <4>1. k # a - 1
        BY <2>1, <3>1 DEF MaximalRun
      <4>2. k < a - 1 /\ a - 1 \in Int /\ a - 1 < a /\ k <= a - 1 /\ a - 1 <= a
        BY <2>2, <3>2, <4>1
      <4> QED BY <2>2, <3>2, <4>2, IndexFacts
    <3>4. open_dates[a - 1] \in OpenDates \ missing
      BY <1>1, <2>1, <3>3 DEF OpenDates, MaximalRun
    <3>5. d < open_dates[a - 1] /\ open_dates[a - 1] < r.start_date
      BY <2>2, <2>3, <3>1, <3>2, <3>3, IndexFacts
    <3> QED BY <3>4, <3>5
  <2>7. ASSUME NEW d \in missing, d > r.end_date PROVE Separated(r.end_date, d)
    <3>1. PICK k \in missing_indexes : d = open_dates[k]
      BY <1>1
    <3>2. k \in DOMAIN open_dates /\ k \in Nat /\ b < k /\ open_dates[k] \in Nat
      BY <2>2, <2>3, <2>7, <3>1, IndexFacts
    <3>3. b + 1 < k /\ b + 1 \in DOMAIN open_dates /\ b < b + 1
      <4>1. k # b + 1
        BY <2>1, <3>1 DEF MaximalRun
      <4>2. b + 1 < k /\ b + 1 \in Int /\ b < b + 1 /\ b <= b + 1 /\ b + 1 <= k
        BY <2>2, <3>2, <4>1
      <4> QED BY <2>2, <3>2, <4>2, IndexFacts
    <3>4. open_dates[b + 1] \in OpenDates \ missing
      BY <1>1, <2>1, <3>3 DEF OpenDates, MaximalRun
    <3>5. r.end_date < open_dates[b + 1] /\ open_dates[b + 1] < d
      BY <2>2, <2>3, <3>1, <3>2, <3>3, IndexFacts
    <3> QED BY <3>4, <3>5
  <2> QED BY <2>3, <2>4, <2>5, <2>6, <2>7 DEF group_missing_sessions
<1>3. ASSUME NEW r \in group_missing_sessions(OpenDates, available)
      PROVE  r \in ranges
  <2>1. /\ r \in [start_date : missing, end_date : missing]
        /\ r.start_date <= r.end_date /\ Span(r) \cap OpenDates \subseteq missing
        /\ \A d \in missing : d < r.start_date => Separated(d, r.start_date)
        /\ \A d \in missing : d > r.end_date => Separated(r.end_date, d)
    BY DEF group_missing_sessions
  <2>2. PICK a \in missing_indexes, b \in missing_indexes :
          r.start_date = open_dates[a] /\ r.end_date = open_dates[b]
    BY <1>1, <2>1
  <2>3. /\ a \in DOMAIN open_dates /\ b \in DOMAIN open_dates
        /\ a \in Nat /\ b \in Nat
        /\ open_dates[a] \in Nat /\ open_dates[b] \in Nat
    BY IndexFacts
  <2>4. a <= b
    BY <2>1, <2>2, <2>3, IndexFacts
  <2>5. ASSUME NEW k \in a .. b PROVE k \in missing_indexes
    <3>1. k \in DOMAIN open_dates /\ k \in Nat
      BY <2>3, IndexFacts
    <3>2. open_dates[a] <= open_dates[k] /\ open_dates[k] <= open_dates[b]
          /\ open_dates[k] \in Nat
      BY <2>3, <3>1, IndexFacts
    <3>3. open_dates[k] \in Span(r) \cap OpenDates
      BY <2>2, <2>3, <3>1, <3>2 DEF Span, OpenDates
    <3> QED BY <1>1, <2>1, <3>1, <3>3
  <2>6. a - 1 \notin missing_indexes
    <3> SUFFICES ASSUME a - 1 \in missing_indexes PROVE FALSE
      OBVIOUS
    <3>1. a - 1 \in DOMAIN open_dates /\ open_dates[a - 1] < r.start_date
          /\ open_dates[a - 1] \in missing
      BY <1>1, <2>2, <2>3, IndexFacts
    <3>2. PICK x \in OpenDates : open_dates[a - 1] < x /\ x < r.start_date
      BY <2>1, <3>1
    <3>3. PICK k \in DOMAIN open_dates : x = open_dates[k]
      BY DEF OpenDates
    <3>4. a - 1 < k /\ k < a /\ k \in Nat
      BY <2>2, <2>3, <3>1, <3>2, <3>3, IndexFacts
    <3> QED BY <2>3, <3>4
  <2>7. b + 1 \notin missing_indexes
    <3> SUFFICES ASSUME b + 1 \in missing_indexes PROVE FALSE
      OBVIOUS
    <3>1. b + 1 \in DOMAIN open_dates /\ open_dates[b + 1] > r.end_date
          /\ open_dates[b + 1] \in missing
      BY <1>1, <2>2, <2>3, IndexFacts
    <3>2. PICK x \in OpenDates : r.end_date < x /\ x < open_dates[b + 1]
      BY <2>1, <3>1
    <3>3. PICK k \in DOMAIN open_dates : x = open_dates[k]
      BY DEF OpenDates
    <3>4. b < k /\ k < b + 1 /\ k \in Nat
      BY <2>2, <2>3, <3>1, <3>2, <3>3, IndexFacts
    <3> QED BY <2>3, <3>4
  <2>8. MaximalRun(a, b)
    BY <2>4, <2>5, <2>6, <2>7 DEF MaximalRun
  <2>9. r = RunOf(a, b)
    BY <2>1, <2>2 DEF RunOf
  <2> QED BY <2>8, <2>9 DEF AllRuns
<1> QED BY <1>2, <1>3

(* group_missing_sessions returns the maximal runs of missing sessions, as  *)
(* dates, for every calendar: each missing session in exactly one range and *)
(* no available session in any.                                             *)
THEOREM GroupScanIsCorrect == Spec => []GroupScanCorrect
<1>1. InputInv /\ Init => GroupInv
  BY DEF Init, GroupInv
<1>2. InputInv /\ GroupInv /\ [Next]_vars => GroupInv'
  <2> SUFFICES ASSUME InputInv, GroupInv, [Next]_vars PROVE GroupInv'
    OBVIOUS
  <2>1. CASE VisitItem
    BY <2>1 DEF VisitItem, SkipItem, MeetGap, AdvanceCursor, Decide, groupVars, GroupInv
  <2>2. CASE EndOfItems
    BY <2>2 DEF EndOfItems, Decide, groupVars, GroupInv
  <2>3. CASE NothingMissing
    <3>1. phase' = "done" /\ ranges' = {} /\ missing_indexes = {}
          /\ missing_indexes' = missing_indexes
      BY <2>3 DEF NothingMissing, groupVars, GroupInv, missing_indexes,
                  open_dates, available
    <3> QED BY <3>1 DEF GroupInv, AllRuns
  <2>4. CASE UNCHANGED vars
    BY <2>4 DEF vars, groupVars, GroupInv, RunsBefore, AllRuns, MaximalRun, RunOf,
                missing_indexes, open_dates, available
  <2> QED BY <2>1, <2>2, <2>3, <2>4, FirstMissingInv, VisitIndexInv, LastRunInv DEF Next
<1>3. InputInv /\ GroupInv => GroupScanCorrect
  BY RunsAreGroups DEF GroupInv, GroupScanCorrect
<1> QED BY <1>1, <1>2, <1>3, InputStays, PTL DEF Spec

-----------------------------------------------------------------------------
(* What the providers accept, the tables accept but for what Refused names *)

Field == Int \cup {Missing, Unreadable}
StockInput == [stock : Field, name : Nat \cup {Missing, Unreadable, Unencodable},
               list_date : Field, delist_date : Field,
               status : Statuses \cup {Missing, Unreadable}]
PriceInput == [stock : Field, trade_date : Field, tradestatus : STRING,
               open : Field, high : Field, low : Field, close : Field,
               volume : Field, amount : Field]

LEMMA ReadableIsInteger == ASSUME NEW v \in Field, Readable(v) PROVE v \in Int
BY DEF Field, Readable

LEMMA ProductsGrow ==
  ASSUME NEW d \in Nat, NEW a \in Int, NEW b \in Int, a <= b
  PROVE  d * a <= d * b
<1>1. d * (b - a) >= 0 /\ d * a \in Int /\ d * b \in Int
  OBVIOUS
<1>2. d * (b - a) = d * b - d * a
  OBVIOUS
<1> QED BY <1>1, <1>2

\* A column keeps the nearest of its values, which is beyond a limit exactly when the
\* number is TooLarge, and the order of numbers survives.
LEMMA RoundedIsNearest ==
  ASSUME NEW v \in Nat
  PROVE  /\ rounded(v) \in Nat
         /\ Nearest(rounded(v), v)
         /\ \A limit \in Nat : rounded(v) <= limit <=> ~TooLarge(v, limit)
         /\ \A w \in Nat : v <= w => rounded(v) <= rounded(w)
<1> DEFINE d == 2 * Fraction
           Fits(n, q) == q \in Nat /\ d * q <= n /\ n < d * (q + 1)
<1>1. d \in Nat /\ d > 0 /\ Fraction \in Nat
  BY ColumnAssumption
<1>2. ASSUME NEW n \in Nat PROVE Fits(n, n \div d)
  <2>1. n \div d \in Nat /\ d * (n \div d) <= n /\ n < d * ((n \div d) + 1)
    BY <1>1
  <2> QED BY <2>1
<1>3. ASSUME NEW w \in Nat PROVE 2 * w + Fraction \in Nat /\ Fits(2 * w + Fraction, rounded(w))
  <2>1. 2 * w + Fraction \in Nat
    BY <1>1
  <2> HIDE DEF Fits
  <2> QED BY <2>1, <1>2 DEF rounded
<1> DEFINE q == rounded(v)
<1>4. q \in Nat /\ d * q <= 2 * v + Fraction /\ 2 * v + Fraction < d * (q + 1)
  BY <1>3
<1> HIDE DEF q
<1>5. d * q = 2 * q * Fraction /\ d * (q + 1) = 2 * q * Fraction + 2 * Fraction
      /\ 2 * q * Fraction \in Nat
  BY <1>1, <1>4
<1>6. Nearest(q, v)
  <2>1. 2 * q * Fraction <= 2 * v + Fraction
    BY <1>1, <1>4, <1>5
  <2>2. 2 * v <= 2 * q * Fraction + Fraction
    BY <1>1, <1>4, <1>5
  <2> QED BY <2>1, <2>2 DEF Nearest
<1>7. ASSUME NEW limit \in Nat PROVE q <= limit <=> ~TooLarge(v, limit)
  <2>1. d * (limit + 1) = (2 * limit + 1) * Fraction + Fraction /\ (2 * limit + 1) * Fraction \in Nat
    BY <1>1
  <2>2. CASE q <= limit
    <3>1. d * (q + 1) <= d * (limit + 1)
      BY <1>1, <1>4, <2>2, ProductsGrow
    <3> HIDE DEF d
    <3>2. 2 * v < (2 * limit + 1) * Fraction
      BY <1>1, <1>4, <2>1, <3>1
    <3> QED BY <2>1, <2>2, <3>2 DEF TooLarge
  <2>3. CASE q >= limit + 1
    <3>1. d * (limit + 1) <= d * q
      BY <1>1, <1>4, <2>3, ProductsGrow
    <3> HIDE DEF d
    <3>2. 2 * v >= (2 * limit + 1) * Fraction
      BY <1>1, <1>4, <2>1, <3>1
    <3> QED BY <1>4, <2>3, <3>2 DEF TooLarge
  <2> QED BY <1>4, <2>2, <2>3
<1>8. ASSUME NEW w \in Nat, v <= w PROVE q <= rounded(w)
  <2>1. rounded(w) \in Nat /\ 2 * w + Fraction < d * (rounded(w) + 1)
    BY <1>3
  <2>2. SUFFICES ASSUME rounded(w) + 1 <= q PROVE FALSE
    BY <1>4, <2>1
  <2>3. d * (rounded(w) + 1) <= d * q
    BY <1>1, <1>4, <2>1, <2>2, ProductsGrow
  <2>4. d * q \in Nat /\ d * (rounded(w) + 1) \in Nat
    BY <1>1, <1>4, <2>1
  <2> HIDE DEF d
  <2> QED BY <1>1, <1>4, <1>8, <2>1, <2>3, <2>4
<1> QED BY <1>4, <1>6, <1>7, <1>8 DEF q

LargeRow(p) ==
  \/ TooLarge(p.high, PriceLimit)
  \/ p.volume > VolumeLimit
  \/ p.amount # Missing /\ TooLarge(p.amount, AmountLimit)

\* A row that passes the common check satisfies the constraints of daily_prices unless a
\* number of it is too large, and is what the table then holds.
LEMMA ValidPriceFits ==
  ASSUME NEW r \in PriceInput, price_is_valid(r)
  PROVE  LET record == price_record(r)
             p == stored_price(record)
         IN /\ price_satisfies_table(p) <=> ~LargeRow(record)
            /\ price_key(record) = price_key(r) /\ price_key(p) = price_key(r)
            /\ record.stock = r.stock /\ p.stock = r.stock
            /\ IsStoredAs(r, p)
<1> DEFINE record == price_record(r)
           p == stored_price(record)
<1>1. \A f \in Prices : r[f] \in Nat
  <2>1. r.open \in Field /\ r.high \in Field /\ r.low \in Field /\ r.close \in Field
    BY DEF PriceInput
  <2>2. \A f \in Prices : r[f] \in Field
    BY <2>1 DEF Prices
  <2> QED BY <2>2, ReadableIsInteger DEF price_is_valid, NonNegative
<1>2. r.volume \in Nat /\ r.volume % 2 = 0
  <2>1. r.volume \in Field
    BY DEF PriceInput
  <2> QED BY <2>1, ReadableIsInteger DEF price_is_valid, NonNegative
<1>3. r.amount = Missing \/ r.amount \in Nat
  <2>1. r.amount \in Field
    BY DEF PriceInput
  <2> QED BY <2>1, ReadableIsInteger DEF price_is_valid, NonNegative
<1>4. \A f \in Prices : r.low <= r[f] /\ r[f] <= r.high
  BY DEF price_is_valid
<1>5. /\ record.stock = r.stock /\ record.trade_date = r.trade_date
      /\ record.high = r.high /\ record.volume = r.volume \div 2 /\ record.amount = r.amount
      /\ \A f \in Prices : record[f] = r[f]
  BY DEF price_record, Prices
<1>6. /\ p.stock = r.stock /\ p.trade_date = r.trade_date /\ p.volume = r.volume \div 2
      /\ p.amount = IF r.amount = Missing THEN Missing ELSE rounded(r.amount)
      /\ p.open = rounded(r.open) /\ p.high = rounded(r.high)
      /\ p.low = rounded(r.low) /\ p.close = rounded(r.close)
  BY DEF price_record, stored_price
<1> HIDE DEF record, p
<1>7. \A f \in Prices : p[f] = rounded(r[f])
  BY <1>6 DEF Prices
<1>8. "high" \in Prices /\ "low" \in Prices
  BY DEF Prices
<1>9. r.volume \div 2 \in Nat /\ 2 * (r.volume \div 2) = r.volume
  BY <1>2
<1>10. \A f \in Prices : /\ p[f] \in Nat /\ p.low <= p[f] /\ p[f] <= p.high
                         /\ Nearest(p[f], r[f])
  <2>1. ASSUME NEW f \in Prices
        PROVE  p[f] \in Nat /\ p.low <= p[f] /\ p[f] <= p.high /\ Nearest(p[f], r[f])
    <3>1. r[f] \in Nat /\ r.low \in Nat /\ r.high \in Nat
      BY <1>1, <1>8
    <3>2. rounded(r.low) <= rounded(r[f]) /\ rounded(r[f]) <= rounded(r.high)
      BY <1>4, <3>1, RoundedIsNearest
    <3>3. rounded(r[f]) \in Nat /\ Nearest(rounded(r[f]), r[f])
      BY <3>1, RoundedIsNearest
    <3> QED BY <1>6, <1>7, <3>2, <3>3
  <2> QED BY <2>1
<1>11. p.high <= PriceLimit <=> ~TooLarge(record.high, PriceLimit)
  <2>1. r.high \in Nat
    BY <1>1, <1>8
  <2> QED BY <1>5, <1>6, <2>1, RoundedIsNearest, ColumnAssumption
<1>12. p.volume \in 0 .. VolumeLimit <=> ~(record.volume > VolumeLimit)
  BY <1>5, <1>6, <1>9, ColumnAssumption
<1>13. (p.amount # Missing => p.amount <= AmountLimit)
       <=> ~(record.amount # Missing /\ TooLarge(record.amount, AmountLimit))
  <2>1. CASE r.amount = Missing
    BY <1>5, <1>6, <2>1
  <2>2. CASE r.amount # Missing
    <3>1. r.amount \in Nat
      BY <1>3, <2>2
    <3>2. p.amount = rounded(r.amount) /\ p.amount \in Nat
      BY <1>6, <2>2, <3>1, RoundedIsNearest
    <3>3. p.amount # Missing
      BY <3>2, ColumnAssumption
    <3>4. p.amount <= AmountLimit <=> ~TooLarge(r.amount, AmountLimit)
      BY <3>1, <3>2, RoundedIsNearest, ColumnAssumption
    <3> QED BY <1>5, <2>2, <3>3, <3>4
  <2> QED BY <2>1, <2>2
<1>14. (\A f \in Prices : p[f] \in 0 .. PriceLimit /\ p.high >= p[f] /\ p.low <= p[f])
       <=> p.high <= PriceLimit
  <2>1. p.high \in Nat
    BY <1>8, <1>10
  <2>2. ASSUME p.high <= PriceLimit, NEW f \in Prices
        PROVE  p[f] \in 0 .. PriceLimit /\ p.high >= p[f] /\ p.low <= p[f]
    <3>1. p[f] \in Nat /\ p.low \in Nat /\ p.low <= p[f] /\ p[f] <= p.high
      BY <1>8, <1>10
    <3> QED BY <2>1, <2>2, <3>1, ColumnAssumption
  <2>3. p.high \in 0 .. PriceLimit => p.high <= PriceLimit
    BY <2>1, ColumnAssumption
  <2> QED BY <1>8, <2>2, <2>3
<1>15. price_satisfies_table(p) <=> ~LargeRow(record)
  BY <1>11, <1>12, <1>13, <1>14 DEF price_satisfies_table, LargeRow
<1>16. IF r.amount = Missing THEN p.amount = Missing ELSE Nearest(p.amount, r.amount)
  BY <1>3, <1>6, RoundedIsNearest
<1>17. IsStoredAs(r, p)
  BY <1>6, <1>9, <1>10, <1>16 DEF IsStoredAs, price_key
<1> QED BY <1>5, <1>6, <1>15, <1>17 DEF price_key, record, p

\* The same for the rows of a batch, and repeated keys stay repeated or not.
LEMMA ValidPricesFit ==
  ASSUME NEW rows, \A r \in Rows(rows) : r \in PriceInput /\ price_is_valid(r)
  PROVE  LET records == price_records(rows)
             stored == stored_prices(records)
         IN /\ (\A p \in Rows(stored) : price_satisfies_table(p))
               <=> ~\E p \in Rows(records) : LargeRow(p)
            /\ Distinct(records, price_key) <=> Distinct(rows, price_key)
            /\ Distinct(stored, price_key) <=> Distinct(rows, price_key)
            /\ {p.stock : p \in Rows(records)} = {r.stock : r \in Rows(rows)}
            /\ {p.stock : p \in Rows(stored)} = {r.stock : r \in Rows(rows)}
            /\ \A r \in Rows(rows) : \E p \in Rows(stored) : IsStoredAs(r, p)
            /\ \A p \in Rows(stored) : \E r \in Rows(rows) : price_key(r) = price_key(p)
<1> DEFINE records == price_records(rows)
           stored == stored_prices(records)
<1>1. DOMAIN records = DOMAIN rows /\ \A i \in DOMAIN rows : records[i] = price_record(rows[i])
  BY DEF price_records
<1>2. DOMAIN stored = DOMAIN rows /\ \A i \in DOMAIN rows : stored[i] = stored_price(records[i])
  <2> HIDE DEF records
  <2> QED BY <1>1 DEF stored_prices
<1>3. \A i \in DOMAIN rows : /\ price_satisfies_table(stored[i]) <=> ~LargeRow(records[i])
                             /\ price_key(records[i]) = price_key(rows[i])
                             /\ price_key(stored[i]) = price_key(rows[i])
                             /\ records[i].stock = rows[i].stock
                             /\ stored[i].stock = rows[i].stock
                             /\ IsStoredAs(rows[i], stored[i])
  <2> HIDE DEF records, stored
  <2>1. ASSUME NEW i \in DOMAIN rows
        PROVE  /\ price_satisfies_table(stored[i]) <=> ~LargeRow(records[i])
               /\ price_key(records[i]) = price_key(rows[i])
               /\ price_key(stored[i]) = price_key(rows[i])
               /\ records[i].stock = rows[i].stock
               /\ stored[i].stock = rows[i].stock
               /\ IsStoredAs(rows[i], stored[i])
    <3>1. rows[i] \in PriceInput /\ price_is_valid(rows[i])
      BY DEF Rows
    <3>2. records[i] = price_record(rows[i]) /\ stored[i] = stored_price(price_record(rows[i]))
      BY <1>1, <1>2
    <3> QED BY <3>1, <3>2, ValidPriceFits
  <2> QED BY <2>1
<1> HIDE DEF records, stored
<1>4. Rows(records) = {records[i] : i \in DOMAIN rows} /\ Rows(stored) = {stored[i] : i \in DOMAIN rows}
      /\ Rows(rows) = {rows[i] : i \in DOMAIN rows}
  BY <1>1, <1>2 DEF Rows
<1>5. Distinct(records, price_key) <=> Distinct(rows, price_key)
  BY <1>1, <1>3 DEF Distinct
<1>6. Distinct(stored, price_key) <=> Distinct(rows, price_key)
  BY <1>2, <1>3 DEF Distinct
<1>7. {p.stock : p \in Rows(records)} = {r.stock : r \in Rows(rows)}
  <2>1. \A p \in Rows(records) : \E r \in Rows(rows) : r.stock = p.stock
    BY <1>3, <1>4
  <2>2. \A r \in Rows(rows) : \E p \in Rows(records) : r.stock = p.stock
    BY <1>3, <1>4
  <2> QED BY <2>1, <2>2
<1>8. {p.stock : p \in Rows(stored)} = {r.stock : r \in Rows(rows)}
  <2>1. \A p \in Rows(stored) : \E r \in Rows(rows) : r.stock = p.stock
    BY <1>3, <1>4
  <2>2. \A r \in Rows(rows) : \E p \in Rows(stored) : r.stock = p.stock
    BY <1>3, <1>4
  <2> QED BY <2>1, <2>2
<1>9. /\ \A r \in Rows(rows) : \E p \in Rows(stored) : IsStoredAs(r, p)
      /\ \A p \in Rows(stored) : \E r \in Rows(rows) : price_key(r) = price_key(p)
  BY <1>3, <1>4
<1>10. (\A p \in Rows(stored) : price_satisfies_table(p))
       <=> ~\E p \in Rows(records) : LargeRow(p)
  BY <1>3, <1>4
<1> QED BY <1>5, <1>6, <1>7, <1>8, <1>9, <1>10 DEF records, stored

\* A stock of a file satisfies the constraints of stocks, unless its name cannot be
\* encoded.
LEMMA CsvStockFits ==
  ASSUME NEW r \in StockInput, csv_stock_is_valid(r)
  PROVE  /\ stock_satisfies_table(csv_stock_record(r)) <=> csv_stock_record(r).name # Unencodable
         /\ stock_key(csv_stock_record(r)) = stock_key(r)
<1> DEFINE s == csv_stock_record(r)
<1>1. s.stock = r.stock /\ s.list_date = r.list_date /\ s.delist_date = r.delist_date
      /\ s.name = r.name
  BY DEF csv_stock_record, StockInput
<1>2. s.status = IF r.status = Missing THEN "active" ELSE r.status
  BY DEF csv_stock_record, StockInput
<1> HIDE DEF s
<1>3. s.status \in Statuses
  BY <1>2 DEF csv_stock_is_valid, Statuses
<1>4. s.name \in 0 .. NameLength <=> s.name # Unencodable
  <2>1. s.name \in 1 .. NameLength \cup {Unencodable}
    BY <1>1 DEF csv_stock_is_valid
  <2> QED BY <2>1, ColumnAssumption
<1> QED BY <1>1, <1>3, <1>4 DEF s, csv_stock_is_valid, stock_satisfies_table, stock_key

\* A stock of AShareHub, unless its name cannot be encoded or is too long, or its dates
\* are reversed.
UnfitStock(s) ==
  \/ s.name = Unencodable
  \/ s.name # Unencodable /\ s.name > NameLength
  \/ Readable(s.list_date) /\ Readable(s.delist_date) /\ s.delist_date < s.list_date

LEMMA AShareHubStockFits ==
  ASSUME NEW r \in StockInput, asharehub_stock_is_valid(r)
  PROVE  stock_satisfies_table(r) <=> ~UnfitStock(r)
<1>1. r.status \in Statuses /\ Readable(r.name)
  BY DEF asharehub_stock_is_valid
<1>2. r.name \in Nat \cup {Unencodable}
  BY <1>1 DEF StockInput, Readable
<1>3. r.name \in 0 .. NameLength <=> ~(r.name = Unencodable \/ r.name > NameLength)
  <2>1. CASE r.name = Unencodable
    BY <2>1, ColumnAssumption
  <2>2. CASE r.name # Unencodable
    BY <1>2, <2>2, ColumnAssumption
  <2> QED BY <2>1, <2>2
<1>4. Readable(r.list_date) /\ Readable(r.delist_date) =>
        (r.delist_date >= r.list_date <=> ~(r.delist_date < r.list_date))
  <2>1. r.list_date \in Field /\ r.delist_date \in Field
    BY DEF StockInput
  <2> QED BY <2>1, ReadableIsInteger
<1> QED BY <1>1, <1>3, <1>4 DEF stock_satisfies_table, UnfitStock

\* A stock of the table is fit: the history client's and BaoStock's.
LEMMA StoredStockFits ==
  ASSUME NEW s, stock_satisfies_table(s),
         s.list_date \in Field, s.delist_date \in Field
  PROVE  ~UnfitStock(s)
<1>1. s.name \in 0 .. NameLength
  BY DEF stock_satisfies_table
<1>2. s.name # Unencodable /\ ~(s.name > NameLength)
  BY <1>1, ColumnAssumption
<1>3. ~(Readable(s.list_date) /\ Readable(s.delist_date) /\ s.delist_date < s.list_date)
  BY ReadableIsInteger DEF stock_satisfies_table
<1> QED BY <1>2, <1>3 DEF UnfitStock

\* What becomes of a batch: refused as a whole, or stored with what its rows become.
LEMMA IngestOutcome ==
  ASSUME NEW db, NEW batch,
         {p.stock : p \in Rows(stored_prices(batch.daily_prices))}
           = {p.stock : p \in Rows(batch.daily_prices)}
  PROVE  LET result == ingest_market_data(db, batch)
             prices == stored_prices(batch.daily_prices)
         IN IF \/ TooManyRows(batch) \/ UndescribedStock(db, batch)
               \/ ~Distinct(batch.stocks, stock_key) \/ ~Distinct(prices, price_key)
               \/ \E s \in Rows(batch.stocks) : ~stock_satisfies_table(s)
               \/ \E p \in Rows(prices) : ~price_satisfies_table(p)
            THEN ~result.stored /\ result.db = db
            ELSE /\ result.stored
                 /\ Rows(prices) \subseteq result.db.prices
                 /\ \A p \in db.prices : p \notin result.db.prices =>
                      \E r \in Rows(prices) : price_key(r) = price_key(p)
<1> DEFINE stocks == Upserted(db.stocks, batch.stocks, stock_key)
           prices == stored_prices(batch.daily_prices)
           table == Upserted(db.prices, prices, price_key)
           missing == {p.stock : p \in Rows(prices)} \ {s.stock : s \in stocks}
           StocksFail == InsertFails(batch.stocks, 6, stock_key, stock_satisfies_table)
           PricesFail == InsertFails(prices, 9, price_key, price_satisfies_table)
<1>1. DOMAIN prices = DOMAIN batch.daily_prices
  BY DEF stored_prices
<1>2. {s.stock : s \in stocks} = {s.stock : s \in db.stocks} \cup {s.stock : s \in Rows(batch.stocks)}
  <2>1. \A s \in db.stocks : s \in stocks \/ \E r \in Rows(batch.stocks) : r.stock = s.stock
    BY DEF Upserted, stock_key
  <2>2. Rows(batch.stocks) \subseteq stocks
    BY DEF Upserted
  <2>3. stocks \subseteq Rows(batch.stocks) \cup db.stocks
    BY DEF Upserted
  <2> HIDE DEF stocks
  <2> QED BY <2>1, <2>2, <2>3
<1>3. missing # {} <=> UndescribedStock(db, batch)
  <2>1. missing = {p.stock : p \in Rows(batch.daily_prices)} \ {s.stock : s \in stocks}
    OBVIOUS
  <2> HIDE DEF stocks, missing
  <2> QED BY <1>2, <2>1 DEF UndescribedStock
<1>4. StocksFail <=> \/ 6 * Cardinality(DOMAIN batch.stocks) > ParameterLimit
                     \/ ~Distinct(batch.stocks, stock_key)
                     \/ \E s \in Rows(batch.stocks) : ~stock_satisfies_table(s)
  BY DEF InsertFails
<1>5. PricesFail <=> \/ 9 * Cardinality(DOMAIN batch.daily_prices) > ParameterLimit
                     \/ ~Distinct(prices, price_key)
                     \/ \E p \in Rows(prices) : ~price_satisfies_table(p)
  <2> HIDE DEF prices
  <2> QED BY <1>1 DEF InsertFails
<1>6. ingest_market_data(db, batch) =
        IF StocksFail \/ missing # {} \/ PricesFail
        THEN [stored |-> FALSE, db |-> db]
        ELSE [stored |-> TRUE, db |-> [stocks |-> stocks, prices |-> table]]
  BY DEF ingest_market_data
<1>7. Rows(prices) \subseteq table
      /\ \A p \in db.prices : p \notin table =>
           \E r \in Rows(prices) : price_key(r) = price_key(p)
  BY DEF Upserted
<1>8. StocksFail \/ missing # {} \/ PricesFail <=>
        \/ TooManyRows(batch) \/ UndescribedStock(db, batch)
        \/ ~Distinct(batch.stocks, stock_key) \/ ~Distinct(prices, price_key)
        \/ \E s \in Rows(batch.stocks) : ~stock_satisfies_table(s)
        \/ \E p \in Rows(prices) : ~price_satisfies_table(p)
  <2> HIDE DEF StocksFail, PricesFail, missing
  <2> QED BY <1>3, <1>4, <1>5 DEF TooManyRows
<1> HIDE DEF stocks, table, missing, StocksFail, PricesFail
<1> DEFINE result == ingest_market_data(db, batch)
<1>9. IF StocksFail \/ missing # {} \/ PricesFail
      THEN ~result.stored /\ result.db = db
      ELSE result.stored /\ result.db.prices = table
  <2>1. CASE StocksFail \/ missing # {} \/ PricesFail
    <3>1. result = [stored |-> FALSE, db |-> db]
      BY <1>6, <2>1
    <3> HIDE DEF result
    <3> QED BY <2>1, <3>1
  <2>2. CASE ~(StocksFail \/ missing # {} \/ PricesFail)
    <3>1. result = [stored |-> TRUE, db |-> [stocks |-> stocks, prices |-> table]]
      BY <1>6, <2>2
    <3> HIDE DEF result
    <3> QED BY <2>2, <3>1
  <2> QED BY <2>1, <2>2
<1> HIDE DEF result
<1>10. IF StocksFail \/ missing # {} \/ PricesFail
       THEN ~result.stored /\ result.db = db
       ELSE /\ result.stored
            /\ Rows(prices) \subseteq result.db.prices
            /\ \A p \in db.prices : p \notin result.db.prices =>
                 \E r \in Rows(prices) : price_key(r) = price_key(p)
  <2> HIDE DEF prices
  <2> QED BY <1>7, <1>9
<1> QED BY <1>8, <1>10 DEF result

\* What the outcome means for the rows a provider read, of which it kept some.
LEMMA OutcomeOfRows ==
  ASSUME NEW source, NEW db, NEW batch, NEW rows, NEW kept,
         \A r \in Rows(kept) : r \in PriceInput /\ price_is_valid(r),
         batch.daily_prices = price_records(kept),
         Rows(kept) \subseteq Rows(rows),
         \A r \in Rows(rows) \ Rows(kept) :
           source = "asharehub" /\ r.stock \notin {s.stock : s \in Rows(batch.stocks)},
         Refused(source, db, batch) <=>
           \/ LargeNumber(batch) \/ TooManyRows(batch) \/ UndescribedStock(db, batch)
           \/ ~Distinct(batch.stocks, stock_key) \/ ~Distinct(batch.daily_prices, price_key)
           \/ \E s \in Rows(batch.stocks) : ~stock_satisfies_table(s)
  PROVE  BatchIsStored(source, db, rows, batch)
<1> DEFINE records == price_records(kept)
           prices == stored_prices(records)
           result == ingest_market_data(db, batch)
<1>1. /\ (\A p \in Rows(prices) : price_satisfies_table(p)) <=> ~\E p \in Rows(records) : LargeRow(p)
      /\ Distinct(records, price_key) <=> Distinct(prices, price_key)
      /\ {p.stock : p \in Rows(prices)} = {p.stock : p \in Rows(records)}
      /\ \A r \in Rows(kept) : \E p \in Rows(prices) : IsStoredAs(r, p)
      /\ \A p \in Rows(prices) : \E r \in Rows(kept) : price_key(r) = price_key(p)
  BY ValidPricesFit
<1> HIDE DEF records
<1>2. batch.daily_prices = records /\ stored_prices(batch.daily_prices) = prices
  BY DEF records
<1>3. LargeNumber(batch) <=> \E p \in Rows(records) : LargeRow(p)
  BY <1>2 DEF LargeNumber, LargeRow
<1> HIDE DEF prices
<1>4. IF Refused(source, db, batch)
      THEN ~result.stored /\ result.db = db
      ELSE /\ result.stored
           /\ Rows(prices) \subseteq result.db.prices
           /\ \A p \in db.prices : p \notin result.db.prices =>
                \E r \in Rows(prices) : price_key(r) = price_key(p)
  <2>1. {p.stock : p \in Rows(stored_prices(batch.daily_prices))}
          = {p.stock : p \in Rows(batch.daily_prices)}
    BY <1>1, <1>2
  <2>2. IF \/ TooManyRows(batch) \/ UndescribedStock(db, batch)
           \/ ~Distinct(batch.stocks, stock_key) \/ ~Distinct(prices, price_key)
           \/ \E s \in Rows(batch.stocks) : ~stock_satisfies_table(s)
           \/ \E p \in Rows(prices) : ~price_satisfies_table(p)
        THEN ~result.stored /\ result.db = db
        ELSE /\ result.stored
             /\ Rows(prices) \subseteq result.db.prices
             /\ \A p \in db.prices : p \notin result.db.prices =>
                  \E r \in Rows(prices) : price_key(r) = price_key(p)
    BY <1>2, <2>1, IngestOutcome
  <2> HIDE DEF result
  <2>3. Refused(source, db, batch) <=>
           \/ TooManyRows(batch) \/ UndescribedStock(db, batch)
           \/ ~Distinct(batch.stocks, stock_key) \/ ~Distinct(prices, price_key)
           \/ \E s \in Rows(batch.stocks) : ~stock_satisfies_table(s)
           \/ \E p \in Rows(prices) : ~price_satisfies_table(p)
    BY <1>1, <1>2, <1>3
  <2> QED BY <2>2, <2>3
<1> HIDE DEF result
<1>5. ASSUME ~Refused(source, db, batch)
      PROVE  /\ result.stored
             /\ StoredAsSent(source, rows, batch, result.db)
             /\ \A p \in db.prices : p \notin result.db.prices =>
                  \E r \in Rows(rows) : price_key(r) = price_key(p)
  <2>1. StoredAsSent(source, rows, batch, result.db)
    BY <1>1, <1>4, <1>5 DEF StoredAsSent
  <2> QED BY <1>1, <1>4, <1>5, <2>1
<1> QED BY <1>4, <1>5 DEF BatchIsStored, result

LEMMA CsvBatchIsStored ==
  ASSUME NEW db, NEW feed, \A r \in Rows(feed.stocks) : r \in StockInput,
         \A r \in Rows(feed.prices) : r \in PriceInput
  PROVE  BatchIsStored("csv", db, feed.prices, csv_load(feed))
<1> DEFINE batch == csv_load(feed)
<1>1. SUFFICES ASSUME batch.accepted PROVE BatchIsStored("csv", db, feed.prices, batch)
  BY DEF BatchIsStored
<1>2. /\ \A r \in Rows(feed.stocks) : csv_stock_is_valid(r)
      /\ \A r \in Rows(feed.prices) : price_is_valid(r)
      /\ Distinct(feed.stocks, stock_key) /\ Distinct(feed.prices, price_key)
      /\ batch.stocks = [i \in DOMAIN feed.stocks |-> csv_stock_record(feed.stocks[i])]
      /\ batch.daily_prices = price_records(feed.prices)
  BY <1>1 DEF csv_load, Rejected, Batch
<1> HIDE DEF batch
<1>3. DOMAIN batch.stocks = DOMAIN feed.stocks
      /\ \A i \in DOMAIN feed.stocks :
           /\ stock_satisfies_table(batch.stocks[i]) <=> batch.stocks[i].name # Unencodable
           /\ stock_key(batch.stocks[i]) = stock_key(feed.stocks[i])
  BY <1>2, CsvStockFits DEF Rows
<1>4. (\E s \in Rows(batch.stocks) : ~stock_satisfies_table(s)) <=> UnencodableName(batch)
  BY <1>3 DEF Rows, UnencodableName
<1>5. Distinct(batch.stocks, stock_key)
  <2>1. \A i, j \in DOMAIN feed.stocks : stock_key(feed.stocks[i]) = stock_key(feed.stocks[j]) => i = j
    BY <1>2 DEF Distinct
  <2>2. \A i, j \in DOMAIN batch.stocks : stock_key(batch.stocks[i]) = stock_key(batch.stocks[j]) => i = j
    BY <1>3, <2>1
  <2> QED BY <2>2 DEF Distinct
<1>6. \A r \in Rows(feed.prices) : r \in PriceInput /\ price_is_valid(r)
  BY <1>2
<1>7. Distinct(batch.daily_prices, price_key)
  BY <1>2, <1>6, ValidPricesFit
<1>8. Refused("csv", db, batch) <=>
        \/ LargeNumber(batch) \/ TooManyRows(batch) \/ UndescribedStock(db, batch)
        \/ ~Distinct(batch.stocks, stock_key) \/ ~Distinct(batch.daily_prices, price_key)
        \/ \E s \in Rows(batch.stocks) : ~stock_satisfies_table(s)
  BY <1>4, <1>5, <1>7 DEF Refused
<1> QED BY <1>2, <1>6, <1>8, OutcomeOfRows

LEMMA AShareHubBatchIsStored ==
  ASSUME NEW db, NEW known, NEW stock_rows, NEW price_rows,
         \A r \in Rows(stock_rows) : r \in StockInput,
         \A r \in Rows(price_rows) : r \in PriceInput,
         \A s \in Rows(known) : /\ stock_satisfies_table(s)
                                /\ s.list_date \in Field /\ s.delist_date \in Field,
         Distinct(known, stock_key)
  PROVE  BatchIsStored("asharehub", db, price_rows, asharehub_batch(known, stock_rows, price_rows))
<1> DEFINE batch == asharehub_batch(known, stock_rows, price_rows)
           stocks == IF known = <<>> THEN stock_rows ELSE known
           described == {s.stock : s \in Rows(stocks)}
           kept == [i \in {j \in DOMAIN price_rows : price_rows[j].stock \in described} |-> price_rows[i]]
<1>1. SUFFICES ASSUME batch.accepted PROVE BatchIsStored("asharehub", db, price_rows, batch)
  BY DEF BatchIsStored
<1>2. /\ known = <<>> => /\ Distinct(stock_rows, stock_key)
                         /\ \A r \in Rows(stock_rows) : asharehub_stock_is_valid(r)
      /\ \A r \in Rows(price_rows) : price_is_valid(r)
      /\ Distinct(price_rows, price_key)
      /\ batch.stocks = stocks /\ batch.daily_prices = price_records(kept)
  BY <1>1 DEF asharehub_batch, Rejected, Batch, Where
<1> HIDE DEF batch
<1>3. Distinct(batch.stocks, stock_key)
  BY <1>2
<1>4. \A s \in Rows(batch.stocks) : stock_satisfies_table(s) <=> ~UnfitStock(s)
  <2>1. CASE known = <<>>
    BY <1>2, <2>1, AShareHubStockFits
  <2>2. CASE known # <<>>
    BY <1>2, <2>2, StoredStockFits
  <2> QED BY <2>1, <2>2
<1>5. (\E s \in Rows(batch.stocks) : ~stock_satisfies_table(s)) <=>
        UnencodableName(batch) \/ LongName(batch) \/ ReversedDates(batch)
  BY <1>4 DEF UnfitStock, UnencodableName, LongName, ReversedDates
<1>6. described = {s.stock : s \in Rows(batch.stocks)}
  BY <1>2
<1> HIDE DEF described, stocks
<1>7. /\ Rows(kept) = {r \in Rows(price_rows) : r.stock \in described}
      /\ Distinct(kept, price_key)
  BY <1>2 DEF Rows, Distinct
<1> HIDE DEF kept
<1>8. \A r \in Rows(kept) : r \in PriceInput /\ price_is_valid(r)
  BY <1>2, <1>7
<1>9. /\ Distinct(batch.daily_prices, price_key)
      /\ {p.stock : p \in Rows(batch.daily_prices)} = {r.stock : r \in Rows(kept)}
  BY <1>2, <1>7, <1>8, ValidPricesFit
<1>10. ~UndescribedStock(db, batch)
  <2>1. \A r \in Rows(kept) : r.stock \in described
    BY <1>7
  <2> QED BY <1>6, <1>9, <2>1 DEF UndescribedStock
<1>11. Refused("asharehub", db, batch) <=>
         \/ LargeNumber(batch) \/ TooManyRows(batch) \/ UndescribedStock(db, batch)
         \/ ~Distinct(batch.stocks, stock_key) \/ ~Distinct(batch.daily_prices, price_key)
         \/ \E s \in Rows(batch.stocks) : ~stock_satisfies_table(s)
  BY <1>3, <1>5, <1>9, <1>10 DEF Refused
<1>12. Rows(kept) \subseteq Rows(price_rows)
       /\ \A r \in Rows(price_rows) \ Rows(kept) : r.stock \notin {s.stock : s \in Rows(batch.stocks)}
  BY <1>6, <1>7
<1> QED BY <1>2, <1>8, <1>11, <1>12, OutcomeOfRows

LEMMA BaoStockBatchIsStored ==
  ASSUME NEW db, NEW stock, NEW rows, stock_satisfies_table(stock),
         \A r \in Rows(rows) : r \in PriceInput /\ r.stock = stock.stock
  PROVE  BatchIsStored("baostock", db, Where(rows, Trading), baostock_load(stock, rows))
<1> DEFINE batch == baostock_load(stock, rows)
           traded == Where(rows, Trading)
<1>1. SUFFICES ASSUME batch.accepted PROVE BatchIsStored("baostock", db, traded, batch)
  BY DEF BatchIsStored
<1>2. /\ \A r \in Rows(traded) : price_is_valid(r)
      /\ batch.stocks = <<stock>> /\ batch.daily_prices = price_records(traded)
  BY <1>1 DEF baostock_load, Rejected, Batch
<1> HIDE DEF batch
<1>3. \A r \in Rows(traded) : r \in PriceInput /\ r.stock = stock.stock
  BY DEF Where, Rows
<1> HIDE DEF traded
<1>4. Rows(batch.stocks) = {stock} /\ Distinct(batch.stocks, stock_key)
  BY <1>2 DEF Rows, Distinct
<1>5. ~UnencodableName(batch)
  <2>1. stock.name \in 0 .. NameLength
    BY DEF stock_satisfies_table
  <2>2. stock.name # Unencodable
    BY <2>1, ColumnAssumption
  <2> QED BY <1>4, <2>2 DEF UnencodableName
<1>6. \A r \in Rows(traded) : r \in PriceInput /\ price_is_valid(r)
  BY <1>2, <1>3
<1>7. ~UndescribedStock(db, batch)
  <2>1. {p.stock : p \in Rows(batch.daily_prices)} = {r.stock : r \in Rows(traded)}
    BY <1>2, <1>6, ValidPricesFit
  <2>2. stock.stock \in {s.stock : s \in Rows(batch.stocks)}
    BY <1>4
  <2>3. \A k \in {r.stock : r \in Rows(traded)} : k = stock.stock
    BY <1>3
  <2> QED BY <2>1, <2>2, <2>3 DEF UndescribedStock
<1>8. Refused("baostock", db, batch) <=>
        \/ LargeNumber(batch) \/ TooManyRows(batch) \/ UndescribedStock(db, batch)
        \/ ~Distinct(batch.stocks, stock_key) \/ ~Distinct(batch.daily_prices, price_key)
        \/ \E s \in Rows(batch.stocks) : ~stock_satisfies_table(s)
  BY <1>4, <1>5, <1>7 DEF Refused, RepeatedDate
<1> QED BY <1>2, <1>6, <1>8, OutcomeOfRows

\* The inputs of the theorem: rows with any fields and any tables.
BatchInput(source, feed) ==
  /\ source \in Sources
  /\ \A r \in Rows(feed.stocks) : r \in StockInput
  /\ \A r \in Rows(feed.prices) : r \in PriceInput

\* AcceptedBatchesAreStored for every batch of every provider, whatever the tables hold
\* and however large their columns are: the checks of the providers are as strict as the
\* types and constraints of the tables but for the cases named in Refused, in which the
\* batch is refused as a whole; no other row is changed by more than the rounding.
THEOREM BatchesAreStored ==
  ASSUME probe[1] = "batch" => BatchInput(probe[2], probe[4])
  PROVE  AcceptedBatchesAreStored
<1> DEFINE source == probe[2]
           db == probe[3]
           feed == probe[4]
<1>1. SUFFICES ASSUME BatchInput(source, feed)
               PROVE  BatchIsStored(source, db, FeedRows(source, feed), Loaded(source, feed))
  BY DEF AcceptedBatchesAreStored
<1>2. CASE source = "csv"
  BY <1>1, <1>2, CsvBatchIsStored DEF BatchInput, FeedRows, Loaded
<1>3. CASE source = "asharehub"
  <2>1. Distinct(<<>>, stock_key) /\ Rows(<<>>) = {}
    BY DEF Distinct, Rows
  <2> QED BY <1>1, <1>3, <2>1, AShareHubBatchIsStored DEF BatchInput, FeedRows, Loaded
<1>4. CASE source = "baostock"
  <2>1. stock_satisfies_table(Listed(1)) /\ Listed(1).stock = 1
    BY ColumnAssumption DEF Listed, StockRow, stock_satisfies_table, Statuses, Readable
  <2>2. \A r \in Rows(OwnRows(feed)) : r \in PriceInput /\ r.stock = Listed(1).stock
    BY <1>1, <2>1 DEF OwnRows, Where, Rows, BatchInput
  <2>3. FeedRows(source, feed) = Where(OwnRows(feed), Trading)
        /\ Loaded(source, feed) = baostock_load(Listed(1), OwnRows(feed))
    BY <1>4 DEF FeedRows, Loaded
  <2> HIDE DEF source, db, feed
  <2> QED BY <1>4, <2>1, <2>2, <2>3, BaoStockBatchIsStored
<1> QED BY <1>1, <1>2, <1>3, <1>4 DEF BatchInput, Sources

-----------------------------------------------------------------------------
(* Elements by their rank in an order *)

\* R orders S strictly and totally.
StrictlyOrders(R, S) ==
  /\ \A a \in S : <<a, a>> \notin R
  /\ \A a, b, c \in S : <<a, b>> \in R /\ <<b, c>> \in R => <<a, c>> \in R
  /\ \A a, b \in S : a = b \/ <<a, b>> \in R \/ <<b, a>> \in R

Below(R, S, a) == {b \in S : <<b, a>> \in R}

\* Each rank from zero up is that of exactly one element.
LEMMA RanksAreBijective ==
  ASSUME NEW S, NEW R, IsFiniteSet(S), StrictlyOrders(R, S)
  PROVE  /\ Cardinality(S) \in Nat
         /\ \A a \in S : /\ Cardinality(Below(R, S, a)) \in Nat
                         /\ Cardinality(Below(R, S, a)) < Cardinality(S)
         /\ \A a, b \in S : Cardinality(Below(R, S, a)) = Cardinality(Below(R, S, b)) => a = b
         /\ \A a, b \in S : <<a, b>> \in R =>
              Cardinality(Below(R, S, a)) < Cardinality(Below(R, S, b))
         /\ \A k \in Nat : k < Cardinality(S) => \E a \in S : Cardinality(Below(R, S, a)) = k
<1> DEFINE rank == [a \in S |-> Cardinality(Below(R, S, a))]
           n == Cardinality(S)
<1>1. n \in Nat
  BY FS_CardinalityType
<1>2. ASSUME NEW a \in S
      PROVE  /\ IsFiniteSet(Below(R, S, a)) /\ Below(R, S, a) \subseteq S
             /\ rank[a] \in Nat /\ rank[a] < n
  <2>1. Below(R, S, a) \subseteq S /\ a \notin Below(R, S, a)
    BY DEF Below, StrictlyOrders
  <2>2. IsFiniteSet(Below(R, S, a)) /\ Cardinality(Below(R, S, a)) <= n
        /\ Cardinality(Below(R, S, a)) # n
    BY <2>1, FS_Subset
  <2>3. Cardinality(Below(R, S, a)) \in Nat
    BY <2>2, FS_CardinalityType
  <2> HIDE DEF n
  <2> QED BY <2>1, <2>2, <2>3, <1>1
<1>3. ASSUME NEW a \in S, NEW b \in S, <<a, b>> \in R PROVE rank[a] < rank[b]
  <2>1. Below(R, S, a) \subseteq Below(R, S, b)
    BY <1>3 DEF Below, StrictlyOrders
  <2>2. a \in Below(R, S, b) /\ a \notin Below(R, S, a)
    BY <1>3 DEF Below, StrictlyOrders
  <2>3. IsFiniteSet(Below(R, S, b))
    BY <1>2
  <2>4. Cardinality(Below(R, S, a)) <= Cardinality(Below(R, S, b))
        /\ Cardinality(Below(R, S, a)) # Cardinality(Below(R, S, b))
    BY <2>1, <2>2, <2>3, FS_Subset
  <2>5. rank[a] \in Nat /\ rank[b] \in Nat
    BY <1>2
  <2> QED BY <2>4, <2>5
<1>4. ASSUME NEW a \in S, NEW b \in S, rank[a] = rank[b] PROVE a = b
  <2>1. rank[a] \in Nat /\ rank[b] \in Nat
    BY <1>2
  <2>2. <<a, b>> \notin R /\ <<b, a>> \notin R
    BY <2>1, <1>3, <1>4
  <2> QED BY <2>2 DEF StrictlyOrders
<1>5. rank \in Injection(S, 0 .. (n - 1))
  <2>1. \A a \in S : rank[a] \in 0 .. (n - 1)
    <3> HIDE DEF rank, n
    <3> QED BY <1>1, <1>2
  <2>2. rank \in [S -> 0 .. (n - 1)]
    BY <2>1
  <2> HIDE DEF rank, n
  <2> QED BY <2>2, <1>4 DEF Injection, IsInjective
<1>6. IsFiniteSet(0 .. (n - 1)) /\ Cardinality(0 .. (n - 1)) = n
  <2> HIDE DEF n
  <2>1. 0 \in Int /\ n - 1 \in Int
    BY <1>1
  <2>2. IsFiniteSet(0 .. (n - 1))
        /\ Cardinality(0 .. (n - 1)) = IF 0 > n - 1 THEN 0 ELSE n - 1 - 0 + 1
    BY <2>1, FS_Interval
  <2> QED BY <2>2, <1>1
<1>7. rank \in Surjection(S, 0 .. (n - 1))
  <2> HIDE DEF rank
  <2> QED BY <1>5, <1>6, FS_Injection
<1>8. ASSUME NEW k \in Nat, k < n PROVE \E a \in S : rank[a] = k
  <2>1. k \in 0 .. (n - 1)
    BY <1>1, <1>8
  <2> HIDE DEF rank, n
  <2> QED BY <1>7, <2>1 DEF Surjection
<1> QED BY <1>1, <1>2, <1>3, <1>4, <1>8

-----------------------------------------------------------------------------
(* The stock directory *)

\* Each record of a source has a key of its own.
IsDirectory(stocks) ==
  /\ IsFiniteSet(stocks)
  /\ \A s \in stocks : s.exchange \in Exchanges /\ s.symbol \in Int
  /\ \A s, t \in stocks : key(s) = key(t) => s = t

LEMMA PartOfDirectory ==
  ASSUME NEW stocks, IsDirectory(stocks), NEW part, part \subseteq stocks
  PROVE  IsDirectory(part)
BY FS_Subset DEF IsDirectory

\* A sorted listing shows each stock at exactly one place.
LEMMA InOrderShowsEach ==
  ASSUME NEW stocks, IsDirectory(stocks)
  PROVE  /\ InOrder(stocks) \in Seq(stocks) /\ Len(InOrder(stocks)) = Cardinality(stocks)
         /\ \A s \in stocks : \E i \in 1 .. Len(InOrder(stocks)) : InOrder(stocks)[i] = s
         /\ \A i, j \in 1 .. Len(InOrder(stocks)) : InOrder(stocks)[i] = InOrder(stocks)[j] => i = j
<1> DEFINE R == {p \in stocks \X stocks : Before(p[1], p[2])}
           n == Cardinality(stocks)
           Rank(s) == Cardinality({t \in stocks : Before(t, s)})
           listing == InOrder(stocks)
<1>1. StrictlyOrders(R, stocks)
  <2>1. \A s \in stocks : s.exchange \in Int /\ s.symbol \in Int
    BY DirectoryAssumption DEF IsDirectory
  <2>2. \A s, t \in stocks : s.exchange = t.exchange /\ s.symbol = t.symbol => s = t
    BY DEF IsDirectory, key
  <2>3. \A s, t \in stocks : <<s, t>> \in R <=> Before(s, t)
    OBVIOUS
  <2>4. \A s \in stocks : ~Before(s, s)
    BY <2>1 DEF Before
  <2>5. \A r, s, t \in stocks : Before(r, s) /\ Before(s, t) => Before(r, t)
    BY <2>1 DEF Before
  <2>6. \A s, t \in stocks : s = t \/ Before(s, t) \/ Before(t, s)
    BY <2>1, <2>2 DEF Before
  <2> HIDE DEF R
  <2> QED BY <2>3, <2>4, <2>5, <2>6 DEF StrictlyOrders
<1>2. \A s \in stocks : Below(R, stocks, s) = {t \in stocks : Before(t, s)}
  BY DEF Below
<1>3. /\ n \in Nat
      /\ \A s \in stocks : Rank(s) \in Nat /\ Rank(s) < n
      /\ \A s, t \in stocks : Rank(s) = Rank(t) => s = t
      /\ \A k \in Nat : k < n => \E s \in stocks : Rank(s) = k
  <2> HIDE DEF R
  <2>1. IsFiniteSet(stocks)
    BY DEF IsDirectory
  <2>2. \A s \in stocks : Rank(s) = Cardinality(Below(R, stocks, s))
    BY <1>2
  <2> HIDE DEF Rank
  <2> QED BY <1>1, <2>1, <2>2, RanksAreBijective
<1>4. listing = [i \in 1 .. n |-> CHOOSE s \in stocks : Rank(s) = i - 1]
  BY DEF InOrder
<1> HIDE DEF n, Rank, listing
<1>5. ASSUME NEW i \in 1 .. n PROVE listing[i] \in stocks /\ Rank(listing[i]) = i - 1
  <2>1. i - 1 \in Nat /\ i - 1 < n
    BY <1>3
  <2>2. \E s \in stocks : Rank(s) = i - 1
    BY <1>3, <2>1
  <2>3. listing[i] = CHOOSE s \in stocks : Rank(s) = i - 1
    BY <1>4
  <2> QED BY <2>2, <2>3
<1>6. listing \in Seq(stocks) /\ Len(listing) = n
  BY <1>3, <1>4, <1>5
<1>7. ASSUME NEW s \in stocks PROVE \E i \in 1 .. n : listing[i] = s
  <2>1. Rank(s) \in Nat /\ Rank(s) < n
    BY <1>3
  <2>2. PICK i \in 1 .. n : i - 1 = Rank(s)
    <3>1. \A k \in Nat : k < n => \E i \in 1 .. n : i - 1 = k
      <4> SUFFICES ASSUME NEW k \in Nat, k < n PROVE \E i \in 1 .. n : i - 1 = k
        OBVIOUS
      <4>1. k + 1 \in 1 .. n /\ k + 1 - 1 = k
        BY <1>3
      <4> QED BY <4>1
    <3> QED BY <2>1, <3>1
  <2>3. listing[i] \in stocks /\ Rank(listing[i]) = Rank(s)
    BY <1>5, <2>2
  <2> QED BY <1>3, <2>2, <2>3
<1>8. ASSUME NEW i \in 1 .. n, NEW j \in 1 .. n, listing[i] = listing[j] PROVE i = j
  <2>1. i - 1 = j - 1
    BY <1>5, <1>8
  <2> QED BY <2>1, <1>3
<1> QED BY <1>6, <1>7, <1>8 DEF listing, n

LEMMA SliceIs ==
  ASSUME NEW A, NEW s \in Seq(A), NEW offset \in Nat, NEW limit \in Nat
  PROVE  /\ Slice(s, offset, limit) \in Seq(A)
         /\ Len(Slice(s, offset, limit)) =
              IF Len(s) <= offset THEN 0
              ELSE IF offset + limit < Len(s) THEN limit ELSE Len(s) - offset
         /\ \A i \in 1 .. Len(Slice(s, offset, limit)) : Slice(s, offset, limit)[i] = s[offset + i]
<1> DEFINE m == offset + 1
           n == IF offset + limit < Len(s) THEN offset + limit ELSE Len(s)
<1>1. m \in Int /\ n \in Int /\ Len(s) \in Nat /\ n <= Len(s) /\ 1 <= m
  BY LenProperties
<1>2. \A i \in m .. n : s[i] \in A
  <2> HIDE DEF m, n
  <2>1. \A i \in m .. n : i \in 1 .. Len(s)
    BY <1>1
  <2> QED BY <2>1, ElementOfSeq
<1>3. /\ SubSeq(s, m, n) \in Seq(A)
      /\ Len(SubSeq(s, m, n)) = IF m <= n THEN n - m + 1 ELSE 0
      /\ \A i \in 1 .. n - m + 1 : SubSeq(s, m, n)[i] = s[m + i - 1]
  <2> HIDE DEF m, n
  <2> QED BY <1>1, <1>2, SubSeqProperties
<1>4. Slice(s, offset, limit) = SubSeq(s, m, n)
  BY DEF Slice
<1>5. Len(SubSeq(s, m, n)) = IF Len(s) <= offset THEN 0
              ELSE IF offset + limit < Len(s) THEN limit ELSE Len(s) - offset
  <2>1. CASE offset + limit < Len(s)
    <3>1. n = offset + limit
      BY <2>1
    <3> HIDE DEF n
    <3> QED BY <1>1, <1>3, <2>1, <3>1
  <2>2. CASE ~(offset + limit < Len(s))
    <3>1. n = Len(s)
      BY <2>2
    <3> HIDE DEF n
    <3> QED BY <1>1, <1>3, <2>2, <3>1
  <2> QED BY <2>1, <2>2
<1>6. ASSUME NEW i \in 1 .. Len(SubSeq(s, m, n)) PROVE SubSeq(s, m, n)[i] = s[offset + i]
  <2> HIDE DEF n
  <2>1. i \in 1 .. n - m + 1
    BY <1>1, <1>3
  <2>2. m + i - 1 = offset + i
    OBVIOUS
  <2>3. SubSeq(s, m, n)[i] = s[m + i - 1]
    BY <1>3, <2>1
  <2> QED BY <2>2, <2>3
<1> QED BY <1>3, <1>4, <1>5, <1>6

\* What two listings hold at a place, one after the other.
AtPlace(m, l, k) == IF k <= Len(m) THEN m[k] ELSE l[k - Len(m)]

\* A page that begins in one listing and goes on in the other is a slice of both.
LEMMA PageIs ==
  ASSUME NEW A, NEW m \in Seq(A), NEW l \in Seq(A), NEW offset \in Nat, NEW limit \in Nat
  PROVE  LET stocks == Slice(m, offset, limit)
             local_offset == IF offset > Len(m) THEN offset - Len(m) ELSE 0
             shown == stocks \o Slice(l, local_offset, limit - Len(stocks))
             total == Len(m) + Len(l)
         IN /\ Len(shown) = IF total <= offset THEN 0
                            ELSE IF offset + limit < total THEN limit ELSE total - offset
            /\ \A i \in 1 .. Len(shown) : shown[i] = AtPlace(m, l, offset + i)
<1> DEFINE stocks == Slice(m, offset, limit)
           local_offset == IF offset > Len(m) THEN offset - Len(m) ELSE 0
           rest == limit - Len(stocks)
           locals == Slice(l, local_offset, rest)
           shown == stocks \o locals
           total == Len(m) + Len(l)
<1>1. Len(m) \in Nat /\ Len(l) \in Nat
  BY LenProperties
<1>2. /\ stocks \in Seq(A)
      /\ Len(stocks) = IF Len(m) <= offset THEN 0
                       ELSE IF offset + limit < Len(m) THEN limit ELSE Len(m) - offset
      /\ \A i \in 1 .. Len(stocks) : stocks[i] = m[offset + i]
  <2> HIDE DEF shown, locals, rest, local_offset, total
  <2>1. Slice(m, offset, limit) \in Seq(A)
    BY SliceIs
  <2>2. Len(Slice(m, offset, limit)) =
          IF Len(m) <= offset THEN 0
          ELSE IF offset + limit < Len(m) THEN limit ELSE Len(m) - offset
    BY SliceIs
  <2>3. \A i \in 1 .. Len(Slice(m, offset, limit)) : Slice(m, offset, limit)[i] = m[offset + i]
    BY SliceIs
  <2> QED BY <2>1, <2>2, <2>3
<1> HIDE DEF stocks
<1>3. local_offset \in Nat /\ rest \in Nat
  BY <1>1, <1>2
<1>4. /\ locals \in Seq(A)
      /\ Len(locals) = IF Len(l) <= local_offset THEN 0
                       ELSE IF local_offset + rest < Len(l) THEN rest ELSE Len(l) - local_offset
      /\ \A i \in 1 .. Len(locals) : locals[i] = l[local_offset + i]
  <2> HIDE DEF rest, local_offset
  <2>1. \A s \in Seq(A), o \in Nat, n \in Nat :
          /\ Slice(s, o, n) \in Seq(A)
          /\ Len(Slice(s, o, n)) = IF Len(s) <= o THEN 0
                                   ELSE IF o + n < Len(s) THEN n ELSE Len(s) - o
          /\ \A i \in 1 .. Len(Slice(s, o, n)) : Slice(s, o, n)[i] = s[o + i]
    BY SliceIs
  <2> QED BY <1>3, <2>1
<1> HIDE DEF locals
<1>5. /\ Len(shown) = Len(stocks) + Len(locals)
      /\ \A i \in 1 .. Len(stocks) + Len(locals) :
           shown[i] = IF i <= Len(stocks) THEN stocks[i] ELSE locals[i - Len(stocks)]
  BY <1>2, <1>4, ConcatProperties
<1> HIDE DEF shown
<1> DEFINE a == Len(m)
           b == Len(l)
           c == Len(stocks)
           d == Len(locals)
<1>6. /\ a \in Nat /\ b \in Nat /\ c \in Nat /\ d \in Nat /\ Len(shown) = c + d
      /\ c = IF a <= offset THEN 0 ELSE IF offset + limit < a THEN limit ELSE a - offset
      /\ d = IF b <= local_offset THEN 0
             ELSE IF local_offset + rest < b THEN rest ELSE b - local_offset
  <2> HIDE DEF local_offset, rest
  <2> QED BY <1>1, <1>2, <1>4, <1>5, LenProperties
<1> HIDE DEF a, b, c, d
<1>7. /\ local_offset = IF offset > a THEN offset - a ELSE 0
      /\ rest = limit - c /\ total = a + b
  BY DEF a, b, c, d
<1> HIDE DEF local_offset, rest, total
<1>8. Len(shown) = IF total <= offset THEN 0
                   ELSE IF offset + limit < total THEN limit ELSE total - offset
  BY <1>6, <1>7
<1>9. ASSUME NEW i \in 1 .. Len(shown) PROVE shown[i] = AtPlace(m, l, offset + i)
  <2>1. CASE i <= Len(stocks)
    <3>1. shown[i] = stocks[i] /\ stocks[i] = m[offset + i]
      BY <1>2, <1>5, <1>6, <2>1 DEF c, d
    <3>2. offset + i <= a
      BY <1>6, <2>1 DEF c
    <3> QED BY <3>1, <3>2 DEF AtPlace, a
  <2>2. CASE ~(i <= Len(stocks))
    <3> DEFINE k == i - Len(stocks)
    <3>1. k \in 1 .. Len(locals) /\ shown[i] = locals[k]
      <4>1. i \in 1 .. c + d /\ ~(i <= c)
        BY <1>6, <2>2 DEF c
      <4>2. i - c \in 1 .. d
        BY <1>6, <4>1
      <4>3. shown[i] = locals[i - c]
        BY <1>5, <4>1 DEF c, d
      <4> QED BY <4>2, <4>3 DEF c, d
    <3>2. shown[i] = l[local_offset + k]
      BY <1>4, <3>1
    <3>3. offset + i - a = local_offset + (i - c) /\ ~(offset + i <= a)
      <4>1. i \in Nat /\ ~(i <= c) /\ i <= c + d
        BY <1>6, <2>2 DEF c
      <4> QED BY <4>1, <1>6, <1>7
    <3> QED BY <3>2, <3>3 DEF AtPlace, a, c
  <2> QED BY <2>1, <2>2
<1> QED BY <1>8, <1>9 DEF shown, stocks, locals, rest, local_offset, total

OnOnePage(k, pages, limit) ==
  \E p \in pages, i \in 1 .. limit :
    /\ (p - 1) * limit + i = k
    /\ \A q \in Nat, j \in 1 .. limit : q >= 1 /\ (q - 1) * limit + j = k => q = p /\ j = i

\* Of consecutive pages of the same length, a place is on one page only.
LEMMA PlaceOnPage ==
  ASSUME NEW limit \in Nat, limit >= 1, NEW k \in Nat, k >= 1, NEW total \in Nat, k <= total
  PROVE  OnOnePage(k, 1 .. ((total + limit - 1) \div limit), limit)
<1> DEFINE r == (k - 1) \div limit
           i == ((k - 1) % limit) + 1
           last == (total + limit - 1) \div limit
<1>1. r \in Nat /\ i \in 1 .. limit /\ r * limit + i = k
  OBVIOUS
<1>2. last \in Nat /\ last * limit <= total + limit - 1 /\ total + limit - 1 < (last + 1) * limit
  OBVIOUS
<1> HIDE DEF r, i, last
<1>3. r + 1 \in 1 .. last
  <2>1. r * limit < total
    BY <1>1
  <2>2. SUFFICES ASSUME last < r + 1 PROVE FALSE
    BY <1>1, <1>2
  <2>3. (last + 1) * limit <= (r + 1) * limit
    BY <1>1, <1>2, <2>2
  <2>4. (r + 1) * limit = r * limit + limit
    BY <1>1
  <2> QED BY <1>1, <1>2, <2>1, <2>3, <2>4
<1>4. ASSUME NEW q \in Nat, NEW j \in 1 .. limit, q >= 1, (q - 1) * limit + j = k
      PROVE  q = r + 1 /\ j = i
  <2>1. CASE q - 1 < r
    <3>1. (q - 1 + 1) * limit <= r * limit
      BY <1>1, <2>1
    <3> QED BY <1>1, <1>4, <3>1
  <2>2. CASE r < q - 1
    <3>1. (r + 1) * limit <= (q - 1) * limit
      BY <1>1, <2>2
    <3> QED BY <1>1, <1>4, <3>1
  <2>3. CASE r = q - 1
    BY <1>1, <1>4, <2>3
  <2> QED BY <1>1, <2>1, <2>2, <2>3
<1> QED BY <1>1, <1>3, <1>4 DEF OnOnePage, last

\* The two listings one after the other hold each stock asked for once.
LEMMA ListingsHoldEach ==
  ASSUME NEW A, NEW B, IsDirectory(A), IsDirectory(B), A \cap B = {}
  PROVE  LET m == InOrder(A)
             l == InOrder(B)
         IN /\ m \in Seq(A \cup B) /\ l \in Seq(A \cup B)
            /\ Len(m) \in Nat /\ Len(l) \in Nat
            /\ Len(m) + Len(l) = Cardinality(A \cup B)
            /\ \A k \in 1 .. Len(m) + Len(l) : AtPlace(m, l, k) \in A \cup B
            /\ \A s \in A \cup B : \E k \in 1 .. Len(m) + Len(l) :
                 /\ AtPlace(m, l, k) = s
                 /\ \A h \in 1 .. Len(m) + Len(l) : AtPlace(m, l, h) = s => h = k
<1> DEFINE m == InOrder(A)
           l == InOrder(B)
           a == Len(m)
           b == Len(l)
<1>1. /\ m \in Seq(A) /\ a = Cardinality(A)
      /\ \A s \in A : \E i \in 1 .. a : m[i] = s
      /\ \A i, j \in 1 .. a : m[i] = m[j] => i = j
  BY InOrderShowsEach
<1>2. /\ l \in Seq(B) /\ b = Cardinality(B)
      /\ \A s \in B : \E i \in 1 .. b : l[i] = s
      /\ \A i, j \in 1 .. b : l[i] = l[j] => i = j
  BY InOrderShowsEach
<1> HIDE DEF m, l
<1>3. a \in Nat /\ b \in Nat
  BY <1>1, <1>2, LenProperties
<1>4. m \in Seq(A \cup B) /\ l \in Seq(A \cup B)
  <2>1. A \subseteq A \cup B /\ B \subseteq A \cup B
    OBVIOUS
  <2> QED BY <1>1, <1>2, <2>1, SeqMonotonic
<1>5. (\A i \in 1 .. a : m[i] \in A) /\ (\A i \in 1 .. b : l[i] \in B)
  BY <1>1, <1>2, ElementOfSeq
<1>6. a + b = Cardinality(A \cup B)
  <2>1. IsFiniteSet(A) /\ IsFiniteSet(B)
    BY DEF IsDirectory
  <2>2. Cardinality(A \cup B) = Cardinality(A) + Cardinality(B) - Cardinality(A \cap B)
    BY <2>1, FS_Union
  <2>3. Cardinality(A \cap B) = 0
    BY FS_EmptySet
  <2> QED BY <1>1, <1>2, <1>3, <2>2, <2>3
<1> HIDE DEF a, b
<1>7. ASSUME NEW k \in 1 .. a + b
      PROVE  \/ k \in 1 .. a /\ AtPlace(m, l, k) = m[k] /\ m[k] \in A
             \/ k - a \in 1 .. b /\ AtPlace(m, l, k) = l[k - a] /\ l[k - a] \in B
  <2>1. CASE k <= a
    BY <1>3, <1>5, <2>1 DEF AtPlace, a
  <2>2. CASE ~(k <= a)
    <3>1. k - a \in 1 .. b
      BY <1>3, <2>2
    <3> QED BY <1>5, <2>2, <3>1 DEF AtPlace, a
  <2> QED BY <2>1, <2>2
<1>8. ASSUME NEW s \in A \cup B
      PROVE  \E k \in 1 .. a + b : AtPlace(m, l, k) = s
  <2>1. CASE s \in A
    <3>1. PICK i \in 1 .. a : m[i] = s
      BY <1>1, <2>1 DEF a
    <3>2. i \in 1 .. a + b /\ i <= a
      BY <1>3
    <3> QED BY <3>1, <3>2 DEF AtPlace, a
  <2>2. CASE s \in B
    <3>1. PICK i \in 1 .. b : l[i] = s
      BY <1>2, <2>2 DEF b
    <3>2. a + i \in 1 .. a + b /\ ~(a + i <= a) /\ a + i - a = i
      BY <1>3
    <3> QED BY <3>1, <3>2 DEF AtPlace, a
  <2> QED BY <2>1, <2>2
<1>9. ASSUME NEW k \in 1 .. a + b, NEW h \in 1 .. a + b, AtPlace(m, l, k) = AtPlace(m, l, h)
      PROVE  h = k
  <2>1. CASE k \in 1 .. a /\ AtPlace(m, l, k) = m[k] /\ m[k] \in A
    <3>1. h \in 1 .. a /\ AtPlace(m, l, h) = m[h]
      BY <1>7, <1>9, <2>1
    <3> QED BY <1>1, <1>9, <2>1, <3>1 DEF a
  <2>2. CASE k - a \in 1 .. b /\ AtPlace(m, l, k) = l[k - a] /\ l[k - a] \in B
    <3>1. h - a \in 1 .. b /\ AtPlace(m, l, h) = l[h - a]
      BY <1>7, <1>9, <2>2
    <3>2. h - a = k - a
      BY <1>2, <1>9, <2>2, <3>1 DEF b
    <3> QED BY <1>3, <3>2
  <2> QED BY <1>7, <2>1, <2>2
<1>10. \A k \in 1 .. a + b : AtPlace(m, l, k) \in A \cup B
  BY <1>7
<1> QED BY <1>3, <1>4, <1>6, <1>8, <1>9, <1>10 DEF m, l, a, b

LEMMA OneStock ==
  ASSUME NEW s, NEW request, request.symbol = s.symbol,
         request.suffix \in Exchanges \cup {NotGiven},
         request.exchange \in Exchanges \cup {NotGiven}, s.exchange \in Exchanges,
         {request.suffix, request.exchange} \ {NotGiven} = {s.exchange}
  PROVE  stock_locator(request) = {[symbol |-> s.symbol, exchange |-> s.exchange]}
<1> DEFINE given == {request.suffix, request.exchange} \ {NotGiven}
<1>1. given = {s.exchange} /\ given \subseteq Exchanges /\ given # {}
  OBVIOUS
<1>2. Cardinality(given) = 1
  BY <1>1, FS_Singleton
<1>3. stock_locator(request)
      = CASE ~(given \subseteq Exchanges) \/ Cardinality(given) = 2 -> {}
          [] given = {} -> {[symbol |-> request.symbol, exchange |-> NotGiven]}
          [] OTHER -> {[symbol |-> request.symbol, exchange |-> e] : e \in given}
  BY DEF stock_locator
<1> HIDE DEF given
<1>4. stock_locator(request) = {[symbol |-> request.symbol, exchange |-> e] : e \in given}
  BY <1>1, <1>2, <1>3
<1> QED BY <1>1, <1>4

\* The record of a stock among those of two places, the first of them first.
LEMMA ResolvedIs ==
  ASSUME NEW first, NEW second, IsDirectory(first), IsDirectory(second),
         NEW s, NEW request, s.exchange \in Exchanges,
         stock_locator(request) = {[symbol |-> s.symbol, exchange |-> s.exchange]},
         s \in first \/ s \in second
  PROVE  LET found == Resolved(first, second, request)
         IN key(found) = key(s) /\ (s \in first \/ key(s) \notin Keys(first) => found = s)
<1> DEFINE Found(stocks) == UNION {find_stocks(stocks, l.symbol, l.exchange) : l \in stock_locator(request)}
           matches == IF Found(first) # {} THEN Found(first) ELSE Found(second)
<1>1. s.exchange # NotGiven
  BY DirectoryAssumption
<1>2. ASSUME NEW stocks PROVE Found(stocks) = {t \in stocks : key(t) = key(s)}
  <2>1. Found(stocks) = find_stocks(stocks, s.symbol, s.exchange)
    OBVIOUS
  <2>2. find_stocks(stocks, s.symbol, s.exchange) = {t \in stocks : key(t) = key(s)}
    BY <1>1 DEF find_stocks, key
  <2> QED BY <2>1, <2>2
<1>3. ASSUME NEW stocks, IsDirectory(stocks), NEW t \in Found(stocks)
      PROVE  Found(stocks) = {t} /\ key(t) = key(s) /\ (s \in stocks => t = s)
  <2>1. t \in stocks /\ key(t) = key(s)
    BY <1>2, <1>3
  <2>2. \A u \in stocks : key(u) = key(t) => u = t
    BY <1>3, <2>1 DEF IsDirectory
  <2> HIDE DEF Found
  <2> QED BY <1>2, <2>1, <2>2
<1>4. PICK t : matches = {t} /\ key(t) = key(s) /\ (s \in first \/ key(s) \notin Keys(first) => t = s)
  <2>1. CASE Found(first) # {}
    <3>1. PICK t \in Found(first) : TRUE
      BY <2>1
    <3>2. matches = {t} /\ key(t) = key(s) /\ (s \in first => t = s)
      BY <1>3, <2>1, <3>1
    <3>3. key(s) \in Keys(first)
      BY <1>2, <3>1 DEF Keys
    <3> HIDE DEF Found, matches
    <3> QED BY <3>2, <3>3
  <2>2. CASE Found(first) = {}
    <3>1. s \notin first /\ s \in second
      BY SMTT(30), <1>2, <2>2
    <3>2. s \in Found(second)
      BY <1>2, <3>1
    <3>3. matches = {s}
      BY <1>3, <2>2, <3>2
    <3> HIDE DEF Found, matches
    <3> QED BY <3>3
  <2> QED BY <2>1, <2>2
<1>5. Cardinality(matches) = 1 /\ matches # {} /\ (CHOOSE u \in matches : TRUE) = t
  <2> HIDE DEF matches
  <2> QED BY <1>4, FS_Singleton
<1>6. Resolved(first, second, request)
      = CASE stock_locator(request) = {} -> "unsupported_stock_symbol"
          [] stock_locator(request) # {} /\ matches = {} -> "stock_not_found"
          [] Cardinality(matches) > 1 -> "ambiguous_stock_symbol"
          [] OTHER -> CHOOSE u \in matches : TRUE
  BY DEF Resolved
<1>7. stock_locator(request) # {}
  OBVIOUS
<1>8. Resolved(first, second, request) = t
  <2> HIDE DEF matches
  <2> DEFINE c == Cardinality(matches)
  <2>1. ~(c > 1)
    BY <1>5
  <2> DEFINE located == stock_locator(request)
             u == CHOOSE v \in matches : TRUE
  <2>2. Resolved(first, second, request)
        = CASE located = {} -> "unsupported_stock_symbol"
            [] located # {} /\ matches = {} -> "stock_not_found"
            [] c > 1 -> "ambiguous_stock_symbol"
            [] OTHER -> u
    BY <1>6
  <2>3. u = t /\ matches # {} /\ located # {}
    BY <1>5, <1>7
  <2> HIDE DEF c, located, u
  <2> QED BY <2>1, <2>2, <2>3
<1> QED BY <1>4, <1>8

LEMMA StocksLeadBack ==
  ASSUME NEW database, NEW cache, IsDirectory(database), IsDirectory(cache), NEW s,
         s \in database \/ (s \in cache /\ key(s) \notin Keys(database))
  PROVE  LeadsBack(database, cache, s)
<1>1. SUFFICES ASSUME NEW suffix \in Exchanges \cup {NotGiven},
                      NEW exchange \in Exchanges \cup {NotGiven},
                      {suffix, exchange} \ {NotGiven} = {s.exchange}
               PROVE  LET request == [symbol |-> s.symbol, suffix |-> suffix, exchange |-> exchange]
                      IN /\ resolve_stock(database, cache, request) = s
                         /\ key(resolve_priced_stock(database, cache, request)) = key(s)
  BY DEF LeadsBack
<1> DEFINE request == [symbol |-> s.symbol, suffix |-> suffix, exchange |-> exchange]
<1>2. s.exchange \in Exchanges
  BY DEF IsDirectory
<1>3. stock_locator(request) = {[symbol |-> s.symbol, exchange |-> s.exchange]}
  <2>1. request.symbol = s.symbol /\ request.suffix = suffix /\ request.exchange = exchange
    OBVIOUS
  <2> HIDE DEF request
  <2> QED BY <1>1, <1>2, <2>1, OneStock
<1> HIDE DEF request
<1>4. Resolved(database, cache, request) = s
  BY <1>2, <1>3, ResolvedIs
<1>5. key(Resolved(cache, database, request)) = key(s)
  BY <1>2, <1>3, ResolvedIs
<1> QED BY <1>4, <1>5 DEF request, resolve_stock, resolve_priced_stock

\* PagesListEveryStock for every database and cache, filter and page size.
LEMMA StocksAreListedOnce ==
  ASSUME NEW database, NEW cache, IsDirectory(database), IsDirectory(cache),
         NEW filter, NEW limit \in Nat, limit >= 1
  PROVE  ListedOnce(database, cache, filter, limit)
<1> DEFINE A == InDatabase(database, filter)
           B == InCache(cache, filter, Keys(database))
           wanted == A \cup B
           m == InOrder(A)
           l == InOrder(B)
           total == Len(m) + Len(l)
           Final == (total + limit - 1) \div limit
           Shown(p) == get_stocks(database, cache, filter, limit, (p - 1) * limit)
<1>1. /\ A \subseteq database /\ B \subseteq cache
      /\ \A s \in B : key(s) \notin Keys(database)
  BY DEF InDatabase, InCache
<1>2. A \cap B = {}
  BY <1>1 DEF Keys
<1>3. IsDirectory(A) /\ IsDirectory(B)
  <2> HIDE DEF A, B
  <2> QED BY <1>1, PartOfDirectory
<1>4. \A offset : get_stocks(database, cache, filter, limit, offset).total = total
  BY DEF get_stocks, list_stocks, cached_list_stocks
<1>5. \A offset : get_stocks(database, cache, filter, limit, offset).items
        = Slice(m, offset, limit)
            \o Slice(l, IF offset > Len(m) THEN offset - Len(m) ELSE 0, limit - Len(Slice(m, offset, limit)))
  BY DEF get_stocks, list_stocks, cached_list_stocks
<1> HIDE DEF A, B
<1>6. /\ m \in Seq(wanted) /\ l \in Seq(wanted)
      /\ Len(m) \in Nat /\ Len(l) \in Nat /\ total = Cardinality(wanted)
      /\ \A k \in 1 .. total : AtPlace(m, l, k) \in wanted
      /\ \A s \in wanted : \E k \in 1 .. total :
           /\ AtPlace(m, l, k) = s
           /\ \A h \in 1 .. total : AtPlace(m, l, h) = s => h = k
  BY <1>2, <1>3, ListingsHoldEach
<1> HIDE DEF m, l, wanted
<1>7. total \in Nat
  BY <1>6
<1>8. ASSUME NEW p \in Nat, p >= 1
      PROVE  LET offset == (p - 1) * limit
                 listed == Shown(p).items
             IN /\ offset \in Nat
                /\ Len(listed) = IF total <= offset THEN 0
                                 ELSE IF offset + limit < total THEN limit ELSE total - offset
                /\ \A i \in 1 .. Len(listed) : listed[i] = AtPlace(m, l, offset + i)
  <2> DEFINE offset == (p - 1) * limit
  <2>1. offset \in Nat
    <3>1. p - 1 \in Nat
      BY <1>8
    <3> QED BY <3>1
  <2> HIDE DEF offset
  <2>2. Shown(p).items
        = Slice(m, offset, limit)
            \o Slice(l, IF offset > Len(m) THEN offset - Len(m) ELSE 0, limit - Len(Slice(m, offset, limit)))
    BY <1>5 DEF offset
  <2>3. LET stocks == Slice(m, offset, limit)
            local_offset == IF offset > Len(m) THEN offset - Len(m) ELSE 0
            shown == stocks \o Slice(l, local_offset, limit - Len(stocks))
        IN /\ Len(shown) = IF total <= offset THEN 0
                           ELSE IF offset + limit < total THEN limit ELSE total - offset
           /\ \A i \in 1 .. Len(shown) : shown[i] = AtPlace(m, l, offset + i)
    BY <1>6, <2>1, PageIs
  <2> HIDE DEF total, Shown
  <2>4. /\ Len(Shown(p).items) = IF total <= offset THEN 0
                                 ELSE IF offset + limit < total THEN limit ELSE total - offset
        /\ \A i \in 1 .. Len(Shown(p).items) : Shown(p).items[i] = AtPlace(m, l, offset + i)
    BY <2>2, <2>3
  <2> QED BY <2>1, <2>4 DEF offset
<1>9. Final \in Nat
  <2> HIDE DEF total
  <2> QED BY <1>7
<1>10. (\A p : Shown(p).total = total) /\ get_stocks(database, cache, filter, limit, 0).total = total
  BY <1>4
<1> HIDE DEF total, Shown, Final
<1>11. ASSUME NEW p \in 1 .. Final
       PROVE  /\ Len(Shown(p).items) \in Nat /\ Len(Shown(p).items) <= limit
              /\ \A i \in 1 .. Len(Shown(p).items) :
                   /\ (p - 1) * limit + i \in 1 .. total
                   /\ Shown(p).items[i] = AtPlace(m, l, (p - 1) * limit + i)
              /\ \A i \in 1 .. limit : (p - 1) * limit + i <= total => i <= Len(Shown(p).items)
  <2> DEFINE offset == (p - 1) * limit
             n == Len(Shown(p).items)
  <2>1. p \in Nat /\ p >= 1
    BY <1>9
  <2>2. /\ offset \in Nat
        /\ n = IF total <= offset THEN 0 ELSE IF offset + limit < total THEN limit ELSE total - offset
        /\ \A i \in 1 .. n : Shown(p).items[i] = AtPlace(m, l, offset + i)
    BY <1>8, <2>1
  <2> HIDE DEF offset, n
  <2>3. n \in Nat /\ n <= limit
    BY <1>7, <2>2
  <2>4. \A i \in 1 .. n : offset + i \in 1 .. total
    BY <1>7, <2>2, <2>3
  <2>5. \A i \in 1 .. limit : offset + i <= total => i <= n
    BY <1>7, <2>2, <2>3
  <2> QED BY <2>2, <2>3, <2>4, <2>5 DEF offset, n
<1>12. ASSUME NEW p \in 1 .. Final, NEW i \in 1 .. Len(Shown(p).items)
       PROVE  Shown(p).items[i] \in wanted
  BY <1>6, <1>11
<1> DEFINE Shows(p, i, s) == i <= Len(Shown(p).items) /\ Shown(p).items[i] = s
<1>13. ASSUME NEW s \in wanted
       PROVE  \E p \in 1 .. Final, i \in 1 .. limit :
                /\ Shows(p, i, s)
                /\ \A q \in 1 .. Final, j \in 1 .. limit : Shows(q, j, s) => q = p /\ j = i
  <2>1. PICK k \in 1 .. total : /\ AtPlace(m, l, k) = s
                               /\ \A h \in 1 .. total : AtPlace(m, l, h) = s => h = k
    BY <1>6
  <2>2. k \in Nat /\ k >= 1 /\ k <= total
    BY <1>7
  <2>3. PICK p \in 1 .. Final, i \in 1 .. limit :
          /\ (p - 1) * limit + i = k
          /\ \A q \in Nat, j \in 1 .. limit : q >= 1 /\ (q - 1) * limit + j = k => q = p /\ j = i
    <3>1. OnOnePage(k, 1 .. Final, limit)
      BY <1>7, <2>2, PlaceOnPage DEF Final
    <3> QED BY <3>1 DEF OnOnePage
  <2>4. i <= Len(Shown(p).items)
    BY <1>11, <2>2, <2>3
  <2>5. i \in 1 .. Len(Shown(p).items)
    BY <1>11, <2>4
  <2>6. Shows(p, i, s)
    <3>1. Shown(p).items[i] = AtPlace(m, l, (p - 1) * limit + i)
      BY <1>11, <2>5
    <3>2. (p - 1) * limit + i = k
      BY <2>3
    <3> QED BY <2>1, <2>4, <3>1, <3>2
  <2>7. ASSUME NEW q \in 1 .. Final, NEW j \in 1 .. limit, Shows(q, j, s)
        PROVE  q = p /\ j = i
    <3>1. j \in 1 .. Len(Shown(q).items)
      BY <1>11, <2>7
    <3>2. AtPlace(m, l, (q - 1) * limit + j) = s /\ (q - 1) * limit + j \in 1 .. total
      BY <1>11, <2>7, <3>1
    <3>3. (q - 1) * limit + j = k
      BY <2>1, <3>2
    <3>4. q \in Nat /\ q >= 1
      BY <1>9
    <3> QED BY <2>3, <3>3, <3>4
  <2> HIDE DEF Shows
  <2> QED BY <2>6, <2>7
<1>14. \A s \in wanted : LeadsBack(database, cache, s)
  <2>1. \A s \in wanted : s \in database \/ (s \in cache /\ key(s) \notin Keys(database))
    BY <1>1 DEF wanted
  <2> QED BY <2>1, StocksLeadBack
<1>15. total = Cardinality(wanted)
  BY <1>6
<1>16. \A p \in 1 .. Final : Len(Shown(p).items) <= limit
  BY <1>11
<1>17. /\ total = Cardinality(wanted)
       /\ \A p \in 1 .. Final : /\ Shown(p).total = total /\ Len(Shown(p).items) <= limit
                                /\ \A i \in 1 .. Len(Shown(p).items) : Shown(p).items[i] \in wanted
       /\ \A s \in wanted : \E p \in 1 .. Final, i \in 1 .. limit :
            /\ Shows(p, i, s)
            /\ \A q \in 1 .. Final, j \in 1 .. limit : Shows(q, j, s) => q = p /\ j = i
       /\ \A s \in wanted : LeadsBack(database, cache, s)
  <2> HIDE DEF Shows
  <2> QED BY <1>10, <1>12, <1>13, <1>14, <1>15, <1>16
<1>18. get_stocks(database, cache, filter, limit, 0).total = total
  BY <1>10
<1>19. LET sum == get_stocks(database, cache, filter, limit, 0).total
           pages == 1 .. ((sum + limit - 1) \div limit)
       IN sum = total /\ pages = 1 .. Final
  BY <1>18 DEF Final
<1>20. SUFFICES LET sum == get_stocks(database, cache, filter, limit, 0).total
                    pages == 1 .. ((sum + limit - 1) \div limit)
                IN /\ sum = Cardinality(wanted)
                   /\ \A p \in pages : /\ Shown(p).total = sum /\ Len(Shown(p).items) <= limit
                                       /\ \A i \in 1 .. Len(Shown(p).items) : Shown(p).items[i] \in wanted
                   /\ \A s \in wanted : \E p \in pages, i \in 1 .. limit :
                        /\ Shows(p, i, s)
                        /\ \A q \in pages, j \in 1 .. limit : Shows(q, j, s) => q = p /\ j = i
                   /\ \A s \in wanted : LeadsBack(database, cache, s)
  BY DEF ListedOnce, Shown, wanted, A, B
<1> HIDE DEF Shows
<1> QED BY <1>17, <1>19

\* PagesListEveryStock, for databases and caches of any size whose records each have a key
\* of their own, every filter and every page size.
THEOREM EveryStockIsListed ==
  ASSUME probe[1] = "directory" => /\ IsDirectory(probe[2]) /\ IsDirectory(probe[3])
                                   /\ probe[5] \in Nat \ {0}
  PROVE  PagesListEveryStock
<1>1. SUFFICES ASSUME probe[1] = "directory"
               PROVE  ListedOnce(probe[2], probe[3], probe[4], probe[5])
  BY DEF PagesListEveryStock
<1>2. probe[5] \in Nat /\ probe[5] >= 1
  BY <1>1
<1> QED BY <1>1, <1>2, StocksAreListedOnce

-----------------------------------------------------------------------------
(* The pages of a service that gains rows *)

IsRows(s) == s \in Seq(Rows(s))

LEMMA SeqIsRows ==
  ASSUME NEW A, NEW s \in Seq(A)
  PROVE  IsRows(s) /\ DOMAIN s = 1 .. Len(s) /\ Len(s) \in Nat
<1>1. DOMAIN s = 1 .. Len(s) /\ Len(s) \in Nat
  BY LenProperties
<1>2. \A i \in 1 .. Len(s) : s[i] \in Rows(s)
  BY <1>1 DEF Rows
<1>3. s \in Seq(Rows(s))
  BY <1>1, <1>2, IsASeq
<1> QED BY <1>1, <1>3 DEF IsRows

LEMMA RowsHaveLength ==
  ASSUME NEW s, IsRows(s)
  PROVE  DOMAIN s = 1 .. Len(s) /\ Len(s) \in Nat
BY SeqIsRows DEF IsRows

LEMMA NoRows == IsRows(<<>>) /\ Rows(<<>>) = {}
<1>1. IsRows(<<>>)
  BY SeqIsRows, EmptySeq
<1> QED BY <1>1 DEF Rows

LEMMA RowsOfBoth ==
  ASSUME NEW s, NEW t, IsRows(s), IsRows(t)
  PROVE  IsRows(s \o t) /\ \A r : r \in Rows(s) \/ r \in Rows(t) => r \in Rows(s \o t)
<1> DEFINE A == Rows(s) \cup Rows(t)
<1>1. s \in Seq(A) /\ t \in Seq(A)
  <2>1. Rows(s) \subseteq A /\ Rows(t) \subseteq A
    OBVIOUS
  <2> QED BY <2>1, SeqMonotonic DEF IsRows
<1>2. /\ s \o t \in Seq(A) /\ Len(s \o t) = Len(s) + Len(t)
      /\ \A i \in 1 .. Len(s) + Len(t) :
           (s \o t)[i] = IF i <= Len(s) THEN s[i] ELSE t[i - Len(s)]
  <2> HIDE DEF A
  <2> QED BY <1>1, ConcatProperties
<1> HIDE DEF A
<1> DEFINE both == s \o t
           a == Len(s)
           b == Len(t)
<1>3. DOMAIN both = 1 .. a + b /\ DOMAIN s = 1 .. a /\ DOMAIN t = 1 .. b /\ a \in Nat /\ b \in Nat
  BY <1>1, <1>2, SeqIsRows
<1>4. \A i \in 1 .. a + b : both[i] = IF i <= a THEN s[i] ELSE t[i - a]
  BY <1>2
<1>5. IsRows(both)
  BY <1>2, SeqIsRows
<1> HIDE DEF both, a, b
<1>6. ASSUME NEW r \in Rows(s) PROVE r \in Rows(both)
  <2>1. PICK i \in 1 .. a : r = s[i]
    BY <1>3 DEF Rows
  <2>2. i \in 1 .. a + b /\ i <= a
    BY <1>3
  <2>3. both[i] = r
    BY <1>4, <2>1, <2>2
  <2> QED BY <1>3, <2>2, <2>3 DEF Rows
<1>7. ASSUME NEW r \in Rows(t) PROVE r \in Rows(both)
  <2>1. PICK i \in 1 .. b : r = t[i]
    BY <1>3 DEF Rows
  <2>2. PICK h \in 1 .. a + b : ~(h <= a) /\ h - a = i
    <3> DEFINE h == a + i
    <3>1. h \in 1 .. a + b /\ ~(h <= a) /\ h - a = i
      BY <1>3
    <3> HIDE DEF h
    <3> QED BY <3>1
  <2>3. both[h] = t[h - a]
    BY <1>4, <2>2
  <2> QED BY <1>3, <2>1, <2>2, <2>3 DEF Rows
<1> QED BY <1>5, <1>6, <1>7 DEF both

\* The k-th smallest number is the one with k - 1 below it.
LEMMA NthIs ==
  ASSUME NEW S, IsDates(S)
  PROVE  LET Rank(i) == Cardinality({j \in S : j < i})
         IN /\ Cardinality(S) \in Nat
            /\ \A k \in 1 .. Cardinality(S) : Nth(S, k) \in S /\ Rank(Nth(S, k)) = k - 1
            /\ \A i \in S : Rank(i) \in Nat /\ Rank(i) + 1 \in 1 .. Cardinality(S) /\ Nth(S, Rank(i) + 1) = i
<1> DEFINE Rank(i) == Cardinality({j \in S : j < i})
           R == {p \in S \X S : p[1] < p[2]}
           n == Cardinality(S)
<1>1. StrictlyOrders(R, S)
  <2>1. \A i, j \in S : <<i, j>> \in R <=> i < j
    OBVIOUS
  <2>2. S \subseteq Int
    BY DEF IsDates
  <2> HIDE DEF R
  <2> QED BY <2>1, <2>2 DEF StrictlyOrders
<1>2. \A i \in S : Below(R, S, i) = {j \in S : j < i}
  BY DEF Below
<1>3. /\ n \in Nat
      /\ \A i \in S : Rank(i) \in Nat /\ Rank(i) < n
      /\ \A i, j \in S : Rank(i) = Rank(j) => i = j
      /\ \A k \in Nat : k < n => \E i \in S : Rank(i) = k
  <2> HIDE DEF R
  <2>1. \A i \in S : Rank(i) = Cardinality(Below(R, S, i))
    BY <1>2
  <2>2. IsFiniteSet(S)
    BY DEF IsDates
  <2> HIDE DEF Rank
  <2> QED BY <1>1, <2>1, <2>2, RanksAreBijective
<1>4. \A k : Nth(S, k) = CHOOSE i \in S : Rank(i) = k - 1
  BY DEF Nth
<1> HIDE DEF n, Rank
<1>5. ASSUME NEW k \in 1 .. n PROVE Nth(S, k) \in S /\ Rank(Nth(S, k)) = k - 1
  <2>1. k - 1 \in Nat /\ k - 1 < n
    BY <1>3
  <2>2. \E i \in S : Rank(i) = k - 1
    BY <1>3, <2>1
  <2> QED BY <1>4, <2>2
<1>6. ASSUME NEW i \in S
      PROVE  Rank(i) \in Nat /\ Rank(i) + 1 \in 1 .. n /\ Nth(S, Rank(i) + 1) = i
  <2>1. Rank(i) \in Nat /\ Rank(i) < n
    BY <1>3
  <2>2. PICK k \in 1 .. n : k - 1 = Rank(i)
    <3>1. \A q \in Nat : q < n => \E k \in 1 .. n : k - 1 = q
      <4> SUFFICES ASSUME NEW q \in Nat, q < n PROVE \E k \in 1 .. n : k - 1 = q
        OBVIOUS
      <4>1. q + 1 \in 1 .. n /\ q + 1 - 1 = q
        BY <1>3
      <4> QED BY <4>1
    <3> QED BY <2>1, <3>1
  <2>3. Nth(S, k) = i
    BY <1>3, <1>5, <2>2
  <2>4. Rank(i) + 1 = k
    BY <2>2
  <2> QED BY <2>1, <2>3, <2>4
<1> QED BY <1>3, <1>5, <1>6 DEF n, Rank

LEMMA PlacesType ==
  ASSUME NEW rows, IsRows(rows), NEW codes
  PROVE  IsDates(Places(rows, codes))
<1>1. Places(rows, codes) \subseteq 1 .. Len(rows) /\ Len(rows) \in Nat
  BY RowsHaveLength DEF Places
<1>2. IsFiniteSet(1 .. Len(rows))
  <2>1. 1 \in Int /\ Len(rows) \in Int
    BY <1>1
  <2> QED BY ONLY <2>1, FS_Interval
<1> QED BY <1>1, <1>2, FS_Subset DEF IsDates

LEMMA ServedIs ==
  ASSUME NEW rows, IsRows(rows), NEW codes
  PROVE  /\ IsRows(Served(rows, codes))
         /\ Len(Served(rows, codes)) = Cardinality(Places(rows, codes))
         /\ \A i \in Places(rows, codes) :
              \E k \in 1 .. Len(Served(rows, codes)) : Served(rows, codes)[k] = rows[i]
<1> DEFINE S == Places(rows, codes)
           n == Cardinality(S)
           Rank(i) == Cardinality({j \in S : j < i})
           served == Served(rows, codes)
<1>1. /\ n \in Nat
      /\ \A k \in 1 .. n : Nth(S, k) \in S
      /\ \A i \in S : Rank(i) + 1 \in 1 .. n /\ Nth(S, Rank(i) + 1) = i
  <2> HIDE DEF S
  <2>1. IsDates(S)
    BY PlacesType DEF S
  <2> QED BY <2>1, NthIs
<1>2. served = [k \in 1 .. n |-> rows[Nth(S, k)]]
  BY DEF Served, Picked
<1>3. \A i \in S : rows[i] \in Rows(rows)
  BY DEF Places, Rows
<1> HIDE DEF S, n, Rank, served
<1>4. served \in Seq(Rows(rows)) /\ Len(served) = n
  <2>1. served \in [1 .. n -> Rows(rows)]
    BY <1>1, <1>2, <1>3
  <2> QED BY <1>1, <2>1
<1>5. ASSUME NEW i \in S PROVE \E k \in 1 .. n : served[k] = rows[i]
  BY <1>1, <1>2
<1> QED BY <1>4, <1>5, SeqIsRows DEF served, n, S

\* The rows of a are in b, in their order, between others.
RowsAdded(a, b) ==
  \E f \in [DOMAIN a -> DOMAIN b] :
    /\ \A i, j \in DOMAIN a : i < j => f[i] < f[j]
    /\ \A i \in DOMAIN a : b[f[i]] = a[i]

\* Rows that are added move the rows asked for to later places, never to earlier ones.
LEMMA ServedMovesOn ==
  ASSUME NEW a, NEW b, IsRows(a), IsRows(b), RowsAdded(a, b), NEW codes,
         NEW k \in 1 .. Len(Served(a, codes))
  PROVE  \E j \in 1 .. Len(Served(b, codes)) :
           k <= j /\ Served(b, codes)[j] = Served(a, codes)[k]
<1> DEFINE P == Places(a, codes)
           Q == Places(b, codes)
           i == Nth(P, k)
<1>1. PICK f \in [DOMAIN a -> DOMAIN b] :
        /\ \A x, y \in DOMAIN a : x < y => f[x] < f[y]
        /\ \A x \in DOMAIN a : b[f[x]] = a[x]
  BY DEF RowsAdded
<1>2. /\ IsDates(P) /\ IsDates(Q)
      /\ P \subseteq DOMAIN a /\ \A x \in P : f[x] \in Q
  <2>1. \A x \in P : x \in DOMAIN a /\ a[x].stock \in codes
    BY DEF Places
  <2>2. \A x \in P : f[x] \in DOMAIN b /\ b[f[x]].stock \in codes
    BY <1>1, <2>1
  <2> QED BY <2>1, <2>2, PlacesType DEF Places
<1>3. /\ k \in 1 .. Cardinality(P) /\ Len(Served(b, codes)) = Cardinality(Q)
      /\ Served(a, codes)[k] = a[i]
      /\ \A j \in 1 .. Cardinality(Q) : Served(b, codes)[j] = b[Nth(Q, j)]
  BY ServedIs DEF Served, Picked
<1> HIDE DEF P, Q
<1>4. i \in P /\ Cardinality({x \in P : x < i}) = k - 1
  BY <1>2, <1>3, NthIs
<1> HIDE DEF i
<1> DEFINE A == {x \in P : x < i}
           B == {y \in Q : y < f[i]}
           g == [x \in A |-> f[x]]
<1>5. IsFiniteSet(B) /\ Cardinality(B) \in Nat
  BY <1>2, FS_Subset, FS_CardinalityType DEF IsDates
<1>6. g \in Injection(A, B)
  <2>1. \A x \in A : f[x] \in B
    BY <1>1, <1>2, <1>4 DEF IsDates
  <2>2. \A x, y \in A : x # y => f[x] # f[y]
    <3> SUFFICES ASSUME NEW x \in A, NEW y \in A, x # y PROVE f[x] # f[y]
      OBVIOUS
    <3>1. x \in Int /\ y \in Int /\ x \in DOMAIN a /\ y \in DOMAIN a /\ f[x] \in Int /\ f[y] \in Int
      BY <1>2 DEF IsDates
    <3>2. x < y \/ y < x
      BY <3>1
    <3> QED BY <1>1, <3>1, <3>2
  <2> HIDE DEF A, B
  <2>3. g \in [A -> B] /\ \A x, y \in A : g[x] = g[y] => x = y
    BY <2>1, <2>2
  <2> HIDE DEF g
  <2> QED BY <2>3 DEF Injection, IsInjective
<1>7. Cardinality(A) <= Cardinality(B)
  <2> HIDE DEF A, B, g
  <2> QED BY <1>5, <1>6, FS_Injection
<1> DEFINE j == Cardinality(B) + 1
<1>8. j \in 1 .. Cardinality(Q) /\ Nth(Q, j) = f[i]
  <2>1. f[i] \in Q
    BY <1>2, <1>4
  <2> QED BY <1>2, <2>1, NthIs
<1>9. k <= j
  <2> HIDE DEF A, B
  <2>1. Cardinality(A) = k - 1
    BY <1>4 DEF A
  <2>2. k \in Int /\ Cardinality(B) \in Nat
    BY <1>5
  <2> QED BY <1>7, <2>1, <2>2
<1>10. Served(b, codes)[j] = Served(a, codes)[k]
  <2> HIDE DEF j
  <2>1. b[f[i]] = a[i]
    BY <1>1, <1>2, <1>4
  <2> QED BY <1>3, <1>8, <2>1
<1> HIDE DEF j
<1> QED BY <1>3, <1>8, <1>9, <1>10

-----------------------------------------------------------------------------
(* The client *)

Endpoints == {"stocks", "prices", "calendar"}

\* A client with a budget and a page size, over a service that only gains rows.
IsClient(client) ==
  LET Requests == 1 .. client.max_requests
  IN /\ client.page_size \in Nat \ {0} /\ client.max_requests \in Nat \ {0}
     /\ IsRows(client.ts_codes)
     /\ \A n \in Requests : client.service[n].error \in BOOLEAN
     /\ \A n \in Requests, endpoint \in Endpoints : IsRows(client.service[n][endpoint])
     /\ \A m, n \in Requests, endpoint \in Endpoints :
          m <= n => RowsAdded(client.service[m][endpoint], client.service[n][endpoint])

\* The page that the k-th request after the first request_count asks for, and what is
\* read from there on when the pages after it give rest.
PageAt(client, endpoint, codes, request_count, k) ==
  Page(Served(client.service[request_count + k + 1][endpoint], codes),
       client.page_size, k * client.page_size)
Fails(client, n) == n > client.max_requests \/ client.service[n].error
PagesGiven(client, endpoint, codes, request_count, k, rest) ==
  IF Fails(client, request_count + k + 1) THEN Exhausted
  ELSE IF Len(PageAt(client, endpoint, codes, request_count, k)) < client.page_size
  THEN [complete |-> TRUE, rows |-> PageAt(client, endpoint, codes, request_count, k),
        request_count |-> request_count + k + 1]
  ELSE IF rest.complete
  THEN [rest EXCEPT !.rows = PageAt(client, endpoint, codes, request_count, k) \o @]
  ELSE Exhausted

ArePages(pages, client, endpoint, codes, request_count, m) ==
  pages = [k \in m .. client.max_requests |->
             PagesGiven(client, endpoint, codes, request_count, k, pages[k + 1])]

\* The recursion over pages has a solution: the last page that the budget allows fails.
LEMMA PagesExist ==
  ASSUME NEW client, client.max_requests \in Nat, NEW endpoint, NEW codes, NEW request_count \in Nat
  PROVE  \E pages : ArePages(pages, client, endpoint, codes, request_count, 0)
<1> DEFINE max == client.max_requests
           Given(k, rest) == PagesGiven(client, endpoint, codes, request_count, k, rest)
           Solved(m) == \E pages : ArePages(pages, client, endpoint, codes, request_count, m)
           Unsolved == {m \in 0 .. max : ~Solved(m)}
<1>1. \A rest : Given(max, rest) = Exhausted
  <2>1. request_count + max + 1 > max
    OBVIOUS
  <2> QED BY <2>1 DEF PagesGiven, Fails
<1>2. \A m, pages : ArePages(pages, client, endpoint, codes, request_count, m)
                      <=> pages = [k \in m .. max |-> Given(k, pages[k + 1])]
  BY DEF ArePages
<1>3. Solved(max)
  <2> DEFINE pages == [k \in max .. max |-> Exhausted]
  <2>1. \A k \in max .. max : k = max
    OBVIOUS
  <2> HIDE DEF Given, max
  <2>2. pages = [k \in max .. max |-> Given(k, pages[k + 1])]
    BY <1>1, <2>1
  <2> HIDE DEF pages
  <2> QED BY <1>2, <2>2
<1>4. ASSUME NEW m \in 0 .. max, m # max, Solved(m + 1) PROVE Solved(m)
  <2> HIDE DEF Given, max
  <2>1. PICK later : later = [k \in (m + 1) .. max |-> Given(k, later[k + 1])]
    BY <1>2, <1>4
  <2> DEFINE pages == [k \in m .. max |-> IF k = m THEN Given(m, later[m + 1]) ELSE later[k]]
  <2>2. ASSUME NEW k \in m .. max PROVE pages[k] = Given(k, pages[k + 1])
    <3>1. max \in Nat
      BY DEF max
    <3>2. CASE k = max
      <4>1. k \in (m + 1) .. max /\ k # m
        BY <1>4, <3>1, <3>2
      <4>2. pages[k] = Given(k, later[k + 1])
        BY <2>1, <4>1
      <4> QED BY <1>1, <3>2, <4>2
    <3>3. CASE k # max
      <4>1. k + 1 \in m .. max /\ k + 1 # m /\ k + 1 \in (m + 1) .. max
        BY <3>1, <3>3
      <4>2. pages[k + 1] = later[k + 1]
        BY <4>1
      <4>3. pages[k] = Given(k, later[k + 1])
        <5>1. CASE k = m
          BY <5>1
        <5>2. CASE k # m
          <6>1. k \in (m + 1) .. max
            BY <3>1, <5>2
          <6> QED BY <2>1, <5>2, <6>1
        <5> QED BY <5>1, <5>2
      <4> HIDE DEF pages
      <4> QED BY <4>2, <4>3
    <3> QED BY <3>2, <3>3
  <2>3. pages = [k \in m .. max |-> pages[k]]
    OBVIOUS
  <2> HIDE DEF pages
  <2>4. pages = [k \in m .. max |-> Given(k, pages[k + 1])]
    BY <2>2, <2>3
  <2> QED BY <1>2, <2>4
<1> HIDE DEF Solved
<1>5. Unsolved = {}
  <2> SUFFICES ASSUME Unsolved # {} PROVE FALSE
    OBVIOUS
  <2>1. IsDates(Unsolved)
    <3>1. IsFiniteSet(0 .. max)
      BY FS_Interval
    <3> HIDE DEF max
    <3>2. Unsolved \subseteq 0 .. max /\ 0 .. max \subseteq Int
      BY DEF max
    <3> HIDE DEF Unsolved
    <3> QED BY <3>1, <3>2, FS_Subset DEF IsDates
  <2>2. PICK m \in Unsolved : \A n \in Unsolved : n <= m
    <3> HIDE DEF Unsolved
    <3> QED BY <2>1, LatestDate
  <2>3. m \in 0 .. max /\ ~Solved(m) /\ m # max
    BY <1>3
  <2>4. m + 1 \in 0 .. max /\ ~(m + 1 <= m)
    BY <2>3
  <2>5. Solved(m + 1)
    BY <2>2, <2>4
  <2> QED BY <1>4, <2>3, <2>5
<1>6. 0 \in 0 .. max
  OBVIOUS
<1> QED BY <1>5, <1>6 DEF Solved

LEMMA GetAllPagesIs ==
  ASSUME NEW client, client.max_requests \in Nat, NEW endpoint, NEW codes, NEW request_count \in Nat
  PROVE  \E pages : /\ ArePages(pages, client, endpoint, codes, request_count, 0)
                    /\ get_all_pages(client, endpoint, codes, request_count) = pages[0]
<1> DEFINE pages == CHOOSE f : ArePages(f, client, endpoint, codes, request_count, 0)
<1>1. ArePages(pages, client, endpoint, codes, request_count, 0)
  BY PagesExist
<1>2. get_all_pages(client, endpoint, codes, request_count) = pages[0]
  BY DEF get_all_pages, ArePages, PagesGiven, Fails, PageAt
<1> HIDE DEF pages
<1> QED BY <1>1, <1>2

LEMMA PageIsSlice ==
  ASSUME NEW rows, IsRows(rows), NEW size \in Nat, NEW offset \in Nat
  PROVE  LET page == Page(rows, size, offset)
         IN /\ IsRows(page) /\ Len(page) \in Nat
            /\ \A i \in 1 .. Len(rows) : i > offset /\ i <= offset + size => rows[i] \in Rows(page)
            /\ Len(page) < size => offset + Len(page) >= Len(rows)
<1> DEFINE page == Slice(rows, offset, size)
           n == Len(page)
           length == Len(rows)
<1>1. Page(rows, size, offset) = page
  BY DEF Page, Slice
<1>2. /\ page \in Seq(Rows(rows))
      /\ n = IF length <= offset THEN 0
             ELSE IF offset + size < length THEN size ELSE length - offset
      /\ \A i \in 1 .. n : page[i] = rows[offset + i]
  BY SliceIs DEF IsRows
<1> HIDE DEF page
<1>3. IsRows(page) /\ DOMAIN page = 1 .. n /\ n \in Nat /\ length \in Nat
  BY <1>2, SeqIsRows, RowsHaveLength
<1> HIDE DEF n, length
<1>4. ASSUME NEW i \in 1 .. length, i > offset, i <= offset + size PROVE rows[i] \in Rows(page)
  <2> DEFINE k == i - offset
  <2>1. k \in 1 .. n /\ offset + k = i
    BY <1>2, <1>3, <1>4
  <2> HIDE DEF k
  <2>2. page[k] = rows[i]
    BY <1>2, <2>1
  <2> QED BY <1>3, <2>1, <2>2 DEF Rows
<1>5. n < size => offset + n >= length
  BY <1>2, <1>3
<1> QED BY <1>1, <1>3, <1>4, <1>5 DEF n, length

\* A listing that came to its end: what it took of the budget, and that no row asked
\* for of those the service held first is missing.
WholeListing(client, endpoint, codes, listing) ==
  /\ listing.complete = TRUE /\ listing = [complete |-> TRUE, rows |-> listing.rows,
                                           request_count |-> listing.request_count]
  /\ listing.request_count \in Nat
  /\ IsRows(listing.rows)
  /\ \A r \in Rows(client.service[1][endpoint]) : r.stock \in codes => r \in Rows(listing.rows)

LEMMA PagesShowAll ==
  ASSUME NEW client, IsClient(client), NEW endpoint \in Endpoints, NEW codes,
         NEW request_count \in Nat
  PROVE  LET listing == get_all_pages(client, endpoint, codes, request_count)
         IN listing = Exhausted \/ WholeListing(client, endpoint, codes, listing)
<1> DEFINE max == client.max_requests
           size == client.page_size
           N(k) == request_count + k + 1
           served(n) == Served(client.service[n][endpoint], codes)
           page(k) == PageAt(client, endpoint, codes, request_count, k)
<1>1. max \in Nat /\ max >= 1 /\ size \in Nat /\ size >= 1
  BY DEF IsClient
<1>2. PICK pages : /\ ArePages(pages, client, endpoint, codes, request_count, 0)
                   /\ get_all_pages(client, endpoint, codes, request_count) = pages[0]
  BY <1>1, GetAllPagesIs
<1>3. ASSUME NEW k \in 0 .. max
      PROVE  pages[k] = PagesGiven(client, endpoint, codes, request_count, k, pages[k + 1])
  BY <1>2 DEF ArePages
<1>4. ASSUME NEW n \in 1 .. max PROVE IsRows(client.service[n][endpoint]) /\ IsRows(served(n))
  BY <1>4, ServedIs DEF IsClient
<1>5. ASSUME NEW m \in 1 .. max, NEW n \in 1 .. max, m <= n, NEW i \in 1 .. Len(served(m))
      PROVE  \E j \in 1 .. Len(served(n)) : i <= j /\ served(n)[j] = served(m)[i]
  <2>1. RowsAdded(client.service[m][endpoint], client.service[n][endpoint])
    BY <1>5 DEF IsClient
  <2>2. IsRows(client.service[m][endpoint]) /\ IsRows(client.service[n][endpoint])
    BY <1>4
  <2> QED BY <2>1, <2>2, ServedMovesOn
<1>6. ASSUME NEW k \in Nat, N(k) <= max
      PROVE  /\ IsRows(page(k)) /\ Len(page(k)) \in Nat
             /\ \A i \in 1 .. Len(served(N(k))) :
                  i > k * size /\ i <= k * size + size => served(N(k))[i] \in Rows(page(k))
             /\ Len(page(k)) < size => k * size + Len(page(k)) >= Len(served(N(k)))
  <2>1. N(k) \in 1 .. max /\ k * size \in Nat
    BY <1>1, <1>6
  <2>2. IsRows(served(N(k)))
    BY <1>4, <2>1
  <2>3. page(k) = Page(served(N(k)), size, k * size)
    BY DEF PageAt
  <2> HIDE DEF served, page, N, size
  <2> QED BY <1>1, <2>1, <2>2, <2>3, PageIsSlice
<1> DEFINE Whole(k) == /\ pages[k].complete = TRUE
                       /\ pages[k] = [complete |-> TRUE, rows |-> pages[k].rows,
                                      request_count |-> pages[k].request_count]
                       /\ pages[k].request_count \in Nat /\ IsRows(pages[k].rows)
                       /\ N(k) <= max
                       /\ \A i \in 1 .. Len(served(N(k))) :
                            i > k * size => served(N(k))[i] \in Rows(pages[k].rows)
           Good(k) == pages[k] = Exhausted \/ Whole(k)
           Bad == {k \in 0 .. max : ~Good(k)}
<1>7. ASSUME NEW k \in 0 .. max, k < max => Good(k + 1) PROVE Good(k)
  <2>1. CASE Fails(client, N(k))
    <3>1. pages[k] = Exhausted
      BY <1>3, <2>1 DEF PagesGiven
    <3> QED BY <3>1
  <2>2. CASE ~Fails(client, N(k)) /\ Len(page(k)) < size
    <3>1. pages[k] = [complete |-> TRUE, rows |-> page(k), request_count |-> N(k)]
      BY <1>3, <2>2 DEF PagesGiven
    <3>2. N(k) <= max /\ N(k) \in Nat /\ k \in Nat
      BY <1>1, <2>2 DEF Fails
    <3>3. /\ IsRows(page(k)) /\ Len(page(k)) \in Nat /\ Len(served(N(k))) \in Nat
          /\ \A i \in 1 .. Len(served(N(k))) :
               i > k * size /\ i <= k * size + size => served(N(k))[i] \in Rows(page(k))
          /\ k * size + Len(page(k)) >= Len(served(N(k)))
      <4>1. N(k) \in 1 .. max
        BY <3>2
      <4> QED BY <1>4, <1>6, <2>2, <3>2, <4>1, RowsHaveLength
    <3>4. pages[k].rows = page(k) /\ pages[k].request_count = N(k) /\ pages[k].complete = TRUE
      BY <3>1
    <3>5. ASSUME NEW i \in 1 .. Len(served(N(k))), i > k * size
          PROVE  served(N(k))[i] \in Rows(page(k))
      <4>1. k * size \in Nat
        BY <1>1, <3>2
      <4> DEFINE offset == k * size
                 length == Len(served(N(k)))
                 n == Len(page(k))
      <4>2. offset + n >= length /\ n < size /\ i <= length
        BY <2>2, <3>3
      <4> HIDE DEF offset, length, n
      <4>3. i <= offset + size
        BY <1>1, <3>3, <4>1, <4>2 DEF offset, length, n
      <4> QED BY <3>3, <3>5, <4>3 DEF offset
    <3> HIDE DEF page, served, N
    <3> QED BY <3>1, <3>2, <3>3, <3>4, <3>5
  <2>3. CASE ~Fails(client, N(k)) /\ ~(Len(page(k)) < size) /\ pages[k + 1].complete
    <3>1. N(k) <= max /\ N(k) \in Nat /\ k \in Nat /\ k < max /\ N(k) \in 1 .. max
      BY <1>1, <2>3 DEF Fails
    <3>2. Whole(k + 1)
      <4>1. Exhausted.complete = FALSE
        BY DEF Exhausted
      <4> HIDE DEF Whole
      <4> QED BY <1>7, <2>3, <3>1, <4>1
    <3> DEFINE rest == pages[k + 1]
    <3>3. pages[k] = [rest EXCEPT !.rows = page(k) \o rest.rows]
      BY <1>3, <2>3 DEF PagesGiven
    <3>4. pages[k] = [complete |-> TRUE, rows |-> page(k) \o rest.rows,
                      request_count |-> rest.request_count]
      <4> DEFINE old == rest.rows
                 used == rest.request_count
      <4>1. rest = [complete |-> TRUE, rows |-> old, request_count |-> used]
        BY <3>2
      <4> HIDE DEF rest, page, old, used
      <4>2. pages[k] = [rest EXCEPT !.rows = page(k) \o old]
        BY <3>3 DEF old
      <4>3. pages[k] = [complete |-> TRUE, rows |-> page(k) \o old, request_count |-> used]
        BY <4>1, <4>2
      <4> QED BY <4>3 DEF old, used
    <3>5. /\ IsRows(page(k) \o rest.rows)
          /\ \A r : r \in Rows(page(k)) \/ r \in Rows(rest.rows) => r \in Rows(page(k) \o rest.rows)
      <4>1. IsRows(page(k)) /\ IsRows(rest.rows)
        BY <1>6, <3>1, <3>2
      <4> HIDE DEF rest, page
      <4> QED BY <4>1, RowsOfBoth
    <3>6. ASSUME NEW i \in 1 .. Len(served(N(k))), i > k * size
          PROVE  served(N(k))[i] \in Rows(page(k) \o rest.rows)
      <4>1. k * size \in Nat /\ i \in Nat
        BY <1>1, <3>1, <1>4, RowsHaveLength
      <4>2. CASE i <= k * size + size
        BY <1>6, <3>1, <3>5, <3>6, <4>2
      <4>3. CASE ~(i <= k * size + size)
        <5>1. N(k + 1) \in 1 .. max /\ N(k) <= N(k + 1)
          BY <3>1, <3>2
        <5>2. PICK j \in 1 .. Len(served(N(k + 1))) :
                i <= j /\ served(N(k + 1))[j] = served(N(k))[i]
          BY <1>5, <3>1, <5>1
        <5>3. j > (k + 1) * size
          <6>1. (k + 1) * size = k * size + size /\ j \in Int
            <7>1. k \in Nat /\ size \in Nat
              BY <1>1, <3>1
            <7> HIDE DEF size
            <7>2. (k + 1) * size = k * size + size
              BY <7>1
            <7> QED BY <7>2
          <6> DEFINE offset == k * size
                     next == (k + 1) * size
          <6>2. next = offset + size /\ offset \in Nat /\ ~(i <= offset + size) /\ i <= j /\ i \in Nat
            BY <4>1, <4>3, <5>2, <6>1
          <6> HIDE DEF offset, next
          <6>3. j > next
            BY <1>1, <6>1, <6>2
          <6> QED BY <6>3 DEF next
        <5>4. served(N(k + 1))[j] \in Rows(rest.rows)
          BY <3>2, <5>3
        <5> QED BY <3>5, <5>2, <5>4
      <4> QED BY <4>2, <4>3
    <3>7. /\ pages[k].rows = page(k) \o rest.rows /\ pages[k].request_count = rest.request_count
          /\ pages[k].complete = TRUE /\ rest.request_count \in Nat
      BY <3>2, <3>4
    <3> HIDE DEF page, served, N, rest
    <3> QED BY <3>1, <3>4, <3>5, <3>6, <3>7
  <2>4. CASE ~Fails(client, N(k)) /\ ~(Len(page(k)) < size) /\ ~pages[k + 1].complete
    <3>1. pages[k] = Exhausted
      BY <1>3, <2>4 DEF PagesGiven
    <3> QED BY <3>1
  <2> QED BY <2>1, <2>2, <2>3, <2>4
<1> HIDE DEF Good
<1>8. Bad = {}
  <2> SUFFICES ASSUME Bad # {} PROVE FALSE
    OBVIOUS
  <2>1. IsDates(Bad)
    <3>1. IsFiniteSet(0 .. max)
      <4> HIDE DEF max
      <4> QED BY <1>1, FS_Interval
    <3>2. Bad \subseteq 0 .. max /\ 0 .. max \subseteq Int
      BY <1>1
    <3> HIDE DEF Bad
    <3> QED BY <3>1, <3>2, FS_Subset DEF IsDates
  <2>2. PICK k \in Bad : \A n \in Bad : n <= k
    <3> HIDE DEF Bad
    <3> QED BY <2>1, LatestDate
  <2>3. k \in 0 .. max /\ ~Good(k)
    OBVIOUS
  <2>4. k < max => Good(k + 1)
    <3> SUFFICES ASSUME k < max PROVE Good(k + 1)
      OBVIOUS
    <3>1. k + 1 \in 0 .. max /\ ~(k + 1 <= k)
      BY <1>1, <2>3
    <3> QED BY <2>2, <3>1
  <2> QED BY <1>7, <2>3, <2>4
<1>9. Good(0)
  BY <1>1, <1>8
<1>10. CASE pages[0] = Exhausted
  BY <1>2, <1>10
<1>11. CASE Whole(0)
  <2>1. ASSUME NEW r \in Rows(client.service[1][endpoint]), r.stock \in codes
        PROVE  r \in Rows(pages[0].rows)
    <3> DEFINE first == client.service[1][endpoint]
    <3>1. IsRows(first) /\ 1 \in 1 .. max
      BY <1>1, <1>4
    <3>2. PICK i \in Places(first, codes) : r = first[i]
      BY <2>1 DEF Places, Rows
    <3>3. PICK k \in 1 .. Len(served(1)) : served(1)[k] = r
      BY <3>1, <3>2, ServedIs
    <3>4. N(0) \in 1 .. max /\ 1 <= N(0)
      BY <1>1, <1>11
    <3>5. PICK j \in 1 .. Len(served(N(0))) : k <= j /\ served(N(0))[j] = served(1)[k]
      BY <1>5, <3>1, <3>4
    <3>6. j > 0 * size
      <4>1. 0 * size = 0
        BY <1>1
      <4>2. j \in Int /\ k \in Int /\ k >= 1
        OBVIOUS
      <4> QED BY <3>5, <4>1, <4>2
    <3> QED BY <1>11, <3>3, <3>5, <3>6
  <2> QED BY <1>2, <1>11, <2>1 DEF WholeListing
<1> QED BY <1>9, <1>10, <1>11 DEF Good

-----------------------------------------------------------------------------
(* The listings of several codes *)

AreListed(listed, client, endpoint, request_count, m) ==
  listed = [k \in 0 .. m |->
             IF k = 0 THEN [complete |-> TRUE, rows |-> <<>>, request_count |-> request_count]
             ELSE LET so_far == listed[k - 1]
                      more == get_all_pages(client, endpoint, {client.ts_codes[k]}, so_far.request_count)
                  IN IF so_far.complete /\ more.complete THEN [more EXCEPT !.rows = so_far.rows \o @]
                     ELSE Exhausted]

LEMMA ListedExist ==
  ASSUME NEW client, NEW endpoint, NEW request_count, NEW last \in Nat
  PROVE  \E listed : AreListed(listed, client, endpoint, request_count, last)
<1> DEFINE Start == [complete |-> TRUE, rows |-> <<>>, request_count |-> request_count]
           More(k, so_far) ==
             LET more == get_all_pages(client, endpoint, {client.ts_codes[k]}, so_far.request_count)
             IN IF so_far.complete /\ more.complete THEN [more EXCEPT !.rows = so_far.rows \o @]
                ELSE Exhausted
           Solved(m) == \E listed : AreListed(listed, client, endpoint, request_count, m)
           Unsolved == {m \in 0 .. last : ~Solved(m)}
<1>1. \A m, listed : AreListed(listed, client, endpoint, request_count, m)
        <=> listed = [k \in 0 .. m |-> IF k = 0 THEN Start ELSE More(k, listed[k - 1])]
  BY DEF AreListed
<1> HIDE DEF Start, More
<1>2. Solved(0)
  <2> DEFINE listed == [k \in 0 .. 0 |-> Start]
  <2>1. listed = [k \in 0 .. 0 |-> IF k = 0 THEN Start ELSE More(k, listed[k - 1])]
    <3>1. \A k \in 0 .. 0 : k = 0
      OBVIOUS
    <3> QED BY <3>1
  <2> HIDE DEF listed
  <2> QED BY <1>1, <2>1
<1>3. ASSUME NEW m \in 1 .. last, Solved(m - 1) PROVE Solved(m)
  <2>1. PICK earlier : earlier = [k \in 0 .. (m - 1) |-> IF k = 0 THEN Start ELSE More(k, earlier[k - 1])]
    BY <1>1, <1>3
  <2> DEFINE listed == [k \in 0 .. m |-> IF k = m THEN More(m, earlier[m - 1]) ELSE earlier[k]]
  <2>2. ASSUME NEW k \in 0 .. m
        PROVE  listed[k] = IF k = 0 THEN Start ELSE More(k, listed[k - 1])
    <3>1. CASE k = 0
      <4>1. k # m /\ 0 \in 0 .. (m - 1)
        BY <3>1
      <4>2. listed[k] = earlier[0] /\ earlier[0] = Start
        BY <2>1, <3>1, <4>1
      <4> QED BY <3>1, <4>2
    <3>2. CASE k # 0
      <4>1. k - 1 \in 0 .. m /\ k - 1 # m
        BY <3>2
      <4>2. listed[k - 1] = earlier[k - 1]
        BY <4>1
      <4>3. listed[k] = More(k, earlier[k - 1])
        <5>1. CASE k = m
          BY <5>1
        <5>2. CASE k # m
          <6>1. k \in 0 .. (m - 1)
            BY <5>2
          <6> QED BY <2>1, <3>2, <5>2, <6>1
        <5> QED BY <5>1, <5>2
      <4> HIDE DEF listed
      <4> QED BY <3>2, <4>2, <4>3
    <3> QED BY <3>1, <3>2
  <2>3. listed = [k \in 0 .. m |-> listed[k]]
    OBVIOUS
  <2> HIDE DEF listed
  <2>4. listed = [k \in 0 .. m |-> IF k = 0 THEN Start ELSE More(k, listed[k - 1])]
    BY <2>2, <2>3
  <2> QED BY <1>1, <2>4
<1> HIDE DEF Solved
<1>4. Unsolved = {}
  <2> SUFFICES ASSUME Unsolved # {} PROVE FALSE
    OBVIOUS
  <2>1. IsDates(Unsolved)
    <3>1. IsFiniteSet(0 .. last)
      <4>1. 0 \in Int /\ last \in Int
        OBVIOUS
      <4> QED BY ONLY <4>1, FS_Interval
    <3>2. Unsolved \subseteq 0 .. last /\ 0 .. last \subseteq Int
      OBVIOUS
    <3> HIDE DEF Unsolved
    <3> QED BY <3>1, <3>2, FS_Subset DEF IsDates
  <2>2. PICK m \in Unsolved : \A n \in Unsolved : m <= n
    <3> HIDE DEF Unsolved
    <3> QED BY <2>1, EarliestDate
  <2>3. m \in 0 .. last /\ ~Solved(m) /\ m # 0
    BY <1>2
  <2>4. m - 1 \in 0 .. last /\ ~(m <= m - 1) /\ m \in 1 .. last
    BY <2>3
  <2>5. Solved(m - 1)
    BY <2>2, <2>4
  <2> QED BY <1>3, <2>3, <2>4, <2>5
<1>5. last \in 0 .. last
  OBVIOUS
<1> QED BY <1>4, <1>5 DEF Solved

\* Whichever codes are given, a listing is whole or ends the load.
LEMMA PayloadsShowAll ==
  ASSUME NEW client, IsClient(client), NEW endpoint \in Endpoints, NEW request_count \in Nat
  PROVE  LET listing == load_payloads(client, endpoint, request_count)
             asked == IF client.ts_codes = <<>> THEN client.codes ELSE Rows(client.ts_codes)
         IN listing = Exhausted \/ WholeListing(client, endpoint, asked, listing)
<1> DEFINE codes == client.ts_codes
           last == Len(codes)
           Pages(k, n) == get_all_pages(client, endpoint, {codes[k]}, n)
<1>1. CASE codes = <<>>
  <2>1. load_payloads(client, endpoint, request_count)
          = get_all_pages(client, endpoint, client.codes, request_count)
    BY <1>1 DEF load_payloads
  <2> QED BY <1>1, <2>1, PagesShowAll
<1>2. CASE codes # <<>>
  <2> DEFINE listed == CHOOSE f : AreListed(f, client, endpoint, request_count, last)
  <2>1. last \in Nat /\ DOMAIN codes = 1 .. last
    BY RowsHaveLength DEF IsClient
  <2>2. AreListed(listed, client, endpoint, request_count, last)
    <3> HIDE DEF last
    <3> QED BY <2>1, ListedExist
  <2>3. load_payloads(client, endpoint, request_count) = listed[last]
    BY <1>2 DEF load_payloads, AreListed
  <2> HIDE DEF listed, last
  <2>4. /\ listed[0] = [complete |-> TRUE, rows |-> <<>>, request_count |-> request_count]
        /\ \A k \in 1 .. last :
             listed[k] = IF listed[k - 1].complete /\ Pages(k, listed[k - 1].request_count).complete
                         THEN [Pages(k, listed[k - 1].request_count) EXCEPT !.rows = listed[k - 1].rows \o @]
                         ELSE Exhausted
    <3>1. 0 \in 0 .. last /\ \A k \in 1 .. last : k \in 0 .. last /\ k # 0
      BY <2>1
    <3> QED BY <2>2, <3>1 DEF AreListed
  <2> DEFINE Upto(k) == {codes[i] : i \in 1 .. k}
             Good(k) == listed[k] = Exhausted \/ WholeListing(client, endpoint, Upto(k), listed[k])
             Bad == {k \in 0 .. last : ~Good(k)}
  <2>5. Good(0)
    <3>1. Upto(0) = {}
      OBVIOUS
    <3>2. /\ listed[0].complete = TRUE /\ listed[0].rows = <<>>
          /\ listed[0].request_count = request_count
      BY <2>4
    <3> QED BY <2>4, <3>1, <3>2, NoRows DEF WholeListing
  <2>6. ASSUME NEW k \in 1 .. last, Good(k - 1) PROVE Good(k)
    <3> DEFINE old == listed[k - 1]
               more == Pages(k, old.request_count)
    <3>1. CASE old.complete /\ more.complete
      <4>1. Exhausted.complete = FALSE
        BY DEF Exhausted
      <4>2. WholeListing(client, endpoint, Upto(k - 1), old)
        BY <2>6, <3>1, <4>1
      <4>3. old.request_count \in Nat /\ IsRows(old.rows)
        BY <4>2 DEF WholeListing
      <4>4. WholeListing(client, endpoint, {codes[k]}, more)
        <5> HIDE DEF old
        <5> QED BY <3>1, <4>1, <4>3, PagesShowAll
      <4>5. listed[k] = [more EXCEPT !.rows = old.rows \o @]
        BY <2>4, <3>1
      <4> DEFINE some == more.rows
                 used == more.request_count
      <4>6. more = [complete |-> TRUE, rows |-> some, request_count |-> used]
            /\ used \in Nat /\ IsRows(some)
        BY <4>4 DEF WholeListing
      <4>7. /\ \A r \in Rows(client.service[1][endpoint]) : r.stock \in Upto(k - 1) => r \in Rows(old.rows)
            /\ \A r \in Rows(client.service[1][endpoint]) : r.stock = codes[k] => r \in Rows(some)
        <5>1. \A r \in Rows(client.service[1][endpoint]) : r.stock \in {codes[k]} => r \in Rows(some)
          BY <4>4 DEF WholeListing
        <5> QED BY <4>2, <5>1 DEF WholeListing
      <4> HIDE DEF more, some, used, old
      <4>8. listed[k] = [complete |-> TRUE, rows |-> old.rows \o some, request_count |-> used]
        BY <4>5, <4>6
      <4>9. /\ IsRows(old.rows \o some)
            /\ \A r : r \in Rows(old.rows) \/ r \in Rows(some) => r \in Rows(old.rows \o some)
        BY <4>3, <4>6, RowsOfBoth
      <4>10. \A c \in Upto(k) : c \in Upto(k - 1) \/ c = codes[k]
        <5>1. \A i \in 1 .. k : i \in 1 .. (k - 1) \/ i = k
          OBVIOUS
        <5> QED BY <5>1
      <4> HIDE DEF Upto
      <4>11. \A r \in Rows(client.service[1][endpoint]) :
               r.stock \in Upto(k) => r \in Rows(old.rows \o some)
        BY <4>7, <4>9, <4>10
      <4>12. /\ listed[k].complete = TRUE /\ listed[k].rows = old.rows \o some
             /\ listed[k].request_count = used
        BY <4>8
      <4> QED BY <4>6, <4>8, <4>9, <4>11, <4>12 DEF WholeListing
    <3>2. CASE ~(old.complete /\ more.complete)
      BY <2>4, <3>2
    <3> QED BY <3>1, <3>2
  <2> HIDE DEF Good
  <2>7. Bad = {}
    <3> SUFFICES ASSUME Bad # {} PROVE FALSE
      OBVIOUS
    <3>1. IsDates(Bad)
      <4>1. IsFiniteSet(0 .. last)
        <5>1. 0 \in Int /\ last \in Int
          BY <2>1
        <5> QED BY <5>1, FS_Interval
      <4>2. Bad \subseteq 0 .. last /\ 0 .. last \subseteq Int
        BY <2>1
      <4> HIDE DEF Bad
      <4> QED BY <4>1, <4>2, FS_Subset DEF IsDates
    <3>2. PICK k \in Bad : \A n \in Bad : k <= n
      <4> HIDE DEF Bad
      <4> QED BY <3>1, EarliestDate
    <3>3. k \in 0 .. last /\ ~Good(k) /\ k # 0
      BY <2>5
    <3>4. k - 1 \in 0 .. last /\ ~(k <= k - 1) /\ k \in 1 .. last
      BY <2>1, <3>3
    <3>5. Good(k - 1)
      BY <3>2, <3>4
    <3> QED BY <2>6, <3>3, <3>4, <3>5
  <2>8. Good(last)
    <3>1. last \in 0 .. last
      BY <2>1
    <3> QED BY <2>7, <3>1
  <2>9. Upto(last) = Rows(codes)
    BY <2>1 DEF Rows
  <2> HIDE DEF Upto
  <2> QED BY <1>2, <2>3, <2>8, <2>9 DEF Good
<1> QED BY <1>1, <1>2

-----------------------------------------------------------------------------
(* Batches of whole listings *)

\* A batch of listings in which nothing is missing misses nothing.
LEMMA BatchOfWholeListings ==
  ASSUME NEW client, IsClient(client), NEW request_count \in Nat
  PROVE  NothingLeftOut(client, load(client, request_count))
<1> DEFINE asked == IF client.ts_codes = <<>> THEN client.codes ELSE Rows(client.ts_codes)
           first == client.service[1]
           known == client.known_stocks
           batch == load(client, request_count)
           stocks == IF known # <<>>
                     THEN [complete |-> TRUE, rows |-> <<>>, request_count |-> request_count]
                     ELSE load_payloads(client, "stocks", request_count)
           prices == load_payloads(client, "prices", stocks.request_count)
<1>1. SUFFICES ASSUME batch.accepted
               PROVE  /\ known = <<>> =>
                           \A s \in Rows(first.stocks) : s.stock \in asked => s \in Rows(batch.stocks)
                      /\ \A p \in Rows(first.prices) :
                           p.stock \in asked =>
                             price_record(p) \in Rows(batch.daily_prices) \/ p.stock \in batch.warnings
  BY DEF NothingLeftOut
<1>2. Rejected.accepted = FALSE /\ Exhausted.complete = FALSE
  BY DEF Rejected, Exhausted
<1>3. /\ stocks.complete /\ prices.complete
      /\ batch = asharehub_batch(known, stocks.rows, prices.rows)
  BY <1>1, <1>2 DEF load
<1>4. "stocks" \in Endpoints /\ "prices" \in Endpoints
  BY DEF Endpoints
<1>5. known = <<>> => WholeListing(client, "stocks", asked, stocks)
  BY <1>2, <1>3, <1>4, PayloadsShowAll
<1>6. stocks.request_count \in Nat
  BY <1>5 DEF WholeListing
<1> HIDE DEF stocks
<1>7. WholeListing(client, "prices", asked, prices)
  BY <1>2, <1>3, <1>4, <1>6, PayloadsShowAll
<1>8. /\ known = <<>> => \A s \in Rows(first.stocks) : s.stock \in asked => s \in Rows(stocks.rows)
      /\ \A p \in Rows(first.prices) : p.stock \in asked => p \in Rows(prices.rows)
  BY <1>5, <1>7 DEF WholeListing
<1> HIDE DEF prices, batch, asked, first
<1> DEFINE described == {s.stock : s \in Rows(IF known = <<>> THEN stocks.rows ELSE known)}
           Described(row) == row.stock \in described
<1>9. /\ batch.stocks = IF known = <<>> THEN stocks.rows ELSE known
      /\ batch.daily_prices = price_records(Where(prices.rows, Described))
      /\ batch.warnings = {r.stock : r \in Rows(prices.rows)} \ described
  BY <1>1, <1>2, <1>3 DEF asharehub_batch, Batch
<1> HIDE DEF described
<1>10. ASSUME NEW p \in Rows(prices.rows)
       PROVE  price_record(p) \in Rows(batch.daily_prices) \/ p.stock \in batch.warnings
  <2>1. CASE p.stock \in described
    <3>1. p \in Rows(Where(prices.rows, Described))
      BY <2>1 DEF Rows, Where
    <3> HIDE DEF Described
    <3>2. price_record(p) \in Rows(price_records(Where(prices.rows, Described)))
      BY <3>1 DEF Rows, price_records
    <3> QED BY <1>9, <3>2
  <2>2. CASE p.stock \notin described
    BY <1>9, <2>2
  <2> QED BY <2>1, <2>2
<1> QED BY <1>8, <1>9, <1>10

\* LoadIsComplete for every client and every service that only gains rows, in any order
\* and between any two requests: running out of requests, an error or a row sorted into
\* an earlier page never shortens an accepted batch.
THEOREM LoadsAreComplete ==
  ASSUME probe[1] = "paging" => IsClient(probe[2])
  PROVE  LoadIsComplete
<1> DEFINE client == probe[2]
           dates == load_open_dates(client, 1, 0)
           listing == get_all_pages(client, "calendar", {1}, 0)
<1>1. SUFFICES ASSUME IsClient(client)
               PROVE  IF client.known_stocks = <<>> THEN NothingLeftOut(client, load(client, 0))
                      ELSE HistoryIsWhole(client, 1, load_history(client, 1))
  BY DEF LoadIsComplete
<1>2. NothingLeftOut(client, load(client, 0))
  BY <1>1, BatchOfWholeListings
<1>3. CASE ~dates.complete
  <2>1. load_history(client, 1) = [batch |-> Rejected, sessions |-> {}]
    BY <1>3 DEF load_history
  <2>2. Rejected.accepted = FALSE
    BY DEF Rejected
  <2>3. HistoryIsWhole(client, 1, [batch |-> Rejected, sessions |-> {}])
    BY <2>2 DEF HistoryIsWhole, NothingLeftOut
  <2> QED BY <1>2, <2>1, <2>3
<1>4. CASE dates.complete
  <2>1. load_history(client, 1)
          = [batch |-> load(client, dates.request_count), sessions |-> dates.sessions]
    BY <1>4 DEF load_history
  <2>2. listing.complete /\ dates.request_count = listing.request_count
        /\ dates.sessions = {r.cal_date : r \in Rows(listing.rows)}
    BY <1>4 DEF load_open_dates, Exhausted
  <2>3. WholeListing(client, "calendar", {1}, listing)
    <3>1. Exhausted.complete = FALSE /\ "calendar" \in Endpoints
      BY DEF Exhausted, Endpoints
    <3> HIDE DEF client
    <3> QED BY <1>1, <2>2, <3>1, PagesShowAll
  <2> HIDE DEF client, dates, listing
  <2>4. listing.request_count \in Nat
        /\ \A r \in Rows(client.service[1].calendar) : r.stock = 1 => r \in Rows(listing.rows)
    BY <2>3 DEF WholeListing
  <2>5. NothingLeftOut(client, load(client, dates.request_count))
    BY <1>1, <2>2, <2>4, BatchOfWholeListings
  <2>6. \A r \in Rows(client.service[1].calendar) : r.stock = 1 => r.cal_date \in dates.sessions
    BY <2>2, <2>4
  <2> DEFINE history == load_history(client, 1)
  <2>7. history.batch = load(client, dates.request_count) /\ history.sessions = dates.sessions
    BY <2>1
  <2> HIDE DEF history
  <2>8. HistoryIsWhole(client, 1, history)
    BY <2>5, <2>6, <2>7 DEF HistoryIsWhole
  <2> QED BY <1>2, <2>8 DEF history
<1> QED BY <1>3, <1>4

-----------------------------------------------------------------------------
(* Normalised texts show the characters of the raw ones *)

LEMMA VisibleType ==
  ASSUME NEW s, NEW m \in Int, NEW n \in Int
  PROVE  /\ Visible(s, m, n) \subseteq m .. (n - 1)
         /\ IsDates(Visible(s, m, n)) /\ Cardinality(Visible(s, m, n)) \in Nat
<1>1. Visible(s, m, n) \subseteq m .. (n - 1) /\ m .. (n - 1) \subseteq Int
  BY DEF Visible
<1>2. IsFiniteSet(m .. (n - 1))
  <2>1. n - 1 \in Int
    OBVIOUS
  <2> QED BY <2>1, FS_Interval
<1>3. IsFiniteSet(Visible(s, m, n)) /\ Cardinality(Visible(s, m, n)) \in Nat
  BY <1>1, <1>2, FS_Subset, FS_CardinalityType
<1> QED BY <1>1, <1>3 DEF IsDates

\* The visible characters of both are at the same places.
LooksLike(s, t) ==
  /\ Visible(s, 0, Len(s)) = Visible(t, 0, Len(t))
  /\ \A q \in Visible(t, 0, Len(t)) : At(s, q) = At(t, q) /\ Visible(s, 0, q) = Visible(t, 0, q)

LEMMA LooksAlikeBothWays ==
  ASSUME NEW r, NEW s, NEW t, LooksLike(r, s), LooksLike(s, t)
  PROVE  LooksLike(r, t)
BY DEF LooksLike

\* Spaces at the end do not change what a text shows.
LEMMA SpacesAtTheEnd ==
  ASSUME NEW s, NEW t, IsRows(s), IsRows(t), Len(s) <= Len(t),
         \A i \in 1 .. Len(s) : s[i] = t[i],
         \A i \in (Len(s) + 1) .. Len(t) : IsSpace(t[i])
  PROVE  LooksLike(s, t) /\ LooksLike(t, s)
<1> DEFINE m == Len(s)
           n == Len(t)
<1>1. m \in Nat /\ n \in Nat /\ m <= n
  BY RowsHaveLength
<1>2. (\A i \in 1 .. m : s[i] = t[i]) /\ (\A i \in (m + 1) .. n : IsSpace(t[i]))
  OBVIOUS
<1> HIDE DEF m, n
<1>3. \A p \in 0 .. (m - 1) : At(s, p) = At(t, p)
  <2> SUFFICES ASSUME NEW p \in 0 .. (m - 1) PROVE s[p + 1] = t[p + 1]
    BY DEF At
  <2>1. p + 1 \in 1 .. m
    BY <1>1
  <2> QED BY <1>2, <2>1
<1>4. \A p \in m .. (n - 1) : IsSpace(At(t, p))
  <2> SUFFICES ASSUME NEW p \in m .. (n - 1) PROVE IsSpace(t[p + 1])
    BY DEF At
  <2>1. p + 1 \in (m + 1) .. n
    BY <1>1
  <2> QED BY <1>2, <2>1
<1>5. Visible(s, 0, m) = Visible(t, 0, n)
  <2>1. \A p : p \in 0 .. (n - 1) <=> p \in 0 .. (m - 1) \/ p \in m .. (n - 1)
    BY <1>1
  <2> QED BY <2>1, <1>3, <1>4 DEF Visible
<1>6. ASSUME NEW q \in Visible(s, 0, m)
      PROVE  At(s, q) = At(t, q) /\ Visible(s, 0, q) = Visible(t, 0, q)
  <2>1. q \in 0 .. (m - 1)
    BY <1>6 DEF Visible
  <2>2. 0 .. (q - 1) \subseteq 0 .. (m - 1)
    BY <1>1, <2>1
  <2> QED BY <1>3, <2>1, <2>2 DEF Visible
<1> QED BY <1>5, <1>6 DEF LooksLike, m, n

LEMMA WithoutLastSpace ==
  ASSUME NEW s, IsRows(s), s # <<>>, IsSpace(Last(s))
  PROVE  IsRows(Front(s)) /\ LooksLike(Front(s), s)
<1> DEFINE n == Len(s)
           t == Front(s)
<1>1. n \in Nat /\ n >= 1
  BY RowsHaveLength, EmptySeq DEF IsRows
<1>2. \A i \in 1 .. (n - 1) : s[i] \in Rows(s)
  <2>1. \A i \in 1 .. (n - 1) : i \in 1 .. n
    BY <1>1
  <2> QED BY <2>1, RowsHaveLength DEF Rows
<1>3. /\ t \in Seq(Rows(s)) /\ Len(t) = n - 1
      /\ \A i \in 1 .. (n - 1) : t[i] = s[i]
  <2> DEFINE last == n - 1
  <2>1. 1 \in Int /\ last \in Int /\ last - 1 + 1 = last /\ last >= 0
    BY <1>1
  <2> HIDE DEF last
  <2>2. /\ SubSeq(s, 1, last) \in Seq(Rows(s))
        /\ Len(SubSeq(s, 1, last)) = IF 1 <= last THEN last - 1 + 1 ELSE 0
        /\ \A i \in 1 .. last - 1 + 1 : SubSeq(s, 1, last)[i] = s[1 + i - 1]
    BY <1>2, <2>1, SubSeqProperties DEF last
  <2>3. t = SubSeq(s, 1, last)
    BY DEF Front, last
  <2>4. \A i \in 1 .. last : 1 + i - 1 = i
    OBVIOUS
  <2> HIDE DEF t
  <2> QED BY <2>1, <2>2, <2>3, <2>4 DEF last
<1> HIDE DEF t
<1>4. IsRows(t)
  BY <1>3, SeqIsRows
<1>5. \A i \in (Len(t) + 1) .. Len(s) : IsSpace(s[i])
  <2>1. \A i \in (n - 1 + 1) .. n : i = n
    BY <1>1
  <2> QED BY <1>3, <2>1 DEF Last
<1>6. Len(t) <= Len(s) /\ \A i \in 1 .. Len(t) : t[i] = s[i]
  <2> HIDE DEF n
  <2> QED BY <1>1, <1>3 DEF n
<1> QED BY <1>4, <1>5, <1>6, SpacesAtTheEnd DEF t

LEMMA AppendIs ==
  ASSUME NEW s, IsRows(s), NEW c
  PROVE  /\ IsRows(Append(s, c)) /\ Len(Append(s, c)) = Len(s) + 1
         /\ \A i \in 1 .. Len(s) : Append(s, c)[i] = s[i]
         /\ Append(s, c)[Len(s) + 1] = c
<1> DEFINE A == Rows(s) \cup {c}
<1>1. s \in Seq(A)
  <2>1. Rows(s) \subseteq A
    OBVIOUS
  <2> QED BY <2>1, SeqMonotonic DEF IsRows
<1>2. c \in A
  OBVIOUS
<1> HIDE DEF A
<1>3. /\ Append(s, c) \in Seq(A) /\ Len(Append(s, c)) = Len(s) + 1
      /\ \A i \in 1 .. Len(s) : Append(s, c)[i] = s[i]
      /\ Append(s, c)[Len(s) + 1] = c
  BY <1>1, <1>2, AppendProperties
<1> QED BY <1>3, SeqIsRows

LEMMA WithOneSpace ==
  ASSUME NEW s, IsRows(s), NEW c, IsSpace(c)
  PROVE  IsRows(Append(s, c)) /\ LooksLike(Append(s, c), s)
<1> DEFINE t == Append(s, c)
           n == Len(s)
<1>1. /\ IsRows(t) /\ Len(t) = n + 1 /\ t[n + 1] = c
      /\ \A i \in 1 .. n : t[i] = s[i]
  BY AppendIs
<1>2. n \in Nat
  BY RowsHaveLength
<1> HIDE DEF t
<1>3. Len(s) <= Len(t)
  <2> HIDE DEF n
  <2>1. n <= n + 1
    BY <1>2
  <2> QED BY <1>1, <2>1 DEF n
<1>4. \A i \in (n + 1) .. (n + 1) : IsSpace(t[i])
  <2>1. \A i \in (n + 1) .. (n + 1) : i = n + 1
    BY <1>2
  <2> QED BY <1>1, <2>1
<1> QED BY <1>1, <1>3, <1>4, SpacesAtTheEnd DEF t

LEMMA SpaceIsRead ==
  ASSUME NEW s, IsRows(s), NEW c, IsSpace(c)
  PROVE  IsRows(NormalizeNext(s, c)) /\ LooksLike(NormalizeNext(s, c), s)
<1> DEFINE line == IF s # <<>> /\ Last(s) = " " THEN Front(s) ELSE s
<1>1. LooksLike(s, s)
  BY DEF LooksLike
<1>2. IsRows(line) /\ LooksLike(line, s)
  <2>1. CASE s # <<>> /\ Last(s) = " "
    <3>1. IsSpace(Last(s))
      BY <2>1 DEF IsSpace
    <3> QED BY <2>1, <3>1, WithoutLastSpace
  <2>2. CASE ~(s # <<>> /\ Last(s) = " ")
    BY <1>1, <2>2
  <2> QED BY <2>1, <2>2
<1>3. CASE c = " "
  <2>1. NormalizeNext(s, c) = IF Blank(s) THEN s ELSE Append(s, c)
    BY <1>3 DEF NormalizeNext
  <2> QED BY <1>1, <2>1, WithOneSpace
<1>4. CASE c = "\n"
  <2>1. NormalizeNext(s, c) = IF s = <<>> \/ TwoLines(line) THEN s ELSE Append(line, c)
    BY <1>4 DEF NormalizeNext
  <2> HIDE DEF line
  <2>2. IsRows(Append(line, c)) /\ LooksLike(Append(line, c), line)
    BY <1>2, WithOneSpace
  <2>3. LooksLike(Append(line, c), s)
    BY <1>2, <2>2, LooksAlikeBothWays
  <2> QED BY <1>1, <2>1, <2>2, <2>3
<1> QED BY <1>3, <1>4 DEF IsSpace

\* The first n characters of raw show what s shows.
ReadAs(raw, n, s) ==
  /\ Cardinality(Visible(raw, 0, n)) = Cardinality(Visible(s, 0, Len(s)))
  /\ \A p \in Visible(raw, 0, n), q \in Visible(s, 0, Len(s)) :
       Cardinality(Visible(raw, 0, p)) = Cardinality(Visible(s, 0, q)) => At(raw, p) = At(s, q)

LEMMA ReadAsLike ==
  ASSUME NEW raw, NEW n, NEW s, NEW t, ReadAs(raw, n, s), LooksLike(t, s)
  PROVE  ReadAs(raw, n, t)
BY DEF ReadAs, LooksLike

\* One more visible character of the text is one more of its positions.
LEMMA OneMoreVisible ==
  ASSUME NEW s, NEW n \in Nat
  PROVE  /\ IsSpace(At(s, n)) => Visible(s, 0, n + 1) = Visible(s, 0, n)
         /\ ~IsSpace(At(s, n)) =>
              /\ Visible(s, 0, n + 1) = Visible(s, 0, n) \cup {n}
              /\ Cardinality(Visible(s, 0, n + 1)) = Cardinality(Visible(s, 0, n)) + 1
         /\ \A p \in Visible(s, 0, n) :
              Cardinality(Visible(s, 0, p)) < Cardinality(Visible(s, 0, n))
<1>1. \A p : p \in 0 .. (n + 1 - 1) <=> p \in 0 .. (n - 1) \/ p = n
  OBVIOUS
<1>2. IsSpace(At(s, n)) => Visible(s, 0, n + 1) = Visible(s, 0, n)
  BY <1>1 DEF Visible
<1>3. ~IsSpace(At(s, n)) => Visible(s, 0, n + 1) = Visible(s, 0, n) \cup {n}
  BY <1>1 DEF Visible
<1>4. IsFiniteSet(Visible(s, 0, n)) /\ Cardinality(Visible(s, 0, n)) \in Nat
  BY VisibleType DEF IsDates
<1>5. n \notin Visible(s, 0, n)
  BY DEF Visible
<1>6. Cardinality(Visible(s, 0, n) \cup {n}) = Cardinality(Visible(s, 0, n)) + 1
  BY <1>4, <1>5, FS_AddElement
<1>7. ASSUME NEW p \in Visible(s, 0, n)
      PROVE  Cardinality(Visible(s, 0, p)) < Cardinality(Visible(s, 0, n))
  <2>1. p \in 0 .. (n - 1)
    BY DEF Visible
  <2>2. Visible(s, 0, p) \subseteq Visible(s, 0, n)
    <3>1. 0 .. (p - 1) \subseteq 0 .. (n - 1)
      BY <2>1
    <3> QED BY <3>1 DEF Visible
  <2>3. p \notin Visible(s, 0, p)
    BY <2>1 DEF Visible
  <2>4. Visible(s, 0, p) # Visible(s, 0, n)
    BY <2>3
  <2>5. Cardinality(Visible(s, 0, p)) <= Cardinality(Visible(s, 0, n))
        /\ Cardinality(Visible(s, 0, p)) # Cardinality(Visible(s, 0, n))
    BY <1>4, <2>2, <2>4, FS_Subset
  <2>6. Cardinality(Visible(s, 0, p)) \in Nat
    <3>1. 0 \in Int /\ p \in Int
      BY <2>1
    <3> QED BY <3>1, VisibleType
  <2> QED BY <1>4, <2>5, <2>6
<1> QED BY <1>2, <1>3, <1>6, <1>7

LEMMA VisibleIsRead ==
  ASSUME NEW raw, NEW n \in Nat, NEW s, IsRows(s), ReadAs(raw, n, s), ~IsSpace(At(raw, n))
  PROVE  ReadAs(raw, n + 1, Append(s, At(raw, n)))
<1> DEFINE c == At(raw, n)
           t == Append(s, c)
           m == Len(s)
           V == Visible(raw, 0, n)
           W == Visible(s, 0, m)
<1>1. /\ Len(t) = m + 1 /\ t[m + 1] = c /\ m \in Nat
      /\ \A i \in 1 .. m : t[i] = s[i]
  BY AppendIs, RowsHaveLength
<1> HIDE DEF t
<1>2. At(t, m) = c /\ \A q \in 0 .. (m - 1) : At(t, q) = At(s, q)
  <2>1. \A q \in 0 .. (m - 1) : q + 1 \in 1 .. m
    BY <1>1
  <2> QED BY <1>1, <2>1 DEF At
<1> HIDE DEF m
<1>3. \A q \in 0 .. m : Visible(t, 0, q) = Visible(s, 0, q)
  <2>1. \A q \in 0 .. m : 0 .. (q - 1) \subseteq 0 .. (m - 1)
    BY <1>1
  <2> QED BY <1>2, <2>1 DEF Visible
<1>4. m \in 0 .. m /\ \A q \in W : q \in 0 .. (m - 1) /\ q \in 0 .. m
  BY <1>1 DEF Visible
<1>5. /\ Visible(raw, 0, n + 1) = V \cup {n}
      /\ Cardinality(Visible(raw, 0, n + 1)) = Cardinality(V) + 1
      /\ \A p \in V : Cardinality(Visible(raw, 0, p)) < Cardinality(V)
  BY OneMoreVisible
<1>6. /\ Visible(t, 0, m + 1) = W \cup {m}
      /\ Cardinality(Visible(t, 0, m + 1)) = Cardinality(W) + 1
      /\ \A q \in W : Cardinality(Visible(s, 0, q)) < Cardinality(W)
  <2>1. Visible(t, 0, m) = W
    BY <1>3, <1>4
  <2>2. \A q \in W : Visible(t, 0, q) = Visible(s, 0, q)
    BY <1>3, <1>4
  <2>3. ~IsSpace(At(t, m))
    BY <1>2
  <2>4. /\ Visible(t, 0, m + 1) = Visible(t, 0, m) \cup {m}
        /\ Cardinality(Visible(t, 0, m + 1)) = Cardinality(Visible(t, 0, m)) + 1
        /\ \A q \in Visible(t, 0, m) :
             Cardinality(Visible(t, 0, q)) < Cardinality(Visible(t, 0, m))
    BY <1>1, <2>3, OneMoreVisible
  <2> HIDE DEF W
  <2> QED BY <2>1, <2>2, <2>4
<1>7. /\ Cardinality(V) = Cardinality(W) /\ Cardinality(V) \in Nat
      /\ \A p \in V, q \in W :
           Cardinality(Visible(raw, 0, p)) = Cardinality(Visible(s, 0, q)) => At(raw, p) = At(s, q)
  BY VisibleType DEF ReadAs, m
<1> HIDE DEF c
<1>8. ASSUME NEW p \in V \cup {n}, NEW q \in W \cup {m},
             Cardinality(Visible(raw, 0, p)) = Cardinality(Visible(t, 0, q))
      PROVE  At(raw, p) = At(t, q)
  <2>1. CASE p = n /\ q = m
    BY <1>2, <2>1 DEF c
  <2>2. CASE p = n /\ q \in W
    <3>1. Cardinality(V) = Cardinality(Visible(s, 0, q))
      BY <1>3, <1>4, <1>8, <2>2
    <3> QED BY <1>6, <1>7, <2>2, <3>1
  <2>3. CASE p \in V /\ q = m
    <3>1. Cardinality(Visible(raw, 0, p)) = Cardinality(W)
      BY <1>3, <1>4, <1>8, <2>3
    <3> QED BY <1>5, <1>7, <2>3, <3>1
  <2>4. CASE p \in V /\ q \in W
    <3>1. Cardinality(Visible(raw, 0, p)) = Cardinality(Visible(s, 0, q))
      BY <1>3, <1>4, <1>8, <2>4
    <3> QED BY <1>2, <1>4, <1>7, <2>4, <3>1
  <2> QED BY <2>1, <2>2, <2>3, <2>4
<1> HIDE DEF V, W
<1> QED BY <1>1, <1>5, <1>6, <1>7, <1>8 DEF ReadAs, t, c

\* The recursion over the characters of a text has a solution.
IsReading(read, text, m) ==
  read = [n \in 0 .. m |-> IF n = 0 THEN <<>> ELSE NormalizeNext(read[n - 1], text[n])]

LEMMA ReadingExists ==
  ASSUME NEW text, NEW last \in Nat
  PROVE  \E read : IsReading(read, text, last)
<1> DEFINE Step(n, s) == NormalizeNext(s, text[n])
           Solved(m) == \E read : IsReading(read, text, m)
           Unsolved == {m \in 0 .. last : ~Solved(m)}
<1>1. \A m, read : IsReading(read, text, m)
        <=> read = [n \in 0 .. m |-> IF n = 0 THEN <<>> ELSE Step(n, read[n - 1])]
  BY DEF IsReading
<1> HIDE DEF Step
<1>2. Solved(0)
  <2> DEFINE read == [n \in 0 .. 0 |-> <<>>]
  <2>1. read = [n \in 0 .. 0 |-> IF n = 0 THEN <<>> ELSE Step(n, read[n - 1])]
    <3>1. \A n \in 0 .. 0 : n = 0
      OBVIOUS
    <3> QED BY <3>1
  <2> HIDE DEF read
  <2> QED BY <1>1, <2>1
<1>3. ASSUME NEW m \in 1 .. last, Solved(m - 1) PROVE Solved(m)
  <2>1. PICK earlier : earlier = [n \in 0 .. (m - 1) |-> IF n = 0 THEN <<>> ELSE Step(n, earlier[n - 1])]
    BY <1>1, <1>3
  <2> DEFINE read == [n \in 0 .. m |-> IF n = m THEN Step(m, earlier[m - 1]) ELSE earlier[n]]
  <2>2. ASSUME NEW n \in 0 .. m
        PROVE  read[n] = IF n = 0 THEN <<>> ELSE Step(n, read[n - 1])
    <3>1. CASE n = 0
      <4>1. n # m /\ 0 \in 0 .. (m - 1)
        BY <3>1
      <4>2. read[n] = earlier[0] /\ earlier[0] = <<>>
        BY <2>1, <3>1, <4>1
      <4> QED BY <3>1, <4>2
    <3>2. CASE n # 0
      <4>1. n - 1 \in 0 .. m /\ n - 1 # m
        BY <3>2
      <4>2. read[n - 1] = earlier[n - 1]
        BY <4>1
      <4>3. read[n] = Step(n, earlier[n - 1])
        <5>1. CASE n = m
          BY <5>1
        <5>2. CASE n # m
          <6>1. n \in 0 .. (m - 1)
            BY <5>2
          <6> QED BY <2>1, <3>2, <5>2, <6>1
        <5> QED BY <5>1, <5>2
      <4> HIDE DEF read
      <4> QED BY <3>2, <4>2, <4>3
    <3> QED BY <3>1, <3>2
  <2>3. read = [n \in 0 .. m |-> read[n]]
    OBVIOUS
  <2> HIDE DEF read
  <2>4. read = [n \in 0 .. m |-> IF n = 0 THEN <<>> ELSE Step(n, read[n - 1])]
    BY <2>2, <2>3
  <2> QED BY <1>1, <2>4
<1> HIDE DEF Solved
<1>4. Unsolved = {}
  <2> SUFFICES ASSUME Unsolved # {} PROVE FALSE
    OBVIOUS
  <2>1. IsDates(Unsolved)
    <3>1. IsFiniteSet(0 .. last)
      <4>1. 0 \in Int /\ last \in Int
        OBVIOUS
      <4> QED BY ONLY <4>1, FS_Interval
    <3>2. Unsolved \subseteq 0 .. last /\ 0 .. last \subseteq Int
      OBVIOUS
    <3> HIDE DEF Unsolved
    <3> QED BY <3>1, <3>2, FS_Subset DEF IsDates
  <2>2. PICK m \in Unsolved : \A n \in Unsolved : m <= n
    <3> HIDE DEF Unsolved
    <3> QED BY <2>1, EarliestDate
  <2>3. m \in 0 .. last /\ ~Solved(m) /\ m # 0
    BY <1>2
  <2>4. m - 1 \in 0 .. last /\ ~(m <= m - 1) /\ m \in 1 .. last
    BY <2>3
  <2>5. Solved(m - 1)
    BY <2>2, <2>4
  <2> QED BY <1>3, <2>3, <2>4, <2>5
<1>5. last \in 0 .. last
  OBVIOUS
<1> QED BY <1>4, <1>5 DEF Solved

\* normalize_text loses no visible character and moves none past another.
LEMMA NormalizedShowsAll ==
  ASSUME NEW raw, IsRows(raw)
  PROVE  IsRows(normalize_text(raw)) /\ SameVisible(raw, normalize_text(raw))
<1> DEFINE last == Len(raw)
           read == CHOOSE f : IsReading(f, raw, last)
           s == read[last]
<1>1. last \in Nat
  BY RowsHaveLength
<1>2. IsReading(read, raw, last)
  <2> HIDE DEF last
  <2> QED BY <1>1, ReadingExists
<1>3. normalize_text(raw) = IF TwoLines(s) THEN Front(Front(s))
                            ELSE IF s # <<>> /\ Blank(s) THEN Front(s) ELSE s
  BY DEF normalize_text, IsReading
<1> HIDE DEF read, last
<1>4. /\ read[0] = <<>>
      /\ \A n \in 1 .. last : read[n] = NormalizeNext(read[n - 1], raw[n])
  <2>1. 0 \in 0 .. last /\ \A n \in 1 .. last : n \in 0 .. last /\ n # 0
    BY <1>1
  <2> QED BY <1>2, <2>1 DEF IsReading
<1> DEFINE Good(n) == IsRows(read[n]) /\ ReadAs(raw, n, read[n])
           Bad == {n \in 0 .. last : ~Good(n)}
<1>5. Good(0)
  <2>1. IsRows(<<>>) /\ Len(<<>>) = 0
    BY NoRows, EmptySeq
  <2>2. \A t : Visible(t, 0, 0) = {}
    BY DEF Visible
  <2> QED BY <1>4, <2>1, <2>2 DEF ReadAs
<1>6. ASSUME NEW n \in 1 .. last, Good(n - 1) PROVE Good(n)
  <2> DEFINE m == n - 1
             c == raw[n]
  <2>1. m \in Nat /\ m + 1 = n /\ At(raw, m) = c
    BY DEF At
  <2>2. IsRows(read[m]) /\ ReadAs(raw, m, read[m]) /\ read[n] = NormalizeNext(read[m], c)
    BY <1>4, <1>6
  <2> HIDE DEF m, c
  <2>3. CASE IsSpace(c)
    <3>1. Visible(raw, 0, n) = Visible(raw, 0, m)
      BY <2>1, <2>3, OneMoreVisible
    <3>2. ReadAs(raw, n, read[m])
      BY <2>2, <3>1 DEF ReadAs
    <3> QED BY <2>2, <2>3, <3>2, SpaceIsRead, ReadAsLike
  <2>4. CASE ~IsSpace(c)
    <3>1. NormalizeNext(read[m], c) = Append(read[m], c)
      BY <2>4 DEF NormalizeNext, IsSpace
    <3>2. ReadAs(raw, m + 1, Append(read[m], c))
      BY <2>1, <2>2, <2>4, VisibleIsRead
    <3>3. IsRows(Append(read[m], c))
      BY <2>2, AppendIs
    <3> QED BY <2>1, <2>2, <3>1, <3>2, <3>3
  <2> QED BY <2>3, <2>4
<1> HIDE DEF Good
<1>7. Bad = {}
  <2> SUFFICES ASSUME Bad # {} PROVE FALSE
    OBVIOUS
  <2>1. IsDates(Bad)
    <3>1. IsFiniteSet(0 .. last)
      <4>1. 0 \in Int /\ last \in Int
        BY <1>1
      <4> QED BY <4>1, FS_Interval
    <3>2. Bad \subseteq 0 .. last /\ 0 .. last \subseteq Int
      BY <1>1
    <3> HIDE DEF Bad
    <3> QED BY <3>1, <3>2, FS_Subset DEF IsDates
  <2>2. PICK n \in Bad : \A k \in Bad : n <= k
    <3> HIDE DEF Bad
    <3> QED BY <2>1, EarliestDate
  <2>3. n \in 0 .. last /\ ~Good(n) /\ n # 0
    BY <1>5
  <2>4. n - 1 \in 0 .. last /\ ~(n <= n - 1) /\ n \in 1 .. last
    BY <1>1, <2>3
  <2>5. Good(n - 1)
    BY <2>2, <2>4
  <2> QED BY <1>6, <2>3, <2>4, <2>5
<1>8. IsRows(s) /\ ReadAs(raw, last, s)
  <2>1. last \in 0 .. last
    BY <1>1
  <2>2. Good(last)
    BY <1>7, <2>1
  <2> QED BY <2>2 DEF Good
<1> HIDE DEF s
<1>9. IsRows(normalize_text(raw)) /\ LooksLike(normalize_text(raw), s)
  <2>1. CASE TwoLines(s)
    <3> DEFINE n == Len(s)
               t == Front(s)
    <3>1. n \in Nat /\ n >= 2 /\ s[n] = "\n" /\ s[n - 1] = "\n"
      BY <1>8, <2>1, RowsHaveLength DEF TwoLines
    <3>2. s # <<>> /\ IsSpace(Last(s))
      BY <3>1, EmptySeq DEF Last, IsSpace
    <3>3. IsRows(t) /\ LooksLike(t, s)
      BY <1>8, <3>2, WithoutLastSpace
    <3>4. Len(t) = n - 1 /\ t[n - 1] = s[n - 1]
      <4> DEFINE m == n - 1
      <4>1. m \in Int /\ 1 \in Int /\ 1 <= m /\ m - 1 + 1 = m /\ m \in 1 .. m - 1 + 1 /\ 1 + m - 1 = m
        BY <3>1
      <4>2. \A i \in 1 .. m : s[i] \in Rows(s)
        <5>1. \A i \in 1 .. m : i \in 1 .. n
          BY <3>1
        <5> QED BY <1>8, <5>1, RowsHaveLength DEF Rows
      <4> HIDE DEF m
      <4>3. Len(SubSeq(s, 1, m)) = m /\ SubSeq(s, 1, m)[m] = s[m]
        <5>1. /\ Len(SubSeq(s, 1, m)) = IF 1 <= m THEN m - 1 + 1 ELSE 0
              /\ \A i \in 1 .. m - 1 + 1 : SubSeq(s, 1, m)[i] = s[1 + i - 1]
          BY <4>1, <4>2, SubSeqProperties
        <5>2. SubSeq(s, 1, m)[m] = s[1 + m - 1]
          BY <4>1, <5>1
        <5> QED BY <4>1, <5>1, <5>2
      <4>4. t = SubSeq(s, 1, m)
        BY DEF Front, m
      <4> QED BY <4>3, <4>4 DEF m
    <3>5. t # <<>> /\ IsSpace(Last(t))
      <4>1. Last(t) = "\n" /\ Len(t) # 0
        BY <3>1, <3>4 DEF Last
      <4> HIDE DEF t
      <4> QED BY <4>1, EmptySeq DEF IsSpace
    <3> HIDE DEF t
    <3>6. IsRows(Front(t)) /\ LooksLike(Front(t), t)
      BY <3>3, <3>5, WithoutLastSpace
    <3>7. LooksLike(Front(t), s)
      BY <3>3, <3>6, LooksAlikeBothWays
    <3> QED BY <1>3, <2>1, <3>6, <3>7 DEF t
  <2>2. CASE ~TwoLines(s) /\ s # <<>> /\ Blank(s)
    <3>1. IsSpace(Last(s))
      BY <2>2 DEF Blank
    <3> QED BY <1>3, <1>8, <2>2, <3>1, WithoutLastSpace
  <2>3. CASE ~TwoLines(s) /\ ~(s # <<>> /\ Blank(s))
    BY <1>3, <1>8, <2>3 DEF LooksLike
  <2> QED BY <2>1, <2>2, <2>3
<1>10. ReadAs(raw, last, normalize_text(raw))
  BY <1>8, <1>9, ReadAsLike
<1> QED BY <1>9, <1>10 DEF ReadAs, SameVisible, last

LEMMA OneCharacter == ASSUME NEW c PROVE 1 \in DOMAIN <<c>> /\ <<c>>[1] = c
<1>1. <<c>> \in Seq({c}) /\ Len(<<c>>) = 1
  OBVIOUS
<1>2. DOMAIN <<c>> = 1 .. 1
  BY <1>1, LenProperties
<1>3. <<c>>[1] = c
  OBVIOUS
<1> QED BY <1>2, <1>3

\* Where a slice that starts at start ends: between there and its target, and at its
\* very start only when a space stands there.
LEMMA BoundaryIs ==
  ASSUME NEW text, NEW start \in Nat, NEW target_end \in Nat, start < target_end
  PROVE  LET end == preferred_boundary(text, start, target_end)
         IN end \in start .. target_end /\ (end = start => IsSpace(At(text, start)))
<1> DEFINE least == start + (target_end - start) \div 2
           candidates == {p \in least .. (target_end - 1) :
                            \E s \in Separators : p + Len(s) <= target_end /\ Follows(text, p, s)}
           boundary == CHOOSE b \in candidates : \A c \in candidates : c <= b
           Marked == \E s \in {<<"\n", "\n">>, <<".", " ">>, <<"stop">>} : Follows(text, boundary, s)
           end == preferred_boundary(text, start, target_end)
<1>1. end = IF target_end = Len(text) \/ candidates = {} THEN target_end
            ELSE IF Marked THEN boundary + 1 ELSE boundary
  BY DEF preferred_boundary
<1> SUFFICES end \in start .. target_end /\ (end = start => IsSpace(At(text, start)))
  OBVIOUS
<1> HIDE DEF end
<1>2. CASE target_end = Len(text) \/ candidates = {}
  <2>1. end = target_end
    BY <1>1, <1>2
  <2> QED BY <2>1
<1>3. CASE target_end # Len(text) /\ candidates # {}
  <2>1. least \in Int /\ start <= least
    <3>1. target_end - start \in Nat
      OBVIOUS
    <3>2. (target_end - start) \div 2 \in Nat
      BY <3>1
    <3> QED BY <3>2
  <2> HIDE DEF least
  <2>2. IsDates(candidates)
    <3> DEFINE last == target_end - 1
    <3>1. least \in Int /\ last \in Int
      BY <2>1
    <3> HIDE DEF last
    <3>2. IsFiniteSet(least .. last) /\ least .. last \subseteq Int
      BY <3>1, FS_Interval
    <3>3. candidates \subseteq least .. last
      BY DEF last
    <3> HIDE DEF candidates
    <3> QED BY <3>2, <3>3, FS_Subset DEF IsDates
  <2>3. boundary \in candidates
    <3> HIDE DEF candidates
    <3>1. \E b \in candidates : \A c \in candidates : c <= b
      BY <1>3, <2>2, LatestDate
    <3> QED BY <3>1
  <2>4. PICK s \in Separators : Follows(text, boundary, s)
    <3> HIDE DEF boundary
    <3> QED BY <2>3
  <2>5. boundary \in least .. (target_end - 1)
    <3> HIDE DEF boundary
    <3> QED BY <2>3
  <2> HIDE DEF boundary, Marked
  <2>6. end = IF Marked THEN boundary + 1 ELSE boundary
    BY <1>1, <1>3
  <2>7. end \in start .. target_end
    BY <2>1, <2>5, <2>6
  <2>8. ASSUME end = start PROVE IsSpace(At(text, start))
    <3>1. boundary = start /\ ~Marked
      BY <2>1, <2>5, <2>6, <2>8
    <3>2. s = <<"\n">> \/ s = <<" ">>
      BY <2>4, <3>1 DEF Separators, Marked
    <3>3. PICK c \in {"\n", " "} : s = <<c>>
      BY <3>2
    <3>4. 1 \in DOMAIN s /\ s[1] = c
      BY <3>3, OneCharacter
    <3>5. text[boundary + 1] = c
      BY <2>4, <3>4 DEF Follows
    <3> QED BY <3>1, <3>3, <3>5 DEF At, IsSpace
  <2> QED BY <2>7, <2>8
<1> QED BY <1>2, <1>3

LEMMA NextStartIs ==
  ASSUME NEW text, NEW start \in Nat, NEW end \in Nat, NEW overlap \in Nat
  PROVE  LET p == LargerOf(end - overlap, start + 1)
             q == next_start(text, start, end, overlap)
         IN /\ q \in p .. LargerOf(p, end) /\ p \in Nat /\ p > start /\ p <= LargerOf(end, start + 1)
            /\ \A r \in p .. (q - 1) : IsSpace(At(text, r))
<1> DEFINE p == LargerOf(end - overlap, start + 1)
           furthest == LargerOf(p, end)
           Found(q) == q >= end \/ ~IsSpace(At(text, q))
           places == {q \in p .. furthest : Found(q)}
           q == next_start(text, start, end, overlap)
<1>1. p \in Nat /\ p > start /\ p <= LargerOf(end, start + 1)
  BY DEF LargerOf
<1>2. furthest \in Nat /\ p <= furthest /\ end <= furthest
  BY <1>1 DEF LargerOf
<1>3. q = CHOOSE x \in p .. furthest : (\A r \in p .. (x - 1) : IsSpace(At(text, r))) /\ Found(x)
  BY DEF next_start
<1> HIDE DEF p, furthest, q
<1>4. furthest \in places
  BY <1>1, <1>2
<1>5. IsDates(places)
  <2>1. IsFiniteSet(p .. furthest) /\ p .. furthest \subseteq Int
    BY <1>1, <1>2, FS_Interval
  <2>2. places \subseteq p .. furthest
    OBVIOUS
  <2> HIDE DEF places
  <2> QED BY <2>1, <2>2, FS_Subset DEF IsDates
<1>6. PICK x \in places : \A y \in places : x <= y
  <2> HIDE DEF places
  <2> QED BY <1>4, <1>5, EarliestDate
<1>7. x \in p .. furthest /\ Found(x)
  OBVIOUS
<1>8. ASSUME NEW r \in p .. (x - 1) PROVE IsSpace(At(text, r))
  <2>1. r \in p .. furthest /\ ~(x <= r)
    BY <1>1, <1>2, <1>7
  <2>2. ~Found(r)
    BY <1>6, <2>1
  <2> QED BY <2>2
<1>9. \E y \in p .. furthest : (\A r \in p .. (y - 1) : IsSpace(At(text, r))) /\ Found(y)
  BY <1>7, <1>8
<1>10. q \in p .. furthest /\ \A r \in p .. (q - 1) : IsSpace(At(text, r))
  <2> HIDE DEF Found
  <2> QED BY <1>3, <1>9
<1> QED BY <1>1, <1>10 DEF p, furthest, q

\* One step of split_text from start: where its slice ends, and where the next starts.
EndOf(text, start, max) ==
  preferred_boundary(text, start, IF start + max < Len(text) THEN start + max ELSE Len(text))

LEMMA SliceMovesOn ==
  ASSUME NEW text, IsRows(text), NEW max \in Nat \ {0}, NEW overlap \in Nat,
         NEW start \in 0 .. Len(text)
  PROVE  LET end == EndOf(text, start, max)
             next == next_start(text, start, end, overlap)
         IN /\ end \in start .. Len(text) /\ end <= start + max
            /\ end # Len(text) =>
                 /\ next \in (start + 1) .. Len(text)
                 /\ \A p \in Visible(text, start, Len(text)) : p < end \/ p >= next
<1> DEFINE length == Len(text)
           target == IF start + max < length THEN start + max ELSE length
           end == EndOf(text, start, max)
           next == next_start(text, start, end, overlap)
<1>1. length \in Nat /\ start \in 0 .. length
  BY RowsHaveLength
<1>2. end = preferred_boundary(text, start, target)
  BY DEF EndOf
<1> HIDE DEF end
<1>3. CASE start = length
  <2>1. target = length
    BY <1>1, <1>3
  <2> HIDE DEF target
  <2>2. end = length
    BY <1>2, <2>1 DEF preferred_boundary
  <2> HIDE DEF next
  <2> QED BY <1>1, <1>3, <2>2 DEF end, next
<1>4. CASE start # length
  <2>1. /\ target \in Nat /\ start < target /\ target <= length /\ target <= start + max
        /\ start \in Nat
    BY <1>1, <1>4
  <2> HIDE DEF target
  <2>2. end \in start .. target /\ (end = start => IsSpace(At(text, start)))
    BY <1>2, <2>1, BoundaryIs
  <2>3. end \in start .. length /\ end <= start + max /\ end \in Nat
    BY <1>1, <2>1, <2>2
  <2>4. ASSUME end # length
        PROVE  /\ next \in (start + 1) .. length
               /\ \A p \in Visible(text, start, length) : p < end \/ p >= next
    <3> DEFINE from == LargerOf(end - overlap, start + 1)
    <3>1. /\ next \in from .. LargerOf(from, end) /\ from \in Nat /\ from > start
          /\ from <= LargerOf(end, start + 1)
      BY <2>1, <2>3, NextStartIs
    <3> HIDE DEF next, from
    <3>2. LargerOf(end, start + 1) <= length
      BY <1>1, <1>4, <2>3 DEF LargerOf
    <3>3. next \in (start + 1) .. length
      BY <1>1, <2>1, <2>3, <3>1, <3>2 DEF LargerOf
    <3>4. ASSUME NEW p \in Visible(text, start, length), p >= end PROVE p >= next
      <4>1. p \in start .. (length - 1) /\ ~IsSpace(At(text, p))
        BY DEF Visible
      <4>2. p # start \/ end # start
        BY <2>2, <4>1
      <4>3. p >= end /\ p > start
        BY <1>1, <2>3, <3>4, <4>1, <4>2
      <4>4. next <= LargerOf(end, start + 1)
        BY <2>1, <2>3, <3>1 DEF LargerOf
      <4> QED BY <1>1, <2>3, <3>3, <4>1, <4>3, <4>4 DEF LargerOf
    <3>5. \A p \in Visible(text, start, length) : p \in Int
      BY <1>1 DEF Visible
    <3> QED BY <2>3, <3>3, <3>4, <3>5
  <2> QED BY <2>3, <2>4 DEF end, next
<1> QED BY <1>3, <1>4

\* What the chunks cut from start on are: each visible character from there is in one of
\* them, none is empty or longer than asked, and they start in order.
AreChunksOf(text, max, start, chunks) ==
  /\ IsRows(chunks)
  /\ \A i \in 1 .. Len(chunks) :
       /\ chunks[i].start_character \in Visible(text, start, Len(text))
       /\ chunks[i].end_character \in Int
       /\ chunks[i].end_character - chunks[i].start_character \in 1 .. max
       /\ i > 1 => chunks[i - 1].start_character <= chunks[i].start_character
  /\ \A p \in Visible(text, start, Len(text)) :
       \E i \in 1 .. Len(chunks) : chunks[i].start_character <= p /\ p < chunks[i].end_character

LEMMA ChunkIs ==
  ASSUME NEW text, NEW start \in Int, NEW end \in Int
  PROVE  \/ Visible(text, start, end) = {} /\ Chunk(text, start, end) = <<>>
         \/ \E c : /\ Chunk(text, start, end) = <<c>>
                   /\ c.start_character \in Visible(text, start, end)
                   /\ c.end_character \in Int /\ c.end_character <= end
                   /\ \A p \in Visible(text, start, end) :
                        c.start_character <= p /\ p < c.end_character
<1> DEFINE visible == Visible(text, start, end)
           first == CHOOSE p \in visible : \A q \in visible : p <= q
           last == CHOOSE p \in visible : \A q \in visible : q <= p
           c == [start_character |-> first, end_character |-> 1 + last]
<1>1. visible \subseteq start .. (end - 1) /\ IsDates(visible)
  BY VisibleType
<1>2. Chunk(text, start, end) = IF visible = {} THEN <<>> ELSE <<c>>
  BY DEF Chunk
<1> HIDE DEF visible
<1>3. CASE visible # {}
  <2>1. first \in visible /\ \A q \in visible : first <= q
    <3>1. \E p \in visible : \A q \in visible : p <= q
      BY <1>1, <1>3, EarliestDate
    <3> QED BY <3>1
  <2>2. last \in visible /\ \A q \in visible : q <= last
    <3>1. \E p \in visible : \A q \in visible : q <= p
      BY <1>1, <1>3, LatestDate
    <3> QED BY <3>1
  <2> HIDE DEF first, last
  <2>3. c.start_character = first /\ c.end_character = 1 + last
    OBVIOUS
  <2> HIDE DEF c
  <2>4. c.end_character \in Int /\ c.end_character <= end
    BY <1>1, <2>2, <2>3
  <2>5. \A p \in visible : c.start_character <= p /\ p < c.end_character
    BY <1>1, <2>1, <2>2, <2>3
  <2>6. Chunk(text, start, end) = <<c>>
    BY <1>2, <1>3
  <2> QED BY <2>1, <2>3, <2>4, <2>5, <2>6 DEF visible
<1>4. CASE visible = {}
  BY <1>2, <1>4 DEF visible
<1> QED BY <1>3, <1>4

LEMMA VisibleFromLater ==
  ASSUME NEW text, IsRows(text), NEW start \in 0 .. Len(text), NEW next \in start .. Len(text)
  PROVE  /\ Visible(text, next, Len(text)) \subseteq Visible(text, start, Len(text))
         /\ \A p \in Visible(text, start, Len(text)) : p \in Int /\ p >= start
         /\ \A p \in Visible(text, start, Len(text)) : p >= next => p \in Visible(text, next, Len(text))
         /\ \A p \in Visible(text, next, Len(text)) : p >= next
         /\ \A end \in Int, p \in Visible(text, start, Len(text)) :
              p < end => p \in Visible(text, start, end)
         /\ \A end \in start .. Len(text) : Visible(text, start, end) \subseteq Visible(text, start, Len(text))
<1>1. Len(text) \in Nat
  BY RowsHaveLength
<1> QED BY <1>1 DEF Visible

LEMMA ChunkThenRest ==
  ASSUME NEW text, IsRows(text), NEW max \in Nat \ {0},
         NEW start \in 0 .. Len(text), NEW end \in start .. Len(text), end <= start + max,
         NEW next \in start .. Len(text), NEW rest, AreChunksOf(text, max, next, rest),
         \A p \in Visible(text, start, Len(text)) : p < end \/ p >= next
  PROVE  AreChunksOf(text, max, start, Chunk(text, start, end) \o rest)
<1> DEFINE length == Len(text)
           all == Visible(text, start, length)
           later == Visible(text, next, length)
           here == Visible(text, start, end)
           n == Len(rest)
<1>1. length \in Nat /\ start \in Nat /\ end \in Nat /\ next \in Nat
  BY RowsHaveLength
<1>2. /\ later \subseteq all /\ (\A p \in all : p \in Int /\ p >= start)
      /\ (\A p \in all : p >= next => p \in later) /\ (\A p \in later : p >= next)
      /\ (\A p \in all : p < end => p \in here)
      /\ here \subseteq all
  BY <1>1, VisibleFromLater
<1>3. /\ IsRows(rest) /\ n \in Nat
      /\ \A i \in 1 .. n :
           /\ rest[i].start_character \in later
           /\ rest[i].end_character \in Int
           /\ rest[i].end_character - rest[i].start_character \in 1 .. max
           /\ i > 1 => rest[i - 1].start_character <= rest[i].start_character
      /\ \A p \in later :
           \E i \in 1 .. n : rest[i].start_character <= p /\ p < rest[i].end_character
  BY RowsHaveLength DEF AreChunksOf
<1>4. \A p \in all : p \in here \/ p \in later
  BY <1>2
<1> HIDE DEF length, all, later, here
<1>5. CASE here = {} /\ Chunk(text, start, end) = <<>>
  <2>1. <<>> \o rest = rest
    BY ConcatEmptySeq, <1>3 DEF IsRows
  <2>2. \A p \in all : p \in later
    BY <1>4, <1>5
  <2>3. AreChunksOf(text, max, start, rest)
    <3> HIDE DEF n
    <3> QED BY <1>2, <1>3, <2>2 DEF AreChunksOf, all, n, length
  <2> QED BY <1>5, <2>1, <2>3
<1>6. ASSUME NEW c, Chunk(text, start, end) = <<c>>, c.start_character \in here,
             c.end_character \in Int, c.end_character <= end,
             \A p \in here : c.start_character <= p /\ p < c.end_character
      PROVE  AreChunksOf(text, max, start, Chunk(text, start, end) \o rest)
  <2> DEFINE chunks == <<c>> \o rest
             first == c.start_character
  <2>1. /\ IsRows(chunks) /\ Len(chunks) = n + 1 /\ chunks[1] = c
        /\ \A i \in 1 .. n : chunks[i + 1] = rest[i]
    <3> DEFINE A == Rows(rest) \cup {c}
    <3>1. rest \in Seq(A)
      <4>1. Rows(rest) \subseteq A
        OBVIOUS
      <4> QED BY <1>3, <4>1, SeqMonotonic DEF IsRows
    <3>2. <<c>> \in Seq(A) /\ Len(<<c>>) = 1 /\ <<c>>[1] = c
      OBVIOUS
    <3> HIDE DEF A
    <3>3. /\ chunks \in Seq(A) /\ Len(chunks) = 1 + n
          /\ \A i \in 1 .. (1 + n) : chunks[i] = IF i <= 1 THEN <<c>>[i] ELSE rest[i - 1]
      BY <3>1, <3>2, ConcatProperties
    <3> HIDE DEF chunks
    <3>4. chunks[1] = c
      <4>1. 1 \in 1 .. (1 + n)
        BY <1>3
      <4> QED BY <3>2, <3>3, <4>1
    <3>5. ASSUME NEW i \in 1 .. n PROVE chunks[i + 1] = rest[i]
      <4>1. i + 1 \in 1 .. (1 + n) /\ ~(i + 1 <= 1) /\ i + 1 - 1 = i
        BY <1>3
      <4> QED BY <3>3, <4>1
    <3>6. Len(chunks) = n + 1
      BY <1>3, <3>3
    <3> QED BY <3>3, <3>4, <3>5, <3>6, SeqIsRows
  <2> HIDE DEF chunks
  <2>2. first \in all /\ first \in Int /\ first >= start /\ first < c.end_character
    BY <1>2, <1>6
  <2>3. c.end_character - first \in 1 .. max
    BY <1>1, <1>6, <2>2
  <2>4. \A p \in all : first <= p
    BY <1>2, <1>6, <2>2, <1>1
  <2>5. ASSUME NEW i \in 1 .. (n + 1)
        PROVE  /\ chunks[i].start_character \in all
               /\ chunks[i].end_character \in Int
               /\ chunks[i].end_character - chunks[i].start_character \in 1 .. max
               /\ i > 1 => chunks[i - 1].start_character <= chunks[i].start_character
    <3>1. CASE i = 1
      BY <1>6, <2>1, <2>2, <2>3, <3>1
    <3>2. CASE i # 1
      <4> DEFINE k == i - 1
      <4>1. k \in 1 .. n /\ k + 1 = i
        BY <1>3, <3>2
      <4>2. chunks[i] = rest[k]
        BY <2>1, <4>1
      <4>3. chunks[k].start_character <= chunks[i].start_character
        <5>1. CASE k = 1
          BY <1>2, <1>3, <2>1, <2>4, <4>1, <4>2, <5>1
        <5>2. CASE k # 1
          <6>1. k - 1 \in 1 .. n /\ k - 1 + 1 = k /\ k > 1
            BY <1>3, <4>1, <5>2
          <6> HIDE DEF k
          <6>2. chunks[k] = rest[k - 1]
            BY <2>1, <6>1
          <6> QED BY <1>3, <4>1, <4>2, <6>1, <6>2
        <5> QED BY <5>1, <5>2
      <4> QED BY <1>2, <1>3, <4>1, <4>2, <4>3
    <3> QED BY <3>1, <3>2
  <2>6. ASSUME NEW p \in all
        PROVE  \E i \in 1 .. (n + 1) : chunks[i].start_character <= p /\ p < chunks[i].end_character
    <3>1. CASE p \in here
      <4>1. 1 \in 1 .. (n + 1)
        BY <1>3
      <4> QED BY <1>6, <2>1, <3>1, <4>1
    <3>2. CASE p \in later
      <4>1. PICK i \in 1 .. n : rest[i].start_character <= p /\ p < rest[i].end_character
        BY <1>3, <3>2
      <4>2. i + 1 \in 1 .. (n + 1) /\ chunks[i + 1] = rest[i]
        BY <1>3, <2>1
      <4> QED BY <4>1, <4>2
    <3> QED BY <1>4, <3>1, <3>2
  <2> HIDE DEF n
  <2>7. AreChunksOf(text, max, start, chunks)
    BY <2>1, <2>5, <2>6 DEF AreChunksOf, all, length
  <2> QED BY <1>6, <2>7 DEF chunks
<1> QED BY <1>1, <1>5, <1>6, ChunkIs DEF here

\* The recursion of split_text over where its slices start.
ChunksGiven(text, max, start, rest) ==
  Chunk(text, start, EndOf(text, start, max)) \o
    IF EndOf(text, start, max) = Len(text) THEN <<>> ELSE rest

NextOf(text, max, overlap, start) == next_start(text, start, EndOf(text, start, max), overlap)

AreSplit(chunks, text, max, overlap, m) ==
  chunks = [start \in m .. Len(text) |->
              ChunksGiven(text, max, start, chunks[NextOf(text, max, overlap, start)])]

LEMMA SplitExists ==
  ASSUME NEW text, IsRows(text), NEW max \in Nat \ {0}, NEW overlap \in Nat
  PROVE  \E chunks : AreSplit(chunks, text, max, overlap, 0)
<1> DEFINE length == Len(text)
           Given(k, rest) == ChunksGiven(text, max, k, rest)
           Next1(k) == NextOf(text, max, overlap, k)
           Ends(k) == EndOf(text, k, max) = length
           Solved(m) == \E chunks : AreSplit(chunks, text, max, overlap, m)
           Unsolved == {m \in 0 .. length : ~Solved(m)}
<1>1. length \in Nat
  BY RowsHaveLength
<1>2. \A m, chunks : AreSplit(chunks, text, max, overlap, m)
                       <=> chunks = [k \in m .. length |-> Given(k, chunks[Next1(k)])]
  BY DEF AreSplit
<1>3. \A k, a, b : Ends(k) => Given(k, a) = Given(k, b)
  BY DEF ChunksGiven
<1>4. ASSUME NEW k \in 0 .. length PROVE Ends(k) \/ Next1(k) \in (k + 1) .. length
  BY SliceMovesOn DEF NextOf
<1>5. Ends(length)
  <2>1. length \in 0 .. length
    BY <1>1
  <2>2. EndOf(text, length, max) \in length .. length
    BY <2>1, SliceMovesOn
  <2> HIDE DEF length
  <2>3. \A x \in length .. length : x = length
    BY <1>1
  <2> QED BY <2>2, <2>3
<1> HIDE DEF Given, Next1, Ends, length
<1>6. Solved(length)
  <2> DEFINE chunks == [k \in length .. length |-> Given(length, <<>>)]
  <2>1. \A k \in length .. length : k = length
    BY <1>1
  <2>2. chunks = [k \in length .. length |-> Given(k, chunks[Next1(k)])]
    <3> SUFFICES ASSUME NEW k \in length .. length
                 PROVE  Given(length, <<>>) = Given(k, chunks[Next1(k)])
      OBVIOUS
    <3> HIDE DEF chunks
    <3> QED BY <1>3, <1>5, <2>1
  <2> HIDE DEF chunks
  <2> QED BY <1>2, <2>2
<1>7. ASSUME NEW m \in 0 .. length, m # length, Solved(m + 1) PROVE Solved(m)
  <2>1. PICK later : later = [k \in (m + 1) .. length |-> Given(k, later[Next1(k)])]
    BY <1>2, <1>7
  <2> DEFINE chunks == [k \in m .. length |-> IF k = m THEN Given(m, later[Next1(m)]) ELSE later[k]]
  <2>2. ASSUME NEW k \in m .. length PROVE chunks[k] = Given(k, chunks[Next1(k)])
    <3>1. chunks[k] = Given(k, later[Next1(k)])
      <4>1. CASE k = m
        BY <4>1
      <4>2. CASE k # m
        <5>1. k \in (m + 1) .. length
          BY <1>1, <4>2
        <5> QED BY <2>1, <4>2, <5>1
      <4> QED BY <4>1, <4>2
    <3>2. CASE Ends(k)
      <4> HIDE DEF chunks
      <4> QED BY <1>3, <3>1, <3>2
    <3>3. CASE ~Ends(k)
      <4>1. Next1(k) \in (k + 1) .. length
        <5>1. k \in 0 .. length
          BY <1>1
        <5> QED BY <1>4, <3>3, <5>1
      <4>2. Next1(k) \in m .. length /\ Next1(k) # m
        BY <1>1, <4>1
      <4>3. chunks[Next1(k)] = later[Next1(k)]
        BY <4>2
      <4> HIDE DEF chunks
      <4> QED BY <3>1, <4>3
    <3> QED BY <3>2, <3>3
  <2>3. chunks = [k \in m .. length |-> chunks[k]]
    OBVIOUS
  <2> HIDE DEF chunks
  <2>4. chunks = [k \in m .. length |-> Given(k, chunks[Next1(k)])]
    BY <2>2, <2>3
  <2> QED BY <1>2, <2>4
<1> HIDE DEF Solved
<1>8. Unsolved = {}
  <2> SUFFICES ASSUME Unsolved # {} PROVE FALSE
    OBVIOUS
  <2>1. IsDates(Unsolved)
    <3>1. 0 \in Int /\ length \in Int
      BY <1>1
    <3>2. IsFiniteSet(0 .. length)
      BY <3>1, FS_Interval
    <3>3. Unsolved \subseteq 0 .. length /\ 0 .. length \subseteq Int
      BY <1>1
    <3> HIDE DEF Unsolved
    <3> QED BY <3>2, <3>3, FS_Subset DEF IsDates
  <2>2. PICK m \in Unsolved : \A n \in Unsolved : n <= m
    <3> HIDE DEF Unsolved
    <3> QED BY <2>1, LatestDate
  <2>3. m \in 0 .. length /\ ~Solved(m) /\ m # length
    BY <1>6
  <2>4. m + 1 \in 0 .. length /\ ~(m + 1 <= m)
    BY <1>1, <2>3
  <2>5. Solved(m + 1)
    BY <2>2, <2>4
  <2> QED BY <1>7, <2>3, <2>5
<1>9. 0 \in 0 .. length
  BY <1>1
<1> QED BY <1>8, <1>9 DEF Solved

LEMMA SplitShowsAll ==
  ASSUME NEW text, IsRows(text), NEW max \in Nat \ {0}, NEW overlap \in Nat
  PROVE  AreChunksOf(text, max, 0, split_text(text, max, overlap))
<1> DEFINE length == Len(text)
           chunks == CHOOSE f : AreSplit(f, text, max, overlap, 0)
           Good(s) == AreChunksOf(text, max, s, chunks[s])
           Bad == {s \in 0 .. length : ~Good(s)}
<1>1. length \in Nat
  BY RowsHaveLength
<1>2. AreSplit(chunks, text, max, overlap, 0)
  BY SplitExists
<1>3. split_text(text, max, overlap) = IF text = <<>> THEN <<>> ELSE chunks[0]
  BY DEF split_text, AreSplit, ChunksGiven, NextOf, EndOf
<1> HIDE DEF chunks
<1>4. AreChunksOf(text, max, length, <<>>)
  <2>1. Visible(text, length, length) = {}
    BY <1>1 DEF Visible
  <2>2. IsRows(<<>>) /\ Len(<<>>) = 0
    BY NoRows, EmptySeq
  <2> HIDE DEF length
  <2> QED BY <2>1, <2>2 DEF AreChunksOf, length
<1>5. ASSUME NEW s \in 0 .. length, \A r \in (s + 1) .. length : Good(r) PROVE Good(s)
  <2> DEFINE end == EndOf(text, s, max)
             next == NextOf(text, max, overlap, s)
  <2>1. chunks[s] = Chunk(text, s, end) \o IF end = length THEN <<>> ELSE chunks[next]
    BY <1>2 DEF AreSplit, ChunksGiven
  <2>2. /\ end \in s .. length /\ end <= s + max
        /\ end # length => /\ next \in (s + 1) .. length
                           /\ \A p \in Visible(text, s, length) : p < end \/ p >= next
    BY SliceMovesOn DEF NextOf
  <2> HIDE DEF end, next
  <2>3. CASE end = length
    <3>1. length \in s .. length
      BY <1>1
    <3>2. \A p \in Visible(text, s, length) : p < end \/ p >= length
      BY <1>1, <2>3 DEF Visible
    <3> QED BY <1>4, <2>1, <2>2, <2>3, <3>1, <3>2, ChunkThenRest
  <2>4. CASE end # length
    <3>1. next \in s .. length
      BY <1>1, <2>2, <2>4
    <3>2. AreChunksOf(text, max, next, chunks[next])
      BY <1>5, <2>2, <2>4
    <3> QED BY <2>1, <2>2, <2>4, <3>1, <3>2, ChunkThenRest
  <2> QED BY <2>3, <2>4
<1> HIDE DEF Good
<1>6. Bad = {}
  <2> SUFFICES ASSUME Bad # {} PROVE FALSE
    OBVIOUS
  <2>1. IsDates(Bad)
    <3> HIDE DEF length
    <3>1. 0 \in Int /\ length \in Int
      BY <1>1
    <3>2. IsFiniteSet(0 .. length)
      BY <3>1, FS_Interval
    <3>3. Bad \subseteq 0 .. length /\ 0 .. length \subseteq Int
      BY <1>1
    <3> HIDE DEF Bad
    <3> QED BY <3>2, <3>3, FS_Subset DEF IsDates
  <2>2. PICK s \in Bad : \A r \in Bad : r <= s
    <3> HIDE DEF Bad
    <3> QED BY <2>1, LatestDate
  <2>3. s \in 0 .. length /\ ~Good(s)
    OBVIOUS
  <2>4. ASSUME NEW r \in (s + 1) .. length PROVE Good(r)
    <3>1. r \in 0 .. length /\ ~(r <= s)
      BY <1>1, <2>3
    <3> QED BY <2>2, <3>1
  <2> QED BY <1>5, <2>3, <2>4
<1>7. 0 \in 0 .. length
  BY <1>1
<1>8. Good(0)
  BY <1>6, <1>7
<1>9. CASE text = <<>>
  <2>1. length = 0
    BY <1>9, EmptySeq
  <2> QED BY <1>3, <1>4, <1>9, <2>1
<1>10. CASE text # <<>>
  BY <1>3, <1>8, <1>10 DEF Good
<1> QED BY <1>9, <1>10

\* Whatever the document, its separators and spaces, the length of a chunk and the
\* overlap: normalising loses none of its visible characters, each is in a chunk, none
\* of the chunks is empty or too long, and they follow each other.
THEOREM TextsAreKept ==
  ASSUME probe[1] = "text" =>
           IsRows(probe[2]) /\ probe[3] \in Nat \ {0} /\ probe[4] \in Nat
  PROVE  TextIsKept
<1> SUFFICES ASSUME probe[1] = "text" PROVE ChunksKeepText(probe[2], probe[3], probe[4])
  BY DEF TextIsKept
<1> DEFINE raw == probe[2]
           max == probe[3]
           overlap == probe[4]
           text == normalize_text(raw)
           chunks == split_text(text, max, overlap)
<1>1. IsRows(raw) /\ max \in Nat \ {0} /\ overlap \in Nat
  OBVIOUS
<1>2. IsRows(text) /\ SameVisible(raw, text)
  BY <1>1, NormalizedShowsAll
<1>3. AreChunksOf(text, max, 0, chunks)
  BY <1>1, <1>2, SplitShowsAll
<1>4. DOMAIN chunks = 1 .. Len(chunks)
  BY <1>3, RowsHaveLength DEF AreChunksOf
<1> HIDE DEF raw, max, overlap, text, chunks
<1>5. \A p \in Visible(text, 0, Len(text)) :
        \E i \in DOMAIN chunks : chunks[i].start_character <= p /\ p < chunks[i].end_character
  BY <1>3, <1>4 DEF AreChunksOf
<1>6. \A i \in DOMAIN chunks :
        /\ chunks[i].end_character - chunks[i].start_character \in 1 .. max
        /\ i > 1 => chunks[i - 1].start_character <= chunks[i].start_character
  BY <1>3, <1>4 DEF AreChunksOf
<1> QED BY <1>2, <1>5, <1>6 DEF ChunksKeepText, raw, max, overlap, text, chunks

-----------------------------------------------------------------------------
(* Sums over places of a list *)

\* A sum is any one of its terms more than the sum of the others.
LEMMA SumAdd ==
  ASSUME NEW S, NEW prices, NEW field, NEW x \in S, IsFiniteSet(S), Naturals(prices, S, field)
  PROVE  WindowSum(prices, S, field) = prices[x][field] + WindowSum(prices, S \ {x}, field)
<1> DEFINE Sum(R) == WindowSum(prices, R, field)
           v(y) == prices[y][field]
           F == {R \in SUBSET S : \E y \in S \ R : Sum(R \cup {y}) # v(y) + Sum(R)}
<1>1. ASSUME NEW R \in SUBSET S
      PROVE  /\ IsFiniteSet(R) /\ Sum(R) \in Nat
             /\ R # {} => \E y \in R : Sum(R) = v(y) + Sum(R \ {y})
  <2>1. IsFiniteSet(R) /\ Naturals(prices, R, field)
    BY FS_Subset DEF Naturals
  <2> QED BY <2>1, SumStep
<1>2. \A y \in S : v(y) \in Nat
  BY DEF Naturals
<1> HIDE DEF Sum, v
<1>3. F = {}
  <2> SUFFICES ASSUME F # {} PROVE FALSE
    OBVIOUS
  <2>1. PICK R \in F : \A Q \in F : Q \subseteq R => Q = R
    <3>1. F \subseteq SUBSET S
      OBVIOUS
    <3> HIDE DEF F
    <3> QED BY <3>1, MinimalSet
  <2>2. PICK y \in S \ R : Sum(R \cup {y}) # v(y) + Sum(R)
    OBVIOUS
  <2>3. R \in SUBSET S /\ R \cup {y} \in SUBSET S
    OBVIOUS
  <2>4. PICK z \in R \cup {y} : Sum(R \cup {y}) = v(z) + Sum((R \cup {y}) \ {z})
    BY <1>1, <2>3
  <2>5. CASE z = y
    <3>1. (R \cup {y}) \ {z} = R
      BY <2>5
    <3> QED BY <2>2, <2>4, <2>5, <3>1
  <2>6. CASE z # y
    <3> DEFINE Q == R \ {z}
    <3>1. z \in R /\ Q \in SUBSET S /\ Q \subseteq R /\ Q # R /\ z \in S \ Q /\ y \in S \ Q
      BY <2>4, <2>6
    <3>2. Q \notin F
      <4> HIDE DEF F, Q
      <4> QED BY <2>1, <3>1
    <3>3. Sum(Q \cup {z}) = v(z) + Sum(Q) /\ Sum(Q \cup {y}) = v(y) + Sum(Q)
      BY <3>1, <3>2
    <3>4. Q \cup {z} = R /\ (R \cup {y}) \ {z} = Q \cup {y}
      BY <2>6, <3>1
    <3>5. Sum(Q) \in Nat /\ v(z) \in Nat /\ v(y) \in Nat
      BY <1>1, <1>2, <3>1
    <3> HIDE DEF Q
    <3>6. Sum(R \cup {y}) = v(z) + (v(y) + Sum(Q))
      BY <2>4, <3>3, <3>4
    <3>7. Sum(R) = v(z) + Sum(Q)
      BY <3>3, <3>4
    <3>8. v(z) + (v(y) + Sum(Q)) = v(y) + (v(z) + Sum(Q))
      BY <3>5
    <3> QED BY <2>2, <3>6, <3>7, <3>8
  <2> QED BY <2>5, <2>6
<1>4. S \ {x} \in SUBSET S /\ x \in S \ (S \ {x}) /\ (S \ {x}) \cup {x} = S
  OBVIOUS
<1>5. Sum(S) = v(x) + Sum(S \ {x})
  BY <1>3, <1>4
<1> QED BY <1>5 DEF Sum, v

\* A sum stays the same when the terms move to other places.
LEMMA SumMoved ==
  ASSUME NEW S, NEW prices, NEW field, NEW f, NEW moved, IsFiniteSet(S),
         Naturals(prices, S, field), \A x, y \in S : f[x] = f[y] => x = y,
         \A x \in S : moved[f[x]][field] = prices[x][field]
  PROVE  WindowSum(moved, {f[x] : x \in S}, field) = WindowSum(prices, S, field)
<1> DEFINE Sum(R) == WindowSum(prices, R, field)
           Image(R) == {f[x] : x \in R}
           Same(R) == IsFiniteSet(Image(R)) /\ WindowSum(moved, Image(R), field) = Sum(R)
           F == {R \in SUBSET S : ~Same(R)}
<1>1. \A R \in SUBSET S : IsFiniteSet(R) /\ Naturals(prices, R, field)
  BY FS_Subset DEF Naturals
<1>2. ASSUME NEW R \in SUBSET S PROVE Naturals(moved, Image(R), field)
  BY DEF Naturals
<1>3. F = {}
  <2> SUFFICES ASSUME F # {} PROVE FALSE
    OBVIOUS
  <2>1. PICK R \in F : \A Q \in F : Q \subseteq R => Q = R
    <3>1. F \subseteq SUBSET S
      OBVIOUS
    <3> HIDE DEF F
    <3> QED BY <3>1, MinimalSet
  <2>2. R \in SUBSET S /\ ~Same(R)
    OBVIOUS
  <2>3. CASE R = {}
    <3>1. Image(R) = {}
      BY <2>3
    <3>2. IsFiniteSet({}) /\ Naturals(moved, {}, field) /\ Naturals(prices, {}, field)
      BY FS_EmptySet DEF Naturals
    <3>3. WindowSum(moved, {}, field) = 0 /\ WindowSum(prices, {}, field) = 0
      BY <3>2, SumStep
    <3> QED BY <2>2, <2>3, <3>1, <3>2, <3>3
  <2>4. CASE R # {}
    <3>1. PICK x \in R : TRUE
      BY <2>4
    <3> DEFINE Q == R \ {x}
    <3>2. Q \in SUBSET S /\ Q \subseteq R /\ Q # R /\ x \in S
      BY <2>2, <3>1
    <3>3. Same(Q)
      <4> HIDE DEF Same, Q
      <4> QED BY <2>1, <3>2
    <3>4. Image(R) = Image(Q) \cup {f[x]}
      BY <3>1
    <3>5. f[x] \notin Image(Q)
      BY <2>2, <3>2
    <3>6. Image(R) \ {f[x]} = Image(Q) /\ f[x] \in Image(R)
      BY <3>4, <3>5
    <3> HIDE DEF Q
    <3>7. IsFiniteSet(Image(R))
      <4> HIDE DEF Image
      <4> QED BY <3>3, <3>4, FS_AddElement
    <3>8. WindowSum(moved, Image(R), field) = moved[f[x]][field] + WindowSum(moved, Image(Q), field)
      <4>1. Naturals(moved, Image(R), field)
        BY <1>2, <2>2
      <4> DEFINE all == Image(R)
                 y == f[x]
      <4>2. IsFiniteSet(all) /\ Naturals(moved, all, field) /\ y \in all /\ all \ {y} = Image(Q)
        BY <3>6, <3>7, <4>1
      <4> HIDE DEF Image, all, y
      <4>3. WindowSum(moved, all, field) = moved[y][field] + WindowSum(moved, all \ {y}, field)
        BY ONLY <4>2, SumAdd
      <4> QED BY <4>2, <4>3 DEF all, y
    <3>9. Sum(R) = prices[x][field] + Sum(Q)
      <4>1. IsFiniteSet(R) /\ Naturals(prices, R, field)
        BY <1>1, <2>2
      <4>2. x \in R
        OBVIOUS
      <4> HIDE DEF F, Image, Same, Sum
      <4>3. WindowSum(prices, R, field) = prices[x][field] + WindowSum(prices, R \ {x}, field)
        BY ONLY <4>1, <4>2, SumAdd
      <4> QED BY <4>3 DEF Sum, Q
    <3> HIDE DEF Sum, Image
    <3> QED BY <2>2, <3>2, <3>3, <3>7, <3>8, <3>9
  <2> QED BY <2>3, <2>4
<1>4. S \in SUBSET S
  OBVIOUS
<1> QED BY <1>3, <1>4

LEMMA TotalIsSum ==
  ASSUME NEW group, NEW places, NEW field
  PROVE  Total(group, places, field) = WindowSum(group, places, field)
BY DEF Total, WindowSum

-----------------------------------------------------------------------------
(* Lists in time order *)

Timed(s) == IsRows(s) /\ \A i \in 1 .. Len(s) : s[i].timestamp \in Int

\* t is s with the bar of place f[k] at place k.
Sorts(f, s, t) ==
  /\ f \in [1 .. Len(s) -> 1 .. Len(s)]
  /\ \A j, k \in 1 .. Len(s) : f[j] = f[k] => j = k
  /\ \A i \in 1 .. Len(s) : \E k \in 1 .. Len(s) : f[k] = i
  /\ \A k \in 1 .. Len(s) : t[k] = s[f[k]]
  /\ \A j, k \in 1 .. Len(s) : j < k => Earlier(s, f[j], f[k])

LEMMA TimeRanks ==
  ASSUME NEW s, Timed(s)
  PROVE  LET n == Len(s)
             Rank(i) == Cardinality({j \in 1 .. n : Earlier(s, j, i)})
         IN /\ n \in Nat
            /\ \A i \in 1 .. n : Rank(i) \in Nat /\ Rank(i) < n
            /\ \A i, j \in 1 .. n : Rank(i) = Rank(j) => i = j
            /\ \A i, j \in 1 .. n : Earlier(s, i, j) => Rank(i) < Rank(j)
            /\ \A i, j \in 1 .. n : i = j \/ Earlier(s, i, j) \/ Earlier(s, j, i)
            /\ \A k \in Nat : k < n => \E i \in 1 .. n : Rank(i) = k
<1> DEFINE n == Len(s)
           S == 1 .. n
           R == {p \in S \X S : Earlier(s, p[1], p[2])}
           Rank(i) == Cardinality({j \in S : Earlier(s, j, i)})
<1>1. n \in Nat /\ \A i \in S : i \in Int /\ s[i].timestamp \in Int
  BY RowsHaveLength DEF Timed
<1>2. IsFiniteSet(S) /\ Cardinality(S) = n
  <2>1. 1 \in Int /\ n \in Int
    BY <1>1
  <2>2. IsFiniteSet(S) /\ Cardinality(S) = IF 1 > n THEN 0 ELSE n - 1 + 1
    BY <2>1, FS_Interval
  <2> QED BY <1>1, <2>2
<1>3. \A i, j \in S : <<i, j>> \in R <=> Earlier(s, i, j)
  OBVIOUS
<1> HIDE DEF n, S, R
<1>4. \A i, j \in S : i = j \/ Earlier(s, i, j) \/ Earlier(s, j, i)
  BY <1>1 DEF Earlier
<1>5. StrictlyOrders(R, S)
  <2>1. \A i \in S : ~Earlier(s, i, i)
    BY <1>1 DEF Earlier
  <2>2. \A i, j, k \in S : Earlier(s, i, j) /\ Earlier(s, j, k) => Earlier(s, i, k)
    BY <1>1 DEF Earlier
  <2> QED BY <1>3, <1>4, <2>1, <2>2 DEF StrictlyOrders
<1>6. \A i \in S : Rank(i) = Cardinality(Below(R, S, i))
  <2>1. \A i \in S : Below(R, S, i) = {j \in S : Earlier(s, j, i)}
    BY <1>3 DEF Below
  <2> QED BY <2>1
<1> HIDE DEF Rank
<1>7. /\ \A i \in S : Rank(i) \in Nat /\ Rank(i) < n
      /\ \A i, j \in S : Rank(i) = Rank(j) => i = j
      /\ \A i, j \in S : Earlier(s, i, j) => Rank(i) < Rank(j)
      /\ \A k \in Nat : k < n => \E i \in S : Rank(i) = k
  <2>1. /\ \A i \in S : Cardinality(Below(R, S, i)) \in Nat
                          /\ Cardinality(Below(R, S, i)) < Cardinality(S)
        /\ \A i, j \in S : Cardinality(Below(R, S, i)) = Cardinality(Below(R, S, j)) => i = j
        /\ \A i, j \in S : <<i, j>> \in R =>
             Cardinality(Below(R, S, i)) < Cardinality(Below(R, S, j))
        /\ \A k \in Nat : k < Cardinality(S) => \E i \in S : Cardinality(Below(R, S, i)) = k
    BY ONLY <1>2, <1>5, RanksAreBijective
  <2> DEFINE B(i) == Cardinality(Below(R, S, i))
  <2>2. \A i \in S : Rank(i) = B(i)
    BY <1>6
  <2> HIDE DEF B
  <2>3. /\ \A i \in S : B(i) \in Nat /\ B(i) < n
        /\ \A i, j \in S : B(i) = B(j) => i = j
        /\ \A i, j \in S : Earlier(s, i, j) => B(i) < B(j)
        /\ \A k \in Nat : k < n => \E i \in S : B(i) = k
    BY <1>2, <1>3, <2>1 DEF B
  <2> QED BY ONLY <2>2, <2>3
<1> QED BY <1>1, <1>4, <1>7 DEF n, S, Rank

\* Sorting moves each bar to one place.
LEMMA TimeOrderIs ==
  ASSUME NEW s, Timed(s)
  PROVE  /\ IsRows(InTimeOrder(s)) /\ Len(InTimeOrder(s)) = Len(s)
         /\ \E f : Sorts(f, s, InTimeOrder(s))
<1> DEFINE n == Len(s)
           Rank(i) == Cardinality({j \in 1 .. n : Earlier(s, j, i)})
           t == InTimeOrder(s)
           f == [k \in 1 .. n |-> CHOOSE i \in 1 .. n : Rank(i) = k - 1]
<1>1. /\ n \in Nat
      /\ \A i \in 1 .. n : Rank(i) \in Nat /\ Rank(i) < n
      /\ \A i, j \in 1 .. n : Rank(i) = Rank(j) => i = j
      /\ \A i, j \in 1 .. n : Earlier(s, i, j) => Rank(i) < Rank(j)
      /\ \A i, j \in 1 .. n : i = j \/ Earlier(s, i, j) \/ Earlier(s, j, i)
      /\ \A k \in Nat : k < n => \E i \in 1 .. n : Rank(i) = k
  BY TimeRanks
<1>2. DOMAIN s = 1 .. n /\ \A i \in 1 .. n : s[i] \in Rows(s)
  BY RowsHaveLength DEF Timed, Rows
<1>3. t = [k \in 1 .. n |-> s[f[k]]]
  <2>1. t = [k \in 1 .. n |-> s[CHOOSE i \in 1 .. n : Rank(i) = k - 1]]
    BY <1>2 DEF InTimeOrder
  <2> HIDE DEF t, n, Rank
  <2> QED BY <2>1
<1> HIDE DEF n, Rank, t
<1>4. ASSUME NEW k \in 1 .. n PROVE f[k] \in 1 .. n /\ Rank(f[k]) = k - 1
  <2>1. k - 1 \in Nat /\ k - 1 < n
    BY <1>1
  <2>2. \E i \in 1 .. n : Rank(i) = k - 1
    BY <1>1, <2>1
  <2>3. f[k] = CHOOSE i \in 1 .. n : Rank(i) = k - 1
    OBVIOUS
  <2> HIDE DEF f
  <2> QED BY <2>2, <2>3
<1>5. f \in [1 .. n -> 1 .. n]
  BY <1>4
<1> HIDE DEF f
<1>6. t \in Seq(Rows(s)) /\ Len(t) = n
  <2>1. t \in [1 .. n -> Rows(s)]
    BY <1>2, <1>3, <1>4
  <2> QED BY <1>1, <2>1
<1>7. ASSUME NEW j \in 1 .. n, NEW k \in 1 .. n PROVE f[j] = f[k] => j = k
  <2>1. Rank(f[j]) = j - 1 /\ Rank(f[k]) = k - 1
    BY <1>4
  <2> QED BY <1>1, <2>1
<1>8. ASSUME NEW i \in 1 .. n PROVE \E k \in 1 .. n : f[k] = i
  <2> DEFINE k == Rank(i) + 1
  <2>1. k \in 1 .. n /\ k - 1 = Rank(i)
    BY <1>1
  <2> HIDE DEF k
  <2>2. f[k] \in 1 .. n /\ Rank(f[k]) = Rank(i)
    BY <1>4, <2>1
  <2> QED BY <1>1, <2>1, <2>2
<1>9. ASSUME NEW j \in 1 .. n, NEW k \in 1 .. n, j < k PROVE Earlier(s, f[j], f[k])
  <2>1. Rank(f[j]) = j - 1 /\ Rank(f[k]) = k - 1 /\ f[j] \in 1 .. n /\ f[k] \in 1 .. n
    BY <1>4
  <2>2. ~(k - 1 < j - 1) /\ j # k
    BY <1>1, <1>9
  <2>3. ~Earlier(s, f[k], f[j])
    <3>1. Earlier(s, f[k], f[j]) => k - 1 < j - 1
      BY <1>1, <2>1
    <3> QED BY <2>2, <3>1
  <2>4. f[j] # f[k]
    BY <1>7, <2>2
  <2> QED BY <1>1, <2>1, <2>3, <2>4
<1>10. Sorts(f, s, t)
  BY <1>3, <1>5, <1>7, <1>8, <1>9 DEF Sorts, n
<1> QED BY <1>6, <1>10, SeqIsRows DEF t, n

\* A list in order stays as it is.
LEMMA SortedStays ==
  ASSUME NEW s, Timed(s),
         \A i, j \in 1 .. Len(s) : i < j => s[i].timestamp <= s[j].timestamp
  PROVE  InTimeOrder(s) = s
<1> DEFINE n == Len(s)
           Rank(i) == Cardinality({j \in 1 .. n : Earlier(s, j, i)})
<1>1. /\ n \in Nat /\ DOMAIN s = 1 .. n
      /\ \A i \in 1 .. n : s[i].timestamp \in Int
      /\ \A i, j \in 1 .. n : i < j => s[i].timestamp <= s[j].timestamp
  BY RowsHaveLength DEF Timed
<1>2. InTimeOrder(s) = [k \in 1 .. n |-> s[CHOOSE i \in 1 .. n : Rank(i) = k - 1]]
  BY <1>1 DEF InTimeOrder
<1> HIDE DEF n
<1>3. ASSUME NEW i \in 1 .. n PROVE Rank(i) = i - 1
  <2> DEFINE last == i - 1
  <2>1. \A j \in 1 .. n : Earlier(s, j, i) <=> j < i
    BY <1>1 DEF Earlier
  <2>2. {j \in 1 .. n : Earlier(s, j, i)} = 1 .. last
    <3>1. \A j : j \in 1 .. last <=> j \in 1 .. n /\ j < i
      BY <1>1
    <3> HIDE DEF last
    <3> QED BY <2>1, <3>1
  <2>3. 1 \in Int /\ last \in Int /\ last >= 0
    BY <1>1
  <2> HIDE DEF last
  <2>4. Cardinality(1 .. last) = IF 1 > last THEN 0 ELSE last - 1 + 1
    BY <2>3, FS_Interval
  <2>5. Cardinality(1 .. last) = last
    BY <2>3, <2>4
  <2> QED BY <2>2, <2>5 DEF last
<1> HIDE DEF Rank
<1>4. ASSUME NEW k \in 1 .. n PROVE (CHOOSE i \in 1 .. n : Rank(i) = k - 1) = k
  <2>1. \A i \in 1 .. n : Rank(i) = k - 1 <=> i = k
    BY <1>1, <1>3
  <2> QED BY <2>1
<1>5. InTimeOrder(s) = [k \in 1 .. n |-> s[k]]
  BY <1>2, <1>4
<1>6. s = [k \in 1 .. n |-> s[k]]
  BY <1>1 DEF Timed, IsRows
<1> QED BY <1>5, <1>6

-----------------------------------------------------------------------------
(* Half-hours and hours *)

\* A recursion over the numbers up to last has a solution.
IsRecursion(f, initial, step, last) ==
  f = [n \in 0 .. last |-> IF n = 0 THEN initial ELSE step[n][f[n - 1]]]

LEMMA RecursionExists ==
  ASSUME NEW last \in Nat, NEW C, NEW initial \in C, NEW step \in [1 .. last -> [C -> C]]
  PROVE  \E f \in [0 .. last -> C] : IsRecursion(f, initial, step, last)
<1> DEFINE Solved(m) == \E f \in [0 .. m -> C] : IsRecursion(f, initial, step, m)
           Unsolved == {m \in 0 .. last : ~Solved(m)}
<1>1. Solved(0)
  <2> DEFINE f == [n \in 0 .. 0 |-> initial]
  <2>1. \A n \in 0 .. 0 : n = 0
    OBVIOUS
  <2>2. f = [n \in 0 .. 0 |-> IF n = 0 THEN initial ELSE step[n][f[n - 1]]]
    BY <2>1
  <2>3. f \in [0 .. 0 -> C]
    OBVIOUS
  <2> HIDE DEF f
  <2> QED BY <2>2, <2>3 DEF IsRecursion
<1>2. ASSUME NEW m \in 1 .. last, Solved(m - 1) PROVE Solved(m)
  <2>1. PICK g \in [0 .. (m - 1) -> C] : IsRecursion(g, initial, step, m - 1)
    BY <1>2
  <2>2. \A n \in 0 .. (m - 1) : g[n] = IF n = 0 THEN initial ELSE step[n][g[n - 1]]
    BY <2>1 DEF IsRecursion
  <2> DEFINE f == [n \in 0 .. m |-> IF n = m THEN step[m][g[m - 1]] ELSE g[n]]
  <2>3. ASSUME NEW n \in 0 .. m
        PROVE  f[n] \in C /\ f[n] = IF n = 0 THEN initial ELSE step[n][f[n - 1]]
    <3>1. CASE n = 0
      <4>1. n # m /\ 0 \in 0 .. (m - 1)
        BY <3>1
      <4>2. f[n] = g[0] /\ g[0] = initial
        BY <2>2, <3>1, <4>1
      <4> QED BY <3>1, <4>2
    <3>2. CASE n # 0
      <4>1. n - 1 \in 0 .. m /\ n - 1 # m /\ n - 1 \in 0 .. (m - 1) /\ n \in 1 .. last
        BY <3>2
      <4>2. f[n - 1] = g[n - 1]
        BY <4>1
      <4>3. f[n] = step[n][g[n - 1]]
        <5>1. CASE n = m
          BY <5>1
        <5>2. CASE n # m
          <6>1. n \in 0 .. (m - 1)
            BY <5>2
          <6> QED BY <2>2, <3>2, <5>2, <6>1
        <5> QED BY <5>1, <5>2
      <4>4. step[n][g[n - 1]] \in C
        BY <4>1
      <4> HIDE DEF f
      <4> QED BY <3>2, <4>2, <4>3, <4>4
    <3> QED BY <3>1, <3>2
  <2>4. f = [n \in 0 .. m |-> f[n]]
    OBVIOUS
  <2> HIDE DEF f
  <2>5. f \in [0 .. m -> C] /\ f = [n \in 0 .. m |-> IF n = 0 THEN initial ELSE step[n][f[n - 1]]]
    BY <2>3, <2>4
  <2> QED BY <2>5 DEF IsRecursion
<1> HIDE DEF Solved
<1>3. Unsolved = {}
  <2> SUFFICES ASSUME Unsolved # {} PROVE FALSE
    OBVIOUS
  <2>1. IsDates(Unsolved)
    <3>1. IsFiniteSet(0 .. last)
      <4>1. 0 \in Int /\ last \in Int
        OBVIOUS
      <4> QED BY ONLY <4>1, FS_Interval
    <3>2. Unsolved \subseteq 0 .. last /\ 0 .. last \subseteq Int
      OBVIOUS
    <3> HIDE DEF Unsolved
    <3> QED BY <3>1, <3>2, FS_Subset DEF IsDates
  <2>2. PICK m \in Unsolved : \A n \in Unsolved : m <= n
    <3> HIDE DEF Unsolved
    <3> QED BY <2>1, EarliestDate
  <2>3. m \in 0 .. last /\ ~Solved(m) /\ m # 0
    BY <1>1
  <2>4. m - 1 \in 0 .. last /\ ~(m <= m - 1) /\ m \in 1 .. last
    BY <2>3
  <2>5. Solved(m - 1)
    BY <2>2, <2>4
  <2> QED BY <1>2, <2>3, <2>4, <2>5
<1>4. last \in 0 .. last
  OBVIOUS
<1> QED BY <1>3, <1>4 DEF Solved

\* Half-hours as the files hold them, in time order.
HalfHours(s) ==
  /\ IsRows(s)
  /\ \A i \in 1 .. Len(s) : s[i].timestamp \in Int /\ s[i].trade_date \in Int
  /\ \A i, j \in 1 .. Len(s) : i < j => /\ s[i].timestamp <= s[j].timestamp
                                        /\ s[i].trade_date <= s[j].trade_date

\* The first m hours of half-hours taken two by two.
Hours(s, m) == [k \in 1 .. m |-> Summary(<<s[2 * k - 1], s[2 * k]>>)]

LEMMA HoursType ==
  ASSUME NEW s, NEW m \in Nat
  PROVE  /\ IsRows(Hours(s, m)) /\ Len(Hours(s, m)) = m
         /\ \A k \in 1 .. m : Hours(s, m)[k] = Summary(<<s[2 * k - 1], s[2 * k]>>)
<1> DEFINE A == {Summary(<<s[2 * k - 1], s[2 * k]>>) : k \in 1 .. m}
<1>1. \A k \in 1 .. m : Hours(s, m)[k] = Summary(<<s[2 * k - 1], s[2 * k]>>)
  BY DEF Hours
<1>2. Hours(s, m) \in [1 .. m -> A]
  BY DEF Hours
<1> HIDE DEF A
<1>3. Hours(s, m) \in Seq(A) /\ Len(Hours(s, m)) = m
  BY <1>2
<1> QED BY <1>1, <1>3, SeqIsRows

LEMMA WholeDay ==
  ASSUME NEW s, HalfHours(s), NEW m \in Nat, Len(s) = 2 * m
  PROVE  aggregate_intraday_day(s) = Hours(s, m)
<1> DEFINE n == Len(s)
           Pair(i) == IF i < n THEN <<s[i], s[i + 1]>> ELSE <<s[i]>>
<1>1. InTimeOrder(s) = s
  <2>1. Timed(s)
    BY DEF HalfHours, Timed
  <2> QED BY <2>1, SortedStays DEF HalfHours
<1>2. aggregate_intraday_day(s) = [k \in 1 .. ((n + 1) \div 2) |-> Summary(Pair(2 * k - 1))]
  BY <1>1 DEF aggregate_intraday_day
<1>3. n = 2 * m
  OBVIOUS
<1> HIDE DEF n
<1>4. (n + 1) \div 2 = m
  BY <1>3
<1>5. ASSUME NEW k \in 1 .. m PROVE Pair(2 * k - 1) = <<s[2 * k - 1], s[2 * k]>>
  <2>1. 2 * k - 1 < n /\ 2 * k - 1 + 1 = 2 * k
    BY <1>3
  <2> QED BY <2>1
<1> HIDE DEF Pair
<1>6. aggregate_intraday_day(s) = [k \in 1 .. m |-> Summary(Pair(2 * k - 1))]
  BY <1>2, <1>4
<1> QED BY <1>5, <1>6 DEF Hours

\* Where a day of a list ends, and where it begins.
DayEnds(s, n) == n = Len(s) \/ s[n + 1].trade_date # s[n].trade_date
SinceDay(s, n) == {i \in 1 .. n : \A j \in i .. n : s[j].trade_date = s[n].trade_date}
DayBegins(s, n) == Min(SinceDay(s, n))

LEMMA DayBeginsIs ==
  ASSUME NEW s, NEW n \in Nat \ {0}
  PROVE  /\ DayBegins(s, n) \in 1 .. n
         /\ \A j \in DayBegins(s, n) .. n : s[j].trade_date = s[n].trade_date
         /\ \A i \in SinceDay(s, n) : DayBegins(s, n) <= i
         /\ DayBegins(s, n) # 1 =>
              s[DayBegins(s, n) - 1].trade_date # s[n].trade_date
<1> DEFINE S == SinceDay(s, n)
           b == DayBegins(s, n)
<1>1. n \in S
  <2>1. \A j \in n .. n : j = n
    OBVIOUS
  <2> QED BY <2>1 DEF SinceDay
<1>2. IsDates(S)
  <2>1. IsFiniteSet(1 .. n) /\ 1 .. n \subseteq Int
    BY FS_Interval
  <2>2. S \subseteq 1 .. n
    BY DEF SinceDay
  <2> HIDE DEF S
  <2> QED BY <2>1, <2>2, FS_Subset DEF IsDates
<1>3. b \in S /\ \A i \in S : b <= i
  <2> HIDE DEF S
  <2>1. \E i \in S : \A j \in S : i <= j
    BY <1>1, <1>2, EarliestDate
  <2> QED BY <2>1 DEF DayBegins, Min, S
<1> HIDE DEF b
<1>4. b \in 1 .. n /\ \A j \in b .. n : s[j].trade_date = s[n].trade_date
  BY <1>3 DEF SinceDay
<1>5. ASSUME b # 1, s[b - 1].trade_date = s[n].trade_date PROVE FALSE
  <2>1. b - 1 \in 1 .. n /\ \A j \in (b - 1) .. n : j = b - 1 \/ j \in b .. n
    BY <1>4, <1>5
  <2>2. b - 1 \in S
    BY <1>4, <1>5, <2>1 DEF SinceDay
  <2> QED BY <1>3, <1>4, <2>2
<1> QED BY <1>3, <1>4, <1>5 DEF b

\* Up to n, the hours of the days that ended are known.
EndedAt(s, n) == IF n = 0 \/ DayEnds(s, n) THEN n ELSE DayBegins(s, n) - 1

\* A day goes on from where the days before it ended.
LEMMA DayFollows ==
  ASSUME NEW s, NEW n \in 1 .. Len(s), Len(s) \in Nat
  PROVE  DayBegins(s, n) - 1 = EndedAt(s, n - 1)
<1> DEFINE b == DayBegins(s, n)
           m == n - 1
           a == DayBegins(s, m)
<1>1. n \in Nat \ {0} /\ m \in Nat /\ m + 1 = n /\ m # Len(s)
  OBVIOUS
<1>2. /\ b \in 1 .. n /\ \A j \in b .. n : s[j].trade_date = s[n].trade_date
      /\ \A i \in SinceDay(s, n) : b <= i
      /\ b # 1 => s[b - 1].trade_date # s[n].trade_date
  BY <1>1, DayBeginsIs
<1>3. m # 0 => /\ a \in 1 .. m /\ \A j \in a .. m : s[j].trade_date = s[m].trade_date
               /\ \A i \in SinceDay(s, m) : a <= i
  BY <1>1, DayBeginsIs
<1> HIDE DEF a, b, m
<1>4. CASE m = 0
  <2>1. b = 1 /\ EndedAt(s, m) = 0
    BY <1>1, <1>2, <1>4 DEF EndedAt
  <2> QED BY <1>4, <2>1 DEF b, m
<1>5. CASE m # 0 /\ DayEnds(s, m)
  <2>1. s[n].trade_date # s[m].trade_date
    BY <1>1, <1>5 DEF DayEnds
  <2>2. m \notin b .. n
    BY <1>2, <2>1
  <2>3. b = n
    BY <1>1, <1>2, <2>2
  <2>4. EndedAt(s, m) = m /\ b - 1 = m
    BY <1>1, <1>5, <2>3 DEF EndedAt
  <2> QED BY <2>4 DEF b, m
<1>6. CASE m # 0 /\ ~DayEnds(s, m)
  <2>1. s[n].trade_date = s[m].trade_date
    BY <1>1, <1>6 DEF DayEnds
  <2>2. a \in SinceDay(s, n)
    <3>1. a \in 1 .. n /\ \A j \in a .. n : j \in a .. m \/ j = n
      BY <1>1, <1>3, <1>6
    <3> QED BY <1>3, <1>6, <2>1, <3>1 DEF SinceDay
  <2>3. b <= a /\ b \in 1 .. m
    BY <1>1, <1>2, <1>3, <1>6, <2>2
  <2>4. b \in SinceDay(s, m)
    <3>1. \A j \in b .. m : j \in b .. n
      BY <1>1, <1>2
    <3> QED BY <1>2, <2>1, <2>3, <3>1 DEF SinceDay
  <2>5. a = b
    BY <1>2, <1>3, <1>6, <2>3, <2>4
  <2>6. EndedAt(s, m) = a - 1
    BY <1>6 DEF EndedAt, a
  <2> QED BY <2>5, <2>6 DEF b, m
<1> QED BY <1>4, <1>5, <1>6

\* A part of half-hours in order is in order.
LEMMA PartIs ==
  ASSUME NEW s, HalfHours(s), NEW a \in Nat, NEW n \in Nat, a <= n, n <= Len(s)
  PROVE  /\ HalfHours(SubSeq(s, a + 1, n)) /\ Len(SubSeq(s, a + 1, n)) = n - a
         /\ \A i \in 1 .. (n - a) : SubSeq(s, a + 1, n)[i] = s[a + i]
<1> DEFINE part == SubSeq(s, a + 1, n)
           m == n - a
           length == Len(s)
<1>1. length \in Nat /\ m \in Nat /\ a + m = n /\ IsRows(s) /\ n <= length
  BY RowsHaveLength DEF HalfHours
<1>2. part = Slice(s, a, m)
  <2>1. n = IF a + m < Len(s) THEN a + m ELSE Len(s)
    BY <1>1
  <2> HIDE DEF m
  <2> QED BY <2>1 DEF Slice
<1> HIDE DEF part, m, length
<1>3. /\ part \in Seq(Rows(s))
      /\ Len(part) = IF length <= a THEN 0 ELSE IF a + m < length THEN m ELSE length - a
      /\ \A i \in 1 .. Len(part) : part[i] = s[a + i]
  <2> DEFINE A == Rows(s)
  <2>1. s \in Seq(A) /\ a \in Nat /\ m \in Nat
    BY <1>1 DEF IsRows
  <2> HIDE DEF A
  <2>2. /\ Slice(s, a, m) \in Seq(A)
        /\ Len(Slice(s, a, m)) = IF Len(s) <= a THEN 0 ELSE IF a + m < Len(s) THEN m ELSE Len(s) - a
        /\ \A i \in 1 .. Len(Slice(s, a, m)) : Slice(s, a, m)[i] = s[a + i]
    BY ONLY <2>1, SliceIs
  <2> QED BY <1>2, <2>2 DEF A, length
<1>4. Len(part) = m
  BY <1>1, <1>3
<1>5. IsRows(part)
  BY <1>3, SeqIsRows
<1>6. ASSUME NEW i \in 1 .. m PROVE a + i \in 1 .. length /\ part[i] = s[a + i]
  BY <1>1, <1>3, <1>4
<1>7. HalfHours(part)
  <2>1. \A i, j \in 1 .. m : i < j => a + i < a + j
    OBVIOUS
  <2>2. /\ \A i \in 1 .. length : s[i].timestamp \in Int /\ s[i].trade_date \in Int
        /\ \A i, j \in 1 .. length : i < j => /\ s[i].timestamp <= s[j].timestamp
                                              /\ s[i].trade_date <= s[j].trade_date
    BY DEF HalfHours, length
  <2>3. /\ \A i \in 1 .. m : part[i].timestamp \in Int /\ part[i].trade_date \in Int
        /\ \A i, j \in 1 .. m : i < j => /\ part[i].timestamp <= part[j].timestamp
                                         /\ part[i].trade_date <= part[j].trade_date
    BY <1>6, <2>1, <2>2
  <2> QED BY <1>4, <1>5, <2>3 DEF HalfHours
<1> QED BY <1>4, <1>6, <1>7 DEF part, m

\* Every day of the list ends at an even place.
EvenEnds(s) == \A n \in 1 .. Len(s) : DayEnds(s, n) => \E m \in Nat : n = 2 * m

LEMMA DaysBeginAfterEven ==
  ASSUME NEW s, Len(s) \in Nat, EvenEnds(s), NEW n \in 0 .. Len(s)
  PROVE  EndedAt(s, n) \in 0 .. n /\ \E m \in Nat : EndedAt(s, n) = 2 * m
<1>1. CASE n = 0
  <2>1. EndedAt(s, n) = 0
    BY <1>1 DEF EndedAt
  <2>2. 0 \in 0 .. n /\ 0 \in Nat /\ 0 = 2 * 0
    OBVIOUS
  <2> QED BY <2>1, <2>2
<1>2. CASE n # 0 /\ DayEnds(s, n)
  <2>1. EndedAt(s, n) = n /\ n \in 1 .. Len(s)
    BY <1>2 DEF EndedAt
  <2>2. \E m \in Nat : n = 2 * m
    BY <1>2, <2>1 DEF EvenEnds
  <2> QED BY <2>1, <2>2
<1>3. CASE n # 0 /\ ~DayEnds(s, n)
  <2> DEFINE b == DayBegins(s, n)
             a == b - 1
  <2>1. /\ b \in 1 .. n /\ \A j \in b .. n : s[j].trade_date = s[n].trade_date
        /\ b # 1 => s[b - 1].trade_date # s[n].trade_date
    BY <1>3, DayBeginsIs
  <2>2. EndedAt(s, n) = a
    BY <1>3 DEF EndedAt
  <2> HIDE DEF b
  <2>3. CASE b = 1
    <3>1. a = 2 * 0 /\ a \in 0 .. n
      BY <2>3
    <3> QED BY <2>2, <3>1
  <2>4. CASE b # 1
    <3>1. a \in 1 .. Len(s) /\ a + 1 = b /\ b \in b .. n /\ a \in 0 .. n
      BY <2>1, <2>4
    <3>2. DayEnds(s, a)
      BY <2>1, <2>4, <3>1 DEF DayEnds
    <3>3. \E m \in Nat : a = 2 * m
      BY <3>1, <3>2 DEF EvenEnds
    <3> QED BY <2>2, <3>1, <3>3
  <2> QED BY <2>3, <2>4
<1> QED BY <1>1, <1>2, <1>3

\* The hours of the days before and those of the next are the hours of both.
LEMMA HoursOfNextDay ==
  ASSUME NEW s, HalfHours(s), NEW a \in Nat, NEW b \in Nat, 2 * a + 2 * b <= Len(s)
  PROVE  Hours(s, a) \o aggregate_intraday_day(SubSeq(s, 2 * a + 1, 2 * a + 2 * b)) = Hours(s, a + b)
<1> DEFINE day == SubSeq(s, 2 * a + 1, 2 * a + 2 * b)
           x == Hours(s, a)
           y == Hours(day, b)
           z == x \o y
           w == Hours(s, a + b)
<1>1. HalfHours(day) /\ Len(day) = 2 * b /\ \A i \in 1 .. (2 * b) : day[i] = s[2 * a + i]
  <2> DEFINE d == 2 * a
             n == 2 * a + 2 * b
  <2>1. d \in Nat /\ n \in Nat /\ d <= n /\ n <= Len(s) /\ n - d = 2 * b
    OBVIOUS
  <2>2. day = SubSeq(s, d + 1, n)
    OBVIOUS
  <2> HIDE DEF d, n, day
  <2>3. HalfHours(day) /\ Len(day) = n - d /\ \A i \in 1 .. (n - d) : day[i] = s[d + i]
    BY <2>1, <2>2, PartIs
  <2>4. HalfHours(day) /\ Len(day) = 2 * b /\ \A i \in 1 .. (2 * b) : day[i] = s[d + i]
    BY <2>1, <2>3
  <2> QED BY <2>4 DEF d
<1> HIDE DEF day
<1>2. aggregate_intraday_day(day) = y
  BY <1>1, WholeDay
<1>3. /\ IsRows(x) /\ Len(x) = a /\ \A k \in 1 .. a : x[k] = Summary(<<s[2 * k - 1], s[2 * k]>>)
      /\ IsRows(y) /\ Len(y) = b
      /\ \A k \in 1 .. b : y[k] = Summary(<<day[2 * k - 1], day[2 * k]>>)
  BY HoursType
<1>4. /\ IsRows(w) /\ Len(w) = a + b
      /\ \A k \in 1 .. (a + b) : w[k] = Summary(<<s[2 * k - 1], s[2 * k]>>)
  <2> DEFINE c == a + b
  <2>1. c \in Nat
    OBVIOUS
  <2> HIDE DEF c
  <2> QED BY <2>1, HoursType DEF c
<1> HIDE DEF x, y, w
<1> DEFINE A == Rows(x) \cup Rows(y)
<1>5. x \in Seq(A) /\ y \in Seq(A)
  <2>1. Rows(x) \subseteq A /\ Rows(y) \subseteq A
    OBVIOUS
  <2> HIDE DEF A
  <2> QED BY <1>3, <2>1, SeqMonotonic DEF IsRows
<1> HIDE DEF A
<1>6. /\ z \in Seq(A) /\ Len(z) = a + b
      /\ \A k \in 1 .. (a + b) : z[k] = IF k <= a THEN x[k] ELSE y[k - a]
  BY <1>3, <1>5, ConcatProperties
<1> HIDE DEF z
<1>7. ASSUME NEW k \in 1 .. (a + b) PROVE z[k] = w[k]
  <2>1. CASE k <= a
    <3>1. k \in 1 .. a
      BY <2>1
    <3> QED BY <1>3, <1>4, <1>6, <2>1, <3>1
  <2>2. CASE ~(k <= a)
    <3> DEFINE j == k - a
    <3>1. j \in 1 .. b /\ 2 * j - 1 \in 1 .. (2 * b) /\ 2 * j \in 1 .. (2 * b)
      BY <2>2
    <3>2. 2 * a + (2 * j - 1) = 2 * k - 1 /\ 2 * a + 2 * j = 2 * k
      OBVIOUS
    <3>3. day[2 * j - 1] = s[2 * a + (2 * j - 1)] /\ day[2 * j] = s[2 * a + 2 * j]
      <4> HIDE DEF j
      <4> QED BY <1>1, <3>1
    <3>4. z[k] = y[j]
      BY <1>6, <2>2
    <3>5. y[j] = Summary(<<day[2 * j - 1], day[2 * j]>>)
      BY <1>3, <3>1
    <3>6. day[2 * j - 1] = s[2 * k - 1] /\ day[2 * j] = s[2 * k]
      BY <3>2, <3>3
    <3> HIDE DEF j
    <3> QED BY <1>4, <3>4, <3>5, <3>6
  <2> QED BY <2>1, <2>2
<1>8. Len(z) = Len(w)
  BY <1>4, <1>6
<1>9. z = w
  <2>1. DOMAIN z = 1 .. (a + b) /\ DOMAIN w = 1 .. (a + b)
    BY <1>4, <1>6, LenProperties DEF IsRows
  <2>2. z = [k \in 1 .. (a + b) |-> z[k]] /\ w = [k \in 1 .. (a + b) |-> w[k]]
    BY <1>4, <1>6, <2>1, SeqDef DEF IsRows
  <2> QED BY <1>7, <2>2
<1> QED BY <1>2, <1>9 DEF x, y, z, w, day

\* What the end of day n adds to the hours.
DayAdds(s, n) ==
  IF DayEnds(s, n) THEN aggregate_intraday_day(SubSeq(s, DayBegins(s, n), n)) ELSE <<>>

LEMMA DayAddsRows ==
  ASSUME NEW s, HalfHours(s), EvenEnds(s), NEW n \in 1 .. Len(s)
  PROVE  /\ IsRows(DayAdds(s, n))
         /\ \E a, b \in Nat : /\ EndedAt(s, n - 1) = 2 * a /\ EndedAt(s, n) = 2 * b
                              /\ Hours(s, a) \o DayAdds(s, n) = Hours(s, b)
<1> DEFINE m == n - 1
           e == EndedAt(s, m)
           begins == DayBegins(s, n)
<1>1. Len(s) \in Nat /\ m \in 0 .. Len(s) /\ n \in 0 .. Len(s) /\ n # 0 /\ n \in Nat
  BY RowsHaveLength DEF HalfHours
<1>2. begins = e + 1 /\ e \in 0 .. m
  <2>1. begins - 1 = e
    BY <1>1, DayFollows
  <2>2. begins \in 1 .. n
    BY <1>1, DayBeginsIs
  <2>3. e \in 0 .. m
    BY <1>1, DaysBeginAfterEven
  <2> HIDE DEF begins, e
  <2> QED BY <2>1, <2>2, <2>3
<1>3. PICK a \in Nat : e = 2 * a
  BY <1>1, DaysBeginAfterEven
<1> HIDE DEF e, begins
<1>4. CASE DayEnds(s, n)
  <2>1. PICK b \in Nat : n = 2 * b
    BY <1>4 DEF EvenEnds
  <2>2. EndedAt(s, n) = 2 * b
    BY <1>4, <2>1 DEF EndedAt
  <2> DEFINE c == b - a
  <2>3. c \in Nat /\ a + c = b /\ 2 * a + 2 * c = n /\ 2 * a + 2 * c <= Len(s)
    BY <1>1, <1>2, <1>3, <2>1
  <2> HIDE DEF c
  <2>4. Hours(s, a) \o aggregate_intraday_day(SubSeq(s, 2 * a + 1, 2 * a + 2 * c)) = Hours(s, a + c)
    BY <2>3, HoursOfNextDay
  <2>5. DayAdds(s, n) = aggregate_intraday_day(SubSeq(s, 2 * a + 1, n))
    BY <1>2, <1>3, <1>4 DEF DayAdds, begins
  <2>6. Hours(s, a) \o DayAdds(s, n) = Hours(s, b)
    BY <2>3, <2>4, <2>5
  <2>7. IsRows(DayAdds(s, n))
    <3> DEFINE day == SubSeq(s, 2 * a + 1, n)
               d == 2 * a
    <3>1. d \in Nat /\ d <= n /\ n <= Len(s) /\ n - d = 2 * c
      BY <1>1, <2>3
    <3>2. day = SubSeq(s, d + 1, n)
      OBVIOUS
    <3> HIDE DEF d, day
    <3>3. HalfHours(day) /\ Len(day) = 2 * c
      BY <1>1, <3>1, <3>2, PartIs
    <3>4. DayAdds(s, n) = Hours(day, c)
      BY <2>3, <2>5, <3>3, WholeDay DEF day
    <3> QED BY <2>3, <3>4, HoursType
  <2> QED BY <1>3, <2>2, <2>6, <2>7 DEF e
<1>5. CASE ~DayEnds(s, n)
  <2>1. DayAdds(s, n) = <<>>
    BY <1>5 DEF DayAdds
  <2>2. EndedAt(s, n) = e
    BY <1>1, <1>2, <1>5 DEF EndedAt, begins
  <2>3. Hours(s, a) \o <<>> = Hours(s, a)
    BY HoursType, ConcatEmptySeq DEF IsRows
  <2> QED BY <1>3, <2>1, <2>2, <2>3, NoRows DEF e
<1> QED BY <1>4, <1>5

\* Hours are made of two half-hours of a list whose days have even numbers of them.
LEMMA AggregatedIs ==
  ASSUME NEW s, HalfHours(s), EvenEnds(s)
  PROVE  \E m \in Nat : Len(s) = 2 * m /\ aggregate_30m_to_60m(s) = Hours(s, m)
<1> DEFINE last == Len(s)
           A == UNION {Rows(DayAdds(s, n)) : n \in 1 .. last}
           C == Seq(A)
           step == [n \in 1 .. last |-> [x \in C |-> x \o DayAdds(s, n)]]
           Is(f) == f = [n \in 0 .. last |-> IF n = 0 THEN <<>> ELSE f[n - 1] \o DayAdds(s, n)]
           aggregated == CHOOSE f : Is(f)
<1>1. last \in Nat
  BY RowsHaveLength DEF HalfHours
<1>2. \A n \in 1 .. last : DayAdds(s, n) \in Seq(A)
  <2> SUFFICES ASSUME NEW n \in 1 .. last PROVE DayAdds(s, n) \in Seq(A)
    OBVIOUS
  <2>1. DayAdds(s, n) \in Seq(Rows(DayAdds(s, n)))
    BY DayAddsRows DEF IsRows
  <2>2. Rows(DayAdds(s, n)) \subseteq A
    OBVIOUS
  <2> HIDE DEF A
  <2> QED BY <2>1, <2>2, SeqMonotonic
<1>3. aggregate_30m_to_60m(s) = aggregated[last]
  BY DEF aggregate_30m_to_60m, DayAdds, DayEnds, DayBegins, SinceDay
<1>4. \E f : Is(f)
  <2>1. step \in [1 .. last -> [C -> C]]
    <3>1. ASSUME NEW n \in 1 .. last, NEW x \in C PROVE x \o DayAdds(s, n) \in C
      <4> HIDE DEF A, last
      <4> QED BY <1>2, <3>1, ConcatProperties
    <3> HIDE DEF C
    <3> QED BY <3>1
  <2>2. <<>> \in C
    OBVIOUS
  <2> DEFINE none == <<>>
  <2> HIDE DEF C, last, step, none
  <2>3. none \in C
    BY <2>2 DEF none
  <2>4. PICK f \in [0 .. last -> C] : IsRecursion(f, none, step, last)
    BY <1>1, <2>1, <2>3, RecursionExists
  <2>5. ASSUME NEW n \in 0 .. last
        PROVE  f[n] = IF n = 0 THEN none ELSE f[n - 1] \o DayAdds(s, n)
    <3>1. CASE n = 0
      BY <2>4, <3>1 DEF IsRecursion
    <3>2. CASE n # 0
      <4>1. n - 1 \in 0 .. last /\ n \in 1 .. last
        BY <1>1, <3>2
      <4>2. f[n] = step[n][f[n - 1]] /\ f[n - 1] \in C
        BY <2>4, <3>2, <4>1 DEF IsRecursion
      <4>3. step[n][f[n - 1]] = f[n - 1] \o DayAdds(s, n)
        BY <4>1, <4>2 DEF step
      <4> QED BY <3>2, <4>2, <4>3
    <3> QED BY <3>1, <3>2
  <2>6. f = [n \in 0 .. last |-> f[n]]
    OBVIOUS
  <2>7. Is(f)
    BY <2>5, <2>6 DEF none
  <2> HIDE DEF Is
  <2> QED BY <2>7
<1>5. Is(aggregated)
  <2> HIDE DEF Is
  <2> QED BY <1>4
<1> HIDE DEF aggregated, A
<1>6. /\ aggregated[0] = <<>>
      /\ \A n \in 1 .. last : aggregated[n] = aggregated[n - 1] \o DayAdds(s, n)
  <2>1. 0 \in 0 .. last /\ \A n \in 1 .. last : n \in 0 .. last /\ n # 0
    BY <1>1
  <2> HIDE DEF last
  <2> QED BY <1>5, <2>1
<1> DEFINE Good(n) == \A m \in Nat : EndedAt(s, n) = 2 * m => aggregated[n] = Hours(s, m)
           Bad == {n \in 0 .. last : ~Good(n)}
<1> HIDE DEF Is
<1>7. Good(0)
  <2> SUFFICES ASSUME NEW m \in Nat, EndedAt(s, 0) = 2 * m PROVE aggregated[0] = Hours(s, m)
    OBVIOUS
  <2>1. EndedAt(s, 0) = 0
    BY DEF EndedAt
  <2>2. m = 0
    BY <2>1
  <2>3. IsRows(Hours(s, 0)) /\ Len(Hours(s, 0)) = 0
    BY HoursType
  <2>4. Hours(s, 0) = <<>>
    BY <2>3, EmptySeq DEF IsRows
  <2> QED BY <1>6, <2>2, <2>4
<1>8. ASSUME NEW n \in 1 .. last, Good(n - 1) PROVE Good(n)
  <2>1. PICK a \in Nat, b \in Nat : /\ EndedAt(s, n - 1) = 2 * a /\ EndedAt(s, n) = 2 * b
                                    /\ Hours(s, a) \o DayAdds(s, n) = Hours(s, b)
    BY DayAddsRows
  <2>2. aggregated[n - 1] = Hours(s, a)
    BY <1>8, <2>1
  <2>3. aggregated[n] = Hours(s, b)
    BY <1>6, <2>1, <2>2
  <2>4. \A m \in Nat : 2 * b = 2 * m => m = b
    OBVIOUS
  <2> QED BY <2>1, <2>3, <2>4
<1> HIDE DEF Good
<1>9. Bad = {}
  <2> SUFFICES ASSUME Bad # {} PROVE FALSE
    OBVIOUS
  <2>1. IsDates(Bad)
    <3> HIDE DEF last
    <3>1. 0 \in Int /\ last \in Int
      BY <1>1
    <3>2. IsFiniteSet(0 .. last)
      BY <3>1, FS_Interval
    <3>3. Bad \subseteq 0 .. last /\ 0 .. last \subseteq Int
      BY <1>1
    <3> HIDE DEF Bad
    <3> QED BY <3>2, <3>3, FS_Subset DEF IsDates
  <2>2. PICK n \in Bad : \A k \in Bad : n <= k
    <3> HIDE DEF Bad
    <3> QED BY <2>1, EarliestDate
  <2>3. n \in 0 .. last /\ ~Good(n) /\ n # 0
    BY <1>7
  <2>4. n - 1 \in 0 .. last /\ ~(n <= n - 1) /\ n \in 1 .. last
    BY <1>1, <2>3
  <2>5. Good(n - 1)
    BY <2>2, <2>4
  <2> QED BY <1>8, <2>3, <2>4, <2>5
<1>10. EndedAt(s, last) = last /\ last \in 0 .. last
  BY <1>1 DEF EndedAt, DayEnds
<1>11. PICK m \in Nat : EndedAt(s, last) = 2 * m
  BY <1>1, <1>10, DaysBeginAfterEven
<1>12. aggregated[last] = Hours(s, m)
  <2>1. Good(last)
    BY <1>9, <1>10
  <2> QED BY <1>11, <2>1 DEF Good
<1> QED BY <1>3, <1>10, <1>11, <1>12

\* The places of a day in order are those from its beginning to its end.
LEMMA EvenDaysEndEven ==
  ASSUME NEW s, HalfHours(s),
         \A i \in 1 .. Len(s) :
           Cardinality({j \in 1 .. Len(s) : s[j].trade_date = s[i].trade_date}) % 2 = 0
  PROVE  EvenEnds(s)
<1> DEFINE last == Len(s)
           Even(n) == \E m \in Nat : n = 2 * m
           Bad == {n \in 1 .. last : DayEnds(s, n) /\ ~Even(n)}
<1>1. last \in Nat
  BY RowsHaveLength DEF HalfHours
<1>2. /\ \A i \in 1 .. last : s[i].trade_date \in Int
      /\ \A i, j \in 1 .. last : i < j => s[i].trade_date <= s[j].trade_date
  BY DEF HalfHours
<1>3. \A i \in 1 .. last :
        Cardinality({j \in 1 .. last : s[j].trade_date = s[i].trade_date}) % 2 = 0
  OBVIOUS
<1>4. SUFFICES ASSUME Bad # {} PROVE FALSE
  BY DEF EvenEnds
<1>5. DayEnds(s, last)
  BY DEF DayEnds
<1> HIDE DEF last
<1>6. IsDates(Bad)
  <2>1. 1 \in Int /\ last \in Int
    BY <1>1
  <2>2. IsFiniteSet(1 .. last)
    BY <2>1, FS_Interval
  <2>3. Bad \subseteq 1 .. last /\ 1 .. last \subseteq Int
    BY <1>1
  <2> HIDE DEF Bad
  <2> QED BY <2>2, <2>3, FS_Subset DEF IsDates
<1>7. PICK n \in Bad : \A k \in Bad : n <= k
  <2> HIDE DEF Bad
  <2> QED BY <1>4, <1>6, EarliestDate
<1>8. n \in 1 .. last /\ DayEnds(s, n) /\ ~Even(n)
  OBVIOUS
<1> DEFINE b == DayBegins(s, n)
           day == {j \in 1 .. last : s[j].trade_date = s[n].trade_date}
           size == n - b + 1
<1>9. /\ b \in 1 .. n /\ \A j \in b .. n : s[j].trade_date = s[n].trade_date
      /\ b # 1 => s[b - 1].trade_date # s[n].trade_date
  <2>1. n \in Nat \ {0}
    BY <1>8
  <2> QED BY <2>1, DayBeginsIs
<1> HIDE DEF b
<1>10. day = b .. n
  <2>1. ASSUME NEW j \in 1 .. last, j < b PROVE s[j].trade_date # s[n].trade_date
    <3>1. b # 1 /\ b - 1 \in 1 .. last /\ (j = b - 1 \/ j < b - 1) /\ b - 1 < n
      BY <1>1, <1>8, <1>9, <2>1
    <3>2. s[j].trade_date <= s[b - 1].trade_date /\ s[b - 1].trade_date <= s[n].trade_date
          /\ s[b - 1].trade_date # s[n].trade_date
          /\ s[b - 1].trade_date \in Int /\ s[j].trade_date \in Int /\ s[n].trade_date \in Int
      BY <1>2, <1>8, <1>9, <3>1
    <3> QED BY <3>2
  <2>2. ASSUME NEW j \in 1 .. last, j > n PROVE s[j].trade_date # s[n].trade_date
    <3>1. n # last /\ n + 1 \in 1 .. last /\ (j = n + 1 \/ n + 1 < j) /\ n < n + 1
      BY <1>1, <1>8, <2>2
    <3>2. s[n + 1].trade_date # s[n].trade_date
      BY <1>8, <3>1 DEF DayEnds, last
    <3>3. s[n + 1].trade_date <= s[j].trade_date /\ s[n].trade_date <= s[n + 1].trade_date
          /\ s[n + 1].trade_date \in Int /\ s[j].trade_date \in Int /\ s[n].trade_date \in Int
      BY <1>2, <1>8, <3>1
    <3> QED BY <3>2, <3>3
  <2>3. \A j \in 1 .. last : j \in b .. n <=> ~(j < b) /\ ~(j > n)
    BY <1>1, <1>8, <1>9
  <2>4. b .. n \subseteq 1 .. last
    BY <1>1, <1>8, <1>9
  <2> QED BY <1>9, <2>1, <2>2, <2>3, <2>4
<1>11. Cardinality(b .. n) = size /\ size \in Nat
  <2>1. b \in Int /\ n \in Int /\ ~(b > n) /\ size \in Nat
    BY <1>8, <1>9
  <2>2. Cardinality(b .. n) = IF b > n THEN 0 ELSE n - b + 1
    BY <2>1, FS_Interval
  <2> QED BY <2>1, <2>2
<1>12. Even(size)
  <2>1. size % 2 = 0
    BY <1>3, <1>8, <1>10, <1>11
  <2> HIDE DEF size
  <2>2. size = 2 * (size \div 2) /\ size \div 2 \in Nat
    BY <1>11, <2>1
  <2> QED BY <2>2
<1>13. Even(b - 1)
  <2>1. CASE b = 1
    <3>1. b - 1 = 2 * 0
      BY <2>1
    <3> QED BY <3>1
  <2>2. CASE b # 1
    <3> DEFINE k == b - 1
    <3>1. k \in 1 .. last /\ k + 1 = b /\ ~(n <= k) /\ b \in b .. n
      BY <1>1, <1>8, <1>9, <2>2
    <3>2. DayEnds(s, k)
      BY <1>9, <2>2, <3>1 DEF DayEnds
    <3> HIDE DEF k
    <3>3. Even(k)
      BY <1>7, <3>1, <3>2
    <3> QED BY <3>3 DEF k
  <2> QED BY <2>1, <2>2
<1>14. PICK x \in Nat, y \in Nat : size = 2 * x /\ b - 1 = 2 * y
  BY <1>12, <1>13
<1>15. n = 2 * (x + y) /\ x + y \in Nat
  BY <1>8, <1>9, <1>14
<1> QED BY <1>8, <1>15

LEMMA NthAscends ==
  ASSUME NEW S, IsDates(S), NEW j \in 1 .. Cardinality(S), NEW k \in 1 .. Cardinality(S), j < k
  PROVE  Nth(S, j) \in S /\ Nth(S, k) \in S /\ Nth(S, j) < Nth(S, k)
<1> DEFINE Rank(i) == Cardinality({x \in S : x < i})
           a == Nth(S, j)
           b == Nth(S, k)
<1>1. a \in S /\ b \in S /\ Rank(a) = j - 1 /\ Rank(b) = k - 1 /\ Cardinality(S) \in Nat
  BY NthIs
<1> HIDE DEF a, b
<1>2. ASSUME b <= a PROVE FALSE
  <2> DEFINE A == {x \in S : x < a}
             B == {x \in S : x < b}
  <2>1. a \in Int /\ b \in Int /\ \A x \in S : x \in Int
    BY <1>1 DEF IsDates
  <2>2. B \subseteq A
    BY <1>2, <2>1
  <2>3. IsFiniteSet(A)
    <3>1. A \subseteq S /\ IsFiniteSet(S)
      BY DEF IsDates
    <3> HIDE DEF A
    <3> QED BY <3>1, FS_Subset
  <2>4. Cardinality(B) <= Cardinality(A)
    <3> HIDE DEF A, B
    <3> QED BY <2>2, <2>3, FS_Subset
  <2> QED BY <1>1, <2>4
<1>3. a \in Int /\ b \in Int
  BY <1>1 DEF IsDates
<1> QED BY <1>1, <1>2, <1>3 DEF a, b

LEMMA PickedIs ==
  ASSUME NEW s, IsRows(s), NEW S, S \subseteq 1 .. Len(s)
  PROVE  /\ IsDates(S) /\ Cardinality(S) \in Nat
         /\ IsRows(Picked(s, S)) /\ Len(Picked(s, S)) = Cardinality(S)
         /\ \A k \in 1 .. Cardinality(S) : Nth(S, k) \in S /\ Picked(s, S)[k] = s[Nth(S, k)]
<1>1. Len(s) \in Nat /\ DOMAIN s = 1 .. Len(s)
  BY RowsHaveLength
<1>2. IsDates(S)
  <2> DEFINE last == Len(s)
  <2>1. 1 \in Int /\ last \in Int
    BY <1>1
  <2> HIDE DEF last
  <2>2. IsFiniteSet(1 .. last) /\ 1 .. last \subseteq Int
    BY <2>1, FS_Interval
  <2> QED BY <2>2, FS_Subset DEF IsDates, last
<1> DEFINE n == Cardinality(S)
           t == Picked(s, S)
<1>3. n \in Nat /\ \A k \in 1 .. n : Nth(S, k) \in S
  BY <1>2, NthIs
<1>4. t = [k \in 1 .. n |-> s[Nth(S, k)]]
  BY DEF Picked
<1>5. \A i \in S : s[i] \in Rows(s)
  BY <1>1 DEF Rows
<1> HIDE DEF n, t
<1>6. t \in Seq(Rows(s)) /\ Len(t) = n
  <2>1. t \in [1 .. n -> Rows(s)]
    BY <1>3, <1>4, <1>5
  <2> QED BY <1>3, <2>1
<1>7. \A k \in 1 .. n : t[k] = s[Nth(S, k)]
  BY <1>4
<1> QED BY <1>2, <1>3, <1>6, <1>7, SeqIsRows DEF n, t

\* The half-hours of some dates are in order.
LEMMA WithinIs ==
  ASSUME NEW s, HalfHours(s), NEW from_date, NEW to_date
  PROVE  HalfHours(Within(s, from_date, to_date))
<1> DEFINE S == {i \in DOMAIN s : from_date <= s[i].trade_date /\ s[i].trade_date <= to_date}
           t == Within(s, from_date, to_date)
           n == Cardinality(S)
<1>1. DOMAIN s = 1 .. Len(s) /\ IsRows(s) /\ Len(s) \in Nat
  BY RowsHaveLength DEF HalfHours
<1>2. S \subseteq 1 .. Len(s) /\ t = Picked(s, S)
  BY <1>1 DEF Within
<1> HIDE DEF S, t
<1>3. /\ IsDates(S) /\ n \in Nat /\ IsRows(t) /\ Len(t) = n
      /\ \A k \in 1 .. n : Nth(S, k) \in S /\ t[k] = s[Nth(S, k)]
  BY <1>1, <1>2, PickedIs
<1>4. \A j, k \in 1 .. n : j < k => Nth(S, j) < Nth(S, k)
  BY <1>3, NthAscends
<1>5. /\ \A i \in S : s[i].timestamp \in Int /\ s[i].trade_date \in Int
      /\ \A i, j \in S : i < j => s[i].timestamp <= s[j].timestamp /\ s[i].trade_date <= s[j].trade_date
  BY <1>2 DEF HalfHours
<1> HIDE DEF n
<1>6. /\ \A i \in 1 .. n : t[i].timestamp \in Int /\ t[i].trade_date \in Int
      /\ \A i, j \in 1 .. n : i < j => t[i].timestamp <= t[j].timestamp /\ t[i].trade_date <= t[j].trade_date
  BY <1>3, <1>4, <1>5
<1> QED BY <1>3, <1>6 DEF HalfHours, t

\* The last n of a list.
LEMMA LastOfHours ==
  ASSUME NEW s, NEW m \in Nat, NEW n \in Nat, n <= m
  PROVE  /\ IsRows(LastOf(Hours(s, m), n)) /\ Len(LastOf(Hours(s, m), n)) = n
         /\ \A k \in 1 .. n : LastOf(Hours(s, m), n)[k] =
              Summary(<<s[2 * (m - n + k) - 1], s[2 * (m - n + k)]>>)
<1> DEFINE t == Hours(s, m)
           d == m - n
           last == LastOf(t, n)
<1>1. IsRows(t) /\ Len(t) = m /\ \A k \in 1 .. m : t[k] = Summary(<<s[2 * k - 1], s[2 * k]>>)
  BY HoursType
<1>2. d \in Nat /\ d + n = m /\ (m <= n => d = 0 /\ m = n)
  OBVIOUS
<1> HIDE DEF t, d
<1>3. IsRows(last) /\ Len(last) = n /\ \A k \in 1 .. n : last[k] = t[d + k]
  <2>1. CASE m <= n
    <3>1. last = t
      BY <1>1, <2>1 DEF LastOf
    <3>2. \A k \in 1 .. n : d + k = k
      BY <1>2, <2>1
    <3> HIDE DEF last
    <3> QED BY <1>1, <1>2, <2>1, <3>1, <3>2
  <2>2. CASE ~(m <= n)
    <3>1. last = SubSeq(t, m - n + 1, m)
      BY <1>1, <2>2 DEF LastOf
    <3>2. last = Slice(t, d, n)
      <4>1. m = IF d + n < Len(t) THEN d + n ELSE Len(t)
        BY <1>1, <1>2
      <4>2. Slice(t, d, n) = SubSeq(t, d + 1, m)
        BY <4>1 DEF Slice
      <4> HIDE DEF last
      <4> QED BY <3>1, <4>2 DEF d
    <3> HIDE DEF last
    <3>3. /\ last \in Seq(Rows(t))
          /\ Len(last) = IF Len(t) <= d THEN 0 ELSE IF d + n < Len(t) THEN n ELSE Len(t) - d
          /\ \A k \in 1 .. Len(last) : last[k] = t[d + k]
      <4> DEFINE A == Rows(t)
      <4>1. t \in Seq(A) /\ d \in Nat /\ n \in Nat
        BY <1>1, <1>2 DEF IsRows
      <4> HIDE DEF A
      <4>2. /\ Slice(t, d, n) \in Seq(A)
            /\ Len(Slice(t, d, n)) = IF Len(t) <= d THEN 0 ELSE IF d + n < Len(t) THEN n ELSE Len(t) - d
            /\ \A k \in 1 .. Len(Slice(t, d, n)) : Slice(t, d, n)[k] = t[d + k]
        BY ONLY <4>1, SliceIs
      <4> QED BY <3>2, <4>2 DEF A
    <3>4. Len(last) = n
      BY <1>1, <1>2, <3>3
    <3> QED BY <3>3, <3>4, SeqIsRows
  <2> QED BY <2>1, <2>2
<1> HIDE DEF last
<1>4. \A k \in 1 .. n : d + k \in 1 .. m
  BY <1>2
<1>5. \A k \in 1 .. n : last[k] = Summary(<<s[2 * (d + k) - 1], s[2 * (d + k)]>>)
  BY <1>1, <1>3, <1>4
<1> QED BY <1>3, <1>5 DEF last, d, t

LEMMA HoursAreLast ==
  ASSUME NEW half_hours, HalfHours(half_hours), NEW from_date, NEW to_date, NEW limit \in Nat
  PROVE  HoursAreTheLast(half_hours, from_date, to_date, limit)
<1> DEFINE file == Within(half_hours, from_date, to_date)
           L == Len(file)
           twice == limit * 2
           read == read_prices(half_hours, from_date, to_date, twice)
<1>1. HalfHours(file) /\ L \in Nat /\ DOMAIN file = 1 .. L
  BY WithinIs, RowsHaveLength DEF HalfHours
<1>2. read = LastOf(file, twice)
  BY DEF read_prices
<1>3. list_hours(half_hours, from_date, to_date, limit) = LastOf(aggregate_30m_to_60m(read), limit)
  BY DEF list_hours
<1>4. SUFFICES ASSUME \A i \in 1 .. L :
                        Cardinality({j \in 1 .. L : file[j].trade_date = file[i].trade_date}) % 2 = 0
               PROVE  LastOf(aggregate_30m_to_60m(read), limit) = LastOf(Hours(file, L \div 2), limit)
  <2> HIDE DEF file, L, read
  <2> QED BY <1>1, <1>3 DEF HoursAreTheLast, Hours, file, L
<1> HIDE DEF file, read
<1>5. EvenEnds(file)
  BY <1>1, <1>4, EvenDaysEndEven
<1>6. PICK m \in Nat : L = 2 * m
  BY <1>1, <1>5, AggregatedIs
<1> HIDE DEF L
<1>7. L \div 2 = m
  BY <1>6
<1>8. CASE m <= limit
  <2>1. read = file
    <3>1. L <= twice
      BY <1>6, <1>8
    <3> QED BY <1>2, <3>1 DEF LastOf, L
  <2>2. PICK k \in Nat : L = 2 * k /\ aggregate_30m_to_60m(file) = Hours(file, k)
    BY <1>1, <1>5, AggregatedIs DEF L
  <2>3. k = m
    BY <1>6, <2>2
  <2> QED BY <1>7, <2>1, <2>2, <2>3
<1>9. CASE ~(m <= limit)
  <2> DEFINE d == 2 * (m - limit)
  <2>1. d \in Nat /\ d + 2 * limit = L /\ d <= L /\ L - d = 2 * limit /\ ~(L <= twice)
        /\ L - twice + 1 = d + 1 /\ limit <= m
    BY <1>6, <1>9
  <2>2. read = SubSeq(file, d + 1, L)
    BY <1>2, <2>1 DEF LastOf, L
  <2> HIDE DEF d, twice
  <2>3. HalfHours(read) /\ Len(read) = 2 * limit /\ \A i \in 1 .. (2 * limit) : read[i] = file[d + i]
    BY <1>1, <2>1, <2>2, PartIs DEF L
  <2>4. EvenEnds(read)
    <3> SUFFICES ASSUME NEW n \in 1 .. (2 * limit), DayEnds(read, n) PROVE \E x \in Nat : n = 2 * x
      BY <2>3 DEF EvenEnds
    <3> DEFINE k == d + n
    <3>1. k \in 1 .. L /\ n \in Nat
      BY <2>1
    <3>2. DayEnds(file, k)
      <4>1. CASE n = 2 * limit
        BY <2>1, <4>1 DEF DayEnds, L
      <4>2. CASE n # 2 * limit
        <5>1. n + 1 \in 1 .. (2 * limit) /\ d + (n + 1) = k + 1
          BY <2>1, <4>2
        <5>2. read[n + 1].trade_date # read[n].trade_date
          BY <2>3, <4>2 DEF DayEnds
        <5>3. read[n + 1] = file[k + 1] /\ read[n] = file[k]
          BY <2>3, <5>1
        <5> HIDE DEF k
        <5> QED BY <5>2, <5>3 DEF DayEnds
      <4> QED BY <4>1, <4>2
    <3> HIDE DEF k
    <3>3. PICK y \in Nat : k = 2 * y
      BY <1>5, <3>1, <3>2 DEF EvenEnds, L
    <3>4. n = 2 * (y - (m - limit))
      BY <2>1, <3>1, <3>3 DEF k, d
    <3>5. y - (m - limit) \in Nat
      BY <2>1, <3>1, <3>4
    <3> QED BY <3>4, <3>5
  <2>5. PICK k \in Nat : 2 * limit = 2 * k /\ aggregate_30m_to_60m(read) = Hours(read, k)
    BY <2>3, <2>4, AggregatedIs
  <2>6. k = limit
    BY <2>5
  <2> DEFINE x == Hours(read, limit)
             y == LastOf(Hours(file, m), limit)
  <2>7. /\ IsRows(x) /\ Len(x) = limit
        /\ \A i \in 1 .. limit : x[i] = Summary(<<read[2 * i - 1], read[2 * i]>>)
    BY HoursType
  <2>8. LastOf(x, limit) = x
    <3> HIDE DEF x
    <3>1. limit <= limit
      OBVIOUS
    <3> QED BY <2>7, <3>1 DEF LastOf
  <2>9. /\ IsRows(y) /\ Len(y) = limit
        /\ \A i \in 1 .. limit :
             y[i] = Summary(<<file[2 * (m - limit + i) - 1], file[2 * (m - limit + i)]>>)
    BY <2>1, LastOfHours
  <2> HIDE DEF x, y
  <2>10. ASSUME NEW i \in 1 .. limit PROVE x[i] = y[i]
    <3>1. 2 * i - 1 \in 1 .. (2 * limit) /\ 2 * i \in 1 .. (2 * limit)
      OBVIOUS
    <3>2. d + (2 * i - 1) = 2 * (m - limit + i) - 1 /\ d + 2 * i = 2 * (m - limit + i)
      BY DEF d
    <3>3. read[2 * i - 1] = file[d + (2 * i - 1)] /\ read[2 * i] = file[d + 2 * i]
      BY <2>3, <3>1
    <3>4. read[2 * i - 1] = file[2 * (m - limit + i) - 1] /\ read[2 * i] = file[2 * (m - limit + i)]
      BY <3>2, <3>3
    <3> QED BY <2>7, <2>9, <3>4
  <2>11. x = y
    <3> DEFINE A == Rows(x) \cup Rows(y)
    <3>1. x \in Seq(A) /\ y \in Seq(A)
      <4>1. Rows(x) \subseteq A /\ Rows(y) \subseteq A
        OBVIOUS
      <4> HIDE DEF A
      <4> QED BY <2>7, <2>9, <4>1, SeqMonotonic DEF IsRows
    <3> HIDE DEF A
    <3> QED BY <2>7, <2>9, <2>10, <3>1, SeqEqual
  <2> QED BY <1>7, <2>5, <2>6, <2>8, <2>11 DEF x, y
<1> QED BY <1>8, <1>9

-----------------------------------------------------------------------------
(* Moving averages *)

\* A running sum from which what leaves the window is taken is the sum of the window.
LEMMA RunningSum ==
  ASSUME NEW bars, NEW n \in Nat, NEW period \in Nat \ {0}, NEW i \in 1 .. n,
         Naturals(bars, 1 .. n, "close")
  PROVE  LET Since(m) == {j \in 1 .. m : j > m - period}
         IN /\ WindowSum(bars, Since(i), "close") \in Nat
            /\ WindowSum(bars, Since(i), "close") =
                 WindowSum(bars, Since(i - 1), "close") + bars[i].close
                   - (IF i > period THEN bars[i - period].close ELSE 0)
<1> DEFINE Since(m) == {j \in 1 .. m : j > m - period}
           Sum(S) == WindowSum(bars, S, "close")
           all == 1 .. n
           now == Since(i)
           before == Since(i - 1)
           old == i - period
<1>1. IsFiniteSet(all)
  <2>1. 1 \in Int /\ n \in Int
    OBVIOUS
  <2> QED BY <2>1, FS_Interval
<1>2. now \subseteq all /\ before \subseteq all /\ i \in now /\ i \notin before
  OBVIOUS
<1>3. ASSUME NEW S, S \subseteq all
      PROVE  /\ Sum(S) \in Nat
             /\ \A x \in S : /\ Sum(S) = bars[x].close + Sum(S \ {x}) /\ Sum(S \ {x}) \in Nat
                             /\ bars[x].close \in Nat
  <2> HIDE DEF all
  <2>1. ASSUME NEW T, T \subseteq S PROVE IsFiniteSet(T) /\ Naturals(bars, T, "close")
    BY <1>1, <1>3, <2>1, FS_Subset DEF Naturals, all
  <2>2. ASSUME NEW T, T \subseteq S PROVE Sum(T) \in Nat
    BY <2>1, <2>2, SumStep
  <2>3. ASSUME NEW x \in S PROVE Sum(S) = bars[x].close + Sum(S \ {x}) /\ bars[x].close \in Nat
    <3> DEFINE field == "close"
    <3>1. IsFiniteSet(S) /\ Naturals(bars, S, field)
      BY <2>1
    <3>2. x \in S
      OBVIOUS
    <3> HIDE DEF field
    <3>3. WindowSum(bars, S, field) = bars[x][field] + WindowSum(bars, S \ {x}, field)
      BY ONLY <3>1, <3>2, SumAdd
    <3>4. bars[x][field] \in Nat
      BY <3>1 DEF Naturals
    <3> QED BY <3>3, <3>4 DEF field
  <2> HIDE DEF Sum
  <2> QED BY <2>2, <2>3
<1> HIDE DEF Sum
<1>4. CASE i > period
  <2>1. old \in all /\ old \in before /\ old \notin now
    BY <1>4
  <2>2. now \ {i} = before \ {old}
    BY <1>4
  <2> HIDE DEF now, before, all, old
  <2>3. Sum(now) = bars[i].close + Sum(now \ {i}) /\ Sum(now) \in Nat /\ bars[i].close \in Nat
    BY <1>2, <1>3
  <2>4. /\ Sum(before) = bars[old].close + Sum(before \ {old}) /\ Sum(before \ {old}) \in Nat
        /\ bars[old].close \in Nat
    BY <1>2, <1>3, <2>1
  <2>5. Sum(now \ {i}) = Sum(before \ {old})
    BY <2>2
  <2>6. Sum(now) = Sum(before) + bars[i].close - bars[old].close
    BY <2>3, <2>4, <2>5
  <2> QED BY <1>4, <2>3, <2>6 DEF now, before, Sum, old
<1>5. CASE ~(i > period)
  <2>1. now \ {i} = before
    BY <1>5
  <2> HIDE DEF now, before, all
  <2>2. Sum(now) = bars[i].close + Sum(now \ {i}) /\ Sum(now) \in Nat /\ bars[i].close \in Nat
        /\ Sum(now \ {i}) \in Nat
    BY <1>2, <1>3
  <2>3. Sum(now \ {i}) = Sum(before)
    BY <2>1
  <2>4. Sum(now) = Sum(before) + bars[i].close - 0
    BY <2>2, <2>3
  <2> QED BY <1>5, <2>2, <2>4 DEF now, before, Sum
<1> QED BY <1>4, <1>5

LEMMA AveragesAre ==
  ASSUME NEW bars, NEW n \in Nat, IsRows(bars), Len(bars) = n,
         Naturals(bars, 1 .. n, "close"), NEW period \in Nat \ {0}, NEW b \in 1 .. n
  PROVE  withMovingAverages(bars, period)[b] =
           IF b < period THEN <<>>
           ELSE <<Total(bars, (b - period + 1) .. b, "close"), period>>
<1> DEFINE Less(i) == IF i > period THEN bars[i - period].close ELSE 0
           step == [i \in 1 .. n |-> [x \in Int |-> x + bars[i].close - Less(i)]]
           Is(f) == f = [i \in 0 .. n |-> IF i = 0 THEN 0
                                          ELSE f[i - 1] + bars[i].close - Less(i)]
           sums == CHOOSE f : Is(f)
           Since(i) == {j \in 1 .. i : j > i - period}
           Sum(i) == WindowSum(bars, Since(i), "close")
<1>1. DOMAIN bars = 1 .. n
  BY RowsHaveLength
<1>2. withMovingAverages(bars, period) =
        [i \in 1 .. n |-> IF i >= period THEN <<sums[i], period>> ELSE <<>>]
  BY <1>1 DEF withMovingAverages
<1>3. \A i \in 1 .. n : bars[i].close \in Nat /\ Less(i) \in Nat
  <2> SUFFICES ASSUME NEW i \in 1 .. n PROVE bars[i].close \in Nat /\ Less(i) \in Nat
    OBVIOUS
  <2>1. i > period => i - period \in 1 .. n
    OBVIOUS
  <2> QED BY <2>1 DEF Naturals
<1> HIDE DEF Less
<1>4. \E f : Is(f)
  <2>1. step \in [1 .. n -> [Int -> Int]]
    BY <1>3
  <2> HIDE DEF step
  <2>2. PICK f \in [0 .. n -> Int] : IsRecursion(f, 0, step, n)
    <3>1. 0 \in Int
      OBVIOUS
    <3> QED BY <2>1, <3>1, RecursionExists
  <2>3. ASSUME NEW i \in 0 .. n
        PROVE  f[i] = IF i = 0 THEN 0 ELSE f[i - 1] + bars[i].close - Less(i)
    <3>1. CASE i = 0
      BY <2>2, <3>1 DEF IsRecursion
    <3>2. CASE i # 0
      <4>1. i - 1 \in 0 .. n /\ i \in 1 .. n
        BY <3>2
      <4>2. f[i] = step[i][f[i - 1]] /\ f[i - 1] \in Int
        BY <2>2, <3>2, <4>1 DEF IsRecursion
      <4>3. step[i][f[i - 1]] = f[i - 1] + bars[i].close - Less(i)
        BY <4>1, <4>2 DEF step
      <4> QED BY <3>2, <4>2, <4>3
    <3> QED BY <3>1, <3>2
  <2>4. f = [i \in 0 .. n |-> f[i]]
    OBVIOUS
  <2>5. Is(f)
    BY <2>3, <2>4
  <2> HIDE DEF Is
  <2> QED BY <2>5
<1>5. Is(sums)
  <2> HIDE DEF Is
  <2> QED BY <1>4
<1> HIDE DEF sums
<1>6. sums[0] = 0 /\ \A i \in 1 .. n : sums[i] = sums[i - 1] + bars[i].close - Less(i)
  <2>1. 0 \in 0 .. n /\ \A i \in 1 .. n : i \in 0 .. n /\ i # 0
    OBVIOUS
  <2> QED BY <1>5, <2>1
<1> HIDE DEF Is
<1>7. Sum(0) = 0
  <2>1. Since(0) = {}
    OBVIOUS
  <2>2. IsFiniteSet({}) /\ Naturals(bars, {}, "close")
    BY FS_EmptySet DEF Naturals
  <2> QED BY <2>1, <2>2, SumStep
<1>8. \A i \in 1 .. n : Sum(i) = Sum(i - 1) + bars[i].close - Less(i)
  BY RunningSum DEF Less
<1> HIDE DEF Sum
<1> DEFINE Bad == {i \in 0 .. n : sums[i] # Sum(i)}
<1>9. Bad = {}
  <2> SUFFICES ASSUME Bad # {} PROVE FALSE
    OBVIOUS
  <2>1. IsDates(Bad)
    <3>1. 0 \in Int /\ n \in Int
      OBVIOUS
    <3>2. IsFiniteSet(0 .. n)
      BY <3>1, FS_Interval
    <3>3. Bad \subseteq 0 .. n /\ 0 .. n \subseteq Int
      OBVIOUS
    <3> HIDE DEF Bad
    <3> QED BY <3>2, <3>3, FS_Subset DEF IsDates
  <2>2. PICK i \in Bad : \A k \in Bad : i <= k
    <3> HIDE DEF Bad
    <3> QED BY <2>1, EarliestDate
  <2>3. i \in 0 .. n /\ sums[i] # Sum(i) /\ i # 0
    BY <1>6, <1>7
  <2>4. i - 1 \in 0 .. n /\ ~(i <= i - 1) /\ i \in 1 .. n
    BY <2>3
  <2>5. sums[i - 1] = Sum(i - 1)
    BY <2>2, <2>4
  <2>6. sums[i] = Sum(i)
    BY <1>6, <1>8, <2>4, <2>5
  <2> QED BY <2>3, <2>6
<1>10. sums[b] = Sum(b)
  BY <1>9
<1>11. b >= period => Since(b) = (b - period + 1) .. b
  OBVIOUS
<1>12. b >= period => sums[b] = Total(bars, (b - period + 1) .. b, "close")
  <2> HIDE DEF Since
  <2> QED BY <1>10, <1>11, TotalIsSum DEF Sum
<1>13. b >= period <=> ~(b < period)
  OBVIOUS
<1> HIDE DEF Bad
<1>14. withMovingAverages(bars, period)[b] = IF b >= period THEN <<sums[b], period>> ELSE <<>>
  BY <1>2
<1> QED BY <1>12, <1>13, <1>14

-----------------------------------------------------------------------------
(* Bars of a chart *)

\* Prices of days, one for each, whose times follow their dates.
DailyPrices(s) ==
  /\ IsRows(s)
  /\ \A i \in 1 .. Len(s) :
       /\ s[i].trade_date \in Int /\ s[i].timestamp \in Int
       /\ s[i].high \in Int /\ s[i].low \in Int /\ s[i].close \in Nat /\ s[i].volume \in Nat
  /\ \A i, j \in 1 .. Len(s) :
       /\ s[i].trade_date = s[j].trade_date => i = j
       /\ s[i].trade_date < s[j].trade_date => s[i].timestamp < s[j].timestamp

\* A week begins for every date, and a month for one that no month after the first ends.
HasStart(date, interval) ==
  interval \in {"1D", "1W"} \/ (interval = "1M" /\ \E m \in MonthStarts : m <= date)

LEMMA StartIs ==
  ASSUME NEW interval, NEW d \in Int, HasStart(d, interval), NEW e \in Int,
         HasStart(e, interval), d <= e
  PROVE  /\ intervalStart(d, interval) \in Int /\ intervalStart(e, interval) \in Int
         /\ intervalStart(d, interval) <= intervalStart(e, interval)
<1>1. CASE interval = "1D"
  BY <1>1 DEF intervalStart
<1>2. CASE interval = "1W"
  <2>1. intervalStart(d, interval) = d - (d % 7) /\ intervalStart(e, interval) = e - (e % 7)
    BY <1>2 DEF intervalStart
  <2>2. d - (d % 7) \in Int /\ e - (e % 7) \in Int /\ d - (d % 7) <= e - (e % 7)
    OBVIOUS
  <2> QED BY <2>1, <2>2
<1>3. CASE interval = "1M"
  <2> DEFINE UpTo(x) == {m \in MonthStarts : m <= x}
  <2>1. ASSUME NEW x \in Int, HasStart(x, interval)
        PROVE  \E m \in UpTo(x) : /\ intervalStart(x, interval) = m /\ m \in Int
                                    /\ \A k \in UpTo(x) : k <= m
    <3> DEFINE S == UpTo(x)
    <3>1. S # {}
      BY <1>3, <2>1 DEF HasStart
    <3>2. S \subseteq MonthStarts
      OBVIOUS
    <3>3. intervalStart(x, interval) = Max(S)
      BY <1>3 DEF intervalStart
    <3> HIDE DEF S
    <3>4. IsDates(S)
      BY <3>2, MonthAssumption, FS_Subset DEF IsDates
    <3>5. PICK m \in S : \A k \in S : k <= m
      BY <3>1, <3>4, LatestDate
    <3>6. Max(S) = m /\ m \in Int
      BY <3>4, <3>5, MaxIsLatest DEF IsDates
    <3> QED BY <3>3, <3>5, <3>6 DEF S
  <2>2. PICK m \in UpTo(d) : /\ intervalStart(d, interval) = m /\ m \in Int
                               /\ \A k \in UpTo(d) : k <= m
    BY <2>1
  <2>3. PICK k \in UpTo(e) : /\ intervalStart(e, interval) = k /\ k \in Int
                               /\ \A x \in UpTo(e) : x <= k
    BY <2>1
  <2>4. m \in UpTo(e)
    <3>1. m \in MonthStarts /\ m <= d /\ m \in Int
      BY <2>2
    <3>2. m <= e
      BY <3>1
    <3> QED BY <3>1, <3>2
  <2> QED BY <2>2, <2>3, <2>4
<1> QED BY <1>1, <1>2, <1>3 DEF HasStart

\* t is s in the order of its dates, with the price of place f[k] at place k.
Dated(f, s, t, n) ==
  /\ f \in [1 .. n -> 1 .. n]
  /\ \A j, k \in 1 .. n : f[j] = f[k] => j = k
  /\ \A i \in 1 .. n : \E k \in 1 .. n : f[k] = i
  /\ \A k \in 1 .. n : t[k] = s[f[k]]
  /\ \A j, k \in 1 .. n : j < k => t[j].trade_date < t[k].trade_date
  /\ \A i \in 1 .. n :
       /\ s[i].trade_date \in Int /\ s[i].high \in Int /\ s[i].low \in Int
       /\ s[i].close \in Nat /\ s[i].volume \in Nat

LEMMA DailyOrder ==
  ASSUME NEW s, DailyPrices(s)
  PROVE  /\ IsRows(InTimeOrder(s)) /\ Len(InTimeOrder(s)) = Len(s) /\ Len(s) \in Nat
         /\ \E f : Dated(f, s, InTimeOrder(s), Len(s))
<1> DEFINE n == Len(s)
           t == InTimeOrder(s)
<1>1. Timed(s) /\ n \in Nat
  BY RowsHaveLength DEF DailyPrices, Timed
<1>2. IsRows(t) /\ Len(t) = n
  BY <1>1, TimeOrderIs
<1>3. PICK f : Sorts(f, s, t)
  BY <1>1, TimeOrderIs
<1> HIDE DEF t
<1>4. /\ f \in [1 .. n -> 1 .. n]
      /\ \A j, k \in 1 .. n : f[j] = f[k] => j = k
      /\ \A i \in 1 .. n : \E k \in 1 .. n : f[k] = i
      /\ \A k \in 1 .. n : t[k] = s[f[k]]
      /\ \A j, k \in 1 .. n : j < k => Earlier(s, f[j], f[k])
  BY <1>3 DEF Sorts
<1>5. /\ \A i \in 1 .. n :
           /\ s[i].trade_date \in Int /\ s[i].high \in Int /\ s[i].low \in Int
           /\ s[i].close \in Nat /\ s[i].volume \in Nat /\ s[i].timestamp \in Int
      /\ \A i, j \in 1 .. n :
           /\ s[i].trade_date = s[j].trade_date => i = j
           /\ s[i].trade_date < s[j].trade_date => s[i].timestamp < s[j].timestamp
  BY DEF DailyPrices
<1> HIDE DEF n
<1>6. ASSUME NEW i \in 1 .. n, NEW j \in 1 .. n, Earlier(s, i, j), i # j
      PROVE  s[i].trade_date < s[j].trade_date
  BY <1>5, <1>6 DEF Earlier
<1>7. ASSUME NEW j \in 1 .. n, NEW k \in 1 .. n, j < k
      PROVE  t[j].trade_date < t[k].trade_date
  <2>1. j # k
    BY <1>1, <1>7
  <2>2. f[j] \in 1 .. n /\ f[k] \in 1 .. n /\ f[j] # f[k] /\ Earlier(s, f[j], f[k])
    BY <1>4, <1>7, <2>1
  <2>3. t[j] = s[f[j]] /\ t[k] = s[f[k]]
    BY <1>4
  <2>4. s[f[j]].trade_date < s[f[k]].trade_date
    BY <1>6, <2>2
  <2> QED BY <2>3, <2>4
<1>8. Dated(f, s, t, n)
  BY <1>4, <1>5, <1>7 DEF Dated
<1> QED BY <1>1, <1>2, <1>8 DEF t, n

\* What a bar says of the prices at some places of a list.
BarOf(bar, s, places) ==
  LET own == Restrict(s, places)
  IN /\ \E i \in places : /\ \A j \in places : s[i].trade_date <= s[j].trade_date
                          /\ bar.open = s[i].open
     /\ \E i \in places : /\ \A j \in places : s[j].trade_date <= s[i].trade_date
                          /\ bar.close = s[i].close /\ bar.trade_date = s[i].trade_date
     /\ bar.close \in Nat
     /\ bar.high = Max(Values(own, "high")) /\ bar.low = Min(Values(own, "low"))
     /\ bar.volume = Total(s, places, "volume")

\* The bar of some places in order says what there is to say of the prices there.
LEMMA GroupBar ==
  ASSUME NEW n \in Nat, NEW f, NEW s, NEW t, Dated(f, s, t, n),
         NEW G, G \subseteq 1 .. n, G # {}
  PROVE  BarOf(Summary(Restrict(t, G)), s, {f[k] : k \in G})
<1> DEFINE group == Restrict(t, G)
           places == {f[k] : k \in G}
           own == Restrict(s, places)
           a == Min(G)
           b == Max(G)
           bar == Summary(group)
<1>1. /\ f \in [1 .. n -> 1 .. n]
      /\ \A j, k \in 1 .. n : f[j] = f[k] => j = k
      /\ \A k \in 1 .. n : t[k] = s[f[k]]
      /\ \A j, k \in 1 .. n : j < k => t[j].trade_date < t[k].trade_date
      /\ \A i \in 1 .. n : s[i].trade_date \in Int /\ s[i].close \in Nat /\ s[i].volume \in Nat
  BY DEF Dated
<1>2. IsDates(G)
  <2>1. 1 \in Int /\ n \in Int
    OBVIOUS
  <2>2. IsFiniteSet(1 .. n) /\ 1 .. n \subseteq Int
    BY <2>1, FS_Interval
  <2> QED BY <2>2, FS_Subset DEF IsDates
<1>3. a \in G /\ \A k \in G : a <= k
  <2>1. PICK m \in G : \A k \in G : m <= k
    BY <1>2, EarliestDate
  <2> QED BY <2>1 DEF Min
<1>4. b \in G /\ \A k \in G : k <= b
  <2>1. PICK m \in G : \A k \in G : k <= m
    BY <1>2, LatestDate
  <2>2. Max(G) = m
    BY <1>2, <2>1, MaxIsLatest
  <2> QED BY <2>1, <2>2
<1>5. DOMAIN group = G /\ \A k \in G : group[k] = t[k] /\ k \in 1 .. n
  BY DEF Restrict
<1>6. DOMAIN own = places /\ \A i \in places : own[i] = s[i]
  BY DEF Restrict
<1>7. /\ bar.trade_date = group[b].trade_date /\ bar.open = group[a].open
      /\ bar.close = group[b].close
      /\ bar.high = Max(Values(group, "high")) /\ bar.low = Min(Values(group, "low"))
      /\ bar.volume = Total(group, G, "volume")
  <2>1. /\ bar.trade_date = group[Max(DOMAIN group)].trade_date
        /\ bar.open = group[Min(DOMAIN group)].open
        /\ bar.close = group[Max(DOMAIN group)].close
        /\ bar.high = Max(Values(group, "high")) /\ bar.low = Min(Values(group, "low"))
        /\ bar.volume = Total(group, DOMAIN group, "volume")
    <3> HIDE DEF group
    <3> QED BY DEF Summary
  <2> HIDE DEF bar, group
  <2> QED BY <1>5, <2>1
<1> HIDE DEF bar, group, a, b, own
<1>8. \A j, k \in G : j <= k => s[f[j]].trade_date <= s[f[k]].trade_date
  <2> SUFFICES ASSUME NEW j \in G, NEW k \in G, j <= k
               PROVE  s[f[j]].trade_date <= s[f[k]].trade_date
    OBVIOUS
  <2>1. j \in 1 .. n /\ k \in 1 .. n /\ f[j] \in 1 .. n /\ f[k] \in 1 .. n
    BY <1>1
  <2>2. t[j] = s[f[j]] /\ t[k] = s[f[k]] /\ (j < k \/ j = k)
    BY <1>1, <2>1
  <2>3. CASE j = k
    BY <1>1, <2>1, <2>3
  <2>4. CASE j < k
    <3>1. t[j].trade_date < t[k].trade_date
      BY <1>1, <2>1, <2>4
    <3>2. s[f[j]].trade_date \in Int /\ s[f[k]].trade_date \in Int
      BY <1>1, <2>1
    <3> QED BY <2>2, <3>1, <3>2
  <2> QED BY <2>2, <2>3, <2>4
<1>9. \A k \in G : group[k] = s[f[k]] /\ f[k] \in places /\ f[k] \in 1 .. n
  BY <1>1, <1>5
<1>10. \E i \in places : /\ \A j \in places : s[i].trade_date <= s[j].trade_date
                         /\ bar.open = s[i].open
  BY <1>3, <1>7, <1>8, <1>9
<1>11. /\ bar.close \in Nat
       /\ \E i \in places : /\ \A j \in places : s[j].trade_date <= s[i].trade_date
                            /\ bar.close = s[i].close /\ bar.trade_date = s[i].trade_date
  <2> DEFINE i == f[b]
  <2>1. b \in G /\ group[b] = s[i] /\ i \in places /\ i \in 1 .. n
    BY <1>4, <1>9
  <2>2. \A j \in places : s[j].trade_date <= s[i].trade_date
    BY <1>4, <1>8, <2>1
  <2>3. s[i].close \in Nat
    BY <1>1, <2>1
  <2> HIDE DEF i, places
  <2>4. bar.close = s[i].close /\ bar.trade_date = s[i].trade_date
    BY <1>7, <2>1
  <2> QED BY <2>1, <2>2, <2>3, <2>4
<1>12. ASSUME NEW field PROVE Values(group, field) = Values(own, field)
  <2>1. Values(group, field) = {s[f[k]][field] : k \in G}
    <3>1. Values(group, field) = {group[k][field] : k \in G}
      BY <1>5 DEF Values
    <3>2. \A k \in G : group[k][field] = s[f[k]][field]
      BY <1>9
    <3> DEFINE u(k) == group[k][field]
               v(k) == s[f[k]][field]
    <3>3. Values(group, field) = {u(k) : k \in G} /\ \A k \in G : u(k) = v(k)
      BY <3>1, <3>2
    <3> HIDE DEF u, v
    <3>4. Values(group, field) = {v(k) : k \in G}
      BY ONLY <3>3
    <3> QED BY <3>4 DEF v
  <2>2. Values(own, field) = {s[i][field] : i \in places}
    BY <1>6 DEF Values
  <2>3. {s[f[k]][field] : k \in G} = {s[i][field] : i \in places}
    OBVIOUS
  <2> QED BY <2>1, <2>2, <2>3
<1>13. bar.volume = Total(s, places, "volume")
  <2> DEFINE field == "volume"
  <2>1. Naturals(group, G, field) /\ \A k \in G : s[f[k]][field] = group[k][field]
    <3>1. ASSUME NEW k \in G PROVE group[k] = s[f[k]] /\ group[k].volume \in Nat
      <4>1. group[k] = s[f[k]] /\ f[k] \in 1 .. n
        BY <1>9
      <4>2. s[f[k]].volume \in Nat
        BY <1>1, <4>1
      <4> QED BY <4>1, <4>2
    <3> QED BY <3>1 DEF Naturals
  <2>2. IsFiniteSet(G) /\ \A x, y \in G : f[x] = f[y] => x = y
    BY <1>1, <1>2, <1>5 DEF IsDates
  <2> HIDE DEF field
  <2>3. WindowSum(s, {f[k] : k \in G}, field) = WindowSum(group, G, field)
    BY ONLY <2>1, <2>2, SumMoved
  <2>4. Total(s, places, field) = Total(group, G, field)
    BY <2>3, TotalIsSum
  <2> QED BY <1>7, <2>4 DEF field
<1> HIDE DEF places
<1>14. BarOf(bar, s, places)
  BY <1>7, <1>10, <1>11, <1>12, <1>13 DEF BarOf, own
<1> QED BY <1>14 DEF bar, group, places

\* A day alone is its own bar.
LEMMA DayBar ==
  ASSUME NEW n \in Nat, NEW f, NEW s, NEW t, Dated(f, s, t, n), NEW k \in 1 .. n
  PROVE  BarOf(t[k], s, {f[k]})
<1> DEFINE places == {f[k]}
           own == Restrict(s, places)
           i == f[k]
<1>1. /\ i \in 1 .. n /\ t[k] = s[i]
      /\ s[i].trade_date \in Int /\ s[i].close \in Nat /\ s[i].volume \in Nat
      /\ s[i].high \in Int /\ s[i].low \in Int
  BY DEF Dated
<1>2. DOMAIN own = {i} /\ own[i] = s[i]
  BY DEF Restrict
<1> HIDE DEF i, own
<1>3. \A field : Values(own, field) = {s[i][field]}
  BY <1>2 DEF Values
<1>4. ASSUME NEW x \in Int PROVE Max({x}) = x /\ Min({x}) = x
  BY DEF Max, Min
<1>5. Max(Values(own, "high")) = s[i].high /\ Min(Values(own, "low")) = s[i].low
  BY <1>1, <1>3, <1>4
<1>6. Total(s, {i}, "volume") = s[i].volume
  <2> DEFINE field == "volume"
             S == {i}
             x == i
  <2>1. Naturals(s, S, field) /\ Naturals(s, {}, field) /\ IsFiniteSet(S) /\ IsFiniteSet({})
    BY <1>1, FS_Singleton, FS_EmptySet DEF Naturals
  <2>2. x \in S /\ S \ {x} = {} /\ s[x][field] \in Nat
    BY <1>1
  <2> HIDE DEF S, field, x
  <2>3. WindowSum(s, S, field) = s[x][field] + WindowSum(s, S \ {x}, field)
    BY ONLY <2>1, <2>2, SumAdd
  <2>4. WindowSum(s, S \ {x}, field) = 0
    BY <2>1, <2>2, SumStep
  <2>5. WindowSum(s, S, field) = s[x][field]
    BY ONLY <2>2, <2>3, <2>4
  <2> QED BY <2>5, TotalIsSum DEF S, x, field
<1> QED BY <1>1, <1>5, <1>6 DEF BarOf, own, i

StartOf(price, interval) == intervalStart(price.trade_date, interval)

\* A chart has a bar for each period with prices, in order, of the prices of the period.
Charts(bars, s, n, interval) ==
  /\ IsRows(bars)
  /\ \A b \in 1 .. Len(bars) :
       BarOf(bars[b], s, {i \in 1 .. n : StartOf(s[i], interval) = StartOf(bars[b], interval)})
  /\ \A i \in 1 .. n : \E b \in 1 .. Len(bars) : StartOf(bars[b], interval) = StartOf(s[i], interval)
  /\ \A b, c \in 1 .. Len(bars) : b < c => StartOf(bars[b], interval) < StartOf(bars[c], interval)

LEMMA DaysChart ==
  ASSUME NEW n \in Nat, NEW f, NEW s, NEW t, Dated(f, s, t, n), IsRows(t), Len(t) = n
  PROVE  Charts(t, s, n, "1D")
<1>1. /\ f \in [1 .. n -> 1 .. n]
      /\ \A i \in 1 .. n : \E k \in 1 .. n : f[k] = i
      /\ \A k \in 1 .. n : t[k] = s[f[k]]
      /\ \A j, k \in 1 .. n : j < k => t[j].trade_date < t[k].trade_date
      /\ \A i \in 1 .. n : s[i].trade_date \in Int
  BY DEF Dated
<1>2. \A x : StartOf(x, "1D") = x.trade_date
  BY DEF StartOf, intervalStart
<1>3. ASSUME NEW b \in 1 .. n
      PROVE  BarOf(t[b], s, {i \in 1 .. n : StartOf(s[i], "1D") = StartOf(t[b], "1D")})
  <2>1. ASSUME NEW i \in 1 .. n, s[i].trade_date = t[b].trade_date PROVE i = f[b]
    <3>1. PICK k \in 1 .. n : f[k] = i
      BY <1>1
    <3>2. t[k].trade_date = t[b].trade_date /\ t[k].trade_date \in Int
      BY <1>1, <2>1, <3>1
    <3>3. k < b => t[k].trade_date < t[b].trade_date
      BY <1>1
    <3>4. b < k => t[b].trade_date < t[k].trade_date
      BY <1>1
    <3>5. k = b
      BY <3>2, <3>3, <3>4
    <3> QED BY <3>1, <3>5
  <2>2. f[b] \in 1 .. n /\ s[f[b]].trade_date = t[b].trade_date
    BY <1>1
  <2>3. {i \in 1 .. n : StartOf(s[i], "1D") = StartOf(t[b], "1D")} = {f[b]}
    BY <1>2, <2>1, <2>2
  <2>4. BarOf(t[b], s, {f[b]})
    BY DayBar
  <2> QED BY <2>3, <2>4
<1>4. ASSUME NEW i \in 1 .. n
      PROVE  \E b \in 1 .. n : StartOf(t[b], "1D") = StartOf(s[i], "1D")
  <2>1. PICK b \in 1 .. n : f[b] = i
    BY <1>1
  <2>2. t[b] = s[i]
    BY <1>1, <2>1
  <2> QED BY <2>2
<1>5. ASSUME NEW b \in 1 .. n, NEW c \in 1 .. n, b < c
      PROVE  StartOf(t[b], "1D") < StartOf(t[c], "1D")
  <2>1. t[b].trade_date < t[c].trade_date
    BY <1>1, <1>5
  <2> QED BY <1>2, <2>1
<1> QED BY <1>3, <1>4, <1>5 DEF Charts

LEMMA PeriodsChart ==
  ASSUME NEW interval, interval # "1D", NEW s, DailyPrices(s),
         \A i \in 1 .. Len(s) : HasStart(s[i].trade_date, interval)
  PROVE  Charts(aggregatePrices(s, interval), s, Len(s), interval)
<1> DEFINE n == Len(s)
           t == InTimeOrder(s)
           T(k) == StartOf(t[k], interval)
           firsts == {i \in 1 .. n : \A j \in 1 .. (i - 1) : T(j) # T(i)}
           m == Cardinality(firsts)
           G(p) == {j \in 1 .. n : T(j) = T(p)}
           bars == aggregatePrices(s, interval)
           In(st) == {i \in 1 .. n : StartOf(s[i], interval) = st}
<1>1. IsRows(t) /\ Len(t) = n /\ n \in Nat /\ DOMAIN t = 1 .. n
  BY DailyOrder, RowsHaveLength
<1>2. PICK f : Dated(f, s, t, n)
  BY DailyOrder
<1>3. bars = [g \in 1 .. m |-> Summary(Restrict(t, G(Nth(firsts, g))))]
  <2> HIDE DEF n
  <2> QED BY <1>1 DEF aggregatePrices, StartOf
<1> HIDE DEF bars, t
<1>4. /\ f \in [1 .. n -> 1 .. n]
      /\ \A i \in 1 .. n : \E k \in 1 .. n : f[k] = i
      /\ \A k \in 1 .. n : t[k] = s[f[k]]
      /\ \A j, k \in 1 .. n : j < k => t[j].trade_date < t[k].trade_date
      /\ \A i \in 1 .. n : s[i].trade_date \in Int
  BY <1>2 DEF Dated
<1>5. \A k \in 1 .. n : f[k] \in 1 .. n /\ t[k].trade_date \in Int /\ HasStart(t[k].trade_date, interval)
  BY <1>4
<1> HIDE DEF n
<1>6. ASSUME NEW j \in 1 .. n, NEW k \in 1 .. n, j <= k
      PROVE  T(j) \in Int /\ T(k) \in Int /\ T(j) <= T(k)
  <2>1. t[j].trade_date <= t[k].trade_date
    <3>1. CASE j = k
      BY <1>5, <3>1
    <3>2. CASE j # k
      <4>1. j < k
        BY <1>1, <1>6, <3>2
      <4>2. t[j].trade_date < t[k].trade_date
        BY <1>4, <4>1
      <4> QED BY <1>5, <4>2
    <3> QED BY <3>1, <3>2
  <2> QED BY <1>5, <2>1, StartIs DEF StartOf
<1> HIDE DEF T
<1>7. IsDates(firsts)
  <2>1. 1 \in Int /\ n \in Int
    BY <1>1
  <2>2. IsFiniteSet(1 .. n) /\ 1 .. n \subseteq Int
    BY <2>1, FS_Interval
  <2>3. firsts \subseteq 1 .. n
    OBVIOUS
  <2> HIDE DEF firsts
  <2> QED BY <2>2, <2>3, FS_Subset DEF IsDates
<1>8. firsts \subseteq 1 .. n /\ \A i \in firsts : \A j \in 1 .. (i - 1) : T(j) # T(i)
  OBVIOUS
<1>9. ASSUME NEW k \in 1 .. n PROVE \E i \in firsts : T(i) = T(k)
  <2>1. IsDates(G(k)) /\ k \in G(k)
    <3>1. 1 \in Int /\ n \in Int
      BY <1>1
    <3>2. IsFiniteSet(1 .. n) /\ 1 .. n \subseteq Int
      BY <3>1, FS_Interval
    <3>3. G(k) \subseteq 1 .. n /\ k \in G(k)
      OBVIOUS
    <3> HIDE DEF G
    <3> QED BY <3>2, <3>3, FS_Subset DEF IsDates
  <2>2. PICK i \in G(k) : \A j \in G(k) : i <= j
    <3> HIDE DEF G
    <3> QED BY <2>1, EarliestDate
  <2>3. ASSUME NEW j \in 1 .. (i - 1), T(j) = T(i) PROVE FALSE
    <3>1. i \in 1 .. n
      OBVIOUS
    <3>2. j \in 1 .. n /\ ~(i <= j)
      BY <1>1, <3>1
    <3>3. j \in G(k)
      BY <2>3, <3>2
    <3> QED BY <2>2, <3>2, <3>3
  <2> QED BY <2>3
<1> HIDE DEF firsts
<1>10. m \in Nat /\ \A g \in 1 .. m : Nth(firsts, g) \in firsts /\ Nth(firsts, g) \in 1 .. n
  BY <1>7, <1>8, NthIs
<1>11. \A b, c \in 1 .. m : b < c => Nth(firsts, b) < Nth(firsts, c)
  BY <1>7, NthAscends
<1>12. \A i \in firsts : \E g \in 1 .. m : Nth(firsts, g) = i
  BY <1>7, NthIs
<1> HIDE DEF m
<1>13. ASSUME NEW g \in 1 .. m
       PROVE  /\ BarOf(bars[g], s, In(StartOf(bars[g], interval)))
              /\ StartOf(bars[g], interval) = T(Nth(firsts, g))
  <2> DEFINE p == Nth(firsts, g)
             places == {f[k] : k \in G(p)}
  <2>1. p \in 1 .. n /\ bars[g] = Summary(Restrict(t, G(p)))
    BY <1>3, <1>10
  <2> HIDE DEF p
  <2>2. p \in G(p) /\ G(p) \subseteq 1 .. n
    BY <2>1
  <2>3. BarOf(bars[g], s, places)
    <3> DEFINE H == G(p)
    <3>1. H \subseteq 1 .. n /\ H # {} /\ bars[g] = Summary(Restrict(t, H))
      BY <2>1, <2>2
    <3> HIDE DEF H, G
    <3>2. BarOf(Summary(Restrict(t, H)), s, {f[k] : k \in H})
      BY ONLY <1>1, <1>2, <3>1, GroupBar
    <3> QED BY <3>1, <3>2 DEF H
  <2>4. \A k \in 1 .. n : StartOf(s[f[k]], interval) = T(k)
    BY <1>4 DEF T
  <2>5. places = In(T(p))
    <3>1. ASSUME NEW i \in places PROVE i \in In(T(p))
      BY <1>5, <2>4
    <3>2. ASSUME NEW i \in In(T(p)) PROVE i \in places
      <4>1. PICK k \in 1 .. n : f[k] = i
        BY <1>4
      <4>2. T(k) = T(p)
        BY <2>4, <4>1
      <4> QED BY <4>1, <4>2
    <3> QED BY <3>1, <3>2
  <2>6. PICK i \in places : bars[g].trade_date = s[i].trade_date
    BY <2>3 DEF BarOf
  <2>7. StartOf(bars[g], interval) = T(p)
    <3>1. StartOf(s[i], interval) = T(p)
      BY <2>5, <2>6
    <3> QED BY <2>6, <3>1 DEF StartOf
  <2> HIDE DEF places
  <2> QED BY <2>3, <2>5, <2>7 DEF p
<1>14. IsRows(bars) /\ Len(bars) = m
  <2> DEFINE A == {bars[g] : g \in 1 .. m}
  <2>1. DOMAIN bars = 1 .. m /\ bars = [g \in 1 .. m |-> bars[g]]
    BY <1>3
  <2>2. bars \in [1 .. m -> A]
    BY <2>1
  <2> HIDE DEF A
  <2>3. bars \in Seq(A) /\ Len(bars) = m
    BY <1>10, <2>2
  <2> QED BY <2>3, SeqIsRows
<1>15. ASSUME NEW i \in 1 .. n
       PROVE  \E b \in 1 .. m : StartOf(bars[b], interval) = StartOf(s[i], interval)
  <2>1. PICK k \in 1 .. n : f[k] = i
    BY <1>4
  <2>2. T(k) = StartOf(s[i], interval)
    BY <1>4, <2>1 DEF T
  <2>3. PICK j \in firsts : T(j) = T(k)
    BY <1>9
  <2>4. PICK g \in 1 .. m : Nth(firsts, g) = j
    BY <1>12
  <2>5. StartOf(bars[g], interval) = T(j)
    BY <1>13, <2>4
  <2> QED BY <2>2, <2>3, <2>5
<1>16. ASSUME NEW b \in 1 .. m, NEW c \in 1 .. m, b < c
       PROVE  StartOf(bars[b], interval) < StartOf(bars[c], interval)
  <2> DEFINE p == Nth(firsts, b)
             q == Nth(firsts, c)
  <2>1. p \in 1 .. n /\ q \in firsts /\ q \in 1 .. n /\ p < q
    BY <1>10, <1>11, <1>16
  <2>2. StartOf(bars[b], interval) = T(p) /\ StartOf(bars[c], interval) = T(q)
    BY <1>13
  <2> HIDE DEF p, q
  <2>3. p \in 1 .. (q - 1) /\ p <= q
    BY <1>1, <2>1
  <2>4. T(p) # T(q)
    BY <1>8, <2>1, <2>3
  <2>5. T(p) \in Int /\ T(q) \in Int /\ T(p) <= T(q)
    BY <1>6, <2>1, <2>3
  <2> QED BY <2>2, <2>4, <2>5
<1> HIDE DEF T, G
<1>17. Charts(bars, s, n, interval)
  BY <1>13, <1>14, <1>15, <1>16 DEF Charts
<1> QED BY <1>17 DEF bars, n

LEMMA ChartsAreExact ==
  ASSUME NEW interval, NEW s, DailyPrices(s), NEW period \in Nat \ {0},
         \A i \in 1 .. Len(s) : HasStart(s[i].trade_date, interval)
  PROVE  ChartIsExact(s, interval, period)
<1> DEFINE n == Len(s)
           bars == aggregatePrices(s, interval)
           averages == withMovingAverages(bars, period)
<1>1. DOMAIN s = 1 .. n /\ n \in Nat
  BY RowsHaveLength DEF DailyPrices
<1>2. Charts(bars, s, n, interval)
  <2>1. CASE interval = "1D"
    <3>1. bars = InTimeOrder(s)
      BY <2>1 DEF aggregatePrices
    <3>2. PICK f : Dated(f, s, InTimeOrder(s), n)
      BY DailyOrder
    <3>3. IsRows(InTimeOrder(s)) /\ Len(InTimeOrder(s)) = n /\ n \in Nat
      BY DailyOrder
    <3>4. Charts(InTimeOrder(s), s, n, "1D")
      BY ONLY <3>2, <3>3, DaysChart
    <3> HIDE DEF bars
    <3> QED BY <2>1, <3>1, <3>4
  <2>2. CASE interval # "1D"
    BY <2>2, PeriodsChart
  <2> QED BY <2>1, <2>2
<1> HIDE DEF bars, n
<1>3. IsRows(bars) /\ DOMAIN bars = 1 .. Len(bars) /\ Len(bars) \in Nat
  BY <1>2, RowsHaveLength DEF Charts
<1>4. \A b \in 1 .. Len(bars) :
        BarOf(bars[b], s, {i \in 1 .. n : StartOf(s[i], interval) = StartOf(bars[b], interval)})
  BY <1>2 DEF Charts
<1>5. Naturals(bars, 1 .. Len(bars), "close")
  BY <1>4 DEF BarOf, Naturals
<1>6. \A b \in 1 .. Len(bars) :
        averages[b] = IF b < period THEN <<>>
                      ELSE <<Total(bars, (b - period + 1) .. b, "close"), period>>
  BY <1>3, <1>5, AveragesAre
<1> HIDE DEF averages
<1>7. {StartOf(bars[b], interval) : b \in 1 .. Len(bars)} = {StartOf(s[i], interval) : i \in 1 .. n}
  <2> DEFINE X == 1 .. Len(bars)
             Y == 1 .. n
             A == {StartOf(bars[b], interval) : b \in X}
             B == {StartOf(s[i], interval) : i \in Y}
  <2>1. ASSUME NEW b \in 1 .. Len(bars)
        PROVE  \E i \in 1 .. n : StartOf(s[i], interval) = StartOf(bars[b], interval)
    BY <1>4 DEF BarOf
  <2>2. \A i \in 1 .. n : \E b \in 1 .. Len(bars) : StartOf(bars[b], interval) = StartOf(s[i], interval)
    BY <1>2 DEF Charts
  <2>3. \A x \in A : x \in B
    BY <2>1
  <2>4. \A x \in B : x \in A
    BY <2>2
  <2> HIDE DEF A, B
  <2>5. A = B
    BY <2>3, <2>4
  <2> QED BY <2>5 DEF A, B
<1>8. \A b, c \in 1 .. Len(bars) : b < c => StartOf(bars[b], interval) < StartOf(bars[c], interval)
  BY <1>2 DEF Charts
<1>9. ASSUME NEW b \in 1 .. Len(bars)
      PROVE  LET places == {i \in 1 .. n : StartOf(s[i], interval) = StartOf(bars[b], interval)}
                 own == Restrict(s, places)
             IN /\ \E i \in places : /\ \A j \in places : s[i].trade_date <= s[j].trade_date
                                     /\ bars[b].open = s[i].open
                /\ \E i \in places : /\ \A j \in places : s[j].trade_date <= s[i].trade_date
                                     /\ bars[b].close = s[i].close
                /\ bars[b].high = Max(Values(own, "high")) /\ bars[b].low = Min(Values(own, "low"))
                /\ bars[b].volume = Total(s, places, "volume")
  BY <1>4 DEF BarOf
<1>10. ChartIsExact(s, interval, period)
  BY <1>1, <1>3, <1>6, <1>7, <1>8, <1>9 DEF ChartIsExact, StartOf, bars, averages
<1> QED BY <1>10

\* Whatever half-hours in time order and whatever dates and limit, the hours are those
\* asked for when days have even numbers of half-hours; whatever prices of different
\* days, in whatever order, interval and period, the chart is made of exactly them.
THEOREM BarsAreExact ==
  ASSUME probe[1] = "hours" => HalfHours(probe[2]) /\ probe[5] \in Nat \ {0},
         probe[1] = "chart" =>
           /\ DailyPrices(probe[2]) /\ probe[4] \in Nat \ {0}
           /\ \A i \in 1 .. Len(probe[2]) : HasStart(probe[2][i].trade_date, probe[3])
  PROVE  BarsSummarisePrices
<1>1. probe[1] = "hours" => HoursAreTheLast(probe[2], probe[3], probe[4], probe[5])
  BY HoursAreLast
<1>2. probe[1] = "chart" => ChartIsExact(probe[2], probe[3], probe[4])
  BY ChartsAreExact
<1> QED BY <1>1, <1>2 DEF BarsSummarisePrices
=============================================================================
