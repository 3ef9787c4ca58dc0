----------------------------- MODULE RowsProofs -----------------------------
(***************************************************************************)
(* What statements leave of a table, and sums of amounts over finite sets  *)
(* of rows, for every table.                                               *)
(*                                                                         *)
(* The fold that computes a sum is a recursive function, which is the      *)
(* CHOOSE of a function that satisfies its equation.  The induction        *)
(* theorems of the library take a predicate; here, whatever fails for some *)
(* set is looked at in a smallest set for which it fails.                  *)
(***************************************************************************)
EXTENDS Rows, FiniteSetTheorems, WellFoundedInduction, TLAPS

\* Tables as sets of functions and tables as partial functions are the same.
LEMMA TablesAreTables ==
    ASSUME NEW Id, NEW Row, NEW table
    PROVE  table \in Tables(Id, Row) <=> IsTable(table, Id, Row)
BY DEF Tables, IsTable

LEMMA InsertIsTable ==
    ASSUME NEW Id, NEW Row, NEW table, NEW rows,
           IsTable(table, Id, Row), IsTable(rows, Id, Row)
    PROVE  /\ IsTable(Insert(table, rows), Id, Row)
           /\ DOMAIN Insert(table, rows) = DOMAIN table \cup DOMAIN rows
BY DEF IsTable, Insert

LEMMA WithoutIsTable ==
    ASSUME NEW Id, NEW Row, NEW table, NEW ids, IsTable(table, Id, Row)
    PROVE  /\ IsTable(Without(table, ids), Id, Row)
           /\ DOMAIN Without(table, ids) = DOMAIN table \ ids
BY DEF IsTable, Without

LEMMA EmptyIsTable ==
    ASSUME NEW Id, NEW Row, NEW value
    PROVE  [i \in {} |-> value] \in Tables(Id, Row) /\ IsTable([i \in {} |-> value], Id, Row)
BY TablesAreTables DEF IsTable

-----------------------------------------------------------------------------
\* A set of naturals has a least element.
LEMMA Least ==
    ASSUME NEW T, T \subseteq Nat, T # {}
    PROVE  \E n \in T : \A m \in T : n <= m
<1> DEFINE R == OpToRel(<, Nat)
<1>1. PICK n \in T : \A m \in T : <<m, n>> \notin R
  <2>1. IsWellFoundedOn(R, Nat)
    BY NatLessThanWellFounded
  <2> HIDE DEF R
  <2> QED
    BY <2>1, WFMin
<1>2. \A m \in T : ~(m < n)
  BY <1>1 DEF OpToRel
<1> QED
  BY <1>2

\* Among finite sets there is one of which no proper subset is among them.
LEMMA Smallest ==
    ASSUME NEW F, F # {}, \A S \in F : IsFiniteSet(S)
    PROVE  \E S \in F : \A T \in F : T \subseteq S => T = S
<1> DEFINE Sizes == {Cardinality(S) : S \in F}
<1>1. Sizes \subseteq Nat /\ Sizes # {}
  BY FS_CardinalityType
<1>2. PICK n \in Sizes : \A m \in Sizes : n <= m
  <2> HIDE DEF Sizes
  <2> QED
    BY <1>1, Least
<1>3. PICK S \in F : n = Cardinality(S)
  OBVIOUS
<1>4. ASSUME NEW T \in F, T \subseteq S, T # S PROVE FALSE
  <2>1. Cardinality(T) <= Cardinality(S) /\ Cardinality(T) # Cardinality(S)
    <3> T \in SUBSET S /\ IsFiniteSet(S)
      BY <1>4
    <3> QED
      BY <1>4, FS_Subset
  <2>2. n <= Cardinality(T) /\ Cardinality(T) \in Nat /\ n \in Nat
    BY <1>1, <1>2, <1>4, FS_CardinalityType
  <2> QED
    BY <1>3, <2>1, <2>2
<1> QED
  BY <1>4

-----------------------------------------------------------------------------
Pick(S) == CHOOSE x \in S : TRUE

\* The equation of the fold, over the sets of D.
Sums(g, table, D) ==
    g = [S \in D |-> IF S = {} THEN 0 ELSE table[Pick(S)].amount + g[S \ {Pick(S)}]]

LEMMA TotalIsFold ==
    ASSUME NEW table, NEW ids
    PROVE  Total(table, ids) = (CHOOSE g : Sums(g, table, SUBSET ids))[ids]
BY Zenon DEF Total, MapThenSumSet, MapThenFoldSet, Sums, Pick

\* The equation has a solution: one for the sets of up to n - 1 elements makes
\* one for those of up to n.
LEMMA FoldExists ==
    ASSUME NEW table, NEW ids, IsFiniteSet(ids)
    PROVE  \E g : Sums(g, table, SUBSET ids)
<1> DEFINE Upto(n) == {S \in SUBSET ids : Cardinality(S) <= n}
           Bad == {n \in Nat : ~ \E g : Sums(g, table, Upto(n))}
<1>1. \A S \in SUBSET ids : IsFiniteSet(S) /\ Cardinality(S) \in Nat /\ Cardinality(S) <= Cardinality(ids)
  BY FS_Subset, FS_CardinalityType
<1>2. ASSUME Bad # {} PROVE FALSE
  <2>1. PICK n \in Bad : \A m \in Bad : n <= m
    <3>1. Bad \subseteq Nat
      OBVIOUS
    <3> HIDE DEF Bad
    <3> QED
      BY <1>2, <3>1, Least
  <2>2. CASE n = 0
    <3> DEFINE g == [S \in Upto(0) |-> 0]
    <3>1. \A S \in Upto(0) : S = {}
      BY <1>1, FS_EmptySet
    <3>2. g = [S \in Upto(0) |-> IF S = {} THEN 0 ELSE table[Pick(S)].amount + g[S \ {Pick(S)}]]
      <4> HIDE DEF Upto
      <4> QED
        BY <3>1
    <3>3. Sums(g, table, Upto(n))
      BY <2>2, <3>2 DEF Sums
    <3> QED
      BY <3>3
  <2>3. CASE n # 0
    <3>1. n \in Nat /\ n - 1 \in Nat /\ n - 1 \notin Bad
      <4>1. n \in Nat
        OBVIOUS
      <4> HIDE DEF Bad
      <4> QED
        BY <2>1, <2>3, <4>1
    <3>2. PICK g : Sums(g, table, Upto(n - 1))
      BY <3>1
    <3> DEFINE h == [S \in Upto(n) |-> IF S = {} THEN 0 ELSE table[Pick(S)].amount + g[S \ {Pick(S)}]]
    <3>3. \A S \in Upto(n - 1) : S \in Upto(n) /\ h[S] = g[S]
      <4>1. \A S \in Upto(n - 1) : S \in Upto(n)
        BY <1>1, <3>1
      <4> HIDE DEF Upto
      <4> QED
        BY <3>2, <4>1 DEF Sums
    <3>4. ASSUME NEW S \in Upto(n), S # {} PROVE S \ {Pick(S)} \in Upto(n - 1)
      <4>1. Pick(S) \in S
        BY <3>4 DEF Pick
      <4>2. Cardinality(S \ {Pick(S)}) = Cardinality(S) - 1
        BY <1>1, <4>1, FS_RemoveElement
      <4> QED
        BY <1>1, <3>1, <4>2
    <3>5. h = [S \in Upto(n) |-> IF S = {} THEN 0 ELSE table[Pick(S)].amount + h[S \ {Pick(S)}]]
      <4>1. \A S \in Upto(n) : S # {} => h[S \ {Pick(S)}] = g[S \ {Pick(S)}]
        <5> HIDE DEF h, Upto
        <5> QED
          BY <3>3, <3>4
      <4>2. [S \in Upto(n) |-> IF S = {} THEN 0 ELSE table[Pick(S)].amount + h[S \ {Pick(S)}]]
              = [S \in Upto(n) |-> IF S = {} THEN 0 ELSE table[Pick(S)].amount + g[S \ {Pick(S)}]]
        <5> HIDE DEF h, Upto
        <5> QED
          BY <4>1
      <4> QED
        BY <4>2, Zenon
    <3>6. Sums(h, table, Upto(n))
      BY <3>5 DEF Sums
    <3> QED
      BY <3>6
  <2> QED
    BY <2>2, <2>3
<1>3. Cardinality(ids) \in Nat /\ Upto(Cardinality(ids)) = SUBSET ids
  BY <1>1, FS_CardinalityType
<1> QED
  BY <1>2, <1>3

\* Two solutions agree wherever both are defined.
LEMMA FoldUnique ==
    ASSUME NEW table, NEW A, NEW B, NEW g, NEW h, IsFiniteSet(A),
           Sums(g, table, SUBSET A), Sums(h, table, SUBSET B), A \subseteq B
    PROVE  \A S \in SUBSET A : g[S] = h[S]
<1> DEFINE Bad == {S \in SUBSET A : g[S] # h[S]}
<1>1. ASSUME Bad # {} PROVE FALSE
  <2>1. PICK S \in Bad : \A T \in Bad : T \subseteq S => T = S
    <3>1. \A S \in Bad : IsFiniteSet(S)
      BY FS_Subset
    <3> HIDE DEF Bad
    <3> QED
      BY <1>1, <3>1, Smallest
  <2>2. CASE S = {}
    BY <2>1, <2>2 DEF Sums
  <2>3. CASE S # {}
    <3>1. Pick(S) \in S
      BY <2>3 DEF Pick
    <3>2. g[S \ {Pick(S)}] = h[S \ {Pick(S)}]
      BY <2>1, <3>1
    <3>3. S \in SUBSET A /\ S \in SUBSET B
      OBVIOUS
    <3>4. g[S] = table[Pick(S)].amount + g[S \ {Pick(S)}]
      BY <2>3, <3>3 DEF Sums
    <3>5. h[S] = table[Pick(S)].amount + h[S \ {Pick(S)}]
      BY <2>3, <3>3 DEF Sums
    <3> QED
      BY <3>2, <3>4, <3>5
  <2> QED
    BY <2>2, <2>3
<1> QED
  BY <1>1

LEMMA TotalEmpty ==
    ASSUME NEW table
    PROVE  Total(table, {}) = 0
<1> DEFINE g == CHOOSE h : Sums(h, table, SUBSET {})
<1>1. Sums(g, table, SUBSET {})
  BY FoldExists, FS_EmptySet
<1> HIDE DEF g
<1>2. g[{}] = 0
  BY <1>1 DEF Sums
<1> QED
  BY <1>2, TotalIsFold DEF g

LEMMA TotalUnfold ==
    ASSUME NEW table, NEW ids, IsFiniteSet(ids), ids # {}
    PROVE  Total(table, ids) = table[Pick(ids)].amount + Total(table, ids \ {Pick(ids)})
<1> DEFINE g == CHOOSE f : Sums(f, table, SUBSET ids)
           rest == ids \ {Pick(ids)}
           h == CHOOSE f : Sums(f, table, SUBSET rest)
<1>1. Sums(g, table, SUBSET ids)
  BY FoldExists
<1>2. IsFiniteSet(rest) /\ rest \subseteq ids
  BY FS_Subset
<1>3. Sums(h, table, SUBSET rest)
  BY <1>2, FoldExists
<1>4. Total(table, ids) = g[ids] /\ Total(table, rest) = h[rest]
  BY TotalIsFold
<1> HIDE DEF g, h, rest
<1>5. g[rest] = h[rest]
  BY <1>1, <1>2, <1>3, FoldUnique
<1>6. g[ids] = table[Pick(ids)].amount + g[rest]
  BY <1>1 DEF Sums, rest
<1> QED
  BY <1>4, <1>5, <1>6 DEF rest

-----------------------------------------------------------------------------
Amounted(table, ids) == \A i \in ids : table[i].amount \in Nat

LEMMA TotalType ==
    ASSUME NEW table, NEW ids, IsFiniteSet(ids), Amounted(table, ids)
    PROVE  Total(table, ids) \in Nat
<1> DEFINE Bad == {S \in SUBSET ids : Total(table, S) \notin Nat}
<1>1. ASSUME Bad # {} PROVE FALSE
  <2>1. \A S \in Bad : IsFiniteSet(S)
    BY FS_Subset
  <2>2. PICK S \in Bad : \A T \in Bad : T \subseteq S => T = S
    <3> HIDE DEF Bad
    <3> QED
      BY <1>1, <2>1, Smallest
  <2>3. S # {}
    BY TotalEmpty
  <2>4. Pick(S) \in S
    BY <2>3 DEF Pick
  <2>5. Total(table, S \ {Pick(S)}) \in Nat
    BY <2>2, <2>4
  <2>6. Total(table, S) = table[Pick(S)].amount + Total(table, S \ {Pick(S)})
    BY <2>1, <2>3, TotalUnfold
  <2>7. table[Pick(S)].amount \in Nat
    BY <2>4 DEF Amounted
  <2> QED
    BY <2>5, <2>6, <2>7
<1> QED
  BY <1>1

\* Any element may be the one that is taken out first.
LEMMA TotalWithout ==
    ASSUME NEW table, NEW ids, IsFiniteSet(ids), Amounted(table, ids)
    PROVE  \A x \in ids : Total(table, ids) = table[x].amount + Total(table, ids \ {x})
<1> DEFINE Splits(S, x) == Total(table, S) = table[x].amount + Total(table, S \ {x})
           Bad == {S \in SUBSET ids : \E x \in S : ~Splits(S, x)}
<1>1. ASSUME Bad # {} PROVE FALSE
  <2>1. \A S \in SUBSET ids : IsFiniteSet(S)
    BY FS_Subset
  <2>2. PICK S \in Bad : \A T \in Bad : T \subseteq S => T = S
    <3>1. \A S \in Bad : IsFiniteSet(S)
      BY <2>1
    <3> HIDE DEF Bad
    <3> QED
      BY <1>1, <3>1, Smallest
  <2>3. PICK x \in S : ~Splits(S, x)
    OBVIOUS
  <2> DEFINE p == Pick(S)
             rest == (S \ {p}) \ {x}
  <2>4. p \in S /\ S \in SUBSET ids /\ IsFiniteSet(S)
    BY <2>1 DEF Pick
  <2>5. Splits(S, p)
    BY <2>3, <2>4, TotalUnfold
  <2>6. p # x
    BY <2>3, <2>5
  <2>7. Splits(S \ {p}, x) /\ Splits(S \ {x}, p)
    <3>1. S \ {p} \notin Bad /\ S \ {x} \notin Bad
      <4> HIDE DEF Bad, p
      <4> QED
        BY <2>2, <2>3, <2>4
    <3>2. x \in S \ {p} /\ p \in S \ {x} /\ S \ {p} \in SUBSET ids /\ S \ {x} \in SUBSET ids
      BY <2>3, <2>4, <2>6
    <3> HIDE DEF Splits, p
    <3> QED
      BY <3>1, <3>2
  <2>8. (S \ {x}) \ {p} = rest
    OBVIOUS
  <2>9. Total(table, rest) \in Nat /\ table[p].amount \in Nat /\ table[x].amount \in Nat
    <3>1. rest \in SUBSET ids /\ Amounted(table, rest)
      BY <2>4 DEF Amounted
    <3> HIDE DEF rest, p
    <3> QED
      BY <2>1, <2>3, <2>4, <3>1, TotalType DEF Amounted
  <2>10. /\ Total(table, S) = table[p].amount + Total(table, S \ {p})
         /\ Total(table, S \ {p}) = table[x].amount + Total(table, rest)
         /\ Total(table, S \ {x}) = table[p].amount + Total(table, rest)
         /\ Total(table, S) # table[x].amount + Total(table, S \ {x})
    <3> HIDE DEF p
    <3> QED
      BY <2>3, <2>5, <2>7, <2>8 DEF rest
  <2> HIDE DEF Bad, Splits, p, rest
  <2> QED
    BY <2>9, <2>10
<1> QED
  BY <1>1

LEMMA TotalWith ==
    ASSUME NEW table, NEW ids, IsFiniteSet(ids), NEW x, x \notin ids, Amounted(table, ids \cup {x})
    PROVE  Total(table, ids \cup {x}) = table[x].amount + Total(table, ids)
<1>1. IsFiniteSet(ids \cup {x})
  BY FS_AddElement
<1>2. (ids \cup {x}) \ {x} = ids
  OBVIOUS
<1> QED
  BY <1>1, <1>2, TotalWithout

LEMMA TotalOfOne ==
    ASSUME NEW table, NEW x, table[x].amount \in Nat
    PROVE  Total(table, {x}) = table[x].amount
<1>1. Total(table, {x}) = table[x].amount + Total(table, {x} \ {x})
  BY FS_Singleton, TotalWithout DEF Amounted
<1>2. {x} \ {x} = {}
  OBVIOUS
<1> QED
  BY <1>1, <1>2, TotalEmpty

\* Tables with the same amounts have the same totals.
LEMMA TotalSame ==
    ASSUME NEW table, NEW other, NEW ids, IsFiniteSet(ids),
           \A i \in ids : other[i].amount = table[i].amount
    PROVE  Total(other, ids) = Total(table, ids)
<1> DEFINE Bad == {S \in SUBSET ids : Total(other, S) # Total(table, S)}
<1>1. ASSUME Bad # {} PROVE FALSE
  <2>1. \A S \in Bad : IsFiniteSet(S)
    BY FS_Subset
  <2>2. PICK S \in Bad : \A T \in Bad : T \subseteq S => T = S
    <3> HIDE DEF Bad
    <3> QED
      BY <1>1, <2>1, Smallest
  <2>3. S # {}
    BY <2>2, TotalEmpty
  <2>4. Pick(S) \in S
    BY <2>3 DEF Pick
  <2>5. Total(other, S \ {Pick(S)}) = Total(table, S \ {Pick(S)})
    BY <2>2, <2>4
  <2>6. /\ Total(table, S) = table[Pick(S)].amount + Total(table, S \ {Pick(S)})
        /\ Total(other, S) = other[Pick(S)].amount + Total(other, S \ {Pick(S)})
    BY <2>1, <2>3, TotalUnfold
  <2>7. other[Pick(S)].amount = table[Pick(S)].amount
    BY <2>4
  <2> QED
    BY <2>5, <2>6, <2>7
<1> QED
  BY <1>1

\* The totals of two sets that have nothing in common add up.
LEMMA TotalUnion ==
    ASSUME NEW table, NEW A, NEW B, IsFiniteSet(A), IsFiniteSet(B), A \cap B = {},
           Amounted(table, A \cup B)
    PROVE  Total(table, A \cup B) = Total(table, A) + Total(table, B)
<1> DEFINE Adds(S) == Total(table, A \cup S) = Total(table, A) + Total(table, S)
           Bad == {S \in SUBSET B : ~Adds(S)}
<1>1. ASSUME Bad # {} PROVE FALSE
  <2>1. \A S \in SUBSET B : IsFiniteSet(S) /\ IsFiniteSet(A \cup S)
    BY FS_Subset, FS_Union
  <2>2. PICK S \in Bad : \A T \in Bad : T \subseteq S => T = S
    <3>1. \A S \in Bad : IsFiniteSet(S)
      BY <2>1
    <3> HIDE DEF Bad
    <3> QED
      BY <1>1, <3>1, Smallest
  <2>3. Total(table, A) \in Nat
    BY TotalType DEF Amounted
  <2>4. S # {}
    <3>1. A \cup {} = A
      OBVIOUS
    <3> QED
      BY <2>3, <3>1, TotalEmpty
  <2>5. PICK x \in S : TRUE
    BY <2>4
  <2> DEFINE R == S \ {x}
  <2>6. S \in SUBSET B /\ R \in SUBSET B /\ x \in B /\ R # S
    BY <2>5
  <2>7. Adds(R)
    <3> HIDE DEF Adds, R
    <3> QED
      BY <2>2, <2>6 DEF R
  <2>8. Total(table, S) = table[x].amount + Total(table, R)
    BY <2>1, <2>6, TotalWithout DEF Amounted
  <2>9. Total(table, A \cup S) = table[x].amount + Total(table, A \cup R)
    <3>1. (A \cup S) \ {x} = A \cup R
      BY <2>6
    <3> QED
      BY <2>1, <2>6, <3>1, TotalWithout DEF Amounted
  <2>10. Total(table, R) \in Nat /\ table[x].amount \in Nat
    <3> HIDE DEF R
    <3> QED
      BY <2>1, <2>6, TotalType DEF Amounted
  <2> HIDE DEF Bad, R
  <2> QED
    BY <2>2, <2>3, <2>7, <2>8, <2>9, <2>10 DEF Bad
<1>2. Adds(B)
  BY <1>1
<1> QED
  BY <1>2

\* More rows do not make less.
LEMMA TotalGrows ==
    ASSUME NEW table, NEW A, NEW B, A \subseteq B, IsFiniteSet(B), Amounted(table, B)
    PROVE  Total(table, A) <= Total(table, B)
<1>1. IsFiniteSet(A) /\ IsFiniteSet(B \ A)
  BY FS_Subset
<1>2. Amounted(table, A) /\ Amounted(table, B \ A) /\ A \cup (B \ A) = B
  BY DEF Amounted
<1>3. Total(table, B) = Total(table, A) + Total(table, B \ A)
  BY <1>1, <1>2, TotalUnion
<1> QED
  BY <1>1, <1>2, <1>3, TotalType

\* Nothing amounts to zero but rows of zero.
LEMMA TotalZero ==
    ASSUME NEW table, NEW ids, IsFiniteSet(ids), Amounted(table, ids), Total(table, ids) = 0
    PROVE  \A i \in ids : table[i].amount = 0
<1>1. ASSUME NEW i \in ids PROVE table[i].amount = 0
  <2>1. Total(table, ids) = table[i].amount + Total(table, ids \ {i})
    BY TotalWithout
  <2>2. Total(table, ids \ {i}) \in Nat /\ table[i].amount \in Nat
    BY FS_Subset, TotalType DEF Amounted
  <2> QED
    BY <2>1, <2>2
<1> QED
  BY <1>1

\* Rows that are copied one for one under other ids keep their total.
LEMMA TotalRenamed ==
    ASSUME NEW table, NEW other, NEW ids, IsFiniteSet(ids), Amounted(table, ids),
           NEW of, \A k, l \in ids : of[k] = of[l] => k = l,
           \A k \in ids : other[of[k]].amount = table[k].amount
    PROVE  Total(other, {of[k] : k \in ids}) = Total(table, ids)
<1> DEFINE Image(S) == {of[k] : k \in S}
           Keeps(S) == Total(other, Image(S)) = Total(table, S)
           Bad == {S \in SUBSET ids : ~Keeps(S)}
<1>1. ASSUME Bad # {} PROVE FALSE
  <2>1. \A S \in SUBSET ids : IsFiniteSet(S) /\ IsFiniteSet(Image(S))
    <3>1. ASSUME NEW S \in SUBSET ids PROVE IsFiniteSet(S) /\ IsFiniteSet(Image(S))
      <4>1. [k \in S |-> of[k]] \in Surjection(S, Image(S))
        BY DEF Surjection
      <4> QED
        BY <4>1, FS_Subset, FS_Surjection
    <3> QED
      BY <3>1
  <2>2. PICK S \in Bad : \A T \in Bad : T \subseteq S => T = S
    <3>1. \A S \in Bad : IsFiniteSet(S)
      BY <2>1
    <3> HIDE DEF Bad
    <3> QED
      BY <1>1, <3>1, Smallest
  <2>3. S # {}
    <3>1. Image({}) = {}
      OBVIOUS
    <3> HIDE DEF Image
    <3> QED
      BY <2>2, <3>1, TotalEmpty
  <2>4. PICK x \in S : TRUE
    BY <2>3
  <2> DEFINE R == S \ {x}
  <2>5. S \in SUBSET ids /\ R \in SUBSET ids /\ x \in ids /\ R # S
    BY <2>4
  <2>6. Keeps(R)
    <3> HIDE DEF Keeps, R
    <3> QED
      BY <2>2, <2>5 DEF R
  <2>7. Total(table, S) = table[x].amount + Total(table, R)
    BY <2>1, <2>5, TotalWithout DEF Amounted
  <2>8. /\ Image(S) \ {of[x]} = Image(R)
        /\ of[x] \in Image(S)
        /\ Amounted(other, Image(S))
    BY <2>4, <2>5 DEF Amounted
  <2>9. Total(other, Image(S)) = other[of[x]].amount + Total(other, Image(R))
    <3> HIDE DEF Image, R
    <3> QED
      BY <2>1, <2>5, <2>8, TotalWithout
  <2> HIDE DEF Bad, R, Image
  <2> QED
    BY <2>2, <2>5, <2>6, <2>7, <2>9 DEF Bad
<1>2. Keeps(ids)
  BY <1>1
<1> QED
  BY <1>2

\* A bound on each amount bounds the total.
LEMMA TotalBounded ==
    ASSUME NEW table, NEW ids, IsFiniteSet(ids), Amounted(table, ids),
           NEW m \in Nat, \A i \in ids : table[i].amount <= m
    PROVE  Total(table, ids) <= Cardinality(ids) * m
<1> DEFINE Bounded(S) == Total(table, S) <= Cardinality(S) * m
           Bad == {S \in SUBSET ids : ~Bounded(S)}
<1>1. ASSUME Bad # {} PROVE FALSE
  <2>1. \A S \in SUBSET ids : IsFiniteSet(S) /\ Amounted(table, S)
    BY FS_Subset DEF Amounted
  <2>2. PICK S \in Bad : \A T \in Bad : T \subseteq S => T = S
    <3>1. \A S \in Bad : IsFiniteSet(S)
      BY <2>1
    <3> HIDE DEF Bad
    <3> QED
      BY <1>1, <3>1, Smallest
  <2>3. S # {}
    <3>1. Bounded({})
      BY TotalEmpty, FS_EmptySet
    <3> HIDE DEF Bounded
    <3> QED
      BY <2>2, <3>1
  <2>4. PICK x \in S : TRUE
    BY <2>3
  <2> DEFINE R == S \ {x}
  <2>5. S \in SUBSET ids /\ R \in SUBSET ids /\ x \in ids /\ R # S
    BY <2>4
  <2>6. Bounded(R)
    <3> HIDE DEF Bounded, R
    <3> QED
      BY <2>2, <2>5 DEF R
  <2>7. Total(table, S) = table[x].amount + Total(table, R)
    BY <2>1, <2>4, <2>5, TotalWithout
  <2>8. Cardinality(R) = Cardinality(S) - 1 /\ Cardinality(S) \in Nat
    BY <2>1, <2>4, <2>5, FS_RemoveElement, FS_CardinalityType
  <2>9. Total(table, R) \in Nat /\ table[x].amount \in Nat /\ table[x].amount <= m
    <3>1. IsFiniteSet(R) /\ Amounted(table, R)
      BY <2>1, <2>5
    <3> QED
      BY <2>5, <3>1, TotalType DEF Amounted
  <2>10. ~Bounded(S)
    OBVIOUS
  <2> HIDE DEF Bad, R
  <2>11. \A n \in Nat : (n - 1) * m = n * m - m
    BY SMT
  <2>12. Total(table, R) <= Cardinality(S) * m - m
    BY <2>6, <2>8, <2>11
  <2>13. Cardinality(S) * m \in Nat
    BY <2>8
  <2> DEFINE bound == Cardinality(S) * m
  <2>14. ~(Total(table, S) <= bound)
    BY <2>10
  <2> QED
    <3>1. Total(table, R) <= bound - m /\ bound \in Nat
      BY <2>12, <2>13
    <3> HIDE DEF bound, Bounded
    <3> QED
      BY <2>7, <2>9, <2>14, <3>1
<1>2. Bounded(ids)
  BY <1>1
<1> QED
  BY <1>2

\* A finite set of naturals has a greatest element.
LEMMA GreatestExists ==
    ASSUME NEW A, A \subseteq Nat, IsFiniteSet(A), A # {}
    PROVE  Max(A) \in A /\ \A a \in A : a <= Max(A)
<1> DEFINE Bad == {S \in SUBSET A : S # {} /\ ~ \E m \in S : \A a \in S : m >= a}
<1>1. ASSUME Bad # {} PROVE FALSE
  <2>1. PICK S \in Bad : \A T \in Bad : T \subseteq S => T = S
    <3>1. \A S \in Bad : IsFiniteSet(S)
      BY FS_Subset
    <3> HIDE DEF Bad
    <3> QED
      BY <1>1, <3>1, Smallest
  <2>2. PICK x \in S : TRUE
    OBVIOUS
  <2> DEFINE R == S \ {x}
  <2>3. S \subseteq Nat /\ R \in SUBSET A /\ R # S /\ R \notin Bad
    <3>1. S \in SUBSET A /\ R \in SUBSET A /\ R # S /\ R \subseteq S
      BY <2>2
    <3> HIDE DEF Bad, R
    <3> QED
      BY <2>1, <3>1
  <2>4. CASE R = {}
    BY <2>2, <2>3, <2>4
  <2>5. CASE R # {}
    <3>1. PICK m \in R : \A a \in R : m >= a
      BY <2>3, <2>5
    <3>2. \A a \in S : a \in R \/ a = x
      OBVIOUS
    <3>3. m \in Nat /\ x \in Nat /\ m \in S /\ x \in S
      BY <2>2, <2>3, <3>1
    <3>4. CASE m >= x
      BY <3>1, <3>2, <3>3, <3>4
    <3>5. CASE x >= m
      <4>1. \A a \in S : x >= a
        BY <2>3, <3>1, <3>2, <3>3, <3>5
      <4> QED
        BY <2>1, <3>3, <4>1
    <3> QED
      BY <3>3, <3>4, <3>5
  <2> QED
    BY <2>4, <2>5
<1>2. \E m \in A : \A a \in A : m >= a
  BY <1>1
<1> QED
  BY <1>2 DEF Max

=============================================================================
