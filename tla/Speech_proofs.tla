----------------------------- MODULE Speech_proofs -----------------------------
(***************************************************************************)
(* What is proved of speech on its way to text: that the audio arrives at the *)
(* recognizer (Clip), and that a spoken number is written as it was meant  *)
(* (Normalizer).                                                           *)
(***************************************************************************)
EXTENDS MC_Clip, MC_Normalizer, FiniteSetTheorems, SequenceTheorems, WellFoundedInduction, TLAPS

(***************************************************************************)
(* Sums over finite sets, as MapThenSumSet takes them: element by element,  *)
(* in an order that CHOOSE picks.  The table of a sum has the sums over all *)
(* subsets; two tables agree where both are defined, and so the order does  *)
(* not matter.  Inductions over the size of a set compare with a smallest   *)
(* counterexample.                                                          *)
(***************************************************************************)
Pick(s) == CHOOSE x \in s : TRUE

Tabled(table, f, T) ==
  table = [s \in T |-> IF s = {} THEN 0 ELSE f[Pick(s)] + table[s \ {Pick(s)}]]

SumOver(f, S) == (CHOOSE table : Tabled(table, f, SUBSET S))[S]

\* A number of the kind that is wanted has a least one before it.
LEMMA LeastSuch ==
  ASSUME NEW S \in SUBSET Nat, S # {}
  PROVE  \E n \in S : \A m \in S : n <= m
<1>1. PICK n \in S : \A m \in S : ~(<<m, n>> \in OpToRel(<, Nat))
  BY NatLessThanWellFounded, WFMin
<1>2. ASSUME NEW m \in S PROVE ~(m < n)
  <2>1. ~(<<m, n>> \in {pair \in Nat \X Nat : pair[1] < pair[2]})
    BY <1>1, Zenon DEF OpToRel
  <2>2. QED
    BY <2>1
<1>3. QED
  BY <1>2

LEMMA LeastFound ==
  ASSUME NEW S \in SUBSET Nat, S # {}
  PROVE  Min(S) \in S /\ \A n \in S : Min(S) <= n
<1>1. PICK n \in S : \A m \in S : n <= m
  BY LeastSuch
<1>2. QED
  BY <1>1 DEF Min

LEMMA PickIn == ASSUME NEW s, s # {} PROVE Pick(s) \in s
BY DEF Pick

Smaller(S, n) == {s \in SUBSET S : Cardinality(s) <= n}

LEMMA SubsetSizes ==
  ASSUME NEW S, IsFiniteSet(S), NEW s \in SUBSET S
  PROVE  /\ IsFiniteSet(s) /\ Cardinality(s) \in Nat
         /\ s = {} <=> Cardinality(s) = 0
         /\ \A x \in s : Cardinality(s \ {x}) = Cardinality(s) - 1
BY FS_Subset, FS_CardinalityType, FS_EmptySet, FS_RemoveElement

LEMMA TablesGrow ==
  ASSUME NEW S, IsFiniteSet(S), NEW f, \A x \in S : f[x] \in Nat, NEW n \in Nat,
         NEW table \in [Smaller(S, n) -> Nat], Tabled(table, f, Smaller(S, n))
  PROVE  \E next \in [Smaller(S, n + 1) -> Nat] : Tabled(next, f, Smaller(S, n + 1))
<1> DEFINE next == [s \in Smaller(S, n + 1) |->
                      IF s = {} THEN 0 ELSE f[Pick(s)] + table[s \ {Pick(s)}]]
<1>1. ASSUME NEW s \in Smaller(S, n + 1), s # {}
      PROVE  Pick(s) \in s /\ s \ {Pick(s)} \in Smaller(S, n)
  <2>1. Pick(s) \in s
    BY <1>1, PickIn
  <2>2. Cardinality(s \ {Pick(s)}) = Cardinality(s) - 1 /\ Cardinality(s) \in Nat
    BY <2>1, SubsetSizes DEF Smaller
  <2>3. QED
    BY <2>1, <2>2 DEF Smaller
<1>2. ASSUME NEW s \in Smaller(S, n) PROVE s \in Smaller(S, n + 1) /\ next[s] = table[s]
  <2>1. s \in Smaller(S, n + 1)
    BY SubsetSizes DEF Smaller
  <2>2. table[s] = IF s = {} THEN 0 ELSE f[Pick(s)] + table[s \ {Pick(s)}]
    BY DEF Tabled
  <2>3. QED
    BY <2>1, <2>2
<1>3. next \in [Smaller(S, n + 1) -> Nat]
  <2>1. SUFFICES ASSUME NEW s \in Smaller(S, n + 1) PROVE next[s] \in Nat
    OBVIOUS
  <2>2. CASE s # {}
    <3>1. f[Pick(s)] \in Nat /\ table[s \ {Pick(s)}] \in Nat
      BY <1>1, <2>2 DEF Smaller
    <3>2. QED
      BY <2>2, <3>1
  <2>3. QED
    BY <2>2
<1>4. \A s \in Smaller(S, n + 1) :
        next[s] = IF s = {} THEN 0 ELSE f[Pick(s)] + next[s \ {Pick(s)}]
  BY <1>1, <1>2
<1> HIDE DEF next
<1>5. Tabled(next, f, Smaller(S, n + 1))
  BY <1>3, <1>4 DEF Tabled
<1>6. QED
  BY <1>3, <1>5

LEMMA TableExists ==
  ASSUME NEW S, IsFiniteSet(S), NEW f, \A x \in S : f[x] \in Nat
  PROVE  \E table \in [SUBSET S -> Nat] : Tabled(table, f, SUBSET S)
<1> DEFINE Has(n) == \E table \in [Smaller(S, n) -> Nat] : Tabled(table, f, Smaller(S, n))
           Lacking == {n \in Nat : ~Has(n)}
<1>1. Has(0)
  <2>1. Smaller(S, 0) = {{}}
    <3>1. \A s \in SUBSET S : Cardinality(s) \in Nat /\ (s = {} <=> Cardinality(s) = 0)
      BY SubsetSizes
    <3>2. QED
      BY <3>1 DEF Smaller
  <2>2. [s \in {{}} |-> 0] \in [Smaller(S, 0) -> Nat] /\ Tabled([s \in {{}} |-> 0], f, Smaller(S, 0))
    BY <2>1 DEF Tabled
  <2>3. QED
    BY <2>2
<1>2. ASSUME NEW n \in Nat, Has(n) PROVE Has(n + 1)
  BY <1>2, TablesGrow
<1>3. Lacking = {}
  <2>1. SUFFICES ASSUME Lacking # {} PROVE FALSE
    OBVIOUS
  <2>2. PICK n \in Lacking : \A m \in Lacking : n <= m
    <3>1. Lacking \in SUBSET Nat
      OBVIOUS
    <3> HIDE DEF Lacking
    <3>2. QED
      BY <2>1, <3>1, LeastSuch
  <2> HIDE DEF Has
  <2>3. n # 0 /\ n \in Nat /\ ~Has(n)
    BY <1>1, <2>2
  <2>4. n - 1 \in Nat /\ n - 1 \notin Lacking
    BY <2>2, <2>3
  <2>5. Has((n - 1) + 1)
    BY <1>2, <2>4
  <2>6. QED
    BY <2>3, <2>5
<1>4. Has(Cardinality(S))
  <2>1. Cardinality(S) \in Nat
    BY FS_CardinalityType
  <2> HIDE DEF Has
  <2>2. QED
    BY <1>3, <2>1
<1>5. Smaller(S, Cardinality(S)) = SUBSET S
  <2>1. \A s \in SUBSET S : Cardinality(s) <= Cardinality(S)
    BY FS_Subset
  <2>2. QED
    BY <2>1 DEF Smaller
<1>6. QED
  BY <1>4, <1>5

\* Two tables agree on the sets both have, and so do the functions summed.
LEMMA TablesAgree ==
  ASSUME NEW S, IsFiniteSet(S), NEW f, NEW g, \A x \in S : f[x] = g[x],
         NEW U, NEW V, SUBSET S \subseteq U, SUBSET S \subseteq V,
         NEW a, NEW b, Tabled(a, f, U), Tabled(b, g, V)
  PROVE  a[S] = b[S]
<1> DEFINE Apart == {Cardinality(s) : s \in {t \in SUBSET S : a[t] # b[t]}}
<1>1. \A s \in SUBSET S :
        /\ a[s] = IF s = {} THEN 0 ELSE f[Pick(s)] + a[s \ {Pick(s)}]
        /\ b[s] = IF s = {} THEN 0 ELSE g[Pick(s)] + b[s \ {Pick(s)}]
  BY DEF Tabled
<1>2. SUFFICES ASSUME a[S] # b[S] PROVE FALSE
  OBVIOUS
<1>3. Apart # {}
  BY <1>2
<1>4. Apart \in SUBSET Nat
  BY SubsetSizes
<1>5. PICK n \in Apart : \A m \in Apart : n <= m
  <2> HIDE DEF Apart
  <2>1. QED
    BY <1>3, <1>4, LeastSuch
<1>6. PICK s \in SUBSET S : a[s] # b[s] /\ Cardinality(s) = n
  BY <1>5
<1>7. s # {}
  BY <1>1, <1>6
<1>8. Pick(s) \in s /\ s \ {Pick(s)} \in SUBSET S
  BY <1>7, PickIn
<1>9. Cardinality(s \ {Pick(s)}) = n - 1 /\ n \in Nat
  BY <1>6, <1>8, SubsetSizes
<1>10. a[s \ {Pick(s)}] = b[s \ {Pick(s)}]
  <2>1. n - 1 \notin Apart
    BY <1>4, <1>5, <1>9
  <2>2. QED
    BY <1>8, <1>9, <2>1
<1>11. QED
  BY <1>1, <1>6, <1>7, <1>8, <1>10

LEMMA SumIs ==
  ASSUME NEW S, IsFiniteSet(S), NEW f, NEW g, \A x \in S : f[x] = g[x] /\ g[x] \in Nat,
         NEW U, SUBSET S \subseteq U, NEW table, Tabled(table, g, U)
  PROVE  SumOver(f, S) = table[S] /\ SumOver(f, S) \in Nat
<1>1. PICK own \in [SUBSET S -> Nat] : Tabled(own, f, SUBSET S)
  BY TableExists
<1>2. Tabled(CHOOSE t : Tabled(t, f, SUBSET S), f, SUBSET S)
  BY <1>1
<1>3. SumOver(f, S) = own[S]
  BY <1>1, <1>2, TablesAgree DEF SumOver
<1>4. own[S] = table[S]
  BY <1>1, TablesAgree
<1>5. QED
  BY <1>1, <1>3, <1>4

LEMMA SumEmpty == ASSUME NEW f PROVE SumOver(f, {}) = 0
<1>1. PICK own \in [SUBSET {} -> Nat] : Tabled(own, f, SUBSET {})
  BY TableExists, FS_EmptySet
<1>2. Tabled(CHOOSE t : Tabled(t, f, SUBSET {}), f, SUBSET {})
  BY <1>1
<1>3. QED
  BY <1>2 DEF SumOver, Tabled

\* The first element taken may be any.
LEMMA SumInsert ==
  ASSUME NEW S, IsFiniteSet(S), NEW f, \A x \in S : f[x] \in Nat, NEW x \in S
  PROVE  SumOver(f, S) = f[x] + SumOver(f, S \ {x})
<1>1. PICK table \in [SUBSET S -> Nat] : Tabled(table, f, SUBSET S)
  BY TableExists
<1>2. \A s \in SUBSET S : table[s] \in Nat
      /\ table[s] = IF s = {} THEN 0 ELSE f[Pick(s)] + table[s \ {Pick(s)}]
  BY <1>1 DEF Tabled
<1> DEFINE Odd == {t \in SUBSET S : \E y \in t : table[t] # f[y] + table[t \ {y}]}
           Sizes == {Cardinality(t) : t \in Odd}
<1>3. Odd = {}
  <2>1. SUFFICES ASSUME Odd # {} PROVE FALSE
    OBVIOUS
  <2>2. Sizes # {} /\ Sizes \in SUBSET Nat
    BY <2>1, SubsetSizes
  <2>3. PICK n \in Sizes : \A m \in Sizes : n <= m
    <3> HIDE DEF Sizes
    <3>1. QED
      BY <2>2, LeastSuch
  <2>4. PICK t \in SUBSET S : t \in Odd /\ Cardinality(t) = n
    BY <2>3
  <2>5. PICK y \in t : table[t] # f[y] + table[t \ {y}]
    BY <2>4
  <2>6. PICK p \in t : p = Pick(t)
    BY <2>5, PickIn
  <2>7. table[t] = f[p] + table[t \ {p}]
    BY <1>2, <2>5, <2>6
  <2>8. p # y
    BY <2>5, <2>7
  <2>9. t \ {p} \in SUBSET S /\ t \ {y} \in SUBSET S /\ y \in t \ {p} /\ p \in t \ {y}
        /\ Cardinality(t \ {p}) = n - 1 /\ Cardinality(t \ {y}) = n - 1 /\ n \in Nat
    BY <2>4, <2>5, <2>6, <2>8, SubsetSizes
  <2>10. t \ {p} \notin Odd /\ t \ {y} \notin Odd
    <3>1. n - 1 \notin Sizes
      BY <2>3, <2>9
    <3>2. QED
      BY <2>9, <3>1
  <2>11. /\ table[t \ {p}] = f[y] + table[(t \ {p}) \ {y}]
         /\ table[t \ {y}] = f[p] + table[(t \ {y}) \ {p}]
    BY <2>9, <2>10
  <2>12. (t \ {p}) \ {y} = (t \ {y}) \ {p} /\ (t \ {y}) \ {p} \in SUBSET S
    OBVIOUS
  <2>13. f[p] \in Nat /\ f[y] \in Nat /\ table[(t \ {y}) \ {p}] \in Nat
    BY <1>2, <2>12
  <2>14. /\ table[t \ {p}] = f[y] + table[(t \ {y}) \ {p}]
         /\ table[t \ {y}] = f[p] + table[(t \ {y}) \ {p}]
    BY <2>11, <2>12
  <2>15. f[p] + (f[y] + table[(t \ {y}) \ {p}]) = f[y] + (f[p] + table[(t \ {y}) \ {p}])
    BY <2>13
  <2>16. QED
    BY <2>5, <2>7, <2>14, <2>15
<1>4. table[S] = f[x] + table[S \ {x}]
  BY <1>3
<1>5. SumOver(f, S) = table[S]
  BY <1>1, SumIs
<1>6. SumOver(f, S \ {x}) = table[S \ {x}]
  <2>1. IsFiniteSet(S \ {x}) /\ SUBSET (S \ {x}) \subseteq SUBSET S
    BY FS_RemoveElement
  <2>2. QED
    BY <1>1, <2>1, SumIs
<1>7. QED
  BY <1>4, <1>5, <1>6

-----------------------------------------------------------------------------
\* Of the subsets that fail, one has no smaller one among them.
LEMMA LeastBadSet ==
  ASSUME NEW S, IsFiniteSet(S), NEW Bad \in SUBSET (SUBSET S), Bad # {}
  PROVE  \E t \in Bad : \A x \in t : t \ {x} \notin Bad
<1> DEFINE Sizes == {Cardinality(t) : t \in Bad}
<1>1. Sizes # {} /\ Sizes \in SUBSET Nat
  BY SubsetSizes
<1>2. PICK n \in Sizes : \A m \in Sizes : n <= m
  <2> HIDE DEF Sizes
  <2>1. QED
    BY <1>1, LeastSuch
<1>3. PICK t \in Bad : Cardinality(t) = n
  BY <1>2
<1>4. ASSUME NEW x \in t, t \ {x} \in Bad PROVE FALSE
  <2>1. Cardinality(t \ {x}) = n - 1 /\ n \in Nat
    BY <1>1, <1>3, SubsetSizes
  <2>2. n <= n - 1
    BY <1>2, <1>4, <2>1
  <2>3. QED
    BY <2>1, <2>2
<1>5. QED
  BY <1>3, <1>4

LEMMA SumNat ==
  ASSUME NEW S, IsFiniteSet(S), NEW f, \A x \in S : f[x] \in Nat
  PROVE  SumOver(f, S) \in Nat
<1>1. PICK table \in [SUBSET S -> Nat] : Tabled(table, f, SUBSET S)
  BY TableExists
<1>2. QED
  BY <1>1, SumIs

LEMMA SumAtLeast ==
  ASSUME NEW S, IsFiniteSet(S), NEW f, NEW c \in Nat, \A x \in S : f[x] \in Nat /\ f[x] >= c
  PROVE  SumOver(f, S) >= c * Cardinality(S)
<1> DEFINE Bad == {t \in SUBSET S : ~(SumOver(f, t) >= c * Cardinality(t))}
<1>1. SUFFICES ASSUME Bad # {} PROVE FALSE
  OBVIOUS
<1>2. PICK t \in Bad : \A x \in t : t \ {x} \notin Bad
  <2>1. Bad \in SUBSET (SUBSET S)
    OBVIOUS
  <2> HIDE DEF Bad
  <2>2. QED
    BY <1>1, <2>1, LeastBadSet
<1>3. t # {}
  <2>1. SumOver(f, {}) = 0 /\ Cardinality({}) = 0 /\ c * 0 = 0
    BY SumEmpty, FS_EmptySet
  <2>2. QED
    BY <1>2, <2>1
<1>4. PICK x \in t : TRUE
  BY <1>3
<1>5. /\ IsFiniteSet(t) /\ Cardinality(t) \in Nat /\ Cardinality(t \ {x}) = Cardinality(t) - 1
      /\ Cardinality(t) # 0 /\ IsFiniteSet(t \ {x})
  BY <1>4, SubsetSizes
<1>6. SumOver(f, t) = f[x] + SumOver(f, t \ {x})
  BY <1>4, <1>5, SumInsert
<1>7. SumOver(f, t \ {x}) >= c * (Cardinality(t) - 1) /\ SumOver(f, t \ {x}) \in Nat
  BY <1>2, <1>4, <1>5, SumNat
<1>8. c * Cardinality(t) = c + c * (Cardinality(t) - 1)
  <2>1. \A n \in Nat : c * n = c + c * (n - 1)
    OBVIOUS
  <2>2. QED
    BY <1>5, <2>1
<1>9. c * (Cardinality(t) - 1) \in Nat
  BY <1>5
<1>10. f[x] \in Nat /\ f[x] >= c
  BY <1>2, <1>4
<1>11. QED
  BY <1>2, <1>6, <1>7, <1>8, <1>9, <1>10

-----------------------------------------------------------------------------
(* Clip *)

Sound == [energy : Nat, at : Nat]

EnergyIn(samples, S) == MapThenSumSet(LAMBDA i : samples[i].energy, S)

Energies(samples) == [i \in DOMAIN samples |-> samples[i].energy]

LEMMA EnergySum ==
  ASSUME NEW samples \in Seq(Sound), NEW S \in SUBSET DOMAIN samples, IsFiniteSet(S)
  PROVE  EnergyIn(samples, S) = SumOver(Energies(samples), S)
<1> DEFINE f == [i \in S |-> samples[i].energy]
<1>1. \A x \in S : f[x] = Energies(samples)[x] /\ Energies(samples)[x] = samples[x].energy /\ f[x] \in Nat
  <2>1. \A x \in DOMAIN samples : samples[x] \in Sound
    BY ElementOfSeq, LenProperties
  <2>2. \A x \in DOMAIN samples : samples[x].energy \in Nat
    BY <2>1 DEF Sound
  <2>3. QED
    BY <2>2 DEF Energies
<1>2. PICK own \in [SUBSET S -> Nat] : Tabled(own, Energies(samples), SUBSET S)
  BY <1>1, TableExists
<1> DEFINE By(table) == table = [s \in SUBSET S |-> IF s = {} THEN 0
                            ELSE samples[CHOOSE x \in s : TRUE].energy + table[s \ {CHOOSE x \in s : TRUE}]]
<1>3. ASSUME NEW table PROVE By(table) <=> Tabled(table, Energies(samples), SUBSET S)
  <2>1. \A s \in SUBSET S : s # {} => Energies(samples)[Pick(s)] = samples[Pick(s)].energy
    BY <1>1, PickIn
  <2>2. QED
    BY <2>1, SMTT(30) DEF Tabled, Pick
<1>4. EnergyIn(samples, S) = (CHOOSE table : By(table))[S]
  BY DEF EnergyIn, MapThenSumSet, MapThenFoldSet
<1>5. Tabled(CHOOSE table : By(table), Energies(samples), SUBSET S)
  <2>1. By(own)
    BY <1>2, <1>3
  <2>2. By(CHOOSE table : By(table))
    BY <2>1
  <2>3. QED
    BY <1>3, <2>2
<1>6. \A x \in S : Energies(samples)[x] \in Nat
  BY <1>1
<1> HIDE DEF f, By
<1>7. SumOver(Energies(samples), S) = (CHOOSE table : By(table))[S]
  BY <1>5, <1>6, SumIs
<1>8. QED
  BY <1>4, <1>7

LEMMA SampleOf ==
  ASSUME NEW samples \in Seq(Sound), NEW i \in DOMAIN samples
  PROVE  samples[i] \in Sound /\ samples[i].energy \in Nat /\ samples[i].at \in Nat
<1>1. samples[i] \in Sound
  BY ElementOfSeq, LenProperties
<1>2. QED
  BY <1>1 DEF Sound

\* A stretch of loud samples has loud energies.
LEMMA LoudEnergies ==
  ASSUME NEW samples \in Seq(Sound), NEW a \in Nat, NEW n \in Nat, a + n <= Len(samples),
         NEW c \in Nat, \A i \in a + 1..a + n : samples[i].energy >= c
  PROVE  EnergyIn(samples, a + 1..a + n) \in Nat /\ EnergyIn(samples, a + 1..a + n) >= c * n
<1> DEFINE S == a + 1..a + n
<1>1. S \in SUBSET DOMAIN samples
  BY LenProperties
<1>2. IsFiniteSet(S) /\ Cardinality(S) = n
  <2>1. PICK b \in Int, e \in Int : b = a + 1 /\ e = a + n
    OBVIOUS
  <2>2. IsFiniteSet(b..e) /\ Cardinality(b..e) = (IF b > e THEN 0 ELSE e - b + 1)
    BY FS_Interval
  <2>3. QED
    BY <2>1, <2>2
<1>3. \A x \in S : Energies(samples)[x] \in Nat /\ Energies(samples)[x] >= c
  <2>1. SUFFICES ASSUME NEW x \in S PROVE Energies(samples)[x] \in Nat /\ Energies(samples)[x] >= c
    OBVIOUS
  <2>2. x \in DOMAIN samples
    BY <1>1
  <2>3. QED
    BY <2>2, SampleOf DEF Energies
<1> HIDE DEF S
<1>4. SumOver(Energies(samples), S) \in Nat /\ SumOver(Energies(samples), S) >= c * n
  BY <1>2, <1>3, SumNat, SumAtLeast
<1>5. EnergyIn(samples, S) = SumOver(Energies(samples), S)
  BY <1>1, <1>2, EnergySum
<1>6. QED
  BY <1>4, <1>5 DEF S

LEMMA LoudIsNotSilent ==
  ASSUME NEW samples \in Seq(Sound), NEW a \in Nat, NEW n \in Nat \ {0}, a + n <= Len(samples),
         NEW threshold \in Nat, \A i \in a + 1..a + n : samples[i].energy > threshold
  PROVE  ~Silent(samples, a, n, threshold)
<1>1. \A i \in a + 1..a + n : samples[i].energy >= threshold + 1
  <2>1. SUFFICES ASSUME NEW i \in a + 1..a + n PROVE samples[i].energy >= threshold + 1
    OBVIOUS
  <2>2. i \in DOMAIN samples
    BY LenProperties
  <2>3. QED
    BY <2>2, SampleOf
<1>2. (threshold + 1) * n = threshold * n + n /\ threshold * n \in Nat
  OBVIOUS
<1> DEFINE sum == EnergyIn(samples, a + 1..a + n)
<1>3. sum \in Nat /\ sum >= (threshold + 1) * n
  <2>1. \E c \in Nat : c = threshold + 1
    OBVIOUS
  <2>2. PICK c \in Nat : c = threshold + 1
    BY <2>1
  <2>3. \A i \in a + 1..a + n : samples[i].energy >= c
    BY <1>1, <2>2
  <2>4. sum \in Nat /\ sum >= c * n
    BY <2>3, LoudEnergies
  <2>5. QED
    BY <2>2, <2>4
<1>4. Silent(samples, a, n, threshold) <=> sum <= threshold * n
  BY DEF Silent, EnergyIn
<1> HIDE DEF sum
<1>5. QED
  BY <1>2, <1>3, <1>4

\* The greatest of a bounded set.
LEMMA GreatestSuch ==
  ASSUME NEW bound \in Nat, NEW S \in SUBSET (0..bound), S # {}
  PROVE  Max(S) \in S /\ \A m \in S : m <= Max(S)
<1> DEFINE D == {bound - m : m \in S}
<1>1. D # {} /\ D \in SUBSET Nat
  <2>1. \A m \in S : bound - m \in Nat
    OBVIOUS
  <2>2. QED
    BY <2>1
<1>2. PICK d \in D : \A e \in D : d <= e
  <2> HIDE DEF D
  <2>1. QED
    BY <1>1, LeastSuch
<1>3. PICK m \in S : d = bound - m
  BY <1>2
<1>4. \A n \in S : n <= m
  <2>1. SUFFICES ASSUME NEW n \in S PROVE n <= m
    OBVIOUS
  <2>2. bound - m <= bound - n
    BY <1>2, <1>3
  <2>3. QED
    BY <2>2
<1>5. QED
  BY <1>4 DEF Max

\* Counting in steps of len one meets every stretch of that length.
LEMMA MultipleWithin ==
  ASSUME NEW a \in Nat, NEW len \in Nat \ {0}
  PROVE  \E q \in Nat : a <= q * len /\ q * len < a + len
<1> DEFINE Past == {n \in Nat : a <= n * len}
<1>1. a \in Past
  <2>1. \A m \in Nat \ {0} : a <= a * m
    OBVIOUS
  <2>2. QED
    BY <2>1
<1>2. PICK q \in Past : \A n \in Past : q <= n
  <2>1. Past # {} /\ Past \in SUBSET Nat
    BY <1>1
  <2> HIDE DEF Past
  <2>2. QED
    BY <2>1, LeastSuch
<1>3. q = 0 \/ (q - 1 \in Nat /\ q - 1 \notin Past)
  BY <1>2
<1>4. (q - 1) * len = q * len - len
  OBVIOUS
<1>5. QED
  BY <1>2, <1>3, <1>4

LEMMA MultiplesDivide ==
  ASSUME NEW q \in Nat, NEW len \in Nat \ {0}
  PROVE  (q * len) % len = 0
OBVIOUS

-----------------------------------------------------------------------------
(* Trimming: both scans end, and stop at the latest where a window is loud. *)

LEMMA FrontFound ==
  ASSUME NEW samples \in Seq(Sound), NEW len \in Nat \ {0}, len <= Len(samples), NEW threshold
  PROVE  LET Stops(g) == g % len = 0 /\ (g + len <= Len(samples) => ~Silent(samples, g, len, threshold))
             from == FrontOf(samples, len, threshold)
         IN  from \in 0..Len(samples) /\ \A g \in 0..Len(samples) : Stops(g) => from <= g
<1> DEFINE Stops(g) == g % len = 0 /\ (g + len <= Len(samples) => ~Silent(samples, g, len, threshold))
           S == {g \in 0..Len(samples) : Stops(g)}
<1>1. Len(samples) \in Nat
  BY LenProperties
<1>2. PICK q \in Nat : Len(samples) + 1 - len <= q * len /\ q * len < Len(samples) + 1 - len + len
  <2>1. PICK a \in Nat : a = Len(samples) + 1 - len
    BY <1>1
  <2>2. QED
    BY <2>1, MultipleWithin
<1>3. q * len \in 0..Len(samples) /\ q * len + len > Len(samples)
  BY <1>1, <1>2
<1>4. (q * len) % len = 0
  BY MultiplesDivide
<1>5. q * len \in S
  BY <1>1, <1>3, <1>4
<1>6. S \in SUBSET Nat /\ S # {}
  BY <1>1, <1>5
<1>7. FrontOf(samples, len, threshold) = Min(S)
  BY DEF FrontOf
<1>8. Min(S) \in S /\ \A g \in S : Min(S) <= g
  <2> HIDE DEF S
  <2>1. QED
    BY <1>6, LeastFound
<1>9. QED
  BY <1>7, <1>8

LEMMA BackFound ==
  ASSUME NEW samples \in Seq(Sound), NEW len \in Nat \ {0}, len <= Len(samples), NEW threshold,
         NEW from \in Nat
  PROVE  LET Stops(h) == /\ (Len(samples) - h) % len = 0
                         /\ h >= len => ~Silent(samples, h - len, len, threshold)
             to == BackOf(samples, from, len, threshold)
         IN  to \in 0..Len(samples) /\ \A h \in 0..Len(samples) : Stops(h) => h <= to
<1> DEFINE Meets(h) == /\ (Len(samples) - h) % len = 0
                       /\ h >= from + len => ~Silent(samples, h - len, len, threshold)
           S == {h \in 0..Len(samples) : Meets(h)}
<1>1. Len(samples) \in Nat
  BY LenProperties
<1>2. PICK q \in Nat : Len(samples) + 1 - len <= q * len /\ q * len < Len(samples) + 1 - len + len
  <2>1. PICK a \in Nat : a = Len(samples) + 1 - len
    BY <1>1
  <2>2. QED
    BY <2>1, MultipleWithin
<1>3. Len(samples) - q * len \in 0..Len(samples) /\ Len(samples) - q * len < from + len
      /\ Len(samples) - (Len(samples) - q * len) = q * len
  BY <1>1, <1>2
<1>4. (q * len) % len = 0
  BY MultiplesDivide
<1>5. Len(samples) - q * len \in S
  BY <1>1, <1>3, <1>4
<1>6. S \in SUBSET (0..Len(samples)) /\ S # {}
  BY <1>1, <1>5
<1>7. BackOf(samples, from, len, threshold) = Max(S)
  BY DEF BackOf
<1>8. Max(S) \in S /\ \A h \in S : h <= Max(S)
  <2> HIDE DEF S
  <2>1. QED
    BY <1>1, <1>6, GreatestSuch
<1>9. ASSUME NEW h \in 0..Len(samples), (Len(samples) - h) % len = 0,
             h >= len => ~Silent(samples, h - len, len, threshold)
      PROVE  h \in S
  BY <1>1, <1>9
<1>10. QED
  BY <1>7, <1>8, <1>9

\* What is left is a part, which begins no later and ends no earlier than where a
\* window is loud.
LEMMA Trimmed ==
  ASSUME NEW samples \in Seq(Sound), NEW atRate \in Nat \ {0}, NEW threshold,
         TrimSilence(samples, atRate, threshold) # samples
  PROVE  LET len == WindowLen * atRate
         IN  \E from, to \in 0..Len(samples) :
               /\ from < to /\ TrimSilence(samples, atRate, threshold) = SubSeq(samples, from + 1, to)
               /\ \A g \in 0..Len(samples) :
                    g % len = 0 /\ (g + len <= Len(samples) => ~Silent(samples, g, len, threshold)) => from <= g
               /\ \A h \in 0..Len(samples) :
                    (Len(samples) - h) % len = 0 /\ (h >= len => ~Silent(samples, h - len, len, threshold)) => h <= to
<1> DEFINE len == WindowLen * atRate
           from == FrontOf(samples, len, threshold)
           to == BackOf(samples, from, len, threshold)
<1>1. len \in Nat \ {0}
  BY ClipAssumption
<1>2. /\ len <= Len(samples) /\ ~(from >= to)
      /\ TrimSilence(samples, atRate, threshold) = SubSeq(samples, from + 1, to)
  <2>1. ~(Len(samples) < len) /\ ~(from >= to)
        /\ TrimSilence(samples, atRate, threshold) = SubSeq(samples, from + 1, to)
    BY Zenon DEF TrimSilence
  <2>2. QED
    BY <1>1, <2>1, LenProperties
<1> HIDE DEF len
<1>3. /\ from \in 0..Len(samples)
      /\ \A g \in 0..Len(samples) :
           g % len = 0 /\ (g + len <= Len(samples) => ~Silent(samples, g, len, threshold)) => from <= g
  BY <1>1, <1>2, FrontFound
<1>4. from \in Nat
  BY <1>3, LenProperties
<1> HIDE DEF from
<1>5. /\ to \in 0..Len(samples)
      /\ \A h \in 0..Len(samples) :
           (Len(samples) - h) % len = 0 /\ (h >= len => ~Silent(samples, h - len, len, threshold)) => h <= to
  BY <1>1, <1>2, <1>4, BackFound
<1> HIDE DEF to
<1>6. from < to
  BY <1>2, <1>3, <1>5, LenProperties
<1>7. QED
  BY <1>2, <1>3, <1>5, <1>6 DEF len

-----------------------------------------------------------------------------
(* The audio on its way.                                                    *)

Spacing == rate \div audioRate
Window == WindowLen * rate
End == audio[1].at + Len(audio) * Spacing

\* What is still to do, and the rate reached.
StepsFit ==
  \/ source = "capture" /\ \/ toDo = <<"resample", "trim">> /\ audioRate = rate
                           \/ toDo \in {<<"trim">>, <<>>} /\ audioRate = 1
  \/ source = "file" /\ \/ toDo \in {<<"decode", "resample">>, <<"resample">>} /\ audioRate = rate
                        \/ toDo = <<>> /\ audioRate = 1
  \/ /\ source = "link" /\ rate = 1 /\ audioRate = 1
     /\ toDo \in {<<"download", "decode", "resample">>, <<"decode", "resample">>, <<"resample">>, <<>>}
  \/ source = "cli" /\ toDo \in {<<"decode", "trim">>, <<"trim">>, <<>>} /\ audioRate = rate

Untouched == toDo = AudioSteps[source] => Len(audio) = Len(recording) /\ audio[1].at = 0

\* One sample every Spacing of the recording, loud where all of those are.
EvenlySpaced ==
  \A i \in DOMAIN audio :
    /\ audio[i].at = audio[1].at + (i - 1) * Spacing
    /\ audio[i].at + Spacing <= Len(recording)
    /\ (\A j \in audio[i].at + 1..audio[i].at + Spacing : recording[j] > Loudest)
         => audio[i].energy > Loudest

\* Trimming has come no further than a window into a stretch of sound, at either end.
Covered ==
  audio # <<>> =>
    \A from \in Speaks :
      /\ audio[1].at + 1 <= from + Window
      /\ End >= from + Window + (IF source = "capture" THEN 1 ELSE 2 - Spacing)

RowsFit ==
  rows # {} => /\ toDo = <<>>
               /\ rows = {[shown |-> i - 1, at |-> audio[i].at] : i \in DOMAIN audio}

ClipConstants ==
  /\ source \in Sources /\ recording \in Seq(Nat) /\ rate \in Rates
  /\ vadThreshold \in VadThresholds /\ clipStart \in {0} \cup ClipStarts
  /\ clipStart < Len(recording)

ClipInv ==
  /\ ClipConstants /\ StepsFit /\ audio \in Seq(Sound) /\ rows \subseteq [shown : Nat, at : Nat]
  /\ Untouched /\ EvenlySpaced /\ Covered /\ RowsFit

LEMMA Spacings ==
  ASSUME ClipConstants, StepsFit
  PROVE  /\ rate \in Nat \ {0} /\ audioRate \in Nat \ {0} /\ WindowLen \in Nat \ {0}
         /\ audioRate = rate => Spacing = 1
         /\ audioRate = 1 => Spacing = rate
         /\ audioRate \in {1, rate} /\ Spacing \in Nat \ {0}
         /\ audioRate * Spacing = rate
         /\ Window \in Nat \ {0} /\ Window >= rate
<1>1. /\ rate \in Nat \ {0} /\ WindowLen \in Nat \ {0}
  BY ClipAssumption DEF ClipConstants
<1>2. audioRate \in {1, rate}
  BY DEF StepsFit
<1>3. rate \div rate = 1 /\ rate \div 1 = rate
  BY <1>1
<1>4. Window \in Nat \ {0} /\ Window >= rate
  BY <1>1 DEF Window
<1>5. QED
  BY <1>1, <1>2, <1>3, <1>4 DEF Spacing

LEMMA Thresholds ==
  ASSUME ClipConstants
  PROVE  /\ Loudest \in Nat
         /\ source \in {"capture", "cli"} => vadThreshold <= Loudest
         /\ source \in {"file", "link", "cli"} => SilenceThreshold <= Loudest
         /\ vadThreshold \in Nat /\ SilenceThreshold \in Nat
<1>1. vadThreshold \in Nat /\ SilenceThreshold \in Nat
  BY ClipAssumption DEF ClipConstants
<1>2. /\ Max({SilenceThreshold, vadThreshold}) \in {SilenceThreshold, vadThreshold}
      /\ vadThreshold <= Max({SilenceThreshold, vadThreshold})
      /\ SilenceThreshold <= Max({SilenceThreshold, vadThreshold})
  <2>1. \E bound \in Nat : SilenceThreshold <= bound /\ vadThreshold <= bound
    BY <1>1
  <2>2. QED
    BY <1>1, <2>1, GreatestSuch
<1>3. QED
  BY <1>1, <1>2 DEF Loudest, ClipConstants, Sources

LEMMA SpeaksWithin ==
  ASSUME ClipConstants, NEW from \in Speaks
  PROVE  /\ from \in Nat /\ clipStart <= from /\ from + 2 * Window <= Len(recording)
         /\ \A j \in from + 1..from + 2 * Window : recording[j] > Loudest
<1>1. rate \in Nat /\ WindowLen \in Nat /\ clipStart \in Nat
  BY ClipAssumption DEF ClipConstants
<1>2. TwoWindows = 2 * Window
  BY <1>1 DEF TwoWindows, Window
<1>3. Window \in Nat
  BY <1>1 DEF Window
<1>4. Len(recording) \in Nat
  BY LenProperties DEF ClipConstants
<1>5. QED
  BY <1>1, <1>2, <1>3, <1>4 DEF Speaks

-----------------------------------------------------------------------------
Same == UNCHANGED <<source, recording, rate, vadThreshold, clipStart>>

LEMMA SameStays ==
  ASSUME Same
  PROVE  /\ ClipConstants' <=> ClipConstants
         /\ Loudest' = Loudest /\ Window' = Window /\ Speaks' = Speaks
         /\ audioRate' = audioRate => Spacing' = Spacing
BY DEF Same, ClipConstants, Loudest, Window, Speaks, TwoWindows, Spacing

\* A part of the audio is spaced as the whole.
LEMMA PartSpaced ==
  ASSUME ClipInv, Same, audioRate' = audioRate, NEW from \in 0..Len(audio), NEW to \in 0..Len(audio),
         from < to, audio' = SubSeq(audio, from + 1, to)
  PROVE  /\ audio' \in Seq(Sound) /\ EvenlySpaced' /\ audio' # <<>> /\ Len(audio') = to - from
         /\ audio'[1].at = audio[1].at + from * Spacing
         /\ End' = audio[1].at + to * Spacing
<1>1. /\ Spacing \in Nat \ {0} /\ Spacing' = Spacing /\ Loudest' = Loudest /\ recording' = recording
  BY Spacings, SameStays DEF ClipInv, Same
<1>2. audio \in Seq(Sound) /\ Len(audio) \in Nat /\ EvenlySpaced
  BY LenProperties DEF ClipInv
<1>3. /\ audio' \in Seq(Sound) /\ Len(audio') = to - from
      /\ \A i \in 1..to - from : audio'[i] = audio[from + i]
  BY <1>2, SubSeqProperties
<1>4. \A i \in 1..to - from : from + i \in DOMAIN audio
  BY <1>2
<1>5. audio[1].at \in Nat
  <2>1. 1 \in DOMAIN audio
    BY <1>2
  <2>2. QED
    BY <1>2, <2>1, SampleOf
<1>6. ASSUME NEW i \in 1..to - from
      PROVE  /\ audio'[i].at = audio[1].at + ((from + i) - 1) * Spacing
             /\ audio'[i].at + Spacing <= Len(recording)
             /\ (\A j \in audio'[i].at + 1..audio'[i].at + Spacing : recording[j] > Loudest)
                  => audio'[i].energy > Loudest
  BY <1>2, <1>3, <1>4 DEF EvenlySpaced
<1>7. audio'[1].at = audio[1].at + from * Spacing
  <2>1. 1 \in 1..to - from /\ (from + 1) - 1 = from
    OBVIOUS
  <2>2. QED
    BY <1>6, <2>1
<1>8. \A i \in 1..to - from : audio'[i].at = audio'[1].at + (i - 1) * Spacing
  <2>1. SUFFICES ASSUME NEW i \in 1..to - from PROVE audio'[i].at = audio'[1].at + (i - 1) * Spacing
    OBVIOUS
  <2>2. ((from + i) - 1) * Spacing = from * Spacing + (i - 1) * Spacing
    BY <1>1
  <2>3. from * Spacing \in Nat /\ (i - 1) * Spacing \in Nat
    BY <1>1
  <2>4. QED
    BY <1>5, <1>6, <1>7, <2>2, <2>3
<1>9. DOMAIN audio' = 1..to - from
  BY <1>3, LenProperties
<1>10. EvenlySpaced'
  <2>1. \A i \in DOMAIN audio' :
          /\ audio'[i].at = audio'[1].at + (i - 1) * Spacing'
          /\ audio'[i].at + Spacing' <= Len(recording')
          /\ (\A j \in audio'[i].at + 1..audio'[i].at + Spacing' : recording'[j] > Loudest')
               => audio'[i].energy > Loudest'
    BY <1>1, <1>6, <1>8, <1>9
  <2>2. QED
    BY <2>1 DEF EvenlySpaced
<1>11. End' = audio[1].at + to * Spacing
  <2>1. End' = audio'[1].at + (to - from) * Spacing
    BY <1>1, <1>3 DEF End
  <2>2. to * Spacing = from * Spacing + (to - from) * Spacing
    BY <1>1
  <2>3. from * Spacing \in Nat /\ (to - from) * Spacing \in Nat
    BY <1>1
  <2>4. \A a, b, c \in Nat : (a + b) + c = a + (b + c)
    OBVIOUS
  <2>5. End' = (audio[1].at + from * Spacing) + (to - from) * Spacing
    BY <1>7, <2>1
  <2>6. End' = audio[1].at + (from * Spacing + (to - from) * Spacing)
    BY <1>5, <2>3, <2>4, <2>5
  <2>7. QED
    BY <2>2, <2>6
<1>12. audio' # <<>>
  BY <1>3
<1>13. QED
  BY <1>3, <1>7, <1>10, <1>11, <1>12

LEMMA Within ==
  ASSUME NEW a \in Nat, NEW b \in Nat, NEW o \in Nat, NEW s \in Nat, NEW w \in Nat, NEW t \in Nat,
         NEW from \in Nat, a <= b, b + s <= a + w, from <= o + a, o + a + w <= from + t
  PROVE  from <= o + b /\ o + b + s <= from + t
OBVIOUS

\* A window that lies within a stretch of sound is not silent.
LEMMA WindowIsLoud ==
  ASSUME ClipInv, NEW threshold \in Nat, threshold <= Loudest, NEW from \in Speaks,
         NEW g \in Nat, g + WindowLen * audioRate <= Len(audio),
         from <= audio[1].at + g * Spacing,
         audio[1].at + g * Spacing + Window <= from + 2 * Window
  PROVE  ~Silent(audio, g, WindowLen * audioRate, threshold)
<1> DEFINE len == WindowLen * audioRate
<1>1. /\ Spacing \in Nat \ {0} /\ len \in Nat \ {0} /\ Loudest \in Nat /\ Window \in Nat
      /\ audioRate \in Nat \ {0} /\ WindowLen \in Nat \ {0} /\ rate \in Nat \ {0}
      /\ audioRate * Spacing = rate
  <2>1. /\ Spacing \in Nat \ {0} /\ Loudest \in Nat /\ Window \in Nat
        /\ audioRate \in Nat \ {0} /\ WindowLen \in Nat \ {0} /\ rate \in Nat \ {0}
        /\ audioRate * Spacing = rate
    BY Spacings, Thresholds DEF ClipInv
  <2>2. len \in Nat \ {0}
    BY <2>1
  <2>3. QED
    BY <2>1, <2>2
<1>2. len * Spacing = Window
  <2>1. (WindowLen * audioRate) * Spacing = WindowLen * (audioRate * Spacing)
    BY <1>1
  <2>2. QED
    BY <1>1, <2>1 DEF Window
<1>3. audio \in Seq(Sound) /\ Len(audio) \in Nat /\ EvenlySpaced /\ DOMAIN audio = 1..Len(audio)
  BY LenProperties DEF ClipInv
<1>4. /\ from \in Nat /\ \A j \in from + 1..from + 2 * Window : recording[j] > Loudest
  BY SpeaksWithin DEF ClipInv
<1> HIDE DEF len
<1>5. ASSUME NEW i \in g + 1..g + len PROVE audio[i].energy > threshold
  <2>1. i \in DOMAIN audio /\ i \in Nat /\ 1 \in DOMAIN audio
    BY <1>1, <1>3, <1>5 DEF len
  <2>2. audio[1].at \in Nat /\ audio[i].at \in Nat /\ audio[i].energy \in Nat
    BY <1>3, <2>1, SampleOf
  <2>3. audio[i].at = audio[1].at + (i - 1) * Spacing
    BY <1>3, <2>1 DEF EvenlySpaced
  <2>4. (i - 1) * Spacing >= g * Spacing
    <3>1. \A a, b \in Nat : a <= b => a * Spacing <= b * Spacing
      BY <1>1
    <3>2. i - 1 \in Nat /\ g <= i - 1
      <4>1. g \in Nat /\ len \in Nat /\ i \in g + 1..g + len
        BY <1>1, <1>5
      <4>2. QED
        BY <4>1
    <3>3. QED
      BY <3>1, <3>2
  <2>5. (i - 1) * Spacing + Spacing <= g * Spacing + Window
    <3>1. \A a, b \in Nat : a <= b => a * Spacing <= b * Spacing
      BY <1>1
    <3>2. i <= g + len /\ i * Spacing <= (g + len) * Spacing
      BY <1>1, <1>5, <2>1, <3>1, SMTT(30)
    <3>3. (g + len) * Spacing = g * Spacing + len * Spacing /\ (i - 1) * Spacing + Spacing = i * Spacing
      BY <1>1, <2>1
    <3>4. QED
      BY <1>1, <1>2, <3>2, <3>3
  <2>6. g * Spacing \in Nat /\ (i - 1) * Spacing \in Nat
    BY <1>1, <2>1, SMTT(30)
  <2>7. audio[i].at >= from /\ audio[i].at + Spacing <= from + 2 * Window
    <3>1. PICK a \in Nat, b \in Nat : a = g * Spacing /\ b = (i - 1) * Spacing
      BY <2>6
    <3>2. audio[i].at = audio[1].at + b /\ b >= a /\ b + Spacing <= a + Window
      BY <2>3, <2>4, <2>5, <3>1
    <3>3. from <= audio[1].at + a /\ audio[1].at + a + Window <= from + 2 * Window
      BY <3>1
    <3>4. 2 * Window \in Nat
      BY <1>1
    <3>5. PICK w \in Nat, t \in Nat, o \in Nat, s \in Nat :
            w = Window /\ t = 2 * Window /\ o = audio[1].at /\ s = Spacing
      BY <1>1, <2>2, <3>4
    <3>6. /\ from \in Nat /\ a <= b /\ b + s <= a + w /\ from <= o + a /\ o + a + w <= from + t
          /\ audio[i].at = o + b
      BY <1>4, <3>1, <3>2, <3>3, <3>5
    <3>7. from <= o + b /\ o + b + s <= from + t
      BY <3>6, Within
    <3>8. QED
      BY <3>5, <3>6, <3>7
  <2>8. \A j \in audio[i].at + 1..audio[i].at + Spacing : recording[j] > Loudest
    <3>1. \A j \in audio[i].at + 1..audio[i].at + Spacing : j \in from + 1..from + 2 * Window
      BY <1>1, <1>4, <2>2, <2>7, SMTT(30)
    <3>2. QED
      BY <1>4, <3>1
  <2>9. audio[i].energy > Loudest
    BY <1>3, <2>1, <2>8 DEF EvenlySpaced
  <2>10. QED
    BY <1>1, <2>2, <2>9
<1>6. QED
  BY <1>1, <1>3, <1>5, LoudIsNotSilent DEF len

-----------------------------------------------------------------------------
\* The numbers of the audio at hand.
LEMMA AudioNumbers ==
  ASSUME ClipInv, audio # <<>>
  PROVE  /\ Spacing \in Nat \ {0} /\ Window \in Nat \ {0} /\ WindowLen * audioRate \in Nat \ {0}
         /\ (WindowLen * audioRate) * Spacing = Window
         /\ Len(audio) \in Nat \ {0} /\ audio[1].at \in Nat
         /\ Len(audio) * Spacing \in Nat /\ End = audio[1].at + Len(audio) * Spacing
         /\ \A a, b \in Int : a <= b => a * Spacing <= b * Spacing
<1>1. /\ Spacing \in Nat \ {0} /\ Window \in Nat \ {0}
      /\ audioRate \in Nat \ {0} /\ WindowLen \in Nat \ {0} /\ rate \in Nat \ {0}
      /\ audioRate * Spacing = rate
  BY Spacings DEF ClipInv
<1>2. (WindowLen * audioRate) * Spacing = Window
  <2>1. (WindowLen * audioRate) * Spacing = WindowLen * (audioRate * Spacing)
    BY <1>1
  <2>2. QED
    BY <1>1, <2>1 DEF Window
<1>3. WindowLen * audioRate \in Nat \ {0}
  BY <1>1
<1>4. Len(audio) \in Nat \ {0} /\ 1 \in DOMAIN audio
  BY LenProperties, EmptySeq DEF ClipInv
<1>5. audio[1].at \in Nat
  BY <1>4, SampleOf DEF ClipInv
<1>6. Len(audio) * Spacing \in Nat
  BY <1>1, <1>4
<1>7. \A a, b \in Int : a <= b => a * Spacing <= b * Spacing
  BY <1>1
<1>8. QED
  BY <1>1, <1>2, <1>3, <1>4, <1>5, <1>6, <1>7 DEF End

\* Where the front scan stops at the latest.
LEMMA FrontStops ==
  ASSUME ClipInv, audio # <<>>, NEW threshold \in Nat, threshold <= Loudest, NEW from \in Speaks,
         audio[1].at + 1 <= from + Window, End >= from + Window + 1
  PROVE  \E g \in 0..Len(audio) :
           /\ g % (WindowLen * audioRate) = 0
           /\ g + WindowLen * audioRate <= Len(audio) => ~Silent(audio, g, WindowLen * audioRate, threshold)
           /\ audio[1].at + g * Spacing + 1 <= from + Window
<1> DEFINE len == WindowLen * audioRate
           o == audio[1].at
<1>1. /\ Spacing \in Nat \ {0} /\ Window \in Nat \ {0} /\ len \in Nat \ {0} /\ len * Spacing = Window
      /\ Len(audio) \in Nat \ {0} /\ o \in Nat
      /\ End = o + Len(audio) * Spacing /\ Len(audio) * Spacing \in Nat
      /\ \A a, b \in Int : a <= b => a * Spacing <= b * Spacing
  BY AudioNumbers
<1>2. from \in Nat
  BY SpeaksWithin DEF ClipInv
<1> HIDE DEF len, o
<1>3. PICK q \in Nat : from <= o + q * Window /\ o + q * Window + 1 <= from + Window
  <2>1. CASE from <= o
    <3>1. 0 * Window = 0
      BY <1>1
    <3>2. from <= o + 0 * Window /\ o + 0 * Window + 1 <= from + Window
      BY <1>1, <1>2, <2>1, <3>1 DEF o
    <3>3. QED
      BY <3>2
  <2>2. CASE ~(from <= o)
    <3>1. PICK a \in Nat : a = from - o
      BY <1>1, <1>2, <2>2
    <3>2. PICK q \in Nat : a <= q * Window /\ q * Window < a + Window
      BY <1>1, MultipleWithin
    <3>3. PICK m \in Nat : m = q * Window
      BY <1>1
    <3>4. from <= o + m /\ o + m + 1 <= from + Window
      BY <1>1, <1>2, <3>1, <3>2, <3>3
    <3>5. QED
      BY <3>3, <3>4
  <2>3. QED
    BY <2>1, <2>2
<1> DEFINE g == q * len
<1>4. g \in Nat /\ g % len = 0
  BY <1>1, MultiplesDivide, SMTT(30)
<1>5. g * Spacing = q * Window
  <2>1. (q * len) * Spacing = q * (len * Spacing)
    BY <1>1
  <2>2. QED
    BY <1>1, <2>1
<1> HIDE DEF g
<1>6. PICK m \in Nat : m = g * Spacing
  BY <1>1, <1>4
<1>7. from <= o + m /\ o + m + 1 <= from + Window
  BY <1>3, <1>5, <1>6
<1>8. g <= Len(audio)
  <2>1. SUFFICES ASSUME Len(audio) <= g PROVE FALSE
    BY <1>1, <1>4
  <2>2. Len(audio) * Spacing <= m
    BY <1>1, <1>4, <1>6, <2>1
  <2>3. o + Len(audio) * Spacing >= from + Window + 1
    BY <1>1
  <2>4. QED
    BY <1>1, <1>2, <1>6, <1>7, <2>2, <2>3
<1>9. ASSUME g + len <= Len(audio) PROVE ~Silent(audio, g, len, threshold)
  <2>1. o + g * Spacing + Window <= from + 2 * Window
    <3>1. PICK w \in Nat : w = Window
      BY <1>1
    <3>2. o + m + w <= from + 2 * w
      BY <1>1, <1>2, <1>6, <1>7, <3>1
    <3>3. QED
      BY <1>6, <3>1, <3>2
  <2>2. QED
    BY <1>4, <1>6, <1>7, <1>9, <2>1, WindowIsLoud DEF len, o
<1>10. QED
  BY <1>1, <1>4, <1>6, <1>7, <1>8, <1>9 DEF len, o

\* Where the scan from the back does.
LEMMA BackStops ==
  ASSUME ClipInv, audio # <<>>, NEW threshold \in Nat, threshold <= Loudest, NEW from \in Speaks,
         audio[1].at + 1 <= from + Window, End >= from + Window + 1
  PROVE  \E h \in 0..Len(audio) :
           /\ (Len(audio) - h) % (WindowLen * audioRate) = 0
           /\ h >= WindowLen * audioRate =>
                ~Silent(audio, h - WindowLen * audioRate, WindowLen * audioRate, threshold)
           /\ audio[1].at + h * Spacing >= from + Window + 1
<1> DEFINE len == WindowLen * audioRate
           o == audio[1].at
<1>1. /\ Spacing \in Nat \ {0} /\ Window \in Nat \ {0} /\ len \in Nat \ {0} /\ len * Spacing = Window
      /\ Len(audio) \in Nat \ {0} /\ o \in Nat
      /\ End = o + Len(audio) * Spacing /\ Len(audio) * Spacing \in Nat
      /\ \A a, b \in Int : a <= b => a * Spacing <= b * Spacing
  BY AudioNumbers
<1>2. from \in Nat /\ End \in Nat
  <2>1. from \in Nat
    BY SpeaksWithin DEF ClipInv
  <2> HIDE DEF o
  <2>2. End \in Nat
    BY <1>1
  <2>3. QED
    BY <2>1, <2>2
<1> HIDE DEF len, o
<1>3. PICK q \in Nat : /\ End >= q * Window + (from + Window + 1)
                       /\ End <= q * Window + (from + 2 * Window)
  <2>1. CASE End <= from + 2 * Window
    <3>1. 0 * Window = 0
      BY <1>1
    <3>2. End >= 0 * Window + (from + Window + 1) /\ End <= 0 * Window + (from + 2 * Window)
      BY <1>1, <1>2, <2>1, <3>1
    <3>3. QED
      BY <3>2
  <2>2. CASE ~(End <= from + 2 * Window)
    <3>1. PICK a \in Nat : a = End - (from + 2 * Window)
      <4>1. PICK w \in Nat, e \in Nat : w = Window /\ e = End
        BY <1>1, <1>2
      <4>2. e - (from + 2 * w) \in Nat
        BY <1>2, <2>2, <4>1
      <4>3. QED
        BY <4>1, <4>2
    <3>2. PICK q \in Nat : a <= q * Window /\ q * Window < a + Window
      BY <1>1, MultipleWithin
    <3>3. PICK m \in Nat : m = q * Window
      BY <1>1
    <3>4. End >= m + (from + Window + 1) /\ End <= m + (from + 2 * Window)
      BY <1>1, <1>2, <3>1, <3>2, <3>3
    <3>5. QED
      BY <3>3, <3>4
  <2>3. QED
    BY <2>1, <2>2
<1> DEFINE h == Len(audio) - q * len
<1>4. q * len \in Nat /\ (q * len) % len = 0
  BY <1>1, MultiplesDivide, SMTT(30)
<1>5. h \in Int /\ h <= Len(audio) /\ Len(audio) - h = q * len
  BY <1>1, <1>4
<1>6. o + h * Spacing = End - q * Window
  <2>1. (q * len) * Spacing = q * (len * Spacing)
    BY <1>1
  <2>2. (Len(audio) - q * len) * Spacing = Len(audio) * Spacing - (q * len) * Spacing
    BY <1>1, <1>4
  <2>3. h * Spacing = Len(audio) * Spacing - q * Window
    BY <1>1, <2>1, <2>2
  <2>4. q * Window \in Nat
    BY <1>1
  <2>5. QED
    BY <1>1, <2>3, <2>4
<1> HIDE DEF h
<1>7. PICK m \in Int : m = h * Spacing
  BY <1>1, <1>5
<1>8. o + m >= from + Window + 1 /\ o + m <= from + 2 * Window
  <2>1. PICK n \in Nat : n = q * Window
    BY <1>1
  <2>2. QED
    BY <1>1, <1>2, <1>3, <1>6, <1>7, <2>1, SMTT(30)
<1>9. h >= 0
  <2>1. SUFFICES ASSUME h <= 0 PROVE FALSE
    BY <1>5
  <2>2. m <= 0
    <3>1. 0 * Spacing = 0 /\ 0 \in Int
      BY <1>1
    <3>2. h * Spacing <= 0 * Spacing
      BY <1>1, <1>5, <2>1, <3>1
    <3>3. QED
      BY <1>7, <3>1, <3>2
  <2>3. o + 1 <= from + Window
    BY DEF o
  <2>4. QED
    BY <1>1, <1>2, <1>7, <1>8, <2>2, <2>3
<1>10. ASSUME h >= len PROVE ~Silent(audio, h - len, len, threshold)
  <2>1. h - len \in Nat /\ (h - len) + len <= Len(audio)
    BY <1>1, <1>5, <1>10
  <2>2. (h - len) * Spacing = m - Window
    <3>1. (h - len) * Spacing = h * Spacing - len * Spacing
      BY <1>1, <1>5
    <3>2. QED
      BY <1>1, <1>7, <3>1
  <2>3. from <= o + (m - Window) /\ o + (m - Window) + Window <= from + 2 * Window
    BY <1>1, <1>2, <1>7, <1>8, SMTT(30)
  <2>4. QED
    BY <2>1, <2>2, <2>3, WindowIsLoud DEF len, o
<1>11. h \in 0..Len(audio) /\ (Len(audio) - h) % len = 0
  BY <1>1, <1>4, <1>5, <1>9
<1>12. QED
  BY <1>7, <1>8, <1>10, <1>11 DEF len, o

-----------------------------------------------------------------------------
LEMMA TrimBounds ==
  ASSUME NEW a \in Nat, NEW b \in Nat, NEW c \in Nat, NEW d \in Nat, NEW o \in Nat, NEW w \in Nat,
         NEW p \in Nat, a <= b, c <= d, o + b + 1 <= p + w, o + c >= p + w + 1
  PROVE  o + a + 1 <= p + w /\ o + d >= p + w + 1
OBVIOUS

LEMMA TrimKeeps ==
  ASSUME ClipInv, Same, audioRate' = audioRate, NEW threshold \in Nat, threshold <= Loudest,
         source = "capture" \/ Spacing = 1,
         audio' = TrimSilence(audio, audioRate, threshold)
  PROVE  audio' \in Seq(Sound) /\ EvenlySpaced' /\ Covered'
<1>1. /\ Spacing' = Spacing /\ Speaks' = Speaks /\ Window' = Window /\ Loudest' = Loudest
      /\ source' = source /\ recording' = recording
  BY SameStays DEF Same
<1>2. CASE audio' = audio
  <2>1. EvenlySpaced'
    BY <1>1, <1>2 DEF EvenlySpaced, ClipInv
  <2>2. End' = End
    BY <1>1, <1>2 DEF End
  <2>3. Covered'
    BY <1>1, <1>2, <2>2 DEF Covered, ClipInv
  <2>4. QED
    BY <1>2, <2>1, <2>3 DEF ClipInv
<1>3. CASE audio' # audio
  <2>1. audio \in Seq(Sound) /\ audioRate \in Nat \ {0} /\ Spacing \in Nat \ {0}
    BY Spacings DEF ClipInv
  <2>2. PICK from \in 0..Len(audio), to \in 0..Len(audio) :
          /\ from < to /\ audio' = SubSeq(audio, from + 1, to)
          /\ \A g \in 0..Len(audio) :
               /\ g % (WindowLen * audioRate) = 0
               /\ g + WindowLen * audioRate <= Len(audio)
                    => ~Silent(audio, g, WindowLen * audioRate, threshold)
               => from <= g
          /\ \A h \in 0..Len(audio) :
               /\ (Len(audio) - h) % (WindowLen * audioRate) = 0
               /\ h >= WindowLen * audioRate
                    => ~Silent(audio, h - WindowLen * audioRate, WindowLen * audioRate, threshold)
               => h <= to
    <3>1. TrimSilence(audio, audioRate, threshold) # audio
      BY <1>3
    <3>2. QED
      BY <2>1, <3>1, Trimmed
  <2>3. /\ audio' \in Seq(Sound) /\ EvenlySpaced' /\ audio' # <<>>
        /\ audio'[1].at = audio[1].at + from * Spacing /\ End' = audio[1].at + to * Spacing
    BY <2>2, PartSpaced
  <2>4. audio # <<>> /\ Len(audio) \in Nat
    BY <2>1, <2>2, LenProperties, EmptySeq
  <2>5. ASSUME NEW p \in Speaks
        PROVE  audio'[1].at + 1 <= p + Window /\ End' >= p + Window + 1
    <3>1. audio[1].at + 1 <= p + Window /\ End >= p + Window + 1
      <4>1. audio[1].at + 1 <= p + Window
            /\ End >= p + Window + (IF source = "capture" THEN 1 ELSE 2 - Spacing)
        BY <2>4 DEF ClipInv, Covered
      <4>2. 2 - 1 = 1
        OBVIOUS
      <4>3. QED
        BY <4>1, <4>2
    <3>2. PICK g \in 0..Len(audio) : from <= g /\ audio[1].at + g * Spacing + 1 <= p + Window
      BY <2>2, <2>4, <3>1, FrontStops
    <3>3. PICK h \in 0..Len(audio) : h <= to /\ audio[1].at + h * Spacing >= p + Window + 1
      BY <2>2, <2>4, <3>1, BackStops
    <3>4. from * Spacing <= g * Spacing /\ h * Spacing <= to * Spacing
      BY <2>1, <2>4, <3>2, <3>3
    <3>5. PICK a \in Nat, b \in Nat, c \in Nat, d \in Nat :
            a = from * Spacing /\ b = g * Spacing /\ c = h * Spacing /\ d = to * Spacing
      BY <2>1, <2>4
    <3>6. audio[1].at \in Nat /\ Window \in Nat /\ p \in Nat
      BY <2>4, AudioNumbers, SpeaksWithin DEF ClipInv
    <3>7. audio'[1].at = audio[1].at + a /\ End' = audio[1].at + d
      BY <2>3, <3>5
    <3>8. a <= b /\ c <= d /\ audio[1].at + b + 1 <= p + Window /\ audio[1].at + c >= p + Window + 1
      BY <3>2, <3>3, <3>4, <3>5
    <3>9. PICK o \in Nat, w \in Nat : o = audio[1].at /\ w = Window
      BY <3>6
    <3>10. o + b + 1 <= p + w /\ o + c >= p + w + 1 /\ p \in Nat /\ a <= b /\ c <= d
      BY <3>6, <3>8, <3>9
    <3>11. o + a + 1 <= p + w /\ o + d >= p + w + 1
      BY <3>10, TrimBounds
    <3>12. QED
      BY <3>7, <3>9, <3>11
  <2>6. Covered'
    <3>1. \A p \in Speaks : IF source = "capture" THEN TRUE ELSE 2 - Spacing = 1
      BY <1>1
    <3>2. \A p \in Speaks : p + Window + (IF source = "capture" THEN 1 ELSE 2 - Spacing) = p + Window + 1
      BY <3>1
    <3>3. QED
      BY <1>1, <2>5, <3>2 DEF Covered
  <2>7. QED
    BY <2>3, <2>6
<1>4. QED
  BY <1>2, <1>3

LEMMA MeanAtLeast ==
  ASSUME NEW s \in Nat, NEW c \in Nat, NEW r \in Nat \ {0}, s >= c * r
  PROVE  s \div r \in Nat /\ s \div r >= c
OBVIOUS

\* A sample for every group of r, loud where all of the group is.
LEMMA Resampled ==
  ASSUME NEW samples \in Seq(Sound), NEW r \in Nat \ {0}
  PROVE  /\ Resample(samples, r) \in Seq(Sound)
         /\ Len(Resample(samples, r)) = Len(samples) \div r
         /\ \A n \in 1..(Len(samples) \div r) :
              /\ n * r <= Len(samples)
              /\ Resample(samples, r)[n].at = samples[(n - 1) * r + 1].at
              /\ \A c \in Nat : (\A i \in (n - 1) * r + 1..n * r : samples[i].energy >= c)
                                  => Resample(samples, r)[n].energy >= c
<1> DEFINE count == Len(samples) \div r
           Of(n) == [energy |-> EnergyIn(samples, (n - 1) * r + 1..n * r) \div r,
                     at |-> samples[(n - 1) * r + 1].at]
<1>1. Len(samples) \in Nat /\ count \in Nat /\ count * r <= Len(samples)
  BY LenProperties
<1>2. Resample(samples, r) = [n \in 1..count |-> Of(n)]
  BY DEF Resample, EnergyIn
<1> HIDE DEF count
<1>3. ASSUME NEW n \in 1..count
      PROVE  /\ n * r <= Len(samples) /\ Of(n) \in Sound
             /\ \A c \in Nat : (\A i \in (n - 1) * r + 1..n * r : samples[i].energy >= c)
                                 => Of(n).energy >= c
  <2>1. n * r <= Len(samples)
    <3>1. n * r <= count * r
      BY <1>1
    <3>2. n * r \in Nat /\ count * r \in Nat
      BY <1>1
    <3>3. QED
      BY <1>1, <3>1, <3>2
  <2>2. PICK a \in Nat : a = (n - 1) * r
    BY <1>1
  <2>3. n * r = a + r
    BY <1>1, <2>2
  <2>4. a + r <= Len(samples)
    BY <2>1, <2>3
  <2>5. ASSUME NEW c \in Nat, \A i \in a + 1..a + r : samples[i].energy >= c
        PROVE  Of(n).energy \in Nat /\ Of(n).energy >= c
    <3>1. PICK s \in Nat : s = EnergyIn(samples, a + 1..a + r) /\ s >= c * r
      BY <2>4, <2>5, LoudEnergies
    <3>2. s \div r \in Nat /\ s \div r >= c
      BY <3>1, MeanAtLeast
    <3>3. Of(n).energy = s \div r
      BY <2>2, <2>3, <3>1
    <3>4. QED
      BY <3>2, <3>3
  <2>6. Of(n).energy \in Nat
    <3>1. \A i \in a + 1..a + r : samples[i].energy >= 0
      <4>1. SUFFICES ASSUME NEW i \in a + 1..a + r PROVE samples[i].energy >= 0
        OBVIOUS
      <4>2. i \in DOMAIN samples
        BY <1>1, <2>4, LenProperties
      <4>3. QED
        BY <4>2, SampleOf
    <3>2. QED
      BY <2>5, <3>1
  <2>7. samples[(n - 1) * r + 1].at \in Nat
    <3>1. (n - 1) * r + 1 \in DOMAIN samples
      BY <1>1, <2>2, <2>4, LenProperties
    <3>2. QED
      BY <3>1, SampleOf
  <2>8. Of(n) \in Sound
    BY <2>6, <2>7 DEF Sound
  <2>9. QED
    BY <2>1, <2>2, <2>3, <2>5, <2>8
<1> HIDE DEF Of
<1>4. Resample(samples, r) \in Seq(Sound) /\ Len(Resample(samples, r)) = count
  <2>1. Resample(samples, r) \in [1..count -> Sound]
    BY <1>2, <1>3
  <2>2. Resample(samples, r) \in Seq(Sound)
    BY <1>1, <2>1, SeqDef
  <2>3. 1..Len(Resample(samples, r)) = 1..count /\ Len(Resample(samples, r)) \in Nat
    BY <2>1, <2>2, LenProperties
  <2>4. QED
    BY <1>1, <2>2, <2>3
<1>5. \A n \in 1..count : Resample(samples, r)[n] = Of(n) /\ Of(n).at = samples[(n - 1) * r + 1].at
  BY <1>2 DEF Of
<1>6. QED
  BY <1>3, <1>4, <1>5 DEF count

-----------------------------------------------------------------------------
LEMMA ClipInvInit == ClipInit => ClipInv
<1> SUFFICES ASSUME ClipInit PROVE ClipInv
  OBVIOUS
<1>1. ClipConstants
  <2>1. /\ source \in Sources /\ recording \in Recordings /\ rate \in Rates
        /\ vadThreshold \in VadThresholds /\ clipStart < Len(recording)
    BY DEF ClipInit
  <2>2. clipStart \in {0} \cup ClipStarts
    BY DEF ClipInit
  <2>3. QED
    BY <2>1, <2>2, ClipAssumption DEF ClipConstants
<1>2. rate \in Nat \ {0} /\ toDo = AudioSteps[source] /\ audioRate = rate /\ (source = "link" => rate = 1)
  BY <1>1, ClipAssumption DEF ClipInit, ClipConstants
<1>3. StepsFit
  BY <1>1, <1>2 DEF StepsFit, AudioSteps, ClipConstants, Sources
<1>4. Spacing = 1 /\ Window \in Nat \ {0}
  BY <1>1, <1>2, <1>3, Spacings
<1>5. /\ Len(recording) \in Nat /\ clipStart \in Nat /\ Len(recording) > 0
      /\ DOMAIN recording = 1..Len(recording)
      /\ \A i \in 1..Len(recording) : recording[i] \in Nat
  BY <1>1, ClipAssumption, LenProperties, ElementOfSeq DEF ClipConstants
<1>6. /\ audio = [i \in 1..Len(recording) |-> [energy |-> recording[i], at |-> i - 1]]
      /\ rows = {}
  BY <1>5 DEF ClipInit
<1>7. \A i \in 1..Len(recording) : audio[i] \in Sound /\ audio[i].energy = recording[i] /\ audio[i].at = i - 1
  BY <1>5, <1>6 DEF Sound
<1>8. audio \in Seq(Sound) /\ Len(audio) = Len(recording)
  <2>1. audio \in [1..Len(recording) -> Sound]
    BY <1>6, <1>7
  <2>2. audio \in Seq(Sound)
    BY <1>5, <2>1, SeqDef
  <2>3. 1..Len(audio) = 1..Len(recording) /\ Len(audio) \in Nat
    BY <2>1, <2>2, LenProperties
  <2>4. QED
    BY <1>5, <2>2, <2>3
<1>9. audio[1].at = 0
  BY <1>5, <1>7
<1>10. EvenlySpaced
  <2>1. SUFFICES ASSUME NEW i \in 1..Len(recording)
                 PROVE  /\ audio[i].at = audio[1].at + (i - 1) * Spacing
                        /\ audio[i].at + Spacing <= Len(recording)
                        /\ (\A j \in audio[i].at + 1..audio[i].at + Spacing : recording[j] > Loudest)
                             => audio[i].energy > Loudest
    BY <1>6 DEF EvenlySpaced
  <2>2. i \in audio[i].at + 1..audio[i].at + Spacing
    BY <1>4, <1>7
  <2>3. QED
    BY <1>4, <1>5, <1>7, <1>9, <2>2
<1>11. Covered
  <2>1. SUFFICES ASSUME NEW from \in Speaks
                 PROVE  audio[1].at + 1 <= from + Window /\ End >= from + Window + 1
    BY <1>4 DEF Covered
  <2>2. from \in Nat /\ from + 2 * Window <= Len(recording)
    BY <1>1, SpeaksWithin
  <2>3. End = Len(recording)
    <3>1. End = 0 + Len(recording) * 1
      BY <1>4, <1>8, <1>9 DEF End
    <3>2. \A n \in Nat : 0 + n * 1 = n
      OBVIOUS
    <3>3. QED
      BY <1>5, <3>1, <3>2
  <2>4. QED
    BY <1>4, <1>5, <1>9, <2>2, <2>3
<1>12. QED
  BY <1>1, <1>3, <1>6, <1>8, <1>9, <1>10, <1>11 DEF ClipInv, Untouched, RowsFit

\* Whatever is done to the audio, what is left to do goes on.
LEMMA DoesNext ==
  ASSUME ClipInv, NEW step, NEW result, NEW newRate, Does(step, result, newRate),
         newRate = IF step = "resample" THEN 1 ELSE audioRate
  PROVE  /\ Same /\ ClipConstants' /\ StepsFit' /\ Untouched' /\ RowsFit'
         /\ rows' \subseteq [shown : Nat, at : Nat] /\ audio' = result /\ audioRate' = newRate
         /\ toDo # <<>> /\ Head(toDo) = step
<1>1. /\ toDo # <<>> /\ Head(toDo) = step /\ toDo' = Tail(toDo) /\ audioRate' = newRate
      /\ Same /\ rows' = rows /\ audio' = result
  BY DEF Does, Same
<1>2. ClipConstants'
  BY <1>1, SameStays DEF ClipInv
<1>3. rows = {}
  BY <1>1 DEF ClipInv, RowsFit
<1>4. source' = source /\ rate' = rate
  BY <1>1 DEF Same
<1>5. StepsFit' /\ toDo' # AudioSteps[source]
  <2>1. CASE source = "capture"
    <3>1. toDo \in {<<"resample", "trim">>, <<"trim">>}
      BY <1>1, <2>1 DEF ClipInv, StepsFit
    <3>2. CASE toDo = <<"resample", "trim">>
      <4>1. toDo' = <<"trim">> /\ audioRate' = 1
        BY <1>1, <3>2
      <4>2. QED
        BY <1>4, <2>1, <4>1 DEF StepsFit, AudioSteps
    <3>3. CASE toDo = <<"trim">>
      <4>1. toDo' = <<>> /\ audioRate' = audioRate /\ audioRate = 1
        BY <1>1, <2>1, <3>3 DEF ClipInv, StepsFit
      <4>2. QED
        BY <1>4, <2>1, <4>1 DEF StepsFit, AudioSteps
    <3>4. QED
      BY <3>1, <3>2, <3>3
  <2>2. CASE source = "file"
    <3>1. toDo \in {<<"decode", "resample">>, <<"resample">>}
      BY <1>1, <2>2 DEF ClipInv, StepsFit
    <3>2. CASE toDo = <<"decode", "resample">>
      <4>1. toDo' = <<"resample">> /\ audioRate' = audioRate /\ audioRate = rate
        BY <1>1, <2>2, <3>2 DEF ClipInv, StepsFit
      <4>2. QED
        BY <1>4, <2>2, <4>1 DEF StepsFit, AudioSteps
    <3>3. CASE toDo = <<"resample">>
      <4>1. toDo' = <<>> /\ audioRate' = 1
        BY <1>1, <3>3
      <4>2. QED
        BY <1>4, <2>2, <4>1 DEF StepsFit, AudioSteps
    <3>4. QED
      BY <3>1, <3>2, <3>3
  <2>3. CASE source = "link"
    <3>1. /\ toDo \in {<<"download", "decode", "resample">>, <<"decode", "resample">>, <<"resample">>}
          /\ rate = 1 /\ audioRate = 1
      BY <1>1, <2>3 DEF ClipInv, StepsFit
    <3>2. audioRate' = 1
      BY <1>1, <3>1
    <3>3. toDo' \in {<<"decode", "resample">>, <<"resample">>, <<>>}
      <4>1. CASE toDo = <<"download", "decode", "resample">>
        BY <1>1, <4>1
      <4>2. CASE toDo = <<"decode", "resample">>
        BY <1>1, <4>2
      <4>3. CASE toDo = <<"resample">>
        BY <1>1, <4>3
      <4>4. QED
        BY <3>1, <4>1, <4>2, <4>3
    <3>4. QED
      BY <1>4, <2>3, <3>1, <3>2, <3>3 DEF StepsFit, AudioSteps
  <2>4. CASE source = "cli"
    <3>1. toDo \in {<<"decode", "trim">>, <<"trim">>} /\ audioRate = rate
      BY <1>1, <2>4 DEF ClipInv, StepsFit
    <3>2. audioRate' = rate
      BY <1>1, <3>1
    <3>3. toDo' \in {<<"trim">>, <<>>}
      <4>1. CASE toDo = <<"decode", "trim">>
        BY <1>1, <4>1
      <4>2. CASE toDo = <<"trim">>
        BY <1>1, <4>2
      <4>3. QED
        BY <3>1, <4>1, <4>2
    <3>4. QED
      BY <1>4, <2>4, <3>2, <3>3 DEF StepsFit, AudioSteps
  <2>5. QED
    BY <2>1, <2>2, <2>3, <2>4 DEF ClipInv, ClipConstants, Sources
<1>6. Untouched' /\ RowsFit'
  BY <1>1, <1>3, <1>4, <1>5 DEF Untouched, RowsFit
<1>7. QED
  BY <1>1, <1>2, <1>3, <1>5, <1>6

\* Once everything is done the audio is at the recognizer's rate, but for the command
\* line; and what is done in between fits where the audio is.
LEMMA StepOrder ==
  ASSUME ClipConstants, StepsFit, toDo # <<>>
  PROVE  /\ Head(toDo) = "resample" => /\ source # "cli" /\ audioRate = rate
                                       /\ source = "capture" => toDo = AudioSteps[source]
         /\ Head(toDo) = "decode" => source \in {"file", "link", "cli"} /\ audioRate = rate
         /\ Head(toDo) = "trim" => source \in {"capture", "cli"} /\ (source = "cli" => audioRate = rate)
         /\ Head(toDo) = "download" => source = "link" /\ toDo = AudioSteps[source]
<1>1. CASE source = "capture"
  <2>1. CASE toDo = <<"resample", "trim">>
    BY <1>1, <2>1 DEF StepsFit, AudioSteps
  <2>2. CASE toDo = <<"trim">>
    BY <1>1, <2>2 DEF StepsFit
  <2>3. QED
    BY <1>1, <2>1, <2>2 DEF StepsFit
<1>2. CASE source = "file"
  <2>1. CASE toDo = <<"decode", "resample">>
    BY <1>2, <2>1 DEF StepsFit
  <2>2. CASE toDo = <<"resample">>
    BY <1>2, <2>2 DEF StepsFit
  <2>3. QED
    BY <1>2, <2>1, <2>2 DEF StepsFit
<1>3. CASE source = "link"
  <2>1. rate = 1 /\ audioRate = 1
    BY <1>3 DEF StepsFit
  <2>2. CASE toDo = <<"download", "decode", "resample">>
    BY <1>3, <2>1, <2>2 DEF AudioSteps
  <2>3. CASE toDo = <<"decode", "resample">>
    BY <1>3, <2>1, <2>3
  <2>4. CASE toDo = <<"resample">>
    BY <1>3, <2>1, <2>4
  <2>5. QED
    BY <1>3, <2>2, <2>3, <2>4 DEF StepsFit
<1>4. CASE source = "cli"
  <2>1. CASE toDo = <<"decode", "trim">>
    BY <1>4, <2>1 DEF StepsFit
  <2>2. CASE toDo = <<"trim">>
    BY <1>4, <2>2 DEF StepsFit
  <2>3. QED
    BY <1>4, <2>1, <2>2 DEF StepsFit
<1>5. QED
  BY <1>1, <1>2, <1>3, <1>4 DEF ClipConstants, Sources

LEMMA DownloadKeeps == ASSUME ClipInv, DownloadSection PROVE ClipInv'
<1>1. Does("download", SubSeq(audio, clipStart + 1, Len(audio)), audioRate)
  BY DEF DownloadSection
<1>2. /\ Same /\ ClipConstants' /\ StepsFit' /\ Untouched' /\ RowsFit'
      /\ rows' \subseteq [shown : Nat, at : Nat]
      /\ audio' = SubSeq(audio, clipStart + 1, Len(audio)) /\ audioRate' = audioRate
      /\ toDo # <<>> /\ Head(toDo) = "download"
  <2>1. audioRate = IF "download" = "resample" THEN 1 ELSE audioRate
    OBVIOUS
  <2>2. QED
    BY <1>1, <2>1, DoesNext
<1>3. source = "link" /\ rate = 1 /\ audioRate = 1 /\ toDo = AudioSteps[source]
  BY <1>2, StepOrder DEF ClipInv, StepsFit
<1>4. Len(audio) = Len(recording) /\ audio[1].at = 0
  BY <1>3 DEF ClipInv, Untouched
<1>5. clipStart \in 0..Len(audio) /\ Len(audio) \in 0..Len(audio) /\ clipStart < Len(audio) /\ clipStart \in Nat
  BY <1>4, ClipAssumption, LenProperties DEF ClipInv, ClipConstants
<1>6. /\ audio' \in Seq(Sound) /\ EvenlySpaced' /\ audio' # <<>>
      /\ audio'[1].at = audio[1].at + clipStart * Spacing /\ End' = audio[1].at + Len(audio) * Spacing
  BY <1>2, <1>5, PartSpaced
<1>7. Spacing = 1 /\ Window \in Nat \ {0} /\ Spacing' = 1 /\ Speaks' = Speaks /\ Window' = Window
  BY <1>2, <1>3, Spacings, SameStays DEF ClipInv
<1>8. audio'[1].at = clipStart /\ End' = Len(recording)
  <2>1. \A n \in Nat : 0 + n * 1 = n
    OBVIOUS
  <2>2. QED
    BY <1>4, <1>5, <1>6, <1>7, <2>1
<1>9. ASSUME NEW from \in Speaks PROVE clipStart + 1 <= from + Window /\ Len(recording) >= from + Window + 1
  <2>1. from \in Nat /\ clipStart <= from /\ from + 2 * Window <= Len(recording)
    BY SpeaksWithin DEF ClipInv
  <2>2. QED
    BY <1>4, <1>5, <1>7, <2>1
<1>10. Covered'
  <2>1. source' # "capture" /\ 2 - Spacing' = 1
    BY <1>2, <1>3, <1>7 DEF Same
  <2>2. \A from \in Speaks' : /\ audio'[1].at + 1 <= from + Window'
                              /\ End' >= from + Window' + (IF source' = "capture" THEN 1 ELSE 2 - Spacing')
    BY <1>7, <1>8, <1>9, <2>1
  <2>3. QED
    BY <2>2 DEF Covered
<1>11. QED
  BY <1>2, <1>6, <1>10 DEF ClipInv

LEMMA TrimsKeep == ASSUME ClipInv, DecodeWav \/ TrimByUser PROVE ClipInv'
<1>1. PICK step \in {"decode", "trim"}, threshold \in {SilenceThreshold, vadThreshold} :
        /\ Does(step, TrimSilence(audio, audioRate, threshold), audioRate)
        /\ step = "decode" => threshold = SilenceThreshold
        /\ step = "trim" => threshold = vadThreshold
  <2>1. CASE DecodeWav
    BY <2>1 DEF DecodeWav
  <2>2. CASE TrimByUser
    BY <2>2 DEF TrimByUser
  <2>3. QED
    BY <2>1, <2>2
<1>2. /\ Same /\ ClipConstants' /\ StepsFit' /\ Untouched' /\ RowsFit'
      /\ rows' \subseteq [shown : Nat, at : Nat]
      /\ audio' = TrimSilence(audio, audioRate, threshold) /\ audioRate' = audioRate
      /\ toDo # <<>> /\ Head(toDo) = step
  <2>1. audioRate = IF step = "resample" THEN 1 ELSE audioRate
    OBVIOUS
  <2>2. QED
    BY <1>1, <2>1, DoesNext
<1>3. /\ step = "decode" => source \in {"file", "link", "cli"} /\ audioRate = rate
      /\ step = "trim" => source \in {"capture", "cli"} /\ (source = "cli" => audioRate = rate)
  BY <1>2, StepOrder DEF ClipInv
<1>4. threshold \in Nat /\ threshold <= Loudest
  BY <1>1, <1>3, Thresholds DEF ClipInv
<1>5. source = "capture" \/ Spacing = 1
  BY <1>1, <1>3, Spacings DEF ClipInv
<1>6. audio' \in Seq(Sound) /\ EvenlySpaced' /\ Covered'
  BY <1>2, <1>4, <1>5, TrimKeeps
<1>7. QED
  BY <1>2, <1>6 DEF ClipInv

-----------------------------------------------------------------------------
LEMMA EndsFollow ==
  ASSUME NEW o \in Nat, NEW n \in Nat, NEW m \in Nat, NEW r \in Nat \ {0}, m + r >= n + 1
  PROVE  /\ (o + m) + r >= (o + n) + 1
         /\ \A from, w, total \in Nat : w >= r /\ from + 2 * w <= total /\ o = 0 /\ n = total
                                      => o + m >= from + w + 1
         /\ \A from, w \in Nat : o + n >= from + w + 1 => o + m >= from + w + (2 - r)
OBVIOUS

LEMMA LastOfGroup ==
  ASSUME NEW a \in Nat, NEW r \in Nat \ {0}, NEW n \in Nat, a + r <= n
  PROVE  a + r \in 1..n
OBVIOUS

LEMMA ResampleKeeps == ASSUME ClipInv, ResampleAudio PROVE ClipInv'
<1>1. Does("resample", Resample(audio, audioRate), 1)
  BY DEF ResampleAudio
<1>2. /\ Same /\ ClipConstants' /\ StepsFit' /\ Untouched' /\ RowsFit'
      /\ rows' \subseteq [shown : Nat, at : Nat]
      /\ audio' = Resample(audio, audioRate) /\ audioRate' = 1
      /\ toDo # <<>> /\ Head(toDo) = "resample"
  <2>1. 1 = IF "resample" = "resample" THEN 1 ELSE audioRate
    OBVIOUS
  <2>2. QED
    BY <1>1, <2>1, DoesNext
<1>3. /\ source # "cli" /\ audioRate = rate
      /\ source = "capture" => toDo = AudioSteps[source]
  BY <1>2, StepOrder DEF ClipInv
<1>4. /\ rate \in Nat \ {0} /\ Spacing = 1 /\ Spacing' = rate
      /\ Window' = Window /\ Window \in Nat /\ Window >= rate
      /\ Speaks' = Speaks /\ Loudest' = Loudest /\ Loudest \in Nat
      /\ recording' = recording /\ source' = source
  <2>1. rate' = rate /\ recording' = recording /\ source' = source
    BY <1>2 DEF Same
  <2>2. Spacing' = rate
    BY <1>2, <2>1, Spacings DEF Spacing, ClipInv
  <2>3. rate \in Nat \ {0} /\ Spacing = 1 /\ Window \in Nat /\ Window >= rate /\ Loudest \in Nat
    BY <1>3, Spacings, Thresholds DEF ClipInv
  <2>4. QED
    BY <1>2, <2>1, <2>2, <2>3, SameStays
<1> DEFINE count == Len(audio) \div rate
<1>5. /\ audio' \in Seq(Sound) /\ Len(audio') = count
      /\ \A n \in 1..count :
           /\ n * rate <= Len(audio)
           /\ audio'[n].at = audio[(n - 1) * rate + 1].at
           /\ \A c \in Nat : (\A i \in (n - 1) * rate + 1..n * rate : audio[i].energy >= c)
                               => audio'[n].energy >= c
  BY <1>2, <1>3, <1>4, Resampled DEF ClipInv
<1>6. /\ Len(audio) \in Nat /\ count \in Nat /\ DOMAIN audio = 1..Len(audio)
      /\ count * rate + rate >= Len(audio) + 1
  BY <1>4, LenProperties DEF ClipInv
<1>7. \A i \in 1..Len(audio) :
        /\ audio[i].at = audio[1].at + (i - 1) /\ audio[i].at \in Nat /\ audio[i].energy \in Nat
        /\ audio[i].at + 1 <= Len(recording)
        /\ recording[audio[i].at + 1] > Loudest => audio[i].energy > Loudest
  <2>1. SUFFICES ASSUME NEW i \in DOMAIN audio
                 PROVE  /\ audio[i].at = audio[1].at + (i - 1) /\ audio[i].at \in Nat /\ audio[i].energy \in Nat
                        /\ audio[i].at + 1 <= Len(recording)
                        /\ recording[audio[i].at + 1] > Loudest => audio[i].energy > Loudest
    BY <1>6
  <2>2. audio[i].at \in Nat /\ audio[i].energy \in Nat
    BY SampleOf DEF ClipInv
  <2>3. i \in Nat /\ (i - 1) * 1 = i - 1
    BY <1>6
  <2>4. /\ audio[i].at = audio[1].at + (i - 1) * 1 /\ audio[i].at + 1 <= Len(recording)
        /\ (\A j \in audio[i].at + 1..audio[i].at + 1 : recording[j] > Loudest)
             => audio[i].energy > Loudest
    BY <1>4 DEF ClipInv, EvenlySpaced
  <2>5. \A j \in audio[i].at + 1..audio[i].at + 1 : j = audio[i].at + 1
    BY <2>2
  <2>6. QED
    BY <2>2, <2>3, <2>4, <2>5
<1> HIDE DEF count
<1>8. ASSUME NEW n \in 1..count
      PROVE  \E a \in Nat : /\ a = (n - 1) * rate /\ n * rate = a + rate /\ a + rate <= Len(audio)
                            /\ audio'[n].at = audio[1].at + a /\ audio[1].at \in Nat
  <2>1. PICK a \in Nat : a = (n - 1) * rate
    BY <1>4, <1>6
  <2>2. n * rate = a + rate
    BY <1>4, <1>6, <2>1
  <2>3. a + rate <= Len(audio)
    BY <1>5, <2>2
  <2>4. a + 1 \in 1..Len(audio) /\ 1 \in 1..Len(audio)
    BY <1>4, <1>6, <2>3
  <2>5. audio'[n].at = audio[1].at + ((a + 1) - 1) /\ audio[1].at \in Nat
    BY <1>5, <1>7, <2>1, <2>4
  <2>6. QED
    BY <2>1, <2>2, <2>3, <2>5
<1>9. EvenlySpaced'
  <2>1. ASSUME NEW n \in 1..count
        PROVE  /\ audio'[n].at = audio'[1].at + (n - 1) * rate
               /\ audio'[n].at + rate <= Len(recording)
               /\ (\A j \in audio'[n].at + 1..audio'[n].at + rate : recording[j] > Loudest)
                    => audio'[n].energy > Loudest
    <3>1. PICK a \in Nat : /\ a = (n - 1) * rate /\ n * rate = a + rate /\ a + rate <= Len(audio)
                           /\ audio'[n].at = audio[1].at + a /\ audio[1].at \in Nat
      BY <1>8
    <3>2. audio'[1].at = audio[1].at
      <4>1. 1 \in 1..count
        BY <1>6
      <4>2. PICK b \in Nat : b = (1 - 1) * rate /\ audio'[1].at = audio[1].at + b
        BY <1>8, <4>1
      <4>3. b = 0
        BY <1>4, <4>2
      <4>4. QED
        BY <3>1, <4>2, <4>3
    <3>3. audio'[n].at + rate <= Len(recording)
      <4>1. a + rate \in 1..Len(audio)
        <5>1. a \in Nat /\ rate \in Nat \ {0} /\ Len(audio) \in Nat /\ a + rate <= Len(audio)
          BY <1>4, <1>6, <3>1
        <5>2. QED
          BY <5>1, LastOfGroup
      <4>2. /\ audio[a + rate].at = audio[1].at + ((a + rate) - 1)
            /\ audio[a + rate].at + 1 <= Len(recording)
        BY <1>7, <4>1
      <4>3. audio'[n].at + rate = audio[a + rate].at + 1
        <5>1. a \in Nat /\ rate \in Nat /\ audio[1].at \in Nat /\ audio'[n].at = audio[1].at + a
          BY <1>4, <3>1
        <5>2. QED
          BY <4>2, <5>1
      <4>4. QED
        BY <4>2, <4>3
    <3>4. ASSUME \A j \in audio'[n].at + 1..audio'[n].at + rate : recording[j] > Loudest
          PROVE  audio'[n].energy > Loudest
      <4>1. ASSUME NEW i \in a + 1..a + rate PROVE audio[i].energy >= Loudest + 1
        <5>1. i \in 1..Len(audio)
          BY <1>4, <1>6, <3>1, <4>1
        <5>2. audio[i].at = audio[1].at + (i - 1) /\ audio[i].energy \in Nat
              /\ (recording[audio[i].at + 1] > Loudest => audio[i].energy > Loudest)
          BY <1>7, <5>1
        <5>3. audio[i].at + 1 \in audio'[n].at + 1..audio'[n].at + rate
          BY <1>4, <3>1, <5>1, <5>2
        <5>4. recording[audio[i].at + 1] > Loudest
          BY <3>4, <5>3
        <5>5. QED
          BY <1>4, <5>2, <5>4
      <4>2. PICK c \in Nat : c = Loudest + 1
        BY <1>4
      <4>3. \A i \in (n - 1) * rate + 1..n * rate : audio[i].energy >= c
        BY <3>1, <4>1, <4>2
      <4>4. audio'[n].energy >= c
        BY <1>5, <4>3
      <4>5. audio'[n].energy \in Nat
        <5>1. n \in DOMAIN audio'
          BY <1>5, LenProperties
        <5>2. QED
          BY <1>5, <5>1, SampleOf
      <4>6. QED
        BY <1>4, <4>2, <4>4, <4>5
    <3>5. QED
      BY <3>1, <3>2, <3>3, <3>4
  <2>2. DOMAIN audio' = 1..count
    BY <1>5, LenProperties
  <2>3. QED
    BY <1>4, <2>1, <2>2 DEF EvenlySpaced
<1>10. ASSUME audio' # <<>>
       PROVE  /\ audio # <<>> /\ audio'[1].at = audio[1].at /\ audio[1].at \in Nat
              /\ End = audio[1].at + Len(audio) /\ End' = audio[1].at + count * rate
  <2>1. 1 \in 1..count
    BY <1>5, <1>6, <1>10, EmptySeq
  <2>2. PICK b \in Nat : /\ b = (1 - 1) * rate /\ audio'[1].at = audio[1].at + b
                         /\ b + rate <= Len(audio) /\ audio[1].at \in Nat
    BY <1>8, <2>1
  <2>3. b = 0
    BY <1>4, <2>2
  <2>4. audio'[1].at = audio[1].at
    BY <2>2, <2>3
  <2>5. audio # <<>>
    BY <1>4, <2>2, <2>3, EmptySeq
  <2>6. Len(audio) * 1 = Len(audio)
    <3>1. \A n \in Nat : n * 1 = n
      OBVIOUS
    <3>2. QED
      BY <1>6, <3>1
  <2>7. QED
    BY <1>4, <1>5, <2>2, <2>4, <2>5, <2>6 DEF End
<1>11. Covered'
  <2>1. ASSUME audio' # <<>>, NEW from \in Speaks
        PROVE  /\ audio'[1].at + 1 <= from + Window
               /\ End' >= from + Window + (IF source = "capture" THEN 1 ELSE 2 - rate)
    <3>1. /\ audio # <<>> /\ audio'[1].at = audio[1].at /\ audio[1].at \in Nat
          /\ End = audio[1].at + Len(audio) /\ End' = audio[1].at + count * rate
      BY <1>10, <2>1
    <3>2. /\ audio[1].at + 1 <= from + Window
          /\ End >= from + Window + (IF source = "capture" THEN 1 ELSE 2 - Spacing)
      BY <3>1 DEF ClipInv, Covered
    <3>3. from \in Nat /\ from + 2 * Window <= Len(recording) /\ Len(recording) \in Nat
      BY SpeaksWithin, LenProperties DEF ClipInv, ClipConstants
    <3>4. PICK m \in Nat : m = count * rate
      BY <1>4, <1>6
    <3>5. PICK o \in Nat, n \in Nat, r \in Nat \ {0}, w \in Nat, total \in Nat :
            /\ o = audio[1].at /\ n = Len(audio) /\ r = rate /\ w = Window /\ total = Len(recording)
      BY <1>4, <1>6, <3>1, <3>3
    <3>6. /\ m + r >= n + 1 /\ w >= r /\ from + 2 * w <= total
          /\ End = o + n /\ End' = o + m
      BY <1>4, <1>6, <3>1, <3>3, <3>4, <3>5
    <3>7. CASE source = "capture"
      <4>1. n = total /\ o = 0
        BY <1>3, <3>5, <3>7 DEF ClipInv, Untouched
      <4>2. o + m >= from + w + 1
        BY <3>3, <3>6, <4>1, EndsFollow
      <4>3. QED
        BY <3>1, <3>2, <3>5, <3>6, <3>7, <4>2
    <3>8. CASE source # "capture"
      <4>1. o + n >= from + w + 1
        BY <1>4, <3>2, <3>5, <3>6, <3>8
      <4>2. o + m >= from + w + (2 - r)
        BY <3>3, <3>6, <4>1, EndsFollow
      <4>3. QED
        BY <3>1, <3>2, <3>5, <3>6, <3>8, <4>2
    <3>9. QED
      BY <3>7, <3>8
  <2>2. QED
    BY <1>4, <2>1 DEF Covered
<1>12. QED
  BY <1>2, <1>5, <1>9, <1>11 DEF ClipInv

-----------------------------------------------------------------------------
LEMMA RecognizeKeeps == ASSUME ClipInv, Recognize PROVE ClipInv'
<1>1. /\ toDo = <<>> /\ UNCHANGED <<source, recording, rate, vadThreshold, clipStart, toDo, audio, audioRate>>
      /\ rows' = {[shown |-> i - 1, at |-> audio[i].at] : i \in DOMAIN audio}
  BY DEF Recognize
<1>2. ClipConstants' /\ StepsFit' /\ Untouched' /\ EvenlySpaced' /\ Covered' /\ audio' \in Seq(Sound)
  <2>1. Same /\ audioRate' = audioRate /\ audio' = audio /\ toDo' = toDo
    BY <1>1 DEF Same
  <2>2. Spacing' = Spacing /\ Window' = Window /\ Speaks' = Speaks /\ Loudest' = Loudest /\ ClipConstants'
    BY <2>1, SameStays DEF ClipInv
  <2>3. End' = End
    BY <2>1, <2>2 DEF End
  <2>4. StepsFit' /\ Untouched'
    BY <2>1 DEF ClipInv, StepsFit, Untouched, Same
  <2>5. EvenlySpaced'
    BY <2>1, <2>2 DEF ClipInv, EvenlySpaced, Same
  <2>6. Covered'
    BY <2>1, <2>2, <2>3 DEF ClipInv, Covered, Same
  <2>7. QED
    BY <2>1, <2>2, <2>4, <2>5, <2>6 DEF ClipInv
<1>3. rows' \subseteq [shown : Nat, at : Nat]
  <2>1. \A i \in DOMAIN audio : i - 1 \in Nat /\ audio[i].at \in Nat
    BY SampleOf, LenProperties DEF ClipInv
  <2>2. QED
    BY <1>1, <2>1
<1>4. RowsFit'
  BY <1>1 DEF RowsFit
<1>5. QED
  BY <1>2, <1>3, <1>4 DEF ClipInv

LEMMA ClipInvStep == ClipInv /\ [ClipNext]_clipVars => ClipInv'
<1> SUFFICES ASSUME ClipInv, [ClipNext]_clipVars PROVE ClipInv'
  OBVIOUS
<1>1. CASE DownloadSection
  BY <1>1, DownloadKeeps
<1>2. CASE DecodeWav \/ TrimByUser
  BY <1>2, TrimsKeep
<1>3. CASE ResampleAudio
  BY <1>3, ResampleKeeps
<1>4. CASE Recognize
  BY <1>4, RecognizeKeeps
<1>5. CASE UNCHANGED clipVars
  <2>1. /\ Same /\ toDo' = toDo /\ audio' = audio /\ audioRate' = audioRate /\ rows' = rows
        /\ Spacing' = Spacing /\ Window' = Window /\ End' = End /\ Speaks' = Speaks /\ Loudest' = Loudest
    BY <1>5 DEF clipVars, Same, Spacing, Window, End, Speaks, TwoWindows, Loudest
  <2>2. ClipConstants' /\ StepsFit' /\ Untouched'
    BY <2>1 DEF ClipInv, Same, ClipConstants, StepsFit, Untouched
  <2>3. EvenlySpaced' /\ Covered'
    BY <2>1 DEF ClipInv, Same, EvenlySpaced, Covered
  <2>4. RowsFit'
    BY <2>1 DEF ClipInv, RowsFit
  <2>5. QED
    BY <2>1, <2>2, <2>3, <2>4 DEF ClipInv
<1>6. QED
  BY <1>1, <1>2, <1>3, <1>4, <1>5 DEF ClipNext

LEMMA ClipTyped == ClipInv => ClipTypeOK
<1> SUFFICES ASSUME ClipInv PROVE ClipTypeOK
  OBVIOUS
<1>1. toDo \in Seq({"resample", "trim", "decode", "download"})
  <2>1. /\ <<>> \in Seq({"resample", "trim", "decode", "download"})
        /\ <<"trim">> \in Seq({"resample", "trim", "decode", "download"})
        /\ <<"resample">> \in Seq({"resample", "trim", "decode", "download"})
        /\ <<"resample", "trim">> \in Seq({"resample", "trim", "decode", "download"})
        /\ <<"decode", "resample">> \in Seq({"resample", "trim", "decode", "download"})
        /\ <<"decode", "trim">> \in Seq({"resample", "trim", "decode", "download"})
        /\ <<"download", "decode", "resample">> \in Seq({"resample", "trim", "decode", "download"})
    OBVIOUS
  <2>2. QED
    BY <2>1 DEF ClipInv, StepsFit
<1>2. audioRate \in Rates \cup {1}
  BY DEF ClipInv, StepsFit, ClipConstants
<1>3. QED
  BY <1>1, <1>2 DEF ClipInv, ClipConstants, ClipTypeOK, Sound

\* Which sample covers a place between the first and the end.
LEMMA CoveringSample ==
  ASSUME NEW first \in Nat, NEW len \in Nat, NEW s \in Nat \ {0}, NEW place \in Nat,
         first <= place, place < first + len * s
  PROVE  \E i \in 1..len : /\ first + (i - 1) * s <= place
                           /\ place < first + (i - 1) * s + s
<1>1. PICK d \in Nat : d = place - first
  OBVIOUS
<1>2. /\ d \div s \in Nat /\ (d \div s) * s <= d /\ d < (d \div s) * s + s
  BY <1>1
<1>3. PICK q \in Nat : q = d \div s
  BY <1>2
<1>4. q < len
  <2>1. \A a \in Nat : len <= a => len * s <= a * s
    OBVIOUS
  <2>2. d < len * s /\ len * s \in Nat /\ q * s \in Nat
    BY <1>1
  <2>3. q * s <= d
    BY <1>2, <1>3
  <2>4. QED
    BY <1>1, <2>1, <2>2, <2>3
<1>5. PICK i \in 1..len : i = q + 1
  BY <1>4
<1>6. (i - 1) * s = q * s
  BY <1>5
<1>7. PICK x \in Nat : x = (i - 1) * s
  BY <1>5, <1>6
<1>8. x <= d /\ d < x + s
  BY <1>2, <1>3, <1>6, <1>7
<1>9. first + x <= place /\ place < first + x + s
  BY <1>1, <1>8
<1>10. QED
  BY <1>7, <1>9

LEMMA Between ==
  ASSUME NEW least \in Nat, NEW most \in Nat, NEW w \in Nat, NEW s \in Nat \ {0}, NEW place \in Nat,
         NEW one \in Nat, NEW e \in Nat,
         one + 1 <= least + w, e >= most + w + 1 \/ e >= most + w + (2 - s),
         least + w <= place + 1, place + s <= most + w + 1
  PROVE  one <= place /\ place < e
OBVIOUS

LEMMA SpeechArrives == ClipInv => SpeechReachesRecognizer
<1> SUFFICES ASSUME ClipInv, rows # {}, Speaks # {},
                    NEW from0 \in Speaks, NEW place \in from0..from0 + TwoWindows - 1,
                    Min(Speaks) + WindowLen * rate <= place + 1,
                    place + Spacing <= Max(Speaks) + TwoWindows - WindowLen * rate + 1
             PROVE  \E row \in rows : row.at <= place /\ place < row.at + Spacing
  BY DEF SpeechReachesRecognizer, Spacing
<1>1. /\ Spacing \in Nat \ {0} /\ Window \in Nat \ {0} /\ Window = WindowLen * rate
      /\ TwoWindows = 2 * Window /\ Len(recording) \in Nat /\ rate \in Nat \ {0}
  <2>1. /\ Spacing \in Nat \ {0} /\ Window \in Nat \ {0} /\ rate \in Nat \ {0} /\ WindowLen \in Nat \ {0}
    BY Spacings DEF ClipInv
  <2>2. 2 * WindowLen * rate = 2 * (WindowLen * rate)
    BY <2>1
  <2>3. QED
    BY <2>1, <2>2, LenProperties DEF Window, TwoWindows, ClipInv, ClipConstants
<1>2. Speaks \in SUBSET (0..Len(recording))
  <2>1. SUFFICES ASSUME NEW from \in Speaks PROVE from \in 0..Len(recording)
    OBVIOUS
  <2>2. from \in Nat /\ from + 2 * Window <= Len(recording)
    BY SpeaksWithin DEF ClipInv
  <2>3. QED
    BY <1>1, <2>2, SMTT(30)
<1>3. PICK least \in Speaks : least = Min(Speaks)
  <2>1. Speaks \in SUBSET Nat
    BY <1>2
  <2>2. QED
    BY <2>1, LeastFound
<1>4. PICK most \in Speaks : most = Max(Speaks)
  BY <1>1, <1>2, GreatestSuch
<1>5. least \in Nat /\ most \in Nat /\ from0 \in Nat /\ place \in Nat
  BY <1>1, <1>2
<1>6. /\ audio # <<>> /\ audio \in Seq(Sound) /\ Len(audio) \in Nat /\ DOMAIN audio = 1..Len(audio)
      /\ rows = {[shown |-> i - 1, at |-> audio[i].at] : i \in DOMAIN audio}
      /\ EvenlySpaced /\ Covered
  <2>1. rows = {[shown |-> i - 1, at |-> audio[i].at] : i \in DOMAIN audio}
    BY DEF ClipInv, RowsFit
  <2>2. audio # <<>>
    BY <2>1
  <2>3. QED
    BY <2>1, <2>2, LenProperties DEF ClipInv
<1>7. audio[1].at \in Nat
  <2>1. 1 \in DOMAIN audio
    BY <1>6, EmptySeq
  <2>2. QED
    BY <1>6, <2>1, SampleOf
<1>8. /\ audio[1].at + 1 <= least + Window
      /\ End >= most + Window + (IF source = "capture" THEN 1 ELSE 2 - Spacing)
  BY <1>6 DEF Covered
<1>9. End = audio[1].at + Len(audio) * Spacing /\ Len(audio) * Spacing \in Nat
  BY <1>1, <1>6 DEF End
<1>10. audio[1].at <= place /\ place < audio[1].at + Len(audio) * Spacing
  <2>1. PICK one \in Nat, e \in Nat, w \in Nat, s \in Nat \ {0} :
          one = audio[1].at /\ e = End /\ w = Window /\ s = Spacing
    <3>1. PICK m \in Nat : m = Len(audio) * Spacing
      BY <1>9
    <3>2. End = audio[1].at + m
      BY <1>9, <3>1
    <3>3. End \in Nat
      BY <1>7, <3>2
    <3>4. QED
      BY <1>1, <1>7, <3>3
  <2>2. one + 1 <= least + w
    BY <1>8, <2>1
  <2>3. e >= most + w + 1 \/ e >= most + w + (2 - s)
    BY <1>8, <2>1
  <2>4. least + w <= place + 1
    BY <1>1, <1>3, <2>1
  <2>5. place + s <= most + w + 1
    <3>1. place + s <= most + 2 * w - w + 1
      BY <1>1, <1>4, <2>1
    <3>2. QED
      BY <1>5, <2>1, <3>1
  <2>6. one <= place /\ place < e
    BY <1>5, <2>1, <2>2, <2>3, <2>4, <2>5, Between
  <2>7. QED
    BY <1>9, <2>1, <2>6
<1>11. PICK i \in 1..Len(audio) : /\ audio[1].at + (i - 1) * Spacing <= place
                                  /\ place < audio[1].at + (i - 1) * Spacing + Spacing
  BY <1>1, <1>5, <1>6, <1>7, <1>10, CoveringSample
<1>12. audio[i].at = audio[1].at + (i - 1) * Spacing
  BY <1>6 DEF EvenlySpaced
<1>13. [shown |-> i - 1, at |-> audio[i].at] \in rows
  BY <1>6
<1>14. QED
  BY <1>11, <1>12, <1>13

LEMMA TimesApart == ClipInv => TimesKeepApart
<1> SUFFICES ASSUME ClipInv, source = "cli" => rate = 1, NEW a \in rows, NEW b \in rows,
                    a.shown <= b.shown
             PROVE  b.at = a.at + (b.shown - a.shown) * rate
  BY DEF TimesKeepApart
<1>1. /\ toDo = <<>> /\ rows = {[shown |-> i - 1, at |-> audio[i].at] : i \in DOMAIN audio}
      /\ audio \in Seq(Sound) /\ Len(audio) \in Nat /\ DOMAIN audio = 1..Len(audio) /\ EvenlySpaced
  BY LenProperties DEF ClipInv, RowsFit
<1>2. Spacing = rate /\ rate \in Nat \ {0}
  <2>1. audioRate = 1
    <3>1. <<>> # <<"resample", "trim">> /\ <<>> # <<"trim">> /\ <<>> # <<"decode", "resample">> /\ <<>> # <<"resample">>
      OBVIOUS
    <3>2. QED
      BY <1>1, <3>1 DEF ClipInv, StepsFit
  <2>2. QED
    BY <2>1, Spacings DEF ClipInv
<1>3. PICK i \in 1..Len(audio) : a = [shown |-> i - 1, at |-> audio[i].at]
  BY <1>1
<1>4. PICK j \in 1..Len(audio) : b = [shown |-> j - 1, at |-> audio[j].at]
  BY <1>1
<1>5. /\ audio[i].at = audio[1].at + (i - 1) * rate
      /\ audio[j].at = audio[1].at + (j - 1) * rate
  BY <1>1, <1>2 DEF EvenlySpaced
<1>6. audio[1].at \in Nat
  <2>1. 1 \in DOMAIN audio
    BY <1>1, <1>3
  <2>2. QED
    BY <1>1, <2>1, SampleOf
<1>7. (j - 1) * rate = (i - 1) * rate + ((j - 1) - (i - 1)) * rate
  BY <1>1, <1>2
<1>8. (j - 1) * rate \in Nat /\ (i - 1) * rate \in Nat /\ ((j - 1) - (i - 1)) * rate \in Nat
  BY <1>1, <1>2, <1>3, <1>4
<1>9. QED
  BY <1>3, <1>4, <1>5, <1>6, <1>7, <1>8

\* What was said is heard by the recognizer from end to end but for less than a window at
\* either, and the times shown keep apart as the sounds did: for any recordings, rates,
\* thresholds and windows.
THEOREM AudioArrives == ClipSpec => [](ClipTypeOK /\ SpeechReachesRecognizer /\ TimesKeepApart)
<1>1. ClipInit => ClipInv
  BY ClipInvInit
<1>2. ClipInv /\ [ClipNext]_clipVars => ClipInv'
  BY ClipInvStep
<1>3. ClipInv => ClipTypeOK /\ SpeechReachesRecognizer /\ TimesKeepApart
  BY ClipTyped, SpeechArrives, TimesApart
<1>4. QED
  BY <1>1, <1>2, <1>3, PTL DEF ClipSpec

-----------------------------------------------------------------------------
(* Spoken numbers: the types of the passes' texts, and that every match of a *)
(* pass advances and stays within the text, for any speeches.                *)
(*                                                                          *)
(* A recursive table whose entries refer to entries of a smaller measure     *)
(* exists, and its entries are of the type that each gives if those it       *)
(* refers to do.  Both compare with an entry of the smallest measure that    *)
(* would not be so.                                                          *)
Recursion(S, V, go, next, comb, base, measure) ==
  /\ go \in SUBSET S /\ next \in [S -> S] /\ comb \in [S -> [V -> V]] /\ base \in [S -> V]
  /\ measure \in [S -> Nat] /\ \A x \in go : measure[next[x]] < measure[x]

Recurs(f, S, go, next, comb, base) ==
  \A x \in S : f[x] = IF x \in go THEN comb[x][f[next[x]]] ELSE base[x]

RecursTo(n, f, S, go, next, comb, base, measure) ==
  \A x \in S : measure[x] < n => f[x] = IF x \in go THEN comb[x][f[next[x]]] ELSE base[x]

LEMMA RecursionGoes ==
  ASSUME NEW S, NEW V, NEW go, NEW next, NEW comb, NEW base, NEW measure,
         Recursion(S, V, go, next, comb, base, measure),
         NEW n \in Nat, NEW f \in [S -> V], RecursTo(n, f, S, go, next, comb, base, measure)
  PROVE  \E g \in [S -> V] : RecursTo(n + 1, g, S, go, next, comb, base, measure)
<1> USE DEF Recursion, RecursTo
<1> DEFINE g == [x \in S |-> IF x \in go THEN comb[x][f[next[x]]] ELSE base[x]]
<1>1. g \in [S -> V]
  <2>1. SUFFICES ASSUME NEW x \in S PROVE (IF x \in go THEN comb[x][f[next[x]]] ELSE base[x]) \in V
    OBVIOUS
  <2>2. comb[x] \in [V -> V] /\ f[next[x]] \in V /\ base[x] \in V
    OBVIOUS
  <2>3. QED
    BY <2>2
<1>2. ASSUME NEW x \in S, measure[x] < n + 1
      PROVE  g[x] = IF x \in go THEN comb[x][g[next[x]]] ELSE base[x]
  <2>1. CASE x \in go
    <3>1. next[x] \in S /\ measure[next[x]] \in Nat /\ measure[x] \in Nat /\ measure[next[x]] < measure[x]
      BY <2>1
    <3>2. measure[next[x]] < n
      BY <1>2, <3>1
    <3>3. f[next[x]] = IF next[x] \in go THEN comb[next[x]][f[next[next[x]]]] ELSE base[next[x]]
      BY <3>1, <3>2
    <3>4. f[next[x]] = g[next[x]]
      BY <3>1, <3>3
    <3>5. QED
      BY <2>1, <3>4
  <2>2. QED
    BY <2>1
<1> HIDE DEF g
<1>3. QED
  BY <1>1, <1>2

LEMMA RecursionExists ==
  ASSUME NEW S, NEW V, NEW go, NEW next, NEW comb, NEW base, NEW measure,
         Recursion(S, V, go, next, comb, base, measure),
         NEW top \in Nat, \A x \in S : measure[x] <= top
  PROVE  \E f \in [S -> V] : Recurs(f, S, go, next, comb, base)
<1> DEFINE Has(n) == \E f \in [S -> V] : RecursTo(n, f, S, go, next, comb, base, measure)
           Lacking == {n \in Nat : ~Has(n)}
<1>1. measure \in [S -> Nat] /\ base \in [S -> V]
  BY DEF Recursion
<1>2. Has(0)
  <2>1. \A x \in S : ~(measure[x] < 0)
    BY <1>1
  <2>2. RecursTo(0, base, S, go, next, comb, base, measure)
    BY <2>1 DEF RecursTo
  <2>3. QED
    BY <1>1, <2>2
<1>3. ASSUME NEW n \in Nat, Has(n) PROVE Has(n + 1)
  BY <1>3, RecursionGoes
<1>4. Lacking = {}
  <2>1. SUFFICES ASSUME Lacking # {} PROVE FALSE
    OBVIOUS
  <2>2. PICK n \in Lacking : \A m \in Lacking : n <= m
    <3>1. Lacking \in SUBSET Nat
      OBVIOUS
    <3> HIDE DEF Lacking
    <3>2. QED
      BY <2>1, <3>1, LeastSuch
  <2> HIDE DEF Has
  <2>3. n # 0 /\ n \in Nat /\ ~Has(n)
    BY <1>2, <2>2
  <2>4. n - 1 \in Nat /\ n - 1 \notin Lacking
    BY <2>2, <2>3
  <2>5. Has((n - 1) + 1)
    BY <1>3, <2>4
  <2>6. QED
    BY <2>3, <2>5
<1> HIDE DEF Has
<1>5. Has(top + 1)
  BY <1>4
<1>6. \A x \in S : measure[x] < top + 1
  BY <1>1
<1>7. QED
  BY <1>5, <1>6 DEF Has, Recurs, RecursTo

LEMMA RecursionTyped ==
  ASSUME NEW S, NEW V, NEW go, NEW next, NEW comb, NEW base, NEW measure,
         Recursion(S, V, go, next, comb, base, measure),
         NEW f, \A x \in S \ go : f[x] \in V, \A x \in go : f[next[x]] \in V => f[x] \in V
  PROVE  \A x \in S : f[x] \in V
<1> USE DEF Recursion
<1> DEFINE Bad == {measure[x] : x \in {y \in S : f[y] \notin V}}
<1>1. SUFFICES ASSUME Bad # {} PROVE FALSE
  OBVIOUS
<1>2. PICK n \in Bad : \A m \in Bad : n <= m
  <2>1. Bad \in SUBSET Nat
    OBVIOUS
  <2> HIDE DEF Bad
  <2>2. QED
    BY <1>1, <2>1, LeastSuch
<1>3. PICK x \in S : f[x] \notin V /\ n = measure[x]
  BY <1>2
<1>4. x \in go
  BY <1>3
<1>5. next[x] \in S /\ measure[next[x]] \in Nat /\ measure[x] \in Nat
  BY <1>4
<1>6. f[next[x]] \notin V
  BY <1>3, <1>4
<1>7. measure[next[x]] \in Bad
  BY <1>5, <1>6
<1>8. measure[next[x]] < measure[x] /\ measure[x] <= measure[next[x]]
  BY <1>2, <1>3, <1>4, <1>7
<1>9. QED
  BY <1>5, <1>8

-----------------------------------------------------------------------------
(* What a run of number words adds up to.                                   *)
Accumulated == [total : Nat, current : Nat]

NumberKinds == {"unit", "scale", "digits", "ordinal word", "denominator"}

LEMMA TokenFields ==
  ASSUME NEW token \in Token
  PROVE  /\ token.kind \in WordKinds /\ token.value \in Seq(Nat)
         /\ token.kind \in NumberKinds => token.value[1] \in Nat
<1>1. /\ token.kind \in WordKinds /\ token.value \in Seq(Nat)
      /\ token.kind \in NumberKinds => token.value # <<>>
  BY DEF Token, NumberKinds
<1>2. token.value # <<>> => Len(token.value) \in Nat \ {0} /\ 1 \in 1..Len(token.value)
  BY <1>1, EmptySeq, LenProperties
<1>3. token.value # <<>> => token.value[1] \in Nat
  BY <1>1, <1>2, ElementOfSeq
<1>4. QED
  BY <1>1, <1>3

LEMMA KindAdded ==
  ASSUME NEW sum \in Accumulated, NEW token \in Token
  PROVE  AddKind(sum, token) \in Accumulated
<1>1. sum.total \in Nat /\ sum.current \in Nat
  BY DEF Accumulated
<1> DEFINE group == IF sum.current = 0 THEN 1 ELSE sum.current
<1>2. group \in Nat
  BY <1>1
<1>3. \A v \in Nat : /\ [sum EXCEPT !.current = @ + v] \in Accumulated
                     /\ [total |-> sum.total + group * v, current |-> 0] \in Accumulated
                     /\ [sum EXCEPT !.current = group * v] \in Accumulated
  <2> HIDE DEF group
  <2>1. SUFFICES ASSUME NEW v \in Nat
                 PROVE  /\ [sum EXCEPT !.current = @ + v] \in Accumulated
                        /\ [total |-> sum.total + group * v, current |-> 0] \in Accumulated
                        /\ [sum EXCEPT !.current = group * v] \in Accumulated
    OBVIOUS
  <2>2. group * v \in Nat
    BY <1>2
  <2>3. sum.current + v \in Nat /\ sum.total + group * v \in Nat
    BY <1>1, <2>2
  <2>4. QED
    BY <2>2, <2>3 DEF Accumulated
<1>4. CASE token.kind \in {"unit", "scale"}
  <2>1. token.value[1] \in Nat
    BY <1>4, TokenFields DEF NumberKinds
  <2>2. PICK v \in Nat : v = token.value[1]
    BY <2>1
  <2>3. \/ AddKind(sum, token) = [sum EXCEPT !.current = @ + v]
        \/ AddKind(sum, token) = [total |-> sum.total + group * v, current |-> 0]
        \/ AddKind(sum, token) = [sum EXCEPT !.current = group * v]
    <3>1. v >= 1000 \/ v < 1000
      BY <2>2
    <3>2. QED
      BY <1>4, <2>2, <3>1 DEF AddKind
  <2>4. QED
    BY <1>3, <2>3
<1>5. CASE token.kind \notin {"unit", "scale"}
  BY <1>5 DEF AddKind
<1>6. QED
  BY <1>4, <1>5

NothingYet == [total |-> 0, current |-> 0]

SumTabled(table, seq) ==
  table = [s \in SUBSET DOMAIN seq |->
             IF s = {} THEN NothingYet ELSE AddKind(table[s \ {Max(s)}], seq[Max(s)])]

SumOfKinds(seq) == (CHOOSE table : SumTabled(table, seq))[DOMAIN seq]

LEMMA SumTable ==
  ASSUME NEW seq \in Seq(Token)
  PROVE  \E f \in [SUBSET DOMAIN seq -> Accumulated] : SumTabled(f, seq) /\ SumOfKinds(seq) = f[DOMAIN seq]
<1> DEFINE S == SUBSET DOMAIN seq
           go == S \ {{}}
           next == [s \in S |-> IF s = {} THEN s ELSE s \ {Max(s)}]
           comb == [s \in S |-> [v \in Accumulated |-> IF s = {} THEN v ELSE AddKind(v, seq[Max(s)])]]
           base == [s \in S |-> NothingYet]
           measure == [s \in S |-> Cardinality(s)]
<1>1. Len(seq) \in Nat /\ DOMAIN seq = 1..Len(seq) /\ \A i \in DOMAIN seq : seq[i] \in Token
  BY LenProperties, ElementOfSeq
<1>2. IsFiniteSet(DOMAIN seq) /\ Cardinality(DOMAIN seq) = Len(seq)
  BY <1>1, FS_Interval
<1>3. ASSUME NEW s \in S, s # {} PROVE Max(s) \in s
  <2>1. s \in SUBSET (0..Len(seq))
    BY <1>1
  <2>2. QED
    BY <1>1, <1>3, <2>1, GreatestSuch
<1>4. NothingYet \in Accumulated
  BY DEF NothingYet, Accumulated
<1>5. next \in [S -> S] /\ go \in SUBSET S /\ base \in [S -> Accumulated]
  BY <1>4
<1>6. comb \in [S -> [Accumulated -> Accumulated]]
  <2>1. ASSUME NEW s \in S, NEW v \in Accumulated
        PROVE  (IF s = {} THEN v ELSE AddKind(v, seq[Max(s)])) \in Accumulated
    <3>1. CASE s # {}
      <4>1. seq[Max(s)] \in Token
        BY <1>1, <1>3, <3>1
      <4>2. QED
        BY <3>1, <4>1, KindAdded
    <3>2. QED
      BY <3>1
  <2>2. QED
    BY <2>1
<1>7. measure \in [S -> Nat] /\ \A s \in S : measure[s] <= Len(seq)
  <2>1. SUFFICES ASSUME NEW s \in S PROVE Cardinality(s) \in Nat /\ Cardinality(s) <= Len(seq)
    OBVIOUS
  <2>2. QED
    BY <1>2, FS_Subset, FS_CardinalityType
<1>8. Recursion(S, Accumulated, go, next, comb, base, measure)
  <2>1. ASSUME NEW s \in go PROVE measure[next[s]] < measure[s]
    <3>1. Cardinality(s \ {Max(s)}) = Cardinality(s) - 1 /\ Cardinality(s) \in Nat
      BY <1>2, <1>3, SubsetSizes
    <3>2. QED
      BY <3>1
  <2> HIDE DEF S, go, next, comb, base, measure
  <2>2. QED
    BY <1>5, <1>6, <1>7, <2>1 DEF Recursion
<1>9. \E table \in [S -> Accumulated] : SumTabled(table, seq)
  <2>1. \E f \in [S -> Accumulated] : Recurs(f, S, go, next, comb, base)
    <3> HIDE DEF S, go, next, comb, base, measure
    <3>1. QED
      BY <1>1, <1>7, <1>8, RecursionExists
  <2>2. PICK f \in [S -> Accumulated] : \A s \in S :
          f[s] = IF s \in go THEN comb[s][f[next[s]]] ELSE base[s]
    BY <2>1 DEF Recurs
  <2>3. ASSUME NEW s \in S
        PROVE  f[s] = IF s = {} THEN NothingYet ELSE AddKind(f[s \ {Max(s)}], seq[Max(s)])
    BY <2>2
  <2>4. SumTabled(f, seq)
    BY <2>3 DEF SumTabled
  <2>5. QED
    BY <2>4
<1>10. PICK f : f = (CHOOSE table : SumTabled(table, seq)) /\ SumTabled(f, seq)
  BY <1>9
<1>11. \A s \in S : f[s] \in Accumulated
  <2>1. \A s \in S \ go : f[s] \in Accumulated
    BY <1>4, <1>10 DEF SumTabled
  <2>2. \A s \in go : f[next[s]] \in Accumulated => f[s] \in Accumulated
    <3>1. SUFFICES ASSUME NEW s \in go, f[next[s]] \in Accumulated PROVE f[s] \in Accumulated
      OBVIOUS
    <3>2. f[s] = AddKind(f[s \ {Max(s)}], seq[Max(s)])
      BY <1>10 DEF SumTabled
    <3>3. seq[Max(s)] \in Token
      BY <1>1, <1>3
    <3>4. QED
      BY <3>1, <3>2, <3>3, KindAdded
  <2> HIDE DEF S, go, next, comb, base, measure
  <2>3. QED
    BY <1>8, <2>1, <2>2, RecursionTyped
<1>12. f \in [S -> Accumulated]
  <2>1. f = [s \in S |-> f[s]]
    BY <1>10 DEF SumTabled
  <2> HIDE DEF S
  <2>2. QED
    BY <1>11, <2>1
<1>13. QED
  BY <1>10, <1>12 DEF SumOfKinds

LEMMA SumTyped ==
  ASSUME NEW seq \in Seq(Token)
  PROVE  SumOfKinds(seq) \in Accumulated
<1>1. PICK f \in [SUBSET DOMAIN seq -> Accumulated] : SumOfKinds(seq) = f[DOMAIN seq]
  BY SumTable
<1>2. QED
  BY <1>1

LEMMA EvalTyped ==
  ASSUME NEW seq \in Seq(Token)
  PROVE  EvalKinds(seq) \in Nat
<1>1. FoldLeft(AddKind, NothingYet, seq) = SumOfKinds(seq)
  BY DEF FoldLeft, MapThenFoldSet, SumOfKinds, SumTabled
<1>2. SumOfKinds(seq).total \in Nat /\ SumOfKinds(seq).current \in Nat
  BY SumTyped DEF Accumulated
<1>3. EvalKinds(seq) = SumOfKinds(seq).total + SumOfKinds(seq).current
  BY <1>1 DEF EvalKinds, NothingYet
<1>4. QED
  BY <1>2, <1>3

-----------------------------------------------------------------------------
(* Where runs end.                                                          *)
LEMMA Words ==
  ASSUME text \in Seq(Token)
  PROVE  /\ Len(text) \in Nat /\ DOMAIN text = 1..Len(text)
         /\ \A j \in 1..Len(text) : text[j] \in Token /\ Kind(j) = text[j].kind
         /\ \A j : j \notin 1..Len(text) => Kind(j) = "none"
<1>1. Len(text) \in Nat /\ DOMAIN text = 1..Len(text) /\ \A j \in 1..Len(text) : text[j] \in Token
  BY LenProperties, ElementOfSeq
<1>2. QED
  BY <1>1 DEF Kind

LEMMA InText ==
  ASSUME text \in Seq(Token), NEW j, Kind(j) # "none"
  PROVE  /\ j \in 1..Len(text) /\ text[j] \in Token /\ Kind(j) = text[j].kind
         /\ Kind(j) \in NumberKinds => text[j].value[1] \in Nat
BY Words, TokenFields

\* Of what may stop, the first does.
LEMMA FirstStop ==
  ASSUME NEW i \in Nat, NEW last \in Nat, i <= last, NEW Stops \in SUBSET (i..last), last \in Stops
  PROVE  \E j \in i..last : j \in Stops /\ \A k \in i..(j - 1) : k \notin Stops
<1>1. PICK j \in Stops : \A k \in Stops : j <= k
  <2>1. Stops \in SUBSET Nat
    OBVIOUS
  <2>2. QED
    BY <2>1, LeastSuch
<1>2. \A k \in i..(j - 1) : k \notin Stops
  BY <1>1
<1>3. QED
  BY <1>1, <1>2

LEMMA RunEnds ==
  ASSUME text \in Seq(Token), NEW i \in 1..(Len(text) + 1)
  PROVE  /\ RunEnd(i) \in i..(Len(text) + 1) /\ ~RunGoesOn(i, RunEnd(i))
         /\ \A k \in i..(RunEnd(i) - 1) : RunGoesOn(i, k)
<1> DEFINE last == Len(text) + 1
           Stops == {j \in i..last : ~RunGoesOn(i, j)}
<1>1. Len(text) \in Nat /\ i \in Nat /\ last \in Nat /\ i <= last
  BY Words
<1>2. last \in Stops
  <2>1. Kind(last) = "none"
    BY <1>1, Words
  <2>2. QED
    BY <1>1, <2>1 DEF RunGoesOn
<1>3. \E j \in i..last : j \in Stops /\ \A k \in i..(j - 1) : k \notin Stops
  <2>1. Stops \in SUBSET (i..last)
    OBVIOUS
  <2> HIDE DEF last, Stops
  <2>2. QED
    BY <1>1, <1>2, <2>1, FirstStop
<1>4. PICK j \in i..last : j \in Stops /\ \A k \in i..(j - 1) : k \notin Stops
  BY <1>3
<1>5. \A k \in i..(j - 1) : k \in i..last
  BY <1>1
<1>6. ~RunGoesOn(i, j) /\ \A k \in i..(j - 1) : RunGoesOn(i, k)
  BY <1>4, <1>5
<1>7. QED
  BY <1>6 DEF RunEnd

LEMMA DigitsEndAt ==
  ASSUME text \in Seq(Token), NEW i \in 1..(Len(text) + 1)
  PROVE  /\ DigitsEnd(i) \in i..(Len(text) + 1) /\ ~IsDigit(DigitsEnd(i))
         /\ \A k \in i..(DigitsEnd(i) - 1) : IsDigit(k)
<1> DEFINE last == Len(text) + 1
           Stops == {j \in i..last : ~IsDigit(j)}
<1>1. Len(text) \in Nat /\ i \in Nat /\ last \in Nat /\ i <= last
  BY Words
<1>2. last \in Stops
  <2>1. Kind(last) = "none"
    BY <1>1, Words
  <2>2. QED
    BY <1>1, <2>1 DEF IsDigit
<1>3. \E j \in i..last : j \in Stops /\ \A k \in i..(j - 1) : k \notin Stops
  <2>1. Stops \in SUBSET (i..last)
    OBVIOUS
  <2> HIDE DEF last, Stops
  <2>2. QED
    BY <1>1, <1>2, <2>1, FirstStop
<1>4. PICK j \in i..last : j \in Stops /\ \A k \in i..(j - 1) : k \notin Stops
  BY <1>3
<1>5. \A k \in i..(j - 1) : k \in i..last
  BY <1>1
<1>6. ~IsDigit(j) /\ \A k \in i..(j - 1) : IsDigit(k)
  BY <1>4, <1>5
<1>7. QED
  BY <1>6 DEF DigitsEnd

\* A number takes at least a word and ends within the text.
LEMMA NumberEnds ==
  ASSUME text \in Seq(Token), NEW i, IsNumberAt(i)
  PROVE  i \in 1..Len(text) /\ NumberEnd(i) \in i + 1..(Len(text) + 1)
<1>1. i \in 1..Len(text) /\ Len(text) \in Nat
  BY InText, Words DEF IsNumberAt, IsNumberWord
<1>2. CASE Kind(i) = "digits"
  BY <1>1, <1>2 DEF NumberEnd
<1>3. CASE Kind(i) # "digits"
  <2>1. RunGoesOn(i, i)
    <3>1. Kind(i) \in {"unit", "scale"}
      BY <1>3 DEF IsNumberAt, IsNumberWord
    <3>2. CASE Kind(i) = "unit"
      <4>1. text[i].value[1] \in Nat
        BY <3>2, InText DEF NumberKinds
      <4>2. Tier(text[i].value[1]) < NoTier
        BY <4>1 DEF Tier, NoTier
      <4>3. {k \in i..(i - 1) : IsNumberWord(k)} = {}
        BY <1>1
      <4>4. LastTier(i, i) = NoTier
        BY <4>3 DEF LastTier
      <4>5. QED
        BY <3>2, <4>2, <4>4 DEF RunGoesOn
    <3>3. QED
      BY <3>1, <3>2 DEF RunGoesOn
  <2>2. RunEnd(i) \in i..(Len(text) + 1) /\ ~RunGoesOn(i, RunEnd(i))
    <3>1. i \in 1..(Len(text) + 1)
      BY <1>1
    <3>2. QED
      BY <3>1, RunEnds
  <2>3. RunEnd(i) # i
    BY <2>1, <2>2
  <2>4. NumberEnd(i) = RunEnd(i)
    BY <1>3 DEF NumberEnd
  <2>5. QED
    BY <1>1, <2>2, <2>3, <2>4
<1>4. QED
  BY <1>2, <1>3

LEMMA NumberTyped ==
  ASSUME text \in Seq(Token), NEW i, IsNumberAt(i)
  PROVE  NumberAt(i) \in Nat
<1>1. i \in 1..Len(text) /\ Len(text) \in Nat
  BY NumberEnds, Words
<1>2. CASE Kind(i) = "digits"
  BY <1>2, InText DEF NumberAt, NumberKinds
<1>3. CASE Kind(i) # "digits"
  <2>1. RunEnd(i) \in i..(Len(text) + 1)
    <3>1. i \in 1..(Len(text) + 1)
      BY <1>1
    <3>2. QED
      BY <3>1, RunEnds
  <2>2. PICK e \in Nat : e = RunEnd(i) - 1 /\ e \in 0..Len(text) /\ i - 1 <= e
    BY <1>1, <2>1
  <2>3. SubSeq(text, i, e) \in Seq(Token)
    <3>1. \A k \in i..e : text[k] \in Token
      BY <1>1, <2>2, Words
    <3>2. QED
      BY <1>1, <2>2, <3>1, SubSeqProperties
  <2>4. EvalKinds(SubSeq(text, i, e)) \in Nat
    BY <2>3, EvalTyped
  <2>5. QED
    BY <1>3, <2>2, <2>4 DEF NumberAt
<1>4. QED
  BY <1>2, <1>3

-----------------------------------------------------------------------------
(* Formulas.                                                                *)
LEMMA ChainSteps ==
  ASSUME text \in Seq(Token), NEW i \in 1..(Len(text) + 1), NEW j \in i..(Len(text) + 1), ChainGoesOn(j)
  PROVE  /\ NumberEnd(j + 1) \in i..(Len(text) + 1) /\ j < NumberEnd(j + 1)
         /\ text[j] \in Token /\ NumberAt(j + 1) \in Nat
<1>1. Kind(j) = "operator" /\ IsNumberAt(j + 1)
  BY DEF ChainGoesOn
<1>2. NumberEnd(j + 1) \in (j + 1) + 1..(Len(text) + 1) /\ NumberAt(j + 1) \in Nat
  BY <1>1, NumberEnds, NumberTyped
<1>3. text[j] \in Token /\ Len(text) \in Nat
  BY <1>1, InText, Words
<1>4. QED
  BY <1>2, <1>3

Onwards(i) == {j \in i..(Len(text) + 1) : ChainGoesOn(j)}

NextNumber(i) == [j \in i..(Len(text) + 1) |-> IF ChainGoesOn(j) THEN NumberEnd(j + 1) ELSE j]

ToEnd(i) == [j \in i..(Len(text) + 1) |-> Len(text) + 1 - j]

\* A table of a formula refers to the entry of its next number.
LEMMA ChainRecurs ==
  ASSUME text \in Seq(Token), NEW i \in 1..(Len(text) + 1), NEW S, S = i..(Len(text) + 1),
         NEW V, NEW comb \in [S -> [V -> V]], NEW base \in [S -> V]
  PROVE  /\ Recursion(S, V, Onwards(i), NextNumber(i), comb, base, ToEnd(i))
         /\ Len(text) \in Nat /\ \A j \in S : ToEnd(i)[j] <= Len(text)
<1>1. Len(text) \in Nat /\ i \in Nat /\ i >= 1
  BY Words
<1>2. Onwards(i) \in SUBSET S
  BY DEF Onwards
<1>3. NextNumber(i) \in [S -> S]
  BY ChainSteps DEF NextNumber
<1>4. \A j \in S : j \in Nat /\ Len(text) + 1 - j <= Len(text) /\ Len(text) + 1 - j \in Nat
  BY <1>1
<1>5. ToEnd(i) \in [S -> Nat] /\ \A j \in S : ToEnd(i)[j] <= Len(text)
  BY <1>4 DEF ToEnd
<1>6. ASSUME NEW j \in Onwards(i) PROVE ToEnd(i)[NextNumber(i)[j]] < ToEnd(i)[j]
  <2>1. j \in S /\ ChainGoesOn(j)
    BY DEF Onwards
  <2>2. NextNumber(i)[j] = NumberEnd(j + 1) /\ NumberEnd(j + 1) \in S /\ j < NumberEnd(j + 1)
    BY <2>1, ChainSteps DEF NextNumber
  <2>3. PICK n \in S : n = NumberEnd(j + 1)
    BY <2>2
  <2>4. ToEnd(i)[n] = Len(text) + 1 - n /\ ToEnd(i)[j] = Len(text) + 1 - j
    BY <2>1 DEF ToEnd
  <2>5. Len(text) + 1 - n < Len(text) + 1 - j
    BY <1>1, <1>4, <2>1, <2>2, <2>3
  <2>6. QED
    BY <2>2, <2>3, <2>4, <2>5
<1>7. QED
  BY <1>1, <1>2, <1>3, <1>5, <1>6 DEF Recursion

\* The two tables of a formula.
EndTabled(table, i) ==
  table = [j \in i..(Len(text) + 1) |-> IF ChainGoesOn(j) THEN table[NumberEnd(j + 1)] ELSE j]

WriteTabled(table, i) ==
  table = [j \in i..(Len(text) + 1) |->
             IF ChainGoesOn(j)
             THEN <<Tok("sign", text[j].value), Tok("digits", <<NumberAt(j + 1)>>)>> \o table[NumberEnd(j + 1)]
             ELSE <<>>]

LEMMA EndTable ==
  ASSUME text \in Seq(Token), NEW i, IsNumberAt(i)
  PROVE  \E f : EndTabled(f, i) /\ ChainEnd(i) = f[NumberEnd(i)]
<1> DEFINE S == i..(Len(text) + 1)
           comb == [j \in S |-> [v \in S |-> v]]
           base == [j \in S |-> j]
<1>1. /\ i \in 1..(Len(text) + 1) /\ NumberEnd(i) \in S /\ Len(text) \in Nat
  BY NumberEnds, Words
<1>2. comb \in [S -> [S -> S]] /\ base \in [S -> S]
  OBVIOUS
<1>3. /\ Recursion(S, S, Onwards(i), NextNumber(i), comb, base, ToEnd(i))
      /\ \A j \in S : ToEnd(i)[j] <= Len(text)
  <2> HIDE DEF S, comb, base
  <2>1. S = i..(Len(text) + 1)
    BY DEF S
  <2>2. QED
    BY <1>1, <1>2, <2>1, ChainRecurs
<1>4. \E f \in [S -> S] : EndTabled(f, i)
  <2>1. \E f \in [S -> S] : Recurs(f, S, Onwards(i), NextNumber(i), comb, base)
    <3> HIDE DEF S, comb, base
    <3>1. QED
      BY <1>1, <1>3, RecursionExists
  <2>2. PICK f \in [S -> S] : \A j \in S :
          f[j] = IF j \in Onwards(i) THEN comb[j][f[NextNumber(i)[j]]] ELSE base[j]
    BY <2>1 DEF Recurs
  <2>3. \A j \in S : f[j] = IF ChainGoesOn(j) THEN f[NumberEnd(j + 1)] ELSE j
    <3>1. SUFFICES ASSUME NEW j \in S PROVE f[j] = IF ChainGoesOn(j) THEN f[NumberEnd(j + 1)] ELSE j
      OBVIOUS
    <3>2. CASE ChainGoesOn(j)
      <4>1. j \in Onwards(i) /\ NextNumber(i)[j] = NumberEnd(j + 1) /\ NumberEnd(j + 1) \in S
        BY <1>1, <3>2, ChainSteps DEF Onwards, NextNumber
      <4>2. PICK n \in S : n = NumberEnd(j + 1)
        BY <4>1
      <4>3. f[j] = f[n]
        BY <2>2, <4>1, <4>2
      <4>4. QED
        BY <3>2, <4>2, <4>3
    <3>3. CASE ~ChainGoesOn(j)
      BY <2>2, <3>3 DEF Onwards
    <3>4. QED
      BY <3>2, <3>3
  <2>4. EndTabled(f, i)
    BY <2>3 DEF EndTabled
  <2>5. QED
    BY <2>4
<1>5. PICK f : f = (CHOOSE table : EndTabled(table, i)) /\ EndTabled(f, i)
  BY <1>4
<1>6. ChainEnd(i) = f[NumberEnd(i)]
  BY <1>5 DEF ChainEnd, EndTabled
<1>7. QED
  BY <1>5, <1>6

LEMMA ChainEnds ==
  ASSUME text \in Seq(Token), NEW i, IsNumberAt(i)
  PROVE  ChainEnd(i) \in i..(Len(text) + 1)
<1> DEFINE S == i..(Len(text) + 1)
           comb == [j \in S |-> [v \in S |-> v]]
           base == [j \in S |-> j]
<1>1. /\ i \in 1..(Len(text) + 1) /\ NumberEnd(i) \in S /\ Len(text) \in Nat
  BY NumberEnds, Words
<1>2. comb \in [S -> [S -> S]] /\ base \in [S -> S]
  OBVIOUS
<1>3. /\ Recursion(S, S, Onwards(i), NextNumber(i), comb, base, ToEnd(i))
      /\ \A j \in S : ToEnd(i)[j] <= Len(text)
  <2> HIDE DEF S, comb, base
  <2>1. S = i..(Len(text) + 1)
    BY DEF S
  <2>2. QED
    BY <1>1, <1>2, <2>1, ChainRecurs
<1>4. PICK f : EndTabled(f, i) /\ ChainEnd(i) = f[NumberEnd(i)]
  BY EndTable
<1>5. \A j \in S : f[j] \in S
  <2>1. \A j \in S \ Onwards(i) : f[j] \in S
    BY <1>4 DEF EndTabled, Onwards
  <2>2. \A j \in Onwards(i) : f[NextNumber(i)[j]] \in S => f[j] \in S
    BY <1>4 DEF EndTabled, Onwards, NextNumber
  <2> HIDE DEF S, comb, base
  <2>3. QED
    BY <1>3, <2>1, <2>2, RecursionTyped
<1>6. QED
  BY <1>1, <1>4, <1>5

-----------------------------------------------------------------------------
\* What is written of a formula are words.
LEMMA TokenMade ==
  ASSUME NEW kind \in WordKinds, NEW value \in Seq(Nat), value # <<>>
  PROVE  Tok(kind, value) \in Token
BY DEF Tok, Token

LEMMA NumberMade ==
  ASSUME NEW kind \in WordKinds, NEW n \in Nat
  PROVE  Tok(kind, <<n>>) \in Token
<1>1. <<n>> \in Seq(Nat) /\ <<n>> # <<>>
  OBVIOUS
<1>2. QED
  BY <1>1, TokenMade

LEMMA WriteTable ==
  ASSUME text \in Seq(Token), NEW i, IsNumberAt(i)
  PROVE  \E f : /\ WriteTabled(f, i) /\ f[NumberEnd(i)] \in Seq(Token)
               /\ Chain(i) = <<Tok("digits", <<NumberAt(i)>>)>> \o f[NumberEnd(i)]
<1> DEFINE S == i..(Len(text) + 1)
           V == Seq(Token)
           two(j) == <<Tok("sign", text[j].value), Tok("digits", <<NumberAt(j + 1)>>)>>
           comb == [j \in S |-> [v \in V |-> IF j \in Onwards(i) THEN two(j) \o v ELSE v]]
           base == [j \in S |-> <<>>]
<1>1. /\ i \in 1..(Len(text) + 1) /\ NumberEnd(i) \in S /\ Len(text) \in Nat
  BY NumberEnds, Words
<1>2. ASSUME NEW j \in S, ChainGoesOn(j) PROVE two(j) \in V
  <2>1. NumberAt(j + 1) \in Nat /\ text[j] \in Token
    BY <1>1, <1>2, ChainSteps
  <2>2. Tok("digits", <<NumberAt(j + 1)>>) \in Token
    BY <2>1, NumberMade DEF WordKinds
  <2>3. text[j].value \in Seq(Nat)
    BY <2>1, TokenFields
  <2>4. Tok("sign", text[j].value) \in Token
    BY <2>3 DEF Tok, Token, WordKinds
  <2>5. QED
    BY <2>2, <2>4
<1>3. <<>> \in V
  BY EmptySeq
<1>4. comb \in [S -> [V -> V]] /\ base \in [S -> V]
  <2>1. ASSUME NEW j \in S, NEW v \in V PROVE (IF j \in Onwards(i) THEN two(j) \o v ELSE v) \in V
    <3>1. CASE j \in Onwards(i)
      <4>1. two(j) \in Seq(Token)
        BY <1>2, <3>1 DEF Onwards
      <4> HIDE DEF two
      <4>2. QED
        BY <3>1, <4>1, ConcatProperties
    <3>2. QED
      BY <3>1
  <2> HIDE DEF two
  <2>2. QED
    BY <1>3, <2>1
<1>5. /\ Recursion(S, V, Onwards(i), NextNumber(i), comb, base, ToEnd(i))
      /\ \A j \in S : ToEnd(i)[j] <= Len(text)
  <2> HIDE DEF S, V, comb, base
  <2>1. S = i..(Len(text) + 1)
    BY DEF S
  <2>2. QED
    BY <1>1, <1>4, <2>1, ChainRecurs
<1>6. \E f \in [S -> V] : WriteTabled(f, i)
  <2>1. \E f \in [S -> V] : Recurs(f, S, Onwards(i), NextNumber(i), comb, base)
    <3> HIDE DEF S, V, comb, base
    <3>1. QED
      BY <1>1, <1>5, RecursionExists
  <2>2. PICK f \in [S -> V] : \A j \in S :
          f[j] = IF j \in Onwards(i) THEN comb[j][f[NextNumber(i)[j]]] ELSE base[j]
    BY <2>1 DEF Recurs
  <2>3. \A j \in S : f[j] = IF ChainGoesOn(j) THEN two(j) \o f[NumberEnd(j + 1)] ELSE <<>>
    <3>1. SUFFICES ASSUME NEW j \in S
                   PROVE  f[j] = IF ChainGoesOn(j) THEN two(j) \o f[NumberEnd(j + 1)] ELSE <<>>
      OBVIOUS
    <3> HIDE DEF two
    <3>2. CASE ChainGoesOn(j)
      <4>1. j \in Onwards(i) /\ NextNumber(i)[j] = NumberEnd(j + 1) /\ NumberEnd(j + 1) \in S
        BY <1>1, <3>2, ChainSteps DEF Onwards, NextNumber
      <4>2. PICK n \in S : n = NumberEnd(j + 1)
        BY <4>1
      <4>3. f[n] \in V
        BY <2>2
      <4>4. comb[j][f[n]] = two(j) \o f[n]
        BY <4>1, <4>3
      <4>5. f[j] = two(j) \o f[n]
        BY <2>2, <4>1, <4>2, <4>4
      <4>6. QED
        BY <3>2, <4>2, <4>5
    <3>3. CASE ~ChainGoesOn(j)
      BY <2>2, <3>3 DEF Onwards
    <3>4. QED
      BY <3>2, <3>3
  <2>4. WriteTabled(f, i)
    BY <2>3 DEF WriteTabled
  <2>5. QED
    BY <2>4
<1>7. PICK f : f = (CHOOSE table : WriteTabled(table, i)) /\ WriteTabled(f, i)
  BY <1>6
<1>8. \A j \in S : f[j] = IF ChainGoesOn(j) THEN two(j) \o f[NumberEnd(j + 1)] ELSE <<>>
  BY <1>7 DEF WriteTabled
<1>9. \A j \in S : f[j] \in V
  <2>1. \A j \in S \ Onwards(i) : f[j] \in V
    BY <1>3, <1>8 DEF Onwards
  <2>2. \A j \in Onwards(i) : f[NextNumber(i)[j]] \in V => f[j] \in V
    <3>1. SUFFICES ASSUME NEW j \in Onwards(i), f[NextNumber(i)[j]] \in V PROVE f[j] \in V
      OBVIOUS
    <3>2. j \in S /\ ChainGoesOn(j) /\ NextNumber(i)[j] = NumberEnd(j + 1)
      BY DEF Onwards, NextNumber
    <3>3. two(j) \in Seq(Token) /\ f[NumberEnd(j + 1)] \in Seq(Token)
      BY <1>2, <3>1, <3>2
    <3> HIDE DEF two
    <3>4. f[j] = two(j) \o f[NumberEnd(j + 1)]
      BY <1>8, <3>2
    <3>5. QED
      BY <3>3, <3>4, ConcatProperties
  <2> HIDE DEF S, V, comb, base
  <2>3. QED
    BY <1>5, <2>1, <2>2, RecursionTyped
<1>10. Chain(i) = <<Tok("digits", <<NumberAt(i)>>)>> \o f[NumberEnd(i)]
  BY <1>7 DEF Chain, WriteTabled
<1>11. f[NumberEnd(i)] \in Seq(Token)
  BY <1>1, <1>9
<1>12. QED
  BY <1>7, <1>10, <1>11

LEMMA ChainWritten ==
  ASSUME text \in Seq(Token), NEW i, IsNumberAt(i)
  PROVE  Chain(i) \in Seq(Token)
<1>1. PICK rest \in Seq(Token) : Chain(i) = <<Tok("digits", <<NumberAt(i)>>)>> \o rest
  BY WriteTable
<1>2. <<Tok("digits", <<NumberAt(i)>>)>> \in Seq(Token)
  <2>1. Tok("digits", <<NumberAt(i)>>) \in Token
    BY NumberTyped, NumberMade DEF WordKinds
  <2>2. QED
    BY <2>1
<1>3. QED
  BY <1>1, <1>2, ConcatProperties

-----------------------------------------------------------------------------
(* A match writes words, and goes on within the text.                       *)
Goes(match, i) == match.written \in Seq(Token) /\ match.end \in i + 1..(Len(text) + 1)

LEMMA OneGoes ==
  ASSUME text \in Seq(Token), NEW i, NEW token \in Token, NEW end \in i + 1..(Len(text) + 1)
  PROVE  Goes(Match(<<token>>, end), i)
BY DEF Goes, Match

LEMMA NumberGoes ==
  ASSUME text \in Seq(Token), NEW i, NEW kind \in WordKinds, NEW n \in Nat, NEW end \in i + 1..(Len(text) + 1)
  PROVE  Goes(Match(<<Tok(kind, <<n>>)>>, end), i)
BY NumberMade, OneGoes

LEMMA PairGoes ==
  ASSUME text \in Seq(Token), NEW i, NEW kind \in WordKinds, NEW m \in Nat, NEW n \in Nat,
         NEW end \in i + 1..(Len(text) + 1)
  PROVE  Goes(Match(<<Tok(kind, <<m, n>>)>>, end), i)
<1>1. <<m, n>> \in Seq(Nat) /\ <<m, n>> # <<>>
  OBVIOUS
<1>2. Tok(kind, <<m, n>>) \in Token
  BY <1>1, TokenMade
<1>3. QED
  BY <1>2, OneGoes

LEMMA CopyGoes ==
  ASSUME text \in Seq(Token), NEW i \in 1..Len(text)
  PROVE  Goes(NoMatch(i), i)
<1>1. text[i] \in Token /\ i + 1 \in i + 1..(Len(text) + 1)
  BY Words
<1>2. QED
  BY <1>1, OneGoes DEF NoMatch

\* A number and the word after it.
LEMMA NumberThen ==
  ASSUME text \in Seq(Token), NEW i, IsNumberAt(i)
  PROVE  /\ NumberAt(i) \in Nat /\ NumberEnd(i) \in i + 1..(Len(text) + 1)
         /\ Kind(NumberEnd(i)) # "none" =>
              NumberEnd(i) \in 1..Len(text) /\ NumberEnd(i) + 1 \in i + 1..(Len(text) + 1)
<1>1. NumberAt(i) \in Nat /\ NumberEnd(i) \in i + 1..(Len(text) + 1) /\ i \in 1..Len(text) /\ Len(text) \in Nat
  BY NumberTyped, NumberEnds, Words
<1>2. PICK end \in i + 1..(Len(text) + 1) : end = NumberEnd(i)
  BY <1>1
<1>3. Kind(end) # "none" => end \in 1..Len(text)
  BY <1>2, InText
<1>4. end \in 1..Len(text) => end + 1 \in i + 1..(Len(text) + 1)
  BY <1>1, <1>2
<1>5. QED
  BY <1>1, <1>2, <1>3, <1>4

LEMMA CurrencyGoes ==
  ASSUME text \in Seq(Token), NEW i \in 1..Len(text)
  PROVE  Goes(CurrencyAt(i), i)
<1>1. CASE IsNumberAt(i) /\ Kind(NumberEnd(i)) = "dollars"
  <2>1. NumberAt(i) \in Nat /\ NumberEnd(i) + 1 \in i + 1..(Len(text) + 1)
    BY <1>1, NumberThen
  <2>2. QED
    BY <1>1, <2>1, NumberGoes DEF WordKinds, CurrencyAt
<1>2. CASE ~(IsNumberAt(i) /\ Kind(NumberEnd(i)) = "dollars")
  BY <1>2, CopyGoes DEF CurrencyAt
<1>3. QED
  BY <1>1, <1>2

LEMMA PercentsGo ==
  ASSUME text \in Seq(Token), NEW i \in 1..Len(text)
  PROVE  Goes(PercentsAt(i), i)
<1> DEFINE end == NumberEnd(i)
           asShare == Match(<<Tok("percentage", <<NumberAt(i)>>)>>, end + 1)
           asFraction == Match(<<Tok("fraction", <<NumberAt(i), text[end].value[1]>>)>>, end + 1)
<1>1. ASSUME IsNumberAt(i), Kind(end) = "percent" PROVE Goes(asShare, i)
  <2>1. NumberAt(i) \in Nat /\ end + 1 \in i + 1..(Len(text) + 1)
    BY <1>1, NumberThen
  <2>2. QED
    BY <2>1, NumberGoes DEF WordKinds
<1>2. ASSUME IsNumberAt(i), IsDenominator(end) PROVE Goes(asFraction, i)
  <2>1. Kind(end) \in {"denominator", "ordinal word"}
    BY <1>2 DEF IsDenominator
  <2>2. NumberAt(i) \in Nat /\ end + 1 \in i + 1..(Len(text) + 1)
    BY <1>2, <2>1, NumberThen
  <2>3. text[end].value[1] \in Nat
    BY <2>1, InText DEF NumberKinds
  <2>4. QED
    BY <2>2, <2>3, PairGoes DEF WordKinds
<1>3. Goes(NoMatch(i), i)
  BY CopyGoes
<1>4. PercentsAt(i) = CASE IsNumberAt(i) /\ Kind(end) = "percent" -> asShare
                        [] IsNumberAt(i) /\ IsDenominator(end) -> asFraction
                        [] OTHER -> NoMatch(i)
  BY DEF PercentsAt
<1> HIDE DEF end, asShare, asFraction
<1>5. QED
  BY <1>1, <1>2, <1>3, <1>4

LEMMA DedupGoes ==
  ASSUME text \in Seq(Token), NEW i \in 1..Len(text)
  PROVE  Goes(DedupAt(i), i)
<1>1. Goes(Match(<<>>, i + 1), i)
  <2>1. i + 1 \in i + 1..(Len(text) + 1)
    BY Words
  <2>2. QED
    BY <2>1, EmptySeq DEF Goes, Match
<1>2. QED
  BY <1>1, CopyGoes DEF DedupAt

LEMMA FormulasGo ==
  ASSUME text \in Seq(Token), NEW i \in 1..Len(text)
  PROVE  Goes(FormulasAt(i), i)
<1> DEFINE asSquare == Match(<<Tok("square", <<NumberAt(i)>>)>>, NumberEnd(i) + 1)
           asChain == Match(Chain(i), ChainEnd(i))
<1>1. ASSUME IsNumberAt(i), Kind(NumberEnd(i)) = "squared" PROVE Goes(asSquare, i)
  <2>1. NumberAt(i) \in Nat /\ NumberEnd(i) + 1 \in i + 1..(Len(text) + 1)
    BY <1>1, NumberThen
  <2>2. QED
    BY <2>1, NumberGoes DEF WordKinds
<1>2. ASSUME IsNumberAt(i), ChainEnd(i) > NumberEnd(i) PROVE Goes(asChain, i)
  <2>1. Chain(i) \in Seq(Token) /\ ChainEnd(i) \in i..(Len(text) + 1) /\ NumberEnd(i) \in i + 1..(Len(text) + 1)
    BY <1>2, ChainWritten, ChainEnds, NumberThen
  <2>2. ChainEnd(i) \in i + 1..(Len(text) + 1)
    BY <1>2, <2>1, Words
  <2>3. QED
    BY <2>1, <2>2 DEF Goes, Match
<1>3. Goes(NoMatch(i), i)
  BY CopyGoes
<1>4. FormulasAt(i) = CASE IsNumberAt(i) /\ Kind(NumberEnd(i)) = "squared" -> asSquare
                        [] IsNumberAt(i) /\ ChainEnd(i) > NumberEnd(i) -> asChain
                        [] OTHER -> NoMatch(i)
  BY DEF FormulasAt
<1> HIDE DEF asSquare, asChain
<1>5. QED
  BY <1>1, <1>2, <1>3, <1>4

LEMMA HourTyped ==
  ASSUME NEW hour \in Nat, NEW j
  PROVE  Meridiem(hour, j) \in Nat
BY DEF Meridiem

LEMMA TimesGo ==
  ASSUME text \in Seq(Token), NEW i \in 1..Len(text)
  PROVE  Goes(TimesAt(i), i)
<1> DEFINE after == NumberEnd(i)
           minutes == IF IsNumberAt(after + 1) THEN NumberAt(after + 1) ELSE 0
           ending == IF IsNumberAt(after + 1) THEN NumberEnd(after + 1) ELSE after + 1
           pairEnd == IF Kind(i + 2) \in {"am", "pm"} THEN i + 3 ELSE i + 2
           hourEnd == IF Kind(ending) = "minutes" /\ ending > after + 1 THEN ending + 1 ELSE ending
           asPair == Match(<<Clock(Meridiem(text[i].value[1], i + 2), text[i + 1].value[1])>>, pairEnd)
           asHours == Match(<<Clock(NumberAt(i), minutes)>>, hourEnd)
<1>1. Len(text) \in Nat
  BY Words
<1>2. ASSUME Kind(i) = "digits", Kind(i + 1) = "digits" PROVE Goes(asPair, i)
  <2>1. text[i].value[1] \in Nat /\ text[i + 1].value[1] \in Nat /\ i + 1 \in 1..Len(text)
    BY <1>2, InText DEF NumberKinds
  <2>2. Kind(i + 2) \in {"am", "pm"} => i + 2 \in 1..Len(text)
    BY InText
  <2>3. pairEnd \in i + 1..(Len(text) + 1)
    BY <1>1, <2>1, <2>2
  <2>4. Meridiem(text[i].value[1], i + 2) \in Nat
    BY <2>1, HourTyped
  <2> HIDE DEF pairEnd
  <2>5. QED
    BY <2>1, <2>3, <2>4, PairGoes DEF WordKinds, Clock
<1>3. ASSUME IsNumberAt(i), Kind(after) = "oclock" PROVE Goes(asHours, i)
  <2>1. NumberAt(i) \in Nat /\ after \in i + 1..(Len(text) + 1) /\ after \in 1..Len(text)
    BY <1>3, NumberThen
  <2>2. PICK a \in Nat : a = after /\ i < a /\ a <= Len(text)
    BY <1>1, <2>1
  <2>3. minutes \in Nat
    BY NumberTyped
  <2>4. ending \in a + 1..(Len(text) + 1)
    <3>1. CASE IsNumberAt(a + 1)
      <4>1. NumberEnd(a + 1) \in (a + 1) + 1..(Len(text) + 1)
        BY <3>1, NumberEnds
      <4>2. ending = NumberEnd(a + 1)
        BY <2>2, <3>1
      <4> HIDE DEF ending
      <4>3. QED
        BY <1>1, <4>1, <4>2
    <3>2. CASE ~IsNumberAt(a + 1)
      BY <1>1, <2>2, <3>2
    <3>3. QED
      BY <3>1, <3>2
  <2> HIDE DEF after, ending, minutes
  <2>5. Kind(ending) = "minutes" => ending \in 1..Len(text)
    BY InText
  <2>6. hourEnd \in i + 1..(Len(text) + 1)
    BY <1>1, <2>2, <2>4, <2>5
  <2> HIDE DEF hourEnd
  <2>7. QED
    BY <2>1, <2>3, <2>6, PairGoes DEF WordKinds, Clock
<1>4. Goes(NoMatch(i), i)
  BY CopyGoes
<1>5. TimesAt(i) = CASE /\ Kind(i) = "digits" /\ Kind(i + 1) = "digits"
                        /\ IsTime(text[i].value[1], text[i + 1].value[1]) -> asPair
                     [] IsNumberAt(i) /\ Kind(after) = "oclock" /\ IsTime(NumberAt(i), minutes) -> asHours
                     [] OTHER -> NoMatch(i)
  BY DEF TimesAt
<1> HIDE DEF after, minutes, asPair, asHours
<1>6. QED
  BY <1>2, <1>3, <1>4, <1>5

LEMMA DigitTyped ==
  ASSUME text \in Seq(Token), NEW j, IsDigit(j)
  PROVE  j \in 1..Len(text) /\ text[j].value[1] \in Nat
BY InText DEF IsDigit, NumberKinds

LEMMA NumbersGo ==
  ASSUME text \in Seq(Token), NEW i \in 1..Len(text)
  PROVE  Goes(NumbersAt(i), i)
<1> DEFINE end == NumberEnd(i)
           last == DigitsEnd(end + 1)
           places == [j \in 1..(last - end - 1) |-> text[end + j].value[1]]
           asDecimal == Match(<<Tok("decimal", <<NumberAt(i)>> \o places)>>, last)
           asJoined == Match(<<Tok("ordinal", <<text[i].value[1] + text[i + 1].value[1]>>)>>, i + 2)
           asOrdinal == Match(<<Tok("ordinal", text[i].value)>>, i + 1)
           asDigits == Match(<<Tok("digits", <<NumberAt(i)>>)>>, end)
<1>1. Len(text) \in Nat
  BY Words
<1>2. ASSUME IsNumberAt(i), Kind(end) = "point", IsDigit(end + 1) PROVE Goes(asDecimal, i)
  <2>1. NumberAt(i) \in Nat /\ end \in i + 1..(Len(text) + 1) /\ end \in 1..Len(text)
    BY <1>2, NumberThen
  <2>2. PICK e \in Nat : e = end /\ i < e /\ e <= Len(text)
    BY <1>1, <2>1
  <2>3. /\ DigitsEnd(e + 1) \in e + 1..(Len(text) + 1)
        /\ \A k \in e + 1..(DigitsEnd(e + 1) - 1) : IsDigit(k)
    <3>1. e + 1 \in 1..(Len(text) + 1)
      BY <1>1, <2>2
    <3>2. QED
      BY <3>1, DigitsEndAt
  <2>4. PICK d \in Nat : d = last /\ e < d /\ d <= Len(text) + 1
    BY <1>1, <2>2, <2>3
  <2>5. \A j \in 1..(d - e - 1) : text[e + j].value[1] \in Nat
    <3>1. SUFFICES ASSUME NEW j \in 1..(d - e - 1) PROVE text[e + j].value[1] \in Nat
      OBVIOUS
    <3>2. e + j \in e + 1..(d - 1)
      BY <2>2, <2>4, SMTT(30)
    <3>3. IsDigit(e + j)
      BY <2>2, <2>3, <2>4, <3>2
    <3>4. QED
      BY <3>3, DigitTyped
  <2>6. places \in Seq(Nat)
    <3>1. places = [j \in 1..(d - e - 1) |-> text[e + j].value[1]]
      BY <2>2, <2>4
    <3>2. PICK n \in Nat : n = d - e - 1
      BY <2>2, <2>4
    <3>3. places \in [1..n -> Nat]
      BY <2>5, <3>1, <3>2
    <3> HIDE DEF places
    <3>4. QED
      BY <3>2, <3>3
  <2> HIDE DEF places
  <2>7. <<NumberAt(i)>> \o places \in Seq(Nat)
    <3>1. <<NumberAt(i)>> \in Seq(Nat)
      BY <2>1
    <3>2. QED
      BY <2>6, <3>1, ConcatProperties
  <2>8. Tok("decimal", <<NumberAt(i)>> \o places) \in Token
    BY <2>7 DEF Tok, Token, WordKinds
  <2>9. last \in i + 1..(Len(text) + 1)
    BY <1>1, <2>2, <2>4
  <2> HIDE DEF last
  <2>10. QED
    BY <2>8, <2>9, OneGoes
<1>3. ASSUME IsTens(i), IsOnesOrdinal(i + 1) PROVE Goes(asJoined, i)
  <2>1. text[i].value[1] \in Nat /\ text[i + 1].value[1] \in Nat /\ i + 1 \in 1..Len(text)
    BY <1>3, InText DEF IsTens, IsOnesOrdinal, NumberKinds
  <2>2. text[i].value[1] + text[i + 1].value[1] \in Nat /\ i + 2 \in i + 1..(Len(text) + 1)
    BY <1>1, <2>1
  <2>3. QED
    BY <2>2, NumberGoes DEF WordKinds
<1>4. ASSUME Kind(i) = "ordinal word" PROVE Goes(asOrdinal, i)
  <2>1. text[i].value \in Seq(Nat) /\ i + 1 \in i + 1..(Len(text) + 1)
    BY <1>1, Words, TokenFields
  <2>2. Tok("ordinal", text[i].value) \in Token
    BY <2>1 DEF Tok, Token, WordKinds
  <2>3. QED
    BY <2>1, <2>2, OneGoes
<1>5. ASSUME IsNumberWord(i) PROVE Goes(asDigits, i)
  <2>1. NumberAt(i) \in Nat /\ end \in i + 1..(Len(text) + 1)
    BY <1>5, NumberThen DEF IsNumberAt
  <2>2. QED
    BY <2>1, NumberGoes DEF WordKinds
<1>6. Goes(NoMatch(i), i)
  BY CopyGoes
<1>7. NumbersAt(i) = IF IsNumberAt(i) /\ Kind(end) = "point" /\ IsDigit(end + 1) THEN asDecimal
                     ELSE IF IsTens(i) /\ IsOnesOrdinal(i + 1) THEN asJoined
                     ELSE IF Kind(i) = "ordinal word" THEN asOrdinal
                     ELSE IF IsNumberWord(i) THEN asDigits
                     ELSE NoMatch(i)
  BY DEF NumbersAt
<1> HIDE DEF end, asDecimal, asJoined, asOrdinal, asDigits
<1>8. QED
  BY <1>2, <1>3, <1>4, <1>5, <1>6, <1>7

-----------------------------------------------------------------------------
(* The texts of the passes.                                                 *)
PassNames == {"times", "numbers", "formulas", "currency", "percents", "dedup"}

LEMMA PassGoes ==
  ASSUME text \in Seq(Token), NEW i \in 1..Len(text), NEW pass \in PassNames
  PROVE  Goes(PassAt(pass, i), i)
BY TimesGo, NumbersGo, FormulasGo, CurrencyGoes, PercentsGo, DedupGoes DEF PassAt, PassNames

LEMMA NormalizerStarts == NormalizerInit => NormalizerTypeOK
<1> SUFFICES ASSUME NormalizerInit PROVE NormalizerTypeOK
  OBVIOUS
<1>1. text \in Seq(Token) /\ at = 1 /\ out = <<>>
  BY SpeechesAssumption DEF NormalizerInit
<1>2. at \in 1..(Len(text) + 1) /\ out \in Seq(Token)
  BY <1>1, Words, EmptySeq
<1>3. passes \in Seq(PassNames)
  <2>1. \A s \in Seq(PassNames), t \in Seq(PassNames) : s \o t \in Seq(PassNames)
    BY ConcatProperties
  <2>2. /\ <<"times">> \in Seq(PassNames) /\ <<"numbers">> \in Seq(PassNames)
        /\ <<"formulas">> \in Seq(PassNames) /\ <<>> \in Seq(PassNames)
        /\ <<"currency", "percents", "dedup">> \in Seq(PassNames)
    BY DEF PassNames
  <2>3. QED
    BY <2>1, <2>2 DEF NormalizerInit, PassesOf
<1>4. QED
  BY <1>1, <1>2, <1>3 DEF NormalizerTypeOK, PassNames

LEMMA NormalizerSteps == NormalizerTypeOK /\ [NormalizerNext]_normalizerVars => NormalizerTypeOK'
<1> SUFFICES ASSUME NormalizerTypeOK, [NormalizerNext]_normalizerVars PROVE NormalizerTypeOK'
  OBVIOUS
<1> USE DEF NormalizerTypeOK
<1>1. text \in Seq(Token) /\ out \in Seq(Token) /\ passes \in Seq(PassNames) /\ Len(text) \in Nat
  BY Words DEF PassNames
<1>2. CASE WalkOn
  <2>1. Head(passes) \in PassNames /\ at \in 1..Len(text)
    BY <1>1, <1>2, HeadTailProperties DEF WalkOn
  <2>2. PICK match : match = PassAt(Head(passes), at) /\ out' = out \o match.written /\ at' = match.end
    BY <1>2 DEF WalkOn
  <2>3. match.written \in Seq(Token) /\ match.end \in at + 1..(Len(text) + 1)
    BY <1>1, <2>1, <2>2, PassGoes DEF Goes
  <2>4. out' \in Seq(Token)
    BY <1>1, <2>2, <2>3, ConcatProperties
  <2>5. at' \in 1..(Len(text) + 1)
    BY <1>1, <2>1, <2>2, <2>3
  <2>6. QED
    BY <1>2, <2>4, <2>5 DEF WalkOn
<1>3. CASE NextPass
  <2>1. Tail(passes) \in Seq(PassNames)
    BY <1>1, <1>3, HeadTailProperties DEF NextPass
  <2>2. Len(out) \in Nat /\ <<>> \in Seq(Token)
    BY <1>1, LenProperties, EmptySeq
  <2>3. QED
    BY <1>1, <1>3, <2>1, <2>2 DEF NextPass, PassNames
<1>4. CASE UNCHANGED normalizerVars
  BY <1>4 DEF normalizerVars
<1>5. QED
  BY <1>2, <1>3, <1>4 DEF NormalizerNext

\* normalize/mod.rs, apply: whatever is said, every pass goes through its text word by
\* word, never past its end, and writes words of the kinds that the passes after it read.
THEOREM PassesKeepWords == NormalizerSpec => []NormalizerTypeOK
BY NormalizerStarts, NormalizerSteps, PTL DEF NormalizerSpec

-----------------------------------------------------------------------------
(* Numbers as they are said: how a run of number words is read back, for     *)
(* every number up to the billions.                                         *)
(*                                                                          *)
(* What the words up to each position add up to.                            *)
RunningSum(sums, number) ==
  /\ sums \in [0..Len(number) -> Accumulated]
  /\ sums[0] = NothingYet
  /\ \A k \in 1..Len(number) : sums[k] = AddKind(sums[k - 1], number[k])

LEMMA GreatestOfFirst ==
  ASSUME NEW k \in Nat \ {0}
  PROVE  Max(1..k) = k
<1>1. (1..k) \in SUBSET (0..k) /\ 1..k # {}
  OBVIOUS
<1>2. Max(1..k) \in 1..k /\ \A j \in 1..k : Max(1..k) >= j
  BY <1>1, GreatestSuch
<1>3. QED
  BY <1>2

LEMMA SumsRun ==
  ASSUME NEW number \in Seq(Token)
  PROVE  \E sums : /\ RunningSum(sums, number)
                  /\ EvalKinds(number) = sums[Len(number)].total + sums[Len(number)].current
<1>1. Len(number) \in Nat /\ DOMAIN number = 1..Len(number)
  BY LenProperties
<1>2. PICK f \in [SUBSET DOMAIN number -> Accumulated] :
        SumTabled(f, number) /\ SumOfKinds(number) = f[DOMAIN number]
  BY SumTable
<1> DEFINE sums == [k \in 0..Len(number) |-> f[1..k]]
<1>3. \A k \in 0..Len(number) : (1..k) \in SUBSET DOMAIN number
  BY <1>1
<1>4. sums \in [0..Len(number) -> Accumulated]
  BY <1>2, <1>3
<1>5. sums[0] = NothingYet
  <2>1. 1..0 = {} /\ {} \in SUBSET DOMAIN number /\ 0 \in 0..Len(number)
    BY <1>1
  <2>2. sums[0] = f[{}]
    BY <2>1
  <2>3. QED
    BY <1>2, <2>1, <2>2 DEF SumTabled
<1>6. ASSUME NEW k \in 1..Len(number) PROVE sums[k] = AddKind(sums[k - 1], number[k])
  <2>1. (1..k) \ {k} = 1..(k - 1) /\ 1..k # {} /\ k \in 0..Len(number) /\ k - 1 \in 0..Len(number)
    <3>1. k \in Nat \ {0} /\ k <= Len(number)
      BY <1>1
    <3>2. (1..k) \ {k} = 1..(k - 1) /\ 1..k # {}
      BY <3>1
    <3>3. QED
      BY <1>1, <3>1, <3>2
  <2>2. Max(1..k) = k
    BY <1>1, GreatestOfFirst
  <2>3. f[1..k] = AddKind(f[(1..k) \ {Max(1..k)}], number[Max(1..k)])
    BY <1>2, <1>3, <2>1 DEF SumTabled
  <2>4. QED
    BY <2>1, <2>2, <2>3
<1>7. sums[Len(number)] = SumOfKinds(number)
  <2>1. Len(number) \in 0..Len(number)
    BY <1>1
  <2>2. QED
    BY <1>1, <1>2, <2>1
<1>8. FoldLeft(AddKind, NothingYet, number) = SumOfKinds(number)
  BY DEF FoldLeft, MapThenFoldSet, SumOfKinds, SumTabled
<1>9. EvalKinds(number) = SumOfKinds(number).total + SumOfKinds(number).current
  BY <1>8 DEF EvalKinds, NothingYet
<1> HIDE DEF sums
<1>10. QED
  BY <1>4, <1>5, <1>6, <1>7, <1>9 DEF RunningSum

\* What one more word does to the sum.
SoFar(total, current) == [total |-> total, current |-> current]

LEMMA UnitAdded ==
  ASSUME NEW t \in Nat, NEW c \in Nat, NEW v \in Nat
  PROVE  AddKind(SoFar(t, c), Unit(v)) = SoFar(t, c + v)
BY DEF AddKind, SoFar, Unit, Tok

LEMMA AndAdded ==
  ASSUME NEW t \in Nat, NEW c \in Nat
  PROVE  AddKind(SoFar(t, c), And) = SoFar(t, c)
BY DEF AddKind, SoFar, And, Other, Tok

LEMMA HundredAdded ==
  ASSUME NEW t \in Nat, NEW c \in 1..9
  PROVE  AddKind(SoFar(t, c), Tok("scale", <<100>>)) = SoFar(t, 100 * c)
BY DEF AddKind, SoFar, Tok

LargeScales == {1000, Million, Billion}

ScaleWord(scale) == Tok("scale", <<scale>>)

ScaleWords(scale) == <<ScaleWord(scale)>>

Worth(count, scale) == count * scale

LEMMA ScaleAdded ==
  ASSUME NEW t \in Nat, NEW c \in Nat, c \in 1..999, NEW scale \in LargeScales
  PROVE  AddKind(SoFar(t, c), ScaleWord(scale)) = SoFar(t + Worth(c, scale), 0)
BY SMT DEF Worth, ScaleWord, AddKind, SoFar, Tok, LargeScales, Million, Billion

-----------------------------------------------------------------------------
(* Words of a number, each as parse_run goes on past it.                    *)
Holds(number, from, group) ==
  from + Len(group) <= Len(number) /\ \A j \in 1..Len(group) : number[from + j] = group[j]

LEMMA LengthsAdd ==
  ASSUME NEW s \in Seq(Token), NEW t \in Seq(Token)
  PROVE  Len(s \o t) = Len(s) + Len(t)
BY ConcatProperties

LEMMA HeldInParts ==
  ASSUME NEW number \in Seq(Token), NEW from \in Nat, NEW s \in Seq(Token), NEW t \in Seq(Token),
         Holds(number, from, s \o t)
  PROVE  Holds(number, from, s) /\ Holds(number, from + Len(s), t)
<1>1. /\ Len(s) \in Nat /\ Len(t) \in Nat /\ Len(number) \in Nat /\ Len(s \o t) = Len(s) + Len(t)
      /\ \A j \in 1..Len(s) : (s \o t)[j] = s[j]
      /\ \A j \in 1..Len(t) : (s \o t)[Len(s) + j] = t[j]
  <2>1. \A j \in 1..(Len(s) + Len(t)) : (s \o t)[j] = IF j <= Len(s) THEN s[j] ELSE t[j - Len(s)]
    BY ConcatProperties, LenProperties
  <2>2. Len(s) \in Nat /\ Len(t) \in Nat /\ Len(number) \in Nat /\ Len(s \o t) = Len(s) + Len(t)
    BY ConcatProperties, LenProperties
  <2>3. QED
    BY <2>1, <2>2
<1>2. Holds(number, from, s)
  <2>1. PICK m \in Nat, n \in Nat : m = Len(s) /\ n = Len(t)
    BY <1>1
  <2>2. from + (m + n) <= Len(number) /\ \A k \in 1..(m + n) : number[from + k] = (s \o t)[k]
    BY <1>1, <2>1 DEF Holds
  <2>3. from + m <= Len(number) /\ \A k \in 1..m : k \in 1..(m + n)
    BY <1>1, <2>2
  <2>4. QED
    BY <1>1, <2>1, <2>2, <2>3 DEF Holds
<1>3. Holds(number, from + Len(s), t)
  <2>1. PICK m \in Nat, n \in Nat : m = Len(s) /\ n = Len(t)
    BY <1>1
  <2>2. from + m + n <= Len(number) /\ \A j \in 1..(m + n) : number[from + j] = (s \o t)[j]
    BY <1>1, <2>1 DEF Holds
  <2>3. ASSUME NEW j \in 1..n PROVE number[from + m + j] = t[j]
    <3>1. m + j \in 1..(m + n) /\ from + (m + j) = from + m + j
      BY <2>1
    <3>2. QED
      BY <1>1, <2>1, <2>2, <3>1
  <2>4. QED
    BY <2>1, <2>2, <2>3 DEF Holds
<1>4. QED
  BY <1>2, <1>3

FitsThere(number, k) ==
  \/ number[k].kind = "scale"
  \/ /\ number[k].kind = "unit"
     /\ \/ k = 1
        \/ number[k - 1].kind = "scale"
        \/ number[k - 1].kind = "and" /\ k > 2 /\ number[k - 2].kind = "scale"
        \/ number[k - 1].kind = "unit" /\ Tier(number[k].value[1]) < Tier(number[k - 1].value[1])
  \/ /\ number[k].kind = "and"
     /\ k > 1 /\ k < Len(number) /\ number[k - 1].kind = "scale" /\ number[k + 1].kind = "unit"

\* Where a group of a number may start.
Opens(number, from) ==
  \/ from = 0
  \/ number[from].kind = "scale"
  \/ number[from].kind = "and" /\ from > 1 /\ number[from - 1].kind = "scale"

-----------------------------------------------------------------------------
LEMMA Joins ==
  ASSUME NEW x, NEW y
  PROVE  <<x>> \o <<y>> = <<x, y>> /\ <<x>> \o <<>> = <<x>>
<1>1. <<x>> \in Seq({x, y}) /\ <<y>> \in Seq({x, y}) /\ <<x, y>> \in Seq({x, y}) /\ <<>> \in Seq({x, y})
  OBVIOUS
<1>2. <<x>> \o <<y>> \in Seq({x, y}) /\ Len(<<x>> \o <<y>>) = 2
  BY <1>1, ConcatProperties
<1>3. \A j \in 1..2 : (<<x>> \o <<y>>)[j] = <<x, y>>[j]
  BY <1>1, ConcatProperties
<1>4. Len(<<x, y>>) = 2
  OBVIOUS
<1>5. <<x>> \o <<y>> = <<x, y>>
  BY <1>1, <1>2, <1>3, <1>4, SeqEqual
<1>6. <<x>> \o <<>> = <<x>>
  BY <1>1, ConcatEmptySeq
<1>7. QED
  BY <1>5, <1>6

\* Words below a hundred, after what may open a group.
LEMMA TensSaid ==
  ASSUME NEW m \in Nat, m \in 1..99
  PROVE  \/ /\ Below100(m) = <<Unit(m)>>
         \/ \E t, v \in Nat : t \in 20..90 /\ v \in 1..9 /\ m = t + v /\ Below100(m) = <<Unit(t), Unit(v)>>
<1>1. m \in Nat /\ m % 10 \in 0..9 /\ (m >= 20 => m - (m % 10) \in 20..90)
  <2>1. m \in Nat
    OBVIOUS
  <2>2. m = 10 * (m \div 10) + (m % 10) /\ m % 10 \in 0..9 /\ m \div 10 \in Int
    BY <2>1
  <2>3. QED
    BY <2>1, <2>2
<1>2. CASE m < 20 \/ m % 10 = 0
  <2>1. CASE m < 20
    BY <2>1 DEF Below100, IfAny
  <2>2. CASE m >= 20 /\ m % 10 = 0
    <3>1. <<Unit(m)>> \o <<>> = <<Unit(m)>>
      BY Joins
    <3>2. m - (m % 10) = m
      BY <1>1, <2>2
    <3>3. QED
      BY <2>2, <3>1, <3>2 DEF Below100, IfAny
  <2>3. QED
    BY <1>1, <1>2, <2>1, <2>2
<1>3. CASE m >= 20 /\ m % 10 # 0
  <2>1. PICK t, v \in Nat : t \in 20..90 /\ v \in 1..9 /\ t = m - (m % 10) /\ v = m % 10 /\ m = t + v
    BY <1>1, <1>3
  <2>2. <<Unit(t)>> \o <<Unit(v)>> = <<Unit(t), Unit(v)>>
    BY Joins
  <2>3. Below100(m) = <<Unit(t), Unit(v)>>
    BY <1>3, <2>1, <2>2 DEF Below100, IfAny
  <2>4. QED
    BY <2>1, <2>3
<1>4. QED
  BY <1>1, <1>2, <1>3

LEMMA UnitFields == \A v : Unit(v).kind = "unit" /\ Unit(v).value[1] = v /\ Unit(v).value = <<v>>
BY DEF Unit, Tok

\* A group has been read: the words fit, and their sum is in the accumulator.
Read(sums, number, from, to, t, c) ==
  /\ from < to /\ to <= Len(number)
  /\ sums[to] = SoFar(t, c)
  /\ \A k \in (from + 1)..to : FitsThere(number, k)
  /\ number[from + 1].kind = "unit"

LEMMA TensRead ==
  ASSUME NEW number \in Seq(Token), NEW sums, RunningSum(sums, number),
         NEW from \in Nat, Opens(number, from), NEW t \in Nat, NEW c \in Nat, sums[from] = SoFar(t, c),
         NEW m \in Nat, m \in 1..99, Holds(number, from, Below100(m))
  PROVE  Read(sums, number, from, from + Len(Below100(m)), t, c + m)
<1>1. Len(number) \in Nat /\ \A k \in 1..Len(number) : sums[k] = AddKind(sums[k - 1], number[k])
  BY LenProperties DEF RunningSum
<1>2. ASSUME number[from + 1].kind = "unit", from + 1 <= Len(number) PROVE FitsThere(number, from + 1)
  <2>1. PICK k : k = from + 1
    OBVIOUS
  <2>2. k - 1 = from /\ k - 2 = from - 1 /\ (from = 0 => k = 1) /\ (from > 1 => k > 2)
    BY <2>1
  <2>3. \/ k = 1
        \/ number[k - 1].kind = "scale"
        \/ number[k - 1].kind = "and" /\ k > 2 /\ number[k - 2].kind = "scale"
    BY <2>2 DEF Opens
  <2>4. QED
    BY <1>2, <2>1, <2>3 DEF FitsThere
<1>3. CASE Below100(m) = <<Unit(m)>>
  <2>1. Len(<<Unit(m)>>) = 1 /\ <<Unit(m)>>[1] = Unit(m)
    OBVIOUS
  <2>2. from + 1 <= Len(number) /\ number[from + 1] = Unit(m) /\ from + 1 \in 1..Len(number)
    BY <1>1, <1>3, <2>1 DEF Holds
  <2>3. sums[from + 1] = SoFar(t, c + m)
    <3>1. sums[from + 1] = AddKind(sums[(from + 1) - 1], number[from + 1]) /\ (from + 1) - 1 = from
      BY <1>1, <2>2
    <3>2. m \in Nat
      OBVIOUS
    <3>3. sums[from + 1] = AddKind(SoFar(t, c), Unit(m))
      BY <2>2, <3>1
    <3>4. QED
      BY <3>2, <3>3, UnitAdded
  <2>4. number[from + 1].kind = "unit"
    BY <2>2, UnitFields
  <2>5. FitsThere(number, from + 1)
    BY <1>2, <2>2, <2>4
  <2>6. QED
    BY <1>3, <2>1, <2>2, <2>3, <2>4, <2>5 DEF Read
<1>4. CASE \E x, v \in Nat : x \in 20..90 /\ v \in 1..9 /\ m = x + v /\ Below100(m) = <<Unit(x), Unit(v)>>
  <2>1. PICK x, v \in Nat : x \in 20..90 /\ v \in 1..9 /\ m = x + v /\ Below100(m) = <<Unit(x), Unit(v)>>
    BY <1>4
  <2> DEFINE two == <<Unit(x), Unit(v)>>
  <2>2. Len(two) = 2 /\ two[1] = Unit(x) /\ two[2] = Unit(v)
    OBVIOUS
  <2>3. from + 2 <= Len(number) /\ number[from + 1] = Unit(x) /\ number[from + 2] = Unit(v)
    <3> HIDE DEF two
    <3>1. Below100(m) = two
      BY <2>1 DEF two
    <3>2. from + 2 <= Len(number) /\ \A j \in 1..2 : number[from + j] = two[j]
      BY <2>2, <3>1 DEF Holds
    <3>3. QED
      BY <2>2, <3>2
  <2>4. from + 1 \in 1..Len(number) /\ from + 2 \in 1..Len(number)
    BY <1>1, <2>3
  <2>5. sums[from + 1] = SoFar(t, c + x)
    <3>1. sums[from + 1] = AddKind(sums[(from + 1) - 1], number[from + 1]) /\ (from + 1) - 1 = from
      BY <1>1, <2>4
    <3>2. x \in Nat
      OBVIOUS
    <3>3. sums[from + 1] = AddKind(SoFar(t, c), Unit(x))
      BY <2>3, <3>1
    <3>4. QED
      BY <3>2, <3>3, UnitAdded
  <2>6. sums[from + 2] = SoFar(t, c + m)
    <3>1. sums[from + 2] = AddKind(sums[(from + 2) - 1], number[from + 2]) /\ (from + 2) - 1 = from + 1
      BY <1>1, <2>4
    <3>2. c + x \in Nat /\ v \in Nat /\ (c + x) + v = c + m
      BY <2>1
    <3>3. sums[from + 2] = AddKind(SoFar(t, c + x), Unit(v))
      BY <2>3, <2>5, <3>1
    <3>4. AddKind(SoFar(t, c + x), Unit(v)) = SoFar(t, (c + x) + v)
      BY <3>2, UnitAdded
    <3>5. QED
      BY <3>2, <3>3, <3>4
  <2>7. number[from + 1].kind = "unit" /\ number[from + 1].value[1] = x
        /\ number[from + 2].kind = "unit" /\ number[from + 2].value[1] = v
    BY <2>3, UnitFields
  <2>8. FitsThere(number, from + 1)
    BY <1>2, <2>4, <2>7
  <2>9. FitsThere(number, from + 2)
    <3>1. Tier(v) < Tier(x)
      BY <2>1 DEF Tier
    <3>2. (from + 2) - 1 = from + 1
      OBVIOUS
    <3>3. QED
      BY <2>7, <3>1, <3>2 DEF FitsThere
  <2>10. \A k \in (from + 1)..(from + 2) : k = from + 1 \/ k = from + 2
    OBVIOUS
  <2> HIDE DEF two
  <2>11. Len(Below100(m)) = 2
    BY <2>1, <2>2 DEF two
  <2>12. QED
    BY <2>3, <2>6, <2>7, <2>8, <2>9, <2>10, <2>11 DEF Read
<1>5. QED
  BY <1>3, <1>4, TensSaid

-----------------------------------------------------------------------------
HundredWords(h) == <<Unit(h), Tok("scale", <<100>>)>>

Connectors == {<<>>, <<And>>}

LEMMA WordMade ==
  /\ \A v \in Nat : Unit(v) \in Token
  /\ \A scale \in Nat : Tok("scale", <<scale>>) \in Token
  /\ And \in Token /\ Connectors \in SUBSET Seq(Token) /\ <<>> \in Seq(Token)
<1>1. (\A v \in Nat : Unit(v) \in Token) /\ \A scale \in Nat : Tok("scale", <<scale>>) \in Token
  BY NumberMade DEF Unit, WordKinds
<1>2. And \in Token
  <2>1. <<>> \in Seq(Nat)
    BY EmptySeq
  <2>2. QED
    BY <2>1 DEF And, Other, Tok, Token, WordKinds
<1>3. <<>> \in Seq(Token) /\ <<And>> \in Seq(Token)
  BY <1>2, EmptySeq
<1>4. QED
  BY <1>1, <1>2, <1>3 DEF Connectors

LEMMA TensMade ==
  ASSUME NEW m \in Nat, m \in 0..99
  PROVE  Below100(m) \in Seq(Token)
<1>1. CASE m = 0
  BY <1>1, WordMade DEF Below100, IfAny
<1>2. CASE m # 0
  <2>1. CASE Below100(m) = <<Unit(m)>>
    <3>1. Unit(m) \in Token
      BY WordMade
    <3>2. QED
      BY <2>1, <3>1
  <2>2. ASSUME NEW t \in Nat, NEW v \in Nat, Below100(m) = <<Unit(t), Unit(v)>> PROVE Below100(m) \in Seq(Token)
    <3>1. Unit(t) \in Token /\ Unit(v) \in Token
      BY WordMade
    <3>2. QED
      BY <2>2, <3>1
  <2>3. m \in 1..99
    BY <1>2
  <2>4. QED
    BY <2>1, <2>2, <2>3, TensSaid
<1>3. QED
  BY <1>1, <1>2

\* Where a group begins: at first, or after a scale.
GroupBegins(sums, number, from, t) ==
  /\ number \in Seq(Token) /\ RunningSum(sums, number)
  /\ from \in Nat /\ (from = 0 \/ number[from].kind = "scale")
  /\ t \in Nat /\ sums[from] = SoFar(t, 0)

\* A hundreds' digit and hundred.
LEMMA HundredsRead ==
  ASSUME NEW number, NEW sums, NEW from, NEW t, GroupBegins(sums, number, from, t),
         NEW h \in 1..9, Holds(number, from, HundredWords(h))
  PROVE  Read(sums, number, from, from + 2, t, 100 * h) /\ number[from + 2].kind = "scale"
<1> number \in Seq(Token) /\ RunningSum(sums, number) /\ from \in Nat
    /\ (from = 0 \/ number[from].kind = "scale") /\ t \in Nat /\ sums[from] = SoFar(t, 0)
  BY DEF GroupBegins
<1>1. Len(number) \in Nat /\ \A k \in 1..Len(number) : sums[k] = AddKind(sums[k - 1], number[k])
  BY LenProperties DEF RunningSum
<1> DEFINE two == HundredWords(h)
<1>2. Len(two) = 2 /\ two[1] = Unit(h) /\ two[2] = Tok("scale", <<100>>)
  BY DEF HundredWords
<1>3. from + 2 <= Len(number) /\ number[from + 1] = Unit(h) /\ number[from + 2] = Tok("scale", <<100>>)
  <2>1. from + 2 <= Len(number) /\ \A j \in 1..2 : number[from + j] = two[j]
    BY <1>2 DEF Holds, HundredWords
  <2>2. QED
    BY <1>2, <2>1
<1> HIDE DEF two
<1>4. from + 1 \in 1..Len(number) /\ from + 2 \in 1..Len(number)
  BY <1>1, <1>3
<1>5. sums[from + 1] = SoFar(t, h)
  <2>1. sums[from + 1] = AddKind(sums[(from + 1) - 1], number[from + 1]) /\ (from + 1) - 1 = from
    BY <1>1, <1>4
  <2>2. sums[from + 1] = AddKind(SoFar(t, 0), Unit(h)) /\ h \in Nat
    BY <1>3, <2>1
  <2>3. AddKind(SoFar(t, 0), Unit(h)) = SoFar(t, 0 + h)
    BY <2>2, UnitAdded
  <2>4. QED
    BY <2>2, <2>3
<1>6. sums[from + 2] = SoFar(t, 100 * h)
  <2>1. sums[from + 2] = AddKind(sums[(from + 2) - 1], number[from + 2]) /\ (from + 2) - 1 = from + 1
    BY <1>1, <1>4
  <2>2. sums[from + 2] = AddKind(SoFar(t, h), Tok("scale", <<100>>))
    BY <1>3, <1>5, <2>1
  <2>3. QED
    BY <2>2, HundredAdded
<1>7. number[from + 1].kind = "unit" /\ number[from + 2].kind = "scale"
  BY <1>3, UnitFields DEF Tok
<1>8. FitsThere(number, from + 1) /\ FitsThere(number, from + 2)
  BY <1>7 DEF FitsThere
<1>9. \A k \in (from + 1)..(from + 2) : k = from + 1 \/ k = from + 2
  OBVIOUS
<1>10. QED
  BY <1>3, <1>6, <1>7, <1>8, <1>9 DEF Read

\* One group after another.
LEMMA ReadOn ==
  ASSUME NEW number, Len(number) \in Nat, NEW sums, NEW from \in Nat, NEW mid \in Nat, NEW to \in Nat,
         NEW t, NEW c, NEW u, NEW d, Read(sums, number, from, mid, t, c), Read(sums, number, mid, to, u, d)
  PROVE  Read(sums, number, from, to, u, d)
<1>1. \A k \in (from + 1)..to : k \in (from + 1)..mid \/ k \in (mid + 1)..to
  OBVIOUS
<1>2. QED
  BY <1>1 DEF Read

-----------------------------------------------------------------------------
\* The words of a group below a thousand.
SaidOf(m, connector, h, r) ==
  /\ m = 100 * h + r
  /\ h = 0 => Below1000(m, connector) = Below100(r) /\ r \in 1..99
  /\ h # 0 /\ r = 0 => Below1000(m, connector) = HundredWords(h)
  /\ h # 0 /\ r # 0 => Below1000(m, connector) = (HundredWords(h) \o connector) \o Below100(r)

LEMMA GroupSaid ==
  ASSUME NEW m \in Nat, m \in 1..999, NEW connector \in Connectors
  PROVE  \E h, r \in Nat : h \in 0..9 /\ r \in 0..99 /\ SaidOf(m, connector, h, r)
<1>1. PICK h, r \in Nat : h \in 0..9 /\ r \in 0..99 /\ h = m \div 100 /\ r = m % 100 /\ m = 100 * h + r
  <2>1. m \in Nat /\ m = 100 * (m \div 100) + (m % 100) /\ m % 100 \in 0..99 /\ m \div 100 \in Int
    OBVIOUS
  <2>2. m \div 100 \in 0..9
    BY <2>1
  <2>3. QED
    BY <2>1, <2>2
<1>2. Below1000(m, connector)
        = IfAny(h, Below100(h) \o <<Tok("scale", <<100>>)>> \o IfAny(r, connector)) \o Below100(r)
  BY <1>1 DEF Below1000
<1>3. Below100(0) = <<>> /\ Below100(r) \in Seq(Token)
  BY <1>1, TensMade DEF Below100, IfAny
<1>4. h # 0 => Below100(h) \o <<Tok("scale", <<100>>)>> = HundredWords(h)
  <2>1. h # 0 => Below100(h) = <<Unit(h)>>
    BY <1>1 DEF Below100, IfAny
  <2>2. QED
    BY <2>1, Joins DEF HundredWords
<1>5. CASE h = 0
  <2>1. Below1000(m, connector) = <<>> \o Below100(r)
    BY <1>2, <1>5 DEF IfAny
  <2>2. QED
    <3>1. Below1000(m, connector) = Below100(r)
      BY <1>3, <2>1, ConcatEmptySeq
    <3>2. SaidOf(m, connector, h, r)
      BY <1>1, <1>5, <3>1 DEF SaidOf
    <3>3. QED
      BY <1>1, <3>2
<1>6. CASE h # 0 /\ r = 0
  <2> DEFINE two == HundredWords(h)
  <2>1. Below1000(m, connector) = (two \o <<>>) \o <<>>
    BY <1>2, <1>3, <1>4, <1>6 DEF IfAny
  <2>2. two \in Seq(Token)
    BY WordMade DEF HundredWords
  <2> HIDE DEF two
  <2>3. two \o <<>> = two
    BY <2>2, ConcatEmptySeq
  <2>4. Below1000(m, connector) = two
    BY <2>1, <2>3
  <2>5. QED
    <3>1. SaidOf(m, connector, h, r)
      BY <1>1, <1>6, <2>4 DEF SaidOf, two
    <3>2. QED
      BY <1>1, <3>1
<1>7. CASE h # 0 /\ r # 0
  <2>1. Below1000(m, connector) = (HundredWords(h) \o connector) \o Below100(r)
    BY <1>2, <1>4, <1>7 DEF IfAny
  <2>2. QED
    <3>1. SaidOf(m, connector, h, r)
      BY <1>1, <1>7, <2>1 DEF SaidOf
    <3>2. QED
      BY <1>1, <3>1
<1>8. QED
  BY <1>5, <1>6, <1>7

LEMMA GroupMade ==
  ASSUME NEW m \in Nat, m \in 0..999, NEW connector \in Connectors
  PROVE  Below1000(m, connector) \in Seq(Token)
<1>1. CASE m = 0
  <2>1. 0 \div 100 = 0 /\ 0 % 100 = 0
    OBVIOUS
  <2>2. Below1000(m, connector) = <<>> \o <<>>
    BY <1>1, <2>1 DEF Below1000, Below100, IfAny
  <2>3. QED
    BY <2>2, WordMade, ConcatProperties
<1>2. CASE m # 0
  <2>1. m \in 1..999
    BY <1>2
  <2>2. PICK h, r \in Nat : h \in 0..9 /\ r \in 0..99 /\ SaidOf(m, connector, h, r)
    BY <2>1, GroupSaid
  <2>3. HundredWords(h) \in Seq(Token) /\ Below100(r) \in Seq(Token) /\ connector \in Seq(Token)
    <3>1. Unit(h) \in Token /\ Tok("scale", <<100>>) \in Token
      BY WordMade
    <3>2. HundredWords(h) \in Seq(Token)
      BY <3>1 DEF HundredWords
    <3>3. Below100(r) \in Seq(Token) /\ connector \in Seq(Token)
      BY <2>2, WordMade, TensMade
    <3>4. QED
      BY <3>2, <3>3
  <2>4. (HundredWords(h) \o connector) \o Below100(r) \in Seq(Token)
    BY <2>3, ConcatProperties
  <2>5. QED
    <3>1. PICK hundreds, tens, both :
            hundreds = HundredWords(h) /\ tens = Below100(r) /\ both = (HundredWords(h) \o connector) \o Below100(r)
      OBVIOUS
    <3>2. Below1000(m, connector) \in {tens, hundreds, both}
      BY <2>2, <3>1 DEF SaidOf
    <3>3. tens \in Seq(Token) /\ hundreds \in Seq(Token) /\ both \in Seq(Token)
      BY <2>3, <2>4, <3>1
    <3>4. QED
      BY <3>2, <3>3
<1>3. QED
  BY <1>1, <1>2

LEMMA GroupRead ==
  ASSUME NEW number, NEW sums, NEW from, NEW t, GroupBegins(sums, number, from, t),
         NEW m \in Nat, m \in 1..999, NEW connector \in Connectors, Holds(number, from, Below1000(m, connector))
  PROVE  /\ Len(Below1000(m, connector)) \in Nat
         /\ Read(sums, number, from, from + Len(Below1000(m, connector)), t, m)
<1> number \in Seq(Token) /\ RunningSum(sums, number) /\ from \in Nat
    /\ (from = 0 \/ number[from].kind = "scale") /\ t \in Nat /\ sums[from] = SoFar(t, 0)
  BY DEF GroupBegins
<1>1. PICK h, r \in Nat : h \in 0..9 /\ r \in 0..99 /\ SaidOf(m, connector, h, r)
  BY GroupSaid
<1>2. Len(number) \in Nat /\ \A k \in 1..Len(number) : sums[k] = AddKind(sums[k - 1], number[k])
  BY LenProperties DEF RunningSum
<1>3. Below1000(m, connector) \in Seq(Token) /\ Len(Below1000(m, connector)) \in Nat
  <2>1. m \in 0..999
    OBVIOUS
  <2>2. QED
    BY <2>1, GroupMade, LenProperties
<1>4. CASE h = 0
  <2>1. r \in 1..99 /\ m = r /\ Below1000(m, connector) = Below100(r) /\ Holds(number, from, Below100(r))
    BY <1>1, <1>4 DEF SaidOf
  <2>2. Read(sums, number, from, from + Len(Below100(r)), t, 0 + r)
    <3>1. Opens(number, from)
      BY DEF Opens
    <3>2. QED
      BY <2>1, <3>1, TensRead
  <2>3. QED
    BY <1>3, <2>1, <2>2
<1> DEFINE two == HundredWords(h)
<1>5. two \in Seq(Token) /\ Len(two) = 2
  BY WordMade DEF HundredWords
<1>6. CASE h # 0 /\ r = 0
  <2> HIDE DEF two
  <2>1. Below1000(m, connector) = two /\ h \in 1..9 /\ m = 100 * h
    BY <1>1, <1>6 DEF two, SaidOf
  <2>2. Read(sums, number, from, from + 2, t, 100 * h)
    BY <2>1, HundredsRead DEF two
  <2>3. QED
    BY <1>3, <1>5, <2>1, <2>2
<1>7. CASE h # 0 /\ r # 0
  <2> HIDE DEF two
  <2> DEFINE tens == Below100(r)
  <2>1. Below1000(m, connector) = (two \o connector) \o tens /\ h \in 1..9 /\ r \in 1..99
    BY <1>1, <1>7 DEF two, SaidOf
  <2>2. connector \in Seq(Token) /\ tens \in Seq(Token) /\ two \o connector \in Seq(Token)
    BY <1>1, <1>5, WordMade, TensMade, ConcatProperties
  <2> HIDE DEF tens
  <2>3. Holds(number, from, two \o connector) /\ Holds(number, from + Len(two \o connector), tens)
    BY <2>1, <2>2, HeldInParts
  <2>4. Holds(number, from, two) /\ Holds(number, from + Len(two), connector)
    BY <1>5, <2>2, <2>3, HeldInParts
  <2>5. Read(sums, number, from, from + 2, t, 100 * h) /\ number[from + 2].kind = "scale"
    <3>1. Holds(number, from, HundredWords(h))
      BY <2>4 DEF two
    <3>2. h \in 1..9
      BY <2>1
    <3>3. QED
      BY <3>1, <3>2, HundredsRead
  <2>6. PICK n \in Nat : n = Len(tens)
    BY <2>2, LenProperties
  <2>7. sums[from + 2] = SoFar(t, 100 * h) /\ from + 2 <= Len(number) /\ 100 * h \in Nat
    BY <2>5 DEF Read
  <2>8. m = 100 * h + r
    BY <1>1 DEF SaidOf
  <2>9. CASE connector = <<>>
    <3>1. Len(two \o connector) = 2
      BY <1>5, <2>2, <2>9, ConcatEmptySeq
    <3>2. Opens(number, from + 2) /\ Holds(number, from + 2, Below100(r))
      BY <2>3, <2>5, <3>1 DEF Opens, tens
    <3>3. Read(sums, number, from + 2, from + 2 + n, t, 100 * h + r)
      <4>1. from + 2 \in Nat /\ n = Len(Below100(r))
        BY <2>6 DEF tens
      <4>2. QED
        BY <2>1, <2>7, <3>2, <4>1, TensRead
    <3>4. Read(sums, number, from, from + 2 + n, t, 100 * h + r)
      BY <1>2, <2>5, <3>3, ReadOn
    <3>5. Len(Below1000(m, connector)) = 2 + n
      <4>1. Len((two \o connector) \o tens) = Len(two \o connector) + Len(tens)
        BY <2>2, LengthsAdd
      <4>2. QED
        BY <2>1, <2>6, <3>1, <4>1
    <3>6. from + (2 + n) = from + 2 + n
      OBVIOUS
    <3>7. QED
      BY <1>3, <2>8, <3>4, <3>5, <3>6
  <2>10. CASE connector = <<And>>
    <3>1. Len(two \o connector) = 3
      <4>1. Len(connector) = 1
        BY <2>10
      <4>2. Len(two \o connector) = Len(two) + Len(connector)
        BY <1>5, <2>2, LengthsAdd
      <4>3. QED
        BY <1>5, <4>1, <4>2
    <3>2. number[from + 3] = And /\ from + 3 <= Len(number) /\ And.kind = "and"
      <4>1. Len(<<And>>) = 1 /\ <<And>>[1] = And /\ And.kind = "and"
        BY DEF And, Other, Tok
      <4>2. from + 2 + 1 <= Len(number) /\ number[from + 2 + 1] = And
        BY <1>5, <2>4, <2>10, <4>1 DEF Holds
      <4>3. from + 2 + 1 = from + 3
        OBVIOUS
      <4>4. QED
        BY <4>1, <4>2, <4>3
    <3>3. sums[from + 3] = SoFar(t, 100 * h)
      <4>1. from + 3 \in 1..Len(number) /\ (from + 3) - 1 = from + 2
        BY <1>2, <3>2
      <4>2. sums[from + 3] = AddKind(sums[from + 2], And)
        BY <1>2, <3>2, <4>1
      <4>3. sums[from + 3] = AddKind(SoFar(t, 100 * h), And)
        BY <2>7, <4>2
      <4>4. QED
        BY <2>7, <4>3, AndAdded
    <3>4. Opens(number, from + 3) /\ Holds(number, from + 3, Below100(r))
      <4>1. (from + 3) - 1 = from + 2 /\ from + 3 > 1
        OBVIOUS
      <4>2. QED
        BY <2>3, <2>5, <3>1, <3>2, <4>1 DEF Opens, tens
    <3>5. Read(sums, number, from + 3, from + 3 + n, t, 100 * h + r)
      <4>1. from + 3 \in Nat /\ n = Len(Below100(r))
        BY <2>6 DEF tens
      <4>2. QED
        BY <2>1, <2>7, <3>3, <3>4, <4>1, TensRead
    <3>6. Read(sums, number, from, from + 3 + n, t, 100 * h + r)
      <4>1. FitsThere(number, from + 3)
        <5>1. number[from + 3 + 1].kind = "unit" /\ from + 3 < Len(number)
          BY <1>2, <2>6, <3>5 DEF Read
        <5>2. (from + 3) - 1 = from + 2 /\ from + 3 > 1
          OBVIOUS
        <5>3. QED
          BY <2>5, <3>2, <5>1, <5>2 DEF FitsThere
      <4>2. \A k \in (from + 1)..(from + 3 + n) :
              k \in (from + 1)..(from + 2) \/ k = from + 3 \/ k \in (from + 3 + 1)..(from + 3 + n)
        OBVIOUS
      <4>3. QED
        BY <2>5, <2>6, <3>5, <4>1, <4>2 DEF Read
    <3>7. Len(Below1000(m, connector)) = 3 + n
      <4>1. Len((two \o connector) \o tens) = Len(two \o connector) + Len(tens)
        BY <2>2, LengthsAdd
      <4>2. QED
        BY <2>1, <2>6, <3>1, <4>1
    <3>8. from + (3 + n) = from + 3 + n
      OBVIOUS
    <3>9. QED
      BY <1>3, <2>8, <3>6, <3>7, <3>8
  <2>11. QED
    BY <2>9, <2>10 DEF Connectors
<1>8. QED
  BY <1>4, <1>6, <1>7

-----------------------------------------------------------------------------
\* The words between two positions are some groups with their scales, or none.
ReadTo(sums, number, from, to, total) ==
  /\ from <= to /\ to <= Len(number)
  /\ sums[to] = SoFar(total, 0)
  /\ \A k \in (from + 1)..to : FitsThere(number, k)
  /\ from < to => number[from + 1].kind = "unit"
  /\ to = 0 \/ number[to].kind = "scale"

CountOf(n, scale) == (n \div scale) % 1000

LEMMA CountTyped ==
  ASSUME NEW n \in Nat, NEW scale \in LargeScales
  PROVE  CountOf(n, scale) \in 0..999
BY SMT DEF CountOf, LargeScales, Million, Billion

LEMMA ScaledMade ==
  ASSUME NEW n \in Nat, NEW scale \in LargeScales, NEW connector \in Connectors
  PROVE  /\ CountOf(n, scale) \in 0..999
         /\ Below1000(CountOf(n, scale), connector) \in Seq(Token)
         /\ ScaleWords(scale) \in Seq(Token)
         /\ Scaled(n, scale, connector) \in Seq(Token)
<1>1. scale \in Nat /\ n \div scale \in Nat
  BY SMT DEF LargeScales, Million, Billion
<1>2. PICK count \in Nat : count \in 0..999 /\ count = CountOf(n, scale)
  BY <1>1 DEF CountOf
<1>3. Below1000(count, connector) \in Seq(Token)
  BY <1>2, GroupMade
<1>4. ScaleWords(scale) \in Seq(Token)
  <2>1. ScaleWord(scale) \in Token
    BY <1>1, WordMade DEF ScaleWord
  <2>2. QED
    BY <2>1 DEF ScaleWords
<1>5. Below1000(count, connector) \o ScaleWords(scale) \in Seq(Token)
  BY <1>3, <1>4, ConcatProperties
<1>6. Scaled(n, scale, connector) \in Seq(Token)
  BY <1>2, <1>5, WordMade DEF Scaled, IfAny, CountOf, ScaleWords, ScaleWord
<1>7. QED
  BY <1>2, <1>3, <1>4, <1>6

LEMMA ScaledIs ==
  ASSUME NEW n, NEW scale, NEW connector
  PROVE  Scaled(n, scale, connector)
           = IfAny(CountOf(n, scale), Below1000(CountOf(n, scale), connector) \o ScaleWords(scale))
BY DEF Scaled, CountOf, ScaleWords, ScaleWord

LEMMA CountRead ==
  ASSUME NEW number, NEW sums, NEW from, NEW t, GroupBegins(sums, number, from, t),
         NEW scale \in LargeScales, NEW connector \in Connectors, NEW c \in Nat, c \in 1..999,
         Holds(number, from, Below1000(c, connector) \o ScaleWords(scale))
  PROVE  LET to == from + Len(Below1000(c, connector) \o ScaleWords(scale))
         IN  to \in Nat /\ ReadTo(sums, number, from, to, t + Worth(c, scale))
<1>1. number \in Seq(Token) /\ from \in Nat /\ t \in Nat
  BY DEF GroupBegins
<1>2. Len(number) \in Nat /\ \A k \in 1..Len(number) : sums[k] = AddKind(sums[k - 1], number[k])
  BY <1>1, LenProperties DEF GroupBegins, RunningSum
<1>3. AddKind(SoFar(t, c), ScaleWord(scale)) = SoFar(t + Worth(c, scale), 0)
  BY <1>1, ScaleAdded
<1> DEFINE several == Below1000(c, connector)
           last == ScaleWords(scale)
<1>4. several \in Seq(Token) /\ last \in Seq(Token)
  <2>1. c \in 0..999
    OBVIOUS
  <2>2. several \in Seq(Token)
    BY <2>1, GroupMade
  <2>3. ScaleWord(scale) \in Token
    <3>1. scale \in Nat
      BY SMT DEF LargeScales, Million, Billion
    <3>2. QED
      BY <3>1, WordMade DEF ScaleWord
  <2>4. QED
    BY <2>2, <2>3 DEF ScaleWords
<1>5. Len(last) = 1 /\ last[1] = ScaleWord(scale)
  BY DEF ScaleWords
<1> HIDE DEF last
<1>6. Holds(number, from, several) /\ Holds(number, from + Len(several), last)
  BY <1>1, <1>4, HeldInParts DEF last
<1>7. Len(several) \in Nat /\ Read(sums, number, from, from + Len(several), t, c)
  BY <1>6, GroupRead
<1> HIDE DEF several
<1>8. PICK m \in Nat : m = Len(several)
  BY <1>7
<1>9. from + m + 1 <= Len(number) /\ number[from + m + 1] = ScaleWord(scale)
  BY <1>5, <1>6, <1>8 DEF Holds
<1>10. from < from + m /\ sums[from + m] = SoFar(t, c)
  BY <1>7, <1>8 DEF Read
<1>11. sums[from + m + 1] = SoFar(t + Worth(c, scale), 0)
  <2>1. from + m + 1 \in 1..Len(number) /\ (from + m + 1) - 1 = from + m
    BY <1>1, <1>2, <1>9
  <2>2. sums[from + m + 1] = AddKind(sums[from + m], number[from + m + 1])
    BY <1>2, <2>1
  <2>3. QED
    BY <1>3, <1>9, <1>10, <2>2
<1>12. number[from + m + 1].kind = "scale" /\ FitsThere(number, from + m + 1)
  BY <1>9 DEF FitsThere, Tok, ScaleWord
<1>13. \A k \in (from + 1)..(from + m + 1) : k \in (from + 1)..(from + m) \/ k = from + m + 1
  BY <1>1
<1>14. ReadTo(sums, number, from, from + m + 1, t + Worth(c, scale))
  BY <1>1, <1>7, <1>8, <1>9, <1>11, <1>12, <1>13 DEF ReadTo, Read
<1>15. Len(several \o last) = m + 1
  <2>1. Len(several \o last) = Len(several) + Len(last)
    BY <1>4, ConcatProperties
  <2>2. QED
    BY <1>5, <1>8, <2>1
<1>16. from + (m + 1) = from + m + 1 /\ from + (m + 1) \in Nat
  BY <1>1
<1>17. QED
  BY <1>14, <1>15, <1>16 DEF several, last

LEMMA ScaledRead ==
  ASSUME NEW number, NEW sums, NEW from, NEW t, GroupBegins(sums, number, from, t),
         NEW n \in Nat, NEW scale \in LargeScales, NEW connector \in Connectors,
         Holds(number, from, Scaled(n, scale, connector))
  PROVE  LET to == from + Len(Scaled(n, scale, connector))
         IN  to \in Nat /\ ReadTo(sums, number, from, to, t + Worth(CountOf(n, scale), scale))
<1>1. CountOf(n, scale) \in 0..999
  BY SMT DEF CountOf, LargeScales, Million, Billion
<1>2. CASE CountOf(n, scale) = 0
  <2>1. from \in Nat /\ t \in Nat /\ number \in Seq(Token)
    BY DEF GroupBegins
  <2>2. Scaled(n, scale, connector) = <<>> /\ Len(<<>>) = 0
    BY <1>2, ScaledIs DEF IfAny
  <2>3. from <= Len(number)
    BY <2>1, <2>2, LenProperties DEF Holds
  <2>4. t + Worth(CountOf(n, scale), scale) = t
    <3>1. scale \in Nat
      BY SMT DEF LargeScales, Million, Billion
    <3>2. Worth(CountOf(n, scale), scale) = 0
      BY <1>2, <3>1 DEF Worth
    <3>3. QED
      BY <2>1, <3>2
  <2>5. ReadTo(sums, number, from, from, t)
    BY <2>1, <2>3 DEF ReadTo, GroupBegins
  <2>6. from + Len(Scaled(n, scale, connector)) = from
    BY <2>1, <2>2
  <2>7. QED
    BY <2>1, <2>4, <2>5, <2>6
<1>3. CASE CountOf(n, scale) # 0
  <2>1. PICK c \in Nat : c \in 1..999 /\ c = CountOf(n, scale)
    BY <1>1, <1>3
  <2>2. Scaled(n, scale, connector) = Below1000(c, connector) \o ScaleWords(scale)
    BY <1>3, <2>1, ScaledIs DEF IfAny
  <2>3. Holds(number, from, Below1000(c, connector) \o ScaleWords(scale))
    BY <2>2
  <2>4. QED
    BY <2>1, <2>2, <2>3, CountRead
<1>4. QED
  BY <1>2, <1>3

LEMMA ReadToOn ==
  ASSUME NEW number, Len(number) \in Nat, NEW sums, NEW from \in Nat, NEW mid \in Nat, NEW to \in Nat,
         NEW t, NEW u, ReadTo(sums, number, from, mid, t), ReadTo(sums, number, mid, to, u)
  PROVE  ReadTo(sums, number, from, to, u)
<1>1. \A k \in (from + 1)..to : k \in (from + 1)..mid \/ k \in (mid + 1)..to
  OBVIOUS
<1>2. CASE from = mid
  BY <1>2
<1>3. CASE from # mid
  BY <1>1, <1>3 DEF ReadTo
<1>4. QED
  BY <1>2, <1>3

-----------------------------------------------------------------------------
\* The numbers that are said: from one to just below a trillion.
Sayable(n) == n \in Nat /\ 1 <= n /\ n < 1000 * Billion

\* A number's words are read as it, each word going on from those before it.
ReadsAs(number, n) ==
  /\ number \in Seq(Token) /\ number # <<>> /\ number[1].kind = "unit"
  /\ \A k \in 1..Len(number) : FitsThere(number, k)
  /\ EvalKinds(number) = n

Thousands(n) == Worth(CountOf(n, 1000), 1000)
Millions(n) == Worth(CountOf(n, Million), Million)
Billions(n) == Worth(CountOf(n, Billion), Billion)

LEMMA DividedOnce ==
  ASSUME NEW n \in Nat, NEW q \in Nat, NEW r \in Nat, NEW d \in LargeScales, n = d * q + r, r < d
  PROVE  n \div d = q
<1>1. CASE d = 1000
  BY <1>1, SMT
<1>2. CASE d = Million
  BY <1>2, SMT DEF Million
<1>3. CASE d = Billion
  BY <1>3, SMT DEF Million, Billion
<1>4. QED
  BY <1>1, <1>2, <1>3 DEF LargeScales

LEMMA WorthOfAll ==
  ASSUME NEW n, Sayable(n)
  PROVE  /\ Billions(n) \in Nat /\ Millions(n) \in Nat /\ Thousands(n) \in Nat
         /\ n % 1000 \in 0..999
         /\ Billions(n) + Millions(n) + Thousands(n) + (n % 1000) = n
<1>1. n \in Nat /\ n < 1000 * Billion
  BY DEF Sayable
<1>2. PICK x, r \in Nat : r < 1000 /\ n = 1000 * x + r /\ x = n \div 1000 /\ r = n % 1000
  <2>1. n = 1000 * (n \div 1000) + (n % 1000) /\ n % 1000 \in Nat /\ n % 1000 < 1000 /\ n \div 1000 \in Nat
    BY <1>1
  <2>2. QED
    BY <2>1
<1>3. PICK y, s \in Nat : s < 1000 /\ x = 1000 * y + s /\ s = x % 1000
  <2>1. x = 1000 * (x \div 1000) + (x % 1000) /\ x % 1000 \in Nat /\ x % 1000 < 1000 /\ x \div 1000 \in Nat
    OBVIOUS
  <2>2. QED
    BY <2>1
<1>4. PICK z, t \in Nat : t < 1000 /\ y = 1000 * z + t /\ t = y % 1000
  <2>1. y = 1000 * (y \div 1000) + (y % 1000) /\ y % 1000 \in Nat /\ y % 1000 < 1000 /\ y \div 1000 \in Nat
    OBVIOUS
  <2>2. QED
    BY <2>1
<1>5. n \div Million = y
  <2>1. Million \in LargeScales /\ Million = 1000000
    BY SMT DEF LargeScales, Million
  <2>2. PICK u \in Nat : u = 1000 * s + r
    OBVIOUS
  <2>3. n = Million * y + u /\ u < Million
    BY <1>2, <1>3, <2>1, <2>2, SMT
  <2>4. QED
    BY <1>1, <2>1, <2>3, DividedOnce
<1>6. n \div Billion = z /\ z < 1000
  <2>1. Billion \in LargeScales /\ Billion = 1000000000
    BY SMT DEF LargeScales, Million, Billion
  <2>2. PICK u \in Nat : u = 1000000 * t + 1000 * s + r
    BY SMT
  <2>3. n = Billion * z + u /\ u < Billion
    BY <1>2, <1>3, <1>4, <2>1, <2>2, SMT
  <2>4. n \div Billion = z
    BY <1>1, <2>1, <2>3, DividedOnce
  <2>5. z < 1000
    BY <1>1, <2>1, <2>3, SMT
  <2>6. QED
    BY <2>4, <2>5
<1>7. z % 1000 = z
  BY <1>6
<1>8. Billions(n) = z * Billion /\ Millions(n) = t * Million /\ Thousands(n) = s * 1000
  BY <1>2, <1>3, <1>4, <1>5, <1>6, <1>7 DEF Billions, Millions, Thousands, Worth, CountOf
<1>9. Million = 1000000 /\ Billion = 1000000000
  BY SMT DEF Million, Billion
<1>10. /\ Billions(n) \in Nat /\ Millions(n) \in Nat /\ Thousands(n) \in Nat
       /\ Billions(n) + Millions(n) + Thousands(n) + r = n
  <2>1. PICK e, f, g \in Nat : e = z * 1000000000 /\ f = t * 1000000 /\ g = s * 1000
    BY SMT
  <2>2. e + f + g + r = n
    BY <1>2, <1>3, <1>4, <2>1, SMT
  <2>3. Billions(n) = e /\ Millions(n) = f /\ Thousands(n) = g
    BY <1>8, <1>9, <2>1, SMT
  <2>4. QED
    BY <2>2, <2>3
<1>11. r \in 0..999
  BY <1>2
<1>12. QED
  BY <1>2, <1>10, <1>11

\* After some groups, the next begins.
LEMMA NextBegins ==
  ASSUME NEW number \in Seq(Token), NEW sums, RunningSum(sums, number),
         NEW to \in Nat, NEW t \in Nat, ReadTo(sums, number, 0, to, t)
  PROVE  GroupBegins(sums, number, to, t)
BY DEF GroupBegins, ReadTo

LEMMA GroupsMade ==
  ASSUME NEW n, Sayable(n), NEW connector \in Connectors
  PROVE  /\ Scaled(n, Billion, connector) \in Seq(Token)
         /\ Scaled(n, Million, connector) \in Seq(Token)
         /\ Scaled(n, 1000, connector) \in Seq(Token)
         /\ Below1000(n % 1000, connector) \in Seq(Token)
         /\ n % 1000 \in 0..999
<1>1. n \in Nat /\ n % 1000 \in Nat /\ n % 1000 \in 0..999
  BY DEF Sayable
<1>2. 1000 \in LargeScales /\ Million \in LargeScales /\ Billion \in LargeScales
  BY DEF LargeScales
<1>3. \A scale \in LargeScales : Scaled(n, scale, connector) \in Seq(Token)
  BY <1>1, ScaledMade
<1>4. Below1000(n % 1000, connector) \in Seq(Token)
  <2>1. PICK d \in Nat : d = n % 1000 /\ d \in 0..999
    BY <1>1
  <2>2. Below1000(d, connector) \in Seq(Token)
    <3>1. d \in 0..999
      BY <2>1
    <3>2. QED
      BY <3>1, GroupMade
  <2>3. QED
    BY <2>1, <2>2
<1>5. QED
  BY <1>1, <1>2, <1>3, <1>4

\* What the groups of scales add up to, and where the rest begins.
LEMMA ScalesRead ==
  ASSUME NEW n, Sayable(n), NEW connector \in Connectors, NEW number \in Seq(Token), NEW sums,
         RunningSum(sums, number),
         Holds(number, 0, Scaled(n, Billion, connector) \o Scaled(n, Million, connector)
                          \o Scaled(n, 1000, connector))
  PROVE  LET to == Len(Scaled(n, Billion, connector) \o Scaled(n, Million, connector)
                       \o Scaled(n, 1000, connector))
         IN  to \in Nat /\ ReadTo(sums, number, 0, to, Billions(n) + Millions(n) + Thousands(n))
<1>1. n \in Nat /\ 1000 \in LargeScales /\ Million \in LargeScales /\ Billion \in LargeScales
  BY DEF Sayable, LargeScales
<1>2. PICK x, y, z \in Nat : x = Billions(n) /\ y = Millions(n) /\ z = Thousands(n)
  BY WorthOfAll
<1> DEFINE a == Scaled(n, Billion, connector)
           b == Scaled(n, Million, connector)
           c == Scaled(n, 1000, connector)
<1>3. a \in Seq(Token) /\ b \in Seq(Token) /\ c \in Seq(Token)
  BY GroupsMade
<1>4. GroupBegins(sums, number, 0, 0)
  BY DEF GroupBegins, RunningSum, NothingYet, SoFar
<1>5. \A from, t : GroupBegins(sums, number, from, t) /\ Holds(number, from, a)
                   => from + Len(a) \in Nat /\ ReadTo(sums, number, from, from + Len(a), t + x)
  BY <1>1, <1>2, ScaledRead DEF Billions
<1>6. \A from, t : GroupBegins(sums, number, from, t) /\ Holds(number, from, b)
                   => from + Len(b) \in Nat /\ ReadTo(sums, number, from, from + Len(b), t + y)
  BY <1>1, <1>2, ScaledRead DEF Millions
<1>7. \A from, t : GroupBegins(sums, number, from, t) /\ Holds(number, from, c)
                   => from + Len(c) \in Nat /\ ReadTo(sums, number, from, from + Len(c), t + z)
  BY <1>1, <1>2, ScaledRead DEF Thousands
<1>8. Holds(number, 0, (a \o b) \o c)
  OBVIOUS
<1> HIDE DEF a, b, c
<1>9. PICK p, q, r \in Nat : p = Len(a) /\ q = Len(b) /\ r = Len(c)
  BY <1>3, LenProperties
<1>10. a \o b \in Seq(Token) /\ Len(a \o b) = p + q /\ Len((a \o b) \o c) = p + q + r
  BY <1>3, <1>9, ConcatProperties
<1>11. Holds(number, 0, a \o b) /\ Holds(number, 0 + Len(a \o b), c)
  BY <1>3, <1>8, <1>10, HeldInParts
<1>12. Holds(number, 0, a) /\ Holds(number, 0 + Len(a), b)
  BY <1>3, <1>11, HeldInParts
<1>13. Len(number) \in Nat
  BY LenProperties
<1>14. ReadTo(sums, number, 0, p, x)
  <2>1. 0 + Len(a) = p /\ 0 + x = x
    BY <1>9
  <2>2. ReadTo(sums, number, 0, 0 + Len(a), 0 + x)
    BY <1>4, <1>5, <1>12
  <2>3. QED
    BY <2>1, <2>2
<1>15. ReadTo(sums, number, 0, p + q, x + y)
  <2>1. GroupBegins(sums, number, p, x)
    BY <1>14, NextBegins
  <2>2. Holds(number, p, b)
    BY <1>9, <1>12
  <2>3. ReadTo(sums, number, p, p + q, x + y)
    BY <1>6, <1>9, <2>1, <2>2
  <2>4. QED
    BY <1>13, <1>14, <2>3, ReadToOn
<1>16. ReadTo(sums, number, 0, p + q + r, x + y + z)
  <2>1. GroupBegins(sums, number, p + q, x + y)
    BY <1>15, NextBegins
  <2>2. Holds(number, p + q, c)
    BY <1>10, <1>11
  <2>3. ReadTo(sums, number, p + q, p + q + r, x + y + z)
    BY <1>7, <1>9, <2>1, <2>2
  <2>4. QED
    BY <1>13, <1>15, <2>3, ReadToOn
<1>17. QED
  BY <1>2, <1>10, <1>16 DEF a, b, c

LEMMA CardinalRead ==
  ASSUME NEW n, Sayable(n), NEW connector \in Connectors
  PROVE  ReadsAs(Cardinal(n, connector), n)
<1> DEFINE number == Cardinal(n, connector)
           scales == Scaled(n, Billion, connector) \o Scaled(n, Million, connector) \o Scaled(n, 1000, connector)
           rest == Below1000(n % 1000, connector)
<1>1. scales \in Seq(Token) /\ rest \in Seq(Token) /\ number = scales \o rest
  BY GroupsMade, ConcatProperties DEF Cardinal
<1>2. number \in Seq(Token) /\ Len(number) = Len(scales) + Len(rest)
  BY <1>1, ConcatProperties
<1>3. PICK sums : RunningSum(sums, number) /\ EvalKinds(number) = sums[Len(number)].total + sums[Len(number)].current
  BY <1>2, SumsRun
<1>4. Holds(number, 0, number)
  BY <1>2, LenProperties DEF Holds
<1>5. \A to \in Nat, t \in Nat : ReadTo(sums, number, 0, to, t) => GroupBegins(sums, number, to, t)
  BY <1>2, <1>3, NextBegins
<1>6. PICK x \in Nat, d \in Nat :
        x = Billions(n) + Millions(n) + Thousands(n) /\ d = n % 1000 /\ d \in 0..999 /\ x + d = n /\ 1 <= n
  BY WorthOfAll DEF Sayable
<1>7. Holds(number, 0, scales) => Len(scales) \in Nat /\ ReadTo(sums, number, 0, Len(scales), x)
  BY <1>2, <1>3, <1>6, ScalesRead
<1>8. \A from, t : GroupBegins(sums, number, from, t) /\ Holds(number, from, rest) /\ d # 0
                   => Len(rest) \in Nat /\ Read(sums, number, from, from + Len(rest), t, d)
  <2>1. d # 0 => d \in 1..999
    BY <1>6
  <2>2. rest = Below1000(d, connector)
    BY <1>6
  <2> HIDE DEF rest, number
  <2>3. ASSUME NEW from, NEW t, GroupBegins(sums, number, from, t), Holds(number, from, rest), d # 0
        PROVE  Len(rest) \in Nat /\ Read(sums, number, from, from + Len(rest), t, d)
    <3>1. d \in 1..999 /\ Holds(number, from, Below1000(d, connector))
      BY <2>1, <2>2, <2>3
    <3>2. QED
      BY <2>2, <2>3, <3>1, GroupRead
  <2>4. QED
    BY <2>3
<1>9. d = 0 => rest = <<>>
  <2>1. 0 \div 100 = 0 /\ 0 % 100 = 0
    OBVIOUS
  <2>2. rest = Below1000(d, connector)
    BY <1>6
  <2>3. Below1000(0, connector) = <<>> \o <<>>
    BY <2>1 DEF Below1000, Below100, IfAny
  <2>4. <<>> \o <<>> = <<>>
    BY WordMade, ConcatEmptySeq
  <2>5. QED
    BY <2>2, <2>3, <2>4
<1> HIDE DEF number, scales, rest
<1>10. Holds(number, 0, scales \o rest)
  BY <1>1, <1>4
<1>11. Holds(number, 0, scales) /\ Holds(number, 0 + Len(scales), rest)
  BY <1>1, <1>2, <1>10, HeldInParts
<1>12. PICK p, r \in Nat : p = Len(scales) /\ r = Len(rest)
  BY <1>1, LenProperties
<1>13. ReadTo(sums, number, 0, p, x) /\ Len(number) = p + r
  BY <1>2, <1>7, <1>11, <1>12
<1>14. SoFar(x, 0).total = x /\ SoFar(x, 0).current = 0 /\ SoFar(x, d).total = x /\ SoFar(x, d).current = d
  BY DEF SoFar
<1>15. CASE d = 0
  <2>1. r = 0
    BY <1>9, <1>12, <1>15
  <2>2. Len(number) = p /\ sums[p] = SoFar(x, 0) /\ p <= Len(number) /\ (\A k \in 1..p : FitsThere(number, k))
    BY <1>13, <2>1 DEF ReadTo
  <2>3. EvalKinds(number) = n
    <3>1. EvalKinds(number) = sums[p].total + sums[p].current
      BY <1>3, <2>2
    <3>2. EvalKinds(number) = x + 0
      BY <1>14, <2>2, <3>1
    <3>3. QED
      BY <1>6, <1>15, <3>2
  <2>4. p # 0
    <3>1. p = 0 => SoFar(x, 0) = NothingYet
      BY <1>3, <2>2 DEF RunningSum
    <3>2. p = 0 => x = 0
      BY <1>14, <3>1 DEF NothingYet
    <3>3. QED
      BY <1>6, <1>15, <3>2
  <2>5. number[1].kind = "unit" /\ number # <<>>
    <3>1. 0 < p => number[0 + 1].kind = "unit"
      BY <1>13 DEF ReadTo
    <3>2. QED
      BY <1>13, <2>1, <2>4, <3>1
  <2>6. QED
    BY <1>2, <2>2, <2>3, <2>5 DEF ReadsAs, number
<1>16. CASE d # 0
  <2>1. GroupBegins(sums, number, p, x)
    BY <1>5, <1>13
  <2>2. Read(sums, number, p, p + r, x, d)
    BY <1>8, <1>11, <1>12, <1>16, <2>1
  <2>3. p < p + r /\ sums[p + r] = SoFar(x, d) /\ number[p + 1].kind = "unit"
        /\ \A k \in (p + 1)..(p + r) : FitsThere(number, k)
    BY <2>2 DEF Read
  <2>4. EvalKinds(number) = n
    BY <1>3, <1>6, <1>13, <1>14, <2>3
  <2>5. (\A k \in 1..p : FitsThere(number, k)) /\ (0 < p => number[1].kind = "unit")
    BY <1>13 DEF ReadTo
  <2>6. \A k \in 1..Len(number) : FitsThere(number, k)
    <3>1. \A k \in 1..(p + r) : k \in 1..p \/ k \in (p + 1)..(p + r)
      OBVIOUS
    <3>2. QED
      BY <1>13, <2>3, <2>5, <3>1
  <2>7. number[1].kind = "unit" /\ number # <<>>
    BY <1>13, <2>3, <2>5
  <2>8. QED
    BY <1>2, <2>4, <2>6, <2>7 DEF ReadsAs, number
<1>17. QED
  BY <1>15, <1>16

\* Twenty two.
LEMMA TwentyTwo ==
  ReadsAs(<<Unit(20), Unit(2)>>, 22)
<1>1. Sayable(22) /\ \E connector : connector \in Connectors
  BY SMT DEF Sayable, Connectors, Million, Billion
<1>2. PICK connector : connector \in Connectors
  BY <1>1
<1>3. Cardinal(22, connector) = <<Unit(20), Unit(2)>>
  <2> DEFINE two == <<Unit(20), Unit(2)>>
  <2>1. Below100(22) = two
    <3>1. 22 % 10 = 2 /\ <<Unit(20)>> \o <<Unit(2)>> = two
      BY Joins
    <3>2. QED
      BY <3>1 DEF Below100, IfAny
  <2>2. two \in Seq(Token)
    BY WordMade
  <2> HIDE DEF two
  <2>3. Below1000(22, connector) = <<>> \o two
    <3>1. 22 \div 100 = 0 /\ 22 % 100 = 22
      OBVIOUS
    <3>2. QED
      BY <2>1, <3>1 DEF Below1000, IfAny
  <2>4. \A scale \in LargeScales : Scaled(22, scale, connector) = <<>>
    <3>1. \A scale \in LargeScales : CountOf(22, scale) = 0
      BY SMT DEF CountOf, LargeScales, Million, Billion
    <3>2. QED
      BY <3>1, ScaledIs DEF IfAny
  <2>5. Scaled(22, Billion, connector) = <<>> /\ Scaled(22, Million, connector) = <<>> /\ Scaled(22, 1000, connector) = <<>>
    BY <2>4 DEF LargeScales
  <2>6. 22 % 1000 = 22
    OBVIOUS
  <2>7. Cardinal(22, connector) = ((<<>> \o <<>>) \o <<>>) \o (<<>> \o two)
    <3>1. Cardinal(22, connector) = Scaled(22, Billion, connector) \o Scaled(22, Million, connector)
                                 \o Scaled(22, 1000, connector) \o Below1000(22 % 1000, connector)
      BY DEF Cardinal
    <3>2. Below1000(22 % 1000, connector) = <<>> \o two
      BY <2>3, <2>6
    <3> DEFINE x == Scaled(22, Billion, connector)
               y == Scaled(22, Million, connector)
               z == Scaled(22, 1000, connector)
               w == Below1000(22 % 1000, connector)
    <3>3. Cardinal(22, connector) = ((x \o y) \o z) \o w
      BY <3>1
    <3>4. x = <<>> /\ y = <<>> /\ z = <<>> /\ w = <<>> \o two
      BY <2>5, <3>2
    <3> HIDE DEF x, y, z, w
    <3>5. QED
      BY <3>3, <3>4
  <2>8. <<>> \o <<>> = <<>> /\ <<>> \o two = two
    BY <2>2, WordMade, ConcatEmptySeq
  <2>9. QED
    BY <2>7, <2>8 DEF two
<1>4. QED
  BY <1>1, <1>2, <1>3, CardinalRead

-----------------------------------------------------------------------------
(* A number among the words of a text.                                      *)
NumberBefore(i, j) == {k \in i..(j - 1) : IsNumberWord(k)}

\* The last number word before a position, right before it or before an and.
LEMMA LastNumberWord ==
  ASSUME NEW i \in Nat, NEW j \in Nat, NEW last \in Nat, i <= last, last < j, IsNumberWord(last),
         \A k \in (last + 1)..(j - 1) : ~IsNumberWord(k)
  PROVE  NumberBefore(i, j) # {} /\ Max(NumberBefore(i, j)) = last
<1>1. NumberBefore(i, j) \in SUBSET (0..j) /\ last \in NumberBefore(i, j)
  BY DEF NumberBefore
<1>2. Max(NumberBefore(i, j)) \in NumberBefore(i, j) /\ last <= Max(NumberBefore(i, j))
  BY <1>1, GreatestSuch
<1>3. PICK m \in Nat : m = Max(NumberBefore(i, j)) /\ last <= m /\ m <= j - 1 /\ IsNumberWord(m)
  <2>1. \A m \in NumberBefore(i, j) : m \in Nat /\ m <= j - 1 /\ IsNumberWord(m)
    BY DEF NumberBefore
  <2>2. QED
    BY <1>2, <2>1
<1>4. m <= last
  BY <1>3
<1>5. QED
  BY <1>1, <1>3, <1>4

LEMMA TierBefore ==
  ASSUME NEW i \in Nat, NEW j \in Nat, NEW last \in Nat, i <= last, last < j, IsNumberWord(last),
         \A k \in (last + 1)..(j - 1) : ~IsNumberWord(k)
  PROVE  LastTier(i, j) = IF Kind(last) = "scale" THEN NoTier ELSE Tier(text[last].value[1])
BY LastNumberWord DEF LastTier, NumberBefore

LEMMA TierAtFirst ==
  ASSUME NEW i \in Nat
  PROVE  LastTier(i, i) = NoTier
<1>1. {k \in i..(i - 1) : IsNumberWord(k)} = {}
  OBVIOUS
<1>2. QED
  BY <1>1 DEF LastTier

LEMMA TierBelow ==
  ASSUME NEW v \in Nat
  PROVE  Tier(v) < NoTier
BY DEF Tier, NoTier

\* The words of the number are those of the text from i on, and what follows extends no
\* number.
Stands(number, i) ==
  /\ i \in Nat /\ i >= 1 /\ Holds(text, i - 1, number)
  /\ Kind(i + Len(number)) \notin {"unit", "scale", "and"}

LEMMA StandingWord ==
  ASSUME text \in Seq(Token), NEW number, NEW n, ReadsAs(number, n), NEW i, Stands(number, i),
         NEW k \in 1..Len(number)
  PROVE  /\ i + k - 1 \in 1..Len(text) /\ text[i + k - 1] = number[k] /\ Kind(i + k - 1) = number[k].kind
         /\ FitsThere(number, k) /\ k \in Nat /\ i \in Nat
         /\ number[k].kind = "unit" => number[k].value[1] \in Nat
<1>1. Len(number) \in Nat /\ Len(text) \in Nat /\ number[k] \in Token
  BY Words, LenProperties, ElementOfSeq DEF ReadsAs
<1>2. i \in Nat /\ i >= 1 /\ (i - 1) + Len(number) <= Len(text) /\ text[(i - 1) + k] = number[k]
  BY DEF Stands, Holds
<1>3. (i - 1) + k = i + k - 1 /\ i + k - 1 \in 1..Len(text)
  BY <1>1, <1>2
<1>4. Kind(i + k - 1) = number[k].kind
  BY <1>2, <1>3, Words
<1>5. number[k].kind = "unit" => number[k].value[1] \in Nat
  BY <1>1, TokenFields DEF NumberKinds
<1>6. QED
  BY <1>2, <1>3, <1>4, <1>5 DEF ReadsAs

LEMMA GoesOnThere ==
  ASSUME text \in Seq(Token), NEW number, NEW n, ReadsAs(number, n), NEW i, Stands(number, i),
         NEW k \in 1..Len(number)
  PROVE  RunGoesOn(i, i + k - 1)
<1> DEFINE j == i + k - 1
<1>1. /\ j \in 1..Len(text) /\ text[j] = number[k] /\ Kind(j) = number[k].kind
      /\ FitsThere(number, k) /\ k \in Nat /\ i \in Nat
      /\ number[k].kind = "unit" => number[k].value[1] \in Nat
  BY StandingWord
<1>2. k >= 1 /\ Len(number) \in Nat
  BY LenProperties DEF ReadsAs
<1>3. k > 1 => /\ Kind(i + k - 2) = number[k - 1].kind /\ text[i + k - 2] = number[k - 1]
               /\ number[k - 1].kind = "unit" => number[k - 1].value[1] \in Nat
  <2>1. k > 1 => k - 1 \in 1..Len(number) /\ i + (k - 1) - 1 = i + k - 2
    BY <1>1, <1>2
  <2>2. QED
    BY <2>1, StandingWord
<1>4. k > 2 => Kind(i + k - 3) = number[k - 2].kind
  <2>1. k > 2 => k - 2 \in 1..Len(number) /\ i + (k - 2) - 1 = i + k - 3
    BY <1>1, <1>2, SMTT(30)
  <2>2. QED
    BY <2>1, StandingWord
<1>5. CASE number[k].kind = "scale"
  BY <1>1, <1>5 DEF RunGoesOn
<1>6. CASE number[k].kind = "and"
  <2>1. k > 1 /\ k < Len(number) /\ number[k + 1].kind = "unit"
    BY <1>1, <1>6 DEF FitsThere
  <2>2. k + 1 \in 1..Len(number) /\ i + (k + 1) - 1 = j + 1 /\ j > i
    BY <1>1, <1>2, <2>1
  <2>3. Kind(j + 1) = "unit"
    BY <2>1, <2>2, StandingWord
  <2>4. QED
    BY <1>1, <1>6, <2>2, <2>3 DEF RunGoesOn, IsNumberWord
<1>7. CASE number[k].kind = "unit"
  <2>1. j \in Nat /\ (k > 1 => i + k - 2 \in Nat /\ i <= i + k - 2 /\ i + k - 2 < j /\ (i + k - 2) + 1 > j - 1)
    BY <1>1, <1>2
  <2>2. k > 1 /\ number[k - 1].kind \in {"scale", "unit"} =>
          LastTier(i, j) = IF number[k - 1].kind = "scale" THEN NoTier ELSE Tier(number[k - 1].value[1])
    <3>1. SUFFICES ASSUME k > 1, number[k - 1].kind \in {"scale", "unit"}
                   PROVE  LastTier(i, j) = IF number[k - 1].kind = "scale" THEN NoTier ELSE Tier(number[k - 1].value[1])
      OBVIOUS
    <3>2. PICK last \in Nat : last = i + k - 2 /\ i <= last /\ last < j /\ last + 1 > j - 1
      BY <2>1, <3>1
    <3>3. IsNumberWord(last) /\ \A m \in (last + 1)..(j - 1) : ~IsNumberWord(m)
      BY <1>3, <2>1, <3>1, <3>2 DEF IsNumberWord
    <3>4. LastTier(i, j) = IF Kind(last) = "scale" THEN NoTier ELSE Tier(text[last].value[1])
      BY <1>1, <2>1, <3>2, <3>3, TierBefore
    <3>5. QED
      BY <1>3, <3>1, <3>2, <3>4
  <2>3. k > 2 /\ number[k - 1].kind = "and" /\ number[k - 2].kind = "scale" => LastTier(i, j) = NoTier
    <3>1. SUFFICES ASSUME k > 2, number[k - 1].kind = "and", number[k - 2].kind = "scale"
                   PROVE  LastTier(i, j) = NoTier
      OBVIOUS
    <3>2. PICK last \in Nat : last = i + k - 3 /\ i <= last /\ last < j /\ last + 1 = i + k - 2 /\ last + 1 = j - 1
      BY <1>1, <1>2, <3>1
    <3>3. IsNumberWord(last) /\ \A m \in (last + 1)..(j - 1) : ~IsNumberWord(m)
      <4>1. \A m \in (last + 1)..(j - 1) : m = i + k - 2
        BY <2>1, <3>2
      <4>2. QED
        BY <1>3, <1>4, <3>1, <3>2, <4>1 DEF IsNumberWord
    <3>4. LastTier(i, j) = IF Kind(last) = "scale" THEN NoTier ELSE Tier(text[last].value[1])
      BY <1>1, <2>1, <3>2, <3>3, TierBefore
    <3>5. QED
      BY <1>4, <3>1, <3>2, <3>4
  <2>4. k = 1 => LastTier(i, j) = NoTier
    <3>1. k = 1 => j = i
      BY <1>1
    <3>2. QED
      BY <1>1, <3>1, TierAtFirst
  <2>5. Tier(number[k].value[1]) < NoTier
    BY <1>1, <1>7, TierBelow
  <2>6. \/ k = 1
        \/ number[k - 1].kind = "scale"
        \/ number[k - 1].kind = "and" /\ k > 2 /\ number[k - 2].kind = "scale"
        \/ number[k - 1].kind = "unit" /\ Tier(number[k].value[1]) < Tier(number[k - 1].value[1])
    BY <1>1, <1>7 DEF FitsThere
  <2>7. Tier(number[k].value[1]) < LastTier(i, j)
    BY <1>2, <2>2, <2>3, <2>4, <2>5, <2>6
  <2>8. QED
    BY <1>1, <1>7, <2>7 DEF RunGoesOn
<1>8. QED
  BY <1>1, <1>5, <1>6, <1>7 DEF FitsThere

LEMMA StandingRead ==
  ASSUME text \in Seq(Token), NEW number, NEW n, ReadsAs(number, n), NEW i, Stands(number, i)
  PROVE  /\ i \in 1..Len(text) /\ IsNumberWord(i) /\ IsNumberAt(i)
         /\ RunEnd(i) = i + Len(number) /\ NumberEnd(i) = i + Len(number) /\ NumberAt(i) = n
<1> DEFINE stop == i + Len(number)
<1>1. Len(number) \in Nat /\ Len(number) >= 1 /\ Len(text) \in Nat /\ i \in Nat /\ i >= 1 /\ number \in Seq(Token)
  BY Words, LenProperties, EmptySeq DEF ReadsAs, Stands
<1>2. (i - 1) + Len(number) <= Len(text) /\ Kind(stop) \notin {"unit", "scale", "and"}
  BY DEF Stands, Holds
<1>3. i \in 1..Len(text) /\ stop \in i..(Len(text) + 1)
  BY <1>1, <1>2
<1>4. Kind(i) = "unit"
  <2>1. 1 \in 1..Len(number) /\ i + 1 - 1 = i
    BY <1>1
  <2>2. Kind(i) = number[1].kind
    BY <2>1, StandingWord
  <2>3. QED
    BY <2>2 DEF ReadsAs
<1>5. \A j \in i..(stop - 1) : RunGoesOn(i, j)
  <2>1. ASSUME NEW j \in i..(stop - 1) PROVE RunGoesOn(i, j)
    <3>1. j - i + 1 \in 1..Len(number) /\ i + (j - i + 1) - 1 = j
      BY <1>1
    <3>2. QED
      BY <3>1, GoesOnThere
  <2>2. QED
    BY <2>1
<1>6. ~RunGoesOn(i, stop)
  BY <1>2 DEF RunGoesOn
<1>7. PICK e \in i..(Len(text) + 1) : e = RunEnd(i) /\ ~RunGoesOn(i, e) /\ \A k \in i..(e - 1) : RunGoesOn(i, k)
  <2>1. i \in 1..(Len(text) + 1)
    BY <1>3
  <2>2. QED
    BY <2>1, RunEnds
<1>8. e = stop
  <2>1. ~(e < stop)
    BY <1>1, <1>5, <1>7
  <2>2. ~(stop < e)
    BY <1>1, <1>6, <1>7
  <2>3. QED
    BY <1>1, <1>7, <2>1, <2>2
<1>9. SubSeq(text, i, stop - 1) = number
  <2>1. \A k \in i..(stop - 1) : text[k] \in Token
    BY <1>1, <1>2, Words
  <2>2. PICK last \in Nat : last = stop - 1
    BY <1>1
  <2>3. i <= last /\ last - i + 1 = Len(number)
    BY <1>1, <2>2
  <2>4. SubSeq(text, i, last) \in Seq(Token) /\ Len(SubSeq(text, i, last)) = Len(number)
        /\ \A k \in 1..Len(number) : SubSeq(text, i, last)[k] = text[i + k - 1]
    <3>1. i \in Int /\ last \in Int /\ \A k \in i..last : text[k] \in Token
      BY <1>1, <2>1, <2>2, <2>3
    <3>2. /\ SubSeq(text, i, last) \in Seq(Token)
          /\ Len(SubSeq(text, i, last)) = last - i + 1
          /\ \A k \in 1..(last - i + 1) : SubSeq(text, i, last)[k] = text[i + k - 1]
      BY <2>2, <2>3, <3>1, SubSeqProperties
    <3>3. QED
      BY <2>2, <2>3, <3>2
  <2>5. \A k \in 1..Len(number) : text[i + k - 1] = number[k]
    BY StandingWord
  <2>6. QED
    BY <1>1, <2>2, <2>4, <2>5, SeqEqual
<1>10. IsNumberWord(i) /\ Kind(i) # "digits"
  BY <1>4 DEF IsNumberWord
<1>11. NumberAt(i) = n
  BY <1>7, <1>8, <1>9, <1>10 DEF NumberAt, ReadsAs
<1>12. QED
  BY <1>3, <1>7, <1>8, <1>10, <1>11 DEF NumberEnd, IsNumberAt

-----------------------------------------------------------------------------
(* What is said with a number, and what the passes make of it.              *)
Contexts == {"dollars", "percent", "fifths", "plain", "squared", "point", "product"}

PointWords == <<Other("point"), Unit(1), Unit(4)>>
ProductWords == <<Times, Unit(20), Unit(2)>>
Single(kind, value) == <<Tok(kind, value)>>

\* The words after the number.
After(context) ==
  CASE context = "dollars" -> Single("dollars", <<>>)
    [] context = "percent" -> Single("percent", <<>>)
    [] context = "fifths" -> Single("denominator", <<5>>)
    [] context = "squared" -> Single("squared", <<>>)
    [] context = "point" -> PointWords
    [] context = "product" -> ProductWords
    [] context = "plain" -> <<>>

InWords(context, n, connector) == Cardinal(n, connector) \o After(context)

\* What the numbers pass makes of it.
ProductDigits(n) == <<Digits(n), Times, Digits(22)>>

InDigits(context, n) ==
  CASE context = "point" -> Single("decimal", <<n, 1, 4>>)
    [] context = "product" -> ProductDigits(n)
    [] OTHER -> Single("digits", <<n>>) \o After(context)

\* The pass whose pattern it has, and what that one makes of it.
PatternOf(context) ==
  CASE context = "dollars" -> "currency"
    [] context \in {"percent", "fifths"} -> "percents"
    [] context \in {"squared", "product"} -> "formulas"
    [] context \in {"plain", "point"} -> "none"

ProductWritten(n) == <<Digits(n), Tok("sign", <<1>>), Digits(22)>>

Written(context, n) ==
  CASE context = "dollars" -> Single("money", <<n>>)
    [] context = "percent" -> Single("percentage", <<n>>)
    [] context = "fifths" -> Single("fraction", <<n, 5>>)
    [] context = "squared" -> Single("square", <<n>>)
    [] context = "product" -> ProductWritten(n)
    [] context \in {"plain", "point"} -> <<>>

Outcome(context, n, connector, asDigits, asFormulas) ==
  IF PatternOf(context) \in {"currency", "percents"} \/ (PatternOf(context) = "formulas" /\ asFormulas)
  THEN Written(context, n)
  ELSE IF asDigits THEN InDigits(context, n) ELSE InWords(context, n, connector)

\* The speech is this number in this context.
Says(utterance, context, n, connector) ==
  /\ context \in Contexts /\ Sayable(n) /\ connector \in Connectors
  /\ utterance.said = InWords(context, n, connector)
  /\ \A d, f \in BOOLEAN : utterance.meant[<<d, f>>] = {Outcome(context, n, connector, d, f)}

LEMMA SaysOneOf ==
  ASSUME NEW n, Sayable(n), NEW connector \in Connectors, NEW utterance \in SpeechesOf(n, connector)
  PROVE  \E context : Says(utterance, context, n, connector)
<1> DEFINE said == Cardinal(n, connector)
<1>1. said \in Seq(Token) /\ said \o <<>> = said
  <2>1. said \in Seq(Token)
    BY CardinalRead DEF ReadsAs
  <2> HIDE DEF said
  <2>2. QED
    BY <2>1, ConcatEmptySeq
<1>2. Single("digits", <<n>>) \o <<>> = Single("digits", <<n>>)
  BY Joins DEF Single
<1> DEFINE twoPoint == <<Other("point"), Unit(1), Unit(4)>>
           product == <<Times, Unit(20), Unit(2)>>
           plain(d) == IF d THEN <<Digits(n)>> ELSE said
<1>3. \/ utterance = Always(said \o <<Other("dollars")>>, <<Tok("money", <<n>>)>>)
      \/ utterance = Always(said \o <<Other("percent")>>, <<Tok("percentage", <<n>>)>>)
      \/ utterance = Always(said \o <<Tok("denominator", <<5>>)>>, <<Tok("fraction", <<n, 5>>)>>)
      \/ utterance = Speech(said, LAMBDA d, f : {plain(d)})
      \/ utterance = Speech(said \o <<Other("squared")>>,
                            LAMBDA d, f : {IF f THEN <<Tok("square", <<n>>)>> ELSE plain(d) \o <<Other("squared")>>})
      \/ utterance = Speech(said \o twoPoint,
                            LAMBDA d, f : {IF d THEN <<Tok("decimal", <<n, 1, 4>>)>> ELSE said \o twoPoint})
      \/ utterance = Speech(said \o product,
                            LAMBDA d, f : {CASE f -> <<Digits(n), Tok("sign", <<1>>), Digits(22)>>
                                             [] d /\ ~f -> <<Digits(n), Times, Digits(22)>>
                                             [] OTHER -> said \o product})
  BY DEF SpeechesOf
<1> DEFINE Is(context) == /\ utterance.said = InWords(context, n, connector)
                          /\ \A d, f \in BOOLEAN : utterance.meant[<<d, f>>] = {Outcome(context, n, connector, d, f)}
<1>4. CASE utterance = Always(said \o <<Other("dollars")>>, <<Tok("money", <<n>>)>>)
  <2> DEFINE word == <<Other("dollars")>>
             written == <<Tok("money", <<n>>)>>
  <2>1. InWords("dollars", n, connector) = said \o word
    BY DEF InWords, After, Single, Other
  <2>2. \A d, f : Outcome("dollars", n, connector, d, f) = written
    BY DEF Outcome, PatternOf, Written, Single
  <2>3. utterance = Always(said \o word, written)
    BY <1>4
  <2> HIDE DEF said, word, written
  <2>4. Is("dollars")
    <3>1. utterance.said = said \o word /\ \A d, f \in BOOLEAN : utterance.meant[<<d, f>>] = {written}
      BY <2>3 DEF Always, Speech
    <3>2. QED
      BY <2>1, <2>2, <3>1
  <2> HIDE DEF Is
  <2>5. \E context \in Contexts : Is(context)
    BY <2>4 DEF Contexts
  <2>6. QED
    BY <2>5 DEF Is, Says
<1>5. CASE utterance = Always(said \o <<Other("percent")>>, <<Tok("percentage", <<n>>)>>)
  <2> DEFINE word == <<Other("percent")>>
             written == <<Tok("percentage", <<n>>)>>
  <2>1. InWords("percent", n, connector) = said \o word
    BY DEF InWords, After, Single, Other
  <2>2. \A d, f : Outcome("percent", n, connector, d, f) = written
    BY DEF Outcome, PatternOf, Written, Single
  <2>3. utterance = Always(said \o word, written)
    BY <1>5
  <2> HIDE DEF said, word, written
  <2>4. Is("percent")
    <3>1. utterance.said = said \o word /\ \A d, f \in BOOLEAN : utterance.meant[<<d, f>>] = {written}
      BY <2>3 DEF Always, Speech
    <3>2. QED
      BY <2>1, <2>2, <3>1
  <2> HIDE DEF Is
  <2>5. \E context \in Contexts : Is(context)
    BY <2>4 DEF Contexts
  <2>6. QED
    BY <2>5 DEF Is, Says
<1>6. CASE utterance = Always(said \o <<Tok("denominator", <<5>>)>>, <<Tok("fraction", <<n, 5>>)>>)
  <2> DEFINE word == <<Tok("denominator", <<5>>)>>
             written == <<Tok("fraction", <<n, 5>>)>>
  <2>1. InWords("fifths", n, connector) = said \o word
    BY DEF InWords, After, Single
  <2>2. \A d, f : Outcome("fifths", n, connector, d, f) = written
    BY DEF Outcome, PatternOf, Written, Single
  <2>3. utterance = Always(said \o word, written)
    BY <1>6
  <2> HIDE DEF said, word, written
  <2>4. Is("fifths")
    <3>1. utterance.said = said \o word /\ \A d, f \in BOOLEAN : utterance.meant[<<d, f>>] = {written}
      BY <2>3 DEF Always, Speech
    <3>2. QED
      BY <2>1, <2>2, <3>1
  <2> HIDE DEF Is
  <2>5. \E context \in Contexts : Is(context)
    BY <2>4 DEF Contexts
  <2>6. QED
    BY <2>5 DEF Is, Says
<1>7. CASE utterance = Speech(said, LAMBDA d, f : {plain(d)})
  <2>1. InWords("plain", n, connector) = said
    BY <1>1 DEF InWords, After
  <2>2. \A d, f : Outcome("plain", n, connector, d, f) = plain(d)
    <3>1. InDigits("plain", n) = <<Digits(n)>>
      BY <1>2 DEF InDigits, After, Single, Digits
    <3> HIDE DEF said
    <3>2. QED
      BY <2>1, <3>1 DEF Outcome, PatternOf
  <2>3. utterance.said = said /\ \A d, f \in BOOLEAN : utterance.meant[<<d, f>>] = {plain(d)}
    <3> HIDE DEF said
    <3>1. QED
      BY <1>7 DEF Speech
  <2> HIDE DEF said, plain
  <2>4. Is("plain")
    BY <2>1, <2>2, <2>3
  <2> HIDE DEF Is
  <2>5. \E context \in Contexts : Is(context)
    BY <2>4 DEF Contexts
  <2>6. QED
    BY <2>5 DEF Is, Says
<1>8. CASE utterance = Speech(said \o <<Other("squared")>>,
                              LAMBDA d, f : {IF f THEN <<Tok("square", <<n>>)>> ELSE plain(d) \o <<Other("squared")>>})
  <2> DEFINE squared == <<Other("squared")>>
             power == <<Tok("square", <<n>>)>>
  <2>1. InWords("squared", n, connector) = said \o squared
    BY DEF InWords, After, Single, Other
  <2>2. InDigits("squared", n) = <<Digits(n)>> \o squared
    BY DEF InDigits, After, Single, Digits, Other
  <2>3. Written("squared", n) = power
    BY DEF Written, Single
  <2>4. utterance.said = said \o squared
        /\ \A d, f \in BOOLEAN : utterance.meant[<<d, f>>] = {IF f THEN power ELSE plain(d) \o squared}
    <3> HIDE DEF said
    <3>1. QED
      BY <1>8 DEF Speech
  <2> HIDE DEF said, squared, power
  <2>5. \A d, f : Outcome("squared", n, connector, d, f) = IF f THEN power ELSE plain(d) \o squared
    BY <2>1, <2>2, <2>3 DEF Outcome, PatternOf
  <2> HIDE DEF plain
  <2>6. Is("squared")
    BY <2>1, <2>4, <2>5
  <2> HIDE DEF Is
  <2>7. \E context \in Contexts : Is(context)
    BY <2>6 DEF Contexts
  <2>8. QED
    BY <2>7 DEF Is, Says
<1>9. CASE utterance = Speech(said \o twoPoint,
                              LAMBDA d, f : {IF d THEN <<Tok("decimal", <<n, 1, 4>>)>> ELSE said \o twoPoint})
  <2> DEFINE decimal == <<Tok("decimal", <<n, 1, 4>>)>>
  <2>1. InWords("point", n, connector) = said \o twoPoint
    BY DEF InWords, After, PointWords
  <2>2. InDigits("point", n) = decimal
    BY DEF InDigits, Single
  <2>3. utterance.said = said \o twoPoint
        /\ \A d, f \in BOOLEAN : utterance.meant[<<d, f>>] = {IF d THEN decimal ELSE said \o twoPoint}
    <3> HIDE DEF said
    <3>1. QED
      BY <1>9 DEF Speech
  <2> HIDE DEF said, twoPoint, decimal
  <2>4. \A d, f : Outcome("point", n, connector, d, f) = IF d THEN decimal ELSE said \o twoPoint
    BY <2>1, <2>2 DEF Outcome, PatternOf
  <2>5. Is("point")
    BY <2>1, <2>3, <2>4
  <2> HIDE DEF Is
  <2>6. \E context \in Contexts : Is(context)
    BY <2>5 DEF Contexts
  <2>7. QED
    BY <2>6 DEF Is, Says
<1>10. CASE utterance = Speech(said \o product,
                               LAMBDA d, f : {CASE f -> <<Digits(n), Tok("sign", <<1>>), Digits(22)>>
                                                [] d /\ ~f -> <<Digits(n), Times, Digits(22)>>
                                                [] OTHER -> said \o product})
  <2> DEFINE formula == <<Digits(n), Tok("sign", <<1>>), Digits(22)>>
             half == <<Digits(n), Times, Digits(22)>>
             Meant(d, f) == CASE f -> formula [] d /\ ~f -> half [] OTHER -> said \o product
  <2>1. InWords("product", n, connector) = said \o product
    BY DEF InWords, After, ProductWords
  <2>2. InDigits("product", n) = half /\ Written("product", n) = formula
    BY DEF InDigits, Written, ProductDigits, ProductWritten
  <2>3. utterance.said = said \o product
        /\ \A d, f \in BOOLEAN : utterance.meant[<<d, f>>] = {Meant(d, f)}
    <3> HIDE DEF said
    <3>1. QED
      BY <1>10 DEF Speech
  <2> HIDE DEF said, product, half, formula
  <2>4. \A d, f \in BOOLEAN : Outcome("product", n, connector, d, f) = Meant(d, f)
    BY <2>1, <2>2 DEF Outcome, PatternOf
  <2> HIDE DEF Meant
  <2>5. Is("product")
    BY <2>1, <2>3, <2>4
  <2> HIDE DEF Is
  <2>6. \E context \in Contexts : Is(context)
    BY <2>5 DEF Contexts
  <2>7. QED
    BY <2>6 DEF Is, Says
<1>11. QED
  BY <1>3, <1>4, <1>5, <1>6, <1>7, <1>8, <1>9, <1>10

\* The words after a number: how many, and of which kinds.
FollowKind(context) ==
  CASE context = "dollars" -> "dollars"
    [] context = "percent" -> "percent"
    [] context = "fifths" -> "denominator"
    [] context = "squared" -> "squared"
    [] context = "point" -> "point"
    [] context = "product" -> "operator"
    [] context = "plain" -> "none"

AfterLength(context) == CASE context = "plain" -> 0 [] context \in {"point", "product"} -> 3 [] OTHER -> 1

LEMMA PlainWord ==
  ASSUME NEW kind \in WordKinds, kind \notin NumberKinds
  PROVE  Single(kind, <<>>) \in Seq(Token) /\ Len(Single(kind, <<>>)) = 1 /\ Single(kind, <<>>)[1] = Tok(kind, <<>>)
<1>1. <<>> \in Seq(Nat)
  BY EmptySeq
<1>2. Tok(kind, <<>>) \in Token
  BY <1>1 DEF Tok, Token, NumberKinds
<1>3. QED
  BY <1>2 DEF Single

LEMMA Three ==
  ASSUME NEW S, NEW x \in S, NEW y \in S, NEW z \in S
  PROVE  /\ <<x, y, z>> \in Seq(S) /\ Len(<<x, y, z>>) = 3
         /\ <<x, y, z>>[1] = x /\ <<x, y, z>>[2] = y /\ <<x, y, z>>[3] = z
OBVIOUS

LEMMA AfterIs ==
  ASSUME NEW context \in Contexts
  PROVE  /\ After(context) \in Seq(Token) /\ Len(After(context)) = AfterLength(context)
         /\ context # "plain" => After(context)[1].kind = FollowKind(context)
         /\ context = "fifths" => After(context)[1].value[1] = 5
         /\ context = "point" => After(context)[2] = Unit(1) /\ After(context)[3] = Unit(4)
         /\ context = "product" => /\ After(context)[1] = Times /\ After(context)[2] = Unit(20)
                                   /\ After(context)[3] = Unit(2)
<1>1. \A kind, value : Tok(kind, value).kind = kind /\ Tok(kind, value).value = value
  BY DEF Tok
<1>2. CASE context \in {"dollars", "percent", "squared"}
  <2>1. /\ FollowKind(context) \in WordKinds /\ FollowKind(context) \notin NumberKinds
        /\ After(context) = Single(FollowKind(context), <<>>) /\ AfterLength(context) = 1
    BY <1>2 DEF FollowKind, WordKinds, NumberKinds, After, AfterLength
  <2>2. QED
    BY <1>1, <1>2, <2>1, PlainWord
<1>3. CASE context = "fifths"
  <2>1. After(context) = <<Tok("denominator", <<5>>)>> /\ AfterLength(context) = 1
    BY <1>3 DEF After, AfterLength, Single
  <2>2. Tok("denominator", <<5>>) \in Token
    BY NumberMade DEF WordKinds
  <2> DEFINE word == Tok("denominator", <<5>>)
  <2>3. word.kind = "denominator" /\ word.value[1] = 5
    BY DEF Tok
  <2> HIDE DEF word
  <2>4. <<word>> \in Seq(Token) /\ Len(<<word>>) = 1 /\ <<word>>[1] = word
    BY <2>2 DEF word
  <2>5. After(context) = <<word>>
    BY <2>1 DEF word
  <2>6. QED
    BY <1>3, <2>1, <2>3, <2>4, <2>5 DEF FollowKind
<1>4. CASE context = "plain"
  BY <1>4, EmptySeq DEF After, AfterLength
<1>5. CASE context = "point"
  <2>1. Other("point") \in Token
    <3>1. <<>> \in Seq(Nat)
      BY EmptySeq
    <3>2. QED
      BY <3>1 DEF Other, Tok, Token, WordKinds
  <2>2. Unit(1) \in Token /\ Unit(4) \in Token
    BY WordMade
  <2>3. /\ PointWords \in Seq(Token) /\ Len(PointWords) = 3
        /\ PointWords[1] = Other("point") /\ PointWords[2] = Unit(1) /\ PointWords[3] = Unit(4)
    BY <2>1, <2>2, Three DEF PointWords
  <2>4. Other("point").kind = "point"
    BY DEF Other, Tok
  <2>5. After(context) = PointWords /\ AfterLength(context) = 3 /\ FollowKind(context) = "point"
    BY <1>5 DEF After, AfterLength, FollowKind
  <2>6. QED
    BY <1>5, <2>3, <2>4, <2>5
<1>6. CASE context = "product"
  <2>1. Times \in Token
    BY NumberMade DEF Times, WordKinds
  <2>2. Unit(20) \in Token /\ Unit(2) \in Token
    BY WordMade
  <2>3. /\ ProductWords \in Seq(Token) /\ Len(ProductWords) = 3
        /\ ProductWords[1] = Times /\ ProductWords[2] = Unit(20) /\ ProductWords[3] = Unit(2)
    BY <2>1, <2>2, Three DEF ProductWords
  <2>4. Times.kind = "operator"
    BY DEF Times, Tok
  <2>5. After(context) = ProductWords /\ AfterLength(context) = 3 /\ FollowKind(context) = "operator"
    BY <1>6 DEF After, AfterLength, FollowKind
  <2>6. QED
    BY <1>6, <2>3, <2>4, <2>5
<1>7. QED
  BY <1>2, <1>3, <1>4, <1>5, <1>6 DEF Contexts

-----------------------------------------------------------------------------
(* The texts on the way: in words, in digits, as meant.                     *)
PartsOf(seq, head, tail) ==
  /\ seq \in Seq(Token) /\ Len(head) \in Nat /\ Len(tail) \in Nat
  /\ Len(seq) = Len(head) + Len(tail)
  /\ \A k \in 1..Len(head) : seq[k] = head[k]
  /\ \A k \in 1..Len(tail) : seq[Len(head) + k] = tail[k]
  /\ \A k \in 1..Len(seq) : k \in 1..Len(head) \/ \E m \in 1..Len(tail) : k = Len(head) + m

LEMMA InParts ==
  ASSUME NEW seq, NEW head \in Seq(Token), NEW tail \in Seq(Token), seq = head \o tail
  PROVE  PartsOf(seq, head, tail)
<1>1. \A j \in 1..(Len(head) + Len(tail)) : (head \o tail)[j] = IF j <= Len(head) THEN head[j] ELSE tail[j - Len(head)]
  BY ConcatProperties, LenProperties
<1>2. Len(head) \in Nat /\ Len(tail) \in Nat /\ head \o tail \in Seq(Token) /\ Len(head \o tail) = Len(head) + Len(tail)
  BY ConcatProperties, LenProperties
<1>3. PICK h, t \in Nat : h = Len(head) /\ t = Len(tail)
  BY <1>2
<1>4. \A k \in 1..(h + t) : k \in 1..h \/ \E m \in 1..t : k = h + m
  <2>1. SUFFICES ASSUME NEW k \in 1..(h + t), k \notin 1..h PROVE \E m \in 1..t : k = h + m
    OBVIOUS
  <2>2. k - h \in 1..t /\ k = h + (k - h)
    BY <2>1
  <2>3. QED
    BY <2>2
<1>5. QED
  BY <1>1, <1>2, <1>3, <1>4 DEF PartsOf

\* No word twice in a row of those that dedup would collapse.
Collapsible == WordKinds \ {"unit", "scale", "digits", "decimal", "clock", "sign", "square", "money", "percentage", "fraction"}

Collapsed(seq) == \A k \in 2..Len(seq) : seq[k].kind \in Collapsible => seq[k - 1] # seq[k]

\* A number in words with what follows it.
LEMMA WordsStand ==
  ASSUME NEW context \in Contexts, NEW n, Sayable(n), NEW connector \in Connectors,
         text = InWords(context, n, connector)
  PROVE  LET number == Cardinal(n, connector)
             follows == After(context)
         IN  /\ text \in Seq(Token) /\ ReadsAs(number, n)
             /\ Len(number) \in Nat \ {0} /\ Len(text) = Len(number) + AfterLength(context)
             /\ \A k \in 1..Len(number) : text[k] = number[k]
             /\ \A k \in 1..AfterLength(context) : text[Len(number) + k] = follows[k]
             /\ \A k \in 1..Len(text) : k \in 1..Len(number) \/ \E m \in 1..AfterLength(context) : k = Len(number) + m
             /\ Kind(Len(number) + 1) = FollowKind(context)
             /\ Stands(number, 1)
<1> DEFINE number == Cardinal(n, connector)
           follows == After(context)
<1>1. ReadsAs(number, n) /\ number \in Seq(Token) /\ number # <<>>
  BY CardinalRead DEF ReadsAs
<1>2. follows \in Seq(Token) /\ Len(follows) = AfterLength(context)
      /\ (context # "plain" => follows[1].kind = FollowKind(context))
  BY AfterIs
<1>3. text = number \o follows
  BY DEF InWords
<1> HIDE DEF number, follows
<1>4. /\ text \in Seq(Token) /\ Len(number) \in Nat
      /\ Len(text) = Len(number) + AfterLength(context)
      /\ \A k \in 1..Len(number) : text[k] = number[k]
      /\ \A k \in 1..AfterLength(context) : text[Len(number) + k] = follows[k]
      /\ \A k \in 1..Len(text) : k \in 1..Len(number) \/ \E m \in 1..AfterLength(context) : k = Len(number) + m
  <2>1. PartsOf(text, number, follows)
    BY <1>1, <1>2, <1>3, InParts
  <2>2. QED
    BY <1>2, <2>1 DEF PartsOf
<1>5. Len(number) \in Nat \ {0}
  BY <1>1, <1>4, EmptySeq
<1>6. Kind(Len(number) + 1) = FollowKind(context)
  <2>1. CASE context = "plain"
    <3>1. AfterLength(context) = 0 /\ FollowKind(context) = "none"
      BY <2>1 DEF AfterLength, FollowKind
    <3>2. Len(number) + 1 \notin 1..Len(text)
      BY <1>4, <3>1
    <3>3. QED
      BY <1>4, <3>1, <3>2, Words
  <2>2. CASE context # "plain"
    <3>1. AfterLength(context) \in Nat /\ 1 \in 1..AfterLength(context)
      BY <2>2 DEF AfterLength, Contexts
    <3>2. Len(number) + 1 \in 1..Len(text) /\ text[Len(number) + 1] = follows[1]
      BY <1>4, <3>1
    <3>3. QED
      BY <1>2, <1>4, <2>2, <3>2, Words
  <2>3. QED
    BY <2>1, <2>2
<1>7. Stands(number, 1)
  <2>1. FollowKind(context) \notin {"unit", "scale", "and"}
    BY DEF FollowKind, Contexts
  <2>2. AfterLength(context) \in Nat
    BY DEF AfterLength
  <2>3. PICK m \in Nat : m = Len(number)
    BY <1>5
  <2>4. Holds(text, 1 - 1, number)
    <3>1. (1 - 1) + m <= Len(text) /\ \A k \in 1..m : (1 - 1) + k = k
      BY <1>4, <2>2, <2>3
    <3>2. QED
      BY <1>4, <2>3, <3>1 DEF Holds
  <2>5. 1 + m = m + 1
    OBVIOUS
  <2>6. QED
    BY <1>6, <2>1, <2>3, <2>4, <2>5 DEF Stands
<1>8. QED
  BY <1>1, <1>4, <1>5, <1>6, <1>7 DEF number, follows

\* The kinds of its words.
LEMMA WordsKinds ==
  ASSUME NEW context \in Contexts, NEW n, Sayable(n), NEW connector \in Connectors,
         text = InWords(context, n, connector)
  PROVE  /\ \A k \in 1..Len(text) : text[k].kind \in {"unit", "scale", "and", FollowKind(context)}
         /\ Collapsed(text)
<1> DEFINE number == Cardinal(n, connector)
           follows == After(context)
<1>1. /\ text \in Seq(Token) /\ ReadsAs(number, n)
      /\ Len(number) \in Nat \ {0} /\ Len(text) = Len(number) + AfterLength(context)
      /\ \A k \in 1..Len(number) : text[k] = number[k]
      /\ \A k \in 1..AfterLength(context) : text[Len(number) + k] = follows[k]
      /\ \A k \in 1..Len(text) : k \in 1..Len(number) \/ \E m \in 1..AfterLength(context) : k = Len(number) + m
  BY WordsStand
<1>2. \A m \in 1..AfterLength(context) :
        IF m = 1 THEN follows[m].kind = FollowKind(context) ELSE follows[m].kind = "unit"
  <2>1. SUFFICES ASSUME NEW m \in 1..AfterLength(context)
                 PROVE  IF m = 1 THEN follows[m].kind = FollowKind(context) ELSE follows[m].kind = "unit"
    OBVIOUS
  <2>2. context # "plain" /\ (m # 1 => m \in {2, 3} /\ context \in {"point", "product"})
    BY DEF AfterLength, Contexts
  <2>3. QED
    BY <2>2, AfterIs, UnitFields
<1> HIDE DEF number, follows
<1>3. \A k \in 1..Len(number) : FitsThere(number, k)
  BY <1>1 DEF ReadsAs
<1>4. \A k \in 1..Len(number) : number[k].kind \in {"unit", "scale", "and"}
  BY <1>3 DEF FitsThere
<1>5. \A k \in 1..Len(text) : text[k].kind \in {"unit", "scale", "and", FollowKind(context)}
  <2>1. SUFFICES ASSUME NEW k \in 1..Len(text) PROVE text[k].kind \in {"unit", "scale", "and", FollowKind(context)}
    OBVIOUS
  <2>2. CASE k \in 1..Len(number)
    BY <1>1, <1>4, <2>2
  <2>3. CASE \E m \in 1..AfterLength(context) : k = Len(number) + m
    <3>1. PICK m \in 1..AfterLength(context) : k = Len(number) + m
      BY <2>3
    <3>2. text[k] = follows[m]
      BY <1>1, <3>1
    <3>3. QED
      BY <1>2, <3>2
  <2>4. QED
    BY <1>1, <2>2, <2>3
<1>6. PICK m \in Nat : m = Len(number)
  BY <1>1
<1>7. ASSUME NEW k \in 2..Len(text), text[k].kind \in Collapsible, text[k - 1] = text[k] PROVE FALSE
  <2>1. Len(text) \in Nat /\ k - 1 \in 1..Len(text) /\ k \in 1..Len(text) /\ (k - 1) + 1 = k
    BY <1>1, Words
  <2>2. CASE k \in 1..m
    <3>1. k - 1 \in 1..m
      BY <2>1, <2>2
    <3>2. number[k - 1] = number[k] /\ number[k].kind = text[k].kind
      BY <1>1, <1>6, <1>7, <2>2, <3>1
    <3>3. number[k].kind = "and"
      BY <1>4, <1>6, <1>7, <2>2, <3>2 DEF Collapsible
    <3>4. number[(k - 1) + 1].kind = "unit"
      <4>1. FitsThere(number, k - 1) /\ number[k - 1].kind = "and"
        BY <1>3, <1>6, <3>1, <3>2, <3>3
      <4>2. QED
        BY <4>1 DEF FitsThere
    <3>5. QED
      BY <2>1, <3>3, <3>4
  <2>3. CASE k = m + 1
    <3>1. k - 1 = m /\ m \in 1..m
      BY <1>1, <1>6, <2>3
    <3>2. FitsThere(number, m) /\ number[m] = text[k - 1]
      BY <1>1, <1>3, <1>6, <3>1
    <3>3. number[m].kind # "and"
      BY <1>6, <3>2 DEF FitsThere
    <3>4. number[m].kind \in {"unit", "scale"}
      BY <1>4, <1>6, <3>1, <3>3
    <3>5. QED
      BY <1>7, <3>2, <3>4 DEF Collapsible
  <2>4. CASE k > m + 1
    <3>1. PICK j \in 1..AfterLength(context) : k = m + j
      BY <1>1, <1>6, <2>1, <2>4
    <3>2. text[k] = follows[j] /\ j # 1
      BY <1>1, <1>6, <2>4, <3>1
    <3>3. text[k].kind = "unit"
      BY <1>2, <3>2
    <3>4. QED
      BY <1>7, <3>3 DEF Collapsible
  <2>5. QED
    BY <1>6, <2>1, <2>2, <2>3, <2>4
<1>8. QED
  BY <1>5, <1>7 DEF Collapsed

\* A number in digits with what follows it.
LEMMA DigitsStand ==
  ASSUME NEW context \in Contexts, context # "point", NEW n \in Nat, text = InDigits(context, n)
  PROVE  /\ text \in Seq(Token) /\ Len(text) = 1 + AfterLength(context) - (IF context = "product" THEN 1 ELSE 0)
         /\ text[1] = Digits(n) /\ Kind(1) = "digits" /\ Kind(2) = FollowKind(context)
         /\ context = "product" => text[2] = Times /\ text[3] = Digits(22)
         /\ context \notin {"product", "plain"} => text[2] = After(context)[1]
<1>1. Digits(n) \in Token /\ Digits(22) \in Token /\ Digits(n).kind = "digits" /\ Digits(22).kind = "digits"
  BY NumberMade DEF Digits, WordKinds, Tok
<1>2. CASE context = "product"
  <2>1. Times \in Token /\ Times.kind = "operator"
    BY NumberMade DEF Times, WordKinds, Tok
  <2>2. text \in Seq(Token) /\ Len(text) = 3 /\ text[1] = Digits(n) /\ text[2] = Times /\ text[3] = Digits(22)
    <3>1. text = ProductDigits(n)
      BY <1>2 DEF InDigits
    <3>2. QED
      BY <1>1, <2>1, <3>1, Three DEF ProductDigits
  <2>3. Kind(1) = "digits" /\ Kind(2) = "operator"
    BY <1>1, <2>1, <2>2, Words
  <2>4. AfterLength(context) = 3 /\ FollowKind(context) = "operator"
    BY <1>2 DEF AfterLength, FollowKind
  <2>5. 1 + AfterLength(context) - (IF context = "product" THEN 1 ELSE 0) = 3
    BY <1>2, <2>4
  <2>6. QED
    BY <1>2, <2>2, <2>3, <2>4, <2>5
<1>3. CASE context # "product"
  <2> DEFINE head == Single("digits", <<n>>)
             follows == After(context)
  <2>1. text = head \o follows
    BY <1>3 DEF InDigits
  <2>2. head \in Seq(Token) /\ Len(head) = 1 /\ head[1] = Digits(n)
    <3>1. head = <<Digits(n)>>
      BY DEF Single, Digits
    <3>2. PICK word \in Token : word = Digits(n)
      BY <1>1
    <3>3. <<word>> \in Seq(Token) /\ Len(<<word>>) = 1 /\ <<word>>[1] = word
      OBVIOUS
    <3>4. QED
      BY <3>1, <3>2, <3>3
  <2>3. follows \in Seq(Token) /\ Len(follows) = AfterLength(context) /\ AfterLength(context) \in {0, 1}
        /\ (context # "plain" => AfterLength(context) = 1 /\ follows[1].kind = FollowKind(context))
        /\ (context = "plain" => AfterLength(context) = 0 /\ FollowKind(context) = "none")
    BY <1>3, AfterIs DEF Contexts, AfterLength, FollowKind
  <2> HIDE DEF head, follows
  <2>4. /\ text \in Seq(Token) /\ Len(text) = 1 + AfterLength(context)
        /\ \A k \in 1..1 : text[k] = head[k]
        /\ \A k \in 1..AfterLength(context) : text[1 + k] = follows[k]
    <3>1. PartsOf(text, head, follows)
      BY <2>1, <2>2, <2>3, InParts
    <3>2. QED
      BY <2>2, <2>3, <3>1 DEF PartsOf
  <2>5. text[1] = Digits(n) /\ (context # "plain" => text[2] = follows[1])
    <3>1. 1 \in 1..1 /\ (context # "plain" => 1 \in 1..AfterLength(context)) /\ 1 + 1 = 2
      BY <2>3
    <3>2. QED
      BY <2>2, <2>4, <3>1
  <2>6. Kind(1) = "digits" /\ Kind(2) = FollowKind(context)
    <3>1. 1 \in 1..Len(text) /\ (context # "plain" => 2 \in 1..Len(text)) /\ (context = "plain" => 2 \notin 1..Len(text))
      BY <2>3, <2>4
    <3>2. QED
      BY <1>1, <2>3, <2>4, <2>5, <3>1, Words
  <2>7. QED
    BY <1>3, <2>3, <2>4, <2>5, <2>6 DEF follows
<1>4. QED
  BY <1>2, <1>3

-----------------------------------------------------------------------------
(* The number that a text begins with, and the word after it.               *)
Opened(context, n, e) ==
  /\ text \in Seq(Token) /\ e \in 2..(Len(text) + 1)
  /\ IsNumberAt(1) /\ NumberAt(1) = n /\ NumberEnd(1) = e /\ Kind(e) = FollowKind(context)
  /\ context \in {"dollars", "percent", "fifths", "squared"} => e = Len(text)
  /\ context = "fifths" => text[e].value[1] = 5
  /\ context = "product" =>
       /\ text[e] = Times /\ IsNumberAt(e + 1) /\ NumberAt(e + 1) = 22
       /\ NumberEnd(e + 1) = Len(text) + 1 /\ e + 1 <= Len(text)

\* Twenty two after the operator.
LEMMA SecondNumber ==
  ASSUME NEW n, Sayable(n), NEW connector \in Connectors, text = InWords("product", n, connector)
  PROVE  /\ Stands(<<Unit(20), Unit(2)>>, Len(Cardinal(n, connector)) + 2)
         /\ Len(text) = Len(Cardinal(n, connector)) + 3
<1> DEFINE two == <<Unit(20), Unit(2)>>
           follows == After("product")
<1>1. "product" \in Contexts /\ AfterLength("product") = 3
  BY DEF Contexts, AfterLength
<1>2. PICK m \in Nat : m = Len(Cardinal(n, connector))
  BY <1>1, WordsStand
<1>3. text \in Seq(Token) /\ Len(text) = m + 3 /\ \A k \in 1..3 : text[m + k] = follows[k]
  BY <1>1, <1>2, WordsStand
<1>4. follows[2] = Unit(20) /\ follows[3] = Unit(2)
  BY <1>1, AfterIs
<1>5. Len(two) = 2 /\ two[1] = Unit(20) /\ two[2] = Unit(2)
  OBVIOUS
<1> HIDE DEF two, follows
<1>6. Holds(text, (m + 2) - 1, two)
  <2>1. text[m + 2] = follows[2] /\ text[m + 3] = follows[3]
    BY <1>3
  <2>2. ((m + 2) - 1) + 1 = m + 2 /\ ((m + 2) - 1) + 2 = m + 3
    OBVIOUS
  <2>3. \A j \in 1..2 : text[((m + 2) - 1) + j] = two[j]
    BY <1>4, <1>5, <2>1, <2>2
  <2>4. QED
    BY <1>3, <1>5, <2>2, <2>3 DEF Holds
<1>7. Kind((m + 2) + 2) = "none"
  <2>1. (m + 2) + 2 \notin 1..Len(text)
    BY <1>3
  <2>2. QED
    BY <1>3, <2>1, Words
<1>8. Stands(two, m + 2)
  BY <1>5, <1>6, <1>7 DEF Stands
<1>9. QED
  BY <1>2, <1>3, <1>8 DEF two

LEMMA WordsOpen ==
  ASSUME NEW context \in Contexts, NEW n, Sayable(n), NEW connector \in Connectors,
         text = InWords(context, n, connector)
  PROVE  Opened(context, n, Len(Cardinal(n, connector)) + 1)
<1> DEFINE number == Cardinal(n, connector)
<1>1. PICK m \in Nat : m = Len(number) /\ m # 0
  BY WordsStand
<1>2. /\ text \in Seq(Token) /\ ReadsAs(number, n) /\ Stands(number, 1)
      /\ Len(text) = m + AfterLength(context) /\ Kind(m + 1) = FollowKind(context)
      /\ \A k \in 1..AfterLength(context) : text[m + k] = After(context)[k]
  BY <1>1, WordsStand
<1>3. IsNumberAt(1) /\ NumberAt(1) = n /\ NumberEnd(1) = 1 + m
  BY <1>1, <1>2, StandingRead
<1>4. AfterLength(context) \in Nat
  BY DEF AfterLength
<1>5. context \in {"dollars", "percent", "fifths", "squared"} => AfterLength(context) = 1
  BY DEF AfterLength
<1>6. context = "fifths" => text[m + 1].value[1] = 5
  BY <1>2, <1>5, AfterIs
<1>7. context = "product" =>
        /\ text[m + 1] = Times /\ IsNumberAt(m + 2) /\ NumberAt(m + 2) = 22 /\ NumberEnd(m + 2) = Len(text) + 1
        /\ m + 2 <= Len(text)
  <2>1. SUFFICES ASSUME context = "product"
                 PROVE  /\ text[m + 1] = Times /\ IsNumberAt(m + 2) /\ NumberAt(m + 2) = 22
                        /\ NumberEnd(m + 2) = Len(text) + 1 /\ m + 2 <= Len(text)
    OBVIOUS
  <2>2. AfterLength(context) = 3
    BY <2>1 DEF AfterLength
  <2>3. text[m + 1] = Times
    <3>1. 1 \in 1..AfterLength(context)
      BY <2>2
    <3>2. QED
      BY <1>2, <2>1, <3>1, AfterIs
  <2> DEFINE two == <<Unit(20), Unit(2)>>
  <2>4. Stands(two, m + 2) /\ ReadsAs(two, 22) /\ Len(text) = m + 3
    BY <1>1, <2>1, SecondNumber, TwentyTwo
  <2>5. Len(two) = 2
    OBVIOUS
  <2> HIDE DEF two
  <2>6. IsNumberAt(m + 2) /\ NumberAt(m + 2) = 22 /\ NumberEnd(m + 2) = (m + 2) + 2
    <3>1. PICK j : j = m + 2
      OBVIOUS
    <3>2. Stands(two, j) /\ j + Len(two) = (m + 2) + 2
      BY <2>4, <2>5, <3>1
    <3>3. IsNumberAt(j) /\ NumberAt(j) = 22 /\ NumberEnd(j) = j + Len(two)
      BY <1>2, <2>4, <3>2, StandingRead
    <3>4. QED
      BY <3>1, <3>2, <3>3
  <2>7. QED
    BY <2>3, <2>4, <2>6
<1> HIDE DEF number
<1>8. m + 1 \in 2..(Len(text) + 1) /\ 1 + m = m + 1 /\ (m + 1) + 1 = m + 2
  BY <1>1, <1>2, <1>4
<1>9. Opened(context, n, m + 1)
  BY <1>1, <1>2, <1>3, <1>5, <1>6, <1>7, <1>8 DEF Opened
<1>10. QED
  BY <1>1, <1>9 DEF number

LEMMA DigitsOpen ==
  ASSUME NEW context \in Contexts, context # "point", NEW n \in Nat, text = InDigits(context, n)
  PROVE  Opened(context, n, 2)
<1>1. /\ text \in Seq(Token) /\ Len(text) = 1 + AfterLength(context) - (IF context = "product" THEN 1 ELSE 0)
      /\ text[1] = Digits(n) /\ Kind(1) = "digits" /\ Kind(2) = FollowKind(context)
      /\ context = "product" => text[2] = Times /\ text[3] = Digits(22)
      /\ context \notin {"product", "plain"} => text[2] = After(context)[1]
  BY DigitsStand
<1>2. Digits(n).value[1] = n /\ Digits(22).value[1] = 22 /\ Digits(22).kind = "digits"
  BY DEF Digits, Tok
<1>3. IsNumberAt(1) /\ NumberAt(1) = n /\ NumberEnd(1) = 2
  BY <1>1, <1>2 DEF IsNumberAt, NumberAt, NumberEnd
<1>4. AfterLength(context) \in Nat
  BY DEF AfterLength
<1>5. context \in {"dollars", "percent", "fifths", "squared"} => Len(text) = 2
  BY <1>1 DEF AfterLength
<1>6. context = "fifths" => text[2].value[1] = 5
  BY <1>1, AfterIs
<1>7. context = "product" =>
        /\ text[2] = Times /\ IsNumberAt(3) /\ NumberAt(3) = 22 /\ NumberEnd(3) = Len(text) + 1 /\ 3 <= Len(text)
  <2>1. SUFFICES ASSUME context = "product"
                 PROVE  /\ text[2] = Times /\ IsNumberAt(3) /\ NumberAt(3) = 22
                        /\ NumberEnd(3) = Len(text) + 1 /\ 3 <= Len(text)
    OBVIOUS
  <2>2. Len(text) = 3
    BY <1>1, <2>1 DEF AfterLength
  <2>3. text[3] = Digits(22) /\ Kind(3) = "digits"
    BY <1>1, <1>2, <2>1, <2>2, Words
  <2>4. IsNumberAt(3) /\ NumberAt(3) = 22 /\ NumberEnd(3) = 4
    BY <1>2, <2>3 DEF IsNumberAt, NumberAt, NumberEnd
  <2>5. text[2] = Times
    BY <1>1, <2>1
  <2>6. NumberEnd(3) = Len(text) + 1 /\ 3 <= Len(text)
    BY <2>2, <2>4
  <2>7. QED
    BY <2>4, <2>5, <2>6
<1>8. 2 \in 2..(Len(text) + 1)
  <2>1. CASE context = "product"
    BY <1>1, <2>1 DEF AfterLength
  <2>2. CASE context # "product"
    BY <1>1, <1>4, <2>2
  <2>3. QED
    BY <2>1, <2>2
<1>9. QED
  BY <1>1, <1>3, <1>5, <1>6, <1>7, <1>8 DEF Opened

-----------------------------------------------------------------------------
(* What the pass that it is for makes of a number in its context.           *)
LEMMA CurrencyHits ==
  ASSUME NEW n, NEW e, Opened("dollars", n, e)
  PROVE  CurrencyAt(1).written = Written("dollars", n) /\ CurrencyAt(1).end = Len(text) + 1
<1>1. IsNumberAt(1) /\ NumberAt(1) = n /\ NumberEnd(1) = e /\ Kind(e) = "dollars" /\ e = Len(text)
  BY DEF Opened, FollowKind
<1>2. CurrencyAt(1) = Match(<<Tok("money", <<n>>)>>, e + 1)
  BY <1>1 DEF CurrencyAt
<1>3. QED
  BY <1>1, <1>2 DEF Match, Written, Single

LEMMA PercentsHit ==
  ASSUME NEW context, context \in {"percent", "fifths"}, NEW n, NEW e, Opened(context, n, e)
  PROVE  PercentsAt(1).written = Written(context, n) /\ PercentsAt(1).end = Len(text) + 1
<1>1. IsNumberAt(1) /\ NumberAt(1) = n /\ NumberEnd(1) = e /\ Kind(e) = FollowKind(context) /\ e = Len(text)
  BY DEF Opened
<1>2. CASE context = "percent"
  <2>1. Kind(e) = "percent"
    BY <1>1, <1>2 DEF FollowKind
  <2>2. PercentsAt(1) = Match(<<Tok("percentage", <<n>>)>>, e + 1)
    BY <1>1, <2>1 DEF PercentsAt, IsDenominator
  <2>3. QED
    BY <1>1, <1>2, <2>2 DEF Match, Written, Single
<1>3. CASE context = "fifths"
  <2>1. Kind(e) = "denominator" /\ IsDenominator(e) /\ text[e].value[1] = 5
    BY <1>1, <1>3 DEF FollowKind, IsDenominator, Opened
  <2>2. PercentsAt(1) = Match(<<Tok("fraction", <<n, 5>>)>>, e + 1)
    <3> DEFINE asShare == Match(<<Tok("percentage", <<NumberAt(1)>>)>>, NumberEnd(1) + 1)
               asFraction == Match(<<Tok("fraction", <<NumberAt(1), text[NumberEnd(1)].value[1]>>)>>, NumberEnd(1) + 1)
    <3>1. PercentsAt(1) = Match(<<Tok("fraction", <<n, text[e].value[1]>>)>>, e + 1)
      <4>1. PercentsAt(1) = CASE IsNumberAt(1) /\ Kind(NumberEnd(1)) = "percent" -> asShare
                              [] IsNumberAt(1) /\ IsDenominator(NumberEnd(1)) -> asFraction
                              [] OTHER -> NoMatch(1)
        BY DEF PercentsAt
      <4>2. asFraction = Match(<<Tok("fraction", <<n, text[e].value[1]>>)>>, e + 1)
        BY <1>1
      <4> HIDE DEF asShare, asFraction
      <4>3. PercentsAt(1) = asFraction
        BY <1>1, <2>1, <4>1
      <4>4. QED
        BY <4>2, <4>3
    <3>2. QED
      BY <2>1, <3>1
  <2>3. QED
    BY <1>1, <1>3, <2>2 DEF Match, Written, Single
<1>4. QED
  BY <1>2, <1>3

LEMMA PowerHit ==
  ASSUME NEW n, NEW e, Opened("squared", n, e)
  PROVE  FormulasAt(1).written = Written("squared", n) /\ FormulasAt(1).end = Len(text) + 1
<1>1. IsNumberAt(1) /\ NumberAt(1) = n /\ NumberEnd(1) = e /\ Kind(e) = "squared" /\ e = Len(text)
  BY DEF Opened, FollowKind
<1>2. FormulasAt(1) = Match(<<Tok("square", <<n>>)>>, e + 1)
  <2> DEFINE asSquare == Match(<<Tok("square", <<NumberAt(1)>>)>>, NumberEnd(1) + 1)
             asChain == Match(Chain(1), ChainEnd(1))
  <2>1. FormulasAt(1) = CASE IsNumberAt(1) /\ Kind(NumberEnd(1)) = "squared" -> asSquare
                          [] IsNumberAt(1) /\ ChainEnd(1) > NumberEnd(1) -> asChain
                          [] OTHER -> NoMatch(1)
    BY DEF FormulasAt
  <2>2. asSquare = Match(<<Tok("square", <<n>>)>>, e + 1)
    BY <1>1
  <2>3. ~(ChainEnd(1) > NumberEnd(1))
    <3>1. ~ChainGoesOn(e)
      BY <1>1 DEF ChainGoesOn
    <3>2. PICK f : EndTabled(f, 1) /\ ChainEnd(1) = f[NumberEnd(1)]
      BY <1>1, EndTable DEF Opened
    <3>3. e \in 1..(Len(text) + 1)
      BY Words DEF Opened
    <3>4. f[e] = e
      BY <3>1, <3>2, <3>3 DEF EndTabled
    <3>5. QED
      BY <1>1, <3>2, <3>3, <3>4
  <2> HIDE DEF asSquare, asChain
  <2>4. FormulasAt(1) = asSquare
    BY <1>1, <2>1, <2>3
  <2>5. QED
    BY <2>2, <2>4
<1>3. QED
  BY <1>1, <1>2 DEF Match, Written, Single

LEMMA ProductHit ==
  ASSUME NEW n \in Nat, NEW e, Opened("product", n, e)
  PROVE  FormulasAt(1).written = Written("product", n) /\ FormulasAt(1).end = Len(text) + 1
<1>1. /\ text \in Seq(Token) /\ e \in 2..(Len(text) + 1)
      /\ IsNumberAt(1) /\ NumberAt(1) = n /\ NumberEnd(1) = e /\ Kind(e) = "operator"
      /\ text[e] = Times /\ IsNumberAt(e + 1) /\ NumberAt(e + 1) = 22
      /\ NumberEnd(e + 1) = Len(text) + 1 /\ e + 1 <= Len(text)
  BY DEF Opened, FollowKind
<1>2. PICK last \in Nat : last = Len(text) + 1
  BY <1>1, Words
<1>3. ChainGoesOn(e) /\ ~ChainGoesOn(last)
  <2>1. Kind(last) = "none"
    <3>1. last \notin 1..Len(text)
      BY <1>1, <1>2, Words
    <3>2. QED
      BY <1>1, <3>1, Words
  <2>2. QED
    BY <1>1, <2>1 DEF ChainGoesOn
<1>4. e \in 1..last /\ last \in 1..last /\ e < last
  BY <1>1, <1>2, Words
<1>5. ChainEnd(1) = last
  <2>1. PICK f : EndTabled(f, 1) /\ ChainEnd(1) = f[NumberEnd(1)]
    BY <1>1, EndTable
  <2>2. \A j \in 1..last : f[j] = IF ChainGoesOn(j) THEN f[NumberEnd(j + 1)] ELSE j
    BY <1>2, <2>1 DEF EndTabled
  <2>3. f[e] = f[last] /\ f[last] = last
    BY <1>1, <1>2, <1>3, <1>4, <2>2
  <2>4. QED
    BY <1>1, <2>1, <2>3
<1>6. Chain(1) = <<Digits(n)>> \o (<<Tok("sign", <<1>>), Digits(22)>> \o <<>>)
  <2>1. PICK f : WriteTabled(f, 1) /\ Chain(1) = <<Tok("digits", <<NumberAt(1)>>)>> \o f[NumberEnd(1)]
    BY <1>1, WriteTable
  <2> DEFINE two(j) == <<Tok("sign", text[j].value), Tok("digits", <<NumberAt(j + 1)>>)>>
  <2>2. \A j \in 1..last : f[j] = IF ChainGoesOn(j) THEN two(j) \o f[NumberEnd(j + 1)] ELSE <<>>
    BY <1>2, <2>1 DEF WriteTabled
  <2>3. two(e) = <<Tok("sign", <<1>>), Digits(22)>>
    <3>1. Times.value = <<1>>
      BY DEF Times, Tok
    <3>2. QED
      BY <1>1, <3>1 DEF Digits
  <2> HIDE DEF two
  <2>4. f[last] = <<>>
    BY <1>3, <1>4, <2>2
  <2>5. f[e] = two(e) \o f[NumberEnd(e + 1)]
    BY <1>3, <1>4, <2>2
  <2>6. f[e] = two(e) \o <<>>
    BY <1>1, <1>2, <2>4, <2>5
  <2>7. Chain(1) = <<Digits(n)>> \o f[e]
    BY <1>1, <2>1 DEF Digits
  <2>8. QED
    BY <2>3, <2>6, <2>7
<1>7. <<Digits(n)>> \o (<<Tok("sign", <<1>>), Digits(22)>> \o <<>>) = ProductWritten(n)
  <2>1. Digits(n) \in Token /\ Digits(22) \in Token /\ Tok("sign", <<1>>) \in Token
    BY NumberMade DEF Digits, WordKinds
  <2>2. PICK x, y, z \in Token : x = Digits(n) /\ y = Tok("sign", <<1>>) /\ z = Digits(22)
    BY <2>1
  <2>3. <<x>> \o (<<y, z>> \o <<>>) = <<x, y, z>>
    <3> DEFINE two == <<y, z>>
               one == <<x>>
               all == <<x, y, z>>
    <3>1. one \in Seq(Token) /\ Len(one) = 1 /\ one[1] = x
      OBVIOUS
    <3>2. two \in Seq(Token) /\ Len(two) = 2 /\ two[1] = y /\ two[2] = z
      OBVIOUS
    <3>3. all \in Seq(Token) /\ Len(all) = 3 /\ all[1] = x /\ all[2] = y /\ all[3] = z
      OBVIOUS
    <3> HIDE DEF one, two, all
    <3>4. two \o <<>> = two
      BY <3>2, ConcatEmptySeq
    <3>5. PartsOf(one \o two, one, two)
      BY <3>1, <3>2, InParts
    <3>6. one \o two \in Seq(Token) /\ Len(one \o two) = 3 /\ \A k \in 1..3 : (one \o two)[k] = all[k]
      <4>1. one \o two \in Seq(Token) /\ Len(one \o two) = 3
        BY <3>1, <3>2, <3>5 DEF PartsOf
      <4>2. (one \o two)[1] = x
        BY <3>1, <3>5 DEF PartsOf
      <4>3. (one \o two)[1 + 1] = y /\ (one \o two)[1 + 2] = z
        <5>1. 1 \in 1..2 /\ 2 \in 1..2
          OBVIOUS
        <5>2. QED
          BY <3>1, <3>2, <3>5, <5>1 DEF PartsOf
      <4>4. \A k \in 1..3 : k = 1 \/ k = 1 + 1 \/ k = 1 + 2
        OBVIOUS
      <4>5. all[1 + 1] = y /\ all[1 + 2] = z
        BY <3>3
      <4>6. QED
        BY <3>3, <4>1, <4>2, <4>3, <4>4, <4>5
    <3>7. one \o two = all
      BY <3>3, <3>6, SeqEqual
    <3>8. QED
      BY <3>4, <3>7 DEF one, two, all
  <2>4. QED
    BY <2>2, <2>3 DEF ProductWritten
<1>8. Kind(NumberEnd(1)) # "squared" /\ ChainEnd(1) > NumberEnd(1)
  BY <1>1, <1>4, <1>5
<1>9. FormulasAt(1) = Match(Chain(1), ChainEnd(1))
  BY <1>1, <1>8 DEF FormulasAt
<1>10. QED
  BY <1>2, <1>5, <1>6, <1>7, <1>9 DEF Match, Written

-----------------------------------------------------------------------------
(* Where a pass finds nothing of its own, it copies.                        *)
FreeOf(kinds) == \A k \in 1..Len(text) : text[k].kind \notin kinds

LEMMA NoneThere ==
  ASSUME text \in Seq(Token), NEW kinds, FreeOf(kinds), "none" \notin kinds, NEW j
  PROVE  Kind(j) \notin kinds
<1>1. CASE j \in 1..Len(text)
  BY <1>1, Words DEF FreeOf
<1>2. CASE j \notin 1..Len(text)
  BY <1>2, Words
<1>3. QED
  BY <1>1, <1>2

LEMMA TimesCopy ==
  ASSUME text \in Seq(Token), FreeOf({"digits", "oclock"}), NEW i
  PROVE  TimesAt(i) = NoMatch(i)
<1>1. \A j : Kind(j) # "digits" /\ Kind(j) # "oclock"
  BY NoneThere
<1>2. Kind(i) # "digits" /\ Kind(NumberEnd(i)) # "oclock"
  BY <1>1
<1>3. QED
  BY <1>2 DEF TimesAt

LEMMA FormulasCopy ==
  ASSUME text \in Seq(Token), FreeOf({"squared", "operator"}), NEW i
  PROVE  FormulasAt(i) = NoMatch(i)
<1>1. \A j : Kind(j) # "squared" /\ Kind(j) # "operator"
  BY NoneThere
<1>2. Kind(NumberEnd(i)) # "squared" /\ \A j : ~ChainGoesOn(j)
  BY <1>1 DEF ChainGoesOn
<1>3. IsNumberAt(i) => ~(ChainEnd(i) > NumberEnd(i))
  <2>1. SUFFICES ASSUME IsNumberAt(i) PROVE ~(ChainEnd(i) > NumberEnd(i))
    OBVIOUS
  <2>2. PICK f : EndTabled(f, i) /\ ChainEnd(i) = f[NumberEnd(i)]
    BY <2>1, EndTable
  <2>3. i \in 1..Len(text) /\ NumberEnd(i) \in i + 1..(Len(text) + 1) /\ Len(text) \in Nat
    BY <2>1, NumberEnds, Words
  <2>4. PICK e \in i..(Len(text) + 1) : e = NumberEnd(i)
    BY <2>3
  <2>5. f[e] = e
    BY <1>2, <2>2, <2>4 DEF EndTabled
  <2>6. QED
    BY <2>2, <2>3, <2>4, <2>5
<1>4. QED
  BY <1>2, <1>3 DEF FormulasAt

LEMMA CurrencyCopy ==
  ASSUME text \in Seq(Token), FreeOf({"dollars"}), NEW i
  PROVE  CurrencyAt(i) = NoMatch(i)
<1>1. Kind(NumberEnd(i)) # "dollars"
  BY NoneThere
<1>2. QED
  BY <1>1 DEF CurrencyAt

LEMMA PercentsCopy ==
  ASSUME text \in Seq(Token), FreeOf({"percent", "denominator", "ordinal word"}), NEW i
  PROVE  PercentsAt(i) = NoMatch(i)
<1>1. Kind(NumberEnd(i)) \notin {"percent", "denominator", "ordinal word"}
  BY NoneThere
<1>2. QED
  BY <1>1 DEF PercentsAt, IsDenominator

\* What is written is the text as far as the pass is.
CopiedTo(seq, i, written) ==
  /\ i \in 1..(Len(seq) + 1) /\ written \in Seq(Token) /\ Len(written) = i - 1
  /\ \A k \in 1..(i - 1) : written[k] = seq[k]

LEMMA CopyOn ==
  ASSUME NEW seq \in Seq(Token), NEW i, NEW written, CopiedTo(seq, i, written), i <= Len(seq)
  PROVE  CopiedTo(seq, i + 1, written \o <<seq[i]>>)
<1>1. /\ Len(seq) \in Nat /\ i \in 1..Len(seq) /\ seq[i] \in Token /\ written \in Seq(Token) /\ Len(written) = i - 1
      /\ \A k \in 1..(i - 1) : written[k] = seq[k]
  BY LenProperties, ElementOfSeq DEF CopiedTo
<1> DEFINE one == <<seq[i]>>
<1>2. one \in Seq(Token) /\ Len(one) = 1 /\ one[1] = seq[i]
  BY <1>1
<1> HIDE DEF one
<1>3. PartsOf(written \o one, written, one)
  BY <1>1, <1>2, InParts
<1>4. /\ written \o one \in Seq(Token) /\ Len(written \o one) = (i - 1) + 1
      /\ \A k \in 1..(i - 1) : (written \o one)[k] = seq[k]
  BY <1>1, <1>2, <1>3 DEF PartsOf
<1>5. (written \o one)[(i - 1) + 1] = seq[i]
  BY <1>1, <1>2, <1>3 DEF PartsOf
<1>6. \A k \in 1..((i + 1) - 1) : k \in 1..(i - 1) \/ k = i
  BY <1>1
<1>7. (i - 1) + 1 = i /\ (i + 1) - 1 = i /\ i + 1 \in 1..(Len(seq) + 1)
  BY <1>1
<1>8. QED
  BY <1>4, <1>5, <1>6, <1>7 DEF CopiedTo, one

LEMMA CopyDone ==
  ASSUME NEW seq \in Seq(Token), NEW i, NEW written, CopiedTo(seq, i, written), i > Len(seq)
  PROVE  written = seq
<1>1. Len(seq) \in Nat /\ Len(written) = Len(seq) /\ written \in Seq(Token) /\ \A k \in 1..Len(seq) : written[k] = seq[k]
  BY LenProperties DEF CopiedTo
<1>2. QED
  BY <1>1, SeqEqual

LEMMA CopyBegins ==
  ASSUME NEW seq \in Seq(Token)
  PROVE  CopiedTo(seq, 1, <<>>)
BY LenProperties, EmptySeq DEF CopiedTo

LEMMA DedupCopy ==
  ASSUME text \in Seq(Token), Collapsed(text), NEW i \in 1..Len(text), CopiedTo(text, i, out)
  PROVE  DedupAt(i) = NoMatch(i)
<1>1. Len(text) \in Nat /\ Kind(i) = text[i].kind /\ text[i] \in Token /\ text[i].kind \in WordKinds
  BY Words, TokenFields
<1>2. out \in Seq(Token) /\ Len(out) = i - 1 /\ \A k \in 1..(i - 1) : out[k] = text[k]
  BY DEF CopiedTo
<1>3. out # <<>> => Last(out) = text[i - 1] /\ i \in 2..Len(text)
  <2>1. SUFFICES ASSUME out # <<>> PROVE Last(out) = text[i - 1] /\ i \in 2..Len(text)
    OBVIOUS
  <2>2. Len(out) # 0
    BY <1>2, <2>1, EmptySeq
  <2>3. i \in 2..Len(text) /\ i - 1 \in 1..(i - 1)
    BY <1>1, <1>2, <2>2
  <2>4. Last(out) = out[i - 1]
    BY <1>2 DEF Last
  <2>5. QED
    BY <1>2, <2>3, <2>4
<1>4. IsCollapsible(i) => text[i].kind \in Collapsible
  BY <1>1 DEF IsCollapsible, Collapsible
<1>5. ~(IsCollapsible(i) /\ out # <<>> /\ Last(out) = text[i])
  BY <1>3, <1>4 DEF Collapsed
<1>6. QED
  BY <1>5 DEF DedupAt

LEMMA OfLength ==
  ASSUME NEW k \in Nat, NEW S, NEW f \in [1..k -> S]
  PROVE  f \in Seq(S) /\ Len(f) = k
<1>1. f \in Seq(S) /\ DOMAIN f = 1..k
  OBVIOUS
<1>2. Len(f) \in Nat /\ 1..Len(f) = 1..k
  BY <1>1, LenProperties
<1>3. PICK m \in Nat : m = Len(f) /\ 1..m = 1..k
  BY <1>2
<1>4. (m # 0 => m \in 1..m) /\ (k # 0 => k \in 1..k)
  OBVIOUS
<1>5. m <= k /\ k <= m
  BY <1>3, <1>4
<1>6. QED
  BY <1>1, <1>3, <1>5

-----------------------------------------------------------------------------
(* The numbers pass over a number in words.                                 *)
LEMMA NumbersFirst ==
  ASSUME NEW context \in Contexts, NEW n, Sayable(n), NEW connector \in Connectors,
         text = InWords(context, n, connector)
  PROVE  /\ context # "point" => NumbersAt(1) = Match(Single("digits", <<n>>), Len(Cardinal(n, connector)) + 1)
         /\ context = "point" => NumbersAt(1) = Match(InDigits(context, n), Len(text) + 1)
<1> DEFINE end == NumberEnd(1)
           last == DigitsEnd(end + 1)
           places == [j \in 1..(last - end - 1) |-> text[end + j].value[1]]
           asDecimal == Match(<<Tok("decimal", <<NumberAt(1)>> \o places)>>, last)
           asJoined == Match(<<Tok("ordinal", <<text[1].value[1] + text[1 + 1].value[1]>>)>>, 1 + 2)
           asOrdinal == Match(<<Tok("ordinal", text[1].value)>>, 1 + 1)
           asDigits == Match(<<Tok("digits", <<NumberAt(1)>>)>>, end)
<1>1. NumbersAt(1) = IF IsNumberAt(1) /\ Kind(end) = "point" /\ IsDigit(end + 1) THEN asDecimal
                     ELSE IF IsTens(1) /\ IsOnesOrdinal(1 + 1) THEN asJoined
                     ELSE IF Kind(1) = "ordinal word" THEN asOrdinal
                     ELSE IF IsNumberWord(1) THEN asDigits
                     ELSE NoMatch(1)
  BY DEF NumbersAt
<1>2. PICK m \in Nat : m = Len(Cardinal(n, connector)) /\ m # 0
  BY WordsStand
<1>3. /\ text \in Seq(Token) /\ ReadsAs(Cardinal(n, connector), n) /\ Stands(Cardinal(n, connector), 1)
      /\ Len(text) = m + AfterLength(context) /\ Kind(m + 1) = FollowKind(context)
      /\ \A k \in 1..AfterLength(context) : text[m + k] = After(context)[k]
  BY <1>2, WordsStand
<1>4. IsNumberAt(1) /\ IsNumberWord(1) /\ NumberAt(1) = n /\ end = m + 1
  BY <1>2, <1>3, StandingRead
<1>5. ~IsOnesOrdinal(1 + 1) /\ Kind(1) # "ordinal word"
  <2>1. FreeOf({"ordinal word"})
    BY WordsKinds DEF FreeOf, FollowKind, Contexts
  <2>2. \A j : Kind(j) # "ordinal word"
    BY <1>3, <2>1, NoneThere
  <2>3. QED
    BY <2>2 DEF IsOnesOrdinal
<1>6. CASE context # "point"
  <2>1. Kind(end) # "point"
    BY <1>3, <1>4, <1>6 DEF FollowKind, Contexts
  <2>2. asDigits = Match(Single("digits", <<n>>), m + 1)
    BY <1>4 DEF Single
  <2> HIDE DEF end, asDecimal, asJoined, asOrdinal, asDigits
  <2>3. NumbersAt(1) = asDigits
    BY <1>1, <1>4, <1>5, <2>1
  <2>4. QED
    BY <1>2, <1>6, <2>2, <2>3
<1>7. CASE context = "point"
  <2>1. AfterLength(context) = 3 /\ FollowKind(context) = "point"
    BY <1>7 DEF AfterLength, FollowKind
  <2>2. text[m + 2] = Unit(1) /\ text[m + 3] = Unit(4) /\ Len(text) = m + 3
    <3>1. text[m + 2] = After(context)[2] /\ text[m + 3] = After(context)[3]
      BY <1>3, <2>1
    <3>2. QED
      BY <1>3, <1>7, <2>1, <3>1, AfterIs
  <2>3. Kind(m + 2) = "unit" /\ Kind(m + 3) = "unit" /\ Kind(m + 4) = "none"
    <3>1. m + 2 \in 1..Len(text) /\ m + 3 \in 1..Len(text) /\ m + 4 \notin 1..Len(text)
      BY <2>2
    <3>2. QED
      BY <1>3, <2>2, <3>1, Words, UnitFields
  <2>4. IsDigit(m + 2) /\ IsDigit(m + 3) /\ ~IsDigit(m + 4)
    BY <2>2, <2>3, UnitFields DEF IsDigit
  <2>5. DigitsEnd(m + 2) = m + 4
    <3>1. m + 2 \in 1..(Len(text) + 1)
      BY <2>2
    <3>2. PICK d \in (m + 2)..(m + 4) : /\ d = DigitsEnd(m + 2) /\ ~IsDigit(d)
      BY <1>3, <2>2, <3>1, DigitsEndAt
    <3>3. d # m + 2 /\ d # m + 3
      BY <2>4, <3>2
    <3>4. QED
      BY <3>2, <3>3
  <2>6. last = m + 4
    BY <1>4, <2>5
  <2>7. asDecimal = Match(InDigits(context, n), Len(text) + 1)
    <3>1. <<NumberAt(1)>> \o places = <<n, 1, 4>>
      <4> DEFINE one == <<n>>
                 all == <<n, 1, 4>>
      <4>1. one \in Seq(Nat) /\ Len(one) = 1 /\ one[1] = n
        BY DEF Sayable
      <4>2. all \in Seq(Nat) /\ Len(all) = 3 /\ all[1] = n /\ all[2] = 1 /\ all[3] = 4
        BY DEF Sayable
      <4>3. places = [j \in 1..2 |-> text[m + 1 + j].value[1]]
        <5>1. last - end - 1 = 2
          BY <1>4, <2>6
        <5>2. QED
          BY <1>4, <5>1
      <4>4. text[m + 1 + 1].value[1] = 1 /\ text[m + 1 + 2].value[1] = 4
        BY <2>2, UnitFields
      <4>5. places \in Seq(Nat) /\ Len(places) = 2 /\ places[1] = 1 /\ places[2] = 4
        <5>1. \A j \in 1..2 : text[m + 1 + j].value[1] \in Nat
          BY <4>4
        <5>2. PICK two \in Nat : two = 2
          OBVIOUS
        <5>3. places \in [1..two -> Nat]
          BY <4>3, <5>1, <5>2
        <5>4. places[1] = 1 /\ places[2] = 4
          BY <4>3, <4>4
        <5> HIDE DEF places
        <5>5. places \in Seq(Nat) /\ Len(places) = two
          BY <5>2, <5>3, OfLength
        <5>6. QED
          BY <5>2, <5>4, <5>5
      <4> HIDE DEF places, one, all
      <4>6. one \o places \in Seq(Nat) /\ Len(one \o places) = 3
            /\ \A k \in 1..3 : (one \o places)[k] = IF k <= 1 THEN one[k] ELSE places[k - 1]
        <5>1. Len(one) + Len(places) = 3
          BY <4>1, <4>5
        <5>2. \A k \in 1..(Len(one) + Len(places)) :
                (one \o places)[k] = IF k <= Len(one) THEN one[k] ELSE places[k - Len(one)]
          BY <4>1, <4>5, ConcatProperties
        <5>3. one \o places \in Seq(Nat) /\ Len(one \o places) = Len(one) + Len(places)
          BY <4>1, <4>5, ConcatProperties
        <5>4. QED
          BY <4>1, <5>1, <5>2, <5>3
      <4>7. \A k \in 1..3 : (one \o places)[k] = all[k]
        BY <4>1, <4>2, <4>5, <4>6
      <4>8. one \o places = all
        BY <4>2, <4>6, <4>7, SeqEqual
      <4>9. QED
        BY <1>4, <4>8 DEF one, all
    <3> HIDE DEF places
    <3>2. last = Len(text) + 1
      BY <2>2, <2>6
    <3>3. InDigits(context, n) = <<Tok("decimal", <<n, 1, 4>>)>>
      BY <1>7 DEF InDigits, Single
    <3>4. QED
      BY <3>1, <3>2, <3>3
  <2>8. Kind(end) = "point" /\ IsDigit(end + 1)
    BY <1>3, <1>4, <2>1, <2>4
  <2> HIDE DEF end, asDecimal, asJoined, asOrdinal, asDigits
  <2>9. NumbersAt(1) = asDecimal
    BY <1>1, <1>4, <1>5, <2>8
  <2>10. QED
    BY <1>7, <2>7, <2>9
<1>8. QED
  BY <1>6, <1>7

-----------------------------------------------------------------------------
LEMMA NumbersCopy ==
  ASSUME NEW i, Kind(i) \notin {"unit", "scale", "digits", "ordinal word"}
  PROVE  NumbersAt(i) = NoMatch(i)
BY DEF NumbersAt, IsNumberAt, IsNumberWord, IsTens

LEMMA NumbersSecond ==
  ASSUME NEW n, Sayable(n), NEW connector \in Connectors, text = InWords("product", n, connector)
  PROVE  NumbersAt(Len(Cardinal(n, connector)) + 2) = Match(Single("digits", <<22>>), Len(text) + 1)
<1>1. PICK i : i = Len(Cardinal(n, connector)) + 2
  OBVIOUS
<1> DEFINE end == NumberEnd(i)
           two == <<Unit(20), Unit(2)>>
           last == DigitsEnd(end + 1)
           places == [j \in 1..(last - end - 1) |-> text[end + j].value[1]]
           asDecimal == Match(<<Tok("decimal", <<NumberAt(i)>> \o places)>>, last)
           asJoined == Match(<<Tok("ordinal", <<text[i].value[1] + text[i + 1].value[1]>>)>>, i + 2)
           asOrdinal == Match(<<Tok("ordinal", text[i].value)>>, i + 1)
           asDigits == Match(<<Tok("digits", <<NumberAt(i)>>)>>, end)
<1>2. NumbersAt(i) = IF IsNumberAt(i) /\ Kind(end) = "point" /\ IsDigit(end + 1) THEN asDecimal
                     ELSE IF IsTens(i) /\ IsOnesOrdinal(i + 1) THEN asJoined
                     ELSE IF Kind(i) = "ordinal word" THEN asOrdinal
                     ELSE IF IsNumberWord(i) THEN asDigits
                     ELSE NoMatch(i)
  BY DEF NumbersAt
<1>3. "product" \in Contexts
  BY DEF Contexts
<1>4. text \in Seq(Token) /\ FreeOf({"ordinal word"})
  <2>1. text \in Seq(Token) /\ \A k \in 1..Len(text) : text[k].kind \in {"unit", "scale", "and", FollowKind("product")}
    BY <1>3, WordsStand, WordsKinds
  <2>2. QED
    BY <2>1 DEF FreeOf, FollowKind
<1>5. ~IsOnesOrdinal(i + 1) /\ Kind(i) # "ordinal word"
  <2>1. \A j : Kind(j) # "ordinal word"
    BY <1>4, NoneThere
  <2>2. QED
    BY <2>1 DEF IsOnesOrdinal
<1>6. Len(two) = 2
  OBVIOUS
<1>7. ReadsAs(two, 22)
  BY TwentyTwo
<1>8. Stands(two, i) /\ i + 2 = Len(text) + 1
  <2>1. Stands(two, Len(Cardinal(n, connector)) + 2) /\ Len(text) = Len(Cardinal(n, connector)) + 3
    BY SecondNumber
  <2>2. PICK m \in Nat : m = Len(Cardinal(n, connector))
    BY <1>3, WordsStand
  <2> HIDE DEF two
  <2>3. QED
    BY <1>1, <2>1, <2>2
<1> HIDE DEF two
<1>9. IsNumberWord(i) /\ NumberAt(i) = 22 /\ end = Len(text) + 1
  BY <1>4, <1>6, <1>7, <1>8, StandingRead
<1>10. Kind(end) # "point"
  <2>1. Len(text) + 1 \notin 1..Len(text)
    <3>1. Len(text) \in Nat
      BY <1>4, LenProperties
    <3>2. QED
      BY <3>1
  <2>2. QED
    BY <1>4, <1>9, <2>1, Words
<1>11. asDigits = Match(Single("digits", <<22>>), Len(text) + 1)
  BY <1>9 DEF Single
<1> HIDE DEF end, asDecimal, asJoined, asOrdinal, asDigits
<1>12. NumbersAt(i) = asDigits
  BY <1>2, <1>5, <1>9, <1>10
<1>13. QED
  BY <1>1, <1>11, <1>12

\* How far the numbers pass is.
NumbersSoFar(context, n, connector) ==
  LET length == Len(Cardinal(n, connector))
  IN  \/ at = 1 /\ out = <<>>
      \/ at = Len(text) + 1 /\ out = InDigits(context, n)
      \/ context # "point" /\ at = length + 1 /\ out = Single("digits", <<n>>)
      \/ context = "product" /\ at = length + 2 /\ out = <<Digits(n), Times>>

LEMMA OneDigits ==
  ASSUME NEW n \in Nat
  PROVE  /\ Single("digits", <<n>>) = <<Digits(n)>> /\ Single("digits", <<n>>) \in Seq(Token)
         /\ <<>> \o Single("digits", <<n>>) = Single("digits", <<n>>)
<1> DEFINE one == Single("digits", <<n>>)
<1>1. one = <<Digits(n)>>
  BY DEF Single, Digits
<1>2. PICK word : word = Digits(n)
  OBVIOUS
<1>3. one \in Seq(Token)
  <2>1. word \in Token
    BY <1>2, NumberMade DEF Digits, WordKinds
  <2>2. <<word>> \in Seq(Token)
    BY <2>1
  <2>3. QED
    BY <1>1, <1>2, <2>2
<1> HIDE DEF one
<1>4. <<>> \o one = one
  BY <1>3, ConcatEmptySeq
<1>5. QED
  BY <1>1, <1>3, <1>4 DEF one

LEMMA InDigitsMade ==
  ASSUME NEW context \in Contexts, NEW n \in Nat
  PROVE  InDigits(context, n) \in Seq(Token) /\ <<>> \o InDigits(context, n) = InDigits(context, n)
<1>1. Single("digits", <<n>>) \in Seq(Token) /\ After(context) \in Seq(Token)
  BY OneDigits, AfterIs
<1>2. Single("decimal", <<n, 1, 4>>) \in Seq(Token)
  <2>1. <<n, 1, 4>> \in Seq(Nat) /\ <<n, 1, 4>> # <<>>
    OBVIOUS
  <2>2. Tok("decimal", <<n, 1, 4>>) \in Token
    BY <2>1, TokenMade DEF WordKinds
  <2>3. QED
    BY <2>2 DEF Single
<1>3. ProductDigits(n) \in Seq(Token)
  <2>1. Digits(n) \in Token /\ Times \in Token /\ Digits(22) \in Token
    BY NumberMade DEF Digits, Times, WordKinds
  <2>2. QED
    BY <2>1, Three DEF ProductDigits
<1>4. Single("digits", <<n>>) \o After(context) \in Seq(Token)
  BY <1>1, ConcatProperties
<1>5. InDigits(context, n) \in Seq(Token)
  BY <1>2, <1>3, <1>4 DEF InDigits
<1>6. QED
  BY <1>5, ConcatEmptySeq

\* The three words that a product is written of, joined.
LEMMA ThirdJoined ==
  ASSUME NEW x \in Token, NEW y \in Token, NEW z \in Token
  PROVE  <<x, y>> \o <<z>> = <<x, y, z>>
<1> DEFINE two == <<x, y>>
           one == <<z>>
           all == <<x, y, z>>
<1>1. two \in Seq(Token) /\ Len(two) = 2 /\ two[1] = x /\ two[2] = y
  OBVIOUS
<1>2. one \in Seq(Token) /\ Len(one) = 1 /\ one[1] = z
  OBVIOUS
<1>3. all \in Seq(Token) /\ Len(all) = 3 /\ all[1] = x /\ all[2] = y /\ all[3] = z
  OBVIOUS
<1> HIDE DEF one, two, all
<1>4. PartsOf(two \o one, two, one)
  BY <1>1, <1>2, InParts
<1>5. two \o one \in Seq(Token) /\ Len(two \o one) = 3
  BY <1>1, <1>2, <1>4 DEF PartsOf
<1>6. (two \o one)[1] = x /\ (two \o one)[2] = y
  <2>1. 1 \in 1..2 /\ 2 \in 1..2
    OBVIOUS
  <2>2. QED
    BY <1>1, <1>4, <2>1 DEF PartsOf
<1>7. (two \o one)[2 + 1] = z
  <2>1. 1 \in 1..1
    OBVIOUS
  <2>2. QED
    BY <1>1, <1>2, <1>4, <2>1 DEF PartsOf
<1>8. \A k \in 1..3 : (two \o one)[k] = all[k]
  <2>1. \A k \in 1..3 : k = 1 \/ k = 2 \/ k = 2 + 1
    OBVIOUS
  <2>2. all[2 + 1] = z
    BY <1>3
  <2>3. QED
    BY <1>3, <1>6, <1>7, <2>1, <2>2
<1>9. two \o one = all
  BY <1>3, <1>5, <1>8, SeqEqual
<1>10. QED
  BY <1>9 DEF one, two, all

\* One step of the numbers pass.
LEMMA NumbersOn ==
  ASSUME NEW context \in Contexts, NEW n, Sayable(n), NEW connector \in Connectors,
         text = InWords(context, n, connector), NumbersSoFar(context, n, connector), at <= Len(text),
         out' = out \o NumbersAt(at).written, at' = NumbersAt(at).end, text' = text
  PROVE  NumbersSoFar(context, n, connector)'
<1>1. PICK m \in Nat : m = Len(Cardinal(n, connector)) /\ m # 0
  BY WordsStand
<1>2. /\ text \in Seq(Token) /\ Len(text) = m + AfterLength(context) /\ Kind(m + 1) = FollowKind(context)
      /\ \A k \in 1..AfterLength(context) : text[m + k] = After(context)[k]
  BY <1>1, WordsStand
<1>3. n \in Nat
  BY DEF Sayable
<1>4. PICK x, y : x = at' /\ y = out'
  OBVIOUS
<1>5. \A written, end : Match(written, end).written = written /\ Match(written, end).end = end
  BY DEF Match
<1> DEFINE Now(i, written) ==
             \/ i = 1 /\ written = <<>>
             \/ i = Len(text) + 1 /\ written = InDigits(context, n)
             \/ context # "point" /\ i = m + 1 /\ written = Single("digits", <<n>>)
             \/ context = "product" /\ i = m + 2 /\ written = <<Digits(n), Times>>
<1>6. Now(at, out)
  BY <1>1 DEF NumbersSoFar
<1>7. CASE at = 1 /\ out = <<>>
  <2>1. CASE context # "point"
    <3>1. NumbersAt(1) = Match(Single("digits", <<n>>), m + 1)
      BY <1>1, <2>1, NumbersFirst
    <3>2. x = m + 1 /\ y = <<>> \o Single("digits", <<n>>)
      BY <1>4, <1>5, <1>7, <3>1
    <3>3. y = Single("digits", <<n>>)
      BY <1>3, <3>2, OneDigits
    <3>4. Now(x, y)
      BY <2>1, <3>2, <3>3
    <3>5. QED
      BY <1>1, <1>4, <3>4 DEF NumbersSoFar
  <2>2. CASE context = "point"
    <3>1. NumbersAt(1) = Match(InDigits(context, n), Len(text) + 1)
      BY <2>2, NumbersFirst
    <3>2. x = Len(text) + 1 /\ y = <<>> \o InDigits(context, n)
      BY <1>4, <1>5, <1>7, <3>1
    <3>3. y = InDigits(context, n)
      BY <1>3, <3>2, InDigitsMade
    <3>4. Now(x, y)
      BY <3>2, <3>3
    <3>5. QED
      BY <1>1, <1>4, <3>4 DEF NumbersSoFar
  <2>3. QED
    BY <2>1, <2>2
<1>8. CASE context # "point" /\ at = m + 1 /\ out = Single("digits", <<n>>)
  <2>1. context # "plain" /\ AfterLength(context) \in Nat /\ 1 \in 1..AfterLength(context)
    BY <1>2, <1>8 DEF AfterLength
  <2>2. Kind(m + 1) \notin {"unit", "scale", "digits", "ordinal word"}
    BY <1>2 DEF FollowKind, Contexts
  <2>3. NumbersAt(m + 1) = Match(<<text[m + 1]>>, m + 1 + 1)
    BY <2>2, NumbersCopy DEF NoMatch
  <2>4. x = m + 2 /\ y = Single("digits", <<n>>) \o <<text[m + 1]>>
    <3>1. PICK word : word = <<text[m + 1]>>
      OBVIOUS
    <3>2. NumbersAt(at).written = word /\ NumbersAt(at).end = m + 1 + 1
      <4>1. NumbersAt(at) = Match(word, m + 1 + 1)
        BY <1>8, <2>3, <3>1
      <4>2. QED
        BY <1>5, <4>1
    <3>3. x = m + 1 + 1 /\ y = out \o word
      BY <1>4, <3>2
    <3>4. QED
      BY <1>8, <3>1, <3>3
  <2>5. text[m + 1] = After(context)[1]
    BY <1>2, <2>1
  <2>6. CASE context = "product"
    <3>1. text[m + 1] = Times
      BY <2>5, <2>6, AfterIs
    <3>2. y = <<Digits(n), Times>>
      <4>1. PICK a, b : a = Digits(n) /\ b = Times
        OBVIOUS
      <4>2. y = <<a>> \o <<b>>
        BY <1>3, <2>4, <3>1, <4>1, OneDigits
      <4>3. QED
        BY <4>1, <4>2, Joins
    <3>3. Now(x, y)
      BY <2>4, <2>6, <3>2
    <3>4. QED
      BY <1>1, <1>4, <3>3 DEF NumbersSoFar
  <2>7. CASE context # "product"
    <3>1. AfterLength(context) = 1
      BY <1>8, <2>1, <2>7 DEF AfterLength
    <3>2. After(context) = <<text[m + 1]>>
      <4>1. PICK word : word = text[m + 1]
        OBVIOUS
      <4>2. After(context) \in Seq(Token) /\ Len(After(context)) = 1 /\ After(context)[1] = word
        BY <2>5, <3>1, <4>1, AfterIs
      <4>3. word \in Token
        <5>1. 1 \in 1..1
          OBVIOUS
        <5>2. QED
          BY <4>2, <5>1, ElementOfSeq
      <4>4. <<word>> \in Seq(Token) /\ Len(<<word>>) = 1 /\ <<word>>[1] = word
        BY <4>3
      <4>5. \A k \in 1..1 : After(context)[k] = <<word>>[k]
        BY <4>2, <4>4
      <4>6. After(context) = <<word>>
        BY <4>2, <4>4, <4>5, SeqEqual
      <4>7. QED
        BY <4>1, <4>6
    <3>3. y = InDigits(context, n)
      BY <1>8, <2>4, <2>7, <3>2 DEF InDigits
    <3>4. x = Len(text) + 1
      BY <1>2, <2>4, <3>1
    <3>5. Now(x, y)
      BY <3>3, <3>4
    <3>6. QED
      BY <1>1, <1>4, <3>5 DEF NumbersSoFar
  <2>8. QED
    BY <2>6, <2>7
<1>9. CASE context = "product" /\ at = m + 2 /\ out = <<Digits(n), Times>>
  <2>1. NumbersAt(m + 2) = Match(Single("digits", <<22>>), Len(text) + 1)
    BY <1>1, <1>9, NumbersSecond
  <2>2. x = Len(text) + 1 /\ y = out \o Single("digits", <<22>>)
    BY <1>4, <1>5, <1>9, <2>1
  <2>3. y = InDigits(context, n)
    <3>1. Digits(n) \in Token /\ Times \in Token /\ Digits(22) \in Token
      BY <1>3, NumberMade DEF Digits, Times, WordKinds
    <3>2. <<Digits(n), Times>> \o <<Digits(22)>> = <<Digits(n), Times, Digits(22)>>
      BY <3>1, ThirdJoined
    <3>3. Single("digits", <<22>>) = <<Digits(22)>> /\ InDigits(context, n) = <<Digits(n), Times, Digits(22)>>
      BY <1>9 DEF Single, Digits, InDigits, ProductDigits
    <3>4. QED
      BY <1>9, <2>2, <3>2, <3>3
  <2>4. Now(x, y)
    BY <2>2, <2>3
  <2>5. QED
    BY <1>1, <1>4, <2>4 DEF NumbersSoFar
<1>10. at # Len(text) + 1
  BY <1>2, Words
<1>11. QED
  BY <1>6, <1>7, <1>8, <1>9, <1>10

-----------------------------------------------------------------------------
(* The kinds of the words on the way.                                       *)
MadeOf(kinds) == text \in Seq(Token) /\ Collapsed(text) /\ \A k \in 1..Len(text) : text[k].kind \in kinds

LEMMA MadeFree ==
  ASSUME NEW kinds, MadeOf(kinds), NEW others, \A kind \in kinds : kind \notin others
  PROVE  FreeOf(others)
BY DEF MadeOf, FreeOf

\* Only the second word is of a kind that can be said twice over.
LEMMA SecondCollapsed ==
  ASSUME text \in Seq(Token), \A k \in 1..Len(text) : k # 2 => text[k].kind \notin Collapsible
  PROVE  Collapsed(text)
<1>1. SUFFICES ASSUME NEW k \in 2..Len(text), text[k].kind \in Collapsible, text[k - 1] = text[k] PROVE FALSE
  BY DEF Collapsed
<1>2. Len(text) \in Nat /\ k \in 1..Len(text)
  BY LenProperties
<1>3. k = 2
  BY <1>1, <1>2
<1>4. 1 \in 1..Len(text) /\ text[1] = text[2]
  BY <1>1, <1>2, <1>3
<1>5. QED
  BY <1>1, <1>3, <1>4

LEMMA DigitsKinds ==
  ASSUME NEW context \in Contexts, NEW n \in Nat, text = InDigits(context, n)
  PROVE  MadeOf({"digits", "decimal", FollowKind(context)})
<1>1. text \in Seq(Token) /\ Len(text) \in Nat
  BY InDigitsMade, LenProperties
<1>2. CASE context = "point"
  <2>1. PICK word : word = Tok("decimal", <<n, 1, 4>>)
    OBVIOUS
  <2>2. text = <<word>> /\ word.kind = "decimal"
    BY <1>2, <2>1 DEF InDigits, Single, Tok
  <2>3. \A k \in 1..Len(text) : text[k].kind = "decimal"
    BY <2>2
  <2>4. Collapsed(text)
    BY <1>1, <2>3, SecondCollapsed DEF Collapsible
  <2>5. QED
    BY <1>1, <2>3, <2>4 DEF MadeOf
<1>3. CASE context # "point"
  <2>1. /\ Len(text) = 1 + AfterLength(context) - (IF context = "product" THEN 1 ELSE 0)
        /\ text[1] = Digits(n) /\ Kind(1) = "digits" /\ Kind(2) = FollowKind(context)
        /\ context = "product" => text[2] = Times /\ text[3] = Digits(22)
    BY <1>3, DigitsStand
  <2>2. AfterLength(context) \in Nat /\ (context = "product" => AfterLength(context) = 3)
        /\ (context # "product" => AfterLength(context) < 2)
    BY <1>3 DEF AfterLength
  <2>3. Len(text) < 4 /\ (Len(text) = 3 => context = "product")
    BY <2>1, <2>2
  <2>4. Digits(22).kind = "digits"
    BY DEF Digits, Tok
  <2>5. \A k \in 1..Len(text) : IF k = 2 THEN text[k].kind = FollowKind(context) ELSE text[k].kind = "digits"
    <3>1. SUFFICES ASSUME NEW k \in 1..Len(text)
                   PROVE  IF k = 2 THEN text[k].kind = FollowKind(context) ELSE text[k].kind = "digits"
      OBVIOUS
    <3>2. text[k].kind = Kind(k)
      BY <1>1, Words
    <3>3. k = 1 \/ k = 2 \/ (k = 3 /\ Len(text) = 3)
      <4>1. PICK length \in Nat : length = Len(text)
        BY <1>1
      <4>2. length < 4 /\ k \in 1..length
        BY <2>3, <4>1
      <4>3. k = 1 \/ k = 2 \/ (k = 3 /\ length = 3)
        BY <4>2
      <4>4. QED
        BY <4>1, <4>3
    <3>4. QED
      BY <2>1, <2>3, <2>4, <3>2, <3>3
  <2>6. Collapsed(text)
    BY <1>1, <2>5, SecondCollapsed DEF Collapsible
  <2>7. QED
    BY <1>1, <2>5, <2>6 DEF MadeOf
<1>4. QED
  BY <1>2, <1>3

AmountKinds == {"money", "percentage", "fraction", "square", "digits", "sign"}

LEMMA WrittenKinds ==
  ASSUME NEW context \in Contexts, PatternOf(context) # "none", NEW n \in Nat, text = Written(context, n)
  PROVE  MadeOf(AmountKinds)
<1>1. text \in Seq(Token) /\ \A k \in 1..Len(text) : text[k].kind \in AmountKinds
  <2>1. CASE context = "product"
    <3>1. PICK x, y, z : x = Digits(n) /\ y = Tok("sign", <<1>>) /\ z = Digits(22)
      OBVIOUS
    <3>2. x \in Token /\ y \in Token /\ z \in Token
      BY <3>1, NumberMade DEF Digits, WordKinds
    <3>3. x.kind = "digits" /\ y.kind = "sign" /\ z.kind = "digits"
      BY <3>1 DEF Digits, Tok
    <3>4. text = <<x, y, z>>
      BY <2>1, <3>1 DEF Written, ProductWritten
    <3>5. text \in Seq(Token) /\ Len(text) = 3 /\ text[1] = x /\ text[2] = y /\ text[3] = z
      BY <3>2, <3>4, Three
    <3>6. \A k \in 1..3 : k = 1 \/ k = 2 \/ k = 3
      OBVIOUS
    <3>7. QED
      BY <3>3, <3>5, <3>6 DEF AmountKinds
  <2>2. CASE context \in {"dollars", "percent", "fifths", "squared"}
    <3>1. \E kind \in {"money", "percentage", "square"} :
            text = Single(kind, <<n>>) \/ text = Single("fraction", <<n, 5>>)
      BY <2>2 DEF Written
    <3>2. PICK word \in Token : text = <<word>> /\ word.kind \in AmountKinds
      <4>1. CASE \E kind \in {"money", "percentage", "square"} : text = Single(kind, <<n>>)
        <5>1. PICK kind \in {"money", "percentage", "square"} : text = Single(kind, <<n>>)
          BY <4>1
        <5>2. Tok(kind, <<n>>) \in Token /\ Tok(kind, <<n>>).kind = kind
          BY NumberMade DEF WordKinds, Tok
        <5>3. QED
          BY <5>1, <5>2 DEF Single, AmountKinds
      <4>2. CASE text = Single("fraction", <<n, 5>>)
        <5>1. <<n, 5>> \in Seq(Nat) /\ <<n, 5>> # <<>>
          OBVIOUS
        <5>2. Tok("fraction", <<n, 5>>) \in Token /\ Tok("fraction", <<n, 5>>).kind = "fraction"
          BY <5>1, TokenMade DEF WordKinds, Tok
        <5>3. QED
          BY <4>2, <5>2 DEF Single, AmountKinds
      <4>3. QED
        BY <3>1, <4>1, <4>2
    <3>3. QED
      BY <3>2
  <2>3. QED
    BY <2>1, <2>2 DEF Contexts, PatternOf
<1>2. Collapsed(text)
  BY <1>1, SecondCollapsed DEF AmountKinds, Collapsible
<1>3. QED
  BY <1>1, <1>2 DEF MadeOf

-----------------------------------------------------------------------------
(* The passes one after the other, and the text that each one finds.        *)
NumberStages == {"times", "numbers", "formulas", "currency", "percents", "dedup", "end"}

FromDedup == <<"dedup">> \o <<>>
FromPercents == <<"percents">> \o FromDedup
FromCurrency == <<"currency">> \o FromPercents
FromFormulas == <<"formulas">> \o FromCurrency
AfterNumbers == IF formulas THEN FromFormulas ELSE FromCurrency
FromNumbers == <<"numbers">> \o AfterNumbers
AfterTimes == IF digits THEN FromNumbers ELSE AfterNumbers
FromTimes == <<"times">> \o AfterTimes

Remaining(stage) ==
  CASE stage = "times" -> FromTimes
    [] stage = "numbers" -> FromNumbers
    [] stage = "formulas" -> FromFormulas
    [] stage = "currency" -> FromCurrency
    [] stage = "percents" -> FromPercents
    [] stage = "dedup" -> FromDedup
    [] stage = "end" -> <<>>

Following(stage) ==
  CASE stage = "times" -> IF digits THEN "numbers" ELSE IF formulas THEN "formulas" ELSE "currency"
    [] stage = "numbers" -> IF formulas THEN "formulas" ELSE "currency"
    [] stage = "formulas" -> "currency"
    [] stage = "currency" -> "percents"
    [] stage = "percents" -> "dedup"
    [] stage = "dedup" -> "end"

Base(context, n, connector) == IF digits THEN InDigits(context, n) ELSE InWords(context, n, connector)

AsFormula(context) == PatternOf(context) = "formulas" /\ formulas

TextAt(stage, context, n, connector) ==
  CASE stage \in {"times", "numbers"} -> InWords(context, n, connector)
    [] stage = "formulas" -> Base(context, n, connector)
    [] stage = "currency" -> IF AsFormula(context) THEN Written(context, n) ELSE Base(context, n, connector)
    [] stage = "percents" -> IF AsFormula(context) \/ PatternOf(context) = "currency"
                             THEN Written(context, n) ELSE Base(context, n, connector)
    [] stage \in {"dedup", "end"} -> Outcome(context, n, connector, digits, formulas)

LEMMA OneBefore ==
  ASSUME NEW S, NEW x \in S, NEW seq \in Seq(S)
  PROVE  /\ <<x>> \o seq \in Seq(S) /\ <<x>> \o seq # <<>>
         /\ Head(<<x>> \o seq) = x /\ Tail(<<x>> \o seq) = seq
<1> DEFINE all == <<x>> \o seq
<1>1. <<x>> \in Seq(S) /\ Len(<<x>>) = 1 /\ <<x>>[1] = x
  OBVIOUS
<1>2. PICK length \in Nat : length = Len(seq)
  BY LenProperties
<1>3. all \in Seq(S) /\ Len(all) = 1 + length
      /\ all[1] = x /\ \A k \in 1..length : all[1 + k] = seq[k]
  <2>1. Len(all) = 1 + length
    BY <1>1, <1>2, ConcatProperties
  <2>2. all[1] = x
    BY <1>1, <1>2, <2>1, ConcatProperties
  <2>3. \A k \in 1..length : all[1 + k] = seq[k]
    BY <1>1, <1>2, <2>1, ConcatProperties
  <2>4. QED
    BY <1>1, <2>1, <2>2, <2>3, ConcatProperties
<1> HIDE DEF all
<1>4. all # <<>>
  BY <1>2, <1>3
<1>5. Head(all) = x
  BY <1>3
<1>6. Tail(all) \in Seq(S) /\ Len(Tail(all)) = length /\ \A k \in 1..length : Tail(all)[k] = all[k + 1]
  BY <1>2, <1>3, <1>4, HeadTailProperties
<1>7. \A k \in 1..length : Tail(all)[k] = seq[k]
  BY <1>3, <1>6
<1>8. Tail(all) = seq
  BY <1>2, <1>6, <1>7, SeqEqual
<1>9. QED
  BY <1>3, <1>4, <1>5, <1>8 DEF all

LEMMA StagesRemain ==
  ASSUME NEW stage \in NumberStages
  PROVE  /\ Remaining(stage) = <<>> <=> stage = "end"
         /\ stage # "end" => /\ Head(Remaining(stage)) = stage
                             /\ Tail(Remaining(stage)) = Remaining(Following(stage)) /\ Following(stage) \in NumberStages
<1>0. \A other \in {"times", "numbers", "formulas", "currency", "percents", "dedup"} : other \in NumberStages
  BY DEF NumberStages
<1>1. <<>> \in Seq(NumberStages)
  BY EmptySeq
<1>2. FromDedup \in Seq(NumberStages) /\ FromDedup # <<>> /\ Head(FromDedup) = "dedup" /\ Tail(FromDedup) = <<>>
  BY <1>0, <1>1, OneBefore DEF FromDedup
<1>3. /\ FromPercents \in Seq(NumberStages) /\ FromPercents # <<>> /\ Head(FromPercents) = "percents"
      /\ Tail(FromPercents) = FromDedup
  BY <1>0, <1>2, OneBefore DEF FromPercents
<1>4. /\ FromCurrency \in Seq(NumberStages) /\ FromCurrency # <<>> /\ Head(FromCurrency) = "currency"
      /\ Tail(FromCurrency) = FromPercents
  BY <1>0, <1>3, OneBefore DEF FromCurrency
<1>5. /\ FromFormulas \in Seq(NumberStages) /\ FromFormulas # <<>> /\ Head(FromFormulas) = "formulas"
      /\ Tail(FromFormulas) = FromCurrency
  BY <1>0, <1>4, OneBefore DEF FromFormulas
<1>6. AfterNumbers \in Seq(NumberStages)
  BY <1>4, <1>5 DEF AfterNumbers
<1>7. /\ FromNumbers \in Seq(NumberStages) /\ FromNumbers # <<>> /\ Head(FromNumbers) = "numbers"
      /\ Tail(FromNumbers) = AfterNumbers
  BY <1>0, <1>6, OneBefore DEF FromNumbers
<1>8. AfterTimes \in Seq(NumberStages)
  BY <1>6, <1>7 DEF AfterTimes
<1>9. FromTimes # <<>> /\ Head(FromTimes) = "times" /\ Tail(FromTimes) = AfterTimes
  BY <1>0, <1>8, OneBefore DEF FromTimes
<1>10. AfterNumbers = Remaining(IF formulas THEN "formulas" ELSE "currency")
  BY DEF AfterNumbers, Remaining
<1>11. AfterTimes = Remaining(Following("times"))
  BY <1>10 DEF AfterTimes, Remaining, Following
<1>12. QED
  BY <1>2, <1>3, <1>4, <1>5, <1>7, <1>9, <1>10, <1>11 DEF NumberStages, Remaining, Following

-----------------------------------------------------------------------------
LEMMA PairJoined ==
  ASSUME NEW S, NEW x \in S, NEW y \in S, NEW z \in S
  PROVE  <<x>> \o <<y, z>> = <<x, y, z>>
<1> DEFINE one == <<x>>
           two == <<y, z>>
           all == <<x, y, z>>
<1>1. one \in Seq(S) /\ Len(one) = 1 /\ one[1] = x
  OBVIOUS
<1>2. two \in Seq(S) /\ Len(two) = 2 /\ two[1] = y /\ two[2] = z
  OBVIOUS
<1>3. all \in Seq(S) /\ Len(all) = 3 /\ all[1] = x /\ all[2] = y /\ all[3] = z
  OBVIOUS
<1> HIDE DEF one, two, all
<1>4. /\ one \o two \in Seq(S) /\ Len(one \o two) = 3
      /\ (one \o two)[1] = x /\ (one \o two)[2] = y /\ (one \o two)[3] = z
  <2>1. one \o two \in Seq(S) /\ Len(one \o two) = 1 + 2
    BY <1>1, <1>2, ConcatProperties
  <2>2. \A k \in 1..(Len(one) + Len(two)) :
          (one \o two)[k] = IF k <= Len(one) THEN one[k] ELSE two[k - Len(one)]
    BY <1>1, <1>2, ConcatProperties
  <2>3. (one \o two)[1] = one[1] /\ (one \o two)[2] = two[1] /\ (one \o two)[3] = two[2]
    <3>1. /\ 1 \in 1..(Len(one) + Len(two)) /\ 2 \in 1..(Len(one) + Len(two)) /\ 3 \in 1..(Len(one) + Len(two))
          /\ 1 <= Len(one) /\ ~(2 <= Len(one)) /\ ~(3 <= Len(one)) /\ 2 - Len(one) = 1 /\ 3 - Len(one) = 2
      BY <1>1, <1>2
    <3>2. QED
      BY <2>2, <3>1
  <2>4. QED
    BY <1>1, <1>2, <2>1, <2>3
<1>5. \A k \in 1..3 : k = 1 \/ k = 2 \/ k = 3
  OBVIOUS
<1>6. one \o two = all
  BY <1>3, <1>4, <1>5, SeqEqual
<1>7. QED
  BY <1>6 DEF one, two, all

LEMMA PassesListed == PassesOf(digits, formulas) = Remaining("times")
<1> DEFINE S == NumberStages
           end == <<"currency", "percents", "dedup">>
           asNumbers == IF digits THEN <<"numbers">> ELSE <<>>
           asFormulas == IF formulas THEN <<"formulas">> ELSE <<>>
           first == <<"times">>
<1>1. \A other \in {"times", "numbers", "formulas", "currency", "percents", "dedup"} : other \in S
  BY DEF NumberStages
<1>2. FromDedup = <<"dedup">> /\ FromPercents = <<"percents", "dedup">> /\ FromCurrency = end
  <2>1. FromDedup = <<"dedup">>
    BY Joins DEF FromDedup
  <2>2. FromPercents = <<"percents", "dedup">>
    BY <2>1, Joins DEF FromPercents
  <2>3. FromCurrency = <<"currency">> \o <<"percents", "dedup">>
    BY <2>2 DEF FromCurrency
  <2>4. <<"currency">> \o <<"percents", "dedup">> = end
    BY <1>1, PairJoined
  <2>5. QED
    BY <2>1, <2>2, <2>3, <2>4
<1>3. /\ first \in Seq(S) /\ asNumbers \in Seq(S) /\ asFormulas \in Seq(S) /\ end \in Seq(S)
  BY <1>1, EmptySeq
<1>4. PassesOf(digits, formulas) = ((first \o asNumbers) \o asFormulas) \o end
  BY DEF PassesOf
<1>5. AfterNumbers = asFormulas \o end
  <2>1. CASE formulas
    BY <1>2, <2>1 DEF AfterNumbers, FromFormulas
  <2>2. CASE ~formulas
    <3>1. asFormulas = <<>>
      BY <2>2
    <3> HIDE DEF end, asFormulas
    <3>2. <<>> \o end = end
      BY <1>3, ConcatEmptySeq
    <3>3. QED
      BY <1>2, <2>2, <3>1, <3>2 DEF AfterNumbers
  <2>3. QED
    BY <2>1, <2>2
<1> HIDE DEF S, end, asFormulas, first
<1>6. asFormulas \o end \in Seq(S)
  BY <1>3, ConcatProperties
<1>7. AfterTimes = asNumbers \o (asFormulas \o end)
  <2>1. CASE digits
    BY <1>5, <2>1 DEF AfterTimes, FromNumbers
  <2>2. CASE ~digits
    <3>1. asNumbers = <<>>
      BY <2>2
    <3> HIDE DEF asNumbers
    <3>2. <<>> \o (asFormulas \o end) = asFormulas \o end
      BY <1>6, ConcatEmptySeq
    <3>3. QED
      BY <1>5, <2>2, <3>1, <3>2 DEF AfterTimes
  <2>3. QED
    BY <2>1, <2>2
<1> HIDE DEF asNumbers
<1>8. ((first \o asNumbers) \o asFormulas) \o end = first \o (asNumbers \o (asFormulas \o end))
  <2>1. first \o asNumbers \in Seq(S)
    BY <1>3, ConcatProperties
  <2>2. ((first \o asNumbers) \o asFormulas) \o end = (first \o asNumbers) \o (asFormulas \o end)
    BY <1>3, <2>1, ConcatAssociative, SMTT(30)
  <2>3. (first \o asNumbers) \o (asFormulas \o end) = first \o (asNumbers \o (asFormulas \o end))
    BY <1>3, <1>6, ConcatAssociative, SMTT(30)
  <2>4. QED
    BY <2>2, <2>3
<1>9. Remaining("times") = first \o AfterTimes
  BY DEF Remaining, FromTimes, first
<1>10. QED
  BY <1>4, <1>7, <1>8, <1>9

\* The number that the text begins with, in words or in digits.
LEMMA BaseOpens ==
  ASSUME NEW context \in Contexts, context # "point", NEW n, Sayable(n), NEW connector \in Connectors,
         text = Base(context, n, connector)
  PROVE  \E e : Opened(context, n, e)
<1>1. n \in Nat
  BY DEF Sayable
<1>2. CASE digits
  BY <1>1, <1>2, DigitsOpen DEF Base
<1>3. CASE ~digits
  BY <1>3, WordsOpen DEF Base
<1>4. QED
  BY <1>2, <1>3

\* The pass whose pattern the text has, at its first word.
LEMMA PatternHit ==
  ASSUME NEW context \in Contexts, PatternOf(context) # "none", NEW n, Sayable(n), NEW connector \in Connectors,
         text = Base(context, n, connector)
  PROVE  /\ PassAt(PatternOf(context), 1).written = Written(context, n)
         /\ PassAt(PatternOf(context), 1).end = Len(text) + 1
         /\ Len(text) \in Nat /\ Len(text) # 0
<1>1. context \in {"dollars", "percent", "fifths", "squared", "product"}
  BY DEF Contexts, PatternOf
<1>2. PICK e : Opened(context, n, e)
  BY <1>1, BaseOpens
<1>3. Len(text) \in Nat /\ Len(text) # 0
  <2>1. Len(text) \in Nat /\ e \in 2..(Len(text) + 1)
    BY <1>2, LenProperties DEF Opened
  <2>2. QED
    BY <2>1
<1>4. CASE context = "dollars"
  <2>1. CurrencyAt(1).written = Written(context, n) /\ CurrencyAt(1).end = Len(text) + 1
    BY <1>2, <1>4, CurrencyHits
  <2>2. PassAt(PatternOf(context), 1) = CurrencyAt(1)
    BY <1>4 DEF PatternOf, PassAt
  <2>3. QED
    BY <1>3, <2>1, <2>2
<1>5. CASE context \in {"percent", "fifths"}
  <2>1. PercentsAt(1).written = Written(context, n) /\ PercentsAt(1).end = Len(text) + 1
    BY <1>2, <1>5, PercentsHit
  <2>2. PassAt(PatternOf(context), 1) = PercentsAt(1)
    BY <1>5 DEF PatternOf, PassAt
  <2>3. QED
    BY <1>3, <2>1, <2>2
<1>6. CASE context \in {"squared", "product"}
  <2>1. n \in Nat
    BY DEF Sayable
  <2>2. FormulasAt(1).written = Written(context, n) /\ FormulasAt(1).end = Len(text) + 1
    BY <1>2, <1>6, <2>1, PowerHit, ProductHit
  <2>3. PassAt(PatternOf(context), 1) = FormulasAt(1)
    BY <1>6 DEF PatternOf, PassAt
  <2>4. QED
    BY <1>3, <2>2, <2>3
<1>7. QED
  BY <1>1, <1>4, <1>5, <1>6

\* The kinds of words that a pass finds.
LEMMA StageKinds ==
  ASSUME NEW context \in Contexts, NEW n, Sayable(n), NEW connector \in Connectors, NEW stage \in NumberStages,
         text = TextAt(stage, context, n, connector)
  PROVE  /\ MadeOf({"unit", "scale", "and", "decimal", FollowKind(context)} \cup AmountKinds)
         /\ stage = "times" => MadeOf({"unit", "scale", "and", FollowKind(context)})
<1> DEFINE all == {"unit", "scale", "and", "decimal", FollowKind(context)} \cup AmountKinds
<1>1. n \in Nat
  BY DEF Sayable
<1>2. ASSUME text = InWords(context, n, connector) PROVE MadeOf({"unit", "scale", "and", FollowKind(context)})
  <2>1. text \in Seq(Token)
    BY <1>2, WordsStand
  <2>2. \A k \in 1..Len(text) : text[k].kind \in {"unit", "scale", "and", FollowKind(context)}
    BY <1>2, WordsKinds
  <2>3. Collapsed(text)
    BY <1>2, WordsKinds
  <2>4. QED
    BY <2>1, <2>2, <2>3 DEF MadeOf
<1>3. ASSUME text = InDigits(context, n) PROVE MadeOf({"digits", "decimal", FollowKind(context)})
  BY <1>1, <1>3, DigitsKinds
<1>4. ASSUME PatternOf(context) # "none", text = Written(context, n) PROVE MadeOf(AmountKinds)
  BY <1>1, <1>4, WrittenKinds
<1>5. \/ text = InWords(context, n, connector)
      \/ text = InDigits(context, n) /\ stage # "times"
      \/ PatternOf(context) # "none" /\ text = Written(context, n) /\ stage # "times"
  BY DEF TextAt, Base, Outcome, AsFormula, NumberStages
<1>6. \A kinds : MadeOf(kinds) /\ kinds \subseteq all => MadeOf(all)
  BY DEF MadeOf
<1>7. /\ {"unit", "scale", "and", FollowKind(context)} \subseteq all /\ AmountKinds \subseteq all
      /\ {"digits", "decimal", FollowKind(context)} \subseteq all
  BY DEF AmountKinds
<1> HIDE DEF all
<1>8. CASE text = InWords(context, n, connector)
  BY <1>2, <1>6, <1>7, <1>8 DEF all
<1>9. CASE text = InDigits(context, n) /\ stage # "times"
  BY <1>3, <1>6, <1>7, <1>9 DEF all
<1>10. CASE PatternOf(context) # "none" /\ text = Written(context, n) /\ stage # "times"
  BY <1>4, <1>6, <1>7, <1>10 DEF all
<1>11. QED
  BY <1>5, <1>8, <1>9, <1>10

-----------------------------------------------------------------------------
\* A pass without a pattern in the text copies each of its words.
LEMMA StageCopies ==
  ASSUME NEW context \in Contexts, NEW n, Sayable(n), NEW connector \in Connectors, NEW stage \in NumberStages,
         text = TextAt(stage, context, n, connector), stage \notin {"numbers", "end", PatternOf(context)},
         NEW i \in 1..Len(text), CopiedTo(text, i, out)
  PROVE  PassAt(stage, i) = NoMatch(i)
<1>1. /\ MadeOf({"unit", "scale", "and", "decimal", FollowKind(context)} \cup AmountKinds)
      /\ stage = "times" => MadeOf({"unit", "scale", "and", FollowKind(context)})
  BY StageKinds
<1>2. text \in Seq(Token) /\ Collapsed(text)
  BY <1>1 DEF MadeOf
<1>3. FollowKind(context) \in {"dollars", "percent", "denominator", "squared", "point", "operator", "none"}
  BY DEF Contexts, FollowKind
<1>4. CASE stage = "times"
  <2>1. FreeOf({"digits", "oclock"})
    BY <1>1, <1>3, <1>4, MadeFree
  <2>2. QED
    BY <1>2, <1>4, <2>1, TimesCopy DEF PassAt
<1>5. CASE stage = "formulas"
  <2>1. FollowKind(context) \notin {"squared", "operator"}
    BY <1>5 DEF PatternOf, FollowKind, Contexts
  <2>2. FreeOf({"squared", "operator"})
    BY <1>1, <2>1, MadeFree DEF AmountKinds
  <2>3. QED
    BY <1>2, <1>5, <2>2, FormulasCopy DEF PassAt
<1>6. CASE stage = "currency"
  <2>1. FollowKind(context) # "dollars"
    BY <1>6 DEF PatternOf, FollowKind, Contexts
  <2>2. FreeOf({"dollars"})
    BY <1>1, <2>1, MadeFree DEF AmountKinds
  <2>3. QED
    BY <1>2, <1>6, <2>2, CurrencyCopy DEF PassAt
<1>7. CASE stage = "percents"
  <2>1. FollowKind(context) \notin {"percent", "denominator", "ordinal word"}
    BY <1>7 DEF PatternOf, FollowKind, Contexts
  <2>2. FreeOf({"percent", "denominator", "ordinal word"})
    <3>1. \A kind \in {"unit", "scale", "and", "decimal", FollowKind(context)} \cup AmountKinds :
            kind \notin {"percent", "denominator", "ordinal word"}
      BY <2>1 DEF AmountKinds
    <3>2. QED
      BY <1>1, <3>1, MadeFree
  <2>3. QED
    BY <1>2, <1>7, <2>2, PercentsCopy DEF PassAt
<1>8. CASE stage = "dedup"
  BY <1>2, <1>8, DedupCopy DEF PassAt
<1>9. QED
  BY <1>4, <1>5, <1>6, <1>7, <1>8 DEF NumberStages

\* The numbers pass at its end.
LEMMA NumbersDone ==
  ASSUME NEW context \in Contexts, NEW n, Sayable(n), NEW connector \in Connectors,
         text = InWords(context, n, connector), NumbersSoFar(context, n, connector), at > Len(text)
  PROVE  out = InDigits(context, n)
<1>1. PICK m \in Nat : m = Len(Cardinal(n, connector)) /\ m # 0
  BY WordsStand
<1>2. Len(text) = m + AfterLength(context)
  BY <1>1, WordsStand
<1>3. /\ AfterLength(context) \in Nat /\ (context = "product" => AfterLength(context) = 3)
      /\ (AfterLength(context) = 0 => context = "plain")
  BY DEF AfterLength, Contexts
<1>4. CASE at = Len(text) + 1 /\ out = InDigits(context, n)
  BY <1>4
<1>5. CASE context # "point" /\ at = m + 1 /\ out = Single("digits", <<n>>)
  <2>1. context = "plain"
    BY <1>2, <1>3, <1>5
  <2>2. InDigits(context, n) = Single("digits", <<n>>) \o <<>>
    BY <2>1 DEF InDigits, After
  <2>3. n \in Nat
    BY DEF Sayable
  <2>4. QED
    BY <1>5, <2>2, <2>3, OneDigits, ConcatEmptySeq
<1>6. ~(at = 1 /\ out = <<>>)
  BY <1>1, <1>2, <1>3
<1>7. ~(context = "product" /\ at = m + 2)
  BY <1>2, <1>3
<1>8. QED
  BY <1>1, <1>4, <1>5, <1>6, <1>7 DEF NumbersSoFar

-----------------------------------------------------------------------------
(* How far a pass is, and what holds on the way.                            *)
PassSoFar(stage, context, n, connector) ==
  IF stage = "end" THEN TRUE
  ELSE IF stage = "numbers" THEN NumbersSoFar(context, n, connector)
  ELSE IF stage = PatternOf(context)
  THEN (at = 1 /\ out = <<>>) \/ (at = Len(text) + 1 /\ out = Written(context, n))
  ELSE CopiedTo(text, at, out)

StageInv(stage, context, n, connector) ==
  /\ stage \in NumberStages /\ passes = Remaining(stage)
  /\ stage = "numbers" => digits
  /\ stage = "formulas" => formulas
  /\ text = TextAt(stage, context, n, connector)
  /\ PassSoFar(stage, context, n, connector)

ReadingInv ==
  /\ digits \in BOOLEAN /\ formulas \in BOOLEAN
  /\ \E stage, context, n, connector : Says(speech, context, n, connector) /\ StageInv(stage, context, n, connector)

LEMMA WrittenMade ==
  ASSUME NEW context \in Contexts, PatternOf(context) # "none", NEW n, Sayable(n), NEW connector \in Connectors,
         text = Base(context, n, connector), text \in Seq(Token)
  PROVE  <<>> \o Written(context, n) = Written(context, n)
<1>1. PatternOf(context) \in {"currency", "percents", "formulas"}
  BY DEF PatternOf, Contexts
<1>2. Len(text) # 0 /\ Len(text) \in Nat /\ PassAt(PatternOf(context), 1).written = Written(context, n)
  BY PatternHit
<1>3. 1 \in 1..Len(text)
  BY <1>2
<1>4. Goes(CurrencyAt(1), 1) /\ Goes(PercentsAt(1), 1) /\ Goes(FormulasAt(1), 1)
  BY <1>3, CurrencyGoes, PercentsGo, FormulasGo
<1>5. Written(context, n) \in Seq(Token)
  BY <1>1, <1>2, <1>4 DEF Goes, PassAt
<1>6. QED
  BY <1>5, ConcatEmptySeq

LEMMA PatternText ==
  ASSUME NEW context \in Contexts, NEW n, NEW connector, PatternOf(context) # "none",
         text = TextAt(PatternOf(context), context, n, connector)
  PROVE  text = Base(context, n, connector)
BY DEF TextAt, PatternOf, AsFormula, Contexts

LEMMA StageWalks ==
  ASSUME NormalizerTypeOK, NEW context \in Contexts, NEW n, Sayable(n), NEW connector \in Connectors,
         NEW stage, StageInv(stage, context, n, connector), WalkOn
  PROVE  StageInv(stage, context, n, connector)'
<1>1. /\ stage \in NumberStages /\ passes = Remaining(stage) /\ text = TextAt(stage, context, n, connector)
      /\ PassSoFar(stage, context, n, connector) /\ text \in Seq(Token) /\ at \in 1..(Len(text) + 1)
  BY DEF StageInv, NormalizerTypeOK
<1>2. /\ passes # <<>> /\ at <= Len(text)
      /\ out' = out \o PassAt(Head(passes), at).written /\ at' = PassAt(Head(passes), at).end
      /\ speech' = speech /\ digits' = digits /\ formulas' = formulas /\ passes' = passes /\ text' = text
  BY DEF WalkOn
<1>3. stage # "end" /\ Head(passes) = stage
  BY <1>1, <1>2, StagesRemain
<1>4. at \in 1..Len(text) /\ Len(text) \in Nat
  BY <1>1, <1>2, LenProperties
<1>5. PassSoFar(stage, context, n, connector)'
  <2>1. CASE stage = "numbers"
    <3>1. text = InWords(context, n, connector) /\ NumbersSoFar(context, n, connector)
      BY <1>1, <2>1 DEF TextAt, PassSoFar
    <3>2. PassAt(Head(passes), at) = NumbersAt(at)
      BY <1>3, <2>1 DEF PassAt
    <3>3. out' = out \o NumbersAt(at).written /\ at' = NumbersAt(at).end
      BY <1>2, <3>2
    <3>4. NumbersSoFar(context, n, connector)'
      BY <1>2, <3>1, <3>3, NumbersOn
    <3>5. QED
      BY <2>1, <3>4 DEF PassSoFar
  <2>2. CASE stage # "numbers" /\ stage = PatternOf(context)
    <3>1. PatternOf(context) # "none" /\ text = Base(context, n, connector)
      BY <1>1, <2>2, PatternText DEF NumberStages
    <3>2. /\ PassAt(stage, 1).written = Written(context, n) /\ PassAt(stage, 1).end = Len(text) + 1
      BY <2>2, <3>1, PatternHit
    <3>3. at = 1 /\ out = <<>>
      BY <1>1, <1>3, <1>4, <2>2 DEF PassSoFar
    <3>4. out' = <<>> \o Written(context, n) /\ at' = Len(text) + 1
      BY <1>2, <1>3, <3>2, <3>3
    <3>5. <<>> \o Written(context, n) = Written(context, n)
      BY <1>1, <3>1, WrittenMade
    <3>6. QED
      BY <1>2, <2>2, <3>4, <3>5 DEF PassSoFar
  <2>3. CASE stage \notin {"numbers", "end", PatternOf(context)}
    <3>1. CopiedTo(text, at, out)
      BY <1>1, <2>3 DEF PassSoFar
    <3>2. PassAt(stage, at) = NoMatch(at)
      BY <1>1, <1>4, <2>3, <3>1, StageCopies
    <3>3. PICK word : word = <<text[at]>>
      OBVIOUS
    <3>4. PassAt(stage, at).written = word /\ PassAt(stage, at).end = at + 1
      BY <3>2, <3>3 DEF NoMatch, Match
    <3>5. CopiedTo(text, at + 1, out \o word)
      BY <1>1, <1>2, <3>1, <3>3, CopyOn
    <3>6. out' = out \o word /\ at' = at + 1
      BY <1>2, <1>3, <3>4
    <3>7. CopiedTo(text, at, out)'
      BY <1>2, <3>5, <3>6 DEF CopiedTo
    <3>8. QED
      BY <2>3, <3>7 DEF PassSoFar
  <2>4. QED
    BY <1>3, <2>1, <2>2, <2>3
<1>6. QED
  BY <1>1, <1>2, <1>5 DEF StageInv, Remaining, TextAt, Base, AsFormula, FromTimes, AfterTimes, FromNumbers, AfterNumbers

-----------------------------------------------------------------------------
\* A pass that is through leaves the text that the next one is to find.
LEMMA StageLeaves ==
  ASSUME NormalizerTypeOK, digits \in BOOLEAN, formulas \in BOOLEAN,
         NEW context \in Contexts, NEW n, Sayable(n), NEW connector \in Connectors,
         NEW stage, StageInv(stage, context, n, connector), stage # "end", at > Len(text)
  PROVE  out = TextAt(Following(stage), context, n, connector)
<1>1. /\ stage \in NumberStages /\ text = TextAt(stage, context, n, connector)
      /\ PassSoFar(stage, context, n, connector) /\ text \in Seq(Token)
      /\ (stage = "numbers" => digits) /\ (stage = "formulas" => formulas)
  BY DEF StageInv, NormalizerTypeOK
<1>2. CASE stage = "numbers"
  <2>1. out = InDigits(context, n)
    BY <1>1, <1>2, NumbersDone DEF TextAt, PassSoFar
  <2>2. QED
    BY <1>1, <1>2, <2>1 DEF TextAt, Base, Following, AsFormula
<1>3. CASE stage # "numbers" /\ stage = PatternOf(context)
  <2>1. PatternOf(context) # "none" /\ text = Base(context, n, connector)
    BY <1>1, <1>3, PatternText DEF NumberStages
  <2>2. Len(text) \in Nat /\ Len(text) # 0
    BY <2>1, PatternHit
  <2>3. at # 1
    BY <2>2
  <2>4. out = Written(context, n)
    BY <1>1, <1>3, <2>3 DEF PassSoFar
  <2>5. PatternOf(context) \in {"currency", "percents", "formulas"}
    BY <2>1 DEF PatternOf, Contexts
  <2>6. QED
    BY <1>1, <1>3, <2>4, <2>5 DEF TextAt, Following, AsFormula, Outcome
<1>4. CASE stage \notin {"numbers", "end", PatternOf(context)}
  <2>1. out = text
    BY <1>1, <1>4, CopyDone DEF PassSoFar
  <2>2. QED
    BY <1>1, <1>4, <2>1 DEF TextAt, Following, AsFormula, Outcome, Base, NumberStages
<1>5. QED
  BY <1>2, <1>3, <1>4

LEMMA StageNext ==
  ASSUME NormalizerTypeOK, digits \in BOOLEAN, formulas \in BOOLEAN,
         NEW context \in Contexts, NEW n, Sayable(n), NEW connector \in Connectors,
         NEW stage, StageInv(stage, context, n, connector), NextPass
  PROVE  \E next : StageInv(next, context, n, connector)'
<1>1. stage \in NumberStages /\ passes = Remaining(stage) /\ out \in Seq(Token)
  BY DEF StageInv, NormalizerTypeOK
<1>2. /\ passes # <<>> /\ at > Len(text) /\ passes' = Tail(passes) /\ text' = out /\ at' = 1 /\ out' = <<>>
      /\ digits' = digits /\ formulas' = formulas
  BY DEF NextPass
<1>3. stage # "end" /\ Tail(passes) = Remaining(Following(stage)) /\ Following(stage) \in NumberStages
  BY <1>1, <1>2, StagesRemain
<1>4. PICK next : next = Following(stage)
  OBVIOUS
<1>5. text' = TextAt(next, context, n, connector)
  BY <1>2, <1>3, <1>4, StageLeaves
<1>6. (next = "numbers" => digits) /\ (next = "formulas" => formulas)
  <2>1. stage = "formulas" => formulas
    BY DEF StageInv
  <2>2. QED
    BY <1>1, <1>3, <1>4 DEF Following, NumberStages
<1>7. PassSoFar(next, context, n, connector)'
  <2>1. NumbersSoFar(context, n, connector)'
    BY <1>2 DEF NumbersSoFar
  <2>2. CopiedTo(out, 1, <<>>)
    BY <1>1, CopyBegins
  <2>3. CopiedTo(text, at, out)'
    BY <1>2, <2>2 DEF CopiedTo
  <2>4. QED
    BY <1>2, <2>1, <2>3 DEF PassSoFar
<1>8. passes' = Remaining(next)
  BY <1>2, <1>3, <1>4
<1>9. StageInv(next, context, n, connector)'
  BY <1>2, <1>3, <1>4, <1>5, <1>6, <1>7, <1>8
  DEF StageInv, Remaining, TextAt, Base, AsFormula, FromTimes, AfterTimes, FromNumbers, AfterNumbers
<1>10. QED
  BY <1>9

LEMMA StagesPass ==
  ASSUME NormalizerTypeOK, ReadingInv, [NormalizerNext]_normalizerVars
  PROVE  ReadingInv'
<1>1. digits \in BOOLEAN /\ formulas \in BOOLEAN
  BY DEF ReadingInv
<1>2. PICK stage, context, n, connector :
        Says(speech, context, n, connector) /\ StageInv(stage, context, n, connector)
  BY DEF ReadingInv
<1>3. context \in Contexts /\ Sayable(n) /\ connector \in Connectors
  BY <1>2 DEF Says
<1>4. CASE WalkOn
  <2>1. speech' = speech /\ digits' = digits /\ formulas' = formulas
    BY <1>4 DEF WalkOn
  <2>2. StageInv(stage, context, n, connector)'
    BY <1>2, <1>3, <1>4, StageWalks
  <2>3. Says(speech, context, n, connector)'
    BY <1>2, <2>1 DEF Says
  <2>4. QED
    BY <1>1, <2>1, <2>2, <2>3 DEF ReadingInv
<1>5. CASE NextPass
  <2>1. speech' = speech /\ digits' = digits /\ formulas' = formulas
    BY <1>5 DEF NextPass
  <2>2. PICK next : StageInv(next, context, n, connector)'
    BY <1>1, <1>2, <1>3, <1>5, StageNext
  <2>3. Says(speech, context, n, connector)'
    BY <1>2, <2>1 DEF Says
  <2>4. QED
    BY <1>1, <2>1, <2>2, <2>3 DEF ReadingInv
<1>6. CASE UNCHANGED normalizerVars
  <2>1. /\ speech' = speech /\ digits' = digits /\ formulas' = formulas /\ passes' = passes
        /\ text' = text /\ at' = at /\ out' = out
    BY <1>6 DEF normalizerVars
  <2>2. Says(speech, context, n, connector)'
    BY <1>2, <2>1 DEF Says
  <2>3. StageInv(stage, context, n, connector)'
    BY <1>2, <2>1 DEF StageInv, PassSoFar, NumbersSoFar, CopiedTo, Remaining, TextAt, Base, AsFormula, FromTimes,
                      AfterTimes, FromNumbers, AfterNumbers
  <2>4. QED
    BY <1>1, <2>1, <2>2, <2>3 DEF ReadingInv
<1>7. QED
  BY <1>4, <1>5, <1>6 DEF NormalizerNext

\* What is said is a number up to the billions, in one of the contexts.
NumberSpoken == \E n, connector : Sayable(n) /\ connector \in Connectors /\ speech \in SpeechesOf(n, connector)

LEMMA StagesBegin ==
  ASSUME NumberSpoken, NormalizerInit, NormalizerTypeOK
  PROVE  ReadingInv
<1>1. /\ speech \in Speeches /\ digits \in BOOLEAN /\ formulas \in BOOLEAN
      /\ passes = PassesOf(digits, formulas) /\ text = speech.said /\ at = 1 /\ out = <<>>
  BY DEF NormalizerInit
<1>2. PICK n, connector : Sayable(n) /\ connector \in Connectors /\ speech \in SpeechesOf(n, connector)
  BY DEF NumberSpoken
<1>3. PICK utterance : utterance = speech
  OBVIOUS
<1>4. PICK context : Says(utterance, context, n, connector)
  BY <1>2, <1>3, SaysOneOf
<1>5. text = InWords(context, n, connector) /\ context \in Contexts
  BY <1>1, <1>3, <1>4 DEF Says
<1>6. passes = Remaining("times")
  BY <1>1, PassesListed
<1>7. PassSoFar("times", context, n, connector)
  <2>1. CopiedTo(text, at, out)
    BY <1>1, CopyBegins DEF NormalizerTypeOK
  <2>2. PatternOf(context) # "times"
    BY <1>5 DEF PatternOf, Contexts
  <2>3. QED
    BY <2>1, <2>2 DEF PassSoFar
<1>8. StageInv("times", context, n, connector)
  BY <1>5, <1>6, <1>7 DEF StageInv, NumberStages, TextAt
<1>9. QED
  BY <1>1, <1>3, <1>4, <1>8 DEF ReadingInv

LEMMA StagesEnd ==
  ASSUME ReadingInv
  PROVE  WrittenAsMeant
<1>1. digits \in BOOLEAN /\ formulas \in BOOLEAN
  BY DEF ReadingInv
<1>2. PICK stage, context, n, connector :
        Says(speech, context, n, connector) /\ StageInv(stage, context, n, connector)
  BY DEF ReadingInv
<1>3. SUFFICES ASSUME passes = <<>> PROVE text \in speech.meant[<<digits, formulas>>]
  BY DEF WrittenAsMeant
<1>4. stage = "end"
  BY <1>2, <1>3, StagesRemain DEF StageInv
<1>5. text = Outcome(context, n, connector, digits, formulas)
  BY <1>2, <1>4 DEF StageInv, TextAt
<1>6. speech.meant[<<digits, formulas>>] = {Outcome(context, n, connector, digits, formulas)}
  BY <1>1, <1>2 DEF Says
<1>7. QED
  BY <1>5, <1>6

\* normalize/mod.rs, apply: whatever number up to the billions is said, with or without
\* an and, alone or as an amount, a share, a fraction, a power, a decimal or a product,
\* the passes together write what was meant.
THEOREM NumbersAsMeant == NormalizerSpec => [](NumberSpoken => WrittenAsMeant)
<1>1. NormalizerInit => NormalizerTypeOK
  BY NormalizerStarts
<1>2. NormalizerTypeOK /\ [NormalizerNext]_normalizerVars => NormalizerTypeOK'
  BY NormalizerSteps
<1>3. NormalizerInit => (NumberSpoken => ReadingInv)
  BY <1>1, StagesBegin
<1>4. NormalizerTypeOK /\ (NumberSpoken => ReadingInv) /\ [NormalizerNext]_normalizerVars => (NumberSpoken => ReadingInv)'
  <2>1. [NormalizerNext]_normalizerVars => (NumberSpoken' => NumberSpoken)
    BY DEF NormalizerNext, WalkOn, NextPass, normalizerVars, NumberSpoken
  <2>2. QED
    BY <2>1, StagesPass
<1>5. (NumberSpoken => ReadingInv) => (NumberSpoken => WrittenAsMeant)
  BY StagesEnd
<1>6. QED
  BY <1>1, <1>2, <1>3, <1>4, <1>5, PTL DEF NormalizerSpec
=============================================================================
