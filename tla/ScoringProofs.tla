---------------------------- MODULE ScoringProofs ----------------------------
(* Proofs about the scores of candidates and the ranking of roles by them.    *)
(* JobMatcher: any finite set of skills, any integer weights, any number of   *)
(* lines.  RoleRanking: any finite set of profiles, any titles, any integer   *)
(* scores, any order of the directory and of equal scores.                    *)
EXTENDS RoleRanking, JobMatcher, FiniteSetTheorems, FunctionTheorems,
        WellFoundedInduction, TLAPS

----------------------------------------------------------------------------
(* Finite sets.                                                              *)

\* What fails for some subset of a finite set fails for a smallest one.
LEMMA SmallestSet ==
    ASSUME NEW S, IsFiniteSet(S), NEW B, B \subseteq SUBSET S, B # {}
    PROVE  \E m \in B : \A t \in SUBSET m : t # m => t \notin B
<1>1. B \subseteq FiniteSubsetsOf(S)
  BY FS_Subset DEF FiniteSubsetsOf
<1>2. IsWellFoundedOn(StrictSubsetOrdering(S), FiniteSubsetsOf(S))
  BY FS_StrictSubsetOrderingWellFounded
<1>3. PICK m \in B : \A t \in B : ~(<<t, m>> \in StrictSubsetOrdering(S))
  BY <1>1, <1>2, WFMin, Zenon
<1>4. ASSUME NEW t \in SUBSET m, t # m, t \in B PROVE FALSE
  <2>1. <<t, m>> \in StrictSubsetOrdering(S)
    BY <1>4 DEF StrictSubsetOrdering
  <2> QED BY <1>3, <1>4, <2>1
<1> QED BY <1>3, <1>4

----------------------------------------------------------------------------
(* The sum of MapThenSumSet.                                                 *)

Chosen(s) == CHOOSE x \in s : TRUE

\* g adds up w over every set of D.
Adds(g, D, w) ==
    g = [s \in D |-> IF s = {} THEN 0 ELSE w[Chosen(s)] + g[s \ {Chosen(s)}]]

Adder(S, w) == CHOOSE g : Adds(g, SUBSET S, w)

Sum(S, w) == Adder(S, w)[S]

LEMMA WeightOfIsSum == \A S, j : WeightOf(S, j) = Sum(S, j.required)
BY DEF WeightOf, MapThenSumSet, MapThenFoldSet, Sum, Adder, Adds, Chosen

LEMMA ChosenIn == \A s : s # {} => Chosen(s) \in s
BY DEF Chosen

\* Two that add up over the same sets agree.
LEMMA AddsSame ==
    ASSUME NEW S, IsFiniteSet(S), NEW T \in SUBSET S, NEW w, NEW g, NEW h,
           Adds(g, SUBSET S, w), Adds(h, SUBSET T, w)
    PROVE  g[T] = h[T]
<1> DEFINE Bad == {t \in SUBSET T : g[t] # h[t]}
<1>1. SUFFICES ASSUME Bad # {} PROVE FALSE
  OBVIOUS
<1>2. IsFiniteSet(T) /\ Bad \subseteq SUBSET T
  BY FS_Subset
<1> HIDE DEF Bad
<1>3. PICK m \in Bad : \A t \in SUBSET m : t # m => t \notin Bad
  BY <1>1, <1>2, SmallestSet, Zenon
<1>4. m \in SUBSET T /\ m \in SUBSET S /\ g[m] # h[m]
  BY <1>3 DEF Bad
<1>5. g[m] = IF m = {} THEN 0 ELSE w[Chosen(m)] + g[m \ {Chosen(m)}]
  BY <1>4 DEF Adds
<1>6. h[m] = IF m = {} THEN 0 ELSE w[Chosen(m)] + h[m \ {Chosen(m)}]
  BY <1>4 DEF Adds
<1>7. m # {}
  BY <1>4, <1>5, <1>6
<1>8. m \ {Chosen(m)} \in SUBSET m /\ m \ {Chosen(m)} # m
  BY <1>7, ChosenIn
<1>9. g[m \ {Chosen(m)}] = h[m \ {Chosen(m)}]
  BY <1>3, <1>4, <1>8 DEF Bad
<1> QED BY <1>4, <1>5, <1>6, <1>9

LEMMA AdderSame ==
    ASSUME NEW S, IsFiniteSet(S), NEW T \in SUBSET S, NEW w,
           Adds(Adder(S, w), SUBSET S, w), Adds(Adder(T, w), SUBSET T, w)
    PROVE  Adder(S, w)[T] = Adder(T, w)[T]
<1>1. PICK g : g = Adder(S, w)
  OBVIOUS
<1>2. PICK h : h = Adder(T, w)
  OBVIOUS
<1>3. Adds(g, SUBSET S, w) /\ Adds(h, SUBSET T, w)
  BY <1>1, <1>2
<1>4. g[T] = h[T]
  BY <1>3, AddsSame
<1> QED BY <1>1, <1>2, <1>4

\* One exists: over a smallest set without one, glue those of its subsets.
LEMMA AdderAdds ==
    ASSUME NEW S, IsFiniteSet(S), NEW w
    PROVE  Adds(Adder(S, w), SUBSET S, w)
<1> DEFINE Bad == {s \in SUBSET S : ~ \E g : Adds(g, SUBSET s, w)}
<1>0. Bad \subseteq SUBSET S
  OBVIOUS
<1>1. SUFFICES ASSUME Bad # {} PROVE FALSE
  <2>1. \E g : Adds(g, SUBSET S, w)
    BY <1>1
  <2> QED BY <2>1 DEF Adder
<1> HIDE DEF Bad
<1>2. PICK m \in Bad : \A t \in SUBSET m : t # m => t \notin Bad
  BY <1>1, <1>0, SmallestSet, Zenon
<1>3. m \subseteq S /\ \A t \in SUBSET m : t # m => \E g : Adds(g, SUBSET t, w)
  BY <1>2 DEF Bad
<1>4. \A t \in SUBSET m : t # m => Adds(Adder(t, w), SUBSET t, w) /\ IsFiniteSet(t)
  BY <1>3, FS_Subset DEF Adder
<1> DEFINE Less(s) == s \ {Chosen(s)}
           h == [s \in SUBSET m |->
                    IF s = {} THEN 0 ELSE w[Chosen(s)] + Adder(Less(s), w)[Less(s)]]
<1>5. \A s \in SUBSET m : s # {} => Less(s) \in SUBSET m /\ Less(s) # m
  BY ChosenIn
<1>6. ASSUME NEW u \in SUBSET m, u # m PROVE h[u] = Adder(u, w)[u]
  <2>1. Adder(u, w)[u] = IF u = {} THEN 0 ELSE w[Chosen(u)] + Adder(u, w)[Less(u)]
    BY <1>4, <1>6 DEF Adds
  <2>2. ASSUME u # {} PROVE Adder(u, w)[Less(u)] = Adder(Less(u), w)[Less(u)]
    <3>1. PICK v : v = Less(u)
      OBVIOUS
    <3>2. v \in SUBSET u /\ v # m /\ v \in SUBSET m
      BY <1>5, <2>2, <3>1
    <3>3. /\ Adds(Adder(u, w), SUBSET u, w) /\ Adds(Adder(v, w), SUBSET v, w)
          /\ IsFiniteSet(u)
      BY <1>4, <1>6, <3>2
    <3> HIDE DEF h, Less
    <3>4. Adder(u, w)[v] = Adder(v, w)[v]
      BY <3>2, <3>3, AdderSame
    <3> QED BY <3>1, <3>4
  <2> QED BY <2>1, <2>2
<1>7. Adds(h, SUBSET m, w)
  <2>1. \A s \in SUBSET m : s # {} => h[Less(s)] = Adder(Less(s), w)[Less(s)]
    BY <1>5, <1>6
  <2>2. \A s \in SUBSET m : h[s] = IF s = {} THEN 0 ELSE w[Chosen(s)] + h[Less(s)]
    BY <2>1
  <2> QED BY <2>2 DEF Adds
<1> QED BY <1>2, <1>7 DEF Bad

LEMMA SumEmpty == ASSUME NEW w PROVE Sum({}, w) = 0
<1>1. Adds(Adder({}, w), SUBSET {}, w)
  BY AdderAdds, FS_EmptySet
<1> QED BY <1>1 DEF Sum, Adds

LEMMA SumChosen ==
    ASSUME NEW S, IsFiniteSet(S), NEW w, S # {}
    PROVE  Sum(S, w) = w[Chosen(S)] + Sum(S \ {Chosen(S)}, w)
<1>1. PICK T : T = S \ {Chosen(S)}
  OBVIOUS
<1>2. T \in SUBSET S /\ IsFiniteSet(T)
  BY <1>1, FS_Subset
<1>3. Adds(Adder(S, w), SUBSET S, w) /\ Adds(Adder(T, w), SUBSET T, w)
  BY <1>2, AdderAdds
<1>4. Adder(S, w)[T] = Adder(T, w)[T]
  BY <1>2, <1>3, AdderSame
<1>5. Adder(S, w)[S] = w[Chosen(S)] + Adder(S, w)[T]
  BY <1>1, <1>3 DEF Adds
<1> QED BY <1>1, <1>4, <1>5 DEF Sum

\* A sum of integers is one.
LEMMA SumType ==
    ASSUME NEW S, IsFiniteSet(S), NEW w, \A s \in S : w[s] \in Int
    PROVE  Sum(S, w) \in Int
<1> DEFINE Bad == {t \in SUBSET S : Sum(t, w) \notin Int}
<1>0. Bad \subseteq SUBSET S
  OBVIOUS
<1>1. SUFFICES ASSUME Bad # {} PROVE FALSE
  OBVIOUS
<1> HIDE DEF Bad
<1>2. PICK m \in Bad : \A t \in SUBSET m : t # m => t \notin Bad
  BY <1>1, <1>0, SmallestSet, Zenon
<1>3. m # {}
  <2>1. Sum({}, w) = 0
    BY SumEmpty
  <2>2. {} \notin Bad
    BY <2>1 DEF Bad
  <2> QED BY <2>2
<1>4. Chosen(m) \in m /\ IsFiniteSet(m)
  BY <1>2, <1>3, ChosenIn, FS_Subset DEF Bad
<1>5. Sum(m \ {Chosen(m)}, w) \in Int /\ w[Chosen(m)] \in Int
  BY <1>2, <1>4 DEF Bad
<1>6. Sum(m, w) = w[Chosen(m)] + Sum(m \ {Chosen(m)}, w)
  BY <1>3, <1>4, SumChosen
<1> QED BY <1>2, <1>5, <1>6 DEF Bad

\* Any element may be added first.
LEMMA SumOneMore ==
    ASSUME NEW S, IsFiniteSet(S), NEW w, \A s \in S : w[s] \in Int, NEW x \in S
    PROVE  Sum(S, w) = w[x] + Sum(S \ {x}, w)
<1> DEFINE Bad == {t \in SUBSET S : \E y \in t : Sum(t, w) # w[y] + Sum(t \ {y}, w)}
<1>0. Bad \subseteq SUBSET S
  OBVIOUS
<1>1. SUFFICES ASSUME Bad # {} PROVE FALSE
  OBVIOUS
<1> HIDE DEF Bad
<1>2. PICK m \in Bad : \A t \in SUBSET m : t # m => t \notin Bad
  BY <1>1, <1>0, SmallestSet, Zenon
<1>3. PICK y \in m : Sum(m, w) # w[y] + Sum(m \ {y}, w)
  BY <1>2 DEF Bad
<1>4. PICK c : c = Chosen(m)
  OBVIOUS
<1>5. m \subseteq S /\ IsFiniteSet(m) /\ c \in m /\ Sum(m, w) = w[c] + Sum(m \ {c}, w)
  <2>1. m \subseteq S /\ IsFiniteSet(m) /\ c \in m
    BY <1>2, <1>3, <1>4, ChosenIn, FS_Subset DEF Bad
  <2> QED BY <2>1, <1>4, SumChosen
<1>6. c # y
  BY <1>3, <1>5
<1>7. /\ Sum(m \ {c}, w) = w[y] + Sum((m \ {c}) \ {y}, w)
      /\ Sum(m \ {y}, w) = w[c] + Sum((m \ {y}) \ {c}, w)
  <2>1. m \ {c} \notin Bad /\ m \ {y} \notin Bad
    BY <1>2, <1>5
  <2>2. m \ {c} \in SUBSET S /\ y \in m \ {c} /\ m \ {y} \in SUBSET S /\ c \in m \ {y}
    BY <1>5, <1>6
  <2> QED BY <2>1, <2>2 DEF Bad
<1>8. Sum((m \ {c}) \ {y}, w) = Sum((m \ {y}) \ {c}, w)
  <2>1. (m \ {c}) \ {y} = (m \ {y}) \ {c}
    OBVIOUS
  <2> QED BY <2>1
<1>9. w[c] \in Int /\ w[y] \in Int /\ Sum((m \ {c}) \ {y}, w) \in Int
  <2>1. IsFiniteSet((m \ {c}) \ {y})
    BY <1>5, FS_Subset
  <2> QED BY <1>5, <2>1, SumType
<1> QED BY <1>3, <1>5, <1>7, <1>8, <1>9

\* Weights that are not negative add up to more over more skills.
LEMMA SumGrows ==
    ASSUME NEW S, IsFiniteSet(S), NEW w, \A s \in S : w[s] \in Int /\ w[s] >= 0,
           NEW T \in SUBSET S
    PROVE  0 <= Sum(T, w) /\ Sum(T, w) <= Sum(S, w)
<1>1. ASSUME NEW U \in SUBSET S PROVE 0 <= Sum(U, w)
  <2> DEFINE Bad == {t \in SUBSET S : ~(0 <= Sum(t, w))}
  <2>0. Bad \subseteq SUBSET S
    OBVIOUS
  <2>1. SUFFICES ASSUME Bad # {} PROVE FALSE
    OBVIOUS
  <2> HIDE DEF Bad
  <2>2. PICK m \in Bad : \A t \in SUBSET m : t # m => t \notin Bad
    BY <2>1, <2>0, SmallestSet, Zenon
  <2>3. m # {} /\ IsFiniteSet(m)
    <3>1. Sum({}, w) = 0
      BY SumEmpty
    <3>2. {} \notin Bad
      BY <3>1 DEF Bad
    <3>3. m \in SUBSET S
      BY DEF Bad
    <3> QED BY <3>2, <3>3, FS_Subset
  <2>4. PICK c \in m : TRUE
    BY <2>3
  <2>5. Sum(m, w) = w[c] + Sum(m \ {c}, w) /\ w[c] \in Int /\ w[c] >= 0
    BY <2>2, <2>3, SumOneMore DEF Bad
  <2>6. 0 <= Sum(m \ {c}, w) /\ Sum(m \ {c}, w) \in Int
    <3>1. m \ {c} \in SUBSET m /\ m \ {c} # m /\ m \ {c} \in SUBSET S
      BY <2>2 DEF Bad
    <3>2. m \ {c} \notin Bad /\ IsFiniteSet(m \ {c})
      BY <2>2, <3>1, FS_Subset
    <3> QED BY <3>1, <3>2, SumType DEF Bad
  <2> QED BY <2>2, <2>5, <2>6 DEF Bad
<1>2. Sum(T, w) <= Sum(S, w)
  <2> DEFINE Bad == {t \in SUBSET S : T \subseteq t /\ ~(Sum(T, w) <= Sum(t, w))}
  <2>0. Bad \subseteq SUBSET S
    OBVIOUS
  <2>1. SUFFICES ASSUME Bad # {} PROVE FALSE
    OBVIOUS
  <2> HIDE DEF Bad
  <2>2. PICK m \in Bad : \A t \in SUBSET m : t # m => t \notin Bad
    BY <2>1, <2>0, SmallestSet, Zenon
  <2>3. Sum(T, w) \in Int /\ Sum(m, w) \in Int /\ IsFiniteSet(m)
    BY <2>2, SumType, FS_Subset DEF Bad
  <2>4. PICK c \in m : c \notin T
    <3>1. T \subseteq m /\ ~(Sum(T, w) <= Sum(m, w))
      BY <2>2 DEF Bad
    <3>2. T # m
      BY <2>3, <3>1
    <3> QED BY <3>1, <3>2
  <2>5. Sum(m, w) = w[c] + Sum(m \ {c}, w) /\ w[c] \in Int /\ w[c] >= 0
    BY <2>2, <2>3, SumOneMore DEF Bad
  <2>6. Sum(T, w) <= Sum(m \ {c}, w) /\ Sum(m \ {c}, w) \in Int
    <3>1. /\ m \ {c} \in SUBSET m /\ m \ {c} # m /\ m \ {c} \in SUBSET S
          /\ T \subseteq m \ {c}
      BY <2>2, <2>4 DEF Bad
    <3>2. m \ {c} \notin Bad /\ IsFiniteSet(m \ {c})
      BY <2>2, <3>1, FS_Subset
    <3> QED BY <3>1, <3>2, SumType DEF Bad
  <2> QED BY <2>2, <2>3, <2>5, <2>6 DEF Bad
<1> QED BY <1>1, <1>2

----------------------------------------------------------------------------
(* Rounding.                                                                 *)

LEMMA Division ==
    ASSUME NEW a \in Int, NEW b \in Int, b > 0
    PROVE  a \div b \in Int /\ b * (a \div b) <= a /\ a < b * (a \div b) + b
OBVIOUS

LEMMA Quotients ==
    ASSUME NEW b \in Int, b > 0, NEW p \in Int, NEW q \in Int, b * p < b * q + b
    PROVE  p <= q
<1> SUFFICES ASSUME p >= q + 1 PROVE FALSE
  OBVIOUS
<1>1. b * p >= b * (q + 1)
  OBVIOUS
<1>2. b * (q + 1) = b * q + b
  OBVIOUS
<1> QED BY <1>1, <1>2

LEMMA RoundedType ==
    ASSUME NEW a \in Int, NEW b \in Int, b > 0
    PROVE  Rounded(a, b) \in Int
<1>1. 2 * b \in Int /\ 2 * b > 0 /\ 2 * a + b \in Int /\ b - 2 * a \in Int
  OBVIOUS
<1>2. (2 * a + b) \div (2 * b) \in Int /\ (b - 2 * a) \div (2 * b) \in Int
  BY <1>1, Division
<1> QED BY <1>2 DEF Rounded

\* A larger numerator gives no smaller quotient.
LEMMA RoundedRises ==
    ASSUME NEW a \in Int, NEW c \in Int, NEW b \in Int, b > 0, 0 <= a, a <= c
    PROVE  0 <= Rounded(a, b) /\ Rounded(a, b) <= Rounded(c, b)
<1> DEFINE d == 2 * b
           p == (2 * a + b) \div d
           q == (2 * c + b) \div d
<1>1. d \in Int /\ d > 0 /\ 2 * a + b \in Int /\ 2 * c + b \in Int
  OBVIOUS
<1>2. p \in Int /\ d * p <= 2 * a + b /\ 2 * a + b < d * p + d
  BY <1>1, Division
<1>3. q \in Int /\ d * q <= 2 * c + b /\ 2 * c + b < d * q + d
  BY <1>1, Division
<1>4. Rounded(a, b) = p /\ Rounded(c, b) = q
  BY DEF Rounded
<1> HIDE DEF d, p, q
<1>5. d * p < d * q + d /\ d * 0 < d * p + d
  BY <1>1, <1>2, <1>3
<1>6. p <= q /\ 0 <= p
  BY <1>1, <1>2, <1>3, <1>5, Quotients
<1> QED BY <1>4, <1>6

\* So it is for numerators of either sign.
LEMMA RoundedNeverFalls ==
    ASSUME NEW a \in Int, NEW c \in Int, NEW b \in Int, b > 0, a <= c
    PROVE  Rounded(a, b) <= Rounded(c, b)
<1>1. CASE 0 <= a
  BY <1>1, RoundedRises
<1>2. CASE a < 0
  <2> DEFINE d == 2 * b
             p == (b - 2 * a) \div d
             q == (b - 2 * c) \div d
  <2>1. d \in Int /\ d > 0 /\ b - 2 * a \in Int /\ b - 2 * c \in Int
    OBVIOUS
  <2>2. p \in Int /\ d * p <= b - 2 * a /\ b - 2 * a < d * p + d
    BY <2>1, Division
  <2>3. q \in Int /\ d * q <= b - 2 * c /\ b - 2 * c < d * q + d
    BY <2>1, Division
  <2>4. Rounded(a, b) = -p /\ (c < 0 => Rounded(c, b) = -q)
    BY <1>2 DEF Rounded
  <2>5. 0 <= c => 0 <= Rounded(c, b) /\ Rounded(c, b) \in Int
    BY RoundedRises, RoundedType
  <2> HIDE DEF d, p, q
  <2>6. d * 0 < d * p + d /\ d * q < d * p + d
    BY <1>2, <2>1, <2>2, <2>3
  <2>7. 0 <= p /\ q <= p
    BY <2>1, <2>2, <2>3, <2>6, Quotients
  <2> QED BY <2>2, <2>3, <2>4, <2>5, <2>7
<1> QED BY <1>1, <1>2

LEMMA RoundedFull ==
    ASSUME NEW b \in Int, b > 0
    PROVE  Rounded(b * 10000, b) = 10000
<1> DEFINE d == 2 * b
           e == 2 * (b * 10000) + b
           q == e \div d
<1>1. d \in Int /\ d > 0 /\ e \in Int /\ e = d * 10000 + b /\ b < d
  OBVIOUS
<1>2. q \in Int /\ d * q <= e /\ e < d * q + d
  BY <1>1, Division
<1>3. Rounded(b * 10000, b) = q
  BY DEF Rounded
<1> HIDE DEF d, e, q
<1>4. d * q < d * 10000 + d /\ d * 10000 < d * q + d
  BY <1>1, <1>2
<1>5. q <= 10000 /\ 10000 <= q
  BY <1>1, <1>2, <1>4, Quotients
<1> QED BY <1>2, <1>3, <1>5

----------------------------------------------------------------------------
(* Sorted lists.                                                             *)

\* A list of a finite set has each of its elements once.
LEMMA ListOfSet ==
    ASSUME NEW S, IsFiniteSet(S), NEW q \in SetToSeqs(S)
    PROVE  /\ q \in Seq(S)
           /\ Len(q) = Cardinality(S) /\ Cardinality(S) \in Nat
           /\ DOMAIN q = 1..Len(q)
           /\ \A i, j \in DOMAIN q : q[i] = q[j] => i = j
           /\ \A x \in S : \E i \in DOMAIN q : q[i] = x
<1> DEFINE D == 1..Cardinality(S)
<1>0. Cardinality(S) \in Nat
  BY FS_CardinalityType
<1>1. q \in [D -> S] /\ \A i, j \in D : i # j => q[i] # q[j]
  BY DEF SetToSeqs
<1>2. q \in Seq(S) /\ Len(q) = Cardinality(S) /\ DOMAIN q = D
  BY <1>0, <1>1
<1>3. q \in Injection(D, S)
  BY <1>1, Fun_IsInj
<1>4. IsFiniteSet(D) /\ Cardinality(D) = Cardinality(S)
  BY <1>0, FS_Interval
<1>5. q \in Surjection(D, S)
  BY <1>3, <1>4, FS_Injection
<1>6. \A x \in S : \E i \in D : q[i] = x
  <2> HIDE DEF D
  <2> QED BY <1>5, Fun_SurjectionProperties
<1> HIDE DEF D
<1>7. DOMAIN q = 1..Len(q)
  BY <1>2 DEF D
<1>8. \A i, j \in D : q[i] = q[j] => i = j
  BY <1>1
<1> QED BY <1>0, <1>2, <1>6, <1>7, <1>8

\* Of the pairs of a finite set one has the least weight.
LEMMA Lightest ==
    ASSUME NEW S, IsFiniteSet(S), \A x \in S : x[2] \in Int, S # {}
    PROVE  \E x \in S : \A y \in S : x[2] <= y[2]
<1> DEFINE Bad == {t \in SUBSET S : t # {} /\ ~ \E x \in t : \A y \in t : x[2] <= y[2]}
<1>0. Bad \subseteq SUBSET S
  OBVIOUS
<1>1. SUFFICES ASSUME Bad # {} PROVE FALSE
  OBVIOUS
<1> HIDE DEF Bad
<1>2. PICK m \in Bad : \A t \in SUBSET m : t # m => t \notin Bad
  BY <1>1, <1>0, SmallestSet, Zenon
<1>3. m \subseteq S /\ m # {} /\ ~ \E x \in m : \A y \in m : x[2] <= y[2]
  BY <1>2 DEF Bad
<1>4. PICK c \in m : TRUE
  BY <1>3
<1>5. m \ {c} # {}
  BY <1>3, <1>4
<1>6. m \ {c} \in SUBSET S /\ m \ {c} \notin Bad
  BY <1>2, <1>3, <1>4
<1>7. PICK x \in m \ {c} : \A y \in m \ {c} : x[2] <= y[2]
  BY <1>5, <1>6 DEF Bad
<1>8. c[2] \in Int /\ \A y \in m : y[2] \in Int
  BY <1>3, <1>4
<1>9. CASE x[2] <= c[2]
  BY <1>3, <1>7, <1>9
<1>10. CASE ~(x[2] <= c[2])
  BY <1>3, <1>4, <1>7, <1>8, <1>10
<1> QED BY <1>9, <1>10

Falling(q) == \A i, k \in DOMAIN q : i < k => q[i][2] >= q[k][2]

\* The pairs of a finite set can be listed by falling weight.
LEMMA FallingList ==
    ASSUME NEW S, IsFiniteSet(S), \A x \in S : x[2] \in Int
    PROVE  \E q \in SetToSeqs(S) : Falling(q)
<1> DEFINE Bad == {t \in SUBSET S : ~ \E q \in SetToSeqs(t) : Falling(q)}
<1>0. Bad \subseteq SUBSET S
  OBVIOUS
<1>1. SUFFICES ASSUME Bad # {} PROVE FALSE
  OBVIOUS
<1> HIDE DEF Bad
<1>2. PICK m \in Bad : \A t \in SUBSET m : t # m => t \notin Bad
  BY <1>1, <1>0, SmallestSet, Zenon
<1>3. m \subseteq S /\ IsFiniteSet(m) /\ ~ \E q \in SetToSeqs(m) : Falling(q)
  BY <1>2, FS_Subset DEF Bad
<1>4. m # {}
  <2> SUFFICES ASSUME m = {} PROVE FALSE
    OBVIOUS
  <2>1. Cardinality({}) = 0
    BY FS_EmptySet
  <2>2. <<>> \in SetToSeqs({})
    BY <2>1 DEF SetToSeqs
  <2>3. Falling(<<>>)
    BY DEF Falling
  <2> QED BY <1>3, <2>2, <2>3
<1>5. PICK x \in m : \A y \in m : x[2] <= y[2]
  BY <1>3, <1>4, Lightest
<1>6. PICK t : t = m \ {x}
  OBVIOUS
<1>7. t \in SUBSET S /\ t \notin Bad /\ IsFiniteSet(t) /\ t \subseteq m
  BY <1>2, <1>3, <1>5, <1>6, FS_Subset
<1>8. PICK q \in SetToSeqs(t) : Falling(q)
  BY <1>7 DEF Bad
<1>9. PICK n \in Nat : Cardinality(t) = n /\ Cardinality(m) = n + 1
  BY <1>3, <1>5, <1>6, <1>7, FS_CardinalityType, FS_RemoveElement
<1>10. q \in [1..n -> t] /\ \A i, j \in 1..n : i # j => q[i] # q[j]
  BY <1>9 DEF SetToSeqs
<1> DEFINE e == [i \in 1..(n + 1) |-> IF i = n + 1 THEN x ELSE q[i]]
<1>11. e \in SetToSeqs(m)
  <2>1. \A i \in 1..(n + 1) : i # n + 1 => i \in 1..n
    OBVIOUS
  <2>2. e \in [1..(n + 1) -> m]
    BY <1>5, <1>7, <1>10, <2>1
  <2>3. \A i, j \in 1..(n + 1) : i # j => e[i] # e[j]
    <3> SUFFICES ASSUME NEW i \in 1..(n + 1), NEW j \in 1..(n + 1), i # j
                 PROVE  e[i] # e[j]
      OBVIOUS
    <3>1. CASE i = n + 1
      BY <1>6, <1>10, <2>1, <3>1
    <3>2. CASE j = n + 1
      BY <1>6, <1>10, <2>1, <3>2
    <3>3. CASE i # n + 1 /\ j # n + 1
      BY <1>10, <2>1, <3>3
    <3> QED BY <3>1, <3>2, <3>3
  <2> QED BY <1>9, <2>2, <2>3 DEF SetToSeqs
<1>12. Falling(e)
  <2> SUFFICES ASSUME NEW i \in 1..(n + 1), NEW k \in 1..(n + 1), i < k
               PROVE  e[i][2] >= e[k][2]
    BY DEF Falling
  <2>1. i \in 1..n /\ e[i] = q[i] /\ q[i] \in m
    BY <1>7, <1>10
  <2>2. CASE k = n + 1
    BY <1>3, <1>5, <2>1, <2>2
  <2>3. CASE k # n + 1
    BY <1>8, <1>10, <2>1, <2>3 DEF Falling
  <2> QED BY <2>2, <2>3
<1> QED BY <1>3, <1>11, <1>12

----------------------------------------------------------------------------
(* The invariant: a resume and a job of known skills.                        *)

MatchInv ==
    /\ skills \subseteq Skills /\ mandatory \subseteq Skills
    /\ education \in Nat /\ certifications \in Nat
    /\ projects \in Seq(SUBSET Skills)
    /\ required \in [DOMAIN required -> Weights] /\ DOMAIN required \subseteq Skills

LEMMA InitMatch == MatchInit => MatchInv
<1> SUFFICES ASSUME MatchInit PROVE MatchInv
  OBVIOUS
<1>1. skills = {} /\ education = 0 /\ certifications = 0 /\ mandatory = {}
  BY DEF MatchInit
<1>2. projects \in Seq(SUBSET Skills)
  BY DEF MatchInit
<1>3. required \in [DOMAIN required -> Weights] /\ DOMAIN required = {}
  BY DEF MatchInit
<1> QED BY <1>1, <1>2, <1>3 DEF MatchInv

LEMMA StepMatch == MatchInv /\ [MatchNext]_match => MatchInv'
<1> SUFFICES ASSUME MatchInv, [MatchNext]_match PROVE MatchInv'
  OBVIOUS
<1> USE DEF MatchInv
<1>1. ASSUME NEW s \in Skills, AddSkill(s) PROVE MatchInv'
  BY <1>1 DEF AddSkill
<1>2. CASE AddEducation
  BY <1>2 DEF AddEducation
<1>3. ASSUME NEW m \in SUBSET Skills, AddProject(m) PROVE MatchInv'
  BY <1>3 DEF AddProject
<1>4. CASE AddCertification
  BY <1>4 DEF AddCertification
<1>5. ASSUME NEW s \in Skills, AddMandatorySkills(s) PROVE MatchInv'
  BY <1>5 DEF AddMandatorySkills
<1>6. ASSUME NEW s \in Skills, NEW w \in Weights, AddRequiredSkills(s, w)
      PROVE  MatchInv'
  BY <1>6 DEF AddRequiredSkills
<1>7. CASE UNCHANGED match
  BY <1>7 DEF match
<1> QED BY <1>1, <1>2, <1>3, <1>4, <1>5, <1>6, <1>7
        DEF MatchNext, ImproveResume, ExtendJob

LEMMA MatchCorrect == MatchSpec => []MatchInv
  BY InitMatch, StepMatch, PTL DEF MatchSpec

----------------------------------------------------------------------------
(* Scores.                                                                   *)

\* The arguments evaluateCandidate gets.
IsResume(r) ==
    /\ r.skills \subseteq Skills
    /\ r.education \in Nat /\ r.certifications \in Nat
    /\ r.projects \in Seq(SUBSET Skills)

IsJob(j) ==
    /\ j.mandatory \subseteq Skills
    /\ DOMAIN j.required \subseteq Skills
    /\ \A s \in DOMAIN j.required : j.required[s] \in Weights

NotNegative(j) == \A s \in DOMAIN j.required : j.required[s] >= 0

LEMMA Arguments == MatchInv => IsResume(resumeSoFar) /\ IsJob(jobSoFar)
  BY DEF MatchInv, IsResume, IsJob, resumeSoFar, jobSoFar

LEMMA JobTypes ==
    ASSUME NEW j, IsJob(j)
    PROVE  /\ IsFiniteSet(DOMAIN j.required)
           /\ \A s \in DOMAIN j.required : j.required[s] \in Int
  BY MatchAssumption, FS_Subset DEF IsJob

LEMMA ProjectTypes ==
    ASSUME NEW r, IsResume(r), NEW j
    PROVE  /\ IsFiniteSet(RelevantProjects(r, j))
           /\ Cardinality(RelevantProjects(r, j)) \in Nat
<1>1. PICK n \in Nat : DOMAIN r.projects = 1..n
  BY DEF IsResume
<1>2. IsFiniteSet(DOMAIN r.projects)
  <2>1. IsFiniteSet(1..n)
    BY FS_Interval
  <2> QED BY <1>1, <2>1
<1>3. RelevantProjects(r, j) \subseteq DOMAIN r.projects
  BY DEF RelevantProjects
<1> QED BY <1>2, <1>3, FS_Subset, FS_CardinalityType

LEMMA ScoreTypes ==
    ASSUME NEW r, IsResume(r), NEW j, IsJob(j)
    PROVE  /\ WeightOf(Matched(r, j), j) \in Int
           /\ WeightOf(DOMAIN j.required, j) \in Int
           /\ Cardinality(DOMAIN j.required) \in Nat
           /\ RawScore(r, j) \in Int /\ MaxScore(r, j) \in Int
<1>1. Matched(r, j) \subseteq DOMAIN j.required /\ IsFiniteSet(DOMAIN j.required)
  BY JobTypes DEF Matched
<1>2. IsFiniteSet(Matched(r, j)) /\ Cardinality(DOMAIN j.required) \in Nat
  BY <1>1, FS_Subset, FS_CardinalityType
<1>3. \A s \in DOMAIN j.required : j.required[s] \in Int
  BY JobTypes
<1>4. \A s \in Matched(r, j) : j.required[s] \in Int
  BY <1>1, <1>3
<1>5. Sum(Matched(r, j), j.required) \in Int
  BY <1>2, <1>4, SumType
<1>6. Sum(DOMAIN j.required, j.required) \in Int
  BY <1>1, <1>3, SumType
<1>7. /\ WeightOf(Matched(r, j), j) \in Int
      /\ WeightOf(DOMAIN j.required, j) \in Int
  BY <1>5, <1>6, WeightOfIsSum
<1>8. Cardinality(RelevantProjects(r, j)) \in Nat /\ r.certifications \in Nat
  BY ProjectTypes DEF IsResume
<1> QED BY <1>2, <1>7, <1>8 DEF RawScore, MaxScore

LEMMA PercentageType ==
    ASSUME NEW r, IsResume(r), NEW j, IsJob(j)
    PROVE  EvaluateCandidate(r, j).percentage \in Int
<1>1. RawScore(r, j) * 10000 \in Int /\ MaxScore(r, j) \in Int
  BY ScoreTypes
<1>2. MaxScore(r, j) > 0 => Rounded(RawScore(r, j) * 10000, MaxScore(r, j)) \in Int
  BY <1>1, RoundedType
<1> QED BY <1>2 DEF EvaluateCandidate, Rejected

\* The two arguments and the result keep their types.
THEOREM MatchTypes == MatchSpec => []MatchTypeOK
<1>1. MatchInv => MatchTypeOK
  <2> SUFFICES ASSUME MatchInv PROVE MatchTypeOK
    OBVIOUS
  <2>1. result.percentage \in Int
    BY Arguments, PercentageType DEF result
  <2>2. \A i \in DOMAIN projects : projects[i] \subseteq Skills
    BY DEF MatchInv
  <2> QED BY <2>1, <2>2 DEF MatchInv, MatchTypeOK
<1> QED BY <1>1, MatchCorrect, PTL

\* With weights that are not negative: raw scores are not, and their maximum is
\* not zero, so that percentages do not fall back to 0.
LEMMA ScoreSigns ==
    ASSUME NEW r, IsResume(r), NEW j, IsJob(j), NotNegative(j)
    PROVE  /\ 0 <= WeightOf(Matched(r, j), j)
           /\ WeightOf(Matched(r, j), j) <= WeightOf(DOMAIN j.required, j)
           /\ 0 <= RawScore(r, j) /\ 0 < MaxScore(r, j)
<1>1. /\ IsFiniteSet(DOMAIN j.required)
      /\ \A s \in DOMAIN j.required : j.required[s] \in Int /\ j.required[s] >= 0
      /\ Matched(r, j) \in SUBSET DOMAIN j.required
  BY JobTypes DEF NotNegative, Matched
<1>2. /\ 0 <= Sum(Matched(r, j), j.required)
      /\ Sum(Matched(r, j), j.required) <= Sum(DOMAIN j.required, j.required)
  BY <1>1, SumGrows
<1>3. /\ 0 <= WeightOf(Matched(r, j), j)
      /\ WeightOf(Matched(r, j), j) <= WeightOf(DOMAIN j.required, j)
  BY <1>2, WeightOfIsSum
<1>4. Cardinality(RelevantProjects(r, j)) \in Nat /\ r.certifications \in Nat
  BY ProjectTypes DEF IsResume
<1> QED BY <1>3, <1>4, ScoreTypes DEF RawScore, MaxScore

\* A higher raw score of the same job is no lower percentage, which is not
\* negative either.
LEMMA PercentageRises ==
    ASSUME NEW r, IsResume(r), NEW n, IsResume(n), NEW j, IsJob(j), NotNegative(j),
           RawScore(r, j) <= RawScore(n, j),
           MissingMandatory(n, j) \subseteq MissingMandatory(r, j)
    PROVE  /\ 0 <= EvaluateCandidate(r, j).percentage
           /\ EvaluateCandidate(r, j).percentage <= EvaluateCandidate(n, j).percentage
<1> DEFINE a == RawScore(r, j) * 10000
           c == RawScore(n, j) * 10000
           b == MaxScore(r, j)
<1>1. /\ RawScore(r, j) \in Int /\ RawScore(n, j) \in Int /\ b \in Int
      /\ 0 <= RawScore(r, j) /\ 0 < b
  BY ScoreTypes, ScoreSigns
<1>2. MaxScore(n, j) = b
  BY DEF MaxScore
<1>3. a \in Int /\ c \in Int /\ 0 <= a /\ a <= c
  BY <1>1
<1>4. /\ MissingMandatory(r, j) = {} => EvaluateCandidate(r, j).percentage = Rounded(a, b)
      /\ MissingMandatory(n, j) = {} => EvaluateCandidate(n, j).percentage = Rounded(c, b)
      /\ MissingMandatory(r, j) # {} => EvaluateCandidate(r, j).percentage = 0
      /\ MissingMandatory(n, j) # {} => EvaluateCandidate(n, j).percentage = 0
  BY <1>1, <1>2 DEF EvaluateCandidate, Rejected
<1> HIDE DEF a, b, c
<1>5. 0 <= Rounded(a, b) /\ Rounded(a, b) <= Rounded(c, b)
  BY <1>1, <1>3, RoundedRises
<1>6. Rounded(a, b) \in Int /\ Rounded(c, b) \in Int
  BY <1>1, <1>3, RoundedType
<1> QED BY <1>4, <1>5, <1>6

\* Whatever a step adds to a resume raises its raw score, or leaves it.
LEMMA ImprovedScore ==
    ASSUME MatchInv, MatchInv', ImproveResume, NotNegative(jobSoFar)
    PROVE  /\ jobSoFar' = jobSoFar
           /\ skills \subseteq skills'
           /\ RawScore(resumeSoFar, jobSoFar) <= RawScore(resumeSoFar', jobSoFar)
<1> DEFINE j == jobSoFar
<1>1. UNCHANGED <<mandatory, required>>
  BY DEF ImproveResume, AddSkill, AddEducation, AddProject, AddCertification
<1>2. PICK r : r = resumeSoFar
  OBVIOUS
<1>3. PICK n : n = resumeSoFar'
  OBVIOUS
<1>4. jobSoFar' = jobSoFar /\ IsJob(j)
  BY <1>1, Arguments DEF jobSoFar
<1>5. IsResume(r)
  BY <1>2, Arguments
<1>6. IsResume(n)
  <2>1. /\ skills' \subseteq Skills /\ education' \in Nat /\ certifications' \in Nat
        /\ projects' \in Seq(SUBSET Skills)
    BY DEF MatchInv
  <2> QED BY <1>3, <2>1 DEF IsResume, resumeSoFar
<1>7. /\ r.skills = skills /\ n.skills = skills'
      /\ r.education = education /\ n.education = education'
      /\ r.certifications = certifications /\ n.certifications = certifications'
      /\ r.projects = projects /\ n.projects = projects'
  BY <1>2, <1>3 DEF resumeSoFar
<1>8. /\ skills \subseteq skills'
      /\ education <= education' /\ certifications <= certifications'
      /\ education \in Nat /\ education' \in Nat
      /\ certifications \in Nat /\ certifications' \in Nat
  BY DEF MatchInv, ImproveResume, AddSkill, AddEducation, AddProject, AddCertification
<1>9. DOMAIN projects \subseteq DOMAIN projects'
      /\ \A i \in DOMAIN projects : projects'[i] = projects[i]
  <2>1. CASE projects' = projects
    BY <2>1
  <2>2. ASSUME NEW m \in SUBSET Skills, AddProject(m)
        PROVE  /\ DOMAIN projects \subseteq DOMAIN projects'
               /\ \A i \in DOMAIN projects : projects'[i] = projects[i]
    <3>1. projects \in Seq(SUBSET Skills) /\ projects' = Append(projects, m)
      BY <2>2 DEF AddProject, MatchInv
    <3> QED BY <3>1
  <2> QED BY <2>1, <2>2 DEF ImproveResume, AddSkill, AddEducation, AddCertification
<1> HIDE DEF j
<1>10. WeightOf(Matched(r, j), j) <= WeightOf(Matched(n, j), j)
  <2>1. /\ IsFiniteSet(DOMAIN j.required)
        /\ \A s \in DOMAIN j.required : j.required[s] \in Int /\ j.required[s] >= 0
    BY <1>4, JobTypes DEF NotNegative, j
  <2>2. /\ Matched(r, j) \in SUBSET Matched(n, j)
        /\ Matched(n, j) \subseteq DOMAIN j.required
    BY <1>7, <1>8 DEF Matched
  <2>3. IsFiniteSet(Matched(n, j))
    BY <2>1, <2>2, FS_Subset
  <2>4. \A s \in Matched(n, j) : j.required[s] \in Int /\ j.required[s] >= 0
    BY <2>1, <2>2
  <2>5. Sum(Matched(r, j), j.required) <= Sum(Matched(n, j), j.required)
    BY <2>2, <2>3, <2>4, SumGrows
  <2> QED BY <2>5, WeightOfIsSum
<1>11. Cardinality(RelevantProjects(r, j)) <= Cardinality(RelevantProjects(n, j))
  <2>1. RelevantProjects(r, j) \subseteq RelevantProjects(n, j)
    BY <1>7, <1>9 DEF RelevantProjects
  <2>2. IsFiniteSet(RelevantProjects(n, j))
    BY <1>6, ProjectTypes
  <2> QED BY <2>1, <2>2, FS_Subset
<1>12. /\ WeightOf(Matched(r, j), j) \in Int /\ WeightOf(Matched(n, j), j) \in Int
       /\ Cardinality(RelevantProjects(r, j)) \in Nat
       /\ Cardinality(RelevantProjects(n, j)) \in Nat
  BY <1>4, <1>5, <1>6, ScoreTypes, ProjectTypes
<1>13. RawScore(r, j) <= RawScore(n, j)
  BY <1>7, <1>8, <1>10, <1>11, <1>12 DEF RawScore
<1> QED BY <1>2, <1>3, <1>4, <1>8, <1>13 DEF j

LEMMA FitIsNoRejection ==
    ASSUME NEW p \in Int
    PROVE  FitCategory(p) # "Rejected"
<1>1. p >= 8000 \/ (7000 <= p /\ p < 8000) \/ (3000 <= p /\ p < 7000) \/ p < 3000
  OBVIOUS
<1> QED BY <1>1 DEF FitCategory

\* Who is rejected, and with which score.
LEMMA Rejections ==
    ASSUME NEW r, IsResume(r), NEW j, IsJob(j)
    PROVE  /\ EvaluateCandidate(r, j).fitCategory = "Rejected"
                  <=> MissingMandatory(r, j) # {}
           /\ MissingMandatory(r, j) # {} => EvaluateCandidate(r, j).percentage = 0
<1>1. EvaluateCandidate(r, j).percentage \in Int
  BY PercentageType
<1>2. CASE MissingMandatory(r, j) # {}
  BY <1>2 DEF EvaluateCandidate, Rejected
<1>3. CASE MissingMandatory(r, j) = {}
  <2>1. EvaluateCandidate(r, j).fitCategory
            = FitCategory(EvaluateCandidate(r, j).percentage)
    BY <1>3 DEF EvaluateCandidate
  <2> QED BY <1>1, <1>3, <2>1, FitIsNoRejection
<1> QED BY <1>2, <1>3

\* What a candidate adds never lowers a score, what a job demands never raises
\* one, for any number of skills, lines and weights that are not negative.
THEOREM ScoresRise == MatchSpec => ScoreIsMonotone
<1> DEFINE Positive == \A s \in DOMAIN required : required[s] >= 0
           Better == ImproveResume => result.percentage <= result'.percentage
           Stricter ==
               (\E s \in Skills : AddMandatorySkills(s)) =>
                   /\ result'.percentage <= result.percentage
                   /\ result.fitCategory = "Rejected" =>
                          result'.fitCategory = "Rejected"
<1>1. ASSUME MatchInv, MatchInv', Positive PROVE Better /\ Stricter
  <2> DEFINE j == jobSoFar
  <2>1. PICK r : r = resumeSoFar
    OBVIOUS
  <2>2. IsResume(r) /\ IsJob(j) /\ NotNegative(j)
    BY <1>1, <2>1, Arguments DEF NotNegative, jobSoFar
  <2>3. result = EvaluateCandidate(r, j)
    BY <2>1 DEF result
  <2>4. ASSUME ImproveResume PROVE result.percentage <= result'.percentage
    <3>1. PICK n : n = resumeSoFar'
      OBVIOUS
    <3>2. IsResume(n)
      <4>1. /\ skills' \subseteq Skills /\ education' \in Nat
            /\ certifications' \in Nat /\ projects' \in Seq(SUBSET Skills)
        BY <1>1 DEF MatchInv
      <4> QED BY <3>1, <4>1 DEF IsResume, resumeSoFar
    <3>3. /\ jobSoFar' = jobSoFar /\ skills \subseteq skills'
          /\ RawScore(r, j) <= RawScore(n, j)
      BY <1>1, <2>1, <2>2, <2>4, <3>1, ImprovedScore
    <3>4. result' = EvaluateCandidate(n, j)
      BY <3>1, <3>3 DEF result
    <3>5. MissingMandatory(n, j) \subseteq MissingMandatory(r, j)
      BY <2>1, <3>1, <3>3 DEF MissingMandatory, resumeSoFar
    <3> HIDE DEF j
    <3> QED BY <2>2, <2>3, <3>2, <3>3, <3>4, <3>5, PercentageRises
  <2>5. ASSUME NEW s \in Skills, AddMandatorySkills(s)
        PROVE  /\ result'.percentage <= result.percentage
               /\ result.fitCategory = "Rejected" =>
                      result'.fitCategory = "Rejected"
    <3>1. PICK k : k = jobSoFar'
      OBVIOUS
    <3>2. /\ resumeSoFar' = r
          /\ k.mandatory = j.mandatory \cup {s} /\ k.required = j.required
      BY <2>1, <2>5, <3>1 DEF AddMandatorySkills, resumeSoFar, jobSoFar
    <3>3. IsJob(k)
      BY <2>2, <3>2 DEF IsJob
    <3>4. result' = EvaluateCandidate(r, k)
      BY <3>1, <3>2 DEF result
    <3>5. MissingMandatory(r, j) \subseteq MissingMandatory(r, k)
      BY <3>2 DEF MissingMandatory
    <3> HIDE DEF j
    <3>6. /\ 0 <= EvaluateCandidate(r, j).percentage
          /\ EvaluateCandidate(r, j).percentage \in Int
      <4>1. RawScore(r, j) <= RawScore(r, j)
        BY <2>2, ScoreTypes
      <4> QED BY <2>2, <4>1, PercentageRises, PercentageType
    <3>7. CASE MissingMandatory(r, k) # {}
      BY <2>2, <2>3, <3>3, <3>4, <3>6, <3>7, Rejections
    <3>8. CASE MissingMandatory(r, k) = {}
      <4>1. MissingMandatory(r, j) = {}
        BY <3>5, <3>8
      <4>2. RawScore(r, k) = RawScore(r, j) /\ MaxScore(r, k) = MaxScore(r, j)
        BY <3>2 DEF RawScore, MaxScore, Matched, RelevantProjects, WeightOf
      <4>3. EvaluateCandidate(r, k).percentage = EvaluateCandidate(r, j).percentage
        BY <3>8, <4>1, <4>2 DEF EvaluateCandidate
      <4>4. result.fitCategory # "Rejected"
        BY <2>2, <2>3, <4>1, Rejections
      <4> QED BY <2>3, <3>4, <3>6, <4>3, <4>4
    <3> QED BY <3>7, <3>8
  <2> QED BY <2>4, <2>5
<1>2. MatchInv /\ MatchInv' => [Positive => Better /\ Stricter]_match
  BY <1>1
<1> QED BY <1>2, MatchCorrect, PTL DEF ScoreIsMonotone

----------------------------------------------------------------------------
(* The scale.                                                                *)

\* A resume that reaches the maximum of the job scores 100%, one that stays
\* below it no more.
LEMMA FullScore ==
    ASSUME NEW r, IsResume(r), NEW j, IsJob(j), NotNegative(j),
           RawScore(r, j) <= MaxScore(r, j)
    PROVE  /\ 0 <= EvaluateCandidate(r, j).percentage
           /\ EvaluateCandidate(r, j).percentage <= 10000
           /\ RawScore(r, j) = MaxScore(r, j) /\ MissingMandatory(r, j) = {} =>
                  EvaluateCandidate(r, j).percentage = 10000
<1> DEFINE a == RawScore(r, j) * 10000
           b == MaxScore(r, j)
           c == b * 10000
<1>1. RawScore(r, j) \in Int /\ b \in Int /\ 0 <= RawScore(r, j) /\ 0 < b
  BY ScoreTypes, ScoreSigns
<1>2. a \in Int /\ c \in Int /\ 0 <= a /\ a <= c
  BY <1>1
<1>3. /\ MissingMandatory(r, j) = {} => EvaluateCandidate(r, j).percentage = Rounded(a, b)
      /\ MissingMandatory(r, j) # {} => EvaluateCandidate(r, j).percentage = 0
  BY <1>1 DEF EvaluateCandidate, Rejected
<1>4. RawScore(r, j) = MaxScore(r, j) => a = c
  OBVIOUS
<1>5. Rounded(c, b) = 10000
  BY <1>1, RoundedFull
<1> HIDE DEF a, b, c
<1>6. 0 <= Rounded(a, b) /\ Rounded(a, b) <= Rounded(c, b) /\ Rounded(a, b) \in Int
  BY <1>1, <1>2, RoundedRises, RoundedType
<1>7. PICK e : e = EvaluateCandidate(r, j).percentage
  OBVIOUS
<1>8. e \in Int /\ 0 <= e /\ e <= 10000
  BY <1>3, <1>5, <1>6, <1>7
<1>9. ASSUME RawScore(r, j) = MaxScore(r, j), MissingMandatory(r, j) = {}
      PROVE  EvaluateCandidate(r, j).percentage = 10000
  BY <1>3, <1>4, <1>5, <1>9
<1> QED BY <1>7, <1>8, <1>9

\* With weights that are not negative, up to five certifications and no more
\* relevant projects than required skills a score is a percentage, and 100 for
\* a resume that has everything.
THEOREM ScaleHolds == MatchSpec => []ScoreScale
<1>1. ASSUME MatchInv PROVE ScoreScale
  <2> DEFINE relevant == Cardinality(RelevantProjects(resumeSoFar, jobSoFar))
             most == Cardinality(DOMAIN required)
  <2>1. PICK r : r = resumeSoFar
    OBVIOUS
  <2>2. PICK j : j = jobSoFar
    OBVIOUS
  <2>3. IsResume(r) /\ IsJob(j) /\ result = EvaluateCandidate(r, j)
    BY <1>1, <2>1, <2>2, Arguments DEF result
  <2>4. /\ r.skills = skills /\ r.certifications = certifications
        /\ r.education = education
        /\ j.required = required /\ j.mandatory = mandatory
    BY <2>1, <2>2 DEF resumeSoFar, jobSoFar
  <2>5. NotNegative(j) <=> \A s \in DOMAIN required : required[s] >= 0
    BY <2>4 DEF NotNegative
  <2>6. PICK have \in Int, all \in Int :
            have = WeightOf(Matched(r, j), j) /\ all = WeightOf(DOMAIN required, j)
    BY <2>3, <2>4, ScoreTypes
  <2>7. /\ RawScore(r, j) = have + 3 * certifications
                            + (IF education > 0 THEN 5 ELSE 0) + 4 * relevant
        /\ MaxScore(r, j) = all + 15 + 5 + 4 * most
    BY <2>1, <2>2, <2>4, <2>6 DEF RawScore, MaxScore
  <2>8. relevant \in Nat /\ most \in Nat /\ certifications \in Nat /\ education \in Nat
    BY <1>1, <2>1, <2>2, <2>3, <2>4, ScoreTypes, ProjectTypes DEF MatchInv
  <2> HIDE DEF relevant, most
  <2>9. ASSUME NotNegative(j), certifications <= 5, relevant <= most
        PROVE  RawScore(r, j) <= MaxScore(r, j)
    <3>1. have <= all
      BY <2>3, <2>4, <2>6, <2>9, ScoreSigns
    <3>2. 3 * certifications <= 15 /\ 4 * relevant <= 4 * most
      BY <2>9, <2>8
    <3> QED BY <2>7, <2>8, <3>1, <3>2
  <2>10. PercentageInRange
    BY <2>3, <2>5, <2>9, FullScore DEF PercentageInRange, relevant, most
  <2>11. ASSUME mandatory \cup DOMAIN required \subseteq skills, NotNegative(j),
                certifications = 5, education > 0, relevant = most
         PROVE  result.percentage = 10000
    <3>1. Matched(r, j) = DOMAIN required /\ MissingMandatory(r, j) = {}
      BY <2>4, <2>11 DEF Matched, MissingMandatory
    <3>2. have = all /\ 3 * certifications = 15 /\ (IF education > 0 THEN 5 ELSE 0) = 5
      BY <2>4, <2>6, <2>11, <3>1
    <3>3. RawScore(r, j) = MaxScore(r, j)
      BY <2>7, <2>11, <3>2
    <3>4. RawScore(r, j) <= MaxScore(r, j)
      BY <2>3, <3>3, ScoreTypes
    <3> QED BY <2>3, <2>11, <3>1, <3>3, <3>4, FullScore
  <2>12. PerfectResumeScoresFull
    BY <2>5, <2>11 DEF PerfectResumeScoresFull, relevant, most
  <2> QED BY <2>10, <2>12 DEF ScoreScale
<1> QED BY <1>1, MatchCorrect, PTL

\* Without the caps the comments assume, a score may pass 100% and still never
\* falls below 0, so it always beats the -1 that bestScore starts from.
THEOREM ScoresAreNotNegative ==
    MatchSpec => []((\A s \in DOMAIN required : required[s] >= 0)
                        => result.percentage >= 0)
<1>1. ASSUME MatchInv, \A s \in DOMAIN required : required[s] >= 0
      PROVE  result.percentage >= 0
  <2>1. NotNegative(jobSoFar)
    BY <1>1 DEF NotNegative, jobSoFar
  <2>2. PICK r : r = resumeSoFar
    OBVIOUS
  <2>3. PICK j : j = jobSoFar
    OBVIOUS
  <2>4. IsResume(r) /\ IsJob(j) /\ NotNegative(j)
    BY <1>1, <2>1, <2>2, <2>3, Arguments
  <2>5. RawScore(r, j) <= RawScore(r, j)
    BY <2>4, ScoreTypes
  <2>6. EvaluateCandidate(r, j).percentage \in Int /\ 0 <= EvaluateCandidate(r, j).percentage
    BY <2>4, <2>5, PercentageRises, PercentageType
  <2> QED BY <2>2, <2>3, <2>6 DEF result
<1> QED BY <1>1, MatchCorrect, PTL

----------------------------------------------------------------------------
(* The size of the sums, which the code keeps in ints.                       *)

\* Weights up to W add up to W for each of them at most.
LEMMA SumBounded ==
    ASSUME NEW S, IsFiniteSet(S), NEW W \in Nat,
           NEW w, \A s \in S : w[s] \in Int /\ w[s] <= W
    PROVE  Sum(S, w) <= W * Cardinality(S)
<1> DEFINE Bad == {t \in SUBSET S : ~(Sum(t, w) <= W * Cardinality(t))}
<1>0. Bad \subseteq SUBSET S
  OBVIOUS
<1>1. SUFFICES ASSUME Bad # {} PROVE FALSE
  <2>1. S \notin Bad
    BY <1>1
  <2> QED BY <2>1
<1> HIDE DEF Bad
<1>2. PICK m \in Bad : \A t \in SUBSET m : t # m => t \notin Bad
  BY <1>1, <1>0, SmallestSet, Zenon
<1>3. m \subseteq S /\ IsFiniteSet(m) /\ ~(Sum(m, w) <= W * Cardinality(m))
  <2>1. m \in SUBSET S /\ ~(Sum(m, w) <= W * Cardinality(m))
    BY <1>2 DEF Bad
  <2> QED BY <2>1, FS_Subset
<1>4. m # {}
  <2>1. Sum({}, w) = 0 /\ Cardinality({}) = 0
    BY SumEmpty, FS_EmptySet
  <2>2. W * Cardinality({}) = 0
    BY <2>1
  <2> QED BY <1>3, <2>1, <2>2
<1>5. PICK c \in m : TRUE
  BY <1>4
<1>6. /\ Sum(m, w) = w[c] + Sum(m \ {c}, w)
      /\ w[c] \in Int /\ w[c] <= W
  BY <1>3, <1>5, SumOneMore
<1>7. /\ IsFiniteSet(m \ {c}) /\ Cardinality(m \ {c}) = Cardinality(m) - 1
      /\ Cardinality(m) \in Nat /\ Cardinality(m \ {c}) \in Nat
  BY <1>3, <1>5, FS_RemoveElement, FS_CardinalityType
<1>8. Sum(m \ {c}, w) \in Int /\ Sum(m \ {c}, w) <= W * Cardinality(m \ {c})
  <2>1. m \ {c} \in SUBSET m /\ m \ {c} # m /\ m \ {c} \in SUBSET S
    BY <1>3, <1>5
  <2>2. m \ {c} \notin Bad
    BY <1>2, <2>1
  <2> QED BY <1>3, <1>7, <2>1, <2>2, SumType DEF Bad
<1>9. PICK n \in Nat, x \in Int, y \in Int :
          n = Cardinality(m \ {c}) /\ x = w[c] /\ y = Sum(m \ {c}, w)
  BY <1>6, <1>7, <1>8
<1>10. Cardinality(m) = n + 1 /\ y <= W * n /\ x <= W /\ Sum(m, w) = x + y
  BY <1>6, <1>7, <1>8, <1>9
<1>11. W * (n + 1) = W * n + W /\ W * n \in Int
  OBVIOUS
<1>12. Sum(m, w) <= W * Cardinality(m)
  BY <1>10, <1>11
<1> QED BY <1>3, <1>12

\* The sums of evaluateCandidate grow with the job's skills and the resume's
\* lines and no faster: with weights from 0 to W, W for a skill, 4 for a skill's
\* or a project line, 3 for a certification.  So weights near 2^31, or that many
\* lines, is what it takes for an int to overflow.
THEOREM SumsAreBounded ==
    ASSUME NEW W \in Nat
    PROVE  MatchSpec =>
             []((\A s \in DOMAIN required : required[s] \in 0..W) =>
                  LET most == W * Cardinality(DOMAIN required)
                  IN  /\ RawScore(resumeSoFar, jobSoFar)
                            \in 0..(most + 3 * certifications + 5 + 4 * Len(projects))
                      /\ MaxScore(resumeSoFar, jobSoFar)
                            \in 20..(most + 4 * Cardinality(DOMAIN required) + 20))
<1>1. ASSUME MatchInv, \A s \in DOMAIN required : required[s] \in 0..W
      PROVE  LET most == W * Cardinality(DOMAIN required)
             IN  /\ RawScore(resumeSoFar, jobSoFar)
                       \in 0..(most + 3 * certifications + 5 + 4 * Len(projects))
                 /\ MaxScore(resumeSoFar, jobSoFar)
                       \in 20..(most + 4 * Cardinality(DOMAIN required) + 20)
  <2>1. PICK r : r = resumeSoFar
    OBVIOUS
  <2>2. PICK j : j = jobSoFar
    OBVIOUS
  <2>3. /\ r.certifications = certifications /\ r.education = education
        /\ r.projects = projects /\ j.required = required
    BY <2>1, <2>2 DEF resumeSoFar, jobSoFar
  <2>4. IsResume(r) /\ IsJob(j) /\ NotNegative(j)
    BY <1>1, <2>1, <2>2, <2>3, Arguments DEF NotNegative
  <2>5. PICK have \in Int, all \in Int, size \in Nat :
            /\ have = WeightOf(Matched(r, j), j)
            /\ all = WeightOf(DOMAIN j.required, j)
            /\ size = Cardinality(DOMAIN j.required)
    BY <2>4, ScoreTypes
  <2>6. 0 <= have /\ have <= all
    BY <2>4, <2>5, ScoreSigns
  <2>7. all <= W * size
    <3>1. /\ IsFiniteSet(DOMAIN j.required)
          /\ \A s \in DOMAIN j.required : j.required[s] \in Int /\ j.required[s] <= W
      BY <1>1, <2>3, <2>4, JobTypes
    <3>2. Sum(DOMAIN j.required, j.required) <= W * Cardinality(DOMAIN j.required)
      BY <3>1, SumBounded
    <3> QED BY <2>5, <3>2, WeightOfIsSum
  <2>8. PICK relevant \in Nat : /\ relevant = Cardinality(RelevantProjects(r, j))
                                /\ relevant <= Len(projects)
    <3>1. PICK n \in Nat : DOMAIN r.projects = 1..n /\ n = Len(projects)
      BY <1>1, <2>3 DEF MatchInv
    <3>2. IsFiniteSet(1..n) /\ Cardinality(1..n) = n
      BY FS_Interval
    <3>3. RelevantProjects(r, j) \subseteq 1..n
      BY <3>1 DEF RelevantProjects
    <3>4. Cardinality(RelevantProjects(r, j)) <= n
      BY <3>2, <3>3, FS_Subset
    <3> QED BY <2>4, <3>1, <3>4, ProjectTypes
  <2>9. /\ RawScore(r, j) = have + 3 * certifications
                            + (IF education > 0 THEN 5 ELSE 0) + 4 * relevant
        /\ MaxScore(r, j) = all + 15 + 5 + 4 * size
    BY <2>3, <2>5, <2>8 DEF RawScore, MaxScore
  <2>10. certifications \in Nat /\ education \in Nat /\ Len(projects) \in Nat
    BY <1>1 DEF MatchInv
  <2>11. PICK p \in Int : p = W * size
    OBVIOUS
  <2>12. /\ RawScore(r, j) \in 0..(p + 3 * certifications + 5 + 4 * Len(projects))
         /\ MaxScore(r, j) \in 20..(p + 4 * size + 20)
    BY <2>6, <2>7, <2>8, <2>9, <2>10, <2>11
  <2> QED BY <2>1, <2>2, <2>3, <2>5, <2>11, <2>12
<1> QED BY <1>1, MatchCorrect, PTL

----------------------------------------------------------------------------
(* The two lists of skills.                                                  *)

\* The list of missing skills has each of them once, by falling weight.
LEMMA MissingListed ==
    ASSUME NEW r, NEW j, IsJob(j)
    PROVE  /\ IsFiniteSet(Missing(r, j))
           /\ MissingSkills(r, j) \in SetToSeqs(Missing(r, j))
           /\ Falling(MissingSkills(r, j))
<1>1. IsFiniteSet(DOMAIN j.required \ r.skills)
  BY JobTypes, FS_Subset
<1>2. IsFiniteSet(Missing(r, j))
  <2> DEFINE S == DOMAIN j.required \ r.skills
             f == [s \in S |-> <<s, j.required[s]>>]
  <2>1. f \in Surjection(S, Missing(r, j))
    BY Fun_IsSurj DEF Missing
  <2> QED BY <1>1, <2>1, FS_Surjection
<1>3. \A x \in Missing(r, j) : x[2] \in Int
  BY JobTypes DEF Missing
<1>4. \E q \in SetToSeqs(Missing(r, j)) : Falling(q)
  BY <1>2, <1>3, FallingList
<1>5. MissingSkills(r, j) = CHOOSE q \in SetToSeqs(Missing(r, j)) : Falling(q)
  BY DEF MissingSkills, Falling
<1> QED BY <1>2, <1>4, <1>5

\* What one skill more adds to the raw score of a resume.
Gain(s) == IF s \in DOMAIN required \ skills THEN required[s] ELSE 0

\* The score with one skill more, for a candidate that is not rejected.
LEMMA ScoreOfGain ==
    ASSUME MatchInv, NEW s \in Skills, MissingMandatory(resumeSoFar, jobSoFar) = {}
    PROVE  LET raw == RawScore(resumeSoFar, jobSoFar)
               max == MaxScore(resumeSoFar, jobSoFar)
           IN  /\ raw \in Int /\ max \in Int /\ Gain(s) \in Int
               /\ ScoreWith(s) = IF max > 0 THEN Rounded((raw + Gain(s)) * 10000, max)
                                            ELSE 0
<1>1. PICK r : r = resumeSoFar
  OBVIOUS
<1>2. PICK n : n = [resumeSoFar EXCEPT !.skills = @ \cup {s}]
  OBVIOUS
<1>3. PICK j : j = jobSoFar
  OBVIOUS
<1>4. /\ r.skills = skills /\ n.skills = skills \cup {s} /\ n.projects = r.projects
      /\ n.education = r.education /\ n.certifications = r.certifications
      /\ j.required = required
  BY <1>1, <1>2, <1>3 DEF resumeSoFar, jobSoFar
<1>5. IsResume(r) /\ IsJob(j)
  BY <1>1, <1>3, Arguments
<1>6. IsResume(n)
  BY <1>4, <1>5 DEF IsResume
<1>7. MaxScore(n, j) = MaxScore(r, j) /\ RelevantProjects(n, j) = RelevantProjects(r, j)
  BY <1>4 DEF MaxScore, RelevantProjects
<1>8. MissingMandatory(n, j) = {}
  BY <1>1, <1>3, <1>4 DEF MissingMandatory
<1>9. /\ RawScore(r, j) \in Int /\ RawScore(n, j) \in Int /\ MaxScore(r, j) \in Int
      /\ WeightOf(Matched(r, j), j) \in Int /\ Gain(s) \in Int
      /\ Cardinality(RelevantProjects(r, j)) \in Nat /\ r.certifications \in Nat
  BY <1>4, <1>5, <1>6, ScoreTypes, ProjectTypes, JobTypes DEF Gain, IsResume
<1>10. WeightOf(Matched(n, j), j) = WeightOf(Matched(r, j), j) + Gain(s)
  <2>1. CASE s \in DOMAIN required \ skills
    <3> DEFINE S == Matched(n, j)
    <3>1. S \ {s} = Matched(r, j) /\ s \in S /\ S \subseteq DOMAIN j.required
      BY <1>4, <2>1 DEF Matched
    <3>2. IsFiniteSet(S) /\ \A x \in S : j.required[x] \in Int
      BY <1>5, <3>1, JobTypes, FS_Subset
    <3>3. Sum(S, j.required) = j.required[s] + Sum(S \ {s}, j.required)
      <4> HIDE DEF S
      <4> QED BY <3>1, <3>2, SumOneMore
    <3>4. WeightOf(S, j) = required[s] + WeightOf(Matched(r, j), j)
      <4> HIDE DEF S
      <4> QED BY <1>4, <3>1, <3>3, WeightOfIsSum
    <3> QED BY <1>9, <2>1, <3>4 DEF Gain
  <2>2. CASE s \notin DOMAIN required \ skills
    <3>1. Matched(n, j) = Matched(r, j)
      BY <1>4, <2>2 DEF Matched
    <3> QED BY <1>9, <2>2, <3>1 DEF Gain
  <2> QED BY <2>1, <2>2
<1>11. RawScore(n, j) = RawScore(r, j) + Gain(s)
  BY <1>4, <1>7, <1>9, <1>10 DEF RawScore
<1>12. ScoreWith(s) = EvaluateCandidate(n, j).percentage
  BY <1>2, <1>3 DEF ScoreWith
<1>13. ScoreWith(s) = IF MaxScore(r, j) > 0
                      THEN Rounded((RawScore(r, j) + Gain(s)) * 10000, MaxScore(r, j))
                      ELSE 0
  BY <1>7, <1>8, <1>11, <1>12 DEF EvaluateCandidate
<1> QED BY <1>1, <1>3, <1>9, <1>13

\* For any weights: the list of missing skills is in the order of the scores they
\* would bring, and no other skill brings anything.
THEOREM MissingSkillsAreAdvice == MatchSpec => []MissingByGain
<1>1. ASSUME MatchInv, result.fitCategory # "Rejected" PROVE MissingByGain
  <2>1. PICK r : r = resumeSoFar
    OBVIOUS
  <2>2. PICK j : j = jobSoFar
    OBVIOUS
  <2>3. IsResume(r) /\ IsJob(j) /\ result = EvaluateCandidate(r, j)
    BY <1>1, <2>1, <2>2, Arguments DEF result
  <2>4. j.required = required /\ r.skills = skills
    BY <2>1, <2>2 DEF jobSoFar, resumeSoFar
  <2>5. MissingMandatory(r, j) = {}
    BY <1>1, <2>3, Rejections
  <2>6. PICK q : q = MissingSkills(r, j)
    OBVIOUS
  <2>7. result.missingSkills = q
    BY <2>3, <2>5, <2>6 DEF EvaluateCandidate
  <2>8. IsFiniteSet(Missing(r, j)) /\ q \in SetToSeqs(Missing(r, j)) /\ Falling(q)
    BY <2>3, <2>6, MissingListed
  <2>9. /\ q \in Seq(Missing(r, j)) /\ DOMAIN q = 1..Len(q)
        /\ \A x \in Missing(r, j) : \E i \in DOMAIN q : q[i] = x
    BY <2>8, ListOfSet
  <2> DEFINE missing == [i \in DOMAIN q |-> q[i][1]]
  <2>10. \A i \in DOMAIN q : /\ missing[i] \in DOMAIN required \ skills
                             /\ q[i][2] = required[missing[i]]
    BY <2>4, <2>9 DEF Missing
  <2>11. ASSUME NEW s \in DOMAIN required \ skills
         PROVE  \E i \in DOMAIN q : missing[i] = s
    <3>1. <<s, required[s]>> \in Missing(r, j)
      BY <2>4 DEF Missing
    <3>2. PICK i \in DOMAIN q : q[i] = <<s, required[s]>>
      BY <2>9, <3>1
    <3> QED BY <3>2
  <2>12. ToSet(missing) = DOMAIN required \ skills
    BY <2>10, <2>11 DEF ToSet
  <2>13. DOMAIN required \subseteq Skills
    BY <2>3, <2>4 DEF IsJob
  <2> DEFINE raw == RawScore(r, j)
             max == MaxScore(r, j)
  <2>14. /\ raw \in Int /\ max \in Int
         /\ \A s \in Skills :
               /\ Gain(s) \in Int
               /\ ScoreWith(s) = IF max > 0 THEN Rounded((raw + Gain(s)) * 10000, max)
                                            ELSE 0
    <3>1. raw \in Int /\ max \in Int
      BY <2>3, ScoreTypes
    <3> QED BY <1>1, <2>1, <2>2, <2>5, <3>1, ScoreOfGain
  <2>15. result.percentage = IF max > 0 THEN Rounded(raw * 10000, max) ELSE 0
    BY <2>3, <2>5 DEF EvaluateCandidate
  <2> HIDE DEF raw, max
  <2>16. ASSUME NEW i \in DOMAIN missing, NEW k \in DOMAIN missing, i < k
         PROVE  ScoreWith(missing[i]) >= ScoreWith(missing[k])
    <3>1. PICK s \in Skills, t \in Skills :
             /\ s = missing[i] /\ t = missing[k]
             /\ Gain(s) = q[i][2] /\ Gain(t) = q[k][2]
      BY <2>10, <2>13, <2>16 DEF Gain
    <3>2. Gain(t) <= Gain(s) /\ Gain(s) \in Int /\ Gain(t) \in Int
      BY <2>8, <2>14, <2>16, <3>1 DEF Falling
    <3>3. CASE max > 0
      <4> DEFINE a == (raw + Gain(t)) * 10000
                 c == (raw + Gain(s)) * 10000
      <4>1. a \in Int /\ c \in Int /\ a <= c
        BY <2>14, <3>2
      <4>2. ScoreWith(t) = Rounded(a, max) /\ ScoreWith(s) = Rounded(c, max)
        BY <2>14, <3>3
      <4> HIDE DEF a, c
      <4>3. max \in Int /\ max > 0
        BY <2>14, <3>3
      <4>4. Rounded(a, max) <= Rounded(c, max)
        BY <4>1, <4>3, RoundedNeverFalls
      <4>5. Rounded(a, max) \in Int /\ Rounded(c, max) \in Int
        BY <4>1, <4>3, RoundedType
      <4> QED BY <3>1, <4>2, <4>4, <4>5
    <3>4. CASE ~(max > 0)
      BY <2>14, <3>1, <3>4
    <3> QED BY <3>3, <3>4
  <2>17. ASSUME NEW s \in Skills \ ToSet(missing)
         PROVE  ScoreWith(s) = result.percentage
    <3>1. Gain(s) = 0
      BY <2>12, <2>17 DEF Gain
    <3> QED BY <2>14, <2>15, <3>1
  <2>18. missing = [i \in DOMAIN result.missingSkills |-> result.missingSkills[i][1]]
    BY <2>7
  <2> HIDE DEF missing
  <2> QED BY <2>16, <2>17, <2>18 DEF MissingByGain
<1>2. MatchInv => MissingByGain
  BY <1>1 DEF MissingByGain
<1> QED BY <1>2, MatchCorrect, PTL

----------------------------------------------------------------------------
(* The ranking of the roles.                                                 *)

Done == {"sorted", "answered"}

\* The scan: no profile read so far scores above bestScore, and the three locals
\* are those of one profile, or still what they were declared with.
BestSoFar ==
    /\ \A p \in Profiles \ unread : Score(p) <= bestScore
    /\ \/ bestScore = NoScore /\ bestRole = ""
       \/ /\ bestScore > NoScore
          /\ bestMatch = bestScore
          /\ \E p \in Profiles \ unread :
                Score(p) = bestScore /\ file[p].title = bestRole

\* The list of every profile once, by falling score.
Ranked(q) ==
    /\ q \in SetToSeqs(Profiles)
    /\ \A i, j \in DOMAIN q : i < j => Score(q[i]) >= Score(q[j])

Top(q) == SubSeq(q, 1, Min2(3, Len(q)))

RankInv ==
    /\ RankingTypeOK
    /\ file \in [Profiles -> Contents]
    /\ BestSoFar
    /\ pc \in Done => unread = {} /\ Ranked(allResults)
    /\ pc = "answered" =>
            data = [comparison |-> Comparison(Top(allResults)),
                    topRoles |-> Top(allResults),
                    bestRole |-> bestRole, percentage |-> bestMatch]

----------------------------------------------------------------------------
(* Lists of all profiles.                                                    *)

LEMMA SizeType == Cardinality(Profiles) \in Nat
  BY ProfilesAssumption, FS_CardinalityType

LEMMA BestScoreType ==
    ASSUME RankingTypeOK
    PROVE  bestScore \in Int
<1>1. bestScore \in Scores \/ bestScore = NoScore
  BY DEF RankingTypeOK
<1>2. NoScore \in Int
  BY DEF NoScore
<1> QED BY <1>1, <1>2, ScoresAssumption

LEMMA ScoreType ==
    ASSUME file \in [Profiles -> Contents], NEW p \in Profiles
    PROVE  Score(p) \in Int /\ Score(p) \in Scores
  BY ScoresAssumption DEF Score, Contents

\* A ranked list is a sequence that has every profile exactly once.
LEMMA RankedList ==
    ASSUME NEW q, Ranked(q)
    PROVE  /\ q \in Seq(Profiles)
           /\ Len(q) = Cardinality(Profiles)
           /\ DOMAIN q = 1..Len(q)
           /\ \A i, j \in DOMAIN q : q[i] = q[j] => i = j
           /\ \A p \in Profiles : \E i \in DOMAIN q : q[i] = p
  BY ProfilesAssumption, ListOfSet DEF Ranked

\* What is shown of it: the first three, or all.
LEMMA TopOfRanked ==
    ASSUME NEW q, Ranked(q)
    PROVE  /\ Len(Top(q)) = IF Cardinality(Profiles) < 3
                            THEN Cardinality(Profiles) ELSE 3
           /\ DOMAIN Top(q) = 1..Len(Top(q))
           /\ Len(Top(q)) <= Len(q)
           /\ \A i \in DOMAIN Top(q) : i \in DOMAIN q /\ Top(q)[i] = q[i]
<1>1. q \in Seq(Profiles) /\ Len(q) = Cardinality(Profiles) /\ Len(q) \in Nat
  BY RankedList, SizeType
<1> QED BY <1>1 DEF Top, Min2

LEMMA TopSize ==
    ASSUME NEW q, Ranked(q)
    PROVE  Cardinality(ToSet(Top(q))) = Len(Top(q))
<1> DEFINE t == Top(q)
           D == 1..Len(t)
<1>1. /\ Len(t) \in Nat /\ DOMAIN t = D
      /\ \A i \in D : i \in DOMAIN q /\ t[i] = q[i]
  BY TopOfRanked, SizeType
<1>2. \A i, j \in D : t[i] = t[j] => i = j
  BY <1>1, RankedList
<1>3. t \in [D -> ToSet(t)]
  <2>1. t \in Seq(Profiles)
    BY RankedList DEF Top, Min2
  <2> QED BY <1>1, <2>1 DEF ToSet
<1>4. \A x \in ToSet(t) : \E i \in D : t[i] = x
  BY <1>1 DEF ToSet
<1> HIDE DEF t
<1>5. t \in Bijection(D, ToSet(t))
  BY <1>2, <1>3, <1>4, Fun_IsBij
<1>6. ExistsBijection(D, ToSet(t))
  BY <1>5, Fun_ExistsBij
<1> QED BY <1>1, <1>6, FS_CountingElements DEF t

----------------------------------------------------------------------------
(* The invariant.                                                            *)

LEMMA InitRank == RankingInit => RankInv
<1> SUFFICES ASSUME RankingInit PROVE RankInv
  OBVIOUS
<1>1. RankingTypeOK
  <2>1. <<>> \in Seq(Profiles)
    OBVIOUS
  <2> QED BY <2>1, Zenon DEF RankingInit, RankingTypeOK
<1>2. file \in [Profiles -> Contents] /\ pc = "scan"
  BY DEF RankingInit
<1>3. BestSoFar
  BY DEF RankingInit, BestSoFar
<1> QED BY <1>1, <1>2, <1>3 DEF RankInv, Done

\* A profile that scores higher replaces the best one, any other leaves it.
LEMMA BestStep ==
    ASSUME RankingTypeOK, file \in [Profiles -> Contents], BestSoFar,
           NEW p \in Profiles, Evaluate(p)
    PROVE  BestSoFar'
<1>1. bestScore \in Int /\ bestScore >= NoScore
  <2>1. bestScore \in Int /\ NoScore \in Int
    BY BestScoreType DEF NoScore
  <2>2. bestScore = NoScore \/ bestScore > NoScore
    BY Zenon DEF BestSoFar
  <2> QED BY <2>1, <2>2
<1>2. \A r \in Profiles : Score(r)' = Score(r) /\ Score(r) \in Int
  BY ScoreType DEF Evaluate, Score
<1>3. \A r \in Profiles \ unread : Score(r) <= bestScore
  BY Zenon DEF BestSoFar
<1>4. /\ p \in Profiles \ unread'
      /\ \A r \in Profiles \ unread' : r = p \/ r \in Profiles \ unread
      /\ \A r \in Profiles \ unread : r \in Profiles \ unread'
  BY DEF Evaluate
<1>5. CASE Score(p) > bestScore
  <2>1. /\ bestScore' = Score(p) /\ bestMatch' = Score(p)
        /\ bestRole' = file[p].title /\ file' = file
    BY <1>5 DEF Evaluate
  <2>2. Score(p) > NoScore
    BY <1>1, <1>2, <1>5 DEF NoScore
  <2>3. ASSUME NEW r \in Profiles \ unread' PROVE Score(r) <= Score(p)
    BY <1>1, <1>2, <1>4, <1>5, <1>3
  <2>4. Score(p)' = bestScore' /\ file'[p].title = bestRole'
    BY <1>2, <2>1
  <2>5. \A r \in Profiles \ unread' : Score(r)' <= bestScore'
    BY <1>2, <2>1, <2>3
  <2> QED BY <1>4, <2>1, <2>2, <2>4, <2>5 DEF BestSoFar, NoScore
<1>6. CASE ~(Score(p) > bestScore)
  <2>1. UNCHANGED <<bestScore, bestRole, bestMatch, file>>
    BY <1>6 DEF Evaluate
  <2>2. \A r \in Profiles \ unread' : Score(r) <= bestScore
    BY <1>1, <1>2, <1>4, <1>6, <1>3
  <2>3. \A r \in Profiles \ unread' : Score(r)' <= bestScore'
    BY <1>2, <2>1, <2>2
  <2> QED BY <1>2, <1>4, <2>1, <2>3 DEF BestSoFar, NoScore
<1> QED BY <1>5, <1>6

LEMMA StepRank == RankInv /\ [RankingNext]_ranking => RankInv'
<1> SUFFICES ASSUME RankInv, [RankingNext]_ranking PROVE RankInv'
  OBVIOUS
<1>0. /\ RankingTypeOK /\ file \in [Profiles -> Contents] /\ BestSoFar
      /\ pc \in Done => unread = {} /\ Ranked(allResults)
  BY DEF RankInv
<1>1. ASSUME NEW p \in Profiles, Evaluate(p) PROVE RankInv'
  <2>1. Score(p) \in Scores /\ file[p].title \in Titles
    BY <1>0, ScoreType DEF Contents
  <2>2. RankingTypeOK'
    <3>0. allResults \in Seq(Profiles) /\ allResults' = Append(allResults, p)
      BY <1>0, <1>1, Zenon DEF Evaluate, RankingTypeOK
    <3>1. allResults' \in Seq(Profiles)
      BY <3>0
    <3>2. /\ bestScore' \in Scores \cup {NoScore}
          /\ bestRole' \in Titles \cup {""}
          /\ bestMatch' \in Scores \cup Garbage
      BY <1>0, <1>1, <2>1, Zenon DEF Evaluate, RankingTypeOK
    <3> QED BY <1>0, <1>1, <3>1, <3>2, Zenon DEF Evaluate, RankingTypeOK
  <2>3. BestSoFar'
    BY <1>0, <1>1, BestStep
  <2>4. file' = file /\ pc' = "scan"
    BY <1>1 DEF Evaluate
  <2> QED BY <1>0, <2>2, <2>3, <2>4 DEF RankInv, Done
<1>2. ASSUME NEW p \in Profiles, EvaluateThrows(p) PROVE RankInv'
  <2>1. /\ UNCHANGED <<file, unread, allResults, bestRole, bestScore, bestMatch>>
        /\ pc' = "failed"
    BY <1>2 DEF EvaluateThrows
  <2>2. RankingTypeOK' /\ BestSoFar' /\ file' \in [Profiles -> Contents]
    BY <1>0, <2>1 DEF RankingTypeOK, BestSoFar, Score
  <2> QED BY <2>1, <2>2 DEF RankInv, Done
<1>3. CASE NoFolder
  <2>1. /\ UNCHANGED <<file, unread, allResults, bestRole, bestScore, bestMatch>>
        /\ pc' = "failed"
    BY <1>3 DEF NoFolder
  <2>2. RankingTypeOK' /\ BestSoFar' /\ file' \in [Profiles -> Contents]
    BY <1>0, <2>1 DEF RankingTypeOK, BestSoFar, Score
  <2> QED BY <2>1, <2>2 DEF RankInv, Done
<1>4. CASE Sort
  <2>1. /\ UNCHANGED <<file, unread, bestRole, bestScore, bestMatch>>
        /\ pc' = "sorted" /\ unread = {}
    BY <1>4 DEF Sort
  <2>2. Ranked(allResults')
    BY <1>4 DEF Sort, Ranked
  <2>3. allResults' \in Seq(Profiles)
    BY <2>2, RankedList
  <2>4. RankingTypeOK' /\ BestSoFar' /\ file' \in [Profiles -> Contents]
    BY <1>0, <2>1, <2>3 DEF RankingTypeOK, BestSoFar, Score
  <2>5. Ranked(allResults)'
    BY <2>1, <2>2 DEF Ranked, Score
  <2> QED BY <2>1, <2>4, <2>5 DEF RankInv
<1>5. CASE Answer
  <2>1. /\ UNCHANGED <<file, allResults, unread, bestScore, bestRole, bestMatch>>
        /\ pc = "sorted" /\ pc' = "answered"
    BY <1>5 DEF Answer
  <2>2. unread = {} /\ Ranked(allResults)
    BY <1>0, <2>1 DEF Done
  <2>3. RankingTypeOK' /\ BestSoFar' /\ file' \in [Profiles -> Contents]
    BY <1>0, <2>1 DEF RankingTypeOK, BestSoFar, Score
  <2>4. Ranked(allResults)' /\ unread' = {}
    BY <2>1, <2>2 DEF Ranked, Score
  <2>5. data' = [comparison |-> Comparison(Top(allResults)),
                 topRoles |-> Top(allResults),
                 bestRole |-> bestRole, percentage |-> bestMatch]
    BY <1>5 DEF Answer, Top
  <2>6. /\ Comparison(Top(allResults))' = Comparison(Top(allResults))
        /\ Top(allResults)' = Top(allResults)
    BY <2>1 DEF Comparison, Score, Top
  <2>7. data' = [comparison |-> Comparison(Top(allResults))',
                 topRoles |-> Top(allResults)',
                 bestRole |-> bestRole', percentage |-> bestMatch']
    BY <2>1, <2>5, <2>6
  <2> QED BY <2>1, <2>3, <2>4, <2>7 DEF RankInv
<1>6. CASE UNCHANGED ranking
  <2>1. UNCHANGED <<file, pc, unread, allResults, bestRole, bestScore, bestMatch, data>>
    BY <1>6 DEF ranking
  <2>2. RankingTypeOK' /\ BestSoFar' /\ file' \in [Profiles -> Contents]
    BY <1>0, <2>1 DEF RankingTypeOK, BestSoFar, Score
  <2>3. Ranked(allResults)' <=> Ranked(allResults)
    BY <2>1 DEF Ranked, Score
  <2>4. /\ Comparison(Top(allResults))' = Comparison(Top(allResults))
        /\ Top(allResults)' = Top(allResults)
    BY <2>1 DEF Comparison, Score, Top
  <2> QED BY <2>1, <2>2, <2>3, <2>4 DEF RankInv
<1> QED BY <1>1, <1>2, <1>3, <1>4, <1>5, <1>6 DEF RankingNext

LEMMA RankCorrect == RankingSpec => []RankInv
  BY InitRank, StepRank, PTL DEF RankingSpec

----------------------------------------------------------------------------
(* The answer.                                                               *)

\* The best score is the maximum, since a ranked list begins with a profile no
\* other one exceeds.
LEMMA HighestShown == RankInv => BestIsHighest
<1> SUFFICES ASSUME RankInv, Answered PROVE BestIsHighest
  BY DEF BestIsHighest
<1>0. RankingTypeOK /\ file \in [Profiles -> Contents] /\ BestSoFar
  BY DEF RankInv
<1>1. /\ unread = {} /\ Ranked(allResults)
      /\ data.percentage = bestMatch /\ data.bestRole = bestRole
  BY DEF RankInv, Answered, Done
<1>2. \A p \in Profiles : Score(p) \in Int /\ Score(p) <= bestScore
  BY <1>0, <1>1, ScoreType DEF BestSoFar
<1>3. bestScore \in Int
  BY <1>0, BestScoreType
<1>4. CASE bestScore = NoScore /\ bestRole = ""
  <2>1. CASE Profiles # {}
    <3> DEFINE S == {Score(p) : p \in Profiles}
    <3>1. Cardinality(Profiles) > 0
      BY <2>1, SizeType, ProfilesAssumption, FS_EmptySet
    <3>2. 1 \in DOMAIN allResults /\ allResults[1] \in Profiles
      BY <1>1, <3>1, RankedList, SizeType
    <3>3. \A p \in Profiles : Score(allResults[1]) >= Score(p)
      <4> SUFFICES ASSUME NEW p \in Profiles PROVE Score(allResults[1]) >= Score(p)
        OBVIOUS
      <4>1. PICK i \in DOMAIN allResults : allResults[i] = p
        BY <1>1, RankedList
      <4>2. i = 1 \/ i > 1
        BY <1>1, RankedList, SizeType
      <4> QED BY <1>1, <1>2, <3>2, <4>1, <4>2 DEF Ranked
    <3>4. \E x \in S : \A y \in S : x >= y
      BY <3>2, <3>3
    <3>5. Max(S) \in S
      BY <3>4 DEF Max
    <3>6. Best <= -1
      BY <1>2, <1>4, <3>5 DEF Best, NoScore
    <3>7. Best \in Int
      BY <1>2, <3>5 DEF Best
    <3>8. ~(Best > -1)
      BY <3>6, <3>7
    <3> QED BY <1>1, <1>4, <3>8, Zenon DEF BestIsHighest
  <2>2. CASE Profiles = {}
    BY <1>1, <1>4, <2>2 DEF BestIsHighest
  <2> QED BY <2>1, <2>2
<1>5. CASE /\ bestScore > NoScore /\ bestMatch = bestScore
           /\ \E p \in Profiles \ unread :
                 Score(p) = bestScore /\ file[p].title = bestRole
  <2>1. PICK p \in Profiles : Score(p) = bestScore /\ file[p].title = bestRole
    BY <1>5
  <2> DEFINE S == {Score(r) : r \in Profiles}
  <2>2. bestScore \in S /\ \A y \in S : y \in Int /\ bestScore >= y
    BY <1>2, <1>3, <2>1
  <2>3. Max(S) \in S /\ \A y \in S : Max(S) >= y
    BY <2>2 DEF Max
  <2>4. Best = bestScore
    <3> HIDE DEF S
    <3>1. Max(S) = bestScore
      BY <2>2, <2>3
    <3> QED BY <3>1 DEF Best, S
  <2> QED BY <1>1, <1>3, <1>5, <2>1, <2>4 DEF BestIsHighest, NoScore
<1> QED BY <1>0, <1>4, <1>5 DEF BestSoFar

\* Whenever some profile scores above -1, as every profile does whose weights are
\* not negative (ScoresAreNotNegative), the best role and the percentage of an
\* answer are those of a highest score; otherwise the best role is empty.
THEOREM HighestIsShown == RankingSpec => []BestIsHighest
  BY RankCorrect, HighestShown, PTL

\* As long as no profile can score below 0, the percentage that is shown is one
\* that was calculated: weights below zero are all that lets the uninitialised
\* bestMatch out of a folder with profiles.
THEOREM CalculatedUnlessNegative ==
    ASSUME \A n \in Scores : n >= 0
    PROVE  RankingSpec => []PercentageIsAScore
<1>1. ASSUME RankInv PROVE PercentageIsAScore
  <2> SUFFICES ASSUME Answered, NEW r \in Profiles
               PROVE  \E p \in Profiles : data.percentage = Score(p)
    BY DEF PercentageIsAScore
  <2>1. /\ RankingTypeOK /\ file \in [Profiles -> Contents] /\ BestSoFar
        /\ unread = {} /\ data.percentage = bestMatch
    BY <1>1 DEF RankInv, Answered, Done
  <2>2. Score(r) >= 0 /\ Score(r) \in Int
    BY <2>1, ScoreType DEF Score, Contents
  <2>3. Score(r) <= bestScore
    BY <2>1 DEF BestSoFar
  <2>4. bestScore # NoScore
    BY <2>2, <2>3 DEF NoScore
  <2> QED BY <2>1, <2>4 DEF BestSoFar
<1>2. RankInv => PercentageIsAScore
  BY <1>1
<1> QED BY <1>2, RankCorrect, PTL

\* While no profile scores below 0, the best match of the scan and the head of the
\* sorted list have one score, although they are found separately: the number
\* over the list is that of its first role.
ScanAgreesWithList ==
    Answered /\ Profiles # {} /\ (\A p \in Profiles : Score(p) >= 0) =>
        /\ 1 \in DOMAIN data.topRoles
        /\ data.percentage = Score(data.topRoles[1])
        /\ \E p \in Profiles :
              file[p].title = data.bestRole /\ Score(p) = Score(data.topRoles[1])

LEMMA HeadIsBest == RankInv => ScanAgreesWithList
<1> SUFFICES ASSUME RankInv, Answered, Profiles # {}, \A p \in Profiles : Score(p) >= 0
             PROVE  /\ 1 \in DOMAIN data.topRoles
                    /\ data.percentage = Score(data.topRoles[1])
                    /\ \E p \in Profiles : /\ file[p].title = data.bestRole
                                            /\ Score(p) = Score(data.topRoles[1])
  BY DEF ScanAgreesWithList
<1>1. /\ pc \in Done /\ unread = {} /\ Ranked(allResults)
      /\ data.percentage = bestMatch /\ data.bestRole = bestRole
      /\ data.topRoles = Top(allResults)
  BY DEF RankInv, Answered, Done
<1>2. \A p \in Profiles : Score(p) \in Int /\ Score(p) <= bestScore
  BY <1>1, ScoreType DEF RankInv, BestSoFar
<1>3. bestScore \in Int /\ bestScore > NoScore
  BY <1>2, BestScoreType DEF RankInv, NoScore
<1>4. /\ bestMatch = bestScore
      /\ \E p \in Profiles : Score(p) = bestScore /\ file[p].title = bestRole
  <2>1. bestScore # NoScore
    BY <1>3 DEF NoScore
  <2> QED BY <2>1 DEF RankInv, BestSoFar
<1>5. PICK p \in Profiles : Score(p) = bestScore /\ file[p].title = bestRole
  BY <1>4
<1>6. Cardinality(Profiles) > 0
  BY SizeType, ProfilesAssumption, FS_EmptySet
<1>7. /\ 1 \in DOMAIN allResults /\ allResults[1] \in Profiles
      /\ 1 \in DOMAIN Top(allResults) /\ Top(allResults)[1] = allResults[1]
  BY <1>1, <1>6, RankedList, TopOfRanked, SizeType
<1>8. Score(allResults[1]) >= Score(p)
  <2>1. PICK i \in DOMAIN allResults : allResults[i] = p
    BY <1>1, RankedList
  <2>2. i = 1 \/ i > 1
    BY <1>1, <2>1, RankedList, SizeType
  <2> QED BY <1>1, <1>2, <1>5, <1>7, <2>1, <2>2 DEF Ranked
<1>9. Score(allResults[1]) = bestScore
  BY <1>2, <1>3, <1>5, <1>7, <1>8
<1> QED BY <1>1, <1>4, <1>5, <1>7, <1>9

\* The best match and the first role of the list agree.
THEOREM BestIsFirst == RankingSpec => []ScanAgreesWithList
  BY RankCorrect, HeadIsBest, PTL

\* With one title per profile, the last position of a title is its only one.
LEMMA BarsOfTop ==
    ASSUME RankInv, pc \in Done, NEW i \in DOMAIN Top(allResults),
           \A p, q \in ToSet(Top(allResults)) : file[p].title = file[q].title => p = q
    PROVE  Comparison(Top(allResults))[file[Top(allResults)[i]].title]
               = Score(Top(allResults)[i])
<1> DEFINE top == Top(allResults)
           t == file[top[i]].title
           at == {j \in DOMAIN top : file[top[j]].title = t}
<1>1. Ranked(allResults)
  BY DEF RankInv
<1>2. \A j, k \in DOMAIN top : top[j] = top[k] => j = k
  BY <1>1, TopOfRanked, RankedList
<1>3. \A j \in DOMAIN top : top[j] \in ToSet(top)
  BY DEF ToSet
<1>4. at = {i}
  BY <1>2, <1>3
<1>5. i \in Int
  BY <1>1, TopOfRanked, SizeType
<1>6. Max(at) = i
  <2>1. \E x \in at : \A y \in at : x >= y
    BY <1>4, <1>5
  <2> HIDE DEF at
  <2> QED BY <1>4, <2>1 DEF Max
<1>7. t \in {file[top[j]].title : j \in DOMAIN top}
  OBVIOUS
<1>8. Comparison(top)[t] = Score(top[Max(at)])
  BY <1>7 DEF Comparison
<1> QED BY <1>6, <1>8

LEMMA TopIsRight == RankInv => TopRolesDominate
<1> SUFFICES ASSUME RankInv, Answered PROVE TopRolesDominate
  BY DEF TopRolesDominate
<1> DEFINE top == Top(allResults)
<1>1. /\ Ranked(allResults)
      /\ data.topRoles = top /\ data.comparison = Comparison(top)
  BY DEF RankInv, Answered, Done
<1>2. Len(top) = IF Cardinality(Profiles) < 3 THEN Cardinality(Profiles) ELSE 3
  BY <1>1, TopOfRanked
<1>3. Cardinality(ToSet(top)) = Len(top)
  BY <1>1, TopSize
<1>4. \A i, j \in DOMAIN top : i < j => Score(top[i]) >= Score(top[j])
  BY <1>1, TopOfRanked DEF Ranked
<1>5. ASSUME NEW p \in Profiles \ ToSet(top), NEW i \in DOMAIN top
      PROVE  Score(top[i]) >= Score(p)
  <2>1. PICK j \in DOMAIN allResults : allResults[j] = p
    BY <1>1, RankedList
  <2>2. j \notin DOMAIN top
    BY <1>1, <2>1, TopOfRanked, <1>5 DEF ToSet
  <2>3. i \in 1..Len(top) /\ j \in 1..Len(allResults) /\ j \notin 1..Len(top)
        /\ Len(top) \in Nat
    BY <1>1, <1>2, <2>2, TopOfRanked, RankedList, SizeType
  <2>4. i < j
    BY <2>3
  <2> QED BY <1>1, <2>1, <2>4, TopOfRanked DEF Ranked
<1>6. (\A p, q \in ToSet(top) : file[p].title = file[q].title => p = q)
      => \A i \in DOMAIN top :
            Comparison(top)[file[top[i]].title] = Score(top[i])
  BY BarsOfTop DEF Answered, Done
<1> HIDE DEF top
<1> QED BY <1>1, <1>2, <1>3, <1>4, <1>5, <1>6 DEF TopRolesDominate

\* The role list of an answer is the right one and agrees with the comparison,
\* whatever order the directory is read and equal scores are sorted in.
THEOREM TopRolesAreBest == RankingSpec => []TopRolesDominate
  BY RankCorrect, TopIsRight, PTL

\* The locals of the ranking keep their types.
THEOREM RankingTypes == RankingSpec => []RankingTypeOK
  BY RankCorrect, PTL DEF RankInv
==============================================================================
