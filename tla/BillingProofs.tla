---------------------------- MODULE BillingProofs ---------------------------
(***************************************************************************)
(* Safety of usage billing for every hierarchy, price list, number of      *)
(* bindings and amount of traffic.                                         *)
(***************************************************************************)
EXTENDS Billing, TLAPS, FiniteSetTheorems

-----------------------------------------------------------------------------
(* Inductions over finite sets, by a smallest subset without the claim.    *)

(* Among sets of subsets of a finite set one has no proper subset in it.   *)
LEMMA LeastSubset ==
  ASSUME NEW S, IsFiniteSet(S), NEW B, B \subseteq SUBSET S, B # {}
  PROVE  \E U \in B : \A V \in B : ~ (V \subseteq U /\ V # U)
<1>1. IsWellFoundedOn(StrictSubsetOrdering(S), FiniteSubsetsOf(S))
  BY FS_StrictSubsetOrderingWellFounded
<1>2. \A U \in SUBSET S : IsFiniteSet(U)
  BY FS_Subset
<1>3. B \subseteq FiniteSubsetsOf(S)
  BY <1>2 DEF FiniteSubsetsOf
<1>4. \E U \in B : \A V \in B : ~ (<<V, U>> \in StrictSubsetOrdering(S))
  BY <1>1, <1>3, WFMin
<1> QED
  BY <1>4 DEF StrictSubsetOrdering

LEMMA MaxIs ==
  ASSUME NEW s, IsFiniteSet(s), s \subseteq Int, s # {}
  PROVE  Max(s) \in s
<1> DEFINE Greatest(U) == \E x \in U : \A y \in U : x >= y
           Bad == {U \in SUBSET s : U # {} /\ ~ Greatest(U)}
<1>1. Bad = {}
  <2> SUFFICES ASSUME Bad # {} PROVE FALSE
    OBVIOUS
  <2>1. PICK U \in Bad : \A V \in Bad : ~ (V \subseteq U /\ V # U)
    <3>1. Bad \subseteq SUBSET s /\ Bad # {} /\ IsFiniteSet(s)
      OBVIOUS
    <3> HIDE DEF Bad
    <3> QED
      BY ONLY <3>1, LeastSubset
  <2>2. PICK z : z \in U
    OBVIOUS
  <2>3. U \subseteq Int /\ ~ Greatest(U)
    OBVIOUS
  <2>4. U \ {z} # {}
    BY <2>2, <2>3
  <2>5. Greatest(U \ {z})
    <3> SUFFICES ASSUME ~ Greatest(U \ {z}) PROVE FALSE
      OBVIOUS
    <3>1. U \ {z} \subseteq s
      OBVIOUS
    <3> HIDE DEF Greatest
    <3>2. U \ {z} \in Bad
      BY <2>4, <3>1
    <3> QED
      BY <2>1, <2>2, <3>2
  <2>6. PICK x \in U \ {z} : \A y \in U \ {z} : x >= y
    BY <2>5
  <2>7. x \in Int /\ z \in Int
    BY <2>2, <2>3
  <2>8. (x >= z /\ \A y \in U : x >= y) \/ (z >= x /\ \A y \in U : z >= y)
    BY <2>3, <2>6, <2>7
  <2> QED
    BY <2>2, <2>3, <2>8
<1>2. Greatest(s)
  BY <1>1
<1> QED
  BY <1>2 DEF Max

(* What holds of the empty set, and of every set when it holds of the set  *)
(* without its first element, holds of every subset of a finite set.       *)
LEMMA SetInduction ==
  ASSUME NEW D, IsFiniteSet(D), NEW it, NEW W, NEW C,
         \A s \in SUBSET D : s # {} => C[s] \in s,
         it[{}] \in W[{}],
         \A s \in SUBSET D : s # {} /\ it[s \ {C[s]}] \in W[s \ {C[s]}] => it[s] \in W[s]
  PROVE  \A s \in SUBSET D : it[s] \in W[s]
<1> DEFINE B == {s \in SUBSET D : it[s] \notin W[s]}
<1> SUFFICES ASSUME B # {} PROVE FALSE
  OBVIOUS
<1>1. PICK U \in B : \A V \in B : ~ (V \subseteq U /\ V # U)
  <2>1. B \subseteq SUBSET D
    OBVIOUS
  <2> HIDE DEF B
  <2> QED
    BY <2>1, LeastSubset
<1>2. U \in SUBSET D /\ it[U] \notin W[U] /\ U # {}
  OBVIOUS
<1>3. C[U] \in U
  BY <1>2
<1>4. U \ {C[U]} \in SUBSET D /\ U \ {C[U]} \subseteq U /\ U \ {C[U]} # U
  BY <1>2, <1>3
<1>5. it[U \ {C[U]}] \in W[U \ {C[U]}]
  BY <1>1, <1>4
<1> QED
  BY <1>2, <1>5

(* A fold over a set that takes its elements in the order C.               *)
IsFold(it, S, C, F, base) ==
  it = [s \in SUBSET S |-> IF s = {} THEN base ELSE F[C[s]][it[s \ {C[s]}]]]
TheFold(S, C, F, base) == CHOOSE it : IsFold(it, S, C, F, base)

LEMMA FoldUnique ==
  ASSUME NEW C, NEW F, NEW base, NEW A, NEW B, NEW f, NEW g,
         IsFold(f, A, C, F, base), IsFold(g, B, C, F, base),
         NEW S, IsFiniteSet(S), S \subseteq A, S \subseteq B,
         \A s \in SUBSET S : s # {} => C[s] \in s
  PROVE  f[S] = g[S]
<1> DEFINE W == [s \in SUBSET S |-> {g[s]}]
<1>1. \A s \in SUBSET S : f[s] = IF s = {} THEN base ELSE F[C[s]][f[s \ {C[s]}]]
  BY DEF IsFold
<1>2. \A s \in SUBSET S : g[s] = IF s = {} THEN base ELSE F[C[s]][g[s \ {C[s]}]]
  BY DEF IsFold
<1>3. \A s \in SUBSET S : W[s] = {g[s]} /\ s \ {C[s]} \in SUBSET S
  OBVIOUS
<1>0. {} \in SUBSET S
  OBVIOUS
<1> HIDE DEF W
<1>4. f[{}] \in W[{}]
  <2>1. f[{}] = base
    BY <1>0, <1>1
  <2>2. g[{}] = base
    BY <1>0, <1>2
  <2>3. W[{}] = {g[{}]}
    BY <1>0, <1>3
  <2> QED
    BY <2>1, <2>2, <2>3
<1>5. \A s \in SUBSET S : s # {} /\ f[s \ {C[s]}] \in W[s \ {C[s]}] => f[s] \in W[s]
  <2> SUFFICES ASSUME NEW s \in SUBSET S, s # {}, f[s \ {C[s]}] \in W[s \ {C[s]}]
               PROVE  f[s] \in W[s]
    OBVIOUS
  <2>1. f[s \ {C[s]}] = g[s \ {C[s]}]
    BY <1>3
  <2>2. f[s] = g[s]
    BY <1>1, <1>2, <2>1
  <2> QED
    BY <1>3, <2>2
<1>6. \A s \in SUBSET S : f[s] \in W[s]
  BY <1>4, <1>5, SetInduction
<1> QED
  BY <1>3, <1>6

LEMMA FoldExists ==
  ASSUME NEW D, IsFiniteSet(D), NEW C, NEW F, NEW base,
         \A s \in SUBSET D : s # {} => C[s] \in s
  PROVE  IsFold(TheFold(D, C, F, base), D, C, F, base)
<1> DEFINE Iter(U) == TheFold(U, C, F, base)
           Folds(U) == IsFold(Iter(U), U, C, F, base)
           Bad == {U \in SUBSET D : ~ Folds(U)}
<1> SUFFICES ASSUME Bad # {} PROVE FALSE
  OBVIOUS
<1>1. PICK U \in Bad : \A V \in Bad : ~ (V \subseteq U /\ V # U)
  <2>1. Bad \subseteq SUBSET D
    OBVIOUS
  <2> HIDE DEF Bad
  <2> QED
    BY <2>1, LeastSubset
<1>2. U \subseteq D /\ ~ Folds(U) /\ \A V \in SUBSET U : V # U => Folds(V)
  BY <1>1
<1>3. \A V \in SUBSET U : IsFiniteSet(V) /\ \A s \in SUBSET V : s # {} => C[s] \in s
  BY <1>2, FS_Subset
<1> HIDE DEF Bad, Folds, Iter
<1> DEFINE it == [s \in SUBSET U |-> IF s = {} THEN base ELSE F[C[s]][Iter(s \ {C[s]})[s \ {C[s]}]]]
<1>4. ASSUME NEW s \in SUBSET U, s # {}
      PROVE  it[s \ {C[s]}] = Iter(s \ {C[s]})[s \ {C[s]}]
  <2> DEFINE r == s \ {C[s]}
  <2>1. r \in SUBSET U /\ r # U /\ (r # {} => C[r] \in r)
    BY <1>3, <1>4
  <2>2. Folds(r)
    BY <1>2, <2>1
  <2> HIDE DEF r
  <2>3. Iter(r)[r] = IF r = {} THEN base ELSE F[C[r]][Iter(r)[r \ {C[r]}]]
    BY <2>2 DEF Folds, IsFold
  <2>4. ASSUME r # {} PROVE Iter(r)[r \ {C[r]}] = Iter(r \ {C[r]})[r \ {C[r]}]
    <3> DEFINE q == r \ {C[r]}
    <3>1. q \in SUBSET U /\ q # U /\ q \subseteq r
      BY <2>1, <2>4
    <3> HIDE DEF q
    <3>2. Folds(q) /\ IsFiniteSet(q) /\ \A t \in SUBSET q : t # {} => C[t] \in t
      BY <3>1, <1>2, <1>3
    <3>3. Iter(r)[q] = Iter(q)[q]
      BY <2>2, <3>1, <3>2, FoldUnique DEF Folds
    <3> QED
      BY <3>3 DEF q
  <2>5. it[r] = IF r = {} THEN base ELSE F[C[r]][Iter(r \ {C[r]})[r \ {C[r]}]]
    BY <2>1
  <2> QED
    BY <2>3, <2>4, <2>5 DEF r
<1>5. IsFold(it, U, C, F, base)
  <2> DEFINE jt == [s \in SUBSET U |-> IF s = {} THEN base ELSE F[C[s]][it[s \ {C[s]}]]]
  <2>1. \A s \in SUBSET U : it[s] = IF s = {} THEN base
                                     ELSE F[C[s]][Iter(s \ {C[s]})[s \ {C[s]}]]
    OBVIOUS
  <2>2. \A s \in SUBSET U : it[s] = jt[s]
    BY <1>4, <2>1
  <2>3. it = jt
    BY <2>2
  <2> QED
    BY <2>3 DEF IsFold
<1> HIDE DEF it
<1>6. Folds(U)
  BY <1>5 DEF Folds, Iter, TheFold
<1> QED
  BY <1>2, <1>6
-----------------------------------------------------------------------------
(* The units of traffic of a finite set of rows add up in any order.        *)
Pick(s) == CHOOSE x \in s : TRUE
IsUnits(it, S) == it = [s \in SUBSET S |-> IF s = {} THEN 0 ELSE Pick(s).to - Pick(s).from + it[s \ {Pick(s)}]]
UnitsIter(S) == CHOOSE it : IsUnits(it, S)
Counted(S) == IsFiniteSet(S) /\ \A r \in S : r.to - r.from \in Int

LEMMA UnitsIs == ASSUME NEW S PROVE Units(S) = UnitsIter(S)[S]
BY DEF Units, MapThenSumSet, MapThenFoldSet, UnitsIter, IsUnits, Pick

LEMMA PickIs == ASSUME NEW s, s # {} PROVE Pick(s) \in s
BY DEF Pick

LEMMA CountedPart == ASSUME NEW S, Counted(S), NEW U \in SUBSET S PROVE Counted(U)
BY FS_Subset DEF Counted

LEMMA UnitsExists ==
  ASSUME NEW S, Counted(S)
  PROVE  IsUnits(UnitsIter(S), S)
<1> DEFINE C == [s \in SUBSET S |-> Pick(s)]
           F == [r \in S |-> [n \in Int |-> r.to - r.from + n]]
           it == TheFold(S, C, F, 0)
           W == [s \in SUBSET S |-> Int]
<1>1. \A s \in SUBSET S : C[s] = Pick(s) /\ (s # {} => C[s] \in s) /\ W[s] = Int /\ s \ {C[s]} \in SUBSET S
  BY PickIs
<1>2. \A r \in S : \A n \in Int : F[r][n] = r.to - r.from + n /\ F[r][n] \in Int
  BY DEF Counted
<1>3. IsFiniteSet(S) /\ {} \in SUBSET S
  BY DEF Counted
<1> HIDE DEF C, F, W, it
<1>4. IsFold(it, S, C, F, 0)
  BY <1>1, <1>3, FoldExists DEF it
<1>5. \A s \in SUBSET S : it[s] = IF s = {} THEN 0 ELSE F[C[s]][it[s \ {C[s]}]]
  BY <1>4 DEF IsFold
<1>6. it[{}] \in W[{}]
  <2>1. it[{}] = 0
    BY <1>3, <1>5
  <2> QED
    BY <1>1, <1>3, <2>1
<1>7. \A s \in SUBSET S : s # {} /\ it[s \ {C[s]}] \in W[s \ {C[s]}] => it[s] \in W[s]
  <2> SUFFICES ASSUME NEW s \in SUBSET S, s # {}, it[s \ {C[s]}] \in W[s \ {C[s]}]
               PROVE  it[s] \in W[s]
    OBVIOUS
  <2>1. C[s] \in S /\ it[s \ {C[s]}] \in Int
    BY <1>1
  <2>2. F[C[s]][it[s \ {C[s]}]] \in Int
    BY <1>2, <2>1
  <2>3. it[s] = F[C[s]][it[s \ {C[s]}]]
    BY <1>5
  <2>4. W[s] = Int
    BY <1>1
  <2> QED
    BY <2>2, <2>3, <2>4
<1>8. \A s \in SUBSET S : it[s] \in W[s]
  <2>1. IsFiniteSet(S) /\ \A s \in SUBSET S : s # {} => C[s] \in s
    BY <1>1, <1>3
  <2> QED
    BY ONLY <1>6, <1>7, <2>1, SetInduction
<1>9. \A s \in SUBSET S : it[s] = IF s = {} THEN 0 ELSE Pick(s).to - Pick(s).from + it[s \ {Pick(s)}]
  <2> SUFFICES ASSUME NEW s \in SUBSET S, s # {}
               PROVE  it[s] = Pick(s).to - Pick(s).from + it[s \ {Pick(s)}]
    BY <1>5
  <2>1. C[s] = Pick(s) /\ C[s] \in S /\ it[s \ {C[s]}] \in Int
    BY <1>1, <1>8
  <2>2. F[C[s]][it[s \ {C[s]}]] = C[s].to - C[s].from + it[s \ {C[s]}]
    BY <1>2, <2>1
  <2> QED
    BY <1>5, <2>1, <2>2
<1>10. it = [s \in SUBSET S |-> it[s]]
  BY <1>4 DEF IsFold
<1>11. IsUnits(it, S)
  <2> DEFINE jt == [s \in SUBSET S |-> IF s = {} THEN 0 ELSE Pick(s).to - Pick(s).from + it[s \ {Pick(s)}]]
  <2>1. \A s \in SUBSET S : it[s] = jt[s]
    BY <1>9
  <2>2. it = jt
    BY <1>10, <2>1
  <2> QED
    BY <2>2 DEF IsUnits
<1> QED
  BY <1>11 DEF UnitsIter

LEMMA UnitsUnique ==
  ASSUME NEW A, NEW f, NEW g, NEW S, IsFiniteSet(S), S \subseteq A, IsUnits(f, A), IsUnits(g, S)
  PROVE  f[S] = g[S]
<1> DEFINE C == [s \in SUBSET S |-> Pick(s)]
           W == [s \in SUBSET S |-> {g[s]}]
<1>1. \A s \in SUBSET S : C[s] = Pick(s) /\ (s # {} => C[s] \in s) /\ W[s] = {g[s]} /\ s \ {C[s]} \in SUBSET S
  BY PickIs
<1>2. \A s \in SUBSET S : f[s] = IF s = {} THEN 0 ELSE Pick(s).to - Pick(s).from + f[s \ {Pick(s)}]
  BY DEF IsUnits
<1>3. \A s \in SUBSET S : g[s] = IF s = {} THEN 0 ELSE Pick(s).to - Pick(s).from + g[s \ {Pick(s)}]
  BY DEF IsUnits
<1>4. {} \in SUBSET S /\ S \in SUBSET S
  OBVIOUS
<1> HIDE DEF C, W
<1>5. f[{}] \in W[{}]
  <2>1. f[{}] = 0
    BY <1>2, <1>4
  <2>2. g[{}] = 0
    BY <1>3, <1>4
  <2>3. W[{}] = {g[{}]}
    BY <1>1, <1>4
  <2> QED
    BY <2>1, <2>2, <2>3
<1>6. \A s \in SUBSET S : s # {} /\ f[s \ {C[s]}] \in W[s \ {C[s]}] => f[s] \in W[s]
  <2> SUFFICES ASSUME NEW s \in SUBSET S, s # {}, f[s \ {C[s]}] \in W[s \ {C[s]}]
               PROVE  f[s] \in W[s]
    OBVIOUS
  <2>1. f[s \ {C[s]}] = g[s \ {C[s]}]
    BY <1>1
  <2>2. C[s] = Pick(s)
    BY <1>1
  <2>3. f[s] = Pick(s).to - Pick(s).from + f[s \ {Pick(s)}]
    BY <1>2
  <2>4. g[s] = Pick(s).to - Pick(s).from + g[s \ {Pick(s)}]
    BY <1>3
  <2> QED
    BY <1>1, <2>1, <2>2, <2>3, <2>4
<1>7. \A s \in SUBSET S : f[s] \in W[s]
  BY <1>1, <1>5, <1>6, SetInduction
<1> QED
  BY <1>1, <1>4, <1>7

(* The units of a set are those of any of its rows and those of the others.*)
LEMMA UnitsPick ==
  ASSUME NEW S, Counted(S)
  PROVE  Units(S) = IF S = {} THEN 0 ELSE Pick(S).to - Pick(S).from + Units(S \ {Pick(S)})
<1>1. IsUnits(UnitsIter(S), S)
  BY UnitsExists
<1>2. UnitsIter(S)[S] = IF S = {} THEN 0 ELSE Pick(S).to - Pick(S).from + UnitsIter(S)[S \ {Pick(S)}]
  BY <1>1 DEF IsUnits
<1> DEFINE r == S \ {Pick(S)}
<1>3. r \in SUBSET S
  OBVIOUS
<1> HIDE DEF r
<1>4. IsUnits(UnitsIter(r), r) /\ IsFiniteSet(r)
  BY <1>3, CountedPart, UnitsExists DEF Counted
<1>5. UnitsIter(S)[r] = UnitsIter(r)[r]
  BY <1>1, <1>3, <1>4, UnitsUnique
<1> QED
  BY <1>2, <1>5, UnitsIs DEF r

LEMMA UnitsRemove ==
  ASSUME NEW S, Counted(S)
  PROVE  \A U \in SUBSET S :
           Units(U) \in Int /\ \A y \in U : Units(U) = y.to - y.from + Units(U \ {y})
<1> DEFINE P(U) == Units(U) \in Int /\ \A y \in U : Units(U) = y.to - y.from + Units(U \ {y})
           Bad == {U \in SUBSET S : ~P(U)}
<1> SUFFICES ASSUME Bad # {} PROVE FALSE
  OBVIOUS
<1>1. PICK U \in Bad : \A V \in Bad : ~ (V \subseteq U /\ V # U)
  <2>1. Bad \subseteq SUBSET S /\ IsFiniteSet(S)
    BY DEF Counted
  <2> HIDE DEF Bad
  <2> QED
    BY <2>1, LeastSubset
<1>2. U \subseteq S /\ ~P(U) /\ \A V \in SUBSET U : V # U => P(V)
  BY <1>1
<1>3. Counted(U) /\ \A y \in U : y.to - y.from \in Int
  BY <1>2, CountedPart DEF Counted
<1> HIDE DEF Bad, P
<1>4. U # {}
  <2> SUFFICES ASSUME U = {} PROVE P(U)
    BY <1>2
  <2>1. Units(U) = 0
    BY <1>3, UnitsPick
  <2> QED
    BY <2>1 DEF P
<1> DEFINE z == Pick(U)
<1>5. z \in U /\ Units(U) = z.to - z.from + Units(U \ {z}) /\ z.to - z.from \in Int
  BY <1>3, <1>4, PickIs, UnitsPick
<1> HIDE DEF z
<1>6. P(U \ {z})
  BY <1>2, <1>5
<1>7. Units(U \ {z}) \in Int /\ Units(U) \in Int
  BY <1>5, <1>6 DEF P
<1>8. ASSUME NEW y \in U, y # z PROVE Units(U) = y.to - y.from + Units(U \ {y})
  <2> DEFINE r == U \ {y, z}
  <2>1. (U \ {z}) \ {y} = r /\ (U \ {y}) \ {z} = r /\ y \in U \ {z} /\ z \in U \ {y}
    BY <1>5, <1>8
  <2>2. P(U \ {y})
    BY <1>2, <1>8
  <2>3. P(r)
    BY <1>2, <1>8
  <2> HIDE DEF r
  <2>4. Units(U \ {z}) = y.to - y.from + Units(r)
    BY <1>6, <2>1 DEF P
  <2>5. Units(U \ {y}) = z.to - z.from + Units(r)
    BY <2>1, <2>2 DEF P
  <2>6. y.to - y.from \in Int /\ Units(r) \in Int
    BY <1>3, <2>3 DEF P
  <2> DEFINE a == y.to - y.from
             c == z.to - z.from
             n == Units(r)
  <2>7. a \in Int /\ c \in Int /\ n \in Int /\ Units(U) = c + (a + n) /\ Units(U \ {y}) = c + n
    BY <1>5, <2>4, <2>5, <2>6
  <2> HIDE DEF a, c, n
  <2>8. Units(U) = a + Units(U \ {y})
    BY <2>7
  <2> QED
    BY <2>8 DEF a
<1> QED
  BY <1>2, <1>5, <1>7, <1>8 DEF P

LEMMA UnitsAdd ==
  ASSUME NEW T, Counted(T), NEW x, x \notin T, x.to - x.from \in Int
  PROVE  Units(T) \in Int /\ Units(T \union {x}) = x.to - x.from + Units(T)
<1> DEFINE U == T \union {x}
<1>1. Counted(U)
  BY FS_AddElement DEF Counted
<1>2. U \in SUBSET U /\ x \in U /\ U \ {x} = T /\ T \in SUBSET U
  OBVIOUS
<1> HIDE DEF U
<1>3. Units(U) = x.to - x.from + Units(U \ {x}) /\ Units(T) \in Int
  BY <1>1, <1>2, UnitsRemove
<1> QED
  BY ONLY <1>2, <1>3 DEF U
-----------------------------------------------------------------------------
(* One edge, and the cascade over all edges of a path.                     *)

Outcomes == {"accepted", "hold", "error"}
Results == [db: Databases, outcome: Outcomes]
Row(b, from, to, o) == [binding |-> b, from |-> from, to |-> to, payer |-> o]
Rows(d, b) == {r \in d.settled : r.binding = b}

(* Rows that could be charged, finitely many of them.                      *)
Sound(d) ==
  /\ IsFiniteSet(d.settled)
  /\ \A r \in d.settled : PriceUsage(r.binding, r.payer, r.to - r.from) > 0

LEMMA ReadingsAreInt == Readings \subseteq Int
BY BoundAssumption DEF Readings

LEMMA PriceIsInt ==
  ASSUME NEW b \in Bindings, NEW o \in Orgs, NEW n \in Int
  PROVE  PriceUsage(b, o, n) \in Int
<1> DEFINE p == 2 * n * Price[o] * Coefficient[b] + Gib
           q == 2 * Gib
<1>1. Price[o] \in Int /\ Coefficient[b] \in Int /\ Gib \in Int /\ Gib > 0
  BY PriceAssumption
<1>2. 2 * n * Price[o] \in Int
  BY <1>1
<1>3. p \in Int /\ q \in Int /\ q > 0
  BY <1>1, <1>2
<1> HIDE DEF p, q
<1>4. p \div q \in Int
  BY <1>3
<1> QED
  BY <1>4 DEF PriceUsage, p, q

LEMMA PathIs ==
  ASSUME NEW b \in Bindings
  PROVE  /\ Path[b] \in Seq(Orgs) /\ DOMAIN Path[b] = 1..Len(Path[b]) /\ Len(Path[b]) \in Nat
         /\ ToSet(Path[b]) \subseteq Orgs
         /\ \A o : o \in ToSet(Path[b]) <=> \E k \in DOMAIN Path[b] : o = Path[b][k]
BY PathAssumption DEF ToSet

LEMMA ParentIs ==
  ASSUME NEW b \in Bindings, NEW o \in ToSet(Path[b])
  PROVE  Parent(b, o) \in Payers
<1> DEFINE i == CHOOSE n \in 1..Len(Path[b]) : Path[b][n] = o
<1>1. \E n \in 1..Len(Path[b]) : Path[b][n] = o
  BY PathIs
<1>2. i \in 1..Len(Path[b])
  BY <1>1
<1>3. Parent(b, o) = IF i = Len(Path[b]) THEN Root ELSE Path[b][i + 1]
  BY DEF Parent
<1> HIDE DEF i
<1>4. i # Len(Path[b]) => i + 1 \in 1..Len(Path[b])
  BY <1>2, PathIs
<1>5. i # Len(Path[b]) => Path[b][i + 1] \in Orgs
  BY <1>4, PathIs
<1> QED
  BY <1>3, <1>5 DEF Payers

(* What the edges charged so far may have made of the database d.          *)
Charging(d, b, from, to, acc) ==
  /\ acc \in Results
  /\ acc.db.cp = d.cp /\ acc.db.accepted = d.accepted
  /\ acc.db.holds = d.holds /\ acc.db.held = d.held /\ acc.db.suspended = d.suspended
  /\ d.settled \subseteq acc.db.settled
  /\ acc.db.settled \subseteq d.settled \union {Row(b, from, to, o) : o \in ToSet(Path[b])}
  /\ Sound(acc.db)
  /\ acc.outcome # "accepted" => \E o \in ToSet(Path[b]) : Row(b, from, to, o) \notin acc.db.settled

LEMMA EdgeStep ==
  ASSUME NEW d, NEW b \in Bindings, NEW from \in Readings, NEW to \in Readings, NEW acc,
         Charging(d, b, from, to, acc), NEW o \in ToSet(Path[b])
  PROVE  LET e == SettleEdge(b, from, to, acc, o)
         IN  /\ Charging(d, b, from, to, e)
             /\ acc.db.settled \subseteq e.db.settled
             /\ e.outcome = "accepted" => acc.outcome = "accepted" /\ Row(b, from, to, o) \in e.db.settled
<1> DEFINE e == SettleEdge(b, from, to, acc, o)
           amount == PriceUsage(b, o, to - from)
           row == Row(b, from, to, o)
           next == [acc EXCEPT !.db = [acc.db EXCEPT !.settled = @ \union {row},
                                                     !.balance = [acc.db.balance EXCEPT ![o] = @ - amount,
                                                                   ![Parent(b, o)] = @ + amount]]]
<1>1. acc \in Results /\ acc.db \in Databases /\ o \in Orgs /\ o \in Payers
  BY PathIs DEF Charging, Results, Payers
<1>2. to - from \in Int /\ amount \in Int
  BY <1>1, ReadingsAreInt, PriceIsInt
<1>3. row \in Settlement
  BY <1>1 DEF Settlement, Row
<1>4. /\ row.binding = b /\ row.payer = o /\ row.from = from /\ row.to = to
      /\ amount = PriceUsage(row.binding, row.payer, row.to - row.from)
  BY DEF Row
<1>5. \/ acc.outcome # "accepted" /\ e = acc
      \/ acc.outcome = "accepted" /\ amount <= 0 /\ e = [acc EXCEPT !.outcome = "error"]
      \/ acc.outcome = "accepted" /\ row \in acc.db.settled /\ e = acc
      \/ acc.outcome = "accepted" /\ row \notin acc.db.settled /\ e = [acc EXCEPT !.outcome = "error"]
      \/ acc.outcome = "accepted" /\ row \notin acc.db.settled /\ e = [acc EXCEPT !.outcome = "hold"]
      \/ /\ acc.outcome = "accepted" /\ amount > 0 /\ row \notin acc.db.settled
         /\ e = next
  <2> HIDE DEF amount
  <2>1. e = CASE acc.outcome # "accepted" -> acc
        [] acc.outcome = "accepted" /\ amount <= 0 -> [acc EXCEPT !.outcome = "error"]
        [] acc.outcome = "accepted" /\ amount > 0 /\ row \in acc.db.settled -> acc
        [] OTHER ->
             IF o \in acc.db.suspended THEN [acc EXCEPT !.outcome = "error"]
             ELSE IF acc.db.balance[o] + CreditLimit[o] < amount THEN [acc EXCEPT !.outcome = "hold"]
             ELSE next
    BY DEF SettleEdge, Row, amount, next
  <2> HIDE DEF e, row, next
  <2> QED
    BY <1>2, <2>1
<1> HIDE DEF e, row, next
<1>7. ASSUME NEW x \in {"hold", "error"}, e = [acc EXCEPT !.outcome = x], row \notin acc.db.settled
      PROVE  Charging(d, b, from, to, e) /\ acc.db.settled \subseteq e.db.settled /\ e.outcome # "accepted"
  <2>1. e \in Results /\ e.db = acc.db /\ e.outcome = x
    BY <1>1, <1>7 DEF Results, Outcomes
  <2>2. \E p \in ToSet(Path[b]) : Row(b, from, to, p) \notin e.db.settled
    BY <1>7, <2>1 DEF row
  <2> QED
    BY <2>1, <2>2 DEF Charging
<1>8. ASSUME acc.outcome = "accepted", amount <= 0 PROVE row \notin acc.db.settled
  <2> HIDE DEF amount
  <2>1. row \in acc.db.settled => amount > 0
    BY <1>4 DEF Charging, Sound
  <2> QED
    BY <1>2, <1>8, <2>1
<1>9. ASSUME acc.outcome = "accepted", amount > 0, row \notin acc.db.settled,
             e = next
      PROVE  Charging(d, b, from, to, e) /\ acc.db.settled \subseteq e.db.settled /\ row \in e.db.settled
  <2> DEFINE bal == [acc.db.balance EXCEPT ![o] = @ - amount, ![Parent(b, o)] = @ + amount]
  <2> HIDE DEF amount
  <2>1. bal \in [Payers -> Int]
    BY <1>1, <1>2, ParentIs DEF Databases
  <2>2. e = [acc EXCEPT !.db = [acc.db EXCEPT !.settled = @ \union {row}, !.balance = bal]]
    BY <1>9 DEF next
  <2> HIDE DEF bal
  <2>3. [acc.db EXCEPT !.settled = @ \union {row}, !.balance = bal] \in Databases
    BY <1>1, <1>3, <2>1 DEF Databases
  <2>4. /\ e \in Results /\ e.outcome = "accepted"
        /\ e.db = [acc.db EXCEPT !.settled = @ \union {row}, !.balance = bal]
    BY <1>1, <1>9, <2>2, <2>3 DEF Results
  <2>5. /\ e.db.settled = acc.db.settled \union {row}
        /\ e.db.cp = acc.db.cp /\ e.db.accepted = acc.db.accepted /\ e.db.holds = acc.db.holds
        /\ e.db.held = acc.db.held /\ e.db.suspended = acc.db.suspended
    BY <1>1, <2>4 DEF Databases
  <2>6. IsFiniteSet(e.db.settled)
    BY <2>5, FS_AddElement DEF Charging, Sound
  <2>7. \A r \in e.db.settled : PriceUsage(r.binding, r.payer, r.to - r.from) > 0
    <3>1. PriceUsage(row.binding, row.payer, row.to - row.from) > 0
      BY <1>4, <1>9
    <3>2. \A r \in acc.db.settled : PriceUsage(r.binding, r.payer, r.to - r.from) > 0
      BY DEF Charging, Sound
    <3> QED
      BY <2>5, <3>1, <3>2
  <2>8. row \in {Row(b, from, to, p) : p \in ToSet(Path[b])}
    BY DEF row
  <2> QED
    BY <2>4, <2>5, <2>6, <2>7, <2>8 DEF Charging, Sound
<1>10. Charging(d, b, from, to, e) /\ acc.db.settled \subseteq e.db.settled
       /\ (e.outcome = "accepted" => acc.outcome = "accepted" /\ row \in e.db.settled)
  <2> HIDE DEF amount
  <2>1. CASE acc.outcome # "accepted" /\ e = acc
    BY <2>1
  <2>2. CASE acc.outcome = "accepted" /\ amount <= 0 /\ e = [acc EXCEPT !.outcome = "error"]
    BY <1>7, <1>8, <2>2
  <2>3. CASE acc.outcome = "accepted" /\ row \in acc.db.settled /\ e = acc
    BY <2>3
  <2>4. CASE acc.outcome = "accepted" /\ row \notin acc.db.settled /\ e = [acc EXCEPT !.outcome = "error"]
    BY <1>7, <2>4
  <2>5. CASE acc.outcome = "accepted" /\ row \notin acc.db.settled /\ e = [acc EXCEPT !.outcome = "hold"]
    BY <1>7, <2>5
  <2>6. CASE /\ acc.outcome = "accepted" /\ amount > 0 /\ row \notin acc.db.settled
             /\ e = next
    BY <1>9, <2>6
  <2> QED
    BY <1>5, <2>1, <2>2, <2>3, <2>4, <2>5, <2>6
<1> QED
  BY <1>10 DEF e, row
(* The fold behind Cascade, as the recursive function it is.                *)
IsCascade(it, b, from, to, base) ==
  it = [s \in SUBSET DOMAIN Path[b] |->
          IF s = {} THEN base ELSE SettleEdge(b, from, to, it[s \ {Max(s)}], Path[b][Max(s)])]

LEMMA CascadeIs ==
  ASSUME NEW d, NEW b, NEW from, NEW to, to # from
  PROVE  Cascade(d, b, from, to)
           = (CHOOSE it : IsCascade(it, b, from, to, [db |-> d, outcome |-> "accepted"]))[DOMAIN Path[b]]
BY DEF Cascade, FoldLeft, MapThenFoldSet, IsCascade

LEMMA CascadeCharges ==
  ASSUME NEW d \in Databases, Sound(d), NEW b \in Bindings,
         NEW from \in Readings, NEW to \in Readings, to # from
  PROVE  LET r == Cascade(d, b, from, to)
         IN  /\ Charging(d, b, from, to, r)
             /\ r.outcome = "accepted" => \A o \in ToSet(Path[b]) : Row(b, from, to, o) \in r.db.settled
<1> DEFINE D == DOMAIN Path[b]
           base == [db |-> d, outcome |-> "accepted"]
           C == [s \in SUBSET D |-> Max(s)]
           F == [k \in D |-> [acc \in Results |-> SettleEdge(b, from, to, acc, Path[b][k])]]
           W == [s \in SUBSET D |->
                   {acc \in Results :
                      /\ Charging(d, b, from, to, acc)
                      /\ acc.outcome = "accepted" =>
                           \A k \in s : Row(b, from, to, Path[b][k]) \in acc.db.settled}]
           it == TheFold(D, C, F, base)
           jt == CHOOSE f : IsCascade(f, b, from, to, base)
<1>1. /\ IsFiniteSet(D) /\ D \subseteq Int /\ {} \in SUBSET D /\ D \in SUBSET D
      /\ \A k \in D : Path[b][k] \in ToSet(Path[b])
      /\ \A o \in ToSet(Path[b]) : \E k \in D : o = Path[b][k]
  <2>1. D = 1..Len(Path[b]) /\ Len(Path[b]) \in Int /\ 1 \in Int
    BY PathIs
  <2>2. IsFiniteSet(D) /\ D \subseteq Int
    BY <2>1, FS_Interval
  <2>3. (\A k \in D : Path[b][k] \in ToSet(Path[b]))
        /\ (\A o \in ToSet(Path[b]) : \E k \in D : o = Path[b][k])
    BY PathIs
  <2> QED
    BY <2>2, <2>3
<1>2. \A s \in SUBSET D : C[s] = Max(s) /\ s \ {C[s]} \in SUBSET D /\ (s # {} => C[s] \in s)
  <2> SUFFICES ASSUME NEW s \in SUBSET D PROVE s # {} => Max(s) \in s
    OBVIOUS
  <2>1. IsFiniteSet(s) /\ s \subseteq Int
    BY <1>1, FS_Subset
  <2> HIDE DEF D
  <2> QED
    BY <2>1, MaxIs
<1>3. \A s \in SUBSET D : W[s] =
        {acc \in Results :
           /\ Charging(d, b, from, to, acc)
           /\ acc.outcome = "accepted" =>
                \A k \in s : Row(b, from, to, Path[b][k]) \in acc.db.settled}
  OBVIOUS
<1>4. \A k \in D : \A acc \in Results : F[k][acc] = SettleEdge(b, from, to, acc, Path[b][k])
  OBVIOUS
<1>5. base \in W[{}]
  <2>1. base \in Results /\ base.db = d /\ base.outcome = "accepted"
    BY DEF Results, Outcomes
  <2>2. Charging(d, b, from, to, base)
    BY <2>1 DEF Charging
  <2> HIDE DEF base, W
  <2> QED
    BY <1>1, <1>3, <2>1, <2>2
<1> HIDE DEF D, base, C, F, W, it
<1>6. ASSUME NEW s \in SUBSET D, s # {}, NEW acc \in W[s \ {C[s]}]
      PROVE  SettleEdge(b, from, to, acc, Path[b][C[s]]) \in W[s]
  <2> DEFINE o == Path[b][C[s]]
             e == SettleEdge(b, from, to, acc, o)
  <2>1. /\ acc \in Results /\ Charging(d, b, from, to, acc)
        /\ acc.outcome = "accepted" =>
             \A k \in s \ {C[s]} : Row(b, from, to, Path[b][k]) \in acc.db.settled
    BY <1>2, <1>3, <1>6
  <2>2. C[s] \in D /\ o \in ToSet(Path[b])
    BY <1>1, <1>2, <1>6
  <2> HIDE DEF o
  <2>3. /\ Charging(d, b, from, to, e) /\ acc.db.settled \subseteq e.db.settled
        /\ e.outcome = "accepted" => acc.outcome = "accepted" /\ Row(b, from, to, o) \in e.db.settled
    BY <2>1, <2>2, EdgeStep
  <2> HIDE DEF e
  <2>4. e \in Results
    BY <2>3 DEF Charging
  <2>5. e.outcome = "accepted" => \A k \in s : Row(b, from, to, Path[b][k]) \in e.db.settled
    BY <2>1, <2>3 DEF o
  <2>6. e \in W[s]
    BY <1>3, <2>3, <2>4, <2>5
  <2> QED
    BY <2>6 DEF e, o
<1>7. IsFold(it, D, C, F, base)
  BY <1>1, <1>2, FoldExists DEF it
<1>8. \A s \in SUBSET D : it[s] = IF s = {} THEN base ELSE F[C[s]][it[s \ {C[s]}]]
  BY <1>7 DEF IsFold
<1>9. \A s \in SUBSET D : it[s] \in W[s]
  <2>1. it[{}] \in W[{}]
    <3>1. it[{}] = base
      BY <1>1, <1>8
    <3> QED
      BY <1>5, <3>1
  <2>2. ASSUME NEW s \in SUBSET D, s # {}, it[s \ {C[s]}] \in W[s \ {C[s]}]
        PROVE  it[s] \in W[s]
    <3>1. it[s \ {C[s]}] \in Results /\ C[s] \in D
      BY <1>2, <1>3, <2>2
    <3>2. it[s] = SettleEdge(b, from, to, it[s \ {C[s]}], Path[b][C[s]])
      BY <1>4, <1>8, <2>2, <3>1
    <3> QED
      BY <1>6, <2>2, <3>2
  <2>3. \A s \in SUBSET D : s # {} /\ it[s \ {C[s]}] \in W[s \ {C[s]}] => it[s] \in W[s]
    BY <2>2
  <2>4. IsFiniteSet(D) /\ \A s \in SUBSET D : s # {} => C[s] \in s
    BY <1>1, <1>2
  <2> QED
    BY ONLY <2>1, <2>3, <2>4, SetInduction
<1>10. IsCascade(it, b, from, to, base)
  <2>1. \A s \in SUBSET D :
          it[s] = IF s = {} THEN base ELSE SettleEdge(b, from, to, it[s \ {Max(s)}], Path[b][Max(s)])
    <3> SUFFICES ASSUME NEW s \in SUBSET D, s # {}
                 PROVE  it[s] = SettleEdge(b, from, to, it[s \ {Max(s)}], Path[b][Max(s)])
      BY <1>8
    <3>1. C[s] = Max(s) /\ C[s] \in D /\ s \ {C[s]} \in SUBSET D
      BY <1>2
    <3>2. it[s \ {C[s]}] \in Results
      BY <1>3, <1>9, <3>1
    <3>3. it[s] = F[C[s]][it[s \ {C[s]}]]
      BY <1>8
    <3> QED
      BY <1>4, <3>1, <3>2, <3>3
  <2> DEFINE kt == [s \in SUBSET D |->
                      IF s = {} THEN base ELSE SettleEdge(b, from, to, it[s \ {Max(s)}], Path[b][Max(s)])]
  <2>2. it = [s \in SUBSET D |-> it[s]]
    BY <1>7 DEF IsFold
  <2>3. \A s \in SUBSET D : it[s] = kt[s]
    BY <2>1
  <2>4. it = kt
    BY <2>2, <2>3
  <2> QED
    BY <2>4 DEF IsCascade, D
<1>11. IsCascade(jt, b, from, to, base)
  BY <1>10
<1> HIDE DEF jt
<1>12. \A s \in SUBSET D :
         jt[s] = IF s = {} THEN base ELSE SettleEdge(b, from, to, jt[s \ {Max(s)}], Path[b][Max(s)])
  BY <1>11 DEF IsCascade, D
<1>13. \A s \in SUBSET D : jt[s] \in W[s]
  <2>1. jt[{}] \in W[{}]
    <3>1. jt[{}] = base
      BY <1>1, <1>12
    <3> QED
      BY <1>5, <3>1
  <2>2. ASSUME NEW s \in SUBSET D, s # {}, jt[s \ {C[s]}] \in W[s \ {C[s]}]
        PROVE  jt[s] \in W[s]
    <3>1. jt[s] = SettleEdge(b, from, to, jt[s \ {C[s]}], Path[b][C[s]])
      BY <1>2, <1>12, <2>2
    <3> QED
      BY <1>6, <2>2, <3>1
  <2>3. \A s \in SUBSET D : s # {} /\ jt[s \ {C[s]}] \in W[s \ {C[s]}] => jt[s] \in W[s]
    BY <2>2
  <2>4. IsFiniteSet(D) /\ \A s \in SUBSET D : s # {} => C[s] \in s
    BY <1>1, <1>2
  <2> QED
    BY ONLY <2>1, <2>3, <2>4, SetInduction
<1>14. Cascade(d, b, from, to) = jt[D]
  BY CascadeIs DEF jt, base, D
<1>15. jt[D] \in W[D]
  BY <1>1, <1>13
<1> QED
  BY <1>1, <1>3, <1>14, <1>15
-----------------------------------------------------------------------------
(* What one observation makes of a binding's checkpoint, accepted usage    *)
(* and ledger rows; the other bindings keep theirs.                        *)

At(reading) == [bytes |-> reading, anomalies |-> 0]
Same(d, e, c) == e.cp[c] = d.cp[c] /\ e.accepted[c] = d.accepted[c] /\ Rows(e, c) = Rows(d, c)

Baselined(d, e, b, reading) ==
  /\ d.cp[b] = NoReading /\ e.cp[b] = At(reading)
  /\ e.accepted[b] = d.accepted[b] /\ Rows(e, b) = Rows(d, b)

Regressed(d, e, b, reading) ==
  /\ d.cp[b] # NoReading /\ reading < d.cp[b].bytes
  /\ e.cp[b] = IF d.cp[b].anomalies + 1 >= ConfirmReadings THEN At(reading)
               ELSE [bytes |-> d.cp[b].bytes, anomalies |-> d.cp[b].anomalies + 1]
  /\ e.accepted[b] = d.accepted[b] /\ Rows(e, b) = Rows(d, b)

Charges(d, e, b, reading) ==
  /\ d.cp[b] # NoReading /\ reading > d.cp[b].bytes
  /\ Rows(d, b) \subseteq Rows(e, b)
  /\ Rows(e, b) \subseteq Rows(d, b) \union {Row(b, d.cp[b].bytes, reading, o) : o \in ToSet(Path[b])}

AllPaid(d, e, b, reading) ==
  \A o \in ToSet(Path[b]) : Row(b, d.cp[b].bytes, reading, o) \in Rows(e, b)

Accepted(d, e, b, reading) ==
  /\ d.cp[b] # NoReading /\ reading >= d.cp[b].bytes
  /\ e.cp[b] = At(reading)
  /\ e.accepted[b] = d.accepted[b] + (reading - d.cp[b].bytes)
  /\ \/ reading = d.cp[b].bytes /\ Rows(e, b) = Rows(d, b)
     \/ Charges(d, e, b, reading) /\ AllPaid(d, e, b, reading)

Refused(d, e, b, reading) ==
  /\ e.cp[b] = d.cp[b] /\ e.accepted[b] = d.accepted[b]
  /\ Charges(d, e, b, reading) /\ ~ AllPaid(d, e, b, reading)

Moved(d, e, b, reading) ==
  Baselined(d, e, b, reading) \/ Regressed(d, e, b, reading) \/ Accepted(d, e, b, reading)

LEMMA CheckpointIs ==
  ASSUME NEW d \in Databases, NEW b \in Bindings, d.cp[b] # NoReading
  PROVE  /\ d.cp[b] \in Checkpoint
         /\ d.cp[b].bytes \in Readings /\ d.cp[b].bytes \in Int
         /\ d.cp[b].anomalies \in Nat /\ d.cp[b].anomalies < ConfirmReadings
<1>1. d.cp[b] \in Checkpoint
  BY DEF Databases
<1>2. d.cp[b].bytes \in Readings /\ d.cp[b].anomalies \in 0..(ConfirmReadings - 1)
  BY <1>1 DEF Checkpoint
<1>3. ConfirmReadings \in Nat
  BY PriceAssumption
<1>4. d.cp[b].anomalies \in Nat /\ d.cp[b].anomalies < ConfirmReadings
  BY <1>2, <1>3
<1>5. d.cp[b].bytes \in Int
  BY <1>2, ReadingsAreInt
<1> QED
  BY <1>1, <1>2, <1>4, <1>5

LEMMA CheckpointMoves ==
  ASSUME NEW d \in Databases, NEW b \in Bindings, NEW k \in Checkpoint
  PROVE  /\ [d EXCEPT !.cp[b] = k] \in Databases
         /\ [d EXCEPT !.cp[b] = k].settled = d.settled
         /\ [d EXCEPT !.cp[b] = k].accepted = d.accepted
         /\ [d EXCEPT !.cp[b] = k].cp[b] = k
         /\ \A c \in Bindings : c # b => [d EXCEPT !.cp[b] = k].cp[c] = d.cp[c]
<1> DEFINE cp == [d.cp EXCEPT ![b] = k]
           e == [d EXCEPT !.cp = cp]
<1>1. d.cp \in [Bindings -> Checkpoint \union {NoReading}]
  BY DEF Databases
<1>2. /\ cp \in [Bindings -> Checkpoint \union {NoReading}]
      /\ cp[b] = k /\ \A c \in Bindings : c # b => cp[c] = d.cp[c]
  BY <1>1
<1>3. [d EXCEPT !.cp[b] = k] = e
  OBVIOUS
<1> HIDE DEF cp
<1>4. e \in Databases /\ e.settled = d.settled /\ e.accepted = d.accepted /\ e.cp = cp
  BY <1>2 DEF Databases
<1> HIDE DEF e
<1> QED
  BY <1>2, <1>3, <1>4

LEMMA BaselineMoves ==
  ASSUME NEW d \in Databases, NEW b \in Bindings, NEW reading \in Readings
  PROVE  LET e == Baseline(d, b, reading)
         IN  /\ e \in Databases /\ e.settled = d.settled /\ e.accepted = d.accepted /\ e.cp[b] = At(reading)
             /\ \A c \in Bindings : c # b => e.cp[c] = d.cp[c]
<1>1. At(reading) \in Checkpoint
  BY PriceAssumption DEF At, Checkpoint
<1>2. Baseline(d, b, reading) = [d EXCEPT !.cp[b] = At(reading)]
  BY DEF Baseline, At
<1> QED
  BY <1>1, <1>2, CheckpointMoves

LEMMA RegressionMoves ==
  ASSUME NEW d \in Databases, NEW b \in Bindings, NEW reading \in Readings,
         d.cp[b] # NoReading, reading < d.cp[b].bytes
  PROVE  LET e == Regression(d, b, reading)
         IN  /\ e \in Databases /\ e.settled = d.settled /\ Regressed(d, e, b, reading)
             /\ \A c \in Bindings \ {b} : Same(d, e, c)
<1> DEFINE e == Regression(d, b, reading)
           k == [bytes |-> d.cp[b].bytes, anomalies |-> d.cp[b].anomalies + 1]
<1>1. CASE d.cp[b].anomalies + 1 >= ConfirmReadings
  BY <1>1, BaselineMoves DEF Regression, Regressed, Rows, Same
<1>2. CASE ~ (d.cp[b].anomalies + 1 >= ConfirmReadings)
  <2>1. k \in Checkpoint
    BY <1>2, CheckpointIs, PriceAssumption DEF Checkpoint
  <2>2. e = [d EXCEPT !.cp[b].anomalies = @ + 1]
    BY <1>2 DEF Regression
  <2>3. e = [d EXCEPT !.cp[b] = k]
    <3>1. d.cp[b] = [bytes |-> d.cp[b].bytes, anomalies |-> d.cp[b].anomalies]
      BY CheckpointIs DEF Checkpoint
    <3>2. [d.cp[b] EXCEPT !.anomalies = @ + 1] = k
      BY <3>1
    <3>3. e = [d EXCEPT !.cp = [d.cp EXCEPT ![b] = [d.cp[b] EXCEPT !.anomalies = @ + 1]]]
      BY <2>2
    <3> QED
      BY <3>2, <3>3
  <2> HIDE DEF e, k
  <2>4. /\ e \in Databases /\ e.settled = d.settled /\ e.accepted = d.accepted /\ e.cp[b] = k
        /\ \A c \in Bindings : c # b => e.cp[c] = d.cp[c]
    BY <2>1, <2>3, CheckpointMoves
  <2> QED
    BY <1>2, <2>4 DEF Regressed, Rows, Same, e, k
<1> QED
  BY <1>1, <1>2

LEMMA AcceptMoves ==
  ASSUME NEW d \in Databases, NEW b \in Bindings, NEW reading \in Readings,
         d.cp[b] # NoReading, reading >= d.cp[b].bytes
  PROVE  LET e == Accept(d, b, reading)
         IN  /\ e \in Databases /\ e.settled = d.settled
             /\ e.cp[b] = At(reading) /\ e.accepted[b] = d.accepted[b] + (reading - d.cp[b].bytes)
             /\ \A c \in Bindings : c # b => e.cp[c] = d.cp[c] /\ e.accepted[c] = d.accepted[c]
<1> DEFINE f == Baseline(d, b, reading)
           n == d.accepted[b] + (reading - d.cp[b].bytes)
<1>1. /\ f \in Databases /\ f.settled = d.settled /\ f.accepted = d.accepted /\ f.cp[b] = At(reading)
      /\ \A c \in Bindings : c # b => f.cp[c] = d.cp[c]
  BY BaselineMoves
<1>2. d.accepted \in [Bindings -> Nat] /\ d.accepted[b] \in Nat
  BY DEF Databases
<1>3. n \in Nat
  BY <1>2, CheckpointIs, ReadingsAreInt
<1> HIDE DEF f
<1>4. Accept(d, b, reading) = [f EXCEPT !.accepted[b] = n]
  BY <1>1 DEF Accept, f
<1> HIDE DEF n
<1>5. /\ [f EXCEPT !.accepted[b] = n] \in Databases
      /\ [f EXCEPT !.accepted[b] = n].settled = f.settled
      /\ [f EXCEPT !.accepted[b] = n].cp = f.cp
      /\ [f EXCEPT !.accepted[b] = n].accepted = [f.accepted EXCEPT ![b] = n]
  BY <1>1, <1>3 DEF Databases
<1> QED
  BY <1>1, <1>2, <1>4, <1>5 DEF n
LEMMA ObserveMoves ==
  ASSUME NEW d \in Databases, Sound(d), NEW b \in Bindings, NEW reading \in Readings
  PROVE  LET r == Observe(d, b, reading)
         IN  /\ r \in Results /\ Sound(r.db)
             /\ \A c \in Bindings \ {b} : Same(d, r.db, c)
             /\ r.outcome = "accepted" => Moved(d, r.db, b, reading)
             /\ r.outcome # "accepted" => Refused(d, r.db, b, reading)
<1> DEFINE r == Observe(d, b, reading)
           f == d.cp[b].bytes
<1>1. CASE d.cp[b] = NoReading
  <2>1. r = [db |-> Baseline(d, b, reading), outcome |-> "accepted"]
    BY <1>1 DEF Observe
  <2> DEFINE e == Baseline(d, b, reading)
  <2>2. /\ e \in Databases /\ e.settled = d.settled /\ e.accepted = d.accepted /\ e.cp[b] = At(reading)
        /\ \A c \in Bindings : c # b => e.cp[c] = d.cp[c]
    BY BaselineMoves
  <2> HIDE DEF e, r
  <2>3. r \in Results /\ r.db = e /\ r.outcome = "accepted"
    BY <2>1, <2>2 DEF Results, Outcomes, e
  <2>4. Sound(e) /\ Baselined(d, e, b, reading) /\ \A c \in Bindings \ {b} : Same(d, e, c)
    BY <1>1, <2>2 DEF Sound, Baselined, Same, Rows
  <2> QED
    BY <2>3, <2>4 DEF Moved, r
<1>2. CASE d.cp[b] # NoReading /\ reading < f
  <2>1. r = [db |-> Regression(d, b, reading), outcome |-> "accepted"]
    BY <1>2 DEF Observe
  <2> DEFINE e == Regression(d, b, reading)
  <2>2. /\ e \in Databases /\ e.settled = d.settled /\ Regressed(d, e, b, reading)
        /\ \A c \in Bindings \ {b} : Same(d, e, c)
    BY <1>2, RegressionMoves
  <2> HIDE DEF e, r
  <2>3. r \in Results /\ r.db = e /\ r.outcome = "accepted"
    BY <2>1, <2>2 DEF Results, Outcomes, e
  <2>4. Sound(e)
    BY <2>2 DEF Sound
  <2> QED
    BY <2>2, <2>3, <2>4 DEF Moved, r
<1>3. CASE d.cp[b] # NoReading /\ ~ (reading < f)
  <2> DEFINE q == Cascade(d, b, f, reading)
             e == Accept(q.db, b, reading)
  <2>1. r = IF q.outcome = "accepted" THEN [q EXCEPT !.db = e] ELSE q
    BY <1>3 DEF Observe
  <2>2. f \in Readings /\ f \in Int /\ reading \in Int /\ reading >= f
    BY <1>3, CheckpointIs, ReadingsAreInt
  <2>3. /\ q \in Results /\ q.db.cp = d.cp /\ q.db.accepted = d.accepted /\ Sound(q.db)
        /\ \A c \in Bindings \ {b} : Rows(q.db, c) = Rows(d, c)
        /\ reading = f => q.outcome = "accepted" /\ q.db = d
        /\ reading # f => /\ Charges(d, q.db, b, reading)
                          /\ q.outcome = "accepted" => AllPaid(d, q.db, b, reading)
                          /\ q.outcome # "accepted" => ~ AllPaid(d, q.db, b, reading)
    <3>1. CASE reading = f
      <4>1. q = [db |-> d, outcome |-> "accepted"]
        BY <3>1 DEF Cascade
      <4> HIDE DEF q
      <4> QED
        BY <3>1, <4>1 DEF Results, Outcomes
    <3>2. CASE reading # f
      <4>1. /\ Charging(d, b, f, reading, q)
            /\ q.outcome = "accepted" => \A o \in ToSet(Path[b]) : Row(b, f, reading, o) \in q.db.settled
        BY <2>2, <3>2, CascadeCharges
      <4> HIDE DEF q
      <4> DEFINE new == {Row(b, f, reading, o) : o \in ToSet(Path[b])}
      <4>2. \A o : Row(b, f, reading, o).binding = b
        BY DEF Row
      <4>3. d.settled \subseteq q.db.settled /\ q.db.settled \subseteq d.settled \union new
        BY <4>1 DEF Charging
      <4>4. \A c \in Bindings \ {b} : Rows(q.db, c) = Rows(d, c)
        BY <4>2, <4>3 DEF Rows
      <4>5. Rows(d, b) \subseteq Rows(q.db, b) /\ Rows(q.db, b) \subseteq Rows(d, b) \union new
        BY <4>3 DEF Rows
      <4>6. \A o : Row(b, f, reading, o) \in q.db.settled <=> Row(b, f, reading, o) \in Rows(q.db, b)
        BY <4>2 DEF Rows
      <4>7. reading > f
        BY <2>2, <3>2
      <4> QED
        BY <1>3, <3>2, <4>1, <4>4, <4>5, <4>6, <4>7 DEF Charging, Charges, AllPaid
    <3> QED
      BY <3>1, <3>2
  <2> HIDE DEF q, r
  <2>4. CASE q.outcome = "accepted"
    <3>1. /\ q.db \in Databases /\ q.db.cp[b] # NoReading /\ q.db.cp[b].bytes = f
      BY <1>3, <2>3 DEF Results
    <3>2. /\ e \in Databases /\ e.settled = q.db.settled
          /\ e.cp[b] = At(reading) /\ e.accepted[b] = q.db.accepted[b] + (reading - f)
          /\ \A c \in Bindings : c # b => e.cp[c] = q.db.cp[c] /\ e.accepted[c] = q.db.accepted[c]
      BY <2>2, <3>1, AcceptMoves
    <3> HIDE DEF e
    <3>3. r \in Results /\ r.db = e /\ r.outcome = "accepted"
      BY <2>1, <2>3, <2>4, <3>2 DEF Results
    <3>4. Sound(e)
      BY <2>3, <3>2 DEF Sound
    <3>5. \A c \in Bindings : Rows(e, c) = Rows(q.db, c)
      BY <3>2 DEF Rows
    <3>6. \A c \in Bindings \ {b} : Same(d, e, c)
      BY <2>3, <3>2, <3>5 DEF Same
    <3>7. reading # f => Charges(d, e, b, reading) /\ AllPaid(d, e, b, reading)
      BY <2>3, <2>4, <3>5 DEF Charges, AllPaid
    <3>8. reading = f => Rows(e, b) = Rows(d, b)
      BY <2>3, <3>5
    <3>9. Accepted(d, e, b, reading)
      BY <1>3, <2>2, <2>3, <3>2, <3>7, <3>8 DEF Accepted
    <3> QED
      BY <3>3, <3>4, <3>6, <3>9 DEF Moved, r
  <2>5. CASE q.outcome # "accepted"
    <3>1. r = q
      BY <2>1, <2>5
    <3>2. Refused(d, q.db, b, reading)
      BY <2>3, <2>5 DEF Refused
    <3>3. \A c \in Bindings \ {b} : Same(d, q.db, c)
      BY <2>3 DEF Same
    <3> QED
      BY <2>3, <2>5, <3>1, <3>2, <3>3 DEF r
  <2> QED
    BY <2>4, <2>5
<1> QED
  BY <1>1, <1>2, <1>3

LEMMA HoldMoves ==
  ASSUME NEW d \in Databases, Sound(d), NEW b \in Bindings
  PROVE  LET e == RecordHold(d, b)
         IN  /\ e \in Databases /\ Sound(e)
             /\ e.settled = d.settled /\ e.cp = d.cp /\ e.accepted = d.accepted
BY DEF RecordHold, Databases, Sound

(* A refused observation of one binding leaves no trace but its hold.      *)
LEMMA AloneMoves ==
  ASSUME NEW d \in Databases, Sound(d), NEW b \in Bindings, NEW reading \in Readings
  PROVE  LET e == ObserveAlone(d, b, reading)
         IN  /\ e \in Databases /\ Sound(e)
             /\ \A c \in Bindings \ {b} : Same(d, e, c)
             /\ Same(d, e, b) \/ Moved(d, e, b, reading)
<1> DEFINE r == Observe(d, b, reading)
           e == ObserveAlone(d, b, reading)
<1>1. /\ r \in Results /\ Sound(r.db)
      /\ \A c \in Bindings \ {b} : Same(d, r.db, c)
      /\ r.outcome = "accepted" => Moved(d, r.db, b, reading)
  BY ObserveMoves
<1>2. e = CASE r.outcome = "accepted" -> r.db
            [] r.outcome = "hold" -> RecordHold(d, b)
            [] r.outcome = "error" -> d
  BY DEF ObserveAlone
<1>3. r.outcome \in {"accepted", "hold", "error"} /\ r.db \in Databases
  BY <1>1 DEF Results, Outcomes
<1> HIDE DEF r, e
<1>4. \A c : Same(d, d, c) /\ Same(d, RecordHold(d, b), c)
  BY HoldMoves DEF Same, Rows
<1>5. CASE r.outcome = "accepted"
  BY <1>1, <1>2, <1>3, <1>5 DEF e
<1>6. CASE r.outcome = "hold"
  <2>1. e = RecordHold(d, b)
    BY <1>2, <1>6
  <2> QED
    BY <1>4, <2>1, HoldMoves DEF e
<1>7. CASE r.outcome = "error"
  <2>1. e = d
    BY <1>2, <1>7
  <2> QED
    BY <1>4, <2>1 DEF e
<1> QED
  BY <1>3, <1>5, <1>6, <1>7
LEMMA SameThenMoved ==
  ASSUME NEW d, NEW e, NEW f, NEW b, NEW x, Same(d, e, b)
  PROVE  /\ Moved(e, f, b, x) => Moved(d, f, b, x)
         /\ Refused(e, f, b, x) => Refused(d, f, b, x)
         /\ Same(e, f, b) => Same(d, f, b)
BY DEF Same, Moved, Refused, Baselined, Regressed, Accepted, Charges, AllPaid

LEMMA MovedThenSame ==
  ASSUME NEW d, NEW e, NEW f, NEW b, NEW x, Same(e, f, b)
  PROVE  /\ Moved(d, e, b, x) => Moved(d, f, b, x)
         /\ Refused(d, e, b, x) => Refused(d, f, b, x)
BY DEF Same, Moved, Refused, Baselined, Regressed, Accepted, Charges, AllPaid

(* The fold behind ObserveBatch, as the recursive function it is.           *)
IsBatch(it, items, reading, base) ==
  it = [s \in SUBSET DOMAIN items |-> IF s = {} THEN base ELSE BatchItem(it[s \ {Max(s)}], items[Max(s)], reading[items[Max(s)]])]

LEMMA BatchIs ==
  ASSUME NEW d, NEW items, NEW reading
  PROVE  BatchItems(d, items, reading)
           = (CHOOSE it : IsBatch(it, items, reading, [db |-> d, outcome |-> "accepted"]))[DOMAIN items]
BY DEF BatchItems, FoldLeft, MapThenFoldSet, IsBatch

(* After the items at the places s of a batch: the bindings observed are   *)
(* moved on or were refused, the others are as they were.                  *)
InBatch(d, items, reading, s, acc) ==
  /\ acc \in Results /\ Sound(acc.db)
  /\ \A c \in Bindings :
       \/ Same(d, acc.db, c)
       \/ /\ \E k \in s : c = items[k]
          /\ Moved(d, acc.db, c, reading[c]) \/ Refused(d, acc.db, c, reading[c])

LEMMA ItemStep ==
  ASSUME NEW d, NEW items, NEW reading, NEW s, NEW k \in s, NEW acc, InBatch(d, items, reading, s \ {k}, acc),
         items[k] \in Bindings, reading[items[k]] \in Readings,
         \A n \in s : items[n] = items[k] => n = k
  PROVE  InBatch(d, items, reading, s, BatchItem(acc, items[k], reading[items[k]]))
<1> DEFINE b == items[k]
           r == Observe(acc.db, b, reading[b])
           e == BatchItem(acc, b, reading[b])
<1>1. acc \in Results /\ acc.db \in Databases /\ Sound(acc.db) /\ b \in Bindings /\ reading[b] \in Readings
  BY DEF InBatch, Results
<1>2. CASE acc.outcome = "error"
  <2>1. e = acc
    BY <1>2 DEF BatchItem
  <2> QED
    BY <2>1 DEF InBatch
<1>3. CASE acc.outcome # "error"
  <2>1. e = IF r.outcome = "hold" THEN [r EXCEPT !.db = RecordHold(r.db, b)] ELSE r
    BY <1>3 DEF BatchItem
  <2>2. /\ r \in Results /\ Sound(r.db)
        /\ \A c \in Bindings \ {b} : Same(acc.db, r.db, c)
        /\ r.outcome = "accepted" => Moved(acc.db, r.db, b, reading[b])
        /\ r.outcome # "accepted" => Refused(acc.db, r.db, b, reading[b])
    BY <1>1, ObserveMoves
  <2> HIDE DEF b, r, e
  <2>3. r.db \in Databases
    BY <2>2 DEF Results
  <2>4. /\ RecordHold(r.db, b) \in Databases /\ Sound(RecordHold(r.db, b))
        /\ RecordHold(r.db, b).settled = r.db.settled /\ RecordHold(r.db, b).cp = r.db.cp
        /\ RecordHold(r.db, b).accepted = r.db.accepted
    BY <1>1, <2>2, <2>3, HoldMoves
  <2>5. e \in Results /\ Sound(e.db)
        /\ e.db.settled = r.db.settled /\ e.db.cp = r.db.cp /\ e.db.accepted = r.db.accepted
    BY <2>1, <2>2, <2>4 DEF Results
  <2>6. \A c : Same(r.db, e.db, c)
    BY <2>5 DEF Same, Rows
  <2>7. \A c \in Bindings \ {b} : Same(acc.db, e.db, c)
    BY <2>2, <2>6, SameThenMoved
  <2>8. Same(d, acc.db, b)
    BY <1>1 DEF InBatch, b
  <2>9. Moved(d, e.db, b, reading[b]) \/ Refused(d, e.db, b, reading[b])
    BY <2>2, <2>6, <2>8, SameThenMoved, MovedThenSame
  <2>10. ASSUME NEW c \in Bindings
         PROVE  \/ Same(d, e.db, c)
                \/ /\ \E n \in s : c = items[n]
                   /\ Moved(d, e.db, c, reading[c]) \/ Refused(d, e.db, c, reading[c])
    <3>1. CASE c = b
      BY <2>9, <3>1 DEF b
    <3>2. CASE c # b
      <4>1. Same(acc.db, e.db, c)
        BY <2>7, <3>2
      <4>2. CASE Same(d, acc.db, c)
        BY <4>1, <4>2, SameThenMoved
      <4>3. CASE /\ \E n \in s \ {k} : c = items[n]
                 /\ Moved(d, acc.db, c, reading[c]) \/ Refused(d, acc.db, c, reading[c])
        <5>1. Moved(d, e.db, c, reading[c]) \/ Refused(d, e.db, c, reading[c])
          BY <4>1, <4>3, MovedThenSame
        <5> QED
          BY <4>3, <5>1
      <4> QED
        BY <4>2, <4>3 DEF InBatch
    <3> QED
      BY <3>1, <3>2
  <2>11. InBatch(d, items, reading, s, e)
    BY <2>5, <2>10 DEF InBatch
  <2> QED
    BY <2>11 DEF e, b
<1> QED
  BY <1>2, <1>3
LEMMA BatchObserves ==
  ASSUME NEW d \in Databases, Sound(d), NEW S \in SUBSET Bindings, NEW items \in SetToSeqs(S), NEW reading,
         \A b \in ToSet(items) : reading[b] \in Readings
  PROVE  /\ ToSet(items) \subseteq Bindings
         /\ InBatch(d, items, reading, DOMAIN items, BatchItems(d, items, reading))
<1> DEFINE D == DOMAIN items
           base == [db |-> d, outcome |-> "accepted"]
           C == [s \in SUBSET D |-> Max(s)]
           F == [k \in D |-> [acc \in Results |-> BatchItem(acc, items[k], reading[items[k]])]]
           W == [s \in SUBSET D |-> {acc \in Results : InBatch(d, items, reading, s, acc)}]
           it == TheFold(D, C, F, base)
           jt == CHOOSE f : IsBatch(f, items, reading, base)
<1>1. /\ IsFiniteSet(D) /\ D \subseteq Int /\ {} \in SUBSET D /\ D \in SUBSET D
      /\ \A k \in D : items[k] \in Bindings /\ items[k] \in ToSet(items)
      /\ \A k, n \in D : items[n] = items[k] => n = k
  <2>1. Cardinality(S) \in Nat
    BY BoundAssumption, FS_Subset, FS_CardinalityType
  <2>2. /\ D = 1..Cardinality(S) /\ items \in [1..Cardinality(S) -> S]
        /\ \A i, j \in 1..Cardinality(S) : i # j => items[i] # items[j]
    BY DEF SetToSeqs
  <2>3. IsFiniteSet(D) /\ D \subseteq Int
    BY <2>1, <2>2, FS_Interval
  <2>4. \A k \in D : items[k] \in ToSet(items)
    BY DEF ToSet
  <2> QED
    BY <2>2, <2>3, <2>4
<1>2. \A s \in SUBSET D : C[s] = Max(s) /\ s \ {C[s]} \in SUBSET D /\ (s # {} => C[s] \in s)
  <2> SUFFICES ASSUME NEW s \in SUBSET D PROVE s # {} => Max(s) \in s
    OBVIOUS
  <2>1. IsFiniteSet(s) /\ s \subseteq Int
    BY <1>1, FS_Subset
  <2> HIDE DEF D
  <2> QED
    BY <2>1, MaxIs
<1>3. \A s \in SUBSET D : W[s] = {acc \in Results : InBatch(d, items, reading, s, acc)}
  OBVIOUS
<1>4. \A k \in D : \A acc \in Results : F[k][acc] = BatchItem(acc, items[k], reading[items[k]])
  OBVIOUS
<1>5. base \in W[{}]
  <2>1. base \in Results /\ base.db = d
    BY DEF Results, Outcomes
  <2>2. InBatch(d, items, reading, {}, base)
    BY <2>1 DEF InBatch, Same
  <2> HIDE DEF base, W
  <2> QED
    BY <1>1, <1>3, <2>1, <2>2
<1> HIDE DEF D, base, C, F, W, it
<1>6. ASSUME NEW s \in SUBSET D, s # {}, NEW acc \in W[s \ {C[s]}]
      PROVE  BatchItem(acc, items[C[s]], reading[items[C[s]]]) \in W[s]
  <2> DEFINE k == C[s]
  <2>1. k \in s /\ k \in D /\ items[k] \in Bindings /\ reading[items[k]] \in Readings
        /\ \A n \in s : items[n] = items[k] => n = k
    BY <1>1, <1>2, <1>6
  <2>2. InBatch(d, items, reading, s \ {k}, acc)
    BY <1>2, <1>3, <1>6
  <2> HIDE DEF k
  <2>3. InBatch(d, items, reading, s, BatchItem(acc, items[k], reading[items[k]]))
    BY <2>1, <2>2, ItemStep
  <2>4. BatchItem(acc, items[k], reading[items[k]]) \in Results
    BY <2>3 DEF InBatch
  <2> QED
    BY <1>3, <2>3, <2>4 DEF k
<1>7. IsFold(it, D, C, F, base)
  BY <1>1, <1>2, FoldExists DEF it
<1>8. \A s \in SUBSET D : it[s] = IF s = {} THEN base ELSE F[C[s]][it[s \ {C[s]}]]
  BY <1>7 DEF IsFold
<1>9. \A s \in SUBSET D : it[s] \in W[s]
  <2>1. it[{}] \in W[{}]
    <3>1. it[{}] = base
      BY <1>1, <1>8
    <3> QED
      BY <1>5, <3>1
  <2>2. ASSUME NEW s \in SUBSET D, s # {}, it[s \ {C[s]}] \in W[s \ {C[s]}]
        PROVE  it[s] \in W[s]
    <3>1. it[s \ {C[s]}] \in Results /\ C[s] \in D
      BY <1>2, <1>3, <2>2
    <3>2. it[s] = BatchItem(it[s \ {C[s]}], items[C[s]], reading[items[C[s]]])
      BY <1>4, <1>8, <2>2, <3>1
    <3> QED
      BY <1>6, <2>2, <3>2
  <2>3. \A s \in SUBSET D : s # {} /\ it[s \ {C[s]}] \in W[s \ {C[s]}] => it[s] \in W[s]
    BY <2>2
  <2>4. IsFiniteSet(D) /\ \A s \in SUBSET D : s # {} => C[s] \in s
    BY <1>1, <1>2
  <2> QED
    BY ONLY <2>1, <2>3, <2>4, SetInduction
<1>10. IsBatch(it, items, reading, base)
  <2>1. \A s \in SUBSET D :
          it[s] = IF s = {} THEN base ELSE BatchItem(it[s \ {Max(s)}], items[Max(s)], reading[items[Max(s)]])
    <3> SUFFICES ASSUME NEW s \in SUBSET D, s # {}
                 PROVE  it[s] = BatchItem(it[s \ {Max(s)}], items[Max(s)], reading[items[Max(s)]])
      BY <1>8
    <3>1. C[s] = Max(s) /\ C[s] \in D /\ s \ {C[s]} \in SUBSET D
      BY <1>2
    <3>2. it[s \ {C[s]}] \in Results
      BY <1>3, <1>9, <3>1
    <3>3. it[s] = F[C[s]][it[s \ {C[s]}]]
      BY <1>8
    <3> QED
      BY <1>4, <3>1, <3>2, <3>3
  <2> DEFINE kt == [s \in SUBSET D |->
                      IF s = {} THEN base ELSE BatchItem(it[s \ {Max(s)}], items[Max(s)], reading[items[Max(s)]])]
  <2>2. it = [s \in SUBSET D |-> it[s]]
    BY <1>7 DEF IsFold
  <2>3. \A s \in SUBSET D : it[s] = kt[s]
    BY <2>1
  <2>4. it = kt
    BY <2>2, <2>3
  <2> QED
    BY <2>4 DEF IsBatch, D
<1>11. IsBatch(jt, items, reading, base)
  BY <1>10
<1> HIDE DEF jt
<1>12. \A s \in SUBSET D :
         jt[s] = IF s = {} THEN base ELSE BatchItem(jt[s \ {Max(s)}], items[Max(s)], reading[items[Max(s)]])
  BY <1>11 DEF IsBatch, D
<1>13. \A s \in SUBSET D : jt[s] \in W[s]
  <2>1. jt[{}] \in W[{}]
    <3>1. jt[{}] = base
      BY <1>1, <1>12
    <3> QED
      BY <1>5, <3>1
  <2>2. ASSUME NEW s \in SUBSET D, s # {}, jt[s \ {C[s]}] \in W[s \ {C[s]}]
        PROVE  jt[s] \in W[s]
    <3>1. jt[s] = BatchItem(jt[s \ {C[s]}], items[C[s]], reading[items[C[s]]])
      BY <1>2, <1>12, <2>2
    <3> QED
      BY <1>6, <2>2, <3>1
  <2>3. \A s \in SUBSET D : s # {} /\ jt[s \ {C[s]}] \in W[s \ {C[s]}] => jt[s] \in W[s]
    BY <2>2
  <2>4. IsFiniteSet(D) /\ \A s \in SUBSET D : s # {} => C[s] \in s
    BY <1>1, <1>2
  <2> QED
    BY ONLY <2>1, <2>3, <2>4, SetInduction
<1>14. BatchItems(d, items, reading) = jt[D]
  BY BatchIs DEF jt, base, D
<1>15. InBatch(d, items, reading, D, jt[D])
  BY <1>1, <1>3, <1>13
<1>16. ToSet(items) \subseteq Bindings
  BY <1>1 DEF ToSet, D
<1> QED
  BY <1>14, <1>15, <1>16 DEF D, base

(* A batch that fails changes nothing; otherwise every binding was left    *)
(* alone, or is one of the batch and moved on or was refused.              *)
LEMMA BatchMoves ==
  ASSUME NEW d \in Databases, Sound(d), NEW S \in SUBSET Bindings, NEW items \in SetToSeqs(S), NEW reading,
         \A b \in ToSet(items) : reading[b] \in Readings
  PROVE  LET e == ObserveBatch(d, items, reading)
         IN  /\ ToSet(items) \subseteq Bindings /\ e \in Databases /\ Sound(e)
             /\ \A c \in Bindings :
                  \/ Same(d, e, c)
                  \/ /\ c \in ToSet(items)
                     /\ Moved(d, e, c, reading[c]) \/ Refused(d, e, c, reading[c])
<1> DEFINE r == BatchItems(d, items, reading)
           e == ObserveBatch(d, items, reading)
<1>1. ToSet(items) \subseteq Bindings /\ InBatch(d, items, reading, DOMAIN items, r)
  BY BatchObserves
<1>2. e = IF r.outcome = "error" THEN d ELSE r.db
  BY DEF ObserveBatch
<1> HIDE DEF r, e
<1>3. \A c : Same(d, d, c)
  BY DEF Same
<1>4. r.db \in Databases /\ Sound(r.db)
  BY <1>1 DEF InBatch, Results
<1>5. \A c \in Bindings :
        \/ Same(d, e, c)
        \/ /\ c \in ToSet(items)
           /\ Moved(d, e, c, reading[c]) \/ Refused(d, e, c, reading[c])
  <2> TAKE c \in Bindings
  <2>1. CASE e = d
    BY <1>3, <2>1
  <2>2. CASE e = r.db
    <3>1. \/ Same(d, r.db, c)
          \/ /\ \E k \in DOMAIN items : c = items[k]
             /\ Moved(d, r.db, c, reading[c]) \/ Refused(d, r.db, c, reading[c])
      BY <1>1 DEF InBatch
    <3> QED
      BY <2>2, <3>1 DEF ToSet
  <2> QED
    BY <1>2, <2>1, <2>2
<1> QED
  BY <1>1, <1>2, <1>4, <1>5 DEF e
-----------------------------------------------------------------------------
(* What a step does to one binding: nothing reaches its rows but an        *)
(* observation of its own reading, polled or posted.                       *)

Stays(c) ==
  /\ Same(db, db', c) /\ stray'[c] = stray[c]
  /\ polled'[c] \in {polled[c], NoReading, counter[c]}
  /\ posted'[c] \subseteq posted[c] \union {counter[c]}
  /\ \/ used'[c] = used[c] /\ counter'[c] = counter[c] /\ resets'[c] = resets[c]
     \/ used'[c] = used[c] + 1 /\ counter'[c] = counter[c] + 1 /\ resets'[c] = resets[c]
     \/ resets'[c] = resets[c] + 1

ObservesPolled(c) ==
  /\ polled[c] \in Readings /\ polled'[c] = NoReading /\ posted'[c] = posted[c]
  /\ stray'[c] = Strays(c, polled[c], db'.cp[c], 0)
  /\ Moved(db, db', c, polled[c])

ObservesPosted(c) ==
  /\ polled'[c] = polled[c] /\ posted'[c] = posted[c]
  /\ \E x \in posted[c] :
       /\ stray'[c] = Strays(c, x, db'.cp[c], 1)
       /\ \/ Moved(db, db', c, x)
          \/ Refused(db, db', c, x) /\ (Unfinished(db', c) # {} => c \in cut')

BindingStep(c) ==
  \/ Stays(c)
  \/ /\ used'[c] = used[c] /\ counter'[c] = counter[c] /\ resets'[c] = resets[c]
     /\ ObservesPolled(c) \/ ObservesPosted(c)

Good == TypeOK /\ CountersTell /\ Sound(db)
Kept == Good' /\ cut \subseteq cut' /\ \A c \in Bindings : BindingStep(c)

LEMMA SameItself == ASSUME db' = db PROVE \A c : Same(db, db', c)
BY DEF Same, Rows

LEMMA SameRows ==
  ASSUME db'.cp = db.cp, db'.accepted = db.accepted, db'.settled = db.settled
  PROVE  \A c : Same(db, db', c)
BY DEF Same, Rows

LEMMA StraysAre ==
  ASSUME Good, NEW c \in Bindings, NEW x, NEW k, NEW post \in {0, 1}
  PROVE  /\ Strays(c, x, k, post) \in 0..(ConfirmReadings - 1)
         /\ k = db.cp[c] => Strays(c, x, k, post) = stray[c]
         /\ stray[c] = ConfirmReadings - 1 => Strays(c, x, k, post) = stray[c]
<1>1. stray[c] \in 0..(ConfirmReadings - 1) /\ ConfirmReadings \in Nat \ {0}
  BY PriceAssumption DEF Good, TypeOK
<1>2. 0 \in 0..(ConfirmReadings - 1)
  BY <1>1
<1>3. stray[c] # ConfirmReadings - 1 => stray[c] + post \in 0..(ConfirmReadings - 1)
  BY <1>1
<1> QED
  BY <1>1, <1>2, <1>3 DEF Strays

LEMMA TrafficKeeps == ASSUME Good, NEW b \in Bindings, Traffic(b) PROVE Kept
<1>1. used[b] \in Int /\ counter[b] \in Int /\ MaxTraffic[b] \in Nat /\ used[b] >= 0 /\ counter[b] >= 0
      /\ counter[b] <= used[b] /\ used[b] < MaxTraffic[b]
  <2>1. \A r \in Readings : r >= 0 /\ r \in Int
    BY BoundAssumption DEF Readings
  <2> QED
    BY <2>1, BoundAssumption DEF Good, TypeOK, CountersTell, Traffic
<1>2. used[b] + 1 \in Readings /\ counter[b] + 1 \in Readings
  <2>1. used[b] + 1 \in 0..MaxTraffic[b] /\ counter[b] + 1 \in 0..MaxTraffic[b]
    BY <1>1
  <2> QED
    BY <2>1 DEF Readings
<1>3. used' = [used EXCEPT ![b] = @ + 1] /\ counter' = [counter EXCEPT ![b] = @ + 1]
      /\ UNCHANGED <<db, resets, polled, posted, stray, cut>>
  BY DEF Traffic
<1>4. TypeOK'
  BY <1>2, <1>3 DEF Good, TypeOK
<1>5. CountersTell'
  <2>1. \A c \in Bindings : counter[c] \in Int /\ used[c] \in Int
    BY ReadingsAreInt DEF Good, TypeOK
  <2> QED
    BY <1>3, <2>1 DEF Good, TypeOK, CountersTell
<1>6. \A c \in Bindings : Stays(c)
  BY <1>3, SameItself DEF Stays, Good, TypeOK
<1> QED
  BY <1>3, <1>4, <1>5, <1>6 DEF Kept, Good, BindingStep

LEMMA ResetKeeps == ASSUME Good, NEW b \in Bindings, PanelReset(b) PROVE Kept
<1>1. counter' = [counter EXCEPT ![b] = 0] /\ resets' = [resets EXCEPT ![b] = @ + 1]
      /\ resets[b] < MaxResets[b] /\ UNCHANGED <<db, used, polled, posted, stray, cut>>
  BY DEF PanelReset
<1>2. 0 \in Readings
  BY BoundAssumption DEF Readings
<1>3. \A c \in Bindings : used[c] >= 0 /\ used[c] \in Int /\ counter[c] \in Int
  <2>1. \A r \in Readings : r >= 0 /\ r \in Int
    BY BoundAssumption DEF Readings
  <2> QED
    BY <2>1 DEF Good, TypeOK
<1>4. resets' \in [Bindings -> Nat] /\ \A c \in Bindings : resets'[c] <= MaxResets[c]
  <2>1. MaxResets[b] \in Nat /\ resets[b] \in Nat /\ resets[b] < MaxResets[b]
    BY <1>1, BoundAssumption DEF Good, TypeOK
  <2> QED
    BY <1>1, <2>1 DEF Good, TypeOK
<1>5. TypeOK' /\ CountersTell'
  BY <1>1, <1>2, <1>3, <1>4 DEF Good, TypeOK, CountersTell
<1>6. \A c \in Bindings : Stays(c)
  BY <1>1, SameItself DEF Stays, Good, TypeOK
<1> QED
  BY <1>1, <1>5, <1>6 DEF Kept, Good, BindingStep

LEMMA ReaderKeeps ==
  ASSUME Good,
         \/ PollStart \/ PollDies
         \/ \E b \in Bindings : CollectorReads(b) \/ \E x \in Readings : GiveUp(b, x)
  PROVE  Kept
<1>1. /\ UNCHANGED <<db, counter, used, resets, stray, cut>>
      /\ \A c \in Bindings : polled'[c] \in {polled[c], NoReading, counter[c]}
                             /\ posted'[c] \subseteq posted[c] \union {counter[c]}
      /\ polled' \in [Bindings -> Reading] /\ posted' \in [Bindings -> SUBSET Readings]
  <2>1. /\ counter \in [Bindings -> Readings] /\ polled \in [Bindings -> Reading]
        /\ posted \in [Bindings -> SUBSET Readings] /\ \A r \in Readings : r \in Reading
        /\ NoReading \in Reading
    BY DEF Good, TypeOK, Reading
  <2>2. CASE PollStart \/ PollDies
    BY <2>1, <2>2 DEF PollStart, PollDies
  <2>3. ASSUME NEW b \in Bindings, CollectorReads(b) \/ \E x \in Readings : GiveUp(b, x)
        PROVE  /\ UNCHANGED <<db, counter, used, resets, polled, stray, cut>>
               /\ \A c \in Bindings : posted'[c] \subseteq posted[c] \union {counter[c]}
               /\ posted' \in [Bindings -> SUBSET Readings]
    BY <2>1, <2>3 DEF CollectorReads, GiveUp
  <2>4. ASSUME UNCHANGED polled
        PROVE  polled' \in [Bindings -> Reading] /\ \A c \in Bindings : polled'[c] \in {polled[c], NoReading, counter[c]}
    BY <2>1, <2>4
  <2> QED
    BY <2>1, <2>2, <2>3, <2>4
<1>2. TypeOK' /\ CountersTell'
  BY <1>1 DEF Good, TypeOK, CountersTell
<1>3. \A c \in Bindings : Stays(c)
  BY <1>1, SameItself DEF Stays
<1> QED
  BY <1>1, <1>2, <1>3 DEF Kept, Good, BindingStep

LEMMA RestKeeps ==
  ASSUME Good,
         \/ \E b \in Bindings : DeliverHold(b) \/ HoldDies(b)
         \/ \E o \in Orgs : Fund(o)
         \/ \E o \in Suspendable : ToggleSuspension(o)
  PROVE  Kept
<1>1. db \in Databases
  BY DEF Good, TypeOK
<1>2. /\ db' \in Databases /\ db'.cp = db.cp /\ db'.accepted = db.accepted /\ db'.settled = db.settled
      /\ UNCHANGED <<counter, used, resets, polled, posted, stray, cut>>
  <2>1. ASSUME NEW b \in Bindings, DeliverHold(b) \/ HoldDies(b)
        PROVE  /\ db' \in Databases /\ db'.cp = db.cp /\ db'.accepted = db.accepted /\ db'.settled = db.settled
               /\ UNCHANGED <<counter, used, resets, polled, posted, stray, cut>>
    <3>1. CASE DeliverHold(b)
      BY <1>1, <3>1 DEF DeliverHold, Databases
    <3>2. CASE HoldDies(b)
      <4> DEFINE left == db.holds \ {b}
      <4>1. left \in SUBSET Bindings /\ db' = [db EXCEPT !.holds = left]
            /\ UNCHANGED <<counter, used, resets, polled, posted, stray, cut>>
        BY <1>1, <3>2 DEF HoldDies, Databases
      <4> HIDE DEF left
      <4> QED
        BY <1>1, <4>1 DEF Databases
    <3> QED
      BY <2>1, <3>1, <3>2
  <2>2. ASSUME NEW o \in Orgs, Fund(o)
        PROVE  /\ db' \in Databases /\ db'.cp = db.cp /\ db'.accepted = db.accepted /\ db'.settled = db.settled
               /\ UNCHANGED <<counter, used, resets, polled, posted, stray, cut>>
    <3> DEFINE bal == [db.balance EXCEPT ![o] = @ + FundAmount]
    <3>1. bal \in [Payers -> Int]
      BY <1>1, BoundAssumption DEF Databases, Payers
    <3>2. db' = [db EXCEPT !.balance = bal] /\ UNCHANGED <<counter, used, resets, polled, posted, stray, cut>>
      BY <2>2 DEF Fund
    <3> HIDE DEF bal
    <3> QED
      BY <1>1, <3>1, <3>2 DEF Databases
  <2>3. ASSUME NEW o \in Suspendable, ToggleSuspension(o)
        PROVE  /\ db' \in Databases /\ db'.cp = db.cp /\ db'.accepted = db.accepted /\ db'.settled = db.settled
               /\ UNCHANGED <<counter, used, resets, polled, posted, stray, cut>>
    <3> DEFINE sus == IF o \in db.suspended THEN db.suspended \ {o} ELSE db.suspended \union {o}
    <3>1. sus \in SUBSET Orgs
      BY <1>1, BoundAssumption DEF Databases
    <3>2. db' = [db EXCEPT !.suspended = sus] /\ UNCHANGED <<counter, used, resets, polled, posted, stray, cut>>
      BY <2>3 DEF ToggleSuspension
    <3> HIDE DEF sus
    <3> QED
      BY <1>1, <3>1, <3>2 DEF Databases
  <2> QED
    BY <2>1, <2>2, <2>3
<1>3. Sound(db)'
  BY <1>2 DEF Good, Sound
<1>4. TypeOK' /\ CountersTell'
  BY <1>2 DEF Good, TypeOK, CountersTell
<1>5. \A c \in Bindings : Stays(c)
  BY <1>2, SameRows DEF Stays
<1> QED
  BY <1>2, <1>3, <1>4, <1>5 DEF Kept, Good, BindingStep
LEMMA PollObserveKeeps == ASSUME Good, NEW b \in Bindings, PollObserve(b) PROVE Kept
<1>1. /\ db' = ObserveAlone(db, b, polled[b]) /\ polled' = [polled EXCEPT ![b] = NoReading]
      /\ stray' = [stray EXCEPT ![b] = Strays(b, polled[b], db'.cp[b], 0)]
      /\ polled[b] # NoReading /\ UNCHANGED <<counter, used, resets, posted, cut>>
  BY DEF PollObserve
<1>2. /\ db \in Databases /\ Sound(db) /\ polled[b] \in Readings /\ polled \in [Bindings -> Reading]
      /\ stray \in [Bindings -> 0..(ConfirmReadings - 1)]
  BY <1>1 DEF Good, TypeOK, Reading
<1>3. /\ db' \in Databases /\ Sound(db') /\ \A c \in Bindings \ {b} : Same(db, db', c)
      /\ Same(db, db', b) \/ Moved(db, db', b, polled[b])
  BY <1>1, <1>2, AloneMoves
<1>4. polled' \in [Bindings -> Reading] /\ polled'[b] = NoReading /\ \A c \in Bindings \ {b} : polled'[c] = polled[c]
  BY <1>1, <1>2 DEF Reading
<1>5. /\ stray' \in [Bindings -> 0..(ConfirmReadings - 1)] /\ \A c \in Bindings \ {b} : stray'[c] = stray[c]
      /\ stray'[b] = Strays(b, polled[b], db'.cp[b], 0)
      /\ db'.cp[b] = db.cp[b] => stray'[b] = stray[b]
  <2>1. /\ Strays(b, polled[b], db'.cp[b], 0) \in 0..(ConfirmReadings - 1)
        /\ db'.cp[b] = db.cp[b] => Strays(b, polled[b], db'.cp[b], 0) = stray[b]
    BY StraysAre
  <2> DEFINE n == Strays(b, polled[b], db'.cp[b], 0)
             T == 0..(ConfirmReadings - 1)
  <2>2. stray' = [stray EXCEPT ![b] = n] /\ n \in T /\ stray \in [Bindings -> T]
    BY <1>1, <1>2, <2>1
  <2> HIDE DEF n, T
  <2>3. stray' \in [Bindings -> T] /\ stray'[b] = n /\ \A c \in Bindings \ {b} : stray'[c] = stray[c]
    BY <2>2
  <2> QED
    BY <2>1, <2>3 DEF n, T
<1>6. \A c \in Bindings : BindingStep(c)
  <2> TAKE c \in Bindings
  <2>1. CASE Same(db, db', c)
    <3>1. stray'[c] = stray[c]
      BY <1>5, <2>1 DEF Same
    <3> QED
      BY <1>1, <1>4, <2>1, <3>1 DEF BindingStep, Stays
  <2>2. CASE c = b /\ Moved(db, db', b, polled[b])
    BY <1>1, <1>2, <1>4, <1>5, <2>2 DEF BindingStep, ObservesPolled
  <2> QED
    BY <1>3, <2>1, <2>2
<1>7. TypeOK' /\ CountersTell'
  BY <1>1, <1>3, <1>4, <1>5 DEF Good, TypeOK, CountersTell
<1> QED
  BY <1>1, <1>3, <1>6, <1>7 DEF Kept, Good

LEMMA PostUsageKeeps ==
  ASSUME Good, NEW b \in Bindings, NEW x \in Readings, PostUsage(b, x)
  PROVE  Kept
<1>1. /\ db' = ObserveAlone(db, b, x) /\ x \in posted[b]
      /\ stray' = [stray EXCEPT ![b] = Strays(b, x, db'.cp[b], 1)]
      /\ UNCHANGED <<counter, used, resets, polled, posted, cut>>
  BY DEF PostUsage
<1>2. db \in Databases /\ Sound(db) /\ stray \in [Bindings -> 0..(ConfirmReadings - 1)]
  BY DEF Good, TypeOK
<1>3. /\ db' \in Databases /\ Sound(db') /\ \A c \in Bindings \ {b} : Same(db, db', c)
      /\ Same(db, db', b) \/ Moved(db, db', b, x)
  BY <1>1, <1>2, AloneMoves
<1>4. /\ stray' \in [Bindings -> 0..(ConfirmReadings - 1)] /\ \A c \in Bindings \ {b} : stray'[c] = stray[c]
      /\ stray'[b] = Strays(b, x, db'.cp[b], 1)
      /\ db'.cp[b] = db.cp[b] => stray'[b] = stray[b]
  <2>1. /\ Strays(b, x, db'.cp[b], 1) \in 0..(ConfirmReadings - 1)
        /\ db'.cp[b] = db.cp[b] => Strays(b, x, db'.cp[b], 1) = stray[b]
    BY StraysAre
  <2> DEFINE n == Strays(b, x, db'.cp[b], 1)
             T == 0..(ConfirmReadings - 1)
  <2>2. stray' = [stray EXCEPT ![b] = n] /\ n \in T /\ stray \in [Bindings -> T]
    BY <1>1, <1>2, <2>1
  <2> HIDE DEF n, T
  <2>3. stray' \in [Bindings -> T] /\ stray'[b] = n /\ \A c \in Bindings \ {b} : stray'[c] = stray[c]
    BY <2>2
  <2> QED
    BY <2>1, <2>3 DEF n, T
<1>5. \A c \in Bindings : BindingStep(c)
  <2> TAKE c \in Bindings
  <2>1. CASE Same(db, db', c)
    <3>1. stray'[c] = stray[c]
      BY <1>4, <2>1 DEF Same
    <3> QED
      BY <1>1, <2>1, <3>1 DEF BindingStep, Stays
  <2>2. CASE c = b /\ Moved(db, db', b, x)
    BY <1>1, <1>4, <2>2 DEF BindingStep, ObservesPosted
  <2> QED
    BY <1>3, <2>1, <2>2
<1>6. TypeOK' /\ CountersTell'
  BY <1>1, <1>3, <1>4 DEF Good, TypeOK, CountersTell
<1> QED
  BY <1>1, <1>3, <1>5, <1>6 DEF Kept, Good

LEMMA PostBatchKeeps ==
  ASSUME Good, NEW S \in SUBSET Bindings, NEW items \in SetToSeqs(S), NEW reading \in [S -> Readings],
         PostBatch(items, reading)
  PROVE  Kept
<1> DEFINE new == {b \in ToSet(items) : Unfinished(db', b) # {}}
<1>1. /\ db' = ObserveBatch(db, items, reading)
      /\ \A b \in ToSet(items) : reading[b] \in posted[b]
      /\ stray' = [b \in Bindings |-> IF b \in ToSet(items)
                                      THEN Strays(b, reading[b], db'.cp[b], 1) ELSE stray[b]]
      /\ cut' = cut \union new
      /\ UNCHANGED <<counter, used, resets, polled, posted>>
  BY DEF PostBatch
<1>2. db \in Databases /\ Sound(db) /\ cut \subseteq Bindings /\ stray \in [Bindings -> 0..(ConfirmReadings - 1)]
  BY DEF Good, TypeOK
<1>0. ToSet(items) \subseteq Bindings /\ ToSet(items) \subseteq S
  BY DEF SetToSeqs, ToSet
<1>3. \A b \in ToSet(items) : reading[b] \in Readings
  BY <1>0
<1>4. /\ db' \in Databases /\ Sound(db')
      /\ \A c \in Bindings :
           \/ Same(db, db', c)
           \/ /\ c \in ToSet(items)
              /\ Moved(db, db', c, reading[c]) \/ Refused(db, db', c, reading[c])
  BY <1>1, <1>2, <1>3, BatchMoves
<1>5. /\ stray' \in [Bindings -> 0..(ConfirmReadings - 1)]
      /\ \A c \in Bindings : db'.cp[c] = db.cp[c] => stray'[c] = stray[c]
      /\ \A c \in ToSet(items) : stray'[c] = Strays(c, reading[c], db'.cp[c], 1)
  <2>1. \A c \in Bindings :
          /\ Strays(c, reading[c], db'.cp[c], 1) \in 0..(ConfirmReadings - 1)
          /\ db'.cp[c] = db.cp[c] => Strays(c, reading[c], db'.cp[c], 1) = stray[c]
    BY StraysAre
  <2> DEFINE n(c) == Strays(c, reading[c], db'.cp[c], 1)
             T == 0..(ConfirmReadings - 1)
  <2>2. /\ stray' = [c \in Bindings |-> IF c \in ToSet(items) THEN n(c) ELSE stray[c]]
        /\ stray \in [Bindings -> T] /\ \A c \in Bindings : n(c) \in T
    BY <1>1, <1>2, <2>1
  <2> HIDE DEF n, T
  <2>3. stray' \in [Bindings -> T] /\ \A c \in Bindings : stray'[c] = IF c \in ToSet(items) THEN n(c) ELSE stray[c]
    BY <2>2
  <2> QED
    BY <1>0, <2>1, <2>3 DEF n, T
<1>6. \A c \in Bindings : BindingStep(c)
  <2> TAKE c \in Bindings
  <2>1. CASE Same(db, db', c)
    <3>1. stray'[c] = stray[c]
      BY <1>5, <2>1 DEF Same
    <3> QED
      BY <1>1, <2>1, <3>1 DEF BindingStep, Stays
  <2>2. CASE c \in ToSet(items) /\ (Moved(db, db', c, reading[c]) \/ Refused(db, db', c, reading[c]))
    <3>1. Unfinished(db', c) # {} => c \in cut'
      BY <1>1, <2>2
    <3>2. reading[c] \in posted[c] /\ polled'[c] = polled[c] /\ posted'[c] = posted[c]
          /\ used'[c] = used[c] /\ counter'[c] = counter[c] /\ resets'[c] = resets[c]
          /\ stray'[c] = Strays(c, reading[c], db'.cp[c], 1)
      BY <1>1, <1>5, <2>2
    <3>3. ObservesPosted(c)
      BY <2>2, <3>1, <3>2 DEF ObservesPosted
    <3> QED
      BY <3>2, <3>3 DEF BindingStep
  <2> QED
    BY <1>4, <2>1, <2>2
<1>7. cut' \subseteq Bindings /\ cut \subseteq cut'
  BY <1>0, <1>1, <1>2
<1>8. TypeOK' /\ CountersTell'
  BY <1>1, <1>4, <1>5, <1>7 DEF Good, TypeOK, CountersTell
<1> QED
  BY <1>4, <1>6, <1>7, <1>8 DEF Kept, Good

LEMMA StepKeeps == Good /\ [Next]_vars => Kept
<1> SUFFICES ASSUME Good, [Next]_vars PROVE Kept
  OBVIOUS
<1>1. CASE UNCHANGED vars
  <2>1. \A c \in Bindings : Stays(c)
    BY <1>1, SameItself DEF Stays, vars
  <2>2. Good'
    BY <1>1 DEF vars, Good, TypeOK, CountersTell, Sound
  <2>3. cut' = cut
    BY <1>1 DEF vars
  <2> QED
    BY <2>1, <2>2, <2>3 DEF Kept, BindingStep
<1>2. CASE \E b \in Bindings :
             \/ Traffic(b) \/ PanelReset(b) \/ PollObserve(b) \/ CollectorReads(b)
             \/ \E x \in Readings : PostUsage(b, x) \/ GiveUp(b, x)
             \/ DeliverHold(b) \/ HoldDies(b)
  <2> PICK b \in Bindings :
        \/ Traffic(b) \/ PanelReset(b) \/ PollObserve(b) \/ CollectorReads(b)
        \/ \E x \in Readings : PostUsage(b, x) \/ GiveUp(b, x)
        \/ DeliverHold(b) \/ HoldDies(b)
    BY <1>2
  <2>1. CASE Traffic(b) \/ PanelReset(b) \/ PollObserve(b)
    BY <2>1, TrafficKeeps, ResetKeeps, PollObserveKeeps
  <2>2. CASE CollectorReads(b) \/ \E x \in Readings : GiveUp(b, x)
    BY <2>2, ReaderKeeps
  <2>3. CASE \E x \in Readings : PostUsage(b, x)
    BY <2>3, PostUsageKeeps
  <2>4. CASE DeliverHold(b) \/ HoldDies(b)
    BY <2>4, RestKeeps
  <2> QED
    BY <2>1, <2>2, <2>3, <2>4
<1>3. CASE \E S \in SUBSET Bindings \ {{}} :
             \E items \in SetToSeqs(S), reading \in [S -> Readings] : PostBatch(items, reading)
  BY <1>3, PostBatchKeeps
<1>4. CASE PollStart \/ PollDies
  BY <1>4, ReaderKeeps
<1>5. CASE (\E o \in Orgs : Fund(o)) \/ (\E o \in Suspendable : ToggleSuspension(o))
  BY <1>5, RestKeeps
<1> QED
  BY <1>1, <1>2, <1>3, <1>4, <1>5 DEF Next

LEMMA GoodInit == Init => Good
<1> SUFFICES ASSUME Init PROVE Good
  OBVIOUS
<1>1. \A b \in Bindings : 0 \in Readings
  BY BoundAssumption DEF Readings
<1> DEFINE cp == [b \in Bindings |-> NoReading]
           balance == [o \in Payers |-> 0]
           accepted == [b \in Bindings |-> 0]
<1>2. /\ cp \in [Bindings -> Checkpoint \union {NoReading}]
      /\ balance \in [Payers -> Int] /\ accepted \in [Bindings -> Nat]
  OBVIOUS
<1>3. db = [cp |-> cp, balance |-> balance, settled |-> {}, accepted |-> accepted,
            holds |-> {}, held |-> {}, suspended |-> {}]
  BY DEF Init
<1> HIDE DEF cp, balance, accepted
<1>4. db \in Databases /\ db.settled = {}
  BY <1>2, <1>3 DEF Databases
<1>5. Sound(db)
  BY <1>4, FS_EmptySet DEF Sound
<1>6. /\ counter = [b \in Bindings |-> 0] /\ used = [b \in Bindings |-> 0]
      /\ resets = [b \in Bindings |-> 0] /\ cut = {}
      /\ polled = [b \in Bindings |-> NoReading] /\ posted = [b \in Bindings |-> {}]
      /\ stray = [b \in Bindings |-> 0]
  BY DEF Init
<1>7. \A b \in Bindings : MaxResets[b] >= 0
  BY BoundAssumption
<1>8. stray \in [Bindings -> 0..(ConfirmReadings - 1)]
  BY <1>6, PriceAssumption
<1>9. TypeOK /\ CountersTell
  BY <1>1, <1>4, <1>6, <1>7, <1>8 DEF TypeOK, CountersTell, Reading
<1> QED
  BY <1>5, <1>9 DEF Good

LEMMA GoodAlways == Spec => []Good
<1>1. Good /\ [Next]_vars => Good'
  BY StepKeeps DEF Kept
<1> QED
  BY GoodInit, <1>1, PTL DEF Spec

(* The database, the panel's counters and the readings under way keep      *)
(* their types: no checkpoint, anomaly count or accepted usage leaves its  *)
(* range, whatever order polls and posts commit in.                        *)
THEOREM BillingTypeOK == Spec => []TypeOK
<1>1. Good => TypeOK
  BY DEF Good
<1> QED
  BY GoodAlways, <1>1, PTL
-----------------------------------------------------------------------------
(* Late readings are no reset.                                             *)

Behind(k, reading) == IF reading # NoReading /\ reading < k.bytes THEN 1 ELSE 0
FewLate(n, k, acc, p, P, z) ==
  /\ p # NoReading => p <= n
  /\ \A x \in P : x <= n
  /\ k = NoReading => acc = 0
  /\ k # NoReading =>
       /\ acc <= k.bytes /\ k.bytes <= n
       /\ k.anomalies + Behind(k, p) <= z + 1

LEMMA FewLateIs ==
  FewLateReadings <=>
    \A c \in Bindings : Orderly(c) =>
      /\ counter[c] = used[c]
      /\ FewLate(used[c], db.cp[c], db.accepted[c], polled[c], posted[c], stray[c])
BY DEF FewLateReadings, FewLate, Late, Behind

LEMMA BindingIs ==
  ASSUME Good, NEW c \in Bindings
  PROVE  /\ used[c] \in Int /\ counter[c] \in Int /\ resets[c] \in Nat
         /\ polled[c] \in Int \/ polled[c] = NoReading
         /\ \A x \in posted[c] : x \in Int /\ x \in Readings
         /\ stray[c] \in Nat
         /\ db.accepted[c] \in Nat
         /\ db.cp[c] # NoReading => /\ db.cp[c].bytes \in Int /\ db.cp[c].anomalies \in Nat
                                    /\ db.cp[c].anomalies < ConfirmReadings
<1>1. stray[c] \in Nat
  BY PriceAssumption DEF Good, TypeOK
<1> QED
  BY <1>1, CheckpointIs, ReadingsAreInt, NoReadingAssumption DEF Good, TypeOK, Reading, Databases

(* An observation of a polled reading (post = 0), which the worker is then *)
(* done with, or of a posted one.                                          *)
LEMMA MovedFewLate ==
  ASSUME Good, Good', NEW c \in Bindings, NEW x \in Readings, NEW post \in {0, 1},
         Moved(db, db', c, x), used'[c] = used[c], posted'[c] = posted[c], x <= used[c],
         post = 1 => polled'[c] = polled[c],
         post = 0 => polled[c] = x /\ polled'[c] = NoReading,
         stray'[c] = Strays(c, x, db'.cp[c], post),
         stray[c] < ConfirmReadings - 1, stray'[c] < ConfirmReadings - 1,
         FewLate(used[c], db.cp[c], db.accepted[c], polled[c], posted[c], stray[c])
  PROVE  FewLate(used'[c], db'.cp[c], db'.accepted[c], polled'[c], posted'[c], stray'[c])
<1> DEFINE k == db.cp[c]
           kk == db'.cp[c]
           a == db.accepted[c]
           aa == db'.accepted[c]
           n == used[c]
           p == polled[c]
           q == polled'[c]
           z == stray[c]
           zz == stray'[c]
<1>1. /\ x \in Int /\ x # NoReading /\ n \in Int /\ a \in Nat /\ z \in Nat
      /\ k # NoReading => k.bytes \in Int /\ k.anomalies \in Nat
      /\ x <= n
  BY BindingIs, ReadingsAreInt, NoReadingAssumption
<1>2. At(x).bytes = x /\ At(x).anomalies = 0 /\ At(x) # NoReading
  <2>1. At(x) \in Checkpoint
    BY PriceAssumption DEF At, Checkpoint
  <2> QED
    BY <2>1, NoReadingAssumption DEF At
<1>3. zz \in Nat /\ ConfirmReadings \in Nat
  BY PriceAssumption DEF Good, TypeOK
<1>4. /\ p # NoReading => p <= n
      /\ k = NoReading => a = 0
      /\ k # NoReading => a <= k.bytes /\ k.bytes <= n /\ k.anomalies + Behind(k, p) <= z + 1
  BY DEF FewLate
<1>5. \A l, y : Behind(l, y) \in {0, 1}
  BY DEF Behind
<1> SUFFICES aa <= kk.bytes /\ kk.bytes <= n /\ kk # NoReading /\ kk.anomalies + Behind(kk, q) <= zz + 1
  <2>1. ASSUME aa <= kk.bytes, kk.bytes <= n, kk # NoReading, kk.anomalies + Behind(kk, q) <= zz + 1
        PROVE  FewLate(used'[c], kk, aa, q, posted'[c], zz)
    <3>1. (q # NoReading => q <= n) /\ \A y \in posted'[c] : y <= n
      BY <1>4 DEF FewLate
    <3> HIDE DEF k, kk, a, aa, p, q, z, zz
    <3> QED
      BY <2>1, <3>1 DEF FewLate
  <2> QED
    BY <2>1
<1>6. CASE Baselined(db, db', c, x)
  <2>1. k = NoReading /\ kk = At(x) /\ aa = a
    BY <1>6 DEF Baselined
  <2>2. aa = 0
    BY <1>4, <2>1
  <2>3. x >= 0
    BY BoundAssumption DEF Readings
  <2>4. Behind(kk, q) \in {0, 1}
    BY <1>5
  <2> HIDE DEF k, kk, a, aa, n, p, q, z, zz
  <2> QED
    BY <1>1, <1>2, <1>3, <2>1, <2>2, <2>3, <2>4
<1>7. CASE Regressed(db, db', c, x)
  <2>1. /\ k # NoReading /\ x < k.bytes /\ aa = a
        /\ kk = IF k.anomalies + 1 >= ConfirmReadings THEN At(x)
                ELSE [bytes |-> k.bytes, anomalies |-> k.anomalies + 1]
    BY <1>7 DEF Regressed
  <2>2. Late(c, x) = 1
    BY <1>1, <2>1 DEF Late
  <2> DEFINE on == [bytes |-> k.bytes, anomalies |-> k.anomalies + 1]
  <2>3. on.bytes = k.bytes /\ on.anomalies = k.anomalies + 1 /\ Behind(on, q) = Behind(k, q)
    BY DEF Behind
  <2>4. kk # k
    <3> HIDE DEF k, kk, on
    <3> QED
      BY <1>1, <1>2, <2>1, <2>3 DEF on
  <2>5. zz = z + post
    BY <1>1, <1>3, <2>2, <2>4 DEF Strays
  <2>6. Behind(k, p) \in {0, 1} /\ (post = 1 => Behind(k, q) = Behind(k, p))
        /\ (post = 0 => Behind(k, p) = 1 /\ Behind(k, q) = 0)
    BY <1>1, <1>5, <2>1 DEF Behind
  <2> HIDE DEF k, kk, a, aa, n, p, q, z, zz, on
  <2>7. k.anomalies + 1 + Behind(k, q) <= zz + 1 /\ Behind(k, q) \in {0, 1}
    BY <1>1, <1>4, <1>5, <2>1, <2>5, <2>6
  <2>8. zz + 1 < ConfirmReadings
    BY <1>3 DEF zz
  <2>9. ~ (k.anomalies + 1 >= ConfirmReadings)
    BY <1>1, <1>3, <2>1, <2>7, <2>8
  <2>10. kk = on
    BY <2>1, <2>9 DEF on
  <2>11. kk # NoReading
    <3>1. kk \in Checkpoint \/ kk = NoReading
      BY DEF kk, Good, TypeOK, Databases
    <3>2. k.bytes \in Readings /\ k.anomalies + 1 \in 0..(ConfirmReadings - 1)
      <4>1. k.bytes \in Readings
        BY <2>1, CheckpointIs DEF k, Good, TypeOK
      <4> QED
        BY <1>1, <1>3, <2>1, <2>9, <4>1
    <3>3. on \in Checkpoint
      BY <3>2 DEF on, Checkpoint
    <3> QED
      BY <2>10, <3>3, NoReadingAssumption
  <2> QED
    BY <1>1, <1>4, <2>1, <2>3, <2>7, <2>10, <2>11
<1>8. CASE Accepted(db, db', c, x)
  <2>1. k # NoReading /\ x >= k.bytes /\ kk = At(x) /\ aa = a + (x - k.bytes)
    BY <1>8 DEF Accepted
  <2>2. Behind(kk, q) \in {0, 1}
    BY <1>5
  <2> HIDE DEF k, kk, a, aa, n, p, q, z, zz
  <2>3. aa <= x
    BY <1>1, <1>4, <2>1
  <2> QED
    BY <1>1, <1>2, <1>3, <2>1, <2>2, <2>3
<1> QED
  BY <1>6, <1>7, <1>8 DEF Moved

LEMMA RefusedFewLate ==
  ASSUME Good, NEW c \in Bindings, NEW x \in Readings,
         Refused(db, db', c, x), used'[c] = used[c], posted'[c] = posted[c], polled'[c] = polled[c],
         stray'[c] = Strays(c, x, db'.cp[c], 1),
         FewLate(used[c], db.cp[c], db.accepted[c], polled[c], posted[c], stray[c])
  PROVE  FewLate(used'[c], db'.cp[c], db'.accepted[c], polled'[c], posted'[c], stray'[c])
<1>1. db'.cp[c] = db.cp[c] /\ db'.accepted[c] = db.accepted[c]
  BY DEF Refused
<1>2. stray'[c] = stray[c]
  BY <1>1, StraysAre
<1> QED
  BY <1>1, <1>2

LEMMA StaysFewLate ==
  ASSUME Good, NEW c \in Bindings, Stays(c), resets'[c] = 0, resets[c] = 0, counter[c] = used[c],
         FewLate(used[c], db.cp[c], db.accepted[c], polled[c], posted[c], stray[c])
  PROVE  /\ counter'[c] = used'[c]
         /\ FewLate(used'[c], db'.cp[c], db'.accepted[c], polled'[c], posted'[c], stray'[c])
<1> DEFINE k == db.cp[c]
           n == used[c]
           z == stray[c]
<1>1. db'.cp[c] = k /\ db'.accepted[c] = db.accepted[c] /\ stray'[c] = z
  BY DEF Stays, Same
<1>2. n \in Int /\ z \in Nat /\ counter'[c] = used'[c] /\ (used'[c] = n \/ used'[c] = n + 1)
  BY BindingIs DEF Stays
<1>3. /\ polled[c] # NoReading => polled[c] \in Int
      /\ \A x \in posted[c] : x \in Int
      /\ k # NoReading => k.bytes \in Int /\ k.anomalies \in Nat
  BY BindingIs
<1>4. polled'[c] \in {polled[c], NoReading, n} /\ posted'[c] \subseteq posted[c] \union {n}
  BY DEF Stays
<1>5. /\ polled[c] # NoReading => polled[c] <= n
      /\ \A x \in posted[c] : x <= n
      /\ k = NoReading => db.accepted[c] = 0
      /\ k # NoReading => /\ db.accepted[c] <= k.bytes /\ k.bytes <= n
                          /\ k.anomalies + Behind(k, polled[c]) <= z + 1
  BY DEF FewLate
<1> HIDE DEF k, n, z
<1>6. /\ polled'[c] # NoReading => polled'[c] <= used'[c]
      /\ \A x \in posted'[c] : x <= used'[c]
  <2>1. \A m \in Int : m <= n => m <= used'[c]
    BY <1>2
  <2> QED
    BY <1>2, <1>3, <1>4, <1>5, <2>1
<1>7. k # NoReading => k.anomalies + Behind(k, polled'[c]) <= z + 1
  <2> SUFFICES ASSUME k # NoReading PROVE k.anomalies + Behind(k, polled'[c]) <= z + 1
    OBVIOUS
  <2>1. Behind(k, NoReading) = 0 /\ Behind(k, n) = 0
    BY <1>2, <1>3, <1>5 DEF Behind
  <2>2. \A y : Behind(k, y) \in {0, 1}
    BY DEF Behind
  <2>3. Behind(k, polled'[c]) <= Behind(k, polled[c])
    BY <1>4, <2>1, <2>2
  <2> QED
    BY <1>2, <1>3, <1>5, <2>2, <2>3
<1>8. k # NoReading => db.accepted[c] <= k.bytes /\ k.bytes <= used'[c]
  BY <1>2, <1>3, <1>5
<1> QED
  BY <1>1, <1>2, <1>5, <1>6, <1>7, <1>8 DEF FewLate

LEMMA FewLateNext == Good /\ Kept /\ FewLateReadings => FewLateReadings'
<1> SUFFICES ASSUME Good, Kept, FewLateReadings, NEW c \in Bindings,
                    resets'[c] = 0, stray'[c] < ConfirmReadings - 1
             PROVE  /\ counter'[c] = used'[c]
                    /\ FewLate(used'[c], db'.cp[c], db'.accepted[c], polled'[c], posted'[c], stray'[c])
  <2>1. FewLateReadings' <=>
          \A c \in Bindings : resets'[c] = 0 /\ stray'[c] < ConfirmReadings - 1 =>
            /\ counter'[c] = used'[c]
            /\ FewLate(used'[c], db'.cp[c], db'.accepted[c], polled'[c], posted'[c], stray'[c])
    BY DEF FewLateReadings, FewLate, Late, Behind, Orderly
  <2> QED
    BY <2>1
<1>1. resets[c] \in Nat /\ BindingStep(c) /\ Good'
  BY BindingIs DEF Kept
<1>2. resets[c] = 0
  BY <1>1 DEF BindingStep, Stays
<1>3. stray[c] < ConfirmReadings - 1
  <2>1. stray[c] = ConfirmReadings - 1 => stray'[c] = stray[c]
    BY <1>1, StraysAre DEF BindingStep, Stays, ObservesPolled, ObservesPosted
  <2>2. stray[c] \in 0..(ConfirmReadings - 1) /\ ConfirmReadings \in Nat
    BY PriceAssumption DEF Good, TypeOK
  <2> QED
    BY <2>1, <2>2
<1>4. counter[c] = used[c] /\ FewLate(used[c], db.cp[c], db.accepted[c], polled[c], posted[c], stray[c])
  BY <1>2, <1>3, FewLateIs DEF Orderly
<1>5. CASE Stays(c)
  BY <1>2, <1>4, <1>5, StaysFewLate
<1>6. CASE used'[c] = used[c] /\ counter'[c] = counter[c] /\ ObservesPolled(c)
  <2>1. polled[c] \in Readings /\ polled[c] # NoReading /\ polled[c] <= used[c]
    BY <1>4, <1>6, NoReadingAssumption DEF ObservesPolled, FewLate
  <2>2. FewLate(used'[c], db'.cp[c], db'.accepted[c], polled'[c], posted'[c], stray'[c])
    BY <1>1, <1>3, <1>4, <1>6, <2>1, MovedFewLate DEF ObservesPolled
  <2> QED
    BY <1>4, <1>6, <2>2
<1>7. CASE used'[c] = used[c] /\ counter'[c] = counter[c] /\ ObservesPosted(c)
  <2>1. PICK x \in posted[c] :
          /\ stray'[c] = Strays(c, x, db'.cp[c], 1)
          /\ Moved(db, db', c, x) \/ Refused(db, db', c, x)
    BY <1>7 DEF ObservesPosted
  <2>2. x \in Readings /\ x <= used[c] /\ polled'[c] = polled[c] /\ posted'[c] = posted[c]
    BY <1>4, <1>7, <2>1, BindingIs DEF ObservesPosted, FewLate
  <2>3. FewLate(used'[c], db'.cp[c], db'.accepted[c], polled'[c], posted'[c], stray'[c])
    BY <1>1, <1>3, <1>4, <1>7, <2>1, <2>2, MovedFewLate, RefusedFewLate
  <2> QED
    BY <1>4, <1>7, <2>3
<1> QED
  BY <1>1, <1>5, <1>6, <1>7 DEF BindingStep

LEMMA FewLateInit == Init => FewLateReadings
<1> SUFFICES ASSUME Init, NEW c \in Bindings
             PROVE  /\ counter[c] = used[c]
                    /\ FewLate(used[c], db.cp[c], db.accepted[c], polled[c], posted[c], stray[c])
  BY FewLateIs
<1>1. /\ db.cp[c] = NoReading /\ db.accepted[c] = 0 /\ polled[c] = NoReading /\ posted[c] = {}
      /\ counter[c] = 0 /\ used[c] = 0
  BY DEF Init
<1> QED
  BY <1>1 DEF FewLate

(* Usage is not invented by readings that arrive late, repeated or out of  *)
(* order, however many there are: as long as the panel is not reset, it    *)
(* takes USAGE_RESET_CONFIRM_READINGS - 1 late posts in a row.             *)
THEOREM BillingUsage == Spec => []UsageNeverInvented
<1>1. Good /\ FewLateReadings /\ [Next]_vars => FewLateReadings'
  BY StepKeeps, FewLateNext
<1>2. Good /\ FewLateReadings => UsageNeverInvented
  <2> SUFFICES ASSUME Good, FewLateReadings, NEW b \in Bindings, Orderly(b)
               PROVE  db.accepted[b] <= used[b]
    BY DEF UsageNeverInvented
  <2>1. FewLate(used[b], db.cp[b], db.accepted[b], polled[b], posted[b], stray[b])
    BY FewLateIs
  <2>2. used[b] >= 0
    <3>1. \A r \in Readings : r >= 0
      BY BoundAssumption DEF Readings
    <3> QED
      BY <3>1 DEF Good, TypeOK
  <2> QED
    BY <2>1, <2>2, BindingIs DEF FewLate
<1> QED
  BY GoodAlways, FewLateInit, <1>1, <1>2, PTL DEF Spec
-----------------------------------------------------------------------------
(* What is charged was accepted.                                           *)

(* Rows of o whose interval every payer of the path was charged for.       *)
Full(d, b, o) ==
  {r \in Rows(d, b) : r.payer = o /\ \A p \in ToSet(Path[b]) : [r EXCEPT !.payer = p] \in Rows(d, b)}

LEMMA RowIs ==
  ASSUME NEW r \in Settlement, NEW p
  PROVE  /\ [r EXCEPT !.payer = p] = Row(r.binding, r.from, r.to, p)
         /\ r = Row(r.binding, r.from, r.to, r.payer)
         /\ r.from \in Int /\ r.to \in Int
BY ReadingsAreInt DEF Settlement, Row

LEMMA RowsAre ==
  ASSUME NEW d \in Databases, NEW b \in Bindings
  PROVE  /\ Rows(d, b) \subseteq Settlement /\ Rows(d, b) \subseteq d.settled
         /\ \A r \in Rows(d, b) : r.binding = b
         /\ Unfinished(d, b) = {r \in Rows(d, b) : \E o \in ToSet(Path[b]) : [r EXCEPT !.payer = o] \notin Rows(d, b)}
<1>1. Rows(d, b) \subseteq Settlement /\ Rows(d, b) \subseteq d.settled /\ \A r \in Rows(d, b) : r.binding = b
  BY DEF Rows, Databases
<1>2. \A r \in Rows(d, b) : \A o :
        [r EXCEPT !.payer = o] \in d.settled <=> [r EXCEPT !.payer = o] \in Rows(d, b)
  <2> TAKE r \in Rows(d, b)
  <2> TAKE o
  <2>1. [r EXCEPT !.payer = o].binding = b
    BY <1>1, RowIs DEF Row
  <2> QED
    BY <2>1 DEF Rows
<1>3. Unfinished(d, b) = {r \in Rows(d, b) : \E o \in ToSet(Path[b]) : [r EXCEPT !.payer = o] \notin d.settled}
  BY DEF Unfinished, Rows
<1> QED
  BY <1>1, <1>2, <1>3

LEMMA FullIs ==
  ASSUME NEW d \in Databases, Sound(d), NEW b \in Bindings, NEW o
  PROVE  /\ Full(d, b, o) = {r \in d.settled : r.binding = b /\ r.payer = o} \ Unfinished(d, b)
         /\ Counted(Full(d, b, o))
<1>1. Full(d, b, o) = {r \in Rows(d, b) : r.payer = o} \ Unfinished(d, b)
  <2>1. Unfinished(d, b) = {r \in Rows(d, b) : \E p \in ToSet(Path[b]) : [r EXCEPT !.payer = p] \notin Rows(d, b)}
    BY RowsAre
  <2> QED
    BY <2>1 DEF Full
<1>2. {r \in Rows(d, b) : r.payer = o} = {r \in d.settled : r.binding = b /\ r.payer = o}
  BY DEF Rows
<1>3. Full(d, b, o) \subseteq d.settled /\ Full(d, b, o) \subseteq Settlement
  BY <1>1, RowsAre
<1>4. IsFiniteSet(Full(d, b, o))
  BY <1>3, FS_Subset DEF Sound
<1>5. \A r \in Full(d, b, o) : r.to - r.from \in Int
  <2> TAKE r \in Full(d, b, o)
  <2>1. r.to \in Int /\ r.from \in Int
    BY <1>3, RowIs
  <2> QED
    BY <2>1
<1> QED
  BY <1>1, <1>2, <1>4, <1>5 DEF Counted

LEMMA SameFull ==
  ASSUME NEW d \in Databases, NEW e \in Databases, NEW b \in Bindings, Rows(e, b) = Rows(d, b)
  PROVE  Unfinished(e, b) = Unfinished(d, b) /\ \A o : Full(e, b, o) = Full(d, b, o)
<1>1. \A o : Full(e, b, o) = Full(d, b, o)
  BY DEF Full
<1>2. Unfinished(d, b) = {r \in Rows(d, b) : \E o \in ToSet(Path[b]) : [r EXCEPT !.payer = o] \notin Rows(d, b)}
  BY RowsAre
<1>3. Unfinished(e, b) = {r \in Rows(e, b) : \E o \in ToSet(Path[b]) : [r EXCEPT !.payer = o] \notin Rows(e, b)}
  BY RowsAre
<1> QED
  BY <1>1, <1>2, <1>3

(* Rows of other intervals are full after the charges if they were before. *)
LEMMA OtherIntervals ==
  ASSUME NEW d \in Databases, NEW e \in Databases, NEW b \in Bindings, NEW x \in Readings, Charges(d, e, b, x),
         NEW r \in Rows(e, b), r.from # d.cp[b].bytes \/ r.to # x
  PROVE  /\ r \in Rows(d, b)
         /\ \A p : [r EXCEPT !.payer = p] \in Rows(e, b) <=> [r EXCEPT !.payer = p] \in Rows(d, b)
<1> DEFINE f == d.cp[b].bytes
           new == {Row(b, f, x, o) : o \in ToSet(Path[b])}
<1>1. Rows(d, b) \subseteq Rows(e, b) /\ Rows(e, b) \subseteq Rows(d, b) \union new
  BY DEF Charges
<1>2. \A t \in new : t.from = f /\ t.to = x
  BY DEF Row
<1>3. r \in Settlement
  BY RowsAre
<1> HIDE DEF new
<1>4. \A p : [r EXCEPT !.payer = p] \notin new
  <2> TAKE p
  <2>1. [r EXCEPT !.payer = p].from = r.from /\ [r EXCEPT !.payer = p].to = r.to
    BY <1>3, RowIs DEF Row
  <2> QED
    BY <1>2, <2>1
<1>5. r \notin new
  BY <1>2
<1> QED
  BY <1>1, <1>4, <1>5

LEMMA AcceptedFull ==
  ASSUME NEW d \in Databases, NEW e \in Databases, NEW b \in Bindings, NEW x \in Readings,
         d.cp[b].bytes \in Readings, Charges(d, e, b, x), AllPaid(d, e, b, x)
  PROVE  /\ Unfinished(e, b) \subseteq Unfinished(d, b)
         /\ \A o \in ToSet(Path[b]) : Full(e, b, o) = Full(d, b, o) \union {Row(b, d.cp[b].bytes, x, o)}
<1> DEFINE f == d.cp[b].bytes
<1>1. Rows(d, b) \subseteq Rows(e, b)
  BY DEF Charges
<1>2. \A p \in ToSet(Path[b]) : Row(b, f, x, p) \in Rows(e, b)
  BY DEF AllPaid
<1>3. \A r \in Rows(e, b) : r \in Settlement /\ r.binding = b
  BY RowsAre
<1>4. ASSUME NEW r \in Rows(e, b), r.from = f, r.to = x
      PROVE  r = Row(b, f, x, r.payer) /\ \A p \in ToSet(Path[b]) : [r EXCEPT !.payer = p] \in Rows(e, b)
  <2>1. r \in Settlement /\ r.binding = b
    BY <1>3
  <2>2. r = Row(b, f, x, r.payer) /\ \A p : [r EXCEPT !.payer = p] = Row(b, f, x, p)
    <3>1. /\ \A p : [r EXCEPT !.payer = p] = Row(r.binding, r.from, r.to, p)
          /\ r = Row(r.binding, r.from, r.to, r.payer)
      BY <2>1, RowIs
    <3> HIDE DEF f
    <3> QED
      BY <1>4, <2>1, <3>1
  <2> QED
    BY <1>2, <2>2
<1>5. Unfinished(e, b) \subseteq Unfinished(d, b)
  <2> SUFFICES ASSUME NEW r \in Rows(e, b), NEW p \in ToSet(Path[b]), [r EXCEPT !.payer = p] \notin Rows(e, b)
               PROVE  r \in Unfinished(d, b)
    <3>1. Unfinished(e, b) = {r \in Rows(e, b) : \E o \in ToSet(Path[b]) : [r EXCEPT !.payer = o] \notin Rows(e, b)}
      BY RowsAre
    <3> QED
      BY <3>1
  <2>1. r.from # f \/ r.to # x
    BY <1>4
  <2>2. r \in Rows(d, b) /\ [r EXCEPT !.payer = p] \notin Rows(d, b)
    BY <2>1, OtherIntervals
  <2> QED
    BY <2>2, RowsAre
<1>6. ASSUME NEW o \in ToSet(Path[b]) PROVE Full(e, b, o) = Full(d, b, o) \union {Row(b, f, x, o)}
  <2> DEFINE new == Row(b, f, x, o)
  <2>1. ASSUME NEW r \in Full(e, b, o), r # new PROVE r \in Full(d, b, o)
    <3>1. r \in Rows(e, b) /\ r.payer = o /\ \A p \in ToSet(Path[b]) : [r EXCEPT !.payer = p] \in Rows(e, b)
      BY DEF Full
    <3>2. r.from # f \/ r.to # x
      BY <1>4, <2>1, <3>1
    <3>3. r \in Rows(d, b) /\ \A p \in ToSet(Path[b]) : [r EXCEPT !.payer = p] \in Rows(d, b)
      BY <3>1, <3>2, OtherIntervals
    <3> QED
      BY <3>1, <3>3 DEF Full
  <2>2. Full(d, b, o) \subseteq Full(e, b, o)
    BY <1>1 DEF Full
  <2>3. new \in Rows(e, b) /\ new.payer = o /\ new.from = f /\ new.to = x
    BY <1>2 DEF Row
  <2>4. new \in Full(e, b, o)
    BY <1>4, <2>3 DEF Full
  <2> QED
    BY <2>1, <2>2, <2>4
<1> QED
  BY <1>5, <1>6

LEMMA RefusedFull ==
  ASSUME NEW d \in Databases, NEW e \in Databases, NEW b \in Bindings, NEW x \in Readings,
         Charges(d, e, b, x), ~ AllPaid(d, e, b, x)
  PROVE  \A o : Full(e, b, o) = Full(d, b, o)
<1> DEFINE f == d.cp[b].bytes
<1>1. Rows(d, b) \subseteq Rows(e, b)
  BY DEF Charges
<1>2. PICK q \in ToSet(Path[b]) : Row(b, f, x, q) \notin Rows(e, b)
  BY DEF AllPaid
<1> TAKE o
<1>3. Full(d, b, o) \subseteq Full(e, b, o)
  BY <1>1 DEF Full
<1>4. ASSUME NEW r \in Full(e, b, o) PROVE r \in Full(d, b, o)
  <2>1. r \in Rows(e, b) /\ r.payer = o /\ \A p \in ToSet(Path[b]) : [r EXCEPT !.payer = p] \in Rows(e, b)
    BY DEF Full
  <2>2. r \in Settlement /\ r.binding = b
    BY <2>1, RowsAre
  <2>3. Row(b, r.from, r.to, q) \in Rows(e, b)
    BY <2>1, <2>2, RowIs
  <2>4. r.from # f \/ r.to # x
    BY <1>2, <2>3
  <2>5. r \in Rows(d, b) /\ \A p \in ToSet(Path[b]) : [r EXCEPT !.payer = p] \in Rows(d, b)
    BY <2>1, <2>4, OtherIntervals
  <2> QED
    BY <2>1, <2>5 DEF Full
<1> QED
  BY <1>3, <1>4
Within(d, b) == \A o \in ToSet(Path[b]) : Units(Full(d, b, o)) <= d.accepted[b]

LEMMA IntervalsPaidIs ==
  ASSUME Good
  PROVE  IntervalsPaid <=> \A b \in Bindings : (Unfinished(db, b) # {} => b \in cut) /\ Within(db, b)
<1>1. db \in Databases /\ Sound(db)
  BY DEF Good, TypeOK
<1>2. \A b \in Bindings : \A o :
        Full(db, b, o) = {r \in db.settled : r.binding = b /\ r.payer = o} \ Unfinished(db, b)
  BY <1>1, FullIs
<1>3. \A b \in Bindings : Within(db, b) <=>
        \A o \in ToSet(Path[b]) :
          Units({r \in db.settled : r.binding = b /\ r.payer = o} \ Unfinished(db, b)) <= db.accepted[b]
  BY <1>2 DEF Within
<1> QED
  BY <1>1, <1>3 DEF IntervalsPaid, Sound

LEMMA AcceptedWithin ==
  ASSUME NEW d \in Databases, NEW e \in Databases, Sound(d), NEW b \in Bindings, NEW x \in Readings,
         Accepted(d, e, b, x), Within(d, b)
  PROVE  Unfinished(e, b) \subseteq Unfinished(d, b) /\ Within(e, b)
<1> DEFINE f == d.cp[b].bytes
<1>1. /\ f \in Readings /\ f \in Int /\ x \in Int /\ x >= f
      /\ e.accepted[b] = d.accepted[b] + (x - f) /\ d.accepted[b] \in Int
  BY CheckpointIs, ReadingsAreInt DEF Accepted, Databases
<1>2. CASE x = f /\ Rows(e, b) = Rows(d, b)
  BY <1>1, <1>2, SameFull DEF Within
<1>3. CASE Charges(d, e, b, x) /\ AllPaid(d, e, b, x)
  <2>1. /\ Unfinished(e, b) \subseteq Unfinished(d, b)
        /\ \A o \in ToSet(Path[b]) : Full(e, b, o) = Full(d, b, o) \union {Row(b, f, x, o)}
    BY <1>1, <1>3, AcceptedFull
  <2>2. ASSUME NEW o \in ToSet(Path[b]) PROVE Units(Full(e, b, o)) <= e.accepted[b]
    <3> DEFINE row == Row(b, f, x, o)
               T == Full(d, b, o)
    <3>1. row.to = x /\ row.from = f
      BY DEF Row
    <3>2. Counted(T)
      BY FullIs
    <3>3. Units(T) <= d.accepted[b] /\ Full(e, b, o) = T \union {row}
      BY <2>1 DEF Within
    <3>4. Units(T) \in Int
      BY <3>2, UnitsRemove
    <3> HIDE DEF row, T, f
    <3>5. CASE row \in T
      <4>1. Full(e, b, o) = T
        BY <3>3, <3>5
      <4>2. d.accepted[b] <= e.accepted[b] /\ e.accepted[b] \in Int
        BY <1>1
      <4>3. Units(T) <= e.accepted[b]
        BY <1>1, <3>3, <3>4, <4>2
      <4> QED
        BY <4>1, <4>3
    <3>6. CASE row \notin T
      <4>1. row.to - row.from \in Int
        BY <1>1, <3>1
      <4>2. Units(T \union {row}) = row.to - row.from + Units(T)
        BY <3>2, <3>6, <4>1, UnitsAdd
      <4>3. Units(T \union {row}) = x - f + Units(T)
        BY <3>1, <4>2
      <4> QED
        BY <1>1, <3>3, <3>4, <4>3
    <3> QED
      BY <3>5, <3>6
  <2> QED
    BY <2>1, <2>2 DEF Within
<1> QED
  BY <1>2, <1>3 DEF Accepted

LEMMA IntervalsPaidNext == Good /\ Kept /\ IntervalsPaid => IntervalsPaid'
<1> SUFFICES ASSUME Good, Kept, IntervalsPaid PROVE IntervalsPaid'
  OBVIOUS
<1>0. Good'
  BY DEF Kept
<1>00. db' \in Databases /\ Sound(db')
  BY <1>0 DEF Good, TypeOK
<1> SUFFICES ASSUME NEW c \in Bindings
             PROVE  (Unfinished(db', c) # {} => c \in cut') /\ Within(db', c)
  <2>1. \A b \in Bindings : \A o :
          Full(db', b, o) = {r \in db'.settled : r.binding = b /\ r.payer = o} \ Unfinished(db', b)
    BY <1>00, FullIs
  <2>2. \A b \in Bindings : Within(db', b) <=>
          \A o \in ToSet(Path[b]) :
            Units({r \in db'.settled : r.binding = b /\ r.payer = o} \ Unfinished(db', b)) <= db'.accepted[b]
    BY <2>1 DEF Within
  <2> QED
    BY <1>00, <2>2 DEF IntervalsPaid, Sound
<1>1. /\ db \in Databases /\ Sound(db) /\ db' \in Databases /\ cut \subseteq cut' /\ BindingStep(c)
      /\ (Unfinished(db, c) # {} => c \in cut) /\ Within(db, c)
  BY <1>00, IntervalsPaidIs DEF Good, TypeOK, Kept
<1>2. ASSUME Rows(db', c) = Rows(db, c), db'.accepted[c] = db.accepted[c]
      PROVE  (Unfinished(db', c) # {} => c \in cut') /\ Within(db', c)
  <2>1. Unfinished(db', c) = Unfinished(db, c) /\ \A o : Full(db', c, o) = Full(db, c, o)
    BY <1>1, <1>2, SameFull
  <2> QED
    BY <1>1, <1>2, <2>1 DEF Within
<1>3. ASSUME NEW x \in Readings, Moved(db, db', c, x)
      PROVE  (Unfinished(db', c) # {} => c \in cut') /\ Within(db', c)
  <2>1. CASE Baselined(db, db', c, x) \/ Regressed(db, db', c, x)
    BY <1>2, <2>1 DEF Baselined, Regressed
  <2>2. CASE Accepted(db, db', c, x)
    <3>1. Unfinished(db', c) \subseteq Unfinished(db, c) /\ Within(db', c)
      BY <1>1, <2>2, AcceptedWithin
    <3> QED
      BY <1>1, <3>1
  <2> QED
    BY <1>3, <2>1, <2>2 DEF Moved
<1>4. ASSUME NEW x \in Readings, Refused(db, db', c, x), Unfinished(db', c) # {} => c \in cut'
      PROVE  (Unfinished(db', c) # {} => c \in cut') /\ Within(db', c)
  <2>1. \A o : Full(db', c, o) = Full(db, c, o)
    BY <1>1, <1>4, RefusedFull DEF Refused
  <2>2. db'.accepted[c] = db.accepted[c]
    BY <1>4 DEF Refused
  <2> QED
    BY <1>1, <1>4, <2>1, <2>2 DEF Within
<1> QED
  <2>1. CASE Stays(c)
    BY <1>2, <2>1 DEF Stays, Same
  <2>2. CASE ObservesPolled(c)
    BY <1>3, <2>2 DEF ObservesPolled
  <2>3. CASE ObservesPosted(c)
    <3>1. \A x \in posted[c] : x \in Readings
      BY BindingIs
    <3> QED
      BY <1>3, <1>4, <2>3, <3>1 DEF ObservesPosted
  <2> QED
    BY <1>1, <2>1, <2>2, <2>3 DEF BindingStep

LEMMA IntervalsPaidInit == Init => IntervalsPaid
<1> SUFFICES ASSUME Init PROVE IntervalsPaid
  OBVIOUS
<1>1. Good
  BY GoodInit
<1>2. db.settled = {} /\ \A b \in Bindings : db.accepted[b] = 0
  BY DEF Init
<1>3. Units({}) = 0
  <2>1. Counted({})
    BY FS_EmptySet DEF Counted
  <2> QED
    BY <2>1, UnitsPick
<1>4. \A b \in Bindings : Unfinished(db, b) = {} /\ \A o : Full(db, b, o) = {}
  BY <1>2 DEF Unfinished, Full, Rows
<1>5. \A b \in Bindings : Within(db, b)
  BY <1>2, <1>3, <1>4 DEF Within
<1> QED
  BY <1>1, <1>4, <1>5, IntervalsPaidIs

(* Whatever polls, posts, holds and retries race, no level of a path pays  *)
(* for more traffic than was accepted: the idempotency key of every edge   *)
(* keeps a retry from charging it again, and a refused observation is      *)
(* rolled back, or is a batch's and counts once it is completed.           *)
THEOREM BillingCharges == Spec => []ChargesMatchAccepted
<1>1. Good /\ IntervalsPaid /\ [Next]_vars => IntervalsPaid'
  BY StepKeeps, IntervalsPaidNext
<1>2. Good /\ IntervalsPaid => ChargesMatchAccepted
  <2> SUFFICES ASSUME Good, IntervalsPaid, NEW b \in Bindings, b \notin cut \/ Unfinished(db, b) = {},
                      NEW o \in ToSet(Path[b])
               PROVE  Charged(b, o) <= db.accepted[b]
    BY DEF ChargesMatchAccepted
  <2>1. Unfinished(db, b) = {}
    BY DEF IntervalsPaid
  <2> DEFINE T == {r \in db.settled : r.binding = b /\ r.payer = o}
  <2>2. Units(T \ Unfinished(db, b)) <= db.accepted[b]
    BY DEF IntervalsPaid
  <2>3. T \ Unfinished(db, b) = T
    BY <2>1
  <2> QED
    BY <2>2, <2>3 DEF Charged
<1> QED
  BY GoodAlways, IntervalsPaidInit, <1>1, <1>2, PTL DEF Spec

LEMMA ChargedIsInt ==
  ASSUME Good, IntervalsPaid, NEW b \in Bindings, b \notin cut, NEW o
  PROVE  Charged(b, o) \in Int
<1>1. db \in Databases /\ Sound(db) /\ Unfinished(db, b) = {}
  BY DEF Good, TypeOK, IntervalsPaid
<1>2. Counted(Full(db, b, o)) /\ Charged(b, o) = Units(Full(db, b, o))
  BY <1>1, FullIs DEF Charged
<1> HIDE DEF Full
<1>3. Full(db, b, o) \in SUBSET Full(db, b, o)
  OBVIOUS
<1> QED
  BY <1>2, <1>3, UnitsRemove

(* No level pays for more traffic than the binding used, in spite of late  *)
(* readings, retries and holds: as long as the panel is not reset, no row  *)
(* of late posts was taken for a reset, and no batch has left the binding  *)
(* charged on some levels only.                                            *)
THEOREM BillingNotTwice == Spec => []NotTwiceOutsideBatches
<1>1. Good /\ IntervalsPaid /\ [Next]_vars => IntervalsPaid'
  BY StepKeeps, IntervalsPaidNext
<1>2. Spec => []UsageNeverInvented
  BY BillingUsage
<1>3. Good /\ IntervalsPaid /\ UsageNeverInvented /\ ChargesMatchAccepted
        => NotTwiceOutsideBatches
  <2> SUFFICES ASSUME Good, IntervalsPaid, UsageNeverInvented, ChargesMatchAccepted,
                      NEW b \in Bindings, Orderly(b), b \notin cut, NEW o \in ToSet(Path[b])
               PROVE  Charged(b, o) <= used[b]
    BY DEF NotTwiceOutsideBatches
  <2>1. Charged(b, o) <= db.accepted[b] /\ db.accepted[b] <= used[b]
    BY DEF ChargesMatchAccepted, UsageNeverInvented
  <2>2. Charged(b, o) \in Int
    BY ChargedIsInt
  <2>3. db.accepted[b] \in Int /\ used[b] \in Int
    <3>1. db \in Databases /\ used[b] \in Readings
      BY DEF Good, TypeOK
    <3>2. db.accepted \in [Bindings -> Nat]
      BY <3>1 DEF Databases
    <3>3. db.accepted[b] \in Nat
      BY <3>2
    <3>4. used[b] \in Int
      BY <3>1, ReadingsAreInt
    <3> QED
      BY <3>3, <3>4
  <2> QED
    BY <2>1, <2>2, <2>3
<1> QED
  BY GoodAlways, IntervalsPaidInit, BillingCharges, <1>1, <1>2, <1>3, PTL DEF Spec
=============================================================================
