--------------------------- MODULE CommonTheorems ---------------------------
(***************************************************************************)
(* What the proofs of the components have in common: sums (Total of        *)
(* Types.tla), the bookings of the portfolio, and what the report's pass   *)
(* over a journal computes.                                                *)
(*                                                                         *)
(* Total and the walk are folds: functions on the subsets of a finite set, *)
(* defined by removing an element.  That there is such a function is shown *)
(* by induction on the size of the subsets, and so is everything about it. *)
(***************************************************************************)
EXTENDS Metrics, Portfolio, WellFoundedInduction, FiniteSetTheorems, SequenceTheorems,
        TLAPS

(* Induction in the form of a set of numbers, which the provers can use.   *)
Below == OpToRel(<, Nat)

LEMMA SetInduction ==
  ASSUME NEW S, 0 \in S, \A n \in Nat : n \in S => n + 1 \in S
  PROVE  Nat \subseteq S
<1> DEFINE T == Nat \ S
<1> SUFFICES ASSUME T # {} PROVE FALSE
  OBVIOUS
<1>1. PICK n \in T : \A m \in T : <<m, n>> \notin Below
  <2>1. IsWellFoundedOn(Below, Nat)
    BY NatLessThanWellFounded DEF Below
  <2>2. T \subseteq Nat
    OBVIOUS
  <2> HIDE DEF T
  <2> QED
    BY <2>1, <2>2, WFMin
<1>2. n \in Nat /\ n # 0
  OBVIOUS
<1>3. n - 1 \in Nat /\ <<n - 1, n>> \in Below
  BY <1>2 DEF Below, OpToRel
<1>4. n - 1 \in S
  BY <1>1, <1>3
<1>5. n - 1 + 1 = n
  BY <1>2
<1> QED
  BY <1>2, <1>3, <1>4, <1>5

-----------------------------------------------------------------------------
(* The fold *)

\* The element the fold removes first.
Chosen(s) == CHOOSE x \in s : TRUE

\* it[s] is the fold of f over s, for every s in D.
IsFold(f, D, it) ==
    it = [s \in D |-> IF s = {} THEN 0 ELSE f[Chosen(s)] + it[s \ {Chosen(s)}]]

IsFoldOver(f, S, it) == IsFold(f, SUBSET S, it)

LEMMA ChosenIn ==
  ASSUME NEW s, s # {}
  PROVE  Chosen(s) \in s
  BY DEF Chosen

LEMMA SmallerSubset ==
  ASSUME NEW s, IsFiniteSet(s), NEW x \in s
  PROVE  /\ IsFiniteSet(s \ {x})
         /\ Cardinality(s) \in Nat \ {0}
         /\ Cardinality(s \ {x}) = Cardinality(s) - 1
<1>1. /\ IsFiniteSet(s \ {x})
      /\ Cardinality(s \ {x}) = Cardinality(s) - 1
  BY FS_RemoveElement
<1>2. Cardinality(s) \in Nat /\ Cardinality(s \ {x}) \in Nat
  BY <1>1, FS_CardinalityType
<1> QED
  BY <1>1, <1>2

Small(S, n) == {s \in SUBSET S : Cardinality(s) <= n}

LEMMA FoldExists ==
  ASSUME NEW f, NEW S, IsFiniteSet(S)
  PROVE  \E it : IsFoldOver(f, S, it)
<1> DEFINE N == {n \in Nat : \E it : IsFold(f, Small(S, n), it)}
<1>0. \A s \in SUBSET S : IsFiniteSet(s) /\ Cardinality(s) \in Nat
  BY FS_Subset, FS_CardinalityType
<1>1. 0 \in N
  <2> DEFINE it == [s \in Small(S, 0) |-> 0]
  <2>1. \A s \in Small(S, 0) : s = {}
    <3>1. \A s \in Small(S, 0) : IsFiniteSet(s) /\ Cardinality(s) = 0
      BY <1>0 DEF Small
    <3> QED
      BY <3>1, FS_EmptySet
  <2>2. IsFold(f, Small(S, 0), it)
    BY <2>1 DEF IsFold
  <2> QED
    BY <2>2
<1>2. ASSUME NEW n \in Nat, n \in N
      PROVE  n + 1 \in N
  <2>1. PICK h : IsFold(f, Small(S, n), h)
    BY <1>2
  <2> DEFINE g == [s \in Small(S, n + 1) |->
                     IF s = {} THEN 0
                     ELSE f[Chosen(s)] + h[s \ {Chosen(s)}]]
  <2>2. \A s \in Small(S, n) : s \in Small(S, n + 1)
    BY <1>0 DEF Small
  <2>3. \A s \in Small(S, n) : g[s] = h[s]
    BY <2>1, <2>2 DEF IsFold
  <2>4. ASSUME NEW s \in Small(S, n + 1), s # {}
        PROVE  s \ {Chosen(s)} \in Small(S, n)
    <3>1. IsFiniteSet(s) /\ Chosen(s) \in s /\ Cardinality(s) <= n + 1 /\ s \in SUBSET S
      BY <1>0, <2>4, ChosenIn DEF Small
    <3>2. /\ Cardinality(s) \in Nat
          /\ Cardinality(s \ {Chosen(s)}) = Cardinality(s) - 1
      BY <3>1, SmallerSubset
    <3> QED
      BY <3>1, <3>2 DEF Small
  <2>5. \A s \in Small(S, n + 1) :
          g[s] = IF s = {} THEN 0 ELSE f[Chosen(s)] + g[s \ {Chosen(s)}]
    BY <2>3, <2>4
  <2>6. IsFold(f, Small(S, n + 1), g)
    <3>1. g = [s \in Small(S, n + 1) |-> g[s]]
      OBVIOUS
    <3> HIDE DEF g
    <3> QED
      BY <2>5, <3>1 DEF IsFold
  <2> QED
    BY <2>6
<1>3. Nat \subseteq N
  <2> HIDE DEF N
  <2> QED
    BY <1>1, <1>2, SetInduction
<1>4. Small(S, Cardinality(S)) = SUBSET S
  <2>1. \A s \in SUBSET S : Cardinality(s) <= Cardinality(S)
    BY FS_Subset
  <2> QED
    BY <2>1 DEF Small
<1>5. Cardinality(S) \in N
  BY <1>0, <1>3
<1> QED
  BY <1>4, <1>5 DEF IsFoldOver

\* Two folds agree where both are defined.
LEMMA FoldUnique ==
  ASSUME NEW f, NEW g, NEW S, NEW T, IsFiniteSet(S), T \subseteq S,
         NEW it, IsFoldOver(f, S, it),
         NEW jt, IsFoldOver(g, T, jt),
         \A x \in T : f[x] = g[x]
  PROVE  it[T] = jt[T]
<1> DEFINE N == {n \in Nat : \A s \in SUBSET T : Cardinality(s) <= n => it[s] = jt[s]}
<1>0. \A s \in SUBSET T : IsFiniteSet(s) /\ Cardinality(s) \in Nat /\ s \in SUBSET S
  BY FS_Subset, FS_CardinalityType
<1>1. 0 \in N
  <2>1. \A s \in SUBSET T : Cardinality(s) <= 0 => s = {}
    <3>1. \A s \in SUBSET T : Cardinality(s) <= 0 => Cardinality(s) = 0
      BY <1>0
    <3> QED
      BY <1>0, <3>1, FS_EmptySet
  <2>2. it[{}] = 0 /\ jt[{}] = 0
    <3>1. {} \in SUBSET S /\ {} \in SUBSET T
      OBVIOUS
    <3> QED
      BY <3>1 DEF IsFoldOver, IsFold
  <2> QED
    BY <2>1, <2>2
<1>2. ASSUME NEW n \in Nat, n \in N
      PROVE  n + 1 \in N
  <2> SUFFICES ASSUME NEW s \in SUBSET T, Cardinality(s) <= n + 1
               PROVE  it[s] = jt[s]
    OBVIOUS
  <2>1. CASE s = {}
    BY <1>0, <2>1 DEF IsFoldOver, IsFold
  <2>2. CASE s # {}
    <3>1. Chosen(s) \in s
      BY <2>2, ChosenIn
    <3>2. /\ it[s] = f[Chosen(s)] + it[s \ {Chosen(s)}]
          /\ jt[s] = g[Chosen(s)] + jt[s \ {Chosen(s)}]
      BY <1>0, <2>2 DEF IsFoldOver, IsFold
    <3>3. /\ Cardinality(s) \in Nat
          /\ Cardinality(s \ {Chosen(s)}) = Cardinality(s) - 1
      BY <1>0, <3>1, SmallerSubset
    <3>4. Cardinality(s \ {Chosen(s)}) <= n /\ s \ {Chosen(s)} \in SUBSET T
      BY <3>3
    <3>5. it[s \ {Chosen(s)}] = jt[s \ {Chosen(s)}]
      BY <1>2, <3>4
    <3>6. f[Chosen(s)] = g[Chosen(s)]
      BY <3>1
    <3> QED
      BY <3>2, <3>5, <3>6
  <2> QED
    BY <2>1, <2>2
<1>3. Nat \subseteq N
  <2> HIDE DEF N
  <2> QED
    BY <1>1, <1>2, SetInduction
<1> QED
  BY <1>0, <1>3

\* Total is the value of the fold at the whole set.
LEMMA TotalIsFold ==
  ASSUME NEW f, NEW S, IsFiniteSet(S)
  PROVE  \E it : IsFoldOver(f, S, it) /\ Total(f, S) = it[S]
<1> DEFINE it == CHOOSE i : IsFoldOver(f, S, i)
<1>1. IsFoldOver(f, S, it)
  BY FoldExists
<1>2. Total(f, S) = it[S]
  BY DEF Total, MapThenSumSet, MapThenFoldSet, IsFoldOver, IsFold, Chosen
<1> QED
  BY <1>1, <1>2

\* The fold at a part of the set is the sum over the part.
LEMMA FoldIsTotal ==
  ASSUME NEW f, NEW S, IsFiniteSet(S), NEW it, IsFoldOver(f, S, it), NEW T, T \subseteq S
  PROVE  it[T] = Total(f, T)
<1>1. IsFiniteSet(T)
  BY FS_Subset
<1>2. PICK jt : IsFoldOver(f, T, jt) /\ Total(f, T) = jt[T]
  BY <1>1, TotalIsFold
<1>3. it[T] = jt[T]
  BY <1>2, FoldUnique
<1> QED
  BY <1>2, <1>3

-----------------------------------------------------------------------------
(* What is said of Total elsewhere *)

LEMMA TotalEmpty ==
  ASSUME NEW f
  PROVE  Total(f, {}) = 0
<1>1. IsFiniteSet({})
  BY FS_EmptySet
<1>2. PICK it : IsFoldOver(f, {}, it) /\ Total(f, {}) = it[{}]
  BY <1>1, TotalIsFold
<1> QED
  BY <1>2 DEF IsFoldOver, IsFold

LEMMA TotalChosen ==
  ASSUME NEW f, NEW S, IsFiniteSet(S), S # {}
  PROVE  Total(f, S) = f[Chosen(S)] + Total(f, S \ {Chosen(S)})
<1>1. PICK it : IsFoldOver(f, S, it) /\ Total(f, S) = it[S]
  BY TotalIsFold
<1>2. it[S] = f[Chosen(S)] + it[S \ {Chosen(S)}]
  BY <1>1 DEF IsFoldOver, IsFold
<1>3. S \ {Chosen(S)} \subseteq S
  OBVIOUS
<1>4. it[S \ {Chosen(S)}] = Total(f, S \ {Chosen(S)})
  BY <1>1, <1>3, FoldIsTotal
<1> QED
  BY <1>1, <1>2, <1>4

\* Induction on the parts of a finite set.
LEMMA PartInduction ==
  ASSUME NEW S, IsFiniteSet(S), NEW P,
         {} \in P,
         \A T \in SUBSET S : T # {} /\ (\A x \in T : T \ {x} \in P) => T \in P
  PROVE  SUBSET S \subseteq P
<1> DEFINE N == {n \in Nat : \A T \in SUBSET S : Cardinality(T) <= n => T \in P}
<1>0. \A T \in SUBSET S : IsFiniteSet(T) /\ Cardinality(T) \in Nat
  BY FS_Subset, FS_CardinalityType
<1>1. 0 \in N
  <2>1. \A T \in SUBSET S : Cardinality(T) <= 0 => Cardinality(T) = 0
    BY <1>0
  <2>2. \A T \in SUBSET S : Cardinality(T) <= 0 => T = {}
    BY <1>0, <2>1, FS_EmptySet
  <2> QED
    BY <2>2
<1>2. ASSUME NEW n \in Nat, n \in N
      PROVE  n + 1 \in N
  <2> SUFFICES ASSUME NEW T \in SUBSET S, Cardinality(T) <= n + 1
               PROVE  T \in P
    OBVIOUS
  <2>0. CASE T = {}
    BY <2>0
  <2>1. ASSUME NEW x \in T
        PROVE  T \ {x} \in P
    <3>1. Cardinality(T) \in Nat /\ Cardinality(T \ {x}) = Cardinality(T) - 1
      BY <1>0, SmallerSubset
    <3>2. T \ {x} \in SUBSET S /\ Cardinality(T \ {x}) <= n
      BY <3>1
    <3> QED
      BY <1>2, <3>2
  <2> QED
    BY <2>0, <2>1
<1>3. Nat \subseteq N
  <2> HIDE DEF N
  <2> QED
    BY <1>1, <1>2, SetInduction
<1> QED
  BY <1>0, <1>3

LEMMA TotalInt ==
  ASSUME NEW f, NEW S, IsFiniteSet(S), \A x \in S : f[x] \in Int
  PROVE  Total(f, S) \in Int
<1> DEFINE P == {T \in SUBSET S : Total(f, T) \in Int}
<1>1. {} \in P
  BY TotalEmpty
<1>2. ASSUME NEW T \in SUBSET S, T # {}, \A x \in T : T \ {x} \in P
      PROVE  T \in P
  <2>1. IsFiniteSet(T) /\ Chosen(T) \in T
    BY <1>2, ChosenIn, FS_Subset
  <2>2. Total(f, T) = f[Chosen(T)] + Total(f, T \ {Chosen(T)})
    BY <1>2, <2>1, TotalChosen
  <2>3. f[Chosen(T)] \in Int /\ Total(f, T \ {Chosen(T)}) \in Int
    BY <1>2, <2>1
  <2> QED
    BY <2>2, <2>3
<1> HIDE DEF P
<1>3. SUBSET S \subseteq P
  BY <1>1, <1>2, PartInduction
<1> QED
  BY <1>3 DEF P

LEMMA TotalNat ==
  ASSUME NEW f, NEW S, IsFiniteSet(S), \A x \in S : f[x] \in Nat
  PROVE  Total(f, S) \in Nat
<1> DEFINE P == {T \in SUBSET S : Total(f, T) \in Nat}
<1>1. {} \in P
  BY TotalEmpty
<1>2. ASSUME NEW T \in SUBSET S, T # {}, \A x \in T : T \ {x} \in P
      PROVE  T \in P
  <2>1. IsFiniteSet(T) /\ Chosen(T) \in T
    BY <1>2, ChosenIn, FS_Subset
  <2>2. Total(f, T) = f[Chosen(T)] + Total(f, T \ {Chosen(T)})
    BY <1>2, <2>1, TotalChosen
  <2>3. f[Chosen(T)] \in Nat /\ Total(f, T \ {Chosen(T)}) \in Nat
    BY <1>2, <2>1
  <2> QED
    BY <2>2, <2>3
<1> HIDE DEF P
<1>3. SUBSET S \subseteq P
  BY <1>1, <1>2, PartInduction
<1> QED
  BY <1>3 DEF P

\* Any element may be taken out first: addition does not mind the order.
LEMMA TotalRemove ==
  ASSUME NEW f, NEW S, IsFiniteSet(S), \A y \in S : f[y] \in Int, NEW x \in S
  PROVE  Total(f, S) = f[x] + Total(f, S \ {x})
<1> DEFINE P == {T \in SUBSET S : \A y \in T : Total(f, T) = f[y] + Total(f, T \ {y})}
<1>1. {} \in P
  OBVIOUS
<1>2. ASSUME NEW T \in SUBSET S, T # {}, \A y \in T : T \ {y} \in P
      PROVE  T \in P
  <2> DEFINE c == Chosen(T)
  <2>1. IsFiniteSet(T) /\ c \in T
    BY <1>2, ChosenIn, FS_Subset
  <2>2. Total(f, T) = f[c] + Total(f, T \ {c})
    BY <1>2, <2>1, TotalChosen
  <2> HIDE DEF c
  <2> SUFFICES ASSUME NEW y \in T, y # c
               PROVE  Total(f, T) = f[y] + Total(f, T \ {y})
    BY <2>2
  <2>3. Total(f, T \ {c}) = f[y] + Total(f, (T \ {c}) \ {y})
    BY <1>2, <2>1
  <2>4. Total(f, T \ {y}) = f[c] + Total(f, (T \ {y}) \ {c})
    BY <1>2, <2>1
  <2>5. (T \ {c}) \ {y} = (T \ {y}) \ {c}
    OBVIOUS
  <2>6. f[c] \in Int /\ f[y] \in Int /\ Total(f, (T \ {y}) \ {c}) \in Int
    <3>1. IsFiniteSet((T \ {y}) \ {c}) /\ \A z \in (T \ {y}) \ {c} : f[z] \in Int
      BY <2>1, FS_Subset
    <3> QED
      BY <2>1, <3>1, TotalInt
  <2>7. \A a, b, r \in Int : a + (b + r) = b + (a + r)
    OBVIOUS
  <2>8. f[c] + (f[y] + Total(f, (T \ {y}) \ {c})) = f[y] + (f[c] + Total(f, (T \ {y}) \ {c}))
    BY <2>6, <2>7
  <2>9. Total(f, T) = f[c] + (f[y] + Total(f, (T \ {y}) \ {c}))
    BY <2>2, <2>3, <2>5
  <2> QED
    BY <2>4, <2>8, <2>9
<1> HIDE DEF P
<1>3. SUBSET S \subseteq P
  BY <1>1, <1>2, PartInduction
<1> QED
  BY <1>3 DEF P

LEMMA TotalAdd ==
  ASSUME NEW f, NEW S, IsFiniteSet(S), NEW x, x \notin S, f[x] \in Int,
         \A y \in S : f[y] \in Int
  PROVE  Total(f, S \cup {x}) = f[x] + Total(f, S)
<1>1. IsFiniteSet(S \cup {x})
  BY FS_AddElement
<1>2. (S \cup {x}) \ {x} = S
  OBVIOUS
<1> DEFINE T == S \cup {x}
<1>3. IsFiniteSet(T) /\ x \in T /\ (\A y \in T : f[y] \in Int) /\ T \ {x} = S
  BY <1>1, <1>2
<1> HIDE DEF T
<1>4. Total(f, T) = f[x] + Total(f, T \ {x})
  BY <1>3, TotalRemove
<1> QED
  BY <1>3, <1>4 DEF T

\* Only the values on the set count.
LEMMA TotalSame ==
  ASSUME NEW f, NEW g, NEW S, IsFiniteSet(S), \A x \in S : f[x] = g[x]
  PROVE  Total(f, S) = Total(g, S)
<1>1. PICK it : IsFoldOver(f, S, it) /\ Total(f, S) = it[S]
  BY TotalIsFold
<1>2. PICK jt : IsFoldOver(g, S, jt) /\ Total(g, S) = jt[S]
  BY TotalIsFold
<1>3. it[S] = jt[S]
  BY <1>1, <1>2, FoldUnique
<1> QED
  BY <1>1, <1>2, <1>3

\* One value changes, and the sum by as much.
LEMMA TotalChange ==
  ASSUME NEW f, NEW g, NEW S, IsFiniteSet(S), NEW x \in S,
         \A y \in S : f[y] \in Int /\ g[y] \in Int,
         \A y \in S \ {x} : g[y] = f[y]
  PROVE  Total(g, S) = Total(f, S) - f[x] + g[x]
<1>1. Total(f, S) = f[x] + Total(f, S \ {x})
  BY TotalRemove
<1>2. Total(g, S) = g[x] + Total(g, S \ {x})
  BY TotalRemove
<1>3. IsFiniteSet(S \ {x})
  BY FS_Subset
<1>4. Total(g, S \ {x}) = Total(f, S \ {x})
  BY <1>3, TotalSame
<1>5. Total(f, S \ {x}) \in Int
  BY <1>3, TotalInt
<1>6. \A a, b, r, t, u \in Int : t = a + r /\ u = b + r => u = t - a + b
  OBVIOUS
<1>7. Total(f, S) \in Int /\ Total(g, S) \in Int
  BY TotalInt
<1>8. Total(g, S) = g[x] + Total(f, S \ {x})
  BY <1>2, <1>4
<1> QED
  BY <1>1, <1>5, <1>6, <1>7, <1>8

\* A sum of zeros.
LEMMA TotalZero ==
  ASSUME NEW f, NEW S, IsFiniteSet(S), \A x \in S : f[x] = 0
  PROVE  Total(f, S) = 0
<1> DEFINE P == {T \in SUBSET S : Total(f, T) = 0}
<1>1. {} \in P
  BY TotalEmpty
<1>2. ASSUME NEW T \in SUBSET S, T # {}, \A x \in T : T \ {x} \in P
      PROVE  T \in P
  <2>1. IsFiniteSet(T) /\ Chosen(T) \in T
    BY <1>2, ChosenIn, FS_Subset
  <2>2. Total(f, T) = f[Chosen(T)] + Total(f, T \ {Chosen(T)})
    BY <1>2, <2>1, TotalChosen
  <2>3. f[Chosen(T)] = 0 /\ Total(f, T \ {Chosen(T)}) = 0
    BY <1>2, <2>1
  <2> QED
    BY <2>2, <2>3
<1> HIDE DEF P
<1>3. SUBSET S \subseteq P
  BY <1>1, <1>2, PartInduction
<1> QED
  BY <1>3 DEF P

\* The sum of the sums.
LEMMA TotalPlus ==
  ASSUME NEW f, NEW g, NEW h, NEW S, IsFiniteSet(S),
         \A x \in S : g[x] \in Int /\ h[x] \in Int /\ f[x] = g[x] + h[x]
  PROVE  Total(f, S) = Total(g, S) + Total(h, S)
<1> DEFINE P == {T \in SUBSET S : Total(f, T) = Total(g, T) + Total(h, T)}
<1>1. {} \in P
  BY TotalEmpty
<1>2. ASSUME NEW T \in SUBSET S, T # {}, \A x \in T : T \ {x} \in P
      PROVE  T \in P
  <2> DEFINE c == Chosen(T)
             R == T \ {c}
  <2>1. IsFiniteSet(T) /\ c \in T /\ IsFiniteSet(R) /\ R \in P
    BY <1>2, ChosenIn, FS_Subset
  <2>2. /\ Total(f, T) = f[c] + Total(f, R)
        /\ Total(g, T) = g[c] + Total(g, R)
        /\ Total(h, T) = h[c] + Total(h, R)
    BY <1>2, <2>1, TotalChosen
  <2>3. \A x \in R : g[x] \in Int /\ h[x] \in Int
    OBVIOUS
  <2>4. /\ g[c] \in Int /\ h[c] \in Int /\ f[c] = g[c] + h[c]
        /\ Total(f, R) = Total(g, R) + Total(h, R)
    BY <2>1
  <2> HIDE DEF c, R, P
  <2>5. Total(g, R) \in Int /\ Total(h, R) \in Int
    BY <2>1, <2>3, TotalInt
  <2>6. Total(f, T) = Total(g, T) + Total(h, T)
    BY <2>2, <2>4, <2>5
  <2> QED
    BY <2>6 DEF P
<1> HIDE DEF P
<1>3. SUBSET S \subseteq P
  BY <1>1, <1>2, PartInduction
<1>4. S \in P
  BY <1>3
<1> QED
  BY <1>4 DEF P

\* A set in two parts.
LEMMA TotalSplit ==
  ASSUME NEW f, NEW S, IsFiniteSet(S), \A x \in S : f[x] \in Int, NEW R, R \subseteq S
  PROVE  Total(f, S) = Total(f, R) + Total(f, S \ R)
<1> DEFINE P == {T \in SUBSET R : Total(f, S) = Total(f, T) + Total(f, S \ T)}
<1>1. IsFiniteSet(R) /\ Total(f, S) \in Int
  BY FS_Subset, TotalInt
<1>2. {} \in P
  <2>1. S \ {} = S
    OBVIOUS
  <2> QED
    BY <1>1, <2>1, TotalEmpty
<1>3. ASSUME NEW T \in SUBSET R, T # {}, \A x \in T : T \ {x} \in P
      PROVE  T \in P
  <2>1. PICK x \in T : TRUE
    BY <1>3
  <2> DEFINE rest == S \ T
             more == S \ (T \ {x})
  <2>2. /\ IsFiniteSet(T) /\ IsFiniteSet(rest) /\ IsFiniteSet(T \ {x})
        /\ x \notin rest /\ more = rest \cup {x} /\ f[x] \in Int
        /\ \A y \in T : f[y] \in Int
        /\ \A y \in rest : f[y] \in Int
    BY <1>1, FS_Subset
  <2>3. Total(f, S) = Total(f, T \ {x}) + Total(f, more)
    BY <1>3
  <2> HIDE DEF rest, more, P
  <2>4. Total(f, more) = f[x] + Total(f, rest)
    BY <2>2, TotalAdd
  <2>5. Total(f, T) = f[x] + Total(f, T \ {x})
    BY <2>2, TotalRemove
  <2>6. Total(f, rest) \in Int /\ Total(f, T \ {x}) \in Int
    BY <2>2, TotalInt
  <2>7. Total(f, S) = Total(f, T) + Total(f, rest)
    BY <2>2, <2>3, <2>4, <2>5, <2>6
  <2> QED
    BY <2>7 DEF P, rest
<1> HIDE DEF P
<1>4. SUBSET R \subseteq P
  BY <1>1, <1>2, <1>3, PartInduction
<1>5. R \in P
  BY <1>4
<1> QED
  BY <1>5 DEF P

\* A common factor.
LEMMA TotalTimes ==
  ASSUME NEW f, NEW g, NEW c \in Int, NEW S, IsFiniteSet(S),
         \A x \in S : g[x] \in Int /\ f[x] = c * g[x]
  PROVE  Total(f, S) = c * Total(g, S)
<1> DEFINE P == {T \in SUBSET S : Total(f, T) = c * Total(g, T)}
<1>1. {} \in P
  BY TotalEmpty
<1>2. ASSUME NEW T \in SUBSET S, T # {}, \A x \in T : T \ {x} \in P
      PROVE  T \in P
  <2> DEFINE d == Chosen(T)
             R == T \ {d}
  <2>1. IsFiniteSet(T) /\ d \in T /\ IsFiniteSet(R) /\ R \in P
    BY <1>2, ChosenIn, FS_Subset
  <2>2. /\ Total(f, T) = f[d] + Total(f, R)
        /\ Total(g, T) = g[d] + Total(g, R)
    BY <1>2, <2>1, TotalChosen
  <2>3. \A x \in R : g[x] \in Int
    OBVIOUS
  <2>4. g[d] \in Int /\ f[d] = c * g[d] /\ Total(f, R) = c * Total(g, R)
    BY <2>1
  <2> HIDE DEF d, R, P
  <2>5. Total(g, R) \in Int
    BY <2>1, <2>3, TotalInt
  <2>6. \A a, b \in Int : c * a + c * b = c * (a + b)
    OBVIOUS
  <2>7. Total(f, T) = c * Total(g, T)
    BY <2>2, <2>4, <2>5, <2>6
  <2> QED
    BY <2>7 DEF P
<1> HIDE DEF P
<1>3. SUBSET S \subseteq P
  BY <1>1, <1>2, PartInduction
<1>4. S \in P
  BY <1>3
<1> QED
  BY <1>4 DEF P

-----------------------------------------------------------------------------
(* Arithmetic the prover does not find by itself. *)
LEMMA ProductNat ==
  ASSUME NEW m \in Nat, NEW n \in Nat
  PROVE  m * n \in Nat
  OBVIOUS

LEMMA QuotientNat ==
  ASSUME NEW m \in Nat, NEW n \in Nat, n > 0
  PROVE  m \div n \in Nat
  OBVIOUS

LEMMA ProductPositive ==
  ASSUME NEW m \in Nat, NEW n \in Nat, m > 0, n > 0
  PROVE  m * n > 0
  OBVIOUS

LEMMA ProductAtLeast ==
  ASSUME NEW m \in Nat, NEW n \in Nat, n > 0
  PROVE  m <= m * n
  OBVIOUS

-----------------------------------------------------------------------------
(* The portfolio: a fill moves one position, by what was filled. *)
LEMMA BoughtPosition ==
  ASSUME NEW pos \in Position, NEW n \in Nat, NEW price \in Nat
  PROVE  /\ Bought(pos, n, price) \in Position
         /\ Bought(pos, n, price).quantity = pos.quantity + n
<1>1. /\ pos.quantity \in Nat /\ pos.avg_price \in Int
      /\ pos.quantity + n \in Nat
  BY DEF Position
<1>2. pos.avg_price * pos.quantity \in Int /\ price * n \in Int
  BY <1>1
<1>3. AvgPrice(pos.avg_price * pos.quantity, price * n, pos.quantity + n) \in Int
  BY <1>1, <1>2 DEF AvgPrice
<1> QED
  BY <1>1, <1>3 DEF Bought, Position

LEMMA BuyMoves ==
  ASSUME NEW f \in PortfolioState,
         NEW s \in Symbols, NEW n \in Nat, NEW price \in Nat
  PROVE  /\ ApplyBuy(f, s, n, price) \in PortfolioState
         /\ \A t \in Symbols : Quantity(ApplyBuy(f, s, n, price), t) =
              IF t = s THEN Quantity(f, t) + n ELSE Quantity(f, t)
<1>1. Bought(f.positions[s], n, price) \in Position
  BY BoughtPosition DEF PortfolioState
<1>2. ApplyBuy(f, s, n, price) =
        [positions |-> [f.positions EXCEPT ![s] = Bought(f.positions[s], n, price)],
         realized |-> f.realized]
  BY DEF ApplyBuy, PortfolioState
<1>3. Bought(f.positions[s], n, price).quantity = f.positions[s].quantity + n
  BY BoughtPosition DEF PortfolioState
<1>4. f.positions \in [Symbols -> Position] /\ f.realized \in Int
  BY DEF PortfolioState
<1>5. ApplyBuy(f, s, n, price) \in PortfolioState
  BY <1>1, <1>2, <1>4 DEF PortfolioState
<1>6. \A t \in Symbols : Quantity(ApplyBuy(f, s, n, price), t) =
        IF t = s THEN Quantity(f, t) + n ELSE Quantity(f, t)
  BY <1>2, <1>3, <1>4 DEF Quantity
<1> QED
  BY <1>5, <1>6

LEMMA SellMoves ==
  ASSUME NEW f \in PortfolioState,
         NEW s \in Symbols, NEW n \in Nat, NEW price \in Nat,
         n <= Quantity(f, s)
  PROVE  /\ ApplySell(f, s, n, price) \in PortfolioState
         /\ \A t \in Symbols : Quantity(ApplySell(f, s, n, price), t) =
              IF t = s THEN Quantity(f, t) - n ELSE Quantity(f, t)
<1> DEFINE pos == f.positions[s]
<1>1. pos \in Position /\ pos.quantity \in Nat /\ pos.avg_price \in Int /\ n <= pos.quantity
  BY DEF Quantity, Position, PortfolioState
<1>2. Sellable(pos, n) = n
  BY <1>1 DEF Sellable
<1>3. /\ Reduced(pos, n) \in Position
      /\ Reduced(pos, n).quantity = pos.quantity - n
  BY <1>1 DEF Reduced, NoPosition, Position
<1>4. Booked(pos, n, price) \in Int
  BY <1>1 DEF Booked, PortfolioState
<1>5. ApplySell(f, s, n, price) =
        [positions |-> [f.positions EXCEPT ![s] = Reduced(pos, n)],
         realized |-> f.realized + Booked(pos, n, price)]
  BY <1>2 DEF ApplySell
<1> HIDE DEF pos
<1>6. \A t \in Symbols : Quantity(ApplySell(f, s, n, price), t) =
        IF t = s THEN pos.quantity - n ELSE f.positions[t].quantity
  BY <1>3, <1>5 DEF Quantity, PortfolioState, pos
<1> QED
  BY <1>3, <1>4, <1>5, <1>6 DEF Quantity, pos, PortfolioState

\* What is left of a division.
LEMMA RemainderBound ==
  ASSUME NEW m \in Int, NEW d \in Nat, d > 0
  PROVE  /\ m \div d \in Int
         /\ m - (m \div d) * d \in 0..(d - 1)
  OBVIOUS

\* A purchase is booked at an average price that is rounded down: its worth at
\* that price is short of what was paid by less than a tick a share.
LEMMA BuyCosts ==
  ASSUME NEW f \in PortfolioState,
         NEW s \in Symbols, NEW n \in Nat, NEW price \in Nat, n > 0
  PROVE  LET g == ApplyBuy(f, s, n, price)
             held == Quantity(f, s) + n
         IN  /\ g.realized = f.realized
             /\ \A t \in Symbols : t # s => g.positions[t] = f.positions[t]
             /\ Quantity(g, s) = held
             /\ g.positions[s].avg_price \in Int
             /\ (f.positions[s].avg_price * Quantity(f, s) + n * price)
                  - g.positions[s].avg_price * held \in 0..(held - 1)
<1> DEFINE g == ApplyBuy(f, s, n, price)
           pos == f.positions[s]
           held == pos.quantity + n
           spent == pos.avg_price * pos.quantity + price * n
<1>1. pos \in Position /\ pos.quantity \in Nat /\ pos.avg_price \in Int
  BY DEF PortfolioState, Position
<1>2. g = [positions |-> [f.positions EXCEPT ![s] = Bought(pos, n, price)],
           realized |-> f.realized]
  BY DEF ApplyBuy, PortfolioState
<1>3. held \in Nat /\ held > 0 /\ spent \in Int
  BY <1>1
<1>4. AvgPrice(pos.avg_price * pos.quantity, price * n, held) = spent \div held
  BY <1>3 DEF AvgPrice
<1>5. Bought(pos, n, price) = [quantity |-> held, avg_price |-> spent \div held]
  BY <1>4 DEF Bought
<1> HIDE DEF g
<1>6. /\ g.realized = f.realized
      /\ \A t \in Symbols : t # s => g.positions[t] = f.positions[t]
      /\ g.positions[s] = Bought(pos, n, price)
  BY <1>2 DEF PortfolioState
<1>7. g.positions[s].quantity = held /\ g.positions[s].avg_price = spent \div held
  BY <1>5, <1>6
<1> HIDE DEF held, spent
<1>8. spent \div held \in Int /\ spent - (spent \div held) * held \in 0..(held - 1)
  BY <1>3, RemainderBound
<1>9. n * price = price * n
  OBVIOUS
<1>10. spent = pos.avg_price * pos.quantity + n * price
  BY <1>9 DEF spent
<1> QED
  BY <1>6, <1>7, <1>8, <1>10 DEF Quantity, g, held

\* A sale takes its shares out at the average price, and books the difference.
LEMMA SellCosts ==
  ASSUME NEW f \in PortfolioState,
         NEW s \in Symbols, NEW n \in Nat, NEW price \in Nat,
         n <= Quantity(f, s)
  PROVE  LET g == ApplySell(f, s, n, price)
             avg == f.positions[s].avg_price
         IN  /\ g.realized = f.realized + (price - avg) * n
             /\ \A t \in Symbols : t # s => g.positions[t] = f.positions[t]
             /\ g.positions[s].avg_price * Quantity(g, s) = avg * (Quantity(f, s) - n)
<1> DEFINE g == ApplySell(f, s, n, price)
           pos == f.positions[s]
<1>1. pos \in Position /\ pos.quantity \in Nat /\ pos.avg_price \in Int /\ n <= pos.quantity
  BY DEF Quantity, Position, PortfolioState
<1>2. Sellable(pos, n) = n
  BY <1>1 DEF Sellable
<1>3. g = [positions |-> [f.positions EXCEPT ![s] = Reduced(pos, n)],
           realized |-> f.realized + Booked(pos, n, price)]
  BY <1>2 DEF ApplySell
<1> HIDE DEF g
<1>4. /\ g.realized = f.realized + (price - pos.avg_price) * n
      /\ \A t \in Symbols : t # s => g.positions[t] = f.positions[t]
      /\ g.positions[s] = Reduced(pos, n)
  BY <1>3 DEF PortfolioState, Booked
<1>5. Reduced(pos, n).avg_price * Reduced(pos, n).quantity = pos.avg_price * (pos.quantity - n)
  <2>1. CASE pos.quantity = n
    <3>1. Reduced(pos, n).avg_price = 0 /\ Reduced(pos, n).quantity = 0 /\ pos.quantity - n = 0
      BY <1>1, <2>1 DEF Reduced, NoPosition
    <3>2. \A a \in Int : a * 0 = 0
      OBVIOUS
    <3> QED
      BY <1>1, <3>1, <3>2
  <2>2. CASE pos.quantity # n
    BY <1>1, <2>2 DEF Reduced, Position
  <2> QED
    BY <2>1, <2>2
<1> QED
  BY <1>4, <1>5 DEF Quantity, g

-----------------------------------------------------------------------------
(* The largest and the smallest of a finite set of numbers *)

LEMMA LargestExists ==
  ASSUME NEW S, S \subseteq Int, IsFiniteSet(S), S # {}
  PROVE  /\ Max(S) \in S /\ \A y \in S : Max(S) >= y
         /\ Min(S) \in S /\ \A y \in S : Min(S) <= y
<1> DEFINE P == {T \in SUBSET S : T # {} => /\ \E x \in T : \A y \in T : x >= y
                                            /\ \E x \in T : \A y \in T : x <= y}
<1>1. {} \in P
  <2>1. {} \in SUBSET S
    OBVIOUS
  <2> QED
    BY <2>1
<1>2. ASSUME NEW T \in SUBSET S, T # {}, \A x \in T : T \ {x} \in P
      PROVE  T \in P
  <2>1. PICK z \in T : TRUE
    BY <1>2
  <2>2. T \subseteq Int
    OBVIOUS
  <2>3. CASE T \ {z} = {}
    <3>1. \A y \in T : z >= y /\ z <= y
      BY <2>1, <2>2, <2>3
    <3>2. /\ \E x \in T : \A y \in T : x >= y
          /\ \E x \in T : \A y \in T : x <= y
      BY <2>1, <3>1
    <3> QED
      BY <3>2
  <2>4. CASE T \ {z} # {}
    <3>1. PICK a \in T \ {z} : \A y \in T \ {z} : a >= y
      BY <1>2, <2>4
    <3>2. PICK b \in T \ {z} : \A y \in T \ {z} : b <= y
      BY <1>2, <2>4
    <3>3. a \in Int /\ b \in Int /\ z \in Int
      BY <2>2
    <3>4. \E x \in T : \A y \in T : x >= y
      <4>1. CASE a >= z
        BY <3>1, <4>1
      <4>2. CASE z >= a
        BY <2>2, <3>1, <3>3, <4>2
      <4> QED
        BY <3>3, <4>1, <4>2
    <3>5. \E x \in T : \A y \in T : x <= y
      <4>1. CASE b <= z
        BY <3>2, <4>1
      <4>2. CASE z <= b
        BY <2>2, <3>2, <3>3, <4>2
      <4> QED
        BY <3>3, <4>1, <4>2
    <3> QED
      BY <3>4, <3>5
  <2> QED
    BY <2>3, <2>4
<1> HIDE DEF P
<1>3. SUBSET S \subseteq P
  BY <1>1, <1>2, PartInduction
<1>4. /\ \E x \in S : \A y \in S : x >= y
      /\ \E x \in S : \A y \in S : x <= y
  BY <1>3 DEF P
<1> QED
  BY <1>4 DEF Max, Min

LEMMA LastOfInterval ==
  ASSUME NEW n \in Nat \ {0}
  PROVE  Max(1..n) = n
<1>1. n \in 1..n /\ \A x \in 1..n : n >= x
  OBVIOUS
<1>2. \A y \in 1..n : (\A x \in 1..n : y >= x) => y = n
  BY <1>1
<1> QED
  BY <1>1, <1>2 DEF Max

-----------------------------------------------------------------------------
(* The walk is a fold over the indices of the journal, the last one taken  *)
(* off first.                                                              *)

IsWalk(j, D, it) ==
    it = [s \in D |-> IF s = {} THEN WalkStart ELSE WalkEvent(it[s \ {Max(s)}], j[Max(s)])]

IsWalkOver(j, n, it) == IsWalk(j, SUBSET (1..n), it)

LEMMA WalkExists ==
  ASSUME NEW j, NEW k \in Nat
  PROVE  \E it : IsWalkOver(j, k, it)
<1> DEFINE S == 1..k
           N == {n \in Nat : \E it : IsWalk(j, Small(S, n), it)}
<1>a. IsFiniteSet(S)
  BY FS_Interval
<1>b. S \subseteq Int
  OBVIOUS
<1>0. \A s \in SUBSET S : IsFiniteSet(s) /\ Cardinality(s) \in Nat /\ s \subseteq Int
  <2> HIDE DEF S
  <2> QED
    BY <1>a, <1>b, FS_Subset, FS_CardinalityType
<1> HIDE DEF S
<1>1. 0 \in N
  <2> DEFINE it == [s \in Small(S, 0) |-> WalkStart]
  <2>1. \A s \in Small(S, 0) : s = {}
    <3>1. \A s \in Small(S, 0) : IsFiniteSet(s) /\ Cardinality(s) = 0
      BY <1>0 DEF Small
    <3> QED
      BY <3>1, FS_EmptySet
  <2>2. IsWalk(j, Small(S, 0), it)
    BY <2>1 DEF IsWalk
  <2> QED
    BY <2>2
<1>2. ASSUME NEW n \in Nat, n \in N
      PROVE  n + 1 \in N
  <2>1. PICK h : IsWalk(j, Small(S, n), h)
    BY <1>2
  <2> DEFINE g == [s \in Small(S, n + 1) |->
                     IF s = {} THEN WalkStart ELSE WalkEvent(h[s \ {Max(s)}], j[Max(s)])]
  <2>2. \A s \in Small(S, n) : s \in Small(S, n + 1)
    BY <1>0 DEF Small
  <2>3. \A s \in Small(S, n) : g[s] = h[s]
    BY <2>1, <2>2 DEF IsWalk
  <2>4. ASSUME NEW s \in Small(S, n + 1), s # {}
        PROVE  s \ {Max(s)} \in Small(S, n)
    <3>1. IsFiniteSet(s) /\ Max(s) \in s /\ Cardinality(s) <= n + 1 /\ s \in SUBSET S
      BY <1>0, <2>4, LargestExists DEF Small
    <3>2. /\ Cardinality(s) \in Nat
          /\ Cardinality(s \ {Max(s)}) = Cardinality(s) - 1
      BY <3>1, SmallerSubset
    <3> QED
      BY <3>1, <3>2 DEF Small
  <2>5. \A s \in Small(S, n + 1) :
          g[s] = IF s = {} THEN WalkStart ELSE WalkEvent(g[s \ {Max(s)}], j[Max(s)])
    BY <2>3, <2>4
  <2>6. IsWalk(j, Small(S, n + 1), g)
    <3>1. g = [s \in Small(S, n + 1) |-> g[s]]
      OBVIOUS
    <3> HIDE DEF g
    <3> QED
      BY <2>5, <3>1 DEF IsWalk
  <2> QED
    BY <2>6
<1>3. Nat \subseteq N
  <2> HIDE DEF N
  <2> QED
    BY <1>1, <1>2, SetInduction
<1>4. Small(S, Cardinality(S)) = SUBSET S
  <2>1. \A s \in SUBSET S : Cardinality(s) <= Cardinality(S)
    BY <1>a, FS_Subset
  <2> QED
    BY <2>1 DEF Small
<1>5. Cardinality(S) \in N
  BY <1>0, <1>3
<1> QED
  BY <1>4, <1>5 DEF IsWalkOver, S

\* Two journals that begin alike are walked alike as far as that goes.
LEMMA WalkUnique ==
  ASSUME NEW j, NEW l, NEW n \in Nat, NEW m \in Nat, NEW k \in Nat, k <= n, k <= m,
         NEW it, IsWalkOver(j, n, it),
         NEW jt, IsWalkOver(l, m, jt),
         \A i \in 1..k : j[i] = l[i]
  PROVE  it[1..k] = jt[1..k]
<1> DEFINE N == {i \in Nat : i <= k => it[1..i] = jt[1..i]}
<1>1. 0 \in N
  <2>1. it[{}] = WalkStart /\ jt[{}] = WalkStart
    BY DEF IsWalkOver, IsWalk
  <2>2. 1..0 = {}
    OBVIOUS
  <2> QED
    BY <2>1, <2>2
<1>2. ASSUME NEW i \in Nat, i \in N
      PROVE  i + 1 \in N
  <2> SUFFICES ASSUME i + 1 <= k
               PROVE  it[1..(i + 1)] = jt[1..(i + 1)]
    OBVIOUS
  <2>1. Max(1..(i + 1)) = i + 1
    BY LastOfInterval
  <2>2. (1..(i + 1)) \ {i + 1} = 1..i
    OBVIOUS
  <2>3. 1..(i + 1) \in SUBSET (1..n) /\ 1..(i + 1) \in SUBSET (1..m) /\ 1..(i + 1) # {}
    BY i + 1 \in 1..(i + 1)
  <2>4. it[1..(i + 1)] = WalkEvent(it[1..i], j[i + 1])
    <3>1. it = [s \in SUBSET (1..n) |->
                  IF s = {} THEN WalkStart ELSE WalkEvent(it[s \ {Max(s)}], j[Max(s)])]
      BY DEF IsWalkOver, IsWalk
    <3> QED
      BY <2>1, <2>2, <2>3, <3>1
  <2>5. jt[1..(i + 1)] = WalkEvent(jt[1..i], l[i + 1])
    <3>1. jt = [s \in SUBSET (1..m) |->
                  IF s = {} THEN WalkStart ELSE WalkEvent(jt[s \ {Max(s)}], l[Max(s)])]
      BY DEF IsWalkOver, IsWalk
    <3> QED
      BY <2>1, <2>2, <2>3, <3>1
  <2>6. it[1..i] = jt[1..i] /\ j[i + 1] = l[i + 1]
    BY <1>2
  <2> QED
    BY <2>4, <2>5, <2>6
<1>3. Nat \subseteq N
  <2> HIDE DEF N
  <2> QED
    BY <1>1, <1>2, SetInduction
<1> QED
  BY <1>3

LEMMA WalkIsFold ==
  ASSUME NEW j, NEW n \in Nat, DOMAIN j = 1..n
  PROVE  \E it : IsWalkOver(j, n, it) /\ Walk(j) = it[1..n]
<1> DEFINE it == CHOOSE i : IsWalkOver(j, n, i)
<1>1. IsWalkOver(j, n, it)
  BY WalkExists
<1>2. Walk(j) = it[1..n]
  BY DEF Walk, FoldLeft, MapThenFoldSet, IsWalkOver, IsWalk
<1> QED
  BY <1>1, <1>2

LEMMA WalkEmpty == Walk(<<>>) = WalkStart
<1>1. DOMAIN <<>> = 1..0
  OBVIOUS
<1>2. PICK it : IsWalkOver(<<>>, 0, it) /\ Walk(<<>>) = it[1..0]
  BY <1>1, WalkIsFold
<1>3. 1..0 = {}
  OBVIOUS
<1> QED
  BY <1>2, <1>3 DEF IsWalkOver, IsWalk

\* A journal that grows by an event is walked from where the walk was.
LEMMA WalkAppend ==
  ASSUME NEW E, NEW j \in Seq(E), NEW e \in E
  PROVE  Walk(Append(j, e)) = WalkEvent(Walk(j), e)
<1> DEFINE l == Append(j, e)
           n == Len(j)
<1>1. /\ n \in Nat /\ DOMAIN j = 1..n /\ DOMAIN l = 1..(n + 1)
      /\ l[n + 1] = e /\ \A i \in 1..n : j[i] = l[i]
  BY LenProperties, AppendProperties
<1> HIDE DEF l, n
<1>2. PICK it : IsWalkOver(j, n, it) /\ Walk(j) = it[1..n]
  BY <1>1, WalkIsFold
<1>3. PICK jt : IsWalkOver(l, n + 1, jt) /\ Walk(l) = jt[1..(n + 1)]
  BY <1>1, WalkIsFold
<1>4. it[1..n] = jt[1..n]
  BY <1>1, <1>2, <1>3, WalkUnique
<1>5. /\ Max(1..(n + 1)) = n + 1 /\ (1..(n + 1)) \ {n + 1} = 1..n
      /\ 1..(n + 1) \in SUBSET (1..(n + 1)) /\ 1..(n + 1) # {}
  BY <1>1, LastOfInterval
<1>6. jt[1..(n + 1)] = WalkEvent(jt[1..n], l[n + 1])
  BY <1>3, <1>5 DEF IsWalkOver, IsWalk
<1> QED
  BY <1>1, <1>2, <1>3, <1>4, <1>6 DEF l

-----------------------------------------------------------------------------
(* Sums over the first places of a sequence *)

LEMMA TotalLast ==
  ASSUME NEW f, NEW n \in Nat, \A i \in 1..(n + 1) : f[i] \in Int
  PROVE  Total(f, 1..(n + 1)) = Total(f, 1..n) + f[n + 1]
<1>1. /\ IsFiniteSet(1..(n + 1)) /\ n + 1 \in 1..(n + 1)
      /\ (1..(n + 1)) \ {n + 1} = 1..n
  BY FS_Interval
<1>2. Total(f, 1..(n + 1)) = f[n + 1] + Total(f, 1..n)
  BY <1>1, TotalRemove
<1>3. IsFiniteSet(1..n) /\ \A i \in 1..n : f[i] \in Int
  BY FS_Interval
<1>4. Total(f, 1..n) \in Int /\ f[n + 1] \in Int
  BY <1>1, <1>3, TotalInt
<1> QED
  BY <1>2, <1>4

\* Zeros at the front may be dropped.
LEMMA TotalDrops ==
  ASSUME NEW f, NEW g, NEW k \in Nat, NEW m \in Nat,
         \A i \in 1..(k + m) : f[i] \in Int,
         \A i \in 1..k : f[i] = 0,
         \A i \in 1..m : g[i] = f[k + i]
  PROVE  Total(g, 1..m) = Total(f, 1..(k + m))
<1> DEFINE N == {i \in Nat : i <= m => Total(g, 1..i) = Total(f, 1..(k + i))}
<1>1. 0 \in N
  <2>1. 1..0 = {} /\ k + 0 = k /\ IsFiniteSet(1..k)
    BY FS_Interval
  <2>2. Total(f, 1..k) = 0
    BY <2>1, TotalZero
  <2>3. Total(g, {}) = 0
    BY TotalEmpty
  <2> QED
    BY <2>1, <2>2, <2>3
<1>2. ASSUME NEW i \in Nat, i \in N
      PROVE  i + 1 \in N
  <2> SUFFICES ASSUME i + 1 <= m
               PROVE  Total(g, 1..(i + 1)) = Total(f, 1..(k + (i + 1)))
    OBVIOUS
  <2>0. Total(g, 1..i) = Total(f, 1..(k + i))
    BY <1>2
  <2>1. \A x \in 1..(i + 1) : g[x] \in Int
    OBVIOUS
  <2>2. Total(g, 1..(i + 1)) = Total(g, 1..i) + g[i + 1]
    BY <2>1, TotalLast
  <2> DEFINE n == k + i
  <2>3. n \in Nat /\ n + 1 = k + (i + 1) /\ \A x \in 1..(n + 1) : f[x] \in Int
    OBVIOUS
  <2>4. Total(f, 1..(n + 1)) = Total(f, 1..n) + f[n + 1]
    <3> HIDE DEF n
    <3> QED
      BY <2>3, TotalLast
  <2>5. g[i + 1] = f[n + 1]
    BY <2>3
  <2> QED
    BY <2>0, <2>2, <2>3, <2>4, <2>5
<1>3. Nat \subseteq N
  <2> HIDE DEF N
  <2> QED
    BY <1>1, <1>2, SetInduction
<1> QED
  BY <1>3

-----------------------------------------------------------------------------
(* First in, first out *)

Lot == [quantity : Nat, price : Nat]

LotQuantities(lots) == [i \in DOMAIN lots |-> lots[i].quantity]

LotCosts(lots) == [i \in DOMAIN lots |-> lots[i].quantity * lots[i].price]

SharesIn(lots) == Total(LotQuantities(lots), DOMAIN lots)

CostOf(lots) == Total(LotCosts(lots), DOMAIN lots)

LEMMA LotsWellTyped ==
  ASSUME NEW lots \in Seq(Lot)
  PROVE  /\ Len(lots) \in Nat /\ DOMAIN lots = 1..Len(lots) /\ IsFiniteSet(DOMAIN lots)
         /\ \A i \in DOMAIN lots : /\ lots[i] \in Lot
                                   /\ lots[i].quantity \in Nat /\ lots[i].price \in Nat
                                   /\ lots[i].quantity * lots[i].price \in Nat
         /\ SharesIn(lots) \in Nat /\ CostOf(lots) \in Nat
<1>1. Len(lots) \in Nat /\ DOMAIN lots = 1..Len(lots)
  BY LenProperties
<1>2. IsFiniteSet(DOMAIN lots)
  BY <1>1, FS_Interval
<1>3. \A i \in DOMAIN lots : lots[i] \in Lot
  BY <1>1, ElementOfSeq
<1>4. \A i \in DOMAIN lots : lots[i].quantity \in Nat /\ lots[i].price \in Nat
  BY <1>3 DEF Lot
<1>5. \A i \in DOMAIN lots : lots[i].quantity * lots[i].price \in Nat
  BY <1>4, ProductNat
<1>6. \A i \in DOMAIN lots : LotQuantities(lots)[i] \in Nat /\ LotCosts(lots)[i] \in Nat
  BY <1>4, <1>5 DEF LotQuantities, LotCosts
<1>7. SharesIn(lots) \in Nat /\ CostOf(lots) \in Nat
  BY <1>2, <1>6, TotalNat DEF SharesIn, CostOf
<1> QED
  BY <1>1, <1>2, <1>3, <1>4, <1>5, <1>7

LEMMA OfTwo ==
  ASSUME NEW a \in Int, NEW b \in Int
  PROVE  /\ Min({a, b}) = IF a <= b THEN a ELSE b
         /\ Max({a, b}) = IF a >= b THEN a ELSE b
  BY DEF Min, Max

\* The lots up to the n-th give what they have, or all that is asked for.
LEMMA MatchedSoFar ==
  ASSUME NEW lots \in Seq(Lot), NEW q \in Nat
  PROVE  /\ \A i \in DOMAIN lots : Matched(lots, q)[i] \in 0..lots[i].quantity
         /\ \A n \in 0..Len(lots) :
              Total(Matched(lots, q), 1..n) =
                IF q <= Total(LotQuantities(lots), 1..n)
                THEN q ELSE Total(LotQuantities(lots), 1..n)
<1> DEFINE M == Matched(lots, q)
           Q == LotQuantities(lots)
           N == {n \in Nat : n <= Len(lots) =>
                   Total(M, 1..n) = IF q <= Total(Q, 1..n) THEN q ELSE Total(Q, 1..n)}
<1>1. /\ Len(lots) \in Nat /\ DOMAIN lots = 1..Len(lots)
      /\ \A i \in DOMAIN lots : lots[i].quantity \in Nat
  BY LotsWellTyped
<1>2. \A i \in 1..Len(lots) : Q[i] = lots[i].quantity /\ Q[i] \in Nat
  BY <1>1 DEF LotQuantities
<1>3. ASSUME NEW n \in 0..Len(lots)
      PROVE  Total(Q, 1..n) \in Nat
  <2>1. IsFiniteSet(1..n) /\ \A i \in 1..n : Q[i] \in Nat
    BY <1>1, <1>2, FS_Interval
  <2> HIDE DEF Q
  <2> QED
    BY <2>1, TotalNat
<1>4. ASSUME NEW n \in 0..(Len(lots) - 1)
      PROVE  LET rest == IF q >= Total(Q, 1..n) THEN q - Total(Q, 1..n) ELSE 0
             IN  M[n + 1] = IF Q[n + 1] <= rest THEN Q[n + 1] ELSE rest
  <2>1. n + 1 \in DOMAIN lots /\ (n + 1) - 1 = n
    BY <1>1
  <2>2. Ahead(lots, n + 1) = Total(Q, 1..n)
    BY <2>1 DEF Ahead, LotQuantities
  <2>3. M[n + 1] = Min({lots[n + 1].quantity, Max({0, q - Total(Q, 1..n)})})
    BY <2>1, <2>2 DEF Matched
  <2>4. Total(Q, 1..n) \in Nat /\ Q[n + 1] = lots[n + 1].quantity /\ Q[n + 1] \in Nat
    BY <1>1, <1>2, <1>3, <2>1
  <2> HIDE DEF M, Q
  <2> DEFINE t == Total(Q, 1..n)
             rest == IF q >= t THEN q - t ELSE 0
  <2>5. t \in Nat /\ 0 \in Int /\ q - t \in Int /\ rest \in Int
    BY <2>4
  <2> HIDE DEF t
  <2>6. Max({0, q - t}) = rest
    <3>1. Max({0, q - t}) = IF 0 >= q - t THEN 0 ELSE q - t
      BY <2>5, OfTwo
    <3> QED
      BY <2>5, <3>1
  <2>7. M[n + 1] = Min({Q[n + 1], rest})
    BY <2>3, <2>4, <2>6 DEF t
  <2>8. Q[n + 1] \in Int
    BY <2>4
  <2> HIDE DEF rest
  <2>9. Min({Q[n + 1], rest}) = IF Q[n + 1] <= rest THEN Q[n + 1] ELSE rest
    BY <2>5, <2>8, OfTwo
  <2> QED
    BY <2>7, <2>9 DEF rest, t
<1>5. \A i \in DOMAIN lots : M[i] \in 0..lots[i].quantity
  <2> SUFFICES ASSUME NEW i \in 1..Len(lots)
               PROVE  M[i] \in 0..lots[i].quantity
    BY <1>1
  <2>1. i - 1 \in 0..(Len(lots) - 1) /\ (i - 1) + 1 = i /\ i - 1 \in 0..Len(lots)
    BY <1>1
  <2>2. Q[i] = lots[i].quantity /\ Q[i] \in Nat /\ Total(Q, 1..(i - 1)) \in Nat
    BY <1>2, <1>3, <2>1
  <2> HIDE DEF M, Q
  <2> QED
    BY <1>4, <2>1, <2>2
<1>6. 0 \in N
  <2>1. 1..0 = {} /\ Total(M, {}) = 0 /\ Total(Q, {}) = 0
    BY TotalEmpty
  <2> HIDE DEF M, Q
  <2> QED
    BY <2>1
<1>7. ASSUME NEW n \in Nat, n \in N
      PROVE  n + 1 \in N
  <2> SUFFICES ASSUME n + 1 <= Len(lots)
               PROVE  Total(M, 1..(n + 1)) =
                        IF q <= Total(Q, 1..(n + 1)) THEN q ELSE Total(Q, 1..(n + 1))
    OBVIOUS
  <2>0. n \in 0..(Len(lots) - 1) /\ n \in 0..Len(lots) /\ n + 1 \in 1..Len(lots)
    BY <1>1
  <2>1. Total(M, 1..n) = IF q <= Total(Q, 1..n) THEN q ELSE Total(Q, 1..n)
    BY <1>1, <1>7
  <2>2. \A i \in 1..(n + 1) : i \in DOMAIN lots /\ M[i] \in Int /\ Q[i] \in Int
    BY <1>1, <1>2, <1>5
  <2> HIDE DEF M, Q, N
  <2>3. Total(M, 1..(n + 1)) = Total(M, 1..n) + M[n + 1]
    BY <2>2, TotalLast
  <2>4. Total(Q, 1..(n + 1)) = Total(Q, 1..n) + Q[n + 1]
    BY <2>2, TotalLast
  <2>5. Total(Q, 1..n) \in Nat /\ Q[n + 1] \in Nat
    BY <1>2, <1>3, <2>0
  <2>6. LET rest == IF q >= Total(Q, 1..n) THEN q - Total(Q, 1..n) ELSE 0
        IN  M[n + 1] = IF Q[n + 1] <= rest THEN Q[n + 1] ELSE rest
    BY <1>4, <2>0
  <2>7. \A a, b, c, d \in Int :
          /\ a = IF q <= b THEN q ELSE b
          /\ c = IF d <= (IF q >= b THEN q - b ELSE 0) THEN d ELSE IF q >= b THEN q - b ELSE 0
          /\ d >= 0
          => a + c = IF q <= b + d THEN q ELSE b + d
    OBVIOUS
  <2>8. Total(M, 1..n) \in Int /\ M[n + 1] \in Int
    BY <2>1, <2>2, <2>5
  <2> QED
    BY <2>1, <2>3, <2>4, <2>5, <2>6, <2>7, <2>8
<1>8. Nat \subseteq N
  <2> HIDE DEF N
  <2> QED
    BY <1>6, <1>7, SetInduction
<1> QED
  BY <1>1, <1>5, <1>8

-----------------------------------------------------------------------------
(* What a fill does to the open lots of its symbol. *)

\* A purchase opens a lot at the back.
LEMMA Buys ==
  ASSUME NEW lots \in Seq(Lot), NEW q \in Nat, NEW price \in Nat
  PROVE  LET after == Append(lots, [quantity |-> q, price |-> price]) IN
           /\ after \in Seq(Lot)
           /\ SharesIn(after) = SharesIn(lots) + q
           /\ CostOf(after) = CostOf(lots) + q * price
<1> DEFINE lot == [quantity |-> q, price |-> price]
           after == Append(lots, lot)
           n == Len(lots)
<1>1. lot \in Lot /\ lot.quantity = q /\ lot.price = price
  BY DEF Lot
<1>2. /\ after \in Seq(Lot) /\ Len(after) = n + 1
      /\ after[n + 1] = lot /\ \A i \in 1..n : after[i] = lots[i]
  <2> HIDE DEF lot
  <2> QED
    BY <1>1, AppendProperties
<1>3. n \in Nat /\ DOMAIN lots = 1..n /\ DOMAIN after = 1..(n + 1)
  BY <1>2, LotsWellTyped
<1> HIDE DEF n, after
<1>4. ASSUME NEW f, NEW g, \A i \in 1..(n + 1) : f[i] \in Int,
             \A i \in 1..n : f[i] = g[i]
      PROVE  Total(f, 1..(n + 1)) = Total(g, 1..n) + f[n + 1]
  <2>1. Total(f, 1..(n + 1)) = Total(f, 1..n) + f[n + 1]
    BY <1>3, <1>4, TotalLast
  <2>2. IsFiniteSet(1..n)
    BY <1>3, FS_Interval
  <2>3. Total(f, 1..n) = Total(g, 1..n)
    BY <1>4, <2>2, TotalSame
  <2> QED
    BY <2>1, <2>3
<1>5. /\ \A i \in 1..(n + 1) : after[i].quantity \in Nat /\ after[i].quantity * after[i].price \in Nat
      /\ n + 1 \in 1..(n + 1) /\ \A i \in 1..n : i \in 1..(n + 1)
  BY <1>2, <1>3, LotsWellTyped
<1>6. SharesIn(after) = SharesIn(lots) + q
  <2> DEFINE f == LotQuantities(after)
             g == LotQuantities(lots)
  <2>1. /\ \A i \in 1..(n + 1) : f[i] \in Int
        /\ \A i \in 1..n : f[i] = g[i]
        /\ f[n + 1] = q
    BY <1>1, <1>2, <1>3, <1>5 DEF LotQuantities
  <2> HIDE DEF f, g
  <2>2. Total(f, 1..(n + 1)) = Total(g, 1..n) + f[n + 1]
    BY <1>4, <2>1
  <2> QED
    BY <1>3, <2>1, <2>2 DEF SharesIn, f, g
<1>7. CostOf(after) = CostOf(lots) + q * price
  <2> DEFINE f == LotCosts(after)
             g == LotCosts(lots)
  <2>1. /\ \A i \in 1..(n + 1) : f[i] \in Int
        /\ \A i \in 1..n : f[i] = g[i]
        /\ f[n + 1] = q * price
    BY <1>1, <1>2, <1>3, <1>5 DEF LotCosts
  <2> HIDE DEF f, g
  <2>2. Total(f, 1..(n + 1)) = Total(g, 1..n) + f[n + 1]
    BY <1>4, <2>1
  <2> QED
    BY <1>3, <2>1, <2>2 DEF CostOf, f, g
<1> QED
  BY <1>2, <1>6, <1>7 DEF after

\* The lots less what they gave are lots.
LEMMA LessenedLots ==
  ASSUME NEW lots \in Seq(Lot), NEW q \in Nat
  PROVE  /\ Lessened(lots, q) \in Seq(Lot)
         /\ Len(Lessened(lots, q)) = Len(lots)
<1> DEFINE L == Lessened(lots, q)
<1>1. /\ Len(lots) \in Nat /\ DOMAIN lots = 1..Len(lots)
      /\ \A i \in DOMAIN lots : lots[i].quantity \in Nat /\ lots[i].price \in Nat
  BY LotsWellTyped
<1>2. \A i \in DOMAIN lots : Matched(lots, q)[i] \in 0..lots[i].quantity
  BY MatchedSoFar
<1>3. \A i \in DOMAIN lots : lots[i].quantity - Matched(lots, q)[i] \in Nat
  BY <1>1, <1>2
<1>4. L \in [1..Len(lots) -> Lot]
  BY <1>1, <1>3 DEF Lessened, Lot
<1>5. L \in Seq(Lot)
  BY <1>1, <1>4, SeqDef
<1>6. Len(L) = Len(lots)
  BY <1>1, <1>4, <1>5
<1> QED
  BY <1>5, <1>6

\* Popping the lots that have given everything loses no share and no money.
LEMMA Popped ==
  ASSUME NEW lots \in Seq(Lot), NEW q \in Nat
  PROVE  /\ Remaining(lots, q) \in Seq(Lot)
         /\ SharesIn(Remaining(lots, q)) = SharesIn(Lessened(lots, q))
         /\ CostOf(Remaining(lots, q)) = CostOf(Lessened(lots, q))
<1> DEFINE L == Lessened(lots, q)
           R == Remaining(lots, q)
           n == Len(lots)
           kept == {i \in DOMAIN lots : Matched(lots, q)[i] < lots[i].quantity}
<1>1. L \in Seq(Lot) /\ Len(L) = n
  BY LessenedLots
<1>2. n \in Nat /\ DOMAIN lots = 1..n /\ DOMAIN L = 1..n
  BY <1>1, LotsWellTyped
<1>3. \A i \in 1..n : /\ L[i].quantity \in Nat /\ L[i].quantity * L[i].price \in Nat
                      /\ L[i].price \in Nat
  BY <1>1, <1>2, LotsWellTyped
<1>4. \A i \in 1..n : i \notin kept => L[i].quantity = 0 /\ L[i].quantity * L[i].price = 0
  <2>1. \A i \in DOMAIN lots : Matched(lots, q)[i] \in 0..lots[i].quantity
    BY MatchedSoFar
  <2>2. \A i \in DOMAIN lots : lots[i].quantity \in Nat
    BY LotsWellTyped
  <2>3. \A i \in 1..n : i \notin kept => L[i].quantity = 0
    BY <1>2, <2>1, <2>2 DEF Lessened
  <2> HIDE DEF L
  <2>4. \A p \in Nat : 0 * p = 0
    OBVIOUS
  <2> QED
    BY <1>3, <2>3, <2>4
<1>5. R = IF kept = {} THEN <<>> ELSE SubSeq(L, Min(kept), n)
  BY DEF Remaining
<1> HIDE DEF L
<1>6. CASE kept = {}
  <2>1. R = <<>> /\ R \in Seq(Lot) /\ DOMAIN R = {}
    BY <1>5, <1>6
  <2>2. SharesIn(R) = 0 /\ CostOf(R) = 0
    BY <2>1, TotalEmpty DEF SharesIn, CostOf
  <2>3. IsFiniteSet(1..n)
    BY <1>2, FS_Interval
  <2>4. \A i \in 1..n : LotQuantities(L)[i] = 0 /\ LotCosts(L)[i] = 0
    BY <1>2, <1>4, <1>6 DEF LotQuantities, LotCosts
  <2>5. SharesIn(L) = 0 /\ CostOf(L) = 0
    BY <1>2, <2>3, <2>4, TotalZero DEF SharesIn, CostOf
  <2> QED
    BY <2>1, <2>2, <2>5 DEF L
<1>7. CASE kept # {}
  <2> DEFINE first == Min(kept)
             k == first - 1
             m == n - k
  <2>1. kept \subseteq 1..n /\ kept \subseteq Int /\ IsFiniteSet(kept)
    <3>1. kept \subseteq 1..n /\ kept \subseteq Int
      BY <1>2
    <3>2. IsFiniteSet(1..n)
      BY <1>2, FS_Interval
    <3> QED
      BY <3>1, <3>2, FS_Subset
  <2> HIDE DEF kept
  <2>2. first \in kept /\ \A y \in kept : first <= y
    BY <1>7, <2>1, LargestExists
  <2> HIDE DEF first, n
  <2>3. first \in 1..n /\ k \in Nat /\ m \in Nat /\ k + m = n /\ first = k + 1
    BY <1>2, <2>1, <2>2
  <2>4. \A i \in 1..k : i \in 1..n /\ i \notin kept
    <3>1. \A i \in 1..k : i \in 1..n /\ i < first
      BY <1>2, <2>3
    <3>2. \A i \in 1..n : i < first => ~(first <= i)
      BY <2>3
    <3> QED
      BY <2>2, <3>1, <3>2
  <2> HIDE DEF k, m
  <2>5. R = SubSeq(L, k + 1, n)
    BY <1>5, <1>7, <2>3 DEF first
  <2> HIDE DEF R
  <2>6. /\ R \in Seq(Lot) /\ Len(R) = m
        /\ \A i \in 1..m : R[i] = L[k + i]
    <3>1. /\ k + 1 \in Int /\ n \in Int /\ n - (k + 1) + 1 = m
          /\ (k + 1 <= n) = (m > 0)
          /\ \A i \in 1..m : k + 1 + i - 1 = k + i
          /\ \A i \in (k + 1)..n : i \in 1..n
      BY <1>2, <2>3
    <3>2. \A i \in (k + 1)..n : L[i] \in Lot
      BY <1>1, <3>1, ElementOfSeq
    <3>3. /\ R \in Seq(Lot)
          /\ Len(R) = IF k + 1 <= n THEN n - (k + 1) + 1 ELSE 0
          /\ \A i \in 1..(n - (k + 1) + 1) : R[i] = L[k + 1 + i - 1]
      BY <2>5, <3>1, <3>2, SubSeqProperties
    <3> QED
      BY <2>3, <3>1, <3>3
  <2>7. DOMAIN R = 1..m /\ \A i \in 1..m : k + i \in 1..n
    BY <2>3, <2>6, LotsWellTyped
  <2>8. SharesIn(R) = SharesIn(L)
    <3> DEFINE f == LotQuantities(L)
               g == LotQuantities(R)
    <3>1. /\ \A i \in 1..(k + m) : f[i] \in Int
          /\ \A i \in 1..k : f[i] = 0
          /\ \A i \in 1..m : g[i] = f[k + i]
      <4>1. /\ \A i \in 1..n : f[i] = L[i].quantity
            /\ \A i \in 1..m : g[i] = R[i].quantity
        BY <1>2, <2>7 DEF LotQuantities
      <4>2. \A i \in 1..n : f[i] \in Int
        BY <1>3, <4>1
      <4>3. \A i \in 1..k : f[i] = 0
        BY <1>4, <2>4, <4>1
      <4>4. \A i \in 1..m : g[i] = f[k + i]
        BY <2>6, <2>7, <4>1
      <4> QED
        BY <2>3, <4>2, <4>3, <4>4
    <3> HIDE DEF f, g
    <3>2. Total(g, 1..m) = Total(f, 1..(k + m))
      BY <2>3, <3>1, TotalDrops
    <3> QED
      BY <1>2, <2>3, <2>7, <3>2 DEF SharesIn, f, g
  <2>9. CostOf(R) = CostOf(L)
    <3> DEFINE f == LotCosts(L)
               g == LotCosts(R)
    <3>1. /\ \A i \in 1..(k + m) : f[i] \in Int
          /\ \A i \in 1..k : f[i] = 0
          /\ \A i \in 1..m : g[i] = f[k + i]
      <4>1. /\ \A i \in 1..n : f[i] = L[i].quantity * L[i].price
            /\ \A i \in 1..m : g[i] = R[i].quantity * R[i].price
        BY <1>2, <2>7 DEF LotCosts
      <4>2. \A i \in 1..n : f[i] \in Int
        BY <1>3, <4>1
      <4>3. \A i \in 1..k : f[i] = 0
        BY <1>4, <2>4, <4>1
      <4>4. \A i \in 1..m : g[i] = f[k + i]
        BY <2>6, <2>7, <4>1
      <4> QED
        BY <2>3, <4>2, <4>3, <4>4
    <3> HIDE DEF f, g
    <3>2. Total(g, 1..m) = Total(f, 1..(k + m))
      BY <2>3, <3>1, TotalDrops
    <3> QED
      BY <1>2, <2>3, <2>7, <3>2 DEF CostOf, f, g
  <2> QED
    BY <2>6, <2>8, <2>9 DEF L, R
<1> QED
  BY <1>6, <1>7

\* A sale closes what it asks for, out of the lots, and its profit is what it is
\* paid less what the shares it closed had cost.
LEMMA Sells ==
  ASSUME NEW lots \in Seq(Lot), NEW q \in Nat, NEW price \in Nat, q <= SharesIn(lots)
  PROVE  /\ Closed(lots, q) = q
         /\ Profit(lots, q, price) \in Int
         /\ Remaining(lots, q) \in Seq(Lot)
         /\ SharesIn(Remaining(lots, q)) = SharesIn(lots) - q
         /\ Profit(lots, q, price) =
              q * price - CostOf(lots) + CostOf(Remaining(lots, q))
<1> DEFINE L == Lessened(lots, q)
           M == Matched(lots, q)
           D == DOMAIN lots
           gain == [i \in D |-> (price - lots[i].price) * M[i]]
           paid == [i \in D |-> price * M[i]]
           both == [i \in D |-> gain[i] + LotCosts(lots)[i]]
<1>1. /\ Len(lots) \in Nat /\ D = 1..Len(lots) /\ IsFiniteSet(D)
      /\ \A i \in D : /\ lots[i].quantity \in Nat /\ lots[i].price \in Nat
                      /\ lots[i].quantity * lots[i].price \in Nat
      /\ SharesIn(lots) \in Nat /\ CostOf(lots) \in Nat
  BY LotsWellTyped
<1>2. \A i \in D : M[i] \in 0..lots[i].quantity /\ M[i] \in Nat
  BY <1>1, MatchedSoFar
<1>3. Total(M, D) = q
  <2>1. Len(lots) \in 0..Len(lots)
    BY <1>1
  <2>2. Total(M, 1..Len(lots)) =
          IF q <= Total(LotQuantities(lots), 1..Len(lots))
          THEN q ELSE Total(LotQuantities(lots), 1..Len(lots))
    BY <2>1, MatchedSoFar
  <2> QED
    BY <1>1, <2>2 DEF SharesIn
<1>4. L \in Seq(Lot) /\ DOMAIN L = D
  BY <1>1, LessenedLots, LotsWellTyped
<1>5. /\ \A i \in D : /\ LotQuantities(L)[i] = lots[i].quantity - M[i]
                      /\ LotCosts(L)[i] = (lots[i].quantity - M[i]) * lots[i].price
                      /\ LotQuantities(lots)[i] = lots[i].quantity
                      /\ LotCosts(lots)[i] = lots[i].quantity * lots[i].price
  BY <1>4 DEF LotQuantities, LotCosts, Lessened
<1>6. SharesIn(L) \in Nat /\ CostOf(L) \in Nat
  BY <1>4, LotsWellTyped
<1>7. /\ SharesIn(L) = Total(LotQuantities(L), D) /\ CostOf(L) = Total(LotCosts(L), D)
      /\ SharesIn(lots) = Total(LotQuantities(lots), D)
      /\ CostOf(lots) = Total(LotCosts(lots), D)
  BY <1>4 DEF SharesIn, CostOf
<1> DEFINE Q == LotQuantities(lots)
           C == LotCosts(lots)
           QL == LotQuantities(L)
           CL == LotCosts(L)
<1>8. SharesIn(lots) = SharesIn(L) + q
  <2>1. \A i \in D : QL[i] \in Int /\ M[i] \in Int /\ Q[i] = QL[i] + M[i]
    BY <1>1, <1>2, <1>5
  <2> HIDE DEF Q, QL, M, D
  <2>2. Total(Q, D) = Total(QL, D) + Total(M, D)
    BY <1>1, <2>1, TotalPlus
  <2> QED
    BY <1>3, <1>7, <2>2 DEF Q, QL
<1>9. \A p, c, m, n \in Int :
        /\ (p - c) * m \in Int /\ p * m \in Int /\ (n - m) * c \in Int /\ n * c \in Int
        /\ (p - c) * m + n * c = p * m + (n - m) * c
  OBVIOUS
<1>10. \A i \in D : /\ gain[i] \in Int /\ paid[i] \in Int /\ C[i] \in Int /\ CL[i] \in Int
                    /\ both[i] = gain[i] + C[i] /\ both[i] = paid[i] + CL[i]
                    /\ paid[i] = price * M[i]
  <2> TAKE i \in D
  <2>1. /\ gain[i] = (price - lots[i].price) * M[i] /\ paid[i] = price * M[i]
        /\ both[i] = gain[i] + C[i]
    OBVIOUS
  <2>2. /\ price \in Int /\ lots[i].price \in Int /\ M[i] \in Int
        /\ lots[i].quantity \in Int
    BY <1>1, <1>2
  <2>3. C[i] = lots[i].quantity * lots[i].price
        /\ CL[i] = (lots[i].quantity - M[i]) * lots[i].price
    BY <1>5
  <2> HIDE DEF gain, paid, both, C, CL, M, D
  <2> DEFINE c == lots[i].price
             m == M[i]
             n == lots[i].quantity
  <2>4. price \in Int /\ c \in Int /\ m \in Int /\ n \in Int
    BY <2>2
  <2>5. /\ gain[i] = (price - c) * m /\ paid[i] = price * m
        /\ C[i] = n * c /\ CL[i] = (n - m) * c
    BY <2>1, <2>3
  <2> HIDE DEF c, m, n
  <2>6. /\ (price - c) * m \in Int /\ price * m \in Int /\ (n - m) * c \in Int /\ n * c \in Int
        /\ (price - c) * m + n * c = price * m + (n - m) * c
    BY <1>9, <2>4
  <2> QED
    BY <2>1, <2>5, <2>6 DEF m
<1>11. Profit(lots, q, price) = Total(gain, D) /\ Closed(lots, q) = Total(M, D)
  BY DEF Profit, Closed
<1> HIDE DEF gain, paid, both, C, CL, M, D
<1>12. Total(both, D) = Total(gain, D) + Total(C, D)
  <2>1. \A i \in D : gain[i] \in Int /\ C[i] \in Int /\ both[i] = gain[i] + C[i]
    BY <1>10
  <2> QED
    BY <1>1, <2>1, TotalPlus
<1>13. Total(both, D) = Total(paid, D) + Total(CL, D)
  <2>1. \A i \in D : paid[i] \in Int /\ CL[i] \in Int /\ both[i] = paid[i] + CL[i]
    BY <1>10
  <2> QED
    BY <1>1, <2>1, TotalPlus
<1>14. Total(paid, D) = price * Total(M, D)
  BY <1>1, <1>2, <1>10, TotalTimes
<1>15. Total(gain, D) \in Int
  BY <1>1, <1>10, TotalInt
<1>16. Total(C, D) = CostOf(lots) /\ Total(CL, D) = CostOf(L)
  BY <1>7 DEF C, CL
<1>17. price * q = q * price /\ price * q \in Int
  OBVIOUS
<1>18. Total(gain, D) = q * price - CostOf(lots) + CostOf(L)
  <2>1. \A b, g, c, p, l \in Int : b = g + c /\ b = p + l => g = p - c + l
    OBVIOUS
  <2>2. Total(paid, D) = q * price /\ q * price \in Int
    BY <1>3, <1>14, <1>17
  <2>3. /\ Total(both, D) = Total(gain, D) + CostOf(lots)
        /\ Total(both, D) = q * price + CostOf(L)
    BY <1>12, <1>13, <1>16, <2>2
  <2>4. CostOf(lots) \in Int /\ CostOf(L) \in Int /\ Total(both, D) \in Int
    BY <1>1, <1>6, <1>15, <2>3
  <2> QED
    BY <1>15, <2>1, <2>2, <2>3, <2>4
<1> HIDE DEF L
<1>19. /\ Remaining(lots, q) \in Seq(Lot)
       /\ SharesIn(Remaining(lots, q)) = SharesIn(L)
       /\ CostOf(Remaining(lots, q)) = CostOf(L)
  BY Popped DEF L
<1>20. SharesIn(L) = SharesIn(lots) - q
  BY <1>1, <1>6, <1>8
<1> QED
  BY <1>3, <1>11, <1>15, <1>18, <1>19, <1>20

-----------------------------------------------------------------------------
(* What an event does to the walk *)

MarkLine == [event : {"mark"}, symbol : Symbols, equity : Int, close : Nat, quantity : Nat]

Trade == [symbol : Symbols, quantity : Nat, entry : Nat, exit : Nat, profit : Int]

WalkState == [marks : Seq(MarkLine), lots : [Symbols -> Seq(Lot)], trades : Seq(Trade),
              net : Int, high : Int, max_drawdown : Int]

Profits(trades) == [i \in DOMAIN trades |-> trades[i].profit]

\* The net profit is the profit of the round trips.
NetIsProfits(w) == Total(Profits(w.trades), DOMAIN w.trades) = w.net

LEMMA WalkStarts ==
  /\ WalkStart \in WalkState
  /\ NetIsProfits(WalkStart)
  /\ \A s \in Symbols : LotShares(WalkStart, s) = 0
  /\ LotCost(WalkStart) = 0
<1>1. \A S : <<>> \in Seq(S)
  BY EmptySeq
<1>2. WalkStart \in WalkState
  BY <1>1 DEF WalkStart, WalkState
<1>3. NetIsProfits(WalkStart)
  <2>1. WalkStart.trades = <<>> /\ DOMAIN WalkStart.trades = {} /\ WalkStart.net = 0
    BY DEF WalkStart
  <2>2. Total(Profits(WalkStart.trades), DOMAIN WalkStart.trades) = 0
    BY <2>1, TotalEmpty
  <2> QED
    BY <2>1, <2>2 DEF NetIsProfits
<1>4. \A s \in Symbols : WalkStart.lots[s] = <<>> /\ DOMAIN WalkStart.lots[s] = {}
  BY DEF WalkStart
<1>5. \A s \in Symbols : LotShares(WalkStart, s) = 0
  BY <1>4, TotalEmpty DEF LotShares
<1>6. LotCost(WalkStart) = 0
  <2> DEFINE f == [s \in Symbols |->
                     Total([i \in DOMAIN WalkStart.lots[s] |->
                              WalkStart.lots[s][i].quantity * WalkStart.lots[s][i].price],
                           DOMAIN WalkStart.lots[s])]
  <2>1. \A s \in Symbols : f[s] = 0
    BY <1>4, TotalEmpty
  <2> HIDE DEF f
  <2>2. Total(f, Symbols) = 0
    BY <2>1, SymbolsAssumption, TotalZero
  <2> QED
    BY <2>2 DEF LotCost, f
<1> QED
  BY <1>2, <1>3, <1>5, <1>6

\* The cost of the lots, symbol by symbol.
LEMMA LotCostSum ==
  ASSUME NEW w \in WalkState
  PROVE  /\ LotCost(w) = Total([s \in Symbols |-> CostOf(w.lots[s])], Symbols)
         /\ LotCost(w) \in Nat
         /\ \A s \in Symbols : /\ LotShares(w, s) = SharesIn(w.lots[s])
                               /\ LotShares(w, s) \in Nat
                               /\ CostOf(w.lots[s]) \in Nat
<1> DEFINE f == [s \in Symbols |-> CostOf(w.lots[s])]
<1>1. LotCost(w) = Total(f, Symbols)
  BY DEF LotCost, CostOf, LotCosts
<1>2. \A s \in Symbols : w.lots[s] \in Seq(Lot)
  BY DEF WalkState
<1>3. \A s \in Symbols : SharesIn(w.lots[s]) \in Nat /\ CostOf(w.lots[s]) \in Nat
  BY <1>2, LotsWellTyped
<1>4. \A s \in Symbols : LotShares(w, s) = SharesIn(w.lots[s])
  BY DEF LotShares, SharesIn, LotQuantities
<1>5. \A s \in Symbols : f[s] \in Nat
  BY <1>3
<1> HIDE DEF f
<1>6. Total(f, Symbols) \in Nat
  BY <1>5, SymbolsAssumption, TotalNat
<1> QED
  BY <1>1, <1>3, <1>4, <1>6 DEF f

\* The lots of one symbol change.
LEMMA LotsOfOne ==
  ASSUME NEW w \in WalkState, NEW v \in WalkState, NEW s \in Symbols,
         NEW lots \in Seq(Lot),
         v.lots = [w.lots EXCEPT ![s] = lots]
  PROVE  /\ \A t \in Symbols :
              LotShares(v, t) = IF t = s THEN SharesIn(lots) ELSE LotShares(w, t)
         /\ LotCost(v) = LotCost(w) - CostOf(w.lots[s]) + CostOf(lots)
<1> DEFINE f == [t \in Symbols |-> CostOf(w.lots[t])]
           g == [t \in Symbols |-> CostOf(v.lots[t])]
<1>1. \A t \in Symbols : v.lots[t] = IF t = s THEN lots ELSE w.lots[t]
  BY DEF WalkState
<1>2. \A t \in Symbols : LotShares(v, t) = SharesIn(v.lots[t]) /\ CostOf(v.lots[t]) \in Nat
  BY LotCostSum
<1>3. \A t \in Symbols : LotShares(w, t) = SharesIn(w.lots[t]) /\ CostOf(w.lots[t]) \in Nat
  BY LotCostSum
<1>4. LotCost(v) = Total(g, Symbols) /\ LotCost(w) = Total(f, Symbols)
  BY LotCostSum
<1>5. /\ \A t \in Symbols : f[t] \in Int /\ g[t] \in Int
      /\ \A t \in Symbols \ {s} : g[t] = f[t]
      /\ f[s] = CostOf(w.lots[s]) /\ g[s] = CostOf(lots)
  BY <1>1, <1>2, <1>3
<1> HIDE DEF f, g
<1>6. Total(g, Symbols) = Total(f, Symbols) - f[s] + g[s]
  BY <1>5, SymbolsAssumption, TotalChange
<1> QED
  BY <1>1, <1>2, <1>3, <1>4, <1>5, <1>6

LEMMA WalkMarked ==
  ASSUME NEW w \in WalkState, NEW mark \in MarkLine
  PROVE  WalkEvent(w, mark) =
           [marks |-> Append(w.marks, mark), lots |-> w.lots, trades |-> w.trades,
            net |-> w.net, high |-> w.high, max_drawdown |-> w.max_drawdown]
<1>1. IsMark(mark) /\ ~IsFill(mark)
  BY DEF IsMark, IsFill, MarkLine
<1>2. WalkEvent(w, mark) = WalkMark(w, mark)
  BY <1>1 DEF WalkEvent
<1> QED
  BY <1>2 DEF WalkMark, WalkState

LEMMA WalkRejected ==
  ASSUME NEW w, NEW order
  PROVE  WalkEvent(w, RejectedEvent(order)) = w
  BY DEF WalkEvent, RejectedEvent, IsMark, IsFill

\* A purchase: the symbol's lots have its shares more and cost its price more.
LEMMA WalkBought ==
  ASSUME NEW w \in WalkState, NEW s \in Symbols, NEW n \in Nat, NEW price \in Nat
  PROVE  LET fill == [symbol |-> s, side |-> "Buy", quantity |-> n, price |-> price]
             v == WalkEvent(w, FillEvent(fill))
         IN  /\ v \in WalkState
             /\ v.marks = w.marks /\ v.trades = w.trades /\ v.net = w.net
             /\ \A t \in Symbols :
                  LotShares(v, t) = IF t = s THEN LotShares(w, t) + n ELSE LotShares(w, t)
             /\ LotCost(v) = LotCost(w) + n * price
<1> DEFINE fill == [symbol |-> s, side |-> "Buy", quantity |-> n, price |-> price]
           v == WalkEvent(w, FillEvent(fill))
           lots == Append(w.lots[s], [quantity |-> n, price |-> price])
<1>1. v = WalkBuy(w, FillEvent(fill))
  BY DEF WalkEvent, FillEvent, IsMark, IsFill, WalkFill
<1>2. /\ FillEvent(fill).symbol = s /\ FillEvent(fill).quantity = n
      /\ FillEvent(fill).price = price
  BY DEF FillEvent
<1>3. v = [w EXCEPT !.lots[s] = Append(@, [quantity |-> n, price |-> price])]
  BY <1>1, <1>2 DEF WalkBuy
<1>4. v = [marks |-> w.marks, lots |-> [w.lots EXCEPT ![s] = lots], trades |-> w.trades,
           net |-> w.net, high |-> w.high, max_drawdown |-> w.max_drawdown]
  BY <1>3 DEF WalkState
<1>5. w.lots[s] \in Seq(Lot)
  BY DEF WalkState
<1>6. /\ lots \in Seq(Lot)
      /\ SharesIn(lots) = SharesIn(w.lots[s]) + n
      /\ CostOf(lots) = CostOf(w.lots[s]) + n * price
  BY <1>5, Buys
<1> HIDE DEF v, lots, fill
<1>7. v \in WalkState
  BY <1>4, <1>6 DEF WalkState
<1>8. v.lots = [w.lots EXCEPT ![s] = lots]
  BY <1>4
<1>9. /\ \A t \in Symbols : LotShares(v, t) = IF t = s THEN SharesIn(lots) ELSE LotShares(w, t)
      /\ LotCost(v) = LotCost(w) - CostOf(w.lots[s]) + CostOf(lots)
  BY <1>6, <1>7, <1>8, LotsOfOne
<1>10. /\ LotShares(w, s) = SharesIn(w.lots[s])
       /\ CostOf(w.lots[s]) \in Nat /\ LotCost(w) \in Nat /\ n * price \in Int
  <2>1. n * price \in Nat
    BY ProductNat
  <2>2. LotCost(w) \in Nat
    BY LotCostSum
  <2>3. LotShares(w, s) = SharesIn(w.lots[s]) /\ CostOf(w.lots[s]) \in Nat
    BY LotCostSum
  <2> QED
    BY <2>1, <2>2, <2>3
<1>11. LotCost(v) = LotCost(w) + n * price
  BY <1>6, <1>9, <1>10
<1>12. \A t \in Symbols : LotShares(v, t) = IF t = s THEN LotShares(w, t) + n ELSE LotShares(w, t)
  BY <1>6, <1>9, <1>10
<1> QED
  BY <1>4, <1>7, <1>11, <1>12 DEF v, fill

\* A sale: the symbol's lots have its shares less, and what they cost less beside
\* the profit booked is what the sale was paid.
LEMMA WalkSold ==
  ASSUME NEW w \in WalkState, NEW s \in Symbols, NEW n \in Nat, NEW price \in Nat,
         n > 0, n <= LotShares(w, s)
  PROVE  LET fill == [symbol |-> s, side |-> "Sell", quantity |-> n, price |-> price]
             v == WalkEvent(w, FillEvent(fill))
         IN  /\ v \in WalkState
             /\ v.marks = w.marks
             /\ NetIsProfits(w) => NetIsProfits(v)
             /\ \A t \in Symbols :
                  LotShares(v, t) = IF t = s THEN LotShares(w, t) - n ELSE LotShares(w, t)
             /\ v.net - LotCost(v) = w.net - LotCost(w) + n * price
<1> DEFINE fill == [symbol |-> s, side |-> "Sell", quantity |-> n, price |-> price]
           v == WalkEvent(w, FillEvent(fill))
           old == w.lots[s]
           lots == Remaining(old, n)
           profit == Profit(old, n, price)
           net == w.net + profit
           high == Max({w.high, net})
           trade == [symbol |-> s, quantity |-> Closed(old, n), entry |-> Head(old).price,
                     exit |-> price, profit |-> profit]
<1>1. v = WalkSell(w, FillEvent(fill))
  BY DEF WalkEvent, FillEvent, IsMark, IsFill, WalkFill
<1>2. /\ FillEvent(fill).symbol = s /\ FillEvent(fill).quantity = n
      /\ FillEvent(fill).price = price
  BY DEF FillEvent
<1>3. old \in Seq(Lot) /\ LotShares(w, s) = SharesIn(old)
  BY LotCostSum DEF WalkState
<1> HIDE DEF old
<1>4. /\ Closed(old, n) = n
      /\ profit \in Int
      /\ lots \in Seq(Lot)
      /\ SharesIn(lots) = SharesIn(old) - n
      /\ profit = n * price - CostOf(old) + CostOf(lots)
  <2>1. n <= SharesIn(old)
    BY <1>3
  <2> QED
    BY <1>3, <2>1, Sells
<1> HIDE DEF lots, profit
<1>5. v = [marks |-> w.marks, lots |-> [w.lots EXCEPT ![s] = lots],
           trades |-> Append(w.trades, trade), net |-> net, high |-> high,
           max_drawdown |-> Min({w.max_drawdown, net - high})]
  <2> DEFINE event == FillEvent(fill)
  <2>1. event.symbol = s /\ event.quantity = n /\ event.price = price
    BY <1>2
  <2>2. v = WalkSell(w, event)
    BY <1>1
  <2>3. Closed(old, n) # 0
    BY <1>4
  <2> HIDE DEF event, v
  <2>4. /\ w.lots[event.symbol] = old /\ Closed(w.lots[event.symbol], event.quantity) = Closed(old, n)
        /\ Profit(w.lots[event.symbol], event.quantity, event.price) = profit
        /\ Remaining(w.lots[event.symbol], event.quantity) = lots
    BY <2>1 DEF old, lots, profit
  <2> HIDE DEF old, lots, profit
  <2> QED
    BY <2>1, <2>2, <2>3, <2>4 DEF WalkSell
<1> HIDE DEF v, fill
<1>6. Head(old).price \in Nat
  <2>1. old # <<>>
    <3> SUFFICES ASSUME old = <<>> PROVE FALSE
      OBVIOUS
    <3>1. DOMAIN old = {}
      OBVIOUS
    <3>2. SharesIn(old) = 0
      BY <3>1, TotalEmpty DEF SharesIn
    <3> QED
      BY <1>3, <3>2
  <2>2. Head(old) \in Lot
    BY <1>3, <2>1, HeadTailProperties
  <2> QED
    BY <2>2 DEF Lot
<1>7. trade \in Trade /\ trade.profit = profit
  BY <1>4, <1>6 DEF Trade
<1> HIDE DEF trade
<1>8. net \in Int /\ w.net \in Int /\ w.high \in Int /\ w.max_drawdown \in Int
      /\ w.trades \in Seq(Trade) /\ w.marks \in Seq(MarkLine)
      /\ w.lots \in [Symbols -> Seq(Lot)]
  BY <1>4 DEF WalkState
<1>9. high \in Int /\ Min({w.max_drawdown, net - high}) \in Int
  <2> HIDE DEF net
  <2>1. high = IF w.high >= net THEN w.high ELSE net
    BY <1>8, OfTwo
  <2>2. high \in Int /\ net - high \in Int
    BY <1>8, <2>1
  <2> DEFINE fall == net - high
  <2>3. fall \in Int
    BY <2>2
  <2> HIDE DEF fall, high
  <2>4. Min({w.max_drawdown, fall}) = IF w.max_drawdown <= fall THEN w.max_drawdown ELSE fall
    BY <1>8, <2>3, OfTwo
  <2>5. Min({w.max_drawdown, fall}) \in Int
    BY <1>8, <2>3, <2>4
  <2> QED
    BY <2>2, <2>5 DEF fall
<1> HIDE DEF high
<1>10. /\ Append(w.trades, trade) \in Seq(Trade)
       /\ Len(w.trades) \in Nat /\ DOMAIN w.trades = 1..Len(w.trades)
       /\ DOMAIN Append(w.trades, trade) = 1..(Len(w.trades) + 1)
       /\ Append(w.trades, trade)[Len(w.trades) + 1] = trade
       /\ \A i \in 1..Len(w.trades) : Append(w.trades, trade)[i] = w.trades[i]
       /\ \A i \in 1..Len(w.trades) : w.trades[i] \in Trade
  BY <1>7, <1>8, AppendProperties, LenProperties, ElementOfSeq
<1>11. v \in WalkState
  BY <1>4, <1>5, <1>8, <1>9, <1>10 DEF WalkState
<1>12. /\ v.lots = [w.lots EXCEPT ![s] = lots] /\ v.marks = w.marks /\ v.net = net
       /\ v.trades = Append(w.trades, trade)
  BY <1>5
<1>13. /\ \A t \in Symbols : LotShares(v, t) = IF t = s THEN SharesIn(lots) ELSE LotShares(w, t)
       /\ LotCost(v) = LotCost(w) - CostOf(old) + CostOf(lots)
  BY <1>4, <1>11, <1>12, LotsOfOne DEF old
<1>14. \A t \in Symbols : LotShares(v, t) = IF t = s THEN LotShares(w, t) - n ELSE LotShares(w, t)
  BY <1>3, <1>4, <1>13
<1>15. v.net - LotCost(v) = w.net - LotCost(w) + n * price
  <2>1. CostOf(old) \in Nat /\ CostOf(lots) \in Nat /\ LotCost(w) \in Nat /\ n * price \in Nat
    BY <1>3, <1>4, LotsWellTyped, LotCostSum, ProductNat
  <2>2. \A a, b, c, d, e \in Int : (a + (d - b + c)) - (e - b + c) = a - e + d
    OBVIOUS
  <2>3. v.net - LotCost(v) = (w.net + (n * price - CostOf(old) + CostOf(lots)))
                             - (LotCost(w) - CostOf(old) + CostOf(lots))
    BY <1>4, <1>12, <1>13
  <2> QED
    BY <1>8, <2>1, <2>2, <2>3
<1>16. ASSUME NetIsProfits(w) PROVE NetIsProfits(v)
  <2> DEFINE k == Len(w.trades)
             f == Profits(v.trades)
             g == Profits(w.trades)
  <2>1. /\ \A i \in 1..k : g[i] = w.trades[i].profit /\ g[i] \in Int
        /\ \A i \in 1..k : f[i] = g[i]
        /\ f[k + 1] = profit
    <3>1. \A i \in 1..(k + 1) : f[i] = Append(w.trades, trade)[i].profit
      BY <1>10, <1>12 DEF Profits
    <3>2. \A i \in 1..k : i \in 1..(k + 1) /\ k + 1 \in 1..(k + 1)
      BY <1>10
    <3>3. \A i \in 1..k : g[i] = w.trades[i].profit
      BY <1>10 DEF Profits
    <3>4. \A i \in 1..k : w.trades[i].profit \in Int
      BY <1>10 DEF Trade
    <3>5. k + 1 \in 1..(k + 1)
      BY <1>10
    <3> HIDE DEF f, g
    <3> QED
      BY <1>7, <1>10, <3>1, <3>2, <3>3, <3>4, <3>5
  <2>2. k \in Nat /\ \A i \in 1..(k + 1) : i \in 1..k \/ i = k + 1
    BY <1>10
  <2>3. DOMAIN v.trades = 1..(k + 1) /\ DOMAIN w.trades = 1..k
    BY <1>10, <1>12
  <2>4. Total(Profits(w.trades), DOMAIN w.trades) = w.net
    BY <1>16 DEF NetIsProfits
  <2> HIDE DEF f, g, k
  <2>5. \A i \in 1..(k + 1) : f[i] \in Int
    BY <1>4, <2>1, <2>2
  <2>6. Total(f, 1..(k + 1)) = Total(f, 1..k) + f[k + 1]
    BY <2>2, <2>5, TotalLast
  <2>7. Total(f, 1..k) = Total(g, 1..k)
    <3>1. IsFiniteSet(1..k)
      BY <2>2, FS_Interval
    <3> QED
      BY <2>1, <3>1, TotalSame
  <2>8. Total(g, 1..k) = w.net
    BY <2>3, <2>4 DEF g
  <2>9. Total(f, DOMAIN v.trades) = net
    BY <2>1, <2>3, <2>6, <2>7, <2>8
  <2> QED
    BY <1>12, <2>9 DEF NetIsProfits, f
<1> QED
  BY <1>11, <1>12, <1>14, <1>15, <1>16 DEF v, fill

\* A sale may ask for more than the lots have: it closes what is there, and the
\* other symbols' lots stay.
LEMMA WalkSoldAny ==
  ASSUME NEW w \in WalkState, NEW s \in Symbols, NEW n \in Nat, NEW price \in Nat
  PROVE  LET fill == [symbol |-> s, side |-> "Sell", quantity |-> n, price |-> price]
             v == WalkEvent(w, FillEvent(fill))
         IN  /\ v \in WalkState
             /\ \A t \in Symbols \ {s} : LotShares(v, t) = LotShares(w, t)
<1> DEFINE fill == [symbol |-> s, side |-> "Sell", quantity |-> n, price |-> price]
           event == FillEvent(fill)
           v == WalkEvent(w, event)
           old == w.lots[s]
           lots == Remaining(old, n)
           profit == Profit(old, n, price)
           net == w.net + profit
           high == Max({w.high, net})
           low == Min({w.max_drawdown, net - high})
           trade == [symbol |-> s, quantity |-> Closed(old, n), entry |-> Head(old).price,
                     exit |-> price, profit |-> profit]
<1>1. event.symbol = s /\ event.quantity = n /\ event.price = price
  BY DEF FillEvent
<1>2. v = WalkSell(w, event)
  BY DEF WalkEvent, FillEvent, IsMark, IsFill, WalkFill
<1>3. old \in Seq(Lot)
  BY DEF WalkState
<1> HIDE DEF event, v, fill
<1>4. CASE Closed(old, n) = 0
  <2>1. v = w
    BY <1>1, <1>2, <1>4 DEF WalkSell
  <2> QED
    BY <2>1 DEF v, event, fill
<1>5. CASE Closed(old, n) # 0
  <2> HIDE DEF old
  <2>1. /\ IsFiniteSet(DOMAIN old) /\ DOMAIN old = 1..Len(old) /\ Len(old) \in Nat
        /\ \A i \in DOMAIN old : old[i].quantity \in Nat /\ old[i].price \in Nat
    BY <1>3, LotsWellTyped
  <2>2. \A i \in DOMAIN old : Matched(old, n)[i] \in Nat
    BY <1>3, <2>1, MatchedSoFar
  <2>3. Closed(old, n) \in Nat
    BY <2>1, <2>2, TotalNat DEF Closed
  <2>4. profit \in Int
    <3> DEFINE f == [i \in DOMAIN old |-> (price - old[i].price) * Matched(old, n)[i]]
    <3>1. \A a, b, c \in Int : (a - b) * c \in Int
      OBVIOUS
    <3>2. \A i \in DOMAIN old : f[i] \in Int
      <4> TAKE i \in DOMAIN old
      <4>1. price \in Int /\ old[i].price \in Int /\ Matched(old, n)[i] \in Int
        BY <2>1, <2>2
      <4> QED
        BY <3>1, <4>1
    <3> HIDE DEF f
    <3>3. Total(f, DOMAIN old) \in Int
      BY <2>1, <3>2, TotalInt
    <3> QED
      BY <3>3 DEF f, Profit
  <2>5. lots \in Seq(Lot)
    BY <1>3, Popped
  <2>6. old # <<>>
    <3> SUFFICES ASSUME old = <<>> PROVE FALSE
      OBVIOUS
    <3>1. DOMAIN old = {}
      OBVIOUS
    <3>2. Closed(old, n) = 0
      BY <3>1, TotalEmpty DEF Closed
    <3> QED
      BY <1>5, <3>2
  <2>7. Head(old).price \in Nat
    <3>1. Head(old) \in Lot
      BY <1>3, <2>6, HeadTailProperties
    <3> QED
      BY <3>1 DEF Lot
  <2>8. trade \in Trade
    BY <2>3, <2>4, <2>7 DEF Trade
  <2> HIDE DEF trade, lots, profit
  <2>9. /\ w.net \in Int /\ w.high \in Int /\ w.max_drawdown \in Int
        /\ w.trades \in Seq(Trade) /\ w.marks \in Seq(MarkLine)
        /\ w.lots \in [Symbols -> Seq(Lot)]
    BY DEF WalkState
  <2>10. net \in Int
    BY <2>4, <2>9
  <2> HIDE DEF net
  <2>11. high \in Int
    BY <2>9, <2>10, OfTwo
  <2> HIDE DEF high
  <2>12. low \in Int
    <3> DEFINE fall == net - high
    <3>1. fall \in Int
      BY <2>10, <2>11
    <3> HIDE DEF fall
    <3>2. Min({w.max_drawdown, fall}) \in Int
      BY <2>9, <3>1, OfTwo
    <3> QED
      BY <3>2 DEF fall
  <2>13. v = [marks |-> w.marks, lots |-> [w.lots EXCEPT ![s] = lots],
              trades |-> Append(w.trades, trade), net |-> net, high |-> high,
              max_drawdown |-> low]
    <3>1. /\ w.lots[event.symbol] = old
          /\ Closed(w.lots[event.symbol], event.quantity) = Closed(old, n)
          /\ Profit(w.lots[event.symbol], event.quantity, event.price) = profit
          /\ Remaining(w.lots[event.symbol], event.quantity) = lots
      BY <1>1 DEF old, lots, profit
    <3>2. v = [marks |-> w.marks,
               lots |-> [w.lots EXCEPT ![event.symbol] = lots],
               trades |-> Append(w.trades,
                   [symbol |-> event.symbol, quantity |-> Closed(old, n),
                    entry |-> Head(old).price, exit |-> event.price, profit |-> profit]),
               net |-> w.net + profit,
               high |-> Max({w.high, w.net + profit}),
               max_drawdown |-> Min({w.max_drawdown,
                   (w.net + profit) - Max({w.high, w.net + profit})})]
      BY <1>2, <1>5, <3>1 DEF WalkSell
    <3> QED
      BY <1>1, <3>2 DEF trade, net, high, low
  <2> HIDE DEF low
  <2>14. Append(w.trades, trade) \in Seq(Trade)
    BY <2>8, <2>9, AppendProperties
  <2>15. v \in WalkState
    BY <2>5, <2>9, <2>10, <2>11, <2>12, <2>13, <2>14 DEF WalkState
  <2>16. v.lots = [w.lots EXCEPT ![s] = lots]
    BY <2>13
  <2>17. \A t \in Symbols \ {s} : LotShares(v, t) = LotShares(w, t)
    BY <2>5, <2>15, <2>16, LotsOfOne
  <2> QED
    BY <2>15, <2>17 DEF v, event, fill
<1> QED
  BY <1>4, <1>5

-----------------------------------------------------------------------------
(* Drawdowns *)

LEMMA ImageFinite ==
  ASSUME NEW S, IsFiniteSet(S), NEW f
  PROVE  IsFiniteSet({f[x] : x \in S})
<1> DEFINE T == {f[x] : x \in S}
           g == [x \in S |-> f[x]]
<1>1. g \in Surjection(S, T)
  BY DEF Surjection
<1> HIDE DEF g
<1> QED
  BY <1>1, FS_Surjection

LEMMA HighWaterIs ==
  ASSUME NEW m \in Seq(MarkLine), NEW i \in 1..Len(m)
  PROVE  /\ HighWater(m, i) \in Int
         /\ \E j \in 1..i : HighWater(m, i) = m[j].equity
         /\ \A j \in 1..i : m[j].equity <= HighWater(m, i)
<1> DEFINE S == {m[j].equity : j \in 1..i}
<1>1. Len(m) \in Nat /\ i \in Nat /\ 1 \in 1..i /\ \A j \in 1..i : j \in 1..Len(m)
  BY LenProperties
<1>2. \A j \in 1..i : m[j].equity \in Int
  <2>1. \A j \in 1..i : m[j] \in MarkLine
    BY <1>1, ElementOfSeq
  <2> QED
    BY <2>1 DEF MarkLine
<1>3. S \subseteq Int /\ S # {}
  BY <1>1, <1>2
<1>4. IsFiniteSet(1..i)
  BY <1>1, FS_Interval
<1>5. IsFiniteSet(S)
  <2> DEFINE f == [j \in 1..i |-> m[j].equity]
  <2>1. S = {f[j] : j \in 1..i}
    OBVIOUS
  <2> HIDE DEF f, S
  <2> QED
    BY <1>4, <2>1, ImageFinite
<1>6. Max(S) \in S /\ \A y \in S : Max(S) >= y
  <2> HIDE DEF S
  <2> QED
    BY <1>3, <1>5, LargestExists
<1>7. HighWater(m, i) = Max(S)
  BY DEF HighWater
<1> DEFINE top == Max(S)
<1>8. HighWater(m, i) = top /\ top \in S /\ \A j \in 1..i : top >= m[j].equity
  BY <1>6, <1>7
<1> HIDE DEF top
<1> QED
  BY <1>2, <1>3, <1>8

\* The highest mark follows the marks upwards only.
LEMMA HighWaterAppend ==
  ASSUME NEW m \in Seq(MarkLine), NEW mark \in MarkLine
  PROVE  /\ \A i \in 1..Len(m) : HighWater(Append(m, mark), i) = HighWater(m, i)
         /\ HighWater(Append(m, mark), Len(m) + 1) =
              IF Len(m) = 0 \/ mark.equity > HighWater(m, Len(m))
              THEN mark.equity ELSE HighWater(m, Len(m))
<1> DEFINE l == Append(m, mark)
           n == Len(m)
<1>1. /\ l \in Seq(MarkLine) /\ Len(l) = n + 1 /\ n \in Nat
      /\ l[n + 1] = mark /\ \A i \in 1..n : l[i] = m[i]
  BY AppendProperties, LenProperties
<1>2. mark.equity \in Int
  BY DEF MarkLine
<1> HIDE DEF l, n
<1>3. \A i \in 1..n : HighWater(l, i) = HighWater(m, i)
  <2> SUFFICES ASSUME NEW i \in 1..n PROVE HighWater(l, i) = HighWater(m, i)
    OBVIOUS
  <2>1. \A j \in 1..i : l[j] = m[j]
    BY <1>1
  <2>2. {l[j].equity : j \in 1..i} = {m[j].equity : j \in 1..i}
    BY <2>1
  <2> QED
    BY <2>2 DEF HighWater
<1>4. n + 1 \in 1..Len(l)
  BY <1>1
<1> DEFINE top == HighWater(l, n + 1)
<1>5. /\ top \in Int
      /\ \E j \in 1..(n + 1) : top = l[j].equity
      /\ \A j \in 1..(n + 1) : l[j].equity <= top
  BY <1>1, <1>4, HighWaterIs
<1> HIDE DEF top
<1>6. mark.equity <= top
  BY <1>1, <1>5
<1>7. CASE n = 0
  <2>1. top = mark.equity
    BY <1>1, <1>5, <1>7
  <2> QED
    BY <1>1, <1>3, <1>7, <2>1 DEF top, l, n
<1>8. CASE n # 0
  <2> DEFINE peak == HighWater(m, n)
  <2>1. n \in 1..Len(m)
    BY <1>1, <1>8 DEF n
  <2>2. /\ peak \in Int
        /\ \E j \in 1..n : peak = m[j].equity
        /\ \A j \in 1..n : m[j].equity <= peak
    BY <2>1, HighWaterIs
  <2> HIDE DEF peak
  <2>3. peak <= top
    <3>1. PICK j \in 1..n : peak = m[j].equity
      BY <2>2
    <3>2. j \in 1..(n + 1) /\ l[j] = m[j]
      BY <1>1
    <3> QED
      BY <1>5, <3>1, <3>2
  <2>4. top = mark.equity \/ top <= peak
    <3>1. PICK j \in 1..(n + 1) : top = l[j].equity
      BY <1>5
    <3>2. CASE j = n + 1
      BY <1>1, <3>1, <3>2
    <3>3. CASE j # n + 1
      <4>1. j \in 1..n /\ l[j] = m[j]
        BY <1>1, <3>3
      <4> QED
        BY <2>2, <3>1, <4>1
    <3> QED
      BY <3>2, <3>3
  <2>5. top = IF mark.equity > peak THEN mark.equity ELSE peak
    BY <1>2, <1>5, <1>6, <2>2, <2>3, <2>4
  <2> QED
    BY <1>3, <1>8, <2>5 DEF top, l, n, peak
<1> QED
  BY <1>7, <1>8

Ratios == {r \in [num : Int, den : Int] : r.den > 0}

LEMMA TimesMonotone ==
  ASSUME NEW a \in Int, NEW b \in Int, NEW c \in Int, c > 0
  PROVE  /\ a >= b => a * c >= b * c
         /\ a < b => a * c < b * c
  OBVIOUS

\* Ratios are ordered: one not below a second, and the second not below a third.
LEMMA NotLessTransitive ==
  ASSUME NEW x \in Ratios, NEW y \in Ratios, NEW z \in Ratios,
         ~Less(x, y), ~Less(y, z)
  PROVE  ~Less(x, z)
<1> DEFINE p == x.num
           q == x.den
           r == y.num
           u == y.den
           v == z.num
           w == z.den
<1>1. /\ p \in Int /\ q \in Int /\ r \in Int /\ u \in Int /\ v \in Int /\ w \in Int
      /\ q > 0 /\ u > 0 /\ w > 0
  BY DEF Ratios
<1>2. p * u >= r * q /\ r * w >= v * u
  BY <1>1 DEF Less
<1>3. Less(x, z) <=> p * w < v * q
  BY DEF Less
<1> HIDE DEF p, q, r, u, v, w
<1>4. /\ p * u \in Int /\ r * q \in Int /\ r * w \in Int /\ v * u \in Int
      /\ p * w \in Int /\ v * q \in Int
  BY <1>1
<1>5. (p * u) * w >= (r * q) * w /\ (r * w) * q >= (v * u) * q
  BY <1>1, <1>2, <1>4, TimesMonotone
<1>6. /\ (p * u) * w = (p * w) * u /\ (r * q) * w = (r * w) * q
      /\ (v * u) * q = (v * q) * u
  BY <1>1
<1>7. (p * w) * u \in Int /\ (r * w) * q \in Int /\ (v * q) * u \in Int
  BY <1>1, <1>4
<1>8. (p * w) * u >= (v * q) * u
  BY <1>5, <1>6, <1>7
<1>9. p * w < v * q => (p * w) * u < (v * q) * u
  BY <1>1, <1>4, TimesMonotone
<1> QED
  BY <1>3, <1>7, <1>8, <1>9

LEMMA NotLessTotal ==
  ASSUME NEW x \in Ratios, NEW y \in Ratios
  PROVE  ~Less(x, x) /\ (~Less(x, y) \/ ~Less(y, x))
<1>1. /\ x.num * y.den \in Int /\ y.num * x.den \in Int /\ x.num * x.den \in Int
  BY DEF Ratios
<1> QED
  BY <1>1 DEF Less

\* A finite set of ratios has a least one.
LEMMA LeastRatio ==
  ASSUME NEW S, S \subseteq Ratios, IsFiniteSet(S), S # {}
  PROVE  \E x \in S : \A y \in S : ~Less(y, x)
<1> DEFINE P == {T \in SUBSET S : T # {} => \E x \in T : \A y \in T : ~Less(y, x)}
<1>1. {} \in P
  OBVIOUS
<1>2. ASSUME NEW T \in SUBSET S, T # {}, \A x \in T : T \ {x} \in P
      PROVE  T \in P
  <2>1. PICK z \in T : TRUE
    BY <1>2
  <2>2. T \subseteq Ratios
    OBVIOUS
  <2>3. CASE T \ {z} = {}
    <3>1. \A y \in T : y = z
      BY <2>3
    <3> QED
      BY <2>1, <2>2, <3>1, NotLessTotal
  <2>4. CASE T \ {z} # {}
    <3>1. PICK x \in T \ {z} : \A y \in T \ {z} : ~Less(y, x)
      BY <1>2, <2>4
    <3>2. CASE ~Less(z, x)
      BY <3>1, <3>2
    <3>3. CASE Less(z, x)
      <4>1. ~Less(x, z) /\ ~Less(z, z)
        BY <2>2, <3>3, NotLessTotal
      <4>2. \A y \in T \ {z} : ~Less(y, z)
        BY <2>2, <3>1, <4>1, NotLessTransitive
      <4>3. \A y \in T : ~Less(y, z)
        BY <4>1, <4>2
      <4> QED
        BY <4>3
    <3> QED
      BY <3>2, <3>3
  <2> QED
    BY <2>3, <2>4
<1> HIDE DEF P
<1>3. SUBSET S \subseteq P
  BY <1>1, <1>2, PartInduction
<1>4. S \in P
  BY <1>3
<1> QED
  BY <1>4 DEF P

\* The report's deepest drawdown is beyond a limit if and only if one of the marks
\* is as far below the highest before it.
LEMMA DeepestBeyond ==
  ASSUME NEW m \in Seq(MarkLine), Len(m) > 0, m[1].equity > 0,
         NEW a \in Nat, NEW b \in Nat \ {0}
  PROVE  Less(MaxDrawdown(m), Ratio(-a, b)) <=>
           \E i \in 1..Len(m) :
              (HighWater(m, i) - m[i].equity) * b > a * HighWater(m, i)
<1> DEFINE d == [i \in 1..Len(m) |-> Ratio(m[i].equity - HighWater(m, i), HighWater(m, i))]
           limit == Ratio(-a, b)
<1>1. Len(m) \in Nat /\ DOMAIN m = 1..Len(m) /\ 1 \in 1..Len(m)
  BY LenProperties
<1>2. \A i \in 1..Len(m) : /\ m[i].equity \in Int /\ HighWater(m, i) \in Int
                           /\ HighWater(m, i) > 0
  <2> SUFFICES ASSUME NEW i \in 1..Len(m)
               PROVE  /\ m[i].equity \in Int /\ HighWater(m, i) \in Int
                      /\ HighWater(m, i) > 0
    OBVIOUS
  <2>1. m[i] \in MarkLine /\ m[1] \in MarkLine
    BY <1>1, ElementOfSeq
  <2>2. m[i].equity \in Int /\ m[1].equity \in Int
    BY <2>1 DEF MarkLine
  <2>3. HighWater(m, i) \in Int /\ \A j \in 1..i : m[j].equity <= HighWater(m, i)
    BY HighWaterIs
  <2>4. 1 \in 1..i
    BY <1>1
  <2> QED
    BY <2>2, <2>3, <2>4
<1>3. \A i \in 1..Len(m) : d[i] \in Ratios
  BY <1>2 DEF Ratio, Ratios
<1>4. Drawdowns(m) = {d[i] : i \in 1..Len(m)}
  BY <1>1 DEF Drawdowns
<1>5. limit \in Ratios
  BY DEF Ratio, Ratios
<1>6. \A i \in 1..Len(m) :
        Less(d[i], limit) <=> (HighWater(m, i) - m[i].equity) * b > a * HighWater(m, i)
  <2> SUFFICES ASSUME NEW i \in 1..Len(m)
               PROVE  Less(d[i], limit) <=>
                        (HighWater(m, i) - m[i].equity) * b > a * HighWater(m, i)
    OBVIOUS
  <2> DEFINE h == HighWater(m, i)
             e == m[i].equity
  <2>1. h \in Int /\ e \in Int
    BY <1>2
  <2>2. Less(d[i], limit) <=> (e - h) * b < (-a) * h
    BY DEF Less, Ratio
  <2> HIDE DEF h, e
  <2>3. \A x, y, z \in Int : /\ (x - y) * b = -((y - x) * b) /\ (-a) * y = -(a * y)
                            /\ (y - x) * b \in Int /\ a * y \in Int
    OBVIOUS
  <2>4. (e - h) * b < (-a) * h <=> (h - e) * b > a * h
    BY <2>1, <2>3
  <2> QED
    BY <2>2, <2>4 DEF h, e
<1> HIDE DEF d, limit
<1>7. Drawdowns(m) \subseteq Ratios /\ IsFiniteSet(Drawdowns(m)) /\ Drawdowns(m) # {}
  <2>1. IsFiniteSet(1..Len(m))
    BY <1>1, FS_Interval
  <2>2. IsFiniteSet({d[i] : i \in 1..Len(m)})
    BY <2>1, ImageFinite
  <2> QED
    BY <1>1, <1>3, <1>4, <2>2
<1>8. \E x \in Drawdowns(m) : \A y \in Drawdowns(m) : ~Less(y, x)
  BY <1>7, LeastRatio
<1>9. /\ MaxDrawdown(m) \in Drawdowns(m)
      /\ \A y \in Drawdowns(m) : ~Less(y, MaxDrawdown(m))
  BY <1>8 DEF MaxDrawdown
<1>10. ASSUME Less(MaxDrawdown(m), limit)
       PROVE  \E i \in 1..Len(m) : Less(d[i], limit)
  BY <1>4, <1>9, <1>10
<1>11. ASSUME NEW i \in 1..Len(m), Less(d[i], limit)
       PROVE  Less(MaxDrawdown(m), limit)
  <2>1. d[i] \in Drawdowns(m) /\ d[i] \in Ratios /\ MaxDrawdown(m) \in Ratios
    BY <1>3, <1>4, <1>7, <1>9
  <2>2. ~Less(d[i], MaxDrawdown(m))
    BY <1>9, <2>1
  <2> QED
    BY <1>5, <1>11, <2>1, <2>2, NotLessTransitive
<1>12. Less(MaxDrawdown(m), limit) <=> \E i \in 1..Len(m) : Less(d[i], limit)
  BY <1>10, <1>11
<1> QED
  BY <1>6, <1>12 DEF limit
=============================================================================
