------------------------- MODULE PickBatchesProofs -------------------------
(***************************************************************************)
(* Proofs about PickBatches for any orders, batches, operators, releases   *)
(* and stock.                                                              *)
(***************************************************************************)
EXTENDS PickBatches, FiniteSetTheorems, TLAPS

-----------------------------------------------------------------------------
(* Sums over finite sets.                                                  *)

\* Among the subsets of a finite set some are smallest; this carries every induction
\* over sets below: T is the set of counterexamples.
LEMMA SmallestSet ==
    ASSUME NEW D, IsFiniteSet(D), NEW T, T \subseteq SUBSET D, T # {}
    PROVE  \E s \in T : \A t \in T : t \subseteq s => t = s
<1>1. IsWellFoundedOn(StrictSubsetOrdering(D), SUBSET D)
    BY FS_FiniteSubsetsOfFinite, FS_StrictSubsetOrderingWellFounded
<1>2. PICK s \in T : \A t \in T : ~(<<t, s>> \in StrictSubsetOrdering(D))
    BY <1>1, WFMin
<1>3. ASSUME NEW t \in T, t \subseteq s, t # s PROVE FALSE
  <2>1. <<t, s>> \in StrictSubsetOrdering(D)
      BY <1>3, Zenon DEF StrictSubsetOrdering
  <2> QED
      BY <1>2, <2>1
<1> QED
    BY <1>3

\* One round of a sum: an element is chosen, g has the sum of the others.
Any(s) == CHOOSE x \in s : TRUE
Round(f, g, s) == IF s = {} THEN 0 ELSE f[Any(s)] + g[s \ {Any(s)}]
Table(f, S) == CHOOSE g : g = [s \in SUBSET S |-> Round(f, g, s)]

\* SumFunctionOnSet is the last entry of the table of the sums of all subsets.
LEMMA SumIsInTable == ASSUME NEW f, NEW S PROVE SumFunctionOnSet(f, S) = Table(f, S)[S]
    BY DEF SumFunctionOnSet, FoldFunctionOnSet, MapThenFoldSet, Table, Round, Any

LEMMA RoundOfEmpty == ASSUME NEW f, NEW g PROVE Round(f, g, {}) = 0
    BY DEF Round

LEMMA RoundOfOthers ==
    ASSUME NEW f, NEW s, s # {}
    PROVE  Any(s) \in s /\ \A g : Round(f, g, s) = f[Any(s)] + g[s \ {Any(s)}]
    BY DEF Round, Any

\* There is at most one table ...
LEMMA TablesAgree ==
    ASSUME NEW D, IsFiniteSet(D), NEW f, NEW g, NEW h,
           \A s \in SUBSET D : g[s] = Round(f, g, s) /\ h[s] = Round(f, h, s)
    PROVE  \A s \in SUBSET D : g[s] = h[s]
<1> DEFINE T == {s \in SUBSET D : g[s] # h[s]}
<1> SUFFICES ASSUME T # {} PROVE FALSE
    OBVIOUS
<1>1. PICK s \in T : \A t \in T : t \subseteq s => t = s
  <2>1. T \subseteq SUBSET D
      OBVIOUS
  <2> HIDE DEF T
  <2> QED
      BY <2>1, SmallestSet
<1>2. s # {}
    BY <1>1, RoundOfEmpty
<1>3. PICK x \in s : \A e : Round(f, e, s) = f[x] + e[s \ {x}]
    BY <1>2, RoundOfOthers
<1>4. s \ {x} \in SUBSET D /\ s \ {x} \notin T
    BY <1>1
<1>5. g[s \ {x}] = h[s \ {x}]
    BY <1>4
<1> QED
    BY <1>1, <1>3, <1>5

\* ... and there is one: Table is what its equation says.
LEMMA TableDef ==
    ASSUME NEW D, IsFiniteSet(D), NEW f
    PROVE  Table(f, D) = [s \in SUBSET D |-> Round(f, Table(f, D), s)]
<1> DEFINE Good(s) == \E g : g = [t \in SUBSET s |-> Round(f, g, t)]
           T == {s \in SUBSET D : ~Good(s)}
<1>1. SUFFICES ASSUME T # {} PROVE FALSE
    <2>1. Good(D)
        BY <1>1
    <2>2. PICK g : g = [s \in SUBSET D |-> Round(f, g, s)]
        BY <2>1
    <2> QED
        BY <2>2 DEF Table
<1>2. PICK s \in T : \A t \in T : t \subseteq s => t = s
  <2>1. T \subseteq SUBSET D
      OBVIOUS
  <2> HIDE DEF T
  <2> QED
      BY <1>1, <2>1, SmallestSet
<1>3. \A t \in SUBSET s : t # s => Table(f, t) = [u \in SUBSET t |-> Round(f, Table(f, t), u)]
  <2> SUFFICES ASSUME NEW t \in SUBSET s, t # s
               PROVE  Table(f, t) = [u \in SUBSET t |-> Round(f, Table(f, t), u)]
      OBVIOUS
  <2>1. Good(t)
      BY <1>2
  <2>2. PICK g : g = [u \in SUBSET t |-> Round(f, g, u)]
      BY <2>1
  <2> QED
      BY <2>2 DEF Table
<1>4. IsFiniteSet(s) /\ \A t \in SUBSET s : IsFiniteSet(t)
    BY FS_Subset
<1> DEFINE Rest(t) == Table(f, t)[t]
           part == [t \in SUBSET s |-> Rest(t)]
           whole == [t \in SUBSET s |-> Round(f, part, t)]
<1>5. ASSUME NEW t \in SUBSET s, t # s
      PROVE  whole[t] = part[t]
  <2>1. CASE t = {}
    <3>1. Table(f, t)[t] = Round(f, Table(f, t), t)
        BY <1>3, <1>5
    <3> QED
        BY <2>1, <3>1, RoundOfEmpty
  <2>2. CASE t # {}
    <3>1. PICK x \in t : \A e : Round(f, e, t) = f[x] + e[t \ {x}]
        BY <2>2, RoundOfOthers
    <3> DEFINE r == t \ {x}
    <3>2. r \in SUBSET s /\ r # s /\ r \in SUBSET t
        OBVIOUS
    <3>3. Table(f, t)[r] = Table(f, r)[r]
      <4>1. \A u \in SUBSET r : /\ Table(f, t)[u] = Round(f, Table(f, t), u)
                                /\ Table(f, r)[u] = Round(f, Table(f, r), u)
          BY <1>3, <1>5, <3>2
      <4>2. IsFiniteSet(r)
          BY <1>4, <3>2
      <4> DEFINE g == Table(f, t)
                 h == Table(f, r)
      <4>3. \A u \in SUBSET r : g[u] = Round(f, g, u) /\ h[u] = Round(f, h, u)
          BY <4>1
      <4> HIDE DEF r, g, h
      <4>4. \A u \in SUBSET r : g[u] = h[u]
          BY <4>2, <4>3, TablesAgree
      <4> QED
          BY <4>4 DEF g, h
    <3>4. part[t] = f[x] + Table(f, t)[r]
        BY <1>3, <1>5, <3>1
    <3>5. whole[t] = f[x] + part[r]
        BY <3>1
    <3> QED
        BY <3>2, <3>3, <3>4, <3>5
  <2> QED
      BY <2>1, <2>2
<1>6. whole = [t \in SUBSET s |-> Round(f, whole, t)]
  <2> SUFFICES ASSUME NEW t \in SUBSET s PROVE Round(f, part, t) = Round(f, whole, t)
      OBVIOUS
  <2>1. CASE t = {}
      BY <2>1, RoundOfEmpty
  <2>2. CASE t # {}
    <3>1. PICK x \in t : \A e : Round(f, e, t) = f[x] + e[t \ {x}]
        BY <2>2, RoundOfOthers
    <3>2. t \ {x} \in SUBSET s /\ t \ {x} # s
        OBVIOUS
    <3>3. whole[t \ {x}] = part[t \ {x}]
        BY <1>5, <3>2
    <3> QED
        BY <3>1, <3>3
  <2> QED
      BY <2>1, <2>2
<1>7. Good(s)
    BY <1>6
<1> QED
    BY <1>2, <1>7

\* A table has what the table of any part has.
LEMMA PartOfTable ==
    ASSUME NEW S, IsFiniteSet(S), NEW f, NEW R \in SUBSET S
    PROVE  Table(f, S)[R] = Table(f, R)[R]
<1> DEFINE g == Table(f, S)
           h == Table(f, R)
<1>1. IsFiniteSet(R)
    BY FS_Subset
<1>2. /\ g = [s \in SUBSET S |-> Round(f, g, s)]
      /\ h = [s \in SUBSET R |-> Round(f, h, s)]
    BY <1>1, TableDef
<1> HIDE DEF g, h
<1>3. \A s \in SUBSET R : g[s] = Round(f, g, s) /\ h[s] = Round(f, h, s)
  <2> TAKE s \in SUBSET R
  <2>1. s \in SUBSET S
      OBVIOUS
  <2> QED
      BY <1>2, <2>1
<1>4. \A s \in SUBSET R : g[s] = h[s]
    BY <1>1, <1>3, TablesAgree
<1> QED
    BY <1>4 DEF g, h

\* The sum of nothing; the sum of an element and the others; its type.
LEMMA SumEmpty == ASSUME NEW f PROVE SumFunctionOnSet(f, {}) = 0
<1>1. IsFiniteSet({})
    BY FS_EmptySet
<1> DEFINE g == Table(f, {})
<1>2. g = [s \in SUBSET {} |-> Round(f, g, s)]
    BY <1>1, TableDef
<1>3. SumFunctionOnSet(f, {}) = g[{}]
    BY SumIsInTable
<1> HIDE DEF g
<1>4. g[{}] = Round(f, g, {})
    BY <1>2
<1> QED
    BY <1>3, <1>4, RoundOfEmpty

LEMMA SumRound ==
    ASSUME NEW S, IsFiniteSet(S), S # {}, NEW f
    PROVE  Any(S) \in S /\ SumFunctionOnSet(f, S) = f[Any(S)] + SumFunctionOnSet(f, S \ {Any(S)})
<1> DEFINE x == Any(S)
<1>1. x \in S /\ \A g : Round(f, g, S) = f[x] + g[S \ {x}]
    BY RoundOfOthers
<1> HIDE DEF x
<1> DEFINE R == S \ {x}
           g == Table(f, S)
           h == Table(f, R)
<1>2. IsFiniteSet(R) /\ R \in SUBSET S
    BY FS_Subset
<1>3. /\ g = [s \in SUBSET S |-> Round(f, g, s)]
      /\ h = [s \in SUBSET R |-> Round(f, h, s)]
  <2> HIDE DEF R
  <2> QED
      BY <1>2, TableDef
<1>4. g[S] = f[x] + g[R]
  <2>1. g[S] = Round(f, g, S)
    <3> HIDE DEF g
    <3> QED
        BY <1>3
  <2> QED
      BY <1>1, <2>1
<1>5. g[R] = h[R]
  <2> HIDE DEF R
  <2> QED
      BY <1>2, PartOfTable
<1>6. SumFunctionOnSet(f, S) = g[S] /\ SumFunctionOnSet(f, R) = h[R]
    BY SumIsInTable
<1> QED
    BY <1>1, <1>4, <1>5, <1>6 DEF x

LEMMA SumInt ==
    ASSUME NEW S, IsFiniteSet(S), NEW f, \A x \in S : f[x] \in Int
    PROVE  SumFunctionOnSet(f, S) \in Int
<1> DEFINE T == {s \in SUBSET S : SumFunctionOnSet(f, s) \notin Int}
<1>1. SUFFICES ASSUME T # {} PROVE FALSE
    OBVIOUS
<1>2. PICK s \in T : \A t \in T : t \subseteq s => t = s
  <2>1. T \subseteq SUBSET S
      OBVIOUS
  <2> HIDE DEF T
  <2> QED
      BY <1>1, <2>1, SmallestSet
<1>3. s \in SUBSET S /\ s # {} /\ IsFiniteSet(s)
  <2>1. SumFunctionOnSet(f, {}) \in Int
      BY SumEmpty
  <2> QED
      BY <2>1, FS_Subset
<1>4. PICK x \in s : SumFunctionOnSet(f, s) = f[x] + SumFunctionOnSet(f, s \ {x})
    BY <1>3, SumRound
<1>5. SumFunctionOnSet(f, s \ {x}) \in Int
    BY <1>2, <1>3
<1> QED
    BY <1>3, <1>4, <1>5

\* Any element of S may be taken out first.
LEMMA SumTakes ==
    ASSUME NEW S, IsFiniteSet(S), NEW f, \A x \in S : f[x] \in Int
    PROVE  \A x \in S : SumFunctionOnSet(f, S) = f[x] + SumFunctionOnSet(f, S \ {x})
<1> DEFINE T == {s \in SUBSET S :
                    \E x \in s : SumFunctionOnSet(f, s) # f[x] + SumFunctionOnSet(f, s \ {x})}
<1>1. SUFFICES ASSUME T # {} PROVE FALSE
    OBVIOUS
<1>2. PICK s \in T : \A t \in T : t \subseteq s => t = s
  <2>1. T \subseteq SUBSET S
      OBVIOUS
  <2> HIDE DEF T
  <2> QED
      BY <1>1, <2>1, SmallestSet
<1>3. s \in SUBSET S /\ IsFiniteSet(s)
    BY FS_Subset
<1>4. PICK x \in s : SumFunctionOnSet(f, s) # f[x] + SumFunctionOnSet(f, s \ {x})
    OBVIOUS
<1>5. PICK y \in s : SumFunctionOnSet(f, s) = f[y] + SumFunctionOnSet(f, s \ {y})
    BY <1>3, SumRound
<1>6. x # y
    BY <1>4, <1>5
<1>7. /\ SumFunctionOnSet(f, s \ {x}) = f[y] + SumFunctionOnSet(f, (s \ {x}) \ {y})
      /\ SumFunctionOnSet(f, s \ {y}) = f[x] + SumFunctionOnSet(f, (s \ {y}) \ {x})
  <2>1. s \ {x} \notin T /\ s \ {y} \notin T
      BY <1>2
  <2>2. s \ {x} \in SUBSET S /\ s \ {y} \in SUBSET S /\ y \in s \ {x} /\ x \in s \ {y}
      BY <1>3, <1>6
  <2> QED
      BY <2>1, <2>2
<1>8. (s \ {x}) \ {y} = (s \ {y}) \ {x}
    OBVIOUS
<1> DEFINE rest == SumFunctionOnSet(f, (s \ {x}) \ {y})
<1>9. f[x] \in Int /\ f[y] \in Int /\ rest \in Int
  <2>1. (s \ {x}) \ {y} \in SUBSET S
      BY <1>3
  <2>2. IsFiniteSet((s \ {x}) \ {y}) /\ \A z \in (s \ {x}) \ {y} : f[z] \in Int
      BY <2>1, FS_Subset
  <2> QED
      BY <1>3, <2>2, SumInt
<1>10. SumFunctionOnSet(f, s) = f[y] + (f[x] + rest) /\ SumFunctionOnSet(f, s \ {x}) = f[y] + rest
    BY <1>5, <1>7, <1>8
<1> HIDE DEF rest
<1> QED
    BY <1>4, <1>9, <1>10

\* A sum depends on the values in its set only.
LEMMA SumSame ==
    ASSUME NEW S, IsFiniteSet(S), NEW f, NEW g, \A x \in S : f[x] = g[x]
    PROVE  SumFunctionOnSet(f, S) = SumFunctionOnSet(g, S)
<1> DEFINE T == {s \in SUBSET S : SumFunctionOnSet(f, s) # SumFunctionOnSet(g, s)}
<1>1. SUFFICES ASSUME T # {} PROVE FALSE
    OBVIOUS
<1>2. PICK s \in T : \A t \in T : t \subseteq s => t = s
  <2>1. T \subseteq SUBSET S
      OBVIOUS
  <2> HIDE DEF T
  <2> QED
      BY <1>1, <2>1, SmallestSet
<1>3. s \in SUBSET S /\ s # {} /\ IsFiniteSet(s)
  <2>1. SumFunctionOnSet(f, {}) = 0 /\ SumFunctionOnSet(g, {}) = 0
      BY SumEmpty
  <2> QED
      BY <2>1, FS_Subset
<1> DEFINE x == Any(s)
<1>4. /\ x \in s
      /\ SumFunctionOnSet(f, s) = f[x] + SumFunctionOnSet(f, s \ {x})
      /\ SumFunctionOnSet(g, s) = g[x] + SumFunctionOnSet(g, s \ {x})
    BY <1>3, SumRound
<1> HIDE DEF x
<1>5. s \ {x} \notin T /\ s \ {x} \in SUBSET S
    BY <1>2, <1>3, <1>4
<1> QED
    BY <1>3, <1>4, <1>5

LEMMA SumNat ==
    ASSUME NEW S, IsFiniteSet(S), NEW f, \A x \in S : f[x] \in Nat
    PROVE  SumFunctionOnSet(f, S) \in Nat
<1> DEFINE T == {s \in SUBSET S : SumFunctionOnSet(f, s) \notin Nat}
<1>1. SUFFICES ASSUME T # {} PROVE FALSE
    OBVIOUS
<1>2. PICK s \in T : \A t \in T : t \subseteq s => t = s
  <2>1. T \subseteq SUBSET S
      OBVIOUS
  <2> HIDE DEF T
  <2> QED
      BY <1>1, <2>1, SmallestSet
<1>3. s \in SUBSET S /\ s # {} /\ IsFiniteSet(s)
  <2>1. SumFunctionOnSet(f, {}) \in Nat
      BY SumEmpty
  <2> QED
      BY <2>1, FS_Subset
<1>4. PICK x \in s : SumFunctionOnSet(f, s) = f[x] + SumFunctionOnSet(f, s \ {x})
    BY <1>3, SumRound
<1>5. SumFunctionOnSet(f, s \ {x}) \in Nat
    BY <1>2, <1>3
<1> QED
    BY <1>3, <1>4, <1>5

LEMMA SumZero ==
    ASSUME NEW S, IsFiniteSet(S), NEW f, \A x \in S : f[x] = 0
    PROVE  SumFunctionOnSet(f, S) = 0
<1> DEFINE T == {s \in SUBSET S : SumFunctionOnSet(f, s) # 0}
<1>1. SUFFICES ASSUME T # {} PROVE FALSE
    OBVIOUS
<1>2. PICK s \in T : \A t \in T : t \subseteq s => t = s
  <2>1. T \subseteq SUBSET S
      OBVIOUS
  <2> HIDE DEF T
  <2> QED
      BY <1>1, <2>1, SmallestSet
<1>3. s \in SUBSET S /\ s # {} /\ IsFiniteSet(s)
  <2>1. SumFunctionOnSet(f, {}) = 0
      BY SumEmpty
  <2> QED
      BY <2>1, FS_Subset
<1>4. PICK x \in s : SumFunctionOnSet(f, s) = f[x] + SumFunctionOnSet(f, s \ {x})
    BY <1>3, SumRound
<1>5. SumFunctionOnSet(f, s \ {x}) = 0
    BY <1>2, <1>3
<1> QED
    BY <1>2, <1>3, <1>4, <1>5

\* The sum over two disjoint sets.
LEMMA SumJoin ==
    ASSUME NEW S, IsFiniteSet(S), NEW f, \A x \in S : f[x] \in Int, NEW B \in SUBSET S
    PROVE  SumFunctionOnSet(f, S) = SumFunctionOnSet(f, B) + SumFunctionOnSet(f, S \ B)
<1> DEFINE Splits(s) ==
              SumFunctionOnSet(f, s) = SumFunctionOnSet(f, s \cap B) + SumFunctionOnSet(f, s \ B)
           T == {s \in SUBSET S : ~Splits(s)}
<1>1. SUFFICES ASSUME T # {} PROVE FALSE
  <2>1. S \notin T
      BY <1>1
  <2>2. S \cap B = B
      OBVIOUS
  <2> QED
      BY <2>1, <2>2
<1>2. PICK s \in T : \A t \in T : t \subseteq s => t = s
  <2>1. T \subseteq SUBSET S
      OBVIOUS
  <2> HIDE DEF T
  <2> QED
      BY <1>1, <2>1, SmallestSet
<1>3. s \in SUBSET S /\ s # {}
  <2>1. SumFunctionOnSet(f, {}) = 0 /\ {} \cap B = {} /\ {} \ B = {}
      BY SumEmpty
  <2>2. Splits({})
      BY <2>1
  <2> HIDE DEF T
  <2>3. T = {t \in SUBSET S : ~Splits(t)}
      BY DEF T
  <2> QED
      BY <1>2, <2>2, <2>3
<1>4. \A t \in SUBSET S : IsFiniteSet(t) /\ SumFunctionOnSet(f, t) \in Int
  <2> TAKE t \in SUBSET S
  <2>1. IsFiniteSet(t) /\ \A x \in t : f[x] \in Int
      BY FS_Subset
  <2> QED
      BY <2>1, SumInt
<1>5. \A t \in SUBSET S : \A x \in t : SumFunctionOnSet(f, t) = f[x] + SumFunctionOnSet(f, t \ {x})
  <2> TAKE t \in SUBSET S
  <2>1. IsFiniteSet(t) /\ \A x \in t : f[x] \in Int
      BY <1>4
  <2> QED
      BY <2>1, SumTakes
<1>6. PICK x \in s : TRUE
    BY <1>3
<1> DEFINE r == s \ {x}
<1>7. Splits(r)
    BY <1>2, <1>3
<1>8. s \cap B \in SUBSET S /\ s \ B \in SUBSET S /\ r \cap B \in SUBSET S /\ r \ B \in SUBSET S
    BY <1>3
<1>9. /\ f[x] \in Int /\ SumFunctionOnSet(f, r \cap B) \in Int /\ SumFunctionOnSet(f, r \ B) \in Int
      /\ SumFunctionOnSet(f, s) =
            f[x] + (SumFunctionOnSet(f, r \cap B) + SumFunctionOnSet(f, r \ B))
    BY <1>3, <1>4, <1>5, <1>7, <1>8
<1>10. ~Splits(s)
    OBVIOUS
<1>11. CASE x \in B
  <2>1. (s \cap B) \ {x} = r \cap B /\ s \ B = r \ B /\ x \in s \cap B
      BY <1>11
  <2>2. SumFunctionOnSet(f, s \cap B) = f[x] + SumFunctionOnSet(f, r \cap B)
    <3>1. SumFunctionOnSet(f, s \cap B) = f[x] + SumFunctionOnSet(f, (s \cap B) \ {x})
        BY <1>5, <1>8, <2>1
    <3> QED
        BY <2>1, <3>1
  <2>3. SumFunctionOnSet(f, s \ B) = SumFunctionOnSet(f, r \ B)
      BY <2>1
  <2> HIDE <2>1
  <2>4. Splits(s)
      BY <1>9, <2>2, <2>3
  <2> QED
      BY <1>10, <2>4
<1>12. CASE x \notin B
  <2>1. (s \ B) \ {x} = r \ B /\ s \cap B = r \cap B /\ x \in s \ B
      BY <1>12
  <2>2. SumFunctionOnSet(f, s \ B) = f[x] + SumFunctionOnSet(f, r \ B)
    <3>1. SumFunctionOnSet(f, s \ B) = f[x] + SumFunctionOnSet(f, (s \ B) \ {x})
        BY <1>5, <1>8, <2>1
    <3> QED
        BY <2>1, <3>1
  <2>3. SumFunctionOnSet(f, s \cap B) = SumFunctionOnSet(f, r \cap B)
      BY <2>1
  <2> HIDE <2>1
  <2>4. Splits(s)
      BY <1>9, <2>2, <2>3
  <2> QED
      BY <1>10, <2>4
<1> QED
    BY <1>11, <1>12

\* A part of a sum of natural numbers.
LEMMA SumPart ==
    ASSUME NEW S, IsFiniteSet(S), NEW f, \A x \in S : f[x] \in Nat, NEW B \in SUBSET S
    PROVE  SumFunctionOnSet(f, B) <= SumFunctionOnSet(f, S)
<1>1. SumFunctionOnSet(f, S) = SumFunctionOnSet(f, B) + SumFunctionOnSet(f, S \ B)
    BY SumJoin
<1>2. SumFunctionOnSet(f, B) \in Nat /\ SumFunctionOnSet(f, S \ B) \in Nat
  <2>1. IsFiniteSet(B) /\ IsFiniteSet(S \ B)
      BY FS_Subset
  <2>2. (\A x \in B : f[x] \in Nat) /\ (\A x \in S \ B : f[x] \in Nat)
      OBVIOUS
  <2> HIDE <1>1
  <2>3. SumFunctionOnSet(f, B) \in Nat
      BY <2>1, <2>2, SumNat
  <2>4. SumFunctionOnSet(f, S \ B) \in Nat
      BY <2>1, <2>2, SumNat
  <2> QED
      BY <2>3, <2>4
<1> QED
    BY <1>1, <1>2

\* The sum of a single element.
LEMMA SumOne ==
    ASSUME NEW x, NEW f, f[x] \in Int
    PROVE  SumFunctionOnSet(f, {x}) = f[x]
<1>1. SumFunctionOnSet(f, {x}) = f[x] + SumFunctionOnSet(f, {x} \ {x})
  <2>1. IsFiniteSet({x}) /\ \A y \in {x} : f[y] \in Int
      BY FS_Singleton
  <2> QED
      BY <2>1, SumTakes
<1>2. {x} \ {x} = {}
    OBVIOUS
<1> QED
    BY <1>1, <1>2, SumEmpty

\* One value changes.
LEMMA SumMoves ==
    ASSUME NEW S, IsFiniteSet(S), NEW o \in S, NEW f, NEW g,
           \A x \in S : f[x] \in Int /\ g[x] \in Int,
           \A x \in S : x # o => f[x] = g[x]
    PROVE  SumFunctionOnSet(g, S) = SumFunctionOnSet(f, S) - f[o] + g[o]
<1> DEFINE R == S \ {o}
<1>1. IsFiniteSet(R) /\ R \in SUBSET S
    BY FS_Subset
<1>2. /\ SumFunctionOnSet(f, S) = f[o] + SumFunctionOnSet(f, R)
      /\ SumFunctionOnSet(g, S) = g[o] + SumFunctionOnSet(g, R)
    BY SumTakes
<1>3. SumFunctionOnSet(f, R) = SumFunctionOnSet(g, R)
  <2>1. \A x \in R : f[x] = g[x]
      OBVIOUS
  <2> HIDE DEF R
  <2> QED
      BY <1>1, <2>1, SumSame
<1>4. SumFunctionOnSet(f, R) \in Int
  <2>1. \A x \in R : f[x] \in Int
      OBVIOUS
  <2> HIDE DEF R
  <2> QED
      BY <1>1, <2>1, SumInt
<1> HIDE DEF R
<1> QED
    BY <1>2, <1>3, <1>4

-----------------------------------------------------------------------------
(* Orders and batches.                                                     *)

USE PickAssumption DEF PickAssumption

\* What an anchored release may serve is open, in no batch, and its own.
Anchored ==
    /\ \A r \in Releases : release[r].step = "anchored" =>
          /\ release[r].winners \subseteq release[r].chosen
          /\ \A o \in release[r].winners : status[o] = "open" /\ member[o] = NoBatch
    /\ \A q, r \in Releases :
          q # r /\ release[q].step = "anchored" /\ release[r].step = "anchored"
             => release[q].chosen \cap release[r].chosen = {}

\* A member is in a batch that exists, its allocation and its scan are of that batch,
\* and nothing happens to it before the batch is claimed.
Fresh ==
    \A o \in Orders : member[o] # NoBatch =>
        /\ batch[member[o]] # "none"
        /\ alloc[o] \in {member[o], NoBatch}
        /\ Scanned(o) => scan[o].batch = member[o]
        /\ batch[member[o]] = "pending" => ~Scanned(o) /\ exception[o] = NoBatch

\* An allocation that was not scanned stands for all units of a line that was not
\* cancelled.  (It may be shipped: a fulfilment from before the opening balance.)
Whole ==
    \A o \in Orders :
        /\ alloc[o] # NoBatch /\ ~Scanned(o) => removed[o] = 0 /\ line[o] # "cancelled"
        /\ status[o] = "open" => removed[o] = 0

\* Units are missing because an exception of the batch that owns them says so.
Excuses ==
    \A o \in Orders : excused[o] > 0 =>
        exception[o] # NoBatch /\ (alloc[o] # NoBatch => exception[o] = alloc[o])

Accounted(b) == \A o \in Owned(b) : scan[o].units + excused[o] = Qty[o]

\* What an operator has read of a batch still holds when it is used.
Informed ==
    \A u \in Operators : seen[u].act # "none" =>
        /\ seen[u].batch \in Batches /\ batch[seen[u].batch] # "none"
        /\ seen[u].act = "complete" => Accounted(seen[u].batch)

Inv ==
    /\ Rows /\ Anchored /\ Fresh /\ Whole /\ Excuses
    /\ PoolHoldsNothing /\ CancelledHoldsNothing
    /\ Informed /\ CompleteIsAccounted

LEMMA InitInv == Init => Inv
  BY DEF Init, Inv, Rows, Anchored, Fresh, Whole, Excuses, PoolHoldsNothing, CancelledHoldsNothing,
     Informed, CompleteIsAccounted, Accounted, Owned, Scanned, NoScan, NoRelease, NothingSeen, NotAsked,
     Statuses, LineStatuses, BatchStatuses, TerminalLines

\* Half of the steps only look at the rows of orders and batches.
Still ==
    UNCHANGED <<status, member, line, alloc, scan, exception, excused, removed, batch, released>>

Looks ==
    \/ Stow
    \/ \E r \in Releases : Choose(r) \/ Anchor(r) \/ ReleaseNothing(r) \/ ReserveConflict(r)
    \/ \E b \in Batches : AskCancel(b) \/ RefuseCancel(b)
    \/ \E u \in Operators, b \in Batches : ReadForClaim(u, b) \/ ReadForComplete(u, b)
    \/ \E o \in Orders : Reevaluate(o) \/ Quarantine(o)

\* The two kinds of pick exception.
Report(o, found) == ReportShort(o, found) \/ ReportMissing(o, found)

\* A fulfilment of what has left already does what one from before the opening
\* balance does.
LEMMA AlreadyShips == \A o \in Orders : FulfilledAlready(o) => FulfilledBeforeOpening(o)
  BY DEF FulfilledAlready, FulfilledBeforeOpening

LEMMA LooksAreStill == Looks => Still
  BY DEF Looks, Still, Stow, Choose, Anchor, ReleaseNothing, ReserveConflict, AskCancel,
       RefuseCancel,
     ReadForClaim, ReadForComplete, Reevaluate, Quarantine, stockVars, orderVars, workVars,
     pickVars, batchVars

\* A reported exception takes no scan back.
LEMMA ScansStay ==
    ASSUME Rows, NEW o \in Orders, NEW found \in 0 .. Qty[o], Report(o, found)
    PROVE  \A p \in Orders : Scanned(p) => Scanned(p)'
<1>1. CASE ReportMissing(o, found)
    BY <1>1 DEF ReportMissing, Scanned
<1>2. CASE ReportShort(o, found)
    BY <1>2 DEF ReportShort, RecordScan, Scanned, Rows
<1> QED
    BY <1>1, <1>2 DEF Report

\* What a report writes besides the numbers.
LEMMA ReportWrites ==
    ASSUME Rows, Fresh, NEW o \in Orders, NEW found \in 0 .. Qty[o], Report(o, found)
    PROVE  /\ MayReport(o) /\ member[o] \in Batches
           /\ exception' = [exception EXCEPT ![o] = member[o]]
           /\ UNCHANGED <<received, orderVars, workVars, removed, problem, credited, batchVars,
                          openVars>>
           /\ \A p \in Orders : p # o => excused'[p] = excused[p] /\ scan'[p] = scan[p]
           /\ alloc[o] = member[o] =>
                 /\ ~Scanned(o) /\ excused' = [excused EXCEPT ![o] = Qty[o] - found]
                 /\ scan' = scan \/ scan' = [scan EXCEPT ![o] = [batch |-> member[o], units |-> found]]
           /\ alloc[o] # member[o] => alloc[o] = NoBatch /\ UNCHANGED <<excused, scan>>
<1>0. member[o] # NoBatch => alloc[o] \in {member[o], NoBatch}
    BY DEF Fresh
<1>1. CASE ReportShort(o, found)
    BY <1>0, <1>1 DEF ReportShort, MayReport, RecordScan, Rows
<1>2. CASE ReportMissing(o, found)
    BY <1>0, <1>2 DEF ReportMissing, MayReport, stockVars, Rows
<1> QED
    BY <1>1, <1>2 DEF Report

\* What is written when a release locks its orders: its own record, with winners
\* that were still in the pool.
LEMMA AnchorWrites ==
    ASSUME Rows, NEW r \in Releases, Anchor(r)
    PROVE  /\ release' = [release EXCEPT ![r] = release'[r]]
           /\ release'[r] \in [step : {"idle", "chosen", "anchored"}, chosen : SUBSET Orders,
                               winners : SUBSET Orders, losers : SUBSET Orders]
           /\ release'[r].step # "idle" =>
                 /\ release'[r].chosen = release[r].chosen
                 /\ release'[r].winners \subseteq release[r].chosen
                 /\ \A o \in release'[r].winners : Eligible(o)
                 /\ \A o \in release[r].chosen : Unlocked(o)
           /\ UNCHANGED <<stockVars, orderVars, workVars, pickVars, batchVars, seen, asked>>
<1> DEFINE kept == StillEligible(r)
<1>1. /\ release[r] \in [step : {"idle", "chosen", "anchored"}, chosen : SUBSET Orders,
                         winners : SUBSET Orders, losers : SUBSET Orders]
      /\ DOMAIN release = Releases
    BY DEF Rows
<1>2. kept \subseteq release[r].chosen /\ \A o \in kept : Eligible(o)
    BY DEF StillEligible
<1>3. /\ UNCHANGED <<stockVars, orderVars, workVars, pickVars, batchVars, seen, asked>>
      /\ \A o \in release[r].chosen : Unlocked(o)
    BY DEF Anchor
<1>4. ASSUME release' = [release EXCEPT ![r] = NoRelease]
      PROVE  /\ release' = [release EXCEPT ![r] = release'[r]]
             /\ release'[r] = [step |-> "idle", chosen |-> {}, winners |-> {}, losers |-> {}]
    BY <1>1, <1>3, <1>4 DEF NoRelease
<1>5. ASSUME NEW winners \in SUBSET kept,
             release' = [release EXCEPT ![r].step = "anchored", ![r].winners = winners,
                                        ![r].losers = kept \ winners]
      PROVE  /\ release' = [release EXCEPT ![r] = release'[r]]
             /\ release'[r] = [step |-> "anchored", chosen |-> release[r].chosen,
                               winners |-> winners, losers |-> kept \ winners]
    BY <1>1, <1>5
<1>6. ASSUME NEW winners \in SUBSET kept,
             release' = [release EXCEPT ![r].step = "anchored", ![r].winners = winners,
                                        ![r].losers = kept \ winners]
      PROVE  /\ release'[r] \in [step : {"idle", "chosen", "anchored"}, chosen : SUBSET Orders,
                                 winners : SUBSET Orders, losers : SUBSET Orders]
             /\ release'[r].chosen = release[r].chosen
             /\ release'[r].winners \subseteq release[r].chosen
             /\ \A o \in release'[r].winners : Eligible(o)
    BY <1>1, <1>2, <1>5, <1>6
<1>7. (release' = [release EXCEPT ![r] = NoRelease])
         \/ (\E winners \in SUBSET kept :
                release' = [release EXCEPT ![r].step = "anchored", ![r].winners = winners,
                                           ![r].losers = kept \ winners])
    BY DEF Anchor, GreedyFits
<1> HIDE DEF kept
<1> QED
  <2>1. CASE release' = [release EXCEPT ![r] = NoRelease]
      BY <1>3, <1>4, <2>1
  <2>2. CASE \E winners \in SUBSET kept :
                release' = [release EXCEPT ![r].step = "anchored", ![r].winners = winners,
                                           ![r].losers = kept \ winners]
    <3>1. PICK winners \in SUBSET kept :
             release' = [release EXCEPT ![r].step = "anchored", ![r].winners = winners,
                                        ![r].losers = kept \ winners]
        BY <2>2
    <3>2. release' = [release EXCEPT ![r] = release'[r]]
        BY <1>5, <3>1
    <3> QED
        BY <1>3, <1>6, <3>1, <3>2
  <2> QED
      BY <1>7, <2>1, <2>2

LEMMA RowsStep == Inv /\ Next => Rows'
<1> SUFFICES ASSUME Inv, Next
             PROVE  Rows'
    OBVIOUS
<1>0. Rows
    BY DEF Inv
<1>1. ASSUME Stow
     PROVE  Rows'
    BY <1>1, <1>0 DEF Stow, stockVars, orderVars, workVars, pickVars, batchVars, Rows,
       Statuses, LineStatuses, BatchStatuses, TerminalLines, openVars
<1>2. ASSUME NEW r \in Releases, Choose(r)
     PROVE  Rows'
  <2>1. PICK chosen \in SUBSET Orders :
           release' = [release EXCEPT ![r] =
                          [NoRelease EXCEPT !.step = "chosen", !.chosen = chosen]]
      BY <1>2 DEF Choose
  <2>2. [NoRelease EXCEPT !.step = "chosen", !.chosen = chosen]
           \in [step : {"idle", "chosen", "anchored"}, chosen : SUBSET Orders,
                winners : SUBSET Orders, losers : SUBSET Orders]
      BY DEF NoRelease
  <2> QED
      BY <1>2, <1>0, <2>1, <2>2
         DEF Choose, stockVars, orderVars, workVars, pickVars, batchVars, Rows
<1>3. ASSUME NEW r \in Releases, Anchor(r)
     PROVE  Rows'
    BY <1>3, <1>0, AnchorWrites
       DEF stockVars, orderVars, workVars, pickVars, batchVars, Rows
<1>4. ASSUME NEW r \in Releases, ReleaseNothing(r)
     PROVE  Rows'
    BY <1>4, <1>0 DEF ReleaseNothing, BlockLosers, NoRelease, stockVars, orderVars,
       workVars, pickVars, batchVars, Rows, Statuses, LineStatuses, BatchStatuses,
       TerminalLines, openVars
<1>5. ASSUME NEW r \in Releases, Reserve(r)
     PROVE  Rows'
    BY <1>5, <1>0 DEF Reserve, BlockLosers, KeepLedger, NoRelease, stockVars, orderVars,
       workVars, pickVars, batchVars, Rows, Statuses, LineStatuses, BatchStatuses,
       TerminalLines, openVars
<1>6. ASSUME NEW r \in Releases, ReserveConflict(r)
     PROVE  Rows'
    BY <1>6, <1>0 DEF ReserveConflict, NoRelease, stockVars, orderVars, workVars, pickVars,
       batchVars, Rows, Statuses, LineStatuses, BatchStatuses, TerminalLines, openVars
<1>7. ASSUME NEW b \in Batches, AskCancel(b)
     PROVE  Rows'
    BY <1>7, <1>0 DEF AskCancel, Members, Owned, stockVars, orderVars, workVars, pickVars,
       batchVars, Rows, Statuses, LineStatuses, BatchStatuses, TerminalLines, openVars
<1>8. ASSUME NEW b \in Batches, CancelBatch(b)
     PROVE  Rows'
    BY <1>8, <1>0 DEF CancelBatch, Cancellable, OwnershipProven, Members, Owned, KeepLedger,
       NotAsked, stockVars, orderVars, workVars, pickVars, batchVars, Rows, Statuses,
       LineStatuses, BatchStatuses, TerminalLines, openVars
<1>9. ASSUME NEW b \in Batches, RefuseCancel(b)
     PROVE  Rows'
    BY <1>9, <1>0 DEF RefuseCancel, NotAsked, stockVars, orderVars, workVars, pickVars,
       batchVars, Rows, Statuses, LineStatuses, BatchStatuses, TerminalLines, openVars
<1>10. ASSUME NEW u \in Operators, NEW b \in Batches, ReadForClaim(u, b)
     PROVE  Rows'
    BY <1>10, <1>0 DEF ReadForClaim, stockVars, orderVars, workVars, pickVars, batchVars,
       Rows, Statuses, LineStatuses, BatchStatuses, TerminalLines, openVars
<1>11. ASSUME NEW u \in Operators, NEW b \in Batches, ReadForComplete(u, b)
     PROVE  Rows'
    BY <1>11, <1>0 DEF ReadForComplete, PickAccounted, Owned, stockVars, orderVars,
       workVars, pickVars, batchVars, Rows, Statuses, LineStatuses, BatchStatuses,
       TerminalLines, openVars
<1>12. ASSUME NEW u \in Operators, Claim(u)
     PROVE  Rows'
    BY <1>12, <1>0 DEF Claim, NothingSeen, stockVars, orderVars, workVars, pickVars,
       batchVars, Rows, Statuses, LineStatuses, BatchStatuses, TerminalLines, openVars
<1>13. ASSUME NEW u \in Operators, CompletePick(u)
     PROVE  Rows'
    BY <1>13, <1>0 DEF CompletePick, NothingSeen, stockVars, orderVars, workVars, pickVars,
       batchVars, Rows, Statuses, LineStatuses, BatchStatuses, TerminalLines, openVars
<1>14. ASSUME NEW u \in Operators, NEW o \in Orders, ScanAllocation(u, o)
     PROVE  Rows'
    BY <1>14, <1>0 DEF ScanAllocation, MayScan, RecordScan, Unlocked, Scanned, stockVars,
       orderVars, workVars, pickVars, batchVars, Rows, Statuses, LineStatuses,
       BatchStatuses, TerminalLines, openVars
<1>15. ASSUME NEW u \in Operators, NEW o \in Orders, ScanLine(u, o)
     PROVE  Rows'
    BY <1>15, <1>0 DEF ScanLine, MayScan, RecordScan, Unlocked, stockVars, orderVars,
       workVars, pickVars, batchVars, Rows, Statuses, LineStatuses, BatchStatuses,
       TerminalLines, openVars
<1>16. ASSUME NEW o \in Orders, NEW found \in 0 .. Qty[o], Report(o, found)
     PROVE  Rows'
  <2>1. found \in Nat /\ Qty[o] - found \in Nat /\ member[o] \in Batches \cup {NoBatch}
      BY <1>0 DEF Rows
  <2>2. exception' = [exception EXCEPT ![o] = member[o]]
      BY <1>16 DEF Report, ReportShort, ReportMissing
  <2>3. scan' = scan \/ scan' = [scan EXCEPT ![o] = [batch |-> member[o], units |-> found]]
      BY <1>16 DEF Report, ReportShort, ReportMissing, RecordScan
  <2>4. excused' = excused \/ excused' = [excused EXCEPT ![o] = Qty[o] - found]
      BY <1>16 DEF Report, ReportShort, ReportMissing
  <2>5. UNCHANGED <<received, orderVars, workVars, removed, problem, credited, batchVars, openVars>>
      BY <1>16 DEF Report, ReportShort, ReportMissing, stockVars
  <2>6. /\ excused' \in [Orders -> Nat]
        /\ scan' \in [Orders -> [batch : Batches \cup {NoBatch}, units : Nat]]
    <3>1. excused' \in [Orders -> Nat]
        BY <1>0, <2>1, <2>4 DEF Rows
    <3> DEFINE row == [batch |-> member[o], units |-> found]
    <3>2. row \in [batch : Batches \cup {NoBatch}, units : Nat]
        BY <2>1
    <3>3. scan' = scan \/ scan' = [scan EXCEPT ![o] = row]
        BY <2>3
    <3> HIDE DEF row
    <3>4. scan \in [Orders -> [batch : Batches \cup {NoBatch}, units : Nat]]
        BY <1>0 DEF Rows
    <3>5. scan' \in [Orders -> [batch : Batches \cup {NoBatch}, units : Nat]]
        BY <3>2, <3>3, <3>4
    <3> QED
        BY <3>1, <3>5
  <2>7. exception' \in [Orders -> Batches \cup {NoBatch}]
      BY <1>0, <2>1, <2>2 DEF Rows
  <2> QED
      BY <1>0, <2>5, <2>6, <2>7 DEF orderVars, workVars, batchVars, openVars, Rows
<1>17. ASSUME NEW o \in Orders, Reevaluate(o)
     PROVE  Rows'
    BY <1>17, <1>0 DEF Reevaluate, stockVars, orderVars, workVars, pickVars, batchVars,
       Rows, Statuses, LineStatuses, BatchStatuses, TerminalLines, openVars
<1>18. ASSUME NEW o \in Orders, OrderCancelled(o)
     PROVE  Rows'
    BY <1>18, <1>0 DEF OrderCancelled, Unlocked, Returnable, Referenced, LineUnwound,
       Members, KeepLedger, Scanned, stockVars, orderVars, workVars, pickVars, batchVars,
       Rows, Statuses, LineStatuses, BatchStatuses, TerminalLines, openVars
<1>19. ASSUME NEW o \in Orders, Quarantine(o)
     PROVE  Rows'
    BY <1>19, <1>0 DEF Quarantine, stockVars, orderVars, workVars, pickVars, batchVars,
       Rows, Statuses, LineStatuses, BatchStatuses, TerminalLines, openVars
<1>20. ASSUME NEW o \in Orders, FulfilledFromAllocation(o)
     PROVE  Rows'
    BY <1>20, <1>0 DEF FulfilledFromAllocation, MarkFulfilled, Unlocked, Outstanding,
       Scanned, Referenced, stockVars, orderVars, workVars, pickVars, batchVars, Rows,
       Statuses, LineStatuses, BatchStatuses, TerminalLines, openVars
<1>21. ASSUME NEW o \in Orders, FulfilledFromStock(o)
     PROVE  Rows'
  <2>1. /\ Outstanding(o) > 0 /\ Outstanding(o) = Qty[o] - scan[o].units - removed[o]
        /\ scan[o].units \in Nat /\ removed[o] \in Nat /\ Qty[o] \in Nat
      BY <1>21, <1>0 DEF FulfilledFromStock, Outstanding, Rows
  <2>2. removed[o] + Outstanding(o) \in Nat /\ removed[o] + Outstanding(o) <= Qty[o]
      BY <2>1
  <2>3. (removed' = removed) \/ (removed' = [removed EXCEPT ![o] = removed[o] + Outstanding(o)])
      BY <1>21 DEF FulfilledFromStock
  <2>4. removed' \in [Orders -> Nat] /\ \A p \in Orders : removed'[p] <= Qty[p]
    <3>1. removed \in [Orders -> Nat] /\ \A p \in Orders : removed[p] <= Qty[p]
        BY <1>0 DEF Rows
    <3>2. ASSUME NEW out \in Nat, out <= Qty[o], removed' = [removed EXCEPT ![o] = out]
          PROVE  removed' \in [Orders -> Nat] /\ \A p \in Orders : removed'[p] <= Qty[p]
        BY <3>1, <3>2
    <3> QED
        BY <2>2, <2>3, <3>1, <3>2
  <2>5. line' \in [Orders -> LineStatuses] /\ status' \in [Orders -> Statuses]
    <3>1. line' = line \/ line' = [line EXCEPT ![o] = "shipped"]
        BY <1>21 DEF FulfilledFromStock
    <3>2. status' = [status EXCEPT ![o] = IF @ = "cancelled" THEN @ ELSE "fulfilled"]
        BY <1>21 DEF FulfilledFromStock, MarkFulfilled
    <3> QED
        BY <1>0, <3>1, <3>2 DEF Rows, LineStatuses, Statuses
  <2> QED
      BY <1>21, <1>0, <2>4, <2>5
         DEF FulfilledFromStock, batchVars, openVars, Rows
<1>22. ASSUME NEW o \in Orders, FulfilledBeforeOpening(o)
     PROVE  Rows'
    BY <1>22, <1>0 DEF FulfilledBeforeOpening, MarkFulfilled, Unlocked, Outstanding, stockVars,
       orderVars, workVars, pickVars, batchVars, Rows, Statuses, LineStatuses,
       BatchStatuses, TerminalLines, openVars
<1> QED
    BY <1>1, <1>2, <1>3, <1>4, <1>5, <1>6, <1>7, <1>8, <1>9, <1>10, <1>11, <1>12, <1>13,
       <1>14, <1>15, <1>16, <1>17, <1>18, <1>19, <1>20, <1>21, <1>22, AlreadyShips
       DEF Next, Report

LEMMA FreshStep == Inv /\ Next => Fresh'
<1> SUFFICES ASSUME Inv, Next
             PROVE  Fresh'
    OBVIOUS
<1>0. Rows /\ Anchored /\ Fresh /\ PoolHoldsNothing
    BY DEF Inv
<1>1. CASE Looks
    BY <1>0, <1>1, LooksAreStill DEF Still, Fresh, Scanned
<1>2. ASSUME NEW r \in Releases, Reserve(r)
     PROVE  Fresh'
    BY <1>2, <1>0 DEF Reserve, BlockLosers, KeepLedger, NoRelease, stockVars, orderVars,
       workVars, pickVars, batchVars, Rows, Anchored, Fresh, PoolHoldsNothing, Scanned
<1>3. ASSUME NEW b \in Batches, CancelBatch(b)
     PROVE  Fresh'
    BY <1>3, <1>0 DEF CancelBatch, Cancellable, OwnershipProven, Members, Owned, KeepLedger,
       NotAsked, stockVars, orderVars, workVars, pickVars, batchVars, Rows, Anchored, Fresh,
       PoolHoldsNothing, Scanned
<1>4. ASSUME NEW u \in Operators, Claim(u)
     PROVE  Fresh'
    BY <1>4, <1>0 DEF Claim, NothingSeen, stockVars, orderVars, workVars, pickVars,
       batchVars, Rows, Anchored, Fresh, PoolHoldsNothing, Scanned
<1>5. ASSUME NEW u \in Operators, CompletePick(u)
     PROVE  Fresh'
    BY <1>5, <1>0 DEF CompletePick, NothingSeen, stockVars, orderVars, workVars, pickVars,
       batchVars, Rows, Anchored, Fresh, PoolHoldsNothing, Scanned
<1>6. ASSUME NEW u \in Operators, NEW o \in Orders, ScanAllocation(u, o)
     PROVE  Fresh'
    BY <1>6, <1>0 DEF ScanAllocation, MayScan, RecordScan, Unlocked, Scanned, stockVars,
       orderVars, workVars, pickVars, batchVars, Rows, Anchored, Fresh, PoolHoldsNothing
<1>7. ASSUME NEW u \in Operators, NEW o \in Orders, ScanLine(u, o)
     PROVE  Fresh'
    BY <1>7, <1>0 DEF ScanLine, MayScan, RecordScan, Unlocked, stockVars, orderVars,
       workVars, pickVars, batchVars, Rows, Anchored, Fresh, PoolHoldsNothing, Scanned
<1>8. ASSUME NEW o \in Orders, NEW found \in 0 .. Qty[o], Report(o, found)
     PROVE  Fresh'
    BY <1>8, <1>0 DEF Report, ReportShort, ReportMissing, MayReport, RecordScan, Unlocked,
         Scanned, stockVars, orderVars, workVars,
       pickVars, batchVars, Rows, Anchored, Fresh, PoolHoldsNothing
<1>9. ASSUME NEW o \in Orders, OrderCancelled(o)
     PROVE  Fresh'
    BY <1>9, <1>0 DEF OrderCancelled, Unlocked, Returnable, Referenced, LineUnwound,
       Members, KeepLedger, Scanned, stockVars, orderVars, workVars, pickVars, batchVars,
       Rows, Anchored, Fresh, PoolHoldsNothing
<1>10. ASSUME NEW o \in Orders, FulfilledFromAllocation(o)
     PROVE  Fresh'
    BY <1>10, <1>0 DEF FulfilledFromAllocation, MarkFulfilled, Unlocked, Outstanding,
       Scanned, Referenced, stockVars, orderVars, workVars, pickVars, batchVars, Rows,
       Anchored, Fresh, PoolHoldsNothing
<1>11. ASSUME NEW o \in Orders, FulfilledFromStock(o)
     PROVE  Fresh'
    BY <1>11, <1>0 DEF FulfilledFromStock, MarkFulfilled, Unlocked, Outstanding, Scanned,
       stockVars, orderVars, workVars, pickVars, batchVars, Rows, Anchored, Fresh,
       PoolHoldsNothing
<1>12. ASSUME NEW o \in Orders, FulfilledBeforeOpening(o)
     PROVE  Fresh'
    BY <1>12, <1>0 DEF FulfilledBeforeOpening, MarkFulfilled, Unlocked, Outstanding, stockVars,
       orderVars, workVars, pickVars, batchVars, Rows, Anchored, Fresh, PoolHoldsNothing,
       Scanned
<1> QED
    BY <1>1, <1>2, <1>3, <1>4, <1>5, <1>6, <1>7, <1>8, <1>9, <1>10, <1>11, <1>12, AlreadyShips
       DEF Next, Report, Looks

LEMMA WholeStep == Inv /\ Next => Whole'
<1> SUFFICES ASSUME Inv, Next
             PROVE  Whole'
    OBVIOUS
<1>0. Rows /\ Anchored /\ Whole /\ PoolHoldsNothing
    BY DEF Inv
<1>1. CASE Looks
    BY <1>0, <1>1, LooksAreStill DEF Still, Whole, Scanned
<1>2. ASSUME NEW r \in Releases, Reserve(r)
     PROVE  Whole'
    BY <1>2, <1>0 DEF Reserve, BlockLosers, KeepLedger, NoRelease, stockVars, orderVars,
       workVars, pickVars, batchVars, Rows, Anchored, Whole, PoolHoldsNothing, Scanned,
       Statuses, LineStatuses, BatchStatuses, TerminalLines
<1>3. ASSUME NEW b \in Batches, CancelBatch(b)
     PROVE  Whole'
    BY <1>3, <1>0 DEF CancelBatch, Cancellable, OwnershipProven, Members, Owned, KeepLedger,
       NotAsked, stockVars, orderVars, workVars, pickVars, batchVars, Rows, Anchored, Whole,
       PoolHoldsNothing, Scanned, Statuses, LineStatuses, BatchStatuses, TerminalLines
<1>4. ASSUME NEW u \in Operators, Claim(u)
     PROVE  Whole'
    BY <1>4, <1>0 DEF Claim, NothingSeen, stockVars, orderVars, workVars, pickVars,
       batchVars, Rows, Anchored, Whole, PoolHoldsNothing, Scanned, Statuses, LineStatuses,
       BatchStatuses, TerminalLines
<1>5. ASSUME NEW u \in Operators, CompletePick(u)
     PROVE  Whole'
    BY <1>5, <1>0 DEF CompletePick, NothingSeen, stockVars, orderVars, workVars, pickVars,
       batchVars, Rows, Anchored, Whole, PoolHoldsNothing, Scanned, Statuses, LineStatuses,
       BatchStatuses, TerminalLines
<1>6. ASSUME NEW u \in Operators, NEW o \in Orders, ScanAllocation(u, o)
     PROVE  Whole'
    BY <1>6, <1>0 DEF ScanAllocation, MayScan, RecordScan, Unlocked, Scanned, stockVars,
       orderVars, workVars, pickVars, batchVars, Rows, Anchored, Whole, PoolHoldsNothing,
       Statuses, LineStatuses, BatchStatuses, TerminalLines
<1>7. ASSUME NEW u \in Operators, NEW o \in Orders, ScanLine(u, o)
     PROVE  Whole'
    BY <1>7, <1>0 DEF ScanLine, MayScan, RecordScan, Unlocked, stockVars, orderVars,
       workVars, pickVars, batchVars, Rows, Anchored, Whole, PoolHoldsNothing, Scanned,
       Statuses, LineStatuses, BatchStatuses, TerminalLines
<1>8. ASSUME NEW o \in Orders, NEW found \in 0 .. Qty[o], Report(o, found)
     PROVE  Whole'
  <2>1. UNCHANGED <<status, line, alloc, removed>>
      BY <1>8 DEF Report, ReportShort, ReportMissing, MayReport, RecordScan, orderVars, workVars
  <2>2. \A p \in Orders : Scanned(p) => Scanned(p)'
      BY <1>8, <1>0, ScansStay
  <2> QED
      BY <1>0, <2>1, <2>2 DEF Whole
<1>9. ASSUME NEW o \in Orders, OrderCancelled(o)
     PROVE  Whole'
    BY <1>9, <1>0 DEF OrderCancelled, Unlocked, Returnable, Referenced, LineUnwound,
       Members, KeepLedger, Scanned, stockVars, orderVars, workVars, pickVars, batchVars,
       Rows, Anchored, Whole, PoolHoldsNothing, Statuses, LineStatuses, BatchStatuses,
       TerminalLines
<1>10. ASSUME NEW o \in Orders, FulfilledFromAllocation(o)
     PROVE  Whole'
    BY <1>10, <1>0 DEF FulfilledFromAllocation, MarkFulfilled, Unlocked, Outstanding,
       Scanned, Referenced, stockVars, orderVars, workVars, pickVars, batchVars, Rows,
       Anchored, Whole, PoolHoldsNothing, Statuses, LineStatuses, BatchStatuses,
       TerminalLines
<1>11. ASSUME NEW o \in Orders, FulfilledFromStock(o)
     PROVE  Whole'
    BY <1>11, <1>0 DEF FulfilledFromStock, MarkFulfilled, Unlocked, Outstanding, Scanned,
       stockVars, orderVars, workVars, pickVars, batchVars, Rows, Anchored, Whole,
       PoolHoldsNothing, Statuses, LineStatuses, BatchStatuses, TerminalLines
<1>12. ASSUME NEW o \in Orders, FulfilledBeforeOpening(o)
     PROVE  Whole'
    BY <1>12, <1>0 DEF FulfilledBeforeOpening, MarkFulfilled, Unlocked, Outstanding, stockVars,
       orderVars, workVars, pickVars, batchVars, Rows, Anchored, Whole, PoolHoldsNothing,
       Scanned, Statuses, LineStatuses, BatchStatuses, TerminalLines
<1> QED
    BY <1>1, <1>2, <1>3, <1>4, <1>5, <1>6, <1>7, <1>8, <1>9, <1>10, <1>11, <1>12, AlreadyShips
       DEF Next, Report, Looks

LEMMA ExcusesStep == Inv /\ Next => Excuses'
<1> SUFFICES ASSUME Inv, Next
             PROVE  Excuses'
    OBVIOUS
<1>0. Rows /\ Anchored /\ Fresh /\ Excuses /\ PoolHoldsNothing
    BY DEF Inv
<1>1. ASSUME UNCHANGED <<exception, excused>>,
             \A o \in Orders : alloc'[o] \in {alloc[o], NoBatch}
      PROVE  Excuses'
    BY <1>0, <1>1 DEF Excuses
<1>2. CASE Looks
    BY <1>0, <1>2, LooksAreStill DEF Still, Excuses
<1>3. ASSUME NEW r \in Releases, Reserve(r)
      PROVE  Excuses'
  <2>1. UNCHANGED <<exception, excused>>
      BY <1>3 DEF Reserve, pickVars
  <2>2. \A o \in release[r].winners : exception[o] = NoBatch
      BY <1>3, <1>0 DEF Reserve, Anchored, PoolHoldsNothing, Rows
  <2>3. \A o \in Orders : o \notin release[r].winners => alloc'[o] = alloc[o]
      BY <1>3 DEF Reserve
  <2> QED
      BY <1>0, <2>1, <2>2, <2>3 DEF Excuses
<1>4. ASSUME NEW b \in Batches, CancelBatch(b)
      PROVE  Excuses'
    BY <1>1, <1>4 DEF CancelBatch, pickVars
<1>5. ASSUME NEW u \in Operators, Claim(u) \/ CompletePick(u)
      PROVE  Excuses'
    BY <1>1, <1>5 DEF Claim, CompletePick, workVars, pickVars
<1>6. ASSUME NEW u \in Operators, NEW o \in Orders, ScanAllocation(u, o) \/ ScanLine(u, o)
      PROVE  Excuses'
    BY <1>1, <1>6 DEF ScanAllocation, ScanLine
<1>7. ASSUME NEW o \in Orders, NEW found \in 0 .. Qty[o], Report(o, found)
      PROVE  Excuses'
  <2>1. /\ member[o] \in Batches /\ exception' = [exception EXCEPT ![o] = member[o]]
        /\ alloc' = alloc /\ alloc[o] \in {member[o], NoBatch}
        /\ \A p \in Orders : p # o => excused'[p] = excused[p]
      BY <1>7, <1>0, ReportWrites DEF workVars
  <2>2. exception'[o] = member[o] /\ \A p \in Orders : p # o => exception'[p] = exception[p]
      BY <1>0, <2>1 DEF Rows
  <2> QED
      BY <1>0, <2>1, <2>2 DEF Excuses
<1>8. ASSUME NEW o \in Orders, OrderCancelled(o)
      PROVE  Excuses'
    BY <1>0, <1>1, <1>8 DEF OrderCancelled, Rows
<1>9. ASSUME NEW o \in Orders, FulfilledFromAllocation(o)
      PROVE  Excuses'
    BY <1>0, <1>1, <1>9 DEF FulfilledFromAllocation, Rows
<1>10. ASSUME NEW o \in Orders, FulfilledFromStock(o) \/ FulfilledBeforeOpening(o)
      PROVE  Excuses'
    BY <1>1, <1>10 DEF FulfilledFromStock, FulfilledBeforeOpening, pickVars
<1> QED
    BY <1>2, <1>3, <1>4, <1>5, <1>6, <1>7, <1>8, <1>9, <1>10, AlreadyShips
       DEF Next, Report, Looks

LEMMA PoolStep == Inv /\ Next => PoolHoldsNothing'
<1> SUFFICES ASSUME Inv, Next
             PROVE  PoolHoldsNothing'
    OBVIOUS
<1>0. Rows /\ Anchored /\ Fresh /\ Informed /\ PoolHoldsNothing
    BY DEF Inv
<1>1. CASE Looks
    BY <1>0, <1>1, LooksAreStill DEF Still, PoolHoldsNothing, Scanned
<1>2. ASSUME NEW r \in Releases, Reserve(r)
     PROVE  PoolHoldsNothing'
    BY <1>2, <1>0 DEF Reserve, BlockLosers, KeepLedger, NoRelease, stockVars, orderVars,
       workVars, pickVars, batchVars, Rows, Anchored, Fresh, Informed, PoolHoldsNothing,
       Scanned, Statuses
<1>3. ASSUME NEW b \in Batches, CancelBatch(b)
     PROVE  PoolHoldsNothing'
    BY <1>3, <1>0 DEF CancelBatch, Cancellable, OwnershipProven, Members, Owned, KeepLedger,
       NotAsked, stockVars, orderVars, workVars, pickVars, batchVars, Rows, Anchored, Fresh,
       Informed, PoolHoldsNothing, Scanned, Statuses
<1>4. ASSUME NEW u \in Operators, Claim(u)
     PROVE  PoolHoldsNothing'
  <2>1. UNCHANGED <<status, member, alloc, scan, exception>>
      BY <1>4 DEF Claim, orderVars, pickVars
  <2>2. seen[u].batch \in Batches
      BY <1>4, <1>0 DEF Claim, Informed
  <2>3. \A o \in Orders : member[o] = NoBatch => line'[o] = line[o]
      BY <1>4, <1>0, <2>2 DEF Claim
  <2> QED
      BY <1>0, <2>1, <2>3 DEF PoolHoldsNothing, Scanned
<1>5. ASSUME NEW u \in Operators, CompletePick(u)
     PROVE  PoolHoldsNothing'
    BY <1>5, <1>0 DEF CompletePick, NothingSeen, stockVars, orderVars, workVars, pickVars,
       batchVars, Rows, Anchored, Fresh, Informed, PoolHoldsNothing, Scanned, Statuses
<1>6. ASSUME NEW u \in Operators, NEW o \in Orders, ScanAllocation(u, o)
     PROVE  PoolHoldsNothing'
    BY <1>6, <1>0 DEF ScanAllocation, MayScan, RecordScan, Unlocked, Scanned, stockVars,
       orderVars, workVars, pickVars, batchVars, Rows, Anchored, Fresh, Informed,
       PoolHoldsNothing, Statuses
<1>7. ASSUME NEW u \in Operators, NEW o \in Orders, ScanLine(u, o)
     PROVE  PoolHoldsNothing'
    BY <1>7, <1>0 DEF ScanLine, MayScan, RecordScan, Unlocked, stockVars, orderVars,
       workVars, pickVars, batchVars, Rows, Anchored, Fresh, Informed, PoolHoldsNothing,
       Scanned, Statuses
<1>8. ASSUME NEW o \in Orders, NEW found \in 0 .. Qty[o], Report(o, found)
     PROVE  PoolHoldsNothing'
    BY <1>8, <1>0 DEF Report, ReportShort, ReportMissing, MayReport, RecordScan, Unlocked,
         Scanned, stockVars, orderVars, workVars,
       pickVars, batchVars, Rows, Anchored, Fresh, Informed, PoolHoldsNothing, Statuses
<1>9. ASSUME NEW o \in Orders, OrderCancelled(o)
     PROVE  PoolHoldsNothing'
    BY <1>9, <1>0 DEF OrderCancelled, Unlocked, Returnable, Referenced, LineUnwound,
       Members, KeepLedger, Scanned, stockVars, orderVars, workVars, pickVars, batchVars,
       Rows, Anchored, Fresh, Informed, PoolHoldsNothing, Statuses
<1>10. ASSUME NEW o \in Orders, FulfilledFromAllocation(o)
     PROVE  PoolHoldsNothing'
    BY <1>10, <1>0 DEF FulfilledFromAllocation, MarkFulfilled, Unlocked, Outstanding,
       Scanned, Referenced, stockVars, orderVars, workVars, pickVars, batchVars, Rows,
       Anchored, Fresh, Informed, PoolHoldsNothing, Statuses
<1>11. ASSUME NEW o \in Orders, FulfilledFromStock(o)
     PROVE  PoolHoldsNothing'
    BY <1>11, <1>0 DEF FulfilledFromStock, MarkFulfilled, Unlocked, Outstanding, Scanned,
       stockVars, orderVars, workVars, pickVars, batchVars, Rows, Anchored, Fresh, Informed,
       PoolHoldsNothing, Statuses
<1>12. ASSUME NEW o \in Orders, FulfilledBeforeOpening(o)
     PROVE  PoolHoldsNothing'
    BY <1>12, <1>0 DEF FulfilledBeforeOpening, MarkFulfilled, Unlocked, Outstanding, stockVars,
       orderVars, workVars, pickVars, batchVars, Rows, Anchored, Fresh, Informed,
       PoolHoldsNothing, Scanned, Statuses
<1> QED
    BY <1>1, <1>2, <1>3, <1>4, <1>5, <1>6, <1>7, <1>8, <1>9, <1>10, <1>11, <1>12, AlreadyShips
       DEF Next, Report, Looks

LEMMA CancelledStep == Inv /\ Next => CancelledHoldsNothing'
<1> SUFFICES ASSUME Inv, Next
             PROVE  CancelledHoldsNothing'
    OBVIOUS
<1>0. Rows /\ Anchored /\ Whole /\ Informed /\ CancelledHoldsNothing
    BY DEF Inv
<1>1. CASE Looks
    BY <1>0, <1>1, LooksAreStill DEF Still, CancelledHoldsNothing, Scanned
<1>2. ASSUME NEW r \in Releases, Reserve(r)
     PROVE  CancelledHoldsNothing'
    BY <1>2, <1>0 DEF Reserve, BlockLosers, KeepLedger, NoRelease, stockVars, orderVars,
       workVars, pickVars, batchVars, Rows, Anchored, Whole, CancelledHoldsNothing, Scanned,
       Statuses, TerminalLines
<1>3. ASSUME NEW b \in Batches, CancelBatch(b)
     PROVE  CancelledHoldsNothing'
    BY <1>3, <1>0 DEF CancelBatch, Cancellable, OwnershipProven, Members, Owned, KeepLedger,
       NotAsked, stockVars, orderVars, workVars, pickVars, batchVars, Rows, Anchored, Whole,
       CancelledHoldsNothing, Scanned, Statuses, TerminalLines
<1>4. ASSUME NEW u \in Operators, Claim(u)
     PROVE  CancelledHoldsNothing'
  <2>1. UNCHANGED <<status, member, alloc, scan>> /\ seen[u].batch \in Batches
      BY <1>4, <1>0 DEF Claim, orderVars, pickVars, Informed
  <2>2. \A o \in Orders : member[o] = NoBatch => line'[o] = line[o]
      BY <1>4, <2>1 DEF Claim
  <2> QED
      BY <1>0, <2>1, <2>2 DEF CancelledHoldsNothing, Scanned
<1>5. ASSUME NEW u \in Operators, CompletePick(u)
     PROVE  CancelledHoldsNothing'
    BY <1>5, <1>0 DEF CompletePick, NothingSeen, stockVars, orderVars, workVars, pickVars,
       batchVars, Rows, Anchored, Whole, CancelledHoldsNothing, Scanned, Statuses,
       TerminalLines
<1>6. ASSUME NEW u \in Operators, NEW o \in Orders, ScanAllocation(u, o)
     PROVE  CancelledHoldsNothing'
    BY <1>6, <1>0 DEF ScanAllocation, MayScan, RecordScan, Unlocked, Scanned, stockVars,
       orderVars, workVars, pickVars, batchVars, Rows, Anchored, Whole,
       CancelledHoldsNothing, Statuses, TerminalLines
<1>7. ASSUME NEW u \in Operators, NEW o \in Orders, ScanLine(u, o)
     PROVE  CancelledHoldsNothing'
    BY <1>7, <1>0 DEF ScanLine, MayScan, RecordScan, Unlocked, stockVars, orderVars,
       workVars, pickVars, batchVars, Rows, Anchored, Whole, CancelledHoldsNothing, Scanned,
       Statuses, TerminalLines
<1>8. ASSUME NEW o \in Orders, NEW found \in 0 .. Qty[o], Report(o, found)
     PROVE  CancelledHoldsNothing'
  <2>1. UNCHANGED <<status, member, line, alloc>>
      BY <1>8 DEF Report, ReportShort, ReportMissing, orderVars, workVars
  <2>2. \A p \in Orders : Scanned(p) => Scanned(p)'
      BY <1>8, <1>0, ScansStay
  <2> QED
      BY <1>0, <2>1, <2>2 DEF CancelledHoldsNothing
<1>9. ASSUME NEW o \in Orders, OrderCancelled(o)
     PROVE  CancelledHoldsNothing'
    BY <1>9, <1>0 DEF OrderCancelled, Unlocked, Returnable, Referenced, LineUnwound,
       Members, KeepLedger, Scanned, stockVars, orderVars, workVars, pickVars, batchVars,
       Rows, Anchored, Whole, CancelledHoldsNothing, Statuses, TerminalLines
<1>10. ASSUME NEW o \in Orders, FulfilledFromAllocation(o)
     PROVE  CancelledHoldsNothing'
    BY <1>10, <1>0 DEF FulfilledFromAllocation, MarkFulfilled, Unlocked, Outstanding,
       Scanned, Referenced, stockVars, orderVars, workVars, pickVars, batchVars, Rows,
       Anchored, Whole, CancelledHoldsNothing, Statuses, TerminalLines
<1>11. ASSUME NEW o \in Orders, FulfilledFromStock(o)
     PROVE  CancelledHoldsNothing'
    BY <1>11, <1>0 DEF FulfilledFromStock, MarkFulfilled, Unlocked, Outstanding, Scanned,
       stockVars, orderVars, workVars, pickVars, batchVars, Rows, Anchored, Whole,
       CancelledHoldsNothing, Statuses, TerminalLines
<1>12. ASSUME NEW o \in Orders, FulfilledBeforeOpening(o)
     PROVE  CancelledHoldsNothing'
    BY <1>12, <1>0 DEF FulfilledBeforeOpening, MarkFulfilled, Unlocked, Outstanding, stockVars,
       orderVars, workVars, pickVars, batchVars, Rows, Anchored, Whole,
       CancelledHoldsNothing, Scanned, Statuses, TerminalLines
<1> QED
    BY <1>1, <1>2, <1>3, <1>4, <1>5, <1>6, <1>7, <1>8, <1>9, <1>10, <1>11, <1>12, AlreadyShips
       DEF Next, Report, Looks

\* What is accounted stays so: a pick or a report that would disturb it needs a line
\* that was neither scanned nor reported, and such a line is not accounted.
LEMMA AccountedStep ==
    ASSUME Inv, Next, NEW b \in Batches, batch[b] # "none", Accounted(b)
    PROVE  Accounted(b)'
<1>0. Rows /\ Fresh /\ Excuses
    BY DEF Inv
<1>1. ASSUME UNCHANGED <<scan, excused>>, \A o \in Orders : alloc'[o] = b => alloc[o] = b
      PROVE  Accounted(b)'
    BY <1>1 DEF Accounted, Owned
<1>2. CASE Looks
    BY <1>1, <1>2, LooksAreStill DEF Still
<1>3. ASSUME NEW r \in Releases, Reserve(r)
      PROVE  Accounted(b)'
  <2>1. PICK c \in Batches :
           /\ batch[c] = "none"
           /\ alloc' = [o \in Orders |-> IF o \in release[r].winners THEN c ELSE alloc[o]]
      BY <1>3 DEF Reserve
  <2>2. UNCHANGED <<scan, excused>>
      BY <1>3 DEF Reserve, pickVars
  <2> QED
      BY <1>1, <2>1, <2>2
<1>4. ASSUME NEW c \in Batches, CancelBatch(c)
      PROVE  Accounted(b)'
    BY <1>1, <1>4 DEF CancelBatch, pickVars
<1>5. ASSUME NEW u \in Operators, Claim(u) \/ CompletePick(u)
      PROVE  Accounted(b)'
    BY <1>1, <1>5 DEF Claim, CompletePick, workVars, pickVars
<1>6. ASSUME NEW u \in Operators, NEW o \in Orders, ScanAllocation(u, o)
      PROVE  Accounted(b)'
  <2>1. /\ alloc[o] = member[o] /\ member[o] # NoBatch /\ exception[o] # member[o] /\ ~Scanned(o)
        /\ UNCHANGED <<alloc, excused>>
        /\ scan' = [scan EXCEPT ![o] = [batch |-> member[o], units |-> Qty[o]]]
      BY <1>6 DEF ScanAllocation, MayScan, RecordScan
  <2>2. scan[o].units = 0 /\ excused[o] = 0
      BY <1>0, <2>1 DEF Scanned, Excuses, Rows
  <2>3. alloc[o] # b
      BY <2>2 DEF Accounted, Owned
  <2> QED
      BY <1>0, <2>1, <2>3 DEF Accounted, Owned, Rows
<1>7. ASSUME NEW u \in Operators, NEW o \in Orders, ScanLine(u, o)
      PROVE  Accounted(b)'
  <2>1. /\ alloc[o] = NoBatch /\ UNCHANGED <<alloc, excused>>
        /\ \A p \in Orders : p # o => scan'[p] = scan[p]
      BY <1>0, <1>7 DEF ScanLine, MayScan, RecordScan, Fresh, Rows
  <2> QED
      BY <2>1 DEF Accounted, Owned
<1>8. ASSUME NEW o \in Orders, NEW found \in 0 .. Qty[o], Report(o, found)
      PROVE  Accounted(b)'
  <2>1. /\ MayReport(o) /\ member[o] \in Batches /\ alloc' = alloc
        /\ \A p \in Orders : p # o => excused'[p] = excused[p] /\ scan'[p] = scan[p]
        /\ alloc[o] = member[o] => ~Scanned(o)
        /\ alloc[o] # member[o] => alloc[o] = NoBatch
      BY <1>0, <1>8, ReportWrites DEF workVars
  <2>2. alloc[o] # b
    <3>1. CASE alloc[o] = member[o]
      <4>1. scan[o].units = 0 /\ excused[o] = 0
          BY <1>0, <2>1, <3>1 DEF MayReport, Scanned, Excuses, Rows
      <4> QED
          BY <4>1 DEF Accounted, Owned
    <3> QED
        BY <2>1, <3>1
  <2> QED
      BY <2>1, <2>2 DEF Accounted, Owned
<1>9. ASSUME NEW o \in Orders, OrderCancelled(o)
      PROVE  Accounted(b)'
    BY <1>0, <1>1, <1>9 DEF OrderCancelled, Rows
<1>10. ASSUME NEW o \in Orders, FulfilledFromAllocation(o)
      PROVE  Accounted(b)'
    BY <1>0, <1>1, <1>10 DEF FulfilledFromAllocation, Rows
<1>11. ASSUME NEW o \in Orders, FulfilledFromStock(o) \/ FulfilledBeforeOpening(o)
      PROVE  Accounted(b)'
    BY <1>1, <1>11 DEF FulfilledFromStock, FulfilledBeforeOpening, pickVars
<1> QED
    BY <1>2, <1>3, <1>4, <1>5, <1>6, <1>7, <1>8, <1>9, <1>10, <1>11, AlreadyShips
       DEF Next, Report, Looks

\* A batch never ceases to exist, and only a completion makes it complete.
LEMMA BatchStep ==
    ASSUME Inv, Next, NEW b \in Batches
    PROVE  /\ batch[b] # "none" => batch'[b] # "none"
           /\ batch'[b] = "pick_complete" =>
                 \/ batch[b] = "pick_complete"
                 \/ \E u \in Operators : seen[u].act = "complete" /\ seen[u].batch = b
<1> DEFINE Goal == /\ batch[b] # "none" => batch'[b] # "none"
                   /\ batch'[b] = "pick_complete" =>
                         \/ batch[b] = "pick_complete"
                         \/ \E u \in Operators : seen[u].act = "complete" /\ seen[u].batch = b
<1>0. Rows
    BY DEF Inv
<1>1. CASE batch' = batch
    BY <1>1
<1>2. CASE Looks
    BY <1>1, <1>2, LooksAreStill DEF Still
<1>3. ASSUME NEW r \in Releases, Reserve(r)
      PROVE  Goal
    BY <1>0, <1>3 DEF Reserve, Rows
<1>4. ASSUME NEW c \in Batches, CancelBatch(c)
      PROVE  Goal
    BY <1>0, <1>4 DEF CancelBatch, Rows
<1>5. ASSUME NEW u \in Operators, Claim(u) \/ CompletePick(u)
      PROVE  Goal
    BY <1>0, <1>5 DEF Claim, CompletePick, Rows
<1>6. ASSUME NEW u \in Operators, NEW o \in Orders, ScanAllocation(u, o) \/ ScanLine(u, o)
      PROVE  Goal
    BY <1>1, <1>6 DEF ScanAllocation, ScanLine, batchVars
<1>7. ASSUME NEW o \in Orders, NEW found \in 0 .. Qty[o], Report(o, found)
      PROVE  Goal
    BY <1>1, <1>7 DEF Report, ReportShort, ReportMissing, batchVars
<1>8. ASSUME NEW o \in Orders, OrderCancelled(o)
      PROVE  Goal
    BY <1>0, <1>8 DEF OrderCancelled, Rows
<1>9. ASSUME NEW o \in Orders,
             FulfilledFromAllocation(o) \/ FulfilledFromStock(o) \/ FulfilledBeforeOpening(o)
      PROVE  Goal
    BY <1>1, <1>9 DEF FulfilledFromAllocation, FulfilledFromStock, FulfilledBeforeOpening, batchVars
<1> QED
    BY <1>2, <1>3, <1>4, <1>5, <1>6, <1>7, <1>8, <1>9, AlreadyShips DEF Next, Report, Looks

LEMMA CompleteStep == Inv /\ Next => CompleteIsAccounted'
<1> SUFFICES ASSUME Inv, Next, NEW b \in Batches, batch'[b] = "pick_complete"
             PROVE  Accounted(b)'
    BY DEF CompleteIsAccounted, Accounted
<1>1. batch[b] # "none" /\ Accounted(b)
  <2>1. CASE batch[b] = "pick_complete"
      BY <2>1 DEF Inv, CompleteIsAccounted, Accounted
  <2>2. CASE \E u \in Operators : seen[u].act = "complete" /\ seen[u].batch = b
      BY <2>2 DEF Inv, Informed
  <2> QED
      BY <2>1, <2>2, BatchStep
<1> QED
    BY <1>1, AccountedStep

\* What an operator has read is forgotten, kept, or has just been read.
LEMMA SeenStep ==
    ASSUME Rows, Next, NEW u \in Operators
    PROVE  \/ seen'[u].act = "none"
           \/ seen'[u] = seen[u]
           \/ /\ seen'[u].batch \in Batches /\ batch[seen'[u].batch] # "none"
              /\ seen'[u].act = "complete" => PickAccounted(seen'[u].batch)
              /\ UNCHANGED <<alloc, scan, excused, batch>>
<1> DEFINE Goal == \/ seen'[u].act = "none"
                   \/ seen'[u] = seen[u]
                   \/ /\ seen'[u].batch \in Batches /\ batch[seen'[u].batch] # "none"
                      /\ seen'[u].act = "complete" => PickAccounted(seen'[u].batch)
                      /\ UNCHANGED <<alloc, scan, excused, batch>>
<1>1. CASE seen' = seen
    BY <1>1
<1>2. CASE \/ Stow
           \/ \E r \in Releases : Choose(r) \/ Anchor(r) \/ ReleaseNothing(r) \/ ReserveConflict(r)
           \/ \E b \in Batches : AskCancel(b) \/ RefuseCancel(b)
           \/ \E o \in Orders : Reevaluate(o) \/ Quarantine(o)
    BY <1>1, <1>2 DEF Stow, Choose, Anchor, ReleaseNothing, ReserveConflict, AskCancel,
       RefuseCancel, Reevaluate, Quarantine, openVars
<1>3. ASSUME NEW v \in Operators, NEW b \in Batches, ReadForClaim(v, b)
      PROVE  Goal
    BY <1>3 DEF ReadForClaim, workVars, pickVars, batchVars, Rows
<1>4. ASSUME NEW v \in Operators, NEW b \in Batches, ReadForComplete(v, b)
      PROVE  Goal
    BY <1>4 DEF ReadForComplete, workVars, pickVars, batchVars, Rows
<1>5. ASSUME NEW v \in Operators, Claim(v) \/ CompletePick(v)
      PROVE  Goal
    BY <1>5 DEF Claim, CompletePick, NothingSeen, Rows
<1>6. CASE \/ \E r \in Releases : Reserve(r)
           \/ \E b \in Batches : CancelBatch(b)
           \/ \E v \in Operators, o \in Orders : ScanAllocation(v, o) \/ ScanLine(v, o)
    BY <1>1, <1>6 DEF Reserve, CancelBatch, ScanAllocation, ScanLine, openVars
<1>7. CASE \/ \E o \in Orders : \E found \in 0 .. Qty[o] : Report(o, found)
           \/ \E o \in Orders : \/ OrderCancelled(o) \/ FulfilledFromAllocation(o)
                                \/ FulfilledFromStock(o) \/ FulfilledBeforeOpening(o)
    BY <1>1, <1>7 DEF Report, ReportShort, ReportMissing, OrderCancelled, FulfilledFromAllocation,
       FulfilledFromStock, FulfilledBeforeOpening, openVars
<1> QED
    BY <1>2, <1>3, <1>4, <1>5, <1>6, <1>7, AlreadyShips DEF Next, Report

LEMMA InformedStep == Inv /\ Next => Informed'
<1> SUFFICES ASSUME Inv, Next, NEW u \in Operators, seen'[u].act # "none"
             PROVE  \E b \in Batches : /\ seen'[u].batch = b /\ batch'[b] # "none"
                                       /\ seen'[u].act = "complete" => Accounted(b)'
    BY DEF Informed, Accounted, Owned
<1>1. CASE seen'[u] = seen[u]
  <2>1. PICK b \in Batches : /\ seen[u].batch = b /\ batch[b] # "none"
                             /\ seen[u].act = "complete" => Accounted(b)
      BY <1>1 DEF Inv, Informed
  <2> QED
      BY <1>1, <2>1, BatchStep, AccountedStep
<1>2. CASE /\ seen'[u].batch \in Batches /\ batch[seen'[u].batch] # "none"
           /\ seen'[u].act = "complete" => PickAccounted(seen'[u].batch)
           /\ UNCHANGED <<alloc, scan, excused, batch>>
  <2>1. PICK b \in Batches : seen'[u].batch = b
      BY <1>2
  <2>2. batch'[b] # "none" /\ (seen'[u].act = "complete" => PickAccounted(b))
      BY <1>2, <2>1
  <2>3. PickAccounted(b) => Accounted(b)'
      BY <1>2 DEF PickAccounted, Accounted, Owned
  <2> QED
      BY <2>1, <2>2, <2>3
<1> QED
    BY <1>1, <1>2, SeenStep DEF Inv

LEMMA AnchoredStep == Inv /\ Next => Anchored'
<1> SUFFICES ASSUME Inv, Next
             PROVE  Anchored'
    OBVIOUS
<1>0. Rows /\ Anchored
    BY DEF Inv
<1>1. ASSUME Stow
     PROVE  Anchored'
    BY <1>1, <1>0 DEF Stow, stockVars, orderVars, workVars, pickVars, batchVars, Rows,
       Anchored, openVars
<1>2. ASSUME NEW r \in Releases, Choose(r)
     PROVE  Anchored'
    BY <1>2, <1>0 DEF Choose, stockVars, orderVars, workVars, pickVars, batchVars, Rows,
       Anchored, openVars
<1>3. ASSUME NEW r \in Releases, Anchor(r)
     PROVE  Anchored'
  <2>1. UNCHANGED <<status, member>>
      BY <1>3 DEF Anchor, orderVars, workVars
  <2>2. \A q \in Releases : q # r => release'[q] = release[q]
      BY <1>0, <1>3, AnchorWrites DEF Rows
  <2>3. release'[r].step = "anchored" =>
           /\ release'[r].winners \subseteq release'[r].chosen
           /\ \A o \in release'[r].winners : status[o] = "open" /\ member[o] = NoBatch
      BY <1>0, <1>3, AnchorWrites DEF Eligible
  <2>4. release'[r].step = "anchored" =>
           \A q \in Releases : q # r /\ release[q].step = "anchored"
              => release[q].chosen \cap release'[r].chosen = {}
      BY <1>0, <1>3, AnchorWrites DEF Unlocked
  <2> QED
      BY <1>0, <2>1, <2>2, <2>3, <2>4 DEF Anchored
<1>4. ASSUME NEW r \in Releases, ReleaseNothing(r)
     PROVE  Anchored'
    BY <1>4, <1>0 DEF ReleaseNothing, BlockLosers, NoRelease, stockVars, orderVars,
       workVars, pickVars, batchVars, Rows, Anchored, openVars
<1>5. ASSUME NEW r \in Releases, Reserve(r)
     PROVE  Anchored'
    BY <1>5, <1>0 DEF Reserve, BlockLosers, KeepLedger, NoRelease, stockVars, orderVars,
       workVars, pickVars, batchVars, Rows, Anchored, openVars
<1>6. ASSUME NEW r \in Releases, ReserveConflict(r)
     PROVE  Anchored'
    BY <1>6, <1>0 DEF ReserveConflict, NoRelease, stockVars, orderVars, workVars, pickVars,
       batchVars, Rows, Anchored, openVars
<1>7. ASSUME NEW b \in Batches, AskCancel(b)
     PROVE  Anchored'
    BY <1>7, <1>0 DEF AskCancel, Members, Owned, stockVars, orderVars, workVars, pickVars,
       batchVars, Rows, Anchored, openVars
<1>8. ASSUME NEW b \in Batches, CancelBatch(b)
     PROVE  Anchored'
    BY <1>8, <1>0 DEF CancelBatch, Cancellable, OwnershipProven, Members, Owned, KeepLedger,
       NotAsked, stockVars, orderVars, workVars, pickVars, batchVars, Rows, Anchored,
       openVars
<1>9. ASSUME NEW b \in Batches, RefuseCancel(b)
     PROVE  Anchored'
    BY <1>9, <1>0 DEF RefuseCancel, NotAsked, stockVars, orderVars, workVars, pickVars,
       batchVars, Rows, Anchored, openVars
<1>10. ASSUME NEW u \in Operators, NEW b \in Batches, ReadForClaim(u, b)
     PROVE  Anchored'
    BY <1>10, <1>0 DEF ReadForClaim, stockVars, orderVars, workVars, pickVars, batchVars,
       Rows, Anchored, openVars
<1>11. ASSUME NEW u \in Operators, NEW b \in Batches, ReadForComplete(u, b)
     PROVE  Anchored'
    BY <1>11, <1>0 DEF ReadForComplete, PickAccounted, Owned, stockVars, orderVars,
       workVars, pickVars, batchVars, Rows, Anchored, openVars
<1>12. ASSUME NEW u \in Operators, Claim(u)
     PROVE  Anchored'
    BY <1>12, <1>0 DEF Claim, NothingSeen, stockVars, orderVars, workVars, pickVars,
       batchVars, Rows, Anchored, openVars
<1>13. ASSUME NEW u \in Operators, CompletePick(u)
     PROVE  Anchored'
    BY <1>13, <1>0 DEF CompletePick, NothingSeen, stockVars, orderVars, workVars, pickVars,
       batchVars, Rows, Anchored, openVars
<1>14. ASSUME NEW u \in Operators, NEW o \in Orders, ScanAllocation(u, o)
     PROVE  Anchored'
    BY <1>14, <1>0 DEF ScanAllocation, MayScan, RecordScan, Unlocked, Scanned, stockVars,
       orderVars, workVars, pickVars, batchVars, Rows, Anchored, openVars
<1>15. ASSUME NEW u \in Operators, NEW o \in Orders, ScanLine(u, o)
     PROVE  Anchored'
    BY <1>15, <1>0 DEF ScanLine, MayScan, RecordScan, Unlocked, stockVars, orderVars,
       workVars, pickVars, batchVars, Rows, Anchored, openVars
<1>16. ASSUME NEW o \in Orders, NEW found \in 0 .. Qty[o], Report(o, found)
     PROVE  Anchored'
    BY <1>16, <1>0 DEF Report, ReportShort, ReportMissing, MayReport, RecordScan, Unlocked,
         Scanned, stockVars, orderVars, workVars,
       pickVars, batchVars, Rows, Anchored, openVars
<1>17. ASSUME NEW o \in Orders, Reevaluate(o)
     PROVE  Anchored'
    BY <1>17, <1>0 DEF Reevaluate, stockVars, orderVars, workVars, pickVars, batchVars,
       Rows, Anchored, openVars
<1>18. ASSUME NEW o \in Orders, OrderCancelled(o)
     PROVE  Anchored'
    BY <1>18, <1>0 DEF OrderCancelled, Unlocked, Returnable, Referenced, LineUnwound,
       Members, KeepLedger, Scanned, stockVars, orderVars, workVars, pickVars, batchVars,
       Rows, Anchored, openVars
<1>19. ASSUME NEW o \in Orders, Quarantine(o)
     PROVE  Anchored'
    BY <1>19, <1>0 DEF Quarantine, stockVars, orderVars, workVars, pickVars, batchVars,
       Rows, Anchored, openVars
<1>20. ASSUME NEW o \in Orders, FulfilledFromAllocation(o)
     PROVE  Anchored'
    BY <1>20, <1>0 DEF FulfilledFromAllocation, MarkFulfilled, Unlocked, Outstanding,
       Scanned, Referenced, stockVars, orderVars, workVars, pickVars, batchVars, Rows,
       Anchored, openVars
<1>21. ASSUME NEW o \in Orders, FulfilledFromStock(o)
     PROVE  Anchored'
    BY <1>21, <1>0 DEF FulfilledFromStock, MarkFulfilled, Unlocked, Outstanding, Scanned,
       stockVars, orderVars, workVars, pickVars, batchVars, Rows, Anchored, openVars
<1>22. ASSUME NEW o \in Orders, FulfilledBeforeOpening(o)
     PROVE  Anchored'
    BY <1>22, <1>0 DEF FulfilledBeforeOpening, MarkFulfilled, Unlocked, Outstanding, stockVars,
       orderVars, workVars, pickVars, batchVars, Rows, Anchored, openVars
<1> QED
    BY <1>1, <1>2, <1>3, <1>4, <1>5, <1>6, <1>7, <1>8, <1>9, <1>10, <1>11, <1>12, <1>13,
       <1>14, <1>15, <1>16, <1>17, <1>18, <1>19, <1>20, <1>21, <1>22, AlreadyShips
       DEF Next, Report

LEMMA InvStutter == Inv /\ UNCHANGED vars => Inv'
<1>1. UNCHANGED vars =>
         /\ Still
         /\ UNCHANGED <<stockVars, orderVars, workVars, pickVars, batchVars, openVars>>
    BY DEF vars, Still, orderVars, workVars, pickVars, batchVars
<1>2. Inv /\ Still => Fresh' /\ Whole' /\ Excuses' /\ PoolHoldsNothing' /\ CancelledHoldsNothing'
                         /\ CompleteIsAccounted'
    BY DEF Inv, Still, Fresh, Whole, Excuses, PoolHoldsNothing, CancelledHoldsNothing,
       CompleteIsAccounted, Owned, Scanned
<1>3. Inv /\ UNCHANGED vars => Rows' /\ Anchored' /\ Informed'
    BY DEF Inv, vars, stockVars, orderVars, workVars, pickVars, batchVars, openVars, Rows,
       Anchored, Informed, Accounted, Owned
<1> QED
    BY <1>1, <1>2, <1>3 DEF Inv

LEMMA InvStep == Inv /\ Next => Inv'
  BY RowsStep, AnchoredStep, FreshStep, WholeStep, ExcusesStep, PoolStep, CancelledStep,
     InformedStep, CompleteStep DEF Inv

LEMMA InvHolds == Spec => []Inv
<1>1. Init => Inv
    BY InitInv
<1>2. Inv /\ [Next]_vars => Inv'
    BY InvStutter, InvStep
<1> QED
    BY <1>1, <1>2, PTL DEF Spec

\* An open order outside every batch has nothing left of an earlier one (the
\* cancellation of batches, and the claim and completion written without a lock).
THEOREM PoolIsClean == Spec => []PoolHoldsNothing
<1>1. Inv => PoolHoldsNothing
    BY DEF Inv
<1> QED
    BY <1>1, InvHolds, PTL

\* A cancelled order is in no batch, and what it still reserves was scanned, unless a
\* fulfilment from before the opening balance has shipped its line (the locks of a
\* release, what a cancellation unwinds, and the shipped lines it skips).
THEOREM CancelledIsClean == Spec => []CancelledHoldsNothing
<1>1. Inv => CancelledHoldsNothing
    BY DEF Inv
<1> QED
    BY <1>1, InvHolds, PTL

\* What a picked batch still owns is confirmed or reported missing to the last unit,
\* although the completion of a pick reads the scans and the exceptions before it
\* writes, and writes without a condition.
THEOREM PickedIsAccounted == Spec => []CompleteIsAccounted
<1>1. Inv => CompleteIsAccounted
    BY DEF Inv
<1> QED
    BY <1>1, InvHolds, PTL
-----------------------------------------------------------------------------
(* The sums: what is reserved, what is on hand.                            *)

\* Every allocation is one its batch was released with, and is scanned only once the
\* batch is claimed.  Whose order has left the batch was cancelled.
Traced ==
    \A o \in Orders : alloc[o] # NoBatch =>
        /\ o \in released[alloc[o]] /\ batch[alloc[o]] # "none"
        /\ Scanned(o) => batch[alloc[o]] # "pending"
        /\ member[o] # alloc[o] => status[o] = "cancelled"

\* A line of a batch nobody has claimed is allocated as long as it goes on.
PendingLines ==
    \A o \in Orders : member[o] # NoBatch /\ batch[member[o]] = "pending" =>
        /\ line[o] # "none"
        /\ line[o] \notin TerminalLines => alloc[o] = member[o]

\* A cancellation has read all members; who has left since is cancelled.
AskedCovers ==
    asked.batch # NoBatch =>
        /\ asked.batch \in Batches /\ batch[asked.batch] # "none"
        /\ Members(asked.batch) \cup Owned(asked.batch) \subseteq asked.members
        /\ batch[asked.batch] = "pending" =>
              \A o \in asked.members \ Members(asked.batch) :
                  status[o] = "cancelled" /\ line[o] \in TerminalLines

\* The three parts of OnHandIsAccounted, with the sums over all orders.
LeftFits ==
    /\ truth.onHand = Stock + received - SumFunctionOnSet(Left, Orders)
    /\ \A o \in Orders : LeftTruth(o) <= Qty[o]

LedgerFits == ledger = truth.onHand - SumFunctionOnSet(LedgerOnly, Orders)

Books == Numbers /\ ReservedIsOwned /\ LeftFits /\ LedgerFits

FullInv == Inv /\ Traced /\ PendingLines /\ AskedCovers /\ Books

\* Sums of units are natural numbers.
LEMMA UnitsAreNat ==
    \A S \in SUBSET Orders : IsFiniteSet(S) /\ Units(S) \in Nat
<1> TAKE S \in SUBSET Orders
<1>1. IsFiniteSet(S) /\ \A o \in S : Qty[o] \in Nat
    BY FS_Subset
<1> QED
    BY <1>1, SumNat DEF Units

\* The larger and the smaller of two numbers.
LEMMA MaxMin ==
    ASSUME NEW a \in Int, NEW b \in Int
    PROVE  /\ Max({a, b}) \in Int /\ Min({a, b}) \in Int
           /\ Max({a, b}) = IF a >= b THEN a ELSE b
<1>1. \E x \in {a, b} : \A y \in {a, b} : x >= y
    OBVIOUS
<1>2. Max({a, b}) \in {a, b} /\ \A y \in {a, b} : Max({a, b}) >= y
    BY <1>1 DEF Max
<1>3. \E x \in {a, b} : \A y \in {a, b} : x =< y
    OBVIOUS
<1>4. Min({a, b}) \in {a, b}
    BY <1>3 DEF Min
<1> QED
    BY <1>2, <1>4

\* What is left to be picked of unscanned orders is all of their units.
LEMMA WholeUnits ==
    ASSUME Rows, NEW S \in SUBSET Orders, \A o \in S : ~Scanned(o)
    PROVE  SumFunctionOnSet(Remaining, S) = Units(S)
<1>1. IsFiniteSet(S)
    BY FS_Subset
<1>2. \A o \in S : Remaining[o] = Qty[o]
    BY DEF Remaining, Rows, Scanned
<1> QED
    BY <1>1, <1>2, SumSame DEF Units

LEMMA RemainingTyped ==
    ASSUME Rows
    PROVE  /\ \A o \in Orders : Remaining[o] \in Int
           /\ IsFiniteSet(Allocated) /\ Allocated \in SUBSET Orders
           /\ LeftFits => \A o \in Allocated : Remaining[o] \in Nat
<1>1. \A o \in Orders : Remaining[o] = Qty[o] - scan[o].units /\ scan[o].units \in Nat
                           /\ removed[o] \in Nat /\ Qty[o] \in Nat
    BY DEF Remaining, Rows
<1>2. Allocated \in SUBSET Orders
    BY DEF Allocated
<1>3. IsFiniteSet(Allocated)
    BY <1>2, FS_Subset
<1>4. ASSUME LeftFits, NEW o \in Allocated
      PROVE  Remaining[o] \in Nat
  <2>1. scan[o].units + removed[o] <= Qty[o] /\ o \in Orders
      BY <1>4 DEF LeftFits, LeftTruth, Allocated
  <2> QED
      BY <1>1, <2>1
<1> QED
    BY <1>1, <1>2, <1>3, <1>4

\* Units that are allocated and were not scanned are reserved.
LEMMA OwnedIsReserved ==
    ASSUME Rows, Books, NEW S \in SUBSET Allocated, \A o \in S : ~Scanned(o)
    PROVE  Units(S) <= truth.reserved
<1>1. SumFunctionOnSet(Remaining, S) <= SumFunctionOnSet(Remaining, Allocated)
    BY RemainingTyped, SumPart DEF Books
<1>2. S \in SUBSET Orders
    BY DEF Allocated
<1>3. SumFunctionOnSet(Remaining, S) = Units(S)
    BY <1>2, WholeUnits
<1> QED
    BY <1>1, <1>3 DEF Books, ReservedIsOwned

\* The units of one allocation.
LEMMA OneUnit ==
    ASSUME NEW o \in Orders
    PROVE  Units({o}) = Qty[o]
  BY SumOne DEF Units

-----------------------------------------------------------------------------
(* How a step may move the sum of what is reserved.                        *)

LEMMA ReservedKept ==
    ASSUME Rows, ReservedIsOwned, truth'.reserved = truth.reserved, alloc' = alloc,
           \A o \in Allocated : scan'[o] = scan[o]
    PROVE  ReservedIsOwned'
<1>1. Allocated' = Allocated
    BY DEF Allocated
<1>2. \A o \in Allocated : Remaining[o] = Remaining'[o]
    BY DEF Allocated, Remaining
<1>3. SumFunctionOnSet(Remaining, Allocated) = SumFunctionOnSet(Remaining', Allocated)
    BY <1>2, RemainingTyped, SumSame
<1> QED
    BY <1>1, <1>3 DEF ReservedIsOwned

LEMMA ReservedGrows ==
    ASSUME Rows, Numbers, ReservedIsOwned, NEW W \in SUBSET Orders, W \cap Allocated = {},
           Allocated' = Allocated \cup W, scan' = scan, \A o \in W : ~Scanned(o),
           truth'.reserved = truth.reserved + Units(W)
    PROVE  ReservedIsOwned'
<1> DEFINE A == Allocated \cup W
<1>1. IsFiniteSet(A) /\ \A o \in A : Remaining[o] \in Int
  <2>1. A \in SUBSET Orders
      BY DEF Allocated
  <2> QED
      BY <2>1, FS_Subset, RemainingTyped
<1>2. W \in SUBSET A /\ A \ W = Allocated
    OBVIOUS
<1>3. SumFunctionOnSet(Remaining, A)
         = SumFunctionOnSet(Remaining, W) + SumFunctionOnSet(Remaining, A \ W)
  <2> HIDE DEF A
  <2> QED
      BY <1>1, <1>2, SumJoin
<1>4. SumFunctionOnSet(Remaining, W) = Units(W)
    BY WholeUnits
<1>5. Remaining' = Remaining
    BY DEF Remaining
<1>6. truth.reserved \in Int /\ Units(W) \in Int
    BY UnitsAreNat DEF Numbers
<1>7. truth.reserved = SumFunctionOnSet(Remaining, Allocated)
    BY DEF ReservedIsOwned
<1>8. SumFunctionOnSet(Remaining, A) = Units(W) + truth.reserved
    BY <1>2, <1>3, <1>4, <1>7
<1>9. truth'.reserved = SumFunctionOnSet(Remaining, A)
    BY <1>6, <1>8
<1>10. Allocated' = A
    OBVIOUS
<1> HIDE DEF A
<1> QED
    BY <1>5, <1>9, <1>10 DEF ReservedIsOwned

LEMMA ReservedShrinks ==
    ASSUME Rows, Numbers, ReservedIsOwned, NEW B \in SUBSET Allocated,
           Allocated' = Allocated \ B, scan' = scan, \A o \in B : ~Scanned(o),
           truth'.reserved = truth.reserved - Units(B)
    PROVE  ReservedIsOwned'
<1>1. SumFunctionOnSet(Remaining, Allocated)
         = SumFunctionOnSet(Remaining, B) + SumFunctionOnSet(Remaining, Allocated \ B)
  <2>1. \A o \in Allocated : Remaining[o] \in Int
      BY RemainingTyped
  <2> QED
      BY <2>1, RemainingTyped, SumJoin
<1>2. B \in SUBSET Orders
    BY DEF Allocated
<1>3. SumFunctionOnSet(Remaining, B) = Units(B)
    BY <1>2, WholeUnits
<1>4. Remaining' = Remaining
    BY DEF Remaining
<1>5. truth.reserved \in Int /\ Units(B) \in Int /\ SumFunctionOnSet(Remaining, Allocated \ B) \in Int
  <2>1. IsFiniteSet(Allocated \ B) /\ \A o \in Allocated \ B : Remaining[o] \in Int
      BY RemainingTyped, FS_Subset
  <2>2. SumFunctionOnSet(Remaining, Allocated \ B) \in Int
      BY <2>1, SumInt
  <2> QED
      BY <1>2, <2>2, UnitsAreNat DEF Numbers
<1>6. truth.reserved = SumFunctionOnSet(Remaining, Allocated)
    BY DEF ReservedIsOwned
<1>7. truth'.reserved = SumFunctionOnSet(Remaining, Allocated \ B)
    BY <1>1, <1>3, <1>5, <1>6
<1> QED
    BY <1>4, <1>7 DEF ReservedIsOwned

LEMMA ReservedPicked ==
    ASSUME Rows, Rows', Numbers, ReservedIsOwned, NEW o \in Allocated, alloc' = alloc,
           \A p \in Orders : p # o => scan'[p] = scan[p],
           truth'.reserved = truth.reserved - (scan'[o].units - scan[o].units)
    PROVE  ReservedIsOwned'
<1>1. Allocated' = Allocated /\ o \in Orders
    BY DEF Allocated
<1>2. \A p \in Allocated : Remaining[p] \in Int /\ Remaining'[p] \in Int
    BY RemainingTyped DEF Remaining, Rows, Allocated
<1>3. \A p \in Allocated : p # o => Remaining[p] = Remaining'[p]
    BY DEF Remaining, Allocated
<1>4. SumFunctionOnSet(Remaining', Allocated)
         = SumFunctionOnSet(Remaining, Allocated) - Remaining[o] + Remaining'[o]
    BY <1>2, <1>3, RemainingTyped, SumMoves
<1>5. /\ Remaining[o] = Qty[o] - scan[o].units /\ Remaining'[o] = Qty[o] - scan'[o].units
      /\ scan[o].units \in Nat /\ scan'[o].units \in Nat /\ Qty[o] \in Nat
      /\ truth.reserved \in Int
    BY <1>1 DEF Remaining, Rows, Numbers
<1>6. truth.reserved = SumFunctionOnSet(Remaining, Allocated)
    BY DEF ReservedIsOwned
<1>7. ReservedIsOwned' <=> truth'.reserved = SumFunctionOnSet(Remaining', Allocated')
    BY DEF ReservedIsOwned
<1> QED
    BY <1>1, <1>4, <1>5, <1>6, <1>7

-----------------------------------------------------------------------------
(* How a step may move the sum of what has left.                           *)

\* A function on the orders is summed over all of them.
LEMMA OnHandSum == OnHandIsAccounted <=> LeftFits /\ LedgerFits
<1>1. DOMAIN Left = Orders /\ DOMAIN LedgerOnly = Orders
    BY DEF Left, LedgerOnly
<1>2. /\ SumFunction(Left) = SumFunctionOnSet(Left, Orders)
      /\ SumFunction(LedgerOnly) = SumFunctionOnSet(LedgerOnly, Orders)
    BY <1>1 DEF SumFunction
<1> QED
    BY <1>2 DEF OnHandIsAccounted, LeftFits, LedgerFits

LEMMA LeftTyped ==
    ASSUME Rows
    PROVE  /\ \A o \in Orders : Left[o] = LeftTruth(o) /\ LeftTruth(o) \in Nat
           /\ SumFunctionOnSet(Left, Orders) \in Nat
<1>1. \A o \in Orders : Left[o] = LeftTruth(o)
    BY DEF Left
<1>2. \A o \in Orders : LeftTruth(o) \in Nat
    BY DEF LeftTruth, Rows
<1> QED
    BY <1>1, <1>2, SumNat

LEMMA LeftKept ==
    ASSUME Rows, Numbers, LeftFits, received' \in Nat,
           truth'.onHand = truth.onHand + (received' - received),
           \A o \in Orders : LeftTruth(o)' = LeftTruth(o)
    PROVE  LeftFits'
<1>1. Left' = Left
    BY DEF Left
<1>2. truth.onHand \in Int /\ received \in Nat
    BY DEF Numbers, Rows
<1> QED
    BY <1>1, <1>2, LeftTyped DEF LeftFits

LEMMA LeftMoves ==
    ASSUME Rows, Rows', Numbers, LeftFits, received' = received, NEW o \in Orders,
           \A p \in Orders : p # o => LeftTruth(p)' = LeftTruth(p),
           truth'.onHand = truth.onHand - (LeftTruth(o)' - LeftTruth(o)),
           LeftTruth(o)' <= Qty[o]
    PROVE  LeftFits'
<1>1. \A p \in Orders : Left'[p] = LeftTruth(p)' /\ LeftTruth(p)' \in Nat
    BY DEF Left, LeftTruth, Rows
<1>2. \A p \in Orders : Left[p] \in Int /\ Left'[p] \in Int
    BY <1>1, LeftTyped
<1>3. \A p \in Orders : p # o => Left[p] = Left'[p]
    BY <1>1, LeftTyped
<1>4. SumFunctionOnSet(Left', Orders) = SumFunctionOnSet(Left, Orders) - Left[o] + Left'[o]
    BY <1>2, <1>3, SumMoves
<1>5. /\ truth.onHand \in Int /\ received \in Nat /\ SumFunctionOnSet(Left, Orders) \in Nat
      /\ Left[o] = LeftTruth(o) /\ Left[o] \in Nat /\ Left'[o] = LeftTruth(o)' /\ Left'[o] \in Nat
    BY <1>1, LeftTyped DEF Numbers, Rows
<1>6. truth.onHand = Stock + received - SumFunctionOnSet(Left, Orders)
    BY DEF LeftFits
<1>7. truth'.onHand = Stock + received' - SumFunctionOnSet(Left', Orders)
    BY <1>4, <1>5, <1>6
<1>8. \A p \in Orders : LeftTruth(p)' <= Qty[p]
    BY DEF LeftFits
<1> QED
    BY <1>7, <1>8 DEF LeftFits

LEMMA TracedStep == FullInv /\ Next => Traced'
<1> SUFFICES ASSUME FullInv, Next
             PROVE  Traced'
    OBVIOUS
<1>0. Rows /\ Anchored /\ Fresh /\ Whole /\ PoolHoldsNothing /\ Traced
    BY DEF FullInv, Inv, Books
<1>1. CASE Looks
    BY <1>0, <1>1, LooksAreStill DEF Still, Traced, Scanned
<1>2. ASSUME NEW r \in Releases, Reserve(r)
     PROVE  Traced'
    BY <1>2, <1>0 DEF Reserve, BlockLosers, KeepLedger, NoRelease, stockVars, orderVars,
       workVars, pickVars, batchVars, Rows, Anchored, Fresh, Whole, PoolHoldsNothing,
       Traced, Scanned, Owned
<1>3. ASSUME NEW b \in Batches, CancelBatch(b)
     PROVE  Traced'
    BY <1>3, <1>0 DEF CancelBatch, Cancellable, OwnershipProven, Members, Owned, KeepLedger,
       NotAsked, stockVars, orderVars, workVars, pickVars, batchVars, Rows, Anchored, Fresh,
       Whole, PoolHoldsNothing, Traced, Scanned
<1>4. ASSUME NEW u \in Operators, Claim(u)
     PROVE  Traced'
    BY <1>4, <1>0 DEF Claim, NothingSeen, stockVars, orderVars, workVars, pickVars,
       batchVars, Rows, Anchored, Fresh, Whole, PoolHoldsNothing, Traced, Scanned, Owned
<1>5. ASSUME NEW u \in Operators, CompletePick(u)
     PROVE  Traced'
    BY <1>5, <1>0 DEF CompletePick, NothingSeen, stockVars, orderVars, workVars, pickVars,
       batchVars, Rows, Anchored, Fresh, Whole, PoolHoldsNothing, Traced, Scanned, Owned
<1>6. ASSUME NEW u \in Operators, NEW o \in Orders, ScanAllocation(u, o)
     PROVE  Traced'
    BY <1>6, <1>0 DEF ScanAllocation, MayScan, RecordScan, Unlocked, Scanned, stockVars,
       orderVars, workVars, pickVars, batchVars, Rows, Anchored, Fresh, Whole,
       PoolHoldsNothing, Traced, Owned
<1>7. ASSUME NEW u \in Operators, NEW o \in Orders, ScanLine(u, o)
     PROVE  Traced'
    BY <1>7, <1>0 DEF ScanLine, MayScan, RecordScan, Unlocked, stockVars, orderVars,
       workVars, pickVars, batchVars, Rows, Anchored, Fresh, Whole, PoolHoldsNothing,
       Traced, Scanned, Owned
<1>8. ASSUME NEW o \in Orders, NEW found \in 0 .. Qty[o], Report(o, found)
     PROVE  Traced'
  <2>1. UNCHANGED <<status, member, alloc, batch, released>> /\ MayReport(o)
      BY <1>8 DEF Report, ReportShort, ReportMissing, orderVars, workVars, batchVars
  <2>2. \A p \in Orders : p # o => (Scanned(p)' <=> Scanned(p))
      BY <1>8, <1>0, ReportWrites DEF Scanned
  <2>3. (alloc[o] # NoBatch /\ Scanned(o)') => batch[alloc[o]] # "pending"
    <3>1. CASE alloc[o] = member[o]
        BY <2>1, <3>1 DEF MayReport
    <3>2. CASE alloc[o] # member[o]
        BY <1>8, <1>0, <3>2, ReportWrites
    <3> QED
        BY <3>1, <3>2
  <2> QED
      BY <1>0, <2>1, <2>2, <2>3 DEF Traced
<1>9. ASSUME NEW o \in Orders, OrderCancelled(o)
     PROVE  Traced'
  <2>1. /\ UNCHANGED <<scan, released>>
        /\ \A p \in Orders : p # o => member'[p] = member[p] /\ alloc'[p] = alloc[p]
        /\ member'[o] = NoBatch /\ alloc'[o] \in {alloc[o], NoBatch}
        /\ \A b \in Batches : batch'[b] \in {batch[b], "cancelled"}
      BY <1>9, <1>0 DEF OrderCancelled, Rows
  <2>2. ASSUME NEW p \in Orders, alloc'[p] # NoBatch
        PROVE  alloc[p] = alloc'[p] /\ alloc[p] \in Batches
      BY <1>0, <2>1, <2>2 DEF Rows
  <2>3. \A p \in Orders : Scanned(p)' <=> Scanned(p)
      BY <2>1 DEF Scanned
  <2>4. status' = [status EXCEPT ![o] = "cancelled"]
      BY <1>9 DEF OrderCancelled
  <2> QED
      BY <1>0, <2>1, <2>2, <2>3, <2>4 DEF Traced, Rows
<1>10. ASSUME NEW o \in Orders, FulfilledFromAllocation(o)
     PROVE  Traced'
    BY <1>10, <1>0 DEF FulfilledFromAllocation, MarkFulfilled, Unlocked, Outstanding,
       Scanned, Referenced, stockVars, orderVars, workVars, pickVars, batchVars, Rows,
       Anchored, Fresh, Whole, PoolHoldsNothing, Traced, Owned
<1>11. ASSUME NEW o \in Orders, FulfilledFromStock(o)
     PROVE  Traced'
    BY <1>11, <1>0 DEF FulfilledFromStock, MarkFulfilled, Unlocked, Outstanding, Scanned,
       stockVars, orderVars, workVars, pickVars, batchVars, Rows, Anchored, Fresh, Whole,
       PoolHoldsNothing, Traced, Owned
<1>12. ASSUME NEW o \in Orders, FulfilledBeforeOpening(o)
     PROVE  Traced'
    BY <1>12, <1>0 DEF FulfilledBeforeOpening, MarkFulfilled, Unlocked, Outstanding, stockVars,
       orderVars, workVars, pickVars, batchVars, Rows, Anchored, Fresh, Whole,
       PoolHoldsNothing, Traced, Scanned, Owned
<1> QED
    BY <1>1, <1>2, <1>3, <1>4, <1>5, <1>6, <1>7, <1>8, <1>9, <1>10, <1>11, <1>12, AlreadyShips
       DEF Next, Report, Looks

LEMMA PendingStep == FullInv /\ Next => PendingLines'
<1> SUFFICES ASSUME FullInv, Next
             PROVE  PendingLines'
    OBVIOUS
<1>0. Rows /\ Anchored /\ Fresh /\ Whole /\ PoolHoldsNothing /\ Informed /\ PendingLines
    BY DEF FullInv, Inv, Books
<1>1. CASE Looks
    BY <1>0, <1>1, LooksAreStill DEF Still, PendingLines
<1>2. ASSUME NEW r \in Releases, Reserve(r)
     PROVE  PendingLines'
    BY <1>2, <1>0 DEF Reserve, BlockLosers, KeepLedger, NoRelease, stockVars, orderVars,
       workVars, pickVars, batchVars, Rows, Anchored, Fresh, Whole, PoolHoldsNothing,
       Informed, PendingLines, Scanned, TerminalLines
<1>3. ASSUME NEW b \in Batches, CancelBatch(b)
     PROVE  PendingLines'
    BY <1>3, <1>0 DEF CancelBatch, Cancellable, OwnershipProven, Members, Owned, KeepLedger,
       NotAsked, stockVars, orderVars, workVars, pickVars, batchVars, Rows, Anchored, Fresh,
       Whole, PoolHoldsNothing, Informed, PendingLines, Scanned, TerminalLines
<1>4. ASSUME NEW u \in Operators, Claim(u)
     PROVE  PendingLines'
    BY <1>4, <1>0 DEF Claim, NothingSeen, stockVars, orderVars, workVars, pickVars,
       batchVars, Rows, Anchored, Fresh, Whole, PoolHoldsNothing, Informed, PendingLines,
       Scanned, TerminalLines
<1>5. ASSUME NEW u \in Operators, CompletePick(u)
     PROVE  PendingLines'
    BY <1>5, <1>0 DEF CompletePick, NothingSeen, stockVars, orderVars, workVars, pickVars,
       batchVars, Rows, Anchored, Fresh, Whole, PoolHoldsNothing, Informed, PendingLines,
       Scanned, TerminalLines
<1>6. ASSUME NEW u \in Operators, NEW o \in Orders, ScanAllocation(u, o)
     PROVE  PendingLines'
    BY <1>6, <1>0 DEF ScanAllocation, MayScan, RecordScan, Unlocked, Scanned, stockVars,
       orderVars, workVars, pickVars, batchVars, Rows, Anchored, Fresh, Whole,
       PoolHoldsNothing, Informed, PendingLines, TerminalLines
<1>7. ASSUME NEW u \in Operators, NEW o \in Orders, ScanLine(u, o)
     PROVE  PendingLines'
    BY <1>7, <1>0 DEF ScanLine, MayScan, RecordScan, Unlocked, stockVars, orderVars,
       workVars, pickVars, batchVars, Rows, Anchored, Fresh, Whole, PoolHoldsNothing,
       Informed, PendingLines, Scanned, TerminalLines
<1>8. ASSUME NEW o \in Orders, NEW found \in 0 .. Qty[o], Report(o, found)
     PROVE  PendingLines'
    BY <1>8, <1>0 DEF Report, ReportShort, ReportMissing, MayReport, RecordScan, Unlocked,
         Scanned, stockVars, orderVars, workVars,
       pickVars, batchVars, Rows, Anchored, Fresh, Whole, PoolHoldsNothing, Informed,
       PendingLines, TerminalLines
<1>9. ASSUME NEW o \in Orders, OrderCancelled(o)
     PROVE  PendingLines'
    BY <1>9, <1>0 DEF OrderCancelled, Unlocked, Returnable, Referenced, LineUnwound,
       Members, KeepLedger, Scanned, stockVars, orderVars, workVars, pickVars, batchVars,
       Rows, Anchored, Fresh, Whole, PoolHoldsNothing, Informed, PendingLines, TerminalLines
<1>10. ASSUME NEW o \in Orders, FulfilledFromAllocation(o)
     PROVE  PendingLines'
    BY <1>10, <1>0 DEF FulfilledFromAllocation, MarkFulfilled, Unlocked, Outstanding,
       Scanned, Referenced, stockVars, orderVars, workVars, pickVars, batchVars, Rows,
       Anchored, Fresh, Whole, PoolHoldsNothing, Informed, PendingLines, TerminalLines
<1>11. ASSUME NEW o \in Orders, FulfilledFromStock(o)
     PROVE  PendingLines'
    BY <1>11, <1>0 DEF FulfilledFromStock, MarkFulfilled, Unlocked, Outstanding, Scanned,
       stockVars, orderVars, workVars, pickVars, batchVars, Rows, Anchored, Fresh, Whole,
       PoolHoldsNothing, Informed, PendingLines, TerminalLines
<1>12. ASSUME NEW o \in Orders, FulfilledBeforeOpening(o)
     PROVE  PendingLines'
    BY <1>12, <1>0 DEF FulfilledBeforeOpening, MarkFulfilled, Unlocked, Outstanding, stockVars,
       orderVars, workVars, pickVars, batchVars, Rows, Anchored, Fresh, Whole,
       PoolHoldsNothing, Informed, PendingLines, Scanned, TerminalLines
<1> QED
    BY <1>1, <1>2, <1>3, <1>4, <1>5, <1>6, <1>7, <1>8, <1>9, <1>10, <1>11, <1>12, AlreadyShips
       DEF Next, Report, Looks

LEMMA AskedStep == FullInv /\ Next => AskedCovers'
<1> SUFFICES ASSUME FullInv, Next
             PROVE  AskedCovers'
    OBVIOUS
<1>0. /\ Rows /\ Anchored /\ PoolHoldsNothing /\ CancelledHoldsNothing
      /\ Informed /\ Traced /\ PendingLines /\ AskedCovers
    BY DEF FullInv, Inv, Books
<1>1. ASSUME Stow
     PROVE  AskedCovers'
    BY <1>1, <1>0 DEF Stow, stockVars, orderVars, workVars, pickVars, batchVars, Rows,
       Anchored, PoolHoldsNothing, CancelledHoldsNothing, Informed, Traced, PendingLines,
       AskedCovers, Members, Owned, TerminalLines, openVars, NotAsked
<1>2. ASSUME NEW r \in Releases, Choose(r)
     PROVE  AskedCovers'
    BY <1>2, <1>0 DEF Choose, stockVars, orderVars, workVars, pickVars, batchVars, Rows,
       Anchored, PoolHoldsNothing, CancelledHoldsNothing, Informed, Traced, PendingLines,
       AskedCovers, Members, Owned, TerminalLines, openVars, NotAsked
<1>3. ASSUME NEW r \in Releases, Anchor(r)
     PROVE  AskedCovers'
    BY <1>3, <1>0 DEF Anchor, StillEligible, Eligible, Unlocked, GreedyFits, NoRelease,
       stockVars, orderVars, workVars, pickVars, batchVars, Rows, Anchored,
       PoolHoldsNothing, CancelledHoldsNothing, Informed, Traced, PendingLines, AskedCovers,
       Members, Owned, TerminalLines, openVars, NotAsked
<1>4. ASSUME NEW r \in Releases, ReleaseNothing(r)
     PROVE  AskedCovers'
    BY <1>4, <1>0 DEF ReleaseNothing, BlockLosers, NoRelease, stockVars, orderVars,
       workVars, pickVars, batchVars, Rows, Anchored, PoolHoldsNothing,
       CancelledHoldsNothing, Informed, Traced, PendingLines, AskedCovers, Members, Owned,
       TerminalLines, openVars, NotAsked
<1>5. ASSUME NEW r \in Releases, Reserve(r)
     PROVE  AskedCovers'
    BY <1>5, <1>0 DEF Reserve, BlockLosers, KeepLedger, NoRelease, stockVars, orderVars,
       workVars, pickVars, batchVars, Rows, Anchored, PoolHoldsNothing,
       CancelledHoldsNothing, Informed, Traced, PendingLines, AskedCovers, Members, Owned,
       TerminalLines, openVars, NotAsked
<1>6. ASSUME NEW r \in Releases, ReserveConflict(r)
     PROVE  AskedCovers'
    BY <1>6, <1>0 DEF ReserveConflict, NoRelease, stockVars, orderVars, workVars, pickVars,
       batchVars, Rows, Anchored, PoolHoldsNothing, CancelledHoldsNothing, Informed, Traced,
       PendingLines, AskedCovers, Members, Owned, TerminalLines, openVars, NotAsked
<1>7. ASSUME NEW b \in Batches, AskCancel(b)
     PROVE  AskedCovers'
    BY <1>7, <1>0 DEF AskCancel, Members, Owned, stockVars, orderVars, workVars, pickVars,
       batchVars, Rows, Anchored, PoolHoldsNothing, CancelledHoldsNothing, Informed, Traced,
       PendingLines, AskedCovers, TerminalLines, openVars, NotAsked
<1>8. ASSUME NEW b \in Batches, CancelBatch(b)
     PROVE  AskedCovers'
    BY <1>8, <1>0 DEF CancelBatch, Cancellable, OwnershipProven, Members, Owned, KeepLedger,
       NotAsked, stockVars, orderVars, workVars, pickVars, batchVars, Rows, Anchored,
       PoolHoldsNothing, CancelledHoldsNothing, Informed, Traced, PendingLines, AskedCovers,
       TerminalLines, openVars
<1>9. ASSUME NEW b \in Batches, RefuseCancel(b)
     PROVE  AskedCovers'
    BY <1>9, <1>0 DEF RefuseCancel, NotAsked, stockVars, orderVars, workVars, pickVars,
       batchVars, Rows, Anchored, PoolHoldsNothing, CancelledHoldsNothing, Informed, Traced,
       PendingLines, AskedCovers, Members, Owned, TerminalLines, openVars
<1>10. ASSUME NEW u \in Operators, NEW b \in Batches, ReadForClaim(u, b)
     PROVE  AskedCovers'
    BY <1>10, <1>0 DEF ReadForClaim, stockVars, orderVars, workVars, pickVars, batchVars,
       Rows, Anchored, PoolHoldsNothing, CancelledHoldsNothing, Informed, Traced,
       PendingLines, AskedCovers, Members, Owned, TerminalLines, openVars, NotAsked
<1>11. ASSUME NEW u \in Operators, NEW b \in Batches, ReadForComplete(u, b)
     PROVE  AskedCovers'
    BY <1>11, <1>0 DEF ReadForComplete, PickAccounted, Owned, stockVars, orderVars,
       workVars, pickVars, batchVars, Rows, Anchored, PoolHoldsNothing,
       CancelledHoldsNothing, Informed, Traced, PendingLines, AskedCovers, Members,
       TerminalLines, openVars, NotAsked
<1>12. ASSUME NEW u \in Operators, Claim(u)
     PROVE  AskedCovers'
    BY <1>12, <1>0 DEF Claim, NothingSeen, stockVars, orderVars, workVars, pickVars,
       batchVars, Rows, Anchored, PoolHoldsNothing, CancelledHoldsNothing, Informed, Traced,
       PendingLines, AskedCovers, Members, Owned, TerminalLines, openVars, NotAsked
<1>13. ASSUME NEW u \in Operators, CompletePick(u)
     PROVE  AskedCovers'
    BY <1>13, <1>0 DEF CompletePick, NothingSeen, stockVars, orderVars, workVars, pickVars,
       batchVars, Rows, Anchored, PoolHoldsNothing, CancelledHoldsNothing, Informed, Traced,
       PendingLines, AskedCovers, Members, Owned, TerminalLines, openVars, NotAsked
<1>14. ASSUME NEW u \in Operators, NEW o \in Orders, ScanAllocation(u, o)
     PROVE  AskedCovers'
    BY <1>14, <1>0 DEF ScanAllocation, MayScan, RecordScan, Unlocked, Scanned, stockVars,
       orderVars, workVars, pickVars, batchVars, Rows, Anchored, PoolHoldsNothing,
       CancelledHoldsNothing, Informed, Traced, PendingLines, AskedCovers, Members, Owned,
       TerminalLines, openVars, NotAsked
<1>15. ASSUME NEW u \in Operators, NEW o \in Orders, ScanLine(u, o)
     PROVE  AskedCovers'
    BY <1>15, <1>0 DEF ScanLine, MayScan, RecordScan, Unlocked, stockVars, orderVars,
       workVars, pickVars, batchVars, Rows, Anchored, PoolHoldsNothing,
       CancelledHoldsNothing, Informed, Traced, PendingLines, AskedCovers, Members, Owned,
       TerminalLines, openVars, NotAsked
<1>16. ASSUME NEW o \in Orders, NEW found \in 0 .. Qty[o], Report(o, found)
     PROVE  AskedCovers'
    BY <1>16, <1>0 DEF Report, ReportShort, ReportMissing, MayReport, RecordScan, Unlocked,
         Scanned, stockVars, orderVars, workVars,
       pickVars, batchVars, Rows, Anchored, PoolHoldsNothing, CancelledHoldsNothing,
       Informed, Traced, PendingLines, AskedCovers, Members, Owned, TerminalLines, openVars,
       NotAsked
<1>17. ASSUME NEW o \in Orders, Reevaluate(o)
     PROVE  AskedCovers'
    BY <1>17, <1>0 DEF Reevaluate, stockVars, orderVars, workVars, pickVars, batchVars,
       Rows, Anchored, PoolHoldsNothing, CancelledHoldsNothing, Informed, Traced,
       PendingLines, AskedCovers, Members, Owned, TerminalLines, openVars, NotAsked
<1>18. ASSUME NEW o \in Orders, OrderCancelled(o)
     PROVE  AskedCovers'
    BY <1>18, <1>0 DEF OrderCancelled, Unlocked, Returnable, Referenced, LineUnwound,
       Members, KeepLedger, Scanned, stockVars, orderVars, workVars, pickVars, batchVars,
       Rows, Anchored, PoolHoldsNothing, CancelledHoldsNothing, Informed, Traced,
       PendingLines, AskedCovers, Owned, TerminalLines, openVars, NotAsked
<1>19. ASSUME NEW o \in Orders, Quarantine(o)
     PROVE  AskedCovers'
    BY <1>19, <1>0 DEF Quarantine, stockVars, orderVars, workVars, pickVars, batchVars,
       Rows, Anchored, PoolHoldsNothing, CancelledHoldsNothing, Informed, Traced,
       PendingLines, AskedCovers, Members, Owned, TerminalLines, openVars, NotAsked
<1>20. ASSUME NEW o \in Orders, FulfilledFromAllocation(o)
     PROVE  AskedCovers'
    BY <1>20, <1>0 DEF FulfilledFromAllocation, MarkFulfilled, Unlocked, Outstanding,
       Scanned, Referenced, stockVars, orderVars, workVars, pickVars, batchVars, Rows,
       Anchored, PoolHoldsNothing, CancelledHoldsNothing, Informed, Traced, PendingLines,
       AskedCovers, Members, Owned, TerminalLines, openVars, NotAsked
<1>21. ASSUME NEW o \in Orders, FulfilledFromStock(o)
     PROVE  AskedCovers'
    BY <1>21, <1>0 DEF FulfilledFromStock, MarkFulfilled, Unlocked, Outstanding, Scanned,
       stockVars, orderVars, workVars, pickVars, batchVars, Rows, Anchored,
       PoolHoldsNothing, CancelledHoldsNothing, Informed, Traced, PendingLines, AskedCovers,
       Members, Owned, TerminalLines, openVars, NotAsked
<1>22. ASSUME NEW o \in Orders, FulfilledBeforeOpening(o)
     PROVE  AskedCovers'
    BY <1>22, <1>0 DEF FulfilledBeforeOpening, MarkFulfilled, Unlocked, Outstanding, stockVars,
       orderVars, workVars, pickVars, batchVars, Rows, Anchored, PoolHoldsNothing,
       CancelledHoldsNothing, Informed, Traced, PendingLines, AskedCovers, Members, Owned,
       TerminalLines, openVars, NotAsked
<1> QED
    BY <1>1, <1>2, <1>3, <1>4, <1>5, <1>6, <1>7, <1>8, <1>9, <1>10, <1>11, <1>12, <1>13,
       <1>14, <1>15, <1>16, <1>17, <1>18, <1>19, <1>20, <1>21, <1>22, AlreadyShips
       DEF Next, Report

-----------------------------------------------------------------------------
(* What the steps do to the numbers.                                       *)

LEMMA MoveTyped ==
    ASSUME Numbers, NEW a \in Int, NEW b \in Int, NEW c \in Int, Move(a, b, c)
    PROVE  /\ truth' \in [onHand : Int, reserved : Int, available : Int]
           /\ truth'.onHand = truth.onHand + a
           /\ truth'.reserved = truth.reserved + b
           /\ truth'.available = truth.available + c
  BY DEF Move, Numbers

LEMMA BookTyped ==
    ASSUME Numbers, NEW a \in Int, Book(a)
    PROVE  ledger' \in Int /\ levels' \in [low : Int, high : Int]
<1>1. ledger + a \in Int /\ levels.low \in Int /\ levels.high \in Int
    BY DEF Numbers
<1>2. Min({levels.low, ledger + a}) \in Int /\ Max({levels.high, ledger + a}) \in Int
    BY <1>1, MaxMin
<1> QED
    BY <1>1, <1>2 DEF Book

\* The numbers of an order and of a release.
LEMMA UnitsOf ==
    ASSUME Rows
    PROVE  /\ \A o \in Orders : /\ Qty[o] \in Nat /\ Qty[o] > 0
                                /\ scan[o].units \in Nat /\ removed[o] \in Nat
                                /\ Outstanding(o) = Qty[o] - scan[o].units - removed[o]
                                /\ Outstanding(o) \in Int
                                /\ Scanned(o) <=> scan[o].units > 0
           /\ \A r \in Releases : Units(release[r].winners) \in Nat
           /\ \A b \in Batches : Units(Owned(b)) \in Nat
<1>1. \A r \in Releases : release[r].winners \in SUBSET Orders
    BY DEF Rows
<1>2. \A b \in Batches : Owned(b) \in SUBSET Orders
    BY DEF Owned
<1>3. \A o \in Orders : Qty[o] \in Nat /\ Qty[o] > 0 /\ scan[o].units \in Nat /\ removed[o] \in Nat
    BY DEF Rows
<1> QED
    BY <1>1, <1>2, <1>3, UnitsAreNat DEF Outstanding, Scanned

\* A release takes orders that own nothing.
LEMMA WinnersAreFree ==
    ASSUME Inv, NEW r \in Releases, release[r].step = "anchored"
    PROVE  /\ release[r].winners \in SUBSET Orders
           /\ \A o \in release[r].winners : alloc[o] = NoBatch /\ ~Scanned(o)
<1>1. release[r].winners \in SUBSET Orders
    BY DEF Inv, Rows
<1>2. \A o \in release[r].winners : status[o] = "open" /\ member[o] = NoBatch
    BY DEF Inv, Anchored
<1> QED
    BY <1>1, <1>2 DEF Inv, PoolHoldsNothing

\* What is given back by a fulfilment is reserved.
LEMMA TakeReservedTyped ==
    ASSUME Rows, Books, NEW o \in Orders, alloc[o] # NoBatch, ~Scanned(o),
           truth' = TakeReserved(o)
    PROVE  /\ truth' \in [onHand : Int, reserved : Int, available : Int]
           /\ truth'.onHand = truth.onHand - Qty[o]
           /\ truth'.reserved = truth.reserved - Qty[o]
           /\ truth'.available = truth.available
<1>1. truth \in [onHand : Int, reserved : Int, available : Int] /\ Qty[o] \in Nat
    BY DEF Books, Numbers
<1>2. Qty[o] <= truth.reserved
  <2>1. {o} \in SUBSET Allocated
      BY DEF Allocated
  <2> QED
      BY <2>1, OwnedIsReserved, OneUnit
<1>3. Max({0, truth.reserved - Qty[o]}) = truth.reserved - Qty[o]
  <2>1. 0 \in Int /\ truth.reserved - Qty[o] \in Int
      BY <1>1
  <2>2. Max({0, truth.reserved - Qty[o]})
           = IF 0 >= truth.reserved - Qty[o] THEN 0 ELSE truth.reserved - Qty[o]
      BY <2>1, MaxMin
  <2> QED
      BY <1>1, <1>2, <2>2
<1>4. truth' = [truth EXCEPT !.onHand = truth.onHand - Qty[o],
                             !.reserved = truth.reserved - Qty[o]]
    BY <1>3 DEF TakeReserved
<1>5. truth.onHand - Qty[o] \in Int /\ truth.reserved - Qty[o] \in Int
    BY <1>1
<1> QED
    BY <1>1, <1>4, <1>5

LEMMA NumbersStep == FullInv /\ Next => Numbers'
<1> SUFFICES ASSUME FullInv, Next
             PROVE  Numbers'
    OBVIOUS
<1>0. Rows /\ Books /\ Numbers
    BY DEF FullInv, Inv, Books
<1>1. ASSUME Stow
     PROVE  Numbers'
  <2>1. Move(1, 0, 1) /\ Book(1)
      BY <1>1 DEF Stow
  <2> QED
      BY <1>0, <2>1, MoveTyped, BookTyped DEF Numbers
<1>2. ASSUME NEW r \in Releases, Choose(r)
     PROVE  Numbers'
    BY <1>2, <1>0 DEF Choose, stockVars, Numbers
<1>3. ASSUME NEW r \in Releases, Anchor(r)
     PROVE  Numbers'
    BY <1>3, <1>0 DEF Anchor, stockVars, Numbers
<1>4. ASSUME NEW r \in Releases, ReleaseNothing(r)
     PROVE  Numbers'
    BY <1>4, <1>0 DEF ReleaseNothing, stockVars, Numbers
<1>5. ASSUME NEW r \in Releases, Reserve(r)
     PROVE  Numbers'
  <2> DEFINE units == Units(release[r].winners)
  <2>1. Move(0, units, -units) /\ KeepLedger
      BY <1>5 DEF Reserve
  <2>2. units \in Nat
      BY <1>0, UnitsOf
  <2> HIDE DEF units
  <2>3. -units \in Int
      BY <2>2
  <2> QED
      BY <1>0, <2>1, <2>2, <2>3, MoveTyped DEF KeepLedger, Numbers
<1>6. ASSUME NEW r \in Releases, ReserveConflict(r)
     PROVE  Numbers'
    BY <1>6, <1>0 DEF ReserveConflict, stockVars, Numbers
<1>7. ASSUME NEW b \in Batches, AskCancel(b)
     PROVE  Numbers'
    BY <1>7, <1>0 DEF AskCancel, stockVars, Numbers
<1>8. ASSUME NEW b \in Batches, CancelBatch(b)
     PROVE  Numbers'
  <2> DEFINE units == Units(Owned(b))
  <2>1. Move(0, -units, units) /\ KeepLedger
      BY <1>8 DEF CancelBatch
  <2>2. units \in Nat
      BY <1>0, UnitsOf
  <2> HIDE DEF units
  <2>3. -units \in Int
      BY <2>2
  <2> QED
      BY <1>0, <2>1, <2>2, <2>3, MoveTyped DEF KeepLedger, Numbers
<1>9. ASSUME NEW b \in Batches, RefuseCancel(b)
     PROVE  Numbers'
    BY <1>9, <1>0 DEF RefuseCancel, stockVars, Numbers
<1>10. ASSUME NEW u \in Operators, NEW b \in Batches, ReadForClaim(u, b)
     PROVE  Numbers'
    BY <1>10, <1>0 DEF ReadForClaim, stockVars, Numbers
<1>11. ASSUME NEW u \in Operators, NEW b \in Batches, ReadForComplete(u, b)
     PROVE  Numbers'
    BY <1>11, <1>0 DEF ReadForComplete, stockVars, Numbers
<1>12. ASSUME NEW u \in Operators, Claim(u)
     PROVE  Numbers'
    BY <1>12, <1>0 DEF Claim, stockVars, Numbers
<1>13. ASSUME NEW u \in Operators, CompletePick(u)
     PROVE  Numbers'
    BY <1>13, <1>0 DEF CompletePick, stockVars, Numbers
<1>14. ASSUME NEW u \in Operators, NEW o \in Orders, ScanAllocation(u, o)
     PROVE  Numbers'
  <2>1. Move(-Qty[o], -Qty[o], 0) /\ Book(-Qty[o])
      BY <1>14 DEF ScanAllocation
  <2>2. -Qty[o] \in Int
      OBVIOUS
  <2> QED
      BY <1>0, <2>1, <2>2, MoveTyped, BookTyped DEF Numbers
<1>15. ASSUME NEW u \in Operators, NEW o \in Orders, ScanLine(u, o)
     PROVE  Numbers'
  <2>1. Book(-Qty[o]) /\ truth' = truth
      BY <1>15 DEF ScanLine
  <2>2. -Qty[o] \in Int
      OBVIOUS
  <2> QED
      BY <1>0, <2>1, <2>2, BookTyped DEF Numbers
<1>16. ASSUME NEW o \in Orders, NEW found \in 0 .. Qty[o], Report(o, found)
     PROVE  Numbers'
  <2>1. -found \in Int
      OBVIOUS
  <2>2. CASE ReportShort(o, found)
    <3>1. Move(-found, -found, 0) /\ Book(-found)
        BY <2>2 DEF ReportShort
    <3> QED
        BY <1>0, <2>1, <3>1, MoveTyped, BookTyped DEF Numbers
  <2>3. CASE ReportMissing(o, found)
      BY <1>0, <2>3 DEF ReportMissing, stockVars, Numbers
  <2> QED
      BY <1>16, <2>2, <2>3 DEF Report
<1>17. ASSUME NEW o \in Orders, Reevaluate(o)
     PROVE  Numbers'
    BY <1>17, <1>0 DEF Reevaluate, stockVars, Numbers
<1>18. ASSUME NEW o \in Orders, OrderCancelled(o)
     PROVE  Numbers'
  <2>1. -Qty[o] \in Int /\ Qty[o] \in Int
      OBVIOUS
  <2>2. KeepLedger /\ (Move(0, -Qty[o], Qty[o]) \/ UNCHANGED truth)
      BY <1>18 DEF OrderCancelled
  <2> QED
      BY <1>0, <2>1, <2>2, MoveTyped DEF KeepLedger, Numbers
<1>19. ASSUME NEW o \in Orders, Quarantine(o)
     PROVE  Numbers'
    BY <1>19, <1>0 DEF Quarantine, stockVars, Numbers
<1>20. ASSUME NEW o \in Orders, FulfilledFromAllocation(o)
     PROVE  Numbers'
  <2>1. alloc[o] # NoBatch /\ ~Scanned(o) /\ truth' = TakeReserved(o) /\ Book(-Qty[o])
      BY <1>20 DEF FulfilledFromAllocation
  <2>2. -Qty[o] \in Int
      OBVIOUS
  <2> QED
      BY <1>0, <2>1, <2>2, TakeReservedTyped, BookTyped DEF Numbers
<1>21. ASSUME NEW o \in Orders, FulfilledFromStock(o)
     PROVE  Numbers'
  <2>1. Outstanding(o) \in Int /\ -Outstanding(o) \in Int
      BY <1>0, UnitsOf
  <2>2. CASE UNCHANGED <<truth, ledger, levels>>
      BY <1>0, <2>2 DEF Numbers
  <2>3. CASE /\ truth' = [truth EXCEPT !.onHand = @ - Outstanding(o),
                                       !.available = Max({0, @ - Outstanding(o)})]
             /\ Book(-Outstanding(o))
    <3>1. truth.available \in Int /\ 0 \in Int /\ truth.available - Outstanding(o) \in Int
        BY <1>0, <2>1 DEF Numbers
    <3>2. Max({0, truth.available - Outstanding(o)}) \in Int
        BY <3>1, MaxMin
    <3> DEFINE left == truth.onHand - Outstanding(o)
               free == Max({0, truth.available - Outstanding(o)})
    <3>3. truth' = [truth EXCEPT !.onHand = left, !.available = free]
        BY <2>3
    <3>4. left \in Int /\ free \in Int
        BY <1>0, <2>1, <3>2 DEF Numbers
    <3> HIDE DEF left, free
    <3>5. truth' \in [onHand : Int, reserved : Int, available : Int]
        BY <1>0, <3>3, <3>4 DEF Numbers
    <3> QED
        BY <1>0, <2>1, <2>3, <3>5, BookTyped DEF Numbers
  <2> QED
      BY <1>21, <2>2, <2>3 DEF FulfilledFromStock
<1>22. ASSUME NEW o \in Orders, FulfilledBeforeOpening(o)
     PROVE  Numbers'
    BY <1>22, <1>0 DEF FulfilledBeforeOpening, stockVars, Numbers
<1> QED
    BY <1>1, <1>2, <1>3, <1>4, <1>5, <1>6, <1>7, <1>8, <1>9, <1>10, <1>11, <1>12, <1>13,
       <1>14, <1>15, <1>16, <1>17, <1>18, <1>19, <1>20, <1>21, <1>22, AlreadyShips
       DEF Next, Report

LEMMA ReservedStep == FullInv /\ Next => ReservedIsOwned'
<1> SUFFICES ASSUME FullInv, Next
             PROVE  ReservedIsOwned'
    OBVIOUS
<1>0. Inv /\ Rows /\ Fresh /\ Whole /\ Books /\ Numbers /\ ReservedIsOwned
    BY DEF FullInv, Inv, Books
<1>1. ASSUME Stow
     PROVE  ReservedIsOwned'
  <2>1. truth'.reserved = truth.reserved /\ alloc' = alloc /\ scan' = scan
      BY <1>1, <1>0 DEF Stow, stockVars, workVars, pickVars, Move, Numbers
  <2> QED
      BY <1>0, <2>1, ReservedKept
<1>2. ASSUME NEW r \in Releases, Choose(r)
     PROVE  ReservedIsOwned'
  <2>1. truth'.reserved = truth.reserved /\ alloc' = alloc /\ scan' = scan
      BY <1>2, <1>0 DEF Choose, stockVars, workVars, pickVars
  <2> QED
      BY <1>0, <2>1, ReservedKept
<1>3. ASSUME NEW r \in Releases, Anchor(r)
     PROVE  ReservedIsOwned'
  <2>1. truth'.reserved = truth.reserved /\ alloc' = alloc /\ scan' = scan
      BY <1>3, <1>0 DEF Anchor, stockVars, workVars, pickVars
  <2> QED
      BY <1>0, <2>1, ReservedKept
<1>4. ASSUME NEW r \in Releases, ReleaseNothing(r)
     PROVE  ReservedIsOwned'
  <2>1. truth'.reserved = truth.reserved /\ alloc' = alloc /\ scan' = scan
      BY <1>4, <1>0 DEF ReleaseNothing, stockVars, workVars, pickVars
  <2> QED
      BY <1>0, <2>1, ReservedKept
<1>5. ASSUME NEW r \in Releases, Reserve(r)
     PROVE  ReservedIsOwned'
  <2> DEFINE W == release[r].winners
  <2>1. W \in SUBSET Orders /\ \A o \in W : alloc[o] = NoBatch /\ ~Scanned(o)
      BY <1>5, <1>0, WinnersAreFree DEF Reserve
  <2>2. PICK b \in Batches : alloc' = [o \in Orders |-> IF o \in W THEN b ELSE alloc[o]]
      BY <1>5 DEF Reserve
  <2>3. Move(0, Units(W), -Units(W)) /\ scan' = scan
      BY <1>5 DEF Reserve, pickVars
  <2>4. Units(W) \in Nat /\ -Units(W) \in Int
      BY <2>1, UnitsAreNat
  <2> HIDE DEF W
  <2>5. truth'.reserved = truth.reserved + Units(W)
      BY <1>0, <2>3, <2>4, MoveTyped
  <2>6. W \cap Allocated = {} /\ Allocated' = Allocated \cup W
      BY <1>0, <2>1, <2>2 DEF Allocated, Rows
  <2> QED
      BY <1>0, <2>1, <2>3, <2>5, <2>6, ReservedGrows
<1>6. ASSUME NEW r \in Releases, ReserveConflict(r)
     PROVE  ReservedIsOwned'
  <2>1. truth'.reserved = truth.reserved /\ alloc' = alloc /\ scan' = scan
      BY <1>6, <1>0 DEF ReserveConflict, stockVars, workVars, pickVars
  <2> QED
      BY <1>0, <2>1, ReservedKept
<1>7. ASSUME NEW b \in Batches, AskCancel(b)
     PROVE  ReservedIsOwned'
  <2>1. truth'.reserved = truth.reserved /\ alloc' = alloc /\ scan' = scan
      BY <1>7, <1>0 DEF AskCancel, stockVars, workVars, pickVars
  <2> QED
      BY <1>0, <2>1, ReservedKept
<1>8. ASSUME NEW b \in Batches, CancelBatch(b)
     PROVE  ReservedIsOwned'
  <2> DEFINE B == Owned(b)
  <2>1. \A o \in B : ~Scanned(o)
      BY <1>8 DEF CancelBatch, Cancellable, OwnershipProven
  <2>2. Move(0, -Units(B), Units(B)) /\ scan' = scan
      BY <1>8 DEF CancelBatch, pickVars
  <2>3. B \in SUBSET Allocated /\ Allocated' = Allocated \ B
      BY <1>8, <1>0 DEF CancelBatch, Owned, Allocated, Rows
  <2>4. Units(B) \in Nat /\ -Units(B) \in Int
      BY <1>0, UnitsOf
  <2> HIDE DEF B
  <2>5. truth'.reserved = truth.reserved - Units(B)
    <3>1. truth'.reserved = truth.reserved + (-Units(B))
        BY <1>0, <2>2, <2>4, MoveTyped
    <3> QED
        BY <1>0, <2>4, <3>1 DEF Numbers
  <2> QED
      BY <1>0, <2>1, <2>2, <2>3, <2>5, ReservedShrinks
<1>9. ASSUME NEW b \in Batches, RefuseCancel(b)
     PROVE  ReservedIsOwned'
  <2>1. truth'.reserved = truth.reserved /\ alloc' = alloc /\ scan' = scan
      BY <1>9, <1>0 DEF RefuseCancel, stockVars, workVars, pickVars
  <2> QED
      BY <1>0, <2>1, ReservedKept
<1>10. ASSUME NEW u \in Operators, NEW b \in Batches, ReadForClaim(u, b)
     PROVE  ReservedIsOwned'
  <2>1. truth'.reserved = truth.reserved /\ alloc' = alloc /\ scan' = scan
      BY <1>10, <1>0 DEF ReadForClaim, stockVars, workVars, pickVars
  <2> QED
      BY <1>0, <2>1, ReservedKept
<1>11. ASSUME NEW u \in Operators, NEW b \in Batches, ReadForComplete(u, b)
     PROVE  ReservedIsOwned'
  <2>1. truth'.reserved = truth.reserved /\ alloc' = alloc /\ scan' = scan
      BY <1>11, <1>0 DEF ReadForComplete, stockVars, workVars, pickVars
  <2> QED
      BY <1>0, <2>1, ReservedKept
<1>12. ASSUME NEW u \in Operators, Claim(u)
     PROVE  ReservedIsOwned'
  <2>1. truth'.reserved = truth.reserved /\ alloc' = alloc /\ scan' = scan
      BY <1>12, <1>0 DEF Claim, stockVars, workVars, pickVars
  <2> QED
      BY <1>0, <2>1, ReservedKept
<1>13. ASSUME NEW u \in Operators, CompletePick(u)
     PROVE  ReservedIsOwned'
  <2>1. truth'.reserved = truth.reserved /\ alloc' = alloc /\ scan' = scan
      BY <1>13, <1>0 DEF CompletePick, stockVars, workVars, pickVars
  <2> QED
      BY <1>0, <2>1, ReservedKept
<1>14. ASSUME NEW u \in Operators, NEW o \in Orders, ScanAllocation(u, o)
     PROVE  ReservedIsOwned'
  <2>1. /\ Move(-Qty[o], -Qty[o], 0) /\ alloc' = alloc /\ ~Scanned(o)
        /\ scan' = [scan EXCEPT ![o] = [batch |-> member[o], units |-> Qty[o]]]
        /\ alloc[o] # NoBatch
      BY <1>14 DEF ScanAllocation, MayScan, RecordScan
  <2>2. o \in Allocated /\ -Qty[o] \in Int /\ scan[o].units = 0 /\ Qty[o] \in Nat
      BY <1>0, <2>1 DEF Allocated, Scanned, Rows
  <2>3. scan'[o].units = Qty[o] /\ \A p \in Orders : p # o => scan'[p] = scan[p]
      BY <1>0, <2>1 DEF Rows
  <2>4. truth'.reserved = truth.reserved - (scan'[o].units - scan[o].units)
    <3>1. truth'.reserved = truth.reserved + (-Qty[o])
        BY <1>0, <2>1, <2>2, MoveTyped
    <3> QED
        BY <1>0, <2>2, <2>3, <3>1 DEF Numbers
  <2> QED
      BY <1>0, <2>1, <2>2, <2>3, <2>4, RowsStep, ReservedPicked
<1>15. ASSUME NEW u \in Operators, NEW o \in Orders, ScanLine(u, o)
     PROVE  ReservedIsOwned'
  <2>1. truth'.reserved = truth.reserved /\ alloc' = alloc /\ alloc[o] = NoBatch
      BY <1>15, <1>0 DEF ScanLine, MayScan, Fresh
  <2>2. \A p \in Allocated : scan'[p] = scan[p]
      BY <1>15, <1>0, <2>1 DEF ScanLine, RecordScan, Allocated, Rows
  <2> QED
      BY <1>0, <2>1, <2>2, ReservedKept
<1>16. ASSUME NEW o \in Orders, NEW found \in 0 .. Qty[o], Report(o, found)
     PROVE  ReservedIsOwned'
  <2>1. CASE ReportMissing(o, found)
    <3>1. truth' = truth /\ scan' = scan /\ alloc' = alloc
        BY <2>1 DEF ReportMissing, stockVars, workVars
    <3> QED
        BY <1>0, <3>1, ReservedKept
  <2>2. CASE ReportShort(o, found)
    <3>1. /\ Move(-found, -found, 0) /\ alloc' = alloc /\ ~Scanned(o) /\ alloc[o] # NoBatch
          /\ scan' = [scan EXCEPT ![o] = [batch |-> member[o], units |-> found]]
        BY <2>2 DEF ReportShort, MayReport, RecordScan, workVars
    <3>2. o \in Allocated /\ -found \in Int /\ scan[o].units = 0 /\ found \in Nat
        BY <1>0, <3>1 DEF Allocated, Scanned, Rows
    <3>3. scan'[o].units = found /\ \A p \in Orders : p # o => scan'[p] = scan[p]
        BY <1>0, <3>1 DEF Rows
    <3>4. truth'.reserved = truth.reserved - (scan'[o].units - scan[o].units)
      <4>1. truth'.reserved = truth.reserved + (-found)
          BY <1>0, <3>1, <3>2, MoveTyped
      <4> QED
          BY <1>0, <3>2, <3>3, <4>1 DEF Numbers
    <3> QED
        BY <1>0, <3>1, <3>2, <3>3, <3>4, RowsStep, ReservedPicked
  <2> QED
      BY <1>16, <2>1, <2>2 DEF Report
<1>17. ASSUME NEW o \in Orders, Reevaluate(o)
     PROVE  ReservedIsOwned'
  <2>1. truth'.reserved = truth.reserved /\ alloc' = alloc /\ scan' = scan
      BY <1>17, <1>0 DEF Reevaluate, stockVars, workVars, pickVars
  <2> QED
      BY <1>0, <2>1, ReservedKept
<1>18. ASSUME NEW o \in Orders, OrderCancelled(o)
     PROVE  ReservedIsOwned'
  <2>1. CASE truth' = truth /\ alloc' = alloc
    <3>1. scan' = scan
        BY <1>18 DEF OrderCancelled
    <3> QED
        BY <1>0, <2>1, <3>1, ReservedKept
  <2>2. CASE /\ Move(0, -Qty[o], Qty[o]) /\ alloc[o] # NoBatch /\ ~Scanned(o)
             /\ alloc' = [alloc EXCEPT ![o] = NoBatch]
    <3>1. {o} \in SUBSET Allocated /\ Allocated' = Allocated \ {o} /\ scan' = scan
        BY <1>18, <1>0, <2>2 DEF OrderCancelled, Allocated, Rows
    <3>2. Qty[o] \in Int /\ -Qty[o] \in Int
        OBVIOUS
    <3>3. truth'.reserved = truth.reserved - Units({o})
      <4>1. truth'.reserved = truth.reserved + (-Qty[o])
          BY <1>0, <2>2, <3>2, MoveTyped
      <4> QED
          BY <1>0, <4>1, <3>2, OneUnit DEF Numbers
    <3> QED
        BY <1>0, <2>2, <3>1, <3>3, ReservedShrinks
  <2> QED
      BY <1>18, <2>1, <2>2 DEF OrderCancelled, Returnable
<1>19. ASSUME NEW o \in Orders, Quarantine(o)
     PROVE  ReservedIsOwned'
  <2>1. truth'.reserved = truth.reserved /\ alloc' = alloc /\ scan' = scan
      BY <1>19, <1>0 DEF Quarantine, stockVars, workVars, pickVars
  <2> QED
      BY <1>0, <2>1, ReservedKept
<1>20. ASSUME NEW o \in Orders, FulfilledFromAllocation(o)
     PROVE  ReservedIsOwned'
  <2>1. /\ alloc[o] # NoBatch /\ ~Scanned(o) /\ truth' = TakeReserved(o)
        /\ alloc' = [alloc EXCEPT ![o] = NoBatch] /\ scan' = scan
      BY <1>20 DEF FulfilledFromAllocation
  <2>2. {o} \in SUBSET Allocated /\ Allocated' = Allocated \ {o}
      BY <1>0, <2>1 DEF Allocated, Rows
  <2>3. truth'.reserved = truth.reserved - Units({o})
      BY <1>0, <2>1, TakeReservedTyped, OneUnit
  <2> QED
      BY <1>0, <2>1, <2>2, <2>3, ReservedShrinks
<1>21. ASSUME NEW o \in Orders, FulfilledFromStock(o)
     PROVE  ReservedIsOwned'
  <2>1. truth'.reserved = truth.reserved /\ alloc' = alloc /\ scan' = scan
      BY <1>21, <1>0 DEF FulfilledFromStock, Numbers
  <2> QED
      BY <1>0, <2>1, ReservedKept
<1>22. ASSUME NEW o \in Orders, FulfilledBeforeOpening(o)
     PROVE  ReservedIsOwned'
  <2>1. truth'.reserved = truth.reserved /\ alloc' = alloc /\ scan' = scan
      BY <1>22, <1>0 DEF FulfilledBeforeOpening, stockVars, workVars, pickVars
  <2> QED
      BY <1>0, <2>1, ReservedKept
<1> QED
    BY <1>1, <1>2, <1>3, <1>4, <1>5, <1>6, <1>7, <1>8, <1>9, <1>10, <1>11, <1>12, <1>13,
       <1>14, <1>15, <1>16, <1>17, <1>18, <1>19, <1>20, <1>21, <1>22, AlreadyShips
       DEF Next, Report

\* What leaves the shelf is unchanged: two ways to see it.
LEMMA LeftKeeps ==
    ASSUME Rows, Numbers, LeftFits, received' = received,
           truth'.onHand = truth.onHand, \A o \in Orders : LeftTruth(o)' = LeftTruth(o)
    PROVE  LeftFits'
<1>1. received \in Nat /\ truth.onHand \in Int
    BY DEF Rows, Numbers
<1>2. received' \in Nat /\ truth'.onHand = truth.onHand + (received' - received)
    BY <1>1
<1> QED
    BY <1>2, LeftKept

LEMMA LeftStill ==
    ASSUME Rows, Numbers, LeftFits, UNCHANGED <<truth, received, alloc, scan, removed>>
    PROVE  LeftFits'
<1>1. \A o \in Orders : LeftTruth(o)' = LeftTruth(o)
    BY DEF LeftTruth
<1> QED
    BY <1>1, LeftKeeps

LEMMA LeftStep == FullInv /\ Next => LeftFits'
<1> SUFFICES ASSUME FullInv, Next
             PROVE  LeftFits'
    OBVIOUS
<1>0. Inv /\ Rows /\ Fresh /\ Whole /\ Books /\ Numbers /\ LeftFits
    BY DEF FullInv, Inv, Books
<1>1. ASSUME Stow
     PROVE  LeftFits'
  <2>1. UNCHANGED <<alloc, scan, removed>> /\ received' = received + 1 /\ Move(1, 0, 1)
      BY <1>1 DEF Stow, workVars, pickVars
  <2>2. received \in Nat /\ truth.onHand \in Int /\ truth'.onHand = truth.onHand + 1
      BY <1>0, <2>1, MoveTyped DEF Rows, Numbers
  <2>3. received' \in Nat /\ truth'.onHand = truth.onHand + (received' - received)
      BY <2>1, <2>2
  <2>4. \A o \in Orders : LeftTruth(o)' = LeftTruth(o)
      BY <2>1 DEF LeftTruth
  <2> QED
      BY <1>0, <2>3, <2>4, LeftKept
<1>2. ASSUME NEW r \in Releases, Choose(r)
     PROVE  LeftFits'
  <2>1. UNCHANGED <<truth, received, alloc, scan, removed>>
      BY <1>2 DEF Choose, stockVars, workVars, pickVars
  <2> QED
      BY <1>0, <2>1, LeftStill
<1>3. ASSUME NEW r \in Releases, Anchor(r)
     PROVE  LeftFits'
  <2>1. UNCHANGED <<truth, received, alloc, scan, removed>>
      BY <1>3 DEF Anchor, stockVars, workVars, pickVars
  <2> QED
      BY <1>0, <2>1, LeftStill
<1>4. ASSUME NEW r \in Releases, ReleaseNothing(r)
     PROVE  LeftFits'
  <2>1. UNCHANGED <<truth, received, alloc, scan, removed>>
      BY <1>4 DEF ReleaseNothing, stockVars, workVars, pickVars
  <2> QED
      BY <1>0, <2>1, LeftStill
<1>5. ASSUME NEW r \in Releases, Reserve(r)
     PROVE  LeftFits'
  <2> DEFINE W == release[r].winners
  <2>1. W \in SUBSET Orders /\ \A o \in W : alloc[o] = NoBatch /\ ~Scanned(o)
      BY <1>5, <1>0, WinnersAreFree DEF Reserve
  <2>2. PICK b \in Batches : alloc' = [o \in Orders |-> IF o \in W THEN b ELSE alloc[o]]
      BY <1>5 DEF Reserve
  <2>3. /\ Move(0, Units(W), -Units(W)) /\ scan' = scan /\ removed' = removed
        /\ received' = received
      BY <1>5 DEF Reserve, pickVars, KeepLedger
  <2>4. Units(W) \in Nat /\ -Units(W) \in Int
      BY <2>1, UnitsAreNat
  <2> HIDE DEF W
  <2>5. truth'.onHand = truth.onHand
      BY <1>0, <2>3, <2>4, MoveTyped DEF Numbers
  <2>6. \A o \in Orders : LeftTruth(o)' = LeftTruth(o)
      BY <1>0, <2>1, <2>2, <2>3 DEF LeftTruth, Scanned, Rows
  <2> QED
      BY <1>0, <2>3, <2>5, <2>6, LeftKeeps
<1>6. ASSUME NEW r \in Releases, ReserveConflict(r)
     PROVE  LeftFits'
  <2>1. UNCHANGED <<truth, received, alloc, scan, removed>>
      BY <1>6 DEF ReserveConflict, stockVars, workVars, pickVars
  <2> QED
      BY <1>0, <2>1, LeftStill
<1>7. ASSUME NEW b \in Batches, AskCancel(b)
     PROVE  LeftFits'
  <2>1. UNCHANGED <<truth, received, alloc, scan, removed>>
      BY <1>7 DEF AskCancel, stockVars, workVars, pickVars
  <2> QED
      BY <1>0, <2>1, LeftStill
<1>8. ASSUME NEW b \in Batches, CancelBatch(b)
     PROVE  LeftFits'
  <2>1. \A o \in Owned(b) : ~Scanned(o)
      BY <1>8 DEF CancelBatch, Cancellable, OwnershipProven
  <2> DEFINE units == Units(Owned(b))
  <2>2. /\ Move(0, -units, units) /\ scan' = scan /\ removed' = removed /\ received' = received
        /\ alloc' = [o \in Orders |-> IF alloc[o] = b THEN NoBatch ELSE alloc[o]]
      BY <1>8 DEF CancelBatch, pickVars, KeepLedger
  <2>3. units \in Nat /\ -units \in Int
      BY <1>0, UnitsOf
  <2> HIDE DEF units
  <2>4. truth'.onHand = truth.onHand
      BY <1>0, <2>2, <2>3, MoveTyped DEF Numbers
  <2>5. \A o \in Orders : LeftTruth(o)' = LeftTruth(o)
      BY <1>0, <2>1, <2>2 DEF LeftTruth, Scanned, Owned, Rows
  <2> QED
      BY <1>0, <2>2, <2>4, <2>5, LeftKeeps
<1>9. ASSUME NEW b \in Batches, RefuseCancel(b)
     PROVE  LeftFits'
  <2>1. UNCHANGED <<truth, received, alloc, scan, removed>>
      BY <1>9 DEF RefuseCancel, stockVars, workVars, pickVars
  <2> QED
      BY <1>0, <2>1, LeftStill
<1>10. ASSUME NEW u \in Operators, NEW b \in Batches, ReadForClaim(u, b)
     PROVE  LeftFits'
  <2>1. UNCHANGED <<truth, received, alloc, scan, removed>>
      BY <1>10 DEF ReadForClaim, stockVars, workVars, pickVars
  <2> QED
      BY <1>0, <2>1, LeftStill
<1>11. ASSUME NEW u \in Operators, NEW b \in Batches, ReadForComplete(u, b)
     PROVE  LeftFits'
  <2>1. UNCHANGED <<truth, received, alloc, scan, removed>>
      BY <1>11 DEF ReadForComplete, stockVars, workVars, pickVars
  <2> QED
      BY <1>0, <2>1, LeftStill
<1>12. ASSUME NEW u \in Operators, Claim(u)
     PROVE  LeftFits'
  <2>1. UNCHANGED <<truth, received, alloc, scan, removed>>
      BY <1>12 DEF Claim, stockVars, workVars, pickVars
  <2> QED
      BY <1>0, <2>1, LeftStill
<1>13. ASSUME NEW u \in Operators, CompletePick(u)
     PROVE  LeftFits'
  <2>1. UNCHANGED <<truth, received, alloc, scan, removed>>
      BY <1>13 DEF CompletePick, stockVars, workVars, pickVars
  <2> QED
      BY <1>0, <2>1, LeftStill
<1>14. ASSUME NEW u \in Operators, NEW o \in Orders, ScanAllocation(u, o)
     PROVE  LeftFits'
  <2>1. /\ Move(-Qty[o], -Qty[o], 0) /\ UNCHANGED <<alloc, removed, received>> /\ ~Scanned(o)
        /\ scan' = [scan EXCEPT ![o] = [batch |-> member[o], units |-> Qty[o]]]
        /\ alloc[o] # NoBatch
      BY <1>14 DEF ScanAllocation, MayScan, RecordScan
  <2>2. -Qty[o] \in Int /\ scan[o].units = 0 /\ removed[o] = 0 /\ Qty[o] \in Nat
      BY <1>0, <2>1 DEF Scanned, Rows, Whole
  <2>3. /\ LeftTruth(o)' = Qty[o] /\ LeftTruth(o) = 0
        /\ \A p \in Orders : p # o => LeftTruth(p)' = LeftTruth(p)
      BY <1>0, <2>1, <2>2 DEF LeftTruth, Rows
  <2>4. truth'.onHand = truth.onHand - (LeftTruth(o)' - LeftTruth(o))
    <3>1. truth'.onHand = truth.onHand + (-Qty[o])
        BY <1>0, <2>1, <2>2, MoveTyped
    <3> QED
        BY <1>0, <2>2, <2>3, <3>1 DEF Numbers
  <2> QED
      BY <1>0, <2>1, <2>2, <2>3, <2>4, RowsStep, LeftMoves
<1>15. ASSUME NEW u \in Operators, NEW o \in Orders, ScanLine(u, o)
     PROVE  LeftFits'
  <2>1. UNCHANGED <<truth, received, alloc, removed>> /\ alloc[o] = NoBatch
      BY <1>15, <1>0 DEF ScanLine, MayScan, Fresh
  <2>2. \A p \in Orders : LeftTruth(p)' = LeftTruth(p)
      BY <1>15, <1>0, <2>1 DEF ScanLine, RecordScan, LeftTruth, Rows
  <2> QED
      BY <1>0, <2>1, <2>2, LeftKeeps
<1>16. ASSUME NEW o \in Orders, NEW found \in 0 .. Qty[o], Report(o, found)
     PROVE  LeftFits'
  <2>1. CASE ReportMissing(o, found)
    <3>1. UNCHANGED <<truth, received, alloc, scan, removed>>
        BY <2>1 DEF ReportMissing, stockVars, workVars
    <3> QED
        BY <1>0, <3>1, LeftStill
  <2>2. CASE ReportShort(o, found)
    <3>1. /\ Move(-found, -found, 0) /\ ~Scanned(o) /\ alloc[o] # NoBatch
          /\ scan' = [scan EXCEPT ![o] = [batch |-> member[o], units |-> found]]
          /\ UNCHANGED <<alloc, removed, received>>
        BY <2>2 DEF ReportShort, MayReport, RecordScan, workVars
    <3>2. /\ -found \in Int /\ scan[o].units = 0 /\ removed[o] = 0 /\ found \in Nat
          /\ found <= Qty[o]
        BY <1>0, <3>1 DEF Scanned, Rows, Whole
    <3>3. scan'[o].units = found /\ \A p \in Orders : p # o => scan'[p] = scan[p]
        BY <1>0, <3>1 DEF Rows
    <3>4. /\ LeftTruth(o)' = found /\ LeftTruth(o) = 0
          /\ \A p \in Orders : p # o => LeftTruth(p)' = LeftTruth(p)
        BY <3>1, <3>2, <3>3 DEF LeftTruth
    <3>5. truth'.onHand = truth.onHand - (LeftTruth(o)' - LeftTruth(o))
      <4>1. truth'.onHand = truth.onHand + (-found)
          BY <1>0, <3>1, <3>2, MoveTyped
      <4> QED
          BY <1>0, <3>2, <3>4, <4>1 DEF Numbers
    <3> QED
        BY <1>0, <3>1, <3>2, <3>4, <3>5, RowsStep, LeftMoves
  <2> QED
      BY <1>16, <2>1, <2>2 DEF Report
<1>17. ASSUME NEW o \in Orders, Reevaluate(o)
     PROVE  LeftFits'
  <2>1. UNCHANGED <<truth, received, alloc, scan, removed>>
      BY <1>17 DEF Reevaluate, stockVars, workVars, pickVars
  <2> QED
      BY <1>0, <2>1, LeftStill
<1>18. ASSUME NEW o \in Orders, OrderCancelled(o)
     PROVE  LeftFits'
  <2>1. UNCHANGED <<received, scan, removed>>
      BY <1>18 DEF OrderCancelled, KeepLedger
  <2>2. CASE truth' = truth /\ alloc' = alloc
      BY <1>0, <2>1, <2>2, LeftStill
  <2>3. CASE /\ Move(0, -Qty[o], Qty[o]) /\ ~Scanned(o)
             /\ alloc' = [alloc EXCEPT ![o] = NoBatch]
    <3>1. Qty[o] \in Int /\ -Qty[o] \in Int
        OBVIOUS
    <3>2. truth'.onHand = truth.onHand
        BY <1>0, <2>3, <3>1, MoveTyped DEF Numbers
    <3>3. \A p \in Orders : LeftTruth(p)' = LeftTruth(p)
        BY <1>0, <2>1, <2>3 DEF LeftTruth, Scanned, Rows
    <3> QED
        BY <1>0, <2>1, <3>2, <3>3, LeftKeeps
  <2> QED
      BY <1>18, <2>2, <2>3 DEF OrderCancelled, Returnable
<1>19. ASSUME NEW o \in Orders, Quarantine(o)
     PROVE  LeftFits'
  <2>1. UNCHANGED <<truth, received, alloc, scan, removed>>
      BY <1>19 DEF Quarantine, stockVars, workVars, pickVars
  <2> QED
      BY <1>0, <2>1, LeftStill
<1>20. ASSUME NEW o \in Orders, FulfilledFromAllocation(o)
     PROVE  LeftFits'
  <2>1. /\ alloc[o] # NoBatch /\ ~Scanned(o) /\ truth' = TakeReserved(o)
        /\ alloc' = [alloc EXCEPT ![o] = NoBatch] /\ UNCHANGED <<scan, received>>
        /\ removed' = [removed EXCEPT ![o] = removed[o] + Qty[o]]
      BY <1>20 DEF FulfilledFromAllocation
  <2>2. scan[o].units = 0 /\ removed[o] = 0 /\ Qty[o] \in Nat
      BY <1>0, <2>1 DEF Scanned, Rows, Whole
  <2>3. removed'[o] = Qty[o] /\ alloc'[o] = NoBatch
      BY <1>0, <2>1, <2>2 DEF Rows
  <2>4. /\ LeftTruth(o)' = Qty[o] /\ LeftTruth(o) = 0
        /\ \A p \in Orders : p # o => LeftTruth(p)' = LeftTruth(p)
      BY <1>0, <2>1, <2>2, <2>3 DEF LeftTruth, Rows
  <2>5. truth'.onHand = truth.onHand - (LeftTruth(o)' - LeftTruth(o))
    <3>1. truth'.onHand = truth.onHand - Qty[o]
        BY <1>0, <2>1, TakeReservedTyped
    <3> QED
        BY <2>2, <2>4, <3>1
  <2> QED
      BY <1>0, <2>1, <2>2, <2>4, <2>5, RowsStep, LeftMoves
<1>21. ASSUME NEW o \in Orders, FulfilledFromStock(o)
     PROVE  LeftFits'
  <2>1. UNCHANGED <<received, alloc, scan>>
      BY <1>21 DEF FulfilledFromStock
  <2>2. CASE UNCHANGED <<truth, removed>>
      BY <1>0, <2>1, <2>2, LeftStill
  <2>3. CASE /\ truth' = [truth EXCEPT !.onHand = @ - Outstanding(o),
                                       !.available = Max({0, @ - Outstanding(o)})]
             /\ removed' = [removed EXCEPT ![o] = removed[o] + Outstanding(o)]
    <3>1. truth'.onHand = truth.onHand - Outstanding(o)
        BY <1>0, <2>3 DEF Numbers
    <3>2. /\ Qty[o] \in Nat /\ scan[o].units \in Nat /\ removed[o] \in Nat
          /\ Outstanding(o) = Qty[o] - scan[o].units - removed[o]
        BY <1>0, UnitsOf
    <3>3. removed'[o] = Qty[o] - scan[o].units /\ \A p \in Orders : p # o => removed'[p] = removed[p]
        BY <1>0, <2>3, <3>2 DEF Rows
    <3>4. /\ LeftTruth(o)' = LeftTruth(o) + Outstanding(o) /\ LeftTruth(o)' <= Qty[o]
          /\ LeftTruth(o) \in Nat
          /\ \A p \in Orders : p # o => LeftTruth(p)' = LeftTruth(p)
        BY <2>1, <3>2, <3>3 DEF LeftTruth
    <3>5. truth'.onHand = truth.onHand - (LeftTruth(o)' - LeftTruth(o))
      <4>1. Outstanding(o) \in Int /\ truth.onHand \in Int
          BY <1>0, UnitsOf DEF Numbers
      <4> QED
          BY <3>1, <3>4, <4>1
    <3> QED
        BY <1>0, <2>1, <3>4, <3>5, RowsStep, LeftMoves
  <2> QED
      BY <1>21, <2>2, <2>3 DEF FulfilledFromStock
<1>22. ASSUME NEW o \in Orders, FulfilledBeforeOpening(o)
     PROVE  LeftFits'
  <2>1. UNCHANGED <<truth, received, alloc, scan, removed>>
      BY <1>22 DEF FulfilledBeforeOpening, stockVars, workVars, pickVars
  <2> QED
      BY <1>0, <2>1, LeftStill
<1> QED
    BY <1>1, <1>2, <1>3, <1>4, <1>5, <1>6, <1>7, <1>8, <1>9, <1>10, <1>11, <1>12, <1>13,
       <1>14, <1>15, <1>16, <1>17, <1>18, <1>19, <1>20, <1>21, <1>22, AlreadyShips
       DEF Next, Report

-----------------------------------------------------------------------------
(* How far the ledger is from inventory_truth.                              *)

\* A movement that is booked and taken from inventory_truth leaves the distance.
LEMMA BookedMoves ==
    ASSUME Numbers, NEW a \in Int, Book(a), truth'.onHand = truth.onHand + a
    PROVE  ledger' - truth'.onHand = ledger - truth.onHand
<1>1. ledger \in Int /\ truth.onHand \in Int /\ ledger' = ledger + a
    BY DEF Numbers, Book
<1> QED
    BY <1>1

LEMMA LedgerTyped ==
    ASSUME Rows
    PROVE  /\ \A o \in Orders : LedgerOnly[o] = LeftLedgerOnly(o) /\ LeftLedgerOnly(o) \in Nat
           /\ SumFunctionOnSet(LedgerOnly, Orders) \in Nat
<1>1. \A o \in Orders : LedgerOnly[o] = LeftLedgerOnly(o)
    BY DEF LedgerOnly
<1>2. \A o \in Orders : LeftLedgerOnly(o) \in Nat
    BY DEF LeftLedgerOnly, Rows
<1> QED
    BY <1>1, <1>2, SumNat

LEMMA LedgerKept ==
    ASSUME Rows, Numbers, Numbers', LedgerFits,
           ledger' - truth'.onHand = ledger - truth.onHand,
           \A o \in Orders : LeftLedgerOnly(o)' = LeftLedgerOnly(o)
    PROVE  LedgerFits'
<1>1. LedgerOnly' = LedgerOnly
    BY DEF LedgerOnly
<1>2. /\ ledger \in Int /\ truth.onHand \in Int /\ ledger' \in Int /\ truth'.onHand \in Int
    BY DEF Numbers
<1> DEFINE sum == SumFunctionOnSet(LedgerOnly, Orders)
<1>3. sum \in Nat /\ ledger = truth.onHand - sum
    BY LedgerTyped DEF LedgerFits
<1> HIDE DEF sum
<1>4. ledger' = truth'.onHand - sum
    BY <1>2, <1>3
<1> QED
    BY <1>1, <1>4 DEF LedgerFits, sum

\* Scans of a line whose units nobody has allocated.
LEMMA LedgerMoves ==
    ASSUME Rows, Rows', Numbers, LedgerFits, NEW o \in Orders,
           \A p \in Orders : p # o => LeftLedgerOnly(p)' = LeftLedgerOnly(p),
           LeftLedgerOnly(o) = 0, LeftLedgerOnly(o)' = Qty[o],
           truth' = truth, Book(-Qty[o])
    PROVE  LedgerFits'
<1>1. \A p \in Orders : LedgerOnly'[p] = LeftLedgerOnly(p)' /\ LeftLedgerOnly(p)' \in Nat
    BY DEF LedgerOnly, LeftLedgerOnly, Rows
<1>2. \A p \in Orders : LedgerOnly[p] \in Int /\ LedgerOnly'[p] \in Int
    BY <1>1, LedgerTyped
<1>3. \A p \in Orders : p # o => LedgerOnly[p] = LedgerOnly'[p]
    BY <1>1, LedgerTyped
<1>4. SumFunctionOnSet(LedgerOnly', Orders)
         = SumFunctionOnSet(LedgerOnly, Orders) - LedgerOnly[o] + LedgerOnly'[o]
    BY <1>2, <1>3, SumMoves
<1>5. /\ ledger \in Int /\ truth.onHand \in Int /\ Qty[o] \in Nat
      /\ SumFunctionOnSet(LedgerOnly, Orders) \in Nat
      /\ LedgerOnly[o] = 0 /\ LedgerOnly'[o] = Qty[o] /\ ledger' = ledger + (-Qty[o])
    BY <1>1, LedgerTyped DEF Numbers, Book
<1>6. ledger = truth.onHand - SumFunctionOnSet(LedgerOnly, Orders)
    BY DEF LedgerFits
<1>7. ledger' = truth'.onHand - SumFunctionOnSet(LedgerOnly', Orders)
    BY <1>4, <1>5, <1>6
<1> QED
    BY <1>7 DEF LedgerFits

LEMMA LedgerStep == FullInv /\ Next => LedgerFits'
<1> SUFFICES ASSUME FullInv, Next
             PROVE  LedgerFits'
    OBVIOUS
<1>0. /\ Inv /\ Rows /\ Fresh /\ Books /\ Numbers /\ LedgerFits
      /\ Rows' /\ Numbers'
    BY RowsStep, NumbersStep DEF FullInv, Inv, Books
<1>1. ASSUME UNCHANGED <<truth, ledger, alloc, scan>>
      PROVE  LedgerFits'
    BY <1>0, <1>1, LedgerKept DEF LeftLedgerOnly
<1>2. CASE Stow
  <2>1. Move(1, 0, 1) /\ Book(1) /\ UNCHANGED <<alloc, scan>>
      BY <1>2 DEF Stow, workVars, pickVars
  <2>2. truth'.onHand = truth.onHand + 1
      BY <1>0, <2>1, MoveTyped
  <2>3. ledger' - truth'.onHand = ledger - truth.onHand
      BY <1>0, <2>1, <2>2, BookedMoves
  <2> QED
      BY <1>0, <2>1, <2>3, LedgerKept DEF LeftLedgerOnly
<1>3. CASE \/ \E r \in Releases : Choose(r) \/ Anchor(r) \/ ReleaseNothing(r) \/ ReserveConflict(r)
           \/ \E b \in Batches : AskCancel(b) \/ RefuseCancel(b)
           \/ \E u \in Operators, b \in Batches : ReadForClaim(u, b) \/ ReadForComplete(u, b)
    BY <1>1, <1>3 DEF Choose, Anchor, ReleaseNothing, ReserveConflict, AskCancel, RefuseCancel,
       ReadForClaim, ReadForComplete, stockVars, workVars, pickVars
<1>4. CASE \/ \E u \in Operators : Claim(u) \/ CompletePick(u)
           \/ \E o \in Orders : Reevaluate(o) \/ Quarantine(o) \/ FulfilledBeforeOpening(o)
    BY <1>1, <1>4 DEF Claim, CompletePick, Reevaluate, Quarantine, FulfilledBeforeOpening,
       stockVars, workVars, pickVars
<1>5. ASSUME NEW r \in Releases, Reserve(r)
      PROVE  LedgerFits'
  <2> DEFINE W == release[r].winners
  <2>1. W \in SUBSET Orders /\ \A o \in W : alloc[o] = NoBatch /\ ~Scanned(o)
      BY <1>5, <1>0, WinnersAreFree DEF Reserve
  <2>2. PICK b \in Batches : alloc' = [o \in Orders |-> IF o \in W THEN b ELSE alloc[o]]
      BY <1>5 DEF Reserve
  <2>3. Move(0, Units(W), -Units(W)) /\ scan' = scan /\ ledger' = ledger
      BY <1>5 DEF Reserve, pickVars, KeepLedger
  <2>4. Units(W) \in Nat /\ -Units(W) \in Int
      BY <2>1, UnitsAreNat
  <2> HIDE DEF W
  <2>5. truth'.onHand = truth.onHand
      BY <1>0, <2>3, <2>4, MoveTyped DEF Numbers
  <2>6. \A o \in Orders : LeftLedgerOnly(o)' = LeftLedgerOnly(o)
      BY <1>0, <2>1, <2>2, <2>3 DEF LeftLedgerOnly, Scanned, Rows
  <2> QED
      BY <1>0, <2>3, <2>5, <2>6, LedgerKept
<1>6. ASSUME NEW b \in Batches, CancelBatch(b)
      PROVE  LedgerFits'
  <2>1. \A o \in Owned(b) : ~Scanned(o)
      BY <1>6 DEF CancelBatch, Cancellable, OwnershipProven
  <2> DEFINE units == Units(Owned(b))
  <2>2. /\ Move(0, -units, units) /\ scan' = scan /\ ledger' = ledger
        /\ alloc' = [o \in Orders |-> IF alloc[o] = b THEN NoBatch ELSE alloc[o]]
      BY <1>6 DEF CancelBatch, pickVars, KeepLedger
  <2>3. units \in Nat /\ -units \in Int
      BY <1>0, UnitsOf
  <2> HIDE DEF units
  <2>4. truth'.onHand = truth.onHand
      BY <1>0, <2>2, <2>3, MoveTyped DEF Numbers
  <2>5. \A o \in Orders : LeftLedgerOnly(o)' = LeftLedgerOnly(o)
      BY <1>0, <2>1, <2>2 DEF LeftLedgerOnly, Scanned, Owned, Rows
  <2> QED
      BY <1>0, <2>2, <2>4, <2>5, LedgerKept
<1>7. ASSUME NEW u \in Operators, NEW o \in Orders, ScanAllocation(u, o)
      PROVE  LedgerFits'
  <2>1. /\ Move(-Qty[o], -Qty[o], 0) /\ Book(-Qty[o]) /\ alloc' = alloc /\ alloc[o] # NoBatch
        /\ scan' = [scan EXCEPT ![o] = [batch |-> member[o], units |-> Qty[o]]]
      BY <1>7 DEF ScanAllocation, MayScan, RecordScan
  <2>2. -Qty[o] \in Int
      BY <1>0, UnitsOf
  <2>3. ledger' - truth'.onHand = ledger - truth.onHand
      BY <1>0, <2>1, <2>2, MoveTyped, BookedMoves
  <2>4. \A p \in Orders : LeftLedgerOnly(p)' = LeftLedgerOnly(p)
      BY <1>0, <2>1 DEF LeftLedgerOnly, Rows
  <2> QED
      BY <1>0, <2>3, <2>4, LedgerKept
<1>8. ASSUME NEW u \in Operators, NEW o \in Orders, ScanLine(u, o)
      PROVE  LedgerFits'
  <2>1. /\ truth' = truth /\ Book(-Qty[o]) /\ alloc' = alloc /\ alloc[o] = NoBatch
        /\ member[o] # NoBatch /\ scan[o].batch # member[o]
        /\ scan' = [scan EXCEPT ![o] = [batch |-> member[o], units |-> Qty[o]]]
      BY <1>0, <1>8 DEF ScanLine, MayScan, RecordScan, Fresh
  <2>2. scan[o].units = 0 /\ scan'[o].units = Qty[o]
      BY <1>0, <2>1 DEF Fresh, Scanned, Rows
  <2>3. LeftLedgerOnly(o) = 0 /\ LeftLedgerOnly(o)' = Qty[o]
      BY <2>1, <2>2 DEF LeftLedgerOnly
  <2>4. \A p \in Orders : p # o => LeftLedgerOnly(p)' = LeftLedgerOnly(p)
      BY <1>0, <2>1 DEF LeftLedgerOnly, Rows
  <2> QED
      BY <1>0, <2>1, <2>3, <2>4, LedgerMoves
<1>9. ASSUME NEW o \in Orders, NEW found \in 0 .. Qty[o], Report(o, found)
      PROVE  LedgerFits'
  <2>1. CASE ReportMissing(o, found)
      BY <1>1, <2>1 DEF ReportMissing, stockVars, workVars
  <2>2. CASE ReportShort(o, found)
    <3>1. /\ Move(-found, -found, 0) /\ Book(-found) /\ alloc' = alloc /\ alloc[o] # NoBatch
          /\ scan' = [scan EXCEPT ![o] = [batch |-> member[o], units |-> found]]
        BY <2>2 DEF ReportShort, MayReport, RecordScan, workVars
    <3>2. -found \in Int
        OBVIOUS
    <3>3. ledger' - truth'.onHand = ledger - truth.onHand
        BY <1>0, <3>1, <3>2, MoveTyped, BookedMoves
    <3>4. \A p \in Orders : LeftLedgerOnly(p)' = LeftLedgerOnly(p)
        BY <1>0, <3>1 DEF LeftLedgerOnly, Rows
    <3> QED
        BY <1>0, <3>3, <3>4, LedgerKept
  <2> QED
      BY <1>9, <2>1, <2>2 DEF Report
<1>10. ASSUME NEW o \in Orders, OrderCancelled(o)
      PROVE  LedgerFits'
  <2>1. scan' = scan /\ ledger' = ledger
      BY <1>10 DEF OrderCancelled, KeepLedger
  <2>2. CASE truth' = truth /\ alloc' = alloc
      BY <1>1, <2>1, <2>2
  <2>3. CASE /\ Move(0, -Qty[o], Qty[o]) /\ ~Scanned(o)
             /\ alloc' = [alloc EXCEPT ![o] = NoBatch]
    <3>1. Qty[o] \in Int /\ -Qty[o] \in Int
        BY <1>0, UnitsOf
    <3>2. truth'.onHand = truth.onHand
        BY <1>0, <2>3, <3>1, MoveTyped DEF Numbers
    <3>3. \A p \in Orders : LeftLedgerOnly(p)' = LeftLedgerOnly(p)
        BY <1>0, <2>1, <2>3 DEF LeftLedgerOnly, Scanned, Rows
    <3> QED
        BY <1>0, <2>1, <3>2, <3>3, LedgerKept
  <2> QED
      BY <1>10, <2>2, <2>3 DEF OrderCancelled, Returnable
<1>11. ASSUME NEW o \in Orders, FulfilledFromAllocation(o)
      PROVE  LedgerFits'
  <2>1. /\ alloc[o] # NoBatch /\ ~Scanned(o) /\ truth' = TakeReserved(o) /\ Book(-Qty[o])
        /\ alloc' = [alloc EXCEPT ![o] = NoBatch] /\ scan' = scan
      BY <1>11 DEF FulfilledFromAllocation
  <2>2. -Qty[o] \in Int /\ truth'.onHand = truth.onHand + (-Qty[o])
    <3>1. Qty[o] \in Nat /\ truth.onHand \in Int
        BY <1>0, UnitsOf DEF Numbers
    <3> QED
        BY <1>0, <2>1, <3>1, TakeReservedTyped
  <2>3. ledger' - truth'.onHand = ledger - truth.onHand
      BY <1>0, <2>1, <2>2, BookedMoves
  <2>4. \A p \in Orders : LeftLedgerOnly(p)' = LeftLedgerOnly(p)
      BY <1>0, <2>1 DEF LeftLedgerOnly, Scanned, Rows
  <2> QED
      BY <1>0, <2>3, <2>4, LedgerKept
<1>12. ASSUME NEW o \in Orders, FulfilledFromStock(o)
      PROVE  LedgerFits'
  <2>1. UNCHANGED <<alloc, scan>>
      BY <1>12 DEF FulfilledFromStock
  <2>2. CASE UNCHANGED <<truth, ledger>>
      BY <1>1, <2>1, <2>2
  <2>3. CASE /\ truth' = [truth EXCEPT !.onHand = @ - Outstanding(o),
                                       !.available = Max({0, @ - Outstanding(o)})]
             /\ Book(-Outstanding(o))
    <3>1. Outstanding(o) \in Int /\ -Outstanding(o) \in Int /\ truth.onHand \in Int
        BY <1>0, UnitsOf DEF Numbers
    <3>2. truth'.onHand = truth.onHand - Outstanding(o)
        BY <1>0, <2>3 DEF Numbers
    <3>3. truth'.onHand = truth.onHand + (-Outstanding(o))
        BY <3>1, <3>2
    <3>4. ledger' - truth'.onHand = ledger - truth.onHand
        BY <1>0, <2>3, <3>1, <3>3, BookedMoves
    <3> QED
        BY <1>0, <2>1, <3>4, LedgerKept DEF LeftLedgerOnly
  <2> QED
      BY <1>12, <2>2, <2>3 DEF FulfilledFromStock
<1> QED
    BY <1>2, <1>3, <1>4, <1>5, <1>6, <1>7, <1>8, <1>9, <1>10, <1>11, <1>12, AlreadyShips
       DEF Next, Report

-----------------------------------------------------------------------------
(* The whole invariant.                                                    *)

LEMMA InitFull == Init => FullInv
<1> SUFFICES ASSUME Init
             PROVE  FullInv
    OBVIOUS
<1>1. Inv /\ Rows
    BY InitInv DEF Inv
<1>2. Traced /\ PendingLines /\ AskedCovers /\ Allocated = {}
    BY DEF Init, Traced, PendingLines, AskedCovers, Allocated, NotAsked
<1>3. Numbers /\ truth.reserved = 0 /\ truth.onHand = Stock /\ received = 0
    BY DEF Init, Numbers
<1>4. ReservedIsOwned
    BY <1>2, <1>3, SumEmpty DEF ReservedIsOwned
<1>5. \A o \in Orders : LeftTruth(o) = 0
    BY DEF Init, LeftTruth, NoScan
<1>6. SumFunctionOnSet(Left, Orders) = 0
  <2>1. \A o \in Orders : Left[o] = 0
      BY <1>5 DEF Left
  <2> QED
      BY <2>1, SumZero
<1>7. LeftFits
    BY <1>3, <1>5, <1>6 DEF LeftFits
<1>8. LedgerFits
  <2>1. \A o \in Orders : LedgerOnly[o] = 0
      BY DEF Init, LedgerOnly, LeftLedgerOnly, NoScan
  <2>2. SumFunctionOnSet(LedgerOnly, Orders) = 0 /\ ledger = Stock
      BY <2>1, SumZero DEF Init
  <2> QED
      BY <1>3, <2>2 DEF LedgerFits
<1> QED
    BY <1>1, <1>2, <1>3, <1>4, <1>7, <1>8 DEF FullInv, Books

LEMMA FullStutter == FullInv /\ UNCHANGED vars => FullInv'
<1> SUFFICES ASSUME FullInv, UNCHANGED vars
             PROVE  FullInv'
    OBVIOUS
<1>1. UNCHANGED <<truth, ledger, levels, received, status, member, line, alloc, scan, removed,
                  batch, released, asked>>
    BY DEF vars, stockVars, orderVars, workVars, pickVars, batchVars, openVars
<1>2. Inv'
    BY InvStutter DEF FullInv
<1>3. Traced' /\ PendingLines' /\ AskedCovers'
    BY <1>1 DEF FullInv, Traced, PendingLines, AskedCovers, Scanned, Members, Owned
<1>4. Numbers' /\ ReservedIsOwned' /\ LeftFits' /\ LedgerFits'
  <2>1. Rows /\ Numbers /\ ReservedIsOwned /\ LeftFits /\ LedgerFits
      BY DEF FullInv, Inv, Books
  <2>2. Numbers'
      BY <1>1, <2>1 DEF Numbers
  <2>3. ReservedIsOwned'
      BY <1>1, <2>1, ReservedKept
  <2>4. LeftFits'
      BY <1>1, <2>1, LeftStill
  <2>5. LedgerFits'
    <3>1. \A o \in Orders : LeftLedgerOnly(o)' = LeftLedgerOnly(o)
        BY <1>1 DEF LeftLedgerOnly
    <3> QED
        BY <1>1, <2>1, <2>2, <3>1, LedgerKept
  <2> QED
      BY <2>2, <2>3, <2>4, <2>5
<1> QED
    BY <1>2, <1>3, <1>4 DEF FullInv, Books

LEMMA FullInvHolds == Spec => []FullInv
<1>1. Init => FullInv
    BY InitFull
<1>2. FullInv /\ [Next]_vars => FullInv'
  <2>1. FullInv /\ Next => Inv'
      BY InvStep DEF FullInv
  <2>2. FullInv /\ Next => FullInv'
      BY <2>1, TracedStep, PendingStep, AskedStep, NumbersStep, ReservedStep, LeftStep,
         LedgerStep
         DEF FullInv, Books
  <2> QED
      BY <2>2, FullStutter
<1> QED
    BY <1>1, <1>2, PTL DEF Spec

-----------------------------------------------------------------------------
(* A pending batch can be cancelled.                                       *)

LEMMA PendingIsOwned ==
    ASSUME FullInv, NEW b \in Batches, asked.batch = b, batch[b] = "pending",
           ShippedUnreturned(b) = {}
    PROVE  OwnershipProven(b)
<1>1. Rows /\ Books /\ Fresh /\ Whole /\ Traced /\ PendingLines /\ AskedCovers
    BY DEF FullInv, Inv
<1>2. b # NoBatch
    OBVIOUS
<1>3. /\ Members(b) \subseteq asked.members /\ Owned(b) \subseteq asked.members
      /\ \A o \in asked.members \ Members(b) : line[o] \in TerminalLines
    BY <1>1, <1>2 DEF AskedCovers
<1>4. \A o \in Owned(b) : o \in released[b] /\ ~Scanned(o)
    BY <1>1, <1>2 DEF Owned, Traced, Fresh
<1>5. \A o \in Members(b) : line[o] # "none" /\ ((alloc[o] = b) <=> line[o] \notin TerminalLines)
    BY <1>1, <1>2 DEF Members, PendingLines, Whole, Fresh, ShippedUnreturned, TerminalLines
<1>6. Units(Owned(b)) <= Units(released[b])
  <2>1. released[b] \in SUBSET Orders
      BY <1>1 DEF Rows
  <2>2. IsFiniteSet(released[b]) /\ \A o \in released[b] : Qty[o] \in Nat
      BY <2>1, FS_Subset
  <2>3. Owned(b) \in SUBSET released[b]
      BY <1>4
  <2> QED
      BY <2>2, <2>3, SumPart DEF Units
<1>7. Units(Owned(b)) <= truth.reserved
  <2>1. Owned(b) \in SUBSET Allocated
      BY <1>2 DEF Owned, Allocated
  <2> QED
      BY <1>1, <1>4, <2>1, OwnedIsReserved
<1> QED
    BY <1>3, <1>4, <1>5, <1>6, <1>7 DEF OwnershipProven

-----------------------------------------------------------------------------
(* Where available and reserved come to differ from what is on hand.       *)

\* Available and reserved units beyond those on hand.
Slack == truth.available + truth.reserved - truth.onHand

\* Only a fulfilment for which nothing was reserved makes available and reserved
\* disagree with what is on hand; nothing else does, and nothing repairs it.
SlackOnlyFromUnreserved ==
    [][Slack' # Slack =>
         \E o \in Orders : removed'[o] > removed[o] /\ alloc'[o] = alloc[o]]_vars

LEMMA SlackMoves ==
    ASSUME Numbers, NEW a \in Int, NEW b \in Int, NEW c \in Int, a = b + c, Move(a, b, c)
    PROVE  Slack' = Slack
<1>1. /\ truth'.onHand = truth.onHand + a /\ truth'.reserved = truth.reserved + b
      /\ truth'.available = truth.available + c
    BY MoveTyped
<1>2. truth.onHand \in Int /\ truth.reserved \in Int /\ truth.available \in Int
    BY DEF Numbers
<1> QED
    BY <1>1, <1>2 DEF Slack

\* A step that moves the slack removes what nothing was reserved for.
SlackIsFound ==
    Slack' # Slack => \E o \in Orders : removed'[o] > removed[o] /\ alloc'[o] = alloc[o]

LEMMA SlackKept == FullInv /\ Next => SlackIsFound
<1> SUFFICES ASSUME FullInv, Next
             PROVE  SlackIsFound
    OBVIOUS
<1>0. Rows /\ Books /\ Numbers
    BY DEF FullInv, Inv, Books
<1>1. ASSUME Stow
     PROVE  SlackIsFound
  <2>1. Move(1, 0, 1)
      BY <1>1 DEF Stow
  <2> QED
      BY <1>0, <2>1, SlackMoves DEF SlackIsFound
<1>2. ASSUME NEW r \in Releases, Choose(r)
     PROVE  SlackIsFound
    BY <1>2 DEF Choose, SlackIsFound, Slack, stockVars
<1>3. ASSUME NEW r \in Releases, Anchor(r)
     PROVE  SlackIsFound
    BY <1>3 DEF Anchor, SlackIsFound, Slack, stockVars
<1>4. ASSUME NEW r \in Releases, ReleaseNothing(r)
     PROVE  SlackIsFound
    BY <1>4 DEF ReleaseNothing, SlackIsFound, Slack, stockVars
<1>5. ASSUME NEW r \in Releases, Reserve(r)
     PROVE  SlackIsFound
  <2> DEFINE u == Units(release[r].winners)
  <2>1. Move(0, u, -u)
      BY <1>5 DEF Reserve
  <2>2. u \in Nat
      BY <1>0, UnitsOf
  <2> HIDE DEF u
  <2>3. -u \in Int /\ 0 = u + (-u)
      BY <2>2
  <2> QED
      BY <1>0, <2>1, <2>2, <2>3, SlackMoves DEF SlackIsFound
<1>6. ASSUME NEW r \in Releases, ReserveConflict(r)
     PROVE  SlackIsFound
    BY <1>6 DEF ReserveConflict, SlackIsFound, Slack, stockVars
<1>7. ASSUME NEW b \in Batches, AskCancel(b)
     PROVE  SlackIsFound
    BY <1>7 DEF AskCancel, SlackIsFound, Slack, stockVars
<1>8. ASSUME NEW b \in Batches, CancelBatch(b)
     PROVE  SlackIsFound
  <2> DEFINE u == Units(Owned(b))
  <2>1. Move(0, -u, u)
      BY <1>8 DEF CancelBatch
  <2>2. u \in Nat
      BY <1>0, UnitsOf
  <2> HIDE DEF u
  <2>3. -u \in Int /\ 0 = (-u) + u
      BY <2>2
  <2> QED
      BY <1>0, <2>1, <2>2, <2>3, SlackMoves DEF SlackIsFound
<1>9. ASSUME NEW b \in Batches, RefuseCancel(b)
     PROVE  SlackIsFound
    BY <1>9 DEF RefuseCancel, SlackIsFound, Slack, stockVars
<1>10. ASSUME NEW u \in Operators, NEW b \in Batches, ReadForClaim(u, b)
     PROVE  SlackIsFound
    BY <1>10 DEF ReadForClaim, SlackIsFound, Slack, stockVars
<1>11. ASSUME NEW u \in Operators, NEW b \in Batches, ReadForComplete(u, b)
     PROVE  SlackIsFound
    BY <1>11 DEF ReadForComplete, SlackIsFound, Slack, stockVars
<1>12. ASSUME NEW u \in Operators, Claim(u)
     PROVE  SlackIsFound
    BY <1>12 DEF Claim, SlackIsFound, Slack, stockVars
<1>13. ASSUME NEW u \in Operators, CompletePick(u)
     PROVE  SlackIsFound
    BY <1>13 DEF CompletePick, SlackIsFound, Slack, stockVars
<1>14. ASSUME NEW u \in Operators, NEW o \in Orders, ScanAllocation(u, o)
     PROVE  SlackIsFound
  <2>1. CASE truth' = truth
      BY <2>1 DEF SlackIsFound, Slack
  <2>2. CASE Move(-Qty[o], -Qty[o], 0)
    <3>1. Qty[o] \in Int /\ -Qty[o] \in Int /\ -Qty[o] = (-Qty[o]) + 0
        BY <1>0
    <3>2. Slack' = Slack
        BY <1>0, <2>2, <3>1, SlackMoves
    <3> QED
        BY <3>2 DEF SlackIsFound
  <2> QED
      BY <1>14, <2>1, <2>2 DEF ScanAllocation
<1>15. ASSUME NEW u \in Operators, NEW o \in Orders, ScanLine(u, o)
     PROVE  SlackIsFound
    BY <1>15 DEF ScanLine, SlackIsFound, Slack, stockVars
<1>16. ASSUME NEW o \in Orders, NEW found \in 0 .. Qty[o], Report(o, found)
     PROVE  SlackIsFound
  <2>1. CASE ReportMissing(o, found)
      BY <2>1 DEF ReportMissing, SlackIsFound, Slack, stockVars
  <2>2. CASE ReportShort(o, found)
    <3>1. found \in Int /\ -found \in Int /\ -found = (-found) + 0 /\ Move(-found, -found, 0)
        BY <1>0, <2>2 DEF ReportShort
    <3>2. Slack' = Slack
        BY <1>0, <3>1, SlackMoves
    <3> QED
        BY <3>2 DEF SlackIsFound
  <2> QED
      BY <1>16, <2>1, <2>2 DEF Report
<1>17. ASSUME NEW o \in Orders, Reevaluate(o)
     PROVE  SlackIsFound
    BY <1>17 DEF Reevaluate, SlackIsFound, Slack, stockVars
<1>18. ASSUME NEW o \in Orders, OrderCancelled(o)
     PROVE  SlackIsFound
  <2>1. CASE truth' = truth
      BY <2>1 DEF SlackIsFound, Slack
  <2>2. CASE Move(0, -Qty[o], Qty[o])
    <3>1. Qty[o] \in Int /\ -Qty[o] \in Int /\ 0 = -Qty[o] + Qty[o]
        BY <1>0
    <3>2. Slack' = Slack
        BY <1>0, <2>2, <3>1, SlackMoves
    <3> QED
        BY <3>2 DEF SlackIsFound
  <2> QED
      BY <1>18, <2>1, <2>2 DEF OrderCancelled
<1>19. ASSUME NEW o \in Orders, Quarantine(o)
     PROVE  SlackIsFound
    BY <1>19 DEF Quarantine, SlackIsFound, Slack, stockVars
<1>20. ASSUME NEW o \in Orders, FulfilledFromAllocation(o)
     PROVE  SlackIsFound
  <2>1. alloc[o] # NoBatch /\ ~Scanned(o) /\ truth' = TakeReserved(o)
      BY <1>20 DEF FulfilledFromAllocation
  <2>2. /\ truth'.onHand = truth.onHand - Qty[o] /\ truth'.reserved = truth.reserved - Qty[o]
        /\ truth'.available = truth.available
      BY <1>0, <2>1, TakeReservedTyped
  <2>3. truth.onHand \in Int /\ truth.reserved \in Int /\ truth.available \in Int /\ Qty[o] \in Nat
      BY <1>0 DEF Numbers
  <2> QED
      BY <2>2, <2>3 DEF SlackIsFound, Slack
<1>21. ASSUME NEW o \in Orders, FulfilledFromStock(o)
     PROVE  SlackIsFound
  <2>1. CASE truth' = truth
      BY <2>1 DEF SlackIsFound, Slack
  <2>2. CASE removed' = [removed EXCEPT ![o] = removed[o] + Outstanding(o)]
    <3>1. alloc'[o] = alloc[o] /\ Outstanding(o) > 0
        BY <1>21, <1>0 DEF FulfilledFromStock
    <3>2. removed[o] \in Nat /\ Outstanding(o) \in Int
        BY <1>0, UnitsOf
    <3>3. removed'[o] = removed[o] + Outstanding(o)
        BY <1>0, <2>2 DEF Rows
    <3>4. removed'[o] > removed[o]
        BY <3>1, <3>2, <3>3
    <3> QED
        BY <3>1, <3>4 DEF SlackIsFound
  <2> QED
      BY <1>21, <2>1, <2>2 DEF FulfilledFromStock
<1>22. ASSUME NEW o \in Orders, FulfilledBeforeOpening(o)
     PROVE  SlackIsFound
    BY <1>22 DEF FulfilledBeforeOpening, SlackIsFound, Slack, stockVars
<1> QED
    BY <1>1, <1>2, <1>3, <1>4, <1>5, <1>6, <1>7, <1>8, <1>9, <1>10, <1>11, <1>12, <1>13,
       <1>14, <1>15, <1>16, <1>17, <1>18, <1>19, <1>20, <1>21, <1>22, AlreadyShips
       DEF Next, Report

-----------------------------------------------------------------------------
(* The handlers implement the account.                                     *)

LEMMA UnitsAgree == \A S : Account!Units(S) = Units(S)
<1> SUFFICES ASSUME NEW S PROVE Account!Units(S) = Units(S)
    OBVIOUS
<1>1. Account!SumFunctionOnSet(Qty, S) = Table(Qty, S)[S]
    BY DEF Account!SumFunctionOnSet, Account!FoldFunctionOnSet, Account!MapThenFoldSet, Table,
       Round, Any
<1> QED
    BY <1>1, SumIsInTable DEF Account!Units, Units

LEMMA AccountStill ==
    ASSUME UNCHANGED <<truth, alloc, scan, removed>>
    PROVE  [Account!Next]_(Account!vars)
<1>1. Held' = Held /\ Left' = Left
    BY DEF Held, Left, LeftTruth, Remaining
<1> QED
    BY <1>1 DEF Account!vars

\* The units of an order, by its allocation.
LEMMA HeldLeft ==
    ASSUME Rows, NEW o \in Orders
    PROVE  /\ alloc[o] = NoBatch => Held[o] = 0 /\ Left[o] = removed[o]
           /\ alloc[o] # NoBatch => Held[o] = Qty[o] - scan[o].units
                                    /\ Left[o] = scan[o].units + removed[o]
           /\ ~Scanned(o) => scan[o].units = 0
           /\ scan[o].units \in Nat /\ removed[o] \in Nat /\ Qty[o] \in Nat
  BY DEF Held, Left, LeftTruth, Remaining, Scanned, Rows

\* A step that moves the units of one order.
LEMMA MovesOne ==
    ASSUME NEW o \in Orders, NEW h, NEW l,
           Held'[o] = h, Left'[o] = l,
           \A p \in Orders : p # o => Held'[p] = Held[p] /\ Left'[p] = Left[p]
    PROVE  Held' = [Held EXCEPT ![o] = h] /\ Left' = [Left EXCEPT ![o] = l]
<1>1. /\ Held = [p \in Orders |-> Held[p]] /\ Held' = [p \in Orders |-> Held'[p]]
      /\ Left = [p \in Orders |-> Left[p]] /\ Left' = [p \in Orders |-> Left'[p]]
    BY DEF Held, Left
<1> HIDE DEF Held, Left
<1> QED
    BY <1>1

\* A pick, a short pick or a fulfilment from the allocation: n units go.
LEMMA Takes ==
    ASSUME Rows, Numbers, NEW o \in Orders, NEW n \in 1 .. Qty[o],
           Left[o] + n <= Qty[o], n <= Held[o],
           truth'.onHand = truth.onHand - n, truth'.reserved = truth.reserved - n,
           truth'.available = truth.available,
           Held'[o] = Held[o] - n, Left'[o] = Left[o] + n,
           \A p \in Orders : p # o => Held'[p] = Held[p] /\ Left'[p] = Left[p]
    PROVE  [Account!Next]_(Account!vars)
<1>1. /\ Held' = [Held EXCEPT ![o] = Held[o] - n]
      /\ Left' = [Left EXCEPT ![o] = Left[o] + n]
    BY MovesOne
<1>2. Account!Take(o, n)
    BY <1>1 DEF Account!Take, Account!Leave
<1> QED
    BY <1>2 DEF Account!Next

\* Units that were held in full and not touched are given back.
LEMMA Frees ==
    ASSUME Rows, Numbers, NEW S \in SUBSET Orders,
           \A o \in S : alloc[o] # NoBatch /\ ~Scanned(o) /\ removed[o] = 0,
           Move(0, -Units(S), Units(S)), UNCHANGED <<scan, removed>>,
           alloc' = [o \in Orders |-> IF o \in S THEN NoBatch ELSE alloc[o]]
    PROVE  [Account!Next]_(Account!vars)
<1>1. Units(S) \in Nat /\ -Units(S) \in Int
    BY UnitsAreNat
<1>2. /\ truth.onHand \in Int /\ truth.reserved \in Int /\ truth.available \in Int
    BY DEF Numbers
<1>3. /\ truth'.onHand = truth.onHand /\ truth'.reserved = truth.reserved - Units(S)
      /\ truth'.available = truth.available + Units(S)
    BY <1>1, <1>2, MoveTyped
<1>4. \A o \in S : Held[o] = Qty[o] /\ Left[o] = 0
    BY HeldLeft
<1>5. Held' = [o \in Orders |-> IF o \in S THEN 0 ELSE Held[o]]
    BY DEF Held, Remaining
<1>6. Left' = Left
  <2>1. \A o \in Orders : LeftTruth(o)' = LeftTruth(o)
      BY HeldLeft DEF LeftTruth
  <2> QED
      BY <2>1 DEF Left
<1>7. Account!Free(S)
    BY <1>3, <1>4, <1>5, <1>6, UnitsAgree DEF Account!Free
<1> QED
    BY <1>7 DEF Account!Next

LEMMA AccountStep == FullInv /\ Next => [Account!Next]_(Account!vars)
<1> SUFFICES ASSUME FullInv, Next PROVE [Account!Next]_(Account!vars)
    OBVIOUS
<1>0. Inv /\ Rows /\ Fresh /\ Whole /\ Books /\ Numbers /\ LeftFits
    BY DEF FullInv, Inv, Books
<1>1. CASE Stow
  <2>1. Move(1, 0, 1) /\ UNCHANGED <<alloc, scan, removed>>
      BY <1>1 DEF Stow, workVars, pickVars
  <2>2. /\ truth'.onHand = truth.onHand + 1 /\ truth'.reserved = truth.reserved
        /\ truth'.available = truth.available + 1
      BY <1>0, <2>1, MoveTyped DEF Numbers
  <2>3. Held' = Held /\ Left' = Left
      BY <2>1 DEF Held, Left, LeftTruth, Remaining
  <2>4. Account!Receive
      BY <2>2, <2>3 DEF Account!Receive
  <2> QED
      BY <2>4 DEF Account!Next
<1>2. CASE \/ \E r \in Releases : Choose(r) \/ Anchor(r) \/ ReleaseNothing(r) \/ ReserveConflict(r)
           \/ \E b \in Batches : AskCancel(b) \/ RefuseCancel(b)
           \/ \E u \in Operators, b \in Batches : ReadForClaim(u, b) \/ ReadForComplete(u, b)
    BY <1>2, AccountStill DEF Choose, Anchor, ReleaseNothing, ReserveConflict, AskCancel,
       RefuseCancel, ReadForClaim, ReadForComplete, stockVars, workVars, pickVars
<1>3. CASE \/ \E u \in Operators : Claim(u) \/ CompletePick(u)
           \/ \E o \in Orders : Reevaluate(o) \/ Quarantine(o) \/ FulfilledBeforeOpening(o)
    BY <1>3, AccountStill DEF Claim, CompletePick, Reevaluate, Quarantine, FulfilledBeforeOpening,
       stockVars, workVars, pickVars
<1>4. ASSUME NEW r \in Releases, Reserve(r) PROVE [Account!Next]_(Account!vars)
  <2> DEFINE W == release[r].winners
  <2>1. W \in SUBSET Orders /\ \A o \in W : alloc[o] = NoBatch /\ ~Scanned(o)
      BY <1>4, <1>0, WinnersAreFree DEF Reserve
  <2>2. PICK b \in Batches : alloc' = [o \in Orders |-> IF o \in W THEN b ELSE alloc[o]]
      BY <1>4 DEF Reserve
  <2>3. /\ Move(0, Units(W), -Units(W)) /\ scan' = scan /\ removed' = removed
        /\ Units(W) <= truth.available
    <3>1. truth.available >= Units(W)
        BY <1>4 DEF Reserve
    <3>2. Units(W) \in Nat /\ truth.available \in Int
        BY <1>0, <2>1, UnitsAreNat DEF Numbers
    <3> QED
        BY <1>4, <3>1, <3>2 DEF Reserve, pickVars
  <2>4. \A o \in W : removed[o] = 0
      BY <1>4, <1>0, <2>1 DEF Reserve, Anchored, Whole, Inv
  <2>5. Units(W) \in Nat /\ -Units(W) \in Int
      BY <2>1, UnitsAreNat
  <2> HIDE DEF W
  <2>6. /\ truth'.onHand = truth.onHand /\ truth'.reserved = truth.reserved + Units(W)
        /\ truth'.available = truth.available - Units(W)
      BY <1>0, <2>3, <2>5, MoveTyped DEF Numbers
  <2>7. \A o \in W : Held[o] = 0 /\ Left[o] = 0
      BY <1>0, <2>1, <2>4, HeldLeft
  <2>8. Held' = [o \in Orders |-> IF o \in W THEN Qty[o] ELSE Held[o]]
    <3>1. \A o \in W : scan[o].units = 0 /\ Qty[o] \in Nat
        BY <1>0, <2>1, HeldLeft
    <3> QED
        BY <2>1, <2>2, <2>3, <3>1 DEF Held, Remaining
  <2>9. Left' = Left
    <3>1. \A o \in Orders : LeftTruth(o)' = LeftTruth(o)
        BY <1>0, <2>1, <2>2, <2>3, HeldLeft DEF LeftTruth
    <3> QED
        BY <3>1 DEF Left
  <2>10. Account!Hold(W)
      BY <2>3, <2>6, <2>7, <2>8, <2>9, UnitsAgree DEF Account!Hold
  <2> QED
      BY <2>1, <2>10 DEF Account!Next
<1>5. ASSUME NEW b \in Batches, CancelBatch(b) PROVE [Account!Next]_(Account!vars)
  <2>1. \A o \in Owned(b) : ~Scanned(o)
      BY <1>5 DEF CancelBatch, Cancellable, OwnershipProven
  <2>2. \A o \in Owned(b) : alloc[o] # NoBatch /\ removed[o] = 0
      BY <1>0, <2>1 DEF Owned, Whole
  <2>3. /\ Move(0, -Units(Owned(b)), Units(Owned(b))) /\ UNCHANGED <<scan, removed>>
        /\ alloc' = [o \in Orders |-> IF o \in Owned(b) THEN NoBatch ELSE alloc[o]]
        /\ Owned(b) \in SUBSET Orders
      BY <1>5 DEF CancelBatch, pickVars, Owned
  <2> QED
      BY <1>0, <2>1, <2>2, <2>3, Frees
<1>6. ASSUME NEW u \in Operators, NEW o \in Orders, ScanAllocation(u, o)
      PROVE  [Account!Next]_(Account!vars)
  <2>1. /\ Move(-Qty[o], -Qty[o], 0) /\ UNCHANGED <<alloc, removed>> /\ ~Scanned(o)
        /\ alloc[o] # NoBatch
        /\ scan' = [scan EXCEPT ![o] = [batch |-> member[o], units |-> Qty[o]]]
      BY <1>6 DEF ScanAllocation, MayScan, RecordScan
  <2>2. /\ Qty[o] \in Int /\ -Qty[o] \in Int /\ truth.onHand \in Int /\ truth.reserved \in Int
        /\ truth.available \in Int
      BY <1>0 DEF Numbers
  <2>3. /\ truth'.onHand = truth.onHand - Qty[o] /\ truth'.reserved = truth.reserved - Qty[o]
        /\ truth'.available = truth.available
      BY <1>0, <2>1, <2>2, MoveTyped
  <2>4. scan[o].units = 0 /\ removed[o] = 0 /\ Held[o] = Qty[o] /\ Left[o] = 0
      BY <1>0, <2>1, HeldLeft DEF Whole
  <2>5. scan'[o].units = Qty[o] /\ \A p \in Orders : p # o => scan'[p] = scan[p]
      BY <1>0, <2>1 DEF Rows
  <2>6. /\ Held'[o] = Held[o] - Qty[o] /\ Left'[o] = Left[o] + Qty[o]
        /\ \A p \in Orders : p # o => Held'[p] = Held[p] /\ Left'[p] = Left[p]
      BY <2>1, <2>4, <2>5 DEF Held, Left, LeftTruth, Remaining
  <2>7. Qty[o] \in 1 .. Qty[o] /\ Left[o] + Qty[o] <= Qty[o] /\ Qty[o] <= Held[o]
      BY <2>4
  <2> QED
      BY <1>0, <2>3, <2>6, <2>7, Takes
<1>7. ASSUME NEW u \in Operators, NEW o \in Orders, ScanLine(u, o)
      PROVE  [Account!Next]_(Account!vars)
  <2>1. /\ UNCHANGED <<truth, alloc, removed>> /\ alloc[o] = NoBatch
        /\ \A p \in Orders : p # o => scan'[p] = scan[p]
      BY <1>7, <1>0 DEF ScanLine, MayScan, RecordScan, Fresh, Rows
  <2>2. Held' = Held /\ Left' = Left
      BY <2>1 DEF Held, Left, LeftTruth, Remaining
  <2> QED
      BY <2>1, <2>2 DEF Account!vars
<1>8. ASSUME NEW o \in Orders, NEW found \in 0 .. Qty[o], Report(o, found)
      PROVE  [Account!Next]_(Account!vars)
  <2>1. CASE ReportMissing(o, found)
      BY <2>1, AccountStill DEF ReportMissing, stockVars, workVars
  <2>2. CASE ReportShort(o, found)
    <3>1. /\ Move(-found, -found, 0) /\ ~Scanned(o) /\ alloc[o] # NoBatch /\ found > 0
          /\ scan' = [scan EXCEPT ![o] = [batch |-> member[o], units |-> found]]
          /\ UNCHANGED <<alloc, removed>>
        BY <2>2 DEF ReportShort, MayReport, RecordScan, workVars
    <3>2. /\ found \in Int /\ -found \in Int /\ truth.onHand \in Int /\ truth.reserved \in Int
          /\ truth.available \in Int
        BY <1>0 DEF Numbers
    <3>3. /\ truth'.onHand = truth.onHand - found /\ truth'.reserved = truth.reserved - found
          /\ truth'.available = truth.available
        BY <1>0, <3>1, <3>2, MoveTyped
    <3>4. scan[o].units = 0 /\ removed[o] = 0 /\ Held[o] = Qty[o] /\ Left[o] = 0
        BY <1>0, <3>1, HeldLeft DEF Whole
    <3>5. scan'[o].units = found /\ \A p \in Orders : p # o => scan'[p] = scan[p]
        BY <1>0, <3>1 DEF Rows
    <3>6. /\ Held'[o] = Held[o] - found /\ Left'[o] = Left[o] + found
          /\ \A p \in Orders : p # o => Held'[p] = Held[p] /\ Left'[p] = Left[p]
        BY <3>1, <3>4, <3>5 DEF Held, Left, LeftTruth, Remaining
    <3>7. found \in 1 .. Qty[o] /\ Left[o] + found <= Qty[o] /\ found <= Held[o]
        BY <3>1, <3>4
    <3> QED
        BY <1>0, <3>3, <3>6, <3>7, Takes
  <2> QED
      BY <1>8, <2>1, <2>2 DEF Report
<1>9. ASSUME NEW o \in Orders, OrderCancelled(o) PROVE [Account!Next]_(Account!vars)
  <2>1. UNCHANGED <<scan, removed>>
      BY <1>9 DEF OrderCancelled
  <2>2. CASE line[o] \notin TerminalLines /\ Returnable(o)
    <3>1. /\ Move(0, -Qty[o], Qty[o]) /\ alloc' = [alloc EXCEPT ![o] = NoBatch]
          /\ alloc[o] # NoBatch /\ ~Scanned(o) /\ removed[o] = 0
        BY <1>9, <2>2, <1>0 DEF OrderCancelled, Returnable, Whole
    <3>2. alloc' = [p \in Orders |-> IF p \in {o} THEN NoBatch ELSE alloc[p]]
        BY <1>0, <3>1 DEF Rows
    <3>3. Move(0, -Units({o}), Units({o})) /\ {o} \in SUBSET Orders
        BY <3>1, OneUnit
    <3> QED
        BY <1>0, <2>1, <3>1, <3>2, <3>3, Frees
  <2>3. CASE ~(line[o] \notin TerminalLines /\ Returnable(o))
      BY <1>9, <2>1, <2>3, AccountStill DEF OrderCancelled
  <2> QED
      BY <2>2, <2>3
<1>10. ASSUME NEW o \in Orders, FulfilledFromAllocation(o) PROVE [Account!Next]_(Account!vars)
  <2>1. /\ alloc[o] # NoBatch /\ ~Scanned(o) /\ truth' = TakeReserved(o)
        /\ alloc' = [alloc EXCEPT ![o] = NoBatch] /\ scan' = scan
        /\ removed' = [removed EXCEPT ![o] = removed[o] + Qty[o]]
      BY <1>10 DEF FulfilledFromAllocation
  <2>2. scan[o].units = 0 /\ removed[o] = 0 /\ Held[o] = Qty[o] /\ Left[o] = 0 /\ Qty[o] \in Nat
      BY <1>0, <2>1, HeldLeft DEF Whole
  <2>3. /\ truth'.onHand = truth.onHand - Qty[o] /\ truth'.reserved = truth.reserved - Qty[o]
        /\ truth'.available = truth.available
      BY <1>0, <2>1, TakeReservedTyped
  <2>4. /\ removed'[o] = Qty[o] /\ alloc'[o] = NoBatch
        /\ \A p \in Orders : p # o => removed'[p] = removed[p] /\ alloc'[p] = alloc[p]
      BY <1>0, <2>1, <2>2 DEF Rows
  <2>5. /\ Held'[o] = Held[o] - Qty[o] /\ Left'[o] = Left[o] + Qty[o]
        /\ \A p \in Orders : p # o => Held'[p] = Held[p] /\ Left'[p] = Left[p]
      BY <2>1, <2>2, <2>4 DEF Held, Left, LeftTruth, Remaining
  <2>6. Qty[o] \in 1 .. Qty[o] /\ Left[o] + Qty[o] <= Qty[o] /\ Qty[o] <= Held[o]
      BY <2>2
  <2> QED
      BY <1>0, <2>3, <2>5, <2>6, Takes
<1>11. ASSUME NEW o \in Orders, FulfilledFromStock(o) PROVE [Account!Next]_(Account!vars)
  <2> DEFINE n == Outstanding(o)
  <2>1. UNCHANGED <<alloc, scan>> /\ n > 0
      BY <1>11 DEF FulfilledFromStock
  <2>2. CASE UNCHANGED <<truth, removed>>
      BY <2>1, <2>2, AccountStill
  <2>3. CASE /\ truth' = [truth EXCEPT !.onHand = @ - n, !.available = Max({0, @ - n})]
             /\ removed' = [removed EXCEPT ![o] = removed[o] + n]
    <3>1. /\ Qty[o] \in Nat /\ scan[o].units \in Nat /\ removed[o] \in Nat
          /\ n = Qty[o] - scan[o].units - removed[o]
        BY <1>0, UnitsOf
    <3>2. /\ truth \in [onHand : Int, reserved : Int, available : Int]
          /\ truth.available \in Int /\ n \in Int
        BY <1>0, <3>1 DEF Numbers
    <3> HIDE DEF n
    <3>3. Max({0, truth.available - n})
             = IF truth.available < n THEN 0 ELSE truth.available - n
      <4>1. 0 \in Int /\ truth.available - n \in Int
          BY <3>2
      <4>2. Max({0, truth.available - n})
               = IF 0 >= truth.available - n THEN 0 ELSE truth.available - n
          BY <4>1, MaxMin
      <4> QED
          BY <3>2, <4>2
    <3>4. /\ truth'.onHand = truth.onHand - n /\ truth'.reserved = truth.reserved
          /\ truth'.available = IF truth.available < n THEN 0 ELSE truth.available - n
        BY <2>3, <3>2, <3>3
    <3>5. removed'[o] = removed[o] + n /\ \A p \in Orders : p # o => removed'[p] = removed[p]
        BY <1>0, <2>3 DEF Rows
    <3>6. Held' = Held /\ \A p \in Orders : p # o => Left'[p] = Left[p]
        BY <2>1, <3>5 DEF Held, Left, LeftTruth, Remaining
    <3>7. Left'[o] = Left[o] + n /\ Left[o] + n <= Qty[o]
        BY <2>1, <3>1, <3>5 DEF Left, LeftTruth
    <3>8. Left' = [Left EXCEPT ![o] = Left[o] + n]
        BY <3>6, <3>7, MovesOne
    <3>9. n \in 1 .. Qty[o]
        BY <2>1, <3>1
    <3>10. Account!TakeUnheld(o, n)
        BY <3>4, <3>6, <3>7, <3>8 DEF Account!TakeUnheld, Account!Leave
    <3> QED
        BY <3>9, <3>10 DEF Account!Next
  <2> HIDE DEF n
  <2>4. \/ UNCHANGED <<truth, removed>>
        \/ /\ truth' = [truth EXCEPT !.onHand = @ - n, !.available = Max({0, @ - n})]
           /\ removed' = [removed EXCEPT ![o] = removed[o] + n]
      BY <1>11 DEF FulfilledFromStock, n
  <2> QED
      BY <2>2, <2>3, <2>4
<1> QED
    BY <1>1, <1>2, <1>3, <1>4, <1>5, <1>6, <1>7, <1>8, <1>9, <1>10, <1>11, AlreadyShips
       DEF Next, Report

-----------------------------------------------------------------------------

\* All variables have their types (every handler): sums and differences of units never
\* leave the integers, and a fulfilment never removes more than was ordered.
THEOREM TypeCorrect == Spec => []TypeOK
<1>1. FullInv => TypeOK
    BY DEF FullInv, Inv, Books, TypeOK
<1> QED
    BY <1>1, FullInvHolds, PTL

\* What inventory_truth has as reserved is the sum of what the open allocations still
\* have to pick: releases, picks, short picks, fulfilments and both cancellations keep
\* the number and the rows in step.
THEOREM ReservedIsSumOfOwned == Spec => []ReservedIsOwned
<1>1. FullInv => ReservedIsOwned
    BY DEF FullInv, Books
<1> QED
    BY <1>1, FullInvHolds, PTL

\* In inventory_truth every unit that was ever at the location is on hand, or left it
\* once for an order that had asked for it, whichever of picking and fulfilment came
\* first; the ledger is behind by exactly the scans of lines without an allocation.
THEOREM EveryUnitLeavesOnce == Spec => []OnHandIsAccounted
<1>1. FullInv => OnHandIsAccounted
    BY OnHandSum DEF FullInv, Books
<1> QED
    BY <1>1, FullInvHolds, PTL

\* The ownership a pending batch has to prove for its cancellation is never in doubt,
\* whatever was fulfilled or cancelled between the reading of its members and the locks,
\* unless a fulfilment from before the opening balance has shipped one of its lines.
THEOREM PendingCanBeCancelled == Spec => []CancelIsNeverRefused
<1>1. FullInv => CancelIsNeverRefused
    BY PendingIsOwned DEF CancelIsNeverRefused
<1> QED
    BY <1>1, FullInvHolds, PTL

\* Releases, cancellations, picks, short picks and fulfilments, with the batches, the
\* locks and the late reads between them, implement the account: what is held and what
\* has gone for an order moves with the numbers, and only in the ways the account has.
THEOREM KeepsAccount == Spec => ImplementsAccount
<1>1. Init => Account!Init
    BY DEF Init, Account!Init, Held, Left, LeftTruth, NoScan
<1>2. FullInv /\ [Next]_vars => [Account!Next]_(Account!vars)
  <2>1. UNCHANGED vars => UNCHANGED Account!vars
      BY DEF vars, stockVars, workVars, pickVars, Account!vars, Held, Left, LeftTruth, Remaining
  <2> QED
      BY <2>1, AccountStep
<1> QED
    BY <1>1, <1>2, FullInvHolds, PTL DEF Spec, ImplementsAccount, Account!Spec

\* Available and reserved units come to differ from those on hand in one way only: a
\* fulfilment that takes units from the location for which nothing was reserved.
THEOREM SlackIsFromUnreserved == Spec => SlackOnlyFromUnreserved
<1>1. FullInv /\ [Next]_vars
        => [Slack' # Slack =>
              \E o \in Orders : removed'[o] > removed[o] /\ alloc'[o] = alloc[o]]_vars
    BY SlackKept DEF SlackIsFound
<1> QED
    BY <1>1, FullInvHolds, PTL DEF Spec, SlackOnlyFromUnreserved

=============================================================================
