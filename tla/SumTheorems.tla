---------------------------- MODULE SumTheorems ----------------------------
(***************************************************************************)
(* Facts about SumFunctionOnSet and SumFunction, the sums by which the     *)
(* components account for what they hold, about FlattenSeq, and about      *)
(* recursion along a sequence. A sum over a finite set does not depend on  *)
(* the order of its terms, so a term can be taken out or put in.           *)
(*                                                                         *)
(* The sum is defined by recursion on subsets. Every induction below is    *)
(* stated with sets: the subsets for which a fact fails, if there are any, *)
(* have a minimal one, and the fact holds for it because it does for the   *)
(* subsets that miss one of its elements.                                  *)
(***************************************************************************)
EXTENDS Integers, Sequences, FiniteSets, Functions, SequencesExt, FiniteSetTheorems,
        WellFoundedInduction, TLAPS

-----------------------------------------------------------------------------
(* Minimal elements. *)

LEMMA LeastNatural ==
  ASSUME NEW T \in SUBSET Nat, T # {}
  PROVE  \E x \in T : \A y \in T : x <= y
  <1> DEFINE R == OpToRel(<, Nat)
  <1>1. PICK x \in T : \A y \in T : <<y, x>> \notin R
    <2>1. IsWellFoundedOn(R, Nat)
      BY NatLessThanWellFounded
    <2> HIDE DEF R
    <2> QED
      BY <2>1, WFMin
  <1>2. \A y \in T : ~ (y < x)
    BY <1>1 DEF OpToRel
  <1> QED
    BY <1>2

LEMMA MinimalSubset ==
  ASSUME NEW S, IsFiniteSet(S), NEW F \in SUBSET (SUBSET S), F # {}
  PROVE  \E s \in F : \A x \in s : s \ {x} \notin F
  <1>1. \A s \in SUBSET S : IsFiniteSet(s) /\ Cardinality(s) \in Nat
    BY FS_Subset, FS_CardinalityType
  <1> DEFINE Sizes == {Cardinality(s) : s \in F}
  <1>2. PICK n \in Sizes : \A m \in Sizes : n <= m
    <2>1. Sizes \in SUBSET Nat /\ Sizes # {}
      BY <1>1
    <2> HIDE DEF Sizes
    <2> QED
      BY <2>1, LeastNatural
  <1>3. PICK s \in F : Cardinality(s) = n
    OBVIOUS
  <1>4. ASSUME NEW x \in s, s \ {x} \in F PROVE FALSE
    <2>1. Cardinality(s \ {x}) = Cardinality(s) - 1
      BY <1>1, FS_RemoveElement
    <2>2. n <= Cardinality(s) - 1
      BY <1>2, <1>4, <2>1
    <2> QED
      BY <1>1, <1>3, <2>2
  <1> QED
    BY <1>4

-----------------------------------------------------------------------------
(* The recursive definition. *)

\* The sum of no terms, and the sum of a set from the sum of one with an element less.
Pick(s) == CHOOSE x \in s : TRUE
Partial(f, g, s) == IF s = {} THEN 0 ELSE f[Pick(s)] + g[s \ {Pick(s)}]
Summing(f, g, S) == g = [s \in SUBSET S |-> Partial(f, g, s)]

LEMMA PickIn == ASSUME NEW s, s # {} PROVE Pick(s) \in s
  BY DEF Pick

LEMMA SummingExists ==
  ASSUME NEW S, IsFiniteSet(S), NEW f, \A x \in S : f[x] \in Int
  PROVE  \E g \in [SUBSET S -> Int] : Summing(f, g, S)
  <1>1. \A s \in SUBSET S : IsFiniteSet(s) /\ Cardinality(s) \in Nat /\ Cardinality(s) <= Cardinality(S)
    BY FS_Subset, FS_CardinalityType
  <1>2. \A s \in SUBSET S : \A x \in s : Cardinality(s \ {x}) = Cardinality(s) - 1
    BY <1>1, FS_RemoveElement
  <1>3. \A s \in SUBSET S : Cardinality(s) = 0 <=> s = {}
    BY <1>1, FS_EmptySet
  <1> DEFINE UpTo(g, n) == \A s \in SUBSET S : Cardinality(s) <= n => g[s] = Partial(f, g, s)
             Missing == {n \in Nat : ~ \E g \in [SUBSET S -> Int] : UpTo(g, n)}
  <1>4. Missing = {}
    <2>1. SUFFICES ASSUME Missing # {} PROVE FALSE
      OBVIOUS
    <2>2. PICK n \in Missing : \A m \in Missing : n <= m
      BY <2>1, LeastNatural
    <2>3. CASE n = 0
      <3> DEFINE g == [s \in SUBSET S |-> 0]
      <3>1. g \in [SUBSET S -> Int]
        OBVIOUS
      <3>2. UpTo(g, 0)
        BY <1>1, <1>3 DEF Partial
      <3> QED
        BY <2>2, <2>3, <3>1, <3>2
    <2>4. CASE n # 0
      <3>1. n - 1 \in Nat /\ n - 1 \notin Missing
        <4>1. n \in Nat /\ n - 1 \in Nat
          BY <2>4
        <4> HIDE DEF Missing
        <4> QED
          BY <2>2, <4>1
      <3>2. PICK g \in [SUBSET S -> Int] : UpTo(g, n - 1)
        BY <3>1
      <3> DEFINE h == [s \in SUBSET S |-> IF Cardinality(s) = n THEN Partial(f, g, s) ELSE g[s]]
      <3>3. \A s \in SUBSET S : Partial(f, g, s) \in Int
        BY PickIn DEF Partial
      <3>4. h \in [SUBSET S -> Int]
        BY <3>3
      <3>5. ASSUME NEW s \in SUBSET S, Cardinality(s) <= n PROVE h[s] = Partial(f, h, s)
        <4>1. h[s] = Partial(f, g, s)
          BY <1>1, <3>2, <3>5
        <4>2. ASSUME s # {} PROVE h[s \ {Pick(s)}] = g[s \ {Pick(s)}]
          BY <1>1, <1>2, <3>5, <4>2, PickIn
        <4> QED
          BY <4>1, <4>2 DEF Partial
      <3> QED
        BY <2>2, <3>4, <3>5
    <2> QED
      BY <2>3, <2>4
  <1>5. PICK g \in [SUBSET S -> Int] : UpTo(g, Cardinality(S))
    BY <1>1, <1>4
  <1>6. g = [s \in SUBSET S |-> Partial(f, g, s)]
    BY <1>1, <1>5
  <1> QED
    BY <1>6 DEF Summing

LEMMA SumIsSumming ==
  ASSUME NEW S, IsFiniteSet(S), NEW f, \A x \in S : f[x] \in Int
  PROVE  \E g : Summing(f, g, S) /\ SumFunctionOnSet(f, S) = g[S]
  <1> DEFINE it == CHOOSE g : Summing(f, g, S)
  <1>1. Summing(f, it, S)
    BY SummingExists
  <1>2. SumFunctionOnSet(f, S) = it[S]
    BY DEF SumFunctionOnSet, FoldFunctionOnSet, MapThenFoldSet, Summing, Partial, Pick
  <1> QED
    BY <1>1, <1>2

LEMMA SummingAgree ==
  ASSUME NEW S, IsFiniteSet(S), NEW f, NEW T \in SUBSET S,
         NEW g, Summing(f, g, S), NEW h, Summing(f, h, T)
  PROVE  g[T] = h[T]
  <1> DEFINE Differ == {s \in SUBSET T : g[s] # h[s]}
  <1>1. SUFFICES ASSUME Differ # {} PROVE FALSE
    OBVIOUS
  <1>2. IsFiniteSet(T)
    BY FS_Subset
  <1>3. PICK s \in Differ : \A x \in s : s \ {x} \notin Differ
    BY <1>1, <1>2, MinimalSubset
  <1>4. g[s] = Partial(f, g, s) /\ h[s] = Partial(f, h, s)
    BY DEF Summing
  <1>5. s # {} => g[s \ {Pick(s)}] = h[s \ {Pick(s)}]
    BY <1>3, PickIn
  <1> QED
    BY <1>4, <1>5 DEF Partial

LEMMA SumSubset ==
  ASSUME NEW S, IsFiniteSet(S), NEW f, \A x \in S : f[x] \in Int,
         NEW g, Summing(f, g, S), NEW T \in SUBSET S
  PROVE  SumFunctionOnSet(f, T) = g[T]
  <1>1. IsFiniteSet(T)
    BY FS_Subset
  <1>2. PICK h : Summing(f, h, T) /\ SumFunctionOnSet(f, T) = h[T]
    BY <1>1, SumIsSumming
  <1> QED
    BY <1>2, SummingAgree

-----------------------------------------------------------------------------
(* The sum of a set. *)

LEMMA SumEmpty ==
  ASSUME NEW f
  PROVE  SumFunctionOnSet(f, {}) = 0
  <1>1. PICK g : Summing(f, g, {}) /\ SumFunctionOnSet(f, {}) = g[{}]
    BY SumIsSumming, FS_EmptySet
  <1> QED
    BY <1>1 DEF Summing, Partial

LEMMA SumInt ==
  ASSUME NEW S, IsFiniteSet(S), NEW f, \A x \in S : f[x] \in Int
  PROVE  SumFunctionOnSet(f, S) \in Int
  <1>1. PICK g \in [SUBSET S -> Int] : Summing(f, g, S)
    BY SummingExists
  <1> QED
    BY <1>1, SumSubset

\* A term can be taken out.
LEMMA SumRemove ==
  ASSUME NEW S, IsFiniteSet(S), NEW f, \A x \in S : f[x] \in Int, NEW x \in S
  PROVE  SumFunctionOnSet(f, S) = SumFunctionOnSet(f, S \ {x}) + f[x]
  <1>1. PICK g \in [SUBSET S -> Int] : Summing(f, g, S)
    BY SummingExists
  <1> DEFINE Bad == {s \in SUBSET S : \E y \in s : g[s] # f[y] + g[s \ {y}]}
  <1>2. Bad = {}
    <2>1. SUFFICES ASSUME Bad # {} PROVE FALSE
      OBVIOUS
    <2>2. PICK s \in Bad : \A y \in s : s \ {y} \notin Bad
      <3>1. Bad \in SUBSET (SUBSET S)
        OBVIOUS
      <3> HIDE DEF Bad
      <3> QED
        BY <2>1, <3>1, MinimalSubset
    <2>3. PICK y \in s : g[s] # f[y] + g[s \ {y}]
      OBVIOUS
    <2> DEFINE p == Pick(s)
    <2>4. p \in s /\ g[s] = f[p] + g[s \ {p}]
      BY <1>1, <2>3, PickIn DEF Summing, Partial
    <2>5. p # y
      BY <2>3, <2>4
    <2> DEFINE r == g[(s \ {y}) \ {p}]
    <2>6. g[s \ {p}] = f[y] + r
      <3>1. (s \ {p}) \ {y} = (s \ {y}) \ {p}
        OBVIOUS
      <3>2. g[s \ {p}] = f[y] + g[(s \ {p}) \ {y}]
        BY <2>2, <2>4, <2>5
      <3> QED
        BY <3>1, <3>2
    <2>7. g[s \ {y}] = f[p] + r
      BY <2>2, <2>4, <2>5
    <2>8. f[p] \in Int /\ f[y] \in Int /\ r \in Int
      BY <1>1, <2>4
    <2>9. g[s] = f[p] + (f[y] + r) /\ g[s] # f[y] + (f[p] + r)
      BY <2>3, <2>4, <2>6, <2>7
    <2> HIDE DEF p, Bad, r
    <2> QED
      BY <2>8, <2>9
  <1>3. g[S] = f[x] + g[S \ {x}]
    BY <1>2
  <1>4. SumFunctionOnSet(f, S) = g[S] /\ SumFunctionOnSet(f, S \ {x}) = g[S \ {x}]
    BY <1>1, SumSubset
  <1>5. f[x] \in Int /\ g[S \ {x}] \in Int
    BY <1>1
  <1> QED
    BY <1>3, <1>4, <1>5

LEMMA SumSingleton ==
  ASSUME NEW f, NEW x, f[x] \in Int
  PROVE  SumFunctionOnSet(f, {x}) = f[x]
  <1> DEFINE None == {x} \ {x}
  <1>1. SumFunctionOnSet(f, {x}) = SumFunctionOnSet(f, None) + f[x]
    BY SumRemove, FS_Singleton
  <1>2. None = {}
    OBVIOUS
  <1> HIDE DEF None
  <1>3. SumFunctionOnSet(f, None) = 0
    BY <1>2, SumEmpty
  <1> QED
    BY <1>1, <1>3

\* A sum depends on the terms alone.
LEMMA SumAgree ==
  ASSUME NEW S, IsFiniteSet(S), NEW f, NEW h, \A x \in S : f[x] \in Int /\ h[x] = f[x]
  PROVE  SumFunctionOnSet(h, S) = SumFunctionOnSet(f, S)
  <1> DEFINE Bad == {s \in SUBSET S : SumFunctionOnSet(h, s) # SumFunctionOnSet(f, s)}
  <1>1. SUFFICES ASSUME Bad # {} PROVE FALSE
    OBVIOUS
  <1>2. PICK s \in Bad : \A y \in s : s \ {y} \notin Bad
    <2>1. Bad \in SUBSET (SUBSET S)
      OBVIOUS
    <2> HIDE DEF Bad
    <2> QED
      BY <1>1, <2>1, MinimalSubset
  <1>3. s # {}
    BY SumEmpty
  <1>4. PICK y \in s : TRUE
    BY <1>3
  <1>5. IsFiniteSet(s)
    BY FS_Subset
  <1>6. SumFunctionOnSet(h, s) = SumFunctionOnSet(h, s \ {y}) + h[y]
    BY <1>5, SumRemove
  <1>7. SumFunctionOnSet(f, s) = SumFunctionOnSet(f, s \ {y}) + f[y]
    BY <1>5, SumRemove
  <1>8. SumFunctionOnSet(h, s \ {y}) = SumFunctionOnSet(f, s \ {y})
    BY <1>2
  <1> QED
    BY <1>6, <1>7, <1>8

LEMMA SumNat ==
  ASSUME NEW S, IsFiniteSet(S), NEW f, \A x \in S : f[x] \in Nat
  PROVE  SumFunctionOnSet(f, S) \in Nat
  <1> DEFINE Bad == {s \in SUBSET S : SumFunctionOnSet(f, s) \notin Nat}
  <1>1. SUFFICES ASSUME Bad # {} PROVE FALSE
    OBVIOUS
  <1>2. PICK s \in Bad : \A y \in s : s \ {y} \notin Bad
    <2>1. Bad \in SUBSET (SUBSET S)
      OBVIOUS
    <2> HIDE DEF Bad
    <2> QED
      BY <1>1, <2>1, MinimalSubset
  <1>3. s # {}
    BY SumEmpty
  <1>4. PICK y \in s : TRUE
    BY <1>3
  <1>5. IsFiniteSet(s)
    BY FS_Subset
  <1>6. SumFunctionOnSet(f, s) = SumFunctionOnSet(f, s \ {y}) + f[y]
    BY <1>5, SumRemove
  <1>7. SumFunctionOnSet(f, s \ {y}) \in Nat
    BY <1>2
  <1> QED
    BY <1>6, <1>7

\* A set can be cut in two.
LEMMA SumSplit ==
  ASSUME NEW S, IsFiniteSet(S), NEW f, \A x \in S : f[x] \in Int, NEW T \in SUBSET S
  PROVE  SumFunctionOnSet(f, S) = SumFunctionOnSet(f, S \ T) + SumFunctionOnSet(f, T)
  <1> DEFINE Sum(s) == SumFunctionOnSet(f, s)
             Bad == {s \in SUBSET T : Sum((S \ T) \cup s) # Sum(S \ T) + Sum(s)}
  <1>0. Sum(S \ T) \in Int
    BY FS_Subset, SumInt
  <1>1. Bad = {}
    <2>1. SUFFICES ASSUME Bad # {} PROVE FALSE
      OBVIOUS
    <2>2. PICK s \in Bad : \A y \in s : s \ {y} \notin Bad
      <3>1. Bad \in SUBSET (SUBSET T)
        OBVIOUS
      <3>2. IsFiniteSet(T)
        BY FS_Subset
      <3> HIDE DEF Bad
      <3> QED
        BY <2>1, <3>1, <3>2, MinimalSubset
    <2>3. s # {}
      BY <1>0, SumEmpty
    <2>4. PICK y \in s : TRUE
      BY <2>3
    <2> DEFINE U == (S \ T) \cup s
    <2>5. IsFiniteSet(s) /\ IsFiniteSet(U) /\ IsFiniteSet(s \ {y}) /\ U \in SUBSET S /\ s \in SUBSET S
      BY FS_Subset
    <2>6. Sum(s) = Sum(s \ {y}) + f[y]
      BY <2>5, SumRemove
    <2>7. Sum(U) = Sum(U \ {y}) + f[y]
      BY <2>5, SumRemove
    <2>8. U \ {y} = (S \ T) \cup (s \ {y})
      BY <2>4
    <2>9. Sum((S \ T) \cup (s \ {y})) = Sum(S \ T) + Sum(s \ {y})
      BY <2>2
    <2>10. Sum(s \ {y}) \in Int /\ f[y] \in Int
      BY <2>5, SumInt
    <2>11. Sum(U) # Sum(S \ T) + Sum(s)
      OBVIOUS
    <2>12. Sum(U) = (Sum(S \ T) + Sum(s \ {y})) + f[y]
      BY <2>7, <2>8, <2>9
    <2> HIDE DEF Bad, Sum, U
    <2> QED
      BY <1>0, <2>6, <2>10, <2>11, <2>12
  <1>2. (S \ T) \cup T = S
    OBVIOUS
  <1> QED
    BY <1>1, <1>2

\* Renaming the terms keeps the sum.
LEMMA SumRename ==
  ASSUME NEW S, IsFiniteSet(S), NEW f, NEW b, NEW h,
         \A x, y \in S : b[x] = b[y] => x = y,
         \A x \in S : h[x] \in Int /\ f[b[x]] = h[x]
  PROVE  SumFunctionOnSet(f, {b[x] : x \in S}) = SumFunctionOnSet(h, S)
  <1> DEFINE Image(s) == {b[x] : x \in s}
             Bad == {s \in SUBSET S : SumFunctionOnSet(f, Image(s)) # SumFunctionOnSet(h, s)}
  <1>1. SUFFICES ASSUME Bad # {} PROVE FALSE
    OBVIOUS
  <1>2. PICK s \in Bad : \A y \in s : s \ {y} \notin Bad
    <2>1. Bad \in SUBSET (SUBSET S)
      OBVIOUS
    <2> HIDE DEF Bad
    <2> QED
      BY <1>1, <2>1, MinimalSubset
  <1>3. s # {}
    <2>1. SUFFICES ASSUME s = {} PROVE FALSE
      OBVIOUS
    <2>2. Image(s) = {}
      BY <2>1
    <2>3. SumFunctionOnSet(f, Image(s)) # SumFunctionOnSet(h, s)
      OBVIOUS
    <2> HIDE DEF Image
    <2> QED
      BY <2>1, <2>2, <2>3, SumEmpty
  <1>4. PICK y \in s : TRUE
    BY <1>3
  <1>5. IsFiniteSet(s) /\ IsFiniteSet(Image(s))
    <2>1. IsFiniteSet(s)
      BY FS_Subset
    <2>2. [x \in s |-> b[x]] \in Surjection(s, Image(s))
      BY DEF Surjection
    <2> HIDE DEF Image
    <2> QED
      BY <2>1, <2>2, FS_Surjection
  <1>6. SumFunctionOnSet(h, s) = SumFunctionOnSet(h, s \ {y}) + h[y]
    BY <1>5, SumRemove
  <1>7. Image(s) \ {b[y]} = Image(s \ {y})
    OBVIOUS
  <1>8. b[y] \in Image(s) /\ \A z \in Image(s) : f[z] \in Int
    OBVIOUS
  <1>9. SumFunctionOnSet(f, Image(s)) = SumFunctionOnSet(f, Image(s) \ {b[y]}) + f[b[y]]
    <2> HIDE DEF Image
    <2> QED
      BY <1>5, <1>8, SumRemove
  <1>10. SumFunctionOnSet(f, Image(s \ {y})) = SumFunctionOnSet(h, s \ {y})
    BY <1>2
  <1>11. SumFunctionOnSet(f, Image(s)) # SumFunctionOnSet(h, s)
    OBVIOUS
  <1>12. f[b[y]] = h[y]
    OBVIOUS
  <1> HIDE DEF Image, Bad
  <1> QED
    BY <1>6, <1>7, <1>9, <1>10, <1>11, <1>12

-----------------------------------------------------------------------------
(* Sums over an interval of indices. *)

\* The first n terms of f are those of g, and the k that follow those of h.
Joined(n, k, f, g, h) ==
    /\ DOMAIN f = 1 .. n + k /\ DOMAIN g = 1 .. n /\ DOMAIN h = 1 .. k
    /\ \A i \in DOMAIN f : f[i] \in Int
    /\ \A i \in DOMAIN g : f[i] = g[i]
    /\ \A i \in DOMAIN h : f[n + i] = h[i]

LEMMA SumJoined ==
  ASSUME NEW n \in Nat, NEW k \in Nat, NEW f, NEW g, NEW h, Joined(n, k, f, g, h)
  PROVE  SumFunction(f) = SumFunction(g) + SumFunction(h)
  <1> DEFINE All == DOMAIN f Low == DOMAIN g High == DOMAIN h b == [i \in High |-> n + i]
  <1>1. IsFiniteSet(All) /\ IsFiniteSet(Low) /\ IsFiniteSet(High) /\ Low \in SUBSET All
        /\ \A i \in All : f[i] \in Int
    BY FS_Interval DEF Joined
  <1>2. All \ Low = {b[i] : i \in High}
    <2>1. ASSUME NEW j \in All \ Low PROVE \E i \in High : b[i] = j
      <3>1. j - n \in High /\ b[j - n] = j
        BY DEF Joined
      <3> QED
        BY <3>1
    <2>2. ASSUME NEW i \in High PROVE b[i] \in All \ Low
      BY DEF Joined
    <2> HIDE DEF All, Low, High, b
    <2> QED
      BY <2>1, <2>2
  <1>3. SumFunctionOnSet(f, All) = SumFunctionOnSet(f, All \ Low) + SumFunctionOnSet(f, Low)
    <2> HIDE DEF All, Low
    <2> QED
      BY <1>1, SumSplit
  <1>4. SumFunctionOnSet(g, Low) = SumFunctionOnSet(f, Low) /\ SumFunctionOnSet(f, Low) \in Int
    <2>1. \A i \in Low : f[i] \in Int /\ g[i] = f[i]
      BY <1>1 DEF Joined
    <2> HIDE DEF Low
    <2> QED
      BY <1>1, <2>1, SumAgree, SumInt
  <1>5. SumFunctionOnSet(f, {b[i] : i \in High}) = SumFunctionOnSet(h, High)
        /\ SumFunctionOnSet(h, High) \in Int
    <2>1. \A i, j \in High : b[i] = b[j] => i = j
      BY DEF Joined
    <2>2. \A i \in High : n + i \in All
      BY DEF Joined
    <2>3. \A i \in High : h[i] \in Int /\ f[b[i]] = h[i]
      BY <2>2 DEF Joined
    <2> HIDE DEF b, High
    <2> QED
      BY <1>1, <2>1, <2>3, SumRename, SumInt
  <1>6. SumFunction(f) = SumFunctionOnSet(f, All) /\ SumFunction(g) = SumFunctionOnSet(g, Low)
        /\ SumFunction(h) = SumFunctionOnSet(h, High)
    BY DEF SumFunction
  <1> HIDE DEF All, Low, High, b
  <1>7. SumFunctionOnSet(f, All) = SumFunctionOnSet(h, High) + SumFunctionOnSet(g, Low)
    BY <1>2, <1>3, <1>4, <1>5
  <1> QED
    BY <1>4, <1>5, <1>6, <1>7

\* A largest element of a set of naturals with a bound.
LEMMA GreatestNatural ==
  ASSUME NEW n \in Nat, NEW T \in SUBSET (0 .. n), T # {}
  PROVE  \E x \in T : \A y \in T : x >= y
  <1> DEFINE Rest == {n - x : x \in T}
  <1>1. Rest \in SUBSET Nat /\ Rest # {}
    <2>1. \A x \in T : n - x \in Nat
      OBVIOUS
    <2>2. PICK x \in T : TRUE
      OBVIOUS
    <2>3. n - x \in Rest
      OBVIOUS
    <2> QED
      BY <2>1, <2>3
  <1>2. PICK r \in Rest : \A s \in Rest : r <= s
    <2> HIDE DEF Rest
    <2> QED
      BY <1>1, LeastNatural
  <1>3. PICK x \in T : r = n - x
    OBVIOUS
  <1>4. \A y \in T : n - x <= n - y
    BY <1>2, <1>3
  <1> QED
    BY <1>4

-----------------------------------------------------------------------------
(* Flattening. *)

\* The recursive function by which FlattenSeq is defined.
Flattening(g, seqs) ==
    g = [i \in 1 .. Len(seqs) |-> IF i = 1 THEN seqs[i] ELSE g[i - 1] \o seqs[i]]

LEMMA FlatteningExists ==
  ASSUME NEW seqs, Len(seqs) \in Nat
  PROVE  \E g : Flattening(g, seqs)
  <1> DEFINE n == Len(seqs)
             Step(g, i) == IF i = 1 THEN seqs[i] ELSE g[i - 1] \o seqs[i]
             UpTo(g, m) == g = [i \in 1 .. n |-> g[i]] /\ \A i \in 1 .. n : i <= m => g[i] = Step(g, i)
             Missing == {m \in Nat : ~ \E g : UpTo(g, m)}
  <1>1. Missing = {}
    <2>1. SUFFICES ASSUME Missing # {} PROVE FALSE
      OBVIOUS
    <2>2. PICK m \in Missing : \A k \in Missing : m <= k
      BY <2>1, LeastNatural
    <2>3. CASE m = 0
      <3> DEFINE none == [i \in 1 .. n |-> 0]
      <3>1. none = [i \in 1 .. n |-> none[i]] /\ \A i \in 1 .. n : ~ (i <= 0)
        OBVIOUS
      <3> HIDE DEF none, Step
      <3>2. UpTo(none, 0)
        BY <3>1
      <3> QED
        BY <2>2, <2>3, <3>2
    <2>4. CASE m # 0
      <3>1. m - 1 \in Nat /\ m - 1 \notin Missing
        <4>1. m \in Nat /\ m - 1 \in Nat
          BY <2>4
        <4> HIDE DEF Missing
        <4> QED
          BY <2>2, <4>1
      <3>2. PICK g : UpTo(g, m - 1)
        BY <3>1
      <3> DEFINE h == [i \in 1 .. n |-> IF i = m THEN Step(g, i) ELSE g[i]]
      <3>3. ASSUME NEW i \in 1 .. n, i <= m PROVE h[i] = Step(h, i)
        <4>1. h[i] = Step(g, i)
          <5>1. CASE i = m
            BY <5>1
          <5>2. CASE i # m
            <6>1. h[i] = g[i] /\ i <= m - 1
              BY <3>3, <5>2
            <6> HIDE DEF Step, h
            <6> QED
              BY <3>2, <6>1
          <5> QED
            BY <5>1, <5>2
        <4>2. ASSUME i # 1 PROVE h[i - 1] = g[i - 1]
          BY <3>3, <4>2
        <4> HIDE DEF h
        <4> QED
          BY <4>1, <4>2
      <3>4. UpTo(h, m)
        <4>1. h = [i \in 1 .. n |-> h[i]]
          OBVIOUS
        <4> HIDE DEF h, Step
        <4> QED
          BY <3>3, <4>1
      <3> QED
        BY <2>2, <3>4
    <2> QED
      BY <2>3, <2>4
  <1>2. PICK g : UpTo(g, n)
    BY <1>1
  <1>3. g = [i \in 1 .. n |-> Step(g, i)]
    <2> HIDE DEF Step
    <2>1. g = [i \in 1 .. n |-> g[i]] /\ \A i \in 1 .. n : g[i] = Step(g, i)
      BY <1>2
    <2>2. [i \in 1 .. n |-> g[i]] = [i \in 1 .. n |-> Step(g, i)]
      BY <2>1
    <2> QED
      BY <2>1, <2>2
  <1> QED
    BY <1>3 DEF Flattening

Alike(f, g, n) == \A i \in 1 .. n : f[i] = g[i]

\* Two functions defined so agree as far as the sequences do.
LEMMA FlatteningAgree ==
  ASSUME NEW s, NEW t, Len(s) \in Nat, Len(t) \in Nat, NEW n \in 0 .. Len(s), n <= Len(t),
         NEW g, Flattening(g, s), NEW h, Flattening(h, t), Alike(s, t, n)
  PROVE  Alike(g, h, n)
  <1> DEFINE Bad == {i \in 1 .. n : g[i] # h[i]}
  <1>1. /\ \A i \in 1 .. n : g[i] = IF i = 1 THEN s[i] ELSE g[i - 1] \o s[i]
        /\ \A i \in 1 .. n : h[i] = IF i = 1 THEN t[i] ELSE h[i - 1] \o t[i]
    <2>1. \A i \in 1 .. n : i \in 1 .. Len(s) /\ i \in 1 .. Len(t)
      OBVIOUS
    <2> QED
      BY <2>1 DEF Flattening
  <1>2. Bad = {}
    <2>1. SUFFICES ASSUME Bad # {} PROVE FALSE
      OBVIOUS
    <2>2. Bad \in SUBSET Nat
      OBVIOUS
    <2>3. PICK i \in Bad : \A k \in Bad : i <= k
      <3> HIDE DEF Bad
      <3> QED
        BY <2>1, <2>2, LeastNatural
    <2>4. i \in 1 .. n /\ g[i] # h[i]
      BY <2>3
    <2>5. CASE i = 1
      BY <1>1, <2>4, <2>5 DEF Alike
    <2>6. CASE i # 1
      <3>1. i - 1 \in 1 .. n /\ ~ (i <= i - 1)
        BY <2>4, <2>6
      <3>2. g[i - 1] = h[i - 1]
        BY <2>3, <3>1
      <3> QED
        BY <1>1, <2>4, <2>6, <3>2 DEF Alike
    <2> QED
      BY <2>5, <2>6
  <1> QED
    BY <1>2 DEF Alike

LEMMA FlattenIs ==
  ASSUME NEW s, Len(s) \in Nat \ {0}, NEW g, Flattening(g, s)
  PROVE  FlattenSeq(s) = g[Len(s)]
  <1> DEFINE it == CHOOSE h : Flattening(h, s)
  <1>1. FlattenSeq(s) = it[Len(s)]
    BY DEF FlattenSeq, Flattening
  <1>2. Flattening(it, s)
    OBVIOUS
  <1> HIDE DEF it
  <1> DEFINE n == Len(s)
  <1>3. n \in Nat /\ n \in 0 .. Len(s) /\ n <= Len(s) /\ n \in 1 .. n
    OBVIOUS
  <1>4. it[n] = g[n]
    <2>1. Alike(s, s, n)
      BY DEF Alike
    <2>2. Alike(it, g, n)
      BY <1>2, <1>3, <2>1, FlatteningAgree
    <2> QED
      BY <1>3, <2>2 DEF Alike
  <1> QED
    BY <1>1, <1>4

\* One more sequence is put at the end.
LEMMA FlattenAppend ==
  ASSUME NEW S, NEW s \in Seq(Seq(S)), NEW x \in Seq(S)
  PROVE  /\ FlattenSeq(Append(s, x)) = FlattenSeq(s) \o x
         /\ FlattenSeq(s) \in Seq(S)
  <1> DEFINE n == Len(s) t == Append(s, x)
  <1>1. /\ n \in Nat /\ Len(t) = n + 1 /\ t[n + 1] = x
        /\ \A i \in 1 .. n : t[i] = s[i] /\ s[i] \in Seq(S)
    OBVIOUS
  <1> HIDE DEF t
  <1>2. PICK g : Flattening(g, s)
    BY <1>1, FlatteningExists
  <1>3. PICK h : Flattening(h, t)
    <2>1. Len(t) \in Nat
      BY <1>1
    <2> QED
      BY <2>1, FlatteningExists
  <1>4. Alike(g, h, n)
    <2>1. n \in 0 .. Len(s) /\ n <= Len(t) /\ Len(s) \in Nat /\ Len(t) \in Nat
      BY <1>1
    <2>2. Alike(s, t, n)
      BY <1>1 DEF Alike
    <2> HIDE DEF n
    <2> QED
      BY <1>2, <1>3, <2>1, <2>2, FlatteningAgree
  <1>5. FlattenSeq(t) = h[n + 1]
    <2>1. Len(t) \in Nat \ {0}
      BY <1>1
    <2>2. FlattenSeq(t) = h[Len(t)]
      BY <1>3, <2>1, FlattenIs
    <2> QED
      BY <1>1, <2>2
  <1>6. h[n + 1] = IF n = 0 THEN x ELSE h[n] \o x
    <2> DEFINE last == n + 1
    <2>1. last \in 1 .. Len(t) /\ last - 1 = n /\ (last = 1 <=> n = 0) /\ t[last] = x
      BY <1>1
    <2> HIDE DEF last
    <2>2. h[last] = IF last = 1 THEN t[last] ELSE h[last - 1] \o t[last]
      BY <1>3, <2>1 DEF Flattening
    <2> QED
      BY <2>1, <2>2 DEF last
  <1>7. CASE n = 0
    <2>1. s = <<>>
      BY <1>7
    <2>2. FlattenSeq(s) = <<>>
      BY <2>1 DEF FlattenSeq
    <2>3. FlattenSeq(t) = x
      BY <1>1, <1>5, <1>6, <1>7
    <2> QED
      BY <2>2, <2>3 DEF t
  <1>8. CASE n # 0
    <2>1. FlattenSeq(s) = g[n]
      BY <1>1, <1>2, <1>8, FlattenIs
    <2>2. h[n] = g[n]
      <3>1. n \in 1 .. n
        BY <1>1, <1>8
      <3> QED
        BY <1>4, <3>1 DEF Alike
    <2>3. FlattenSeq(t) = g[n] \o x
      BY <1>1, <1>5, <1>6, <1>8, <2>2
    <2>4. g[n] \in Seq(S)
      <3> DEFINE Bad == {i \in 1 .. n : g[i] \notin Seq(S)}
      <3>1. \A i \in 1 .. n : g[i] = IF i = 1 THEN s[i] ELSE g[i - 1] \o s[i]
        BY <1>2 DEF Flattening
      <3>2. Bad = {}
        <4>1. SUFFICES ASSUME Bad # {} PROVE FALSE
          OBVIOUS
        <4>2. Bad \in SUBSET Nat
          BY <1>1
        <4>3. PICK i \in Bad : \A k \in Bad : i <= k
          <5> HIDE DEF Bad
          <5> QED
            BY <4>1, <4>2, LeastNatural
        <4>4. i \in 1 .. n /\ g[i] \notin Seq(S)
          BY <4>3
        <4>5. i # 1
          BY <1>1, <3>1, <4>4
        <4>6. i - 1 \in 1 .. n /\ ~ (i <= i - 1)
          BY <1>1, <4>4, <4>5
        <4>7. g[i - 1] \in Seq(S)
          BY <4>3, <4>6
        <4>8. g[i] = g[i - 1] \o s[i] /\ s[i] \in Seq(S)
          BY <1>1, <3>1, <4>4, <4>5
        <4> QED
          BY <4>4, <4>7, <4>8
      <3> QED
        BY <1>1, <1>8, <3>2
    <2> QED
      BY <2>1, <2>3, <2>4 DEF t
  <1> QED
    BY <1>7, <1>8

-----------------------------------------------------------------------------
(* Folding a sequence. A step of a recursion is given as a function here, so  *)
(* that the facts hold for every recursion.                                   *)

\* What holds at 0 and with each index for the next one holds at every index.
LEMMA IndexInduction ==
  ASSUME NEW n \in Nat, NEW T \in SUBSET (0 .. n), 0 \in T,
         \A i \in 1 .. n : i - 1 \in T => i \in T
  PROVE  T = 0 .. n
  <1> DEFINE Missing == (0 .. n) \ T
  <1>1. SUFFICES ASSUME Missing # {} PROVE FALSE
    OBVIOUS
  <1>2. PICK i \in Missing : \A k \in Missing : i <= k
    <2>1. Missing \in SUBSET Nat
      OBVIOUS
    <2> HIDE DEF Missing
    <2> QED
      BY <1>1, <2>1, LeastNatural
  <1>3. i \in 1 .. n /\ i - 1 \in 0 .. n /\ ~ (i <= i - 1)
    BY <1>2
  <1>4. i - 1 \in T
    BY <1>2, <1>3
  <1> QED
    BY <1>2, <1>3, <1>4

\* A recursion along a sequence has a solution.
Solution(g, A, step, base, n, s) ==
    /\ g \in [0 .. n -> A]
    /\ g[0] = base
    /\ \A i \in 1 .. n : g[i] = step[<<g[i - 1], s[i]>>]

LEMMA FoldExists ==
  ASSUME NEW A, NEW B, NEW step \in [A \X B -> A], NEW base \in A,
         NEW n \in Nat, NEW s, \A i \in 1 .. n : s[i] \in B
  PROVE  \E g : Solution(g, A, step, base, n, s)
  <1> DEFINE UpTo(g, m) == g[0] = base /\ \A i \in 1 .. n : i <= m => g[i] = step[<<g[i - 1], s[i]>>]
             T == {m \in 0 .. n : \E g \in [0 .. n -> A] : UpTo(g, m)}
  <1>1. 0 \in T
    <2> DEFINE g == [i \in 0 .. n |-> base]
    <2>1. g \in [0 .. n -> A] /\ UpTo(g, 0)
      OBVIOUS
    <2> QED
      BY <2>1
  <1>2. ASSUME NEW m \in 1 .. n, m - 1 \in T PROVE m \in T
    <2>1. PICK g \in [0 .. n -> A] : UpTo(g, m - 1)
      BY <1>2
    <2> DEFINE x == step[<<g[m - 1], s[m]>>]
               h == [i \in 0 .. n |-> IF i = m THEN x ELSE g[i]]
    <2>2. m \in 0 .. n /\ m - 1 \in 0 .. n /\ m # 0
      OBVIOUS
    <2>3. x \in A
      BY <2>2
    <2>4. h \in [0 .. n -> A]
      BY <2>3
    <2>5. h[0] = base
      BY <2>1, <2>2
    <2>6. ASSUME NEW i \in 1 .. n, i <= m PROVE h[i] = step[<<h[i - 1], s[i]>>]
      <3>1. i \in 0 .. n /\ i - 1 \in 0 .. n /\ i - 1 # m
        BY <2>6
      <3>2. h[i - 1] = g[i - 1]
        BY <3>1
      <3>3. CASE i = m
        BY <3>1, <3>2, <3>3
      <3>4. CASE i # m
        <4>1. i <= m - 1
          BY <2>6, <3>4
        <4>2. g[i] = step[<<g[i - 1], s[i]>>]
          BY <2>1, <4>1
        <4> QED
          BY <3>1, <3>2, <3>4, <4>2
      <3> QED
        BY <3>3, <3>4
    <2> HIDE DEF h
    <2>7. UpTo(h, m)
      BY <2>5, <2>6
    <2> QED
      BY <2>2, <2>4, <2>7
  <1>3. T = 0 .. n
    <2>1. T \in SUBSET (0 .. n)
      OBVIOUS
    <2> HIDE DEF T
    <2> QED
      BY <1>1, <1>2, <2>1, IndexInduction
  <1>4. PICK g \in [0 .. n -> A] : UpTo(g, n)
    <2>1. n \in T
      BY <1>3
    <2> QED
      BY <2>1
  <1> QED
    BY <1>4 DEF Solution
=============================================================================
