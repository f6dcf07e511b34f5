-------------------------------- MODULE Maps ---------------------------------
(***************************************************************************)
(* The operations of Rust's HashMap that the components use, on functions  *)
(* whose domain is the set of keys, and retain and sort of its Vec.  The   *)
(* empty map is <<>>.  After them, what the proofs need to know about such *)
(* sequences, joined ones and sums over finite sets.                       *)
(***************************************************************************)
EXTENDS Functions, Sequences, SequencesExt, FiniteSetTheorems, SequenceTheorems, TLAPS

(* insert *)
Put(f, k, v) == [x \in DOMAIN f \cup {k} |-> IF x = k THEN v ELSE f[x]]

(* remove *)
Drop(f, k) == [x \in DOMAIN f \ {k} |-> f[x]]

(* extend: the entries of g replace those of f *)
Merged(f, g) == [x \in DOMAIN f \cup DOMAIN g |-> IF x \in DOMAIN g THEN g[x] ELSE f[x]]

(* Vec::retain: the elements whose index is in K, in order *)
Retained(s, K) ==
    LET upTo[i \in 0 .. Len(s)] ==
            IF i = 0 THEN <<>> ELSE IF i \in K THEN Append(upTo[i - 1], s[i]) ELSE upTo[i - 1]
    IN  upTo[Len(s)]

(* What a sort by rank may give, the highest first: nothing is known of the *)
(* order of equals.                                                        *)
OrdersBy(s, rank) ==
    {[i \in DOMAIN s |-> s[p[i]]] :
        p \in {q \in [DOMAIN s -> DOMAIN s] :
                 /\ Range(q) = DOMAIN s
                 /\ \A i, j \in DOMAIN s : i < j => rank[s[q[i]]] >= rank[s[q[j]]]}}

-----------------------------------------------------------------------------
LEMMA NatSteps ==
    ASSUME NEW T \in SUBSET Nat, 0 \in T, \A n \in T : n + 1 \in T
    PROVE  T = Nat
<1> SUFFICES ASSUME T # Nat PROVE FALSE
  OBVIOUS
<1> DEFINE U == Nat \ T
<1>1. PICK x \in U : \A y \in U : ~(<<y, x>> \in OpToRel(<, Nat))
  <2>1. U \subseteq Nat /\ U # {}
    OBVIOUS
  <2> HIDE DEF U
  <2> QED  BY <2>1, WFMin, NatLessThanWellFounded
<1>2. x \in Nat \ {0} /\ x - 1 \in Nat /\ x - 1 < x
  OBVIOUS
<1>3. x - 1 \notin U
  BY <1>1, <1>2 DEF OpToRel
<1>4. (x - 1) + 1 \in T
  BY <1>2, <1>3
<1> QED  BY <1>2, <1>4

LEMMA FiniteSteps ==
    ASSUME NEW S, IsFiniteSet(S), NEW T \in SUBSET SUBSET S, {} \in T,
           \A V \in T, x \in S : V \cup {x} \in T
    PROVE  T = SUBSET S
<1> DEFINE N == {n \in Nat : \A V \in SUBSET S : Cardinality(V) = n => V \in T}
<1>0. \A V \in SUBSET S : IsFiniteSet(V) /\ Cardinality(V) \in Nat
  BY FS_Subset, FS_CardinalityType
<1>1. 0 \in N
  BY <1>0, FS_EmptySet
<1>2. ASSUME NEW n \in N PROVE n + 1 \in N
  <2> SUFFICES ASSUME NEW V \in SUBSET S, Cardinality(V) = n + 1 PROVE V \in T
    OBVIOUS
  <2>1. V # {}
    <3>1. n + 1 # 0
      OBVIOUS
    <3> QED  BY <3>1, FS_EmptySet
  <2>2. PICK x \in V : TRUE
    BY <2>1
  <2>3. Cardinality(V \ {x}) = n
    BY <1>0, <2>2, FS_RemoveElement
  <2>4. V \ {x} \in T
    BY <2>3
  <2>5. (V \ {x}) \cup {x} = V
    BY <2>2
  <2> QED  BY <2>4, <2>5
<1>3. N = Nat
  <2>1. N \in SUBSET Nat
    OBVIOUS
  <2> HIDE DEF N
  <2> QED  BY <1>1, <1>2, <2>1, NatSteps
<1>4. ASSUME NEW V \in SUBSET S PROVE V \in T
  BY <1>0, <1>3
<1> QED  BY <1>4

-----------------------------------------------------------------------------
AnyOf(s) == CHOOSE x \in s : TRUE

LEMMA OneSmaller ==
    ASSUME NEW S, IsFiniteSet(S), NEW s \in SUBSET S, NEW n \in Nat, Cardinality(s) = n + 1
    PROVE  /\ s # {} /\ AnyOf(s) \in s
           /\ \A x \in s : s \ {x} \in SUBSET S /\ Cardinality(s \ {x}) = n
<1>1. IsFiniteSet(s) /\ n + 1 # 0
  BY FS_Subset
<1>2. s # {}
  BY <1>1, FS_EmptySet
<1>3. \A x \in s : Cardinality(s \ {x}) = Cardinality(s) - 1
  BY <1>1, FS_RemoveElement
<1>4. Cardinality(s) - 1 = n
  OBVIOUS
<1> QED  BY <1>2, <1>3, <1>4 DEF AnyOf

(* g is the sum of f over every subset of S. *)
Sums(g, f, S) ==
    g = [s \in SUBSET S |-> IF s = {} THEN 0 ELSE f[AnyOf(s)] + g[s \ {AnyOf(s)}]]

LEMMA SumsExist ==
    ASSUME NEW S, IsFiniteSet(S), NEW f, \A x \in S : f[x] \in Int
    PROVE  \E g \in [SUBSET S -> Int] : Sums(g, f, S)
<1> DEFINE D(n) == {s \in SUBSET S : Cardinality(s) <= n}
           Good(g, n) == \A s \in D(n) :
                            g[s] = IF s = {} THEN 0 ELSE f[AnyOf(s)] + g[s \ {AnyOf(s)}]
           N == {n \in Nat : \E g \in [D(n) -> Int] : Good(g, n)}
<1>0. \A V \in SUBSET S : IsFiniteSet(V) /\ Cardinality(V) \in Nat
  BY FS_Subset, FS_CardinalityType
<1>a. ASSUME NEW s \in SUBSET S, s # {}
      PROVE  AnyOf(s) \in s /\ f[AnyOf(s)] \in Int
             /\ s \ {AnyOf(s)} \in SUBSET S /\ Cardinality(s \ {AnyOf(s)}) = Cardinality(s) - 1
  <2>1. AnyOf(s) \in s
    BY <1>a DEF AnyOf
  <2> QED  BY <1>0, <2>1, FS_RemoveElement
<1>1. 0 \in N
  <2>1. \A s \in D(0) : s = {}
    BY <1>0, FS_EmptySet
  <2>2. [s \in D(0) |-> 0] \in [D(0) -> Int] /\ Good([s \in D(0) |-> 0], 0)
    BY <2>1
  <2> QED  BY <2>2
<1>2. ASSUME NEW n \in N PROVE n + 1 \in N
  <2>1. PICK g \in [D(n) -> Int] : Good(g, n)
    OBVIOUS
  <2> DEFINE h == [s \in D(n + 1) |-> IF s = {} THEN 0 ELSE f[AnyOf(s)] + g[s \ {AnyOf(s)}]]
  <2>2. ASSUME NEW s \in D(n + 1), s # {} PROVE s \ {AnyOf(s)} \in D(n)
    BY <1>0, <1>a, <2>2
  <2>3. h \in [D(n + 1) -> Int]
    BY <1>a, <2>2
  <2>4. ASSUME NEW s \in D(n) PROVE s \in D(n + 1) /\ h[s] = g[s]
    BY <1>0, <2>1
  <2>5. Good(h, n + 1)
    BY <2>2, <2>4
  <2> HIDE DEF D, Good, h
  <2>6. \E k \in [D(n + 1) -> Int] : Good(k, n + 1)
    BY <2>3, <2>5
  <2> QED  BY <2>6
<1>3. N = Nat
  <2>1. N \in SUBSET Nat
    OBVIOUS
  <2> HIDE DEF N
  <2> QED  BY <1>1, <1>2, <2>1, NatSteps
<1>4. Cardinality(S) \in N
  BY <1>0, <1>3
<1>5. PICK g \in [D(Cardinality(S)) -> Int] : Good(g, Cardinality(S))
  BY <1>4
<1>6. D(Cardinality(S)) = SUBSET S
  BY FS_Subset
<1>7. Sums(g, f, S)
  BY <1>5, <1>6 DEF Sums
<1> QED  BY <1>5, <1>6, <1>7

LEMMA SumIs ==
    ASSUME NEW f, NEW S
    PROVE  SumFunctionOnSet(f, S) = (CHOOSE g : Sums(g, f, S))[S]
BY DEF SumFunctionOnSet, FoldFunctionOnSet, MapThenFoldSet, Sums, AnyOf

(* The sum over a subset is the same, whatever set it is computed within. *)
LEMMA SumsAgree ==
    ASSUME NEW S, IsFiniteSet(S), NEW f, NEW g, Sums(g, f, S),
           NEW R \in SUBSET S, NEW h, Sums(h, f, R)
    PROVE  \A s \in SUBSET R : g[s] = h[s]
<1> DEFINE N == {n \in Nat : \A s \in SUBSET R : Cardinality(s) = n => g[s] = h[s]}
<1>0. \A V \in SUBSET S : IsFiniteSet(V) /\ Cardinality(V) \in Nat
  BY FS_Subset, FS_CardinalityType
<1>1. 0 \in N
  <2>1. \A s \in SUBSET R : Cardinality(s) = 0 => s = {}
    BY <1>0, FS_EmptySet
  <2> QED  BY <2>1 DEF Sums
<1>2. ASSUME NEW n \in N PROVE n + 1 \in N
  <2> SUFFICES ASSUME NEW s \in SUBSET R, Cardinality(s) = n + 1 PROVE g[s] = h[s]
    OBVIOUS
  <2> DEFINE a == AnyOf(s)
  <2>1. s \in SUBSET S /\ s # {} /\ a \in s /\ Cardinality(s \ {a}) = n
    BY OneSmaller
  <2>2. g[s \ {a}] = h[s \ {a}]
    BY <2>1
  <2>3. g[s] = f[a] + g[s \ {a}] /\ h[s] = f[a] + h[s \ {a}]
    BY <2>1 DEF Sums
  <2> QED  BY <2>2, <2>3
<1>3. N = Nat
  <2>1. N \in SUBSET Nat
    OBVIOUS
  <2> HIDE DEF N
  <2> QED  BY <1>1, <1>2, <2>1, NatSteps
<1> QED  BY <1>0, <1>3

(* The sum of no numbers is 0, that of others one of them and the rest.    *)
LEMMA SumStep ==
    ASSUME NEW S, IsFiniteSet(S), NEW f, \A x \in S : f[x] \in Int
    PROVE  /\ SumFunctionOnSet(f, S) \in Int
           /\ S = {} => SumFunctionOnSet(f, S) = 0
           /\ S # {} => SumFunctionOnSet(f, S)
                          = f[AnyOf(S)] + SumFunctionOnSet(f, S \ {AnyOf(S)})
<1> DEFINE r == CHOOSE g : Sums(g, f, S)
           R == S \ {AnyOf(S)}
           q == CHOOSE g : Sums(g, f, R)
<1>1. PICK g \in [SUBSET S -> Int] : Sums(g, f, S)
  BY SumsExist
<1>2. Sums(r, f, S)
  BY <1>1
<1>3. r = g
  <2>1. \A s \in SUBSET S : r[s] = g[s]
    BY <1>1, <1>2, SumsAgree
  <2> QED  BY <1>1, <1>2, <2>1 DEF Sums
<1>4. r[S] \in Int /\ SumFunctionOnSet(f, S) = r[S]
  BY <1>3, SumIs
<1>5. S = {} => r[S] = 0
  BY <1>2 DEF Sums
<1>6. ASSUME S # {} PROVE r[S] = f[AnyOf(S)] + q[R]
  <2>1. IsFiniteSet(R) /\ R \in SUBSET S
    BY FS_RemoveElement
  <2>2. \E k \in [SUBSET R -> Int] : Sums(k, f, R)
    BY <2>1, SumsExist
  <2>3. Sums(q, f, R)
    BY <2>2
  <2> HIDE DEF r, R, q
  <2>4. \A s \in SUBSET R : r[s] = q[s]
    BY <1>2, <2>1, <2>3, SumsAgree
  <2>5. r[R] = q[R]
    BY <2>4
  <2> QED  BY <1>2, <1>6, <2>5 DEF Sums, R
<1> QED  BY <1>4, <1>5, <1>6, SumIs

(* Sums of functions that agree agree. *)
LEMMA SumSame ==
    ASSUME NEW S, NEW f, NEW g, \A x \in S : f[x] = g[x]
    PROVE  SumFunctionOnSet(f, S) = SumFunctionOnSet(g, S)
<1> DEFINE F(h) == [s \in SUBSET S |-> IF s = {} THEN 0 ELSE f[AnyOf(s)] + h[s \ {AnyOf(s)}]]
           G(h) == [s \in SUBSET S |-> IF s = {} THEN 0 ELSE g[AnyOf(s)] + h[s \ {AnyOf(s)}]]
<1>1. ASSUME NEW h PROVE F(h) = G(h)
  <2>1. ASSUME NEW s \in SUBSET S, s # {} PROVE f[AnyOf(s)] = g[AnyOf(s)]
    BY <2>1 DEF AnyOf
  <2> QED  BY <2>1
<1>2. \A h : Sums(h, f, S) <=> Sums(h, g, S)
  BY <1>1 DEF Sums
<1>3. (CHOOSE h : Sums(h, f, S)) = (CHOOSE h : Sums(h, g, S))
  BY <1>2
<1> QED  BY <1>3, SumIs

(* Any element can be taken out. *)
LEMMA SumRemove ==
    ASSUME NEW S, IsFiniteSet(S), NEW f, \A x \in S : f[x] \in Int, NEW e \in S
    PROVE  SumFunctionOnSet(f, S) = f[e] + SumFunctionOnSet(f, S \ {e})
<1> DEFINE N == {n \in Nat : \A s \in SUBSET S : Cardinality(s) = n =>
                    \A x \in s : SumFunctionOnSet(f, s) = f[x] + SumFunctionOnSet(f, s \ {x})}
<1>0. \A V \in SUBSET S : IsFiniteSet(V) /\ Cardinality(V) \in Nat
  BY FS_Subset, FS_CardinalityType
<1>a. \A V \in SUBSET S : SumFunctionOnSet(f, V) \in Int
  BY <1>0, SumStep
<1>1. 0 \in N
  <2>1. \A s \in SUBSET S : Cardinality(s) = 0 => s = {}
    BY <1>0, FS_EmptySet
  <2> QED  BY <2>1
<1>2. ASSUME NEW n \in N PROVE n + 1 \in N
  <2> SUFFICES ASSUME NEW s \in SUBSET S, Cardinality(s) = n + 1, NEW x \in s
               PROVE  SumFunctionOnSet(f, s) = f[x] + SumFunctionOnSet(f, s \ {x})
    OBVIOUS
  <2> DEFINE a == AnyOf(s)
  <2>1. a \in s
    BY DEF AnyOf
  <2>2. SumFunctionOnSet(f, s) = f[a] + SumFunctionOnSet(f, s \ {a})
    BY <1>0, SumStep
  <2> HIDE DEF a
  <2>3. CASE x = a
    BY <2>2, <2>3
  <2>4. CASE x # a
    <3>1. Cardinality(s \ {a}) = n /\ Cardinality(s \ {x}) = n
      BY <2>1, OneSmaller
    <3>2. /\ SumFunctionOnSet(f, s \ {a}) = f[x] + SumFunctionOnSet(f, (s \ {a}) \ {x})
          /\ SumFunctionOnSet(f, s \ {x}) = f[a] + SumFunctionOnSet(f, (s \ {x}) \ {a})
      BY <2>1, <2>4, <3>1
    <3>3. (s \ {a}) \ {x} = (s \ {x}) \ {a}
      OBVIOUS
    <3>4. f[x] \in Int /\ f[a] \in Int /\ SumFunctionOnSet(f, (s \ {x}) \ {a}) \in Int
      BY <1>a, <2>1
    <3> DEFINE rest == SumFunctionOnSet(f, (s \ {x}) \ {a})
    <3>5. /\ SumFunctionOnSet(f, s) = f[a] + (f[x] + rest)
          /\ SumFunctionOnSet(f, s \ {x}) = f[a] + rest /\ rest \in Int
      BY <2>2, <3>2, <3>3, <3>4
    <3> HIDE DEF rest
    <3> QED  BY <3>4, <3>5
  <2> QED  BY <2>3, <2>4
<1>3. N = Nat
  <2>1. N \in SUBSET Nat
    OBVIOUS
  <2> HIDE DEF N
  <2> QED  BY <1>1, <1>2, <2>1, NatSteps
<1> QED  BY <1>0, <1>3

(* One more element adds its number. *)
LEMMA SumAdd ==
    ASSUME NEW S, IsFiniteSet(S), NEW e, e \notin S, NEW f, \A x \in S \cup {e} : f[x] \in Int,
           NEW g, \A x \in S : g[x] = f[x]
    PROVE  SumFunctionOnSet(f, S \cup {e}) = f[e] + SumFunctionOnSet(g, S)
<1>1. IsFiniteSet(S \cup {e}) /\ (S \cup {e}) \ {e} = S
  BY FS_AddElement
<1>2. SumFunctionOnSet(f, S \cup {e}) = f[e] + SumFunctionOnSet(f, (S \cup {e}) \ {e})
  BY <1>1, SumRemove
<1> QED  BY <1>1, <1>2, SumSame

(* Where one number changes, the sum changes by as much. *)
LEMMA SumChange ==
    ASSUME NEW S, IsFiniteSet(S), NEW e \in S, NEW f, NEW g,
           \A x \in S : f[x] \in Int /\ g[x] \in Int, \A x \in S \ {e} : g[x] = f[x]
    PROVE  /\ SumFunctionOnSet(f, S) \in Int
           /\ SumFunctionOnSet(g, S) = SumFunctionOnSet(f, S) - f[e] + g[e]
<1>1. SumFunctionOnSet(f, S) = f[e] + SumFunctionOnSet(f, S \ {e})
  BY SumRemove
<1>2. SumFunctionOnSet(g, S) = g[e] + SumFunctionOnSet(g, S \ {e})
  BY SumRemove
<1>3. SumFunctionOnSet(g, S \ {e}) = SumFunctionOnSet(f, S \ {e})
  BY SumSame
<1>4. IsFiniteSet(S \ {e})
  BY FS_RemoveElement
<1>5. SumFunctionOnSet(f, S \ {e}) \in Int
  BY <1>4, SumStep
<1>6. f[e] \in Int /\ g[e] \in Int
  OBVIOUS
<1>7. QED
  BY <1>1, <1>2, <1>3, <1>5, <1>6

(* The sum of naturals is one. *)
LEMMA SumNat ==
    ASSUME NEW S, IsFiniteSet(S), NEW f, \A x \in S : f[x] \in Nat
    PROVE  SumFunctionOnSet(f, S) \in Nat
<1> DEFINE T == {V \in SUBSET S : SumFunctionOnSet(f, V) \in Nat}
<1>1. {} \in T
  <2>1. SumFunctionOnSet(f, {}) = 0
    BY FS_EmptySet, SumStep
  <2> QED  BY <2>1
<1>2. ASSUME NEW V \in T, NEW x \in S PROVE V \cup {x} \in T
  <2>1. CASE x \in V
    <3>1. V \cup {x} = V  BY <2>1
    <3> QED  BY <3>1
  <2>2. CASE x \notin V
    <3>1. IsFiniteSet(V) /\ \A y \in V \cup {x} : f[y] \in Int
      BY FS_Subset
    <3>2. SumFunctionOnSet(f, V \cup {x}) = f[x] + SumFunctionOnSet(f, V)
      BY <2>2, <3>1, SumAdd
    <3>3. V \cup {x} \in SUBSET S /\ f[x] \in Nat /\ SumFunctionOnSet(f, V) \in Nat
      OBVIOUS
    <3> DEFINE s == SumFunctionOnSet(f, V \cup {x})
               r == SumFunctionOnSet(f, V)
    <3> HIDE DEF s, r
    <3>4. s \in Nat  BY <3>2, <3>3 DEF s, r
    <3> QED  BY <3>3, <3>4 DEF s
  <2> QED  BY <2>1, <2>2
<1>3. T = SUBSET S
  <2>1. T \in SUBSET SUBSET S
    OBVIOUS
  <2> HIDE DEF T
  <2> QED  BY <1>1, <1>2, <2>1, FiniteSteps
<1> QED  BY <1>3

(* Sums over the first indices of a sequence. *)
LEMMA SumNone == ASSUME NEW f PROVE SumFunctionOnSet(f, {}) = 0 /\ 1 .. 0 = {}
<1>1. IsFiniteSet({}) /\ \A x \in {} : f[x] \in Int
  BY FS_EmptySet
<1>2. SumFunctionOnSet(f, {}) = 0
  BY <1>1, SumStep
<1>3. 1 .. 0 = {}
  OBVIOUS
<1> QED  BY <1>2, <1>3

(* Zeros add up to zero. *)
LEMMA SumZero ==
    ASSUME NEW S, IsFiniteSet(S), NEW f, \A x \in S : f[x] = 0 /\ f[x] \in Int
    PROVE  SumFunctionOnSet(f, S) = 0
<1> DEFINE T == {V \in SUBSET S : SumFunctionOnSet(f, V) = 0}
<1>1. {} \in T
  BY SumNone
<1>2. ASSUME NEW V \in T, NEW x \in S PROVE V \cup {x} \in T
  <2>1. CASE x \in V
    <3>1. V \cup {x} = V
      BY <2>1
    <3> QED  BY <3>1
  <2>2. CASE x \notin V
    <3>1. IsFiniteSet(V)
      BY FS_Subset
    <3>2. \A y \in V \cup {x} : f[y] \in Int
      OBVIOUS
    <3>3. SumFunctionOnSet(f, V \cup {x}) = f[x] + SumFunctionOnSet(f, V)
      BY <2>2, <3>1, <3>2, SumAdd
    <3> QED  BY <3>3
  <2> QED  BY <2>1, <2>2
<1>3. T = SUBSET S
  <2>1. T \in SUBSET SUBSET S
    OBVIOUS
  <2> HIDE DEF T
  <2> QED  BY <1>1, <1>2, <2>1, FiniteSteps
<1>4. S \in T
  BY <1>3
<1> QED  BY <1>4

(* A sum is what a part of the set adds and what the rest adds. *)
LEMMA SumSplit ==
    ASSUME NEW S, IsFiniteSet(S), NEW f, \A x \in S : f[x] \in Int, NEW R \in SUBSET S
    PROVE  /\ SumFunctionOnSet(f, S) = SumFunctionOnSet(f, R) + SumFunctionOnSet(f, S \ R)
           /\ SumFunctionOnSet(f, R) \in Int /\ SumFunctionOnSet(f, S \ R) \in Int
<1> DEFINE Sum(V) == SumFunctionOnSet(f, V)
           T == {V \in SUBSET R : Sum(S) = Sum(V) + Sum(S \ V)}
<1>0. \A V \in SUBSET S : IsFiniteSet(V) /\ Sum(V) \in Int
  <2> SUFFICES ASSUME NEW V \in SUBSET S PROVE IsFiniteSet(V) /\ Sum(V) \in Int
    OBVIOUS
  <2>1. IsFiniteSet(V)
    BY FS_Subset
  <2> QED  BY <2>1, SumStep
<1>1. {} \in T
  <2>1. S \ {} = S /\ Sum({}) = 0
    BY SumNone
  <2> QED  BY <1>0, <2>1
<1>2. ASSUME NEW V \in T, NEW x \in R PROVE V \cup {x} \in T
  <2>1. CASE x \in V
    <3>1. V \cup {x} = V  BY <2>1
    <3> QED  BY <3>1
  <2>2. CASE x \notin V
    <3>1. IsFiniteSet(V) /\ IsFiniteSet(S \ V) /\ x \in S \ V /\ V \in SUBSET S
      BY <1>0, <2>2
    <3>2. Sum(V \cup {x}) = f[x] + Sum(V)
      <4>1. \A y \in V \cup {x} : f[y] \in Int
        OBVIOUS
      <4> HIDE DEF T
      <4> QED  BY <2>2, <3>1, <4>1, SumAdd
    <3>3. Sum(S \ V) = f[x] + Sum((S \ V) \ {x})
      BY <3>1, SumRemove
    <3>4. Sum((S \ V) \ {x}) = Sum(S \ (V \cup {x}))
      <4>1. (S \ V) \ {x} = S \ (V \cup {x})
        OBVIOUS
      <4> QED  BY <4>1
    <3>5. Sum(S) = Sum(V) + Sum(S \ V) /\ V \cup {x} \in SUBSET R
      OBVIOUS
    <3>6. f[x] \in Int /\ Sum(V) \in Int /\ Sum(S \ (V \cup {x})) \in Int
      BY <1>0, <3>1
    <3>7. Sum(S) = Sum(V \cup {x}) + Sum(S \ (V \cup {x}))
      <4> HIDE DEF Sum, T
      <4> QED  BY <3>2, <3>3, <3>4, <3>5, <3>6
    <3> QED  BY <3>5, <3>7
  <2> QED  BY <2>1, <2>2
<1>3. T = SUBSET R
  <2>1. T \in SUBSET SUBSET R /\ IsFiniteSet(R)
    BY <1>0
  <2> HIDE DEF T
  <2> QED  BY <1>1, <1>2, <2>1, FiniteSteps
<1> QED  BY <1>0, <1>3

LEMMA SumOneMore ==
    ASSUME NEW n \in Nat, NEW f, \A i \in 1 .. (n + 1) : f[i] \in Int,
           NEW g, \A i \in 1 .. n : g[i] = f[i]
    PROVE  /\ SumFunctionOnSet(f, 1 .. (n + 1)) = f[n + 1] + SumFunctionOnSet(g, 1 .. n)
           /\ SumFunctionOnSet(g, 1 .. n) \in Int
<1>1. PICK S, e : S = 1 .. n /\ e = n + 1
  OBVIOUS
<1>2. IsFiniteSet(S)
  BY <1>1, FS_Interval
<1>3. e \notin S /\ S \cup {e} = 1 .. (n + 1)
  BY <1>1
<1>4. (\A i \in S \cup {e} : f[i] \in Int) /\ (\A i \in S : g[i] = f[i])
  BY <1>1, <1>3
<1>5. SumFunctionOnSet(f, S \cup {e}) = f[e] + SumFunctionOnSet(g, S)
  BY <1>2, <1>3, <1>4, SumAdd
<1>6. \A i \in S : g[i] \in Int
  BY <1>4
<1>7. SumFunctionOnSet(g, S) \in Int
  BY <1>2, <1>6, SumStep
<1> QED  BY <1>1, <1>3, <1>5, <1>7

-----------------------------------------------------------------------------
(* A loop over 1 .. n: g are the values it goes through, from b, when its  *)
(* ith step takes x to F[i][x].                                            *)
StepsTo(g, b, F, n) == \A i \in 0 .. n : g[i] = IF i = 0 THEN b ELSE F[i][g[i - 1]]

LEMMA OneMoreStep ==
    ASSUME NEW T, NEW b \in T, NEW n \in Nat, NEW F, \A x \in T : F[n + 1][x] \in T,
           NEW g \in [0 .. n -> T], StepsTo(g, b, F, n)
    PROVE  \E h \in [0 .. (n + 1) -> T] : StepsTo(h, b, F, n + 1)
<1> DEFINE e == F[n + 1][g[n]]
           h == [i \in 0 .. (n + 1) |-> IF i = n + 1 THEN e ELSE g[i]]
<1>1. g[n] \in T /\ e \in T
  OBVIOUS
<1> HIDE DEF e
<1>2. h \in [0 .. (n + 1) -> T]
  BY <1>1
<1>3. ASSUME NEW i \in 0 .. (n + 1) PROVE h[i] = IF i = 0 THEN b ELSE F[i][h[i - 1]]
  <2>1. CASE i = n + 1
    BY <2>1 DEF e
  <2>2. CASE i # n + 1
    <3>1. i \in 0 .. n /\ h[i] = g[i] /\ (i # 0 => i - 1 \in 0 .. n /\ h[i - 1] = g[i - 1])
      BY <2>2
    <3> HIDE DEF h
    <3> QED  BY <3>1 DEF StepsTo
  <2> QED  BY <2>1, <2>2
<1> HIDE DEF h
<1> QED  BY <1>2, <1>3 DEF StepsTo

LEMMA StepsExist ==
    ASSUME NEW T, NEW b \in T, NEW m \in Nat, NEW F, \A i \in 1 .. m : \A x \in T : F[i][x] \in T
    PROVE  \E g \in [0 .. m -> T] : StepsTo(g, b, F, m)
<1> DEFINE N == {n \in Nat : n <= m => \E g \in [0 .. n -> T] : StepsTo(g, b, F, n)}
<1>1. 0 \in N
  <2>1. [i \in 0 .. 0 |-> b] \in [0 .. 0 -> T]
    OBVIOUS
  <2>2. StepsTo([i \in 0 .. 0 |-> b], b, F, 0)
    BY DEF StepsTo
  <2> QED  BY <2>1, <2>2
<1>2. ASSUME NEW n \in N PROVE n + 1 \in N
  <2> SUFFICES ASSUME n + 1 <= m PROVE \E g \in [0 .. (n + 1) -> T] : StepsTo(g, b, F, n + 1)
    OBVIOUS
  <2>1. n <= m /\ n + 1 \in 1 .. m
    OBVIOUS
  <2>2. PICK g \in [0 .. n -> T] : StepsTo(g, b, F, n)
    BY <2>1
  <2>3. n \in Nat /\ \A x \in T : F[n + 1][x] \in T
    BY <2>1
  <2> HIDE DEF N
  <2> QED  BY <2>2, <2>3, OneMoreStep
<1>3. N = Nat
  <2>1. N \in SUBSET Nat
    OBVIOUS
  <2> HIDE DEF N
  <2> QED  BY <1>1, <1>2, <2>1, NatSteps
<1>4. m <= m /\ m \in N
  BY <1>3
<1> QED  BY <1>4

-----------------------------------------------------------------------------
(* g is what is retained of each prefix of s. *)
Retains(g, s, K) ==
    g = [i \in 0 .. Len(s) |->
            IF i = 0 THEN <<>> ELSE IF i \in K THEN Append(g[i - 1], s[i]) ELSE g[i - 1]]

LEMMA RetainsExist ==
    ASSUME NEW S, NEW s \in Seq(S), NEW K
    PROVE  \E g \in [0 .. Len(s) -> Seq(S)] : Retains(g, s, K)
<1> DEFINE F == [i \in 1 .. Len(s) |->
                   [x \in Seq(S) |-> IF i \in K THEN Append(x, s[i]) ELSE x]]
<1>1. Len(s) \in Nat /\ << >> \in Seq(S) /\ \A i \in 1 .. Len(s) : s[i] \in S
  OBVIOUS
<1>2. ASSUME NEW i \in 1 .. Len(s), NEW x \in Seq(S)
      PROVE  F[i][x] = (IF i \in K THEN Append(x, s[i]) ELSE x) /\ F[i][x] \in Seq(S)
  <2>1. F[i][x] = IF i \in K THEN Append(x, s[i]) ELSE x
    OBVIOUS
  <2> HIDE DEF F
  <2>2. Append(x, s[i]) \in Seq(S)
    BY <1>1, AppendProperties
  <2> QED  BY <2>1, <2>2
<1> HIDE DEF F
<1>3. PICK g \in [0 .. Len(s) -> Seq(S)] : StepsTo(g, <<>>, F, Len(s))
  BY <1>1, <1>2, StepsExist
<1>4. ASSUME NEW i \in 0 .. Len(s)
      PROVE  g[i] = IF i = 0 THEN <<>> ELSE IF i \in K THEN Append(g[i - 1], s[i]) ELSE g[i - 1]
  <2>1. CASE i = 0
    BY <1>3, <2>1 DEF StepsTo
  <2>2. CASE i # 0
    <3>1. i \in 1 .. Len(s) /\ i - 1 \in 0 .. Len(s)
      BY <1>1, <2>2
    <3>2. g[i] = F[i][g[i - 1]] /\ g[i - 1] \in Seq(S)
      BY <1>3, <2>2, <3>1 DEF StepsTo
    <3> QED  BY <1>2, <2>2, <3>1, <3>2
  <2> QED  BY <2>1, <2>2
<1>5. Retains(g, s, K)
  BY <1>4 DEF Retains
<1> QED  BY <1>5

(* t are the elements of s at those of the first n indices that are in K,  *)
(* in order: at[j] is where the jth of them was.                           *)
PickedAt(at, t, s, K, n) ==
    /\ at \in [1 .. Len(t) -> K \cap (1 .. n)]
    /\ \A j \in 1 .. Len(t) : t[j] = s[at[j]]
    /\ \A j, k \in 1 .. Len(t) : j < k => at[j] < at[k]
    /\ \A i \in K \cap (1 .. n) : \E j \in 1 .. Len(t) : at[j] = i

LEMMA PickedOneMore ==
    ASSUME NEW S, NEW s \in Seq(S), NEW K, NEW n \in Nat, n + 1 <= Len(s), n + 1 \in K,
           NEW r \in Seq(S), NEW at, PickedAt(at, r, s, K, n)
    PROVE  \E new : PickedAt(new, Append(r, s[n + 1]), s, K, n + 1)
<1> DEFINE t == Append(r, s[n + 1])
           m == Len(r)
           new == [j \in 1 .. (m + 1) |-> IF j = m + 1 THEN n + 1 ELSE at[j]]
<1>0. s[n + 1] \in S
  OBVIOUS
<1>1. /\ Len(t) = m + 1 /\ m \in Nat
      /\ \A j \in 1 .. m : t[j] = r[j]
      /\ t[m + 1] = s[n + 1]
  BY <1>0, AppendProperties
<1>2. /\ at \in [1 .. m -> K \cap (1 .. n)]
      /\ \A j \in 1 .. m : r[j] = s[at[j]]
      /\ \A j, k \in 1 .. m : j < k => at[j] < at[k]
      /\ \A i \in K \cap (1 .. n) : \E j \in 1 .. m : at[j] = i
  BY DEF PickedAt
<1> HIDE DEF t, m
<1>3. ASSUME NEW j \in 1 .. (m + 1)
      PROVE  /\ j = m + 1 => new[j] = n + 1
             /\ j # m + 1 => j \in 1 .. m /\ new[j] = at[j] /\ at[j] \in K \cap (1 .. n)
  <2>1. j # m + 1 => j \in 1 .. m
    BY <1>1
  <2> QED  BY <1>2, <2>1
<1>4. DOMAIN new = 1 .. (m + 1) /\ new = [j \in 1 .. (m + 1) |-> new[j]]
  OBVIOUS
<1> HIDE DEF new
<1>5. new \in [1 .. (m + 1) -> K \cap (1 .. (n + 1))]
  <2>1. \A j \in 1 .. (m + 1) : new[j] \in K \cap (1 .. (n + 1))
    BY <1>3
  <2> QED  BY <1>4, <2>1
<1>6. \A j \in 1 .. (m + 1) : t[j] = s[new[j]]
  BY <1>1, <1>2, <1>3
<1>7. ASSUME NEW j \in 1 .. (m + 1), NEW k \in 1 .. (m + 1), j < k PROVE new[j] < new[k]
  <2>1. j # m + 1
    BY <1>1, <1>7
  <2>2. j \in 1 .. m /\ new[j] = at[j] /\ at[j] \in 1 .. n
    BY <1>3, <2>1
  <2>3. CASE k = m + 1
    BY <1>3, <2>2, <2>3
  <2>4. CASE k # m + 1
    BY <1>2, <1>3, <1>7, <2>2, <2>4
  <2> QED  BY <2>3, <2>4
<1>8. ASSUME NEW i \in K \cap (1 .. (n + 1)) PROVE \E j \in 1 .. (m + 1) : new[j] = i
  <2>1. CASE i = n + 1
    BY <1>1, <1>3, <2>1
  <2>2. CASE i # n + 1
    <3>1. i \in K \cap (1 .. n)
      BY <2>2
    <3>2. PICK j \in 1 .. m : at[j] = i
      BY <1>2, <3>1
    <3>3. j \in 1 .. (m + 1) /\ j # m + 1
      BY <1>1
    <3> QED  BY <1>3, <3>2, <3>3
  <2> QED  BY <2>1, <2>2
<1>9. PickedAt(new, t, s, K, n + 1)
  BY <1>1, <1>5, <1>6, <1>7, <1>8 DEF PickedAt
<1> QED  BY <1>9 DEF t

LEMMA RetainedIs ==
    ASSUME NEW S, NEW s \in Seq(S), NEW K
    PROVE  Retained(s, K) \in Seq(S) /\ \E at : PickedAt(at, Retained(s, K), s, K, Len(s))
<1> DEFINE r == CHOOSE g : Retains(g, s, K)
           N == {n \in Nat : n <= Len(s) => r[n] \in Seq(S) /\ \E at : PickedAt(at, r[n], s, K, n)}
<1>0. Len(s) \in Nat /\ << >> \in Seq(S) /\ Len(<< >>) = 0
  OBVIOUS
<1>1. Retains(r, s, K)
  BY RetainsExist
<1>2. Retained(s, K) = r[Len(s)]
  BY DEF Retained, Retains
<1>3. ASSUME NEW i \in 0 .. Len(s)
      PROVE  r[i] = IF i = 0 THEN <<>> ELSE IF i \in K THEN Append(r[i - 1], s[i]) ELSE r[i - 1]
  <2> HIDE DEF r
  <2> QED  BY <1>1 DEF Retains
<1> HIDE DEF r
<1>4. 0 \in N
  <2>1. r[0] = << >>
    BY <1>0, <1>3
  <2>2. PickedAt(<< >>, << >>, s, K, 0)
    BY <1>0 DEF PickedAt
  <2>3. 0 <= Len(s) => r[0] \in Seq(S) /\ \E at : PickedAt(at, r[0], s, K, 0)
    BY <1>0, <2>1, <2>2
  <2> QED  BY <2>3
<1>5. ASSUME NEW n \in N PROVE n + 1 \in N
  <2> SUFFICES ASSUME n + 1 <= Len(s)
               PROVE  r[n + 1] \in Seq(S) /\ \E at : PickedAt(at, r[n + 1], s, K, n + 1)
    OBVIOUS
  <2>1. /\ n \in Nat /\ n <= Len(s) /\ n + 1 \in 0 .. Len(s) /\ n + 1 # 0 /\ (n + 1) - 1 = n
        /\ s[n + 1] \in S
    BY <1>0
  <2>2. r[n] \in Seq(S) /\ \E at : PickedAt(at, r[n], s, K, n)
    BY <2>1
  <2>3. r[n + 1] = IF n + 1 \in K THEN Append(r[n], s[n + 1]) ELSE r[n]
    BY <1>3, <2>1
  <2>4. CASE n + 1 \in K
    <3>1. r[n + 1] = Append(r[n], s[n + 1]) /\ r[n + 1] \in Seq(S)
      BY <2>1, <2>2, <2>3, <2>4, AppendProperties
    <3> QED  BY <2>1, <2>2, <2>4, <3>1, PickedOneMore
  <2>5. CASE n + 1 \notin K
    <3>1. r[n + 1] = r[n] /\ K \cap (1 .. (n + 1)) = K \cap (1 .. n)
      BY <2>1, <2>3, <2>5
    <3>2. PICK at : PickedAt(at, r[n], s, K, n)
      BY <2>2
    <3> DEFINE new == K \cap (1 .. (n + 1))
               old == K \cap (1 .. n)
    <3>3. new = old
      BY <3>1
    <3> HIDE DEF new, old
    <3>4. PickedAt(at, r[n + 1], s, K, n + 1)
      BY <3>1, <3>2, <3>3, Zenon DEF PickedAt, new, old
    <3> QED  BY <2>2, <3>1, <3>4
  <2> QED  BY <2>4, <2>5
<1>6. N = Nat
  <2>1. N \in SUBSET Nat
    OBVIOUS
  <2> HIDE DEF N
  <2> QED  BY <1>4, <1>5, <2>1, NatSteps
<1>7. Len(s) <= Len(s) /\ Len(s) \in N
  BY <1>0, <1>6
<1> QED  BY <1>2, <1>7

(* How often v is in s. *)
Spots(s, v) == {i \in 1 .. Len(s) : s[i] = v}
Copies(s, v) == Cardinality(Spots(s, v))

LEMMA CopiesAreFew ==
    ASSUME NEW S, NEW s \in Seq(S), NEW v
    PROVE  /\ IsFiniteSet(Spots(s, v)) /\ Copies(s, v) \in Nat
           /\ (\A i \in 1 .. Len(s) : s[i] # v) => Copies(s, v) = 0
           /\ (\A i, j \in 1 .. Len(s) : s[i] = s[j] => i = j) => Copies(s, v) <= 1
<1>1. IsFiniteSet(1 .. Len(s))
  BY FS_Interval, LenProperties
<1>2. IsFiniteSet(Spots(s, v)) /\ Copies(s, v) \in Nat
  BY <1>1, FS_Subset, FS_CardinalityType DEF Spots, Copies
<1>3. (\A i \in 1 .. Len(s) : s[i] # v) => Copies(s, v) = 0
  BY FS_EmptySet DEF Spots, Copies
<1>4. ASSUME \A i, j \in 1 .. Len(s) : s[i] = s[j] => i = j, Spots(s, v) # {} PROVE Copies(s, v) <= 1
  <2>1. PICK i \in Spots(s, v) : TRUE
    BY <1>4
  <2>2. Spots(s, v) = {i}
    BY <1>4, <2>1 DEF Spots
  <2>3. Cardinality({i}) = 1
    BY FS_Singleton
  <2>4. Copies(s, v) = 1
    BY <2>2, <2>3 DEF Copies
  <2> QED  BY <2>4
<1>5. Spots(s, v) = {} => Copies(s, v) <= 1
  BY FS_EmptySet DEF Copies
<1> QED  BY <1>2, <1>3, <1>4, <1>5

LEMMA CopiesOfBoth ==
    ASSUME NEW S, NEW s \in Seq(S), NEW t \in Seq(S), NEW v
    PROVE  Copies(s \o t, v) = Copies(s, v) + Copies(t, v)
<1> DEFINE moved == {Len(s) + i : i \in Spots(t, v)}
           f == [i \in Spots(t, v) |-> Len(s) + i]
<1>0. Len(s) \in Nat /\ Len(t) \in Nat
  BY LenProperties
<1>1. /\ s \o t \in Seq(S) /\ Len(s \o t) = Len(s) + Len(t)
      /\ \A i \in 1 .. Len(s) + Len(t) : (s \o t)[i] = IF i <= Len(s) THEN s[i] ELSE t[i - Len(s)]
  BY ConcatProperties
<1>2. IsFiniteSet(Spots(s, v)) /\ IsFiniteSet(Spots(t, v)) /\ Copies(s, v) \in Nat /\ Copies(t, v) \in Nat
  BY CopiesAreFew
<1>3. Spots(s \o t, v) = Spots(s, v) \cup moved
  <2>1. ASSUME NEW i \in Spots(s \o t, v) PROVE i \in Spots(s, v) \cup moved
    <3>1. i \in 1 .. Len(s) + Len(t) /\ (s \o t)[i] = v
      BY <1>1, <2>1 DEF Spots
    <3>2. CASE i <= Len(s)
      BY <1>0, <1>1, <3>1, <3>2 DEF Spots
    <3>3. CASE ~(i <= Len(s))
      <4>1. PICK k \in Int : k = i - Len(s)
        BY <1>0, <3>1
      <4>2. k \in 1 .. Len(t) /\ t[k] = v /\ i = Len(s) + k
        BY <1>0, <1>1, <3>1, <3>3, <4>1
      <4> QED  BY <4>2 DEF Spots
    <3> QED  BY <3>2, <3>3
  <2>2. ASSUME NEW i \in Spots(s, v) PROVE i \in Spots(s \o t, v)
    BY <1>0, <1>1, <2>2 DEF Spots
  <2>3. ASSUME NEW k \in Spots(t, v) PROVE Len(s) + k \in Spots(s \o t, v)
    <3>1. k \in 1 .. Len(t) /\ t[k] = v
      BY <2>3 DEF Spots
    <3>2. PICK i \in Int : i = Len(s) + k
      BY <1>0, <3>1
    <3>3. i \in 1 .. Len(s) + Len(t) /\ ~(i <= Len(s)) /\ i - Len(s) = k
      BY <1>0, <3>1, <3>2
    <3>4. (s \o t)[i] = v
      BY <1>1, <3>1, <3>3
    <3> QED  BY <1>1, <3>2, <3>3, <3>4 DEF Spots
  <2> QED  BY <2>1, <2>2, <2>3
<1>4. f \in Bijection(Spots(t, v), moved)
  <2>1. \A i, j \in Spots(t, v) : f[i] = f[j] => i = j
    BY <1>0 DEF Spots
  <2>2. f \in [Spots(t, v) -> moved]
    OBVIOUS
  <2>3. \A y \in moved : \E x \in Spots(t, v) : f[x] = y
    OBVIOUS
  <2> HIDE DEF f, moved
  <2> QED  BY <2>1, <2>2, <2>3 DEF Bijection, Injection, Surjection, IsInjective
<1>5. IsFiniteSet(moved) /\ Cardinality(moved) = Copies(t, v)
  BY <1>2, <1>4, FS_Bijection DEF ExistsBijection, Copies
<1>6. Spots(s, v) \cap moved = {}
  BY <1>0 DEF Spots
<1> HIDE DEF moved
<1>7. Cardinality(Spots(s, v) \cup moved) = Cardinality(Spots(s, v)) + Cardinality(moved)
  <2>1. Cardinality(Spots(s, v) \cup moved)
          = Cardinality(Spots(s, v)) + Cardinality(moved) - Cardinality(Spots(s, v) \cap moved)
    BY <1>2, <1>5, FS_Union
  <2>2. Cardinality(Spots(s, v) \cap moved) = 0
    BY <1>6, FS_EmptySet
  <2>3. Cardinality(Spots(s, v)) \in Nat /\ Cardinality(moved) \in Nat
    BY <1>2, <1>5 DEF Copies
  <2> QED  BY <2>1, <2>2, <2>3
<1> QED  BY <1>3, <1>5, <1>7 DEF Copies

LEMMA CopiesOfOne ==
    ASSUME NEW e, NEW v
    PROVE  Copies(<<e>>, v) = (IF e = v THEN 1 ELSE 0) /\ Copies(<<>>, v) = 0
<1>1. Len(<<e>>) = 1 /\ <<e>>[1] = e /\ Len(<< >>) = 0 /\ 1 .. 0 = {}
  OBVIOUS
<1>2. Spots(<<e>>, v) = IF e = v THEN {1} ELSE {}
  BY <1>1 DEF Spots
<1>3. Spots(<< >>, v) = {}
  BY <1>1 DEF Spots
<1> QED  BY <1>2, <1>3, FS_Singleton, FS_EmptySet DEF Copies

LEMMA CopiesOfMore ==
    ASSUME NEW S, NEW s \in Seq(S), NEW e \in S, NEW v
    PROVE  Copies(Append(s, e), v) = Copies(s, v) + (IF e = v THEN 1 ELSE 0)
<1>1. <<e>> \in Seq(S) /\ Append(s, e) = s \o <<e>>
  OBVIOUS
<1>2. Copies(s \o <<e>>, v) = Copies(s, v) + Copies(<<e>>, v)
  BY <1>1, CopiesOfBoth
<1>3. Copies(<<e>>, v) = IF e = v THEN 1 ELSE 0
  BY CopiesOfOne
<1> QED  BY <1>1, <1>2, <1>3

LEMMA CopiesOfLess ==
    ASSUME NEW S, NEW s \in Seq(S), s # <<>>, NEW v
    PROVE  Copies(s, v) = Copies(Tail(s), v) + (IF Head(s) = v THEN 1 ELSE 0)
<1>1. Head(s) \in S /\ Tail(s) \in Seq(S) /\ <<Head(s)>> \in Seq(S) /\ s = <<Head(s)>> \o Tail(s)
  OBVIOUS
<1>2. Copies(s, v) = Copies(<<Head(s)>>, v) + Copies(Tail(s), v)
  <2>1. PICK h, t : h = <<Head(s)>> /\ t = Tail(s)
    OBVIOUS
  <2>2. h \in Seq(S) /\ t \in Seq(S) /\ s = h \o t
    BY <1>1, <2>1
  <2>3. Copies(h \o t, v) = Copies(h, v) + Copies(t, v)
    BY <2>2, CopiesOfBoth
  <2>4. Copies(s, v) = Copies(h, v) + Copies(t, v)
    BY <2>2, <2>3
  <2> QED  BY <2>1, <2>4
<1>3. Copies(Tail(s), v) \in Nat
  BY <1>1, CopiesAreFew
<1> QED  BY <1>2, <1>3, CopiesOfOne

LEMMA CopiesOfSome ==
    ASSUME NEW S, NEW s \in Seq(S), NEW kept, NEW v
    PROVE  /\ Spots(s, v) \subseteq kept => Copies(Retained(s, kept), v) = Copies(s, v)
           /\ Spots(s, v) \cap kept = {} => Copies(Retained(s, kept), v) = 0
<1> DEFINE r == Retained(s, kept)
<1>1. PICK f : PickedAt(f, r, s, kept, Len(s))
  BY RetainedIs
<1>2. r \in Seq(S) /\ Len(r) \in Nat /\ Len(s) \in Nat
  BY RetainedIs, LenProperties
<1> HIDE DEF r
<1>3. ASSUME Spots(s, v) \subseteq kept PROVE Copies(r, v) = Copies(s, v)
  <2> DEFINE g == [j \in Spots(r, v) |-> f[j]]
  <2>1. \A j \in 1 .. Len(r) : f[j] \in kept \cap (1 .. Len(s)) /\ r[j] = s[f[j]]
    BY <1>1 DEF PickedAt
  <2>2. \A j \in Spots(r, v) : g[j] = f[j] /\ f[j] \in Spots(s, v)
    BY <2>1 DEF Spots
  <2>3. \A i, j \in Spots(r, v) : f[i] = f[j] => i = j
    <3> SUFFICES ASSUME NEW i \in Spots(r, v), NEW j \in Spots(r, v), f[i] = f[j] PROVE i = j
      OBVIOUS
    <3>1. i \in 1 .. Len(r) /\ j \in 1 .. Len(r) /\ f[i] \in Int /\ f[j] \in Int
      BY <2>1 DEF Spots
    <3>2. (i < j => f[i] < f[j]) /\ (j < i => f[j] < f[i])
      BY <1>1, <3>1 DEF PickedAt
    <3> QED  BY <1>2, <3>1, <3>2
  <2>4. ASSUME NEW i \in Spots(s, v) PROVE \E j \in Spots(r, v) : f[j] = i
    <3>1. i \in kept \cap (1 .. Len(s)) /\ s[i] = v
      BY <1>3, <2>4 DEF Spots
    <3>2. PICK j \in 1 .. Len(r) : f[j] = i
      BY <1>1, <3>1 DEF PickedAt
    <3> QED  BY <2>1, <3>1, <3>2 DEF Spots
  <2>5. g \in [Spots(r, v) -> Spots(s, v)]
    BY <2>2
  <2>6. \A y \in Spots(s, v) : \E x \in Spots(r, v) : g[x] = y
    BY <2>2, <2>4
  <2>7. \A i, j \in Spots(r, v) : g[i] = g[j] => i = j
    BY <2>2, <2>3
  <2> HIDE DEF g
  <2>8. g \in Bijection(Spots(r, v), Spots(s, v))
    BY <2>5, <2>6, <2>7 DEF Bijection, Injection, Surjection, IsInjective
  <2>9. IsFiniteSet(Spots(r, v))
    BY <1>2, CopiesAreFew
  <2> QED  BY <2>8, <2>9, FS_Bijection DEF ExistsBijection, Copies
<1>4. ASSUME Spots(s, v) \cap kept = {} PROVE Copies(r, v) = 0
  <2>1. ASSUME NEW j \in 1 .. Len(r) PROVE r[j] # v
    <3>1. f[j] \in kept \cap (1 .. Len(s)) /\ r[j] = s[f[j]]
      BY <1>1 DEF PickedAt
    <3> QED  BY <1>4, <3>1 DEF Spots
  <2> QED  BY <1>2, <2>1, CopiesAreFew
<1> QED  BY <1>3, <1>4 DEF r

LEMMA HasCopy ==
    ASSUME NEW S, NEW s \in Seq(S), NEW v
    PROVE  /\ Copies(s, v) > 0 <=> \E i \in DOMAIN s : s[i] = v
           /\ Copies(s, v) > 0 <=> v \in Range(s)
<1>1. IsFiniteSet(Spots(s, v)) /\ Copies(s, v) \in Nat /\ DOMAIN s = 1 .. Len(s)
  BY CopiesAreFew, LenProperties
<1>2. Copies(s, v) > 0 <=> Spots(s, v) # {}
  BY <1>1, FS_EmptySet DEF Copies
<1> QED  BY <1>1, <1>2 DEF Spots, Range

(* A finite set of numbers has a smallest and a largest.                   *)
LEMMA Extremes ==
    ASSUME NEW S \in SUBSET Int, IsFiniteSet(S), S # {}
    PROVE  /\ \E x \in S : \A y \in S : x <= y
           /\ \E x \in S : \A y \in S : x >= y
<1> DEFINE T == {V \in SUBSET S : V = {} \/ /\ \E x \in V : \A y \in V : x <= y
                                            /\ \E x \in V : \A y \in V : x >= y}
<1>1. {} \in T
  OBVIOUS
<1>2. ASSUME NEW V \in T, NEW x \in S PROVE V \cup {x} \in T
  <2>1. CASE V = {}
    BY <2>1
  <2>2. CASE V # {}
    <3>1. PICK a \in V : \A y \in V : a <= y
      BY <2>2
    <3>2. PICK b \in V : \A y \in V : b >= y
      BY <2>2
    <3>3. \E z \in V \cup {x} : \A y \in V \cup {x} : z <= y
      <4>1. CASE a <= x
        BY <3>1, <4>1
      <4>2. CASE ~(a <= x)
        BY <3>1, <4>2
      <4> QED  BY <4>1, <4>2
    <3>4. \E z \in V \cup {x} : \A y \in V \cup {x} : z >= y
      <4>1. CASE b >= x
        BY <3>2, <4>1
      <4>2. CASE ~(b >= x)
        BY <3>2, <4>2
      <4> QED  BY <4>1, <4>2
    <3> QED  BY <3>3, <3>4
  <2> QED  BY <2>1, <2>2
<1>3. T = SUBSET S
  <2>1. T \in SUBSET SUBSET S
    OBVIOUS
  <2> HIDE DEF T
  <2> QED  BY <1>1, <1>2, <2>1, FiniteSteps
<1>4. S \in T
  BY <1>3
<1> QED  BY <1>4

(* r is what has been retained of each prefix of s. *)
RetainedBy(r, S, s, K) ==
    /\ r \in [0 .. Len(s) -> Seq(S)] /\ r[0] = <<>> /\ Retained(s, K) = r[Len(s)]
    /\ \A i \in 0 .. Len(s) - 1 : i + 1 \in 1 .. Len(s) /\ s[i + 1] \in S
          /\ r[i + 1] = IF i + 1 \in K THEN Append(r[i], s[i + 1]) ELSE r[i]

LEMMA RetainedSteps ==
    ASSUME NEW S, NEW s \in Seq(S), NEW K
    PROVE  \E r : RetainedBy(r, S, s, K)
<1> DEFINE g == CHOOSE h : Retains(h, s, K)
           N == {n \in Nat : n <= Len(s) => g[n] \in Seq(S)}
<1>0. Len(s) \in Nat /\ << >> \in Seq(S) /\ \A i \in 1 .. Len(s) : s[i] \in S
  BY LenProperties, ElementOfSeq
<1>1. Retains(g, s, K)
  BY RetainsExist
<1>2. Retained(s, K) = g[Len(s)]
  BY DEF Retained, Retains
<1> HIDE DEF g
<1>3. DOMAIN g = 0 .. Len(s) /\ g = [i \in 0 .. Len(s) |-> g[i]]
  BY <1>1 DEF Retains
<1>4. \A i \in 0 .. Len(s) : g[i] = IF i = 0 THEN <<>> ELSE IF i \in K THEN Append(g[i - 1], s[i]) ELSE g[i - 1]
  BY <1>1 DEF Retains
<1>5. 0 \in N
  <2>1. 0 \in 0 .. Len(s)
    BY <1>0
  <2>2. g[0] = <<>>
    BY <1>4, <2>1
  <2> QED  BY <1>0, <2>2
<1>6. ASSUME NEW n \in N PROVE n + 1 \in N
  <2> SUFFICES ASSUME n + 1 <= Len(s) PROVE g[n + 1] \in Seq(S)
    OBVIOUS
  <2>1. n \in Nat /\ n <= Len(s) /\ n + 1 \in 0 .. Len(s) /\ n + 1 # 0 /\ (n + 1) - 1 = n /\ s[n + 1] \in S
    BY <1>0
  <2>2. g[n] \in Seq(S) /\ g[n + 1] = IF n + 1 \in K THEN Append(g[n], s[n + 1]) ELSE g[n]
    BY <1>4, <2>1
  <2>3. Append(g[n], s[n + 1]) \in Seq(S)
    BY <2>1, <2>2, AppendProperties
  <2> QED  BY <2>2, <2>3
<1>7. N = Nat
  <2>1. N \in SUBSET Nat
    OBVIOUS
  <2> HIDE DEF N
  <2> QED  BY <1>5, <1>6, <2>1, NatSteps
<1>8. \A i \in 0 .. Len(s) : g[i] \in Seq(S)
  BY <1>0, <1>7
<1>9. g \in [0 .. Len(s) -> Seq(S)]
  BY <1>3, <1>8
<1>10. ASSUME NEW i \in 0 .. Len(s) - 1
       PROVE  i + 1 \in 1 .. Len(s) /\ s[i + 1] \in S
              /\ g[i + 1] = IF i + 1 \in K THEN Append(g[i], s[i + 1]) ELSE g[i]
  <2>1. i + 1 \in 0 .. Len(s) /\ i + 1 # 0 /\ (i + 1) - 1 = i /\ i + 1 \in 1 .. Len(s)
    BY <1>0
  <2>2. s[i + 1] \in S
    BY <1>0, <2>1
  <2>3. g[i + 1] = IF i + 1 \in K THEN Append(g[(i + 1) - 1], s[i + 1]) ELSE g[(i + 1) - 1]
    BY <1>4, <2>1
  <2> QED  BY <2>1, <2>2, <2>3
<1>11. g[0] = <<>>
  BY <1>0, <1>4
<1>12. RetainedBy(g, S, s, K)
  BY <1>2, <1>9, <1>10, <1>11 DEF RetainedBy
<1> QED  BY <1>12

(* What holds of the empty sequence and of one more step holds at the end. *)
LEMMA PrefixSteps ==
    ASSUME NEW m \in Nat, NEW T \in SUBSET Nat, 0 \in T, \A n \in T : n < m => n + 1 \in T
    PROVE  m \in T
<1> DEFINE N == {n \in Nat : n <= m => n \in T}
<1>1. 0 \in N
  OBVIOUS
<1>2. \A n \in N : n + 1 \in N
  OBVIOUS
<1>3. N \in SUBSET Nat
  OBVIOUS
<1> HIDE DEF N
<1>4. N = Nat
  BY <1>1, <1>2, <1>3, NatSteps
<1> QED  BY <1>4 DEF N

(* The indices of s decide. *)
LEMMA RetainedSame ==
    ASSUME NEW S, NEW s \in Seq(S), NEW K, NEW L, \A i \in 1 .. Len(s) : i \in K <=> i \in L
    PROVE  Retained(s, K) = Retained(s, L)
<1>1. PICK a : RetainedBy(a, S, s, K)
  BY RetainedSteps
<1>2. PICK b : RetainedBy(b, S, s, L)
  BY RetainedSteps
<1> DEFINE T == {n \in Nat : a[n] = b[n]}
<1>3. Len(s) \in Nat /\ T \in SUBSET Nat
  BY LenProperties
<1>4. 0 \in T
  BY <1>1, <1>2 DEF RetainedBy
<1>5. ASSUME NEW n \in T, n < Len(s) PROVE n + 1 \in T
  <2>1. n \in 0 .. Len(s) - 1
    BY <1>3, <1>5
  <2>2. n + 1 \in 1 .. Len(s) /\ a[n + 1] = IF n + 1 \in K THEN Append(a[n], s[n + 1]) ELSE a[n]
    BY <1>1, <2>1 DEF RetainedBy
  <2>3. b[n + 1] = IF n + 1 \in L THEN Append(b[n], s[n + 1]) ELSE b[n]
    BY <1>2, <2>1 DEF RetainedBy
  <2> QED  BY <2>2, <2>3
<1> HIDE DEF T
<1>6. Len(s) \in T
  BY <1>3, <1>4, <1>5, PrefixSteps
<1> QED  BY <1>1, <1>2, <1>6 DEF RetainedBy, T

(* All or none of the indices. *)
LEMMA RetainedAll ==
    ASSUME NEW S, NEW s \in Seq(S), NEW K
    PROVE  /\ 1 .. Len(s) \subseteq K => Retained(s, K) = s
           /\ K \cap (1 .. Len(s)) = {} => Retained(s, K) = <<>>
<1>1. PICK a : RetainedBy(a, S, s, K)
  BY RetainedSteps
<1>2. Len(s) \in Nat /\ SubSeq(s, 1, 0) = <<>> /\ SubSeq(s, 1, Len(s)) = s
  BY LenProperties, SubSeqFull, SubSeqEmpty
<1>3. ASSUME 1 .. Len(s) \subseteq K PROVE Retained(s, K) = s
  <2> DEFINE T == {n \in Nat : a[n] = SubSeq(s, 1, n)}
  <2>1. 0 \in T /\ T \in SUBSET Nat
    BY <1>1, <1>2 DEF RetainedBy
  <2>2. ASSUME NEW n \in T, n < Len(s) PROVE n + 1 \in T
    <3>1. n \in 0 .. Len(s) - 1 /\ n + 1 \in 1 .. Len(s) /\ (n + 1) - 1 = n /\ 1 \in 1 .. Len(s) /\ n + 1 \in 1 .. Len(s)
      BY <1>2, <2>2
    <3>0. n + 1 \in K /\ n \in 0 .. Len(s)
      BY <1>2, <1>3, <3>1
    <3>2. a[n + 1] = Append(a[n], s[n + 1]) /\ s[n + 1] \in S /\ a[n] \in Seq(S)
      BY <1>1, <3>0, <3>1 DEF RetainedBy
    <3>3. SubSeq(s, 1, n + 1) = SubSeq(s, 1, (n + 1) - 1) \o << s[n + 1] >>
      BY <3>1, SubSeqRecursiveSecond
    <3>4. Append(a[n], s[n + 1]) = a[n] \o << s[n + 1] >>
      BY <3>2, AppendIsConcat
    <3> QED  BY <3>1, <3>2, <3>3, <3>4
  <2> HIDE DEF T
  <2>3. Len(s) \in T
    BY <1>2, <2>1, <2>2, PrefixSteps
  <2> QED  BY <1>1, <1>2, <2>3 DEF RetainedBy, T
<1>4. ASSUME K \cap (1 .. Len(s)) = {} PROVE Retained(s, K) = <<>>
  <2> DEFINE T == {n \in Nat : a[n] = <<>>}
  <2>1. 0 \in T /\ T \in SUBSET Nat
    BY <1>1 DEF RetainedBy
  <2>2. ASSUME NEW n \in T, n < Len(s) PROVE n + 1 \in T
    <3>1. n \in 0 .. Len(s) - 1 /\ n + 1 \in 1 .. Len(s)
      BY <1>2, <2>2
    <3>2. a[n + 1] = a[n]
      BY <1>1, <1>4, <3>1 DEF RetainedBy
    <3> QED  BY <3>2
  <2> HIDE DEF T
  <2>3. Len(s) \in T
    BY <1>2, <2>1, <2>2, PrefixSteps
  <2> QED  BY <1>1, <2>3 DEF RetainedBy, T
<1> QED  BY <1>3, <1>4

(* An element that is appended to two sequences is appended to the second. *)
AppendsLater(u, v, x) == Append(u \o v, x) = u \o Append(v, x)

LEMMA AppendLater ==
    ASSUME NEW S, NEW u \in Seq(S), NEW v \in Seq(S), NEW x \in S
    PROVE  AppendsLater(u, v, x)
BY DEF AppendsLater

(* What is retained at two sets of indices, one before the other. *)
LEMMA RetainedSplits ==
    ASSUME NEW S, NEW s \in Seq(S), NEW K, NEW L,
           \A i \in K \cap (1 .. Len(s)), j \in L \cap (1 .. Len(s)) : i < j
    PROVE  Retained(s, K \cup L) = Retained(s, K) \o Retained(s, L)
<1>1. PICK a : RetainedBy(a, S, s, K)
  BY RetainedSteps
<1>2. PICK b : RetainedBy(b, S, s, L)
  BY RetainedSteps
<1>3. PICK c : RetainedBy(c, S, s, K \cup L)
  BY RetainedSteps
<1> DEFINE both(n) == c[n] = a[n] \o b[n]
           none(n) == (\A j \in L \cap (1 .. Len(s)) : n < j) => b[n] = <<>>
           T == {n \in Nat : both(n) /\ none(n)}
<1>4. Len(s) \in Nat /\ T \in SUBSET Nat
  BY LenProperties
<1>5. 0 \in T
  <2>1. a[0] = <<>> /\ b[0] = <<>> /\ c[0] = <<>>
    BY <1>1, <1>2, <1>3 DEF RetainedBy
  <2>2. << >> \o << >> = << >>
    OBVIOUS
  <2> QED  BY <2>1, <2>2
<1>6. ASSUME NEW n \in T, n < Len(s) PROVE n + 1 \in T
  <2>1. n \in 0 .. Len(s) - 1 /\ n \in 0 .. Len(s) /\ n + 1 \in 1 .. Len(s)
    BY <1>4, <1>6
  <2>2. PICK x : x = s[n + 1]
    OBVIOUS
  <2>3. x \in S /\ a[n] \in Seq(S) /\ a[n + 1] = IF n + 1 \in K THEN Append(a[n], x) ELSE a[n]
    BY <1>1, <2>1, <2>2 DEF RetainedBy
  <2>4. b[n] \in Seq(S) /\ b[n + 1] = IF n + 1 \in L THEN Append(b[n], x) ELSE b[n]
    BY <1>2, <2>1, <2>2 DEF RetainedBy
  <2>5. c[n + 1] = IF n + 1 \in K \cup L THEN Append(c[n], x) ELSE c[n]
    BY <1>3, <2>1, <2>2 DEF RetainedBy
  <2>6. c[n] = a[n] \o b[n] /\ ((\A j \in L \cap (1 .. Len(s)) : n < j) => b[n] = <<>>)
    OBVIOUS
  <2>7. c[n + 1] = a[n + 1] \o b[n + 1]
    <3>1. CASE n + 1 \in K
      <4>1. \A j \in L \cap (1 .. Len(s)) : n + 1 < j
        BY <2>1, <3>1
      <4>2. b[n] = <<>> /\ n + 1 \notin L
        BY <1>4, <2>1, <2>6, <4>1
      <4>3. a[n] \o << >> = a[n] /\ Append(a[n], x) \o << >> = Append(a[n], x)
        BY <2>3, ConcatEmptySeq, AppendProperties
      <4> QED  BY <2>3, <2>4, <2>5, <2>6, <3>1, <4>2, <4>3
    <3>2. CASE n + 1 \notin K /\ n + 1 \in L
      <4>1. Append(a[n] \o b[n], x) = a[n] \o Append(b[n], x)
        <5>1. AppendsLater(a[n], b[n], x)
          BY <2>3, <2>4, AppendLater
        <5> QED  BY <5>1 DEF AppendsLater
      <4> QED  BY <2>3, <2>4, <2>5, <2>6, <3>2, <4>1
    <3>3. CASE n + 1 \notin K /\ n + 1 \notin L
      BY <2>3, <2>4, <2>5, <2>6, <3>3
    <3> QED  BY <3>1, <3>2, <3>3
  <2>8. ASSUME \A j \in L \cap (1 .. Len(s)) : n + 1 < j PROVE b[n + 1] = <<>>
    <3>1. n + 1 \notin L
      BY <2>1, <2>8
    <3>2. \A j \in L \cap (1 .. Len(s)) : n < j
      BY <1>4, <2>1, <2>8
    <3> QED  BY <2>4, <2>6, <3>1, <3>2
  <2>9. both(n + 1) /\ none(n + 1) /\ n + 1 \in Nat
    BY <2>1, <2>7, <2>8
  <2> HIDE DEF both, none
  <2> QED  BY <2>9
<1> HIDE DEF T
<1>7. Len(s) \in T
  BY <1>4, <1>5, <1>6, PrefixSteps
<1>8. c[Len(s)] = a[Len(s)] \o b[Len(s)]
  BY <1>7 DEF T
<1> QED  BY <1>1, <1>2, <1>3, <1>8 DEF RetainedBy

(* One index after all the others. *)
LEMMA RetainedAppend ==
    ASSUME NEW S, NEW s \in Seq(S), NEW e \in S, NEW K
    PROVE  Retained(Append(s, e), K) =
              IF Len(s) + 1 \in K THEN Append(Retained(s, K), e) ELSE Retained(s, K)
<1>1. PICK t : t = Append(s, e)
  OBVIOUS
<1>2. /\ t \in Seq(S) /\ Len(t) = Len(s) + 1 /\ Len(s) \in Nat
      /\ \A i \in 1 .. Len(s) : t[i] = s[i]
      /\ t[Len(s) + 1] = e
  BY <1>1, AppendProperties, LenProperties
<1>3. PICK a : RetainedBy(a, S, s, K)
  BY RetainedSteps
<1>4. PICK b : RetainedBy(b, S, t, K)
  BY <1>2, RetainedSteps
<1> DEFINE T == {n \in Nat : a[n] = b[n]}
<1>5. 0 \in T /\ T \in SUBSET Nat
  BY <1>3, <1>4 DEF RetainedBy
<1>6. ASSUME NEW n \in T, n < Len(s) PROVE n + 1 \in T
  <2>1. n \in 0 .. Len(s) - 1 /\ n \in 0 .. Len(t) - 1
    BY <1>2, <1>6
  <2>2. n + 1 \in 1 .. Len(s) /\ a[n + 1] = IF n + 1 \in K THEN Append(a[n], s[n + 1]) ELSE a[n]
    BY <1>3, <2>1 DEF RetainedBy
  <2>3. b[n + 1] = IF n + 1 \in K THEN Append(b[n], t[n + 1]) ELSE b[n]
    BY <1>4, <2>1 DEF RetainedBy
  <2> QED  BY <1>2, <2>2, <2>3
<1> HIDE DEF T
<1>7. Len(s) \in T
  BY <1>2, <1>5, <1>6, PrefixSteps
<1>8. Len(s) \in 0 .. Len(t) - 1
  BY <1>2
<1>9. b[Len(s) + 1] = IF Len(s) + 1 \in K THEN Append(b[Len(s)], t[Len(s) + 1]) ELSE b[Len(s)]
  BY <1>4, <1>8 DEF RetainedBy
<1>10. Retained(t, K) = b[Len(s) + 1] /\ Retained(s, K) = a[Len(s)]
  BY <1>2, <1>3, <1>4 DEF RetainedBy
<1>11. a[Len(s)] = b[Len(s)]
  BY <1>7 DEF T
<1> QED  BY <1>1, <1>2, <1>9, <1>10, <1>11

(* As many as there are indices. *)
LEMMA RetainedLength ==
    ASSUME NEW S, NEW s \in Seq(S), NEW K
    PROVE  Len(Retained(s, K)) = Cardinality(K \cap (1 .. Len(s))) /\ Retained(s, K) \in Seq(S)
<1>1. PICK r : r = Retained(s, K)
  OBVIOUS
<1>2. PICK f : PickedAt(f, r, s, K, Len(s))
  BY <1>1, RetainedIs
<1>3. r \in Seq(S) /\ Len(r) \in Nat
  BY <1>1, RetainedIs, LenProperties
<1>4. \A i, j \in 1 .. Len(r) : f[i] = f[j] => i = j
  <2> SUFFICES ASSUME NEW i \in 1 .. Len(r), NEW j \in 1 .. Len(r), f[i] = f[j] PROVE i = j
    OBVIOUS
  <2>1. f[i] \in Int /\ f[j] \in Int /\ (i < j => f[i] < f[j]) /\ (j < i => f[j] < f[i])
    BY <1>2 DEF PickedAt
  <2> QED  BY <1>3, <2>1
<1>5. PICK kept : kept = K \cap (1 .. Len(s))
  OBVIOUS
<1>6. f \in [1 .. Len(r) -> kept] /\ \A y \in kept : \E x \in 1 .. Len(r) : f[x] = y
  BY <1>2, <1>5 DEF PickedAt
<1>7. f \in Bijection(1 .. Len(r), kept)
  BY <1>4, <1>6 DEF Bijection, Injection, Surjection, IsInjective
<1>8. IsFiniteSet(1 .. Len(r)) /\ Cardinality(1 .. Len(r)) = Len(r)
  <2>1. PICK m \in Nat : m = Len(r)
    BY <1>3
  <2>2. IsFiniteSet(1 .. m) /\ Cardinality(1 .. m) = m
    BY FS_Interval
  <2> QED  BY <2>1, <2>2
<1>9. Cardinality(1 .. Len(r)) = Cardinality(kept)
  BY <1>7, <1>8, FS_Bijection DEF ExistsBijection
<1> QED  BY <1>1, <1>3, <1>5, <1>8, <1>9

(* What is retained of two sequences, one after the other. *)
LEMMA RetainedJoins ==
    ASSUME NEW S, NEW s \in Seq(S), NEW t \in Seq(S), NEW K, NEW L,
           \A j \in 1 .. Len(t) : j \in L <=> Len(s) + j \in K
    PROVE  Retained(s \o t, K) = Retained(s, K) \o Retained(t, L)
<1>1. PICK u, m : u = s \o t /\ m = Len(s)
  OBVIOUS
<1>2. /\ u \in Seq(S) /\ Len(u) = m + Len(t) /\ m \in Nat /\ Len(t) \in Nat
      /\ \A i \in 1 .. m + Len(t) : u[i] = IF i <= m THEN s[i] ELSE t[i - m]
  BY <1>1, ConcatProperties, LenProperties
<1>3. PICK a : RetainedBy(a, S, s, K)
  BY RetainedSteps
<1>4. PICK b : RetainedBy(b, S, t, L)
  BY RetainedSteps
<1>5. PICK c : RetainedBy(c, S, u, K)
  BY <1>2, RetainedSteps
<1> DEFINE T == {n \in Nat : c[n] = a[n]}
           U == {n \in Nat : c[m + n] = a[m] \o b[n]}
<1>6. 0 \in T /\ T \in SUBSET Nat
  BY <1>3, <1>5 DEF RetainedBy
<1>7. ASSUME NEW n \in T, n < m PROVE n + 1 \in T
  <2>1. n \in 0 .. m - 1 /\ n \in 0 .. Len(u) - 1 /\ n + 1 \in 1 .. m + Len(t) /\ n + 1 <= m
    BY <1>2, <1>7
  <2>2. a[n + 1] = IF n + 1 \in K THEN Append(a[n], s[n + 1]) ELSE a[n]
    BY <1>1, <1>3, <2>1 DEF RetainedBy
  <2>3. c[n + 1] = IF n + 1 \in K THEN Append(c[n], u[n + 1]) ELSE c[n]
    BY <1>5, <2>1 DEF RetainedBy
  <2>4. u[n + 1] = s[n + 1]
    BY <1>2, <2>1
  <2> QED  BY <2>2, <2>3, <2>4
<1>8. c[m] = a[m]
  <2> HIDE DEF T
  <2>1. m \in T
    BY <1>2, <1>6, <1>7, PrefixSteps
  <2> QED  BY <2>1 DEF T
<1>9. a[m] \in Seq(S) /\ Retained(s, K) = a[m]
  BY <1>1, <1>2, <1>3 DEF RetainedBy
<1>10. 0 \in U /\ U \in SUBSET Nat
  <2>1. b[0] = <<>> /\ a[m] \o << >> = a[m] /\ m + 0 = m
    BY <1>2, <1>4, <1>9, ConcatEmptySeq DEF RetainedBy
  <2> QED  BY <1>8, <2>1
<1>11. ASSUME NEW n \in U, n < Len(t) PROVE n + 1 \in U
  <2>1. n \in 0 .. Len(t) - 1 /\ n \in 0 .. Len(t) /\ m + n \in 0 .. Len(u) - 1 /\ n + 1 \in 1 .. Len(t)
        /\ m + (n + 1) = (m + n) + 1 /\ m + (n + 1) \in 1 .. m + Len(t) /\ ~(m + (n + 1) <= m)
        /\ (m + (n + 1)) - m = n + 1
    BY <1>2, <1>11
  <2>2. PICK x : x = t[n + 1]
    OBVIOUS
  <2>3. x \in S /\ b[n] \in Seq(S) /\ b[n + 1] = IF n + 1 \in L THEN Append(b[n], x) ELSE b[n]
    BY <1>4, <2>1, <2>2 DEF RetainedBy
  <2>4. c[m + (n + 1)] = IF m + (n + 1) \in K THEN Append(c[m + n], u[m + (n + 1)]) ELSE c[m + n]
    <3>1. c[(m + n) + 1] = IF (m + n) + 1 \in K THEN Append(c[m + n], u[(m + n) + 1]) ELSE c[m + n]
      BY <1>5, <2>1 DEF RetainedBy
    <3> QED  BY <2>1, <3>1
  <2>5. u[m + (n + 1)] = x
    BY <1>2, <2>1, <2>2
  <2>6. n + 1 \in L <=> m + (n + 1) \in K
    BY <1>1, <2>1
  <2>7. Append(a[m] \o b[n], x) = a[m] \o Append(b[n], x)
    <3>1. AppendsLater(a[m], b[n], x)
      BY <1>9, <2>3, AppendLater
    <3> QED  BY <3>1 DEF AppendsLater
  <2>8. c[m + n] = a[m] \o b[n]
    OBVIOUS
  <2>9. c[m + (n + 1)] = a[m] \o b[n + 1]
    BY <2>3, <2>4, <2>5, <2>6, <2>7, <2>8
  <2> PICK i \in Nat : i = n + 1
    BY <2>1
  <2>10. c[m + i] = a[m] \o b[i]
    BY <2>9
  <2> QED  BY <2>10
<1>12. c[m + Len(t)] = a[m] \o b[Len(t)]
  <2> HIDE DEF U
  <2>1. Len(t) \in U
    BY <1>2, <1>10, <1>11, PrefixSteps
  <2> QED  BY <2>1 DEF U
<1>13. Retained(u, K) = c[m + Len(t)] /\ Retained(t, L) = b[Len(t)]
  BY <1>2, <1>4, <1>5 DEF RetainedBy
<1> QED  BY <1>1, <1>9, <1>12, <1>13

(* g is what is joined of each prefix of q, a sequence of sequences. *)
FlattenedBy(g, S, q) ==
    /\ g \in [0 .. Len(q) -> Seq(S)] /\ g[0] = <<>> /\ FlattenSeq(q) = g[Len(q)]
    /\ \A i \in 0 .. Len(q) - 1 : i + 1 \in 1 .. Len(q) /\ q[i + 1] \in Seq(S)
                                  /\ g[i + 1] = g[i] \o q[i + 1]

Flattens(f, q) == f = [i \in 1 .. Len(q) |-> IF i = 1 THEN q[i] ELSE f[i - 1] \o q[i]]

LEMMA FlattenSteps ==
    ASSUME NEW S, NEW q \in Seq(Seq(S))
    PROVE  \E g : FlattenedBy(g, S, q)
<1>1. PICK m \in Nat : m = Len(q)
  BY LenProperties
<1>2. \A i \in 1 .. m : q[i] \in Seq(S)
  BY <1>1, ElementOfSeq
<1> DEFINE F == [i \in 1 .. m |-> [x \in Seq(S) |-> x \o q[i]]]
<1>3. ASSUME NEW i \in 1 .. m, NEW x \in Seq(S) PROVE F[i][x] = x \o q[i] /\ F[i][x] \in Seq(S)
  <2>1. F[i][x] = x \o q[i]
    OBVIOUS
  <2> HIDE DEF F
  <2>2. x \o q[i] \in Seq(S)
    BY <1>2, ConcatProperties
  <2> QED  BY <2>1, <2>2
<1> HIDE DEF F
<1>4. << >> \in Seq(S)
  OBVIOUS
<1>5. PICK h \in [0 .. m -> Seq(S)] : StepsTo(h, << >>, F, m)
  BY <1>3, <1>4, StepsExist
<1>6. h[0] = << >>
  <2>1. 0 \in 0 .. m
    OBVIOUS
  <2> QED  BY <1>5, <2>1, Zenon DEF StepsTo
<1>7. ASSUME NEW i \in 1 .. m PROVE h[i] = h[i - 1] \o q[i] /\ h[i - 1] \in Seq(S) /\ h[i] \in Seq(S)
  <2>1. i \in 0 .. m /\ i - 1 \in 0 .. m /\ i # 0
    OBVIOUS
  <2>2. h[i] = F[i][h[i - 1]] /\ h[i - 1] \in Seq(S) /\ h[i] \in Seq(S)
    BY <1>5, <2>1 DEF StepsTo
  <2> QED  BY <1>3, <2>2
<1>8. FlattenSeq(q) = h[m]
  <2>1. CASE m = 0
    <3>1. q = << >>
      BY <1>1, <2>1, EmptySeq
    <3> QED  BY <1>1, <1>6, <2>1, <3>1 DEF FlattenSeq
  <2>2. CASE m # 0
    <3> DEFINE e == CHOOSE f : Flattens(f, q)
               f == [i \in 1 .. m |-> h[i]]
    <3>1. FlattenSeq(q) = e[m]
      BY <1>1, <2>2 DEF FlattenSeq, Flattens
    <3>2. Flattens(f, q)
      <4>1. ASSUME NEW i \in 1 .. m PROVE f[i] = IF i = 1 THEN q[i] ELSE f[i - 1] \o q[i]
        <5>1. CASE i = 1
          <6>1. h[1] = << >> \o q[1] /\ q[1] \in Seq(S)
            <7>1. 1 \in 1 .. m /\ 1 - 1 = 0
              BY <2>2
            <7> QED  BY <1>2, <1>6, <1>7, <7>1
          <6>2. << >> \o q[1] = q[1]
            BY <6>1, ConcatEmptySeq
          <6> QED  BY <5>1, <6>1, <6>2
        <5>2. CASE i # 1
          <6>1. i - 1 \in 1 .. m
            BY <5>2
          <6>2. f[i] = h[i] /\ f[i - 1] = h[i - 1]
            BY <6>1
          <6> QED  BY <1>7, <5>2, <6>2
        <5> QED  BY <5>1, <5>2
      <4> HIDE DEF f
      <4>2. f = [i \in 1 .. m |-> f[i]]
        BY DEF f
      <4> QED  BY <1>1, <4>1, <4>2 DEF Flattens
    <3>3. Flattens(e, q)
      <4> HIDE DEF f
      <4> QED  BY <3>2
    <3> HIDE DEF e, f
    <3>4. \A i \in 1 .. m : e[i] = IF i = 1 THEN q[i] ELSE e[i - 1] \o q[i]
      BY <1>1, <3>3 DEF Flattens
    <3> DEFINE T == {n \in Nat : n < m => e[n + 1] = h[n + 1]}
    <3>5. 0 \in T
      <4>1. 1 \in 1 .. m /\ 1 - 1 = 0 /\ 0 + 1 = 1
        BY <2>2
      <4>2. h[1] = << >> \o q[1] /\ q[1] \in Seq(S) /\ e[1] = q[1]
        BY <1>2, <1>6, <1>7, <3>4, <4>1
      <4>3. << >> \o q[1] = q[1]
        BY <4>2, ConcatEmptySeq
      <4> QED  BY <4>1, <4>2, <4>3
    <3>6. ASSUME NEW n \in T PROVE n + 1 \in T
      <4> SUFFICES ASSUME n + 1 < m PROVE e[(n + 1) + 1] = h[(n + 1) + 1]
        OBVIOUS
      <4>1. PICK i \in Int : i = (n + 1) + 1
        OBVIOUS
      <4>2. i \in 1 .. m /\ i # 1 /\ i - 1 = n + 1 /\ n < m
        BY <4>1
      <4>3. e[i] = e[i - 1] \o q[i] /\ h[i] = h[i - 1] \o q[i]
        BY <1>7, <3>4, <4>2
      <4>4. e[n + 1] = h[n + 1]
        BY <4>2
      <4> QED  BY <4>1, <4>2, <4>3, <4>4
    <3>7. T \in SUBSET Nat
      OBVIOUS
    <3>8. T = Nat
      <4> HIDE DEF T
      <4> QED  BY <3>5, <3>6, <3>7, NatSteps
    <3>9. PICK n \in Nat : n + 1 = m
      <4>1. m - 1 \in Nat /\ (m - 1) + 1 = m
        BY <2>2
      <4> QED  BY <4>1
    <3>10. n \in T
      BY <3>8
    <3>11. n < m
      BY <3>9
    <3>12. e[n + 1] = h[n + 1]
      BY <3>10, <3>11
    <3> QED  BY <3>1, <3>9, <3>12
  <2> QED  BY <2>1, <2>2
<1>9. ASSUME NEW i \in 0 .. Len(q) - 1
      PROVE  i + 1 \in 1 .. Len(q) /\ q[i + 1] \in Seq(S) /\ h[i + 1] = h[i] \o q[i + 1]
  <2>1. i + 1 \in 1 .. m /\ (i + 1) - 1 = i
    BY <1>1
  <2>2. h[i + 1] = h[(i + 1) - 1] \o q[i + 1]
    BY <1>7, <2>1
  <2> QED  BY <1>1, <1>2, <2>1, <2>2
<1>10. FlattenedBy(h, S, q)
  BY <1>1, <1>5, <1>6, <1>8, <1>9 DEF FlattenedBy
<1> QED  BY <1>10
(* at takes met, the members of J that P has to do with, to P one by one. *)
GoesThrough(J, I, at, P, met) ==
    /\ IsFiniteSet(J) /\ at \in [J -> I] /\ P \in SUBSET I
    /\ \A j, k \in J : at[j] = at[k] => j = k
    /\ \A i \in P : \E j \in J : at[j] = i
    /\ met = {j \in J : at[j] \in P}

LEMMA CountThrough ==
    ASSUME NEW J, NEW I, NEW at, NEW P, NEW met, GoesThrough(J, I, at, P, met)
    PROVE  IsFiniteSet(met) /\ IsFiniteSet(P) /\ Cardinality(met) = Cardinality(P)
<1>0. /\ IsFiniteSet(J) /\ at \in [J -> I] /\ P \in SUBSET I
      /\ \A j, k \in J : at[j] = at[k] => j = k
      /\ \A i \in P : \E j \in J : at[j] = i
      /\ met = {j \in J : at[j] \in P}
  BY DEF GoesThrough
<1> DEFINE g == [j \in met |-> at[j]]
<1>1. IsFiniteSet(met)
  BY <1>0, FS_Subset
<1>2. g \in [met -> P] /\ \A j \in met : g[j] = at[j] /\ j \in J
  BY <1>0
<1>3. \A i \in P : \E j \in met : g[j] = i
  BY <1>0
<1>4. \A j, k \in met : g[j] = g[k] => j = k
  BY <1>0, <1>2
<1> HIDE DEF g
<1>5. g \in Bijection(met, P)
  BY <1>2, <1>3, <1>4 DEF Bijection, Injection, Surjection, IsInjective
<1>6. IsFiniteSet(P) /\ Cardinality(met) = Cardinality(P)
  BY <1>1, <1>5, FS_Bijection DEF ExistsBijection
<1> QED  BY <1>1, <1>6

(* A sort keeps what it sorts. *)
LEMMA OrdersAre ==
    ASSUME NEW S, NEW s \in Seq(S), NEW rank, NEW r \in OrdersBy(s, rank)
    PROVE  /\ r \in Seq(S) /\ Len(r) = Len(s)
           /\ \A i, j \in 1 .. Len(r) : i < j => rank[r[i]] >= rank[r[j]]
           /\ \A v : Copies(r, v) = Copies(s, v)
<1>1. PICK n \in Nat : n = Len(s) /\ DOMAIN s = 1 .. n
  BY LenProperties
<1>2. PICK p \in [1 .. n -> 1 .. n] :
        /\ Range(p) = 1 .. n /\ r = [i \in 1 .. n |-> s[p[i]]]
        /\ \A i, j \in 1 .. n : i < j => rank[s[p[i]]] >= rank[s[p[j]]]
  BY <1>1 DEF OrdersBy
<1>3. \A i \in 1 .. n : r[i] = s[p[i]] /\ r[i] \in S
  <2>1. ASSUME NEW i \in 1 .. n PROVE s[p[i]] \in S
    BY <1>1, <1>2, ElementOfSeq
  <2> QED  BY <1>2, <2>1
<1>4. r \in Seq(S) /\ Len(r) = n
  BY <1>2, <1>3
<1>5. IsFiniteSet(1 .. n)
  BY FS_Interval
<1>6. \A i \in 1 .. n : \E j \in 1 .. n : p[j] = i
  BY <1>2 DEF Range
<1>7. p \in Surjection(1 .. n, 1 .. n)
  BY <1>6 DEF Surjection
<1>8. p \in Injection(1 .. n, 1 .. n)
  BY <1>5, <1>7, FS_SurjSameCardinalityImpliesInj
<1>9. \A j, k \in 1 .. n : p[j] = p[k] => j = k
  BY <1>8 DEF Injection, IsInjective
<1>10. ASSUME NEW v PROVE Copies(r, v) = Copies(s, v)
  <2>1. Spots(s, v) \in SUBSET (1 .. n)
    BY <1>1 DEF Spots
  <2>2. PICK met : met = Spots(r, v)
    OBVIOUS
  <2>3. met = {j \in 1 .. n : p[j] \in Spots(s, v)}
    BY <1>1, <1>2, <1>3, <1>4, <2>2 DEF Spots
  <2>4. \A i \in Spots(s, v) : \E j \in 1 .. n : p[j] = i
    BY <1>6, <2>1
  <2>5. Cardinality(met) = Cardinality(Spots(s, v))
    <3>1. PICK J, V : J = 1 .. n /\ V = Spots(s, v)
      OBVIOUS
    <3>2. IsFiniteSet(J) /\ p \in [J -> J] /\ V \in SUBSET J
      BY <1>5, <2>1, <3>1
    <3>3. \A j, k \in J : p[j] = p[k] => j = k
      BY <1>9, <3>1
    <3>4. \A i \in V : \E j \in J : p[j] = i
      BY <2>4, <3>1
    <3>5. met = {j \in J : p[j] \in V}
      BY <2>3, <3>1
    <3>6. GoesThrough(J, J, p, V, met)
      BY <3>2, <3>3, <3>4, <3>5 DEF GoesThrough
    <3>7. Cardinality(met) = Cardinality(V)
      BY <3>6, CountThrough
    <3> QED  BY <3>1, <3>7
  <2> QED  BY <2>2, <2>5 DEF Copies
<1> QED  BY <1>1, <1>2, <1>3, <1>4, <1>10

LEMMA OnceOnly ==
    ASSUME NEW S, NEW s \in Seq(S), NEW v, Copies(s, v) <= 1
    PROVE  \A i, j \in 1 .. Len(s) : s[i] = v /\ s[j] = v => i = j
<1> SUFFICES ASSUME NEW i \in 1 .. Len(s), NEW j \in 1 .. Len(s), s[i] = v, s[j] = v, i # j
             PROVE  FALSE
  OBVIOUS
<1>1. IsFiniteSet(Spots(s, v)) /\ {i} \cup {j} \subseteq Spots(s, v)
  BY CopiesAreFew DEF Spots
<1>2. Cardinality({i} \cup {j}) <= Cardinality(Spots(s, v))
  BY <1>1, FS_Subset
<1>3. Cardinality({i}) = 1 /\ IsFiniteSet({i}) /\ j \notin {i}
  BY FS_Singleton
<1>4. Cardinality({i} \cup {j}) = Cardinality({i}) + 1
  BY <1>3, FS_AddElement
<1>5. Cardinality({i} \cup {j}) = 2
  BY <1>3, <1>4
<1>6. Copies(s, v) \in Nat
  BY CopiesAreFew
<1>7. PICK c \in Nat : c = Copies(s, v)
  BY <1>6
<1>8. c <= 1 /\ Cardinality(Spots(s, v)) = c
  BY <1>7 DEF Copies
<1>9. 2 <= c
  BY <1>2, <1>5, <1>8
<1> QED  BY <1>8, <1>9

LEMMA FlattenNone == FlattenSeq(<<>>) = <<>>
<1>1. PICK g : FlattenedBy(g, {}, <<>>)
  <2>1. << >> \in Seq(Seq({}))
    OBVIOUS
  <2> QED  BY <2>1, FlattenSteps
<1>2. Len(<<>>) = 0
  OBVIOUS
<1> QED  BY <1>1, <1>2 DEF FlattenedBy

LEMMA FlattenAppend ==
    ASSUME NEW S, NEW q \in Seq(Seq(S)), NEW r \in Seq(S)
    PROVE  FlattenSeq(q) \in Seq(S) /\ FlattenSeq(Append(q, r)) = FlattenSeq(q) \o r
<1>1. PICK t : t = Append(q, r)
  OBVIOUS
<1>2. /\ t \in Seq(Seq(S)) /\ Len(t) = Len(q) + 1 /\ Len(q) \in Nat
      /\ \A i \in 1 .. Len(q) : t[i] = q[i]
      /\ t[Len(q) + 1] = r
  BY <1>1, AppendProperties, LenProperties
<1>3. PICK a : FlattenedBy(a, S, q)
  BY FlattenSteps
<1>4. PICK b : FlattenedBy(b, S, t)
  BY <1>2, FlattenSteps
<1> DEFINE T == {n \in Nat : a[n] = b[n]}
<1>5. 0 \in T /\ T \in SUBSET Nat
  BY <1>3, <1>4 DEF FlattenedBy
<1>6. ASSUME NEW n \in T, n < Len(q) PROVE n + 1 \in T
  <2>1. n \in 0 .. Len(q) - 1 /\ n \in 0 .. Len(t) - 1
    BY <1>2, <1>6
  <2>2. n + 1 \in 1 .. Len(q) /\ a[n + 1] = a[n] \o q[n + 1]
    BY <1>3, <2>1 DEF FlattenedBy
  <2>3. b[n + 1] = b[n] \o t[n + 1]
    BY <1>4, <2>1 DEF FlattenedBy
  <2>4. t[n + 1] = q[n + 1] /\ a[n] = b[n]
    BY <1>2, <2>2
  <2>5. a[n + 1] = b[n + 1]
    BY <2>2, <2>3, <2>4, Zenon
  <2> QED  BY <2>5
<1> HIDE DEF T
<1>7. Len(q) \in T
  BY <1>2, <1>5, <1>6, PrefixSteps
<1>8. Len(q) \in 0 .. Len(t) - 1
  BY <1>2
<1>9. b[Len(q) + 1] = b[Len(q)] \o t[Len(q) + 1]
  BY <1>4, <1>8 DEF FlattenedBy
<1>10. FlattenSeq(t) = b[Len(q) + 1] /\ FlattenSeq(q) = a[Len(q)]
  BY <1>2, <1>3, <1>4 DEF FlattenedBy
<1>11. a[Len(q)] = b[Len(q)]
  BY <1>7 DEF T
<1>12. a[Len(q)] \in Seq(S)
  <2>1. Len(q) \in 0 .. Len(q)
    BY <1>2
  <2> QED  BY <1>3, <2>1 DEF FlattenedBy
<1> QED  BY <1>1, <1>2, <1>9, <1>10, <1>11, <1>12
====
