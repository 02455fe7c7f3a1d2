-------------------------- MODULE ExtractionProofs --------------------------
(***************************************************************************)
(* Lemmas about Extraction, for any names, paths, limits and archives:     *)
(* sums over sets, where links lead, paths and their keys, and what every  *)
(* step of materialize keeps (ExtractionInv).  StagingProofs has the       *)
(* theorems that rest on them.                                             *)
(*                                                                         *)
(* What is defined by recursion is reasoned about with least elements:     *)
(* were the claim false, there would be a least number for which it is,    *)
(* and that number has a predecessor (LeastNumber, LeastSubset).           *)
(***************************************************************************)
EXTENDS Extraction, FiniteSetTheorems, TLAPS

-----------------------------------------------------------------------------
(* Least elements, in place of induction                                    *)

\* A set of numbers has a least one.
LEMMA LeastNumber ==
  ASSUME NEW T \in SUBSET Nat, T # {}
  PROVE  \E n \in T : \A m \in T : n <= m
<1> DEFINE R == OpToRel(<, Nat)
<1>1. IsWellFoundedOn(R, Nat)
  BY NatLessThanWellFounded, Zenon
<1>2. \A m, n \in Nat : m < n => <<m, n>> \in R
  BY DEF OpToRel
<1> HIDE DEF R
<1>3. PICK n \in T : \A m \in T : ~ (<<m, n>> \in R)
  BY <1>1, WFMin
<1>4. ASSUME NEW m \in T
      PROVE  n <= m
  <2>1. ~ (m < n)
    BY <1>2, <1>3
  <2>2. m \in Nat /\ n \in Nat
    OBVIOUS
  <2>3. QED
    BY <2>1, <2>2
<1>5. QED
  BY <1>4

\* A set of subsets of a finite set has a minimal one.
LEMMA LeastSubset ==
  ASSUME NEW S, IsFiniteSet(S), NEW T \in SUBSET (SUBSET S), T # {}
  PROVE  \E s \in T : \A t \in T : t \subseteq s => t = s
<1> DEFINE R == StrictSubsetOrdering(S)
<1>1. IsWellFoundedOn(R, SUBSET S)
  BY FS_StrictSubsetOrderingWellFounded, FS_FiniteSubsetsOfFinite
<1>2. \A t, s \in SUBSET S : t \subseteq s /\ t # s => <<t, s>> \in R
  BY DEF StrictSubsetOrdering
<1> HIDE DEF R
<1>3. PICK s \in T : \A t \in T : ~ (<<t, s>> \in R)
  BY <1>1, WFMin
<1>4. QED
  BY <1>2, <1>3

-----------------------------------------------------------------------------
(* Sizes                                                                    *)

\* The function that Size is the last value of.
Sums(f, S) ==
  f = [s \in SUBSET S |->
         IF s = {} THEN 0
         ELSE LET x == CHOOSE x \in s : TRUE IN x.size + f[s \ {x}]]

\* There is one such function at most: any two agree where both are defined.
LEMMA SumsAgree ==
  ASSUME NEW S, IsFiniteSet(S), NEW T, NEW f, NEW g, Sums(f, S), Sums(g, T)
  PROVE  \A s \in SUBSET (S \cap T) : f[s] = g[s]
<1> DEFINE Bad == {s \in SUBSET S : s \subseteq T /\ f[s] # g[s]}
<1>1. SUFFICES ASSUME Bad # {}
               PROVE  FALSE
  OBVIOUS
<1>2. PICK s \in Bad : \A t \in Bad : t \subseteq s => t = s
  <2>1. Bad \in SUBSET (SUBSET S)
    OBVIOUS
  <2> HIDE DEF Bad
  <2>2. QED
    BY <1>1, <2>1, LeastSubset
<1>3. s \subseteq S /\ s \subseteq T /\ f[s] # g[s]
  OBVIOUS
<1>4. CASE s = {}
  BY <1>3, <1>4 DEF Sums
<1>5. CASE s # {}
  <2> DEFINE x == CHOOSE x \in s : TRUE
  <2>1. x \in s
    BY <1>5
  <2>2. f[s] = x.size + f[s \ {x}] /\ g[s] = x.size + g[s \ {x}]
    BY <1>3, <1>5 DEF Sums
  <2> HIDE DEF x
  <2>3. s \ {x} \notin Bad
    BY <1>2, <2>1
  <2>4. f[s \ {x}] = g[s \ {x}]
    BY <1>3, <2>3
  <2>5. QED
    BY <1>3, <2>2, <2>4
<1>6. QED
  BY <1>4, <1>5

\* And there is one.
LEMMA SumsExist ==
  ASSUME NEW S, IsFiniteSet(S)
  PROVE  \E f : Sums(f, S)
<1> DEFINE Bad == {T \in SUBSET S : \A f : ~Sums(f, T)}
<1>1. SUFFICES ASSUME Bad # {}
               PROVE  FALSE
  OBVIOUS
<1>2. PICK T \in Bad : \A U \in Bad : U \subseteq T => U = T
  <2>1. Bad \in SUBSET (SUBSET S)
    OBVIOUS
  <2> HIDE DEF Bad
  <2>2. QED
    BY <1>1, <2>1, LeastSubset
<1> DEFINE g(U) == CHOOSE f : Sums(f, U)
           first(s) == CHOOSE x \in s : TRUE
           f == [s \in SUBSET T |->
                   IF s = {} THEN 0
                   ELSE first(s).size + g(s \ {first(s)})[s \ {first(s)}]]
<1>3. \A s : s # {} => first(s) \in s
  OBVIOUS
<1> HIDE DEF first
<1>4. ASSUME NEW U \in SUBSET T, U # T
      PROVE  Sums(g(U), U)
  <2>1. U \notin Bad
    BY <1>2, <1>4
  <2>2. \E h : Sums(h, U)
    BY <2>1
  <2>3. QED
    BY <2>2
<1> HIDE DEF g
<1>5. ASSUME NEW s \in SUBSET T, s # {}
      PROVE  f[s \ {first(s)}] = g(s \ {first(s)})[s \ {first(s)}]
  <2> DEFINE t == s \ {first(s)}
             v == t \ {first(t)}
  <2>1. t \in SUBSET T /\ t # T
    BY <1>3, <1>5
  <2>2. Sums(g(t), t)
    BY <1>4, <2>1
  <2>3. CASE t = {}
    BY <2>1, <2>2, <2>3 DEF Sums
  <2>4. CASE t # {}
    <3>1. first(t) \in t
      BY <1>3, <2>4
    <3>2. v \in SUBSET T /\ v # T /\ v \subseteq t
      BY <2>1, <3>1
    <3>3. Sums(g(v), v)
      BY <1>4, <3>2
    <3>4. IsFiniteSet(v)
      BY <3>2, FS_Subset
    <3>5. v \in SUBSET (v \cap t)
      OBVIOUS
    <3>6. g(v)[v] = g(t)[v]
      BY <2>2, <3>3, <3>4, <3>5, SumsAgree
    <3>7. g(t)[t] = first(t).size + g(t)[v]
      BY <2>2, <2>4 DEF Sums, first
    <3>8. f[t] = first(t).size + g(v)[v]
      BY <2>1, <2>4
    <3>9. QED
      BY <3>6, <3>7, <3>8
  <2>5. QED
    BY <2>3, <2>4
<1>6. \A s \in SUBSET T : f[s] = IF s = {} THEN 0
                                 ELSE first(s).size + f[s \ {first(s)}]
  BY <1>5
<1>7. f = [s \in SUBSET T |-> f[s]]
  OBVIOUS
<1> HIDE DEF f
<1>8. Sums(f, T)
  BY <1>6, <1>7 DEF Sums, first
<1>9. QED
  BY <1>8

\* What Size adds up.
LEMMA SizeIs ==
  ASSUME NEW S, IsFiniteSet(S)
  PROVE  \E f : Sums(f, S) /\ Size(S) = f[S]
<1>1. Size(S) = (CHOOSE f : Sums(f, S))[S]
  BY DEF Size, MapThenSumSet, MapThenFoldSet, Sums
<1>2. QED
  BY <1>1, SumsExist

\* The sum of nothing is zero.
LEMMA SizeOfNothing == Size({}) = 0
BY SizeIs, FS_EmptySet DEF Sums

\* Sizes are numbers.
Sized(S) == IsFiniteSet(S) /\ \A n \in S : n.size \in Nat

\* Then they add up to a number, in whatever order.
LEMMA SumsAdd ==
  ASSUME NEW S, Sized(S), NEW f, Sums(f, S)
  PROVE  \A s \in SUBSET S : /\ f[s] \in Nat
                             /\ \A x \in s : f[s] = x.size + f[s \ {x}]
<1> DEFINE Good(s) == f[s] \in Nat /\ \A x \in s : f[s] = x.size + f[s \ {x}]
           Bad == {s \in SUBSET S : ~Good(s)}
<1>1. SUFFICES ASSUME Bad # {}
               PROVE  FALSE
  OBVIOUS
<1>2. PICK s \in Bad : \A t \in Bad : t \subseteq s => t = s
  <2>1. Bad \in SUBSET (SUBSET S)
    OBVIOUS
  <2> HIDE DEF Bad
  <2>2. QED
    BY <1>1, <2>1, LeastSubset DEF Sized
<1>3. s \in SUBSET S /\ ~Good(s)
  OBVIOUS
<1>4. \A t \in SUBSET s : t # s => Good(t)
  BY <1>2, <1>3
<1> HIDE DEF Bad
<1>5. CASE s = {}
  BY <1>3, <1>5 DEF Sums
<1>6. CASE s # {}
  <2> DEFINE y == CHOOSE y \in s : TRUE
  <2>1. y \in s /\ y.size \in Nat
    BY <1>3, <1>6 DEF Sized
  <2>2. f[s] = y.size + f[s \ {y}]
    BY <1>3, <1>6 DEF Sums
  <2> HIDE DEF y
  <2>3. Good(s \ {y})
    BY <1>4, <2>1
  <2>4. f[s] \in Nat
    BY <2>1, <2>2, <2>3
  <2>5. ASSUME NEW x \in s
        PROVE  f[s] = x.size + f[s \ {x}]
    <3>1. CASE x = y
      BY <2>2, <3>1
    <3>2. CASE x # y
      <4>1. Good(s \ {x}) /\ x \in s \ {y} /\ y \in s \ {x}
        BY <1>4, <2>1, <3>2
      <4>2. Good((s \ {y}) \ {x}) /\ (s \ {y}) \ {x} = (s \ {x}) \ {y}
        BY <1>4, <2>1
      <4>3. f[s \ {y}] = x.size + f[(s \ {y}) \ {x}]
        BY <2>3, <4>1
      <4>4. f[s \ {x}] = y.size + f[(s \ {y}) \ {x}]
        BY <4>1, <4>2
      <4>5. x.size \in Nat /\ f[(s \ {y}) \ {x}] \in Nat
        BY <1>3, <4>2 DEF Sized
      <4>6. QED
        BY <2>1, <2>2, <4>3, <4>4, <4>5
    <3>3. QED
      BY <3>1, <3>2
  <2>6. QED
    BY <1>3, <2>4, <2>5
<1>7. QED
  BY <1>5, <1>6

\* Size of parts of a set are values of its function.
LEMMA SizeOfPart ==
  ASSUME NEW S, IsFiniteSet(S), NEW f, Sums(f, S), NEW T \in SUBSET S
  PROVE  Size(T) = f[T]
<1>1. IsFiniteSet(T)
  BY FS_Subset
<1>2. PICK g : Sums(g, T) /\ Size(T) = g[T]
  BY <1>1, SizeIs
<1>3. T \in SUBSET (T \cap S)
  OBVIOUS
<1>4. g[T] = f[T]
  BY <1>1, <1>2, <1>3, SumsAgree
<1>5. QED
  BY <1>2, <1>4

\* Sizes add up to a number.
LEMMA SizeType ==
  ASSUME NEW S, Sized(S)
  PROVE  Size(S) \in Nat
BY SizeIs, SumsAdd DEF Sized

\* A node more.
LEMMA SizeWith ==
  ASSUME NEW S, Sized(S), NEW x, x \notin S, x.size \in Nat
  PROVE  Sized(S \cup {x}) /\ Size(S \cup {x}) = Size(S) + x.size
<1> DEFINE T == S \cup {x}
<1>1. Sized(T)
  BY FS_AddElement DEF Sized
<1>2. PICK f : Sums(f, T) /\ Size(T) = f[T]
  BY <1>1, SizeIs DEF Sized
<1>3. Size(S) = f[S]
  <2>1. S \in SUBSET T
    OBVIOUS
  <2> HIDE DEF T
  <2>2. QED
    BY <1>1, <1>2, <2>1, SizeOfPart DEF Sized
<1>4. T \ {x} = S /\ x \in T /\ T \in SUBSET T
  OBVIOUS
<1> HIDE DEF T
<1>5. f[T] = x.size + f[S]
  <2>0. Sized(T) /\ Sums(f, T)
    BY <1>1, <1>2
  <2>1. \A s \in SUBSET T : /\ f[s] \in Nat
                             /\ \A y \in s : f[s] = y.size + f[s \ {y}]
    BY <2>0, SumsAdd
  <2>2. f[T] = x.size + f[T \ {x}]
    BY <1>4, <2>1, Zenon
  <2>3. QED
    BY <1>4, <2>2
<1>6. Size(S) \in Nat
  BY SizeType
<1>7. QED
  BY <1>1, <1>2, <1>3, <1>5, <1>6 DEF T

\* And a node less.
LEMMA SizeWithout ==
  ASSUME NEW S, Sized(S), NEW x \in S
  PROVE  /\ Sized(S \ {x}) /\ x.size \in Nat
         /\ Size(S) = Size(S \ {x}) + x.size
<1> DEFINE T == S \ {x}
<1>1. Sized(T) /\ x.size \in Nat /\ x \notin T /\ T \cup {x} = S
  BY FS_Subset DEF Sized
<1> HIDE DEF T
<1>2. Size(T \cup {x}) = Size(T) + x.size
  BY <1>1, SizeWith
<1>3. QED
  BY <1>1, <1>2 DEF T

\* Nodes without a size make no difference.
LEMMA SizeOfEmpties ==
  ASSUME NEW S, Sized(S), NEW Z, IsFiniteSet(Z), \A z \in Z : z.size = 0
  PROVE  Sized(S \cup Z) /\ Size(S \cup Z) = Size(S)
<1> DEFINE Bad == {T \in SUBSET Z : ~(Sized(S \cup T) /\ Size(S \cup T) = Size(S))}
<1>1. SUFFICES ASSUME Bad # {}
               PROVE  FALSE
  OBVIOUS
<1>2. PICK T \in Bad : \A U \in Bad : U \subseteq T => U = T
  <2>1. Bad \in SUBSET (SUBSET Z)
    OBVIOUS
  <2> HIDE DEF Bad
  <2>2. QED
    BY <1>1, <2>1, LeastSubset
<1>3. T \in SUBSET Z /\ ~(Sized(S \cup T) /\ Size(S \cup T) = Size(S))
  OBVIOUS
<1>4. \A U \in SUBSET T : U # T => Sized(S \cup U) /\ Size(S \cup U) = Size(S)
  BY <1>2, <1>3
<1> HIDE DEF Bad
<1>5. CASE T = {}
  <2>1. S \cup T = S
    BY <1>5
  <2>2. QED
    BY <1>3, <2>1
<1>6. CASE T # {}
  <2>1. PICK z \in T : z.size = 0
    BY <1>3, <1>6
  <2> DEFINE U == S \cup (T \ {z})
  <2>2. Sized(U) /\ Size(U) = Size(S)
    <3>1. T \ {z} \in SUBSET T /\ T \ {z} # T
      BY <2>1
    <3>2. QED
      BY <1>4, <3>1
  <2>3. S \cup T = U \cup {z}
    OBVIOUS
  <2> HIDE DEF U
  <2>4. CASE z \in U
    <3>1. U \cup {z} = U
      BY <2>4
    <3>2. QED
      BY <1>3, <2>2, <2>3, <3>1
  <2>5. CASE z \notin U
    <3>1. Sized(U \cup {z}) /\ Size(U \cup {z}) = Size(U) + 0
      BY <2>1, <2>2, <2>5, SizeWith
    <3>2. Size(U) \in Nat
      BY <2>2, SizeType
    <3>3. Size(U \cup {z}) = Size(S)
      BY <2>2, <3>1, <3>2
    <3>4. Sized(S \cup T) /\ Size(S \cup T) = Size(S)
      BY <2>3, <3>1, <3>3, Zenon
    <3>5. QED
      BY <1>3, <3>4
  <2>6. QED
    BY <2>4, <2>5
<1>7. QED
  BY <1>5, <1>6

\* What some of the nodes become, each as large as it was, is no larger than all
\* of them.
LEMMA SizeOfImage ==
  ASSUME NEW S, Sized(S), NEW P, P \subseteq S, NEW h,
         \A n \in P : h[n].size = n.size
  PROVE  Sized({h[n] : n \in P}) /\ Size({h[n] : n \in P}) <= Size(S)
<1> DEFINE I(T) == {h[n] : n \in T \cap P}
           Good(T) == Sized(I(T)) /\ Size(I(T)) <= Size(T)
           Bad == {T \in SUBSET S : ~Good(T)}
<1>1. SUFFICES ASSUME ~Good(S)
               PROVE  FALSE
  <2>1. S \cap P = P
    OBVIOUS
  <2>2. QED
    BY <2>1
<1>2. Bad # {}
  <2>1. S \in Bad
    BY <1>1
  <2>2. QED
    BY <2>1
<1>3. PICK T \in Bad : \A U \in Bad : U \subseteq T => U = T
  <2>1. Bad \in SUBSET (SUBSET S)
    OBVIOUS
  <2> HIDE DEF Bad
  <2>2. QED
    BY <1>2, <2>1, LeastSubset DEF Sized
<1>4. T \in SUBSET S /\ ~Good(T) /\ Sized(T)
  BY FS_Subset DEF Sized
<1>5. \A U \in SUBSET T : U # T => Good(U)
  BY <1>3, <1>4
<1> HIDE DEF Bad
<1>6. CASE T = {}
  <2>1. I(T) = {}
    BY <1>6
  <2>2. Sized({}) /\ Size({}) = 0
    BY SizeOfNothing, FS_EmptySet DEF Sized
  <2>3. QED
    BY <1>4, <1>6, <2>1, <2>2
<1>7. CASE T # {}
  <2>1. PICK n \in T : TRUE
    BY <1>7
  <2> DEFINE U == T \ {n}
             J == {h[k] : k \in U \cap P}
             K == {h[k] : k \in T \cap P}
  <2>2. Sized(J) /\ Size(J) <= Size(U)
    <3>1. U \in SUBSET T /\ U # T
      OBVIOUS
    <3>2. QED
      BY <1>5, <3>1
  <2>3. n.size \in Nat /\ Size(T) = Size(U) + n.size /\ Sized(U)
    BY <1>4, SizeWithout
  <2>4. Size(U) \in Nat /\ Size(J) \in Nat
    BY <2>2, <2>3, SizeType
  <2>5. K = IF n \in P THEN J \cup {h[n]} ELSE J
    OBVIOUS
  <2>6. ~(Sized(K) /\ Size(K) <= Size(T))
    BY <1>4
  <2> HIDE DEF U, J, K
  <2>7. CASE n \in P /\ h[n] \notin J
    <3>1. h[n].size = n.size
      BY <2>7
    <3>2. Sized(K) /\ Size(K) = Size(J) + n.size
      BY <2>2, <2>3, <2>5, <2>7, <3>1, SizeWith
    <3>3. QED
      BY <2>6, <2>2, <2>3, <2>4, <3>2
  <2>8. CASE n \notin P \/ h[n] \in J
    <3>1. K = J
      BY <2>5, <2>8
    <3>2. QED
      BY <2>6, <2>2, <2>3, <2>4, <3>1
  <2>9. QED
    BY <2>7, <2>8
<1>8. QED
  BY <1>6, <1>7

-----------------------------------------------------------------------------
(* Recursive functions over the positions of a sequence                     *)

\* A value, a step, and what the step makes of it n times.
Iterates(f, n, base, step) ==
  f = [k \in 0..n |-> IF k = 0 THEN base ELSE step[k][f[k - 1]]]

\* There are such values.
LEMMA IteratesExist ==
  ASSUME NEW n \in Nat, NEW base, NEW step
  PROVE  \E f : Iterates(f, n, base, step)
<1> DEFINE Bad == {m \in Nat : \A f : ~Iterates(f, m, base, step)}
<1>1. SUFFICES ASSUME Bad # {}
               PROVE  FALSE
  OBVIOUS
<1>2. PICK m \in Bad : \A k \in Bad : m <= k
  <2>1. Bad \in SUBSET Nat
    OBVIOUS
  <2> HIDE DEF Bad
  <2>2. QED
    BY <1>1, <2>1, LeastNumber
<1>3. m \in Nat /\ \A f : ~Iterates(f, m, base, step)
  OBVIOUS
<1>4. CASE m = 0
  <2> DEFINE f == [k \in 0..0 |-> base]
  <2>1. f = [k \in 0..0 |-> IF k = 0 THEN base ELSE step[k][f[k - 1]]]
    OBVIOUS
  <2> HIDE DEF f
  <2>2. Iterates(f, m, base, step)
    BY <1>4, <2>1 DEF Iterates
  <2>3. QED
    BY <1>3, <2>2
<1>5. CASE m # 0
  <2>1. m - 1 \in Nat /\ m - 1 \notin Bad
    BY <1>2, <1>3, <1>5
  <2>2. PICK g : Iterates(g, m - 1, base, step)
    BY <2>1
  <2> DEFINE f == [k \in 0..m |-> IF k = m THEN step[m][g[m - 1]] ELSE g[k]]
  <2>3. \A k \in 0..(m - 1) :
          f[k] = g[k] /\ g[k] = IF k = 0 THEN base ELSE step[k][g[k - 1]]
    BY <1>3, <2>2 DEF Iterates
  <2>4. f[m] = step[m][g[m - 1]] /\ f[m - 1] = g[m - 1]
    BY <1>3, <1>5, <2>1
  <2>5. f = [k \in 0..m |-> f[k]]
    OBVIOUS
  <2> HIDE DEF f
  <2>6. \A k \in 0..m : f[k] = IF k = 0 THEN base ELSE step[k][f[k - 1]]
    <3>1. SUFFICES ASSUME NEW k \in 0..m
                   PROVE  f[k] = IF k = 0 THEN base ELSE step[k][f[k - 1]]
      OBVIOUS
    <3>2. CASE k = m
      BY <1>5, <2>4, <3>2
    <3>3. CASE k # m /\ k = 0
      <4>1. k \in 0..(m - 1)
        BY <1>3, <1>5, <3>3
      <4>2. QED
        BY <2>3, <3>3, <4>1
    <3>4. CASE k # m /\ k # 0
      <4>1. k \in 0..(m - 1) /\ k - 1 \in 0..(m - 1)
        BY <1>3, <3>4
      <4>2. QED
        BY <2>3, <3>4, <4>1
    <3>5. QED
      BY <3>2, <3>3, <3>4
  <2>7. Iterates(f, m, base, step)
    BY <2>5, <2>6 DEF Iterates
  <2>8. QED
    BY <1>3, <2>7
<1>6. QED
  BY <1>4, <1>5

\* They are of the type that the step keeps.
LEMMA IteratesType ==
  ASSUME NEW n \in Nat, NEW base, NEW step, NEW f, Iterates(f, n, base, step),
         NEW V, base \in V, \A v \in V : \A k \in 1..n : step[k][v] \in V
  PROVE  \A k \in 0..n : f[k] \in V
<1> DEFINE Bad == {k \in Nat : k \in 0..n /\ f[k] \notin V}
<1>1. SUFFICES ASSUME Bad # {}
               PROVE  FALSE
  OBVIOUS
<1>2. PICK k \in Bad : \A m \in Bad : k <= m
  <2>1. Bad \in SUBSET Nat
    OBVIOUS
  <2> HIDE DEF Bad
  <2>2. QED
    BY <1>1, <2>1, LeastNumber
<1>3. k \in 0..n /\ f[k] \notin V /\ f[k] = IF k = 0 THEN base ELSE step[k][f[k - 1]]
  BY DEF Iterates
<1>4. CASE k = 0
  BY <1>3, <1>4
<1>5. CASE k # 0
  <2>1. k - 1 \in Nat /\ k - 1 \in 0..n /\ k \in 1..n /\ k - 1 \notin Bad
    BY <1>2, <1>3, <1>5
  <2>2. f[k - 1] \in V
    BY <2>1
  <2>3. QED
    BY <1>3, <1>5, <2>1, <2>2
<1>6. QED
  BY <1>4, <1>5

-----------------------------------------------------------------------------
(* Paths                                                                    *)

\* Every prefix of a path but the empty one is a path.
LEMMA PrefixesArePaths ==
  ASSUME NEW p \in AllPaths
  PROVE  /\ p \in Seq(Names) /\ Len(p) \in Nat /\ Len(p) > 0
         /\ Nodes[p] = {SubSeq(p, 1, n) : n \in 1..Len(p)}
         /\ \A n \in 1..Len(p) : SubSeq(p, 1, n) \in AllPaths
<1>1. p \in Seq(Names) /\ Len(p) \in Nat /\ Len(p) > 0
  BY DEF AllPaths
<1>2. ASSUME NEW n \in 1..Len(p)
      PROVE  SubSeq(p, 1, n) \in AllPaths
  <2>1. SubSeq(p, 1, n) \in Seq(Names) /\ Len(SubSeq(p, 1, n)) = n /\ n > 0
    BY <1>1
  <2>2. SubSeq(p, 1, n) # <<>>
    BY <2>1
  <2>3. QED
    BY <2>1, <2>2 DEF AllPaths
<1>3. Nodes[p] = {SubSeq(p, 1, n) : n \in 1..Len(p)}
  BY DEF Nodes
<1>4. QED
  BY <1>1, <1>2, <1>3

\* A path and its parents, as the modules write them.
LEMMA NodesArePaths ==
  ASSUME NEW p \in AllPaths
  PROVE  Nodes[p] \in SUBSET AllPaths
<1>1. Nodes[p] = {SubSeq(p, 1, n) : n \in 1..Len(p)}
      /\ \A n \in 1..Len(p) : SubSeq(p, 1, n) \in AllPaths
  BY PrefixesArePaths
<1>2. \A q \in Nodes[p] : q \in AllPaths
  BY <1>1
<1>3. QED
  BY <1>2

\* A path below another is one.
LEMMA JoinedPaths ==
  ASSUME NEW p \in AllPaths, NEW q \in Seq(Names)
  PROVE  /\ p \o q \in AllPaths /\ Len(p \o q) = Len(p) + Len(q)
         /\ \A n \in 1..Len(p) : (p \o q)[n] = p[n]
         /\ \A n \in 1..Len(q) : (p \o q)[Len(p) + n] = q[n]
<1>1. p \in Seq(Names) /\ Len(p) \in Nat /\ Len(p) > 0 /\ Len(q) \in Nat
  BY PrefixesArePaths
<1>2. /\ p \o q \in Seq(Names) /\ Len(p \o q) = Len(p) + Len(q)
      /\ \A n \in 1..Len(p) : (p \o q)[n] = p[n]
      /\ \A n \in 1..Len(q) : (p \o q)[Len(p) + n] = q[n]
  BY <1>1
<1>3. p \o q # <<>>
  BY <1>1, <1>2
<1>4. QED
  BY <1>2, <1>3 DEF AllPaths

\* The directory .downloads has a path.
LEMMA DownloadsArePaths == <<Downloads>> \in AllPaths /\ Len(<<Downloads>>) = 1
<1>1. <<Downloads>> \in Seq(Names) /\ Len(<<Downloads>>) = 1
  BY ExtractionAssumption
<1>2. QED
  BY <1>1 DEF AllPaths

\* So have entries of archives, downloads, and what goes below the destination of
\* an archive.
LEMMA OutputsArePaths ==
  ASSUME NEW q \in Paths
  PROVE  /\ q \in AllPaths /\ <<Downloads>> \o q \in AllPaths
         /\ \A d \in Destinations : d \in AllPaths /\ d \o q \in AllPaths
<1>1. q \in AllPaths /\ q \in Seq(Names) /\ \A d \in Destinations : d \in AllPaths
  BY ExtractionAssumption DEF AllPaths
<1>2. <<Downloads>> \o q \in AllPaths
  BY <1>1, DownloadsArePaths, JoinedPaths
<1>3. \A d \in Destinations : d \o q \in AllPaths
  BY <1>1, JoinedPaths
<1>4. QED
  BY <1>1, <1>2, <1>3

\* What is at the front of a path.
Start(p) == SubSeq(p, 1, 1)

\* A path starts with its first name, and that is one of its nodes.
LEMMA Starts ==
  ASSUME NEW p \in AllPaths
  PROVE  /\ Start(p) = <<p[1]>> /\ Start(p) \in AllPaths /\ Start(p) \in Nodes[p]
         /\ p[1] \in Names /\ Len(Start(p)) = 1
         /\ Len(p) = 1 => Start(p) = p
<1>1. p \in Seq(Names) /\ Len(p) \in Nat /\ Len(p) > 0 /\ 1 \in 1..Len(p)
  BY PrefixesArePaths
<1>2. Start(p) = [i \in 1..1 |-> p[i]]
  BY <1>1 DEF Start
<1>3. <<p[1]>> = [i \in 1..1 |-> p[1]]
  OBVIOUS
<1>4. [i \in 1..1 |-> p[i]] = [i \in 1..1 |-> p[1]]
  OBVIOUS
<1>5. Start(p) = <<p[1]>>
  BY <1>2, <1>3, <1>4
<1>6. Start(p) \in AllPaths /\ Start(p) \in Nodes[p]
  BY <1>1, PrefixesArePaths DEF Start
<1>7. Len(p) = 1 => Start(p) = p
  BY <1>1 DEF Start
<1>8. QED
  BY <1>1, <1>5, <1>6, <1>7

\* A path is among its nodes, and its parents are shorter.
LEMMA NodesAre ==
  ASSUME NEW p \in AllPaths
  PROVE  /\ p \in Nodes[p] /\ p \notin Parents(p) /\ Nodes[p] = Parents(p) \cup {p}
         /\ Nodes[p] \in SUBSET AllPaths /\ IsFiniteSet(Nodes[p])
         /\ \A q \in Nodes[p] : /\ Start(q) = Start(p) /\ Nodes[q] \subseteq Nodes[p]
                                /\ Len(q) \in 1..Len(p)
                                /\ q = SubSeq(p, 1, Len(q))
<1>1. /\ p \in Seq(Names) /\ Len(p) \in Nat /\ Len(p) > 0
      /\ Nodes[p] = {SubSeq(p, 1, n) : n \in 1..Len(p)}
  BY PrefixesArePaths
<1>2. p \in Nodes[p]
  <2>1. Len(p) \in 1..Len(p) /\ SubSeq(p, 1, Len(p)) = p
    BY <1>1
  <2>2. QED
    BY <1>1, <2>1
<1>3. IsFiniteSet(Nodes[p])
  <2> DEFINE f == [n \in 1..Len(p) |-> SubSeq(p, 1, n)]
  <2>1. f \in Surjection(1..Len(p), Nodes[p])
    BY <1>1 DEF Surjection
  <2>2. IsFiniteSet(1..Len(p))
    BY <1>1, FS_Interval
  <2> HIDE DEF f
  <2>3. QED
    BY <2>1, <2>2, FS_Surjection
<1>4. ASSUME NEW q \in Nodes[p]
      PROVE  /\ Start(q) = Start(p) /\ Nodes[q] \subseteq Nodes[p]
             /\ Len(q) \in 1..Len(p) /\ q = SubSeq(p, 1, Len(q))
  <2>1. PICK n \in 1..Len(p) : q = SubSeq(p, 1, n)
    BY <1>1
  <2>2. q \in AllPaths /\ Len(q) = n /\ n \in Nat /\ n > 0
    BY <1>1, <2>1, PrefixesArePaths
  <2>3. \A k \in 1..n : SubSeq(q, 1, k) = SubSeq(p, 1, k) /\ k \in 1..Len(p)
    BY <1>1, <2>1, <2>2
  <2>4. Nodes[q] \subseteq Nodes[p]
    BY <1>1, <2>2, <2>3, PrefixesArePaths
  <2>5. QED
    BY <2>1, <2>2, <2>3, <2>4 DEF Start
<1>5. QED
  BY <1>2, <1>3, <1>4, NodesArePaths DEF Parents

-----------------------------------------------------------------------------
(* Keys and slots                                                           *)

\* What Key does to a name.
Spelling(name) == IF budget.folds THEN Fold[name] ELSE name

\* A key is the path with each name spelled as the checks compare it.
LEMMA KeysAre ==
  ASSUME NEW p \in AllPaths
  PROVE  /\ Key(p) = [n \in 1..Len(p) |-> Spelling(p[n])]
         /\ Key(p) \in Seq(Names) /\ Len(Key(p)) = Len(p)
<1>1. p \in Seq(Names) /\ Len(p) \in Nat
  BY PrefixesArePaths
<1>2. FoldAll[p] = [n \in 1..Len(p) |-> Fold[p[n]]]
  BY <1>1 DEF FoldAll
<1>3. p = [n \in 1..Len(p) |-> p[n]]
  BY <1>1
<1>4. Key(p) = [n \in 1..Len(p) |-> Spelling(p[n])]
  BY <1>2, <1>3 DEF Key, Spelling
<1>5. \A n \in 1..Len(p) : Spelling(p[n]) \in Names
  BY <1>1, ExtractionAssumption DEF Spelling
<1>6. QED
  BY <1>1, <1>4, <1>5

\* What Slot does to a name.
Form(name) == Spells[budget.folds][name]

\* A slot is the path with each name as the file system compares it.
LEMMA SlotsAre ==
  ASSUME NEW p \in AllPaths
  PROVE  Slot(p) = [n \in 1..Len(p) |-> Form(p[n])]
<1>1. p \in Seq(Names) /\ Len(p) \in Nat /\ DOMAIN p = 1..Len(p)
  BY PrefixesArePaths
<1>2. QED
  BY <1>1 DEF Slot, Form

\* Paths of one length are the same to it if their names are.
LEMMA SlotsByName ==
  ASSUME NEW p \in AllPaths, NEW q \in AllPaths
  PROVE  Slot(p) = Slot(q) <=>
           Len(p) = Len(q) /\ \A n \in 1..Len(p) : Form(p[n]) = Form(q[n])
<1>1. Len(p) \in Nat /\ Len(q) \in Nat
  BY PrefixesArePaths
<1>2. /\ Slot(p) = [n \in 1..Len(p) |-> Form(p[n])]
      /\ Slot(q) = [n \in 1..Len(q) |-> Form(q[n])]
  BY SlotsAre
<1>3. ASSUME Slot(p) = Slot(q)
      PROVE  Len(p) = Len(q) /\ \A n \in 1..Len(p) : Form(p[n]) = Form(q[n])
  <2>1. DOMAIN Slot(p) = 1..Len(p) /\ DOMAIN Slot(q) = 1..Len(q)
    BY <1>2
  <2>2. 1..Len(p) = 1..Len(q)
    BY <1>3, <2>1
  <2>3. Len(p) = Len(q)
    BY <1>1, <2>2
  <2>4. \A n \in 1..Len(p) : Slot(p)[n] = Form(p[n]) /\ Slot(q)[n] = Form(q[n])
    BY <1>2, <2>3
  <2>5. QED
    BY <1>3, <2>3, <2>4
<1>4. ASSUME Len(p) = Len(q), \A n \in 1..Len(p) : Form(p[n]) = Form(q[n])
      PROVE  Slot(p) = Slot(q)
  BY <1>2, <1>4
<1>5. QED
  BY <1>3, <1>4

\* Paths that are the same are so from the first name to the last.
LEMMA SameSlots ==
  ASSUME NEW p \in AllPaths, NEW q \in AllPaths, Slot(p) = Slot(q)
  PROVE  /\ Len(p) = Len(q)
         /\ \A n \in 1..Len(p) : Slot(SubSeq(p, 1, n)) = Slot(SubSeq(q, 1, n))
         /\ Slot(Start(p)) = Slot(Start(q))
<1>1. /\ p \in Seq(Names) /\ Len(p) \in Nat /\ q \in Seq(Names) /\ Len(q) \in Nat
      /\ Len(p) > 0
  BY PrefixesArePaths
<1>2. Len(p) = Len(q) /\ \A n \in 1..Len(p) : Form(p[n]) = Form(q[n])
  BY SlotsByName
<1>3. ASSUME NEW n \in 1..Len(p)
      PROVE  Slot(SubSeq(p, 1, n)) = Slot(SubSeq(q, 1, n))
  <2>1. SubSeq(p, 1, n) \in AllPaths /\ SubSeq(q, 1, n) \in AllPaths
    BY <1>1, <1>2, PrefixesArePaths
  <2>2. /\ Len(SubSeq(p, 1, n)) = n /\ Len(SubSeq(q, 1, n)) = n
        /\ \A k \in 1..n : /\ SubSeq(p, 1, n)[k] = p[k] /\ SubSeq(q, 1, n)[k] = q[k]
                            /\ k \in 1..Len(p)
    BY <1>1, <1>2
  <2> DEFINE r == SubSeq(p, 1, n)
             t == SubSeq(q, 1, n)
  <2>3. Len(r) = Len(t) /\ \A k \in 1..Len(r) : Form(r[k]) = Form(t[k])
    BY <1>2, <2>2
  <2> HIDE DEF r, t
  <2>4. Slot(r) = Slot(t)
    BY <2>1, <2>3, SlotsByName DEF r, t
  <2>5. QED
    BY <2>4 DEF r, t
<1>4. QED
  BY <1>1, <1>2, <1>3 DEF Start

\* A path and its parents are not the same.
LEMMA NodesDiffer ==
  ASSUME NEW p \in AllPaths, NEW q \in Nodes[p], NEW r \in Nodes[p], Slot(q) = Slot(r)
  PROVE  q = r
<1>1. q \in AllPaths /\ r \in AllPaths
  BY NodesAre
<1>2. Len(q) = Len(r)
  BY <1>1, SameSlots
<1>3. QED
  BY <1>2, NodesAre

\* A file system that is not misjudged takes no paths for one that have two keys.
LEMMA SlotsHaveKeys ==
  ASSUME ~Misjudged, NEW p \in AllPaths, NEW q \in AllPaths, Slot(p) = Slot(q)
  PROVE  Key(p) = Key(q)
<1>1. ASSUME NEW x \in Names, NEW y \in Names, Form(x) = Form(y)
      PROVE  Spelling(x) = Spelling(y)
  <2>1. /\ <<x>> \in Seq(Names) /\ <<y>> \in Seq(Names)
        /\ Len(<<x>>) = 1 /\ Len(<<y>>) = 1 /\ <<x>>[1] = x /\ <<y>>[1] = y
    OBVIOUS
  <2> DEFINE s == <<x>>
             t == <<y>>
  <2> HIDE DEF s, t
  <2>2. s \in AllPaths /\ t \in AllPaths
    <3>1. s # <<>> /\ t # <<>>
      BY <2>1 DEF s, t
    <3>2. QED
      BY <2>1, <3>1 DEF AllPaths, s, t
  <2>3. Len(s) = Len(t) /\ \A n \in 1..Len(s) : Form(s[n]) = Form(t[n])
    BY <1>1, <2>1 DEF s, t
  <2>4. Slot(s) = Slot(t)
    BY <2>2, <2>3, SlotsByName
  <2>5. Key(s) = Key(t)
    BY <2>4 DEF Misjudged, s, t
  <2>6. /\ Key(s) = [n \in 1..Len(s) |-> Spelling(s[n])]
        /\ Key(t) = [n \in 1..Len(t) |-> Spelling(t[n])]
    BY <2>2, KeysAre
  <2>7. 1 \in 1..Len(s) /\ 1 \in 1..Len(t) /\ s[1] = x /\ t[1] = y
    BY <2>1 DEF s, t
  <2>8. Key(s)[1] = Spelling(s[1]) /\ Key(t)[1] = Spelling(t[1])
    BY <2>6, <2>7
  <2>9. QED
    BY <2>5, <2>7, <2>8
<1>2. p \in Seq(Names) /\ q \in Seq(Names) /\ Len(p) \in Nat
  BY PrefixesArePaths
<1>3. Len(p) = Len(q) /\ \A n \in 1..Len(p) : Form(p[n]) = Form(q[n])
  BY SlotsByName
<1>4. \A n \in 1..Len(p) : p[n] \in Names /\ q[n] \in Names
  BY <1>2, <1>3
<1>5. \A n \in 1..Len(p) : Spelling(p[n]) = Spelling(q[n])
  BY <1>1, <1>3, <1>4
<1>6. QED
  BY <1>3, <1>5, KeysAre

\* The directory .downloads, the budget's or that of the disk, by any spelling.
Top(n) == InDownloads(n) /\ Len(n.path) = 1

\* A node is .downloads, or in it, by the slot of its path or of its start.
LEMMA Tops ==
  ASSUME NEW n, n.path \in AllPaths
  PROVE  /\ Top(n) <=> Slot(n.path) = Slot(<<Downloads>>)
         /\ InDownloads(n) <=> Slot(Start(n.path)) = Slot(<<Downloads>>)
<1>1. <<Downloads>> \in AllPaths /\ Len(<<Downloads>>) = 1
  BY DownloadsArePaths
<1>2. InDownloads(n) <=> Slot(Start(n.path)) = Slot(<<Downloads>>)
  BY Starts DEF InDownloads
<1>3. Slot(n.path) = Slot(<<Downloads>>) => Len(n.path) = 1
  BY <1>1, SameSlots
<1>4. Len(n.path) = 1 => Start(n.path) = n.path
  BY Starts
<1>5. QED
  BY <1>2, <1>3, <1>4 DEF Top

-----------------------------------------------------------------------------
(* The staging directory                                                    *)

\* What the file system holds.
Stored == [path: AllPaths, dir: BOOLEAN, size: Nat, of: Seq(Names)]

\* No two things in a directory have the same name, by any spelling.
DiskOK(D) ==
  /\ IsFiniteSet(D) /\ D \subseteq Stored
  /\ \A n \in D : n.dir => n.size = 0 /\ n.of = <<>>
  /\ \A m, n \in D : Slot(m.path) = Slot(n.path) => m = n

\* The parents of everything are there, as directories and as they are spelled.
Rooted(N) ==
  \A n \in N : \A q \in Parents(n.path) : \E m \in N : m.path = q /\ m.dir

\* It stays so if something is removed.
LEMMA Fewer ==
  ASSUME NEW D, DiskOK(D), NEW E \in SUBSET D
  PROVE  DiskOK(E)
BY FS_Subset DEF DiskOK

\* n is what there is of p, and of what is below it nothing is there.
Lasts(n, p) ==
  /\ n \in disk /\ \E q \in Nodes[p] : Slot(n.path) = Slot(q)
  /\ \A m \in disk : (\E q \in Nodes[p] : Slot(m.path) = Slot(q))
                       => Len(m.path) <= Len(n.path)

\* It is at the front of p.
LEMMA LastIsFront ==
  ASSUME DiskOK(disk), NEW p \in AllPaths, NEW n, n \in disk,
         \E q \in Nodes[p] : Slot(n.path) = Slot(q)
  PROVE  /\ n.path \in AllPaths /\ Len(n.path) \in 1..Len(p)
         /\ SubSeq(p, 1, Len(n.path)) \in Nodes[p]
         /\ Slot(n.path) = Slot(SubSeq(p, 1, Len(n.path)))
<1>1. n.path \in AllPaths
  BY DEF DiskOK, Stored
<1>2. PICK q \in Nodes[p] : Slot(n.path) = Slot(q)
  OBVIOUS
<1>3. q \in AllPaths /\ Len(q) \in 1..Len(p) /\ q = SubSeq(p, 1, Len(q))
  BY NodesAre
<1>4. Len(q) = Len(n.path)
  BY <1>1, <1>2, <1>3, SameSlots
<1>5. QED
  BY <1>1, <1>2, <1>3, <1>4

\* There is one such node, or nothing of p is there.
LEMMA LastExists ==
  ASSUME DiskOK(disk), NEW p \in AllPaths
  PROVE  /\ (\A q \in Nodes[p] : OnDisk(q) = {}) \/ \E n : Lasts(n, p)
         /\ \A m, n : Lasts(m, p) /\ Lasts(n, p) => m = n
<1> DEFINE There == {n \in disk : \E q \in Nodes[p] : Slot(n.path) = Slot(q)}
           T == {k \in Nat : \E n \in There : k = Len(p) - Len(n.path)}
<1>1. Len(p) \in Nat
  BY PrefixesArePaths
<1>2. \A n \in There : Len(n.path) \in 1..Len(p)
  BY LastIsFront
<1>3. ASSUME There = {}
      PROVE  \A q \in Nodes[p] : OnDisk(q) = {}
  <2>1. SUFFICES ASSUME NEW q \in Nodes[p], NEW n \in OnDisk(q)
                 PROVE  n \in There
    BY <1>3
  <2>2. QED
    BY DEF OnDisk
<1>4. ASSUME There # {}
      PROVE  \E n : Lasts(n, p)
  <2>1. T # {}
    <3>1. PICK n \in There : TRUE
      BY <1>4
    <3>2. Len(p) - Len(n.path) \in Nat
      BY <1>1, <1>2
    <3>3. QED
      BY <3>1, <3>2
  <2>2. PICK k \in T : \A j \in T : k <= j
    <3>1. T \in SUBSET Nat
      OBVIOUS
    <3> HIDE DEF T
    <3>2. QED
      BY <2>1, <3>1, LeastNumber
  <2>3. PICK n \in There : k = Len(p) - Len(n.path)
    BY <2>2
  <2>4. ASSUME NEW m \in There
        PROVE  Len(m.path) <= Len(n.path)
    <3>1. Len(p) - Len(m.path) \in T
      BY <1>1, <1>2
    <3>2. k <= Len(p) - Len(m.path)
      BY <2>2, <3>1
    <3>3. QED
      BY <1>1, <1>2, <2>3, <3>2
  <2>5. Lasts(n, p)
    BY <2>4 DEF Lasts
  <2>6. QED
    BY <2>5
<1>5. ASSUME NEW m, NEW n, Lasts(m, p), Lasts(n, p)
      PROVE  m = n
  <2>1. m \in There /\ n \in There
    BY <1>5 DEF Lasts
  <2>2. Len(m.path) <= Len(n.path) /\ Len(n.path) <= Len(m.path)
    BY <1>5 DEF Lasts
  <2>3. Len(m.path) = Len(n.path)
    BY <1>2, <2>1, <2>2
  <2>4. Slot(m.path) = Slot(n.path)
    BY <2>1, <2>3, LastIsFront
  <2>5. QED
    BY <2>1, <2>4 DEF DiskOK
<1>6. (\A q \in Nodes[p] : OnDisk(q) = {}) \/ \E n : Lasts(n, p)
  BY <1>3, <1>4
<1>7. QED
  BY <1>5, <1>6

\* What Located does with it.
LEMMA LocatedBy ==
  ASSUME DiskOK(disk), NEW p \in AllPaths
  PROVE  /\ (\A q \in Nodes[p] : OnDisk(q) = {}) => Located(p) = p
         /\ \A n : Lasts(n, p) =>
              Located(p) = n.path \o SubSeq(p, Len(n.path) + 1, Len(p))
<1> DEFINE there == UNION {OnDisk(q) : q \in Nodes[p]}
           Longest(n) == \A m \in there : Len(m.path) <= Len(n.path)
           last == CHOOSE n \in there : Longest(n)
<1>1. Located(p) = IF there = {} THEN p
                   ELSE last.path \o SubSeq(p, Len(last.path) + 1, Len(p))
  BY DEF Located
<1>2. \A n : n \in there <=> n \in disk /\ \E q \in Nodes[p] : Slot(n.path) = Slot(q)
  BY DEF OnDisk
<1>3. (\A q \in Nodes[p] : OnDisk(q) = {}) => there = {}
  OBVIOUS
<1>4. \A n : Lasts(n, p) <=> n \in there /\ Longest(n)
  BY <1>2 DEF Lasts
<1>5. ASSUME NEW n, Lasts(n, p)
      PROVE  there # {} /\ last = n
  <2>1. n \in there /\ Longest(n)
    BY <1>4, <1>5
  <2>2. last \in there /\ Longest(last)
    BY <2>1
  <2>3. Lasts(last, p)
    BY <1>4, <2>2
  <2>4. QED
    BY <1>5, <2>1, <2>3, LastExists
<1> HIDE DEF there, last
<1>6. QED
  BY <1>1, <1>3, <1>5

\* A path with its front spelled otherwise.
LEMMA Fronted ==
  ASSUME NEW p \in AllPaths, NEW f \in AllPaths, Len(f) <= Len(p)
  PROVE  LET j == f \o SubSeq(p, Len(f) + 1, Len(p)) IN
         /\ j \in AllPaths /\ Len(j) = Len(p)
         /\ \A i \in 1..Len(p) : j[i] = IF i <= Len(f) THEN f[i] ELSE p[i]
<1> DEFINE t == SubSeq(p, Len(f) + 1, Len(p))
           j == f \o t
<1>1. p \in Seq(Names) /\ Len(p) \in Nat /\ f \in Seq(Names) /\ Len(f) \in Nat /\ Len(f) > 0
  BY PrefixesArePaths
<1>2. /\ t \in Seq(Names) /\ Len(t) = Len(p) - Len(f)
      /\ \A i \in 1..Len(t) : t[i] = p[Len(f) + i]
  BY <1>1
<1> HIDE DEF t
<1>3. /\ j \in AllPaths /\ Len(j) = Len(f) + Len(t)
      /\ \A i \in 1..Len(f) : j[i] = f[i]
      /\ \A i \in 1..Len(t) : j[Len(f) + i] = t[i]
  BY <1>2, JoinedPaths
<1> HIDE DEF j
<1>4. ASSUME NEW i \in 1..Len(p)
      PROVE  j[i] = IF i <= Len(f) THEN f[i] ELSE p[i]
  <2>1. CASE i <= Len(f)
    BY <1>1, <1>3, <2>1
  <2>2. CASE ~(i <= Len(f))
    <3>1. i - Len(f) \in 1..Len(t) /\ Len(f) + (i - Len(f)) = i
      BY <1>1, <1>2, <2>2
    <3>2. j[Len(f) + (i - Len(f))] = t[i - Len(f)]
      BY <1>3, <3>1
    <3>3. t[i - Len(f)] = p[Len(f) + (i - Len(f))]
      BY <1>2, <3>1
    <3>4. QED
      BY <2>2, <3>1, <3>2, <3>3
  <2>3. QED
    BY <2>1, <2>2
<1>5. QED
  BY <1>1, <1>2, <1>3, <1>4 DEF j, t

\* Whatever is there of a path, it keeps its slot.
LEMMA LocatedIs ==
  ASSUME DiskOK(disk), NEW p \in AllPaths
  PROVE  /\ Located(p) \in AllPaths /\ Len(Located(p)) = Len(p)
         /\ Slot(Located(p)) = Slot(p)
<1>1. CASE \A q \in Nodes[p] : OnDisk(q) = {}
  BY <1>1, LocatedBy
<1>2. CASE \E n : Lasts(n, p)
  <2>1. PICK n : Lasts(n, p)
    BY <1>2
  <2> DEFINE f == n.path
             g == SubSeq(p, 1, Len(f))
             j == f \o SubSeq(p, Len(f) + 1, Len(p))
  <2>2. /\ f \in AllPaths /\ Len(f) \in 1..Len(p) /\ g \in Nodes[p] /\ Slot(f) = Slot(g)
    BY <2>1, LastIsFront DEF Lasts
  <2>3. p \in Seq(Names) /\ Len(p) \in Nat /\ g \in AllPaths
    BY <2>2, NodesArePaths, PrefixesArePaths
  <2>4. Len(g) = Len(f) /\ \A i \in 1..Len(f) : g[i] = p[i]
    BY <2>2, <2>3
  <2>5. \A i \in 1..Len(f) : Form(f[i]) = Form(g[i])
    BY <2>2, <2>3, SlotsByName
  <2>6. Len(f) <= Len(p)
    BY <2>2, <2>3
  <2>7. /\ j \in AllPaths /\ Len(j) = Len(p)
        /\ \A i \in 1..Len(p) : j[i] = IF i <= Len(f) THEN f[i] ELSE p[i]
    BY <2>2, <2>6, Fronted
  <2>8. Located(p) = j
    BY <2>1, LocatedBy
  <2> HIDE DEF f, g, j
  <2>9. \A i \in 1..Len(j) : Form(j[i]) = Form(p[i])
    BY <2>2, <2>3, <2>4, <2>5, <2>7
  <2>10. Slot(j) = Slot(p)
    BY <2>7, <2>9, SlotsByName
  <2>11. QED
    BY <2>7, <2>8, <2>10
<1>3. QED
  BY <1>1, <1>2, LastExists

\* What is below directories that are there is spelled as they are.
LEMMA LocatedPart ==
  ASSUME DiskOK(disk), Rooted(disk), NEW p \in AllPaths, NEW q \in Nodes[p],
         OnDisk(q) = {}, NEW r \in Parents(Located(q))
  PROVE  \/ \E n \in disk : n.path = r /\ ((\E s \in Nodes[p] : Slot(n.path) = Slot(s)) \/ n.dir)
         \/ \E s \in Nodes[p] : s # p /\ OnDisk(s) = {} /\ r = Located(s)
<1>1. /\ q \in AllPaths /\ Nodes[q] \subseteq Nodes[p] /\ Len(q) \in 1..Len(p)
      /\ q = SubSeq(p, 1, Len(q)) /\ q \in Nodes[q]
  BY NodesAre
<1>2. Located(q) \in AllPaths /\ Len(Located(q)) = Len(q)
  BY <1>1, LocatedIs
<1> DEFINE l == Located(q)
           k == Len(r)
           s == SubSeq(q, 1, k)
<1>3. /\ r \in Nodes[l] /\ r # l /\ r \in AllPaths /\ k \in 1..Len(l) /\ r = SubSeq(l, 1, k)
  BY <1>2, NodesAre DEF Parents
<1>4. /\ p \in Seq(Names) /\ q \in Seq(Names) /\ l \in Seq(Names)
      /\ Len(p) \in Nat /\ Len(q) \in Nat /\ k \in Nat /\ k > 0
  BY <1>1, <1>2, <1>3, PrefixesArePaths
<1>5. k < Len(q)
  <2>1. k # Len(l)
    BY <1>3, <1>4
  <2>2. QED
    BY <1>2, <1>3, <1>4, <2>1
<1>6. /\ s \in Nodes[q] /\ s \in Nodes[p] /\ s \in AllPaths /\ Len(s) = k
      /\ \A i \in 1..k : s[i] = q[i]
      /\ s # p
  <2>1. k \in 1..Len(q)
    BY <1>4, <1>5
  <2>2. s \in Nodes[q] /\ s \in AllPaths
    BY <1>1, <2>1, PrefixesArePaths
  <2>3. Len(s) = k /\ \A i \in 1..k : s[i] = q[i]
    BY <1>4, <2>1
  <2>4. s # p
    BY <1>1, <1>4, <1>5, <2>3
  <2>5. QED
    BY <1>1, <2>2, <2>3, <2>4
<1>7. CASE \A t \in Nodes[q] : OnDisk(t) = {}
  <2>1. l = q
    BY <1>1, <1>7, LocatedBy
  <2>2. r = s
    BY <1>3, <2>1
  <2>3. Nodes[s] \subseteq Nodes[q]
    BY <1>1, <1>6, NodesAre
  <2>4. Located(s) = s /\ OnDisk(s) = {}
    BY <1>6, <1>7, <2>3, LocatedBy
  <2>5. QED
    BY <1>6, <2>2, <2>4
<1>8. CASE \E n : Lasts(n, q)
  <2>1. PICK n : Lasts(n, q)
    BY <1>8
  <2> DEFINE f == n.path
  <2>2. /\ n \in disk /\ f \in AllPaths /\ Len(f) \in 1..Len(q)
        /\ SubSeq(q, 1, Len(f)) \in Nodes[q] /\ Slot(f) = Slot(SubSeq(q, 1, Len(f)))
    BY <1>1, <2>1, LastIsFront DEF Lasts
  <2>3. Len(f) <= Len(q) /\ Len(f) \in Nat
    BY <1>4, <2>2
  <2>4. l = f \o SubSeq(q, Len(f) + 1, Len(q))
    BY <1>1, <2>1, LocatedBy
  <2>5. \A i \in 1..Len(q) : l[i] = IF i <= Len(f) THEN f[i] ELSE q[i]
    <3> DEFINE j == f \o SubSeq(q, Len(f) + 1, Len(q))
    <3> HIDE DEF f
    <3>1. \A i \in 1..Len(q) : j[i] = IF i <= Len(f) THEN f[i] ELSE q[i]
      BY <1>1, <2>2, <2>3, Fronted
    <3>2. l = j
      BY <2>4
    <3> HIDE DEF j
    <3>3. QED
      BY <3>1, <3>2
  <2>6. CASE k <= Len(f)
    <3>1. f \in Seq(Names) /\ k \in 1..Len(f)
      BY <1>4, <2>2, <2>3, <2>6, PrefixesArePaths
    <3>2. /\ SubSeq(f, 1, k) \in Seq(Names) /\ Len(SubSeq(f, 1, k)) = k
          /\ \A i \in 1..k : SubSeq(f, 1, k)[i] = f[i]
      BY <3>1
    <3>3. r \in Seq(Names) /\ \A i \in 1..k : r[i] = l[i]
      BY <1>3, <1>4
    <3>4. \A i \in 1..k : l[i] = f[i]
      BY <1>4, <1>5, <2>3, <2>5, <2>6
    <3>5. \A i \in 1..k : r[i] = SubSeq(f, 1, k)[i]
      BY <3>2, <3>3, <3>4
    <3>6. r = SubSeq(f, 1, k)
      <4> DEFINE g == SubSeq(f, 1, k)
      <4>1. g \in Seq(Names) /\ Len(g) = k /\ \A i \in 1..k : r[i] = g[i]
        BY <3>2, <3>5
      <4> HIDE DEF g
      <4>2. r = g
        BY <3>3, <4>1
      <4>3. QED
        BY <4>2 DEF g
    <3>7. r \in Nodes[f] /\ Nodes[f] = Parents(f) \cup {f}
      <4>1. Nodes[f] = {SubSeq(f, 1, i) : i \in 1..Len(f)}
        BY <2>2, PrefixesArePaths
      <4>2. Nodes[f] = Parents(f) \cup {f}
        BY <2>2, NodesAre
      <4>3. QED
        BY <3>1, <3>6, <4>1, <4>2
    <3>8. CASE r = f
      BY <1>1, <2>2, <3>8
    <3>9. CASE r \in Parents(f)
      BY <2>2, <3>9 DEF Rooted
    <3>10. QED
      BY <3>7, <3>8, <3>9
  <2>7. CASE ~(k <= Len(f))
    <3>1. Nodes[s] \subseteq Nodes[q]
      BY <1>1, <1>6, NodesAre
    <3>2. Len(f) \in 1..k /\ SubSeq(s, 1, Len(f)) = SubSeq(q, 1, Len(f))
      <4>1. Len(f) \in 1..k
        BY <1>4, <2>2, <2>3, <2>7
      <4>2. QED
        BY <1>4, <1>5, <1>6, <4>1
    <3>3. SubSeq(s, 1, Len(f)) \in Nodes[s]
      BY <1>6, <3>2, PrefixesArePaths
    <3>4. \A m \in disk : (\E t \in Nodes[s] : Slot(m.path) = Slot(t))
                            => Len(m.path) <= Len(f)
      BY <2>1, <3>1 DEF Lasts
    <3>5. Lasts(n, s)
      BY <2>2, <3>2, <3>3, <3>4 DEF Lasts
    <3>6. OnDisk(s) = {}
      <4>1. SUFFICES ASSUME NEW m \in OnDisk(s)
                     PROVE  FALSE
        OBVIOUS
      <4>2. m \in disk /\ Slot(m.path) = Slot(s) /\ m.path \in AllPaths
        BY DEF OnDisk, DiskOK, Stored
      <4>3. Len(m.path) = k
        BY <1>6, <4>2, SameSlots
      <4>4. s \in Nodes[s]
        BY <1>6, NodesAre
      <4>5. k <= Len(f)
        BY <3>4, <4>2, <4>3, <4>4
      <4>6. QED
        BY <2>7, <4>5
    <3>7. Located(s) = f \o SubSeq(s, Len(f) + 1, Len(s))
      BY <1>6, <3>5, LocatedBy
    <3>8. Len(f) <= Len(s)
      BY <1>4, <1>6, <3>2
    <3>9. /\ Located(s) \in AllPaths /\ Len(Located(s)) = k
          /\ \A i \in 1..k : Located(s)[i] = IF i <= Len(f) THEN f[i] ELSE s[i]
      <4> DEFINE j == f \o SubSeq(s, Len(f) + 1, Len(s))
      <4> HIDE DEF f, s
      <4>1. /\ j \in AllPaths /\ Len(j) = Len(s)
            /\ \A i \in 1..Len(s) : j[i] = IF i <= Len(f) THEN f[i] ELSE s[i]
        BY <1>6, <2>2, <3>8, Fronted
      <4>2. Located(s) = j /\ Len(s) = k
        BY <1>6, <3>7
      <4> HIDE DEF j
      <4>3. QED
        BY <4>1, <4>2
    <3>10. r \in Seq(Names) /\ \A i \in 1..k : r[i] = l[i]
      BY <1>3, <1>4
    <3>11. \A i \in 1..k : i \in 1..Len(q)
      BY <1>4, <1>5
    <3>12. \A i \in 1..k : r[i] = Located(s)[i]
      BY <1>6, <2>5, <3>9, <3>10, <3>11
    <3>13. Located(s) \in Seq(Names)
      BY <3>9, PrefixesArePaths
    <3>14. r = Located(s)
      <4> DEFINE g == Located(s)
      <4>1. g \in Seq(Names) /\ Len(g) = k /\ \A i \in 1..k : r[i] = g[i]
        BY <3>9, <3>12, <3>13
      <4> HIDE DEF g
      <4>2. r = g
        BY <3>10, <4>1
      <4>3. QED
        BY <4>2 DEF g
    <3>15. QED
      BY <1>6, <3>6, <3>14
  <2>8. QED
    BY <2>6, <2>7
<1>9. QED
  BY <1>1, <1>7, <1>8, LastExists

\* m is what has to be there of q for p to be.
Makes(m, q, p, isDir, size, of) ==
  /\ OnDisk(q) = {} /\ m.path = Located(q)
  /\ m.dir = (q # p \/ isDir)
  /\ m.size = IF q = p THEN size ELSE 0
  /\ m.of = IF q = p THEN of ELSE <<>>

\* M is what has to be laid down for p to be there, where nothing is in the way.
Laid(M, p, isDir, size, of) ==
  /\ M \subseteq Stored
  /\ \A m \in M : \E q \in Nodes[p] : Makes(m, q, p, isDir, size, of)
  /\ \A q \in Nodes[p] : OnDisk(q) = {} => \E m \in M : m.path = Located(q)
  /\ \A q \in Nodes[p] : \A n \in OnDisk(q) : n.dir
  /\ isDir \/ OnDisk(p) = {}
  /\ isDir => size = 0 /\ of = <<>>

\* m is a directory for q.
Directory(m, q) ==
  /\ OnDisk(q) = {} /\ m.path = Located(q)
  /\ m.dir = TRUE /\ m.size = 0 /\ m.of = <<>>

\* Directories as they are created.
LEMMA MadeDirectories ==
  ASSUME DiskOK(disk), NEW Q \in SUBSET AllPaths
  PROVE  \E L : /\ WithDirectories(Q) = disk \cup L /\ L \subseteq Stored
                /\ \A m \in L : \E q \in Q : Directory(m, q)
                /\ \A q \in Q : OnDisk(q) = {} => \E m \in L : m.path = Located(q)
<1> DEFINE made(q) == [path |-> Located(q), dir |-> TRUE, size |-> 0, of |-> <<>>]
           L == {made(q) : q \in {r \in Q : OnDisk(r) = {}}}
<1>1. WithDirectories(Q) = disk \cup L
  BY DEF WithDirectories
<1>2. ASSUME NEW q \in Q, OnDisk(q) = {}
      PROVE  /\ made(q) \in L /\ made(q) \in Stored /\ made(q).path = Located(q)
             /\ Directory(made(q), q)
  <2>1. Located(q) \in AllPaths
    BY LocatedIs
  <2>2. <<>> \in Seq(Names)
    OBVIOUS
  <2>3. made(q) \in Stored
    BY <2>1, <2>2 DEF Stored
  <2>4. made(q) \in L
    BY <1>2
  <2>5. QED
    BY <1>2, <2>3, <2>4 DEF Directory
<1>3. \A m \in L : \E q \in Q : OnDisk(q) = {} /\ m = made(q)
  OBVIOUS
<1> HIDE DEF made, L
<1>4. /\ L \subseteq Stored
      /\ \A m \in L : \E q \in Q : Directory(m, q)
      /\ \A q \in Q : OnDisk(q) = {} => \E m \in L : m.path = Located(q)
  BY <1>2, <1>3
<1>5. QED
  BY <1>1, <1>4

\* create_dir_all lays down directories.
LEMMA LayingDirectories ==
  ASSUME DiskOK(disk), NEW p \in AllPaths, BelowFile(p) = "none"
  PROVE  \E M : Laid(M, p, TRUE, 0, <<>>) /\ WithDirectories(Nodes[p]) = disk \cup M
<1>1. PICK M :
        /\ WithDirectories(Nodes[p]) = disk \cup M /\ M \subseteq Stored
        /\ \A m \in M : \E q \in Nodes[p] : Directory(m, q)
        /\ \A q \in Nodes[p] : OnDisk(q) = {} => \E m \in M : m.path = Located(q)
  BY NodesArePaths, MadeDirectories
<1>2. \A q \in Nodes[p] : \A n \in OnDisk(q) : n.dir
  BY DEF BelowFile
<1>3. Laid(M, p, TRUE, 0, <<>>)
  <2>1. \A m \in M : \E q \in Nodes[p] : Makes(m, q, p, TRUE, 0, <<>>)
    BY <1>1 DEF Makes, Directory
  <2>2. QED
    BY <1>1, <1>2, <2>1 DEF Laid
<1>4. QED
  BY <1>1, <1>3

\* And create_new a file below them.
LEMMA LayingFile ==
  ASSUME DiskOK(disk), NEW p \in AllPaths, Exists(p) = "none", NEW size \in Nat,
         NEW of \in Seq(Names)
  PROVE  \E M : Laid(M, p, FALSE, size, of) /\ WithFile(p, size, of) = disk \cup M
<1> DEFINE made == [path |-> Located(p), dir |-> FALSE, size |-> size, of |-> of]
<1>1. /\ p \in Nodes[p] /\ p \notin Parents(p) /\ Nodes[p] = Parents(p) \cup {p}
      /\ Parents(p) \in SUBSET AllPaths
  BY NodesAre
<1>2. PICK L :
        /\ WithDirectories(Parents(p)) = disk \cup L /\ L \subseteq Stored
        /\ \A m \in L : \E q \in Parents(p) : Directory(m, q)
        /\ \A q \in Parents(p) : OnDisk(q) = {} => \E m \in L : m.path = Located(q)
  BY <1>1, MadeDirectories
<1>3. OnDisk(p) = {} /\ \A q \in Nodes[p] : \A n \in OnDisk(q) : n.dir
  BY DEF BelowFile, Exists
<1>4. Located(p) \in AllPaths
  BY LocatedIs
<1>5. made \in Stored /\ made.path = Located(p) /\ Makes(made, p, p, FALSE, size, of)
  <2>1. made \in Stored
    BY <1>4 DEF Stored
  <2>2. /\ made.path = Located(p) /\ made.dir = FALSE /\ made.size = size
        /\ made.of = of
    OBVIOUS
  <2> HIDE DEF made
  <2>3. QED
    BY <1>3, <2>1, <2>2 DEF Makes
<1>6. WithFile(p, size, of) = disk \cup L \cup {made}
  BY <1>2 DEF WithFile
<1> HIDE DEF made
<1> DEFINE M == L \cup {made}
<1>7. \A m \in L : \E q \in Nodes[p] : Makes(m, q, p, FALSE, size, of)
  BY <1>1, <1>2 DEF Makes, Directory
<1>8. /\ M \subseteq Stored /\ WithFile(p, size, of) = disk \cup M
      /\ \A m \in M : \E q \in Nodes[p] : Makes(m, q, p, FALSE, size, of)
      /\ \A q \in Nodes[p] : OnDisk(q) = {} => \E m \in M : m.path = Located(q)
  BY <1>1, <1>2, <1>5, <1>6, <1>7
<1> HIDE DEF M
<1>9. Laid(M, p, FALSE, size, of)
  BY <1>3, <1>8 DEF Laid
<1>10. QED
  BY <1>8, <1>9

\* What is laid down is new, and by different names.
LEMMA LaidIsNew ==
  ASSUME DiskOK(disk), NEW p \in AllPaths, NEW isDir \in BOOLEAN, NEW size, NEW of,
         NEW M, Laid(M, p, isDir, size, of)
  PROVE  /\ DiskOK(disk \cup M) /\ IsFiniteSet(M)
         /\ \A m \in M : \A n \in disk : Slot(m.path) # Slot(n.path)
         /\ \A m, n \in M : Slot(m.path) = Slot(n.path) => m = n
         /\ \A m \in M : \A q \in Nodes[p] :
              Slot(m.path) = Slot(q) => Makes(m, q, p, isDir, size, of)
<1>1. Nodes[p] \in SUBSET AllPaths
  BY NodesArePaths
<1>2. \A q \in Nodes[p] : Slot(Located(q)) = Slot(q)
  BY <1>1, LocatedIs
<1>3. ASSUME NEW m \in M, NEW q \in Nodes[p], Slot(m.path) = Slot(q)
      PROVE  Makes(m, q, p, isDir, size, of)
  <2>1. PICK r \in Nodes[p] : Makes(m, r, p, isDir, size, of)
    BY DEF Laid
  <2>2. Slot(r) = Slot(q)
    BY <1>2, <1>3, <2>1 DEF Makes
  <2>3. QED
    BY <2>1, <2>2, NodesDiffer
<1>4. \A m \in M : \E q \in Nodes[p] :
        /\ Makes(m, q, p, isDir, size, of) /\ Slot(m.path) = Slot(q)
        /\ OnDisk(q) = {}
  BY <1>2 DEF Laid, Makes
<1>5. \A m \in M : \A n \in disk : Slot(m.path) # Slot(n.path)
  BY <1>4 DEF OnDisk
<1>6. ASSUME NEW m \in M, NEW n \in M, Slot(m.path) = Slot(n.path)
      PROVE  m = n
  <2>1. PICK q \in Nodes[p] : /\ Makes(m, q, p, isDir, size, of)
                              /\ Slot(m.path) = Slot(q)
    BY <1>4
  <2>2. Makes(n, q, p, isDir, size, of)
    BY <1>3, <1>6, <2>1
  <2>3. m.path = n.path /\ m.dir = n.dir /\ m.size = n.size /\ m.of = n.of
    BY <2>1, <2>2 DEF Makes
  <2>4. m \in Stored /\ n \in Stored
    BY DEF Laid
  <2>5. QED
    BY <2>3, <2>4 DEF Stored
<1>7. IsFiniteSet(M)
  <2> DEFINE f == [m \in M |-> CHOOSE q \in Nodes[p] : Slot(m.path) = Slot(q)]
  <2>1. \A m \in M : f[m] \in Nodes[p] /\ Slot(m.path) = Slot(f[m])
    BY <1>4
  <2>2. f \in [M -> Nodes[p]]
    BY <2>1
  <2> HIDE DEF f
  <2>3. \A m, n \in M : f[m] = f[n] => m = n
    BY <1>6, <2>1
  <2>4. f \in Injection(M, Nodes[p])
    BY <2>2, <2>3 DEF Injection, IsInjective
  <2>5. QED
    BY <2>4, NodesAre, FS_Injection
<1>8. IsFiniteSet(disk \cup M)
  BY <1>7, FS_Union DEF DiskOK
<1>9. \A m \in M : m.dir => m.size = 0 /\ m.of = <<>>
  BY <1>4 DEF Makes, Laid
<1>10. DiskOK(disk \cup M)
  BY <1>5, <1>6, <1>8, <1>9 DEF DiskOK, Laid
<1>11. QED
  BY <1>3, <1>5, <1>6, <1>7, <1>10

\* And its parents are there then.
LEMMA LaidIsRooted ==
  ASSUME DiskOK(disk), Rooted(disk), NEW p \in AllPaths, NEW isDir \in BOOLEAN,
         NEW size, NEW of, NEW M, Laid(M, p, isDir, size, of)
  PROVE  Rooted(disk \cup M)
<1>1. ASSUME NEW m \in M, NEW r \in Parents(m.path)
      PROVE  \E n \in disk \cup M : n.path = r /\ n.dir
  <2>1. PICK q \in Nodes[p] : Makes(m, q, p, isDir, size, of)
    BY DEF Laid
  <2>2. OnDisk(q) = {} /\ r \in Parents(Located(q))
    BY <2>1 DEF Makes
  <2>3. \/ \E n \in disk : n.path = r /\ ((\E s \in Nodes[p] : Slot(n.path) = Slot(s)) \/ n.dir)
        \/ \E s \in Nodes[p] : s # p /\ OnDisk(s) = {} /\ r = Located(s)
    BY <2>2, LocatedPart
  <2>4. CASE \E n \in disk : n.path = r /\ ((\E s \in Nodes[p] : Slot(n.path) = Slot(s)) \/ n.dir)
    BY <2>4 DEF Laid, OnDisk
  <2>5. CASE \E s \in Nodes[p] : s # p /\ OnDisk(s) = {} /\ r = Located(s)
    <3>1. PICK s \in Nodes[p] : s # p /\ OnDisk(s) = {} /\ r = Located(s)
      BY <2>5
    <3>2. PICK n \in M : n.path = r
      BY <3>1 DEF Laid
    <3>3. Slot(n.path) = Slot(s)
      BY <3>1, <3>2, NodesArePaths, LocatedIs
    <3>4. Makes(n, s, p, isDir, size, of)
      BY <3>3, LaidIsNew
    <3>5. n.dir
      BY <3>1, <3>4 DEF Makes
    <3>6. QED
      BY <3>2, <3>5
  <2>6. QED
    BY <2>3, <2>4, <2>5
<1>2. QED
  BY <1>1 DEF Rooted

-----------------------------------------------------------------------------
(* The budget                                                               *)

\* ExtractionBudget, within its limits.
Budgets ==
  [folds: BOOLEAN, nodes: SUBSET Node, entries: 0..EntryLimit, bytes: 0..ByteLimit]

\* An entry of the budget is a node.
BudgetOK ==
  /\ budget \in Budgets /\ Rooted(budget.nodes)
  /\ IsFiniteSet(budget.nodes) /\ Cardinality(budget.nodes) = budget.entries

\* The nodes of a path that a list does not know.
Completes(A, N, p, isDir) ==
  /\ A \subseteq Node /\ IsFiniteSet(A)
  /\ \A a \in A : /\ a.path \in Nodes[p] /\ Known(N, a.path) = {}
                  /\ a.dir = (a.path # p \/ isDir)
  /\ \A q \in Nodes[p] : Known(N, q) = {} => \E a \in A : a.path = q

\* They are what Added has.
LEMMA AddedIs ==
  ASSUME NEW N, NEW p \in AllPaths, NEW isDir \in BOOLEAN
  PROVE  Completes(Added(N, p, isDir), N, p, isDir)
<1> DEFINE A == Added(N, p, isDir)
           made(q) == [path |-> q, dir |-> q # p \/ isDir]
           Q == {r \in Nodes[p] : Known(N, r) = {}}
<1>1. A = {made(q) : q \in Q}
  BY DEF Added
<1>2. \A q \in Nodes[p] : /\ made(q) \in Node /\ made(q).path = q
                          /\ made(q).dir = (q # p \/ isDir)
  BY NodesArePaths DEF Node
<1>3. IsFiniteSet(A)
  <2> DEFINE f == [q \in Q |-> made(q)]
  <2>1. f \in Surjection(Q, A)
    BY <1>1 DEF Surjection
  <2>2. IsFiniteSet(Q)
    BY NodesAre, FS_Subset
  <2> HIDE DEF f, A, Q
  <2>3. QED
    BY <2>1, <2>2, FS_Surjection
<1>4. A \subseteq Node
  BY <1>1, <1>2
<1>5. \A a \in A : \E q \in Q : a.path = q /\ a.dir = (q # p \/ isDir)
  BY <1>1, <1>2
<1>6. \A q \in Q : \E a \in A : a.path = q
  BY <1>1, <1>2
<1> HIDE DEF A
<1>7. QED
  BY <1>3, <1>4, <1>5, <1>6 DEF A, Completes

\* With a path its parents are added, unless they are known as such.
LEMMA AddedIsRooted ==
  ASSUME NEW N, Rooted(N), NEW p \in AllPaths, NEW isDir \in BOOLEAN,
         ~Clashes(N, p, isDir)
  PROVE  Rooted(N \cup Added(N, p, isDir))
<1> DEFINE A == Added(N, p, isDir)
<1>1. /\ \A a \in A : a.path \in Nodes[p] /\ a.dir = (a.path # p \/ isDir)
      /\ \A q \in Nodes[p] : Known(N, q) = {} => \E a \in A : a.path = q
  <2>1. Completes(A, N, p, isDir)
    BY AddedIs
  <2>2. QED
    BY <2>1 DEF Completes
<1> HIDE DEF A
<1>2. ASSUME NEW a \in A, NEW q \in Parents(a.path)
      PROVE  \E m \in N \cup A : m.path = q /\ m.dir
  <2>1. a.path \in AllPaths /\ a.path \in Nodes[p]
    BY <1>1, NodesArePaths
  <2>2. q \in Nodes[p] /\ q \in Nodes[a.path] /\ q # a.path /\ q \in AllPaths
    BY <2>1, NodesAre, NodesArePaths DEF Parents
  <2>3. q # p
    <3>1. p \in Nodes[p] /\ Nodes[p] = Parents(p) \cup {p}
      BY NodesAre
    <3>2. /\ Len(a.path) \in 1..Len(p) /\ a.path = SubSeq(p, 1, Len(a.path))
          /\ Len(q) \in 1..Len(a.path) /\ q = SubSeq(a.path, 1, Len(q))
      BY <2>1, <2>2, NodesAre
    <3>3. p \in Seq(Names) /\ Len(p) \in Nat /\ SubSeq(p, 1, Len(p)) = p
      BY PrefixesArePaths
    <3>4. QED
      BY <2>2, <3>2, <3>3
  <2>4. CASE Known(N, q) = {}
    BY <1>1, <2>2, <2>3, <2>4
  <2>5. CASE Known(N, q) # {}
    <3>1. PICK m \in N : m \in Known(N, q)
      BY <2>5 DEF Known
    <3>2. m.path = q /\ m.dir
      BY <2>2, <3>1 DEF Clashes
    <3>3. QED
      BY <3>2
  <2>6. QED
    BY <2>4, <2>5
<1>3. QED
  BY <1>2 DEF Rooted, A

\* reserve_path passes only what is not in the way of anything and within the
\* limits; the budget then holds one node for each of its entries again.
LEMMA Reserving ==
  ASSUME BudgetOK, NEW p \in AllPaths, NEW isDir \in BOOLEAN, NEW size \in Nat,
         BudgetError(p, isDir, size) = "none", budget' = Reserved(p, isDir, size)
  PROVE  /\ BudgetOK' /\ budget'.folds = budget.folds
         /\ budget'.nodes = budget.nodes \cup Added(budget.nodes, p, isDir)
         /\ budget'.bytes = budget.bytes + size
         /\ ~Clashes(budget.nodes, p, isDir)
<1> DEFINE N == budget.nodes
           A == Added(N, p, isDir)
<1>1. /\ budget \in Budgets /\ IsFiniteSet(N) /\ Cardinality(N) = budget.entries
      /\ N \in SUBSET Node /\ budget.entries \in Nat /\ budget.bytes \in Nat
      /\ EntryLimit \in Nat /\ ByteLimit \in Nat
  BY ExtractionAssumption DEF BudgetOK, Budgets
<1>2. /\ ~Clashes(N, p, isDir) /\ ~(budget.entries + Cardinality(A) > EntryLimit)
      /\ ~(budget.bytes + size > ByteLimit)
  BY DEF BudgetError
<1>3. /\ A \subseteq Node /\ IsFiniteSet(A) /\ \A a \in A : Known(N, a.path) = {}
  BY AddedIs DEF Completes
<1>4. budget' = [budget EXCEPT !.nodes = N \cup A,
                               !.entries = budget.entries + Cardinality(A),
                               !.bytes = budget.bytes + size]
  BY DEF Reserved
<1> HIDE DEF A, N
<1>5. N \cap A = {}
  BY <1>3 DEF Known
<1>6. Cardinality(A) \in Nat
  BY <1>3, FS_CardinalityType
<1>7. /\ IsFiniteSet(N \cup A)
      /\ Cardinality(N \cup A) = budget.entries + Cardinality(A)
  <2>1. /\ IsFiniteSet(N \cup A)
        /\ Cardinality(N \cup A) = Cardinality(N) + Cardinality(A) - Cardinality(N \cap A)
    BY <1>1, <1>3, FS_Union
  <2>2. Cardinality(N \cap A) = 0
    BY <1>5, FS_EmptySet
  <2>3. QED
    BY <1>1, <1>6, <2>1, <2>2
<1>8. /\ budget.entries + Cardinality(A) \in 0..EntryLimit
      /\ budget.bytes + size \in 0..ByteLimit /\ N \cup A \in SUBSET Node
  BY <1>1, <1>2, <1>3, <1>6
<1>9. /\ budget' \in Budgets /\ budget'.nodes = N \cup A
      /\ budget'.entries = budget.entries + Cardinality(A)
      /\ budget'.bytes = budget.bytes + size /\ budget'.folds = budget.folds
  BY <1>1, <1>4, <1>8 DEF Budgets
<1>10. BudgetOK'
  <2>1. Rooted(N \cup A)
    BY <1>2, AddedIsRooted DEF BudgetOK, N, A
  <2>2. QED
    BY <1>7, <1>9, <2>1 DEF BudgetOK, Budgets
<1>11. QED
  BY <1>2, <1>9, <1>10 DEF N, A

\* Everything on disk but a download that is still there.
Filed(D) == {n \in D : n.dir \/ n.of # <<>>}

\* m and n are one to the file system, and both directories or both files.
Same(m, n) == Slot(m.path) = Slot(n.path) /\ m.dir = n.dir

\* The disk holds what the budget says, .downloads aside.
Accounts ==
  /\ \A n \in Filed(disk) : ~Top(n) => \E b \in budget.nodes : Same(b, n)
  /\ \A b \in budget.nodes : ~Top(b) => \E n \in Filed(disk) : Same(b, n)
  /\ Size(Filed(disk)) = budget.bytes

\* What is on disk, and what of it is charged, can be added up.
LEMMA FiledAre ==
  ASSUME NEW D, DiskOK(D)
  PROVE  Sized(Filed(D)) /\ Sized(D)
<1>1. Filed(D) \in SUBSET D /\ \A n \in D : n.size \in Nat
  BY DEF Filed, DiskOK, Stored
<1>2. IsFiniteSet(Filed(D)) /\ IsFiniteSet(D)
  BY <1>1, FS_Subset DEF DiskOK
<1>3. QED
  BY <1>1, <1>2 DEF Sized

\* Whatever is laid down has its size.
LEMMA LaidSize ==
  ASSUME DiskOK(disk), NEW p \in AllPaths, NEW isDir \in BOOLEAN, NEW size \in Nat,
         NEW of, NEW M, Laid(M, p, isDir, size, of)
  PROVE  Size(Filed(disk) \cup M) = Size(Filed(disk)) + size
<1> DEFINE F == Filed(disk)
<1>1. Sized(F) /\ Size(F) \in Nat
  BY FiledAre, SizeType
<1>2. /\ DiskOK(disk \cup M) /\ IsFiniteSet(M)
      /\ \A m \in M : \A n \in disk : Slot(m.path) # Slot(n.path)
      /\ \A m, n \in M : Slot(m.path) = Slot(n.path) => m = n
      /\ \A m \in M : \A q \in Nodes[p] :
           Slot(m.path) = Slot(q) => Makes(m, q, p, isDir, size, of)
  BY LaidIsNew
<1>3. \A m \in M : m \notin F
  BY <1>2 DEF Filed
<1> HIDE DEF F
<1>4. CASE isDir
  <2>1. \A m \in M : m.size = 0
    BY <1>4 DEF Laid, Makes
  <2>2. Size(F \cup M) = Size(F)
    BY <1>1, <1>2, <2>1, SizeOfEmpties
  <2>3. size = 0
    BY <1>4 DEF Laid
  <2>4. QED
    BY <1>1, <2>2, <2>3 DEF F
<1>5. CASE ~isDir
  <2>0. p \in Nodes[p]
    BY NodesAre
  <2>1. PICK m \in M : Slot(m.path) = Slot(p) /\ m.size = size
    <3>1. PICK m \in M : m.path = Located(p)
      BY <1>5, <2>0 DEF Laid
    <3>2. Slot(m.path) = Slot(p)
      BY <3>1, LocatedIs
    <3>3. Makes(m, p, p, isDir, size, of)
      BY <1>2, <2>0, <3>2
    <3>4. QED
      BY <3>2, <3>3 DEF Makes
  <2> DEFINE L == M \ {m}
             G == F \cup L
  <2>2. \A n \in L : n.size = 0
    <3>1. SUFFICES ASSUME NEW n \in L
                   PROVE  n.size = 0
      OBVIOUS
    <3>2. PICK q \in Nodes[p] : Makes(n, q, p, isDir, size, of)
      BY DEF Laid
    <3>3. CASE q = p
      <4>1. Slot(n.path) = Slot(p)
        BY <3>2, <3>3, LocatedIs DEF Makes
      <4>2. QED
        BY <1>2, <2>1, <4>1
    <3>4. QED
      BY <3>2, <3>3 DEF Makes
  <2>3. IsFiniteSet(L)
    BY <1>2, FS_Subset
  <2>4. Sized(G) /\ Size(G) = Size(F)
    BY <1>1, <2>2, <2>3, SizeOfEmpties
  <2>5. m \notin G /\ F \cup M = G \cup {m}
    BY <1>3, <2>1
  <2> HIDE DEF G
  <2>6. Size(G \cup {m}) = Size(G) + m.size
    BY <2>1, <2>4, <2>5, SizeWith
  <2>7. QED
    BY <2>1, <2>4, <2>5, <2>6 DEF F
<1>6. QED
  BY <1>4, <1>5

\* A directory is the same to a budget of the same file system.
LEMMA DirectoriesStay ==
  ASSUME budget'.folds = budget.folds
  PROVE  /\ DiskOK(disk') => DiskOK(disk)'
         /\ \A n : (Top(n)' <=> Top(n)) /\ (InDownloads(n)' <=> InDownloads(n))
BY DEF DiskOK, Top, InDownloads, Slot

\* The directory .downloads is there, and what has no source is in it.
Downloading ==
  /\ [path |-> <<Downloads>>, dir |-> TRUE, size |-> 0, of |-> <<>>] \in disk
  /\ \A n \in disk : ~n.dir /\ n.of = <<>> => InDownloads(n)

\* While the package is put together.
Balanced == BudgetOK /\ DiskOK(disk) /\ Rooted(disk) /\ Accounts /\ Downloading

\* What is laid down within the budget is what the budget adds, but for directories
\* that are there by another spelling.
LEMMA LaidIsAdded ==
  ASSUME Balanced, NEW p \in AllPaths, NEW isDir \in BOOLEAN, NEW size \in Nat,
         NEW of, NEW M, Laid(M, p, isDir, size, of),
         ~Clashes(budget.nodes, p, isDir)
  PROVE  LET A == Added(budget.nodes, p, isDir) IN
         /\ \A m \in M : ~Top(m) /\ \E a \in A : Same(a, m)
         /\ \A a \in A : \E n \in Filed(disk) \cup M : Same(a, n)
<1> DEFINE A == Added(budget.nodes, p, isDir)
           R == [path |-> <<Downloads>>, dir |-> TRUE, size |-> 0, of |-> <<>>]
<1>0. DiskOK(disk) /\ R \in disk /\ R.path = <<Downloads>>
  BY DEF Balanced, Downloading
<1>1. /\ \A a \in A : a.path \in Nodes[p] /\ a.dir = (a.path # p \/ isDir)
      /\ \A q \in Nodes[p] : Known(budget.nodes, q) = {} => \E a \in A : a.path = q
  <2>1. Completes(A, budget.nodes, p, isDir)
    BY AddedIs
  <2>2. QED
    BY <2>1 DEF Completes
<1>2. /\ Nodes[p] \in SUBSET AllPaths
      /\ \A q \in Nodes[p] : Located(q) \in AllPaths /\ Slot(Located(q)) = Slot(q)
  BY <1>0, NodesArePaths, LocatedIs
<1> HIDE DEF A, R
<1>3. ASSUME NEW m \in M
      PROVE  ~Top(m) /\ \E a \in A : Same(a, m)
  <2>1. PICK q \in Nodes[p] : Makes(m, q, p, isDir, size, of)
    BY DEF Laid
  <2>2. /\ OnDisk(q) = {} /\ m.path \in AllPaths /\ Slot(m.path) = Slot(q)
        /\ m.dir = (q # p \/ isDir)
    BY <1>2, <2>1 DEF Makes
  <2>3. Slot(q) # Slot(<<Downloads>>)
    BY <1>0, <2>2 DEF OnDisk
  <2>4. Known(budget.nodes, q) = {}
    <3>1. SUFFICES ASSUME NEW b \in Known(budget.nodes, q)
                   PROVE  FALSE
      OBVIOUS
    <3>2. b.path = q /\ b \in budget.nodes
      BY DEF Clashes, Known
    <3>3. ~Top(b)
      BY <1>2, <2>3, <3>2, Tops
    <3>4. PICK n \in disk : Slot(n.path) = Slot(q)
      BY <3>2, <3>3 DEF Balanced, Accounts, Same, Filed
    <3>5. QED
      BY <2>2, <3>4 DEF OnDisk
  <2>5. PICK a \in A : a.path = q
    BY <1>1, <2>4
  <2>6. Same(a, m)
    BY <1>1, <2>2, <2>5 DEF Same
  <2>7. ~Top(m)
    BY <2>2, <2>3, Tops
  <2>8. QED
    BY <2>6, <2>7
<1>4. ASSUME NEW a \in A
      PROVE  \E n \in Filed(disk) \cup M : Same(a, n)
  <2>1. a.path \in Nodes[p] /\ a.dir = (a.path # p \/ isDir)
    BY <1>1
  <2>2. CASE OnDisk(a.path) = {}
    <3>1. PICK m \in M : m.path = Located(a.path)
      BY <2>1, <2>2 DEF Laid
    <3>2. Slot(m.path) = Slot(a.path)
      BY <1>2, <2>1, <3>1
    <3>3. Makes(m, a.path, p, isDir, size, of)
      <4>1. \A k \in M : \A q \in Nodes[p] :
              Slot(k.path) = Slot(q) => Makes(k, q, p, isDir, size, of)
        BY <1>0, LaidIsNew
      <4>2. QED
        BY <2>1, <3>2, <4>1
    <3>4. Same(a, m)
      BY <2>1, <3>2, <3>3 DEF Makes, Same
    <3>5. QED
      BY <3>4
  <2>3. CASE OnDisk(a.path) # {}
    <3>1. PICK n \in OnDisk(a.path) : n.dir
      BY <2>1, <2>3 DEF Laid
    <3>2. n \in Filed(disk) /\ Slot(n.path) = Slot(a.path)
      BY <3>1 DEF OnDisk, Filed
    <3>3. a.dir
      BY <2>1, <2>3 DEF Laid
    <3>4. n \in Stored
      BY <1>0, <3>2 DEF DiskOK, Filed
    <3>5. n.dir = TRUE /\ a.dir = TRUE
      BY <2>1, <3>1, <3>3, <3>4 DEF Stored
    <3>6. Same(a, n)
      BY <3>2, <3>5 DEF Same
    <3>7. QED
      BY <3>2, <3>6
  <2>4. QED
    BY <2>2, <2>3
<1>5. QED
  BY <1>3, <1>4 DEF A

\* So the accounts agree again.
LEMMA Laying ==
  ASSUME Balanced, NEW p \in AllPaths, NEW isDir \in BOOLEAN, NEW size \in Nat,
         NEW of, isDir \/ of # <<>>, NEW M, Laid(M, p, isDir, size, of),
         BudgetError(p, isDir, size) = "none", budget' = Reserved(p, isDir, size),
         disk' = disk \cup M
  PROVE  Balanced' /\ budget'.folds = budget.folds
<1> DEFINE A == Added(budget.nodes, p, isDir)
<1>1. /\ BudgetOK' /\ budget'.folds = budget.folds
      /\ budget'.nodes = budget.nodes \cup A
      /\ budget'.bytes = budget.bytes + size
      /\ ~Clashes(budget.nodes, p, isDir)
  BY Reserving DEF Balanced
<1>2. /\ \A m \in M : ~Top(m) /\ \E a \in A : Same(a, m)
      /\ \A a \in A : \E n \in Filed(disk) \cup M : Same(a, n)
  BY <1>1, LaidIsAdded
<1> HIDE DEF A
<1>3. DiskOK(disk) /\ DiskOK(disk \cup M) /\ Rooted(disk \cup M)
  BY LaidIsNew, LaidIsRooted DEF Balanced
<1>4. \A m \in M : m.dir \/ m.of # <<>>
  <2>1. SUFFICES ASSUME NEW m \in M
                 PROVE  m.dir \/ m.of # <<>>
    OBVIOUS
  <2>2. PICK q \in Nodes[p] : Makes(m, q, p, isDir, size, of)
    BY DEF Laid
  <2>3. QED
    BY <2>2 DEF Makes
<1>5. Filed(disk \cup M) = Filed(disk) \cup M
  BY <1>4 DEF Filed
<1>6. Size(Filed(disk')) = budget'.bytes
  <2>1. Size(Filed(disk) \cup M) = Size(Filed(disk)) + size
    BY <1>3, LaidSize
  <2>2. Size(Filed(disk)) = budget.bytes
    BY DEF Balanced, Accounts
  <2>3. QED
    BY <1>1, <1>5, <2>1, <2>2
<1>7. /\ \A n \in Filed(disk') : ~Top(n) => \E b \in budget'.nodes : Same(b, n)
      /\ \A b \in budget'.nodes : ~Top(b) => \E n \in Filed(disk') : Same(b, n)
  BY <1>1, <1>2, <1>5 DEF Balanced, Accounts
<1>8. /\ \A n : (Top(n)' <=> Top(n)) /\ (InDownloads(n)' <=> InDownloads(n))
      /\ \A m, n : Same(m, n)' <=> Same(m, n)
  BY <1>1, DirectoriesStay DEF Same, Slot
<1>9. Accounts'
  BY <1>6, <1>7, <1>8 DEF Accounts
<1>10. DiskOK(disk)' /\ Rooted(disk)'
  BY <1>1, <1>3, DirectoriesStay DEF Rooted
<1>11. Downloading'
  BY <1>4, <1>8 DEF Downloading, Balanced
<1>12. QED
  BY <1>1, <1>9, <1>10, <1>11 DEF Balanced

\* What the budget has room for is in the way of nothing, out of .downloads and
\* where the file system takes no names for one that the budget does not.
LEMMA NothingInTheWay ==
  ASSUME Balanced, ~Misjudged, NEW p \in AllPaths, NEW isDir \in BOOLEAN,
         ~Clashes(budget.nodes, p, isDir), Slot(Start(p)) # Slot(<<Downloads>>)
  PROVE  BelowFile(p) = "none" /\ (isDir \/ Exists(p) = "none")
<1>1. ASSUME NEW q \in Nodes[p], NEW n \in OnDisk(q)
      PROVE  n.dir /\ (q = p => isDir)
  <2>1. q \in AllPaths /\ Start(q) = Start(p)
    BY NodesAre
  <2>2. n \in disk /\ Slot(n.path) = Slot(q) /\ n.path \in AllPaths
    BY DEF OnDisk, Balanced, DiskOK, Stored
  <2>3. Slot(Start(n.path)) = Slot(Start(p))
    BY <2>1, <2>2, SameSlots
  <2>4. ~InDownloads(n)
    BY <2>2, <2>3, Tops
  <2>5. n \in Filed(disk) /\ ~Top(n)
    BY <2>2, <2>4 DEF Filed, Balanced, Downloading, Top
  <2>6. PICK b \in budget.nodes : Slot(b.path) = Slot(n.path) /\ b.dir = n.dir
    BY <2>5 DEF Balanced, Accounts, Same
  <2>7. b.path \in AllPaths
    BY DEF Balanced, BudgetOK, Budgets, Node
  <2>8. Key(b.path) = Key(q)
    BY <2>1, <2>2, <2>6, <2>7, SlotsHaveKeys
  <2>9. b \in Known(budget.nodes, q)
    BY <2>8 DEF Known
  <2>10. ~(b.path # q \/ ~b.dir \/ (q = p /\ ~isDir))
    BY <2>9 DEF Clashes
  <2>11. QED
    BY <2>6, <2>10
<1>2. BelowFile(p) = "none"
  BY <1>1 DEF BelowFile
<1>3. ~isDir => OnDisk(p) = {}
  BY <1>1, NodesAre
<1>4. QED
  BY <1>2, <1>3 DEF Exists

-----------------------------------------------------------------------------
(* Errors                                                                   *)

\* First is the first error there is.
LEMMA FirstError ==
  ASSUME NEW s, NEW n \in DOMAIN s, DOMAIN s \subseteq Nat \ {0}, s[n] # "none",
         \A k \in 1..(n - 1) : s[k] = "none"
  PROVE  First(s) = s[n]
<1> DEFINE P(k) == /\ s[k] # "none"
                   /\ \A j \in 1..(k - 1) : s[j] = "none"
<1>1. \E k \in DOMAIN s : P(k)
  OBVIOUS
<1> DEFINE m == CHOOSE k \in DOMAIN s : P(k)
<1>2. m \in DOMAIN s /\ P(m)
  BY <1>1
<1>3. First(s) = s[m]
  BY DEF First
<1> HIDE DEF m
<1>4. m \in Nat /\ n \in Nat /\ m > 0 /\ n > 0
  BY <1>2
<1>5. ~(n < m) /\ ~(m < n)
  BY <1>2, <1>4
<1>6. m = n
  BY <1>4, <1>5
<1>7. QED
  BY <1>3, <1>6

\* Two checks.
LEMMA FirstOfTwo ==
  ASSUME NEW a, NEW b
  PROVE  First(<<a, b>>) = IF a # "none" THEN a ELSE b
<1> DEFINE s == <<a, b>>
<1>1. DOMAIN s = 1..2 /\ s[1] = a /\ s[2] = b
  OBVIOUS
<1> HIDE DEF s
<1>2. ASSUME NEW n \in 1..2, s[n] # "none", \A k \in 1..(n - 1) : s[k] = "none"
      PROVE  First(s) = s[n]
  BY FirstError, <1>1, <1>2
<1>3. CASE a # "none"
  BY <1>1, <1>2, <1>3 DEF s
<1>4. CASE a = "none" /\ b # "none"
  <2>1. \A k \in 1..(2 - 1) : s[k] = "none"
    BY <1>1, <1>4
  <2>2. First(s) = s[2]
    BY <1>1, <1>2, <1>4, <2>1
  <2>3. QED
    BY <1>1, <1>4, <2>2 DEF s
<1>5. CASE a = "none" /\ b = "none"
  <2>1. First(s) = "none"
    BY <1>1, <1>5 DEF First
  <2>2. QED
    BY <1>5, <2>1 DEF s
<1>6. QED
  BY <1>3, <1>4, <1>5

\* Three checks.
LEMMA FirstOfThree ==
  ASSUME NEW a, NEW b, NEW c
  PROVE  First(<<a, b, c>>) = IF a # "none" THEN a ELSE IF b # "none" THEN b ELSE c
<1> DEFINE s == <<a, b, c>>
<1>1. DOMAIN s = 1..3 /\ s[1] = a /\ s[2] = b /\ s[3] = c
  OBVIOUS
<1> HIDE DEF s
<1>2. ASSUME NEW n \in 1..3, s[n] # "none", \A k \in 1..(n - 1) : s[k] = "none"
      PROVE  First(s) = s[n]
  BY FirstError, <1>1, <1>2
<1>3. CASE a # "none"
  BY <1>1, <1>2, <1>3 DEF s
<1>4. CASE a = "none" /\ b # "none"
  <2>1. \A k \in 1..(2 - 1) : s[k] = "none"
    BY <1>1, <1>4
  <2>2. First(s) = s[2]
    BY <1>1, <1>2, <1>4, <2>1
  <2>3. QED
    BY <1>1, <1>4, <2>2 DEF s
<1>5. CASE a = "none" /\ b = "none" /\ c # "none"
  <2>1. \A k \in 1..(3 - 1) : s[k] = "none"
    BY <1>1, <1>5
  <2>2. First(s) = s[3]
    BY <1>1, <1>2, <1>5, <2>1
  <2>3. QED
    BY <1>1, <1>5, <2>2 DEF s
<1>6. CASE a = "none" /\ b = "none" /\ c = "none"
  <2>1. First(s) = "none"
    BY <1>1, <1>6 DEF First
  <2>2. QED
    BY <1>6, <2>1 DEF s
<1>7. QED
  BY <1>3, <1>4, <1>5, <1>6

\* Four checks.
LEMMA FirstOfFour ==
  ASSUME NEW a, NEW b, NEW c, NEW d
  PROVE  First(<<a, b, c, d>>) = IF a # "none" THEN a ELSE IF b # "none" THEN b
                                 ELSE IF c # "none" THEN c ELSE d
<1> DEFINE s == <<a, b, c, d>>
<1>1. DOMAIN s = 1..4 /\ s[1] = a /\ s[2] = b /\ s[3] = c /\ s[4] = d
  OBVIOUS
<1> HIDE DEF s
<1>2. ASSUME NEW n \in 1..4, s[n] # "none", \A k \in 1..(n - 1) : s[k] = "none"
      PROVE  First(s) = s[n]
  BY FirstError, <1>1, <1>2
<1>3. CASE a # "none"
  BY <1>1, <1>2, <1>3 DEF s
<1>4. CASE a = "none" /\ b # "none"
  <2>1. \A k \in 1..(2 - 1) : s[k] = "none"
    BY <1>1, <1>4
  <2>2. First(s) = s[2]
    BY <1>1, <1>2, <1>4, <2>1
  <2>3. QED
    BY <1>1, <1>4, <2>2 DEF s
<1>5. CASE a = "none" /\ b = "none" /\ c # "none"
  <2>1. \A k \in 1..(3 - 1) : s[k] = "none"
    BY <1>1, <1>5
  <2>2. First(s) = s[3]
    BY <1>1, <1>2, <1>5, <2>1
  <2>3. QED
    BY <1>1, <1>5, <2>2 DEF s
<1>6. CASE a = "none" /\ b = "none" /\ c = "none" /\ d # "none"
  <2>1. \A k \in 1..(4 - 1) : s[k] = "none"
    BY <1>1, <1>6
  <2>2. First(s) = s[4]
    BY <1>1, <1>2, <1>6, <2>1
  <2>3. QED
    BY <1>1, <1>6, <2>2 DEF s
<1>7. CASE a = "none" /\ b = "none" /\ c = "none" /\ d = "none"
  <2>1. First(s) = "none"
    BY <1>1, <1>7 DEF First
  <2>2. QED
    BY <1>7, <2>1 DEF s
<1>8. QED
  BY <1>3, <1>4, <1>5, <1>6, <1>7

\* Which errors the checks know.
LEMMA ErrorsAre ==
  ASSUME NEW p, NEW isDir, NEW size, NEW text
  PROVE  /\ TooLarge(size) \in {"none", "limit"}
         /\ BudgetError(p, isDir, size) \in {"none", "collision", "limit"}
         /\ GuardError(p, isDir) \in {"none", "collision"}
         /\ TargetError(p, text) \in {"none", "link"}
         /\ BelowFile(p) \in {"none", "exists"} /\ Exists(p) \in {"none", "exists"}
         /\ BudgetError(p, isDir, size) = "none" => ~Clashes(budget.nodes, p, isDir)
BY DEF TooLarge, BudgetError, GuardError, TargetError, BelowFile, Exists

\* What is not too large.
LEMMA LargeIs ==
  ASSUME NEW size \in Nat, TooLarge(size) = "none"
  PROVE  size <= FileLimit
<1>1. FileLimit \in Nat
  BY ExtractionAssumption
<1>2. ~(size > FileLimit)
  BY DEF TooLarge
<1>3. QED
  BY <1>1, <1>2

-----------------------------------------------------------------------------
(* What archives hold                                                       *)

\* What extract_tar keeps of an archive.
Archives ==
  [destination: Destinations \cup {<<>>}, format: {"none", "zip", "tar"},
   count: 0..EntryLimit, named: SUBSET Seq(Names), nodes: SUBSET Node,
   directories: SUBSET AllPaths, files: SUBSET File, links: SUBSET Link,
   pending: Seq(Paths)]

\* An archive has one file, link or directory for a path, and its directories
\* are recorded as such.
Guarded(A) ==
  /\ \A m, n \in A.nodes : m.path = n.path => m = n
  /\ \A file \in A.files : \E n \in A.nodes : n.path = file.path /\ ~n.dir
  /\ \A link \in A.links : \E n \in A.nodes : n.path = link.from /\ ~n.dir
  /\ \A q \in A.directories : \E n \in A.nodes : n.path = q /\ n.dir
  /\ \A file \in A.files, link \in A.links : file.path # link.from
  /\ \A j, k \in A.links : j.from = k.from => j = k

\* A path is pending.
Listed(A, p) == \E n \in DOMAIN A.pending : A.pending[n] = p

\* Only links are pending, and all of them until the entries are done.
ArchiveOK ==
  /\ archive \in Archives /\ Guarded(archive)
  /\ phase \in {"entries", "links"} \/ archive.links # {}
       => archive.destination \in Destinations
  /\ \A n \in DOMAIN archive.pending :
       \E link \in archive.links : link.from = archive.pending[n]
  /\ phase = "entries" => \A link \in archive.links : Listed(archive, link.from)
  /\ \A file \in archive.files : file.size <= FileLimit

\* CollisionGuard lets in only what is in the way of no earlier entry.
LEMMA Guarding ==
  ASSUME archive \in Archives, Guarded(archive), NEW p \in Paths,
         NEW isDir \in BOOLEAN, GuardError(p, isDir) = "none",
         archive.count < EntryLimit
  PROVE  LET A == Entered(p, isDir) IN
         /\ A \in Archives /\ Guarded(A)
         /\ A.destination = archive.destination /\ A.pending = archive.pending
         /\ A.files = archive.files /\ A.links = archive.links
         /\ isDir \/ /\ \E n \in A.nodes : n.path = p /\ ~n.dir
                     /\ \A file \in archive.files : file.path # p
                     /\ \A link \in archive.links : link.from # p
<1>0. p \in AllPaths
  BY OutputsArePaths
<1> DEFINE A == Entered(p, isDir)
           D == Parents(p) \cup {q \in {p} : isDir}
           N == archive.nodes
           B == Added(N, p, isDir)
<1>1. /\ p \in AllPaths /\ p \in Nodes[p] /\ Nodes[p] \in SUBSET AllPaths
      /\ D \subseteq Nodes[p] /\ (p \in D => isDir)
      /\ Key(p) \in Seq(Names)
  <2>1. p \in AllPaths
    BY OutputsArePaths
  <2>2. /\ p \in Nodes[p] /\ p \notin Parents(p) /\ Nodes[p] = Parents(p) \cup {p}
        /\ Nodes[p] \in SUBSET AllPaths
    BY <2>1, NodesAre
  <2>3. QED
    BY <2>1, <2>2, KeysAre
<1>2. A = [archive EXCEPT !.count = archive.count + 1,
                          !.named = archive.named \cup {Key(p)},
                          !.nodes = N \cup B,
                          !.directories = archive.directories \cup D]
  BY DEF Entered
<1>3. ~Clashes(N, p, isDir)
  BY DEF GuardError
<1>4. \A q \in Nodes[p] : \A n \in Known(N, q) :
        n.path = q /\ n.dir /\ (q = p => isDir)
  BY <1>3 DEF Clashes
<1>5. /\ B \subseteq Node
      /\ \A b \in B : /\ b.path \in Nodes[p] /\ Known(N, b.path) = {}
                      /\ b.dir = (b.path # p \/ isDir)
      /\ \A q \in Nodes[p] : Known(N, q) = {} => \E b \in B : b.path = q
  <2> HIDE DEF N, B
  <2>1. Added(N, p, isDir) \subseteq Node
    BY <1>0, AddedIs DEF Completes
  <2>2. ASSUME NEW b \in Added(N, p, isDir)
        PROVE  /\ b.path \in Nodes[p] /\ Known(N, b.path) = {}
               /\ b.dir = (b.path # p \/ isDir)
    <3>1. PICK q \in Nodes[p] : /\ Known(N, q) = {}
                                /\ b = [path |-> q, dir |-> q # p \/ isDir]
      BY DEF Added
    <3>2. b.path = q /\ b.dir = (q # p \/ isDir)
      BY <3>1
    <3>3. QED
      BY <3>1, <3>2
  <2>3. \A q \in Nodes[p] :
          Known(N, q) = {} => \E b \in Added(N, p, isDir) : b.path = q
    BY <1>0, AddedIs DEF Completes
  <2>4. QED
    BY <2>1, <2>2, <2>3 DEF B
<1>6. /\ archive.count + 1 \in 0..EntryLimit
      /\ archive.named \cup {Key(p)} \in SUBSET Seq(Names)
      /\ N \cup B \in SUBSET Node
      /\ archive.directories \cup D \in SUBSET AllPaths
  <2>1. /\ EntryLimit \in Nat /\ archive.count \in 0..EntryLimit
        /\ archive.named \in SUBSET Seq(Names) /\ N \in SUBSET Node
        /\ archive.directories \in SUBSET AllPaths
    BY ExtractionAssumption DEF Archives
  <2>2. archive.count + 1 \in 0..EntryLimit
    BY <2>1
  <2> HIDE DEF B, D, N
  <2>3. N \cup B \in SUBSET Node
    BY <1>5, <2>1
  <2>4. archive.directories \cup D \in SUBSET AllPaths
    BY <1>1, <2>1
  <2>5. archive.named \cup {Key(p)} \in SUBSET Seq(Names)
    BY <1>1, <2>1
  <2>6. QED
    BY <2>2, <2>3, <2>4, <2>5
<1> HIDE DEF B, D, A, N
<1>7. /\ A \in Archives /\ A.nodes = N \cup B
      /\ A.directories = archive.directories \cup D
      /\ A.destination = archive.destination /\ A.pending = archive.pending
      /\ A.files = archive.files /\ A.links = archive.links
  BY <1>2, <1>6 DEF Archives
<1>8. \A m, n \in A.nodes : m.path = n.path => m = n
  <2>1. \A m \in N, b \in B : m.path # b.path
    BY <1>5 DEF Known
  <2>2. \A b, c \in B : b.path = c.path => b.dir = c.dir
    BY <1>5
  <2>3. \A b, c \in B : b.path = c.path => b = c
    BY <1>5, <2>2 DEF Node
  <2>4. \A m, n \in N : m.path = n.path => m = n
    BY DEF Guarded, N
  <2>5. QED
    BY <1>7, <2>1, <2>3, <2>4
<1>9. \A q \in A.directories : \E n \in A.nodes : n.path = q /\ n.dir
  <2>1. ASSUME NEW q \in D
        PROVE  \E n \in A.nodes : n.path = q /\ n.dir
    <3>1. q \in Nodes[p] /\ (q # p \/ isDir)
      BY <1>1
    <3>2. CASE Known(N, q) = {}
      BY <1>5, <1>7, <3>1, <3>2
    <3>3. CASE Known(N, q) # {}
      BY <1>4, <1>7, <3>1, <3>3 DEF Known
    <3>4. QED
      BY <3>2, <3>3
  <2>2. QED
    BY <1>7, <2>1 DEF Guarded, N
<1>10. Guarded(A)
  BY <1>7, <1>8, <1>9 DEF Guarded, N
<1>11. isDir \/ /\ \E n \in A.nodes : n.path = p /\ ~n.dir
                /\ \A file \in archive.files : file.path # p
                /\ \A link \in archive.links : link.from # p
  <2>1. SUFFICES ASSUME ~isDir
                 PROVE  /\ \E n \in A.nodes : n.path = p /\ ~n.dir
                        /\ \A file \in archive.files : file.path # p
                        /\ \A link \in archive.links : link.from # p
    OBVIOUS
  <2>2. Known(N, p) = {}
    BY <1>1, <1>4, <2>1
  <2>3. \A n \in N : n.path # p
    BY <2>2 DEF Known
  <2>4. \E b \in B : b.path = p /\ ~b.dir
    BY <1>1, <1>5, <2>1, <2>2
  <2>5. QED
    BY <1>7, <2>3, <2>4 DEF Guarded, N
<1>12. QED
  BY <1>7, <1>10, <1>11 DEF A

\* safe_tar_link_target, name by name: what Resolved is the last value of.
Following(p, text) ==
  [n \in 1..Len(text) |->
     [at \in Seq(Names) \cup {<<Up>>} |->
        IF at = <<Up>> \/ text[n] = Here THEN at
        ELSE IF text[n] # Up THEN Append(at, text[n])
        ELSE IF at = <<>> THEN <<Up>> ELSE Front(at)]]

\* It stays among the names, or says that it left the archive.
LEMMA ResolvedIs ==
  ASSUME NEW p \in Paths, NEW text \in LinkTexts
  PROVE  Resolved(p, text) \in Seq(Names) \cup {<<Up>>}
<1> DEFINE V == Seq(Names) \cup {<<Up>>}
           After(at, name) ==
             IF at = <<Up>> \/ name = Here THEN at
             ELSE IF name # Up THEN Append(at, name)
             ELSE IF at = <<>> THEN <<Up>> ELSE Front(at)
           step == Following(p, text)
           Solves(f) == f = [n \in 0..Len(text) |->
                               IF n = 0 THEN Front(p) ELSE After(f[n - 1], text[n])]
<1>1. /\ p \in Seq(Names) /\ p # <<>> /\ text \in Seq(Names \cup {Here, Up})
      /\ Len(text) \in Nat
  BY ExtractionAssumption
<1>2. Front(p) \in V /\ \A at \in Seq(Names) : at # <<>> => Front(at) \in Seq(Names)
  BY <1>1 DEF Front
<1>3. \A v \in V : \A n \in 1..Len(text) :
        After(v, text[n]) \in V /\ step[n][v] = After(v, text[n])
  <2>1. SUFFICES ASSUME NEW v \in V, NEW n \in 1..Len(text)
                 PROVE  After(v, text[n]) \in V
    BY DEF Following
  <2>2. text[n] \in Names \cup {Here, Up}
    BY <1>1
  <2>3. CASE v = <<Up>> \/ text[n] = Here
    BY <2>3
  <2>4. CASE v # <<Up>> /\ text[n] # Here /\ text[n] # Up
    BY <2>2, <2>4
  <2>5. CASE v # <<Up>> /\ text[n] # Here /\ text[n] = Up
    BY <1>2, <2>5
  <2>6. QED
    BY <2>3, <2>4, <2>5
<1> HIDE DEF After
<1>4. PICK g : Iterates(g, Len(text), Front(p), step)
  BY <1>1, IteratesExist
<1>5. \A v \in V : \A n \in 1..Len(text) : step[n][v] \in V
  BY <1>3
<1>6. \A n \in 0..Len(text) : g[n] \in V
  <2> HIDE DEF V, step
  <2>1. QED
    BY <1>1, <1>2, <1>4, <1>5, IteratesType
<1>7. Solves(g)
  <2>1. ASSUME NEW n \in 0..Len(text)
        PROVE  g[n] = IF n = 0 THEN Front(p) ELSE After(g[n - 1], text[n])
    <3>1. g[n] = IF n = 0 THEN Front(p) ELSE step[n][g[n - 1]]
      BY <1>4, <2>1 DEF Iterates
    <3>2. n # 0 => n \in 1..Len(text) /\ n - 1 \in 0..Len(text)
      BY <1>1
    <3>3. n # 0 => step[n][g[n - 1]] = After(g[n - 1], text[n])
      BY <1>3, <1>6, <3>2
    <3>4. QED
      BY <3>1, <3>3
  <2>2. g = [n \in 0..Len(text) |-> g[n]]
    BY <1>4 DEF Iterates
  <2>3. QED
    BY <2>1, <2>2
<1>8. ASSUME NEW f, Solves(f)
      PROVE  f[Len(text)] \in V
  <2>1. \A n \in 0..Len(text) : f[n] = IF n = 0 THEN Front(p) ELSE After(f[n - 1], text[n])
    BY <1>8
  <2> DEFINE Bad == {n \in Nat : n \in 0..Len(text) /\ f[n] \notin V}
  <2>2. SUFFICES ASSUME Bad # {}
                 PROVE  FALSE
    BY <1>1
  <2>3. PICK n \in Bad : \A m \in Bad : n <= m
    <3>1. Bad \in SUBSET Nat
      OBVIOUS
    <3> HIDE DEF Bad
    <3>2. QED
      BY <2>2, <3>1, LeastNumber
  <2>4. CASE n = 0
    BY <1>2, <2>1, <2>3, <2>4
  <2>5. CASE n # 0
    <3>1. n - 1 \in Nat /\ n - 1 \in 0..Len(text) /\ n \in 1..Len(text)
      BY <1>1, <2>3, <2>5
    <3>2. f[n - 1] \in V
      BY <2>3, <3>1
    <3>3. After(f[n - 1], text[n]) \in V
      BY <1>3, <3>1, <3>2
    <3>4. QED
      BY <2>1, <2>3, <2>5, <3>3
  <2>6. QED
    BY <2>4, <2>5
<1>9. Resolved(p, text) = (CHOOSE f : Solves(f))[Len(text)]
  BY DEF Resolved, After
<1> HIDE DEF Solves
<1>10. Solves(CHOOSE f : Solves(f))
  BY <1>7
<1>11. QED
  BY <1>8, <1>9, <1>10

-----------------------------------------------------------------------------
(* What holds while a package is put together                               *)

\* An artifact so far has its destination in .downloads, or may have without the
\* checks' seeing it.
Trespassed == Misjudged \/ \E p \in taken : p[1] = Fold[Downloads]

\* Why a package is refused.
FailureOK ==
  /\ phase \in {"package", "entries", "links", "done", "failed"}
  /\ failure \in Failures /\ (failure # "none" <=> phase = "failed")
  /\ failure # "snapshot"
  /\ failure \in {"exists", "downloads"} => Trespassed

\* No more destinations are taken than a package has artifacts, and an archive
\* that is open has taken its own.
TakenOK ==
  /\ IsFiniteSet(taken) /\ Cardinality(taken) <= Artifacts
  /\ phase \in {"entries", "links"} => FoldAll[archive.destination] \in taken

\* Wherever the walk is, the pending link leads there, and where it was it found
\* no file and nothing that leads elsewhere.
WalkOK ==
  /\ walk \in [at: Paths \cup {<<>>}, visited: SUBSET Paths]
  /\ phase = "links" =>
       /\ archive.pending # <<>>
       /\ \E link \in archive.links : link.from = walk.at
       /\ Head(archive.pending) \in walk.visited \cup {walk.at}
       /\ \A link \in archive.links : link.from \in walk.visited =>
            /\ link.to \in walk.visited \cup {walk.at}
            /\ \A file \in archive.files : file.path # link.to
       /\ \A C \in SUBSET {link.to : link \in archive.links} :
            (\A link \in archive.links :
               link.from \in C \cup {Head(archive.pending)} => link.to \in C)
            => walk.at \in C \cup {Head(archive.pending)}

\* Every file is within the limit, and only artifacts put something in .downloads
\* that is not a download.
FilesOK ==
  \A n \in Filed(disk) :
    /\ n.size <= FileLimit
    /\ InDownloads(n) /\ n.path # <<Downloads>> => Trespassed

\* Artifacts are still being materialized.
Packing == phase \in {"package", "entries", "links"}

\* What every step of materialize keeps.
ExtractionInv ==
  /\ FailureOK /\ BudgetOK /\ ArchiveOK /\ WalkOK /\ TakenOK
  /\ Packing => Balanced /\ FilesOK
  /\ LinksAreTheirTargets

-----------------------------------------------------------------------------
(* A step of the extraction                                                 *)

\* What is reserved is created.
Creates(p, isDir, size, of) ==
  /\ BudgetError(p, isDir, size) = "none"
  /\ budget' = Reserved(p, isDir, size)
  /\ \E M : Laid(M, p, isDir, size, of) /\ disk' = disk \cup M

\* The file system is the same throughout.
LEMMA FoldsStay ==
  ASSUME BudgetOK
  PROVE  /\ EmptyBudget(budget.folds).folds = budget.folds
         /\ \A p, isDir, size : Reserved(p, isDir, size).folds = budget.folds
BY DEF BudgetOK, Budgets, EmptyBudget, Reserved

\* So it is misjudged, or not.
LEMMA MisjudgedStays ==
  ASSUME budget'.folds = budget.folds
  PROVE  Misjudged' <=> Misjudged
BY DEF Misjudged, Slot, Key

\* A path that starts like .downloads, as validate_destination_collisions sees it.
LEMMA Trespassing ==
  ASSUME NEW p \in AllPaths, Slot(Start(p)) = Slot(<<Downloads>>)
  PROVE  Misjudged \/ FoldAll[p][1] = Fold[Downloads]
<1>0. SUFFICES ASSUME ~Misjudged
               PROVE  FoldAll[p][1] = Fold[Downloads]
  OBVIOUS
<1>1. /\ Start(p) = <<p[1]>> /\ Start(p) \in AllPaths /\ p[1] \in Names
      /\ Len(Start(p)) = 1
  BY Starts
<1>2. <<Downloads>> \in AllPaths /\ Len(<<Downloads>>) = 1
  BY DownloadsArePaths
<1>3. p \in Seq(Names) /\ 1 \in 1..Len(p) /\ DOMAIN p = 1..Len(p)
  BY PrefixesArePaths
<1>4. Spelling(p[1]) = Spelling(Downloads)
  <2>0. Key(Start(p)) = Key(<<Downloads>>)
    BY <1>0, <1>1, <1>2, SlotsHaveKeys
  <2>1. Key(Start(p))[1] = Spelling(Start(p)[1])
    BY <1>1, KeysAre
  <2>2. Key(<<Downloads>>)[1] = Spelling(<<Downloads>>[1])
    BY <1>2, KeysAre
  <2>3. Start(p)[1] = p[1] /\ <<Downloads>>[1] = Downloads
    BY <1>1
  <2>4. QED
    BY <2>0, <2>1, <2>2, <2>3
<1>5. Fold[p[1]] = Fold[Downloads]
  BY <1>4 DEF Spelling
<1>6. FoldAll[p][1] = Fold[p[1]]
  BY <1>3 DEF FoldAll
<1>7. QED
  BY <1>5, <1>6

\* An entry of an archive starts like its destination.
LEMMA InArchive ==
  ASSUME NEW d \in Destinations, NEW q \in Paths
  PROVE  /\ d \o q \in AllPaths /\ Start(d \o q) = Start(d)
         /\ d \o q \in Seq(Names) /\ d \o q # <<>>
<1>1. d \in AllPaths /\ d \o q \in AllPaths
  BY OutputsArePaths
<1>2. d \in Seq(Names) /\ Len(d) \in Nat /\ Len(d) > 0 /\ q \in Seq(Names)
  BY <1>1, PrefixesArePaths, ExtractionAssumption
<1>3. (d \o q)[1] = d[1]
  BY <1>2
<1>4. Start(d) = <<d[1]>>
  BY <1>1, Starts
<1>5. Start(d \o q) = <<(d \o q)[1]>>
  BY <1>1, Starts
<1>6. d \o q \in Seq(Names) /\ Len(d \o q) > 0
  BY <1>1, PrefixesArePaths
<1>7. d \o q # <<>>
  BY <1>6
<1>8. QED
  BY <1>1, <1>3, <1>4, <1>5, <1>6, <1>7

\* What the budget has room for, the file system refuses in .downloads only, or by
\* a folding that the checks do not know.
LEMMA Refused ==
  ASSUME Balanced, NEW p \in AllPaths, NEW isDir \in BOOLEAN, NEW size,
         BudgetError(p, isDir, size) = "none",
         (IF isDir THEN BelowFile(p) ELSE Exists(p)) # "none"
  PROVE  Misjudged \/ Slot(Start(p)) = Slot(<<Downloads>>)
<1>1. ~Clashes(budget.nodes, p, isDir)
  BY DEF BudgetError
<1>2. QED
  BY <1>1, NothingInTheWay

\* An archive that is refused, or never was.
LEMMA NoArchiveIs ==
  /\ NoArchive \in Archives /\ Guarded(NoArchive) /\ NoArchive.links = {}
  /\ NoArchive.pending = <<>> /\ DOMAIN NoArchive.pending = {}
  /\ NoArchive.files = {} /\ NoArchive.nodes = {} /\ NoArchive.directories = {}
<1>1. 0 \in 0..EntryLimit
  BY ExtractionAssumption
<1>2. <<>> \in Seq(Paths)
  OBVIOUS
<1>3. NoArchive \in Archives
  BY <1>1, <1>2 DEF NoArchive, Archives
<1>4. QED
  BY <1>3 DEF NoArchive, Guarded

\* A refused package, whether its files can be removed or not.
LEMMA Failing ==
  ASSUME BudgetOK, NEW error \in Failures, error # "none", Fail(error),
         IsFiniteSet(taken'), Cardinality(taken') <= Artifacts,
         error # "snapshot", error \in {"exists", "downloads"} => Trespassed'
  PROVE  ExtractionInv' /\ phase' = "failed" /\ disk' \in {{}, disk}
<1>1. /\ phase' = "failed" /\ failure' = error /\ budget' = EmptyBudget(budget.folds)
      /\ archive' = NoArchive /\ walk' = NoWalk /\ disk' \in {{}, disk}
  BY DEF Fail
<1>2. BudgetOK'
  <2>1. budget.folds \in BOOLEAN /\ EntryLimit \in Nat /\ ByteLimit \in Nat
    BY ExtractionAssumption DEF BudgetOK, Budgets
  <2>2. IsFiniteSet({}) /\ Cardinality({}) = 0
    BY FS_EmptySet
  <2>3. Rooted({})
    BY DEF Rooted
  <2>4. QED
    BY <1>1, <2>1, <2>2, <2>3 DEF BudgetOK, Budgets, EmptyBudget
<1>3. ArchiveOK'
  BY <1>1, NoArchiveIs DEF ArchiveOK
<1>4. WalkOK'
  BY <1>1 DEF WalkOK, NoWalk
<1>5. FailureOK' /\ TakenOK'
  BY <1>1 DEF FailureOK, TakenOK
<1>6. LinksAreTheirTargets'
  BY <1>1 DEF LinksAreTheirTargets
<1>7. QED
  BY <1>1, <1>2, <1>3, <1>4, <1>5, <1>6 DEF ExtractionInv, Packing

\* What is created keeps the accounts and the limits.
LEMMA Making ==
  ASSUME Balanced, FilesOK, NEW p \in AllPaths, NEW isDir \in BOOLEAN,
         NEW size \in Nat, NEW of, isDir \/ of # <<>>, size <= FileLimit,
         Creates(p, isDir, size, of), taken \subseteq taken',
         Slot(Start(p)) = Slot(<<Downloads>>) => Trespassed'
  PROVE  Balanced' /\ FilesOK' /\ disk \subseteq disk'
<1>1. PICK M : Laid(M, p, isDir, size, of) /\ disk' = disk \cup M
  BY DEF Creates
<1>2. Balanced' /\ budget'.folds = budget.folds
  BY <1>1, Laying DEF Creates
<1>3. \A n : InDownloads(n)' <=> InDownloads(n)
  BY <1>2, DirectoriesStay
<1>4. Trespassed => Trespassed'
  BY <1>2, MisjudgedStays DEF Trespassed
<1>5. \A n \in M : n.size <= FileLimit /\ \E q \in Nodes[p] : n.path = Located(q)
  <2>1. FileLimit \in Nat
    BY ExtractionAssumption
  <2>2. \A n \in M : n.size \in {0, size} /\ \E q \in Nodes[p] : n.path = Located(q)
    BY <1>1 DEF Laid, Makes
  <2>3. QED
    BY <2>1, <2>2
<1>6. ASSUME NEW n \in M, InDownloads(n)
      PROVE  Trespassed'
  <2>1. PICK q \in Nodes[p] : n.path = Located(q)
    BY <1>5
  <2>2. q \in AllPaths /\ Start(q) = Start(p)
    BY NodesAre
  <2>3. n.path \in AllPaths /\ Slot(n.path) = Slot(q)
    BY <2>1, <2>2, LocatedIs DEF Balanced
  <2>4. Slot(Start(n.path)) = Slot(Start(p))
    BY <2>2, <2>3, SameSlots
  <2>5. Slot(Start(n.path)) = Slot(<<Downloads>>)
    BY <1>6, <2>3, Tops
  <2>6. QED
    BY <2>4, <2>5
<1>7. Filed(disk') \subseteq Filed(disk) \cup M
  BY <1>1 DEF Filed
<1>8. ASSUME NEW n \in Filed(disk')
      PROVE  /\ n.size <= FileLimit
             /\ InDownloads(n)' /\ n.path # <<Downloads>> => Trespassed'
  BY <1>3, <1>4, <1>5, <1>6, <1>7 DEF FilesOK
<1>9. FilesOK'
  BY <1>8 DEF FilesOK
<1>10. QED
  BY <1>1, <1>2, <1>9

\* An entry that is refused.
LEMMA Refusing ==
  ASSUME ExtractionInv, NEW error \in Failures, error # "none", Refuse(error),
         error # "snapshot", error \in {"exists", "downloads"} => Trespassed
  PROVE  ExtractionInv' /\ phase' = "failed" /\ disk' \in {{}, disk}
<1>1. Fail(error) /\ taken' = taken
  BY DEF Refuse
<1>2. /\ BudgetOK /\ IsFiniteSet(taken') /\ Cardinality(taken') <= Artifacts
      /\ budget'.folds = budget.folds
  BY <1>1, FoldsStay DEF ExtractionInv, TakenOK, Fail
<1>3. error \in {"exists", "downloads"} => Trespassed'
  BY <1>1, <1>2, MisjudgedStays DEF Trespassed
<1>4. QED
  BY <1>1, <1>2, <1>3, Failing

\* The next destination.
LEMMA NextTaken ==
  ASSUME ExtractionInv, NEW p \in Destinations, NextArtifact(p),
         budget'.folds = budget.folds
  PROVE  /\ IsFiniteSet(taken') /\ Cardinality(taken') <= Artifacts
         /\ taken \subseteq taken' /\ FoldAll[p] \in taken' /\ phase = "package"
         /\ p \in AllPaths
         /\ Slot(Start(p)) = Slot(<<Downloads>>) => Trespassed'
<1>1. /\ IsFiniteSet(taken) /\ taken' = taken \cup {FoldAll[p]}
      /\ FoldAll[p] \notin taken /\ Cardinality(taken) < Artifacts /\ phase = "package"
  BY DEF ExtractionInv, TakenOK, NextArtifact
<1>2. IsFiniteSet(taken') /\ Cardinality(taken') = Cardinality(taken) + 1
  BY <1>1, FS_AddElement
<1>3. Cardinality(taken) \in Nat /\ Artifacts \in Nat
  BY <1>1, FS_CardinalityType, ExtractionAssumption
<1>4. p \in AllPaths
  BY OutputsArePaths, ExtractionAssumption
<1>5. Slot(Start(p)) = Slot(<<Downloads>>) => Trespassed'
  BY <1>1, <1>4, Trespassing, MisjudgedStays DEF Trespassed
<1>6. QED
  BY <1>1, <1>2, <1>3, <1>4, <1>5

\* A chain of links is the same in an archive with the same links.
LEMMA LinksToStays ==
  ASSUME archive'.links = archive.links
  PROVE  \A p, q : LinksTo(p, q)' <=> LinksTo(p, q)
BY DEF LinksTo

\* And what it has become is there as long as the file is.
LEMMA SlotsStay ==
  ASSUME budget'.folds = budget.folds
  PROVE  \A p : Slot(p)' = Slot(p)
BY DEF Slot

\* Links that are done stay done while things are added.
LEMMA LinksStay ==
  ASSUME LinksAreTheirTargets, phase \in {"links", "package"}, UNCHANGED archive,
         \A n \in disk : ~n.dir /\ n.of # <<>> => n \in disk',
         archive \in Archives, archive.links # {} => archive.destination \in Destinations,
         budget'.folds = budget.folds
  PROVE  LinksAreTheirTargets'
<1>1. \A p, q : LinksTo(p, q)' <=> LinksTo(p, q)
  BY LinksToStays
<1>2. ASSUME NEW link \in archive.links, NEW file \in archive.files
      PROVE  Output(file.path) # <<>>
  <2>1. file.path \in Paths
    BY DEF Archives, File
  <2>2. QED
    BY <2>1, InArchive DEF Output
<1>3. ASSUME NEW link \in archive.links
      PROVE  \/ \E n \in DOMAIN archive.pending : archive.pending[n] = link.from
             \/ \E file \in archive.files, n \in disk' :
                  /\ LinksTo(link.from, file.path)'
                  /\ Slot(n.path) = Slot(Output(link.from)) /\ ~n.dir
                  /\ n.of = Output(file.path) /\ n.size = file.size
  <2>1. CASE \E n \in DOMAIN archive.pending : archive.pending[n] = link.from
    BY <2>1
  <2>2. CASE \E file \in archive.files, n \in disk :
               /\ LinksTo(link.from, file.path)
               /\ n \in OnDisk(Output(link.from)) /\ ~n.dir
               /\ n.of = Output(file.path) /\ n.size = file.size
    BY <1>1, <1>2, <2>2 DEF OnDisk
  <2>3. QED
    BY <2>1, <2>2 DEF LinksAreTheirTargets
<1>4. /\ archive' = archive /\ \A p : Slot(p)' = Slot(p)
      /\ \A p : Output(p)' = Output(p)
  BY SlotsStay DEF Output
<1>5. QED
  BY <1>3, <1>4 DEF LinksAreTheirTargets, OnDisk

\* A raw artifact.
LEMMA RawStep ==
  ASSUME ExtractionInv, NEW p \in Destinations, NEW size \in Nat, Raw(p, size)
  PROVE  ExtractionInv' /\ phase' \in {"package", "failed"}
<1> DEFINE error == First(<<TooLarge(size), BudgetError(p, FALSE, size), Exists(p)>>)
<1>0. budget'.folds = budget.folds
  <2>1. /\ EmptyBudget(budget.folds).folds = budget.folds
        /\ Reserved(p, FALSE, size).folds = budget.folds
    BY FoldsStay DEF ExtractionInv
  <2>2. budget' \in {EmptyBudget(budget.folds), Reserved(p, FALSE, size)}
    BY DEF Raw, Fail
  <2>3. QED
    BY <2>1, <2>2
<1>1. /\ IsFiniteSet(taken') /\ Cardinality(taken') <= Artifacts
      /\ taken \subseteq taken' /\ FoldAll[p] \in taken' /\ phase = "package"
      /\ p \in AllPaths
      /\ Slot(Start(p)) = Slot(<<Downloads>>) => Trespassed'
  BY <1>0, NextTaken DEF Raw
<1>2. BudgetOK /\ Balanced /\ FilesOK
  BY <1>1 DEF ExtractionInv, Packing
<1>3. error = IF TooLarge(size) # "none" THEN TooLarge(size)
              ELSE IF BudgetError(p, FALSE, size) # "none"
                   THEN BudgetError(p, FALSE, size) ELSE Exists(p)
  BY FirstOfThree
<1>4. CASE error # "none" /\ Fail(error)
  <2>1. error \in {"limit", "collision", "exists"}
    BY <1>3, <1>4, ErrorsAre
  <2>2. error = "exists" => BudgetError(p, FALSE, size) = "none" /\ Exists(p) # "none"
    BY <1>3, <1>4, ErrorsAre
  <2>3. error = "exists" => Trespassed'
    BY <1>0, <1>1, <1>2, <2>2, Refused, MisjudgedStays DEF Trespassed
  <2> HIDE DEF error
  <2>4. error \in Failures
    BY <2>1 DEF Failures
  <2>5. ExtractionInv' /\ phase' = "failed"
    BY <1>1, <1>2, <1>4, <2>1, <2>3, <2>4, Failing
  <2>6. QED
    BY <2>5
<1>5. CASE /\ error = "none" /\ budget' = Reserved(p, FALSE, size)
           /\ disk' = WithFile(p, size, p)
           /\ UNCHANGED <<phase, failure, archive, walk>>
  <2>1. /\ TooLarge(size) = "none" /\ BudgetError(p, FALSE, size) = "none"
        /\ Exists(p) = "none"
    BY <1>3, <1>5
  <2>2. size <= FileLimit
    BY <2>1, LargeIs
  <2>3. p \in Seq(Names) /\ p # <<>>
    BY ExtractionAssumption
  <2>4. PICK M : Laid(M, p, FALSE, size, p) /\ WithFile(p, size, p) = disk \cup M
    BY <1>1, <1>2, <2>1, <2>3, LayingFile DEF Balanced
  <2>5. Creates(p, FALSE, size, p)
    BY <1>5, <2>1, <2>4 DEF Creates
  <2>6. Balanced' /\ FilesOK' /\ disk \subseteq disk'
    BY <1>1, <1>2, <2>2, <2>3, <2>5, Making
  <2> HIDE DEF error
  <2>7. ArchiveOK' /\ WalkOK' /\ TakenOK'
    BY <1>1, <1>5 DEF ExtractionInv, ArchiveOK, WalkOK, TakenOK, Guarded, Listed
  <2>8. FailureOK'
    BY <1>1, <1>5 DEF ExtractionInv, FailureOK, Trespassed
  <2>9. LinksAreTheirTargets'
    <3>1. archive.links # {} => archive.destination \in Destinations
      BY DEF ExtractionInv, ArchiveOK
    <3>2. QED
      BY <1>0, <1>1, <1>5, <2>6, <3>1, LinksStay DEF ExtractionInv, ArchiveOK
  <2>10. QED
    BY <1>1, <1>5, <2>6, <2>7, <2>8, <2>9 DEF ExtractionInv, Packing, Balanced
<1>6. QED
  BY <1>4, <1>5 DEF Raw

\* An archive that is opened.
LEMMA OpenStep ==
  ASSUME ExtractionInv, NEW p \in Destinations, NEW format \in {"zip", "tar"},
         Open(p, format)
  PROVE  ExtractionInv' /\ phase' \in {"entries", "failed"}
<1> DEFINE error == First(<<BudgetError(p, TRUE, 0), BelowFile(p)>>)
<1>0. budget'.folds = budget.folds
  <2>1. /\ EmptyBudget(budget.folds).folds = budget.folds
        /\ Reserved(p, TRUE, 0).folds = budget.folds
    BY FoldsStay DEF ExtractionInv
  <2>2. budget' \in {EmptyBudget(budget.folds), Reserved(p, TRUE, 0)}
    BY DEF Open, Fail
  <2>3. QED
    BY <2>1, <2>2
<1>1. /\ IsFiniteSet(taken') /\ Cardinality(taken') <= Artifacts
      /\ taken \subseteq taken' /\ FoldAll[p] \in taken' /\ phase = "package"
      /\ p \in AllPaths
      /\ Slot(Start(p)) = Slot(<<Downloads>>) => Trespassed'
  BY <1>0, NextTaken DEF Open
<1>2. BudgetOK /\ Balanced /\ FilesOK
  BY <1>1 DEF ExtractionInv, Packing
<1>3. error = IF BudgetError(p, TRUE, 0) # "none"
              THEN BudgetError(p, TRUE, 0) ELSE BelowFile(p)
  BY FirstOfTwo
<1>4. CASE error # "none" /\ Fail(error)
  <2>1. error \in {"limit", "collision", "exists"}
    BY <1>3, <1>4, ErrorsAre
  <2>2. error = "exists" => BudgetError(p, TRUE, 0) = "none" /\ BelowFile(p) # "none"
    BY <1>3, <1>4, ErrorsAre
  <2>3. error = "exists" => Trespassed'
    BY <1>0, <1>1, <1>2, <2>2, Refused, MisjudgedStays DEF Trespassed
  <2> HIDE DEF error
  <2>4. error \in Failures
    BY <2>1 DEF Failures
  <2>5. ExtractionInv' /\ phase' = "failed"
    BY <1>1, <1>2, <1>4, <2>1, <2>3, <2>4, Failing
  <2>6. QED
    BY <2>5
<1>5. CASE /\ error = "none" /\ budget' = Reserved(p, TRUE, 0)
           /\ disk' = WithDirectories(Nodes[p]) /\ phase' = "entries"
           /\ archive' = [NoArchive EXCEPT !.destination = p, !.format = format]
           /\ UNCHANGED <<failure, walk>>
  <2>1. BudgetError(p, TRUE, 0) = "none" /\ BelowFile(p) = "none"
    BY <1>3, <1>5
  <2>2. PICK M : Laid(M, p, TRUE, 0, <<>>) /\ WithDirectories(Nodes[p]) = disk \cup M
    BY <1>1, <1>2, <2>1, LayingDirectories DEF Balanced
  <2>3. Creates(p, TRUE, 0, <<>>)
    BY <1>5, <2>1, <2>2 DEF Creates
  <2>4. 0 <= FileLimit
    BY ExtractionAssumption
  <2>5. Balanced' /\ FilesOK'
    BY <1>1, <1>2, <2>3, <2>4, Making
  <2> HIDE DEF error
  <2>6. /\ archive' \in Archives /\ archive'.destination = p /\ archive'.links = {}
        /\ DOMAIN archive'.pending = {} /\ archive'.files = {} /\ archive'.nodes = {}
        /\ archive'.directories = {}
    BY <1>5, NoArchiveIs DEF Archives
  <2>7. Guarded(archive')
    BY <2>6 DEF Guarded
  <2>8. ArchiveOK'
    BY <2>6, <2>7 DEF ArchiveOK, Guarded
  <2>9. WalkOK' /\ TakenOK'
    BY <1>1, <1>5, <2>6 DEF ExtractionInv, WalkOK, TakenOK
  <2>10. FailureOK'
    BY <1>1, <1>5 DEF ExtractionInv, FailureOK, Trespassed
  <2>11. LinksAreTheirTargets'
    BY <1>5 DEF LinksAreTheirTargets
  <2>12. QED
    BY <1>5, <2>5, <2>8, <2>9, <2>10, <2>11 DEF ExtractionInv, Packing, Balanced
<1>6. QED
  BY <1>4, <1>5 DEF Open

\* While entries of an archive are read.
LEMMA Reading ==
  ASSUME ExtractionInv, phase \in {"entries", "links"}, NEW q \in Paths
  PROVE  /\ BudgetOK /\ Balanced /\ FilesOK
         /\ Output(q) \in AllPaths /\ Output(q) \in Seq(Names) /\ Output(q) # <<>>
         /\ Slot(Start(Output(q))) = Slot(<<Downloads>>) => Trespassed
<1>1. /\ archive.destination \in Destinations /\ BudgetOK /\ Balanced /\ FilesOK
      /\ FoldAll[archive.destination] \in taken
  BY DEF ExtractionInv, ArchiveOK, TakenOK, Packing
<1> DEFINE d == archive.destination
<1> HIDE DEF d
<1>2. d \in Destinations /\ FoldAll[d] \in taken
  BY <1>1 DEF d
<1>3. /\ d \o q \in AllPaths /\ Start(d \o q) = Start(d)
      /\ d \o q \in Seq(Names) /\ d \o q # <<>>
  BY <1>2, InArchive
<1>4. d \in AllPaths
  BY <1>2, OutputsArePaths
<1>5. Slot(Start(d)) = Slot(<<Downloads>>) => Trespassed
  BY <1>2, <1>4, Trespassing DEF Trespassed
<1>6. Output(q) = d \o q
  BY DEF Output, d
<1>7. QED
  BY <1>1, <1>3, <1>5, <1>6

\* The parts of the invariant that an entry leaves alone.
LEMMA EntryKeeps ==
  ASSUME ExtractionInv, phase = "entries", UNCHANGED <<phase, failure, walk, taken>>,
         archive'.destination = archive.destination
  PROVE  FailureOK' /\ WalkOK' /\ TakenOK' /\ LinksAreTheirTargets'
BY DEF ExtractionInv, FailureOK, WalkOK, TakenOK, LinksAreTheirTargets, Trespassed

\* A directory in an archive.
LEMMA DirectoryStep ==
  ASSUME ExtractionInv, NEW q \in Paths, DirectoryEntry(q)
  PROVE  ExtractionInv' /\ phase' \in {"entries", "failed"}
<1> DEFINE p == Output(q)
           error == First(<<GuardError(q, TRUE), BudgetError(p, TRUE, 0), BelowFile(p)>>)
<1>1. phase = "entries" /\ archive.count < EntryLimit
  BY DEF DirectoryEntry, NextEntry
<1>2. /\ BudgetOK /\ Balanced /\ FilesOK
      /\ p \in AllPaths /\ p \in Seq(Names) /\ p # <<>>
      /\ Slot(Start(p)) = Slot(<<Downloads>>) => Trespassed
  BY <1>1, Reading
<1>3. \/ error # "none" /\ Refuse(error)
      \/ /\ error = "none" /\ archive' = Entered(q, TRUE)
         /\ budget' = Reserved(p, TRUE, 0)
         /\ disk' = WithDirectories(Nodes[p])
         /\ UNCHANGED <<phase, failure, walk, taken>>
  BY DEF DirectoryEntry
<1> HIDE DEF p
<1>4. error = IF GuardError(q, TRUE) # "none" THEN GuardError(q, TRUE)
              ELSE IF BudgetError(p, TRUE, 0) # "none"
                   THEN BudgetError(p, TRUE, 0) ELSE BelowFile(p)
  BY FirstOfThree
<1>5. CASE error # "none" /\ Refuse(error)
  <2>1. error \in {"limit", "collision", "exists"}
    BY <1>4, <1>5, ErrorsAre
  <2>2. error = "exists" => BudgetError(p, TRUE, 0) = "none" /\ BelowFile(p) # "none"
    BY <1>4, <1>5, ErrorsAre
  <2>3. error = "exists" => Trespassed
    BY <1>2, <2>2, Refused DEF Trespassed
  <2> HIDE DEF error
  <2>4. error \in Failures
    BY <2>1 DEF Failures
  <2>5. ExtractionInv' /\ phase' = "failed"
    BY <1>5, <2>1, <2>3, <2>4, Refusing
  <2>6. QED
    BY <2>5
<1>6. CASE /\ error = "none" /\ archive' = Entered(q, TRUE)
           /\ budget' = Reserved(p, TRUE, 0)
           /\ disk' = WithDirectories(Nodes[p])
           /\ UNCHANGED <<phase, failure, walk, taken>>
  <2>1. /\ GuardError(q, TRUE) = "none" /\ BudgetError(p, TRUE, 0) = "none"
        /\ BelowFile(p) = "none"
    BY <1>4, <1>6
  <2>2. PICK M : Laid(M, p, TRUE, 0, <<>>) /\ WithDirectories(Nodes[p]) = disk \cup M
    BY <1>2, <2>1, LayingDirectories DEF Balanced
  <2>3. Creates(p, TRUE, 0, <<>>)
    BY <1>6, <2>1, <2>2 DEF Creates
  <2>4. 0 <= FileLimit /\ taken \subseteq taken' /\ (Trespassed => Trespassed')
    <3>1. budget'.folds = budget.folds
      BY <1>2, <1>6, FoldsStay
    <3>2. QED
      BY <1>6, <3>1, MisjudgedStays, ExtractionAssumption DEF Trespassed
  <2>5. Balanced' /\ FilesOK'
    BY <1>2, <2>3, <2>4, Making
  <2> HIDE DEF error
  <2>6. archive \in Archives /\ Guarded(archive)
    BY DEF ExtractionInv, ArchiveOK
  <2>7. LET A == Entered(q, TRUE) IN
        /\ A \in Archives /\ Guarded(A)
        /\ A.destination = archive.destination /\ A.pending = archive.pending
        /\ A.files = archive.files /\ A.links = archive.links
        /\ TRUE \/ /\ \E n \in A.nodes : n.path = q /\ ~n.dir
                   /\ \A file \in archive.files : file.path # q
                   /\ \A link \in archive.links : link.from # q
    BY <1>1, <2>1, <2>6, Guarding
  <2>8. /\ archive' \in Archives /\ Guarded(archive')
        /\ archive'.destination = archive.destination
        /\ archive'.pending = archive.pending
        /\ archive'.files = archive.files /\ archive'.links = archive.links
    BY <1>6, <2>7
  <2>9. ArchiveOK'
    <3>1. /\ archive.destination \in Destinations
          /\ \A n \in DOMAIN archive.pending :
               \E link \in archive.links : link.from = archive.pending[n]
          /\ \A link \in archive.links : Listed(archive, link.from)
          /\ \A file \in archive.files : file.size <= FileLimit
      BY <1>1 DEF ExtractionInv, ArchiveOK
    <3>2. \A link \in archive'.links : Listed(archive', link.from)
      BY <2>8, <3>1 DEF Listed
    <3>3. QED
      BY <2>8, <3>1, <3>2 DEF ArchiveOK
  <2>10. FailureOK' /\ WalkOK' /\ TakenOK' /\ LinksAreTheirTargets'
    BY <1>1, <1>6, <2>8, EntryKeeps
  <2>11. QED
    BY <1>1, <1>6, <2>5, <2>9, <2>10 DEF ExtractionInv, Packing, Balanced
<1>7. QED
  BY <1>3, <1>5, <1>6

\* A file in an archive.
LEMMA FileStep ==
  ASSUME ExtractionInv, NEW q \in Paths, NEW size \in Sizes, FileEntry(q, size)
  PROVE  ExtractionInv' /\ phase' \in {"entries", "failed"}
<1> DEFINE p == Output(q)
           file == [path |-> q, size |-> size]
           A == Entered(q, FALSE)
           error == First(<<GuardError(q, FALSE), TooLarge(size),
                            BudgetError(p, FALSE, size), Exists(p)>>)
<1>0. size \in Nat
  BY ExtractionAssumption
<1>1. phase = "entries" /\ archive.count < EntryLimit
  BY DEF FileEntry, NextEntry
<1>2. /\ BudgetOK /\ Balanced /\ FilesOK
      /\ p \in AllPaths /\ p \in Seq(Names) /\ p # <<>>
      /\ Slot(Start(p)) = Slot(<<Downloads>>) => Trespassed
  BY <1>1, Reading
<1>3. \/ error # "none" /\ Refuse(error)
      \/ /\ error = "none"
         /\ archive' = [A EXCEPT !.files = @ \cup {file}]
         /\ budget' = Reserved(p, FALSE, size)
         /\ disk' = WithFile(p, size, p)
         /\ UNCHANGED <<phase, failure, walk, taken>>
  BY DEF FileEntry
<1> HIDE DEF p
<1>4. error = IF GuardError(q, FALSE) # "none" THEN GuardError(q, FALSE)
              ELSE IF TooLarge(size) # "none" THEN TooLarge(size)
              ELSE IF BudgetError(p, FALSE, size) # "none"
                   THEN BudgetError(p, FALSE, size) ELSE Exists(p)
  <2> DEFINE a == GuardError(q, FALSE)
             b == TooLarge(size)
             c == BudgetError(p, FALSE, size)
             d == Exists(p)
  <2> HIDE DEF a, b, c, d
  <2>1. First(<<a, b, c, d>>) = IF a # "none" THEN a ELSE IF b # "none" THEN b
                                ELSE IF c # "none" THEN c ELSE d
    BY FirstOfFour
  <2>2. QED
    BY <2>1 DEF a, b, c, d
<1>5. CASE error # "none" /\ Refuse(error)
  <2>1. error \in {"limit", "collision", "exists"}
    BY <1>4, <1>5, ErrorsAre
  <2>2. error = "exists" => BudgetError(p, FALSE, size) = "none" /\ Exists(p) # "none"
    BY <1>4, <1>5, ErrorsAre
  <2>3. error = "exists" => Trespassed
    BY <1>2, <2>2, Refused DEF Trespassed
  <2> HIDE DEF error
  <2>4. error \in Failures
    BY <2>1 DEF Failures
  <2>5. ExtractionInv' /\ phase' = "failed"
    BY <1>5, <2>1, <2>3, <2>4, Refusing
  <2>6. QED
    BY <2>5
<1>6. CASE /\ error = "none"
           /\ archive' = [A EXCEPT !.files = @ \cup {file}]
           /\ budget' = Reserved(p, FALSE, size)
           /\ disk' = WithFile(p, size, p)
           /\ UNCHANGED <<phase, failure, walk, taken>>
  <2>1. /\ GuardError(q, FALSE) = "none" /\ BudgetError(p, FALSE, size) = "none"
        /\ Exists(p) = "none" /\ TooLarge(size) = "none"
    BY <1>4, <1>6
  <2>2. PICK M : Laid(M, p, FALSE, size, p) /\ WithFile(p, size, p) = disk \cup M
    BY <1>0, <1>2, <2>1, LayingFile DEF Balanced
  <2>3. Creates(p, FALSE, size, p)
    BY <1>6, <2>1, <2>2 DEF Creates
  <2>4. size <= FileLimit /\ taken \subseteq taken' /\ (Trespassed => Trespassed')
    <3>1. budget'.folds = budget.folds
      BY <1>2, <1>6, FoldsStay
    <3>2. QED
      BY <1>0, <1>6, <2>1, <3>1, LargeIs, MisjudgedStays DEF Trespassed
  <2>5. Balanced' /\ FilesOK'
    BY <1>0, <1>2, <2>3, <2>4, Making
  <2> HIDE DEF error
  <2>6. archive \in Archives /\ Guarded(archive)
    BY DEF ExtractionInv, ArchiveOK
  <2>7. LET B == Entered(q, FALSE) IN
        /\ B \in Archives /\ Guarded(B)
        /\ B.destination = archive.destination /\ B.pending = archive.pending
        /\ B.files = archive.files /\ B.links = archive.links
        /\ FALSE \/ /\ \E n \in B.nodes : n.path = q /\ ~n.dir
                    /\ \A g \in archive.files : g.path # q
                    /\ \A link \in archive.links : link.from # q
    BY <1>1, <2>1, <2>6, Guarding
  <2>8. /\ A \in Archives /\ Guarded(A)
        /\ A.destination = archive.destination /\ A.pending = archive.pending
        /\ A.files = archive.files /\ A.links = archive.links
        /\ \E n \in A.nodes : n.path = q /\ ~n.dir
        /\ \A g \in archive.files : g.path # q
        /\ \A link \in archive.links : link.from # q
    BY <2>7
  <2> HIDE DEF A
  <2>9. file \in File /\ file.path = q /\ file.size = size
    BY DEF File
  <2> HIDE DEF file
  <2>10. /\ archive' \in Archives /\ archive'.files = archive.files \cup {file}
         /\ archive'.destination = archive.destination
         /\ archive'.pending = archive.pending /\ archive'.links = archive.links
         /\ archive'.nodes = A.nodes /\ archive'.directories = A.directories
    BY <1>6, <2>8, <2>9 DEF Archives
  <2>11. Guarded(archive')
    BY <2>8, <2>9, <2>10 DEF Guarded
  <2>12. ArchiveOK'
    BY <1>1, <1>6, <2>4, <2>9, <2>10, <2>11 DEF ExtractionInv, ArchiveOK, Listed, Guarded
  <2>13. FailureOK' /\ WalkOK' /\ TakenOK' /\ LinksAreTheirTargets'
    BY <1>1, <1>6, <2>10, EntryKeeps
  <2>14. QED
    BY <1>1, <1>6, <2>5, <2>12, <2>13 DEF ExtractionInv, Packing, Balanced
<1>7. QED
  BY <1>3, <1>5, <1>6

\* Balanced and FilesOK are about the budget, the disk and the destinations.
LEMMA AccountsStay ==
  ASSUME UNCHANGED <<budget, disk, taken>>
  PROVE  (Balanced => Balanced') /\ (FilesOK => FilesOK') /\ (BudgetOK => BudgetOK')
<1>1. /\ \A n : (Top(n)' <=> Top(n)) /\ (InDownloads(n)' <=> InDownloads(n))
      /\ \A m, n : Same(m, n)' <=> Same(m, n)
      /\ DiskOK(disk)' <=> DiskOK(disk)
  BY DEF Top, InDownloads, Same, DiskOK, Slot
<1>2. Trespassed' <=> Trespassed
  BY MisjudgedStays DEF Trespassed
<1>3. (BudgetOK => BudgetOK') /\ (Rooted(disk) => Rooted(disk)')
  BY DEF BudgetOK, Rooted
<1>4. (Accounts => Accounts') /\ (Downloading => Downloading')
  BY <1>1 DEF Accounts, Downloading
<1>5. FilesOK => FilesOK'
  BY <1>1, <1>2 DEF FilesOK
<1>6. QED
  BY <1>1, <1>3, <1>4, <1>5 DEF Balanced

\* A link in an archive.
LEMMA LinkStep ==
  ASSUME ExtractionInv, NEW q \in Paths, NEW text \in LinkTexts, LinkEntry(q, text)
  PROVE  ExtractionInv' /\ phase' \in {"entries", "failed"}
<1> DEFINE format == IF archive.format = "tar" THEN "none" ELSE "link"
           link == [from |-> q, to |-> Resolved(q, text)]
           A == Entered(q, FALSE)
           error == First(<<format, GuardError(q, FALSE), TargetError(q, text)>>)
<1>1. phase = "entries" /\ archive.count < EntryLimit
  BY DEF LinkEntry, NextEntry
<1>2. \/ error # "none" /\ Refuse(error)
      \/ /\ error = "none"
         /\ archive' = [A EXCEPT !.links = @ \cup {link}, !.pending = Append(@, q)]
         /\ UNCHANGED <<phase, failure, budget, walk, taken, disk>>
  BY DEF LinkEntry
<1>3. error = IF format # "none" THEN format
              ELSE IF GuardError(q, FALSE) # "none" THEN GuardError(q, FALSE)
              ELSE TargetError(q, text)
  <2> DEFINE b == GuardError(q, FALSE)
             c == TargetError(q, text)
  <2> HIDE DEF format, b, c
  <2>1. First(<<format, b, c>>) = IF format # "none" THEN format
                                  ELSE IF b # "none" THEN b ELSE c
    BY FirstOfThree
  <2>2. QED
    BY <2>1 DEF b, c
<1>4. CASE error # "none" /\ Refuse(error)
  <2>1. error \in {"link", "collision"}
    BY <1>3, <1>4, ErrorsAre
  <2> HIDE DEF error
  <2>2. error \in Failures
    BY <2>1 DEF Failures
  <2>3. QED
    BY <1>4, <2>1, <2>2, Refusing
<1>5. CASE /\ error = "none"
           /\ archive' = [A EXCEPT !.links = @ \cup {link}, !.pending = Append(@, q)]
           /\ UNCHANGED <<phase, failure, budget, walk, taken, disk>>
  <2>1. GuardError(q, FALSE) = "none" /\ TargetError(q, text) = "none"
    BY <1>3, <1>5
  <2>2. Resolved(q, text) \in Seq(Names)
    BY <2>1, ResolvedIs DEF TargetError
  <2> HIDE DEF error, format
  <2>3. archive \in Archives /\ Guarded(archive)
    BY DEF ExtractionInv, ArchiveOK
  <2>4. LET B == Entered(q, FALSE) IN
        /\ B \in Archives /\ Guarded(B)
        /\ B.destination = archive.destination /\ B.pending = archive.pending
        /\ B.files = archive.files /\ B.links = archive.links
        /\ FALSE \/ /\ \E n \in B.nodes : n.path = q /\ ~n.dir
                    /\ \A g \in archive.files : g.path # q
                    /\ \A k \in archive.links : k.from # q
    BY <1>1, <2>1, <2>3, Guarding
  <2>5. /\ A \in Archives /\ Guarded(A)
        /\ A.destination = archive.destination /\ A.pending = archive.pending
        /\ A.files = archive.files /\ A.links = archive.links
        /\ \E n \in A.nodes : n.path = q /\ ~n.dir
        /\ \A g \in archive.files : g.path # q
        /\ \A k \in archive.links : k.from # q
    BY <2>4
  <2> HIDE DEF A
  <2>6. link \in Link /\ link.from = q
    BY <2>2 DEF Link
  <2> HIDE DEF link
  <2>7. archive.pending \in Seq(Paths)
    BY <2>3 DEF Archives
  <2>8. /\ Append(archive.pending, q) \in Seq(Paths)
        /\ DOMAIN Append(archive.pending, q) = 1..(Len(archive.pending) + 1)
        /\ Append(archive.pending, q)[Len(archive.pending) + 1] = q
        /\ \A n \in 1..Len(archive.pending) :
             Append(archive.pending, q)[n] = archive.pending[n]
        /\ Len(archive.pending) \in Nat
        /\ DOMAIN archive.pending = 1..Len(archive.pending)
    BY <2>7
  <2>9. /\ archive' \in Archives /\ archive'.links = archive.links \cup {link}
        /\ archive'.pending = Append(archive.pending, q)
        /\ archive'.destination = archive.destination
        /\ archive'.files = archive.files
        /\ archive'.nodes = A.nodes /\ archive'.directories = A.directories
    BY <1>5, <2>5, <2>6, <2>8 DEF Archives
  <2>10. Guarded(archive')
    BY <2>5, <2>6, <2>9 DEF Guarded
  <2>11. ASSUME NEW n \in DOMAIN archive'.pending
         PROVE  \E k \in archive'.links : k.from = archive'.pending[n]
    <3>1. CASE n = Len(archive.pending) + 1
      BY <2>6, <2>8, <2>9, <3>1
    <3>2. CASE n # Len(archive.pending) + 1
      <4>1. n \in 1..Len(archive.pending)
        BY <2>8, <2>9, <3>2
      <4>2. PICK k \in archive.links : k.from = archive.pending[n]
        BY <2>8, <4>1 DEF ExtractionInv, ArchiveOK
      <4>3. QED
        BY <2>8, <2>9, <4>1, <4>2
    <3>3. QED
      BY <3>1, <3>2
  <2>12. ASSUME NEW k \in archive'.links
         PROVE  Listed(archive', k.from)
    <3>1. CASE k = link
      <4>1. Len(archive.pending) + 1 \in DOMAIN archive'.pending
        BY <2>8, <2>9
      <4>2. QED
        BY <2>6, <2>8, <2>9, <3>1, <4>1 DEF Listed
    <3>2. CASE k \in archive.links
      <4>1. PICK n \in DOMAIN archive.pending : archive.pending[n] = k.from
        BY <1>1, <3>2 DEF ExtractionInv, ArchiveOK, Listed
      <4>2. n \in DOMAIN archive'.pending /\ archive'.pending[n] = k.from
        BY <2>8, <2>9, <4>1
      <4>3. QED
        BY <4>2 DEF Listed
    <3>3. QED
      BY <2>9, <3>1, <3>2
  <2>13. archive.destination \in Destinations
    BY <1>1 DEF ExtractionInv, ArchiveOK
  <2>14. \A file \in archive'.files : file.size <= FileLimit
    BY <2>9 DEF ExtractionInv, ArchiveOK
  <2>15. ArchiveOK'
    BY <2>9, <2>10, <2>11, <2>12, <2>13, <2>14 DEF ArchiveOK, Guarded, Listed
  <2>16. FailureOK' /\ WalkOK' /\ TakenOK' /\ LinksAreTheirTargets'
    BY <1>1, <1>5, <2>9, EntryKeeps
  <2>17. Balanced' /\ FilesOK' /\ BudgetOK'
    BY <1>1, <1>5, AccountsStay DEF ExtractionInv, Packing
  <2>18. QED
    BY <1>1, <1>5, <2>15, <2>16, <2>17 DEF ExtractionInv
<1>6. QED
  BY <1>2, <1>4, <1>5

\* What needs no path, and the end of the entries.
LEMMA OtherEntryStep ==
  ASSUME ExtractionInv, TooManyEntries \/ SpecialEntry \/ CommentEntry \/ EndOfArchive
  PROVE  ExtractionInv' /\ phase' \in {"package", "entries", "links", "failed"}
<1>1. phase = "entries"
  BY DEF TooManyEntries, SpecialEntry, CommentEntry, EndOfArchive, NextEntry
<1>2. CASE TooManyEntries \/ SpecialEntry
  <2>1. Refuse("limit") \/ Refuse("special")
    BY <1>2 DEF TooManyEntries, SpecialEntry
  <2>2. "limit" \in Failures /\ "special" \in Failures
    BY DEF Failures
  <2>3. QED
    BY <2>1, <2>2, Refusing
<1>3. CASE CommentEntry
  <2>1. /\ archive.count < EntryLimit
        /\ archive' = [archive EXCEPT !.count = @ + 1]
        /\ UNCHANGED <<phase, failure, budget, walk, taken, disk>>
    BY <1>3 DEF CommentEntry, NextEntry
  <2>2. archive \in Archives /\ EntryLimit \in Nat
    BY ExtractionAssumption DEF ExtractionInv, ArchiveOK
  <2>3. archive.count + 1 \in 0..EntryLimit
    BY <2>1, <2>2 DEF Archives
  <2>4. /\ archive' \in Archives /\ archive'.destination = archive.destination
        /\ archive'.pending = archive.pending /\ archive'.files = archive.files
        /\ archive'.links = archive.links /\ archive'.nodes = archive.nodes
        /\ archive'.directories = archive.directories
    BY <2>1, <2>2, <2>3 DEF Archives
  <2>5. ArchiveOK'
    BY <2>1, <2>4 DEF ExtractionInv, ArchiveOK, Guarded, Listed
  <2>6. FailureOK' /\ WalkOK' /\ TakenOK' /\ LinksAreTheirTargets'
    BY <1>1, <2>1, <2>4, EntryKeeps
  <2>7. Balanced' /\ FilesOK' /\ BudgetOK'
    BY <1>1, <2>1, AccountsStay DEF ExtractionInv, Packing
  <2>8. QED
    BY <1>1, <2>1, <2>5, <2>6, <2>7 DEF ExtractionInv
<1>4. CASE EndOfArchive
  <2>1. Resume(archive.pending) /\ UNCHANGED <<failure, budget, archive, taken, disk>>
    BY <1>4 DEF EndOfArchive
  <2>2. Balanced' /\ FilesOK' /\ BudgetOK'
    BY <1>1, <2>1, AccountsStay DEF ExtractionInv, Packing
  <2>3. phase' \in {"package", "links"}
    BY <2>1 DEF Resume
  <2>4. ArchiveOK'
    BY <1>1, <2>1, <2>3 DEF ExtractionInv, ArchiveOK, Guarded, Listed
  <2>5. FailureOK' /\ TakenOK'
    BY <1>1, <2>1, <2>3 DEF ExtractionInv, FailureOK, TakenOK, Trespassed
  <2>6. LinksAreTheirTargets'
    BY <1>1, <2>1 DEF ExtractionInv, ArchiveOK, Listed, LinksAreTheirTargets
  <2>7. WalkOK'
    <3>1. CASE archive.pending = <<>>
      BY <2>1, <3>1 DEF Resume, NoWalk, WalkOK
    <3>2. CASE archive.pending # <<>>
      <4>1. archive.pending \in Seq(Paths)
        BY DEF ExtractionInv, ArchiveOK, Archives
      <4>2. Head(archive.pending) \in Paths /\ Head(archive.pending) = archive.pending[1]
            /\ 1 \in DOMAIN archive.pending
        BY <3>2, <4>1
      <4>3. walk' = [at |-> Head(archive.pending), visited |-> {}]
        BY <2>1, <3>2 DEF Resume
      <4>4. \E link \in archive.links : link.from = Head(archive.pending)
        BY <4>2 DEF ExtractionInv, ArchiveOK
      <4>5. QED
        BY <2>1, <3>2, <4>2, <4>3, <4>4 DEF WalkOK
    <3>3. QED
      BY <3>1, <3>2
  <2>8. QED
    BY <2>2, <2>3, <2>4, <2>5, <2>6, <2>7 DEF ExtractionInv
<1>5. QED
  BY <1>2, <1>3, <1>4

\* The link at which the walk is, and the only one there.
LEMMA WalkIs ==
  ASSUME ExtractionInv, phase = "links"
  PROVE  \E link \in archive.links :
           /\ link.from = walk.at /\ Target = link.to
           /\ \A k \in archive.links : k.from = walk.at => k = link
<1>1. \E link \in archive.links : link.from = walk.at
  BY DEF ExtractionInv, WalkOK
<1> DEFINE link == CHOOSE link \in archive.links : link.from = walk.at
<1>2. link \in archive.links /\ link.from = walk.at
  BY <1>1
<1>3. Target = link.to
  BY DEF Target
<1>4. \A j, k \in archive.links : j.from = k.from => j = k
  BY DEF ExtractionInv, ArchiveOK, Guarded
<1> HIDE DEF link
<1>5. QED
  BY <1>2, <1>3, <1>4

\* A chain of links is followed.
LEMMA FollowStep ==
  ASSUME ExtractionInv, Follow
  PROVE  ExtractionInv' /\ phase' = "links"
<1>1. /\ phase = "links" /\ \A file \in archive.files : file.path # Target
      /\ \E link \in archive.links : link.from = Target
      /\ walk' = [at |-> Target, visited |-> walk.visited \cup {walk.at}]
      /\ UNCHANGED <<phase, failure, budget, archive, taken, disk>>
  BY DEF Follow
<1>2. PICK link \in archive.links :
        /\ link.from = walk.at /\ Target = link.to
        /\ \A k \in archive.links : k.from = walk.at => k = link
  BY <1>1, WalkIs
<1>3. PICK next \in archive.links : next.from = Target
  BY <1>1
<1>4. Target \in Paths /\ walk.at \in Paths
  BY <1>2, <1>3 DEF ExtractionInv, ArchiveOK, Archives, Link
<1>5. WalkOK'
  <2>1. walk' \in [at: Paths \cup {<<>>}, visited: SUBSET Paths]
    BY <1>1, <1>4 DEF ExtractionInv, WalkOK
  <2>2. /\ archive'.pending # <<>>
        /\ Head(archive.pending) \in walk'.visited \cup {walk'.at}
    BY <1>1 DEF ExtractionInv, WalkOK
  <2>3. ASSUME NEW k \in archive.links, k.from \in walk'.visited
        PROVE  /\ k.to \in walk'.visited \cup {walk'.at}
               /\ \A file \in archive.files : file.path # k.to
    <3>1. CASE k.from = walk.at
      BY <1>1, <1>2, <3>1
    <3>2. CASE k.from # walk.at
      <4>1. k.from \in walk.visited
        BY <1>1, <2>3, <3>2
      <4>2. QED
        BY <1>1, <4>1 DEF ExtractionInv, WalkOK
    <3>3. QED
      BY <3>1, <3>2
  <2>4. ASSUME NEW C \in SUBSET {k.to : k \in archive.links},
               \A k \in archive.links :
                 k.from \in C \cup {Head(archive.pending)} => k.to \in C
        PROVE  Target \in C
    <3>1. walk.at \in C \cup {Head(archive.pending)}
      BY <1>1, <2>4 DEF ExtractionInv, WalkOK
    <3>2. QED
      BY <1>2, <2>4, <3>1
  <2>5. QED
    BY <1>1, <1>3, <2>1, <2>2, <2>3, <2>4 DEF WalkOK
<1>6. Balanced' /\ FilesOK' /\ BudgetOK'
  BY <1>1, AccountsStay DEF ExtractionInv, Packing
<1>7. ArchiveOK' /\ TakenOK' /\ FailureOK'
  BY <1>1 DEF ExtractionInv, ArchiveOK, Guarded, Listed, TakenOK, FailureOK, Trespassed
<1>8. LinksAreTheirTargets'
  <2>1. \A p, q : LinksTo(p, q)' <=> LinksTo(p, q)
    BY <1>1, LinksToStays
  <2>2. \A p : OnDisk(p)' = OnDisk(p)
    BY <1>1 DEF OnDisk, Slot
  <2>3. QED
    BY <1>1, <2>1, <2>2 DEF ExtractionInv, LinksAreTheirTargets, Output
<1>9. QED
  BY <1>1, <1>5, <1>6, <1>7, <1>8 DEF ExtractionInv

\* A link that is refused has no file at the end of its chain.
LEMMA RefusedLinks ==
  ASSUME ExtractionInv, phase = "links", LeadsNowhere, NEW file \in archive.files
  PROVE  ~LinksTo(Head(archive.pending), file.path)
<1> DEFINE V == walk.visited
           seen == {k \in archive.links : k.from \in V \cup {walk.at}}
           C == {k.to : k \in seen}
<1>1. PICK link \in archive.links :
        /\ link.from = walk.at /\ Target = link.to
        /\ \A k \in archive.links : k.from = walk.at => k = link
  BY WalkIs
<1>2. /\ Head(archive.pending) \in V \cup {walk.at}
      /\ \A k \in archive.links : k.from \in V =>
           /\ k.to \in V \cup {walk.at}
           /\ \A g \in archive.files : g.path # k.to
  BY DEF ExtractionInv, WalkOK
<1>3. /\ \A m, n \in archive.nodes : m.path = n.path => m = n
      /\ \A g \in archive.files : \E n \in archive.nodes : n.path = g.path /\ ~n.dir
      /\ \A k \in archive.links : \E n \in archive.nodes : n.path = k.from /\ ~n.dir
      /\ \A q \in archive.directories : \E n \in archive.nodes : n.path = q /\ n.dir
  BY DEF ExtractionInv, ArchiveOK, Guarded
<1>4. C \in SUBSET {k.to : k \in archive.links}
  OBVIOUS
<1>5. CASE walk.at \in V
  <2>1. \A k \in seen : k.to \in V /\ \A g \in archive.files : g.path # k.to
    BY <1>2, <1>5
  <2>2. \A k \in archive.links :
          k.from \in C \cup {Head(archive.pending)} => k.to \in C
    BY <1>2, <1>5, <2>1
  <2>3. file.path \notin C
    BY <2>1
  <2>4. QED
    BY <1>4, <2>2, <2>3 DEF LinksTo
<1>6. CASE walk.at \notin V
  <2>1. /\ \A g \in archive.files : g.path # Target
        /\ \A k \in archive.links : k.from # Target
    <3>1. CASE Target \in archive.directories
      BY <1>3, <3>1
    <3>2. CASE /\ \A g \in archive.files : g.path # Target
               /\ \A k \in archive.links : k.from # Target
      BY <3>2
    <3>3. QED
      BY <1>6, <3>1, <3>2 DEF LeadsNowhere
  <2>2. \A k \in seen : /\ k.to \in V \cup {walk.at, Target}
                        /\ \A g \in archive.files : g.path # k.to
    BY <1>1, <1>2, <2>1
  <2>3. \A k \in archive.links :
          k.from \in C \cup {Head(archive.pending)} => k.to \in C
    BY <1>2, <2>1, <2>2
  <2>4. file.path \notin C
    BY <2>2
  <2>5. QED
    BY <1>4, <2>3, <2>4 DEF LinksTo
<1>7. QED
  BY <1>5, <1>6

\* It is refused for good.
LEMMA UnresolvedStep ==
  ASSUME ExtractionInv, Unresolved
  PROVE  ExtractionInv' /\ phase' = "failed"
<1>1. Refuse("unresolved") /\ "unresolved" \in Failures
  BY DEF Unresolved, Failures
<1>2. QED
  BY <1>1, Refusing

\* What its chain of links leads to is where the walk of a link is.
LEMMA WalkLeads ==
  ASSUME ExtractionInv, phase = "links"
  PROVE  LinksTo(Head(archive.pending), Target)
<1>1. PICK link \in archive.links : link.from = walk.at /\ Target = link.to
  BY WalkIs
<1>2. ASSUME NEW C \in SUBSET {k.to : k \in archive.links},
             \A k \in archive.links :
               k.from \in C \cup {Head(archive.pending)} => k.to \in C
      PROVE  Target \in C
  <2>1. walk.at \in C \cup {Head(archive.pending)}
    BY <1>2 DEF ExtractionInv, WalkOK
  <2>2. QED
    BY <1>1, <1>2, <2>1
<1>3. QED
  BY <1>2 DEF LinksTo

\* The copy of what a link leads to.
LEMMA CopyStep ==
  ASSUME ExtractionInv, CopyTarget
  PROVE  ExtractionInv' /\ phase' \in {"package", "links", "failed"}
<1> DEFINE s == archive.pending
           q == Head(s)
           p == Output(q)
<1>1. phase = "links" /\ s \in Seq(Paths) /\ s # <<>>
  BY DEF CopyTarget, ExtractionInv, ArchiveOK, Archives, WalkOK
<1>2. /\ q \in Paths /\ Tail(s) \in Seq(Paths) /\ q = s[1] /\ 1 \in DOMAIN s
      /\ \A n \in DOMAIN s : n # 1 => n - 1 \in DOMAIN Tail(s) /\ Tail(s)[n - 1] = s[n]
      /\ \A n \in DOMAIN Tail(s) : n + 1 \in DOMAIN s /\ Tail(s)[n] = s[n + 1]
  BY <1>1
<1>3. PICK file \in archive.files :
        /\ file.path = Target
        /\ LET error == First(<<BudgetError(p, FALSE, file.size), Exists(p)>>) IN
           \/ error # "none" /\ Refuse(error)
           \/ /\ error = "none"
              /\ budget' = Reserved(p, FALSE, file.size)
              /\ disk' = WithFile(p, file.size, Output(file.path))
              /\ archive' = [archive EXCEPT !.pending = Tail(@)]
              /\ Resume(Tail(archive.pending))
              /\ UNCHANGED <<failure, taken>>
  BY DEF CopyTarget
<1> DEFINE size == file.size
           of == Output(file.path)
           error == First(<<BudgetError(p, FALSE, size), Exists(p)>>)
<1>4. file.path \in Paths /\ size \in Nat /\ size <= FileLimit
  <2>1. file \in File
    BY DEF ExtractionInv, ArchiveOK, Archives
  <2>2. QED
    BY <2>1, ExtractionAssumption DEF File, ExtractionInv, ArchiveOK
<1>5. /\ BudgetOK /\ Balanced /\ FilesOK
      /\ p \in AllPaths /\ p \in Seq(Names) /\ p # <<>>
      /\ Slot(Start(p)) = Slot(<<Downloads>>) => Trespassed
  BY <1>1, <1>2, Reading
<1>6. of \in Seq(Names) /\ of # <<>>
  BY <1>1, <1>4, Reading
<1>7. \/ error # "none" /\ Refuse(error)
      \/ /\ error = "none"
         /\ budget' = Reserved(p, FALSE, size)
         /\ disk' = WithFile(p, size, of)
         /\ archive' = [archive EXCEPT !.pending = Tail(s)]
         /\ Resume(Tail(s))
         /\ UNCHANGED <<failure, taken>>
  BY <1>3
<1>8. error = IF BudgetError(p, FALSE, size) # "none"
              THEN BudgetError(p, FALSE, size) ELSE Exists(p)
  BY FirstOfTwo
<1>9. LinksTo(q, file.path)
  BY <1>1, <1>3, WalkLeads
<1>10. /\ p = archive.destination \o q
       /\ of = archive.destination \o file.path
  BY DEF Output
<1> HIDE DEF p, q, s, size, of
<1>11. CASE error # "none" /\ Refuse(error)
  <2>1. error \in {"limit", "collision", "exists"}
    BY <1>8, <1>11, ErrorsAre
  <2>2. error = "exists" => BudgetError(p, FALSE, size) = "none" /\ Exists(p) # "none"
    BY <1>8, <1>11, ErrorsAre
  <2>3. error = "exists" => Trespassed
    BY <1>5, <2>2, Refused DEF Trespassed
  <2> HIDE DEF error
  <2>4. error \in Failures
    BY <2>1 DEF Failures
  <2>5. ExtractionInv' /\ phase' = "failed"
    BY <1>11, <2>1, <2>3, <2>4, Refusing
  <2>6. QED
    BY <2>5
<1>12. CASE /\ error = "none"
            /\ budget' = Reserved(p, FALSE, size)
            /\ disk' = WithFile(p, size, of)
            /\ archive' = [archive EXCEPT !.pending = Tail(s)]
            /\ Resume(Tail(s))
            /\ UNCHANGED <<failure, taken>>
  <2>1. BudgetError(p, FALSE, size) = "none" /\ Exists(p) = "none"
    BY <1>8, <1>12
  <2> HIDE DEF error
  <2>2. PICK M : Laid(M, p, FALSE, size, of) /\ WithFile(p, size, of) = disk \cup M
    BY <1>4, <1>5, <1>6, <2>1, LayingFile DEF Balanced, size
  <2>3. Creates(p, FALSE, size, of)
    BY <1>12, <2>1, <2>2 DEF Creates
  <2>0. budget'.folds = budget.folds
    BY <1>5, <1>12, FoldsStay
  <2>4. taken \subseteq taken' /\ (Trespassed => Trespassed')
    BY <1>12, <2>0, MisjudgedStays DEF Trespassed
  <2>5. Balanced' /\ FilesOK' /\ disk \subseteq disk'
    <3>1. size \in Nat /\ size <= FileLimit
      BY <1>4 DEF size
    <3>2. QED
      BY <1>5, <1>6, <2>3, <2>4, <3>1, Making
  <2>6. archive \in Archives
    BY DEF ExtractionInv, ArchiveOK
  <2>7. /\ archive' \in Archives /\ archive'.pending = Tail(s)
        /\ archive'.destination = archive.destination
        /\ archive'.files = archive.files /\ archive'.links = archive.links
        /\ archive'.nodes = archive.nodes /\ archive'.directories = archive.directories
    BY <1>2, <1>12, <2>6 DEF Archives
  <2>8. phase' = (IF Tail(s) = <<>> THEN "package" ELSE "links")
        /\ walk' = IF Tail(s) = <<>> THEN NoWalk ELSE [at |-> Head(Tail(s)), visited |-> {}]
    BY <1>12 DEF Resume
  <2>9. \A n \in DOMAIN Tail(s) : \E link \in archive.links : link.from = Tail(s)[n]
    <3>1. \A n \in DOMAIN s : \E link \in archive.links : link.from = s[n]
      BY DEF ExtractionInv, ArchiveOK, s
    <3>2. QED
      BY <1>2, <3>1
  <2>10. ArchiveOK'
    <3>1. Guarded(archive')
      BY <2>7 DEF ExtractionInv, ArchiveOK, Guarded
    <3>2. archive.destination \in Destinations
      BY <1>1 DEF ExtractionInv, ArchiveOK
    <3>3. \A g \in archive.files : g.size <= FileLimit
      BY DEF ExtractionInv, ArchiveOK
    <3>4. phase' # "entries"
      BY <2>8
    <3>5. QED
      BY <2>7, <2>9, <3>1, <3>2, <3>3, <3>4 DEF ArchiveOK
  <2>11. WalkOK'
    <3>1. CASE Tail(s) = <<>>
      BY <2>8, <3>1 DEF NoWalk, WalkOK
    <3>2. CASE Tail(s) # <<>>
      <4>1. Tail(s) \in Seq(Paths)
        BY <1>2
      <4>2. Head(Tail(s)) \in Paths /\ Head(Tail(s)) = Tail(s)[1] /\ 1 \in DOMAIN Tail(s)
        BY <3>2, <4>1
      <4>3. walk' = [at |-> Head(Tail(s)), visited |-> {}]
        BY <2>8, <3>2
      <4>4. \E link \in archive.links : link.from = Head(Tail(s))
        BY <2>9, <4>2
      <4>5. QED
        BY <2>7, <3>2, <4>2, <4>3, <4>4 DEF WalkOK
    <3>3. QED
      BY <3>1, <3>2
  <2>12. FailureOK' /\ TakenOK'
    BY <1>1, <1>12, <2>7, <2>8 DEF ExtractionInv, FailureOK, TakenOK, Trespassed
  <2>13. \A j, k : LinksTo(j, k)' <=> LinksTo(j, k)
    BY <2>7, LinksToStays
  <2>14. PICK made \in disk' : /\ Slot(made.path) = Slot(p) /\ ~made.dir
                              /\ made.size = size /\ made.of = of
    <3>1. DiskOK(disk) /\ p \in Nodes[p] /\ OnDisk(p) = {}
      BY <1>5, <2>1, NodesAre DEF Balanced, Exists
    <3>2. PICK m \in M : m.path = Located(p)
      BY <2>2, <3>1 DEF Laid
    <3>3. Slot(m.path) = Slot(p)
      BY <1>5, <3>1, <3>2, LocatedIs
    <3>4. Makes(m, p, p, FALSE, size, of)
      <4>1. \A k \in M : \A r \in Nodes[p] :
              Slot(k.path) = Slot(r) => Makes(k, r, p, FALSE, size, of)
        BY <1>5, <2>2, <3>1, LaidIsNew
      <4>2. QED
        BY <3>1, <3>3, <4>1
    <3>5. QED
      BY <1>12, <2>2, <3>3, <3>4 DEF Makes
  <2>15. ASSUME NEW link \in archive.links
         PROVE  \/ \E n \in DOMAIN Tail(s) : Tail(s)[n] = link.from
                \/ \E g \in archive.files, n \in disk' :
                     /\ LinksTo(link.from, g.path)
                     /\ Slot(n.path) = Slot(archive.destination \o link.from) /\ ~n.dir
                     /\ n.of = archive.destination \o g.path /\ n.size = g.size
    <3>1. CASE \E n \in DOMAIN s : s[n] = link.from
      <4>1. PICK n \in DOMAIN s : s[n] = link.from
        BY <3>1
      <4>2. CASE n = 1
        <5>1. link.from = q
          BY <1>2, <4>1, <4>2
        <5>2. /\ LinksTo(link.from, file.path)
              /\ Slot(made.path) = Slot(archive.destination \o link.from)
              /\ ~made.dir
              /\ made.of = archive.destination \o file.path /\ made.size = file.size
          BY <1>9, <1>10, <2>14, <5>1 DEF size
        <5>3. QED
          BY <5>2
      <4>3. CASE n # 1
        <5>1. n - 1 \in DOMAIN Tail(s) /\ Tail(s)[n - 1] = s[n]
          BY <1>2, <4>1, <4>3
        <5>2. QED
          BY <4>1, <5>1
      <4>4. QED
        BY <4>2, <4>3
    <3>2. CASE \E g \in archive.files, n \in disk :
                 /\ LinksTo(link.from, g.path)
                 /\ n \in OnDisk(Output(link.from)) /\ ~n.dir
                 /\ n.of = Output(g.path) /\ n.size = g.size
      BY <2>5, <3>2 DEF Output, OnDisk
    <3>3. QED
      BY <1>1, <3>1, <3>2 DEF ExtractionInv, LinksAreTheirTargets, s
  <2>16. LinksAreTheirTargets'
    <3>1. ASSUME NEW link \in archive'.links
          PROVE  \/ \E n \in DOMAIN archive'.pending : archive'.pending[n] = link.from
                 \/ \E g \in archive'.files, n \in disk' :
                      /\ LinksTo(link.from, g.path)'
                      /\ Slot(n.path) = Slot(archive'.destination \o link.from) /\ ~n.dir
                      /\ n.of = archive'.destination \o g.path /\ n.size = g.size
      <4>1. link \in archive.links
        BY <2>7
      <4>2. CASE \E n \in DOMAIN Tail(s) : Tail(s)[n] = link.from
        BY <2>7, <4>2
      <4>3. CASE \E g \in archive.files, n \in disk' :
                   /\ LinksTo(link.from, g.path)
                   /\ Slot(n.path) = Slot(archive.destination \o link.from) /\ ~n.dir
                   /\ n.of = archive.destination \o g.path /\ n.size = g.size
        <5>1. PICK g \in archive.files, n \in disk' :
                /\ LinksTo(link.from, g.path)
                /\ Slot(n.path) = Slot(archive.destination \o link.from) /\ ~n.dir
                /\ n.of = archive.destination \o g.path /\ n.size = g.size
          BY <4>3
        <5>2. LinksTo(link.from, g.path)'
          BY <2>13, <5>1
        <5>3. QED
          BY <2>7, <5>1, <5>2
      <4>4. QED
        BY <2>15, <4>1, <4>2, <4>3
    <3>2. \A r : Slot(r)' = Slot(r)
      BY <2>0, SlotsStay
    <3>3. QED
      BY <3>1, <3>2 DEF LinksAreTheirTargets, Output, OnDisk
  <2>17. QED
    BY <2>5, <2>8, <2>10, <2>11, <2>12, <2>16 DEF ExtractionInv, Packing, Balanced
<1>13. QED
  BY <1>7, <1>11, <1>12

\* An entry of an archive, or a link at its end.
LEMMA EntryStep ==
  ASSUME ExtractionInv, Entry
  PROVE  /\ ExtractionInv' /\ phase \in {"entries", "links"}
         /\ phase' \in {"package", "entries", "links", "failed"}
<1>1. phase \in {"entries", "links"}
  BY DEF Entry, DirectoryEntry, FileEntry, LinkEntry, NextEntry, TooManyEntries,
     SpecialEntry, CommentEntry, EndOfArchive, Follow, CopyTarget, Unresolved
<1>2. QED
  BY <1>1, DirectoryStep, FileStep, LinkStep, OtherEntryStep, FollowStep, CopyStep,
     UnresolvedStep DEF Entry

\* At first there is .downloads.
LEMMA EmptyPackage ==
  ASSUME ExtractionInit
  PROVE  ExtractionInv
<1> DEFINE R == [path |-> <<Downloads>>, dir |-> TRUE, size |-> 0, of |-> <<>>]
<1>1. /\ phase = "package" /\ failure = "none" /\ archive = NoArchive /\ walk = NoWalk
      /\ taken = {} /\ disk = {R}
      /\ \E folds \in BOOLEAN : budget = EmptyBudget(folds)
  BY DEF ExtractionInit
<1>2. R \in Stored /\ R.dir /\ R.size = 0 /\ R.of = <<>> /\ R.path = <<Downloads>>
  BY DownloadsArePaths DEF Stored
<1>3. Top(R)
  BY <1>2, DownloadsArePaths, Tops
<1> HIDE DEF R
<1>4. IsFiniteSet({}) /\ Cardinality({}) = 0
  BY FS_EmptySet
<1>5. /\ EntryLimit \in Nat /\ ByteLimit \in Nat /\ FileLimit \in Nat
      /\ Artifacts \in Nat
  BY ExtractionAssumption
<1>6. /\ budget \in Budgets /\ budget.nodes = {} /\ budget.entries = 0
      /\ budget.bytes = 0
  BY <1>1, <1>5 DEF EmptyBudget, Budgets
<1>7. BudgetOK
  BY <1>4, <1>6 DEF BudgetOK, Rooted
<1>8. IsFiniteSet(disk)
  BY <1>1, FS_Singleton
<1>9. DiskOK(disk)
  BY <1>1, <1>2, <1>8 DEF DiskOK
<1>21. Rooted(disk)
  <2>1. Parents(<<Downloads>>) = {}
    <3>1. SUFFICES ASSUME NEW q \in Parents(<<Downloads>>)
                   PROVE  FALSE
      OBVIOUS
    <3>2. <<Downloads>> \in AllPaths /\ Len(<<Downloads>>) = 1
      BY DownloadsArePaths
    <3> DEFINE d == <<Downloads>>
    <3> HIDE DEF d
    <3>3. d \in AllPaths /\ Len(d) = 1 /\ q \in Nodes[d] /\ q # d
      BY <3>2 DEF Parents, d
    <3>4. Len(q) = 1 /\ q = SubSeq(d, 1, 1)
      BY <3>3, NodesAre
    <3>5. Start(d) = d
      BY <3>3, Starts
    <3>6. QED
      BY <3>3, <3>4, <3>5 DEF Start
  <2>2. QED
    BY <1>1, <1>2, <2>1 DEF Rooted
<1>10. Filed(disk) = {R}
  BY <1>1, <1>2 DEF Filed
<1>11. Size({R}) = 0
  <2>1. Sized({}) /\ Size({}) = 0
    BY <1>4, SizeOfNothing DEF Sized
  <2>2. IsFiniteSet({R}) /\ \A z \in {R} : z.size = 0
    BY <1>2, FS_Singleton
  <2>3. Size({} \cup {R}) = Size({})
    BY <2>1, <2>2, SizeOfEmpties
  <2>4. {} \cup {R} = {R}
    OBVIOUS
  <2>5. QED
    BY <2>1, <2>3, <2>4
<1>12. Accounts
  BY <1>3, <1>6, <1>10, <1>11 DEF Accounts
<1>13. Downloading
  BY <1>1, <1>2 DEF Downloading, R
<1>14. FilesOK
  BY <1>2, <1>5, <1>10 DEF FilesOK
<1>15. ArchiveOK
  BY <1>1, NoArchiveIs DEF ArchiveOK
<1>16. WalkOK
  BY <1>1 DEF WalkOK, NoWalk
<1>17. TakenOK
  BY <1>1, <1>4, <1>5 DEF TakenOK
<1>18. FailureOK
  BY <1>1 DEF FailureOK, Failures
<1>19. LinksAreTheirTargets
  BY <1>1, NoArchiveIs DEF LinksAreTheirTargets
<1>20. QED
  BY <1>7, <1>9, <1>21, <1>12, <1>13, <1>14, <1>15, <1>16, <1>17, <1>18, <1>19
     DEF ExtractionInv, Balanced
=============================================================================
