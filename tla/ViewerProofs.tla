---------------------------- MODULE ViewerProofs ----------------------------
(***************************************************************************)
(* Theorems about Viewer, for any databases, threads, texts and matches:   *)
(* what the search engine counts down and what the table of its results    *)
(* holds, whatever is typed, selected or closed meanwhile.                 *)
(***************************************************************************)
EXTENDS Viewer, FiniteSetTheorems, SequenceTheorems, WellFoundedInduction, TLAPS

(* Counting up: what 0 has and each number hands to the next, all have.    *)
LEMMA CountingUp ==
  ASSUME NEW S, 0 \in S, \A n \in Nat : n \in S => n + 1 \in S
  PROVE  Nat \subseteq S
<1> DEFINE less == {ss \in Nat \X Nat : ss[1] < ss[2]}
           rest == Nat \ S
<1> SUFFICES ASSUME rest # {} PROVE FALSE
  OBVIOUS
<1>1. IsWellFoundedOn(less, Nat)
  <2>1. OpToRel(<, Nat) = less
    BY Zenon DEF OpToRel
  <2> QED
    BY <2>1, NatLessThanWellFounded, Zenon
<1>2. PICK least \in rest : \A m \in rest : ~ (<<m, least>> \in less)
  <2>1. rest \subseteq Nat
    OBVIOUS
  <2> HIDE DEF rest, less
  <2> QED
    BY <1>1, <2>1, WFMin
<1>3. least # 0 /\ least - 1 \in Nat /\ least - 1 \in S
  <2>1. least # 0 /\ least \in Nat
    OBVIOUS
  <2>2. least - 1 \in Nat /\ least - 1 < least
    BY <2>1
  <2>3. least - 1 \notin rest
    BY <1>2, <2>2
  <2> QED
    BY <2>1, <2>2, <2>3
<1> QED
  BY <1>3

(* The maximum of the first numbers is the last of them.                    *)
LEMMA MaxOfRange == ASSUME NEW i \in Nat \ {0} PROVE Max(1 .. i) = i
<1>1. \A x \in 1 .. i : (\A y \in 1 .. i : x >= y) <=> x = i
  OBVIOUS
<1>2. i \in 1 .. i
  OBVIOUS
<1> QED
  BY <1>1, <1>2 DEF Max

-----------------------------------------------------------------------------
(* Sums over finite sets.                                                  *)
One(S) == CHOOSE x \in S : TRUE

SumStep(w, g, s) == IF s = {} THEN 0 ELSE w[One(s)] + g[s \ {One(s)}]

Adds(g, w, sets) == g = [s \in sets |-> SumStep(w, g, s)]

AddsUp(g, w, S) == Adds(g, w, SUBSET S)

UpTo(S, n) == {s \in SUBSET S : Cardinality(s) <= n}

(* A set without one of its elements is smaller by one.                    *)
LEMMA Without ==
  ASSUME NEW S, IsFiniteSet(S), S # {}
  PROVE  /\ One(S) \in S /\ IsFiniteSet(S \ {One(S)})
         /\ Cardinality(S) \in Nat \ {0}
         /\ Cardinality(S \ {One(S)}) = Cardinality(S) - 1
<1>1. One(S) \in S
  BY DEF One
<1> QED
  BY <1>1, FS_RemoveElement, FS_CardinalityType, FS_EmptySet

(* There is a function that adds up, for any finite set.                   *)
LEMMA SumIsDefined ==
  ASSUME NEW S, IsFiniteSet(S), NEW w
  PROVE  \E g : AddsUp(g, w, S)
<1> DEFINE good == {n \in Nat : \E g : Adds(g, w, UpTo(S, n))}
<1>0. \A s \in SUBSET S : IsFiniteSet(s) /\ Cardinality(s) \in Nat
  BY FS_Subset, FS_CardinalityType
<1>1. 0 \in good
  <2> DEFINE g == [s \in UpTo(S, 0) |-> 0]
  <2>1. \A s \in UpTo(S, 0) : s = {}
    BY <1>0, FS_EmptySet DEF UpTo
  <2>2. g = [s \in UpTo(S, 0) |-> SumStep(w, g, s)]
    BY <2>1 DEF SumStep
  <2> QED
    BY <2>2 DEF Adds
<1>2. ASSUME NEW n \in Nat, n \in good PROVE n + 1 \in good
  <2>1. PICK g : Adds(g, w, UpTo(S, n))
    BY <1>2
  <2> DEFINE f == [s \in UpTo(S, n + 1) |-> IF s \in UpTo(S, n) THEN g[s] ELSE SumStep(w, g, s)]
  <2>2. ASSUME NEW s \in UpTo(S, n + 1) PROVE f[s] = SumStep(w, f, s)
    <3>0. s \in SUBSET S /\ IsFiniteSet(s) /\ Cardinality(s) \in Nat /\ Cardinality(s) <= n + 1
      BY <1>0 DEF UpTo
    <3>1. f[s] = SumStep(w, g, s)
      BY <2>1 DEF Adds
    <3>2. s # {} => s \ {One(s)} \in UpTo(S, n)
      <4> SUFFICES ASSUME s # {} PROVE s \ {One(s)} \in UpTo(S, n)
        OBVIOUS
      <4>1. IsFiniteSet(s \ {One(s)}) /\ Cardinality(s \ {One(s)}) = Cardinality(s) - 1
        BY <3>0, Without
      <4> QED
        BY <3>0, <4>1 DEF UpTo
    <3>3. UpTo(S, n) \subseteq UpTo(S, n + 1)
      BY <1>0 DEF UpTo
    <3>4. s # {} => f[s \ {One(s)}] = g[s \ {One(s)}]
      BY <3>2, <3>3
    <3> QED
      BY <3>1, <3>4 DEF SumStep
  <2>3. f = [s \in UpTo(S, n + 1) |-> SumStep(w, f, s)]
    <3>1. f = [s \in UpTo(S, n + 1) |-> f[s]]
      BY Zenon
    <3> HIDE DEF f
    <3> QED
      BY <2>2, <3>1
  <2> HIDE DEF f
  <2> QED
    BY <2>3 DEF Adds
<1>3. Cardinality(S) \in good
  <2> HIDE DEF good
  <2> QED
    BY <1>0, <1>1, <1>2, CountingUp
<1>4. UpTo(S, Cardinality(S)) = SUBSET S
  BY FS_Subset DEF UpTo
<1> QED
  BY <1>3, <1>4 DEF AddsUp

(* Each such function gives the same sums.                                 *)
LEMMA SumsAgree ==
  ASSUME NEW S, IsFiniteSet(S), NEW T \in SUBSET S, NEW w,
         NEW g, AddsUp(g, w, S), NEW h, AddsUp(h, w, T)
  PROVE  g[T] = h[T]
<1> DEFINE good == {n \in Nat : \A s \in SUBSET T : Cardinality(s) = n => g[s] = h[s]}
<1>0. \A s \in SUBSET T : IsFiniteSet(s) /\ Cardinality(s) \in Nat
  BY FS_Subset, FS_CardinalityType
<1>4. \A s \in SUBSET T : g[s] = SumStep(w, g, s) /\ h[s] = SumStep(w, h, s)
  BY DEF Adds, AddsUp
<1>1. 0 \in good
  <2>1. \A s \in SUBSET T : Cardinality(s) = 0 => s = {}
    BY <1>0, FS_EmptySet
  <2> QED
    BY <1>4, <2>1 DEF SumStep
<1>2. ASSUME NEW n \in Nat, n \in good PROVE n + 1 \in good
  <2> SUFFICES ASSUME NEW s \in SUBSET T, Cardinality(s) = n + 1 PROVE g[s] = h[s]
    OBVIOUS
  <2>1. s # {}
    <3>1. Cardinality(s) # 0
      OBVIOUS
    <3> QED
      BY <3>1, FS_EmptySet
  <2>2. s \ {One(s)} \in SUBSET T /\ Cardinality(s \ {One(s)}) = n
    BY <1>0, <2>1, Without
  <2>3. g[s \ {One(s)}] = h[s \ {One(s)}]
    BY <1>2, <2>2
  <2> QED
    BY <1>4, <2>1, <2>3 DEF SumStep
<1>3. Cardinality(T) \in good
  <2> HIDE DEF good
  <2> QED
    BY <1>0, <1>1, <1>2, CountingUp
<1> QED
  BY <1>3

(* A sum is what one element has and the sum over the others.              *)
LEMMA SumUnfolds ==
  ASSUME NEW S, IsFiniteSet(S), NEW w
  PROVE  Sum(w, S) = IF S = {} THEN 0 ELSE w[One(S)] + Sum(w, S \ {One(S)})
<1>1. \A T \in SUBSET S : \E h : AddsUp(h, w, T) /\ Sum(w, T) = h[T]
  <2> TAKE T \in SUBSET S
  <2> DEFINE h == CHOOSE k : AddsUp(k, w, T)
  <2>1. AddsUp(h, w, T)
    BY SumIsDefined, FS_Subset, Zenon
  <2>2. Sum(w, T) = h[T]
    <3>1. Sum(w, T) = (CHOOSE k : k = [s \in SUBSET T |-> SumStep(w, k, s)])[T]
      BY DEF Sum, MapThenSumSet, MapThenFoldSet, SumStep, One
    <3> QED
      BY <3>1 DEF Adds, AddsUp
  <2> QED
    BY <2>1, <2>2
<1>2. PICK g : AddsUp(g, w, S) /\ Sum(w, S) = g[S]
  BY <1>1
<1>3. ASSUME NEW T \in SUBSET S PROVE Sum(w, T) = g[T]
  <2>1. PICK h : AddsUp(h, w, T) /\ Sum(w, T) = h[T]
    BY <1>1
  <2>2. g[T] = h[T]
    BY <1>2, <2>1, SumsAgree
  <2> QED
    BY <1>2, <2>1, <2>2
<1>4. g[S] = SumStep(w, g, S)
  BY <1>2 DEF Adds, AddsUp
<1> QED
  BY <1>3, <1>4 DEF SumStep

(* Sums of natural numbers.                                                *)
LEMMA SumIsNat ==
  ASSUME NEW S, IsFiniteSet(S), NEW w, \A x \in S : w[x] \in Nat
  PROVE  Sum(w, S) \in Nat
<1> DEFINE good == {n \in Nat : \A s \in SUBSET S : Cardinality(s) = n => Sum(w, s) \in Nat}
<1>0. \A s \in SUBSET S : IsFiniteSet(s) /\ Cardinality(s) \in Nat
  BY FS_Subset, FS_CardinalityType
<1>1. 0 \in good
  <2>1. \A s \in SUBSET S : Cardinality(s) = 0 => s = {}
    BY <1>0, FS_EmptySet
  <2>2. Sum(w, {}) = 0
    BY SumUnfolds, FS_EmptySet
  <2> QED
    BY <2>1, <2>2
<1>2. ASSUME NEW n \in Nat, n \in good PROVE n + 1 \in good
  <2> SUFFICES ASSUME NEW s \in SUBSET S, Cardinality(s) = n + 1 PROVE Sum(w, s) \in Nat
    OBVIOUS
  <2>1. s # {}
    <3>1. Cardinality(s) # 0
      OBVIOUS
    <3> QED
      BY <3>1, FS_EmptySet
  <2>2. One(s) \in S /\ s \ {One(s)} \in SUBSET S /\ Cardinality(s \ {One(s)}) = n
    BY <1>0, <2>1, Without
  <2>3. Sum(w, s \ {One(s)}) \in Nat /\ w[One(s)] \in Nat
    BY <1>2, <2>2
  <2>4. Sum(w, s) = w[One(s)] + Sum(w, s \ {One(s)})
    BY <1>0, <2>1, SumUnfolds
  <2> QED
    BY <2>3, <2>4
<1>3. Cardinality(S) \in good
  <2> HIDE DEF good
  <2> QED
    BY <1>0, <1>1, <1>2, CountingUp
<1> QED
  BY <1>3

(* ... in whichever order they are added.                                  *)
LEMMA SumWithout ==
  ASSUME NEW S, IsFiniteSet(S), NEW w, \A x \in S : w[x] \in Nat, NEW e \in S
  PROVE  Sum(w, S) = w[e] + Sum(w, S \ {e})
<1> DEFINE good == {n \in Nat : \A s \in SUBSET S : Cardinality(s) = n =>
                                  \A x \in s : Sum(w, s) = w[x] + Sum(w, s \ {x})}
<1>0. \A s \in SUBSET S : IsFiniteSet(s) /\ Cardinality(s) \in Nat
  BY FS_Subset, FS_CardinalityType
<1>1. 0 \in good
  <2>1. \A s \in SUBSET S : Cardinality(s) = 0 => s = {}
    BY <1>0, FS_EmptySet
  <2> QED
    BY <2>1
<1>2. ASSUME NEW n \in Nat, n \in good PROVE n + 1 \in good
  <2> SUFFICES ASSUME NEW s \in SUBSET S, Cardinality(s) = n + 1, NEW x \in s
               PROVE Sum(w, s) = w[x] + Sum(w, s \ {x})
    OBVIOUS
  <2> DEFINE y == One(s)
  <2>2. /\ y \in s /\ s \ {y} \in SUBSET S /\ Cardinality(s \ {y}) = n
        /\ s \ {x} \in SUBSET S /\ Cardinality(s \ {x}) = n
    <3>1. IsFiniteSet(s) /\ s # {}
      BY <1>0
    <3>2. y \in s /\ Cardinality(s \ {y}) = (n + 1) - 1
      BY <3>1, Without
    <3>3. Cardinality(s \ {x}) = (n + 1) - 1
      BY <3>1, FS_RemoveElement
    <3> QED
      BY <3>2, <3>3
  <2>4. Sum(w, s) = w[y] + Sum(w, s \ {y})
    BY <1>0, SumUnfolds
  <2> HIDE DEF y
  <2>3. CASE x # y
    <3>1. x \in s \ {y} /\ y \in s \ {x}
      BY <2>2, <2>3
    <3>2. Sum(w, s \ {y}) = w[x] + Sum(w, (s \ {y}) \ {x})
      BY <1>2, <2>2, <3>1
    <3>3. Sum(w, s \ {x}) = w[y] + Sum(w, (s \ {x}) \ {y})
      BY <1>2, <2>2, <3>1
    <3>4. (s \ {y}) \ {x} = (s \ {x}) \ {y} /\ (s \ {x}) \ {y} \in SUBSET S
      OBVIOUS
    <3>5. Sum(w, (s \ {x}) \ {y}) \in Nat
      BY <1>0, <3>4, SumIsNat
    <3>6. w[x] \in Nat /\ w[y] \in Nat
      BY <2>2
    <3> QED
      BY <2>4, <3>2, <3>3, <3>4, <3>5, <3>6
  <2> QED
    BY <2>3, <2>4
<1>3. Cardinality(S) \in good
  <2> HIDE DEF good
  <2> QED
    BY <1>0, <1>1, <1>2, CountingUp
<1> QED
  BY <1>3

(* Adding an element to a set adds its summand.                            *)
LEMMA SumWith ==
  ASSUME NEW S, IsFiniteSet(S), NEW w, NEW e, e \notin S, \A x \in S \cup {e} : w[x] \in Nat
  PROVE  Sum(w, S \cup {e}) = w[e] + Sum(w, S)
<1>1. IsFiniteSet(S \cup {e}) /\ (S \cup {e}) \ {e} = S
  BY FS_AddElement
<1> QED
  BY <1>1, SumWithout

(* The empty sum.                                                          *)
LEMMA SumOfNone == ASSUME NEW w PROVE Sum(w, {}) = 0
  BY SumUnfolds, FS_EmptySet

(* A sum is no less than any part of it.                                   *)
LEMMA SumBounds ==
  ASSUME NEW S, IsFiniteSet(S), NEW w, \A x \in S : w[x] \in Nat, NEW e \in S
  PROVE  w[e] <= Sum(w, S)
<1>1. IsFiniteSet(S \ {e}) /\ w[e] \in Nat
  BY FS_RemoveElement
<1>2. Sum(w, S \ {e}) \in Nat
  BY <1>1, SumIsNat
<1> QED
  BY <1>1, <1>2, SumWithout

-----------------------------------------------------------------------------
(* How the files are shared out.                                           *)
Undealt == [t \in SearchThreads |-> <<>>]

DealOne(sizes, deal, d) == [deal EXCEPT ![LeastLoaded(sizes, deal)] = Append(@, d)]

(* One step of the fold that Deal is.                              *)
FoldStep(sizes, names, g, s) ==
  IF s = {} THEN Undealt ELSE DealOne(sizes, g[s \ {Max(s)}], names[Max(s)])

Takes(g, sizes, names, n) ==
  g = [s \in SUBSET (1 .. n) |-> FoldStep(sizes, names, g, s)]

(* There is a function that takes these steps, for any number of files. *)
LEMMA FoldIsDefined ==
  ASSUME NEW sizes, NEW names, NEW n \in Nat
  PROVE  \E g : Takes(g, sizes, names, n)
<1> DEFINE Good(k) == \E g : Takes(g, sizes, names, k)
           good == {k \in Nat : Good(k)}
<1>1. 0 \in good
  <2> DEFINE g == [s \in SUBSET (1 .. 0) |-> Undealt]
  <2>1. 1 .. 0 = {}
    OBVIOUS
  <2>2. g = [s \in SUBSET (1 .. 0) |-> FoldStep(sizes, names, g, s)]
    BY <2>1 DEF FoldStep, Takes
  <2> QED
    BY <2>2 DEF Takes
<1>2. ASSUME NEW k \in Nat, k \in good PROVE k + 1 \in good
  <2>1. PICK g : Takes(g, sizes, names, k)
    BY <1>2
  <2> DEFINE last(s) == DealOne(sizes, g[s \ {k + 1}], names[k + 1])
             f == [s \in SUBSET (1 .. k + 1) |-> IF k + 1 \in s THEN last(s) ELSE g[s]]
  <2>2. ASSUME NEW s \in SUBSET (1 .. k + 1) PROVE f[s] = FoldStep(sizes, names, f, s)
    <3>1. CASE s = {}
      <4>1. {} \in SUBSET (1 .. k) /\ g[{}] = Undealt
        BY <2>1 DEF FoldStep, Takes
      <4> QED
        BY <3>1, <4>1 DEF FoldStep
    <3>2. CASE k + 1 \in s
      <4>1. Max(s) = k + 1
        <5>1. k + 1 \in s /\ \A y \in s : k + 1 >= y
          BY <3>2
        <5>2. \A x \in s : (\A y \in s : x >= y) => x = k + 1
          BY <5>1
        <5> QED
          BY <5>1, <5>2 DEF Max
      <4>2. s \ {k + 1} \in SUBSET (1 .. k) /\ s \ {k + 1} \in SUBSET (1 .. k + 1) /\ k + 1 \notin s \ {k + 1}
        OBVIOUS
      <4>3. f[s \ {k + 1}] = g[s \ {k + 1}] /\ f[s] = last(s)
        BY <3>2, <4>2
      <4> QED
        BY <3>2, <4>1, <4>3 DEF FoldStep
    <3>3. CASE s # {} /\ k + 1 \notin s
      <4>1. s \in SUBSET (1 .. k)
        BY <3>3
      <4>2. s \ {Max(s)} \in SUBSET (1 .. k) /\ k + 1 \notin s \ {Max(s)}
        BY <3>3, <4>1
      <4>3. f[s \ {Max(s)}] = g[s \ {Max(s)}]
        BY <4>2
      <4>4. f[s] = g[s] /\ g[s] = FoldStep(sizes, names, g, s)
        BY <2>1, <3>3, <4>1 DEF Takes
      <4> QED
        BY <3>3, <4>3, <4>4 DEF FoldStep
    <3> QED
      BY <3>1, <3>2, <3>3
  <2>3. f = [s \in SUBSET (1 .. k + 1) |-> FoldStep(sizes, names, f, s)]
    <3> HIDE DEF last
    <3>1. f = [s \in SUBSET (1 .. k + 1) |-> f[s]]
      BY Zenon
    <3> HIDE DEF f
    <3> QED
      BY <2>2, <3>1
  <2> HIDE DEF f
  <2> QED
    BY <2>3 DEF Takes
<1>3. n \in good
  <2> HIDE DEF good
  <2> QED
    BY <1>1, <1>2, CountingUp
<1> QED
  BY <1>3

(* One file after the other: dealt[i] is what the first i come to.      *)
ByFile(dealt, sizes, names, n) ==
  /\ dealt[0] = Undealt
  /\ \A i \in 1 .. n : dealt[i] = DealOne(sizes, dealt[i - 1], names[i])
  /\ Deal(sizes, names) = dealt[n]

(* The fold has these values, for any number of files.                  *)
LEMMA DealtByFile ==
  ASSUME NEW sizes, NEW names, NEW n \in Nat, DOMAIN names = 1 .. n
  PROVE  \E dealt : ByFile(dealt, sizes, names, n)
<1> DEFINE g == CHOOSE k : Takes(k, sizes, names, n)
           h == [i \in 0 .. n |-> g[1 .. i]]
<1>1. Takes(g, sizes, names, n)
  BY FoldIsDefined, Zenon
<1>2. Deal(sizes, names) = g[1 .. n]
  <2>1. Deal(sizes, names) = (CHOOSE k : k = [s \in SUBSET DOMAIN names |-> FoldStep(sizes, names, k, s)])[DOMAIN names]
    BY DEF Deal, Undealt, DealOne, FoldLeft, MapThenFoldSet, FoldStep
  <2> QED
    BY <2>1 DEF Takes
<1> HIDE DEF g
<1>3. h[0] = Undealt
  <2>1. 1 .. 0 = {} /\ {} \in SUBSET (1 .. n) /\ 0 \in 0 .. n
    OBVIOUS
  <2>2. g[{}] = FoldStep(sizes, names, g, {})
    BY <1>1, <2>1 DEF Takes
  <2> QED
    BY <2>1, <2>2 DEF FoldStep
<1>4. ASSUME NEW i \in 1 .. n PROVE h[i] = DealOne(sizes, h[i - 1], names[i])
  <2>1. 1 .. i \in SUBSET (1 .. n) /\ i \in 0 .. n /\ i - 1 \in 0 .. n
    OBVIOUS
  <2>5. i \in 1 .. i
    OBVIOUS
  <2>4. (1 .. i) \ {i} = 1 .. (i - 1)
    OBVIOUS
  <2>2. g[1 .. i] = FoldStep(sizes, names, g, 1 .. i)
    BY <1>1, <2>1 DEF Takes
  <2>3. Max(1 .. i) = i
    BY MaxOfRange
  <2> QED
    BY <2>1, <2>2, <2>3, <2>4, <2>5 DEF FoldStep
<1> HIDE DEF h
<1>5. h[n] = g[1 .. n]
  BY DEF h
<1> QED
  BY <1>2, <1>3, <1>4, <1>5 DEF ByFile

(* What the empty set has, and every finite set has that has it without    *)
(* one of its elements.                                                    *)
LEMMA BySubsets ==
  ASSUME NEW S, IsFiniteSet(S), NEW G, {} \in G,
         \A T \in SUBSET S : \A x \in T : T \ {x} \in G => T \in G
  PROVE  S \in G
<1> DEFINE good == {n \in Nat : \A s \in SUBSET S : Cardinality(s) = n => s \in G}
<1>0. \A s \in SUBSET S : IsFiniteSet(s) /\ Cardinality(s) \in Nat
  BY FS_Subset, FS_CardinalityType
<1>1. 0 \in good
  <2>1. \A s \in SUBSET S : Cardinality(s) = 0 => s = {}
    BY <1>0, FS_EmptySet
  <2> QED
    BY <2>1
<1>2. ASSUME NEW n \in Nat, n \in good PROVE n + 1 \in good
  <2> SUFFICES ASSUME NEW s \in SUBSET S, Cardinality(s) = n + 1 PROVE s \in G
    OBVIOUS
  <2>1. s # {}
    <3>1. Cardinality(s) # 0
      OBVIOUS
    <3> QED
      BY <3>1, FS_EmptySet
  <2>2. One(s) \in s /\ s \ {One(s)} \in SUBSET S /\ Cardinality(s \ {One(s)}) = n
    BY <1>0, <2>1, Without
  <2>3. s \ {One(s)} \in G
    BY <1>2, <2>2
  <2> QED
    BY <2>2, <2>3
<1>3. Cardinality(S) \in good
  <2> HIDE DEF good
  <2> QED
    BY <1>0, <1>1, <1>2, CountingUp
<1> QED
  BY <1>3

(* A sum of zeros.                                                         *)
LEMMA SumOfZeros ==
  ASSUME NEW S, IsFiniteSet(S), NEW w, \A x \in S : w[x] = 0
  PROVE  Sum(w, S) = 0
<1> DEFINE G == {T \in SUBSET S : Sum(w, T) = 0}
<1>1. {} \in G
  BY SumOfNone
<1>2. ASSUME NEW T \in SUBSET S, NEW x \in T, T \ {x} \in G PROVE T \in G
  <2>1. IsFiniteSet(T) /\ \A y \in T : w[y] \in Nat
    BY FS_Subset
  <2>2. Sum(w, T) = w[x] + Sum(w, T \ {x})
    BY <2>1, SumWithout
  <2> QED
    BY <1>2, <2>2
<1>3. S \in G
  <2> HIDE DEF G
  <2> QED
    BY <1>1, <1>2, BySubsets
<1> QED
  BY <1>3

(* Equal summands have equal sums.                                         *)
LEMMA SumsEqual ==
  ASSUME NEW S, IsFiniteSet(S), NEW w, NEW v, \A x \in S : w[x] \in Nat /\ v[x] = w[x]
  PROVE  Sum(v, S) = Sum(w, S)
<1> DEFINE G == {T \in SUBSET S : Sum(v, T) = Sum(w, T)}
<1>1. {} \in G
  BY SumOfNone
<1>2. ASSUME NEW T \in SUBSET S, NEW x \in T, T \ {x} \in G PROVE T \in G
  <2>1. IsFiniteSet(T) /\ \A y \in T : w[y] \in Nat /\ v[y] \in Nat
    BY FS_Subset
  <2>2. Sum(w, T) = w[x] + Sum(w, T \ {x}) /\ Sum(v, T) = v[x] + Sum(v, T \ {x})
    BY <2>1, SumWithout
  <2> QED
    BY <1>2, <2>2
<1>3. S \in G
  <2> HIDE DEF G
  <2> QED
    BY <1>1, <1>2, BySubsets
<1> QED
  BY <1>3

(* The sum over two sets that have nothing in common.                      *)
LEMMA SumOfBoth ==
  ASSUME NEW S, IsFiniteSet(S), NEW R, IsFiniteSet(R), S \cap R = {},
         NEW w, \A x \in S \cup R : w[x] \in Nat
  PROVE  Sum(w, S \cup R) = Sum(w, S) + Sum(w, R)
<1> DEFINE G == {T \in SUBSET S : Sum(w, T \cup R) = Sum(w, T) + Sum(w, R)}
<1>0. Sum(w, R) \in Nat
  BY SumIsNat
<1>1. {} \in G
  <2>1. {} \cup R = R
    OBVIOUS
  <2> QED
    BY <1>0, <2>1, SumOfNone
<1>2. ASSUME NEW T \in SUBSET S, NEW x \in T, T \ {x} \in G PROVE T \in G
  <2>1. IsFiniteSet(T) /\ IsFiniteSet(T \cup R) /\ IsFiniteSet(T \ {x})
    BY FS_Subset, FS_Union
  <2>2. \A y \in T \cup R : w[y] \in Nat
    OBVIOUS
  <2>3. Sum(w, T) = w[x] + Sum(w, T \ {x})
    BY <2>1, <2>2, SumWithout
  <2>4. Sum(w, T \cup R) = w[x] + Sum(w, (T \cup R) \ {x})
    BY <2>1, <2>2, SumWithout
  <2>5. (T \cup R) \ {x} = (T \ {x}) \cup R
    OBVIOUS
  <2>6. Sum(w, T \ {x}) \in Nat /\ w[x] \in Nat
    BY <2>1, SumIsNat
  <2> QED
    BY <1>0, <1>2, <2>3, <2>4, <2>5, <2>6
<1>3. S \in G
  <2> HIDE DEF G
  <2> QED
    BY <1>1, <1>2, BySubsets
<1> QED
  BY <1>3

(* Some number of a set of natural numbers is the least.                   *)
LEMMA LeastIs ==
  ASSUME NEW S \in SUBSET Nat, S # {}
  PROVE  Min(S) \in S /\ \A x \in S : Min(S) <= x
<1> DEFINE low == {n \in Nat : \A x \in S : n <= x}
<1>1. PICK x \in S : TRUE
  OBVIOUS
<1>2. x + 1 \notin low
  OBVIOUS
<1>3. 0 \in low
  OBVIOUS
<1>4. PICK n \in Nat : n \in low /\ n + 1 \notin low
  <2> HIDE DEF low
  <2> QED
    BY <1>1, <1>2, <1>3, CountingUp
<1>5. n \in S /\ \A y \in S : n <= y
  BY <1>4
<1> QED
  BY <1>5 DEF Min

(* Each file is dealt once.                                                *)
Apart(deal) ==
  /\ deal \in [SearchThreads -> Seq(Databases)]
  /\ \A t, u \in SearchThreads : \A a \in DOMAIN deal[t], b \in DOMAIN deal[u] :
       deal[t][a] = deal[u][b] => t = u /\ a = b

Covers(deal, names, n) ==
  /\ \A t \in SearchThreads : \A a \in DOMAIN deal[t] : \E j \in 1 .. n : deal[t][a] = names[j]
  /\ \A j \in 1 .. n : \E t \in SearchThreads : \E a \in DOMAIN deal[t] : deal[t][a] = names[j]

(* Whoever has files has one that is not empty as the last, unless all     *)
(* were empty so far: these are with the first thread.                     *)
EndsWell(sizes, deal) ==
  \A t \in SearchThreads : deal[t] # <<>> => sizes[deal[t][Len(deal[t])]] > 0

EmptyFirst(sizes, deal, names, n) ==
  \/ EndsWell(sizes, deal)
  \/ /\ \A j \in 1 .. n : sizes[names[j]] = 0
     /\ \A t \in SearchThreads \ {1} : deal[t] = <<>>

Sorted(sizes, names, n) ==
  /\ names \in [1 .. n -> Databases]
  /\ \A i, j \in 1 .. n : i # j => names[i] # names[j]
  /\ \A i, j \in 1 .. n : i < j => sizes[names[i]] <= sizes[names[j]]

(* The files of a list are finitely many databases.                        *)
LEMMA FilesAreFinite ==
  ASSUME NEW fs \in Seq(Databases)
  PROVE  ToSet(fs) \in SUBSET Databases /\ IsFiniteSet(ToSet(fs))
<1>1. ToSet(fs) \in SUBSET Databases
  BY DEF ToSet
<1> QED
  BY <1>1, FS_Subset, SearchAssumption

(* The load of a thread is the sum of the sizes of its files.              *)
LEMMA LoadIs ==
  ASSUME NEW sizes \in [Databases -> Nat], NEW fs \in Seq(Databases)
  PROVE  Load(sizes, fs) = Sum(sizes, ToSet(fs)) /\ Load(sizes, fs) \in Nat
<1>1. Load(sizes, fs) = Sum(sizes, ToSet(fs))
  BY DEF Load
<1>2. \A d \in ToSet(fs) : sizes[d] \in Nat
  BY FilesAreFinite
<1> QED
  BY <1>1, <1>2, FilesAreFinite, SumIsNat

(* Some thread has the least to do; while nobody has, it is the first.     *)
LEMMA LeastLoadedIs ==
  ASSUME NEW sizes \in [Databases -> Nat], NEW deal \in [SearchThreads -> Seq(Databases)]
  PROVE  /\ LeastLoaded(sizes, deal) \in SearchThreads
         /\ (\A t \in SearchThreads : Load(sizes, deal[t]) = 0) => LeastLoaded(sizes, deal) = 1
<1> DEFINE loads == {Load(sizes, deal[t]) : t \in SearchThreads}
           least == {t \in SearchThreads : \A u \in SearchThreads : Load(sizes, deal[t]) <= Load(sizes, deal[u])}
<1>1. \A t \in SearchThreads : Load(sizes, deal[t]) \in Nat
  BY LoadIs
<1>2. 1 \in SearchThreads /\ SearchThreads \subseteq Nat
  BY SearchAssumption DEF SearchThreads
<1>3. least # {}
  <2>1. loads \in SUBSET Nat /\ loads # {}
    BY <1>1, <1>2
  <2>2. Min(loads) \in loads /\ \A x \in loads : Min(loads) <= x
    <3> HIDE DEF loads
    <3> QED
      BY <2>1, LeastIs
  <2>3. PICK t \in SearchThreads : Min(loads) = Load(sizes, deal[t])
    BY <2>2
  <2>4. t \in least
    BY <2>2, <2>3
  <2> QED
    BY <2>4
<1>4. LeastLoaded(sizes, deal) = Min(least)
  BY DEF LeastLoaded
<1>5. least \in SUBSET Nat /\ least \subseteq SearchThreads
  BY <1>2
<1>6. Min(least) \in least /\ \A t \in least : Min(least) <= t
  <2> HIDE DEF least
  <2> QED
    BY <1>3, <1>5, LeastIs
<1>7. (\A t \in SearchThreads : Load(sizes, deal[t]) = 0) => 1 \in least
  BY <1>2
<1>8. \A t \in SearchThreads : t >= 1
  BY SearchAssumption DEF SearchThreads
<1> HIDE DEF least, loads
<1>9. LeastLoaded(sizes, deal) \in SearchThreads
  BY <1>4, <1>5, <1>6
<1>10. 1 \in least => LeastLoaded(sizes, deal) = 1
  <2> SUFFICES ASSUME 1 \in least PROVE LeastLoaded(sizes, deal) = 1
    OBVIOUS
  <2>1. Min(least) <= 1 /\ Min(least) >= 1 /\ Min(least) \in Nat
    BY <1>2, <1>4, <1>6, <1>8, <1>9
  <2> QED
    BY <1>4, <2>1
<1> QED
  BY <1>7, <1>9, <1>10

(* What dealing one more file comes to.                                    *)
LEMMA OneIsDealt ==
  ASSUME NEW sizes \in [Databases -> Nat], NEW names, NEW n \in Nat, Sorted(sizes, names, n),
         NEW i \in 1 .. n, NEW deal,
         Apart(deal), Covers(deal, names, i - 1), EmptyFirst(sizes, deal, names, i - 1)
  PROVE  LET dealt == DealOne(sizes, deal, names[i]) IN
         Apart(dealt) /\ Covers(dealt, names, i) /\ EmptyFirst(sizes, dealt, names, i)
<1> DEFINE d == names[i]
           l == LeastLoaded(sizes, deal)
           dealt == DealOne(sizes, deal, d)
<1>1. d \in Databases /\ deal \in [SearchThreads -> Seq(Databases)] /\ i \in Nat /\ i <= n
      /\ i - 1 \in Nat /\ 1 .. i = (1 .. (i - 1)) \cup {i}
  BY DEF Sorted, Apart
<1>2. l \in SearchThreads
  BY <1>1, LeastLoadedIs
<1>3. /\ dealt \in [SearchThreads -> Seq(Databases)]
      /\ dealt[l] = Append(deal[l], d)
      /\ \A t \in SearchThreads : t # l => dealt[t] = deal[t]
  BY <1>1, <1>2 DEF DealOne
<1>4. /\ Len(deal[l]) \in Nat /\ DOMAIN deal[l] = 1 .. Len(deal[l])
      /\ Len(dealt[l]) = Len(deal[l]) + 1 /\ DOMAIN dealt[l] = 1 .. Len(deal[l]) + 1
      /\ dealt[l][Len(deal[l]) + 1] = d
      /\ \A a \in DOMAIN deal[l] : dealt[l][a] = deal[l][a]
      /\ dealt[l] # <<>>
  BY <1>1, <1>2, <1>3
<1> HIDE DEF dealt, l
<1>5. \A t \in SearchThreads : \A a \in DOMAIN dealt[t] :
        \/ t = l /\ a = Len(deal[l]) + 1 /\ dealt[t][a] = d
        \/ a \in DOMAIN deal[t] /\ dealt[t][a] = deal[t][a]
  <2> TAKE t \in SearchThreads
  <2>1. CASE t # l
    BY <1>3, <2>1
  <2>2. CASE t = l
    <3> TAKE a \in DOMAIN dealt[t]
    <3>1. a \in 1 .. Len(deal[l]) + 1
      BY <1>4, <2>2
    <3>2. a = Len(deal[l]) + 1 \/ a \in 1 .. Len(deal[l])
      BY <1>4, <3>1
    <3> QED
      BY <1>4, <2>2, <3>2
  <2> QED
    BY <2>1, <2>2
<1>6. \A t \in SearchThreads : \A a \in DOMAIN deal[t] : deal[t][a] # d
  BY <1>1 DEF Covers, Sorted
<1>7. Apart(dealt)
  <2> SUFFICES ASSUME NEW t \in SearchThreads, NEW u \in SearchThreads,
                      NEW a \in DOMAIN dealt[t], NEW b \in DOMAIN dealt[u], dealt[t][a] = dealt[u][b]
               PROVE  t = u /\ a = b
    BY <1>3 DEF Apart
  <2>1. CASE t = l /\ a = Len(deal[l]) + 1 /\ dealt[t][a] = d
    BY <1>5, <1>6, <2>1
  <2>2. CASE a \in DOMAIN deal[t] /\ dealt[t][a] = deal[t][a]
    <3>1. b \in DOMAIN deal[u] /\ dealt[u][b] = deal[u][b]
      BY <1>5, <1>6, <2>2
    <3>2. deal[t][a] = deal[u][b]
      BY <2>2, <3>1
    <3> QED
      BY <2>2, <3>1, <3>2 DEF Apart
  <2> QED
    BY <1>5, <2>1, <2>2
<1>8. Covers(dealt, names, i)
  <2>1. \A t \in SearchThreads : \A a \in DOMAIN dealt[t] : \E j \in 1 .. i : dealt[t][a] = names[j]
    <3> TAKE t \in SearchThreads
    <3> TAKE a \in DOMAIN dealt[t]
    <3>1. CASE dealt[t][a] = d
      <4>1. i \in 1 .. i
        BY <1>1
      <4> QED
        BY <3>1, <4>1
    <3>2. CASE a \in DOMAIN deal[t] /\ dealt[t][a] = deal[t][a]
      <4>1. PICK j \in 1 .. i - 1 : deal[t][a] = names[j]
        BY <3>2 DEF Covers
      <4>2. j \in 1 .. i
        BY <1>1, <4>1
      <4> QED
        BY <3>2, <4>1, <4>2
    <3> QED
      BY <1>5, <3>1, <3>2
  <2>2. \A t \in SearchThreads : \A a \in DOMAIN deal[t] : a \in DOMAIN dealt[t] /\ dealt[t][a] = deal[t][a]
    <3> TAKE t \in SearchThreads
    <3>1. CASE t # l
      BY <1>3, <3>1
    <3>2. CASE t = l
      <4>1. 1 .. Len(deal[l]) \subseteq 1 .. Len(deal[l]) + 1
        BY <1>4
      <4> QED
        BY <1>4, <3>2, <4>1
    <3> QED
      BY <3>1, <3>2
  <2>3. \A j \in 1 .. i : \E t \in SearchThreads : \E a \in DOMAIN dealt[t] : dealt[t][a] = names[j]
    <3> TAKE j \in 1 .. i
    <3>1. CASE j = i
      BY <1>2, <1>4, <3>1
    <3>2. CASE j # i
      <4>1. j \in 1 .. i - 1
        BY <1>1, <3>2
      <4>2. PICK t \in SearchThreads : \E a \in DOMAIN deal[t] : deal[t][a] = names[j]
        BY <4>1 DEF Covers
      <4> QED
        BY <2>2, <4>2
    <3> QED
      BY <3>1, <3>2
  <2> QED
    BY <2>1, <2>3 DEF Covers
<1>9. EmptyFirst(sizes, dealt, names, i)
  <2>1. CASE \A j \in 1 .. i - 1 : sizes[names[j]] = 0
    <3>1. \A t \in SearchThreads : \A a \in DOMAIN deal[t] : sizes[deal[t][a]] = 0
      BY <2>1 DEF Covers
    <3>2. \A t \in SearchThreads : deal[t] # <<>> => Len(deal[t]) \in DOMAIN deal[t]
      BY <1>1
    <3>3. \A t \in SearchThreads \ {1} : deal[t] = <<>>
      BY <3>1, <3>2 DEF EmptyFirst, EndsWell
    <3>4. \A t \in SearchThreads : Load(sizes, deal[t]) = 0
      <4> TAKE t \in SearchThreads
      <4>1. \A x \in ToSet(deal[t]) : sizes[x] = 0
        BY <3>1 DEF ToSet
      <4>2. deal[t] \in Seq(Databases)
        BY <1>1
      <4> QED
        BY <4>1, <4>2, LoadIs, FilesAreFinite, SumOfZeros
    <3>5. l = 1
      BY <1>1, <3>4, LeastLoadedIs DEF l
    <3>6. \A t \in SearchThreads \ {1} : dealt[t] = <<>>
      BY <1>3, <3>3, <3>5
    <3>7. CASE sizes[d] = 0
      BY <1>1, <2>1, <3>6, <3>7 DEF EmptyFirst
    <3>8. CASE sizes[d] > 0
      BY <1>4, <3>5, <3>6, <3>8 DEF EmptyFirst, EndsWell
    <3> QED
      BY <1>1, <3>7, <3>8
  <2>2. CASE ~ \A j \in 1 .. i - 1 : sizes[names[j]] = 0
    <3>1. PICK j \in 1 .. i - 1 : sizes[names[j]] # 0
      BY <2>2
    <3>2. j \in 1 .. n /\ j < i /\ names[j] \in Databases
      BY <1>1 DEF Sorted
    <3>3. sizes[names[j]] > 0 /\ sizes[names[j]] <= sizes[d]
      BY <3>1, <3>2 DEF Sorted
    <3>4. sizes[d] > 0
      BY <1>1, <3>2, <3>3
    <3>5. EndsWell(sizes, deal)
      BY <2>2 DEF EmptyFirst
    <3>6. EndsWell(sizes, dealt)
      BY <1>3, <1>4, <3>4, <3>5 DEF EndsWell
    <3> QED
      BY <3>6 DEF EmptyFirst
  <2> QED
    BY <2>1, <2>2
<1> QED
  BY <1>7, <1>8, <1>9 DEF dealt

(* Every database is with one thread, and nobody's last one is empty.      *)
LEMMA DatabasesDealt ==
  ASSUME NEW sizes \in Layouts, NEW order \in BySize(sizes)
  PROVE  LET deal == Deal(sizes, order) IN
         /\ Apart(deal)
         /\ \A d \in Databases : \E t \in SearchThreads : d \in ToSet(deal[t])
         /\ (\E d \in Databases : sizes[d] > 0) => EndsWell(sizes, deal)
<1> DEFINE n == Cardinality(Databases)
<1>0. sizes \in [Databases -> Nat] /\ n \in Nat /\ IsFiniteSet(Databases)
  BY SearchAssumption, FS_CardinalityType
<1>1. order \in [1 .. n -> Databases] /\ \A i, j \in 1 .. n : i # j => order[i] # order[j]
  BY DEF BySize, SetToSeqs
<1>2. Len(order) = n /\ DOMAIN order = 1 .. n
  BY <1>0, <1>1
<1>3. Sorted(sizes, order, n)
  BY <1>1, <1>2 DEF BySize, IsSorted, Sorted
<1>4. \A d \in Databases : \E j \in 1 .. n : order[j] = d
  <2>1. order \in Injection(1 .. n, Databases)
    BY <1>1 DEF Injection, IsInjective
  <2>2. IsFiniteSet(1 .. n) /\ Cardinality(1 .. n) = n
    BY <1>0, FS_Interval
  <2>3. order \in Surjection(1 .. n, Databases)
    BY <1>0, <2>1, <2>2, FS_Injection
  <2> QED
    BY <2>3 DEF Surjection
<1> HIDE DEF n
<1>5. PICK dealt : ByFile(dealt, sizes, order, n)
  BY <1>0, <1>2, DealtByFile
<1> DEFINE Good(i, deal) == Apart(deal) /\ Covers(deal, order, i) /\ EmptyFirst(sizes, deal, order, i)
           good == {i \in Nat : i <= n => Good(i, dealt[i])}
<1>6. 0 \in good
  <2>1. dealt[0] = Undealt /\ 1 .. 0 = {}
    BY <1>5 DEF ByFile
  <2>2. \A t \in SearchThreads : Undealt[t] = <<>> /\ DOMAIN Undealt[t] = {}
    BY DEF Undealt
  <2>3. Undealt \in [SearchThreads -> Seq(Databases)]
    BY DEF Undealt
  <2> QED
    BY <2>1, <2>2, <2>3 DEF Apart, Covers, EmptyFirst, EndsWell
<1>7. ASSUME NEW i \in Nat, i \in good PROVE i + 1 \in good
  <2> SUFFICES ASSUME i + 1 <= n PROVE Good(i + 1, dealt[i + 1])
    OBVIOUS
  <2>1. i + 1 \in 1 .. n /\ (i + 1) - 1 = i /\ Good(i, dealt[i])
    BY <1>0, <1>7
  <2>2. dealt[i + 1] = DealOne(sizes, dealt[i], order[i + 1])
    BY <1>5, <2>1 DEF ByFile
  <2> QED
    BY <1>0, <1>3, <2>1, <2>2, OneIsDealt
<1>8. n \in good
  <2> HIDE DEF good
  <2> QED
    BY <1>0, <1>6, <1>7, CountingUp
<1>9. Good(n, Deal(sizes, order))
  BY <1>0, <1>5, <1>8 DEF ByFile
<1> DEFINE deal == Deal(sizes, order)
<1>10. \A d \in Databases : \E t \in SearchThreads : d \in ToSet(deal[t])
  <2> TAKE d \in Databases
  <2>1. PICK j \in 1 .. n : order[j] = d
    BY <1>4
  <2>2. PICK t \in SearchThreads : \E a \in DOMAIN deal[t] : deal[t][a] = order[j]
    BY <1>9 DEF Covers
  <2> QED
    BY <2>1, <2>2 DEF ToSet
<1>11. ASSUME NEW d \in Databases, sizes[d] > 0 PROVE EndsWell(sizes, deal)
  <2>1. PICK j \in 1 .. n : order[j] = d
    BY <1>4
  <2>2. sizes[order[j]] # 0
    BY <1>0, <1>11, <2>1
  <2> QED
    BY <1>9, <2>2 DEF EmptyFirst
<1> QED
  BY <1>9, <1>10, <1>11

-----------------------------------------------------------------------------
(* The search threads, and what they have left.                            *)

(* What collect_files() leaves, and nobody changes.                        *)
FilesInv ==
  /\ size \in Layouts
  /\ Apart(files)
  /\ \A d \in Databases : \E t \in SearchThreads : d \in ToSet(files[t])
  /\ EndsWell(size, files)

Busy(t) == pc[t] \in {"search", "report", "thrown"}

Closing == call \in {"stop", "join", "gone"}

(* Nobody is told to start while he has something to do.                   *)
ThreadInv ==
  /\ call \in {"none", "clear", "text", "start", "stop", "join", "gone"}
  /\ next \in SearchThreads
  /\ pc \in [SearchThreads -> {"wait", "search", "report", "exited", "thrown"}]
  /\ at \in [SearchThreads -> Nat \ {0}]
  /\ should_start \in [SearchThreads -> BOOLEAN] /\ should_stop \in [SearchThreads -> BOOLEAN]
  /\ DOMAIN search_text = SearchThreads /\ DOMAIN current_entries = SearchThreads
  /\ \A t \in SearchThreads :
       /\ pc[t] = "wait" => at[t] = 1
       /\ Busy(t) => at[t] <= Len(files[t]) /\ ~ should_start[t] /\ ~ NotStarted(t)
       /\ NotStarted(t) /\ files[t] # <<>> => ~ should_start[t]
       /\ pc[t] = "exited" \/ should_stop[t] => Closing

(* The thread has a pass over all its files before it.                     *)
Ahead(t) == should_start[t] \/ NotStarted(t)

Left(t) ==
  Sum(size, Unread(t)) + (IF Ahead(t) THEN Sum(size, FilesOf(t)) ELSE 0)

lefts == [t \in SearchThreads |-> Left(t)]

(* What is left of the search fits in the counter.                         *)
RemainingInv == RemainingIsExact /\ remaining_size \in 0 .. total_size

(* RemainingIsExact in the terms used here.                                *)
LEMMA RemainingIs == RemainingIsExact <=> remaining_size = Sum(lefts, SearchThreads)
  BY DEF RemainingIsExact, lefts, Left, Ahead, TotalSize

(* There are finitely many threads.                                        *)
LEMMA ThreadsAreFinite == IsFiniteSet(SearchThreads)
  BY FS_Interval, SearchAssumption DEF SearchThreads

(* Databases have sizes, whose sum is no less than any of them.            *)
LEMMA SizesAre ==
  ASSUME FilesInv, NEW S \in SUBSET Databases
  PROVE  /\ IsFiniteSet(S) /\ Sum(size, S) \in Nat
         /\ \A d \in S : /\ size[d] \in Nat /\ size[d] <= Sum(size, S)
                         /\ Sum(size, S) = size[d] + Sum(size, S \ {d})
<1>1. size \in [Databases -> Nat] /\ IsFiniteSet(S)
  BY FS_Subset, SearchAssumption DEF FilesInv
<1>2. \A d \in S : size[d] \in Nat
  BY <1>1
<1> QED
  BY <1>1, <1>2, SumIsNat, SumBounds, SumWithout

(* The size of everything is a number the counter can hold.                *)
LEMMA TotalIs ==
  ASSUME FilesInv
  PROVE  total_size = Sum(size, Databases) /\ total_size \in Nat /\ total_size < SizeLimit
<1>1. total_size = Sum(size, Databases)
  BY DEF total_size, TotalSize
<1>2. total_size < SizeLimit
  BY SearchAssumption DEF total_size, TotalSize, FilesInv
<1> QED
  BY <1>1, <1>2, SizesAre

(* The files of a thread are databases.                                    *)
LEMMA FilesAre ==
  ASSUME FilesInv, NEW t \in SearchThreads
  PROVE  /\ files[t] \in Seq(Databases) /\ FilesOf(t) \in SUBSET Databases
         /\ DOMAIN files[t] = 1 .. Len(files[t]) /\ Len(files[t]) \in Nat
         /\ \A i \in 1 .. Len(files[t]) : files[t][i] \in FilesOf(t)
         /\ files[t] = <<>> => FilesOf(t) = {}
<1>1. files[t] \in Seq(Databases)
  BY DEF FilesInv, Apart
<1> QED
  BY <1>1, FilesAreFinite DEF FilesOf, ToSet

(* What a thread has not read is part of its files.                        *)
LEMMA UnreadIs ==
  ASSUME FilesInv, ThreadInv, NEW t \in SearchThreads
  PROVE  /\ Unread(t) \in SUBSET FilesOf(t)
         /\ ~ Busy(t) => Unread(t) = {}
         /\ Busy(t) => Unread(t) = {files[t][i] : i \in at[t] .. Len(files[t])}
<1>1. at[t] \in Nat \ {0}
  BY DEF ThreadInv
<1>2. \A i \in at[t] .. Len(files[t]) : i \in 1 .. Len(files[t])
  BY <1>1, FilesAre
<1> QED
  BY <1>2, FilesAre DEF Unread, Busy

(* What a thread has left is a number, no less than what is unread.        *)
LEMMA LeftIsNat ==
  ASSUME FilesInv, ThreadInv, NEW t \in SearchThreads
  PROVE  /\ Left(t) \in Nat /\ lefts[t] = Left(t)
         /\ Sum(size, Unread(t)) \in Nat /\ Sum(size, FilesOf(t)) \in Nat
         /\ Sum(size, Unread(t)) <= Left(t)
<1>1. Sum(size, Unread(t)) \in Nat /\ Sum(size, FilesOf(t)) \in Nat
  BY UnreadIs, FilesAre, SizesAre
<1> QED
  BY <1>1 DEF Left, lefts

(* The threads' shares are the whole.                                      *)
LEMMA SharesAreAll ==
  ASSUME FilesInv
  PROVE  Sum([t \in SearchThreads |-> Sum(size, FilesOf(t))], SearchThreads) = total_size
<1> DEFINE w == [t \in SearchThreads |-> Sum(size, FilesOf(t))]
           Dealt(T) == UNION {FilesOf(t) : t \in T}
           G == {T \in SUBSET SearchThreads : Sum(w, T) = Sum(size, Dealt(T))}
<1>0. \A T \in SUBSET SearchThreads : Dealt(T) \in SUBSET Databases
  BY FilesAre
<1>1. {} \in G
  <2>1. Dealt({}) = {}
    OBVIOUS
  <2> QED
    BY <2>1, SumOfNone
<1>2. ASSUME NEW T \in SUBSET SearchThreads, NEW x \in T, T \ {x} \in G PROVE T \in G
  <2>1. IsFiniteSet(T) /\ \A t \in T : w[t] \in Nat
    BY ThreadsAreFinite, FS_Subset, FilesAre, SizesAre
  <2>2. Sum(w, T) = w[x] + Sum(w, T \ {x})
    BY <2>1, SumWithout
  <2>3. Dealt(T) = FilesOf(x) \cup Dealt(T \ {x})
    OBVIOUS
  <2>4. FilesOf(x) \cap Dealt(T \ {x}) = {}
    BY DEF FilesInv, Apart, FilesOf, ToSet
  <2>5. FilesOf(x) \in SUBSET Databases /\ Dealt(T \ {x}) \in SUBSET Databases /\ Dealt(T) \in SUBSET Databases
    BY <1>0, FilesAre
  <2> HIDE DEF Dealt
  <2>6. /\ IsFiniteSet(FilesOf(x)) /\ IsFiniteSet(Dealt(T \ {x}))
        /\ \A d \in FilesOf(x) \cup Dealt(T \ {x}) : size[d] \in Nat
    BY <2>5, SizesAre, SearchAssumption DEF FilesInv
  <2>7. Sum(size, Dealt(T)) = Sum(size, FilesOf(x)) + Sum(size, Dealt(T \ {x}))
    <3> DEFINE A == FilesOf(x)  B == Dealt(T \ {x})
    <3> HIDE DEF A, B
    <3>1. A \cap B = {} /\ IsFiniteSet(A) /\ IsFiniteSet(B) /\ \A d \in A \cup B : size[d] \in Nat
      BY <2>4, <2>6 DEF A, B
    <3>2. Sum(size, A \cup B) = Sum(size, A) + Sum(size, B)
      BY <3>1, SumOfBoth
    <3> QED
      BY <2>3, <3>2 DEF A, B
  <2>8. w[x] = Sum(size, FilesOf(x))
    OBVIOUS
  <2> QED
    BY <1>2, <2>2, <2>7, <2>8
<1>3. SearchThreads \in G
  <2> HIDE DEF G
  <2> QED
    BY <1>1, <1>2, BySubsets, ThreadsAreFinite
<1>4. Dealt(SearchThreads) = Databases
  BY <1>0 DEF FilesInv, FilesOf
<1> QED
  BY <1>3, <1>4, TotalIs

(* When the counter is 0, whoever has files is through with them.          *)
LEMMA FinishedIs ==
  ASSUME FilesInv, ThreadInv, RemainingIsExact, is_finished, NEW t \in SearchThreads, files[t] # <<>>
  PROVE  ~ Busy(t) /\ ~ should_start[t] /\ ~ NotStarted(t)
<1>1. Sum(lefts, SearchThreads) = 0
  BY RemainingIs DEF is_finished
<1>2. \A u \in SearchThreads : lefts[u] \in Nat
  BY LeftIsNat
<1>3. Left(t) = 0
  BY <1>1, <1>2, LeftIsNat, ThreadsAreFinite, SumBounds
<1> DEFINE n == Len(files[t])
           last == files[t][n]
<1>4. n \in 1 .. n /\ last \in FilesOf(t) /\ size[last] > 0
  <2>1. n \in Nat /\ n # 0
    BY FilesAre
  <2> QED
    BY <2>1, FilesAre DEF FilesInv, EndsWell
<1>5. size[last] \in Nat /\ size[last] <= Sum(size, FilesOf(t))
  BY <1>4, FilesAre, SizesAre
<1>6. ~ Ahead(t)
  BY <1>3, <1>4, <1>5, LeftIsNat DEF Left
<1>7. ~ Busy(t)
  <2> SUFFICES ASSUME Busy(t) PROVE FALSE
    OBVIOUS
  <2>1. n \in at[t] .. n
    BY FilesAre DEF ThreadInv
  <2>2. last \in Unread(t)
    BY <2>1, UnreadIs
  <2>3. Unread(t) \in SUBSET Databases
    BY UnreadIs, FilesAre
  <2>4. size[last] <= Sum(size, Unread(t))
    BY <2>2, <2>3, SizesAre
  <2> QED
    BY <1>3, <1>4, <1>5, <2>4, LeftIsNat
<1> QED
  BY <1>6, <1>7 DEF Ahead

(* What one summand more or less does to a sum.                            *)
LEMMA SumsDiffer ==
  ASSUME NEW S, IsFiniteSet(S), NEW e \in S, NEW w, NEW v,
         \A x \in S : w[x] \in Nat /\ v[x] \in Nat, \A x \in S \ {e} : v[x] = w[x]
  PROVE  Sum(v, S) = Sum(w, S) - w[e] + v[e]
<1>1. IsFiniteSet(S \ {e})
  BY FS_Subset
<1>2. Sum(v, S \ {e}) = Sum(w, S \ {e}) /\ Sum(w, S \ {e}) \in Nat
  BY <1>1, SumsEqual, SumIsNat
<1>3. Sum(w, S) = w[e] + Sum(w, S \ {e}) /\ Sum(v, S) = v[e] + Sum(v, S \ {e})
  BY SumWithout
<1> QED
  BY <1>2, <1>3

(* What the steps do: a new search, a step of the engine, or neither.      *)
EngineMoves ==
  \/ ClearResults \/ SetText(query) \/ StartThread
  \/ Close \/ StopThread \/ JoinThread
  \/ \E t \in SearchThreads : ThreadStep(t)

(* Every step of the viewer is one of these for the search engine.         *)
LEMMA StepsAre ==
  ASSUME [Next]_vars
  PROVE  \/ UNCHANGED <<search_vars, query>>
         \/ is_finished /\ FindText
         \/ EngineMoves /\ UNCHANGED query
<1>1. CASE UNCHANGED vars
  BY <1>1 DEF vars, text_field
<1>2. CASE GuiStep
  BY <1>2 DEF GuiStep, DrawSearch, SearchShort, StartSearch, EngineStep, DrawResults, SelectFrame,
              DrawFrame, PressKey, PressKeyOnOldFrame, CloseWindow, Destroy, text_field, EngineMoves
<1>3. CASE \E t \in SearchThreads : EngineThread(t)
  BY <1>3 DEF EngineThread, text_field, EngineMoves
<1> QED
  BY <1>1, <1>2, <1>3 DEF Next

(* The databases stay where collect_files() dealt them.                    *)
LEMMA FilesKept == ASSUME EngineMoves \/ FindText PROVE size' = size /\ files' = files
  BY DEF EngineMoves, FindText, ClearResults, SetText, StartThread, Close, StopThread, JoinThread,
         ThreadStep, Leave, StartWork, SearchFile, SearchFails, Report, ReportThrows, collected

(* A step of the engine keeps the facts about the threads.                 *)
LEMMA ThreadsKept ==
  ASSUME FilesInv, ThreadInv, EngineMoves
  PROVE  ThreadInv'
<1> USE DEF ThreadInv, Busy, NotStarted, Closing, collected, requests, work, found, caller
<1>0. NumThreads \in Nat \ {0} /\ SearchThreads = 1 .. NumThreads
  BY SearchAssumption DEF SearchThreads
<1>1. CASE ClearResults
  BY <1>0, <1>1 DEF ClearResults
<1>2. CASE SetText(query)
  BY <1>0, <1>2 DEF SetText
<1>3. CASE StartThread
  <2>0. /\ call = "start" /\ next \in 1 .. NumThreads
        /\ files' = files /\ pc' = pc /\ at' = at /\ should_stop' = should_stop
        /\ search_text' = search_text /\ current_entries' = current_entries
        /\ should_start' = [should_start EXCEPT ![next] = TRUE]
    BY <1>0, <1>3 DEF StartThread
  <2>1. CASE next = NumThreads /\ call' = "none" /\ next' = 1
    BY <1>0, <2>0, <2>1
  <2>2. CASE next # NumThreads /\ call' = "text" /\ next' = next + 1
    <3>1. next' \in SearchThreads
      BY <1>0, <2>0, <2>2
    <3>2. \A u \in SearchThreads : NotStarted(u)' <=> NotStarted(u) /\ u # next
      BY <1>0, <2>0, <2>2
    <3> QED
      BY <1>0, <2>0, <2>2, <3>1, <3>2
  <2> QED
    BY <1>3, <2>1, <2>2 DEF StartThread
<1>4. CASE Close
  BY <1>0, <1>4 DEF Close
<1>5. CASE StopThread
  BY <1>0, <1>5 DEF StopThread
<1>6. CASE JoinThread
  BY <1>0, <1>6 DEF JoinThread
<1>7. ASSUME NEW t \in SearchThreads, Leave(t) PROVE ThreadInv'
  BY <1>0, <1>7 DEF Leave
<1>8. ASSUME NEW t \in SearchThreads, StartWork(t) PROVE ThreadInv'
  <2>1. files[t] # <<>> => 1 <= Len(files[t])
    BY FilesAre
  <2> QED
    BY <1>0, <1>8, <2>1 DEF StartWork
<1>9. ASSUME NEW t \in SearchThreads, SearchFile(t) PROVE ThreadInv'
  BY <1>0, <1>9 DEF SearchFile
<1>10. ASSUME NEW t \in SearchThreads, SearchFails(t) PROVE ThreadInv'
  BY <1>0, <1>10 DEF SearchFails
<1>11. ASSUME NEW t \in SearchThreads, Report(t) PROVE ThreadInv'
  <2>1. Len(files[t]) \in Nat
    BY FilesAre
  <2>2. /\ pc[t] = "report" /\ t \in SearchThreads /\ at[t] \in 1 .. Len(files[t])
        /\ files' = files /\ should_start' = should_start /\ should_stop' = should_stop
        /\ search_text' = search_text /\ current_entries' = current_entries
        /\ call' = call /\ next' = next
    BY <1>11, <2>1 DEF Report
  <2>3. CASE at[t] = Len(files[t]) /\ at' = [at EXCEPT ![t] = 1] /\ pc' = [pc EXCEPT ![t] = "wait"]
    BY <2>2, <2>3
  <2>4. CASE at[t] # Len(files[t]) /\ at' = [at EXCEPT ![t] = @ + 1] /\ pc' = [pc EXCEPT ![t] = "search"]
    <3>1. at[t] + 1 \in 1 .. Len(files[t])
      BY <2>1, <2>2, <2>4
    <3> QED
      BY <2>2, <2>4, <3>1
  <2> QED
    BY <1>11, <2>3, <2>4 DEF Report, NextFile
<1>12. ASSUME NEW t \in SearchThreads, ReportThrows(t) PROVE ThreadInv'
  BY <1>0, <1>12 DEF ReportThrows
<1> QED
  BY <1>1, <1>2, <1>3, <1>4, <1>5, <1>6, <1>7, <1>8, <1>9, <1>10, <1>11, <1>12
     DEF EngineMoves, ThreadStep

(* So does a new search, for which everybody is through.                   *)
LEMMA NewSearchThreads ==
  ASSUME FilesInv, ThreadInv, RemainingIsExact, is_finished, FindText
  PROVE  /\ ThreadInv'
         /\ \A t \in SearchThreads : files[t] # <<>> => pc[t] = "wait" /\ ~ should_start[t]
<1>1. \A t \in SearchThreads : files[t] # <<>> => ~ Busy(t) /\ ~ should_start[t]
  BY FinishedIs
<1>2. \A t \in SearchThreads : Busy(t) => files[t] # <<>>
  <2> TAKE t \in SearchThreads
  <2>1. files[t] = <<>> => Len(files[t]) = 0
    OBVIOUS
  <2> QED
    BY <2>1 DEF ThreadInv
<1>3. call = "none" /\ call' = "clear" /\ UNCHANGED <<collected, requests, work, next>>
  BY DEF FindText
<1>4. \A t \in SearchThreads : files[t] # <<>> => pc[t] = "wait" /\ ~ should_start[t]
  BY <1>1, <1>3 DEF ThreadInv, Busy, Closing
<1>5. ThreadInv'
  BY <1>1, <1>2, <1>3 DEF ThreadInv, Busy, NotStarted, Closing, collected, requests, work
<1> QED
  BY <1>4, <1>5

(* A step after which everybody has as much left as before.                *)
LEMMA RemainingSame ==
  ASSUME RemainingInv, size' = size, remaining_size' = remaining_size,
         \A t \in SearchThreads : Left(t)' = Left(t)
  PROVE  RemainingInv'
<1>1. lefts' = lefts
  BY DEF lefts
<1>2. RemainingIsExact' <=> remaining_size' = Sum(lefts', SearchThreads)
  BY DEF RemainingIsExact, lefts, Left, Ahead, TotalSize
<1>3. total_size' = total_size
  BY DEF total_size, TotalSize
<1> QED
  BY <1>1, <1>2, <1>3, RemainingIs DEF RemainingInv

(* Reading a file takes its size off, which the counter still has.         *)
LEMMA ReportKeepsRemaining ==
  ASSUME FilesInv, ThreadInv, RemainingInv, NEW t \in SearchThreads, Report(t)
  PROVE  RemainingInv'
<1> DEFINE i == at[t]
           n == Len(files[t])
           file == files[t][i]
<1>0. pc[t] = "report" /\ UNCHANGED <<size, files, should_start, call, next>>
  BY DEF Report, collected, requests, caller
<1>1. n \in Nat /\ i \in 1 .. n /\ DOMAIN files[t] = 1 .. n /\ ~ should_start[t] /\ ~ NotStarted(t)
  BY <1>0, FilesAre DEF ThreadInv, Busy
<1>2. Unread(t) = {files[t][j] : j \in i .. n}
  BY <1>0 DEF Unread
<1>3. Unread(t)' = {files[t][j] : j \in i + 1 .. n}
  <2>1. CASE i = n
    <3>1. pc'[t] = "wait"
      BY <1>0, <2>1 DEF Report, NextFile, ThreadInv
    <3>2. n + 1 .. n = {}
      BY <1>1
    <3> QED
      BY <2>1, <3>1, <3>2 DEF Unread
  <2>2. CASE i # n
    <3>1. pc'[t] = "search" /\ at'[t] = i + 1
      BY <1>0, <2>2 DEF Report, NextFile, ThreadInv
    <3> QED
      BY <1>0, <3>1 DEF Unread
  <2> QED
    BY <2>1, <2>2
<1>4. file \in Unread(t) /\ Unread(t)' = Unread(t) \ {file}
  <2>1. \A j \in i + 1 .. n : files[t][j] # file
    <3> TAKE j \in i + 1 .. n
    <3>1. j \in DOMAIN files[t] /\ i \in DOMAIN files[t] /\ j # i
      BY <1>1
    <3> QED
      BY <3>1 DEF FilesInv, Apart
  <2>2. i .. n = (i + 1 .. n) \cup {i}
    BY <1>1
  <2> QED
    BY <1>2, <1>3, <2>1, <2>2
<1>5. Unread(t) \in SUBSET Databases
  BY UnreadIs, FilesAre
<1>6. /\ size[file] \in Nat /\ size[file] <= Sum(size, Unread(t))
      /\ Sum(size, Unread(t)') = Sum(size, Unread(t)) - size[file]
      /\ Sum(size, Unread(t)') \in Nat
  <2>1. Unread(t)' \in SUBSET Databases
    BY <1>4, <1>5
  <2>2. Sum(size, Unread(t)) = size[file] + Sum(size, Unread(t)')
    BY <1>4, <1>5, SizesAre
  <2>3. size[file] \in Nat /\ Sum(size, Unread(t)) \in Nat /\ size[file] <= Sum(size, Unread(t))
    BY <1>4, <1>5, SizesAre
  <2>4. Sum(size, Unread(t)') \in Nat
    BY <2>1, SizesAre
  <2> QED
    BY <2>2, <2>3, <2>4
<1>7. ~ Ahead(t) /\ ~ Ahead(t)'
  BY <1>0, <1>1 DEF Ahead, NotStarted
<1>8. Left(t) = Sum(size, Unread(t)) /\ Left(t)' = Left(t) - size[file] /\ Left(t)' \in Nat
  BY <1>0, <1>6, <1>7, LeftIsNat DEF Left
<1>9. \A u \in SearchThreads \ {t} : Left(u)' = Left(u)
  <2>1. \A u \in SearchThreads \ {t} : pc'[u] = pc[u] /\ at'[u] = at[u]
    BY DEF Report, NextFile, ThreadInv
  <2>2. \A u \in SearchThreads \ {t} : Unread(u)' = Unread(u)
    BY <1>0, <2>1 DEF Unread
  <2>3. \A u \in SearchThreads \ {t} : Ahead(u)' = Ahead(u) /\ FilesOf(u)' = FilesOf(u)
    BY <1>0 DEF Ahead, NotStarted, FilesOf
  <2> QED
    BY <1>0, <2>2, <2>3 DEF Left
<1>10. \A u \in SearchThreads : lefts[u] \in Nat /\ lefts'[u] \in Nat
  BY <1>8, <1>9, LeftIsNat DEF lefts
<1>11. \A u \in SearchThreads \ {t} : lefts'[u] = lefts[u]
  BY <1>9 DEF lefts
<1>12. Sum(lefts', SearchThreads) = Sum(lefts, SearchThreads) - lefts[t] + lefts'[t]
  BY <1>10, <1>11, ThreadsAreFinite, SumsDiffer
<1>13. remaining_size = Sum(lefts, SearchThreads) /\ remaining_size \in 0 .. total_size
  BY RemainingIs DEF RemainingInv
<1>14. lefts[t] <= Sum(lefts, SearchThreads)
  BY <1>10, ThreadsAreFinite, SumBounds
<1>15. lefts[t] = Left(t) /\ lefts'[t] = Left(t)'
  BY DEF lefts
<1>16. size[file] <= remaining_size
  <2> HIDE DEF file
  <2>1. Sum(size, Unread(t)) <= remaining_size
    BY <1>8, <1>13, <1>14, <1>15
  <2>2. Sum(size, Unread(t)) \in Nat /\ remaining_size \in Nat /\ size[file] \in Nat
    BY <1>6, <1>13, LeftIsNat, TotalIs
  <2> QED
    BY <1>6, <2>1, <2>2
<1>17. remaining_size' = remaining_size - size[file]
  <2>1. remaining_size - size[file] \in 0 .. SizeLimit - 1 /\ SizeLimit \in Nat
    <3>1. SizeLimit \in Nat
      BY TotalIs, SearchAssumption
    <3> QED
      BY <1>6, <1>13, <1>16, <3>1, TotalIs
  <2>2. remaining_size' = Wrap(remaining_size - size[file])
    BY DEF Report
  <2> QED
    BY <2>1, <2>2 DEF Wrap
<1>18. remaining_size' = Sum(lefts', SearchThreads)
  BY <1>6, <1>8, <1>10, <1>12, <1>13, <1>15, <1>17
<1>19. RemainingIsExact' <=> remaining_size' = Sum(lefts', SearchThreads)
  BY DEF RemainingIsExact, lefts, Left, Ahead, TotalSize
<1>20. total_size' = total_size
  BY <1>0 DEF total_size, TotalSize
<1>21. remaining_size' \in 0 .. total_size
  BY <1>6, <1>13, <1>16, <1>17, TotalIs
<1> QED
  BY <1>18, <1>19, <1>20, <1>21 DEF RemainingInv

(* Before StartWork all of it lies ahead, and then all of it is unread.    *)
LEMMA StartKeepsRemaining ==
  ASSUME FilesInv, ThreadInv, RemainingInv, NEW t \in SearchThreads, StartWork(t)
  PROVE  RemainingInv'
<1>0. /\ UNCHANGED <<size, files, at, remaining_size, call, next>>
      /\ pc[t] = "wait" /\ should_start[t]
      /\ pc' = [pc EXCEPT ![t] = IF files[t] = <<>> THEN "wait" ELSE "search"]
      /\ should_start' = [should_start EXCEPT ![t] = FALSE]
  BY DEF StartWork, collected, found, caller
<1>1. ASSUME NEW u \in SearchThreads, u # t PROVE Left(u)' = Left(u)
  <2>1. pc'[u] = pc[u] /\ should_start'[u] = should_start[u]
    BY <1>0, <1>1 DEF ThreadInv
  <2>2. Unread(u)' = Unread(u) /\ Ahead(u)' = Ahead(u) /\ FilesOf(u)' = FilesOf(u)
    BY <1>0, <2>1 DEF Unread, Ahead, NotStarted, FilesOf
  <2> QED
    BY <1>0, <2>2 DEF Left
<1>2. Left(t) = Sum(size, FilesOf(t))
  <2>1. Unread(t) = {} /\ Ahead(t)
    BY <1>0 DEF Unread, Ahead
  <2>2. Sum(size, FilesOf(t)) \in Nat
    BY LeftIsNat
  <2> QED
    BY <2>1, <2>2, SumOfNone DEF Left
<1>3. FilesOf(t)' = FilesOf(t)
  BY <1>0 DEF FilesOf
<1>4. CASE files[t] = <<>>
  <2>1. Unread(t)' = {} /\ FilesOf(t) = {}
    BY <1>0, <1>4, FilesAre DEF Unread, ThreadInv
  <2>2. Left(t)' = 0
    BY <1>0, <1>3, <2>1, SumOfNone DEF Left
  <2> QED
    BY <1>0, <1>1, <1>2, <2>1, <2>2, SumOfNone, RemainingSame
<1>5. CASE files[t] # <<>>
  <2>1. pc'[t] = "search" /\ at'[t] = 1 /\ ~ Ahead(t)'
    BY <1>0, <1>5 DEF ThreadInv, Ahead, NotStarted
  <2>2. Unread(t)' = {files[t][j] : j \in 1 .. Len(files[t])}
    BY <1>0, <2>1 DEF Unread
  <2>3. Unread(t)' = FilesOf(t)
    BY <2>2, FilesAre DEF FilesOf, ToSet
  <2>4. Left(t)' = Sum(size, FilesOf(t))
    <3>1. Sum(size, FilesOf(t)) \in Nat
      BY LeftIsNat
    <3> QED
      BY <1>0, <2>1, <2>3, <3>1 DEF Left
  <2> QED
    BY <1>0, <1>1, <1>2, <2>4, RemainingSame
<1> QED
  BY <1>4, <1>5

(* Starting a thread turns what is to be started into what is started.     *)
LEMMA RemainingKept ==
  ASSUME FilesInv, ThreadInv, RemainingInv, EngineMoves
  PROVE  RemainingInv'
<1> USE DEF collected, requests, work, found, caller
<1>0. NumThreads \in Nat \ {0} /\ SearchThreads = 1 .. NumThreads /\ next \in SearchThreads
  BY SearchAssumption DEF SearchThreads, ThreadInv
<1>1. ASSUME UNCHANGED <<size, files, remaining_size, at>>,
             \A t \in SearchThreads : Ahead(t)' = Ahead(t),
             \A t \in SearchThreads : Busy(t)' = Busy(t)
      PROVE  RemainingInv'
  <2>1. \A t \in SearchThreads : Unread(t)' = Unread(t)
    BY <1>1 DEF Unread, Busy
  <2>2. \A t \in SearchThreads : FilesOf(t)' = FilesOf(t)
    BY <1>1 DEF FilesOf
  <2>3. \A t \in SearchThreads : Left(t)' = Left(t)
    BY <1>1, <2>1, <2>2 DEF Left
  <2> QED
    BY <1>1, <2>3, RemainingSame
<1>2. CASE ClearResults
  BY <1>0, <1>1, <1>2 DEF ClearResults, Ahead, NotStarted, Busy
<1>3. CASE SetText(query)
  BY <1>1, <1>3 DEF SetText, Ahead, NotStarted, Busy
<1>4. CASE StartThread
  <2>1. /\ call = "start" /\ UNCHANGED <<size, files, remaining_size, at, pc>>
        /\ should_start' = [should_start EXCEPT ![next] = TRUE]
    BY <1>4 DEF StartThread
  <2>2. should_start'[next] /\ \A t \in SearchThreads : t # next => should_start'[t] = should_start[t]
    BY <1>0, <2>1 DEF ThreadInv
  <2>3. \A t \in SearchThreads : t # next => NotStarted(t)' = NotStarted(t)
    BY <1>0, <1>4 DEF StartThread, NotStarted
  <2>4. NotStarted(next)
    BY <1>0, <2>1 DEF NotStarted
  <2>5. \A t \in SearchThreads : Ahead(t)' = Ahead(t)
    BY <1>0, <2>2, <2>3, <2>4 DEF Ahead
  <2> QED
    BY <1>1, <2>1, <2>5 DEF Busy
<1>5. CASE Close
  BY <1>1, <1>5 DEF Close, Ahead, NotStarted, Busy
<1>6. CASE StopThread
  BY <1>1, <1>6 DEF StopThread, Ahead, NotStarted, Busy
<1>7. CASE JoinThread
  BY <1>1, <1>7 DEF JoinThread, Ahead, NotStarted, Busy
<1>8. ASSUME NEW t \in SearchThreads, Leave(t) PROVE RemainingInv'
  BY <1>1, <1>8 DEF Leave, Ahead, NotStarted, Busy, ThreadInv
<1>9. ASSUME NEW t \in SearchThreads, SearchFile(t) PROVE RemainingInv'
  BY <1>1, <1>9 DEF SearchFile, Ahead, NotStarted, Busy, ThreadInv
<1>10. ASSUME NEW t \in SearchThreads, SearchFails(t) PROVE RemainingInv'
  BY <1>1, <1>10 DEF SearchFails, Ahead, NotStarted, Busy, ThreadInv
<1>11. ASSUME NEW t \in SearchThreads, ReportThrows(t) PROVE RemainingInv'
  BY <1>1, <1>11 DEF ReportThrows, Ahead, NotStarted, Busy, ThreadInv
<1> QED
  BY <1>2, <1>3, <1>4, <1>5, <1>6, <1>7, <1>8, <1>9, <1>10, <1>11,
     StartKeepsRemaining, ReportKeepsRemaining DEF EngineMoves, ThreadStep

(* A new search has everything before it.                                  *)
LEMMA NewSearchRemaining ==
  ASSUME FilesInv, ThreadInv, RemainingInv, is_finished, FindText
  PROVE  RemainingInv'
<1> DEFINE shares == [t \in SearchThreads |-> Sum(size, FilesOf(t))]
<1>0. UNCHANGED <<size, files, pc, at>> /\ remaining_size' = total_size /\ call' = "clear"
  BY DEF FindText, collected, work
<1>1. ASSUME NEW t \in SearchThreads PROVE Left(t)' = shares[t]
  <2>1. ~ Busy(t)
    <3>1. CASE files[t] = <<>>
      <4>1. Len(files[t]) = 0
        BY <3>1
      <4> QED
        BY <4>1 DEF ThreadInv
    <3>2. CASE files[t] # <<>>
      BY <3>2, FinishedIs DEF RemainingInv
    <3> QED
      BY <3>1, <3>2
  <2>2. Unread(t)' = {}
    BY <1>0, <2>1 DEF Unread, Busy
  <2>3. Ahead(t)' /\ FilesOf(t)' = FilesOf(t)
    BY <1>0 DEF Ahead, NotStarted, FilesOf
  <2>4. Sum(size, FilesOf(t)) \in Nat
    BY LeftIsNat
  <2> QED
    BY <1>0, <2>2, <2>3, <2>4, SumOfNone DEF Left
<1>2. lefts' = shares
  BY <1>1 DEF lefts
<1>3. RemainingIsExact' <=> remaining_size' = Sum(lefts', SearchThreads)
  BY DEF RemainingIsExact, lefts, Left, Ahead, TotalSize
<1>4. total_size' = total_size
  BY <1>0 DEF total_size, TotalSize
<1> QED
  BY <1>0, <1>2, <1>3, <1>4, SharesAreAll, TotalIs DEF RemainingInv

-----------------------------------------------------------------------------
(* The rows found.                                                         *)

(* The thread has dealt with its i-th file in the search that runs.        *)
PassedBy(t, i) == ~ Ahead(t) /\ (Busy(t) => i < at[t])

MatchesOf(d) == StoredFor(d, Found(d, query))

TextInv ==
  /\ call = "start" => search_text[next] = query
  /\ \A t \in SearchThreads :
       Busy(t) \/ (should_start[t] /\ ~ NotStarted(t) /\ files[t] # <<>>) => search_text[t] = query

EntriesInv ==
  \A t \in SearchThreads : pc[t] = "report" =>
    \/ files[t][at[t]] \in failed
    \/ current_entries[t] = Found(files[t][at[t]], query)

NoneMissing ==
  \A t \in SearchThreads : \A i \in DOMAIN files[t] :
    PassedBy(t, i) => files[t][i] \in failed \/ MatchesOf(files[t][i]) \subseteq results

NoneWrong ==
  call # "clear" =>
    \A row \in results :
      row.video \in failed \/ (row.video \in Databases /\ row \in MatchesOf(row.video))

MatchInv == TextInv /\ EntriesInv /\ NoneMissing /\ NoneWrong

(* A step that leaves alone what the rows depend on.                       *)
LEMMA MatchesSame ==
  ASSUME MatchInv, UNCHANGED <<files, at, pc, should_start, current_entries, results, failed, query>>,
         call' # "start" \/ search_text'[next'] = query,
         call # "clear",
         \A t \in SearchThreads : NotStarted(t) = NotStarted(t)' /\ search_text'[t] = search_text[t]
  PROVE  MatchInv'
<1>1. TextInv'
  BY DEF MatchInv, TextInv, Busy
<1>2. EntriesInv'
  BY DEF MatchInv, EntriesInv, Found
<1>3. NoneMissing'
  BY DEF MatchInv, NoneMissing, MatchesOf, StoredFor, Found, PassedBy, Ahead, Busy
<1>4. NoneWrong'
  BY DEF MatchInv, NoneWrong, MatchesOf, StoredFor, Found
<1> QED
  BY <1>1, <1>2, <1>3, <1>4 DEF MatchInv

(* The drawing thread starts the threads one by one with the text.         *)
LEMMA CallerMatches ==
  ASSUME FilesInv, ThreadInv, MatchInv, UNCHANGED query,
         ClearResults \/ SetText(query) \/ StartThread \/ Close \/ StopThread \/ JoinThread
  PROVE  MatchInv'
<1> USE DEF collected, requests, work, found, caller
<1>0. NumThreads \in Nat \ {0} /\ SearchThreads = 1 .. NumThreads /\ next \in SearchThreads
  BY SearchAssumption DEF SearchThreads, ThreadInv
<1>1. CASE ClearResults
  <2>0. /\ call = "clear" /\ call' = "text" /\ next' = 1 /\ results' = {}
        /\ UNCHANGED <<files, pc, at, current_entries, should_start, search_text>>
    BY <1>1 DEF ClearResults
  <2>1. \A t \in SearchThreads : NotStarted(t) /\ NotStarted(t)' /\ ~ Busy(t) /\ ~ Busy(t)'
    BY <1>0, <2>0 DEF NotStarted, ThreadInv, Busy
  <2> QED
    BY <2>0, <2>1 DEF MatchInv, TextInv, EntriesInv, NoneMissing, NoneWrong, PassedBy, Ahead, Busy
<1>2. CASE SetText(query)
  <2>0. /\ call = "text" /\ call' = "start"
        /\ search_text' = [search_text EXCEPT ![next] = query]
        /\ UNCHANGED <<files, pc, at, current_entries, should_start, results, failed, next>>
    BY <1>2 DEF SetText
  <2>1. \A t \in SearchThreads : NotStarted(t)' = NotStarted(t)
    BY <2>0 DEF NotStarted
  <2>2. search_text'[next] = query /\ \A t \in SearchThreads : t # next => search_text'[t] = search_text[t]
    BY <1>0, <2>0 DEF ThreadInv
  <2>3. TextInv'
    <3>1. \A t \in SearchThreads : Busy(t)' = Busy(t)
      BY <2>0 DEF Busy
    <3> QED
      BY <2>0, <2>1, <2>2, <3>1 DEF TextInv, MatchInv
  <2>4. EntriesInv'
    BY <2>0 DEF MatchInv, EntriesInv, Found
  <2>5. NoneMissing'
    BY <2>0, <2>1 DEF MatchInv, NoneMissing, MatchesOf, StoredFor, Found, PassedBy, Ahead, Busy
  <2>6. NoneWrong'
    BY <2>0 DEF MatchInv, NoneWrong, MatchesOf, StoredFor, Found
  <2> QED
    BY <2>3, <2>4, <2>5, <2>6 DEF MatchInv
<1>3. CASE StartThread
  <2>0. /\ call = "start" /\ call' \in {"none", "text"}
        /\ should_start' = [should_start EXCEPT ![next] = TRUE]
        /\ UNCHANGED <<files, pc, at, current_entries, search_text, results, failed>>
    BY <1>3 DEF StartThread
  <2>1. \A t \in SearchThreads : NotStarted(t)' <=> NotStarted(t) /\ t # next
    BY <1>0, <1>3 DEF StartThread, NotStarted
  <2>2. should_start'[next] /\ \A t \in SearchThreads : t # next => should_start'[t] = should_start[t]
    BY <1>0, <2>0 DEF ThreadInv
  <2>3. \A t \in SearchThreads : Busy(t)' = Busy(t)
    BY <2>0 DEF Busy
  <2>4. NotStarted(next)
    BY <1>0, <2>0 DEF NotStarted
  <2>5. TextInv'
    BY <2>0, <2>1, <2>2, <2>3 DEF TextInv, MatchInv
  <2>6. EntriesInv'
    BY <2>0 DEF MatchInv, EntriesInv, Found
  <2>7. \A t \in SearchThreads : Ahead(t)' = Ahead(t)
    BY <1>0, <2>1, <2>2, <2>4 DEF Ahead
  <2>8. NoneMissing'
    BY <2>0, <2>3, <2>7 DEF MatchInv, NoneMissing, MatchesOf, StoredFor, Found, PassedBy
  <2>9. NoneWrong'
    BY <2>0 DEF MatchInv, NoneWrong, MatchesOf, StoredFor, Found
  <2> QED
    BY <2>5, <2>6, <2>8, <2>9 DEF MatchInv
<1>4. CASE Close
  BY <1>4, MatchesSame DEF Close, NotStarted
<1>5. CASE StopThread
  BY <1>5, MatchesSame DEF StopThread, NotStarted
<1>6. CASE JoinThread
  BY <1>6, MatchesSame DEF JoinThread, NotStarted
<1> QED
  BY <1>1, <1>2, <1>3, <1>4, <1>5, <1>6

(* What the other threads have is not touched by a step of one.            *)
LEMMA OtherThreads ==
  ASSUME ThreadInv, NEW t \in SearchThreads, ThreadStep(t)
  PROVE  /\ UNCHANGED <<files, search_text, call, next>>
         /\ \A u \in SearchThreads \ {t} :
              /\ pc'[u] = pc[u] /\ at'[u] = at[u] /\ should_start'[u] = should_start[u]
              /\ current_entries'[u] = current_entries[u]
         /\ \A u \in SearchThreads : NotStarted(u)' = NotStarted(u)
         /\ failed \subseteq failed'
<1> USE DEF ThreadInv, collected, requests, work, found, caller, NotStarted
<1>1. CASE Leave(t)
  BY <1>1 DEF Leave
<1>2. CASE StartWork(t)
  BY <1>2 DEF StartWork
<1>3. CASE SearchFile(t)
  BY <1>3 DEF SearchFile
<1>4. CASE SearchFails(t)
  BY <1>4 DEF SearchFails
<1>5. CASE Report(t)
  BY <1>5 DEF Report, NextFile
<1>6. CASE ReportThrows(t)
  BY <1>6 DEF ReportThrows
<1> QED
  BY <1>1, <1>2, <1>3, <1>4, <1>5, <1>6 DEF ThreadStep

(* ... so that only what the thread itself has to show is left to see.     *)
LEMMA OneThreadMatches ==
  ASSUME ThreadInv, MatchInv, NEW t \in SearchThreads, ThreadStep(t), UNCHANGED query,
         Busy(t)' \/ (should_start[t]' /\ ~ NotStarted(t) /\ files[t] # <<>>) => search_text[t] = query,
         pc'[t] = "report" =>
           files[t][at'[t]] \in failed' \/ current_entries'[t] = Found(files[t][at'[t]], query),
         \A i \in DOMAIN files[t] :
           PassedBy(t, i)' => files[t][i] \in failed' \/ MatchesOf(files[t][i]) \subseteq results',
         results \subseteq results',
         \A row \in results' \ results :
           row.video \in failed' \/ (row.video \in Databases /\ row \in MatchesOf(row.video))
  PROVE  MatchInv'
<1>0. /\ UNCHANGED <<files, search_text, call, next>>
      /\ \A u \in SearchThreads \ {t} :
           /\ pc'[u] = pc[u] /\ at'[u] = at[u] /\ should_start'[u] = should_start[u]
           /\ current_entries'[u] = current_entries[u]
      /\ \A u \in SearchThreads : NotStarted(u)' = NotStarted(u)
      /\ failed \subseteq failed'
  BY OtherThreads
<1>1. \A u \in SearchThreads \ {t} : Busy(u)' = Busy(u) /\ Ahead(u)' = Ahead(u)
  BY <1>0 DEF Busy, Ahead
<1>2. TextInv'
  BY <1>0, <1>1 DEF MatchInv, TextInv
<1>3. EntriesInv'
  <2> SUFFICES ASSUME NEW u \in SearchThreads, pc'[u] = "report"
               PROVE  files'[u][at'[u]] \in failed' \/ current_entries'[u] = Found(files'[u][at'[u]], query')
    BY DEF EntriesInv
  <2>1. CASE u = t
    BY <1>0, <2>1
  <2>2. CASE u # t
    BY <1>0, <2>2 DEF MatchInv, EntriesInv
  <2> QED
    BY <2>1, <2>2
<1>4. \A d : MatchesOf(d)' = MatchesOf(d)
  BY DEF MatchesOf
<1>5. NoneMissing'
  <2> SUFFICES ASSUME NEW u \in SearchThreads, NEW i \in DOMAIN files[u], PassedBy(u, i)'
               PROVE  files[u][i] \in failed' \/ MatchesOf(files[u][i]) \subseteq results'
    BY <1>0, <1>4 DEF NoneMissing
  <2>1. CASE u = t
    BY <2>1
  <2>2. CASE u # t
    <3>1. PassedBy(u, i)
      BY <1>0, <1>1, <2>2 DEF PassedBy
    <3> QED
      BY <1>0, <3>1 DEF MatchInv, NoneMissing
  <2> QED
    BY <2>1, <2>2
<1>6. NoneWrong'
  <2> SUFFICES ASSUME call # "clear", NEW row \in results'
               PROVE  row.video \in failed' \/ (row.video \in Databases /\ row \in MatchesOf(row.video))
    BY <1>0, <1>4 DEF NoneWrong
  <2>1. CASE row \in results
    BY <1>0, <2>1 DEF MatchInv, NoneWrong
  <2> QED
    BY <2>1
<1> QED
  BY <1>2, <1>3, <1>5, <1>6 DEF MatchInv

(* A file that is reported is one whose matches are all in the table.      *)
LEMMA ReportMatches ==
  ASSUME FilesInv, ThreadInv, MatchInv, NEW t \in SearchThreads, Report(t), UNCHANGED query
  PROVE  MatchInv'
<1> DEFINE i == at[t]
           n == Len(files[t])
           file == files[t][i]
           stored == StoredFor(file, current_entries[t])
<1>0. /\ pc[t] = "report" /\ UNCHANGED <<files, should_start, search_text, call, next, failed>>
      /\ results' = results \cup stored
  BY DEF Report, collected, requests, caller
<1>1. n \in Nat /\ i \in 1 .. n /\ DOMAIN files[t] = 1 .. n /\ Busy(t) /\ ~ Ahead(t)
  BY <1>0, FilesAre DEF ThreadInv, Busy, Ahead
<1>2. file \in failed \/ current_entries[t] = Found(file, query)
  BY <1>0 DEF MatchInv, EntriesInv
<1>3. file \in failed \/ stored = MatchesOf(file)
  BY <1>2 DEF MatchesOf
<1>4. file \in Databases
  BY <1>1, FilesAre
<1>5. \A row \in stored : row.video = file
  BY DEF StoredFor
<1> HIDE DEF stored
<1>6. pc'[t] \in {"wait", "search"} /\ (pc'[t] = "search" => at'[t] = i + 1)
  BY DEF Report, NextFile, ThreadInv
<1>7. \A j \in DOMAIN files[t] : PassedBy(t, j)' => j = i \/ PassedBy(t, j)
  <2> TAKE j \in DOMAIN files[t]
  <2>1. CASE i = n
    <3>1. j \in 1 .. n /\ (j # i => j < i)
      BY <1>1, <2>1
    <3> QED
      BY <1>1, <3>1 DEF PassedBy
  <2>2. CASE i # n
    <3>1. pc'[t] = "search"
      BY <2>2 DEF Report, NextFile, ThreadInv
    <3>2. PassedBy(t, j)' => j < i + 1
      BY <1>6, <3>1 DEF PassedBy, Busy
    <3>3. j \in 1 .. n
      BY <1>1
    <3> QED
      BY <1>1, <3>2, <3>3 DEF PassedBy
  <2> QED
    BY <2>1, <2>2
<1>8. \A j \in DOMAIN files[t] :
        PassedBy(t, j)' => files[t][j] \in failed' \/ MatchesOf(files[t][j]) \subseteq results'
  BY <1>0, <1>3, <1>7 DEF MatchInv, NoneMissing
<1>9. \A row \in results' \ results :
        row.video \in failed' \/ (row.video \in Databases /\ row \in MatchesOf(row.video))
  <2> TAKE row \in results' \ results
  <2>1. row \in stored /\ row.video = file
    BY <1>0, <1>5
  <2> QED
    BY <1>0, <1>3, <1>4, <2>1
<1>10. search_text[t] = query
  BY <1>1 DEF MatchInv, TextInv
<1>11. ThreadStep(t)
  BY DEF ThreadStep
<1>12. pc'[t] # "report"
  BY <1>6
<1>13. results \subseteq results'
  BY <1>0
<1> QED
  BY <1>8, <1>9, <1>10, <1>11, <1>12, <1>13, OneThreadMatches

(* No step of a thread puts a wrong row in the table, or leaves one out.   *)
LEMMA ThreadMatches ==
  ASSUME FilesInv, ThreadInv, MatchInv, NEW t \in SearchThreads, ThreadStep(t), UNCHANGED query
  PROVE  MatchInv'
<1> USE DEF collected, requests, work, found, caller
<1>0. UNCHANGED <<files, search_text, call, next>> /\ NotStarted(t)' = NotStarted(t) /\ failed \subseteq failed'
  BY OtherThreads
<1>1. CASE Leave(t)
  <2>0. pc[t] = "wait" /\ pc'[t] = "exited" /\ UNCHANGED <<should_start, at, results, failed>>
    BY <1>1 DEF Leave, ThreadInv
  <2>1. \A i \in DOMAIN files[t] : PassedBy(t, i)' => PassedBy(t, i)
    BY <1>0, <2>0 DEF PassedBy, Ahead, Busy
  <2>2. \A i \in DOMAIN files[t] :
          PassedBy(t, i)' => files[t][i] \in failed' \/ MatchesOf(files[t][i]) \subseteq results'
    BY <2>0, <2>1 DEF MatchInv, NoneMissing
  <2>3. Busy(t)' \/ (should_start[t]' /\ ~ NotStarted(t) /\ files[t] # <<>>) => search_text[t] = query
    BY <2>0 DEF Busy, MatchInv, TextInv
  <2> QED
    BY <2>0, <2>2, <2>3, OneThreadMatches
<1>2. CASE StartWork(t)
  <2>0. /\ pc[t] = "wait" /\ should_start[t] /\ ~ should_start'[t] /\ UNCHANGED <<at, results, failed>>
        /\ pc'[t] = IF files[t] = <<>> THEN "wait" ELSE "search"
    BY <1>2 DEF StartWork, ThreadInv
  <2>1. files[t] # <<>> => search_text[t] = query
    BY <2>0 DEF ThreadInv, MatchInv, TextInv
  <2>2. \A i \in DOMAIN files[t] : ~ PassedBy(t, i)'
    <3>1. CASE files[t] = <<>>
      BY <3>1
    <3>2. CASE files[t] # <<>>
      <4>1. Busy(t)' /\ at'[t] = 1
        BY <2>0, <3>2 DEF Busy, ThreadInv
      <4>2. \A i \in DOMAIN files[t] : ~ (i < 1)
        BY FilesAre
      <4> QED
        BY <4>1, <4>2 DEF PassedBy
    <3> QED
      BY <3>1, <3>2
  <2>3. Busy(t)' => files[t] # <<>>
    BY <2>0 DEF Busy
  <2> QED
    BY <2>0, <2>1, <2>2, <2>3, OneThreadMatches
<1>3. CASE SearchFile(t) \/ SearchFails(t)
  <2>0. /\ pc[t] = "search" /\ pc'[t] = "report" /\ UNCHANGED <<should_start, at, results>>
        /\ files[t][at[t]] \in failed' \/ current_entries'[t] = Found(files[t][at[t]], search_text[t])
    BY <1>3 DEF SearchFile, SearchFails, ThreadInv
  <2>1. search_text[t] = query
    BY <2>0 DEF MatchInv, TextInv, Busy
  <2>2. \A i \in DOMAIN files[t] : PassedBy(t, i)' => PassedBy(t, i)
    BY <1>0, <2>0 DEF PassedBy, Ahead, Busy
  <2>3. \A i \in DOMAIN files[t] :
          PassedBy(t, i)' => files[t][i] \in failed' \/ MatchesOf(files[t][i]) \subseteq results'
    BY <1>0, <2>0, <2>2 DEF MatchInv, NoneMissing
  <2> QED
    BY <2>0, <2>1, <2>3, OneThreadMatches
<1>4. CASE ReportThrows(t)
  <2>0. pc[t] = "report" /\ pc'[t] = "thrown" /\ UNCHANGED <<should_start, at, results, failed>>
    BY <1>4 DEF ReportThrows, ThreadInv
  <2>1. search_text[t] = query
    BY <2>0 DEF MatchInv, TextInv, Busy
  <2>2. \A i \in DOMAIN files[t] : PassedBy(t, i)' => PassedBy(t, i)
    BY <1>0, <2>0 DEF PassedBy, Ahead, Busy
  <2>3. \A i \in DOMAIN files[t] :
          PassedBy(t, i)' => files[t][i] \in failed' \/ MatchesOf(files[t][i]) \subseteq results'
    BY <2>0, <2>2 DEF MatchInv, NoneMissing
  <2> QED
    BY <2>0, <2>1, <2>3, OneThreadMatches
<1> QED
  BY <1>1, <1>2, <1>3, <1>4, ReportMatches DEF ThreadStep

(* A new search has nothing to show for itself yet.                        *)
LEMMA NewSearchMatches ==
  ASSUME FilesInv, ThreadInv, RemainingIsExact, is_finished, FindText
  PROVE  MatchInv'
<1>1. call' = "clear" /\ \A t \in SearchThreads : NotStarted(t)' /\ Ahead(t)'
  BY DEF FindText, NotStarted, Ahead
<1>2. \A t \in SearchThreads : ~ Busy(t)' /\ pc'[t] # "report"
  BY <1>1, NewSearchThreads DEF ThreadInv, Busy
<1> QED
  BY <1>1, <1>2 DEF MatchInv, TextInv, EntriesInv, NoneMissing, NoneWrong, PassedBy

-----------------------------------------------------------------------------
SearchInv == FilesInv /\ ThreadInv /\ RemainingInv /\ MatchInv

(* Init has all of it.                                                     *)
LEMMA SearchStarts == Init => SearchInv
<1> SUFFICES ASSUME Init PROVE SearchInv
  OBVIOUS
<1>0. /\ size \in Layouts /\ \E order \in BySize(size) : files = Deal(size, order)
      /\ search_text = [t \in SearchThreads |-> NoText]
      /\ should_start = [t \in SearchThreads |-> FALSE]
      /\ should_stop = [t \in SearchThreads |-> FALSE]
      /\ current_entries = [t \in SearchThreads |-> {}]
      /\ pc = [t \in SearchThreads |-> "wait"]
      /\ at = [t \in SearchThreads |-> 1]
      /\ remaining_size = 0 /\ results = {} /\ failed = {}
      /\ call = "none" /\ next = 1 /\ query = NoText
  BY DEF Init, SearchInit
<1>1. FilesInv
  BY <1>0, DatabasesDealt, ViewerAssumption DEF FilesInv
<1>2. ThreadInv
  BY <1>0, SearchAssumption DEF ThreadInv, SearchThreads, Busy, NotStarted
<1>3. RemainingInv
  <2>1. \A t \in SearchThreads : Unread(t) = {} /\ ~ Ahead(t)
    BY <1>0 DEF Unread, Ahead, NotStarted
  <2>2. \A t \in SearchThreads : lefts[t] = 0
    BY <2>1, SumOfNone DEF lefts, Left
  <2>3. Sum(lefts, SearchThreads) = 0
    BY <2>2, ThreadsAreFinite, SumOfZeros
  <2> QED
    BY <1>0, <1>1, <2>3, RemainingIs, TotalIs DEF RemainingInv
<1>4. MatchInv
  <2>1. \A t \in SearchThreads : \A d : StoredFor(d, Found(d, query)) = {}
    BY <1>0 DEF StoredFor, Found
  <2> QED
    BY <1>0, <2>1 DEF MatchInv, TextInv, EntriesInv, NoneMissing, NoneWrong, MatchesOf, Busy
<1> QED
  BY <1>1, <1>2, <1>3, <1>4 DEF SearchInv

(* Every step keeps it.                                                    *)
LEMMA SearchGoesOn == SearchInv /\ [Next]_vars => SearchInv'
<1> SUFFICES ASSUME SearchInv, [Next]_vars PROVE SearchInv'
  OBVIOUS
<1> USE DEF SearchInv
<1>1. CASE UNCHANGED <<search_vars, query>>
  BY <1>1 DEF FilesInv, ThreadInv, RemainingInv, MatchInv, search_vars, collected, requests, work,
     found, caller, NotStarted, Busy, Closing, RemainingIsExact, Unread, FilesOf, TotalSize,
     total_size, TextInv, EntriesInv, NoneMissing, NoneWrong, PassedBy, Ahead, MatchesOf, Found, StoredFor
<1>2. CASE is_finished /\ FindText
  <2>1. FilesInv'
    BY <1>2, FilesKept DEF FilesInv
  <2> QED
    BY <1>2, <2>1, NewSearchThreads, NewSearchRemaining, NewSearchMatches DEF RemainingInv
<1>3. CASE EngineMoves /\ UNCHANGED query
  <2>1. FilesInv'
    BY <1>3, FilesKept DEF FilesInv
  <2>2. MatchInv'
    BY <1>3, CallerMatches, ThreadMatches DEF EngineMoves
  <2> QED
    BY <1>3, <2>1, <2>2, ThreadsKept, RemainingKept
<1> QED
  BY <1>1, <1>2, <1>3, StepsAre

(* It holds in every reachable state.                                      *)
LEMMA SearchIsRight == Spec => []SearchInv
  BY SearchStarts, SearchGoesOn, PTL DEF Spec

(* The number the search engine counts down is at any time the size of     *)
(* the files that are still to be read, over all its threads: it never     *)
(* wraps around, and reaches 0 when the last of them is through.           *)
THEOREM RemainingCorrect == Spec => []RemainingIsExact
<1>1. SearchInv => RemainingIsExact
  BY DEF SearchInv, RemainingInv
<1> QED
  BY <1>1, SearchIsRight, PTL

(* No search starts while a thread that has files is at work on the one    *)
(* before, or has yet to start it.                                         *)
THEOREM SearchesApartCorrect == Spec => SearchesApart
<1>1. SearchInv /\ [Next]_vars =>
        [FindText => \A t \in SearchThreads :
           files[t] # <<>> => pc[t] = "wait" /\ ~ should_start[t]]_search_vars
  <2> SUFFICES ASSUME SearchInv, [Next]_vars, FindText
               PROVE  (\A t \in SearchThreads : files[t] # <<>> => pc[t] = "wait" /\ ~ should_start[t])
                      \/ UNCHANGED search_vars
    OBVIOUS
  <2>1. CASE UNCHANGED <<search_vars, query>>
    BY <2>1
  <2>2. CASE is_finished
    BY <2>2, NewSearchThreads DEF SearchInv, RemainingInv
  <2>3. ~ EngineMoves
    <3>1. call = "none" /\ call' = "clear"
      BY DEF FindText
    <3> QED
      BY <3>1 DEF EngineMoves, ClearResults, SetText, StartThread, Close, StopThread, JoinThread,
         ThreadStep, Leave, StartWork, SearchFile, SearchFails, Report, ReportThrows, caller
  <2> QED
    BY <2>1, <2>2, <2>3, StepsAre
<1> QED
  BY <1>1, SearchIsRight, PTL DEF Spec, SearchesApart

(* The table holds what the running search has found, each row under its   *)
(* own video, and all there is once the search has finished: for whatever  *)
(* databases, however they are dealt, and in any order of the threads.     *)
(* Only databases that could not be read are left out of this.             *)
THEOREM ResultsCorrect == Spec => []ResultsAreExact
<1>1. SearchInv => ResultsAreExact
  <2> SUFFICES ASSUME SearchInv, call \notin {"clear", "stop", "join", "gone"} PROVE ResultsAreExact
    BY DEF ResultsAreExact
  <2> DEFINE wanted == UNION {MatchesOf(d) : d \in Databases \ failed}
             sound == {row \in results : row.video \notin failed}
  <2>1. sound \subseteq wanted
    BY DEF SearchInv, MatchInv, NoneWrong
  <2>2. ASSUME is_finished, NEW d \in Databases \ failed, NEW row \in MatchesOf(d) PROVE row \in sound
    <3>1. PICK t \in SearchThreads : d \in ToSet(files[t])
      BY DEF SearchInv, FilesInv
    <3>2. PICK i \in DOMAIN files[t] : files[t][i] = d
      BY <3>1 DEF ToSet
    <3>3. files[t] # <<>>
      BY <3>2
    <3>4. PassedBy(t, i)
      BY <2>2, <3>3, FinishedIs DEF SearchInv, RemainingInv, PassedBy, Ahead
    <3>5. MatchesOf(d) \subseteq results
      BY <3>2, <3>4 DEF SearchInv, MatchInv, NoneMissing
    <3>6. row.video = d
      BY <2>2 DEF MatchesOf, StoredFor
    <3> QED
      BY <2>2, <3>5, <3>6
  <2>3. is_finished => sound = wanted
    BY <2>1, <2>2
  <2> QED
    BY <2>1, <2>3 DEF ResultsAreExact, MatchesOf
<1> QED
  BY <1>1, SearchIsRight, PTL

-----------------------------------------------------------------------------
(* The tree: where its frames are.                                         *)
Places == [1 .. 4 -> Nat \ {0}]

(* Two places are in the same node of a depth.                             *)
Agree(p, q, depth) ==
  /\ depth >= 1 => p[1] = q[1]
  /\ depth >= 2 => p[2] = q[2]
  /\ depth >= 3 => p[3] = q[3]
  /\ depth >= 4 => p[4] = q[4]

(* The next node of a depth, and the first of all below it.                *)
Step(p, depth) ==
  [k \in 1 .. 4 |-> IF k < depth THEN p[k] ELSE IF k = depth THEN p[k] + 1 ELSE 1]

Less(p, q) ==
  \/ p[1] < q[1]
  \/ p[1] = q[1] /\ p[2] < q[2]
  \/ p[1] = q[1] /\ p[2] = q[2] /\ p[3] < q[3]
  \/ p[1] = q[1] /\ p[2] = q[2] /\ p[3] = q[3] /\ p[4] < q[4]

(* The frames of a tree come in order, and no node is left out.            *)
Placed(tree) ==
  /\ Len(tree) \in Nat /\ DOMAIN tree = 1 .. Len(tree)
  /\ \A i \in DOMAIN tree : tree[i].at \in Places
  /\ tree # <<>> => 1 \in DOMAIN tree /\ tree[1].at = <<1, 1, 1, 1>>
  /\ \A i \in DOMAIN tree : i + 1 \in DOMAIN tree =>
       \E depth \in 1 .. 4 : tree[i + 1].at = Step(tree[i].at, depth)

(* A place is four numbers from 1 on.                                      *)
LEMMA PlaceIs ==
  ASSUME NEW p \in Places
  PROVE  /\ p[1] \in Nat \ {0} /\ p[2] \in Nat \ {0} /\ p[3] \in Nat \ {0} /\ p[4] \in Nat \ {0}
         /\ p = <<p[1], p[2], p[3], p[4]>>
<1>1. 1 \in 1 .. 4 /\ 2 \in 1 .. 4 /\ 3 \in 1 .. 4 /\ 4 \in 1 .. 4
  OBVIOUS
<1> QED
  BY <1>1 DEF Places

(* A step is to a larger place, within the node above.                     *)
LEMMA StepIs ==
  ASSUME NEW p \in Places
  PROVE  /\ Step(p, 1) = <<p[1] + 1, 1, 1, 1>> /\ Step(p, 2) = <<p[1], p[2] + 1, 1, 1>>
         /\ Step(p, 3) = <<p[1], p[2], p[3] + 1, 1>> /\ Step(p, 4) = <<p[1], p[2], p[3], p[4] + 1>>
         /\ \A depth \in 1 .. 4 :
              Step(p, depth) \in Places /\ Less(p, Step(p, depth)) /\ Agree(p, Step(p, depth), depth - 1)
<1>1. \A k \in 1 .. 4 : p[k] \in Nat \ {0}
  BY DEF Places
<1>2. ASSUME NEW depth \in 1 .. 4
      PROVE  Step(p, depth) \in Places /\ Less(p, Step(p, depth)) /\ Agree(p, Step(p, depth), depth - 1)
  <2>1. Step(p, depth) \in Places
    BY <1>1 DEF Step, Places
  <2>2. \A k \in 1 .. 4 :
          Step(p, depth)[k] = IF k < depth THEN p[k] ELSE IF k = depth THEN p[k] + 1 ELSE 1
    BY DEF Step
  <2>3. 1 \in 1 .. 4 /\ 2 \in 1 .. 4 /\ 3 \in 1 .. 4 /\ 4 \in 1 .. 4
    OBVIOUS
  <2> HIDE DEF Step
  <2> QED
    BY <1>1, <2>1, <2>2, <2>3 DEF Less, Agree
<1>3. /\ Step(p, 1) = <<p[1] + 1, 1, 1, 1>> /\ Step(p, 2) = <<p[1], p[2] + 1, 1, 1>>
      /\ Step(p, 3) = <<p[1], p[2], p[3] + 1, 1>> /\ Step(p, 4) = <<p[1], p[2], p[3], p[4] + 1>>
  BY <1>1 DEF Step
<1> QED
  BY <1>2, <1>3

(* Places are in an order.                                                 *)
LEMMA LessIsTransitive ==
  ASSUME NEW p \in Places, NEW q \in Places, NEW r \in Places, Less(p, q), Less(q, r)
  PROVE  Less(p, r)
  BY PlaceIs DEF Less

(* Frames further right have larger places.                                *)
LEMMA InOrder ==
  ASSUME NEW tree, Placed(tree), NEW i \in DOMAIN tree, NEW j \in DOMAIN tree, i < j
  PROVE  Less(tree[i].at, tree[j].at)
<1> DEFINE good == {k \in Nat : i + k + 1 \in DOMAIN tree => Less(tree[i].at, tree[i + k + 1].at)}
<1>0. /\ Len(tree) \in Nat /\ DOMAIN tree = 1 .. Len(tree)
      /\ \A k \in DOMAIN tree : tree[k].at \in Places
      /\ \A k \in DOMAIN tree : k + 1 \in DOMAIN tree =>
           \E depth \in 1 .. 4 : tree[k + 1].at = Step(tree[k].at, depth)
  BY DEF Placed
<1>1. \A k \in DOMAIN tree : k + 1 \in DOMAIN tree => Less(tree[k].at, tree[k + 1].at)
  BY <1>0, StepIs
<1>2. 0 \in good
  BY <1>0, <1>1
<1>3. ASSUME NEW k \in Nat, k \in good PROVE k + 1 \in good
  <2> SUFFICES ASSUME i + (k + 1) + 1 \in DOMAIN tree
               PROVE  Less(tree[i].at, tree[i + (k + 1) + 1].at)
    OBVIOUS
  <2>1. i + k + 1 \in DOMAIN tree /\ (i + k + 1) + 1 = i + (k + 1) + 1 /\ (i + k + 1) + 1 \in DOMAIN tree
    BY <1>0
  <2>2. Less(tree[i].at, tree[i + k + 1].at) /\ Less(tree[i + k + 1].at, tree[(i + k + 1) + 1].at)
    BY <1>1, <1>3, <2>1
  <2> QED
    BY <1>0, <2>1, <2>2, LessIsTransitive
<1>4. j - i - 1 \in Nat /\ i + (j - i - 1) + 1 = j
  BY <1>0
<1>5. j - i - 1 \in good
  <2> HIDE DEF good
  <2> QED
    BY <1>2, <1>3, <1>4, CountingUp
<1> QED
  BY <1>4, <1>5

(* Nodes have their frames next to each other, and are numbered in order.  *)
LEMMA NodesAreTogether ==
  ASSUME NEW tree, Placed(tree), NEW i \in DOMAIN tree, NEW j \in DOMAIN tree, i <= j,
         NEW depth \in 0 .. 4, Agree(tree[i].at, tree[j].at, depth)
  PROVE  /\ \A m \in i .. j : Agree(tree[i].at, tree[m].at, depth) /\ Agree(tree[m].at, tree[j].at, depth)
         /\ depth < 4 => tree[i].at[depth + 1] <= tree[j].at[depth + 1]
<1>0. /\ Len(tree) \in Nat /\ DOMAIN tree = 1 .. Len(tree)
      /\ \A k \in DOMAIN tree : tree[k].at \in Places
  BY DEF Placed
<1>1. i < j => Less(tree[i].at, tree[j].at)
  BY InOrder
<1>2. ASSUME NEW m \in i .. j
      PROVE  Agree(tree[i].at, tree[m].at, depth) /\ Agree(tree[m].at, tree[j].at, depth)
  <2>1. m \in DOMAIN tree /\ i <= m /\ m <= j
    BY <1>0
  <2>2. i < m => Less(tree[i].at, tree[m].at)
    BY <2>1, InOrder
  <2>3. m < j => Less(tree[m].at, tree[j].at)
    BY <2>1, InOrder
  <2>4. (i = m \/ i < m) /\ (m = j \/ m < j)
    BY <1>0, <2>1
  <2>5. tree[i].at \in Places /\ tree[m].at \in Places /\ tree[j].at \in Places
    BY <1>0, <2>1
  <2> QED
    BY <2>2, <2>3, <2>4, <2>5, PlaceIs DEF Less, Agree
<1>3. ASSUME depth < 4 PROVE tree[i].at[depth + 1] <= tree[j].at[depth + 1]
  <2>1. depth \in {0, 1, 2, 3} /\ (i = j \/ i < j)
    BY <1>0, <1>3
  <2>2. tree[i].at \in Places /\ tree[j].at \in Places
    BY <1>0
  <2> QED
    BY <1>1, <2>1, <2>2, PlaceIs DEF Less, Agree
<1> QED
  BY <1>2, <1>3

(* A path is the beginning of a place.                                     *)
LEMMA BeginningIs ==
  ASSUME NEW p \in Places, NEW depth \in 0 .. 4
  PROVE  /\ Len(SubSeq(p, 1, depth)) = depth /\ DOMAIN SubSeq(p, 1, depth) = 1 .. depth
         /\ \A k \in 1 .. depth : SubSeq(p, 1, depth)[k] = p[k]
         /\ SubSeq(p, 1, depth) \in Seq(Nat)
<1>1. \A k \in 1 .. depth : p[k] \in Nat
  BY DEF Places
<1>2. /\ SubSeq(p, 1, depth) \in Seq(Nat)
      /\ Len(SubSeq(p, 1, depth)) = IF 1 <= depth THEN depth - 1 + 1 ELSE 0
      /\ \A k \in 1 .. depth - 1 + 1 : SubSeq(p, 1, depth)[k] = p[1 + k - 1]
  BY <1>1, SubSeqProperties
<1>3. /\ depth - 1 + 1 = depth /\ \A k \in 1 .. depth : 1 + k - 1 = k
      /\ (IF 1 <= depth THEN depth - 1 + 1 ELSE 0) = depth
  OBVIOUS
<1> QED
  BY <1>2, <1>3

(* Nodes compared by their paths or by their numbers are the same.         *)
LEMMA SameBeginning ==
  ASSUME NEW p \in Places, NEW q \in Places, NEW depth \in 1 .. 4
  PROVE  SubSeq(p, 1, depth) = SubSeq(q, 1, depth) <=> Agree(p, q, depth)
<1>1. SubSeq(p, 1, depth) = SubSeq(q, 1, depth) <=> \A k \in 1 .. depth : p[k] = q[k]
  BY BeginningIs
<1>2. (\A k \in 1 .. depth : p[k] = q[k]) <=> Agree(p, q, depth)
  <2>1. 1 \in 1 .. depth
    OBVIOUS
  <2>2. (2 \in 1 .. depth <=> depth >= 2) /\ (3 \in 1 .. depth <=> depth >= 3) /\ (4 \in 1 .. depth <=> depth >= 4)
    OBVIOUS
  <2>3. \A k \in 1 .. depth : k \in {1, 2, 3, 4}
    OBVIOUS
  <2> QED
    BY <2>1, <2>2, <2>3 DEF Agree
<1> QED
  BY <1>1, <1>2

(* How long a path is.                                                     *)
LEMMA LengthIs ==
  /\ Len(<<>>) = 0 /\ \A a : Len(<<a>>) = 1
  /\ \A a, b : Len(<<a, b>>) = 2
  /\ \A a, b, c : Len(<<a, b, c>>) = 3
  OBVIOUS

(* A place is under a path that it begins with.                            *)
LEMMA UnderIs ==
  ASSUME NEW q \in Places
  PROVE  /\ Under(<<>>, q)
         /\ \A a : Under(<<a>>, q) <=> q[1] = a
         /\ \A a, b : Under(<<a, b>>, q) <=> q[1] = a /\ q[2] = b
         /\ \A a, b, c : Under(<<a, b, c>>, q) <=> q[1] = a /\ q[2] = b /\ q[3] = c
<1> DEFINE B(depth) == SubSeq(q, 1, depth)
<1>1. \A depth \in 0 .. 4 : Len(B(depth)) = depth /\ B(depth) \in Seq(Nat) /\ \A k \in 1 .. depth : B(depth)[k] = q[k]
  BY BeginningIs
<1> HIDE DEF B
<1>2. /\ B(0) = <<>> /\ B(1) = <<q[1]>> /\ B(2) = <<q[1], q[2]>> /\ B(3) = <<q[1], q[2], q[3]>>
  <2>1. Len(B(0)) = 0 /\ B(0) \in Seq(Nat)
    BY <1>1
  <2>2. Len(B(1)) = 1 /\ B(1) \in Seq(Nat) /\ B(1)[1] = q[1]
    BY <1>1
  <2>3. Len(B(2)) = 2 /\ B(2) \in Seq(Nat) /\ B(2)[1] = q[1] /\ B(2)[2] = q[2]
    BY <1>1
  <2>4. Len(B(3)) = 3 /\ B(3) \in Seq(Nat) /\ B(3)[1] = q[1] /\ B(3)[2] = q[2] /\ B(3)[3] = q[3]
    BY <1>1
  <2>5. B(0) = <<>>
    BY <2>1
  <2>6. B(1) = <<q[1]>>
    BY <2>2
  <2>7. B(2) = <<q[1], q[2]>>
    BY <2>3
  <2>8. B(3) = <<q[1], q[2], q[3]>>
    BY <2>4
  <2> QED
    BY <2>5, <2>6, <2>7, <2>8
<1>3. /\ Under(<<>>, q) <=> B(0) = <<>>
      /\ \A a : Under(<<a>>, q) <=> B(1) = <<a>>
      /\ \A a, b : Under(<<a, b>>, q) <=> B(2) = <<a, b>>
      /\ \A a, b, c : Under(<<a, b, c>>, q) <=> B(3) = <<a, b, c>>
  BY LengthIs DEF Under, B
<1> QED
  BY <1>2, <1>3

(* The first frame under a path.                                           *)
LEMMA FirstUnderIs ==
  /\ FirstUnder(<<>>) = <<1, 1, 1, 1>>
  /\ \A a : FirstUnder(<<a>>) = <<a, 1, 1, 1>>
  /\ \A a, b : FirstUnder(<<a, b>>) = <<a, b, 1, 1>>
  /\ \A a, b, c : FirstUnder(<<a, b, c>>) = <<a, b, c, 1>>
  BY LengthIs DEF FirstUnder

(* Some number of a bounded set is the greatest.                           *)
LEMMA GreatestIs ==
  ASSUME NEW n \in Nat, NEW S \in SUBSET (0 .. n), S # {}
  PROVE  Max(S) \in S /\ \A x \in S : x <= Max(S)
<1> DEFINE mirrored == {n - x : x \in S}
<1>1. mirrored \in SUBSET Nat /\ mirrored # {}
  <2>1. \A x \in S : n - x \in Nat
    OBVIOUS
  <2> QED
    BY <2>1
<1>2. Min(mirrored) \in mirrored /\ \A y \in mirrored : Min(mirrored) <= y
  <2> HIDE DEF mirrored
  <2> QED
    BY <1>1, LeastIs
<1>3. PICK x \in S : Min(mirrored) = n - x
  BY <1>2
<1>4. \A y \in S : y <= x
  <2> TAKE y \in S
  <2>1. n - x <= n - y
    BY <1>2, <1>3
  <2> QED
    BY <2>1
<1> QED
  BY <1>4 DEF Max

(* Places agree to a depth when they do so to the one above and there.     *)
LEMMA AgreeNext ==
  ASSUME NEW p \in Places, NEW q \in Places
  PROVE  /\ Agree(p, q, 0) /\ \A depth \in 0 .. 4 : Agree(p, p, depth)
         /\ \A depth \in 1 .. 4 : Agree(p, q, depth) <=> Agree(p, q, depth - 1) /\ p[depth] = q[depth]
         /\ \A depth \in 0 .. 4 : Agree(p, q, depth) <=> Agree(q, p, depth)
<1>1. ASSUME NEW depth \in 1 .. 4
      PROVE  Agree(p, q, depth) <=> Agree(p, q, depth - 1) /\ p[depth] = q[depth]
  <2>1. depth \in {1, 2, 3, 4}
    OBVIOUS
  <2> QED
    BY <2>1 DEF Agree
<1> QED
  BY <1>1 DEF Agree

(* When a step leaves a node of some depth, but none above it, it is the   *)
(* step to the next node of that depth.                                    *)
LEMMA LeavingIs ==
  ASSUME NEW p \in Places, NEW q \in Places, NEW depth \in 1 .. 4, NEW d \in 1 .. 4,
         Agree(p, q, depth), Agree(p, Step(q, d), depth - 1), ~ Agree(p, Step(q, d), depth)
  PROVE  Step(q, d) = Step(p, depth)
<1>1. depth \in {1, 2, 3, 4} /\ d \in {1, 2, 3, 4}
  OBVIOUS
<1>2. \A k \in 1 .. 4 : p[k] \in Nat \ {0} /\ q[k] \in Nat \ {0}
  BY DEF Places
<1>3. \A k \in 1 .. 4 : Step(q, d)[k] = IF k < d THEN q[k] ELSE IF k = d THEN q[k] + 1 ELSE 1
  BY DEF Step
<1>4. 1 \in 1 .. 4 /\ 2 \in 1 .. 4 /\ 3 \in 1 .. 4 /\ 4 \in 1 .. 4
  OBVIOUS
<1>5. d = depth
  <2> HIDE DEF Step
  <2> QED
    BY <1>1, <1>2, <1>3, <1>4 DEF Agree
<1>6. \A k \in 1 .. 4 : k <= depth => p[k] = q[k]
  <2>1. \A k \in 1 .. 4 : k \in {1, 2, 3, 4}
    OBVIOUS
  <2> QED
    BY <1>1, <2>1 DEF Agree
<1> QED
  BY <1>5, <1>6 DEF Step

(* The first frame behind that is in another node.                         *)
LEMMA NextNode ==
  ASSUME Placed(days), NEW i \in DOMAIN days, NEW depth \in 1 .. 4
  PROVE  LET last == \A j \in DOMAIN days :
                       Agree(days[i].at, days[j].at, depth - 1) => days[j].at[depth] <= days[i].at[depth]
         IN /\ Behind(i, depth) \in DOMAIN days
            /\ last /\ depth > 1 => Behind(i, depth) = Behind(i, depth - 1)
            /\ last /\ depth = 1 => Behind(i, depth) = Len(days)
            /\ ~ last => days[Behind(i, depth)].at = Step(days[i].at, depth)
<1> DEFINE n == Len(days)
           p == days[i].at
           last == \A j \in DOMAIN days : Agree(p, days[j].at, depth - 1) => days[j].at[depth] <= p[depth]
           others(d) == {j \in i .. n : ~ Agree(p, days[j].at, d)}
<1>0. /\ n \in Nat /\ DOMAIN days = 1 .. n /\ i \in 1 .. n
      /\ \A j \in 1 .. n : days[j].at \in Places
      /\ \A j \in 1 .. n : j + 1 \in 1 .. n => \E d \in 1 .. 4 : days[j + 1].at = Step(days[j].at, d)
  BY DEF Placed
<1>00. p \in Places /\ \A j \in 1 .. n : \A d \in 1 .. 4 : days[j].at[d] \in Nat
  BY <1>0 DEF Places
<1>1. \A d \in 1 .. 4 : Behind(i, d) = IF others(d) = {} THEN n ELSE Min(others(d))
  <2> TAKE d \in 1 .. 4
  <2>1. {j \in i .. n : ~ SameNode(days[i], days[j], d)} = others(d)
    BY <1>0, SameBeginning DEF SameNode
  <2> QED
    BY <2>1 DEF Behind
<1>2. \A d \in 1 .. 4 : others(d) # {} => Min(others(d)) \in others(d) /\ \A j \in others(d) : Min(others(d)) <= j
  <2> TAKE d \in 1 .. 4
  <2>1. others(d) \in SUBSET Nat
    BY <1>0
  <2> HIDE DEF others
  <2> QED
    BY <2>1, LeastIs
<1>3. Behind(i, depth) \in DOMAIN days
  <2>1. n \in 1 .. n /\ others(depth) \subseteq 1 .. n
    BY <1>0
  <2> HIDE DEF others
  <2> QED
    BY <1>0, <1>1, <1>2, <2>1
<1>4. ASSUME last PROVE \A j \in i .. n : Agree(p, days[j].at, depth - 1) => Agree(p, days[j].at, depth)
  <2> SUFFICES ASSUME NEW j \in i .. n, Agree(p, days[j].at, depth - 1) PROVE p[depth] = days[j].at[depth]
    BY <1>0, AgreeNext
  <2>1. j \in 1 .. n /\ i <= j /\ depth - 1 \in 0 .. 4 /\ depth - 1 < 4 /\ depth - 1 + 1 = depth
    BY <1>0
  <2>2. p[depth] <= days[j].at[depth]
    BY <1>0, <2>1, NodesAreTogether
  <2>3. days[j].at[depth] <= p[depth]
    BY <1>0, <1>4, <2>1
  <2> QED
    BY <1>0, <1>00, <2>1, <2>2, <2>3
<1>5. ASSUME last, depth > 1 PROVE Behind(i, depth) = Behind(i, depth - 1)
  <2>1. \A j \in i .. n : Agree(p, days[j].at, depth) <=> Agree(p, days[j].at, depth - 1)
    BY <1>0, <1>4, <1>5, AgreeNext
  <2>2. others(depth) = others(depth - 1)
    BY <2>1
  <2>3. depth - 1 \in 1 .. 4
    BY <1>5
  <2> QED
    BY <1>1, <2>2, <2>3
<1>6. ASSUME last, depth = 1 PROVE Behind(i, depth) = n
  <2>1. \A j \in i .. n : Agree(p, days[j].at, depth)
    BY <1>0, <1>4, <1>6, AgreeNext
  <2> QED
    BY <1>1, <2>1
<1>7. ASSUME ~ last PROVE days[Behind(i, depth)].at = Step(p, depth)
  <2>1. PICK j \in 1 .. n : Agree(p, days[j].at, depth - 1) /\ ~ (days[j].at[depth] <= p[depth])
    BY <1>0, <1>7
  <2>2. i < j
    <3> SUFFICES ASSUME j <= i PROVE FALSE
      BY <1>0
    <3>1. Agree(days[j].at, p, depth - 1) /\ depth - 1 \in 0 .. 4 /\ depth - 1 < 4 /\ depth - 1 + 1 = depth
      BY <1>0, <2>1, AgreeNext
    <3>2. days[j].at[depth] <= p[depth]
      BY <1>0, <3>1, NodesAreTogether
    <3> QED
      BY <2>1, <3>2
  <2>3. ~ Agree(p, days[j].at, depth)
    BY <1>0, <1>00, <2>1, AgreeNext
  <2>4. j \in others(depth)
    BY <1>0, <2>2, <2>3
  <2> DEFINE m == Behind(i, depth)
  <2>5. m \in i .. n /\ ~ Agree(p, days[m].at, depth) /\ m <= j /\ \A k \in i .. n : ~ Agree(p, days[k].at, depth) => m <= k
    BY <1>1, <1>2, <2>4
  <2> HIDE DEF m
  <2>6. m # i
    BY <1>0, <2>5, AgreeNext
  <2>7. m - 1 \in i .. n /\ m - 1 \in 1 .. n /\ (m - 1) + 1 = m /\ m \in 1 .. n /\ ~ (m <= m - 1) /\ m \in i .. j
    BY <1>0, <2>5, <2>6
  <2>8. Agree(p, days[m - 1].at, depth)
    BY <2>5, <2>7
  <2>9. Agree(p, days[m].at, depth - 1)
    <3>1. depth - 1 \in 0 .. 4 /\ i <= j
      BY <1>0, <2>2
    <3> QED
      BY <1>0, <2>1, <2>7, <3>1, NodesAreTogether
  <2>10. PICK d \in 1 .. 4 : days[m].at = Step(days[m - 1].at, d)
    BY <1>0, <2>7
  <2> QED
    BY <1>0, <1>00, <2>5, <2>7, <2>8, <2>9, <2>10, LeavingIs DEF m
<1> QED
  BY <1>3, <1>5, <1>6, <1>7

(* The last frame before that is in another node.                          *)
LEMMA PreviousNode ==
  ASSUME Placed(days), NEW i \in DOMAIN days, NEW depth \in 1 .. 4
  PROVE  LET p == days[i].at
             m == Before(i, depth)
         IN /\ m \in DOMAIN days
            /\ p[depth] = 1 /\ depth > 1 => m = Before(i, depth - 1)
            /\ p[depth] = 1 /\ depth = 1 => m = 1
            /\ p[depth] # 1 =>
                 /\ Agree(days[m].at, p, depth - 1) /\ days[m].at[depth] = p[depth] - 1
                 /\ \A j \in DOMAIN days : Agree(days[m].at, days[j].at, depth) => j <= m
<1> DEFINE n == Len(days)
           p == days[i].at
           others(d) == {j \in 1 .. i : ~ Agree(p, days[j].at, d)}
<1>0. /\ n \in Nat /\ DOMAIN days = 1 .. n /\ i \in 1 .. n
      /\ \A j \in 1 .. n : days[j].at \in Places
      /\ \A j \in 1 .. n : j + 1 \in 1 .. n => \E d \in 1 .. 4 : days[j + 1].at = Step(days[j].at, d)
      /\ 1 \in 1 .. n /\ days[1].at = <<1, 1, 1, 1>>
  <2>1. days # <<>>
    OBVIOUS
  <2> QED
    BY <2>1 DEF Placed
<1>00. p \in Places /\ \A j \in 1 .. n : \A d \in 1 .. 4 : days[j].at[d] \in Nat \ {0}
  BY <1>0 DEF Places
<1>1. \A d \in 1 .. 4 : Before(i, d) = IF others(d) = {} THEN 1 ELSE Max(others(d))
  <2> TAKE d \in 1 .. 4
  <2>1. {j \in 1 .. i : ~ SameNode(days[i], days[j], d)} = others(d)
    BY <1>0, SameBeginning DEF SameNode
  <2> QED
    BY <2>1 DEF Before
<1>2. \A d \in 1 .. 4 : others(d) # {} => Max(others(d)) \in others(d) /\ \A j \in others(d) : j <= Max(others(d))
  <2> TAKE d \in 1 .. 4
  <2>1. others(d) \in SUBSET (0 .. i) /\ i \in Nat
    BY <1>0
  <2> HIDE DEF others
  <2> QED
    BY <2>1, GreatestIs
<1>3. Before(i, depth) \in DOMAIN days
  BY <1>0, <1>1, <1>2
<1>4. ASSUME p[depth] = 1 PROVE \A j \in 1 .. i : Agree(p, days[j].at, depth - 1) => Agree(p, days[j].at, depth)
  <2> SUFFICES ASSUME NEW j \in 1 .. i, Agree(p, days[j].at, depth - 1) PROVE p[depth] = days[j].at[depth]
    BY <1>0, AgreeNext
  <2>1. j \in 1 .. n /\ j <= i /\ depth - 1 \in 0 .. 4 /\ depth - 1 < 4 /\ depth - 1 + 1 = depth
    BY <1>0
  <2>2. Agree(days[j].at, p, depth - 1)
    BY <1>0, <2>1, AgreeNext
  <2>3. days[j].at[depth] <= p[depth]
    BY <1>0, <2>1, <2>2, NodesAreTogether
  <2>4. days[j].at[depth] \in Nat \ {0} /\ days[j].at[depth] <= 1
    BY <1>00, <1>4, <2>1, <2>3
  <2> QED
    BY <1>4, <2>4
<1>5. ASSUME p[depth] = 1, depth > 1 PROVE Before(i, depth) = Before(i, depth - 1)
  <2>1. \A j \in 1 .. i : Agree(p, days[j].at, depth) <=> Agree(p, days[j].at, depth - 1)
    BY <1>0, <1>4, <1>5, AgreeNext
  <2>2. others(depth) = others(depth - 1)
    BY <2>1
  <2>3. depth - 1 \in 1 .. 4
    BY <1>5
  <2> QED
    BY <1>1, <2>2, <2>3
<1>6. ASSUME p[depth] = 1, depth = 1 PROVE Before(i, depth) = 1
  <2>1. \A j \in 1 .. i : Agree(p, days[j].at, depth)
    BY <1>0, <1>4, <1>6, AgreeNext
  <2> QED
    BY <1>1, <2>1
<1>7. ASSUME p[depth] # 1
      PROVE  LET m == Before(i, depth) IN
             /\ Agree(days[m].at, p, depth - 1) /\ days[m].at[depth] = p[depth] - 1
             /\ \A j \in DOMAIN days : Agree(days[m].at, days[j].at, depth) => j <= m
  <2> DEFINE m == Before(i, depth)
  <2>1. 1 \in others(depth)
    <3>1. days[1].at[depth] = 1
      BY <1>0
    <3>2. ~ Agree(p, days[1].at, depth)
      BY <1>0, <1>00, <1>7, <3>1, AgreeNext
    <3> QED
      BY <1>0, <3>2
  <2>2. m \in 1 .. i /\ ~ Agree(p, days[m].at, depth) /\ \A k \in 1 .. i : ~ Agree(p, days[k].at, depth) => k <= m
    BY <1>1, <1>2, <2>1
  <2> HIDE DEF m
  <2>3. m # i
    BY <1>0, <2>2, AgreeNext
  <2>4. m + 1 \in 1 .. i /\ m + 1 \in 1 .. n /\ m \in 1 .. n /\ ~ (m + 1 <= m)
    BY <1>0, <2>2, <2>3
  <2>5. Agree(p, days[m + 1].at, depth)
    BY <2>2, <2>4
  <2>6. PICK d \in 1 .. 4 : days[m + 1].at = Step(days[m].at, d)
    BY <1>0, <2>4
  <2> DEFINE q == days[m].at
  <2>7. q \in Places /\ Agree(p, Step(q, d), depth) /\ ~ Agree(p, q, depth)
    BY <1>0, <2>2, <2>4, <2>5, <2>6
  <2>8. Agree(q, p, depth - 1) /\ q[depth] = p[depth] - 1
    <3>1. depth \in {1, 2, 3, 4} /\ d \in {1, 2, 3, 4}
      OBVIOUS
    <3>2. \A k \in 1 .. 4 : p[k] \in Nat \ {0} /\ q[k] \in Nat \ {0}
      BY <1>00, <2>7 DEF Places
    <3>3. \A k \in 1 .. 4 : Step(q, d)[k] = IF k < d THEN q[k] ELSE IF k = d THEN q[k] + 1 ELSE 1
      BY DEF Step
    <3>4. 1 \in 1 .. 4 /\ 2 \in 1 .. 4 /\ 3 \in 1 .. 4 /\ 4 \in 1 .. 4
      OBVIOUS
    <3> HIDE DEF Step, q, p
    <3> QED
      BY <1>7, <2>7, <3>1, <3>2, <3>3, <3>4 DEF Agree
  <2>9. ASSUME NEW j \in 1 .. n, Agree(q, days[j].at, depth) PROVE j <= m
    <3> SUFFICES ASSUME m < j PROVE FALSE
      BY <2>4
    <3>1. m + 1 \in m .. j /\ m <= j /\ depth \in 0 .. 4
      BY <2>4
    <3>2. Agree(q, days[m + 1].at, depth)
      BY <1>0, <2>4, <2>9, <3>1, NodesAreTogether
    <3> QED
      BY <1>0, <1>00, <2>4, <2>5, <2>7, <3>2 DEF Agree
  <2> QED
    BY <1>0, <2>8, <2>9 DEF m
<1> QED
  BY <1>3, <1>5, <1>6, <1>7

(* The numbers of the nodes of a depth beside that of a frame.             *)
Siblings(i, depth) ==
  {days[j].at[depth] : j \in {k \in DOMAIN days : Agree(days[i].at, days[k].at, depth - 1)}}

(* A node has the number of nodes if none beside it comes later.           *)
LEMMA LastSibling ==
  ASSUME Placed(days), NEW i \in DOMAIN days, NEW depth \in 1 .. 4
  PROVE  days[i].at[depth] = Max(Siblings(i, depth)) <=>
           \A j \in DOMAIN days :
             Agree(days[i].at, days[j].at, depth - 1) => days[j].at[depth] <= days[i].at[depth]
<1> DEFINE n == Len(days)
           p == days[i].at
           group == {k \in DOMAIN days : Agree(p, days[k].at, depth - 1)}
           top == Max(group)
           S == Siblings(i, depth)
<1>0. /\ n \in Nat /\ DOMAIN days = 1 .. n /\ i \in 1 .. n
      /\ \A j \in 1 .. n : days[j].at \in Places /\ days[j].at[depth] \in Nat
  BY DEF Placed, Places
<1>00. depth - 1 \in 0 .. 4 /\ depth - 1 < 4 /\ depth - 1 + 1 = depth
  OBVIOUS
<1>1. i \in group
  BY <1>0, <1>00, AgreeNext
<1>2. top \in group /\ \A k \in group : k <= top
  <2>1. group \in SUBSET (0 .. n) /\ group # {}
    BY <1>0, <1>1
  <2> HIDE DEF group
  <2> QED
    BY <1>0, <2>1, GreatestIs
<1> HIDE DEF top
<1>3. ASSUME NEW k \in group PROVE days[k].at[depth] <= days[top].at[depth]
  <2>1. Agree(days[k].at, days[top].at, depth - 1)
    BY <1>2 DEF Agree
  <2> QED
    BY <1>0, <1>00, <1>2, <2>1, NodesAreTogether
<1>4. S \in SUBSET (0 .. days[top].at[depth]) /\ p[depth] \in S /\ days[top].at[depth] \in Nat
  BY <1>0, <1>1, <1>2, <1>3 DEF Siblings
<1>5. Max(S) \in S /\ \A x \in S : x <= Max(S)
  <2> HIDE DEF S
  <2> QED
    BY <1>4, GreatestIs
<1>6. \A k \in group : days[k].at[depth] \in S
  BY DEF Siblings
<1>7. \A x \in S : \E k \in group : x = days[k].at[depth]
  BY DEF Siblings
<1>8. \A x \in S : x \in Nat
  BY <1>4
<1> HIDE DEF S, group
<1>9. p[depth] = Max(S) <=> \A k \in group : days[k].at[depth] <= p[depth]
  <2>1. ASSUME p[depth] = Max(S), NEW k \in group PROVE days[k].at[depth] <= p[depth]
    BY <1>5, <1>6, <2>1
  <2>2. ASSUME \A k \in group : days[k].at[depth] <= p[depth] PROVE p[depth] = Max(S)
    <3>1. Max(S) <= p[depth] /\ p[depth] <= Max(S) /\ Max(S) \in Nat /\ p[depth] \in Nat
      BY <1>4, <1>5, <1>7, <1>8, <2>2
    <3> QED
      BY <3>1
  <2> QED
    BY <2>1, <2>2
<1> QED
  BY <1>9 DEF group, S

(* How many children the nodes of a place have.                            *)
LEMMA NumBelowIs ==
  ASSUME Placed(days), NEW i \in DOMAIN days
  PROVE  LET p == days[i].at IN
         /\ NumBelow(days, <<>>) = Max(Siblings(i, 1))
         /\ NumBelow(days, <<p[1]>>) = Max(Siblings(i, 2))
         /\ NumBelow(days, <<p[1], p[2]>>) = Max(Siblings(i, 3))
         /\ NumBelow(days, <<p[1], p[2], p[3]>>) = Max(Siblings(i, 4))
<1> DEFINE p == days[i].at
           Below(path) == {j \in DOMAIN days : Under(path, days[j].at)}
           group(depth) == {j \in DOMAIN days : Agree(p, days[j].at, depth - 1)}
<1>1. \A j \in DOMAIN days : days[j].at \in Places
  BY DEF Placed
<1>2. /\ Below(<<>>) = group(1) /\ Below(<<p[1]>>) = group(2)
      /\ Below(<<p[1], p[2]>>) = group(3) /\ Below(<<p[1], p[2], p[3]>>) = group(4)
  <2>1. \A j \in DOMAIN days :
          /\ Agree(p, days[j].at, 1 - 1) <=> Under(<<>>, days[j].at)
          /\ Agree(p, days[j].at, 2 - 1) <=> Under(<<p[1]>>, days[j].at)
          /\ Agree(p, days[j].at, 3 - 1) <=> Under(<<p[1], p[2]>>, days[j].at)
          /\ Agree(p, days[j].at, 4 - 1) <=> Under(<<p[1], p[2], p[3]>>, days[j].at)
    BY <1>1, UnderIs DEF Agree
  <2> QED
    BY <2>1
<1>3. /\ Len(<<>>) + 1 = 1 /\ Len(<<p[1]>>) + 1 = 2
      /\ Len(<<p[1], p[2]>>) + 1 = 3 /\ Len(<<p[1], p[2], p[3]>>) + 1 = 4
  BY LengthIs
<1>4. ASSUME NEW path, NEW depth \in 1 .. 4, Len(path) + 1 = depth, Below(path) = group(depth)
      PROVE  NumBelow(days, path) = Max(Siblings(i, depth))
  <2>1. NumBelow(days, path) = Max({days[j].at[Len(path) + 1] : j \in Below(path)})
    BY DEF NumBelow
  <2>2. Siblings(i, depth) = {days[j].at[depth] : j \in group(depth)}
    BY DEF Siblings
  <2>3. {days[j].at[Len(path) + 1] : j \in Below(path)} = {days[j].at[depth] : j \in group(depth)}
    <3> HIDE DEF Below, group
    <3> QED
      BY <1>4, Zenon
  <2> HIDE DEF Below, group
  <2> QED
    BY <2>1, <2>2, <2>3, Zenon
<1>5. 1 \in 1 .. 4 /\ 2 \in 1 .. 4 /\ 3 \in 1 .. 4 /\ 4 \in 1 .. 4
  OBVIOUS
<1> HIDE DEF Below, group, p
<1>6. NumBelow(days, <<>>) = Max(Siblings(i, 1))
  BY <1>2, <1>3, <1>4, <1>5
<1>7. NumBelow(days, <<p[1]>>) = Max(Siblings(i, 2))
  BY <1>2, <1>3, <1>4, <1>5
<1>8. NumBelow(days, <<p[1], p[2]>>) = Max(Siblings(i, 3))
  BY <1>2, <1>3, <1>4, <1>5
<1>9. NumBelow(days, <<p[1], p[2], p[3]>>) = Max(Siblings(i, 4))
  BY <1>2, <1>3, <1>4, <1>5
<1> QED
  BY <1>6, <1>7, <1>8, <1>9 DEF p

(* A jump forward goes to the next node of its depth, the first of the     *)
(* nodes above it that come next, or the last frame.                       *)
LEMMA JumpsForward ==
  ASSUME Placed(days), NEW i \in DOMAIN days
  PROVE  LET p == days[i].at IN
         /\ JumpToNextHour(days, p, TRUE) = days[Behind(i, 1)].at
         /\ JumpToNextHour(days, p, FALSE) = days[Behind(i, 2)].at
         /\ JumpToNextMinute(days, p, FALSE) = days[Behind(i, 3)].at
         /\ JumpToNextFrame(days, p, FALSE) = days[Behind(i, 4)].at
         /\ JumpToNextMinute(days, p, TRUE) \in {days[Behind(i, depth)].at : depth \in {1, 3}}
         /\ JumpToNextFrame(days, p, TRUE) \in {days[Behind(i, depth)].at : depth \in {1, 3, 4}}
<1> DEFINE p == days[i].at
           last(depth) == \A j \in DOMAIN days :
                            Agree(p, days[j].at, depth - 1) => days[j].at[depth] <= p[depth]
<1>0. p \in Places /\ DOMAIN days = 1 .. Len(days) /\ Len(days) \in Nat /\ i \in 1 .. Len(days)
  BY DEF Placed
<1>1. /\ last(1) <=> p[1] = NumBelow(days, <<>>)
      /\ last(2) <=> p[2] = NumBelow(days, <<p[1]>>)
      /\ last(3) <=> p[3] = NumBelow(days, <<p[1], p[2]>>)
      /\ last(4) <=> p[4] = NumBelow(days, <<p[1], p[2], p[3]>>)
  <2>1. \A depth \in 1 .. 4 : last(depth) <=> p[depth] = Max(Siblings(i, depth))
    BY LastSibling
  <2> HIDE DEF last
  <2> QED
    BY <2>1, NumBelowIs
<1>2. /\ \A depth \in 1 .. 4 :
           /\ last(depth) /\ depth > 1 => Behind(i, depth) = Behind(i, depth - 1)
           /\ last(depth) /\ depth = 1 => Behind(i, depth) = Len(days)
           /\ ~ last(depth) => days[Behind(i, depth)].at = Step(p, depth)
  BY NextNode
<1>3. LastUnder(days, <<>>) = days[Len(days)].at
  <2>1. {j \in DOMAIN days : Under(<<>>, days[j].at)} = 1 .. Len(days)
    <3>1. \A j \in DOMAIN days : Under(<<>>, days[j].at)
      BY UnderIs DEF Placed
    <3> QED
      BY <1>0, <3>1
  <2>2. Max(1 .. Len(days)) = Len(days)
    BY <1>0, MaxOfRange
  <2> QED
    BY <2>1, <2>2 DEF LastUnder
<1> HIDE DEF last, p
<1>9. /\ Step(p, 1) = FirstUnder(<<p[1] + 1>>) /\ Step(p, 2) = FirstUnder(<<p[1], p[2] + 1>>)
      /\ Step(p, 3) = FirstUnder(<<p[1], p[2], p[3] + 1>>)
      /\ Step(p, 4) = <<p[1], p[2], p[3], p[4] + 1>>
  BY <1>0, StepIs, FirstUnderIs
<1>10. 1 \in 1 .. 4 /\ 2 \in 1 .. 4 /\ 3 \in 1 .. 4 /\ 4 \in 1 .. 4 /\ 2 - 1 = 1 /\ 3 - 1 = 2 /\ 4 - 1 = 3
  OBVIOUS
<1>4. JumpToNextDay(days, p) = days[Behind(i, 1)].at
  BY <1>1, <1>2, <1>3, <1>9, <1>10 DEF JumpToNextDay
<1>5. JumpToNextHour(days, p, TRUE) = days[Behind(i, 1)].at
  BY <1>4 DEF JumpToNextHour
<1>6. JumpToNextHour(days, p, FALSE) = days[Behind(i, 2)].at
  <2>1. last(2) => Behind(i, 2) = Behind(i, 1)
    BY <1>2
  <2>2. ~ last(2) => days[Behind(i, 2)].at = FirstUnder(<<p[1], p[2] + 1>>)
    BY <1>2, <1>9, <1>10
  <2> QED
    BY <1>1, <1>4, <2>1, <2>2 DEF JumpToNextHour
<1>7. JumpToNextMinute(days, p, FALSE) = days[Behind(i, 3)].at
  <2>1. last(3) => Behind(i, 3) = Behind(i, 2)
    BY <1>2
  <2>2. ~ last(3) => days[Behind(i, 3)].at = FirstUnder(<<p[1], p[2], p[3] + 1>>)
    BY <1>2, <1>9, <1>10
  <2> QED
    BY <1>1, <1>6, <2>1, <2>2 DEF JumpToNextMinute
<1>8. JumpToNextFrame(days, p, FALSE) = days[Behind(i, 4)].at
  <2>1. last(4) => Behind(i, 4) = Behind(i, 3)
    BY <1>2
  <2>2. ~ last(4) => days[Behind(i, 4)].at = <<p[1], p[2], p[3], p[4] + 1>>
    BY <1>2, <1>9, <1>10
  <2> QED
    BY <1>1, <1>7, <2>1, <2>2 DEF JumpToNextFrame
<1>11. JumpToNextMinute(days, p, TRUE) \in {days[Behind(i, depth)].at : depth \in {1, 3}}
  <2>1. ~ last(3) => days[Behind(i, 3)].at = FirstUnder(<<p[1], p[2], p[3] + 1>>)
    BY <1>2, <1>9, <1>10
  <2> QED
    BY <1>1, <1>5, <2>1 DEF JumpToNextMinute
<1>12. JumpToNextFrame(days, p, TRUE) \in {days[Behind(i, depth)].at : depth \in {1, 3, 4}}
  <2>1. ~ last(4) => days[Behind(i, 4)].at = <<p[1], p[2], p[3], p[4] + 1>>
    BY <1>2, <1>9, <1>10
  <2> QED
    BY <1>1, <1>11, <2>1 DEF JumpToNextFrame
<1> QED
  BY <1>5, <1>6, <1>7, <1>8, <1>11, <1>12 DEF p

(* A jump back goes to the last frame of the node before.                  *)
LEMMA JumpsBack ==
  ASSUME Placed(days), NEW i \in DOMAIN days
  PROVE  LET p == days[i].at IN
         /\ JumpToPreviousHour(days, p, TRUE) = days[Before(i, 1)].at
         /\ JumpToPreviousHour(days, p, FALSE) = days[Before(i, 2)].at
         /\ JumpToPreviousMinute(days, p, FALSE) = days[Before(i, 3)].at
         /\ JumpToPreviousFrame(days, p, FALSE) = days[Before(i, 4)].at
         /\ JumpToPreviousMinute(days, p, TRUE) \in {days[Before(i, depth)].at : depth \in {1, 3}}
         /\ JumpToPreviousFrame(days, p, TRUE) \in {days[Before(i, depth)].at : depth \in {1, 3, 4}}
<1> DEFINE p == days[i].at
           m(depth) == Before(i, depth)
<1>0. /\ p \in Places /\ DOMAIN days = 1 .. Len(days) /\ Len(days) \in Nat
      /\ days[1].at = <<1, 1, 1, 1>> /\ \A j \in DOMAIN days : days[j].at \in Places
  <2>1. days # <<>>
    OBVIOUS
  <2> QED
    BY <2>1 DEF Placed
<1>1. \A depth \in 1 .. 4 :
        /\ m(depth) \in DOMAIN days
        /\ p[depth] = 1 /\ depth > 1 => m(depth) = m(depth - 1)
        /\ p[depth] = 1 /\ depth = 1 => m(depth) = 1
        /\ p[depth] # 1 =>
             /\ Agree(days[m(depth)].at, p, depth - 1) /\ days[m(depth)].at[depth] = p[depth] - 1
             /\ \A j \in DOMAIN days : Agree(days[m(depth)].at, days[j].at, depth) => j <= m(depth)
  BY PreviousNode
<1>2. ASSUME NEW depth \in 1 .. 4, p[depth] # 1, NEW path,
             \A j \in DOMAIN days : Under(path, days[j].at) <=> Agree(days[m(depth)].at, days[j].at, depth)
      PROVE  LastUnder(days, path) = days[m(depth)].at
  <2> DEFINE below == {j \in DOMAIN days : Under(path, days[j].at)}
  <2>1. m(depth) \in below /\ \A j \in below : j <= m(depth)
    BY <1>0, <1>1, <1>2, AgreeNext
  <2>2. below \in SUBSET Nat
    BY <1>0
  <2>3. Max(below) = m(depth)
    <3> DEFINE top == m(depth)
    <3> HIDE DEF below, m, top
    <3>1. top \in below /\ \A y \in below : y <= top /\ y \in Nat
      BY <2>1, <2>2 DEF top
    <3>2. \A x \in below : (\A y \in below : x >= y) => x = top
      BY <3>1
    <3>3. \A y \in below : top >= y
      BY <3>1
    <3> QED
      BY <3>1, <3>2, <3>3 DEF Max, top
  <2> QED
    BY <2>3 DEF LastUnder
<1> HIDE DEF p
<1>3. p[1] \in Nat \ {0} /\ p[2] \in Nat \ {0} /\ p[3] \in Nat \ {0} /\ p[4] \in Nat \ {0}
  BY <1>0, PlaceIs
<1>4. p[1] # 1 => LastUnder(days, <<p[1] - 1>>) = days[m(1)].at
  <2> SUFFICES ASSUME p[1] # 1 PROVE LastUnder(days, <<p[1] - 1>>) = days[m(1)].at
    OBVIOUS
  <2>1. m(1) \in DOMAIN days /\ days[m(1)].at[1] = p[1] - 1
    BY <1>1
  <2>2. \A j \in DOMAIN days : Under(<<p[1] - 1>>, days[j].at) <=> Agree(days[m(1)].at, days[j].at, 1)
    BY <1>0, <2>1, UnderIs DEF Agree
  <2> QED
    BY <1>2, <2>2
<1>5. p[2] # 1 => LastUnder(days, <<p[1], p[2] - 1>>) = days[m(2)].at
  <2> SUFFICES ASSUME p[2] # 1 PROVE LastUnder(days, <<p[1], p[2] - 1>>) = days[m(2)].at
    OBVIOUS
  <2>1. m(2) \in DOMAIN days /\ days[m(2)].at[1] = p[1] /\ days[m(2)].at[2] = p[2] - 1
    BY <1>1 DEF Agree
  <2>2. \A j \in DOMAIN days : Under(<<p[1], p[2] - 1>>, days[j].at) <=> Agree(days[m(2)].at, days[j].at, 2)
    BY <1>0, <2>1, UnderIs DEF Agree
  <2> QED
    BY <1>2, <2>2
<1>6. p[3] # 1 => LastUnder(days, <<p[1], p[2], p[3] - 1>>) = days[m(3)].at
  <2> SUFFICES ASSUME p[3] # 1 PROVE LastUnder(days, <<p[1], p[2], p[3] - 1>>) = days[m(3)].at
    OBVIOUS
  <2>1. m(3) \in DOMAIN days /\ days[m(3)].at[1] = p[1] /\ days[m(3)].at[2] = p[2] /\ days[m(3)].at[3] = p[3] - 1
    BY <1>1 DEF Agree
  <2>2. \A j \in DOMAIN days : Under(<<p[1], p[2], p[3] - 1>>, days[j].at) <=> Agree(days[m(3)].at, days[j].at, 3)
    BY <1>0, <2>1, UnderIs DEF Agree
  <2> QED
    BY <1>2, <2>2
<1>7. p[4] # 1 => <<p[1], p[2], p[3], p[4] - 1>> = days[m(4)].at
  <2> SUFFICES ASSUME p[4] # 1 PROVE <<p[1], p[2], p[3], p[4] - 1>> = days[m(4)].at
    OBVIOUS
  <2> DEFINE q == days[m(4)].at
  <2>1. m(4) \in DOMAIN days /\ q[1] = p[1] /\ q[2] = p[2] /\ q[3] = p[3] /\ q[4] = p[4] - 1
    BY <1>1 DEF Agree
  <2>2. q = <<q[1], q[2], q[3], q[4]>>
    BY <1>0, <2>1, PlaceIs
  <2> QED
    BY <2>1, <2>2
<1>8. p[1] = 1 => days[m(1)].at = FirstUnder(<<>>)
  BY <1>0, <1>1, FirstUnderIs
<1>9. /\ p[2] = 1 => m(2) = m(1)
      /\ p[3] = 1 => m(3) = m(2)
      /\ p[4] = 1 => m(4) = m(3)
  BY <1>1
<1> HIDE DEF m
<1>10. JumpToPreviousDay(days, p) = days[m(1)].at
  BY <1>4, <1>8 DEF JumpToPreviousDay
<1>11. JumpToPreviousHour(days, p, TRUE) = days[m(1)].at
  BY <1>10 DEF JumpToPreviousHour
<1>12. JumpToPreviousHour(days, p, FALSE) = days[m(2)].at
  BY <1>5, <1>9, <1>10 DEF JumpToPreviousHour
<1>13. JumpToPreviousMinute(days, p, FALSE) = days[m(3)].at
  BY <1>6, <1>9, <1>12 DEF JumpToPreviousMinute
<1>14. JumpToPreviousFrame(days, p, FALSE) = days[m(4)].at
  BY <1>7, <1>9, <1>13 DEF JumpToPreviousFrame
<1>15. JumpToPreviousMinute(days, p, TRUE) \in {days[m(depth)].at : depth \in {1, 3}}
  BY <1>6, <1>11 DEF JumpToPreviousMinute
<1>16. JumpToPreviousFrame(days, p, TRUE) \in {days[m(depth)].at : depth \in {1, 3, 4}}
  BY <1>7, <1>15 DEF JumpToPreviousFrame
<1> QED
  BY <1>11, <1>12, <1>13, <1>14, <1>15, <1>16 DEF p, m

-----------------------------------------------------------------------------
(* The two folds behind the tree: the selection takes the earliest row     *)
(* first, and the tree takes the rows of the selection one by one.         *)
Chosen(kind, s) == IF kind = "tree" THEN Max(s) ELSE Earliest(s)

TakeOne(kind, rows, g, s) ==
  LET x == Chosen(kind, s) IN
  IF kind = "tree" THEN AddRow(g[s \ {x}], rows[x]) ELSE <<x>> \o g[s \ {x}]

TakenFrom(kind, rows, g, s) == IF s = {} THEN <<>> ELSE TakeOne(kind, rows, g, s)

TakesAll(g, kind, rows, sets) == g = [s \in sets |-> TakenFrom(kind, rows, g, s)]

(* There is a function that folds, for any finite set.                     *)
LEMMA TakesAreDefined ==
  ASSUME NEW S, IsFiniteSet(S), NEW kind, NEW rows,
         \A s \in SUBSET S : s # {} => Chosen(kind, s) \in s
  PROVE  \E g : TakesAll(g, kind, rows, SUBSET S)
<1> DEFINE good == {n \in Nat : \E g : TakesAll(g, kind, rows, UpTo(S, n))}
<1>0. \A s \in SUBSET S : IsFiniteSet(s) /\ Cardinality(s) \in Nat
  BY FS_Subset, FS_CardinalityType
<1>1. 0 \in good
  <2> DEFINE g == [s \in UpTo(S, 0) |-> <<>>]
  <2>1. \A s \in UpTo(S, 0) : s = {}
    BY <1>0, FS_EmptySet DEF UpTo
  <2>2. g = [s \in UpTo(S, 0) |-> TakenFrom(kind, rows, g, s)]
    BY <2>1 DEF TakenFrom
  <2> QED
    BY <2>2 DEF TakesAll
<1>2. ASSUME NEW n \in Nat, n \in good PROVE n + 1 \in good
  <2>1. PICK g : TakesAll(g, kind, rows, UpTo(S, n))
    BY <1>2
  <2> DEFINE f == [s \in UpTo(S, n + 1) |-> IF s \in UpTo(S, n) THEN g[s] ELSE TakenFrom(kind, rows, g, s)]
  <2>2. ASSUME NEW s \in UpTo(S, n + 1) PROVE f[s] = TakenFrom(kind, rows, f, s)
    <3> DEFINE x == Chosen(kind, s)
    <3>0. s \in SUBSET S /\ IsFiniteSet(s) /\ Cardinality(s) \in Nat /\ Cardinality(s) <= n + 1
      BY <1>0 DEF UpTo
    <3>1. f[s] = TakenFrom(kind, rows, g, s)
      BY <2>1 DEF TakesAll
    <3>2. s # {} => s \ {x} \in UpTo(S, n)
      <4> SUFFICES ASSUME s # {} PROVE s \ {x} \in UpTo(S, n)
        OBVIOUS
      <4>0. x \in s
        BY <3>0
      <4>1. IsFiniteSet(s \ {x}) /\ Cardinality(s \ {x}) = Cardinality(s) - 1
        BY <3>0, <4>0, FS_RemoveElement
      <4> QED
        BY <3>0, <4>1 DEF UpTo
    <3>3. UpTo(S, n) \subseteq UpTo(S, n + 1)
      BY <1>0 DEF UpTo
    <3>4. s # {} => f[s \ {x}] = g[s \ {x}]
      BY <3>2, <3>3
    <3> QED
      BY <3>1, <3>4 DEF TakenFrom, TakeOne
  <2>3. f = [s \in UpTo(S, n + 1) |-> TakenFrom(kind, rows, f, s)]
    <3>1. f = [s \in UpTo(S, n + 1) |-> f[s]]
      BY Zenon
    <3> HIDE DEF f
    <3> QED
      BY <2>2, <3>1
  <2> HIDE DEF f
  <2> QED
    BY <2>3 DEF TakesAll
<1>3. Cardinality(S) \in good
  <2> HIDE DEF good
  <2> QED
    BY <1>0, <1>1, <1>2, CountingUp
<1>4. UpTo(S, Cardinality(S)) = SUBSET S
  BY FS_Subset DEF UpTo
<1>5. PICK g : TakesAll(g, kind, rows, UpTo(S, Cardinality(S)))
  BY <1>3
<1>6. TakesAll(g, kind, rows, SUBSET S)
  BY <1>4, <1>5
<1> QED
  BY <1>6

(* What every set has that has it whenever all with one element less do.   *)
LEMMA BySmaller ==
  ASSUME NEW S, IsFiniteSet(S), NEW G,
         \A T \in SUBSET S : (\A x \in T : T \ {x} \in G) => T \in G
  PROVE  S \in G
<1> DEFINE good == {n \in Nat : \A s \in SUBSET S : Cardinality(s) = n => s \in G}
<1>0. \A s \in SUBSET S : IsFiniteSet(s) /\ Cardinality(s) \in Nat
  BY FS_Subset, FS_CardinalityType
<1>1. 0 \in good
  <2>1. \A s \in SUBSET S : Cardinality(s) = 0 => s = {}
    BY <1>0, FS_EmptySet
  <2> QED
    BY <2>1
<1>2. ASSUME NEW n \in Nat, n \in good PROVE n + 1 \in good
  <2> SUFFICES ASSUME NEW s \in SUBSET S, Cardinality(s) = n + 1, NEW x \in s PROVE s \ {x} \in G
    OBVIOUS
  <2>0. IsFiniteSet(s)
    BY <1>0
  <2>1. s \ {x} \in SUBSET S /\ Cardinality(s \ {x}) = (n + 1) - 1
    BY <2>0, FS_RemoveElement
  <2> QED
    BY <1>2, <2>1
<1>3. Cardinality(S) \in good
  <2> HIDE DEF good
  <2> QED
    BY <1>0, <1>1, <1>2, CountingUp
<1> QED
  BY <1>3

(* A row that can be sorted, and the earliest of some.                     *)
Sortable(rows) == \A row \in rows : row.video \in Databases /\ row.frame \in Nat

(* Some row is the earliest.                                               *)
LEMMA EarliestIs ==
  ASSUME NEW s, Sortable(s), s # {}
  PROVE  Earliest(s) \in s /\ \A row \in s : Timestamp(Earliest(s)) <= Timestamp(row)
<1>1. \A row \in s : Timestamp(row) \in Nat
  BY ViewerAssumption DEF Sortable, Timestamp
<1> DEFINE times == {Timestamp(row) : row \in s}
<1>2. times \in SUBSET Nat /\ times # {}
  BY <1>1
<1>3. Min(times) \in times /\ \A x \in times : Min(times) <= x
  <2> HIDE DEF times
  <2> QED
    BY <1>2, LeastIs
<1>4. PICK row \in s : Min(times) = Timestamp(row)
  BY <1>3
<1>5. \A other \in s : Timestamp(row) <= Timestamp(other)
  BY <1>3, <1>4
<1> QED
  BY <1>5 DEF Earliest

(* A list of a set of rows has each of them once, in the order of time.    *)
Lists(list, rows) ==
  /\ list \in Seq(rows)
  /\ \A row \in rows : \E i \in DOMAIN list : list[i] = row
  /\ \A i, j \in DOMAIN list : i < j =>
       list[i] # list[j] /\ Timestamp(list[i]) <= Timestamp(list[j])

(* Rows are selected so.                                                   *)
LEMMA SelectionIs ==
  ASSUME NEW rows, IsFiniteSet(rows), Sortable(rows)
  PROVE  Lists(Selection(rows), rows)
<1> DEFINE g == CHOOSE k : TakesAll(k, "rows", <<>>, SUBSET rows)
<1>1. \A s \in SUBSET rows : s # {} => Earliest(s) \in s /\ \A row \in s : Timestamp(Earliest(s)) <= Timestamp(row)
  BY EarliestIs DEF Sortable
<1>2. TakesAll(g, "rows", <<>>, SUBSET rows)
  <2>1. \A s \in SUBSET rows : s # {} => Chosen("rows", s) \in s
    BY <1>1 DEF Chosen
  <2> QED
    BY <2>1, TakesAreDefined, Zenon
<1>3. Selection(rows) = g[rows]
  <2>1. Selection(rows) =
          (CHOOSE k : k = [s \in SUBSET rows |-> IF s = {} THEN <<>> ELSE <<Earliest(s)>> \o k[s \ {Earliest(s)}]])[rows]
    BY DEF Selection, MapThenFoldSet
  <2> QED
    BY <2>1 DEF TakesAll, TakenFrom, TakeOne, Chosen
<1> HIDE DEF g
<1> DEFINE good == {s \in SUBSET rows : Lists(g[s], s)}
<1>4. ASSUME NEW s \in SUBSET rows, \A x \in s : s \ {x} \in good PROVE s \in good
  <2>1. CASE s = {}
    <3>1. g[s] = <<>>
      BY <1>2, <2>1 DEF TakesAll, TakenFrom
    <3>2. Lists(<<>>, {})
      BY DEF Lists
    <3> QED
      BY <2>1, <3>1, <3>2
  <2>2. CASE s # {}
    <3> DEFINE e == Earliest(s)
               rest == g[s \ {e}]
    <3>1. e \in s /\ \A row \in s : Timestamp(e) <= Timestamp(row)
      BY <1>1, <2>2
    <3>2. Lists(rest, s \ {e})
      BY <1>4, <3>1
    <3>3. g[s] = <<e>> \o rest
      BY <1>2, <2>2 DEF TakesAll, TakenFrom, TakeOne, Chosen
    <3> HIDE DEF e, rest
    <3>4. /\ rest \in Seq(s \ {e}) /\ Len(rest) \in Nat /\ DOMAIN rest = 1 .. Len(rest)
          /\ \A i \in 1 .. Len(rest) : rest[i] \in s \ {e}
      BY <3>2, ElementOfSeq, LenProperties DEF Lists
    <3>5. /\ g[s] \in Seq(s) /\ DOMAIN g[s] = 1 .. Len(rest) + 1 /\ g[s][1] = e
          /\ \A i \in 2 .. Len(rest) + 1 : g[s][i] = rest[i - 1] /\ i - 1 \in DOMAIN rest
      <4>1. rest \in Seq(s) /\ <<e>> \in Seq(s) /\ Len(<<e>>) = 1 /\ <<e>>[1] = e
        BY <3>1, <3>4
      <4>2. /\ g[s] \in Seq(s) /\ Len(g[s]) = 1 + Len(rest)
            /\ \A i \in 1 .. 1 + Len(rest) :
                 g[s][i] = IF i <= 1 THEN <<e>>[i] ELSE rest[i - 1]
        BY <3>3, <4>1, ConcatProperties
      <4> HIDE <3>3
      <4>3. DOMAIN g[s] = 1 .. Len(rest) + 1
        BY <3>4, <4>2
      <4>4. 1 \in 1 .. 1 + Len(rest) /\ g[s][1] = <<e>>[1]
        BY <3>4, <4>2
      <4>5. \A i \in 2 .. Len(rest) + 1 : i \in 1 .. 1 + Len(rest) /\ i - 1 \in DOMAIN rest /\ ~ (i <= 1)
        BY <3>4
      <4>6. \A i \in 2 .. Len(rest) + 1 : g[s][i] = rest[i - 1] /\ i - 1 \in DOMAIN rest
        BY <4>2, <4>5
      <4> QED
        BY <4>1, <4>2, <4>3, <4>4, <4>6
    <3>6. ASSUME NEW row \in s PROVE \E i \in DOMAIN g[s] : g[s][i] = row
      <4>1. CASE row = e
        BY <3>4, <3>5, <4>1
      <4>2. CASE row # e
        <5>1. PICK i \in DOMAIN rest : rest[i] = row
          BY <3>2, <4>2 DEF Lists
        <5>2. i + 1 \in 2 .. Len(rest) + 1 /\ i + 1 \in DOMAIN g[s] /\ (i + 1) - 1 = i
          BY <3>4, <3>5
        <5> QED
          BY <3>5, <5>1, <5>2
      <4> QED
        BY <4>1, <4>2
    <3>7. ASSUME NEW i \in DOMAIN g[s], NEW j \in DOMAIN g[s], i < j
          PROVE  g[s][i] # g[s][j] /\ Timestamp(g[s][i]) <= Timestamp(g[s][j])
      <4>1. j \in 2 .. Len(rest) + 1 /\ g[s][j] = rest[j - 1] /\ j - 1 \in DOMAIN rest /\ rest[j - 1] \in s \ {e}
        BY <3>4, <3>5, <3>7
      <4>2. CASE i = 1
        BY <3>1, <3>5, <4>1, <4>2
      <4>3. CASE i # 1
        <5>1. g[s][i] = rest[i - 1] /\ i - 1 \in DOMAIN rest /\ i - 1 < j - 1
          BY <3>4, <3>5, <3>7, <4>1, <4>3
        <5>2. rest[i - 1] # rest[j - 1] /\ Timestamp(rest[i - 1]) <= Timestamp(rest[j - 1])
          BY <3>2, <4>1, <5>1 DEF Lists
        <5> QED
          BY <4>1, <5>1, <5>2
      <4> QED
        BY <4>2, <4>3
    <3> QED
      BY <3>5, <3>6, <3>7 DEF Lists
  <2> QED
    BY <2>1, <2>2
<1>5. rows \in good
  <2> HIDE DEF good
  <2> QED
    BY <1>4, BySmaller
<1> QED
  BY <1>3, <1>5

(* The tree grows by one row of the list after the other.                  *)
Grown(trees, list, n) ==
  /\ trees[0] = <<>>
  /\ \A i \in 1 .. n : trees[i] = AddRow(trees[i - 1], list[i])
  /\ FoldLeft(AddRow, <<>>, list) = trees[n]

(* The fold that builds the tree does so, for any list.                    *)
LEMMA GrownByRow ==
  ASSUME NEW list, NEW n \in Nat, DOMAIN list = 1 .. n
  PROVE  \E trees : Grown(trees, list, n)
<1> DEFINE g == CHOOSE k : TakesAll(k, "tree", list, SUBSET (1 .. n))
           h == [i \in 0 .. n |-> g[1 .. i]]
<1>1. TakesAll(g, "tree", list, SUBSET (1 .. n))
  <2>1. IsFiniteSet(1 .. n)
    BY FS_Interval
  <2>2. ASSUME NEW s \in SUBSET (1 .. n), s # {} PROVE Chosen("tree", s) \in s
    <3>1. s \in SUBSET (0 .. n)
      OBVIOUS
    <3> QED
      BY <2>2, <3>1, GreatestIs DEF Chosen
  <2> QED
    BY <2>1, <2>2, TakesAreDefined, Zenon
<1>2. FoldLeft(AddRow, <<>>, list) = g[1 .. n]
  <2>1. FoldLeft(AddRow, <<>>, list) =
          (CHOOSE k : k = [s \in SUBSET DOMAIN list |->
                             IF s = {} THEN <<>> ELSE AddRow(k[s \ {Max(s)}], list[Max(s)])])[DOMAIN list]
    BY DEF FoldLeft, MapThenFoldSet
  <2> QED
    BY <2>1 DEF TakesAll, TakenFrom, TakeOne, Chosen
<1> HIDE DEF g
<1>3. h[0] = <<>>
  <2>1. 1 .. 0 = {} /\ {} \in SUBSET (1 .. n) /\ 0 \in 0 .. n
    OBVIOUS
  <2>2. g[{}] = TakenFrom("tree", list, g, {})
    BY <1>1, <2>1 DEF TakesAll
  <2> QED
    BY <2>1, <2>2 DEF TakenFrom
<1>4. ASSUME NEW i \in 1 .. n PROVE h[i] = AddRow(h[i - 1], list[i])
  <2>1. 1 .. i \in SUBSET (1 .. n) /\ i \in 0 .. n /\ i - 1 \in 0 .. n
    OBVIOUS
  <2>5. i \in 1 .. i
    OBVIOUS
  <2>4. (1 .. i) \ {i} = 1 .. (i - 1)
    OBVIOUS
  <2>2. g[1 .. i] = TakenFrom("tree", list, g, 1 .. i)
    BY <1>1, <2>1 DEF TakesAll
  <2>3. Max(1 .. i) = i
    BY MaxOfRange
  <2> QED
    BY <2>1, <2>2, <2>3, <2>4, <2>5 DEF TakenFrom, TakeOne, Chosen
<1> HIDE DEF h
<1>5. h[n] = g[1 .. n]
  BY DEF h
<1> QED
  BY <1>2, <1>3, <1>4, <1>5 DEF Grown

(* Texts one after the other: those of all but the last, and the last.     *)
Joins(f, seqs, n) == f = [i \in 1 .. n |-> IF i = 1 THEN seqs[i] ELSE f[i - 1] \o seqs[i]]

(* There is a function that joins, for any number of sequences.            *)
LEMMA JoinsAreDefined ==
  ASSUME NEW seqs, NEW n \in Nat
  PROVE  \E f : Joins(f, seqs, n)
<1> DEFINE good == {k \in Nat : \E f : Joins(f, seqs, k)}
<1>1. 0 \in good
  <2> DEFINE f == [i \in 1 .. 0 |-> <<>>]
  <2>1. 1 .. 0 = {}
    OBVIOUS
  <2>2. f = [i \in 1 .. 0 |-> IF i = 1 THEN seqs[i] ELSE f[i - 1] \o seqs[i]]
    BY <2>1
  <2> QED
    BY <2>2 DEF Joins
<1>2. ASSUME NEW k \in Nat, k \in good PROVE k + 1 \in good
  <2>1. PICK f : Joins(f, seqs, k)
    BY <1>2
  <2> DEFINE h == [i \in 1 .. k + 1 |-> IF i \in 1 .. k THEN f[i]
                                        ELSE IF i = 1 THEN seqs[i] ELSE f[i - 1] \o seqs[i]]
  <2>2. ASSUME NEW i \in 1 .. k + 1 PROVE h[i] = IF i = 1 THEN seqs[i] ELSE h[i - 1] \o seqs[i]
    <3>1. i # 1 => i - 1 \in 1 .. k /\ i - 1 \in 1 .. k + 1
      OBVIOUS
    <3>2. i # 1 => h[i - 1] = f[i - 1]
      BY <3>1
    <3>3. h[i] = IF i = 1 THEN seqs[i] ELSE f[i - 1] \o seqs[i]
      BY <2>1 DEF Joins
    <3> HIDE DEF h
    <3> QED
      BY <3>2, <3>3
  <2>3. h = [i \in 1 .. k + 1 |-> IF i = 1 THEN seqs[i] ELSE h[i - 1] \o seqs[i]]
    <3>1. h = [i \in 1 .. k + 1 |-> h[i]]
      BY Zenon
    <3> HIDE DEF h
    <3> QED
      BY <2>2, <3>1
  <2> HIDE DEF h
  <2>4. Joins(h, seqs, k + 1)
    BY <2>3 DEF Joins
  <2> QED
    BY <2>4
<1>3. n \in good
  <2> HIDE DEF good
  <2> QED
    BY <1>1, <1>2, CountingUp
<1> QED
  BY <1>3

(* A sequence more is joined behind the others.                            *)
LEMMA FlattenUnfolds ==
  ASSUME NEW T, NEW seqs \in Seq(Seq(T)), NEW last \in Seq(T)
  PROVE  /\ FlattenSeq(seqs) \in Seq(T)
         /\ FlattenSeq(Append(seqs, last)) = FlattenSeq(seqs) \o last
<1> DEFINE n == Len(seqs)
           more == Append(seqs, last)
           f == CHOOSE k : Joins(k, seqs, n)
           h == CHOOSE k : Joins(k, more, n + 1)
<1>0. /\ n \in Nat /\ Len(more) = n + 1 /\ more[n + 1] = last /\ \A i \in 1 .. n : more[i] = seqs[i]
      /\ \A i \in 1 .. n : seqs[i] \in Seq(T)
  BY AppendProperties, LenProperties, ElementOfSeq
<1>1. Joins(f, seqs, n) /\ Joins(h, more, n + 1)
  <2>1. n \in Nat /\ n + 1 \in Nat
    BY <1>0
  <2> QED
    BY <2>1, JoinsAreDefined, Zenon
<1>2. /\ FlattenSeq(seqs) = IF n = 0 THEN seqs ELSE f[n]
      /\ FlattenSeq(more) = h[n + 1]
  <2>1. \A all : FlattenSeq(all) = IF Len(all) = 0 THEN all ELSE (CHOOSE k : Joins(k, all, Len(all)))[Len(all)]
    BY DEF FlattenSeq, Joins
  <2>2. Len(more) # 0
    BY <1>0
  <2> QED
    BY <1>0, <2>1, <2>2
<1> HIDE DEF f, h, n, more
<1>3. /\ \A i \in 1 .. n : f[i] = IF i = 1 THEN seqs[i] ELSE f[i - 1] \o seqs[i]
      /\ \A i \in 1 .. n + 1 : h[i] = IF i = 1 THEN more[i] ELSE h[i - 1] \o more[i]
  BY <1>0, <1>1 DEF Joins
<1> DEFINE good == {k \in Nat : k + 1 \in 1 .. n => h[k + 1] = f[k + 1] /\ f[k + 1] \in Seq(T)}
<1>4. 0 \in good
  <2>1. 1 \in 1 .. n => 1 \in 1 .. n + 1
    BY <1>0
  <2> QED
    BY <1>0, <1>3, <2>1
<1>5. ASSUME NEW k \in Nat, k \in good PROVE k + 1 \in good
  <2> SUFFICES ASSUME k + 1 + 1 \in 1 .. n PROVE h[k + 1 + 1] = f[k + 1 + 1] /\ f[k + 1 + 1] \in Seq(T)
    OBVIOUS
  <2>1. k + 1 \in 1 .. n /\ k + 1 + 1 \in 1 .. n + 1 /\ k + 1 + 1 # 1 /\ (k + 1 + 1) - 1 = k + 1
    BY <1>0
  <2>2. h[k + 1] = f[k + 1] /\ f[k + 1] \in Seq(T)
    BY <1>5, <2>1
  <2>3. h[k + 1 + 1] = h[k + 1] \o seqs[k + 1 + 1] /\ f[k + 1 + 1] = f[k + 1] \o seqs[k + 1 + 1]
    BY <1>0, <1>3, <2>1
  <2>4. f[k + 1] \o seqs[k + 1 + 1] \in Seq(T)
    BY <1>0, <2>2, ConcatProperties
  <2> QED
    BY <2>2, <2>3, <2>4
<1>6. \A k \in Nat : k \in good
  <2> HIDE DEF good
  <2> QED
    BY <1>4, <1>5, CountingUp
<1>7. CASE n = 0
  <2>1. seqs = <<>>
    BY <1>7, EmptySeq DEF n
  <2>2. FlattenSeq(seqs) = <<>> /\ FlattenSeq(more) = last
    BY <1>0, <1>2, <1>3, <1>7, <2>1
  <2> QED
    BY <2>2, EmptySeq, ConcatEmptySeq DEF more
<1>8. CASE n # 0
  <2>1. n - 1 \in Nat /\ (n - 1) + 1 = n /\ n \in 1 .. n /\ n + 1 \in 1 .. n + 1 /\ n + 1 # 1 /\ (n + 1) - 1 = n
    BY <1>0, <1>8
  <2>2. h[n] = f[n] /\ f[n] \in Seq(T)
    BY <1>6, <2>1
  <2>3. h[n + 1] = h[n] \o last
    BY <1>0, <1>3, <2>1
  <2> QED
    BY <1>2, <1>8, <2>2, <2>3 DEF more
<1> QED
  BY <1>7, <1>8

-----------------------------------------------------------------------------
(* A row is under the day, hour and minute it belongs to.                  *)
LEMMA DatesAre ==
  ASSUME NEW row, row.video \in Databases, row.frame \in Nat
  PROVE  Day(row) \in Nat /\ Hour(row) \in Nat /\ Minute(row) \in Nat
<1>1. \A n \in Nat, m \in Nat \ {0} : n \div m \in Nat /\ n % m \in Nat
  OBVIOUS
<1>2. FramesPerMinute * MinutesPerHour \in Nat \ {0}
  BY TreeAssumption
<1>3. StartTime(row.video) \in Nat
  BY ViewerAssumption
<1> QED
  BY <1>1, <1>2, <1>3, TreeAssumption DEF Day, Hour, Minute

Frames(rows) ==
  [at : Places, day : Nat, hour : Nat, minute : Nat, number : Nat, video : Databases,
   texts : Seq(rows), name : Seq(Nat)]

(* The frame is that of the row.                                           *)
IsOf(frame, row) ==
  <<Day(row), Hour(row), Minute(row), row.frame>> = <<frame.day, frame.hour, frame.minute, frame.number>>

(* Frames in one node are of one day, of one hour and of one minute.       *)
SameDates(f, g) ==
  /\ Agree(f.at, g.at, 1) => f.day = g.day
  /\ Agree(f.at, g.at, 2) => f.hour = g.hour
  /\ Agree(f.at, g.at, 3) => f.minute = g.minute

(* A row goes to the frame the one before it went to, or to the next node  *)
(* of some depth: of a lower one the deeper its time agrees.               *)
LEMMA NextPlace ==
  ASSUME NEW last, last.at \in Places, NEW row
  PROVE  \/ Place(last, row) = last.at /\ IsOf(last, row)
         \/ \E depth \in 1 .. 4 :
              /\ Place(last, row) = Step(last.at, depth)
              /\ depth > 1 => last.day = Day(row)
              /\ depth > 2 => last.hour = Hour(row)
              /\ depth > 3 => last.minute = Minute(row)
<1> DEFINE i == last.at
<1>1. /\ Step(i, 1) = <<i[1] + 1, 1, 1, 1>> /\ Step(i, 2) = <<i[1], i[2] + 1, 1, 1>>
      /\ Step(i, 3) = <<i[1], i[2], i[3] + 1, 1>> /\ Step(i, 4) = <<i[1], i[2], i[3], i[4] + 1>>
  BY StepIs
<1>2. CASE last.day # Day(row)
  <2>1. Place(last, row) = Step(i, 1)
    BY <1>1, <1>2 DEF Place
  <2> QED
    BY <2>1
<1>3. CASE last.day = Day(row) /\ last.hour # Hour(row)
  <2>1. Place(last, row) = Step(i, 2)
    BY <1>1, <1>3 DEF Place
  <2> QED
    BY <1>3, <2>1
<1>4. CASE last.day = Day(row) /\ last.hour = Hour(row) /\ last.minute # Minute(row)
  <2>1. Place(last, row) = Step(i, 3)
    BY <1>1, <1>4 DEF Place
  <2> QED
    BY <1>4, <2>1
<1>5. CASE last.day = Day(row) /\ last.hour = Hour(row) /\ last.minute = Minute(row) /\ last.number # row.frame
  <2>1. Place(last, row) = Step(i, 4)
    BY <1>1, <1>5 DEF Place
  <2> QED
    BY <1>5, <2>1
<1>6. CASE last.day = Day(row) /\ last.hour = Hour(row) /\ last.minute = Minute(row) /\ last.number = row.frame
  <2>1. Place(last, row) = i
    BY <1>6 DEF Place
  <2> QED
    BY <1>6, <2>1 DEF IsOf
<1> QED
  BY <1>2, <1>3, <1>4, <1>5, <1>6

(* A tree made of rows: each frame has rows of its own time only.          *)
TreeOf(tree, rows) ==
  /\ tree \in Seq(Frames(rows))
  /\ Placed(tree)
  /\ \A i \in DOMAIN tree : \A k \in DOMAIN tree[i].texts : IsOf(tree[i], tree[i].texts[k])
  /\ \A i, j \in DOMAIN tree : i < j => SameDates(tree[i], tree[j])

(* While it grows, the last frame has not been given its whole name.       *)
Growing(tree) ==
  \A i \in DOMAIN tree :
    tree[i].name = IF i = Len(tree) THEN <<tree[i].number>>
                                    ELSE <<tree[i].number, Len(tree[i].texts)>>

TextsOf(tree) == [i \in DOMAIN tree |-> tree[i].texts]

TextsBefore(tree) == [i \in 1 .. Len(tree) - 1 |-> tree[i].texts]

(* A tree is a sequence of frames.                                         *)
LEMMA TreeIs ==
  ASSUME NEW rows, NEW tree \in Seq(Frames(rows))
  PROVE  /\ Len(tree) \in Nat /\ DOMAIN tree = 1 .. Len(tree)
         /\ tree # <<>> => Len(tree) \in 1 .. Len(tree) /\ Last(tree) = tree[Len(tree)]
         /\ \A i \in DOMAIN tree : tree[i] \in Frames(rows)
<1>1. Len(tree) \in Nat /\ DOMAIN tree = 1 .. Len(tree)
  BY LenProperties
<1>2. tree # <<>> => Len(tree) \in 1 .. Len(tree)
  <2>1. tree # <<>> => Len(tree) # 0
    BY EmptySeq
  <2> QED
    BY <1>1, <2>1
<1> QED
  BY <1>1, <1>2, ElementOfSeq DEF Last

(* The texts of a tree are those of all frames but the last, and of this.  *)
LEMMA TextsUnfold ==
  ASSUME NEW rows, NEW tree \in Seq(Frames(rows)), tree # <<>>
  PROVE  /\ FlattenSeq(TextsOf(tree)) = FlattenSeq(TextsBefore(tree)) \o tree[Len(tree)].texts
         /\ FlattenSeq(TextsBefore(tree)) \in Seq(rows)
         /\ FlattenSeq(TextsOf(tree)) \in Seq(rows)
<1> DEFINE n == Len(tree)
<1>1. n \in Nat /\ DOMAIN tree = 1 .. n /\ n \in 1 .. n /\ \A i \in 1 .. n : tree[i].texts \in Seq(rows)
  BY TreeIs DEF Frames
<1> HIDE DEF n
<1>2. n - 1 \in Nat /\ \A i \in 1 .. n - 1 : i \in 1 .. n /\ i # n
  BY <1>1
<1>3. TextsBefore(tree) \in Seq(Seq(rows)) /\ Len(TextsBefore(tree)) = n - 1 /\ \A i \in 1 .. n - 1 : TextsBefore(tree)[i] = tree[i].texts
  <2>1. TextsBefore(tree) = [i \in 1 .. n - 1 |-> tree[i].texts]
    BY DEF TextsBefore, n
  <2>2. TextsBefore(tree) \in [1 .. n - 1 -> Seq(rows)]
    BY <1>1, <1>2, <2>1
  <2>3. TextsBefore(tree) \in Seq(Seq(rows))
    BY <1>2, <2>2, SeqDef
  <2>4. DOMAIN TextsBefore(tree) = 1 .. n - 1
    BY <2>2
  <2> QED
    BY <1>2, <2>1, <2>3, <2>4, LenProperties
<1>4. TextsOf(tree) = Append(TextsBefore(tree), tree[n].texts)
  <2> DEFINE all == Append(TextsBefore(tree), tree[n].texts)
  <2>1. /\ all \in Seq(Seq(rows)) /\ Len(all) = n /\ all[n] = tree[n].texts
        /\ \A i \in 1 .. n - 1 : all[i] = tree[i].texts
    BY <1>1, <1>2, <1>3, AppendProperties
  <2>2. DOMAIN all = 1 .. n /\ all = [i \in DOMAIN all |-> all[i]]
    BY <2>1, LenProperties, Zenon
  <2> HIDE DEF all
  <2>3. \A i \in 1 .. n : all[i] = tree[i].texts
    BY <1>1, <2>1
  <2> QED
    BY <1>1, <2>2, <2>3 DEF TextsOf, all
<1> QED
  <2>1. tree[n].texts \in Seq(rows)
    BY <1>1
  <2>2. /\ FlattenSeq(TextsBefore(tree)) \in Seq(rows)
        /\ FlattenSeq(Append(TextsBefore(tree), tree[n].texts)) = FlattenSeq(TextsBefore(tree)) \o tree[n].texts
    BY <1>3, <2>1, FlattenUnfolds
  <2> QED
    BY <1>4, <2>1, <2>2, ConcatProperties DEF n

(* What the last frame is replaced by, of the same place and time.         *)
LEMMA LastReplaced ==
  ASSUME NEW rows, NEW tree, TreeOf(tree, rows), tree # <<>>,
         NEW f \in Frames(rows), \A k \in DOMAIN f.texts : IsOf(f, f.texts[k]),
         LET last == tree[Len(tree)] IN
         <<f.at, f.day, f.hour, f.minute, f.number>> = <<last.at, last.day, last.hour, last.minute, last.number>>
  PROVE  LET new == [tree EXCEPT ![Len(tree)] = f] IN
         /\ TreeOf(new, rows) /\ new # <<>>
         /\ Len(new) = Len(tree) /\ DOMAIN new = DOMAIN tree
         /\ \A i \in DOMAIN tree : new[i] = IF i = Len(tree) THEN f ELSE tree[i]
         /\ TextsBefore(new) = TextsBefore(tree)
<1> DEFINE n == Len(tree)
           new == [tree EXCEPT ![n] = f]
<1>1. /\ n \in Nat /\ DOMAIN tree = 1 .. n /\ n \in 1 .. n
      /\ \A i \in 1 .. n : tree[i] \in Frames(rows)
  BY TreeIs DEF TreeOf
<1>2. /\ new \in Seq(Frames(rows)) /\ Len(new) = n /\ DOMAIN new = 1 .. n
      /\ \A i \in 1 .. n : new[i] = IF i = n THEN f ELSE tree[i]
  BY <1>1, ExceptSeq, LenProperties DEF TreeOf
<1> HIDE DEF new, n
<1>3. \A i \in 1 .. n : <<new[i].at, new[i].day, new[i].hour, new[i].minute>>
                          = <<tree[i].at, tree[i].day, tree[i].hour, tree[i].minute>>
  BY <1>2 DEF n
<1>4. new # <<>>
  BY <1>1, <1>2, EmptySeq
<1>5. Placed(new)
  BY <1>1, <1>2, <1>3 DEF TreeOf, Placed
<1>6. \A i \in 1 .. n : \A k \in DOMAIN new[i].texts : IsOf(new[i], new[i].texts[k])
  BY <1>1, <1>2 DEF TreeOf
<1>7. \A i, j \in 1 .. n : i < j => SameDates(new[i], new[j])
  BY <1>1, <1>3 DEF TreeOf, SameDates
<1>8. TextsBefore(new) = TextsBefore(tree)
  <2>1. \A i \in 1 .. n - 1 : i \in 1 .. n /\ i # n
    BY <1>1
  <2> QED
    BY <1>2, <2>1 DEF TextsBefore, n
<1> QED
  BY <1>1, <1>2, <1>4, <1>5, <1>6, <1>7, <1>8 DEF TreeOf, new, n

(* Another frame is put behind the last one.                               *)
LEMMA FrameAdded ==
  ASSUME NEW rows, NEW tree, TreeOf(tree, rows), NEW f \in Frames(rows),
         \A k \in DOMAIN f.texts : IsOf(f, f.texts[k]),
         tree = <<>> => f.at = <<1, 1, 1, 1>>,
         tree # <<>> => LET last == tree[Len(tree)] IN
           \E depth \in 1 .. 4 :
             /\ f.at = Step(last.at, depth)
             /\ depth > 1 => last.day = f.day
             /\ depth > 2 => last.hour = f.hour
             /\ depth > 3 => last.minute = f.minute
  PROVE  LET new == Append(tree, f) IN
         /\ TreeOf(new, rows) /\ new # <<>>
         /\ Len(new) = Len(tree) + 1 /\ DOMAIN new = 1 .. Len(tree) + 1
         /\ new[Len(tree) + 1] = f /\ \A i \in DOMAIN tree : new[i] = tree[i]
         /\ TextsBefore(new) = TextsOf(tree)
<1> DEFINE n == Len(tree)
           new == Append(tree, f)
<1>1. /\ n \in Nat /\ DOMAIN tree = 1 .. n /\ (tree # <<>> => n \in 1 .. n) /\ (tree = <<>> => n = 0)
      /\ \A i \in 1 .. n : tree[i] \in Frames(rows)
  BY TreeIs DEF TreeOf
<1>2. /\ new \in Seq(Frames(rows)) /\ Len(new) = n + 1 /\ DOMAIN new = 1 .. n + 1
      /\ new[n + 1] = f /\ \A i \in 1 .. n : new[i] = tree[i]
  <2>1. new \in Seq(Frames(rows)) /\ Len(new) = n + 1 /\ new[n + 1] = f /\ \A i \in 1 .. n : new[i] = tree[i]
    BY AppendProperties DEF TreeOf
  <2> QED
    BY <2>1, LenProperties
<1>3. \A i \in 1 .. n + 1 : i = n + 1 \/ i \in 1 .. n
  BY <1>1
<1> HIDE DEF new, n
<1>4. new # <<>>
  BY <1>1, <1>2, EmptySeq
<1>5. Placed(new)
  <2>1. \A i \in 1 .. n + 1 : new[i].at \in Places
    BY <1>1, <1>2, <1>3 DEF Frames
  <2>2. new[1].at = <<1, 1, 1, 1>> /\ 1 \in 1 .. n + 1
    <3>1. CASE tree = <<>>
      BY <1>1, <1>2, <3>1
    <3>2. CASE tree # <<>>
      <4>1. 1 \in 1 .. n /\ 1 \in 1 .. n + 1
        BY <1>1, <3>2
      <4> QED
        BY <1>2, <3>2, <4>1 DEF TreeOf, Placed
    <3> QED
      BY <3>1, <3>2
  <2>3. ASSUME NEW i \in 1 .. n + 1, i + 1 \in 1 .. n + 1
        PROVE  \E depth \in 1 .. 4 : new[i + 1].at = Step(new[i].at, depth)
    <3>1. CASE i = n
      <4>1. tree # <<>> /\ n \in 1 .. n
        BY <1>1, <3>1
      <4>2. new[n + 1] = f /\ new[n] = tree[n]
        BY <1>2, <4>1
      <4>3. \E depth \in 1 .. 4 : f.at = Step(tree[n].at, depth)
        BY <4>1 DEF n
      <4> QED
        BY <3>1, <4>2, <4>3
    <3>2. CASE i # n
      <4>1. i \in 1 .. n /\ i + 1 \in 1 .. n
        BY <1>1, <2>3, <3>2
      <4> QED
        BY <1>1, <1>2, <4>1 DEF TreeOf, Placed
    <3> QED
      BY <3>1, <3>2
  <2>4. Len(new) \in Nat /\ DOMAIN new = 1 .. Len(new) /\ Len(new) = n + 1
    BY <1>1, <1>2
  <2> QED
    BY <2>1, <2>2, <2>3, <2>4 DEF Placed
<1>6. \A i \in 1 .. n + 1 : \A k \in DOMAIN new[i].texts : IsOf(new[i], new[i].texts[k])
  BY <1>1, <1>2, <1>3 DEF TreeOf
<1>7. ASSUME NEW i \in 1 .. n + 1, NEW j \in 1 .. n + 1, i < j PROVE SameDates(new[i], new[j])
  <2>1. i \in 1 .. n
    BY <1>1, <1>7
  <2>2. CASE j \in 1 .. n
    BY <1>1, <1>2, <1>7, <2>1, <2>2 DEF TreeOf
  <2>3. CASE j = n + 1
    <3>1. tree # <<>> /\ n \in 1 .. n /\ i <= n
      BY <1>1, <2>1
    <3> DEFINE last == tree[n]
    <3>2. PICK depth \in 1 .. 4 :
            /\ f.at = Step(last.at, depth)
            /\ depth > 1 => last.day = f.day
            /\ depth > 2 => last.hour = f.hour
            /\ depth > 3 => last.minute = f.minute
      BY <3>1 DEF n
    <3>3. new[i] = tree[i] /\ new[n] = last /\ new[j] = f
      BY <1>2, <2>1, <2>3, <3>1
    <3>4. SameDates(tree[i], last)
      <4>1. i < n => SameDates(tree[i], tree[n])
        BY <1>1, <2>1, <3>1 DEF TreeOf
      <4>2. i = n \/ i < n
        BY <1>1, <2>1, <3>1
      <4> QED
        BY <4>1, <4>2 DEF SameDates
    <3>5. SameDates(last, f)
      <4>1. last.at \in Places
        BY <1>1, <3>1 DEF Frames
      <4>2. /\ last.at[1] \in Nat /\ last.at[2] \in Nat /\ last.at[3] \in Nat
            /\ Step(last.at, 1)[1] = last.at[1] + 1 /\ Step(last.at, 2)[2] = last.at[2] + 1
            /\ Step(last.at, 3)[3] = last.at[3] + 1
        <5>1. 1 \in 1 .. 4 /\ 2 \in 1 .. 4 /\ 3 \in 1 .. 4
          OBVIOUS
        <5> HIDE DEF last
        <5> QED
          BY <4>1, <5>1, PlaceIs DEF Step
      <4>3. /\ depth = 1 => f.at[1] # last.at[1]
            /\ depth = 2 => f.at[2] # last.at[2]
            /\ depth = 3 => f.at[3] # last.at[3]
        <5>1. f.at = Step(last.at, depth)
          BY <3>2
        <5> HIDE DEF last
        <5>2. CASE depth = 1
          BY <4>2, <5>1, <5>2
        <5>3. CASE depth = 2
          BY <4>2, <5>1, <5>3
        <5>4. CASE depth = 3
          BY <4>2, <5>1, <5>4
        <5> QED
          BY <5>2, <5>3, <5>4
      <4>4. depth = 1 \/ depth = 2 \/ depth = 3 \/ depth = 4
        OBVIOUS
      <4> HIDE DEF last
      <4>5. /\ Agree(last.at, f.at, 1) => f.at[1] = last.at[1]
            /\ Agree(last.at, f.at, 2) => f.at[1] = last.at[1] /\ f.at[2] = last.at[2]
            /\ Agree(last.at, f.at, 3) => f.at[1] = last.at[1] /\ f.at[2] = last.at[2] /\ f.at[3] = last.at[3]
        BY DEF Agree
      <4>6. /\ Agree(last.at, f.at, 1) => depth > 1
            /\ Agree(last.at, f.at, 2) => depth > 2
            /\ Agree(last.at, f.at, 3) => depth > 3
        BY <4>3, <4>4, <4>5
      <4> QED
        BY <3>2, <4>6 DEF SameDates
    <3>6. \A d \in 1 .. 3 : Agree(tree[i].at, f.at, d) => Agree(tree[i].at, last.at, d) /\ Agree(last.at, f.at, d)
      <4> TAKE d \in 1 .. 3
      <4>1. /\ i \in DOMAIN new /\ n + 1 \in DOMAIN new /\ i <= n + 1 /\ n \in i .. n + 1 /\ d \in 0 .. 4
        BY <1>1, <1>2, <3>1
      <4>2. Agree(new[i].at, new[n + 1].at, d) =>
              Agree(new[i].at, new[n].at, d) /\ Agree(new[n].at, new[n + 1].at, d)
        BY <1>5, <4>1, NodesAreTogether
      <4> QED
        BY <2>3, <3>3, <4>2
    <3> QED
      BY <3>3, <3>4, <3>5, <3>6 DEF SameDates
  <2> QED
    BY <1>3, <2>2, <2>3
<1>8. TextsBefore(new) = TextsOf(tree)
  <2>1. Len(new) - 1 = n
    BY <1>1, <1>2
  <2> QED
    BY <1>1, <1>2, <2>1 DEF TextsBefore, TextsOf
<1> QED
  BY <1>1, <1>2, <1>4, <1>5, <1>6, <1>7, <1>8 DEF TreeOf, new, n

(* Two sequences of one number each make a pair.                           *)
LEMMA PairIs ==
  ASSUME NEW a \in Nat, NEW b \in Nat
  PROVE  <<a>> \o <<b>> = <<a, b>>
<1> DEFINE both == <<a>> \o <<b>>
<1>1. <<a>> \in Seq(Nat) /\ <<b>> \in Seq(Nat) /\ <<a, b>> \in Seq(Nat)
  OBVIOUS
<1>2. Len(<<a>>) = 1 /\ Len(<<b>>) = 1 /\ Len(<<a, b>>) = 2
  OBVIOUS
<1>3. both \in Seq(Nat) /\ Len(both) = 2 /\ \A i \in 1 .. 2 : both[i] = IF i <= 1 THEN <<a>>[i] ELSE <<b>>[i - 1]
  BY <1>1, <1>2, ConcatProperties
<1> HIDE DEF both
<1>4. both[1] = a /\ both[2] = b
  <2>1. both[1] = <<a>>[1]
    BY <1>3
  <2>2. both[2] = <<b>>[2 - 1]
    BY <1>3
  <2> QED
    BY <2>1, <2>2
<1>5. \A i \in 1 .. 2 : both[i] = <<a, b>>[i]
  BY <1>4
<1>6. both = <<a, b>>
  BY <1>1, <1>2, <1>3, <1>5, SeqEqual
<1> QED
  BY <1>6 DEF both

(* Sequences are joined in any order of the joins.                         *)
LEMMA Associative == ASSUME NEW T PROVE \A s, t, u \in Seq(T) : (s \o t) \o u = s \o (t \o u)
  BY ConcatAssociative

(* The name of the last frame is made complete.                            *)
Complete(tree) == \A i \in DOMAIN tree : tree[i].name = <<tree[i].number, Len(tree[i].texts)>>

(* Naming it changes nothing else of the last frame.                       *)
LEMMA LastNamed ==
  ASSUME NEW rows, NEW tree, TreeOf(tree, rows), Growing(tree), tree # <<>>
  PROVE  LET new == [tree EXCEPT ![Len(tree)] = Named(@)]  last == tree[Len(tree)] IN
         /\ TreeOf(new, rows) /\ new # <<>> /\ Complete(new)
         /\ Len(new) = Len(tree) /\ DOMAIN new = DOMAIN tree
         /\ \A i \in DOMAIN tree : new[i].texts = tree[i].texts
         /\ FlattenSeq(TextsOf(new)) = FlattenSeq(TextsOf(tree))
         /\ LET f == new[Len(tree)] IN
              <<f.at, f.day, f.hour, f.minute, f.number>>
                = <<last.at, last.day, last.hour, last.minute, last.number>>
<1> DEFINE n == Len(tree)
           last == tree[n]
           f == Named(last)
           new == [tree EXCEPT ![n] = f]
<1>1. /\ n \in 1 .. n /\ n \in DOMAIN tree /\ last \in Frames(rows)
      /\ \A i \in DOMAIN tree : tree[i] \in Frames(rows)
  BY TreeIs DEF TreeOf
<1>2. new = [tree EXCEPT ![n] = Named(@)]
  BY <1>1
<1>3. Len(last.texts) \in Nat /\ last.number \in Nat /\ last.name = <<last.number>>
  <2>1. last.texts \in Seq(rows) /\ last.number \in Nat
    BY <1>1 DEF Frames
  <2> QED
    BY <1>1, <2>1, LenProperties DEF Growing
<1>4. /\ f \in Frames(rows) /\ f.texts = last.texts /\ f.name = <<last.number, Len(last.texts)>>
      /\ <<f.at, f.day, f.hour, f.minute, f.number>> = <<last.at, last.day, last.hour, last.minute, last.number>>
  <2>1. last.name \o <<Len(last.texts)>> = <<last.number, Len(last.texts)>>
    <3> HIDE DEF last
    <3> QED
      BY <1>3, PairIs
  <2>2. <<last.number, Len(last.texts)>> \in Seq(Nat)
    BY <1>3
  <2> HIDE DEF last
  <2>3. f = [last EXCEPT !.name = <<last.number, Len(last.texts)>>]
    BY <2>1 DEF Named
  <2> HIDE DEF f
  <2> QED
    BY <1>1, <2>2, <2>3 DEF Frames
<1>5. \A k \in DOMAIN f.texts : IsOf(f, f.texts[k])
  BY <1>1, <1>4 DEF TreeOf, IsOf
<1> HIDE DEF f
<1>6. /\ TreeOf(new, rows) /\ new # <<>>
      /\ Len(new) = n /\ DOMAIN new = DOMAIN tree
      /\ \A i \in DOMAIN tree : new[i] = IF i = n THEN f ELSE tree[i]
      /\ TextsBefore(new) = TextsBefore(tree)
  BY <1>4, <1>5, LastReplaced
<1> HIDE DEF new
<1>7. Complete(new)
  BY <1>4, <1>6 DEF Complete, Growing
<1>8. FlattenSeq(TextsOf(new)) = FlattenSeq(TextsOf(tree))
  <2>1. FlattenSeq(TextsOf(new)) = FlattenSeq(TextsBefore(new)) \o new[n].texts
    BY <1>6, TextsUnfold DEF TreeOf
  <2>2. FlattenSeq(TextsOf(tree)) = FlattenSeq(TextsBefore(tree)) \o tree[n].texts
    BY TextsUnfold DEF TreeOf
  <2> QED
    BY <1>1, <1>4, <1>6, <2>1, <2>2
<1>9. \A i \in DOMAIN tree : new[i].texts = tree[i].texts
  BY <1>4, <1>6
<1>10. new[n] = f
  BY <1>1, <1>6
<1>11. TreeOf(new, rows) /\ new # <<>> /\ Len(new) = n /\ DOMAIN new = DOMAIN tree
  BY <1>6
<1> QED
  BY <1>2, <1>4, <1>7, <1>8, <1>9, <1>10, <1>11

(* The frame that is made for a row, next to the last one.                 *)
LEMMA NewFrameIs ==
  ASSUME NEW rows, Sortable(rows), NEW row \in rows, NEW place \in Places
  PROVE  LET f == NewFrame(place, row) IN
         /\ f \in Frames(rows) /\ f.texts = <<row>> /\ f.name = <<f.number>> /\ f.at = place
         /\ f.day = Day(row) /\ f.hour = Hour(row) /\ f.minute = Minute(row)
         /\ \A k \in DOMAIN f.texts : IsOf(f, f.texts[k])
<1> DEFINE f == NewFrame(place, row)
<1>1. row.video \in Databases /\ row.frame \in Nat
  BY DEF Sortable
<1>2. Day(row) \in Nat /\ Hour(row) \in Nat /\ Minute(row) \in Nat
  BY <1>1, DatesAre
<1>3. f \in Frames(rows)
  <2>1. <<row>> \in Seq(rows) /\ <<row.frame>> \in Seq(Nat)
    BY <1>1
  <2> QED
    BY <1>1, <1>2, <2>1 DEF NewFrame, Frames
<1>4. /\ f.texts = <<row>> /\ f.name = <<f.number>> /\ f.at = place /\ f.number = row.frame
      /\ f.day = Day(row) /\ f.hour = Hour(row) /\ f.minute = Minute(row)
  BY DEF NewFrame
<1> HIDE DEF f
<1>5. \A k \in DOMAIN f.texts : f.texts[k] = row
  BY <1>4
<1>6. \A k \in DOMAIN f.texts : IsOf(f, f.texts[k])
  BY <1>4, <1>5 DEF IsOf
<1> QED
  BY <1>3, <1>4, <1>6 DEF f

(* A row more in the tree is a text more in it, the last.                  *)
LEMMA RowAdded ==
  ASSUME NEW rows, Sortable(rows), NEW row \in rows, NEW tree, TreeOf(tree, rows), Growing(tree)
  PROVE  LET new == AddRow(tree, row) IN
         /\ TreeOf(new, rows) /\ Growing(new) /\ new # <<>>
         /\ FlattenSeq(TextsOf(new)) = FlattenSeq(TextsOf(tree)) \o <<row>>
<1> DEFINE n == Len(tree)
<1>0. row.video \in Databases /\ row.frame \in Nat /\ Day(row) \in Nat
  BY DatesAre DEF Sortable
<1>1. CASE tree = <<>>
  <2> DEFINE f == NewFrame(<<1, 1, 1, 1>>, row)
             new == Append(tree, f)
  <2>1. Place(Root, row) = <<1, 1, 1, 1>> /\ <<1, 1, 1, 1>> # Root.at
    BY <1>0 DEF Place, Root
  <2>2. AddRow(tree, row) = new
    BY <1>1, <2>1 DEF AddRow
  <2>3. <<1, 1, 1, 1>> \in Places
    BY DEF Places
  <2>4. /\ f \in Frames(rows) /\ f.texts = <<row>> /\ f.name = <<f.number>> /\ f.at = <<1, 1, 1, 1>>
        /\ \A k \in DOMAIN f.texts : IsOf(f, f.texts[k])
    BY <2>3, NewFrameIs
  <2> HIDE DEF f
  <2>5. /\ TreeOf(new, rows) /\ new # <<>>
        /\ Len(new) = 1 /\ DOMAIN new = 1 .. 1 /\ new[1] = f
        /\ TextsBefore(new) = TextsOf(tree)
    <3>1. Len(tree) = 0 /\ 0 + 1 = 1
      BY <1>1
    <3> QED
      <4>1. /\ TreeOf(new, rows) /\ new # <<>>
            /\ Len(new) = Len(tree) + 1 /\ DOMAIN new = 1 .. Len(tree) + 1
            /\ new[Len(tree) + 1] = f
            /\ TextsBefore(new) = TextsOf(tree)
        <5>1. tree # <<>> => LET last == tree[Len(tree)] IN
                \E depth \in 1 .. 4 :
                  /\ f.at = Step(last.at, depth)
                  /\ depth > 1 => last.day = f.day
                  /\ depth > 2 => last.hour = f.hour
                  /\ depth > 3 => last.minute = f.minute
          BY <1>1
        <5> QED
          BY <2>4, <5>1, FrameAdded
      <4> HIDE DEF new
      <4> QED
        BY <3>1, <4>1
  <2> HIDE DEF new
  <2>6. Growing(new)
    BY <2>4, <2>5 DEF Growing
  <2>7. FlattenSeq(TextsOf(new)) = FlattenSeq(TextsBefore(new)) \o new[1].texts
    BY <2>5, TextsUnfold DEF TreeOf
  <2> QED
    BY <2>2, <2>4, <2>5, <2>6, <2>7
<1>2. CASE tree # <<>>
  <2> DEFINE last == tree[n]
             place == Place(last, row)
  <2>1. /\ n \in 1 .. n /\ n \in DOMAIN tree /\ last \in Frames(rows) /\ last.at \in Places
        /\ Last(tree) = last /\ DOMAIN tree = 1 .. n /\ n \in Nat
        /\ \A i \in DOMAIN tree : tree[i] \in Frames(rows)
    BY <1>2, TreeIs DEF TreeOf, Frames
  <2>3. CASE place = last.at
    <3> DEFINE f == [last EXCEPT !.texts = Append(@, row)]
               new == [tree EXCEPT ![n] = f]
    <3>1. AddRow(tree, row) = new
      BY <1>2, <2>1, <2>3 DEF AddRow
    <3>2. IsOf(last, row)
      <4>1. \A depth \in 1 .. 4 : Step(last.at, depth) # last.at
        <5> DEFINE p == last.at
        <5>1. p \in Places
          BY <2>1
        <5> HIDE DEF p
        <5>2. \A depth \in 1 .. 4 : Less(p, Step(p, depth))
          BY <5>1, StepIs
        <5>3. ~ Less(p, p)
          BY <5>1, PlaceIs DEF Less
        <5> QED
          BY <5>2, <5>3 DEF p
      <4> QED
        BY <2>1, <2>3, <4>1, NextPlace
    <3>3. last.texts \in Seq(rows)
      BY <2>1 DEF Frames
    <3>4. /\ f \in Frames(rows) /\ f.texts = Append(last.texts, row) /\ f.name = last.name
          /\ <<f.at, f.day, f.hour, f.minute, f.number>> = <<last.at, last.day, last.hour, last.minute, last.number>>
      <4>1. Append(last.texts, row) \in Seq(rows)
        BY <3>3, AppendProperties
      <4> HIDE DEF last
      <4> QED
        BY <2>1, <4>1 DEF Frames
    <3>5. \A k \in DOMAIN f.texts : IsOf(f, f.texts[k])
      <4>1. \A k \in DOMAIN f.texts : f.texts[k] = row \/ (k \in DOMAIN last.texts /\ f.texts[k] = last.texts[k])
        <5> HIDE DEF f, last
        <5> QED
          BY <3>3, <3>4, AppendProperties, LenProperties
      <4>2. \A k \in DOMAIN last.texts : IsOf(last, last.texts[k])
        BY <2>1 DEF TreeOf
      <4> HIDE DEF f, last
      <4> QED
        BY <3>2, <3>4, <4>1, <4>2 DEF IsOf
    <3> HIDE DEF f
    <3>6. /\ TreeOf(new, rows) /\ new # <<>>
          /\ Len(new) = n /\ DOMAIN new = DOMAIN tree
          /\ \A i \in DOMAIN tree : new[i] = IF i = n THEN f ELSE tree[i]
          /\ TextsBefore(new) = TextsBefore(tree)
      BY <1>2, <3>4, <3>5, LastReplaced
    <3> HIDE DEF new
    <3>7. Growing(new)
      BY <2>1, <3>4, <3>6 DEF Growing
    <3>8. FlattenSeq(TextsOf(new)) = FlattenSeq(TextsOf(tree)) \o <<row>>
      <4> DEFINE before == FlattenSeq(TextsBefore(tree))
      <4>1. FlattenSeq(TextsOf(new)) = before \o f.texts
        BY <2>1, <3>6, TextsUnfold DEF TreeOf
      <4>2. FlattenSeq(TextsOf(tree)) = before \o last.texts /\ before \in Seq(rows)
        BY <1>2, TextsUnfold DEF TreeOf
      <4>3. f.texts = last.texts \o <<row>> /\ <<row>> \in Seq(rows)
        <5>1. Append(last.texts, row) = last.texts \o <<row>>
          BY <3>3, AppendIsConcat
        <5> QED
          BY <3>4, <5>1
      <4> HIDE DEF before
      <4> QED
        <5>1. \A t, u : t \in Seq(rows) /\ u \in Seq(rows) => (before \o t) \o u = before \o (t \o u)
          BY <4>2, Associative
        <5> QED
          <6> DEFINE t == last.texts
          <6>1. t \in Seq(rows) /\ <<row>> \in Seq(rows) /\ f.texts = t \o <<row>>
            BY <3>3, <4>3
          <6>2. FlattenSeq(TextsOf(tree)) = before \o t
            BY <4>2
          <6> HIDE DEF t
          <6>3. (before \o t) \o <<row>> = before \o (t \o <<row>>)
            BY <5>1, <6>1
          <6> QED
            BY <4>1, <6>1, <6>2, <6>3
    <3> QED
      BY <3>1, <3>6, <3>7, <3>8
  <2>4. CASE place # last.at
    <3> DEFINE named == [tree EXCEPT ![n] = Named(@)]
               f == NewFrame(place, row)
               new == Append(named, f)
    <3>1. AddRow(tree, row) = new
      <4>1. AddRow(tree, row) =
              IF Place(Last(tree), row) = Last(tree).at
              THEN [tree EXCEPT ![n].texts = Append(@, row)]
              ELSE Append([tree EXCEPT ![n] = Named(@)], NewFrame(Place(Last(tree), row), row))
        BY <1>2 DEF AddRow
      <4> QED
        BY <2>1, <2>4, <4>1
    <3>2. PICK depth \in 1 .. 4 :
            /\ place = Step(last.at, depth)
            /\ depth > 1 => last.day = Day(row)
            /\ depth > 2 => last.hour = Hour(row)
            /\ depth > 3 => last.minute = Minute(row)
      BY <2>1, <2>4, NextPlace
    <3>3. place \in Places
      BY <2>1, <3>2, StepIs
    <3>4. /\ f \in Frames(rows) /\ f.texts = <<row>> /\ f.name = <<f.number>> /\ f.at = place
          /\ f.day = Day(row) /\ f.hour = Hour(row) /\ f.minute = Minute(row)
          /\ \A k \in DOMAIN f.texts : IsOf(f, f.texts[k])
      <4> HIDE DEF place
      <4> QED
        BY <3>3, NewFrameIs
    <3>5. /\ TreeOf(named, rows) /\ named # <<>> /\ Complete(named)
          /\ Len(named) = n /\ DOMAIN named = 1 .. n
          /\ FlattenSeq(TextsOf(named)) = FlattenSeq(TextsOf(tree))
          /\ <<named[n].at, named[n].day, named[n].hour, named[n].minute>>
               = <<last.at, last.day, last.hour, last.minute>>
      BY <1>2, <2>1, LastNamed
    <3> HIDE DEF f, named
    <3>6. /\ TreeOf(new, rows) /\ new # <<>>
          /\ Len(new) = n + 1 /\ DOMAIN new = 1 .. n + 1
          /\ new[n + 1] = f /\ \A i \in 1 .. n : new[i] = named[i]
          /\ TextsBefore(new) = TextsOf(named)
      <4>1. /\ f.at = Step(named[n].at, depth)
            /\ depth > 1 => named[n].day = f.day
            /\ depth > 2 => named[n].hour = f.hour
            /\ depth > 3 => named[n].minute = f.minute
        BY <3>2, <3>4, <3>5
      <4> HIDE DEF last, place
      <4> QED
        BY <3>4, <3>5, <4>1, FrameAdded
    <3> HIDE DEF new
    <3>7. Growing(new)
      <4>1. \A i \in 1 .. n + 1 : i = n + 1 \/ (i \in 1 .. n /\ i # n + 1)
        <5>1. n \in Nat
          BY <2>1
        <5> HIDE DEF n
        <5> QED
          BY <5>1
      <4> QED
        BY <3>4, <3>5, <3>6, <4>1 DEF Growing, Complete
    <3>8. FlattenSeq(TextsOf(new)) = FlattenSeq(TextsOf(tree)) \o <<row>>
      BY <3>4, <3>5, <3>6, TextsUnfold DEF TreeOf
    <3> QED
      BY <3>1, <3>6, <3>7, <3>8
  <2> QED
    BY <2>3, <2>4
<1> QED
  BY <1>1, <1>2

(* What is shown of some rows is a tree of them, with every row once.      *)
Shows(tree, rows) ==
  TreeOf(tree, rows) /\ Complete(tree) /\ FlattenSeq(TextsOf(tree)) = Selection(rows)

(* The tree of no rows is empty.                                           *)
LEMMA NoRows ==
  ASSUME NEW rows
  PROVE  TreeOf(<<>>, rows) /\ Growing(<<>>) /\ Complete(<<>>) /\ FlattenSeq(TextsOf(<<>>)) = <<>>
<1>1. /\ <<>> \in Seq(Frames(rows)) /\ Len(<<>>) = 0 /\ DOMAIN <<>> = {} /\ 1 .. 0 = {} /\ 0 \in Nat
  OBVIOUS
<1>2. TreeOf(<<>>, rows)
  BY <1>1 DEF TreeOf, Placed
<1>3. TextsOf(<<>>) = <<>>
  BY <1>1 DEF TextsOf
<1> QED
  BY <1>1, <1>2, <1>3 DEF Growing, Complete, FlattenSeq

(* What sort_results() makes of some rows shows them.                      *)
LEMMA SortedIs ==
  ASSUME NEW rows, IsFiniteSet(rows), Sortable(rows)
  PROVE  Shows(SortResults(rows), rows)
<1> DEFINE list == Selection(rows)
           n == Len(list)
<1>1. list \in Seq(rows) /\ n \in Nat /\ DOMAIN list = 1 .. n
  BY SelectionIs, LenProperties DEF Lists
<1> HIDE DEF list, n
<1>2. PICK trees : Grown(trees, list, n)
  BY <1>1, GrownByRow
<1> DEFINE good == {i \in Nat : i <= n =>
                      /\ TreeOf(trees[i], rows) /\ Growing(trees[i])
                      /\ FlattenSeq(TextsOf(trees[i])) = SubSeq(list, 1, i)}
<1>3. 0 \in good
  <2>1. SubSeq(list, 1, 0) = <<>>
    BY SubSeqEmpty
  <2> QED
    BY <1>2, <2>1, NoRows DEF Grown
<1>4. ASSUME NEW i \in Nat, i \in good PROVE i + 1 \in good
  <2> SUFFICES ASSUME i + 1 <= n
               PROVE  /\ TreeOf(trees[i + 1], rows) /\ Growing(trees[i + 1])
                      /\ FlattenSeq(TextsOf(trees[i + 1])) = SubSeq(list, 1, i + 1)
    OBVIOUS
  <2>1. i <= n /\ i + 1 \in 1 .. n /\ (i + 1) - 1 = i
    BY <1>1
  <2>2. trees[i + 1] = AddRow(trees[i], list[i + 1])
    BY <1>2, <2>1 DEF Grown
  <2>3. list[i + 1] \in rows
    BY <1>1, <2>1, ElementOfSeq DEF n
  <2>4. /\ TreeOf(trees[i], rows) /\ Growing(trees[i])
        /\ FlattenSeq(TextsOf(trees[i])) = SubSeq(list, 1, i)
    BY <1>4, <2>1
  <2>5. /\ TreeOf(trees[i + 1], rows) /\ Growing(trees[i + 1])
        /\ FlattenSeq(TextsOf(trees[i + 1])) = FlattenSeq(TextsOf(trees[i])) \o <<list[i + 1]>>
    BY <2>2, <2>3, <2>4, RowAdded
  <2>6. SubSeq(list, 1, i + 1) = SubSeq(list, 1, i) \o <<list[i + 1]>>
    <3>1. 1 \in 1 .. Len(list) /\ i + 1 \in 1 .. Len(list)
      BY <1>1, <2>1 DEF n
    <3>2. SubSeq(list, 1, i + 1) = SubSeq(list, 1, (i + 1) - 1) \o <<list[i + 1]>>
      BY <1>1, <3>1, SubSeqRecursiveSecond
    <3> QED
      BY <2>1, <3>2
  <2> QED
    BY <2>4, <2>5, <2>6
<1>5. n \in good
  <2> HIDE DEF good
  <2> QED
    BY <1>1, <1>3, <1>4, CountingUp
<1> DEFINE tree == trees[n]
<1>6. /\ TreeOf(tree, rows) /\ Growing(tree) /\ FlattenSeq(TextsOf(tree)) = list
  <2>1. SubSeq(list, 1, n) = list
    BY <1>1, SubSeqFull DEF n
  <2> QED
    BY <1>1, <1>5, <2>1
<1>7. SortResults(rows) = IF tree = <<>> THEN tree ELSE [tree EXCEPT ![Len(tree)] = Named(@)]
  BY <1>2 DEF Grown, SortResults, list
<1> HIDE DEF tree
<1>8. CASE tree = <<>>
  BY <1>6, <1>7, <1>8, NoRows DEF Shows, list
<1>9. CASE tree # <<>>
  <2> DEFINE new == [tree EXCEPT ![Len(tree)] = Named(@)]
  <2>1. TreeOf(new, rows) /\ Complete(new) /\ FlattenSeq(TextsOf(new)) = FlattenSeq(TextsOf(tree))
    BY <1>6, <1>9, LastNamed
  <2>2. SortResults(rows) = new
    BY <1>7, <1>9
  <2> HIDE DEF new
  <2> QED
    BY <1>6, <2>1, <2>2 DEF Shows, list
<1> QED
  BY <1>8, <1>9

-----------------------------------------------------------------------------
(* What is sorted can be sorted: there are finitely many rows, of videos   *)
(* with a time and of frames with a number.                                *)
EntriesAreFinite ==
  /\ DOMAIN current_entries = SearchThreads
  /\ \A t \in SearchThreads :
       IsFiniteSet(current_entries[t]) /\ \A e \in current_entries[t] : e.frame \in Nat

RowsInv == IsFiniteSet(results) /\ Sortable(results)

(* A search finds finitely many entries.                                   *)
LEMMA FoundIs ==
  ASSUME NEW d \in Databases, NEW x \in Texts \cup {NoText}
  PROVE  IsFiniteSet(Found(d, x)) /\ \A e \in Found(d, x) : e.frame \in Nat
<1>1. CASE x = NoText
  BY <1>1, FS_EmptySet DEF Found
<1>2. CASE x # NoText
  <2>1. IsFiniteSet(Hits(d, x)) /\ Hits(d, x) \subseteq Nat
    BY <1>2, SearchAssumption
  <2>2. Found(d, x) = {[from |-> d, text |-> x, frame |-> f] : f \in Hits(d, x)}
    BY <1>2 DEF Found
  <2> DEFINE g == [f \in Hits(d, x) |-> [from |-> d, text |-> x, frame |-> f]]
  <2>3. g \in Surjection(Hits(d, x), Found(d, x))
    BY <2>2 DEF Surjection
  <2>4. IsFiniteSet(Found(d, x))
    BY <2>1, <2>3, FS_Surjection
  <2> QED
    BY <2>1, <2>2, <2>4
<1> QED
  BY <1>1, <1>2

(* Entries become as many rows, of their video.                            *)
LEMMA StoredIs ==
  ASSUME NEW d \in Databases, NEW entries, IsFiniteSet(entries), \A e \in entries : e.frame \in Nat
  PROVE  IsFiniteSet(StoredFor(d, entries)) /\ Sortable(StoredFor(d, entries))
<1> DEFINE g == [e \in entries |-> [video |-> d, from |-> e.from, text |-> e.text, frame |-> e.frame]]
<1>1. g \in Surjection(entries, StoredFor(d, entries))
  BY DEF Surjection, StoredFor
<1>2. IsFiniteSet(StoredFor(d, entries))
  BY <1>1, FS_Surjection
<1> QED
  BY <1>2 DEF StoredFor, Sortable

(* Every jump from a frame of the tree leads to one.                       *)
LEMMA JumpsStay ==
  ASSUME Placed(days), NEW i \in DOMAIN days, NEW key \in Keys, NEW shift \in BOOLEAN
  PROVE  /\ \E j \in DOMAIN days : Jump(days, days[i].at, key, shift) = days[j].at
         /\ (shift => key \in {"page_up", "page_down"}) =>
              Jump(days, days[i].at, key, shift) = days[Target(i, key, shift)].at
<1> DEFINE p == days[i].at
<1>1. \A depth \in {1, 2, 3, 4} : Behind(i, depth) \in DOMAIN days /\ Before(i, depth) \in DOMAIN days
  <2>1. \A depth \in 1 .. 4 : Behind(i, depth) \in DOMAIN days
    BY NextNode
  <2>2. \A depth \in 1 .. 4 : Before(i, depth) \in DOMAIN days
    BY PreviousNode
  <2>3. \A depth \in {1, 2, 3, 4} : depth \in 1 .. 4
    OBVIOUS
  <2> QED
    BY <2>1, <2>2, <2>3
<1>2. /\ JumpToNextHour(days, p, TRUE) = days[Behind(i, 1)].at
      /\ JumpToNextHour(days, p, FALSE) = days[Behind(i, 2)].at
      /\ JumpToNextMinute(days, p, FALSE) = days[Behind(i, 3)].at
      /\ JumpToNextFrame(days, p, FALSE) = days[Behind(i, 4)].at
      /\ JumpToNextMinute(days, p, TRUE) \in {days[Behind(i, depth)].at : depth \in {1, 3}}
      /\ JumpToNextFrame(days, p, TRUE) \in {days[Behind(i, depth)].at : depth \in {1, 3, 4}}
  BY JumpsForward
<1>3. /\ JumpToPreviousHour(days, p, TRUE) = days[Before(i, 1)].at
      /\ JumpToPreviousHour(days, p, FALSE) = days[Before(i, 2)].at
      /\ JumpToPreviousMinute(days, p, FALSE) = days[Before(i, 3)].at
      /\ JumpToPreviousFrame(days, p, FALSE) = days[Before(i, 4)].at
      /\ JumpToPreviousMinute(days, p, TRUE) \in {days[Before(i, depth)].at : depth \in {1, 3}}
      /\ JumpToPreviousFrame(days, p, TRUE) \in {days[Before(i, depth)].at : depth \in {1, 3, 4}}
  BY JumpsBack
<1> HIDE DEF p
<1>4. CASE key = "up"
  BY <1>1, <1>3, <1>4 DEF Jump, Target, p
<1>5. CASE key = "down"
  BY <1>1, <1>2, <1>5 DEF Jump, Target, p
<1>6. CASE key = "left"
  BY <1>1, <1>3, <1>6 DEF Jump, Target, p
<1>7. CASE key = "right"
  BY <1>1, <1>2, <1>7 DEF Jump, Target, p
<1>8. CASE key = "page_up"
  BY <1>1, <1>3, <1>8 DEF Jump, Target, p
<1>9. CASE key = "page_down"
  BY <1>1, <1>2, <1>9 DEF Jump, Target, p
<1> QED
  BY <1>4, <1>5, <1>6, <1>7, <1>8, <1>9 DEF Keys

(* What the user types and the threads look for is a text.                 *)
TextsAre ==
  /\ query \in Texts \cup {NoText}
  /\ \A t \in SearchThreads : search_text[t] \in Texts \cup {NoText}

(* Every step keeps them texts.                                            *)
LEMMA TextsKept ==
  ASSUME TextsAre, SearchInv, [Next]_vars
  PROVE  TextsAre'
<1> USE DEF requests
<1>1. CASE UNCHANGED vars
  BY <1>1 DEF vars, search_vars, text_field, TextsAre
<1>2. CASE GuiStep
  <2>1. CASE \E text \in Texts : StartSearch(text)
    BY <2>1 DEF StartSearch, FindText, TextsAre
  <2>2. CASE EngineStep
    <3>1. query' = query
      BY <2>2 DEF EngineStep, text_field
    <3>2. CASE SetText(query)
      BY <3>1, <3>2 DEF SetText, TextsAre, SearchInv, ThreadInv
    <3>3. CASE ClearResults \/ StartThread
      BY <3>1, <3>3 DEF ClearResults, StartThread, TextsAre
    <3> QED
      BY <2>2, <3>2, <3>3 DEF EngineStep
  <2>3. CASE DrawSearch \/ SearchShort \/ DrawResults \/ SelectFrame \/ DrawFrame
             \/ (\E key \in Keys, shift \in BOOLEAN : PressKey(key, shift)) \/ PressKeyOnOldFrame
    BY <2>3 DEF DrawSearch, SearchShort, DrawResults, SelectFrame, DrawFrame, PressKey,
       PressKeyOnOldFrame, search_vars, text_field, TextsAre
  <2>4. CASE CloseWindow \/ Destroy
    BY <2>4 DEF CloseWindow, Destroy, Close, StopThread, JoinThread, text_field, TextsAre
  <2> QED
    BY <1>2, <2>1, <2>2, <2>3, <2>4 DEF GuiStep
<1>3. CASE \E t \in SearchThreads : EngineThread(t)
  <2>1. UNCHANGED <<query, search_text>>
    BY <1>3, OtherThreads DEF EngineThread, text_field, SearchInv
  <2> QED
    BY <2>1 DEF TextsAre
<1> QED
  BY <1>1, <1>2, <1>3 DEF Next

(* There stay finitely many rows and entries, all of frames.               *)
LEMMA RowsKept ==
  ASSUME TextsAre, SearchInv, EntriesAreFinite, RowsInv, [Next]_vars
  PROVE  EntriesAreFinite' /\ RowsInv'
<1>1. CASE UNCHANGED <<current_entries, results>>
  BY <1>1 DEF EntriesAreFinite, RowsInv, Sortable
<1>2. CASE ClearResults
  <2>1. UNCHANGED current_entries /\ results' = {}
    BY <1>2 DEF ClearResults, work
  <2> QED
    BY <2>1, FS_EmptySet DEF EntriesAreFinite, RowsInv, Sortable
<1>3. ASSUME NEW t \in SearchThreads, ThreadStep(t) PROVE EntriesAreFinite' /\ RowsInv'
  <2> DEFINE file == files[t][at[t]]
  <2>0. pc[t] \in {"search", "report"} => file \in Databases
    <3>1. pc[t] \in {"search", "report"} => at[t] \in 1 .. Len(files[t])
      BY FilesAre DEF SearchInv, ThreadInv, Busy
    <3> QED
      BY <3>1, FilesAre DEF SearchInv
  <2> HIDE DEF file
  <2>1. CASE Leave(t) \/ StartWork(t) \/ ReportThrows(t)
    BY <1>1, <2>1 DEF Leave, StartWork, ReportThrows, found, work
  <2>2. CASE SearchFile(t)
    <3>1. /\ pc[t] = "search" /\ UNCHANGED results
          /\ current_entries' = [current_entries EXCEPT ![t] = Found(file, search_text[t])]
      BY <2>2 DEF SearchFile, found, file
    <3>2. /\ IsFiniteSet(Found(file, search_text[t]))
          /\ \A e \in Found(file, search_text[t]) : e.frame \in Nat
      BY <2>0, <3>1, FoundIs DEF TextsAre
    <3> QED
      BY <3>1, <3>2 DEF EntriesAreFinite, RowsInv, Sortable
  <2>3. CASE SearchFails(t)
    <3>1. UNCHANGED results /\ (UNCHANGED current_entries \/ current_entries' = [current_entries EXCEPT ![t] = {}])
      BY <2>3 DEF SearchFails
    <3> QED
      BY <3>1, FS_EmptySet DEF EntriesAreFinite, RowsInv, Sortable
  <2>4. CASE Report(t)
    <3>1. /\ pc[t] = "report" /\ UNCHANGED current_entries
          /\ results' = results \cup StoredFor(file, current_entries[t])
      BY <2>4 DEF Report, file
    <3>2. IsFiniteSet(StoredFor(file, current_entries[t])) /\ Sortable(StoredFor(file, current_entries[t]))
      BY <2>0, <3>1, StoredIs DEF EntriesAreFinite
    <3>3. IsFiniteSet(results')
      BY <3>1, <3>2, FS_Union DEF RowsInv
    <3> QED
      BY <3>1, <3>2, <3>3 DEF EntriesAreFinite, RowsInv, Sortable
  <2> QED
    BY <1>3, <2>1, <2>2, <2>3, <2>4 DEF ThreadStep
<1>4. CASE FindText \/ SetText(query) \/ StartThread \/ Close \/ StopThread \/ JoinThread
  BY <1>1, <1>4 DEF FindText, SetText, StartThread, Close, StopThread, JoinThread, work, found
<1>5. CASE UNCHANGED <<search_vars, query>>
  BY <1>1, <1>5 DEF search_vars, work, found
<1> QED
  BY <1>2, <1>3, <1>4, <1>5, StepsAre DEF EngineMoves

(* The frame shown is where its owner pointers say, as long as those lead  *)
(* anywhere.                                                               *)
TreeInv == Placed(days) /\ (owned => \E i \in DOMAIN days : days[i].at = current)

(* The old tree and a new one have their places.                           *)
LEMMA TreesAre ==
  ASSUME RowsInv, days' = days \/ days' = SortResults(results), Placed(days)
  PROVE  Placed(days)'
<1>1. Placed(SortResults(results))
  BY SortedIs DEF RowsInv, Shows, TreeOf
<1> QED
  BY <1>1 DEF Placed

(* Every step keeps the frame shown in the tree, or no longer owned.       *)
LEMMA TreeKept ==
  ASSUME RowsInv, TreeInv, [Next]_vars
  PROVE  TreeInv'
<1>1. CASE UNCHANGED <<days, current, owned>>
  BY <1>1 DEF TreeInv, Placed
<1>2. CASE DrawResults
  <2>1. /\ days' = IF Refreshed THEN SortResults(results) ELSE days
        /\ owned' = (owned /\ ~ Refreshed) /\ current' = current
    BY <1>2 DEF DrawResults, Refresh, Refreshed
  <2>2. Placed(days)'
    BY <2>1, TreesAre DEF TreeInv
  <2>3. owned' => owned /\ days' = days
    BY <2>1
  <2> QED
    BY <2>1, <2>2, <2>3 DEF TreeInv
<1>3. CASE SelectFrame
  <2>1. /\ days' = IF Refreshed THEN SortResults(results) ELSE days
        /\ \E i \in DOMAIN days' : current' = days'[i].at
    BY <1>3 DEF SelectFrame, Refresh, Refreshed, Show
  <2>2. Placed(days)'
    BY <2>1, TreesAre DEF TreeInv
  <2> QED
    BY <2>1, <2>2 DEF TreeInv
<1>4. ASSUME NEW key \in Keys, NEW shift \in BOOLEAN, PressKey(key, shift) PROVE TreeInv'
  <2>1. owned /\ days' = days /\ current' = Jump(days, current, key, shift)
    BY <1>4 DEF PressKey, Show, results_view
  <2>2. PICK i \in DOMAIN days : days[i].at = current
    BY <2>1 DEF TreeInv
  <2>3. \E j \in DOMAIN days : current' = days[j].at
    BY <2>1, <2>2, JumpsStay DEF TreeInv
  <2> QED
    BY <2>1, <2>3 DEF TreeInv, Placed
<1>5. CASE UNCHANGED vars
  BY <1>1, <1>5 DEF vars, results_view, frame_view
<1>6. CASE DrawSearch \/ SearchShort \/ (\E text \in Texts : StartSearch(text)) \/ EngineStep
           \/ DrawFrame \/ PressKeyOnOldFrame \/ CloseWindow \/ Destroy
  BY <1>1, <1>6 DEF DrawSearch, SearchShort, StartSearch, EngineStep, DrawFrame, PressKeyOnOldFrame,
     CloseWindow, Destroy, results_view, frame_view
<1>7. CASE \E t \in SearchThreads : EngineThread(t)
  BY <1>1, <1>7 DEF EngineThread, results_view, frame_view
<1> QED
  BY <1>2, <1>3, <1>4, <1>5, <1>6, <1>7 DEF Next, GuiStep

ShownInv == SearchInv /\ TextsAre /\ EntriesAreFinite /\ RowsInv /\ TreeInv

(* All of this holds in every reachable state.                             *)
LEMMA ShownIsRight == Spec => []ShownInv
<1>1. Init => ShownInv
  <2> SUFFICES ASSUME Init PROVE ShownInv
    OBVIOUS
  <2>0. /\ search_text = [t \in SearchThreads |-> NoText] /\ query = NoText /\ owned = FALSE
        /\ current_entries = [t \in SearchThreads |-> {}] /\ results = {} /\ days = <<>>
    BY DEF Init, SearchInit
  <2>1. SearchInv
    BY SearchStarts
  <2>2. TextsAre
    BY <2>0 DEF TextsAre
  <2>3. EntriesAreFinite /\ RowsInv
    BY <2>0, FS_EmptySet DEF EntriesAreFinite, RowsInv, Sortable
  <2>4. TreeInv
    BY <2>0, NoRows DEF TreeInv, TreeOf
  <2> QED
    BY <2>1, <2>2, <2>3, <2>4 DEF ShownInv
<1>2. ShownInv /\ [Next]_vars => ShownInv'
  BY SearchGoesOn, TextsKept, RowsKept, TreeKept DEF ShownInv
<1> QED
  BY <1>1, <1>2, PTL DEF Spec

(* The keys lead from each frame to the next or the one before in the list *)
(* of all frames that is in another frame, minute, hour or day, and stay   *)
(* in the tree: for every tree that sort_results can build.                *)
THEOREM JumpsFollowOrderCorrect == Spec => JumpsFollowOrder
<1>1. ShownInv /\ [Next]_vars =>
        [\A key \in Keys, shift \in BOOLEAN :
           PressKey(key, shift) /\ (shift => key \in {"page_up", "page_down"}) =>
             \E i \in DOMAIN days :
               days[i].at = current /\ current' = days[Target(i, key, shift)].at]_vars
  <2> SUFFICES ASSUME ShownInv, NEW key \in Keys, NEW shift \in BOOLEAN,
                      PressKey(key, shift), shift => key \in {"page_up", "page_down"}
               PROVE  \E i \in DOMAIN days :
                        days[i].at = current /\ current' = days[Target(i, key, shift)].at
    OBVIOUS
  <2>1. owned /\ current' = Jump(days, current, key, shift)
    BY DEF PressKey, Show
  <2>2. PICK i \in DOMAIN days : days[i].at = current
    BY <2>1 DEF ShownInv, TreeInv
  <2>3. Jump(days, days[i].at, key, shift) = days[Target(i, key, shift)].at
    BY JumpsStay DEF ShownInv, TreeInv
  <2> QED
    BY <2>1, <2>2, <2>3
<1> QED
  BY <1>1, ShownIsRight, PTL DEF Spec, JumpsFollowOrder

(* Only a refresh builds a tree.                                           *)
LEMMA RefreshSorts ==
  ASSUME [Next]_vars, days' # days
  PROVE  days' = SortResults(results)
<1>1. CASE DrawResults \/ SelectFrame
  BY <1>1 DEF DrawResults, SelectFrame, Refresh
<1>2. days' = days \/ DrawResults \/ SelectFrame
  BY DEF Next, GuiStep, DrawSearch, SearchShort, StartSearch, EngineStep, DrawFrame, PressKey,
     PressKeyOnOldFrame, CloseWindow, Destroy, EngineThread, vars, results_view
<1> QED
  BY <1>1, <1>2

(* What a refresh shows is the selection of the rows, in order and none    *)
(* left out, each under its own day, hour, minute and frame, with nodes    *)
(* that are one time each and frames whose names count their texts.        *)
THEOREM TreeShowsResultsCorrect == Spec => TreeShowsResults
<1>2. ASSUME NEW tree, NEW rows, Shows(tree, rows)
      PROVE  /\ FlattenSeq([i \in DOMAIN tree |-> tree[i].texts]) = Selection(rows)
             /\ \A i \in DOMAIN tree : LET f == tree[i] IN
                  /\ f.name = <<f.number, Len(f.texts)>>
                  /\ \A row \in ToSet(f.texts) :
                       <<Day(row), Hour(row), Minute(row), row.frame>>
                         = <<f.day, f.hour, f.minute, f.number>>
             /\ \A i, j \in DOMAIN tree : LET f == tree[i]  g == tree[j] IN
                  /\ SameNode(f, g, 1) => f.day = g.day
                  /\ SameNode(f, g, 2) => f.hour = g.hour
                  /\ SameNode(f, g, 3) => f.minute = g.minute
                  /\ SameNode(f, g, 4) => i = j
  <2>0. TreeOf(tree, rows) /\ Placed(tree)
    BY <1>2 DEF Shows, TreeOf
  <2>1. FlattenSeq([i \in DOMAIN tree |-> tree[i].texts]) = Selection(rows)
    BY <1>2 DEF Shows, TextsOf
  <2>2. ASSUME NEW i \in DOMAIN tree
        PROVE  /\ tree[i].name = <<tree[i].number, Len(tree[i].texts)>>
               /\ \A row \in ToSet(tree[i].texts) :
                    <<Day(row), Hour(row), Minute(row), row.frame>>
                      = <<tree[i].day, tree[i].hour, tree[i].minute, tree[i].number>>
    BY <1>2, <2>0 DEF Shows, Complete, TreeOf, IsOf, ToSet
  <2>3. ASSUME NEW i \in DOMAIN tree, NEW j \in DOMAIN tree
        PROVE  /\ SameNode(tree[i], tree[j], 1) => tree[i].day = tree[j].day
               /\ SameNode(tree[i], tree[j], 2) => tree[i].hour = tree[j].hour
               /\ SameNode(tree[i], tree[j], 3) => tree[i].minute = tree[j].minute
               /\ SameNode(tree[i], tree[j], 4) => i = j
    <3>1. /\ tree[i].at \in Places /\ tree[j].at \in Places /\ i \in Nat /\ j \in Nat
      BY <2>0 DEF Placed
    <3>2. /\ \A depth \in 1 .. 4 : SameNode(tree[i], tree[j], depth) <=> Agree(tree[i].at, tree[j].at, depth)
          /\ \A depth \in 1 .. 4 : Agree(tree[i].at, tree[j].at, depth) <=> Agree(tree[j].at, tree[i].at, depth)
      BY <3>1, SameBeginning, AgreeNext DEF SameNode
    <3>3. 1 \in 1 .. 4 /\ 2 \in 1 .. 4 /\ 3 \in 1 .. 4 /\ 4 \in 1 .. 4
      OBVIOUS
    <3>4. CASE i = j
      BY <3>4
    <3>5. CASE i < j
      <4>1. SameDates(tree[i], tree[j])
        BY <2>0, <3>5 DEF TreeOf
      <4>2. ~ Agree(tree[i].at, tree[j].at, 4)
        BY <2>0, <3>1, <3>5, InOrder, PlaceIs DEF Less, Agree
      <4> QED
        BY <3>2, <3>3, <4>1, <4>2 DEF SameDates
    <3>6. CASE j < i
      <4>1. SameDates(tree[j], tree[i])
        BY <2>0, <3>6 DEF TreeOf
      <4>2. ~ Agree(tree[j].at, tree[i].at, 4)
        BY <2>0, <3>1, <3>6, InOrder, PlaceIs DEF Less, Agree
      <4> QED
        BY <3>2, <3>3, <4>1, <4>2 DEF SameDates
    <3> QED
      BY <3>1, <3>4, <3>5, <3>6
  <2> QED
    BY <2>1, <2>2, <2>3
<1>3. ASSUME ShownInv PROVE Shows(SortResults(results), results)
  BY <1>3, SortedIs DEF ShownInv, RowsInv
<1>4. ShownInv /\ [Next]_vars =>
       [days' # days =>
         /\ FlattenSeq([i \in DOMAIN days' |-> days'[i].texts]) = Selection(results)
         /\ \A i \in DOMAIN days' : LET f == days'[i] IN
              /\ f.name = <<f.number, Len(f.texts)>>
              /\ \A row \in ToSet(f.texts) :
                   <<Day(row), Hour(row), Minute(row), row.frame>>
                     = <<f.day, f.hour, f.minute, f.number>>
         /\ \A i, j \in DOMAIN days' : LET f == days'[i]  g == days'[j] IN
              /\ SameNode(f, g, 1) => f.day = g.day
              /\ SameNode(f, g, 2) => f.hour = g.hour
              /\ SameNode(f, g, 3) => f.minute = g.minute
              /\ SameNode(f, g, 4) => i = j]_vars
  <2> SUFFICES ASSUME ShownInv, [Next]_vars, days' # days
               PROVE  /\ FlattenSeq([i \in DOMAIN days' |-> days'[i].texts]) = Selection(results)
                      /\ \A i \in DOMAIN days' : LET f == days'[i] IN
                           /\ f.name = <<f.number, Len(f.texts)>>
                           /\ \A row \in ToSet(f.texts) :
                                <<Day(row), Hour(row), Minute(row), row.frame>>
                                  = <<f.day, f.hour, f.minute, f.number>>
                      /\ \A i, j \in DOMAIN days' : LET f == days'[i]  g == days'[j] IN
                           /\ SameNode(f, g, 1) => f.day = g.day
                           /\ SameNode(f, g, 2) => f.hour = g.hour
                           /\ SameNode(f, g, 3) => f.minute = g.minute
                           /\ SameNode(f, g, 4) => i = j
    OBVIOUS
  <2>1. Shows(days', results)
    BY <1>3, RefreshSorts
  <2> QED
    BY <1>2, <2>1
<1> QED
  BY <1>4, ShownIsRight, PTL DEF Spec, TreeShowsResults

(* What is shown, from left to right, is every row of the table once, and  *)
(* no row before an earlier one.                                           *)
THEOREM TreeListsResults ==
  Spec => [][days' # days => Lists(FlattenSeq(TextsOf(days')), results)]_vars
<1>1. ShownInv /\ [Next]_vars => [days' # days => Lists(FlattenSeq(TextsOf(days')), results)]_vars
  <2> SUFFICES ASSUME ShownInv, [Next]_vars, days' # days
               PROVE  Lists(FlattenSeq(TextsOf(days')), results)
    OBVIOUS
  <2>1. days' = SortResults(results)
    BY RefreshSorts
  <2>2. FlattenSeq(TextsOf(SortResults(results))) = Selection(results)
    BY SortedIs DEF ShownInv, RowsInv, Shows
  <2>3. Lists(Selection(results), results)
    BY SelectionIs DEF ShownInv, RowsInv
  <2> QED
    BY <2>1, <2>2, <2>3
<1> QED
  BY <1>1, ShownIsRight, PTL DEF Spec
=============================================================================
