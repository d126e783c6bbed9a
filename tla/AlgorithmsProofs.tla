--------------------------- MODULE AlgorithmsProofs -------------------------
(***************************************************************************)
(* What the computations promise for every input: until when a CAF is      *)
(* used, when two emissions of a test set are the same, what a balanced    *)
(* reconciliation means, and that the summary of a book, of a book of      *)
(* guides or of a report of folios is what its detail adds up to. The      *)
(* sums and the runs of folios are recursive functions on sets: what they  *)
(* yield is shown by a smallest counterexample.                            *)
(***************************************************************************)
EXTENDS Computations, FiniteSetTheorems, WellFoundedInduction, TLAPS

-----------------------------------------------------------------------------
(* Sums and counts. The induction is on the size of a set: of the sets for  *)
(* which a sum would be wrong there would be a smallest.                   *)

(* A set of naturals that is not empty has a least one.                    *)
LEMMA LeastExists ==
  ASSUME NEW S, S \subseteq Nat, S # {}
  PROVE  \E m \in S : \A n \in Nat : n < m => n \notin S
<1> DEFINE below == {ss \in Nat \X Nat : ss[1] < ss[2]}
<1>1. IsWellFoundedOn(below, Nat)
  BY NatLessThanWellFounded, Zenon DEF OpToRel
<1>2. PICK m \in S : \A e \in S : <<e, m>> \notin below
  <2> HIDE DEF below
  <2> QED
    BY <1>1, WFMin, Zenon
<1> QED
  BY <1>2

Picked(s) == CHOOSE x \in s : TRUE

SumsOf(f, T, iter) ==
  iter = [s \in SUBSET T |-> IF s = {} THEN 0 ELSE f[Picked(s)] + iter[s \ {Picked(s)}]]

LEMMA SumUnfolds ==
  ASSUME NEW f, NEW T
  PROVE  SumFunctionOnSet(f, T) = (CHOOSE iter : SumsOf(f, T, iter))[T]
BY DEF SumFunctionOnSet, FoldFunctionOnSet, MapThenFoldSet, SumsOf, Picked

LEMMA PickedSmaller ==
  ASSUME NEW s, IsFiniteSet(s), s # {}
  PROVE  /\ Picked(s) \in s /\ IsFiniteSet(s \ {Picked(s)})
         /\ Cardinality(s) \in Nat \ {0}
         /\ Cardinality(s \ {Picked(s)}) = Cardinality(s) - 1
<1>1. Picked(s) \in s
  BY DEF Picked
<1> QED
  BY <1>1, FS_RemoveElement, FS_EmptySet, FS_CardinalityType

LEMMA SumsExist ==
  ASSUME NEW f, NEW T, IsFiniteSet(T)
  PROVE  \E iter : SumsOf(f, T, iter)
<1> DEFINE upTo(n) == {s \in SUBSET T : Cardinality(s) <= n}
           good(n, g) == g = [s \in upTo(n) |-> IF s = {} THEN 0 ELSE f[Picked(s)] + g[s \ {Picked(s)}]]
           bad == {n \in Nat : ~\E g : good(n, g)}
<1>1. \A s \in SUBSET T : IsFiniteSet(s) /\ Cardinality(s) \in Nat /\ Cardinality(s) <= Cardinality(T)
  BY FS_Subset, FS_CardinalityType
<1>2. ASSUME NEW n \in Nat, NEW s \in upTo(n), s # {}
      PROVE  s \ {Picked(s)} \in upTo(n) /\ (n > 0 => s \ {Picked(s)} \in upTo(n - 1))
  BY <1>1, <1>2, PickedSmaller
<1>3. bad = {}
  <2> SUFFICES ASSUME bad # {} PROVE FALSE
    OBVIOUS
  <2>1. PICK m \in bad : \A n \in Nat : n < m => n \notin bad
    <3> HIDE DEF good
    <3> QED
      BY LeastExists
  <2>2. CASE m = 0
    <3>1. ASSUME NEW s \in upTo(0) PROVE s = {}
      <4>1. IsFiniteSet(s) /\ Cardinality(s) \in Nat /\ Cardinality(s) <= 0
        BY <1>1
      <4>2. ASSUME s # {} PROVE Cardinality(s) \in Nat \ {0}
        BY <4>1, <4>2, PickedSmaller, Zenon
      <4> QED
        BY <4>1, <4>2
    <3>2. good(0, [s \in upTo(0) |-> 0])
      BY <3>1
    <3> QED
      BY <2>1, <2>2, <3>2
  <2>3. CASE m > 0
    <3>1. m \in Nat /\ m - 1 \in Nat /\ m - 1 < m
      BY <2>3
    <3>2. PICK g : good(m - 1, g)
      BY <2>1, <3>1
    <3> DEFINE h == [s \in upTo(m) |-> IF s = {} THEN 0 ELSE f[Picked(s)] + g[s \ {Picked(s)}]]
    <3>3. ASSUME NEW s \in upTo(m - 1) PROVE s \in upTo(m) /\ h[s] = g[s]
      <4>1. s \in upTo(m)
        BY <1>1, <3>1, <3>3
      <4> QED
        BY <3>2, <4>1
    <3>4. ASSUME NEW s \in upTo(m), s # {} PROVE h[s \ {Picked(s)}] = g[s \ {Picked(s)}]
      <4> HIDE DEF upTo, h
      <4> QED
        BY <1>2, <2>3, <3>1, <3>3, <3>4
    <3>5. h = [s \in upTo(m) |-> IF s = {} THEN 0 ELSE f[Picked(s)] + h[s \ {Picked(s)}]]
      <4>1. \A s \in upTo(m) : (IF s = {} THEN 0 ELSE f[Picked(s)] + g[s \ {Picked(s)}])
                               = (IF s = {} THEN 0 ELSE f[Picked(s)] + h[s \ {Picked(s)}])
        BY <3>4
      <4>2. PICK k : k = h
        OBVIOUS
      <4>3. k = [s \in upTo(m) |-> IF s = {} THEN 0 ELSE f[Picked(s)] + g[s \ {Picked(s)}]]
        BY <4>2
      <4>4. \A s \in upTo(m) : (IF s = {} THEN 0 ELSE f[Picked(s)] + g[s \ {Picked(s)}])
                               = (IF s = {} THEN 0 ELSE f[Picked(s)] + k[s \ {Picked(s)}])
        BY <4>1, <4>2
      <4> HIDE DEF upTo, h
      <4>5. k = [s \in upTo(m) |-> IF s = {} THEN 0 ELSE f[Picked(s)] + k[s \ {Picked(s)}]]
        BY <4>3, <4>4
      <4> QED
        BY <4>2, <4>5
    <3> QED
      BY <2>1, <3>1, <3>5
  <2> QED
    BY <2>1, <2>2, <2>3
<1>4. Cardinality(T) \in Nat /\ upTo(Cardinality(T)) = SUBSET T
  BY <1>1
<1>5. \E g : good(Cardinality(T), g)
  <2> HIDE DEF good, upTo
  <2> QED
    BY <1>3, <1>4
<1> HIDE DEF upTo
<1> QED
  BY <1>4, <1>5 DEF SumsOf

LEMMA SumsAgree ==
  ASSUME NEW f, NEW T, NEW U, NEW i, NEW j, SumsOf(f, T, i), SumsOf(f, U, j),
         NEW s \in SUBSET T, s \in SUBSET U, IsFiniteSet(s)
  PROVE  i[s] = j[s]
<1> DEFINE differ(t) == t \in SUBSET s /\ i[t] # j[t]
           bad == {n \in Nat : \E t : differ(t) /\ Cardinality(t) = n}
<1>1. \A t \in SUBSET s : IsFiniteSet(t) /\ Cardinality(t) \in Nat
  BY FS_Subset, FS_CardinalityType
<1>2. \A t \in SUBSET s :
        /\ i[t] = IF t = {} THEN 0 ELSE f[Picked(t)] + i[t \ {Picked(t)}]
        /\ j[t] = IF t = {} THEN 0 ELSE f[Picked(t)] + j[t \ {Picked(t)}]
  BY DEF SumsOf
<1>3. bad = {}
  <2> SUFFICES ASSUME bad # {} PROVE FALSE
    OBVIOUS
  <2>1. PICK m \in bad : \A n \in Nat : n < m => n \notin bad
    <3> HIDE DEF differ
    <3> QED
      BY LeastExists
  <2>2. PICK t : differ(t) /\ Cardinality(t) = m
    BY <2>1
  <2>3. t # {} /\ i[t \ {Picked(t)}] # j[t \ {Picked(t)}]
    BY <1>2, <2>2
  <2>4. /\ t \ {Picked(t)} \in SUBSET s
        /\ Cardinality(t \ {Picked(t)}) \in Nat /\ Cardinality(t \ {Picked(t)}) < m
    BY <1>1, <2>2, <2>3, PickedSmaller
  <2>5. differ(t \ {Picked(t)})
    BY <2>3, <2>4
  <2> QED
    BY <2>1, <2>4, <2>5
<1> QED
  BY <1>1, <1>3

(* The sum of f over a set: nothing, or the element picked and the rest.   *)
LEMMA SumStep ==
  ASSUME NEW f, NEW T, IsFiniteSet(T)
  PROVE  SumFunctionOnSet(f, T) =
           IF T = {} THEN 0 ELSE f[Picked(T)] + SumFunctionOnSet(f, T \ {Picked(T)})
<1> DEFINE sums(U) == CHOOSE iter : SumsOf(f, U, iter)
<1>1. SumsOf(f, T, sums(T))
  BY SumsExist
<1>2. sums(T)[T] = IF T = {} THEN 0 ELSE f[Picked(T)] + sums(T)[T \ {Picked(T)}]
  BY <1>1 DEF SumsOf
<1>3. CASE T = {}
  BY <1>2, <1>3, SumUnfolds
<1>4. CASE T # {}
  <2>1. IsFiniteSet(T \ {Picked(T)})
    BY <1>4, PickedSmaller
  <2>2. SumsOf(f, T \ {Picked(T)}, sums(T \ {Picked(T)}))
    BY <2>1, SumsExist
  <2>3. sums(T)[T \ {Picked(T)}] = sums(T \ {Picked(T)})[T \ {Picked(T)}]
    <3> HIDE DEF sums
    <3> QED
      BY <1>1, <2>1, <2>2, SumsAgree
  <2>4. /\ SumFunctionOnSet(f, T) = sums(T)[T]
        /\ SumFunctionOnSet(f, T \ {Picked(T)}) = sums(T \ {Picked(T)})[T \ {Picked(T)}]
    BY SumUnfolds
  <2> HIDE DEF sums
  <2> QED
    BY <1>2, <1>4, <2>3, <2>4
<1> QED
  BY <1>3, <1>4

(* ... any element and the rest.                                           *)
LEMMA SumRemove ==
  ASSUME NEW f, NEW T, IsFiniteSet(T), \A x \in T : f[x] \in Int
  PROVE  /\ SumFunctionOnSet(f, T) \in Int
         /\ \A x \in T : SumFunctionOnSet(f, T) = f[x] + SumFunctionOnSet(f, T \ {x})
<1> DEFINE wrong(s) == /\ s \in SUBSET T
                       /\ ~ /\ SumFunctionOnSet(f, s) \in Int
                            /\ \A x \in s : SumFunctionOnSet(f, s) = f[x] + SumFunctionOnSet(f, s \ {x})
           bad == {n \in Nat : \E s : wrong(s) /\ Cardinality(s) = n}
<1>1. \A s \in SUBSET T : IsFiniteSet(s) /\ Cardinality(s) \in Nat
  BY FS_Subset, FS_CardinalityType
<1>2. bad = {}
  <2> SUFFICES ASSUME bad # {} PROVE FALSE
    OBVIOUS
  <2>1. PICK m \in bad : \A n \in Nat : n < m => n \notin bad
    <3> HIDE DEF wrong
    <3> QED
      BY LeastExists
  <2>2. PICK s : wrong(s) /\ Cardinality(s) = m
    BY <2>1
  <2>3. s \in SUBSET T /\ IsFiniteSet(s) /\ Cardinality(s) \in Nat
    BY <1>1, <2>2
  <2>4. ASSUME NEW t \in SUBSET s, t # s
        PROVE  /\ SumFunctionOnSet(f, t) \in Int
               /\ \A x \in t : SumFunctionOnSet(f, t) = f[x] + SumFunctionOnSet(f, t \ {x})
    <3>1. Cardinality(t) \in Nat /\ Cardinality(t) < m
      BY <1>1, <2>2, <2>3, <2>4, FS_Subset
    <3>2. ~wrong(t)
      <4> HIDE DEF wrong
      <4> QED
        BY <2>1, <3>1
    <3> QED
      BY <2>3, <3>2
  <2> DEFINE p == Picked(s)
             Sum(t) == SumFunctionOnSet(f, t)
  <2>5. CASE s = {}
    <3>1. Sum(s) = 0
      BY <2>3, <2>5, SumStep
    <3> QED
      BY <2>2, <2>5, <3>1
  <2>6. CASE s # {}
    <3>1. p \in s /\ Sum(s) = f[p] + Sum(s \ {p})
      BY <2>3, <2>6, SumStep, PickedSmaller
    <3> HIDE DEF p
    <3>2. Sum(s \ {p}) \in Int /\ f[p] \in Int
      BY <2>3, <2>4, <3>1
    <3>3. ASSUME NEW x \in s, x # p PROVE Sum(s) = f[x] + Sum(s \ {x})
      <4>1. Sum(s \ {p}) = f[x] + Sum((s \ {p}) \ {x})
        BY <2>4, <3>1, <3>3
      <4>2. Sum(s \ {x}) = f[p] + Sum((s \ {x}) \ {p})
        BY <2>4, <3>1, <3>3
      <4>3. (s \ {p}) \ {x} = (s \ {x}) \ {p}
        OBVIOUS
      <4>4. Sum((s \ {x}) \ {p}) \in Int /\ f[x] \in Int
        BY <2>3, <2>4, <3>1, <3>3
      <4> HIDE DEF Sum
      <4> QED
        BY <3>1, <3>2, <4>1, <4>2, <4>3, <4>4
    <3>4. Sum(s) \in Int /\ \A x \in s : Sum(s) = f[x] + Sum(s \ {x})
      <4>1. ASSUME NEW x \in s PROVE Sum(s) = f[x] + Sum(s \ {x})
        BY <3>1, <3>3
      <4>2. Sum(s) \in Int
        BY <3>1, <3>2
      <4> QED
        BY <4>1, <4>2
    <3> QED
      BY <2>2, <3>4
  <2> QED
    BY <2>5, <2>6
<1>3. ~wrong(T)
  <2> HIDE DEF wrong
  <2> QED
    BY <1>1, <1>2
<1> QED
  BY <1>3

(* What is nothing outside a part adds up to what the part does.           *)
LEMMA SumOfPart ==
  ASSUME NEW f, NEW T, IsFiniteSet(T), \A x \in T : f[x] \in Int,
         NEW P \in SUBSET T, \A x \in T \ P : f[x] = 0
  PROVE  SumFunctionOnSet(f, T) = SumFunctionOnSet(f, P)
<1> DEFINE Sum(t) == SumFunctionOnSet(f, t)
           wrong(s) == s \in SUBSET T /\ P \subseteq s /\ Sum(s) # Sum(P)
           bad == {n \in Nat : \E s : wrong(s) /\ Cardinality(s) = n}
<1>1. \A s \in SUBSET T : IsFiniteSet(s) /\ Cardinality(s) \in Nat
  BY FS_Subset, FS_CardinalityType
<1>2. bad = {}
  <2> SUFFICES ASSUME bad # {} PROVE FALSE
    OBVIOUS
  <2>1. PICK m \in bad : \A n \in Nat : n < m => n \notin bad
    <3> HIDE DEF wrong
    <3> QED
      BY LeastExists
  <2>2. PICK s : wrong(s) /\ Cardinality(s) = m
    BY <2>1
  <2>3. PICK x \in s : x \notin P
    BY <2>2
  <2>4. IsFiniteSet(s) /\ f[x] = 0 /\ \A y \in s : f[y] \in Int
    BY <1>1, <2>2, <2>3
  <2>5. Sum(s) = f[x] + Sum(s \ {x})
    BY <2>3, <2>4, SumRemove
  <2>6. Sum(s \ {x}) \in Int
    <3>1. IsFiniteSet(s \ {x}) /\ \A y \in s \ {x} : f[y] \in Int
      BY <2>4, FS_RemoveElement
    <3> QED
      BY <3>1, SumRemove
  <2>7. wrong(s \ {x})
    <3>1. Sum(s) = Sum(s \ {x})
      <4> HIDE DEF Sum
      <4> QED
        BY <2>4, <2>5, <2>6
    <3> QED
      BY <2>2, <2>3, <3>1
  <2>8. Cardinality(s \ {x}) = m - 1 /\ m - 1 \in Nat /\ m - 1 < m
    <3>1. Cardinality(s \ {x}) \in Nat /\ m \in Nat
      BY <1>1, <2>2
    <3>2. Cardinality(s \ {x}) = Cardinality(s) - 1
      BY <2>3, <2>4, FS_RemoveElement
    <3> QED
      BY <2>2, <3>1, <3>2
  <2> HIDE DEF wrong
  <2> QED
    BY <2>1, <2>7, <2>8
<1>3. ~wrong(T)
  <2> HIDE DEF wrong
  <2> QED
    BY <1>1, <1>2
<1> QED
  BY <1>3

(* Terms that correspond one to one add up the same.                       *)
LEMMA SumsMatch ==
  ASSUME NEW f, NEW S, NEW g, NEW T, IsFiniteSet(S), \A x \in S : f[x] \in Int,
         NEW b \in Bijection(S, T), \A x \in S : g[b[x]] = f[x]
  PROVE  SumFunctionOnSet(f, S) = SumFunctionOnSet(g, T)
<1> DEFINE image(s) == {b[x] : x \in s}
           wrong(s) == s \in SUBSET S /\ SumFunctionOnSet(f, s) # SumFunctionOnSet(g, image(s))
           bad == {n \in Nat : \E s : wrong(s) /\ Cardinality(s) = n}
<1>1. \A s \in SUBSET S : IsFiniteSet(s) /\ Cardinality(s) \in Nat /\ IsFiniteSet(image(s))
  <2> SUFFICES ASSUME NEW s \in SUBSET S
               PROVE  IsFiniteSet(s) /\ Cardinality(s) \in Nat /\ IsFiniteSet(image(s))
    OBVIOUS
  <2>1. IsFiniteSet(s) /\ Cardinality(s) \in Nat
    BY FS_Subset, FS_CardinalityType
  <2>2. [x \in s |-> b[x]] \in Surjection(s, image(s))
    BY DEF Surjection
  <2> HIDE DEF image
  <2> QED
    BY <2>1, <2>2, FS_Surjection
<1>2. /\ \A x, y \in S : b[x] = b[y] => x = y
      /\ \A x \in S : b[x] \in T
      /\ \A y \in T : \E x \in S : b[x] = y
  BY DEF Bijection, Injection, Surjection, IsInjective
<1>3. bad = {}
  <2> SUFFICES ASSUME bad # {} PROVE FALSE
    OBVIOUS
  <2>1. PICK m \in bad : \A n \in Nat : n < m => n \notin bad
    <3> HIDE DEF wrong
    <3> QED
      BY LeastExists
  <2>2. PICK s : wrong(s) /\ Cardinality(s) = m
    BY <2>1
  <2>3. IsFiniteSet(s) /\ IsFiniteSet(image(s)) /\ s \in SUBSET S
    BY <1>1, <2>2
  <2>4. CASE s = {}
    <3>1. image(s) = {} /\ IsFiniteSet({})
      BY <2>4, FS_EmptySet
    <3>2. SumFunctionOnSet(f, {}) = 0 /\ SumFunctionOnSet(g, {}) = 0
      BY <3>1, SumStep
    <3> QED
      BY <2>2, <2>4, <3>1, <3>2
  <2>5. CASE s # {}
    <3>1. PICK x \in s : TRUE
      BY <2>5
    <3>2. \A y \in image(s) : g[y] \in Int
      BY <2>3
    <3>3. b[x] \in image(s) /\ g[b[x]] = f[x] /\ image(s \ {x}) = image(s) \ {b[x]}
      BY <1>2, <2>3, <3>1
    <3>4. SumFunctionOnSet(f, s) = f[x] + SumFunctionOnSet(f, s \ {x})
      BY <2>3, <3>1, SumRemove
    <3> HIDE DEF image
    <3>5. SumFunctionOnSet(g, image(s)) = g[b[x]] + SumFunctionOnSet(g, image(s) \ {b[x]})
      BY <2>3, <3>2, <3>3, SumRemove
    <3>6. SumFunctionOnSet(f, s \ {x}) # SumFunctionOnSet(g, image(s \ {x}))
      BY <2>2, <3>3, <3>4, <3>5
    <3>7. Cardinality(s \ {x}) \in Nat /\ Cardinality(s \ {x}) < m
      <4>1. Cardinality(s \ {x}) = Cardinality(s) - 1 /\ Cardinality(s) \in Nat /\ Cardinality(s \ {x}) \in Nat
        BY <1>1, <2>3, <3>1, FS_RemoveElement
      <4> QED
        BY <2>2, <4>1
    <3> QED
      BY <2>1, <2>3, <3>6, <3>7
  <2> QED
    BY <2>4, <2>5
<1>4. image(S) = T
  BY <1>2
<1>5. ~wrong(S)
  <2> HIDE DEF wrong
  <2> QED
    BY <1>1, <1>3
<1> QED
  BY <1>4, <1>5

LEMMA PartsCount ==
  ASSUME NEW S, NEW T, IsFiniteSet(S)
  PROVE  Cardinality(S \cap T) + Cardinality(S \ T) = Cardinality(S)
<1>1. IsFiniteSet(S \cap T) /\ IsFiniteSet(S \ T)
  BY FS_Subset
<1>2. (S \cap T) \cup (S \ T) = S /\ (S \cap T) \cap (S \ T) = {}
  OBVIOUS
<1>3. Cardinality((S \cap T) \cup (S \ T)) =
        Cardinality(S \cap T) + Cardinality(S \ T) - Cardinality((S \cap T) \cap (S \ T))
  BY <1>1, FS_Union
<1>4. Cardinality((S \cap T) \cap (S \ T)) = 0
  BY <1>2, FS_EmptySet
<1>5. Cardinality(S \cap T) \in Nat /\ Cardinality(S \ T) \in Nat
  BY <1>1, FS_CardinalityType
<1>6. Cardinality((S \cap T) \cup (S \ T)) = Cardinality(S)
  BY <1>2
<1> QED
  BY <1>3, <1>4, <1>5, <1>6

(* Terms that are the same add up the same.                                *)
LEMMA SumsSame ==
  ASSUME NEW f, NEW g, NEW S, IsFiniteSet(S), \A x \in S : f[x] \in Int /\ g[x] = f[x]
  PROVE  SumFunctionOnSet(f, S) = SumFunctionOnSet(g, S)
<1> DEFINE b == [x \in S |-> x]
<1>1. b \in Bijection(S, S)
  BY DEF Bijection, Injection, IsInjective, Surjection
<1>2. (\A x \in S : f[x] \in Int) /\ \A x \in S : g[b[x]] = f[x]
  OBVIOUS
<1> HIDE DEF b
<1> QED
  BY <1>1, <1>2, SumsMatch

(* What two terms add up to is the sum of what each does.                  *)
LEMMA SumsAdd ==
  ASSUME NEW T, IsFiniteSet(T), NEW f \in [T -> Int], NEW g \in [T -> Int]
  PROVE  SumFunction([x \in T |-> f[x] + g[x]]) = SumFunction(f) + SumFunction(g)
<1> DEFINE h == [x \in T |-> f[x] + g[x]]
           F(s) == SumFunctionOnSet(f, s)
           G(s) == SumFunctionOnSet(g, s)
           H(s) == SumFunctionOnSet(h, s)
           wrong(s) == s \in SUBSET T /\ H(s) # F(s) + G(s)
           bad == {n \in Nat : \E s : wrong(s) /\ Cardinality(s) = n}
<1>1. \A s \in SUBSET T : IsFiniteSet(s) /\ Cardinality(s) \in Nat
  BY FS_Subset, FS_CardinalityType
<1>2. bad = {}
  <2> SUFFICES ASSUME bad # {} PROVE FALSE
    OBVIOUS
  <2>1. PICK m \in bad : \A n \in Nat : n < m => n \notin bad
    <3> HIDE DEF wrong
    <3> QED
      BY LeastExists
  <2>2. PICK s : wrong(s) /\ Cardinality(s) = m
    BY <2>1
  <2>3. s \in SUBSET T /\ IsFiniteSet(s) /\ Cardinality(s) \in Nat
    BY <1>1, <2>2
  <2>4. CASE s = {}
    <3>1. F(s) = 0 /\ G(s) = 0 /\ H(s) = 0
      BY <2>3, <2>4, SumStep
    <3> QED
      BY <2>2, <3>1
  <2>5. CASE s # {}
    <3>1. PICK x \in s : TRUE
      BY <2>5
    <3>2. /\ \A y \in s : f[y] \in Int /\ g[y] \in Int /\ h[y] \in Int
          /\ h[x] = f[x] + g[x]
      BY <2>3
    <3>3. IsFiniteSet(s \ {x}) /\ Cardinality(s \ {x}) = m - 1 /\ m - 1 \in Nat /\ m - 1 < m
      <4>1. Cardinality(s \ {x}) \in Nat /\ Cardinality(s \ {x}) = Cardinality(s) - 1 /\ IsFiniteSet(s \ {x})
        BY <2>3, <3>1, FS_RemoveElement, FS_CardinalityType
      <4> QED
        BY <2>2, <2>3, <4>1
    <3> HIDE DEF h
    <3>4. F(s) = f[x] + F(s \ {x}) /\ G(s) = g[x] + G(s \ {x}) /\ H(s) = h[x] + H(s \ {x})
      BY <2>3, <3>2, SumRemove
    <3>5. F(s \ {x}) \in Int /\ G(s \ {x}) \in Int /\ H(s \ {x}) \in Int
      <4>1. \A y \in s \ {x} : f[y] \in Int /\ g[y] \in Int /\ h[y] \in Int
        BY <3>2
      <4> QED
        BY <3>3, <4>1, SumRemove
    <3>6. ~wrong(s \ {x})
      <4> HIDE DEF wrong
      <4> QED
        BY <2>1, <3>3
    <3>7. H(s \ {x}) = F(s \ {x}) + G(s \ {x})
      BY <2>3, <3>6
    <3>8. f[x] \in Int /\ g[x] \in Int
      BY <3>2
    <3> HIDE DEF F, G, H
    <3>9. H(s) = F(s) + G(s)
      BY <3>2, <3>4, <3>5, <3>7, <3>8
    <3> QED
      BY <2>2, <3>9 DEF F, G, H
  <2> QED
    BY <2>4, <2>5
<1>3. ~wrong(T)
  <2> HIDE DEF wrong
  <2> QED
    BY <1>1, <1>2
<1>4. H(T) = F(T) + G(T)
  BY <1>3
<1>5. DOMAIN f = T /\ DOMAIN g = T /\ DOMAIN h = T
  OBVIOUS
<1> HIDE DEF h
<1>6. SumFunction(h) = SumFunction(f) + SumFunction(g)
  BY <1>4, <1>5 DEF SumFunction
<1> QED
  BY <1>6 DEF h

(* A sum is that of the terms that are something.                          *)
LEMMA SumOfTerms ==
  ASSUME NEW T, IsFiniteSet(T), NEW f \in [T -> Int], NEW P \in SUBSET T,
         \A x \in T \ P : f[x] = 0
  PROVE  SumFunction(f) = SumFunction([x \in P |-> f[x]])
<1> DEFINE g == [x \in P |-> f[x]]
<1>1. SumFunctionOnSet(f, T) = SumFunctionOnSet(f, P)
  <2>1. \A x \in T : f[x] \in Int
    OBVIOUS
  <2> QED
    BY <2>1, SumOfPart
<1>2. SumFunctionOnSet(f, P) = SumFunctionOnSet(g, P)
  <2>1. IsFiniteSet(P) /\ \A x \in P : f[x] \in Int /\ g[x] = f[x]
    BY FS_Subset
  <2> HIDE DEF g
  <2> QED
    BY <2>1, SumsSame
<1>3. DOMAIN f = T /\ DOMAIN g = P
  OBVIOUS
<1> HIDE DEF g
<1>4. SumFunction(f) = SumFunction(g)
  BY <1>1, <1>2, <1>3 DEF SumFunction
<1> QED
  BY <1>4 DEF g

LEMMA SumOfNothing ==
  ASSUME NEW T, IsFiniteSet(T)
  PROVE  SumFunction([x \in T |-> 0]) = 0
<1> DEFINE f == [x \in T |-> 0]
           g == [x \in {} |-> f[x]]
<1>1. f \in [T -> Int] /\ \A x \in T \ {} : f[x] = 0
  OBVIOUS
<1>2. SumFunction(f) = SumFunction(g)
  <2> HIDE DEF f
  <2> QED
    BY <1>1, SumOfTerms
<1>3. SumFunction(g) = SumFunctionOnSet(g, {})
  BY DEF SumFunction
<1>4. SumFunctionOnSet(g, {}) = 0
  <2> HIDE DEF g
  <2> QED
    BY FS_EmptySet, SumStep
<1> QED
  BY <1>2, <1>3, <1>4

(* A list of lengths whose last grows by one, and one with one more.       *)
LEMMA LastGrows ==
  ASSUME NEW n \in Nat \ {0}, NEW f \in [1..n -> Int], NEW g \in [1..n -> Int],
         \A i \in (1..n) \ {n} : g[i] = f[i], g[n] = f[n] + 1
  PROVE  SumFunction(g) = SumFunction(f) + 1
<1> DEFINE S == 1..n
<1>1. IsFiniteSet(S) /\ n \in S /\ IsFiniteSet(S \ {n})
  <2>1. IsFiniteSet(S)
    BY FS_Interval
  <2>2. n \in S
    OBVIOUS
  <2> HIDE DEF S
  <2> QED
    BY <2>1, <2>2, FS_RemoveElement
<1>2. (\A i \in S : f[i] \in Int) /\ (\A i \in S : g[i] \in Int) /\ DOMAIN f = S /\ DOMAIN g = S
  OBVIOUS
<1>3. \A i \in S \ {n} : f[i] \in Int /\ g[i] = f[i]
  OBVIOUS
<1> HIDE DEF S
<1>4. SumFunctionOnSet(f, S \ {n}) = SumFunctionOnSet(g, S \ {n})
  BY <1>1, <1>3, SumsSame
<1>5. SumFunctionOnSet(f, S) = f[n] + SumFunctionOnSet(f, S \ {n})
  BY <1>1, <1>2, SumRemove
<1>6. SumFunctionOnSet(g, S) = g[n] + SumFunctionOnSet(g, S \ {n})
  BY <1>1, <1>2, SumRemove
<1>7. SumFunctionOnSet(f, S \ {n}) \in Int
  <2>1. \A i \in S \ {n} : f[i] \in Int
    BY <1>3
  <2> QED
    BY <1>1, <2>1, SumRemove
<1>8. f[n] \in Int
  BY <1>1, <1>2
<1> QED
  BY <1>2, <1>4, <1>5, <1>6, <1>7, <1>8 DEF SumFunction

LEMMA OneMore ==
  ASSUME NEW n \in Nat, NEW f \in [1..n -> Int], NEW g \in [1..(n + 1) -> Int],
         \A i \in 1..n : g[i] = f[i], g[n + 1] = 1
  PROVE  SumFunction(g) = SumFunction(f) + 1
<1> DEFINE S == 1..n
           T == 1..(n + 1)
           l == n + 1
<1>1. IsFiniteSet(S) /\ IsFiniteSet(T) /\ l \in T /\ T \ {l} = S /\ g[l] = 1
  <2>1. IsFiniteSet(S)
    BY FS_Interval
  <2>2. IsFiniteSet(T)
    BY FS_Interval
  <2>3. l \in T /\ T \ {l} = S /\ g[l] = 1
    OBVIOUS
  <2> QED
    BY <2>1, <2>2, <2>3
<1>2. (\A i \in S : f[i] \in Int /\ g[i] = f[i]) /\ (\A i \in T : g[i] \in Int) /\ DOMAIN f = S /\ DOMAIN g = T
  OBVIOUS
<1> HIDE DEF S, T, l
<1>3. SumFunctionOnSet(f, S) = SumFunctionOnSet(g, S)
  BY <1>1, <1>2, SumsSame
<1>4. SumFunctionOnSet(g, T) = g[l] + SumFunctionOnSet(g, T \ {l})
  BY <1>1, <1>2, SumRemove
<1>5. SumFunctionOnSet(f, S) \in Int
  <2>1. \A i \in S : f[i] \in Int
    BY <1>2
  <2> QED
    BY <1>1, <2>1, SumRemove
<1>6. SumFunctionOnSet(g, T) = SumFunctionOnSet(f, S) + 1
  <2>1. PICK a, b : a = SumFunctionOnSet(g, T) /\ b = SumFunctionOnSet(f, S)
    OBVIOUS
  <2>2. a = 1 + b
    BY <1>1, <1>3, <1>4, <2>1
  <2>3. b \in Int
    BY <1>5, <2>1
  <2>4. a = b + 1
    BY <2>2, <2>3
  <2> QED
    BY <2>1, <2>4
<1> QED
  BY <1>2, <1>6 DEF SumFunction

-----------------------------------------------------------------------------
(* Dates                                                                   *)

LEMMA MonthLengths ==
  ASSUME NEW y \in Int, NEW m \in 1..12
  PROVE  MonthLength(y, m) \in 28..31 /\ (m = 12 => MonthLength(y, m) = 31)
BY DEF MonthLength

LEMMA BeforeOrder ==
  ASSUME NEW a \in Int \X Int \X Int, NEW b \in Int \X Int \X Int, NEW c \in Int \X Int \X Int
  PROVE  /\ Before(a, b) /\ Before(b, c) => Before(a, c)
         /\ ~Before(b, a) /\ Before(b, c) => Before(a, c)
         /\ Before(a, b) /\ ~Before(c, b) => Before(a, c)
         /\ ~Before(b, a) /\ ~Before(c, b) => ~Before(c, a)
         /\ Before(a, b) => ~Before(b, a)
BY DEF Before

LEMMA YesterdayIsNext ==
  ASSUME NEW d \in Date
  PROVE  /\ Yesterday(d) \in Date
         /\ Before(Yesterday(d), d)
         /\ \A x \in Date : Before(Yesterday(d), x) => ~Before(x, d)
<1>1. PICK y \in Int, m \in 1..12, n \in 1..31 : d = <<y, m, n>> /\ n <= MonthLength(y, m)
  BY DEF Date
<1>2. m > 1 => MonthLength(y, m - 1) \in 28..31
  BY MonthLengths
<1>3. CASE n > 1
  <2>1. Yesterday(d) = <<y, m, n - 1>>
    BY <1>1, <1>3 DEF Yesterday
  <2>2. Yesterday(d) \in Date
    BY <1>1, <1>3, <2>1, MonthLengths DEF Date
  <2>3. ASSUME NEW x \in Date, Before(x, d) PROVE ~Before(Yesterday(d), x)
    <3>1. PICK k \in Int, p \in 1..12, q \in 1..31 : x = <<k, p, q>>
      BY DEF Date
    <3> QED
      BY <1>1, <1>3, <2>1, <2>3, <3>1 DEF Before
  <2> QED
    BY <1>1, <1>3, <2>1, <2>2, <2>3 DEF Before
<1>4. CASE n = 1 /\ m > 1
  <2>1. Yesterday(d) = <<y, m - 1, MonthLength(y, m - 1)>>
    BY <1>1, <1>4 DEF Yesterday
  <2>2. ASSUME NEW x \in Date, Before(x, d) PROVE ~Before(Yesterday(d), x)
    <3>1. PICK k \in Int, p \in 1..12, q \in 1..31 : x = <<k, p, q>> /\ q <= MonthLength(k, p)
      BY DEF Date
    <3> QED
      BY <1>1, <1>2, <1>4, <2>1, <2>2, <3>1 DEF Before
  <2>3. Yesterday(d) \in Date
    BY <1>1, <1>2, <1>4, <2>1 DEF Date
  <2> QED
    BY <1>1, <1>2, <1>4, <2>1, <2>2, <2>3 DEF Before
<1>5. CASE n = 1 /\ m = 1
  <2>1. Yesterday(d) = <<y - 1, 12, 31>>
    BY <1>1, <1>5 DEF Yesterday
  <2>2. MonthLength(y - 1, 12) = 31
    BY DEF MonthLength
  <2>3. Yesterday(d) \in Date
    BY <2>1, <2>2 DEF Date
  <2>4. ASSUME NEW x \in Date, Before(x, d) PROVE ~Before(Yesterday(d), x)
    <3>1. PICK k \in Int, p \in 1..12, q \in 1..31 : x = <<k, p, q>>
      BY DEF Date
    <3> QED
      BY <1>1, <1>5, <2>1, <2>4, <3>1 DEF Before
  <2> QED
    BY <1>1, <1>5, <2>1, <2>3, <2>4 DEF Before
<1> QED
  BY <1>1, <1>3, <1>4, <1>5

LEMMA TomorrowIsAfter ==
  ASSUME NEW d \in Date
  PROVE  Tomorrow(d) \in Date /\ Before(d, Tomorrow(d))
<1>1. PICK y \in Int, m \in 1..12, n \in 1..31 : d = <<y, m, n>> /\ n <= MonthLength(y, m)
  BY DEF Date
<1>2. /\ MonthLength(y, m) \in 28..31 /\ MonthLength(y + 1, 1) \in 28..31
      /\ m < 12 => MonthLength(y, m + 1) \in 28..31
  BY MonthLengths
<1>3. CASE n < MonthLength(y, m)
  <2>1. Tomorrow(d) = <<y, m, n + 1>>
    BY <1>1, <1>3 DEF Tomorrow
  <2> QED
    BY <1>1, <1>2, <1>3, <2>1 DEF Before, Date
<1>4. CASE n = MonthLength(y, m) /\ m < 12
  <2>1. Tomorrow(d) = <<y, m + 1, 1>>
    BY <1>1, <1>4 DEF Tomorrow
  <2> QED
    BY <1>1, <1>2, <1>4, <2>1 DEF Before, Date
<1>5. CASE n = MonthLength(y, m) /\ m = 12
  <2>1. Tomorrow(d) = <<y + 1, 1, 1>>
    BY <1>1, <1>5 DEF Tomorrow
  <2> QED
    BY <1>1, <1>2, <1>5, <2>1 DEF Before, Date
<1> QED
  BY <1>1, <1>2, <1>3, <1>4, <1>5

(* Six months later: that day, or the last one of the month if it has not  *)
(* that many.                                                              *)
LEMMA SixMonthsLater ==
  ASSUME NEW d \in Date
  PROVE  \E y \in Int, m \in 1..12, n \in 1..31 :
           /\ n = d[3] /\ SameDayLater(d) = <<y, m, n>>
           /\ AddMonths(d, VALIDITY_MONTHS) \in Date
           /\ \/ /\ n < MonthLength(y, m)
                 /\ AddMonths(d, VALIDITY_MONTHS) = <<y, m, n>>
              \/ /\ n >= MonthLength(y, m)
                 /\ AddMonths(d, VALIDITY_MONTHS) = <<y, m, MonthLength(y, m)>>
<1>1. PICK k \in Int, p \in 1..12, n \in 1..31 : d = <<k, p, n>>
  BY DEF Date
<1> DEFINE y == IF p <= 6 THEN k ELSE k + 1
           m == IF p <= 6 THEN p + 6 ELSE p - 6
           length == MonthLength(y, m)
<1>2. /\ y \in Int /\ m \in 1..12
      /\ k + ((p - 1 + 6) \div 12) = y /\ ((p - 1 + 6) % 12) + 1 = m
  <2>1. p <= 6 => (p + 5) \div 12 = 0 /\ (p + 5) % 12 = p + 5
    OBVIOUS
  <2>2. p > 6 => (p + 5) \div 12 = 1 /\ (p + 5) % 12 = p - 7
    OBVIOUS
  <2>3. p - 1 + 6 = p + 5
    OBVIOUS
  <2> QED
    BY <2>1, <2>2, <2>3
<1>3. length \in 28..31
  BY <1>2, MonthLengths
<1>4. SameDayLater(d) = <<y, m, n>>
  BY <1>1 DEF SameDayLater, VALIDITY_MONTHS
<1>5. AddMonths(d, VALIDITY_MONTHS) = <<y, m, IF n < length THEN n ELSE length>>
  <2> HIDE DEF y, m
  <2> QED
    BY <1>1, <1>2 DEF AddMonths, VALIDITY_MONTHS
<1> HIDE DEF y, m
<1>6. AddMonths(d, VALIDITY_MONTHS) \in Date
  BY <1>2, <1>3, <1>5 DEF Date
<1>7. n < length \/ n >= length
  BY <1>3
<1> QED
  BY <1>1, <1>2, <1>3, <1>4, <1>5, <1>6, <1>7

Moment == [date : Date, hour : Nat]

(* A date in Chile is that of UTC or the day before.                       *)
LEMMA ClockOrder ==
  ASSUME NEW i \in Moment, NEW chile \in Nat, NEW host \in {0, chile}
  PROVE  /\ DateAt(i, 0) = i.date
         /\ ~Before(i.date, DateAt(i, host))
         /\ ~Before(DateAt(i, host), DateAt(i, chile))
         /\ DateAt(i, host) \in Date /\ DateAt(i, chile) \in Date
<1>1. i.date \in Date /\ i.date \in Int \X Int \X Int /\ i.hour \in Nat
  BY DEF Moment, Date
<1>2. PICK back : back = Yesterday(i.date)
  OBVIOUS
<1>3. back \in Date /\ back \in Int \X Int \X Int /\ Before(back, i.date)
  BY <1>1, <1>2, YesterdayIsNext DEF Date
<1>4. ~Before(i.date, back) /\ ~Before(i.date, i.date) /\ ~Before(back, back)
  BY <1>1, <1>3 DEF Before
<1>5. /\ DateAt(i, 0) = i.date
      /\ DateAt(i, host) \in {i.date, back} /\ DateAt(i, chile) \in {i.date, back}
      /\ host = chile \/ DateAt(i, host) = i.date
  BY <1>1, <1>2 DEF DateAt
<1> QED
  BY <1>1, <1>3, <1>4, <1>5

(* A CAF of a type that expires is never used on a document stamped six    *)
(* months after its authorisation or later, nor refused while more than    *)
(* two days are left, nor refused before the inventory shows it expired:   *)
(* for any day of authorisation and any instant, whether the host runs on  *)
(* UTC or on the time of Chile.                                            *)
THEOREM CafIsUsedInTime ==
  ASSUME NEW docType \in EXPIRING_TYPES, NEW authorized \in Date,
         NEW instant \in Moment, NEW chile \in Nat, NEW host \in {0, chile}
  PROVE  UsedInTime(docType, authorized, instant, host, chile,
                    AllocatorRefuses(docType, authorized, instant, host))
<1>1. PICK last, six, today, stamp :
        /\ last = AddMonths(authorized, VALIDITY_MONTHS)
        /\ six = SameDayLater(authorized)
        /\ today = DateAt(instant, host) /\ stamp = DateAt(instant, chile)
  OBVIOUS
<1>2. PICK y \in Int, m \in 1..12, n \in 1..31 :
        /\ six = <<y, m, n>> /\ last \in Date
        /\ \/ n < MonthLength(y, m) /\ last = <<y, m, n>>
           \/ n >= MonthLength(y, m) /\ last = <<y, m, MonthLength(y, m)>>
  BY <1>1, SixMonthsLater
<1>3. PICK expires : expires = Yesterday(last)
  OBVIOUS
<1>4. /\ expires \in Date /\ Before(expires, last) /\ expires # NEVER
      /\ \A x \in Date : Before(expires, x) => ~Before(x, last)
  <2>1. NEVER \notin Date
    BY DEF NEVER, Date
  <2> QED
    BY <1>2, <1>3, <2>1, YesterdayIsNext
<1>5. /\ today \in Date /\ stamp \in Date /\ instant.date \in Date
      /\ ~Before(today, stamp) /\ ~Before(instant.date, today)
      /\ DateAt(instant, 0) = instant.date
  BY <1>1, ClockOrder DEF Moment
<1>6. ExpiresOn(docType, authorized) = expires
  <2>1. authorized # NEVER
    BY DEF NEVER, Date
  <2> QED
    BY <1>1, <1>3, <2>1 DEF ExpiresOn
<1>7. /\ AllocatorRefuses(docType, authorized, instant, host) <=> Before(expires, today)
      /\ InventoryExpired(docType, authorized, instant) <=> Before(expires, instant.date)
  BY <1>1, <1>4, <1>5, <1>6 DEF AllocatorRefuses, InventoryExpired, IsExpired
<1>8. Date \subseteq Int \X Int \X Int /\ six \in Int \X Int \X Int
  BY <1>2 DEF Date
<1>9. ~Before(six, last)
  <2>1. MonthLength(y, m) \in 28..31
    BY MonthLengths
  <2>2. CASE last = <<y, m, n>>
    BY <1>2, <2>2 DEF Before
  <2>3. CASE n >= MonthLength(y, m) /\ last = <<y, m, MonthLength(y, m)>>
    <3>1. PICK length \in 28..31 : length = MonthLength(y, m)
      BY <2>1
    <3>2. n >= length /\ last = <<y, m, length>>
      BY <2>3, <3>1
    <3> QED
      BY <1>2, <3>1, <3>2 DEF Before
  <2> QED
    BY <1>2, <2>2, <2>3
<1>10. ASSUME ~Before(expires, today) PROVE Before(stamp, six)
  <2>1. Before(today, last)
    BY <1>2, <1>4, <1>5, <1>8, <1>10, BeforeOrder
  <2>2. Before(today, six)
    BY <1>2, <1>5, <1>8, <1>9, <2>1, BeforeOrder
  <2> QED
    BY <1>5, <1>8, <2>2, BeforeOrder
<1>11. ASSUME Before(expires, today)
       PROVE  ~Before(Tomorrow(Tomorrow(Tomorrow(today))), six)
  <2>1. PICK t1, t2, t3 : t1 = Tomorrow(today) /\ t2 = Tomorrow(t1) /\ t3 = Tomorrow(t2)
    OBVIOUS
  <2>2. t1 \in Date /\ Before(today, t1)
    BY <1>5, <2>1, TomorrowIsAfter
  <2>3. t2 \in Date /\ Before(t1, t2)
    BY <2>1, <2>2, TomorrowIsAfter
  <2>4. t3 \in Date /\ Before(t2, t3)
    BY <2>1, <2>3, TomorrowIsAfter
  <2>5. Before(last, t1)
    BY <1>2, <1>4, <1>5, <1>8, <1>11, <2>2, BeforeOrder
  <2>6. ~Before(t1, six)
    <3>1. PICK k \in Int, p \in 1..12, q \in 1..31 : t1 = <<k, p, q>> /\ q <= MonthLength(k, p)
      BY <2>2 DEF Date
    <3>2. MonthLength(y, m) \in 28..31
      BY MonthLengths
    <3> QED
      BY <1>2, <2>5, <3>1, <3>2 DEF Before
  <2>7. Before(t1, t3)
    BY <1>8, <2>2, <2>3, <2>4, BeforeOrder
  <2>8. ~Before(t3, six)
    BY <1>8, <2>2, <2>4, <2>6, <2>7, BeforeOrder
  <2> QED
    BY <2>1, <2>8
<1>12. ASSUME Before(expires, today) PROVE Before(expires, instant.date)
  BY <1>4, <1>5, <1>8, <1>12, BeforeOrder
<1> QED
  BY <1>1, <1>7, <1>10, <1>11, <1>12 DEF UsedInTime, StampDate
-----------------------------------------------------------------------------
(* Comparison                                                              *)

(* The documents whose types, folios and other contents are in these sets. *)
Document(Type, Folio, Rest) ==
  [type : Type, folio : Folio, refs : Seq([type : Type, folio : Folio]), rest : Rest, signed : Rest]

Distinct(e) == \A i, j \in DOMAIN e : e[i].type = e[j].type /\ e[i].folio = e[j].folio => i = j

FolioKey(e, i) == <<e[i].type, e[i].folio>>

(* The position of a document among those of its type.                     *)
Peers(e, i) == {j \in 1..i : e[j].type = e[i].type}
Rank(e, i) == Cardinality(Peers(e, i))

LEMMA RankType ==
  ASSUME NEW e, NEW i \in Nat
  PROVE  IsFiniteSet(Peers(e, i)) /\ Rank(e, i) \in Nat
<1>1. IsFiniteSet(1..i) /\ Peers(e, i) \in SUBSET (1..i)
  BY FS_Interval DEF Peers
<1> QED
  BY <1>1, FS_Subset, FS_CardinalityType DEF Rank

LEMMA RankTells ==
  ASSUME NEW e, NEW i \in Nat \ {0}, NEW j \in Nat \ {0}, e[i].type = e[j].type, Rank(e, i) = Rank(e, j)
  PROVE  i = j
<1>1. ASSUME NEW k \in Nat \ {0}, NEW l \in Nat \ {0}, e[k].type = e[l].type, k < l
      PROVE  Rank(e, k) # Rank(e, l)
  <2>1. /\ Peers(e, k) \in SUBSET Peers(e, l)
        /\ l \in Peers(e, l) /\ l \notin Peers(e, k)
    BY <1>1 DEF Peers
  <2>2. Peers(e, k) # Peers(e, l)
    BY <2>1
  <2> QED
    BY <2>1, <2>2, RankType, FS_Subset DEF Rank
<1> QED
  BY <1>1

(* Numbered gives every document its position, if the folios are distinct. *)
LEMMA NumberedIsRank ==
  ASSUME NEW e, NEW n \in Nat, DOMAIN e = 1..n, Distinct(e)
  PROVE  /\ DOMAIN Numbered(e) = {FolioKey(e, i) : i \in DOMAIN e}
         /\ \A i \in DOMAIN e : Numbered(e)[FolioKey(e, i)] = <<e[i].type, Rank(e, i)>>
<1> DEFINE keys == {FolioKey(e, i) : i \in DOMAIN e}
           firstOf(k) == CHOOSE i \in DOMAIN e :
                           /\ FolioKey(e, i) = k
                           /\ \A j \in 1..(i - 1) : FolioKey(e, j) # k
           before(k) == {l \in keys : l[1] = k[1] /\ firstOf(l) <= firstOf(k)}
<1>1. Numbered(e) = [k \in keys |-> <<k[1], Cardinality(before(k))>>]
  BY DEF Numbered, FolioKey
<1>2. ASSUME NEW i \in DOMAIN e PROVE firstOf(FolioKey(e, i)) = i
  <2>1. ASSUME NEW j \in DOMAIN e, FolioKey(e, j) = FolioKey(e, i) PROVE j = i
    BY <2>1 DEF Distinct, FolioKey
  <2>2. /\ FolioKey(e, i) = FolioKey(e, i)
        /\ \A j \in 1..(i - 1) : FolioKey(e, j) # FolioKey(e, i)
    BY <2>1
  <2> QED
    BY <2>1, <2>2
<1> HIDE DEF firstOf
<1>3. ASSUME NEW i \in DOMAIN e PROVE Cardinality(before(FolioKey(e, i))) = Rank(e, i)
  <2> DEFINE f == [j \in Peers(e, i) |-> FolioKey(e, j)]
  <2>1. Peers(e, i) \subseteq DOMAIN e /\ i \in Nat
    BY <1>3 DEF Peers
  <2>2. ASSUME NEW j \in Peers(e, i) PROVE f[j] \in before(FolioKey(e, i))
    <3>1. j \in DOMAIN e /\ j <= i /\ f[j] = FolioKey(e, j) /\ e[j].type = e[i].type
      BY <2>1, <2>2 DEF Peers
    <3>2. FolioKey(e, j)[1] = FolioKey(e, i)[1]
      BY <3>1 DEF FolioKey
    <3> QED
      BY <1>2, <1>3, <3>1, <3>2
  <2>3. f \in [Peers(e, i) -> before(FolioKey(e, i))]
    BY <2>2
  <2>4. ASSUME NEW j \in Peers(e, i), NEW k \in Peers(e, i), f[j] = f[k] PROVE j = k
    BY <1>2, <2>1, <2>4
  <2>5. ASSUME NEW l \in before(FolioKey(e, i)) PROVE \E j \in Peers(e, i) : f[j] = l
    <3>1. PICK j \in DOMAIN e : l = FolioKey(e, j)
      BY <2>5
    <3>2. FolioKey(e, j)[1] = FolioKey(e, i)[1] /\ j <= i
      BY <1>2, <1>3, <2>5, <3>1
    <3>3. j \in Peers(e, i)
      BY <3>1, <3>2 DEF FolioKey, Peers
    <3> QED
      BY <3>1, <3>3
  <2>6. f \in Bijection(Peers(e, i), before(FolioKey(e, i)))
    <3> HIDE DEF f, before
    <3> QED
      BY <2>3, <2>4, <2>5 DEF Bijection, Injection, IsInjective, Surjection
  <2> HIDE DEF f, before
  <2>7. ExistsBijection(Peers(e, i), before(FolioKey(e, i)))
    BY <2>6 DEF ExistsBijection
  <2> QED
    BY <2>1, <2>7, RankType, FS_Bijection DEF Rank
<1>4. ASSUME NEW i \in DOMAIN e PROVE Numbered(e)[FolioKey(e, i)] = <<e[i].type, Rank(e, i)>>
  <2>1. FolioKey(e, i) \in keys /\ FolioKey(e, i)[1] = e[i].type
    BY <1>4 DEF FolioKey
  <2> HIDE DEF keys, before
  <2> QED
    BY <1>1, <1>3, <1>4, <2>1
<1> QED
  BY <1>1, <1>4

(* What an envelope says of each place, and that it says it once.          *)
Own(e, i) == Position(Numbered(e), e[i].type, e[i].folio)
Place(e, i, r) == Position(Numbered(e), e[i].refs[r].type, e[i].refs[r].folio)

Kind(e, i, r) == <<e[i].refs[r].type>>

LEMMA LeavesAre ==
  ASSUME NEW e, NEW i, NEW path, NEW value
  PROVE  <<path, value>> \in Leaves(e, i) <=>
           \/ path = <<i, "type">> /\ value = <<e[i].type>>
           \/ path = <<i, "folio">> /\ value = Own(e, i)
           \/ path = <<i, "rest">> /\ value = <<e[i].rest>>
           \/ \E r \in DOMAIN e[i].refs :
                \/ path = <<i, "ref", r, "type">> /\ value = Kind(e, i, r)
                \/ path = <<i, "ref", r, "folio">> /\ value = Place(e, i, r)
BY DEF Leaves, Own, Place, Kind

LEMMA PathsDiffer ==
  ASSUME NEW i, NEW j, NEW r, NEW q
  PROVE  /\ <<i, "type">> # <<j, "rest">> /\ <<i, "type">> # <<j, "folio">> /\ <<i, "rest">> # <<j, "folio">>
         /\ <<i, "type">> # <<j, "ref", q, "type">> /\ <<i, "type">> # <<j, "ref", q, "folio">>
         /\ <<i, "rest">> # <<j, "ref", q, "type">> /\ <<i, "rest">> # <<j, "ref", q, "folio">>
         /\ <<i, "folio">> # <<j, "ref", q, "type">> /\ <<i, "folio">> # <<j, "ref", q, "folio">>
         /\ <<i, "ref", r, "type">> # <<j, "ref", q, "folio">>
         /\ <<i, "type">> = <<j, "type">> => i = j
         /\ <<i, "rest">> = <<j, "rest">> => i = j
         /\ <<i, "ref", r, "type">> = <<j, "ref", q, "type">> => i = j /\ r = q
         /\ <<i, "ref", r, "folio">> = <<j, "ref", q, "folio">> => i = j /\ r = q
<1>1. Len(<<i, "type">>) = 2 /\ Len(<<i, "rest">>) = 2 /\ Len(<<i, "folio">>) = 2
  OBVIOUS
<1>2. Len(<<j, "ref", q, "type">>) = 4 /\ Len(<<j, "ref", q, "folio">>) = 4
  OBVIOUS
<1> QED
  BY <1>1, <1>2

LEMMA TypeTells ==
  \A e, i, v : <<<<i, "type">>, v>> \in Contents(e) <=> i \in DOMAIN e /\ v = <<e[i].type>>
BY LeavesAre, PathsDiffer DEF Contents

LEMMA RestTells ==
  \A e, i, v : <<<<i, "rest">>, v>> \in Contents(e) <=> i \in DOMAIN e /\ v = <<e[i].rest>>
BY LeavesAre, PathsDiffer DEF Contents

LEMMA ReferredTypeTells ==
  \A e, i, r, v : <<<<i, "ref", r, "type">>, v>> \in Contents(e) <=>
                    i \in DOMAIN e /\ r \in DOMAIN e[i].refs /\ v = Kind(e, i, r)
BY LeavesAre, PathsDiffer DEF Contents

LEMMA PlaceTells ==
  \A e, i, r, v : <<<<i, "ref", r, "folio">>, v>> \in Contents(e) <=>
                    i \in DOMAIN e /\ r \in DOMAIN e[i].refs /\ v = Place(e, i, r)
BY LeavesAre, PathsDiffer DEF Contents

LEMMA NothingDiffers ==
  ASSUME NEW a, NEW b
  PROVE  Differing(a, b) = {} <=> Contents(a) = Contents(b)
BY DEF Differing

(* The place of a reference is the rank of the document it names, or the   *)
(* folio as it is written when it names none of the envelope.              *)
LEMMA PlaceOfReference ==
  ASSUME NEW e, NEW n \in Nat, DOMAIN e = 1..n, Distinct(e),
         NEW i \in DOMAIN e, NEW r \in DOMAIN e[i].refs
  PROVE  /\ Names(e, e[i].refs[r]) = {} => Place(e, i, r) = <<e[i].refs[r].folio>>
         /\ \A j \in Names(e, e[i].refs[r]) :
              /\ Names(e, e[i].refs[r]) = {j} /\ e[j].type = e[i].refs[r].type
              /\ Place(e, i, r) = <<e[j].type, Rank(e, j)>>
<1> DEFINE ref == e[i].refs[r]
<1>1. DOMAIN Numbered(e) = {FolioKey(e, j) : j \in DOMAIN e}
  BY NumberedIsRank
<1>2. CASE Names(e, ref) = {}
  <2>1. <<ref.type, ref.folio>> \notin DOMAIN Numbered(e)
    BY <1>1, <1>2 DEF Names, FolioKey
  <2> QED
    BY <1>2, <2>1 DEF Place, Position
<1>3. ASSUME NEW j \in Names(e, ref)
      PROVE  /\ Names(e, ref) = {j} /\ e[j].type = ref.type
             /\ Place(e, i, r) = <<e[j].type, Rank(e, j)>>
  <2>1. j \in DOMAIN e /\ e[j].type = ref.type /\ e[j].folio = ref.folio
    BY <1>3 DEF Names
  <2>2. Names(e, ref) = {j}
    BY <1>3, <2>1 DEF Names, Distinct
  <2>3. <<ref.type, ref.folio>> = FolioKey(e, j) /\ FolioKey(e, j) \in DOMAIN Numbered(e)
    BY <1>1, <2>1 DEF FolioKey
  <2>4. Numbered(e)[FolioKey(e, j)] = <<e[j].type, Rank(e, j)>>
    BY <2>1, NumberedIsRank
  <2> QED
    BY <2>1, <2>2, <2>3, <2>4 DEF Place, Position
<1> QED
  BY <1>2, <1>3

LEMMA IntervalsTell ==
  ASSUME NEW m \in Nat, NEW n \in Nat, 1..m = 1..n
  PROVE  m = n
<1>1. m > n => m \in 1..m /\ m \notin 1..n
  OBVIOUS
<1>2. n > m => n \in 1..n /\ n \notin 1..m
  OBVIOUS
<1> QED
  BY <1>1, <1>2

LEMMA DocumentShape ==
  ASSUME NEW Type, NEW Folio, NEW Rest, NEW e \in Seq(Document(Type, Folio, Rest)), NEW i \in DOMAIN e
  PROVE  Len(e[i].refs) \in Nat /\ DOMAIN e[i].refs = 1..Len(e[i].refs)
<1>1. e[i] \in Document(Type, Folio, Rest)
  OBVIOUS
<1>2. e[i].refs \in Seq([type : Type, folio : Folio])
  BY <1>1 DEF Document
<1> QED
  BY <1>2

(* The same leaves, place by place.                                        *)
LEMMA SameLeaves ==
  ASSUME NEW a, NEW b, Contents(a) = Contents(b), NEW i
  PROVE  /\ i \in DOMAIN a <=> i \in DOMAIN b
         /\ i \in DOMAIN a => <<a[i].type>> = <<b[i].type>> /\ <<a[i].rest>> = <<b[i].rest>>
<1>1. ASSUME NEW v
      PROVE  i \in DOMAIN a /\ v = <<a[i].type>> <=> i \in DOMAIN b /\ v = <<b[i].type>>
  BY TypeTells, Zenon
<1>2. ASSUME NEW v
      PROVE  i \in DOMAIN a /\ v = <<a[i].rest>> <=> i \in DOMAIN b /\ v = <<b[i].rest>>
  BY RestTells, Zenon
<1> QED
  BY <1>1, <1>2, Zenon

LEMMA SameReferences ==
  ASSUME NEW a, NEW b, Contents(a) = Contents(b), NEW i \in DOMAIN a, NEW r
  PROVE  /\ r \in DOMAIN a[i].refs <=> r \in DOMAIN b[i].refs
         /\ r \in DOMAIN a[i].refs =>
              Kind(a, i, r) = Kind(b, i, r) /\ Place(a, i, r) = Place(b, i, r)
<1>1. i \in DOMAIN b
  BY SameLeaves
<1>2. ASSUME NEW v
      PROVE  r \in DOMAIN a[i].refs /\ v = Kind(a, i, r) <=> r \in DOMAIN b[i].refs /\ v = Kind(b, i, r)
  BY <1>1, ReferredTypeTells, Zenon
<1>3. ASSUME NEW v
      PROVE  r \in DOMAIN a[i].refs /\ v = Place(a, i, r) <=> r \in DOMAIN b[i].refs /\ v = Place(b, i, r)
  BY <1>1, PlaceTells, Zenon
<1> QED
  BY <1>2, <1>3, Zenon

(* Two envelopes with the same leaves list the same documents, which refer *)
(* to the same.                                                            *)
LEMMA SameLeavesSameContent ==
  ASSUME NEW Type, NEW Folio, NEW Rest,
         NEW a \in Seq(Document(Type, Folio, Rest)), NEW b \in Seq(Document(Type, Folio, Rest)),
         Distinct(a), Distinct(b), Contents(a) = Contents(b)
  PROVE  SameContent(a, b)
<1>1. /\ Len(a) \in Nat /\ DOMAIN a = 1..Len(a)
      /\ Len(b) \in Nat /\ DOMAIN b = 1..Len(b)
  OBVIOUS
<1>2. ASSUME NEW e \in Seq(Document(Type, Folio, Rest)), NEW i \in DOMAIN e
      PROVE  Len(e[i].refs) \in Nat /\ DOMAIN e[i].refs = 1..Len(e[i].refs)
  BY <1>2, DocumentShape
<1>3. \A i : i \in DOMAIN a <=> i \in DOMAIN b
  BY SameLeaves
<1>4. Len(a) = Len(b) /\ DOMAIN a = DOMAIN b
  <2>1. DOMAIN a = DOMAIN b
    BY <1>1, <1>3
  <2>2. 1..Len(a) = 1..Len(b)
    BY <1>1, <2>1
  <2> QED
    BY <1>1, <2>1, <2>2, IntervalsTell
<1>5. ASSUME NEW i \in DOMAIN a
      PROVE  /\ a[i].type = b[i].type /\ a[i].rest = b[i].rest
             /\ DOMAIN a[i].refs = DOMAIN b[i].refs
             /\ \A r \in DOMAIN a[i].refs :
                  a[i].refs[r].type = b[i].refs[r].type /\ Place(a, i, r) = Place(b, i, r)
  <2>1. <<a[i].type>> = <<b[i].type>>
    BY <1>5, SameLeaves
  <2>2. <<a[i].rest>> = <<b[i].rest>>
    BY <1>5, SameLeaves
  <2>3. ASSUME NEW r PROVE r \in DOMAIN a[i].refs <=> r \in DOMAIN b[i].refs
    BY <1>5, SameReferences
  <2>4. DOMAIN a[i].refs = DOMAIN b[i].refs
    <3>1. DOMAIN a[i].refs = 1..Len(a[i].refs) /\ DOMAIN b[i].refs = 1..Len(b[i].refs)
      BY <1>2, <1>4, <1>5
    <3> QED
      BY <2>3, <3>1
  <2>5. ASSUME NEW r \in DOMAIN a[i].refs
        PROVE  <<a[i].refs[r].type>> = <<b[i].refs[r].type>> /\ Place(a, i, r) = Place(b, i, r)
    BY <1>5, <2>5, SameReferences DEF Kind
  <2> QED
    BY <2>1, <2>2, <2>4, <2>5
<1>6. ASSUME NEW i \in DOMAIN a PROVE Len(a[i].refs) = Len(b[i].refs)
  <2>1. PICK m \in Nat, n \in Nat : /\ m = Len(a[i].refs) /\ DOMAIN a[i].refs = 1..m
                                    /\ n = Len(b[i].refs) /\ DOMAIN b[i].refs = 1..n
    BY <1>2, <1>4, <1>6
  <2>2. 1..m = 1..n
    BY <1>5, <1>6, <2>1
  <2> QED
    BY <2>1, <2>2, IntervalsTell
<1>7. ASSUME NEW k \in DOMAIN a PROVE Rank(a, k) = Rank(b, k)
  <2>1. \A j \in 1..k : a[j].type = b[j].type
    BY <1>1, <1>5, <1>7
  <2>2. a[k].type = b[k].type
    BY <1>5, <1>7
  <2>3. Peers(a, k) = Peers(b, k)
    BY <2>1, <2>2 DEF Peers
  <2> QED
    BY <2>3 DEF Rank
<1>8. ASSUME NEW i \in DOMAIN a, NEW r \in DOMAIN a[i].refs
      PROVE  /\ Names(a, a[i].refs[r]) = Names(b, b[i].refs[r])
             /\ Names(a, a[i].refs[r]) = {} => a[i].refs[r].folio = b[i].refs[r].folio
  <2>1. PICK p : p = Place(a, i, r)
    OBVIOUS
  <2>2. i \in DOMAIN b /\ r \in DOMAIN b[i].refs /\ p = Place(b, i, r)
    BY <1>4, <1>5, <1>8, <2>1
  <2>3. PICK A, B : A = Names(a, a[i].refs[r]) /\ B = Names(b, b[i].refs[r])
    OBVIOUS
  <2>4. /\ A = {} => p = <<a[i].refs[r].folio>>
        /\ \A j \in A : A = {j} /\ j \in DOMAIN a /\ p = <<a[j].type, Rank(a, j)>>
    BY <1>1, <1>8, <2>1, <2>3, PlaceOfReference DEF Names
  <2>5. /\ B = {} => p = <<b[i].refs[r].folio>>
        /\ \A j \in B : B = {j} /\ j \in DOMAIN b /\ p = <<b[j].type, Rank(b, j)>>
    BY <1>1, <2>2, <2>3, PlaceOfReference DEF Names
  <2>6. \A x, y, z : <<x>> # <<y, z>>
    OBVIOUS
  <2>7. CASE A = {}
    <3>1. B = {}
      BY <2>4, <2>5, <2>6, <2>7
    <3>2. <<a[i].refs[r].folio>> = <<b[i].refs[r].folio>>
      BY <2>4, <2>5, <2>7, <3>1
    <3> QED
      BY <2>3, <2>7, <3>1, <3>2
  <2>8. CASE A # {}
    <3>1. PICK j \in A : A = {j} /\ j \in DOMAIN a /\ p = <<a[j].type, Rank(a, j)>>
      BY <2>4, <2>8
    <3>2. B # {}
      BY <2>5, <2>6, <3>1
    <3>3. PICK k \in B : B = {k} /\ k \in DOMAIN b /\ p = <<b[k].type, Rank(b, k)>>
      BY <2>5, <3>2
    <3>4. k \in DOMAIN a /\ Rank(b, k) = Rank(a, k) /\ a[k].type = b[k].type
      BY <1>4, <1>5, <1>7, <3>3
    <3>5. a[j].type = a[k].type /\ Rank(a, j) = Rank(a, k)
      BY <3>1, <3>3, <3>4
    <3>6. j = k
      BY <1>1, <3>1, <3>4, <3>5, RankTells
    <3> QED
      BY <2>3, <2>8, <3>1, <3>3, <3>6
  <2> QED
    BY <2>7, <2>8
<1> QED
  BY <1>4, <1>5, <1>6, <1>8 DEF SameContent

(* And two that list the same documents have the same leaves.              *)
LEMMA SameContentSameLeaves ==
  ASSUME NEW Type, NEW Folio, NEW Rest,
         NEW a \in Seq(Document(Type, Folio, Rest)), NEW b \in Seq(Document(Type, Folio, Rest)),
         Distinct(a), Distinct(b), SameContent(a, b)
  PROVE  Contents(a) = Contents(b)
<1>1. /\ Len(a) \in Nat /\ DOMAIN a = 1..Len(a)
      /\ Len(b) = Len(a) /\ DOMAIN b = DOMAIN a
  BY DEF SameContent
<1>2. ASSUME NEW i \in DOMAIN a
      PROVE  /\ a[i].type = b[i].type /\ a[i].rest = b[i].rest
             /\ DOMAIN a[i].refs = DOMAIN b[i].refs
  <2>1. DOMAIN a[i].refs = 1..Len(a[i].refs) /\ DOMAIN b[i].refs = 1..Len(b[i].refs)
    BY <1>1, <1>2, DocumentShape
  <2>2. Len(a[i].refs) = Len(b[i].refs)
    BY <1>2 DEF SameContent
  <2> QED
    BY <1>2, <2>1, <2>2 DEF SameContent
<1>3. ASSUME NEW k \in DOMAIN a PROVE Rank(a, k) = Rank(b, k)
  <2>1. (\A j \in 1..k : a[j].type = b[j].type) /\ a[k].type = b[k].type
    BY <1>1, <1>2, <1>3
  <2>2. Peers(a, k) = Peers(b, k)
    BY <2>1 DEF Peers
  <2> QED
    BY <2>2 DEF Rank
<1>4. ASSUME NEW i \in DOMAIN a PROVE Own(a, i) = Own(b, i)
  <2>1. ASSUME NEW e, DOMAIN e = 1..Len(a), Distinct(e) PROVE Own(e, i) = <<e[i].type, Rank(e, i)>>
    <3>1. FolioKey(e, i) \in DOMAIN Numbered(e) /\ Numbered(e)[FolioKey(e, i)] = <<e[i].type, Rank(e, i)>>
      BY <1>1, <1>4, <2>1, NumberedIsRank
    <3> QED
      BY <3>1 DEF Own, Position, FolioKey
  <2> QED
    BY <1>1, <1>2, <1>3, <1>4, <2>1
<1>5. ASSUME NEW i \in DOMAIN a, NEW r \in DOMAIN a[i].refs
      PROVE  a[i].refs[r].type = b[i].refs[r].type /\ Place(a, i, r) = Place(b, i, r)
  <2>1. /\ a[i].refs[r].type = b[i].refs[r].type
        /\ Names(a, a[i].refs[r]) = Names(b, b[i].refs[r])
        /\ Names(a, a[i].refs[r]) = {} => a[i].refs[r].folio = b[i].refs[r].folio
    BY <1>5 DEF SameContent
  <2>2. i \in DOMAIN b /\ r \in DOMAIN b[i].refs
    BY <1>1, <1>2, <1>5
  <2>3. CASE Names(a, a[i].refs[r]) = {}
    <3>1. Place(a, i, r) = <<a[i].refs[r].folio>>
      BY <1>1, <1>5, <2>3, PlaceOfReference
    <3>2. Place(b, i, r) = <<b[i].refs[r].folio>>
      <4>1. Names(b, b[i].refs[r]) = {} /\ DOMAIN b = 1..Len(a)
        BY <1>1, <2>1, <2>3
      <4> QED
        BY <1>1, <2>2, <4>1, PlaceOfReference
    <3> QED
      BY <2>1, <2>3, <3>1, <3>2
  <2>4. CASE Names(a, a[i].refs[r]) # {}
    <3>1. PICK j \in DOMAIN a : j \in Names(a, a[i].refs[r]) /\ j \in Names(b, b[i].refs[r])
      BY <2>1, <2>4 DEF Names
    <3>2. Place(a, i, r) = <<a[j].type, Rank(a, j)>>
      BY <1>1, <1>5, <3>1, PlaceOfReference
    <3>3. Place(b, i, r) = <<b[j].type, Rank(b, j)>>
      BY <1>1, <2>2, <3>1, PlaceOfReference
    <3> QED
      BY <1>2, <1>3, <2>1, <3>1, <3>2, <3>3
  <2> QED
    BY <2>1, <2>3, <2>4
<1>6. ASSUME NEW i \in DOMAIN a PROVE Leaves(a, i) = Leaves(b, i)
  <2> DEFINE refTypes(e) == {<<<<i, "ref", r, "type">>, <<e[i].refs[r].type>>>> : r \in DOMAIN e[i].refs}
             refFolios(e) == {<<<<i, "ref", r, "folio">>, Place(e, i, r)>> : r \in DOMAIN e[i].refs}
             own(e) == {<<<<i, "type">>, <<e[i].type>>>>, <<<<i, "folio">>, Own(e, i)>>,
                        <<<<i, "rest">>, <<e[i].rest>>>>}
  <2>1. Leaves(a, i) = own(a) \cup refTypes(a) \cup refFolios(a)
    BY DEF Leaves, Own, Place
  <2>2. Leaves(b, i) = own(b) \cup refTypes(b) \cup refFolios(b)
    BY DEF Leaves, Own, Place
  <2>3. own(a) = own(b)
    BY <1>2, <1>4, <1>6
  <2>4. refTypes(a) = refTypes(b)
    BY <1>2, <1>5, <1>6
  <2>5. refFolios(a) = refFolios(b)
    BY <1>2, <1>5, <1>6
  <2> QED
    BY <2>1, <2>2, <2>3, <2>4, <2>5
<1> QED
  BY <1>1, <1>6 DEF Contents

(* Of two emissions of a test set in which no folio is used twice, of any  *)
(* length and with any documents, the comparison finds no difference       *)
(* exactly when they say the same.                                         *)
THEOREM ComparisonIsExact ==
  ASSUME NEW Type, NEW Folio, NEW Rest,
         NEW a \in Seq(Document(Type, Folio, Rest)), NEW b \in Seq(Document(Type, Folio, Rest))
  PROVE  ComparisonTells(a, b, Differing(a, b))
<1>1. ASSUME Distinct(a), Distinct(b) PROVE Differing(a, b) = {} <=> SameContent(a, b)
  BY <1>1, NothingDiffers, SameLeavesSameContent, SameContentSameLeaves
<1> QED
  BY <1>1 DEF ComparisonTells, Distinct
-----------------------------------------------------------------------------
(* Reconciliation                                                          *)

(* A list in which no two documents have one key, of whole amounts.        *)
KeyedList(docs) ==
  /\ DOMAIN docs \subseteq Nat /\ IsFiniteSet(DOMAIN docs)
  /\ \A i, j \in DOMAIN docs : Key(docs[i]) = Key(docs[j]) => i = j
  /\ \A i \in DOMAIN docs : docs[i].total_amount \in Int

Listed(docs) == {Key(docs[i]) : i \in DOMAIN docs}

RcvDocuments ==
  {RcvDocument(row, operation, state) :
     row \in RegistryRow, operation \in {"COMPRA", "VENTA"},
     state \in {"REGISTRO", "RECLAMADO", "PENDIENTE"}}

LEMMA FlattenedType ==
  ASSUME NEW q \in RegistryQuestion
  PROVE  Flattened(q.detail, q.operation) \in Seq(RcvDocuments)
<1> DEFINE rows(s) == [i \in DOMAIN q.detail[s] |-> RcvDocument(q.detail[s][i], q.operation, s)]
<1>1. ASSUME NEW s \in {"REGISTRO", "RECLAMADO", "PENDIENTE"}
      PROVE  rows(s) \in Seq(RcvDocuments)
  <2>1. q.detail[s] \in Seq(RegistryRow) /\ q.operation \in {"COMPRA", "VENTA"}
    BY DEF RegistryQuestion
  <2>2. PICK n \in Nat : DOMAIN q.detail[s] = 1..n
    BY <2>1
  <2>3. ASSUME NEW i \in 1..n PROVE RcvDocument(q.detail[s][i], q.operation, s) \in RcvDocuments
    <3>1. q.detail[s][i] \in RegistryRow
      BY <2>1, <2>2
    <3> QED
      BY <2>1, <3>1 DEF RcvDocuments
  <2>4. rows(s) = [i \in 1..n |-> RcvDocument(q.detail[s][i], q.operation, s)]
    BY <2>2
  <2> HIDE DEF rows
  <2> QED
    BY <2>2, <2>3, <2>4
<1>2. Flattened(q.detail, q.operation) =
        IF q.operation = "COMPRA" THEN rows("REGISTRO") \o rows("RECLAMADO") \o rows("PENDIENTE")
        ELSE rows("REGISTRO")
  BY DEF Flattened
<1> HIDE DEF rows
<1> QED
  BY <1>1, <1>2

(* What rcv.py hands out names no document twice.                          *)
LEMMA NormalizedOnce ==
  ASSUME NEW q \in RegistryQuestion
  PROVE  KeyedList(Normalize(q.detail, q.operation))
<1> DEFINE all == Flattened(q.detail, q.operation)
           documents == {i \in DOMAIN all : Processable(all[i])}
           kept == {i \in documents : \A j \in documents : j < i => RowKey(all[j]) # RowKey(all[i])}
           docs == Normalize(q.detail, q.operation)
<1>1. DOMAIN docs = kept /\ \A i \in kept : docs[i] = all[i]
  BY DEF Normalize, Restrict
<1>2. all \in Seq(RcvDocuments)
  BY FlattenedType
<1> HIDE DEF all, docs
<1>3. PICK n \in Nat : DOMAIN all = 1..n
  BY <1>2
<1>4. ASSUME NEW i \in 1..n
      PROVE  all[i].rut \in SiiRuts /\ all[i].total_amount \in Int
  <2>1. PICK row \in RegistryRow, operation \in {"COMPRA", "VENTA"},
             state \in {"REGISTRO", "RECLAMADO", "PENDIENTE"} :
          all[i] = RcvDocument(row, operation, state)
    BY <1>2, <1>3 DEF RcvDocuments
  <2>2. row.rut \in SiiRuts /\ row.total_amount \in Int
    BY DEF RegistryRow
  <2> QED
    BY <2>1, <2>2 DEF RcvDocument
<1>5. kept \subseteq 1..n /\ IsFiniteSet(kept)
  <2>1. kept \subseteq 1..n
    BY <1>3
  <2>2. IsFiniteSet(1..n)
    BY FS_Interval
  <2> HIDE DEF kept
  <2> QED
    BY <2>1, <2>2, FS_Subset
<1>6. ASSUME NEW i \in kept, NEW j \in kept, Key(docs[i]) = Key(docs[j]) PROVE i = j
  <2>1. all[i].rut.id = all[j].rut.id /\ i \in 1..n /\ j \in 1..n
    BY <1>1, <1>5, <1>6 DEF Key
  <2>2. RowKey(all[i]) = RowKey(all[j])
    BY <1>1, <1>4, <1>6, <2>1, QuestionsAssumption DEF Key, RowKey
  <2> QED
    BY <2>1, <2>2
<1> HIDE DEF kept
<1>7. KeyedList(docs)
  <2>1. DOMAIN docs \subseteq Nat /\ IsFiniteSet(DOMAIN docs)
    BY <1>1, <1>5
  <2>2. \A i \in DOMAIN docs : docs[i].total_amount \in Int
    BY <1>1, <1>4, <1>5
  <2> QED
    BY <1>1, <1>6, <2>1, <2>2 DEF KeyedList
<1> QED
  BY <1>7 DEF docs

LEMMA DictionaryHolds ==
  ASSUME NEW docs, KeyedList(docs)
  PROVE  /\ DOMAIN ByKey(docs) = Listed(docs)
         /\ \A i \in DOMAIN docs : ByKey(docs)[Key(docs[i])] = docs[i]
         /\ [i \in DOMAIN docs |-> Key(docs[i])] \in Bijection(DOMAIN docs, Listed(docs))
<1>1. ASSUME NEW i \in DOMAIN docs PROVE ByKey(docs)[Key(docs[i])] = docs[i]
  <2> DEFINE chosen == CHOOSE l \in DOMAIN docs :
                         /\ Key(docs[l]) = Key(docs[i])
                         /\ \A j \in DOMAIN docs : Key(docs[j]) = Key(docs[i]) => j <= l
  <2>1. Key(docs[i]) = Key(docs[i]) /\ \A j \in DOMAIN docs : Key(docs[j]) = Key(docs[i]) => j <= i
    BY <1>1 DEF KeyedList
  <2>2. chosen = i
    BY <2>1 DEF KeyedList
  <2>3. ByKey(docs)[Key(docs[i])] = docs[chosen]
    BY <1>1 DEF ByKey, Listed
  <2> QED
    BY <2>2, <2>3
<1>2. [i \in DOMAIN docs |-> Key(docs[i])] \in Bijection(DOMAIN docs, Listed(docs))
  <2> DEFINE f == [i \in DOMAIN docs |-> Key(docs[i])]
  <2>1. f \in [DOMAIN docs -> Listed(docs)]
    BY DEF Listed
  <2>2. \A i, j \in DOMAIN docs : f[i] = f[j] => i = j
    BY DEF KeyedList
  <2>3. \A k \in Listed(docs) : \E i \in DOMAIN docs : f[i] = k
    BY DEF Listed
  <2> HIDE DEF f
  <2>4. f \in Bijection(DOMAIN docs, Listed(docs))
    BY <2>1, <2>2, <2>3 DEF Bijection, Injection, IsInjective, Surjection
  <2> QED
    BY <2>4 DEF f
<1> QED
  BY <1>1, <1>2 DEF ByKey, Listed

LEMMA ListedCount ==
  ASSUME NEW docs, KeyedList(docs)
  PROVE  /\ IsFiniteSet(Listed(docs))
         /\ Cardinality(Listed(docs)) = Cardinality(DOMAIN docs)
<1>1. ExistsBijection(DOMAIN docs, Listed(docs)) /\ IsFiniteSet(DOMAIN docs)
  BY DictionaryHolds DEF ExistsBijection, KeyedList
<1> QED
  BY <1>1, FS_Bijection

(* A list that has as many keys as documents has no key twice.             *)
LEMMA OnceMeansKeyed ==
  ASSUME NEW docs \in Seq(OwnDocument), Cardinality(Listed(docs)) = Cardinality(DOMAIN docs)
  PROVE  KeyedList(docs)
<1> DEFINE f == [i \in DOMAIN docs |-> Key(docs[i])]
<1>1. PICK n \in Nat : DOMAIN docs = 1..n
  OBVIOUS
<1>2. IsFiniteSet(DOMAIN docs)
  BY <1>1, FS_Interval
<1>3. f \in Surjection(DOMAIN docs, Listed(docs))
  BY DEF Surjection, Listed
<1>4. f \in Injection(DOMAIN docs, Listed(docs))
  <2> HIDE DEF f
  <2> QED
    BY <1>2, <1>3, FS_Surjection
<1>5. \A i, j \in DOMAIN docs : Key(docs[i]) = Key(docs[j]) => i = j
  BY <1>4 DEF Injection, IsInjective
<1>6. ASSUME NEW i \in DOMAIN docs PROVE docs[i].total_amount \in Int
  <2>1. docs[i] \in OwnDocument
    BY <1>6
  <2> QED
    BY <2>1 DEF OwnDocument
<1> QED
  BY <1>1, <1>2, <1>5, <1>6 DEF KeyedList

(* Two lists with the same keys and the same amounts add up the same.      *)
LEMMA SameAmountsSameTotal ==
  ASSUME NEW a, NEW b, KeyedList(a), KeyedList(b), Listed(a) = Listed(b),
         \A k \in Listed(a) : ByKey(a)[k].total_amount = ByKey(b)[k].total_amount
  PROVE  SumFunction([i \in DOMAIN a |-> a[i].total_amount]) =
           SumFunction([i \in DOMAIN b |-> b[i].total_amount])
<1> DEFINE f == [i \in DOMAIN a |-> a[i].total_amount]
           g == [i \in DOMAIN b |-> b[i].total_amount]
           match == [i \in DOMAIN a |-> CHOOSE j \in DOMAIN b : Key(b[j]) = Key(a[i])]
<1>1. ASSUME NEW i \in DOMAIN a PROVE match[i] \in DOMAIN b /\ Key(b[match[i]]) = Key(a[i])
  <2>1. Key(a[i]) \in Listed(b)
    BY <1>1 DEF Listed
  <2> QED
    BY <1>1, <2>1 DEF Listed
<1>2. match \in [DOMAIN a -> DOMAIN b]
  BY <1>1
<1>3. ASSUME NEW i \in DOMAIN a, NEW j \in DOMAIN a, match[i] = match[j] PROVE i = j
  BY <1>1, <1>3 DEF KeyedList
<1>4. ASSUME NEW j \in DOMAIN b PROVE \E i \in DOMAIN a : match[i] = j
  <2>1. Key(b[j]) \in Listed(a)
    BY <1>4 DEF Listed
  <2>2. PICK i \in DOMAIN a : Key(a[i]) = Key(b[j])
    BY <2>1 DEF Listed
  <2> QED
    BY <1>1, <1>4, <2>2 DEF KeyedList
<1>5. ASSUME NEW i \in DOMAIN a PROVE g[match[i]] = f[i]
  <2>1. /\ ByKey(a)[Key(a[i])] = a[i] /\ Key(a[i]) \in Listed(a)
        /\ ByKey(b)[Key(b[match[i]])] = b[match[i]]
    BY <1>1, <1>5, DictionaryHolds DEF Listed
  <2> HIDE DEF match
  <2> QED
    BY <1>1, <1>5, <2>1
<1>6. \A i \in DOMAIN a : f[i] \in Int
  BY DEF KeyedList
<1> HIDE DEF match
<1>7. match \in Bijection(DOMAIN a, DOMAIN b)
  BY <1>2, <1>3, <1>4 DEF Bijection, Injection, IsInjective, Surjection
<1>8. DOMAIN f = DOMAIN a /\ DOMAIN g = DOMAIN b /\ IsFiniteSet(DOMAIN a)
  BY DEF KeyedList
<1> HIDE DEF f, g
<1>9. SumFunctionOnSet(f, DOMAIN a) = SumFunctionOnSet(g, DOMAIN b)
  BY <1>5, <1>6, <1>7, <1>8, SumsMatch
<1> QED
  BY <1>8, <1>9 DEF SumFunction, f, g

(* A reconciliation that balances has the same total on both sides, and    *)
(* its groups tell every document of either side apart: rcv.py and         *)
(* rcv_service.py, for any answer of the SII and any documents.            *)
THEOREM ReconciliationIsExact ==
  ASSUME NEW q \in RegistryQuestion
  PROVE  LET sii == Normalize(q.detail, q.operation)
         IN  BalancedMeansEqual(sii, q.source, Reconcile(sii, q.source))
<1> DEFINE sii == Normalize(q.detail, q.operation)
           r == Reconcile(sii, q.source)
           both == Listed(sii) \cap Listed(q.source)
<1>1. KeyedList(sii) /\ q.source \in Seq(OwnDocument)
  BY NormalizedOnce DEF RegistryQuestion
<1>2. DOMAIN ByKey(sii) = Listed(sii) /\ DOMAIN ByKey(q.source) = Listed(q.source)
  BY DEF ByKey, Listed
<1> HIDE DEF sii
<1>3. /\ r.matched = Cardinality(both)
      /\ r.only_in_sii = Listed(sii) \ Listed(q.source)
      /\ r.only_in_source = Listed(q.source) \ Listed(sii)
      /\ r.mismatched = {k \in both : Differences(ByKey(sii)[k], ByKey(q.source)[k]) # {}}
      /\ r.balanced <=> r.only_in_sii \cup r.only_in_source \cup r.mismatched = {}
      /\ r.sii_total = SumFunction([i \in DOMAIN sii |-> sii[i].total_amount])
      /\ r.source_total = SumFunction([i \in DOMAIN q.source |-> q.source[i].total_amount])
  BY <1>2 DEF Reconcile
<1> HIDE DEF r
<1>4. /\ IsFiniteSet(Listed(sii)) /\ Cardinality(Listed(sii)) = Cardinality(DOMAIN sii)
  BY <1>1, ListedCount
<1>5. r.matched + Cardinality(r.only_in_sii) = Cardinality(DOMAIN sii)
  BY <1>3, <1>4, PartsCount
<1>6. ASSUME Cardinality(Listed(q.source)) = Cardinality(DOMAIN q.source)
      PROVE  /\ r.balanced => r.sii_total = r.source_total
             /\ r.matched + Cardinality(r.only_in_source) = Cardinality(DOMAIN q.source)
  <2>1. KeyedList(q.source)
    BY <1>1, <1>6, OnceMeansKeyed
  <2>2. IsFiniteSet(Listed(q.source))
    BY <2>1, ListedCount
  <2>3. Cardinality(Listed(q.source) \cap Listed(sii)) + Cardinality(Listed(q.source) \ Listed(sii)) =
          Cardinality(Listed(q.source))
    BY <2>2, PartsCount
  <2>4. r.matched + Cardinality(r.only_in_source) = Cardinality(DOMAIN q.source)
    <3>1. both = Listed(q.source) \cap Listed(sii)
      OBVIOUS
    <3> QED
      BY <1>3, <1>6, <2>3, <3>1
  <2>5. ASSUME r.balanced PROVE r.sii_total = r.source_total
    <3>1. Listed(sii) = Listed(q.source)
      BY <1>3, <2>5
    <3>2. ASSUME NEW k \in Listed(sii)
          PROVE  ByKey(sii)[k].total_amount = ByKey(q.source)[k].total_amount
      <4>1. Differences(ByKey(sii)[k], ByKey(q.source)[k]) = {}
        BY <1>3, <2>5, <3>1
      <4> QED
        BY <4>1 DEF Differences, Amounts4
    <3> QED
      BY <1>1, <1>3, <2>1, <3>1, <3>2, SameAmountsSameTotal
  <2> QED
    BY <2>4, <2>5
<1>7. \A k \in r.mismatched : k \in both
  BY <1>3
<1> QED
  BY <1>5, <1>6, <1>7 DEF BalancedMeansEqual, Listed, sii, r
-----------------------------------------------------------------------------
(* Books                                                                   *)

LEMMA Merged ==
  ASSUME NEW f, NEW g, NEW x
  PROVE  /\ DOMAIN (f ++ g) = (DOMAIN f) \cup DOMAIN g
         /\ x \in (DOMAIN f) \cup (DOMAIN g) =>
              (f ++ g)[x] = IF x \in DOMAIN f THEN f[x] ELSE g[x]
         /\ Printed(f ++ g, x) = IF x \in DOMAIN f THEN f[x] ELSE Printed(g, x)
BY DEF ++, Printed

LEMMA PrintedField ==
  ASSUME NEW c \in BOOLEAN, NEW n, NEW v, NEW x
  PROVE  /\ DOMAIN Field(c, n, v) = IF c THEN {n} ELSE {}
         /\ (c => Field(c, n, v)[n] = v)
         /\ Printed(Field(c, n, v), x) = IF c /\ x = n THEN v ELSE 0
BY DEF Field, Printed

(* The types of a line, whatever else it carries.                          *)
IsLine(l) ==
  /\ l.doc_type \in Nat /\ l.voided \in BOOLEAN
  /\ \A f \in MoneyFields : l[f] \in Int
  /\ l.retained_vat_code \in Nat
  /\ l.non_recoverable_vat \in Seq(BookTax) /\ l.other_taxes \in Seq(BookTax)

LEMMA RoundedIsInt ==
  ASSUME NEW num \in Int, NEW den \in Nat \ {0}
  PROVE  RoundHalfUp(num, den) \in Int
BY DEF RoundHalfUp

LEMMA ToClpIsInt ==
  ASSUME NEW a \in Int, NEW r \in Int
  PROVE  ToClp(a, r) \in Int
<1>1. a * r \in Int
  OBVIOUS
<1> QED
  BY <1>1, RoundedIsInt DEF ToClp

LEMMA LineInPesos ==
  ASSUME NEW l \in LineOfBook
  PROVE  /\ IsLine(BookLine(l)) /\ BookLine(l).doc_type = l.doc_type
         /\ Closes(l) => Closes(BookLine(l))
<1>1. CASE ~l.currency
  BY <1>1 DEF BookLine, IsLine, LineOfBook, MoneyFields
<1>2. CASE l.currency
  <2> DEFINE pesos == [f \in MoneyFields |-> ToClp(l[f], l.exchange_rate)]
             total == IF Closes(l)
                      THEN pesos.exempt_amount + pesos.net_amount + pesos.vat_amount
                      ELSE pesos.total_amount
             nonrec == [i \in DOMAIN l.non_recoverable_vat |->
                          [l.non_recoverable_vat[i] EXCEPT !.amount = ToClp(@, l.exchange_rate)]]
             b == [total_amount |-> total, non_recoverable_vat |-> nonrec] ++ pesos ++ l
  <2>1. BookLine(l) = b
    BY <1>2 DEF BookLine
  <2>2. \A f \in MoneyFields : l[f] \in Int /\ pesos[f] \in Int
    BY ToClpIsInt DEF LineOfBook, MoneyFields
  <2>3. nonrec \in Seq(BookTax)
    <3>1. l.non_recoverable_vat \in Seq(BookTax) /\ l.exchange_rate \in Int
      BY DEF LineOfBook
    <3>2. ASSUME NEW e \in BookTax
          PROVE  [e EXCEPT !.amount = ToClp(@, l.exchange_rate)] \in BookTax
      BY <3>1, ToClpIsInt DEF BookTax
    <3> QED
      BY <3>1, <3>2
  <2>4. total \in Int
    BY <2>2 DEF MoneyFields
  <2>5. /\ DOMAIN pesos = MoneyFields
        /\ l = [x \in DOMAIN l |-> l[x]]
        /\ DOMAIN l = {"doc_type", "voided", "currency", "exchange_rate", "retained_vat_code",
                       "non_recoverable_vat", "other_taxes"} \cup MoneyFields
    BY DEF LineOfBook, MoneyFields
  <2> HIDE DEF pesos, total, nonrec
  <2>6. /\ b.total_amount = total /\ b.non_recoverable_vat = nonrec
        /\ \A f \in MoneyFields \ {"total_amount"} : b[f] = pesos[f]
        /\ b.doc_type = l.doc_type /\ b.voided = l.voided
        /\ b.retained_vat_code = l.retained_vat_code /\ b.other_taxes = l.other_taxes
    BY <2>5 DEF ++, MoneyFields
  <2> HIDE DEF b
  <2>7. IsLine(b)
    BY <2>2, <2>3, <2>4, <2>6 DEF IsLine, LineOfBook
  <2>8. ASSUME Closes(l) PROVE Closes(b)
    BY <2>8, <2>6 DEF Closes, total, MoneyFields
  <2> QED
    BY <2>1, <2>6, <2>7, <2>8
<1> QED
  BY <1>1, <1>2 DEF LineOfBook

(* The retention of a line, in its detail.                                 *)
Kept(l) ==
  IF l.retained_total_vat = 0 THEN <<>>
  ELSE <<[code |-> l.retained_vat_code, amount |-> l.retained_total_vat]>>

SaysLine(d, l, compra) ==
  /\ d.TpoDoc = l.doc_type /\ d.Anulado = l.voided
  /\ Printed(d, "MntExe") = l.exempt_amount /\ Printed(d, "MntNeto") = l.net_amount
  /\ Printed(d, "MntIVA") = l.vat_amount /\ Printed(d, "MntTotal") = l.total_amount
  /\ Printed(d, "MntPeriodo") = (IF compra THEN 0 ELSE l.total_amount + l.non_billable_amount)
  /\ Printed(d, "MntNoFact") = (IF compra THEN 0 ELSE l.non_billable_amount)
  /\ Printed(d, "IVAUsoComun") = (IF compra THEN l.common_use_vat ELSE 0)
  /\ Printed(d, "IVARetTotal") = (IF compra THEN 0 ELSE l.retained_total_vat)
  /\ "OtrosImp" \in DOMAIN d
  /\ ~compra => d.OtrosImp = l.other_taxes
  /\ compra => d.OtrosImp = l.other_taxes \o Kept(l)
  /\ "IVANoRec" \in DOMAIN d <=> compra
  /\ compra => d.IVANoRec = l.non_recoverable_vat
  /\ "Liquidaciones" \in DOMAIN d <=>
       ~compra /\ (l.commission_net # 0 \/ l.commission_exempt # 0 \/ l.commission_vat # 0)
  /\ "Liquidaciones" \in DOMAIN d =>
       d.Liquidaciones = [ValComNeto |-> l.commission_net,
                          ValComExe |-> l.commission_exempt, ValComIVA |-> l.commission_vat]

LEMMA DetailSays ==
  ASSUME NEW l, IsLine(l), NEW compra \in BOOLEAN, NEW d, d = Detail(l, compra)
  PROVE  SaysLine(d, l, compra)
<1> DEFINE head == [TpoDoc |-> l.doc_type, Anulado |-> l.voided, MntExe |-> l.exempt_amount,
                    MntNeto |-> l.net_amount, MntIVA |-> l.vat_amount, MntTotal |-> l.total_amount]
           kept == Kept(l)
           commissions == [ValComNeto |-> l.commission_net,
                           ValComExe |-> l.commission_exempt, ValComIVA |-> l.commission_vat]
           bought == [IVANoRec |-> l.non_recoverable_vat, OtrosImp |-> l.other_taxes \o kept]
                     ++ Field(l.common_use_vat # 0, "IVAUsoComun", l.common_use_vat)
           earned == \E f \in DOMAIN commissions : commissions[f] # 0
           sold == [OtrosImp |-> l.other_taxes,
                    MntPeriodo |-> l.total_amount + l.non_billable_amount]
                   ++ Field(l.retained_total_vat # 0, "IVARetTotal", l.retained_total_vat)
                   ++ Field(earned, "Liquidaciones", commissions)
                   ++ Field(l.non_billable_amount # 0, "MntNoFact", l.non_billable_amount)
<1>1. d = head ++ (IF compra THEN bought ELSE sold)
  BY DEF Detail, Kept
<1>2. earned <=> l.commission_net # 0 \/ l.commission_exempt # 0 \/ l.commission_vat # 0
  OBVIOUS
<1>3. \A f \in MoneyFields : l[f] \in Int
  BY DEF IsLine
<1> HIDE DEF kept, commissions, earned
<1>4. CASE compra
  <2>1. d = head ++ bought
    BY <1>1, <1>4
  <2> QED
    BY <1>2, <1>3, <1>4, <2>1 DEF SaysLine, ++, Field, Printed, kept, commissions, MoneyFields
<1>5. CASE ~compra
  <2>1. d = head ++ sold
    BY <1>1, <1>5
  <2>2. PICK retained, billed, earnings, rest :
          /\ retained = Field(l.retained_total_vat # 0, "IVARetTotal", l.retained_total_vat)
          /\ earnings = Field(earned, "Liquidaciones", commissions)
          /\ billed = Field(l.non_billable_amount # 0, "MntNoFact", l.non_billable_amount)
          /\ rest = [OtrosImp |-> l.other_taxes, MntPeriodo |-> l.total_amount + l.non_billable_amount]
    OBVIOUS
  <2>3. sold = rest ++ retained ++ earnings ++ billed
    BY <2>2
  <2>4. /\ DOMAIN retained \subseteq {"IVARetTotal"}
        /\ Printed(retained, "IVARetTotal") = l.retained_total_vat
        /\ DOMAIN earnings = (IF earned THEN {"Liquidaciones"} ELSE {})
        /\ earned => earnings["Liquidaciones"] = commissions
        /\ DOMAIN billed \subseteq {"MntNoFact"}
        /\ Printed(billed, "MntNoFact") = l.non_billable_amount
    BY <1>3, <2>2 DEF Field, Printed, MoneyFields
  <2>5. /\ DOMAIN rest = {"OtrosImp", "MntPeriodo"} /\ rest.OtrosImp = l.other_taxes
        /\ rest.MntPeriodo = l.total_amount + l.non_billable_amount
    BY <2>2
  <2> HIDE DEF sold
  <2>6. /\ DOMAIN sold \subseteq {"OtrosImp", "MntPeriodo", "IVARetTotal", "Liquidaciones", "MntNoFact"}
        /\ "OtrosImp" \in DOMAIN sold /\ sold.OtrosImp = l.other_taxes
        /\ Printed(sold, "MntPeriodo") = l.total_amount + l.non_billable_amount
        /\ Printed(sold, "IVARetTotal") = l.retained_total_vat
        /\ Printed(sold, "MntNoFact") = l.non_billable_amount
        /\ "Liquidaciones" \in DOMAIN sold <=> earned
        /\ earned => sold.Liquidaciones = commissions
    BY <2>3, <2>4, <2>5 DEF ++, Printed
  <2>7. DOMAIN head = {"TpoDoc", "Anulado", "MntExe", "MntNeto", "MntIVA", "MntTotal"}
    OBVIOUS
  <2>8. /\ d.TpoDoc = l.doc_type /\ d.Anulado = l.voided
        /\ Printed(d, "MntExe") = l.exempt_amount /\ Printed(d, "MntNeto") = l.net_amount
        /\ Printed(d, "MntIVA") = l.vat_amount /\ Printed(d, "MntTotal") = l.total_amount
    BY <2>1 DEF ++, Printed
  <2> HIDE DEF head
  <2>9. DOMAIN d = (DOMAIN head) \cup DOMAIN sold
    BY <2>1 DEF ++
  <2>10. \A x \in (DOMAIN sold) \ DOMAIN head : d[x] = sold[x]
    BY <2>1 DEF ++
  <2>11. /\ Printed(d, "MntPeriodo") = Printed(sold, "MntPeriodo")
         /\ Printed(d, "MntNoFact") = Printed(sold, "MntNoFact")
         /\ Printed(d, "IVAUsoComun") = 0
         /\ Printed(d, "IVARetTotal") = Printed(sold, "IVARetTotal")
         /\ "OtrosImp" \in DOMAIN d /\ d.OtrosImp = sold.OtrosImp
         /\ "IVANoRec" \notin DOMAIN d
         /\ "Liquidaciones" \in DOMAIN d <=> earned
         /\ earned => d.Liquidaciones = sold.Liquidaciones
    BY <2>6, <2>7, <2>9, <2>10 DEF Printed
  <2>12. earned => d.Liquidaciones = commissions
    BY <2>6, <2>11
  <2> QED
    BY <1>2, <1>5, <2>6, <2>8, <2>11, <2>12 DEF SaysLine, commissions
<1> QED
  BY <1>4, <1>5

LEMMA EmptyTotal ==
  ASSUME NEW group, NEW f, DOMAIN group = {}
  PROVE  Total(group, f) = 0 /\ Size(group) = 0
<1>1. [i \in DOMAIN group |-> group[i][f]] = [i \in {} |-> 0]
  OBVIOUS
<1>2. SumFunction([i \in {} |-> 0]) = 0
  BY FS_EmptySet, SumOfNothing
<1> QED
  BY <1>1, <1>2, FS_EmptySet DEF Total, Size

LEMMA CommonUseSays ==
  ASSUME NEW group, NEW factor, NEW t, t = CommonUseTotals(group, factor)
  PROVE  /\ DOMAIN t \subseteq {"TotOpIVAUsoComun", "TotIVAUsoComun", "TotCredIVAUsoComun"}
         /\ Printed(t, "TotOpIVAUsoComun") = Size(NonZero(group, "common_use_vat"))
         /\ Printed(t, "TotIVAUsoComun") = Total(NonZero(group, "common_use_vat"), "common_use_vat")
<1>1. PICK common, amount, size, credit :
        /\ common = NonZero(group, "common_use_vat") /\ amount = Total(common, "common_use_vat")
        /\ size = Size(common) /\ credit = RoundHalfEven(amount * factor, 100)
  OBVIOUS
<1>2. CASE DOMAIN common = {}
  <2>1. t = <<>> /\ amount = 0 /\ size = 0
    BY <1>1, <1>2, EmptyTotal DEF CommonUseTotals
  <2>2. DOMAIN t = {}
    BY <2>1
  <2> QED
    BY <1>1, <2>1, <2>2 DEF Printed
<1>3. CASE DOMAIN common # {}
  <2>1. t = [TotOpIVAUsoComun |-> size, TotIVAUsoComun |-> amount] ++
             Field(factor # NULL, "TotCredIVAUsoComun", credit)
    BY <1>1, <1>3 DEF CommonUseTotals
  <2>2. /\ DOMAIN t \subseteq {"TotOpIVAUsoComun", "TotIVAUsoComun", "TotCredIVAUsoComun"}
        /\ Printed(t, "TotOpIVAUsoComun") = size /\ Printed(t, "TotIVAUsoComun") = amount
    BY <2>1 DEF ++, Field, Printed
  <2> QED
    BY <1>1, <2>2
<1> QED
  BY <1>2, <1>3

(* The retentions of a group, in its summary.                              *)
KeptApart(group, retained) ==
  [p \in (DOMAIN retained) \X {0} |-> [code |-> group[p[1]].retained_vat_code,
                                      amount |-> group[p[1]].retained_total_vat]]

LEMMA RetainedSays ==
  ASSUME NEW group, NEW compra \in BOOLEAN, NEW t, t = RetainedTotals(group, compra),
         NEW retained, retained = NonZero(group, "retained_total_vat"),
         NEW taxes,
         taxes = IF compra THEN Joined(group, "other_taxes") ++ KeptApart(group, retained)
                 ELSE Joined(group, "other_taxes")
  PROVE  /\ DOMAIN t \subseteq {"TotOtrosImp", "TotOpIVARetTotal", "TotIVARetTotal"}
         /\ "TotOtrosImp" \in DOMAIN t
         /\ t.TotOtrosImp = [c \in CodesOf(taxes) |-> AmountOf(taxes, c)]
         /\ Printed(t, "TotOpIVARetTotal") = (IF compra THEN 0 ELSE Size(retained))
         /\ Printed(t, "TotIVARetTotal") =
              (IF compra THEN 0 ELSE Total(retained, "retained_total_vat"))
<1>0. PICK others, size, amount :
        /\ others = [c \in CodesOf(taxes) |-> AmountOf(taxes, c)]
        /\ size = Size(retained) /\ amount = Total(retained, "retained_total_vat")
  OBVIOUS
<1> DEFINE told == DOMAIN retained # {} /\ ~compra
<1>1. t = [TotOtrosImp |-> others] ++ Field(told, "TotOpIVARetTotal", size)
           ++ Field(told, "TotIVARetTotal", amount)
  BY <1>0 DEF RetainedTotals, KeptApart
<1>2. DOMAIN retained = {} => size = 0 /\ amount = 0
  BY <1>0, EmptyTotal
<1>3. told \in BOOLEAN /\ (told <=> DOMAIN retained # {} /\ ~compra)
  OBVIOUS
<1> HIDE DEF told
<1>4. /\ DOMAIN t \subseteq {"TotOtrosImp", "TotOpIVARetTotal", "TotIVARetTotal"}
      /\ "TotOtrosImp" \in DOMAIN t /\ t.TotOtrosImp = others
      /\ Printed(t, "TotOpIVARetTotal") = (IF told THEN size ELSE 0)
      /\ Printed(t, "TotIVARetTotal") = (IF told THEN amount ELSE 0)
  BY <1>1 DEF ++, Field, Printed
<1>5. /\ Printed(t, "TotOpIVARetTotal") = (IF compra THEN 0 ELSE size)
      /\ Printed(t, "TotIVARetTotal") = (IF compra THEN 0 ELSE amount)
  BY <1>2, <1>3, <1>4
<1> QED
  BY <1>0, <1>4, <1>5

LEMMA CommissionSays ==
  ASSUME NEW group, NEW t, t = CommissionTotals(group),
         NEW net, net = Total(group, "commission_net"),
         NEW exempt, exempt = Total(group, "commission_exempt"),
         NEW vat, vat = Total(group, "commission_vat")
  PROVE  /\ DOMAIN t = IF net # 0 \/ exempt # 0 \/ vat # 0 THEN {"TotLiquidaciones"} ELSE {}
         /\ net # 0 \/ exempt # 0 \/ vat # 0 =>
              t.TotLiquidaciones = [ValComNeto |-> net, ValComExe |-> exempt, ValComIVA |-> vat]
<1>1. t = Field(net # 0 \/ exempt # 0 \/ vat # 0, "TotLiquidaciones",
                [ValComNeto |-> net, ValComExe |-> exempt, ValComIVA |-> vat])
  BY DEF CommissionTotals
<1> QED
  BY <1>1 DEF Field

(* What the totals of a type say, by the totals of its parts.              *)
TotalsOf(t, group, compra, retained, common, commissions) ==
  /\ t.TotDoc = Size(group)
  /\ t.TotMntExe = Total(group, "exempt_amount") /\ t.TotMntNeto = Total(group, "net_amount")
  /\ t.TotMntIVA = Total(group, "vat_amount") /\ t.TotMntTotal = Total(group, "total_amount")
  /\ Printed(t, "TotAnulado") = Size(Having(group, "voided", TRUE))
  /\ Printed(t, "TotMntPeriodo") =
       (IF compra THEN 0 ELSE Total(group, "total_amount") + Total(group, "non_billable_amount"))
  /\ Printed(t, "TotMntNoFact") = (IF compra THEN 0 ELSE Total(group, "non_billable_amount"))
  /\ Printed(t, "TotOpIVAUsoComun") = (IF compra THEN Printed(common, "TotOpIVAUsoComun") ELSE 0)
  /\ Printed(t, "TotIVAUsoComun") = (IF compra THEN Printed(common, "TotIVAUsoComun") ELSE 0)
  /\ Printed(t, "TotOpIVARetTotal") = Printed(retained, "TotOpIVARetTotal")
  /\ Printed(t, "TotIVARetTotal") = Printed(retained, "TotIVARetTotal")
  /\ t.TotOtrosImp = retained.TotOtrosImp
  /\ compra => t.TotIVANoRec = NonRecoverableTotals(group)
  /\ "TotLiquidaciones" \in DOMAIN t <=> ~compra /\ "TotLiquidaciones" \in DOMAIN commissions
  /\ "TotLiquidaciones" \in DOMAIN t => t.TotLiquidaciones = commissions.TotLiquidaciones

LEMMA TotalsSay ==
  ASSUME NEW group, NEW compra \in BOOLEAN, NEW factor, NEW t, t = PeriodTotals(group, compra, factor),
         NEW retained, retained = RetainedTotals(group, compra),
         NEW common, common = CommonUseTotals(group, factor),
         NEW commissions, commissions = CommissionTotals(group)
  PROVE  TotalsOf(t, group, compra, retained, common, commissions)
<1>1. PICK nonBillable, total, exempt, net, vat, size, voided, nonrec, recoverable :
        /\ nonBillable = Total(group, "non_billable_amount")
        /\ total = Total(group, "total_amount") /\ exempt = Total(group, "exempt_amount")
        /\ net = Total(group, "net_amount") /\ vat = Total(group, "vat_amount")
        /\ size = Size(group) /\ voided = Size(Having(group, "voided", TRUE))
        /\ nonrec = NonRecoverableTotals(group)
        /\ recoverable = Cardinality({i \in DOMAIN group : HasRecoverableVat(group[i])})
  OBVIOUS
<1>2. PICK head : head = [TotDoc |-> size, TotMntTotal |-> total, TotMntExe |-> exempt,
                          TotMntNeto |-> net, TotMntIVA |-> vat]
  OBVIOUS
<1>3. PICK bought : bought = Field(recoverable # 0, "TotOpIVARec", recoverable)
                             ++ [TotIVANoRec |-> nonrec] ++ common
  OBVIOUS
<1>4. PICK sold : sold = commissions ++ Field(nonBillable # 0, "TotMntNoFact", nonBillable)
                         ++ [TotMntPeriodo |-> total + nonBillable]
  OBVIOUS
<1>5. t = head ++ Field(voided # 0, "TotAnulado", voided) ++ retained
            ++ IF compra THEN bought ELSE sold
  BY <1>1, <1>2, <1>3, <1>4 DEF PeriodTotals, Count
<1>6. /\ DOMAIN retained \subseteq {"TotOtrosImp", "TotOpIVARetTotal", "TotIVARetTotal"}
      /\ "TotOtrosImp" \in DOMAIN retained
      /\ DOMAIN common \subseteq {"TotOpIVAUsoComun", "TotIVAUsoComun", "TotCredIVAUsoComun"}
      /\ DOMAIN commissions \subseteq {"TotLiquidaciones"}
  BY <1>1, RetainedSays, CommonUseSays, CommissionSays
<1>7. /\ DOMAIN head = {"TotDoc", "TotMntTotal", "TotMntExe", "TotMntNeto", "TotMntIVA"}
      /\ head.TotDoc = size /\ head.TotMntTotal = total /\ head.TotMntExe = exempt
      /\ head.TotMntNeto = net /\ head.TotMntIVA = vat
  BY <1>2
<1>8. PICK first : first = head ++ Field(voided # 0, "TotAnulado", voided) ++ retained
  OBVIOUS
<1>9. /\ DOMAIN first \subseteq (DOMAIN head) \cup {"TotAnulado", "TotOtrosImp", "TotOpIVARetTotal",
                                                 "TotIVARetTotal"}
      /\ (DOMAIN head) \cup {"TotOtrosImp"} \subseteq DOMAIN first
      /\ \A x \in DOMAIN head : first[x] = head[x]
      /\ Printed(first, "TotAnulado") = voided
      /\ first.TotOtrosImp = retained.TotOtrosImp
      /\ Printed(first, "TotOpIVARetTotal") = Printed(retained, "TotOpIVARetTotal")
      /\ Printed(first, "TotIVARetTotal") = Printed(retained, "TotIVARetTotal")
  BY <1>6, <1>7, <1>8 DEF ++, Field, Printed
<1>10. /\ DOMAIN bought \subseteq {"TotOpIVARec", "TotIVANoRec", "TotOpIVAUsoComun", "TotIVAUsoComun",
                                   "TotCredIVAUsoComun"}
       /\ "TotIVANoRec" \in DOMAIN bought /\ bought.TotIVANoRec = nonrec
       /\ Printed(bought, "TotOpIVAUsoComun") = Printed(common, "TotOpIVAUsoComun")
       /\ Printed(bought, "TotIVAUsoComun") = Printed(common, "TotIVAUsoComun")
  BY <1>3, <1>6 DEF ++, Field, Printed
<1>11. /\ DOMAIN sold \subseteq {"TotLiquidaciones", "TotMntNoFact", "TotMntPeriodo"}
       /\ Printed(sold, "TotMntPeriodo") = total + nonBillable
       /\ Printed(sold, "TotMntNoFact") = nonBillable
       /\ "TotLiquidaciones" \in DOMAIN sold <=> "TotLiquidaciones" \in DOMAIN commissions
       /\ "TotLiquidaciones" \in DOMAIN commissions =>
            sold.TotLiquidaciones = commissions.TotLiquidaciones
  BY <1>4, <1>6 DEF ++, Field, Printed
<1>12. t = first ++ IF compra THEN bought ELSE sold
  BY <1>5, <1>8
<1>13. /\ \A x \in DOMAIN head : t[x] = head[x]
       /\ Printed(t, "TotAnulado") = voided
       /\ t.TotOtrosImp = retained.TotOtrosImp
       /\ Printed(t, "TotOpIVARetTotal") = Printed(retained, "TotOpIVARetTotal")
       /\ Printed(t, "TotIVARetTotal") = Printed(retained, "TotIVARetTotal")
  BY <1>6, <1>7, <1>9, <1>10, <1>11, <1>12 DEF ++, Printed
<1>14. CASE compra
  <2>1. t = first ++ bought
    BY <1>12, <1>14
  <2>2. /\ Printed(t, "TotMntPeriodo") = 0 /\ Printed(t, "TotMntNoFact") = 0
        /\ Printed(t, "TotOpIVAUsoComun") = Printed(common, "TotOpIVAUsoComun")
        /\ Printed(t, "TotIVAUsoComun") = Printed(common, "TotIVAUsoComun")
        /\ t.TotIVANoRec = nonrec /\ "TotLiquidaciones" \notin DOMAIN t
    BY <1>7, <1>9, <1>10, <2>1 DEF ++, Printed
  <2> QED
    BY <1>1, <1>7, <1>13, <1>14, <2>2 DEF TotalsOf
<1>15. CASE ~compra
  <2>1. t = first ++ sold
    BY <1>12, <1>15
  <2>2. /\ Printed(t, "TotMntPeriodo") = total + nonBillable
        /\ Printed(t, "TotMntNoFact") = nonBillable
        /\ Printed(t, "TotOpIVAUsoComun") = 0 /\ Printed(t, "TotIVAUsoComun") = 0
        /\ "TotLiquidaciones" \in DOMAIN t <=> "TotLiquidaciones" \in DOMAIN commissions
        /\ "TotLiquidaciones" \in DOMAIN t => t.TotLiquidaciones = commissions.TotLiquidaciones
    BY <1>7, <1>9, <1>11, <2>1 DEF ++, Printed
  <2> QED
    BY <1>1, <1>7, <1>13, <1>15, <2>2 DEF TotalsOf
<1> QED
  BY <1>14, <1>15

LEMMA JoinedIsFinite ==
  ASSUME NEW P, IsFiniteSet(P), NEW group, DOMAIN group = P, NEW f,
         \A i \in P : \E n \in Nat : DOMAIN group[i][f] = 1..n
  PROVE  IsFiniteSet(DOMAIN Joined(group, f))
<1> DEFINE places(i) == {i} \X DOMAIN group[i][f]
           all == {places(i) : i \in P}
           F == [i \in P |-> places(i)]
<1>1. ASSUME NEW i \in P PROVE IsFiniteSet(places(i))
  <2>1. PICK n \in Nat : DOMAIN group[i][f] = 1..n
    OBVIOUS
  <2>2. IsFiniteSet({i}) /\ IsFiniteSet(DOMAIN group[i][f])
    <3>1. IsFiniteSet(1..n)
      BY FS_Interval
    <3>2. IsFiniteSet({i})
      BY FS_Singleton
    <3> QED
      BY <2>1, <3>1, <3>2
  <2> QED
    BY <2>2, FS_Product
<1>2. IsFiniteSet(all)
  <2>1. F \in Surjection(P, all)
    <3> HIDE DEF places
    <3> QED
      BY DEF Surjection
  <2> HIDE DEF F, all
  <2> QED
    BY <2>1, FS_Surjection
<1>3. IsFiniteSet(UNION all)
  <2>1. \A T \in all : IsFiniteSet(T)
    <3> HIDE DEF places
    <3> QED
      BY <1>1
  <2> HIDE DEF all
  <2> QED
    BY <1>2, <2>1, FS_UNION
<1>4. DOMAIN Joined(group, f) = UNION all
  BY DEF Joined
<1> QED
  BY <1>3, <1>4

SameTaxes(e, a) ==
  /\ CodesOf(e) = CodesOf(a)
  /\ \A c \in CodesOf(a) : AmountOf(e, c) = AmountOf(a, c)

(* Entries that correspond one to one have the same codes and amounts.     *)
LEMMA SameEntries ==
  ASSUME NEW D, IsFiniteSet(D), NEW a, DOMAIN a = D, NEW e, NEW b \in Bijection(D, DOMAIN e),
         \A p \in D : a[p] \in BookTax /\ e[b[p]] = a[p]
  PROVE  SameTaxes(e, a)
<1>1. /\ \A p, q \in D : b[p] = b[q] => p = q
      /\ \A p \in D : b[p] \in DOMAIN e
      /\ \A q \in DOMAIN e : \E p \in D : b[p] = q
  BY DEF Bijection, Injection, Surjection, IsInjective
<1>2. CodesOf(e) = CodesOf(a)
  BY <1>1 DEF CodesOf
<1>3. ASSUME NEW c PROVE AmountOf(e, c) = AmountOf(a, c)
  <2> DEFINE A == {p \in D : a[p].code = c}
             E == {q \in DOMAIN e : e[q].code = c}
             f == [p \in A |-> a[p].amount]
             g == [q \in E |-> e[q].amount]
             m == [p \in A |-> b[p]]
  <2>1. /\ m \in [A -> E]
        /\ \A p, q \in A : m[p] = m[q] => p = q
        /\ \A q \in E : \E p \in A : m[p] = q
    BY <1>1
  <2>2. (\A p \in A : f[p] \in Int) /\ \A p \in A : g[m[p]] = f[p]
    <3>1. ASSUME NEW p \in A PROVE f[p] \in Int /\ g[m[p]] = f[p]
      BY <2>1 DEF BookTax
    <3> QED
      BY <3>1
  <2>3. IsFiniteSet(A)
    BY FS_Subset
  <2>4. DOMAIN f = A /\ DOMAIN g = E
    OBVIOUS
  <2>5. Total(Having(a, "code", c), "amount") = SumFunction(f)
    <3>1. DOMAIN Having(a, "code", c) = A /\ \A p \in A : Having(a, "code", c)[p] = a[p]
      BY DEF Having, Restrict
    <3>2. [i \in DOMAIN Having(a, "code", c) |-> Having(a, "code", c)[i]["amount"]] = f
      BY <3>1
    <3> HIDE DEF f
    <3> QED
      BY <3>2 DEF Total
  <2>6. Total(Having(e, "code", c), "amount") = SumFunction(g)
    <3>1. DOMAIN Having(e, "code", c) = E /\ \A p \in E : Having(e, "code", c)[p] = e[p]
      BY DEF Having, Restrict
    <3>2. [i \in DOMAIN Having(e, "code", c) |-> Having(e, "code", c)[i]["amount"]] = g
      BY <3>1
    <3> HIDE DEF g
    <3> QED
      BY <3>2 DEF Total
  <2> HIDE DEF A, E, f, g, m
  <2>7. m \in Bijection(A, E)
    BY <2>1 DEF Bijection, Injection, Surjection, IsInjective
  <2>8. SumFunctionOnSet(f, A) = SumFunctionOnSet(g, E)
    BY <2>2, <2>3, <2>7, SumsMatch
  <2> QED
    BY <2>4, <2>5, <2>6, <2>8 DEF SumFunction, AmountOf
<1> QED
  BY <1>2, <1>3 DEF SameTaxes

(* A retention is the last of the other taxes of its line in the detail of *)
(* a purchase, and one more entry apart in the summary.                    *)
LEMMA OtherTaxesMatch ==
  ASSUME NEW P, IsFiniteSet(P), NEW group, DOMAIN group = P, \A i \in P : IsLine(group[i]),
         NEW mine, DOMAIN mine = P,
         \A i \in P : mine[i]["OtrosImp"] = group[i].other_taxes \o Kept(group[i]),
         NEW taxes,
         taxes = Joined(group, "other_taxes") ++ KeptApart(group, NonZero(group, "retained_total_vat")),
         NEW entries, entries = Joined(mine, "OtrosImp")
  PROVE  SameTaxes(entries, taxes)
<1> DEFINE K == {i \in P : group[i].retained_total_vat # 0}
           n(i) == Len(group[i].other_taxes)
           entry(i) == [code |-> group[i].retained_vat_code, amount |-> group[i].retained_total_vat]
           kept == [p \in K \X {0} |-> entry(p[1])]
           joined == Joined(group, "other_taxes")
           D == {p \in P \X Nat : p[2] \in 1..n(p[1])} \cup (K \X {0})
           E == {p \in P \X Nat : \/ p[2] \in 1..n(p[1])
                                  \/ p[1] \in K /\ p[2] = n(p[1]) + 1}
           b == [p \in D |-> IF p[2] = 0 THEN <<p[1], n(p[1]) + 1>> ELSE p]
<1>0. DOMAIN NonZero(group, "retained_total_vat") = K /\ taxes = joined ++ kept
  BY DEF NonZero, Restrict, KeptApart
<1>1. ASSUME NEW i \in P
      PROVE  /\ group[i].other_taxes \in Seq(BookTax) /\ n(i) \in Nat
             /\ DOMAIN group[i].other_taxes = 1..n(i)
             /\ group[i].retained_total_vat \in Int /\ entry(i) \in BookTax
  BY DEF IsLine, MoneyFields, BookTax
<1>2. ASSUME NEW i \in P
      PROVE  /\ DOMAIN mine[i]["OtrosImp"] = IF i \in K THEN 1..(n(i) + 1) ELSE 1..n(i)
             /\ \A k \in 1..n(i) : mine[i]["OtrosImp"][k] = group[i].other_taxes[k]
             /\ i \in K => mine[i]["OtrosImp"][n(i) + 1] = entry(i)
  <2>1. CASE i \in K
    <3>1. mine[i]["OtrosImp"] = group[i].other_taxes \o <<entry(i)>>
      BY <2>1 DEF Kept
    <3> QED
      BY <1>1, <2>1, <3>1
  <2>2. CASE i \notin K
    <3>1. mine[i]["OtrosImp"] = group[i].other_taxes \o <<>>
      BY <2>2 DEF Kept
    <3>2. group[i].other_taxes \o <<>> = group[i].other_taxes
      BY <1>1
    <3> QED
      BY <1>1, <2>2, <3>1, <3>2
  <2> QED
    BY <2>1, <2>2
<1> HIDE DEF n, entry
<1>3. /\ DOMAIN joined = {p \in P \X Nat : p[2] \in 1..n(p[1])}
      /\ \A p \in DOMAIN joined : joined[p] = group[p[1]].other_taxes[p[2]]
  BY <1>1 DEF Joined
<1>4. DOMAIN taxes = D /\ DOMAIN kept = K \X {0}
  BY <1>0, <1>3 DEF ++
<1>5. /\ DOMAIN entries = E
      /\ \A p \in E : entries[p] = mine[p[1]]["OtrosImp"][p[2]]
  BY <1>1, <1>2 DEF Joined
<1>6. ASSUME NEW p \in D
      PROVE  /\ taxes[p] \in BookTax
             /\ b[p] \in E /\ entries[b[p]] = taxes[p]
  <2>1. CASE p \in DOMAIN joined
    <3>1. p[1] \in P /\ p[2] \in 1..n(p[1]) /\ p = <<p[1], p[2]>>
      BY <1>3, <2>1
    <3>2. taxes[p] = group[p[1]].other_taxes[p[2]]
      BY <1>0, <1>3, <2>1 DEF ++
    <3>3. b[p] = p /\ p \in E
      BY <1>1, <3>1
    <3> QED
      BY <1>1, <1>2, <1>5, <3>1, <3>2, <3>3
  <2>2. CASE p \notin DOMAIN joined
    <3>1. p[1] \in K /\ p[2] = 0 /\ p \in DOMAIN kept
      BY <1>3, <1>4, <2>2
    <3>2. taxes[p] = entry(p[1])
      BY <1>0, <1>4, <2>2, <3>1 DEF ++
    <3>3. b[p] = <<p[1], n(p[1]) + 1>> /\ b[p] \in E
      BY <1>1, <3>1
    <3>4. p[1] \in P /\ mine[p[1]]["OtrosImp"][n(p[1]) + 1] = entry(p[1]) /\ entry(p[1]) \in BookTax
      BY <1>1, <1>2, <3>1
    <3>5. entries[b[p]] = mine[b[p][1]]["OtrosImp"][b[p][2]]
      BY <1>5, <3>3
    <3> HIDE DEF b, E
    <3> QED
      BY <3>2, <3>3, <3>4, <3>5
  <2> QED
    BY <2>1, <2>2
<1>7. ASSUME NEW p \in D, NEW q \in D, b[p] = b[q] PROVE p = q
  BY <1>1, <1>7
<1>8. ASSUME NEW q \in E PROVE \E p \in D : b[p] = q
  <2>1. CASE q[2] \in 1..n(q[1])
    BY <2>1
  <2>2. CASE q[2] \notin 1..n(q[1])
    <3>1. <<q[1], 0>> \in D /\ b[<<q[1], 0>>] = q
      BY <1>1, <2>2
    <3> QED
      BY <3>1
  <2> QED
    BY <2>1, <2>2
<1>9. IsFiniteSet(D)
  <2>1. \A i \in P : \E m \in Nat : DOMAIN group[i]["other_taxes"] = 1..m
    BY <1>1
  <2>2. IsFiniteSet(DOMAIN joined)
    <3> HIDE DEF joined
    <3> QED
      BY <2>1, JoinedIsFinite DEF joined
  <2>3. IsFiniteSet(K \X {0})
    BY FS_Subset, FS_Singleton, FS_Product
  <2> QED
    BY <1>3, <2>2, <2>3, FS_Union
<1> HIDE DEF D, E, b
<1>10. b \in Bijection(D, DOMAIN entries)
  <2>1. b \in [D -> E]
    BY <1>6 DEF b
  <2> QED
    BY <1>5, <1>7, <1>8, <2>1 DEF Bijection, Injection, Surjection, IsInjective
<1>11. \A p \in D : taxes[p] \in BookTax /\ entries[b[p]] = taxes[p]
  BY <1>6
<1> QED
  BY <1>4, <1>9, <1>10, <1>11, SameEntries

(* What is added up of the lines that have some of it is added up of all.  *)
LEMMA NonZeroTotal ==
  ASSUME NEW P, IsFiniteSet(P), NEW group, DOMAIN group = P, NEW f,
         \A i \in P : group[i][f] \in Int
  PROVE  /\ Total(NonZero(group, f), f) = Total(group, f)
         /\ Total(group, f) \in Int
<1> DEFINE g == [i \in P |-> group[i][f]]
           K == {i \in P : group[i][f] # 0}
<1>1. g \in [P -> Int] /\ K \in SUBSET P /\ \A i \in P \ K : g[i] = 0
  OBVIOUS
<1>2. Total(group, f) = SumFunction(g)
  BY DEF Total
<1>3. [i \in DOMAIN NonZero(group, f) |-> NonZero(group, f)[i][f]] = [i \in K |-> g[i]]
  BY DEF NonZero, Restrict
<1> HIDE DEF g, K
<1>4. SumFunction(g) = SumFunction([i \in K |-> g[i]])
  BY <1>1, SumOfTerms
<1>5. SumFunction(g) \in Int
  <2>1. DOMAIN g = P /\ \A i \in P : g[i] \in Int
    BY <1>1
  <2>2. SumFunctionOnSet(g, P) \in Int
    BY <2>1, SumRemove
  <2> QED
    BY <2>1, <2>2 DEF SumFunction
<1> QED
  BY <1>2, <1>3, <1>4, <1>5 DEF Total

LEMMA SumsAreTotals ==
  ASSUME NEW group, NEW mine, DOMAIN mine = DOMAIN group, NEW f, NEW g,
         \A i \in DOMAIN group : Printed(mine[i], f) = group[i][g]
  PROVE  Sums(mine, f) = Total(group, g)
<1>1. [i \in DOMAIN mine |-> Printed(mine[i], f)] = [i \in DOMAIN group |-> group[i][g]]
  OBVIOUS
<1> QED
  BY <1>1 DEF Sums, Total

LEMMA SumsOfNone ==
  ASSUME NEW mine, IsFiniteSet(DOMAIN mine), NEW f, \A i \in DOMAIN mine : Printed(mine[i], f) = 0
  PROVE  Sums(mine, f) = 0
<1>1. [i \in DOMAIN mine |-> Printed(mine[i], f)] = [i \in DOMAIN mine |-> 0]
  OBVIOUS
<1>2. SumFunction([i \in DOMAIN mine |-> 0]) = 0
  BY SumOfNothing
<1> QED
  BY <1>1, <1>2 DEF Sums

(* The net, exempt or tax part of the commissions.                         *)
CommissionSum(earned, f) == SumFunction([i \in DOMAIN earned |-> earned[i].Liquidaciones[f]])
CommissionsIn(mine, group, f, g) ==
  \A i \in DOMAIN group :
    /\ group[i][g] \in Int
    /\ "Liquidaciones" \in DOMAIN mine[i] => mine[i].Liquidaciones[f] = group[i][g]
    /\ "Liquidaciones" \notin DOMAIN mine[i] => group[i][g] = 0

LEMMA CommissionsMatch ==
  ASSUME NEW P, IsFiniteSet(P), NEW group, DOMAIN group = P, NEW mine, DOMAIN mine = P,
         NEW f, NEW g, CommissionsIn(mine, group, f, g),
         NEW earned, earned = Restrict(mine, {i \in DOMAIN mine : "Liquidaciones" \in DOMAIN mine[i]})
  PROVE  CommissionSum(earned, f) = Total(group, g)
<1> DEFINE K == {i \in P : "Liquidaciones" \in DOMAIN mine[i]}
           h == [i \in P |-> group[i][g]]
<1>1. h \in [P -> Int] /\ K \in SUBSET P /\ \A i \in P \ K : h[i] = 0
  BY DEF CommissionsIn
<1>2. [i \in DOMAIN earned |-> earned[i].Liquidaciones[f]] = [i \in K |-> h[i]]
  BY DEF Restrict, CommissionsIn
<1>3. Total(group, g) = SumFunction(h)
  BY DEF Total
<1> HIDE DEF h, K
<1>4. SumFunction(h) = SumFunction([i \in K |-> h[i]])
  BY <1>1, SumOfTerms
<1> QED
  BY <1>2, <1>3, <1>4 DEF CommissionSum

(* The summary of the documents of a type is the sum of their details.     *)
LEMMA DetailAddsUp ==
  ASSUME NEW P, IsFiniteSet(P), NEW group, DOMAIN group = P, \A i \in P : IsLine(group[i]),
         NEW compra \in BOOLEAN, NEW factor, NEW mine, DOMAIN mine = P,
         \A i \in P : mine[i] = Detail(group[i], compra), mine = [i \in P |-> mine[i]]
  PROVE  SummaryIsSum(PeriodTotals(group, compra, factor), mine)
<1> DEFINE with(f) == Restrict(mine, {i \in DOMAIN mine : f \in DOMAIN mine[i]})
<1>0. PICK t : t = PeriodTotals(group, compra, factor)
  OBVIOUS
<1>a. PICK retained, common, commissions :
        /\ retained = RetainedTotals(group, compra) /\ common = CommonUseTotals(group, factor)
        /\ commissions = CommissionTotals(group)
  OBVIOUS
<1>b. TotalsOf(t, group, compra, retained, common, commissions)
  BY <1>0, <1>a, TotalsSay
<1>c. /\ Printed(common, "TotOpIVAUsoComun") = Size(NonZero(group, "common_use_vat"))
      /\ Printed(common, "TotIVAUsoComun") = Total(NonZero(group, "common_use_vat"), "common_use_vat")
  BY <1>a, CommonUseSays
<1>e. PICK nonzero, taxes :
        /\ nonzero = NonZero(group, "retained_total_vat")
        /\ taxes = IF compra THEN Joined(group, "other_taxes") ++ KeptApart(group, nonzero)
                   ELSE Joined(group, "other_taxes")
  OBVIOUS
<1>d. /\ Printed(retained, "TotOpIVARetTotal") =
           (IF compra THEN 0 ELSE Size(NonZero(group, "retained_total_vat")))
      /\ Printed(retained, "TotIVARetTotal") =
           (IF compra THEN 0 ELSE Total(NonZero(group, "retained_total_vat"), "retained_total_vat"))
  BY <1>a, <1>e, RetainedSays
<1>f. t.TotOtrosImp = [c \in CodesOf(taxes) |-> AmountOf(taxes, c)]
  <2>1. retained.TotOtrosImp = [c \in CodesOf(taxes) |-> AmountOf(taxes, c)]
    BY <1>a, <1>e, RetainedSays
  <2> QED
    BY <1>b, <2>1 DEF TotalsOf
<1>1. ASSUME NEW i \in P
      PROVE  /\ mine[i].Anulado = group[i].voided
             /\ Printed(mine[i], "MntExe") = group[i]["exempt_amount"]
             /\ Printed(mine[i], "MntNeto") = group[i]["net_amount"]
             /\ Printed(mine[i], "MntIVA") = group[i]["vat_amount"]
             /\ Printed(mine[i], "MntTotal") = group[i]["total_amount"]
             /\ Printed(mine[i], "MntPeriodo") =
                  (IF compra THEN 0 ELSE group[i]["total_amount"] + group[i]["non_billable_amount"])
             /\ Printed(mine[i], "MntNoFact") = (IF compra THEN 0 ELSE group[i]["non_billable_amount"])
             /\ Printed(mine[i], "IVAUsoComun") = (IF compra THEN group[i]["common_use_vat"] ELSE 0)
             /\ Printed(mine[i], "IVARetTotal") = (IF compra THEN 0 ELSE group[i]["retained_total_vat"])
  <2>1. PICK l, d : l = group[i] /\ d = mine[i]
    OBVIOUS
  <2>2. IsLine(l) /\ d = Detail(l, compra)
    BY <2>1
  <2>3. /\ d.Anulado = l.voided
        /\ Printed(d, "MntExe") = l.exempt_amount /\ Printed(d, "MntNeto") = l.net_amount
        /\ Printed(d, "MntIVA") = l.vat_amount /\ Printed(d, "MntTotal") = l.total_amount
        /\ Printed(d, "MntPeriodo") = (IF compra THEN 0 ELSE l.total_amount + l.non_billable_amount)
        /\ Printed(d, "MntNoFact") = (IF compra THEN 0 ELSE l.non_billable_amount)
        /\ Printed(d, "IVAUsoComun") = (IF compra THEN l.common_use_vat ELSE 0)
        /\ Printed(d, "IVARetTotal") = (IF compra THEN 0 ELSE l.retained_total_vat)
    <3>1. SaysLine(d, l, compra)
      BY <2>2, DetailSays
    <3> QED
      BY <3>1 DEF SaysLine
  <2> QED
    BY <2>1, <2>3
<1>2. ASSUME NEW i \in P
      PROVE  /\ "OtrosImp" \in DOMAIN mine[i]
             /\ ~compra => mine[i].OtrosImp = group[i].other_taxes
             /\ compra => mine[i].OtrosImp = group[i].other_taxes \o Kept(group[i])
             /\ "IVANoRec" \in DOMAIN mine[i] <=> compra
             /\ compra => mine[i].IVANoRec = group[i].non_recoverable_vat
  <2>1. PICK l, d : l = group[i] /\ d = mine[i]
    OBVIOUS
  <2>2. IsLine(l) /\ d = Detail(l, compra)
    BY <2>1
  <2>3. /\ "OtrosImp" \in DOMAIN d
        /\ ~compra => d.OtrosImp = l.other_taxes
        /\ compra => d.OtrosImp = l.other_taxes \o Kept(l)
        /\ "IVANoRec" \in DOMAIN d <=> compra
        /\ compra => d.IVANoRec = l.non_recoverable_vat
    <3>1. SaysLine(d, l, compra)
      BY <2>2, DetailSays
    <3> QED
      BY <3>1 DEF SaysLine
  <2> QED
    BY <2>1, <2>3
<1>3. ASSUME NEW i \in P
      PROVE  /\ "Liquidaciones" \in DOMAIN mine[i] =>
                  /\ ~compra
                  /\ mine[i].Liquidaciones["ValComNeto"] = group[i]["commission_net"]
                  /\ mine[i].Liquidaciones["ValComExe"] = group[i]["commission_exempt"]
                  /\ mine[i].Liquidaciones["ValComIVA"] = group[i]["commission_vat"]
             /\ "Liquidaciones" \notin DOMAIN mine[i] =>
                  compra \/ /\ group[i]["commission_net"] = 0 /\ group[i]["commission_exempt"] = 0
                            /\ group[i]["commission_vat"] = 0
  <2>1. /\ "Liquidaciones" \in DOMAIN mine[i] <=>
             ~compra /\ (group[i].commission_net # 0 \/ group[i].commission_exempt # 0
                         \/ group[i].commission_vat # 0)
        /\ "Liquidaciones" \in DOMAIN mine[i] =>
             mine[i].Liquidaciones = [ValComNeto |-> group[i].commission_net,
                                      ValComExe |-> group[i].commission_exempt,
                                      ValComIVA |-> group[i].commission_vat]
    <3>1. PICK l, d : l = group[i] /\ d = mine[i]
      OBVIOUS
    <3>2. IsLine(l) /\ d = Detail(l, compra)
      BY <3>1
    <3>3. /\ "Liquidaciones" \in DOMAIN d <=>
               ~compra /\ (l.commission_net # 0 \/ l.commission_exempt # 0 \/ l.commission_vat # 0)
          /\ "Liquidaciones" \in DOMAIN d =>
               d.Liquidaciones = [ValComNeto |-> l.commission_net,
                                  ValComExe |-> l.commission_exempt, ValComIVA |-> l.commission_vat]
      <4>1. SaysLine(d, l, compra)
        BY <3>2, DetailSays
      <4> QED
        BY <4>1 DEF SaysLine
    <3> QED
      BY <3>1, <3>3
  <2> QED
    BY <2>1
<1>4. \A i \in P : \A f \in MoneyFields : group[i][f] \in Int
  BY DEF IsLine
<1>5. /\ t.TotDoc = Size(mine)
      /\ Printed(t, "TotAnulado") = Size(Having(mine, "Anulado", TRUE))
  <2>1. {i \in DOMAIN mine : mine[i]["Anulado"] = TRUE} = {i \in DOMAIN group : group[i]["voided"] = TRUE}
    BY <1>1
  <2>2. Size(Having(mine, "Anulado", TRUE)) = Size(Having(group, "voided", TRUE))
    BY <2>1 DEF Size, Having, Restrict
  <2>3. Size(mine) = Size(group)
    BY DEF Size
  <2> QED
    BY <1>b, <2>2, <2>3 DEF TotalsOf
<1>6. /\ t.TotMntExe = Sums(mine, "MntExe") /\ t.TotMntNeto = Sums(mine, "MntNeto")
      /\ t.TotMntIVA = Sums(mine, "MntIVA") /\ t.TotMntTotal = Sums(mine, "MntTotal")
  <2>1. /\ Sums(mine, "MntExe") = Total(group, "exempt_amount")
        /\ Sums(mine, "MntNeto") = Total(group, "net_amount")
        /\ Sums(mine, "MntIVA") = Total(group, "vat_amount")
        /\ Sums(mine, "MntTotal") = Total(group, "total_amount")
    BY <1>1, SumsAreTotals
  <2> QED
    BY <1>b, <2>1 DEF TotalsOf
<1>7. /\ Printed(t, "TotMntPeriodo") = Sums(mine, "MntPeriodo")
      /\ Printed(t, "TotMntNoFact") = Sums(mine, "MntNoFact")
  <2>1. CASE compra
    <3>1. Sums(mine, "MntPeriodo") = 0 /\ Sums(mine, "MntNoFact") = 0
      BY <1>1, <2>1, SumsOfNone
    <3> QED
      BY <1>b, <2>1, <3>1 DEF TotalsOf
  <2>2. CASE ~compra
    <3> DEFINE f == [i \in P |-> group[i]["total_amount"]]
               g == [i \in P |-> group[i]["non_billable_amount"]]
    <3>1. f \in [P -> Int] /\ g \in [P -> Int]
      BY <1>4 DEF MoneyFields
    <3>2. [i \in DOMAIN mine |-> Printed(mine[i], "MntPeriodo")] = [i \in P |-> f[i] + g[i]]
      BY <1>1, <2>2
    <3>3. Total(group, "total_amount") = SumFunction(f) /\ Total(group, "non_billable_amount") = SumFunction(g)
      BY DEF Total
    <3> HIDE DEF f, g
    <3>4. Sums(mine, "MntPeriodo") = Total(group, "total_amount") + Total(group, "non_billable_amount")
      BY <3>1, <3>2, <3>3, SumsAdd DEF Sums
    <3>5. Sums(mine, "MntNoFact") = Total(group, "non_billable_amount")
      BY <1>1, <2>2, SumsAreTotals
    <3> QED
      BY <1>b, <2>2, <3>4, <3>5 DEF TotalsOf
  <2> QED
    BY <2>1, <2>2
<1>8. /\ Printed(t, "TotOpIVAUsoComun") = Count(mine, LAMBDA x : Printed(x, "IVAUsoComun") # 0)
      /\ Printed(t, "TotIVAUsoComun") = Sums(mine, "IVAUsoComun")
  <2>1. CASE compra
    <3>1. {i \in DOMAIN mine : Printed(mine[i], "IVAUsoComun") # 0} =
            {i \in DOMAIN group : group[i]["common_use_vat"] # 0}
      BY <1>1, <2>1
    <3>2. Count(mine, LAMBDA x : Printed(x, "IVAUsoComun") # 0) = Size(NonZero(group, "common_use_vat"))
      BY <3>1 DEF Count, Size, NonZero, Restrict
    <3>3. Sums(mine, "IVAUsoComun") = Total(group, "common_use_vat")
      BY <1>1, <2>1, SumsAreTotals
    <3>4. Total(NonZero(group, "common_use_vat"), "common_use_vat") = Total(group, "common_use_vat")
      BY <1>4, NonZeroTotal DEF MoneyFields
    <3>5. /\ Printed(t, "TotOpIVAUsoComun") = Size(NonZero(group, "common_use_vat"))
          /\ Printed(t, "TotIVAUsoComun") = Total(NonZero(group, "common_use_vat"), "common_use_vat")
      BY <1>b, <1>c, <2>1 DEF TotalsOf
    <3> QED
      BY <3>2, <3>3, <3>4, <3>5
  <2>2. CASE ~compra
    <3>1. {i \in DOMAIN mine : Printed(mine[i], "IVAUsoComun") # 0} = {}
      BY <1>1, <2>2
    <3>2. Count(mine, LAMBDA x : Printed(x, "IVAUsoComun") # 0) = 0
      BY <3>1, FS_EmptySet DEF Count
    <3>3. Sums(mine, "IVAUsoComun") = 0
      BY <1>1, <2>2, SumsOfNone
    <3> QED
      BY <1>b, <2>2, <3>2, <3>3 DEF TotalsOf
  <2> QED
    BY <2>1, <2>2
<1>9. /\ Printed(t, "TotOpIVARetTotal") = Count(mine, LAMBDA x : Printed(x, "IVARetTotal") # 0)
      /\ Printed(t, "TotIVARetTotal") = Sums(mine, "IVARetTotal")
  <2>1. CASE ~compra
    <3>1. {i \in DOMAIN mine : Printed(mine[i], "IVARetTotal") # 0} =
            {i \in DOMAIN group : group[i]["retained_total_vat"] # 0}
      BY <1>1, <2>1
    <3>2. Count(mine, LAMBDA x : Printed(x, "IVARetTotal") # 0) = Size(NonZero(group, "retained_total_vat"))
      BY <3>1 DEF Count, Size, NonZero, Restrict
    <3>3. Sums(mine, "IVARetTotal") = Total(group, "retained_total_vat")
      BY <1>1, <2>1, SumsAreTotals
    <3>4. Total(NonZero(group, "retained_total_vat"), "retained_total_vat") = Total(group, "retained_total_vat")
      BY <1>4, NonZeroTotal DEF MoneyFields
    <3>5. /\ Printed(t, "TotOpIVARetTotal") = Size(NonZero(group, "retained_total_vat"))
          /\ Printed(t, "TotIVARetTotal") = Total(NonZero(group, "retained_total_vat"), "retained_total_vat")
      BY <1>b, <1>d, <2>1 DEF TotalsOf
    <3> QED
      BY <3>2, <3>3, <3>4, <3>5
  <2>2. CASE compra
    <3>1. {i \in DOMAIN mine : Printed(mine[i], "IVARetTotal") # 0} = {}
      BY <1>1, <2>2
    <3>2. Count(mine, LAMBDA x : Printed(x, "IVARetTotal") # 0) = 0
      BY <3>1, FS_EmptySet DEF Count
    <3>3. Sums(mine, "IVARetTotal") = 0
      BY <1>1, <2>2, SumsOfNone
    <3>4. Printed(t, "TotOpIVARetTotal") = 0 /\ Printed(t, "TotIVARetTotal") = 0
      BY <1>b, <1>d, <2>2 DEF TotalsOf
    <3> QED
      BY <3>2, <3>3, <3>4
  <2> QED
    BY <2>1, <2>2
<1>10. /\ DOMAIN t.TotOtrosImp = CodesOf(Joined(with("OtrosImp"), "OtrosImp"))
       /\ \A c \in CodesOf(Joined(with("OtrosImp"), "OtrosImp")) :
            t.TotOtrosImp[c] = AmountOf(Joined(with("OtrosImp"), "OtrosImp"), c)
  <2>1. with("OtrosImp") = mine
    BY <1>2 DEF Restrict
  <2>3. CASE compra
    <3>1. PICK entries : entries = Joined(mine, "OtrosImp")
      OBVIOUS
    <3>2. \A i \in P : mine[i]["OtrosImp"] = group[i].other_taxes \o Kept(group[i])
      BY <1>2, <2>3
    <3>3. taxes = Joined(group, "other_taxes") ++ KeptApart(group, NonZero(group, "retained_total_vat"))
      BY <1>e, <2>3
    <3>4. SameTaxes(entries, taxes)
      BY <3>1, <3>2, <3>3, OtherTaxesMatch
    <3> HIDE DEF with
    <3> QED
      BY <1>f, <2>1, <3>1, <3>4 DEF SameTaxes
  <2>4. CASE ~compra
    <3>1. taxes = Joined(group, "other_taxes")
      BY <1>e, <2>4
    <3>2. Joined(mine, "OtrosImp") = Joined(group, "other_taxes")
      <4>1. \A i \in P : mine[i]["OtrosImp"] = group[i]["other_taxes"]
        BY <1>2, <2>4
      <4> QED
        BY <4>1 DEF Joined
    <3> HIDE DEF with
    <3> QED
      BY <1>f, <2>1, <3>1, <3>2
  <2> QED
    BY <2>3, <2>4
<1>11. \A c \in CodesOf(Joined(with("IVANoRec"), "IVANoRec")) :
         t.TotIVANoRec[c] = [count |-> Size(Having(Joined(with("IVANoRec"), "IVANoRec"), "code", c)),
                             amount |-> AmountOf(Joined(with("IVANoRec"), "IVANoRec"), c)]
  <2>1. CASE compra
    <3>1. with("IVANoRec") = mine
      BY <1>2, <2>1 DEF Restrict
    <3>2. Joined(mine, "IVANoRec") = Joined(group, "non_recoverable_vat")
      <4>1. \A i \in P : mine[i]["IVANoRec"] = group[i]["non_recoverable_vat"]
        BY <1>2, <2>1
      <4> QED
        BY <4>1 DEF Joined
    <3>3. t.TotIVANoRec = NonRecoverableTotals(group)
      BY <1>b, <2>1 DEF TotalsOf
    <3> HIDE DEF with
    <3> QED
      BY <3>1, <3>2, <3>3 DEF NonRecoverableTotals
  <2>2. CASE ~compra
    <3>1. DOMAIN with("IVANoRec") = {}
      BY <1>2, <2>2 DEF Restrict
    <3>2. CodesOf(Joined(with("IVANoRec"), "IVANoRec")) = {}
      BY <3>1 DEF Joined, CodesOf
    <3> QED
      BY <3>2
  <2> QED
    BY <2>1, <2>2
<1>12. ASSUME NEW f \in {"ValComNeto", "ValComExe", "ValComIVA"}
       PROVE  (IF "TotLiquidaciones" \in DOMAIN t THEN t.TotLiquidaciones[f] ELSE 0) =
                SumFunction([i \in DOMAIN with("Liquidaciones") |->
                               with("Liquidaciones")[i].Liquidaciones[f]])
  <2>1. CASE compra
    <3>1. DOMAIN with("Liquidaciones") = {}
      BY <1>3, <2>1 DEF Restrict
    <3>2. [i \in DOMAIN with("Liquidaciones") |-> with("Liquidaciones")[i].Liquidaciones[f]]
            = [i \in {} |-> 0]
      BY <3>1
    <3>3. SumFunction([i \in {} |-> 0]) = 0
      BY FS_EmptySet, SumOfNothing
    <3>4. "TotLiquidaciones" \notin DOMAIN t
      BY <1>b, <2>1 DEF TotalsOf
    <3> HIDE DEF with
    <3> QED
      BY <3>2, <3>3, <3>4
  <2>2. CASE ~compra
    <3>0. PICK earned : earned = with("Liquidaciones")
      OBVIOUS
    <3>1. earned = Restrict(mine, {i \in DOMAIN mine : "Liquidaciones" \in DOMAIN mine[i]})
      BY <3>0
    <3>2. PICK net, exempt, vat :
            /\ net = Total(group, "commission_net") /\ exempt = Total(group, "commission_exempt")
            /\ vat = Total(group, "commission_vat")
      OBVIOUS
    <3>3. /\ "TotLiquidaciones" \in DOMAIN t <=> net # 0 \/ exempt # 0 \/ vat # 0
          /\ "TotLiquidaciones" \in DOMAIN t =>
               t.TotLiquidaciones = [ValComNeto |-> net, ValComExe |-> exempt, ValComIVA |-> vat]
      BY <1>a, <1>b, <2>2, <3>2, CommissionSays DEF TotalsOf
    <3>4. (IF "TotLiquidaciones" \in DOMAIN t THEN t.TotLiquidaciones[f] ELSE 0) =
            IF f = "ValComNeto" THEN net ELSE IF f = "ValComExe" THEN exempt ELSE vat
      BY <3>3
    <3>5. ASSUME NEW g, g = IF f = "ValComNeto" THEN "commission_net"
                            ELSE IF f = "ValComExe" THEN "commission_exempt" ELSE "commission_vat"
          PROVE  CommissionSum(earned, f) = Total(group, g)
      <4>1. \A i \in P : group[i][g] \in Int
        BY <1>4, <3>5 DEF MoneyFields
      <4>2. \A i \in P :
              /\ "Liquidaciones" \in DOMAIN mine[i] => mine[i].Liquidaciones[f] = group[i][g]
              /\ "Liquidaciones" \notin DOMAIN mine[i] => group[i][g] = 0
        BY <1>3, <2>2, <3>5
      <4>3. CommissionsIn(mine, group, f, g)
        BY <4>1, <4>2 DEF CommissionsIn
      <4> QED
        BY <3>1, <4>3, CommissionsMatch
    <3>6. CommissionSum(earned, f) =
            IF f = "ValComNeto" THEN net ELSE IF f = "ValComExe" THEN exempt ELSE vat
      BY <3>2, <3>5
    <3> HIDE DEF with
    <3> QED
      BY <3>0, <3>4, <3>6 DEF CommissionSum
  <2> QED
    BY <2>1, <2>2
<1>13. SummaryIsSum(t, mine)
  BY <1>5, <1>6, <1>7, <1>8, <1>9, <1>10, <1>11, <1>12 DEF SummaryIsSum
<1> QED
  BY <1>0, <1>13

(* What a book declares of each type is what its details add up to, and a  *)
(* line that closes in its currency closes in pesos: book_service.py and   *)
(* book.py, for any lines, in purchases and in sales.                      *)
THEOREM BooksAddUp ==
  ASSUME NEW q \in BookQuestion
  PROVE  BookAddsUp(q.lines, q.compra, BookSummary(q.lines, q.compra, q.factor))
<1>1. PICK lines, compra, factor :
        lines = q.lines /\ compra = q.compra /\ factor = q.factor
  OBVIOUS
<1>2. lines \in Seq(LineOfBook) /\ compra \in BOOLEAN
  BY <1>1 DEF BookQuestion
<1>3. PICK n \in Nat : DOMAIN lines = 1..n
  BY <1>2
<1>4. PICK pesos : pesos = LinesInPesos(lines)
  OBVIOUS
<1>5. ASSUME NEW i \in 1..n
      PROVE  /\ IsLine(pesos[i]) /\ pesos[i].doc_type = lines[i].doc_type
             /\ Closes(lines[i]) => Closes(BookLine(lines[i]))
  <2>1. lines[i] \in LineOfBook
    BY <1>2, <1>3
  <2>2. pesos[i] = BookLine(lines[i])
    BY <1>3, <1>4 DEF LinesInPesos
  <2> QED
    BY <2>1, <2>2, LineInPesos
<1>6. DOMAIN pesos = 1..n
  BY <1>3, <1>4 DEF LinesInPesos
<1>7. PICK detail : detail = [i \in 1..n |-> Detail(pesos[i], compra)]
  OBVIOUS
<1>8. PICK summary : summary = BookSummary(lines, compra, factor)
  OBVIOUS
<1>9. /\ DOMAIN summary = {lines[i].doc_type : i \in DOMAIN lines}
      /\ \A t \in DOMAIN summary : summary[t] = PeriodTotals(Having(pesos, "doc_type", t), compra, factor)
  <2>1. summary = Summary(pesos, compra, factor)
    BY <1>4, <1>8 DEF BookSummary
  <2>2. {pesos[i].doc_type : i \in DOMAIN pesos} = {lines[i].doc_type : i \in DOMAIN lines}
    BY <1>3, <1>5, <1>6
  <2> QED
    BY <2>1, <2>2 DEF Summary
<1>10. ASSUME NEW t \in DOMAIN summary
       PROVE  SummaryIsSum(summary[t], Having(detail, "TpoDoc", t))
  <2> DEFINE P == {i \in 1..n : pesos[i].doc_type = t}
  <2>1. PICK group : group = Having(pesos, "doc_type", t)
    OBVIOUS
  <2>2. PICK mine : mine = Having(detail, "TpoDoc", t)
    OBVIOUS
  <2>3. group = [i \in P |-> pesos[i]]
    <3>1. P = {i \in DOMAIN pesos : pesos[i]["doc_type"] = t}
      BY <1>6
    <3> QED
      BY <2>1, <3>1 DEF Having, Restrict
  <2>4. mine = [i \in P |-> detail[i]]
    <3>1. ASSUME NEW i \in 1..n PROVE detail[i]["TpoDoc"] = pesos[i].doc_type
      <4>1. PICK l, d : l = pesos[i] /\ d = detail[i]
        OBVIOUS
      <4>2. IsLine(l) /\ d = Detail(l, compra)
        BY <1>5, <1>7, <4>1
      <4>3. d.TpoDoc = l.doc_type
        <5>1. SaysLine(d, l, compra)
          BY <1>2, <4>2, DetailSays
        <5> QED
          BY <5>1 DEF SaysLine
      <4> QED
        BY <4>1, <4>3
    <3>2. P = {i \in DOMAIN detail : detail[i]["TpoDoc"] = t}
      BY <1>7, <3>1
    <3> QED
      BY <2>2, <3>2 DEF Having, Restrict
  <2>5. IsFiniteSet(P)
    <3>1. IsFiniteSet(1..n)
      BY FS_Interval
    <3> QED
      BY <3>1, FS_Subset
  <2>6. DOMAIN group = P /\ DOMAIN mine = P /\ \A i \in P : IsLine(group[i])
    BY <1>5, <2>3, <2>4
  <2>7. (\A i \in P : mine[i] = Detail(group[i], compra)) /\ mine = [i \in P |-> mine[i]]
    BY <1>7, <2>3, <2>4
  <2>8. summary[t] = PeriodTotals(group, compra, factor)
    BY <1>9, <2>1
  <2> HIDE DEF P
  <2>9. SummaryIsSum(PeriodTotals(group, compra, factor), mine)
    BY <1>2, <2>5, <2>6, <2>7, DetailAddsUp
  <2> QED
    BY <2>2, <2>8, <2>9
<1>11. LinesClose(lines)
  BY <1>3, <1>5 DEF LinesClose
<1>12. detail = [i \in DOMAIN lines |-> Detail(LinesInPesos(lines)[i], compra)]
  BY <1>3, <1>4, <1>7
<1>13. BookAddsUp(lines, compra, summary)
  BY <1>9, <1>10, <1>11, <1>12 DEF BookAddsUp
<1> QED
  BY <1>1, <1>8, <1>13

-----------------------------------------------------------------------------
(* Books of guides                                                         *)

LEMMA GuideSays ==
  ASSUME NEW l \in LineOfGuides, NEW d, d = GuideDetail(l)
  PROVE  /\ Printed(d, "Anulado") = (IF l.voided = NULL THEN 0 ELSE l.voided)
         /\ Printed(d, "TpoOper") =
              (IF l.voided = NULL /\ l.transfer_type # NULL THEN l.transfer_type ELSE 0)
         /\ l.voided = NULL => Printed(d, "MntTotal") = l.total_amount
         /\ Printed(d, "MntModificado") =
              (IF l.voided = NULL /\ l.modified_amount # NULL THEN l.modified_amount ELSE 0)
<1>1. CASE l.voided # NULL
  <2>1. d = [Folio |-> l.folio, Anulado |-> l.voided]
    BY <1>1 DEF GuideDetail
  <2> QED
    BY <1>1, <2>1 DEF Printed
<1>2. CASE l.voided = NULL
  <2>1. d = [Folio |-> l.folio, MntTotal |-> l.total_amount]
              ++ Field(l.transfer_type # NULL, "TpoOper", l.transfer_type)
              ++ Field(l.modified_amount # NULL, "MntModificado", l.modified_amount)
    BY <1>2 DEF GuideDetail
  <2> QED
    BY <1>2, <2>1 DEF ++, Field, Printed
<1> QED
  BY <1>1, <1>2

(* What a summary of guides says of the groups it is made of.              *)
Modified(lines) == Restrict(lines, {i \in DOMAIN lines : lines[i].modified_amount # NULL})
TransfersOf(live) == {live[i].transfer_type : i \in DOMAIN live} \ {SALE, NULL}
GuideTotals(s, lines, live, sales, changed) ==
  /\ s.TotGuiaVenta = Size(sales) /\ s.TotMntGuiaVta = Total(sales, "total_amount")
  /\ DOMAIN s.TotTraslado = TransfersOf(live)
  /\ \A t \in TransfersOf(live) : s.TotTraslado[t] =
       [CantGuia |-> Size(Having(live, "transfer_type", t)),
        MntGuia |-> Total(Having(live, "transfer_type", t), "total_amount")]
  /\ Printed(s, "TotFolAnulado") = Size(Having(lines, "voided", BEFORE_SENDING))
  /\ Printed(s, "TotGuiaAnulada") = Size(Having(lines, "voided", AFTER_SENDING))
  /\ Printed(s, "TotMntModificado") = Total(changed, "modified_amount")

LEMMA GuideTotalsSay ==
  ASSUME NEW lines, NEW s, s = GuideSummary(lines),
         NEW live, live = Having(lines, "voided", NULL),
         NEW sales, sales = Having(live, "transfer_type", SALE),
         NEW changed, changed = Modified(lines)
  PROVE  GuideTotals(s, lines, live, sales, changed)
<1>0. PICK types : types = TransfersOf(live)
  OBVIOUS
<1>1. PICK before, after, modified, size, total, moved :
        /\ before = Size(Having(lines, "voided", BEFORE_SENDING))
        /\ after = Size(Having(lines, "voided", AFTER_SENDING))
        /\ modified = Total(changed, "modified_amount")
        /\ size = Size(sales) /\ total = Total(sales, "total_amount")
        /\ moved = [t \in types |->
             [CantGuia |-> Size(Having(live, "transfer_type", t)),
              MntGuia |-> Total(Having(live, "transfer_type", t), "total_amount")]]
  OBVIOUS
<1>2. s = [TotGuiaVenta |-> size, TotMntGuiaVta |-> total, TotTraslado |-> moved]
            ++ Field(before # 0, "TotFolAnulado", before)
            ++ Field(after # 0, "TotGuiaAnulada", after)
            ++ Field(modified # 0, "TotMntModificado", modified)
  BY <1>0, <1>1 DEF GuideSummary, Modified, TransfersOf
<1>3. /\ s.TotGuiaVenta = size /\ s.TotMntGuiaVta = total /\ s.TotTraslado = moved
      /\ Printed(s, "TotFolAnulado") = before /\ Printed(s, "TotGuiaAnulada") = after
      /\ Printed(s, "TotMntModificado") = modified
  BY <1>2 DEF ++, Field, Printed
<1> QED
  BY <1>0, <1>1, <1>3 DEF GuideTotals

(* The details of a book of guides, and those of a transfer.               *)
GuideDetails(lines) == [i \in DOMAIN lines |-> GuideDetail(lines[i])]
OfTransfer(detail, t) ==
  Restrict(detail, {i \in DOMAIN detail : Printed(detail[i], "TpoOper") = t})

(* The guides of a transfer, in the summary and in the detail.             *)
LEMMA GuidesOfTransfer ==
  ASSUME NEW lines \in Seq(LineOfGuides), NEW t \in 1..9,
         NEW live, live = Having(lines, "voided", NULL),
         NEW group, group = Having(live, "transfer_type", t),
         NEW detail, detail = GuideDetails(lines), NEW mine, mine = OfTransfer(detail, t)
  PROVE  Size(group) = Size(mine) /\ Total(group, "total_amount") = Sums(mine, "MntTotal")
<1> DEFINE K == {i \in DOMAIN lines : lines[i].voided = NULL /\ lines[i].transfer_type = t}
<1>0. DOMAIN detail = DOMAIN lines /\ \A i \in DOMAIN lines : detail[i] = GuideDetail(lines[i])
  BY DEF GuideDetails
<1>1. ASSUME NEW i \in DOMAIN lines
      PROVE  /\ Printed(detail[i], "TpoOper") = t <=> i \in K
             /\ i \in K => Printed(detail[i], "MntTotal") = lines[i].total_amount
  <2>1. PICK l, d : l = lines[i] /\ d = detail[i]
    OBVIOUS
  <2>2. l \in LineOfGuides /\ d = GuideDetail(l)
    BY <1>0, <2>1
  <2>3. /\ Printed(d, "TpoOper") =
             (IF l.voided = NULL /\ l.transfer_type # NULL THEN l.transfer_type ELSE 0)
        /\ l.voided = NULL => Printed(d, "MntTotal") = l.total_amount
    BY <2>2, GuideSays
  <2> QED
    BY <2>1, <2>3 DEF NULL
<1>2. mine = [i \in K |-> detail[i]]
  <2>1. {i \in DOMAIN detail : Printed(detail[i], "TpoOper") = t} = K
    BY <1>0, <1>1
  <2> HIDE DEF K
  <2> QED
    BY <2>1 DEF OfTransfer, Restrict
<1>3. group = [i \in K |-> lines[i]]
  <2>1. DOMAIN live = {i \in DOMAIN lines : lines[i]["voided"] = NULL}
    BY DEF Having, Restrict
  <2>2. \A i \in DOMAIN live : live[i] = lines[i]
    BY DEF Having, Restrict
  <2>3. {i \in DOMAIN live : live[i]["transfer_type"] = t} = K
    BY <2>1, <2>2
  <2>4. group = [i \in K |-> live[i]]
    BY <2>3 DEF Having, Restrict
  <2>5. \A i \in K : i \in DOMAIN live
    BY <2>1
  <2> HIDE DEF K
  <2> QED
    BY <2>2, <2>4, <2>5
<1>4. Size(group) = Size(mine)
  BY <1>2, <1>3 DEF Size
<1>5. [i \in DOMAIN group |-> group[i]["total_amount"]] =
        [i \in DOMAIN mine |-> Printed(mine[i], "MntTotal")]
  <2>1. DOMAIN group = K /\ DOMAIN mine = K
    BY <1>2, <1>3
  <2>2. \A i \in K : i \in DOMAIN lines /\ group[i] = lines[i] /\ mine[i] = detail[i]
    BY <1>2, <1>3
  <2> HIDE DEF K
  <2>3. \A i \in K : group[i]["total_amount"] = Printed(mine[i], "MntTotal")
    BY <1>1, <2>2
  <2> QED
    BY <2>1, <2>3
<1> QED
  BY <1>4, <1>5 DEF Total, Sums

(* What guide_book.py declares of the guides is what their details, where  *)
(* a voided one is only its folio, add up to: for any list of guides.      *)
THEOREM GuidesAlwaysAddUp ==
  ASSUME NEW lines \in Seq(LineOfGuides)
  PROVE  GuidesAddUp(lines, GuideSummary(lines))
<1> DEFINE detail == [i \in DOMAIN lines |-> GuideDetail(lines[i])]
           of(f, value) == Restrict(detail, {i \in DOMAIN detail : Printed(detail[i], f) = value})
           plain == \A i \in DOMAIN lines : lines[i].voided = NULL \/ lines[i].modified_amount = NULL
           changed == {i \in DOMAIN lines : lines[i].modified_amount # NULL}
<1>1. PICK s, live, sales, types, modified :
        /\ s = GuideSummary(lines) /\ live = Having(lines, "voided", NULL)
        /\ sales = Having(live, "transfer_type", SALE)
        /\ types = TransfersOf(live) /\ modified = Modified(lines)
  OBVIOUS
<1>2. GuideTotals(s, lines, live, sales, modified)
  BY <1>1, GuideTotalsSay
<1>3. ASSUME NEW i \in DOMAIN lines
      PROVE  /\ lines[i] \in LineOfGuides
             /\ Printed(detail[i], "Anulado") = (IF lines[i].voided = NULL THEN 0 ELSE lines[i].voided)
             /\ Printed(detail[i], "TpoOper") =
                  (IF lines[i].voided = NULL /\ lines[i].transfer_type # NULL
                   THEN lines[i].transfer_type ELSE 0)
             /\ Printed(detail[i], "MntModificado") =
                  (IF lines[i].voided = NULL /\ lines[i].modified_amount # NULL
                   THEN lines[i].modified_amount ELSE 0)
  <2>1. PICK l, d : l = lines[i] /\ d = detail[i]
    OBVIOUS
  <2>2. l \in LineOfGuides /\ d = GuideDetail(l)
    BY <2>1
  <2> HIDE DEF detail
  <2> QED
    BY <2>1, <2>2, GuideSays
<1>4. DOMAIN detail = DOMAIN lines /\ IsFiniteSet(DOMAIN lines)
  <2>1. PICK n \in Nat : DOMAIN lines = 1..n
    OBVIOUS
  <2>2. IsFiniteSet(1..n)
    BY FS_Interval
  <2> QED
    BY <2>1, <2>2
<1>5. ASSUME NEW t \in 1..9, NEW group, group = Having(live, "transfer_type", t)
      PROVE  /\ Size(group) = Size(of("TpoOper", t))
             /\ Total(group, "total_amount") = Sums(of("TpoOper", t), "MntTotal")
  <2>1. PICK all, mine : all = detail /\ mine = of("TpoOper", t)
    OBVIOUS
  <2>2. /\ all = [i \in DOMAIN lines |-> GuideDetail(lines[i])]
        /\ mine = Restrict(all, {i \in DOMAIN all : Printed(all[i], "TpoOper") = t})
    BY <2>1
  <2>3. all = GuideDetails(lines) /\ mine = OfTransfer(all, t)
    BY <2>2 DEF GuideDetails, OfTransfer
  <2> HIDE DEF detail, of
  <2> QED
    BY <1>1, <1>5, <2>1, <2>3, GuidesOfTransfer
<1>6. ASSUME NEW v \in {BEFORE_SENDING, AFTER_SENDING}
      PROVE  Size(Having(lines, "voided", v)) = Size(of("Anulado", v))
  <2>1. {i \in DOMAIN lines : lines[i]["voided"] = v} = {i \in DOMAIN detail : Printed(detail[i], "Anulado") = v}
    <3> HIDE DEF detail
    <3> QED
      BY <1>3, <1>4 DEF BEFORE_SENDING, AFTER_SENDING, NULL
  <2> HIDE DEF detail
  <2> QED
    BY <2>1 DEF Size, Having, Restrict
<1>7. ASSUME plain PROVE Total(modified, "modified_amount") = Sums(detail, "MntModificado")
  <2> DEFINE f == [i \in DOMAIN lines |-> Printed(detail[i], "MntModificado")]
  <2>1. f \in [DOMAIN lines -> Int] /\ changed \in SUBSET (DOMAIN lines)
    <3>1. \A i \in DOMAIN lines : Printed(detail[i], "MntModificado") \in Int
      <4> HIDE DEF detail
      <4> QED
        BY <1>3 DEF LineOfGuides
    <3> QED
      BY <3>1
  <2>2. /\ \A i \in (DOMAIN lines) \ changed : f[i] = 0
        /\ \A i \in changed : f[i] = lines[i].modified_amount
    <3> HIDE DEF detail
    <3> QED
      BY <1>3, <1>7
  <2>3. [i \in DOMAIN modified |-> modified[i]["modified_amount"]] = [i \in changed |-> f[i]]
    <3>1. modified = [i \in changed |-> lines[i]]
      BY <1>1 DEF Modified, Restrict
    <3> HIDE DEF f, changed
    <3> QED
      BY <2>2, <3>1
  <2>4. Sums(detail, "MntModificado") = SumFunction(f)
    BY DEF Sums
  <2> HIDE DEF f, changed, detail
  <2>5. SumFunction(f) = SumFunction([i \in changed |-> f[i]])
    BY <1>4, <2>1, <2>2, SumOfTerms
  <2> QED
    BY <2>3, <2>4, <2>5 DEF Total
<1>8. types = {Printed(detail[i], "TpoOper") : i \in DOMAIN detail} \ {0, SALE} /\ types \subseteq 1..9
  <2>1. /\ DOMAIN live = {i \in DOMAIN lines : lines[i].voided = NULL}
        /\ \A i \in DOMAIN live : live[i] = lines[i]
    BY <1>1 DEF Having, Restrict
  <2>2. \A i \in DOMAIN lines : lines[i].transfer_type \in {NULL} \cup 1..9
    BY <1>3 DEF LineOfGuides
  <2>3. types \subseteq 1..9
    BY <1>1, <2>1, <2>2 DEF TransfersOf
  <2> HIDE DEF detail
  <2>4. ASSUME NEW t
        PROVE  t \in types <=> t \in {Printed(detail[i], "TpoOper") : i \in DOMAIN detail} \ {0, SALE}
    <3>1. t \in types <=> t \notin {SALE, NULL} /\ \E i \in DOMAIN live : lines[i].transfer_type = t
      BY <1>1, <2>1 DEF TransfersOf
    <3>2. t \in {Printed(detail[i], "TpoOper") : i \in DOMAIN detail} \ {0, SALE} <=>
            t \notin {0, SALE} /\ \E i \in DOMAIN lines : Printed(detail[i], "TpoOper") = t
      BY <1>4
    <3> QED
      BY <1>3, <2>1, <2>2, <3>1, <3>2 DEF NULL
  <2> QED
    BY <2>3, <2>4
<1>9. SALE \in 1..9 /\ sales = Having(live, "transfer_type", SALE)
  BY <1>1 DEF SALE
<1>10. ASSUME NEW t \in types
       PROVE  s.TotTraslado[t] = [CantGuia |-> Size(of("TpoOper", t)),
                                  MntGuia |-> Sums(of("TpoOper", t), "MntTotal")]
  <2>1. PICK group : group = Having(live, "transfer_type", t)
    OBVIOUS
  <2>2. t \in 1..9
    BY <1>8
  <2> HIDE DEF of
  <2>3. /\ Size(group) = Size(of("TpoOper", t))
        /\ Total(group, "total_amount") = Sums(of("TpoOper", t), "MntTotal")
    BY <1>5, <2>1, <2>2
  <2> QED
    BY <1>1, <1>2, <2>1, <2>3 DEF GuideTotals
<1>11. Size(sales) = Size(of("TpoOper", SALE)) /\ Total(sales, "total_amount") = Sums(of("TpoOper", SALE), "MntTotal")
  <2> HIDE DEF of
  <2> QED
    BY <1>5, <1>9
<1>12. /\ s.TotGuiaVenta = Size(of("TpoOper", SALE))
       /\ s.TotMntGuiaVta = Sums(of("TpoOper", SALE), "MntTotal")
       /\ Printed(s, "TotFolAnulado") = Size(of("Anulado", BEFORE_SENDING))
       /\ Printed(s, "TotGuiaAnulada") = Size(of("Anulado", AFTER_SENDING))
       /\ plain => Printed(s, "TotMntModificado") = Sums(detail, "MntModificado")
       /\ DOMAIN s.TotTraslado = {Printed(detail[i], "TpoOper") : i \in DOMAIN detail} \ {0, SALE}
  <2> HIDE DEF of, detail, plain
  <2> QED
    BY <1>1, <1>2, <1>6, <1>7, <1>8, <1>11 DEF GuideTotals
<1>13. \A t \in DOMAIN s.TotTraslado :
         s.TotTraslado[t] = [CantGuia |-> Size(of("TpoOper", t)),
                             MntGuia |-> Sums(of("TpoOper", t), "MntTotal")]
  BY <1>1, <1>2, <1>10 DEF GuideTotals
<1>14. GuidesAddUp(lines, s)
  BY <1>12, <1>13 DEF GuidesAddUp
<1> QED
  BY <1>1, <1>14

-----------------------------------------------------------------------------
(* Reports of folios                                                       *)

(* The folios, from the lowest to the highest: the runs of those before    *)
(* the highest, extended by the highest.                                   *)
Extended(f, runs) ==
  IF runs # <<>> /\ runs[Len(runs)][2] + 1 = f
  THEN [runs EXCEPT ![Len(runs)][2] = f]
  ELSE Append(runs, <<f, f>>)

Highest(s) == Max(s)

RunsOf(T, iter) ==
  iter = [s \in SUBSET T |-> IF s = {} THEN <<>> ELSE Extended(Highest(s), iter[s \ {Highest(s)}])]

LEMMA RangesUnfold ==
  ASSUME NEW T
  PROVE  RangesOf(T) = (CHOOSE iter : RunsOf(T, iter))[T]
BY DEF RangesOf, MapThenFoldSet, RunsOf, Extended, Highest

(* Some folios, of which one is the highest.                               *)
LEMMA HighestExists ==
  ASSUME NEW T, T \subseteq Nat, IsFiniteSet(T), T # {}
  PROVE  Highest(T) \in T /\ \A y \in T : Highest(T) >= y
<1> DEFINE wrong(s) == s \in SUBSET T /\ s # {} /\ ~\E x \in s : \A y \in s : x >= y
           bad == {n \in Nat : \E s : wrong(s) /\ Cardinality(s) = n}
<1>1. \A s \in SUBSET T : IsFiniteSet(s) /\ Cardinality(s) \in Nat
  BY FS_Subset, FS_CardinalityType
<1>2. bad = {}
  <2> SUFFICES ASSUME bad # {} PROVE FALSE
    OBVIOUS
  <2>1. PICK m \in bad : \A n \in Nat : n < m => n \notin bad
    <3> HIDE DEF wrong
    <3> QED
      BY LeastExists
  <2>2. PICK s : wrong(s) /\ Cardinality(s) = m
    BY <2>1
  <2>3. PICK x : x \in s
    BY <2>2
  <2>4. s \ {x} \in SUBSET T /\ \A y \in s : y \in Nat
    BY <2>2
  <2>5. Cardinality(s \ {x}) \in Nat /\ Cardinality(s \ {x}) < m
    <3>1. Cardinality(s \ {x}) = Cardinality(s) - 1 /\ Cardinality(s) \in Nat /\ Cardinality(s \ {x}) \in Nat
      BY <1>1, <2>2, <2>3, <2>4, FS_RemoveElement
    <3> QED
      BY <2>2, <3>1
  <2>6. ~wrong(s \ {x})
    <3> HIDE DEF wrong
    <3> QED
      BY <2>1, <2>5
  <2>7. CASE s \ {x} = {}
    <3>1. \A y \in s : x >= y
      BY <2>3, <2>4, <2>7
    <3> QED
      BY <2>2, <2>3, <3>1
  <2>8. CASE s \ {x} # {}
    <3>1. PICK z \in s \ {x} : \A y \in s \ {x} : z >= y
      BY <2>4, <2>6, <2>8
    <3>2. CASE z >= x
      <4>1. \A y \in s : z >= y
        BY <3>1, <3>2
      <4> QED
        BY <2>2, <3>1, <4>1
    <3>3. CASE x > z
      <4>1. \A y \in s : x >= y
        BY <2>3, <2>4, <3>1, <3>3
      <4> QED
        BY <2>2, <2>3, <4>1
    <3> QED
      BY <2>3, <2>4, <3>1, <3>2, <3>3
  <2> QED
    BY <2>7, <2>8
<1>3. ~wrong(T)
  <2> HIDE DEF wrong
  <2> QED
    BY <1>1, <1>2
<1>4. \E x \in T : \A y \in T : x >= y
  BY <1>3
<1> QED
  BY <1>4 DEF Highest, Max

LEMMA WithoutHighest ==
  ASSUME NEW s, s \subseteq Nat, IsFiniteSet(s), s # {}
  PROVE  /\ Highest(s) \in s /\ (\A y \in s : Highest(s) >= y)
         /\ IsFiniteSet(s \ {Highest(s)})
         /\ Cardinality(s) \in Nat \ {0}
         /\ Cardinality(s \ {Highest(s)}) = Cardinality(s) - 1
<1>1. Highest(s) \in s /\ \A y \in s : Highest(s) >= y
  BY HighestExists
<1> QED
  BY <1>1, FS_RemoveElement, FS_EmptySet, FS_CardinalityType

LEMMA RunsExist ==
  ASSUME NEW T, T \subseteq Nat, IsFiniteSet(T)
  PROVE  \E iter : RunsOf(T, iter)
<1> DEFINE upTo(n) == {s \in SUBSET T : Cardinality(s) <= n}
           good(n, g) ==
             g = [s \in upTo(n) |-> IF s = {} THEN <<>> ELSE Extended(Highest(s), g[s \ {Highest(s)}])]
           bad == {n \in Nat : ~\E g : good(n, g)}
<1>1. \A s \in SUBSET T :
        /\ IsFiniteSet(s) /\ s \subseteq Nat
        /\ Cardinality(s) \in Nat /\ Cardinality(s) <= Cardinality(T)
  BY FS_Subset, FS_CardinalityType
<1>2. ASSUME NEW n \in Nat, NEW s \in upTo(n), s # {}
      PROVE  s \ {Highest(s)} \in upTo(n) /\ (n > 0 => s \ {Highest(s)} \in upTo(n - 1))
  <2>1. IsFiniteSet(s) /\ s \subseteq Nat
    BY <1>1
  <2>2. Cardinality(s) \in Nat \ {0} /\ Cardinality(s \ {Highest(s)}) = Cardinality(s) - 1
    BY <1>2, <2>1, WithoutHighest, Zenon
  <2>3. PICK r : r = s \ {Highest(s)}
    OBVIOUS
  <2>4. r \in SUBSET T /\ Cardinality(s) <= n
    BY <2>3
  <2>5. Cardinality(r) \in Nat /\ Cardinality(r) = Cardinality(s) - 1
    BY <1>1, <2>2, <2>3, <2>4
  <2>6. r \in upTo(n) /\ (n > 0 => r \in upTo(n - 1))
    BY <2>2, <2>4, <2>5
  <2> QED
    BY <2>3, <2>6
<1>3. bad = {}
  <2> SUFFICES ASSUME bad # {} PROVE FALSE
    OBVIOUS
  <2>1. PICK m \in bad : \A n \in Nat : n < m => n \notin bad
    <3> HIDE DEF good
    <3> QED
      BY LeastExists
  <2>2. CASE m = 0
    <3>1. ASSUME NEW s \in upTo(0) PROVE s = {}
      <4>1. IsFiniteSet(s) /\ s \subseteq Nat /\ Cardinality(s) \in Nat /\ Cardinality(s) <= 0
        BY <1>1
      <4>2. ASSUME s # {} PROVE Cardinality(s) \in Nat \ {0}
        BY <4>1, <4>2, WithoutHighest, Zenon
      <4> QED
        BY <4>1, <4>2
    <3>2. good(0, [s \in upTo(0) |-> <<>>])
      BY <3>1
    <3> QED
      BY <2>1, <2>2, <3>2
  <2>3. CASE m > 0
    <3>1. m \in Nat /\ m - 1 \in Nat /\ m - 1 < m
      BY <2>3
    <3>2. PICK g : good(m - 1, g)
      BY <2>1, <3>1
    <3> DEFINE h == [s \in upTo(m) |-> IF s = {} THEN <<>> ELSE Extended(Highest(s), g[s \ {Highest(s)}])]
    <3>3. ASSUME NEW s \in upTo(m - 1) PROVE s \in upTo(m) /\ h[s] = g[s]
      <4>1. s \in upTo(m)
        BY <1>1, <3>1, <3>3
      <4> QED
        BY <3>2, <4>1
    <3>4. ASSUME NEW s \in upTo(m), s # {} PROVE h[s \ {Highest(s)}] = g[s \ {Highest(s)}]
      <4> HIDE DEF upTo, h
      <4> QED
        BY <1>2, <2>3, <3>1, <3>3, <3>4
    <3>5. PICK k : k = h
      OBVIOUS
    <3>6. k = [s \in upTo(m) |-> IF s = {} THEN <<>> ELSE Extended(Highest(s), g[s \ {Highest(s)}])]
      BY <3>5
    <3>7. \A s \in upTo(m) : (IF s = {} THEN <<>> ELSE Extended(Highest(s), g[s \ {Highest(s)}]))
                             = (IF s = {} THEN <<>> ELSE Extended(Highest(s), k[s \ {Highest(s)}]))
      BY <3>4, <3>5
    <3> HIDE DEF upTo, h
    <3>8. k = [s \in upTo(m) |-> IF s = {} THEN <<>> ELSE Extended(Highest(s), k[s \ {Highest(s)}])]
      BY <3>6, <3>7
    <3> QED
      BY <2>1, <3>1, <3>8
  <2> QED
    BY <2>1, <2>2, <2>3
<1>4. Cardinality(T) \in Nat /\ upTo(Cardinality(T)) = SUBSET T
  BY <1>1
<1>5. \E g : good(Cardinality(T), g)
  <2> HIDE DEF good, upTo
  <2> QED
    BY <1>3, <1>4
<1> HIDE DEF upTo
<1> QED
  BY <1>4, <1>5 DEF RunsOf

LEMMA RunsAgree ==
  ASSUME NEW T, NEW U, NEW i, NEW j, RunsOf(T, i), RunsOf(U, j),
         NEW s \in SUBSET T, s \in SUBSET U, s \subseteq Nat, IsFiniteSet(s)
  PROVE  i[s] = j[s]
<1> DEFINE differ(t) == t \in SUBSET s /\ i[t] # j[t]
           bad == {n \in Nat : \E t : differ(t) /\ Cardinality(t) = n}
<1>1. \A t \in SUBSET s : IsFiniteSet(t) /\ t \subseteq Nat /\ Cardinality(t) \in Nat
  BY FS_Subset, FS_CardinalityType
<1>2. \A t \in SUBSET s :
        /\ i[t] = IF t = {} THEN <<>> ELSE Extended(Highest(t), i[t \ {Highest(t)}])
        /\ j[t] = IF t = {} THEN <<>> ELSE Extended(Highest(t), j[t \ {Highest(t)}])
  BY DEF RunsOf
<1>3. bad = {}
  <2> SUFFICES ASSUME bad # {} PROVE FALSE
    OBVIOUS
  <2>1. PICK m \in bad : \A n \in Nat : n < m => n \notin bad
    <3> HIDE DEF differ
    <3> QED
      BY LeastExists
  <2>2. PICK t : differ(t) /\ Cardinality(t) = m
    BY <2>1
  <2>3. t # {} /\ i[t \ {Highest(t)}] # j[t \ {Highest(t)}]
    BY <1>2, <2>2
  <2>4. /\ t \ {Highest(t)} \in SUBSET s
        /\ Cardinality(t \ {Highest(t)}) \in Nat /\ Cardinality(t \ {Highest(t)}) < m
    <3>1. IsFiniteSet(t) /\ t \subseteq Nat /\ Cardinality(t) = m /\ t \in SUBSET s
      BY <1>1, <2>2
    <3>2. Cardinality(t) \in Nat \ {0} /\ Cardinality(t \ {Highest(t)}) = Cardinality(t) - 1
      BY <2>3, <3>1, WithoutHighest, Zenon
    <3>3. PICK r : r = t \ {Highest(t)}
      OBVIOUS
    <3>4. r \in SUBSET s
      BY <3>1, <3>3
    <3>5. Cardinality(r) \in Nat /\ Cardinality(r) = Cardinality(t) - 1
      BY <1>1, <3>2, <3>3, <3>4
    <3>6. Cardinality(r) < m
      BY <3>1, <3>2, <3>5
    <3> QED
      BY <3>3, <3>4, <3>5, <3>6
  <2>5. differ(t \ {Highest(t)})
    BY <2>3, <2>4
  <2> QED
    BY <2>1, <2>4, <2>5
<1> QED
  BY <1>1, <1>3

LEMMA RangesStep ==
  ASSUME NEW T, T \subseteq Nat, IsFiniteSet(T)
  PROVE  RangesOf(T) = IF T = {} THEN <<>> ELSE Extended(Highest(T), RangesOf(T \ {Highest(T)}))
<1> DEFINE runs(U) == CHOOSE iter : RunsOf(U, iter)
<1>1. RunsOf(T, runs(T))
  BY RunsExist
<1>2. runs(T)[T] = IF T = {} THEN <<>> ELSE Extended(Highest(T), runs(T)[T \ {Highest(T)}])
  BY <1>1 DEF RunsOf
<1>3. CASE T = {}
  BY <1>2, <1>3, RangesUnfold
<1>4. CASE T # {}
  <2>1. IsFiniteSet(T \ {Highest(T)}) /\ T \ {Highest(T)} \subseteq Nat
    BY <1>4, WithoutHighest
  <2>2. RunsOf(T \ {Highest(T)}, runs(T \ {Highest(T)}))
    BY <2>1, RunsExist
  <2>3. runs(T)[T \ {Highest(T)}] = runs(T \ {Highest(T)})[T \ {Highest(T)}]
    <3> HIDE DEF runs
    <3> QED
      BY <1>1, <2>1, <2>2, RunsAgree
  <2>4. RangesOf(T) = runs(T)[T] /\ RangesOf(T \ {Highest(T)}) = runs(T \ {Highest(T)})[T \ {Highest(T)}]
    BY RangesUnfold
  <2> HIDE DEF runs
  <2> QED
    BY <1>2, <1>4, <2>3, <2>4
<1> QED
  BY <1>3, <1>4

(* Runs of consecutive folios: which folios, how far apart and how many.   *)
Lengths(runs) == [i \in DOMAIN runs |-> runs[i][2] - runs[i][1] + 1]
Covered(runs) == UNION {runs[i][1]..runs[i][2] : i \in DOMAIN runs}
Covers(runs, T) ==
  /\ runs \in Seq(Nat \X Nat)
  /\ \A i \in DOMAIN runs : runs[i][1] <= runs[i][2]
  /\ \A i, j \in DOMAIN runs : i < j => runs[i][2] + 1 < runs[j][1]
  /\ Covered(runs) = T
  /\ SumFunction(Lengths(runs)) = Cardinality(T)

LEMMA CoversNothing == Covers(<<>>, {})
<1>1. Covered(<<>>) = {}
  BY DEF Covered
<1>2. Lengths(<<>>) = [i \in {} |-> 0]
  BY DEF Lengths
<1>3. SumFunction([i \in {} |-> 0]) = 0 /\ Cardinality({}) = 0
  BY FS_EmptySet, SumOfNothing
<1> QED
  BY <1>1, <1>2, <1>3 DEF Covers

LEMMA ExtendedCovers ==
  ASSUME NEW T \in SUBSET Nat, IsFiniteSet(T), NEW m \in Nat, \A y \in T : y < m,
         NEW runs, Covers(runs, T)
  PROVE  Covers(Extended(m, runs), T \cup {m})
<1>1. PICK n \in Nat : n = Len(runs) /\ DOMAIN runs = 1..n
  BY DEF Covers
<1>2. PICK from, to : /\ from = [i \in 1..n |-> runs[i][1]]
                      /\ to = [i \in 1..n |-> runs[i][2]]
  OBVIOUS
<1>3. \A i \in 1..n : from[i] \in Nat /\ to[i] \in Nat /\ runs[i] = <<from[i], to[i]>>
  <2>1. \A i \in 1..n : runs[i] \in Nat \X Nat
    BY <1>1 DEF Covers
  <2> QED
    BY <1>2, <2>1
<1>4. \A i \in 1..n : from[i] <= to[i]
  BY <1>1, <1>2 DEF Covers
<1>5. \A i, j \in 1..n : i < j => to[i] + 1 < from[j]
  BY <1>1, <1>2 DEF Covers
<1>6. Covered(runs) = UNION {from[i]..to[i] : i \in 1..n} /\ Covered(runs) = T
  BY <1>1, <1>2 DEF Covered, Covers
<1>7. \A i \in 1..n : to[i] < m
  <2>1. \A i \in 1..n : to[i] \in from[i]..to[i]
    BY <1>3, <1>4
  <2> QED
    BY <1>6, <2>1
<1>8. /\ Lengths(runs) = [i \in 1..n |-> to[i] - from[i] + 1]
      /\ SumFunction(Lengths(runs)) = Cardinality(T)
  BY <1>1, <1>2 DEF Lengths, Covers
<1>9. Cardinality(T \cup {m}) = Cardinality(T) + 1
  BY FS_AddElement
<1>10. CASE n > 0 /\ to[n] + 1 = m
  <2>1. PICK longer : longer = [i \in 1..n |-> IF i = n THEN m ELSE to[i]]
    OBVIOUS
  <2>2. PICK new : new = Extended(m, runs)
    OBVIOUS
  <2>3. new = [runs EXCEPT ![n] = [runs[n] EXCEPT ![2] = m]]
    <3>1. runs # <<>> /\ runs[n][2] = to[n]
      BY <1>1, <1>2, <1>10
    <3> QED
      BY <1>1, <1>10, <2>2, <3>1 DEF Extended
  <2>4. [runs[n] EXCEPT ![2] = m] = <<from[n], m>>
    <3>1. runs[n] = <<from[n], to[n]>>
      BY <1>3, <1>10
    <3> QED
      BY <3>1
  <2>5. DOMAIN new = 1..n /\ \A i \in 1..n : new[i] = <<from[i], longer[i]>>
    BY <1>1, <1>3, <2>1, <2>3, <2>4
  <2>6. \A i \in 1..n : longer[i] \in Nat /\ from[i] <= longer[i] /\ to[i] <= longer[i]
    BY <1>3, <1>4, <1>7, <2>1
  <2>7. new \in Seq(Nat \X Nat)
    <3>1. <<from[n], m>> \in Nat \X Nat
      BY <1>3, <1>10
    <3> QED
      BY <1>1, <1>10, <2>3, <2>4, <3>1 DEF Covers
  <2>8. \A i, j \in 1..n : i < j => longer[i] + 1 < from[j]
    BY <1>5, <2>1
  <2>9. UNION {from[i]..longer[i] : i \in 1..n} = T \cup {m}
    <3>1. from[n]..m = (from[n]..to[n]) \cup {m}
      <4>1. from[n] \in Nat /\ to[n] \in Nat /\ from[n] <= to[n] /\ to[n] + 1 = m
        BY <1>3, <1>4, <1>10
      <4> QED
        BY <4>1
    <3>2. \A i \in 1..n : longer[i] = IF i = n THEN m ELSE to[i]
      BY <2>1
    <3>3. ASSUME NEW x PROVE (\E i \in 1..n : x \in from[i]..longer[i]) <=> x \in T \/ x = m
      <4>1. x \in T <=> \E i \in 1..n : x \in from[i]..to[i]
        BY <1>6
      <4>2. x \in from[n]..m <=> x \in from[n]..to[n] \/ x = m
        BY <3>1
      <4>3. n \in 1..n
        BY <1>10
      <4> QED
        BY <3>2, <4>1, <4>2, <4>3
    <3> QED
      BY <3>3
  <2>10. SumFunction([i \in 1..n |-> longer[i] - from[i] + 1]) = Cardinality(T) + 1
    <3> DEFINE f == [i \in 1..n |-> to[i] - from[i] + 1]
               g == [i \in 1..n |-> longer[i] - from[i] + 1]
    <3>1. f \in [1..n -> Int] /\ g \in [1..n -> Int]
      BY <1>3, <2>6
    <3>2. (\A i \in (1..n) \ {n} : g[i] = f[i]) /\ g[n] = f[n] + 1
      BY <1>3, <1>10, <2>1
    <3> HIDE DEF f, g
    <3>3. SumFunction(g) = SumFunction(f) + 1
      BY <1>10, <3>1, <3>2, LastGrows
    <3> QED
      BY <1>8, <3>3 DEF f, g
  <2>11. Covered(new) = T \cup {m}
    BY <2>5, <2>9 DEF Covered
  <2>12. Lengths(new) = [i \in 1..n |-> longer[i] - from[i] + 1]
    BY <2>5 DEF Lengths
  <2>13. SumFunction(Lengths(new)) = Cardinality(T \cup {m})
    BY <1>9, <2>10, <2>12
  <2>14. /\ \A i \in DOMAIN new : new[i][1] <= new[i][2]
         /\ \A i, j \in DOMAIN new : i < j => new[i][2] + 1 < new[j][1]
    <3>1. \A i \in DOMAIN new : i \in 1..n /\ new[i][1] = from[i] /\ new[i][2] = longer[i]
      BY <2>5
    <3> QED
      BY <2>6, <2>8, <3>1
  <2>15. Covers(new, T \cup {m})
    BY <2>7, <2>11, <2>13, <2>14 DEF Covers
  <2> QED
    BY <2>2, <2>15
<1>11. CASE ~(n > 0 /\ to[n] + 1 = m)
  <2>1. PICK new : new = Extended(m, runs)
    OBVIOUS
  <2>2. new = Append(runs, <<m, m>>)
    <3>1. ~(runs # <<>> /\ runs[n][2] + 1 = m)
      BY <1>1, <1>2, <1>11
    <3> QED
      BY <1>1, <2>1, <3>1 DEF Extended
  <2>3. /\ DOMAIN new = 1..(n + 1) /\ new \in Seq(Nat \X Nat)
        /\ \A i \in 1..n : new[i] = <<from[i], to[i]>>
        /\ new[n + 1] = <<m, m>>
    <3>1. runs \in Seq(Nat \X Nat) /\ <<m, m>> \in Nat \X Nat
      BY DEF Covers
    <3>2. new \in Seq(Nat \X Nat)
      BY <2>2, <3>1
    <3>3. Len(new) = n + 1 /\ (\A i \in 1..n : new[i] = runs[i]) /\ new[n + 1] = <<m, m>>
      BY <1>1, <2>2, <3>1
    <3>4. DOMAIN new = 1..(n + 1)
      BY <3>2, <3>3
    <3> QED
      BY <1>3, <3>2, <3>3, <3>4
  <2>4. \A i \in 1..n : to[i] + 1 < m
    <3>1. ASSUME NEW i \in 1..n, i # n PROVE to[i] + 1 < m
      <4>1. n \in 1..n /\ i < n /\ to[i] + 1 < from[n] /\ from[n] <= to[n] /\ to[n] < m
        BY <1>4, <1>5, <1>7, <3>1
      <4> QED
        BY <1>3, <3>1, <4>1
    <3>2. n > 0 => to[n] + 1 < m
      BY <1>3, <1>7, <1>11
    <3> QED
      BY <3>1, <3>2
  <2>5. \A i, j \in 1..(n + 1) : i < j => new[i][2] + 1 < new[j][1]
    <3>1. ASSUME NEW i \in 1..(n + 1), NEW j \in 1..(n + 1), i < j
          PROVE  new[i][2] + 1 < new[j][1]
      <4>1. i \in 1..n /\ new[i][2] = to[i]
        BY <2>3, <3>1
      <4>2. CASE j = n + 1
        BY <2>3, <2>4, <4>1, <4>2
      <4>3. CASE j # n + 1
        <5>1. j \in 1..n /\ new[j][1] = from[j]
          BY <2>3, <4>3
        <5> QED
          BY <1>5, <3>1, <4>1, <5>1
      <4> QED
        BY <4>2, <4>3
    <3> QED
      BY <3>1
  <2>6. \A i \in 1..(n + 1) : new[i][1] <= new[i][2]
    <3>1. \A i \in 1..n : new[i][1] <= new[i][2]
      BY <1>4, <2>3
    <3>2. new[n + 1][1] <= new[n + 1][2]
      BY <2>3
    <3> QED
      BY <3>1, <3>2
  <2>7. Covered(new) = T \cup {m}
    <3>1. Covered(new) = UNION {new[i][1]..new[i][2] : i \in 1..(n + 1)}
      BY <2>3 DEF Covered
    <3>2. \A i \in 1..n : new[i][1]..new[i][2] = from[i]..to[i]
      BY <2>3
    <3>3. new[n + 1][1]..new[n + 1][2] = {m}
      BY <2>3
    <3>4. 1..(n + 1) = (1..n) \cup {n + 1}
      OBVIOUS
    <3>5. ASSUME NEW x PROVE (\E i \in 1..(n + 1) : x \in new[i][1]..new[i][2]) <=> x \in T \/ x = m
      <4>1. x \in T <=> \E i \in 1..n : x \in from[i]..to[i]
        BY <1>6
      <4>2. (\E i \in 1..(n + 1) : x \in new[i][1]..new[i][2]) <=>
              (\E i \in 1..n : x \in new[i][1]..new[i][2]) \/ x \in new[n + 1][1]..new[n + 1][2]
        BY <3>4
      <4>3. (\E i \in 1..n : x \in new[i][1]..new[i][2]) <=> \E i \in 1..n : x \in from[i]..to[i]
        BY <3>2
      <4> QED
        BY <3>3, <4>1, <4>2, <4>3
    <3> QED
      BY <3>1, <3>5
  <2>8. SumFunction(Lengths(new)) = Cardinality(T) + 1
    <3> DEFINE f == [i \in 1..n |-> to[i] - from[i] + 1]
               g == [i \in 1..(n + 1) |-> new[i][2] - new[i][1] + 1]
    <3>1. f \in [1..n -> Int] /\ g \in [1..(n + 1) -> Int]
      BY <1>3, <2>3
    <3>2. (\A i \in 1..n : g[i] = f[i]) /\ g[n + 1] = 1
      BY <2>3
    <3>3. Lengths(new) = g
      BY <2>3 DEF Lengths
    <3> HIDE DEF f, g
    <3>4. SumFunction(g) = SumFunction(f) + 1
      BY <3>1, <3>2, OneMore
    <3> QED
      BY <1>8, <3>3, <3>4 DEF f
  <2>9. Covers(new, T \cup {m})
    BY <1>9, <2>3, <2>5, <2>6, <2>7, <2>8 DEF Covers
  <2> QED
    BY <2>1, <2>9
<1> QED
  BY <1>10, <1>11

(* The runs of any finite set of folios are exactly its folios.            *)
LEMMA RangesCover ==
  ASSUME NEW T, T \subseteq Nat, IsFiniteSet(T)
  PROVE  Covers(RangesOf(T), T)
<1> DEFINE wrong(s) == s \in SUBSET T /\ ~Covers(RangesOf(s), s)
           bad == {n \in Nat : \E s : wrong(s) /\ Cardinality(s) = n}
<1>1. \A s \in SUBSET T : IsFiniteSet(s) /\ s \subseteq Nat /\ Cardinality(s) \in Nat
  BY FS_Subset, FS_CardinalityType
<1>2. bad = {}
  <2> SUFFICES ASSUME bad # {} PROVE FALSE
    OBVIOUS
  <2>1. PICK m \in bad : \A n \in Nat : n < m => n \notin bad
    <3> HIDE DEF wrong
    <3> QED
      BY LeastExists
  <2>2. PICK s : wrong(s) /\ Cardinality(s) = m
    BY <2>1
  <2>3. s \in SUBSET T /\ s \subseteq Nat /\ IsFiniteSet(s) /\ ~Covers(RangesOf(s), s)
    BY <1>1, <2>2
  <2>4. CASE s = {}
    <3>1. RangesOf(s) = <<>>
      BY <2>3, <2>4, RangesStep
    <3> QED
      BY <2>3, <2>4, <3>1, CoversNothing
  <2>5. CASE s # {}
    <3>1. PICK h, rest : h = Highest(s) /\ rest = s \ {h}
      OBVIOUS
    <3>2. /\ h \in s /\ (\A y \in s : h >= y)
          /\ Cardinality(s) \in Nat \ {0} /\ Cardinality(rest) = Cardinality(s) - 1
      BY <2>3, <2>5, <3>1, WithoutHighest, Zenon
    <3>3. rest \in SUBSET T /\ rest \in SUBSET Nat /\ h \in Nat /\ rest \cup {h} = s /\ h \notin rest
      BY <2>3, <3>1, <3>2
    <3>4. IsFiniteSet(rest) /\ Cardinality(rest) \in Nat
      BY <1>1, <3>3
    <3>5. Cardinality(rest) < m
      BY <2>2, <3>2, <3>4
    <3>6. ~wrong(rest)
      <4> HIDE DEF wrong
      <4> QED
        BY <2>1, <3>4, <3>5
    <3>7. PICK runs : runs = RangesOf(rest) /\ Covers(runs, rest)
      BY <3>3, <3>6
    <3>8. \A y \in rest : y < h
      BY <3>1, <3>2, <3>3
    <3>9. Covers(Extended(h, runs), rest \cup {h})
      BY <3>3, <3>4, <3>7, <3>8, ExtendedCovers
    <3>10. RangesOf(s) = Extended(h, runs)
      <4>1. RangesOf(s) = Extended(Highest(s), RangesOf(s \ {Highest(s)}))
        BY <2>3, <2>5, RangesStep
      <4> QED
        BY <3>1, <3>7, <4>1
    <3> QED
      BY <2>3, <3>3, <3>9, <3>10
  <2> QED
    BY <2>4, <2>5
<1>3. ~wrong(T)
  <2> HIDE DEF wrong
  <2> QED
    BY <1>1, <1>2
<1> QED
  BY <1>3

(* What a report of folios declares are exactly the folios it lists, each  *)
(* in one range and counted once, the ranges as long as they can be:       *)
(* folio_report.py, for any list in which no folio is reported twice.      *)
THEOREM ReportsCoverTheirFolios ==
  ASSUME NEW lines \in Seq(LineOfReport)
  PROVE  ReportCoversFolios(lines, FolioSummary(lines))
<1> DEFINE places(v) == {i \in DOMAIN lines : lines[i].voided = v}
           with(v) == {lines[i].folio : i \in places(v)}
           once == \A i, j \in DOMAIN lines : lines[i].folio = lines[j].folio => i = j
<1>1. PICK s, used, voided :
        /\ s = FolioSummary(lines) /\ used = Having(lines, "voided", FALSE)
        /\ voided = Having(lines, "voided", TRUE)
  OBVIOUS
<1>2. /\ DOMAIN used = places(FALSE) /\ (\A i \in places(FALSE) : used[i] = lines[i])
      /\ DOMAIN voided = places(TRUE) /\ (\A i \in places(TRUE) : voided[i] = lines[i])
  BY <1>1 DEF Having, Restrict
<1>3. /\ {used[i].folio : i \in DOMAIN used} = with(FALSE)
      /\ {voided[i].folio : i \in DOMAIN voided} = with(TRUE)
  BY <1>2
<1>4. /\ s.FoliosEmitidos = Cardinality(places(FALSE)) /\ s.FoliosAnulados = Cardinality(places(TRUE))
      /\ s.FoliosUtilizados = Cardinality(DOMAIN lines)
      /\ s.RangoUtilizados = RangesOf(with(FALSE)) /\ s.RangoAnulados = RangesOf(with(TRUE))
  <2> HIDE DEF with, places
  <2>1. PICK total, emitted, nulled, all, ranges, gaps :
          /\ total = Total(used, "total_amount") /\ emitted = Size(used) /\ nulled = Size(voided)
          /\ all = Size(lines)
          /\ ranges = RangesOf({used[i].folio : i \in DOMAIN used})
          /\ gaps = RangesOf({voided[i].folio : i \in DOMAIN voided})
    OBVIOUS
  <2>2. s = [MntTotal |-> total, FoliosEmitidos |-> emitted, FoliosAnulados |-> nulled,
             FoliosUtilizados |-> all, RangoUtilizados |-> ranges, RangoAnulados |-> gaps]
    BY <1>1, <2>1 DEF FolioSummary
  <2>3. /\ emitted = Cardinality(places(FALSE)) /\ nulled = Cardinality(places(TRUE))
        /\ all = Cardinality(DOMAIN lines)
    BY <1>2, <2>1 DEF Size
  <2> QED
    BY <1>3, <2>1, <2>2, <2>3
<1>5. IsFiniteSet(DOMAIN lines)
  <2>1. PICK n \in Nat : DOMAIN lines = 1..n
    OBVIOUS
  <2>2. IsFiniteSet(1..n)
    BY FS_Interval
  <2> QED
    BY <2>1, <2>2
<1>6. \A i \in DOMAIN lines : lines[i].folio \in Nat /\ lines[i].voided \in BOOLEAN
  <2>1. \A i \in DOMAIN lines : lines[i] \in LineOfReport
    OBVIOUS
  <2> QED
    BY <2>1 DEF LineOfReport
<1>7. s.FoliosUtilizados = s.FoliosEmitidos + s.FoliosAnulados
  <2>1. (DOMAIN lines) \cap places(FALSE) = places(FALSE) /\ (DOMAIN lines) \ places(FALSE) = places(TRUE)
    BY <1>6
  <2> HIDE DEF places
  <2> QED
    BY <1>4, <1>5, <2>1, PartsCount
<1>8. ASSUME once, NEW v \in BOOLEAN
      PROVE  Covers(RangesOf(with(v)), with(v)) /\ Cardinality(with(v)) = Cardinality(places(v))
  <2> DEFINE b == [i \in places(v) |-> lines[i].folio]
  <2>1. IsFiniteSet(places(v))
    BY <1>5, FS_Subset
  <2>2. b \in Bijection(places(v), with(v))
    BY <1>8 DEF Bijection, Injection, IsInjective, Surjection
  <2>3. with(v) \subseteq Nat
    BY <1>6
  <2> HIDE DEF b, places, with
  <2>4. ExistsBijection(places(v), with(v))
    BY <2>2 DEF ExistsBijection
  <2>5. IsFiniteSet(with(v)) /\ Cardinality(with(v)) = Cardinality(places(v))
    BY <2>1, <2>4, FS_Bijection
  <2> QED
    BY <2>3, <2>5, RangesCover
<1>9. ASSUME once, NEW v \in BOOLEAN, NEW ranges, ranges = RangesOf(with(v)),
             NEW n, n = Cardinality(places(v))
      PROVE  /\ UNION {ranges[i][1]..ranges[i][2] : i \in DOMAIN ranges} = with(v)
             /\ \A i, j \in DOMAIN ranges : i < j => ranges[i][2] + 1 < ranges[j][1]
             /\ SumFunction([i \in DOMAIN ranges |-> ranges[i][2] - ranges[i][1] + 1]) = n
  <2>1. Covers(ranges, with(v)) /\ Cardinality(with(v)) = n
    <3> HIDE DEF with, places, once
    <3> QED
      BY <1>8, <1>9
  <2> HIDE DEF with, places
  <2> QED
    BY <2>1 DEF Covers, Covered, Lengths
<1>10. ReportCoversFolios(lines, s)
  <2> DEFINE exact(ranges, folios, n) ==
        /\ UNION {ranges[i][1]..ranges[i][2] : i \in DOMAIN ranges} = folios
        /\ \A i, j \in DOMAIN ranges : i < j => ranges[i][2] + 1 < ranges[j][1]
        /\ SumFunction([i \in DOMAIN ranges |-> ranges[i][2] - ranges[i][1] + 1]) = n
  <2>1. ASSUME once, NEW v \in BOOLEAN
        PROVE  exact(RangesOf(with(v)), with(v), Cardinality(places(v)))
    <3> HIDE DEF with, places, once
    <3> QED
      BY <1>9, <2>1
  <2>2. ASSUME once
        PROVE  /\ exact(s.RangoUtilizados, with(FALSE), s.FoliosEmitidos)
               /\ exact(s.RangoAnulados, with(TRUE), s.FoliosAnulados)
    <3> HIDE DEF with, places, once, exact
    <3> QED
      BY <1>4, <2>1, <2>2
  <2> QED
    BY <1>7, <2>2 DEF ReportCoversFolios
<1> QED
  BY <1>1, <1>10

-----------------------------------------------------------------------------
(* Documents: sums of terms of one sort, and what is printed of them.      *)

LEMMA SumIsInt ==
  ASSUME NEW f, NEW T, IsFiniteSet(T), \A x \in T : f[x] \in Int
  PROVE  SumFunctionOnSet(f, T) \in Int
BY SumRemove

LEMMA SumOfInts ==
  ASSUME NEW T, IsFiniteSet(T), NEW f \in [T -> Int]
  PROVE  SumFunction(f) \in Int /\ SumFunction(f) = SumFunctionOnSet(f, T)
<1>1. DOMAIN f = T /\ \A x \in T : f[x] \in Int
  OBVIOUS
<1>2. SumFunctionOnSet(f, T) \in Int
  BY <1>1, SumIsInt
<1> QED
  BY <1>1, <1>2 DEF SumFunction

LEMMA EmptySum ==
  ASSUME NEW f, DOMAIN f = {}
  PROVE  SumFunction(f) = 0 /\ SumFunctionOnSet(f, {}) = 0
<1>1. SumFunctionOnSet(f, {}) = 0
  BY FS_EmptySet, SumStep
<1> QED
  BY <1>1 DEF SumFunction

LEMMA SumOfNats ==
  ASSUME NEW f, NEW T, IsFiniteSet(T), \A x \in T : f[x] \in Nat
  PROVE  SumFunctionOnSet(f, T) \in Nat
<1> DEFINE wrong(s) == s \in SUBSET T /\ SumFunctionOnSet(f, s) \notin Nat
           bad == {n \in Nat : \E s : wrong(s) /\ Cardinality(s) = n}
<1>1. \A s \in SUBSET T : IsFiniteSet(s) /\ Cardinality(s) \in Nat
  BY FS_Subset, FS_CardinalityType
<1>2. bad = {}
  <2> SUFFICES ASSUME bad # {} PROVE FALSE
    OBVIOUS
  <2>1. PICK m \in bad : \A n \in Nat : n < m => n \notin bad
    <3> HIDE DEF wrong
    <3> QED
      BY LeastExists
  <2>2. PICK s : wrong(s) /\ Cardinality(s) = m
    BY <2>1
  <2>3. s \in SUBSET T /\ IsFiniteSet(s) /\ SumFunctionOnSet(f, s) \notin Nat
    BY <1>1, <2>2
  <2>4. s # {}
    <3>1. s = {} => SumFunctionOnSet(f, s) = 0
      BY <2>3, SumStep, Zenon
    <3> QED
      BY <2>3, <3>1
  <2>5. SumFunctionOnSet(f, s) = f[Picked(s)] + SumFunctionOnSet(f, s \ {Picked(s)})
    BY <2>3, <2>4, SumStep
  <2>6. /\ Picked(s) \in s /\ s \ {Picked(s)} \in SUBSET T
        /\ Cardinality(s \ {Picked(s)}) \in Nat /\ Cardinality(s \ {Picked(s)}) < m
    BY <1>1, <2>2, <2>3, <2>4, PickedSmaller
  <2>7. ~wrong(s \ {Picked(s)})
    <3> HIDE DEF wrong
    <3> QED
      BY <2>1, <2>6
  <2>8. SumFunctionOnSet(f, s \ {Picked(s)}) \in Nat /\ f[Picked(s)] \in Nat
    BY <2>3, <2>6, <2>7
  <2> QED
    BY <2>3, <2>5, <2>8
<1>3. ~wrong(T)
  <2> HIDE DEF wrong
  <2> QED
    BY <1>1, <1>2
<1> QED
  BY <1>3

LEMMA SumOfParts ==
  ASSUME NEW S, NEW U, IsFiniteSet(S), IsFiniteSet(U), \A x \in S : x \notin U,
         NEW T, T = S \cup U, NEW f \in [T -> Int], NEW g \in [S -> Int], NEW h \in [U -> Int],
         \A x \in S : g[x] = f[x], \A x \in U : h[x] = f[x]
  PROVE  SumFunction(f) = SumFunction(g) + SumFunction(h)
<1>1. PICK V : V = T
  OBVIOUS
<1>2. IsFiniteSet(V)
  BY <1>1, FS_Union
<1> DEFINE onS == [x \in V |-> IF x \in S THEN f[x] ELSE 0]
           onU == [x \in V |-> IF x \in U THEN f[x] ELSE 0]
<1>3. onS \in [V -> Int] /\ onU \in [V -> Int] /\ f = [x \in V |-> onS[x] + onU[x]]
  BY <1>1
<1>4. /\ S \in SUBSET V /\ \A x \in V \ S : onS[x] = 0
      /\ U \in SUBSET V /\ \A x \in V \ U : onU[x] = 0
  BY <1>1
<1>5. [x \in S |-> onS[x]] = g /\ [x \in U |-> onU[x]] = h
  BY <1>1
<1> HIDE DEF onS, onU
<1>6. SumFunction([x \in V |-> onS[x] + onU[x]]) = SumFunction(onS) + SumFunction(onU)
  BY <1>2, <1>3, SumsAdd
<1>7. SumFunction(onS) = SumFunction([x \in S |-> onS[x]])
  BY <1>2, <1>3, <1>4, SumOfTerms
<1>8. SumFunction(onU) = SumFunction([x \in U |-> onU[x]])
  BY <1>2, <1>3, <1>4, SumOfTerms
<1> QED
  BY <1>3, <1>5, <1>6, <1>7, <1>8

LEMMA SumOfOpposites ==
  ASSUME NEW T, IsFiniteSet(T), NEW f \in [T -> Int]
  PROVE  SumFunction([x \in T |-> 0 - f[x]]) = 0 - SumFunction(f)
<1> DEFINE g == [x \in T |-> 0 - f[x]]
<1>1. g \in [T -> Int] /\ [x \in T |-> f[x] + g[x]] = [x \in T |-> 0]
  OBVIOUS
<1> HIDE DEF g
<1>2. SumFunction([x \in T |-> f[x] + g[x]]) = SumFunction(f) + SumFunction(g)
  BY <1>1, SumsAdd
<1>3. SumFunction([x \in T |-> f[x] + g[x]]) = 0
  BY <1>1, SumOfNothing
<1>4. SumFunction(f) \in Int /\ SumFunction(g) \in Int
  BY <1>1, SumOfInts
<1>5. SumFunction(g) = 0 - SumFunction(f)
  BY <1>2, <1>3, <1>4
<1> QED
  BY <1>5 DEF g

(* The same terms, at the places of a list or at those of its column.      *)
Column(T, k) == T \X {k}

LEMMA SumOfColumn ==
  ASSUME NEW T, IsFiniteSet(T), NEW f \in [T -> Int], NEW k,
         NEW g, DOMAIN g = Column(T, k), \A p \in Column(T, k) : g[p] = f[p[1]]
  PROVE  IsFiniteSet(Column(T, k)) /\ SumFunction(g) = SumFunction(f)
<1> USE DEF Column
<1> DEFINE C == T \X {k}
           b == [x \in T |-> <<x, k>>]
<1>1. b \in Bijection(T, C)
  <2>1. b \in [T -> C] /\ \A x, y \in T : b[x] = b[y] => x = y
    OBVIOUS
  <2>2. \A p \in C : \E x \in T : b[x] = p
    <3> SUFFICES ASSUME NEW p \in C PROVE \E x \in T : b[x] = p
      OBVIOUS
    <3>1. p[1] \in T /\ p = <<p[1], k>>
      OBVIOUS
    <3> QED
      BY <3>1
  <2> HIDE DEF b, C
  <2> QED
    BY <2>1, <2>2 DEF Bijection, Injection, IsInjective, Surjection
<1>2. \A x \in T : g[b[x]] = f[x] /\ f[x] \in Int
  OBVIOUS
<1>3. IsFiniteSet(C)
  <2>1. b \in Surjection(T, C)
    BY <1>1 DEF Bijection
  <2> HIDE DEF b, C
  <2> QED
    BY <2>1, FS_Surjection
<1>4. DOMAIN g = C /\ DOMAIN f = T
  OBVIOUS
<1>5. SumFunctionOnSet(f, T) = SumFunctionOnSet(g, C)
  <2> HIDE DEF b, C
  <2> QED
    BY <1>1, <1>2, SumsMatch
<1>6. SumFunction(g) = SumFunction(f)
  <2> HIDE DEF C
  <2> QED
    BY <1>4, <1>5 DEF SumFunction
<1> QED
  BY <1>3, <1>6

-----------------------------------------------------------------------------
(* Rounding                                                                *)

LEMMA RoundedEven ==
  ASSUME NEW num \in Int, NEW den \in {2, 100, 119}
  PROVE  /\ RoundHalfEven(num, den) \in Int
         /\ 2 * (den * RoundHalfEven(num, den) - num) \in (0 - den)..den
         /\ num >= 0 => RoundHalfEven(num, den) >= 0
<1>1. CASE den = 2
  BY <1>1 DEF RoundHalfEven
<1>2. CASE den = 100
  BY <1>2 DEF RoundHalfEven
<1>3. CASE den = 119
  BY <1>3 DEF RoundHalfEven
<1> QED
  BY <1>1, <1>2, <1>3

LEMMA RoundedZero ==
  ASSUME NEW den \in Nat \ {0}
  PROVE  RoundHalfUp(0, den) = 0
BY DEF RoundHalfUp

-----------------------------------------------------------------------------
(* The amounts of a document.                                              *)

LEMMA PlacesOfList ==
  ASSUME NEW S, NEW s \in Seq(S)
  PROVE  IsFiniteSet(DOMAIN s) /\ \A i \in DOMAIN s : s[i] \in S
<1>1. Len(s) \in Nat /\ DOMAIN s = 1..Len(s) /\ \A i \in 1..Len(s) : s[i] \in S
  OBVIOUS
<1>2. IsFiniteSet(1..Len(s))
  BY <1>1, FS_Interval
<1> QED
  BY <1>1, <1>2

LEMMA LineIsInt ==
  ASSUME NEW item \in ItemOfRequest
  PROVE  Amount(item) \in Int
<1>1. item.halves * item.unit_price \in Int /\ item.discount_amount \in Int /\ item.discount_pct \in Int
  BY DEF ItemOfRequest, NULL
<1>2. GrossAmount(item) \in Int
  BY <1>1, RoundedEven DEF GrossAmount
<1>3. GrossAmount(item) * item.discount_pct \in Int
  BY <1>1, <1>2
<1>4. Discount(item) \in Int
  BY <1>1, <1>3, RoundedEven DEF Discount
<1> QED
  BY <1>2, <1>4 DEF Amount

LEMMA LinesAreInts ==
  ASSUME NEW items \in Seq(ItemOfRequest)
  PROVE  /\ IsFiniteSet(DOMAIN items)
         /\ \A i \in DOMAIN items : LineAmounts(items)[i] \in Int
                                    /\ LineAmounts(items)[i] = Amount(items[i])
         /\ \A S \in SUBSET (DOMAIN items) :
              IsFiniteSet(S) /\ SumFunctionOnSet(LineAmounts(items), S) \in Int
<1>1. IsFiniteSet(DOMAIN items) /\ \A i \in DOMAIN items : items[i] \in ItemOfRequest
  BY PlacesOfList
<1>2. \A i \in DOMAIN items : LineAmounts(items)[i] = Amount(items[i])
  BY DEF LineAmounts
<1>3. \A i \in DOMAIN items : LineAmounts(items)[i] \in Int
  BY <1>1, <1>2, LineIsInt
<1>4. ASSUME NEW S \in SUBSET (DOMAIN items)
      PROVE  IsFiniteSet(S) /\ SumFunctionOnSet(LineAmounts(items), S) \in Int
  <2>1. IsFiniteSet(S)
    BY <1>1, FS_Subset
  <2>2. \A i \in S : LineAmounts(items)[i] \in Int
    BY <1>3
  <2> QED
    BY <2>1, <2>2, SumIsInt
<1> QED
  BY <1>1, <1>2, <1>3, <1>4

LEMMA GlobalsAreInts ==
  ASSUME NEW dte \in Request, NEW base \in Int, NEW scopes
  PROVE  /\ ApplyGlobal(dte, base, scopes) \in Int
         /\ dte.global_discounts = <<>> => ApplyGlobal(dte, base, scopes) = base
<1> DEFINE globals == dte.global_discounts
           within == {i \in DOMAIN globals : globals[i].scope \in scopes}
           f == [i \in within |-> GlobalOver(globals[i], base)]
<1>1. IsFiniteSet(DOMAIN globals) /\ \A i \in DOMAIN globals : globals[i] \in GlobalOfRequest
  <2>1. globals \in Seq(GlobalOfRequest)
    BY DEF Request, DocumentOfRequest
  <2> HIDE DEF globals
  <2> QED
    BY <2>1, PlacesOfList
<1>2. ASSUME NEW g \in GlobalOfRequest PROVE GlobalOver(g, base) \in Int
  <2>1. g.value \in Int /\ base * g.value \in Int
    BY DEF GlobalOfRequest
  <2>2. RoundHalfEven(base * g.value, 100) \in Int
    BY <2>1, RoundedEven
  <2> QED
    BY <2>1, <2>2 DEF GlobalOver
<1>3. IsFiniteSet(within)
  BY <1>1, FS_Subset
<1>4. f \in [within -> Int]
  BY <1>1, <1>2
<1>5. SumFunction(f) \in Int
  <2> HIDE DEF f, within
  <2> QED
    BY <1>3, <1>4, SumOfInts
<1>6. ApplyGlobal(dte, base, scopes) = base + SumFunction(f)
  BY DEF ApplyGlobal
<1>7. ASSUME globals = <<>> PROVE SumFunction(f) = 0
  <2>1. DOMAIN f = {}
    BY <1>7
  <2> HIDE DEF f
  <2> QED
    BY <2>1, EmptySum
<1> HIDE DEF f
<1> QED
  BY <1>5, <1>6, <1>7

(* The net, the tax and the exempt amount: a tax that is nothing when the  *)
(* net is, and the rate over the net to the rounding of one division.      *)
LEMMA VatOfNet ==
  ASSUME NEW dte \in Request
  PROVE  /\ NetAmount(dte) \in Int /\ Vat(dte) \in Int /\ ExemptAmount(dte) \in Int
         /\ NetAmount(dte) = 0 => Vat(dte) = 0
         /\ IsExempt(dte) => NetAmount(dte) = 0
         /\ dte.prices_include_vat =>
              /\ NetAmount(dte) + Vat(dte) = Affected(dte)
              /\ 100 * Vat(dte) - 19 * NetAmount(dte) \in -59..59
         /\ ~dte.prices_include_vat => 100 * Vat(dte) - 19 * NetAmount(dte) \in -50..50
<1>1. dte.items \in Seq(ItemOfRequest) /\ dte.prices_include_vat \in BOOLEAN
  BY DEF Request, DocumentOfRequest
<1>2. ExemptLines(dte) \in SUBSET (DOMAIN dte.items)
  BY DEF ExemptLines
<1>3. BaseExempt(dte) \in Int /\ BaseAffected(dte) \in Int
  BY <1>1, <1>2, LinesAreInts DEF BaseExempt, BaseAffected
<1>4. Affected(dte) \in Int /\ ExemptAmount(dte) \in Int
  BY <1>3, GlobalsAreInts DEF Affected, ExemptAmount
<1>5. ASSUME IsExempt(dte) PROVE BaseAffected(dte) = 0
  <2>1. DOMAIN dte.items \ ExemptLines(dte) = {}
    BY <1>5 DEF ExemptLines
  <2>2. SumFunctionOnSet(LineAmounts(dte.items), {}) = 0
    BY FS_EmptySet, SumStep
  <2> QED
    BY <2>1, <2>2 DEF BaseAffected
<1>6. CASE IsExempt(dte)
  <2>1. NetAmount(dte) = 0
    BY <1>6 DEF NetAmount
  <2>2. ASSUME dte.prices_include_vat PROVE Affected(dte) = 0
    <3>1. dte.global_discounts = <<>>
      BY <2>2 DEF Request
    <3> QED
      BY <1>3, <1>5, <1>6, <3>1, GlobalsAreInts DEF Affected
  <2>3. Vat(dte) = 0
    <3>1. RoundHalfEven(NetAmount(dte) * VAT_RATE, 100) = 0
      BY <2>1 DEF RoundHalfEven, VAT_RATE
    <3> QED
      BY <2>1, <2>2, <3>1 DEF Vat
  <2> QED
    BY <1>4, <2>1, <2>2, <2>3
<1>7. CASE ~IsExempt(dte) /\ dte.prices_include_vat
  <2>1. NetAmount(dte) = RoundHalfEven(100 * Affected(dte), 119)
    BY <1>7 DEF NetAmount, VAT_RATE
  <2>2. Vat(dte) = Affected(dte) - NetAmount(dte)
    BY <1>7 DEF Vat
  <2>3. /\ NetAmount(dte) \in Int
        /\ 2 * (119 * NetAmount(dte) - 100 * Affected(dte)) \in -119..119
    BY <1>4, <2>1, RoundedEven
  <2>4. ASSUME NEW n \in Int, NEW a \in Int, 2 * (119 * n - 100 * a) \in -119..119
        PROVE  /\ 100 * (a - n) - 19 * n \in -59..59
               /\ n + (a - n) = a
               /\ n = 0 => a - n = 0
    BY <2>4
  <2>5. /\ 100 * Vat(dte) - 19 * NetAmount(dte) \in -59..59
        /\ NetAmount(dte) + Vat(dte) = Affected(dte)
        /\ NetAmount(dte) = 0 => Vat(dte) = 0
    BY <1>4, <2>2, <2>3, <2>4
  <2> QED
    BY <1>4, <1>7, <2>2, <2>3, <2>5
<1>8. CASE ~IsExempt(dte) /\ ~dte.prices_include_vat
  <2>1. NetAmount(dte) = Affected(dte)
    BY <1>8 DEF NetAmount
  <2>2. Vat(dte) = RoundHalfEven(19 * NetAmount(dte), 100)
    BY <1>4, <1>8, <2>1 DEF Vat, VAT_RATE
  <2>3. Vat(dte) \in Int /\ 2 * (100 * Vat(dte) - 19 * NetAmount(dte)) \in -100..100
    BY <1>4, <2>1, <2>2, RoundedEven
  <2>4. RoundHalfEven(0, 100) = 0
    BY DEF RoundHalfEven
  <2> QED
    BY <1>4, <1>8, <2>1, <2>2, <2>3, <2>4
<1> QED
  BY <1>1, <1>6, <1>7, <1>8

-----------------------------------------------------------------------------
(* What is printed.                                                        *)

(* What every kind of document prints: three amounts and a record.         *)
LEMMA AmountsPrinted ==
  ASSUME NEW withNet \in BOOLEAN, NEW withExempt \in BOOLEAN, NEW withVat \in BOOLEAN,
         NEW net, NEW exempt, NEW vat, NEW rest,
         DOMAIN rest \cap {"MntNeto", "MntExe", "IVA"} = {},
         NEW t, t = Field(withNet, "MntNeto", net) ++ Field(withExempt, "MntExe", exempt)
                    ++ Field(withVat, "IVA", vat) ++ rest
  PROVE  /\ Printed(t, "MntNeto") = (IF withNet THEN net ELSE 0)
         /\ Printed(t, "MntExe") = (IF withExempt THEN exempt ELSE 0)
         /\ Printed(t, "IVA") = (IF withVat THEN vat ELSE 0)
         /\ \A x \in DOMAIN rest : x \in DOMAIN t /\ t[x] = rest[x]
         /\ DOMAIN t \subseteq {"MntNeto", "MntExe", "IVA"} \cup DOMAIN rest
<1> DEFINE n == Field(withNet, "MntNeto", net)
           e == Field(withExempt, "MntExe", exempt)
           v == Field(withVat, "IVA", vat)
<1>1. /\ DOMAIN n = (IF withNet THEN {"MntNeto"} ELSE {})
      /\ DOMAIN e = (IF withExempt THEN {"MntExe"} ELSE {})
      /\ DOMAIN v = (IF withVat THEN {"IVA"} ELSE {})
      /\ withNet => n["MntNeto"] = net
      /\ withExempt => e["MntExe"] = exempt
      /\ withVat => v["IVA"] = vat
  BY DEF Field
<1> HIDE DEF n, e, v
<1>2. t = n ++ e ++ v ++ rest
  BY DEF n, e, v
<1>3. DOMAIN t = ((DOMAIN n \cup DOMAIN e) \cup DOMAIN v) \cup DOMAIN rest
  BY <1>2 DEF ++
<1>4. /\ \A x \in DOMAIN n : t[x] = n[x]
      /\ \A x \in DOMAIN e : x \notin DOMAIN n => t[x] = e[x]
      /\ \A x \in DOMAIN v : x \notin DOMAIN n \cup DOMAIN e => t[x] = v[x]
      /\ \A x \in DOMAIN rest : x \notin DOMAIN n \cup DOMAIN e \cup DOMAIN v => t[x] = rest[x]
  BY <1>2 DEF ++
<1>5. /\ "MntNeto" \in DOMAIN t <=> withNet
      /\ "MntExe" \in DOMAIN t <=> withExempt
      /\ "IVA" \in DOMAIN t <=> withVat
  BY <1>1, <1>3
<1>6. /\ withNet => t["MntNeto"] = net
      /\ withExempt => t["MntExe"] = exempt
      /\ withVat => t["IVA"] = vat
  BY <1>1, <1>4
<1>7. \A x \in DOMAIN rest : x \in DOMAIN t /\ t[x] = rest[x]
  BY <1>1, <1>3, <1>4
<1>8. DOMAIN t \subseteq {"MntNeto", "MntExe", "IVA"} \cup DOMAIN rest
  BY <1>1, <1>3
<1> QED
  BY <1>5, <1>6, <1>7, <1>8 DEF Printed

(* What a document's totals say, whatever of it is printed.                *)
Says(t, dte, taxes) ==
  /\ Printed(t, "MntNeto") = NetAmount(dte)
  /\ Printed(t, "MntExe") = ExemptAmount(dte)
  /\ Printed(t, "IVA") = Vat(dte)
  /\ "MntTotal" \in DOMAIN t /\ t.MntTotal = TotalAmount(dte)
  /\ t.ImptoReten = taxes
  /\ "Comisiones" \notin DOMAIN t /\ "OtraMoneda" \notin DOMAIN t

LEMMA DocumentSays ==
  ASSUME NEW dte \in Request
  PROVE  /\ Says(Totales(dte), dte, ImptoReten(dte))
         /\ Says(ReceiptTotales(dte), dte, <<>>)
<1>1. /\ NetAmount(dte) \in Int /\ Vat(dte) \in Int /\ ExemptAmount(dte) \in Int
      /\ NetAmount(dte) = 0 => Vat(dte) = 0
      /\ IsExempt(dte) => NetAmount(dte) = 0
  BY VatOfNet
<1> DEFINE rest(taxes) == [type |-> dte.type, folio |-> dte.folio,
                           ImptoReten |-> taxes, MntTotal |-> TotalAmount(dte)]
<1>2. ASSUME NEW taxes
      PROVE  /\ DOMAIN rest(taxes) \cap {"MntNeto", "MntExe", "IVA"} = {}
             /\ {"Comisiones", "OtraMoneda"} \cap
                  ({"MntNeto", "MntExe", "IVA"} \cup DOMAIN rest(taxes)) = {}
             /\ "MntTotal" \in DOMAIN rest(taxes) /\ "ImptoReten" \in DOMAIN rest(taxes)
             /\ rest(taxes)["MntTotal"] = TotalAmount(dte)
             /\ rest(taxes)["ImptoReten"] = taxes
  OBVIOUS
<1>3. ASSUME NEW withNet \in BOOLEAN, NEW withExempt \in BOOLEAN, NEW withVat \in BOOLEAN,
             ~withNet => NetAmount(dte) = 0, ~withExempt => ExemptAmount(dte) = 0,
             ~withVat => Vat(dte) = 0,
             NEW taxes, NEW t,
             t = Field(withNet, "MntNeto", NetAmount(dte))
                 ++ Field(withExempt, "MntExe", ExemptAmount(dte))
                 ++ Field(withVat, "IVA", Vat(dte)) ++ rest(taxes)
      PROVE  Says(t, dte, taxes)
  <2>1. PICK r : r = rest(taxes)
    OBVIOUS
  <2> HIDE DEF rest
  <2>2. /\ DOMAIN r \cap {"MntNeto", "MntExe", "IVA"} = {}
        /\ {"Comisiones", "OtraMoneda"} \cap ({"MntNeto", "MntExe", "IVA"} \cup DOMAIN r) = {}
        /\ "MntTotal" \in DOMAIN r /\ "ImptoReten" \in DOMAIN r
        /\ r["MntTotal"] = TotalAmount(dte) /\ r["ImptoReten"] = taxes
    BY <1>2, <2>1
  <2>3. /\ Printed(t, "MntNeto") = (IF withNet THEN NetAmount(dte) ELSE 0)
        /\ Printed(t, "MntExe") = (IF withExempt THEN ExemptAmount(dte) ELSE 0)
        /\ Printed(t, "IVA") = (IF withVat THEN Vat(dte) ELSE 0)
        /\ \A x \in DOMAIN r : x \in DOMAIN t /\ t[x] = r[x]
        /\ DOMAIN t \subseteq {"MntNeto", "MntExe", "IVA"} \cup DOMAIN r
    BY <1>3, <2>1, <2>2, AmountsPrinted
  <2> QED
    BY <1>3, <2>2, <2>3 DEF Says
<1>4. Says(ReceiptTotales(dte), dte, <<>>)
  BY <1>3 DEF ReceiptTotales
<1>5. Says(Totales(dte), dte, ImptoReten(dte))
  <2> DEFINE c1 == ~IsExempt(dte) /\ (NetAmount(dte) # 0 \/ ExemptAmount(dte) = 0)
             c2 == IsExempt(dte) \/ ExemptAmount(dte) # 0
             c3 == NetAmount(dte) # 0
  <2>1. c1 \in BOOLEAN /\ c2 \in BOOLEAN /\ c3 \in BOOLEAN
    OBVIOUS
  <2>2. (~c1 => NetAmount(dte) = 0) /\ (~c2 => ExemptAmount(dte) = 0) /\ (~c3 => Vat(dte) = 0)
    BY <1>1
  <2>3. Totales(dte) = Field(c1, "MntNeto", NetAmount(dte))
                       ++ Field(c2, "MntExe", ExemptAmount(dte))
                       ++ Field(c3, "IVA", Vat(dte)) ++ rest(ImptoReten(dte))
    BY DEF Totales
  <2> HIDE DEF c1, c2, c3, rest
  <2> QED
    BY <1>3, <2>1, <2>2, <2>3
<1> QED
  BY <1>4, <1>5

-----------------------------------------------------------------------------
(* Taxes and retentions.                                                   *)
Retained(dte) == [i \in DOMAIN dte.retentions |-> RetentionOver(dte.retentions[i], Vat(dte))]
Added(dte) == [i \in DOMAIN dte.additional_taxes |-> TaxOver(dte.additional_taxes[i], dte.items)]

LEMMA TaxesAreInts ==
  ASSUME NEW dte \in Request
  PROVE  /\ IsFiniteSet(DOMAIN dte.retentions) /\ IsFiniteSet(DOMAIN dte.additional_taxes)
         /\ Retained(dte) \in [DOMAIN dte.retentions -> Int]
         /\ Added(dte) \in [DOMAIN dte.additional_taxes -> Int]
         /\ RetainedAmount(dte) = SumFunction(Retained(dte)) /\ RetainedAmount(dte) \in Int
         /\ AdditionalTaxAmount(dte) = SumFunction(Added(dte)) /\ AdditionalTaxAmount(dte) \in Int
<1> DEFINE Withheld == [code : Int, amount : {NULL} \cup Nat]
<1>1. /\ dte.retentions \in Seq(Withheld) /\ dte.additional_taxes \in Seq(TaxOfRequest)
      /\ dte.items \in Seq(ItemOfRequest)
  BY DEF Request, DocumentOfRequest
<1>2. /\ IsFiniteSet(DOMAIN dte.retentions) /\ IsFiniteSet(DOMAIN dte.additional_taxes)
      /\ \A i \in DOMAIN dte.retentions : dte.retentions[i] \in Withheld
      /\ \A i \in DOMAIN dte.additional_taxes : dte.additional_taxes[i] \in TaxOfRequest
  <2> HIDE DEF Withheld
  <2> QED
    BY <1>1, PlacesOfList
<1>3. ASSUME NEW r \in Withheld PROVE RetentionOver(r, Vat(dte)) \in Int
  BY VatOfNet DEF RetentionOver, NULL
<1>4. ASSUME NEW tax \in TaxOfRequest PROVE TaxOver(tax, dte.items) \in Int
  <2>1. tax.amount \in Int /\ tax.rate \in Int
    BY DEF TaxOfRequest, NULL
  <2>2. {i \in DOMAIN dte.items : dte.items[i].additional_tax_code = tax.code} \in SUBSET (DOMAIN dte.items)
    OBVIOUS
  <2>3. TaxBase(tax, dte.items) \in Int
    BY <1>1, <2>2, LinesAreInts DEF TaxBase
  <2>4. tax.rate * TaxBase(tax, dte.items) \in Int
    BY <2>1, <2>3
  <2>5. RoundHalfEven(tax.rate * TaxBase(tax, dte.items), 100) \in Int
    BY <2>4, RoundedEven
  <2> QED
    BY <2>1, <2>5 DEF TaxOver
<1>5. /\ Retained(dte) \in [DOMAIN dte.retentions -> Int]
      /\ Added(dte) \in [DOMAIN dte.additional_taxes -> Int]
  BY <1>2, <1>3, <1>4 DEF Retained, Added
<1>6. /\ RetainedAmount(dte) = SumFunction(Retained(dte))
      /\ AdditionalTaxAmount(dte) = SumFunction(Added(dte))
  BY DEF RetainedAmount, AdditionalTaxAmount, Retained, Added
<1>7. SumFunction(Retained(dte)) \in Int /\ SumFunction(Added(dte)) \in Int
  BY <1>2, <1>5, SumOfInts
<1> QED
  BY <1>2, <1>5, <1>6, <1>7

(* What an entry of <ImptoReten> adds to the total.                        *)
Told(dte) == {i \in DOMAIN dte.retentions : Retained(dte)[i] # 0}
Signed(taxes) == [p \in DOMAIN taxes |-> IF taxes[p].retained THEN 0 - taxes[p].amount
                                         ELSE taxes[p].amount]

LEMMA ImptoRetenSays ==
  ASSUME NEW dte, NEW taxes, taxes = ImptoReten(dte)
  PROVE  /\ DOMAIN taxes = Column(DOMAIN dte.additional_taxes, 1) \cup Column(Told(dte), 2)
         /\ \A p \in Column(DOMAIN dte.additional_taxes, 1) :
              /\ taxes[p].code = dte.additional_taxes[p[1]].code
              /\ Signed(taxes)[p] = Added(dte)[p[1]]
         /\ \A p \in Column(Told(dte), 2) :
              /\ taxes[p].code = dte.retentions[p[1]].code
              /\ Signed(taxes)[p] = 0 - Retained(dte)[p[1]]
<1> USE DEF Column
<1> DEFINE A == DOMAIN dte.additional_taxes
           added == [p \in Column(A, 1) |->
                  [code |-> dte.additional_taxes[p[1]].code, retained |-> FALSE,
                   amount |-> TaxOver(dte.additional_taxes[p[1]], dte.items)]]
           kept == [p \in Column(Told(dte), 2) |->
                 [code |-> dte.retentions[p[1]].code, retained |-> TRUE,
                  amount |-> RetentionOver(dte.retentions[p[1]], Vat(dte))]]
<1>1. Told(dte) = {i \in DOMAIN dte.retentions : RetentionOver(dte.retentions[i], Vat(dte)) # 0}
  BY DEF Told, Retained
<1>2. taxes = added ++ kept
  BY <1>1 DEF ImptoReten
<1>3. Column(A, 1) \cap Column(Told(dte), 2) = {}
  OBVIOUS
<1>4. ASSUME NEW p \in Column(A, 1)
      PROVE  /\ added[p].code = dte.additional_taxes[p[1]].code /\ added[p].retained = FALSE
             /\ added[p].amount = Added(dte)[p[1]]
  BY DEF Added
<1>5. ASSUME NEW p \in Column(Told(dte), 2)
      PROVE  /\ kept[p].code = dte.retentions[p[1]].code /\ kept[p].retained = TRUE
             /\ kept[p].amount = Retained(dte)[p[1]]
  BY DEF Retained, Told
<1>6. DOMAIN added = Column(A, 1) /\ DOMAIN kept = Column(Told(dte), 2)
  OBVIOUS
<1> HIDE DEF added, kept
<1>7. /\ DOMAIN taxes = Column(A, 1) \cup Column(Told(dte), 2)
      /\ \A p \in Column(A, 1) : taxes[p] = added[p]
      /\ \A p \in Column(Told(dte), 2) : taxes[p] = kept[p]
  BY <1>2, <1>3, <1>6 DEF ++
<1>8. ASSUME NEW p \in Column(A, 1)
      PROVE  /\ taxes[p].code = dte.additional_taxes[p[1]].code
             /\ Signed(taxes)[p] = Added(dte)[p[1]]
  <2>1. p \in DOMAIN taxes /\ taxes[p] = added[p]
    BY <1>7
  <2> QED
    BY <1>4, <2>1 DEF Signed
<1>9. ASSUME NEW p \in Column(Told(dte), 2)
      PROVE  /\ taxes[p].code = dte.retentions[p[1]].code
             /\ Signed(taxes)[p] = 0 - Retained(dte)[p[1]]
  <2>1. p \in DOMAIN taxes /\ taxes[p] = kept[p]
    BY <1>7
  <2> QED
    BY <1>5, <2>1 DEF Signed
<1> QED
  BY <1>7, <1>8, <1>9

LEMMA TaxesAddUp ==
  ASSUME NEW dte \in Request
  PROVE  SumFunction(Signed(ImptoReten(dte))) = AdditionalTaxAmount(dte) - RetainedAmount(dte)
<1>1. PICK A, R, a, r : /\ A = DOMAIN dte.additional_taxes /\ R = DOMAIN dte.retentions
                        /\ a = Added(dte) /\ r = Retained(dte)
  OBVIOUS
<1>2. /\ IsFiniteSet(A) /\ IsFiniteSet(R) /\ a \in [A -> Int] /\ r \in [R -> Int]
      /\ AdditionalTaxAmount(dte) = SumFunction(a) /\ AdditionalTaxAmount(dte) \in Int
      /\ RetainedAmount(dte) = SumFunction(r) /\ RetainedAmount(dte) \in Int
  BY <1>1, TaxesAreInts
<1>3. PICK told : told = Told(dte) /\ told = {i \in R : r[i] # 0}
  BY <1>1 DEF Told
<1>4. PICK taxes : taxes = ImptoReten(dte)
  OBVIOUS
<1> DEFINE f == Signed(taxes)
           k == [i \in told |-> r[i]]
           minus == [i \in told |-> 0 - k[i]]
<1>5. /\ DOMAIN f = Column(A, 1) \cup Column(told, 2)
      /\ \A p \in Column(A, 1) : f[p] = a[p[1]]
      /\ \A p \in Column(told, 2) : f[p] = 0 - r[p[1]]
  <2>1. DOMAIN f = DOMAIN taxes
    BY DEF Signed
  <2>2. /\ DOMAIN taxes = Column(DOMAIN dte.additional_taxes, 1) \cup Column(Told(dte), 2)
        /\ \A p \in Column(DOMAIN dte.additional_taxes, 1) : f[p] = Added(dte)[p[1]]
        /\ \A p \in Column(Told(dte), 2) : f[p] = 0 - Retained(dte)[p[1]]
    BY <1>4, ImptoRetenSays
  <2> HIDE DEF f
  <2> QED
    BY <1>1, <1>3, <2>1, <2>2
<1>6. told \in SUBSET R /\ IsFiniteSet(told)
  BY <1>2, <1>3, FS_Subset
<1>7. k \in [told -> Int] /\ minus \in [told -> Int]
  BY <1>2, <1>6
<1>8. SumFunction(k) = SumFunction(r)
  <2>1. \A i \in R \ told : r[i] = 0
    BY <1>3
  <2> QED
    BY <1>2, <1>6, <2>1, SumOfTerms
<1>9. SumFunction(minus) = 0 - SumFunction(k)
  <2> HIDE DEF k
  <2> QED
    BY <1>6, <1>7, SumOfOpposites
<1> DEFINE fa == [p \in Column(A, 1) |-> f[p]]
           fk == [p \in Column(told, 2) |-> f[p]]
<1>10. IsFiniteSet(Column(A, 1)) /\ SumFunction(fa) = SumFunction(a)
  <2>1. DOMAIN fa = Column(A, 1) /\ \A p \in Column(A, 1) : fa[p] = a[p[1]]
    BY <1>5
  <2> HIDE DEF fa
  <2> QED
    BY <1>2, <2>1, SumOfColumn
<1>11. IsFiniteSet(Column(told, 2)) /\ SumFunction(fk) = SumFunction(minus)
  <2>1. DOMAIN fk = Column(told, 2) /\ \A p \in Column(told, 2) : fk[p] = minus[p[1]]
    <3>1. \A p \in Column(told, 2) : p[1] \in told
      BY DEF Column
    <3>2. \A i \in told : minus[i] = 0 - r[i]
      OBVIOUS
    <3>3. DOMAIN fk = Column(told, 2) /\ \A p \in Column(told, 2) : fk[p] = f[p]
      OBVIOUS
    <3> HIDE DEF minus, fk, f, k
    <3> QED
      BY <1>5, <3>1, <3>2, <3>3
  <2>2. minus \in [told -> Int]
    BY <1>7
  <2>3. PICK x, y : x = minus /\ y = fk
    OBVIOUS
  <2> HIDE DEF fk, minus, k
  <2>4. x \in [told -> Int] /\ DOMAIN y = Column(told, 2) /\ \A p \in Column(told, 2) : y[p] = x[p[1]]
    BY <2>1, <2>2, <2>3
  <2>5. IsFiniteSet(Column(told, 2)) /\ SumFunction(y) = SumFunction(x)
    BY <1>6, <2>4, SumOfColumn
  <2> QED
    BY <2>3, <2>5
<1>12. SumFunction(f) = SumFunction(fa) + SumFunction(fk)
  <2>1. f = [p \in DOMAIN f |-> f[p]]
    BY DEF Signed
  <2>2. (\A p \in Column(A, 1) : f[p] \in Int) /\ \A p \in Column(told, 2) : f[p] \in Int
    <3>1. (\A p \in Column(A, 1) : a[p[1]] \in Int) /\ \A p \in Column(told, 2) : 0 - r[p[1]] \in Int
      BY <1>2, <1>6 DEF Column
    <3> HIDE DEF f
    <3> QED
      BY <1>5, <3>1
  <2>3. PICK S, U : S = Column(A, 1) /\ U = Column(told, 2)
    OBVIOUS
  <2>4. IsFiniteSet(S) /\ IsFiniteSet(U) /\ \A x \in S : x \notin U
    BY <1>10, <1>11, <2>3 DEF Column
  <2> HIDE DEF f
  <2>5. /\ f \in [S \cup U -> Int] /\ fa \in [S -> Int] /\ fk \in [U -> Int]
        /\ \A p \in S : fa[p] = f[p]
        /\ \A p \in U : fk[p] = f[p]
    BY <1>5, <2>1, <2>2, <2>3
  <2>6. PICK V, w, x, y : V = S \cup U /\ w = f /\ x = fa /\ y = fk
    OBVIOUS
  <2> HIDE DEF fa, fk
  <2>7. /\ V = S \cup U /\ w \in [V -> Int]
        /\ x \in [S -> Int] /\ \A z \in S : x[z] = w[z]
        /\ y \in [U -> Int] /\ \A z \in U : y[z] = w[z]
    BY <2>5, <2>6
  <2>8. SumFunction(w) = SumFunction(x) + SumFunction(y)
    BY <2>4, <2>7, SumOfParts
  <2> QED
    BY <2>6, <2>8
<1> HIDE DEF f, k, minus, fa, fk
<1>13. SumFunction(f) = SumFunction(a) + (0 - SumFunction(r))
  BY <1>8, <1>9, <1>10, <1>11, <1>12
<1> QED
  BY <1>2, <1>4, <1>13 DEF f

-----------------------------------------------------------------------------
(* Which documents have taxes and retentions of their own.                 *)
LEMMA ReceiptsHaveNoTaxes ==
  ASSUME NEW dte \in Request, ValidContent(dte), dte.type \in ReceiptTypes
  PROVE  AdditionalTaxAmount(dte) = 0 /\ RetainedAmount(dte) = 0
<1>1. dte.type \notin RetentionAllowed /\ dte.type \notin AdditionalTaxAllowed
  BY DEF ReceiptTypes, RetentionAllowed, AdditionalTaxAllowed
<1>2. DOMAIN dte.retentions = {}
  <2>1. dte.retentions = <<>>
    BY <1>1 DEF ValidContent, ValidRetentions
  <2> QED
    BY <2>1
<1>3. DOMAIN dte.additional_taxes = {}
  BY <1>1 DEF ValidContent, ValidAdditionalTaxes
<1>4. DOMAIN Retained(dte) = {} /\ DOMAIN Added(dte) = {}
  BY <1>2, <1>3 DEF Retained, Added
<1>5. SumFunction(Retained(dte)) = 0 /\ SumFunction(Added(dte)) = 0
  BY <1>4, EmptySum
<1> QED
  BY <1>5, TaxesAreInts

LEMMA ClosesWithTaxes ==
  ASSUME NEW dte \in Request, NEW t, NEW taxes, Says(t, dte, taxes),
         SumFunction(Signed(taxes)) = AdditionalTaxAmount(dte) - RetainedAmount(dte)
  PROVE  TotalsClose(t)
<1>1. /\ NetAmount(dte) \in Int /\ Vat(dte) \in Int /\ ExemptAmount(dte) \in Int
      /\ AdditionalTaxAmount(dte) \in Int /\ RetainedAmount(dte) \in Int
  BY VatOfNet, TaxesAreInts
<1>2. [p \in DOMAIN t.ImptoReten |-> IF t.ImptoReten[p].retained THEN 0 - t.ImptoReten[p].amount
                                     ELSE t.ImptoReten[p].amount] = Signed(taxes)
  BY DEF Says, Signed
<1>3. t.MntTotal = NetAmount(dte) + ExemptAmount(dte) + Vat(dte) + SumFunction(Signed(taxes))
  BY <1>1 DEF Says, TotalAmount
<1>4. "Comisiones" \notin DOMAIN t
  BY DEF Says
<1>5. /\ Printed(t, "MntNeto") = NetAmount(dte) /\ Printed(t, "MntExe") = ExemptAmount(dte)
      /\ Printed(t, "IVA") = Vat(dte)
  BY DEF Says
<1>6. SumFunction(Signed(taxes)) \in Int
  BY <1>1
<1>7. ASSUME NEW n \in Int, NEW e \in Int, NEW v \in Int, NEW s \in Int,
             n = Printed(t, "MntNeto"), e = Printed(t, "MntExe"), v = Printed(t, "IVA"),
             s = SumFunction([p \in DOMAIN t.ImptoReten |->
                   IF t.ImptoReten[p].retained THEN 0 - t.ImptoReten[p].amount
                   ELSE t.ImptoReten[p].amount]),
             t.MntTotal = n + e + v + s
      PROVE  TotalsClose(t)
  BY <1>4, <1>7 DEF TotalsClose
<1> QED
  BY <1>1, <1>2, <1>3, <1>5, <1>6, <1>7

LEMMA DocumentTotalsClose ==
  ASSUME NEW dte \in Request, ValidContent(dte), NEW t, t = PrintedTotals(dte)
  PROVE  TotalsClose(t)
<1>1. CASE dte.type \in ReceiptTypes
  <2>1. Says(t, dte, <<>>)
    BY <1>1, DocumentSays DEF PrintedTotals
  <2>2. DOMAIN Signed(<<>>) = {}
    BY DEF Signed
  <2>3. SumFunction(Signed(<<>>)) = 0
    BY <2>2, EmptySum
  <2> QED
    BY <1>1, <2>1, <2>3, ReceiptsHaveNoTaxes, ClosesWithTaxes
<1>2. CASE dte.type \notin ReceiptTypes
  BY <1>2, DocumentSays, TaxesAddUp, ClosesWithTaxes DEF PrintedTotals
<1> QED
  BY <1>1, <1>2

-----------------------------------------------------------------------------
(* A total is what the customer pays.                                      *)
LEMMA TaxesNotNegative ==
  ASSUME NEW dte \in Request, ValidContent(dte), TaxedLinesPositive(dte)
  PROVE  AdditionalTaxAmount(dte) >= 0
<1>1. /\ dte.additional_taxes \in Seq(TaxOfRequest) /\ dte.items \in Seq(ItemOfRequest)
  BY DEF Request, DocumentOfRequest
<1>2. \A i \in DOMAIN dte.additional_taxes : dte.additional_taxes[i] \in TaxOfRequest
  BY <1>1, PlacesOfList
<1>3. \A i \in DOMAIN dte.additional_taxes : dte.additional_taxes[i].code # NULL
  <2> DEFINE declared == {dte.additional_taxes[i].code : i \in DOMAIN dte.additional_taxes}
  <2>1. declared # {} => declared \subseteq ADDITIONAL_TAX_CODES
    BY DEF ValidContent, ValidAdditionalTaxes
  <2>2. NULL \notin ADDITIONAL_TAX_CODES
    BY DEF ADDITIONAL_TAX_CODES, NULL
  <2>3. \A i \in DOMAIN dte.additional_taxes : dte.additional_taxes[i].code \in declared
    OBVIOUS
  <2> HIDE DEF declared
  <2> QED
    BY <2>1, <2>2, <2>3
<1>4. ASSUME NEW tax \in TaxOfRequest, tax.code # NULL PROVE TaxOver(tax, dte.items) \in Nat
  <2>1. /\ tax.amount # NULL => tax.amount \in Nat
        /\ tax.rate \in Nat
    BY DEF TaxOfRequest
  <2> DEFINE taxed == {i \in DOMAIN dte.items : dte.items[i].additional_tax_code = tax.code}
  <2>2. /\ taxed \in SUBSET (DOMAIN dte.items)
        /\ \A i \in taxed : dte.items[i].additional_tax_code # NULL
    BY <1>4
  <2>3. TaxBase(tax, dte.items) = SumFunctionOnSet(LineAmounts(dte.items), taxed)
    BY DEF TaxBase
  <2> HIDE DEF taxed
  <2>4. IsFiniteSet(taxed) /\ \A i \in taxed : LineAmounts(dte.items)[i] \in Nat
    <3>1. /\ IsFiniteSet(taxed)
          /\ \A i \in taxed : /\ LineAmounts(dte.items)[i] \in Int
                              /\ LineAmounts(dte.items)[i] = Amount(dte.items[i])
      BY <1>1, <2>2, LinesAreInts
    <3>2. \A i \in taxed : Amount(dte.items[i]) >= 0
      BY <2>2 DEF TaxedLinesPositive
    <3> QED
      BY <3>1, <3>2
  <2>5. TaxBase(tax, dte.items) \in Nat
    BY <2>3, <2>4, SumOfNats
  <2>6. tax.rate * TaxBase(tax, dte.items) \in Nat
    BY <2>1, <2>5
  <2>7. RoundHalfEven(tax.rate * TaxBase(tax, dte.items), 100) \in Nat
    BY <2>6, RoundedEven
  <2> QED
    BY <2>1, <2>7 DEF TaxOver
<1>5. /\ IsFiniteSet(DOMAIN dte.additional_taxes)
      /\ \A i \in DOMAIN dte.additional_taxes : Added(dte)[i] \in Nat
      /\ DOMAIN Added(dte) = DOMAIN dte.additional_taxes
      /\ AdditionalTaxAmount(dte) = SumFunction(Added(dte))
  BY <1>2, <1>3, <1>4, TaxesAreInts DEF Added
<1>6. SumFunctionOnSet(Added(dte), DOMAIN dte.additional_taxes) \in Nat
  BY <1>5, SumOfNats
<1> QED
  BY <1>5, <1>6 DEF SumFunction

LEMMA TotalNotNegative ==
  ASSUME NEW dte \in Request, ValidContent(dte), TaxedLinesPositive(dte)
  PROVE  TotalAmount(dte) >= 0
<1>1. /\ NetAmount(dte) \in Int /\ Vat(dte) \in Int /\ ExemptAmount(dte) \in Int
      /\ AdditionalTaxAmount(dte) \in Int /\ RetainedAmount(dte) \in Int
  BY VatOfNet, TaxesAreInts
<1>2. RetainedAmount(dte) <= NetAmount(dte) + Vat(dte) + ExemptAmount(dte)
  BY DEF ValidContent, ValidRetentions
<1> QED
  BY <1>1, <1>2, TaxesNotNegative DEF TotalAmount

LEMMA PrintedSays ==
  ASSUME NEW dte \in Request
  PROVE  Says(PrintedTotals(dte), dte, IF dte.type \in ReceiptTypes THEN <<>> ELSE ImptoReten(dte))
BY DocumentSays DEF PrintedTotals

LEMMA TaxIsOfTheNet ==
  ASSUME NEW dte \in Request, ValidContent(dte), NEW t, t = PrintedTotals(dte)
  PROVE  TaxOfNet(dte, t)
<1>1. /\ Printed(t, "MntNeto") = NetAmount(dte) /\ Printed(t, "IVA") = Vat(dte)
      /\ t.MntTotal = TotalAmount(dte)
  BY PrintedSays DEF Says
<1>2. /\ NetAmount(dte) \in Int /\ Vat(dte) \in Int /\ ExemptAmount(dte) \in Int
      /\ dte.prices_include_vat =>
              /\ NetAmount(dte) + Vat(dte) = Affected(dte)
              /\ 100 * Vat(dte) - 19 * NetAmount(dte) \in -59..59
      /\ ~dte.prices_include_vat => 100 * Vat(dte) - 19 * NetAmount(dte) \in -50..50
  BY VatOfNet
<1>3. dte.prices_include_vat => TotalAmount(dte) = Affected(dte) + ExemptAmount(dte)
  <2>1. dte.prices_include_vat => dte.type \in ReceiptTypes
    BY DEF Request
  <2> QED
    BY <1>2, <2>1, ReceiptsHaveNoTaxes DEF TotalAmount
<1> QED
  BY <1>1, <1>2, <1>3 DEF TaxOfNet, VAT_RATE

-----------------------------------------------------------------------------
(* The codes a line carries: its own, then those of the retentions.        *)
OwnCodes(item) == IF item.additional_tax_code # NULL THEN <<item.additional_tax_code>> ELSE <<>>
RetentionCodes(dte) == [i \in DOMAIN dte.retentions |-> dte.retentions[i].code]
CodesOn(dte, item) == {LineCodes(dte, item)[i] : i \in DOMAIN LineCodes(dte, item)}

LEMMA CodesKept ==
  ASSUME NEW dte \in Request
  PROVE  /\ RetentionCodes(dte) \in Seq(Int) /\ Len(RetentionCodes(dte)) = Len(dte.retentions)
         /\ DOMAIN dte.retentions = 1..Len(dte.retentions)
<1> DEFINE Withheld == [code : Int, amount : {NULL} \cup Nat]
<1>1. dte.retentions \in Seq(Withheld)
  BY DEF Request, DocumentOfRequest
<1>2. PICK n \in Nat : n = Len(dte.retentions) /\ DOMAIN dte.retentions = 1..n
  BY <1>1
<1>3. \A i \in 1..n : dte.retentions[i].code \in Int
  <2>1. \A r \in Withheld : r.code \in Int
    OBVIOUS
  <2> HIDE DEF Withheld
  <2> QED
    BY <1>1, <1>2, <2>1, PlacesOfList
<1>4. RetentionCodes(dte) = [i \in 1..n |-> dte.retentions[i].code]
  BY <1>2 DEF RetentionCodes
<1> HIDE DEF Withheld
<1>5. RetentionCodes(dte) \in [1..n -> Int]
  BY <1>3, <1>4
<1> QED
  BY <1>2, <1>5

LEMMA FirstCodes ==
  ASSUME NEW s \in Seq(Int), NEW m \in 0..Len(s), NEW i \in 1..m
  PROVE  i \in DOMAIN SubSeq(s, 1, m) /\ SubSeq(s, 1, m)[i] = s[i]
OBVIOUS

LEMMA LineCarries ==
  ASSUME NEW dte \in Request, NEW item \in ItemOfRequest
  PROVE  /\ item.additional_tax_code # NULL => item.additional_tax_code \in CodesOn(dte, item)
         /\ /\ ~item.exempt /\ ~IsExempt(dte)
            /\ Len(OwnCodes(item)) + Len(dte.retentions) <= MAX_LINE_TAX_CODES
            => \A j \in DOMAIN dte.retentions : dte.retentions[j].code \in CodesOn(dte, item)
<1> DEFINE own == OwnCodes(item)
<1>1. /\ own \in Seq(Int) /\ Len(own) \in 0..1
      /\ item.additional_tax_code # NULL =>
           Len(own) = 1 /\ own[1] = item.additional_tax_code
  <2>1. item.additional_tax_code \in Int
    BY DEF ItemOfRequest, NULL
  <2>2. PICK c : c = item.additional_tax_code /\ c \in Int
    BY <2>1
  <2>3. <<c>> \in Seq(Int) /\ Len(<<c>>) = 1 /\ <<c>>[1] = c
    BY <2>2
  <2>4. <<>> \in Seq(Int) /\ Len(<<>>) = 0
    OBVIOUS
  <2>5. CASE item.additional_tax_code = NULL
    <3>1. OwnCodes(item) = <<>>
      BY <2>5 DEF OwnCodes
    <3> QED
      BY <2>4, <2>5, <3>1
  <2>6. CASE item.additional_tax_code # NULL
    <3>1. OwnCodes(item) = <<c>>
      BY <2>2, <2>6 DEF OwnCodes
    <3> QED
      BY <2>2, <2>3, <2>6, <3>1
  <2> QED
    BY <2>5, <2>6
<1> HIDE DEF own
<1>2. PICK kept : kept = (IF item.exempt \/ IsExempt(dte) THEN <<>> ELSE RetentionCodes(dte))
  OBVIOUS
<1>3. kept \in Seq(Int) /\ Len(kept) \in Nat
  BY <1>2, CodesKept
<1>4. PICK all : all = own \o kept
  OBVIOUS
<1>5. /\ all \in Seq(Int) /\ Len(all) = Len(own) + Len(kept)
      /\ \A i \in 1..Len(own) : all[i] = own[i]
      /\ \A i \in 1..Len(kept) : all[Len(own) + i] = kept[i]
  BY <1>1, <1>3, <1>4
<1>6. PICK m : m = (IF Len(all) < 2 THEN Len(all) ELSE 2)
  OBVIOUS
<1>7. LineCodes(dte, item) = SubSeq(all, 1, m)
  BY <1>2, <1>4, <1>6 DEF own, LineCodes, OwnCodes, RetentionCodes, MAX_LINE_TAX_CODES
<1>8. ASSUME NEW i \in 1..m PROVE all[i] \in CodesOn(dte, item)
  <2>1. m \in 0..Len(all)
    BY <1>1, <1>3, <1>5, <1>6
  <2>2. i \in DOMAIN LineCodes(dte, item) /\ LineCodes(dte, item)[i] = all[i]
    BY <1>5, <1>7, <2>1, FirstCodes
  <2> QED
    BY <2>2 DEF CodesOn
<1>9. ASSUME item.additional_tax_code # NULL
      PROVE  item.additional_tax_code \in CodesOn(dte, item)
  <2>1. 1 \in 1..m /\ all[1] = item.additional_tax_code
    <3>1. Len(own) = 1 /\ own[1] = item.additional_tax_code
      BY <1>1, <1>9
    <3>2. Len(all) >= 1 /\ Len(all) \in Nat
      BY <1>3, <1>5, <3>1
    <3>3. all[1] = own[1]
      BY <1>5, <3>1
    <3> QED
      BY <1>6, <3>1, <3>2, <3>3
  <2> QED
    BY <1>8, <2>1
<1>10. ASSUME ~item.exempt, ~IsExempt(dte), NEW j \in DOMAIN dte.retentions,
              Len(OwnCodes(item)) + Len(dte.retentions) <= MAX_LINE_TAX_CODES
       PROVE  dte.retentions[j].code \in CodesOn(dte, item)
  <2>1. kept = RetentionCodes(dte)
    BY <1>2, <1>10
  <2>2. j \in 1..Len(kept) /\ kept[j] = dte.retentions[j].code /\ Len(kept) = Len(dte.retentions)
    BY <2>1, CodesKept DEF RetentionCodes
  <2>3. Len(own) + Len(kept) <= 2
    BY <1>1, <1>10, <2>2 DEF own, MAX_LINE_TAX_CODES
  <2>4. Len(own) + j \in 1..m /\ all[Len(own) + j] = kept[j]
    <3>1. Len(own) \in Nat /\ Len(kept) \in Nat /\ j \in Nat /\ 1 <= j /\ j <= Len(kept)
      BY <1>1, <1>3, <2>2
    <3>2. m = Len(own) + Len(kept)
      BY <1>5, <1>6, <2>3, <3>1
    <3>3. all[Len(own) + j] = kept[j]
      BY <1>5, <2>2
    <3> QED
      BY <3>1, <3>2, <3>3
  <2> QED
    BY <1>8, <2>2, <2>4
<1> QED
  BY <1>9, <1>10

LEMMA TaxesOnLines ==
  ASSUME NEW dte \in Request, ValidContent(dte), NEW t, t = PrintedTotals(dte)
  PROVE  HeaderTaxesOnLines(dte, t)
<1> DEFINE codes == {t.ImptoReten[p].code : p \in DOMAIN t.ImptoReten}
           carried == UNION {CodesOn(dte, dte.items[i]) : i \in DOMAIN dte.items}
           declared == {dte.additional_taxes[i].code : i \in DOMAIN dte.additional_taxes}
           taxed == {i \in DOMAIN dte.items : dte.items[i].additional_tax_code # NULL}
           used == {dte.items[i].additional_tax_code : i \in taxed}
<1>1. ASSUME \E i \in DOMAIN dte.items : ~dte.items[i].exempt, ~IsExempt(dte),
             Len(dte.additional_taxes) + Len(dte.retentions) <= MAX_LINE_TAX_CODES
      PROVE  codes \subseteq carried
  <2>1. \A i \in DOMAIN dte.items : dte.items[i] \in ItemOfRequest
    <3>1. dte.items \in Seq(ItemOfRequest)
      BY DEF Request, DocumentOfRequest
    <3> QED
      BY <3>1, PlacesOfList
  <2>2. \A i \in DOMAIN dte.items : CodesOn(dte, dte.items[i]) \subseteq carried
    OBVIOUS
  <2>3. used = declared
    BY DEF ValidContent, ValidAdditionalTaxes
  <2>4. \A i \in DOMAIN dte.additional_taxes : dte.additional_taxes[i].code \in declared
    OBVIOUS
  <2>5. \A c \in used : \E i \in DOMAIN dte.items : dte.items[i].additional_tax_code # NULL
                                                    /\ c = dte.items[i].additional_tax_code
    OBVIOUS
  <2> HIDE DEF carried, declared
  <2>6. \A i \in DOMAIN dte.additional_taxes : dte.additional_taxes[i].code \in carried
    <3> SUFFICES ASSUME NEW i \in DOMAIN dte.additional_taxes
                 PROVE  dte.additional_taxes[i].code \in carried
      OBVIOUS
    <3>1. PICK l \in DOMAIN dte.items : /\ dte.items[l].additional_tax_code # NULL
                                        /\ dte.additional_taxes[i].code
                                             = dte.items[l].additional_tax_code
      <4> HIDE DEF used
      <4> QED
        BY <2>3, <2>4, <2>5
    <3>2. dte.items[l].additional_tax_code \in CodesOn(dte, dte.items[l])
      BY <2>1, <3>1, LineCarries
    <3> QED
      BY <2>2, <3>1, <3>2
  <2>7. \A j \in DOMAIN dte.retentions : dte.retentions[j].code \in carried
    <3> SUFFICES ASSUME NEW j \in DOMAIN dte.retentions
                 PROVE  dte.retentions[j].code \in carried
      OBVIOUS
    <3>1. PICK l \in DOMAIN dte.items : ~dte.items[l].exempt
      BY <1>1
    <3>2. Len(dte.additional_taxes) \in Nat /\ Len(dte.retentions) \in Nat
          /\ DOMAIN dte.additional_taxes = 1..Len(dte.additional_taxes)
      BY DEF Request, DocumentOfRequest
    <3>3. dte.items[l].additional_tax_code # NULL => DOMAIN dte.additional_taxes # {}
      <4>1. dte.items[l].additional_tax_code # NULL => declared # {}
        BY <2>3
      <4> QED
        BY <4>1 DEF declared
    <3>4. Len(OwnCodes(dte.items[l])) <= Len(dte.additional_taxes)
          /\ Len(OwnCodes(dte.items[l])) \in Nat
      <4>1. CASE dte.items[l].additional_tax_code = NULL
        <5>1. Len(OwnCodes(dte.items[l])) = 0
          BY <4>1 DEF OwnCodes
        <5> QED
          BY <3>2, <5>1
      <4>2. CASE dte.items[l].additional_tax_code # NULL
        <5>1. Len(OwnCodes(dte.items[l])) = 1
          BY <4>2 DEF OwnCodes
        <5> QED
          BY <3>2, <3>3, <4>2, <5>1
      <4> QED
        BY <4>1, <4>2
    <3>5. Len(OwnCodes(dte.items[l])) + Len(dte.retentions) <= MAX_LINE_TAX_CODES
      <4>1. ASSUME NEW a \in Nat, NEW r \in Nat, NEW o \in Nat,
                   a + r <= MAX_LINE_TAX_CODES, o <= a
            PROVE  o + r <= MAX_LINE_TAX_CODES
        BY <4>1 DEF MAX_LINE_TAX_CODES
      <4>2. Len(dte.additional_taxes) + Len(dte.retentions) <= MAX_LINE_TAX_CODES
        BY <1>1
      <4> QED
        BY <3>2, <3>4, <4>1, <4>2
    <3>6. dte.retentions[j].code \in CodesOn(dte, dte.items[l])
      BY <1>1, <2>1, <3>1, <3>5, LineCarries
    <3> QED
      BY <2>2, <3>6
  <2>8. CASE dte.type \in ReceiptTypes
    <3>1. t.ImptoReten = <<>>
      BY <2>8, DocumentSays DEF PrintedTotals, Says
    <3> QED
      BY <3>1
  <2>9. CASE dte.type \notin ReceiptTypes
    <3>1. PICK taxes : taxes = ImptoReten(dte) /\ t.ImptoReten = taxes
      BY <2>9, DocumentSays DEF PrintedTotals, Says
    <3>2. /\ DOMAIN taxes = Column(DOMAIN dte.additional_taxes, 1) \cup Column(Told(dte), 2)
          /\ \A p \in Column(DOMAIN dte.additional_taxes, 1) :
              taxes[p].code = dte.additional_taxes[p[1]].code
          /\ \A p \in Column(Told(dte), 2) : taxes[p].code = dte.retentions[p[1]].code
      BY <3>1, ImptoRetenSays
    <3>3. /\ \A p \in Column(DOMAIN dte.additional_taxes, 1) : p[1] \in DOMAIN dte.additional_taxes
          /\ \A p \in Column(Told(dte), 2) : p[1] \in DOMAIN dte.retentions
      BY DEF Column, Told
    <3>4. \A p \in DOMAIN taxes : taxes[p].code \in carried
      BY <2>6, <2>7, <3>2, <3>3
    <3> QED
      BY <3>1, <3>4
  <2> QED
    BY <2>8, <2>9
<1> QED
  BY <1>1 DEF HeaderTaxesOnLines, CodesOn

-----------------------------------------------------------------------------
(* The line of the sales book: what it reads, and zero for what it does    *)
(* not.                                                                    *)
Booked(t) ==
  IF "OtraMoneda" \in DOMAIN t THEN InPesos(t)
  ELSE [f \in DOMAIN Element |-> Printed(t, Element[f])]
Commission(t, field) == IF "Comisiones" \in DOMAIN t THEN t.Comisiones[field] ELSE 0

LEMMA FourParts ==
  ASSUME NEW a, NEW b, NEW c, NEW d, NEW l, l = a ++ b ++ c ++ d, NEW x
  PROVE  /\ x \in DOMAIN a => l[x] = a[x]
         /\ x \notin DOMAIN a /\ x \in DOMAIN b => l[x] = b[x]
         /\ x \notin DOMAIN a \cup DOMAIN b \cup DOMAIN c /\ x \in DOMAIN d => l[x] = d[x]
BY DEF ++

LEMMA BookedLine ==
  ASSUME NEW t, NEW line, line = BookLine(SalesLine(t))
  PROVE  /\ line.exempt_amount = Booked(t)["exempt_amount"]
         /\ line.net_amount = Booked(t)["net_amount"]
         /\ line.vat_amount = Booked(t)["vat_amount"]
         /\ line.total_amount = Booked(t)["total_amount"]
         /\ line.commission_net = Commission(t, "ValComNeto")
         /\ line.commission_exempt = Commission(t, "ValComExe")
         /\ line.commission_vat = Commission(t, "ValComIVA")
<1>1. PICK b : b = IF "Comisiones" \in DOMAIN t
                   THEN [commission_net |-> t.Comisiones.ValComNeto,
                         commission_exempt |-> t.Comisiones.ValComExe,
                         commission_vat |-> t.Comisiones.ValComIVA]
                   ELSE <<>>
  OBVIOUS
<1>2. PICK a, c, l : a = Booked(t) /\ c = [doc_type |-> t.type] /\ l = SalesLine(t)
  OBVIOUS
<1>3. PICK d : d = BlankLine
  OBVIOUS
<1>4. l = a ++ b ++ c ++ d
  BY <1>1, <1>2, <1>3 DEF SalesLine, Booked
<1>5. DOMAIN a = {"exempt_amount", "net_amount", "vat_amount", "total_amount"}
  <2>1. DOMAIN Element = {"exempt_amount", "net_amount", "vat_amount", "total_amount"}
    BY DEF Element
  <2>2. DOMAIN a = DOMAIN Element
    BY <1>2 DEF Booked, InPesos
  <2> QED
    BY <2>1, <2>2
<1>6. /\ "Comisiones" \notin DOMAIN t => DOMAIN b = {}
      /\ "Comisiones" \in DOMAIN t =>
           /\ DOMAIN b = {"commission_net", "commission_exempt", "commission_vat"}
           /\ b.commission_net = Commission(t, "ValComNeto")
           /\ b.commission_exempt = Commission(t, "ValComExe")
           /\ b.commission_vat = Commission(t, "ValComIVA")
  BY <1>1 DEF Commission
<1>7. DOMAIN c = {"doc_type"}
  BY <1>2
<1>8. /\ {"currency", "commission_net", "commission_exempt", "commission_vat"} \subseteq DOMAIN d
      /\ d["currency"] = FALSE
      /\ d["commission_net"] = 0 /\ d["commission_exempt"] = 0 /\ d["commission_vat"] = 0
  <2>1. PICK u, v : /\ u = [doc_type |-> 0, voided |-> FALSE, currency |-> FALSE,
                            exchange_rate |-> NULL, non_recoverable_vat |-> <<>>,
                            other_taxes |-> <<>>, retained_vat_code |-> 15]
                    /\ v = [f \in MoneyFields |-> 0]
    OBVIOUS
  <2>2. d = u ++ v
    BY <1>3, <2>1 DEF BlankLine
  <2>3. /\ DOMAIN u = {"doc_type", "voided", "currency", "exchange_rate", "non_recoverable_vat",
                       "other_taxes", "retained_vat_code"}
        /\ u["currency"] = FALSE
    BY <2>1
  <2>4. /\ {"commission_net", "commission_exempt", "commission_vat"} \subseteq DOMAIN v
        /\ v["commission_net"] = 0 /\ v["commission_exempt"] = 0 /\ v["commission_vat"] = 0
    BY <2>1 DEF MoneyFields
  <2>5. /\ DOMAIN d = DOMAIN u \cup DOMAIN v
        /\ \A x \in DOMAIN u : d[x] = u[x]
        /\ \A x \in DOMAIN v : x \notin DOMAIN u => d[x] = v[x]
    BY <2>2 DEF ++
  <2> QED
    BY <2>3, <2>4, <2>5
<1>9. l["currency"] = FALSE
  BY <1>4, <1>5, <1>6, <1>7, <1>8, FourParts
<1>10. line = l
  BY <1>2, <1>9 DEF BookLine
<1>11. /\ l["exempt_amount"] = a["exempt_amount"] /\ l["net_amount"] = a["net_amount"]
       /\ l["vat_amount"] = a["vat_amount"] /\ l["total_amount"] = a["total_amount"]
  BY <1>4, <1>5, FourParts
<1>12. /\ l["commission_net"] = Commission(t, "ValComNeto")
       /\ l["commission_exempt"] = Commission(t, "ValComExe")
       /\ l["commission_vat"] = Commission(t, "ValComIVA")
  <2>1. CASE "Comisiones" \in DOMAIN t
    BY <1>4, <1>5, <1>6, <2>1, FourParts
  <2>2. CASE "Comisiones" \notin DOMAIN t
    BY <1>4, <1>5, <1>6, <1>7, <1>8, <2>2, FourParts DEF Commission
  <2> QED
    BY <2>1, <2>2
<1> QED
  BY <1>2, <1>10, <1>11, <1>12

(* A document in pesos.                                                    *)
LEMMA WorthInPesos ==
  ASSUME NEW t, "OtraMoneda" \notin DOMAIN t, "MntTotal" \in DOMAIN t, TotalsClose(t),
         Printed(t, "MntNeto") \in Int, Printed(t, "MntExe") \in Int, Printed(t, "IVA") \in Int,
         \A f \in {"ValComNeto", "ValComExe", "ValComIVA"} : Commission(t, f) \in Int
  PROVE  LineIsWorth(t.MntTotal, t)
<1>1. PICK line : line = BookLine(SalesLine(t))
  OBVIOUS
<1>2. /\ Booked(t)["exempt_amount"] = Printed(t, "MntExe")
      /\ Booked(t)["net_amount"] = Printed(t, "MntNeto")
      /\ Booked(t)["vat_amount"] = Printed(t, "IVA")
      /\ Booked(t)["total_amount"] = t.MntTotal
  BY DEF Booked, Element, Printed
<1>3. /\ line.exempt_amount = Printed(t, "MntExe") /\ line.net_amount = Printed(t, "MntNeto")
      /\ line.vat_amount = Printed(t, "IVA") /\ line.total_amount = t.MntTotal
      /\ line.commission_net = Commission(t, "ValComNeto")
      /\ line.commission_exempt = Commission(t, "ValComExe")
      /\ line.commission_vat = Commission(t, "ValComIVA")
  BY <1>1, <1>2, BookedLine
<1>4. ASSUME DOMAIN t.ImptoReten = {}
      PROVE  t.MntTotal = Printed(t, "MntExe") + Printed(t, "MntNeto") + Printed(t, "IVA")
                          - (Commission(t, "ValComNeto") + Commission(t, "ValComExe")
                             + Commission(t, "ValComIVA"))
  <2> DEFINE taxes == [p \in DOMAIN t.ImptoReten |->
                         IF t.ImptoReten[p].retained THEN 0 - t.ImptoReten[p].amount
                         ELSE t.ImptoReten[p].amount]
  <2>1. DOMAIN taxes = {}
    BY <1>4
  <2>2. t.MntTotal = Printed(t, "MntNeto") + Printed(t, "MntExe") + Printed(t, "IVA")
                     + SumFunction(taxes) - Commission(t, "ValComNeto")
                     - Commission(t, "ValComExe") - Commission(t, "ValComIVA")
    BY DEF TotalsClose, Commission
  <2> HIDE DEF taxes
  <2>3. SumFunction(taxes) = 0
    BY <2>1, EmptySum
  <2> QED
    BY <2>2, <2>3
<1> QED
  BY <1>1, <1>3, <1>4 DEF LineIsWorth

LEMMA DocumentIsWorth ==
  ASSUME NEW dte \in Request, ValidContent(dte), NEW t, t = PrintedTotals(dte)
  PROVE  LineIsWorth(t.MntTotal, t)
<1>1. /\ Printed(t, "MntNeto") \in Int /\ Printed(t, "MntExe") \in Int /\ Printed(t, "IVA") \in Int
      /\ "OtraMoneda" \notin DOMAIN t /\ "Comisiones" \notin DOMAIN t /\ "MntTotal" \in DOMAIN t
  BY PrintedSays, VatOfNet DEF Says
<1>2. \A f \in {"ValComNeto", "ValComExe", "ValComIVA"} : Commission(t, f) \in Int
  BY <1>1 DEF Commission
<1> QED
  BY <1>1, <1>2, DocumentTotalsClose, WorthInPesos

-----------------------------------------------------------------------------
(* Settlements.                                                            *)
LEMMA SumsOfSettlement ==
  ASSUME NEW s \in SettlementRequest
  PROVE  /\ SettledNet(s) \in Int /\ SettledExempt(s) \in Int /\ SettledVat(s) \in Int
         /\ CommissionNet(s) \in Int /\ CommissionExempt(s) \in Int /\ CommissionVat(s) \in Int
         /\ SettledNet(s) = 0 => SettledVat(s) = 0
         /\ s.commissions = <<>> =>
              CommissionNet(s) = 0 /\ CommissionExempt(s) = 0 /\ CommissionVat(s) = 0
<1> DEFINE Item == [amount : Int, exempt : BOOLEAN]
           Charge == [net_amount : Int, exempt_amount : Int, fixed : BOOLEAN, vat_amount : Int]
<1>1. s.items \in Seq(Item) /\ s.commissions \in Seq(Charge)
  BY DEF SettlementRequest
<1>2. /\ \A i \in Item : i.amount \in Int
      /\ \A c \in Charge : c.net_amount \in Int /\ c.exempt_amount \in Int /\ c.vat_amount \in Int
  OBVIOUS
<1> HIDE DEF Item, Charge
<1>3. /\ IsFiniteSet(DOMAIN s.items) /\ IsFiniteSet(DOMAIN s.commissions)
      /\ \A i \in DOMAIN s.items : s.items[i].amount \in Int
      /\ \A i \in DOMAIN s.commissions :
           /\ s.commissions[i].net_amount \in Int /\ s.commissions[i].exempt_amount \in Int
           /\ s.commissions[i].vat_amount \in Int
  BY <1>1, <1>2, PlacesOfList
<1>4. ASSUME NEW exempt PROVE SettledSum(s, exempt) \in Int
  <2> DEFINE places == {i \in DOMAIN s.items : s.items[i].exempt = exempt}
             f == [i \in places |-> s.items[i].amount]
  <2>1. IsFiniteSet(places) /\ f \in [places -> Int]
    BY <1>3, FS_Subset
  <2>2. SettledSum(s, exempt) = SumFunction(f)
    BY DEF SettledSum
  <2> HIDE DEF f, places
  <2> QED
    BY <2>1, <2>2, SumOfInts
<1>5. ASSUME NEW n \in Int
      PROVE  RoundHalfEven(n * VAT_RATE, 100) \in Int /\ (n = 0 => RoundHalfEven(n * VAT_RATE, 100) = 0)
  <2>1. n * VAT_RATE \in Int
    BY DEF VAT_RATE
  <2>2. RoundHalfEven(0, 100) = 0
    BY DEF RoundHalfEven
  <2>3. n = 0 => n * VAT_RATE = 0
    BY DEF VAT_RATE
  <2> QED
    BY <2>1, <2>2, <2>3, RoundedEven
<1>6. /\ SettledNet(s) \in Int /\ SettledExempt(s) \in Int /\ SettledVat(s) \in Int
      /\ SettledNet(s) = 0 => SettledVat(s) = 0
  BY <1>4, <1>5 DEF SettledNet, SettledExempt, SettledVat
<1> DEFINE C == DOMAIN s.commissions
           n == [i \in C |-> s.commissions[i].net_amount]
           e == [i \in C |-> s.commissions[i].exempt_amount]
           v == [i \in C |-> VatOfCommission(s.commissions[i])]
<1>7. n \in [C -> Int] /\ e \in [C -> Int] /\ v \in [C -> Int]
  BY <1>3, <1>5 DEF VatOfCommission
<1>8. CommissionNet(s) = SumFunction(n) /\ CommissionExempt(s) = SumFunction(e)
  BY DEF CommissionNet, CommissionExempt
<1>9. CommissionVat(s) = SumFunction(v)
      \/ /\ CommissionVat(s) = RoundHalfEven(CommissionNet(s) * VAT_RATE, 100)
  BY DEF CommissionVat
<1>10. s.commissions = <<>> => DOMAIN n = {} /\ DOMAIN e = {} /\ DOMAIN v = {}
  OBVIOUS
<1> HIDE DEF n, e, v
<1>11. SumFunction(n) \in Int /\ SumFunction(e) \in Int /\ SumFunction(v) \in Int
  BY <1>3, <1>7, SumOfInts
<1>12. s.commissions = <<>> => SumFunction(n) = 0 /\ SumFunction(e) = 0 /\ SumFunction(v) = 0
  BY <1>10, EmptySum
<1>13. CommissionVat(s) \in Int /\ (s.commissions = <<>> => CommissionVat(s) = 0)
  BY <1>5, <1>8, <1>9, <1>11, <1>12
<1> QED
  BY <1>6, <1>8, <1>11, <1>12, <1>13

LEMMA Associative ==
  ASSUME NEW f, NEW g, NEW h
  PROVE  f ++ g ++ h = f ++ (g ++ h)
<1>1. PICK u, v : u = f ++ g /\ v = g ++ h
  OBVIOUS
<1>2. /\ DOMAIN u = DOMAIN f \cup DOMAIN g /\ DOMAIN v = DOMAIN g \cup DOMAIN h
      /\ \A x \in DOMAIN u : u[x] = IF x \in DOMAIN f THEN f[x] ELSE g[x]
      /\ \A x \in DOMAIN v : v[x] = IF x \in DOMAIN g THEN g[x] ELSE h[x]
  BY <1>1 DEF ++
<1>3. (DOMAIN u) \cup (DOMAIN h) = (DOMAIN f) \cup (DOMAIN v)
  BY <1>2
<1>4. \A x \in (DOMAIN u) \cup (DOMAIN h) :
        (IF x \in DOMAIN u THEN u[x] ELSE h[x]) = (IF x \in DOMAIN f THEN f[x] ELSE v[x])
  BY <1>2
<1>5. u ++ h = f ++ v
  BY <1>3, <1>4 DEF ++
<1> QED
  BY <1>1, <1>5

(* What a settlement prints adds up with its commissions, and its line in  *)
(* the book is worth what remains for the principal (settlement.py).       *)
THEOREM SettlementReachesTheBook ==
  ASSUME NEW s \in SettlementRequest, NEW t, t = SettlementTotales(s)
  PROVE  TotalsClose(t) /\ LineIsWorth(t.MntTotal, t)
<1>1. PICK net, exempt, vat, cNet, cExempt, cVat :
        /\ net = SettledNet(s) /\ exempt = SettledExempt(s) /\ vat = SettledVat(s)
        /\ cNet = CommissionNet(s) /\ cExempt = CommissionExempt(s) /\ cVat = CommissionVat(s)
  OBVIOUS
<1>2. /\ net \in Int /\ exempt \in Int /\ vat \in Int
      /\ cNet \in Int /\ cExempt \in Int /\ cVat \in Int
      /\ net = 0 => vat = 0
      /\ s.commissions = <<>> => cNet = 0 /\ cExempt = 0 /\ cVat = 0
  BY <1>1, SumsOfSettlement
<1> DEFINE comisiones == [ValComNeto |-> cNet, ValComExe |-> cExempt, ValComIVA |-> cVat]
           com == Field(s.commissions # <<>>, "Comisiones", comisiones)
           last == [type |-> 43, folio |-> s.folio, ImptoReten |-> <<>>,
                    MntTotal |-> SettledTotal(s)]
<1>3. PICK rest : rest = com ++ last
  OBVIOUS
<1>4. t = Field(net # 0, "MntNeto", net) ++ Field(exempt # 0, "MntExe", exempt)
          ++ Field(net # 0, "IVA", vat) ++ rest
  <2>1. t = Field(net # 0, "MntNeto", net) ++ Field(exempt # 0, "MntExe", exempt)
            ++ Field(net # 0, "IVA", vat) ++ com ++ last
    BY <1>1 DEF SettlementTotales
  <2> HIDE DEF com, last
  <2> QED
    BY <1>3, <2>1, Associative
<1>5. /\ DOMAIN last = {"type", "folio", "ImptoReten", "MntTotal"}
      /\ last["ImptoReten"] = <<>> /\ last["MntTotal"] = SettledTotal(s)
  OBVIOUS
<1>6. /\ DOMAIN com = (IF s.commissions # <<>> THEN {"Comisiones"} ELSE {})
      /\ s.commissions # <<>> => com["Comisiones"] = comisiones
  BY DEF Field
<1>7. /\ comisiones.ValComNeto = cNet /\ comisiones.ValComExe = cExempt
      /\ comisiones.ValComIVA = cVat
  OBVIOUS
<1> HIDE DEF com, last, comisiones
<1>8. /\ DOMAIN rest = DOMAIN com \cup DOMAIN last
      /\ \A x \in DOMAIN com : rest[x] = com[x]
      /\ \A x \in DOMAIN last : x \notin DOMAIN com => rest[x] = last[x]
  BY <1>3 DEF ++
<1>9. /\ DOMAIN rest \cap {"MntNeto", "MntExe", "IVA"} = {} /\ "OtraMoneda" \notin DOMAIN rest
      /\ "MntTotal" \in DOMAIN rest /\ rest["MntTotal"] = SettledTotal(s)
      /\ "ImptoReten" \in DOMAIN rest /\ rest["ImptoReten"] = <<>>
      /\ "Comisiones" \in DOMAIN rest <=> s.commissions # <<>>
      /\ s.commissions # <<>> => rest["Comisiones"] = comisiones
  BY <1>5, <1>6, <1>8
<1>10. /\ Printed(t, "MntNeto") = (IF net # 0 THEN net ELSE 0)
       /\ Printed(t, "MntExe") = (IF exempt # 0 THEN exempt ELSE 0)
       /\ Printed(t, "IVA") = (IF net # 0 THEN vat ELSE 0)
       /\ \A x \in DOMAIN rest : x \in DOMAIN t /\ t[x] = rest[x]
       /\ DOMAIN t \subseteq {"MntNeto", "MntExe", "IVA"} \cup DOMAIN rest
  <2>1. (net # 0) \in BOOLEAN /\ (exempt # 0) \in BOOLEAN
    OBVIOUS
  <2>2. PICK p, q : p = (net # 0) /\ q = (exempt # 0)
    OBVIOUS
  <2>3. t = Field(p, "MntNeto", net) ++ Field(q, "MntExe", exempt)
            ++ Field(p, "IVA", vat) ++ rest
    BY <1>4, <2>2
  <2>4. p \in BOOLEAN /\ q \in BOOLEAN
    BY <2>1, <2>2
  <2>5. /\ Printed(t, "MntNeto") = (IF p THEN net ELSE 0)
        /\ Printed(t, "MntExe") = (IF q THEN exempt ELSE 0)
        /\ Printed(t, "IVA") = (IF p THEN vat ELSE 0)
        /\ \A x \in DOMAIN rest : x \in DOMAIN t /\ t[x] = rest[x]
        /\ DOMAIN t \subseteq {"MntNeto", "MntExe", "IVA"} \cup DOMAIN rest
    BY <1>9, <2>3, <2>4, AmountsPrinted
  <2> QED
    BY <2>2, <2>5
<1>11. /\ Printed(t, "MntNeto") = net /\ Printed(t, "MntExe") = exempt /\ Printed(t, "IVA") = vat
       /\ "OtraMoneda" \notin DOMAIN t /\ "MntTotal" \in DOMAIN t
       /\ t["MntTotal"] = SettledTotal(s) /\ t["ImptoReten"] = <<>>
       /\ "Comisiones" \in DOMAIN t <=> s.commissions # <<>>
       /\ s.commissions # <<>> => t["Comisiones"] = comisiones
  BY <1>2, <1>9, <1>10
<1>12. /\ Commission(t, "ValComNeto") = cNet /\ Commission(t, "ValComExe") = cExempt
       /\ Commission(t, "ValComIVA") = cVat
  BY <1>2, <1>7, <1>11 DEF Commission
<1>13. TotalsClose(t)
  <2> DEFINE taxes == [p \in DOMAIN t.ImptoReten |->
                         IF t.ImptoReten[p].retained THEN 0 - t.ImptoReten[p].amount
                         ELSE t.ImptoReten[p].amount]
  <2>1. DOMAIN taxes = {}
    BY <1>11
  <2>2. (t.MntTotal = Printed(t, "MntNeto") + Printed(t, "MntExe") + Printed(t, "IVA")
                     + SumFunction(taxes) - Commission(t, "ValComNeto")
                     - Commission(t, "ValComExe") - Commission(t, "ValComIVA"))
        => TotalsClose(t)
    BY DEF TotalsClose, Commission
  <2> HIDE DEF taxes
  <2>3. SumFunction(taxes) = 0
    BY <2>1, EmptySum
  <2>4. t.MntTotal = net + exempt + vat + 0 - cNet - cExempt - cVat
    <3>1. SettledTotal(s) = net + exempt + vat - cNet - cExempt - cVat
      BY <1>1 DEF SettledTotal
    <3>2. net + exempt + vat - cNet - cExempt - cVat = net + exempt + vat + 0 - cNet - cExempt - cVat
      BY <1>2
    <3> QED
      BY <1>11, <3>1, <3>2
  <2> QED
    BY <1>11, <1>12, <2>2, <2>3, <2>4
<1>14. \A f \in {"ValComNeto", "ValComExe", "ValComIVA"} : Commission(t, f) \in Int
  BY <1>2, <1>12
<1> QED
  BY <1>2, <1>11, <1>13, <1>14, WorthInPesos

-----------------------------------------------------------------------------
(* Exports.                                                                *)
LEMMA RoundedUp ==
  ASSUME NEW num \in Int, NEW den \in {2, 100, 1000000}
  PROVE  RoundHalfUp(num, den) \in Int
<1>1. CASE den = 2
  BY <1>1 DEF RoundHalfUp
<1>2. CASE den = 100
  BY <1>2 DEF RoundHalfUp
<1>3. CASE den = 1000000
  BY <1>3 DEF RoundHalfUp
<1> QED
  BY <1>1, <1>2, <1>3

LEMMA ExportTotalIsInt ==
  ASSUME NEW x \in ExportRequest
  PROVE  ExportTotal(x) \in Int
<1> DEFINE Item == [halves : Int, unit_price : Int, amount : Int,
                    discount_pct : 0..100, surcharge_pct : Nat]
<1>1. x.items \in Seq(Item) /\ x.global_discounts \in Seq(GlobalOfRequest)
  BY DEF ExportRequest
<1>2. ASSUME NEW item \in Item PROVE ExportLine(item) \in Int
  <2>1. /\ item.halves * item.unit_price \in Int /\ item.amount \in Int
        /\ item.discount_pct \in Int /\ item.surcharge_pct \in Int
    OBVIOUS
  <2>2. ExportGross(item) \in Int
    BY <2>1, RoundedUp DEF ExportGross
  <2>3. ASSUME NEW pct \in Int
        PROVE  UNIT * RoundHalfUp(ExportGross(item) * pct, 100 * UNIT) \in Int
    <3>1. ExportGross(item) * pct \in Int
      BY <2>2
    <3>2. RoundHalfUp(ExportGross(item) * pct, 1000000) \in Int
      BY <3>1, RoundedUp
    <3> QED
      BY <3>2 DEF UNIT
  <2> QED
    BY <2>1, <2>2, <2>3 DEF ExportLine
<1> HIDE DEF Item
<1>3. /\ IsFiniteSet(DOMAIN x.items) /\ \A i \in DOMAIN x.items : x.items[i] \in Item
      /\ IsFiniteSet(DOMAIN x.global_discounts)
      /\ \A i \in DOMAIN x.global_discounts : x.global_discounts[i] \in GlobalOfRequest
  BY <1>1, PlacesOfList
<1> DEFINE f == [i \in DOMAIN x.items |-> ExportLine(x.items[i])]
           g == [i \in DOMAIN x.global_discounts |->
                   ExportCharge(x.global_discounts[i], ExportBase(x))]
<1>4. f \in [DOMAIN x.items -> Int]
  BY <1>2, <1>3
<1>5. ExportBase(x) = SumFunction(f)
  BY DEF ExportBase
<1> HIDE DEF f
<1>6. ExportBase(x) \in Int
  BY <1>3, <1>4, <1>5, SumOfInts
<1>7. ASSUME NEW dr \in GlobalOfRequest PROVE ExportCharge(dr, ExportBase(x)) \in Int
  <2>1. dr.value \in Int
    BY DEF GlobalOfRequest
  <2>2. ExportBase(x) * dr.value \in Int /\ UNIT * dr.value \in Int
    BY <1>6, <2>1 DEF UNIT
  <2> QED
    BY <2>2 DEF ExportCharge
<1>8. g \in [DOMAIN x.global_discounts -> Int]
  BY <1>3, <1>7
<1>9. ExportTotal(x) = RoundHalfUp(100 * ExportBase(x) + SumFunction(g), 100)
  BY DEF ExportTotal
<1> HIDE DEF g
<1>10. SumFunction(g) \in Int
  BY <1>3, <1>8, SumOfInts
<1>11. 100 * ExportBase(x) + SumFunction(g) \in Int
  BY <1>6, <1>10
<1> QED
  BY <1>9, <1>11, RoundedUp

(* What an export prints is its total, and its line in the book is worth   *)
(* that total at the rate of the document, also where the amounts in pesos *)
(* are informed as zero (export_invoice.py, certification_fill.py).        *)
THEOREM ExportReachesTheBook ==
  ASSUME NEW x \in ExportRequest, NEW t, t = ExportTotales(x)
  PROVE  TotalsClose(t) /\ LineIsWorth(RoundHalfUp(t.MntTotal * x.exchange_rate, 100 * UNIT), t)
<1>1. PICK total, rate, converted :
        /\ total = ExportTotal(x) /\ total \in Int /\ rate = x.exchange_rate /\ rate \in Int
        /\ converted = IF x.payment_mode = NO_PAYMENT THEN 0
                       ELSE RoundHalfUp(total * rate, 100 * UNIT)
  BY ExportTotalIsInt DEF ExportRequest
<1>2. PICK other : other = [TpoCambio |-> rate, MntExe |-> converted, MntTotal |-> converted]
  OBVIOUS
<1>3. t = [type |-> x.type, folio |-> x.folio, ImptoReten |-> <<>>, MntExe |-> total,
           MntTotal |-> total, OtraMoneda |-> other]
  BY <1>1, <1>2 DEF ExportTotales
<1>4. /\ DOMAIN t = {"type", "folio", "ImptoReten", "MntExe", "MntTotal", "OtraMoneda"}
      /\ t["MntExe"] = total /\ t["MntTotal"] = total /\ t["OtraMoneda"] = other
      /\ t["ImptoReten"] = <<>>
  BY <1>3
<1>5. /\ DOMAIN other = {"TpoCambio", "MntExe", "MntTotal"}
      /\ other["TpoCambio"] = rate /\ other["MntExe"] = converted /\ other["MntTotal"] = converted
  BY <1>2
<1>6. /\ Printed(t, "MntNeto") = 0 /\ Printed(t, "IVA") = 0 /\ Printed(t, "MntExe") = total
      /\ Printed(t, "MntTotal") = total
  BY <1>4 DEF Printed
<1>7. TotalsClose(t)
  <2> DEFINE taxes == [p \in DOMAIN t.ImptoReten |->
                         IF t.ImptoReten[p].retained THEN 0 - t.ImptoReten[p].amount
                         ELSE t.ImptoReten[p].amount]
  <2>1. DOMAIN taxes = {}
    BY <1>4
  <2>2. (t.MntTotal = Printed(t, "MntNeto") + Printed(t, "MntExe") + Printed(t, "IVA")
                      + SumFunction(taxes) - 0 - 0 - 0) => TotalsClose(t)
    BY <1>4 DEF TotalsClose
  <2> HIDE DEF taxes
  <2>3. SumFunction(taxes) = 0
    BY <2>1, EmptySum
  <2> QED
    BY <1>1, <1>4, <1>6, <2>2, <2>3
<1>8. PICK worth : worth = RoundHalfUp(total * rate, 100 * UNIT)
  OBVIOUS
<1>9. worth \in Int
  <2>1. total * rate \in Int
    BY <1>1
  <2>2. RoundHalfUp(total * rate, 1000000) \in Int
    BY <2>1, RoundedUp
  <2> QED
    BY <1>8, <2>2 DEF UNIT
<1>10. converted = 0 \/ converted = worth
  BY <1>1, <1>8
<1>11. /\ Booked(t)["exempt_amount"] = worth /\ Booked(t)["total_amount"] = worth
       /\ Booked(t)["net_amount"] = 0 /\ Booked(t)["vat_amount"] = 0
  <2>1. PICK informed : informed = [f \in DOMAIN Element |-> Printed(t.OtraMoneda, Element[f])]
    OBVIOUS
  <2>2. DOMAIN Element = {"exempt_amount", "net_amount", "vat_amount", "total_amount"}
        /\ Element["exempt_amount"] = "MntExe" /\ Element["net_amount"] = "MntNeto"
        /\ Element["vat_amount"] = "IVA" /\ Element["total_amount"] = "MntTotal"
    BY DEF Element
  <2>3. /\ informed["exempt_amount"] = converted /\ informed["total_amount"] = converted
        /\ informed["net_amount"] = 0 /\ informed["vat_amount"] = 0
        /\ DOMAIN informed = DOMAIN Element
    BY <1>4, <1>5, <2>1, <2>2 DEF Printed
  <2>4. Booked(t) = IF \E f \in DOMAIN informed : informed[f] # 0 THEN informed
                    ELSE [f \in DOMAIN Element |->
                            RoundHalfUp(Printed(t, Element[f]) * t.OtraMoneda.TpoCambio, 100 * UNIT)]
    BY <1>4, <2>1 DEF Booked, InPesos
  <2>5. CASE \E f \in DOMAIN informed : informed[f] # 0
    <3>1. converted # 0
      BY <2>2, <2>3, <2>5
    <3> QED
      BY <1>10, <2>3, <2>4, <2>5, <3>1
  <2>6. CASE ~\E f \in DOMAIN informed : informed[f] # 0
    <3>1. Booked(t) = [f \in DOMAIN Element |-> RoundHalfUp(Printed(t, Element[f]) * rate, 100 * UNIT)]
      BY <1>4, <1>5, <2>4, <2>6
    <3>2. RoundHalfUp(0 * rate, 100 * UNIT) = 0
      <4>1. 0 * rate = 0 /\ 100 * UNIT \in Nat \ {0}
        BY <1>1 DEF UNIT
      <4> QED
        BY <4>1, RoundedZero
    <3> QED
      BY <1>6, <1>8, <2>2, <3>1, <3>2
  <2> QED
    BY <2>5, <2>6
<1>12. PICK line : line = BookLine(SalesLine(t))
  OBVIOUS
<1>13. /\ line.exempt_amount = worth /\ line.total_amount = worth
       /\ line.net_amount = 0 /\ line.vat_amount = 0
       /\ line.commission_net = 0 /\ line.commission_exempt = 0 /\ line.commission_vat = 0
  <2>1. /\ Commission(t, "ValComNeto") = 0 /\ Commission(t, "ValComExe") = 0
        /\ Commission(t, "ValComIVA") = 0
    BY <1>4 DEF Commission
  <2> QED
    BY <1>11, <1>12, <2>1, BookedLine
<1>14. LineIsWorth(worth, t)
  BY <1>9, <1>12, <1>13 DEF LineIsWorth
<1> QED
  BY <1>1, <1>4, <1>7, <1>8, <1>14

(* The totals of a document reach the book: what is printed adds up, the   *)
(* tax is that of the net, its taxes are on its lines (models.py).         *)
THEOREM DocumentReachesTheBook ==
  ASSUME NEW dte \in Request, ValidContent(dte), NEW t, t = PrintedTotals(dte)
  PROVE  /\ TotalsClose(t)
         /\ TaxedLinesPositive(dte) => t.MntTotal >= 0
         /\ TaxOfNet(dte, t)
         /\ HeaderTaxesOnLines(dte, t)
         /\ LineIsWorth(t.MntTotal, t)
<1>1. t.MntTotal = TotalAmount(dte)
  BY PrintedSays DEF Says
<1> QED
  BY <1>1, DocumentTotalsClose, TotalNotNegative, TaxIsOfTheNet, TaxesOnLines, DocumentIsWorth

-----------------------------------------------------------------------------
(* The specification                                                       *)

(* What the code computes of a question.                                   *)
AnswerOf(p, question) ==
  IF p = "document" THEN PrintedTotals(question)
  ELSE IF p = "settlement" THEN SettlementTotales(question)
  ELSE IF p = "export" THEN ExportTotales(question)
  ELSE IF p = "caf" THEN [refused |-> AllocatorRefuses(33, question.authorized, Instant(question),
                                                  HostBehind(question))]
  ELSE IF p = "comparison" THEN Differing(question.approved, question.emitted)
  ELSE IF p = "registry" THEN Reconcile(Normalize(question.detail, question.operation), question.source)
  ELSE IF p = "book" THEN BookSummary(question.lines, question.compra, question.factor)
  ELSE IF p = "guides" THEN GuideSummary(question)
  ELSE FolioSummary(question)

(* The inductive invariant: a question of its part, answered by the code.  *)
ComputationInv ==
  /\ done \in BOOLEAN
  /\ Asked
  /\ done => output = AnswerOf(part, input)

LEMMA ComputationStarts == ComputationInit => ComputationInv
BY DEF ComputationInit, ComputationInv, Asked

LEMMA ComputationStep ==
  ComputationInv /\ [ComputationNext]_computationVars => ComputationInv'
<1> SUFFICES ASSUME ComputationInv, [ComputationNext]_computationVars PROVE ComputationInv'
  OBVIOUS
<1>1. CASE ComputationNext
  <2>1. done' = TRUE /\ part' = part /\ input' = input
    BY <1>1 DEF ComputationNext, Answer
  <2>2. output' = AnswerOf(part, input)
    BY <1>1 DEF ComputationNext, Answer, AnswerOf
  <2>3. Asked'
    BY <2>1 DEF ComputationInv, Asked, Ask
  <2>4. output' = AnswerOf(part', input')
    BY <2>1, <2>2
  <2> QED
    BY <2>1, <2>3, <2>4 DEF ComputationInv
<1>2. CASE UNCHANGED computationVars
  BY <1>2 DEF computationVars, ComputationInv, Asked, Ask
<1> QED
  BY <1>1, <1>2

(* Every answer is the one the code computes, to a question of its part.   *)
THEOREM AnswersAreComputed == ComputationSpec => []ComputationInv
BY ComputationStarts, ComputationStep, PTL DEF ComputationSpec

(* No CAF is used after six months of its authorisation, whatever its date *)
(* and the instant and the clocks of the emission.                         *)
THEOREM CafsNeverOverstay == ComputationSpec => []CafNeverOverstays
<1>1. ComputationInv => CafNeverOverstays
  <2> SUFFICES ASSUME ComputationInv, Answered("caf")
               PROVE  UsedInTime(33, input.authorized, Instant(input), HostBehind(input),
                                 input.chile, output.refused)
    BY DEF CafNeverOverstays
  <2>1. input \in CafQuestion /\ part = "caf"
    BY QuestionsAssumption DEF ComputationInv, Asked, Ask, Answered
  <2>2. output.refused = AllocatorRefuses(33, input.authorized, Instant(input), HostBehind(input))
    BY <2>1 DEF ComputationInv, AnswerOf, Answered
  <2>3. /\ input.authorized \in Date /\ Instant(input) \in Moment
        /\ input.chile \in Nat /\ HostBehind(input) \in {0, input.chile}
    BY <2>1 DEF CafQuestion, Instant, HostBehind, Moment
  <2>4. 33 \in EXPIRING_TYPES
    BY DEF EXPIRING_TYPES
  <2> QED
    BY <2>2, <2>3, <2>4, CafIsUsedInTime
<1> QED
  BY <1>1, AnswersAreComputed, PTL

(* A balanced reconciliation has the same total on both sides, and two     *)
(* emissions without differences say the same, for any documents.          *)
THEOREM ComparisonsAlwaysTell == ComputationSpec => []ComparisonsTell
<1>1. ComputationInv => ComparisonsTell
  <2> SUFFICES ASSUME ComputationInv PROVE ComparisonsTell
    OBVIOUS
  <2>1. ASSUME Answered("registry")
        PROVE  BalancedMeansEqual(Normalize(input.detail, input.operation), input.source, output)
    <3>1. input \in RegistryQuestion /\ part = "registry"
      BY <2>1, QuestionsAssumption DEF ComputationInv, Asked, Ask, Answered
    <3>2. output = Reconcile(Normalize(input.detail, input.operation), input.source)
      BY <2>1, <3>1 DEF ComputationInv, AnswerOf, Answered
    <3> QED
      BY <3>1, <3>2, ReconciliationIsExact
  <2>2. ASSUME Answered("comparison")
        PROVE  ComparisonTells(input.approved, input.emitted, output)
    <3>1. input.approved \in Emissions /\ input.emitted \in Emissions /\ part = "comparison"
      BY <2>2 DEF ComputationInv, Asked, Ask, Answered
    <3>2. output = Differing(input.approved, input.emitted)
      BY <2>2, <3>1 DEF ComputationInv, AnswerOf, Answered
    <3>3. SetDocument = Document(Nat, Nat, Nat)
      BY DEF SetDocument, Document
    <3>4. /\ input.approved \in Seq(Document(Nat, Nat, Nat))
          /\ input.emitted \in Seq(Document(Nat, Nat, Nat))
      BY <3>1, <3>3, QuestionsAssumption
    <3> QED
      BY <3>2, <3>4, ComparisonIsExact
  <2> QED
    BY <2>1, <2>2 DEF ComparisonsTell
<1> QED
  BY <1>1, AnswersAreComputed, PTL

(* What a book, a book of guides or a report of folios declares in its     *)
(* summary is what the SII adds up from its detail, for any list of lines. *)
THEOREM SummariesAlwaysMatch == ComputationSpec => []SummaryMatchesDetail
<1>1. ComputationInv => SummaryMatchesDetail
  <2> SUFFICES ASSUME ComputationInv PROVE SummaryMatchesDetail
    OBVIOUS
  <2>1. ASSUME Answered("book") PROVE BookAddsUp(input.lines, input.compra, output)
    <3>1. input \in BookQuestion /\ part = "book"
      BY <2>1, QuestionsAssumption DEF ComputationInv, Asked, Ask, Answered
    <3>2. output = BookSummary(input.lines, input.compra, input.factor)
      BY <2>1, <3>1 DEF ComputationInv, AnswerOf, Answered
    <3> QED
      BY <3>1, <3>2, BooksAddUp
  <2>2. ASSUME Answered("guides") PROVE GuidesAddUp(input, output)
    <3>1. input \in Seq(LineOfGuides) /\ part = "guides"
      BY <2>2, QuestionsAssumption DEF ComputationInv, Asked, Ask, Answered
    <3>2. output = GuideSummary(input)
      BY <2>2, <3>1 DEF ComputationInv, AnswerOf, Answered
    <3> QED
      BY <3>1, <3>2, GuidesAlwaysAddUp
  <2>3. ASSUME Answered("report") PROVE ReportCoversFolios(input, output)
    <3>1. input \in Seq(LineOfReport) /\ part = "report"
      BY <2>3, QuestionsAssumption DEF ComputationInv, Asked, Ask, Answered
    <3>2. output = FolioSummary(input)
      BY <2>3, <3>1 DEF ComputationInv, AnswerOf, Answered
    <3> QED
      BY <3>1, <3>2, ReportsCoverTheirFolios
  <2> QED
    BY <2>1, <2>2, <2>3 DEF SummaryMatchesDetail
<1> QED
  BY <1>1, AnswersAreComputed, PTL

(* The totals of every document, settlement and export add up, its tax is  *)
(* that of its net, and its line in the sales book is worth the same, for  *)
(* any lines, charges, taxes, retentions and rate of exchange.             *)
THEOREM TotalsAlwaysReachTheBook == ComputationSpec => []TotalsReachTheBook
<1>1. ComputationInv => TotalsReachTheBook
  <2> SUFFICES ASSUME ComputationInv PROVE TotalsReachTheBook
    OBVIOUS
  <2>1. ASSUME Answered("document")
        PROVE  /\ TotalsClose(output)
               /\ TaxedLinesPositive(input) => output.MntTotal >= 0
               /\ TaxOfNet(input, output)
               /\ HeaderTaxesOnLines(input, output)
               /\ LineIsWorth(output.MntTotal, output)
    <3>1. input \in Request /\ ValidContent(input) /\ part = "document"
      BY <2>1, QuestionsAssumption DEF ComputationInv, Asked, Ask, Answered
    <3>2. output = PrintedTotals(input)
      BY <2>1, <3>1 DEF ComputationInv, AnswerOf, Answered
    <3> QED
      BY <3>1, <3>2, DocumentReachesTheBook
  <2>2. ASSUME Answered("settlement")
        PROVE  TotalsClose(output) /\ LineIsWorth(output.MntTotal, output)
    <3>1. input \in SettlementRequest /\ part = "settlement"
      BY <2>2, QuestionsAssumption DEF ComputationInv, Asked, Ask, Answered
    <3>2. output = SettlementTotales(input)
      BY <2>2, <3>1 DEF ComputationInv, AnswerOf, Answered
    <3> QED
      BY <3>1, <3>2, SettlementReachesTheBook
  <2>3. ASSUME Answered("export")
        PROVE  /\ TotalsClose(output)
               /\ LineIsWorth(RoundHalfUp(output.MntTotal * input.exchange_rate, 100 * UNIT),
                              output)
    <3>1. input \in ExportRequest /\ part = "export"
      BY <2>3, QuestionsAssumption DEF ComputationInv, Asked, Ask, Answered
    <3>2. output = ExportTotales(input)
      BY <2>3, <3>1 DEF ComputationInv, AnswerOf, Answered
    <3> QED
      BY <3>1, <3>2, ExportReachesTheBook
  <2> QED
    BY <2>1, <2>2, <2>3 DEF TotalsReachTheBook
<1> QED
  BY <1>1, AnswersAreComputed, PTL
=============================================================================
