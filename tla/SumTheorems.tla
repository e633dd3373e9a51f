------------------------------ MODULE SumTheorems ------------------------------
(***************************************************************************)
(* Sums of a function over a finite set, which the library defines by a    *)
(* table over the subsets, chosen element after element.  Without a scheme *)
(* of induction for the provers, each proof takes a smallest set, or       *)
(* number, of which the claim would be false and removes an element.       *)
(***************************************************************************)
EXTENDS Functions, FiniteSetTheorems, TLAPS

\* h computes the sums of f over the subsets of D, element after element.
Sums(h, f, D) ==
    h = [s \in SUBSET D |->
            IF s = {} THEN 0
            ELSE f[CHOOSE x \in s : TRUE] + h[s \ {CHOOSE x \in s : TRUE}]]

\* Among sets of elements of a finite set one has no smaller one.
LEMMA SmallestSet ==
    ASSUME NEW D, IsFiniteSet(D), NEW C \in SUBSET SUBSET D, C # {}
    PROVE  \E s \in C : \A t \in C : t \subseteq s => t = s
<1>1. IsWellFoundedOn(StrictSubsetOrdering(D), SUBSET D)
  BY FS_StrictSubsetOrderingWellFounded, FS_FiniteSubsetsOfFinite
<1>2. PICK s \in C : \A t \in C : ~ (<<t, s>> \in StrictSubsetOrdering(D))
  BY <1>1, WFMin
<1> QED
  BY <1>2 DEF StrictSubsetOrdering

\* Among natural numbers one is the smallest.
LEMMA SmallestNat ==
    ASSUME NEW C \in SUBSET Nat, C # {}
    PROVE  \E n \in C : \A m \in C : n <= m
<1>1. PICK n \in C : \A m \in C : ~ (<<m, n>> \in OpToRel(<, Nat))
  BY NatLessThanWellFounded, WFMin
<1>2. \A m \in C : ~ (m < n)
  BY <1>1 DEF OpToRel
<1> QED
  BY <1>2

\* Tables over ever larger subsets reach the whole of a finite set.
LEMMA SumsExist ==
    ASSUME NEW f, NEW D, IsFiniteSet(D)
    PROVE  \E h : Sums(h, f, D)
<1> DEFINE Small(n) == {s \in SUBSET D : Cardinality(s) <= n}
           Pick(s) == CHOOSE x \in s : TRUE
           Upto(h, n) ==
               h = [s \in Small(n) |->
                       IF s = {} THEN 0 ELSE f[Pick(s)] + h[s \ {Pick(s)}]]
           Missing == {n \in Nat : ~ \E h : Upto(h, n)}
<1>0. \A s \in SUBSET D : IsFiniteSet(s) /\ Cardinality(s) \in Nat
  BY FS_Subset, FS_CardinalityType
<1>1. 0 \notin Missing
  <2>1. \A s \in Small(0) : s = {}
    BY <1>0, FS_EmptySet
  <2>2. Upto([s \in Small(0) |-> 0], 0)
    BY <2>1
  <2> QED
    BY <2>2
<1>2. ASSUME NEW n \in Nat, n \notin Missing PROVE n + 1 \notin Missing
  <2>1. PICK g : Upto(g, n)
    BY <1>2
  <2> DEFINE h == [s \in Small(n + 1) |->
                      IF s = {} THEN 0 ELSE f[Pick(s)] + g[s \ {Pick(s)}]]
  <2>2. ASSUME NEW s \in Small(n + 1), s # {}
        PROVE  s \ {Pick(s)} \in Small(n)
    <3>1. Pick(s) \in s
      BY <2>2
    <3>2. Cardinality(s \ {Pick(s)}) = Cardinality(s) - 1
      BY <1>0, <3>1, FS_RemoveElement
    <3> QED
      BY <1>0, <3>2
  <2>3. \A s \in Small(n) : s \in Small(n + 1) /\ h[s] = g[s]
    <3>1. TAKE s \in Small(n)
    <3>2. s \in Small(n + 1)
      BY <1>0
    <3>3. g[s] = IF s = {} THEN 0 ELSE f[Pick(s)] + g[s \ {Pick(s)}]
      BY <2>1
    <3>4. h[s] = IF s = {} THEN 0 ELSE f[Pick(s)] + g[s \ {Pick(s)}]
      BY <3>2
    <3> QED
      BY <3>2, <3>3, <3>4
  <2> HIDE DEF Small, Pick
  <2>4. \A s \in Small(n + 1) :
           h[s] = IF s = {} THEN 0 ELSE f[Pick(s)] + h[s \ {Pick(s)}]
    BY <2>2, <2>3
  <2>5. Upto(h, n + 1)
    <3>1. h = [s \in Small(n + 1) |-> h[s]]
      OBVIOUS
    <3> HIDE DEF h
    <3> QED
      BY <2>4, <3>1
  <2> QED
    BY <2>5
<1>3. Missing = {}
  <2>0. Missing \subseteq Nat
    OBVIOUS
  <2> HIDE DEF Missing
  <2> SUFFICES ASSUME Missing # {} PROVE FALSE
    OBVIOUS
  <2>1. PICK n \in Missing : \A m \in Missing : n <= m
    BY <2>0, SmallestNat
  <2>2. n \in Nat /\ n # 0
    BY <1>1, <2>0
  <2>3. n - 1 \in Nat /\ n - 1 \notin Missing
    BY <2>0, <2>1, <2>2
  <2>4. (n - 1) + 1 \notin Missing
    BY <1>2, <2>3
  <2> QED
    BY <2>2, <2>4
<1>4. PICK h : Upto(h, Cardinality(D))
  BY <1>0, <1>3
<1>5. Small(Cardinality(D)) = SUBSET D
  BY FS_Subset
<1> QED
  BY <1>4, <1>5 DEF Sums

\* A table adds the chosen element to the sum of the others.
LEMMA SumsStep ==
    ASSUME NEW f, NEW D, NEW h, Sums(h, f, D), NEW s \in SUBSET D
    PROVE  /\ s = {} => h[s] = 0
           /\ s # {} => \E x \in s : /\ x = CHOOSE y \in s : TRUE
                                     /\ h[s] = f[x] + h[s \ {x}]
  BY DEF Sums

\* Tables of functions that agree on a set have the same sum of it.
LEMMA SumsAgree ==
    ASSUME NEW f, NEW g, NEW D, NEW E, NEW h, NEW k,
           Sums(h, f, D), Sums(k, g, E),
           NEW s, IsFiniteSet(s), s \subseteq D, s \subseteq E,
           \A x \in s : f[x] = g[x]
    PROVE  h[s] = k[s]
<1> DEFINE Bad == {t \in SUBSET s : h[t] # k[t]}
<1> SUFFICES ASSUME Bad # {} PROVE FALSE
  OBVIOUS
<1>1. PICK t \in Bad : \A u \in Bad : u \subseteq t => u = t
  <2>1. Bad \in SUBSET SUBSET s
    OBVIOUS
  <2> HIDE DEF Bad
  <2> QED
    BY <2>1, SmallestSet
<1>2. t # {}
  BY SumsStep
<1>3. PICK x \in t : x = (CHOOSE y \in t : TRUE) /\ h[t] = f[x] + h[t \ {x}]
  BY <1>2, SumsStep
<1>4. k[t] = g[x] + k[t \ {x}]
  <2>1. t \in SUBSET E
    OBVIOUS
  <2>2. \E y \in t : y = (CHOOSE z \in t : TRUE) /\ k[t] = g[y] + k[t \ {y}]
    BY <1>2, <2>1, SumsStep
  <2> QED
    BY <1>3, <2>2
<1>5. h[t \ {x}] = k[t \ {x}]
  BY <1>1
<1> QED
  BY <1>3, <1>4, <1>5

\* Any element can be taken out of a table's sum, not the chosen one alone.
LEMMA SumsAnyOrder ==
    ASSUME NEW D, IsFiniteSet(D), NEW f, \A y \in D : f[y] \in Int,
           NEW h, Sums(h, f, D), NEW s \in SUBSET D
    PROVE  /\ h[s] \in Int
           /\ \A x \in s : h[s] = f[x] + h[s \ {x}]
<1> DEFINE Good(t) == h[t] \in Int /\ \A x \in t : h[t] = f[x] + h[t \ {x}]
           Bad == {t \in SUBSET D : ~ Good(t)}
<1> SUFFICES ASSUME Bad # {} PROVE FALSE
  OBVIOUS
<1>1. PICK t \in Bad : \A u \in Bad : u \subseteq t => u = t
  <2>1. Bad \in SUBSET SUBSET D
    OBVIOUS
  <2> HIDE DEF Bad
  <2> QED
    BY <2>1, SmallestSet
<1>2. t # {}
  BY SumsStep
<1>3. PICK c \in t : h[t] = f[c] + h[t \ {c}]
  BY <1>2, SumsStep
<1>4. \A x \in t : Good(t \ {x})
  BY <1>1
<1> HIDE DEF Good
<1>5. h[t] \in Int
  <2>1. f[c] \in Int /\ h[t \ {c}] \in Int
    BY <1>4 DEF Good
  <2> QED
    BY <1>3, <2>1
<1>6. ASSUME NEW x \in t PROVE h[t] = f[x] + h[t \ {x}]
  <2>1. CASE x = c
    BY <1>3, <2>1
  <2>2. CASE x # c
    <3>1. h[t \ {c}] = f[x] + h[(t \ {c}) \ {x}]
      BY <1>4, <2>2 DEF Good
    <3>2. h[t \ {x}] = f[c] + h[(t \ {x}) \ {c}]
      BY <1>4, <2>2 DEF Good
    <3>3. (t \ {c}) \ {x} = (t \ {x}) \ {c}
      OBVIOUS
    <3>4. Good((t \ {x}) \ {c})
      BY <1>1 DEF Good
    <3>5. /\ h[(t \ {x}) \ {c}] \in Int
          /\ f[x] \in Int /\ f[c] \in Int
      BY <3>4 DEF Good
    <3>6. h[t \ {c}] = f[x] + h[(t \ {x}) \ {c}]
      BY <3>1, <3>3
    <3>7. h[t] = f[c] + h[t \ {c}]
      BY <1>3
    <3> HIDE DEF Bad
    <3> QED
      BY <3>2, <3>5, <3>6, <3>7
  <2> QED
    BY <2>1, <2>2
<1>7. Good(t)
  BY <1>5, <1>6 DEF Good
<1> QED
  BY <1>7

\* The sum over a set has a table.
LEMMA OnSetTable ==
    ASSUME NEW f, NEW D, IsFiniteSet(D)
    PROVE  \E h : Sums(h, f, D) /\ SumFunctionOnSet(f, D) = h[D]
<1>1. SumFunctionOnSet(f, D) = (CHOOSE h : Sums(h, f, D))[D]
  BY DEF SumFunctionOnSet, FoldFunctionOnSet, MapThenFoldSet, Sums
<1> QED
  BY <1>1, SumsExist

\* Nothing sums to zero.
THEOREM OnSetEmpty ==
    ASSUME NEW f
    PROVE  SumFunctionOnSet(f, {}) = 0
<1>1. PICK h : Sums(h, f, {}) /\ SumFunctionOnSet(f, {}) = h[{}]
  BY OnSetTable, FS_EmptySet
<1> QED
  BY <1>1, SumsStep

\* A sum of integers is an integer.
THEOREM OnSetInt ==
    ASSUME NEW D, IsFiniteSet(D), NEW f, \A y \in D : f[y] \in Int
    PROVE  SumFunctionOnSet(f, D) \in Int
<1>1. PICK h : Sums(h, f, D) /\ SumFunctionOnSet(f, D) = h[D]
  BY OnSetTable
<1>2. D \in SUBSET D
  OBVIOUS
<1> QED
  BY <1>1, <1>2, SumsAnyOrder

\* Any element's term can be taken out of a sum.
THEOREM OnSetOut ==
    ASSUME NEW D, IsFiniteSet(D), NEW f, \A y \in D : f[y] \in Int, NEW x \in D
    PROVE  SumFunctionOnSet(f, D) = f[x] + SumFunctionOnSet(f, D \ {x})
<1>1. PICK h : Sums(h, f, D) /\ SumFunctionOnSet(f, D) = h[D]
  BY OnSetTable
<1>2. h[D] = f[x] + h[D \ {x}]
  <2>1. D \in SUBSET D
    OBVIOUS
  <2>2. \A y \in D : h[D] = f[y] + h[D \ {y}]
    BY <1>1, <2>1, SumsAnyOrder
  <2> QED
    BY <2>2
<1>3. IsFiniteSet(D \ {x})
  BY FS_RemoveElement
<1>4. PICK k : Sums(k, f, D \ {x}) /\ SumFunctionOnSet(f, D \ {x}) = k[D \ {x}]
  BY <1>3, OnSetTable
<1>5. D \ {x} \subseteq D /\ \A y \in D \ {x} : f[y] = f[y]
  OBVIOUS
<1>6. h[D \ {x}] = k[D \ {x}]
  BY <1>1, <1>3, <1>4, <1>5, SumsAgree
<1> QED
  BY <1>1, <1>2, <1>4, <1>6

\* The sum depends on the terms alone.
THEOREM OnSetAgree ==
    ASSUME NEW D, IsFiniteSet(D), NEW f, NEW g, \A y \in D : f[y] = g[y]
    PROVE  SumFunctionOnSet(f, D) = SumFunctionOnSet(g, D)
<1>1. PICK h : Sums(h, f, D) /\ SumFunctionOnSet(f, D) = h[D]
  BY OnSetTable
<1>2. PICK k : Sums(k, g, D) /\ SumFunctionOnSet(g, D) = k[D]
  BY OnSetTable
<1>3. h[D] = k[D]
  BY <1>1, <1>2, SumsAgree
<1> QED
  BY <1>1, <1>2, <1>3

\* A sum of naturals is a natural, and of zeros zero.
THEOREM OnSetNat ==
    ASSUME NEW D, IsFiniteSet(D), NEW f, \A y \in D : f[y] \in Nat
    PROVE  /\ SumFunctionOnSet(f, D) \in Nat
           /\ (\A y \in D : f[y] = 0) => SumFunctionOnSet(f, D) = 0
<1> DEFINE Good(s) == /\ SumFunctionOnSet(f, s) \in Nat
                      /\ (\A y \in s : f[y] = 0) => SumFunctionOnSet(f, s) = 0
           Bad == {s \in SUBSET D : ~ Good(s)}
<1> SUFFICES ASSUME Bad # {} PROVE FALSE
  OBVIOUS
<1>1. PICK s \in Bad : \A t \in Bad : t \subseteq s => t = s
  <2>1. Bad \in SUBSET SUBSET D
    OBVIOUS
  <2> HIDE DEF Bad
  <2> QED
    BY <2>1, SmallestSet
<1>2. PICK x \in s : TRUE
  BY OnSetEmpty
<1>3. Good(s \ {x})
  BY <1>1, <1>2
<1>4. SumFunctionOnSet(f, s) = f[x] + SumFunctionOnSet(f, s \ {x})
  <2>1. IsFiniteSet(s) /\ \A y \in s : f[y] \in Int
    BY FS_Subset
  <2> HIDE DEF Bad, Good
  <2> QED
    BY <2>1, OnSetOut
<1>5. f[x] \in Nat
  OBVIOUS
<1> QED
  BY <1>3, <1>4, <1>5

\* Two functions that agree but for one argument have sums that differ by its
\* terms: one is changed, added or taken away.
THEOREM OnSetUpdate ==
    ASSUME NEW C, IsFiniteSet(C), NEW D, IsFiniteSet(D),
           NEW f, \A y \in C : f[y] \in Int, NEW g, \A y \in D : g[y] \in Int,
           NEW x, C \ {x} = D \ {x}, \A y \in C \ {x} : g[y] = f[y]
    PROVE  SumFunctionOnSet(g, D) =
               SumFunctionOnSet(f, C) - (IF x \in C THEN f[x] ELSE 0)
                                      + (IF x \in D THEN g[x] ELSE 0)
<1> DEFINE rest == SumFunctionOnSet(f, C \ {x})
           a == IF x \in C THEN f[x] ELSE 0
           b == IF x \in D THEN g[x] ELSE 0
<1>1. IsFiniteSet(C \ {x}) /\ \A y \in C \ {x} : f[y] \in Int
  BY FS_RemoveElement, FS_Subset
<1>2. rest \in Int
  BY <1>1, OnSetInt
<1>3. rest = SumFunctionOnSet(g, D \ {x})
  BY <1>1, OnSetAgree
<1>4. a \in Int /\ b \in Int
  OBVIOUS
<1>5. SumFunctionOnSet(f, C) = rest + a
  <2>1. CASE x \in C
    <3>1. SumFunctionOnSet(f, C) = f[x] + rest
      BY <2>1, OnSetOut
    <3> HIDE DEF rest
    <3> QED
      BY <1>2, <1>4, <2>1, <3>1
  <2>2. CASE x \notin C
    <3>1. C \ {x} = C /\ a = 0
      BY <2>2
    <3>2. rest = SumFunctionOnSet(f, C)
      BY <3>1
    <3> HIDE DEF rest, a
    <3> QED
      BY <1>2, <3>1, <3>2
  <2> QED
    BY <2>1, <2>2
<1>6. SumFunctionOnSet(g, D) = rest + b
  <2>1. CASE x \in D
    <3>1. SumFunctionOnSet(g, D) = g[x] + SumFunctionOnSet(g, D \ {x})
      BY <2>1, OnSetOut
    <3> HIDE DEF rest
    <3> QED
      BY <1>2, <1>3, <1>4, <2>1, <3>1
  <2>2. CASE x \notin D
    <3>1. D \ {x} = D /\ b = 0
      BY <2>2
    <3> HIDE DEF rest, b
    <3>2. rest = SumFunctionOnSet(g, D)
      BY <1>3, <3>1
    <3> QED
      BY <1>2, <3>1, <3>2
  <2> QED
    BY <2>1, <2>2
<1> HIDE DEF rest, a, b
<1>7. SumFunctionOnSet(g, D) = SumFunctionOnSet(f, C) - a + b
  BY <1>2, <1>4, <1>5, <1>6
<1> QED
  BY <1>7 DEF a, b

\* Fewer and smaller terms have a smaller sum.
THEOREM OnSetMonotone ==
    ASSUME NEW D, IsFiniteSet(D), NEW C \in SUBSET D,
           NEW f, \A y \in C : f[y] \in Nat, NEW g, \A y \in D : g[y] \in Nat,
           \A x \in C : f[x] <= g[x]
    PROVE  SumFunctionOnSet(f, C) <= SumFunctionOnSet(g, D)
<1> DEFINE Good(s) == SumFunctionOnSet(f, s \cap C) <= SumFunctionOnSet(g, s)
           Bad == {s \in SUBSET D : ~ Good(s)}
<1>1. Bad = {}
  <2> SUFFICES ASSUME Bad # {} PROVE FALSE
    OBVIOUS
  <2>1. PICK s \in Bad : \A t \in Bad : t \subseteq s => t = s
    <3>1. Bad \in SUBSET SUBSET D
      OBVIOUS
    <3> HIDE DEF Bad
    <3> QED
      BY <3>1, SmallestSet
  <2>2. PICK x \in s : TRUE
    <3>1. CASE s = {}
      <4>1. s \cap C = {}
        BY <3>1
      <4> QED
        BY <3>1, <4>1, OnSetEmpty
    <3> QED
      BY <3>1
  <2>3. Good(s \ {x})
    BY <2>1, <2>2
  <2>4. /\ IsFiniteSet(s) /\ IsFiniteSet(s \cap C)
        /\ IsFiniteSet(s \ {x}) /\ IsFiniteSet((s \ {x}) \cap C)
        /\ s \subseteq D /\ x \in D
    BY FS_Subset
  <2>5. /\ SumFunctionOnSet(g, s \ {x}) \in Nat
        /\ SumFunctionOnSet(f, (s \ {x}) \cap C) \in Nat
    <3> HIDE DEF Bad
    <3> QED
      BY <2>4, OnSetNat
  <2>6. SumFunctionOnSet(g, s) = g[x] + SumFunctionOnSet(g, s \ {x})
    <3>1. \A y \in s : g[y] \in Int
      BY <2>4
    <3> HIDE DEF Bad
    <3> QED
      BY <2>4, <3>1, OnSetOut
  <2>7. SumFunctionOnSet(f, s \cap C) <= g[x] + SumFunctionOnSet(f, (s \ {x}) \cap C)
    <3>1. CASE x \in C
      <4>1. (s \ {x}) \cap C = (s \cap C) \ {x} /\ x \in s \cap C
        BY <3>1
      <4>2. \A y \in s \cap C : f[y] \in Int
        OBVIOUS
      <4>3. SumFunctionOnSet(f, s \cap C) = f[x] + SumFunctionOnSet(f, (s \cap C) \ {x})
        <5> HIDE DEF Bad
        <5> QED
          BY <2>4, <4>1, <4>2, OnSetOut
      <4>4. f[x] \in Nat /\ g[x] \in Nat /\ f[x] <= g[x]
        BY <2>4, <3>1
      <4>5. SumFunctionOnSet(f, (s \ {x}) \cap C) = SumFunctionOnSet(f, (s \cap C) \ {x})
        BY <4>1
      <4> HIDE DEF Bad, Good
      <4> QED
        BY <2>5, <4>3, <4>4, <4>5
    <3>2. CASE x \notin C
      <4>1. (s \ {x}) \cap C = s \cap C
        BY <3>2
      <4>2. g[x] \in Nat
        BY <2>4
      <4> HIDE DEF Bad
      <4> QED
        BY <2>5, <4>1, <4>2
    <3> QED
      BY <3>1, <3>2
  <2>8. /\ g[x] \in Nat
        /\ SumFunctionOnSet(f, s \cap C) \in Nat
    <3>1. g[x] \in Nat
      BY <2>4
    <3> HIDE DEF Bad
    <3> QED
      BY <2>4, <3>1, OnSetNat
  <2>9. Good(s)
    <3> HIDE DEF Bad
    <3> QED
      BY <2>3, <2>5, <2>6, <2>7, <2>8
  <2> QED
    BY <2>9
<1>2. Good(D) /\ D \cap C = C
  BY <1>1
<1> QED
  BY <1>2

\* Taken in another order, or under other names, the terms have the same sum.
THEOREM OnSetReindex ==
    ASSUME NEW I, IsFiniteSet(I), NEW D, NEW s \in Bijection(I, D),
           NEW f, NEW g, \A x \in D : g[x] \in Int, \A i \in I : f[i] = g[s[i]]
    PROVE  SumFunctionOnSet(f, I) = SumFunctionOnSet(g, D)
<1>f. IsFiniteSet(D)
  <2>1. s \in Surjection(I, D)
    BY DEF Bijection
  <2> QED
    BY <2>1, FS_Surjection
<1>s. s \in [I -> D] /\ \A i, j \in I : s[i] = s[j] => i = j
  BY DEF Bijection, Injection, IsInjective
<1> DEFINE To(t) == {s[i] : i \in t}
           Bad == {t \in SUBSET I : SumFunctionOnSet(f, t) # SumFunctionOnSet(g, To(t))}
<1>1. Bad = {}
  <2> SUFFICES ASSUME Bad # {} PROVE FALSE
    OBVIOUS
  <2>1. PICK t \in Bad : \A u \in Bad : u \subseteq t => u = t
    <3>1. Bad \in SUBSET SUBSET I
      OBVIOUS
    <3> HIDE DEF Bad
    <3> QED
      BY <3>1, SmallestSet
  <2>0. IsFiniteSet(t) /\ IsFiniteSet(To(t)) /\ t \subseteq I /\ To(t) \subseteq D
    <3>1. To(t) \subseteq D
      BY <1>s
    <3> QED
      BY <1>f, <3>1, FS_Subset
  <2>2. PICK x \in t : TRUE
    <3>1. CASE t = {}
      <4>1. To(t) = {}
        BY <3>1
      <4> QED
        BY <3>1, <4>1, OnSetEmpty
    <3> QED
      BY <3>1
  <2>3. SumFunctionOnSet(f, t \ {x}) = SumFunctionOnSet(g, To(t \ {x}))
    BY <2>1, <2>2
  <2>4. SumFunctionOnSet(f, t) = g[s[x]] + SumFunctionOnSet(f, t \ {x})
    <3>1. \A i \in t : f[i] \in Int
      BY <1>s, <2>0
    <3>2. f[x] = g[s[x]]
      BY <2>0
    <3> HIDE DEF Bad, To
    <3> QED
      BY <2>0, <3>1, <3>2, OnSetOut
  <2>5. SumFunctionOnSet(g, To(t)) = g[s[x]] + SumFunctionOnSet(g, To(t \ {x}))
    <3> DEFINE z == s[x]
    <3>1. To(t \ {x}) = To(t) \ {z} /\ z \in To(t)
      BY <1>s, <2>0
    <3>2. \A y \in To(t) : g[y] \in Int
      BY <2>0
    <3> HIDE DEF Bad, To, z
    <3>3. SumFunctionOnSet(g, To(t)) = g[z] + SumFunctionOnSet(g, To(t) \ {z})
      BY <2>0, <3>1, <3>2, OnSetOut
    <3> QED
      BY <3>1, <3>3 DEF z
  <2>6. SumFunctionOnSet(f, t) = SumFunctionOnSet(g, To(t))
    <3> HIDE DEF Bad, To
    <3> QED
      BY <2>3, <2>4, <2>5
  <2> QED
    BY <2>6
<1>2. To(I) = D
  BY <1>s DEF Bijection, Surjection
<1> QED
  BY <1>1, <1>2
=============================================================================
