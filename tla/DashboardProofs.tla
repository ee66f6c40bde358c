-------------------------- MODULE DashboardProofs ---------------------------
(***************************************************************************)
(* The figures of the dashboard agree with each other, whatever is in the  *)
(* table: proved from one invariant of the rows and from facts about       *)
(* finite sums.                                                            *)
(***************************************************************************)
EXTENDS Dashboard, FiniteSetTheorems, WellFoundedInduction, TLAPS

(* Sums over finite sets. *)

(* Induction on the naturals for a set: the least element outside it would *)
(* be neither 0 nor a successor. (The library's NatInduction is about an   *)
(* operator.)                                                              *)
LEMMA NatInduct ==
    ASSUME NEW G, 0 \in G, \A n \in Nat : n \in G => n + 1 \in G
    PROVE  Nat \subseteq G
<1> DEFINE T == Nat \ G
<1>1. SUFFICES ASSUME T # {} PROVE FALSE
    OBVIOUS
<1>2. PICK x \in T : \A y \in T : ~(<<y, x>> \in OpToRel(<, Nat))
    BY <1>1, NatLessThanWellFounded, WFMin, Zenon
<1>3. x \in Nat /\ x # 0
    OBVIOUS
<1>4. x - 1 \in Nat /\ x - 1 < x /\ (x - 1) + 1 = x
    BY <1>3
<1>5. <<x - 1, x>> \in OpToRel(<, Nat)
    BY <1>3, <1>4, Zenon DEF OpToRel
<1>6. x - 1 \in G
    BY <1>2, <1>4, <1>5
<1>7. QED
    BY <1>3, <1>4, <1>6

(* A set loses one element. *)
LEMMA Without ==
    ASSUME NEW S, IsFiniteSet(S), NEW x \in S
    PROVE  /\ IsFiniteSet(S \ {x}) /\ S \ {x} \in SUBSET S
           /\ Cardinality(S \ {x}) = Cardinality(S) - 1
BY FS_RemoveElement

(* Induction on the subsets of a finite set, along their cardinality. *)
LEMMA SetInduct ==
    ASSUME NEW S, IsFiniteSet(S), NEW G, {} \in G,
           \A T \in SUBSET S, x \in S : x \notin T /\ T \in G => T \cup {x} \in G
    PROVE  S \in G
<1> DEFINE H == {n \in Nat : \A T \in SUBSET S : Cardinality(T) = n => T \in G}
<1>1. 0 \in H
    BY FS_Subset, FS_EmptySet
<1>2. ASSUME NEW n \in Nat, n \in H PROVE n + 1 \in H
    <2>1. SUFFICES ASSUME NEW T \in SUBSET S, Cardinality(T) = n + 1 PROVE T \in G
        BY <1>2
    <2>2. IsFiniteSet(T) /\ T # {}
        BY <2>1, FS_Subset, FS_EmptySet
    <2>3. PICK x \in T : TRUE
        BY <2>2
    <2>4. Cardinality(T \ {x}) = n /\ T \ {x} \in SUBSET S
        <3>1. Cardinality(T \ {x}) = Cardinality(T) - 1
            BY <2>2, <2>3, Without
        <3>2. QED
            BY <2>1, <3>1
    <2>5. T \ {x} \in G
        BY <1>2, <2>4
    <2>6. T = (T \ {x}) \cup {x}
        BY <2>3
    <2>7. QED
        BY <2>5, <2>6
<1>3. Nat \subseteq H
    BY <1>1, <1>2, NatInduct
<1>4. Cardinality(S) \in Nat
    BY FS_CardinalityType
<1>5. QED
    BY <1>3, <1>4

(* One step of a sum over the sets of D. *)
Some(s) == CHOOSE x \in s : TRUE
Fix(f, it, D) == it = [s \in D |-> IF s = {} THEN 0 ELSE f[Some(s)] + it[s \ {Some(s)}]]

FixOn(f, it, S) == Fix(f, it, SUBSET S)

(* The community module's sum is the value at S of the function that Fix   *)
(* describes: the sum over each subset, one chosen element split off.      *)
LEMMA SigmaUnfold ==
    ASSUME NEW f, NEW S
    PROVE  SumFunctionOnSet(f, S) = (CHOOSE it : FixOn(f, it, S))[S]
BY DEF SumFunctionOnSet, FoldFunctionOnSet, MapThenFoldSet, FixOn, Fix, Some

(* A nonempty set has an element to split off. *)
LEMMA SomeIn == ASSUME NEW s, s # {} PROVE Some(s) \in s
BY DEF Some

Agree(f, g, S) == \A i \in S : f[i] = g[i]
Counts(f, S) == \A i \in S : f[i] \in Nat

(* There is such a function on the subsets of a finite set, built up by    *)
(* cardinality.                                                            *)
LEMMA FixExists ==
    ASSUME NEW S, IsFiniteSet(S), NEW f, Counts(f, S)
    PROVE  \E it \in [SUBSET S -> Nat] : FixOn(f, it, S)
<1> DEFINE Level(n) == {s \in SUBSET S : Cardinality(s) <= n}
           G == {n \in Nat : \E it \in [Level(n) -> Nat] : Fix(f, it, Level(n))}
<1>1. \A s \in SUBSET S : IsFiniteSet(s) /\ Cardinality(s) \in Nat
    BY FS_Subset, FS_CardinalityType
<1>2. 0 \in G
    <2>1. \A s \in Level(0) : s = {}
        BY <1>1, FS_EmptySet
    <2> DEFINE it == [s \in Level(0) |-> 0]
    <2>2. it \in [Level(0) -> Nat] /\ Fix(f, it, Level(0))
        BY <2>1 DEF Fix, FixOn
    <2>3. QED
        BY <2>2
<1>3. ASSUME NEW n \in Nat, n \in G PROVE n + 1 \in G
    <2>1. PICK it \in [Level(n) -> Nat] : Fix(f, it, Level(n))
        BY <1>3
    <2> DEFINE jt == [s \in Level(n + 1) |->
                         IF s = {} THEN 0 ELSE f[Some(s)] + it[s \ {Some(s)}]]
    <2>2. \A s \in Level(n + 1) : s # {} => Some(s) \in S /\ s \ {Some(s)} \in Level(n)
        <3>1. SUFFICES ASSUME NEW s \in SUBSET S, Cardinality(s) <= n + 1, s # {}
                       PROVE  Some(s) \in S /\ s \ {Some(s)} \in Level(n)
            OBVIOUS
        <3>2. Some(s) \in s /\ IsFiniteSet(s) /\ Cardinality(s) \in Nat
            BY <1>1, <3>1, SomeIn
        <3>3. Cardinality(s \ {Some(s)}) = Cardinality(s) - 1
            BY <3>2, Without
        <3>4. QED
            BY <3>1, <3>2, <3>3
    <2>3. Level(n) \subseteq Level(n + 1)
        BY <1>1
    <2>4. jt \in [Level(n + 1) -> Nat]
        BY <2>2 DEF Counts
    <2>5. \A s \in Level(n) : it[s] = jt[s]
        BY <2>1, <2>3 DEF Fix, FixOn
    <2>6. Fix(f, jt, Level(n + 1))
        BY <2>2, <2>5 DEF Fix, FixOn
    <2> HIDE DEF jt, Level
    <2>7. QED
        BY <2>4, <2>6
<1>4. Nat \subseteq G
    BY <1>2, <1>3, NatInduct
<1>5. Level(Cardinality(S)) = SUBSET S
    BY FS_Subset
<1>6. QED
    <2>1. Cardinality(S) \in G
        BY <1>1, <1>4
    <2>2. \E it \in [Level(Cardinality(S)) -> Nat] : Fix(f, it, Level(Cardinality(S)))
        BY <2>1
    <2>3. QED
        BY <1>5, <2>2 DEF FixOn

(* Two such functions of addends that agree on T agree at T. *)
LEMMA FixUnique ==
    ASSUME NEW S, NEW T \in SUBSET S, IsFiniteSet(S), NEW f, NEW g, Agree(f, g, T),
           NEW it, FixOn(f, it, S), NEW jt, FixOn(g, jt, T)
    PROVE  it[T] = jt[T]
<1> DEFINE G == {s \in SUBSET T : it[s] = jt[s]}
           H == {n \in Nat : \A s \in SUBSET T : Cardinality(s) = n => it[s] = jt[s]}
<1>1. \A s \in SUBSET T : IsFiniteSet(s) /\ Cardinality(s) \in Nat
    BY FS_Subset, FS_CardinalityType
<1>2. 0 \in H
    BY <1>1, FS_EmptySet DEF Fix, FixOn
<1>3. ASSUME NEW n \in Nat, n \in H PROVE n + 1 \in H
    <2>1. SUFFICES ASSUME NEW s \in SUBSET T, Cardinality(s) = n + 1 PROVE it[s] = jt[s]
        BY <1>3
    <2>2. s # {} /\ IsFiniteSet(s)
        BY <1>1, <2>1, FS_EmptySet
    <2>3. Some(s) \in s /\ Cardinality(s \ {Some(s)}) = n
        <3>1. Some(s) \in s
            BY <2>2, SomeIn
        <3>2. Cardinality(s \ {Some(s)}) = Cardinality(s) - 1
            BY <2>2, <3>1, Without
        <3>3. QED
            BY <2>1, <3>1, <3>2
    <2>4. it[s \ {Some(s)}] = jt[s \ {Some(s)}] /\ f[Some(s)] = g[Some(s)]
        BY <1>3, <2>3 DEF Agree
    <2>5. QED
        BY <2>2, <2>4 DEF Fix, FixOn
<1>4. Nat \subseteq H
    BY <1>2, <1>3, NatInduct
<1>5. QED
    BY <1>1, <1>4
Sigma(f, S) == SumFunctionOnSet(f, S)

(* So a sum is the value of a function that obeys Fix. *)
LEMMA SigmaFix ==
    ASSUME NEW S, IsFiniteSet(S), NEW f, Counts(f, S)
    PROVE  \E it \in [SUBSET S -> Nat] : FixOn(f, it, S) /\ Sigma(f, S) = it[S]
<1> DEFINE it == CHOOSE it : FixOn(f, it, S)
<1>1. PICK jt \in [SUBSET S -> Nat] : FixOn(f, jt, S)
    BY FixExists
<1>2. FixOn(f, it, S)
    BY <1>1
<1> HIDE DEF it
<1>3. \A s \in SUBSET S : it[s] = jt[s]
    <2>1. SUFFICES ASSUME NEW s \in SUBSET S PROVE it[s] = jt[s]
        OBVIOUS
    <2> DEFINE kt == [u \in SUBSET s |-> jt[u]]
    <2>2. FixOn(f, kt, s)
        BY <1>1, SomeIn DEF Fix, FixOn
    <2>3. it[s] = kt[s] /\ jt[s] = kt[s]
        <3>1. Agree(f, f, s)
            BY DEF Agree
        <3> HIDE DEF kt
        <3>2. QED
            BY <1>1, <1>2, <2>2, <3>1, FixUnique
    <2>4. QED
        BY <2>3
<1>4. it = jt
    BY <1>1, <1>2, <1>3 DEF Fix, FixOn
<1>5. Sigma(f, S) = it[S]
    BY SigmaUnfold DEF Sigma, it
<1>6. QED
    BY <1>1, <1>4, <1>5

(* Equal addends, equal sums. *)
LEMMA SigmaSame ==
    ASSUME NEW S, IsFiniteSet(S), NEW f, NEW g, Counts(f, S), Agree(f, g, S)
    PROVE  Sigma(f, S) = Sigma(g, S)
<1>1. PICK it \in [SUBSET S -> Nat] : FixOn(f, it, S) /\ Sigma(f, S) = it[S]
    BY SigmaFix
<1>2. PICK jt \in [SUBSET S -> Nat] : FixOn(g, jt, S) /\ Sigma(g, S) = jt[S]
    <2>1. Counts(g, S)
        BY DEF Counts, Agree
    <2>2. QED
        BY <2>1, SigmaFix
<1>3. Agree(f, g, S) /\ S \in SUBSET S
    BY DEF Agree
<1>4. QED
    BY <1>1, <1>2, <1>3, FixUnique

(* A sum is a number; it is its chosen addend and the rest. *)
LEMMA SigmaStep ==
    ASSUME NEW S, IsFiniteSet(S), NEW f, Counts(f, S)
    PROVE  /\ Sigma(f, S) \in Nat
           /\ S = {} => Sigma(f, S) = 0
           /\ S # {} => Sigma(f, S) = f[Some(S)] + Sigma(f, S \ {Some(S)})
<1>1. PICK it \in [SUBSET S -> Nat] : FixOn(f, it, S) /\ Sigma(f, S) = it[S]
    BY SigmaFix
<1> DEFINE T == S \ {Some(S)}
<1>2. IsFiniteSet(T) /\ T \in SUBSET S /\ Counts(f, T)
    BY FS_RemoveElement DEF Counts
<1>3. PICK jt \in [SUBSET T -> Nat] : FixOn(f, jt, T) /\ Sigma(f, T) = jt[T]
    BY <1>2, SigmaFix
<1>4. it[T] = jt[T]
    <2>1. Agree(f, f, T)
        BY DEF Agree
    <2> HIDE DEF T
    <2>2. QED
        BY <1>1, <1>2, <1>3, <2>1, FixUnique
<1>5. S \in SUBSET S /\ it[S] = IF S = {} THEN 0 ELSE f[Some(S)] + it[T]
    BY <1>1 DEF Fix, FixOn
<1>6. QED
    BY <1>1, <1>3, <1>4, <1>5

(* An empty sum is 0. *)
LEMMA SigmaEmpty == \A f : Sigma(f, {}) = 0
<1>1. SUFFICES ASSUME NEW f PROVE Sigma(f, {}) = 0
    OBVIOUS
<1>2. IsFiniteSet({}) /\ Counts(f, {})
    BY FS_EmptySet DEF Counts
<1>3. QED
    BY <1>2, SigmaStep

(* Any addend may be split off, not only the chosen one. *)
LEMMA SigmaRemove ==
    ASSUME NEW S, IsFiniteSet(S), NEW f, Counts(f, S), NEW x \in S
    PROVE  Sigma(f, S) = f[x] + Sigma(f, S \ {x})
<1> DEFINE H == {n \in Nat : \A T \in SUBSET S : Cardinality(T) = n =>
                    \A y \in T : Sigma(f, T) = f[y] + Sigma(f, T \ {y})}
<1>1. \A T \in SUBSET S : IsFiniteSet(T) /\ Cardinality(T) \in Nat
    BY FS_Subset, FS_CardinalityType
<1>2. 0 \in H
    BY <1>1, FS_EmptySet
<1>3. ASSUME NEW n \in Nat, n \in H PROVE n + 1 \in H
    <2>1. SUFFICES ASSUME NEW T \in SUBSET S, Cardinality(T) = n + 1, NEW y \in T
                   PROVE  Sigma(f, T) = f[y] + Sigma(f, T \ {y})
        BY <1>3
    <2> DEFINE z == Some(T)
    <2>2. IsFiniteSet(T) /\ z \in T
        BY <1>1, SomeIn
    <2>3. Sigma(f, T) = f[z] + Sigma(f, T \ {z})
        <3>1. Counts(f, T)
            BY DEF Counts
        <3>2. QED
            BY <2>2, <3>1, SigmaStep
    <2> HIDE DEF z
    <2>4. CASE z # y
        <3>1. Cardinality(T \ {z}) = n /\ Cardinality(T \ {y}) = n
            <4>1. /\ Cardinality(T \ {z}) = Cardinality(T) - 1
                  /\ Cardinality(T \ {y}) = Cardinality(T) - 1
                BY <2>2, Without
            <4>2. QED
                BY <2>1, <4>1
        <3>2. /\ Sigma(f, T \ {z}) = f[y] + Sigma(f, (T \ {z}) \ {y})
              /\ Sigma(f, T \ {y}) = f[z] + Sigma(f, (T \ {y}) \ {z})
            BY <1>3, <2>2, <2>4, <3>1
        <3>3. (T \ {z}) \ {y} = (T \ {y}) \ {z}
            OBVIOUS
        <3>4. Sigma(f, (T \ {y}) \ {z}) \in Nat /\ f[y] \in Nat /\ f[z] \in Nat
            <4>1. Counts(f, (T \ {y}) \ {z}) /\ IsFiniteSet((T \ {y}) \ {z})
                BY <1>1 DEF Counts
            <4>2. f[y] \in Nat /\ f[z] \in Nat
                BY <2>2 DEF Counts
            <4>3. QED
                BY <4>1, <4>2, SigmaStep
        <3>5. Sigma(f, (T \ {z}) \ {y}) = Sigma(f, (T \ {y}) \ {z})
            BY <3>3
        <3> DEFINE a == Sigma(f, T)
                   b == Sigma(f, T \ {z})
                   c == Sigma(f, T \ {y})
                   d == Sigma(f, (T \ {y}) \ {z})
        <3>6. /\ a = f[z] + b /\ b = f[y] + d /\ c = f[z] + d
              /\ d \in Nat /\ f[y] \in Nat /\ f[z] \in Nat
            BY <2>3, <3>2, <3>4, <3>5
        <3> HIDE DEF a, b, c, d
        <3>7. a = f[y] + c
            BY <3>6
        <3>8. QED
            BY <3>7 DEF a, c
    <2>5. QED
        BY <2>3, <2>4
<1>4. Nat \subseteq H
    BY <1>2, <1>3, NatInduct
<1>5. QED
    BY <1>1, <1>4

(* A sum over one element more. *)
LEMMA SigmaMore ==
    ASSUME NEW T, IsFiniteSet(T), NEW x, x \notin T, NEW f, Counts(f, T), f[x] \in Nat
    PROVE  /\ Sigma(f, T) \in Nat
           /\ Sigma(f, T \cup {x}) = f[x] + Sigma(f, T)
<1>1. IsFiniteSet(T \cup {x}) /\ Counts(f, T \cup {x}) /\ (T \cup {x}) \ {x} = T
    BY FS_AddElement DEF Counts
<1>2. Sigma(f, T \cup {x}) = f[x] + Sigma(f, (T \cup {x}) \ {x})
    BY <1>1, SigmaRemove
<1>3. QED
    BY <1>1, <1>2, SigmaStep

(* The sum of sums, addend by addend. *)
LEMMA SigmaPlus ==
    ASSUME NEW S, IsFiniteSet(S), NEW f, NEW g, NEW h, Counts(f, S), Counts(g, S),
           \A i \in S : h[i] = f[i] + g[i]
    PROVE  Sigma(h, S) = Sigma(f, S) + Sigma(g, S)
<1> DEFINE G == {T \in SUBSET S : Sigma(h, T) = Sigma(f, T) + Sigma(g, T)}
<1>1. {} \in G
    BY FS_EmptySet, SigmaEmpty
<1>2. ASSUME NEW T \in SUBSET S, NEW x \in S, x \notin T, T \in G
      PROVE  T \cup {x} \in G
    <2>1. /\ IsFiniteSet(T) /\ Counts(f, T) /\ Counts(g, T) /\ Counts(h, T)
          /\ f[x] \in Nat /\ g[x] \in Nat /\ h[x] \in Nat /\ h[x] = f[x] + g[x]
        BY FS_Subset DEF Counts
    <2>2. /\ Sigma(f, T \cup {x}) = f[x] + Sigma(f, T) /\ Sigma(f, T) \in Nat
          /\ Sigma(g, T \cup {x}) = g[x] + Sigma(g, T) /\ Sigma(g, T) \in Nat
          /\ Sigma(h, T \cup {x}) = h[x] + Sigma(h, T)
        BY <1>2, <2>1, SigmaMore
    <2>3. Sigma(h, T) = Sigma(f, T) + Sigma(g, T)
        BY <1>2
    <2>4. Sigma(h, T \cup {x}) = Sigma(f, T \cup {x}) + Sigma(g, T \cup {x})
        BY <2>1, <2>2, <2>3
    <2>5. QED
        BY <2>4
<1> HIDE DEF G
<1>3. S \in G
    BY <1>1, <1>2, SetInduct
<1>4. QED
    BY <1>3 DEF G

(* Sums are monotone. *)
LEMMA SigmaLeq ==
    ASSUME NEW S, IsFiniteSet(S), NEW f, NEW g, Counts(f, S), Counts(g, S),
           \A i \in S : f[i] <= g[i]
    PROVE  Sigma(f, S) <= Sigma(g, S)
<1> DEFINE d == [i \in S |-> g[i] - f[i]]
<1>1. Counts(d, S) /\ \A i \in S : g[i] = f[i] + d[i]
    BY DEF Counts
<1> HIDE DEF d
<1>2. Sigma(g, S) = Sigma(f, S) + Sigma(d, S)
    BY <1>1, SigmaPlus
<1>3. Sigma(f, S) \in Nat /\ Sigma(d, S) \in Nat
    BY <1>1, SigmaStep
<1>4. QED
    BY <1>2, <1>3

(* A sum of equal addends is a product. *)
LEMMA SigmaConst ==
    ASSUME NEW S, IsFiniteSet(S), NEW f, NEW c \in Nat, \A i \in S : f[i] = c
    PROVE  Sigma(f, S) = Cardinality(S) * c
<1> DEFINE G == {T \in SUBSET S : Sigma(f, T) = Cardinality(T) * c}
<1>1. {} \in G
    BY FS_EmptySet, SigmaEmpty
<1>2. ASSUME NEW T \in SUBSET S, NEW x \in S, x \notin T, T \in G
      PROVE  T \cup {x} \in G
    <2>1. /\ IsFiniteSet(T) /\ Counts(f, T) /\ f[x] \in Nat /\ f[x] = c
          /\ Cardinality(T) \in Nat
        BY FS_Subset, FS_CardinalityType DEF Counts
    <2>2. Sigma(f, T \cup {x}) = c + Sigma(f, T)
        BY <1>2, <2>1, SigmaMore
    <2>3. Cardinality(T \cup {x}) = Cardinality(T) + 1
        BY <1>2, <2>1, FS_AddElement
    <2>4. (Cardinality(T) + 1) * c = c + Cardinality(T) * c
        BY <2>1
    <2>5. Sigma(f, T \cup {x}) = Cardinality(T \cup {x}) * c
        BY <1>2, <2>2, <2>3, <2>4
    <2>6. QED
        BY <2>5
<1> HIDE DEF G
<1>3. S \in G
    BY <1>1, <1>2, SetInduct
<1>4. QED
    BY <1>3 DEF G

(* Only some of the terms are not zero. *)
LEMMA SigmaPart ==
    ASSUME NEW S, IsFiniteSet(S), NEW T \in SUBSET S, NEW f, NEW g, Counts(f, T),
           \A i \in S : g[i] = IF i \in T THEN f[i] ELSE 0
    PROVE  Sigma(g, S) = Sigma(f, T)
<1> DEFINE G == {U \in SUBSET S : Sigma(g, U) = Sigma(f, U \cap T)}
<1>1. {} \in G
    <2>1. {} \cap T = {}
        OBVIOUS
    <2>2. QED
        BY <2>1, FS_EmptySet, SigmaEmpty
<1>2. ASSUME NEW U \in SUBSET S, NEW x \in S, x \notin U, U \in G
      PROVE  U \cup {x} \in G
    <2>1. /\ IsFiniteSet(U) /\ Counts(g, U) /\ g[x] \in Nat
          /\ IsFiniteSet(U \cap T) /\ Counts(f, U \cap T)
        BY FS_Subset DEF Counts
    <2>2. Sigma(g, U \cup {x}) = g[x] + Sigma(g, U) /\ Sigma(g, U) \in Nat
        BY <1>2, <2>1, SigmaMore
    <2>3. Sigma(g, U) = Sigma(f, U \cap T)
        BY <1>2
    <2>4. CASE x \in T
        <3>1. (U \cup {x}) \cap T = (U \cap T) \cup {x} /\ x \notin U \cap T
            BY <1>2, <2>4
        <3>2. f[x] \in Nat /\ g[x] = f[x]
            BY <2>4 DEF Counts
        <3>3. Sigma(f, (U \cap T) \cup {x}) = f[x] + Sigma(f, U \cap T)
            BY <2>1, <3>1, <3>2, SigmaMore
        <3>4. Sigma(g, U \cup {x}) = Sigma(f, (U \cup {x}) \cap T)
            BY <2>2, <2>3, <3>1, <3>2, <3>3
        <3>5. QED
            BY <3>4
    <2>5. CASE x \notin T
        <3>1. (U \cup {x}) \cap T = U \cap T /\ g[x] = 0
            BY <2>5
        <3>2. Sigma(f, (U \cup {x}) \cap T) = Sigma(f, U \cap T)
            BY <3>1
        <3>3. Sigma(g, U \cup {x}) = Sigma(g, U)
            BY <2>2, <3>1
        <3>4. Sigma(g, U \cup {x}) = Sigma(f, (U \cup {x}) \cap T)
            BY <2>3, <3>2, <3>3
        <3>5. QED
            BY <3>4
    <2>6. QED
        BY <2>4, <2>5
<1> HIDE DEF G
<1>3. S \in G
    BY <1>1, <1>2, SetInduct
<1>4. S \cap T = T
    OBVIOUS
<1>5. QED
    BY <1>3, <1>4 DEF G

(* Only one of the terms is not zero. *)
LEMMA SigmaOne ==
    ASSUME NEW S, IsFiniteSet(S), NEW x \in S, NEW f, f[x] \in Nat,
           \A i \in S \ {x} : f[i] = 0
    PROVE  Sigma(f, S) = f[x]
<1>1. IsFiniteSet(S \ {x}) /\ Cardinality(S \ {x}) \in Nat
    BY FS_RemoveElement, FS_CardinalityType
<1>2. Sigma(f, S \ {x}) = Cardinality(S \ {x}) * 0
    BY <1>1, SigmaConst
<1>3. Sigma(f, S \ {x}) = 0
    BY <1>1, <1>2
<1>4. Counts(f, S)
    BY DEF Counts
<1>5. Sigma(f, S) = f[x] + Sigma(f, S \ {x})
    BY <1>4, SigmaRemove
<1>6. QED
    BY <1>3, <1>5

(* H is F with its arguments exchanged; r holds the sums of F over S. *)
Table(F, H, P, S) ==
    /\ \A p \in P : Counts(F[p], S)
    /\ \A i \in S, p \in P : H[i][p] = F[p][i]
SumsOf(F, r, P, S) == \A p \in P : r[p] = Sigma(F[p], S)

(* A table added up by rows and by columns. *)
LEMMA SigmaSwap ==
    ASSUME NEW P, IsFiniteSet(P), NEW S, IsFiniteSet(S), NEW F, NEW H, Table(F, H, P, S),
           NEW r, SumsOf(F, r, P, S), NEW c, SumsOf(H, c, S, P)
    PROVE  Sigma(r, P) = Sigma(c, S)
<1>0. /\ \A p \in P : Counts(F[p], S) /\ r[p] = Sigma(F[p], S)
      /\ \A i \in S : c[i] = Sigma(H[i], P)
      /\ \A i \in S, p \in P : H[i][p] = F[p][i]
    BY DEF Table, SumsOf
<1> USE <1>0
<1> DEFINE C(Q) == [i \in S |-> Sigma(H[i], Q)]
           G == {Q \in SUBSET P : Sigma(r, Q) = Sigma(C(Q), S)}
<1>1. \A Q \in SUBSET P : IsFiniteSet(Q) /\ \A i \in S : Counts(H[i], Q)
    BY FS_Subset DEF Counts
<1>2. \A Q \in SUBSET P : Counts(C(Q), S)
    BY <1>1, SigmaStep DEF Counts
<1>3. Counts(r, P)
    BY SigmaStep DEF Counts
<1>4. {} \in G
    <2>1. \A i \in S : C({})[i] = 0
        BY SigmaEmpty
    <2>2. Cardinality(S) \in Nat
        BY FS_CardinalityType
    <2>3. Sigma(C({}), S) = Cardinality(S) * 0
        <3> HIDE DEF C
        <3>1. QED
            BY <2>1, SigmaConst
    <2>4. Sigma(r, {}) = Sigma(C({}), S)
        <3> HIDE DEF C
        <3>1. QED
            BY <2>2, <2>3, SigmaEmpty
    <2>5. QED
        BY <2>4
<1>5. ASSUME NEW Q \in SUBSET P, NEW x \in P, x \notin Q, Q \in G
      PROVE  Q \cup {x} \in G
    <2>1. IsFiniteSet(Q) /\ Counts(r, Q) /\ r[x] \in Nat /\ r[x] = Sigma(F[x], S)
        BY <1>1, <1>3 DEF Counts
    <2>2. Sigma(r, Q \cup {x}) = r[x] + Sigma(r, Q)
        BY <1>5, <2>1, SigmaMore
    <2>3. \A i \in S : C(Q \cup {x})[i] = F[x][i] + C(Q)[i]
        <3>1. ASSUME NEW i \in S PROVE Sigma(H[i], Q \cup {x}) = F[x][i] + Sigma(H[i], Q)
            <4>1. Counts(H[i], Q) /\ H[i][x] \in Nat /\ H[i][x] = F[x][i]
                BY <1>1 DEF Counts
            <4>2. PICK h : h = H[i]
                OBVIOUS
            <4>3. Sigma(h, Q \cup {x}) = h[x] + Sigma(h, Q)
                BY <1>5, <2>1, <4>1, <4>2, SigmaMore
            <4>4. QED
                BY <4>1, <4>2, <4>3
        <3>2. QED
            BY <3>1
    <2>4. Counts(C(Q), S) /\ Counts(F[x], S)
        BY <1>2
    <2> HIDE DEF C
    <2>5. Sigma(C(Q \cup {x}), S) = Sigma(F[x], S) + Sigma(C(Q), S)
        <3>1. PICK f, g, h : f = F[x] /\ g = C(Q) /\ h = C(Q \cup {x})
            OBVIOUS
        <3>2. Counts(f, S) /\ Counts(g, S) /\ \A i \in S : h[i] = f[i] + g[i]
            BY <2>3, <2>4, <3>1
        <3>3. Sigma(h, S) = Sigma(f, S) + Sigma(g, S)
            BY <3>2, SigmaPlus
        <3>4. QED
            BY <3>1, <3>3
    <2>6. Sigma(r, Q \cup {x}) = Sigma(C(Q \cup {x}), S)
        BY <1>5, <2>1, <2>2, <2>5
    <2>7. QED
        BY <2>6
<1>6. P \in G
    <2> HIDE DEF G
    <2>1. QED
        BY <1>4, <1>5, SetInduct
<1>7. Sigma(C(P), S) = Sigma(c, S)
    <2>1. Agree(C(P), c, S)
        BY DEF Agree
    <2>2. Counts(C(P), S)
        BY <1>2
    <2> HIDE DEF C
    <2>3. QED
        BY <2>1, <2>2, SigmaSame
<1>8. QED
    BY <1>6, <1>7

(* Counting pairs by their first component. *)
LEMMA CountPairs ==
    ASSUME NEW S, IsFiniteSet(S), NEW K, \A i \in S : IsFiniteSet(K[i]),
           NEW c, \A i \in S : c[i] = Cardinality(K[i])
    PROVE  Cardinality(UNION {{<<i, k>> : k \in K[i]} : i \in S}) = Sigma(c, S)
<1> DEFINE X(T) == UNION {{<<i, k>> : k \in K[i]} : i \in T}
           G == {T \in SUBSET S : IsFiniteSet(X(T)) /\ Cardinality(X(T)) = Sigma(c, T)}
<1>1. {} \in G
    <2>1. X({}) = {}
        OBVIOUS
    <2> HIDE DEF X
    <2>2. QED
        BY <2>1, FS_EmptySet, SigmaEmpty
<1>2. ASSUME NEW T \in SUBSET S, NEW x \in S, x \notin T, T \in G
      PROVE  T \cup {x} \in G
    <2> DEFINE new == {<<x, k>> : k \in K[x]}
    <2>1. X(T \cup {x}) = X(T) \cup new
        OBVIOUS
    <2>2. X(T) \cap new = {}
        BY <1>2
    <2>3. IsFiniteSet(new) /\ Cardinality(new) = Cardinality(K[x])
        <3>1. new = {x} \X K[x]
            OBVIOUS
        <3>2. IsFiniteSet({x}) /\ Cardinality({x}) = 1
            BY FS_Singleton
        <3>3. PICK u, v : u = {x} /\ v = K[x]
            OBVIOUS
        <3> HIDE DEF new
        <3>4. new = u \X v /\ IsFiniteSet(u) /\ IsFiniteSet(v) /\ Cardinality(u) = 1
            BY <3>1, <3>2, <3>3
        <3>5. IsFiniteSet(u \X v) /\ Cardinality(u \X v) = Cardinality(u) * Cardinality(v)
            BY <3>4, FS_Product
        <3>6. Cardinality(v) \in Nat
            BY <3>4, FS_CardinalityType
        <3>7. Cardinality(new) = 1 * Cardinality(v)
            BY <3>4, <3>5
        <3>8. QED
            BY <3>3, <3>4, <3>5, <3>6, <3>7
    <2>4. IsFiniteSet(X(T)) /\ Cardinality(X(T)) = Sigma(c, T)
        BY <1>2
    <2> HIDE DEF X, new
    <2>5. /\ IsFiniteSet(X(T) \cup new)
          /\ Cardinality(X(T) \cup new) = Cardinality(X(T)) + Cardinality(new) - Cardinality({})
        BY <2>2, <2>3, <2>4, FS_Union
    <2>6. IsFiniteSet(T) /\ Counts(c, T) /\ c[x] \in Nat /\ c[x] = Cardinality(K[x])
        BY FS_Subset, FS_CardinalityType DEF Counts
    <2>7. Sigma(c, T \cup {x}) = c[x] + Sigma(c, T) /\ Sigma(c, T) \in Nat
        BY <1>2, <2>6, SigmaMore
    <2>8. Cardinality(X(T \cup {x})) = Sigma(c, T \cup {x}) /\ IsFiniteSet(X(T \cup {x}))
        <3>1. PICK a, b, d, e : /\ a = Cardinality(X(T)) /\ b = Cardinality(new)
                                /\ d = Cardinality(X(T \cup {x})) /\ e = Sigma(c, T)
            OBVIOUS
        <3>2. d = Cardinality(X(T) \cup new)
            BY <2>1, <3>1
        <3>3. Cardinality({}) = 0
            BY FS_EmptySet
        <3>4. d = a + b - 0
            BY <2>5, <3>1, <3>2, <3>3
        <3>5. a = e /\ b = c[x] /\ e \in Nat /\ c[x] \in Nat
            BY <2>3, <2>4, <2>6, <2>7, <3>1
        <3>6. d = c[x] + e
            BY <3>4, <3>5
        <3>7. Sigma(c, T \cup {x}) = c[x] + e
            BY <2>7, <3>1
        <3>8. QED
            BY <2>1, <2>5, <3>1, <3>6, <3>7
    <2>9. QED
        BY <2>8
<1> HIDE DEF G
<1>3. S \in G
    BY <1>1, <1>2, SetInduct
<1>4. QED
    BY <1>3 DEF G

-----------------------------------------------------------------------------
(* Arithmetic. *)

(* Math.min of two numbers. *)
LEMMA MinOfTwo ==
    ASSUME NEW a \in Nat, NEW b \in Nat
    PROVE  Min({a, b}) = IF a <= b THEN a ELSE b
<1>1. \E x \in {a, b} : \A y \in {a, b} : x <= y
    OBVIOUS
<1>2. QED
    BY <1>1 DEF Min

(* Math.max of two numbers. *)
LEMMA MaxOfTwo ==
    ASSUME NEW a \in Nat, NEW b \in Nat
    PROVE  Max({a, b}) = IF a >= b THEN a ELSE b
<1>1. \E x \in {a, b} : \A y \in {a, b} : x >= y
    OBVIOUS
<1>2. QED
    BY <1>1 DEF Max

(* Quotient and remainder. *)
LEMMA DivFacts ==
    ASSUME NEW a \in Nat, NEW b \in Nat \ {0}
    PROVE  /\ a \div b \in Nat /\ a % b \in 0..(b - 1)
           /\ a = (b * (a \div b)) + (a % b)
BY Z3

-----------------------------------------------------------------------------
(* The rows. *)

(* What each row obeys: counters within the task, times within the bounds, *)
(* and no finished task with an open subtask.                              *)
RowOK(r) ==
    /\ r \in Row
    /\ r.done + r.failed <= TotalItems(r)
    /\ r.created \in FirstTime..LastTime /\ r.updated \in FirstTime..LastTime
    /\ r.status \notin {"pending", "processing", "stopped"} => r.done + r.failed = TotalItems(r)

DashboardInv ==
    /\ rows \in Seq(Row) /\ Len(rows) <= MaxRows
    /\ \A i \in 1..Len(rows) : RowOK(rows[i])
    /\ now \in FirstTime..LastTime
    /\ selectedDate \in Days
    /\ selectedPlatform \in {All} \cup Platforms

(* What is submitted has finitely many platforms and a number of subtasks. *)
LEMMA ShapeFacts ==
    ASSUME NEW shape \in Shapes
    PROVE  /\ shape.prompts \in Nat
           /\ shape.platforms \subseteq Platforms /\ IsFiniteSet(shape.platforms)
           /\ Cardinality(shape.platforms) \in Nat
           /\ ItemsOf(shape) \in Nat
<1>1. shape.prompts \in Nat /\ IsFiniteSet(Platforms)
    BY ShapesAssumption
<1>2. shape.platforms \subseteq Platforms
    BY DEF Platforms
<1>3. IsFiniteSet(shape.platforms)
    BY <1>1, <1>2, FS_Subset
<1>4. Cardinality(shape.platforms) \in Nat
    BY <1>3, FS_CardinalityType
<1>5. PICK n \in Nat, c \in Nat : n = shape.prompts /\ c = Cardinality(shape.platforms)
    BY <1>1, <1>4
<1>6. ItemsOf(shape) \in Nat
    <2>1. n * c \in Nat
        OBVIOUS
    <2>2. QED
        BY <1>5, <2>1 DEF ItemsOf
<1>7. QED
    BY <1>1, <1>2, <1>3, <1>4, <1>6

(* Days are numbers. *)
LEMMA DayRange ==
    ASSUME NEW t \in FirstTime..LastTime
    PROVE  DayOf(t) \in Nat
<1>1. t \in Nat /\ HoursPerDay \in Nat \ {0}
    BY CalendarAssumption
<1>2. QED
    BY <1>1, DivFacts DEF DayOf

(* Later hours are of later days. *)
LEMMA DayMonotone ==
    ASSUME NEW t \in FirstTime..LastTime
    PROVE  DayOf(t) \in DayOf(FirstTime)..DayOf(LastTime)
<1>1. PICK h \in Nat \ {0}, a \in Nat, b \in Nat, c \in Nat :
          /\ h = HoursPerDay /\ a = FirstTime /\ b = t /\ c = LastTime
          /\ a <= b /\ b <= c
    BY CalendarAssumption
<1>2. a \div h \in Nat /\ b \div h \in Nat /\ c \div h \in Nat
    BY DivFacts
<1>3. a \div h <= b \div h /\ b \div h <= c \div h
    BY <1>1, Z3
<1>4. QED
    BY <1>1, <1>2, <1>3 DEF DayOf

(* The empty table. *)
LEMMA InitOK == Init => DashboardInv
<1>1. SUFFICES ASSUME Init PROVE DashboardInv
    OBVIOUS
<1>2. rows = <<>> /\ Len(rows) = 0 /\ rows \in Seq(Row)
    BY <1>1 DEF Init
<1>3. now \in FirstTime..LastTime /\ 0 <= MaxRows
    BY <1>1, CalendarAssumption DEF Init
<1>4. DayOf(FirstTime) \in Nat /\ DayOf(LastTime) \in Nat /\ DayOf(FirstTime) <= DayOf(LastTime)
    <2>1. /\ FirstTime \in FirstTime..LastTime /\ LastTime \in FirstTime..LastTime
          /\ HoursPerDay \in Nat \ {0}
          /\ FirstTime \in Nat /\ LastTime \in Nat /\ FirstTime <= LastTime
        BY CalendarAssumption
    <2>2. DayOf(FirstTime) \in Nat /\ DayOf(LastTime) \in Nat
        BY <2>1, DayRange
    <2>3. FirstTime \div HoursPerDay <= LastTime \div HoursPerDay
        BY <2>1, Z3
    <2>4. QED
        BY <2>2, <2>3 DEF DayOf
<1>5. selectedDate \in Days /\ selectedPlatform \in {All} \cup Platforms
    BY <1>1, <1>4 DEF Init, Days
<1>6. QED
    BY <1>2, <1>3, <1>5 DEF DashboardInv

(* A new row has no subtask done. *)
LEMMA InsertKeeps ==
    ASSUME DashboardInv, NEW shape \in Shapes, Insert(shape)
    PROVE  DashboardInv'
<1>1. PICK submitted \in BOOLEAN : rows' = Append(rows, NewRow(shape, submitted))
    BY DEF Insert
<1> DEFINE r == NewRow(shape, submitted)
<1>2. RowOK(r)
    <2>1. now \in FirstTime..LastTime /\ now \in Nat /\ ItemsOf(shape) \in Nat
        BY ShapeFacts, CalendarAssumption DEF DashboardInv
    <2>2. r \in Row
        BY <2>1 DEF NewRow, Row, MasterStatus
    <2>3. QED
        BY <2>1, <2>2 DEF NewRow, RowOK, TotalItems
<1>3. r \in Row /\ rows \in Seq(Row) /\ Len(rows) \in Nat
    BY <1>2 DEF RowOK, DashboardInv
<1> HIDE DEF r
<1>4. /\ rows' = Append(rows, r) /\ rows' \in Seq(Row) /\ Len(rows') = Len(rows) + 1
      /\ \A i \in 1..Len(rows) : rows'[i] = rows[i]
      /\ rows'[Len(rows) + 1] = r
    BY <1>1, <1>3 DEF r
<1>5. Len(rows') <= MaxRows
    BY <1>3, <1>4, CalendarAssumption DEF Insert
<1>6. \A i \in 1..Len(rows') : RowOK(rows'[i])
    <2>1. SUFFICES ASSUME NEW i \in 1..Len(rows') PROVE RowOK(rows'[i])
        OBVIOUS
    <2>2. i \in 1..Len(rows) \/ i = Len(rows) + 1
        BY <1>3, <1>4
    <2>3. QED
        BY <1>2, <1>4, <2>2 DEF DashboardInv
<1>7. QED
    BY <1>4, <1>5, <1>6 DEF DashboardInv, Insert

(* A step that overwrites one row. *)
LEMMA UpdateKeeps ==
    ASSUME DashboardInv, NEW i \in 1..Len(rows), NEW r, RowOK(r),
           rows' = [rows EXCEPT ![i] = r],
           UNCHANGED <<now, selectedDate, selectedPlatform>>
    PROVE  DashboardInv'
<1>1. rows \in Seq(Row) /\ r \in Row
    BY DEF DashboardInv, RowOK
<1>2. /\ rows' \in Seq(Row) /\ Len(rows') = Len(rows)
      /\ \A j \in 1..Len(rows) : rows'[j] = IF j = i THEN r ELSE rows[j]
    BY <1>1
<1>3. \A j \in 1..Len(rows') : RowOK(rows'[j])
    BY <1>2 DEF DashboardInv
<1>4. QED
    BY <1>2, <1>3 DEF DashboardInv

(* A sync: what the service says of the task is consistent (Progress). *)
LEMMA SyncKeeps ==
    ASSUME DashboardInv, NEW i \in 1..Len(rows), Sync(i)
    PROVE  DashboardInv'
<1> DEFINE n == TotalItems(rows[i])
<1>1. PICK p \in Progress(n) :
          rows' = [rows EXCEPT ![i].status = p.status, ![i].done = p.done,
                               ![i].failed = p.failed, ![i].updated = now]
    BY DEF Sync
<1> DEFINE r == [rows[i] EXCEPT !.status = p.status, !.done = p.done,
                                !.failed = p.failed, !.updated = now]
<1>2. RowOK(rows[i]) /\ rows[i] \in Row /\ rows \in Seq(Row)
    BY DEF DashboardInv, RowOK
<1>3. n \in Nat
    BY <1>2, ShapeFacts DEF Row, TotalItems
<1>4. /\ p.status \in MasterStatus /\ p.done \in 0..n /\ p.failed \in 0..n
      /\ p.done + p.failed <= n
      /\ p.status \notin {"pending", "processing", "stopped"} => p.done + p.failed = n
    <2>1. /\ p.status \in MasterStatus /\ p.done \in 0..n /\ p.failed \in 0..n
          /\ p.done + p.failed <= n
          /\ p.status = "completed" => p.done = n
          /\ p.status = "failed" => p.failed = n
          /\ p.status = "partial_completed" => p.done + p.failed = n
        BY DEF Progress
    <2> HIDE DEF n
    <2>2. QED
        BY <1>3, <2>1 DEF MasterStatus
<1>5. p.done \in Nat /\ p.failed \in Nat
    <2> HIDE DEF n
    <2>1. QED
        BY <1>3, <1>4
<1>6. now \in FirstTime..LastTime /\ now \in Nat
    BY CalendarAssumption DEF DashboardInv
<1>7. r \in Row
    BY <1>2, <1>4, <1>5, <1>6 DEF Row
<1>8. /\ r.shape = rows[i].shape /\ r.status = p.status /\ r.done = p.done
      /\ r.failed = p.failed /\ r.created = rows[i].created /\ r.updated = now
    BY <1>2 DEF Row
<1>9. rows' = [rows EXCEPT ![i] = r]
    BY <1>1, <1>2 DEF Row
<1>10. RowOK(r)
    <2>1. TotalItems(r) = n
        BY <1>8 DEF TotalItems
    <2> HIDE DEF r, n
    <2>2. QED
        BY <1>2, <1>4, <1>6, <1>7, <1>8, <2>1 DEF RowOK
<1> HIDE DEF r
<1>11. QED
    BY <1>9, <1>10, UpdateKeeps DEF Sync

(* A submission stored after the first callback: the counters stay, the    *)
(* status is open.                                                         *)
LEMMA SubmitLateKeeps ==
    ASSUME DashboardInv, NEW i \in 1..Len(rows), SubmitLate(i)
    PROVE  DashboardInv'
<1> DEFINE r == [rows[i] EXCEPT !.submitted = TRUE, !.status = "pending", !.updated = now]
<1>1. RowOK(rows[i]) /\ rows[i] \in Row /\ rows \in Seq(Row)
    BY DEF DashboardInv, RowOK
<1>2. now \in FirstTime..LastTime /\ now \in Nat
    BY CalendarAssumption DEF DashboardInv
<1>3. r \in Row
    BY <1>1, <1>2 DEF Row, MasterStatus
<1>4. /\ r.shape = rows[i].shape /\ r.status = "pending" /\ r.done = rows[i].done
      /\ r.failed = rows[i].failed /\ r.created = rows[i].created /\ r.updated = now
    BY <1>1 DEF Row
<1>5. rows' = [rows EXCEPT ![i] = r]
    BY <1>1 DEF Row, SubmitLate
<1>6. RowOK(r)
    <2>1. TotalItems(r) = TotalItems(rows[i])
        BY <1>4 DEF TotalItems
    <2> HIDE DEF r
    <2>2. QED
        BY <1>1, <1>2, <1>3, <1>4, <2>1 DEF RowOK
<1> HIDE DEF r
<1>7. QED
    BY <1>5, <1>6, UpdateKeeps DEF SubmitLate

(* A page shows rows of the table. *)
LEMMA ItemsInRows ==
    ASSUME DashboardInv
    PROVE  Items \subseteq 1..Len(rows)
<1>1. Len(rows) \in Nat /\ PageCap \in Nat
    BY CapAssumption DEF DashboardInv
<1>2. Min({Len(rows), PageCap}) \in 0..Len(rows)
    BY <1>1, MinOfTwo
<1>3. QED
    BY <1>1, <1>2 DEF Items

(* The platforms offered are platforms of tasks. *)
LEMMA SelectPlatformKeeps ==
    ASSUME DashboardInv, NEW platform \in {All} \cup Platforms, SelectPlatform(platform)
    PROVE  DashboardInv'
BY DEF DashboardInv, SelectPlatform

(* The invariant is inductive. *)
LEMMA StepKeeps == DashboardInv /\ [Next]_vars => DashboardInv'
<1> SUFFICES ASSUME DashboardInv, [Next]_vars PROVE DashboardInv'
    OBVIOUS
<1>1. CASE \E shape \in Shapes : Insert(shape)
    BY <1>1, InsertKeeps
<1>2. CASE \E i \in 1..Len(rows) : Sync(i)
    BY <1>2, SyncKeeps
<1>3. CASE \E i \in 1..Len(rows) : SubmitLate(i)
    BY <1>3, SubmitLateKeeps
<1>4. CASE Tick
    BY <1>4, CalendarAssumption DEF Tick, DashboardInv
<1>5. CASE \E day \in Days : SelectDate(day)
    BY <1>5 DEF SelectDate, DashboardInv
<1>6. CASE \E platform \in {All} \cup Platforms : SelectPlatform(platform)
    BY <1>6, SelectPlatformKeeps
<1>7. CASE UNCHANGED vars
    BY <1>7 DEF vars, DashboardInv
<1>8. QED
    BY <1>1, <1>2, <1>3, <1>4, <1>5, <1>6, <1>7 DEF Next

(* Every row that the dashboard reads has counters within its task, and a  *)
(* finished one has no open subtask.                                       *)
THEOREM RowsConsistent == Spec => []DashboardInv
BY InitOK, StepKeeps, PTL DEF Spec
-----------------------------------------------------------------------------
(* What the figures read. *)

(* The sums of Dashboard are those of this module. *)
LEMMA SumIs ==
    ASSUME NEW S, NEW f, DOMAIN f = S
    PROVE  SumFunction(f) = Sigma(f, S)
BY DEF SumFunction, Sigma

(* The rows of a page and of a day are finitely many rows of the table. *)
LEMMA ScopedRows ==
    ASSUME DashboardInv
    PROVE  /\ Items \subseteq 1..Len(rows) /\ IsFiniteSet(Items)
           /\ \A day : Scoped(day) \subseteq Items /\ IsFiniteSet(Scoped(day))
<1>1. Items \subseteq 1..Len(rows)
    BY ItemsInRows
<1>2. IsFiniteSet(1..Len(rows))
    <2>1. Len(rows) \in Nat
        BY DEF DashboardInv
    <2>2. QED
        BY <2>1, FS_Interval
<1>3. IsFiniteSet(Items)
    BY <1>1, <1>2, FS_Subset
<1>4. \A day : Scoped(day) \subseteq Items /\ IsFiniteSet(Scoped(day))
    BY <1>3, FS_Subset DEF Scoped
<1>5. QED
    BY <1>1, <1>3, <1>4

(* The counters of a row as numbers: done, failed and remaining subtasks   *)
(* are the task's, and only an open task has remaining ones.               *)
LEMMA RowFacts ==
    ASSUME DashboardInv, NEW i \in 1..Len(rows)
    PROVE  /\ rows[i].shape \in Shapes /\ rows[i].submitted \in BOOLEAN
           /\ rows[i].status \in MasterStatus
           /\ TotalItems(rows[i]) \in Nat
           /\ rows[i].done \in Nat /\ rows[i].failed \in Nat
           /\ Remaining(rows[i]) \in Nat
           /\ rows[i].done + rows[i].failed + Remaining(rows[i]) = TotalItems(rows[i])
           /\ rows[i].status \notin {"pending", "processing", "stopped"}
                => Remaining(rows[i]) = 0
           /\ rows[i].created \in Nat /\ rows[i].updated \in Nat
<1>1. RowOK(rows[i])
    BY DEF DashboardInv
<1>2. /\ rows[i].shape \in Shapes /\ rows[i].submitted \in BOOLEAN
      /\ rows[i].status \in MasterStatus /\ rows[i].done \in Nat /\ rows[i].failed \in Nat
      /\ rows[i].created \in Nat /\ rows[i].updated \in Nat
    BY <1>1 DEF RowOK, Row
<1>3. TotalItems(rows[i]) \in Nat
    BY <1>2, ShapeFacts DEF TotalItems
<1>4. /\ rows[i].done + rows[i].failed <= TotalItems(rows[i])
      /\ rows[i].status \notin {"pending", "processing", "stopped"}
            => rows[i].done + rows[i].failed = TotalItems(rows[i])
    BY <1>1 DEF RowOK
<1>5. /\ Remaining(rows[i]) \in Nat
      /\ rows[i].done + rows[i].failed + Remaining(rows[i]) = TotalItems(rows[i])
      /\ rows[i].status \notin {"pending", "processing", "stopped"} => Remaining(rows[i]) = 0
    BY <1>2, <1>3, <1>4 DEF Remaining
<1>6. QED
    BY <1>2, <1>3, <1>5

-----------------------------------------------------------------------------
(* The backlog list. *)

(* A completed task has no open subtask, so leaving those out hides none;  *)
(* the rest is the order of the list.                                      *)
LEMMA BacklogHolds == DashboardInv => BacklogShowsOpenTasks
<1>1. SUFFICES ASSUME DashboardInv,
                      NEW T \in PressureTops(selectedDate),
                      NEW i \in T, Remaining(rows[i]) = 0,
                      NEW j \in Scoped(selectedDate), Remaining(rows[j]) > 0
               PROVE  j \in T
    BY DEF BacklogShowsOpenTasks
<1> DEFINE S == {k \in Scoped(selectedDate) : rows[k].status # "completed"}
<1>2. T \subseteq S /\ \A k \in T, l \in S \ T : Remaining(rows[k]) >= Remaining(rows[l])
    BY <1>1 DEF PressureTops, Tops
<1>3. j \in 1..Len(rows) /\ i \in 1..Len(rows)
    BY <1>1, <1>2, ScopedRows
<1>4. j \in S
    <2>1. rows[j].status \notin {"pending", "processing", "stopped"} => Remaining(rows[j]) = 0
        BY <1>1, <1>3, RowFacts
    <2>2. rows[j].status # "completed"
        BY <1>1, <2>1
    <2>3. QED
        BY <1>1, <2>2
<1>5. Remaining(rows[j]) \in Nat /\ ~(Remaining(rows[i]) >= Remaining(rows[j]))
    BY <1>1, <1>3, RowFacts
<1>6. QED
    BY <1>2, <1>4, <1>5

(* Whatever is in the table, the backlog list of the dashboard hides no    *)
(* task with open subtasks behind one that has none.                       *)
THEOREM BacklogHidesNoOpenTask == Spec => []BacklogShowsOpenTasks
BY RowsConsistent, BacklogHolds, PTL

-----------------------------------------------------------------------------
(* The hourly chart. *)

(* Each task of the day has one hour: the table of done subtasks by hour   *)
(* and task has the same sum both ways.                                    *)
LEMMA HoursHold == DashboardInv => HoursMatchOverview
<1>1. SUFFICES ASSUME DashboardInv PROVE HoursMatchOverview
    OBVIOUS
<1> DEFINE day == selectedDate
           S == Scoped(day)
           P == 0..(HoursPerDay - 1)
           In(p) == {i \in S : rows[i].created % HoursPerDay = p}
           F == [p \in P |-> [i \in S |-> IF i \in In(p) THEN rows[i].done ELSE 0]]
           H == [i \in S |-> [p \in P |-> F[p][i]]]
           r == [p \in P |-> HourCompleted(day, p)]
           c == [i \in S |-> rows[i].done]
<1>2. IsFiniteSet(S) /\ S \subseteq 1..Len(rows)
    BY <1>1, ScopedRows
<1>3. IsFiniteSet(P)
    BY CalendarAssumption, FS_Interval
<1>4. \A i \in S : rows[i].done \in Nat /\ rows[i].created \in Nat
    BY <1>1, <1>2, RowFacts
<1>5. \A p \in P : Counts(F[p], S)
    BY <1>4 DEF Counts
<1>6. \A p \in P : r[p] = Sigma(F[p], S)
    <2>1. SUFFICES ASSUME NEW p \in P PROVE r[p] = Sigma(F[p], S)
        OBVIOUS
    <2> DEFINE f == [i \in In(p) |-> rows[i].done]
    <2>2. r[p] = SumFunction(f)
        BY DEF HourCompleted
    <2>3. SumFunction(f) = Sigma(f, In(p))
        BY SumIs
    <2>4. /\ In(p) \in SUBSET S /\ Counts(f, In(p))
          /\ \A i \in S : F[p][i] = IF i \in In(p) THEN f[i] ELSE 0
        BY <1>4 DEF Counts
    <2>5. PICK g : g = F[p]
        OBVIOUS
    <2> HIDE DEF f, F, r, S, In
    <2>6. \A i \in S : g[i] = IF i \in In(p) THEN f[i] ELSE 0
        BY <2>4, <2>5
    <2>7. Sigma(g, S) = Sigma(f, In(p))
        BY <1>2, <2>4, <2>6, SigmaPart
    <2>8. QED
        BY <2>2, <2>3, <2>5, <2>7
<1>7. \A i \in S : c[i] = Sigma(H[i], P)
    <2>1. SUFFICES ASSUME NEW i \in S PROVE c[i] = Sigma(H[i], P)
        OBVIOUS
    <2>2. PICK hour : hour = rows[i].created % HoursPerDay
        OBVIOUS
    <2>3. hour \in P
        BY <1>4, <2>2, CalendarAssumption, DivFacts
    <2>4. \A p \in P : H[i][p] = IF p = hour THEN c[i] ELSE 0
        BY <2>2
    <2>5. PICK h : h = H[i]
        OBVIOUS
    <2>6. c[i] \in Nat
        BY <1>4
    <2> HIDE DEF P, c, H
    <2>7. h[hour] = c[i] /\ h[hour] \in Nat /\ \A p \in P \ {hour} : h[p] = 0
        BY <2>3, <2>4, <2>5, <2>6
    <2>8. Sigma(h, P) = h[hour]
        BY <1>3, <2>3, <2>7, SigmaOne
    <2>9. QED
        BY <2>5, <2>7, <2>8
<1>8. \A i \in S : \A p \in P : H[i][p] = F[p][i]
    OBVIOUS
<1>9. SumFunction(r) = Sigma(r, P) /\ SumFunction(c) = Sigma(c, S)
    BY SumIs
<1>10. Overview(day).completed = SumFunction(c)
    BY DEF Overview
<1>11. HoursMatchOverview <=> SumFunction(r) = Overview(day).completed
    BY DEF HoursMatchOverview
<1> HIDE DEF S, P, F, H, r, c, day
<1>12. Sigma(r, P) = Sigma(c, S)
    <2>1. Table(F, H, P, S) /\ SumsOf(F, r, P, S) /\ SumsOf(H, c, S, P)
        BY <1>5, <1>6, <1>7, <1>8 DEF Table, SumsOf
    <2>2. QED
        BY <1>2, <1>3, <2>1, SigmaSwap
<1>13. QED
    BY <1>9, <1>10, <1>11, <1>12

(* Whatever is in the table, the bars of the hourly chart add up to the    *)
(* completed subtasks of the overview.                                     *)
THEOREM HoursAddUp == Spec => []HoursMatchOverview
BY RowsConsistent, HoursHold, PTL

-----------------------------------------------------------------------------
(* The overview. *)

(* The pairs of an element and a number between two bounds; c counts them. *)
Ranges(from, upto, S) == UNION {{<<i, k>> : k \in (from[i] + 1)..upto[i]} : i \in S}
Spans(from, upto, c, S) ==
    /\ Counts(from, S) /\ Counts(upto, S)
    /\ \A i \in S : from[i] <= upto[i] /\ c[i] = upto[i] - from[i]

(* Counting subtasks of tasks by the range of their numbers. *)
LEMMA CountRanges ==
    ASSUME NEW S, IsFiniteSet(S), NEW from, NEW upto, NEW c, Spans(from, upto, c, S)
    PROVE  Cardinality(Ranges(from, upto, S)) = Sigma(c, S)
<1> DEFINE K == [i \in S |-> (from[i] + 1)..upto[i]]
<1>1. \A i \in S : IsFiniteSet(K[i]) /\ c[i] = Cardinality(K[i])
    <2>1. SUFFICES ASSUME NEW i \in S PROVE IsFiniteSet(K[i]) /\ c[i] = Cardinality(K[i])
        OBVIOUS
    <2>2. PICK a \in Int, b \in Int : a = from[i] + 1 /\ b = upto[i]
        BY DEF Counts, Spans
    <2>3. K[i] = a..b /\ c[i] = b - a + 1 /\ a <= b + 1
        BY <2>2 DEF Counts, Spans
    <2>4. IsFiniteSet(a..b) /\ Cardinality(a..b) = IF a > b THEN 0 ELSE b - a + 1
        BY FS_Interval
    <2>5. Cardinality(a..b) = b - a + 1
        BY <2>3, <2>4
    <2> HIDE DEF K
    <2>6. QED
        BY <2>3, <2>4, <2>5
<1>2. Ranges(from, upto, S) = UNION {{<<i, k>> : k \in K[i]} : i \in S}
    BY DEF Ranges
<1> HIDE DEF K
<1>3. QED
    BY <1>1, <1>2, CountPairs

(* With the whole table on the page, the tasks of a day are scoped. *)
LEMMA ScopedAll ==
    ASSUME DashboardInv, Len(rows) <= PageCap, NEW day
    PROVE  Scoped(day) = {j \in 1..Len(rows) : DayOf(rows[j].created) = day}
<1>1. Len(rows) \in Nat /\ PageCap \in Nat
    BY CapAssumption DEF DashboardInv
<1>2. Min({Len(rows), PageCap}) = Len(rows)
    BY <1>1, MinOfTwo
<1>3. Items = 1..Len(rows)
    BY <1>1, <1>2 DEF Items
<1>4. QED
    BY <1>3 DEF Scoped

(* The subtasks of the day are those of the scoped tasks. *)
LEMMA SubtaskIn ==
    ASSUME DashboardInv, Len(rows) <= PageCap, NEW day, NEW x
    PROVE  x \in Subtasks(day) <=>
               \E i \in Scoped(day) : \E k \in 1..TotalItems(rows[i]) : x = <<i, k>>
BY ScopedAll DEF Subtasks

(* The open subtasks under one status, as sums and one by one. *)
LEMMA OpenHolds ==
    ASSUME DashboardInv, Len(rows) <= PageCap, NEW day, NEW status
    PROVE  LET S == Scoped(day)
               c == [i \in S |-> IF rows[i].status = status THEN Remaining(rows[i]) ELSE 0]
           IN  /\ Cardinality(OpenIn(day, status)) = Sigma(c, S)
               /\ SumFunction([i \in WithStatus(S, status) |-> Remaining(rows[i])]) = Sigma(c, S)
<1> DEFINE S == Scoped(day)
           c == [i \in S |-> IF rows[i].status = status THEN Remaining(rows[i]) ELSE 0]
           from == [i \in S |-> rows[i].done + rows[i].failed]
           upto == [i \in S |-> from[i] + c[i]]
           X == Ranges(from, upto, S)
<1>1. S \subseteq 1..Len(rows) /\ IsFiniteSet(S)
    BY ScopedRows
<1>2. \A i \in S : /\ rows[i].done \in Nat /\ rows[i].failed \in Nat
                   /\ Remaining(rows[i]) \in Nat /\ TotalItems(rows[i]) \in Nat
                   /\ rows[i].done + rows[i].failed + Remaining(rows[i]) = TotalItems(rows[i])
    BY <1>1, RowFacts
<1>3. Counts(c, S) /\ Spans(from, upto, c, S)
    <2>1. ASSUME NEW i \in S
          PROVE  /\ from[i] \in Nat /\ c[i] \in Nat /\ upto[i] \in Nat
                 /\ from[i] <= upto[i] /\ c[i] = upto[i] - from[i]
        <3>1. PICK n \in Nat, m \in Nat : n = from[i] /\ m = c[i]
            BY <1>2
        <3>2. upto[i] = n + m
            BY <3>1
        <3> HIDE DEF from, c, upto
        <3>3. QED
            BY <3>1, <3>2
    <2> HIDE DEF from, c, upto
    <2>2. QED
        BY <2>1 DEF Counts, Spans
<1>4. OpenIn(day, status) = X
    <2>1. ASSUME NEW x \in OpenIn(day, status) PROVE x \in X
        <3>1. PICK i \in S : \E k \in 1..TotalItems(rows[i]) : x = <<i, k>>
            BY SubtaskIn DEF OpenIn
        <3>0. PICK k \in 1..TotalItems(rows[i]) : x = <<i, k>>
            BY <3>1
        <3>2. /\ rows[i].status = status
              /\ ~(k <= rows[i].done) /\ ~(k <= rows[i].done + rows[i].failed)
            BY <3>0 DEF OpenIn, IsCompleted, IsFailed
        <3>3. k \in (from[i] + 1)..upto[i]
            BY <1>2, <3>2
        <3>4. QED
            BY <3>0, <3>3 DEF Ranges
    <2>2. ASSUME NEW x \in X PROVE x \in OpenIn(day, status)
        <3>0. PICK i \in S : x \in {<<i, k>> : k \in (from[i] + 1)..upto[i]}
            BY DEF Ranges
        <3>1. PICK k \in (from[i] + 1)..upto[i] : x = <<i, k>>
            BY <3>0
        <3>2. k \in Int /\ rows[i].done + rows[i].failed + 1 <= k /\ k <= upto[i]
            BY <1>2
        <3>3. rows[i].status = status /\ k <= TotalItems(rows[i])
            BY <1>2, <3>2
        <3>4. k \in 1..TotalItems(rows[i]) /\ ~(k <= rows[i].done)
              /\ ~(k <= rows[i].done + rows[i].failed)
            <4>1. PICK d \in Nat, e \in Nat, n \in Nat :
                      d = rows[i].done /\ e = rows[i].failed /\ n = TotalItems(rows[i])
                BY <1>2
            <4>2. k \in Int /\ d + e + 1 <= k /\ k <= n
                BY <3>2, <3>3, <4>1
            <4>3. k \in 1..n /\ ~(k <= d) /\ ~(k <= d + e)
                BY <4>2
            <4>4. QED
                BY <4>1, <4>3
        <3>5. x \in Subtasks(day)
            BY <3>1, <3>4, SubtaskIn
        <3>6. x[1] = i /\ x[2] = k
            BY <3>1
        <3>7. QED
            BY <3>3, <3>4, <3>5, <3>6 DEF OpenIn, IsCompleted, IsFailed
    <2>3. QED
        BY <2>1, <2>2
<1>5. Cardinality(X) = Sigma(c, S)
    <2> HIDE DEF c, from, upto, S
    <2>1. QED
        BY <1>1, <1>3, CountRanges
<1>6. SumFunction([i \in WithStatus(S, status) |-> Remaining(rows[i])]) = Sigma(c, S)
    <2> DEFINE T == WithStatus(S, status)
               f == [i \in T |-> Remaining(rows[i])]
    <2>1. SumFunction(f) = Sigma(f, T)
        BY SumIs
    <2>2. /\ T \in SUBSET S /\ Counts(f, T)
          /\ \A i \in S : c[i] = IF i \in T THEN f[i] ELSE 0
        BY <1>2 DEF Counts, WithStatus
    <2> HIDE DEF f, T, c, S
    <2>3. Sigma(c, S) = Sigma(f, T)
        BY <1>1, <2>2, SigmaPart
    <2>4. QED
        BY <2>1, <2>3 DEF f, T
<1>7. Cardinality(OpenIn(day, status)) = Sigma(c, S)
    BY <1>4, <1>5
<1>8. QED
    BY <1>6, <1>7

(* All, the completed and the failed subtasks, as sums and one by one. *)
LEMMA CountersHold ==
    ASSUME DashboardInv, Len(rows) <= PageCap, NEW day
    PROVE  LET S == Scoped(day)
               X == Subtasks(day)
           IN  /\ Cardinality(X) = Sigma([i \in S |-> TotalItems(rows[i])], S)
               /\ Cardinality({x \in X : IsCompleted(x)}) = Sigma([i \in S |-> rows[i].done], S)
               /\ Cardinality({x \in X : IsFailed(x)}) = Sigma([i \in S |-> rows[i].failed], S)
<1> DEFINE S == Scoped(day)
           zero == [i \in S |-> 0]
           total == [i \in S |-> TotalItems(rows[i])]
           done == [i \in S |-> rows[i].done]
           failed == [i \in S |-> rows[i].failed]
           both == [i \in S |-> rows[i].done + rows[i].failed]
           Pairs(from, upto) == Ranges(from, upto, S)
<1>1. S \subseteq 1..Len(rows) /\ IsFiniteSet(S)
    BY ScopedRows
<1>2. \A i \in S : /\ rows[i].done \in Nat /\ rows[i].failed \in Nat
                   /\ TotalItems(rows[i]) \in Nat
                   /\ rows[i].done + rows[i].failed <= TotalItems(rows[i])
    <2>1. SUFFICES ASSUME NEW i \in S
                   PROVE  /\ rows[i].done \in Nat /\ rows[i].failed \in Nat
                          /\ TotalItems(rows[i]) \in Nat
                          /\ rows[i].done + rows[i].failed <= TotalItems(rows[i])
        OBVIOUS
    <2>2. QED
        BY <1>1, RowFacts
<1>3. /\ Counts(zero, S) /\ Counts(total, S) /\ Counts(done, S)
      /\ Counts(failed, S) /\ Counts(both, S)
    BY <1>2 DEF Counts
<1>4. Spans(zero, total, total, S) /\ Spans(zero, done, done, S) /\ Spans(done, both, failed, S)
    <2>1. /\ \A i \in S : zero[i] <= total[i] /\ total[i] = total[i] - zero[i]
          /\ \A i \in S : zero[i] <= done[i] /\ done[i] = done[i] - zero[i]
          /\ \A i \in S : done[i] <= both[i] /\ failed[i] = both[i] - done[i]
        BY <1>2
    <2> HIDE DEF zero, total, done, failed, both, S
    <2>2. QED
        BY <1>3, <2>1 DEF Spans
<1>5. \A x : x \in Subtasks(day) <=> \E i \in S : \E k \in 1..TotalItems(rows[i]) : x = <<i, k>>
    BY SubtaskIn
<1>6. Subtasks(day) = Pairs(zero, total)
    <2>1. \A i \in S : zero[i] + 1 = 1 /\ total[i] = TotalItems(rows[i])
        OBVIOUS
    <2>2. \A x : x \in Pairs(zero, total)
                    <=> \E i \in S : \E k \in (zero[i] + 1)..total[i] : x = <<i, k>>
        BY DEF Ranges
    <2> HIDE DEF zero, total, Pairs, S
    <2>3. QED
        BY <1>5, <2>1, <2>2
<1>7. {x \in Subtasks(day) : IsCompleted(x)} = Pairs(zero, done)
    <2>1. ASSUME NEW i \in S, NEW k
          PROVE  (k \in 1..TotalItems(rows[i]) /\ k <= rows[i].done)
                    <=> k \in (zero[i] + 1)..done[i]
        BY <1>2
    <2>2. \A x : x \in Pairs(zero, done)
                    <=> \E i \in S : \E k \in (zero[i] + 1)..done[i] : x = <<i, k>>
        BY DEF Ranges
    <2> HIDE DEF zero, done, Pairs, S
    <2>3. \A x : x \in Subtasks(day) /\ IsCompleted(x)
                    <=> \E i \in S : \E k \in 1..TotalItems(rows[i]) :
                            x = <<i, k>> /\ k <= rows[i].done
        BY <1>5 DEF IsCompleted
    <2>4. QED
        BY <2>1, <2>2, <2>3
<1>8. {x \in Subtasks(day) : IsFailed(x)} = Pairs(done, both)
    <2>1. ASSUME NEW i \in S, NEW k
          PROVE  (k \in 1..TotalItems(rows[i]) /\ ~(k <= rows[i].done)
                    /\ k <= rows[i].done + rows[i].failed) <=> k \in (done[i] + 1)..both[i]
        <3>1. PICK d \in Nat, e \in Nat, n \in Nat :
                  d = rows[i].done /\ e = rows[i].failed /\ n = TotalItems(rows[i]) /\ d + e <= n
            BY <1>2
        <3>2. (k \in 1..n /\ ~(k <= d) /\ k <= d + e) <=> k \in (d + 1)..(d + e)
            <4>1. ASSUME k \in 1..n, ~(k <= d), k <= d + e PROVE k \in (d + 1)..(d + e)
                BY <4>1
            <4>2. ASSUME k \in (d + 1)..(d + e) PROVE k \in 1..n /\ ~(k <= d) /\ k <= d + e
                <5>1. k \in Int /\ d + 1 <= k /\ k <= d + e
                    BY <4>2
                <5>2. QED
                    BY <3>1, <5>1
            <4>3. QED
                BY <4>1, <4>2
        <3>3. done[i] = d /\ both[i] = d + e
            BY <3>1
        <3>4. QED
            BY <3>1, <3>2, <3>3
    <2>2. \A x : x \in Pairs(done, both)
                    <=> \E i \in S : \E k \in (done[i] + 1)..both[i] : x = <<i, k>>
        BY DEF Ranges
    <2> HIDE DEF both, done, Pairs, S
    <2>3. \A x : x \in Subtasks(day) /\ IsFailed(x)
                    <=> \E i \in S : \E k \in 1..TotalItems(rows[i]) :
                            /\ x = <<i, k>> /\ ~(k <= rows[i].done)
                            /\ k <= rows[i].done + rows[i].failed
        BY <1>5 DEF IsCompleted, IsFailed
    <2>4. QED
        BY <2>1, <2>2, <2>3
<1>9. /\ Cardinality(Pairs(zero, total)) = Sigma(total, S)
      /\ Cardinality(Pairs(zero, done)) = Sigma(done, S)
      /\ Cardinality(Pairs(done, both)) = Sigma(failed, S)
    <2> HIDE DEF zero, total, done, failed, both, S
    <2>1. QED
        BY <1>1, <1>4, CountRanges
<1> HIDE DEF Pairs
<1>10. QED
    BY <1>6, <1>7, <1>8, <1>9

(* What of the tasks is neither completed nor failed is open, under one of *)
(* three statuses: task by task, hence for the sums.                       *)
LEMMA OverviewHolds ==
    ASSUME DashboardInv, Len(rows) <= PageCap
    PROVE  OverviewMatchesContract
<1> DEFINE day == selectedDate
           S == Scoped(day)
           total == [i \in S |-> TotalItems(rows[i])]
           done == [i \in S |-> rows[i].done]
           failed == [i \in S |-> rows[i].failed]
           Open(s) == [i \in S |-> IF rows[i].status = s THEN Remaining(rows[i]) ELSE 0]
           pending == Open("pending")
           running == Open("processing")
           stopped == Open("stopped")
           OpenSum(s) == SumFunction([i \in WithStatus(S, s) |-> Remaining(rows[i])])
<1>1. S \subseteq 1..Len(rows) /\ IsFiniteSet(S)
    BY ScopedRows
<1>2. \A i \in S : /\ rows[i].done \in Nat /\ rows[i].failed \in Nat
                   /\ Remaining(rows[i]) \in Nat /\ TotalItems(rows[i]) \in Nat
                   /\ rows[i].done + rows[i].failed + Remaining(rows[i]) = TotalItems(rows[i])
                   /\ rows[i].status \notin {"pending", "processing", "stopped"}
                        => Remaining(rows[i]) = 0
    <2>1. SUFFICES ASSUME NEW i \in S
                   PROVE  /\ rows[i].done \in Nat /\ rows[i].failed \in Nat
                          /\ Remaining(rows[i]) \in Nat /\ TotalItems(rows[i]) \in Nat
                          /\ rows[i].done + rows[i].failed + Remaining(rows[i])
                                = TotalItems(rows[i])
                          /\ rows[i].status \notin {"pending", "processing", "stopped"}
                                => Remaining(rows[i]) = 0
        OBVIOUS
    <2>2. QED
        BY <1>1, RowFacts
<1>3. /\ SumFunction(total) = Sigma(total, S)
      /\ SumFunction(done) = Sigma(done, S)
      /\ SumFunction(failed) = Sigma(failed, S)
    BY SumIs
<1>4. /\ Overview(day).total = SumFunction(total)
      /\ Overview(day).completed = SumFunction(done)
      /\ Overview(day).failed = SumFunction(failed)
      /\ Overview(day).pending = OpenSum("pending")
      /\ Overview(day).running = OpenSum("processing")
      /\ Overview(day).stopped = OpenSum("stopped")
    BY DEF Overview
<1>5. /\ Cardinality(Subtasks(day)) = Sigma(total, S)
      /\ Cardinality({x \in Subtasks(day) : IsCompleted(x)}) = Sigma(done, S)
      /\ Cardinality({x \in Subtasks(day) : IsFailed(x)}) = Sigma(failed, S)
    BY CountersHold
<1>6. \A s : Cardinality(OpenIn(day, s)) = Sigma(Open(s), S) /\ OpenSum(s) = Sigma(Open(s), S)
    BY OpenHolds
<1>7. Sigma(done, S) + Sigma(failed, S) + Sigma(pending, S) + Sigma(running, S)
        + Sigma(stopped, S) = Sigma(total, S)
    <2> DEFINE g1 == [i \in S |-> done[i] + failed[i]]
               g2 == [i \in S |-> g1[i] + pending[i]]
               g3 == [i \in S |-> g2[i] + running[i]]
    <2>1. ASSUME NEW i \in S
          PROVE  /\ done[i] \in Nat /\ failed[i] \in Nat /\ pending[i] \in Nat
                 /\ running[i] \in Nat /\ stopped[i] \in Nat
                 /\ done[i] + failed[i] + (pending[i] + running[i] + stopped[i]) = total[i]
        <3>1. PICK d \in Nat, e \in Nat, o \in Nat :
                  d = rows[i].done /\ e = rows[i].failed /\ o = Remaining(rows[i])
            BY <1>2
        <3>2. done[i] = d /\ failed[i] = e /\ total[i] = d + e + o
            BY <1>2, <3>1
        <3>3. /\ pending[i] = IF rows[i].status = "pending" THEN o ELSE 0
              /\ running[i] = IF rows[i].status = "processing" THEN o ELSE 0
              /\ stopped[i] = IF rows[i].status = "stopped" THEN o ELSE 0
            BY <3>1
        <3>4. rows[i].status \notin {"pending", "processing", "stopped"} => o = 0
            BY <1>2, <3>1
        <3> HIDE DEF done, failed, pending, running, stopped, total
        <3>5. /\ pending[i] \in Nat /\ running[i] \in Nat /\ stopped[i] \in Nat
              /\ pending[i] + running[i] + stopped[i] = o
            BY <3>1, <3>3, <3>4
        <3>6. QED
            BY <3>1, <3>2, <3>5
    <2> HIDE DEF done, failed, pending, running, stopped, total
    <2>2. ASSUME NEW i \in S
          PROVE  /\ g1[i] \in Nat /\ g2[i] \in Nat /\ g3[i] \in Nat
                 /\ g1[i] = done[i] + failed[i] /\ g2[i] = g1[i] + pending[i]
                 /\ g3[i] = g2[i] + running[i] /\ total[i] = g3[i] + stopped[i]
        <3>1. PICK d \in Nat, e \in Nat, p \in Nat, r \in Nat, s \in Nat :
                  /\ d = done[i] /\ e = failed[i] /\ p = pending[i]
                  /\ r = running[i] /\ s = stopped[i]
            BY <2>1
        <3>2. g1[i] = d + e /\ g2[i] = d + e + p /\ g3[i] = d + e + p + r
            BY <3>1
        <3>3. total[i] = d + e + (p + r + s)
            BY <2>1, <3>1
        <3>4. d + e \in Nat /\ d + e + p \in Nat /\ d + e + p + r \in Nat
            OBVIOUS
        <3>5. total[i] = (d + e + p + r) + s
            BY <3>3
        <3>6. /\ g1[i] = done[i] + failed[i] /\ g2[i] = g1[i] + pending[i]
              /\ g3[i] = g2[i] + running[i]
            OBVIOUS
        <3> HIDE DEF g1, g2, g3
        <3>7. QED
            BY <3>1, <3>2, <3>4, <3>5, <3>6
    <2> HIDE DEF g1, g2, g3, S
    <2>3. /\ Counts(done, S) /\ Counts(failed, S) /\ Counts(pending, S) /\ Counts(running, S)
          /\ Counts(stopped, S) /\ Counts(g1, S) /\ Counts(g2, S) /\ Counts(g3, S)
        BY <2>1, <2>2 DEF Counts
    <2>4. /\ \A i \in S : g1[i] = done[i] + failed[i]
          /\ \A i \in S : g2[i] = g1[i] + pending[i]
          /\ \A i \in S : g3[i] = g2[i] + running[i]
          /\ \A i \in S : total[i] = g3[i] + stopped[i]
        BY <2>2
    <2>5. /\ Sigma(g1, S) = Sigma(done, S) + Sigma(failed, S)
          /\ Sigma(g2, S) = Sigma(g1, S) + Sigma(pending, S)
        BY <1>1, <2>3, <2>4, SigmaPlus
    <2>6. /\ Sigma(g3, S) = Sigma(g2, S) + Sigma(running, S)
          /\ Sigma(total, S) = Sigma(g3, S) + Sigma(stopped, S)
        BY <1>1, <2>3, <2>4, SigmaPlus
    <2>7. QED
        BY <2>5, <2>6
<1>8. /\ OpenSum("pending") = Sigma(pending, S)
      /\ Cardinality(OpenIn(day, "pending")) = Sigma(pending, S)
      /\ OpenSum("processing") = Sigma(running, S)
      /\ Cardinality(OpenIn(day, "processing")) = Sigma(running, S)
      /\ OpenSum("stopped") = Sigma(stopped, S)
      /\ Cardinality(OpenIn(day, "stopped")) = Sigma(stopped, S)
    BY <1>6
<1> HIDE DEF total, done, failed, pending, running, stopped, OpenSum, S
<1>9. QED
    BY <1>3, <1>4, <1>5, <1>7, <1>8 DEF OverviewMatchesContract

(* As long as the whole table fits on the page the dashboard asks for, the *)
(* overview counts every subtask of the selected day's tasks once. (Beyond *)
(* that, the rows it never sees are missing.)                              *)
THEOREM OverviewCountsSubtasks == Spec => [](Len(rows) <= PageCap => OverviewMatchesContract)
<1>1. DashboardInv => (Len(rows) <= PageCap => OverviewMatchesContract)
    BY OverviewHolds
<1>2. QED
    BY <1>1, RowsConsistent, PTL

-----------------------------------------------------------------------------
(* Shares of a counter. *)

(* Products are monotone. *)
LEMMA Monotone ==
    ASSUME NEW a \in Nat, NEW b \in Nat, NEW k \in Nat, a <= b
    PROVE  k * a <= k * b
<1>1. k * b = k * a + k * (b - a) /\ k * (b - a) \in Nat
    <2>1. b - a \in Nat
        OBVIOUS
    <2>2. QED
        BY <2>1, SMT
<1>2. k * a \in Nat
    OBVIOUS
<1>3. QED
    BY <1>1, <1>2

(* Rounding the counter's share of one of n platforms, n of them miss the  *)
(* counter by half a subtask each at most, and no share exceeds the number *)
(* of prompts.                                                             *)
LEMMA RoundClose ==
    ASSUME NEW v \in Nat, NEW n \in Nat \ {0}, NEW prompts \in Nat, v <= n * prompts
    PROVE  Round(v, n) \in 0..prompts /\ n * Round(v, n) \in Nat /\ Close(n * Round(v, n), v, n)
<1> DEFINE q == (2 * v + n) \div (2 * n)
           s == (2 * v + n) % (2 * n)
<1>1. q \in Nat /\ s \in 0..(2 * n - 1) /\ 2 * v + n = ((2 * n) * q) + s
    <2>1. 2 * v + n \in Nat /\ 2 * n \in Nat \ {0}
        OBVIOUS
    <2>2. PICK x \in Nat, y \in Nat \ {0} : x = 2 * v + n /\ y = 2 * n
        BY <2>1
    <2>3. x \div y \in Nat /\ x % y \in 0..(y - 1) /\ x = (y * (x \div y)) + (x % y)
        BY <2>2, DivFacts
    <2>4. QED
        BY <2>2, <2>3
<1>2. Round(v, n) = q
    BY DEF Round
<1> HIDE DEF q, s
<1>3. (2 * n) * q = 2 * (n * q) /\ n * q \in Nat /\ n * prompts \in Nat
    BY <1>1
<1>4. PICK m \in Nat, t \in Nat : m = n * q /\ t = n * prompts
    BY <1>3
<1>5. 2 * v + n = 2 * m + s /\ s \in Nat /\ s < 2 * n
    BY <1>1, <1>3, <1>4
<1>6. 2 * m <= 2 * v + n /\ 2 * v <= 2 * m + n
    BY <1>4, <1>5
<1>7. q <= prompts
    <2>1. SUFFICES ASSUME prompts + 1 <= q PROVE FALSE
        BY <1>1
    <2>2. n * (prompts + 1) <= n * q
        BY <1>1, <2>1, Monotone
    <2>3. n * (prompts + 1) = n * prompts + n
        OBVIOUS
    <2>4. t + n <= m /\ v <= t
        BY <1>4, <2>2, <2>3
    <2>5. QED
        BY <1>4, <1>6, <2>4
<1>8. QED
    BY <1>1, <1>2, <1>4, <1>6, <1>7 DEF Close

(* The same for the shares that the dashboard computes, which are also cut *)
(* at the number of prompts; without platforms there is nothing to share.  *)
LEMMA ShareClose ==
    ASSUME NEW v \in Nat, NEW n \in Nat, NEW prompts \in Nat, v <= n * prompts,
           NEW d, d = Distribute(v, Max({n, 1}))
    PROVE  /\ d \in Nat /\ Min({prompts, d}) \in 0..prompts
           /\ n * d \in Nat /\ n * Min({prompts, d}) \in Nat
           /\ Close(n * d, v, n) /\ Close(n * Min({prompts, d}), v, n)
<1>1. CASE n = 0
    <2>1. v = 0 /\ Max({n, 1}) = 1
        BY <1>1, MaxOfTwo
    <2>2. d = Round(0, 1)
        BY <2>1 DEF Distribute
    <2>3. Round(0, 1) \in Nat
        <3>1. (2 * 0 + 1) \div (2 * 1) \in Nat
            BY SMT
        <3>2. QED
            BY <3>1 DEF Round
    <2>4. d \in Nat
        BY <2>2, <2>3
    <2>5. Min({prompts, d}) \in 0..prompts
        <3>1. Min({prompts, d}) = IF prompts <= d THEN prompts ELSE d
            BY <2>4, MinOfTwo
        <3>2. QED
            BY <2>4, <3>1
    <2>6. n * d = 0 /\ n * Min({prompts, d}) = 0
        BY <1>1, <2>4, <2>5
    <2>7. QED
        BY <1>1, <2>1, <2>4, <2>5, <2>6 DEF Close
<1>2. CASE n # 0
    <2>1. Max({n, 1}) = n
        BY <1>2, MaxOfTwo
    <2>2. d = Round(v, n)
        BY <1>2, <2>1 DEF Distribute
    <2>3. d \in 0..prompts /\ n * d \in Nat /\ Close(n * d, v, n)
        BY <1>2, <2>2, RoundClose
    <2>4. Min({prompts, d}) = d
        <3>1. d \in Nat /\ d <= prompts
            BY <2>3
        <3>2. Min({prompts, d}) = IF prompts <= d THEN prompts ELSE d
            BY <3>1, MinOfTwo
        <3>3. QED
            BY <3>1, <3>2
    <2>5. d \in Nat
        BY <2>3
    <2>6. QED
        BY <2>3, <2>4, <2>5
<1>3. QED
    BY <1>1, <1>2

(* Closeness addend by addend adds up. *)
AllClose(f, g, k, S) ==
    /\ Counts(f, S) /\ Counts(g, S) /\ Counts(k, S)
    /\ \A i \in S : Close(f[i], g[i], k[i])

(* Sums of close addends are close. *)
LEMMA CloseSums ==
    ASSUME NEW S, IsFiniteSet(S), NEW f, NEW g, NEW k, AllClose(f, g, k, S)
    PROVE  Close(Sigma(f, S), Sigma(g, S), Sigma(k, S))
<1> DEFINE G == {T \in SUBSET S : Close(Sigma(f, T), Sigma(g, T), Sigma(k, T))}
<1>1. {} \in G
    BY SigmaEmpty DEF Close
<1>2. ASSUME NEW T \in SUBSET S, NEW x \in S, x \notin T, T \in G
      PROVE  T \cup {x} \in G
    <2>1. /\ IsFiniteSet(T) /\ Counts(f, T) /\ Counts(g, T) /\ Counts(k, T)
          /\ f[x] \in Nat /\ g[x] \in Nat /\ k[x] \in Nat /\ Close(f[x], g[x], k[x])
        BY FS_Subset DEF AllClose, Counts
    <2>2. /\ Sigma(f, T \cup {x}) = f[x] + Sigma(f, T) /\ Sigma(f, T) \in Nat
          /\ Sigma(g, T \cup {x}) = g[x] + Sigma(g, T) /\ Sigma(g, T) \in Nat
          /\ Sigma(k, T \cup {x}) = k[x] + Sigma(k, T) /\ Sigma(k, T) \in Nat
        BY <1>2, <2>1, SigmaMore
    <2>3. Close(Sigma(f, T), Sigma(g, T), Sigma(k, T))
        BY <1>2
    <2>4. Close(Sigma(f, T \cup {x}), Sigma(g, T \cup {x}), Sigma(k, T \cup {x}))
        BY <2>1, <2>2, <2>3 DEF Close
    <2>5. QED
        BY <2>4
<1> HIDE DEF G
<1>3. S \in G
    BY <1>1, <1>2, SetInduct
<1>4. QED
    BY <1>3 DEF G

(* r holds, for each platform, the sum of the shares of the tasks in L     *)
(* that list it; k the number of platforms of each task.                   *)
ByPlatform(r, share, L) ==
    \A p \in Platforms : r[p] = Sigma(share, {i \in L : p \in PlatformsOf(rows[i])})
PlatformCounts(k, L) == \A i \in L : k[i] = Cardinality(PlatformsOf(rows[i]))

(* A row lists finitely many of the known platforms. *)
LEMMA PlatformFacts ==
    ASSUME DashboardInv, NEW i \in 1..Len(rows)
    PROVE  /\ PlatformsOf(rows[i]) \in SUBSET Platforms /\ IsFiniteSet(PlatformsOf(rows[i]))
           /\ Cardinality(PlatformsOf(rows[i])) \in Nat
<1>1. rows[i].shape \in Shapes
    BY RowFacts
<1>2. PICK shape \in Shapes : shape = rows[i].shape
    BY <1>1
<1>3. shape.platforms \subseteq Platforms /\ IsFiniteSet(shape.platforms)
    BY ShapeFacts
<1>4. PlatformsOf(rows[i]) \in SUBSET Platforms /\ IsFiniteSet(PlatformsOf(rows[i]))
    BY <1>2, <1>3, FS_EmptySet DEF PlatformsOf
<1>5. QED
    BY <1>4, FS_CardinalityType

(* Added up over the platforms, a task's share counts once per platform    *)
(* the task lists.                                                         *)
LEMMA SharesByTask ==
    ASSUME DashboardInv, NEW L \in SUBSET (1..Len(rows)), IsFiniteSet(L),
           NEW share, Counts(share, L), NEW k, PlatformCounts(k, L),
           NEW r, ByPlatform(r, share, L)
    PROVE  Sigma(r, Platforms) = Sigma([i \in L |-> k[i] * share[i]], L)
<1> DEFINE Of(i) == PlatformsOf(rows[i])
           At(p) == {i \in L : p \in Of(i)}
           F == [p \in Platforms |-> [i \in L |-> IF i \in At(p) THEN share[i] ELSE 0]]
           H == [i \in L |-> [p \in Platforms |-> F[p][i]]]
           c == [i \in L |-> k[i] * share[i]]
<1>1. IsFiniteSet(Platforms)
    BY ShapesAssumption
<1>2. \A i \in L : share[i] \in Nat
    BY DEF Counts
<1>3. Table(F, H, Platforms, L)
    BY <1>2 DEF Table, Counts
<1>4. SumsOf(F, r, Platforms, L)
    <2>1. SUFFICES ASSUME NEW p \in Platforms PROVE r[p] = Sigma(F[p], L)
        BY DEF SumsOf
    <2>2. r[p] = Sigma(share, At(p))
        BY DEF ByPlatform
    <2>3. PICK g : g = F[p]
        OBVIOUS
    <2>4. /\ At(p) \in SUBSET L /\ Counts(share, At(p))
          /\ \A i \in L : g[i] = IF i \in At(p) THEN share[i] ELSE 0
        BY <1>2, <2>3 DEF Counts
    <2> HIDE DEF F, At
    <2>5. Sigma(g, L) = Sigma(share, At(p))
        BY <2>4, SigmaPart
    <2>6. QED
        BY <2>2, <2>3, <2>5
<1>5. SumsOf(H, c, L, Platforms)
    <2>1. SUFFICES ASSUME NEW i \in L PROVE c[i] = Sigma(H[i], Platforms)
        BY DEF SumsOf
    <2>2. Of(i) \in SUBSET Platforms /\ IsFiniteSet(Of(i)) /\ k[i] = Cardinality(Of(i))
        BY PlatformFacts DEF PlatformCounts
    <2> DEFINE f == [p \in Of(i) |-> share[i]]
    <2>3. PICK h : h = H[i]
        OBVIOUS
    <2>4. /\ Counts(f, Of(i)) /\ \A p \in Of(i) : f[p] = share[i]
          /\ \A p \in Platforms : h[p] = IF p \in Of(i) THEN f[p] ELSE 0
        BY <1>2, <2>3 DEF Counts
    <2>5. PICK n, Q : n = share[i] /\ Q = Of(i)
        OBVIOUS
    <2>6. c[i] = Cardinality(Q) * n
        BY <2>2, <2>5
    <2>7. n \in Nat /\ IsFiniteSet(Q) /\ Q \in SUBSET Platforms
        BY <1>2, <2>2, <2>5
    <2>8. /\ Counts(f, Q) /\ \A p \in Q : f[p] = n
          /\ \A p \in Platforms : h[p] = IF p \in Q THEN f[p] ELSE 0
        BY <2>4, <2>5
    <2> HIDE DEF f, H, Of, c
    <2>9. Sigma(f, Q) = Cardinality(Q) * n
        BY <2>7, <2>8, SigmaConst
    <2>10. Sigma(h, Platforms) = Sigma(f, Q)
        BY <1>1, <2>7, <2>8, SigmaPart
    <2>11. QED
        BY <2>3, <2>6, <2>9, <2>10
<1> HIDE DEF F, H, c
<1>6. Sigma(r, Platforms) = Sigma(c, L)
    BY <1>1, <1>3, <1>4, <1>5, SigmaSwap
<1>7. QED
    BY <1>6 DEF c

(* So shares that are close to a counter, task by task, add up to sums     *)
(* that are close.                                                         *)
LEMMA SharesClose ==
    ASSUME DashboardInv, NEW L \in SUBSET (1..Len(rows)), IsFiniteSet(L),
           NEW share, Counts(share, L), NEW k, PlatformCounts(k, L),
           NEW r, ByPlatform(r, share, L), NEW v, Counts(v, L),
           \A i \in L : k[i] * share[i] \in Nat /\ Close(k[i] * share[i], v[i], k[i])
    PROVE  Close(Sigma(r, Platforms), Sigma(v, L), Sigma(k, L))
<1> DEFINE c == [i \in L |-> k[i] * share[i]]
<1>1. Counts(k, L)
    BY PlatformFacts DEF Counts, PlatformCounts
<1>2. AllClose(c, v, k, L)
    BY <1>1 DEF AllClose, Counts
<1>3. Sigma(r, Platforms) = Sigma(c, L)
    BY SharesByTask
<1> HIDE DEF c
<1>4. Close(Sigma(c, L), Sigma(v, L), Sigma(k, L))
    BY <1>2, CloseSums
<1>5. QED
    BY <1>3, <1>4

(* The share of a task that lists its platforms. *)
LEMMA RowShare ==
    ASSUME DashboardInv, NEW i \in 1..Len(rows), rows[i].submitted,
           NEW v \in Nat, v <= TotalItems(rows[i]),
           NEW d, d = Distribute(v, PlatformCount(rows[i])),
           NEW e, e = Min({PromptCount(rows[i]), d}),
           NEW n, n = Cardinality(PlatformsOf(rows[i]))
    PROVE  /\ d \in Nat /\ n * d \in Nat /\ Close(n * d, v, n)
           /\ e \in Nat /\ n * e \in Nat /\ Close(n * e, v, n)
           /\ PromptCount(rows[i]) \in Nat /\ e <= PromptCount(rows[i])
<1>1. rows[i].shape \in Shapes
    BY RowFacts
<1>2. PICK shape \in Shapes : shape = rows[i].shape
    BY <1>1
<1>3. /\ PlatformsOf(rows[i]) = shape.platforms /\ PromptCount(rows[i]) = shape.prompts
      /\ TotalItems(rows[i]) = shape.prompts * Cardinality(shape.platforms)
    BY <1>2 DEF PlatformsOf, PromptCount, TotalItems, ItemsOf
<1>4. n \in Nat /\ n = Cardinality(shape.platforms) /\ shape.prompts \in Nat
    BY <1>3, ShapeFacts
<1>5. PICK prompts \in Nat : prompts = shape.prompts
    BY <1>4
<1>6. v <= n * prompts
    <2>1. prompts * n = n * prompts
        BY <1>4
    <2>2. QED
        BY <1>3, <1>4, <1>5, <2>1
<1>7. PlatformCount(rows[i]) = Max({n, 1}) /\ PromptCount(rows[i]) = prompts
    BY <1>3, <1>5 DEF PlatformCount
<1>8. d = Distribute(v, Max({n, 1})) /\ e = Min({prompts, d})
    BY <1>7
<1>9. /\ d \in Nat /\ e \in 0..prompts /\ n * d \in Nat /\ n * e \in Nat
      /\ Close(n * d, v, n) /\ Close(n * e, v, n)
    BY <1>4, <1>6, <1>8, ShareClose
<1>10. QED
    BY <1>7, <1>9

(* A part is at most 100 % of the whole. *)
LEMMA PercentBound ==
    ASSUME NEW a \in Nat, NEW b \in Nat, a <= b
    PROVE  Percent(a, b) <= 10000
<1>1. CASE b = 0
    BY <1>1 DEF Percent
<1>2. CASE b # 0
    <2>1. 2 * (10000 * a) + b \in Nat /\ 2 * b \in Nat \ {0}
        BY <1>2
    <2>2. PICK x \in Nat, y \in Nat \ {0} : x = 2 * (10000 * a) + b /\ y = 2 * b
        BY <2>1
    <2>3. x \div y \in Nat /\ x % y \in 0..(y - 1) /\ x = (y * (x \div y)) + (x % y)
        BY DivFacts
    <2>4. PICK q \in Nat : q = x \div y
        BY <2>3
    <2>5. y * q <= x
        <3>1. PICK m \in Nat : m = y * q
            BY <2>4
        <3>2. PICK s \in Nat : s = x % y
            BY <2>3
        <3>3. x = m + s
            BY <2>3, <2>4, <3>1, <3>2
        <3>4. QED
            BY <3>1, <3>3
    <2>6. q <= 10000
        <3>1. SUFFICES ASSUME 10001 <= q PROVE FALSE
            OBVIOUS
        <3>2. y * 10001 <= y * q
            BY <3>1, Monotone
        <3>3. y * 10001 = 20002 * b
            BY <2>2
        <3>4. x <= 20001 * b
            BY <2>2
        <3>5. y * q \in Nat
            OBVIOUS
        <3>6. QED
            BY <1>2, <2>5, <3>2, <3>3, <3>4, <3>5
    <2>7. QED
        BY <1>2, <2>2, <2>4, <2>6 DEF Percent, Round
<1>3. QED
    BY <1>1, <1>2

(* The two columns of the model table, column by column. *)
LEMMA SharesHold == DashboardInv => PlatformSharesClose
<1>1. SUFFICES ASSUME DashboardInv PROVE PlatformSharesClose
    OBVIOUS
<1> DEFINE day == selectedDate
           L == {i \in Scoped(day) : rows[i].submitted}
           At(p) == {i \in L : p \in PlatformsOf(rows[i])}
           k == [i \in L |-> Cardinality(PlatformsOf(rows[i]))]
           done == [i \in L |-> rows[i].done]
           failed == [i \in L |-> rows[i].failed]
           Share(value, i) == Min({PromptCount(rows[i]),
                                   Distribute(value, PlatformCount(rows[i]))})
           completedShare == [i \in L |-> Share(rows[i].done, i)]
           failedShare == [i \in L |-> Share(rows[i].failed, i)]
           prompts == [i \in L |-> PromptCount(rows[i])]
           completed == [p \in Platforms |-> PlatformStat(p, day).completed]
           failures == [p \in Platforms |-> PlatformStat(p, day).failed]
<1>2. L \in SUBSET (1..Len(rows)) /\ IsFiniteSet(L)
    <2>1. Scoped(day) \subseteq 1..Len(rows) /\ IsFiniteSet(Scoped(day))
        BY <1>1, ScopedRows
    <2>2. QED
        BY <2>1, FS_Subset
<1>3. \A p : {i \in Scoped(day) : p \in PlatformsOf(rows[i])} = At(p)
    <2>1. ASSUME NEW i, NEW p, p \in PlatformsOf(rows[i]) PROVE rows[i].submitted
        BY <2>1 DEF PlatformsOf
    <2>2. QED
        BY <2>1
<1>4. ASSUME NEW i \in L
      PROVE  /\ rows[i].done \in Nat /\ rows[i].failed \in Nat /\ rows[i].submitted
             /\ rows[i].done <= TotalItems(rows[i]) /\ rows[i].failed <= TotalItems(rows[i])
    <2>1. /\ rows[i].done \in Nat /\ rows[i].failed \in Nat /\ TotalItems(rows[i]) \in Nat
          /\ Remaining(rows[i]) \in Nat
          /\ rows[i].done + rows[i].failed + Remaining(rows[i]) = TotalItems(rows[i])
        BY <1>1, <1>2, RowFacts
    <2>2. QED
        BY <2>1
<1>5. ASSUME NEW i \in L
      PROVE  /\ completedShare[i] \in Nat /\ failedShare[i] \in Nat /\ prompts[i] \in Nat
             /\ completedShare[i] <= prompts[i]
             /\ k[i] * completedShare[i] \in Nat /\ k[i] * failedShare[i] \in Nat
             /\ Close(k[i] * completedShare[i], done[i], k[i])
             /\ Close(k[i] * failedShare[i], failed[i], k[i])
    <2>1. PICK n, v, d, e : /\ n = Cardinality(PlatformsOf(rows[i])) /\ v = rows[i].done
                            /\ d = Distribute(v, PlatformCount(rows[i]))
                            /\ e = Min({PromptCount(rows[i]), d})
        OBVIOUS
    <2>2. /\ e \in Nat /\ n * e \in Nat /\ Close(n * e, v, n)
          /\ PromptCount(rows[i]) \in Nat /\ e <= PromptCount(rows[i])
        BY <1>1, <1>2, <1>4, <2>1, RowShare
    <2>3. PICK w, c, f : /\ w = rows[i].failed
                         /\ c = Distribute(w, PlatformCount(rows[i]))
                         /\ f = Min({PromptCount(rows[i]), c})
        OBVIOUS
    <2>4. f \in Nat /\ n * f \in Nat /\ Close(n * f, w, n)
        BY <1>1, <1>2, <1>4, <2>1, <2>3, RowShare
    <2>5. /\ k[i] = n /\ completedShare[i] = e /\ failedShare[i] = f
          /\ done[i] = v /\ failed[i] = w /\ prompts[i] = PromptCount(rows[i])
        BY <2>1, <2>3
    <2> HIDE DEF k, completedShare, failedShare, done, failed, prompts
    <2>6. QED
        BY <2>2, <2>4, <2>5
<1>6. /\ Counts(done, L) /\ Counts(failed, L) /\ PlatformCounts(k, L)
    BY <1>4 DEF Counts, PlatformCounts
<1>7. /\ Counts(completedShare, L) /\ Counts(failedShare, L) /\ Counts(prompts, L)
    <2> HIDE DEF completedShare, failedShare, prompts, L
    <2>1. QED
        BY <1>5 DEF Counts
<1>8. ASSUME NEW p \in Platforms
      PROVE  /\ PlatformStat(p, day).completed = Sigma(completedShare, At(p))
             /\ PlatformStat(p, day).failed = Sigma(failedShare, At(p))
             /\ PlatformStat(p, day).total = Sigma(prompts, At(p))
             /\ PlatformStat(p, day).completionRate
                  = Percent(PlatformStat(p, day).completed, PlatformStat(p, day).total)
             /\ At(p) \in SUBSET L /\ IsFiniteSet(At(p))
    <2> DEFINE S == {i \in Scoped(day) : p \in PlatformsOf(rows[i])}
               f1 == [i \in S |-> Share(rows[i].done, i)]
               f2 == [i \in S |-> Share(rows[i].failed, i)]
               f3 == [i \in S |-> PromptCount(rows[i])]
    <2>1. /\ PlatformStat(p, day).completed = SumFunction(f1)
          /\ PlatformStat(p, day).failed = SumFunction(f2)
          /\ PlatformStat(p, day).total = SumFunction(f3)
          /\ PlatformStat(p, day).completionRate
                = Percent(PlatformStat(p, day).completed, PlatformStat(p, day).total)
        BY DEF PlatformStat
    <2>2. /\ SumFunction(f1) = Sigma(f1, S) /\ SumFunction(f2) = Sigma(f2, S)
          /\ SumFunction(f3) = Sigma(f3, S)
        BY SumIs
    <2>3. S = At(p)
        BY <1>3
    <2>4. At(p) \in SUBSET L /\ IsFiniteSet(At(p))
        BY <1>2, FS_Subset
    <2>5. /\ Agree(completedShare, f1, At(p)) /\ Agree(failedShare, f2, At(p))
          /\ Agree(prompts, f3, At(p))
        BY <2>3 DEF Agree
    <2>6. /\ Counts(completedShare, At(p)) /\ Counts(failedShare, At(p))
          /\ Counts(prompts, At(p))
        <3> HIDE DEF completedShare, failedShare, prompts, L, At
        <3>1. QED
            BY <1>7, <2>4 DEF Counts
    <2> HIDE DEF f1, f2, f3, completedShare, failedShare, prompts, L, At, S
    <2>7. /\ Sigma(completedShare, At(p)) = Sigma(f1, At(p))
          /\ Sigma(failedShare, At(p)) = Sigma(f2, At(p))
          /\ Sigma(prompts, At(p)) = Sigma(f3, At(p))
        BY <2>4, <2>5, <2>6, SigmaSame
    <2>8. QED
        BY <2>1, <2>2, <2>3, <2>4, <2>7
<1>9. ByPlatform(completed, completedShare, L) /\ ByPlatform(failures, failedShare, L)
    <2>1. \A p \in Platforms : /\ completed[p] = Sigma(completedShare, At(p))
                               /\ failures[p] = Sigma(failedShare, At(p))
        BY <1>8
    <2> HIDE DEF completed, failures, completedShare, failedShare, L
    <2>2. QED
        BY <2>1 DEF ByPlatform
<1>10. /\ Close(Sigma(completed, Platforms), Sigma(done, L), Sigma(k, L))
       /\ Close(Sigma(failures, Platforms), Sigma(failed, L), Sigma(k, L))
    <2> HIDE DEF completed, failures, completedShare, failedShare, L, k, done, failed
    <2>1. \A i \in L : /\ k[i] * completedShare[i] \in Nat
                       /\ Close(k[i] * completedShare[i], done[i], k[i])
        BY <1>5
    <2>2. \A i \in L : /\ k[i] * failedShare[i] \in Nat
                       /\ Close(k[i] * failedShare[i], failed[i], k[i])
        BY <1>5
    <2>3. Close(Sigma(completed, Platforms), Sigma(done, L), Sigma(k, L))
        BY <1>1, <1>2, <1>6, <1>7, <1>9, <2>1, SharesClose
    <2>4. Close(Sigma(failures, Platforms), Sigma(failed, L), Sigma(k, L))
        BY <1>1, <1>2, <1>6, <1>7, <1>9, <2>2, SharesClose
    <2>5. QED
        BY <2>3, <2>4
<1>11. ASSUME NEW p \in Platforms
       PROVE  PlatformStat(p, day).completionRate <= 10000
    <2>1. \A i \in At(p) : completedShare[i] <= prompts[i]
        <3> HIDE DEF completedShare, prompts, L
        <3>1. QED
            BY <1>5
    <2>2. At(p) \in SUBSET L /\ IsFiniteSet(At(p))
        BY <1>8
    <2>3. Counts(completedShare, At(p)) /\ Counts(prompts, At(p))
        <3> HIDE DEF completedShare, prompts, L, At
        <3>1. QED
            BY <1>7, <2>2 DEF Counts
    <2> HIDE DEF completedShare, prompts, L, At
    <2>4. Sigma(completedShare, At(p)) <= Sigma(prompts, At(p))
        BY <2>1, <2>2, <2>3, SigmaLeq
    <2>5. Sigma(completedShare, At(p)) \in Nat /\ Sigma(prompts, At(p)) \in Nat
        BY <2>2, <2>3, SigmaStep
    <2>6. PICK a \in Nat, b \in Nat :
              a = Sigma(completedShare, At(p)) /\ b = Sigma(prompts, At(p))
        BY <2>5
    <2>7. PlatformStat(p, day).completionRate = Percent(a, b)
        BY <1>8, <2>6
    <2>8. Percent(a, b) <= 10000
        BY <2>4, <2>6, PercentBound
    <2>9. QED
        BY <2>7, <2>8
<1>12. /\ SumFunction(completed) = Sigma(completed, Platforms)
       /\ SumFunction(failures) = Sigma(failures, Platforms)
       /\ SumFunction(done) = Sigma(done, L) /\ SumFunction(failed) = Sigma(failed, L)
       /\ SumFunction(k) = Sigma(k, L)
    BY SumIs
<1>13. /\ Close(SumFunction(completed), SumFunction(done), SumFunction(k))
       /\ Close(SumFunction(failures), SumFunction(failed), SumFunction(k))
    <2> HIDE DEF completed, failures, L, k, done, failed
    <2>1. QED
        BY <1>10, <1>12
<1>14. QED
    BY <1>11, <1>13 DEF PlatformSharesClose

(* Whatever is in the table, the shares of the model table add up to the   *)
(* tasks' counters but for half a subtask per platform and task, and no    *)
(* platform is more than complete.                                         *)
THEOREM SharesAddUp == Spec => []PlatformSharesClose
BY RowsConsistent, SharesHold, PTL

-----------------------------------------------------------------------------
(* The 7-day charts. *)

(* Days less than a year apart differ in their key. *)
LEMMA KeyOfDay ==
    ASSUME NEW a \in Nat, NEW b \in Nat, a < b + DaysPerYear, b < a + DaysPerYear,
           DateKey(a) = DateKey(b)
    PROVE  a = b
<1>1. DaysPerYear \in Nat \ {0}
    BY CalendarAssumption
<1>2. PICK n \in Nat \ {0} : n = DaysPerYear
    BY <1>1
<1>3. /\ a \div n \in Nat /\ a = (n * (a \div n)) + (a % n) /\ a % n \in 0..(n - 1)
      /\ b \div n \in Nat /\ b = (n * (b \div n)) + (b % n)
    BY DivFacts
<1>4. PICK p \in Nat, q \in Nat, r \in Nat : p = a \div n /\ q = b \div n /\ r = a % n
    BY <1>3
<1>5. a = n * p + r /\ b = n * q + r
    BY <1>2, <1>3, <1>4 DEF DateKey
<1>6. ASSUME NEW u \in Nat, NEW v \in Nat, u < v PROVE n * u + n <= n * v
    <2>1. n * (u + 1) <= n * v
        BY <1>6, Monotone
    <2>2. n * (u + 1) = n * u + n
        OBVIOUS
    <2>3. QED
        BY <2>1, <2>2
<1>7. PICK x \in Nat, y \in Nat : x = n * p /\ y = n * q
    OBVIOUS
<1>8. ~(p < q)
    <2>1. SUFFICES ASSUME p < q PROVE FALSE
        OBVIOUS
    <2>2. x + n <= y
        BY <1>6, <1>7, <2>1
    <2>3. QED
        BY <1>2, <1>5, <1>7, <2>2
<1>9. ~(q < p)
    <2>1. SUFFICES ASSUME q < p PROVE FALSE
        OBVIOUS
    <2>2. y + n <= x
        BY <1>6, <1>7, <2>1
    <2>3. QED
        BY <1>2, <1>5, <1>7, <2>2
<1>10. p = q
    BY <1>8, <1>9
<1>11. QED
    BY <1>5, <1>10

(* The window never reaches before day 0. *)
LEMMA WindowInNat ==
    ASSUME DashboardInv, NEW back \in 0..(WindowDays - 1)
    PROVE  selectedDate - back \in Nat
<1>1. PICK h \in Nat \ {0}, w \in Nat \ {0}, f \in Nat :
          h = HoursPerDay /\ w = WindowDays /\ f = FirstTime /\ w * h <= f
    BY CalendarAssumption
<1>2. f \div h \in Nat /\ f % h \in 0..(h - 1) /\ f = (h * (f \div h)) + (f % h)
    BY DivFacts
<1>3. PICK q \in Nat, s \in Nat : q = f \div h /\ s = f % h /\ s < h /\ f = h * q + s
    BY <1>2
<1>4. w <= q
    <2>1. SUFFICES ASSUME q + 1 <= w PROVE FALSE
        BY <1>3
    <2>2. h * (q + 1) <= h * w
        BY <2>1, Monotone
    <2>3. h * (q + 1) = h * q + h /\ h * w = w * h
        OBVIOUS
    <2>4. PICK x \in Nat, y \in Nat : x = h * q /\ y = w * h
        OBVIOUS
    <2>5. x + h <= y /\ y <= f /\ f = x + s
        BY <1>1, <1>3, <2>2, <2>3, <2>4
    <2>6. QED
        BY <1>3, <2>5
<1>5. DayOf(FirstTime) = q
    BY <1>1, <1>3 DEF DayOf
<1>6. selectedDate \in q..DayOf(LastTime)
    BY <1>5 DEF DashboardInv, Days
<1>7. selectedDate \in Int /\ q <= selectedDate
    <2>1. LastTime \in FirstTime..LastTime
        BY CalendarAssumption
    <2>2. DayOf(LastTime) \in Nat
        BY <2>1, DayRange
    <2>3. QED
        BY <1>6, <2>2
<1>8. back \in Nat /\ back < w
    BY <1>1
<1>9. QED
    BY <1>4, <1>7, <1>8

(* No task on the page was last touched a year or more away from a day of  *)
(* the window.                                                             *)
TouchedWithinAYear ==
    \A i \in Items : \A back \in 0..(WindowDays - 1) :
        /\ DayOf(rows[i].updated) < (selectedDate - back) + DaysPerYear
        /\ selectedDate - back < DayOf(rows[i].updated) + DaysPerYear

(* Then a day's key stands for that day alone. *)
LEMMA TouchedThatDay ==
    ASSUME DashboardInv, TouchedWithinAYear, NEW back \in 0..(WindowDays - 1)
    PROVE  TouchedOn(DateKey(selectedDate - back))
                = {i \in Items : DayOf(rows[i].updated) = selectedDate - back}
<1>1. PICK day \in Nat : day = selectedDate - back
    BY WindowInNat
<1>2. ASSUME NEW i \in Items, DateKey(DayOf(rows[i].updated)) = DateKey(day)
      PROVE  DayOf(rows[i].updated) = day
    <2>1. RowOK(rows[i])
        BY ScopedRows DEF DashboardInv
    <2>2. PICK t : t = rows[i].updated
        OBVIOUS
    <2>3. t \in FirstTime..LastTime
        BY <2>1, <2>2 DEF RowOK
    <2>4. PICK a \in Nat : a = DayOf(rows[i].updated)
        BY <2>2, <2>3, DayRange
    <2>5. a < day + DaysPerYear /\ day < a + DaysPerYear
        BY <1>1, <2>4 DEF TouchedWithinAYear
    <2>6. QED
        BY <1>2, <2>4, <2>5, KeyOfDay
<1>3. QED
    BY <1>1, <1>2 DEF TouchedOn

(* The points of the 7-day chart by adding per task, the lines of the      *)
(* trend chart by the shares.                                              *)
LEMMA DaysHold ==
    ASSUME DashboardInv, TouchedWithinAYear
    PROVE  DaysMatchWindow
<1> DEFINE Touched(b) == {i \in Items : DayOf(rows[i].updated) = selectedDate - b}
           Listed(b) == {i \in Touched(b) : rows[i].submitted}
           TrendAt(b) == [p \in Platforms |-> Trend(DateKey(selectedDate - b), p)]
           Stat(b) == DayStat(DateKey(selectedDate - b))
<1>1. SUFFICES ASSUME NEW back \in 0..(WindowDays - 1)
               PROVE  /\ Stat(back).completed + Stat(back).pending + Stat(back).failed
                            = SumFunction([i \in Touched(back) |-> TotalItems(rows[i])])
                      /\ selectedPlatform = All =>
                            Close(SumFunction(TrendAt(back)),
                                  SumFunction([i \in Listed(back) |-> rows[i].done]),
                                  SumFunction([i \in Listed(back)
                                                  |-> Cardinality(PlatformsOf(rows[i]))]))
    BY DEF DaysMatchWindow
<1> DEFINE key == DateKey(selectedDate - back)
           S == Touched(back)
           L == Listed(back)
           At(p) == {i \in L : p \in PlatformsOf(rows[i])}
           total == [i \in S |-> TotalItems(rows[i])]
           done == [i \in S |-> rows[i].done]
           failed == [i \in S |-> rows[i].failed]
           open == [i \in S |-> Remaining(rows[i])]
           k == [i \in L |-> Cardinality(PlatformsOf(rows[i]))]
           v == [i \in L |-> rows[i].done]
           share == [i \in L |-> Distribute(rows[i].done, PlatformCount(rows[i]))]
           r == TrendAt(back)
<1>2. TouchedOn(key) = S
    BY TouchedThatDay
<1>3. /\ S \subseteq 1..Len(rows) /\ IsFiniteSet(S)
      /\ L \in SUBSET (1..Len(rows)) /\ IsFiniteSet(L)
    <2>1. Items \subseteq 1..Len(rows) /\ IsFiniteSet(Items)
        BY ScopedRows
    <2>2. S \subseteq Items /\ L \subseteq Items
        OBVIOUS
    <2>3. QED
        BY <2>1, <2>2, FS_Subset
<1>4. ASSUME NEW i \in S
      PROVE  /\ rows[i].done \in Nat /\ rows[i].failed \in Nat
             /\ Remaining(rows[i]) \in Nat /\ TotalItems(rows[i]) \in Nat
             /\ rows[i].done + rows[i].failed + Remaining(rows[i]) = TotalItems(rows[i])
    BY <1>3, RowFacts
<1>5. Stat(back).completed + Stat(back).pending + Stat(back).failed = SumFunction(total)
    <2> DEFINE g == [i \in S |-> done[i] + open[i]]
    <2>1. /\ Stat(back).completed = SumFunction(done) /\ Stat(back).failed = SumFunction(failed)
          /\ Stat(back).pending = SumFunction(open)
        BY <1>2 DEF DayStat
    <2>2. /\ SumFunction(done) = Sigma(done, S) /\ SumFunction(failed) = Sigma(failed, S)
          /\ SumFunction(open) = Sigma(open, S) /\ SumFunction(total) = Sigma(total, S)
        BY SumIs
    <2>3. ASSUME NEW i \in S
          PROVE  /\ done[i] \in Nat /\ open[i] \in Nat /\ failed[i] \in Nat
                 /\ g[i] \in Nat /\ g[i] = done[i] + open[i] /\ total[i] = g[i] + failed[i]
        <3>1. PICK d \in Nat, e \in Nat, o \in Nat :
                  d = rows[i].done /\ e = rows[i].failed /\ o = Remaining(rows[i])
            BY <1>4
        <3>2. done[i] = d /\ failed[i] = e /\ open[i] = o /\ total[i] = d + e + o
            BY <1>4, <3>1
        <3>3. g[i] = done[i] + open[i]
            OBVIOUS
        <3> HIDE DEF g, done, failed, open, total
        <3>4. QED
            BY <3>1, <3>2, <3>3
    <2> HIDE DEF g, done, failed, open, total, S
    <2>4. /\ Counts(done, S) /\ Counts(open, S) /\ Counts(failed, S) /\ Counts(g, S)
          /\ \A i \in S : g[i] = done[i] + open[i]
          /\ \A i \in S : total[i] = g[i] + failed[i]
        BY <2>3 DEF Counts
    <2>5. /\ Sigma(g, S) = Sigma(done, S) + Sigma(open, S)
          /\ Sigma(total, S) = Sigma(g, S) + Sigma(failed, S)
        BY <1>3, <2>4, SigmaPlus
    <2>6. Sigma(done, S) \in Nat /\ Sigma(open, S) \in Nat /\ Sigma(failed, S) \in Nat
        BY <1>3, <2>4, SigmaStep
    <2>7. PICK a \in Nat, b \in Nat, c \in Nat :
              a = Sigma(done, S) /\ b = Sigma(open, S) /\ c = Sigma(failed, S)
        BY <2>6
    <2>8. QED
        BY <2>1, <2>2, <2>5, <2>7
<1>6. ASSUME selectedPlatform = All
      PROVE  Close(SumFunction(r), SumFunction(v), SumFunction(k))
    <2>1. SumFunction(r) = Sigma(r, Platforms) /\ SumFunction(v) = Sigma(v, L)
          /\ SumFunction(k) = Sigma(k, L)
        BY SumIs
    <2>2. ASSUME NEW i \in L
          PROVE  /\ share[i] \in Nat /\ v[i] \in Nat
                 /\ k[i] * share[i] \in Nat /\ Close(k[i] * share[i], v[i], k[i])
        <3>1. PICK n, w, d, e : /\ n = Cardinality(PlatformsOf(rows[i])) /\ w = rows[i].done
                                /\ d = Distribute(w, PlatformCount(rows[i]))
                                /\ e = Min({PromptCount(rows[i]), d})
            OBVIOUS
        <3>2. w \in Nat /\ w <= TotalItems(rows[i]) /\ rows[i].submitted
            BY <1>4, <3>1
        <3>3. d \in Nat /\ n * d \in Nat /\ Close(n * d, w, n)
            BY <1>3, <3>1, <3>2, RowShare
        <3>4. k[i] = n /\ share[i] = d /\ v[i] = w
            BY <3>1
        <3> HIDE DEF k, share, v
        <3>5. QED
            BY <3>2, <3>3, <3>4
    <2>3. PlatformCounts(k, L)
        BY DEF PlatformCounts
    <2>4. ASSUME NEW p \in Platforms PROVE r[p] = Sigma(share, At(p))
        <3> DEFINE T == {i \in TouchedOn(key) : p \in PlatformsOf(rows[i])}
                   f == [i \in T |-> Distribute(rows[i].done, PlatformCount(rows[i]))]
        <3>1. r[p] = SumFunction(f)
            BY <1>6 DEF Trend
        <3>2. SumFunction(f) = Sigma(f, T)
            BY SumIs
        <3>3. T = At(p)
            <4>1. ASSUME NEW i, p \in PlatformsOf(rows[i]) PROVE rows[i].submitted
                BY <4>1 DEF PlatformsOf
            <4>2. QED
                BY <1>2, <4>1
        <3>4. Agree(share, f, At(p))
            BY <3>3 DEF Agree
        <3>5. At(p) \in SUBSET L /\ IsFiniteSet(At(p))
            BY <1>3, FS_Subset
        <3> HIDE DEF f, share, L, At, T
        <3>6. Counts(share, At(p))
            BY <2>2, <3>5 DEF Counts
        <3>7. Sigma(share, At(p)) = Sigma(f, At(p))
            BY <3>4, <3>5, <3>6, SigmaSame
        <3>8. QED
            BY <3>1, <3>2, <3>3, <3>7
    <2>5. ByPlatform(r, share, L)
        <3> HIDE DEF r, share, L
        <3>1. QED
            BY <2>4 DEF ByPlatform
    <2> HIDE DEF r, share, L, k, v
    <2>6. Counts(share, L) /\ Counts(v, L)
        BY <2>2 DEF Counts
    <2>7. \A i \in L : k[i] * share[i] \in Nat /\ Close(k[i] * share[i], v[i], k[i])
        BY <2>2
    <2>8. Close(Sigma(r, Platforms), Sigma(v, L), Sigma(k, L))
        BY <1>3, <2>3, <2>5, <2>6, <2>7, SharesClose
    <2>9. QED
        BY <2>1, <2>8
<1>7. QED
    BY <1>5, <1>6

(* As long as no task on the page was last touched a year or more away     *)
(* from the window, each point of the 7-day charts stands for the tasks    *)
(* touched on that very day, and the lines of the trend chart add up to    *)
(* it but for half a subtask per platform and task.                        *)
THEOREM DaysStandForThemselves == Spec => [](TouchedWithinAYear => DaysMatchWindow)
<1>1. DashboardInv => (TouchedWithinAYear => DaysMatchWindow)
    BY DaysHold
<1>2. QED
    BY <1>1, RowsConsistent, PTL

-----------------------------------------------------------------------------
(* Where the hypotheses of the two theorems above come with the constants. *)

(* A table that never outgrows the page the dashboard asks for is counted  *)
(* as the contract wants it.                                               *)
COROLLARY OverviewOfShortTables == MaxRows <= PageCap => (Spec => []OverviewMatchesContract)
<1> SUFFICES ASSUME MaxRows <= PageCap PROVE Spec => []OverviewMatchesContract
    OBVIOUS
<1>1. DashboardInv => OverviewMatchesContract
    <2>1. DashboardInv => Len(rows) <= PageCap
        BY CapAssumption, CalendarAssumption DEF DashboardInv
    <2>2. QED
        BY <2>1, OverviewHolds
<1>2. QED
    BY <1>1, RowsConsistent, PTL

(* Within a span of less than a year the missing year of dateKey does not  *)
(* matter.                                                                 *)
COROLLARY DaysOfOneYear ==
    DayOf(LastTime) - DayOf(FirstTime) + WindowDays <= DaysPerYear => (Spec => []DaysMatchWindow)
<1> SUFFICES ASSUME DayOf(LastTime) - DayOf(FirstTime) + WindowDays <= DaysPerYear
             PROVE  Spec => []DaysMatchWindow
    OBVIOUS
<1>1. PICK first \in Nat, last \in Nat, w \in Nat \ {0}, y \in Nat :
          /\ first = DayOf(FirstTime) /\ last = DayOf(LastTime)
          /\ w = WindowDays /\ y = DaysPerYear
    <2>1. FirstTime \in FirstTime..LastTime /\ LastTime \in FirstTime..LastTime
        BY CalendarAssumption
    <2>2. QED
        BY <2>1, DayRange, CalendarAssumption
<1>2. DashboardInv => TouchedWithinAYear
    <2>1. SUFFICES ASSUME DashboardInv, NEW i \in Items, NEW back \in 0..(WindowDays - 1)
                   PROVE  /\ DayOf(rows[i].updated) < (selectedDate - back) + DaysPerYear
                          /\ selectedDate - back < DayOf(rows[i].updated) + DaysPerYear
        BY DEF TouchedWithinAYear
    <2>2. PICK t : t = rows[i].updated
        OBVIOUS
    <2>3. t \in FirstTime..LastTime
        BY <2>1, <2>2, ScopedRows DEF DashboardInv, RowOK
    <2>4. DayOf(t) \in first..last
        BY <1>1, <2>3, DayMonotone
    <2>5. selectedDate \in first..last
        BY <1>1, <2>1 DEF DashboardInv, Days
    <2>6. back \in 0..(w - 1) /\ last - first + w <= y
        BY <1>1, <2>1
    <2>7. PICK day \in Nat, touched \in Nat :
              /\ day = selectedDate /\ touched = DayOf(rows[i].updated)
              /\ first <= day /\ day <= last /\ first <= touched /\ touched <= last
        BY <1>1, <2>2, <2>4, <2>5
    <2>8. touched < (day - back) + y /\ day - back < touched + y
        BY <1>1, <2>6, <2>7
    <2>9. QED
        BY <1>1, <2>7, <2>8
<1>3. DashboardInv => DaysMatchWindow
    BY <1>2, DaysHold
<1>4. QED
    BY <1>3, RowsConsistent, PTL
=============================================================================
