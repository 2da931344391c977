-------------------------------- MODULE Sums --------------------------------
(***************************************************************************)
(* What a sum over a finite set is worth: SumFunctionOnSet of the community *)
(* modules, which the invariants about money and votes are written with.   *)
(* A sum is a recursive function on the subsets of its set: the function   *)
(* exists and is unique because the subsets of a finite set are well       *)
(* founded, and the order in which the elements are chosen does not matter. *)
(***************************************************************************)
EXTENDS FiniteSetsExt, FiniteSetTheorems, WellFoundedInduction, TLAPS

Pick(s) == CHOOSE x \in s : TRUE

(* g sums f over every subset of S. *)
Sums(f, S, g) ==
  g = [s \in SUBSET S |-> IF s = {} THEN 0 ELSE f[Pick(s)] + g[s \ {Pick(s)}]]

LEMMA PickIn == ASSUME NEW s, s # {} PROVE Pick(s) \in s
BY DEF Pick

(* The community modules' definition. *)
LEMMA SumIsRecursive ==
  ASSUME NEW f, NEW S
  PROVE  SumFunctionOnSet(f, S) = (CHOOSE g : Sums(f, S, g))[S]
BY DEF SumFunctionOnSet, FoldFunctionOnSet, MapThenFoldSet, Sums, Pick

(* Induction on the subsets of a finite set. *)
LEMMA MinimalSubset ==
  ASSUME NEW S, IsFiniteSet(S), NEW B, B \subseteq SUBSET S, B # {}
  PROVE  \E s \in B : \A t \in B : t \subseteq s => t = s
<1>1. IsWellFoundedOn(StrictSubsetOrdering(S), SUBSET S)
  BY FS_StrictSubsetOrderingWellFounded, FS_FiniteSubsetsOfFinite
<1>2. PICK s \in B : \A t \in B : ~ (<<t, s>> \in StrictSubsetOrdering(S))
  BY <1>1, WFMin
<1>3. ASSUME NEW t \in B, t \subseteq s PROVE t = s
  BY <1>2, <1>3 DEF StrictSubsetOrdering
<1> QED
  BY <1>3

(* There is one such function at most ... *)
LEMMA SumsAgree ==
  ASSUME NEW f, NEW S, IsFiniteSet(S), NEW T, S \subseteq T,
         NEW g, Sums(f, S, g), NEW h, Sums(f, T, h)
  PROVE  \A s \in SUBSET S : g[s] = h[s]
<1> DEFINE B == {s \in SUBSET S : g[s] # h[s]}
<1> SUFFICES ASSUME B # {} PROVE FALSE
  OBVIOUS
<1>0. B \subseteq SUBSET S
  OBVIOUS
<1> HIDE DEF B
<1>1. PICK s \in B : \A t \in B : t \subseteq s => t = s
  BY <1>0, MinimalSubset
<1> USE DEF B
<1>2. /\ g[s] = IF s = {} THEN 0 ELSE f[Pick(s)] + g[s \ {Pick(s)}]
      /\ h[s] = IF s = {} THEN 0 ELSE f[Pick(s)] + h[s \ {Pick(s)}]
  BY DEF Sums
<1>3. s # {} /\ g[s] # h[s]
  BY <1>2
<1>4. s \ {Pick(s)} \in SUBSET S /\ s \ {Pick(s)} # s
  BY <1>3, PickIn
<1>5. g[s \ {Pick(s)}] = h[s \ {Pick(s)}]
  BY <1>1, <1>4
<1> QED
  BY <1>2, <1>3, <1>5

(* ... and there is one. *)
LEMMA SumsExist ==
  ASSUME NEW f, NEW S, IsFiniteSet(S)
  PROVE  \E g : Sums(f, S, g)
<1> DEFINE B == {s \in SUBSET S : ~ \E g : Sums(f, s, g)}
<1> SUFFICES ASSUME B # {} PROVE FALSE
  OBVIOUS
<1>0. B \subseteq SUBSET S
  OBVIOUS
<1> HIDE DEF B
<1>1. PICK s \in B : \A t \in B : t \subseteq s => t = s
  BY <1>0, MinimalSubset
<1> USE DEF B
<1> DEFINE sum(v) == CHOOSE g : Sums(f, v, g)
           G == [t \in SUBSET s |-> IF t = {} THEN 0
                                    ELSE f[Pick(t)] + sum(t \ {Pick(t)})[t \ {Pick(t)}]]
<1>2. ASSUME NEW v \in SUBSET s, v # s PROVE Sums(f, v, sum(v))
  <2>1. \E g : Sums(f, v, g)
    BY <1>1, <1>2
  <2> QED
    BY <2>1
<1> HIDE DEF sum
<1>3. ASSUME NEW v \in SUBSET s, v # s PROVE G[v] = sum(v)[v]
  <2>1. sum(v)[v] = IF v = {} THEN 0 ELSE f[Pick(v)] + sum(v)[v \ {Pick(v)}]
    BY <1>2, <1>3 DEF Sums
  <2>2. CASE v # {}
    <3> DEFINE w == v \ {Pick(v)}
    <3>1. w \in SUBSET s /\ w # s /\ w \subseteq v /\ w \in SUBSET w
      BY <1>3
    <3>2. Sums(f, w, sum(w)) /\ Sums(f, v, sum(v)) /\ IsFiniteSet(w)
      BY <1>2, <1>3, <3>1, FS_Subset
    <3> HIDE DEF w
    <3>3. sum(w)[w] = sum(v)[w]
      BY <3>1, <3>2, SumsAgree
    <3> QED
      BY <2>1, <2>2, <3>3 DEF w
  <2> QED
    BY <2>1, <2>2
<1>4. ASSUME NEW t \in SUBSET s, t # {}
      PROVE  sum(t \ {Pick(t)})[t \ {Pick(t)}] = G[t \ {Pick(t)}]
  <2>1. t \ {Pick(t)} \in SUBSET s /\ t \ {Pick(t)} # s
    BY <1>4, PickIn
  <2> QED
    BY <1>3, <2>1
<1>5. \A t \in SUBSET s : G[t] = IF t = {} THEN 0 ELSE f[Pick(t)] + G[t \ {Pick(t)}]
  BY <1>4
<1>6. G = [t \in SUBSET s |-> IF t = {} THEN 0 ELSE f[Pick(t)] + G[t \ {Pick(t)}]]
  <2> DEFINE H == [t \in SUBSET s |-> IF t = {} THEN 0 ELSE f[Pick(t)] + G[t \ {Pick(t)}]]
  <2>1. \A t \in SUBSET s : G[t] = H[t]
    BY <1>5
  <2> QED
    BY <2>1
<1>7. Sums(f, s, G)
  BY <1>6 DEF Sums
<1> QED
  BY <1>7

(* A sum, one element at a time. *)
LEMMA SumStep ==
  ASSUME NEW f, NEW S, IsFiniteSet(S)
  PROVE  SumFunctionOnSet(f, S) =
           IF S = {} THEN 0 ELSE f[Pick(S)] + SumFunctionOnSet(f, S \ {Pick(S)})
<1> DEFINE sum(v) == CHOOSE g : Sums(f, v, g)
           W == S \ {Pick(S)}
<1>1. Sums(f, S, sum(S)) /\ Sums(f, W, sum(W)) /\ IsFiniteSet(W)
  <2>1. IsFiniteSet(W)
    BY FS_Subset
  <2>2. (\E g : Sums(f, S, g)) /\ \E g : Sums(f, W, g)
    BY <2>1, SumsExist
  <2> QED
    BY <2>1, <2>2
<1>2. SumFunctionOnSet(f, S) = sum(S)[S] /\ SumFunctionOnSet(f, W) = sum(W)[W]
  BY SumIsRecursive
<1> HIDE DEF sum
<1>3. sum(S)[S] = IF S = {} THEN 0 ELSE f[Pick(S)] + sum(S)[W]
  BY <1>1 DEF Sums
<1>4. sum(W)[W] = sum(S)[W]
  <2>1. W \subseteq S /\ W \in SUBSET W
    OBVIOUS
  <2> HIDE DEF W
  <2> QED
    BY <1>1, <2>1, SumsAgree
<1> QED
  BY <1>2, <1>3, <1>4

LEMMA SumEmpty == ASSUME NEW f PROVE SumFunctionOnSet(f, {}) = 0
BY SumStep, FS_EmptySet

(* A sum of integers is an integer. *)
LEMMA SumIsInt ==
  ASSUME NEW S, IsFiniteSet(S), NEW f, \A x \in S : f[x] \in Int
  PROVE  SumFunctionOnSet(f, S) \in Int
<1> DEFINE B == {s \in SUBSET S : SumFunctionOnSet(f, s) \notin Int}
<1> SUFFICES ASSUME B # {} PROVE FALSE
  OBVIOUS
<1>1. B \subseteq SUBSET S
  OBVIOUS
<1> HIDE DEF B
<1>2. PICK s \in B : \A t \in B : t \subseteq s => t = s
  BY <1>1, MinimalSubset
<1> USE DEF B
<1>3. IsFiniteSet(s)
  BY FS_Subset
<1>4. SumFunctionOnSet(f, s) =
        IF s = {} THEN 0 ELSE f[Pick(s)] + SumFunctionOnSet(f, s \ {Pick(s)})
  BY <1>3, SumStep
<1>5. s # {}
  BY <1>4
<1>6. SumFunctionOnSet(f, s \ {Pick(s)}) \in Int /\ f[Pick(s)] \in Int
  BY <1>2, <1>5, PickIn
<1> QED
  BY <1>4, <1>5, <1>6

(* A sum of natural numbers is a natural number. *)
LEMMA SumIsNat ==
  ASSUME NEW S, IsFiniteSet(S), NEW f, \A x \in S : f[x] \in Nat
  PROVE  SumFunctionOnSet(f, S) \in Nat
<1> DEFINE B == {s \in SUBSET S : SumFunctionOnSet(f, s) \notin Nat}
<1> SUFFICES ASSUME B # {} PROVE FALSE
  OBVIOUS
<1>1. B \subseteq SUBSET S
  OBVIOUS
<1> HIDE DEF B
<1>2. PICK s \in B : \A t \in B : t \subseteq s => t = s
  BY <1>1, MinimalSubset
<1> USE DEF B
<1>3. IsFiniteSet(s)
  BY FS_Subset
<1>4. SumFunctionOnSet(f, s) =
        IF s = {} THEN 0 ELSE f[Pick(s)] + SumFunctionOnSet(f, s \ {Pick(s)})
  BY <1>3, SumStep
<1>5. s # {}
  BY <1>4
<1>6. SumFunctionOnSet(f, s \ {Pick(s)}) \in Nat /\ f[Pick(s)] \in Nat
  BY <1>2, <1>5, PickIn
<1> QED
  BY <1>4, <1>5, <1>6

(* Only the values on the set count. *)
LEMMA SumCongruence ==
  ASSUME NEW S, IsFiniteSet(S), NEW f, NEW g, \A x \in S : f[x] = g[x]
  PROVE  SumFunctionOnSet(f, S) = SumFunctionOnSet(g, S)
<1> DEFINE B == {s \in SUBSET S : SumFunctionOnSet(f, s) # SumFunctionOnSet(g, s)}
<1> SUFFICES ASSUME B # {} PROVE FALSE
  OBVIOUS
<1>1. B \subseteq SUBSET S
  OBVIOUS
<1> HIDE DEF B
<1>2. PICK s \in B : \A t \in B : t \subseteq s => t = s
  BY <1>1, MinimalSubset
<1> USE DEF B
<1>3. IsFiniteSet(s)
  BY FS_Subset
<1>4. /\ SumFunctionOnSet(f, s) =
            IF s = {} THEN 0 ELSE f[Pick(s)] + SumFunctionOnSet(f, s \ {Pick(s)})
      /\ SumFunctionOnSet(g, s) =
            IF s = {} THEN 0 ELSE g[Pick(s)] + SumFunctionOnSet(g, s \ {Pick(s)})
  BY <1>3, SumStep
<1>5. s # {}
  BY <1>4
<1>6. SumFunctionOnSet(f, s \ {Pick(s)}) = SumFunctionOnSet(g, s \ {Pick(s)})
      /\ f[Pick(s)] = g[Pick(s)]
  BY <1>2, <1>5, PickIn
<1> QED
  BY <1>4, <1>5, <1>6

(* Any element may be taken first. *)
LEMMA SumTake ==
  ASSUME NEW S, IsFiniteSet(S), NEW f, \A x \in S : f[x] \in Int, NEW y \in S
  PROVE  SumFunctionOnSet(f, S) = f[y] + SumFunctionOnSet(f, S \ {y})
<1> DEFINE Taken(s) == \A x \in s : SumFunctionOnSet(f, s) = f[x] + SumFunctionOnSet(f, s \ {x})
           B == {s \in SUBSET S : ~Taken(s)}
<1> SUFFICES ASSUME B # {} PROVE FALSE
  OBVIOUS
<1>1. B \subseteq SUBSET S
  OBVIOUS
<1> HIDE DEF B
<1>2. PICK s \in B : \A t \in B : t \subseteq s => t = s
  BY <1>1, MinimalSubset
<1> USE DEF B
<1>3. \A t \in SUBSET s : t # s => Taken(t)
  BY <1>2
<1>4. \A t \in SUBSET s : IsFiniteSet(t) /\ SumFunctionOnSet(f, t) \in Int
  <2>1. \A t \in SUBSET s : IsFiniteSet(t) /\ \A x \in t : f[x] \in Int
    BY FS_Subset
  <2> QED
    BY <2>1, SumIsInt
<1>5. PICK x \in s : SumFunctionOnSet(f, s) # f[x] + SumFunctionOnSet(f, s \ {x})
  BY <1>2
<1>6. PICK c : c = Pick(s) /\ c \in s
  BY PickIn
<1>7. SumFunctionOnSet(f, s) = f[c] + SumFunctionOnSet(f, s \ {c})
  BY <1>4, <1>6, SumStep
<1>8. x # c
  BY <1>5, <1>7
<1>9. SumFunctionOnSet(f, s \ {c}) = f[x] + SumFunctionOnSet(f, (s \ {c}) \ {x})
  <2>1. s \ {c} \in SUBSET s /\ s \ {c} # s /\ x \in s \ {c}
    BY <1>6, <1>8
  <2> QED
    BY <1>3, <2>1
<1>10. SumFunctionOnSet(f, s \ {x}) = f[c] + SumFunctionOnSet(f, (s \ {x}) \ {c})
  <2>1. s \ {x} \in SUBSET s /\ s \ {x} # s /\ c \in s \ {x}
    BY <1>6, <1>8
  <2> QED
    BY <1>3, <2>1
<1>11. PICK w \in SUBSET s : w = (s \ {x}) \ {c} /\ w = (s \ {c}) \ {x}
  OBVIOUS
<1>12. SumFunctionOnSet(f, w) \in Int /\ f[x] \in Int /\ f[c] \in Int
  BY <1>4, <1>6
<1>13. PICK a, b, r, i, j :
          /\ a = f[x] /\ b = f[c] /\ r = SumFunctionOnSet(f, w)
          /\ i = SumFunctionOnSet(f, s \ {c}) /\ j = SumFunctionOnSet(f, s \ {x})
  OBVIOUS
<1>14. i = a + r /\ j = b + r /\ a \in Int /\ b \in Int /\ r \in Int
  BY <1>9, <1>10, <1>11, <1>12, <1>13
<1>15. b + i = a + j
  BY <1>14
<1> QED
  BY <1>5, <1>7, <1>13, <1>15

(* One value changes. *)
LEMMA SumUpdated ==
  ASSUME NEW S, IsFiniteSet(S), NEW f, NEW g, NEW y \in S,
         \A x \in S : f[x] \in Int /\ g[x] \in Int, \A x \in S \ {y} : g[x] = f[x]
  PROVE  SumFunctionOnSet(g, S) = SumFunctionOnSet(f, S) - f[y] + g[y]
<1>1. PICK r : r = SumFunctionOnSet(f, S \ {y})
  OBVIOUS
<1>2. IsFiniteSet(S \ {y})
  BY FS_Subset
<1>3. SumFunctionOnSet(g, S \ {y}) = r /\ r \in Int
  BY <1>1, <1>2, SumCongruence, SumIsInt
<1>4. SumFunctionOnSet(f, S) = f[y] + r /\ SumFunctionOnSet(g, S) = g[y] + r
  BY <1>1, <1>3, SumTake
<1>5. f[y] \in Int /\ g[y] \in Int
  OBVIOUS
<1> QED
  BY <1>3, <1>4, <1>5

(* One element is added. *)
LEMMA SumExtended ==
  ASSUME NEW S, IsFiniteSet(S), NEW f, NEW g, NEW T, NEW y \in T, T \ {y} = S, y \notin S,
         \A x \in T : g[x] \in Int, \A x \in S : g[x] = f[x]
  PROVE  SumFunctionOnSet(g, T) = SumFunctionOnSet(f, S) + g[y]
<1>1. T = S \cup {y}
  OBVIOUS
<1>2. IsFiniteSet(T)
  BY <1>1, FS_AddElement
<1>3. SumFunctionOnSet(g, T) = g[y] + SumFunctionOnSet(g, T \ {y})
  BY <1>2, SumTake, SMTT(30)
<1>4. SumFunctionOnSet(g, T \ {y}) = SumFunctionOnSet(g, S)
  OBVIOUS
<1>5. \A x \in S : g[x] \in Int
  BY <1>1
<1>6. SumFunctionOnSet(g, S) = SumFunctionOnSet(f, S)
  BY <1>5, SumCongruence
<1>7. SumFunctionOnSet(g, S) \in Int /\ g[y] \in Int
  BY <1>5, SumIsInt
<1>8. PICK a, b, c : /\ a = g[y] /\ b = SumFunctionOnSet(g, S)
                     /\ c = SumFunctionOnSet(g, T)
  OBVIOUS
<1>9. c = a + b
  BY <1>3, <1>4, <1>8
<1>10. c = b + a
  BY <1>7, <1>8, <1>9
<1> QED
  BY <1>6, <1>8, <1>10

(* The same, with the larger set written as a union. *)
LEMMA SumAdded ==
  ASSUME NEW S, IsFiniteSet(S), NEW f, NEW g, NEW y, y \notin S, g[y] \in Int,
         \A x \in S : g[x] \in Int /\ g[x] = f[x]
  PROVE  SumFunctionOnSet(g, S \cup {y}) = SumFunctionOnSet(f, S) + g[y]
<1>1. PICK T : T = S \cup {y}
  OBVIOUS
<1>2. y \in T /\ T \ {y} = S
  BY <1>1
<1>3. \A x \in T : g[x] \in Int
  BY <1>1
<1>4. SumFunctionOnSet(g, T) = SumFunctionOnSet(f, S) + g[y]
  BY <1>2, <1>3, SumExtended
<1> QED
  BY <1>1, <1>4

(* Nothing adds up to nothing. *)
LEMMA SumIsZero ==
  ASSUME NEW S, IsFiniteSet(S), NEW f, \A x \in S : f[x] = 0
  PROVE  SumFunctionOnSet(f, S) = 0
<1> DEFINE B == {s \in SUBSET S : SumFunctionOnSet(f, s) # 0}
<1> SUFFICES ASSUME B # {} PROVE FALSE
  OBVIOUS
<1>1. B \subseteq SUBSET S
  OBVIOUS
<1> HIDE DEF B
<1>2. PICK s \in B : \A t \in B : t \subseteq s => t = s
  BY <1>1, MinimalSubset
<1> USE DEF B
<1>3. IsFiniteSet(s)
  BY FS_Subset
<1>4. SumFunctionOnSet(f, s) =
        IF s = {} THEN 0 ELSE f[Pick(s)] + SumFunctionOnSet(f, s \ {Pick(s)})
  BY <1>3, SumStep
<1>5. s # {}
  BY <1>4
<1>6. SumFunctionOnSet(f, s \ {Pick(s)}) = 0 /\ f[Pick(s)] = 0
  BY <1>2, <1>5, PickIn
<1> QED
  BY <1>4, <1>5, <1>6

(* The sum of two functions, element by element. *)
LEMMA SumOfTwo ==
  ASSUME NEW S, IsFiniteSet(S), NEW f, NEW g, NEW h,
         \A x \in S : f[x] \in Int /\ g[x] \in Int /\ h[x] = f[x] + g[x]
  PROVE  SumFunctionOnSet(h, S) = SumFunctionOnSet(f, S) + SumFunctionOnSet(g, S)
<1> DEFINE B == {s \in SUBSET S :
                   SumFunctionOnSet(h, s) # SumFunctionOnSet(f, s) + SumFunctionOnSet(g, s)}
<1> SUFFICES ASSUME B # {} PROVE FALSE
  OBVIOUS
<1>1. B \subseteq SUBSET S
  OBVIOUS
<1> HIDE DEF B
<1>2. PICK s \in B : \A t \in B : t \subseteq s => t = s
  BY <1>1, MinimalSubset
<1> USE DEF B
<1>3. s \in SUBSET S /\ IsFiniteSet(s)
  BY FS_Subset
<1>4. s # {}
  <2>1. SumFunctionOnSet(f, {}) = 0 /\ SumFunctionOnSet(g, {}) = 0 /\ SumFunctionOnSet(h, {}) = 0
    BY SumEmpty, Zenon
  <2>2. SumFunctionOnSet(h, {}) = SumFunctionOnSet(f, {}) + SumFunctionOnSet(g, {})
    BY <2>1
  <2> QED
    BY <2>2
<1>5. PICK y : y = Pick(s)
  OBVIOUS
<1>6. PICK w : w = s \ {y}
  OBVIOUS
<1>7. y \in s /\ y \in S
  BY <1>3, <1>4, <1>5, PickIn
<1>8. w \in SUBSET S /\ w # s /\ w \subseteq s
  BY <1>3, <1>6, <1>7
<1>9. PICK fs, gs, hs, fw, gw, hw :
        /\ fs = SumFunctionOnSet(f, s) /\ gs = SumFunctionOnSet(g, s) /\ hs = SumFunctionOnSet(h, s)
        /\ fw = SumFunctionOnSet(f, w) /\ gw = SumFunctionOnSet(g, w) /\ hw = SumFunctionOnSet(h, w)
  OBVIOUS
<1>10. hw = fw + gw
  BY <1>2, <1>8, <1>9
<1>11. fs = f[y] + fw /\ gs = g[y] + gw /\ hs = h[y] + hw
  BY <1>3, <1>4, <1>5, <1>6, <1>9, SumStep
<1>12. IsFiniteSet(w)
  BY <1>3, <1>6, FS_Subset
<1>13. fw \in Int /\ gw \in Int
  <2>1. \A x \in w : f[x] \in Int
    BY <1>8
  <2>2. \A x \in w : g[x] \in Int
    BY <1>8
  <2>3. fw \in Int
    BY <1>12, <2>1, <1>9, SumIsInt
  <2>4. gw \in Int
    BY <1>12, <2>2, <1>9, SumIsInt
  <2> QED
    BY <2>3, <2>4
<1>14. h[y] = f[y] + g[y] /\ f[y] \in Int /\ g[y] \in Int
  BY <1>7
<1>15. hs = fs + gs
  BY <1>10, <1>11, <1>13, <1>14
<1> QED
  BY <1>2, <1>9, <1>15

(* A sum over a part, with zeros elsewhere. *)
LEMMA SumPadded ==
  ASSUME NEW T, IsFiniteSet(T), NEW S, S \subseteq T, NEW f, NEW g,
         \A x \in S : f[x] \in Int /\ g[x] = f[x], \A x \in T \ S : g[x] = 0
  PROVE  SumFunctionOnSet(g, T) = SumFunctionOnSet(f, S)
<1> DEFINE B == {s \in SUBSET T : SumFunctionOnSet(g, s) # SumFunctionOnSet(g, s \cap S)}
<1>1. B = {}
  <2> SUFFICES ASSUME B # {} PROVE FALSE
    OBVIOUS
  <2>1. B \subseteq SUBSET T
    OBVIOUS
  <2> HIDE DEF B
  <2>2. PICK s \in B : \A t \in B : t \subseteq s => t = s
    BY <2>1, MinimalSubset
  <2> USE DEF B
  <2>3. s \in SUBSET T /\ IsFiniteSet(s)
    BY FS_Subset
  <2>4. s # {}
    <3>1. {} \cap S = {}
      OBVIOUS
    <3> QED
      BY <3>1
  <2>5. PICK y : y = Pick(s)
    OBVIOUS
  <2>6. PICK w : w = s \ {y}
    OBVIOUS
  <2>7. y \in s /\ y \in T
    BY <2>3, <2>4, <2>5, PickIn
  <2>8. w \in SUBSET T /\ w # s /\ w \subseteq s
    BY <2>3, <2>6, <2>7
  <2>9. PICK a, b, c, d, r, q :
          /\ a = SumFunctionOnSet(g, s) /\ b = SumFunctionOnSet(g, w)
          /\ r = s \cap S /\ q = w \cap S
          /\ c = SumFunctionOnSet(g, r) /\ d = SumFunctionOnSet(g, q)
    OBVIOUS
  <2>10. b = d
    BY <2>2, <2>8, <2>9
  <2>11. a = g[y] + b
    BY <2>3, <2>4, <2>5, <2>6, <2>9, SumStep
  <2>12. IsFiniteSet(r) /\ IsFiniteSet(q) /\ r \subseteq S /\ q \subseteq S
    BY <2>3, <2>6, <2>9, FS_Subset
  <2>13. \A x \in r : g[x] \in Int
    BY <2>12
  <2>14. CASE y \in S
    <3>1. y \in r /\ r \ {y} = q
      BY <2>6, <2>7, <2>9, <2>14
    <3>2. c = g[y] + SumFunctionOnSet(g, r \ {y})
      BY <2>12, <2>13, <3>1, <2>9, SumTake
    <3>3. a = c
      BY <2>9, <2>10, <2>11, <3>1, <3>2
    <3> QED
      BY <3>3, <2>2, <2>9
  <2>15. CASE y \notin S
    <3>1. r = q /\ g[y] = 0
      BY <2>6, <2>7, <2>9, <2>15
    <3>2. c \in Int
      BY <2>12, <2>13, <2>9, SumIsInt
    <3>3. c = d
      BY <2>9, <3>1
    <3>4. a = c
      BY <2>10, <2>11, <3>1, <3>2, <3>3
    <3> QED
      BY <3>4, <2>2, <2>9
  <2> QED
    BY <2>14, <2>15
<1>2. SumFunctionOnSet(g, T) = SumFunctionOnSet(g, T \cap S)
  BY <1>1
<1>3. T \cap S = S /\ IsFiniteSet(S)
  BY FS_Subset
<1>4. SumFunctionOnSet(g, S) = SumFunctionOnSet(f, S)
  <2>1. \A x \in S : g[x] = f[x]
    OBVIOUS
  <2> QED
    BY <1>3, <2>1, SumCongruence
<1> QED
  BY <1>2, <1>3, <1>4
================================================================================
