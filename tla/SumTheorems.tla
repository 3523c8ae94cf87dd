----------------------------- MODULE SumTheorems ----------------------------
(***************************************************************************)
(* Sums over finite sets, as the community modules define them: the order  *)
(* of the elements does not matter, and one more element adds its number.  *)
(* Every proof takes a smallest part for which the statement fails, as the *)
(* parts of a finite set are well-founded, and refutes it.                 *)
(***************************************************************************)
EXTENDS Integers, FiniteSets, FiniteSetsExt, FiniteSetTheorems, WellFoundedInduction, TLAPS

(* The element that the community modules' sums take first.                *)
Pick(s) == CHOOSE x \in s : TRUE

(* The sum of f[x] over S; a function that adds up the parts of S one by   *)
(* one; and the one that is chosen.                                        *)
Total(f, S) == MapThenSumSet(LAMBDA x : f[x], S)
Adds(f, S, g) == [s \in SUBSET S |-> IF s = {} THEN 0 ELSE f[Pick(s)] + g[s \ {Pick(s)}]]
Totals(f, S) == CHOOSE g : g = Adds(f, S, g)

(* A nonempty set has an element to begin with.                            *)
LEMMA PickIs == ASSUME NEW s, s # {} PROVE Pick(s) \in s
BY DEF Pick

(* Among sets of parts of a finite set one has no smaller one.             *)
LEMMA SmallestPart ==
  ASSUME NEW S, IsFiniteSet(S), NEW T \in SUBSET SUBSET S, T # {}
  PROVE  \E m \in T : \A u \in T : u \subseteq m => u = m
<1>1. IsWellFoundedOn(StrictSubsetOrdering(S), FiniteSubsetsOf(S))
  BY FS_StrictSubsetOrderingWellFounded
<1>2. T \subseteq FiniteSubsetsOf(S)
  BY FS_FiniteSubsetsOfFinite
<1>3. \E m \in T : \A u \in T : <<u, m>> \notin StrictSubsetOrdering(S)
  BY <1>1, <1>2, WFMin
<1> QED BY <1>3 DEF StrictSubsetOrdering

(* A function that adds up does so at every part.                          *)
LEMMA AddsAt ==
  ASSUME NEW f, NEW S, NEW g, g = Adds(f, S, g), NEW s \in SUBSET S
  PROVE  g[s] = IF s = {} THEN 0 ELSE f[Pick(s)] + g[s \ {Pick(s)}]
BY DEF Adds

(* Functions that add up parts of one set and of a larger one agree.       *)
LEMMA TotalsAgree ==
  ASSUME NEW f, NEW S, IsFiniteSet(S), NEW R \in SUBSET S, NEW g, NEW h,
         g = Adds(f, S, g), h = Adds(f, R, h), NEW s \in SUBSET R
  PROVE  g[s] = h[s]
<1> DEFINE T == {u \in SUBSET R : g[u] # h[u]}
<1> SUFFICES ASSUME T # {} PROVE FALSE
  OBVIOUS
<1>1. PICK m \in T : \A u \in T : u \subseteq m => u = m
  <2>1. T \in SUBSET SUBSET S
    OBVIOUS
  <2> HIDE DEF T
  <2> QED BY <2>1, SmallestPart
<1>2. m \in SUBSET R /\ g[m] # h[m]
  BY <1>1
<1>3. g[m] = IF m = {} THEN 0 ELSE f[Pick(m)] + g[m \ {Pick(m)}]
  BY <1>2 DEF Adds
<1>4. h[m] = IF m = {} THEN 0 ELSE f[Pick(m)] + h[m \ {Pick(m)}]
  BY <1>2 DEF Adds
<1>5. m # {}
  BY <1>2, <1>3, <1>4
<1>6. Pick(m) \in m
  BY <1>5, PickIs
<1>7. m \ {Pick(m)} \notin T
  BY <1>1, <1>6
<1> QED BY <1>2, <1>3, <1>4, <1>7

(* There is a function that adds up the parts of a finite set: the first   *)
(* part without one could be given one from those of its own parts.        *)
LEMMA TotalsExist ==
  ASSUME NEW f, NEW S, IsFiniteSet(S)
  PROVE  Totals(f, S) = Adds(f, S, Totals(f, S))
<1> DEFINE T == {u \in SUBSET S : ~ \E g : g = Adds(f, u, g)}
<1> SUFFICES ASSUME T # {} PROVE FALSE
  BY DEF Totals
<1>1. PICK m \in T : \A u \in T : u \subseteq m => u = m
  <2>1. T \in SUBSET SUBSET S
    OBVIOUS
  <2> HIDE DEF T
  <2> QED BY <2>1, SmallestPart
<1>2. m \in SUBSET S /\ ~ \E g : g = Adds(f, m, g)
  BY <1>1
<1>3. ASSUME NEW u \in SUBSET m, u # m
      PROVE  IsFiniteSet(u) /\ Totals(f, u) = Adds(f, u, Totals(f, u))
  <2>1. u \notin T /\ u \in SUBSET S
    BY <1>1, <1>3
  <2>2. \E g : g = Adds(f, u, g)
    BY <2>1
  <2> QED BY <2>1, <2>2, FS_Subset DEF Totals
<1> HIDE DEF T
<1> DEFINE Rest(u) == u \ {Pick(u)}
           g == [u \in SUBSET m |-> IF u = {} THEN 0 ELSE f[Pick(u)] + Totals(f, Rest(u))[Rest(u)]]
<1>4. ASSUME NEW u \in SUBSET m, u # {}
      PROVE  Rest(u) \in SUBSET m /\ Rest(u) # m /\ Pick(u) \in u
  BY <1>4, PickIs
<1>5. ASSUME NEW u \in SUBSET m, u # {} PROVE g[Rest(u)] = Totals(f, Rest(u))[Rest(u)]
  <2> DEFINE v == Rest(u)
  <2>1. v \in SUBSET m /\ v # m
    BY <1>4, <1>5
  <2>2. Totals(f, v)[v] = IF v = {} THEN 0 ELSE f[Pick(v)] + Totals(f, v)[Rest(v)]
    <3> HIDE DEF v, g
    <3>1. v \in SUBSET v /\ Totals(f, v) = Adds(f, v, Totals(f, v))
      BY <1>3, <2>1
    <3>2. Totals(f, v)[v] = IF v = {} THEN 0 ELSE f[Pick(v)] + Totals(f, v)[v \ {Pick(v)}]
      BY <3>1, AddsAt
    <3> QED BY <3>2
  <2>3. g[v] = IF v = {} THEN 0 ELSE f[Pick(v)] + Totals(f, Rest(v))[Rest(v)]
    BY <2>1
  <2>4. CASE v = {}
    BY <2>2, <2>3, <2>4
  <2>5. CASE v # {}
    <3>1. Rest(v) \in SUBSET v /\ Rest(v) \in SUBSET m /\ Rest(v) # m
      BY <1>4, <2>1, <2>5
    <3>2. Totals(f, v)[Rest(v)] = Totals(f, Rest(v))[Rest(v)]
      <4> DEFINE w == Rest(v)
      <4>1. /\ v \in SUBSET m /\ v # m /\ w \in SUBSET v /\ w \in SUBSET m /\ w # m
            /\ w \in SUBSET w
        BY <2>1, <3>1
      <4> HIDE DEF v, w, Rest, g
      <4>2. /\ IsFiniteSet(v) /\ Totals(f, v) = Adds(f, v, Totals(f, v))
            /\ Totals(f, w) = Adds(f, w, Totals(f, w))
        BY <1>3, <4>1
      <4>3. Totals(f, v)[w] = Totals(f, w)[w]
        BY <4>1, <4>2, TotalsAgree
      <4> QED BY <4>3 DEF w
    <3> QED BY <2>2, <2>3, <2>5, <3>2
  <2> QED BY <2>4, <2>5
<1>6. g = [u \in SUBSET m |-> IF u = {} THEN 0 ELSE f[Pick(u)] + g[Rest(u)]]
  <2>1. \A u \in SUBSET m :
          g[u] = IF u = {} THEN 0 ELSE f[Pick(u)] + g[Rest(u)]
    BY <1>5
  <2> QED BY <2>1
<1>7. g = Adds(f, m, g)
  BY <1>6 DEF Adds
<1> HIDE DEF g
<1> QED BY <1>2, <1>7

(* What is added up of a part is what is added up of it alone.             *)
LEMMA TotalStep ==
  ASSUME NEW f, NEW S, IsFiniteSet(S)
  PROVE  Total(f, S) = IF S = {} THEN 0 ELSE f[Pick(S)] + Total(f, S \ {Pick(S)})
<1>1. \A u : Total(f, u) = Totals(f, u)[u]
  BY DEF Total, MapThenSumSet, MapThenFoldSet, Totals, Adds, Pick
<1> DEFINE R == S \ {Pick(S)}
<1>2. R \in SUBSET S /\ IsFiniteSet(R)
  BY FS_Subset
<1>3. Totals(f, S)[S] = IF S = {} THEN 0 ELSE f[Pick(S)] + Totals(f, S)[R]
  <2>1. Totals(f, S) = Adds(f, S, Totals(f, S)) /\ S \in SUBSET S
    BY TotalsExist
  <2> QED BY <2>1, AddsAt
<1>4. Totals(f, S)[R] = Totals(f, R)[R]
  BY <1>2, TotalsExist, TotalsAgree
<1> QED BY <1>1, <1>3, <1>4

(* Natural numbers add up to one.                                          *)
LEMMA TotalIsNat ==
  ASSUME NEW S, IsFiniteSet(S), NEW f, \A x \in S : f[x] \in Nat
  PROVE  Total(f, S) \in Nat
<1> DEFINE T == {u \in SUBSET S : Total(f, u) \notin Nat}
<1> SUFFICES ASSUME T # {} PROVE FALSE
  OBVIOUS
<1>1. PICK m \in T : \A u \in T : u \subseteq m => u = m
  <2>1. T \in SUBSET SUBSET S
    OBVIOUS
  <2> HIDE DEF T
  <2> QED BY <2>1, SmallestPart
<1>2. m \in SUBSET S /\ Total(f, m) \notin Nat /\ IsFiniteSet(m)
  BY <1>1, FS_Subset
<1>3. Total(f, m) = IF m = {} THEN 0 ELSE f[Pick(m)] + Total(f, m \ {Pick(m)})
  BY <1>2, TotalStep
<1>4. m # {} /\ Pick(m) \in m
  BY <1>2, <1>3, PickIs
<1>5. Total(f, m \ {Pick(m)}) \in Nat
  BY <1>1, <1>2, <1>4
<1> QED BY <1>2, <1>3, <1>4, <1>5

(* The order does not matter: any element may be added last.               *)
LEMMA TotalRemove ==
  ASSUME NEW S, IsFiniteSet(S), NEW f, \A x \in S : f[x] \in Nat, NEW x \in S
  PROVE  Total(f, S) = f[x] + Total(f, S \ {x})
<1> DEFINE Bad(u) == \E y \in u : Total(f, u) # f[y] + Total(f, u \ {y})
           T == {u \in SUBSET S : Bad(u)}
<1> SUFFICES ASSUME T # {} PROVE FALSE
  OBVIOUS
<1>1. PICK m \in T : \A u \in T : u \subseteq m => u = m
  <2>1. T \in SUBSET SUBSET S
    OBVIOUS
  <2> HIDE DEF T
  <2> QED BY <2>1, SmallestPart
<1>2. m \in SUBSET S /\ IsFiniteSet(m)
  BY <1>1, FS_Subset
<1>3. PICK y \in m : Total(f, m) # f[y] + Total(f, m \ {y})
  BY <1>1
<1> DEFINE c == Pick(m)
           u == m \ {y, c}
<1>4. Total(f, m) = f[c] + Total(f, m \ {c}) /\ c \in m
  BY <1>2, <1>3, TotalStep, PickIs
<1>5. c # y
  BY <1>3, <1>4
<1>6. /\ m \ {c} \notin T /\ m \ {c} \in SUBSET S /\ y \in m \ {c} /\ (m \ {c}) \ {y} = u
      /\ m \ {y} \notin T /\ m \ {y} \in SUBSET S /\ c \in m \ {y} /\ (m \ {y}) \ {c} = u
  BY <1>1, <1>2, <1>3, <1>4, <1>5
<1>7. Total(f, m \ {c}) = f[y] + Total(f, u) /\ Total(f, m \ {y}) = f[c] + Total(f, u)
  BY <1>6
<1>8. Total(f, u) \in Nat /\ f[y] \in Nat /\ f[c] \in Nat
  <2>1. IsFiniteSet(u) /\ u \in SUBSET S
    BY <1>2, FS_Subset
  <2> QED BY <1>2, <1>3, <1>4, <2>1, TotalIsNat
<1> QED BY <1>3, <1>4, <1>7, <1>8

(* One more element adds its own number.                                   *)
LEMMA TotalAdd ==
  ASSUME NEW S, IsFiniteSet(S), NEW x, x \notin S, NEW f, \A y \in S \cup {x} : f[y] \in Nat
  PROVE  Total(f, S \cup {x}) = Total(f, S) + f[x] /\ Total(f, S) \in Nat
<1>1. IsFiniteSet(S \cup {x}) /\ (S \cup {x}) \ {x} = S
  BY FS_AddElement
<1>2. Total(f, S \cup {x}) = f[x] + Total(f, (S \cup {x}) \ {x})
  <2> DEFINE U == S \cup {x}
  <2>1. x \in U /\ IsFiniteSet(U) /\ \A y \in U : f[y] \in Nat
    BY <1>1
  <2> HIDE DEF U
  <2>2. Total(f, U) = f[x] + Total(f, U \ {x})
    BY <2>1, TotalRemove
  <2> QED BY <2>2 DEF U
<1>3. Total(f, S) \in Nat /\ f[x] \in Nat
  BY TotalIsNat
<1> QED BY <1>1, <1>2, <1>3

(* Only what is added up matters.                                          *)
LEMMA TotalSame ==
  ASSUME NEW S, IsFiniteSet(S), NEW f, NEW h, \A x \in S : f[x] = h[x]
  PROVE  Total(f, S) = Total(h, S)
<1> DEFINE T == {u \in SUBSET S : Total(f, u) # Total(h, u)}
<1> SUFFICES ASSUME T # {} PROVE FALSE
  OBVIOUS
<1>1. PICK m \in T : \A u \in T : u \subseteq m => u = m
  <2>1. T \in SUBSET SUBSET S
    OBVIOUS
  <2> HIDE DEF T
  <2> QED BY <2>1, SmallestPart
<1>2. m \in SUBSET S /\ Total(f, m) # Total(h, m) /\ IsFiniteSet(m)
  BY <1>1, FS_Subset
<1>3. /\ Total(f, m) = IF m = {} THEN 0 ELSE f[Pick(m)] + Total(f, m \ {Pick(m)})
      /\ Total(h, m) = IF m = {} THEN 0 ELSE h[Pick(m)] + Total(h, m \ {Pick(m)})
  BY <1>2, TotalStep
<1>4. m # {} /\ Pick(m) \in m
  BY <1>2, <1>3, PickIs
<1>5. m \ {Pick(m)} \notin T
  BY <1>1, <1>4
<1> QED BY <1>2, <1>3, <1>4, <1>5

(* Counting by other names makes no difference.                            *)
LEMMA TotalRenamed ==
  ASSUME NEW S, IsFiniteSet(S), NEW f, \A x \in S : f[x] \in Nat,
         NEW b, \A x, y \in S : b[x] = b[y] => x = y,
         NEW h, \A x \in S : h[b[x]] = f[x]
  PROVE  Total(h, {b[x] : x \in S}) = Total(f, S)
<1> DEFINE Names(u) == {b[x] : x \in u}
           T == {u \in SUBSET S : Total(h, Names(u)) # Total(f, u)}
<1> SUFFICES ASSUME T # {} PROVE FALSE
  OBVIOUS
<1>1. PICK m \in T : \A u \in T : u \subseteq m => u = m
  <2>1. T \in SUBSET SUBSET S
    OBVIOUS
  <2> HIDE DEF T
  <2> QED BY <2>1, SmallestPart
<1>2. m \in SUBSET S /\ Total(h, Names(m)) # Total(f, m) /\ IsFiniteSet(m)
  BY <1>1, FS_Subset
<1> DEFINE x == Pick(m)
<1>3. m # {}
  <2>1. SUFFICES ASSUME m = {} PROVE FALSE
    OBVIOUS
  <2>2. Names(m) = {} /\ IsFiniteSet({})
    BY <2>1, FS_EmptySet
  <2>3. Total(h, {}) = 0 /\ Total(f, {}) = 0
    BY <2>2, TotalStep
  <2> QED BY <1>2, <2>1, <2>2, <2>3
<1>4. x \in m /\ m \ {x} \in SUBSET S /\ m \ {x} \notin T
  BY <1>1, <1>2, <1>3, PickIs
<1>5. Total(f, m) = f[x] + Total(f, m \ {x})
  BY <1>2, <1>3, TotalStep
<1>6. Names(m \ {x}) = Names(m) \ {b[x]} /\ b[x] \in Names(m)
  BY <1>2, <1>4
<1>7. IsFiniteSet(Names(m)) /\ \A n \in Names(m) : h[n] \in Nat
  <2>1. \A n \in Names(m) : h[n] \in Nat
    BY <1>2
  <2> DEFINE g == [z \in m |-> b[z]]
  <2>2. g \in [m -> Names(m)]
    OBVIOUS
  <2>3. Names(m) = {g[z] : z \in m}
    OBVIOUS
  <2> HIDE DEF g, Names
  <2>4. g \in Surjection(m, Names(m))
    BY <2>2, <2>3 DEF Surjection
  <2> QED BY <1>2, <2>1, <2>4, FS_Surjection
<1> HIDE DEF T, Names
<1>8. Total(h, Names(m)) = h[b[x]] + Total(h, Names(m) \ {b[x]})
  <2> DEFINE N == Names(m)
             n == b[x]
  <2>1. IsFiniteSet(N) /\ n \in N /\ \A z \in N : h[z] \in Nat
    BY <1>6, <1>7
  <2> HIDE DEF N, n
  <2>2. Total(h, N) = h[n] + Total(h, N \ {n})
    BY <2>1, TotalRemove
  <2> QED BY <2>2 DEF N, n
<1>9. Total(h, Names(m \ {x})) = Total(f, m \ {x})
  BY <1>4 DEF T, Names
<1> QED BY <1>2, <1>4, <1>5, <1>6, <1>8, <1>9
=============================================================================
