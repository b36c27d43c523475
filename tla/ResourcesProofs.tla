--------------------------- MODULE ResourcesProofs ---------------------------
(***************************************************************************)
(* For every set of targets and pods, of any size and any requests,        *)
(* whatever comes and goes while nodes are listed and however old the      *)
(* listings are: what the answer of the resource check is worth.           *)
(***************************************************************************)
EXTENDS Resources, FiniteSetTheorems, WellFoundedInduction, TLAPS

-----------------------------------------------------------------------------
(* Sums over finite sets.                                                  *)

\* Induction over the subsets of a finite set: whatever holds of the empty set,
\* and of a set when it holds with any element removed, holds of all of them.
LEMMA ByRemoval ==
    ASSUME NEW S, IsFiniteSet(S), NEW W, {} \in W,
           \A s \in SUBSET S : s # {} /\ (\A x \in s : s \ {x} \in W) => s \in W
    PROVE  \A s \in SUBSET S : s \in W
<1> DEFINE T == (SUBSET S) \ W
<1>1. SUFFICES ASSUME T # {} PROVE FALSE
  OBVIOUS
<1>2. IsWellFoundedOn(StrictSubsetOrdering(S), SUBSET S)
  BY FS_StrictSubsetOrderingWellFounded, FS_FiniteSubsetsOfFinite, Zenon
<1>3. PICK s \in T : \A t \in T : <<t, s>> \notin StrictSubsetOrdering(S)
  <2>1. T \subseteq SUBSET S
    OBVIOUS
  <2> HIDE DEF T
  <2> QED
    BY <1>1, <1>2, <2>1, WFMin, Zenon
<1>4. \A x \in s : s \ {x} \in W
  <2> SUFFICES ASSUME NEW x \in s, s \ {x} \notin W PROVE FALSE
    OBVIOUS
  <2>1. s \ {x} \in T /\ s \ {x} # s
    OBVIOUS
  <2>2. <<s \ {x}, s>> \in StrictSubsetOrdering(S)
    BY DEF StrictSubsetOrdering
  <2> QED
    BY <1>3, <2>1, <2>2
<1> QED
  BY <1>4

\* The sum of F[x] over the elements of S.
Total(F, S) == MapThenSumSet(LAMBDA x : F[x], S)

\* The element the fold takes next.
Pick(s) == CHOOSE x \in s : TRUE

\* g is the function the fold is computed with.
Adds(g, F, S) == g = [s \in SUBSET S |-> IF s = {} THEN 0 ELSE F[Pick(s)] + g[s \ {Pick(s)}]]

\* What the recursive function under MapThenSumSet does on each set.
LEMMA AddsEach ==
    ASSUME NEW F, NEW S, NEW g
    PROVE Adds(g, F, S) => /\ g[{}] = 0
           /\ \A s \in SUBSET S : s # {} => /\ Pick(s) \in s
                                           /\ g[s] = F[Pick(s)] + g[s \ {Pick(s)}]
BY DEF Adds, Pick

\* Two such functions agree where their summands do.
LEMMA AddsOnce ==
    ASSUME NEW S, NEW T \in SUBSET S, IsFiniteSet(T), NEW F, NEW G, \A x \in T : F[x] = G[x],
           NEW g, Adds(g, F, S), NEW h, Adds(h, G, T)
    PROVE  g[T] = h[T]
<1> DEFINE W == {s \in SUBSET T : g[s] = h[s]}
<1>1. {} \in W
  BY AddsEach
<1>2. ASSUME NEW s \in SUBSET T, s # {}, \A x \in s : s \ {x} \in W
      PROVE  s \in W
  <2>1. Pick(s) \in s /\ g[s] = F[Pick(s)] + g[s \ {Pick(s)}] /\ h[s] = G[Pick(s)] + h[s \ {Pick(s)}]
    <3>1. s \in SUBSET S
      OBVIOUS
    <3> QED
      BY <3>1, <1>2, AddsEach
  <2>2. g[s \ {Pick(s)}] = h[s \ {Pick(s)}]
    BY <1>2, <2>1
  <2> QED
    BY <2>1, <2>2
<1>3. \A s \in SUBSET T : s \in W
  <2> HIDE DEF W
  <2> QED
    BY <1>1, <1>2, ByRemoval
<1> QED
  BY <1>3

\* There is such a function.
LEMMA AddsExists ==
    ASSUME NEW S, IsFiniteSet(S), NEW F
    PROVE  \E g : Adds(g, F, S)
<1> DEFINE W == {s \in SUBSET S : \E g : Adds(g, F, s)}
           G(s) == CHOOSE g : Adds(g, F, s)
<1>1. {} \in W
  <2> DEFINE z == [s \in SUBSET {} |-> 0]
  <2>1. Adds(z, F, {})
    BY DEF Adds
  <2> QED
    BY <2>1, Zenon
<1>2. ASSUME NEW s \in SUBSET S, s # {}, \A x \in s : s \ {x} \in W
      PROVE  s \in W
  <2> DEFINE R(t) == IF t = {} THEN 0 ELSE F[Pick(t)] + G(t \ {Pick(t)})[t \ {Pick(t)}]
             h == [t \in SUBSET s |-> R(t)]
  <2>1. \A t \in SUBSET s : t # s => Adds(G(t), F, t)
    <3> SUFFICES ASSUME NEW t \in SUBSET s, t # s PROVE \E g : Adds(g, F, t)
      BY Zenon
    <3>1. PICK x \in s : t \subseteq s \ {x}
      OBVIOUS
    <3>2. PICK g : Adds(g, F, s \ {x})
      BY <1>2
    <3>3. Adds([u \in SUBSET t |-> g[u]], F, t)
      BY <3>1, <3>2 DEF Adds, Pick
    <3> QED
      BY <3>3
  <2>2. \A t \in SUBSET s : t # s => h[t] = G(t)[t]
    <3> SUFFICES ASSUME NEW t \in SUBSET s, t # s PROVE R(t) = G(t)[t]
      OBVIOUS
    <3>1. Adds(G(t), F, t)
      BY <2>1, Zenon
    <3>2. CASE t = {}
      BY <3>1, <3>2, AddsEach
    <3>3. CASE t # {}
      <4>1. Pick(t) \in t /\ G(t)[t] = F[Pick(t)] + G(t)[t \ {Pick(t)}]
        BY <3>1, <3>3, AddsEach
      <4>2. Adds(G(t \ {Pick(t)}), F, t \ {Pick(t)})
        <5>1. t \ {Pick(t)} \in SUBSET s /\ t \ {Pick(t)} # s
          BY <4>1
        <5> QED
          BY <2>1, <5>1, Zenon
      <4>3. G(t)[t \ {Pick(t)}] = G(t \ {Pick(t)})[t \ {Pick(t)}]
        <5>1. t \ {Pick(t)} \in SUBSET t /\ IsFiniteSet(t \ {Pick(t)})
          BY FS_Subset
        <5> HIDE DEF G
        <5> QED
          BY <3>1, <4>2, <5>1, AddsOnce
      <4> QED
        BY <3>3, <4>1, <4>3
    <3> QED
      BY <3>2, <3>3
  <2>3. Adds(h, F, s)
    <3>1. \A t \in SUBSET s : t # {} => h[t] = F[Pick(t)] + h[t \ {Pick(t)}]
      <4> SUFFICES ASSUME NEW t \in SUBSET s, t # {} PROVE h[t] = F[Pick(t)] + h[t \ {Pick(t)}]
        OBVIOUS
      <4>1. Pick(t) \in t
        BY DEF Pick
      <4>2. t \ {Pick(t)} \in SUBSET s /\ t \ {Pick(t)} # s
        BY <4>1
      <4>3. h[t \ {Pick(t)}] = G(t \ {Pick(t)})[t \ {Pick(t)}]
        BY <2>2, <4>2, Zenon
      <4>4. h[t] = F[Pick(t)] + G(t \ {Pick(t)})[t \ {Pick(t)}]
        OBVIOUS
      <4> HIDE DEF h, G
      <4> QED
        BY <4>3, <4>4
    <3>2. {} \in SUBSET s => h[{}] = 0
      OBVIOUS
    <3>3. h = [t \in SUBSET s |-> h[t]]
      OBVIOUS
    <3> HIDE DEF h
    <3> QED
      BY <3>1, <3>2, <3>3 DEF Adds
  <2> HIDE DEF h
  <2> QED
    BY <2>3
<1>3. \A s \in SUBSET S : s \in W
  <2> HIDE DEF W
  <2> QED
    BY <1>1, <1>2, ByRemoval
<1> QED
  BY <1>3

\* The sum is what any such function says.
LEMMA TotalAdds ==
    ASSUME NEW S, IsFiniteSet(S), NEW F, NEW G, \A x \in S : F[x] = G[x],
           NEW g, Adds(g, G, S)
    PROVE  Total(F, S) = g[S]
<1>1. Total(F, S) = (CHOOSE h : Adds(h, F, S))[S]
  BY Zenon DEF Total, MapThenSumSet, MapThenFoldSet, Adds, Pick
<1>2. Adds(CHOOSE h : Adds(h, F, S), F, S)
  BY AddsExists, Zenon
<1> DEFINE h == CHOOSE h : Adds(h, F, S)
<1> HIDE DEF h
<1>3. h[S] = g[S]
  BY <1>2, AddsOnce DEF h
<1> QED
  BY <1>1, <1>3 DEF h

\* The defining equation of a sum.
LEMMA TotalPicks ==
    ASSUME NEW S, IsFiniteSet(S), NEW F
    PROVE  Total(F, S) = IF S = {} THEN 0 ELSE F[Pick(S)] + Total(F, S \ {Pick(S)})
<1>1. PICK g : Adds(g, F, S)
  BY AddsExists
<1>2. Total(F, S) = g[S]
  BY <1>1, TotalAdds
<1>3. CASE S = {}
  BY <1>1, <1>2, <1>3, AddsEach
<1>4. CASE S # {}
  <2> DEFINE T == S \ {Pick(S)}
  <2>1. Pick(S) \in S /\ g[S] = F[Pick(S)] + g[T]
    BY <1>1, <1>4, AddsEach
  <2>2. IsFiniteSet(T) /\ T \in SUBSET S
    BY FS_Subset
  <2>3. PICK h : Adds(h, F, T)
    BY <2>2, AddsExists
  <2>4. g[T] = h[T]
    BY <1>1, <2>2, <2>3, AddsOnce
  <2>5. Total(F, T) = h[T]
    BY <2>2, <2>3, TotalAdds
  <2> QED
    BY <1>2, <1>4, <2>1, <2>4, <2>5
<1> QED
  BY <1>3, <1>4

\* A sum of integers is an integer.
LEMMA TotalInt ==
    ASSUME NEW S, IsFiniteSet(S), NEW F, \A x \in S : F[x] \in Int
    PROVE  Total(F, S) \in Int
<1> DEFINE W == {s \in SUBSET S : Total(F, s) \in Int}
<1>1. {} \in W
  BY TotalPicks, FS_EmptySet
<1>2. ASSUME NEW s \in SUBSET S, s # {}, \A x \in s : s \ {x} \in W PROVE s \in W
  <2>1. Pick(s) \in s
    BY <1>2 DEF Pick
  <2>2. Total(F, s) = F[Pick(s)] + Total(F, s \ {Pick(s)})
    BY <1>2, FS_Subset, TotalPicks
  <2> QED
    BY <1>2, <2>1, <2>2
<1>3. \A s \in SUBSET S : s \in W
  <2> HIDE DEF W
  <2> QED
    BY <1>1, <1>2, ByRemoval
<1> QED
  BY <1>3

\* Any element may be taken out of a sum.
LEMMA TotalRemove ==
    ASSUME NEW S, IsFiniteSet(S), NEW F, \A x \in S : F[x] \in Int, NEW x \in S
    PROVE  Total(F, S) = F[x] + Total(F, S \ {x})
<1> DEFINE W == {s \in SUBSET S : \A y \in s : Total(F, s) = F[y] + Total(F, s \ {y})}
<1>1. {} \in W
  OBVIOUS
<1>2. ASSUME NEW s \in SUBSET S, s # {}, \A y \in s : s \ {y} \in W PROVE s \in W
  <2> SUFFICES ASSUME NEW y \in s PROVE Total(F, s) = F[y] + Total(F, s \ {y})
    OBVIOUS
  <2> DEFINE z == Pick(s)
  <2>1. z \in s
    BY <1>2 DEF Pick
  <2>2. \A t \in SUBSET S : IsFiniteSet(t) /\ Total(F, t) \in Int
    BY FS_Subset, TotalInt
  <2>3. Total(F, s) = F[z] + Total(F, s \ {z})
    BY <1>2, <2>2, TotalPicks
  <2> HIDE DEF z
  <2>4. CASE y = z
    BY <2>3, <2>4
  <2>5. CASE y # z
    <3>1. Total(F, s \ {z}) = F[y] + Total(F, (s \ {z}) \ {y})
      BY <1>2, <2>1, <2>5
    <3>2. Total(F, s \ {y}) = F[z] + Total(F, (s \ {y}) \ {z})
      BY <1>2, <2>1, <2>5
    <3>3. (s \ {z}) \ {y} = (s \ {y}) \ {z}
      OBVIOUS
    <3>4. F[y] \in Int /\ F[z] \in Int /\ Total(F, (s \ {y}) \ {z}) \in Int
      BY <2>1, <2>2
    <3>5. \A a, b, c \in Int : a + (b + c) = b + (a + c)
      OBVIOUS
    <3> DEFINE rest == Total(F, (s \ {y}) \ {z})
    <3>6. F[z] + (F[y] + rest) = F[y] + (F[z] + rest)
      BY <3>4, <3>5, Zenon
    <3> QED
      BY <2>3, <3>1, <3>2, <3>3, <3>6, Zenon
  <2> QED
    BY <2>4, <2>5
<1>3. \A s \in SUBSET S : s \in W
  <2> HIDE DEF W
  <2> QED
    BY <1>1, <1>2, ByRemoval
<1> QED
  BY <1>3

\* A sum depends on its summands only.
LEMMA TotalSame ==
    ASSUME NEW S, IsFiniteSet(S), NEW F, NEW G, \A x \in S : F[x] = G[x]
    PROVE  Total(F, S) = Total(G, S)
<1>1. PICK g : Adds(g, G, S)
  BY AddsExists
<1> QED
  BY <1>1, TotalAdds

\* One more element.
LEMMA TotalAdd ==
    ASSUME NEW S, IsFiniteSet(S), NEW F, \A y \in S : F[y] \in Int,
           NEW x, x \notin S, F[x] \in Int
    PROVE  Total(F, S \cup {x}) = Total(F, S) + F[x]
<1>1. IsFiniteSet(S \cup {x}) /\ (S \cup {x}) \ {x} = S /\ \A y \in S \cup {x} : F[y] \in Int
  BY FS_AddElement
<1>2. Total(F, S \cup {x}) = F[x] + Total(F, (S \cup {x}) \ {x})
  BY <1>1, TotalRemove
<1>3. \A a, b \in Int : a + b = b + a
  OBVIOUS
<1> QED
  BY <1>1, <1>2, <1>3, TotalInt, Zenon

\* Smaller summands, smaller sum.
LEMMA TotalAtMost ==
    ASSUME NEW S, IsFiniteSet(S), NEW F, NEW G,
           \A x \in S : F[x] \in Int /\ G[x] \in Int /\ F[x] =< G[x]
    PROVE  Total(F, S) =< Total(G, S)
<1> DEFINE W == {s \in SUBSET S : Total(F, s) =< Total(G, s)}
<1>1. {} \in W
  <2>1. Total(F, {}) = 0 /\ Total(G, {}) = 0
    BY TotalPicks, FS_EmptySet
  <2> QED
    BY <2>1
<1>2. ASSUME NEW s \in SUBSET S, s # {}, \A y \in s : s \ {y} \in W PROVE s \in W
  <2>1. PICK x \in s : TRUE
    BY <1>2
  <2>2. IsFiniteSet(s) /\ IsFiniteSet(s \ {x})
    BY FS_Subset
  <2>3. /\ Total(F, s) = F[x] + Total(F, s \ {x})
        /\ Total(G, s) = G[x] + Total(G, s \ {x})
    BY <2>2, TotalRemove
  <2>4. /\ Total(F, s \ {x}) \in Int /\ Total(G, s \ {x}) \in Int
        /\ Total(F, s \ {x}) =< Total(G, s \ {x})
    BY <1>2, <2>2, TotalInt
  <2>5. \A a, b, c, d \in Int : a =< b /\ c =< d => a + c =< b + d
    OBVIOUS
  <2>6. Total(F, s) =< Total(G, s)
    BY <2>3, <2>4, <2>5, Zenon
  <2> QED
    BY <2>6
<1>3. \A s \in SUBSET S : s \in W
  <2> HIDE DEF W
  <2> QED
    BY <1>1, <1>2, ByRemoval
<1> QED
  BY <1>3

\* Fewer natural summands, smaller sum.
LEMMA TotalSubset ==
    ASSUME NEW S, IsFiniteSet(S), NEW F, \A x \in S : F[x] \in Nat, NEW T \in SUBSET S
    PROVE  /\ Total(F, S) \in Nat
           /\ Total(F, T) =< Total(F, S)
<1> DEFINE W == {s \in SUBSET S : Total(F, s) \in Nat /\ Total(F, s \cap T) =< Total(F, s)}
<1>1. {} \in W
  <2>1. {} \cap T = {} /\ Total(F, {}) = 0
    BY TotalPicks, FS_EmptySet
  <2> QED
    BY <2>1
<1>2. ASSUME NEW s \in SUBSET S, s # {}, \A y \in s : s \ {y} \in W PROVE s \in W
  <2>1. PICK x \in s : TRUE
    BY <1>2
  <2> DEFINE u == s \ {x}
  <2>2. /\ IsFiniteSet(s) /\ IsFiniteSet(u) /\ IsFiniteSet(s \cap T) /\ IsFiniteSet(u \cap T)
        /\ \A y \in s : F[y] \in Int
    BY FS_Subset
  <2>3. Total(F, s) = F[x] + Total(F, u)
    BY <2>2, TotalRemove
  <2>4. /\ Total(F, u) \in Nat /\ Total(F, u \cap T) \in Int
        /\ Total(F, u \cap T) =< Total(F, u)
    BY <1>2, <2>2, TotalInt
  <2>5. Total(F, s \cap T) \in {Total(F, u \cap T), F[x] + Total(F, u \cap T)}
    <3>1. CASE x \in T
      <4>1. (s \cap T) \ {x} = u \cap T /\ \A y \in s \cap T : F[y] \in Int
        BY <2>2
      <4>2. Total(F, s \cap T) = F[x] + Total(F, (s \cap T) \ {x})
        BY <2>2, <3>1, <4>1, TotalRemove
      <4> QED
        BY <4>1, <4>2
    <3>2. CASE x \notin T
      <4>1. s \cap T = u \cap T
        BY <3>2
      <4> QED
        BY <4>1, Zenon
    <3> QED
      BY <3>1, <3>2
  <2> HIDE DEF u
  <2>6. \A a, b, c \in Int : a \in Nat /\ b \in Nat /\ c =< b
            => a + b \in Nat /\ c =< a + b /\ a + c =< a + b
    OBVIOUS
  <2>7. Total(F, s) \in Nat /\ Total(F, s \cap T) =< Total(F, s)
    <3>1. F[x] \in Nat /\ F[x] \in Int /\ Total(F, u) \in Int
      BY <2>4
    <3> QED
      BY <2>3, <2>4, <2>5, <2>6, <3>1, Zenon
  <2> QED
    BY <2>7
<1>3. \A s \in SUBSET S : s \in W
  <2> HIDE DEF W
  <2> QED
    BY <1>1, <1>2, ByRemoval
<1>4. S \cap T = T
  OBVIOUS
<1> QED
  BY <1>3, <1>4

\* The elements that fall to n.
ShareOf(f, S, n) == {x \in S : f[x] = n}

\* What falls to each.
Shares(F, S, f, T) == [n \in T |-> Total(F, ShareOf(f, S, n))]

\* A sum is the sum of its shares.
LEMMA TotalShares ==
    ASSUME NEW S, IsFiniteSet(S), NEW F, \A x \in S : F[x] \in Int,
           NEW T, IsFiniteSet(T), NEW f \in [S -> T]
    PROVE  /\ Total(F, S) = Total(Shares(F, S, f, T), T)
           /\ \A n \in T : Shares(F, S, f, T)[n] \in Int
<1> DEFINE Of(s, n) == {x \in s : f[x] = n}
           Sh(s) == Shares(F, s, f, T)
           W == {s \in SUBSET S : Total(F, s) = Total(Sh(s), T)}
<1>1. \A s \in SUBSET S, n \in T : Sh(s)[n] = Total(F, Of(s, n)) /\ Sh(s)[n] \in Int
  <2> SUFFICES ASSUME NEW s \in SUBSET S, NEW n \in T
               PROVE  Sh(s)[n] = Total(F, Of(s, n)) /\ Sh(s)[n] \in Int
    OBVIOUS
  <2>1. Sh(s)[n] = Total(F, Of(s, n))
    BY DEF Shares, ShareOf
  <2>2. IsFiniteSet(Of(s, n)) /\ \A x \in Of(s, n) : F[x] \in Int
    BY FS_Subset
  <2>3. Total(F, Of(s, n)) \in Int
    <3> HIDE DEF Of
    <3> QED
      BY <2>2, TotalInt
  <2> QED
    BY <2>1, <2>3
<1>2. {} \in W
  <2>1. Total(F, {}) = 0
    BY TotalPicks, FS_EmptySet
  <2>2. \A n \in T : Sh({})[n] = 0
    <3>1. \A n \in T : Of({}, n) = {}
      OBVIOUS
    <3> HIDE DEF Of, Sh
    <3> QED
      BY <1>1, <2>1, <3>1
  <2>3. \A t \in SUBSET T : Total(Sh({}), t) = 0
    <3> HIDE DEF Sh
    <3> DEFINE V == {t \in SUBSET T : Total(Sh({}), t) = 0}
    <3>1. {} \in V
      BY TotalPicks, FS_EmptySet
    <3>2. ASSUME NEW t \in SUBSET T, t # {}, \A y \in t : t \ {y} \in V PROVE t \in V
      <4>1. Pick(t) \in t
        BY <3>2 DEF Pick
      <4>2. Total(Sh({}), t) = Sh({})[Pick(t)] + Total(Sh({}), t \ {Pick(t)})
        BY <3>2, FS_Subset, TotalPicks
      <4> QED
        BY <2>2, <3>2, <4>1, <4>2
    <3>3. \A t \in SUBSET T : t \in V
      <4> HIDE DEF V
      <4> QED
        BY <3>1, <3>2, ByRemoval
    <3> QED
      BY <3>3
  <2> HIDE DEF Sh
  <2> QED
    BY <2>1, <2>3
<1>3. ASSUME NEW s \in SUBSET S, s # {}, \A y \in s : s \ {y} \in W PROVE s \in W
  <2>1. PICK x \in s : TRUE
    BY <1>3
  <2> DEFINE u == s \ {x}
             m == f[x]
  <2>2. /\ IsFiniteSet(s) /\ IsFiniteSet(u) /\ u \in SUBSET S /\ m \in T
        /\ \A y \in s : F[y] \in Int
    BY FS_Subset
  <2>3. Total(F, s) = F[x] + Total(F, u)
    BY <2>2, TotalRemove
  <2>4. Total(F, u) = Total(Sh(u), T)
    BY <1>3
  <2>5. Sh(s)[m] = F[x] + Sh(u)[m]
    <3>1. x \in Of(s, m) /\ Of(s, m) \ {x} = Of(u, m)
      OBVIOUS
    <3>2. IsFiniteSet(Of(s, m)) /\ \A y \in Of(s, m) : F[y] \in Int
      BY FS_Subset
    <3> HIDE DEF Of, Sh
    <3>3. Total(F, Of(s, m)) = F[x] + Total(F, Of(s, m) \ {x})
      BY <3>1, <3>2, TotalRemove
    <3> HIDE DEF u, m
    <3> QED
      BY <1>1, <2>2, <3>1, <3>3
  <2>6. \A n \in T \ {m} : Sh(s)[n] = Sh(u)[n]
    <3>1. \A n \in T \ {m} : Of(s, n) = Of(u, n)
      OBVIOUS
    <3> HIDE DEF Of, Sh
    <3> QED
      BY <1>1, <2>2, <3>1
  <2>7. \A n \in T : Sh(s)[n] \in Int /\ Sh(u)[n] \in Int
    <3> HIDE DEF Sh, Of, u
    <3> QED
      BY <1>1, <2>2
  <2> HIDE DEF Sh, Of, u, m, W
  <2>8. Total(Sh(s), T) = Sh(s)[m] + Total(Sh(s), T \ {m})
    BY <2>2, <2>7, TotalRemove
  <2>9. Total(Sh(u), T) = Sh(u)[m] + Total(Sh(u), T \ {m})
    BY <2>2, <2>7, TotalRemove
  <2>10. Total(Sh(s), T \ {m}) = Total(Sh(u), T \ {m})
    BY <2>6, FS_Subset, TotalSame
  <2>11. Total(Sh(u), T \ {m}) \in Int
    BY <2>7, FS_Subset, TotalInt
  <2>12. \A a, b, c \in Int : a + (b + c) = (a + b) + c
    OBVIOUS
  <2>13. Total(F, s) = Total(Sh(s), T)
    <3>1. F[x] \in Int /\ Sh(u)[m] \in Int
      BY <2>1, <2>2, <2>7
    <3> DEFINE rest == Total(Sh(u), T \ {m})
    <3>2. F[x] + (Sh(u)[m] + rest) = (F[x] + Sh(u)[m]) + rest
      BY <2>11, <2>12, <3>1, Zenon
    <3> QED
      BY <2>3, <2>4, <2>5, <2>8, <2>9, <2>10, <3>2, Zenon
  <2> QED
    BY <2>13 DEF W
<1>4. \A s \in SUBSET S : s \in W
  <2> HIDE DEF W
  <2> QED
    BY <1>2, <1>3, ByRemoval
<1> QED
  BY <1>1, <1>4

\* Nothing adds up to nothing.
LEMMA TotalZero ==
    ASSUME NEW S, IsFiniteSet(S), NEW F, \A x \in S : F[x] = 0
    PROVE  Total(F, S) = 0
<1> DEFINE W == {s \in SUBSET S : Total(F, s) = 0}
<1>1. {} \in W
  BY TotalPicks, FS_EmptySet
<1>2. ASSUME NEW s \in SUBSET S, s # {}, \A y \in s : s \ {y} \in W PROVE s \in W
  <2>1. Pick(s) \in s
    BY <1>2 DEF Pick
  <2>2. Total(F, s) = F[Pick(s)] + Total(F, s \ {Pick(s)})
    BY <1>2, FS_Subset, TotalPicks
  <2> QED
    BY <1>2, <2>1, <2>2
<1>3. \A s \in SUBSET S : s \in W
  <2> HIDE DEF W
  <2> QED
    BY <1>1, <1>2, ByRemoval
<1> QED
  BY <1>3

\* Two sets without a common element.
LEMMA TotalUnion ==
    ASSUME NEW S, IsFiniteSet(S), NEW T, IsFiniteSet(T), S \cap T = {},
           NEW F, \A x \in S \cup T : F[x] \in Int
    PROVE  Total(F, S \cup T) = Total(F, S) + Total(F, T)
<1> DEFINE W == {t \in SUBSET T : Total(F, S \cup t) = Total(F, S) + Total(F, t)}
<1>1. {} \in W
  <2>1. Total(F, {}) = 0 /\ S \cup {} = S /\ Total(F, S) \in Int
    BY TotalPicks, TotalInt, FS_EmptySet
  <2>2. Total(F, S \cup {}) = Total(F, S) + Total(F, {})
    BY <2>1
  <2> QED
    BY <2>2
<1>2. ASSUME NEW t \in SUBSET T, t # {}, \A y \in t : t \ {y} \in W PROVE t \in W
  <2>1. PICK x \in t : TRUE
    BY <1>2
  <2>2. IsFiniteSet(t) /\ IsFiniteSet(t \ {x}) /\ IsFiniteSet(S \cup t)
    BY FS_Subset, FS_Union
  <2>3. (S \cup t) \ {x} = S \cup (t \ {x})
    BY <2>1
  <2>4. Total(F, t) = F[x] + Total(F, t \ {x})
    BY <2>1, <2>2, TotalRemove
  <2>5. Total(F, S \cup t) = F[x] + Total(F, S \cup (t \ {x}))
    <3>1. x \in S \cup t /\ \A y \in S \cup t : F[y] \in Int
      BY <2>1
    <3>2. Total(F, S \cup t) = F[x] + Total(F, (S \cup t) \ {x})
      BY <2>2, <3>1, TotalRemove
    <3> QED
      BY <2>3, <3>2
  <2>6. Total(F, S \cup (t \ {x})) = Total(F, S) + Total(F, t \ {x})
    BY <1>2, <2>1
  <2>7. F[x] \in Int /\ Total(F, S) \in Int /\ Total(F, t \ {x}) \in Int
    BY <2>1, <2>2, TotalInt
  <2>8. \A a, b, c \in Int : a + (b + c) = b + (a + c)
    OBVIOUS
  <2>9. F[x] + (Total(F, S) + Total(F, t \ {x})) = Total(F, S) + (F[x] + Total(F, t \ {x}))
    BY <2>7, <2>8, Zenon
  <2>10. Total(F, S \cup t) = Total(F, S) + Total(F, t)
    BY <2>4, <2>5, <2>6, <2>9, Zenon
  <2> QED
    BY <2>10
<1>3. \A t \in SUBSET T : t \in W
  <2> HIDE DEF W
  <2> QED
    BY <1>1, <1>2, ByRemoval
<1> QED
  BY <1>3

\* A sum of differences is the difference of the sums.
LEMMA TotalLess ==
    ASSUME NEW S, IsFiniteSet(S), NEW F, NEW G, NEW H,
           \A x \in S : F[x] \in Int /\ G[x] \in Int /\ H[x] = F[x] - G[x]
    PROVE  Total(H, S) = Total(F, S) - Total(G, S)
<1> DEFINE W == {s \in SUBSET S : Total(H, s) = Total(F, s) - Total(G, s)}
<1>1. {} \in W
  <2>1. Total(F, {}) = 0 /\ Total(G, {}) = 0 /\ Total(H, {}) = 0
    BY TotalPicks, FS_EmptySet
  <2> QED
    BY <2>1
<1>2. ASSUME NEW s \in SUBSET S, s # {}, \A y \in s : s \ {y} \in W PROVE s \in W
  <2>1. PICK x \in s : TRUE
    BY <1>2
  <2>2. /\ IsFiniteSet(s) /\ IsFiniteSet(s \ {x})
        /\ \A y \in s : F[y] \in Int /\ G[y] \in Int /\ H[y] \in Int
    BY FS_Subset
  <2>3. /\ Total(F, s) = F[x] + Total(F, s \ {x})
        /\ Total(G, s) = G[x] + Total(G, s \ {x})
        /\ Total(H, s) = H[x] + Total(H, s \ {x})
    BY <2>2, TotalRemove
  <2>4. /\ Total(H, s \ {x}) = Total(F, s \ {x}) - Total(G, s \ {x})
        /\ H[x] = F[x] - G[x]
    BY <1>2, <2>1
  <2>5. /\ Total(F, s \ {x}) \in Int /\ Total(G, s \ {x}) \in Int
        /\ F[x] \in Int /\ G[x] \in Int
    BY <2>2, TotalInt
  <2>6. (F[x] - G[x]) + (Total(F, s \ {x}) - Total(G, s \ {x}))
            = (F[x] + Total(F, s \ {x})) - (G[x] + Total(G, s \ {x}))
    BY <2>5
  <2>7. Total(H, s) = Total(F, s) - Total(G, s)
    BY <2>3, <2>4, <2>6, Zenon
  <2> QED
    BY <2>7
<1>3. \A s \in SUBSET S : s \in W
  <2> HIDE DEF W
  <2> QED
    BY <1>1, <1>2, ByRemoval
<1> QED
  BY <1>3

\* Units that fit into the room in total can be placed one by one.
LEMMA UnitsFit ==
    ASSUME NEW S, IsFiniteSet(S), NEW F, \A x \in S : F[x] = 1,
           NEW T, IsFiniteSet(T), NEW room, \A n \in T : room[n] \in Int,
           Total(F, S) =< Total(room, T)
    PROVE  \E f \in [S -> T] : \A n \in T :
               ShareOf(f, S, n) # {} => Total(F, ShareOf(f, S, n)) =< room[n]
<1> DEFINE Of(s, f, n) == {x \in s : f[x] = n}
           Fits(s, f) == \A n \in T : Of(s, f, n) # {} => Total(F, Of(s, f, n)) =< room[n]
           W == {s \in SUBSET S : Total(F, s) =< Total(room, T) => \E f \in [s -> T] : Fits(s, f)}
<1>1. {} \in W
  <2>1. [x \in {} |-> x] \in [{} -> T] /\ Fits({}, [x \in {} |-> x])
    OBVIOUS
  <2> HIDE DEF Fits
  <2> QED
    BY <2>1
<1>2. ASSUME NEW s \in SUBSET S, s # {}, \A y \in s : s \ {y} \in W PROVE s \in W
  <2>1. PICK x \in s : TRUE
    BY <1>2
  <2> DEFINE u == s \ {x}
  <2>2. /\ IsFiniteSet(s) /\ IsFiniteSet(u)
        /\ \A y \in S : F[y] \in Int
    BY FS_Subset
  <2>3. Total(F, s) = 1 + Total(F, u)
    BY <2>1, <2>2, TotalRemove
  <2>4. SUFFICES ASSUME Total(F, s) =< Total(room, T) PROVE \E f \in [s -> T] : Fits(s, f)
    BY Zenon
  <2>5. Total(F, u) \in Int /\ Total(room, T) \in Int
    BY <2>2, TotalInt
  <2>6. Total(F, u) < Total(room, T)
    <3> HIDE DEF u
    <3> QED
      BY <2>3, <2>4, <2>5
  <2>7. PICK f \in [u -> T] : Fits(u, f)
    <3>1. u \in W
      BY <1>2, <2>1
    <3> HIDE DEF u, Fits
    <3> QED
      BY <2>5, <2>6, <3>1
  <2>8. PICK n \in T : Total(F, Of(u, f, n)) < room[n]
    <3> DEFINE G == Shares(F, u, f, T)
    <3>1. Total(F, u) = Total(G, T) /\ \A m \in T : G[m] \in Int
      BY <2>2, TotalShares
    <3>2. \A m \in T : G[m] = Total(F, Of(u, f, m))
      BY DEF Shares, ShareOf
    <3> HIDE DEF Of, u, G
    <3>3. SUFFICES ASSUME \A m \in T : room[m] =< G[m] PROVE FALSE
      BY <3>1, <3>2
    <3>4. Total(room, T) =< Total(G, T)
      BY <3>1, <3>3, TotalAtMost
    <3> QED
      BY <2>5, <2>6, <3>1, <3>4
  <2> DEFINE h == [y \in s |-> IF y = x THEN n ELSE f[y]]
  <2>9. h \in [s -> T]
    OBVIOUS
  <2>10. Fits(s, h)
    <3> SUFFICES ASSUME NEW m \in T, Of(s, h, m) # {} PROVE Total(F, Of(s, h, m)) =< room[m]
      OBVIOUS
    <3>1. CASE m = n
      <4>1. Of(s, h, m) = Of(u, f, n) \cup {x} /\ x \notin Of(u, f, n)
        BY <2>1, <3>1
      <4>2. IsFiniteSet(Of(u, f, n)) /\ (\A y \in Of(u, f, n) : F[y] \in Int) /\ F[x] = 1 /\ F[x] \in Int
        BY <2>1, <2>2, FS_Subset
      <4> HIDE DEF Of, h, u
      <4>3. Total(F, Of(s, h, m)) = Total(F, Of(u, f, n)) + F[x] /\ Total(F, Of(u, f, n)) \in Int
        BY <4>1, <4>2, TotalAdd, TotalInt
      <4> QED
        BY <2>8, <3>1, <4>2, <4>3
    <3>2. CASE m # n
      <4>1. Of(s, h, m) = Of(u, f, m)
        BY <3>2
      <4> HIDE DEF Of, h, u
      <4> QED
        BY <2>7, <4>1
    <3> QED
      BY <3>1, <3>2
  <2> HIDE DEF h, Fits
  <2> QED
    BY <2>9, <2>10
<1>3. \A s \in SUBSET S : s \in W
  <2> HIDE DEF W
  <2> QED
    BY <1>1, <1>2, ByRemoval
<1> QED
  BY <1>3 DEF ShareOf

-----------------------------------------------------------------------------
(* What is requested and what there is, in terms of sums.                  *)

\* What each pod asks for, and the size of each target.
Asks(r) == [p \in Pods |-> kind[p].requests[r]]
Size(r) == [n \in Targets |-> allocatable[n][r]]

\* Pods counted on the targets.
CountedThere == counted \ On(Old, counted)

\* What is found available is the size of the listed targets less what was
\* counted on them, and what is found needed is what was counted on the old node.
Tallied ==
    \A r \in Resource :
        /\ available[r] = Total(Size(r), ListedTargets) - Total(Asks(r), CountedThere)
        /\ Old \in listed => needed[r] = Total(Asks(r), On(Old, counted))

\* Nothing is listed twice, and the answer is the comparison of the two sums.
Stages ==
    /\ todo \cap listed = {}
    /\ Old \in listed => pc \in {"enough", "short"}
    /\ pc = "enough" /\ Old \in listed => Enough(needed)
    /\ pc = "short" => Old \in listed /\ ~Enough(needed)

\* Pods have come at least as far as watch caches say, and have a place from
\* when they are bound.
Lives ==
    \A p \in Pods : /\ known[p] =< stage[p]
                    /\ loc[p] = Unplaced <=> stage[p] = Pending

\* Only pods of listed nodes were counted, and no pod of theirs was missed that
\* runs and that every watch cache knows.
Seen ==
    /\ \A p \in counted : loc[p] \in listed /\ (loc[p] = Old => ~kind[p].daemon)
    /\ \A p \in Alive \ Newcomers :
           loc[p] \in listed /\ (loc[p] = Old => ~kind[p].daemon) => p \in counted

\* The inductive invariant.
IInv == TypeOK /\ Stages /\ Lives /\ Seen /\ Tallied

\* Requests are natural numbers, and so are their sums.
LEMMA Amounts ==
    ASSUME TypeOK, NEW r \in Resource
    PROVE  /\ \A p \in Pods : Asks(r)[p] \in Nat /\ Asks(r)[p] \in Int
           /\ \A s \in SUBSET Pods : /\ IsFiniteSet(s)
                                     /\ Total(Asks(r), s) \in Nat
                                     /\ Total(Asks(r), s) \in Int
<1>1. \A p \in Pods : Asks(r)[p] \in Nat
  BY ResourcesAssumption DEF Asks, Kind, Amount, TypeOK
<1>2. ASSUME NEW s \in SUBSET Pods PROVE IsFiniteSet(s) /\ Total(Asks(r), s) \in Nat
  <2>1. IsFiniteSet(s)
    BY ResourcesAssumption, FS_Subset
  <2> QED
    BY <1>1, <2>1, TotalSubset
<1> QED
  BY <1>1, <1>2

\* Sizes are natural numbers, and targets can be added up.
LEMMA Sizes ==
    ASSUME TypeOK, NEW r \in Resource
    PROVE  /\ \A n \in Targets : Size(r)[n] = allocatable[n][r] /\ Size(r)[n] \in Int
           /\ ListedTargets \in SUBSET Targets
           /\ \A s \in SUBSET Targets : IsFiniteSet(s) /\ Total(Size(r), s) \in Int
<1>1. \A n \in Targets : Size(r)[n] = allocatable[n][r] /\ Size(r)[n] \in Int
  BY ResourcesAssumption DEF Size, Amount, TypeOK
<1>2. \A s \in SUBSET Targets : IsFiniteSet(s)
  BY ResourcesAssumption, FS_Subset
<1>3. ListedTargets \in SUBSET Targets
  BY DEF TypeOK, ListedTargets
<1> QED
  BY <1>1, <1>2, <1>3, TotalInt

\* Requested, as a sum.
LEMMA RequestedIs ==
    ASSUME TypeOK, NEW pods \in SUBSET Pods, NEW r \in Resource
    PROVE  Requested(pods)[r] = Total(Asks(r), pods)
<1> DEFINE Folds(g) == g = [s \in SUBSET pods |->
                               IF s = {} THEN 0 ELSE kind[Pick(s)].requests[r] + g[s \ {Pick(s)}]]
<1>1. Requested(pods)[r] = (CHOOSE g : Folds(g))[pods]
  BY DEF Requested, MapThenSumSet, MapThenFoldSet, Pick
<1>2. \A g : Folds(g) <=> Adds(g, Asks(r), pods)
  <2>1. \A s \in SUBSET pods : s # {} => Asks(r)[Pick(s)] = kind[Pick(s)].requests[r]
    BY DEF Asks, Pick
  <2> QED
    BY <2>1 DEF Adds
<1>3. IsFiniteSet(pods)
  BY ResourcesAssumption, FS_Subset
<1>4. Folds(CHOOSE g : Folds(g))
  <2>1. \E g : Folds(g)
    BY <1>2, <1>3, AddsExists
  <2> HIDE DEF Folds
  <2> QED
    BY <2>1, Zenon
<1> DEFINE g == CHOOSE g : Folds(g)
<1>5. Adds(g, Asks(r), pods)
  BY <1>2, <1>4
<1> HIDE DEF Folds, g
<1>6. Total(Asks(r), pods) = g[pods]
  BY <1>3, <1>5, TotalAdds
<1> QED
  BY <1>1, <1>6 DEF g

\* Sets of pods without a common pod add up.
LEMMA Together ==
    ASSUME TypeOK, NEW r \in Resource, NEW S \in SUBSET Pods, NEW T \in SUBSET Pods, S \cap T = {}
    PROVE  Total(Asks(r), S \cup T) = Total(Asks(r), S) + Total(Asks(r), T)
<1>1. IsFiniteSet(S) /\ IsFiniteSet(T) /\ \A p \in S \cup T : Asks(r)[p] \in Int
  BY Amounts
<1> QED
  BY <1>1, TotalUnion

\* A larger set of pods asks for no less.
LEMMA Larger ==
    ASSUME TypeOK, NEW r \in Resource, NEW S \in SUBSET Pods, NEW T \in SUBSET S
    PROVE  Total(Asks(r), T) =< Total(Asks(r), S)
<1>1. IsFiniteSet(S) /\ \A p \in S : Asks(r)[p] \in Nat
  BY Amounts
<1> QED
  BY <1>1, TotalSubset

-----------------------------------------------------------------------------
(* The invariant.                                                          *)

\* The invariant holds at the start.
LEMMA InitInv == Init => IInv
<1> SUFFICES ASSUME Init PROVE IInv
  OBVIOUS
<1>1. TypeOK
  BY DEF Init, TypeOK, None, Amount, Stage, Pending, Running, Over, Gone
<1>2. Stages /\ Seen
  BY DEF Init, Stages, Seen
<1>3. Lives
  BY <1>1 DEF Init, Lives, TypeOK, Stage
<1>4. Tallied
  <2> SUFFICES ASSUME NEW r \in Resource
               PROVE  available[r] = Total(Size(r), ListedTargets) - Total(Asks(r), CountedThere)
    BY DEF Tallied, Init
  <2>1. ListedTargets = {} /\ CountedThere = {} /\ available[r] = 0
    BY DEF Init, None, ListedTargets, CountedThere
  <2>2. Total(Size(r), {}) = 0 /\ Total(Asks(r), {}) = 0
    BY TotalPicks, FS_EmptySet
  <2> QED
    BY <2>1, <2>2
<1> QED
  BY <1>1, <1>2, <1>3, <1>4 DEF IInv

\* What a listing counts on a node are pods bound there, among them each that
\* runs and that every watch cache knows.
LEMMA Listed ==
    ASSUME TypeOK, Lives, NEW view \in Views, NEW n \in Targets \cup {Old}
    PROVE  /\ Counted(view, n) \in SUBSET Pods
           /\ \A p \in Counted(view, n) : loc[p] = n
           /\ \A p \in Alive \ Newcomers : loc[p] = n => p \in Counted(view, n)
<1>1. ASSUME NEW p \in Alive \ Newcomers, loc[p] = n PROVE p \in Counted(view, n)
  <2>1. /\ p \in Pods /\ stage[p] = Running /\ known[p] # Pending /\ known[p] \in Stage
        /\ view[p] \in Stage /\ known[p] =< view[p] /\ view[p] =< stage[p]
    BY DEF Alive, Newcomers, Views, TypeOK
  <2>2. view[p] = Running
    BY <2>1 DEF Stage, Pending, Running, Over, Gone
  <2> QED
    BY <1>1, <2>1, <2>2 DEF Counted, Listing, Running, Over
<1> QED
  BY <1>1 DEF Counted, Listing

\* A target that is listed brings its size, less what is counted on it.
LEMMA ListTargetInv ==
    ASSUME IInv, NEW n \in Targets, pc = "targets", ListTarget(n)
    PROVE  IInv'
<1>1. /\ TypeOK /\ Stages /\ Lives /\ Seen /\ Tallied
      /\ n \in todo /\ n \notin listed /\ n # Old /\ Old \notin listed
      /\ UNCHANGED <<allocatable, kind, loc, stage, known, pc, needed>>
      /\ todo' = todo \ {n} /\ listed' = listed \cup {n}
  BY ResourcesAssumption DEF IInv, Stages, ListTarget, surroundings
<1>2. PICK view \in Views :
          /\ available' = [r \in Resource |->
                             available[r] + allocatable[n][r] - Requested(Counted(view, n))[r]]
          /\ counted' = counted \cup Counted(view, n)
  BY DEF ListTarget
<1> DEFINE c == Counted(view, n)
<1>3. /\ c \in SUBSET Pods /\ \A p \in c : loc[p] = n
      /\ \A p \in Alive \ Newcomers : loc[p] = n => p \in c
  BY <1>1, Listed
<1> HIDE DEF c
<1>4. /\ ListedTargets' = ListedTargets \cup {n} /\ n \notin ListedTargets
      /\ CountedThere' = CountedThere \cup c /\ CountedThere \cap c = {}
      /\ CountedThere \in SUBSET Pods
  <2>1. \A p \in counted : p \in Pods /\ loc[p] # n
    BY <1>1 DEF Seen, TypeOK
  <2> QED
    BY <1>1, <1>2, <1>3, <2>1 DEF ListedTargets, CountedThere, On, c
<1>5. ASSUME NEW r \in Resource
      PROVE  /\ available'[r] \in Int
             /\ available'[r] = Total(Size(r)', ListedTargets') - Total(Asks(r)', CountedThere')
  <2>1. Size(r)' = Size(r) /\ Asks(r)' = Asks(r)
    BY <1>1 DEF Size, Asks
  <2>2. available'[r] = available[r] + Size(r)[n] - Total(Asks(r), c)
    BY <1>1, <1>2, <1>3, Sizes, RequestedIs DEF c
  <2>3. available[r] = Total(Size(r), ListedTargets) - Total(Asks(r), CountedThere)
    BY <1>1 DEF Tallied
  <2>4. Total(Asks(r), CountedThere \cup c) = Total(Asks(r), CountedThere) + Total(Asks(r), c)
    BY <1>1, <1>3, <1>4, Together
  <2>5. Total(Size(r), ListedTargets \cup {n}) = Total(Size(r), ListedTargets) + Size(r)[n]
    <3>1. /\ IsFiniteSet(ListedTargets) /\ Size(r)[n] \in Int
          /\ \A m \in ListedTargets : Size(r)[m] \in Int
      BY <1>1, Sizes
    <3> QED
      BY <1>4, <3>1, TotalAdd
  <2>6. /\ available[r] \in Int /\ Size(r)[n] \in Int /\ Total(Size(r), ListedTargets) \in Int
        /\ Total(Asks(r), c) \in Int /\ Total(Asks(r), CountedThere) \in Int
    BY <1>1, <1>3, <1>4, Sizes, Amounts DEF TypeOK
  <2>7. available'[r] \in Int
    BY <2>2, <2>6
  <2>8. (Total(Size(r), ListedTargets) - Total(Asks(r), CountedThere)) + Size(r)[n] - Total(Asks(r), c)
            = (Total(Size(r), ListedTargets) + Size(r)[n]) - (Total(Asks(r), CountedThere) + Total(Asks(r), c))
    BY <2>6
  <2>9. available'[r] = Total(Size(r), ListedTargets \cup {n}) - Total(Asks(r), CountedThere \cup c)
    BY <2>2, <2>3, <2>4, <2>5, <2>8, Zenon
  <2> QED
    BY <1>4, <2>1, <2>7, <2>9, Zenon
<1>6. TypeOK'
  <2>1. available' \in [Resource -> Int]
    BY <1>2, <1>5
  <2>2. counted' \subseteq Pods
    BY <1>1, <1>2, <1>3 DEF TypeOK, c
  <2> QED
    BY <1>1, <2>1, <2>2 DEF TypeOK
<1>7. Stages' /\ Lives'
  BY <1>1 DEF Stages, Lives, Enough
<1>8. Seen'
  <2>1. Alive' = Alive /\ Newcomers' = Newcomers
    BY <1>1 DEF Alive, Newcomers
  <2> QED
    BY <1>1, <1>2, <1>3, <2>1 DEF Seen, c
<1>9. Tallied'
  BY <1>1, <1>5 DEF Tallied
<1> QED
  BY <1>6, <1>7, <1>8, <1>9 DEF IInv

\* What leaves the two sums and what they were made of alone keeps the tally.
LEMMA TallyStays ==
    ASSUME Tallied, UNCHANGED <<allocatable, kind, available, needed, listed, counted>>,
           \A p \in counted : loc'[p] = loc[p]
    PROVE  Tallied'
<1>1. /\ ListedTargets' = ListedTargets
      /\ On(Old, counted)' = On(Old, counted)
      /\ CountedThere' = CountedThere
  BY DEF ListedTargets, On, CountedThere
<1>2. \A r \in Resource : Size(r)' = Size(r) /\ Asks(r)' = Asks(r)
  BY DEF Size, Asks
<1> QED
  BY <1>1, <1>2 DEF Tallied

\* A node that is left out, and the end of the targets, change no sum.
LEMMA OtherStepInv ==
    ASSUME IInv, UNCHANGED <<surroundings, available, needed, listed, counted>>,
           \/ todo' \subseteq todo /\ pc' = pc
           \/ todo' = todo /\ pc = "targets" /\ pc' = "old"
           \/ todo' = todo /\ pc = "old" /\ pc' = "enough"
    PROVE  IInv'
<1>1. TypeOK' /\ Lives'
  BY DEF IInv, TypeOK, Lives, surroundings
<1>2. Stages'
  BY DEF IInv, Stages, Enough
<1>3. Seen'
  <2>1. Alive' = Alive /\ Newcomers' = Newcomers
    BY DEF Alive, Newcomers, surroundings
  <2> QED
    BY <2>1 DEF IInv, Seen, surroundings
<1>4. Tallied'
  BY TallyStays DEF IInv, surroundings
<1> QED
  BY <1>1, <1>2, <1>3, <1>4 DEF IInv

\* The old node is listed: what is needed is compared with what is available.
LEMMA ListOldInv ==
    ASSUME IInv, ListOld
    PROVE  IInv'
<1>1. /\ TypeOK /\ Stages /\ Lives /\ Seen /\ Tallied
      /\ UNCHANGED <<allocatable, kind, loc, stage, known, todo, available>>
      /\ listed' = listed \cup {Old} /\ pc = "old" /\ Old \notin listed
      /\ pc' \in {"enough", "short"} /\ (pc' = "enough" <=> Enough(needed'))
  BY DEF IInv, ListOld, surroundings, Stages
<1>2. PICK view \in Views : /\ needed' = Requested(Leaving(view))
                            /\ counted' = counted \cup Leaving(view)
  BY DEF ListOld
<1> DEFINE c == Leaving(view)
<1>3. /\ c \in SUBSET Pods /\ \A p \in c : loc[p] = Old /\ ~kind[p].daemon
      /\ \A p \in Alive \ Newcomers : loc[p] = Old /\ ~kind[p].daemon => p \in c
  BY <1>1, Listed DEF Leaving
<1> HIDE DEF c
<1>4. /\ ListedTargets' = ListedTargets
      /\ On(Old, counted)' = c /\ CountedThere' = CountedThere
  <2>1. \A p \in counted : loc[p] # Old
    BY <1>1 DEF Seen
  <2> QED
    BY <1>1, <1>2, <1>3, <2>1 DEF ListedTargets, CountedThere, On, c
<1>5. ASSUME NEW r \in Resource
      PROVE  /\ needed'[r] = Total(Asks(r), c) /\ needed'[r] \in Nat
             /\ Size(r)' = Size(r) /\ Asks(r)' = Asks(r)
  <2>1. needed'[r] = Total(Asks(r), c)
    BY <1>1, <1>2, <1>3, RequestedIs DEF c
  <2>2. Total(Asks(r), c) \in Nat
    BY <1>1, <1>3, Amounts
  <2> QED
    BY <1>1, <2>1, <2>2 DEF Size, Asks
<1>6. TypeOK'
  <2>1. needed' \in [Resource -> Nat]
    BY <1>2, <1>5 DEF Requested
  <2>2. counted' \subseteq Pods
    BY <1>1, <1>2, <1>3 DEF TypeOK, c
  <2> QED
    BY <1>1, <2>1, <2>2 DEF TypeOK, Amount
<1>7. Stages'
  <2>1. Enough(needed)' <=> Enough(needed')
    BY <1>1 DEF Enough
  <2>2. todo \subseteq Targets /\ Old \notin Targets
    BY <1>1, ResourcesAssumption DEF TypeOK
  <2> QED
    BY <1>1, <2>1, <2>2 DEF Stages
<1>8. Lives'
  BY <1>1 DEF Lives
<1>9. Seen'
  <2>1. Alive' = Alive /\ Newcomers' = Newcomers
    BY <1>1 DEF Alive, Newcomers
  <2> QED
    BY <1>1, <1>2, <1>3, <2>1 DEF Seen, c
<1>10. Tallied'
  BY <1>1, <1>4, <1>5 DEF Tallied
<1> QED
  BY <1>6, <1>7, <1>8, <1>9, <1>10 DEF IInv

\* A pod that is bound was not counted, and no watch cache must know it.
LEMMA ArriveInv ==
    ASSUME IInv, NEW p \in Pods, NEW n \in Targets \cup {Old}, Arrive(p, n)
    PROVE  IInv'
<1>1. /\ TypeOK /\ Stages /\ Lives /\ Seen /\ Tallied
      /\ UNCHANGED <<allocatable, kind, known, pc, todo, available, needed, listed, counted>>
      /\ stage[p] = Pending /\ n # Unplaced
      /\ stage' = [stage EXCEPT ![p] = Running] /\ loc' = [loc EXCEPT ![p] = n]
  BY ResourcesAssumption DEF IInv, Arrive, check
<1>2. known[p] = Pending /\ loc[p] = Unplaced
  <2>1. known[p] \in Stage /\ known[p] =< Pending
    BY <1>1 DEF Lives, TypeOK
  <2> QED
    BY <1>1, <2>1 DEF Lives, Stage, Pending, Gone
<1>3. p \notin counted /\ \A q \in counted : loc'[q] = loc[q]
  <2>1. \A q \in counted : q \in Pods /\ loc[q] \in listed /\ loc[q] # Unplaced
    BY <1>1, ResourcesAssumption DEF Seen, TypeOK
  <2> QED
    BY <1>1, <1>2, <2>1 DEF TypeOK
<1>4. TypeOK'
  BY <1>1 DEF TypeOK, Stage, Pending, Running, Gone
<1>5. Lives'
  BY <1>1, <1>2 DEF Lives, TypeOK, Pending, Running
<1>6. Stages'
  BY <1>1 DEF Stages, Enough
<1>7. Seen'
  <2>1. \A q \in Alive' \ Newcomers' : q # p /\ q \in Alive \ Newcomers /\ loc'[q] = loc[q]
    BY <1>1, <1>2 DEF Alive, Newcomers, TypeOK
  <2> QED
    BY <1>1, <1>3, <2>1 DEF Seen
<1>8. Tallied'
  BY <1>1, <1>3, TallyStays
<1> QED
  BY <1>4, <1>5, <1>6, <1>7, <1>8 DEF IInv

\* A pod that ends or goes runs no longer.
LEMMA LeaveInv ==
    ASSUME IInv, NEW p \in Pods, Leave(p)
    PROVE  IInv'
<1>1. /\ TypeOK /\ Stages /\ Lives /\ Seen /\ Tallied
      /\ UNCHANGED <<allocatable, kind, loc, known, pc, todo, available, needed, listed, counted>>
      /\ stage[p] \in {Running, Over} /\ stage' = [stage EXCEPT ![p] = @ + 1]
  BY DEF IInv, Leave, check
<1>2. /\ stage'[p] = stage[p] + 1 /\ stage[p] \in {1, 2}
      /\ \A q \in Pods : q # p => stage'[q] = stage[q]
  BY <1>1 DEF TypeOK, Running, Over
<1>3. TypeOK'
  <2>1. stage' \in [Pods -> Stage]
    BY <1>1, <1>2 DEF TypeOK, Stage, Pending, Gone
  <2> QED
    BY <1>1, <2>1 DEF TypeOK
<1>4. Lives'
  <2>1. \A q \in Pods : known[q] \in Nat /\ stage[q] \in Nat
    BY <1>1 DEF TypeOK, Stage, Pending, Gone
  <2> QED
    BY <1>1, <1>2, <2>1 DEF Lives, Pending
<1>5. Stages'
  BY <1>1 DEF Stages, Enough
<1>6. Seen'
  <2>1. Alive' \ Newcomers' \subseteq Alive \ Newcomers
    BY <1>1, <1>2 DEF Alive, Newcomers, Running
  <2> QED
    BY <1>1, <2>1 DEF Seen
<1>7. Tallied'
  BY <1>1, TallyStays
<1> QED
  BY <1>3, <1>4, <1>5, <1>6, <1>7 DEF IInv

\* Every step keeps the invariant.
LEMMA NextInv == IInv /\ [Next]_vars => IInv'
<1> SUFFICES ASSUME IInv, [Next]_vars PROVE IInv'
  OBVIOUS
<1>1. ASSUME NEW n \in Targets, pc = "targets", ListTarget(n) PROVE IInv'
  BY <1>1, ListTargetInv
<1>2. ASSUME NEW n \in Targets, SkipTarget(n) PROVE IInv'
  BY <1>2, OtherStepInv DEF SkipTarget
<1>3. CASE EndOfTargets
  BY <1>3, OtherStepInv DEF EndOfTargets
<1>4. CASE ListOld
  BY <1>4, ListOldInv
<1>5. CASE AssumeEnough
  BY <1>5, OtherStepInv DEF AssumeEnough
<1>6. ASSUME NEW p \in Pods, NEW n \in Targets \cup {Old}, Arrive(p, n) PROVE IInv'
  BY <1>6, ArriveInv
<1>7. ASSUME NEW p \in Pods, Leave(p) PROVE IInv'
  BY <1>7, LeaveInv
<1>8. CASE UNCHANGED vars
  BY <1>8, OtherStepInv DEF vars, surroundings
<1> QED
  BY <1>1, <1>2, <1>3, <1>4, <1>5, <1>6, <1>7, <1>8 DEF Next

\* The invariant holds always.
LEMMA Invariance == Spec => []IInv
BY InitInv, NextInv, PTL DEF Spec

-----------------------------------------------------------------------------
(* What the check says.                                                    *)

\* Every variable of the check stays in its type, for every cluster.
THEOREM TypeCorrect == Spec => []TypeOK
<1>1. IInv => TypeOK
  BY DEF IInv
<1> QED
  BY <1>1, Invariance, PTL

\* What each target has left beside the pods that run.
RoomOf(r) == [n \in Targets |-> allocatable[n][r] - Requested(On(n, Alive))[r]]

\* The room the property speaks of, as a sum.
LEMMA RoomIs ==
    ASSUME TypeOK, NEW r \in Resource
    PROVE  /\ MapThenSumSet(LAMBDA n : allocatable[n][r] - Requested(On(n, Alive))[r], ListedTargets)
                 = Total(RoomOf(r), ListedTargets)
           /\ \A n \in Targets : RoomOf(r)[n] \in Int
           /\ IsFiniteSet(ListedTargets) /\ ListedTargets \in SUBSET Targets
           /\ Total(RoomOf(r), ListedTargets) \in Int
<1> DEFINE S == ListedTargets
           Folds(g) == g = [s \in SUBSET S |->
                               IF s = {} THEN 0
                               ELSE allocatable[Pick(s)][r] - Requested(On(Pick(s), Alive))[r]
                                      + g[s \ {Pick(s)}]]
           m == MapThenSumSet(LAMBDA n : allocatable[n][r] - Requested(On(n, Alive))[r], S)
<1>1. S \in SUBSET Targets /\ IsFiniteSet(S)
  BY Sizes
<1>2. m = (CHOOSE g : Folds(g))[S]
  BY Zenon DEF MapThenSumSet, MapThenFoldSet, Pick
<1>3. \A g : Folds(g) <=> Adds(g, RoomOf(r), S)
  <2>1. \A s \in SUBSET S : s # {} =>
            RoomOf(r)[Pick(s)] = allocatable[Pick(s)][r] - Requested(On(Pick(s), Alive))[r]
    <3>1. \A s \in SUBSET S : s # {} => Pick(s) \in Targets
      BY <1>1 DEF Pick
    <3> QED
      BY <3>1, Zenon DEF RoomOf
  <2> HIDE DEF S
  <2> QED
    BY <2>1, Zenon DEF Adds
<1>4. Folds(CHOOSE g : Folds(g))
  <2>1. \E g : Folds(g)
    BY <1>1, <1>3, AddsExists
  <2> HIDE DEF Folds
  <2> QED
    BY <2>1, Zenon
<1>5. ASSUME NEW n \in Targets PROVE RoomOf(r)[n] \in Int
  <2>1. allocatable[n][r] \in Int
    BY Sizes
  <2>2. On(n, Alive) \in SUBSET Pods
    BY DEF On, Alive
  <2>3. Requested(On(n, Alive))[r] \in Int
    BY <2>2, RequestedIs, Amounts
  <2>4. RoomOf(r)[n] = allocatable[n][r] - Requested(On(n, Alive))[r]
    BY DEF RoomOf
  <2> QED
    BY <2>1, <2>3, <2>4
<1> DEFINE g == CHOOSE g : Folds(g)
<1>6. Adds(g, RoomOf(r), S)
  BY <1>3, <1>4
<1> HIDE DEF Folds, g, S, m
<1>7. Total(RoomOf(r), S) = g[S]
  BY <1>1, <1>6, TotalAdds
<1>8. Total(RoomOf(r), S) \in Int
  BY <1>1, <1>5, TotalInt
<1> QED
  BY <1>1, <1>2, <1>5, <1>7, <1>8 DEF g, S, m

\* Pods on listed targets.
Hosted(pods) == {p \in pods : loc[p] \in ListedTargets}

\* All that is left is all there is, less all that runs there.
LEMMA RoomAddsUp ==
    ASSUME TypeOK, NEW r \in Resource
    PROVE  Total(RoomOf(r), ListedTargets)
               = Total(Size(r), ListedTargets) - Total(Asks(r), Hosted(Alive))
<1> DEFINE A == Hosted(Alive)
           f == [p \in A |-> loc[p]]
           G == Shares(Asks(r), A, f, ListedTargets)
<1>1. /\ A \in SUBSET Pods /\ IsFiniteSet(A) /\ \A p \in A : Asks(r)[p] \in Int
  <2>1. A \in SUBSET Pods
    BY DEF Hosted, Alive
  <2> HIDE DEF A
  <2> QED
    BY <2>1, Amounts
<1>2. IsFiniteSet(ListedTargets) /\ ListedTargets \in SUBSET Targets
  BY RoomIs
<1>3. f \in [A -> ListedTargets]
  BY DEF Hosted
<1>4. /\ Total(Asks(r), A) = Total(G, ListedTargets)
      /\ \A n \in ListedTargets : G[n] \in Int
  <2> HIDE DEF A, f
  <2> QED
    BY <1>1, <1>2, <1>3, TotalShares
<1>5. ASSUME NEW n \in ListedTargets
      PROVE  Size(r)[n] \in Int /\ RoomOf(r)[n] = Size(r)[n] - G[n]
  <2>1. n \in Targets /\ Size(r)[n] = allocatable[n][r] /\ Size(r)[n] \in Int
    BY <1>2, Sizes
  <2>2. ShareOf(f, A, n) = On(n, Alive)
    BY DEF ShareOf, Hosted, On
  <2>3. G[n] = Total(Asks(r), On(n, Alive))
    BY <2>2 DEF Shares
  <2>4. On(n, Alive) \in SUBSET Pods
    BY DEF On, Alive
  <2>5. Requested(On(n, Alive))[r] = Total(Asks(r), On(n, Alive))
    BY <2>4, RequestedIs
  <2> HIDE DEF G
  <2> QED
    BY <2>1, <2>3, <2>5 DEF RoomOf
<1> HIDE DEF G, A
<1>6. Total(RoomOf(r), ListedTargets) = Total(Size(r), ListedTargets) - Total(G, ListedTargets)
  BY <1>2, <1>4, <1>5, TotalLess
<1> QED
  BY <1>4, <1>6 DEF A

\* Everybody who runs on a listed node was counted or came too late, and what
\* was counted fits.
LEMMA RoomFollows == IInv => RoomMeansRoom
<1> SUFFICES ASSUME IInv, pc = "enough", Old \in listed, NEW r \in Resource
             PROVE  Requested(Workload(Alive))[r] - Requested(Newcomers)[r]
                        =< Total(RoomOf(r), ListedTargets)
  BY RoomIs DEF RoomMeansRoom, IInv
<1>1. TypeOK /\ Stages /\ Seen /\ Tallied
  BY DEF IInv
<1> DEFINE A == Hosted(Alive)
           W == Workload(Alive)
           N == Newcomers
           C == On(Old, counted)
<1>2. /\ A \in SUBSET Pods /\ W \in SUBSET Pods /\ N \in SUBSET Pods
      /\ C \in SUBSET Pods /\ CountedThere \in SUBSET Pods /\ counted \in SUBSET Pods
      /\ C \cap CountedThere = {} /\ C \cup CountedThere = counted
  BY <1>1 DEF Hosted, Workload, On, Alive, Newcomers, CountedThere, TypeOK
<1>3. A \cap W = {}
  BY DEF Hosted, Workload, On, ListedTargets
<1>4. A \cup W \subseteq counted \cup (N \ counted)
  <2> SUFFICES ASSUME NEW p \in A \cup W, p \notin N PROVE p \in counted
    OBVIOUS
  <2>1. p \in Alive \ Newcomers /\ loc[p] \in listed /\ (loc[p] = Old => ~kind[p].daemon)
    BY DEF Hosted, Workload, On, ListedTargets
  <2> QED
    BY <1>1, <2>1 DEF Seen
<1> DEFINE F == Asks(r)
           M == N \ counted
<1>5. M \in SUBSET N /\ M \in SUBSET Pods /\ counted \cap M = {} /\ counted \cup M \in SUBSET Pods
  BY <1>2
<1> HIDE DEF A, W, N, C, M, F
<1>6. Total(F, A \cup W) = Total(F, A) + Total(F, W)
  BY <1>1, <1>2, <1>3, Together DEF F
<1>7. Total(F, counted \cup M) = Total(F, counted) + Total(F, M)
  BY <1>1, <1>2, <1>5, Together DEF F
<1>8. Total(F, counted) = Total(F, C) + Total(F, CountedThere)
  BY <1>1, <1>2, Together DEF F
<1>9. Total(F, A \cup W) =< Total(F, counted \cup M) /\ Total(F, M) =< Total(F, N)
  BY <1>1, <1>2, <1>4, <1>5, Larger DEF F, M
<1>10. available[r] = Total(Size(r), ListedTargets) - Total(F, CountedThere) /\ needed[r] = Total(F, C)
  BY <1>1 DEF Tallied, F, C
<1>11. available[r] - needed[r] >= 0
  BY <1>1 DEF Stages, Enough
<1>12. /\ Total(F, A) \in Int /\ Total(F, W) \in Int /\ Total(F, N) \in Int /\ Total(F, M) \in Int
       /\ Total(F, C) \in Int /\ Total(F, CountedThere) \in Int /\ Total(F, counted) \in Int
       /\ Total(F, A \cup W) \in Int /\ Total(F, counted \cup M) \in Int
       /\ Total(Size(r), ListedTargets) \in Int
  <2>1. A \cup W \in SUBSET Pods
    BY <1>2
  <2> QED
    BY <1>1, <1>2, <1>5, <2>1, Amounts, Sizes DEF F
<1>13. /\ Requested(Workload(Alive))[r] = Total(F, W) /\ Requested(Newcomers)[r] = Total(F, N)
  BY <1>1, <1>2, RequestedIs DEF F, W, N
<1>14. Total(RoomOf(r), ListedTargets) = Total(Size(r), ListedTargets) - Total(F, A)
  BY <1>1, RoomAddsUp DEF F, A
<1>15. Total(F, W) - Total(F, N) =< Total(Size(r), ListedTargets) - Total(F, A)
  BY <1>6, <1>7, <1>8, <1>9, <1>10, <1>11, <1>12
<1> QED
  BY <1>13, <1>14, <1>15

\* When there is said to be room and the old node was read, the requests of its
\* workload are within what the listed targets have left in total, but for the
\* pods that are bound and not in every watch cache yet.
THEOREM RoomCanBeReliedUpon == Spec => []RoomMeansRoom
BY Invariance, RoomFollows, PTL

\* Were the workload placed on the listed targets beside what they host, no
\* target would hold more than its size; so all that was counted would fit.
LEMMA ShortFollows == IInv => ShortMeansShort
<1> DEFINE P == Alive \cup counted
<1> SUFFICES ASSUME IInv, pc = "short", Placeable(P), ~Overcommitted(P)
             PROVE  FALSE
  BY DEF ShortMeansShort
<1>1. TypeOK /\ Stages /\ Seen /\ Tallied /\ Old \in listed /\ ~Enough(needed)
  BY DEF IInv, Stages
<1>2. PICK r \in Resource : ~(available[r] - needed[r] >= 0)
  BY <1>1 DEF Enough
<1>3. PICK f \in [Workload(P) -> ListedTargets] :
          \A n \in ListedTargets :
              {p \in Workload(P) : f[p] = n} # {} =>
                  Requested(On(n, P) \cup {p \in Workload(P) : f[p] = n})[r] =< allocatable[n][r]
  <2>1. \E f \in [Workload(P) -> ListedTargets] : \A n \in ListedTargets :
            LET placed == {p \in Workload(P) : f[p] = n}
            IN placed # {} =>
                 \A q \in Resource : Requested(On(n, P) \cup placed)[q] =< allocatable[n][q]
    BY Zenon DEF Placeable
  <2> HIDE DEF P
  <2> QED
    BY <2>1, Zenon
<1> DEFINE X == Hosted(P) \cup Workload(P)
           h == [p \in X |-> IF p \in Workload(P) THEN f[p] ELSE loc[p]]
           G == Shares(Asks(r), X, h, ListedTargets)
<1>4. P \in SUBSET Pods /\ X \in SUBSET Pods /\ Hosted(P) \cap Workload(P) = {}
  BY <1>1 DEF Hosted, Workload, On, Alive, TypeOK, ListedTargets
<1>5. counted \in SUBSET X
  <2>1. \A p \in counted : \/ loc[p] \in ListedTargets
                           \/ loc[p] = Old /\ ~kind[p].daemon
    BY <1>1 DEF Seen, ListedTargets
  <2> QED
    BY <2>1 DEF Hosted, Workload, On
<1>6. h \in [X -> ListedTargets]
  BY DEF Hosted
<1>7. IsFiniteSet(ListedTargets) /\ ListedTargets \in SUBSET Targets
  BY <1>1, RoomIs
<1>8. IsFiniteSet(X) /\ \A p \in X : Asks(r)[p] \in Int
  <2> HIDE DEF X
  <2> QED
    BY <1>1, <1>4, Amounts
<1>9. /\ Total(Asks(r), X) = Total(G, ListedTargets)
      /\ \A n \in ListedTargets : G[n] \in Int
  <2> HIDE DEF X, h
  <2> QED
    BY <1>6, <1>7, <1>8, TotalShares
<1>10. ASSUME NEW n \in ListedTargets PROVE G[n] =< Size(r)[n] /\ Size(r)[n] \in Int
  <2> DEFINE placed == {p \in Workload(P) : f[p] = n}
  <2>1. n \in Targets /\ Size(r)[n] = allocatable[n][r] /\ Size(r)[n] \in Int
    BY <1>1, <1>7, Sizes
  <2>2. ShareOf(h, X, n) = On(n, P) \cup placed
    <3>1. \A p \in X : h[p] = n <=> p \in On(n, P) \cup placed
      BY <1>4 DEF Hosted, On, Workload, ListedTargets
    <3>2. On(n, P) \cup placed \subseteq X
      BY DEF Hosted, On
    <3> HIDE DEF X, h, placed, P
    <3> QED
      BY <3>1, <3>2 DEF ShareOf
  <2>3. On(n, P) \cup placed \in SUBSET Pods
    BY <1>4 DEF On, Workload
  <2>4. G[n] = Requested(On(n, P) \cup placed)[r]
    <3>1. G[n] = Total(Asks(r), ShareOf(h, X, n))
      BY DEF Shares
    <3> HIDE DEF G, X, h, placed, P
    <3> QED
      BY <1>1, <2>2, <2>3, <3>1, RequestedIs
  <2>5. CASE placed = {}
    <3>1. On(n, P) \cup placed = On(n, P) /\ On(n, P) \in SUBSET Pods
      BY <2>3, <2>5
    <3>2. ~(Requested(On(n, P))[r] > allocatable[n][r])
      BY DEF Overcommitted
    <3>3. Requested(On(n, P))[r] \in Int
      <4> HIDE DEF P
      <4> QED
        BY <1>1, <3>1, RequestedIs, Amounts
    <3> HIDE DEF G, placed, P
    <3> QED
      BY <2>1, <2>4, <3>1, <3>2, <3>3
  <2>6. CASE placed # {}
    <3>1. Requested(On(n, P) \cup placed)[r] =< allocatable[n][r]
      BY <1>3, <2>6
    <3> HIDE DEF G, placed, P
    <3> QED
      BY <2>1, <2>4, <3>1
  <2> QED
    BY <2>5, <2>6
<1> HIDE DEF G, X, P
<1>11. Total(G, ListedTargets) =< Total(Size(r), ListedTargets)
  BY <1>7, <1>9, <1>10, TotalAtMost
<1>12. Total(Asks(r), counted) =< Total(Asks(r), X)
  BY <1>1, <1>4, <1>5, Larger
<1>13. Total(Asks(r), counted) = Total(Asks(r), On(Old, counted)) + Total(Asks(r), CountedThere)
  <2>1. /\ On(Old, counted) \in SUBSET Pods /\ CountedThere \in SUBSET Pods
        /\ On(Old, counted) \cap CountedThere = {} /\ On(Old, counted) \cup CountedThere = counted
    BY <1>1 DEF On, CountedThere, TypeOK
  <2> QED
    BY <1>1, <2>1, Together
<1>14. /\ available[r] = Total(Size(r), ListedTargets) - Total(Asks(r), CountedThere)
       /\ needed[r] = Total(Asks(r), On(Old, counted))
  BY <1>1 DEF Tallied
<1>15. /\ Total(Asks(r), On(Old, counted)) \in Int /\ Total(Asks(r), CountedThere) \in Int
       /\ Total(Size(r), ListedTargets) \in Int /\ Total(G, ListedTargets) \in Int
  <2>1. On(Old, counted) \in SUBSET Pods /\ CountedThere \in SUBSET Pods
    BY <1>1 DEF On, CountedThere, TypeOK
  <2> QED
    BY <1>1, <1>7, <1>9, <2>1, Amounts, Sizes, TotalInt
<1> QED
  BY <1>2, <1>9, <1>11, <1>12, <1>13, <1>14, <1>15

\* When the room is said to be short, there is no way to place the workload of
\* the old node on the targets that could be listed, beside what runs there and
\* what was counted, unless a target is overcommitted.
THEOREM ShortageIsReal == Spec => []ShortMeansShort
BY Invariance, ShortFollows, PTL

\* What is placed on a target comes on top of what is there.
LEMMA OnTop ==
    ASSUME TypeOK, NEW n \in Targets, NEW placed \in SUBSET Workload(Alive), NEW r \in Resource
    PROVE  Requested(On(n, Alive) \cup placed)[r]
               = Requested(On(n, Alive))[r] + Total(Asks(r), placed)
<1>1. /\ On(n, Alive) \in SUBSET Pods /\ placed \in SUBSET Pods /\ On(n, Alive) \cup placed \in SUBSET Pods
      /\ On(n, Alive) \cap placed = {}
  BY ResourcesAssumption DEF Alive, Workload, On
<1>2. /\ IsFiniteSet(On(n, Alive)) /\ IsFiniteSet(placed)
      /\ \A p \in On(n, Alive) \cup placed : Asks(r)[p] \in Int
  BY <1>1, Amounts
<1>3. Total(Asks(r), On(n, Alive) \cup placed)
          = Total(Asks(r), On(n, Alive)) + Total(Asks(r), placed)
  BY <1>1, <1>2, TotalUnion
<1> QED
  BY <1>1, <1>3, RequestedIs

\* Pods of one unit never leave a target with room for half a pod.
LEMMA UnitsFollow == IInv => UnitPodsHaveRoom
<1> SUFFICES ASSUME IInv, pc = "enough", Old \in listed, Newcomers = {},
                    \A p \in Pods : /\ kind[p].requests = [None EXCEPT !["cpu"] = 1]
                                    /\ ~kind[p].daemon
             PROVE  Placeable(Alive)
  BY DEF UnitPodsHaveRoom
<1>1. TypeOK
  BY DEF IInv
<1> DEFINE A == Asks("cpu")
           B == Asks("memory")
           R == RoomOf("cpu")
<1>2. /\ Workload(Alive) \in SUBSET Pods /\ IsFiniteSet(Workload(Alive))
      /\ \A p \in Pods : A[p] = 1 /\ B[p] = 0
  <2>1. Workload(Alive) \in SUBSET Pods
    BY DEF Workload, On, Alive
  <2>2. \A p \in Pods : A[p] = 1 /\ B[p] = 0
    BY DEF Asks, None, Resource
  <2> QED
    BY <2>1, <2>2, ResourcesAssumption, FS_Subset
<1>3. /\ IsFiniteSet(ListedTargets) /\ ListedTargets \in SUBSET Targets
      /\ \A n \in ListedTargets : R[n] \in Int
  BY <1>1, RoomIs, Zenon DEF Resource
<1>4. Total(A, Workload(Alive)) =< Total(R, ListedTargets)
  <2>1. Requested(Workload(Alive))["cpu"] - Requested(Newcomers)["cpu"] =< Total(R, ListedTargets)
    BY <1>1, RoomFollows, RoomIs DEF RoomMeansRoom, Resource
  <2>2. Requested(Newcomers)["cpu"] = 0
    <3>1. Newcomers \in SUBSET Pods /\ "cpu" \in Resource
      BY <1>1 DEF Newcomers, Alive, Resource
    <3>2. Requested(Newcomers)["cpu"] = Total(A, {})
      BY <1>1, <3>1, RequestedIs
    <3> QED
      BY <3>2, TotalPicks, FS_EmptySet
  <2>3. Requested(Workload(Alive))["cpu"] = Total(A, Workload(Alive)) /\ Total(A, Workload(Alive)) \in Int
    BY <1>1, <1>2, RequestedIs, Amounts DEF Resource
  <2> HIDE DEF A, R
  <2> QED
    BY <2>1, <2>2, <2>3
<1>5. PICK f \in [Workload(Alive) -> ListedTargets] :
          \A n \in ListedTargets :
              ShareOf(f, Workload(Alive), n) # {} => Total(A, ShareOf(f, Workload(Alive), n)) =< R[n]
  <2>1. \A p \in Workload(Alive) : A[p] = 1
    BY <1>2
  <2> HIDE DEF A, R
  <2> QED
    BY <1>2, <1>3, <1>4, <2>1, UnitsFit
<1>6. ASSUME NEW n \in ListedTargets, NEW placed, placed = {p \in Workload(Alive) : f[p] = n}, placed # {},
             NEW r \in Resource
      PROVE  Requested(On(n, Alive) \cup placed)[r] =< allocatable[n][r]
  <2>1. n \in Targets /\ placed \in SUBSET Workload(Alive) /\ placed \in SUBSET Pods
        /\ On(n, Alive) \in SUBSET Pods
    BY <1>2, <1>3, <1>6 DEF On, Alive
  <2>2. /\ Requested(On(n, Alive) \cup placed)[r] = Requested(On(n, Alive))[r] + Total(Asks(r), placed)
        /\ Requested(On(n, Alive))[r] = Total(Asks(r), On(n, Alive))
        /\ Requested(On(n, Alive))[r] \in Int /\ Total(Asks(r), placed) \in Int
    BY <1>1, <2>1, OnTop, RequestedIs, Amounts
  <2>3. allocatable[n][r] \in Nat
    BY <1>1, <2>1, ResourcesAssumption DEF Amount, TypeOK
  <2>4. CASE r = "cpu"
    <3>1. Total(A, placed) =< R[n]
      BY <1>5, <1>6 DEF ShareOf
    <3>2. R[n] = allocatable[n]["cpu"] - Requested(On(n, Alive))["cpu"]
      BY <2>1 DEF RoomOf
    <3> HIDE DEF A, R
    <3>3. Total(A, placed) = Total(Asks(r), placed)
      BY <2>4 DEF A
    <3> QED
      BY <2>2, <2>3, <2>4, <3>1, <3>2, <3>3
  <2>5. CASE r = "memory"
    <3>1. Total(B, placed) = 0 /\ Total(B, On(n, Alive)) = 0
      <4>1. /\ IsFiniteSet(placed) /\ IsFiniteSet(On(n, Alive))
            /\ \A p \in placed \cup On(n, Alive) : B[p] = 0
        BY <1>2, <2>1, ResourcesAssumption, FS_Subset
      <4> HIDE DEF B
      <4> QED
        BY <4>1, TotalZero
    <3> QED
      BY <2>2, <2>3, <2>5, <3>1
  <2> QED
    BY <2>4, <2>5 DEF Resource
<1>7. \A n \in ListedTargets :
          LET placed == {p \in Workload(Alive) : f[p] = n}
          IN placed # {} => \A r \in Resource : Requested(On(n, Alive) \cup placed)[r] =< allocatable[n][r]
  BY <1>6
<1> QED
  BY <1>7, Zenon DEF Placeable

\* With pods of one unit, all there is to rely on in Cluster: room in total is
\* room for each.
THEOREM UnitPodsCanBePlaced == Spec => []UnitPodsHaveRoom
BY Invariance, UnitsFollow, PTL
=============================================================================
