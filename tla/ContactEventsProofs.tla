------------------------- MODULE ContactEventsProofs -------------------------
(***************************************************************************)
(* Safety of ContactEvents for every finite set of events and rules, every *)
(* set of processors and adjustments, every order of the projections and   *)
(* every number of days: the outbox, the history of a visitor, the score,  *)
(* its contributions and the grade.                                        *)
(***************************************************************************)
EXTENDS ContactEvents, FiniteSetTheorems, WellFoundedInduction, TLAPS
-----------------------------------------------------------------------------
(* Sums: what a sum is when a member is added or changed.  A set for which *)
(* it were not so would have a smallest such subset.                       *)

\* A sum of the community modules is a function chosen to satisfy this equation.
Pick(s) == CHOOSE x \in s : TRUE
IsTotal(g, f, S) ==
    g = [s \in SUBSET S |-> IF s = {} THEN 0 ELSE f[Pick(s)] + g[s \ {Pick(s)}]]
Total(f, S) == SumFunctionOnSet(f, S)

LEMMA TotalIsChosen ==
    ASSUME NEW f, NEW S PROVE Total(f, S) = (CHOOSE g : IsTotal(g, f, S))[S]
BY DEF Total, SumFunctionOnSet, FoldFunctionOnSet, MapThenFoldSet, IsTotal, Pick

\* What does not hold of every finite set does not hold of a smallest one.
LEMMA Smallest ==
    ASSUME NEW S, IsFiniteSet(S), NEW X, X \subseteq SUBSET S, X # {}
    PROVE  \E T \in X : \A U \in X : U \subseteq T => U = T
<1>1. IsWellFoundedOn(StrictSubsetOrdering(S), SUBSET S)
  BY FS_StrictSubsetOrderingWellFounded, FS_FiniteSubsetsOfFinite
<1>2. PICK T \in X : \A U \in X : ~(<<U, T>> \in StrictSubsetOrdering(S))
  BY <1>1, WFMin
<1>3. ASSUME NEW U \in X, U \subseteq T PROVE U = T
  <2>1. <<U, T>> \in (SUBSET S) \X (SUBSET S) /\ <<U, T>>[1] = U /\ <<U, T>>[2] = T
    OBVIOUS
  <2> QED BY <1>2, <1>3, <2>1 DEF StrictSubsetOrdering
<1> QED BY <1>3

LEMMA PickIsMember == ASSUME NEW s, s # {} PROVE Pick(s) \in s
BY DEF Pick

LEMMA TotalStep ==
    ASSUME NEW f, NEW S, NEW g, IsTotal(g, f, S)
    PROVE  /\ g[{}] = 0
           /\ \A s \in SUBSET S : s # {} => g[s] = f[Pick(s)] + g[s \ {Pick(s)}]
BY DEF IsTotal

LEMMA OneTotal ==
    ASSUME NEW f, NEW S, IsFiniteSet(S), NEW U, NEW W, U \subseteq S,
           NEW g, NEW h, IsTotal(g, f, U), IsTotal(h, f, W), NEW s, s \subseteq U, s \subseteq W
    PROVE  g[s] = h[s]
<1> DEFINE X == {t \in SUBSET (U \cap W) : g[t] # h[t]}
<1>1. SUFFICES ASSUME X # {} PROVE FALSE
  <2>1. s \in SUBSET (U \cap W) OBVIOUS
  <2> QED BY <2>1
<1>2. PICK t \in X : \A u \in X : u \subseteq t => u = t
  <2>1. X \subseteq SUBSET S OBVIOUS
  <2> HIDE DEF X
  <2> QED BY <1>1, <2>1, Smallest
<1>3. t # {} BY <1>2, TotalStep
<1> DEFINE c == Pick(t)
<1>4. c \in t BY <1>3, PickIsMember
<1> HIDE DEF c
<1>5. t \ {c} \notin X BY <1>2, <1>4
<1>6. g[t \ {c}] = h[t \ {c}] BY <1>5
<1>7. g[t] = f[c] + g[t \ {c}] /\ h[t] = f[c] + h[t \ {c}]
  BY <1>2, <1>3, TotalStep DEF c
<1> QED BY <1>2, <1>6, <1>7

LEMMA TotalExists ==
    ASSUME NEW f, NEW S, IsFiniteSet(S) PROVE \E g : IsTotal(g, f, S)
<1> DEFINE X == {T \in SUBSET S : ~\E g : IsTotal(g, f, T)}
<1>1. SUFFICES ASSUME X # {} PROVE FALSE
  OBVIOUS
<1>2. PICK T \in X : \A U \in X : U \subseteq T => U = T
  <2>1. X \subseteq SUBSET S OBVIOUS
  <2> HIDE DEF X
  <2> QED BY <1>1, <2>1, Smallest
<1> DEFINE h(U) == CHOOSE g : IsTotal(g, f, U)
           G == [s \in SUBSET T |->
                    IF s = {} THEN 0 ELSE f[Pick(s)] + h(s \ {Pick(s)})[s \ {Pick(s)}]]
<1>3. ASSUME NEW U, U \subseteq T, U # T PROVE IsTotal(h(U), f, U)
  <2>1. U \in SUBSET S BY <1>2, <1>3
  <2>2. U \notin X BY <1>2, <1>3
  <2>3. \E g : IsTotal(g, f, U) BY <2>1, <2>2
  <2> QED BY <2>3
<1> HIDE DEF h
<1>4. ASSUME NEW s, s \subseteq T, s # T PROVE G[s] = h(s)[s]
  <2>1. IsTotal(h(s), f, s) BY <1>3, <1>4
  <2>2. CASE s = {}
    <3>1. G[s] = 0 BY <2>2
    <3>2. h(s)[s] = 0 BY <2>1, <2>2, TotalStep
    <3> QED BY <3>1, <3>2
  <2>3. CASE s # {}
    <3> DEFINE c == Pick(s)
    <3>1. c \in s BY <2>3, PickIsMember
    <3>2. G[s] = f[c] + h(s \ {c})[s \ {c}] BY <1>4, <2>3
    <3> HIDE DEF c, G
    <3>3. h(s)[s] = f[c] + h(s)[s \ {c}] BY <2>1, <2>3, TotalStep DEF c
    <3>4. s \ {c} \subseteq T /\ s \ {c} # T BY <1>4
    <3>5. IsTotal(h(s \ {c}), f, s \ {c}) BY <1>3, <3>4
    <3>6. s \subseteq S BY <1>2, <1>4
    <3>7. h(s)[s \ {c}] = h(s \ {c})[s \ {c}]
      <4> DEFINE u == s \ {c}
      <4>1. u \subseteq s OBVIOUS
      <4>2. IsTotal(h(u), f, u) BY <3>5
      <4> HIDE DEF u
      <4>3. h(s)[u] = h(u)[u] BY <2>1, <3>6, <4>1, <4>2, OneTotal
      <4> QED BY <4>3 DEF u
    <3> QED BY <3>2, <3>3, <3>7
  <2> QED BY <2>2, <2>3
<1>5. ASSUME NEW s \in SUBSET T, s # {}
      PROVE  G[s \ {Pick(s)}] = h(s \ {Pick(s)})[s \ {Pick(s)}]
  <2>1. Pick(s) \in s BY <1>5, PickIsMember
  <2>2. s \ {Pick(s)} \subseteq T /\ s \ {Pick(s)} # T BY <1>5, <2>1
  <2> HIDE DEF G
  <2> QED BY <2>2, <1>4
<1>6. G = [s \in SUBSET T |-> IF s = {} THEN 0 ELSE f[Pick(s)] + G[s \ {Pick(s)}]]
  BY <1>5
<1>7. IsTotal(G, f, T) BY <1>6 DEF IsTotal
<1> QED BY <1>2, <1>7

\* The sum over a finite set, taking away one element at a time.
LEMMA TotalTakes ==
    ASSUME NEW f, NEW S, IsFiniteSet(S)
    PROVE  /\ Total(f, {}) = 0
           /\ S # {} => Pick(S) \in S /\ Total(f, S) = f[Pick(S)] + Total(f, S \ {Pick(S)})
<1> DEFINE h(U) == CHOOSE g : IsTotal(g, f, U)
<1>1. ASSUME NEW U, U \subseteq S PROVE IsTotal(h(U), f, U) /\ Total(f, U) = h(U)[U]
  <2>1. IsFiniteSet(U) BY <1>1, FS_Subset
  <2>2. \E g : IsTotal(g, f, U) BY <2>1, TotalExists
  <2> QED BY <2>2, TotalIsChosen
<1> HIDE DEF h
<1>2. Total(f, {}) = 0 BY <1>1, TotalStep
<1>3. ASSUME S # {}
      PROVE  Pick(S) \in S /\ Total(f, S) = f[Pick(S)] + Total(f, S \ {Pick(S)})
  <2> DEFINE c == Pick(S)
  <2>1. c \in S BY <1>3, PickIsMember
  <2>2. h(S)[S] = f[c] + h(S)[S \ {c}] BY <1>1, <1>3, TotalStep
  <2> HIDE DEF c
  <2>3. S \ {c} \subseteq S /\ S \ {c} \subseteq S \ {c} OBVIOUS
  <2>4. h(S)[S \ {c}] = h(S \ {c})[S \ {c}] BY <1>1, <2>3, OneTotal
  <2>5. Total(f, S) = f[c] + Total(f, S \ {c}) BY <1>1, <2>2, <2>3, <2>4
  <2> QED BY <2>1, <2>5 DEF c
<1> QED BY <1>2, <1>3
Summable(f, S) == IsFiniteSet(S) /\ \A x \in S : f[x] \in Int

\* ... any element.
LEMMA TotalAny ==
    ASSUME NEW f, NEW S, Summable(f, S)
    PROVE  /\ Total(f, S) \in Int
           /\ \A x \in S : Total(f, S) = f[x] + Total(f, S \ {x})
                           /\ Total(f, S \ {x}) \in Int
<1> DEFINE Good(T) == Total(f, T) \in Int
                      /\ \A x \in T : Total(f, T) = f[x] + Total(f, T \ {x})
           X == {T \in SUBSET S : ~Good(T)}
<1>0. IsFiniteSet(S) /\ \A x \in S : f[x] \in Int BY DEF Summable
<1>1. X = {}
  <2>1. SUFFICES ASSUME X # {} PROVE FALSE
    OBVIOUS
  <2>2. PICK T \in X : \A U \in X : U \subseteq T => U = T
    <3>1. X \subseteq SUBSET S OBVIOUS
    <3> HIDE DEF X
    <3> QED BY <1>0, <2>1, <3>1, Smallest
  <2>3. T \subseteq S /\ ~Good(T) BY <2>2
  <2>4. \A U : U \subseteq T /\ U # T => Good(U) BY <2>2
  <2>5. IsFiniteSet(T) BY <1>0, <2>3, FS_Subset
  <2> DEFINE c == Pick(T)
  <2>6. CASE T = {}
    <3>1. Total(f, T) = 0 BY <2>5, <2>6, TotalTakes
    <3> QED BY <2>3, <2>6, <3>1
  <2>7. CASE T # {}
    <3>1. c \in T /\ Total(f, T) = f[c] + Total(f, T \ {c}) BY <2>5, <2>7, TotalTakes
    <3> HIDE DEF c
    <3>2. Good(T \ {c}) BY <2>4, <3>1
    <3>3. f[c] \in Int /\ Total(f, T \ {c}) \in Int BY <1>0, <2>3, <3>1, <3>2
    <3>4. Total(f, T) \in Int BY <3>1, <3>3
    <3>5. ASSUME NEW x \in T PROVE Total(f, T) = f[x] + Total(f, T \ {x})
      <4>1. CASE x = c BY <3>1, <4>1
      <4>2. CASE x # c
        <5> DEFINE R == T \ {c, x}
        <5>1. (T \ {c}) \ {x} = R /\ (T \ {x}) \ {c} = R OBVIOUS
        <5>2. Good(T \ {x}) BY <2>4
        <5>3. Good(R) BY <2>4
        <5>4. x \in T \ {c} /\ c \in T \ {x} BY <3>1, <4>2
        <5>5. Total(f, T \ {c}) = f[x] + Total(f, R) BY <3>2, <5>1, <5>4
        <5>6. Total(f, T \ {x}) = f[c] + Total(f, R) BY <5>1, <5>2, <5>4
        <5>7. f[x] \in Int /\ Total(f, R) \in Int BY <1>0, <2>3, <5>3
        <5> HIDE DEF R, Good
        <5> QED BY <3>1, <3>3, <5>5, <5>6, <5>7
      <4> QED BY <4>1, <4>2
    <3> QED BY <2>3, <3>4, <3>5
  <2> QED BY <2>6, <2>7
<1>2. \A T \in SUBSET S : Good(T) BY <1>1
<1>3. Good(S) /\ \A x \in S : Good(S \ {x}) BY <1>2
<1> QED BY <1>3

LEMMA TotalAdds ==
    ASSUME NEW f, NEW S, Summable(f, S), NEW x, x \notin S, f[x] \in Int
    PROVE  Total(f, S \cup {x}) = Total(f, S) + f[x]
<1> DEFINE T == S \cup {x}
<1>1. Summable(f, T) BY FS_AddElement DEF Summable
<1>2. T \ {x} = S /\ x \in T OBVIOUS
<1> HIDE DEF T
<1>3. Total(f, T) = f[x] + Total(f, S) BY <1>1, <1>2, TotalAny
<1>4. Total(f, S) \in Int BY TotalAny
<1> QED BY <1>3, <1>4 DEF T

LEMMA TotalEmpty == \A f : Total(f, {}) = 0
BY FS_EmptySet, TotalTakes

\* What two sums over the same set have to do with each other.
LEMMA TotalSame ==
    ASSUME NEW f, NEW g, NEW S, Summable(f, S), \A x \in S : g[x] = f[x]
    PROVE  Total(g, S) = Total(f, S) /\ Summable(g, S)
<1> DEFINE X == {T \in SUBSET S : Total(g, T) # Total(f, T)}
<1>0. IsFiniteSet(S) BY DEF Summable
<1>1. SUFFICES ASSUME X # {} PROVE FALSE
  BY DEF Summable
<1>2. PICK T \in X : \A U \in X : U \subseteq T => U = T
  <2>1. X \subseteq SUBSET S OBVIOUS
  <2> HIDE DEF X
  <2> QED BY <1>0, <1>1, <2>1, Smallest
<1>3. Summable(f, T) /\ Summable(g, T) BY <1>0, <1>2, FS_Subset DEF Summable
<1>4. T # {} BY <1>2, TotalEmpty
<1>5. PICK x \in T : TRUE BY <1>4
<1>6. Total(f, T) = f[x] + Total(f, T \ {x}) /\ Total(g, T) = g[x] + Total(g, T \ {x})
  BY <1>3, TotalAny
<1>7. T \ {x} \notin X BY <1>2
<1>8. Total(f, T \ {x}) = Total(g, T \ {x}) BY <1>2, <1>7
<1>9. f[x] = g[x] BY <1>2
<1> QED BY <1>2, <1>6, <1>8, <1>9

LEMMA TotalMore ==
    ASSUME NEW f, NEW g, NEW S, Summable(f, S), Summable(g, S), \A x \in S : f[x] <= g[x]
    PROVE  Total(f, S) <= Total(g, S)
<1> DEFINE X == {T \in SUBSET S : ~(Total(f, T) <= Total(g, T))}
<1>0. IsFiniteSet(S) BY DEF Summable
<1>1. SUFFICES ASSUME X # {} PROVE FALSE
  OBVIOUS
<1>2. PICK T \in X : \A U \in X : U \subseteq T => U = T
  <2>1. X \subseteq SUBSET S OBVIOUS
  <2> HIDE DEF X
  <2> QED BY <1>0, <1>1, <2>1, Smallest
<1>3. Summable(f, T) /\ Summable(g, T) BY <1>0, <1>2, FS_Subset DEF Summable
<1>4. T # {}
  <2>1. SUFFICES ASSUME T = {} PROVE FALSE
    OBVIOUS
  <2>2. Total(f, T) = 0 /\ Total(g, T) = 0 BY <2>1, TotalEmpty
  <2> QED BY <1>2, <2>2
<1>5. PICK x \in T : TRUE BY <1>4
<1>6. /\ Total(f, T) = f[x] + Total(f, T \ {x}) /\ Total(g, T) = g[x] + Total(g, T \ {x})
      /\ Total(f, T \ {x}) \in Int /\ Total(g, T \ {x}) \in Int
  BY <1>3, TotalAny
<1>7. T \ {x} \notin X BY <1>2
<1>8. Total(f, T \ {x}) <= Total(g, T \ {x}) BY <1>2, <1>7
<1>9. f[x] \in Int /\ g[x] \in Int /\ f[x] <= g[x] BY <1>2, <1>3 DEF Summable
<1>10. Total(f, T) <= Total(g, T) BY <1>6, <1>8, <1>9
<1> QED BY <1>2, <1>10

LEMMA TotalBoth ==
    ASSUME NEW f, NEW g, NEW h, NEW S, Summable(f, S), Summable(g, S),
           \A x \in S : h[x] = f[x] + g[x]
    PROVE  Total(h, S) = Total(f, S) + Total(g, S)
<1> DEFINE X == {T \in SUBSET S : Total(h, T) # Total(f, T) + Total(g, T)}
<1>0. IsFiniteSet(S) BY DEF Summable
<1>1. SUFFICES ASSUME X # {} PROVE FALSE
  OBVIOUS
<1>2. PICK T \in X : \A U \in X : U \subseteq T => U = T
  <2>1. X \subseteq SUBSET S OBVIOUS
  <2> HIDE DEF X
  <2> QED BY <1>0, <1>1, <2>1, Smallest
<1>3. Summable(f, T) /\ Summable(g, T) BY <1>0, <1>2, FS_Subset DEF Summable
<1>4. \A x \in T : f[x] \in Int /\ g[x] \in Int /\ h[x] = f[x] + g[x]
  BY <1>2, <1>3 DEF Summable
<1>5. Summable(h, T) BY <1>3, <1>4 DEF Summable
<1>6. T # {}
  <2>1. SUFFICES ASSUME T = {} PROVE FALSE
    OBVIOUS
  <2>2. Total(f, T) = 0 /\ Total(g, T) = 0 /\ Total(h, T) = 0 BY <2>1, TotalEmpty
  <2> QED BY <1>2, <2>2
<1>7. PICK x \in T : TRUE BY <1>6
<1>8. /\ Total(f, T) = f[x] + Total(f, T \ {x}) /\ Total(g, T) = g[x] + Total(g, T \ {x})
      /\ Total(h, T) = h[x] + Total(h, T \ {x})
      /\ Total(f, T \ {x}) \in Int /\ Total(g, T \ {x}) \in Int
  BY <1>3, <1>5, TotalAny
<1>9. T \ {x} \notin X BY <1>2
<1>10. Total(h, T \ {x}) = Total(f, T \ {x}) + Total(g, T \ {x}) BY <1>2, <1>9
<1>11. Total(h, T) = Total(f, T) + Total(g, T) BY <1>4, <1>8, <1>10
<1> QED BY <1>2, <1>11

\* One summand changes.
LEMMA TotalChanges ==
    ASSUME NEW f, NEW g, NEW S, Summable(f, S), NEW c \in S, g[c] \in Int,
           \A x \in S \ {c} : g[x] = f[x]
    PROVE  Total(g, S) = Total(f, S) + g[c] - f[c] /\ Summable(g, S)
<1>1. Summable(g, S) BY DEF Summable
<1>2. Total(f, S) = f[c] + Total(f, S \ {c}) /\ Total(f, S \ {c}) \in Int
  BY TotalAny
<1>3. Total(g, S) = g[c] + Total(g, S \ {c}) BY <1>1, TotalAny
<1>4. Summable(f, S \ {c}) BY FS_Subset DEF Summable
<1>5. Total(g, S \ {c}) = Total(f, S \ {c}) BY <1>4, TotalSame
<1>6. f[c] \in Int BY DEF Summable
<1> QED BY <1>1, <1>2, <1>3, <1>5, <1>6
LEMMA TotalNone ==
    ASSUME NEW f, NEW S, Summable(f, S), \A x \in S : f[x] = 0 PROVE Total(f, S) = 0
<1> DEFINE X == {T \in SUBSET S : Total(f, T) # 0}
<1>1. SUFFICES ASSUME X # {} PROVE FALSE
  OBVIOUS
<1>2. PICK T \in X : \A U \in X : U \subseteq T => U = T
  <2>1. X \subseteq SUBSET S OBVIOUS
  <2> HIDE DEF X
  <2> QED BY <1>1, <2>1, Smallest DEF Summable
<1>3. Summable(f, T) BY <1>2, FS_Subset DEF Summable
<1>4. T # {} BY <1>2, TotalEmpty
<1>5. PICK x \in T : TRUE BY <1>4
<1>6. T \ {x} \notin X BY <1>2, <1>5
<1>7. Total(f, T \ {x}) = 0 BY <1>2, <1>6
<1>8. Total(f, T) = f[x] + Total(f, T \ {x}) BY <1>3, <1>5, TotalAny
<1> QED BY <1>2, <1>5, <1>7, <1>8

\* The summands of one row change, or are new.
RowChanges(f, g, K, e, N, d) ==
    /\ \A r \in N : <<e, r>> \in K /\ d[r] = g[<<e, r>>] - f[<<e, r>>]
    /\ \A k \in K : k \notin {e} \X N => g[k] = f[k]

LEMMA TotalRowChanges ==
    ASSUME NEW f, NEW g, NEW K, Summable(f, K), Summable(g, K), NEW e, NEW N, IsFiniteSet(N),
           NEW d, RowChanges(f, g, K, e, N, d)
    PROVE  Total(g, K) = Total(f, K) + Total(d, N)
<1> USE DEF RowChanges
<1> DEFINE mix(M) == [k \in K |-> IF k \in {e} \X M THEN g[k] ELSE f[k]]
           X == {M \in SUBSET N : Total(mix(M), K) # Total(f, K) + Total(d, M)}
<1>0. \A k \in K : f[k] \in Int /\ g[k] \in Int BY DEF Summable
<1>1. ASSUME NEW M \in SUBSET N PROVE Summable(mix(M), K)
  BY <1>0 DEF Summable
<1>2. ASSUME NEW r \in N PROVE d[r] \in Int
  <2>1. <<e, r>> \in K /\ d[r] = g[<<e, r>>] - f[<<e, r>>] OBVIOUS
  <2> QED BY <1>0, <2>1
<1>3. X = {}
  <2>1. SUFFICES ASSUME X # {} PROVE FALSE
    OBVIOUS
  <2>2. PICK M \in X : \A U \in X : U \subseteq M => U = M
    <3>1. X \subseteq SUBSET N OBVIOUS
    <3> HIDE DEF X
    <3> QED BY <2>1, <3>1, Smallest
  <2>3. M \in SUBSET N BY <2>2
  <2>4. IsFiniteSet(M) BY <2>3, FS_Subset
  <2>5. M # {}
    <3>1. SUFFICES ASSUME M = {} PROVE FALSE
      OBVIOUS
    <3>2. \A k \in K : mix(M)[k] = f[k] BY <3>1
    <3> HIDE DEF mix
    <3>3. Total(mix(M), K) = Total(f, K) BY <3>2, TotalSame
    <3>4. Total(d, M) = 0 BY <3>1, TotalEmpty
    <3>5. Total(f, K) \in Int BY TotalAny
    <3> QED BY <2>2, <3>3, <3>4, <3>5
  <2>6. PICK r \in M : TRUE BY <2>5
  <2> DEFINE L == M \ {r}
             c == <<e, r>>
  <2>7. L \in SUBSET N /\ L \notin X BY <2>2, <2>3, <2>6
  <2>8. Total(mix(L), K) = Total(f, K) + Total(d, L) BY <2>7
  <2>9. c \in K /\ r \in N BY <2>3, <2>6
  <2>10. mix(M)[c] = g[c] /\ mix(L)[c] = f[c] BY <2>6, <2>9
  <2>11. \A k \in K \ {c} : mix(M)[k] = mix(L)[k]
    <3> TAKE k \in K \ {c}
    <3>1. k \in {e} \X M <=> k \in {e} \X L
      <4>1. ASSUME k \in {e} \X M PROVE k \in {e} \X L
        <5>1. PICK s \in M : k = <<e, s>> BY <4>1
        <5>2. s # r BY <5>1
        <5> QED BY <5>1, <5>2
      <4> QED BY <4>1
    <3> QED BY <3>1
  <2>12. Summable(mix(M), K) /\ Summable(mix(L), K) BY <1>1, <2>3, <2>7
  <2>13. Summable(d, M) BY <1>2, <2>3, <2>4 DEF Summable
  <2> HIDE DEF mix, L, c
  <2>14. g[c] \in Int /\ f[c] \in Int BY <1>0, <2>9
  <2>15. Total(mix(M), K) = Total(mix(L), K) + g[c] - f[c]
    BY <2>9, <2>10, <2>11, <2>12, <2>14, TotalChanges
  <2>16. Total(d, M) = d[r] + Total(d, L) /\ Total(d, L) \in Int
    BY <2>6, <2>13, TotalAny DEF L
  <2>17. d[r] = g[c] - f[c] BY <2>9 DEF c
  <2>18. Total(f, K) \in Int BY TotalAny
  <2>19. Total(mix(M), K) = Total(f, K) + Total(d, M)
    BY <2>8, <2>14, <2>15, <2>16, <2>17, <2>18
  <2> HIDE DEF X
  <2>20. M \in X => Total(mix(M), K) # Total(f, K) + Total(d, M) BY DEF X
  <2> QED BY <2>2, <2>19, <2>20
<1>4. Total(mix(N), K) = Total(f, K) + Total(d, N) BY <1>3
<1>5. \A k \in K : mix(N)[k] = g[k] OBVIOUS
<1>6. Summable(mix(N), K) BY <1>1
<1> HIDE DEF mix
<1>7. Total(g, K) = Total(mix(N), K) BY <1>5, <1>6, TotalSame
<1> QED BY <1>4, <1>7

RowAdds(f, K, e, N, d) ==
    \A r \in N : <<e, r>> \notin K /\ d[r] = f[<<e, r>>] /\ d[r] \in Int

LEMMA TotalRowAdds ==
    ASSUME NEW f, NEW K, Summable(f, K), NEW e, NEW N, IsFiniteSet(N),
           NEW d, RowAdds(f, K, e, N, d)
    PROVE  Total(f, K \cup ({e} \X N)) = Total(f, K) + Total(d, N)
           /\ Summable(f, K \cup ({e} \X N))
<1> DEFINE with(M) == K \cup ({e} \X M)
           X == {M \in SUBSET N : ~(Summable(f, with(M))
                                    /\ Total(f, with(M)) = Total(f, K) + Total(d, M))}
<1> USE DEF RowAdds
<1>1. X = {}
  <2>1. SUFFICES ASSUME X # {} PROVE FALSE
    OBVIOUS
  <2>2. PICK M \in X : \A U \in X : U \subseteq M => U = M
    <3>1. X \subseteq SUBSET N OBVIOUS
    <3> HIDE DEF X
    <3> QED BY <2>1, <3>1, Smallest
  <2>3. M \in SUBSET N BY <2>2
  <2>4. IsFiniteSet(M) BY <2>3, FS_Subset
  <2>5. M # {}
    <3>1. SUFFICES ASSUME M = {} PROVE FALSE
      OBVIOUS
    <3>2. with(M) = K BY <3>1
    <3>3. Total(d, M) = 0 BY <3>1, TotalEmpty
    <3>4. Total(f, K) \in Int BY TotalAny
    <3>5. Total(f, K) = Total(f, K) + Total(d, M) BY <3>3, <3>4
    <3> QED BY <2>2, <3>2, <3>5
  <2>6. PICK r \in M : TRUE BY <2>5
  <2> DEFINE L == M \ {r}
             c == <<e, r>>
             P == with(L)
             Q == with(M)
  <2>7. L \in SUBSET N /\ L \notin X BY <2>2, <2>3, <2>6
  <2>8. Summable(f, P) /\ Total(f, P) = Total(f, K) + Total(d, L) BY <2>7
  <2>9. c \notin K /\ d[r] = f[c] /\ f[c] \in Int /\ d[r] \in Int BY <2>3, <2>6
  <2>10. Q = P \cup {c} BY <2>6
  <2>11. c \notin P BY <2>9
  <2>12. Summable(d, M) BY <2>3, <2>4 DEF Summable
  <2> HIDE DEF P, Q, c, X
  <2>13. Total(f, Q) = Total(f, P) + f[c]
    BY <2>8, <2>9, <2>10, <2>11, TotalAdds
  <2>14. Total(d, M) = d[r] + Total(d, L) /\ Total(d, L) \in Int
    BY <2>6, <2>12, TotalAny
  <2>15. Total(f, K) \in Int BY TotalAny
  <2>16. Total(f, Q) = Total(f, K) + Total(d, M)
    BY <2>8, <2>9, <2>13, <2>14, <2>15
  <2>17. Summable(f, Q)
    <3>1. IsFiniteSet(P) /\ \A x \in P : f[x] \in Int BY <2>8 DEF Summable
    <3>2. IsFiniteSet(Q) BY <2>10, <3>1, FS_AddElement
    <3> QED BY <2>9, <2>10, <3>1, <3>2 DEF Summable
  <2>18. M \in X => ~(Summable(f, Q) /\ Total(f, Q) = Total(f, K) + Total(d, M))
    BY DEF X, Q
  <2> QED BY <2>2, <2>16, <2>17, <2>18
<1> QED BY <1>1

-----------------------------------------------------------------------------
(* The arithmetic of the shares.                                           *)

LEMMA Product == ASSUME NEW a \in Nat, NEW b \in Nat PROVE a * b \in Nat
OBVIOUS

LEMMA ProductMore ==
    ASSUME NEW a \in Nat, NEW b \in Nat, NEW c \in Nat, b <= c PROVE a * b <= a * c
OBVIOUS

LEMMA ShareIs ==
    ASSUME NEW x \in Nat, NEW c \in Nat \ {0}
    PROVE  (x \div c) \in Nat /\ (x \div c) * c <= x /\ x < (x \div c) * c + c
OBVIOUS

LEMMA ShareMore ==
    ASSUME NEW x \in Nat, NEW y \in Nat, NEW c \in Nat \ {0}, x <= y
    PROVE  x \div c <= y \div c
OBVIOUS

LEMMA ShareAll == ASSUME NEW a \in Nat, NEW c \in Nat \ {0} PROVE (a * c) \div c = a
OBVIOUS

LEMMA ShareNone == ASSUME NEW a \in Nat, NEW c \in Nat \ {0} PROVE (a * 0) \div c = 0
OBVIOUS

-----------------------------------------------------------------------------
(* The order of the projections.                                           *)

LEMMA LeastNumber ==
    ASSUME NEW I, I \subseteq Nat, I # {}
    PROVE  \E i \in I : \A j \in I : i <= j
<1>1. IsWellFoundedOn(OpToRel(<, Nat), Nat) BY NatLessThanWellFounded
<1>2. PICK i \in I : \A j \in I : ~(<<j, i>> \in OpToRel(<, Nat))
  BY <1>1, WFMin
<1>3. ASSUME NEW j \in I PROVE i <= j
  <2>1. i \in Nat /\ j \in Nat OBVIOUS
  <2>2. <<j, i>> \in Nat \X Nat /\ <<j, i>>[1] = j /\ <<j, i>>[2] = i BY <2>1
  <2>3. ~(j < i) BY <1>2, <2>2 DEF OpToRel
  <2> QED BY <2>1, <2>3
<1> QED BY <1>3

LEMMA OrderFacts ==
    /\ DOMAIN Order \subseteq Nat
    /\ \A i \in DOMAIN Order : Order[i] \in Projections
    /\ \A i, j \in DOMAIN Order : Order[i] = Order[j] => i = j
    /\ \A i, j \in DOMAIN Order : Order[i] = "scoring" /\ Order[j] = "grade" => i < j
<1> DEFINE All == {AllProjections[k] : k \in 1 .. 6}
<1>1. Order \in Seq(All) BY EventsAssumption
<1>2. DOMAIN Order \subseteq Nat BY <1>1
<1>3. \A i \in DOMAIN Order : Order[i] \in Projections BY DEF Projections
<1>4. ASSUME NEW i \in DOMAIN Order, NEW j \in DOMAIN Order, i < j
      PROVE  Order[i] # Order[j] /\ ~(Order[i] = "grade" /\ Order[j] = "scoring")
  <2>1. PICK k \in 1 .. 6, l \in 1 .. 6 :
            k < l /\ Order[i] = AllProjections[k] /\ Order[j] = AllProjections[l]
    BY <1>4, EventsAssumption
  <2>2. k \in {1, 2, 3, 4, 5, 6} /\ l \in {1, 2, 3, 4, 5, 6} OBVIOUS
  <2>3. \A m, n \in {1, 2, 3, 4, 5, 6} : AllProjections[m] = AllProjections[n] => m = n
    BY DEF AllProjections
  <2>4. AllProjections[k] = "grade" => k = 2 BY <2>2 DEF AllProjections
  <2>5. AllProjections[l] = "scoring" => l = 1 BY <2>2 DEF AllProjections
  <2> QED BY <2>1, <2>2, <2>3, <2>4, <2>5
<1>5. \A i, j \in DOMAIN Order : Order[i] = Order[j] => i = j BY <1>2, <1>4
<1>6. ASSUME NEW i \in DOMAIN Order, NEW j \in DOMAIN Order,
             Order[i] = "scoring", Order[j] = "grade"
      PROVE  i < j
  <2>1. i \in Nat /\ j \in Nat BY <1>2
  <2>2. i # j BY <1>6
  <2>3. ~(j < i) BY <1>4, <1>6
  <2> QED BY <2>1, <2>2, <2>3
<1> QED BY <1>2, <1>3, <1>5, <1>6

\* The projection an invocation is at is the first of those it read as pending.
LEMMA CurrentIsFirst ==
    ASSUME NEW p, proc[p].todo \subseteq Projections, proc[p].todo # {}
    PROVE  /\ Current(p) \in proc[p].todo
           /\ \A i, j \in DOMAIN Order :
                  Order[j] = Current(p) /\ Order[i] \in proc[p].todo => j <= i
<1> DEFINE I == {i \in DOMAIN Order : Order[i] \in proc[p].todo}
           First(i) == /\ Order[i] \in proc[p].todo
                       /\ \A j \in DOMAIN Order : Order[j] \in proc[p].todo => i <= j
           first == CHOOSE i \in DOMAIN Order : First(i)
<1>1. I \subseteq Nat BY OrderFacts
<1>2. I # {} BY DEF Projections
<1> HIDE DEF I
<1>3. \E i \in I : \A j \in I : i <= j BY <1>1, <1>2, LeastNumber
<1>4. \E i \in DOMAIN Order : First(i) BY <1>3 DEF I
<1> HIDE DEF First
<1>5. first \in DOMAIN Order /\ First(first) BY <1>4
<1>6. Current(p) = Order[first] BY DEF Current, First
<1> HIDE DEF first
<1>7. Current(p) \in proc[p].todo BY <1>5, <1>6 DEF First
<1>8. ASSUME NEW i \in DOMAIN Order, NEW j \in DOMAIN Order,
             Order[j] = Current(p), Order[i] \in proc[p].todo
      PROVE  j <= i
  <2>1. j = first BY <1>5, <1>6, <1>8, OrderFacts
  <2> QED BY <1>5, <1>8, <2>1 DEF First
<1> QED BY <1>7, <1>8

LEMMA SameCurrent ==
    ASSUME NEW p, proc'[p].todo = proc[p].todo PROVE Current(p)' = Current(p)
<1> DEFINE First(todo) == CHOOSE i \in DOMAIN Order :
               Order[i] \in todo /\ \A j \in DOMAIN Order : Order[j] \in todo => i <= j
<1>1. Current(p) = Order[First(proc[p].todo)] BY DEF Current
<1>2. Current(p)' = Order[First(proc'[p].todo)] BY DEF Current
<1> HIDE DEF First
<1> QED BY <1>1, <1>2

-----------------------------------------------------------------------------
(* The types, with what an event that exists has and what an invocation     *)
(* holds at each place of its code.                                         *)

DecayRead == [initial : Nat, remaining : Nat, next : 0 .. MaxDay, rule : Rules,
              now : 0 .. MaxDay]

Exists(e) == event[e].kind # "absent"

Recorded(e) ==
    IF Exists(e) THEN occurred[e] # None /\ \A q \in Projections : projection[e][q] # "absent"
    ELSE /\ event[e] = NoEvent /\ outbox[e].status = "absent" /\ occurred[e] = None
         /\ \A q \in Projections : projection[e][q] = "absent"

Dated == \A e \in Events, r \in Rules : contribution[<<e, r>>].next # None => Exists(e)

ProcessingPCs == {"load", "list", "check", "run", "swap", "finish", "skip", "mark"}

Fits(s) ==
    /\ s.pc \in ProcessingPCs => s.event \in Events /\ Exists(s.event)
    /\ s.pc \in {"check", "run", "swap", "finish"} => s.todo # {}
    /\ s.pc = "swap" => s.read \in [score : Int, grade : {0, 1}]
    /\ s.pc = "decay" => /\ s.event \in Events /\ Exists(s.event)
                         /\ s.read \in DecayRead /\ s.read.next <= s.read.now
    /\ \A e \in s.ids : event[e].visitor

Rows ==
    /\ LedgerTypeOK
    /\ event \in [Events -> Event]
    /\ outbox \in [Events -> Row]
    /\ projection \in [Events -> [Projections -> {"absent", "pending", "completed", "skipped"}]]
    /\ visitor \in Binding
    /\ touched \subseteq Events /\ enrolled \subseteq Events
    /\ \A e \in Events : Recorded(e)
    /\ Dated

Invocations == proc \in [Procs -> ProcState] /\ \A p \in Procs : Fits(proc[p])

Typed == Rows /\ Invocations

LEMMA TypedTypes == Typed => TypeOK
BY DEF Typed, Rows, Invocations, TypeOK

LEMMA NoneIsNew == None \notin Int /\ None \notin Events /\ None \notin Procs
BY LedgerAssumption, EventsAssumption

LEMMA InitTyped == Init => Typed
<1> SUFFICES ASSUME Init PROVE Typed
  OBVIOUS
<1> USE DEF Init, LedgerInit
<1>1. LedgerTypeOK
  <2>1. 0 \in 0 .. MaxDay BY LedgerAssumption
  <2> QED BY <2>1 DEF LedgerTypeOK, NoContribution
<1>2. event \in [Events -> Event] BY DEF Event, NoEvent
<1>3. outbox \in [Events -> Row] BY EventsAssumption DEF Row, NoRow
<1>4. visitor \in Binding BY DEF Binding, Unbound
<1>5. proc \in [Procs -> ProcState] BY DEF ProcState, Idle, PC
<1>6. ASSUME NEW e \in Events PROVE Recorded(e)
  BY DEF Recorded, Exists, NoEvent, NoRow
<1>7. ASSUME NEW p \in Procs PROVE Fits(proc[p])
  BY DEF Fits, ProcessingPCs, Idle
<1>8. Dated BY DEF Dated, NoContribution
<1> QED BY <1>1, <1>2, <1>3, <1>4, <1>5, <1>6, <1>7, <1>8 DEF Typed, Rows, Invocations

\* An event that was recorded stays, and it stays a visitor's.
Kept == \A e \in Events : Exists(e) => Exists(e)' /\ event'[e].visitor = event[e].visitor

LEMMA FitsKept ==
    ASSUME Rows, Kept, NEW s \in ProcState, Fits(s) PROVE Fits(s)'
<1>1. s.ids \subseteq Events BY DEF ProcState
<1>2. \A e \in s.ids : Exists(e) BY <1>1 DEF Fits, Rows, Recorded, Exists, NoEvent
<1> QED BY <1>1, <1>2 DEF Fits, Kept, Exists

\* One invocation goes on, whatever its step did to the rows.
LEMMA OneInvocation ==
    ASSUME Typed, Rows', Kept, NEW p \in Procs, NEW s \in ProcState, Fits(s),
           proc' = [proc EXCEPT ![p] = s]
    PROVE  Typed'
<1>1. proc' \in [Procs -> ProcState] BY DEF Typed, Invocations
<1>2. ASSUME NEW o \in Procs PROVE Fits(proc[o])'
  <2> DEFINE t == proc'[o]
  <2>1. t = s \/ t = proc[o] BY DEF Typed, Invocations
  <2>2. t \in ProcState /\ Fits(t) BY <2>1 DEF Typed, Invocations
  <2>3. ASSUME NEW u \in ProcState, Fits(u) PROVE Fits(u)'
    BY <2>3, FitsKept DEF Typed
  <2> QED BY <2>2, <2>3 DEF Fits
<1> QED BY <1>1, <1>2 DEF Typed, Invocations

LEMMA NoInvocation ==
    ASSUME Typed, Rows', Kept, UNCHANGED proc PROVE Typed'
<1>1. ASSUME NEW p \in Procs PROVE Typed'
  <2>1. proc[p] \in ProcState /\ Fits(proc[p]) BY DEF Typed, Invocations
  <2>2. proc' = [proc EXCEPT ![p] = proc[p]] BY DEF Typed, Invocations
  <2> QED BY <2>1, <2>2, OneInvocation
<1>2. ASSUME Procs = {} PROVE Typed' BY <1>2 DEF Typed, Invocations
<1> QED BY <1>1, <1>2

LEMMA Returning ==
    ASSUME Typed, Rows', Kept, NEW p \in Procs, Return(p) PROVE Typed'
<1>1. Idle \in ProcState BY DEF Idle, ProcState, PC
<1>2. Fits(Idle) BY DEF Fits, Idle, ProcessingPCs
<1> QED BY <1>1, <1>2, OneInvocation DEF Return

LEMMA Going ==
    ASSUME Typed, Rows', Kept, NEW p \in Procs, NEW pc \in PC, Goto(p, pc),
           Fits([proc[p] EXCEPT !.pc = pc])
    PROVE  Typed'
<1>1. proc[p] \in ProcState BY DEF Typed, Invocations
<1>2. [proc[p] EXCEPT !.pc = pc] \in ProcState BY <1>1 DEF ProcState
<1>3. proc' = [proc EXCEPT ![p] = [proc[p] EXCEPT !.pc = pc]]
  BY DEF Goto, Typed, Invocations
<1> QED BY <1>2, <1>3, OneInvocation

LEMMA Advancing ==
    ASSUME Typed, Rows', Kept, NEW p \in Procs, Advance(p),
           proc[p].pc \in {"check", "finish"}
    PROVE  Typed'
<1> DEFINE rest == proc[p].todo \ {Current(p)}
           pc == IF rest = {} THEN "mark" ELSE "check"
           s == [proc[p] EXCEPT !.todo = rest, !.pc = pc, !.read = None]
<1>1. proc[p] \in ProcState /\ Fits(proc[p]) BY DEF Typed, Invocations
<1>2. proc' = [proc EXCEPT ![p] = s] BY DEF Advance, Typed, Invocations
<1>3. rest \in SUBSET Projections BY <1>1 DEF ProcState
<1>4. pc \in {"mark", "check"} /\ (pc = "check" => rest # {}) OBVIOUS
<1> HIDE DEF rest, pc
<1>5. s \in ProcState BY <1>1, <1>3, <1>4 DEF ProcState, PC
<1>6. Fits(s) BY <1>1, <1>4 DEF Fits, ProcessingPCs, ProcState
<1> QED BY <1>2, <1>5, <1>6, OneInvocation

\* What reads only.
Reads == UNCHANGED <<people, work, effects, visitor>>

LEMMA RowsRead == ASSUME Rows, Reads PROVE Rows' /\ Kept
<1> USE DEF Reads, people, work, effects
<1>1. LedgerTypeOK' BY DEF Rows, LedgerTypeOK
<1>2. \A e \in Events : Recorded(e)' BY DEF Rows, Recorded, Exists
<1>3. Kept BY DEF Kept, Exists
<1>4. Dated' BY DEF Rows, Dated, Exists
<1> QED BY <1>1, <1>2, <1>3, <1>4 DEF Rows

-----------------------------------------------------------------------------
(* What the statements of the ledger compute.                              *)

LEMMA LedgerIs ==
    /\ IsFiniteSet(Events) /\ IsFiniteSet(Rules) /\ IsFiniteSet(Events \X Rules)
    /\ Points \in [Rules -> Int] /\ MaxDay \in Nat /\ GradeFrom \in Int
    /\ MaxScore \in [Rules -> (Nat \ {0}) \cup {None}]
    /\ DecayDays \in [Rules -> (Nat \ {0}) \cup {None}]
    /\ \A a \in Adjustments : a.amount \in Int
BY LedgerAssumption, FS_Product

LEMMA SumIsTotal == \A f : SumFunction(f) = Total(f, DOMAIN f)
BY DEF SumFunction, Total

\* What is left on a day is at most what there was, less as days go by, and all of it
\* without a decay.
LEMMA RemainingIs ==
    ASSUME LedgerTypeOK, NEW e \in Events, occurred[e] # None, NEW r \in Rules,
           NEW initial \in Nat, NEW now \in Int
    PROVE  /\ Remaining(e, r, initial, now) \in Nat
           /\ Remaining(e, r, initial, now) <= initial
           /\ \A later \in Int : now <= later =>
                  Remaining(e, r, initial, later) <= Remaining(e, r, initial, now)
           /\ DecayDays[r] = None => Remaining(e, r, initial, now) = initial
           /\ DecayDays[r] # None /\ Elapsed(e, now) >= DecayDays[r]
                  => Remaining(e, r, initial, now) = 0
<1> DEFINE D == DecayDays[r]
           Left(n) == Larger(0, D - Elapsed(e, n))
           Share(n) == (initial * Left(n)) \div D
<1>1. occurred[e] \in Nat BY DEF LedgerTypeOK
<1>2. \A n \in Int : Elapsed(e, n) \in Nat BY <1>1 DEF Elapsed, Larger
<1>3. CASE D = None
  BY <1>3 DEF Remaining
<1>4. CASE D # None
  <2>1. D \in Nat \ {0} BY <1>4, LedgerIs
  <2>2. \A n \in Int : Remaining(e, r, initial, n) = Share(n) BY <1>4 DEF Remaining
  <2>3. \A n \in Int : Left(n) \in Nat /\ Left(n) <= D BY <1>2, <2>1 DEF Larger
  <2>4. ASSUME NEW m \in Int, NEW n \in Int, m <= n PROVE Left(n) <= Left(m)
    BY <1>1, <2>1, <2>4 DEF Left, Elapsed, Larger
  <2>5. Elapsed(e, now) >= D => Left(now) = 0 BY <1>2, <2>1 DEF Larger
  <2> HIDE DEF Left, D
  <2>6. \A n \in Int : initial * Left(n) \in Nat BY <2>3, Product
  <2>7. \A n \in Int : Share(n) \in Nat BY <2>1, <2>6, ShareIs
  <2>8. Share(now) <= initial
    <3>1. initial * Left(now) <= initial * D BY <2>1, <2>3, ProductMore
    <3>2. initial * D \in Nat BY <2>1, Product
    <3>3. Share(now) <= (initial * D) \div D BY <2>1, <2>6, <3>1, <3>2, ShareMore
    <3> QED BY <2>1, <3>3, ShareAll
  <2>9. ASSUME NEW later \in Int, now <= later PROVE Share(later) <= Share(now)
    <3>1. initial * Left(later) <= initial * Left(now)
      BY <2>3, <2>4, <2>9, ProductMore
    <3> QED BY <2>1, <2>6, <3>1, ShareMore
  <2>10. Left(now) = 0 => Share(now) = 0 BY <2>1, ShareNone
  <2> HIDE DEF Share
  <2> QED BY <1>4, <2>2, <2>5, <2>7, <2>8, <2>9, <2>10 DEF D
<1> QED BY <1>3, <1>4

LEMMA NextDecayIs ==
    ASSUME LedgerTypeOK, NEW e \in Events, occurred[e] # None, NEW r \in Rules,
           NEW now \in 0 .. MaxDay
    PROVE  /\ NextDecay(e, r, now) \in (0 .. MaxDay + 1) \cup {None}
           /\ NextDecay(e, r, now) = None
                  <=> DecayDays[r] = None \/ Elapsed(e, now) >= DecayDays[r]
           /\ \A initial \in Nat : NextDecay(e, r, now) # None =>
                  Remaining(e, r, initial, NextDecay(e, r, now) - 1)
                      = Remaining(e, r, initial, now)
<1>1. occurred[e] \in 0 .. MaxDay /\ MaxDay \in Nat BY LedgerIs DEF LedgerTypeOK
<1>2. Elapsed(e, now) \in Nat /\ occurred[e] + Elapsed(e, now) \in 0 .. MaxDay
  BY <1>1 DEF Elapsed, Larger
<1>3. Elapsed(e, occurred[e] + Elapsed(e, now)) = Elapsed(e, now)
  BY <1>1 DEF Elapsed, Larger
<1>4. occurred[e] + Elapsed(e, now) + 1 \in 0 .. MaxDay + 1 BY <1>1, <1>2
<1>5. occurred[e] + Elapsed(e, now) + 1 # None BY <1>4, NoneIsNew
<1>6. (occurred[e] + Elapsed(e, now) + 1) - 1 = occurred[e] + Elapsed(e, now)
  BY <1>1, <1>2
<1> QED BY <1>3, <1>4, <1>5, <1>6 DEF NextDecay, Remaining

LEMMA RuleTotalIs ==
    ASSUME LedgerTypeOK, NEW r \in Rules
    PROVE  LET f == [e \in Events |-> contribution[<<e, r>>].remaining]
           IN Summable(f, Events) /\ RuleTotal(r) = Total(f, Events) /\ RuleTotal(r) \in Int
<1> DEFINE f == [e \in Events |-> contribution[<<e, r>>].remaining]
<1>1. Summable(f, Events) BY LedgerIs DEF LedgerTypeOK, Summable
<1>2. DOMAIN f = Events OBVIOUS
<1>3. RuleTotal(r) = SumFunction(f) BY DEF RuleTotal
<1> HIDE DEF f
<1>4. RuleTotal(r) = Total(f, Events) BY <1>2, <1>3, SumIsTotal
<1>5. RuleTotal(r) \in Int BY <1>1, <1>4, TotalAny
<1> QED BY <1>1, <1>4, <1>5 DEF f

LEMMA AvailableIs ==
    ASSUME LedgerTypeOK, NEW e \in Events, occurred[e] # None, NEW r \in Rules,
           NEW now \in Int
    PROVE  /\ Available(e, r, now) \in Int
           /\ Points[r] > 0 => /\ Initial(r) \in Nat
                               /\ Available(e, r, now) = Remaining(e, r, Initial(r), now)
                               /\ Available(e, r, now) \in Nat
                               /\ Available(e, r, now) <= Initial(r)
           /\ Points[r] <= 0 => Available(e, r, now) = Points[r]
<1>1. Points[r] \in Int /\ RuleTotal(r) \in Int BY LedgerIs, RuleTotalIs
<1>2. MaxScore[r] # None => MaxScore[r] \in Nat BY LedgerIs
<1>3. Points[r] > 0 => Initial(r) \in Nat BY <1>1, <1>2 DEF Initial, Smaller, Larger
<1>4. Points[r] > 0 => /\ Remaining(e, r, Initial(r), now) \in Nat
                       /\ Remaining(e, r, Initial(r), now) <= Initial(r)
  BY <1>3, RemainingIs
<1> QED BY <1>1, <1>3, <1>4 DEF Available

LEMMA AppliedTypes ==
    ASSUME LedgerTypeOK, NEW e \in Events, occurred[e] # None, Exists(e), Dated,
           NEW now \in 0 .. MaxDay, NEW new \in SUBSET Rules, ApplyEffects(e, now, new),
           UNCHANGED <<contact, day, occurred, adjusted, grade, event>>
    PROVE  LedgerTypeOK' /\ Dated'
<1> DEFINE d == [r \in new |-> Available(e, r, now)]
<1>1. now \in Int /\ MaxDay \in Nat BY LedgerIs
<1>2. SumFunction(d) \in Int
  <2>1. IsFiniteSet(new) BY LedgerIs, FS_Subset
  <2>2. \A r \in new : d[r] \in Int BY <1>1, AvailableIs
  <2>3. DOMAIN d = new OBVIOUS
  <2> HIDE DEF d
  <2>4. Total(d, new) \in Int BY <2>1, <2>2, TotalAny DEF Summable
  <2> QED BY <2>3, <2>4, SumIsTotal
<1>3. score' \in Int /\ logged' \in Int /\ category' \in Int
  <2>1. score' = score + SumFunction(d) /\ logged' = logged + SumFunction(d)
        /\ category' = category + SumFunction(d)
    BY DEF ApplyEffects
  <2> HIDE DEF d
  <2> QED BY <1>2, <2>1 DEF LedgerTypeOK
<1>4. scored' \subseteq Events \X Rules BY DEF ApplyEffects, LedgerTypeOK
<1> DEFINE Entry == [initial : Nat, remaining : Nat, next : (0 .. MaxDay + 1) \cup {None}]
           fresh(k) == [initial |-> Initial(k[2]), remaining |-> Available(e, k[2], now),
                        next |-> IF Available(e, k[2], now) > 0 THEN NextDecay(e, k[2], now)
                                 ELSE None]
           Gets(k) == k[1] = e /\ k[2] \in new /\ Points[k[2]] > 0
<1>5. ASSUME NEW k \in Events \X Rules, Gets(k) PROVE fresh(k) \in Entry
  <2>1. k[2] \in Rules BY <1>5
  <2>2. Initial(k[2]) \in Nat /\ Available(e, k[2], now) \in Nat
    BY <1>1, <1>5, <2>1, AvailableIs
  <2>3. NextDecay(e, k[2], now) \in (0 .. MaxDay + 1) \cup {None}
    BY <2>1, NextDecayIs
  <2> QED BY <2>2, <2>3
<1>6. contribution' = [k \in Events \X Rules |-> IF Gets(k) THEN fresh(k) ELSE contribution[k]]
  BY DEF ApplyEffects
<1> HIDE DEF fresh, Gets
<1>7. contribution' \in [Events \X Rules -> Entry] BY <1>5, <1>6 DEF LedgerTypeOK
<1>8. LedgerTypeOK' BY <1>3, <1>4, <1>7 DEF LedgerTypeOK
<1>9. Dated'
  <2>1. ASSUME NEW f \in Events, NEW r \in Rules, contribution'[<<f, r>>].next # None
        PROVE  Exists(f)
    <3> DEFINE k == <<f, r>>
    <3>1. k \in Events \X Rules /\ k[1] = f OBVIOUS
    <3>2. CASE Gets(k) BY <3>1, <3>2 DEF Gets
    <3>3. CASE ~Gets(k)
      <4>1. contribution'[k] = contribution[k] BY <1>6, <3>1, <3>3
      <4> QED BY <2>1, <4>1 DEF Dated
    <3> QED BY <3>2, <3>3
  <2> QED BY <2>1 DEF Dated, Exists
<1> QED BY <1>8, <1>9

-----------------------------------------------------------------------------
(* Steps, by the rows they write.                                          *)

LEMMA LedgerRows ==
    ASSUME Rows, LedgerTypeOK', Dated', touched' \subseteq Events, enrolled' \subseteq Events,
           UNCHANGED <<occurred, work, visitor>>
    PROVE  Rows' /\ Kept
<1> USE DEF work
<1>1. \A e \in Events : Recorded(e)' BY DEF Rows, Recorded, Exists
<1>2. Kept BY DEF Kept, Exists
<1> QED BY <1>1, <1>2 DEF Rows

LEMMA OutboxRows ==
    ASSUME Rows, outbox' \in [Events -> Row],
           \A e \in Events : outbox'[e].status # "absent" => outbox[e].status # "absent",
           UNCHANGED <<people, event, projection, effects, visitor>>
    PROVE  Rows' /\ Kept
<1> USE DEF people, effects
<1>1. LedgerTypeOK' BY DEF Rows, LedgerTypeOK
<1>2. \A e \in Events : Recorded(e)' BY DEF Rows, Recorded, Exists
<1>3. Kept BY DEF Kept, Exists
<1>4. Dated' BY DEF Rows, Dated, Exists
<1> QED BY <1>1, <1>2, <1>3, <1>4 DEF Rows

LEMMA ProjectionRows ==
    ASSUME Rows,
           projection' \in
               [Events -> [Projections -> {"absent", "pending", "completed", "skipped"}]],
           \A e \in Events, q \in Projections :
               projection'[e][q] = "absent" <=> projection[e][q] = "absent",
           UNCHANGED <<people, event, outbox, effects, visitor>>
    PROVE  Rows' /\ Kept
<1> USE DEF people, effects
<1>1. LedgerTypeOK' BY DEF Rows, LedgerTypeOK
<1>2. \A e \in Events : Recorded(e)' BY DEF Rows, Recorded, Exists
<1>3. Kept BY DEF Kept, Exists
<1>4. Dated' BY DEF Rows, Dated, Exists
<1> QED BY <1>1, <1>2, <1>3, <1>4 DEF Rows

LEMMA VisitorRows ==
    ASSUME Rows, visitor' \in Binding, UNCHANGED <<people, work, effects>>
    PROVE  Rows' /\ Kept
<1> USE DEF people, work, effects
<1>1. LedgerTypeOK' BY DEF Rows, LedgerTypeOK
<1>2. \A e \in Events : Recorded(e)' BY DEF Rows, Recorded, Exists
<1>3. Kept BY DEF Kept, Exists
<1>4. Dated' BY DEF Rows, Dated, Exists
<1> QED BY <1>1, <1>2, <1>3, <1>4 DEF Rows

LEMMA RowsFreed ==
    /\ NoRow \in Row
    /\ \A row \in Row, status \in {"pending", "processed"}, due \in BOOLEAN :
           Free(row, status, due) \in Row
    /\ Free(NoRow, "pending", TRUE) \in Row
<1>1. NoRow \in Row BY EventsAssumption DEF NoRow, Row
<1>2. \A row \in Row, status \in {"pending", "processed"}, due \in BOOLEAN :
          Free(row, status, due) \in Row
  BY DEF Free, Row
<1> QED BY <1>1, <1>2

LEMMA CreatedRows ==
    ASSUME Rows, NEW e \in Events, NEW fresh \in Event, fresh.kind # "absent", Create(e, fresh)
    PROVE  /\ event' \in [Events -> Event] /\ outbox' \in [Events -> Row]
           /\ projection' \in
                  [Events -> [Projections -> {"absent", "pending", "completed", "skipped"}]]
           /\ occurred' \in [Events -> (0 .. MaxDay) \cup {None}]
           /\ \A f \in Events : Recorded(f)'
           /\ Kept /\ \A f \in Events : Exists(f) => Exists(f)'
<1>1. event' \in [Events -> Event] BY DEF Rows, Create
<1>2. Free(NoRow, "pending", TRUE) \in Row BY RowsFreed
<1>3. outbox' \in [Events -> Row] BY <1>2 DEF Rows, Create
<1>4. projection' \in [Events -> [Projections -> {"absent", "pending", "completed", "skipped"}]]
  BY DEF Rows, Create
<1>5. occurred' \in [Events -> (0 .. MaxDay) \cup {None}]
  BY DEF Rows, LedgerTypeOK, Create
<1>6. day # None BY NoneIsNew DEF Rows, LedgerTypeOK
<1>7. ASSUME NEW f \in Events PROVE Recorded(f)'
  <2>1. CASE f = e
    BY <1>6, <2>1 DEF Create, Recorded, Exists, Rows, LedgerTypeOK
  <2>2. CASE f # e
    BY <2>2 DEF Create, Recorded, Exists, Rows, LedgerTypeOK
  <2> QED BY <2>1, <2>2
<1>8. Kept BY DEF Create, Kept, Exists, Rows
<1>9. \A f \in Events : Exists(f) => Exists(f)' BY <1>8 DEF Kept
<1> QED BY <1>1, <1>3, <1>4, <1>5, <1>7, <1>8, <1>9
-----------------------------------------------------------------------------
(* Each step keeps the types.                                              *)

LEMMA RecordTyped ==
    ASSUME Typed, NEW e \in Events, Record(e) \/ RecordVisit(e) PROVE Typed'
<1>1. PICK fresh \in Event : fresh.kind # "absent" /\ Create(e, fresh)
  BY DEF Record, RecordVisit, Event
<1>2. UNCHANGED <<clock, adjusted, effects, visitor, proc>> BY DEF Record, RecordVisit
<1> USE DEF clock, effects
<1>3. Kept /\ occurred' \in [Events -> (0 .. MaxDay) \cup {None}]
  BY <1>1, CreatedRows DEF Typed
<1>4. LedgerTypeOK' BY <1>2, <1>3 DEF Typed, Rows, LedgerTypeOK
<1>5. Dated' BY <1>2, <1>3 DEF Typed, Rows, Dated, Kept
<1>6. Rows' BY <1>1, <1>2, <1>4, <1>5, CreatedRows DEF Typed, Rows
<1> QED BY <1>2, <1>3, <1>6, NoInvocation

LEMMA OutboxTyped ==
    ASSUME Typed, NEW e \in Events, Purge(e) \/ LeaseExpires(e) \/ RetryFallsDue(e)
    PROVE  Typed'
<1>1. NoRow \in Row BY RowsFreed
<1>2. outbox' \in [Events -> Row]
  <2>1. outbox \in [Events -> Row] BY DEF Typed, Rows
  <2>2. CASE Purge(e) BY <1>1, <2>1, <2>2 DEF Purge
  <2>3. CASE LeaseExpires(e) BY <2>1, <2>3 DEF LeaseExpires, Row
  <2>4. CASE RetryFallsDue(e) BY <2>1, <2>4 DEF RetryFallsDue, Row
  <2> QED BY <2>2, <2>3, <2>4
<1>3. \A f \in Events : outbox'[f].status # "absent" => outbox[f].status # "absent"
  BY DEF Purge, LeaseExpires, RetryFallsDue, Typed, Rows, Row, NoRow
<1>4. UNCHANGED <<people, event, projection, effects, visitor, proc>>
  BY DEF Purge, LeaseExpires, RetryFallsDue
<1>5. Rows' /\ Kept BY <1>2, <1>3, <1>4, OutboxRows DEF Typed
<1> QED BY <1>4, <1>5, NoInvocation

LEMMA VisitorTyped ==
    ASSUME Typed, Bind \/ HistoryLeaseExpires PROVE Typed'
<1>1. visitor' \in Binding BY DEF Bind, HistoryLeaseExpires, Typed, Rows, Binding
<1>2. Rows' /\ Kept BY <1>1, VisitorRows DEF Bind, HistoryLeaseExpires, Typed
<1> QED BY <1>2, NoInvocation DEF Bind, HistoryLeaseExpires

LEMMA ContactTyped ==
    ASSUME Typed, ArchiveContact \/ RestoreContact \/ NextDay PROVE Typed'
<1> USE DEF ArchiveContact, RestoreContact, NextDay, work, effects
<1>1. LedgerTypeOK' BY LedgerIs DEF Typed, Rows, LedgerTypeOK
<1>2. Dated' BY DEF Typed, Rows, Dated, Exists
<1>3. Rows' /\ Kept BY <1>1, <1>2, LedgerRows DEF Typed, Rows
<1> QED BY <1>3, NoInvocation

LEMMA ScoreTyped ==
    ASSUME Typed, Reconcile \/ \E a \in Adjustments : Adjust(a) PROVE Typed'
<1> USE DEF beside
<1>1. CASE Reconcile
  <2> USE <1>1 DEF Reconcile, ReconcileContactScores
  <2>1. LedgerTypeOK' BY DEF Typed, Rows, LedgerTypeOK
  <2>2. Dated' BY DEF Typed, Rows, Dated, Exists
  <2>3. Rows' /\ Kept BY <2>1, <2>2, LedgerRows DEF Typed, Rows, work
  <2> QED BY <2>3, NoInvocation
<1>2. ASSUME NEW a \in Adjustments, Adjust(a) PROVE Typed'
  <2> USE <1>2 DEF Adjust
  <2> DEFINE current == IF a.scope = "total" THEN score ELSE category
             delta == IF a.op = "set" THEN a.amount - current ELSE a.amount
  <2>1. AdjustScore(a) OBVIOUS
  <2>2. score \in Int /\ category \in Int /\ logged \in Int /\ a.amount \in Int
    BY LedgerIs DEF Typed, Rows, LedgerTypeOK
  <2>3. delta \in Int BY <2>2
  <2>4. /\ score' = (IF a.scope = "total" THEN score + delta ELSE score)
        /\ category' = (IF a.scope = "category" THEN category + delta ELSE category)
        /\ logged' = logged + delta
        /\ adjusted' = adjusted \cup {[of |-> a, delta |-> delta]}
        /\ UNCHANGED <<contact, day, occurred, scored, contribution, grade>>
    BY <2>1 DEF AdjustScore
  <2> HIDE DEF delta
  <2>5. score' \in Int /\ category' \in Int /\ logged' \in Int BY <2>2, <2>3, <2>4
  <2>6. adjusted' \subseteq [of : Adjustments, delta : Int]
    BY <2>3, <2>4 DEF Typed, Rows, LedgerTypeOK
  <2>7. LedgerTypeOK' BY <2>4, <2>5, <2>6 DEF Typed, Rows, LedgerTypeOK
  <2>8. Dated' BY <2>4 DEF Typed, Rows, Dated, Exists
  <2>9. Rows' /\ Kept BY <2>4, <2>7, <2>8, LedgerRows DEF Typed, Rows, work
  <2> QED BY <2>9, NoInvocation
<1> QED BY <1>1, <1>2

LEMMA ClaimTyped ==
    ASSUME Typed, NEW p \in Procs, NEW e \in Events, Claim(p, e) PROVE Typed'
<1> DEFINE row == [status |-> "processing", lease |-> p, expired |-> FALSE, due |-> TRUE,
                   attempts |-> outbox[e].attempts + 1]
           s == [Idle EXCEPT !.pc = "load", !.event = e]
<1>1. outbox[e] \in Row /\ outbox[e].attempts < MaxAttempts /\ outbox[e].status # "absent"
  BY DEF Claim, MayClaim, DueWork, Typed, Rows
<1>2. outbox[e].attempts + 1 \in 0 .. MaxAttempts BY <1>1, EventsAssumption DEF Row
<1>3. row \in Row BY <1>2 DEF Row
<1>4. outbox' = [outbox EXCEPT ![e] = row] BY DEF Claim, Typed, Rows
<1>5. outbox' \in [Events -> Row] BY <1>3, <1>4 DEF Typed, Rows
<1>6. \A f \in Events : outbox'[f].status # "absent" => outbox[f].status # "absent"
  BY <1>1, <1>4 DEF Typed, Rows
<1>7. UNCHANGED <<people, event, projection, effects, visitor>> BY DEF Claim
<1>8. Rows' /\ Kept BY <1>5, <1>6, <1>7, OutboxRows DEF Typed
<1>9. Exists(e) BY <1>1 DEF Typed, Rows, Recorded
<1>10. s \in ProcState BY DEF Idle, ProcState, PC
<1>11. Fits(s) BY <1>9 DEF Fits, Idle, ProcessingPCs
<1>12. proc' = [proc EXCEPT ![p] = s] BY DEF Claim
<1> QED BY <1>8, <1>10, <1>11, <1>12, OneInvocation

LEMMA LoadTyped ==
    ASSUME Typed, NEW p \in Procs, Load(p) PROVE Typed'
<1>1. Rows' /\ Kept BY RowsRead DEF Load, Typed, Reads
<1>2. proc[p] \in ProcState /\ Fits(proc[p]) /\ proc[p].pc = "load"
  BY DEF Load, Typed, Invocations
<1>3. event[proc[p].event].owner \in {"nobody", "live", "history"}
  BY <1>2 DEF Fits, ProcessingPCs, Typed, Rows, Event
<1>4. CASE Return(p) BY <1>1, <1>4, Returning
<1>5. CASE ~Return(p)
  <2> DEFINE next == IF event[proc[p].event].owner # "nobody" /\ Active THEN "list" ELSE "skip"
             s == [proc[p] EXCEPT !.owner = event[proc[p].event].owner, !.pc = next]
  <2>1. proc' = [proc EXCEPT ![p] = s] BY <1>5 DEF Load, Typed, Invocations
  <2>2. next \in {"list", "skip"} OBVIOUS
  <2> HIDE DEF next
  <2>3. s \in ProcState BY <1>2, <1>3, <2>2 DEF ProcState, PC
  <2>4. Fits(s) BY <1>2, <2>2 DEF Fits, ProcessingPCs, ProcState
  <2> QED BY <1>1, <2>1, <2>3, <2>4, OneInvocation
<1> QED BY <1>4, <1>5

LEMMA ListTyped ==
    ASSUME Typed, NEW p \in Procs, List(p) PROVE Typed'
<1> DEFINE todo == {q \in Projections : projection[proc[p].event][q] = "pending"}
           next == IF todo = {} THEN "mark" ELSE "check"
           s == [proc[p] EXCEPT !.todo = todo, !.pc = next]
<1>1. Rows' /\ Kept BY RowsRead DEF List, Typed, Reads
<1>2. proc[p] \in ProcState /\ Fits(proc[p]) /\ proc[p].pc = "list"
  BY DEF List, Typed, Invocations
<1>3. proc' = [proc EXCEPT ![p] = s] BY DEF List, Typed, Invocations
<1>4. todo \in SUBSET Projections /\ next \in {"mark", "check"}
      /\ (next = "check" => todo # {})
  OBVIOUS
<1> HIDE DEF todo, next
<1>5. s \in ProcState BY <1>2, <1>4 DEF ProcState, PC
<1>6. Fits(s) BY <1>2, <1>4 DEF Fits, ProcessingPCs, ProcState
<1> QED BY <1>1, <1>3, <1>5, <1>6, OneInvocation

\* What a processor's own steps have in common.
LEMMA AtProjection ==
    ASSUME Typed, NEW p \in Procs, proc[p].pc \in {"check", "run", "swap", "finish"}
    PROVE  /\ proc[p] \in ProcState /\ Fits(proc[p])
           /\ proc[p].event \in Events /\ Exists(proc[p].event)
           /\ Current(p) \in proc[p].todo /\ Current(p) \in Projections
<1>1. proc[p] \in ProcState /\ Fits(proc[p]) BY DEF Typed, Invocations
<1>2. proc[p].todo \subseteq Projections /\ proc[p].todo # {}
  BY <1>1 DEF ProcState, Fits
<1>3. Current(p) \in proc[p].todo BY <1>2, CurrentIsFirst
<1> QED BY <1>1, <1>2, <1>3 DEF Fits, ProcessingPCs

\* Only what is pending is decided.
LEMMA DecidedRows ==
    ASSUME Typed, NEW p \in Procs, NEW outcome \in {"completed", "skipped"},
           proc[p].pc \in {"check", "finish"}, SetFinished(p, outcome),
           UNCHANGED <<people, event, outbox, effects, visitor>>
    PROVE  Rows' /\ Kept
<1> DEFINE e == proc[p].event
           c == Current(p)
<1>1. e \in Events /\ c \in Projections BY AtProjection
<1>2. projection' = projection
      \/ (projection[e][c] = "pending" /\ projection' = [projection EXCEPT ![e][c] = outcome])
  BY DEF SetFinished
<1> HIDE DEF e, c
<1>3. projection' \in [Events -> [Projections -> {"absent", "pending", "completed", "skipped"}]]
  BY <1>1, <1>2 DEF Typed, Rows
<1>4. \A f \in Events, q \in Projections :
          projection'[f][q] = "absent" <=> projection[f][q] = "absent"
  BY <1>1, <1>2 DEF Typed, Rows
<1> QED BY <1>3, <1>4, ProjectionRows DEF Typed

LEMMA FinishTyped ==
    ASSUME Typed, NEW p \in Procs, Finish(p) \/ SkipReplayed(p) PROVE Typed'
<1>1. Rows' /\ Kept BY DecidedRows DEF Finish, SkipReplayed
<1> QED BY <1>1, Advancing DEF Finish, SkipReplayed

LEMMA SkipTyped ==
    ASSUME Typed, NEW p \in Procs, SkipPending(p) PROVE Typed'
<1> DEFINE e == proc[p].event
<1>1. proc[p] \in ProcState /\ Fits(proc[p]) /\ proc[p].pc = "skip"
  BY DEF SkipPending, Typed, Invocations
<1>2. e \in Events BY <1>1 DEF Fits, ProcessingPCs
<1>3. \/ projection' = projection
      \/ projection' = [projection EXCEPT ![e] = [q \in Projections |->
              IF projection[e][q] = "pending" THEN "skipped" ELSE projection[e][q]]]
  BY DEF SkipPending
<1> HIDE DEF e
<1>4. projection' \in [Events -> [Projections -> {"absent", "pending", "completed", "skipped"}]]
  BY <1>2, <1>3 DEF Typed, Rows
<1>5. \A f \in Events, q \in Projections :
          projection'[f][q] = "absent" <=> projection[f][q] = "absent"
  BY <1>2, <1>3 DEF Typed, Rows
<1>6. Rows' /\ Kept BY <1>4, <1>5, ProjectionRows DEF Typed, SkipPending
<1>7. Fits([proc[p] EXCEPT !.pc = "mark"])
  BY <1>1 DEF Fits, ProcessingPCs, ProcState
<1> QED BY <1>6, <1>7, Going DEF SkipPending, PC

\* On to another place with nothing new in hand.
LEMMA GoingOn ==
    ASSUME Typed, Rows', Kept, NEW p \in Procs, NEW pc \in {"run", "skip", "finish"},
           proc[p].pc \in {"check", "run", "swap", "finish"}, Goto(p, pc)
    PROVE  Typed'
<1>1. proc[p] \in ProcState /\ Fits(proc[p]) BY AtProjection
<1>2. Fits([proc[p] EXCEPT !.pc = pc]) BY <1>1 DEF Fits, ProcessingPCs, ProcState
<1> QED BY <1>2, Going DEF PC

LEMMA CheckTyped ==
    ASSUME Typed, NEW p \in Procs, CheckContact(p) PROVE Typed'
<1>1. Rows' /\ Kept BY RowsRead DEF CheckContact, Typed, Reads
<1>2. Checked(p) \in {"run", "skip", "finish"} BY DEF Checked
<1> QED BY <1>1, <1>2, GoingOn DEF CheckContact

LEMMA ScoringTyped ==
    ASSUME Typed, NEW p \in Procs, ProjectScoring(p) PROVE Typed'
<1> DEFINE e == proc[p].event
<1>1. proc[p].pc = "run" BY DEF ProjectScoring, Running
<1>2. e \in Events /\ Exists(e) BY <1>1, AtProjection
<1>3. UNCHANGED <<people, work, grade, touched, enrolled, visitor>> BY DEF ProjectScoring
<1>4. occurred[e] # None BY <1>2 DEF Typed, Rows, Recorded
<1>5. LedgerTypeOK' /\ Dated'
  <2>1. CASE UNCHANGED ledger
    BY <1>3, <2>1 DEF ledger, people, work, Typed, Rows, LedgerTypeOK, Dated, Exists
  <2>2. CASE ApplyScore(e, day)
    <3>1. ApplyEffects(e, day, NewEffects(e)) BY <2>2 DEF ApplyScore
    <3>2. NewEffects(e) \in SUBSET Rules BY DEF NewEffects
    <3>3. day \in 0 .. MaxDay BY DEF Typed, Rows, LedgerTypeOK
    <3> HIDE DEF e
    <3> QED BY <1>2, <1>3, <1>4, <3>1, <3>2, <3>3, AppliedTypes DEF Typed, Rows, people, work
  <2> QED BY <2>1, <2>2 DEF ProjectScoring
<1>6. Rows' /\ Kept BY <1>3, <1>5, LedgerRows DEF Typed, Rows, people
<1> QED BY <1>1, <1>6, GoingOn DEF ProjectScoring

LEMMA GradeTyped ==
    ASSUME Typed, NEW p \in Procs, ProjectGrade(p) PROVE Typed'
<1>1. Rows' /\ Kept BY RowsRead DEF ProjectGrade, Typed, Reads
<1>2. proc[p].pc = "run" BY DEF ProjectGrade, Running
<1>3. CASE Goto(p, "finish") BY <1>1, <1>2, <1>3, GoingOn
<1>4. CASE ~Goto(p, "finish")
  <2> DEFINE read == [score |-> score, grade |-> grade]
             s == [proc[p] EXCEPT !.pc = "swap", !.read = read]
  <2>1. proc' = [proc EXCEPT ![p] = s]
    BY <1>4 DEF ProjectGrade, Goto, Typed, Invocations
  <2>2. read \in [score : Int, grade : {0, 1}] BY DEF Typed, Rows, LedgerTypeOK
  <2>3. proc[p] \in ProcState /\ Fits(proc[p]) BY <1>2, AtProjection
  <2> HIDE DEF read
  <2>4. s \in ProcState BY <2>2, <2>3 DEF ProcState, PC
  <2>5. Fits(s) BY <1>2, <2>2, <2>3 DEF Fits, ProcessingPCs, ProcState
  <2> QED BY <1>1, <2>1, <2>4, <2>5, OneInvocation
<1> QED BY <1>3, <1>4

LEMMA SwapTyped ==
    ASSUME Typed, NEW p \in Procs, SwapGrade(p) PROVE Typed'
<1>1. UNCHANGED <<people, work, ledger, touched, enrolled, visitor>> BY DEF SwapGrade
<1>2. grade' \in {0, 1}
  BY DEF SwapGrade, SetGradePoints, GradeOf, Typed, Rows, LedgerTypeOK
<1>3. LedgerTypeOK' BY <1>1, <1>2 DEF people, ledger, Typed, Rows, LedgerTypeOK
<1>4. Dated' BY <1>1 DEF ledger, work, Typed, Rows, Dated, Exists
<1>5. Rows' /\ Kept BY <1>1, <1>3, <1>4, LedgerRows DEF Typed, Rows, people
<1> DEFINE next == IF Active /\ score = proc[p].read.score /\ grade = proc[p].read.grade
                   THEN "finish" ELSE "run"
           s == [proc[p] EXCEPT !.read = None, !.pc = next]
<1>6. proc' = [proc EXCEPT ![p] = s] BY DEF SwapGrade, Typed, Invocations
<1>7. next \in {"finish", "run"} OBVIOUS
<1>8. proc[p] \in ProcState /\ Fits(proc[p]) /\ proc[p].pc = "swap"
  BY AtProjection DEF SwapGrade
<1> HIDE DEF next
<1>9. s \in ProcState BY <1>7, <1>8 DEF ProcState, PC
<1>10. Fits(s) BY <1>7, <1>8 DEF Fits, ProcessingPCs, ProcState
<1> QED BY <1>5, <1>6, <1>9, <1>10, OneInvocation

LEMMA EffectTyped ==
    ASSUME Typed, NEW p \in Procs, ProjectCampaign(p) \/ ProjectEnrollment(p) PROVE Typed'
<1>1. proc[p].pc = "run" BY DEF ProjectCampaign, ProjectEnrollment, Running
<1>2. proc[p].event \in Events BY <1>1, AtProjection
<1>3. UNCHANGED <<people, work, ledger, grade, visitor>>
  BY DEF ProjectCampaign, ProjectEnrollment
<1>4. touched' \subseteq Events /\ enrolled' \subseteq Events
  BY <1>2 DEF ProjectCampaign, ProjectEnrollment, Typed, Rows
<1>5. LedgerTypeOK' BY <1>3 DEF people, ledger, Typed, Rows, LedgerTypeOK
<1>6. Dated' BY <1>3 DEF ledger, work, Typed, Rows, Dated, Exists
<1>7. Rows' /\ Kept BY <1>3, <1>4, <1>5, <1>6, LedgerRows DEF Typed, people
<1> QED BY <1>1, <1>7, GoingOn DEF ProjectCampaign, ProjectEnrollment

LEMMA GivenBackTyped ==
    ASSUME Typed, NEW p \in Procs, MarkProcessed(p) \/ Fail(p) PROVE Typed'
<1> DEFINE e == proc[p].event
<1>1. UNCHANGED <<people, event, projection, effects, visitor>> /\ Return(p)
  BY DEF MarkProcessed, Fail
<1>2. \/ outbox' = outbox
      \/ \E status \in {"pending", "processed"}, due \in BOOLEAN :
             Holds(p, e) /\ outbox' = [outbox EXCEPT ![e] = Free(outbox[e], status, due)]
  BY DEF MarkProcessed, Fail
<1>3. Fits(proc[p]) /\ proc[p].pc \in ProcessingPCs
  BY DEF MarkProcessed, Fail, Processing, ProcessingPCs, Typed, Invocations
<1>4. e \in Events BY <1>3 DEF Fits
<1> HIDE DEF e
<1>5. outbox' \in [Events -> Row] BY <1>2, <1>4, RowsFreed DEF Typed, Rows
<1>6. \A f \in Events : outbox'[f].status # "absent" => outbox[f].status # "absent"
  BY <1>2, <1>4 DEF Holds, Typed, Rows
<1>7. Rows' /\ Kept BY <1>1, <1>5, <1>6, OutboxRows DEF Typed
<1> QED BY <1>1, <1>7, Returning

LEMMA CrashTyped == ASSUME Typed, NEW p \in Procs, Crash(p) PROVE Typed'
BY RowsRead, Returning DEF Crash, Typed, Reads

LEMMA HistoryTyped ==
    ASSUME Typed, NEW p \in Procs,
           ClaimHistory(p) \/ FindContact(p) \/ LookForWork(p) \/ ReleaseHistory(p)
               \/ FailHistory(p)
    PROVE  Typed'
<1>1. proc[p] \in ProcState /\ Fits(proc[p]) BY DEF Typed, Invocations
<1>2. ASSUME NEW pc \in {"contact", "events", "close", "release"}
      PROVE  Fits([proc[p] EXCEPT !.pc = pc]) /\ pc \in PC
  BY <1>1 DEF Fits, ProcessingPCs, ProcState, PC
<1>3. CASE ClaimHistory(p)
  <2>1. visitor' \in Binding BY <1>3 DEF ClaimHistory, Typed, Rows, Binding
  <2>2. Rows' /\ Kept BY <1>3, <2>1, VisitorRows DEF ClaimHistory, Typed
  <2> QED BY <1>2, <1>3, <2>2, Going DEF ClaimHistory
<1>4. CASE FindContact(p) \/ LookForWork(p)
  <2>1. Rows' /\ Kept BY <1>4, RowsRead DEF FindContact, LookForWork, Typed, Reads
  <2>2. PICK pc \in {"contact", "events", "close", "release"} : Goto(p, pc)
    BY <1>4 DEF FindContact, LookForWork
  <2> QED BY <1>2, <2>1, <2>2, Going
<1>5. CASE ReleaseHistory(p) \/ FailHistory(p)
  <2>1. UNCHANGED <<people, work, effects>> /\ Return(p)
    BY <1>5 DEF ReleaseHistory, FailHistory
  <2>2. PICK history \in {"pending", "done"} : Released(p, history)
    BY <1>5 DEF ReleaseHistory, FailHistory
  <2>3. visitor' \in Binding BY <2>2 DEF Released, Typed, Rows, Binding
  <2>4. Rows' /\ Kept BY <2>1, <2>3, VisitorRows DEF Typed
  <2> QED BY <2>1, <2>4, Returning
<1> QED BY <1>3, <1>4, <1>5

LEMMA ListHistoryTyped == ASSUME Typed, NEW p \in Procs, ListHistory(p) PROVE Typed'
<1> DEFINE next == IF Unowned = {} THEN "work" ELSE "restore"
           s == [proc[p] EXCEPT !.ids = Unowned, !.pc = next]
<1>1. Rows' /\ Kept BY RowsRead DEF ListHistory, Typed, Reads
<1>2. proc[p] \in ProcState /\ Fits(proc[p]) BY DEF Typed, Invocations
<1>3. proc' = [proc EXCEPT ![p] = s] BY DEF ListHistory, Typed, Invocations
<1>4. next \in {"work", "restore"} OBVIOUS
<1>5. Unowned \subseteq Events /\ \A e \in Unowned : event[e].visitor BY DEF Unowned
<1> HIDE DEF next
<1>6. s \in ProcState BY <1>2, <1>4, <1>5 DEF ProcState, PC
<1>7. Fits(s) BY <1>2, <1>4, <1>5 DEF Fits, ProcessingPCs, ProcState
<1> QED BY <1>1, <1>3, <1>6, <1>7, OneInvocation

LEMMA RestoreTyped ==
    ASSUME Typed, NEW p \in Procs, NEW e \in Events, RestoreEvent(p, e) PROVE Typed'
<1> DEFINE rest == proc[p].ids \ {e}
           next == IF rest = {} THEN "work" ELSE "restore"
           s == [proc[p] EXCEPT !.ids = rest, !.pc = next]
<1>1. proc[p] \in ProcState /\ Fits(proc[p]) /\ e \in proc[p].ids
  BY DEF RestoreEvent, Typed, Invocations
<1>2. event[e].visitor BY <1>1 DEF Fits
<1>3. Exists(e) BY <1>2 DEF Typed, Rows, Recorded, NoEvent
<1>4. event' = event \/ event' = [event EXCEPT ![e].owner = "history"]
  BY DEF RestoreEvent
<1>5. event' \in [Events -> Event] BY <1>4 DEF Typed, Rows, Event
<1>6. \A f \in Events : event'[f].kind = event[f].kind /\ event'[f].visitor = event[f].visitor
  BY <1>4 DEF Typed, Rows, Event
<1>7. Kept BY <1>6 DEF Kept, Exists
<1>8. outbox' = [outbox EXCEPT ![e] = Free(outbox[e], "pending", TRUE)]
  BY DEF RestoreEvent, Typed, Rows
<1>9. outbox' \in [Events -> Row] BY <1>8, RowsFreed DEF Typed, Rows
<1>10. projection' = [projection EXCEPT ![e] = [q \in Projections |->
           IF q \in HistoryProjections THEN "pending" ELSE projection[e][q]]]
  BY DEF RestoreEvent, Typed, Rows
<1>11. projection' \in [Events -> [Projections -> {"absent", "pending", "completed", "skipped"}]]
  BY <1>10 DEF Typed, Rows
<1>12. ASSUME NEW f \in Events PROVE Recorded(f)'
  <2>1. occurred' = occurred BY DEF RestoreEvent, people
  <2>2. CASE f = e
    <3>1. \A q \in Projections : projection'[e][q] # "absent"
      BY <1>3, <1>10 DEF Typed, Rows, Recorded
    <3>2. Exists(e)' BY <1>3, <1>6 DEF Exists
    <3>3. occurred[e] # None BY <1>3 DEF Typed, Rows, Recorded
    <3> QED BY <2>1, <2>2, <3>1, <3>2, <3>3 DEF Recorded
  <2>3. CASE f # e
    <3>1. event'[f] = event[f] /\ outbox'[f] = outbox[f] /\ projection'[f] = projection[f]
      BY <1>4, <1>8, <1>10, <2>3 DEF Typed, Rows
    <3> QED BY <2>1, <3>1 DEF Recorded, Exists, Typed, Rows
  <2> QED BY <2>2, <2>3
<1>13. LedgerTypeOK' BY DEF RestoreEvent, people, effects, Typed, Rows, LedgerTypeOK
<1>14. Dated' BY <1>7 DEF RestoreEvent, effects, Typed, Rows, Dated, Kept
<1>15. Rows' BY <1>5, <1>9, <1>11, <1>12, <1>13, <1>14
             DEF RestoreEvent, effects, Typed, Rows
<1>16. proc' = [proc EXCEPT ![p] = s] BY DEF RestoreEvent, Typed, Invocations
<1>17. next \in {"work", "restore"} /\ rest \subseteq proc[p].ids OBVIOUS
<1> HIDE DEF next, rest
<1>18. s \in ProcState BY <1>1, <1>17 DEF ProcState, PC
<1>19. Fits(s) BY <1>1, <1>17 DEF Fits, ProcessingPCs, ProcState
<1> QED BY <1>7, <1>15, <1>16, <1>18, <1>19, OneInvocation

LEMMA ListDueTyped ==
    ASSUME Typed, NEW p \in Procs, NEW e \in Events, NEW r \in Rules, NEW now \in 0 .. MaxDay,
           ListDue(p, e, r, now)
    PROVE  Typed'
<1> DEFINE row == contribution[<<e, r>>]
           read == [initial |-> row.initial, remaining |-> row.remaining,
                    next |-> row.next, rule |-> r, now |-> now]
           s == [Idle EXCEPT !.pc = "decay", !.event = e, !.read = read]
<1>1. Rows' /\ Kept BY RowsRead DEF ListDue, Typed, Reads
<1>2. proc' = [proc EXCEPT ![p] = s] BY DEF ListDue, Typed, Invocations
<1>3. /\ row \in [initial : Nat, remaining : Nat, next : (0 .. MaxDay + 1) \cup {None}]
      /\ row.next # None /\ row.next <= now
  BY DEF ListDue, Due, Typed, Rows, LedgerTypeOK
<1>4. Exists(e) BY <1>3 DEF Typed, Rows, Dated
<1> HIDE DEF row
<1>5. MaxDay \in Nat /\ row.next \in 0 .. MaxDay + 1 /\ now \in 0 .. MaxDay
  BY <1>3, LedgerIs
<1>6. row.next \in 0 .. MaxDay BY <1>3, <1>5
<1>7. read \in DecayRead /\ read.next <= read.now
  BY <1>3, <1>6 DEF DecayRead
<1> HIDE DEF read
<1>8. s \in ProcState BY <1>7 DEF ProcState, PC, Idle, DecayRead
<1>9. Fits(s) BY <1>4, <1>7 DEF Fits, ProcessingPCs, Idle
<1> QED BY <1>1, <1>2, <1>8, <1>9, OneInvocation

\* What a decay holds and what it computes from it.
LEMMA AtDecay ==
    ASSUME Typed, NEW p \in Procs, proc[p].pc = "decay"
    PROVE  LET e == proc[p].event  r == proc[p].read.rule  now == proc[p].read.now IN
           /\ e \in Events /\ Exists(e) /\ occurred[e] # None
           /\ r \in Rules /\ now \in 0 .. MaxDay /\ now \in Int
           /\ proc[p].read \in DecayRead /\ proc[p].read.next <= now
           /\ DecayedKey(p) = <<e, r>> /\ DecayedKey(p) \in Events \X Rules
           /\ Remaining(e, r, proc[p].read.initial, now) \in Nat
           /\ DecayDelta(DecayedKey(p), proc[p].read, now)
                  = Remaining(e, r, proc[p].read.initial, now) - proc[p].read.remaining
           /\ DecayedNext(DecayedKey(p), proc[p].read, now)
                  = (IF Remaining(e, r, proc[p].read.initial, now) > 0 THEN NextDecay(e, r, now)
                     ELSE None)
           /\ DecayedNext(DecayedKey(p), proc[p].read, now) \in (0 .. MaxDay + 1) \cup {None}
<1> DEFINE e == proc[p].event
           read == proc[p].read
           r == read.rule
           now == read.now
<1>1. Fits(proc[p]) BY DEF Typed, Invocations
<1>2. e \in Events /\ Exists(e) /\ read \in DecayRead /\ read.next <= now
  BY <1>1 DEF Fits
<1>3. occurred[e] # None BY <1>2 DEF Typed, Rows, Recorded
<1>4. r \in Rules /\ now \in 0 .. MaxDay /\ read.initial \in Nat BY <1>2 DEF DecayRead
<1>5. MaxDay \in Nat /\ LedgerTypeOK BY LedgerIs DEF Typed, Rows
<1>6. now \in Int BY <1>4, <1>5
<1>7. DecayedKey(p) = <<e, r>> BY DEF DecayedKey
<1> HIDE DEF e, read, r, now
<1>8. Remaining(e, r, read.initial, now) \in Nat
  BY <1>2, <1>3, <1>4, <1>5, <1>6, RemainingIs
<1>9. NextDecay(e, r, now) \in (0 .. MaxDay + 1) \cup {None}
  BY <1>2, <1>3, <1>4, <1>5, NextDecayIs
<1>10. /\ DecayDelta(<<e, r>>, read, now) = Remaining(e, r, read.initial, now) - read.remaining
       /\ DecayedNext(<<e, r>>, read, now)
              = IF Remaining(e, r, read.initial, now) > 0 THEN NextDecay(e, r, now) ELSE None
  BY DEF DecayDelta, DecayedNext
<1>11. DecayedNext(<<e, r>>, read, now) \in (0 .. MaxDay + 1) \cup {None}
  BY <1>9, <1>10
<1> QED BY <1>2, <1>3, <1>4, <1>6, <1>7, <1>8, <1>10, <1>11 DEF e, read, r, now

LEMMA DecayDateTyped == ASSUME Typed, NEW p \in Procs, DecayDate(p) PROVE Typed'
<1> DEFINE k == DecayedKey(p)
           next == DecayedNext(k, proc[p].read, proc[p].read.now)
<1>1. /\ k \in Events \X Rules /\ Exists(k[1]) /\ k = <<k[1], k[2]>>
      /\ next \in (0 .. MaxDay + 1) \cup {None}
  BY AtDecay DEF DecayDate
<1>2. contribution' = contribution \/ contribution' = [contribution EXCEPT ![k].next = next]
  BY DEF DecayDate, DecayDateOnly
<1>3. UNCHANGED <<people, work, grade, touched, enrolled, visitor, score, logged, scored,
                  category>> /\ Return(p)
  BY DEF DecayDate, DecayDateOnly
<1> HIDE DEF k, next
<1>4. contribution' \in [Events \X Rules ->
          [initial : Nat, remaining : Nat, next : (0 .. MaxDay + 1) \cup {None}]]
  <2> DEFINE Entry == [initial : Nat, remaining : Nat, next : (0 .. MaxDay + 1) \cup {None}]
  <2>1. contribution \in [Events \X Rules -> Entry] BY DEF Typed, Rows, LedgerTypeOK
  <2> QED BY <1>1, <1>2, <2>1
<1>5. LedgerTypeOK' BY <1>3, <1>4 DEF people, Typed, Rows, LedgerTypeOK
<1>6. Dated'
  <2>1. ASSUME NEW f \in Events, NEW r \in Rules, contribution'[<<f, r>>].next # None
        PROVE  Exists(f)
    <3>1. CASE <<f, r>> = k BY <1>1, <3>1
    <3>2. CASE <<f, r>> # k
      <4>1. contribution'[<<f, r>>] = contribution[<<f, r>>]
        BY <1>2, <3>2 DEF Typed, Rows, LedgerTypeOK
      <4> QED BY <2>1, <4>1 DEF Typed, Rows, Dated
    <3> QED BY <3>1, <3>2
  <2> QED BY <1>3, <2>1 DEF Dated, Exists, work
<1>7. Rows' /\ Kept BY <1>3, <1>5, <1>6, LedgerRows DEF Typed, Rows, people
<1> QED BY <1>3, <1>7, Returning

LEMMA DecayTyped ==
    ASSUME Typed, NEW p \in Procs, NEW d \in Events, Decay(p, d) PROVE Typed'
<1> DEFINE k == DecayedKey(p)
           read == proc[p].read
           delta == DecayDelta(k, read, read.now)
           next == DecayedNext(k, read, read.now)
           fresh == [kind |-> "score_changed", owner |-> "live", visitor |-> FALSE]
<1>1. /\ k \in Events \X Rules /\ Exists(k[1]) /\ k = <<k[1], k[2]>>
      /\ next \in (0 .. MaxDay + 1) \cup {None}
      /\ read.remaining \in Nat /\ delta \in Int /\ read.remaining + delta \in Nat
  BY AtDecay DEF Decay, DecayRead
<1>2. /\ score' = score + delta /\ logged' = logged + delta /\ category' = category + delta
      /\ contribution' = [contribution EXCEPT ![k].remaining = read.remaining + delta,
                                              ![k].next = next]
      /\ UNCHANGED scored
  BY DEF Decay, DecayBatch
<1>3. Create(d, fresh) /\ Return(p)
      /\ UNCHANGED <<clock, adjusted, grade, touched, enrolled, visitor>>
  BY DEF Decay
<1>4. fresh \in Event /\ fresh.kind # "absent" BY DEF Event
<1> HIDE DEF k, next, read, delta, fresh
<1>5. /\ occurred' \in [Events -> (0 .. MaxDay) \cup {None}]
      /\ Kept /\ \A f \in Events : Exists(f) => Exists(f)'
  BY <1>3, <1>4, CreatedRows DEF Typed
<1>6. contribution' \in [Events \X Rules ->
          [initial : Nat, remaining : Nat, next : (0 .. MaxDay + 1) \cup {None}]]
  <2> DEFINE left == read.remaining + delta
             Entry == [initial : Nat, remaining : Nat, next : (0 .. MaxDay + 1) \cup {None}]
  <2>1. left \in Nat /\ contribution' =
            [contribution EXCEPT ![k].remaining = left, ![k].next = next]
    BY <1>1, <1>2
  <2> HIDE DEF left
  <2>2. contribution \in [Events \X Rules -> Entry] BY DEF Typed, Rows, LedgerTypeOK
  <2> QED BY <1>1, <2>1, <2>2
<1>7. score' \in Int /\ logged' \in Int /\ category' \in Int
  BY <1>1, <1>2 DEF Typed, Rows, LedgerTypeOK
<1>8. LedgerTypeOK' BY <1>2, <1>3, <1>5, <1>6, <1>7 DEF clock, Typed, Rows, LedgerTypeOK
<1>9. Dated'
  <2>1. ASSUME NEW f \in Events, NEW r \in Rules, contribution'[<<f, r>>].next # None
        PROVE  Exists(f)
    <3>1. CASE <<f, r>> = k BY <1>1, <3>1
    <3>2. CASE <<f, r>> # k
      <4>1. contribution'[<<f, r>>] = contribution[<<f, r>>]
        BY <1>2, <3>2 DEF Typed, Rows, LedgerTypeOK
      <4> QED BY <2>1, <4>1 DEF Typed, Rows, Dated
    <3> QED BY <3>1, <3>2
  <2> QED BY <1>5, <2>1 DEF Dated
<1>10. Rows' BY <1>3, <1>4, <1>8, <1>9, CreatedRows DEF Typed, Rows
<1> QED BY <1>3, <1>5, <1>10, Returning

LEMMA DecayLosesTyped == ASSUME Typed, NEW p \in Procs, DecayLoses(p) PROVE Typed'
BY RowsRead, Returning DEF DecayLoses, Typed, Reads

LEMMA NextTyped == Typed /\ [Next]_vars => Typed'
<1> SUFFICES ASSUME Typed, [Next]_vars PROVE Typed'
  OBVIOUS
<1>1. CASE UNCHANGED vars
  <2>1. Rows' /\ Kept
    BY <1>1, RowsRead DEF vars, Typed, Reads, people, work, effects
  <2> QED BY <1>1, <2>1, NoInvocation DEF vars
<1>2. CASE Environment
  BY <1>2, RecordTyped, OutboxTyped, VisitorTyped, ContactTyped, ScoreTyped DEF Environment
<1>3. ASSUME NEW p \in Procs, Processor(p) PROVE Typed'
  BY <1>3, LoadTyped, SkipTyped, ListTyped, FinishTyped, CheckTyped, ScoringTyped, GradeTyped,
     SwapTyped, EffectTyped, GivenBackTyped DEF Processor, Project
<1>4. ASSUME NEW p \in Procs, History(p) PROVE Typed'
  BY <1>4, HistoryTyped, ListHistoryTyped, RestoreTyped DEF History
<1>5. ASSUME NEW p \in Procs, DecayWorker(p) PROVE Typed'
  BY <1>5, ListDueTyped, DecayTyped, DecayDateTyped, DecayLosesTyped DEF DecayWorker
<1>6. ASSUME NEW p \in Procs, Fail(p) \/ Crash(p) \/ \E e \in Events : Claim(p, e)
      PROVE  Typed'
  BY <1>6, GivenBackTyped, CrashTyped, ClaimTyped
<1> QED BY <1>1, <1>2, <1>3, <1>4, <1>5, <1>6 DEF Next

\* The inductive invariant under all others: the types, that an event which exists was
\* recorded with every projection, and what an invocation holds at each place of its code.
THEOREM AlwaysTyped == Spec => []Typed
BY InitTyped, NextTyped, PTL DEF Spec

\* Every row, every score and what every invocation holds are of their types, whatever
\* the number of events, rules and workers.
THEOREM EventTypes == Spec => []TypeOK
BY AlwaysTyped, TypedTypes, PTL

-----------------------------------------------------------------------------
(* Whose step it is, and what a step can do to the rows of an event.       *)

Acts(p) ==
    \/ \E e \in Events : Claim(p, e)
    \/ Processor(p) \/ Fail(p) \/ Crash(p) \/ History(p) \/ DecayWorker(p)

LEMMA Steps == Next <=> Environment \/ \E p \in Procs : Acts(p)
BY DEF Next, Acts

LEMMA OthersWait ==
    ASSUME Typed, NEW p \in Procs, Acts(p), NEW o \in Procs, o # p PROVE proc'[o] = proc[o]
<1> USE DEF Goto, Return, Advance
<1>0. proc \in [Procs -> ProcState] BY DEF Typed, Invocations
<1>1. ASSUME NEW e \in Events, Claim(p, e) \/ RestoreEvent(p, e) PROVE proc'[o] = proc[o]
  BY <1>0, <1>1 DEF Claim, RestoreEvent
<1>2. CASE Processor(p)
  <2>1. CASE Load(p) \/ SkipPending(p) \/ List(p) \/ CheckContact(p)
    BY <1>0, <2>1 DEF Load, SkipPending, List, CheckContact
  <2>2. CASE SkipReplayed(p) \/ Finish(p) \/ MarkProcessed(p)
    BY <1>0, <2>2 DEF SkipReplayed, Finish, MarkProcessed
  <2>3. CASE Project(p)
    BY <1>0, <2>3 DEF Project, ProjectScoring, ProjectGrade, SwapGrade, ProjectCampaign,
                      ProjectEnrollment
  <2> QED BY <1>2, <2>1, <2>2, <2>3 DEF Processor
<1>3. CASE Fail(p) \/ Crash(p) BY <1>0, <1>3 DEF Fail, Crash
<1>4. CASE History(p)
  BY <1>0, <1>1, <1>4 DEF History, ClaimHistory, FindContact, ListHistory, LookForWork,
                          ReleaseHistory, FailHistory
<1>5. CASE DecayWorker(p)
  BY <1>0, <1>5 DEF DecayWorker, ListDue, Decay, DecayDate, DecayLoses
<1> QED BY <1>1, <1>2, <1>3, <1>4, <1>5 DEF Acts

\* An invocation is at a projection by looking at the contact, or by going on there.
LEMMA WhereItGoes ==
    ASSUME Typed, NEW p \in Procs, Acts(p)
    PROVE  \/ SkipReplayed(p) \/ Finish(p) \/ List(p) \/ CheckContact(p) \/ Project(p)
           \/ proc'[p].pc \notin {"check", "run", "swap", "finish"}
<1>0. proc \in [Procs -> ProcState] /\ proc[p] \in ProcState BY DEF Typed, Invocations
<1> DEFINE Elsewhere == proc'[p].pc \notin {"check", "run", "swap", "finish"}
<1>1. ASSUME Load(p) \/ SkipPending(p) PROVE Elsewhere
  <2>1. ASSUME Load(p) PROVE Elsewhere
    <3>1. proc'[p] = Idle \/ proc'[p].pc = "skip" \/ proc'[p].pc = "list"
      BY <1>0, <2>1 DEF Load, Return, ProcState
    <3> QED BY <3>1 DEF Idle
  <2>2. ASSUME SkipPending(p) PROVE proc'[p].pc = "mark" BY <1>0, <2>2 DEF SkipPending, Goto
  <2> QED BY <1>1, <2>1, <2>2
<1>2. ASSUME \/ MarkProcessed(p) \/ Fail(p) \/ Crash(p) \/ ReleaseHistory(p) \/ FailHistory(p)
             \/ DecayDate(p) \/ DecayLoses(p) \/ \E d \in Events : Decay(p, d)
      PROVE  Elsewhere
  <2>1. proc'[p] = Idle
    BY <1>0, <1>2 DEF MarkProcessed, Fail, Crash, ReleaseHistory, FailHistory, DecayDate,
                      DecayLoses, Decay, Return
  <2> QED BY <2>1 DEF Idle
<1>3. ASSUME ClaimHistory(p) \/ FindContact(p) \/ ListHistory(p) \/ LookForWork(p) PROVE Elsewhere
  <2>1. ASSUME ClaimHistory(p) PROVE proc'[p].pc = "contact"
    BY <1>0, <2>1 DEF ClaimHistory, Goto
  <2>4. ASSUME FindContact(p) PROVE proc'[p].pc \in {"events", "close"}
    BY <1>0, <2>4 DEF FindContact, Goto
  <2>2. ASSUME ListHistory(p) PROVE proc'[p].pc \in {"work", "restore"}
    BY <1>0, <2>2 DEF ListHistory
  <2>3. ASSUME LookForWork(p) PROVE proc'[p].pc \in {"release", "close"}
    BY <1>0, <2>3 DEF LookForWork, Goto
  <2> QED BY <1>3, <2>1, <2>2, <2>3, <2>4
<1>4. ASSUME NEW e \in Events, Claim(p, e) \/ RestoreEvent(p, e) PROVE Elsewhere
  <2>1. ASSUME Claim(p, e) PROVE proc'[p].pc = "load" BY <1>0, <2>1 DEF Claim, Idle
  <2>2. ASSUME RestoreEvent(p, e) PROVE proc'[p].pc \in {"work", "restore"}
    BY <1>0, <2>2 DEF RestoreEvent
  <2> QED BY <1>4, <2>1, <2>2
<1>5. ASSUME NEW e \in Events, NEW r \in Rules, NEW now \in 0 .. MaxDay, ListDue(p, e, r, now)
      PROVE  Elsewhere
  BY <1>0, <1>5 DEF ListDue, Idle
<1> HIDE DEF Elsewhere
<1>6. SkipReplayed(p) \/ Finish(p) \/ List(p) \/ CheckContact(p) \/ Project(p) \/ Elsewhere
  BY <1>1, <1>2, <1>3, <1>4, <1>5 DEF Acts, Processor, History, DecayWorker
<1> QED BY <1>6 DEF Elsewhere

\* Where Advance goes, and what it leaves.
LEMMA WhereAdvanceGoes ==
    ASSUME Typed, NEW p \in Procs, Advance(p)
    PROVE  /\ proc'[p].pc = (IF proc[p].todo \ {Current(p)} = {} THEN "mark" ELSE "check")
           /\ proc'[p].event = proc[p].event /\ proc'[p].owner = proc[p].owner
           /\ proc'[p].todo = proc[p].todo \ {Current(p)} /\ proc'[p].ids = proc[p].ids
<1> DEFINE rest == proc[p].todo \ {Current(p)}
           pc == IF rest = {} THEN "mark" ELSE "check"
<1>1. proc' = [proc EXCEPT ![p] = [proc[p] EXCEPT !.todo = rest, !.pc = pc, !.read = None]]
  BY DEF Advance, Typed, Invocations
<1> HIDE DEF rest, pc
<1>2. proc[p] \in ProcState /\ proc \in [Procs -> ProcState] BY DEF Typed, Invocations
<1>3. /\ proc'[p].pc = pc /\ proc'[p].event = proc[p].event /\ proc'[p].owner = proc[p].owner
      /\ proc'[p].todo = rest /\ proc'[p].ids = proc[p].ids
  BY <1>1, <1>2 DEF ProcState
<1> QED BY <1>3 DEF rest, pc

LEMMA NobodySteps == ASSUME Environment PROVE UNCHANGED proc
BY DEF Environment, Record, RecordVisit, Purge, Bind, ArchiveContact, RestoreContact, Adjust,
       Reconcile, beside, NextDay, LeaseExpires, RetryFallsDue, HistoryLeaseExpires

\* Who writes the events, the outbox and the projections.
LEMMA WritersOfWork ==
    ASSUME Typed, [Next]_vars
    PROVE  \/ UNCHANGED <<event, projection>>
           \/ \E e \in Events, fresh \in Event :
                  /\ fresh.kind # "absent" /\ Create(e, fresh)
                  /\ fresh.owner = "live" \/ (fresh.owner = "nobody" /\ ~visitor.bound)
                  /\ \A p \in Procs : proc'[p] = proc[p] \/ proc'[p] = Idle
           \/ \E p \in Procs : \/ SkipPending(p) \/ SkipReplayed(p) \/ Finish(p)
                               \/ \E e \in Events : RestoreEvent(p, e)
<1> DEFINE Creates == \E e \in Events, fresh \in Event :
                  /\ fresh.kind # "absent" /\ Create(e, fresh)
                  /\ fresh.owner = "live" \/ (fresh.owner = "nobody" /\ ~visitor.bound)
                  /\ \A p \in Procs : proc'[p] = proc[p] \/ proc'[p] = Idle
<1>1. CASE UNCHANGED vars BY <1>1 DEF vars
<1>2. ASSUME Environment PROVE Creates \/ UNCHANGED <<event, projection>>
  <2>1. ASSUME NEW e \in Events, Record(e) \/ RecordVisit(e) PROVE Creates
    <3>1. PICK fresh \in Event :
              /\ fresh.kind # "absent" /\ Create(e, fresh)
              /\ fresh.owner = "live" \/ (fresh.owner = "nobody" /\ ~visitor.bound)
      <4>1. CASE Record(e)
        <5> DEFINE fresh == [kind |-> "behaviour", owner |-> "live", visitor |-> FALSE]
        <5>1. fresh \in Event /\ fresh.kind # "absent" /\ fresh.owner = "live" BY DEF Event
        <5>2. Create(e, fresh) BY <4>1 DEF Record
        <5> QED BY <5>1, <5>2
      <4>2. CASE RecordVisit(e)
        <5> DEFINE owner == IF visitor.bound THEN "live" ELSE "nobody"
                   fresh == [kind |-> "behaviour", visitor |-> TRUE, owner |-> owner]
        <5>1. owner = "live" \/ (owner = "nobody" /\ ~visitor.bound) OBVIOUS
        <5> HIDE DEF owner
        <5>2. fresh \in Event /\ fresh.kind # "absent" /\ fresh.owner = owner
          BY <5>1 DEF Event
        <5>3. Create(e, fresh) BY <4>2 DEF RecordVisit, owner
        <5> QED BY <5>1, <5>2, <5>3
      <4> QED BY <2>1, <4>1, <4>2
    <3>2. proc' = proc BY <2>1 DEF Record, RecordVisit
    <3> QED BY <3>1, <3>2
  <2>2. ASSUME NEW e \in Events, Purge(e) \/ LeaseExpires(e) \/ RetryFallsDue(e)
        PROVE  UNCHANGED <<event, projection>>
    BY <2>2 DEF Purge, LeaseExpires, RetryFallsDue
  <2>3. ASSUME \/ Bind \/ ArchiveContact \/ RestoreContact \/ Reconcile \/ NextDay
               \/ HistoryLeaseExpires \/ \E a \in Adjustments : Adjust(a)
        PROVE  UNCHANGED <<event, projection>>
    BY <2>3 DEF Bind, ArchiveContact, RestoreContact, Adjust, Reconcile, beside, NextDay,
                HistoryLeaseExpires, work
  <2> HIDE DEF Creates
  <2> QED BY <1>2, <2>1, <2>2, <2>3 DEF Environment
<1>3. ASSUME NEW p \in Procs, DecayWorker(p) PROVE Creates \/ UNCHANGED <<event, projection>>
  <2>1. ASSUME NEW d \in Events, Decay(p, d) PROVE Creates
    <3> DEFINE fresh == [kind |-> "score_changed", owner |-> "live", visitor |-> FALSE]
    <3>1. fresh \in Event /\ fresh.kind # "absent" /\ fresh.owner = "live" BY DEF Event
    <3>2. Create(d, fresh) /\ Return(p) BY <2>1 DEF Decay
    <3>3. \A o \in Procs : proc'[o] = proc[o] \/ proc'[o] = Idle
      BY <3>2 DEF Return, Typed, Invocations
    <3> HIDE DEF fresh
    <3> QED BY <3>1, <3>2, <3>3
  <2> HIDE DEF Creates
  <2> QED BY <1>3, <2>1 DEF DecayWorker, ListDue, DecayDate, DecayLoses, work
<1>4. ASSUME NEW p \in Procs, Acts(p), ~DecayWorker(p)
      PROVE  \/ UNCHANGED <<event, projection>>
             \/ SkipPending(p) \/ SkipReplayed(p) \/ Finish(p)
             \/ \E e \in Events : RestoreEvent(p, e)
  BY <1>4 DEF Acts, Claim, Processor, Load, List, CheckContact, Project, ProjectScoring,
              ProjectGrade, SwapGrade, ProjectCampaign, ProjectEnrollment, MarkProcessed, Fail,
              Crash, History, ClaimHistory, FindContact, ListHistory, LookForWork,
              ReleaseHistory, FailHistory, work
<1> HIDE DEF Creates
<1>5. CASE Next BY <1>2, <1>3, <1>4, <1>5, Steps DEF Creates
<1> QED BY <1>1, <1>5

\* An owner, once there is one, stays; an event that is restored gets one.
LEMMA OwnerStays ==
    ASSUME Typed, [Next]_vars, NEW e \in Events, Exists(e)
    PROVE  /\ Exists(e)' /\ event'[e].kind = event[e].kind
           /\ \/ event'[e] = event[e]
              \/ /\ event[e].owner = "nobody" /\ event'[e].owner = "history"
                 /\ \E p \in Procs : RestoreEvent(p, e)
<1>0. event \in [Events -> Event] BY DEF Typed, Rows
<1>1. CASE UNCHANGED event BY <1>1 DEF Exists
<1>2. ASSUME NEW f \in Events, NEW fresh \in Event, Create(f, fresh) PROVE event'[e] = event[e]
  BY <1>0, <1>2 DEF Create, Exists
<1>3. ASSUME NEW p \in Procs, SkipPending(p) \/ SkipReplayed(p) \/ Finish(p)
      PROVE  UNCHANGED event
  BY <1>3 DEF SkipPending, SkipReplayed, Finish
<1>4. ASSUME NEW p \in Procs, NEW f \in Events, RestoreEvent(p, f)
      PROVE  \/ event'[e] = event[e]
             \/ /\ event[e].owner = "nobody" /\ event'[e].owner = "history"
                /\ event'[e].kind = event[e].kind /\ f = e
  BY <1>0, <1>4 DEF RestoreEvent, Event
<1>5. \/ event'[e] = event[e]
      \/ /\ event[e].owner = "nobody" /\ event'[e].owner = "history"
         /\ event'[e].kind = event[e].kind
         /\ \E p \in Procs : RestoreEvent(p, e)
  BY <1>1, <1>2, <1>3, <1>4, WritersOfWork
<1> QED BY <1>5 DEF Exists

\* The lease of an event comes with a claim only.
LEMMA LeaseByClaim ==
    ASSUME Typed, [Next]_vars, NEW p \in Procs, NEW e \in Events, Holds(p, e)'
    PROVE  Holds(p, e) \/ (proc'[p].pc = "load" /\ proc'[p].event = e)
<1>0. outbox \in [Events -> Row] /\ proc \in [Procs -> ProcState]
      /\ outbox'[e].status = "processing" /\ outbox'[e].lease = p
  BY DEF Typed, Rows, Invocations, Holds
<1>1. CASE UNCHANGED outbox BY <1>1 DEF Holds
<1>2. ASSUME NEW f \in Events, NEW fresh, Create(f, fresh) PROVE Holds(p, e)
  BY <1>0, <1>2 DEF Create, Free, Holds, NoRow
<1>3. CASE Environment
  <2>1. ASSUME NEW f \in Events, Purge(f) \/ LeaseExpires(f) \/ RetryFallsDue(f)
        PROVE  Holds(p, e)
    BY <1>0, <2>1 DEF Purge, LeaseExpires, RetryFallsDue, NoRow, Holds, Row
  <2>2. ASSUME NEW f \in Events, Record(f) \/ RecordVisit(f) PROVE Holds(p, e)
    BY <1>2, <2>2 DEF Record, RecordVisit
  <2>3. ASSUME \/ Bind \/ ArchiveContact \/ RestoreContact \/ Reconcile \/ NextDay
               \/ HistoryLeaseExpires \/ \E a \in Adjustments : Adjust(a)
        PROVE  UNCHANGED outbox
    BY <2>3 DEF Bind, ArchiveContact, RestoreContact, Adjust, Reconcile, beside, NextDay,
                HistoryLeaseExpires, work
  <2> QED BY <1>1, <1>3, <2>1, <2>2, <2>3 DEF Environment
<1>4. ASSUME NEW o \in Procs, NEW f \in Events, Claim(o, f)
      PROVE  Holds(p, e) \/ (proc'[p].pc = "load" /\ proc'[p].event = e)
  <2>1. CASE f = e
    <3>1. p = o BY <1>0, <1>4, <2>1 DEF Claim
    <3> QED BY <1>0, <1>4, <2>1, <3>1 DEF Claim, Idle
  <2>2. CASE f # e BY <1>0, <1>4, <2>2 DEF Claim, Holds
  <2> QED BY <2>1, <2>2
<1>5. ASSUME NEW o \in Procs, MarkProcessed(o) \/ Fail(o) PROVE Holds(p, e)
  <2> DEFINE f == proc[o].event
  <2>1. outbox' = outbox \/ \E status \in {"pending", "processed"}, due \in BOOLEAN :
            outbox' = [outbox EXCEPT ![f] = Free(outbox[f], status, due)]
    BY <1>5 DEF MarkProcessed, Fail
  <2> HIDE DEF f
  <2> QED BY <1>0, <2>1 DEF Free, Holds, Row
<1>6. ASSUME NEW o \in Procs, NEW f \in Events, RestoreEvent(o, f) PROVE Holds(p, e)
  BY <1>0, <1>6 DEF RestoreEvent, Free, Holds, Row
<1>7. ASSUME NEW o \in Procs, NEW f \in Events, Decay(o, f) PROVE Holds(p, e)
  BY <1>2, <1>7 DEF Decay
<1>8. ASSUME NEW o \in Procs, Acts(o), ~(MarkProcessed(o) \/ Fail(o)),
             ~\E f \in Events : Claim(o, f) \/ RestoreEvent(o, f) \/ Decay(o, f)
      PROVE  UNCHANGED outbox
  BY <1>8 DEF Acts, Processor, Load, SkipPending, List, SkipReplayed, CheckContact, Project,
              ProjectScoring, ProjectGrade, SwapGrade, ProjectCampaign, ProjectEnrollment, Finish,
              Crash, History, ClaimHistory, FindContact, ListHistory, LookForWork,
              ReleaseHistory, FailHistory, DecayWorker, ListDue, DecayDate, DecayLoses, work
<1>9. CASE Next BY <1>1, <1>3, <1>4, <1>5, <1>6, <1>7, <1>8, <1>9, Steps
<1> QED BY <1>1, <1>9 DEF vars

\* How a projection's status changes.
LEMMA HowDecided ==
    ASSUME Typed, [Next]_vars, NEW e \in Events, NEW q \in Projections,
           projection'[e][q] # projection[e][q]
    PROVE  \/ /\ ~Exists(e) /\ \A o \in Projections : projection'[e][o] = "pending"
              /\ ~visitor.bound \/ event'[e].owner = "live"
              /\ outbox'[e].status = "pending"
           \/ \E p \in Procs :
                 /\ RestoreEvent(p, e) /\ q \in HistoryProjections
                 /\ \A o \in Projections : projection'[e][o] =
                        IF o \in HistoryProjections THEN "pending" ELSE projection[e][o]
           \/ \E p \in Procs :
                 /\ proc[p].event = e /\ Holds(p, e) /\ projection[e][q] = "pending"
                 /\ \/ SkipPending(p) /\ projection'[e][q] = "skipped"
                    \/ /\ SkipReplayed(p) /\ q = Current(p) /\ projection'[e][q] = "skipped"
                       /\ \A o \in Projections \ {q} : projection'[e][o] = projection[e][o]
                    \/ /\ Finish(p) /\ q = Current(p) /\ projection'[e][q] = "completed"
                       /\ \A o \in Projections \ {q} : projection'[e][o] = projection[e][o]
<1>0. /\ projection \in
             [Events -> [Projections -> {"absent", "pending", "completed", "skipped"}]]
      /\ event \in [Events -> Event] /\ outbox \in [Events -> Row]
  BY DEF Typed, Rows
<1>1. ASSUME NEW f \in Events, NEW fresh \in Event, Create(f, fresh),
             fresh.owner = "live" \/ (fresh.owner = "nobody" /\ ~visitor.bound)
      PROVE  /\ ~Exists(e) /\ \A o \in Projections : projection'[e][o] = "pending"
             /\ ~visitor.bound \/ event'[e].owner = "live"
             /\ outbox'[e].status = "pending"
  <2>1. f = e BY <1>0, <1>1 DEF Create
  <2> QED BY <1>0, <1>1, <2>1 DEF Create, Exists, Free, NoRow
<1>2. ASSUME NEW p \in Procs, NEW f \in Events, RestoreEvent(p, f)
      PROVE  /\ RestoreEvent(p, e) /\ q \in HistoryProjections
             /\ \A o \in Projections : projection'[e][o] =
                    IF o \in HistoryProjections THEN "pending" ELSE projection[e][o]
  <2>1. f = e BY <1>0, <1>2 DEF RestoreEvent
  <2> QED BY <1>0, <1>2, <2>1 DEF RestoreEvent
<1>3. ASSUME NEW p \in Procs, SkipPending(p)
      PROVE  proc[p].event = e /\ Holds(p, e) /\ projection[e][q] = "pending"
             /\ projection'[e][q] = "skipped"
  BY <1>0, <1>3 DEF SkipPending
<1>4. ASSUME NEW p \in Procs, NEW outcome \in {"completed", "skipped"}, SetFinished(p, outcome)
      PROVE  /\ proc[p].event = e /\ Holds(p, e) /\ projection[e][q] = "pending"
             /\ q = Current(p) /\ projection'[e][q] = outcome
             /\ \A o \in Projections \ {q} : projection'[e][o] = projection[e][o]
  BY <1>0, <1>4 DEF SetFinished
<1>5. ASSUME NEW p \in Procs, SkipReplayed(p)
      PROVE  /\ proc[p].event = e /\ Holds(p, e) /\ projection[e][q] = "pending"
             /\ q = Current(p) /\ projection'[e][q] = "skipped"
             /\ \A o \in Projections \ {q} : projection'[e][o] = projection[e][o]
  BY <1>4, <1>5 DEF SkipReplayed
<1>6. ASSUME NEW p \in Procs, Finish(p)
      PROVE  /\ proc[p].event = e /\ Holds(p, e) /\ projection[e][q] = "pending"
             /\ q = Current(p) /\ projection'[e][q] = "completed"
             /\ \A o \in Projections \ {q} : projection'[e][o] = projection[e][o]
  BY <1>4, <1>6 DEF Finish
<1> QED BY <1>1, <1>2, <1>3, <1>5, <1>6, WritersOfWork

-----------------------------------------------------------------------------
(* Whose event it is.                                                       *)

HistoryPCs == {"contact", "events", "restore", "work", "close", "release"}

\* What an invocation knows of the owner of its event, and of the visitor.
Attributed(p) ==
    /\ proc[p].pc \in {"list", "check", "run", "swap", "finish"} =>
           proc[p].owner # "nobody" /\ event[proc[p].event].owner = proc[p].owner
    /\ proc[p].pc \in {"run", "swap", "finish"} /\ proc[p].owner = "history" =>
           Current(p) \in HistoryProjections
    /\ proc[p].pc = "swap" => Current(p) = "grade"
    /\ \A e \in proc[p].ids : event[e].owner # "live"
    /\ proc[p].pc \in HistoryPCs => visitor.bound

\* No projection of an event without an owner has run, nor one that a replay skips.
Owned ==
    /\ \A e \in Events, q \in Projections : projection[e][q] = "completed" =>
           event[e].owner = "live" \/ (event[e].owner = "history" /\ q \in HistoryProjections)
    /\ \A e \in enrolled : event[e].owner = "live"
    /\ visitor.history = "done" => visitor.bound

Attribution == Owned /\ \A p \in Procs : Attributed(p)

LEMMA BoundStays == ASSUME Typed, [Next]_vars, visitor.bound PROVE visitor'.bound
<1>0. visitor \in Binding BY DEF Typed, Rows
<1>1. CASE UNCHANGED visitor BY <1>1
<1>2. CASE Bind \/ HistoryLeaseExpires BY <1>0, <1>2 DEF Bind, HistoryLeaseExpires, Binding
<1>3. ASSUME NEW p \in Procs, ClaimHistory(p) \/ ReleaseHistory(p) \/ FailHistory(p)
      PROVE  visitor'.bound
  BY <1>0, <1>3 DEF ClaimHistory, ReleaseHistory, FailHistory, Released, Binding
<1>4. ASSUME Environment, ~(Bind \/ HistoryLeaseExpires) PROVE UNCHANGED visitor
  BY <1>4 DEF Environment, Record, RecordVisit, Purge, ArchiveContact, RestoreContact, Adjust,
              Reconcile, beside, NextDay, LeaseExpires, RetryFallsDue
<1>5. ASSUME NEW p \in Procs, Acts(p), ~(ClaimHistory(p) \/ ReleaseHistory(p) \/ FailHistory(p))
      PROVE  UNCHANGED visitor
  BY <1>5 DEF Acts, Claim, Processor, Load, SkipPending, List, SkipReplayed, CheckContact, Project,
              ProjectScoring, ProjectGrade, SwapGrade, ProjectCampaign, ProjectEnrollment, Finish,
              MarkProcessed, Fail, Crash, History, FindContact, ListHistory, LookForWork,
              RestoreEvent, DecayWorker, ListDue, Decay, DecayDate, DecayLoses
<1> QED BY <1>1, <1>2, <1>3, <1>4, <1>5, Steps DEF vars

\* A step of another leaves what it knows true.
LEMMA StaysAttributed ==
    ASSUME Typed, [Next]_vars, NEW p \in Procs, Attributed(p), proc'[p] = proc[p]
    PROVE  Attributed(p)'
<1>1. proc[p] \in ProcState /\ Fits(proc[p]) BY DEF Typed, Invocations
<1>2. Current(p)' = Current(p) BY SameCurrent
<1>3. proc[p].pc \in {"list", "check", "run", "swap", "finish"} =>
          event'[proc[p].event].owner = event[proc[p].event].owner
  BY <1>1, OwnerStays DEF Attributed, Fits, ProcessingPCs
<1>4. ASSUME NEW e \in proc[p].ids PROVE event'[e].owner # "live"
  <2>1. e \in Events /\ Exists(e)
    BY <1>1 DEF ProcState, Fits, Typed, Rows, Recorded, NoEvent
  <2>2. event[e].owner # "live" BY DEF Attributed
  <2> QED BY <2>1, <2>2, OwnerStays
<1> QED BY <1>1, <1>2, <1>3, <1>4, BoundStays DEF Attributed

LEMMA IdleAttributed ==
    ASSUME NEW p \in Procs, proc'[p] = Idle PROVE Attributed(p)'
BY DEF Attributed, Idle, HistoryPCs

\* Its own steps.
LEMMA ActsAttributed ==
    ASSUME Typed, NEW p \in Procs, Acts(p), Attributed(p)
    PROVE  Attributed(p)'
<1>0. proc \in [Procs -> ProcState] /\ proc[p] \in ProcState /\ Fits(proc[p])
  BY DEF Typed, Invocations
<1>1. ASSUME NEW e \in Events, Claim(p, e) PROVE Attributed(p)'
  BY <1>0, <1>1 DEF Claim, Attributed, Idle, HistoryPCs
<1>2. CASE Load(p)
  <2>1. \/ proc'[p] = Idle
        \/ /\ proc'[p].owner = event[proc[p].event].owner
           /\ \/ proc'[p].pc = "skip"
              \/ proc'[p].pc = "list" /\ proc'[p].owner # "nobody"
           /\ proc'[p].event = proc[p].event /\ proc'[p].ids = proc[p].ids
    BY <1>0, <1>2 DEF Load, Return, ProcState
  <2>2. UNCHANGED event BY <1>2 DEF Load, work
  <2> QED BY <2>1, <2>2, IdleAttributed DEF Attributed, HistoryPCs
<1>3. CASE List(p) \/ SkipReplayed(p) \/ Finish(p) \/ SkipPending(p)
  <2> DEFINE Goes == /\ proc'[p].pc \in {"check", "mark"} /\ proc'[p].ids = proc[p].ids
                     /\ proc'[p].pc = "check" => /\ proc[p].pc \in {"list", "check", "finish"}
                                                 /\ proc'[p].owner = proc[p].owner
                                                 /\ proc'[p].event = proc[p].event
  <2>3. ASSUME List(p) PROVE Goes BY <1>0, <2>3 DEF List, ProcState
  <2>4. ASSUME SkipReplayed(p) \/ Finish(p) PROVE Goes
    <3>1. Advance(p) /\ proc[p].pc \in {"check", "finish"} BY <2>4 DEF SkipReplayed, Finish
    <3> QED BY <3>1, WhereAdvanceGoes
  <2>5. ASSUME SkipPending(p) PROVE Goes BY <1>0, <2>5 DEF SkipPending, Goto, ProcState
  <2>1. Goes BY <1>3, <2>3, <2>4, <2>5
  <2>2. UNCHANGED event BY <1>3 DEF List, SkipReplayed, Finish, SkipPending, work
  <2> QED BY <2>1, <2>2 DEF Attributed, HistoryPCs
<1>4. CASE CheckContact(p)
  <2>1. /\ proc'[p] = [proc[p] EXCEPT !.pc = Checked(p)]
        /\ Checked(p) \in {"run", "skip", "finish"} /\ UNCHANGED event
    BY <1>0, <1>4 DEF CheckContact, Goto, Checked, work
  <2>2. Current(p)' = Current(p)
    <3>1. proc'[p].todo = proc[p].todo BY <1>0, <2>1 DEF ProcState
    <3> QED BY <3>1, SameCurrent
  <2> QED BY <1>0, <1>4, <2>1, <2>2 DEF CheckContact, Attributed, HistoryPCs, ProcState
<1>5. CASE Project(p)
  <2>1. /\ proc[p].pc \in {"run", "swap"} /\ proc'[p].pc \in {"run", "swap", "finish"}
        /\ proc'[p].todo = proc[p].todo /\ proc'[p].owner = proc[p].owner
        /\ proc'[p].event = proc[p].event /\ proc'[p].ids = proc[p].ids
        /\ proc'[p].pc = "swap" => Current(p) = "grade"
    BY <1>0, <1>5 DEF Project, ProjectScoring, ProjectGrade, SwapGrade, ProjectCampaign,
                      ProjectEnrollment, Running, Goto, ProcState
  <2>2. UNCHANGED event
    BY <1>5 DEF Project, ProjectScoring, ProjectGrade, SwapGrade, ProjectCampaign,
                ProjectEnrollment, work
  <2>3. Current(p)' = Current(p) BY <2>1, SameCurrent
  <2> QED BY <2>1, <2>2, <2>3 DEF Attributed, HistoryPCs
<1>6. ASSUME \/ MarkProcessed(p) \/ Fail(p) \/ Crash(p) \/ ReleaseHistory(p) \/ FailHistory(p)
             \/ DecayDate(p) \/ DecayLoses(p) \/ \E d \in Events : Decay(p, d)
      PROVE  Attributed(p)'
  <2>1. proc'[p] = Idle
    BY <1>0, <1>6 DEF MarkProcessed, Fail, Crash, ReleaseHistory, FailHistory, DecayDate,
                      DecayLoses, Decay, Return
  <2> QED BY <2>1, IdleAttributed
<1>7. CASE ClaimHistory(p) \/ FindContact(p) \/ LookForWork(p)
  <2>1. proc'[p].pc \in HistoryPCs /\ proc'[p].ids = proc[p].ids /\ UNCHANGED event
    BY <1>0, <1>7 DEF ClaimHistory, FindContact, LookForWork, Goto, ProcState, HistoryPCs, work
  <2>3. visitor.bound
    BY <1>7 DEF ClaimHistory, FindContact, LookForWork, HistoryPCs, Attributed
  <2>4. visitor'.bound = visitor.bound
    BY <1>7 DEF ClaimHistory, FindContact, LookForWork, Typed, Rows, Binding
  <2> QED BY <2>1, <2>3, <2>4 DEF Attributed, HistoryPCs
<1>8. CASE ListHistory(p)
  <2>1. /\ proc'[p].pc \in HistoryPCs /\ proc'[p].ids = Unowned /\ UNCHANGED <<event, visitor>>
        /\ visitor.bound
    BY <1>0, <1>8 DEF ListHistory, ProcState, HistoryPCs, Attributed, work
  <2>2. \A e \in Unowned : event[e].owner = "nobody" BY DEF Unowned
  <2> QED BY <2>1, <2>2 DEF Attributed, HistoryPCs
<1>9. ASSUME NEW e \in Events, RestoreEvent(p, e) PROVE Attributed(p)'
  <2>1. /\ proc'[p].pc \in {"work", "restore"} /\ proc'[p].ids = proc[p].ids \ {e}
        /\ UNCHANGED visitor /\ visitor.bound
    BY <1>0, <1>9 DEF RestoreEvent, ProcState, HistoryPCs, Attributed
  <2>2. \A f \in Events \ {e} : event'[f] = event[f]
    BY <1>9 DEF RestoreEvent, Typed, Rows
  <2>3. proc[p].ids \subseteq Events BY <1>0 DEF ProcState
  <2> QED BY <2>1, <2>2, <2>3 DEF Attributed, HistoryPCs
<1>10. ASSUME NEW e \in Events, NEW r \in Rules, NEW now \in 0 .. MaxDay, ListDue(p, e, r, now)
       PROVE  Attributed(p)'
  BY <1>0, <1>10 DEF ListDue, Attributed, Idle, HistoryPCs
<1> QED BY <1>1, <1>2, <1>3, <1>4, <1>5, <1>6, <1>7, <1>8, <1>9, <1>10
        DEF Acts, Processor, History, DecayWorker

LEMMA InitAttribution == Init => Attribution
BY DEF Init, NoEvent, Unbound, Idle, Attribution, Owned, Attributed, HistoryPCs

LEMMA KnownToInvocations ==
    ASSUME Typed, [Next]_vars, \A p \in Procs : Attributed(p)
    PROVE  \A p \in Procs : Attributed(p)'
<1>1. CASE UNCHANGED vars BY <1>1, StaysAttributed DEF vars
<1>2. CASE Environment BY <1>2, StaysAttributed, NobodySteps
<1>3. ASSUME NEW o \in Procs, Acts(o) PROVE \A p \in Procs : Attributed(p)'
  BY <1>3, StaysAttributed, ActsAttributed, OthersWait, Steps
<1> QED BY <1>1, <1>2, <1>3, Steps

\* A projection that is completed has had an owner who runs it.
LEMMA CompletedOwned ==
    ASSUME Typed, [Next]_vars, Attribution, NEW e \in Events, NEW q \in Projections,
           projection'[e][q] = "completed"
    PROVE  event'[e].owner = "live" \/ (event'[e].owner = "history" /\ q \in HistoryProjections)
<1>1. ASSUME projection[e][q] = "completed"
      PROVE  event'[e].owner = "live" \/ (event'[e].owner = "history" /\ q \in HistoryProjections)
  <2>1. event[e].owner = "live" \/ (event[e].owner = "history" /\ q \in HistoryProjections)
    BY <1>1 DEF Attribution, Owned
  <2>2. Exists(e) BY <2>1 DEF Typed, Rows, Recorded, NoEvent
  <2> QED BY <2>1, <2>2, OwnerStays
<1>2. ASSUME projection[e][q] # "completed"
      PROVE  event'[e].owner = "live" \/ (event'[e].owner = "history" /\ q \in HistoryProjections)
  <2>1. projection'[e][q] # projection[e][q] BY <1>2
  <2>2. PICK p \in Procs : proc[p].event = e /\ Finish(p) /\ q = Current(p)
    BY <2>1, HowDecided
  <2>3. proc[p].owner # "nobody" /\ event[e].owner = proc[p].owner
        /\ (proc[p].owner = "history" => q \in HistoryProjections)
    BY <2>2 DEF Finish, Attribution, Attributed
  <2>4. event' = event /\ event \in [Events -> Event] BY <2>2 DEF Finish, Typed, Rows
  <2> QED BY <2>3, <2>4 DEF Event
<1> QED BY <1>1, <1>2

LEMMA EnrolledByAction ==
    ASSUME Typed, [Next]_vars, enrolled' # enrolled
    PROVE  \E p \in Procs : ProjectEnrollment(p)
<1>1. ~Environment
  BY DEF Environment, Record, RecordVisit, Purge, Bind, ArchiveContact, RestoreContact, Adjust,
         Reconcile, beside, NextDay, LeaseExpires, RetryFallsDue, HistoryLeaseExpires, effects
<1>2. ASSUME NEW p \in Procs, Acts(p), ~ProjectEnrollment(p) PROVE UNCHANGED enrolled
  BY <1>2 DEF Acts, Claim, Processor, Load, SkipPending, List, SkipReplayed, CheckContact,
              Project, ProjectScoring, ProjectGrade, SwapGrade, ProjectCampaign, Finish,
              MarkProcessed, Fail, Crash, History, ClaimHistory, FindContact, ListHistory,
              LookForWork, RestoreEvent, ReleaseHistory, FailHistory, DecayWorker, ListDue,
              Decay, DecayDate, DecayLoses, effects
<1> QED BY <1>1, <1>2, Steps DEF vars

LEMMA EnrolledOwned ==
    ASSUME Typed, [Next]_vars, Attribution, NEW e \in enrolled'
    PROVE  event'[e].owner = "live"
<1>0. e \in Events BY NextTyped DEF Typed, Rows
<1>1. event[e].owner = "live"
  <2>1. CASE e \in enrolled BY <2>1 DEF Attribution, Owned
  <2>2. CASE e \notin enrolled
    <3>1. PICK p \in Procs : ProjectEnrollment(p) BY <2>2, EnrolledByAction
    <3>2. e = proc[p].event /\ proc[p].pc = "run" /\ Current(p) \notin HistoryProjections
      BY <2>2, <3>1 DEF ProjectEnrollment, Running, HistoryProjections
    <3>3. proc[p] \in ProcState BY DEF Typed, Invocations
    <3> QED BY <3>2, <3>3 DEF Attribution, Attributed, ProcState
  <2> QED BY <2>1, <2>2
<1>2. Exists(e) BY <1>0, <1>1 DEF Typed, Rows, Recorded, NoEvent
<1> QED BY <1>0, <1>1, <1>2, OwnerStays

\* The history is closed by who looked at it.
LEMMA ClosedBy ==
    ASSUME Typed, [Next]_vars, visitor'.history = "done", visitor.history # "done"
    PROVE  \E p \in Procs : proc[p].pc = "close" /\ visitor'.bound = visitor.bound
<1>0. visitor \in Binding BY DEF Typed, Rows
<1>1. ~(Bind \/ HistoryLeaseExpires) BY <1>0 DEF Bind, HistoryLeaseExpires, Binding
<1>2. ASSUME NEW p \in Procs, ClaimHistory(p) \/ FailHistory(p) PROVE FALSE
  BY <1>0, <1>2 DEF ClaimHistory, FailHistory, Released, Binding
<1>3. ASSUME NEW p \in Procs, ReleaseHistory(p)
      PROVE  proc[p].pc = "close" /\ visitor'.bound = visitor.bound
  BY <1>0, <1>3 DEF ReleaseHistory, Released, Binding
<1>4. ASSUME Environment, ~(Bind \/ HistoryLeaseExpires) PROVE UNCHANGED visitor
  BY <1>4 DEF Environment, Record, RecordVisit, Purge, ArchiveContact, RestoreContact, Adjust,
              Reconcile, beside, NextDay, LeaseExpires, RetryFallsDue
<1>5. ASSUME NEW p \in Procs, Acts(p), ~(ClaimHistory(p) \/ ReleaseHistory(p) \/ FailHistory(p))
      PROVE  UNCHANGED visitor
  BY <1>5 DEF Acts, Claim, Processor, Load, SkipPending, List, SkipReplayed, CheckContact, Project,
              ProjectScoring, ProjectGrade, SwapGrade, ProjectCampaign, ProjectEnrollment, Finish,
              MarkProcessed, Fail, Crash, History, FindContact, ListHistory, LookForWork,
              RestoreEvent, DecayWorker, ListDue, Decay, DecayDate, DecayLoses
<1> QED BY <1>1, <1>2, <1>3, <1>4, <1>5, Steps DEF vars

LEMMA NextAttribution == Typed /\ Attribution /\ [Next]_vars => Attribution'
<1> SUFFICES ASSUME Typed, Attribution, [Next]_vars PROVE Attribution'
  OBVIOUS
<1>1. \A p \in Procs : Attributed(p)' BY KnownToInvocations DEF Attribution
<1>2. ASSUME visitor'.history = "done" PROVE visitor'.bound
  <2>1. CASE visitor.history = "done" BY <2>1, BoundStays DEF Attribution, Owned
  <2>2. CASE visitor.history # "done"
    BY <1>2, <2>2, ClosedBy DEF Attribution, Attributed, HistoryPCs
  <2> QED BY <2>1, <2>2
<1> QED BY <1>1, <1>2, CompletedOwned, EnrolledOwned DEF Attribution, Owned

\* An invocation knows the owner of its event for as long as it runs the event, and what
\* has run of an event is what its owner allows: all of a live one, of a history only what
\* a replay may repeat.
THEOREM AlwaysAttributed == Spec => []Attribution
BY AlwaysTyped, InitAttribution, NextAttribution, PTL DEF Spec

-----------------------------------------------------------------------------
(* The order of the projections.                                            *)

PendingOf(e) == {q \in Projections : projection[e][q] = "pending"}

\* Who still holds the lease of his event has seen all that is pending of it.
Tracks(p) ==
    proc[p].pc \in {"check", "run", "swap", "finish"} /\ Holds(p, proc[p].event) =>
        PendingOf(proc[p].event) \subseteq proc[p].todo
Tracking == \A p \in Procs : Tracks(p)

\* Nothing becomes pending of an event whose lease is kept.
LEMMA PendingShrinks ==
    ASSUME Typed, [Next]_vars, NEW p \in Procs, NEW e \in Events, Holds(p, e), Holds(p, e)'
    PROVE  PendingOf(e)' \subseteq PendingOf(e)
<1>0. outbox \in [Events -> Row] BY DEF Typed, Rows
<1>1. Exists(e) BY DEF Typed, Rows, Recorded, Holds
<1>2. ASSUME NEW q \in Projections, projection'[e][q] = "pending" PROVE projection[e][q] = "pending"
  <2>1. ASSUME NEW o \in Procs, RestoreEvent(o, e) PROVE FALSE
    BY <1>0, <2>1 DEF RestoreEvent, Free, Holds
  <2> QED BY <1>1, <1>2, <2>1, HowDecided
<1> QED BY <1>2 DEF PendingOf

LEMMA StaysTracking ==
    ASSUME Typed, [Next]_vars, NEW p \in Procs, Tracks(p), proc'[p].todo = proc[p].todo,
           proc'[p].event = proc[p].event, proc'[p].pc \in {"check", "run", "swap", "finish"},
           proc[p].pc \in {"check", "run", "swap", "finish"}
    PROVE  Tracks(p)'
<1> SUFFICES ASSUME Holds(p, proc[p].event)' PROVE PendingOf(proc[p].event)' \subseteq proc[p].todo
  BY DEF Tracks, Holds, PendingOf
<1>1. proc[p].event \in Events BY AtProjection
<1>2. Holds(p, proc[p].event) BY <1>1, LeaseByClaim
<1>3. PendingOf(proc[p].event)' \subseteq PendingOf(proc[p].event)
  <2> DEFINE e == proc[p].event
  <2>1. Holds(p, e)' BY DEF Holds
  <2>2. e \in Events /\ Holds(p, e) BY <1>1, <1>2
  <2>3. PendingOf(e)' \subseteq PendingOf(e)
    <3>1. \A f \in Events : Holds(p, f) /\ Holds(p, f)' => PendingOf(f)' \subseteq PendingOf(f)
      BY PendingShrinks
    <3> QED BY <2>1, <2>2, <3>1 DEF Holds, PendingOf
  <2> QED BY <2>3 DEF PendingOf
<1> QED BY <1>2, <1>3 DEF Tracks

LEMMA AdvancesTracking ==
    ASSUME Typed, NEW p \in Procs, Tracks(p), SkipReplayed(p) \/ Finish(p) PROVE Tracks(p)'
<1> DEFINE e == proc[p].event
           c == Current(p)
<1>1. e \in Events /\ c \in Projections /\ proc[p] \in ProcState
  BY AtProjection DEF SkipReplayed, Finish
<1>2. /\ proc'[p].event = e /\ proc'[p].todo = proc[p].todo \ {c}
      /\ outbox' = outbox /\ \E outcome \in {"completed", "skipped"} : SetFinished(p, outcome)
      /\ proc[p].pc \in {"check", "finish"}
  <2>1. proc[p].pc \in {"check", "finish"} /\ Advance(p) /\ outbox' = outbox
    BY DEF SkipReplayed, Finish
  <2>2. proc'[p].event = e /\ proc'[p].todo = proc[p].todo \ {c}
    BY <2>1, WhereAdvanceGoes
  <2>3. \E outcome \in {"completed", "skipped"} : SetFinished(p, outcome)
    BY DEF SkipReplayed, Finish
  <2> QED BY <2>1, <2>2, <2>3
<1>3. PICK outcome \in {"completed", "skipped"} : SetFinished(p, outcome) BY <1>2
<1>4. SUFFICES ASSUME Holds(p, e), NEW q \in Projections, projection'[e][q] = "pending"
               PROVE  q \in proc[p].todo \ {c}
  BY <1>2 DEF Tracks, Holds, PendingOf
<1>5. /\ \A o \in Projections \ {c} : projection'[e][o] = projection[e][o]
      /\ projection'[e][c] # "pending"
  BY <1>1, <1>3, <1>4 DEF SetFinished, Typed, Rows
<1>6. q # c /\ projection[e][q] = "pending" BY <1>1, <1>4, <1>5
<1> QED BY <1>2, <1>4, <1>6 DEF Tracks, PendingOf

LEMMA ActsTracking ==
    ASSUME Typed, NEW p \in Procs, Acts(p), Tracks(p)
    PROVE  Tracks(p)'
<1>0. proc \in [Procs -> ProcState] /\ proc[p] \in ProcState BY DEF Typed, Invocations
<1>1. CASE SkipReplayed(p) \/ Finish(p) BY <1>1, AdvancesTracking
<1>2. CASE List(p)
  <2>1. proc'[p].todo = PendingOf(proc[p].event) /\ proc'[p].event = proc[p].event
        /\ projection' = projection
    BY <1>0, <1>2 DEF List, PendingOf, ProcState, work
  <2> QED BY <2>1 DEF Tracks, PendingOf
<1>3. CASE CheckContact(p)
  <2>1. /\ proc[p].pc = "check" /\ proc'[p].todo = proc[p].todo
        /\ proc'[p].event = proc[p].event
    BY <1>0, <1>3 DEF CheckContact, Goto, ProcState
  <2>2. CASE proc'[p].pc \in {"run", "finish"} BY <2>1, <2>2, <1>3, StaysTracking, Steps
  <2>3. CASE proc'[p].pc \notin {"run", "finish"}
    BY <1>0, <1>3, <2>3 DEF CheckContact, Goto, Checked, Tracks, ProcState
  <2> QED BY <2>2, <2>3
<1>4. CASE Project(p)
  <2>1. /\ proc[p].pc \in {"run", "swap"} /\ proc'[p].pc \in {"run", "swap", "finish"}
        /\ proc'[p].todo = proc[p].todo /\ proc'[p].event = proc[p].event
    BY <1>0, <1>4 DEF Project, ProjectScoring, ProjectGrade, SwapGrade, ProjectCampaign,
                      ProjectEnrollment, Running, Goto, ProcState
  <2> QED BY <2>1, StaysTracking, Steps
<1>5. CASE proc'[p].pc \notin {"check", "run", "swap", "finish"} BY <1>5 DEF Tracks
<1> QED BY <1>1, <1>2, <1>3, <1>4, <1>5, WhereItGoes

LEMMA NextTracking == Typed /\ Tracking /\ [Next]_vars => Tracking'
<1> SUFFICES ASSUME Typed, Tracking, [Next]_vars, NEW p \in Procs PROVE Tracks(p)'
  BY DEF Tracking
<1>1. ASSUME proc'[p] = proc[p] PROVE Tracks(p)'
  <2>1. CASE proc[p].pc \in {"check", "run", "swap", "finish"}
    BY <1>1, <2>1, StaysTracking DEF Tracking
  <2>2. CASE proc[p].pc \notin {"check", "run", "swap", "finish"} BY <1>1, <2>2 DEF Tracks
  <2> QED BY <2>1, <2>2
<1>2. ASSUME Acts(p) PROVE Tracks(p)' BY <1>2, ActsTracking DEF Tracking
<1> QED BY <1>1, <1>2, OthersWait, NobodySteps, Steps DEF vars

LEMMA InitTracking == Init => Tracking
BY DEF Init, Idle, Tracking, Tracks

LEMMA InitInOrder == Init => ProjectedInOrder
BY DEF Init, ProjectedInOrder, Projections

LEMMA NextInOrder ==
    Typed /\ Attribution /\ Tracking /\ ProjectedInOrder /\ [Next]_vars => ProjectedInOrder'
<1> SUFFICES ASSUME Typed, Attribution, Tracking, ProjectedInOrder, [Next]_vars,
                    NEW e \in Events, NEW i \in DOMAIN Order, NEW j \in DOMAIN Order, i < j,
                    projection'[e][Order[j]] = "completed", projection'[e][Order[i]] = "pending"
             PROVE  FALSE
  BY DEF ProjectedInOrder
<1> DEFINE q == Order[j]
           o == Order[i]
<1>1. q \in Projections /\ o \in Projections /\ i \in Nat /\ j \in Nat BY OrderFacts
<1>2. projection[e][q] = "completed" => projection[e][o] # "pending" BY DEF ProjectedInOrder
<1> HIDE DEF q, o
<1>3. projection'[e][q] = "completed" /\ projection'[e][o] = "pending" BY DEF q, o
<1>4. CASE projection[e][q] # "completed"
  <2>1. PICK p \in Procs :
            /\ proc[p].event = e /\ Holds(p, e) /\ Finish(p) /\ q = Current(p)
            /\ \A r \in Projections \ {q} : projection'[e][r] = projection[e][r]
    BY <1>1, <1>3, <1>4, HowDecided
  <2>2. o # q BY <1>3
  <2>3. o \in PendingOf(e) BY <1>1, <1>3, <2>1, <2>2 DEF PendingOf
  <2>4. o \in proc[p].todo BY <2>1, <2>3 DEF Tracking, Tracks, Finish
  <2>5. proc[p].todo \subseteq Projections /\ proc[p].todo # {}
    BY <2>1, AtProjection DEF Finish, ProcState
  <2>6. j <= i BY <2>1, <2>4, <2>5, CurrentIsFirst DEF q, o
  <2> QED BY <1>1, <2>6
<1>5. CASE projection[e][q] = "completed"
  <2>1. projection[e][o] # projection'[e][o] BY <1>2, <1>3, <1>5
  <2>2. Exists(e) BY <1>1, <1>5 DEF Typed, Rows, Recorded
  <2>3. PICK p \in Procs : RestoreEvent(p, e) /\ projection'[e][q] =
            IF q \in HistoryProjections THEN "pending" ELSE projection[e][q]
    BY <1>1, <1>3, <2>1, <2>2, HowDecided
  <2>4. q \notin HistoryProjections BY <1>3, <2>3
  <2>5. event[e].owner = "live" BY <1>1, <1>5, <2>4 DEF Attribution, Owned
  <2> QED BY <2>3, <2>5 DEF RestoreEvent, Attribution, Attributed
<1> QED BY <1>4, <1>5

\* The projections of an event take effect in their order: none is completed while an
\* earlier one is still to come, whatever attempts and restorations overlap.
THEOREM InOrder == Spec => []ProjectedInOrder
<1>1. Spec => []Tracking BY AlwaysTyped, InitTracking, NextTracking, PTL DEF Spec
<1> QED BY AlwaysTyped, AlwaysAttributed, <1>1, InitInOrder, NextInOrder, PTL DEF Spec

-----------------------------------------------------------------------------
(* The effects of the projections.                                          *)

LEMMA WritersOfLedger ==
    ASSUME Typed, [Next]_vars
    PROVE  /\ \/ UNCHANGED <<score, logged, scored, contribution, category>>
              \/ \E p \in Procs : \/ ProjectScoring(p) \/ DecayDate(p)
                                  \/ \E d \in Events : Decay(p, d)
              \/ \E a \in Adjustments : Adjust(a)
              \/ Reconcile
           /\ adjusted' # adjusted => \E a \in Adjustments : Adjust(a)
           /\ contact' # contact => ArchiveContact \/ RestoreContact
           /\ grade' # grade => \E p \in Procs : SwapGrade(p)
           /\ touched' # touched => \E p \in Procs : ProjectCampaign(p)
           /\ occurred' # occurred => \E e \in Events : \E fresh : Create(e, fresh)
<1> DEFINE Same == /\ UNCHANGED <<score, logged, scored, contribution, category>>
                   /\ UNCHANGED <<adjusted, contact, grade, touched, occurred>>
<1>1. ASSUME UNCHANGED vars PROVE Same BY <1>1 DEF vars
<1>2. ASSUME NEW e \in Events, Record(e) \/ RecordVisit(e)
      PROVE  /\ UNCHANGED <<score, logged, scored, contribution, category>>
             /\ UNCHANGED <<adjusted, contact, grade, touched>> /\ \E fresh : Create(e, fresh)
  BY <1>2 DEF Record, RecordVisit, effects, clock
<1>3. ASSUME \/ Bind \/ NextDay \/ HistoryLeaseExpires
             \/ \E e \in Events : Purge(e) \/ LeaseExpires(e) \/ RetryFallsDue(e)
      PROVE  Same
  BY <1>3 DEF Bind, NextDay, HistoryLeaseExpires, Purge, LeaseExpires, RetryFallsDue, effects,
              people
<1>4. ASSUME ArchiveContact \/ RestoreContact
      PROVE  /\ UNCHANGED <<score, logged, scored, contribution, category>>
             /\ UNCHANGED <<adjusted, grade, touched, occurred>>
  BY <1>4 DEF ArchiveContact, RestoreContact, effects
<1>5. ASSUME NEW a \in Adjustments, Adjust(a) PROVE UNCHANGED <<contact, grade, touched, occurred>>
  BY <1>5 DEF Adjust, AdjustScore, beside
<1>6. ASSUME Reconcile PROVE UNCHANGED <<contact, adjusted, grade, touched, occurred>>
  BY <1>6 DEF Reconcile, ReconcileContactScores, beside
<1>7. ASSUME NEW p \in Procs, \/ \E e \in Events : Claim(p, e) \/ RestoreEvent(p, e)
                              \/ Load(p) \/ SkipPending(p) \/ List(p) \/ SkipReplayed(p)
                              \/ CheckContact(p) \/ Finish(p) \/ MarkProcessed(p)
      PROVE  Same
  BY <1>7 DEF Claim, RestoreEvent, Load, SkipPending, List, SkipReplayed, CheckContact, Finish,
              MarkProcessed, effects, people
<1>8. ASSUME NEW p \in Procs, \/ Fail(p) \/ Crash(p) \/ ClaimHistory(p) \/ FindContact(p)
                              \/ ListHistory(p) \/ LookForWork(p) \/ ReleaseHistory(p)
                              \/ FailHistory(p) \/ DecayLoses(p) \/ ProjectGrade(p)
                              \/ ProjectEnrollment(p)
                              \/ \E e \in Events, r \in Rules, now \in 0 .. MaxDay :
                                    ListDue(p, e, r, now)
      PROVE  Same
  BY <1>8 DEF Fail, Crash, ClaimHistory, FindContact, ListHistory, LookForWork, ReleaseHistory,
              FailHistory, DecayLoses, ProjectGrade, ProjectEnrollment, ListDue, effects, people,
              ledger
<1>9. ASSUME NEW p \in Procs, SwapGrade(p)
      PROVE  /\ UNCHANGED <<score, logged, scored, contribution, category>>
             /\ UNCHANGED <<adjusted, contact, touched, occurred>>
  BY <1>9 DEF SwapGrade, ledger, people
<1>10. ASSUME NEW p \in Procs, ProjectCampaign(p)
       PROVE  /\ UNCHANGED <<score, logged, scored, contribution, category>>
              /\ UNCHANGED <<adjusted, contact, grade, occurred>>
  BY <1>10 DEF ProjectCampaign, ledger, people
<1>11. ASSUME NEW p \in Procs, ProjectScoring(p) \/ DecayDate(p)
       PROVE  UNCHANGED <<adjusted, contact, grade, touched, occurred>>
  BY <1>11 DEF ProjectScoring, DecayDate, people
<1>12. ASSUME NEW p \in Procs, NEW d \in Events, Decay(p, d)
       PROVE  UNCHANGED <<adjusted, contact, grade, touched>> /\ \E fresh : Create(d, fresh)
  BY <1>12 DEF Decay, clock
<1> HIDE DEF Same
<1>13. ASSUME Environment
       PROVE  \/ Same
              \/ \E e \in Events : Record(e) \/ RecordVisit(e)
              \/ ArchiveContact \/ RestoreContact \/ Reconcile
              \/ \E a \in Adjustments : Adjust(a)
  BY <1>3, <1>13 DEF Environment
<1>14. ASSUME NEW p \in Procs, Acts(p)
       PROVE  \/ Same \/ ProjectScoring(p) \/ DecayDate(p) \/ SwapGrade(p) \/ ProjectCampaign(p)
              \/ \E d \in Events : Decay(p, d)
  BY <1>7, <1>8, <1>14 DEF Acts, Processor, Project, History, DecayWorker
<1>15. \/ Same
       \/ \E e \in Events : Record(e) \/ RecordVisit(e)
       \/ ArchiveContact \/ RestoreContact \/ Reconcile
       \/ \E a \in Adjustments : Adjust(a)
       \/ \E p \in Procs : \/ ProjectScoring(p) \/ DecayDate(p) \/ SwapGrade(p)
                           \/ ProjectCampaign(p) \/ \E d \in Events : Decay(p, d)
  BY <1>1, <1>13, <1>14, Steps
<1>16. CASE Same BY <1>16 DEF Same
<1>17. CASE \E e \in Events : Record(e) \/ RecordVisit(e) BY <1>2, <1>17
<1>18. CASE ArchiveContact \/ RestoreContact BY <1>4, <1>18
<1>19. CASE Reconcile \/ \E a \in Adjustments : Adjust(a) BY <1>5, <1>6, <1>19
<1>20. CASE \E p \in Procs : ProjectScoring(p) \/ DecayDate(p) BY <1>11, <1>20
<1>21. CASE \E p \in Procs : SwapGrade(p) BY <1>9, <1>21
<1>22. CASE \E p \in Procs : ProjectCampaign(p) BY <1>10, <1>22
<1>23. CASE \E p \in Procs, d \in Events : Decay(p, d) BY <1>12, <1>23
<1> QED BY <1>15, <1>16, <1>17, <1>18, <1>19, <1>20, <1>21, <1>22, <1>23

LEMMA EffectsGrow ==
    ASSUME Typed, [Next]_vars
    PROVE  /\ scored \subseteq scored' /\ touched \subseteq touched' /\ enrolled \subseteq enrolled'
           /\ contact' = "active" => contact = "active"
<1>1. ASSUME NEW p \in Procs, ProjectScoring(p) PROVE scored \subseteq scored'
  BY <1>1 DEF ProjectScoring, ApplyScore, ApplyEffects, ledger
<1>2. ASSUME \/ \E p \in Procs : DecayDate(p) \/ \E d \in Events : Decay(p, d)
             \/ \E a \in Adjustments : Adjust(a)
             \/ Reconcile
      PROVE  UNCHANGED scored
  BY <1>2 DEF DecayDate, DecayDateOnly, Decay, DecayBatch, Adjust, AdjustScore, Reconcile,
              ReconcileContactScores
<1>3. ASSUME NEW p \in Procs, ProjectCampaign(p) PROVE touched \subseteq touched'
  BY <1>3 DEF ProjectCampaign
<1>4. ASSUME NEW p \in Procs, ProjectEnrollment(p) PROVE enrolled \subseteq enrolled'
  BY <1>4 DEF ProjectEnrollment
<1>5. ASSUME ArchiveContact \/ RestoreContact PROVE contact' # "active"
  BY <1>5 DEF ArchiveContact, RestoreContact
<1> QED BY <1>1, <1>2, <1>3, <1>4, <1>5, WritersOfLedger, EnrolledByAction

\* What happened stays so.
LEMMA TookEffectStays ==
    ASSUME Typed, [Next]_vars, NEW e \in Events, Exists(e), NEW q, TookEffect(e, q)
    PROVE  TookEffect(e, q)'
<1>1. event'[e].kind = event[e].kind BY OwnerStays
<1> QED BY <1>1, EffectsGrow DEF TookEffect

\* The contact of a finished projection has it, unless he was archived meanwhile.
Effected(p) ==
    proc[p].pc = "finish" /\ contact = "active" => TookEffect(proc[p].event, Current(p))

\* While the contact is active, what is completed took effect.
CompletedTookEffect ==
    /\ \A e \in Events, q \in Projections :
           projection[e][q] = "completed" /\ contact = "active" => TookEffect(e, q)
    /\ \A p \in Procs : Effected(p)

LEMMA StaysEffected ==
    ASSUME Typed, [Next]_vars, NEW p \in Procs, Effected(p), proc'[p] = proc[p]
    PROVE  Effected(p)'
<1> SUFFICES ASSUME proc[p].pc = "finish", contact' = "active"
             PROVE  TookEffect(proc[p].event, Current(p))'
  BY DEF Effected
<1>1. /\ contact = "active" /\ proc[p].event \in Events /\ Exists(proc[p].event)
  BY EffectsGrow, AtProjection
<1>2. Current(p)' = Current(p) BY SameCurrent
<1> DEFINE e == proc[p].event
           q == Current(p)
<1>3. TookEffect(e, q) BY <1>1 DEF Effected
<1>4. e \in Events /\ Exists(e) BY <1>1
<1>5. e' = e /\ q' = q BY <1>2
<1> HIDE DEF e, q
<1>6. TookEffect(e, q)' BY <1>3, <1>4, <1>5, TookEffectStays DEF TookEffect
<1> QED BY <1>6 DEF e, q

LEMMA ActsEffected ==
    ASSUME Typed, NEW p \in Procs, Acts(p), Attributed(p), proc'[p].pc = "finish"
    PROVE  Effected(p)'
<1>0. proc \in [Procs -> ProcState] /\ proc[p] \in ProcState /\ event \in [Events -> Event]
  BY DEF Typed, Invocations, Rows
<1>1. CheckContact(p) \/ Project(p)
  <2>1. ASSUME List(p) PROVE FALSE BY <1>0, <2>1 DEF List
  <2>2. ASSUME SkipReplayed(p) \/ Finish(p) PROVE FALSE
    BY <2>2, WhereAdvanceGoes DEF SkipReplayed, Finish
  <2> QED BY <2>1, <2>2, WhereItGoes
<1> DEFINE e == proc[p].event
           q == Current(p)
<1>2. proc'[p].event = e /\ proc'[p].todo = proc[p].todo /\ event' = event
  <2>1. CASE CheckContact(p) BY <1>0, <2>1 DEF CheckContact, Goto, ProcState, work
  <2>2. CASE Project(p)
    BY <1>0, <2>2 DEF Project, ProjectScoring, ProjectGrade, SwapGrade, ProjectCampaign,
                      ProjectEnrollment, Goto, ProcState, work
  <2> QED BY <1>1, <2>1, <2>2
<1>3. Current(p)' = q BY <1>2, SameCurrent
<1>4. proc[p].pc \in {"check", "run", "swap"}
  BY <1>1 DEF CheckContact, Project, ProjectScoring, ProjectGrade, SwapGrade, ProjectCampaign,
              ProjectEnrollment, Running
<1>5. e \in Events BY <1>4, AtProjection
<1>6. SUFFICES ASSUME contact' = "active" PROVE TookEffect(e, q)'
  <2>1. e' = e /\ q' = q BY <1>2, <1>3
  <2> QED BY <1>2, <1>3, <2>1 DEF Effected, TookEffect
<1>7. CASE CheckContact(p)
  <2>1. q \notin Effective BY <1>0, <1>7 DEF CheckContact, Goto, Checked
  <2> QED BY <1>3, <2>1 DEF TookEffect, Effective
<1>8. CASE ProjectGrade(p) \/ SwapGrade(p)
  <2>1. q = "grade" BY <1>8 DEF ProjectGrade, SwapGrade, Running, Attributed
  <2> QED BY <1>3, <2>1 DEF TookEffect
<1>9. CASE ProjectCampaign(p)
  <2>1. q = "campaign" /\ e \in touched' BY <1>9 DEF ProjectCampaign, Running
  <2> QED BY <1>2, <1>3, <2>1 DEF TookEffect
<1>10. CASE ProjectEnrollment(p)
  <2>1. q = "automation_enrollment" /\ e \in enrolled'
    BY <1>6, <1>10 DEF ProjectEnrollment, Running, Active, people
  <2> QED BY <1>2, <1>3, <2>1 DEF TookEffect
<1>11. CASE ProjectScoring(p)
  <2>1. q = "scoring" BY <1>11 DEF ProjectScoring, Running
  <2>2. ASSUME event[e].kind = "behaviour", NEW r \in Rules PROVE <<e, r>> \in scored'
    <3>1. scored' = scored \cup ({e} \X NewEffects(e)) /\ Active
      BY <1>6, <1>11, <2>2 DEF ProjectScoring, ApplyScore, ApplyEffects, Active, people
    <3> QED BY <3>1 DEF NewEffects
  <2> QED BY <1>2, <1>3, <2>1, <2>2 DEF TookEffect
<1> QED BY <1>1, <1>7, <1>8, <1>9, <1>10, <1>11 DEF Project

LEMMA NextEffects ==
    Typed /\ Attribution /\ CompletedTookEffect /\ [Next]_vars => CompletedTookEffect'
<1> SUFFICES ASSUME Typed, Attribution, CompletedTookEffect, [Next]_vars
             PROVE  CompletedTookEffect'
  OBVIOUS
<1>1. ASSUME NEW e \in Events, NEW q \in Projections, projection'[e][q] = "completed",
             contact' = "active"
      PROVE  TookEffect(e, q)'
  <2>1. contact = "active" BY <1>1, EffectsGrow
  <2>2. TookEffect(e, q) /\ Exists(e)
    <3>1. CASE projection[e][q] = "completed"
      BY <2>1, <3>1 DEF CompletedTookEffect, Typed, Rows, Recorded
    <3>2. CASE projection[e][q] # "completed"
      <4>1. PICK p \in Procs : proc[p].event = e /\ Finish(p) /\ q = Current(p)
        BY <1>1, <3>2, HowDecided
      <4> QED BY <2>1, <4>1, AtProjection DEF Finish, CompletedTookEffect, Effected
    <3> QED BY <3>1, <3>2
  <2> QED BY <2>2, TookEffectStays
<1>2. ASSUME NEW p \in Procs PROVE Effected(p)'
  <2>1. ASSUME proc'[p] = proc[p] PROVE Effected(p)'
    BY <2>1, StaysEffected DEF CompletedTookEffect
  <2>2. ASSUME Acts(p) PROVE Effected(p)'
    <3>1. CASE proc'[p].pc = "finish" BY <2>2, <3>1, ActsEffected DEF Attribution
    <3>2. CASE proc'[p].pc # "finish" BY <3>2 DEF Effected
    <3> QED BY <3>1, <3>2
  <2> QED BY <2>1, <2>2, OthersWait, NobodySteps, Steps DEF vars
<1> QED BY <1>1, <1>2 DEF CompletedTookEffect

\* An event that is out of the outbox has every projection decided.
LeftDecided ==
    \A e \in Events, q \in Projections :
        Exists(e) /\ outbox[e].status \in {"processed", "absent"} =>
            projection[e][q] \in {"completed", "skipped"}

\* An event leaves the outbox by markProcessed, and then by the purge.
LEMMA LeavesOutbox ==
    ASSUME Typed, [Next]_vars, NEW e \in Events, outbox'[e].status \in {"processed", "absent"}
    PROVE  \/ outbox[e].status \in {"processed", "absent"}
           \/ \A q \in Projections : projection[e][q] # "pending"
<1>0. outbox \in [Events -> Row] BY DEF Typed, Rows
<1>1. CASE outbox'[e] = outbox[e] BY <1>1
<1>2. ASSUME NEW f \in Events, NEW fresh, Create(f, fresh) PROVE outbox'[e] = outbox[e]
  BY <1>0, <1>2 DEF Create, Free, NoRow
<1>3. ASSUME Environment
      PROVE  outbox'[e] = outbox[e] \/ outbox[e].status \in {"processed", "absent"}
  <2>1. ASSUME NEW f \in Events, Record(f) \/ RecordVisit(f) PROVE outbox'[e] = outbox[e]
    BY <1>2, <2>1 DEF Record, RecordVisit
  <2>2. ASSUME NEW f \in Events, Purge(f) \/ LeaseExpires(f) \/ RetryFallsDue(f)
        PROVE  outbox'[e] = outbox[e] \/ outbox[e].status \in {"processed", "absent"}
    BY <1>0, <2>2 DEF Purge, LeaseExpires, RetryFallsDue, Row
  <2>3. ASSUME \/ Bind \/ ArchiveContact \/ RestoreContact \/ Reconcile \/ NextDay
               \/ HistoryLeaseExpires \/ \E a \in Adjustments : Adjust(a)
        PROVE  outbox' = outbox
    BY <2>3 DEF Bind, ArchiveContact, RestoreContact, Adjust, Reconcile, beside, NextDay,
                HistoryLeaseExpires, work
  <2> QED BY <1>3, <2>1, <2>2, <2>3 DEF Environment
<1>4. ASSUME NEW p \in Procs, NEW f \in Events, Claim(p, f) \/ RestoreEvent(p, f)
      PROVE  outbox'[e] = outbox[e]
  <2>1. f # e => outbox'[e] = outbox[e] BY <1>0, <1>4 DEF Claim, RestoreEvent
  <2>2. CASE Claim(p, e) BY <1>0, <2>2 DEF Claim
  <2>3. CASE RestoreEvent(p, e)
    <3>1. outbox'[e] = Free(outbox[e], "pending", TRUE) BY <1>0, <2>3 DEF RestoreEvent
    <3> QED BY <1>0, <3>1 DEF Free, Row
  <2> QED BY <1>4, <2>1, <2>2, <2>3
<1>5. ASSUME NEW p \in Procs, Fail(p) PROVE outbox'[e] = outbox[e]
  <2>1. \/ outbox' = outbox
        \/ outbox' = [outbox EXCEPT ![proc[p].event] = Free(@, "pending", FALSE)]
    BY <1>5 DEF Fail
  <2>2. outbox'[e] = outbox[e] \/ outbox'[e] = Free(outbox[e], "pending", FALSE)
    BY <1>0, <2>1
  <2> QED BY <1>0, <2>2 DEF Free, Row
<1>6. ASSUME NEW p \in Procs, MarkProcessed(p)
      PROVE  \/ outbox'[e] = outbox[e]
             \/ \A q \in Projections : projection[e][q] # "pending"
  BY <1>0, <1>6 DEF MarkProcessed
<1>7. ASSUME NEW p \in Procs, NEW d \in Events, Decay(p, d) PROVE outbox'[e] = outbox[e]
  BY <1>2, <1>7 DEF Decay
<1>8. ASSUME NEW p \in Procs, Acts(p),
             ~\E f \in Events : Claim(p, f) \/ RestoreEvent(p, f) \/ Decay(p, f),
             ~(MarkProcessed(p) \/ Fail(p))
      PROVE  outbox' = outbox
  BY <1>8 DEF Acts, Processor, Load, SkipPending, List, SkipReplayed, CheckContact, Project,
              ProjectScoring, ProjectGrade, SwapGrade, ProjectCampaign, ProjectEnrollment, Finish,
              Crash, History, ClaimHistory, FindContact, ListHistory, LookForWork,
              ReleaseHistory, FailHistory, DecayWorker, ListDue, DecayDate, DecayLoses, work
<1> QED BY <1>1, <1>3, <1>4, <1>5, <1>6, <1>7, <1>8, Steps DEF vars

LEMMA NextLeftDecided == Typed /\ LeftDecided /\ [Next]_vars => LeftDecided'
<1> SUFFICES ASSUME Typed, LeftDecided, [Next]_vars, NEW e \in Events, NEW q \in Projections,
                    Exists(e)', outbox'[e].status \in {"processed", "absent"}
             PROVE  projection'[e][q] \in {"completed", "skipped"}
  BY DEF LeftDecided
<1>1. ASSUME NEW fresh, Create(e, fresh) PROVE FALSE
  BY <1>1 DEF Create, Free, NoRow, Typed, Rows
<1>2. ASSUME NEW p \in Procs, RestoreEvent(p, e) PROVE FALSE
  <2>1. outbox'[e] = Free(outbox[e], "pending", TRUE) BY <1>2 DEF RestoreEvent, Typed, Rows
  <2> QED BY <2>1 DEF Free, Typed, Rows, Row
<1>3. Exists(e)
  <2>1. CASE event' = event BY <2>1 DEF Exists
  <2>2. ASSUME NEW f \in Events, NEW fresh, Create(f, fresh), f # e PROVE event'[e] = event[e]
    BY <2>2 DEF Create, Typed, Rows
  <2>3. ASSUME NEW p \in Procs, NEW f \in Events, RestoreEvent(p, f), f # e
        PROVE  event'[e] = event[e]
    BY <2>3 DEF RestoreEvent, Typed, Rows
  <2>4. ASSUME NEW p \in Procs, SkipPending(p) \/ SkipReplayed(p) \/ Finish(p)
        PROVE  event' = event
    BY <2>4 DEF SkipPending, SkipReplayed, Finish
  <2> QED BY <1>1, <1>2, <2>1, <2>2, <2>3, <2>4, WritersOfWork DEF Exists
<1>4. projection[e][q] # "absent" /\ projection[e] \in
          [Projections -> {"absent", "pending", "completed", "skipped"}]
  BY <1>3 DEF Typed, Rows, Recorded
<1>5. projection[e][q] \in {"completed", "skipped"}
  BY <1>3, <1>4, LeavesOutbox DEF LeftDecided
<1>6. projection'[e][q] = projection[e][q] BY <1>2, <1>3, <1>5, HowDecided
<1> QED BY <1>5, <1>6

LEMMA InitEffects == Init => CompletedTookEffect /\ LeftDecided
BY DEF Init, Idle, NoEvent, CompletedTookEffect, Effected, LeftDecided, Exists

\* An event leaves the outbox only with every projection decided, also when it entered it
\* twice, and what is completed has happened, unless the contact was archived meanwhile.
THEOREM TookEffectWhenProcessed == Spec => []ProcessedTookEffect
<1>1. Spec => []CompletedTookEffect
  BY AlwaysTyped, AlwaysAttributed, InitEffects, NextEffects, PTL DEF Spec
<1>2. Spec => []LeftDecided BY AlwaysTyped, InitEffects, NextLeftDecided, PTL DEF Spec
<1>3. CompletedTookEffect /\ LeftDecided => ProcessedTookEffect
  BY DEF CompletedTookEffect, LeftDecided, ProcessedTookEffect, Exists
<1> QED BY <1>1, <1>2, <1>3, PTL

-----------------------------------------------------------------------------
(* The history of the visitor.                                              *)

NoneUnowned == \A e \in Events : event[e].visitor => event[e].owner # "nobody"

Closed ==
    /\ visitor.history = "done" /\ contact = "active" => NoneUnowned
    /\ \A p \in Procs : proc[p].pc = "close" /\ contact = "active" => NoneUnowned

\* Once the visitor is bound a visit has an owner from the start.
LEMMA OwnedStay ==
    ASSUME Typed, [Next]_vars, visitor.bound, NoneUnowned PROVE NoneUnowned'
<1> SUFFICES ASSUME NEW e \in Events, event'[e].visitor, event'[e].owner = "nobody" PROVE FALSE
  BY DEF NoneUnowned
<1>0. event \in [Events -> Event] BY DEF Typed, Rows
<1>1. CASE Exists(e) BY <1>1, OwnerStays DEF NoneUnowned
<1>2. CASE ~Exists(e)
  <2>1. ~event[e].visitor BY <1>2 DEF Typed, Rows, Recorded, NoEvent
  <2>2. event'[e] # event[e] BY <2>1
  <2>3. ASSUME NEW f \in Events, NEW fresh \in Event, Create(f, fresh), fresh.owner = "live"
        PROVE  FALSE
    BY <1>0, <2>2, <2>3 DEF Create
  <2>4. ASSUME NEW p \in Procs, NEW f \in Events, RestoreEvent(p, f) PROVE FALSE
    BY <1>0, <2>1, <2>4 DEF RestoreEvent, Event
  <2>5. ASSUME NEW p \in Procs, SkipPending(p) \/ SkipReplayed(p) \/ Finish(p) PROVE FALSE
    BY <2>2, <2>5 DEF SkipPending, SkipReplayed, Finish
  <2> QED BY <2>2, <2>3, <2>4, <2>5, WritersOfWork
<1> QED BY <1>1, <1>2

LEMMA ComesToClose ==
    ASSUME Typed, NEW p \in Procs, Acts(p), proc'[p].pc = "close", contact = "active"
    PROVE  NoneUnowned /\ proc[p].pc = "work"
<1>0. proc \in [Procs -> ProcState] /\ proc[p] \in ProcState BY DEF Typed, Invocations
<1>1. CASE LookForWork(p)
  <2>1. Unowned = {} BY <1>0, <1>1 DEF LookForWork, Goto, HistoryWork
  <2> QED BY <1>1, <2>1 DEF LookForWork, Unowned, NoneUnowned
<1>2. ASSUME Processor(p) PROVE FALSE
  <2>1. ASSUME Load(p) \/ List(p) PROVE FALSE
    <3>1. ASSUME Load(p) PROVE FALSE
      <4>1. proc'[p] = Idle \/ proc'[p].pc = "skip" \/ proc'[p].pc = "list"
        BY <1>0, <3>1 DEF Load, Return, ProcState
      <4> QED BY <4>1 DEF Idle
    <3>2. ASSUME List(p) PROVE FALSE BY <1>0, <3>2 DEF List
    <3> QED BY <2>1, <3>1, <3>2
  <2>2. ASSUME SkipPending(p) PROVE FALSE BY <1>0, <2>2 DEF SkipPending, Goto
  <2>3. ASSUME SkipReplayed(p) \/ Finish(p) PROVE FALSE
    BY <2>3, WhereAdvanceGoes DEF SkipReplayed, Finish
  <2>4. ASSUME CheckContact(p) PROVE FALSE BY <1>0, <2>4 DEF CheckContact, Goto, Checked
  <2>5. ASSUME Project(p) PROVE FALSE
    <3>1. ASSUME ProjectScoring(p) \/ ProjectCampaign(p) \/ ProjectEnrollment(p) PROVE FALSE
      <4>1. Goto(p, "finish") BY <3>1 DEF ProjectScoring, ProjectCampaign, ProjectEnrollment
      <4> QED BY <1>0, <4>1 DEF Goto
    <3>2. ASSUME ProjectGrade(p) PROVE FALSE BY <1>0, <3>2 DEF ProjectGrade
    <3>3. ASSUME SwapGrade(p) PROVE FALSE BY <1>0, <3>3 DEF SwapGrade
    <3> QED BY <2>5, <3>1, <3>2, <3>3 DEF Project
  <2>6. ASSUME MarkProcessed(p) PROVE FALSE BY <1>0, <2>6 DEF MarkProcessed, Return, Idle
  <2> QED BY <1>2, <2>1, <2>2, <2>3, <2>4, <2>5, <2>6 DEF Processor
<1>3. ASSUME \/ Fail(p) \/ Crash(p) \/ ReleaseHistory(p) \/ FailHistory(p)
             \/ DecayDate(p) \/ DecayLoses(p) \/ \E d \in Events : Decay(p, d)
      PROVE  FALSE
  <2>1. proc'[p] = Idle
    BY <1>0, <1>3 DEF Fail, Crash, ReleaseHistory, FailHistory, DecayDate, DecayLoses, Decay,
                      Return
  <2> QED BY <2>1 DEF Idle
<1>4. ASSUME ClaimHistory(p) \/ FindContact(p) PROVE FALSE
  <2>1. ASSUME ClaimHistory(p) PROVE FALSE BY <1>0, <2>1 DEF ClaimHistory, Goto
  <2>2. ASSUME FindContact(p) PROVE FALSE BY <1>0, <2>2 DEF FindContact, Goto, Active
  <2> QED BY <1>4, <2>1, <2>2
<1>5. ASSUME ListHistory(p) PROVE FALSE BY <1>0, <1>5 DEF ListHistory
<1>6. ASSUME NEW e \in Events, Claim(p, e) \/ RestoreEvent(p, e) PROVE FALSE
  <2>1. ASSUME Claim(p, e) PROVE FALSE BY <1>0, <2>1 DEF Claim, Idle
  <2>2. ASSUME RestoreEvent(p, e) PROVE FALSE BY <1>0, <2>2 DEF RestoreEvent
  <2> QED BY <1>6, <2>1, <2>2
<1>7. ASSUME NEW e \in Events, NEW r \in Rules, NEW now \in 0 .. MaxDay, ListDue(p, e, r, now)
      PROVE  FALSE
  BY <1>0, <1>7 DEF ListDue, Idle
<1> QED BY <1>1, <1>2, <1>3, <1>4, <1>5, <1>6, <1>7 DEF Acts, History, DecayWorker

LEMMA NextClosed == Typed /\ Attribution /\ Closed /\ [Next]_vars => Closed'
<1> SUFFICES ASSUME Typed, Attribution, Closed, [Next]_vars, contact' = "active"
             PROVE  /\ visitor'.history = "done" => NoneUnowned'
                    /\ \A p \in Procs : proc'[p].pc = "close" => NoneUnowned'
  BY DEF Closed
<1>0. contact = "active" BY EffectsGrow
<1>1. ASSUME visitor'.history = "done" PROVE NoneUnowned'
  <2>1. CASE visitor.history = "done"
    BY <1>0, <2>1, OwnedStay DEF Closed, Attribution, Owned
  <2>2. CASE visitor.history # "done"
    <3>1. PICK p \in Procs : proc[p].pc = "close" BY <1>1, <2>2, ClosedBy
    <3> QED BY <1>0, <3>1, OwnedStay DEF Closed, Attribution, Attributed, HistoryPCs
  <2> QED BY <2>1, <2>2
<1>2. ASSUME NEW p \in Procs, proc'[p].pc = "close" PROVE NoneUnowned'
  <2>1. visitor.bound /\ NoneUnowned => NoneUnowned' BY OwnedStay
  <2>2. ASSUME proc'[p] = proc[p] PROVE NoneUnowned'
    BY <1>0, <1>2, <2>1, <2>2 DEF Closed, Attribution, Attributed, HistoryPCs
  <2>3. ASSUME Acts(p) PROVE NoneUnowned'
    <3>1. NoneUnowned /\ proc[p].pc = "work" BY <1>0, <1>2, <2>3, ComesToClose
    <3>2. visitor.bound BY <3>1 DEF Attribution, Attributed, HistoryPCs
    <3> QED BY <2>1, <3>1, <3>2
  <2> QED BY <2>2, <2>3, OthersWait, NobodySteps, Steps DEF vars
<1> QED BY <1>1, <1>2

LEMMA InitClosed == Init => Closed
BY DEF Init, Idle, Unbound, NoEvent, Closed, NoneUnowned

\* The visits of an anonymous visitor are attributed to the contact, all of them before
\* the history is closed, and none of them starts an automation that late.
THEOREM HistoryRestored == Spec => []HistoryIsRestored
<1>1. Spec => []Closed BY AlwaysTyped, AlwaysAttributed, InitClosed, NextClosed, PTL DEF Spec
<1>2. Attribution /\ Closed => HistoryIsRestored
  BY DEF Attribution, Owned, Closed, NoneUnowned, HistoryIsRestored, Unowned
<1> QED BY <1>1, <1>2, AlwaysAttributed, PTL

-----------------------------------------------------------------------------
(* The ledger of the score.                                                 *)

LEMMA ScoringIs ==
    ASSUME Typed, NEW p \in Procs, ProjectScoring(p)
    PROVE  /\ proc[p].event \in Events /\ Exists(proc[p].event) /\ occurred[proc[p].event] # None
           /\ day \in 0 .. MaxDay /\ UNCHANGED <<contact, day, occurred, adjusted, grade, event>>
           /\ \/ UNCHANGED ledger
              \/ /\ ApplyEffects(proc[p].event, day, NewEffects(proc[p].event))
                 /\ NewEffects(proc[p].event) \in SUBSET Rules
                 /\ \A r \in NewEffects(proc[p].event) : <<proc[p].event, r>> \notin scored
                 /\ contact = "archived" => NewEffects(proc[p].event) = {}
<1>1. proc[p].pc = "run" BY DEF ProjectScoring, Running
<1>2. proc[p].event \in Events /\ Exists(proc[p].event) BY <1>1, AtProjection
<1>3. occurred[proc[p].event] # None /\ day \in 0 .. MaxDay
  BY <1>2 DEF Typed, Rows, Recorded, LedgerTypeOK
<1>4. UNCHANGED <<contact, day, occurred, adjusted, grade, event>>
  BY DEF ProjectScoring, people, work
<1>5. UNCHANGED ledger \/ ApplyEffects(proc[p].event, day, NewEffects(proc[p].event))
  BY DEF ProjectScoring, ApplyScore
<1>6. /\ NewEffects(proc[p].event) \in SUBSET Rules
      /\ \A r \in NewEffects(proc[p].event) : <<proc[p].event, r>> \notin scored
      /\ contact = "archived" => NewEffects(proc[p].event) = {}
  BY DEF NewEffects, Active
<1> QED BY <1>2, <1>3, <1>4, <1>5, <1>6

LEMMA ArchivedStep ==
    ASSUME Typed, [Next]_vars, contact = "archived"
    PROVE  UNCHANGED <<logged, scored, contribution, category, grade, enrolled>>
<1>1. ~Active BY DEF Active
<1>2. ASSUME NEW p \in Procs, ProjectScoring(p)
      PROVE  UNCHANGED <<logged, scored, contribution, category>>
  <2> DEFINE e == proc[p].event
  <2>1. CASE UNCHANGED ledger BY <2>1 DEF ledger
  <2>2. CASE ApplyEffects(e, day, {})
    <3>1. SumFunction([r \in {} |-> Available(e, r, day)]) = 0 BY SumIsTotal, TotalEmpty
    <3>2. logged' = logged + 0 /\ category' = category + 0 /\ scored' = scored
          /\ contribution' = [k \in Events \X Rules |-> contribution[k]]
      BY <2>2, <3>1 DEF ApplyEffects
    <3> QED BY <3>2 DEF Typed, Rows, LedgerTypeOK
  <2> QED BY <1>2, <2>1, <2>2, ScoringIs
<1>3. ASSUME NEW p \in Procs, DecayDate(p)
      PROVE  UNCHANGED <<logged, scored, contribution, category>>
  BY <1>1, <1>3 DEF DecayDate, DecayDateOnly, SameRow
<1>4. ASSUME NEW p \in Procs, NEW d \in Events, Decay(p, d) PROVE FALSE
  BY <1>1, <1>4 DEF Decay, SameRow
<1>5. ASSUME NEW a \in Adjustments, Adjust(a) PROVE FALSE BY <1>1, <1>5 DEF Adjust, AdjustScore
<1>6. ASSUME Reconcile PROVE UNCHANGED <<logged, scored, contribution, category>>
  BY <1>6 DEF Reconcile, ReconcileContactScores
<1>7. ASSUME NEW p \in Procs, SwapGrade(p) PROVE grade' = grade
  BY <1>1, <1>7 DEF SwapGrade, SetGradePoints
<1>8. ASSUME NEW p \in Procs, ProjectEnrollment(p) PROVE enrolled' = enrolled
  BY <1>1, <1>8 DEF ProjectEnrollment
<1>9. UNCHANGED <<logged, scored, contribution, category>>
  BY <1>2, <1>3, <1>4, <1>5, <1>6, WritersOfLedger
<1>10. grade' = grade /\ enrolled' = enrolled BY <1>7, <1>8, WritersOfLedger, EnrolledByAction
<1> QED BY <1>9, <1>10

\* An archived contact is left alone by every processor, decay and adjustment, whatever it
\* read of him before he was archived.
THEOREM ArchivedUntouched == Spec => ArchivedLeftAlone
<1>1. Typed /\ [Next]_vars =>
          [contact = "archived" =>
               UNCHANGED <<logged, scored, contribution, category, grade, enrolled>>]_vars
  BY ArchivedStep
<1> QED BY <1>1, AlwaysTyped, PTL DEF Spec, ArchivedLeftAlone

Keys == Events \X Rules
Held == [k \in Keys |-> contribution[k].remaining]
Taken == [k \in Keys |-> Smaller(Points[k[2]], 0)]
Made == [d \in [of : Adjustments, delta : Int] |-> IF d.of.scope = "total" THEN d.delta ELSE 0]

\* What was not scored has contributed nothing.
Unscored == \A k \in Keys : k \notin scored => contribution[k] = NoContribution

\* The score, the log of it, and what accounts for it.
Accounted ==
    /\ IsFiniteSet(adjusted)
    /\ score = logged
    /\ score = Total(Held, Keys) + Total(Taken, scored) + Total(Made, adjusted)

LEMMA LedgerSums ==
    ASSUME LedgerTypeOK, IsFiniteSet(adjusted)
    PROVE  /\ Summable(Held, Keys) /\ Summable(Taken, scored) /\ Summable(Made, adjusted)
           /\ Total(Held, Keys) \in Int /\ Total(Taken, scored) \in Int
           /\ Total(Made, adjusted) \in Int
<1>1. IsFiniteSet(Keys) /\ scored \subseteq Keys BY LedgerIs DEF LedgerTypeOK, Keys
<1>2. \A k \in Keys : Held[k] \in Int BY DEF LedgerTypeOK, Held, Keys
<1>3. \A k \in Keys : Taken[k] \in Int
  <2>1. \A k \in Keys : Points[k[2]] \in Int BY LedgerIs DEF Keys
  <2> QED BY <2>1 DEF Taken, Smaller
<1>4. \A d \in adjusted : Made[d] \in Int BY DEF Made, LedgerTypeOK
<1>5. IsFiniteSet(scored) BY <1>1, FS_Subset
<1>6. Summable(Held, Keys) /\ Summable(Taken, scored) /\ Summable(Made, adjusted)
  BY <1>1, <1>2, <1>3, <1>4, <1>5 DEF Summable
<1> QED BY <1>6, TotalAny

LEMMA AccountedBacks == LedgerTypeOK /\ Accounted => ScoreIsBacked
<1> SUFFICES ASSUME LedgerTypeOK, Accounted PROVE ScoreIsBacked
  OBVIOUS
<1> DEFINE held == [k \in Events \X Rules |-> contribution[k].remaining]
           taken == [k \in scored |-> Smaller(Points[k[2]], 0)]
           made == [d \in adjusted |-> IF d.of.scope = "total" THEN d.delta ELSE 0]
<1>1. Summable(Held, Keys) /\ Summable(Taken, scored) /\ Summable(Made, adjusted)
  BY LedgerSums DEF Accounted
<1>2. scored \subseteq Keys /\ adjusted \subseteq [of : Adjustments, delta : Int]
  BY DEF LedgerTypeOK, Keys
<1>3. DOMAIN held = Keys /\ DOMAIN taken = scored /\ DOMAIN made = adjusted BY DEF Keys
<1>4. /\ \A k \in Keys : held[k] = Held[k]
      /\ \A k \in scored : taken[k] = Taken[k]
      /\ \A d \in adjusted : made[d] = Made[d]
  BY <1>2 DEF Held, Taken, Made, Keys
<1>5. ScoreIsBacked <=> score = SumFunction(held) + SumFunction(taken) + SumFunction(made)
  BY DEF ScoreIsBacked
<1> HIDE DEF held, taken, made
<1>6. /\ Total(held, Keys) = Total(Held, Keys) /\ Total(taken, scored) = Total(Taken, scored)
      /\ Total(made, adjusted) = Total(Made, adjusted)
  BY <1>1, <1>4, TotalSame
<1>7. /\ SumFunction(held) = Total(held, Keys) /\ SumFunction(taken) = Total(taken, scored)
      /\ SumFunction(made) = Total(made, adjusted)
  BY <1>3, SumIsTotal
<1> QED BY <1>5, <1>6, <1>7 DEF Accounted

\* A batch of effects adds to the score what it adds to the contributions and penalties.
LEMMA AppliesAccounted ==
    ASSUME LedgerTypeOK, LedgerTypeOK', Unscored, Accounted, NEW e \in Events, occurred[e] # None,
           NEW now \in 0 .. MaxDay, NEW new \in SUBSET Rules, ApplyEffects(e, now, new),
           \A r \in new : <<e, r>> \notin scored, UNCHANGED adjusted
    PROVE  Accounted'
<1> DEFINE gain == [r \in new |-> Available(e, r, now)]
           add == [r \in new |-> Held'[<<e, r>>] - Held[<<e, r>>]]
           take == [r \in new |-> Taken[<<e, r>>]]
<1>1. now \in Int BY LedgerIs
<1>2. IsFiniteSet(new) /\ IsFiniteSet(adjusted) BY LedgerIs, FS_Subset DEF Accounted
<1>3. \A r \in new : <<e, r>> \in Keys /\ <<e, r>> \notin scored BY DEF Keys
<1>4. contribution' = [k \in Keys |->
              IF k[1] = e /\ k[2] \in new /\ Points[k[2]] > 0
              THEN [initial |-> Initial(k[2]), remaining |-> Available(e, k[2], now),
                    next |-> IF Available(e, k[2], now) > 0 THEN NextDecay(e, k[2], now)
                             ELSE None]
              ELSE contribution[k]]
      /\ scored' = scored \cup ({e} \X new)
      /\ score' = score + SumFunction(gain) /\ logged' = logged + SumFunction(gain)
  BY DEF ApplyEffects, Keys
<1>5. ASSUME NEW r \in new
      PROVE  /\ gain[r] \in Int /\ add[r] \in Int /\ take[r] \in Int
             /\ gain[r] = add[r] + take[r]
  <2>1. Held[<<e, r>>] = 0 BY <1>3 DEF Unscored, Held, NoContribution
  <2>2. Held'[<<e, r>>] = contribution'[<<e, r>>].remaining BY <1>3 DEF Held
  <2>3. Taken[<<e, r>>] = Smaller(Points[r], 0) BY <1>3 DEF Taken
  <2>4. Points[r] \in Int /\ Available(e, r, now) \in Int BY <1>1, LedgerIs, AvailableIs
  <2>5. CASE Points[r] > 0
    <3>1. contribution'[<<e, r>>].remaining = Available(e, r, now) BY <1>3, <1>4, <2>5
    <3>2. Taken[<<e, r>>] = 0 BY <2>3, <2>4, <2>5 DEF Smaller
    <3> QED BY <2>1, <2>2, <2>4, <3>1, <3>2
  <2>6. CASE ~(Points[r] > 0)
    <3>1. contribution'[<<e, r>>] = contribution[<<e, r>>] BY <1>3, <1>4, <2>6
    <3>2. Held'[<<e, r>>] = 0 BY <1>3, <2>2, <3>1 DEF Unscored, NoContribution
    <3>3. Taken[<<e, r>>] = Points[r] BY <2>3, <2>4, <2>6 DEF Smaller
    <3>4. Available(e, r, now) = Points[r] BY <2>4, <2>6 DEF Available
    <3> QED BY <2>1, <2>4, <3>2, <3>3, <3>4
  <2> QED BY <2>5, <2>6
<1>6. Summable(add, new) /\ Summable(take, new) /\ Summable(gain, new)
  BY <1>2, <1>5 DEF Summable
<1>7. DOMAIN gain = new OBVIOUS
<1>8. \A r \in new : add[r] = Held'[<<e, r>>] - Held[<<e, r>>] /\ take[r] = Taken[<<e, r>>]
  OBVIOUS
<1>9. \A k \in Keys : k \notin {e} \X new => Held'[k] = Held[k]
  <2>1. ASSUME NEW k \in Keys, k \notin {e} \X new PROVE contribution'[k] = contribution[k]
    <3>1. k = <<k[1], k[2]>> BY DEF Keys
    <3>2. ~(k[1] = e /\ k[2] \in new) BY <2>1, <3>1
    <3> QED BY <1>4, <3>2
  <2> QED BY <2>1 DEF Held
<1> HIDE DEF gain, add, take
<1>10. SumFunction(gain) = Total(add, new) + Total(take, new)
  BY <1>5, <1>6, <1>7, SumIsTotal, TotalBoth
<1>11. /\ Summable(Held, Keys) /\ Summable(Taken, scored)
       /\ Total(Held, Keys) \in Int /\ Total(Taken, scored) \in Int
       /\ Total(Made, adjusted) \in Int
  BY <1>2, LedgerSums
<1>12. Summable(Held', Keys)
  <2>1. \A k \in Keys : Held'[k] \in Int BY DEF Held, LedgerTypeOK, Keys
  <2> QED BY <1>11, <2>1 DEF Summable
<1>13. Total(Held', Keys) = Total(Held, Keys) + Total(add, new)
  <2> DEFINE f == Held
             g == Held'
  <2>1. Summable(f, Keys) /\ Summable(g, Keys) BY <1>11, <1>12
  <2>2. \A r \in new : <<e, r>> \in Keys /\ add[r] = g[<<e, r>>] - f[<<e, r>>] BY <1>3, <1>8
  <2>3. \A k \in Keys : k \notin {e} \X new => g[k] = f[k] BY <1>9
  <2> HIDE DEF f, g
  <2>5. RowChanges(f, g, Keys, e, new, add) BY <2>2, <2>3 DEF RowChanges
  <2>4. Total(g, Keys) = Total(f, Keys) + Total(add, new)
    BY <1>2, <2>1, <2>5, TotalRowChanges
  <2> QED BY <2>4 DEF f, g
<1>14. Total(Taken, scored') = Total(Taken, scored) + Total(take, new)
  <2>1. RowAdds(Taken, scored, e, new, take) BY <1>3, <1>5, <1>8 DEF RowAdds
  <2>2. Total(Taken, scored \cup ({e} \X new)) = Total(Taken, scored) + Total(take, new)
    BY <1>2, <1>11, <2>1, TotalRowAdds
  <2> QED BY <1>4, <2>2
<1>15. Total(add, new) \in Int /\ Total(take, new) \in Int BY <1>6, TotalAny
<1>16. score' = Total(Held', Keys) + Total(Taken, scored') + Total(Made, adjusted')
  BY <1>4, <1>10, <1>11, <1>13, <1>14, <1>15 DEF Accounted
<1>17. score' = logged' /\ IsFiniteSet(adjusted') BY <1>2, <1>4 DEF Accounted
<1> QED BY <1>16, <1>17 DEF Accounted, Keys, Taken, Made

\* A decay that wins moves its row, the score and the log by the same points.
LEMMA DecaysTo ==
    ASSUME Typed, NEW p \in Procs, NEW d \in Events, Decay(p, d)
    PROVE  LET e == proc[p].event
               r == proc[p].read.rule
               now == proc[p].read.now
               left == Remaining(e, r, proc[p].read.initial, now)
               row == contribution[<<e, r>>]
           IN /\ e \in Events /\ Exists(e) /\ r \in Rules /\ now \in 0 .. MaxDay
              /\ proc[p].read.initial \in Nat
              /\ row.next # None /\ left \in Nat /\ row.remaining \in Nat /\ left < row.remaining
              /\ contribution' = [contribution EXCEPT ![<<e, r>>] =
                     [row EXCEPT !.remaining = left,
                                 !.next = IF left > 0 THEN NextDecay(e, r, now) ELSE None]]
              /\ score' = score + left - row.remaining /\ logged' = logged + left - row.remaining
              /\ UNCHANGED <<scored, adjusted>>
              /\ \A f \in Events : Exists(f) => occurred'[f] = occurred[f]
<1> DEFINE e == proc[p].event
           read == proc[p].read
           r == read.rule
           now == read.now
           k == DecayedKey(p)
           left == Remaining(e, r, read.initial, now)
           delta == DecayDelta(k, read, now)
           next == DecayedNext(k, read, now)
           row == contribution[k]
<1>1. /\ e \in Events /\ Exists(e) /\ r \in Rules /\ now \in 0 .. MaxDay /\ read \in DecayRead
      /\ k = <<e, r>> /\ k \in Keys /\ left \in Nat /\ delta = left - read.remaining
      /\ next = (IF left > 0 THEN NextDecay(e, r, now) ELSE None)
  BY AtDecay DEF Decay, Keys
<1>2. /\ delta < 0 /\ row.remaining = read.remaining /\ row.next = read.next
      /\ score' = score + delta /\ logged' = logged + delta /\ UNCHANGED <<scored, adjusted>>
      /\ contribution' = [contribution EXCEPT ![k].remaining = read.remaining + delta,
                                              ![k].next = next]
  BY DEF Decay, SameRow, DecayBatch
<1>3. \A f \in Events : Exists(f) => occurred'[f] = occurred[f]
  BY DEF Decay, Create, Exists, Typed, Rows, LedgerTypeOK
<1>4. row.next # None
  <2>1. read.next \in 0 .. MaxDay BY <1>1 DEF DecayRead
  <2> QED BY <1>2, <2>1, NoneIsNew
<1>5. read.remaining \in Nat /\ read.initial \in Nat BY <1>1 DEF DecayRead
<1>6. /\ score \in Int /\ logged \in Int
      /\ contribution \in [Keys ->
             [initial : Nat, remaining : Nat, next : (0 .. MaxDay + 1) \cup {None}]]
  BY DEF Typed, Rows, LedgerTypeOK, Keys
<1> HIDE DEF e, read, r, now, k, left, delta, next, row
<1>7. read.remaining + delta = left /\ left < read.remaining BY <1>1, <1>2, <1>5
<1>8. contribution' = [contribution EXCEPT ![k] = [row EXCEPT !.remaining = left, !.next = next]]
  <2>1. contribution' = [contribution EXCEPT ![k].remaining = left, ![k].next = next]
    BY <1>2, <1>7
  <2> QED BY <1>1, <1>6, <2>1 DEF row
<1>9. score' = score + left - row.remaining /\ logged' = logged + left - row.remaining
  BY <1>1, <1>2, <1>5, <1>6
<1> QED
  BY <1>1, <1>2, <1>3, <1>4, <1>5, <1>7, <1>8, <1>9 DEF e, read, r, now, k, left, next, row

\* A decay that finds the same remainder moves the date only.
LEMMA DatesTo ==
    ASSUME Typed, NEW p \in Procs, DecayDate(p)
    PROVE  LET e == proc[p].event
               r == proc[p].read.rule
               now == proc[p].read.now
               left == Remaining(e, r, proc[p].read.initial, now)
               row == contribution[<<e, r>>]
           IN /\ e \in Events /\ Exists(e) /\ r \in Rules /\ now \in 0 .. MaxDay
              /\ proc[p].read.initial \in Nat /\ left \in Nat
              /\ \/ contribution' = contribution
                 \/ /\ row.next # None /\ row.next <= now /\ left >= row.remaining
                    /\ contribution' = [contribution EXCEPT ![<<e, r>>] =
                           [row EXCEPT !.next = IF left > 0 THEN NextDecay(e, r, now) ELSE None]]
              /\ UNCHANGED <<score, logged, scored, adjusted, occurred>>
<1> DEFINE e == proc[p].event
           read == proc[p].read
           r == read.rule
           now == read.now
           k == DecayedKey(p)
           left == Remaining(e, r, read.initial, now)
           delta == DecayDelta(k, read, now)
           next == DecayedNext(k, read, now)
           row == contribution[k]
<1>1. /\ e \in Events /\ Exists(e) /\ r \in Rules /\ now \in 0 .. MaxDay /\ read \in DecayRead
      /\ k = <<e, r>> /\ k \in Keys /\ left \in Nat /\ delta = left - read.remaining
      /\ next = (IF left > 0 THEN NextDecay(e, r, now) ELSE None) /\ read.next <= now
  BY AtDecay DEF DecayDate, Keys
<1>2. /\ delta >= 0 /\ UNCHANGED <<score, logged, scored, adjusted, occurred>>
      /\ \/ contribution' = contribution
         \/ /\ row.remaining = read.remaining /\ row.next = read.next
            /\ contribution' = [contribution EXCEPT ![k].next = next]
  BY DEF DecayDate, SameRow, DecayDateOnly, people
<1>3. read.next # None
  <2>1. read.next \in 0 .. MaxDay BY <1>1 DEF DecayRead
  <2> QED BY <2>1, NoneIsNew
<1>4. read.remaining \in Nat /\ read.initial \in Nat BY <1>1 DEF DecayRead
<1>5. contribution \in [Keys ->
             [initial : Nat, remaining : Nat, next : (0 .. MaxDay + 1) \cup {None}]]
  BY DEF Typed, Rows, LedgerTypeOK, Keys
<1> HIDE DEF e, read, r, now, k, left, delta, next, row
<1>6. left >= read.remaining BY <1>1, <1>2, <1>4
<1>7. \/ contribution' = contribution
      \/ /\ row.next # None /\ row.next <= now /\ left >= row.remaining
         /\ contribution' = [contribution EXCEPT ![k] = [row EXCEPT !.next = next]]
  BY <1>1, <1>2, <1>3, <1>5, <1>6 DEF row
<1> QED BY <1>1, <1>2, <1>4, <1>7 DEF e, read, r, now, k, left, next, row

LEMMA DecaysAccounted ==
    ASSUME Typed, Accounted, NEW p \in Procs, NEW d \in Events, Decay(p, d) PROVE Accounted'
<1> DEFINE k == <<proc[p].event, proc[p].read.rule>>
           left == Remaining(proc[p].event, proc[p].read.rule, proc[p].read.initial,
                             proc[p].read.now)
           next == IF left > 0 THEN NextDecay(proc[p].event, proc[p].read.rule, proc[p].read.now)
                   ELSE None
<1>1. /\ k \in Keys /\ contribution[k].next # None /\ left \in Nat
      /\ contribution[k].remaining \in Nat
      /\ contribution' = [contribution EXCEPT ![k] =
             [contribution[k] EXCEPT !.remaining = left, !.next = next]]
      /\ score' = score + left - contribution[k].remaining
      /\ logged' = logged + left - contribution[k].remaining /\ UNCHANGED <<scored, adjusted>>
  BY DecaysTo DEF Keys
<1> HIDE DEF k, left, next
<1>2. contribution \in [Keys ->
             [initial : Nat, remaining : Nat, next : (0 .. MaxDay + 1) \cup {None}]]
      /\ LedgerTypeOK /\ score \in Int
  BY DEF Typed, Rows, LedgerTypeOK, Keys
<1>3. /\ Summable(Held, Keys) /\ Total(Held, Keys) \in Int /\ Total(Taken, scored) \in Int
      /\ Total(Made, adjusted) \in Int
  BY <1>2, LedgerSums DEF Accounted
<1>4. /\ Held[k] = contribution[k].remaining /\ Held'[k] = left
      /\ \A j \in Keys \ {k} : Held'[j] = Held[j]
  BY <1>1, <1>2 DEF Held
<1>5. Total(Held', Keys) = Total(Held, Keys) + left - contribution[k].remaining
  <2> DEFINE f == Held
             g == Held'
  <2>1. /\ Summable(f, Keys) /\ g[k] \in Int /\ k \in Keys
        /\ \A j \in Keys \ {k} : g[j] = f[j]
    BY <1>1, <1>3, <1>4
  <2> HIDE DEF f, g
  <2>2. Total(g, Keys) = Total(f, Keys) + g[k] - f[k] BY <2>1, TotalChanges
  <2> QED BY <1>4, <2>2 DEF f, g
<1>6. score' = Total(Held', Keys) + Total(Taken, scored) + Total(Made, adjusted)
  BY <1>1, <1>2, <1>3, <1>5 DEF Accounted
<1> QED BY <1>1, <1>6 DEF Accounted, Keys, Taken, Made

LEMMA DatesAccounted ==
    ASSUME Typed, Accounted, NEW p \in Procs, DecayDate(p) PROVE Accounted'
<1> DEFINE k == <<proc[p].event, proc[p].read.rule>>
<1>1. /\ k \in Keys /\ UNCHANGED <<score, logged, scored, adjusted>>
      /\ \/ contribution' = contribution
         \/ /\ contribution[k].next # None
            /\ \E next : contribution' = [contribution EXCEPT ![k] =
                             [contribution[k] EXCEPT !.next = next]]
  BY DatesTo DEF Keys
<1> HIDE DEF k
<1>2. contribution \in [Keys ->
             [initial : Nat, remaining : Nat, next : (0 .. MaxDay + 1) \cup {None}]]
  BY DEF Typed, Rows, LedgerTypeOK, Keys
<1>3. Held' = Held
  <2>1. \A j \in Keys : contribution'[j].remaining = contribution[j].remaining BY <1>1, <1>2
  <2> QED BY <2>1 DEF Held, Keys
<1> QED BY <1>1, <1>3 DEF Accounted, Keys, Taken, Made

LEMMA NextUnscored == Typed /\ Unscored /\ [Next]_vars => Unscored'
<1> SUFFICES ASSUME Typed, Unscored, [Next]_vars, NEW k \in Keys, k \notin scored'
             PROVE  contribution'[k] = NoContribution
  BY DEF Unscored, Keys
<1>0. /\ k \notin scored /\ contribution[k] = NoContribution /\ k = <<k[1], k[2]>>
      /\ contribution \in [Keys ->
             [initial : Nat, remaining : Nat, next : (0 .. MaxDay + 1) \cup {None}]]
  BY EffectsGrow DEF Unscored, Typed, Rows, LedgerTypeOK, Keys
<1>1. ASSUME NEW p \in Procs, ProjectScoring(p) PROVE contribution'[k] = contribution[k]
  <2>1. CASE UNCHANGED ledger BY <2>1 DEF ledger
  <2>2. CASE ApplyEffects(proc[p].event, day, NewEffects(proc[p].event))
    <3>1. ~(k[1] = proc[p].event /\ k[2] \in NewEffects(proc[p].event))
      BY <1>0, <2>2 DEF ApplyEffects
    <3> QED BY <2>2, <3>1 DEF ApplyEffects, Keys
  <2> QED BY <1>1, <2>1, <2>2, ScoringIs
<1>2. ASSUME NEW p \in Procs, NEW d \in Events, Decay(p, d)
      PROVE  contribution'[k] = contribution[k]
  <2> DEFINE j == <<proc[p].event, proc[p].read.rule>>
  <2>1. contribution[j].next # None
        /\ \E row : contribution' = [contribution EXCEPT ![j] = row]
    BY <1>2, DecaysTo
  <2>2. j # k BY <1>0, <2>1 DEF NoContribution
  <2> QED BY <1>0, <2>1, <2>2
<1>3. ASSUME NEW p \in Procs, DecayDate(p) PROVE contribution'[k] = contribution[k]
  <2> DEFINE j == <<proc[p].event, proc[p].read.rule>>
  <2>1. \/ contribution' = contribution
        \/ /\ contribution[j].next # None
           /\ \E row : contribution' = [contribution EXCEPT ![j] = row]
    BY <1>3, DatesTo
  <2>2. contribution[j].next # None => j # k BY <1>0 DEF NoContribution
  <2> QED BY <1>0, <2>1, <2>2
<1>4. ASSUME Reconcile \/ \E a \in Adjustments : Adjust(a) PROVE contribution' = contribution
  BY <1>4 DEF Reconcile, ReconcileContactScores, Adjust, AdjustScore
<1> QED BY <1>0, <1>1, <1>2, <1>3, <1>4, WritersOfLedger

LEMMA AlwaysUnscored == Spec => []Unscored
<1>1. Init => Unscored BY DEF Init, LedgerInit, Unscored, Keys
<1> QED BY <1>1, AlwaysTyped, NextUnscored, PTL DEF Spec

\* Every adjustment is one of the total; one of the category is logged as well, and
\* leaves the log and the score apart.
TotalsOnly == \A a \in Adjustments : a.scope = "total"

LEMMA AdjustsAccounted ==
    ASSUME Typed, Accounted, TotalsOnly, NEW a \in Adjustments, Adjust(a) PROVE Accounted'
<1> DEFINE delta == IF a.op = "set" THEN a.amount - score ELSE a.amount
           new == [of |-> a, delta |-> delta]
<1>1. a.scope = "total" BY DEF TotalsOnly
<1>2. /\ \A d \in adjusted : d.of # a
      /\ score' = score + delta /\ logged' = logged + delta
      /\ adjusted' = adjusted \cup {new} /\ UNCHANGED <<scored, contribution>>
  BY <1>1 DEF Adjust, AdjustScore
<1>3. score \in Int /\ logged \in Int /\ a.amount \in Int /\ LedgerTypeOK
  BY LedgerIs DEF Typed, Rows, LedgerTypeOK
<1>4. delta \in Int BY <1>3
<1> HIDE DEF delta
<1>5. new \in [of : Adjustments, delta : Int] /\ new.of = a /\ new.delta = delta BY <1>4
<1> HIDE DEF new
<1>6. new \notin adjusted BY <1>2, <1>5
<1>7. Made[new] = delta BY <1>1, <1>5 DEF Made
<1>8. /\ Summable(Made, adjusted) /\ Total(Held, Keys) \in Int /\ Total(Taken, scored) \in Int
      /\ Total(Made, adjusted) \in Int
  BY <1>3, LedgerSums DEF Accounted
<1>9. Total(Made, adjusted') = Total(Made, adjusted) + delta
  BY <1>2, <1>4, <1>6, <1>7, <1>8, TotalAdds
<1>10. IsFiniteSet(adjusted') BY <1>2, FS_AddElement DEF Accounted
<1>11. score' = Total(Held, Keys) + Total(Taken, scored) + Total(Made, adjusted')
  <2>1. score = Total(Held, Keys) + Total(Taken, scored) + Total(Made, adjusted)
    BY DEF Accounted
  <2> QED BY <1>2, <1>3, <1>4, <1>8, <1>9, <2>1
<1>12. score' = logged' BY <1>2 DEF Accounted
<1> QED BY <1>2, <1>10, <1>11, <1>12 DEF Accounted, Held, Keys, Taken, Made

LEMMA SameAccounted ==
    ASSUME Accounted, UNCHANGED <<score, logged, scored, contribution, adjusted>>
    PROVE  Accounted'
BY DEF Accounted, Held, Keys, Taken, Made

LEMMA NextAccounted ==
    TotalsOnly /\ Typed /\ Unscored /\ Accounted /\ [Next]_vars => Accounted'
<1> SUFFICES ASSUME TotalsOnly, Typed, Unscored, Accounted, [Next]_vars PROVE Accounted'
  OBVIOUS
<1>1. Typed' BY NextTyped
<1>2. ASSUME NEW p \in Procs, ProjectScoring(p) PROVE Accounted'
  <2>1. CASE UNCHANGED ledger BY <1>2, <2>1, ScoringIs, SameAccounted DEF ledger
  <2>2. CASE ApplyEffects(proc[p].event, day, NewEffects(proc[p].event))
            /\ NewEffects(proc[p].event) \in SUBSET Rules
            /\ \A r \in NewEffects(proc[p].event) : <<proc[p].event, r>> \notin scored
    <3> DEFINE e == proc[p].event
               new == NewEffects(e)
    <3>1. e \in Events /\ occurred[e] # None /\ day \in 0 .. MaxDay /\ UNCHANGED adjusted
      BY <1>2, ScoringIs
    <3>2. /\ ApplyEffects(e, day, new) /\ new \in SUBSET Rules
          /\ \A r \in new : <<e, r>> \notin scored
      BY <2>2
    <3> HIDE DEF e, new
    <3> QED BY <1>1, <3>1, <3>2, AppliesAccounted DEF Typed, Rows
  <2> QED BY <1>2, <2>1, <2>2, ScoringIs
<1>3. CASE UNCHANGED <<score, logged, scored, contribution, adjusted>> BY <1>3, SameAccounted
<1>4. ASSUME Reconcile PROVE UNCHANGED <<score, logged, scored, contribution, adjusted>>
  BY <1>4 DEF Reconcile, ReconcileContactScores, Accounted
<1> QED BY <1>2, <1>3, <1>4, DecaysAccounted, DatesAccounted, AdjustsAccounted, WritersOfLedger

LEMMA InitAccounted == Init => Unscored /\ Accounted
<1> SUFFICES ASSUME Init PROVE Unscored /\ Accounted
  OBVIOUS
<1> USE DEF Init, LedgerInit
<1>1. Typed BY InitTyped
<1>2. IsFiniteSet(adjusted) BY FS_EmptySet
<1>3. Total(Taken, scored) = 0 /\ Total(Made, adjusted) = 0 BY TotalEmpty
<1>4. Summable(Held, Keys) BY <1>1, <1>2, LedgerSums DEF Typed, Rows
<1>5. \A k \in Keys : Held[k] = 0 BY DEF Held, Keys, NoContribution
<1>6. Total(Held, Keys) = 0 BY <1>4, <1>5, TotalNone
<1> QED BY <1>2, <1>3, <1>6 DEF Unscored, Accounted, Keys

\* The score is backed: whatever attempts, decays, corrections and adjustments of the
\* total overlap, every point is held by a contribution, a penalty or an adjustment.
THEOREM ScoreBacked == ASSUME TotalsOnly PROVE Spec => []ScoreIsBacked
<1>1. Typed /\ Accounted => ScoreIsBacked BY AccountedBacks DEF Typed, Rows
<1>2. Typed /\ Unscored /\ Accounted /\ [Next]_vars => Accounted' BY NextAccounted
<1> QED BY <1>1, <1>2, AlwaysTyped, AlwaysUnscored, InitAccounted, PTL DEF Spec

\* ... and then the score is the sum of the logged deltas.
THEOREM ScoreLogged == ASSUME TotalsOnly PROVE Spec => []ScoreIsLogged
<1>1. Accounted => ScoreIsLogged BY DEF Accounted, ScoreIsLogged
<1>2. Typed /\ Unscored /\ Accounted /\ [Next]_vars => Accounted' BY NextAccounted
<1> QED BY <1>1, <1>2, AlwaysTyped, AlwaysUnscored, InitAccounted, PTL DEF Spec

-----------------------------------------------------------------------------
(* The schedule of the decay, and the cap.                                  *)

\* A decay keeps what it read of a contribution that never changes.
Reading(p) ==
    proc[p].pc = "decay" => /\ DecayedKey(p) \in scored
                            /\ proc[p].read.initial = contribution[DecayedKey(p)].initial
AllReading == \A p \in Procs : Reading(p)

LEMMA InitialStays ==
    ASSUME Typed, [Next]_vars, NEW k \in Keys, k \in scored
    PROVE  k \in scored' /\ contribution'[k].initial = contribution[k].initial
<1>0. /\ k = <<k[1], k[2]>>
      /\ contribution \in [Keys ->
             [initial : Nat, remaining : Nat, next : (0 .. MaxDay + 1) \cup {None}]]
  BY DEF Typed, Rows, LedgerTypeOK, Keys
<1>1. ASSUME NEW p \in Procs, ProjectScoring(p) PROVE contribution'[k] = contribution[k]
  <2>1. CASE UNCHANGED ledger BY <2>1 DEF ledger
  <2>2. CASE /\ ApplyEffects(proc[p].event, day, NewEffects(proc[p].event))
             /\ \A r \in NewEffects(proc[p].event) : <<proc[p].event, r>> \notin scored
    <3>1. ~(k[1] = proc[p].event /\ k[2] \in NewEffects(proc[p].event)) BY <1>0, <2>2
    <3> QED BY <2>2, <3>1 DEF ApplyEffects, Keys
  <2> QED BY <1>1, <2>1, <2>2, ScoringIs
<1>2. ASSUME NEW p \in Procs, NEW d \in Events, Decay(p, d)
      PROVE  contribution'[k].initial = contribution[k].initial
  <2> DEFINE j == <<proc[p].event, proc[p].read.rule>>
             left == Remaining(proc[p].event, proc[p].read.rule, proc[p].read.initial,
                               proc[p].read.now)
             next == IF left > 0
                     THEN NextDecay(proc[p].event, proc[p].read.rule, proc[p].read.now) ELSE None
  <2>1. j \in Keys /\ contribution' = [contribution EXCEPT ![j] =
                          [contribution[j] EXCEPT !.remaining = left, !.next = next]]
    BY <1>2, DecaysTo DEF Keys
  <2> HIDE DEF j, left, next
  <2> QED BY <1>0, <2>1
<1>3. ASSUME NEW p \in Procs, DecayDate(p)
      PROVE  contribution'[k].initial = contribution[k].initial
  <2> DEFINE j == <<proc[p].event, proc[p].read.rule>>
  <2>1. /\ j \in Keys
        /\ \/ contribution' = contribution
           \/ \E next : contribution' = [contribution EXCEPT ![j] =
                            [contribution[j] EXCEPT !.next = next]]
    BY <1>3, DatesTo DEF Keys
  <2> HIDE DEF j
  <2> QED BY <1>0, <2>1
<1>4. ASSUME Reconcile \/ \E a \in Adjustments : Adjust(a) PROVE contribution' = contribution
  BY <1>4 DEF Reconcile, ReconcileContactScores, Adjust, AdjustScore
<1> QED BY <1>1, <1>2, <1>3, <1>4, EffectsGrow, WritersOfLedger

LEMMA ComesToDecay ==
    ASSUME Typed, NEW p \in Procs, Acts(p), proc'[p].pc = "decay"
    PROVE  \E e \in Events, r \in Rules, now \in 0 .. MaxDay : ListDue(p, e, r, now)
<1>0. proc \in [Procs -> ProcState] /\ proc[p] \in ProcState BY DEF Typed, Invocations
<1>1. ASSUME Processor(p) PROVE FALSE
  <2>1. ASSUME Load(p) PROVE FALSE
    <3>1. proc'[p] = Idle \/ proc'[p].pc = "skip" \/ proc'[p].pc = "list"
      BY <1>0, <2>1 DEF Load, Return, ProcState
    <3> QED BY <3>1 DEF Idle
  <2>2. ASSUME List(p) PROVE FALSE BY <1>0, <2>2 DEF List
  <2>3. ASSUME SkipPending(p) PROVE FALSE BY <1>0, <2>3 DEF SkipPending, Goto
  <2>4. ASSUME SkipReplayed(p) \/ Finish(p) PROVE FALSE
    BY <2>4, WhereAdvanceGoes DEF SkipReplayed, Finish
  <2>5. ASSUME CheckContact(p) PROVE FALSE BY <1>0, <2>5 DEF CheckContact, Goto, Checked
  <2>6. ASSUME ProjectScoring(p) \/ ProjectCampaign(p) \/ ProjectEnrollment(p) PROVE FALSE
    <3>1. Goto(p, "finish") BY <2>6 DEF ProjectScoring, ProjectCampaign, ProjectEnrollment
    <3> QED BY <1>0, <3>1 DEF Goto
  <2>7. ASSUME ProjectGrade(p) PROVE FALSE BY <1>0, <2>7 DEF ProjectGrade
  <2>8. ASSUME SwapGrade(p) PROVE FALSE BY <1>0, <2>8 DEF SwapGrade
  <2>9. ASSUME MarkProcessed(p) PROVE FALSE BY <1>0, <2>9 DEF MarkProcessed, Return, Idle
  <2> QED BY <1>1, <2>1, <2>2, <2>3, <2>4, <2>5, <2>6, <2>7, <2>8, <2>9 DEF Processor, Project
<1>2. ASSUME \/ Fail(p) \/ Crash(p) \/ ReleaseHistory(p) \/ FailHistory(p)
             \/ DecayDate(p) \/ DecayLoses(p) \/ \E d \in Events : Decay(p, d)
      PROVE  FALSE
  <2>1. proc'[p] = Idle
    BY <1>0, <1>2 DEF Fail, Crash, ReleaseHistory, FailHistory, DecayDate, DecayLoses, Decay,
                      Return
  <2> QED BY <2>1 DEF Idle
<1>3. ASSUME ClaimHistory(p) \/ LookForWork(p) PROVE FALSE
  <2>1. ASSUME ClaimHistory(p) PROVE FALSE BY <1>0, <2>1 DEF ClaimHistory, Goto
  <2>2. ASSUME LookForWork(p) PROVE FALSE BY <1>0, <2>2 DEF LookForWork, Goto
  <2> QED BY <1>3, <2>1, <2>2
<1>4. ASSUME FindContact(p) PROVE FALSE BY <1>0, <1>4 DEF FindContact, Goto
<1>5. ASSUME ListHistory(p) PROVE FALSE BY <1>0, <1>5 DEF ListHistory
<1>6. ASSUME NEW e \in Events, Claim(p, e) \/ RestoreEvent(p, e) PROVE FALSE
  <2>1. ASSUME Claim(p, e) PROVE FALSE BY <1>0, <2>1 DEF Claim, Idle
  <2>2. ASSUME RestoreEvent(p, e) PROVE FALSE BY <1>0, <2>2 DEF RestoreEvent
  <2> QED BY <1>6, <2>1, <2>2
<1> QED BY <1>1, <1>2, <1>3, <1>4, <1>5, <1>6 DEF Acts, History, DecayWorker

LEMMA NextReading == Typed /\ Unscored /\ AllReading /\ [Next]_vars => AllReading'
<1> SUFFICES ASSUME Typed, Unscored, AllReading, [Next]_vars, NEW p \in Procs,
                    proc'[p].pc = "decay"
             PROVE  Reading(p)'
  BY DEF AllReading, Reading
<1>1. ASSUME proc'[p] = proc[p] PROVE Reading(p)'
  <2> DEFINE k == DecayedKey(p)
  <2>1. k' = k /\ proc[p].pc = "decay" BY <1>1 DEF DecayedKey
  <2>2. k \in Keys /\ k \in scored /\ proc[p].read.initial = contribution[k].initial
    BY <2>1, AtDecay DEF AllReading, Reading, Keys
  <2> HIDE DEF k
  <2>3. k \in scored' /\ contribution'[k].initial = contribution[k].initial
    BY <2>2, InitialStays
  <2> QED BY <1>1, <2>1, <2>2, <2>3 DEF Reading, k
<1>2. ASSUME Acts(p) PROVE Reading(p)'
  <2>1. PICK e \in Events, r \in Rules, now \in 0 .. MaxDay : ListDue(p, e, r, now)
    BY <1>2, ComesToDecay
  <2> DEFINE k == <<e, r>>
  <2>2. k \in Keys /\ contribution[k].next # None /\ UNCHANGED <<contribution, scored>>
    BY <2>1 DEF ListDue, Due, Keys, effects
  <2>3. k \in scored BY <2>2 DEF Unscored, NoContribution
  <2>4. /\ proc'[p].event = e /\ proc'[p].read.rule = r
        /\ proc'[p].read.initial = contribution[k].initial
    BY <2>1 DEF ListDue, Idle, Typed, Invocations
  <2> QED BY <2>2, <2>3, <2>4 DEF Reading, DecayedKey
<1> QED BY <1>1, <1>2, OthersWait, NobodySteps, Steps DEF vars

LEMMA AlwaysReading == Spec => []AllReading
<1>1. Init => AllReading BY DEF Init, Idle, AllReading, Reading
<1> QED BY <1>1, AlwaysTyped, AlwaysUnscored, NextReading, PTL DEF Spec

\* A row whose remainder is today's share, with the date of the next decay.
Shared(e, r, c, now) ==
    /\ c.initial \in Nat /\ c.remaining = Remaining(e, r, c.initial, now)
    /\ c.next = IF c.remaining > 0 THEN NextDecay(e, r, now) ELSE None

Scheduled(e, r, c) ==
    IF c.next = None
    THEN c.remaining = (IF DecayDays[r] = None THEN c.initial ELSE 0)
    ELSE c.remaining = Remaining(e, r, c.initial, c.next - 1)

LEMMA SharedIsScheduled ==
    ASSUME LedgerTypeOK, NEW e \in Events, occurred[e] # None, NEW r \in Rules,
           NEW now \in 0 .. MaxDay, NEW c, Shared(e, r, c, now)
    PROVE  Scheduled(e, r, c)
<1>1. now \in Int /\ MaxDay \in Nat BY LedgerIs
<1>2. c.initial \in Nat /\ c.remaining \in Nat BY <1>1, RemainingIs DEF Shared
<1>3. CASE c.next = None
  <2>1. CASE c.remaining > 0
    <3>1. DecayDays[r] = None \/ Elapsed(e, now) >= DecayDays[r]
      BY <1>3, <2>1, NextDecayIs DEF Shared
    <3>2. c.remaining = Remaining(e, r, c.initial, now) BY DEF Shared
    <3>3. CASE DecayDays[r] = None
      <4>1. Remaining(e, r, c.initial, now) = c.initial BY <1>1, <1>2, <3>3, RemainingIs
      <4> QED BY <1>3, <3>2, <3>3, <4>1 DEF Scheduled
    <3>4. CASE DecayDays[r] # None
      <4>1. Remaining(e, r, c.initial, now) = 0 BY <1>1, <1>2, <3>1, <3>4, RemainingIs
      <4> QED BY <2>1, <3>2, <4>1
    <3> QED BY <3>3, <3>4
  <2>2. CASE ~(c.remaining > 0)
    <3>1. c.remaining = 0 BY <1>2, <2>2
    <3>2. DecayDays[r] = None => c.remaining = c.initial BY <1>1, <1>2, RemainingIs DEF Shared
    <3> QED BY <1>3, <3>1, <3>2 DEF Scheduled
  <2> QED BY <2>1, <2>2
<1>4. CASE c.next # None
  <2>1. c.next = NextDecay(e, r, now) BY <1>4 DEF Shared
  <2>2. Remaining(e, r, c.initial, NextDecay(e, r, now) - 1) = Remaining(e, r, c.initial, now)
    BY <1>2, <1>4, <2>1, NextDecayIs
  <2> QED BY <1>4, <2>1, <2>2 DEF Shared, Scheduled
<1> QED BY <1>3, <1>4

LEMMA ScheduledIs ==
    \A e \in Events, r \in Rules : OnSchedule(e, r) <=> Scheduled(e, r, contribution[<<e, r>>])
BY DEF OnSchedule, Scheduled

\* The share depends on the day the event occurred only.
LEMMA ScheduleStays ==
    ASSUME Typed, [Next]_vars, NEW e \in Events, NEW r \in Rules, NEW c,
           Scheduled(e, r, c), c.next = None \/ Exists(e)
    PROVE  Scheduled(e, r, c)'
<1>1. ASSUME Exists(e) PROVE occurred'[e] = occurred[e]
  BY <1>1, WritersOfLedger DEF Create, Exists, Typed, Rows, LedgerTypeOK
<1>2. CASE c.next = None BY <1>2 DEF Scheduled
<1>3. CASE Exists(e) BY <1>1, <1>3 DEF Scheduled, Remaining, Elapsed
<1> QED BY <1>2, <1>3

Schedule == \A e \in Events, r \in Rules : OnSchedule(e, r)

\* Scheduled of what is in the table, primed.
LEMMA ScheduledNow ==
    ASSUME Typed, [Next]_vars, NEW e \in Events, NEW r \in Rules, Schedule,
           contribution'[<<e, r>>] = contribution[<<e, r>>]
    PROVE  OnSchedule(e, r)'
<1>1. PICK c : c = contribution[<<e, r>>] OBVIOUS
<1>2. Scheduled(e, r, c) BY <1>1, ScheduledIs DEF Schedule
<1>3. c.next = None \/ Exists(e) BY <1>1 DEF Typed, Rows, Dated
<1>4. Scheduled(e, r, c)' BY <1>2, <1>3, ScheduleStays
<1>5. c = contribution'[<<e, r>>] BY <1>1
<1> QED BY <1>4, <1>5 DEF Scheduled, OnSchedule

\* ... of a row that a step wrote by the remainder of a day.
LEMMA SharedNow ==
    ASSUME Typed, [Next]_vars, NEW e \in Events, Exists(e), NEW r \in Rules,
           NEW now \in 0 .. MaxDay, Shared(e, r, contribution'[<<e, r>>], now)
    PROVE  OnSchedule(e, r)'
<1>1. PICK c : c = contribution'[<<e, r>>] OBVIOUS
<1>2. Shared(e, r, c, now) BY <1>1
<1>3. LedgerTypeOK /\ occurred[e] # None BY DEF Typed, Rows, Recorded
<1>4. Scheduled(e, r, c) BY <1>2, <1>3, SharedIsScheduled
<1>5. Scheduled(e, r, c)' BY <1>4, ScheduleStays
<1> QED BY <1>1, <1>5 DEF Scheduled, OnSchedule

LEMMA AppliesSchedule ==
    ASSUME Typed, [Next]_vars, Schedule, NEW p \in Procs, ProjectScoring(p) PROVE Schedule'
<1> DEFINE s == proc[p].event
           new == NewEffects(s)
<1>1. /\ s \in Events /\ Exists(s) /\ occurred[s] # None /\ day \in 0 .. MaxDay
      /\ UNCHANGED ledger \/ (ApplyEffects(s, day, new) /\ new \in SUBSET Rules)
  BY ScoringIs
<1>2. CASE UNCHANGED ledger BY <1>2, ScheduledNow DEF ledger, Schedule
<1>3. CASE ApplyEffects(s, day, new) /\ new \in SUBSET Rules
  <2> HIDE DEF s, new
  <2>1. SUFFICES ASSUME NEW e \in Events, NEW r \in Rules PROVE OnSchedule(e, r)'
    BY DEF Schedule
  <2>2. CASE e = s /\ r \in new /\ Points[r] > 0
    <3> DEFINE c == [initial |-> Initial(r), remaining |-> Available(s, r, day),
                     next |-> IF Available(s, r, day) > 0 THEN NextDecay(s, r, day) ELSE None]
    <3>1. contribution'[<<e, r>>] = c BY <1>3, <2>2 DEF ApplyEffects
    <3>2. LedgerTypeOK /\ day \in Int BY <1>1, LedgerIs DEF Typed, Rows
    <3>3. Initial(r) \in Nat /\ Available(s, r, day) = Remaining(s, r, Initial(r), day)
      BY <1>1, <2>2, <3>2, AvailableIs
    <3>4. Shared(s, r, c, day) BY <3>3 DEF Shared
    <3> HIDE DEF c
    <3> QED BY <1>1, <2>2, <3>1, <3>4, SharedNow
  <2>3. CASE ~(e = s /\ r \in new /\ Points[r] > 0)
    <3>1. contribution'[<<e, r>>] = contribution[<<e, r>>] BY <1>3, <2>3 DEF ApplyEffects
    <3> QED BY <3>1, ScheduledNow
  <2> QED BY <2>2, <2>3
<1> QED BY <1>1, <1>2, <1>3

LEMMA DecaysSchedule ==
    ASSUME Typed, [Next]_vars, Schedule, AllReading, NEW p \in Procs,
           DecayDate(p) \/ \E d \in Events : Decay(p, d)
    PROVE  Schedule'
<1> DEFINE s == proc[p].event
           q == proc[p].read.rule
           now == proc[p].read.now
           k == <<s, q>>
           left == Remaining(s, q, proc[p].read.initial, now)
           next == IF left > 0 THEN NextDecay(s, q, now) ELSE None
           row == contribution[k]
<1>0. contribution \in [Keys ->
             [initial : Nat, remaining : Nat, next : (0 .. MaxDay + 1) \cup {None}]]
  BY DEF Typed, Rows, LedgerTypeOK, Keys
<1>1. /\ s \in Events /\ Exists(s) /\ q \in Rules /\ now \in 0 .. MaxDay /\ k \in Keys
      /\ left \in Nat
      /\ \/ contribution' = contribution
         \/ contribution' = [contribution EXCEPT ![k] =
                                 [row EXCEPT !.remaining = left, !.next = next]]
         \/ /\ contribution' = [contribution EXCEPT ![k] = [row EXCEPT !.next = next]]
            /\ row.next # None /\ row.next <= now /\ left >= row.remaining
  <2>1. CASE DecayDate(p) BY <2>1, DatesTo DEF Keys
  <2>2. ASSUME NEW d \in Events, Decay(p, d)
        PROVE  /\ s \in Events /\ Exists(s) /\ q \in Rules /\ now \in 0 .. MaxDay /\ k \in Keys
               /\ left \in Nat
               /\ contribution' = [contribution EXCEPT ![k] =
                                 [row EXCEPT !.remaining = left, !.next = next]]
    BY <2>2, DecaysTo DEF Keys
  <2> QED BY <2>1, <2>2
<1>2. proc[p].read.initial = row.initial
  <2>1. proc[p].pc = "decay" BY DEF DecayDate, Decay
  <2> QED BY <2>1 DEF AllReading, Reading, DecayedKey
<1>3. left = Remaining(s, q, row.initial, now) BY <1>2
<1>4. row.initial \in Nat /\ row.remaining \in Nat BY <1>0, <1>1
<1>5. row.next # None /\ row.next <= now => left <= row.remaining
  <2> SUFFICES ASSUME row.next # None, row.next <= now PROVE left <= row.remaining
    OBVIOUS
  <2>1. row.next \in 0 .. MaxDay + 1 /\ MaxDay \in Nat BY <1>0, <1>1, LedgerIs
  <2>2. row.next - 1 \in Int /\ now \in Int /\ row.next - 1 <= now BY <1>1, <2>1
  <2>3. row.remaining = Remaining(s, q, row.initial, row.next - 1)
    BY <1>1, ScheduledIs DEF Schedule, Scheduled
  <2>4. LedgerTypeOK /\ occurred[s] # None BY <1>1 DEF Typed, Rows, Recorded
  <2> HIDE DEF s, q, now, row, left
  <2>5. Remaining(s, q, row.initial, now) <= Remaining(s, q, row.initial, row.next - 1)
    BY <1>1, <1>4, <2>2, <2>4, RemainingIs
  <2> QED BY <1>3, <2>3, <2>5
<1>6. \/ contribution' = contribution
      \/ contribution' = [contribution EXCEPT ![k] =
                              [row EXCEPT !.remaining = left, !.next = next]]
  <2> HIDE DEF k, left, next
  <2>1. row \in [initial : Nat, remaining : Nat, next : (0 .. MaxDay + 1) \cup {None}]
    BY <1>0, <1>1
  <2> HIDE DEF row
  <2>2. left = row.remaining =>
            [row EXCEPT !.next = next] = [row EXCEPT !.remaining = left, !.next = next]
    BY <2>1
  <2>3. row.next # None /\ row.next <= now /\ left >= row.remaining => left = row.remaining
    BY <1>1, <1>4, <1>5
  <2> QED BY <1>1, <2>2, <2>3
<1>7. ASSUME NEW e \in Events, NEW r \in Rules PROVE OnSchedule(e, r)'
  <2>1. CASE contribution'[<<e, r>>] = contribution[<<e, r>>] BY <2>1, ScheduledNow
  <2>2. CASE contribution'[<<e, r>>] # contribution[<<e, r>>]
    <3> HIDE DEF left, next, row
    <3>0. contribution' = [contribution EXCEPT ![k] =
                               [row EXCEPT !.remaining = left, !.next = next]]
      BY <1>6, <2>2
    <3>1. <<e, r>> = k
      <4> HIDE DEF k
      <4> QED BY <1>0, <2>2, <3>0 DEF Keys
    <3>2. e = s /\ r = q BY <3>1
    <3>3. /\ contribution'[k].initial = row.initial /\ contribution'[k].next = next
          /\ contribution'[k].remaining = left
      <4> HIDE DEF k
      <4> QED BY <1>0, <1>1, <3>0 DEF row
    <3>4. Shared(s, q, contribution'[k], now) BY <1>3, <1>4, <3>3 DEF Shared, next
    <3> HIDE DEF s, q, now
    <3> QED BY <1>1, <3>2, <3>4, SharedNow
  <2> QED BY <2>1, <2>2
<1> QED BY <1>7 DEF Schedule

LEMMA NextSchedule == Typed /\ AllReading /\ Schedule /\ [Next]_vars => Schedule'
<1> SUFFICES ASSUME Typed, AllReading, Schedule, [Next]_vars PROVE Schedule'
  OBVIOUS
<1>1. CASE contribution' = contribution BY <1>1, ScheduledNow DEF Schedule
<1>2. ASSUME Reconcile \/ \E a \in Adjustments : Adjust(a) PROVE contribution' = contribution
  BY <1>2 DEF Reconcile, ReconcileContactScores, Adjust, AdjustScore
<1> QED BY <1>1, <1>2, AppliesSchedule, DecaysSchedule, WritersOfLedger

Capped == \A r \in Rules : MaxScore[r] # None => RuleTotal(r) <= MaxScore[r]

\* When one contribution of a rule changes, its total changes by as much.
LEMMA RuleTotalMoves ==
    ASSUME LedgerTypeOK, LedgerTypeOK', NEW e \in Events, NEW r \in Rules,
           \A f \in Events \ {e} :
               contribution'[<<f, r>>].remaining = contribution[<<f, r>>].remaining
    PROVE  /\ RuleTotal(r) \in Int /\ contribution[<<e, r>>].remaining \in Nat
           /\ contribution'[<<e, r>>].remaining \in Nat
           /\ RuleTotal(r)' = RuleTotal(r) + contribution'[<<e, r>>].remaining
                                           - contribution[<<e, r>>].remaining
<1> DEFINE old == [f \in Events |-> contribution[<<f, r>>].remaining]
           new == [f \in Events |-> contribution'[<<f, r>>].remaining]
<1>1. Summable(old, Events) /\ RuleTotal(r) = Total(old, Events) /\ RuleTotal(r) \in Int
  BY RuleTotalIs
<1>2. RuleTotal(r)' = SumFunction(new) BY DEF RuleTotal
<1>3. DOMAIN new = Events OBVIOUS
<1>4. <<e, r>> \in Events \X Rules OBVIOUS
<1>5. old[e] \in Nat /\ new[e] \in Nat BY <1>4 DEF LedgerTypeOK
<1>6. /\ \A f \in Events \ {e} : new[f] = old[f]
      /\ old[e] = contribution[<<e, r>>].remaining /\ new[e] = contribution'[<<e, r>>].remaining
  OBVIOUS
<1> HIDE DEF old, new
<1>7. Total(new, Events) = Total(old, Events) + new[e] - old[e]
  BY <1>1, <1>5, <1>6, TotalChanges
<1>8. RuleTotal(r)' = Total(new, Events) BY <1>2, <1>3, SumIsTotal
<1> QED BY <1>1, <1>5, <1>6, <1>7, <1>8

\* A step that writes one row of each rule keeps a cap that it respects.
LEMMA CapStays ==
    ASSUME LedgerTypeOK, LedgerTypeOK', Capped, NEW e \in Events,
           \A f \in Events \ {e}, r \in Rules :
               contribution'[<<f, r>>].remaining = contribution[<<f, r>>].remaining,
           \A r \in Rules : MaxScore[r] # None =>
               \/ contribution'[<<e, r>>].remaining <= contribution[<<e, r>>].remaining
               \/ RuleTotal(r) + contribution'[<<e, r>>].remaining
                               - contribution[<<e, r>>].remaining <= MaxScore[r]
    PROVE  Capped'
<1> SUFFICES ASSUME NEW r \in Rules, MaxScore[r] # None PROVE RuleTotal(r)' <= MaxScore[r]
  BY DEF Capped
<1> DEFINE old == contribution[<<e, r>>].remaining
           new == contribution'[<<e, r>>].remaining
<1>1. /\ RuleTotal(r) \in Int /\ old \in Nat /\ new \in Nat
      /\ RuleTotal(r)' = RuleTotal(r) + new - old
  BY RuleTotalMoves
<1>2. MaxScore[r] \in Nat /\ RuleTotal(r) <= MaxScore[r] BY LedgerIs DEF Capped
<1>3. new <= old \/ RuleTotal(r) + new - old <= MaxScore[r] OBVIOUS
<1> HIDE DEF old, new
<1> QED BY <1>1, <1>2, <1>3

LEMMA AppliesCapped ==
    ASSUME Typed, Typed', Unscored, Capped, NEW p \in Procs, ProjectScoring(p) PROVE Capped'
<1> DEFINE s == proc[p].event
           new == NewEffects(s)
<1>1. /\ s \in Events /\ occurred[s] # None /\ day \in 0 .. MaxDay
      /\ UNCHANGED ledger \/ (ApplyEffects(s, day, new) /\ new \in SUBSET Rules)
      /\ \A r \in new : <<s, r>> \notin scored
  BY ScoringIs DEF NewEffects
<1>2. LedgerTypeOK /\ LedgerTypeOK' BY DEF Typed, Rows
<1>3. CASE UNCHANGED ledger BY <1>3 DEF ledger, Capped, RuleTotal
<1>4. CASE ApplyEffects(s, day, new) /\ new \in SUBSET Rules
  <2> HIDE DEF s, new
  <2>1. \A f \in Events \ {s}, r \in Rules : contribution'[<<f, r>>] = contribution[<<f, r>>]
    BY <1>4 DEF ApplyEffects
  <2>2. ASSUME NEW r \in Rules, MaxScore[r] # None
        PROVE  \/ contribution'[<<s, r>>].remaining <= contribution[<<s, r>>].remaining
               \/ RuleTotal(r) + contribution'[<<s, r>>].remaining
                               - contribution[<<s, r>>].remaining <= MaxScore[r]
    <3> DEFINE old == contribution[<<s, r>>].remaining
               now == contribution'[<<s, r>>].remaining
               total == RuleTotal(r)
    <3>1. total \in Int /\ MaxScore[r] \in Nat /\ total <= MaxScore[r] /\ Points[r] \in Int
      BY <1>2, <2>2, RuleTotalIs, LedgerIs DEF Capped
    <3>2. CASE r \in new /\ Points[r] > 0
      <4>1. now = Available(s, r, day) BY <1>1, <1>4, <3>2 DEF ApplyEffects
      <4>2. old = 0 BY <1>1, <3>2 DEF Unscored, Keys, NoContribution
      <4>3. day \in Int BY <1>1, LedgerIs
      <4>4. now \in Nat /\ Initial(r) \in Nat /\ now <= Initial(r)
        BY <1>1, <1>2, <3>2, <4>1, <4>3, AvailableIs
      <4> HIDE DEF old, now
      <4>5. Initial(r) = Smaller(Points[r], Larger(0, MaxScore[r] - total))
        BY <2>2, <3>2 DEF Initial
      <4> HIDE DEF total
      <4>6. Initial(r) <= MaxScore[r] - total BY <3>1, <3>2, <4>5 DEF Smaller, Larger
      <4>7. total + now - old <= MaxScore[r] BY <3>1, <4>2, <4>4, <4>6
      <4> QED BY <4>7 DEF old, now, total
    <3>3. CASE ~(r \in new /\ Points[r] > 0)
      <4>1. now = old BY <1>1, <1>4, <3>3 DEF ApplyEffects
      <4>2. old \in Nat BY <1>1, <1>2 DEF LedgerTypeOK
      <4> HIDE DEF old, now
      <4>3. now <= old BY <4>1, <4>2
      <4> QED BY <4>3 DEF old, now
    <3> QED BY <3>2, <3>3
  <2> QED BY <1>1, <1>2, <2>1, <2>2, CapStays
<1> QED BY <1>1, <1>3, <1>4

LEMMA DecaysCapped ==
    ASSUME Typed, Typed', Capped, NEW p \in Procs, DecayDate(p) \/ \E d \in Events : Decay(p, d)
    PROVE  Capped'
<1> DEFINE s == proc[p].event
           q == proc[p].read.rule
           k == <<s, q>>
<1>0. contribution \in [Keys ->
             [initial : Nat, remaining : Nat, next : (0 .. MaxDay + 1) \cup {None}]]
      /\ LedgerTypeOK /\ LedgerTypeOK'
  BY DEF Typed, Rows, LedgerTypeOK, Keys
<1>1. /\ s \in Events /\ q \in Rules /\ k \in Keys
      /\ contribution'[k].remaining <= contribution[k].remaining
      /\ \A j \in Keys \ {k} : contribution'[j] = contribution[j]
  <2> DEFINE left == Remaining(s, q, proc[p].read.initial, proc[p].read.now)
             next == IF left > 0 THEN NextDecay(s, q, proc[p].read.now) ELSE None
             row == contribution[k]
  <2>1. CASE DecayDate(p)
    <3>1. /\ s \in Events /\ q \in Rules /\ k \in Keys
          /\ contribution' = contribution
             \/ contribution' = [contribution EXCEPT ![k] = [row EXCEPT !.next = next]]
      BY <2>1, DatesTo DEF Keys
    <3> HIDE DEF k, next
    <3>2. contribution'[k].remaining = row.remaining /\ row.remaining \in Nat
      BY <1>0, <3>1
    <3> QED BY <1>0, <3>1, <3>2
  <2>2. ASSUME NEW d \in Events, Decay(p, d)
        PROVE  /\ s \in Events /\ q \in Rules /\ k \in Keys
               /\ contribution'[k].remaining <= contribution[k].remaining
               /\ \A j \in Keys \ {k} : contribution'[j] = contribution[j]
    <3>1. /\ s \in Events /\ q \in Rules /\ k \in Keys
          /\ left \in Nat /\ row.remaining \in Nat /\ left < row.remaining
          /\ contribution' = [contribution EXCEPT ![k] =
                                  [row EXCEPT !.remaining = left, !.next = next]]
      BY <2>2, DecaysTo DEF Keys
    <3> HIDE DEF k, left, next
    <3>2. contribution'[k].remaining = left BY <1>0, <3>1
    <3> QED BY <1>0, <3>1, <3>2
  <2> QED BY <2>1, <2>2
<1>2. \A f \in Events \ {s}, r \in Rules :
          contribution'[<<f, r>>].remaining = contribution[<<f, r>>].remaining
  BY <1>1 DEF Keys
<1>3. ASSUME NEW r \in Rules
      PROVE  contribution'[<<s, r>>].remaining <= contribution[<<s, r>>].remaining
  <2>1. CASE r = q BY <1>1, <2>1
  <2>2. CASE r # q
    <3>1. contribution'[<<s, r>>] = contribution[<<s, r>>] BY <1>1, <2>2 DEF Keys
    <3>2. contribution[<<s, r>>].remaining \in Nat BY <1>0, <1>1 DEF Keys
    <3> QED BY <3>1, <3>2
  <2> QED BY <2>1, <2>2
<1> HIDE DEF s, q, k
<1> QED BY <1>0, <1>1, <1>2, <1>3, CapStays

LEMMA NextCapped == Typed /\ Unscored /\ Capped /\ [Next]_vars => Capped'
<1> SUFFICES ASSUME Typed, Unscored, Capped, [Next]_vars PROVE Capped'
  OBVIOUS
<1>1. CASE contribution' = contribution BY <1>1 DEF Capped, RuleTotal
<1>2. ASSUME Reconcile \/ \E a \in Adjustments : Adjust(a) PROVE contribution' = contribution
  BY <1>2 DEF Reconcile, ReconcileContactScores, Adjust, AdjustScore
<1> QED BY <1>1, <1>2, AppliesCapped, DecaysCapped, NextTyped, WritersOfLedger

LEMMA InitKept == Init => Schedule /\ Capped
<1> SUFFICES ASSUME Init PROVE Schedule /\ Capped
  OBVIOUS
<1>0. \A k \in Events \X Rules : contribution[k] = NoContribution BY DEF Init, LedgerInit
<1>1. Schedule BY <1>0 DEF Schedule, OnSchedule, NoContribution
<1>2. ASSUME NEW r \in Rules, MaxScore[r] # None PROVE RuleTotal(r) <= MaxScore[r]
  <2> DEFINE f == [e \in Events |-> contribution[<<e, r>>].remaining]
  <2>1. LedgerTypeOK BY InitTyped DEF Typed, Rows
  <2>2. Summable(f, Events) /\ RuleTotal(r) = Total(f, Events) BY <2>1, RuleTotalIs
  <2>3. \A e \in Events : f[e] = 0 BY <1>0 DEF NoContribution
  <2> HIDE DEF f
  <2>4. RuleTotal(r) = 0 BY <2>2, <2>3, TotalNone
  <2>5. MaxScore[r] \in Nat BY <1>2, LedgerIs
  <2> QED BY <2>4, <2>5
<1> QED BY <1>1, <1>2 DEF Capped

\* Every contribution holds exactly the share of the day before its next decay, and no rule
\* holds more of the score than its maxScore, however the events of a rule, their retries
\* and the decays that free room under the cap overlap.
THEOREM ContributionsAreKept == Spec => []ContributionsKept
<1>1. Schedule /\ Capped => ContributionsKept BY DEF Schedule, Capped, ContributionsKept
<1> QED BY <1>1, AlwaysTyped, AlwaysUnscored, AlwaysReading, InitKept, NextSchedule, NextCapped,
           PTL DEF Spec

-----------------------------------------------------------------------------
(* The grade and the score.                                                 *)

\* Nothing that a history runs is skipped for a contact who is active and the owner.
Skips(p) ==
    proc[p].pc = "skip" /\ Holds(p, proc[p].event) /\ contact = "active" =>
        event[proc[p].event].owner = "nobody"
Skipped ==
    /\ \A p \in Procs : Skips(p)
    /\ \A e \in Events, q \in HistoryProjections :
           projection[e][q] = "skipped" /\ contact = "active" => event[e].owner = "nobody"

LEMMA StaysSkipping ==
    ASSUME Typed, [Next]_vars, NEW p \in Procs, Skips(p), proc'[p] = proc[p] PROVE Skips(p)'
<1> SUFFICES ASSUME proc[p].pc = "skip", Holds(p, proc[p].event)', contact' = "active"
             PROVE  event'[proc[p].event].owner = "nobody"
  BY DEF Skips, Holds
<1>1. proc[p].event \in Events /\ Exists(proc[p].event)
  BY DEF Typed, Invocations, Fits, ProcessingPCs
<1> DEFINE e == proc[p].event
<1>2. Holds(p, e)' /\ proc'[p].pc = "skip" BY DEF Holds
<1>3. e \in Events /\ Exists(e) BY <1>1
<1>4. Skips(p) => (Holds(p, e) /\ contact = "active" => event[e].owner = "nobody")
  BY DEF Skips
<1> HIDE DEF e
<1>5. Holds(p, e)
  <2>1. \A f \in Events : Holds(p, f)' => Holds(p, f) \/ proc'[p].pc = "load" BY LeaseByClaim
  <2>2. outbox'[e].status = "processing" /\ outbox'[e].lease = p
    BY <1>2 DEF Holds, e
  <2> QED BY <1>2, <1>3, <2>1, <2>2 DEF Holds
<1>6. event[e].owner = "nobody" BY <1>4, <1>5, EffectsGrow
<1>7. ASSUME NEW o \in Procs, RestoreEvent(o, e) PROVE FALSE
  <2>1. outbox'[e] = Free(outbox[e], "pending", TRUE) BY <1>3, <1>7 DEF RestoreEvent, Typed, Rows
  <2> QED BY <1>2, <1>3, <2>1 DEF Free, Holds, Typed, Rows, Row, e
<1>8. event'[e] = event[e] BY <1>3, <1>7, OwnerStays
<1> QED BY <1>6, <1>8 DEF e

LEMMA ActsSkipping ==
    ASSUME Typed, NEW p \in Procs, Acts(p), proc'[p].pc = "skip", contact = "active"
    PROVE  event'[proc'[p].event].owner = "nobody"
<1>0. proc \in [Procs -> ProcState] /\ proc[p] \in ProcState BY DEF Typed, Invocations
<1>1. CASE Load(p)
  <2>1. event' = event BY <1>1 DEF Load, work
  <2>2. outbox[proc[p].event].lease = p BY <1>0, <1>1 DEF Load, Return, Idle
  <2> DEFINE pc == IF event[proc[p].event].owner # "nobody" /\ Active THEN "list" ELSE "skip"
  <2>3. proc' = [proc EXCEPT ![p] = [proc[p] EXCEPT !.owner = event[proc[p].event].owner,
                                                    !.pc = pc]]
    BY <1>0, <1>1, <2>2 DEF Load
  <2> HIDE DEF pc
  <2>4. proc'[p].pc = pc /\ proc'[p].event = proc[p].event BY <1>0, <2>3 DEF ProcState
  <2> QED BY <2>1, <2>4 DEF pc, Active
<1>2. ASSUME Processor(p), ~Load(p) PROVE FALSE
  <2>2. ASSUME List(p) PROVE FALSE BY <1>0, <2>2 DEF List
  <2>3. ASSUME SkipPending(p) PROVE FALSE BY <1>0, <2>3 DEF SkipPending, Goto
  <2>4. ASSUME SkipReplayed(p) \/ Finish(p) PROVE FALSE
    BY <2>4, WhereAdvanceGoes DEF SkipReplayed, Finish
  <2>5. ASSUME CheckContact(p) PROVE FALSE
    BY <1>0, <2>5 DEF CheckContact, Goto, Checked, Active
  <2>6. ASSUME ProjectScoring(p) \/ ProjectCampaign(p) \/ ProjectEnrollment(p) PROVE FALSE
    <3>1. Goto(p, "finish") BY <2>6 DEF ProjectScoring, ProjectCampaign, ProjectEnrollment
    <3> QED BY <1>0, <3>1 DEF Goto
  <2>7. ASSUME ProjectGrade(p) PROVE FALSE BY <1>0, <2>7 DEF ProjectGrade
  <2>8. ASSUME SwapGrade(p) PROVE FALSE BY <1>0, <2>8 DEF SwapGrade
  <2>9. ASSUME MarkProcessed(p) PROVE FALSE BY <1>0, <2>9 DEF MarkProcessed, Return, Idle
  <2> QED BY <1>2, <2>2, <2>3, <2>4, <2>5, <2>6, <2>7, <2>8, <2>9 DEF Processor, Project
<1>3. ASSUME \/ Fail(p) \/ Crash(p) \/ ReleaseHistory(p) \/ FailHistory(p)
             \/ DecayDate(p) \/ DecayLoses(p) \/ \E d \in Events : Decay(p, d)
      PROVE  FALSE
  <2>1. proc'[p] = Idle
    BY <1>0, <1>3 DEF Fail, Crash, ReleaseHistory, FailHistory, DecayDate, DecayLoses, Decay,
                      Return
  <2> QED BY <2>1 DEF Idle
<1>4. ASSUME ClaimHistory(p) \/ LookForWork(p) PROVE FALSE
  <2>1. ASSUME ClaimHistory(p) PROVE FALSE BY <1>0, <2>1 DEF ClaimHistory, Goto
  <2>2. ASSUME LookForWork(p) PROVE FALSE BY <1>0, <2>2 DEF LookForWork, Goto
  <2> QED BY <1>4, <2>1, <2>2
<1>5. ASSUME FindContact(p) \/ ListHistory(p) PROVE FALSE
  <2>1. ASSUME FindContact(p) PROVE FALSE BY <1>0, <2>1 DEF FindContact, Goto
  <2>2. ASSUME ListHistory(p) PROVE FALSE BY <1>0, <2>2 DEF ListHistory
  <2> QED BY <1>5, <2>1, <2>2
<1>6. ASSUME NEW e \in Events, Claim(p, e) \/ RestoreEvent(p, e) PROVE FALSE
  <2>1. ASSUME Claim(p, e) PROVE FALSE BY <1>0, <2>1 DEF Claim, Idle
  <2>2. ASSUME RestoreEvent(p, e) PROVE FALSE BY <1>0, <2>2 DEF RestoreEvent
  <2> QED BY <1>6, <2>1, <2>2
<1>7. ASSUME NEW e \in Events, NEW r \in Rules, NEW now \in 0 .. MaxDay, ListDue(p, e, r, now)
      PROVE  FALSE
  BY <1>0, <1>7 DEF ListDue, Idle
<1> QED BY <1>1, <1>2, <1>3, <1>4, <1>5, <1>6, <1>7 DEF Acts, History, DecayWorker

LEMMA NextSkipped == Typed /\ Skipped /\ [Next]_vars => Skipped'
<1> SUFFICES ASSUME Typed, Skipped, [Next]_vars PROVE Skipped'
  OBVIOUS
<1>1. ASSUME NEW p \in Procs PROVE Skips(p)'
  <2>1. ASSUME proc'[p] = proc[p] PROVE Skips(p)' BY <2>1, StaysSkipping DEF Skipped
  <2>2. ASSUME Acts(p) PROVE Skips(p)' BY <2>2, ActsSkipping, EffectsGrow DEF Skips
  <2> QED BY <2>1, <2>2, OthersWait, NobodySteps, Steps DEF vars
<1>2. ASSUME NEW e \in Events, NEW q \in HistoryProjections, projection'[e][q] = "skipped",
             contact' = "active"
      PROVE  event'[e].owner = "nobody"
  <2>1. contact = "active" /\ q \in Projections BY <1>2, EffectsGrow DEF HistoryProjections
  <2>2. ASSUME NEW p \in Procs, RestoreEvent(p, e) PROVE FALSE
    <3>1. projection'[e] = [o \in Projections |->
                                IF o \in HistoryProjections THEN "pending"
                                ELSE projection[e][o]]
      BY <2>2 DEF RestoreEvent, Typed, Rows
    <3> QED BY <1>2, <2>1, <3>1
  <2>3. event[e].owner = "nobody" /\ Exists(e)
    <3>1. CASE projection[e][q] = "skipped"
      BY <2>1, <3>1 DEF Skipped, Typed, Rows, Recorded
    <3>2. CASE projection[e][q] # "skipped"
      <4>1. PICK p \in Procs :
                /\ proc[p].event = e /\ Holds(p, e)
                /\ SkipPending(p) \/ (SkipReplayed(p) /\ q = Current(p))
        BY <1>2, <2>1, <3>2, HowDecided
      <4>2. SkipPending(p) BY <4>1 DEF SkipReplayed
      <4>3. Exists(e) BY <4>1 DEF Typed, Rows, Recorded, Holds
      <4> QED BY <2>1, <4>1, <4>2, <4>3 DEF SkipPending, Skipped, Skips
    <3> QED BY <3>1, <3>2
  <2> QED BY <2>2, <2>3, OwnerStays
<1> QED BY <1>1, <1>2 DEF Skipped

LEMMA AlwaysSkipped == Spec => []Skipped
<1>1. Init => Skipped BY DEF Init, Idle, NoEvent, Skipped, Skips, HistoryProjections
<1> QED BY <1>1, AlwaysTyped, NextSkipped, PTL DEF Spec


\* The invocation that is about to complete the grade of the event f.
Grading(p, f) ==
    proc[p].event = f /\ Holds(p, f) /\ proc[p].pc = "finish" /\ Current(p) = "grade"

\* The grade of f is still to come, and nobody is past computing it.
Ungraded(f) ==
    /\ Exists(f) /\ projection[f]["grade"] = "pending" /\ event[f].owner # "nobody"
    /\ \A p \in Procs : ~Grading(p, f)

\* The score is the log, and the grade is that of the score or will be computed again.
Graded ==
    contact = "active" /\ adjusted = {} =>
        score = logged /\ (grade = GradeOf(score) \/ \E f \in Events : Ungraded(f))

\* The grade that a step leaves is that of the score it leaves, which it did not move.
GradedNow == grade' = GradeOf(score) /\ score' = score

\* Only a grade that is computed now makes an invocation one that completes the grade.
LEMMA ComesToFinish ==
    ASSUME Typed, Attribution, NEW p \in Procs, Acts(p), proc'[p].pc = "finish",
           Current(p)' = "grade", contact = "active"
    PROVE  GradedNow
<1>0. proc \in [Procs -> ProcState] /\ proc[p] \in ProcState BY DEF Typed, Invocations
<1>1. ASSUME Goto(p, "finish") PROVE Current(p) = "grade"
  BY <1>0, <1>1, SameCurrent DEF Goto
<1>2. ASSUME Load(p) PROVE FALSE
  <2>1. proc'[p] = Idle \/ proc'[p].pc \in {"skip", "list"}
    BY <1>0, <1>2 DEF Load, Return, ProcState
  <2> QED BY <2>1 DEF Idle
<1>3. ASSUME Processor(p), ~Load(p) PROVE GradedNow
  <2>1. ASSUME List(p) PROVE FALSE BY <1>0, <2>1 DEF List
  <2>2. ASSUME SkipPending(p) PROVE FALSE BY <1>0, <2>2 DEF SkipPending, Goto
  <2>3. ASSUME SkipReplayed(p) \/ Finish(p) PROVE FALSE
    BY <2>3, WhereAdvanceGoes DEF SkipReplayed, Finish
  <2>4. ASSUME CheckContact(p) PROVE FALSE
    <3>1. Checked(p) = "finish" BY <1>0, <2>4 DEF CheckContact, Goto
    <3>2. Current(p) = "grade" BY <1>1, <2>4, <3>1 DEF CheckContact
    <3> QED BY <3>1, <3>2 DEF Checked, Effective
  <2>5. ASSUME ProjectScoring(p) \/ ProjectCampaign(p) \/ ProjectEnrollment(p) PROVE FALSE
    BY <1>1, <2>5 DEF ProjectScoring, ProjectCampaign, ProjectEnrollment, Running
  <2>6. ASSUME ProjectGrade(p) PROVE GradedNow
    <3>1. ~(Active /\ GradeOf(score) # grade) BY <1>0, <2>6 DEF ProjectGrade
    <3> QED BY <2>6, <3>1 DEF ProjectGrade, effects, Active, GradedNow
  <2>7. ASSUME SwapGrade(p) PROVE GradedNow
    <3> DEFINE pc == IF Active /\ score = proc[p].read.score /\ grade = proc[p].read.grade
                     THEN "finish" ELSE "run"
    <3>1. proc' = [proc EXCEPT ![p] = [proc[p] EXCEPT !.read = None, !.pc = pc]]
      BY <1>0, <2>7 DEF SwapGrade
    <3> HIDE DEF pc
    <3>2. pc = "finish" BY <1>0, <3>1 DEF ProcState
    <3>3. Active /\ score = proc[p].read.score /\ grade = proc[p].read.grade
      BY <3>2 DEF pc
    <3> QED BY <2>7, <3>3 DEF SwapGrade, SetGradePoints, ledger, GradedNow
  <2>8. ASSUME MarkProcessed(p) PROVE FALSE BY <1>0, <2>8 DEF MarkProcessed, Return, Idle
  <2> QED BY <1>3, <2>1, <2>2, <2>3, <2>4, <2>5, <2>6, <2>7, <2>8 DEF Processor, Project
<1>4. ASSUME \/ Fail(p) \/ Crash(p) \/ ReleaseHistory(p) \/ FailHistory(p)
             \/ DecayDate(p) \/ DecayLoses(p) \/ \E d \in Events : Decay(p, d)
      PROVE  FALSE
  <2>1. proc'[p] = Idle
    BY <1>0, <1>4 DEF Fail, Crash, ReleaseHistory, FailHistory, DecayDate, DecayLoses, Decay,
                      Return
  <2> QED BY <2>1 DEF Idle
<1>5. ASSUME ClaimHistory(p) \/ LookForWork(p) PROVE FALSE
  <2>1. ASSUME ClaimHistory(p) PROVE FALSE BY <1>0, <2>1 DEF ClaimHistory, Goto
  <2>2. ASSUME LookForWork(p) PROVE FALSE BY <1>0, <2>2 DEF LookForWork, Goto
  <2> QED BY <1>5, <2>1, <2>2
<1>6. ASSUME FindContact(p) \/ ListHistory(p) PROVE FALSE
  <2>1. ASSUME FindContact(p) PROVE FALSE BY <1>0, <2>1 DEF FindContact, Goto
  <2>2. ASSUME ListHistory(p) PROVE FALSE BY <1>0, <2>2 DEF ListHistory
  <2> QED BY <1>6, <2>1, <2>2
<1>7. ASSUME NEW e \in Events, Claim(p, e) \/ RestoreEvent(p, e) PROVE FALSE
  <2>1. ASSUME Claim(p, e) PROVE FALSE BY <1>0, <2>1 DEF Claim, Idle
  <2>2. ASSUME RestoreEvent(p, e) PROVE FALSE BY <1>0, <2>2 DEF RestoreEvent
  <2> QED BY <1>7, <2>1, <2>2
<1>8. ASSUME NEW e \in Events, NEW r \in Rules, NEW now \in 0 .. MaxDay, ListDue(p, e, r, now)
      PROVE  FALSE
  BY <1>0, <1>8 DEF ListDue, Idle
<1> QED BY <1>2, <1>3, <1>4, <1>5, <1>6, <1>7, <1>8 DEF Acts, History, DecayWorker

\* A grade that is to come stays so until it is computed.
LEMMA UngradedStays ==
    ASSUME Typed, Attribution, Skipped, [Next]_vars, "grade" \in Projections,
           contact = "active", NEW f \in Events, Ungraded(f)
    PROVE  Ungraded(f)' \/ GradedNow
<1>1. Exists(f)' /\ event'[f].owner # "nobody" BY OwnerStays DEF Ungraded
<1>2. projection'[f]["grade"] = "pending"
  <2> DEFINE q == "grade"
  <2>0. q \in HistoryProjections BY DEF HistoryProjections
  <2>1. q \in Projections /\ projection[f][q] = "pending" /\ Exists(f) BY DEF Ungraded
  <2>2. ASSUME NEW p \in Procs, proc[p].event = f, Holds(p, f), SkipPending(p) PROVE FALSE
    BY <2>2 DEF SkipPending, Skipped, Skips, Ungraded
  <2>3. ASSUME NEW p \in Procs, SkipReplayed(p), q = Current(p) PROVE FALSE
    BY <2>0, <2>3 DEF SkipReplayed
  <2>4. ASSUME NEW p \in Procs, proc[p].event = f, Holds(p, f), Finish(p), q = Current(p)
        PROVE  FALSE
    <3>1. Grading(p, f) BY <2>4 DEF Finish, Grading
    <3> QED BY <3>1 DEF Ungraded
  <2> HIDE DEF q
  <2>5. projection'[f][q] = "pending" BY <2>0, <2>1, <2>2, <2>3, <2>4, HowDecided
  <2> QED BY <2>5 DEF q
<1>3. ASSUME NEW p \in Procs, Grading(p, f)' PROVE GradedNow
  <2>1. proc'[p].event = f /\ Holds(p, f)' /\ proc'[p].pc = "finish" /\ Current(p)' = "grade"
    BY <1>3 DEF Grading, Holds
  <2>2. Holds(p, f) BY <2>1, LeaseByClaim
  <2>3. ASSUME proc'[p] = proc[p] PROVE FALSE
    <3>1. Current(p) = "grade" BY <2>1, <2>3, SameCurrent
    <3> QED BY <2>1, <2>2, <2>3, <3>1 DEF Ungraded, Grading
  <2>4. Acts(p) BY <2>3, OthersWait, NobodySteps, Steps DEF vars
  <2> QED BY <2>1, <2>4, ComesToFinish
<1>4. ASSUME ~GradedNow PROVE \A p \in Procs : ~Grading(p, f)' BY <1>3, <1>4
<1> QED BY <1>1, <1>2, <1>4 DEF Ungraded


\* Points that an event adds find its grade still to come: the scoring that is not complete
\* is before the grade, for whoever holds the event.
LEMMA ScoringUngraded ==
    ASSUME Typed, Attribution, ProjectedInOrder, Tracking, CompletedTookEffect, Skipped,
           "grade" \in Projections, contact = "active",
           NEW p \in Procs, ProjectScoring(p), ~UNCHANGED ledger
    PROVE  score' = score \/ Ungraded(proc[p].event)
<1> DEFINE e == proc[p].event
           s == "scoring"
           g == "grade"
<1>1. proc[p].pc = "run" /\ Current(p) = s /\ event[e].kind = "behaviour"
      /\ ApplyEffects(e, day, NewEffects(e))
  BY DEF ProjectScoring, Running, ApplyScore
<1>2. e \in Events /\ Exists(e) /\ s \in Projections /\ event[e].owner # "nobody"
  BY <1>1, AtProjection DEF Attribution, Attributed
<1>3. s \in HistoryProjections /\ g \in HistoryProjections /\ g \in Projections
  BY <1>2 DEF HistoryProjections
<1>4. CASE projection[e][s] = "completed"
  <2>1. TookEffect(e, s) BY <1>2, <1>4 DEF CompletedTookEffect
  <2>2. NewEffects(e) = {} BY <1>1, <2>1 DEF NewEffects, TookEffect, s
  <2>3. SumFunction([r \in {} |-> Available(e, r, day)]) = 0 BY SumIsTotal, TotalEmpty
  <2>4. score' = score + 0 BY <1>1, <2>2, <2>3 DEF ApplyEffects
  <2> QED BY <2>4 DEF Typed, Rows, LedgerTypeOK
<1>5. CASE projection[e][s] # "completed"
  <2>0. /\ projection[e][s] \in {"absent", "pending", "completed", "skipped"}
        /\ projection[e][g] \in {"absent", "pending", "completed", "skipped"}
        /\ projection[e][s] # "absent" /\ projection[e][g] # "absent"
    BY <1>2, <1>3 DEF Typed, Rows, Recorded
  <2>1. projection[e][s] = "pending" /\ projection[e][g] # "skipped"
    BY <1>2, <1>3, <1>5, <2>0 DEF Skipped
  <2> DEFINE Before(i, j) == Order[i] = s /\ Order[j] = g /\ i < j
  <2>2. PICK i \in DOMAIN Order, j \in DOMAIN Order : Order[i] = s /\ Order[j] = g
    BY <1>2, <1>3 DEF Projections
  <2>3. i < j /\ i \in Nat /\ j \in Nat BY <2>2, OrderFacts DEF s, g
  <2>4. projection[e][g] = "pending"
    <3>1. projection[e][Order[j]] = "completed" => projection[e][Order[i]] # "pending"
      BY <1>2, <2>2, <2>3 DEF ProjectedInOrder
    <3> QED BY <2>0, <2>1, <2>2, <3>1
  <2>5. ASSUME NEW o \in Procs, Grading(o, e) PROVE FALSE
    <3>1. proc[o].event = e /\ Holds(o, e) /\ proc[o].pc = "finish" /\ Current(o) = g
      BY <2>5 DEF Grading, g
    <3>2. s \in PendingOf(e) BY <1>2, <2>1 DEF PendingOf
    <3> HIDE DEF e
    <3>3. s \in proc[o].todo BY <3>1, <3>2 DEF Tracking, Tracks
    <3>4. proc[o].todo \subseteq Projections BY DEF Typed, Invocations, ProcState
    <3>5. j <= i BY <2>2, <3>1, <3>3, <3>4, CurrentIsFirst
    <3> QED BY <2>3, <3>5
  <2> QED BY <1>2, <2>4, <2>5 DEF Ungraded, g
<1> QED BY <1>4, <1>5

\* The event of a decay is new: its grade is to come.
LEMMA DecayUngraded ==
    ASSUME Typed, "grade" \in Projections, NEW p \in Procs, NEW d \in Events, Decay(p, d)
    PROVE  Ungraded(d)'
<1> DEFINE fresh == [kind |-> "score_changed", owner |-> "live", visitor |-> FALSE]
           g == "grade"
<1>1. Create(d, fresh) BY DEF Decay
<1>2. fresh.kind # "absent" /\ fresh.owner # "nobody" /\ g \in Projections OBVIOUS
<1> HIDE DEF fresh, g
<1>3. event'[d] = fresh /\ projection'[d][g] = "pending" /\ outbox'[d].status = "pending"
  BY <1>1, <1>2 DEF Create, Free, NoRow, Typed, Rows
<1>4. ASSUME NEW o \in Procs PROVE ~Holds(o, d)' BY <1>3 DEF Holds
<1>5. \A o \in Procs : ~Grading(o, d)' BY <1>4 DEF Grading, Holds
<1>6. Exists(d)' /\ event'[d].owner # "nobody" BY <1>2, <1>3 DEF Exists
<1> QED BY <1>3, <1>5, <1>6 DEF Ungraded, g

LEMMA NextGraded ==
    /\ Typed /\ Attribution /\ ProjectedInOrder /\ Tracking /\ CompletedTookEffect /\ Skipped
    /\ "grade" \in Projections /\ Graded /\ [Next]_vars
    => Graded'
<1> SUFFICES ASSUME Typed, Attribution, ProjectedInOrder, Tracking, CompletedTookEffect, Skipped,
                    "grade" \in Projections, Graded, [Next]_vars,
                    contact' = "active", adjusted' = {}
             PROVE  /\ score' = logged'
                    /\ grade' = GradeOf(score') \/ \E f \in Events : Ungraded(f)'
  BY DEF Graded, Ungraded, Exists, Grading, Holds, GradeOf
<1>1. contact = "active" BY EffectsGrow
<1>2. ASSUME NEW a \in Adjustments, Adjust(a) PROVE FALSE BY <1>2 DEF Adjust, AdjustScore
<1>3. adjusted = {} BY <1>2, WritersOfLedger
<1>4. score = logged /\ (grade = GradeOf(score) \/ \E f \in Events : Ungraded(f))
  BY <1>1, <1>3 DEF Graded
<1>5. grade' = grade \/ GradedNow
  <2>1. ASSUME NEW p \in Procs, SwapGrade(p) PROVE grade' = grade \/ GradedNow
    BY <2>1 DEF SwapGrade, SetGradePoints, ledger, GradedNow
  <2> QED BY <2>1, WritersOfLedger
<1>6. ASSUME score' = score
      PROVE  grade' = GradeOf(score') \/ \E f \in Events : Ungraded(f)'
  BY <1>1, <1>4, <1>5, <1>6, UngradedStays DEF GradedNow
<1>7. ASSUME UNCHANGED <<score, logged>> PROVE score' = logged' BY <1>4, <1>7
<1>8. ASSUME NEW p \in Procs, ProjectScoring(p), ~UNCHANGED ledger
      PROVE  /\ score' = logged'
             /\ score' = score \/ \E f \in Events : Ungraded(f)'
  <2> PICK e : e = proc[p].event
    OBVIOUS
  <2> DEFINE gain == SumFunction([r \in NewEffects(e) |-> Available(e, r, day)])
  <2>1. e \in Events /\ score' = score + gain /\ logged' = logged + gain
    BY <1>8, ScoringIs DEF ApplyEffects
  <2>2. score' = score \/ Ungraded(e) BY <1>1, <1>8, ScoringUngraded
  <2>3. ASSUME GradedNow PROVE score' = score BY <2>3 DEF GradedNow
  <2> HIDE DEF gain
  <2>4. score' = score \/ Ungraded(e)' BY <1>1, <2>1, <2>2, <2>3, UngradedStays
  <2> QED BY <1>4, <2>1, <2>4
<1>9. ASSUME NEW p \in Procs, DecayDate(p) PROVE UNCHANGED <<score, logged>>
  BY <1>9 DEF DecayDate, DecayDateOnly
<1>10. ASSUME NEW p \in Procs, NEW d \in Events, Decay(p, d)
       PROVE  score' = logged' /\ Ungraded(d)'
  BY <1>4, <1>10, DecayUngraded DEF Decay, DecayBatch
<1>11. ASSUME Reconcile PROVE score' = logged' /\ score' = score
  BY <1>4, <1>11 DEF Reconcile, ReconcileContactScores
<1>12. CASE UNCHANGED <<score, logged>> BY <1>6, <1>7, <1>12
<1>13. CASE \E p \in Procs : ProjectScoring(p)
  BY <1>6, <1>8, <1>12, <1>13 DEF ledger
<1>14. CASE \E p \in Procs : DecayDate(p) BY <1>9, <1>12, <1>14
<1>15. CASE \E p \in Procs, d \in Events : Decay(p, d) BY <1>10, <1>15
<1>16. CASE Reconcile BY <1>6, <1>11, <1>16
<1> QED BY <1>2, <1>12, <1>13, <1>14, <1>15, <1>16, WritersOfLedger

\* When every event is processed the grade is that of the present score.  A contact starts
\* with no points and the lowest grade, which must be that of no points: nothing grades a
\* contact before his first event.
THEOREM GradeIsCurrent ==
    ASSUME "grade" \in Projections, GradeFrom > 0 PROVE Spec => []GradeFollowsScore
<1>0. /\ Typed /\ Attribution /\ ProjectedInOrder /\ Tracking /\ CompletedTookEffect /\ Skipped
      /\ Graded /\ [Next]_vars
      => Graded'
  BY NextGraded
<1>1. Init => Graded BY LedgerAssumption DEF Init, LedgerInit, Graded, GradeOf
<1>2. Spec => []Tracking BY AlwaysTyped, InitTracking, NextTracking, PTL DEF Spec
<1>3. Spec => []CompletedTookEffect
  BY AlwaysTyped, AlwaysAttributed, InitEffects, NextEffects, PTL DEF Spec
<1>4. Spec => []LeftDecided BY AlwaysTyped, InitEffects, NextLeftDecided, PTL DEF Spec
<1>5. Graded /\ LeftDecided => GradeFollowsScore
  <2> DEFINE g == "grade"
  <2>1. g \in Projections OBVIOUS
  <2>2. \A f \in Events : Ungraded(f) => Exists(f) /\ projection[f][g] = "pending"
    BY DEF Ungraded
  <2> HIDE DEF g
  <2> QED BY <2>1, <2>2 DEF Graded, LeftDecided, GradeFollowsScore
<1>6. Spec => []Graded
  BY <1>0, <1>1, <1>2, <1>3, AlwaysTyped, AlwaysAttributed, AlwaysSkipped, InOrder, PTL DEF Spec
<1> QED BY <1>4, <1>5, <1>6, PTL
=============================================================================
