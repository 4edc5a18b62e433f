--------------------------- MODULE MinUnionProof ---------------------------
\* What the union by minimum computes, for every finite set of edges: the finest
\* labelling that gives the two ends of every edge one label, in which the label of
\* an element is the least element with that label.  And that is what the
\* breadth-first reference finds.
\*
\* A labelling f respects edges when it gives the two ends of each one label.  That
\* two elements are joined is stated without paths: every labelling that respects
\* the edges gives them one label.
EXTENDS MinUnion, FiniteSetTheorems, WellFoundedInduction, TLAPS

Respects(f, E) == \A e \in E : f[e[1]] = f[e[2]]

\* r labels S by the groups of E: the least element of each.
Joins(r, E, S) ==
  /\ E \subseteq S \X S
  /\ r \in [S -> S]
  /\ \A x \in S : r[r[x]] = r[x] /\ r[x] <= x
  /\ Respects(r, E)
  /\ \A f \in [S -> S] : Respects(f, E) => \A x \in S : f[r[x]] = f[x]

-----------------------------------------------------------------------------
\* Induction over the naturals: a set that has 0 and the successor of each of its
\* numbers has all.
LEMMA SetInduction ==
  ASSUME NEW S, 0 \in S, \A n \in Nat : n \in S => n + 1 \in S
  PROVE  Nat \subseteq S
<1>1. SUFFICES ASSUME Nat \ S # {} PROVE FALSE
  OBVIOUS
<1> DEFINE R == OpToRel(<, Nat)
<1>2. IsWellFoundedOn(R, Nat)
  BY NatLessThanWellFounded
<1>3. \A x, y \in Nat : <<y, x>> \in R <=> y < x
  BY DEF OpToRel
<1> HIDE DEF R
<1>4. PICK x \in Nat \ S : \A y \in Nat \ S : ~ (<<y, x>> \in R)
  BY <1>1, <1>2, WFMin
<1>5. \A y \in Nat \ S : ~ (y < x)
  BY <1>3, <1>4
<1>6. x - 1 \in Nat /\ x - 1 \in S
  BY <1>5
<1>7. QED
  BY <1>6

\* The smaller and the larger of two numbers.
LEMMA MinOfTwo ==
  ASSUME NEW a \in Nat, NEW b \in Nat
  PROVE  /\ Min({a, b}) \in {a, b} /\ Min({a, b}) <= a /\ Min({a, b}) <= b
         /\ Max({a, b}) \in {a, b} /\ Max({a, b}) >= a /\ Max({a, b}) >= b
<1>1. \E x \in {a, b} : \A y \in {a, b} : x <= y
  OBVIOUS
<1>2. \E x \in {a, b} : \A y \in {a, b} : x >= y
  OBVIOUS
<1>3. QED
  BY <1>1, <1>2 DEF Min, Max

-----------------------------------------------------------------------------
\* One union.

\* Without edges every element is alone.
LEMMA AloneJoins ==
  ASSUME NEW S \in SUBSET Nat
  PROVE  Joins(Alone(S), {}, S)
BY DEF Joins, Alone, Respects

\* One more edge.
LEMMA UniteJoins ==
  ASSUME NEW S \in SUBSET Nat, NEW E, NEW r, Joins(r, E, S), NEW e \in S \X S
  PROVE  Joins(Unite(r, e), E \cup {e}, S)
<1> DEFINE lo == Min({r[e[1]], r[e[2]]})
           hi == Max({r[e[1]], r[e[2]]})
           u == Unite(r, e)
<1>1. r \in [S -> S] /\ \A x \in S : r[r[x]] = r[x] /\ r[x] <= x
  BY DEF Joins
<1>2. r[e[1]] \in S /\ r[e[2]] \in S
  BY <1>1
<1>3. lo \in {r[e[1]], r[e[2]]} /\ lo <= r[e[1]] /\ lo <= r[e[2]]
  BY <1>2, MinOfTwo
<1>4. hi \in {r[e[1]], r[e[2]]} /\ hi >= r[e[1]] /\ hi >= r[e[2]]
  BY <1>2, MinOfTwo
<1>5. u = [x \in S |-> IF r[x] = hi THEN lo ELSE r[x]]
  BY <1>1 DEF Unite
<1> HIDE DEF lo, hi, u
<1>6. {lo, hi} = {r[e[1]], r[e[2]]} /\ lo <= hi /\ lo \in S /\ hi \in S
  <2>1. \A a, b \in Nat : lo \in {a, b} /\ lo <= a /\ lo <= b /\ hi \in {a, b} /\ hi >= a /\ hi >= b
                         => {lo, hi} = {a, b} /\ lo <= hi
    OBVIOUS
  <2>2. QED
    BY <1>2, <1>3, <1>4, <2>1
<1>7. r[lo] = lo /\ r[hi] = hi
  <2>1. r[r[e[1]]] = r[e[1]] /\ r[r[e[2]]] = r[e[2]]
    BY <1>1
  <2>2. lo \in {r[e[1]], r[e[2]]} /\ hi \in {r[e[1]], r[e[2]]}
    BY <1>3, <1>4
  <2>3. QED
    BY <2>1, <2>2
<1>8. u \in [S -> S] /\ \A x \in S : u[u[x]] = u[x] /\ u[x] <= x
  BY <1>1, <1>5, <1>6, <1>7
<1>9. E \cup {e} \subseteq S \X S /\ Respects(u, E \cup {e})
  <2>1. E \subseteq S \X S /\ Respects(r, E)
    BY DEF Joins
  <2>2. ASSUME NEW d \in E PROVE u[d[1]] = u[d[2]]
    BY <1>5, <2>1 DEF Respects
  <2>3. u[e[1]] = u[e[2]]
    BY <1>5, <1>6
  <2>4. QED
    BY <2>1, <2>2, <2>3 DEF Respects
<1>10. ASSUME NEW f \in [S -> S], Respects(f, E \cup {e}), NEW x \in S
       PROVE  f[u[x]] = f[x]
  <2>1. \A y \in S : f[r[y]] = f[y]
    BY <1>10 DEF Joins, Respects
  <2>2. f[e[1]] = f[e[2]]
    BY <1>10 DEF Respects
  <2>3. f[lo] = f[hi]
    BY <1>6, <2>1, <2>2
  <2>4. QED
    BY <1>5, <2>1, <2>3
<1>11. QED
  BY <1>8, <1>9, <1>10 DEF Joins, u

-----------------------------------------------------------------------------
\* All the unions of a set of edges.

\* The recursion is well founded: its function exists.
United(U, E, D) ==
  U = [F \in SUBSET E |->
         [r \in [D -> D] |->
            IF F = {} THEN r
            ELSE LET e == CHOOSE f \in F : TRUE IN U[F \ {e}][Unite(r, e)]]]

\* The recursive function that UniteAll is defined by exists.
LEMMA UnitedExists ==
  ASSUME NEW E, IsFiniteSet(E), NEW D
  PROVE  \E U : United(U, E, D)
<1> DEFINE Pick(F) == CHOOSE f \in F : TRUE
           Body(U, F) == [r \in [D -> D] |->
                            IF F = {} THEN r ELSE U[F \ {Pick(F)}][Unite(r, Pick(F))]]
           UpTo(n) == {F \in SUBSET E : Cardinality(F) <= n}
           T == {n \in Nat : \E U : U = [F \in UpTo(n) |-> Body(U, F)]}
<1>1. \A F \in SUBSET E : IsFiniteSet(F) /\ Cardinality(F) \in Nat
  BY FS_Subset, FS_CardinalityType
<1>2. \A F \in SUBSET E : F # {} => Pick(F) \in F
  OBVIOUS
<1> HIDE DEF Pick
<1>3. \A F \in SUBSET E : F # {} => F \ {Pick(F)} \in SUBSET E
                                    /\ Cardinality(F \ {Pick(F)}) = Cardinality(F) - 1
  BY <1>1, <1>2, FS_RemoveElement
<1>4. 0 \in T
  <2>1. \A F \in UpTo(0) : F = {}
    BY <1>1, FS_EmptySet
  <2> DEFINE U == [F \in UpTo(0) |-> [r \in [D -> D] |-> r]]
  <2>2. U = [F \in UpTo(0) |-> Body(U, F)]
    BY <2>1
  <2>3. QED
    BY <2>2
<1>5. ASSUME NEW n \in T PROVE n + 1 \in T
  <2>1. PICK U : U = [F \in UpTo(n) |-> Body(U, F)]
    OBVIOUS
  <2> DEFINE V == [F \in UpTo(n + 1) |-> Body(U, F)]
  <2> n \in Nat
    OBVIOUS
  <2> HIDE DEF T
  <2>2. ASSUME NEW F \in UpTo(n) PROVE V[F] = U[F]
    <3>1. F \in UpTo(n + 1)
      BY <1>1
    <3>2. V[F] = Body(U, F)
      BY <3>1
    <3>3. QED
      BY <2>1, <3>2
  <2> HIDE DEF V
  <2>3. ASSUME NEW F \in UpTo(n + 1), F # {} PROVE V[F \ {Pick(F)}] = U[F \ {Pick(F)}]
    <3>1. F \ {Pick(F)} \in UpTo(n)
      BY <1>1, <1>3, <2>3
    <3>2. QED
      BY <2>2, <3>1
  <2>4. ASSUME NEW F \in UpTo(n + 1) PROVE Body(V, F) = Body(U, F)
    BY <2>3
  <2>5. V = [F \in UpTo(n + 1) |-> Body(V, F)]
    BY <2>4 DEF V
  <2> HIDE DEF UpTo, Body
  <2>6. \E W : W = [F \in UpTo(n + 1) |-> Body(W, F)]
    BY <2>5
  <2>7. n + 1 \in Nat
    OBVIOUS
  <2>8. QED
    BY <2>6, <2>7 DEF T
<1>6. Cardinality(E) \in T
  BY <1>1, <1>4, <1>5, SetInduction
<1>7. UpTo(Cardinality(E)) = SUBSET E
  BY <1>1, FS_Subset
<1>8. \E U : U = [F \in SUBSET E |-> Body(U, F)]
  BY <1>6, <1>7
<1>9. QED
  BY <1>8 DEF United, Pick

\* What UniteAll returns, by its recursion.
Unions(U, E, root) ==
  /\ UniteAll(root, E) = U[E][root]
  /\ \A r \in [DOMAIN root -> DOMAIN root] :
       /\ U[{}][r] = r
       /\ \A F \in SUBSET E : F # {} => \E e \in F : U[F][r] = U[F \ {e}][Unite(r, e)]

\* UniteAll is that function, and takes one edge at a time.
LEMMA UniteAllSteps ==
  ASSUME NEW E, IsFiniteSet(E), NEW root
  PROVE  \E U : Unions(U, E, root)
<1> DEFINE V[F \in SUBSET E] ==
             [r \in [DOMAIN root -> DOMAIN root] |->
                IF F = {} THEN r
                ELSE LET e == CHOOSE f \in F : TRUE IN V[F \ {e}][Unite(r, e)]]
           D == DOMAIN root
<1>1. \E U : United(U, E, D)
  BY UnitedExists
<1>2. United(V, E, D)
  BY <1>1 DEF United
<1>3. UniteAll(root, E) = V[E][root]
  BY DEF UniteAll
<1> HIDE DEF V
<1>4. ASSUME NEW r \in [D -> D] PROVE V[{}][r] = r
  BY <1>2 DEF United
<1>5. ASSUME NEW r \in [D -> D], NEW F \in SUBSET E, F # {}
      PROVE  \E e \in F : V[F][r] = V[F \ {e}][Unite(r, e)]
  <2> DEFINE e == CHOOSE f \in F : TRUE
  <2>1. e \in F
    BY <1>5
  <2>2. V[F] = [t \in [D -> D] |->
                 IF F = {} THEN t
                 ELSE LET d == CHOOSE f \in F : TRUE IN V[F \ {d}][Unite(t, d)]]
    BY <1>2 DEF United
  <2>3. V[F][r] = V[F \ {e}][Unite(r, e)]
    BY <1>5, <2>2
  <2>4. QED
    BY <2>1, <2>3
<1>6. Unions(V, E, root)
  BY <1>3, <1>4, <1>5 DEF Unions
<1>7. QED
  BY <1>6

\* Uniting all edges of F adds the edges of F.
THEOREM UniteAllJoins ==
  ASSUME NEW S \in SUBSET Nat, NEW E, NEW root, Joins(root, E, S),
         NEW F \in SUBSET (S \X S), IsFiniteSet(F)
  PROVE  Joins(UniteAll(root, F), E \cup F, S)
<1>1. PICK U : Unions(U, F, root)
  BY UniteAllSteps
<1>2. root \in [S -> S] /\ DOMAIN root = S
  BY DEF Joins
<1>3. /\ UniteAll(root, F) = U[F][root]
      /\ \A r \in [S -> S] :
           /\ U[{}][r] = r
           /\ \A G \in SUBSET F : G # {} => \E e \in G : U[G][r] = U[G \ {e}][Unite(r, e)]
  BY <1>1, <1>2 DEF Unions
<1> DEFINE Adds(G) == \A r, D : Joins(r, D, S) => Joins(U[G][r], D \cup G, S)
           T == {n \in Nat : \A G \in SUBSET F : Cardinality(G) = n => Adds(G)}
<1>4. \A G \in SUBSET F : IsFiniteSet(G) /\ Cardinality(G) \in Nat
  BY FS_Subset, FS_CardinalityType
<1>5. 0 \in T
  <2>1. \A G \in SUBSET F : Cardinality(G) = 0 => G = {}
    BY <1>4, FS_EmptySet
  <2>2. ASSUME NEW r, NEW D, Joins(r, D, S) PROVE Joins(U[{}][r], D \cup {}, S)
    <3>1. r \in [S -> S] /\ D \cup {} = D
      BY <2>2 DEF Joins
    <3>2. QED
      BY <1>3, <2>2, <3>1
  <2>3. QED
    BY <2>1, <2>2
<1>6. ASSUME NEW n \in T PROVE n + 1 \in T
  <2>1. n \in Nat /\ n + 1 \in Nat
    OBVIOUS
  <2>2. SUFFICES ASSUME NEW G \in SUBSET F, Cardinality(G) = n + 1, NEW r, NEW D, Joins(r, D, S)
                 PROVE  Joins(U[G][r], D \cup G, S)
    BY <2>1
  <2> HIDE DEF T, Adds
  <2>3. G # {}
    <3>1. Cardinality({}) = 0
      BY FS_EmptySet
    <3>2. QED
      BY <2>1, <2>2, <3>1
  <2>4. r \in [S -> S]
    BY <2>2 DEF Joins
  <2>5. PICK e \in G : U[G][r] = U[G \ {e}][Unite(r, e)]
    BY <1>3, <2>3, <2>4
  <2>6. Cardinality(G \ {e}) = n
    <3>1. Cardinality(G \ {e}) = Cardinality(G) - 1
      BY <1>4, FS_RemoveElement
    <3>2. QED
      BY <2>1, <2>2, <3>1
  <2>7. Adds(G \ {e})
    BY <2>6 DEF T
  <2>8. Joins(Unite(r, e), D \cup {e}, S)
    <3>1. e \in S \X S
      OBVIOUS
    <3>2. QED
      BY <2>2, <3>1, UniteJoins
  <2>9. Joins(U[G][r], (D \cup {e}) \cup (G \ {e}), S)
    BY <2>5, <2>7, <2>8 DEF Adds
  <2>10. (D \cup {e}) \cup (G \ {e}) = D \cup G
    OBVIOUS
  <2>11. QED
    BY <2>9, <2>10
<1>7. Cardinality(F) \in T
  BY <1>4, <1>5, <1>6, SetInduction
<1>8. QED
  BY <1>3, <1>7

-----------------------------------------------------------------------------
\* Labellings and the reference.

\* There is one such labelling.
LEMMA JoinsUnique ==
  ASSUME NEW S \in SUBSET Nat, NEW E, NEW r, NEW s, Joins(r, E, S), Joins(s, E, S)
  PROVE  r = s
<1>1. \A x \in S : s[r[x]] = s[x] /\ r[s[x]] = r[x]
  BY DEF Joins
<1>2. r \in [S -> S] /\ s \in [S -> S]
  BY DEF Joins
<1>3. ASSUME NEW x \in S PROVE r[x] = s[x]
  <2>1. r[x] \in S /\ s[x] \in S
    BY <1>2
  <2>2. s[r[x]] <= r[x] /\ r[s[x]] <= s[x]
    BY <2>1 DEF Joins
  <2>3. s[x] <= r[x] /\ r[x] <= s[x]
    BY <1>1, <2>2
  <2>4. r[x] \in Nat /\ s[x] \in Nat
    BY <2>1
  <2>5. QED
    BY <2>3, <2>4
<1>4. r = [x \in S |-> r[x]] /\ s = [x \in S |-> s[x]]
  BY <1>2
<1>5. QED
  BY <1>3, <1>4

\* What the edges decide is which labellings respect them.
LEMMA JoinsSame ==
  ASSUME NEW S, NEW E, NEW r, Joins(r, E, S), NEW F \in SUBSET (S \X S),
         \A f \in [S -> S] : Respects(f, E) <=> Respects(f, F)
  PROVE  Joins(r, F, S)
BY DEF Joins

\* No edge leaves the part A.
Keeps(E, A) == \A e \in E : e[1] \in A <=> e[2] \in A

\* A label is in the part of S that its element is in, if no edge leaves the part.
LEMMA JoinsWithin ==
  ASSUME NEW S \in SUBSET Nat, NEW E, NEW r, Joins(r, E, S), NEW A \in SUBSET S,
         Keeps(E, A), NEW x \in A
  PROVE  r[x] \in A
<1> SUFFICES ASSUME r[x] \notin A PROVE FALSE
  OBVIOUS
<1> DEFINE f == [y \in S |-> IF y \in A THEN x ELSE r[x]]
<1>1. r[x] \in S /\ r[x] # x /\ E \subseteq S \X S
  BY DEF Joins
<1>2. f \in [S -> S] /\ Respects(f, E)
  BY <1>1 DEF Keeps, Respects
<1>3. f[r[x]] = r[x] /\ f[x] = x
  BY <1>1
<1> HIDE DEF f
<1>4. f[r[x]] = f[x]
  BY <1>2 DEF Joins
<1>5. QED
  BY <1>1, <1>3, <1>4

\* The edges of F that start in A are edges of D.
InsideIs(F, A, D) == \A e \in F : e[1] \in A => e \in D

\* F adds edges to D, all of them away from the part A; t and s are the labellings.
GrowsApart(A, t, D, s, F, S) ==
  /\ Joins(t, D, S) /\ Joins(s, F, S)
  /\ D \subseteq F /\ A \subseteq S
  /\ Keeps(F, A) /\ InsideIs(F, A, D)

\* Edges elsewhere do not change the labels of a part.
LEMMA JoinsApart ==
  ASSUME NEW S \in SUBSET Nat, NEW A, NEW t, NEW D, NEW s, NEW F,
         GrowsApart(A, t, D, s, F, S)
  PROVE  \A x \in A : s[x] = t[x]
<1>1. /\ Joins(t, D, S) /\ Joins(s, F, S) /\ D \subseteq F /\ A \in SUBSET S
      /\ Keeps(F, A) /\ InsideIs(F, A, D)
  BY DEF GrowsApart
<1> SUFFICES ASSUME NEW x \in A PROVE s[x] = t[x]
  OBVIOUS
<1> DEFINE f == [y \in S |-> IF y \in A THEN t[y] ELSE x]
<1>2. t \in [S -> S] /\ s \in [S -> S] /\ F \subseteq S \X S
  BY <1>1 DEF Joins
<1>3. s[x] \in A /\ t[x] \in A
  <2>1. Keeps(D, A)
    BY <1>1 DEF Keeps
  <2>2. s[x] \in A
    BY <1>1, JoinsWithin
  <2>3. t[x] \in A
    BY <1>1, <2>1, JoinsWithin
  <2>4. QED
    BY <2>2, <2>3
<1>4. f \in [S -> S]
  BY <1>1, <1>2
<1>5. Respects(f, F)
  <2>1. ASSUME NEW e \in F PROVE f[e[1]] = f[e[2]]
    <3>1. e[1] \in S /\ e[2] \in S
      BY <1>2
    <3>2. e[1] \in A => t[e[1]] = t[e[2]]
      BY <1>1 DEF Joins, Respects, InsideIs
    <3>3. QED
      BY <1>1, <3>1, <3>2 DEF Keeps
  <2>2. QED
    BY <2>1 DEF Respects
<1>6. f[s[x]] = t[s[x]] /\ f[x] = t[x]
  BY <1>1, <1>2, <1>3
<1> HIDE DEF f
<1>7. t[s[x]] = t[x]
  BY <1>1, <1>4, <1>5, <1>6 DEF Joins
<1>8. s[t[x]] = s[x]
  <2>1. Respects(s, D)
    BY <1>1 DEF Joins, Respects
  <2>2. QED
    BY <1>1, <1>2, <2>1 DEF Joins
<1>9. t[s[x]] <= s[x] /\ s[t[x]] <= t[x]
  BY <1>1, <1>3 DEF Joins
<1>10. t[x] \in Nat /\ s[x] \in Nat
  BY <1>1, <1>3
<1>11. QED
  BY <1>7, <1>8, <1>9, <1>10

\* What two labellings in a row give.  t labels by E; m labels by D, which joins the
\* labels of the ends of every edge of X and nothing that E and X do not join.
LEMMA JoinsInTurn ==
  ASSUME NEW S \in SUBSET Nat, NEW E, NEW t, Joins(t, E, S), NEW D, NEW m, Joins(m, D, S),
         NEW X \in SUBSET (S \X S),
         \A f \in [S -> S] : Respects(f, E \cup X) => Respects(f, D),
         \A e \in X : t[e[1]] = t[e[2]] \/ Edge(t[e[1]], t[e[2]]) \in D
  PROVE  Joins([x \in S |-> m[t[x]]], E \cup X, S)
<1> DEFINE u == [x \in S |-> m[t[x]]]
<1>1. t \in [S -> S] /\ (\A x \in S : t[t[x]] = t[x] /\ t[x] <= x) /\ Respects(t, E)
  BY DEF Joins
<1>2. m \in [S -> S] /\ (\A x \in S : m[m[x]] = m[x] /\ m[x] <= x) /\ Respects(m, D)
  BY DEF Joins
<1>3. E \cup X \subseteq S \X S
  BY DEF Joins
<1>4. u \in [S -> S] /\ \A x \in S : u[x] = m[t[x]]
  BY <1>1, <1>2
<1> HIDE DEF u
<1>5. ASSUME NEW x \in S PROVE u[x] <= x
  <2>1. t[x] \in S /\ t[x] <= x
    BY <1>1
  <2>2. m[t[x]] \in S /\ m[t[x]] <= t[x]
    BY <1>2, <2>1
  <2>3. x \in Nat /\ t[x] \in Nat /\ m[t[x]] \in Nat
    BY <2>1, <2>2
  <2>4. QED
    BY <1>4, <2>1, <2>2, <2>3
<1>6. Respects(u, E \cup X)
  <2>1. ASSUME NEW e \in E PROVE u[e[1]] = u[e[2]]
    <3>1. e[1] \in S /\ e[2] \in S
      BY <1>3
    <3>2. t[e[1]] = t[e[2]]
      BY <1>1 DEF Respects
    <3>3. QED
      BY <1>4, <3>1, <3>2
  <2>2. ASSUME NEW e \in X PROVE u[e[1]] = u[e[2]]
    <3>1. e[1] \in S /\ e[2] \in S /\ t[e[1]] \in S /\ t[e[2]] \in S
      BY <1>1
    <3>2. CASE t[e[1]] = t[e[2]]
      BY <1>4, <3>1, <3>2
    <3>3. CASE Edge(t[e[1]], t[e[2]]) \in D
      <4> DEFINE a == t[e[1]]
                 b == t[e[2]]
      <4>1. m[Min({a, b})] = m[Max({a, b})]
        BY <1>2, <3>3 DEF Respects, Edge
      <4>2. a \in Nat /\ b \in Nat
        BY <3>1
      <4>3. m[a] = m[b]
        BY <4>1, <4>2, MinOfTwo
      <4>4. QED
        BY <1>4, <3>1, <4>3
    <3>4. QED
      BY <3>2, <3>3
  <2>3. QED
    BY <2>1, <2>2 DEF Respects
<1>7. Respects(u, D)
  BY <1>4, <1>6
<1>8. \A x \in S : u[m[x]] = u[x]
  BY <1>4, <1>7 DEF Joins
<1>9. \A x \in S : u[t[x]] = u[x]
  BY <1>1, <1>4
<1>10. \A x \in S : u[u[x]] = u[x]
  BY <1>1, <1>4, <1>8, <1>9
<1>11. ASSUME NEW f \in [S -> S], Respects(f, E \cup X), NEW x \in S
       PROVE  f[u[x]] = f[x]
  <2>1. Respects(f, D) /\ Respects(f, E)
    BY <1>11 DEF Respects
  <2>2. f[m[t[x]]] = f[t[x]] /\ f[t[x]] = f[x]
    BY <1>1, <2>1 DEF Joins
  <2>3. QED
    BY <1>4, <2>2
<1>12. QED
  BY <1>3, <1>4, <1>5, <1>6, <1>10, <1>11 DEF Joins, u
-----------------------------------------------------------------------------
\* The breadth-first search.

\* The recursion over the number of rounds is well founded.
Ends(E, x) == {x} \cup {e[1] : e \in E} \cup {e[2] : e \in E}
Searched(R, E, x, n) ==
  R = [k \in 0 .. n |->
         [A \in SUBSET Ends(E, x) |->
            LET further == Neighbours(E, A)
            IN  IF k = 0 \/ further = A THEN A ELSE R[k - 1][further]]]

\* The recursive function that LeastReached is defined by exists.
LEMMA ReachedExists ==
  ASSUME NEW E, NEW x, NEW n \in Nat
  PROVE  \E R : Searched(R, E, x, n)
<1> DEFINE Body(R, k) == [A \in SUBSET Ends(E, x) |->
                            LET further == Neighbours(E, A)
                            IN  IF k = 0 \/ further = A THEN A ELSE R[k - 1][further]]
           T == {m \in Nat : \E R : R = [k \in 0 .. m |-> Body(R, k)]}
<1>1. 0 \in T
  <2> DEFINE R == [k \in 0 .. 0 |-> [A \in SUBSET Ends(E, x) |-> A]]
  <2>1. \A k \in 0 .. 0 : k = 0
    OBVIOUS
  <2>2. \A k \in 0 .. 0 : Body(R, k) = [A \in SUBSET Ends(E, x) |-> A]
    BY <2>1
  <2>3. R = [k \in 0 .. 0 |-> Body(R, k)]
    BY <2>2
  <2> HIDE DEF R, Body
  <2>4. QED
    BY <2>3
<1>2. ASSUME NEW m \in T PROVE m + 1 \in T
  <2>1. PICK R : R = [k \in 0 .. m |-> Body(R, k)]
    OBVIOUS
  <2> DEFINE Q == [k \in 0 .. (m + 1) |-> Body(R, k)]
  <2> m \in Nat
    OBVIOUS
  <2> HIDE DEF T
  <2>2. ASSUME NEW k \in 0 .. m PROVE Q[k] = R[k]
    <3>1. k \in 0 .. (m + 1)
      OBVIOUS
    <3>2. Q[k] = Body(R, k)
      BY <3>1
    <3>3. QED
      BY <2>1, <3>2
  <2> HIDE DEF Q
  <2>3. ASSUME NEW k \in 0 .. (m + 1), k # 0 PROVE Q[k - 1] = R[k - 1]
    <3>1. k - 1 \in 0 .. m
      BY <2>3
    <3>2. QED
      BY <2>2, <3>1
  <2>4. ASSUME NEW k \in 0 .. (m + 1) PROVE Body(Q, k) = Body(R, k)
    BY <2>3
  <2>5. Q = [k \in 0 .. (m + 1) |-> Body(Q, k)]
    BY <2>4 DEF Q
  <2> HIDE DEF Body
  <2>6. \E W : W = [k \in 0 .. (m + 1) |-> Body(W, k)]
    BY <2>5
  <2>7. m + 1 \in Nat
    OBVIOUS
  <2>8. QED
    BY <2>6, <2>7 DEF T
<1>3. n \in T
  BY <1>1, <1>2, SetInduction
<1>4. QED
  BY <1>3 DEF Searched

\* What LeastReached returns, by its recursion.
Searches(R, E, x, n) ==
  /\ LeastReached(E, x, n) = Min(R[n][{x}])
  /\ \A k \in 0 .. n, A \in SUBSET Ends(E, x) :
       /\ Neighbours(E, A) = A => R[k][A] = A
       /\ k # 0 /\ Neighbours(E, A) # A => R[k][A] = R[k - 1][Neighbours(E, A)]

\* LeastReached is the least element of the last set that function reaches.
LEMMA LeastReachedSteps ==
  ASSUME NEW E, NEW x, NEW n \in Nat
  PROVE  \E R : Searches(R, E, x, n)
<1> DEFINE Reached[k \in 0 .. n] ==
             [R \in SUBSET Ends(E, x) |->
                LET further == Neighbours(E, R)
                IN  IF k = 0 \/ further = R THEN R ELSE Reached[k - 1][further]]
<1>1. \E R : Searched(R, E, x, n)
  BY ReachedExists
<1>2. Searched(Reached, E, x, n)
  BY <1>1 DEF Searched
<1>3. LeastReached(E, x, n) = Min(Reached[n][{x}])
  BY DEF LeastReached, Ends
<1> HIDE DEF Reached
<1>4. ASSUME NEW k \in 0 .. n, NEW A \in SUBSET Ends(E, x)
      PROVE  Reached[k][A] = IF k = 0 \/ Neighbours(E, A) = A THEN A
                             ELSE Reached[k - 1][Neighbours(E, A)]
  <2>1. Reached[k] = [B \in SUBSET Ends(E, x) |->
                        LET further == Neighbours(E, B)
                        IN  IF k = 0 \/ further = B THEN B ELSE Reached[k - 1][further]]
    BY <1>2 DEF Searched
  <2>2. QED
    BY <2>1
<1>5. QED
  BY <1>3, <1>4 DEF Searches

\* The least element that the search finds is the label of x.
THEOREM LeastReachedIsLabel ==
  ASSUME NEW S \in SUBSET Nat, IsFiniteSet(S), NEW E, NEW r, Joins(r, E, S), NEW x \in S
  PROVE  LeastReached(E, x, Cardinality(S)) = r[x]
<1> DEFINE n == Cardinality(S)
<1>1. n \in Nat
  BY FS_CardinalityType
<1>2. E \subseteq S \X S /\ r \in [S -> S]
  BY DEF Joins
<1> HIDE DEF n
<1>3. PICK R : Searches(R, E, x, n)
  BY <1>1, LeastReachedSteps
<1> DEFINE Closed(A) == Neighbours(E, A) = A
           Good(A) == x \in A /\ A \subseteq S /\ A \subseteq Ends(E, x) /\ \A y \in A : r[y] = r[x]
           Finds(k) == \A A : k <= n /\ Good(A) /\ Cardinality(A) + k > n
                                => Good(R[k][A]) /\ Closed(R[k][A])
           T == {k \in Nat : Finds(k)}
<1>4. ASSUME NEW A, Good(A) PROVE IsFiniteSet(A) /\ Cardinality(A) \in Nat /\ Cardinality(A) <= n
  BY <1>4, FS_Subset, FS_CardinalityType DEF n
<1>5. ASSUME NEW A, Good(A) PROVE Good(Neighbours(E, A)) /\ A \subseteq Neighbours(E, A)
  <2>1. A \subseteq S /\ A \subseteq Ends(E, x) /\ x \in A /\ \A y \in A : r[y] = r[x]
    BY <1>5
  <2>2. \A e \in E : e[1] \in S /\ e[2] \in S /\ r[e[1]] = r[e[2]]
    BY <1>2 DEF Joins, Respects
  <2>3. \A e \in E : e[1] \in Ends(E, x) /\ e[2] \in Ends(E, x)
    BY DEF Ends
  <2>4. ASSUME NEW y \in Neighbours(E, A) PROVE y \in S /\ y \in Ends(E, x) /\ r[y] = r[x]
    <3>1. y \in A \/ (\E e \in E : e[2] \in A /\ y = e[1]) \/ (\E e \in E : e[1] \in A /\ y = e[2])
      BY DEF Neighbours
    <3>2. QED
      BY <2>1, <2>2, <2>3, <3>1
  <2>5. A \subseteq Neighbours(E, A)
    BY DEF Neighbours
  <2>6. QED
    BY <2>1, <2>4, <2>5
<1>6. 0 \in T
  <2>1. \A A : ~ (Good(A) /\ Cardinality(A) + 0 > n)
    BY <1>1, <1>4
  <2> HIDE DEF Good, Closed
  <2>2. QED
    BY <2>1
<1>7. ASSUME NEW k \in T PROVE k + 1 \in T
  <2>1. k \in Nat /\ Finds(k)
    OBVIOUS
  <2> SUFFICES ASSUME NEW A, k + 1 <= n, Good(A), Cardinality(A) + (k + 1) > n
               PROVE  Good(R[k + 1][A]) /\ Closed(R[k + 1][A])
    BY <2>1
  <2> DEFINE B == Neighbours(E, A)
  <2>2. k + 1 \in 0 .. n /\ k + 1 # 0 /\ (k + 1) - 1 = k /\ k <= n
    BY <1>1, <2>1
  <2>3. A \in SUBSET Ends(E, x)
    OBVIOUS
  <2>4. CASE Closed(A)
    <3>1. R[k + 1][A] = A
      BY <1>3, <2>2, <2>3, <2>4 DEF Searches
    <3>2. QED
      BY <2>4, <3>1
  <2>5. CASE ~ Closed(A)
    <3>1. R[k + 1][A] = R[k][B]
      BY <1>3, <2>2, <2>3, <2>5 DEF Searches
    <3>2. Good(B) /\ A \subseteq B
      BY <1>5
    <3>3. PICK y \in B : y \notin A
      BY <2>5, <3>2
    <3> HIDE DEF B, Good
    <3>4. IsFiniteSet(A) /\ IsFiniteSet(B) /\ Cardinality(A) \in Nat /\ Cardinality(B) \in Nat
      BY <1>4, <3>2
    <3>5. Cardinality(A \cup {y}) = Cardinality(A) + 1
      BY <3>3, <3>4, FS_AddElement
    <3>6. Cardinality(A \cup {y}) <= Cardinality(B)
      BY <3>2, <3>3, <3>4, FS_Subset
    <3>7. Cardinality(B) + k > n
      BY <1>1, <2>1, <3>4, <3>5, <3>6
    <3>8. QED
      BY <2>1, <2>2, <3>1, <3>2, <3>7
  <2>6. QED
    BY <2>4, <2>5
<1>8. n \in T
  BY <1>1, <1>6, <1>7, SetInduction
<1> DEFINE A == R[n][{x}]
<1>9. Good(A) /\ Closed(A)
  <2>1. Good({x})
    BY DEF Ends
  <2>2. Cardinality({x}) = 1
    BY FS_Singleton
  <2>3. Cardinality({x}) + n > n
    BY <1>1, <2>2
  <2> HIDE DEF Good, Closed
  <2>4. QED
    BY <1>1, <1>8, <2>1, <2>3
<1> HIDE DEF A, T
<1>10. r[x] \in A
  <2> SUFFICES ASSUME r[x] \notin A PROVE FALSE
    OBVIOUS
  <2> DEFINE f == [y \in S |-> IF y \in A THEN x ELSE r[x]]
  <2>1. r[x] \in S /\ r[x] # x
    BY <1>2, <1>9
  <2>2. f \in [S -> S]
    BY <2>1
  <2>3. ASSUME NEW e \in E PROVE e[1] \in A <=> e[2] \in A
    BY <1>9 DEF Neighbours
  <2>4. Respects(f, E)
    BY <1>2, <2>3 DEF Respects
  <2> HIDE DEF f
  <2>5. f[r[x]] = f[x]
    BY <2>2, <2>4 DEF Joins
  <2>6. f[r[x]] = r[x] /\ f[x] = x
    BY <1>9, <2>1 DEF f
  <2>7. QED
    BY <2>1, <2>5, <2>6
<1>11. ASSUME NEW y \in A PROVE r[x] <= y /\ y \in Nat
  BY <1>9 DEF Joins
<1>12. Min(A) = r[x]
  <2>1. \E m \in A : \A y \in A : m <= y
    BY <1>10, <1>11
  <2>2. Min(A) \in A /\ \A y \in A : Min(A) <= y
    BY <2>1 DEF Min
  <2>3. Min(A) <= r[x] /\ r[x] <= Min(A) /\ Min(A) \in Nat /\ r[x] \in Nat
    BY <1>10, <1>11, <2>2
  <2>4. QED
    BY <2>3
<1>13. QED
  BY <1>3, <1>12 DEF A, n, Searches
=============================================================================
