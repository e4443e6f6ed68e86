-------------------------------- MODULE Sums --------------------------------
(***************************************************************************)
(* Facts about MapThenSumSet over finite sets.  The sum is defined by a    *)
(* recursive function on the subsets of its set, so each fact is proved by *)
(* a smallest counterexample: a nonempty set of subsets of a finite set    *)
(* has a member that includes no other.                                    *)
(***************************************************************************)
EXTENDS Integers, FiniteSetsExt, FiniteSetTheorems, WellFoundedInduction, TLAPS

\* The sum of f[x] for the x of S.
SumOver(f, S) == MapThenSumSet(LAMBDA x : f[x], S)

AnyOf(s) == CHOOSE x \in s : TRUE

\* h[s] is the sum over s, for each subset s of S.
AddsUp(h, f, S) ==
    h = [s \in SUBSET S |->
            IF s = {} THEN 0 ELSE f[AnyOf(s)] + h[s \ {AnyOf(s)}]]

LEMMA AnyOfIn ==
    ASSUME NEW s, s # {}
    PROVE  AnyOf(s) \in s
BY DEF AnyOf

\* What AddsUp says of one subset.
LEMMA AddsUpAt ==
    ASSUME NEW h, NEW f, NEW S, AddsUp(h, f, S), NEW s \in SUBSET S
    PROVE  h[s] = IF s = {} THEN 0 ELSE f[AnyOf(s)] + h[s \ {AnyOf(s)}]
<1> HIDE DEF AnyOf
<1> QED
  BY DEF AddsUp

\* Among subsets of a finite set, one includes no other.
LEMMA Smallest ==
    ASSUME NEW S, IsFiniteSet(S), NEW B, B # {}, \A s \in B : s \subseteq S
    PROVE  \E s \in B : \A r \in B : r \subseteq s => r = s
<1>1. B \subseteq FiniteSubsetsOf(S)
  BY FS_Subset DEF FiniteSubsetsOf
<1>2. PICK s \in B : \A r \in B : ~ (<<r, s>> \in StrictSubsetOrdering(S))
  BY <1>1, FS_StrictSubsetOrderingWellFounded, WFMin
<1>3. ASSUME NEW r \in B, r \subseteq s PROVE r = s
  BY <1>2, <1>3 DEF StrictSubsetOrdering
<1> QED
  BY <1>3

\* The sum over a set does not depend on the set it was computed within.
LEMMA SumsAgree ==
    ASSUME NEW f, NEW S, NEW T, NEW g, NEW h, AddsUp(g, f, S), AddsUp(h, f, T),
           NEW s, s \subseteq S, s \subseteq T, IsFiniteSet(s)
    PROVE  g[s] = h[s]
<1>1. SUFFICES ASSUME g[s] # h[s] PROVE FALSE
  OBVIOUS
<1>2. PICK B : B = {r \in SUBSET s : g[r] # h[r]}
  OBVIOUS
<1>3. B # {} /\ \A r \in B : r \subseteq s
  BY <1>1, <1>2
<1>4. PICK r \in B : \A q \in B : q \subseteq r => q = r
  BY <1>3, Smallest
<1>5. r \subseteq s /\ g[r] # h[r] /\ r \in SUBSET S /\ r \in SUBSET T
  BY <1>2
<1>6. r # {}
  BY <1>5, AddsUpAt
<1>7. AnyOf(r) \in r
  BY <1>6, AnyOfIn
<1>8. g[r \ {AnyOf(r)}] = h[r \ {AnyOf(r)}]
  BY <1>2, <1>4, <1>5, <1>7
<1>9. g[r] = f[AnyOf(r)] + g[r \ {AnyOf(r)}]
  BY <1>5, <1>6, AddsUpAt
<1>10. h[r] = f[AnyOf(r)] + h[r \ {AnyOf(r)}]
  BY <1>5, <1>6, AddsUpAt
<1> QED
  BY <1>5, <1>8, <1>9, <1>10

\* The recursive function exists.
LEMMA SumExists ==
    ASSUME NEW f, NEW S, IsFiniteSet(S)
    PROVE  \E h : AddsUp(h, f, S)
<1>1. SUFFICES ASSUME ~ \E h : AddsUp(h, f, S) PROVE FALSE
  OBVIOUS
<1>2. PICK B : B = {r \in SUBSET S : ~ \E h : AddsUp(h, f, r)}
  OBVIOUS
<1>3. B # {} /\ \A r \in B : r \subseteq S /\ IsFiniteSet(r)
  BY <1>1, <1>2, FS_Subset
<1>4. PICK r \in B : \A q \in B : q \subseteq r => q = r
  BY <1>3, Smallest
<1>5. r \subseteq S /\ IsFiniteSet(r) /\ ~ \E h : AddsUp(h, f, r)
  BY <1>2, <1>3
<1>6. PICK H : H = [q \in SUBSET r |-> CHOOSE h : AddsUp(h, f, q)]
  OBVIOUS
<1>7. \A q \in SUBSET r : q # r => AddsUp(H[q], f, q)
  <2>1. \A q \in SUBSET r : q # r => \E h : AddsUp(h, f, q)
    BY <1>2, <1>4, <1>5
  <2> QED
    BY <1>6, <2>1
<1>8. PICK g : g = [s \in SUBSET r |->
                       IF s = {} THEN 0
                       ELSE f[AnyOf(s)] + H[s \ {AnyOf(s)}][s \ {AnyOf(s)}]]
  OBVIOUS
<1>9. ASSUME NEW s \in SUBSET r, s # r PROVE g[s] = H[s][s]
  <2>1. AddsUp(H[s], f, s)
    BY <1>7, <1>9
  <2>2. CASE s = {}
    BY <1>8, <2>1, <2>2, AddsUpAt
  <2>3. CASE s # {}
    <3>1. PICK t : t = s \ {AnyOf(s)}
      OBVIOUS
    <3>2. t \subseteq s /\ t # r /\ t \in SUBSET r
      BY <1>9, <2>3, <3>1, AnyOfIn
    <3>3. IsFiniteSet(t) /\ AddsUp(H[t], f, t)
      BY <1>5, <1>7, <3>2, FS_Subset
    <3>4. H[s][t] = H[t][t]
      BY <2>1, <3>2, <3>3, SumsAgree
    <3>5. H[s][s] = f[AnyOf(s)] + H[s][t]
      BY <2>1, <2>3, <3>1, AddsUpAt
    <3>6. g[s] = f[AnyOf(s)] + H[t][t]
      BY <1>8, <2>3, <3>1
    <3> QED
      BY <3>4, <3>5, <3>6
  <2> QED
    BY <2>2, <2>3
<1>10. ASSUME NEW s \in SUBSET r, s # {}
       PROVE  g[s] = f[AnyOf(s)] + g[s \ {AnyOf(s)}]
  <2>1. s \ {AnyOf(s)} \in SUBSET r /\ s \ {AnyOf(s)} # r
    BY <1>10, AnyOfIn
  <2>2. g[s \ {AnyOf(s)}] = H[s \ {AnyOf(s)}][s \ {AnyOf(s)}]
    BY <1>9, <2>1
  <2> QED
    BY <1>8, <1>10, <2>2
<1>11. AddsUp(g, f, r)
  <2>1. g[{}] = 0 /\ g = [s \in SUBSET r |-> g[s]]
    BY <1>8
  <2>2. \A s \in SUBSET r :
           g[s] = IF s = {} THEN 0 ELSE f[AnyOf(s)] + g[s \ {AnyOf(s)}]
    BY <1>10, <2>1
  <2> QED
    BY <2>1, <2>2 DEF AddsUp
<1> QED
  BY <1>5, <1>11

\* SumOver is what AddsUp computes.
LEMMA SumIs ==
    ASSUME NEW f, NEW S, IsFiniteSet(S)
    PROVE  \E h : AddsUp(h, f, S) /\ SumOver(f, S) = h[S]
<1>1. \E h : AddsUp(h, f, S)
  BY SumExists
<1> QED
  BY <1>1 DEF SumOver, MapThenSumSet, MapThenFoldSet, AddsUp, AnyOf

LEMMA SumOfAddsUp ==
    ASSUME NEW f, NEW S, IsFiniteSet(S), NEW h, AddsUp(h, f, S)
    PROVE  SumOver(f, S) = h[S]
<1>1. PICK g : AddsUp(g, f, S) /\ SumOver(f, S) = g[S]
  BY SumIs
<1> QED
  BY <1>1, SumsAgree

\* The sum over no elements is 0.
LEMMA SumEmpty ==
    ASSUME NEW f
    PROVE  SumOver(f, {}) = 0
<1>1. PICK h : AddsUp(h, f, {}) /\ SumOver(f, {}) = h[{}]
  BY SumIs, FS_EmptySet
<1> QED
  BY <1>1, AddsUpAt

LEMMA SumStep ==
    ASSUME NEW f, NEW S, IsFiniteSet(S), S # {}
    PROVE  SumOver(f, S) = f[AnyOf(S)] + SumOver(f, S \ {AnyOf(S)})
<1>1. PICK t : t = S \ {AnyOf(S)}
  OBVIOUS
<1>2. t \subseteq S /\ IsFiniteSet(t)
  BY <1>1, FS_Subset
<1>3. PICK g : AddsUp(g, f, S) /\ SumOver(f, S) = g[S]
  BY SumIs
<1>4. PICK h : AddsUp(h, f, t) /\ SumOver(f, t) = h[t]
  BY <1>2, SumIs
<1>5. g[t] = h[t]
  BY <1>2, <1>3, <1>4, SumsAgree
<1>6. g[S] = f[AnyOf(S)] + g[t]
  BY <1>1, <1>3, AddsUpAt
<1> QED
  BY <1>1, <1>3, <1>4, <1>5, <1>6

\* A sum of integers is an integer.
LEMMA SumType ==
    ASSUME NEW f, NEW S, IsFiniteSet(S), \A x \in S : f[x] \in Int
    PROVE  SumOver(f, S) \in Int
<1>1. SUFFICES ASSUME SumOver(f, S) \notin Int PROVE FALSE
  OBVIOUS
<1>2. PICK B : B = {r \in SUBSET S : SumOver(f, r) \notin Int}
  OBVIOUS
<1>3. B # {} /\ \A r \in B : r \subseteq S /\ IsFiniteSet(r)
  BY <1>1, <1>2, FS_Subset
<1>4. PICK r \in B : \A q \in B : q \subseteq r => q = r
  BY <1>3, Smallest
<1>5. r \subseteq S /\ IsFiniteSet(r) /\ SumOver(f, r) \notin Int
  BY <1>2, <1>3
<1>6. r # {}
  BY <1>5, SumEmpty
<1>7. AnyOf(r) \in r /\ r \ {AnyOf(r)} \notin B
  BY <1>4, <1>6, AnyOfIn
<1>8. SumOver(f, r \ {AnyOf(r)}) \in Int /\ f[AnyOf(r)] \in Int
  BY <1>2, <1>5, <1>7
<1> QED
  BY <1>5, <1>6, <1>8, SumStep

\* Any element may be taken out of the sum.
LEMMA SumRemove ==
    ASSUME NEW f, NEW S, IsFiniteSet(S), \A x \in S : f[x] \in Int
    PROVE  \A x \in S : SumOver(f, S) = f[x] + SumOver(f, S \ {x})
<1>1. SUFFICES ASSUME ~ \A x \in S : SumOver(f, S) = f[x] + SumOver(f, S \ {x})
               PROVE  FALSE
  OBVIOUS
<1>2. PICK B : B = {r \in SUBSET S :
                      ~ \A x \in r : SumOver(f, r) = f[x] + SumOver(f, r \ {x})}
  OBVIOUS
<1>3. B # {} /\ \A r \in B : r \subseteq S /\ IsFiniteSet(r)
  BY <1>1, <1>2, FS_Subset
<1>4. PICK r \in B : \A q \in B : q \subseteq r => q = r
  BY <1>3, Smallest
<1>5. r \subseteq S /\ IsFiniteSet(r)
  BY <1>2, <1>3
<1>6. PICK x \in r : SumOver(f, r) # f[x] + SumOver(f, r \ {x})
  BY <1>2
<1>7. PICK y \in r : SumOver(f, r) = f[y] + SumOver(f, r \ {y})
  BY <1>5, <1>6, AnyOfIn, SumStep
<1>8. x # y
  BY <1>6, <1>7
<1>9. r \ {y} \notin B /\ r \ {y} \in SUBSET S /\ x \in r \ {y}
  BY <1>4, <1>5, <1>8
<1>10. r \ {x} \notin B /\ r \ {x} \in SUBSET S /\ y \in r \ {x}
  BY <1>4, <1>5, <1>8
<1>11. PICK q : q = (r \ {y}) \ {x} /\ q = (r \ {x}) \ {y}
  OBVIOUS
<1>12. SumOver(f, r \ {y}) = f[x] + SumOver(f, q)
  BY <1>2, <1>9, <1>11
<1>13. SumOver(f, r \ {x}) = f[y] + SumOver(f, q)
  BY <1>2, <1>10, <1>11
<1>14. SumOver(f, q) \in Int /\ f[x] \in Int /\ f[y] \in Int
  <2>1. q \subseteq S /\ IsFiniteSet(q)
    BY <1>5, <1>11, FS_Subset
  <2> QED
    BY <1>5, <2>1, SumType
<1> QED
  BY <1>6, <1>7, <1>12, <1>13, <1>14

\* Adding an element adds its term.
LEMMA SumAdd ==
    ASSUME NEW f, NEW S, IsFiniteSet(S), NEW x, x \notin S,
           \A y \in S \cup {x} : f[y] \in Int
    PROVE  SumOver(f, S \cup {x}) = SumOver(f, S) + f[x]
<1>1. IsFiniteSet(S \cup {x}) /\ (S \cup {x}) \ {x} = S
  BY FS_AddElement
<1>2. SumOver(f, S \cup {x}) = f[x] + SumOver(f, S)
  BY <1>1, SumRemove
<1> QED
  BY <1>2, SumType

\* Functions that agree on the set have the same sum.
LEMMA SumSame ==
    ASSUME NEW f, NEW g, NEW S, IsFiniteSet(S), \A x \in S : f[x] = g[x]
    PROVE  SumOver(f, S) = SumOver(g, S)
<1>1. PICK h : AddsUp(h, g, S) /\ SumOver(g, S) = h[S]
  BY SumIs
<1>2. AddsUp(h, f, S)
  <2>1. h = [s \in SUBSET S |-> h[s]]
    BY <1>1 DEF AddsUp
  <2>2. \A s \in SUBSET S : s # {} => f[AnyOf(s)] = g[AnyOf(s)]
    BY AnyOfIn
  <2>3. \A s \in SUBSET S :
           h[s] = IF s = {} THEN 0 ELSE f[AnyOf(s)] + h[s \ {AnyOf(s)}]
    BY <1>1, <2>2, AddsUpAt
  <2> QED
    BY <2>1, <2>3 DEF AddsUp
<1> QED
  BY <1>1, <1>2, SumOfAddsUp
=============================================================================
