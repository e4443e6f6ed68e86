--------------------------- MODULE CategoryProofs ---------------------------
(***************************************************************************)
(* For any number of categories, creations and administrators: without two *)
(* moves that overlap no cycle is ever closed, and only a move that would  *)
(* close one is refused as circular.                                       *)
(***************************************************************************)
EXTENDS Categories, TLAPS

LEMMA Sorts ==
    /\ Creations \subseteq Requests /\ Moves \subseteq Requests
    /\ Creations \subseteq Ids /\ Existing \subseteq Ids
    /\ Creations \cap Moves = {} /\ Existing \cap Creations = {}
    /\ None \notin Ids /\ Requests = Creations \cup Moves
BY RequestsAssumption, NoneAssumption DEF Requests, Ids

\* Pointing one category at a new parent keeps the forest, if the parents of
\* the categories above the new parent stay among them and lead past it.
LEMMA MoveKeepsForest ==
    ASSUME NEW ids, NEW f, NEW g, NEW c \in ids, NEW p, NEW V,
           None \notin ids, IsForest(ids, f), V \subseteq ids,
           g[c] = p, \A x \in ids \ {c} : g[x] = f[x],
           p = None \/ (p \in V /\ c \notin V /\ \A v \in V : f[v] \in V \cup {None})
    PROVE  IsForest(ids, g)
<1> SUFFICES ASSUME NEW S \in SUBSET ids, S # {}, \A x \in S : g[x] \in S
             PROVE  FALSE
  BY DEF IsForest
<1>1. None \notin S
  OBVIOUS
<1>2. CASE c \notin S
  <2>1. \A x \in S : f[x] \in S
    BY <1>2
  <2> QED
    BY <2>1 DEF IsForest
<1>3. CASE c \in S
  <2>1. p \in S \cap V /\ c \notin V /\ \A v \in V : f[v] \in V \cup {None}
    BY <1>1, <1>3
  <2>2. \A x \in S \cap V : f[x] \in S \cap V
    BY <1>1, <2>1
  <2>3. S \cap V \in SUBSET ids /\ S \cap V # {}
    BY <2>1
  <2> QED
    BY <2>2, <2>3 DEF IsForest
<1> QED
  BY <1>2, <1>3

\* A new category under one that is there, or under none, keeps the forest.
LEMMA InsertKeepsForest ==
    ASSUME NEW ids, NEW f, NEW g, NEW c, c \notin ids, c # None, IsForest(ids, f),
           \A x \in ids : g[x] = f[x] /\ f[x] \in ids \cup {None},
           g[c] \in ids \cup {None}, None \notin ids
    PROVE  IsForest(ids \cup {c}, g)
<1> SUFFICES ASSUME NEW S \in SUBSET (ids \cup {c}), S # {}, \A x \in S : g[x] \in S
             PROVE  FALSE
  BY DEF IsForest
<1>1. PICK T : T = S \ {c}
  OBVIOUS
<1>2. None \notin S
  OBVIOUS
<1>3. \A x \in T : f[x] \in T
  BY <1>1, <1>2
<1>4. T \in SUBSET ids
  BY <1>1
<1>5. T # {}
  <2>1. CASE c \in S
    BY <1>1, <1>2, <2>1
  <2>2. CASE c \notin S
    BY <1>1, <2>2
  <2> QED
    BY <2>1, <2>2
<1> QED
  BY <1>3, <1>4, <1>5 DEF IsForest

----------------------------------------------------------------------------
LEMMA InitInv == Init => CategoriesInv
<1> SUFFICES ASSUME Init PROVE CategoriesInv
  OBVIOUS
<1>1. PICK f \in [Existing -> Existing \cup {None}] :
          /\ IsForest(Existing, f)
          /\ parent = [c \in Ids |-> IF c \in Existing THEN f[c] ELSE None]
  BY DEF Init
<1>2. \A c \in Existing : parent[c] = f[c]
  BY <1>1, Sorts
<1>3. TypeOK
  BY <1>1, <1>2, Sorts DEF Init, TypeOK
<1>4. Forest
  BY <1>1, <1>2 DEF Init, Forest, IsForest
<1>5. CreationsSound
  BY Sorts DEF Init, CreationsSound
<1>6. MovesSound
  BY Sorts DEF Init, MovesSound, Open, Parents
<1>7. AloneSound
  BY Sorts DEF Init, AloneSound, Open
<1> QED
  BY <1>3, <1>4, <1>5, <1>6, <1>7 DEF CategoriesInv, CycleNeedsRace

\* What the end of a request changes.
LEMMA FinishFacts ==
    ASSUME TypeOK, NEW r \in Requests, NEW a, Finish(r, a),
           a \in {"none", "2xx", "4xx", "circular", "5xx"}
    PROVE  /\ pc' \in [Requests -> {"new", "insert", "find parent", "walk", "write",
                                    "done"}]
           /\ answer' \in [Requests -> {"none", "2xx", "4xx", "circular", "5xx"}]
           /\ moved' \in [Requests -> Ids \cup {None}]
           /\ wanted' \in [Requests -> Ids \cup {None}]
           /\ current' \in [Requests -> Ids \cup {None}]
           /\ visited' \in [Requests -> SUBSET Ids]
           /\ pc'[r] = (IF r \in Moves THEN "new" ELSE "done")
           /\ answer'[r] = a /\ moved'[r] = None /\ wanted'[r] = None
           /\ current'[r] = None /\ visited'[r] = {}
           /\ \A q \in Requests \ {r} :
                 /\ pc'[q] = pc[q] /\ answer'[q] = answer[q]
                 /\ moved'[q] = moved[q] /\ wanted'[q] = wanted[q]
                 /\ current'[q] = current[q] /\ visited'[q] = visited[q]
<1> USE DEF Finish, TypeOK
<1>1. pc' \in [Requests -> {"new", "insert", "find parent", "walk", "write", "done"}]
      /\ pc'[r] = (IF r \in Moves THEN "new" ELSE "done")
  OBVIOUS
<1>2. answer' \in [Requests -> {"none", "2xx", "4xx", "circular", "5xx"}]
      /\ answer'[r] = a
  OBVIOUS
<1>3. moved' \in [Requests -> Ids \cup {None}] /\ moved'[r] = None
  OBVIOUS
<1>4. wanted' \in [Requests -> Ids \cup {None}] /\ wanted'[r] = None
  OBVIOUS
<1>5. current' \in [Requests -> Ids \cup {None}] /\ current'[r] = None
  OBVIOUS
<1>6. visited' \in [Requests -> SUBSET Ids] /\ visited'[r] = {}
  OBVIOUS
<1>7. \A q \in Requests \ {r} :
          /\ pc'[q] = pc[q] /\ answer'[q] = answer[q]
          /\ moved'[q] = moved[q] /\ wanted'[q] = wanted[q]
          /\ current'[q] = current[q] /\ visited'[q] = visited[q]
  OBVIOUS
<1> QED
  BY <1>1, <1>2, <1>3, <1>4, <1>5, <1>6, <1>7

\* What a climb knows stays while nobody writes what it has visited.
LEMMA ClimbedKept ==
    ASSUME NEW m, NEW c, Climbed(m, c), wanted'[m] = wanted[m],
           moved'[m] = moved[m], visited'[m] = visited[m],
           \A v \in visited[m] : parent'[v] = parent[v]
    PROVE  Climbed(m, c)'
BY DEF Climbed

\* A request that fails.
LEMMA FailInv ==
    ASSUME CategoriesInv, NEW r \in Requests, Fail(r, "4xx") \/ Fail(r, "circular")
                                                  \/ Fail(r, "5xx")
    PROVE  CategoriesInv'
<1> USE DEF CategoriesInv
<1>1. PICK a \in {"4xx", "circular", "5xx"} : Finish(r, a) /\ UNCHANGED tree
  BY DEF Fail
<1>2. /\ UNCHANGED <<categories, parent, overlapped>>
      /\ a \in {"none", "2xx", "4xx", "circular", "5xx"}
  BY <1>1 DEF tree
<1>3. TypeOK'
  BY <1>1, <1>2, FinishFacts DEF TypeOK
<1>4. /\ pc'[r] = (IF r \in Moves THEN "new" ELSE "done")
      /\ moved'[r] = None /\ wanted'[r] = None
      /\ current'[r] = None /\ visited'[r] = {}
      /\ \A q \in Requests \ {r} :
            /\ pc'[q] = pc[q] /\ moved'[q] = moved[q] /\ wanted'[q] = wanted[q]
            /\ current'[q] = current[q] /\ visited'[q] = visited[q]
  BY <1>1, <1>2, FinishFacts
<1>5. CreationsSound'
  BY <1>2, <1>4, Sorts DEF CreationsSound, Parents
<1>6. MovesSound'
  BY <1>2, <1>4, Sorts DEF MovesSound, Parents, Open
<1>7. CycleNeedsRace'
  BY <1>2 DEF CycleNeedsRace, Forest, IsForest
<1>8. overlapped \/ AloneSound'
  <2> SUFFICES ASSUME ~overlapped PROVE AloneSound'
    OBVIOUS
  <2>1. \A m, n \in Moves : pc'[m] \notin {"new", "done"} /\ pc'[n] \notin {"new", "done"}
            => m = n
    BY <1>4, Sorts DEF AloneSound, Open
  <2>2. ASSUME NEW m \in Moves
        PROVE  /\ pc'[m] = "walk" => Climbed(m, current[m])'
               /\ pc'[m] = "write" => wanted'[m] = None \/ Climbed(m, None)'
    <3>1. CASE m = r
      BY <1>4, <3>1
    <3>2. CASE m # r
      BY <1>2, <1>4, <3>2, Sorts DEF AloneSound, Climbed
    <3> QED
      BY <3>1, <3>2
  <2> QED
    BY <2>1, <2>2 DEF AloneSound, Open
<1> QED
  BY <1>2, <1>3, <1>5, <1>6, <1>7, <1>8

----------------------------------------------------------------------------
\* create
LEMMA CheckParentInv ==
    ASSUME CategoriesInv, NEW r \in Creations, CheckParent(r)
    PROVE  CategoriesInv'
<1> USE DEF CategoriesInv
<1>1. CASE Fail(r, "4xx")
  BY <1>1, FailInv, Sorts
<1>2. ASSUME NEW p \in Parents, AskParent(r, p), Goto(r, "insert"),
             UNCHANGED <<tree, moved, current, visited>>
      PROVE  CategoriesInv'
  <2>1. /\ wanted' = [wanted EXCEPT ![r] = p] /\ pc' = [pc EXCEPT ![r] = "insert"]
        /\ answer' = [answer EXCEPT ![r] = "none"]
        /\ UNCHANGED <<categories, parent, overlapped, moved, current, visited>>
        /\ pc[r] = "new"
    BY <1>2 DEF AskParent, Goto, tree, CheckParent
  <2>2. p \in Ids \cup {None}
    BY DEF Parents, TypeOK
  <2>3. TypeOK'
    BY <2>1, <2>2 DEF TypeOK
  <2>4. /\ pc'[r] = "insert" /\ wanted'[r] = p
        /\ \A q \in Requests \ {r} : pc'[q] = pc[q] /\ wanted'[q] = wanted[q]
    BY <2>1, Sorts DEF TypeOK
  <2>5. CreationsSound'
    BY <2>1, <2>4, Sorts DEF CreationsSound, Parents
  <2>6. MovesSound'
    BY <2>1, <2>4, Sorts DEF MovesSound, Parents, Open
  <2>7. CycleNeedsRace'
    BY <2>1 DEF CycleNeedsRace, Forest, IsForest
  <2>8. AloneSound => AloneSound'
    BY <2>1, <2>4, Sorts DEF AloneSound, Climbed, Open
  <2> QED
    BY <2>1, <2>3, <2>5, <2>6, <2>7, <2>8
<1> QED
  BY <1>1, <1>2 DEF CheckParent

LEMMA InsertInv ==
    ASSUME CategoriesInv, NEW r \in Creations, Insert(r)
    PROVE  CategoriesInv'
<1> USE DEF CategoriesInv
<1>1. CASE Fail(r, "4xx")
  BY <1>1, FailInv, Sorts
<1>2. CASE /\ categories' = categories \cup {r}
           /\ parent' = [parent EXCEPT ![r] = wanted[r]]
           /\ Finish(r, "2xx")
           /\ UNCHANGED overlapped
  <2>1. pc[r] = "insert" /\ r \notin categories /\ wanted[r] \in categories \cup {None}
    BY DEF Insert, CreationsSound, Parents
  <2>2. /\ pc'[r] = "done" /\ moved'[r] = None /\ wanted'[r] = None
        /\ current'[r] = None /\ visited'[r] = {}
        /\ \A q \in Requests \ {r} :
              /\ pc'[q] = pc[q] /\ moved'[q] = moved[q] /\ wanted'[q] = wanted[q]
              /\ current'[q] = current[q] /\ visited'[q] = visited[q]
    <3>1. r \in Requests /\ r \notin Moves
      BY Sorts
    <3>2. "2xx" \in {"none", "2xx", "4xx", "circular", "5xx"}
      OBVIOUS
    <3> QED
      BY <1>2, <3>1, <3>2, FinishFacts
  <2>3. /\ parent' \in [Ids -> Ids \cup {None}] /\ parent'[r] = wanted[r]
        /\ \A c \in categories : parent'[c] = parent[c]
        /\ \A c \in categories' : parent'[c] \in categories' \cup {None}
    BY <1>2, <2>1, Sorts DEF TypeOK
  <2>4. TypeOK'
    <3>1. r \in Requests /\ r \in Ids
      BY Sorts
    <3>2. /\ pc' \in [Requests -> {"new", "insert", "find parent", "walk", "write",
                                   "done"}]
          /\ answer' \in [Requests -> {"none", "2xx", "4xx", "circular", "5xx"}]
          /\ moved' \in [Requests -> Ids \cup {None}]
          /\ wanted' \in [Requests -> Ids \cup {None}]
          /\ current' \in [Requests -> Ids \cup {None}]
          /\ visited' \in [Requests -> SUBSET Ids]
      BY <1>2, <3>1, FinishFacts
    <3> QED
      BY <1>2, <2>3, <3>1, <3>2 DEF TypeOK
  <2>5. CreationsSound'
    BY <1>2, <2>2, Sorts DEF CreationsSound, Parents
  <2>6. MovesSound'
    BY <1>2, <2>2, Sorts DEF MovesSound, Parents, Open
  <2>7. CycleNeedsRace'
    <3>1. Forest => IsForest(categories \cup {r}, parent')
      <4>1. \A c \in categories : parent'[c] = parent[c] /\ parent[c] \in categories \cup {None}
        BY <2>3 DEF TypeOK
      <4>2. None \notin categories /\ r # None
        BY Sorts DEF TypeOK
      <4> QED
        BY <2>1, <2>3, <4>1, <4>2, InsertKeepsForest DEF Forest
    <3>2. Forest => Forest'
      BY <1>2, <3>1 DEF Forest, IsForest
    <3> QED
      BY <1>2, <3>2 DEF CycleNeedsRace
  <2>8. overlapped \/ AloneSound'
    <3> SUFFICES ASSUME ~overlapped PROVE AloneSound'
      OBVIOUS
    <3>1. \A m \in Moves : \A v \in visited[m] : parent'[v] = parent[v]
      BY <2>3 DEF MovesSound
    <3>2. \A m \in Moves : \A c : Climbed(m, c) => Climbed(m, c)'
      BY <2>2, <3>1, Sorts, ClimbedKept
    <3>3. ASSUME NEW m \in Moves
          PROVE  /\ pc'[m] = "walk" => Climbed(m, current[m])'
                 /\ pc'[m] = "write" => wanted'[m] = None \/ Climbed(m, None)'
      <4>1. /\ pc'[m] = pc[m] /\ wanted'[m] = wanted[m] /\ current'[m] = current[m]
        BY <2>2, Sorts
      <4>2. pc[m] = "walk" => Climbed(m, current[m])'
        BY <2>2, <3>1, Sorts DEF AloneSound, Climbed
      <4> QED
        BY <3>2, <4>1, <4>2 DEF AloneSound
    <3>4. \A m, n \in Moves : Open(m)' /\ Open(n)' => m = n
      BY <2>2, Sorts DEF AloneSound, Open
    <3> QED
      BY <3>3, <3>4 DEF AloneSound
  <2> QED
    BY <1>2, <2>4, <2>5, <2>6, <2>7, <2>8
<1> QED
  BY <1>1, <1>2 DEF Insert

----------------------------------------------------------------------------
\* update

\* A step of move m that writes no row.
LEMMA MoveInv ==
    ASSUME CategoriesInv, TypeOK', NEW m \in Moves, UNCHANGED <<categories, parent>>,
           overlapped => overlapped',
           ~overlapped' => \A n \in Moves \ {m} : ~Open(n),
           pc'[m] \in {"find parent", "walk", "write"},
           moved'[m] \in categories, wanted'[m] \in Parents, current'[m] \in Parents,
           visited'[m] \subseteq categories,
           pc'[m] = "find parent" => visited'[m] = {},
           ~overlapped' /\ pc'[m] = "walk" => Climbed(m, current[m])',
           ~overlapped' /\ pc'[m] = "write" => wanted'[m] = None \/ Climbed(m, None)',
           \A q \in Requests \ {m} :
               /\ pc'[q] = pc[q] /\ moved'[q] = moved[q] /\ wanted'[q] = wanted[q]
               /\ current'[q] = current[q] /\ visited'[q] = visited[q]
    PROVE  CategoriesInv'
<1> USE DEF CategoriesInv
<1>1. CreationsSound'
  BY Sorts DEF CreationsSound, Parents
<1>2. MovesSound'
  BY Sorts DEF MovesSound, Parents, Open
<1>3. CycleNeedsRace'
  BY DEF CycleNeedsRace, Forest, IsForest
<1>4. overlapped' \/ AloneSound'
  <2> SUFFICES ASSUME ~overlapped' PROVE AloneSound'
    OBVIOUS
  <2>1. \A n \in Moves \ {m} : pc'[n] = "new"
    BY Sorts DEF MovesSound, Open
  <2>2. ASSUME NEW n \in Moves
        PROVE  /\ pc'[n] = "walk" => Climbed(n, current[n])'
               /\ pc'[n] = "write" => wanted'[n] = None \/ Climbed(n, None)'
    BY <2>1
  <2> QED
    BY <2>1, <2>2 DEF AloneSound, Open
<1> QED
  BY <1>1, <1>2, <1>3, <1>4

LEMMA FindCategoryInv ==
    ASSUME CategoriesInv, NEW m \in Moves, FindCategory(m)
    PROVE  CategoriesInv'
<1>1. CASE Fail(m, "4xx")
  BY <1>1, FailInv, Sorts
<1>2. ASSUME NEW c \in categories, NEW p \in Parents,
             moved' = [moved EXCEPT ![m] = c], AskParent(m, p),
             Goto(m, IF p = None THEN "write" ELSE "find parent"),
             overlapped' = (overlapped \/ \E n \in Moves \ {m} : Open(n)),
             UNCHANGED <<categories, parent, current, visited>>
      PROVE  CategoriesInv'
  <2> USE DEF CategoriesInv
  <2>1. /\ wanted' = [wanted EXCEPT ![m] = p]
        /\ pc' = [pc EXCEPT ![m] = IF p = None THEN "write" ELSE "find parent"]
        /\ answer' = [answer EXCEPT ![m] = "none"] /\ pc[m] = "new" /\ m \in Requests
    BY <1>2, Sorts DEF AskParent, Goto, FindCategory
  <2>2. c \in Ids /\ p \in Ids \cup {None}
    BY DEF Parents, TypeOK
  <2>3. TypeOK'
    BY <1>2, <2>1, <2>2 DEF TypeOK
  <2>4. /\ pc'[m] = (IF p = None THEN "write" ELSE "find parent")
        /\ moved'[m] = c /\ wanted'[m] = p
        /\ \A q \in Requests \ {m} :
              /\ pc'[q] = pc[q] /\ moved'[q] = moved[q] /\ wanted'[q] = wanted[q]
              /\ current'[q] = current[q] /\ visited'[q] = visited[q]
    BY <1>2, <2>1 DEF TypeOK
  <2>5. visited'[m] = {} /\ current'[m] \in Parents
    BY <1>2, <2>1 DEF MovesSound
  <2>6. ~overlapped' => \A n \in Moves \ {m} : ~Open(n)
    BY <1>2
  <2> HIDE DEF CategoriesInv
  <2> QED
    BY <1>2, <2>3, <2>4, <2>5, <2>6, MoveInv
<1> QED
  BY <1>1, <1>2 DEF FindCategory

LEMMA FindParentInv ==
    ASSUME CategoriesInv, NEW m \in Moves, FindParent(m)
    PROVE  CategoriesInv'
<1>1. CASE Fail(m, "4xx")
  BY <1>1, FailInv, Sorts
<1>2. CASE ~Fail(m, "4xx")
  <2> USE DEF CategoriesInv
  <2>1. /\ current' = [current EXCEPT ![m] = wanted[m]]
        /\ pc' = [pc EXCEPT ![m] = "walk"] /\ answer' = [answer EXCEPT ![m] = "none"]
        /\ UNCHANGED <<categories, parent, overlapped, moved, wanted, visited>>
        /\ pc[m] = "find parent" /\ m \in Requests
    BY <1>2, Sorts DEF FindParent, Goto, tree
  <2>2. TypeOK'
    BY <2>1 DEF TypeOK
  <2>3. /\ pc'[m] = "walk" /\ current'[m] = wanted[m]
        /\ \A q \in Requests \ {m} : pc'[q] = pc[q] /\ current'[q] = current[q]
    BY <2>1 DEF TypeOK
  <2>4. /\ moved[m] \in categories /\ wanted[m] \in Parents /\ visited[m] = {}
    BY <2>1 DEF MovesSound, Open
  <2>5. Climbed(m, current[m])'
    BY <2>1, <2>3, <2>4 DEF Climbed
  <2>6. ~overlapped' => \A n \in Moves \ {m} : ~Open(n)
    BY <2>1 DEF AloneSound, Open
  <2> HIDE DEF CategoriesInv
  <2> QED
    BY <2>1, <2>2, <2>3, <2>4, <2>5, <2>6, MoveInv
<1> QED
  BY <1>1, <1>2

LEMMA WalkInv ==
    ASSUME CategoriesInv, NEW m \in Moves, Walk(m)
    PROVE  CategoriesInv'
<1> USE DEF CategoriesInv
<1>1. pc[m] = "walk" /\ m \in Requests
  BY Sorts DEF Walk
<1>2. /\ moved[m] \in categories /\ wanted[m] \in Parents /\ current[m] \in Parents
      /\ visited[m] \subseteq categories
  BY <1>1 DEF MovesSound, Open
<1>3. ~overlapped => /\ Climbed(m, current[m])
                     /\ \A n \in Moves \ {m} : ~Open(n)
  BY <1>1 DEF AloneSound, Open
<1>4. CASE /\ current[m] = None \/ Seen(m)
           /\ Goto(m, "write") /\ UNCHANGED <<tree, locals>>
  <2>1. /\ pc' = [pc EXCEPT ![m] = "write"] /\ answer' = [answer EXCEPT ![m] = "none"]
        /\ UNCHANGED <<categories, parent, overlapped, moved, wanted, current, visited>>
    BY <1>4 DEF Goto, tree, locals
  <2>2. TypeOK'
    BY <1>1, <2>1 DEF TypeOK
  <2>3. pc'[m] = "write" /\ \A q \in Requests \ {m} : pc'[q] = pc[q]
    BY <1>1, <2>1 DEF TypeOK
  <2>4. ~overlapped => Climbed(m, None)'
    BY <1>3, <1>4, <2>1 DEF Climbed, Seen
  <2> HIDE DEF CategoriesInv
  <2> QED
    BY <1>2, <1>3, <2>1, <2>2, <2>3, <2>4, MoveInv DEF Parents
<1>5. CASE Fail(m, "circular")
  BY <1>1, <1>5, FailInv
<1>6. CASE /\ current[m] # None /\ ~IsAncestor(m) /\ ~Seen(m)
           /\ visited' = [visited EXCEPT ![m] = @ \cup {current[m]}]
           /\ current' = [current EXCEPT ![m] = parent[current[m]]]
           /\ Goto(m, "walk")
           /\ UNCHANGED <<tree, moved, wanted>>
  <2>1. /\ pc' = [pc EXCEPT ![m] = "walk"] /\ answer' = [answer EXCEPT ![m] = "none"]
        /\ UNCHANGED <<categories, parent, overlapped, moved, wanted>>
    BY <1>6 DEF Goto, tree
  <2>2. current[m] \in categories /\ current[m] \in Ids /\ parent[current[m]] \in Parents
        /\ parent[current[m]] \in Ids \cup {None}
    BY <1>2, <1>6 DEF Parents, TypeOK
  <2>3. /\ pc'[m] = "walk" /\ current'[m] = parent[current[m]]
        /\ visited'[m] = visited[m] \cup {current[m]}
        /\ \A q \in Requests \ {m} : /\ pc'[q] = pc[q] /\ current'[q] = current[q]
                                     /\ visited'[q] = visited[q]
    BY <1>1, <1>6, <2>1 DEF TypeOK
  <2>4. TypeOK'
    <3>1. /\ visited' \in [Requests -> SUBSET Ids]
          /\ current' \in [Requests -> Ids \cup {None}]
      BY <1>1, <1>6, <2>2 DEF TypeOK
    <3> QED
      BY <1>1, <2>1, <3>1 DEF TypeOK
  <2>5. ~overlapped => Climbed(m, current[m])'
    BY <1>3, <1>6, <2>1, <2>3 DEF Climbed, IsAncestor
  <2> HIDE DEF CategoriesInv
  <2> QED
    BY <1>2, <1>3, <2>1, <2>2, <2>3, <2>4, <2>5, MoveInv DEF Parents
<1> QED
  BY <1>4, <1>5, <1>6 DEF Walk

LEMMA WriteInv ==
    ASSUME CategoriesInv, NEW m \in Moves, Write(m)
    PROVE  CategoriesInv'
<1> USE DEF CategoriesInv
<1>1. CASE Fail(m, "4xx")
  BY <1>1, FailInv, Sorts
<1>2. CASE /\ parent' = [parent EXCEPT ![moved[m]] = wanted[m]]
           /\ Finish(m, "2xx")
           /\ UNCHANGED <<categories, overlapped>>
  <2>1. /\ pc[m] = "write" /\ m \in Requests /\ moved[m] \in categories
        /\ wanted[m] \in categories \cup {None} /\ visited[m] \subseteq categories
    BY Sorts DEF Write, MovesSound, Open, Parents
  <2>2. /\ pc'[m] = "new" /\ moved'[m] = None /\ wanted'[m] = None
        /\ current'[m] = None /\ visited'[m] = {}
        /\ \A q \in Requests \ {m} :
              /\ pc'[q] = pc[q] /\ moved'[q] = moved[q] /\ wanted'[q] = wanted[q]
              /\ current'[q] = current[q] /\ visited'[q] = visited[q]
    BY <1>2, <2>1, FinishFacts
  <2>3. /\ parent' \in [Ids -> Ids \cup {None}] /\ parent'[moved[m]] = wanted[m]
        /\ \A c \in categories \ {moved[m]} : parent'[c] = parent[c]
    BY <1>2, <2>1 DEF TypeOK
  <2>4. TypeOK'
    <3>1. \A c \in categories : parent'[c] \in categories \cup {None}
      BY <2>1, <2>3 DEF TypeOK
    <3> QED
      BY <1>2, <2>1, <2>3, <3>1, FinishFacts DEF TypeOK
  <2>5. CreationsSound'
    BY <1>2, <2>2, Sorts DEF CreationsSound, Parents
  <2>6. MovesSound'
    BY <1>2, <2>2, Sorts DEF MovesSound, Parents, Open
  <2>7. CycleNeedsRace'
    <3>1. ASSUME ~overlapped PROVE IsForest(categories, parent')
      <4>1. /\ IsForest(categories, parent) /\ None \notin categories
            /\ wanted[m] = None \/ Climbed(m, None)
        BY <2>1, <3>1, Sorts DEF CycleNeedsRace, Forest, AloneSound, TypeOK
      <4>2. \/ wanted[m] = None
            \/ /\ wanted[m] \in visited[m] /\ moved[m] \notin visited[m]
               /\ \A v \in visited[m] : parent[v] \in visited[m] \cup {None}
        BY <4>1 DEF Climbed
      <4> QED
        BY <2>1, <2>3, <4>1, <4>2, MoveKeepsForest
    <3> QED
      BY <1>2, <3>1 DEF CycleNeedsRace, Forest, IsForest
  <2>8. overlapped \/ AloneSound'
    <3> SUFFICES ASSUME ~overlapped PROVE AloneSound'
      OBVIOUS
    <3>1. \A n \in Moves : pc'[n] = "new"
      BY <2>1, <2>2, Sorts DEF AloneSound, Open, MovesSound
    <3> QED
      BY <3>1 DEF AloneSound, Open
  <2> QED
    BY <1>2, <2>4, <2>5, <2>6, <2>7, <2>8
<1> QED
  BY <1>1, <1>2 DEF Write

----------------------------------------------------------------------------
LEMMA NextInv == CategoriesInv /\ [Next]_vars => CategoriesInv'
<1> SUFFICES ASSUME CategoriesInv, [Next]_vars PROVE CategoriesInv'
  OBVIOUS
<1>1. ASSUME NEW r \in Requests, Step(r) \/ Interrupt(r) PROVE CategoriesInv'
  <2>1. CASE r \in Creations /\ Create(r)
    BY <2>1, CheckParentInv, InsertInv DEF Create
  <2>2. CASE r \in Moves /\ Update(r)
    BY <2>2, FindCategoryInv, FindParentInv, WalkInv, WriteInv DEF Update
  <2>3. CASE Interrupt(r)
    BY <1>1, <2>3, FailInv DEF Interrupt
  <2> QED
    BY <1>1, <2>1, <2>2, <2>3 DEF Step
<1>2. CASE UNCHANGED vars
  <2>1. UNCHANGED <<categories, parent, overlapped, pc, answer, moved, wanted, current,
                    visited>>
    BY <1>2 DEF vars, tree, locals
  <2>2. TypeOK' /\ CreationsSound' /\ MovesSound' /\ CycleNeedsRace'
    BY <2>1 DEF CategoriesInv, TypeOK, CreationsSound, MovesSound, Open, Parents,
       CycleNeedsRace, Forest, IsForest
  <2>3. AloneSound => AloneSound'
    BY <2>1 DEF AloneSound, Open, Climbed
  <2> QED
    BY <2>1, <2>2, <2>3 DEF CategoriesInv
<1> QED
  BY <1>1, <1>2 DEF Next

\* The strengthened invariant holds of every reachable state.
THEOREM CategoriesInvariant == Spec => []CategoriesInv
<1> QED
  BY InitInv, NextInv, PTL DEF Spec

\* Categories form a forest for as long as no two moves have overlapped.
THEOREM NoCycleAlone == Spec => []CycleNeedsRace
<1>1. CategoriesInv => CycleNeedsRace
  BY DEF CategoriesInv
<1> QED
  BY <1>1, CategoriesInvariant, PTL

\* A move is refused as circular only when it would close a cycle, unless moves
\* have overlapped: the walk from the wanted parent then ends at the category
\* that is moved.
THEOREM RefusalIsJust == Spec => RefusedIsCircular
<1> DEFINE Just == \A r \in Moves :
               ~overlapped /\ answer[r] # "circular" /\ answer'[r] = "circular" =>
                   ~IsForest(categories, [parent EXCEPT ![moved[r]] = wanted[r]])
<1>1. CategoriesInv /\ [Next]_vars => [Just]_vars
  <2> SUFFICES ASSUME CategoriesInv, Next, NEW m \in Moves, ~overlapped,
                      answer[m] # "circular", answer'[m] = "circular"
               PROVE  ~IsForest(categories, [parent EXCEPT ![moved[m]] = wanted[m]])
    OBVIOUS
  <2>1. m \in Requests
    BY Sorts
  <2>2. PICK r \in Requests : Step(r) \/ Interrupt(r)
    BY DEF Next
  <2>3. \/ answer' = [answer EXCEPT ![r] = "none"]
        \/ \E a \in {"2xx", "4xx", "5xx"} : answer' = [answer EXCEPT ![r] = a]
        \/ /\ r \in Moves /\ Walk(r) /\ current[r] # None /\ IsAncestor(r)
           /\ answer' = [answer EXCEPT ![r] = "circular"]
    <3>1. CASE r \in Creations /\ Create(r)
      BY <3>1 DEF Create, CheckParent, Insert, Fail, Finish, Goto
    <3>2. CASE r \in Moves /\ FindCategory(r)
      BY <3>2 DEF FindCategory, Fail, Finish, Goto
    <3>3. CASE r \in Moves /\ (FindParent(r) \/ Write(r))
      BY <3>3 DEF FindParent, Write, Fail, Finish, Goto
    <3>4. CASE r \in Moves /\ Walk(r)
      BY <3>4 DEF Walk, Fail, Finish, Goto
    <3>5. CASE Interrupt(r)
      BY <3>5 DEF Interrupt, Fail, Finish
    <3> QED
      BY <2>2, <3>1, <3>2, <3>3, <3>4, <3>5 DEF Step, Update
  <2>4. answer \in [Requests -> {"none", "2xx", "4xx", "circular", "5xx"}]
    BY DEF CategoriesInv, TypeOK
  <2>5. r = m /\ Walk(m) /\ current[m] # None /\ IsAncestor(m)
    BY <2>1, <2>3, <2>4
  <2>6. /\ pc[m] = "walk" /\ current[m] = moved[m] /\ moved[m] \in categories
        /\ visited[m] \subseteq categories /\ Climbed(m, moved[m])
    BY <2>5 DEF Walk, IsAncestor, CategoriesInv, MovesSound, AloneSound, Open
  <2>7. PICK S : S = visited[m] \cup {moved[m]}
    OBVIOUS
  <2>8. S \in SUBSET categories /\ S # {}
    BY <2>6, <2>7
  <2>9. PICK f : f = [parent EXCEPT ![moved[m]] = wanted[m]]
    OBVIOUS
  <2>10. \A c \in S : f[c] \in S
    <3>1. parent \in [Ids -> Ids \cup {None}] /\ categories \subseteq Ids
      BY DEF CategoriesInv, TypeOK
    <3>2. f[moved[m]] = wanted[m] /\ \A c \in visited[m] : f[c] = parent[c]
      BY <2>6, <2>9, <3>1 DEF Climbed
    <3> QED
      BY <2>6, <2>7, <3>2 DEF Climbed
  <2> QED
    BY <2>8, <2>9, <2>10 DEF IsForest
<1> QED
  BY <1>1, CategoriesInvariant, PTL DEF Spec, RefusedIsCircular
=============================================================================
