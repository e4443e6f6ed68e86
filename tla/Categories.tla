----------------------------- MODULE Categories -----------------------------
(***************************************************************************)
(* CategoriesService: administrators create categories and move them under *)
(* new parents.  assertNoCycle walks from the new parent to its root with  *)
(* one query per ancestor; the move is written by a later statement.       *)
(*                                                                         *)
(* A category is named after the request that creates it; a move stands    *)
(* for one administrator, who sends one move after the other.  Categories  *)
(* are never deleted: no code sets deletedAt.                              *)
(***************************************************************************)
EXTENDS Integers, FiniteSets

CONSTANTS
    Existing,   \* the categories at the start
    Creations,  \* POST /categories
    Moves,      \* administrators, who send PATCH /categories/:categoryId
    None        \* no parent

Ids == Existing \cup Creations
Requests == Creations \cup Moves

ASSUME RequestsAssumption ==
    Existing \cap Requests = {} /\ Creations \cap Moves = {}

ASSUME NoneAssumption == None \notin Ids

VARIABLES
    categories, \* the ids of the rows
    parent,     \* parent[c]: Category.parentId of row c
    pc,         \* pc[r]: where request r is in its handler
    answer,     \* answer[r]: the last response to r, or "none" while it runs
    moved,      \* moved[r]: the category that move r updates, or None
    wanted,     \* wanted[r]: the parent that request r asks for, or None
    current,    \* current[r]: where the walk of r is
    visited,    \* visited[r]: where it has been
    overlapped  \* history: whether two moves have run at the same time

locals == <<moved, wanted, current, visited>>
tree == <<categories, parent, overlapped>>
vars == <<tree, pc, answer, locals>>

Goto(r, place) ==
    /\ pc' = [pc EXCEPT ![r] = place]
    /\ answer' = [answer EXCEPT ![r] = "none"]

\* The locals of a finished request are gone, and the next move may come.
Finish(r, a) ==
    /\ pc' = [pc EXCEPT ![r] = IF r \in Moves THEN "new" ELSE "done"]
    /\ answer' = [answer EXCEPT ![r] = a]
    /\ moved' = [moved EXCEPT ![r] = None]
    /\ wanted' = [wanted EXCEPT ![r] = None]
    /\ current' = [current EXCEPT ![r] = None]
    /\ visited' = [visited EXCEPT ![r] = {}]

Fail(r, a) == Finish(r, a) /\ UNCHANGED tree

\* From every category of f the parents lead to a root: no set of categories
\* has all of its parents in itself.
IsForest(ids, f) ==
    \A S \in SUBSET ids : S # {} => \E c \in S : f[c] \notin S

Init ==
    /\ categories = Existing
    /\ \E f \in [Existing -> Existing \cup {None}] :
          /\ IsForest(Existing, f)
          /\ parent = [c \in Ids |-> IF c \in Existing THEN f[c] ELSE None]
    /\ pc = [r \in Requests |-> "new"]
    /\ answer = [r \in Requests |-> "none"]
    /\ moved = [r \in Requests |-> None]
    /\ wanted = [r \in Requests |-> None]
    /\ current = [r \in Requests |-> None]
    /\ visited = [r \in Requests |-> {}]
    /\ overlapped = FALSE

----------------------------------------------------------------------------
\* create

\* assertParentExists
Parents == categories \cup {None}

AskParent(r, p) == wanted' = [wanted EXCEPT ![r] = p]

\* A root needs no query; an unknown parent is a 400.
CheckParent(r) ==
    /\ pc[r] = "new"
    /\ \/ Fail(r, "4xx")
       \/ \E p \in Parents :
             /\ AskParent(r, p)
             /\ Goto(r, "insert")
             /\ UNCHANGED <<tree, moved, current, visited>>

\* A taken slug is a 409.
Insert(r) ==
    /\ pc[r] = "insert"
    /\ \/ Fail(r, "4xx")
       \/ /\ categories' = categories \cup {r}
          /\ parent' = [parent EXCEPT ![r] = wanted[r]]
          /\ Finish(r, "2xx")
          /\ UNCHANGED overlapped

Create(r) == CheckParent(r) \/ Insert(r)

----------------------------------------------------------------------------
\* update

Open(r) == pc[r] \notin {"new", "done"}

\* A move to the root needs no walk; an update without a parentId changes
\* nothing here.
FindCategory(r) ==
    /\ pc[r] = "new"
    /\ \/ Fail(r, "4xx")
       \/ \E c \in categories, p \in Parents :
             /\ moved' = [moved EXCEPT ![r] = c]
             /\ AskParent(r, p)
             /\ Goto(r, IF p = None THEN "write" ELSE "find parent")
             /\ overlapped' = (overlapped \/ \E m \in Moves \ {r} : Open(m))
             /\ UNCHANGED <<categories, parent, current, visited>>

FindParent(r) ==
    /\ pc[r] = "find parent"
    /\ \/ Fail(r, "4xx")
       \/ /\ current' = [current EXCEPT ![r] = wanted[r]]
          /\ Goto(r, "walk")
          /\ UNCHANGED <<tree, moved, wanted, visited>>

\* Mutant: only the parent itself is compared.
IsAncestorWanted(r) == wanted[r] = moved[r]

\* Mutant: the walk looks for the parent of the category that is moved.
IsAncestorOfParent(r) == current[r] = parent[moved[r]]

\* The walk has come to the category that is moved.
IsAncestor(r) == current[r] = moved[r]

\* Mutant: the walk does not remember where it has been.
SeenNever(r) == FALSE

Seen(r) == current[r] \in visited[r]

\* One turn of assertNoCycle's loop, with its query.
Walk(r) ==
    /\ pc[r] = "walk"
    /\ IF current[r] = None
       THEN Goto(r, "write") /\ UNCHANGED <<tree, locals>>
       ELSE IF IsAncestor(r)
       THEN Fail(r, "circular")
       ELSE IF Seen(r)
       THEN Goto(r, "write") /\ UNCHANGED <<tree, locals>>
       ELSE /\ visited' = [visited EXCEPT ![r] = @ \cup {current[r]}]
            /\ current' = [current EXCEPT ![r] = parent[current[r]]]
            /\ Goto(r, "walk")
            /\ UNCHANGED <<tree, moved, wanted>>

\* A taken slug is a 409.
Write(r) ==
    /\ pc[r] = "write"
    /\ \/ Fail(r, "4xx")
       \/ /\ parent' = [parent EXCEPT ![moved[r]] = wanted[r]]
          /\ Finish(r, "2xx")
          /\ UNCHANGED <<categories, overlapped>>

Update(r) == FindCategory(r) \/ FindParent(r) \/ Walk(r) \/ Write(r)

----------------------------------------------------------------------------
\* The request dies between two statements.
Interrupt(r) == Open(r) /\ Fail(r, "5xx")

Step(r) ==
    \/ r \in Creations /\ Create(r)
    \/ r \in Moves /\ Update(r)

Next == \E r \in Requests : Step(r) \/ Interrupt(r)

Spec == Init /\ [][Next]_vars

\* A handler that has started runs on.
Fairness == \A r \in Requests : WF_vars(pc[r] # "new" /\ Step(r))

FairSpec == Spec /\ Fairness

----------------------------------------------------------------------------
TypeOK ==
    /\ Existing \subseteq categories /\ categories \subseteq Ids
    /\ parent \in [Ids -> Ids \cup {None}]
    /\ \A c \in categories : parent[c] \in categories \cup {None}
    /\ pc \in [Requests -> {"new", "insert", "find parent", "walk", "write",
                            "done"}]
    /\ answer \in [Requests -> {"none", "2xx", "4xx", "circular", "5xx"}]
    /\ moved \in [Requests -> Ids \cup {None}]
    /\ wanted \in [Requests -> Ids \cup {None}]
    /\ current \in [Requests -> Ids \cup {None}]
    /\ visited \in [Requests -> SUBSET Ids]

\* docs/database/catalog.md:176, 1634: "Circular category relationships are
\* forbidden."
Forest == IsForest(categories, parent)

\* As long as no two moves have run at the same time the categories form a
\* forest, whatever is created, moved and interrupted; two moves that overlap
\* may each pass the walk and together close a cycle.
CycleNeedsRace == overlapped \/ Forest

\* What requests hold is in the table; what a walk has visited leads from the
\* wanted parent to where the walk is, past the category that is moved.
CreationsSound ==
    \A c \in Creations :
        /\ pc[c] \in {"new", "insert", "done"}
        /\ c \in categories => pc[c] = "done"
        /\ pc[c] = "insert" => wanted[c] \in Parents

MovesSound ==
    \A m \in Moves :
        /\ pc[m] \in {"new", "find parent", "walk", "write"}
        /\ Open(m) => moved[m] \in categories
        /\ wanted[m] \in Parents /\ current[m] \in Parents
        /\ visited[m] \subseteq categories
        /\ pc[m] \in {"new", "find parent"} => visited[m] = {}

Climbed(m, c) ==
    /\ wanted[m] \in visited[m] \cup {c}
    /\ moved[m] \notin visited[m]
    /\ \A v \in visited[m] : parent[v] \in visited[m] \cup {c}

AloneSound ==
    /\ \A m, n \in Moves : Open(m) /\ Open(n) => m = n
    /\ \A m \in Moves :
          /\ pc[m] = "walk" => Climbed(m, current[m])
          /\ pc[m] = "write" => wanted[m] = None \/ Climbed(m, None)

\* The inductive invariant behind these properties.
CategoriesInv ==
    /\ TypeOK /\ CreationsSound /\ MovesSound /\ CycleNeedsRace
    /\ overlapped \/ AloneSound

\* A move that has never overlapped with another is refused as circular only
\* when it would close a cycle.
RefusedIsCircular ==
    [][\A r \in Moves :
          ~overlapped /\ answer[r] # "circular" /\ answer'[r] = "circular" =>
              ~IsForest(categories,
                        [parent EXCEPT ![moved[r]] = wanted[r]])]_vars

\* Every request ends: the walk is finite even when other moves close a cycle
\* in front of it.
RequestsFinish == \A r \in Requests : Open(r) ~> ~Open(r)
============================================================================
