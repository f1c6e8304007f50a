--------------------------- MODULE CategoryHierarchy ---------------------------
(***************************************************************************)
(* The category tree of product-service and its two Redis caches           *)
(* (product-service/src/product/category/product.category.service.ts).     *)
(*                                                                         *)
(* Categories form a forest through parentId.  No constraint of the        *)
(* database keeps it one: update walks up from the new parent, row by row, *)
(* before it writes.  hasSubcategories is kept by hand after each write.   *)
(* findById answers from the cache, and update and remove decide on what   *)
(* it answers.  getProducts walks down with the help of hasSubcategories,  *)
(* getBreadcrumb and getCategoryPath walk up.                              *)
(*                                                                         *)
(* A client has one request in progress; one action is what the service    *)
(* does for it between two awaits.  An optional value is a set: {} when it *)
(* is absent, {v} when it is v.  Names and products are left out: a name   *)
(* that is taken ends a request before it writes.                          *)
(***************************************************************************)
EXTENDS Sequences, FiniteSets

CONSTANTS
    Categories, \* ids
    NoParent,   \* parentId null
    Clients,
    CallsOf     \* the requests each client makes

Parent == Categories \cup {NoParent}

CallType ==
    [op : {"create"}, ids : {{}}, key : {{}}, to : {{p} : p \in Parent},
     active : {{b} : b \in BOOLEAN}]
      \cup [op : {"update"}, ids : {{c} : c \in Categories},
            key : {{}} \cup {{c} : c \in Categories},
            to : {{}} \cup {{p} : p \in Parent}, active : {{}} \cup {{b} : b \in BOOLEAN}]
      \cup [op : {"remove", "find", "products", "breadcrumb", "path"},
            ids : {{c} : c \in Categories}, key : {{}}, to : {{}}, active : {{}}]
      \cup [op : {"bulkUpdateStatus"}, ids : SUBSET Categories \ {{}}, key : {{}}, to : {{}},
            active : {{b} : b \in BOOLEAN}]
      \cup [op : {"tree"}, ids : {{}}, key : {{}}, to : {{}}, active : {{}}]

ASSUME NoParentAssumption == NoParent \notin Categories
ASSUME CallsOfAssumption == CallsOf \in [Clients -> SUBSET CallType]

VARIABLES
    row,        \* the row of each category, Blank when it has none
    alive,      \* categories that have a row
    unborn,     \* ids that no category has had so far
    rekeyed,    \* history: whether an update has given a category another id
    entry,      \* cached answer of findById per category
    tree,       \* cached answer of getCategoryTree
    call, pc,   \* what each client asked, and where the request stands
    seen,       \* what findById answered
    at,         \* where a walk up stands, NoParent before its first category
    visited,    \* the categories a walk up or down has been to
    pending,    \* categories getProducts has still to descend into
    found,      \* subcategories getProducts has found
    todo,       \* categories whose flag is still to be recomputed
    many,       \* whether the count for the next flag found a child
    left,       \* cache entries still to be deleted
    view        \* the tree that was read and not yet cached

rows == <<row, alive, unborn, rekeyed>>
caches == <<entry, tree>>
walk == <<at, visited, pending, found>>
vars == <<rows, caches, call, pc, seen, walk, todo, many, left, view>>

Blank == [parent |-> NoParent, active |-> FALSE, deleted |-> FALSE, flag |-> FALSE]
Info == [parent : Parent, active : BOOLEAN]
NoCall == [op |-> "none", ids |-> {}, key |-> {}, to |-> {}, active |-> {}]

The(s, absent) == IF s = {} THEN absent ELSE CHOOSE v \in s : TRUE

Id(r) == CHOOSE c \in call[r].ids : TRUE
Snapshot(c) == [parent |-> row[c].parent, active |-> row[c].active]

\* count({parentId: c, deletedAt: null}) > 0
HasSubcategories(c) == \E d \in alive : row[d].parent = c /\ ~row[d].deleted

\* What getCategoryTree assembles: the active categories under their parents.
Shown ==
    {<<c, row[c].parent>> : c \in {c \in alive : row[c].active /\ ~row[c].deleted}}

Forest(nodes, up) ==
    \A S \in SUBSET nodes : S # {} => \E c \in S : up[c] \notin S

\* Any forest the administrators have built so far, with cold caches.
Init ==
    /\ alive \in SUBSET Categories
    /\ unborn = Categories \ alive
    /\ rekeyed = FALSE
    /\ \E up \in [alive -> alive \cup {NoParent}], on \in [alive -> BOOLEAN] :
          /\ Forest(alive, up)
          /\ row = [c \in Categories |->
                      IF c \in alive
                      THEN [parent |-> up[c], active |-> on[c], deleted |-> FALSE,
                            flag |-> \E d \in alive : up[d] = c]
                      ELSE Blank]
    /\ entry = [c \in Categories |-> {}]
    /\ tree = {}
    /\ call = [r \in Clients |-> NoCall]
    /\ pc = [r \in Clients |-> "idle"]
    /\ seen = [r \in Clients |-> {}]
    /\ at = [r \in Clients |-> NoParent]
    /\ visited = [r \in Clients |-> {}]
    /\ pending = [r \in Clients |-> {}]
    /\ found = [r \in Clients |-> {}]
    /\ todo = [r \in Clients |-> << >>]
    /\ many = [r \in Clients |-> FALSE]
    /\ left = [r \in Clients |-> {}]
    /\ view = [r \in Clients |-> {}]

-----------------------------------------------------------------------------
(* Control *)

Goto(r, step) == pc' = [pc EXCEPT ![r] = step]

Begin(r, c) ==
    /\ pc[r] = "idle"
    /\ call' = [call EXCEPT ![r] = c]
    /\ Goto(r, CASE c.op \in {"find", "update", "remove", "products"} -> "lookup"
                 [] c.op \in {"breadcrumb", "path"} -> "climb"
                 [] c.op = "create" -> (IF c.to = {NoParent} THEN "insert" ELSE "parent")
                 [] c.op = "bulkUpdateStatus" -> "status"
                 [] c.op = "tree" -> "treeGet")
    /\ UNCHANGED <<rows, caches, seen, walk, todo, many, left, view>>

\* The answer or the error is sent, and the locals of the request are gone.
End(r) ==
    /\ pc[r] = "end"
    /\ Goto(r, "idle")
    /\ call' = [call EXCEPT ![r] = NoCall]
    /\ seen' = [seen EXCEPT ![r] = {}]
    /\ at' = [at EXCEPT ![r] = NoParent]
    /\ visited' = [visited EXCEPT ![r] = {}]
    /\ pending' = [pending EXCEPT ![r] = {}]
    /\ found' = [found EXCEPT ![r] = {}]
    /\ todo' = [todo EXCEPT ![r] = << >>]
    /\ many' = [many EXCEPT ![r] = FALSE]
    /\ left' = [left EXCEPT ![r] = {}]
    /\ view' = [view EXCEPT ![r] = {}]
    /\ UNCHANGED <<rows, caches>>

\* What follows findById.
AfterFind(r) ==
    CASE call[r].op = "find"   -> "end"
      [] call[r].op = "remove" -> "count"
      [] call[r].op = "products" -> "descend"
      [] call[r].op = "update" ->
            IF call[r].to = call[r].ids THEN "end"     \* its own parent: refused
            ELSE IF call[r].to \in {{}, {NoParent}} THEN "write"
            ELSE "parent"

-----------------------------------------------------------------------------
(* findById *)

Lookup(r) ==
    /\ pc[r] = "lookup"
    /\ seen' = [seen EXCEPT ![r] = entry[Id(r)]]
    /\ Goto(r, IF entry[Id(r)] = {} THEN "load" ELSE AfterFind(r))
    /\ UNCHANGED <<rows, caches, call, walk, todo, many, left, view>>

Load(r) ==
    /\ pc[r] = "load"
    /\ IF Id(r) \in alive /\ ~row[Id(r)].deleted
       THEN seen' = [seen EXCEPT ![r] = {Snapshot(Id(r))}] /\ Goto(r, "fill")
       ELSE Goto(r, "end") /\ UNCHANGED seen
    /\ UNCHANGED <<rows, caches, call, walk, todo, many, left, view>>

Fill(r) ==
    /\ pc[r] = "fill"
    /\ entry' = [entry EXCEPT ![Id(r)] = seen[r]]
    /\ Goto(r, AfterFind(r))
    /\ UNCHANGED <<rows, tree, call, seen, walk, todo, many, left, view>>

-----------------------------------------------------------------------------
(* create and update *)

Target(r) == The(call[r].to, NoParent)

\* The parent must have a row; whether it was soft-deleted is not looked at.
ParentExists(r) ==
    /\ pc[r] = "parent"
    /\ Goto(r, IF Target(r) \notin alive THEN "end"
               ELSE IF call[r].op = "create" THEN "insert" ELSE "walk")
    /\ at' = [at EXCEPT ![r] = Target(r)]
    /\ UNCHANGED <<rows, caches, call, seen, visited, pending, found, todo, many, left, view>>

\* A bug: the walk looks for a loop and not for the category itself.
BugLoopsOnlyWalk(r) ==
    /\ pc[r] = "walk"
    /\ visited' = [visited EXCEPT ![r] = @ \cup {at[r]}]
    /\ at' = [at EXCEPT ![r] = row[at[r]].parent]
    /\ Goto(r, IF at[r] \in visited[r] THEN "end"
               ELSE IF at[r] \notin alive \/ row[at[r]].parent = NoParent THEN "write"
               ELSE "walk")
    /\ UNCHANGED <<rows, caches, call, seen, pending, found, todo, many, left, view>>

\* One turn of checkForCircularReference.
Walk(r) ==
    /\ pc[r] = "walk"
    /\ visited' = [visited EXCEPT ![r] = @ \cup {at[r]}]
    /\ at' = [at EXCEPT ![r] = row[at[r]].parent]
    /\ Goto(r, IF at[r] \in visited[r] \cup call[r].ids THEN "end"
               ELSE IF at[r] \notin alive \/ row[at[r]].parent = NoParent THEN "write"
               ELSE "walk")
    /\ UNCHANGED <<rows, caches, call, seen, pending, found, todo, many, left, view>>

\* The parent findById answered, possibly from the cache.
OldParent(r) == (CHOOSE s \in seen[r] : TRUE).parent

One(c) == IF c = NoParent THEN << >> ELSE <<c>>

\* A bug: the parent the category leaves keeps its flag.
BugOnlyNewFlagsTodo(r) ==
    IF call[r].to = {} THEN << >> ELSE <<Id(r)>> \o One(Target(r))

\* The flags update recomputes: its own, the old parent's, the new parent's.
FlagsTodo(r) ==
    IF call[r].to = {} THEN << >>
    ELSE <<Id(r)>> \o One(OldParent(r)) \o One(Target(r))

\* The rows once category c has the id k: onUpdate: Cascade renames it in the rows
\* below.
Rewritten(c, k, new) ==
    [d \in Categories |-> IF d = k THEN new
                          ELSE IF d = c THEN Blank
                          ELSE [row[d] EXCEPT !.parent = IF @ = c THEN k ELSE @]]

\* Without a parentId in the request, the parent findById answered is written
\* back.  An id in the request becomes the id of the category, while what follows
\* uses the old one.  The row or the new parent may be gone, or the new id taken:
\* the statement fails.
Write(r) ==
    LET c == Id(r)
        k == The(call[r].key, c)
        p == The(call[r].to, OldParent(r))
    IN  /\ pc[r] = "write"
        /\ IF /\ c \in alive
              /\ p \in alive \cup {k, NoParent}
              /\ k # c => k \notin alive
           THEN /\ row' = Rewritten(c, k, [row[c] EXCEPT !.parent = IF p = c THEN k ELSE p,
                                                         !.active = The(call[r].active, @)])
                /\ alive' = (alive \ {c}) \cup {k}
                /\ unborn' = unborn \ {k}
                /\ rekeyed' = (rekeyed \/ k # c)
                /\ todo' = [todo EXCEPT ![r] = FlagsTodo(r)]
                /\ left' = [left EXCEPT ![r] = {c}]
                /\ Goto(r, IF FlagsTodo(r) = << >> THEN "drop" ELSE "flagCount")
           ELSE Goto(r, "end") /\ UNCHANGED <<rows, todo, left>>
        /\ UNCHANGED <<caches, call, seen, walk, many, view>>

\* The new row gets the id c; the statement fails if its name was taken meanwhile
\* or its parent is gone.
Insert(r, c) ==
    /\ Target(r) \in alive \cup {NoParent}
    /\ unborn' = unborn \ {c}
    /\ alive' = alive \cup {c}
    /\ row' = [row EXCEPT ![c] = [Blank EXCEPT !.parent = Target(r),
                                               !.active = The(call[r].active, TRUE)]]
    /\ UNCHANGED rekeyed
    /\ todo' = [todo EXCEPT ![r] = One(Target(r))]
    /\ Goto(r, IF Target(r) = NoParent THEN "dropTree" ELSE "flagCount")
    /\ UNCHANGED <<caches, call, seen, walk, many, left, view>>

Create(r) ==
    /\ pc[r] = "insert"
    /\ \/ \E c \in unborn : Insert(r, c)
       \/ Goto(r, "end") /\ UNCHANGED <<rows, caches, call, seen, walk, todo, many, left, view>>

-----------------------------------------------------------------------------
(* remove and bulkUpdateStatus *)

\* Refused for a category with products or with subcategories.
CountChildren(r) ==
    /\ pc[r] = "count"
    /\ \/ Goto(r, "end")
       \/ ~HasSubcategories(Id(r)) /\ Goto(r, "erase")
    /\ UNCHANGED <<rows, caches, call, seen, walk, todo, many, left, view>>

\* A bug: the subcategories of a row that is deleted keep naming it.
BugDanglingErased(c) == [row EXCEPT ![c] = Blank]

\* A row is deleted, and onDelete: SetNull detaches the rows below it.
Erased(c) ==
    [d \in Categories |-> IF d = c THEN Blank
                          ELSE IF row[d].parent = c THEN [row[d] EXCEPT !.parent = NoParent]
                          ELSE row[d]]

\* An active category is soft-deleted.  The row of an inactive one is deleted,
\* unless inactive products still refer to it.
Erase(r) ==
    LET c == Id(r)
        wasActive == (CHOOSE s \in seen[r] : TRUE).active
    IN  /\ pc[r] = "erase"
        /\ \/ /\ c \in alive
              /\ IF wasActive
                 THEN /\ row' = [row EXCEPT ![c].active = FALSE, ![c].deleted = TRUE]
                      /\ UNCHANGED alive
                 ELSE row' = Erased(c) /\ alive' = alive \ {c}
              /\ todo' = [todo EXCEPT ![r] = One(OldParent(r))]
              /\ left' = [left EXCEPT ![r] = {c}]
              /\ Goto(r, IF OldParent(r) = NoParent THEN "drop" ELSE "flagCount")
           \/ /\ c \notin alive \/ ~wasActive
              /\ Goto(r, "end")
              /\ UNCHANGED <<row, alive, todo, left>>
        /\ UNCHANGED <<unborn, rekeyed, caches, call, seen, walk, many, view>>

\* updateMany: soft-deleted categories are switched too.
UpdateStatus(r) ==
    /\ pc[r] = "status"
    /\ row' = [c \in Categories |->
                  IF c \in call[r].ids \cap alive
                  THEN [row[c] EXCEPT !.active = The(call[r].active, FALSE)] ELSE row[c]]
    /\ left' = [left EXCEPT ![r] = call[r].ids]
    /\ Goto(r, "drop")
    /\ UNCHANGED <<alive, unborn, rekeyed, caches, call, seen, walk, todo, many, view>>

-----------------------------------------------------------------------------
(* updateSubcategoriesFlag and the deletion of cached answers *)

FlagCount(r) ==
    /\ pc[r] = "flagCount"
    /\ many' = [many EXCEPT ![r] = HasSubcategories(Head(todo[r]))]
    /\ Goto(r, "flagWrite")
    /\ UNCHANGED <<rows, caches, call, seen, walk, todo, left, view>>

FlagWrite(r) ==
    LET c == Head(todo[r])
        rest == Tail(todo[r])
    IN  /\ pc[r] = "flagWrite"
        /\ IF c \in alive
           THEN /\ row' = [row EXCEPT ![c].flag = many[r]]
                /\ Goto(r, IF rest # << >> THEN "flagCount"
                           ELSE IF left[r] # {} THEN "drop" ELSE "dropTree")
           ELSE Goto(r, "end") /\ UNCHANGED row
        /\ todo' = [todo EXCEPT ![r] = rest]
        /\ UNCHANGED <<alive, unborn, rekeyed, caches, call, seen, walk, many, left, view>>

DropEntry(r, c) ==
    /\ pc[r] = "drop"
    /\ c \in left[r]
    /\ entry' = [entry EXCEPT ![c] = {}]
    /\ left' = [left EXCEPT ![r] = @ \ {c}]
    /\ Goto(r, IF left[r] = {c} THEN "dropTree" ELSE "drop")
    /\ UNCHANGED <<rows, tree, call, seen, walk, todo, many, view>>

\* A bug: the cached tree stays.
BugKeepTree(r) ==
    /\ pc[r] = "dropTree"
    /\ Goto(r, "end")
    /\ UNCHANGED <<rows, entry, tree, call, seen, walk, todo, many, left, view>>

DropTree(r) ==
    /\ pc[r] = "dropTree"
    /\ tree' = {}
    /\ Goto(r, "end")
    /\ UNCHANGED <<rows, entry, call, seen, walk, todo, many, left, view>>

-----------------------------------------------------------------------------
(* getProducts, getBreadcrumb and getCategoryPath *)

Showing(c) == row[c].active /\ ~row[c].deleted

\* A bug: only subcategories with a flag are searched for products.
BugFlaggedOnlyDescend(r, c) ==
    LET subs == {d \in alive : row[d].parent = c /\ Showing(d) /\ row[d].flag}
    IN  /\ pc[r] = "descend"
        /\ c \in pending[r] \cup (IF visited[r] = {} THEN call[r].ids ELSE {})
        /\ visited' = [visited EXCEPT ![r] = @ \cup {c}]
        /\ found' = [found EXCEPT ![r] = @ \cup subs]
        /\ pending' = [pending EXCEPT ![r] = (@ \cup subs) \ visited'[r]]
        /\ Goto(r, IF pending'[r] = {} THEN "end" ELSE "descend")
        /\ UNCHANGED <<rows, caches, call, seen, at, todo, many, left, view>>

\* One call of getAllSubcategoriesWithDepth: it reads the subcategories that show
\* and goes on below those whose flag says so, into none twice.  The code goes
\* depth first; here the order is open.
Descend(r, c) ==
    LET subs == {d \in alive : row[d].parent = c /\ Showing(d)}
    IN  /\ pc[r] = "descend"
        /\ c \in pending[r] \cup (IF visited[r] = {} THEN call[r].ids ELSE {})
        /\ visited' = [visited EXCEPT ![r] = @ \cup {c}]
        /\ found' = [found EXCEPT ![r] = @ \cup subs]
        /\ pending' = [pending EXCEPT ![r] =
                          (@ \cup {d \in subs : row[d].flag}) \ visited'[r]]
        /\ Goto(r, IF pending'[r] = {} THEN "end" ELSE "descend")
        /\ UNCHANGED <<rows, caches, call, seen, at, todo, many, left, view>>

\* One turn of getBreadcrumb, which stops at a removed category, or of
\* getCategoryPath, which names it too.  Neither remembers where it was.
Climb(r) ==
    LET c == IF at[r] = NoParent THEN Id(r) ELSE at[r]
        more == /\ c \in alive /\ row[c].parent # NoParent
                /\ call[r].op = "breadcrumb" => ~row[c].deleted
    IN  /\ pc[r] = "climb"
        /\ at' = [at EXCEPT ![r] = IF more THEN row[c].parent ELSE @]
        /\ Goto(r, IF more THEN "climb" ELSE "end")
        /\ UNCHANGED <<rows, caches, call, seen, visited, pending, found, todo, many, left, view>>

-----------------------------------------------------------------------------
(* getCategoryTree, and the hour both caches last *)

TreeGet(r) ==
    /\ pc[r] = "treeGet"
    /\ Goto(r, IF tree = {} THEN "treeRead" ELSE "end")
    /\ UNCHANGED <<rows, caches, call, seen, walk, todo, many, left, view>>

TreeRead(r) ==
    /\ pc[r] = "treeRead"
    /\ view' = [view EXCEPT ![r] = {Shown}]
    /\ Goto(r, "treeFill")
    /\ UNCHANGED <<rows, caches, call, seen, walk, todo, many, left>>

TreeFill(r) ==
    /\ pc[r] = "treeFill"
    /\ tree' = view[r]
    /\ Goto(r, "end")
    /\ UNCHANGED <<rows, entry, call, seen, walk, todo, many, left, view>>

Expire ==
    /\ \/ \E c \in Categories :
             entry[c] # {} /\ entry' = [entry EXCEPT ![c] = {}] /\ UNCHANGED tree
       \/ tree # {} /\ tree' = {} /\ UNCHANGED entry
    /\ UNCHANGED <<rows, call, pc, seen, walk, todo, many, left, view>>

-----------------------------------------------------------------------------

Step(r) ==
    \/ Lookup(r) \/ Load(r) \/ Fill(r)
    \/ ParentExists(r) \/ Walk(r) \/ Write(r) \/ Create(r)
    \/ CountChildren(r) \/ Erase(r) \/ UpdateStatus(r)
    \/ FlagCount(r) \/ FlagWrite(r)
    \/ \E c \in Categories : DropEntry(r, c) \/ Descend(r, c)
    \/ Climb(r)
    \/ DropTree(r) \/ TreeGet(r) \/ TreeRead(r) \/ TreeFill(r)
    \/ End(r)

Next ==
    \/ \E r \in Clients : (\E c \in CallsOf[r] : Begin(r, c)) \/ Step(r)
    \/ Expire

Spec == Init /\ [][Next]_vars

-----------------------------------------------------------------------------
(* Properties *)

Row == [parent : Parent, active : BOOLEAN, deleted : BOOLEAN, flag : BOOLEAN]

\* Besides the shapes: no row ever names a parent that has no row, whoever moves,
\* removes or renames categories at the same time (parentId with onDelete: SetNull
\* and onUpdate: Cascade).
TypeOK ==
    /\ row \in [Categories -> Row]
    /\ alive \in SUBSET Categories
    /\ unborn \in SUBSET (Categories \ alive)
    /\ rekeyed \in BOOLEAN
    /\ \A c \in Categories : row[c].parent \in alive \cup {NoParent}
    /\ entry \in [Categories -> {{}} \cup {{i} : i \in Info}]
    /\ tree \in SUBSET SUBSET (Categories \X Parent)
    /\ call \in [Clients -> CallType \cup {NoCall}]
    /\ seen \in [Clients -> {{}} \cup {{i} : i \in Info}]
    /\ left \in [Clients -> SUBSET Categories]
    /\ found \in [Clients -> SUBSET Categories]

Quiet == \A r \in Clients : pc[r] \in {"idle", "end"}

(* An update that changes an id leaves behind what the four properties below *)
(* exclude: the cached entries of the subcategories name the old id, a later  *)
(* update may write it back, and the flags are recomputed under the old id or *)
(* not at all.  They are claimed as long as every category keeps its id.      *)

\* No category is above itself, however often the tree is rearranged: every set
\* of categories has one whose parent is not in the set
\* ("category cannot be ancestor of itself", checkForCircularReference).
NoCycle == ~rekeyed => Forest(alive, [c \in alive |-> row[c].parent])

\* hasSubcategories, which getProducts relies on to descend, tells after every
\* request whether the category has subcategories (updateSubcategoriesFlag).
FlagsExact == Quiet /\ ~rekeyed => \A c \in alive : row[c].flag <=> HasSubcategories(c)

\* getProducts answers with the products of the whole subtree that shows: it has
\* found a category exactly if the category shows and its parent is the one asked
\* about or found (NoCycle makes that the subtree).  The walk trusts the flags
\* that earlier requests left behind, and a flag left false hides what is below.
ProductsOfWholeSubtree ==
    \A r \in Clients :
        call[r].op = "products" /\ pc[r] = "end" /\ seen[r] # {} /\ ~rekeyed =>
            \A c \in alive :
                c \in found[r] <=> Showing(c) /\ row[c].parent \in found[r] \cup call[r].ids

\* After every request the tree in the cache is what the rows say, and so are the
\* parent and the active flag of a cached category, on which update and remove
\* decide.  Nothing is claimed of the rest of a cached category (its children, the
\* name of its parent, hasSubcategories), which only its own update deletes.
CachesCoherent ==
    Quiet /\ ~rekeyed =>
        /\ \A c \in Categories : entry[c] # {} =>
              c \in alive /\ ~row[c].deleted /\ entry[c] = {Snapshot(c)}
        /\ tree \subseteq {Shown}

-----------------------------------------------------------------------------
(* The inductive invariant: where a request can stand, for any number of      *)
(* clients, and what the request of one client still knows.                   *)

Steps ==
    {"idle", "lookup", "load", "fill", "parent", "walk", "write", "insert", "count",
     "erase", "status", "flagCount", "flagWrite", "drop", "dropTree", "descend",
     "climb", "treeGet", "treeRead", "treeFill", "end"}

Shapes ==
    /\ pc \in [Clients -> Steps]
    /\ at \in [Clients -> Parent]
    /\ visited \in [Clients -> SUBSET Categories]
    /\ pending \in [Clients -> SUBSET Categories]
    /\ todo \in [Clients -> Seq(Categories)]
    /\ many \in [Clients -> BOOLEAN]
    /\ view \in [Clients -> SUBSET SUBSET (Categories \X Parent)]

Flagging == {"flagCount", "flagWrite"}

\* Which requests reach a step, and what they have by then.
Stage(r) ==
    /\ pc[r] # "idle" => call[r] \in CallType
    /\ pc[r] \in {"lookup", "load", "fill"} =>
          call[r].op \in {"find", "update", "remove", "products"}
    /\ pc[r] = "insert" => call[r].op = "create"
    /\ pc[r] \in {"walk", "write"} => call[r].op = "update"
    /\ pc[r] \in {"count", "erase"} => call[r].op = "remove"
    /\ pc[r] = "parent" => call[r].op \in {"create", "update"}
    /\ pc[r] = "status" => call[r].op = "bulkUpdateStatus"
    /\ pc[r] \in Flagging \cup {"drop", "dropTree"} =>
          call[r].op \in {"create", "update", "remove", "bulkUpdateStatus"}
    /\ pc[r] = "descend" => call[r].op = "products"
    /\ pc[r] = "climb" => call[r].op \in {"breadcrumb", "path"}
    /\ pc[r] \in {"treeGet", "treeRead", "treeFill"} => call[r].op = "tree"
    /\ pc[r] = "load" => seen[r] = {}
    /\ pc[r] \in {"fill", "walk", "write", "count", "erase"} => seen[r] # {}
    /\ pc[r] = "parent" /\ call[r].op = "update" => seen[r] # {}
    /\ pc[r] = "walk" => at[r] \in Categories
    /\ pc[r] \in Flagging => todo[r] # << >>

Dispatched == \A r \in Clients : Stage(r)

Typed == TypeOK /\ Shapes /\ Dispatched

\* An answer of findById that says what the row says.
Fresh(c, answer) == c \in alive /\ ~row[c].deleted /\ answer = {Snapshot(c)}

\* A cached answer is such a one, or is about to be deleted.
EntriesFresh ==
    \A c \in Categories : entry[c] # {} =>
        \/ Fresh(c, entry[c])
        \/ \E r \in Clients :
              pc[r] \in Flagging \cup {"drop"} /\ c \in left[r]

\* So is the cached tree, and the one about to be cached.
TreeFresh ==
    /\ \/ tree \subseteq {Shown}
       \/ \E r \in Clients : pc[r] \in Flagging \cup {"drop", "dropTree"}
    /\ \A r \in Clients : pc[r] = "treeFill" => view[r] = {Shown}

\* What findById and the count of the children answered is still so.
Informed ==
    \A r \in Clients :
        /\ pc[r] \in {"fill", "walk", "write", "count", "erase"} => Fresh(Id(r), seen[r])
        /\ pc[r] = "parent" /\ call[r].op = "update" => Fresh(Id(r), seen[r])
        /\ pc[r] = "erase" => ~HasSubcategories(Id(r))

\* The categories whose flag is to be recomputed have rows, the flags of the others
\* are exact, and what was counted is still so when it is written.
FlagsNamed ==
    /\ \A r \in Clients :
        /\ pc[r] \in Flagging => todo[r] \in Seq(alive) \ {<< >>}
        /\ pc[r] = "flagWrite" => (many[r] <=> HasSubcategories(Head(todo[r])))
    /\ \A c \in alive :
        \/ row[c].flag <=> HasSubcategories(c)
        \/ \E r \in Clients :
              pc[r] \in Flagging /\ \E i \in DOMAIN todo[r] : todo[r][i] = c

\* What has been visited leads from the new parent to where the walk stands, and
\* the category to be moved is not on the way.
Climbed(r) ==
    /\ visited[r] \subseteq alive \ call[r].ids
    /\ Target(r) \in visited[r] \cup {at[r]}
    /\ \A c \in visited[r] : row[c].parent \in visited[r] \cup {at[r]}

WalksSound ==
    \A r \in Clients :
        /\ pc[r] \in {"idle", "lookup", "load", "fill", "parent"} => visited[r] = {}
        /\ pc[r] = "walk" => at[r] \in alive /\ Climbed(r)
        /\ pc[r] = "write" => \/ call[r].to \in {{}, {NoParent}}
                              \/ at[r] = NoParent /\ Climbed(r)

\* What getProducts has found is what shows below the categories it has been to, and
\* it will go to every category found that has subcategories.
DescentsSound ==
    \A r \in Clients :
        /\ pc[r] \in {"idle", "lookup", "load", "fill"} => found[r] = {} /\ pending[r] = {}
        /\ pc[r] \in {"descend", "end"} /\ call[r].op = "products" /\ seen[r] # {} =>
              /\ visited[r] \subseteq call[r].ids \cup found[r]
              /\ pending[r] \subseteq found[r] /\ found[r] \subseteq alive
              /\ \A c \in alive :
                    c \in found[r] <=> Showing(c) /\ row[c].parent \in visited[r]
              /\ \A c \in found[r] : row[c].flag => c \in visited[r] \cup pending[r]
              /\ visited[r] # {} => call[r].ids \subseteq visited[r]
              /\ pc[r] = "end" => visited[r] # {} /\ pending[r] = {}

Sound ==
    /\ NoCycle
    /\ EntriesFresh /\ TreeFresh
    /\ Informed
    /\ FlagsNamed
    /\ WalksSound /\ DescentsSound

IInv == Typed /\ (~rekeyed => Sound)

=============================================================================
