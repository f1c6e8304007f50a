----------------------- MODULE CategoryHierarchyProofs -----------------------
(***************************************************************************)
(* No row ever names a parent without a row, however many clients create,  *)
(* move, rename and remove categories at the same time.                    *)
(*                                                                         *)
(* As long as no update has changed an id, the categories stay a forest,   *)
(* however many there are and however often they are moved and read, if    *)
(* one client makes its requests one after the other.  The flags, the      *)
(* cached tree, and the parent and active flag of cached categories agree  *)
(* with the rows after every request, and getProducts finds the whole      *)
(* subtree that shows.                                                     *)
(*                                                                         *)
(* The first part is about forests, walks and flags without the requests;  *)
(* then there are two lemmas per action, which say what the action keeps   *)
(* of the shapes and of the rest of the invariant; the theorems are last.  *)
(***************************************************************************)
EXTENDS CategoryHierarchy, SequenceTheorems, TLAPS

-----------------------------------------------------------------------------
(* Forests *)

\* A category moves below p.  The walk has seen a set V with p in it, closed under
\* parents, without the category; or p is no category at all.
LEMMA ForestMove ==
    ASSUME NEW nodes, NEW up, NEW new, NEW c \in nodes, NEW V \in SUBSET nodes,
           NoParent \notin nodes, Forest(nodes, up),
           c \notin V, new[c] \in V \cup {NoParent},
           \A v \in V : up[v] \in V \cup {NoParent},
           \A d \in nodes \ {c} : new[d] = up[d]
    PROVE  Forest(nodes, new)
<1> SUFFICES ASSUME NEW S \in SUBSET nodes, S # {}
             PROVE  \E d \in S : new[d] \notin S
  BY DEF Forest
<1>1. CASE c \notin S
  BY <1>1 DEF Forest
<1>2. CASE c \in S /\ new[c] \notin S
  BY <1>2
<1>3. CASE c \in S /\ new[c] \in S
  <2>1. S \cap V # {} /\ S \cap V \in SUBSET nodes
    BY <1>3
  <2>2. PICK d \in S \cap V : up[d] \notin S \cap V
    BY <2>1 DEF Forest
  <2>3. d # c /\ new[d] = up[d] /\ up[d] \in V \cup {NoParent}
    BY <2>2
  <2>4. new[d] \notin S
    BY <2>2, <2>3
  <2> QED BY <2>2, <2>4
<1> QED BY <1>1, <1>2, <1>3

\* A new category has no category below it.
LEMMA ForestGrow ==
    ASSUME NEW nodes, NEW up, NEW new, NEW c, c \notin nodes,
           NoParent \notin nodes, c # NoParent, Forest(nodes, up),
           new[c] \in nodes \cup {NoParent},
           \A d \in nodes : up[d] \in nodes \cup {NoParent},
           \A d \in nodes : new[d] = up[d]
    PROVE  Forest(nodes \cup {c}, new)
<1> SUFFICES ASSUME NEW S \in SUBSET (nodes \cup {c}), S # {}
             PROVE  \E d \in S : new[d] \notin S
  BY DEF Forest
<1>1. CASE S \cap nodes = {}
  <2>1. S = {c}
    BY <1>1
  <2> QED BY <2>1
<1>2. CASE S \cap nodes # {}
  <2>1. PICK d \in S \cap nodes : up[d] \notin S \cap nodes
    BY <1>2 DEF Forest
  <2>2. new[d] \notin S
    BY <2>1
  <2> QED BY <2>1, <2>2
<1> QED BY <1>1, <1>2

\* Categories that lose their parent, or go, leave a forest.
LEMMA ForestCut ==
    ASSUME NEW nodes, NEW up, NEW new, NEW less \in SUBSET nodes,
           NoParent \notin nodes, Forest(nodes, up),
           \A d \in less : new[d] \in {up[d], NoParent}
    PROVE  Forest(less, new)
<1> SUFFICES ASSUME NEW S \in SUBSET less, S # {}
             PROVE  \E d \in S : new[d] \notin S
  BY DEF Forest
<1>1. PICK d \in S : up[d] \notin S
  BY DEF Forest
<1> QED BY <1>1

-----------------------------------------------------------------------------
(* Requests *)

\* A set of one element, and the values requests carry in such sets.
LEMMA TheOne == ASSUME NEW x PROVE (CHOOSE y \in {x} : TRUE) = x
  OBVIOUS

LEMMA TheFacts ==
    ASSUME NEW absent PROVE /\ The({}, absent) = absent
                            /\ \A x : The({x}, absent) = x
  BY TheOne DEF The

LEMMA ActiveFacts ==
    ASSUME NEW absent \in BOOLEAN, NEW s, s = {} \/ \E b \in BOOLEAN : s = {b}
    PROVE  The(s, absent) \in BOOLEAN
<1>1. CASE s = {}
  BY <1>1, TheFacts
<1>2. ASSUME NEW b \in BOOLEAN, s = {b} PROVE The(s, absent) \in BOOLEAN
  <2>1. The({b}, absent) = b
    BY ONLY TheFacts
  <2> QED BY ONLY <1>2, <2>1
<1> QED BY <1>1, <1>2

\* What a request asks for.
LEMMA CallFacts ==
    ASSUME NEW c \in CallType
    PROVE  /\ c.op \in {"create", "update", "remove", "find", "products", "breadcrumb",
                        "path", "bulkUpdateStatus", "tree"}
           /\ c.ids \in SUBSET Categories
           /\ c.op \in {"update", "remove", "find", "products", "breadcrumb", "path"} =>
                 \E d \in Categories : c.ids = {d}
           /\ c.op = "create" => \E p \in Parent : c.to = {p}
           /\ c.op = "update" => c.to = {} \/ \E p \in Parent : c.to = {p}
           /\ c.active = {} \/ \E b \in BOOLEAN : c.active = {b}
           /\ c.key = {} \/ \E k \in Categories : c.key = {k}
  BY DEF CallType

\* Whether the categories form a forest depends on their parents only.
LEMMA ParentsKept ==
    ASSUME NoCycle, ~rekeyed, alive' = alive, \A c \in alive : row'[c].parent = row[c].parent
    PROVE  NoCycle'
  BY DEF NoCycle, Forest

\* Switching a category on or off leaves it where it is.
LEMMA Switched ==
    ASSUME NEW x \in Row, NEW b \in BOOLEAN
    PROVE  /\ [x EXCEPT !.active = b] \in Row
           /\ [x EXCEPT !.active = b].parent = x.parent
           /\ [x EXCEPT !.active = b].deleted = x.deleted
           /\ [x EXCEPT !.active = b].flag = x.flag
  BY DEF Row

\* Writing the flag leaves a category where it is.
LEMMA Flagged ==
    ASSUME NEW x \in Row, NEW b \in BOOLEAN
    PROVE  /\ [x EXCEPT !.flag = b] \in Row
           /\ [x EXCEPT !.flag = b].parent = x.parent
           /\ [x EXCEPT !.flag = b].deleted = x.deleted
           /\ [x EXCEPT !.flag = b].active = x.active
           /\ [x EXCEPT !.flag = b].flag = b
  BY DEF Row

\* What a sequence names.
Names(s, x) == \E i \in DOMAIN s : s[i] = x

\* The categories named by a list of at most one.
LEMMA OneFacts ==
    ASSUME NEW S, NEW c \in S \cup {NoParent}
    PROVE  One(c) \in Seq(S) /\ (c # NoParent => One(c) # << >> /\ Names(One(c), c))
  BY DEF One, Names

\* A list made of two names what either names.
LEMMA ConcatNames ==
    ASSUME NEW S, NEW s \in Seq(S), NEW t \in Seq(S), NEW x, Names(s, x) \/ Names(t, x)
    PROVE  Names(s \o t, x)
<1>1. CASE Names(s, x)
  <2>1. PICK i \in 1..Len(s) : s[i] = x
    BY <1>1 DEF Names
  <2>2. i \in 1..Len(s \o t) /\ (s \o t)[i] = x
    BY <2>1, ConcatProperties
  <2> QED BY <2>2, ConcatProperties DEF Names
<1>2. CASE Names(t, x)
  <2>1. PICK i \in 1..Len(t) : t[i] = x
    BY <1>2 DEF Names
  <2>2. Len(s) + i \in 1..Len(s \o t) /\ (s \o t)[Len(s) + i] = x
    BY <2>1, ConcatProperties
  <2> QED BY <2>2, ConcatProperties DEF Names
<1> QED BY <1>1, <1>2

\* The rest of a list names what the list names, but for its head.
LEMMA TailNames ==
    ASSUME NEW S, NEW s \in Seq(S), s # << >>, NEW x, x # Head(s), Names(s, x)
    PROVE  Tail(s) # << >> /\ Names(Tail(s), x)
<1>1. PICK i \in 1..Len(s) : s[i] = x
  BY DEF Names
<1>2. Head(s) = s[1] /\ Len(s) \in Nat /\ i \in Int
  BY <1>1
<1>3. i - 1 \in 1..(Len(s) - 1) /\ (i - 1) + 1 = i
  BY <1>1, <1>2
<1> DEFINE t == Tail(s)
<1>4. t \in Seq(S) /\ Len(t) = Len(s) - 1 /\ \A j \in 1..Len(t) : t[j] = s[j + 1]
  BY HeadTailProperties
<1> HIDE DEF t
<1>5. i - 1 \in 1..Len(t) /\ t[i - 1] = x
  BY <1>1, <1>3, <1>4
<1>6. i - 1 \in DOMAIN t /\ t # << >>
  BY <1>4, <1>5
<1> QED BY <1>5, <1>6 DEF Names, t

\* An update that names a parent recomputes the flags of the category and of both
\* its parents.
LEMMA FlagsTodoFacts ==
    ASSUME NEW r, NEW S, Id(r) \in S, OldParent(r) \in S \cup {NoParent},
           Target(r) \in S \cup {NoParent}, NoParent \notin S
    PROVE  /\ FlagsTodo(r) \in Seq(S)
           /\ call[r].to # {} =>
                 /\ FlagsTodo(r) # << >>
                 /\ \A x \in {OldParent(r), Target(r)} \ {NoParent} : Names(FlagsTodo(r), x)
<1> DEFINE s == <<Id(r)>>
           t == One(OldParent(r))
           u == One(Target(r))
<1>1. s \in Seq(S) /\ t \in Seq(S) /\ u \in Seq(S) /\ Names(s, Id(r))
  BY OneFacts DEF Names
<1>2. /\ OldParent(r) # NoParent => Names(t, OldParent(r))
      /\ Target(r) # NoParent => Names(u, Target(r))
  BY OneFacts
<1> HIDE DEF s, t, u
<1>3. s \o t \in Seq(S)
  BY <1>1, ConcatProperties
<1>4. s \o t \o u \in Seq(S)
  BY <1>1, <1>3, ConcatProperties
<1>5. /\ Names(s \o t \o u, Id(r))
      /\ OldParent(r) # NoParent => Names(s \o t \o u, OldParent(r))
      /\ Target(r) # NoParent => Names(s \o t \o u, Target(r))
  BY <1>1, <1>2, <1>3, ConcatNames
<1>6. s \o t \o u # << >>
  BY <1>4, <1>5 DEF Names
<1>7. << >> \in Seq(S)
  OBVIOUS
<1> QED BY <1>4, <1>5, <1>6, <1>7 DEF FlagsTodo, s, t, u

\* What the request of a client names.
Named(r) ==
    /\ call[r] \in CallType
    /\ call[r].ids \in SUBSET Categories
    /\ call[r].op \in {"update", "remove", "find", "products", "breadcrumb", "path"} =>
          Id(r) \in Categories /\ call[r].ids = {Id(r)}
    /\ call[r].op = "create" => Target(r) \in Parent /\ call[r].to = {Target(r)}
    /\ call[r].op = "update" =>
          call[r].to = {} \/ (Target(r) \in Parent /\ call[r].to = {Target(r)})

\* What a request that is an update, a creation, ... carries.
LEMMA Asked ==
    ASSUME Typed, NEW r \in Clients, pc[r] # "idle"
    PROVE  Named(r)
<1>1. call[r] \in CallType
  BY DEF Typed, Sound, Dispatched, Stage, Informed
<1>2. ASSUME call[r].op \in {"update", "remove", "find", "products", "breadcrumb", "path"}
      PROVE  Id(r) \in Categories /\ call[r].ids = {Id(r)}
  <2>1. PICK d \in Categories : call[r].ids = {d}
    BY <1>1, <1>2, CallFacts
  <2> QED BY <2>1, TheOne DEF Id
<1>3. ASSUME NEW p, call[r].to = {p}
      PROVE  Target(r) = p
  BY <1>3, TheFacts DEF Target
<1>4. call[r].ids \in SUBSET Categories
  BY <1>1, CallFacts
<1>5. call[r].op = "create" => \E p \in Parent : call[r].to = {p}
  BY <1>1, CallFacts
<1>6. call[r].op = "update" => call[r].to = {} \/ \E p \in Parent : call[r].to = {p}
  BY <1>1, CallFacts
<1> QED BY <1>1, <1>2, <1>3, <1>4, <1>5, <1>6 DEF Named

\* What findById has read is still so.
LEMMA Found ==
    ASSUME Sound, NEW r \in Clients,
           \/ pc[r] \in {"fill", "walk", "write", "count", "erase"}
           \/ pc[r] = "parent" /\ call[r].op = "update"
    PROVE  Fresh(Id(r), seen[r])
  BY DEF Sound, Informed

\* What is counted is true or false.
LEMMA Booleans == \A c : HasSubcategories(c) \in BOOLEAN
  BY DEF HasSubcategories

\* What is read of the rows is still so while they stay.
LEMMA RowsKept ==
    ASSUME row' = row, alive' = alive
    PROVE  /\ Shown' = Shown
           /\ \A c : /\ Snapshot(c)' = Snapshot(c)
                     /\ HasSubcategories(c)' = HasSubcategories(c)
                     /\ Showing(c)' = Showing(c)
  BY DEF Shown, Snapshot, HasSubcategories, Showing

LEMMA ShownType == Typed => Shown \in SUBSET (Categories \X Parent)
  BY DEF Typed, Sound, TypeOK, Shown, Row

\* The answer of findById is what the row says.
LEMMA FreshFacts ==
    ASSUME NEW r \in Clients, NEW c, Fresh(c, seen[r])
    PROVE  /\ c \in alive /\ ~row[c].deleted
           /\ OldParent(r) = row[c].parent
           /\ (CHOOSE s \in seen[r] : TRUE).active = row[c].active
<1>1. (CHOOSE s \in seen[r] : TRUE) = Snapshot(c)
  BY TheOne DEF Fresh
<1>2. Snapshot(c).parent = row[c].parent /\ Snapshot(c).active = row[c].active
  BY DEF Snapshot
<1>3. OldParent(r) = row[c].parent
  BY ONLY <1>1, <1>2, Zenon DEF OldParent
<1>4. (CHOOSE s \in seen[r] : TRUE).active = row[c].active
  BY ONLY <1>1, <1>2, Zenon
<1> QED BY <1>3, <1>4 DEF Fresh

-----------------------------------------------------------------------------
(* The first state *)

\* The rows are a forest with exact flags, nothing is cached, nobody asks.
LEMMA InitInv == Init => Typed /\ Sound /\ ~rekeyed
<1> SUFFICES ASSUME Init PROVE Typed /\ Sound /\ ~rekeyed
  OBVIOUS
<1> USE NoParentAssumption
<1>1. PICK up \in [alive -> alive \cup {NoParent}], on \in [alive -> BOOLEAN] :
        /\ Forest(alive, up)
        /\ row = [c \in Categories |->
                    IF c \in alive
                    THEN [parent |-> up[c], active |-> on[c], deleted |-> FALSE,
                          flag |-> \E d \in alive : up[d] = c]
                    ELSE Blank]
  BY DEF Init
<1>2. \A c \in Categories : row[c] \in Row /\ row[c].parent \in alive \cup {NoParent}
  BY <1>1 DEF Init, Row, Parent, Blank
<1>3. row \in [Categories -> Row]
  BY <1>1, <1>2
<1>4. TypeOK
  BY <1>2, <1>3 DEF Init, TypeOK
<1>5. Shapes
  BY DEF Init, Shapes, Steps, Parent
<1>6. NoCycle
  <2>1. \A c \in alive : row[c].parent = up[c]
    BY <1>1 DEF Init
  <2> QED BY <1>1, <2>1 DEF NoCycle, Forest
<1>7. EntriesFresh /\ TreeFresh
  BY DEF Init, EntriesFresh, TreeFresh
<1>8. Dispatched /\ Informed
  BY DEF Init, Dispatched, Stage, Informed, Flagging
<1>9. FlagsNamed
  <2>1. \A c \in alive : row[c].flag <=> \E d \in alive : up[d] = c
    BY <1>1 DEF Init
  <2>2. \A c \in alive : row[c].parent = up[c] /\ ~row[c].deleted
    BY <1>1 DEF Init
  <2>3. \A c \in alive : row[c].flag <=> HasSubcategories(c)
    BY <2>1, <2>2 DEF HasSubcategories
  <2> QED BY <2>3 DEF Init, FlagsNamed, Flagging
<1>10. WalksSound /\ DescentsSound
  BY DEF Init, WalksSound, DescentsSound
<1>11. ~rekeyed
  BY DEF Init
<1> QED BY <1>4, <1>5, <1>6, <1>7, <1>8, <1>9, <1>10, <1>11 DEF Typed, Sound

-----------------------------------------------------------------------------
(* The shapes, for any number of clients *)

\* A step of one client leaves the others where they are.
LEMMA Elsewhere ==
    ASSUME Typed, NEW r \in Clients, Stage(r)',
           \A q \in Clients \ {r} :
              /\ pc'[q] = pc[q] /\ call'[q] = call[q] /\ seen'[q] = seen[q]
              /\ at'[q] = at[q] /\ todo'[q] = todo[q]
    PROVE  Dispatched'
<1> SUFFICES ASSUME NEW q \in Clients, q # r PROVE Stage(q)'
  BY DEF Dispatched
<1>1. Stage(q)
  BY DEF Typed, Dispatched
<1>2. /\ pc'[q] = pc[q] /\ call'[q] = call[q] /\ seen'[q] = seen[q]
      /\ at'[q] = at[q] /\ todo'[q] = todo[q]
  OBVIOUS
<1> QED BY ONLY <1>1, <1>2 DEF Stage

\* Which step follows findById for which request.
AfterFindFacts(r) ==
    /\ AfterFind(r) \in {"end", "count", "descend", "write", "parent"}
    /\ AfterFind(r) = "count" => call[r].op = "remove"
    /\ AfterFind(r) = "descend" => call[r].op = "products"
    /\ AfterFind(r) = "end" => call[r].op # "products"
    /\ AfterFind(r) \in {"write", "parent"} => call[r].op = "update"
    /\ AfterFind(r) = "write" => call[r].to \in {{}, {NoParent}}

LEMMA AfterFindLemma ==
    ASSUME NEW r, call[r].op \in {"find", "update", "remove", "products"}
    PROVE  AfterFindFacts(r)
  BY DEF AfterFind, AfterFindFacts

LEMMA BeginTyped ==
    ASSUME Typed, NEW r \in Clients, NEW c \in CallsOf[r], Begin(r, c)
    PROVE  Typed'
<1> USE NoParentAssumption DEF Begin, Goto, rows, caches, walk
<1>0. c \in CallType
  BY CallsOfAssumption
<1>a. /\ pc[r] = "idle" /\ call' = [call EXCEPT ![r] = c] /\ call'[r] = c
      /\ pc'[r] \in {"lookup", "climb", "insert", "parent", "status", "treeGet"}
      /\ pc'[r] = "lookup" => c.op \in {"find", "update", "remove", "products"}
      /\ pc'[r] = "insert" => c.op = "create"
      /\ pc'[r] = "parent" => c.op = "create"
      /\ pc'[r] = "status" => c.op = "bulkUpdateStatus"
      /\ pc'[r] = "climb" => c.op \in {"breadcrumb", "path"}
      /\ pc'[r] = "treeGet" => c.op = "tree"
      /\ pc' = [pc EXCEPT ![r] = pc'[r]]
      /\ UNCHANGED <<rows, caches, seen, walk, todo, many, left, view>>
  BY <1>0, CallFacts DEF Typed, TypeOK, Shapes
<1> HIDE DEF Begin
<1>1. TypeOK'
  BY <1>0, <1>a DEF Typed, TypeOK
<1>2. Shapes'
  BY <1>a DEF Typed, Shapes, Steps
<1>3. Stage(r)'
  BY <1>0, <1>a DEF Stage, Flagging
<1>4. Dispatched'
  BY <1>3, <1>a, Elsewhere DEF Typed, TypeOK, Shapes
<1> QED BY <1>1, <1>2, <1>4 DEF Typed

LEMMA LookupTyped ==
    ASSUME Typed, NEW r \in Clients, Lookup(r)
    PROVE  Typed'
<1>0. Named(r) /\ Stage(r)
  <2>1. pc[r] # "idle"
    BY DEF Lookup
  <2> QED BY <2>1, Asked DEF Typed, Dispatched
<1> USE NoParentAssumption DEF Lookup, Goto, rows, caches, walk
<1>a. Id(r) \in Categories /\ AfterFindFacts(r)
  BY <1>0, AfterFindLemma DEF Stage, Named
<1>b. /\ pc'[r] = (IF entry[Id(r)] = {} THEN "load" ELSE AfterFind(r))
      /\ pc' = [pc EXCEPT ![r] = pc'[r]] /\ seen'[r] = entry[Id(r)]
  BY DEF Typed, TypeOK, Shapes
<1>1. TypeOK'
  BY <1>a DEF Typed, TypeOK
<1>2. Shapes'
  BY <1>a, <1>b DEF Typed, Shapes, Steps, AfterFindFacts
<1>3. Stage(r)'
  BY <1>0, <1>a, <1>b DEF AfterFindFacts, Stage, Flagging
<1>4. Dispatched'
  BY <1>3, Elsewhere DEF Typed, TypeOK, Shapes
<1> QED BY <1>1, <1>2, <1>4 DEF Typed

LEMMA LoadTyped ==
    ASSUME Typed, NEW r \in Clients, Load(r)
    PROVE  Typed'
<1>0. Named(r) /\ Stage(r)
  <2>1. pc[r] # "idle"
    BY DEF Load
  <2> QED BY <2>1, Asked DEF Typed, Dispatched
<1> USE NoParentAssumption DEF Load, Goto, rows, caches, walk
<1>a. Id(r) \in Categories /\ Snapshot(Id(r)) \in Info
  BY <1>0 DEF Stage, Named, Typed, TypeOK, Snapshot, Info, Row
<1>1. TypeOK'
  BY <1>a DEF Typed, TypeOK
<1>2. Shapes'
  BY DEF Typed, Shapes, Steps
<1>3. Stage(r)'
  <2>1. /\ call'[r] = call[r]
        /\ pc'[r] = "end" \/ (pc'[r] = "fill" /\ seen'[r] # {})
    <3>1. \/ call' = call /\ pc' = [pc EXCEPT ![r] = "end"]
          \/ /\ call' = call /\ pc' = [pc EXCEPT ![r] = "fill"]
             /\ seen' = [seen EXCEPT ![r] = {Snapshot(Id(r))}]
      BY Zenon
    <3>2. pc \in [Clients -> Steps] /\ seen \in [Clients -> {{}} \cup {{i} : i \in Info}]
      BY DEF Typed, TypeOK, Shapes
    <3> HIDE DEF Load
    <3> QED BY <3>1, <3>2
  <2> QED BY <1>0, <2>1 DEF Stage, Flagging
<1>4. Dispatched'
  BY <1>3, Elsewhere DEF Typed, TypeOK, Shapes
<1> QED BY <1>1, <1>2, <1>4 DEF Typed

LEMMA FillTyped ==
    ASSUME Typed, NEW r \in Clients, Fill(r)
    PROVE  Typed'
<1>0. Named(r) /\ Stage(r)
  <2>1. pc[r] # "idle"
    BY DEF Fill
  <2> QED BY <2>1, Asked DEF Typed, Dispatched
<1> USE NoParentAssumption DEF Fill, Goto, rows, caches, walk
<1>a. Id(r) \in Categories /\ AfterFindFacts(r)
  BY <1>0, AfterFindLemma DEF Stage, Named
<1>b. pc'[r] = AfterFind(r) /\ pc' = [pc EXCEPT ![r] = pc'[r]]
  BY DEF Typed, Shapes
<1>1. TypeOK'
  BY <1>a DEF Typed, TypeOK
<1>2. Shapes'
  BY <1>a, <1>b DEF Typed, Shapes, Steps, AfterFindFacts
<1>3. Stage(r)'
  BY <1>0, <1>a, <1>b DEF AfterFindFacts, Stage, Flagging
<1>4. Dispatched'
  BY <1>3, Elsewhere DEF Typed, TypeOK, Shapes
<1> QED BY <1>1, <1>2, <1>4 DEF Typed

LEMMA ParentExistsTyped ==
    ASSUME Typed, NEW r \in Clients, ParentExists(r)
    PROVE  Typed'
<1>0. Named(r) /\ Stage(r)
  <2>1. pc[r] # "idle"
    BY DEF ParentExists
  <2> QED BY <2>1, Asked DEF Typed, Dispatched
<1> USE NoParentAssumption DEF ParentExists, Goto, rows, caches, walk
<1>a. Target(r) \in Parent
  <2>1. call[r].to = {} => Target(r) = NoParent
    BY TheFacts DEF Target
  <2> QED BY <1>0, <2>1 DEF Named, Stage, Parent
<1>1. TypeOK'
  BY DEF Typed, TypeOK
<1>2. Shapes'
  BY <1>a DEF Typed, Shapes, Steps
<1>3. Stage(r)'
  BY <1>0, <1>a DEF Typed, TypeOK, Shapes, Stage, Flagging
<1>4. Dispatched'
  BY <1>3, Elsewhere DEF Typed, TypeOK, Shapes
<1> QED BY <1>1, <1>2, <1>4 DEF Typed

LEMMA WalkTyped ==
    ASSUME Typed, NEW r \in Clients, Walk(r)
    PROVE  Typed'
<1>0. Named(r) /\ Stage(r)
  <2>1. pc[r] # "idle"
    BY DEF Walk
  <2> QED BY <2>1, Asked DEF Typed, Dispatched
<1> USE NoParentAssumption DEF Walk, Goto, rows, caches, walk
<1>a. /\ at[r] \in Categories /\ row[at[r]].parent \in alive \cup {NoParent}
      /\ row[at[r]].parent \in Parent /\ alive \subseteq Categories
  BY <1>0 DEF Stage, Typed, TypeOK, Parent
<1>1. TypeOK'
  BY DEF Typed, TypeOK
<1>2. Shapes'
  BY <1>a DEF Typed, Shapes, Steps
<1>3. Stage(r)'
  BY <1>0, <1>a DEF Typed, TypeOK, Shapes, Stage, Flagging
<1>4. Dispatched'
  BY <1>3, Elsewhere DEF Typed, TypeOK, Shapes
<1> QED BY <1>1, <1>2, <1>4 DEF Typed

\* A category gets its id, its parent and its flag in one statement; the rows below
\* it follow the id.

LEMMA WriteTyped ==
    ASSUME Typed, NEW r \in Clients, Write(r)
    PROVE  Typed'
<1>0. Named(r) /\ Stage(r) /\ pc[r] = "write"
  <2>1. pc[r] = "write"
    BY DEF Write
  <2> QED BY <2>1, Asked DEF Typed, Dispatched
<1> DEFINE c == Id(r)
           k == The(call[r].key, c)
           p == The(call[r].to, OldParent(r))
           new == [row[c] EXCEPT !.parent = IF p = c THEN k ELSE p,
                                 !.active = The(call[r].active, @)]
<1>a. /\ c \in Categories /\ k \in Categories /\ NoParent \notin Categories
      /\ OldParent(r) \in Parent /\ Target(r) \in Parent
  <2>1. call[r] \in CallType /\ call[r].op = "update" /\ c \in Categories
    <3>1. call[r].op = "update"
      BY <1>0 DEF Stage
    <3> QED BY <1>0, <3>1 DEF Named
  <2>2. k \in Categories
    <3>1. call[r].key = {} \/ \E d \in Categories : call[r].key = {d}
      BY <2>1, CallFacts
    <3> QED BY <2>1, <3>1, TheFacts
  <2>3. seen[r] # {} /\ seen[r] \in {{}} \cup {{i} : i \in Info}
    BY <1>0 DEF Stage, Typed, TypeOK
  <2>4. (CHOOSE s \in seen[r] : TRUE) \in Info
    BY <2>3
  <2>5. OldParent(r) \in Parent
    BY <2>4 DEF OldParent, Info
  <2>6. call[r].to = {} => Target(r) = NoParent
    BY TheFacts DEF Target
  <2>7. Target(r) \in Parent
    BY <1>0, <2>1, <2>6 DEF Named, Parent
  <2> QED BY <2>1, <2>2, <2>5, <2>7, NoParentAssumption
<1>b. FlagsTodo(r) \in Seq(Categories)
  BY <1>a, FlagsTodoFacts DEF Parent
<1>c. \/ /\ c \in alive /\ p \in alive \cup {k, NoParent} /\ (k # c => k \notin alive)
         /\ row' = Rewritten(c, k, new)
         /\ alive' = (alive \ {c}) \cup {k}
         /\ unborn' = unborn \ {k} /\ rekeyed' = (rekeyed \/ k # c)
         /\ todo' = [todo EXCEPT ![r] = FlagsTodo(r)]
         /\ left' = [left EXCEPT ![r] = {c}]
         /\ pc' = [pc EXCEPT ![r] = IF FlagsTodo(r) = << >> THEN "drop" ELSE "flagCount"]
      \/ pc' = [pc EXCEPT ![r] = "end"] /\ UNCHANGED <<rows, todo, left>>
  BY DEF Write, Goto
<1>d. UNCHANGED <<caches, call, seen, walk, many, view>>
  BY DEF Write
<1>e. c \in alive => The(call[r].active, row[c].active) \in BOOLEAN
  <2>1. call[r] \in CallType /\ row[c].active \in BOOLEAN
    BY <1>0, <1>a DEF Named, Typed, TypeOK, Row
  <2>2. call[r].active = {} \/ \E b \in BOOLEAN : call[r].active = {b}
    BY <2>1, CallFacts
  <2> QED BY <2>1, <2>2, ActiveFacts
<1>f. ASSUME c \in alive, p \in alive \cup {k, NoParent}
      PROVE  /\ new \in Row
             /\ new.parent = IF p = c THEN k ELSE p
             /\ new.active = The(call[r].active, row[c].active)
             /\ new.deleted = row[c].deleted /\ new.flag = row[c].flag
  <2>1. row[c] \in Row /\ p \in Parent /\ k \in Parent
    BY <1>a, <1>f DEF Typed, TypeOK, Parent
  <2> HIDE DEF p, k, c
  <2> QED BY <1>e, <1>f, <2>1 DEF Row
<1> HIDE DEF p, k, c, new
<1>1. TypeOK'
  <2>1. CASE UNCHANGED rows /\ UNCHANGED left
    BY <2>1, <1>d DEF rows, caches, walk, Typed, TypeOK
  <2>2. CASE /\ c \in alive /\ p \in alive \cup {k, NoParent} /\ (k # c => k \notin alive)
             /\ row' = Rewritten(c, k, new) /\ alive' = (alive \ {c}) \cup {k}
             /\ unborn' = unborn \ {k} /\ rekeyed' = (rekeyed \/ k # c)
             /\ left' = [left EXCEPT ![r] = {c}]
    <3>1. row \in [Categories -> Row] /\ alive \subseteq Categories
            /\ \A d \in Categories : row[d].parent \in alive \cup {NoParent}
      BY DEF Typed, TypeOK
    <3>2. Blank \in Row /\ Blank.parent = NoParent
      BY DEF Blank, Row, Parent
    <3>3. ASSUME NEW d \in Categories, NEW q \in Parent
          PROVE  [row[d] EXCEPT !.parent = q] \in Row /\ [row[d] EXCEPT !.parent = q].parent = q
      BY <3>1 DEF Row
    <3>4. ASSUME NEW d \in Categories
          PROVE  row'[d] \in Row /\ row'[d].parent \in alive' \cup {NoParent}
      <4>1. CASE d = k
        <5>1. row'[d] = new
          BY <2>2, <4>1 DEF Rewritten
        <5>2. new \in Row /\ new.parent \in alive' \cup {NoParent}
          BY <1>f, <2>2
        <5> QED BY <5>1, <5>2
      <4>2. CASE d # k /\ d = c
        <5>1. row'[d] = Blank
          BY <2>2, <4>2 DEF Rewritten
        <5> QED BY <3>2, <5>1
      <4>3. CASE d # k /\ d # c
        <5> DEFINE q == IF row[d].parent = c THEN k ELSE row[d].parent
        <5>1. row'[d] = [row[d] EXCEPT !.parent = q]
          BY <2>2, <4>3 DEF Rewritten
        <5>2. q \in Parent /\ q \in alive' \cup {NoParent}
          BY <1>a, <2>2, <3>1 DEF Parent
        <5> HIDE DEF q
        <5> QED BY <3>3, <5>1, <5>2
      <4> QED BY <4>1, <4>2, <4>3
    <3>5. row' \in [Categories -> Row]
      <4>1. row' = [d \in Categories |-> row'[d]]
        BY <2>2 DEF Rewritten
      <4> QED BY <3>4, <4>1
    <3>6. /\ alive' \in SUBSET Categories
          /\ unborn' \in SUBSET (Categories \ alive') /\ rekeyed' \in BOOLEAN
          /\ left' \in [Clients -> SUBSET Categories]
      BY <1>a, <2>2, <3>1 DEF Typed, TypeOK
    <3> QED BY <1>d, <3>4, <3>5, <3>6 DEF caches, walk, Typed, TypeOK
  <2> QED BY <1>c, <2>1, <2>2
<1>2. Shapes'
  <2>1. pc' \in [Clients -> Steps]
    BY <1>c DEF Typed, Shapes, Steps
  <2>2. todo' \in [Clients -> Seq(Categories)]
    BY <1>b, <1>c DEF Typed, Shapes
  <2> QED BY <1>d, <2>1, <2>2 DEF walk, Typed, Shapes
<1>g. /\ pc'[r] \in {"drop", "flagCount", "end"} /\ call'[r] = call[r]
      /\ pc'[r] = "flagCount" => todo'[r] # << >>
  BY <1>c, <1>d DEF Typed, Shapes
<1>3. Stage(r)'
  BY <1>0, <1>g DEF Stage, Flagging
<1>4. Dispatched'
  BY <1>3, <1>c, <1>d, Elsewhere DEF walk, Typed, TypeOK, Shapes
<1> QED BY <1>1, <1>2, <1>4 DEF Typed

LEMMA CreateTyped ==
    ASSUME Typed, NEW r \in Clients, Create(r)
    PROVE  Typed'
<1>0. Named(r) /\ Stage(r) /\ pc[r] = "insert"
  <2>1. pc[r] = "insert"
    BY DEF Create
  <2> QED BY <2>1, Asked DEF Typed, Dispatched
<1> USE NoParentAssumption DEF Goto, rows, caches, walk
<1>a. call[r] \in CallType /\ call[r].op = "create" /\ Target(r) \in Parent
  BY <1>0 DEF Stage, Named
<1>b. CASE UNCHANGED <<rows, caches, call, seen, walk, todo, many, left, view>>
            /\ pc' = [pc EXCEPT ![r] = "end"]
  <2>1. TypeOK'
    BY <1>b DEF Typed, TypeOK
  <2>2. Shapes'
    BY <1>b DEF Typed, Shapes, Steps
  <2>3. Stage(r)'
    BY <1>b, <1>a DEF Typed, Shapes, Stage, Flagging
  <2>4. Dispatched'
    BY <1>b, <2>3, Elsewhere DEF Typed, Shapes
  <2> QED BY <2>1, <2>2, <2>4 DEF Typed
<1>c. CASE \E c \in unborn : Insert(r, c)
  <2> PICK c \in unborn : Insert(r, c)
    BY <1>c
  <2>1. /\ c \in Categories /\ c \notin alive /\ c # NoParent
        /\ alive' = alive \cup {c} /\ unborn' = unborn \ {c} /\ rekeyed' = rekeyed
        /\ Target(r) \in alive \cup {NoParent}
        /\ UNCHANGED <<caches, call, seen, walk, many, left, view>>
    BY DEF Typed, TypeOK, Insert
  <2>2. The(call[r].active, TRUE) \in BOOLEAN
    BY <1>a, CallFacts, ActiveFacts
  <2>3. /\ row' \in [Categories -> Row]
        /\ row'[c].parent = Target(r)
        /\ \A d \in Categories \ {c} : row'[d] = row[d]
    BY <1>a, <2>1, <2>2 DEF Typed, TypeOK, Insert, Blank, Row
  <2>4. /\ pc' = [pc EXCEPT ![r] = IF Target(r) = NoParent THEN "dropTree" ELSE "flagCount"]
        /\ todo' = [todo EXCEPT ![r] = One(Target(r))]
    BY DEF Insert
  <2>5. One(Target(r)) \in Seq(Categories) /\ (Target(r) # NoParent => One(Target(r)) # << >>)
    BY <1>a, OneFacts DEF Parent
  <2>6. TypeOK'
    BY <2>1, <2>3, <1>a DEF Typed, TypeOK
  <2>7. Shapes'
    BY <2>1, <2>4, <2>5 DEF Typed, Shapes, Steps
  <2>8. Stage(r)'
    BY <1>a, <2>1, <2>4, <2>5 DEF Typed, Shapes, Stage, Flagging
  <2>9. Dispatched'
    BY <2>1, <2>4, <2>8, Elsewhere DEF Typed, Shapes
  <2> QED BY <2>6, <2>7, <2>9 DEF Typed
<1> QED BY <1>b, <1>c DEF Create

LEMMA CountChildrenTyped ==
    ASSUME Typed, NEW r \in Clients, CountChildren(r)
    PROVE  Typed'
<1>0. Named(r) /\ Stage(r)
  <2>1. pc[r] # "idle"
    BY DEF CountChildren
  <2> QED BY <2>1, Asked DEF Typed, Dispatched
<1> USE NoParentAssumption DEF CountChildren, Goto, rows, caches, walk
<1>1. TypeOK'
  BY <1>0 DEF Typed, TypeOK, Stage, Named
<1>2. Shapes'
  BY <1>0, Booleans, ShownType DEF Typed, TypeOK, Shapes, Steps, Stage, Named, Parent, Row
<1>3. Stage(r)'
  BY <1>0 DEF Typed, TypeOK, Shapes, Stage, Named, Flagging
<1>4. Dispatched'
  BY <1>3, Elsewhere DEF Typed, TypeOK, Shapes
<1> QED BY <1>1, <1>2, <1>4 DEF Typed

LEMMA EraseTyped ==
    ASSUME Typed, NEW r \in Clients, Erase(r)
    PROVE  Typed'
<1>0. Named(r) /\ Stage(r) /\ pc[r] = "erase"
  <2>1. pc[r] = "erase"
    BY DEF Erase
  <2> QED BY <2>1, Asked DEF Typed, Dispatched
<1> USE NoParentAssumption DEF Goto, rows, caches, walk
<1> DEFINE c == Id(r)
           old == OldParent(r)
<1>a. c \in Categories /\ old \in Parent /\ call[r] \in CallType /\ call[r].op = "remove"
  <2>1. seen[r] # {} /\ seen[r] \in {{}} \cup {{i} : i \in Info}
    BY <1>0 DEF Stage, Typed, TypeOK
  <2>2. (CHOOSE s \in seen[r] : TRUE) \in Info
    BY <2>1
  <2> QED BY <1>0, <2>2 DEF Stage, Named, OldParent, Info
<1>b. \/ /\ \/ row' = [row EXCEPT ![c].active = FALSE, ![c].deleted = TRUE] /\ alive' = alive
            \/ row' = Erased(c) /\ alive' = alive \ {c}
         /\ todo' = [todo EXCEPT ![r] = One(old)]
         /\ left' = [left EXCEPT ![r] = {c}]
         /\ pc' = [pc EXCEPT ![r] = IF old = NoParent THEN "drop" ELSE "flagCount"]
      \/ /\ pc' = [pc EXCEPT ![r] = "end"]
         /\ row' = row /\ alive' = alive /\ todo' = todo /\ left' = left
  BY DEF Erase
<1>c. UNCHANGED <<unborn, rekeyed, caches, call, seen, walk, many, view>>
  BY DEF Erase
<1>d. One(old) \in Seq(Categories) /\ (old # NoParent => One(old) # << >>)
  BY <1>a, OneFacts DEF Parent
<1>e. row \in [Categories -> Row] /\ alive \subseteq Categories
        /\ \A d \in Categories : row[d].parent \in alive \cup {NoParent}
  BY DEF Typed, TypeOK
<1> HIDE DEF c, old
<1>f. /\ row' \in [Categories -> Row] /\ alive' \subseteq alive
      /\ \A d \in Categories : row'[d].parent \in alive' \cup {NoParent}
  <2>1. CASE row' = [row EXCEPT ![c].active = FALSE, ![c].deleted = TRUE] /\ alive' = alive
    <3>1. [row[c] EXCEPT !.active = FALSE, !.deleted = TRUE] \in Row
            /\ [row[c] EXCEPT !.active = FALSE, !.deleted = TRUE].parent = row[c].parent
      BY <1>a, <1>e DEF Row
    <3>2. row' = [row EXCEPT ![c] = [row[c] EXCEPT !.active = FALSE, !.deleted = TRUE]]
      BY <1>a, <1>e, <2>1
    <3> QED BY <1>a, <1>e, <2>1, <3>1, <3>2
  <2>2. CASE row' = Erased(c) /\ alive' = alive \ {c}
    <3>1. Blank \in Row /\ Blank.parent = NoParent
      BY DEF Blank, Row, Parent
    <3>2. \A d \in Categories : /\ [row[d] EXCEPT !.parent = NoParent] \in Row
                                /\ [row[d] EXCEPT !.parent = NoParent].parent = NoParent
      BY <1>e DEF Row, Parent
    <3> QED BY <1>e, <2>2, <3>1, <3>2 DEF Erased
  <2>3. CASE row' = row /\ alive' = alive
    BY <1>e, <2>3
  <2> QED BY <1>b, <2>1, <2>2, <2>3
<1>1. TypeOK'
  <2>1. left' \in [Clients -> SUBSET Categories]
    BY <1>a, <1>b DEF Typed, TypeOK
  <2>2. unborn' \in SUBSET (Categories \ alive') /\ alive' \in SUBSET Categories
    BY <1>c, <1>e, <1>f DEF Typed, TypeOK
  <2> QED BY <1>c, <1>f, <2>1, <2>2 DEF Typed, TypeOK
<1>2. Shapes'
  <2>1. pc' \in [Clients -> Steps]
    BY <1>b DEF Typed, Shapes, Steps
  <2>2. todo' \in [Clients -> Seq(Categories)]
    BY <1>b, <1>d DEF Typed, Shapes
  <2> QED BY <1>c, <2>1, <2>2 DEF Typed, Shapes
<1>3. Stage(r)'
  BY <1>a, <1>b, <1>c, <1>d DEF Typed, Shapes, Stage, Flagging
<1>4. Dispatched'
  BY <1>b, <1>c, <1>3, Elsewhere DEF Typed, Shapes
<1> QED BY <1>1, <1>2, <1>4 DEF Typed

LEMMA UpdateStatusTyped ==
    ASSUME Typed, NEW r \in Clients, UpdateStatus(r)
    PROVE  Typed'
<1>0. Named(r) /\ Stage(r)
  <2>1. pc[r] # "idle"
    BY DEF UpdateStatus
  <2> QED BY <2>1, Asked DEF Typed, Dispatched
<1> USE NoParentAssumption DEF Goto, rows, caches, walk
<1> DEFINE on == The(call[r].active, FALSE)
<1>a. on \in BOOLEAN
  <2>1. call[r].active = {} \/ \E b \in BOOLEAN : call[r].active = {b}
    BY <1>0, CallFacts DEF Named
  <2> QED BY <2>1, ActiveFacts
<1>b. row \in [Categories -> Row]
  BY DEF Typed, TypeOK
<1>c. row' = [d \in Categories |-> IF d \in call[r].ids \cap alive
                                   THEN [row[d] EXCEPT !.active = on] ELSE row[d]]
  BY DEF UpdateStatus
<1> HIDE DEF on
<1>d. \A d \in Categories : /\ [row[d] EXCEPT !.active = on] \in Row
                            /\ [row[d] EXCEPT !.active = on].parent = row[d].parent
  BY <1>a, <1>b, Switched
<1>e. row' \in [Categories -> Row] /\ \A d \in Categories : row'[d].parent = row[d].parent
  BY <1>b, <1>c, <1>d
<1>f. /\ UNCHANGED <<alive, unborn, rekeyed, caches, call, seen, walk, todo, many, view>>
      /\ left' = [left EXCEPT ![r] = call[r].ids] /\ pc' = [pc EXCEPT ![r] = "drop"]
      /\ pc[r] = "status"
  BY DEF UpdateStatus
<1>1. TypeOK'
  BY <1>0, <1>e, <1>f DEF Typed, TypeOK, Named
<1>2. Shapes'
  BY <1>f DEF Typed, Shapes, Steps
<1>3. Stage(r)'
  BY <1>0, <1>f DEF Typed, Shapes, Stage, Flagging
<1>4. Dispatched'
  BY <1>f, <1>3, Elsewhere DEF Typed, Shapes
<1> QED BY <1>1, <1>2, <1>4 DEF Typed

LEMMA FlagCountTyped ==
    ASSUME Typed, NEW r \in Clients, FlagCount(r)
    PROVE  Typed'
<1>0. Named(r) /\ Stage(r)
  <2>1. pc[r] # "idle"
    BY DEF FlagCount
  <2> QED BY <2>1, Asked DEF Typed, Dispatched
<1> USE NoParentAssumption DEF FlagCount, Goto, rows, caches, walk
<1>1. TypeOK'
  BY <1>0 DEF Typed, TypeOK, Stage, Named
<1>2. Shapes'
  BY <1>0, Booleans, ShownType DEF Typed, TypeOK, Shapes, Steps, Stage, Named, Parent, Row
<1>3. Stage(r)'
  BY <1>0 DEF Typed, TypeOK, Shapes, Stage, Named, Flagging
<1>4. Dispatched'
  BY <1>3, Elsewhere DEF Typed, TypeOK, Shapes
<1> QED BY <1>1, <1>2, <1>4 DEF Typed

LEMMA FlagWriteTyped ==
    ASSUME Typed, NEW r \in Clients, FlagWrite(r)
    PROVE  Typed'
<1>0. Named(r) /\ Stage(r) /\ pc[r] = "flagWrite"
  <2>1. pc[r] = "flagWrite"
    BY DEF FlagWrite
  <2> QED BY <2>1, Asked DEF Typed, Dispatched
<1> USE NoParentAssumption DEF Goto, rows, caches, walk
<1> DEFINE c == Head(todo[r])
           rest == Tail(todo[r])
<1>a. todo[r] \in Seq(Categories) /\ todo[r] # << >>
  BY <1>0 DEF Stage, Flagging, Typed, Shapes
<1>b. c \in Categories /\ rest \in Seq(Categories)
  BY <1>a, HeadTailProperties
<1>c. /\ \/ /\ row' = [row EXCEPT ![c].flag = many[r]]
            /\ pc' = [pc EXCEPT ![r] = IF rest # << >> THEN "flagCount"
                                       ELSE IF left[r] # {} THEN "drop" ELSE "dropTree"]
         \/ row' = row /\ pc' = [pc EXCEPT ![r] = "end"]
      /\ todo' = [todo EXCEPT ![r] = rest]
      /\ UNCHANGED <<alive, unborn, rekeyed, caches, call, seen, walk, many, left, view>>
  BY DEF FlagWrite
<1>d. row \in [Categories -> Row] /\ many[r] \in BOOLEAN
  BY DEF Typed, TypeOK, Shapes
<1>e. [row[c] EXCEPT !.flag = many[r]] \in Row
        /\ [row[c] EXCEPT !.flag = many[r]].parent = row[c].parent
  BY <1>b, <1>d, Flagged
<1> HIDE DEF c, rest
<1>f. row' \in [Categories -> Row] /\ \A d \in Categories : row'[d].parent = row[d].parent
  <2>1. CASE row' = row
    BY <1>d, <2>1
  <2>2. CASE row' = [row EXCEPT ![c].flag = many[r]]
    <3>1. row' = [row EXCEPT ![c] = [row[c] EXCEPT !.flag = many[r]]]
      BY <2>2
    <3> QED BY <1>b, <1>d, <1>e, <3>1
  <2> QED BY <1>c, <2>1, <2>2
<1>1. TypeOK'
  BY <1>c, <1>f DEF Typed, TypeOK
<1>2. Shapes'
  BY <1>b, <1>c DEF Typed, Shapes, Steps
<1>3. Stage(r)'
  BY <1>0, <1>c DEF Typed, Shapes, Stage, Flagging
<1>4. Dispatched'
  BY <1>c, <1>3, Elsewhere DEF Typed, Shapes
<1> QED BY <1>1, <1>2, <1>4 DEF Typed

LEMMA DropEntryTyped ==
    ASSUME Typed, NEW r \in Clients, NEW c \in Categories, DropEntry(r, c)
    PROVE  Typed'
<1>0. Named(r) /\ Stage(r)
  <2>1. pc[r] # "idle"
    BY DEF DropEntry
  <2> QED BY <2>1, Asked DEF Typed, Dispatched
<1> USE NoParentAssumption DEF DropEntry, Goto, rows, caches, walk
<1>1. TypeOK'
  BY <1>0 DEF Typed, TypeOK, Stage, Named
<1>2. Shapes'
  BY <1>0, Booleans, ShownType DEF Typed, TypeOK, Shapes, Steps, Stage, Named, Parent, Row
<1>3. Stage(r)'
  BY <1>0 DEF Typed, TypeOK, Shapes, Stage, Named, Flagging
<1>4. Dispatched'
  BY <1>3, Elsewhere DEF Typed, TypeOK, Shapes
<1> QED BY <1>1, <1>2, <1>4 DEF Typed

LEMMA DropTreeTyped ==
    ASSUME Typed, NEW r \in Clients, DropTree(r)
    PROVE  Typed'
<1>0. Named(r) /\ Stage(r)
  <2>1. pc[r] # "idle"
    BY DEF DropTree
  <2> QED BY <2>1, Asked DEF Typed, Dispatched
<1> USE NoParentAssumption DEF DropTree, Goto, rows, caches, walk
<1>1. TypeOK'
  BY <1>0 DEF Typed, TypeOK, Stage, Named
<1>2. Shapes'
  BY <1>0, Booleans, ShownType DEF Typed, TypeOK, Shapes, Steps, Stage, Named, Parent, Row
<1>3. Stage(r)'
  BY <1>0 DEF Typed, TypeOK, Shapes, Stage, Named, Flagging
<1>4. Dispatched'
  BY <1>3, Elsewhere DEF Typed, TypeOK, Shapes
<1> QED BY <1>1, <1>2, <1>4 DEF Typed

LEMMA DescendTyped ==
    ASSUME Typed, NEW r \in Clients, NEW c \in Categories, Descend(r, c)
    PROVE  Typed'
<1>0. Named(r) /\ Stage(r)
  <2>1. pc[r] # "idle"
    BY DEF Descend
  <2> QED BY <2>1, Asked DEF Typed, Dispatched
<1> USE NoParentAssumption DEF Descend, Goto, rows, caches, walk
<1>1. TypeOK'
  BY <1>0 DEF Typed, TypeOK, Stage, Named
<1>2. Shapes'
  BY <1>0, Booleans, ShownType DEF Typed, TypeOK, Shapes, Steps, Stage, Named, Parent, Row
<1>3. Stage(r)'
  BY <1>0 DEF Typed, TypeOK, Shapes, Stage, Named, Flagging
<1>4. Dispatched'
  BY <1>3, Elsewhere DEF Typed, TypeOK, Shapes
<1> QED BY <1>1, <1>2, <1>4 DEF Typed

LEMMA ClimbTyped ==
    ASSUME Typed, NEW r \in Clients, Climb(r)
    PROVE  Typed'
<1>0. Named(r) /\ Stage(r)
  <2>1. pc[r] # "idle"
    BY DEF Climb
  <2> QED BY <2>1, Asked DEF Typed, Dispatched
<1> USE NoParentAssumption DEF Climb, Goto, rows, caches, walk
<1>1. TypeOK'
  BY <1>0 DEF Typed, TypeOK, Stage, Named
<1>2. Shapes'
  BY <1>0, Booleans, ShownType DEF Typed, TypeOK, Shapes, Steps, Stage, Named, Parent, Row
<1>3. Stage(r)'
  BY <1>0 DEF Typed, TypeOK, Shapes, Stage, Named, Flagging
<1>4. Dispatched'
  BY <1>3, Elsewhere DEF Typed, TypeOK, Shapes
<1> QED BY <1>1, <1>2, <1>4 DEF Typed

LEMMA TreeGetTyped ==
    ASSUME Typed, NEW r \in Clients, TreeGet(r)
    PROVE  Typed'
<1>0. Named(r) /\ Stage(r)
  <2>1. pc[r] # "idle"
    BY DEF TreeGet
  <2> QED BY <2>1, Asked DEF Typed, Dispatched
<1> USE NoParentAssumption DEF TreeGet, Goto, rows, caches, walk
<1>1. TypeOK'
  BY <1>0 DEF Typed, TypeOK, Stage, Named
<1>2. Shapes'
  BY <1>0, Booleans, ShownType DEF Typed, TypeOK, Shapes, Steps, Stage, Named, Parent, Row
<1>3. Stage(r)'
  BY <1>0 DEF Typed, TypeOK, Shapes, Stage, Named, Flagging
<1>4. Dispatched'
  BY <1>3, Elsewhere DEF Typed, TypeOK, Shapes
<1> QED BY <1>1, <1>2, <1>4 DEF Typed

LEMMA TreeReadTyped ==
    ASSUME Typed, NEW r \in Clients, TreeRead(r)
    PROVE  Typed'
<1>0. Named(r) /\ Stage(r)
  <2>1. pc[r] # "idle"
    BY DEF TreeRead
  <2> QED BY <2>1, Asked DEF Typed, Dispatched
<1> USE NoParentAssumption DEF TreeRead, Goto, rows, caches, walk
<1>a. Shown \in SUBSET (Categories \X Parent)
  BY ShownType
<1>1. TypeOK'
  BY DEF Typed, TypeOK
<1>2. Shapes'
  BY <1>a DEF Typed, Shapes, Steps
<1>3. Stage(r)'
  BY <1>0 DEF Typed, Shapes, Stage, Flagging
<1>4. Dispatched'
  BY <1>3, Elsewhere DEF Typed, TypeOK, Shapes
<1> QED BY <1>1, <1>2, <1>4 DEF Typed

LEMMA TreeFillTyped ==
    ASSUME Typed, NEW r \in Clients, TreeFill(r)
    PROVE  Typed'
<1>0. Named(r) /\ Stage(r)
  <2>1. pc[r] # "idle"
    BY DEF TreeFill
  <2> QED BY <2>1, Asked DEF Typed, Dispatched
<1> USE NoParentAssumption DEF TreeFill, Goto, rows, caches, walk
<1>1. TypeOK'
  <2>1. tree' \in SUBSET SUBSET (Categories \X Parent)
    BY DEF Typed, Shapes
  <2> QED BY <2>1 DEF Typed, TypeOK
<1>2. Shapes'
  BY DEF Typed, Shapes, Steps
<1>3. Stage(r)'
  BY <1>0 DEF Typed, Shapes, Stage, Flagging
<1>4. Dispatched'
  BY <1>3, Elsewhere DEF Typed, Shapes
<1> QED BY <1>1, <1>2, <1>4 DEF Typed

LEMMA EndTyped ==
    ASSUME Typed, NEW r \in Clients, End(r)
    PROVE  Typed'
<1>0. Named(r) /\ Stage(r)
  <2>1. pc[r] # "idle"
    BY DEF End
  <2> QED BY <2>1, Asked DEF Typed, Dispatched
<1> USE NoParentAssumption DEF End, Goto, rows, caches, walk
<1>1. TypeOK'
  BY <1>0 DEF Typed, TypeOK, Stage, Named
<1>2. Shapes'
  BY <1>0, Booleans, ShownType DEF Typed, TypeOK, Shapes, Steps, Stage, Named, Parent, Row
<1>3. Stage(r)'
  BY <1>0 DEF Typed, TypeOK, Shapes, Stage, Named, Flagging
<1>4. Dispatched'
  BY <1>3, Elsewhere DEF Typed, TypeOK, Shapes
<1> QED BY <1>1, <1>2, <1>4 DEF Typed

LEMMA ExpireTyped ==
    ASSUME Typed, Expire
    PROVE  Typed'
<1> USE DEF Expire, rows, walk
<1>1. TypeOK'
  BY DEF Typed, TypeOK
<1>2. Shapes' /\ Dispatched'
  BY DEF Typed, Shapes, Dispatched, Stage
<1> QED BY <1>1, <1>2 DEF Typed

\* Every step of any client keeps the shapes.
LEMMA TypedNext ==
    ASSUME Typed, [Next]_vars
    PROVE  Typed'
<1>1. ASSUME NEW r \in Clients, NEW c \in CallsOf[r], Begin(r, c) PROVE Typed'
  BY <1>1, BeginTyped
<1>2. ASSUME NEW r \in Clients, Lookup(r) \/ Load(r) \/ Fill(r) PROVE Typed'
  BY <1>2, LookupTyped, LoadTyped, FillTyped
<1>3. ASSUME NEW r \in Clients, ParentExists(r) \/ Walk(r) \/ Write(r) \/ Create(r)
      PROVE  Typed'
  BY <1>3, ParentExistsTyped, WalkTyped, WriteTyped, CreateTyped
<1>4. ASSUME NEW r \in Clients, CountChildren(r) \/ Erase(r) \/ UpdateStatus(r)
      PROVE  Typed'
  BY <1>4, CountChildrenTyped, EraseTyped, UpdateStatusTyped
<1>5. ASSUME NEW r \in Clients, FlagCount(r) \/ FlagWrite(r) PROVE Typed'
  BY <1>5, FlagCountTyped, FlagWriteTyped
<1>6. ASSUME NEW r \in Clients, NEW c \in Categories, DropEntry(r, c) \/ Descend(r, c)
      PROVE  Typed'
  BY <1>6, DropEntryTyped, DescendTyped
<1>7. ASSUME NEW r \in Clients,
             Climb(r) \/ DropTree(r) \/ TreeGet(r) \/ TreeRead(r) \/ TreeFill(r) \/ End(r)
      PROVE  Typed'
  BY <1>7, ClimbTyped, DropTreeTyped, TreeGetTyped, TreeReadTyped, TreeFillTyped, EndTyped
<1>8. CASE Expire
  BY <1>8, ExpireTyped
<1>9. CASE UNCHANGED vars
  BY <1>9 DEF vars, rows, caches, walk, Typed, TypeOK, Shapes, Dispatched, Stage
<1> QED BY <1>1, <1>2, <1>3, <1>4, <1>5, <1>6, <1>7, <1>8, <1>9 DEF Next, Step

-----------------------------------------------------------------------------
(* The steps of one client *)

LEMMA BeginInv ==
    ASSUME Typed, Sound, ~rekeyed,
           NEW r \in Clients, \A q \in Clients : q = r,
           NEW c \in CallsOf[r], Begin(r, c)
    PROVE  Sound'
<1> USE NoParentAssumption DEF Begin, Goto, rows, caches, walk
<1>0. c \in CallType
  BY CallsOfAssumption
<1>a. /\ pc[r] = "idle" /\ call' = [call EXCEPT ![r] = c]
      /\ pc'[r] \in {"lookup", "climb", "insert", "parent", "status", "treeGet"}
      /\ pc'[r] = "lookup" => c.op \in {"find", "update", "remove", "products"}
      /\ pc'[r] = "insert" => c.op = "create"
      /\ pc'[r] = "parent" => c.op = "create"
      /\ pc'[r] = "status" => c.op = "bulkUpdateStatus"
      /\ pc'[r] = "climb" => c.op \in {"breadcrumb", "path"}
      /\ pc'[r] = "treeGet" => c.op = "tree"
      /\ pc' = [pc EXCEPT ![r] = pc'[r]]
      /\ UNCHANGED <<rows, caches, seen, walk, todo, many, left, view>>
  BY <1>0, CallFacts DEF Typed, Shapes
<1> HIDE DEF Begin
<1>3. NoCycle'
  BY <1>a DEF Sound, NoCycle
<1>4. EntriesFresh'
  BY <1>a DEF Typed, Sound, EntriesFresh, Fresh, Snapshot, Flagging, Shapes
<1>5. TreeFresh'
  BY <1>a DEF Typed, Sound, TreeFresh, Shown, Flagging, Shapes
<1>6. Informed'
  BY <1>0, <1>a DEF Typed, Sound, Dispatched, Stage, Informed, Flagging, Shapes, TypeOK
<1>7. FlagsNamed'
  BY <1>a DEF Typed, Sound, FlagsNamed, Flagging, HasSubcategories, Shapes
<1>8. WalksSound'
  BY <1>a DEF Typed, Sound, WalksSound, Shapes
<1>9. DescentsSound'
  BY <1>a DEF Typed, Sound, DescentsSound, Showing, Shapes
<1> QED BY <1>3, <1>4, <1>5, <1>6, <1>7, <1>8, <1>9 DEF Sound

LEMMA LookupInv ==
    ASSUME Typed, Sound, ~rekeyed,
           NEW r \in Clients, \A q \in Clients : q = r,
           Lookup(r)
    PROVE  Sound'
<1>0. Named(r)
  <2>1. pc[r] # "idle"
    BY DEF Lookup
  <2> QED BY <2>1, Asked
<1> USE NoParentAssumption DEF Lookup, Goto, rows, caches, walk
<1>a. /\ AfterFind(r) \in {"end", "count", "descend", "write", "parent"}
      /\ AfterFind(r) = "count" => call[r].op = "remove"
      /\ AfterFind(r) = "descend" => call[r].op = "products"
      /\ AfterFind(r) = "end" => call[r].op # "products"
      /\ AfterFind(r) \in {"write", "parent"} => call[r].op = "update"
      /\ AfterFind(r) = "write" => call[r].to \in {{}, {NoParent}}
  BY <1>0 DEF AfterFind, Named, Typed, Dispatched, Stage
<1>b. Id(r) \in Categories /\ (entry[Id(r)] # {} => Fresh(Id(r), entry[Id(r)]))
  BY <1>0 DEF Named, Typed, Sound, Dispatched, Stage, EntriesFresh, Flagging
<1>c. pc' = [pc EXCEPT ![r] = pc'[r]] /\ call' = call /\ Id(r)' = Id(r)
  BY DEF Typed, Shapes, Id
<1>d. /\ pc'[r] \in {"load", "end", "count", "descend", "write", "parent"}
      /\ pc'[r] # "load" => pc'[r] = AfterFind(r) /\ Fresh(Id(r), seen[r])'
  BY <1>a, <1>b, <1>c DEF Typed, Shapes, TypeOK, Fresh, Snapshot
<1>e. pc'[r] = "load" => seen'[r] = {}
  BY <1>a DEF Typed, Shapes, TypeOK
<1>3. NoCycle'
  BY DEF Sound, NoCycle
<1>4. EntriesFresh'
  BY DEF Typed, Sound, EntriesFresh, Fresh, Snapshot, Flagging, Shapes, TypeOK
<1>5. TreeFresh'
  BY <1>c, <1>d DEF Typed, Sound, TreeFresh, Shown, Flagging, Shapes
<1>6. Informed'
  BY <1>0, <1>a, <1>c, <1>d, <1>e DEF Typed, Sound, Dispatched, Stage, Informed, Flagging, Shapes
<1>7. FlagsNamed'
  BY <1>c, <1>d DEF Typed, Sound, FlagsNamed, Flagging, HasSubcategories, Shapes
<1>8. WalksSound'
  BY <1>0, <1>a, <1>c, <1>d DEF Typed, Sound, WalksSound, Shapes
<1>9. DescentsSound'
  BY <1>0, <1>a, <1>c, <1>d DEF Named, Typed, Sound, DescentsSound, WalksSound, Showing, Shapes, TypeOK, Dispatched, Stage
<1> QED BY <1>3, <1>4, <1>5, <1>6, <1>7, <1>8, <1>9 DEF Sound

LEMMA LoadInv ==
    ASSUME Typed, Sound, ~rekeyed,
           NEW r \in Clients, \A q \in Clients : q = r,
           Load(r)
    PROVE  Sound'
<1>0. Named(r)
  <2>1. pc[r] # "idle"
    BY DEF Load
  <2> QED BY <2>1, Asked
<1> USE NoParentAssumption DEF Load, Goto, rows, caches, walk
<1>b. Id(r) \in Categories
  BY <1>0 DEF Named, Typed, Dispatched, Stage
<1>c. pc' = [pc EXCEPT ![r] = pc'[r]] /\ call' = call /\ Id(r)' = Id(r)
  BY DEF Typed, Shapes, Id
<1>d. pc'[r] \in {"fill", "end"} /\ (pc'[r] = "fill" => Fresh(Id(r), seen[r])')
  BY <1>b, <1>c DEF Typed, Shapes, TypeOK, Fresh, Snapshot, Row
<1>e. Snapshot(Id(r)) \in Info
  BY <1>b DEF Typed, TypeOK, Snapshot, Info, Row
<1>3. NoCycle'
  BY DEF Sound, NoCycle
<1>4. EntriesFresh'
  BY DEF Typed, Sound, EntriesFresh, Fresh, Snapshot, Flagging, Shapes, TypeOK
<1>5. TreeFresh'
  BY DEF Typed, Sound, TreeFresh, Shown, Flagging, Shapes
<1>6. Informed'
  BY <1>0, <1>c, <1>d DEF Typed, Sound, Dispatched, Stage, Informed, Flagging, Shapes
<1>7. FlagsNamed'
  BY DEF Typed, Sound, FlagsNamed, Flagging, HasSubcategories, Shapes
<1>8. WalksSound'
  BY <1>0 DEF Named, Typed, Sound, WalksSound, Climbed, Shapes, TypeOK, Dispatched, Stage, Target
<1>9. DescentsSound'
  BY <1>0 DEF Named, Typed, Sound, DescentsSound, Showing, Shapes, TypeOK, Dispatched, Stage
<1> QED BY <1>3, <1>4, <1>5, <1>6, <1>7, <1>8, <1>9 DEF Sound

LEMMA ParentExistsInv ==
    ASSUME Typed, Sound, ~rekeyed,
           NEW r \in Clients, \A q \in Clients : q = r,
           ParentExists(r)
    PROVE  Sound'
<1>0. Named(r)
  <2>1. pc[r] # "idle"
    BY DEF ParentExists
  <2> QED BY <2>1, Asked
<1> USE NoParentAssumption DEF ParentExists, Goto, rows, caches, walk
<1>a. call[r].op \in {"create", "update"} /\ Target(r) \in Parent
  <2>1. call[r].to = {} => Target(r) = NoParent
    BY TheFacts DEF Target
  <2> QED BY <1>0, <2>1 DEF Named, Typed, Sound, Dispatched, Stage, Parent
<1>c. pc' = [pc EXCEPT ![r] = pc'[r]] /\ call' = call /\ Id(r)' = Id(r) /\ Target(r)' = Target(r)
  BY DEF Typed, Shapes, Id, Target
<1>d. /\ pc'[r] \in {"end", "insert", "walk"}
      /\ pc'[r] = "insert" => call[r].op = "create"
      /\ pc'[r] = "walk" => Target(r) \in alive /\ call[r].op = "update"
      /\ at'[r] = Target(r)
  BY <1>a DEF Typed, Shapes
<1>e. call[r].op = "update" => Fresh(Id(r), seen[r])
  BY Found
<1>f. call[r].op = "update" => Fresh(Id(r), seen[r])'
  BY <1>e, <1>c DEF Fresh, Snapshot
<1>3. NoCycle'
  BY DEF Sound, NoCycle
<1>4. EntriesFresh'
  BY DEF Typed, Sound, EntriesFresh, Fresh, Snapshot, Flagging, Shapes, TypeOK
<1>5. TreeFresh'
  BY DEF Typed, Sound, TreeFresh, Shown, Flagging, Shapes
<1>6. Informed'
  BY <1>0, <1>c, <1>d, <1>f DEF Typed, Sound, Dispatched, Stage, Informed, Flagging, Shapes
<1>7. FlagsNamed'
  BY <1>c, <1>d DEF Typed, Sound, FlagsNamed, Flagging, HasSubcategories, Shapes
<1>8. WalksSound'
  BY <1>c, <1>d DEF Typed, Sound, WalksSound, Climbed, Shapes
<1>9. DescentsSound'
  BY <1>0 DEF Named, Typed, Sound, DescentsSound, Showing, Shapes, TypeOK, Dispatched, Stage
<1> QED BY <1>3, <1>4, <1>5, <1>6, <1>7, <1>8, <1>9 DEF Sound

LEMMA WalkInv ==
    ASSUME Typed, Sound, ~rekeyed,
           NEW r \in Clients, \A q \in Clients : q = r,
           Walk(r)
    PROVE  Sound'
<1>0. Named(r)
  <2>1. pc[r] # "idle"
    BY DEF Walk
  <2> QED BY <2>1, Asked
<1> USE NoParentAssumption DEF Walk, Goto, rows, caches, walk
<1>a. call[r].op = "update" /\ at[r] \in alive /\ Climbed(r)
  BY DEF Typed, Sound, Dispatched, Stage, WalksSound
<1>c. pc' = [pc EXCEPT ![r] = pc'[r]] /\ call' = call /\ Id(r)' = Id(r) /\ Target(r)' = Target(r)
  BY DEF Typed, Shapes, Id, Target
<1>d. /\ at[r] \in Categories /\ row[at[r]].parent \in alive \cup {NoParent}
      /\ row[at[r]].parent \in Parent
  BY <1>a DEF Typed, TypeOK, Parent
<1>e. pc'[r] \in {"end", "write", "walk"}
  BY <1>d DEF Typed, Shapes
<1>f. Fresh(Id(r), seen[r])'
  <2>1. Fresh(Id(r), seen[r])
    BY Found
  <2> QED BY <2>1, <1>c DEF Fresh, Snapshot
<1>g. pc'[r] # "end" => Climbed(r)'
  BY <1>a, <1>c, <1>d DEF Typed, Shapes, Climbed
<1>h. /\ pc'[r] = "walk" => at'[r] \in alive
      /\ pc'[r] = "write" => at'[r] = NoParent
  BY <1>a, <1>d DEF Typed, Shapes
<1>3. NoCycle'
  BY DEF Sound, NoCycle
<1>4. EntriesFresh'
  BY DEF Typed, Sound, EntriesFresh, Fresh, Snapshot, Flagging, Shapes, TypeOK
<1>5. TreeFresh'
  BY DEF Typed, Sound, TreeFresh, Shown, Flagging, Shapes
<1>6. Informed'
  BY <1>0, <1>a, <1>c, <1>e, <1>f DEF Typed, Sound, Dispatched, Stage, Informed, Flagging, Shapes
<1>7. FlagsNamed'
  BY <1>c, <1>e DEF Typed, Sound, FlagsNamed, Flagging, HasSubcategories, Shapes
<1>8. WalksSound'
  BY <1>c, <1>e, <1>g, <1>h DEF Typed, Sound, WalksSound, Shapes
<1>9. DescentsSound'
  BY <1>0 DEF Named, Typed, Sound, DescentsSound, Showing, Shapes, TypeOK, Dispatched, Stage
<1> QED BY <1>3, <1>4, <1>5, <1>6, <1>7, <1>8, <1>9 DEF Sound

LEMMA CountChildrenInv ==
    ASSUME Typed, Sound, ~rekeyed,
           NEW r \in Clients, \A q \in Clients : q = r,
           CountChildren(r)
    PROVE  Sound'
<1>0. Named(r)
  <2>1. pc[r] # "idle"
    BY DEF CountChildren
  <2> QED BY <2>1, Asked
<1> USE NoParentAssumption DEF CountChildren, Goto, rows, caches, walk
<1>3. NoCycle'
  BY DEF Sound, NoCycle
<1>4. EntriesFresh'
  BY SMTT(30) DEF Typed, Sound, EntriesFresh, Fresh, Snapshot, Flagging, Shapes, TypeOK
<1>5. TreeFresh'
  BY DEF Typed, Sound, TreeFresh, Shown, Flagging, Shapes
<1>6. Informed'
  <2>1. /\ Fresh(Id(r), seen[r])' /\ call[r].op = "remove"
        /\ pc'[r] = "end" \/ (pc'[r] = "erase" /\ ~HasSubcategories(Id(r))')
    <3>1. Fresh(Id(r), seen[r]) /\ call[r].op = "remove"
      BY Found DEF Typed, Dispatched, Stage
    <3>2. Id(r)' = Id(r)
      BY DEF Id
    <3> QED BY <3>1, <3>2, RowsKept DEF Fresh, Typed, Shapes
  <2> QED BY <2>1 DEF Informed
<1>7. FlagsNamed'
  BY DEF Typed, Sound, FlagsNamed, Flagging, HasSubcategories, Shapes
<1>8. WalksSound'
  BY <1>0 DEF Named, Typed, Sound, WalksSound, Climbed, Shapes, TypeOK, Dispatched, Stage, Target
<1>9. DescentsSound'
  BY <1>0 DEF Named, Typed, Sound, DescentsSound, Showing, Shapes, TypeOK, Dispatched, Stage
<1> QED BY <1>3, <1>4, <1>5, <1>6, <1>7, <1>8, <1>9 DEF Sound

LEMMA FlagCountInv ==
    ASSUME Typed, Sound, ~rekeyed,
           NEW r \in Clients, \A q \in Clients : q = r,
           FlagCount(r)
    PROVE  Sound'
<1>0. Named(r)
  <2>1. pc[r] # "idle"
    BY DEF FlagCount
  <2> QED BY <2>1, Asked
<1> USE NoParentAssumption DEF FlagCount, Goto, rows, caches, walk
<1>3. NoCycle'
  BY DEF Sound, NoCycle
<1>4. EntriesFresh'
  BY DEF Typed, Sound, EntriesFresh, Fresh, Snapshot, Flagging, Shapes, TypeOK
<1>5. TreeFresh'
  BY DEF Typed, Sound, TreeFresh, Shown, Flagging, Shapes
<1>6. Informed'
  BY <1>0, Booleans, ShownType DEF Named, Typed, Sound, Dispatched, Stage, Informed, Fresh, Snapshot, Flagging, Shapes, TypeOK, Id, HasSubcategories
<1>7. FlagsNamed'
  BY DEF Typed, Sound, FlagsNamed, Flagging, HasSubcategories, Shapes
<1>8. WalksSound'
  BY <1>0 DEF Named, Typed, Sound, WalksSound, Climbed, Shapes, TypeOK, Dispatched, Stage, Target
<1>9. DescentsSound'
  BY <1>0 DEF Named, Typed, Sound, DescentsSound, Showing, Shapes, TypeOK, Dispatched, Stage
<1> QED BY <1>3, <1>4, <1>5, <1>6, <1>7, <1>8, <1>9 DEF Sound

LEMMA DescendInv ==
    ASSUME Typed, Sound, ~rekeyed,
           NEW r \in Clients, \A q \in Clients : q = r,
           NEW c \in Categories, Descend(r, c)
    PROVE  Sound'
<1>0. Named(r)
  <2>1. pc[r] # "idle"
    BY DEF Descend
  <2> QED BY <2>1, Asked
<1> USE NoParentAssumption DEF Descend, Goto, rows, caches, walk
<1>3. NoCycle'
  BY DEF Sound, NoCycle
<1>4. EntriesFresh'
  BY DEF Typed, Sound, EntriesFresh, Fresh, Snapshot, Flagging, Shapes, TypeOK
<1>5. TreeFresh'
  BY DEF Typed, Sound, TreeFresh, Shown, Flagging, Shapes
<1>6. Informed'
  BY <1>0, Booleans, ShownType DEF Named, Typed, Sound, Dispatched, Stage, Informed, Fresh, Snapshot, Flagging, Shapes, TypeOK, Id, HasSubcategories
<1>7. FlagsNamed'
  BY DEF Typed, Sound, FlagsNamed, Flagging, HasSubcategories, Shapes
<1>8. WalksSound'
  BY <1>0 DEF Named, Typed, Sound, WalksSound, Climbed, Shapes, TypeOK, Dispatched, Stage, Target
<1>9. DescentsSound'
  <2>1. call[r].op = "products" /\ call[r].ids = {Id(r)} /\ Id(r) \in Categories
    BY <1>0 DEF Named, Typed, Dispatched, Stage
  <2> QED BY <2>1 DEF Typed, Sound, DescentsSound, Showing, Shapes, TypeOK
<1> QED BY <1>3, <1>4, <1>5, <1>6, <1>7, <1>8, <1>9 DEF Sound

LEMMA ClimbInv ==
    ASSUME Typed, Sound, ~rekeyed,
           NEW r \in Clients, \A q \in Clients : q = r,
           Climb(r)
    PROVE  Sound'
<1>0. Named(r)
  <2>1. pc[r] # "idle"
    BY DEF Climb
  <2> QED BY <2>1, Asked
<1> USE NoParentAssumption DEF Climb, Goto, rows, caches, walk
<1>3. NoCycle'
  BY DEF Sound, NoCycle
<1>4. EntriesFresh'
  BY DEF Typed, Sound, EntriesFresh, Fresh, Snapshot, Flagging, Shapes, TypeOK
<1>5. TreeFresh'
  BY DEF Typed, Sound, TreeFresh, Shown, Flagging, Shapes
<1>6. Informed'
  <2>1. \A q \in Clients : pc'[q] \in {"climb", "end"} /\ pc[q] = "climb"
    BY DEF Typed, Shapes
  <2>2. \A q \in Clients : call[q] \in CallType /\ call[q].op \in {"breadcrumb", "path"}
    BY <2>1 DEF Typed, Dispatched, Stage
  <2> QED
    BY <2>1, <2>2 DEF Dispatched, Stage, Informed, Flagging
<1>7. FlagsNamed'
  BY DEF Typed, Sound, FlagsNamed, Flagging, HasSubcategories, Shapes
<1>8. WalksSound'
  BY <1>0 DEF Named, Typed, Sound, WalksSound, Climbed, Shapes, TypeOK, Dispatched, Stage, Target
<1>9. DescentsSound'
  BY <1>0 DEF Named, Typed, Sound, DescentsSound, Showing, Shapes, TypeOK, Dispatched, Stage
<1> QED BY <1>3, <1>4, <1>5, <1>6, <1>7, <1>8, <1>9 DEF Sound

LEMMA TreeGetInv ==
    ASSUME Typed, Sound, ~rekeyed,
           NEW r \in Clients, \A q \in Clients : q = r,
           TreeGet(r)
    PROVE  Sound'
<1>0. Named(r)
  <2>1. pc[r] # "idle"
    BY DEF TreeGet
  <2> QED BY <2>1, Asked
<1> USE NoParentAssumption DEF TreeGet, Goto, rows, caches, walk
<1>3. NoCycle'
  BY DEF Sound, NoCycle
<1>4. EntriesFresh'
  BY DEF Typed, Sound, EntriesFresh, Fresh, Snapshot, Flagging, Shapes, TypeOK
<1>5. TreeFresh'
  BY DEF Typed, Sound, TreeFresh, Shown, Flagging, Shapes
<1>6. Informed'
  BY <1>0, Booleans, ShownType DEF Named, Typed, Sound, Dispatched, Stage, Informed, Fresh, Snapshot, Flagging, Shapes, TypeOK, Id, HasSubcategories
<1>7. FlagsNamed'
  BY DEF Typed, Sound, FlagsNamed, Flagging, HasSubcategories, Shapes
<1>8. WalksSound'
  BY <1>0 DEF Named, Typed, Sound, WalksSound, Climbed, Shapes, TypeOK, Dispatched, Stage, Target
<1>9. DescentsSound'
  BY <1>0 DEF Named, Typed, Sound, DescentsSound, Showing, Shapes, TypeOK, Dispatched, Stage
<1> QED BY <1>3, <1>4, <1>5, <1>6, <1>7, <1>8, <1>9 DEF Sound

LEMMA TreeReadInv ==
    ASSUME Typed, Sound, ~rekeyed,
           NEW r \in Clients, \A q \in Clients : q = r,
           TreeRead(r)
    PROVE  Sound'
<1>0. Named(r)
  <2>1. pc[r] # "idle"
    BY DEF TreeRead
  <2> QED BY <2>1, Asked
<1> USE NoParentAssumption DEF TreeRead, Goto, rows, caches, walk
<1>a. Shown \in SUBSET (Categories \X Parent)
  BY ShownType
<1>3. NoCycle'
  BY DEF Sound, NoCycle
<1>4. EntriesFresh'
  BY DEF Typed, Sound, EntriesFresh, Fresh, Snapshot, Flagging, Shapes, TypeOK
<1>5. TreeFresh'
  BY DEF Typed, Sound, TreeFresh, Shown, Flagging, Shapes
<1>6. Informed'
  BY <1>0, Booleans, ShownType DEF Named, Typed, Sound, Dispatched, Stage, Informed, Fresh, Snapshot, Flagging, Shapes, TypeOK, Id, HasSubcategories
<1>7. FlagsNamed'
  BY DEF Typed, Sound, FlagsNamed, Flagging, HasSubcategories, Shapes
<1>8. WalksSound'
  BY <1>0 DEF Named, Typed, Sound, WalksSound, Climbed, Shapes, TypeOK, Dispatched, Stage, Target
<1>9. DescentsSound'
  BY <1>0 DEF Named, Typed, Sound, DescentsSound, Showing, Shapes, TypeOK, Dispatched, Stage
<1> QED BY <1>3, <1>4, <1>5, <1>6, <1>7, <1>8, <1>9 DEF Sound

LEMMA EndInv ==
    ASSUME Typed, Sound, ~rekeyed,
           NEW r \in Clients, \A q \in Clients : q = r,
           End(r)
    PROVE  Sound'
<1>0. Named(r)
  <2>1. pc[r] # "idle"
    BY DEF End
  <2> QED BY <2>1, Asked
<1> USE NoParentAssumption DEF End, Goto, rows, caches, walk
<1>3. NoCycle'
  BY DEF Sound, NoCycle
<1>4. EntriesFresh'
  BY DEF Typed, Sound, EntriesFresh, Fresh, Snapshot, Flagging, Shapes, TypeOK
<1>5. TreeFresh'
  BY DEF Typed, Sound, TreeFresh, Shown, Flagging, Shapes
<1>6. Informed'
  <2>1. \A q \in Clients : pc'[q] = "idle"
    BY DEF Typed, Shapes
  <2> QED
    BY <2>1 DEF Dispatched, Stage, Informed, Flagging
<1>7. FlagsNamed'
  BY DEF Typed, Sound, FlagsNamed, Flagging, HasSubcategories, Shapes
<1>8. WalksSound'
  BY <1>0 DEF Named, Typed, Sound, WalksSound, Climbed, Shapes, TypeOK, Dispatched, Stage, Target
<1>9. DescentsSound'
  BY <1>0 DEF Named, Typed, Sound, DescentsSound, Showing, Shapes, TypeOK, Dispatched, Stage
<1> QED BY <1>3, <1>4, <1>5, <1>6, <1>7, <1>8, <1>9 DEF Sound

-----------------------------------------------------------------------------
(* The actions that write rows or caches *)

\* What was read is cached while it is still so.
LEMMA FillInv ==
    ASSUME Typed, Sound, ~rekeyed,
           NEW r \in Clients, \A q \in Clients : q = r,
           Fill(r)
    PROVE  Sound'
<1>0. Named(r)
  <2>1. pc[r] # "idle"
    BY DEF Fill
  <2> QED BY <2>1, Asked
<1> USE NoParentAssumption DEF Fill, Goto, rows, caches, walk
<1>a. /\ AfterFind(r) \in {"end", "count", "descend", "write", "parent"}
      /\ AfterFind(r) = "count" => call[r].op = "remove"
      /\ AfterFind(r) = "descend" => call[r].op = "products"
      /\ AfterFind(r) = "end" => call[r].op # "products"
      /\ AfterFind(r) \in {"write", "parent"} => call[r].op = "update"
      /\ AfterFind(r) = "write" => call[r].to \in {{}, {NoParent}}
  BY <1>0 DEF AfterFind, Named, Typed, Dispatched, Stage
<1>b. Id(r) \in Categories /\ Fresh(Id(r), seen[r])
  BY <1>0, Found DEF Named, Typed, Dispatched, Stage
<1>c. pc' = [pc EXCEPT ![r] = pc'[r]] /\ call' = call /\ Id(r)' = Id(r) /\ Target(r)' = Target(r)
  BY DEF Typed, Shapes, Id, Target
<1>d. pc'[r] = AfterFind(r) /\ Fresh(Id(r), seen[r])'
  BY <1>b, <1>c DEF Typed, Shapes, Fresh, Snapshot
<1>i. Snapshot(Id(r)) \in Info /\ seen[r] = {Snapshot(Id(r))}
  BY <1>b DEF Typed, TypeOK, Snapshot, Info, Row, Fresh
<1>3. NoCycle'
  BY DEF Sound, NoCycle
<1>4. EntriesFresh'
  <2>1. ASSUME NEW d \in Categories, entry'[d] # {}
        PROVE  Fresh(d, entry'[d])
    BY <1>b, <2>1 DEF Typed, Sound, TypeOK, EntriesFresh, Flagging
  <2>2. \A d \in Categories : entry'[d] # {} => Fresh(d, entry[d])'
    BY <2>1 DEF Fresh, Snapshot
  <2> QED BY <2>2 DEF EntriesFresh, Flagging
<1>5. TreeFresh'
  BY <1>a, <1>c, <1>d DEF Typed, Sound, TreeFresh, Shown, Flagging, Shapes
<1>6. Informed'
  BY <1>0, <1>a, <1>c, <1>d DEF Typed, Sound, Dispatched, Stage, Informed, Flagging, Shapes
<1>7. FlagsNamed'
  BY <1>a, <1>c, <1>d DEF Typed, Sound, FlagsNamed, Flagging, HasSubcategories, Shapes
<1>8. WalksSound'
  BY <1>0, <1>a, <1>c, <1>d DEF Typed, Sound, WalksSound, Shapes
<1>9. DescentsSound'
  BY <1>0, <1>a, <1>c, <1>d DEF Named, Typed, Sound, DescentsSound, WalksSound, Showing, Shapes, TypeOK, Dispatched, Stage
<1> QED BY <1>3, <1>4, <1>5, <1>6, <1>7, <1>8, <1>9 DEF Sound

LEMMA WriteInv ==
    ASSUME Typed, Sound, ~rekeyed, ~rekeyed',
           NEW r \in Clients, \A q \in Clients : q = r,
           Write(r)
    PROVE  Sound'
<1>0. Named(r)
  <2>1. pc[r] # "idle"
    BY DEF Write
  <2> QED BY <2>1, Asked
<1> USE NoParentAssumption DEF Write, Goto, rows, caches, walk
<1> DEFINE c == Id(r)
           p == The(call[r].to, OldParent(r))
<1>c. pc' = [pc EXCEPT ![r] = pc'[r]] /\ call' = call /\ Id(r)' = Id(r) /\ Target(r)' = Target(r)
  BY DEF Typed, Shapes, Id, Target
<1>a. c \in alive /\ c \in Categories /\ ~row[c].deleted /\ OldParent(r) = row[c].parent
  <2>1. Fresh(c, seen[r])
    BY Found
  <2> QED BY <2>1, FreshFacts DEF Typed, Sound, TypeOK
<1>b. call[r].op = "update"
  BY DEF Typed, Dispatched, Stage
<1>d. \/ call[r].to = {} /\ p = row[c].parent
      \/ call[r].to = {Target(r)} /\ p = Target(r)
  BY <1>0, <1>a, <1>b, TheFacts DEF Named
<1>e. row[c].parent \in alive \cup {NoParent} /\ row[c] \in Row
  BY <1>a DEF Typed, TypeOK
<1> DEFINE k == The(call[r].key, c)
           new == [row[c] EXCEPT !.parent = p, !.active = The(call[r].active, @)]
<1>l. k = c \/ (UNCHANGED <<rows, todo, left>> /\ pc' = [pc EXCEPT ![r] = "end"])
  BY DEF Write
<1>m. c # NoParent /\ c \in alive /\ c \in Categories
  BY <1>a
<1>n. row \in [Categories -> Row]
  BY DEF Typed, TypeOK
<1>o. \A x \in Row : [x EXCEPT !.parent = IF @ = c THEN c ELSE @] = x
  BY DEF Row
<1>p. k = c => Rewritten(c, k, [row[c] EXCEPT !.parent = IF p = c THEN k ELSE p,
                                             !.active = The(call[r].active, @)])
                 = [row EXCEPT ![c] = new]
  <2> SUFFICES ASSUME k = c
               PROVE  Rewritten(c, c, new) = [row EXCEPT ![c] = new]
    <3>1. (IF p = c THEN c ELSE p) = p
      OBVIOUS
    <3> QED BY <3>1, Zenon
  <2> HIDE DEF c, new, Write
  <2> QED BY <1>m, <1>n, <1>o DEF Rewritten
<1>q. (alive \ {c}) \cup {c} = alive
  BY <1>m
<1>f. /\ UNCHANGED <<alive, caches, call, seen, walk, many, view>>
      /\ \/ /\ p \in alive \cup {NoParent}
            /\ row' = [row EXCEPT ![c] = new]
            /\ todo' = [todo EXCEPT ![r] = FlagsTodo(r)]
            /\ left' = [left EXCEPT ![r] = {c}]
            /\ pc'[r] = IF FlagsTodo(r) = << >> THEN "drop" ELSE "flagCount"
         \/ pc'[r] = "end" /\ row' = row /\ todo' = todo /\ left' = left
  <2>1. CASE UNCHANGED <<rows, todo, left>> /\ pc' = [pc EXCEPT ![r] = "end"]
    BY <2>1 DEF Write, Typed, Shapes
  <2>2. CASE /\ k = c /\ p \in alive \cup {k, NoParent}
             /\ row' = Rewritten(c, k, [row[c] EXCEPT !.parent = IF p = c THEN k ELSE p,
                                                      !.active = The(call[r].active, @)])
             /\ alive' = (alive \ {c}) \cup {k}
             /\ todo' = [todo EXCEPT ![r] = FlagsTodo(r)]
             /\ left' = [left EXCEPT ![r] = {c}]
             /\ pc' = [pc EXCEPT ![r] = IF FlagsTodo(r) = << >> THEN "drop" ELSE "flagCount"]
             /\ UNCHANGED <<caches, call, seen, walk, many, view>>
    <3>1. row' = [row EXCEPT ![c] = new] /\ alive' = alive
      BY <2>2, <1>p, <1>q
    <3>2. p \in alive \cup {NoParent}
      BY <2>2, <1>m
    <3>3. pc'[r] = IF FlagsTodo(r) = << >> THEN "drop" ELSE "flagCount"
      BY <2>2 DEF Typed, Shapes
    <3> HIDE DEF c, k, p, new, Write
    <3> QED BY <2>2, <3>1, <3>2, <3>3
  <2> QED BY <1>l, <2>1, <2>2 DEF Write
<1>g. p \in alive \cup {NoParent} =>
        /\ FlagsTodo(r) \in Seq(alive) /\ FlagsTodo(r) \in Seq(Categories)
        /\ call[r].to # {} =>
              /\ FlagsTodo(r) # << >>
              /\ \A x \in {row[c].parent, p} \ {NoParent} : Names(FlagsTodo(r), x)
  <2> SUFFICES ASSUME p \in alive \cup {NoParent}
               PROVE  /\ FlagsTodo(r) \in Seq(alive) /\ FlagsTodo(r) \in Seq(Categories)
                      /\ call[r].to # {} =>
                            /\ FlagsTodo(r) # << >>
                            /\ \A x \in {row[c].parent, p} \ {NoParent} :
                                  Names(FlagsTodo(r), x)
    OBVIOUS
  <2>1. Target(r) \in alive \cup {NoParent}
    BY <1>d, TheFacts DEF Target
  <2>2. alive \subseteq Categories /\ NoParent \notin Categories /\ NoParent \notin alive
    BY DEF Typed, TypeOK
  <2>3. call[r].to # {} => p = Target(r)
    BY <1>d, TheFacts DEF Target
  <2>4. c \in alive /\ OldParent(r) \in alive \cup {NoParent}
    BY <1>a, <1>e
  <2>5. c \in Categories /\ OldParent(r) \in Categories \cup {NoParent}
          /\ Target(r) \in Categories \cup {NoParent}
    BY <2>1, <2>2, <2>4
  <2> HIDE DEF p, Write
  <2>6. FlagsTodo(r) \in Seq(Categories)
    BY <2>2, <2>5, FlagsTodoFacts
  <2>7. /\ FlagsTodo(r) \in Seq(alive)
        /\ call[r].to # {} =>
              /\ FlagsTodo(r) # << >>
              /\ \A x \in {OldParent(r), Target(r)} \ {NoParent} : Names(FlagsTodo(r), x)
    BY <2>1, <2>2, <2>4, FlagsTodoFacts
  <2> QED BY <1>a, <2>3, <2>6, <2>7
<1>h. The(call[r].active, row[c].active) \in BOOLEAN
  <2>1. call[r] \in CallType /\ row[c].active \in BOOLEAN
    BY <1>0, <1>e DEF Named, Row
  <2>2. call[r].active = {} \/ \E b \in BOOLEAN : call[r].active = {b}
    BY <2>1, CallFacts
  <2> QED BY <2>1, <2>2, TheFacts
<1>i. pc'[r] \in {"drop", "flagCount", "end"}
  BY <1>f
<1>j. p \in alive \cup {NoParent} =>
        /\ [row[c] EXCEPT !.parent = p, !.active = The(call[r].active, @)] \in Row
        /\ [row[c] EXCEPT !.parent = p, !.active = The(call[r].active, @)].parent = p
  BY <1>e, <1>h DEF Row, Parent, Typed, TypeOK
<1>k. \/ row' = row
      \/ /\ p \in alive \cup {NoParent}
         /\ row'[c] \in Row /\ row'[c].parent = p
         /\ row'[c].deleted = row[c].deleted /\ row'[c].flag = row[c].flag
         /\ row' \in [Categories -> Row]
         /\ \A d \in Categories \ {c} : row'[d] = row[d]
  <2>1. row \in [Categories -> Row]
    BY DEF Typed, TypeOK
  <2>2. ASSUME p \in alive \cup {NoParent},
               row' = [row EXCEPT ![c] = new]
        PROVE  row'[c] \in Row /\ row'[c].parent = p
                 /\ row'[c].deleted = row[c].deleted /\ row'[c].flag = row[c].flag
                 /\ row' \in [Categories -> Row]
                 /\ \A d \in Categories \ {c} : row'[d] = row[d]
    <3>1. new \in Row /\ new.parent = p /\ new.deleted = row[c].deleted /\ new.flag = row[c].flag
      <4>1. new \in Row /\ new.parent = p
        BY <1>j, <2>2
      <4> HIDE DEF c, p, Write
      <4>2. new.deleted = row[c].deleted /\ new.flag = row[c].flag
        BY <1>e DEF Row
      <4> QED BY <4>1, <4>2
    <3> HIDE DEF new, c, p, Write
    <3> QED BY <1>m, <2>1, <2>2, <3>1
  <2> QED BY <1>f, <2>2
<1> HIDE DEF c, p, k, new
<1>3. NoCycle'
  <2>1. CASE row' = row
    BY <1>f, <2>1, ParentsKept DEF Sound
  <2>2. CASE row'[c].parent = row[c].parent /\ \A d \in Categories \ {c} : row'[d] = row[d]
    BY <1>f, <2>2, ParentsKept DEF Typed, Sound, TypeOK
  <2>3. CASE /\ p = Target(r) /\ call[r].to = {Target(r)}
             /\ p \in alive \cup {NoParent} /\ row'[c].parent = p
             /\ \A d \in Categories \ {c} : row'[d] = row[d]
    <3> DEFINE V == IF p = NoParent THEN {} ELSE visited[r]
    <3>1. p # NoParent => Climbed(r) /\ at[r] = NoParent
      BY <2>3 DEF Sound, WalksSound
    <3>2. /\ V \in SUBSET alive /\ c \notin V /\ p \in V \cup {NoParent}
          /\ \A v \in V : row[v].parent \in V \cup {NoParent}
      BY <3>1, <2>3, <1>0, <1>b DEF Climbed, Named, c
    <3>3. NoParent \notin alive
      BY DEF Typed, TypeOK
    <3> DEFINE up == [d \in alive |-> row[d].parent]
               moved == [d \in alive |-> row'[d].parent]
    <3>4. /\ Forest(alive, up) /\ moved[c] = p
          /\ \A d \in alive \ {c} : moved[d] = up[d]
          /\ \A v \in V : up[v] \in V \cup {NoParent}
      BY <2>3, <1>a, <3>2 DEF Typed, Sound, NoCycle, TypeOK
    <3> HIDE DEF V, up, moved
    <3>5. Forest(alive, moved)
      BY <3>2, <3>3, <3>4, <1>a, ForestMove
    <3> QED BY <1>f, <3>5 DEF NoCycle, moved
  <2> QED BY <1>d, <1>k, <2>1, <2>2, <2>3
<1>4. EntriesFresh'
  <2>1. ASSUME NEW d \in Categories, entry[d] # {}
        PROVE  Fresh(d, entry[d])
    BY <2>1 DEF Sound, EntriesFresh, Flagging
  <2>2. ASSUME NEW d \in Categories, entry[d] # {}, row'[d] = row[d]
        PROVE  Fresh(d, entry[d])'
    BY <2>1, <2>2 DEF Fresh, Snapshot
  <2>3. row' = row \/ (pc'[r] \in {"flagCount", "flagWrite", "drop"} /\ c \in left'[r])
    BY <1>f DEF Typed, TypeOK
  <2> QED BY <1>k, <2>2, <2>3 DEF EntriesFresh, Flagging
<1>5. TreeFresh'
  BY <1>f, <1>i DEF Typed, Sound, TreeFresh, Shown, Flagging, Shapes
<1>6. Informed'
  BY <1>0, <1>b, <1>c, <1>i DEF Typed, Sound, Dispatched, Stage, Informed, Flagging, Shapes
<1>7. FlagsNamed'
  <2>1. pc[r] = "write" /\ alive' = alive
    BY <1>f DEF Write
  <2>2. \A d \in alive : row[d].flag <=> HasSubcategories(d)
    BY <2>1 DEF Sound, FlagsNamed, Flagging
  <2>3. CASE row' = row
    BY <2>2, <2>3, <1>c, <1>f, <1>g, <1>i, <2>1 DEF Typed, Sound, FlagsNamed, Flagging, HasSubcategories, Shapes
  <2>4. CASE row' # row
    <3>1. /\ p \in alive \cup {NoParent} /\ row'[c].parent = p
          /\ row'[c].deleted = row[c].deleted /\ row'[c].flag = row[c].flag
          /\ \A d \in Categories \ {c} : row'[d] = row[d]
          /\ alive \subseteq Categories
      BY <1>k, <2>4 DEF Typed, TypeOK
    <3>2. /\ todo' = [todo EXCEPT ![r] = FlagsTodo(r)] /\ todo'[r] = FlagsTodo(r)
          /\ pc'[r] = IF FlagsTodo(r) = << >> THEN "drop" ELSE "flagCount"
      BY <1>f, <2>4 DEF Typed, Shapes
    <3>3. \A d \in alive : row'[d].flag = row[d].flag
      BY <3>1
    <3>4. \A d \in alive \ {row[c].parent, p} : HasSubcategories(d)' <=> HasSubcategories(d)
      BY <1>a, <2>1, <3>1 DEF HasSubcategories
    <3>5. row[c].parent = p => \A d \in alive : HasSubcategories(d)' <=> HasSubcategories(d)
      BY <1>a, <2>1, <3>1 DEF HasSubcategories
    <3>6. row[c].parent # p => call[r].to # {}
      BY <1>d
    <3>7. NoParent \notin alive
      BY DEF Typed, TypeOK
    <3>8. \A d \in alive : (row'[d].flag <=> HasSubcategories(d)')
                            \/ (pc'[r] \in Flagging /\ Names(todo'[r], d))
      <4> SUFFICES ASSUME NEW d \in alive
                   PROVE  (row'[d].flag <=> HasSubcategories(d)')
                            \/ (pc'[r] \in Flagging /\ Names(todo'[r], d))
        OBVIOUS
      <4>1. CASE d \notin {row[c].parent, p} \/ row[c].parent = p
        <5>1. HasSubcategories(d)' <=> HasSubcategories(d)
          BY <3>4, <3>5, <4>1
        <5>2. (row'[d].flag <=> row[d].flag) /\ (row[d].flag <=> HasSubcategories(d))
          BY <2>2, <3>3
        <5> QED BY ONLY <5>1, <5>2
      <4>2. CASE d \in {row[c].parent, p} /\ row[c].parent # p
        <5>1. FlagsTodo(r) # << >> /\ Names(FlagsTodo(r), d)
          BY <1>g, <3>1, <3>6, <3>7, <4>2
        <5>2. todo'[r] = FlagsTodo(r) /\ pc'[r] = "flagCount"
          BY <3>2, <5>1
        <5> QED BY ONLY <5>1, <5>2 DEF Flagging
      <4> QED BY ONLY <4>1, <4>2
    <3>9. pc'[r] \in Flagging => todo'[r] \in Seq(alive') \ {<< >>}
      BY <1>g, <2>1, <3>1, <3>2 DEF Flagging
    <3> QED BY <1>i, <2>1, <3>8, <3>9 DEF FlagsNamed, Names
  <2> QED BY <2>3, <2>4
<1>8. WalksSound'
  BY <1>c, <1>i DEF Typed, Sound, WalksSound, Shapes
<1>9. DescentsSound'
  BY <1>b, <1>c, <1>i DEF DescentsSound
<1> QED BY <1>3, <1>4, <1>5, <1>6, <1>7, <1>8, <1>9 DEF Sound

LEMMA CreateInv ==
    ASSUME Typed, Sound, ~rekeyed,
           NEW r \in Clients, \A q \in Clients : q = r,
           Create(r)
    PROVE  Sound'
<1>0. Named(r)
  <2>1. pc[r] # "idle"
    BY DEF Create
  <2> QED BY <2>1, Asked
<1> USE NoParentAssumption DEF Goto, rows, caches, walk
<1>c. pc' = [pc EXCEPT ![r] = pc'[r]] /\ call' = call /\ Id(r)' = Id(r) /\ Target(r)' = Target(r)
  BY DEF Create, Insert, Typed, Shapes, Id, Target
<1>a. /\ pc[r] = "insert" /\ call[r].op = "create"
      /\ Target(r) \in Parent /\ call[r].to = {Target(r)} /\ NoParent \notin alive
  BY <1>0 DEF Typed, Dispatched, Stage, Named, Create, TypeOK
<1>b. CASE UNCHANGED <<rows, caches, call, seen, walk, todo, many, left, view>> /\ pc'[r] = "end"
  <2>2. NoCycle'
    BY <1>b, ParentsKept DEF Sound
  <2>3. EntriesFresh' /\ TreeFresh'
    BY <1>a, <1>b, <1>c DEF Sound, EntriesFresh, TreeFresh, Shown, Flagging, Fresh, Snapshot
  <2>4. Informed'
    BY <1>0, <1>b, <1>c DEF Typed, Sound, Dispatched, Stage, Informed, Flagging, Named, Shapes
  <2>5. FlagsNamed' /\ WalksSound' /\ DescentsSound'
    BY <1>a, <1>b, <1>c DEF Typed, Sound, FlagsNamed, WalksSound, DescentsSound, Flagging, HasSubcategories, Shapes
  <2> QED BY <2>2, <2>3, <2>4, <2>5 DEF Sound
<1>d. CASE \E c \in unborn : Insert(r, c)
  <2> PICK c \in unborn : Insert(r, c)
    BY <1>d
  <2>1. /\ c \in Categories /\ c \notin alive /\ c # NoParent
        /\ alive' = alive \cup {c} /\ unborn' = unborn \ {c}
        /\ Target(r) \in alive \cup {NoParent}
    BY DEF Typed, TypeOK, Insert
  <2>2. The(call[r].active, TRUE) \in BOOLEAN
    BY <1>0, CallFacts, TheFacts DEF Named
  <2>3. /\ row' \in [Categories -> Row]
        /\ row'[c].parent = Target(r) /\ ~row'[c].flag
        /\ \A d \in Categories \ {c} : row'[d] = row[d]
    BY <1>a, <2>1, <2>2 DEF Typed, TypeOK, Insert, Blank, Row
  <2>4. pc'[r] \in {"dropTree", "flagCount"} /\ (pc'[r] = "flagCount" <=> Target(r) # NoParent)
    BY DEF Typed, Shapes, Insert
  <2>5. todo'[r] = One(Target(r)) /\ todo' = [todo EXCEPT ![r] = One(Target(r))]
    BY DEF Typed, Shapes, Insert
  <2>6. One(Target(r)) \in Seq(alive') /\ One(Target(r)) \in Seq(Categories)
          /\ (Target(r) # NoParent => One(Target(r)) # << >> /\ Names(One(Target(r)), Target(r)))
    <3>1. Target(r) \in alive' \cup {NoParent} /\ Target(r) \in Categories \cup {NoParent}
      BY <2>1, <1>a DEF Parent
    <3> QED BY <3>1, OneFacts
  <2>9. NoCycle'
    <3> DEFINE up == [d \in alive |-> row[d].parent]
               new == [d \in alive' |-> row'[d].parent]
    <3>1. Forest(alive, up) /\ alive \subseteq Categories
      BY DEF Typed, Sound, NoCycle, TypeOK
    <3>2. new[c] = Target(r)
      BY <2>1, <2>3
    <3>3. \A d \in alive : up[d] \in alive \cup {NoParent}
      BY <3>1 DEF Typed, TypeOK
    <3>4. \A d \in alive : new[d] = up[d]
      BY <2>1, <2>3, <3>1
    <3> HIDE DEF up, new
    <3>5. c \notin alive /\ c # NoParent /\ NoParent \notin alive
            /\ new[c] \in alive \cup {NoParent}
      BY <1>a, <2>1, <3>2
    <3>6. Forest(alive \cup {c}, new)
      BY ONLY <3>1, <3>3, <3>4, <3>5, ForestGrow
    <3> QED BY <2>1, <3>6 DEF NoCycle, new
  <2>10. EntriesFresh'
    <3>1. ASSUME NEW d \in Categories, entry[d] # {}
          PROVE  Fresh(d, entry[d])'
      <4>1. Fresh(d, entry[d])
        BY <1>a, <3>1 DEF Sound, EntriesFresh, Flagging
      <4> QED BY <2>1, <2>3, <4>1 DEF Fresh, Snapshot, Insert
    <3> QED BY <3>1 DEF EntriesFresh, Flagging, Insert
  <2>11. Informed'
    BY <1>0, <1>a, <1>c, <2>4 DEF Typed, Sound, Dispatched, Stage, Informed, Flagging, Shapes, Named
  <2>12. FlagsNamed'
    <3>1. \A d \in alive : row[d].flag <=> HasSubcategories(d)
      BY <1>a DEF Sound, FlagsNamed, Flagging
    <3>2. alive \subseteq Categories /\ \A d \in Categories : row[d].parent \in alive \cup {NoParent}
      BY DEF Typed, TypeOK
    <3>3. ~HasSubcategories(c)' /\ ~row'[c].flag
      BY <2>1, <2>3, <3>2 DEF HasSubcategories
    <3>4. \A d \in alive \ {Target(r)} : HasSubcategories(d)' <=> HasSubcategories(d)
      BY <2>1, <2>3, <3>2 DEF HasSubcategories
    <3>5. \A d \in alive' : (row'[d].flag <=> HasSubcategories(d)')
                             \/ (pc'[r] \in Flagging /\ Names(todo'[r], d))
      <4> SUFFICES ASSUME NEW d \in alive'
                   PROVE  (row'[d].flag <=> HasSubcategories(d)')
                            \/ (pc'[r] \in Flagging /\ Names(todo'[r], d))
        OBVIOUS
      <4>1. CASE d \in alive /\ d # Target(r)
        <5>1. HasSubcategories(d)' <=> HasSubcategories(d)
          BY <3>4, <4>1
        <5>2. (row'[d].flag <=> row[d].flag) /\ (row[d].flag <=> HasSubcategories(d))
          BY <2>1, <2>3, <3>1, <3>2, <4>1
        <5> QED BY ONLY <5>1, <5>2
      <4>2. CASE d = Target(r)
        <5>1. pc'[r] = "flagCount" /\ todo'[r] = One(d) /\ Names(One(d), d)
          BY <1>a, <2>1, <2>4, <2>5, <2>6, <4>2
        <5> QED BY ONLY <5>1 DEF Flagging
      <4>3. CASE d = c
        BY <3>3, <4>3 DEF HasSubcategories
      <4>4. d \in alive \/ d = c
        BY <2>1
      <4> QED BY ONLY <4>1, <4>2, <4>3, <4>4
    <3>6. pc'[r] \in Flagging => todo'[r] \in Seq(alive') \ {<< >>}
      BY <2>4, <2>5, <2>6 DEF Flagging
    <3> QED BY <2>4, <3>5, <3>6 DEF FlagsNamed, Names
  <2>13. WalksSound' /\ DescentsSound'
    BY <2>4 DEF WalksSound, DescentsSound
  <2>14. TreeFresh'
    BY <2>4 DEF TreeFresh, Flagging
  <2> QED BY <2>9, <2>10, <2>11, <2>12, <2>13, <2>14 DEF Sound
<1>e. (UNCHANGED <<rows, caches, call, seen, walk, todo, many, left, view>> /\ pc'[r] = "end")
        \/ \E c \in unborn : Insert(r, c)
  BY DEF Create, Typed, Shapes
<1> QED BY <1>b, <1>d, <1>e

LEMMA EraseInv ==
    ASSUME Typed, Sound, ~rekeyed,
           NEW r \in Clients, \A q \in Clients : q = r,
           Erase(r)
    PROVE  Sound'
<1>0. Named(r)
  <2>1. pc[r] # "idle"
    BY DEF Erase
  <2> QED BY <2>1, Asked
<1> USE NoParentAssumption DEF Goto, rows, caches, walk
<1> DEFINE c == Id(r)
           old == OldParent(r)
<1>c. pc' = [pc EXCEPT ![r] = pc'[r]] /\ call' = call /\ Id(r)' = Id(r) /\ Target(r)' = Target(r)
  BY DEF Erase, Typed, Shapes, Id, Target
<1>a. /\ c \in alive /\ c \in Categories /\ ~row[c].deleted
      /\ old = row[c].parent /\ row[c] \in Row
  <2>1. Fresh(c, seen[r])
    BY Found DEF Erase
  <2> QED BY <2>1, FreshFacts DEF Typed, Sound, TypeOK
<1>b. call[r].op = "remove" /\ ~HasSubcategories(c) /\ pc[r] = "erase"
  BY DEF Typed, Sound, Dispatched, Stage, Informed, Erase
<1>d. /\ old \in alive \cup {NoParent} /\ row[c] \in Row
      /\ row \in [Categories -> Row] /\ alive \subseteq Categories /\ NoParent \notin alive
  BY <1>a DEF Typed, TypeOK
<1>e. old # c
  <2>1. {c} \in SUBSET alive
    BY <1>a
  <2>2. \E d \in {c} : [x \in alive |-> row[x].parent][d] \notin {c}
    BY <2>1 DEF Sound, NoCycle, Forest
  <2> QED BY <1>a, <2>2
<1>f. \/ /\ \/ row' = [row EXCEPT ![c].active = FALSE, ![c].deleted = TRUE] /\ alive' = alive
            \/ row' = Erased(c) /\ alive' = alive \ {c}
         /\ todo' = [todo EXCEPT ![r] = One(old)]
         /\ left' = [left EXCEPT ![r] = {c}]
         /\ pc'[r] = IF old = NoParent THEN "drop" ELSE "flagCount"
      \/ pc'[r] = "end" /\ row' = row /\ alive' = alive /\ todo' = todo /\ left' = left
  BY DEF Erase, Typed, Shapes
<1>g. /\ UNCHANGED <<unborn, caches, call, seen, walk, many, view>>
      /\ pc'[r] \in {"drop", "flagCount", "end"}
  BY <1>f DEF Erase
<1>h. \/ row' = row /\ alive' = alive
      \/ /\ alive' = alive /\ row' \in [Categories -> Row]
         /\ \A d \in Categories : row'[d].parent = row[d].parent /\ row'[d].flag = row[d].flag
         /\ \A d \in Categories \ {c} : row'[d] = row[d]
         /\ row'[c].deleted
      \/ /\ alive' = alive \ {c} /\ row' \in [Categories -> Row]
         /\ row'[c].parent = NoParent
         /\ \A d \in Categories \ {c} :
               /\ row'[d].parent = IF row[d].parent = c THEN NoParent ELSE row[d].parent
               /\ row'[d].flag = row[d].flag /\ row'[d].deleted = row[d].deleted
               /\ row[d].parent # c => row'[d] = row[d]
  <2>1. ASSUME row' = [row EXCEPT ![c].active = FALSE, ![c].deleted = TRUE]
        PROVE  /\ row' \in [Categories -> Row]
               /\ \A d \in Categories : row'[d].parent = row[d].parent /\ row'[d].flag = row[d].flag
               /\ \A d \in Categories \ {c} : row'[d] = row[d]
               /\ row'[c].deleted
    BY <1>a, <1>d, <2>1 DEF Row
  <2>2. ASSUME row' = Erased(c)
        PROVE  /\ row' \in [Categories -> Row]
               /\ row'[c].parent = NoParent
               /\ \A d \in Categories \ {c} :
                     /\ row'[d].parent = IF row[d].parent = c THEN NoParent ELSE row[d].parent
                     /\ row'[d].flag = row[d].flag /\ row'[d].deleted = row[d].deleted
                     /\ row[d].parent # c => row'[d] = row[d]
    <3>1. Blank \in Row /\ Blank.parent = NoParent
      BY DEF Blank, Row, Parent
    <3>2. \A d \in Categories : /\ [row[d] EXCEPT !.parent = NoParent] \in Row
                                /\ [row[d] EXCEPT !.parent = NoParent].parent = NoParent
                                /\ [row[d] EXCEPT !.parent = NoParent].flag = row[d].flag
                                /\ [row[d] EXCEPT !.parent = NoParent].deleted = row[d].deleted
      BY <1>d DEF Row, Parent
    <3> HIDE DEF c
    <3> QED BY <1>a, <1>d, <2>2, <3>1, <3>2 DEF Erased
  <2> QED BY <1>f, <2>1, <2>2
<1> HIDE DEF c, old
<1>i. \A d \in alive : row[d].parent = c => row[d].deleted
  BY <1>b DEF HasSubcategories
<1>j. One(old) \in Seq(alive') /\ One(old) \in Seq(Categories) /\ (old # NoParent => One(old) # << >> /\ Names(One(old), old))
  <2>1. old \in alive' \cup {NoParent} /\ old \in Categories \cup {NoParent}
    BY <1>d, <1>e, <1>h
  <2> QED BY <2>1, OneFacts
<1>3. NoCycle'
  <2> DEFINE up == [d \in alive |-> row[d].parent]
             new == [d \in alive' |-> row'[d].parent]
  <2>1. Forest(alive, up) /\ alive' \in SUBSET alive
    BY <1>h DEF Sound, NoCycle
  <2>2. \A d \in alive' : new[d] \in {up[d], NoParent}
    BY <1>d, <1>h
  <2> HIDE DEF up, new
  <2>3. Forest(alive', new)
    BY <1>d, <2>1, <2>2, ForestCut
  <2> QED BY <2>3 DEF NoCycle, new
<1>4. EntriesFresh'
  <2>1. ASSUME NEW d \in Categories, entry[d] # {}
        PROVE  Fresh(d, entry[d])
    BY <1>b, <2>1 DEF Sound, EntriesFresh, Flagging
  <2>2. ASSUME NEW d \in Categories, entry[d] # {}, row'[d] = row[d], d \in alive'
        PROVE  Fresh(d, entry[d])'
    BY <2>1, <2>2, <1>g DEF Fresh, Snapshot
  <2>3. \/ row' = row /\ alive' = alive
        \/ pc'[r] \in {"flagCount", "flagWrite", "drop"} /\ c \in left'[r]
    BY <1>f DEF Typed, TypeOK
  <2>4. ASSUME NEW d \in Categories \ {c}, entry[d] # {}
        PROVE  row'[d] = row[d] /\ d \in alive'
    BY <2>1, <2>4, <1>h, <1>i DEF Fresh, Snapshot
  <2>5. entry' = entry
    BY <1>g
  <2>6. ASSUME NEW d \in Categories, entry[d] # {}, row' = row, alive' = alive
        PROVE  Fresh(d, entry[d])'
    BY <2>1, <2>6, <1>g DEF Fresh, Snapshot
  <2> QED BY <2>2, <2>3, <2>4, <2>5, <2>6 DEF EntriesFresh, Flagging
<1>5. TreeFresh'
  <2>1. CASE pc'[r] \in Flagging \cup {"drop", "dropTree"}
    BY <2>1 DEF TreeFresh, Flagging
  <2>2. CASE row' = row /\ alive' = alive /\ pc'[r] = "end"
    <3>1. tree \subseteq {Shown}
      BY <1>b DEF Sound, TreeFresh, Flagging
    <3> QED BY <1>g, <2>2, <3>1, RowsKept DEF TreeFresh
  <2> QED BY <1>f, <2>1, <2>2 DEF Flagging
<1>6. Informed'
  BY <1>0, <1>b, <1>c, <1>g DEF Typed, Sound, Dispatched, Stage, Informed, Flagging, Shapes, Named
<1>7. FlagsNamed'
  <2>2. \A d \in alive : row[d].flag <=> HasSubcategories(d)
    BY <1>b DEF Sound, FlagsNamed, Flagging
  <2>3. CASE row' = row /\ alive' = alive /\ pc'[r] = "end"
    BY <2>2, <2>3, <1>c DEF FlagsNamed, Flagging, HasSubcategories
  <2>4. CASE todo'[r] = One(old) /\ pc'[r] = (IF old = NoParent THEN "drop" ELSE "flagCount")
    <3>1. \A d \in alive' \ {old} : HasSubcategories(d)' <=> HasSubcategories(d)
      BY <1>a, <1>d, <1>h, <1>i DEF HasSubcategories
    <3>2. alive' \subseteq alive /\ \A d \in alive' : row'[d].flag <=> row[d].flag
      BY <1>d, <1>h
    <3>3. \A d \in alive' : (row'[d].flag <=> HasSubcategories(d)')
                             \/ (pc'[r] \in Flagging /\ Names(todo'[r], d))
      <4> SUFFICES ASSUME NEW d \in alive'
                   PROVE  \/ row'[d].flag <=> HasSubcategories(d)'
                          \/ pc'[r] \in Flagging /\ Names(todo'[r], d)
        OBVIOUS
      <4>1. CASE d # old
        <5>1. HasSubcategories(d)' <=> HasSubcategories(d)
          BY <3>1, <4>1
        <5>2. (row'[d].flag <=> row[d].flag) /\ (row[d].flag <=> HasSubcategories(d))
          BY <2>2, <3>2
        <5> QED BY ONLY <5>1, <5>2
      <4>2. CASE d = old
        <5>1. pc'[r] = "flagCount" /\ todo'[r] = One(d) /\ Names(One(d), d)
          BY <1>d, <1>j, <2>4, <3>2, <4>2
        <5> QED BY ONLY <5>1 DEF Flagging
      <4> QED BY ONLY <4>1, <4>2
    <3>4. pc'[r] \in Flagging => todo'[r] \in Seq(alive') \ {<< >>}
      BY <1>j, <2>4 DEF Flagging
    <3> QED BY <1>g, <3>3, <3>4 DEF FlagsNamed, Names
  <2> QED BY <1>f, <2>3, <2>4 DEF Typed, Sound, Shapes
<1>8. WalksSound'
  BY <1>g DEF WalksSound
<1>9. DescentsSound'
  BY <1>b, <1>c, <1>g DEF DescentsSound
<1> QED BY <1>3, <1>4, <1>5, <1>6, <1>7, <1>8, <1>9 DEF Sound

LEMMA UpdateStatusInv ==
    ASSUME Typed, Sound, ~rekeyed,
           NEW r \in Clients, \A q \in Clients : q = r,
           UpdateStatus(r)
    PROVE  Sound'
<1>0. Named(r)
  <2>1. pc[r] # "idle"
    BY DEF UpdateStatus
  <2> QED BY <2>1, Asked
<1> USE NoParentAssumption DEF UpdateStatus, Goto, rows, caches, walk
<1>a. The(call[r].active, FALSE) \in BOOLEAN
  <2>1. call[r].active = {} \/ \E b \in BOOLEAN : call[r].active = {b}
    BY <1>0, CallFacts DEF Named
  <2>2. CASE call[r].active = {}
    BY ONLY <2>2, TheFacts
  <2>3. ASSUME NEW b \in BOOLEAN, call[r].active = {b}
        PROVE  The(call[r].active, FALSE) \in BOOLEAN
    <3>1. The({b}, FALSE) = b
      BY ONLY TheFacts
    <3> QED BY ONLY <2>3, <3>1
  <2> QED BY <2>1, <2>2, <2>3
<1> DEFINE on == The(call[r].active, FALSE)
<1>g. \A d \in Categories : /\ [row[d] EXCEPT !.active = on] \in Row
                            /\ [row[d] EXCEPT !.active = on].parent = row[d].parent
                            /\ [row[d] EXCEPT !.active = on].deleted = row[d].deleted
                            /\ [row[d] EXCEPT !.active = on].flag = row[d].flag
  <2>1. on \in BOOLEAN /\ row \in [Categories -> Row]
    BY <1>a DEF Typed, TypeOK
  <2> HIDE DEF on, UpdateStatus
  <2> QED BY <2>1, Switched
<1>h. row' = [d \in Categories |-> IF d \in call[r].ids \cap alive
                                   THEN [row[d] EXCEPT !.active = on] ELSE row[d]]
  OBVIOUS
<1> HIDE DEF on, UpdateStatus
<1>b. /\ row' \in [Categories -> Row]
      /\ \A d \in Categories : row'[d].parent = row[d].parent /\ row'[d].deleted = row[d].deleted
      /\ \A d \in Categories : row'[d].flag = row[d].flag
      /\ \A d \in Categories : d \notin call[r].ids \cap alive => row'[d] = row[d]
  BY <1>g, <1>h DEF Typed, TypeOK
<1> USE DEF UpdateStatus
<1>c. pc' = [pc EXCEPT ![r] = pc'[r]] /\ call' = call /\ Id(r)' = Id(r) /\ Target(r)' = Target(r)
  BY DEF Typed, Shapes, Id, Target
<1>d. pc'[r] = "drop" /\ left'[r] = call[r].ids
  BY DEF Typed, Shapes, TypeOK
<1> HIDE DEF UpdateStatus
<1>e. UNCHANGED <<alive, unborn, caches, call, seen, walk, todo, many, view>>
  BY DEF UpdateStatus
<1>f. left' = [left EXCEPT ![r] = call[r].ids]
  BY DEF UpdateStatus
<1>3. NoCycle'
  BY <1>b, <1>e, ParentsKept DEF Typed, Sound, TypeOK
<1>4. EntriesFresh'
  <2>1. ASSUME NEW d \in Categories, entry[d] # {}
        PROVE  Fresh(d, entry[d])
    BY <2>1 DEF Sound, EntriesFresh, Flagging, UpdateStatus
  <2>2. ASSUME NEW d \in Categories, entry[d] # {}, d \notin call[r].ids
        PROVE  Fresh(d, entry[d])'
    BY <2>1, <2>2, <1>b, <1>e DEF Fresh, Snapshot
  <2> QED BY <2>2, <1>d, <1>e DEF EntriesFresh, Flagging
<1>5. TreeFresh'
  BY <1>d, <1>e DEF TreeFresh
<1>6. Informed'
  BY <1>0, <1>c, <1>d DEF Typed, Sound, Dispatched, Stage, Informed, Flagging, Shapes, Named, UpdateStatus
<1>7. FlagsNamed'
  <2>1. \A d \in alive : row[d].flag <=> HasSubcategories(d)
    BY DEF Sound, FlagsNamed, Flagging, UpdateStatus
  <2>2. \A d \in alive : (row'[d].flag <=> row[d].flag) /\ (HasSubcategories(d)' <=> HasSubcategories(d))
    BY <1>b, <1>e DEF Typed, TypeOK, HasSubcategories
  <2>3. \A d \in alive : row'[d].flag <=> HasSubcategories(d)'
    BY <2>1, <2>2
  <2> QED BY <2>3, <1>d, <1>e DEF FlagsNamed, Flagging
<1>8. WalksSound'
  BY <1>d DEF WalksSound
<1>9. DescentsSound'
  BY <1>d, <1>e DEF DescentsSound
<1> QED BY <1>3, <1>4, <1>5, <1>6, <1>7, <1>8, <1>9 DEF Sound

LEMMA FlagWriteInv ==
    ASSUME Typed, Sound, ~rekeyed,
           NEW r \in Clients, \A q \in Clients : q = r,
           FlagWrite(r)
    PROVE  Sound'
<1>0. Named(r)
  <2>1. pc[r] # "idle"
    BY DEF FlagWrite
  <2> QED BY <2>1, Asked
<1> USE NoParentAssumption DEF FlagWrite, Goto, rows, caches, walk
<1> DEFINE c == Head(todo[r])
           rest == Tail(todo[r])
<1>a. todo[r] \in Seq(alive) /\ todo[r] # << >> /\ alive \subseteq Categories
  BY DEF Typed, Sound, FlagsNamed, Flagging, TypeOK
<1>b. c \in alive /\ rest \in Seq(alive) /\ c \in Categories
  BY <1>a, HeadTailProperties
<1>e. rest \in Seq(Categories)
  BY <1>a, <1>b, HeadTailProperties DEF Typed, Shapes
<1>c. pc' = [pc EXCEPT ![r] = pc'[r]] /\ call' = call /\ Id(r)' = Id(r) /\ Target(r)' = Target(r)
  BY DEF Typed, Shapes, Id, Target
<1>d. /\ row' = [row EXCEPT ![c].flag = many[r]]
      /\ pc'[r] = IF rest # << >> THEN "flagCount"
                  ELSE IF left[r] # {} THEN "drop" ELSE "dropTree"
      /\ todo' = [todo EXCEPT ![r] = rest]
      /\ UNCHANGED <<alive, unborn, caches, call, seen, walk, many, left, view>>
  BY <1>b DEF Typed, Shapes
<1>f. /\ row' \in [Categories -> Row]
      /\ \A d \in Categories : row'[d].parent = row[d].parent /\ row'[d].deleted = row[d].deleted
      /\ \A d \in Categories : row'[d].active = row[d].active
      /\ \A d \in Categories \ {c} : row'[d] = row[d]
      /\ row'[c].flag = many[r]
  <2>1. row \in [Categories -> Row] /\ many[r] \in BOOLEAN
    BY DEF Typed, TypeOK, Shapes
  <2>2. /\ [row[c] EXCEPT !.flag = many[r]] \in Row
        /\ [row[c] EXCEPT !.flag = many[r]].parent = row[c].parent
        /\ [row[c] EXCEPT !.flag = many[r]].deleted = row[c].deleted
        /\ [row[c] EXCEPT !.flag = many[r]].active = row[c].active
        /\ [row[c] EXCEPT !.flag = many[r]].flag = many[r]
    BY <1>b, <2>1, Flagged
  <2>3. row' = [row EXCEPT ![c] = [row[c] EXCEPT !.flag = many[r]]]
    BY <1>d
  <2> HIDE DEF c, FlagWrite
  <2> QED BY <1>b, <2>1, <2>2, <2>3
<1>i. pc[r] = "flagWrite" /\ call[r].op # "products"
  BY DEF Typed, Dispatched, Stage, Flagging
<1> HIDE DEF c, rest, FlagWrite
<1>3. NoCycle'
  BY <1>d, <1>f, ParentsKept DEF Typed, Sound, TypeOK
<1>4. EntriesFresh'
  <2>1. ASSUME NEW d \in Categories, entry[d] # {}
        PROVE  Fresh(d, entry[d]) \/ d \in left[r]
    BY <2>1 DEF Sound, EntriesFresh, Flagging
  <2>2. ASSUME NEW d \in Categories, Fresh(d, entry[d])
        PROVE  Fresh(d, entry[d])'
    BY <2>2, <1>d, <1>f DEF Fresh, Snapshot
  <2>3. pc'[r] \in {"flagCount", "drop"} \/ left[r] = {}
    BY <1>d
  <2> QED BY <2>1, <2>2, <2>3, <1>d DEF EntriesFresh, Flagging
<1>5. TreeFresh'
  BY <1>d DEF TreeFresh, Flagging
<1>6. Informed'
  BY <1>0, <1>c, <1>d, <1>i DEF Typed, Sound, Dispatched, Stage, Informed, Flagging, Shapes, Named
<1>7. FlagsNamed'
  <2>1. \A d \in Categories : HasSubcategories(d)' <=> HasSubcategories(d)
    BY <1>a, <1>d, <1>f DEF HasSubcategories
  <2>2. \A d \in alive \ {c} : (row[d].flag <=> HasSubcategories(d))
                                 \/ (rest # << >> /\ Names(rest, d))
    <3> SUFFICES ASSUME NEW d \in alive \ {c}, ~(row[d].flag <=> HasSubcategories(d))
                 PROVE  rest # << >> /\ Names(rest, d)
      OBVIOUS
    <3>1. Names(todo[r], d)
      BY DEF Sound, FlagsNamed, Names
    <3> QED BY <1>a, <3>1, TailNames DEF c, rest
  <2>3. ASSUME NEW d \in alive, d = c
        PROVE  row'[d].flag <=> HasSubcategories(d)'
    <3>1. many[r] <=> HasSubcategories(d)
      BY <1>i, <2>3 DEF Sound, FlagsNamed, c
    <3>2. HasSubcategories(d)' <=> HasSubcategories(d)
      BY <1>a, <2>1
    <3>3. row'[d].flag <=> many[r]
      BY <1>f, <2>3
    <3> QED BY ONLY <3>1, <3>2, <3>3
  <2>4. ASSUME NEW d \in alive
        PROVE  \/ row'[d].flag <=> HasSubcategories(d)'
               \/ pc'[r] \in Flagging /\ Names(todo'[r], d)
    <3>1. CASE d = c
      BY <2>3, <3>1
    <3>2. CASE d # c /\ (row[d].flag <=> HasSubcategories(d))
      <4>1. (HasSubcategories(d)' <=> HasSubcategories(d)) /\ row'[d] = row[d]
        BY <1>a, <1>f, <2>1, <3>2
      <4> QED BY <3>2, <4>1
    <3>3. CASE d # c /\ rest # << >> /\ Names(rest, d)
      <4>1. pc'[r] = "flagCount" /\ todo'[r] = rest
        BY <1>d, <1>i, <3>3 DEF Typed, Shapes
      <4> QED BY <3>3, <4>1 DEF Flagging
    <3> QED BY <2>2, <3>1, <3>2, <3>3
  <2>5. pc'[r] \in Flagging => todo'[r] \in Seq(alive') \ {<< >>}
    BY <1>b, <1>d DEF Typed, Shapes, Flagging
  <2>6. pc'[r] # "flagWrite" /\ alive' = alive
    BY <1>d
  <2> QED BY <2>4, <2>5, <2>6 DEF FlagsNamed, Names
<1>8. WalksSound'
  BY <1>d DEF WalksSound
<1>9. DescentsSound'
  BY <1>0, <1>d, <1>i DEF DescentsSound
<1> QED BY <1>3, <1>4, <1>5, <1>6, <1>7, <1>8, <1>9 DEF Sound

LEMMA DropEntryInv ==
    ASSUME Typed, Sound, ~rekeyed,
           NEW r \in Clients, \A q \in Clients : q = r,
           NEW c \in Categories, DropEntry(r, c)
    PROVE  Sound'
<1>0. Named(r)
  <2>1. pc[r] # "idle"
    BY DEF DropEntry
  <2> QED BY <2>1, Asked
<1> USE NoParentAssumption DEF DropEntry, Goto, rows, caches, walk
<1>3. NoCycle'
  BY DEF Sound, NoCycle
<1>4. EntriesFresh'
  <2>1. /\ entry' = [entry EXCEPT ![c] = {}] /\ c \in left[r]
        /\ left' = [left EXCEPT ![r] = left[r] \ {c}]
        /\ pc' = [pc EXCEPT ![r] = IF left[r] = {c} THEN "dropTree" ELSE "drop"]
        /\ row' = row /\ alive' = alive
    OBVIOUS
  <2>2. ASSUME NEW d \in Categories, entry'[d] # {}
        PROVE  d # c /\ entry'[d] = entry[d] /\ (Fresh(d, entry[d]) \/ d \in left[r])
    BY <2>1, <2>2 DEF Typed, TypeOK, Sound, EntriesFresh
  <2>3. ASSUME NEW d \in Categories, entry'[d] # {}, Fresh(d, entry[d])
        PROVE  Fresh(d, entry[d])'
    BY <2>1, <2>2, <2>3, RowsKept DEF Fresh
  <2>4. ASSUME NEW d \in Categories, entry'[d] # {}, d \in left[r]
        PROVE  d \in left'[r] /\ pc'[r] = "drop"
    BY <2>1, <2>2, <2>4 DEF Typed, TypeOK, Shapes
  <2> QED BY <2>2, <2>3, <2>4 DEF EntriesFresh
<1>5. TreeFresh'
  BY DEF Typed, Sound, TreeFresh, Shown, Flagging, Shapes
<1>6. Informed'
  BY <1>0, Booleans, ShownType DEF Named, Typed, Sound, Dispatched, Stage, Informed, Fresh, Snapshot, Flagging, Shapes, TypeOK, Id, HasSubcategories
<1>7. FlagsNamed'
  BY DEF Typed, Sound, FlagsNamed, Flagging, HasSubcategories, Shapes
<1>8. WalksSound'
  BY <1>0 DEF Named, Typed, Sound, WalksSound, Climbed, Shapes, TypeOK, Dispatched, Stage, Target
<1>9. DescentsSound'
  BY <1>0 DEF Named, Typed, Sound, DescentsSound, Showing, Shapes, TypeOK, Dispatched, Stage
<1> QED BY <1>3, <1>4, <1>5, <1>6, <1>7, <1>8, <1>9 DEF Sound

LEMMA DropTreeInv ==
    ASSUME Typed, Sound, ~rekeyed,
           NEW r \in Clients, \A q \in Clients : q = r,
           DropTree(r)
    PROVE  Sound'
<1>0. Named(r)
  <2>1. pc[r] # "idle"
    BY DEF DropTree
  <2> QED BY <2>1, Asked
<1> USE NoParentAssumption DEF DropTree, Goto, rows, caches, walk
<1>3. NoCycle'
  BY DEF Sound, NoCycle
<1>4. EntriesFresh'
  BY DEF Typed, Sound, EntriesFresh, Fresh, Snapshot, Flagging, Shapes, TypeOK
<1>5. TreeFresh'
  BY DEF Typed, Sound, TreeFresh, Shown, Flagging, Shapes
<1>6. Informed'
  BY <1>0, Booleans, ShownType DEF Named, Typed, Sound, Dispatched, Stage, Informed, Fresh, Snapshot, Flagging, Shapes, TypeOK, Id, HasSubcategories
<1>7. FlagsNamed'
  BY DEF Typed, Sound, FlagsNamed, Flagging, HasSubcategories, Shapes
<1>8. WalksSound'
  BY <1>0 DEF Named, Typed, Sound, WalksSound, Climbed, Shapes, TypeOK, Dispatched, Stage, Target
<1>9. DescentsSound'
  BY <1>0 DEF Named, Typed, Sound, DescentsSound, Showing, Shapes, TypeOK, Dispatched, Stage
<1> QED BY <1>3, <1>4, <1>5, <1>6, <1>7, <1>8, <1>9 DEF Sound

LEMMA TreeFillInv ==
    ASSUME Typed, Sound, ~rekeyed,
           NEW r \in Clients, \A q \in Clients : q = r,
           TreeFill(r)
    PROVE  Sound'
<1>0. Named(r)
  <2>1. pc[r] # "idle"
    BY DEF TreeFill
  <2> QED BY <2>1, Asked
<1> USE NoParentAssumption DEF TreeFill, Goto, rows, caches, walk
<1>3. NoCycle'
  BY DEF Sound, NoCycle
<1>4. EntriesFresh'
  BY DEF Typed, Sound, EntriesFresh, Fresh, Snapshot, Flagging, Shapes, TypeOK
<1>5. TreeFresh'
  BY DEF Typed, Sound, TreeFresh, Shown, Flagging, Shapes
<1>6. Informed'
  BY <1>0, Booleans, ShownType DEF Named, Typed, Sound, Dispatched, Stage, Informed, Fresh, Snapshot, Flagging, Shapes, TypeOK, Id, HasSubcategories
<1>7. FlagsNamed'
  BY DEF Typed, Sound, FlagsNamed, Flagging, HasSubcategories, Shapes
<1>8. WalksSound'
  BY <1>0 DEF Named, Typed, Sound, WalksSound, Climbed, Shapes, TypeOK, Dispatched, Stage, Target
<1>9. DescentsSound'
  BY <1>0 DEF Named, Typed, Sound, DescentsSound, Showing, Shapes, TypeOK, Dispatched, Stage
<1> QED BY <1>3, <1>4, <1>5, <1>6, <1>7, <1>8, <1>9 DEF Sound

LEMMA ExpireInv ==
    ASSUME Typed, Sound, ~rekeyed, Expire
    PROVE  Sound'
<1>1. /\ UNCHANGED <<row, alive, unborn, call, pc, seen, at, visited, pending, found, todo,
                     many, left, view>>
      /\ tree' \in {tree, {}}
      /\ entry' = entry \/ \E c \in Categories : entry' = [entry EXCEPT ![c] = {}]
  BY DEF Expire, rows, walk
<1>2. /\ entry' \in [Categories -> {{}} \cup {{i} : i \in Info}]
      /\ \A c \in Categories : entry'[c] # {} => entry'[c] = entry[c]
  BY <1>1 DEF Typed, TypeOK
<1>4. NoCycle'
  BY <1>1, ParentsKept DEF Typed, Sound, Shapes
<1>5. EntriesFresh'
  <2>1. \A c \in Categories : Fresh(c, entry[c])' <=> Fresh(c, entry'[c])
    BY <1>1 DEF Fresh, Snapshot
  <2> QED BY <1>1, <1>2, <2>1 DEF Sound, EntriesFresh, Fresh, Snapshot
<1>6. TreeFresh'
  BY <1>1, RowsKept DEF Sound, TreeFresh
<1>7. Informed'
  BY <1>1 DEF Typed, Sound, Dispatched, Stage, Informed, Fresh, Snapshot, Id, HasSubcategories
<1>8. FlagsNamed'
  BY <1>1 DEF Sound, FlagsNamed, HasSubcategories
<1>9. WalksSound'
  BY <1>1 DEF Sound, WalksSound, Climbed, Target
<1>10. DescentsSound'
  BY <1>1 DEF Sound, DescentsSound, Showing
<1> QED BY <1>4, <1>5, <1>6, <1>7, <1>8, <1>9, <1>10 DEF Sound

LEMMA StutterInv ==
    ASSUME Typed, Sound, ~rekeyed, UNCHANGED vars
    PROVE  Sound'
<1> USE DEF vars, rows, caches, walk
<1>1. NoCycle'
  BY DEF Typed, Sound, TypeOK, Shapes, NoCycle, Forest
<1>2. EntriesFresh' /\ TreeFresh'
  BY RowsKept DEF Sound, EntriesFresh, TreeFresh, Fresh
<1>3. Informed'
  BY RowsKept DEF Sound, Informed, Fresh, Id
<1>4. FlagsNamed'
  BY DEF Sound, FlagsNamed, HasSubcategories
<1>5. WalksSound' /\ DescentsSound'
  BY DEF Sound, WalksSound, DescentsSound, Climbed, Target, Showing
<1> QED BY <1>1, <1>2, <1>3, <1>4, <1>5 DEF Sound

-----------------------------------------------------------------------------
(* The theorems *)

\* A changed id is not forgotten.
LEMMA RekeyedStays ==
    ASSUME Typed, [Next]_vars, ~rekeyed'
    PROVE  ~rekeyed
<1> USE DEF rows
<1>1. ASSUME NEW r \in Clients, \/ \E c \in CallsOf[r] : Begin(r, c)
                                \/ Lookup(r) \/ Load(r) \/ Fill(r)
                                \/ ParentExists(r) \/ Walk(r)
                                \/ CountChildren(r) \/ FlagCount(r)
      PROVE  rekeyed' = rekeyed
  BY <1>1 DEF Begin, Lookup, Load, Fill, ParentExists, Walk, CountChildren, FlagCount
<1>2. ASSUME NEW r \in Clients, Create(r) \/ Erase(r) \/ UpdateStatus(r) \/ FlagWrite(r)
      PROVE  rekeyed' = rekeyed
  BY <1>2 DEF Create, Insert, Erase, UpdateStatus, FlagWrite
<1>3. ASSUME NEW r \in Clients, NEW c \in Categories, DropEntry(r, c) \/ Descend(r, c)
      PROVE  rekeyed' = rekeyed
  BY <1>3 DEF DropEntry, Descend
<1>4. ASSUME NEW r \in Clients, \/ Climb(r) \/ DropTree(r) \/ TreeGet(r)
                                \/ TreeRead(r) \/ TreeFill(r) \/ End(r)
      PROVE  rekeyed' = rekeyed
  BY <1>4 DEF Climb, DropTree, TreeGet, TreeRead, TreeFill, End
<1>5. ASSUME NEW r \in Clients, Write(r)
      PROVE  rekeyed => rekeyed'
  BY <1>5 DEF Write
<1>6. CASE Expire \/ UNCHANGED vars
  BY <1>6 DEF Expire, vars
<1> QED BY <1>1, <1>2, <1>3, <1>4, <1>5, <1>6 DEF Next, Step

\* Every step of the only client keeps the invariant.  A step that changes an id has
\* nothing left to keep but the shapes.
LEMMA NextInv ==
    ASSUME IInv, NEW r \in Clients, \A q \in Clients : q = r, [Next]_vars
    PROVE  IInv'
<1>0. Typed'
  BY TypedNext DEF IInv
<1> SUFFICES ASSUME ~rekeyed' PROVE Sound'
  BY <1>0 DEF IInv
<1>a. ~rekeyed
  BY RekeyedStays DEF IInv
<1>b. Typed /\ Sound
  BY <1>a DEF IInv
<1>1. CASE \E c \in CallsOf[r] : Begin(r, c)
  BY <1>1, <1>a, <1>b, BeginInv
<1>2. CASE Lookup(r) \/ Load(r) \/ Fill(r)
  BY <1>2, <1>a, <1>b, LookupInv, LoadInv, FillInv
<1>3. CASE ParentExists(r) \/ Walk(r) \/ Write(r) \/ Create(r)
  BY <1>3, <1>a, <1>b, ParentExistsInv, WalkInv, WriteInv, CreateInv
<1>4. CASE CountChildren(r) \/ Erase(r) \/ UpdateStatus(r)
  BY <1>4, <1>a, <1>b, CountChildrenInv, EraseInv, UpdateStatusInv
<1>5. CASE FlagCount(r) \/ FlagWrite(r)
  BY <1>5, <1>a, <1>b, FlagCountInv, FlagWriteInv
<1>6. CASE \E c \in Categories : DropEntry(r, c) \/ Descend(r, c)
  BY <1>6, <1>a, <1>b, DropEntryInv, DescendInv
<1>7. CASE Climb(r) \/ DropTree(r) \/ TreeGet(r) \/ TreeRead(r) \/ TreeFill(r) \/ End(r)
  BY <1>7, <1>a, <1>b, ClimbInv, DropTreeInv, TreeGetInv, TreeReadInv, TreeFillInv, EndInv
<1>8. CASE Expire
  BY <1>8, <1>a, <1>b, ExpireInv
<1>9. CASE UNCHANGED vars
  BY <1>9, <1>a, <1>b, StutterInv
<1> QED BY <1>1, <1>2, <1>3, <1>4, <1>5, <1>6, <1>7, <1>8, <1>9 DEF Next, Step

\* For one client the conjuncts of IInv hold between any two of its awaits: the
\* shapes always, the rest until an update has changed an id.
THEOREM Invariant ==
    ASSUME NEW r \in Clients, \A q \in Clients : q = r
    PROVE  Spec => []IInv
<1>1. Init => IInv
  BY InitInv DEF IInv
<1>2. IInv /\ [Next]_vars => IInv'
  BY NextInv
<1> QED BY <1>1, <1>2, PTL DEF Spec

\* Rows, caches and requests have the shape the code gives them, for any number of
\* clients; in particular no row ever names a parent that has no row, however moves,
\* removals and changed ids interleave (parentId with onDelete: SetNull and
\* onUpdate: Cascade, and the statement that fails when the parent is gone).
THEOREM TypeCorrect == Spec => []TypeOK
<1>1. Init => Typed
  BY InitInv
<1>2. Typed /\ [Next]_vars => Typed'
  BY TypedNext
<1>3. Typed => TypeOK
  BY DEF Typed
<1> QED BY <1>1, <1>2, <1>3, PTL DEF Spec

\* As long as no update has changed an id, the categories stay a forest: the walk of
\* update refuses every move that would close a cycle, of any length
\* (checkForCircularReference).
THEOREM Acyclic ==
    ASSUME NEW r \in Clients, \A q \in Clients : q = r
    PROVE  Spec => []NoCycle
<1>1. IInv => NoCycle
  BY DEF IInv, Sound, NoCycle
<1> QED BY <1>1, Invariant, PTL

\* As long as no update has changed an id, every hasSubcategories is after a request
\* what a count of the children would answer: update, create and remove recompute
\* each flag they may have changed.
THEOREM FlagsStayExact ==
    ASSUME NEW r \in Clients, \A q \in Clients : q = r
    PROVE  Spec => []FlagsExact
<1>1. IInv => FlagsExact
  BY DEF IInv, Sound, FlagsNamed, FlagsExact, Quiet, Flagging
<1> QED BY <1>1, Invariant, PTL

\* As long as no update has changed an id, a cached tree and the parent and the
\* active flag of a cached category are after a request what the rows say: each
\* write deletes the entries and the tree in which these have changed.
THEOREM CachesStayCoherent ==
    ASSUME NEW r \in Clients, \A q \in Clients : q = r
    PROVE  Spec => []CachesCoherent
<1>1. IInv => CachesCoherent
  BY DEF IInv, Sound, EntriesFresh, TreeFresh, CachesCoherent, Quiet, Flagging, Fresh
<1> QED BY <1>1, Invariant, PTL

\* As long as no update has changed an id, getProducts finds the whole subtree that
\* shows, although it trusts the flags of the categories it has found: they are
\* exact while it runs.
THEOREM WholeSubtree ==
    ASSUME NEW r \in Clients, \A q \in Clients : q = r
    PROVE  Spec => []ProductsOfWholeSubtree
<1>1. ASSUME IInv PROVE ProductsOfWholeSubtree
  <2> SUFFICES ASSUME NEW q \in Clients, call[q].op = "products", pc[q] = "end",
                      seen[q] # {}, ~rekeyed, NEW c \in alive
               PROVE  c \in found[q] <=> Showing(c) /\ row[c].parent \in found[q] \cup call[q].ids
    BY DEF ProductsOfWholeSubtree
  <2>1. /\ visited[q] \subseteq call[q].ids \cup found[q] /\ found[q] \subseteq alive
        /\ c \in found[q] <=> Showing(c) /\ row[c].parent \in visited[q]
        /\ \A d \in found[q] : row[d].flag => d \in visited[q]
        /\ call[q].ids \subseteq visited[q]
    BY <1>1 DEF IInv, Sound, DescentsSound
  <2>2. ASSUME Showing(c), row[c].parent \in found[q]
        PROVE  row[c].parent \in visited[q]
    <3>1. HasSubcategories(row[c].parent)
      BY <2>2 DEF HasSubcategories, Showing
    <3>2. row[row[c].parent].flag
      BY <1>1, <2>1, <2>2, <3>1 DEF IInv, Sound, FlagsNamed, Flagging
    <3> QED BY <2>1, <2>2, <3>2
  <2> QED BY <2>1, <2>2
<1> QED BY <1>1, Invariant, PTL

=============================================================================
