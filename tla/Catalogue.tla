----------------------------- MODULE Catalogue ------------------------------
(* The tree of categories (packages/catalog/src/categories.ts, with the       *)
(* triggers of migration 029) and the cached menu (query-cache.ts).  The      *)
(* service opens no transaction: every statement commits by itself, and the   *)
(* cache is cleared after the last one.  One product stands for those of a    *)
(* category; a version number stands for what the menu shows.                 *)
EXTENDS Integers, FiniteSetsExt

CONSTANTS Cats, NoCat,    \* categories, and the parent of a root
          Editors,        \* requests of the panel that are under way
          Visitors,       \* requests of the shop that build the menu
          MaxDepth,       \* depth of the deepest category
          MaxEdits        \* bound: requests of the panel

ASSUME CatalogueAssumption ==
  IsFiniteSet(Cats) /\ NoCat \notin Cats /\ MaxDepth \in Nat /\ MaxEdits \in Nat

VARIABLES rows,      \* categories in the table
          parent,    \* column parent_id
          depth,     \* column depth, kept by a trigger
          home,      \* the category of the product
          shown,     \* the product is active
          task,      \* what each editor's request has come to
          version,   \* grows with every write that changes the menu
          menu,      \* the entry of the cache
          reader,    \* the menu that a visitor's request is building
          crossed,   \* two statements have moved categories at once
          edits      \* requests so far

treeVars      == <<rows, parent, depth>>
goodsVars     == <<home, shown>>
cacheVars     == <<menu, reader>>
catalogueVars == <<treeVars, goodsVars, cacheVars, task, version, crossed, edits>>

-----------------------------------------------------------------------------
(* Trees.  f is a parent function.                                            *)

\* What is above c: the least set that the way up from c does not leave.  On a cycle
\* c is above itself.
Ancestors(f, c) ==
  {x \in Cats : \A S \in SUBSET Cats :
     f[c] \in S \cup {NoCat} /\ (\A y \in S : f[y] \in S \cup {NoCat}) => x \in S}

\* No categories whose parents are all among themselves.
Acyclic(f) == \A S \in SUBSET Cats \ {{}} : ~({f[c] : c \in S} \subseteq S)

DepthIn(f, c) == Cardinality(Ancestors(f, c))

Branch(f, c) == {x \in Cats : x = c \/ c \in Ancestors(f, x)}

Height(c) == Max({DepthIn(parent, x) - DepthIn(parent, c) : x \in Branch(parent, c)})

Children(c) == {x \in rows : parent[x] = c}

\* recalc_category_branch, for the moved rows: their depths and those below them.
Recalculated(f, moved) == [x \in UNION {Branch(f, c) : c \in moved} |-> DepthIn(f, x)]

-----------------------------------------------------------------------------
(* Requests of the panel, and answers of the cache.                           *)

\* What a statement that sets a parent holds until it commits: rows and depths.
Task(op, c, p, g, step, moved, depths) ==
  [op |-> op, cat |-> c, to |-> p, goodsTo |-> g, step |-> step, moved |-> moved,
   depths |-> depths]

Holding(op, c, p, g, step) == Task(op, c, p, g, step, {}, [x \in {} |-> 0])

Request(op, c, p, g) == Holding(op, c, p, g, "checked")

\* An editor without a request.
Idle == Holding("none", NoCat, NoCat, NoCat, "idle")

\* Everything is written, and the cache not yet cleared.
Written(op) == Holding(op, NoCat, NoCat, NoCat, "written")

At(t, step) == Task(t.op, t.cat, t.to, t.goodsTo, step, t.moved, t.depths)

Answer(view, is) == [view |-> view, is |-> is]

NoMenu == Answer(-1, "none")

\* An answer that was read before a clear, or before a removal that fails halfway,
\* does not show what is there now.
Unsound(answer) == IF answer = NoMenu THEN NoMenu ELSE Answer(answer.view, "outdated")

-----------------------------------------------------------------------------
\* The seed's roots, or a tree that earlier requests have made: one has a parent.
CatalogueInit ==
  /\ rows = Cats
  /\ parent \in {[c \in Cats |-> IF c = p THEN q ELSE NoCat] : p \in Cats, q \in Cats \cup {NoCat}}
  /\ Acyclic(parent) /\ depth = [c \in Cats |-> DepthIn(parent, c)]
  /\ home \in Cats /\ shown = TRUE
  /\ task = [e \in Editors |-> Idle] /\ version = 0
  /\ menu = NoMenu /\ reader = [v \in Visitors |-> NoMenu]
  /\ crossed = FALSE /\ edits = 0

\* A request starts with its checks, each a query of its own.
Starts(e, t) ==
  /\ task[e] = Idle /\ edits < MaxEdits /\ edits' = edits + 1
  /\ task' = [task EXCEPT ![e] = t]

Goes(e, step) == task' = [task EXCEPT ![e] = At(task[e], step)]

\* create.  Its depth is the column of the parent and one.
CheckCreate(e, c, p) ==
  /\ c \notin rows
  /\ p = NoCat \/ (p \in rows /\ depth[p] + 1 <= MaxDepth)
  /\ Starts(e, Request("create", c, p, NoCat))
  /\ UNCHANGED <<treeVars, goodsVars, cacheVars, version, crossed>>

\* move.  The query for the height of the branch ends only on a tree.
CheckMove(e, c, p) ==
  /\ c \in rows /\ p # c
  /\ p = NoCat \/ (p \in rows /\ Acyclic(parent) /\ depth[p] + 1 + Height(c) <= MaxDepth)
  /\ Starts(e, Request("move", c, p, NoCat))
  /\ UNCHANGED <<treeVars, goodsVars, cacheVars, version, crossed>>

\* remove.  Only active products are counted, and no depth is looked at.
CheckRemove(e, c, g, k) ==
  /\ c \in rows /\ Acyclic(parent)
  /\ home = c /\ shown => g \in rows
  /\ Children(c) # {} => k \in rows
  /\ k # NoCat => k \in rows
  /\ Starts(e, Request("remove", c, k, g))
  /\ UNCHANGED <<treeVars, goodsVars, cacheVars, version, crossed>>

-----------------------------------------------------------------------------
(* The statements.                                                            *)

\* Rows whose parent the statement of e sets.
Moved(e) == IF task[e].op = "remove" THEN Children(task[e].cat) ELSE {task[e].cat}

After(e) == [x \in Cats |-> IF x \in Moved(e) THEN task[e].to ELSE parent[x]]

Setting == {e \in Editors : task[e].step = "setting"}

Outdated == [v \in Visitors |-> Unsound(reader[v])]

\* The request ends with an error and clears nothing.
Fails(e) ==
  /\ task' = [task EXCEPT ![e] = Idle]
  /\ reader' = IF task[e].op = "remove" THEN Outdated ELSE reader
  /\ menu' = IF task[e].op = "remove" THEN Unsound(menu) ELSE menu
  /\ UNCHANGED <<treeVars, goodsVars, version, crossed, edits>>

\* remove: UPDATE products SET type_id.
MoveGoods(e) ==
  /\ task[e].op = "remove" /\ task[e].step = "checked"
  /\ IF task[e].goodsTo = NoCat \/ home # task[e].cat
       THEN /\ Goes(e, "goods")
            /\ UNCHANGED <<treeVars, goodsVars, cacheVars, version, crossed, edits>>
     ELSE IF task[e].goodsTo \in rows
       THEN /\ Goes(e, "goods") /\ home' = task[e].goodsTo /\ version' = version + 1
            /\ UNCHANGED <<treeVars, shown, cacheVars, crossed, edits>>
     ELSE Fails(e)

Ready(e) == task[e].step = IF task[e].op = "remove" THEN "goods" ELSE "checked"

\* The statement that sets a parent: the trigger looks for a cycle and computes the
\* depths, among the rows that are committed.  It waits for rows that others hold.
SetParent(e) ==
  /\ Ready(e) /\ Acyclic(parent) /\ Moved(e) # {}
  /\ task[e].op = "remove" => task[e].to # NoCat
  /\ task[e].op = "create" => task[e].cat \notin rows
  /\ task[e].op # "create" => task[e].cat \in rows
  /\ task[e].to \in rows \cup {NoCat}
  /\ Acyclic(After(e))
  /\ LET depths == Recalculated(After(e), Moved(e)) IN
       /\ \A f \in Setting : DOMAIN depths \cap DOMAIN task[f].depths = {}
       /\ task' = [task EXCEPT ![e] =
            Task(task[e].op, task[e].cat, task[e].to, NoCat, "setting", Moved(e), depths)]
  /\ crossed' = (crossed \/ Setting # {})
  /\ UNCHANGED <<treeVars, goodsVars, cacheVars, version, edits>>

\* A cycle, a missing parent, a missing row: the statement fails.
SetFails(e) ==
  /\ Ready(e) /\ Acyclic(parent) /\ Moved(e) # {}
  /\ task[e].op = "remove" => task[e].to # NoCat
  /\ \/ ~Acyclic(After(e))
     \/ task[e].to \notin rows \cup {NoCat}
     \/ (task[e].op = "create") = (task[e].cat \in rows)
  /\ Fails(e)

\* remove: no children, or nowhere to put them.
NothingToSet(e) ==
  /\ Ready(e) /\ task[e].op = "remove" /\ (Moved(e) = {} \/ task[e].to = NoCat)
  /\ Goes(e, "emptied")
  /\ UNCHANGED <<treeVars, goodsVars, cacheVars, version, crossed, edits>>

Commit(e) ==
  /\ e \in Setting
  /\ LET t == task[e] IN
       /\ rows' = rows \cup t.moved
       /\ parent' = [x \in Cats |-> IF x \in t.moved THEN t.to ELSE parent[x]]
       /\ depth' = [x \in Cats |-> IF x \in DOMAIN t.depths THEN t.depths[x] ELSE depth[x]]
       /\ task' = [task EXCEPT ![e] =
            IF t.op # "remove" THEN Written("edit")
            ELSE Holding("remove", t.cat, NoCat, NoCat, "emptied")]
  /\ version' = version + 1
  /\ UNCHANGED <<goodsVars, cacheVars, crossed, edits>>

\* A row that a statement under way has as its parent, or changes, cannot go.
RowInUse(c) == \E f \in Setting : c = task[f].to \/ c \in DOMAIN task[f].depths

CanDelete(e) ==
  /\ task[e].step = "emptied" /\ ~RowInUse(task[e].cat)
  /\ task[e].cat \in rows /\ home # task[e].cat /\ Children(task[e].cat) = {}

\* Faulty variant: the request ends without a clear.
DeleteSilently(e) ==
  /\ CanDelete(e)
  /\ rows' = rows \ {task[e].cat} /\ version' = version + 1
  /\ parent' = [parent EXCEPT ![task[e].cat] = NoCat]
  /\ depth' = [depth EXCEPT ![task[e].cat] = 0]
  /\ task' = [task EXCEPT ![e] = Idle]
  /\ UNCHANGED <<goodsVars, cacheVars, crossed, edits>>

\* remove: the DELETE.
Delete(e) ==
  /\ CanDelete(e)
  /\ rows' = rows \ {task[e].cat} /\ version' = version + 1
  /\ parent' = [parent EXCEPT ![task[e].cat] = NoCat]
  /\ depth' = [depth EXCEPT ![task[e].cat] = 0]
  /\ task' = [task EXCEPT ![e] = Written("edit")]
  /\ UNCHANGED <<goodsVars, cacheVars, crossed, edits>>

\* remove: products or children are still there (a foreign key), or the row is gone.
DeleteFails(e) ==
  /\ task[e].step = "emptied" /\ ~RowInUse(task[e].cat) /\ ~CanDelete(e)
  /\ Fails(e)

\* updateProduct, in its transaction.
EditProduct(e, c, s) ==
  /\ c \in rows
  /\ Starts(e, Written("edit"))
  /\ home' = c /\ shown' = s /\ version' = version + 1
  /\ UNCHANGED <<treeVars, cacheVars, crossed>>

\* update: the name, the picture, the address.  The trigger goes by the columns that the
\* statement names, whatever is in them: the depths below c are computed anew.
Relabel(e, c) ==
  /\ c \in rows /\ Acyclic(parent) /\ Starts(e, Written("edit"))
  /\ LET depths == Recalculated(parent, {c}) IN
       /\ \A f \in Setting : DOMAIN depths \cap DOMAIN task[f].depths = {}
       /\ depth' = [x \in Cats |-> IF x \in DOMAIN depths THEN depths[x] ELSE depth[x]]
  /\ version' = version + 1
  /\ UNCHANGED <<rows, parent, goodsVars, cacheVars, crossed>>

\* The first row of reorder, which names the order alone.
Reorder(e) ==
  /\ rows # {}
  /\ Starts(e, Written("reorder"))
  /\ version' = version + 1
  /\ UNCHANGED <<treeVars, goodsVars, cacheVars, crossed>>

\* The second row of reorder.
ReorderNext(e) ==
  /\ task[e].op = "reorder"
  /\ task' = [task EXCEPT ![e] = Written("edit")] /\ version' = version + 1
  /\ UNCHANGED <<treeVars, goodsVars, cacheVars, crossed, edits>>

-----------------------------------------------------------------------------
(* The cache of the menu.                                                     *)

Empties == menu' = NoMenu /\ reader' = Outdated

\* clearSearchCache, at the end of a request.
Clear(e) ==
  /\ task[e].step = "written"
  /\ Empties /\ task' = [task EXCEPT ![e] = Idle]
  /\ UNCHANGED <<treeVars, goodsVars, version, crossed, edits>>

\* The button of the panel, a new policy, the edit of a synonym; the end of the
\* entry's time also.
MenuGoes ==
  /\ menu # NoMenu
  /\ Empties \/ (menu' = NoMenu /\ UNCHANGED reader)
  /\ UNCHANGED <<treeVars, goodsVars, task, version, crossed, edits>>

\* cachedList on a miss: the query, which ends only on a tree, ...
BuildMenu(v) ==
  /\ menu = NoMenu /\ reader[v] = NoMenu /\ Acyclic(parent)
  /\ reader' = [reader EXCEPT ![v] = Answer(version, "sound")]
  /\ UNCHANGED <<treeVars, goodsVars, menu, task, version, crossed, edits>>

\* ... and the entry, whatever has happened meanwhile.
PutMenu(v) ==
  /\ reader[v] # NoMenu
  /\ menu' = reader[v] /\ reader' = [reader EXCEPT ![v] = NoMenu]
  /\ UNCHANGED <<treeVars, goodsVars, task, version, crossed, edits>>

-----------------------------------------------------------------------------
\* The goods of a removed category go to one of the others: the one of its children,
\* or (bound) the one that the product is in already.
CatalogueNext ==
  \/ \E e \in Editors :
       \/ \E c \in Cats, p \in Cats \cup {NoCat} :
            \/ CheckCreate(e, c, p) \/ CheckMove(e, c, p)
            \/ \E g \in {NoCat, home, p} : CheckRemove(e, c, g, p)
       \/ MoveGoods(e) \/ SetParent(e) \/ SetFails(e) \/ NothingToSet(e) \/ Commit(e)
       \/ Delete(e) \/ DeleteFails(e)
       \/ \E c \in Cats, s \in BOOLEAN : EditProduct(e, c, s)
       \/ \E c \in Cats : Relabel(e, c)
       \/ Reorder(e) \/ ReorderNext(e) \/ Clear(e)
  \/ MenuGoes
  \/ \E v \in Visitors : BuildMenu(v) \/ PutMenu(v)

CatalogueSpec == CatalogueInit /\ [][CatalogueNext]_catalogueVars

-----------------------------------------------------------------------------
(* Properties.                                                                *)

\* Types.
CatalogueTypeOK ==
  /\ rows \subseteq Cats /\ parent \in [Cats -> Cats \cup {NoCat}]
  /\ depth \in [Cats -> Nat]
  /\ home \in rows /\ shown \in BOOLEAN /\ version \in Nat /\ crossed \in BOOLEAN
  /\ edits \in 0 .. MaxEdits
  /\ \A v \in Visitors : reader[v] # NoMenu => reader[v].view \in 0 .. version

\* No category is below itself, none has lost its parent, and the depth that the
\* checks read is the depth there is, unless two moves crossed.
TreeIsSound ==
  /\ \A c \in rows : parent[c] \in rows \cup {NoCat}
  /\ ~crossed => Acyclic(parent) /\ \A c \in rows : depth[c] = DepthIn(parent, c)

\* The menu in the cache is the one there is, unless a request has yet to clear it,
\* a removal failed halfway, or the answer was computed before a clear and put after.
MenuIsCurrent ==
  menu.is = "sound"
    => \/ menu.view = version
       \/ \E e \in Editors :
            task[e].step \in {"goods", "setting", "emptied", "written"}

\* The tree stays a tree, and the shop shows it.
CatalogueHolds == CatalogueTypeOK /\ TreeIsSound /\ MenuIsCurrent

\* The comment of tree: a stale menu is not possible, for writes break the cache.
MenuIsNeverStale ==
  menu # NoMenu /\ (\A e \in Editors : task[e] = Idle) => menu.view = version

\* The comment of create: there is no fourth level, for the menu has no place for it.
NoDeeperLevel == \A c \in rows : DepthIn(parent, c) <= MaxDepth

\* The comment of move: a cycle is caught by the database.
NoCycle == Acyclic(parent)
=============================================================================
