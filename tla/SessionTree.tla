------------------------------ MODULE SessionTree ------------------------------
(***************************************************************************)
(* The saved sessions: the two tables of sessions/store.cpp, and windows of *)
(* this application that have the file open, each with the tree it built at *)
(* its last reload, its filter and its modal editor. Nothing stops a second *)
(* window from opening the file, and no window hears of another's writes.   *)
(* A row keeps where it is, the order key <<pos, name>>, and, for a         *)
(* session, its address, what only the editor sets (own: overrides) and its *)
(* connect count. Every statement commits on its own: a row that is read to *)
(* be changed, and an import, are steps between which others may write.     *)
(***************************************************************************)
EXTENDS Integers, FiniteSets, SequencesExt

CONSTANTS
  Apps,       (* windows with the store open                              *)
  Stores,     (* files they may start from, with the ids they have used   *)
  Names,      (* names a person gives, numbered in collation order        *)
  Joined(_, _), (* the name "path/name"                                   *)
  Ungrouped,  (* the name an export gives to no folder at all             *)
  Hosts,      (* addresses a person types                                 *)
  Owns,       (* overrides a person sets                                  *)
  Files,      (* files to import: sequences of devices [folder, name, host] *)
  MaxId,      (* bound: ids of a table                                    *)
  MaxMoves    (* bound: operations                                        *)

Kinds == {"folder", "session"}
Root  == 0                       (* parent_id, folder_id NULL             *)
None  == [id |-> 0]              (* no editor is open, no row in hand      *)
NoJob == [does |-> "nothing"]    (* no operation is under way              *)
Start == 0                       (* overrides of a session not yet edited *)

(* The columns of a folder, of a session as the schema makes the table, and *)
(* those of a session that were added since.                               *)
kFolderCols   == {"up", "pos", "name", "open"}
kSchema       == {"up", "pos", "name", "host", "count"}
kAddedColumns == {"own"}

ASSUME TreeAssumption == /\ Names \subseteq Nat \ {0}
                         /\ MaxId \in Nat /\ MaxMoves \in Nat
                         /\ \A r \in Stores :
                              /\ r.last \in [Kinds -> Nat]
                              /\ \A f \in DOMAIN r.folder : /\ f \in 1 .. r.last.folder
                                                            /\ DOMAIN r.folder[f] = kFolderCols
                                                            /\ r.folder[f].up \in 0 .. r.last.folder
                                                            /\ r.folder[f].open \in BOOLEAN
                              /\ \A s \in DOMAIN r.session :
                                   /\ s \in 1 .. r.last.session
                                   /\ DOMAIN r.session[s] \in {kSchema, kSchema \cup kAddedColumns}
                              /\ \A k \in Kinds : \A i \in DOMAIN r[k] :
                                   r[k][i].pos \in Nat /\ r[k][i].name \in Nat
                         /\ Ungrouped \in Nat
                         /\ \A doc \in Files : /\ DOMAIN doc = 1 .. Len(doc) /\ Len(doc) \in Nat
                                              /\ \A n \in DOMAIN doc : doc[n].folder \in Nat /\ doc[n].name \in Nat

(* No folder of a file the user starts from is above itself.               *)
ASSUME FilesAreTrees ==
  \A r \in Stores : \E depth \in [DOMAIN r.folder -> 0 .. r.last.folder] :
    \A f \in DOMAIN r.folder :
      r.folder[f].up \in DOMAIN r.folder => depth[r.folder[f].up] < depth[f]

VARIABLES
  rows,       (* [folder, session]: id -> row                             *)
  last,       (* AUTOINCREMENT: the last id of each table                 *)
  tree,       (* per window: folders and their children as last loaded    *)
  filtering,  (* per window: the filter holds text                        *)
  dialog,     (* per window: the editor's copy of a session               *)
  job,        (* per window: the rows it is rewriting or importing        *)
  seen,       (* history: connects made, overrides saved, folders opened; *)
              (* rows saved while another window had a copy in hand       *)
              (* (raced); a folder was moved unseen (crossed)             *)
  moves

vars == <<rows, last, tree, filtering, dialog, job, seen, moves>>

------------------------------------------------------------------------------
(* The tables.                                                             *)

(* f with v at x; and with v wherever it has nothing in S.                  *)
With(f, x, v)   == [y \in DOMAIN f \cup {x} |-> IF y = x THEN v ELSE f[y]]
Filled(f, S, v) == [x \in DOMAIN f \cup S |-> IF x \in DOMAIN f THEN f[x] ELSE v]

(* The members of S in the order of the pairs in before; the items of seq   *)
(* that are in S. (The provers cannot expand SortSeq and SelectSeq.)        *)
Listed(S, before) ==
  [n \in 1 .. Cardinality(S) |->
     CHOOSE i \in S : Cardinality({j \in S : <<j, i>> \in before}) = n - 1]
Kept(seq, S) ==
  LET at == Listed({n \in DOMAIN seq : seq[n] \in S}, {p \in (DOMAIN seq) \X (DOMAIN seq) : p[1] < p[2]})
  IN  [n \in DOMAIN at |-> seq[at[n]]]

(* ORDER BY position, name.                                                *)
Before(t, i, j) == \/ t[i].pos < t[j].pos
                   \/ t[i].pos = t[j].pos /\ t[i].name < t[j].name
                   \/ t[i].pos = t[j].pos /\ t[i].name = t[j].name /\ i < j
Sorted(t, ids) == Listed(ids, {p \in ids \X ids : Before(t, p[1], p[2])})

nextPosition(t, up) ==
  LET taken == {t[i].pos : i \in {j \in DOMAIN t : t[j].up = up}}
  IN  IF taken = {} THEN 0 ELSE (CHOOSE p \in taken : \A q \in taken : q <= p) + 1

(* UPDATE ... WHERE id = ?: no such row is no error.                       *)
Updated(t, i, row) == IF i \in DOMAIN t THEN [t EXCEPT ![i] = row] ELSE t

(* INSERT: the row lands at the end of its folder, whatever the caller says.*)
Inserted(t, i, row) == With(t, i, [row EXCEPT !.pos = nextPosition(t, row.up)])

updateSessionAll(t, i, row) == Updated(t, i, row)                 \* fault

(* Every writable column of a row, over one whose connect count stays.      *)
bindWritable(row, old) == [row EXCEPT !.count = old.count]
updateSession(t, i, row) ==
  IF i \in DOMAIN t THEN Updated(t, i, bindWritable(row, t[i])) ELSE t

(* A row of each table before it is inserted.                              *)
NewFolder(up, name) == [up |-> up, pos |-> 0, name |-> name, open |-> TRUE]
NewSession(up, name, host) ==
  [up |-> up, pos |-> 0, name |-> name, host |-> host, own |-> Start, count |-> 0]

deleteFolder(r, f) ==
  LET toRoot(t) == [i \in DOMAIN t |-> IF t[i].up = f THEN [t[i] EXCEPT !.up = Root] ELSE t[i]]
      folders   == toRoot(r.folder)
  IN  [folder  |-> [i \in DOMAIN folders \ {f} |-> folders[i]], session |-> toRoot(r.session)]

(* Opening a file adds the columns an older one lacks, without a value: its *)
(* sessions override nothing.                                              *)
migrate(r) == [r EXCEPT !.session = [s \in DOMAIN @ |-> Filled(@[s], kAddedColumns, Start)]]

(* A row is read whole, column by column; what the editor and the tree work *)
(* on is that copy.                                                        *)
readFolder(row)  == [c \in kFolderCols |-> row[c]]
readSession(row) == [c \in kSchema \cup kAddedColumns |-> row[c]]
getFolder(f)  == readFolder(rows.folder[f])
getSession(s) == readSession(rows.session[s])

------------------------------------------------------------------------------
(* The tree of a window. Folder nodes start at the root and are moved, in   *)
(* the order read, under a parent the walk from the root can find: a node   *)
(* moved below itself takes its subtree out of that walk.                   *)

Chain(parent, f) ==
  LET up[k \in 0 .. Cardinality(DOMAIN parent)] ==
        IF k = 0 THEN f ELSE LET p == up[k - 1] IN IF p \in DOMAIN parent THEN parent[p] ELSE p
  IN  up
UnderRoot(parent, f) == Root \in Range(Chain(parent, f))

FolderHomes(t) ==
  LET read == Sorted(t, DOMAIN t)
      home[n \in 0 .. Len(read)] ==
        IF n = 0 THEN [f \in DOMAIN t |-> Root]
        ELSE LET f == read[n]
                 p == t[f].up
             IN  IF p \in DOMAIN t \ {f} /\ UnderRoot(home[n - 1], p)
                   THEN [home[n - 1] EXCEPT ![f] = p] ELSE home[n - 1]
  IN  home[Len(read)]

reload(r) ==
  LET home   == FolderHomes(r.folder)
      shown  == {f \in DOMAIN r.folder : UnderRoot(home, f)}
      where  == [folder |-> home, session |-> [s \in DOMAIN r.session |->
                   IF r.session[s].up \in shown THEN r.session[s].up ELSE Root]]
      ids(k) == IF k = "folder" THEN shown ELSE DOMAIN r.session
  IN  [open |-> {f \in shown : r.folder[f].open},
       kids |-> [c \in {Root} \cup shown |-> [k \in Kinds |->
                   Sorted(r[k], {i \in ids(k) : where[k][i] = c})]]]

Containers(tr) == DOMAIN tr.kids
Folders(tr)    == Containers(tr) \ {Root}
InTree(tr, k, i) == \E c \in Containers(tr) : i \in ToSet(tr.kids[c][k])
HomeOf(tr, k, i) == CHOOSE c \in Containers(tr) : i \in ToSet(tr.kids[c][k])

isDescendantOf(tr, c, f) ==
  f \in Range(Chain([g \in Folders(tr) |-> HomeOf(tr, "folder", g)], c))

canDropBesidesItself(tr, k, i, target) ==                         \* fault
  InTree(tr, k, i) /\ target \in Containers(tr) /\ (k = "folder" => target # i)

canDropMimeData(tr, k, i, target) ==
  /\ InTree(tr, k, i) /\ target \in Containers(tr)
  /\ k = "folder" => ~isDescendantOf(tr, target, i)

(* The children of a container in the order they are shown, its folders     *)
(* above its sessions; and the gap of a drop, as the number of those above  *)
(* it: a row below 0 is a drop on the container itself.                     *)
children(tr, c) ==
  LET of(k) == [n \in DOMAIN tr.kids[c][k] |-> [kind |-> k, id |-> tr.kids[c][k][n]]]
  IN  of("folder") \o of("session")
dropGap(tr, c, row) ==
  LET childCount == Len(children(tr, c)) IN IF row < 0 \/ row > childCount THEN childCount ELSE row

------------------------------------------------------------------------------
Init ==
  /\ \E r \in Stores : /\ rows = migrate([k \in Kinds |-> r[k]])
                       /\ last = r.last
  /\ tree = [a \in Apps |-> reload(rows)]
  /\ filtering = [a \in Apps |-> FALSE] /\ dialog = [a \in Apps |-> None]
  /\ job = [a \in Apps |-> NoJob]
  /\ seen = [connects |-> [s \in DOMAIN rows.session |-> rows.session[s].count],
             own      |-> [s \in DOMAIN rows.session |-> rows.session[s].own],
             open     |-> {f \in DOMAIN rows.folder : rows.folder[f].open},
             raced    |-> [k \in Kinds |-> {}], crossed |-> FALSE]
  /\ moves = 0

(* A user's operation: no editor is open over the tree, and the one before  *)
(* has returned.                                                           *)
Acts(a) == dialog[a] = None /\ job[a] = NoJob /\ moves < MaxMoves /\ moves' = moves + 1

------------------------------------------------------------------------------
(* Rows rewritten one after another. Each is read whole, gets new values in *)
(* some columns, and is written back whole: two statements, and other       *)
(* windows may write before, between and after.                            *)

Change(k, i, set)  == [kind |-> k, id |-> i, set |-> set]
Changed(row, set)  == [c \in DOMAIN row |-> IF c \in DOMAIN set THEN set[c] ELSE row[c]]
Reorders(change)   == DOMAIN change.set = {"pos"}

(* drop and mine are history: the drop these rows are of, and the file as   *)
(* it would be after this window's writes alone (None once it is not).      *)
Rewrite(does, changes, drop, mine) ==
  [does |-> does, todo |-> changes, n |-> 1, copy |-> None,
   reloads |-> does \in {"drop", "rename"}, drop |-> drop, mine |-> mine]

Rewrites(a) == job[a].does \in {"drop", "rename", "open", "restore"}
Now(a)      == job[a].todo[job[a].n]

(* The row is in hand; it is done with; it was not found or not written: a  *)
(* drop goes on to the next one, a rename is given up.                     *)
Took(j, row, mine) == [j EXCEPT !.copy = row, !.mine = mine]
Passed(j, mine)    == [j EXCEPT !.n = @ + 1, !.copy = None, !.mine = mine]
Missed(j) == [j EXCEPT !.n = @ + 1, !.copy = None, !.mine = None,
                       !.reloads = @ /\ j.does = "drop"]

(* What the view tells of folders it opened or closed, as far as it is      *)
(* recorded. While filtering it was the filter that did, not the user; and  *)
(* restoreExpansion() has the view tell what the tree says already.         *)
onExpandedAlways(isFiltering, tr, told) ==                        \* fault
  {g \in told : g.on # (g.folder \in tr.open)}
onExpanded(isFiltering, tr, told) ==
  {g \in told : ~isFiltering /\ g.on # (g.folder \in tr.open)}
restoreExpansion(tr) == {[folder |-> f, on |-> f \in tr.open] : f \in Folders(tr)}

(* The tree of a is tr, with these folders opened and closed, and the rows  *)
(* follow.                                                                 *)
Record(a, does, tr, changes) ==
  /\ tree' = [tree EXCEPT ![a] =
       [tr EXCEPT !.open = (@ \ {g.folder : g \in changes}) \cup {g.folder : g \in {h \in changes : h.on}}]]
  /\ job' = [job EXCEPT ![a] =
       IF changes = {} THEN NoJob
       ELSE LET seq == SetToSeq(changes)
            IN  Rewrite(does, [n \in DOMAIN seq |-> Change("folder", seq[n].folder, [open |-> seq[n].on])],
                        None, None)]

Reload(a) ==
  LET tr == reload(rows')
  IN  Record(a, "restore", tr, onExpanded(filtering'[a], tr, restoreExpansion(tr)))

(* Another window has a copy of the row that it will write back.            *)
Holds(b, k, i) ==
  \/ Rewrites(b) /\ job[b].copy # None /\ Now(b).kind = k /\ Now(b).id = i
  \/ /\ job[b].does = "import" /\ k = "session" /\ job[b].merge
     /\ \E m \in DOMAIN job[b].todo \ (1 .. job[b].n - 1) :
          LET h == job[b].todo[m].host IN h \in DOMAIN job[b].byHost /\ job[b].byHost[h].id = i
Raced(a, k, i) ==
  IF \E b \in Apps \ {a} : Holds(b, k, i) THEN seen.raced[k] \cup {i} ELSE seen.raced[k] \ {i}

(* A folder is put under one that others have moved since the tree was      *)
(* loaded, or put back where it was when its row was read.                  *)
Above(parent, c) == Range(Chain(parent, c))
ShownParent(tr)  == [g \in Folders(tr) |-> HomeOf(tr, "folder", g)]
StoredParent(t)  == [g \in DOMAIN t |-> t[g].up]
Crosses(a, change, copy) ==
  /\ change.kind = "folder" /\ change.id \in DOMAIN rows.folder
  /\ IF "up" \in DOMAIN change.set
       THEN ~(Above(StoredParent(rows.folder), change.set.up) \cap DOMAIN rows.folder
                \subseteq Above(ShownParent(tree[a]), change.set.up))
       ELSE copy.up # rows.folder[change.id].up

(* getFolder(), getSession(): the row is gone. What a reordering has left   *)
(* of its kind moves up.                                                   *)
rowGone(a) ==
  LET j == job[a]
      after(m) == Reorders(Now(a)) /\ Reorders(j.todo[m]) /\ j.todo[m].kind = Now(a).kind /\ m > j.n
  IN  /\ Rewrites(a) /\ j.n \in DOMAIN j.todo /\ j.copy = None
      /\ Now(a).id \notin DOMAIN rows[Now(a).kind]
      /\ job' = [job EXCEPT ![a] =
           [Missed(j) EXCEPT !.todo = [m \in DOMAIN j.todo |->
              IF after(m) THEN [j.todo[m] EXCEPT !.set.pos = @ - 1] ELSE j.todo[m]]]]
      /\ UNCHANGED <<rows, last, tree, filtering, dialog, seen, moves>>

(* The row is read. One that is in its place already is not written again.  *)
Alone(a, row) == IF job[a].mine # None /\ job[a].mine[Now(a).kind][Now(a).id] = row THEN job[a].mine ELSE None
getRow(a) ==
  LET c   == Now(a)
      row == IF c.kind = "folder" THEN getFolder(c.id) ELSE getSession(c.id)
  IN  /\ Rewrites(a) /\ job[a].n \in DOMAIN job[a].todo /\ job[a].copy = None
      /\ c.id \in DOMAIN rows[c.kind]
      /\ job' = [job EXCEPT ![a] =
           IF Reorders(c) /\ row.pos = c.set.pos THEN Passed(@, Alone(a, row)) ELSE Took(@, row, Alone(a, row))]
      /\ UNCHANGED <<rows, last, tree, filtering, dialog, seen, moves>>

(* updateFolder(), updateSession().                                        *)
Stored(r, c, row) ==
  [r EXCEPT ![c.kind] = IF c.kind = "folder" THEN Updated(@, c.id, row) ELSE updateSession(@, c.id, row)]
updateRow(a) ==
  LET j   == job[a]
      c   == Now(a)
      row == Changed(j.copy, c.set)
  IN  /\ Rewrites(a) /\ j.n \in DOMAIN j.todo /\ j.copy # None
      /\ rows' = Stored(rows, c, row)
      /\ seen' = [seen EXCEPT
           !.crossed = @ \/ Crosses(a, c, j.copy),
           !.raced.folder = IF j.does = "open" THEN Raced(a, "folder", c.id) ELSE @,
           !.open    = IF j.does # "open" THEN @
                       ELSE IF c.set.open THEN @ \cup ({c.id} \cap DOMAIN rows.folder) ELSE @ \ {c.id}]
      /\ job' = [job EXCEPT ![a] = Passed(@, IF j.mine = None THEN None ELSE Stored(j.mine, c, row))]
      /\ UNCHANGED <<last, tree, filtering, dialog, moves>>

rowFails(a) ==
  /\ Rewrites(a) /\ job[a].n \in DOMAIN job[a].todo /\ job[a].copy # None
  /\ job' = [job EXCEPT ![a] = Missed(@)]
  /\ UNCHANGED <<rows, last, tree, filtering, dialog, seen, moves>>

Returns(a) ==
  /\ Rewrites(a) /\ job[a].n \notin DOMAIN job[a].todo
  /\ UNCHANGED <<rows, last, filtering, dialog, seen, moves>>
  /\ IF job[a].reloads THEN Reload(a) ELSE job' = [job EXCEPT ![a] = NoJob] /\ UNCHANGED tree

------------------------------------------------------------------------------
addFolder(a, up, name) ==
  LET f == last.folder + 1
  IN  /\ Acts(a) /\ f <= MaxId /\ up \in Containers(tree[a])
      /\ rows' = [rows EXCEPT !.folder =
                    Inserted(@, f, NewFolder(up, name))]
      /\ last' = [last EXCEPT !.folder = f]
      /\ seen' = [seen EXCEPT !.open = @ \cup {f}]
      /\ UNCHANGED <<filtering, dialog>> /\ Reload(a)

renameFolder(a, f, name) ==
  /\ Acts(a) /\ f \in Folders(tree[a])
  /\ job' = [job EXCEPT ![a] = Rewrite("rename", <<Change("folder", f, [name |-> name])>>, None, None)]
  /\ UNCHANGED <<rows, last, tree, filtering, dialog, seen>>

removeFolder(a, f) ==
  /\ Acts(a) /\ f \in Folders(tree[a])
  /\ rows' = deleteFolder(rows, f)
  /\ seen' = [seen EXCEPT !.open = @ \ {f}]
  /\ UNCHANGED <<last, filtering, dialog>> /\ Reload(a)

(* The user opens or closes a folder.                                      *)
setExpanded(a, f) ==
  /\ Acts(a) /\ f \in Folders(tree[a])
  /\ Record(a, "open", tree[a],
            onExpanded(filtering[a], tree[a], {[folder |-> f, on |-> f \notin tree[a].open]}))
  /\ UNCHANGED <<rows, last, filtering, dialog, seen>>

(* The filter's text is set: expandAll() opens every folder left in view.   *)
(* Cleared: restoreExpansion() goes back to what is recorded.              *)
applyFilter(a, survivors) ==
  /\ Acts(a) /\ survivors \subseteq Folders(tree[a])
  /\ filtering' = [filtering EXCEPT ![a] = ~@]
  /\ Record(a, "restore", tree[a],
            onExpanded(filtering'[a], tree[a],
                       IF filtering[a] THEN restoreExpansion(tree[a])
                       ELSE {[folder |-> f, on |-> TRUE] : f \in survivors}))
  /\ UNCHANGED <<rows, last, dialog, seen>>

------------------------------------------------------------------------------
(* The editor: a modal dialog over a copy of the row, which offers the      *)
(* folders the store lists from the top.                                   *)

populateFolders == {f \in DOMAIN rows.folder :
                      UnderRoot([g \in DOMAIN rows.folder |-> rows.folder[g].up], f)}

OpenDialog(a, s, row) ==
  /\ dialog[a] = None /\ job[a] = NoJob
  /\ dialog' = [dialog EXCEPT ![a] = [id |-> s, row |-> row, folders |-> populateFolders]]
  /\ UNCHANGED <<rows, last, tree, filtering, job, seen, moves>>

editSession(a, s) ==
  InTree(tree[a], "session", s) /\ s \in DOMAIN rows.session /\ OpenDialog(a, s, getSession(s))

(* The folder the new session is proposed in is chosen again in the dialog. *)
addSession(a) ==
  OpenDialog(a, 0, NewSession(Root, 0, CHOOSE h \in Hosts : TRUE))

cancel(a) ==
  /\ dialog[a] # None /\ dialog' = [dialog EXCEPT ![a] = None]
  /\ UNCHANGED <<rows, last, tree, filtering, job, seen, moves>>

(* The row as the dialog hands it back: the copy, with the fields it shows. *)
Edited(d, up, name, host, own) ==
  [d.row EXCEPT !.up = up, !.name = name, !.host = host, !.own = own]

saveEdited(a, up, name, host, own) ==
  LET d == dialog[a]
  IN  /\ d # None /\ d.id # 0 /\ moves < MaxMoves /\ moves' = moves + 1
      /\ up \in d.folders \cup {Root}
      /\ rows' = [rows EXCEPT !.session =
                    updateSession(@, d.id, Edited(d, up, name, host, own))]
      /\ seen' = IF d.id \in DOMAIN rows.session
                   THEN [seen EXCEPT !.own[d.id] = own, !.raced.session = Raced(a, "session", d.id)] ELSE seen
      /\ dialog' = [dialog EXCEPT ![a] = None]
      /\ UNCHANGED <<last, filtering>> /\ Reload(a)

(* INSERT of a new row; it has never been connected to.                    *)
Insert(s, row) ==
  /\ s <= MaxId
  /\ rows' = [rows EXCEPT !.session = Inserted(@, s, [row EXCEPT !.count = 0])]
  /\ last' = [last EXCEPT !.session = s]
  /\ seen' = [seen EXCEPT !.own = With(@, s, row.own), !.connects = With(@, s, 0)]

saveNew(a, up, name, host, own) ==
  LET d == dialog[a]
  IN  /\ d # None /\ d.id = 0 /\ moves < MaxMoves /\ moves' = moves + 1
      /\ up \in d.folders \cup {Root}
      /\ Insert(last.session + 1, Edited(d, up, name, host, own))
      /\ dialog' = [dialog EXCEPT ![a] = None]
      /\ UNCHANGED filtering /\ Reload(a)

duplicateSession(a, s) ==
  /\ Acts(a) /\ InTree(tree[a], "session", s) /\ s \in DOMAIN rows.session
  /\ Insert(last.session + 1, getSession(s))
  /\ UNCHANGED <<filtering, dialog>> /\ Reload(a)

Without(f, s) == [i \in DOMAIN f \ {s} |-> f[i]]

deleteSession(a, s) ==
  /\ Acts(a) /\ InTree(tree[a], "session", s)
  /\ rows' = [rows EXCEPT !.session = Without(@, s)]
  /\ seen' = [seen EXCEPT !.own = Without(@, s), !.connects = Without(@, s)]
  /\ UNCHANGED <<last, filtering, dialog>> /\ Reload(a)

(* A connect is recorded in the row; the tree does not show it.            *)
recordConnect(t, s) == [t EXCEPT ![s].count = @ + 1]
emitConnect(a, s) ==
  /\ Acts(a) /\ InTree(tree[a], "session", s) /\ s \in DOMAIN rows.session
  /\ rows' = [rows EXCEPT !.session = recordConnect(@, s)]
  /\ seen' = [seen EXCEPT !.connects[s] = @ + 1]
  /\ UNCHANGED <<last, tree, filtering, dialog, job>>

------------------------------------------------------------------------------
(* A drop. The destination's items of the same kind are renumbered from 0   *)
(* with the moved one at the gap the user saw, row by row; then both kinds  *)
(* in the container it left, without it. Then the tree is loaded again.     *)

(* The items of the moved one's kind above the gap, without itself.         *)
SubIndexWithItself(tr, k, i, c, at) ==                            \* fault
  Cardinality({n \in 1 .. at : children(tr, c)[n].kind = k})
SubIndex(tr, k, i, c, at) ==
  Cardinality({n \in 1 .. at : children(tr, c)[n].kind = k /\ children(tr, c)[n].id # i})

Ordered(kids, i, gap) ==
  LET others == Kept(kids, ToSet(kids) \ {i})
  IN  InsertAt(others, (IF gap < Len(others) THEN gap ELSE Len(others)) + 1, i)

reorderWithin(kids, k, i) ==
  LET left(kk) == Kept(kids[kk], ToSet(kids[kk]) \ (IF kk = k THEN {i} ELSE {}))
      again(kk) == [n \in DOMAIN left(kk) |-> Change(kk, left(kk)[n], [pos |-> n - 1])]
  IN  again("folder") \o again("session")

dropChanges(tr, k, i, target, at) ==
  LET ordered == Ordered(tr.kids[target][k], i, SubIndex(tr, k, i, target, at))
      source  == HomeOf(tr, k, i)
  IN  [n \in DOMAIN ordered |-> Change(k, ordered[n], [up |-> target, pos |-> n - 1])]
        \o (IF source = target THEN <<>> ELSE reorderWithin(tr.kids[source], k, i))

dropMimeData(a, k, i, target, row) ==
  LET at == dropGap(tree[a], target, row)
  IN  /\ Acts(a) /\ ~filtering[a] /\ canDropMimeData(tree[a], k, i, target)
      /\ job' = [job EXCEPT ![a] =
           Rewrite("drop", dropChanges(tree[a], k, i, target, at),
                   [kind |-> k, id |-> i, into |-> target, at |-> at],
                   IF tree[a] = reload(rows) THEN rows ELSE None)]
      /\ UNCHANGED <<rows, last, tree, filtering, dialog, seen>>

------------------------------------------------------------------------------
(* An export: one entry per folder that has sessions, under its path, those *)
(* of one path together, then the sessions in no folder; by name in each.   *)

pathOf(t, f) ==
  LET up  == Chain([g \in DOMAIN t |-> t[g].up], f)
      top == CHOOSE k \in DOMAIN up : up[k] \in DOMAIN t /\ (k + 1 \in DOMAIN up => up[k + 1] \notin DOMAIN t)
      path[k \in 0 .. top] == IF k = top THEN t[up[k]].name ELSE Joined(path[k + 1], t[up[k]].name)
  IN  path[0]

NameBefore(t, i, j) == t[i].name < t[j].name \/ (t[i].name = t[j].name /\ i < j)
ByName(t, ids) == Listed(ids, {p \in ids \X ids : NameBefore(t, p[1], p[2])})
buildExport(r) ==
  LET at(f)    == {s \in DOMAIN r.session : r.session[s].up = f}
      homes    == Sorted(r.folder, {f \in DOMAIN r.folder : at(f) # {}}) \o <<Root>>
      path     == [n \in DOMAIN homes |-> IF homes[n] = Root THEN Ungrouped ELSE pathOf(r.folder, homes[n])]
      first(n) == \A m \in 1 .. n - 1 : path[m] # path[n]
      of(n)    == LET ids == ByName(r.session, at(homes[n]))
                  IN  [k \in DOMAIN ids |-> [folder |-> path[n], name |-> r.session[ids[k]].name,
                                             host |-> r.session[ids[k]].host]]
      group(p) == FlattenSeq([n \in DOMAIN homes |-> IF path[n] = p THEN of(n) ELSE <<>>])
  IN  FlattenSeq([n \in DOMAIN homes |-> IF first(n) THEN group(path[n]) ELSE <<>>])

(* An import. What the store holds is read once: byHost has a copy of each  *)
(* session (of those that share an address, of the last by name), kept      *)
(* current with what this import writes. Then, group by group, a folder of  *)
(* that name at the top is found, or made, and device by device a session   *)
(* is left, merged or made. (Two groups of one name in a row count as one.) *)

ByHost(t) ==
  LET ends == {s \in DOMAIN t : \A o \in DOMAIN t \ {s} : t[o].host = t[s].host => NameBefore(t, o, s)}
  IN  [h \in {t[s].host : s \in ends} |->
         LET s == CHOOSE s \in ends : t[s].host = h IN [id |-> s, row |-> readSession(t[s])]]

Begins(doc, n) == n \in DOMAIN doc /\ (n = 1 \/ doc[n].folder # doc[n - 1].folder)
Phase(doc, n)  == IF Begins(doc, n) THEN "find" ELSE "write"

applyImport(a, doc, merge) ==
  /\ Acts(a)
  /\ job' = [job EXCEPT ![a] = [does |-> "import", todo |-> doc, n |-> 1, phase |-> Phase(doc, 1),
                                into |-> Root, byHost |-> ByHost(rows.session),
                                merge |-> merge, wrote |-> FALSE]]
  /\ UNCHANGED <<rows, last, tree, filtering, dialog, seen>>

Imports(a, phase) == job[a].does = "import" /\ job[a].n \in DOMAIN job[a].todo /\ job[a].phase = phase

findFolder(a) ==
  LET t     == rows.folder
      named == {f \in DOMAIN t : t[f].up = Root /\ t[f].name = Now(a).folder}
  IN  /\ Imports(a, "find")
      /\ job' = [job EXCEPT ![a].phase = IF named = {} THEN "make" ELSE "write",
                            ![a].into = IF named = {} THEN @ ELSE Sorted(t, named)[1]]
      /\ UNCHANGED <<rows, last, tree, filtering, dialog, seen, moves>>

makeFolder(a) ==
  LET f == last.folder + 1
  IN  /\ Imports(a, "make") /\ f <= MaxId
      /\ rows' = [rows EXCEPT !.folder = Inserted(@, f, NewFolder(Root, Now(a).folder))]
      /\ last' = [last EXCEPT !.folder = f]
      /\ seen' = [seen EXCEPT !.open = @ \cup {f}]
      /\ job' = [job EXCEPT ![a] = [@ EXCEPT !.phase = "write", !.into = f, !.wrote = TRUE]]
      /\ UNCHANGED <<tree, filtering, dialog, moves>>

(* The next device, after this one is in the row (None: it was left alone). *)
Imported(j, entry) ==
  [j EXCEPT !.n = @ + 1, !.phase = Phase(j.todo, j.n + 1), !.wrote = @ \/ entry # None,
            !.byHost = IF entry = None THEN @ ELSE With(@, j.todo[j.n].host, entry)]

skipDevice(a) ==
  /\ Imports(a, "write") /\ ~job[a].merge /\ Now(a).host \in DOMAIN job[a].byHost
  /\ job' = [job EXCEPT ![a] = Imported(@, None)]
  /\ UNCHANGED <<rows, last, tree, filtering, dialog, seen, moves>>

(* Merge starts from the row, not from the file.                           *)
Merged(row, d, f) == [row EXCEPT !.name = d.name, !.host = d.host, !.up = f]
mergeDevice(a) ==
  LET old == job[a].byHost[Now(a).host]
      row == Merged(old.row, Now(a), job[a].into)
  IN  /\ Imports(a, "write") /\ job[a].merge /\ Now(a).host \in DOMAIN job[a].byHost
      /\ rows' = [rows EXCEPT !.session = updateSession(@, old.id, row)]
      /\ job' = [job EXCEPT ![a] = Imported(@, [id |-> old.id, row |-> row])]
      /\ UNCHANGED <<last, tree, filtering, dialog, seen, moves>>

insertDevice(a) ==
  LET s   == last.session + 1
      row == NewSession(job[a].into, Now(a).name, Now(a).host)
  IN  /\ Imports(a, "write") /\ Now(a).host \notin DOMAIN job[a].byHost
      /\ Insert(s, row)
      /\ job' = [job EXCEPT ![a] = Imported(@, [id |-> s, row |-> row])]
      /\ UNCHANGED <<tree, filtering, dialog, moves>>

(* A write fails: the import ends there, and what was written stays.        *)
importFails(a) ==
  /\ Imports(a, "make") \/ (Imports(a, "write") /\ (job[a].merge \/ Now(a).host \notin DOMAIN job[a].byHost))
  /\ job' = [job EXCEPT ![a].todo = <<>>]
  /\ UNCHANGED <<rows, last, tree, filtering, dialog, seen, moves>>

importEnds(a) ==
  /\ job[a].does = "import" /\ job[a].n \notin DOMAIN job[a].todo
  /\ UNCHANGED <<rows, last, filtering, dialog, seen, moves>>
  /\ IF job[a].wrote THEN Reload(a) ELSE job' = [job EXCEPT ![a] = NoJob] /\ UNCHANGED tree

(* The window is closed, or dies in the middle of anything, and starts again.*)
Reopen(a) ==
  /\ moves < MaxMoves /\ moves' = moves + 1
  /\ rows' = migrate(rows)
  /\ filtering' = [filtering EXCEPT ![a] = FALSE] /\ dialog' = [dialog EXCEPT ![a] = None]
  /\ UNCHANGED <<last, seen>> /\ Reload(a)

------------------------------------------------------------------------------
Folder(a) == \/ \E up \in Containers(tree[a]), n \in Names : addFolder(a, up, n)
             \/ \E f \in Folders(tree[a]) : \/ removeFolder(a, f) \/ setExpanded(a, f)
                                            \/ \E n \in Names : renameFolder(a, f, n)
             \/ \E fs \in SUBSET Folders(tree[a]) : applyFilter(a, fs)

Session(a) == \/ \E s \in 1 .. last.session : \/ editSession(a, s) \/ duplicateSession(a, s)
                                              \/ deleteSession(a, s) \/ emitConnect(a, s)
              \/ \E up \in 0 .. MaxId, n \in Names, h \in Hosts, own \in Owns :
                    saveEdited(a, up, n, h, own) \/ saveNew(a, up, n, h, own)
              \/ addSession(a) \/ cancel(a)

Drop(a) == \E k \in Kinds : \E i \in 1 .. last[k], target \in Containers(tree[a]) :
             \E row \in -1 .. Len(children(tree[a], target)) : dropMimeData(a, k, i, target, row)

(* A file from elsewhere, or the one an export of this tree writes, unless  *)
(* there is nothing to export.                                             *)
Exported  == {doc \in {buildExport(rows)} : doc # <<>>}
Import(a) == \/ \E doc \in Files \cup Exported, merge \in BOOLEAN : applyImport(a, doc, merge)
             \/ findFolder(a) \/ makeFolder(a) \/ skipDevice(a) \/ mergeDevice(a) \/ insertDevice(a)
             \/ importFails(a) \/ importEnds(a)

RowStep(a) == rowGone(a) \/ getRow(a) \/ updateRow(a) \/ rowFails(a) \/ Returns(a)

Next == \E a \in Apps : Folder(a) \/ Session(a) \/ Drop(a) \/ RowStep(a) \/ Import(a) \/ Reopen(a)

Spec == Init /\ [][Next]_vars

------------------------------------------------------------------------------
(* Properties.                                                             *)

(* Whatever was dragged, deleted, imported or edited in any window, a tree  *)
(* built now shows every folder and every session: no subtree has been cut  *)
(* loose, unless a folder was put under one that another window had moved   *)
(* since this one loaded its tree, or back to where it was when its row was *)
(* read. (Sessions in a folder that cannot be reached go to the top.)       *)
NothingUnreachable ==
  ~seen.crossed => LET now == reload(rows)
                   IN  \A k \in Kinds : \A i \in DOMAIN rows[k] : InTree(now, k, i)

(* A row's history and its overrides survive what does not own them: the    *)
(* count is the number of connects since the row was made, although editors *)
(* and imports write back whole copies taken earlier; and the overrides are *)
(* the last ones a person saved, unless they were saved while another       *)
(* window's drag or import had the row in hand.                            *)
OthersFieldsKept ==
  \A s \in DOMAIN rows.session :
     /\ rows.session[s].count = seen.connects[s]
     /\ s \notin seen.raced.session => rows.session[s].own = seen.own[s]

(* Which folders are open is what the user last recorded, unless while      *)
(* another window had the row in hand: a filter that opens everything, and  *)
(* what the view tells at every reload, leave no trace.                    *)
ExpansionIsTheUsers ==
  \A f \in DOMAIN rows.folder :
     f \notin seen.raced.folder => (rows.folder[f].open <=> f \in seen.open)

(* j comes before i in a sequence.                                         *)
Comes(seq, j, i) == \E m, n \in DOMAIN seq : m < n /\ seq[m] = j /\ seq[n] = i

(* A drop that no other window wrote into and no write of which failed puts *)
(* the item below exactly those of its kind that were above the gap in the  *)
(* list of folders and sessions the user saw, and leaves the order of       *)
(* everything else alone, though positions have ties and two tables share a *)
(* container. It is stated for a window that was showing the file as it is. *)
DropLands ==
  [][\A a \in Apps :
       LET j  == job[a]
           tr == tree[a]
           d  == j.drop
       IN  /\ j.does = "drop" /\ j.n \notin DOMAIN j.todo /\ job'[a] = NoJob
           /\ j.mine = rows /\ ~seen.crossed
           => \A c \in Containers(tr), k \in Kinds :
                LET shown == tr.kids[c][k]
                    now   == tree'[a].kids[c][k]
                    moved == IF k = d.kind THEN {d.id} ELSE {}
                IN  /\ Kept(now, ToSet(now) \ moved) = Kept(shown, ToSet(shown) \ moved)
                    /\ k = d.kind => (d.id \in ToSet(now) <=> c = d.into)
                    /\ k = d.kind /\ c = d.into
                       => \A i \in ToSet(now) \ {d.id} :
                            Comes(now, i, d.id)
                            <=> \E n \in 1 .. d.at : children(tr, c)[n] = [kind |-> k, id |-> i]]_vars

==============================================================================
