-------------------------- MODULE SessionTree_proofs ---------------------------
(***************************************************************************)
(* Theorems about the saved sessions, for any starting files, windows,     *)
(* names, addresses and files to import.                                   *)
(***************************************************************************)
EXTENDS SessionTree, FiniteSetTheorems, SequenceTheorems, WellFoundedInduction, TLAPS

Columns == kSchema \cup kAddedColumns

(* A table of sessions t whose last id is l, with the connects c made and   *)
(* the overrides o saved, but for those in R, whose save raced.             *)
Tally(t, l, c, o, R) ==
  /\ l \in Nat /\ DOMAIN c = DOMAIN t /\ DOMAIN o = DOMAIN t
  /\ \A s \in DOMAIN t : /\ s \in 1 .. l /\ DOMAIN t[s] = Columns
                         /\ t[s].count = c[s] /\ (s \notin R => t[s].own = o[s])

(* A table of folders whose last id is l, of which those in open are open,  *)
(* but for those in R.                                                     *)
Opened(t, l, open, R) ==
  /\ l \in Nat
  /\ \A f \in DOMAIN t : /\ f \in 1 .. l /\ DOMAIN t[f] = kFolderCols
                         /\ t[f].open \in BOOLEAN /\ (f \notin R => (t[f].open <=> f \in open))

(* A window at work: the rows it rewrites, or the devices it imports.       *)
Writing(j) == j.does \in {"drop", "rename", "open", "restore"}
Task(c, does) ==
  /\ DOMAIN c = {"kind", "id", "set"} /\ c.kind \in Kinds /\ "own" \notin DOMAIN c.set
  /\ IF does = "open" THEN c.kind = "folder" /\ DOMAIN c.set = {"open"} /\ c.set.open \in BOOLEAN
     ELSE "open" \notin DOMAIN c.set
WriterFields   == {"does", "todo", "n", "copy", "reloads", "drop", "mine"}
ImporterFields == {"does", "todo", "n", "phase", "into", "byHost", "merge", "wrote"}
Writer(j) == /\ Writing(j) /\ DOMAIN j = WriterFields /\ j.n \in Nat \ {0}
             /\ \A n \in DOMAIN j.todo : Task(j.todo[n], j.does)
Importer(j) == j.does = "import" /\ DOMAIN j = ImporterFields /\ j.n \in Nat \ {0}
JobShape(j) == j = NoJob \/ Writer(j) \/ Importer(j)

(* The row i of table k, as a window at work has it in hand to write.       *)
InHand(j, k, i, row) ==
  \/ Writing(j) /\ j.copy # None /\ j.todo[j.n].kind = k /\ j.todo[j.n].id = i /\ row = j.copy
  \/ /\ j.does = "import" /\ k = "session" /\ j.merge
     /\ \E m \in DOMAIN j.todo \ (1 .. j.n - 1) :
          LET h == j.todo[m].host
          IN  h \in DOMAIN j.byHost /\ j.byHost[h].id = i /\ row = j.byHost[h].row

(* It is of a row that was there; and if that still is and nothing was saved*)
(* in it behind the window's back, the copy says what was saved.            *)
Fits(k, i, row) ==
  /\ k \in Kinds /\ i \in 1 .. last[k]
  /\ k = "folder" => DOMAIN row = kFolderCols /\ row.open \in BOOLEAN
  /\ k = "session" => DOMAIN row = Columns
  /\ i \in DOMAIN rows[k] /\ i \notin seen.raced[k] =>
       /\ k = "folder" => (row.open <=> i \in seen.open)
       /\ k = "session" => row.own = seen.own[i]
Hand(j) == \A k, i, row : InHand(j, k, i, row) => Fits(k, i, row)

Shape ==
  /\ DOMAIN rows = Kinds /\ last \in [Kinds -> Nat]
  /\ DOMAIN seen = {"connects", "own", "open", "raced", "crossed"} /\ DOMAIN seen.raced = Kinds
  /\ DOMAIN dialog = Apps /\ DOMAIN filtering = Apps
Copies == \A a \in Apps : dialog[a] # None => DOMAIN dialog[a].row = Columns
Sessions == Tally(rows.session, last.session, seen.connects, seen.own, seen.raced.session)
Expanded == Opened(rows.folder, last.folder, seen.open, seen.raced.folder)
Jobs == DOMAIN job = Apps /\ \A a \in Apps : JobShape(job[a]) /\ Hand(job[a])

(* What a window shows are lists.                                          *)
IsList(s)    == \E n \in Nat : DOMAIN s = 1 .. n
Listing(tr)  == \A c \in Containers(tr), k \in Kinds : IsList(tr.kids[c][k])
Lists == DOMAIN tree = Apps /\ \A a \in Apps : Listing(tree[a])

TreeInv == Shape /\ Copies /\ Sessions /\ Expanded /\ Lists /\ Jobs

------------------------------------------------------------------------------
(* Rows rewritten in place.                                                *)

LEMMA TallyKept ==
  ASSUME NEW t, NEW u, NEW l, NEW c, NEW o, NEW R, Tally(t, l, c, o, R), DOMAIN u = DOMAIN t,
         \A s \in DOMAIN t : /\ DOMAIN u[s] = DOMAIN t[s]
                             /\ u[s].count = t[s].count /\ u[s].own = t[s].own
  PROVE  Tally(u, l, c, o, R)
  BY DEF Tally

LEMMA OpenedKept ==
  ASSUME NEW t, NEW u, NEW l, NEW open, NEW R, Opened(t, l, open, R), DOMAIN u = DOMAIN t,
         \A f \in DOMAIN t : DOMAIN u[f] = DOMAIN t[f] /\ u[f].open = t[f].open
  PROVE  Opened(u, l, open, R)
  BY DEF Opened

(* A row inserted is the row but for its position.                         *)
LEMMA Placed ==
  ASSUME NEW t, NEW i, NEW row
  PROVE  \E put : /\ Inserted(t, i, row) = With(t, i, put) /\ DOMAIN put = DOMAIN row
                  /\ \A c \in DOMAIN row : c # "pos" => put[c] = row[c]
  <1> DEFINE put == [row EXCEPT !.pos = nextPosition(t, row.up)]
  <1>1. Inserted(t, i, row) = With(t, i, put)
    BY DEF Inserted
  <1>2. DOMAIN put = DOMAIN row /\ \A c \in DOMAIN row : c # "pos" => put[c] = row[c]
    OBVIOUS
  <1> HIDE DEF put
  <1> QED BY <1>1, <1>2

LEMMA TallyWith ==
  ASSUME NEW t, NEW l, NEW c, NEW o, NEW R, Tally(t, l, c, o, R), NEW row, DOMAIN row = Columns, row.count = 0,
         NEW s, s = l + 1
  PROVE  Tally(With(t, s, row), s, With(c, s, 0), With(o, s, row.own), R)
  <1> DEFINE u == With(t, s, row)
             d == With(c, s, 0)
             p == With(o, s, row.own)
  <1>1. l \in Nat /\ s \in Nat /\ s \notin DOMAIN t /\ s \in 1 .. s
    BY DEF Tally
  <1>2. DOMAIN u = {s} \cup DOMAIN t /\ DOMAIN d = {s} \cup DOMAIN t /\ DOMAIN p = {s} \cup DOMAIN t
    BY DEF Tally, With
  <1>3. DOMAIN u[s] = Columns /\ u[s].count = d[s] /\ u[s].own = p[s]
    BY DEF With
  <1>4. ASSUME NEW i \in DOMAIN t
        PROVE  /\ i \in 1 .. s /\ DOMAIN u[i] = Columns /\ u[i].count = d[i]
               /\ (i \notin R => u[i].own = p[i])
    <2>1. i # s /\ i \in 1 .. s
      BY <1>1 DEF Tally
    <2>2. u[i] = t[i]
      BY <2>1 DEF With
    <2>3. i \in DOMAIN c /\ i \in DOMAIN o
      BY DEF Tally
    <2>4. d[i] = c[i] /\ p[i] = o[i]
      BY <2>1, <2>3 DEF With
    <2> QED BY <2>1, <2>2, <2>4 DEF Tally
  <1> HIDE DEF u, d, p
  <1>5. Tally(u, s, d, p, R)
    BY <1>1, <1>2, <1>3, <1>4 DEF Tally
  <1> QED BY <1>5 DEF u, d, p

LEMMA TallyInserted ==
  ASSUME NEW t, NEW l, NEW c, NEW o, NEW R, Tally(t, l, c, o, R), NEW row, DOMAIN row = Columns, row.count = 0,
         NEW s, s = l + 1
  PROVE  Tally(Inserted(t, s, row), s, With(c, s, 0), With(o, s, row.own), R)
  <1>1. PICK put : /\ Inserted(t, s, row) = With(t, s, put) /\ DOMAIN put = DOMAIN row
                   /\ \A k \in DOMAIN row : k # "pos" => put[k] = row[k]
    BY Placed
  <1>2. put.count = 0 /\ put.own = row.own /\ DOMAIN put = Columns
    <2>1. "count" \in DOMAIN row /\ "own" \in DOMAIN row
      BY DEF Columns, kSchema, kAddedColumns
    <2> QED BY <1>1, <2>1
  <1>3. Tally(With(t, s, put), s, With(c, s, 0), With(o, s, put.own), R)
    BY <1>2, TallyWith
  <1> QED BY <1>1, <1>2, <1>3

LEMMA OpenedInserted ==
  ASSUME NEW t, NEW l, NEW open, NEW R, Opened(t, l, open, R), NEW row, DOMAIN row = kFolderCols, row.open = TRUE,
         NEW f, f = l + 1
  PROVE  Opened(Inserted(t, f, row), f, open \cup {f}, R)
  <1> DEFINE fs == open \cup {f}
  <1>0. PICK put : /\ Inserted(t, f, row) = With(t, f, put) /\ DOMAIN put = DOMAIN row
                   /\ \A k \in DOMAIN row : k # "pos" => put[k] = row[k]
    BY Placed
  <1> DEFINE u == With(t, f, put)
  <1>1. l \in Nat /\ f \in Nat /\ f \notin DOMAIN t /\ f \in 1 .. f
    BY DEF Opened
  <1>2. DOMAIN u = {f} \cup DOMAIN t
    BY DEF With
  <1>3. DOMAIN u[f] = kFolderCols /\ u[f].open = TRUE
    BY <1>0 DEF kFolderCols, With
  <1>4. ASSUME NEW i \in DOMAIN t
        PROVE  /\ i \in 1 .. f /\ DOMAIN u[i] = kFolderCols
               /\ u[i].open \in BOOLEAN /\ (i \notin R => (u[i].open <=> i \in fs))
    <2>1. i # f /\ i \in 1 .. f
      BY <1>1 DEF Opened
    <2>2. u[i] = t[i]
      BY <2>1 DEF With
    <2>3. DOMAIN t[i] = kFolderCols /\ t[i].open \in BOOLEAN /\ (i \notin R => (t[i].open <=> i \in open))
      BY DEF Opened
    <2> HIDE DEF u
    <2> QED BY <2>1, <2>2, <2>3
  <1>6. f \in fs
    OBVIOUS
  <1> HIDE DEF u, fs
  <1>7. Opened(u, f, fs, R)
    BY <1>1, <1>2, <1>3, <1>4, <1>6 DEF Opened
  <1> QED BY <1>0, <1>7 DEF u, fs

LEMMA TallyWithout ==
  ASSUME NEW t, NEW l, NEW c, NEW o, NEW R, Tally(t, l, c, o, R), NEW s
  PROVE  Tally(Without(t, s), l, Without(c, s), Without(o, s), R)
  BY DEF Tally, Without

------------------------------------------------------------------------------
(* Lists, and what a reload shows.                                         *)

LEMMA ListsFinite ==
  ASSUME NEW l \in Nat, NEW S, S \subseteq 1 .. l
  PROVE  IsFiniteSet(S) /\ Cardinality(S) \in Nat
  <1>1. IsFiniteSet(1 .. l)
    BY FS_Interval
  <1>2. IsFiniteSet(S)
    BY <1>1, FS_Subset
  <1> QED BY <1>2, FS_CardinalityType

LEMMA ListedDomain ==
  ASSUME NEW l \in Nat, NEW S, S \subseteq 1 .. l, NEW R
  PROVE  IsList(Listed(S, R))
  <1>1. Cardinality(S) \in Nat
    BY ListsFinite
  <1>2. DOMAIN Listed(S, R) = 1 .. Cardinality(S)
    BY DEF Listed
  <1> QED BY <1>1, <1>2 DEF IsList

LEMMA KeptDomain ==
  ASSUME NEW seq, IsList(seq), NEW S
  PROVE  IsList(Kept(seq, S))
  <1> DEFINE N == {n \in DOMAIN seq : seq[n] \in S}
             R == {p \in (DOMAIN seq) \X (DOMAIN seq) : p[1] < p[2]}
             at == Listed(N, R)
  <1>1. PICK l \in Nat : DOMAIN seq = 1 .. l
    BY DEF IsList
  <1>2. IsList(at)
    <2>1. N \subseteq 1 .. l
      BY <1>1
    <2> HIDE DEF N, R
    <2> QED BY <2>1, ListedDomain
  <1>3. Kept(seq, S) = [n \in DOMAIN at |-> seq[at[n]]]
    BY DEF Kept
  <1> HIDE DEF at
  <1>4. DOMAIN Kept(seq, S) = DOMAIN at
    BY <1>3
  <1> QED BY <1>2, <1>4 DEF IsList

LEMMA ReloadLists ==
  ASSUME Sessions, Expanded
  PROVE  Listing(reload(rows))
  <1> DEFINE home   == FolderHomes(rows.folder)
             shown  == {f \in DOMAIN rows.folder : UnderRoot(home, f)}
             where  == [folder |-> home, session |-> [s \in DOMAIN rows.session |->
                          IF rows.session[s].up \in shown THEN rows.session[s].up ELSE Root]]
             ids(k) == IF k = "folder" THEN shown ELSE DOMAIN rows.session
             of(c, k) == {i \in ids(k) : where[k][i] = c}
             kids == [c \in {Root} \cup shown |-> [k \in Kinds |-> Sorted(rows[k], of(c, k))]]
             open == {f \in shown : rows.folder[f].open}
  <1>1. reload(rows) = [open |-> open, kids |-> kids]
    BY DEF reload
  <1>2. \A k \in Kinds : \E l \in Nat : \A c : of(c, k) \subseteq 1 .. l
    <2>1. /\ last.folder \in Nat /\ last.session \in Nat
          /\ DOMAIN rows.folder \subseteq 1 .. last.folder /\ DOMAIN rows.session \subseteq 1 .. last.session
      BY DEF Sessions, Expanded, Tally, Opened
    <2>2. \A c : of(c, "folder") \subseteq 1 .. last.folder
      BY <2>1
    <2>3. \A c : of(c, "session") \subseteq 1 .. last.session
      BY <2>1
    <2> HIDE DEF of
    <2> QED BY <2>1, <2>2, <2>3 DEF Kinds
  <1>3. reload(rows).kids = kids
    BY <1>1
  <1> HIDE DEF of
  <1>4. ASSUME NEW c \in DOMAIN kids, NEW k \in Kinds PROVE IsList(kids[c][k])
    <2>1. kids[c][k] = Listed(of(c, k), {p \in of(c, k) \X of(c, k) : Before(rows[k], p[1], p[2])})
      BY DEF Sorted
    <2>2. PICK l \in Nat : of(c, k) \subseteq 1 .. l
      BY <1>2
    <2> QED BY <2>1, <2>2, ListedDomain
  <1> HIDE DEF kids
  <1> QED BY <1>3, <1>4 DEF Listing, Containers

(* What the view tells after a reload is in the tree already.               *)
Loads(a) == tree' = [tree EXCEPT ![a] = reload(rows')] /\ job' = [job EXCEPT ![a] = NoJob]

LEMMA NothingTold ==
  ASSUME NEW f, NEW tr
  PROVE  onExpanded(f, tr, restoreExpansion(tr)) = {}
  <1>1. ASSUME NEW g \in restoreExpansion(tr) PROVE g.on = (g.folder \in tr.open)
    BY <1>1 DEF restoreExpansion
  <1> QED BY <1>1 DEF onExpanded

LEMMA RecordedNothing ==
  ASSUME NEW a, NEW does, NEW tr, Record(a, does, tr, {})
  PROVE  /\ tree' = [tree EXCEPT ![a] = [tr EXCEPT !.open = tr.open]]
         /\ job' = [job EXCEPT ![a] = NoJob]
  <1>1. (tr.open \ {g.folder : g \in {}}) \cup {g.folder : g \in {h \in {} : h.on}} = tr.open
    OBVIOUS
  <1>2. tree' = [tree EXCEPT ![a] =
          [tr EXCEPT !.open = (tr.open \ {g.folder : g \in {}}) \cup {g.folder : g \in {h \in {} : h.on}}]]
    BY DEF Record
  <1>3. job' = [job EXCEPT ![a] = NoJob]
    BY DEF Record
  <1> QED BY <1>1, <1>2, <1>3

LEMMA ReloadRecord ==
  ASSUME NEW r
  PROVE  [reload(r) EXCEPT !.open = reload(r).open] = reload(r)
  BY DEF reload

LEMMA Reloaded ==
  ASSUME NEW a, Reload(a)
  PROVE  Loads(a)
  <1> DEFINE tr == reload(rows')
             told == onExpanded(filtering'[a], tr, restoreExpansion(tr))
  <1>1. told = {}
    BY NothingTold
  <1>2. Record(a, "restore", tr, told)
    BY DEF Reload
  <1> HIDE DEF told
  <1>3. Record(a, "restore", tr, {})
    BY <1>1, <1>2
  <1>4. [tr EXCEPT !.open = tr.open] = tr
    BY ReloadRecord
  <1> HIDE DEF tr
  <1>5. tree' = [tree EXCEPT ![a] = [tr EXCEPT !.open = tr.open]] /\ job' = [job EXCEPT ![a] = NoJob]
    BY <1>3, RecordedNothing
  <1>6. tree' = [tree EXCEPT ![a] = tr] /\ job' = [job EXCEPT ![a] = NoJob]
    BY <1>4, <1>5
  <1> QED BY <1>6 DEF Loads, tr

------------------------------------------------------------------------------
(* The steps.                                                              *)

(* No step but an editor's opening gives a window a copy.                   *)
CopiesStay == /\ DOMAIN dialog' = DOMAIN dialog
              /\ \A a \in DOMAIN dialog : dialog'[a] \in {dialog[a], None}

LEMMA CopiesKept ==
  ASSUME TreeInv, CopiesStay
  PROVE  DOMAIN dialog' = Apps /\ Copies'
  <1>1. DOMAIN dialog = Apps /\ Copies
    BY DEF TreeInv, Shape
  <1>2. ASSUME NEW a \in Apps, dialog'[a] # None PROVE DOMAIN dialog'[a].row = Columns
    BY <1>1, <1>2 DEF CopiesStay, Copies
  <1> QED BY <1>1, <1>2 DEF CopiesStay, Copies

LEMMA CopiesEnd ==
  ASSUME NEW a, \/ UNCHANGED dialog
                \/ dialog' = [dialog EXCEPT ![a] = None]
  PROVE  CopiesStay
  BY DEF CopiesStay

(* The tables and the history apart.                                       *)
FoldersAlone == /\ rows'.session = rows.session /\ last'.session = last.session
                /\ seen'.connects = seen.connects /\ seen'.own = seen.own
                /\ seen'.raced.session = seen.raced.session
SessionsAlone == /\ rows'.folder = rows.folder /\ last'.folder = last.folder
                 /\ seen'.open = seen.open /\ seen'.raced.folder = seen.raced.folder
Fields == /\ DOMAIN rows' = Kinds /\ last' \in [Kinds -> Nat]
          /\ DOMAIN seen' = {"connects", "own", "open", "raced", "crossed"} /\ DOMAIN seen'.raced = Kinds
          /\ DOMAIN filtering' = Apps
TreesFollow == \/ UNCHANGED tree
               \/ \E a \in Apps : tree' = [tree EXCEPT ![a] = reload(rows')]
               \/ \E a \in Apps : \E open : tree' = [tree EXCEPT ![a] = [tree[a] EXCEPT !.open = open]]

LEMMA ReloadListing == Sessions /\ Expanded => Listing(reload(rows))
  BY ReloadLists

LEMMA ListsFollow ==
  ASSUME TreeInv, TreesFollow, Sessions', Expanded'
  PROVE  Lists'
  <1>1. DOMAIN tree = Apps /\ \A b \in Apps : Listing(tree[b])
    BY DEF TreeInv, Lists
  <1>2. Listing(reload(rows'))
    <2>1. (Sessions /\ Expanded => Listing(reload(rows)))'
      BY ReloadListing, PTL
    <2> QED BY <2>1
  <1>3. CASE UNCHANGED tree
    BY <1>1, <1>3 DEF Lists
  <1>4. ASSUME NEW a \in Apps, tree' = [tree EXCEPT ![a] = reload(rows')] PROVE Lists'
    <2>1. \A b \in Apps : tree'[b] = IF b = a THEN reload(rows') ELSE tree[b]
      BY <1>1, <1>4
    <2>2. DOMAIN tree' = Apps
      BY <1>1, <1>4
    <2> QED BY <1>1, <1>2, <2>1, <2>2 DEF Lists
  <1>5. ASSUME NEW a \in Apps, NEW open, tree' = [tree EXCEPT ![a] = [tree[a] EXCEPT !.open = open]]
        PROVE  Lists'
    <2>1. DOMAIN tree' = Apps
      BY <1>1, <1>5
    <2>2. \A b \in Apps : tree'[b].kids = tree[b].kids
      BY <1>1, <1>5
    <2> QED BY <1>1, <2>1, <2>2 DEF Lists, Listing, Containers
  <1> QED BY <1>3, <1>4, <1>5 DEF TreesFollow

LEMMA TreeStep ==
  ASSUME TreeInv, Fields, CopiesStay, FoldersAlone \/ Sessions', SessionsAlone \/ Expanded', TreesFollow, Jobs'
  PROVE  TreeInv'
  <1>1. Shape' /\ Copies'
    BY CopiesKept DEF Fields, Shape
  <1>2. FoldersAlone => Sessions'
    BY DEF FoldersAlone, TreeInv, Sessions
  <1>3. SessionsAlone => Expanded'
    BY DEF SessionsAlone, TreeInv, Expanded
  <1>4. Lists'
    BY <1>2, <1>3, ListsFollow
  <1> QED BY <1>1, <1>2, <1>3, <1>4 DEF TreeInv

Facts == /\ DOMAIN rows = {"folder", "session"} /\ last \in [{"folder", "session"} -> Nat]
         /\ DOMAIN seen = {"connects", "own", "open", "raced", "crossed"}
         /\ DOMAIN seen.raced = {"folder", "session"} /\ DOMAIN filtering = Apps
         /\ DOMAIN job = Apps /\ DOMAIN tree = Apps
LEMMA ShapeFacts == TreeInv => Facts
  BY DEF TreeInv, Shape, Jobs, Lists, Facts, Kinds

------------------------------------------------------------------------------
(* What the windows at work have in hand.                                  *)

(* What was said of a row still holds, unless one saved it meanwhile.       *)
Stays(k, i) ==
  i \in DOMAIN rows'[k] /\ i \notin seen'.raced[k] =>
    /\ i \in DOMAIN rows[k] /\ i \notin seen.raced[k]
    /\ k = "folder" => (i \in seen'.open <=> i \in seen.open)
    /\ k = "session" => seen'.own[i] = seen.own[i]
Later == \A k \in Kinds : last[k] <= last'[k]
Stand == Later /\ \A k \in Kinds : \A i \in 1 .. last[k] : Stays(k, i)
OthersStand(a) ==
  Later /\ \A k \in Kinds : \A i \in 1 .. last[k] : Stays(k, i) \/ \A b \in Apps \ {a} : ~Holds(b, k, i)
OthersAlone(a) == DOMAIN job' = Apps /\ \A b \in Apps \ {a} : job'[b] = job[b]
HandAfter(a) == \A k, i, row : InHand(job'[a], k, i, row) => Fits(k, i, row)'

LEMMA StandOthers == \A a : Stand => OthersStand(a)
  BY DEF Stand, OthersStand

LEMMA FitsOn ==
  ASSUME TreeInv, Fields, Later, NEW k, NEW i, NEW row, Fits(k, i, row), Stays(k, i)
  PROVE  Fits(k, i, row)'
  <1>1. k \in Kinds /\ i \in 1 .. last[k]
    BY DEF Fits
  <1>2. last[k] \in Nat /\ last'[k] \in Nat /\ last[k] <= last'[k]
    BY <1>1 DEF Fields, Later, TreeInv, Shape
  <1>3. i \in 1 .. last'[k]
    BY <1>1, <1>2
  <1>4. /\ k = "folder" => DOMAIN row = kFolderCols /\ row.open \in BOOLEAN
        /\ k = "session" => DOMAIN row = Columns
    BY DEF Fits
  <1>5. ASSUME i \in DOMAIN rows'[k], i \notin seen'.raced[k]
        PROVE  /\ k = "folder" => (row.open <=> i \in seen'.open)
               /\ k = "session" => row.own = seen'.own[i]
    BY <1>5 DEF Fits, Stays
  <1> QED BY <1>1, <1>3, <1>4, <1>5 DEF Fits

LEMMA Held ==
  ASSUME NEW b, NEW k, NEW i, NEW row, InHand(job[b], k, i, row)
  PROVE  Holds(b, k, i)
  BY DEF InHand, Holds, Writing, Rewrites, Now

LEMMA JobsStep ==
  ASSUME TreeInv, Fields, NEW a \in Apps, OthersStand(a), OthersAlone(a),
         JobShape(job'[a]), HandAfter(a)
  PROVE  Jobs'
  <1>1. ASSUME NEW b \in Apps PROVE JobShape(job'[b])
    BY DEF OthersAlone, TreeInv, Jobs
  <1>2. ASSUME NEW b \in Apps, NEW k, NEW i, NEW row, InHand(job'[b], k, i, row)
        PROVE  Fits(k, i, row)'
    <2>1. CASE b = a
      BY <1>2, <2>1 DEF HandAfter
    <2>2. CASE b # a
      <3>1. InHand(job[b], k, i, row)
        BY <1>2, <2>2 DEF OthersAlone
      <3>2. Fits(k, i, row)
        BY <3>1 DEF TreeInv, Jobs, Hand
      <3>3. Holds(b, k, i)
        BY <3>1, Held
      <3>4. k \in Kinds /\ i \in 1 .. last[k]
        BY <3>2 DEF Fits
      <3>5. Stays(k, i) /\ Later
        BY <2>2, <3>3, <3>4 DEF OthersStand
      <3> QED BY <3>2, <3>5, FitsOn
    <2> QED BY <2>1, <2>2
  <1>3. DOMAIN job' = Apps
    BY DEF OthersAlone
  <1> QED BY <1>1, <1>2, <1>3 DEF Jobs, Hand

LEMMA EmptyHand ==
  ASSUME NEW j, j = NoJob \/ (Writing(j) /\ j.copy = None), NEW k, NEW i, NEW row
  PROVE  ~InHand(j, k, i, row)
  BY DEF InHand, Writing, NoJob

LEMMA JobSet ==
  ASSUME TreeInv, NEW a \in Apps, NEW j, job' = [job EXCEPT ![a] = j]
  PROVE  OthersAlone(a) /\ job'[a] = j
  BY ShapeFacts DEF Facts, OthersAlone

LEMMA JobEmptied ==
  ASSUME TreeInv, Fields, NEW a \in Apps, OthersAlone(a), OthersStand(a),
         job'[a] = NoJob \/ (Writer(job'[a]) /\ job'[a].copy = None)
  PROVE  Jobs'
  <1>2. JobShape(job'[a])
    BY DEF JobShape
  <1>3. \A k, i, row : ~InHand(job'[a], k, i, row)
    BY EmptyHand DEF Writer
  <1>4. HandAfter(a)
    BY <1>3 DEF HandAfter
  <1> QED BY <1>2, <1>4, JobsStep

LEMMA JobEmpty ==
  ASSUME TreeInv, Fields, NEW a \in Apps, NEW j, job' = [job EXCEPT ![a] = j], OthersStand(a),
         j = NoJob \/ (Writer(j) /\ j.copy = None)
  PROVE  Jobs'
  <1>1. OthersAlone(a) /\ job'[a] = j
    BY JobSet
  <1> QED BY <1>1, JobEmptied

LEMMA LoadJobs ==
  ASSUME TreeInv, Fields, NEW a \in Apps, Loads(a), Stand
  PROVE  Jobs' /\ TreesFollow
  <1>1. OthersStand(a)
    BY StandOthers
  <1>2. Jobs'
    BY <1>1, JobEmpty DEF Loads
  <1> QED BY <1>2 DEF Loads, TreesFollow

LEMMA JobsRest ==
  ASSUME TreeInv, Fields, Stand, UNCHANGED job
  PROVE  Jobs'
  <1>1. ASSUME NEW b \in Apps, NEW k, NEW i, NEW row, InHand(job'[b], k, i, row)
        PROVE  Fits(k, i, row)'
    <2>1. InHand(job[b], k, i, row)
      BY <1>1
    <2>2. Fits(k, i, row)
      BY <2>1 DEF TreeInv, Jobs, Hand
    <2>3. Stays(k, i) /\ Later
      BY <2>2 DEF Stand, Fits
    <2> QED BY <2>2, <2>3, FitsOn
  <1>2. DOMAIN job' = Apps /\ \A b \in Apps : JobShape(job'[b])
    BY DEF TreeInv, Jobs
  <1> QED BY <1>1, <1>2 DEF Jobs, Hand

(* A step that writes one table, and what it leaves.                        *)
LEMMA FoldersWritten ==
  ASSUME TreeInv, NEW t, rows' = [rows EXCEPT !.folder = t], DOMAIN filtering' = DOMAIN filtering,
         \/ UNCHANGED last
         \/ \E l \in Nat : last' = [last EXCEPT !.folder = l],
         \/ UNCHANGED seen
         \/ \E o : seen' = [seen EXCEPT !.open = o]
  PROVE  Fields /\ FoldersAlone /\ rows'.folder = t
  <1> USE ShapeFacts DEF Facts
  <1>1. DOMAIN rows' = Kinds /\ rows'.session = rows.session /\ rows'.folder = t
    BY DEF Kinds
  <1>2. last' \in [Kinds -> Nat] /\ last'.session = last.session
    BY DEF Kinds
  <1>3. DOMAIN seen' = DOMAIN seen /\ seen'.connects = seen.connects /\ seen'.own = seen.own
        /\ seen'.raced = seen.raced
    OBVIOUS
  <1> QED BY <1>1, <1>2, <1>3 DEF Fields, FoldersAlone, Kinds

LEMMA SessionsWritten ==
  ASSUME TreeInv, NEW t, rows' = [rows EXCEPT !.session = t], DOMAIN filtering' = DOMAIN filtering,
         \/ UNCHANGED last
         \/ \E l \in Nat : last' = [last EXCEPT !.session = l],
         \/ UNCHANGED seen
         \/ \E c : seen' = [seen EXCEPT !.connects = c]
         \/ \E c, o : seen' = [seen EXCEPT !.own = o, !.connects = c]
  PROVE  Fields /\ SessionsAlone /\ rows'.session = t
  <1> USE ShapeFacts DEF Facts
  <1>1. DOMAIN rows' = Kinds /\ rows'.folder = rows.folder /\ rows'.session = t
    BY DEF Kinds
  <1>2. last' \in [Kinds -> Nat] /\ last'.folder = last.folder
    BY DEF Kinds
  <1>3. DOMAIN seen' = DOMAIN seen /\ seen'.open = seen.open /\ seen'.raced = seen.raced
    OBVIOUS
  <1> QED BY <1>1, <1>2, <1>3 DEF Fields, SessionsAlone, Kinds

(* The rows a step leaves are said of as before.                           *)
FoldersStand == \A i \in 1 .. last.folder : Stays("folder", i)
SessionsStand == \A i \in 1 .. last.session : Stays("session", i)

LEMMA StandParts ==
  ASSUME TreeInv, Fields, FoldersAlone \/ (SessionsStand /\ last.session <= last'.session),
                  SessionsAlone \/ (FoldersStand /\ last.folder <= last'.folder)
  PROVE  Stand
  <1>1. FoldersAlone => SessionsStand /\ last.session <= last'.session
    BY ShapeFacts DEF FoldersAlone, SessionsStand, Stays, Facts
  <1>2. SessionsAlone => FoldersStand /\ last.folder <= last'.folder
    BY ShapeFacts DEF SessionsAlone, FoldersStand, Stays, Facts
  <1> QED BY <1>1, <1>2 DEF Stand, Later, FoldersStand, SessionsStand, Kinds

LEMMA Same ==
  ASSUME TreeInv, UNCHANGED <<rows, last, seen>>, DOMAIN filtering' = DOMAIN filtering
  PROVE  Fields /\ FoldersAlone /\ SessionsAlone /\ Stand
  <1>1. Fields /\ FoldersAlone /\ SessionsAlone
    BY ShapeFacts DEF Facts, Fields, FoldersAlone, SessionsAlone, Kinds
  <1> QED BY <1>1, StandParts

LEMMA Loaded ==
  ASSUME TreeInv, NEW a \in Apps, Fields, CopiesStay, Reload(a), Stand,
         FoldersAlone \/ Sessions', SessionsAlone \/ Expanded'
  PROVE  TreeInv'
  <1>1. Loads(a)
    BY Reloaded
  <1>2. Jobs' /\ TreesFollow
    BY <1>1, LoadJobs
  <1> QED BY <1>2, TreeStep

LEMMA FoldersLoaded ==
  ASSUME TreeInv, NEW a \in Apps, Fields, FoldersAlone, Expanded', FoldersStand,
         last.folder <= last'.folder, CopiesStay, Reload(a)
  PROVE  TreeInv'
  <1>1. Stand
    BY StandParts
  <1> QED BY <1>1, Loaded

LEMMA SessionsLoaded ==
  ASSUME TreeInv, NEW a \in Apps, Fields, SessionsAlone, Sessions', SessionsStand,
         last.session <= last'.session, CopiesStay, Reload(a)
  PROVE  TreeInv'
  <1>1. Stand
    BY StandParts
  <1> QED BY <1>1, Loaded

(* Folders.                                                                *)
LEMMA FolderMade ==
  ASSUME TreeInv, NEW up, NEW name,
         rows' = [rows EXCEPT !.folder = Inserted(@, last.folder + 1, NewFolder(up, name))],
         last' = [last EXCEPT !.folder = last.folder + 1],
         seen' = [seen EXCEPT !.open = @ \cup {last.folder + 1}], UNCHANGED filtering
  PROVE  Fields /\ FoldersAlone /\ Expanded' /\ FoldersStand /\ last.folder <= last'.folder
  <1> DEFINE f == last.folder + 1
             row == NewFolder(up, name)
             t == Inserted(rows.folder, f, row)
             R == seen.raced.folder
  <1>0. last.folder \in Nat /\ f \in Nat
    BY ShapeFacts DEF Facts
  <1>1. /\ rows' = [rows EXCEPT !.folder = t] /\ last' = [last EXCEPT !.folder = f]
        /\ seen' = [seen EXCEPT !.open = @ \cup {f}]
    OBVIOUS
  <1>2. last'.folder = f /\ seen'.open = seen.open \cup {f} /\ seen'.raced = seen.raced
    BY <1>1, ShapeFacts DEF Facts
  <1>3. DOMAIN row = kFolderCols /\ row.open = TRUE
    BY DEF NewFolder, kFolderCols
  <1>d. DOMAIN t = DOMAIN rows.folder \cup {f}
    BY DEF Inserted, With
  <1> HIDE DEF row
  <1>4. Opened(t, f, seen.open \cup {f}, R)
    <2>1. Opened(rows.folder, last.folder, seen.open, R)
      BY DEF TreeInv, Expanded
    <2>2. f = last.folder + 1
      OBVIOUS
    <2> HIDE DEF f, R
    <2> QED BY <1>3, <2>1, <2>2, OpenedInserted
  <1>5. Fields /\ FoldersAlone /\ rows'.folder = t
    <2> HIDE DEF f, t
    <2>1. \E o : seen' = [seen EXCEPT !.open = o]
      BY <1>1
    <2> QED BY <1>0, <1>1, <2>1, FoldersWritten
  <1>6. FoldersStand
    <2>1. \A i \in 1 .. last.folder : i # f
      BY <1>0
    <2> HIDE DEF f, t
    <2> QED BY <1>2, <1>5, <1>d, <2>1 DEF FoldersStand, Stays
  <1>7. last.folder <= last'.folder
    BY <1>0, <1>2
  <1> HIDE DEF f, t
  <1>8. Expanded'
    BY <1>2, <1>4, <1>5 DEF Expanded
  <1> QED BY <1>5, <1>6, <1>7, <1>8

LEMMA AddFolder ==
  ASSUME TreeInv, NEW a \in Apps, NEW up, NEW name, addFolder(a, up, name)
  PROVE  TreeInv'
  <1>1. /\ rows' = [rows EXCEPT !.folder = Inserted(@, last.folder + 1, NewFolder(up, name))]
        /\ last' = [last EXCEPT !.folder = last.folder + 1]
        /\ seen' = [seen EXCEPT !.open = @ \cup {last.folder + 1}]
        /\ UNCHANGED <<filtering, dialog>> /\ Reload(a)
    BY DEF addFolder
  <1>2. Fields /\ FoldersAlone /\ Expanded' /\ FoldersStand /\ last.folder <= last'.folder
    BY <1>1, FolderMade
  <1>3. CopiesStay
    BY <1>1, CopiesEnd
  <1> QED BY <1>1, <1>2, <1>3, FoldersLoaded

(* A window begins to rewrite rows, or goes on without one in hand.         *)
LEMMA GoesOn ==
  ASSUME TreeInv, NEW a \in Apps, OthersAlone(a), job'[a] = NoJob \/ (Writer(job'[a]) /\ job'[a].copy = None),
         UNCHANGED <<rows, last, seen, dialog>>, DOMAIN filtering' = DOMAIN filtering, TreesFollow
  PROVE  TreeInv'
  <1>1. Fields /\ FoldersAlone /\ SessionsAlone /\ Stand
    BY Same
  <1>2. OthersStand(a)
    BY <1>1, StandOthers
  <1>3. Jobs'
    BY <1>1, <1>2, JobEmptied
  <1>4. CopiesStay
    BY CopiesEnd
  <1> QED BY <1>1, <1>3, <1>4, TreeStep

LEMMA Starts ==
  ASSUME TreeInv, NEW a \in Apps, NEW j, job' = [job EXCEPT ![a] = j], j = NoJob \/ (Writer(j) /\ j.copy = None),
         UNCHANGED <<rows, last, seen, dialog>>, DOMAIN filtering' = DOMAIN filtering, TreesFollow
  PROVE  TreeInv'
  <1>1. OthersAlone(a) /\ job'[a] = j
    BY JobSet
  <1> QED BY <1>1, GoesOn

LEMMA RewriteIs ==
  ASSUME NEW does, does \in {"drop", "rename", "open", "restore"}, NEW changes, NEW drop, NEW mine,
         \A n \in DOMAIN changes : Task(changes[n], does)
  PROVE  Writer(Rewrite(does, changes, drop, mine)) /\ Rewrite(does, changes, drop, mine).copy = None
  BY DEF Rewrite, Writer, Writing, WriterFields

LEMMA RenameFolder ==
  ASSUME TreeInv, NEW a \in Apps, NEW f, NEW name, renameFolder(a, f, name)
  PROVE  TreeInv'
  <1> DEFINE c == Change("folder", f, [name |-> name])
             todo == <<c>>
             j == Rewrite("rename", todo, None, None)
  <1>1. job' = [job EXCEPT ![a] = j] /\ UNCHANGED <<rows, last, tree, filtering, dialog, seen>>
    BY DEF renameFolder
  <1>2. Task(c, "rename")
    BY DEF Task, Change, Kinds
  <1>3. \A n \in DOMAIN todo : todo[n] = c
    OBVIOUS
  <1>4. Writer(j) /\ j.copy = None
    <2> HIDE DEF todo, c
    <2> QED BY <1>2, <1>3, RewriteIs
  <1> HIDE DEF j
  <1>5. TreesFollow /\ DOMAIN filtering' = DOMAIN filtering
    BY <1>1 DEF TreesFollow
  <1> QED BY <1>1, <1>4, <1>5, Starts

(* A set of one, as a list.                                                *)
LEMMA OneInSeq ==
  ASSUME NEW x
  PROVE  LET seq == SetToSeq({x}) IN \A n \in DOMAIN seq : seq[n] = x
  <1> DEFINE S == {x}
             seq == SetToSeq(S)
             P(f) == IsInjective(f)
  <1>1. Cardinality(S) = 1
    BY FS_Singleton
  <1>2. [n \in 1 .. 1 |-> x] \in [1 .. Cardinality(S) -> S] /\ IsInjective([n \in 1 .. 1 |-> x])
    BY <1>1 DEF IsInjective
  <1>3. seq = CHOOSE f \in [1 .. Cardinality(S) -> S] : IsInjective(f)
    BY DEF SetToSeq
  <1>4. seq \in [1 .. Cardinality(S) -> S]
    BY <1>2, <1>3
  <1> HIDE DEF seq
  <1>5. \A n \in DOMAIN seq : seq[n] = x
    BY <1>4
  <1> QED BY <1>5 DEF seq

LEMMA SetExpanded ==
  ASSUME TreeInv, NEW a \in Apps, NEW f, setExpanded(a, f)
  PROVE  TreeInv'
  <1> DEFINE g == [folder |-> f, on |-> f \notin tree[a].open]
             told == onExpanded(filtering[a], tree[a], {g})
             seq == SetToSeq({g})
             todo == [n \in DOMAIN seq |-> Change("folder", seq[n].folder, [open |-> seq[n].on])]
             j == Rewrite("open", todo, None, None)
  <1>1. Record(a, "open", tree[a], told) /\ UNCHANGED <<rows, last, filtering, dialog, seen>>
    BY DEF setExpanded
  <1>2. told = {} \/ told = {g}
    BY DEF onExpanded
  <1>3. TreesFollow
    <2>1. \E open : tree' = [tree EXCEPT ![a] = [tree[a] EXCEPT !.open = open]]
      BY <1>1 DEF Record
    <2> QED BY <2>1 DEF TreesFollow
  <1>4. CASE told = {}
    <2>1. job' = [job EXCEPT ![a] = NoJob]
      <3> HIDE DEF told
      <3>1. Record(a, "open", tree[a], {})
        BY <1>1, <1>4
      <3> QED BY <3>1, RecordedNothing
    <2>2. UNCHANGED <<rows, last, seen, dialog>> /\ DOMAIN filtering' = DOMAIN filtering
      BY <1>1
    <2> QED BY <1>3, <2>1, <2>2, Starts
  <1>5. CASE told = {g}
    <2>0. g.on \in BOOLEAN
      OBVIOUS
    <2>1. \A n \in DOMAIN seq : seq[n] = g
      <3> HIDE DEF g
      <3> QED BY OneInSeq
    <2> HIDE DEF g
    <2>2. \A n \in DOMAIN todo : Task(todo[n], "open")
      <3>1. \A n \in DOMAIN todo : todo[n] = Change("folder", g.folder, [open |-> g.on])
        BY <2>1
      <3>2. Task(Change("folder", g.folder, [open |-> g.on]), "open")
        BY <2>0 DEF Task, Change, Kinds
      <3> QED BY <3>1, <3>2
    <2>3. Writer(j) /\ j.copy = None
      <3> HIDE DEF todo
      <3> QED BY <2>2, RewriteIs
    <2>4. job' = [job EXCEPT ![a] = j]
      <3>1. Record(a, "open", tree[a], {g})
        <4> HIDE DEF told
        <4> QED BY <1>1, <1>5
      <3>2. {g} # {}
        OBVIOUS
      <3> QED BY <3>1, <3>2 DEF Record
    <2> HIDE DEF j
    <2>5. UNCHANGED <<rows, last, seen, dialog>> /\ DOMAIN filtering' = DOMAIN filtering
      BY <1>1
    <2> QED BY <1>3, <2>3, <2>4, <2>5, Starts
  <1> QED BY <1>2, <1>4, <1>5

LEMMA ApplyFilter ==
  ASSUME TreeInv, NEW a \in Apps, NEW fs, applyFilter(a, fs)
  PROVE  /\ TreeInv' /\ UNCHANGED <<rows, last, dialog, seen>>
         /\ tree' = [tree EXCEPT ![a] = [tree[a] EXCEPT !.open = tree[a].open]]
         /\ job' = [job EXCEPT ![a] = NoJob]
  <1> DEFINE tr == tree[a]
             was == filtering[a]
             told == onExpanded(filtering'[a], tr,
                       IF was THEN restoreExpansion(tr) ELSE {[folder |-> f, on |-> TRUE] : f \in fs})
  <1>1. /\ filtering' = [filtering EXCEPT ![a] = ~@] /\ UNCHANGED <<rows, last, dialog, seen>>
        /\ Record(a, "restore", tr, told)
    BY DEF applyFilter
  <1>2. a \in DOMAIN filtering
    BY ShapeFacts DEF Facts
  <1>3. told = {}
    <2>1. CASE was
      BY <2>1, NothingTold
    <2>2. CASE ~was
      <3>1. filtering'[a]
        BY <1>1, <1>2, <2>2
      <3> QED BY <3>1 DEF onExpanded
    <2> QED BY <2>1, <2>2
  <1>4. DOMAIN filtering' = DOMAIN filtering
    BY <1>1
  <1> HIDE DEF told
  <1>5. Record(a, "restore", tr, {})
    BY <1>1, <1>3
  <1>6. tree' = [tree EXCEPT ![a] = [tr EXCEPT !.open = tr.open]] /\ job' = [job EXCEPT ![a] = NoJob]
    BY <1>5, RecordedNothing
  <1>7. TreesFollow
    BY <1>6 DEF TreesFollow
  <1>8. TreeInv'
    BY <1>1, <1>4, <1>6, <1>7, Starts
  <1> QED BY <1>1, <1>6, <1>8

(* A folder that goes leaves its rows to the root.                          *)
LEMMA RemoveFolder ==
  ASSUME TreeInv, NEW a \in Apps, NEW f, removeFolder(a, f)
  PROVE  TreeInv'
  <1> DEFINE toRoot(t) == [i \in DOMAIN t |-> IF t[i].up = f THEN [t[i] EXCEPT !.up = Root] ELSE t[i]]
             t == rows.folder
             folders == toRoot(t)
             s == rows.session
             v == toRoot(s)
             u == [i \in DOMAIN folders \ {f} |-> folders[i]]
             R == seen.raced.folder
             Q == seen.raced.session
  <1>1. /\ rows' = [folder |-> u, session |-> v]
        /\ seen' = [seen EXCEPT !.open = @ \ {f}] /\ UNCHANGED <<last, filtering, dialog>> /\ Reload(a)
    BY DEF removeFolder, deleteFolder
  <1>2. Opened(t, last.folder, seen.open, R) /\ Tally(s, last.session, seen.connects, seen.own, Q)
    BY DEF TreeInv, Expanded, Sessions
  <1>3. /\ seen'.open = seen.open \ {f} /\ DOMAIN seen' = DOMAIN seen
        /\ seen'.connects = seen.connects /\ seen'.own = seen.own /\ seen'.raced = seen.raced
    BY <1>1, ShapeFacts DEF Facts
  <1>4. DOMAIN v = DOMAIN s /\ \A i \in DOMAIN s : /\ DOMAIN v[i] = DOMAIN s[i]
                                                  /\ v[i].count = s[i].count /\ v[i].own = s[i].own
    OBVIOUS
  <1>5. /\ DOMAIN u = DOMAIN t \ {f}
        /\ \A i \in DOMAIN u : DOMAIN u[i] = DOMAIN t[i] /\ u[i].open = t[i].open
    OBVIOUS
  <1> HIDE DEF u, v, R, Q
  <1>6. Sessions'
    <2>1. Tally(v, last.session, seen.connects, seen.own, Q)
      <3> HIDE DEF s
      <3> QED BY <1>2, <1>4, TallyKept
    <2> QED BY <1>1, <1>3, <2>1 DEF Sessions, Q
  <1>7. Expanded'
    <2> DEFINE fs == seen.open \ {f}
    <2>1. last.folder \in Nat
      BY <1>2 DEF Opened
    <2>2. ASSUME NEW i \in DOMAIN u
          PROVE  /\ i \in 1 .. last.folder /\ DOMAIN u[i] = kFolderCols
                 /\ u[i].open \in BOOLEAN /\ (i \notin R => (u[i].open <=> i \in fs))
      <3>1. /\ i \in DOMAIN t /\ i # f /\ DOMAIN u[i] = DOMAIN t[i] /\ u[i].open = t[i].open
        BY <1>5
      <3>2. /\ i \in 1 .. last.folder /\ DOMAIN t[i] = kFolderCols
            /\ t[i].open \in BOOLEAN /\ (i \notin R => (t[i].open <=> i \in seen.open))
        BY <1>2, <3>1 DEF Opened
      <3>3. i \in fs <=> i \in seen.open
        BY <3>1
      <3> HIDE DEF fs, t
      <3> QED BY <3>1, <3>2, <3>3
    <2> HIDE DEF fs
    <2>3. Opened(u, last.folder, fs, R)
      BY <2>1, <2>2 DEF Opened
    <2> QED BY <1>1, <1>3, <2>3 DEF Expanded, fs, R
  <1>8. Fields
    BY <1>1, <1>3, ShapeFacts DEF Facts, Fields, Kinds
  <1>9. CopiesStay
    BY <1>1, CopiesEnd
  <1>10. FoldersStand /\ SessionsStand
    <2>1. rows'.folder = u /\ rows'.session = v
      BY <1>1
    <2>2. FoldersStand
      BY <1>3, <1>5, <2>1 DEF FoldersStand, Stays
    <2>3. SessionsStand
      BY <1>3, <1>4, <2>1 DEF SessionsStand, Stays
    <2> QED BY <2>2, <2>3
  <1>11. Stand
    <2>1. last.folder <= last'.folder /\ last.session <= last'.session
      BY <1>1, ShapeFacts DEF Facts
    <2> QED BY <1>8, <1>10, <2>1, StandParts
  <1> QED BY <1>1, <1>6, <1>7, <1>8, <1>9, <1>11, Loaded

LEMMA LoadedOthers ==
  ASSUME TreeInv, NEW a \in Apps, Fields, CopiesStay, Reload(a), OthersStand(a),
         FoldersAlone \/ Sessions', SessionsAlone \/ Expanded'
  PROVE  TreeInv'
  <1>1. Loads(a)
    BY Reloaded
  <1>2. Jobs' /\ TreesFollow
    BY <1>1, JobEmpty DEF Loads, TreesFollow
  <1> QED BY <1>2, TreeStep

(* The editor.                                                             *)
LEMMA Opens ==
  ASSUME TreeInv, NEW a \in Apps, NEW s, NEW row, DOMAIN row = Columns, OpenDialog(a, s, row)
  PROVE  TreeInv'
  <1> DEFINE d == [id |-> s, row |-> row, folders |-> populateFolders]
  <1>1. dialog' = [dialog EXCEPT ![a] = d] /\ UNCHANGED <<rows, last, tree, filtering, job, seen>>
    BY DEF OpenDialog
  <1>2. d.row = row
    OBVIOUS
  <1> HIDE DEF d
  <1>3. DOMAIN dialog = Apps /\ Copies
    BY DEF TreeInv, Shape
  <1>4. DOMAIN dialog' = Apps
    BY <1>1, <1>3
  <1>5. ASSUME NEW b \in Apps, dialog'[b] # None PROVE DOMAIN dialog'[b].row = Columns
    <2>1. CASE b = a
      BY <1>1, <1>2, <1>3, <2>1
    <2>2. CASE b # a
      <3>1. dialog'[b] = dialog[b]
        BY <1>1, <1>3, <2>2
      <3> QED BY <1>3, <1>5, <3>1 DEF Copies
    <2> QED BY <2>1, <2>2
  <1>6. Copies'
    BY <1>5 DEF Copies
  <1>7. Shape' /\ Sessions' /\ Expanded'
    BY <1>1, <1>4 DEF TreeInv, Shape, Sessions, Expanded
  <1>8. Lists'
    BY <1>1 DEF TreeInv, Lists
  <1>9. Jobs'
    <2>1. Fields /\ Stand
      BY <1>1, Same
    <2> QED BY <1>1, <2>1, JobsRest
  <1> QED BY <1>6, <1>7, <1>8, <1>9 DEF TreeInv

LEMMA EditSession ==
  ASSUME TreeInv, NEW a \in Apps, NEW s, editSession(a, s)
  PROVE  TreeInv'
  <1>1. OpenDialog(a, s, getSession(s))
    BY DEF editSession
  <1>2. DOMAIN getSession(s) = Columns
    BY DEF getSession, readSession, Columns
  <1> HIDE DEF getSession
  <1> QED BY <1>1, <1>2, Opens

LEMMA AddSession ==
  ASSUME TreeInv, NEW a \in Apps, addSession(a)
  PROVE  TreeInv'
  <1> DEFINE row == NewSession(Root, 0, CHOOSE h \in Hosts : TRUE)
  <1>1. OpenDialog(a, 0, row)
    BY DEF addSession
  <1>2. DOMAIN row = Columns
    BY DEF NewSession, Columns, kSchema, kAddedColumns
  <1> HIDE DEF row
  <1> QED BY <1>1, <1>2, Opens

(* A step that leaves the tables and the history alone.                     *)
LEMMA Rests ==
  ASSUME TreeInv, UNCHANGED <<rows, last, tree, filtering, job, seen>>, CopiesStay
  PROVE  TreeInv'
  <1>1. Fields /\ FoldersAlone /\ SessionsAlone /\ Stand
    BY Same
  <1>2. Jobs' /\ TreesFollow
    BY <1>1, JobsRest DEF TreesFollow
  <1> QED BY <1>1, <1>2, TreeStep

LEMMA Cancel ==
  ASSUME TreeInv, NEW a \in Apps, cancel(a)
  PROVE  TreeInv'
  <1>1. UNCHANGED <<rows, last, tree, filtering, job, seen>> /\ dialog' = [dialog EXCEPT ![a] = None]
    BY DEF cancel
  <1>2. CopiesStay
    BY <1>1, CopiesEnd
  <1> QED BY <1>1, <1>2, Rests

(* What an editor hands back is a whole row, and whose overrides it has.    *)
LEMMA EditedRow ==
  ASSUME TreeInv, NEW a \in Apps, dialog[a] # None, NEW up, NEW name, NEW host, NEW own
  PROVE  DOMAIN Edited(dialog[a], up, name, host, own) = Columns
         /\ Edited(dialog[a], up, name, host, own).own = own
  <1> DEFINE row == dialog[a].row
  <1>1. DOMAIN row = Columns
    BY DEF TreeInv, Copies
  <1>2. Edited(dialog[a], up, name, host, own)
          = [row EXCEPT !.up = up, !.name = name, !.host = host, !.own = own]
    BY DEF Edited
  <1> HIDE DEF row
  <1> QED BY <1>1, <1>2 DEF Columns, kSchema, kAddedColumns

(* The history after a save: raced if another window has the row in hand.   *)
LEMMA RacedIs ==
  ASSUME NEW a, NEW k, NEW i
  PROVE  /\ \A j : j # i => (j \in Raced(a, k, i) <=> j \in seen.raced[k])
         /\ (\E b \in Apps \ {a} : Holds(b, k, i)) => i \in Raced(a, k, i)
  BY DEF Raced

LEMMA Overridden ==
  ASSUME TreeInv, NEW a \in Apps, NEW s \in DOMAIN rows.session, NEW own,
         seen' = [seen EXCEPT !.own[s] = own, !.raced.session = Raced(a, "session", s)]
  PROVE  /\ seen'.own = [seen.own EXCEPT ![s] = own] /\ seen'.connects = seen.connects
         /\ seen'.open = seen.open /\ seen'.raced.folder = seen.raced.folder
         /\ seen'.raced.session = Raced(a, "session", s)
         /\ DOMAIN seen' = DOMAIN seen /\ DOMAIN seen'.raced = DOMAIN seen.raced
         /\ seen'.crossed = seen.crossed
  <1> DEFINE R == Raced(a, "session", s)
  <1>1. seen' = [seen EXCEPT !.own = [seen.own EXCEPT ![s] = own],
                             !.raced = [seen.raced EXCEPT !.session = R]]
    BY ShapeFacts DEF Facts
  <1> HIDE DEF R
  <1> QED BY <1>1, ShapeFacts DEF Facts, R

(* An edit leaves the row its connects.                                    *)
LEMMA SaveEdited ==
  ASSUME TreeInv, NEW a \in Apps, NEW up, NEW name, NEW host, NEW own,
         saveEdited(a, up, name, host, own)
  PROVE  TreeInv'
  <1> DEFINE s == dialog[a].id
             row == Edited(dialog[a], up, name, host, own)
             t == rows.session
             u == updateSession(t, s, row)
             o == [seen.own EXCEPT ![s] = own]
             R == seen.raced.session
             Q == Raced(a, "session", s)
  <1>1. /\ dialog[a] # None /\ rows' = [rows EXCEPT !.session = u]
        /\ dialog' = [dialog EXCEPT ![a] = None] /\ UNCHANGED <<last, filtering>> /\ Reload(a)
    BY DEF saveEdited
  <1>2. seen' = IF s \in DOMAIN t THEN [seen EXCEPT !.own[s] = own, !.raced.session = Q] ELSE seen
    BY DEF saveEdited
  <1>3. DOMAIN row = Columns /\ row.own = own
    BY <1>1, EditedRow
  <1>4. Tally(t, last.session, seen.connects, seen.own, R)
    BY DEF TreeInv, Sessions
  <1>5. CopiesStay
    BY <1>1, CopiesEnd
  <1> HIDE DEF row
  <1>6. CASE s \notin DOMAIN t
    <2>u. u = t
      <3> HIDE DEF t, s
      <3> QED BY <1>6 DEF updateSession
    <2>s. seen' = seen
      <3> HIDE DEF t, s, Q
      <3> QED BY <1>2, <1>6
    <2> HIDE DEF u, s
    <2>2. rows' = [rows EXCEPT !.session = t] /\ DOMAIN filtering' = DOMAIN filtering
      BY <1>1, <2>u
    <2>a. Fields /\ SessionsAlone /\ rows'.session = t
      BY <1>1, <2>s, <2>2, SessionsWritten
    <2>b. FoldersAlone
      BY <1>1, <2>s, <2>a DEF FoldersAlone
    <2>3. Fields /\ FoldersAlone /\ SessionsAlone /\ Stand
      BY <2>a, <2>b, StandParts
    <2> QED BY <1>1, <1>5, <2>3, Loaded
  <1>7. CASE s \in DOMAIN t
    <2>1. u = [t EXCEPT ![s] = [row EXCEPT !.count = t[s].count]]
      BY <1>7 DEF updateSession, Updated, bindWritable
    <2>2. seen' = [seen EXCEPT !.own[s] = own, !.raced.session = Q]
      BY <1>2, <1>7
    <2>o. /\ seen'.own = o /\ seen'.connects = seen.connects
          /\ seen'.open = seen.open /\ seen'.raced.folder = seen.raced.folder /\ seen'.raced.session = Q
          /\ DOMAIN seen' = DOMAIN seen /\ DOMAIN seen'.raced = DOMAIN seen.raced
      BY <1>7, <2>2, Overridden
    <2>q. /\ \A j : j # s => (j \in Q <=> j \in R)
          /\ (\E b \in Apps \ {a} : Holds(b, "session", s)) => s \in Q
      BY RacedIs
    <2> DEFINE c == seen.connects
               p == seen.own
    <2> HIDE DEF Q, R
    <2>3. Tally(u, last.session, c, o, Q)
      <3>1. DOMAIN u = DOMAIN t /\ DOMAIN o = DOMAIN t /\ DOMAIN c = DOMAIN t
        BY <1>4, <2>1 DEF Tally
      <3>2. ASSUME NEW i \in DOMAIN t
            PROVE  /\ i \in 1 .. last.session /\ DOMAIN u[i] = Columns
                   /\ u[i].count = c[i] /\ (i \notin Q => u[i].own = o[i])
        <4>1. /\ i \in 1 .. last.session /\ DOMAIN t[i] = Columns
              /\ t[i].count = c[i] /\ (i \notin R => t[i].own = p[i]) /\ i \in DOMAIN p
          BY <1>4 DEF Tally
        <4>2. CASE i = s
          <5>1. u[i] = [row EXCEPT !.count = t[i].count] /\ o[i] = own
            BY <2>1, <4>1, <4>2
          <5> HIDE DEF u, o, t, c
          <5>2. DOMAIN u[i] = Columns /\ u[i].count = t[i].count /\ u[i].own = own
            BY <1>3, <5>1 DEF Columns, kSchema, kAddedColumns
          <5> QED BY <4>1, <5>1, <5>2
        <4>3. CASE i # s
          <5>1. u[i] = t[i] /\ o[i] = p[i]
            BY <2>1, <4>1, <4>3
          <5>2. i \notin Q => i \notin R
            BY <2>q, <4>3
          <5> HIDE DEF u, o, t, c, p
          <5> QED BY <4>1, <5>1, <5>2
        <4> QED BY <4>2, <4>3
      <3> HIDE DEF u, o, t
      <3> QED BY <1>4, <3>1, <3>2 DEF Tally
    <2>d. DOMAIN u = DOMAIN t
      BY <2>1
    <2>4. o = [p EXCEPT ![s] = own]
      OBVIOUS
    <2> HIDE DEF u, o
    <2>5. rows'.session = u /\ rows'.folder = rows.folder /\ DOMAIN rows' = DOMAIN rows
      BY <1>1, ShapeFacts DEF Facts
    <2>6. Fields /\ SessionsAlone
      BY <1>1, <2>o, <2>5, ShapeFacts DEF Facts, Fields, SessionsAlone, Kinds
    <2>7. Sessions'
      BY <1>1, <2>3, <2>5, <2>o DEF Sessions
    <2>8. OthersStand(a)
      <3>1. Later
        BY <1>1, ShapeFacts DEF Facts, Later, Kinds
      <3>2. ASSUME NEW i \in 1 .. last.folder PROVE Stays("folder", i)
        BY <2>6 DEF SessionsAlone, Stays
      <3>3. ASSUME NEW i \in 1 .. last.session, i # s PROVE Stays("session", i)
        <4>1. o[i] = p[i]
          BY <2>4, <3>3
        <4> QED BY <2>5, <2>o, <2>d, <2>q, <3>3, <4>1 DEF Stays, R
      <3>4. Stays("session", s) \/ \A b \in Apps \ {a} : ~Holds(b, "session", s)
        BY <2>q, <2>o DEF Stays
      <3> HIDE DEF s
      <3> QED BY <3>1, <3>2, <3>3, <3>4 DEF OthersStand, Kinds
    <2> QED BY <1>1, <1>5, <2>6, <2>7, <2>8, LoadedOthers
  <1> QED BY <1>6, <1>7

(* A new session is one more row, and nobody's.                             *)
LEMMA Inserts ==
  ASSUME TreeInv, NEW row, DOMAIN row = Columns, Insert(last.session + 1, row), UNCHANGED filtering
  PROVE  /\ Fields /\ SessionsAlone /\ Sessions' /\ SessionsStand
         /\ last'.session = last.session + 1 /\ seen'.own = With(seen.own, last.session + 1, row.own)
         /\ seen'.raced = seen.raced
  <1> DEFINE s == last.session + 1
             new == [row EXCEPT !.count = 0]
             t == Inserted(rows.session, s, new)
             c == With(seen.connects, s, 0)
             o == With(seen.own, s, row.own)
             R == seen.raced.session
  <1>0. last.session \in Nat /\ s \in Nat
    BY ShapeFacts DEF Facts
  <1>1. /\ rows' = [rows EXCEPT !.session = t] /\ last' = [last EXCEPT !.session = s]
        /\ seen' = [seen EXCEPT !.own = o, !.connects = c]
    BY DEF Insert
  <1>2. DOMAIN new = Columns /\ new.count = 0 /\ new.own = row.own
    BY DEF Columns, kSchema, kAddedColumns
  <1>d. DOMAIN t = DOMAIN rows.session \cup {s}
    BY DEF Inserted, With
  <1> HIDE DEF new
  <1>3. Tally(t, s, c, o, R)
    <2>1. Tally(rows.session, last.session, seen.connects, seen.own, R)
      BY DEF TreeInv, Sessions
    <2>2. s = last.session + 1
      OBVIOUS
    <2> HIDE DEF s, R
    <2>3. Tally(t, s, c, With(seen.own, s, new.own), R)
      BY <1>2, <2>1, <2>2, TallyInserted
    <2> QED BY <1>2, <2>3
  <1>s. \A i \in 1 .. last.session : i # s
    BY <1>0
  <1>o. \A i \in DOMAIN rows.session : i # s => o[i] = seen.own[i]
    <2>1. DOMAIN seen.own = DOMAIN rows.session
      BY DEF TreeInv, Sessions, Tally
    <2> HIDE DEF s
    <2> QED BY <2>1 DEF With
  <1>l. s = last.session + 1
    OBVIOUS
  <1>w. o = With(seen.own, s, row.own)
    OBVIOUS
  <1> HIDE DEF s, t, c, o
  <1>4. Fields /\ SessionsAlone /\ rows'.session = t
    BY <1>0, <1>1, SessionsWritten
  <1>5. seen'.own = o /\ seen'.connects = c /\ last'.session = s /\ seen'.raced = seen.raced
    BY <1>1, ShapeFacts DEF Facts
  <1>6. Sessions'
    BY <1>3, <1>4, <1>5 DEF Sessions
  <1>7. SessionsStand
    BY <1>4, <1>5, <1>d, <1>s, <1>o DEF SessionsStand, Stays
  <1> QED BY <1>4, <1>5, <1>6, <1>7, <1>l, <1>w

LEMMA NewRow ==
  ASSUME TreeInv, NEW a \in Apps, NEW row, DOMAIN row = Columns, Insert(last.session + 1, row),
         UNCHANGED filtering, CopiesStay, Reload(a)
  PROVE  TreeInv'
  <1>1. Fields /\ SessionsAlone /\ Sessions' /\ SessionsStand /\ last'.session = last.session + 1
    BY Inserts
  <1>2. last.session <= last'.session
    BY <1>1, ShapeFacts DEF Facts
  <1> QED BY <1>1, <1>2, SessionsLoaded

LEMMA SaveNew ==
  ASSUME TreeInv, NEW a \in Apps, NEW up, NEW name, NEW host, NEW own, saveNew(a, up, name, host, own)
  PROVE  TreeInv'
  <1> DEFINE row == Edited(dialog[a], up, name, host, own)
  <1>1. /\ dialog[a] # None /\ Insert(last.session + 1, row) /\ dialog' = [dialog EXCEPT ![a] = None]
        /\ UNCHANGED filtering /\ Reload(a)
    BY DEF saveNew
  <1>2. DOMAIN row = Columns
    BY <1>1, EditedRow
  <1>3. CopiesStay
    BY <1>1, CopiesEnd
  <1> HIDE DEF row
  <1> QED BY <1>1, <1>2, <1>3, NewRow

LEMMA DuplicateSession ==
  ASSUME TreeInv, NEW a \in Apps, NEW s, duplicateSession(a, s)
  PROVE  TreeInv'
  <1> DEFINE row == getSession(s)
  <1>1. Insert(last.session + 1, row) /\ UNCHANGED <<filtering, dialog>> /\ Reload(a)
    BY DEF duplicateSession
  <1>2. DOMAIN row = Columns
    BY DEF getSession, readSession, Columns
  <1>3. CopiesStay
    BY <1>1, CopiesEnd
  <1> HIDE DEF row
  <1> QED BY <1>1, <1>2, <1>3, NewRow

LEMMA DeleteSession ==
  ASSUME TreeInv, NEW a \in Apps, NEW s, deleteSession(a, s)
  PROVE  TreeInv'
  <1> DEFINE t == Without(rows.session, s)
             c == Without(seen.connects, s)
             o == Without(seen.own, s)
             R == seen.raced.session
  <1>1. /\ rows' = [rows EXCEPT !.session = t] /\ UNCHANGED <<last, filtering, dialog>> /\ Reload(a)
        /\ seen' = [seen EXCEPT !.own = o, !.connects = c]
    BY DEF deleteSession
  <1>2. Tally(t, last.session, c, o, R)
    BY TallyWithout DEF TreeInv, Sessions
  <1>d. DOMAIN t = DOMAIN rows.session \ {s} /\ DOMAIN seen.own = DOMAIN rows.session
    BY DEF Without, TreeInv, Sessions, Tally
  <1>o. \A i \in DOMAIN t : o[i] = seen.own[i]
    BY <1>d DEF Without
  <1> HIDE DEF t, c, o
  <1>3. Fields /\ SessionsAlone /\ rows'.session = t
    BY <1>1, SessionsWritten
  <1>4. seen'.own = o /\ seen'.connects = c /\ seen'.raced = seen.raced
    BY <1>1, ShapeFacts DEF Facts
  <1>5. Sessions'
    BY <1>1, <1>2, <1>3, <1>4 DEF Sessions
  <1>6. CopiesStay
    BY <1>1, CopiesEnd
  <1>7. SessionsStand
    BY <1>d, <1>o, <1>3, <1>4 DEF SessionsStand, Stays
  <1>8. last.session <= last'.session
    BY <1>1, ShapeFacts DEF Facts
  <1> QED BY <1>1, <1>3, <1>5, <1>6, <1>7, <1>8, SessionsLoaded

LEMMA EmitConnect ==
  ASSUME TreeInv, NEW a \in Apps, NEW s, emitConnect(a, s)
  PROVE  TreeInv'
  <1> DEFINE t == rows.session
             u == recordConnect(t, s)
             c == seen.connects
             d == [c EXCEPT ![s] = @ + 1]
             R == seen.raced.session
  <1>1. /\ s \in DOMAIN t /\ rows' = [rows EXCEPT !.session = u]
        /\ UNCHANGED <<last, tree, filtering, dialog, job>>
        /\ seen' = [seen EXCEPT !.connects = d]
    BY DEF emitConnect
  <1>2. Tally(t, last.session, c, seen.own, R)
    BY DEF TreeInv, Sessions
  <1>3. u = [t EXCEPT ![s] = [t[s] EXCEPT !.count = @ + 1]]
    BY DEF recordConnect
  <1> HIDE DEF R
  <1>4. Tally(u, last.session, d, seen.own, R)
    <2>1. DOMAIN u = DOMAIN t /\ DOMAIN d = DOMAIN t
      BY <1>2, <1>3 DEF Tally
    <2>2. ASSUME NEW i \in DOMAIN t
          PROVE  /\ i \in 1 .. last.session /\ DOMAIN u[i] = Columns
                 /\ u[i].count = d[i] /\ (i \notin R => u[i].own = seen.own[i])
      <3>1. /\ i \in 1 .. last.session /\ DOMAIN t[i] = Columns /\ i \in DOMAIN c
            /\ t[i].count = c[i] /\ (i \notin R => t[i].own = seen.own[i])
        BY <1>2 DEF Tally
      <3>2. CASE i = s
        <4>1. u[i] = [t[i] EXCEPT !.count = t[i].count + 1] /\ d[i] = c[i] + 1
          BY <1>1, <1>3, <3>1, <3>2
        <4> HIDE DEF u, d
        <4>2. DOMAIN u[i] = Columns /\ u[i].count = t[i].count + 1 /\ u[i].own = t[i].own
          BY <3>1, <4>1 DEF Columns, kSchema, kAddedColumns
        <4> HIDE DEF t, c
        <4> QED BY <3>1, <4>1, <4>2
      <3>3. CASE i # s
        <4>1. u[i] = t[i] /\ d[i] = c[i]
          BY <1>3, <3>1, <3>3
        <4> HIDE DEF u, d, t, c
        <4> QED BY <3>1, <4>1
      <3> QED BY <3>2, <3>3
    <2> HIDE DEF u, d, t, c
    <2> QED BY <1>2, <2>1, <2>2 DEF Tally
  <1>d. DOMAIN u = DOMAIN t
    BY <1>3
  <1> HIDE DEF u, d
  <1>5. Fields /\ SessionsAlone /\ rows'.session = u
    BY <1>1, SessionsWritten
  <1>6. seen'.connects = d /\ seen'.own = seen.own /\ seen'.raced = seen.raced
    BY <1>1, ShapeFacts DEF Facts
  <1>7. Sessions'
    BY <1>1, <1>4, <1>5, <1>6 DEF Sessions, R
  <1>8. CopiesStay
    BY <1>1, CopiesEnd
  <1>9. Stand
    <2>1. SessionsStand
      BY <1>d, <1>5, <1>6 DEF SessionsStand, Stays
    <2>2. last.session <= last'.session
      BY <1>1, ShapeFacts DEF Facts
    <2> QED BY <1>5, <2>1, <2>2, StandParts
  <1>10. Jobs' /\ TreesFollow
    BY <1>1, <1>5, <1>9, JobsRest DEF TreesFollow
  <1> QED BY <1>5, <1>7, <1>8, <1>10, TreeStep

(* A row of either version, once migrated, has every column and what it had.*)
LEMMA Migrated ==
  ASSUME NEW t, \A s \in DOMAIN t : DOMAIN t[s] \in {kSchema, Columns},
         NEW u, u = [s \in DOMAIN t |-> Filled(t[s], kAddedColumns, Start)]
  PROVE  /\ DOMAIN u = DOMAIN t
         /\ \A s \in DOMAIN t : /\ DOMAIN u[s] = Columns
                                /\ \A c \in DOMAIN t[s] : u[s][c] = t[s][c]
  <1>1. ASSUME NEW s \in DOMAIN t
        PROVE  DOMAIN u[s] = Columns /\ \A c \in DOMAIN t[s] : u[s][c] = t[s][c]
    <2>1. u[s] = Filled(t[s], kAddedColumns, Start)
      OBVIOUS
    <2>2. DOMAIN u[s] = DOMAIN t[s] \cup kAddedColumns
      BY <2>1 DEF Filled
    <2>3. DOMAIN u[s] = Columns
      BY <2>2 DEF Columns
    <2>4. \A c \in DOMAIN t[s] : u[s][c] = t[s][c]
      BY <2>1 DEF Filled
    <2> QED BY <2>3, <2>4
  <1> QED BY <1>1

LEMMA ReopenStep ==
  ASSUME TreeInv, NEW a \in Apps, Reopen(a)
  PROVE  TreeInv'
  <1> DEFINE t == rows.session
             u == [s \in DOMAIN t |-> Filled(t[s], kAddedColumns, Start)]
             R == seen.raced.session
  <1>1. /\ rows' = [rows EXCEPT !.session = u] /\ dialog' = [dialog EXCEPT ![a] = None]
        /\ filtering' = [filtering EXCEPT ![a] = FALSE]
        /\ UNCHANGED <<last, seen>> /\ Reload(a)
    BY DEF Reopen, migrate
  <1>2. Tally(t, last.session, seen.connects, seen.own, R)
    BY DEF TreeInv, Sessions
  <1>3. \A s \in DOMAIN t : DOMAIN t[s] = Columns
    BY <1>2 DEF Tally
  <1>4. /\ DOMAIN u = DOMAIN t
        /\ \A s \in DOMAIN t : /\ DOMAIN u[s] = Columns
                               /\ \A c \in DOMAIN t[s] : u[s][c] = t[s][c]
    <2> DEFINE v == u
    <2>1. v = u
      OBVIOUS
    <2> HIDE DEF v, t
    <2> QED BY <1>3, <2>1, Migrated
  <1> HIDE DEF u, R
  <1>5. \A s \in DOMAIN t : /\ DOMAIN u[s] = DOMAIN t[s]
                            /\ u[s].count = t[s].count /\ u[s].own = t[s].own
    BY <1>3, <1>4 DEF Columns, kSchema, kAddedColumns
  <1>6. Tally(u, last.session, seen.connects, seen.own, R)
    <2> HIDE DEF t
    <2> QED BY <1>2, <1>4, <1>5, TallyKept
  <1>7. Fields /\ SessionsAlone /\ rows'.session = u
    <2>1. DOMAIN filtering' = DOMAIN filtering
      BY <1>1
    <2> QED BY <1>1, <2>1, SessionsWritten
  <1>8. Sessions'
    BY <1>1, <1>6, <1>7 DEF Sessions, R
  <1>9. CopiesStay
    BY <1>1, CopiesEnd
  <1>10. SessionsStand
    BY <1>1, <1>4, <1>7 DEF SessionsStand, Stays
  <1>11. last.session <= last'.session
    BY <1>1, ShapeFacts DEF Facts
  <1> QED BY <1>1, <1>7, <1>8, <1>9, <1>10, <1>11, SessionsLoaded

------------------------------------------------------------------------------
(* Sequences.                                                              *)

(* An item put into a sequence.                                            *)
PutIn(t, s, g, e) ==
  \A n \in 1 .. Len(s) + 1 : t[n] = IF n <= g THEN s[n] ELSE IF n = g + 1 THEN e ELSE s[n - 1]
LEMMA InsertedAt ==
  ASSUME NEW A, NEW s \in Seq(A), NEW g \in 0 .. Len(s), NEW e \in A
  PROVE  /\ InsertAt(s, g + 1, e) \in Seq(A) /\ Len(InsertAt(s, g + 1, e)) = Len(s) + 1
         /\ PutIn(InsertAt(s, g + 1, e), s, g, e)
  <1> DEFINE x == SubSeq(s, 1, g)
             y == SubSeq(s, g + 1, Len(s))
             m == Len(s)
  <1>1. m \in Nat /\ g \in Nat /\ g <= m /\ (g + 1) - 1 = g
    OBVIOUS
  <1>2. x \in Seq(A) /\ Len(x) = g /\ \A n \in 1 .. g : x[n] = s[n]
    OBVIOUS
  <1>3. y \in Seq(A) /\ Len(y) = m - g /\ \A n \in 1 .. m - g : y[n] = s[g + n]
    OBVIOUS
  <1>4. InsertAt(s, g + 1, e) = (x \o <<e>>) \o y
    BY <1>1 DEF InsertAt
  <1> HIDE DEF x, y
  <1> DEFINE z == x \o <<e>>
  <1>5. z \in Seq(A) /\ Len(z) = g + 1 /\ \A n \in 1 .. g + 1 : z[n] = IF n <= g THEN s[n] ELSE e
    BY <1>1, <1>2
  <1> HIDE DEF z
  <1> DEFINE w == z \o y
  <1>6. w \in Seq(A) /\ Len(w) = m + 1
    <2>1. w \in Seq(A) /\ Len(w) = Len(z) + Len(y)
      <3>1. z \in Seq(A) /\ y \in Seq(A)
        BY <1>3, <1>5
      <3> QED BY <3>1, ConcatProperties
    <2> HIDE DEF w, m
    <2> QED BY <1>1, <1>3, <1>5, <2>1
  <1>7. ASSUME NEW n \in 1 .. m + 1 PROVE w[n] = IF n <= g THEN s[n] ELSE IF n = g + 1 THEN e ELSE s[n - 1]
    <2>1. CASE n <= g + 1
      <3>1. n \in 1 .. g + 1
        BY <1>1, <2>1
      <3>2. w[n] = z[n]
        BY <1>3, <1>5, <3>1
      <3> QED BY <1>5, <3>1, <3>2
    <2>2. CASE n > g + 1
      <3>1. n - (g + 1) \in 1 .. m - g /\ g + (n - (g + 1)) = n - 1
        BY <1>1, <2>2
      <3>2. w[n] = y[n - Len(z)]
        <4>1. n \in 1 .. Len(z) + Len(y) /\ ~(n <= Len(z))
          BY <1>1, <1>3, <1>5, <2>2
        <4> QED BY <1>3, <1>5, <4>1
      <3>3. y[n - (g + 1)] = s[n - 1]
        BY <1>3, <3>1
      <3>4. ~(n <= g) /\ n # g + 1 /\ Len(z) = g + 1
        BY <1>1, <1>5, <2>2
      <3> HIDE DEF w
      <3> QED BY <3>2, <3>3, <3>4
    <2> HIDE DEF w, m
    <2> QED BY <1>1, <2>1, <2>2
  <1> HIDE DEF w, m
  <1>8. InsertAt(s, g + 1, e) = w
    BY <1>4 DEF z, w
  <1> QED BY <1>6, <1>7, <1>8 DEF m, PutIn

LEMMA SeqMore ==
  ASSUME NEW A, NEW B, A \subseteq B, NEW s \in Seq(A)
  PROVE  s \in Seq(B)
  OBVIOUS

LEMMA ListSeq ==
  ASSUME NEW s, IsList(s), s = [n \in DOMAIN s |-> s[n]]
  PROVE  s \in Seq(ToSet(s)) /\ DOMAIN s = 1 .. Len(s) /\ Len(s) \in Nat
  <1>1. PICK l \in Nat : DOMAIN s = 1 .. l
    BY DEF IsList
  <1>2. \A n \in 1 .. l : s[n] \in ToSet(s)
    BY <1>1 DEF ToSet
  <1>3. s \in [1 .. l -> ToSet(s)]
    BY <1>1, <1>2
  <1> QED BY <1>3

LEMMA KeptSeq ==
  ASSUME NEW seq, IsList(seq), NEW S
  PROVE  /\ Kept(seq, S) \in Seq(ToSet(Kept(seq, S))) /\ IsList(Kept(seq, S))
  <1> DEFINE k == Kept(seq, S)
  <1>1. IsList(k)
    BY KeptDomain
  <1>2. k = [n \in DOMAIN k |-> k[n]]
    BY DEF Kept
  <1> HIDE DEF k
  <1>3. k \in Seq(ToSet(k))
    BY <1>1, <1>2, ListSeq
  <1> QED BY <1>1, <1>3 DEF k

LEMMA SeqList ==
  ASSUME NEW A, NEW s \in Seq(A)
  PROVE  IsList(s) /\ Len(s) \in Nat
  BY DEF IsList

LEMMA OrderedDomain ==
  ASSUME NEW kids, IsList(kids), NEW i, NEW gap \in Nat
  PROVE  IsList(Ordered(kids, i, gap))
  <1> DEFINE others == Kept(kids, ToSet(kids) \ {i})
             g == IF gap < Len(others) THEN gap ELSE Len(others)
             A == ToSet(others) \cup {i}
  <1>1. others \in Seq(ToSet(others))
    BY KeptSeq
  <1>2. Ordered(kids, i, gap) = InsertAt(others, g + 1, i)
    BY DEF Ordered
  <1> HIDE DEF others
  <1>3. others \in Seq(A) /\ Len(others) \in Nat
    BY <1>1, SeqMore
  <1>4. g \in 0 .. Len(others)
    BY <1>3
  <1> HIDE DEF g
  <1>5. i \in A
    OBVIOUS
  <1> HIDE DEF A
  <1>6. InsertAt(others, g + 1, i) \in Seq(A)
    BY <1>3, <1>4, <1>5, InsertedAt
  <1> QED BY <1>2, <1>6, SeqList

------------------------------------------------------------------------------
(* Rows rewritten one after another.                                       *)

Tasks(s, does) == \E T : s \in Seq(T) /\ \A x \in T : Task(x, does)

LEMMA TasksAre ==
  ASSUME NEW does, NEW s, Tasks(s, does)
  PROVE  \A n \in DOMAIN s : Task(s[n], does)
  BY DEF Tasks

LEMMA TasksJoin ==
  ASSUME NEW does, NEW s, NEW t, Tasks(s, does), Tasks(t, does)
  PROVE  Tasks(s \o t, does)
  <1>1. PICK S : s \in Seq(S) /\ \A x \in S : Task(x, does)
    BY DEF Tasks
  <1>2. PICK T : t \in Seq(T) /\ \A x \in T : Task(x, does)
    BY DEF Tasks
  <1>3. s \in Seq(S \cup T) /\ t \in Seq(S \cup T)
    BY <1>1, <1>2, SeqMore
  <1>4. s \o t \in Seq(S \cup T)
    BY <1>3, ConcatProperties
  <1>5. \A x \in S \cup T : Task(x, does)
    BY <1>1, <1>2
  <1> QED BY <1>4, <1>5 DEF Tasks

LEMMA TasksMade ==
  ASSUME NEW does, NEW s, IsList(s), s = [n \in DOMAIN s |-> s[n]], \A n \in DOMAIN s : Task(s[n], does)
  PROVE  Tasks(s, does)
  <1>1. s \in Seq(ToSet(s))
    BY ListSeq
  <1>2. \A x \in ToSet(s) : Task(x, does)
    BY DEF ToSet
  <1> QED BY <1>1, <1>2 DEF Tasks

LEMMA PlaceTask ==
  ASSUME NEW k \in Kinds, NEW i, NEW up, NEW pos
  PROVE  /\ Task(Change(k, i, [up |-> up, pos |-> pos]), "drop")
         /\ Task(Change(k, i, [pos |-> pos]), "drop")
  BY DEF Task, Change

LEMMA GapIsNat ==
  ASSUME NEW tr, Listing(tr), NEW c \in Containers(tr), NEW row \in Int
  PROVE  dropGap(tr, c, row) \in Nat
  <1> DEFINE of(k) == [n \in DOMAIN tr.kids[c][k] |-> [kind |-> k, id |-> tr.kids[c][k][n]]]
             s == of("folder")
             t == of("session")
  <1>1. IsList(tr.kids[c]["folder"]) /\ IsList(tr.kids[c]["session"])
    BY DEF Listing, Kinds
  <1>2. IsList(s) /\ IsList(t)
    BY <1>1 DEF IsList
  <1>3. s = [n \in DOMAIN s |-> s[n]] /\ t = [n \in DOMAIN t |-> t[n]]
    OBVIOUS
  <1>4. children(tr, c) = s \o t
    BY DEF children
  <1> HIDE DEF s, t
  <1>5. s \in Seq(ToSet(s)) /\ t \in Seq(ToSet(t))
    BY <1>2, <1>3, ListSeq
  <1>6. s \in Seq(ToSet(s) \cup ToSet(t)) /\ t \in Seq(ToSet(s) \cup ToSet(t))
    BY <1>5, SeqMore
  <1>7. s \o t \in Seq(ToSet(s) \cup ToSet(t))
    BY <1>6, ConcatProperties
  <1>8. Len(s \o t) \in Nat
    BY <1>7, SeqList
  <1> QED BY <1>4, <1>8 DEF dropGap

LEMMA SubIndexIsNat ==
  ASSUME NEW tr, NEW k, NEW i, NEW c, NEW at \in Nat
  PROVE  SubIndex(tr, k, i, c, at) \in Nat
  <1> DEFINE S == {n \in 1 .. at : children(tr, c)[n].kind = k /\ children(tr, c)[n].id # i}
  <1>1. S \subseteq 1 .. at
    OBVIOUS
  <1> HIDE DEF S
  <1>2. Cardinality(S) \in Nat
    BY <1>1, ListsFinite
  <1> QED BY <1>2 DEF SubIndex, S

LEMMA DropTasks ==
  ASSUME NEW tr, Listing(tr), NEW k \in Kinds, NEW i, NEW c \in Containers(tr), InTree(tr, k, i), NEW at \in Nat
  PROVE  Tasks(dropChanges(tr, k, i, c, at), "drop")
  <1> DEFINE gap == SubIndex(tr, k, i, c, at)
             ordered == Ordered(tr.kids[c][k], i, gap)
             source == HomeOf(tr, k, i)
             kids == tr.kids[source]
             first == [n \in DOMAIN ordered |-> Change(k, ordered[n], [up |-> c, pos |-> n - 1])]
             left(kk) == Kept(kids[kk], ToSet(kids[kk]) \ (IF kk = k THEN {i} ELSE {}))
             again(kk) == [n \in DOMAIN left(kk) |-> Change(kk, left(kk)[n], [pos |-> n - 1])]
  <1>1. source \in Containers(tr)
    BY DEF HomeOf, InTree
  <1>2. IsList(ordered)
    <2>1. gap \in Nat
      BY SubIndexIsNat
    <2>2. IsList(tr.kids[c][k])
      BY DEF Listing
    <2> HIDE DEF gap
    <2> QED BY <2>1, <2>2, OrderedDomain
  <1>3. Tasks(first, "drop")
    <2> HIDE DEF ordered
    <2>1. IsList(first) /\ first = [n \in DOMAIN first |-> first[n]]
      BY <1>2 DEF IsList
    <2>2. \A n \in DOMAIN first : Task(first[n], "drop")
      BY PlaceTask
    <2> HIDE DEF first
    <2> QED BY <2>1, <2>2, TasksMade
  <1>4. ASSUME NEW kk \in Kinds PROVE Tasks(again(kk), "drop")
    <2> DEFINE s == left(kk)
               t == [n \in DOMAIN s |-> Change(kk, s[n], [pos |-> n - 1])]
    <2>1. IsList(s)
      <3>1. IsList(kids[kk])
        BY <1>1 DEF Listing
      <3> HIDE DEF kids
      <3> QED BY <3>1, KeptDomain
    <2>2. again(kk) = t
      OBVIOUS
    <2> HIDE DEF s
    <2>3. IsList(t) /\ t = [n \in DOMAIN t |-> t[n]]
      BY <2>1 DEF IsList
    <2>4. \A n \in DOMAIN t : Task(t[n], "drop")
      BY PlaceTask
    <2> HIDE DEF t
    <2>5. Tasks(t, "drop")
      BY <2>3, <2>4, TasksMade
    <2> QED BY <2>2, <2>5
  <1>5. reorderWithin(kids, k, i) = again("folder") \o again("session")
    BY DEF reorderWithin
  <1>6. dropChanges(tr, k, i, c, at) = first \o (IF source = c THEN <<>> ELSE reorderWithin(kids, k, i))
    BY DEF dropChanges
  <1> HIDE DEF first, again, source, kids
  <1>7. Tasks(again("folder") \o again("session"), "drop")
    BY <1>4, TasksJoin DEF Kinds
  <1>8. Tasks(<<>>, "drop")
    <2> DEFINE E == {}
    <2>1. <<>> \in Seq(E) /\ \A x \in E : Task(x, "drop")
      OBVIOUS
    <2> HIDE DEF E
    <2> QED BY <2>1 DEF Tasks
  <1>9. Tasks(IF source = c THEN <<>> ELSE reorderWithin(kids, k, i), "drop")
    BY <1>5, <1>7, <1>8
  <1> QED BY <1>3, <1>6, <1>9, TasksJoin

LEMMA DropStarts ==
  ASSUME TreeInv, NEW a \in Apps, NEW k \in Kinds, NEW i, NEW c, NEW row \in Int, dropMimeData(a, k, i, c, row)
  PROVE  TreeInv'
  <1> DEFINE at == dropGap(tree[a], c, row)
             todo == dropChanges(tree[a], k, i, c, at)
             d == [kind |-> k, id |-> i, into |-> c, at |-> at]
             mine == IF tree[a] = reload(rows) THEN rows ELSE None
             j == Rewrite("drop", todo, d, mine)
  <1>1. /\ job' = [job EXCEPT ![a] = j] /\ UNCHANGED <<rows, last, tree, filtering, dialog, seen>>
        /\ canDropMimeData(tree[a], k, i, c)
    BY DEF dropMimeData
  <1>2. Listing(tree[a]) /\ InTree(tree[a], k, i) /\ c \in Containers(tree[a])
    BY <1>1 DEF TreeInv, Lists, canDropMimeData
  <1>3. at \in Nat
    BY <1>2, GapIsNat
  <1> HIDE DEF at
  <1>4. Tasks(todo, "drop")
    BY <1>2, <1>3, DropTasks
  <1> HIDE DEF todo, d, mine
  <1>5. \A n \in DOMAIN todo : Task(todo[n], "drop")
    BY <1>4, TasksAre
  <1>6. Writer(j) /\ j.copy = None
    BY <1>5, RewriteIs
  <1> HIDE DEF j
  <1>7. TreesFollow /\ DOMAIN filtering' = DOMAIN filtering
    BY <1>1 DEF TreesFollow
  <1> QED BY <1>1, <1>6, <1>7, Starts

(* A window that goes on with the rows it rewrites.                         *)
WriterStep(a, j) ==
  /\ job' = [job EXCEPT ![a] = j] /\ Writer(j)

LEMMA MissedIs ==
  ASSUME NEW j, Writer(j)
  PROVE  Writer(Missed(j)) /\ Missed(j).copy = None
  BY DEF Writer, Missed, Writing, WriterFields

LEMMA TaskShifted ==
  ASSUME NEW c, NEW does, Task(c, does), NEW v
  PROVE  Task([c EXCEPT !.set = [c.set EXCEPT !.pos = v]], does)
  BY DEF Task

LEMMA TodoIs ==
  ASSUME NEW j, Writer(j), NEW todo, \A n \in DOMAIN todo : Task(todo[n], j.does)
  PROVE  Writer([j EXCEPT !.todo = todo]) /\ [j EXCEPT !.todo = todo].copy = j.copy
  BY DEF Writer, Writing, WriterFields

LEMMA WriterHere ==
  ASSUME TreeInv, NEW a \in Apps, Rewrites(a)
  PROVE  Writer(job[a]) /\ (job[a].n \in DOMAIN job[a].todo => Task(Now(a), job[a].does))
  <1>1. JobShape(job[a])
    BY DEF TreeInv, Jobs
  <1>2. Writer(job[a])
    BY <1>1 DEF JobShape, NoJob, Importer, Rewrites
  <1> QED BY <1>2 DEF Writer, Now

LEMMA RowGone ==
  ASSUME TreeInv, NEW a \in Apps, rowGone(a)
  PROVE  TreeInv'
  <1> DEFINE j == job[a]
             after(m) == Reorders(Now(a)) /\ Reorders(j.todo[m]) /\ j.todo[m].kind = Now(a).kind /\ m > j.n
             todo == [m \in DOMAIN j.todo |->
                        IF after(m) THEN [j.todo[m] EXCEPT !.set.pos = @ - 1] ELSE j.todo[m]]
             q == [Missed(j) EXCEPT !.todo = todo]
  <1>1. /\ job' = [job EXCEPT ![a] = q] /\ UNCHANGED <<rows, last, tree, filtering, dialog, seen>>
        /\ Rewrites(a)
    BY DEF rowGone
  <1>2. Writer(j)
    BY <1>1, WriterHere
  <1>3. Writer(Missed(j)) /\ Missed(j).copy = None /\ Missed(j).does = j.does
    BY <1>2, MissedIs DEF Missed, Writer, WriterFields
  <1>4. ASSUME NEW m \in DOMAIN todo PROVE Task(todo[m], j.does)
    <2>1. Task(j.todo[m], j.does)
      BY <1>2 DEF Writer
    <2>2. todo[m] = j.todo[m] \/ \E v : todo[m] = [j.todo[m] EXCEPT !.set = [j.todo[m].set EXCEPT !.pos = v]]
      <3> HIDE DEF after, j
      <3> QED OBVIOUS
    <2> HIDE DEF todo, j
    <2> QED BY <2>1, <2>2, TaskShifted
  <1> HIDE DEF todo
  <1>5. Writer(q) /\ q.copy = None
    BY <1>3, <1>4, TodoIs
  <1> HIDE DEF q
  <1>6. TreesFollow /\ DOMAIN filtering' = DOMAIN filtering
    BY <1>1 DEF TreesFollow
  <1> QED BY <1>1, <1>5, <1>6, Starts

LEMMA RowFails ==
  ASSUME TreeInv, NEW a \in Apps, rowFails(a)
  PROVE  TreeInv'
  <1>1. /\ job' = [job EXCEPT ![a] = Missed(job[a])] /\ UNCHANGED <<rows, last, tree, filtering, dialog, seen>>
        /\ Rewrites(a)
    BY DEF rowFails
  <1>2. Writer(Missed(job[a])) /\ Missed(job[a]).copy = None
    BY <1>1, WriterHere, MissedIs
  <1>3. TreesFollow /\ DOMAIN filtering' = DOMAIN filtering
    BY <1>1 DEF TreesFollow
  <1> QED BY <1>1, <1>2, <1>3, Starts

(* A row as it is read fits what is said of it.                             *)
LEMMA RowsFit ==
  ASSUME TreeInv, NEW k \in Kinds, NEW i \in DOMAIN rows[k], NEW row,
         row = IF k = "folder" THEN getFolder(i) ELSE getSession(i)
  PROVE  Fits(k, i, row)
  <1>1. CASE k = "folder"
    <2>1. Opened(rows.folder, last.folder, seen.open, seen.raced.folder) /\ i \in DOMAIN rows.folder
      BY <1>1 DEF TreeInv, Expanded
    <2>2. row = getFolder(i)
      BY <1>1
    <2>3. DOMAIN row = kFolderCols /\ row.open = rows.folder[i].open
      BY <2>2 DEF getFolder, readFolder, kFolderCols
    <2> QED BY <1>1, <2>1, <2>3 DEF Opened, Fits
  <1>2. CASE k = "session"
    <2>1. Tally(rows.session, last.session, seen.connects, seen.own, seen.raced.session)
          /\ i \in DOMAIN rows.session
      BY <1>2 DEF TreeInv, Sessions
    <2>2. row = getSession(i)
      BY <1>2
    <2>3. DOMAIN row = Columns /\ row.own = rows.session[i].own
      BY <2>2 DEF getSession, readSession, Columns, kSchema, kAddedColumns
    <2> QED BY <1>2, <2>1, <2>3 DEF Tally, Fits
  <1> QED BY <1>1, <1>2 DEF Kinds

LEMMA CopyTaken ==
  ASSUME NEW j, Writer(j), NEW row, NEW m
  PROVE  /\ Writer(Took(j, row, m)) /\ Took(j, row, m).copy = row /\ Took(j, row, m).n = j.n
         /\ Took(j, row, m).todo = j.todo /\ Took(j, row, m).does = j.does
  BY DEF Writer, Writing, WriterFields, Took
LEMMA RowPassed ==
  ASSUME NEW j, Writer(j), NEW m
  PROVE  Writer(Passed(j, m)) /\ Passed(j, m).copy = None
  BY DEF Writer, Writing, WriterFields, Passed

LEMMA GetRow ==
  ASSUME TreeInv, NEW a \in Apps, getRow(a)
  PROVE  TreeInv'
  <1> DEFINE j == job[a]
             c == Now(a)
             row == IF c.kind = "folder" THEN getFolder(c.id) ELSE getSession(c.id)
             m == Alone(a, row)
             p == Passed(j, m)
             q == Took(j, row, m)
  <1>1. /\ Rewrites(a) /\ j.n \in DOMAIN j.todo /\ j.copy = None /\ c.id \in DOMAIN rows[c.kind]
        /\ UNCHANGED <<rows, last, tree, filtering, dialog, seen>>
    BY DEF getRow
  <1>2. OthersAlone(a) /\ (job'[a] = p \/ job'[a] = q)
    <2>1. job' = [job EXCEPT ![a] = IF Reorders(c) /\ row.pos = c.set.pos THEN p ELSE q]
      BY DEF getRow
    <2>2. DOMAIN job = Apps
      BY ShapeFacts DEF Facts
    <2> HIDE DEF p, q, c, row
    <2> QED BY <2>1, <2>2 DEF OthersAlone
  <1>3. Writer(j) /\ Task(c, j.does)
    BY <1>1, WriterHere
  <1>4. TreesFollow /\ DOMAIN filtering' = DOMAIN filtering
    BY <1>1 DEF TreesFollow
  <1>5. Fits(c.kind, c.id, row)
    <2>1. c.kind \in Kinds
      BY <1>3 DEF Task
    <2> HIDE DEF c
    <2> QED BY <1>1, <2>1, RowsFit
  <1> HIDE DEF row, m
  <1>6. CASE job'[a] = p
    <2>1. Writer(p) /\ p.copy = None
      <3> HIDE DEF j
      <3> QED BY <1>1, <1>3, RowPassed
    <2> HIDE DEF p
    <2> QED BY <1>1, <1>2, <1>4, <1>6, <2>1, GoesOn
  <1>7. CASE job'[a] = q
    <2>1. Writer(q) /\ q.copy = row /\ q.n = j.n /\ q.todo = j.todo /\ q.does = j.does
      <3> HIDE DEF j
      <3> QED BY <1>3, CopyTaken
    <2> HIDE DEF q
    <2>2. OthersAlone(a) /\ job'[a] = q
      BY <1>2, <1>7
    <2>3. Fields /\ FoldersAlone /\ SessionsAlone /\ Stand
      BY <1>1, Same
    <2>4. JobShape(job'[a])
      BY <2>1, <2>2 DEF JobShape
    <2>5. HandAfter(a)
      <3>1. ASSUME NEW k, NEW i, NEW r, InHand(q, k, i, r) PROVE k = c.kind /\ i = c.id /\ r = row
        BY <2>1, <3>1 DEF InHand, Writer, Writing, Now
      <3>2. ASSUME NEW k, NEW i, NEW r, InHand(q, k, i, r) PROVE Fits(k, i, r)'
        <4>1. k = c.kind /\ i = c.id /\ r = row
          BY <3>1, <3>2
        <4> HIDE DEF c
        <4>2. Fits(k, i, r)
          BY <1>5, <4>1
        <4>3. Stays(k, i)
          BY <2>3, <4>2 DEF Stand, Fits
        <4> QED BY <2>3, <4>2, <4>3, FitsOn DEF Stand
      <3> QED BY <2>2, <3>2 DEF HandAfter
    <2>6. OthersStand(a)
      BY <2>3, StandOthers
    <2>7. Jobs'
      BY <2>2, <2>3, <2>4, <2>5, <2>6, JobsStep
    <2>8. CopiesStay
      BY <1>1, CopiesEnd
    <2> QED BY <1>4, <2>3, <2>7, <2>8, TreeStep
  <1> QED BY <1>2, <1>6, <1>7

LEMMA Freed ==
  ASSUME TreeInv, NEW a \in Apps, job' = [job EXCEPT ![a] = NoJob],
         UNCHANGED <<rows, last, tree, filtering, dialog, seen>>
  PROVE  TreeInv'
  <1>1. TreesFollow /\ DOMAIN filtering' = DOMAIN filtering
    BY DEF TreesFollow
  <1>2. UNCHANGED <<rows, last, seen, dialog>>
    OBVIOUS
  <1> QED BY <1>1, <1>2, Starts

LEMMA LoadedAgain ==
  ASSUME TreeInv, NEW a \in Apps, Reload(a), UNCHANGED <<rows, last, filtering, dialog, seen>>
  PROVE  TreeInv'
  <1>1. DOMAIN filtering' = DOMAIN filtering /\ UNCHANGED <<rows, last, seen>>
    OBVIOUS
  <1>2. Fields /\ FoldersAlone /\ SessionsAlone /\ Stand
    BY <1>1, Same
  <1>3. CopiesStay
    BY CopiesEnd
  <1> QED BY <1>2, <1>3, Loaded

LEMMA ReturnsStep ==
  ASSUME TreeInv, NEW a \in Apps, Returns(a)
  PROVE  TreeInv'
  <1>1. UNCHANGED <<rows, last, filtering, dialog, seen>>
    BY DEF Returns
  <1>2. Reload(a) \/ (job' = [job EXCEPT ![a] = NoJob] /\ UNCHANGED tree)
    BY DEF Returns
  <1>3. CASE Reload(a)
    BY <1>1, <1>3, LoadedAgain
  <1>4. CASE job' = [job EXCEPT ![a] = NoJob] /\ UNCHANGED tree
    <2>1. UNCHANGED <<rows, last, tree, filtering, dialog, seen>> /\ job' = [job EXCEPT ![a] = NoJob]
      BY <1>1, <1>4
    <2> QED BY <2>1, Freed
  <1> QED BY <1>2, <1>3, <1>4

(* A row written over another; only what is said of it may change.          *)
LEMMA OpenedUpdated ==
  ASSUME NEW t, NEW l, NEW open, NEW R, Opened(t, l, open, R), NEW i, NEW row,
         DOMAIN row = kFolderCols, row.open \in BOOLEAN, NEW fs, NEW Q,
         \A f \in DOMAIN t : f # i => (f \notin Q => f \notin R) /\ (f \in fs <=> f \in open),
         i \in DOMAIN t /\ i \notin Q => (row.open <=> i \in fs)
  PROVE  Opened(Updated(t, i, row), l, fs, Q) /\ DOMAIN Updated(t, i, row) = DOMAIN t
  <1> DEFINE u == Updated(t, i, row)
  <1>1. /\ DOMAIN u = DOMAIN t /\ (i \in DOMAIN t => u[i] = row)
        /\ \A f \in DOMAIN t : f # i => u[f] = t[f]
    BY DEF Updated
  <1> HIDE DEF u
  <1>2. ASSUME NEW f \in DOMAIN u
        PROVE  /\ f \in 1 .. l /\ DOMAIN u[f] = kFolderCols
               /\ u[f].open \in BOOLEAN /\ (f \notin Q => (u[f].open <=> f \in fs))
    <2>1. /\ f \in 1 .. l /\ DOMAIN t[f] = kFolderCols /\ t[f].open \in BOOLEAN
          /\ (f \notin R => (t[f].open <=> f \in open))
      BY <1>1 DEF Opened
    <2>2. CASE f = i
      BY <1>1, <2>1, <2>2
    <2>3. CASE f # i
      BY <1>1, <2>1, <2>3
    <2> QED BY <2>2, <2>3
  <1>3. l \in Nat
    BY DEF Opened
  <1>4. Opened(u, l, fs, Q)
    BY <1>2, <1>3 DEF Opened
  <1> QED BY <1>1, <1>4 DEF u

LEMMA TallyUpdated ==
  ASSUME NEW t, NEW l, NEW c, NEW o, NEW R, Tally(t, l, c, o, R), NEW s, NEW row,
         DOMAIN row = Columns, s \in DOMAIN t /\ s \notin R => row.own = o[s]
  PROVE  Tally(updateSession(t, s, row), l, c, o, R) /\ DOMAIN updateSession(t, s, row) = DOMAIN t
  <1> DEFINE u == updateSession(t, s, row)
             new == [row EXCEPT !.count = t[s].count]
  <1>1. DOMAIN new = Columns /\ new.count = t[s].count /\ new.own = row.own
    BY DEF Columns, kSchema, kAddedColumns
  <1>2. /\ DOMAIN u = DOMAIN t /\ (s \in DOMAIN t => u[s] = new)
        /\ \A i \in DOMAIN t : i # s => u[i] = t[i]
    BY DEF updateSession, Updated, bindWritable
  <1> HIDE DEF u, new
  <1>3. ASSUME NEW i \in DOMAIN u
        PROVE  /\ i \in 1 .. l /\ DOMAIN u[i] = Columns
               /\ u[i].count = c[i] /\ (i \notin R => u[i].own = o[i])
    <2>1. /\ i \in 1 .. l /\ DOMAIN t[i] = Columns /\ t[i].count = c[i]
          /\ (i \notin R => t[i].own = o[i])
      BY <1>2 DEF Tally
    <2>2. CASE i = s
      BY <1>1, <1>2, <2>1, <2>2
    <2>3. CASE i # s
      BY <1>2, <2>1, <2>3
    <2> QED BY <2>2, <2>3
  <1>4. Tally(u, l, c, o, R)
    BY <1>2, <1>3 DEF Tally
  <1> QED BY <1>2, <1>4 DEF u

LEMMA ChangedIs ==
  ASSUME NEW row, NEW set
  PROVE  /\ DOMAIN Changed(row, set) = DOMAIN row
         /\ \A c \in DOMAIN row : Changed(row, set)[c] = IF c \in DOMAIN set THEN set[c] ELSE row[c]
  BY DEF Changed

LEMMA PassedIs ==
  ASSUME NEW j, Writer(j), NEW m
  PROVE  Writer(Passed(j, m)) /\ Passed(j, m).copy = None
  BY DEF Writer, Writing, WriterFields, Passed

LEMMA UpdateRow ==
  ASSUME TreeInv, NEW a \in Apps, updateRow(a)
  PROVE  TreeInv'
  <1> DEFINE j == job[a]
             c == Now(a)
             k == c.kind
             i == c.id
             row == Changed(j.copy, c.set)
             m == IF j.mine = None THEN None ELSE Stored(j.mine, c, row)
             A == seen.crossed \/ Crosses(a, c, j.copy)
             R == seen.raced.folder
             Q == IF j.does = "open" THEN Raced(a, "folder", i) ELSE R
             O == seen.open
             P == IF j.does # "open" THEN O
                  ELSE IF c.set.open THEN O \cup ({i} \cap DOMAIN rows.folder) ELSE O \ {i}
  <1>1. /\ Rewrites(a) /\ j.n \in DOMAIN j.todo /\ j.copy # None
        /\ rows' = Stored(rows, c, row) /\ job' = [job EXCEPT ![a] = Passed(j, m)]
        /\ UNCHANGED <<last, tree, filtering, dialog>>
    BY DEF updateRow
  <1>2. seen' = [seen EXCEPT !.crossed = A, !.raced.folder = Q, !.open = P]
    BY DEF updateRow
  <1>3. Writer(j) /\ Task(c, j.does)
    BY <1>1, WriterHere
  <1>4. Writer(Passed(j, m)) /\ Passed(j, m).copy = None
    <2> HIDE DEF m, j
    <2> QED BY <1>3, PassedIs
  <1>5. Fits(k, i, j.copy)
    <2>1. InHand(j, k, i, j.copy)
      BY <1>1, <1>3 DEF InHand, Writer, Now
    <2>2. Hand(j)
      BY DEF TreeInv, Jobs
    <2> HIDE DEF j, c
    <2> QED BY <2>1, <2>2 DEF Hand
  <1>6. /\ DOMAIN row = DOMAIN j.copy
        /\ \A x \in DOMAIN j.copy : row[x] = IF x \in DOMAIN c.set THEN c.set[x] ELSE j.copy[x]
    BY ChangedIs
  <1>7. OthersAlone(a) /\ job'[a] = Passed(j, m)
    BY <1>1, JobSet
  <1> HIDE DEF row, m, A
  <1>8. TreesFollow /\ CopiesStay
    BY <1>1, CopiesEnd DEF TreesFollow
  <1>9. ASSUME Fields, OthersStand(a), FoldersAlone \/ Sessions', SessionsAlone \/ Expanded'
        PROVE  TreeInv'
    <2>1. Jobs'
      <3> HIDE DEF j
      <3> QED BY <1>4, <1>7, <1>9, JobEmptied
    <2> QED BY <1>8, <1>9, <2>1, TreeStep
  <1>10. CASE k = "session"
    <2> DEFINE t == rows.session
               u == updateSession(t, i, row)
               S == seen.raced.session
    <2>1. j.does # "open" /\ "own" \notin DOMAIN c.set
      BY <1>3, <1>10 DEF Task
    <2>2. rows' = [rows EXCEPT !.session = u]
      BY <1>1, <1>10 DEF Stored
    <2>3. Tally(t, last.session, seen.connects, seen.own, S)
      BY DEF TreeInv, Sessions
    <2>4. DOMAIN row = Columns /\ (i \in DOMAIN t /\ i \notin S => row.own = seen.own[i])
      <3>1. DOMAIN j.copy = Columns /\ (i \in DOMAIN t /\ i \notin S => j.copy.own = seen.own[i])
        BY <1>5, <1>10 DEF Fits
      <3>2. "own" \in Columns
        BY DEF Columns, kAddedColumns
      <3> HIDE DEF t, S, j, i, c
      <3> QED BY <1>6, <2>1, <3>1, <3>2
    <2>5. Tally(u, last.session, seen.connects, seen.own, S) /\ DOMAIN u = DOMAIN t
      <3> HIDE DEF t, S, i
      <3> QED BY <2>3, <2>4, TallyUpdated
    <2>6. Q = R /\ P = O
      BY <2>1
    <2> HIDE DEF u, Q, P, R, O, j, c
    <2>7. /\ DOMAIN seen' = DOMAIN seen /\ DOMAIN seen'.raced = DOMAIN seen.raced
          /\ seen'.own = seen.own /\ seen'.connects = seen.connects
          /\ seen'.open = O /\ seen'.raced.folder = R /\ seen'.raced.session = S
      BY <1>2, <2>6, ShapeFacts DEF Facts
    <2>8. rows'.session = u /\ rows'.folder = rows.folder /\ DOMAIN rows' = DOMAIN rows
      BY <2>2, ShapeFacts DEF Facts
    <2>9. Fields /\ SessionsAlone
      BY <1>1, <2>7, <2>8, ShapeFacts DEF Facts, Fields, SessionsAlone, Kinds, R, O
    <2>10. Sessions'
      BY <1>1, <2>5, <2>7, <2>8 DEF Sessions
    <2>11. OthersStand(a)
      <3>1. SessionsStand
        BY <2>5, <2>7, <2>8 DEF SessionsStand, Stays
      <3>2. last.session <= last'.session
        BY <1>1, ShapeFacts DEF Facts
      <3> QED BY <2>9, <3>1, <3>2, StandParts, StandOthers
    <2> QED BY <1>9, <2>9, <2>10, <2>11
  <1>11. CASE k = "folder"
    <2> DEFINE t == rows.folder
               u == Updated(t, i, row)
    <2>2. rows' = [rows EXCEPT !.folder = u]
      BY <1>1, <1>11 DEF Stored
    <2>3. Opened(t, last.folder, O, R)
      BY DEF TreeInv, Expanded
    <2>4. /\ DOMAIN j.copy = kFolderCols /\ j.copy.open \in BOOLEAN
          /\ (i \in DOMAIN t /\ i \notin R => (j.copy.open <=> i \in O))
      BY <1>5, <1>11 DEF Fits
    <2>5. "open" \in kFolderCols
      BY DEF kFolderCols
    <2>6. /\ \A f : f # i => (f \notin Q => f \notin R) /\ (f \in P <=> f \in O)
          /\ j.does # "open" => Q = R /\ P = O
          /\ j.does = "open" => /\ i \in DOMAIN t => (i \in P <=> c.set.open)
                                /\ (\E b \in Apps \ {a} : Holds(b, "folder", i)) => i \in Q
      BY RacedIs
    <2>7. DOMAIN row = kFolderCols /\ row.open \in BOOLEAN
      <3>1. "open" \in DOMAIN c.set => c.set.open \in BOOLEAN
        BY <1>3 DEF Task
      <3> HIDE DEF j, c
      <3> QED BY <1>6, <2>4, <2>5, <3>1
    <2>8. i \in DOMAIN t /\ i \notin Q => (row.open <=> i \in P)
      <3>1. CASE j.does = "open"
        <4>1. "open" \in DOMAIN c.set
          BY <1>3, <3>1 DEF Task
        <4>2. row.open = c.set.open
          <5> HIDE DEF j, c
          <5> QED BY <1>6, <2>4, <2>5, <4>1
        <4> HIDE DEF t, i, j, c, P, Q
        <4> QED BY <2>6, <3>1, <4>2
      <3>2. CASE j.does # "open"
        <4>1. "open" \notin DOMAIN c.set
          BY <1>3, <3>2 DEF Task
        <4>2. row.open = j.copy.open
          <5> HIDE DEF j, c
          <5> QED BY <1>6, <2>4, <2>5, <4>1
        <4> HIDE DEF t, i, j, c, P, Q, R, O
        <4> QED BY <2>4, <2>6, <3>2, <4>2
      <3> QED BY <3>1, <3>2
    <2>9. Opened(u, last.folder, P, Q) /\ DOMAIN u = DOMAIN t
      <3> HIDE DEF t, i, P, Q, R, O
      <3> QED BY <2>3, <2>6, <2>7, <2>8, OpenedUpdated
    <2> HIDE DEF u, Q, P, R, O, j
    <2>10. /\ DOMAIN seen' = DOMAIN seen /\ DOMAIN seen'.raced = DOMAIN seen.raced
           /\ seen'.own = seen.own /\ seen'.connects = seen.connects
           /\ seen'.open = P /\ seen'.raced.folder = Q /\ seen'.raced.session = seen.raced.session
      BY <1>2, ShapeFacts DEF Facts
    <2>11. rows'.folder = u /\ rows'.session = rows.session /\ DOMAIN rows' = DOMAIN rows
      BY <2>2, ShapeFacts DEF Facts
    <2>12. Fields /\ FoldersAlone
      BY <1>1, <2>10, <2>11, ShapeFacts DEF Facts, Fields, FoldersAlone, Kinds
    <2>13. Expanded'
      BY <1>1, <2>9, <2>10, <2>11 DEF Expanded
    <2>14. OthersStand(a)
      <3>1. Later
        BY <1>1, ShapeFacts DEF Facts, Later, Kinds
      <3>2. ASSUME NEW s \in 1 .. last.session PROVE Stays("session", s)
        BY <2>12 DEF FoldersAlone, Stays
      <3> HIDE DEF c
      <3>3. ASSUME NEW f \in 1 .. last.folder, f # i PROVE Stays("folder", f)
        BY <2>6, <2>9, <2>10, <2>11, <3>3 DEF Stays, R, O
      <3>4. Stays("folder", i) \/ \A b \in Apps \ {a} : ~Holds(b, "folder", i)
        <4>1. CASE j.does = "open"
          BY <2>6, <2>10, <4>1 DEF Stays
        <4>2. CASE j.does # "open"
          BY <2>6, <2>9, <2>10, <2>11, <4>2 DEF Stays, R, O
        <4> QED BY <4>1, <4>2
      <3> HIDE DEF i
      <3> QED BY <3>1, <3>2, <3>3, <3>4 DEF OthersStand, Kinds
    <2> QED BY <1>9, <2>12, <2>13, <2>14
  <1> QED BY <1>3, <1>10, <1>11 DEF Task, Kinds

------------------------------------------------------------------------------
(* The import.                                                             *)

LEMMA ImporterHere ==
  ASSUME TreeInv, NEW a \in Apps, job[a].does = "import"
  PROVE  Importer(job[a]) /\ Hand(job[a])
  BY DEF TreeInv, Jobs, JobShape, NoJob, Writer, Writing

(* An import goes on.                                                      *)
LEMMA ImportStep ==
  ASSUME TreeInv, NEW a \in Apps, OthersAlone(a), Importer(job'[a]), HandAfter(a), Fields, Stand,
         UNCHANGED <<tree, dialog>>, FoldersAlone \/ Sessions', SessionsAlone \/ Expanded'
  PROVE  TreeInv'
  <1>1. OthersStand(a)
    BY StandOthers
  <1>2. JobShape(job'[a])
    BY DEF JobShape
  <1>3. Jobs'
    BY <1>1, <1>2, JobsStep
  <1>4. CopiesStay /\ TreesFollow
    BY CopiesEnd DEF TreesFollow
  <1> QED BY <1>3, <1>4, TreeStep

LEMMA HandFewer ==
  ASSUME NEW j, NEW q, Importer(j), Importer(q), q.byHost = j.byHost, q.merge = j.merge,
         \/ q.todo = j.todo /\ (q.n = j.n \/ q.n = j.n + 1)
         \/ DOMAIN q.todo = {},
         NEW k, NEW i, NEW row, InHand(q, k, i, row)
  PROVE  InHand(j, k, i, row)
  <1>1. ~Writing(q) /\ j.n \in Nat
    BY DEF Importer, Writing
  <1>2. k = "session" /\ q.merge
    BY <1>1 DEF InHand
  <1>3. PICK m \in DOMAIN q.todo \ (1 .. q.n - 1) :
          LET h == q.todo[m].host IN h \in DOMAIN q.byHost /\ q.byHost[h].id = i /\ row = q.byHost[h].row
    BY <1>1 DEF InHand
  <1>4. q.todo = j.todo /\ m \in DOMAIN j.todo \ (1 .. j.n - 1)
    BY <1>1, <1>3
  <1> QED BY <1>2, <1>3, <1>4 DEF InHand, Importer

LEMMA HandStays ==
  ASSUME TreeInv, Fields, Stand, NEW j, Hand(j), NEW q,
         \A k, i, row : InHand(q, k, i, row) => InHand(j, k, i, row)
  PROVE  \A k, i, row : InHand(q, k, i, row) => Fits(k, i, row)'
  <1>1. ASSUME NEW k, NEW i, NEW row, InHand(q, k, i, row) PROVE Fits(k, i, row)'
    <2>1. Fits(k, i, row)
      BY <1>1 DEF Hand
    <2>2. Stays(k, i) /\ Later
      BY <2>1 DEF Stand, Fits
    <2> QED BY <2>1, <2>2, FitsOn
  <1> QED BY <1>1

LEMMA HandLess ==
  ASSUME TreeInv, Fields, Stand, NEW a \in Apps, job[a].does = "import", Importer(job'[a]),
         job'[a].byHost = job[a].byHost, job'[a].merge = job[a].merge,
         \/ job'[a].todo = job[a].todo /\ (job'[a].n = job[a].n \/ job'[a].n = job[a].n + 1)
         \/ DOMAIN job'[a].todo = {}
  PROVE  HandAfter(a)
  <1> DEFINE j == job[a]
             q == job'[a]
  <1>1. Importer(j) /\ Hand(j)
    BY ImporterHere
  <1> HIDE DEF j, q
  <1>2. \A k, i, row : InHand(q, k, i, row) => InHand(j, k, i, row)
    BY <1>1, HandFewer DEF j, q
  <1>3. \A k, i, row : InHand(q, k, i, row) => Fits(k, i, row)'
    BY <1>1, <1>2, HandStays
  <1> QED BY <1>3 DEF HandAfter, q

(* Each copy an import begins with is of a row that is there.               *)
LEMMA ByHostIs ==
  ASSUME NEW t, NEW h \in DOMAIN ByHost(t)
  PROVE  \E s \in DOMAIN t : ByHost(t)[h] = [id |-> s, row |-> readSession(t[s])]
  <1> DEFINE ends == {s \in DOMAIN t : \A o \in DOMAIN t \ {s} : t[o].host = t[s].host => NameBefore(t, o, s)}
             at(x) == CHOOSE s \in ends : t[s].host = x
  <1>1. h \in {t[s].host : s \in ends} /\ ByHost(t)[h] = [id |-> at(h), row |-> readSession(t[at(h)])]
    BY DEF ByHost
  <1>2. \E s \in ends : t[s].host = h
    BY <1>1
  <1>3. at(h) \in ends
    BY <1>2
  <1>4. at(h) \in DOMAIN t
    BY <1>3
  <1> HIDE DEF at
  <1> QED BY <1>1, <1>4

LEMMA ApplyImport ==
  ASSUME TreeInv, NEW a \in Apps, NEW doc, NEW merge, applyImport(a, doc, merge)
  PROVE  TreeInv'
  <1> DEFINE b == ByHost(rows.session)
             phase == Phase(doc, 1)
             q == [does |-> "import", todo |-> doc, n |-> 1, phase |-> phase,
                   into |-> Root, byHost |-> b, merge |-> merge, wrote |-> FALSE]
  <1>1. job' = [job EXCEPT ![a] = q] /\ UNCHANGED <<rows, last, tree, filtering, dialog, seen>>
    BY DEF applyImport
  <1>2. \A h \in DOMAIN b : \E s \in DOMAIN rows.session : b[h].id = s /\ b[h].row = getSession(s)
    BY ByHostIs DEF getSession
  <1> HIDE DEF b, phase
  <1>3. Importer(q) /\ q.byHost = b
    BY DEF Importer, ImporterFields
  <1> HIDE DEF q
  <1>4. OthersAlone(a) /\ job'[a] = q
    BY <1>1, JobSet
  <1>5. DOMAIN filtering' = DOMAIN filtering
    BY <1>1
  <1>6. Fields /\ FoldersAlone /\ SessionsAlone /\ Stand
    BY <1>1, <1>5, Same
  <1>7. ASSUME NEW k, NEW i, NEW row, InHand(q, k, i, row) PROVE Fits(k, i, row)'
    <2>1. k = "session" /\ \E h \in DOMAIN b : b[h].id = i /\ row = b[h].row
      BY <1>3, <1>7 DEF InHand, Importer, Writing
    <2>2. k \in Kinds /\ i \in DOMAIN rows[k] /\ row = getSession(i)
      BY <1>2, <2>1 DEF Kinds
    <2>3. Fits(k, i, row)
      BY <2>1, <2>2, RowsFit
    <2>4. Stays(k, i) /\ Later
      BY <1>6, <2>3 DEF Stand, Fits
    <2> QED BY <1>6, <2>3, <2>4, FitsOn
  <1>8. HandAfter(a)
    BY <1>4, <1>7 DEF HandAfter
  <1> QED BY <1>1, <1>3, <1>4, <1>6, <1>8, ImportStep

LEMMA FindFolder ==
  ASSUME TreeInv, NEW a \in Apps, findFolder(a)
  PROVE  TreeInv'
  <1>1. /\ Imports(a, "find") /\ UNCHANGED <<rows, last, tree, filtering, dialog, seen>>
        /\ \E phase, into : job' = [job EXCEPT ![a].phase = phase, ![a].into = into]
    BY DEF findFolder
  <1>2. Importer(job[a]) /\ job[a].does = "import"
    BY <1>1, ImporterHere DEF Imports
  <1>3. PICK phase, into : job' = [job EXCEPT ![a].phase = phase, ![a].into = into]
    BY <1>1
  <1>4. OthersAlone(a)
    BY <1>3, ShapeFacts DEF Facts, OthersAlone
  <1>5. /\ Importer(job'[a]) /\ job'[a].byHost = job[a].byHost /\ job'[a].merge = job[a].merge
        /\ job'[a].todo = job[a].todo /\ job'[a].n = job[a].n
    <2>1. job'[a] = [job[a] EXCEPT !.phase = phase, !.into = into]
      BY <1>3, ShapeFacts DEF Facts
    <2> QED BY <1>2, <2>1 DEF Importer, ImporterFields
  <1>6. Fields /\ FoldersAlone /\ SessionsAlone /\ Stand
    <2>1. DOMAIN filtering' = DOMAIN filtering
      BY <1>1
    <2> QED BY <1>1, <2>1, Same
  <1>7. HandAfter(a)
    BY <1>2, <1>5, <1>6, HandLess
  <1> QED BY <1>1, <1>4, <1>5, <1>6, <1>7, ImportStep

LEMMA MakeFolder ==
  ASSUME TreeInv, NEW a \in Apps, makeFolder(a)
  PROVE  TreeInv'
  <1> DEFINE f == last.folder + 1
             name == Now(a).folder
  <1>1. /\ Imports(a, "make") /\ UNCHANGED <<tree, filtering, dialog>>
        /\ rows' = [rows EXCEPT !.folder = Inserted(@, last.folder + 1, NewFolder(Root, name))]
        /\ last' = [last EXCEPT !.folder = last.folder + 1]
        /\ seen' = [seen EXCEPT !.open = @ \cup {last.folder + 1}]
        /\ job' = [job EXCEPT ![a] = [@ EXCEPT !.phase = "write", !.into = f, !.wrote = TRUE]]
    BY DEF makeFolder
  <1>2. Importer(job[a]) /\ job[a].does = "import"
    BY <1>1, ImporterHere DEF Imports
  <1> HIDE DEF f, name
  <1>3. Fields /\ FoldersAlone /\ Expanded' /\ FoldersStand /\ last.folder <= last'.folder
    BY <1>1, FolderMade
  <1>4. OthersAlone(a)
    BY <1>1, ShapeFacts DEF Facts, OthersAlone
  <1>5. /\ Importer(job'[a]) /\ job'[a].byHost = job[a].byHost /\ job'[a].merge = job[a].merge
        /\ job'[a].todo = job[a].todo /\ job'[a].n = job[a].n
    <2>1. job'[a] = [job[a] EXCEPT !.phase = "write", !.into = f, !.wrote = TRUE]
      BY <1>1, ShapeFacts DEF Facts
    <2> QED BY <1>2, <2>1 DEF Importer, ImporterFields
  <1>6. Stand
    BY <1>3, StandParts
  <1>7. HandAfter(a)
    BY <1>2, <1>3, <1>5, <1>6, HandLess
  <1> QED BY <1>1, <1>3, <1>4, <1>5, <1>6, <1>7, ImportStep

LEMMA ImportedIs ==
  ASSUME NEW j, Importer(j), NEW entry
  PROVE  /\ Importer(Imported(j, entry)) /\ Imported(j, entry).n = j.n + 1
         /\ Imported(j, entry).todo = j.todo /\ Imported(j, entry).merge = j.merge
         /\ Imported(j, entry).byHost = IF entry = None THEN j.byHost ELSE With(j.byHost, j.todo[j.n].host, entry)
  <1> DEFINE w == With(j.byHost, j.todo[j.n].host, entry)
             b == IF entry = None THEN j.byHost ELSE w
             phase == Phase(j.todo, j.n + 1)
             wrote == j.wrote \/ entry # None
  <1>1. Imported(j, entry) = [j EXCEPT !.n = @ + 1, !.phase = phase, !.wrote = wrote, !.byHost = b]
    BY DEF Imported
  <1> HIDE DEF w, b, phase, wrote
  <1>2. /\ Importer(Imported(j, entry)) /\ Imported(j, entry).n = j.n + 1
        /\ Imported(j, entry).todo = j.todo /\ Imported(j, entry).merge = j.merge
        /\ Imported(j, entry).byHost = b
    BY <1>1 DEF Importer, ImporterFields
  <1> QED BY <1>2 DEF b, w

LEMMA SkipDevice ==
  ASSUME TreeInv, NEW a \in Apps, skipDevice(a)
  PROVE  TreeInv'
  <1> DEFINE q == Imported(job[a], None)
  <1>1. /\ Imports(a, "write") /\ UNCHANGED <<rows, last, tree, filtering, dialog, seen>>
        /\ job' = [job EXCEPT ![a] = q]
    BY DEF skipDevice
  <1>2. Importer(job[a]) /\ job[a].does = "import"
    BY <1>1, ImporterHere DEF Imports
  <1>3. /\ Importer(q) /\ q.byHost = job[a].byHost /\ q.merge = job[a].merge
        /\ q.todo = job[a].todo /\ q.n = job[a].n + 1
    BY <1>2, ImportedIs
  <1> HIDE DEF q
  <1>4. OthersAlone(a) /\ job'[a] = q
    BY <1>1, JobSet
  <1>6. Fields /\ FoldersAlone /\ SessionsAlone /\ Stand
    <2>1. DOMAIN filtering' = DOMAIN filtering
      BY <1>1
    <2> QED BY <1>1, <2>1, Same
  <1>7. HandAfter(a)
    BY <1>2, <1>3, <1>4, <1>6, HandLess
  <1> QED BY <1>1, <1>3, <1>4, <1>6, <1>7, ImportStep

LEMMA ImportFails ==
  ASSUME TreeInv, NEW a \in Apps, importFails(a)
  PROVE  TreeInv'
  <1> DEFINE todo == <<>>
  <1>1. /\ job[a].does = "import" /\ UNCHANGED <<rows, last, tree, filtering, dialog, seen>>
        /\ job' = [job EXCEPT ![a].todo = todo]
    BY DEF importFails, Imports
  <1>0. DOMAIN todo = {}
    OBVIOUS
  <1>2. Importer(job[a]) /\ job[a].does = "import"
    BY <1>1, ImporterHere
  <1> HIDE DEF todo
  <1>3. job'[a] = [job[a] EXCEPT !.todo = todo] /\ OthersAlone(a)
    BY <1>1, ShapeFacts DEF Facts, OthersAlone
  <1>4. /\ Importer(job'[a]) /\ job'[a].byHost = job[a].byHost /\ job'[a].merge = job[a].merge
        /\ job'[a].todo = todo
    BY <1>2, <1>3 DEF Importer, ImporterFields
  <1>6. Fields /\ FoldersAlone /\ SessionsAlone /\ Stand
    <2>1. DOMAIN filtering' = DOMAIN filtering
      BY <1>1
    <2> QED BY <1>1, <2>1, Same
  <1>7. HandAfter(a)
    BY <1>0, <1>2, <1>4, <1>6, HandLess
  <1> QED BY <1>1, <1>3, <1>4, <1>6, <1>7, ImportStep

LEMMA ImportEnds ==
  ASSUME TreeInv, NEW a \in Apps, importEnds(a)
  PROVE  TreeInv'
  <1>1. UNCHANGED <<rows, last, filtering, dialog, seen>>
    BY DEF importEnds
  <1>2. Reload(a) \/ (job' = [job EXCEPT ![a] = NoJob] /\ UNCHANGED tree)
    BY DEF importEnds
  <1>3. CASE Reload(a)
    BY <1>1, <1>3, LoadedAgain
  <1>4. CASE job' = [job EXCEPT ![a] = NoJob] /\ UNCHANGED tree
    <2>1. UNCHANGED <<rows, last, tree, filtering, dialog, seen>> /\ job' = [job EXCEPT ![a] = NoJob]
      BY <1>1, <1>4
    <2> QED BY <2>1, Freed
  <1> QED BY <1>2, <1>3, <1>4

(* The copies after a device is in a row: that of its address is new.       *)
LEMMA HandNext ==
  ASSUME NEW j, NEW q, NEW i, NEW r, Importer(j), Importer(q), q.n = j.n + 1, q.todo = j.todo, q.merge = j.merge,
         q.byHost = With(j.byHost, j.todo[j.n].host, [id |-> i, row |-> r]),
         NEW k, NEW x, NEW row, InHand(q, k, x, row)
  PROVE  InHand(j, k, x, row) \/ (k = "session" /\ x = i /\ row = r)
  <1> DEFINE b == q.byHost
             e == [id |-> i, row |-> r]
  <1>1. ~Writing(q) /\ j.n \in Nat
    BY DEF Importer, Writing
  <1>2. k = "session" /\ q.merge
    BY <1>1 DEF InHand
  <1>3. PICK m \in DOMAIN q.todo \ (1 .. q.n - 1) :
          LET h == q.todo[m].host IN h \in DOMAIN b /\ b[h].id = x /\ row = b[h].row
    BY <1>1 DEF InHand
  <1>4. m \in DOMAIN j.todo \ (1 .. j.n - 1)
    BY <1>1, <1>3
  <1> DEFINE h == j.todo[m].host
  <1>5. e.id = i /\ e.row = r
    OBVIOUS
  <1>6. CASE h = j.todo[j.n].host
    <2>1. b[h] = e
      BY <1>6 DEF With
    <2> HIDE DEF e
    <2> QED BY <1>2, <1>3, <1>5, <2>1
  <1>7. CASE h # j.todo[j.n].host
    <2>1. h \in DOMAIN j.byHost /\ b[h] = j.byHost[h]
      BY <1>3, <1>7 DEF With
    <2>2. j.byHost[h].id = x /\ row = j.byHost[h].row
      BY <1>3, <2>1
    <2> QED BY <1>2, <1>4, <2>1, <2>2 DEF InHand, Importer
  <1> QED BY <1>6, <1>7

LEMMA HandMore ==
  ASSUME TreeInv, Fields, Stand, NEW a \in Apps, NEW j, Importer(j), Hand(j), NEW i, NEW r,
         job'[a] = Imported(j, [id |-> i, row |-> r]), Fits("session", i, r)'
  PROVE  HandAfter(a) /\ Importer(job'[a])
  <1> DEFINE e == [id |-> i, row |-> r]
             q == Imported(j, e)
  <1>1. e # None
    BY DEF None
  <1>2. /\ Importer(q) /\ q.n = j.n + 1 /\ q.todo = j.todo /\ q.merge = j.merge
        /\ q.byHost = With(j.byHost, j.todo[j.n].host, e)
    <2> HIDE DEF e
    <2> QED BY <1>1, ImportedIs
  <1> HIDE DEF q
  <1>3. ASSUME NEW k, NEW x, NEW row, InHand(q, k, x, row) PROVE Fits(k, x, row)'
    <2>1. InHand(j, k, x, row) \/ (k = "session" /\ x = i /\ row = r)
      BY <1>2, <1>3, HandNext
    <2>2. CASE InHand(j, k, x, row)
      <3>1. Fits(k, x, row)
        BY <2>2 DEF Hand
      <3>2. Stays(k, x) /\ Later
        BY <3>1 DEF Stand, Fits
      <3> QED BY <3>1, <3>2, FitsOn
    <2> QED BY <2>1, <2>2
  <1>4. job'[a] = q
    BY DEF q
  <1> QED BY <1>2, <1>3, <1>4 DEF HandAfter

LEMMA MergeDevice ==
  ASSUME TreeInv, NEW a \in Apps, mergeDevice(a)
  PROVE  TreeInv'
  <1> DEFINE j == job[a]
             h == Now(a).host
             old == j.byHost[h]
             i == old.id
             row == Merged(old.row, Now(a), j.into)
             t == rows.session
             u == updateSession(t, i, row)
             R == seen.raced.session
  <1>1. /\ Imports(a, "write") /\ j.merge /\ h \in DOMAIN j.byHost
        /\ rows' = [rows EXCEPT !.session = u]
        /\ job' = [job EXCEPT ![a] = Imported(@, [id |-> i, row |-> row])]
        /\ UNCHANGED <<last, tree, filtering, dialog, seen>>
    BY DEF mergeDevice
  <1>2. Importer(j) /\ Hand(j)
    BY <1>1, ImporterHere DEF Imports
  <1>3. Fits("session", i, old.row)
    <2>1. j.n \in DOMAIN j.todo \ (1 .. j.n - 1) /\ h = j.todo[j.n].host
      BY <1>1, <1>2 DEF Imports, Importer, Now
    <2>2. InHand(j, "session", i, old.row)
      <3> HIDE DEF j, h
      <3> QED BY <1>1, <1>2, <2>1 DEF InHand, Importer
    <2> HIDE DEF j, i
    <2> QED BY <1>2, <2>2 DEF Hand
  <1>4. DOMAIN row = Columns /\ row.own = old.row.own
    <2>1. DOMAIN old.row = Columns
      BY <1>3 DEF Fits
    <2> HIDE DEF old
    <2> QED BY <2>1 DEF Merged, Columns, kSchema, kAddedColumns
  <1>5. Fits("session", i, row)
    <2> HIDE DEF old, row, i
    <2> QED BY <1>3, <1>4 DEF Fits
  <1>6. Tally(u, last.session, seen.connects, seen.own, R) /\ DOMAIN u = DOMAIN t
    <2>1. Tally(t, last.session, seen.connects, seen.own, R)
      BY DEF TreeInv, Sessions
    <2>2. i \in DOMAIN t /\ i \notin R => row.own = seen.own[i]
      BY <1>5 DEF Fits
    <2> HIDE DEF t, R, i, row
    <2> QED BY <1>4, <2>1, <2>2, TallyUpdated
  <1> HIDE DEF u, i, row, j
  <1>7. PICK x, r, q : x = i /\ r = row /\ q = j
    OBVIOUS
  <1>8. Fields /\ SessionsAlone /\ rows'.session = u
    BY <1>1, SessionsWritten
  <1>9. Sessions'
    BY <1>1, <1>6, <1>8 DEF Sessions, R
  <1>10. Stand
    <2>1. SessionsStand
      BY <1>1, <1>6, <1>8 DEF SessionsStand, Stays
    <2>2. last.session <= last'.session
      BY <1>1, ShapeFacts DEF Facts
    <2> QED BY <1>8, <2>1, <2>2, StandParts
  <1>11. Fits("session", x, r)'
    <2>1. Fits("session", x, r)
      BY <1>5, <1>7
    <2>2. Stays("session", x) /\ Later
      BY <2>1, <1>10 DEF Stand, Fits
    <2> QED BY <2>1, <1>8, <2>2, FitsOn
  <1>12. job'[a] = Imported(q, [id |-> x, row |-> r]) /\ OthersAlone(a)
    BY <1>1, <1>7, ShapeFacts DEF Facts, OthersAlone, j
  <1>13. Importer(q) /\ Hand(q)
    BY <1>2, <1>7
  <1>14. HandAfter(a) /\ Importer(job'[a])
    BY <1>13, <1>8, <1>10, <1>11, <1>12, HandMore
  <1> QED BY <1>1, <1>8, <1>9, <1>10, <1>12, <1>14, ImportStep

LEMMA InsertDevice ==
  ASSUME TreeInv, NEW a \in Apps, insertDevice(a)
  PROVE  TreeInv'
  <1> DEFINE j == job[a]
             s == last.session + 1
             row == NewSession(j.into, Now(a).name, Now(a).host)
  <1>1. /\ Imports(a, "write") /\ Insert(s, row)
        /\ job' = [job EXCEPT ![a] = Imported(@, [id |-> s, row |-> row])]
        /\ UNCHANGED <<tree, filtering, dialog>>
    BY DEF insertDevice
  <1>2. Importer(j) /\ Hand(j)
    BY <1>1, ImporterHere DEF Imports
  <1>3. DOMAIN row = Columns
    BY DEF NewSession, Columns, kSchema, kAddedColumns
  <1> HIDE DEF row, j
  <1>4. /\ Fields /\ SessionsAlone /\ Sessions' /\ SessionsStand /\ last'.session = last.session + 1
        /\ seen'.own = With(seen.own, last.session + 1, row.own) /\ seen'.raced = seen.raced
    BY <1>1, <1>3, Inserts
  <1>5. last.session \in Nat
    BY ShapeFacts DEF Facts
  <1>6. Stand
    BY <1>4, <1>5, StandParts
  <1>7. PICK x, r, q : x = s /\ r = row /\ q = j
    OBVIOUS
  <1>8. Fits("session", x, r)'
    <2>1. x \in 1 .. last'.session /\ seen'.own[x] = r.own /\ DOMAIN r = Columns
      BY <1>3, <1>4, <1>5, <1>7 DEF With
    <2> QED BY <2>1 DEF Fits, Kinds
  <1>9. job'[a] = Imported(q, [id |-> x, row |-> r]) /\ OthersAlone(a)
    BY <1>1, <1>7, ShapeFacts DEF Facts, OthersAlone, j
  <1>10. Importer(q) /\ Hand(q)
    BY <1>2, <1>7
  <1>11. HandAfter(a) /\ Importer(job'[a])
    BY <1>4, <1>6, <1>8, <1>9, <1>10, HandMore
  <1> QED BY <1>1, <1>4, <1>6, <1>9, <1>11, ImportStep

------------------------------------------------------------------------------
(* Every state.                                                            *)

LEMMA TreeInit == Init => TreeInv
  <1> SUFFICES ASSUME Init PROVE TreeInv
    OBVIOUS
  <1>1. PICK r \in Stores : rows = migrate([k \in Kinds |-> r[k]]) /\ last = r.last
    BY DEF Init
  <1>2. /\ dialog = [a \in Apps |-> None] /\ filtering = [a \in Apps |-> FALSE]
        /\ tree = [a \in Apps |-> reload(rows)] /\ job = [a \in Apps |-> NoJob]
        /\ seen = [connects |-> [s \in DOMAIN rows.session |-> rows.session[s].count],
                   own      |-> [s \in DOMAIN rows.session |-> rows.session[s].own],
                   open     |-> {f \in DOMAIN rows.folder : rows.folder[f].open},
                   raced    |-> [k \in Kinds |-> {}], crossed |-> FALSE]
    BY DEF Init
  <1>3. /\ r.last \in [Kinds -> Nat]
        /\ \A f \in DOMAIN r.folder : /\ f \in 1 .. r.last.folder
                                      /\ DOMAIN r.folder[f] = kFolderCols
                                      /\ r.folder[f].open \in BOOLEAN
        /\ \A s \in DOMAIN r.session : /\ s \in 1 .. r.last.session
                                       /\ DOMAIN r.session[s] \in {kSchema, Columns}
    BY TreeAssumption DEF Columns
  <1> DEFINE t == r.session
             u == [s \in DOMAIN t |-> Filled(t[s], kAddedColumns, Start)]
             both == [k \in Kinds |-> r[k]]
             R == [k \in Kinds |-> {}]
  <1>4. both.session = r.session /\ both.folder = r.folder /\ DOMAIN both = Kinds
    BY DEF Kinds
  <1>5. rows = [both EXCEPT !.session = [s \in DOMAIN both.session |->
                                          Filled(both.session[s], kAddedColumns, Start)]]
    BY <1>1 DEF migrate
  <1> HIDE DEF both
  <1>6. rows.session = u /\ rows.folder = r.folder /\ DOMAIN rows = Kinds
    BY <1>4, <1>5 DEF Kinds
  <1>7. DOMAIN u = DOMAIN t /\ \A s \in DOMAIN t : DOMAIN u[s] = Columns
    <2> DEFINE v == u
    <2>1. v = u
      OBVIOUS
    <2>2. \A s \in DOMAIN t : DOMAIN t[s] \in {kSchema, Columns}
      BY <1>3
    <2> HIDE DEF v, t
    <2> QED BY <2>1, <2>2, Migrated
  <1> HIDE DEF u
  <1>8. seen.raced = R /\ DOMAIN R = Kinds /\ R.session = {} /\ R.folder = {}
    BY <1>2 DEF Kinds
  <1> HIDE DEF R
  <1>9. Shape
    <2>1. DOMAIN seen = {"connects", "own", "open", "raced", "crossed"}
      BY <1>2
    <2> QED BY <1>1, <1>2, <1>3, <1>6, <1>8, <2>1 DEF Shape
  <1>10. Copies
    BY <1>2 DEF Copies
  <1>11. Sessions
    <2> DEFINE c == [s \in DOMAIN u |-> u[s].count]
               o == [s \in DOMAIN u |-> u[s].own]
               E == R.session
    <2>1. seen.connects = c /\ seen.own = o
      BY <1>2, <1>6
    <2>2. last.session \in Nat
      BY <1>1, <1>3 DEF Kinds
    <2>3. E = seen.raced.session
      BY <1>8
    <2> HIDE DEF E
    <2>4. Tally(u, last.session, c, o, E)
      BY <1>1, <1>3, <1>7, <2>2 DEF Tally
    <2> HIDE DEF c, o
    <2> QED BY <1>6, <2>1, <2>3, <2>4 DEF Sessions
  <1>12. Expanded
    <2> DEFINE fs == {f \in DOMAIN r.folder : r.folder[f].open}
               E == R.folder
    <2>1. seen.open = fs
      BY <1>2, <1>6
    <2>2. last.folder \in Nat
      BY <1>1, <1>3 DEF Kinds
    <2>3. E = seen.raced.folder
      BY <1>8
    <2> HIDE DEF E
    <2>4. Opened(r.folder, last.folder, fs, E)
      BY <1>1, <1>3, <2>2 DEF Opened
    <2> HIDE DEF fs
    <2> QED BY <1>6, <2>1, <2>3, <2>4 DEF Expanded
  <1>13. Lists
    <2>1. Listing(reload(rows))
      BY <1>11, <1>12, ReloadLists
    <2> QED BY <1>2, <2>1 DEF Lists
  <1>14. Jobs
    <2>1. DOMAIN job = Apps /\ \A a \in Apps : job[a] = NoJob
      BY <1>2
    <2>2. Hand(NoJob)
      BY EmptyHand DEF Hand
    <2> QED BY <2>1, <2>2 DEF Jobs, JobShape
  <1> QED BY <1>9, <1>10, <1>11, <1>12, <1>13, <1>14 DEF TreeInv

LEMMA FolderStep ==
  ASSUME TreeInv, NEW a \in Apps, Folder(a)
  PROVE  TreeInv'
  <1>1. CASE \E up \in Containers(tree[a]), n \in Names : addFolder(a, up, n)
    BY <1>1, AddFolder
  <1>2. CASE \E f \in Folders(tree[a]) : removeFolder(a, f)
    BY <1>2, RemoveFolder
  <1>3. CASE \E f \in Folders(tree[a]) : setExpanded(a, f)
    BY <1>3, SetExpanded
  <1>4. CASE \E f \in Folders(tree[a]), n \in Names : renameFolder(a, f, n)
    BY <1>4, RenameFolder
  <1>5. CASE \E fs \in SUBSET Folders(tree[a]) : applyFilter(a, fs)
    BY <1>5, ApplyFilter
  <1> QED BY <1>1, <1>2, <1>3, <1>4, <1>5 DEF Folder

LEMMA SessionStep ==
  ASSUME TreeInv, NEW a \in Apps, Session(a)
  PROVE  TreeInv'
  <1>1. CASE \E s \in 1 .. last.session : editSession(a, s)
    BY <1>1, EditSession
  <1>2. CASE \E s \in 1 .. last.session : duplicateSession(a, s)
    BY <1>2, DuplicateSession
  <1>3. CASE \E s \in 1 .. last.session : deleteSession(a, s)
    BY <1>3, DeleteSession
  <1>4. CASE \E s \in 1 .. last.session : emitConnect(a, s)
    BY <1>4, EmitConnect
  <1>5. CASE \E up \in 0 .. MaxId, n \in Names, h \in Hosts, own \in Owns : saveEdited(a, up, n, h, own)
    BY <1>5, SaveEdited
  <1>6. CASE \E up \in 0 .. MaxId, n \in Names, h \in Hosts, own \in Owns : saveNew(a, up, n, h, own)
    BY <1>6, SaveNew
  <1>7. CASE addSession(a)
    BY <1>7, AddSession
  <1>8. CASE cancel(a)
    BY <1>8, Cancel
  <1> QED BY <1>1, <1>2, <1>3, <1>4, <1>5, <1>6, <1>7, <1>8 DEF Session

LEMMA DropStep ==
  ASSUME TreeInv, NEW a \in Apps, Drop(a)
  PROVE  TreeInv'
  <1>1. PICK k \in Kinds : \E i \in 1 .. last[k], target \in Containers(tree[a]) :
          \E row \in -1 .. Len(children(tree[a], target)) : dropMimeData(a, k, i, target, row)
    BY DEF Drop
  <1>2. PICK i \in 1 .. last[k], target \in Containers(tree[a]) :
          \E row \in -1 .. Len(children(tree[a], target)) : dropMimeData(a, k, i, target, row)
    BY <1>1
  <1>3. PICK row \in Int : dropMimeData(a, k, i, target, row)
    BY <1>2
  <1> QED BY <1>3, DropStarts

LEMMA RowSteps ==
  ASSUME TreeInv, NEW a \in Apps, RowStep(a)
  PROVE  TreeInv'
  BY RowGone, GetRow, UpdateRow, RowFails, ReturnsStep DEF RowStep

LEMMA FileStep ==
  ASSUME TreeInv, NEW a \in Apps, Import(a)
  PROVE  TreeInv'
  <1>1. CASE \E doc \in Files \cup Exported, merge \in BOOLEAN : applyImport(a, doc, merge)
    BY <1>1, ApplyImport
  <1> QED BY <1>1, FindFolder, MakeFolder, SkipDevice, MergeDevice, InsertDevice, ImportFails, ImportEnds DEF Import

LEMMA TreeKept == TreeInv /\ [Next]_vars => TreeInv'
  <1> SUFFICES ASSUME TreeInv, [Next]_vars PROVE TreeInv'
    OBVIOUS
  <1>1. CASE UNCHANGED vars
    <2>1. UNCHANGED <<rows, last, tree, filtering, dialog, job, seen>>
      BY <1>1 DEF vars
    <2>2. Fields /\ FoldersAlone /\ SessionsAlone /\ Stand
      BY <2>1, Same
    <2>3. CopiesStay /\ TreesFollow
      BY <2>1, CopiesEnd DEF TreesFollow
    <2>4. Jobs'
      <3>1. ASSUME NEW a \in Apps PROVE (JobShape(job[a]) /\ Hand(job[a]))'
        <4>1. PICK j : j = job[a] /\ JobShape(j) /\ Hand(j)
          BY DEF TreeInv, Jobs
        <4>2. \A k, i, row : InHand(j, k, i, row) => Fits(k, i, row)'
          BY <2>2, <4>1, HandStays
        <4>3. Hand(j)'
          BY <4>2 DEF Hand
        <4>4. job'[a] = j
          BY <2>1, <4>1
        <4>5. Hand(job[a])'
          BY <4>3, <4>4 DEF Hand
        <4> QED BY <4>1, <4>4, <4>5
      <3> QED BY <2>1, <3>1 DEF TreeInv, Jobs
    <2> QED BY <2>2, <2>3, <2>4, TreeStep
  <1>2. CASE Next
    <2>1. PICK a \in Apps : Folder(a) \/ Session(a) \/ Drop(a) \/ RowStep(a) \/ Import(a) \/ Reopen(a)
      BY <1>2 DEF Next
    <2> QED BY <2>1, DropStep, RowSteps, FileStep, FolderStep, SessionStep, ReopenStep
  <1> QED BY <1>1, <1>2

LEMMA TreeAlways == Spec => []TreeInv
  BY TreeInit, TreeKept, PTL DEF Spec
------------------------------------------------------------------------------
(* Induction, over a set of numbers.                                       *)

(* A set of naturals that is not empty has a least element.                *)
LEMMA LeastOf ==
  ASSUME NEW T, T \subseteq Nat, T # {}
  PROVE  \E n \in T : \A m \in T : n <= m
  <1> DEFINE R == OpToRel(<, Nat)
  <1>1. IsWellFoundedOn(R, Nat)
    BY NatLessThanWellFounded
  <1>2. \A a, b \in Nat : a < b => <<a, b>> \in R
    BY DEF OpToRel
  <1> HIDE DEF R
  <1>3. \E n \in T : \A m \in T : ~(<<m, n>> \in R)
    BY <1>1, WFMin
  <1>4. PICK n \in T : \A m \in T : ~(<<m, n>> \in R)
    BY <1>3
  <1>5. ASSUME NEW m \in T PROVE n <= m
    <2>1. m \in Nat /\ n \in Nat
      OBVIOUS
    <2>2. ~(<<m, n>> \in R)
      BY <1>4
    <2>3. m < n => <<m, n>> \in R
      BY <1>2, <2>1
    <2> QED BY <2>1, <2>2, <2>3
  <1> QED BY <1>4, <1>5

(* A set that has 0 and is closed under successor has all of Nat.          *)
LEMMA AllOfNat ==
  ASSUME NEW T, 0 \in T, \A n \in Nat : n \in T => n + 1 \in T
  PROVE  Nat \subseteq T
  <1> DEFINE U == Nat \ T
  <1> SUFFICES ASSUME U # {} PROVE FALSE
    OBVIOUS
  <1>1. U \subseteq Nat
    OBVIOUS
  <1>2. \A n \in U : n \in Nat /\ n \notin T
    OBVIOUS
  <1>3. \A n \in Nat : n \notin U => n \in T
    OBVIOUS
  <1> HIDE DEF U
  <1>4. PICK n \in U : \A m \in U : n <= m
    BY <1>1, LeastOf
  <1>5. n # 0 /\ n \in Nat
    BY <1>2
  <1>6. n - 1 \in Nat /\ n - 1 < n /\ (n - 1) + 1 = n
    BY <1>5
  <1>7. n - 1 \in T
    BY <1>3, <1>4, <1>6
  <1> QED BY <1>2, <1>6, <1>7

------------------------------------------------------------------------------
(* Lists: the members of a finite set in a strict total order.             *)
StrictOrder(R, S) ==
  /\ \A x \in S : <<x, x>> \notin R
  /\ \A x, y, z \in S : <<x, y>> \in R /\ <<y, z>> \in R => <<x, z>> \in R
  /\ \A x, y \in S : x # y => <<x, y>> \in R \/ <<y, x>> \in R
Earlier(S, R, i) == {j \in S : <<j, i>> \in R}
InOrder(s, S, R) == /\ s \in Seq(S) /\ ToSet(s) = S
                    /\ \A m, n \in 1 .. Len(s) : m < n => <<s[m], s[n]>> \in R

(* Each member has a number of its own of earlier ones, from 0 on.         *)
LEMMA EarlierCount ==
  ASSUME NEW S, IsFiniteSet(S), NEW R, StrictOrder(R, S)
  PROVE  /\ \A x \in S : Cardinality(Earlier(S, R, x)) \in 0 .. Cardinality(S) - 1
         /\ \A x, y \in S : <<x, y>> \in R => Cardinality(Earlier(S, R, x)) < Cardinality(Earlier(S, R, y))
         /\ \A x, y \in S : Cardinality(Earlier(S, R, x)) = Cardinality(Earlier(S, R, y)) => x = y
  <1>1. Cardinality(S) \in Nat
    BY FS_CardinalityType
  <1>2. ASSUME NEW x \in S
        PROVE  /\ IsFiniteSet(Earlier(S, R, x)) /\ x \notin Earlier(S, R, x)
               /\ Cardinality(Earlier(S, R, x)) \in Nat
               /\ Cardinality(Earlier(S, R, x)) <= Cardinality(S) - 1
    <2>1. x \notin Earlier(S, R, x)
      BY DEF Earlier, StrictOrder
    <2>2. Earlier(S, R, x) \in SUBSET (S \ {x})
      BY <2>1 DEF Earlier
    <2>3. IsFiniteSet(S \ {x}) /\ Cardinality(S \ {x}) = Cardinality(S) - 1
      BY FS_RemoveElement
    <2>4. IsFiniteSet(Earlier(S, R, x)) /\ Cardinality(Earlier(S, R, x)) <= Cardinality(S \ {x})
      BY <2>2, <2>3, FS_Subset
    <2>5. Cardinality(Earlier(S, R, x)) \in Nat
      BY <2>4, FS_CardinalityType
    <2> QED BY <2>1, <2>3, <2>4, <2>5
  <1>3. ASSUME NEW x \in S, NEW y \in S, <<x, y>> \in R
        PROVE  Cardinality(Earlier(S, R, x)) < Cardinality(Earlier(S, R, y))
    <2>1. Earlier(S, R, x) \cup {x} \in SUBSET Earlier(S, R, y)
      BY <1>3 DEF Earlier, StrictOrder
    <2>2. Cardinality(Earlier(S, R, x) \cup {x}) = Cardinality(Earlier(S, R, x)) + 1
      BY <1>2, FS_AddElement
    <2>3. Cardinality(Earlier(S, R, x) \cup {x}) <= Cardinality(Earlier(S, R, y))
      BY <1>2, <2>1, FS_Subset
    <2>4. Cardinality(Earlier(S, R, x)) \in Nat /\ Cardinality(Earlier(S, R, y)) \in Nat
      BY <1>2
    <2> QED BY <2>2, <2>3, <2>4
  <1>4. ASSUME NEW x \in S, NEW y \in S, Cardinality(Earlier(S, R, x)) = Cardinality(Earlier(S, R, y))
        PROVE  x = y
    <2>1. Cardinality(Earlier(S, R, x)) \in Nat /\ Cardinality(Earlier(S, R, y)) \in Nat
      BY <1>2
    <2>2. <<x, y>> \notin R /\ <<y, x>> \notin R
      BY <1>3, <1>4, <2>1
    <2> QED BY <2>2 DEF StrictOrder
  <1>5. ASSUME NEW x \in S PROVE Cardinality(Earlier(S, R, x)) \in 0 .. Cardinality(S) - 1
    BY <1>1, <1>2
  <1> QED BY <1>3, <1>4, <1>5

(* The list has every member once, in the order.                           *)
LEMMA ListedIs ==
  ASSUME NEW S, IsFiniteSet(S), NEW R, StrictOrder(R, S)
  PROVE  InOrder(Listed(S, R), S, R) /\ Len(Listed(S, R)) = Cardinality(S)
  <1> DEFINE n == Cardinality(S)
             c == [i \in S |-> Cardinality(Earlier(S, R, i))]
             s == Listed(S, R)
  <1>1. n \in Nat
    BY FS_CardinalityType
  <1>2. c \in [S -> 0 .. n - 1]
    BY EarlierCount
  <1>3. c \in Injection(S, 0 .. n - 1)
    BY <1>2, EarlierCount DEF Injection, IsInjective
  <1>4. IsFiniteSet(0 .. n - 1) /\ Cardinality(0 .. n - 1) = n
    BY <1>1, FS_Interval
  <1>5. c \in Surjection(S, 0 .. n - 1)
    <2> HIDE DEF c
    <2> QED BY <1>3, <1>4, FS_Injection
  <1>6. \A m \in 0 .. n - 1 : \E i \in S : Cardinality(Earlier(S, R, i)) = m
    BY <1>5 DEF Surjection
  <1>7. s = [m \in 1 .. n |-> CHOOSE i \in S : Cardinality(Earlier(S, R, i)) = m - 1]
    BY DEF Listed, Earlier
  <1> HIDE DEF s
  <1>8. ASSUME NEW m \in 1 .. n PROVE s[m] \in S /\ Cardinality(Earlier(S, R, s[m])) = m - 1
    <2>1. m - 1 \in 0 .. n - 1
      BY <1>1
    <2>2. \E i \in S : Cardinality(Earlier(S, R, i)) = m - 1
      BY <1>6, <2>1
    <2>3. s[m] = CHOOSE i \in S : Cardinality(Earlier(S, R, i)) = m - 1
      BY <1>7
    <2> QED BY <2>2, <2>3
  <1>9. s \in [1 .. n -> S]
    BY <1>7, <1>8
  <1>10. s \in Seq(S) /\ Len(s) = n /\ DOMAIN s = 1 .. n
    BY <1>1, <1>9
  <1>11. ASSUME NEW x \in S PROVE \E m \in DOMAIN s : s[m] = x
    <2>1. Cardinality(Earlier(S, R, x)) \in 0 .. n - 1
      BY EarlierCount
    <2>2. PICK m \in 1 .. n : m - 1 = Cardinality(Earlier(S, R, x))
      <3>1. Cardinality(Earlier(S, R, x)) + 1 \in 1 .. n
        BY <1>1, <2>1
      <3> QED BY <2>1, <3>1
    <2>3. s[m] = x
      BY <1>8, <2>2, EarlierCount
    <2> QED BY <1>10, <2>3
  <1>12. ToSet(s) = S
    BY <1>8, <1>10, <1>11 DEF ToSet
  <1>13. ASSUME NEW m \in 1 .. n, NEW p \in 1 .. n, m < p PROVE <<s[m], s[p]>> \in R
    <2>1. s[m] \in S /\ s[p] \in S
      BY <1>8
    <2>2. s[m] # s[p]
      BY <1>8, <1>13
    <2>3. <<s[p], s[m]>> \notin R
      <3> SUFFICES ASSUME <<s[p], s[m]>> \in R PROVE FALSE
        OBVIOUS
      <3>1. Cardinality(Earlier(S, R, s[p])) < Cardinality(Earlier(S, R, s[m]))
        BY <2>1, EarlierCount
      <3> QED BY <1>8, <1>13, <3>1
    <2> QED BY <2>1, <2>2, <2>3 DEF StrictOrder
  <1>14. InOrder(s, S, R)
    BY <1>10, <1>12, <1>13 DEF InOrder
  <1> QED BY <1>10, <1>14 DEF s

(* There is no other such list.                                            *)
LEMMA OnlyListed ==
  ASSUME NEW S, IsFiniteSet(S), NEW R, StrictOrder(R, S), NEW s, InOrder(s, S, R)
  PROVE  s = Listed(S, R) /\ Len(s) = Cardinality(S)
  <1> DEFINE l == Len(s)
  <1>1. l \in Nat /\ s \in [1 .. l -> S] /\ DOMAIN s = 1 .. l
    BY DEF InOrder
  <1>2. \A x \in S : \E m \in 1 .. l : s[m] = x
    BY <1>1 DEF InOrder, ToSet
  <1>3. ASSUME NEW m \in 1 .. l, NEW p \in 1 .. l PROVE m < p <=> <<s[m], s[p]>> \in R
    <2>1. s[m] \in S /\ s[p] \in S
      BY <1>1
    <2>2. m < p => <<s[m], s[p]>> \in R
      BY DEF InOrder
    <2>3. p < m => <<s[p], s[m]>> \in R
      BY DEF InOrder
    <2>4. m = p \/ m < p \/ p < m
      BY <1>1
    <2>5. m = p => ~(m < p) /\ s[m] = s[p]
      BY <1>1
    <2>6. ~(<<s[m], s[p]>> \in R /\ <<s[p], s[m]>> \in R)
      BY <2>1 DEF StrictOrder
    <2>7. <<s[m], s[m]>> \notin R
      BY <2>1 DEF StrictOrder
    <2> QED BY <2>2, <2>3, <2>4, <2>5, <2>6, <2>7
  <1>4. ASSUME NEW m \in 1 .. l, NEW p \in 1 .. l, s[m] = s[p] PROVE m = p
    <2>1. s[m] \in S
      BY <1>1
    <2>2. <<s[m], s[m]>> \notin R
      BY <2>1 DEF StrictOrder
    <2>3. ~(m < p) /\ ~(p < m)
      BY <1>3, <1>4, <2>2
    <2> QED BY <1>1, <2>3
  <1>5. Cardinality(S) = l
    <2>1. s \in Bijection(1 .. l, S)
      BY <1>1, <1>2, <1>4 DEF Bijection, Injection, IsInjective, Surjection
    <2>2. ExistsBijection(1 .. l, S)
      BY <2>1 DEF ExistsBijection
    <2>3. IsFiniteSet(1 .. l) /\ Cardinality(1 .. l) = l
      BY <1>1, FS_Interval
    <2> QED BY <2>2, <2>3, FS_Bijection
  <1>6. ASSUME NEW m \in 1 .. l PROVE Cardinality(Earlier(S, R, s[m])) = m - 1
    <2> DEFINE g == [p \in 1 .. m - 1 |-> s[p]]
               E == Earlier(S, R, s[m])
    <2>1. \A p \in 1 .. m - 1 : p \in 1 .. l /\ p < m
      BY <1>1
    <2>2. g \in [1 .. m - 1 -> E]
      BY <1>1, <1>3, <2>1 DEF Earlier
    <2>3. ASSUME NEW x \in E PROVE \E p \in 1 .. m - 1 : g[p] = x
      <3>1. x \in S /\ <<x, s[m]>> \in R
        BY DEF Earlier
      <3>2. PICK p \in 1 .. l : s[p] = x
        BY <1>2, <3>1
      <3>3. p < m
        BY <1>3, <3>1, <3>2
      <3>4. p \in 1 .. m - 1
        BY <1>1, <3>3
      <3> QED BY <3>2, <3>4
    <2>4. \A p, q \in 1 .. m - 1 : g[p] = g[q] => p = q
      BY <1>4, <2>1
    <2>5. g \in Bijection(1 .. m - 1, E)
      <3> HIDE DEF g, E
      <3>1. DOMAIN g = 1 .. m - 1
        BY <2>2
      <3> QED BY <2>2, <2>3, <2>4, <3>1 DEF Bijection, Injection, IsInjective, Surjection
    <2> HIDE DEF g
    <2>6. ExistsBijection(1 .. m - 1, E)
      BY <2>5 DEF ExistsBijection
    <2>7. IsFiniteSet(1 .. m - 1) /\ Cardinality(1 .. m - 1) = m - 1
      <3>1. m - 1 \in Int /\ 1 \in Int /\ m \in Nat /\ m >= 1
        BY <1>1
      <3>2. IsFiniteSet(1 .. m - 1) /\ Cardinality(1 .. m - 1) = IF 1 > m - 1 THEN 0 ELSE (m - 1) - 1 + 1
        BY <3>1, FS_Interval
      <3> QED BY <3>1, <3>2
    <2> QED BY <2>6, <2>7, FS_Bijection
  <1>7. ASSUME NEW m \in 1 .. l PROVE s[m] = CHOOSE i \in S : Cardinality({j \in S : <<j, i>> \in R}) = m - 1
    <2>1. s[m] \in S /\ Cardinality(Earlier(S, R, s[m])) = m - 1
      BY <1>1, <1>6
    <2>2. \A x \in S : Cardinality(Earlier(S, R, x)) = m - 1 => x = s[m]
      BY <2>1, EarlierCount
    <2>3. s[m] = CHOOSE i \in S : Cardinality(Earlier(S, R, i)) = m - 1
      BY <2>1, <2>2
    <2> QED BY <2>3 DEF Earlier
  <1>8. s = [m \in 1 .. l |-> CHOOSE i \in S : Cardinality({j \in S : <<j, i>> \in R}) = m - 1]
    BY <1>1, <1>7
  <1>9. Listed(S, R) = [m \in 1 .. l |-> CHOOSE i \in S : Cardinality({j \in S : <<j, i>> \in R}) = m - 1]
    BY <1>5 DEF Listed
  <1> QED BY <1>5, <1>8, <1>9

LEMMA OrderPart ==
  ASSUME NEW S, NEW T, T \subseteq S, NEW R, StrictOrder(R, S)
  PROVE  StrictOrder(R, T)
  BY DEF StrictOrder

(* Lists by two orders that agree on the members are the same.             *)
LEMMA ListedAlike ==
  ASSUME NEW S, IsFiniteSet(S), NEW R, NEW Q, StrictOrder(R, S), StrictOrder(Q, S),
         \A x, y \in S : <<x, y>> \in R => <<x, y>> \in Q
  PROVE  Listed(S, R) = Listed(S, Q)
  <1> DEFINE s == Listed(S, R)
  <1>1. InOrder(s, S, R)
    BY ListedIs
  <1> HIDE DEF s
  <1>2. \A m \in 1 .. Len(s) : s[m] \in S
    BY <1>1 DEF InOrder
  <1>3. InOrder(s, S, Q)
    BY <1>1, <1>2 DEF InOrder
  <1>4. s = Listed(S, Q)
    BY <1>3, OnlyListed
  <1> QED BY <1>4 DEF s

(* The items of seq that are kept, by their places, which stay in order.   *)
Picks(at, seq, S) ==
  /\ at \in Seq(DOMAIN seq)
  /\ \A m, n \in 1 .. Len(at) : m < n => at[m] < at[n]
  /\ \A n \in DOMAIN seq : seq[n] \in S <=> \E m \in 1 .. Len(at) : at[m] = n

LEMMA KeptIs ==
  ASSUME NEW A, NEW seq \in Seq(A), NEW S
  PROVE  \E at : Picks(at, seq, S) /\ Kept(seq, S) = [n \in 1 .. Len(at) |-> seq[at[n]]]
  <1> DEFINE D == DOMAIN seq
             N == {n \in D : seq[n] \in S}
             R == {p \in D \X D : p[1] < p[2]}
             at == Listed(N, R)
  <1>1. D = 1 .. Len(seq) /\ Len(seq) \in Nat
    OBVIOUS
  <1>2. IsFiniteSet(D)
    BY <1>1, FS_Interval
  <1>3. IsFiniteSet(N)
    <2>1. N \in SUBSET D
      OBVIOUS
    <2> QED BY <1>2, <2>1, FS_Subset
  <1>4. StrictOrder(R, N)
    <2>1. \A x, y \in N : x \in Nat /\ y \in Nat /\ (<<x, y>> \in R <=> x < y)
      BY <1>1
    <2> HIDE DEF N, R
    <2> QED BY <2>1 DEF StrictOrder
  <1> HIDE DEF R
  <1>5. InOrder(at, N, R)
    BY <1>3, <1>4, ListedIs
  <1>6. Kept(seq, S) = [n \in DOMAIN at |-> seq[at[n]]]
    BY DEF Kept, R
  <1>7. \A x, y \in D : <<x, y>> \in R => x < y
    BY DEF R
  <1> HIDE DEF at
  <1>8. at \in Seq(N) /\ DOMAIN at = 1 .. Len(at)
    BY <1>5 DEF InOrder
  <1>9. at \in Seq(D)
    BY <1>8
  <1>10. ASSUME NEW m \in 1 .. Len(at), NEW n \in 1 .. Len(at), m < n PROVE at[m] < at[n]
    <2>1. <<at[m], at[n]>> \in R
      BY <1>5, <1>10 DEF InOrder
    <2>2. at[m] \in D /\ at[n] \in D
      BY <1>9
    <2> QED BY <1>7, <2>1, <2>2
  <1>11. \A n \in D : n \in N <=> \E m \in 1 .. Len(at) : at[m] = n
    BY <1>5, <1>8 DEF InOrder, ToSet
  <1>12. Picks(at, seq, S)
    BY <1>9, <1>10, <1>11 DEF Picks
  <1> QED BY <1>6, <1>8, <1>12

LEMMA KeptItems ==
  ASSUME NEW A, NEW seq \in Seq(A), NEW S
  PROVE  /\ Kept(seq, S) \in Seq(A)
         /\ ToSet(Kept(seq, S)) = {x \in ToSet(seq) : x \in S}
         /\ DOMAIN Kept(seq, S) = 1 .. Len(Kept(seq, S))
  <1>1. PICK at : Picks(at, seq, S) /\ Kept(seq, S) = [n \in 1 .. Len(at) |-> seq[at[n]]]
    BY KeptIs
  <1>2. /\ Len(at) \in Nat /\ DOMAIN seq = 1 .. Len(seq)
        /\ \A n \in 1 .. Len(at) : at[n] \in DOMAIN seq /\ seq[at[n]] \in A
    BY <1>1 DEF Picks
  <1>3. Kept(seq, S) \in [1 .. Len(at) -> A]
    BY <1>1, <1>2
  <1>4. Kept(seq, S) \in Seq(A) /\ Len(Kept(seq, S)) = Len(at)
    BY <1>2, <1>3
  <1>5. ToSet(Kept(seq, S)) = {x \in ToSet(seq) : x \in S}
    <2>1. ASSUME NEW x \in ToSet(Kept(seq, S)) PROVE x \in ToSet(seq) /\ x \in S
      <3>1. PICK n \in 1 .. Len(at) : x = seq[at[n]]
        BY <1>1 DEF ToSet
      <3>2. at[n] \in DOMAIN seq
        BY <1>2
      <3> QED BY <1>1, <3>1, <3>2 DEF Picks, ToSet
    <2>2. ASSUME NEW x \in ToSet(seq), x \in S PROVE x \in ToSet(Kept(seq, S))
      <3>1. PICK n \in DOMAIN seq : x = seq[n]
        BY DEF ToSet
      <3>2. PICK m \in 1 .. Len(at) : at[m] = n
        BY <1>1, <2>2, <3>1 DEF Picks
      <3> QED BY <1>1, <3>1, <3>2 DEF ToSet
    <2> QED BY <2>1, <2>2
  <1> QED BY <1>3, <1>4, <1>5

(* What is kept of a list is the list of what is kept.                     *)
LEMMA KeptInOrder ==
  ASSUME NEW T, NEW R, NEW seq, InOrder(seq, T, R), NEW S
  PROVE  InOrder(Kept(seq, S), {x \in T : x \in S}, R)
  <1> DEFINE k == Kept(seq, S)
             U == {x \in T : x \in S}
  <1>1. seq \in Seq(T) /\ ToSet(seq) = T
    BY DEF InOrder
  <1>2. k \in Seq(T) /\ ToSet(k) = U /\ DOMAIN k = 1 .. Len(k)
    BY <1>1, KeptItems
  <1>3. PICK at : Picks(at, seq, S) /\ k = [n \in 1 .. Len(at) |-> seq[at[n]]]
    BY <1>1, KeptIs
  <1> HIDE DEF k
  <1>4. k \in Seq(U)
    <2>1. \A n \in 1 .. Len(k) : k[n] \in U
      BY <1>2 DEF ToSet
    <2> HIDE DEF U
    <2> QED BY <1>2, <2>1
  <1>5. ASSUME NEW m \in 1 .. Len(k), NEW n \in 1 .. Len(k), m < n PROVE <<k[m], k[n]>> \in R
    <2>1. m \in 1 .. Len(at) /\ n \in 1 .. Len(at)
      BY <1>2, <1>3
    <2>2. at[m] < at[n] /\ at[m] \in 1 .. Len(seq) /\ at[n] \in 1 .. Len(seq)
      BY <1>1, <1>3, <1>5, <2>1 DEF Picks
    <2>3. <<seq[at[m]], seq[at[n]]>> \in R
      BY <2>2 DEF InOrder
    <2> QED BY <1>3, <2>1, <2>3
  <1>6. InOrder(k, U, R)
    BY <1>2, <1>4, <1>5 DEF InOrder
  <1> QED BY <1>6 DEF k

------------------------------------------------------------------------------
(* Tables, and chains of folders.                                          *)

(* The rows of a table can be listed: their ids, positions and names are   *)
(* numbers, and there are finitely many.                                   *)
Orderly(t) == /\ IsFiniteSet(DOMAIN t) /\ DOMAIN t \subseteq Nat \ {0}
              /\ \A i \in DOMAIN t : t[i].pos \in Int /\ t[i].name \in Nat
By(t, ids) == {p \in ids \X ids : Before(t, p[1], p[2])}

LEMMA RowsInOrder ==
  ASSUME NEW t, Orderly(t), NEW ids, ids \subseteq DOMAIN t
  PROVE  /\ IsFiniteSet(ids) /\ StrictOrder(By(t, ids), ids)
         /\ Sorted(t, ids) = Listed(ids, By(t, ids))
         /\ InOrder(Sorted(t, ids), ids, By(t, ids))
  <1>1. IsFiniteSet(ids)
    BY FS_Subset DEF Orderly
  <1>2. \A x \in ids : x \in Nat /\ t[x].pos \in Int /\ t[x].name \in Nat
    BY DEF Orderly
  <1>3. \A x, y \in ids : <<x, y>> \in By(t, ids) <=> Before(t, x, y)
    BY DEF By
  <1>4. \A x \in ids : ~Before(t, x, x)
    BY <1>2 DEF Before
  <1>5. \A x, y, z \in ids : Before(t, x, y) /\ Before(t, y, z) => Before(t, x, z)
    BY <1>2 DEF Before
  <1>6. \A x, y \in ids : x # y => Before(t, x, y) \/ Before(t, y, x)
    BY <1>2 DEF Before
  <1>7. StrictOrder(By(t, ids), ids)
    BY <1>3, <1>4, <1>5, <1>6 DEF StrictOrder
  <1>8. Sorted(t, ids) = Listed(ids, By(t, ids))
    BY DEF Sorted, By
  <1> QED BY <1>1, <1>7, <1>8, ListedIs

------------------------------------------------------------------------------
(* Recursion: a step taken n times, from b.                                *)
Steps(step, n, V) == \A k \in 1 .. n, v \in V : step[<<k, v>>] \in V
Iterated(c, b, step, n, V) ==
  c \in [0 .. n -> V] /\ c[0] = b /\ \A k \in 1 .. n : c[k] = step[<<k, c[k - 1]>>]

LEMMA Iterates ==
  ASSUME NEW n \in Nat, NEW V, NEW b \in V, NEW step, Steps(step, n, V)
  PROVE  \E c : Iterated(c, b, step, n, V)
  <1> DEFINE Good(f, k) == f \in [0 .. k -> V] /\ f[0] = b /\ \A j \in 1 .. k : f[j] = step[<<j, f[j - 1]>>]
             T == {k \in Nat : k <= n => \E f : Good(f, k)}
  <1>1. 0 \in T
    <2> DEFINE f == [k \in 0 .. 0 |-> b]
    <2>1. f \in [0 .. 0 -> V] /\ f[0] = b /\ 1 .. 0 = {}
      OBVIOUS
    <2> HIDE DEF f
    <2> QED BY <2>1
  <1>2. ASSUME NEW k \in Nat, k \in T PROVE k + 1 \in T
    <2> SUFFICES ASSUME k + 1 <= n PROVE \E f : Good(f, k + 1)
      OBVIOUS
    <2>1. PICK f : Good(f, k)
      BY <1>2
    <2> DEFINE v == step[<<k + 1, f[k]>>]
               g == [j \in 0 .. k + 1 |-> IF j = k + 1 THEN v ELSE f[j]]
    <2>2. k + 1 \in 1 .. n /\ f[k] \in V
      BY <2>1
    <2>3. v \in V
      BY <2>2 DEF Steps
    <2>4. \A j \in 0 .. k + 1 : j # k + 1 => j \in 0 .. k
      OBVIOUS
    <2> HIDE DEF v
    <2>5. g \in [0 .. k + 1 -> V] /\ g[k + 1] = v /\ \A j \in 0 .. k : g[j] = f[j]
      BY <2>1, <2>3, <2>4
    <2> HIDE DEF g
    <2>6. g[0] = b
      BY <2>1, <2>5
    <2>7. ASSUME NEW j \in 1 .. k + 1 PROVE g[j] = step[<<j, g[j - 1]>>]
      <3>1. CASE j = k + 1
        <4>1. g[j - 1] = f[k]
          BY <2>5, <3>1
        <4> QED BY <2>5, <3>1, <4>1 DEF v
      <3>2. CASE j # k + 1
        <4>1. j \in 1 .. k /\ j \in 0 .. k /\ j - 1 \in 0 .. k
          BY <3>2
        <4>2. f[j] = step[<<j, f[j - 1]>>]
          BY <2>1, <4>1
        <4> QED BY <2>5, <4>1, <4>2
      <3> QED BY <3>1, <3>2
    <2>8. Good(g, k + 1)
      BY <2>5, <2>6, <2>7
    <2> QED BY <2>8
  <1> HIDE DEF T
  <1>3. n \in T
    BY <1>1, <1>2, AllOfNat
  <1>4. PICK f : Good(f, n)
    BY <1>3 DEF T
  <1> QED BY <1>4 DEF Iterated

------------------------------------------------------------------------------
(* Chains of parents.                                                      *)
Link(parent, p) == IF p \in DOMAIN parent THEN parent[p] ELSE p

LEMMA ChainIs ==
  ASSUME NEW parent, IsFiniteSet(DOMAIN parent), NEW f
  PROVE  /\ Cardinality(DOMAIN parent) \in Nat
         /\ DOMAIN Chain(parent, f) = 0 .. Cardinality(DOMAIN parent)
         /\ Chain(parent, f)[0] = f
         /\ \A k \in 1 .. Cardinality(DOMAIN parent) :
              Chain(parent, f)[k] = Link(parent, Chain(parent, f)[k - 1])
  <1> DEFINE n == Cardinality(DOMAIN parent)
             V == DOMAIN parent \cup Range(parent) \cup {f}
             step == [q \in (1 .. n) \X V |-> Link(parent, q[2])]
             Eqn(c) == c = [k \in 0 .. n |-> IF k = 0 THEN f ELSE Link(parent, c[k - 1])]
  <1>1. n \in Nat
    BY FS_CardinalityType
  <1>2. ASSUME NEW k \in 1 .. n, NEW v \in V
        PROVE  step[<<k, v>>] \in V /\ step[<<k, v>>] = Link(parent, v)
    <2>1. Link(parent, v) \in V
      BY DEF Link, Range
    <2>2. <<k, v>> \in (1 .. n) \X V
      OBVIOUS
    <2> HIDE DEF V, n
    <2> QED BY <2>1, <2>2
  <1>3. f \in V
    OBVIOUS
  <1> HIDE DEF V, n, step
  <1>4. PICK c \in [0 .. n -> V] : c[0] = f /\ \A k \in 1 .. n : c[k] = step[<<k, c[k - 1]>>]
    <2>1. Steps(step, n, V)
      BY <1>2 DEF Steps
    <2>2. PICK c : Iterated(c, f, step, n, V)
      BY <1>1, <1>3, <2>1, Iterates
    <2> QED BY <2>2 DEF Iterated
  <1>5. ASSUME NEW k \in 0 .. n PROVE c[k] = IF k = 0 THEN f ELSE Link(parent, c[k - 1])
    <2>1. k # 0 => k \in 1 .. n /\ k - 1 \in 0 .. n
      BY <1>1
    <2>2. k # 0 => c[k - 1] \in V
      BY <1>4, <2>1
    <2> QED BY <1>2, <1>4, <2>1, <2>2
  <1>6. Eqn(c)
    BY <1>4, <1>5
  <1> DEFINE up == CHOOSE d : Eqn(d)
  <1>7. Eqn(up)
    <2> HIDE DEF Eqn
    <2> QED BY <1>6
  <1>8. Chain(parent, f) = up
    BY DEF Chain, Link, n
  <1> HIDE DEF up
  <1>9. DOMAIN up = 0 .. n
    BY <1>7
  <1>10. \A k \in 0 .. n : up[k] = IF k = 0 THEN f ELSE Link(parent, up[k - 1])
    <2> DEFINE e == [k \in 0 .. n |-> IF k = 0 THEN f ELSE Link(parent, up[k - 1])]
    <2>1. up = e
      BY <1>7
    <2>2. \A k \in 0 .. n : e[k] = IF k = 0 THEN f ELSE Link(parent, up[k - 1])
      OBVIOUS
    <2> HIDE DEF e
    <2> QED BY <2>1, <2>2
  <1> HIDE DEF Eqn
  <1>11. up[0] = f
    BY <1>1, <1>10
  <1>12. ASSUME NEW k \in 1 .. n PROVE up[k] = Link(parent, up[k - 1])
    <2>1. k \in 0 .. n /\ k # 0
      BY <1>1
    <2> QED BY <1>10, <2>1
  <1> QED BY <1>1, <1>8, <1>9, <1>11, <1>12 DEF n

(* A folder is deeper than its parent, if it has one.                      *)
Descends(parent, depth) ==
  /\ depth \in [DOMAIN parent -> Nat]
  /\ \A f \in DOMAIN parent : parent[f] \in DOMAIN parent => depth[parent[f]] < depth[f]

(* Such a chain leaves the folders before its last link.                   *)
LEMMA ChainEnds ==
  ASSUME NEW parent, IsFiniteSet(DOMAIN parent), NEW depth, Descends(parent, depth), NEW f
  PROVE  Chain(parent, f)[Cardinality(DOMAIN parent)] \notin DOMAIN parent
  <1> DEFINE n == Cardinality(DOMAIN parent)
             D == DOMAIN parent
             c == Chain(parent, f)
             T == {k \in Nat : k <= n /\ c[k] \in D => \A j \in 0 .. k - 1 : c[j] \in D /\ depth[c[k]] < depth[c[j]]}
  <1>1. /\ n \in Nat /\ DOMAIN c = 0 .. n
        /\ \A k \in 1 .. n : c[k] = Link(parent, c[k - 1])
    BY ChainIs
  <1>2. depth \in [D -> Nat] /\ \A x \in D : parent[x] \in D => depth[parent[x]] < depth[x]
    BY DEF Descends
  <1> HIDE DEF c, n
  <1>3. 0 \in T
    <2>1. 0 .. 0 - 1 = {}
      OBVIOUS
    <2> QED BY <2>1
  <1>4. ASSUME NEW k \in Nat, k \in T PROVE k + 1 \in T
    <2> SUFFICES ASSUME k + 1 <= n, c[k + 1] \in D, NEW j \in 0 .. k
                 PROVE  c[j] \in D /\ depth[c[k + 1]] < depth[c[j]]
      OBVIOUS
    <2>1. c[k + 1] = Link(parent, c[k])
      <3>1. k + 1 \in 1 .. n /\ (k + 1) - 1 = k
        BY <1>1
      <3> QED BY <1>1, <3>1
    <2>2. c[k] \in D /\ c[k + 1] = parent[c[k]]
      BY <2>1 DEF Link
    <2>3. depth[c[k + 1]] < depth[c[k]] /\ depth[c[k + 1]] \in Nat /\ depth[c[k]] \in Nat
      BY <1>2, <2>2
    <2>4. CASE j = k
      BY <2>2, <2>3, <2>4
    <2>5. CASE j # k
      <3>1. j \in 0 .. k - 1 /\ k <= n
        BY <1>1, <2>5
      <3>2. c[j] \in D /\ depth[c[k]] < depth[c[j]]
        BY <1>4, <2>2, <3>1
      <3>3. depth[c[j]] \in Nat
        BY <1>2, <3>2
      <3> QED BY <2>3, <3>2, <3>3
    <2> QED BY <2>4, <2>5
  <1> HIDE DEF T
  <1>5. n \in T
    BY <1>1, <1>3, <1>4, AllOfNat
  <1> SUFFICES ASSUME c[n] \in D PROVE FALSE
    BY DEF c, n
  <1>6. ASSUME NEW k \in 0 .. n PROVE c[k] \in D
    <2>1. k = n \/ k \in 0 .. n - 1
      BY <1>1
    <2> QED BY <1>1, <1>5, <2>1 DEF T
  <1> DEFINE g == [k \in 0 .. n |-> c[k]]
  <1>7. g \in [0 .. n -> D]
    BY <1>6
  <1>8. IsFiniteSet(0 .. n) /\ Cardinality(0 .. n) = n + 1
    BY <1>1, FS_Interval
  <1>9. \A k \in 0 .. n : g[k] = c[k]
    OBVIOUS
  <1> HIDE DEF g
  <1>10. PICK x \in 0 .. n, y \in 0 .. n : x # y /\ g[x] = g[y]
    <2>1. Cardinality(D) < Cardinality(0 .. n)
      BY <1>1, <1>8 DEF n
    <2> QED BY <1>7, <1>8, <2>1, FS_PigeonHole
  <1>11. ASSUME NEW j \in 0 .. n, NEW k \in 0 .. n, j < k PROVE c[j] # c[k]
    <2>1. j \in 0 .. k - 1
      BY <1>1, <1>11
    <2>2. k \in T /\ k <= n
      <3>1. \A m \in Nat : m \in T
        BY <1>3, <1>4, AllOfNat
      <3> QED BY <1>1, <3>1
    <2>3. depth[c[k]] < depth[c[j]]
      BY <1>6, <2>1, <2>2 DEF T
    <2>4. depth[c[k]] \in Nat
      BY <1>2, <1>6
    <2> QED BY <2>3, <2>4
  <1>12. x \in Nat /\ y \in Nat /\ c[x] = c[y]
    BY <1>1, <1>9, <1>10
  <1>13. x < y \/ y < x
    BY <1>10, <1>12
  <1> QED BY <1>11, <1>12, <1>13

LEMMA ChainReaches ==
  ASSUME NEW parent, IsFiniteSet(DOMAIN parent), NEW depth, Descends(parent, depth),
         Root \notin DOMAIN parent, \A x \in DOMAIN parent : parent[x] \in DOMAIN parent \cup {Root},
         NEW f \in DOMAIN parent \cup {Root}
  PROVE  UnderRoot(parent, f)
  <1> DEFINE n == Cardinality(DOMAIN parent)
             D == DOMAIN parent
             c == Chain(parent, f)
             T == {k \in Nat : k <= n => c[k] \in D \cup {Root}}
  <1>1. /\ n \in Nat /\ DOMAIN c = 0 .. n /\ c[0] = f
        /\ \A k \in 1 .. n : c[k] = Link(parent, c[k - 1])
    BY ChainIs
  <1>2. c[n] \notin D
    BY ChainEnds
  <1>3. UnderRoot(parent, f) <=> \E k \in DOMAIN c : c[k] = Root
    BY DEF UnderRoot, Range
  <1> HIDE DEF c, n
  <1>4. 0 \in T
    BY <1>1
  <1>5. ASSUME NEW k \in Nat, k \in T PROVE k + 1 \in T
    <2> SUFFICES ASSUME k + 1 <= n PROVE c[k + 1] \in D \cup {Root}
      OBVIOUS
    <2>1. k + 1 \in 1 .. n /\ (k + 1) - 1 = k /\ k <= n
      BY <1>1
    <2>2. c[k + 1] = Link(parent, c[k])
      BY <1>1, <2>1
    <2>3. c[k] \in D \cup {Root}
      BY <1>5, <2>1
    <2> QED BY <2>2, <2>3 DEF Link
  <1> HIDE DEF T
  <1>6. n \in T
    BY <1>1, <1>4, <1>5, AllOfNat
  <1>7. c[n] = Root /\ n \in DOMAIN c
    BY <1>1, <1>2, <1>6 DEF T
  <1> QED BY <1>3, <1>7

(* What is above a folder of the chain is in the chain.                    *)
LEMMA ChainClosed ==
  ASSUME NEW parent, IsFiniteSet(DOMAIN parent), NEW depth, Descends(parent, depth), NEW f
  PROVE  /\ f \in Range(Chain(parent, f))
         /\ \A x \in Range(Chain(parent, f)) : x \in DOMAIN parent => parent[x] \in Range(Chain(parent, f))
  <1> DEFINE n == Cardinality(DOMAIN parent)
             c == Chain(parent, f)
  <1>1. /\ n \in Nat /\ DOMAIN c = 0 .. n /\ c[0] = f
        /\ \A k \in 1 .. n : c[k] = Link(parent, c[k - 1])
    BY ChainIs
  <1>2. c[n] \notin DOMAIN parent
    BY ChainEnds
  <1> HIDE DEF c, n
  <1>3. f \in Range(c)
    BY <1>1 DEF Range
  <1>4. ASSUME NEW x \in Range(c), x \in DOMAIN parent PROVE parent[x] \in Range(c)
    <2>1. PICK k \in 0 .. n : c[k] = x
      BY <1>1 DEF Range
    <2>2. k # n
      BY <1>2, <1>4, <2>1
    <2>3. k + 1 \in 1 .. n /\ (k + 1) - 1 = k /\ k + 1 \in DOMAIN c
      BY <1>1, <2>2
    <2>4. c[k + 1] = parent[x]
      BY <1>1, <1>4, <2>1, <2>3 DEF Link
    <2> QED BY <2>3, <2>4 DEF Range
  <1> QED BY <1>3, <1>4 DEF c

------------------------------------------------------------------------------
(* The tree of a window.                                                   *)
Ups(t) == [f \in DOMAIN t |-> t[f].up]
Grounded(t) == \E depth : Descends(Ups(t), depth)
Home(t, f) == IF t[f].up \in DOMAIN t THEN t[f].up ELSE Root
(* Nodes on their way from the root to their homes.                        *)
OnTheWay(t) == {h \in [DOMAIN t -> DOMAIN t \cup {Root}] : \A f \in DOMAIN t : h[f] \in {Root, Home(t, f)}}
Put(t, h, f) ==
  LET p == t[f].up IN IF p \in DOMAIN t \ {f} /\ UnderRoot(h, p) THEN [h EXCEPT ![f] = p] ELSE h

LEMMA PutHome ==
  ASSUME NEW t, Orderly(t), Grounded(t), NEW h \in OnTheWay(t), NEW f \in DOMAIN t
  PROVE  /\ Put(t, h, f) \in OnTheWay(t)
         /\ Put(t, h, f)[f] = Home(t, f)
         /\ \A g \in DOMAIN t \ {f} : Put(t, h, f)[g] = h[g]
         /\ UnderRoot(h, f)
  <1> DEFINE D == DOMAIN t
             p == t[f].up
  <1>1. PICK depth : Descends(Ups(t), depth)
    BY DEF Grounded
  <1>2. /\ depth \in [D -> Nat] /\ \A x \in D : t[x].up \in D => depth[t[x].up] < depth[x]
    BY <1>1 DEF Descends, Ups
  <1>3. h \in [D -> D \cup {Root}] /\ DOMAIN h = D /\ \A x \in D : h[x] \in {Root, Home(t, x)}
    BY DEF OnTheWay
  <1>4. Root \notin D /\ IsFiniteSet(D)
    BY DEF Orderly, Root
  <1>5. Descends(h, depth)
    <2>1. ASSUME NEW x \in D, h[x] \in D PROVE depth[h[x]] < depth[x]
      <3>1. h[x] = Home(t, x)
        BY <1>3, <1>4, <2>1
      <3>2. t[x].up \in D /\ h[x] = t[x].up
        BY <1>4, <2>1, <3>1 DEF Home
      <3> QED BY <1>2, <3>2
    <2> QED BY <1>2, <1>3, <2>1 DEF Descends
  <1>6. ASSUME NEW x \in D PROVE UnderRoot(h, x)
    <2>1. /\ IsFiniteSet(DOMAIN h) /\ Root \notin DOMAIN h
          /\ \A y \in DOMAIN h : h[y] \in DOMAIN h \cup {Root} /\ x \in DOMAIN h \cup {Root}
      BY <1>3, <1>4
    <2> QED BY <1>3, <1>5, <2>1, ChainReaches
  <1>7. CASE p \in D
    <2>1. p # f
      <3>1. depth[p] < depth[f] /\ depth[f] \in Nat
        BY <1>2, <1>7
      <3> QED BY <3>1
    <2>2. Put(t, h, f) = [h EXCEPT ![f] = p] /\ Home(t, f) = p
      BY <1>6, <1>7, <2>1 DEF Put, Home
    <2> DEFINE g == [h EXCEPT ![f] = p]
    <2>3. g \in [D -> D \cup {Root}] /\ g[f] = p /\ \A x \in D \ {f} : g[x] = h[x]
      BY <1>3, <1>7
    <2> HIDE DEF g, p
    <2>4. g \in OnTheWay(t)
      BY <1>3, <2>2, <2>3 DEF OnTheWay
    <2> QED BY <1>6, <2>2, <2>3, <2>4 DEF g
  <1>8. CASE p \notin D
    <2>1. Put(t, h, f) = h /\ Home(t, f) = Root
      BY <1>8 DEF Put, Home
    <2>2. h[f] = Root
      BY <1>3, <2>1
    <2> QED BY <1>6, <2>1, <2>2
  <1> QED BY <1>7, <1>8

(* When no folder is above itself each ends under its parent, if there is  *)
(* one, in whatever order they are read.                                   *)
LEMMA HomesAre ==
  ASSUME NEW t, Orderly(t), Grounded(t)
  PROVE  FolderHomes(t) = [f \in DOMAIN t |-> Home(t, f)]
  <1> DEFINE D == DOMAIN t
             V == OnTheWay(t)
             read == Sorted(t, D)
             n == Len(read)
             top == [f \in D |-> Root]
             step == [q \in (1 .. n) \X V |-> Put(t, q[2], read[q[1]])]
             Eqn(c) == c = [k \in 0 .. n |-> IF k = 0 THEN top ELSE Put(t, c[k - 1], read[k])]
             home == CHOOSE c : Eqn(c)
  <1>1. InOrder(read, D, By(t, D))
    BY RowsInOrder
  <1>2. FolderHomes(t) = home[n]
    BY DEF FolderHomes, Put
  <1> HIDE DEF read
  <1>3. n \in Nat /\ read \in Seq(D) /\ \A k \in 1 .. n : read[k] \in D
    BY <1>1 DEF InOrder
  <1>4. \A f \in D : \E k \in 1 .. n : read[k] = f
    BY <1>1 DEF InOrder, ToSet
  <1>5. top \in V
    <2>1. top \in [D -> D \cup {Root}] /\ \A f \in D : top[f] = Root
      OBVIOUS
    <2> HIDE DEF top
    <2> QED BY <2>1 DEF OnTheWay
  <1>6. ASSUME NEW k \in 1 .. n, NEW v \in V
        PROVE  step[<<k, v>>] = Put(t, v, read[k]) /\ step[<<k, v>>] \in V
    <2>1. <<k, v>> \in (1 .. n) \X V
      OBVIOUS
    <2>2. Put(t, v, read[k]) \in V
      BY <1>3, PutHome
    <2> HIDE DEF V, n
    <2> QED BY <2>1, <2>2
  <1> HIDE DEF V, n, step, top
  <1>7. PICK c : Iterated(c, top, step, n, V)
    <2>1. Steps(step, n, V)
      BY <1>6 DEF Steps
    <2> QED BY <1>3, <1>5, <2>1, Iterates
  <1>8. c \in [0 .. n -> V] /\ c[0] = top /\ \A k \in 1 .. n : c[k] = step[<<k, c[k - 1]>>]
    BY <1>7 DEF Iterated
  <1>9. ASSUME NEW k \in 0 .. n PROVE c[k] = IF k = 0 THEN top ELSE Put(t, c[k - 1], read[k])
    <2>1. k # 0 => k \in 1 .. n /\ k - 1 \in 0 .. n
      BY <1>3
    <2>2. k # 0 => c[k - 1] \in V
      BY <1>8, <2>1
    <2> QED BY <1>6, <1>8, <2>1, <2>2
  <1>10. Eqn(c)
    BY <1>8, <1>9
  <1>11. Eqn(home)
    <2> HIDE DEF Eqn
    <2> QED BY <1>10
  <1> HIDE DEF home
  <1>12. \A k \in 0 .. n : home[k] = IF k = 0 THEN top ELSE Put(t, home[k - 1], read[k])
    <2> DEFINE e == [k \in 0 .. n |-> IF k = 0 THEN top ELSE Put(t, home[k - 1], read[k])]
    <2>1. home = e
      BY <1>11
    <2>2. \A k \in 0 .. n : e[k] = IF k = 0 THEN top ELSE Put(t, home[k - 1], read[k])
      OBVIOUS
    <2> HIDE DEF e
    <2> QED BY <2>1, <2>2
  <1> HIDE DEF Eqn
  <1> DEFINE T == {k \in Nat : k <= n => /\ home[k] \in V
                                         /\ \A m \in 1 .. k : home[k][read[m]] = Home(t, read[m])}
  <1>13. 0 \in T
    BY <1>3, <1>5, <1>12
  <1>14. ASSUME NEW k \in Nat, k \in T PROVE k + 1 \in T
    <2> SUFFICES ASSUME k + 1 <= n
                 PROVE  /\ home[k + 1] \in V
                        /\ \A m \in 1 .. k + 1 : home[k + 1][read[m]] = Home(t, read[m])
      OBVIOUS
    <2> DEFINE h == home[k]
               f == read[k + 1]
    <2>1. home[k + 1] = Put(t, h, f)
      <3>1. k + 1 \in 0 .. n /\ k + 1 # 0 /\ (k + 1) - 1 = k
        BY <1>3
      <3> QED BY <1>12, <3>1
    <2>2. h \in V /\ \A m \in 1 .. k : h[read[m]] = Home(t, read[m])
      BY <1>3, <1>14
    <2>3. f \in D
      BY <1>3
    <2> HIDE DEF h, f
    <2>4. /\ Put(t, h, f) \in V /\ Put(t, h, f)[f] = Home(t, f)
          /\ \A g \in D \ {f} : Put(t, h, f)[g] = h[g]
      BY <2>2, <2>3, PutHome DEF V
    <2>5. ASSUME NEW m \in 1 .. k + 1 PROVE home[k + 1][read[m]] = Home(t, read[m])
      <3>1. CASE read[m] = f
        BY <2>1, <2>4, <3>1
      <3>2. CASE read[m] # f
        <4>1. m \in 1 .. k
          BY <3>2 DEF f
        <4>2. read[m] \in D
          BY <1>3
        <4> QED BY <2>1, <2>2, <2>4, <3>2, <4>1, <4>2
      <3> QED BY <3>1, <3>2
    <2> QED BY <2>1, <2>4, <2>5
  <1> HIDE DEF T
  <1>15. n \in T
    BY <1>3, <1>13, <1>14, AllOfNat
  <1>16. home[n] \in V /\ \A m \in 1 .. n : home[n][read[m]] = Home(t, read[m])
    BY <1>3, <1>15 DEF T
  <1>17. home[n] = [f \in D |-> home[n][f]] /\ \A f \in D : home[n][f] = Home(t, f)
    BY <1>4, <1>16 DEF V, OnTheWay
  <1> QED BY <1>2, <1>17

------------------------------------------------------------------------------
(* Whatever the order in which it reads the rows, a reload shows every     *)
(* folder of a forest below the parent its row names.                      *)

(* Where a row is shown, and what a window shows of a store.               *)
Lies(r, k, i) == IF r[k][i].up \in DOMAIN r.folder THEN r[k][i].up ELSE Root
Inside(r, k, c) == {i \in DOMAIN r[k] : Lies(r, k, i) = c}
TreeKids(r) == [c \in {Root} \cup DOMAIN r.folder |-> [k \in Kinds |-> Sorted(r[k], Inside(r, k, c))]]
Tidy(r) == Orderly(r.folder) /\ Orderly(r.session) /\ Grounded(r.folder)

LEMMA TidyTables ==
  ASSUME NEW r, Tidy(r), NEW k \in Kinds
  PROVE  Orderly(r[k])
  BY DEF Tidy, Kinds

LEMMA ReloadShows ==
  ASSUME NEW r, Tidy(r)
  PROVE  reload(r).kids = TreeKids(r) /\ DOMAIN reload(r) = {"open", "kids"}
  <1> DEFINE t == r.folder
             home == FolderHomes(t)
             shown == {f \in DOMAIN t : UnderRoot(home, f)}
             where == [folder |-> home, session |-> [s \in DOMAIN r.session |->
                         IF r.session[s].up \in shown THEN r.session[s].up ELSE Root]]
             ids(k) == IF k = "folder" THEN shown ELSE DOMAIN r.session
             open == {f \in shown : t[f].open}
             kids == [c \in {Root} \cup shown |-> [k \in Kinds |-> Sorted(r[k], {i \in ids(k) : where[k][i] = c})]]
  <1>1. reload(r) = [open |-> open, kids |-> kids]
    BY DEF reload
  <1>2. Orderly(t) /\ Grounded(t)
    BY DEF Tidy
  <1>3. home = [f \in DOMAIN t |-> Home(t, f)]
    BY <1>2, HomesAre
  <1>4. home \in OnTheWay(t)
    <2>1. \A f \in DOMAIN t : Home(t, f) \in DOMAIN t \cup {Root}
      BY DEF Home
    <2> HIDE DEF t, home
    <2> QED BY <1>3, <2>1 DEF OnTheWay
  <1>5. shown = DOMAIN t
    <2>1. \A f \in DOMAIN t : UnderRoot(home, f)
      <3> HIDE DEF t, home
      <3> QED BY <1>2, <1>4, PutHome
    <2> QED BY <2>1
  <1>6. ASSUME NEW k \in Kinds PROVE ids(k) = DOMAIN r[k] /\ \A i \in DOMAIN r[k] : where[k][i] = Lies(r, k, i)
    <2>1. k = "folder" \/ k = "session"
      BY DEF Kinds
    <2>2. where.folder = home /\ \A i \in DOMAIN r.session : where.session[i] = Lies(r, "session", i)
      <3> HIDE DEF home, shown
      <3> QED BY <1>5 DEF Lies
    <2>3. \A i \in DOMAIN t : home[i] = Lies(r, "folder", i)
      BY <1>3 DEF Home, Lies
    <2> HIDE DEF where, home, shown
    <2> QED BY <1>5, <2>1, <2>2, <2>3
  <1> HIDE DEF shown, where, home, ids
  <1>7. ASSUME NEW c \in {Root} \cup DOMAIN t, NEW k \in Kinds
        PROVE  {i \in ids(k) : where[k][i] = c} = Inside(r, k, c)
    BY <1>6 DEF Inside
  <1>8. kids = TreeKids(r)
    BY <1>5, <1>7 DEF TreeKids
  <1> HIDE DEF kids, open
  <1> QED BY <1>1, <1>8

(* A window shows the store r.                                             *)
Shows(tr, r) == Tidy(r) /\ DOMAIN tr = {"open", "kids"} /\ tr.kids = TreeKids(r)

LEMMA ShownList ==
  ASSUME NEW tr, NEW r, Shows(tr, r), NEW c \in {Root} \cup DOMAIN r.folder, NEW k \in Kinds
  PROVE  /\ tr.kids[c][k] = Sorted(r[k], Inside(r, k, c))
         /\ InOrder(tr.kids[c][k], Inside(r, k, c), By(r[k], Inside(r, k, c)))
         /\ ToSet(tr.kids[c][k]) = Inside(r, k, c)
         /\ tr.kids[c][k] \in Seq(Inside(r, k, c))
         /\ IsFiniteSet(Inside(r, k, c)) /\ StrictOrder(By(r[k], Inside(r, k, c)), Inside(r, k, c))
         /\ Len(tr.kids[c][k]) = Cardinality(Inside(r, k, c))
  <1>1. tr.kids[c][k] = Sorted(r[k], Inside(r, k, c))
    BY DEF Shows, TreeKids
  <1>2. Orderly(r[k])
    BY TidyTables DEF Shows
  <1>3. Inside(r, k, c) \subseteq DOMAIN r[k]
    BY DEF Inside
  <1>4. /\ InOrder(tr.kids[c][k], Inside(r, k, c), By(r[k], Inside(r, k, c)))
        /\ IsFiniteSet(Inside(r, k, c)) /\ StrictOrder(By(r[k], Inside(r, k, c)), Inside(r, k, c))
    BY <1>1, <1>2, <1>3, RowsInOrder
  <1>5. Len(tr.kids[c][k]) = Cardinality(Inside(r, k, c))
    BY <1>4, OnlyListed
  <1> QED BY <1>1, <1>4, <1>5 DEF InOrder

LEMMA ShownTree ==
  ASSUME NEW tr, NEW r, Shows(tr, r)
  PROVE  /\ Containers(tr) = {Root} \cup DOMAIN r.folder /\ Folders(tr) = DOMAIN r.folder
         /\ \A k \in Kinds : \A i : InTree(tr, k, i) <=> i \in DOMAIN r[k]
         /\ \A k \in Kinds : \A i \in DOMAIN r[k] : HomeOf(tr, k, i) = Lies(r, k, i)
  <1>1. Containers(tr) = {Root} \cup DOMAIN r.folder
    BY DEF Containers, Shows, TreeKids
  <1>2. Root \notin DOMAIN r.folder
    BY DEF Shows, Tidy, Orderly, Root
  <1>3. ASSUME NEW c \in Containers(tr), NEW k \in Kinds PROVE ToSet(tr.kids[c][k]) = Inside(r, k, c)
    BY <1>1, ShownList
  <1>4. ASSUME NEW k \in Kinds, NEW i PROVE InTree(tr, k, i) <=> i \in DOMAIN r[k]
    <2>1. InTree(tr, k, i) <=> \E c \in Containers(tr) : i \in Inside(r, k, c)
      BY <1>3 DEF InTree
    <2>2. i \in DOMAIN r[k] => i \in Inside(r, k, Lies(r, k, i)) /\ Lies(r, k, i) \in Containers(tr)
      BY <1>1 DEF Inside, Lies
    <2>3. \A c : i \in Inside(r, k, c) => i \in DOMAIN r[k]
      BY DEF Inside
    <2> QED BY <2>1, <2>2, <2>3
  <1>5. ASSUME NEW k \in Kinds, NEW i \in DOMAIN r[k] PROVE HomeOf(tr, k, i) = Lies(r, k, i)
    <2>1. \A c \in Containers(tr) : i \in ToSet(tr.kids[c][k]) <=> c = Lies(r, k, i)
      BY <1>3 DEF Inside
    <2>2. Lies(r, k, i) \in Containers(tr)
      BY <1>1 DEF Lies
    <2> QED BY <2>1, <2>2 DEF HomeOf
  <1> QED BY <1>1, <1>2, <1>4, <1>5 DEF Folders

LEMMA AllInTree ==
  ASSUME Tidy(rows)
  PROVE  NothingUnreachable
  <1>1. Shows(reload(rows), rows)
    BY ReloadShows DEF Shows
  <1>2. \A k \in Kinds : \A i \in DOMAIN rows[k] : InTree(reload(rows), k, i)
    BY <1>1, ShownTree
  <1> QED BY <1>2 DEF NothingUnreachable

------------------------------------------------------------------------------
(* Tables that change.                                                     *)

LEMMA OrderlyChange ==
  ASSUME NEW t, Orderly(t), NEW i \in Nat \ {0}, NEW u, DOMAIN u \subseteq DOMAIN t \cup {i},
         \A j \in DOMAIN u : u[j].pos \in Int /\ u[j].name \in Nat
  PROVE  Orderly(u)
  <1>1. IsFiniteSet(DOMAIN t \cup {i})
    BY FS_AddElement DEF Orderly
  <1>2. IsFiniteSet(DOMAIN u)
    BY <1>1, FS_Subset
  <1> QED BY <1>2 DEF Orderly

LEMMA OrderlyInPlace ==
  ASSUME NEW t, Orderly(t), NEW u, DOMAIN u \subseteq DOMAIN t,
         \A j \in DOMAIN u : u[j].pos \in Int /\ u[j].name \in Nat
  PROVE  Orderly(u)
  <1>1. DOMAIN u \subseteq DOMAIN t \cup {1} /\ 1 \in Nat \ {0}
    OBVIOUS
  <1> QED BY <1>1, OrderlyChange

(* Numbers of finitely many rows have a bound.                             *)
LEMMA Bounded ==
  ASSUME NEW D, IsFiniteSet(D), NEW g \in [D -> Nat]
  PROVE  \E b \in Nat : \A x \in D : g[x] <= b
  <1> DEFINE n == Cardinality(D)
  <1>1. n \in Nat /\ ExistsBijection(1 .. n, D)
    BY FS_CardinalityType
  <1>2. PICK e \in Bijection(1 .. n, D) : TRUE
    BY <1>1 DEF ExistsBijection
  <1>3. e \in [1 .. n -> D] /\ \A x \in D : \E m \in 1 .. n : e[m] = x
    BY <1>2 DEF Bijection, Injection, Surjection
  <1> HIDE DEF n
  <1> DEFINE T == {k \in Nat : k <= n => \E b \in Nat : \A m \in 1 .. k : g[e[m]] <= b}
  <1>4. 0 \in T
    <2>1. 1 .. 0 = {} /\ 0 \in Nat
      OBVIOUS
    <2> QED BY <2>1
  <1>5. ASSUME NEW k \in Nat, k \in T PROVE k + 1 \in T
    <2> SUFFICES ASSUME k + 1 <= n PROVE \E b \in Nat : \A m \in 1 .. k + 1 : g[e[m]] <= b
      OBVIOUS
    <2>1. k <= n /\ k + 1 \in 1 .. n
      BY <1>1
    <2>2. PICK b \in Nat : \A m \in 1 .. k : g[e[m]] <= b
      BY <1>5, <2>1
    <2> DEFINE v == g[e[k + 1]]
    <2>3. v \in Nat
      BY <1>3, <2>1
    <2>4. ASSUME NEW m \in 1 .. k + 1 PROVE g[e[m]] <= b + v
      <3>1. CASE m = k + 1
        <4>1. g[e[m]] = v
          BY <3>1
        <4> HIDE DEF v
        <4> QED BY <2>3, <4>1
      <3>2. CASE m # k + 1
        <4>1. m \in 1 .. k /\ m \in 1 .. n
          BY <1>1, <2>1, <3>2
        <4>2. g[e[m]] <= b /\ g[e[m]] \in Nat
          BY <1>3, <2>2, <4>1
        <4> HIDE DEF v
        <4> QED BY <2>3, <4>2
      <3> QED BY <3>1, <3>2
    <2>5. b + v \in Nat
      BY <2>3
    <2> HIDE DEF v
    <2> QED BY <2>4, <2>5
  <1> HIDE DEF T
  <1>6. n \in T
    BY <1>1, <1>4, <1>5, AllOfNat
  <1>7. PICK b \in Nat : \A m \in 1 .. n : g[e[m]] <= b
    BY <1>1, <1>6 DEF T
  <1>8. \A x \in D : g[x] <= b
    BY <1>3, <1>7
  <1> QED BY <1>8

LEMMA NextPosition ==
  ASSUME NEW t, Orderly(t), NEW up
  PROVE  nextPosition(t, up) \in Int
  <1> DEFINE S == {j \in DOMAIN t : t[j].up = up}
             taken == {t[i].pos : i \in S}
             g == [i \in DOMAIN t |-> IF t[i].pos < 0 THEN 0 ELSE t[i].pos]
  <1>1. taken \subseteq Int
    BY DEF Orderly
  <1>2. g \in [DOMAIN t -> Nat] /\ IsFiniteSet(DOMAIN t)
    BY DEF Orderly
  <1>3. PICK b \in Nat : \A i \in DOMAIN t : g[i] <= b
    <2> HIDE DEF g
    <2> QED BY <1>2, Bounded
  <1>4. \A p \in taken : p <= b
    BY <1>3 DEF Orderly
  <1> HIDE DEF taken
  <1>5. CASE taken # {}
    <2> DEFINE T == {b - p : p \in taken}
    <2>1. T \subseteq Nat /\ T # {}
      <3>1. ASSUME NEW p \in taken PROVE b - p \in Nat
        <4>1. p \in Int /\ p <= b
          BY <1>1, <1>4
        <4> QED BY <4>1
      <3> QED BY <1>5, <3>1
    <2>2. PICK d \in T : \A x \in T : d <= x
      <3> HIDE DEF T
      <3> QED BY <2>1, LeastOf
    <2>3. PICK m \in taken : d = b - m
      BY <2>2
    <2>4. \A q \in taken : q <= m
      <3>1. ASSUME NEW q \in taken PROVE q <= m
        <4>1. b - q \in T
          OBVIOUS
        <4>2. b - m <= b - q
          BY <2>2, <2>3, <4>1
        <4>3. m \in Int /\ q \in Int
          BY <1>1
        <4> HIDE DEF T
        <4> QED BY <4>2, <4>3
      <3> QED BY <3>1
    <2> DEFINE most == CHOOSE p \in taken : \A q \in taken : q <= p
    <2>5. most \in taken
      BY <2>4
    <2>6. nextPosition(t, up) = most + 1
      BY <1>5 DEF nextPosition, taken
    <2> HIDE DEF most
    <2>7. most \in Int
      BY <1>1, <2>5
    <2> QED BY <2>6, <2>7
  <1>6. CASE taken = {}
    BY <1>6 DEF nextPosition, taken
  <1> QED BY <1>5, <1>6

------------------------------------------------------------------------------
(* Forests of folders.                                                     *)

(* A table of folders, the last id of which is l: a tree, or several.       *)
Parents(t, l) == \A f \in DOMAIN t : f \in 1 .. l /\ t[f].up \in 0 .. l
Forest(t, l) == Orderly(t) /\ Grounded(t) /\ Parents(t, l) /\ l \in Nat

LEMMA ForestFewer ==
  ASSUME NEW t, NEW l, Forest(t, l), NEW u, DOMAIN u \subseteq DOMAIN t,
         \A f \in DOMAIN u : /\ u[f].pos \in Int /\ u[f].name \in Nat /\ u[f].up \in 0 .. l
                             /\ u[f].up \in DOMAIN u => u[f].up = t[f].up
  PROVE  Forest(u, l)
  <1>1. Orderly(u)
    BY OrderlyInPlace DEF Forest
  <1>2. PICK depth : Descends(Ups(t), depth)
    BY DEF Forest, Grounded
  <1>3. depth \in [DOMAIN t -> Nat] /\ \A x \in DOMAIN t : t[x].up \in DOMAIN t => depth[t[x].up] < depth[x]
    BY <1>2 DEF Descends, Ups
  <1> DEFINE d == [f \in DOMAIN u |-> depth[f]]
  <1>4. Descends(Ups(u), d)
    BY <1>3 DEF Descends, Ups
  <1> HIDE DEF d
  <1>5. Grounded(u)
    BY <1>4 DEF Grounded
  <1>6. Parents(u, l)
    BY DEF Forest, Parents
  <1> QED BY <1>1, <1>5, <1>6 DEF Forest

LEMMA ForestMore ==
  ASSUME NEW t, NEW l, Forest(t, l), NEW row, row.up \in 0 .. l, row.pos \in Int, row.name \in Nat
  PROVE  Forest(With(t, l + 1, row), l + 1)
  <1> DEFINE i == l + 1
             u == With(t, i, row)
             D == DOMAIN t
  <1>1. l \in Nat /\ i \in Nat \ {0} /\ i \notin 0 .. l /\ i \in 1 .. i /\ 0 .. l \subseteq 0 .. i /\ 1 .. l \subseteq 1 .. i
    BY DEF Forest
  <1>2. DOMAIN u = D \cup {i} /\ u[i] = row /\ \A f \in D : f # i => u[f] = t[f]
    BY DEF With
  <1>3. \A f \in D : f \in 1 .. l /\ t[f].up \in 0 .. l
    BY DEF Forest, Parents
  <1>4. \A f \in D : f # i /\ t[f].up # i
    BY <1>1, <1>3
  <1>5. i \notin D /\ row.up # i
    BY <1>1, <1>3
  <1>6. IsFiniteSet(D) /\ D \subseteq Nat \ {0} /\ \A f \in D : t[f].pos \in Int /\ t[f].name \in Nat
    BY DEF Forest, Orderly
  <1> HIDE DEF i, u, D
  <1>7. Orderly(u)
    <2>1. \A f \in DOMAIN u : u[f].pos \in Int /\ u[f].name \in Nat
      BY <1>2, <1>4, <1>6
    <2> QED BY <1>1, <1>2, <2>1, OrderlyChange DEF Forest, D
  <1>8. PICK depth : Descends(Ups(t), depth)
    BY DEF Forest, Grounded
  <1>9. depth \in [D -> Nat] /\ \A x \in D : t[x].up \in D => depth[t[x].up] < depth[x]
    BY <1>8 DEF Descends, Ups, D
  <1> DEFINE own == IF row.up \in D THEN depth[row.up] + 1 ELSE 0
             d == [f \in DOMAIN u |-> IF f = i THEN own ELSE depth[f]]
  <1>10. own \in Nat /\ (row.up \in D => depth[row.up] < own)
    BY <1>9
  <1> HIDE DEF own
  <1>11. d[i] = own /\ DOMAIN d = DOMAIN u /\ \A f \in D : d[f] = depth[f]
    BY <1>2, <1>4
  <1> HIDE DEF d
  <1>12. d \in [DOMAIN u -> Nat]
    <2>1. d = [f \in DOMAIN u |-> d[f]] /\ \A f \in DOMAIN u : d[f] \in Nat
      BY <1>2, <1>9, <1>10, <1>11 DEF d
    <2> QED BY <2>1
  <1>13. ASSUME NEW f \in DOMAIN u, u[f].up \in DOMAIN u PROVE d[u[f].up] < d[f]
    <2>1. CASE f = i
      <3>1. row.up \in D /\ u[f].up = row.up
        BY <1>2, <1>5, <1>13, <2>1
      <3> QED BY <1>10, <1>11, <2>1, <3>1
    <2>2. CASE f # i
      <3>1. f \in D /\ u[f].up = t[f].up /\ t[f].up \in D
        BY <1>2, <1>4, <1>13, <2>2
      <3> QED BY <1>9, <1>11, <3>1
    <2> QED BY <2>1, <2>2
  <1>14. Grounded(u)
    <2>1. Descends(Ups(u), d)
      BY <1>12, <1>13 DEF Descends, Ups
    <2> QED BY <2>1 DEF Grounded
  <1>15. ASSUME NEW f \in DOMAIN u PROVE f \in 1 .. i /\ u[f].up \in 0 .. i
    BY <1>1, <1>2, <1>3, <1>4
  <1> QED BY <1>1, <1>7, <1>14, <1>15 DEF Forest, Parents, i, u

LEMMA ForestInserted ==
  ASSUME NEW t, NEW l, Forest(t, l), NEW up \in 0 .. l, NEW name \in Nat
  PROVE  Forest(Inserted(t, l + 1, NewFolder(up, name)), l + 1)
  <1> DEFINE new == NewFolder(up, name)
             p == nextPosition(t, new.up)
             row == [new EXCEPT !.pos = p]
  <1>1. Inserted(t, l + 1, new) = With(t, l + 1, row)
    BY DEF Inserted
  <1>2. p \in Int
    BY NextPosition DEF Forest
  <1> HIDE DEF p
  <1>3. row.up = up /\ row.name = name /\ row.pos = p
    BY DEF NewFolder
  <1> HIDE DEF row, new
  <1>4. Forest(With(t, l + 1, row), l + 1)
    BY <1>2, <1>3, ForestMore
  <1> QED BY <1>1, <1>4 DEF new

LEMMA OrderlyInserted ==
  ASSUME NEW t, Orderly(t), NEW i \in Nat \ {0}, NEW row, {"pos", "name"} \subseteq DOMAIN row, row.name \in Nat
  PROVE  Orderly(Inserted(t, i, row))
  <1> DEFINE p == nextPosition(t, row.up)
             put == [row EXCEPT !.pos = p]
             u == With(t, i, put)
  <1>1. Inserted(t, i, row) = u
    BY DEF Inserted
  <1>2. p \in Int
    BY NextPosition
  <1> HIDE DEF p
  <1>3. put.name \in Nat /\ put.pos \in Int
    BY <1>2
  <1> HIDE DEF put
  <1>4. DOMAIN u = DOMAIN t \cup {i} /\ \A j \in DOMAIN u : u[j] = IF j = i THEN put ELSE t[j]
    BY DEF With
  <1> HIDE DEF u
  <1>5. \A j \in DOMAIN u : u[j].pos \in Int /\ u[j].name \in Nat
    BY <1>3, <1>4 DEF Orderly
  <1>6. Orderly(u)
    BY <1>4, <1>5, OrderlyChange
  <1> QED BY <1>1, <1>6

(* A folder put under one it is not above.                                 *)
LEMMA ForestMoved ==
  ASSUME NEW t, NEW l, Forest(t, l), NEW i \in DOMAIN t, NEW p \in 0 .. l, i \notin Above(Ups(t), p),
         NEW u, DOMAIN u = DOMAIN t,
         \A f \in DOMAIN t : /\ u[f].pos \in Int /\ u[f].name \in Nat
                             /\ u[f].up = IF f = i THEN p ELSE t[f].up
  PROVE  Forest(u, l)
  <1> DEFINE A == Above(Ups(t), p)
             D == DOMAIN t
  <1>1. PICK depth : Descends(Ups(t), depth)
    BY DEF Forest, Grounded
  <1>2. depth \in [D -> Nat] /\ \A x \in D : t[x].up \in D => depth[t[x].up] < depth[x]
    BY <1>1 DEF Descends, Ups
  <1>3. DOMAIN Ups(t) = D /\ (\A f \in D : Ups(t)[f] = t[f].up) /\ IsFiniteSet(D)
    BY DEF Ups, Forest, Orderly
  <1>4. p \in A /\ \A x \in A : x \in D => t[x].up \in A
    BY <1>1, <1>3, ChainClosed DEF Above
  <1> HIDE DEF A
  <1>5. i \notin A
    BY DEF A
  <1> DEFINE m == IF p \in D THEN depth[p] + 1 ELSE 1
             d == [f \in D |-> IF f \in A THEN depth[f] ELSE depth[f] + m]
  <1>6. m \in Nat \ {0} /\ (p \in D => depth[p] < m)
    BY <1>2
  <1> HIDE DEF m
  <1>7. d \in [D -> Nat] /\ \A f \in D : d[f] = IF f \in A THEN depth[f] ELSE depth[f] + m
    BY <1>2, <1>6
  <1> HIDE DEF d, D
  <1>8. ASSUME NEW f \in D, u[f].up \in D PROVE d[u[f].up] < d[f]
    <2>1. CASE f = i
      <3>1. u[f].up = p /\ f \notin A
        BY <1>5, <2>1 DEF D
      <3>2. d[p] = depth[p] /\ d[f] = depth[f] + m /\ depth[f] \in Nat /\ depth[p] \in Nat /\ depth[p] < m
        BY <1>2, <1>4, <1>6, <1>7, <1>8, <3>1
      <3> QED BY <1>6, <3>1, <3>2
    <2>2. CASE f # i
      <3>1. u[f].up = t[f].up
        BY <2>2 DEF D
      <3> DEFINE x == t[f].up
      <3>2. x \in D /\ depth[x] < depth[f] /\ depth[x] \in Nat /\ depth[f] \in Nat
        BY <1>2, <1>8, <3>1
      <3>3. f \in A => x \in A
        BY <1>4
      <3> HIDE DEF x
      <3>4. d[x] < d[f]
        BY <1>6, <1>7, <3>2, <3>3
      <3> QED BY <3>1, <3>4 DEF x
    <2> QED BY <2>1, <2>2
  <1>9. Grounded(u)
    <2>1. Descends(Ups(u), d)
      BY <1>7, <1>8 DEF Descends, Ups, D
    <2> QED BY <2>1 DEF Grounded
  <1>10. Orderly(u)
    <2>1. DOMAIN u \subseteq DOMAIN t
      OBVIOUS
    <2> QED BY <2>1, OrderlyInPlace DEF Forest
  <1>11. Parents(u, l)
    BY DEF Forest, Parents
  <1> QED BY <1>9, <1>10, <1>11 DEF Forest

------------------------------------------------------------------------------
(* The invariant of what can be reached, while no folder has been put under *)
(* one that was moved unseen: the rows are forests and lists, each window    *)
(* shows a store that was one, and no window at work will put a folder      *)
(* under one below it there.                                               *)

Numbered(row) == row.pos \in Int /\ row.name \in Nat
CopiesPlaced == \A a \in Apps : dialog[a] # None => dialog[a].row.pos \in Int
RowsTidy == Orderly(rows.session) /\ Forest(rows.folder, last.folder)

(* r knows of no folder made after l.                                      *)
Known(r, l) == \A f \in DOMAIN r.folder : f \in 1 .. l
Looks(tr, l) == \E r : Shows(tr, r) /\ Known(r, l)
Windows == DOMAIN tree = Apps /\ \A a \in Apps : Looks(tree[a], last.folder)

Places(c, tr) ==
  /\ "pos" \in DOMAIN c.set => c.set.pos \in Int
  /\ "name" \in DOMAIN c.set => c.set.name \in Nat
  /\ c.kind = "folder" /\ "up" \in DOMAIN c.set =>
       c.set.up \in Containers(tr) /\ c.id \notin Above(ShownParent(tr), c.set.up)
File(doc) == \A n \in DOMAIN doc : doc[n].folder \in Nat /\ doc[n].name \in Nat
PlacedJob(j, tr) ==
  /\ \A k, i, row : InHand(j, k, i, row) => Numbered(row)
  /\ Writing(j) => \A n \in DOMAIN j.todo : Places(j.todo[n], tr)
  /\ j.does = "import" => File(j.todo)
JobsPlaced == \A a \in Apps : PlacedJob(job[a], tree[a])
ReachInv == RowsTidy /\ CopiesPlaced /\ Windows /\ JobsPlaced

LEMMA RowsAreTidy ==
  ASSUME RowsTidy
  PROVE  Tidy(rows)
  BY DEF RowsTidy, Tidy, Forest

LEMMA LooksOn ==
  ASSUME NEW tr, NEW l \in Nat, Looks(tr, l), NEW m \in Nat, l <= m,
         NEW tr2, DOMAIN tr2 = {"open", "kids"}, tr2.kids = tr.kids
  PROVE  Looks(tr2, m)
  <1>1. PICK r : Shows(tr, r) /\ Known(r, l)
    BY DEF Looks
  <1>2. Shows(tr2, r)
    BY <1>1 DEF Shows
  <1>3. Known(r, m)
    <2>1. 1 .. l \subseteq 1 .. m
      OBVIOUS
    <2> QED BY <1>1, <2>1 DEF Known
  <1> QED BY <1>2, <1>3 DEF Looks

LEMMA LooksNow ==
  ASSUME NEW r, Tidy(r), NEW l, Parents(r.folder, l)
  PROVE  Looks(reload(r), l)
  <1>1. Shows(reload(r), r)
    BY ReloadShows DEF Shows
  <1>2. Known(r, l)
    BY DEF Known, Parents
  <1> QED BY <1>1, <1>2 DEF Looks

LEMMA PlacedSame ==
  ASSUME NEW j, NEW tr, PlacedJob(j, tr), NEW tr2, tr2.kids = tr.kids
  PROVE  PlacedJob(j, tr2)
  <1>1. Containers(tr2) = Containers(tr)
    BY DEF Containers
  <1>2. ShownParent(tr2) = ShownParent(tr)
    BY <1>1 DEF ShownParent, Folders, HomeOf
  <1>3. \A c : Places(c, tr) => Places(c, tr2)
    BY <1>1, <1>2 DEF Places
  <1> QED BY <1>3 DEF PlacedJob

LEMMA NoJobPlaced ==
  ASSUME NEW tr
  PROVE  PlacedJob(NoJob, tr)
  <1>1. \A k, i, row : ~InHand(NoJob, k, i, row)
    BY EmptyHand
  <1>2. ~Writing(NoJob) /\ NoJob.does # "import"
    BY DEF Writing, NoJob
  <1> QED BY <1>1, <1>2 DEF PlacedJob

(* What a step of window a may do: it reloads, or all trees stay and its    *)
(* work goes on.                                                           *)
TreesStand == /\ DOMAIN tree' = DOMAIN tree
              /\ \A b \in DOMAIN tree : DOMAIN tree'[b] = DOMAIN tree[b] /\ tree'[b].kids = tree[b].kids
Works(a) == TreesStand /\ OthersAlone(a) /\ PlacedJob(job[a], tree[a])'
Follows(a) == RowsTidy' /\ CopiesPlaced' /\ last.folder <= last'.folder /\ (Loads(a) \/ Works(a))

LEMMA WindowStep ==
  ASSUME TreeInv, ReachInv, NEW a \in Apps, Follows(a)
  PROVE  ReachInv'
  <1>1. RowsTidy' /\ CopiesPlaced' /\ last.folder <= last'.folder
    BY DEF Follows
  <1>2. /\ last.folder \in Nat /\ last'.folder \in Nat /\ Tidy(rows') /\ Parents(rows'.folder, last'.folder)
    BY <1>1 DEF ReachInv, RowsTidy, Forest, Tidy
  <1>3. DOMAIN tree = Apps /\ \A b \in Apps : Looks(tree[b], last.folder)
    BY DEF ReachInv, Windows
  <1>4. \A b \in Apps : DOMAIN tree[b] = {"open", "kids"}
    BY <1>3 DEF Looks, Shows
  <1>5. \A b \in Apps : Looks(tree[b], last'.folder)
    BY <1>1, <1>2, <1>3, <1>4, LooksOn
  <1>6. \A b \in Apps : PlacedJob(job[b], tree[b])
    BY DEF ReachInv, JobsPlaced
  <1>7. CASE Loads(a)
    <2>1. Looks(reload(rows'), last'.folder)
      BY <1>2, LooksNow
    <2>2. tree' = [tree EXCEPT ![a] = reload(rows')] /\ job' = [job EXCEPT ![a] = NoJob]
      BY <1>7 DEF Loads
    <2>3. OthersAlone(a) /\ job'[a] = NoJob
      BY <2>2, JobSet
    <2>4. \A b \in Apps : tree'[b] = IF b = a THEN reload(rows') ELSE tree[b]
      BY <1>3, <2>2
    <2>5. Windows'
      BY <1>3, <1>5, <2>1, <2>2, <2>4 DEF Windows
    <2>6. JobsPlaced'
      <3>1. ASSUME NEW b \in Apps PROVE PlacedJob(job'[b], tree'[b])
        <4>1. CASE b = a
          BY <2>3, <4>1, NoJobPlaced
        <4>2. CASE b # a
          BY <1>6, <2>3, <2>4, <4>2 DEF OthersAlone
        <4> QED BY <4>1, <4>2
      <3> QED BY <3>1 DEF JobsPlaced
    <2> QED BY <1>1, <2>5, <2>6 DEF ReachInv
  <1>8. CASE Works(a)
    <2>1. TreesStand /\ OthersAlone(a) /\ PlacedJob(job[a], tree[a])'
      BY <1>8 DEF Works
    <2>2. Windows'
      <3>1. ASSUME NEW b \in Apps PROVE Looks(tree'[b], last'.folder)
        <4>1. DOMAIN tree'[b] = {"open", "kids"} /\ tree'[b].kids = tree[b].kids
          BY <1>3, <1>4, <2>1 DEF TreesStand
        <4> QED BY <1>1, <1>2, <1>3, <4>1, LooksOn
      <3>2. DOMAIN tree' = Apps
        BY <1>3, <2>1 DEF TreesStand
      <3> QED BY <3>1, <3>2 DEF Windows
    <2>3. JobsPlaced'
      <3>1. ASSUME NEW b \in Apps PROVE PlacedJob(job[b], tree[b])'
        <4>1. CASE b = a
          BY <2>1, <4>1
        <4>2. CASE b # a
          <5>1. job'[b] = job[b] /\ tree'[b].kids = tree[b].kids
            BY <1>3, <2>1, <4>2 DEF TreesStand, OthersAlone
          <5>2. PlacedJob(job[b], tree'[b])
            BY <1>6, <5>1, PlacedSame
          <5> QED BY <5>1, <5>2
        <4> QED BY <4>1, <4>2
      <3> QED BY <3>1 DEF JobsPlaced
    <2> QED BY <1>1, <2>2, <2>3 DEF ReachInv
  <1> QED BY <1>7, <1>8 DEF Follows

------------------------------------------------------------------------------
(* Every step keeps the rows in order: those that load the tree again, and  *)
(* those of the editors.                                                   *)

LEMMA PlacesStay ==
  ASSUME TreeInv, ReachInv, CopiesStay
  PROVE  CopiesPlaced'
  <1>1. DOMAIN dialog = Apps /\ CopiesPlaced
    BY DEF TreeInv, Shape, ReachInv
  <1>2. ASSUME NEW b \in Apps, dialog'[b] # None PROVE dialog'[b].row.pos \in Int
    BY <1>1, <1>2 DEF CopiesStay, CopiesPlaced
  <1> QED BY <1>2 DEF CopiesPlaced

(* Folders and their ids are left as they are.                             *)
FoldersLeft == rows'.folder = rows.folder /\ last'.folder = last.folder

LEMMA SessionsFollow ==
  ASSUME ReachInv, NEW a \in Apps, FoldersLeft, Orderly(rows'.session), CopiesPlaced', Loads(a) \/ Works(a)
  PROVE  Follows(a)
  <1>1. Forest(rows.folder, last.folder)
    BY DEF ReachInv, RowsTidy
  <1>2. rows'.folder = rows.folder /\ last'.folder = last.folder
    BY DEF FoldersLeft
  <1>3. last.folder <= last'.folder
    BY <1>1, <1>2 DEF Forest
  <1> QED BY <1>1, <1>2, <1>3 DEF Follows, RowsTidy

LEMMA FoldersFollow ==
  ASSUME ReachInv, NEW a \in Apps, rows'.session = rows.session, Forest(rows'.folder, last'.folder),
         last.folder <= last'.folder, CopiesPlaced', Loads(a) \/ Works(a)
  PROVE  Follows(a)
  BY DEF Follows, RowsTidy, ReachInv

LEMMA RestWorks ==
  ASSUME TreeInv, ReachInv, NEW a \in Apps, UNCHANGED <<tree, job>>
  PROVE  Works(a)
  <1>1. TreesStand /\ OthersAlone(a)
    BY ShapeFacts DEF Facts, TreesStand, OthersAlone
  <1>2. PlacedJob(job[a], tree[a])
    BY DEF ReachInv, JobsPlaced
  <1>3. PlacedJob(job[a], tree[a])'
    BY <1>2
  <1> QED BY <1>1, <1>3 DEF Works

LEMMA StillReach ==
  ASSUME TreeInv, ReachInv, NEW a \in Apps, UNCHANGED <<rows, last>>, CopiesPlaced', Loads(a) \/ Works(a)
  PROVE  Follows(a)
  <1>1. RowsTidy
    BY DEF ReachInv
  <1>2. last.folder <= last'.folder /\ RowsTidy'
    BY <1>1, ShapeFacts DEF RowsTidy, Forest, Facts
  <1> QED BY <1>2 DEF Follows

(* The ids a window shows were handed out.                                 *)
LEMMA ShownKnown ==
  ASSUME ReachInv, NEW a \in Apps
  PROVE  Containers(tree[a]) \subseteq 0 .. last.folder
  <1>1. Looks(tree[a], last.folder) /\ last.folder \in Nat
    BY DEF ReachInv, Windows, RowsTidy, Forest
  <1>2. PICK r : Shows(tree[a], r) /\ Known(r, last.folder)
    BY <1>1 DEF Looks
  <1>3. Containers(tree[a]) = {Root} \cup DOMAIN r.folder
    BY <1>2, ShownTree
  <1> QED BY <1>1, <1>2, <1>3 DEF Known, Root


LEMMA AddReach ==
  ASSUME TreeInv, ReachInv, NEW a \in Apps, NEW up \in Containers(tree[a]), NEW name \in Names,
         addFolder(a, up, name)
  PROVE  Follows(a)
  <1> DEFINE l == last.folder
             t == Inserted(rows.folder, l + 1, NewFolder(up, name))
  <1>1. /\ rows' = [rows EXCEPT !.folder = t] /\ last' = [last EXCEPT !.folder = l + 1]
        /\ seen' = [seen EXCEPT !.open = @ \cup {l + 1}] /\ UNCHANGED <<filtering, dialog>> /\ Loads(a)
    BY Reloaded DEF addFolder
  <1>2. Forest(rows.folder, l) /\ l \in Nat /\ l + 1 \in Nat
    BY DEF ReachInv, RowsTidy, Forest
  <1>3. last'.folder = l + 1
    BY <1>1, ShapeFacts DEF Facts
  <1>4. up \in 0 .. l /\ name \in Nat
    BY ShownKnown, TreeAssumption
  <1> HIDE DEF l
  <1>5. Forest(t, l + 1)
    BY <1>2, <1>4, ForestInserted
  <1> HIDE DEF t
  <1>6. FoldersAlone /\ rows'.folder = t
    <2>1. \E o : seen' = [seen EXCEPT !.open = o]
      BY <1>1
    <2> QED BY <1>1, <1>2, <2>1, FoldersWritten
  <1>7. CopiesPlaced'
    BY <1>1, CopiesEnd, PlacesStay
  <1>8. l <= last'.folder
    BY <1>2, <1>3
  <1> QED BY <1>1, <1>3, <1>5, <1>6, <1>7, <1>8, FoldersFollow DEF FoldersAlone, l

LEMMA RemoveReach ==
  ASSUME TreeInv, ReachInv, NEW a \in Apps, NEW f, removeFolder(a, f)
  PROVE  Follows(a)
  <1> DEFINE toRoot(t) == [i \in DOMAIN t |-> IF t[i].up = f THEN [t[i] EXCEPT !.up = Root] ELSE t[i]]
             t == rows.folder
             l == last.folder
             folders == toRoot(t)
             s == rows.session
             v == toRoot(s)
             u == [i \in DOMAIN folders \ {f} |-> folders[i]]
  <1>1. rows' = [folder |-> u, session |-> v] /\ UNCHANGED <<last, dialog>> /\ Loads(a)
    BY Reloaded DEF removeFolder, deleteFolder
  <1>2. Forest(t, l) /\ l \in Nat /\ Orderly(s)
    BY DEF ReachInv, RowsTidy, Forest
  <1>3. DOMAIN v = DOMAIN s /\ \A i \in DOMAIN s : v[i].pos = s[i].pos /\ v[i].name = s[i].name
    OBVIOUS
  <1>4. /\ DOMAIN u = DOMAIN t \ {f}
        /\ \A i \in DOMAIN u : u[i].pos = t[i].pos /\ u[i].name = t[i].name
    OBVIOUS
  <1>5. \A i \in DOMAIN u : u[i].up \in {t[i].up, Root}
    <2>1. \A i \in DOMAIN t : DOMAIN t[i] = kFolderCols
      BY DEF TreeInv, Expanded, Opened
    <2>2. ASSUME NEW i \in DOMAIN t \ {f} PROVE u[i].up \in {t[i].up, Root}
      <3> DEFINE row == [t[i] EXCEPT !.up = Root]
      <3>1. u[i] = IF t[i].up = f THEN row ELSE t[i]
        OBVIOUS
      <3>2. row.up = Root
        BY <2>1 DEF kFolderCols
      <3> HIDE DEF row, u
      <3> QED BY <3>1, <3>2
    <2> QED BY <1>4, <2>2
  <1> HIDE DEF u, v, t, s
  <1>6. Orderly(v)
    BY <1>2, <1>3, OrderlyInPlace DEF Orderly
  <1>7. Forest(u, l)
    <2>1. Root \notin DOMAIN t /\ Root \in 0 .. l
      BY <1>2 DEF Forest, Orderly, Root
    <2>2. ASSUME NEW i \in DOMAIN u
          PROVE  /\ u[i].pos \in Int /\ u[i].name \in Nat /\ u[i].up \in 0 .. l
                 /\ u[i].up \in DOMAIN u => u[i].up = t[i].up
      <3>1. i \in DOMAIN t /\ t[i].pos \in Int /\ t[i].name \in Nat /\ t[i].up \in 0 .. l
        BY <1>2, <1>4 DEF Forest, Orderly, Parents
      <3> QED BY <1>4, <1>5, <2>1, <3>1
    <2> QED BY <1>2, <1>4, <2>2, ForestFewer
  <1>8. CopiesPlaced'
    BY <1>1, CopiesEnd, PlacesStay
  <1>9. last.folder <= last'.folder
    BY <1>1, <1>2
  <1>10. rows'.folder = u /\ rows'.session = v
    BY <1>1
  <1> QED BY <1>1, <1>6, <1>7, <1>8, <1>9, <1>10 DEF Follows, RowsTidy, t

(* Steps of the editors and of sessions.                                   *)
LEMMA OpensReach ==
  ASSUME TreeInv, ReachInv, NEW a \in Apps, NEW s, NEW row, row.pos \in Int, OpenDialog(a, s, row)
  PROVE  Follows(a)
  <1> DEFINE d == [id |-> s, row |-> row, folders |-> populateFolders]
  <1>1. dialog' = [dialog EXCEPT ![a] = d] /\ UNCHANGED <<rows, last, tree, job>>
    BY DEF OpenDialog
  <1>2. d.row = row
    OBVIOUS
  <1> HIDE DEF d
  <1>3. DOMAIN dialog = Apps /\ CopiesPlaced
    BY DEF TreeInv, Shape, ReachInv
  <1>4. ASSUME NEW b \in Apps, dialog'[b] # None PROVE dialog'[b].row.pos \in Int
    <2>1. CASE b = a
      BY <1>1, <1>2, <1>3, <2>1
    <2>2. CASE b # a
      <3>1. dialog'[b] = dialog[b]
        BY <1>1, <1>3, <2>2
      <3> QED BY <1>3, <1>4, <3>1 DEF CopiesPlaced
    <2> QED BY <2>1, <2>2
  <1>5. CopiesPlaced'
    BY <1>4 DEF CopiesPlaced
  <1>6. Works(a)
    BY <1>1, RestWorks
  <1> QED BY <1>1, <1>5, <1>6, StillReach

LEMMA ReadRow ==
  ASSUME ReachInv, NEW s \in DOMAIN rows.session
  PROVE  /\ getSession(s).pos \in Int /\ getSession(s).name \in Nat
         /\ DOMAIN getSession(s) = Columns
  <1>1. rows.session[s].pos \in Int /\ rows.session[s].name \in Nat
    BY DEF ReachInv, RowsTidy, Orderly
  <1> QED BY <1>1 DEF getSession, readSession, Columns, kSchema, kAddedColumns

LEMMA EditReach ==
  ASSUME TreeInv, ReachInv, NEW a \in Apps, NEW s, editSession(a, s)
  PROVE  Follows(a)
  <1>1. OpenDialog(a, s, getSession(s)) /\ s \in DOMAIN rows.session
    BY DEF editSession
  <1>2. getSession(s).pos \in Int
    BY <1>1, ReadRow
  <1> QED BY <1>1, <1>2, OpensReach

LEMMA NewReach ==
  ASSUME TreeInv, ReachInv, NEW a \in Apps, addSession(a)
  PROVE  Follows(a)
  <1> DEFINE h == CHOOSE h \in Hosts : TRUE
             row == NewSession(Root, 0, h)
  <1>1. OpenDialog(a, 0, row)
    BY DEF addSession
  <1> HIDE DEF h
  <1>2. row.pos \in Int
    BY DEF NewSession
  <1> HIDE DEF row
  <1> QED BY <1>1, <1>2, OpensReach

LEMMA CancelReach ==
  ASSUME TreeInv, ReachInv, NEW a \in Apps, cancel(a)
  PROVE  Follows(a)
  <1>1. UNCHANGED <<rows, last, tree, job>> /\ dialog' = [dialog EXCEPT ![a] = None]
    BY DEF cancel
  <1>2. CopiesPlaced' /\ Works(a)
    BY <1>1, CopiesEnd, PlacesStay, RestWorks
  <1> QED BY <1>1, <1>2, StillReach

LEMMA EditedPlace ==
  ASSUME TreeInv, ReachInv, NEW a \in Apps, dialog[a] # None, NEW up, NEW name \in Names, NEW host, NEW own
  PROVE  /\ Edited(dialog[a], up, name, host, own).pos \in Int
         /\ Edited(dialog[a], up, name, host, own).name \in Nat
  <1> DEFINE row == dialog[a].row
  <1>1. DOMAIN row = Columns /\ row.pos \in Int /\ name \in Nat
    BY TreeAssumption DEF TreeInv, Copies, ReachInv, CopiesPlaced
  <1>2. Edited(dialog[a], up, name, host, own)
          = [row EXCEPT !.up = up, !.name = name, !.host = host, !.own = own]
    BY DEF Edited
  <1> HIDE DEF row
  <1> QED BY <1>1, <1>2 DEF Columns, kSchema, kAddedColumns

LEMMA OrderlyUpdated ==
  ASSUME NEW t, Orderly(t), NEW s, NEW row, {"pos", "name"} \subseteq DOMAIN row, Numbered(row)
  PROVE  Orderly(updateSession(t, s, row))
  <1> DEFINE u == updateSession(t, s, row)
  <1>1. CASE s \notin DOMAIN t
    BY <1>1 DEF updateSession
  <1>2. CASE s \in DOMAIN t
    <2> DEFINE new == [row EXCEPT !.count = t[s].count]
    <2>1. u = [t EXCEPT ![s] = new]
      BY <1>2 DEF updateSession, Updated, bindWritable
    <2>2. new.pos \in Int /\ new.name \in Nat
      BY DEF Numbered
    <2> HIDE DEF new, u
    <2>3. DOMAIN u = DOMAIN t /\ \A j \in DOMAIN u : u[j].pos \in Int /\ u[j].name \in Nat
      BY <2>1, <2>2 DEF Orderly
    <2>4. Orderly(u)
      BY <2>3, OrderlyInPlace
    <2> QED BY <2>4 DEF u
  <1> QED BY <1>1, <1>2

LEMMA SaveReach ==
  ASSUME TreeInv, ReachInv, NEW a \in Apps, NEW up, NEW name \in Names, NEW host, NEW own,
         saveEdited(a, up, name, host, own)
  PROVE  Follows(a)
  <1> DEFINE s == dialog[a].id
             row == Edited(dialog[a], up, name, host, own)
             t == rows.session
             u == updateSession(t, s, row)
  <1>1. /\ dialog[a] # None /\ rows' = [rows EXCEPT !.session = u]
        /\ dialog' = [dialog EXCEPT ![a] = None] /\ UNCHANGED last /\ Loads(a)
    BY Reloaded DEF saveEdited
  <1>2. {"pos", "name"} \subseteq DOMAIN row /\ Numbered(row)
    <2>1. DOMAIN row = Columns
      BY <1>1, EditedRow
    <2> QED BY <1>1, <2>1, EditedPlace DEF Columns, kSchema, Numbered
  <1>3. Orderly(t)
    BY DEF ReachInv, RowsTidy
  <1> HIDE DEF row, t
  <1>4. Orderly(u)
    BY <1>2, <1>3, OrderlyUpdated
  <1> HIDE DEF u
  <1>5. FoldersLeft /\ rows'.session = u
    BY <1>1, ShapeFacts DEF Facts, FoldersLeft
  <1>6. CopiesPlaced'
    BY <1>1, CopiesEnd, PlacesStay
  <1> QED BY <1>1, <1>4, <1>5, <1>6, SessionsFollow

LEMMA InsertReach ==
  ASSUME TreeInv, ReachInv, NEW a \in Apps, NEW row, DOMAIN row = Columns, row.name \in Nat,
         Insert(last.session + 1, row), CopiesStay, Loads(a) \/ Works(a)
  PROVE  Follows(a)
  <1> DEFINE s == last.session + 1
             new == [row EXCEPT !.count = 0]
             t == Inserted(rows.session, s, new)
  <1>1. last.session \in Nat /\ s \in Nat \ {0}
    BY ShapeFacts DEF Facts
  <1>2. rows' = [rows EXCEPT !.session = t] /\ last' = [last EXCEPT !.session = s]
    BY DEF Insert
  <1>3. {"pos", "name"} \subseteq DOMAIN new /\ new.name \in Nat
    BY DEF Columns, kSchema, kAddedColumns
  <1>4. Orderly(rows.session)
    BY DEF ReachInv, RowsTidy
  <1> HIDE DEF new, s
  <1>5. Orderly(t)
    BY <1>1, <1>3, <1>4, OrderlyInserted
  <1> HIDE DEF t
  <1>6. FoldersLeft /\ rows'.session = t
    BY <1>2, ShapeFacts DEF Facts, FoldersLeft
  <1>7. CopiesPlaced'
    BY PlacesStay
  <1> QED BY <1>5, <1>6, <1>7, SessionsFollow

LEMMA SaveNewReach ==
  ASSUME TreeInv, ReachInv, NEW a \in Apps, NEW up, NEW name \in Names, NEW host, NEW own,
         saveNew(a, up, name, host, own)
  PROVE  Follows(a)
  <1> DEFINE row == Edited(dialog[a], up, name, host, own)
  <1>1. /\ dialog[a] # None /\ Insert(last.session + 1, row)
        /\ dialog' = [dialog EXCEPT ![a] = None] /\ Loads(a)
    BY Reloaded DEF saveNew
  <1>2. DOMAIN row = Columns /\ row.name \in Nat
    BY <1>1, EditedRow, EditedPlace
  <1> HIDE DEF row
  <1>3. CopiesStay
    BY <1>1, CopiesEnd
  <1> QED BY <1>1, <1>2, <1>3, InsertReach

LEMMA CopyReach ==
  ASSUME TreeInv, ReachInv, NEW a \in Apps, NEW s, duplicateSession(a, s)
  PROVE  Follows(a)
  <1>1. /\ s \in DOMAIN rows.session /\ Insert(last.session + 1, getSession(s))
        /\ UNCHANGED dialog /\ Loads(a)
    BY Reloaded DEF duplicateSession
  <1>2. DOMAIN getSession(s) = Columns /\ getSession(s).name \in Nat
    BY <1>1, ReadRow
  <1>3. CopiesStay
    BY <1>1, CopiesEnd
  <1> QED BY <1>1, <1>2, <1>3, InsertReach

LEMMA DeleteReach ==
  ASSUME TreeInv, ReachInv, NEW a \in Apps, NEW s, deleteSession(a, s)
  PROVE  Follows(a)
  <1> DEFINE t == rows.session
             u == Without(t, s)
  <1>1. /\ rows' = [rows EXCEPT !.session = u]
        /\ UNCHANGED <<last, dialog>> /\ Loads(a)
    BY Reloaded DEF deleteSession
  <1>2. Orderly(t)
    BY DEF ReachInv, RowsTidy
  <1>3. DOMAIN u \subseteq DOMAIN t /\ \A j \in DOMAIN u : u[j] = t[j]
    BY DEF Without
  <1> HIDE DEF u
  <1>4. Orderly(u)
    <2>1. \A j \in DOMAIN u : u[j].pos \in Int /\ u[j].name \in Nat
      BY <1>2, <1>3 DEF Orderly
    <2> HIDE DEF t
    <2> QED BY <1>2, <1>3, <2>1, OrderlyInPlace
  <1>5. FoldersLeft /\ rows'.session = u
    BY <1>1, ShapeFacts DEF Facts, FoldersLeft
  <1>6. CopiesPlaced'
    BY <1>1, CopiesEnd, PlacesStay
  <1> QED BY <1>1, <1>4, <1>5, <1>6, SessionsFollow

LEMMA ConnectReach ==
  ASSUME TreeInv, ReachInv, NEW a \in Apps, NEW s, emitConnect(a, s)
  PROVE  Follows(a)
  <1> DEFINE t == rows.session
             new == [t[s] EXCEPT !.count = @ + 1]
             u == recordConnect(t, s)
  <1>1. /\ rows' = [rows EXCEPT !.session = u]
        /\ UNCHANGED <<last, dialog, tree, job>> /\ s \in DOMAIN t
    BY DEF emitConnect
  <1>2. Orderly(t)
    BY DEF ReachInv, RowsTidy
  <1>3. u = [t EXCEPT ![s] = new]
    BY DEF recordConnect
  <1>4. new.pos = t[s].pos /\ new.name = t[s].name
    OBVIOUS
  <1> HIDE DEF u, new, t
  <1>5. Orderly(u)
    <2>1. DOMAIN u = DOMAIN t /\ \A j \in DOMAIN t : u[j].pos = t[j].pos /\ u[j].name = t[j].name
      BY <1>3, <1>4
    <2> QED BY <1>2, <2>1, OrderlyInPlace DEF Orderly
  <1>6. FoldersLeft /\ rows'.session = u
    BY <1>1, ShapeFacts DEF Facts, FoldersLeft
  <1>7. CopiesPlaced' /\ Works(a)
    BY <1>1, CopiesEnd, PlacesStay, RestWorks
  <1> QED BY <1>1, <1>5, <1>6, <1>7, SessionsFollow

LEMMA ReopenReach ==
  ASSUME TreeInv, ReachInv, NEW a \in Apps, Reopen(a)
  PROVE  Follows(a)
  <1> DEFINE t == rows.session
             u == [s \in DOMAIN t |-> Filled(t[s], kAddedColumns, Start)]
  <1>1. /\ rows' = [rows EXCEPT !.session = u] /\ dialog' = [dialog EXCEPT ![a] = None]
        /\ UNCHANGED last /\ Loads(a)
    BY Reloaded DEF Reopen, migrate
  <1>2. Orderly(t) /\ \A s \in DOMAIN t : DOMAIN t[s] = Columns
    BY DEF ReachInv, RowsTidy, TreeInv, Sessions, Tally
  <1>3. /\ DOMAIN u = DOMAIN t
        /\ \A s \in DOMAIN t : /\ DOMAIN u[s] = Columns
                               /\ \A c \in DOMAIN t[s] : u[s][c] = t[s][c]
    <2> DEFINE v == u
    <2>1. v = u
      OBVIOUS
    <2> HIDE DEF v, t
    <2> QED BY <1>2, <2>1, Migrated
  <1> HIDE DEF u, t
  <1>4. \A s \in DOMAIN u : u[s].pos = t[s].pos /\ u[s].name = t[s].name
    BY <1>2, <1>3 DEF Columns, kSchema, kAddedColumns
  <1>5. Orderly(u)
    BY <1>2, <1>3, <1>4, OrderlyInPlace DEF Orderly
  <1>6. FoldersLeft /\ rows'.session = u
    BY <1>1, ShapeFacts DEF Facts, FoldersLeft
  <1>7. CopiesPlaced'
    BY <1>1, CopiesEnd, PlacesStay
  <1> QED BY <1>1, <1>5, <1>6, <1>7, SessionsFollow

------------------------------------------------------------------------------
(* The work of a window.                                                   *)

LEMMA WorkReach ==
  ASSUME TreeInv, ReachInv, NEW a \in Apps, UNCHANGED <<rows, last, dialog>>, OthersAlone(a), TreesStand,
         PlacedJob(job'[a], tree[a])
  PROVE  Follows(a)
  <1>1. tree'[a].kids = tree[a].kids
    BY ShapeFacts DEF Facts, TreesStand
  <1>2. PlacedJob(job'[a], tree'[a])
    BY <1>1, PlacedSame
  <1>3. Works(a)
    BY <1>2 DEF Works
  <1>4. CopiesPlaced'
    BY CopiesEnd, PlacesStay
  <1> QED BY <1>3, <1>4, StillReach

LEMMA TreesLeft ==
  ASSUME UNCHANGED tree
  PROVE  TreesStand
  BY DEF TreesStand

LEMMA FreshPlaced ==
  ASSUME NEW tr, NEW j, Writer(j), j.copy = None, \A n \in DOMAIN j.todo : Places(j.todo[n], tr)
  PROVE  PlacedJob(j, tr)
  <1>1. \A k, i, row : ~InHand(j, k, i, row)
    BY EmptyHand DEF Writer
  <1>2. j.does # "import"
    BY DEF Writer, Writing
  <1> QED BY <1>1, <1>2 DEF PlacedJob

LEMMA BeginReach ==
  ASSUME TreeInv, ReachInv, NEW a \in Apps, NEW j, job' = [job EXCEPT ![a] = j],
         UNCHANGED <<rows, last, dialog>>, TreesStand, PlacedJob(j, tree[a])
  PROVE  Follows(a)
  <1>1. OthersAlone(a) /\ job'[a] = j
    BY JobSet
  <1> QED BY <1>1, WorkReach

LEMMA RewritePlaced ==
  ASSUME NEW does, does \in {"drop", "rename", "open", "restore"}, NEW todo, NEW drop, NEW mine, NEW tr,
         \A n \in DOMAIN todo : Task(todo[n], does) /\ Places(todo[n], tr)
  PROVE  PlacedJob(Rewrite(does, todo, drop, mine), tr)
  <1> DEFINE j == Rewrite(does, todo, drop, mine)
  <1>1. Writer(j) /\ j.copy = None
    BY RewriteIs
  <1>2. j.todo = todo
    BY DEF Rewrite
  <1> HIDE DEF j
  <1>3. PlacedJob(j, tr)
    BY <1>1, <1>2, FreshPlaced
  <1> QED BY <1>3 DEF j

LEMMA RenameReach ==
  ASSUME TreeInv, ReachInv, NEW a \in Apps, NEW f, NEW name \in Names, renameFolder(a, f, name)
  PROVE  Follows(a)
  <1> DEFINE c == Change("folder", f, [name |-> name])
             todo == <<c>>
             j == Rewrite("rename", todo, None, None)
  <1>1. job' = [job EXCEPT ![a] = j] /\ UNCHANGED <<rows, last, tree, dialog>>
    BY DEF renameFolder
  <1>2. Task(c, "rename")
    BY DEF Task, Change, Kinds
  <1>3. name \in Nat
    BY TreeAssumption
  <1>4. Places(c, tree[a])
    BY <1>3 DEF Places, Change
  <1>5. \A n \in DOMAIN todo : todo[n] = c
    OBVIOUS
  <1> HIDE DEF c, todo
  <1>6. PlacedJob(j, tree[a])
    BY <1>2, <1>4, <1>5, RewritePlaced
  <1> HIDE DEF j
  <1>7. TreesStand
    BY <1>1, TreesLeft
  <1> QED BY <1>1, <1>6, <1>7, BeginReach

LEMMA OpenStands ==
  ASSUME TreeInv, NEW a \in Apps, NEW open, tree' = [tree EXCEPT ![a] = [tree[a] EXCEPT !.open = open]]
  PROVE  TreesStand
  <1>1. DOMAIN tree = Apps
    BY ShapeFacts DEF Facts
  <1>2. ASSUME NEW b \in Apps PROVE DOMAIN tree'[b] = DOMAIN tree[b] /\ tree'[b].kids = tree[b].kids
    <2>1. CASE b = a
      BY <1>1, <2>1
    <2>2. CASE b # a
      BY <1>1, <2>2
    <2> QED BY <2>1, <2>2
  <1>3. DOMAIN tree' = DOMAIN tree
    OBVIOUS
  <1> QED BY <1>1, <1>2, <1>3 DEF TreesStand

LEMMA ExpandReach ==
  ASSUME TreeInv, ReachInv, NEW a \in Apps, NEW f, setExpanded(a, f)
  PROVE  Follows(a)
  <1> DEFINE g == [folder |-> f, on |-> f \notin tree[a].open]
             told == onExpanded(filtering[a], tree[a], {g})
             seq == SetToSeq({g})
             todo == [n \in DOMAIN seq |-> Change("folder", seq[n].folder, [open |-> seq[n].on])]
             j == Rewrite("open", todo, None, None)
             c == Change("folder", g.folder, [open |-> g.on])
  <1>1. Record(a, "open", tree[a], told) /\ UNCHANGED <<rows, last, dialog>>
    BY DEF setExpanded
  <1>2. told = {} \/ told = {g}
    BY DEF onExpanded
  <1>3. TreesStand
    <2>1. PICK open : tree' = [tree EXCEPT ![a] = [tree[a] EXCEPT !.open = open]]
      BY <1>1 DEF Record
    <2> QED BY <2>1, OpenStands
  <1>4. CASE told = {}
    <2>1. job' = [job EXCEPT ![a] = NoJob]
      <3> HIDE DEF told
      <3>1. Record(a, "open", tree[a], {})
        BY <1>1, <1>4
      <3> QED BY <3>1, RecordedNothing
    <2>2. PlacedJob(NoJob, tree[a])
      BY NoJobPlaced
    <2> QED BY <1>1, <1>3, <2>1, <2>2, BeginReach
  <1>5. CASE told = {g}
    <2>1. \A n \in DOMAIN seq : seq[n] = g
      <3> HIDE DEF g
      <3> QED BY OneInSeq
    <2>2. g.on \in BOOLEAN
      OBVIOUS
    <2> HIDE DEF g
    <2>3. Task(c, "open")
      BY <2>2 DEF Task, Change, Kinds
    <2>4. Places(c, tree[a])
      BY DEF Places, Change
    <2>5. \A n \in DOMAIN todo : todo[n] = c
      BY <2>1
    <2> HIDE DEF c
    <2>6. PlacedJob(j, tree[a])
      <3> HIDE DEF todo
      <3> QED BY <2>3, <2>4, <2>5, RewritePlaced
    <2>7. job' = [job EXCEPT ![a] = j]
      <3>1. Record(a, "open", tree[a], {g})
        <4> HIDE DEF told
        <4> QED BY <1>1, <1>5
      <3>2. {g} # {}
        OBVIOUS
      <3> QED BY <3>1, <3>2 DEF Record
    <2> HIDE DEF j
    <2> QED BY <1>1, <1>3, <2>6, <2>7, BeginReach
  <1> QED BY <1>2, <1>4, <1>5

LEMMA FilterReach ==
  ASSUME TreeInv, ReachInv, NEW a \in Apps, NEW fs, applyFilter(a, fs)
  PROVE  Follows(a)
  <1>1. /\ UNCHANGED <<rows, last, dialog, seen>>
        /\ tree' = [tree EXCEPT ![a] = [tree[a] EXCEPT !.open = tree[a].open]]
        /\ job' = [job EXCEPT ![a] = NoJob]
    BY ApplyFilter
  <1>2. TreesStand
    BY <1>1, OpenStands
  <1>3. PlacedJob(NoJob, tree[a])
    BY NoJobPlaced
  <1> QED BY <1>1, <1>2, <1>3, BeginReach

(* The folders above a folder are no deeper than it.                       *)
LEMMA NoneDeeper ==
  ASSUME NEW parent, IsFiniteSet(DOMAIN parent), NEW depth, Descends(parent, depth), NEW f,
         NEW x \in Above(parent, f), x \in DOMAIN parent
  PROVE  f \in DOMAIN parent /\ depth[x] <= depth[f]
  <1> DEFINE n == Cardinality(DOMAIN parent)
             c == Chain(parent, f)
             D == DOMAIN parent
             T == {k \in Nat : k <= n /\ c[k] \in D => f \in D /\ depth[c[k]] <= depth[f]}
  <1>1. /\ n \in Nat /\ DOMAIN c = 0 .. n /\ c[0] = f
        /\ \A k \in 1 .. n : c[k] = Link(parent, c[k - 1])
    BY ChainIs
  <1>2. /\ \A y \in D : depth[y] \in Nat
        /\ \A y \in D : parent[y] \in D => depth[parent[y]] < depth[y]
    BY DEF Descends
  <1>3. PICK k \in 0 .. n : c[k] = x
    BY <1>1 DEF Above, Range
  <1> HIDE DEF c, n, D
  <1>4. 0 \in T
    BY <1>1, <1>2
  <1>5. ASSUME NEW m \in Nat, m \in T PROVE m + 1 \in T
    <2> SUFFICES ASSUME m + 1 <= n, c[m + 1] \in D PROVE f \in D /\ depth[c[m + 1]] <= depth[f]
      OBVIOUS
    <2>1. m + 1 \in 1 .. n /\ (m + 1) - 1 = m /\ m <= n
      BY <1>1
    <2>2. c[m + 1] = Link(parent, c[m])
      BY <1>1, <2>1
    <2>3. CASE c[m] \in D
      <3>1. c[m + 1] = parent[c[m]]
        BY <2>2, <2>3 DEF Link, D
      <3>2. depth[c[m + 1]] < depth[c[m]]
        BY <1>2, <2>3, <3>1
      <3>3. f \in D /\ depth[c[m]] <= depth[f]
        BY <1>5, <2>1, <2>3
      <3> QED BY <1>2, <2>3, <3>2, <3>3
    <2>4. CASE c[m] \notin D
      <3>1. c[m + 1] = c[m]
        BY <2>2, <2>4 DEF Link, D
      <3> QED BY <2>4, <3>1
    <2> QED BY <2>3, <2>4
  <1> HIDE DEF T
  <1>6. k \in Nat /\ k <= n
    BY <1>1
  <1>7. Nat \subseteq T
    BY <1>4, <1>5, AllOfNat
  <1> QED BY <1>3, <1>6, <1>7 DEF T, D

(* The folders in a container are not above it.                            *)
LEMMA KidsNotAbove ==
  ASSUME NEW tr, NEW l, Looks(tr, l), NEW c \in Containers(tr), NEW x \in ToSet(tr.kids[c]["folder"])
  PROVE  x \notin Above(ShownParent(tr), c)
  <1> DEFINE P == ShownParent(tr)
  <1>1. PICK r : Shows(tr, r) /\ Known(r, l)
    BY DEF Looks
  <1> DEFINE t == r.folder
             D == DOMAIN t
  <1>2. /\ Containers(tr) = {Root} \cup D /\ Folders(tr) = D /\ "folder" \in Kinds
        /\ \A i \in D : HomeOf(tr, "folder", i) = Lies(r, "folder", i)
    BY <1>1, ShownTree DEF Kinds
  <1>3. x \in Inside(r, "folder", c)
    BY <1>1, <1>2, ShownList
  <1>4. x \in D /\ Lies(r, "folder", x) = c
    BY <1>3 DEF Inside
  <1>5. DOMAIN P = D /\ \A i \in D : P[i] = IF t[i].up \in D THEN t[i].up ELSE Root
    BY <1>2 DEF ShownParent, Lies
  <1>6. IsFiniteSet(D) /\ Root \notin D /\ Grounded(t)
    BY <1>1 DEF Shows, Tidy, Orderly, Root
  <1>7. PICK depth : Descends(Ups(t), depth)
    BY <1>6 DEF Grounded
  <1>8. depth \in [D -> Nat] /\ \A i \in D : t[i].up \in D => depth[t[i].up] < depth[i]
    BY <1>7 DEF Descends, Ups
  <1>9. P[x] = c
    BY <1>2, <1>4 DEF ShownParent
  <1> HIDE DEF P, D
  <1>10. Descends(P, depth)
    BY <1>5, <1>6, <1>8 DEF Descends
  <1>11. ASSUME x \in Above(P, c) PROVE FALSE
    <2>1. c \in D /\ depth[x] <= depth[c]
      BY <1>4, <1>5, <1>6, <1>10, <1>11, NoneDeeper
    <2>2. depth[c] < depth[x]
      BY <1>4, <1>5, <1>9, <1>10, <2>1 DEF Descends
    <2> QED BY <1>4, <1>8, <2>1, <2>2
  <1> QED BY <1>11 DEF P

(* What is ordered are the items of the container and the moved one.       *)
LEMMA OrderedItems ==
  ASSUME NEW A, NEW kids \in Seq(A), NEW i \in A, NEW gap \in Nat
  PROVE  Ordered(kids, i, gap) \in Seq(A)
  <1> DEFINE others == Kept(kids, ToSet(kids) \ {i})
             g == IF gap < Len(others) THEN gap ELSE Len(others)
  <1>1. others \in Seq(A)
    BY KeptItems
  <1>2. Ordered(kids, i, gap) = InsertAt(others, g + 1, i)
    BY DEF Ordered
  <1> HIDE DEF others
  <1>3. g \in 0 .. Len(others)
    BY <1>1
  <1> HIDE DEF g
  <1> QED BY <1>1, <1>2, <1>3, InsertedAt

Placings(s, tr) == \E T : s \in Seq(T) /\ \A x \in T : Places(x, tr)

LEMMA PlacingsJoin ==
  ASSUME NEW tr, NEW s, NEW t, Placings(s, tr), Placings(t, tr)
  PROVE  Placings(s \o t, tr)
  <1>1. PICK S : s \in Seq(S) /\ \A x \in S : Places(x, tr)
    BY DEF Placings
  <1>2. PICK T : t \in Seq(T) /\ \A x \in T : Places(x, tr)
    BY DEF Placings
  <1>3. s \in Seq(S \cup T) /\ t \in Seq(S \cup T)
    BY <1>1, <1>2, SeqMore
  <1>4. s \o t \in Seq(S \cup T)
    BY <1>3, ConcatProperties
  <1>5. \A x \in S \cup T : Places(x, tr)
    BY <1>1, <1>2
  <1> QED BY <1>4, <1>5 DEF Placings

LEMMA PlacingsMade ==
  ASSUME NEW tr, NEW s, IsList(s), s = [n \in DOMAIN s |-> s[n]], \A n \in DOMAIN s : Places(s[n], tr)
  PROVE  Placings(s, tr)
  <1>1. s \in Seq(ToSet(s))
    BY ListSeq
  <1>2. \A x \in ToSet(s) : Places(x, tr)
    BY DEF ToSet
  <1> QED BY <1>1, <1>2 DEF Placings

LEMMA PosPlaces ==
  ASSUME NEW tr, NEW k, NEW i, NEW pos \in Int
  PROVE  Places(Change(k, i, [pos |-> pos]), tr)
  BY DEF Places, Change

LEMMA UpPlaces ==
  ASSUME NEW tr, NEW k, NEW i, NEW c \in Containers(tr), k = "folder" => i \notin Above(ShownParent(tr), c),
         NEW pos \in Int
  PROVE  Places(Change(k, i, [up |-> c, pos |-> pos]), tr)
  BY DEF Places, Change

(* A drop puts no folder under one below it in the tree the user saw.      *)
LEMMA DropPlaces ==
  ASSUME NEW tr, NEW l, Looks(tr, l), NEW k \in Kinds, NEW i, NEW c, canDropMimeData(tr, k, i, c), NEW at \in Nat
  PROVE  \A n \in DOMAIN dropChanges(tr, k, i, c, at) : Places(dropChanges(tr, k, i, c, at)[n], tr)
  <1> DEFINE gap == SubIndex(tr, k, i, c, at)
             ordered == Ordered(tr.kids[c][k], i, gap)
             source == HomeOf(tr, k, i)
             kids == tr.kids[source]
             first == [n \in DOMAIN ordered |-> Change(k, ordered[n], [up |-> c, pos |-> n - 1])]
             left(kk) == Kept(kids[kk], ToSet(kids[kk]) \ (IF kk = k THEN {i} ELSE {}))
             again(kk) == [n \in DOMAIN left(kk) |-> Change(kk, left(kk)[n], [pos |-> n - 1])]
             rest == IF source = c THEN <<>> ELSE reorderWithin(kids, k, i)
  <1>1. PICK r : Shows(tr, r) /\ Known(r, l)
    BY DEF Looks
  <1>2. c \in Containers(tr) /\ InTree(tr, k, i) /\ (k = "folder" => i \notin Above(ShownParent(tr), c))
    BY DEF canDropMimeData, isDescendantOf, Above, ShownParent
  <1>3. source \in Containers(tr)
    BY <1>2 DEF HomeOf, InTree
  <1>4. \A d \in Containers(tr), kk \in Kinds : IsList(tr.kids[d][kk]) /\ tr.kids[d][kk] \in Seq(ToSet(tr.kids[d][kk]))
    <2>1. Containers(tr) = {Root} \cup DOMAIN r.folder
      BY <1>1, ShownTree
    <2>2. ASSUME NEW d \in Containers(tr), NEW kk \in Kinds
          PROVE  IsList(tr.kids[d][kk]) /\ tr.kids[d][kk] \in Seq(ToSet(tr.kids[d][kk]))
      <3>1. tr.kids[d][kk] \in Seq(Inside(r, kk, d)) /\ ToSet(tr.kids[d][kk]) = Inside(r, kk, d)
        BY <1>1, <2>1, ShownList
      <3> QED BY <3>1, SeqList
    <2> QED BY <2>2
  <1>5. ordered \in Seq(ToSet(tr.kids[c][k]) \cup {i})
    <2> DEFINE A == ToSet(tr.kids[c][k]) \cup {i}
               s == tr.kids[c][k]
    <2>1. gap \in Nat
      BY SubIndexIsNat
    <2>2. s \in Seq(A) /\ i \in A
      BY <1>2, <1>4, SeqMore
    <2> HIDE DEF gap, A, s
    <2>3. Ordered(s, i, gap) \in Seq(A)
      BY <2>1, <2>2, OrderedItems
    <2> QED BY <2>3 DEF s, A
  <1> HIDE DEF ordered
  <1>6. Placings(first, tr)
    <2>1. IsList(ordered) /\ \A n \in DOMAIN ordered : ordered[n] \in ToSet(tr.kids[c][k]) \cup {i} /\ n \in Nat
      BY <1>5 DEF IsList
    <2>2. IsList(first) /\ first = [n \in DOMAIN first |-> first[n]]
      BY <2>1 DEF IsList
    <2>3. ASSUME NEW n \in DOMAIN ordered PROVE Places(first[n], tr)
      <3>1. k = "folder" => ordered[n] \notin Above(ShownParent(tr), c)
        BY <1>2, <2>1, KidsNotAbove
      <3>2. n - 1 \in Int
        BY <2>1
      <3>3. Places(Change(k, ordered[n], [up |-> c, pos |-> n - 1]), tr)
        BY <1>2, <3>1, <3>2, UpPlaces
      <3> QED BY <3>3
    <2>4. DOMAIN first = DOMAIN ordered
      OBVIOUS
    <2> HIDE DEF first
    <2> QED BY <2>2, <2>3, <2>4, PlacingsMade
  <1>7. ASSUME NEW kk \in Kinds PROVE Placings(again(kk), tr)
    <2> DEFINE s == left(kk)
               t == [n \in DOMAIN s |-> Change(kk, s[n], [pos |-> n - 1])]
    <2>1. IsList(s)
      <3>1. IsList(kids[kk])
        BY <1>3, <1>4
      <3> HIDE DEF kids
      <3> QED BY <3>1, KeptDomain
    <2>2. again(kk) = t
      OBVIOUS
    <2> HIDE DEF s
    <2>3. IsList(t) /\ t = [n \in DOMAIN t |-> t[n]] /\ \A n \in DOMAIN s : n - 1 \in Int
      BY <2>1 DEF IsList
    <2>4. \A n \in DOMAIN t : Places(t[n], tr)
      BY <2>3, PosPlaces
    <2> HIDE DEF t
    <2>5. Placings(t, tr)
      BY <2>3, <2>4, PlacingsMade
    <2> QED BY <2>2, <2>5
  <1>8. reorderWithin(kids, k, i) = again("folder") \o again("session")
    BY DEF reorderWithin
  <1>9. dropChanges(tr, k, i, c, at) = first \o rest
    BY DEF dropChanges, ordered
  <1> HIDE DEF first, again
  <1>10. Placings(again("folder") \o again("session"), tr)
    BY <1>7, PlacingsJoin DEF Kinds
  <1>11. Placings(<<>>, tr)
    <2> DEFINE E == {}
    <2>1. <<>> \in Seq(E) /\ \A x \in E : Places(x, tr)
      OBVIOUS
    <2> HIDE DEF E
    <2> QED BY <2>1 DEF Placings
  <1>12. Placings(rest, tr)
    <2> HIDE DEF source, kids
    <2> QED BY <1>8, <1>10, <1>11
  <1> HIDE DEF rest
  <1>13. Placings(first \o rest, tr)
    BY <1>6, <1>12, PlacingsJoin
  <1> DEFINE all == dropChanges(tr, k, i, c, at)
  <1>14. Placings(all, tr)
    BY <1>9, <1>13
  <1> HIDE DEF all
  <1>15. \A n \in DOMAIN all : Places(all[n], tr)
    BY <1>14 DEF Placings
  <1> QED BY <1>15 DEF all

LEMMA DropReach ==
  ASSUME TreeInv, ReachInv, NEW a \in Apps, NEW k \in Kinds, NEW i, NEW c, NEW row \in Int, dropMimeData(a, k, i, c, row)
  PROVE  Follows(a)
  <1> DEFINE at == dropGap(tree[a], c, row)
             todo == dropChanges(tree[a], k, i, c, at)
             d == [kind |-> k, id |-> i, into |-> c, at |-> at]
             mine == IF tree[a] = reload(rows) THEN rows ELSE None
             j == Rewrite("drop", todo, d, mine)
  <1>1. /\ job' = [job EXCEPT ![a] = j] /\ UNCHANGED <<rows, last, tree, dialog>>
        /\ canDropMimeData(tree[a], k, i, c)
    BY DEF dropMimeData
  <1>2. Listing(tree[a]) /\ InTree(tree[a], k, i) /\ c \in Containers(tree[a]) /\ Looks(tree[a], last.folder)
    BY <1>1 DEF TreeInv, Lists, canDropMimeData, ReachInv, Windows
  <1>3. at \in Nat
    BY <1>2, GapIsNat
  <1> HIDE DEF at
  <1>4. Tasks(todo, "drop")
    BY <1>2, <1>3, DropTasks
  <1>5. \A n \in DOMAIN todo : Places(todo[n], tree[a])
    BY <1>1, <1>2, <1>3, DropPlaces
  <1> HIDE DEF todo, d, mine
  <1>6. \A n \in DOMAIN todo : Task(todo[n], "drop")
    BY <1>4, TasksAre
  <1>7. PlacedJob(j, tree[a])
    BY <1>5, <1>6, RewritePlaced
  <1> HIDE DEF j
  <1>8. TreesStand
    BY <1>1, TreesLeft
  <1> QED BY <1>1, <1>7, <1>8, BeginReach

(* Steps of a window that rewrites rows.                                   *)
LEMMA TodoPlaced ==
  ASSUME TreeInv, ReachInv, NEW a \in Apps, Rewrites(a)
  PROVE  /\ Writer(job[a]) /\ \A n \in DOMAIN job[a].todo : Places(job[a].todo[n], tree[a])
         /\ \A k, i, row : InHand(job[a], k, i, row) => Numbered(row)
  <1>1. Writer(job[a]) /\ PlacedJob(job[a], tree[a])
    BY WriterHere DEF ReachInv, JobsPlaced
  <1> QED BY <1>1 DEF PlacedJob, Writer

LEMMA MissedTodo ==
  ASSUME NEW j, Writer(j)
  PROVE  Missed(j).todo = j.todo /\ Missed(j).does = j.does
  BY DEF Writer, WriterFields, Missed

LEMMA PlacesShifted ==
  ASSUME NEW tr, NEW c, Places(c, tr), DOMAIN c = {"kind", "id", "set"}, DOMAIN c.set = {"pos"}
  PROVE  Places([c EXCEPT !.set = [c.set EXCEPT !.pos = c.set.pos - 1]], tr)
  BY DEF Places

LEMMA GoneReach ==
  ASSUME TreeInv, ReachInv, NEW a \in Apps, rowGone(a)
  PROVE  Follows(a)
  <1> DEFINE j == job[a]
             tr == tree[a]
             after(m) == Reorders(Now(a)) /\ Reorders(j.todo[m]) /\ j.todo[m].kind = Now(a).kind /\ m > j.n
             todo == [m \in DOMAIN j.todo |->
                        IF after(m) THEN [j.todo[m] EXCEPT !.set.pos = @ - 1] ELSE j.todo[m]]
             q == [Missed(j) EXCEPT !.todo = todo]
  <1>1. job' = [job EXCEPT ![a] = q] /\ UNCHANGED <<rows, last, tree, dialog>> /\ Rewrites(a)
    BY DEF rowGone
  <1>2. Writer(j) /\ \A n \in DOMAIN j.todo : Places(j.todo[n], tr)
    BY <1>1, TodoPlaced
  <1>3. Writer(Missed(j)) /\ Missed(j).copy = None /\ Missed(j).does = j.does
    BY <1>2, MissedIs, MissedTodo
  <1>4. ASSUME NEW m \in DOMAIN todo PROVE Task(todo[m], j.does) /\ Places(todo[m], tr)
    <2> DEFINE c == j.todo[m]
               shifted == [c EXCEPT !.set = [c.set EXCEPT !.pos = c.set.pos - 1]]
    <2>1. Task(c, j.does) /\ Places(c, tr)
      BY <1>2 DEF Writer
    <2>2. todo[m] = c \/ (todo[m] = shifted /\ DOMAIN c.set = {"pos"})
      <3>1. DOMAIN todo = DOMAIN j.todo
        OBVIOUS
      <3>2. CASE after(m)
        <4>1. DOMAIN c.set = {"pos"}
          BY <3>2 DEF Reorders
        <4>2. todo[m] = [c EXCEPT !.set.pos = @ - 1]
          BY <3>1, <3>2
        <4> HIDE DEF after, todo, j
        <4> QED BY <4>1, <4>2
      <3>3. CASE ~after(m)
        BY <3>1, <3>3
      <3> QED BY <3>2, <3>3
    <2>3. DOMAIN c = {"kind", "id", "set"}
      BY <2>1 DEF Task
    <2>4. Task(shifted, j.does)
      <3> HIDE DEF c
      <3> QED BY <2>1, TaskShifted
    <2>5. DOMAIN c.set = {"pos"} => Places(shifted, tr)
      <3> HIDE DEF c
      <3> QED BY <2>1, <2>3, PlacesShifted
    <2> HIDE DEF todo, c, shifted
    <2> QED BY <2>1, <2>2, <2>4, <2>5
  <1> HIDE DEF todo
  <1>5. Writer(q) /\ q.copy = None
    BY <1>3, <1>4, TodoIs
  <1>6. q.todo = todo
    BY <1>3 DEF Writer, WriterFields
  <1> HIDE DEF q
  <1>7. PlacedJob(q, tr)
    BY <1>4, <1>5, <1>6, FreshPlaced
  <1>8. TreesStand
    BY <1>1, TreesLeft
  <1> QED BY <1>1, <1>7, <1>8, BeginReach

LEMMA FailsReach ==
  ASSUME TreeInv, ReachInv, NEW a \in Apps, rowFails(a)
  PROVE  Follows(a)
  <1> DEFINE j == job[a]
             q == Missed(j)
  <1>1. job' = [job EXCEPT ![a] = q] /\ UNCHANGED <<rows, last, tree, dialog>> /\ Rewrites(a)
    BY DEF rowFails
  <1>2. Writer(j) /\ \A n \in DOMAIN j.todo : Places(j.todo[n], tree[a])
    BY <1>1, TodoPlaced
  <1>3. Writer(q) /\ q.copy = None /\ q.todo = j.todo
    BY <1>2, MissedIs, MissedTodo
  <1> HIDE DEF q, j
  <1>4. PlacedJob(q, tree[a])
    BY <1>2, <1>3, FreshPlaced
  <1>5. TreesStand
    BY <1>1, TreesLeft
  <1> QED BY <1>1, <1>4, <1>5, BeginReach

LEMMA ReadNumbered ==
  ASSUME ReachInv, NEW k \in Kinds, NEW i \in DOMAIN rows[k], NEW row,
         row = IF k = "folder" THEN getFolder(i) ELSE getSession(i)
  PROVE  Numbered(row)
  <1>1. CASE k = "folder"
    <2>1. rows.folder[i].pos \in Int /\ rows.folder[i].name \in Nat
      BY <1>1 DEF ReachInv, RowsTidy, Forest, Orderly
    <2>2. row = getFolder(i)
      BY <1>1
    <2> QED BY <2>1, <2>2 DEF getFolder, readFolder, kFolderCols, Numbered
  <1>2. CASE k = "session"
    <2>1. row = getSession(i) /\ i \in DOMAIN rows.session
      BY <1>2
    <2> QED BY <2>1, ReadRow DEF Numbered
  <1> QED BY <1>1, <1>2 DEF Kinds

LEMMA PassedTodo ==
  ASSUME NEW j, Writer(j), NEW m
  PROVE  Passed(j, m).todo = j.todo /\ Passed(j, m).does = j.does
  BY DEF Writer, WriterFields, Passed

LEMMA GetReach ==
  ASSUME TreeInv, ReachInv, NEW a \in Apps, getRow(a)
  PROVE  Follows(a)
  <1> DEFINE j == job[a]
             tr == tree[a]
             c == Now(a)
             row == IF c.kind = "folder" THEN getFolder(c.id) ELSE getSession(c.id)
             m == Alone(a, row)
             p == Passed(j, m)
             q == Took(j, row, m)
  <1>1. /\ Rewrites(a) /\ j.n \in DOMAIN j.todo /\ c.id \in DOMAIN rows[c.kind]
        /\ UNCHANGED <<rows, last, tree, dialog>>
    BY DEF getRow
  <1>2. OthersAlone(a) /\ (job'[a] = p \/ job'[a] = q)
    <2>1. job' = [job EXCEPT ![a] = IF Reorders(c) /\ row.pos = c.set.pos THEN p ELSE q]
      BY DEF getRow
    <2>2. DOMAIN job = Apps
      BY ShapeFacts DEF Facts
    <2> HIDE DEF p, q, c, row
    <2> QED BY <2>1, <2>2 DEF OthersAlone
  <1>3. Writer(j) /\ (\A n \in DOMAIN j.todo : Places(j.todo[n], tr)) /\ Task(c, j.does)
    BY <1>1, TodoPlaced, WriterHere
  <1>4. Numbered(row)
    <2>1. c.kind \in Kinds
      BY <1>3 DEF Task
    <2> HIDE DEF c
    <2> QED BY <1>1, <2>1, ReadNumbered
  <1>5. TreesStand
    BY <1>1, TreesLeft
  <1> HIDE DEF row, m, c
  <1>6. PlacedJob(p, tr)
    <2>1. Writer(p) /\ p.copy = None /\ p.todo = j.todo
      <3> HIDE DEF j
      <3> QED BY <1>3, RowPassed, PassedTodo
    <2> HIDE DEF p, j
    <2> QED BY <1>3, <2>1, FreshPlaced
  <1>7. PlacedJob(q, tr)
    <2>1. Writer(q) /\ q.copy = row /\ q.todo = j.todo
      <3> HIDE DEF j
      <3> QED BY <1>3, CopyTaken
    <2> HIDE DEF q, j
    <2>2. \A k, i, r : InHand(q, k, i, r) => r = row
      BY <2>1 DEF InHand, Writer, Writing
    <2>3. q.does # "import"
      BY <2>1 DEF Writer, Writing
    <2> QED BY <1>3, <1>4, <2>1, <2>2, <2>3 DEF PlacedJob
  <1> HIDE DEF p, q
  <1>8. PlacedJob(job'[a], tr)
    BY <1>2, <1>6, <1>7
  <1> QED BY <1>1, <1>2, <1>5, <1>8, WorkReach

LEMMA LoadsReach ==
  ASSUME TreeInv, ReachInv, NEW a \in Apps, Loads(a), UNCHANGED <<rows, last, dialog>>
  PROVE  Follows(a)
  <1>1. CopiesPlaced'
    BY CopiesEnd, PlacesStay
  <1> QED BY <1>1, StillReach

LEMMA FreedReach ==
  ASSUME TreeInv, ReachInv, NEW a \in Apps, job' = [job EXCEPT ![a] = NoJob], UNCHANGED <<rows, last, tree, dialog>>
  PROVE  Follows(a)
  <1>1. TreesStand /\ PlacedJob(NoJob, tree[a])
    BY TreesLeft, NoJobPlaced
  <1> QED BY <1>1, BeginReach

LEMMA ReturnsReach ==
  ASSUME TreeInv, ReachInv, NEW a \in Apps, Returns(a)
  PROVE  Follows(a)
  <1>1. UNCHANGED <<rows, last, dialog>>
    BY DEF Returns
  <1>2. Loads(a) \/ (job' = [job EXCEPT ![a] = NoJob] /\ UNCHANGED tree)
    BY Reloaded DEF Returns
  <1>3. CASE Loads(a)
    BY <1>1, <1>3, LoadsReach
  <1>4. CASE job' = [job EXCEPT ![a] = NoJob] /\ UNCHANGED tree
    <2>1. UNCHANGED <<rows, last, tree, dialog>> /\ job' = [job EXCEPT ![a] = NoJob]
      BY <1>1, <1>4
    <2> QED BY <2>1, FreedReach
  <1> QED BY <1>2, <1>3, <1>4

(* A folder is written: it keeps the rows a forest unless it crosses        *)
(* another's move.                                                         *)
LEMMA ForestUpdated ==
  ASSUME NEW t, NEW l, Forest(t, l), NEW i, NEW row, Numbered(row),
         i \in DOMAIN t => \/ row.up = t[i].up
                           \/ row.up \in 0 .. l /\ i \notin Above(Ups(t), row.up)
  PROVE  Forest(Updated(t, i, row), l)
  <1> DEFINE u == Updated(t, i, row)
  <1>1. CASE i \notin DOMAIN t
    BY <1>1 DEF Updated
  <1>2. CASE i \in DOMAIN t
    <2>1. /\ DOMAIN u = DOMAIN t /\ u[i] = row
          /\ \A f \in DOMAIN t : f # i => u[f] = t[f]
      BY <1>2 DEF Updated
    <2> HIDE DEF u
    <2>2. \A f \in DOMAIN t : u[f].pos \in Int /\ u[f].name \in Nat /\ t[f].up \in 0 .. l
      BY <2>1 DEF Forest, Orderly, Parents, Numbered
    <2>3. CASE row.up = t[i].up
      <3>1. \A f \in DOMAIN u : /\ u[f].pos \in Int /\ u[f].name \in Nat /\ u[f].up \in 0 .. l
                                /\ u[f].up \in DOMAIN u => u[f].up = t[f].up
        BY <2>1, <2>2, <2>3
      <3>2. Forest(u, l)
        BY <2>1, <3>1, ForestFewer
      <3> QED BY <3>2 DEF u
    <2>4. CASE row.up \in 0 .. l /\ i \notin Above(Ups(t), row.up)
      <3> DEFINE p == row.up
      <3>1. \A f \in DOMAIN t : /\ u[f].pos \in Int /\ u[f].name \in Nat
                                /\ u[f].up = IF f = i THEN p ELSE t[f].up
        BY <2>1, <2>2
      <3>2. p \in 0 .. l /\ i \notin Above(Ups(t), p)
        BY <2>4
      <3> HIDE DEF p
      <3>3. Forest(u, l)
        BY <1>2, <2>1, <3>1, <3>2, ForestMoved
      <3> QED BY <3>3 DEF u
    <2> QED BY <1>2, <2>3, <2>4
  <1> QED BY <1>1, <1>2

LEMMA WriteReach ==
  ASSUME TreeInv, ReachInv, NEW a \in Apps, updateRow(a), ~Crosses(a, Now(a), job[a].copy)
  PROVE  Follows(a)
  <1> DEFINE j == job[a]
             tr == tree[a]
             c == Now(a)
             k == c.kind
             i == c.id
             copy == j.copy
             row == Changed(copy, c.set)
             m == IF j.mine = None THEN None ELSE Stored(j.mine, c, row)
             q == Passed(j, m)
  <1>1. /\ Rewrites(a) /\ j.n \in DOMAIN j.todo /\ copy # None
        /\ rows' = Stored(rows, c, row) /\ job' = [job EXCEPT ![a] = q]
        /\ UNCHANGED <<last, tree, dialog>>
    BY DEF updateRow
  <1>2. /\ Writer(j) /\ (\A n \in DOMAIN j.todo : Places(j.todo[n], tr)) /\ Task(c, j.does)
        /\ \A kk, ii, r : InHand(j, kk, ii, r) => Numbered(r)
    BY <1>1, TodoPlaced, WriterHere
  <1>3. Works(a)
    <2>1. Writer(q) /\ q.copy = None /\ q.todo = j.todo
      <3> HIDE DEF j, m
      <3> QED BY <1>2, PassedIs, PassedTodo
    <2> HIDE DEF q
    <2>2. PlacedJob(q, tr)
      BY <1>2, <2>1, FreshPlaced
    <2>3. TreesStand
      BY <1>1, TreesLeft
    <2>4. OthersAlone(a) /\ job'[a] = q /\ tree'[a] = tr
      BY <1>1, JobSet
    <2> HIDE DEF tr
    <2>5. PlacedJob(job'[a], tree'[a])
      BY <2>2, <2>4
    <2> QED BY <2>3, <2>4, <2>5 DEF Works
  <1>4. CopiesPlaced'
    BY <1>1, CopiesEnd, PlacesStay
  <1>5. InHand(j, k, i, copy)
    BY <1>1, <1>2 DEF InHand, Writer, Now
  <1>6. Fits(k, i, copy) /\ Numbered(copy)
    <2>1. Hand(j)
      BY DEF TreeInv, Jobs
    <2> HIDE DEF j, k, i, copy
    <2> QED BY <1>2, <1>5, <2>1 DEF Hand
  <1>7. /\ DOMAIN row = DOMAIN copy
        /\ \A x \in DOMAIN copy : row[x] = IF x \in DOMAIN c.set THEN c.set[x] ELSE copy[x]
    BY ChangedIs
  <1>8. Places(c, tr)
    BY <1>1, <1>2 DEF Now
  <1>9. DOMAIN copy = IF k = "folder" THEN kFolderCols ELSE Columns
    BY <1>2, <1>6 DEF Fits, Task, Kinds
  <1> HIDE DEF row, q, m, copy
  <1>10. {"up", "pos", "name"} \subseteq DOMAIN copy
    BY <1>9 DEF kFolderCols, Columns, kSchema
  <1>11. Numbered(row)
    <2>1. /\ "pos" \in DOMAIN c.set => c.set.pos \in Int
          /\ "name" \in DOMAIN c.set => c.set.name \in Nat
      BY <1>8 DEF Places
    <2> HIDE DEF c
    <2> QED BY <1>6, <1>7, <1>10, <2>1 DEF Numbered
  <1>12. CASE k = "session"
    <2> DEFINE t == rows.session
               u == updateSession(t, i, row)
    <2>1. rows' = [rows EXCEPT !.session = u]
      BY <1>1, <1>12 DEF Stored
    <2>2. {"pos", "name"} \subseteq DOMAIN row
      BY <1>7, <1>10
    <2>3. Orderly(t)
      BY DEF ReachInv, RowsTidy
    <2> HIDE DEF t, i
    <2>4. Orderly(u)
      BY <1>11, <2>2, <2>3, OrderlyUpdated
    <2> HIDE DEF u
    <2>5. FoldersLeft /\ rows'.session = u
      BY <1>1, <2>1, ShapeFacts DEF Facts, FoldersLeft
    <2> QED BY <1>3, <1>4, <2>4, <2>5, SessionsFollow
  <1>13. CASE k = "folder"
    <2> DEFINE t == rows.folder
               l == last.folder
               u == Updated(t, i, row)
    <2>1. rows' = [rows EXCEPT !.folder = u]
      BY <1>1, <1>13 DEF Stored
    <2>2. Forest(t, l) /\ l \in Nat
      BY DEF ReachInv, RowsTidy, Forest
    <2>3. ASSUME i \in DOMAIN t
          PROVE  \/ row.up = t[i].up
                 \/ row.up \in 0 .. l /\ i \notin Above(Ups(t), row.up)
      <3>1. CASE "up" \in DOMAIN c.set
        <4> DEFINE p == c.set.up
        <4>1. row.up = p
          <5> HIDE DEF c
          <5> QED BY <1>7, <1>10, <3>1
        <4>2. p \in Containers(tr) /\ i \notin Above(ShownParent(tr), p)
          BY <1>8, <1>13, <3>1 DEF Places
        <4>3. Above(Ups(t), p) \cap DOMAIN t \subseteq Above(ShownParent(tr), p)
          BY <1>13, <2>3, <3>1 DEF Crosses, StoredParent, Ups
        <4>4. p \in 0 .. l
          BY <4>2, ShownKnown
        <4> HIDE DEF p, t
        <4> QED BY <2>3, <4>1, <4>2, <4>3, <4>4
      <3>2. CASE "up" \notin DOMAIN c.set
        <4>1. row.up = copy.up
          <5> HIDE DEF c
          <5> QED BY <1>7, <1>10, <3>2
        <4>2. copy.up = t[i].up
          BY <1>13, <2>3, <3>2 DEF Crosses, copy
        <4> QED BY <4>1, <4>2
      <3> QED BY <3>1, <3>2
    <2> HIDE DEF t, i, l
    <2>4. Forest(u, l)
      BY <1>11, <2>2, <2>3, ForestUpdated
    <2> HIDE DEF u
    <2>5. rows'.folder = u /\ rows'.session = rows.session
      BY <2>1, ShapeFacts DEF Facts
    <2>6. last'.folder = l /\ last.folder <= last'.folder
      BY <1>1, <2>2 DEF l
    <2> QED BY <1>3, <1>4, <2>4, <2>5, <2>6, FoldersFollow
  <1>14. k = "session" \/ k = "folder"
    BY <1>2 DEF Task, Kinds
  <1> QED BY <1>12, <1>13, <1>14

------------------------------------------------------------------------------
(* The export.                                                             *)
LEMMA Flattened ==
  ASSUME NEW S, NEW s \in Seq(Seq(S))
  PROVE  FlattenSeq(s) \in Seq(S)
  <1> DEFINE n == Len(s)
             V == Seq(S)
             step == [q \in (1 .. n) \X V |-> q[2] \o s[q[1]]]
             Is(f) == f = [i \in 1 .. n |-> IF i = 1 THEN s[i] ELSE f[i - 1] \o s[i]]
             flat == CHOOSE f : Is(f)
  <1>1. n \in Nat /\ (\A i \in 1 .. n : s[i] \in V) /\ <<>> \in V
    BY LenProperties, EmptySeq
  <1>2. FlattenSeq(s) = IF n = 0 THEN s ELSE flat[n]
    BY DEF FlattenSeq
  <1> HIDE DEF n, V
  <1>3. ASSUME NEW k \in 1 .. n, NEW v \in V
        PROVE  step[<<k, v>>] = v \o s[k] /\ step[<<k, v>>] \in V
    <2>1. v \o s[k] \in V
      <3>1. v \in Seq(S) /\ s[k] \in Seq(S)
        BY <1>1 DEF V
      <3> QED BY <3>1, ConcatProperties DEF V
    <2>2. <<k, v>> \in (1 .. n) \X V
      OBVIOUS
    <2> QED BY <2>1, <2>2
  <1> HIDE DEF step
  <1>4. PICK c : Iterated(c, <<>>, step, n, V)
    <2>0. ASSUME NEW k \in 1 .. n, NEW v \in V PROVE step[<<k, v>>] \in V
      BY <1>3
    <2>1. Steps(step, n, V)
      BY <2>0 DEF Steps
    <2> QED BY <1>1, <2>1, Iterates
  <1>5. c \in [0 .. n -> V] /\ c[0] = <<>> /\ \A k \in 1 .. n : c[k] = step[<<k, c[k - 1]>>]
    BY <1>4 DEF Iterated
  <1>6. ASSUME NEW k \in 1 .. n PROVE k \in 0 .. n /\ k - 1 \in 0 .. n /\ c[k] = c[k - 1] \o s[k]
    <2>1. k \in 0 .. n /\ k - 1 \in 0 .. n
      BY <1>1
    <2>2. c[k - 1] \in V
      BY <1>5, <2>1
    <2> QED BY <1>3, <1>5, <2>1, <2>2
  <1> DEFINE f == [i \in 1 .. n |-> c[i]]
  <1>7. Is(f)
    <2>1. ASSUME NEW i \in 1 .. n PROVE f[i] = IF i = 1 THEN s[i] ELSE f[i - 1] \o s[i]
      <3>1. f[i] = c[i - 1] \o s[i]
        BY <1>6
      <3>2. CASE i = 1
        <4>1. c[i - 1] = <<>>
          BY <1>5, <3>2
        <4>2. s[i] \in Seq(S)
          BY <1>1 DEF V
        <4> QED BY <3>1, <3>2, <4>1, <4>2, ConcatEmptySeq
      <3>3. CASE i # 1
        <4>1. i - 1 \in 1 .. n
          BY <1>1, <3>3
        <4> QED BY <3>1, <3>3, <4>1
      <3> QED BY <3>2, <3>3
    <2> DEFINE e == [i \in 1 .. n |-> IF i = 1 THEN s[i] ELSE f[i - 1] \o s[i]]
    <2>2. e = [i \in 1 .. n |-> e[i]] /\ \A i \in 1 .. n : f[i] = e[i]
      BY <2>1
    <2> QED BY <2>1
  <1>8. Is(flat)
    <2> HIDE DEF Is
    <2> QED BY <1>7
  <1> HIDE DEF flat
  <1>9. \A i \in 1 .. n : flat[i] = IF i = 1 THEN s[i] ELSE flat[i - 1] \o s[i]
    <2> DEFINE e == [i \in 1 .. n |-> IF i = 1 THEN s[i] ELSE flat[i - 1] \o s[i]]
    <2>1. flat = e /\ \A i \in 1 .. n : e[i] = IF i = 1 THEN s[i] ELSE flat[i - 1] \o s[i]
      BY <1>8
    <2> HIDE DEF e
    <2> QED BY <2>1
  <1> HIDE DEF Is, f
  <1> DEFINE T == {k \in Nat : k \in 1 .. n => flat[k] \in V}
  <1>10. 0 \in T
    OBVIOUS
  <1>11. ASSUME NEW k \in Nat, k \in T PROVE k + 1 \in T
    <2> SUFFICES ASSUME k + 1 \in 1 .. n PROVE flat[k + 1] \in V
      OBVIOUS
    <2>1. s[k + 1] \in V
      BY <1>1
    <2>2. CASE k = 0
      BY <1>9, <2>1, <2>2
    <2>3. CASE k # 0
      <3>1. k \in 1 .. n /\ (k + 1) - 1 = k /\ k + 1 # 1
        BY <1>1, <2>3
      <3>2. flat[k] \in V
        BY <1>11, <3>1
      <3>3. flat[k + 1] = flat[k] \o s[k + 1]
        BY <1>9, <3>1
      <3> QED BY <2>1, <3>2, <3>3, ConcatProperties DEF V
    <2> QED BY <2>2, <2>3
  <1> HIDE DEF T
  <1>12. n \in T
    BY <1>1, <1>10, <1>11, AllOfNat
  <1>13. CASE n = 0
    <2>1. s = <<>>
      BY <1>13, EmptySeq DEF n
    <2> QED BY <1>1, <1>2, <1>13, <2>1 DEF V
  <1>14. CASE n # 0
    <2>1. n \in 1 .. n
      BY <1>1, <1>14
    <2> QED BY <1>2, <1>12, <1>14, <2>1 DEF T, V
  <1> QED BY <1>13, <1>14

(* Sequences made by position.                                             *)
LEMMA MadeSeq ==
  ASSUME NEW n \in Nat, NEW S, NEW f \in [1 .. n -> S]
  PROVE  f \in Seq(S) /\ Len(f) = n
  OBVIOUS

(* By name, as by position.                                                *)
LEMMA NamesInOrder ==
  ASSUME NEW t, Orderly(t), NEW ids, ids \subseteq DOMAIN t
  PROVE  ByName(t, ids) \in Seq(ids)
  <1> DEFINE R == {p \in ids \X ids : NameBefore(t, p[1], p[2])}
  <1>1. IsFiniteSet(ids)
    BY FS_Subset DEF Orderly
  <1>2. \A x \in ids : x \in Nat /\ t[x].name \in Nat
    BY DEF Orderly
  <1>3. \A x, y \in ids : <<x, y>> \in R <=> NameBefore(t, x, y)
    OBVIOUS
  <1> HIDE DEF R
  <1>4. \A x \in ids : ~NameBefore(t, x, x)
    BY <1>2 DEF NameBefore
  <1>5. \A x, y, z \in ids : NameBefore(t, x, y) /\ NameBefore(t, y, z) => NameBefore(t, x, z)
    BY <1>2 DEF NameBefore
  <1>6. \A x, y \in ids : x # y => NameBefore(t, x, y) \/ NameBefore(t, y, x)
    BY <1>2 DEF NameBefore
  <1>7. StrictOrder(R, ids)
    BY <1>3, <1>4, <1>5, <1>6 DEF StrictOrder
  <1>8. InOrder(Listed(ids, R), ids, R)
    BY <1>1, <1>7, ListedIs
  <1> QED BY <1>8 DEF ByName, InOrder, R

(* Names put together from names are names: numbers, as they all are.      *)
JoinedNumbers == \A p, n \in Nat : Joined(p, n) \in Nat

(* The path of a folder is a name, too.                                    *)
LEMMA PathNumber ==
  ASSUME JoinedNumbers, NEW t, Orderly(t), Grounded(t), NEW f \in DOMAIN t
  PROVE  pathOf(t, f) \in Nat
  <1> DEFINE D == DOMAIN t
             up == Chain(Ups(t), f)
             n == Cardinality(D)
             Topmost(k) == up[k] \in D /\ (k + 1 \in DOMAIN up => up[k + 1] \notin D)
             top == CHOOSE k \in DOMAIN up : Topmost(k)
             Is(p) == p = [k \in 0 .. top |-> IF k = top THEN t[up[k]].name ELSE Joined(p[k + 1], t[up[k]].name)]
             path == CHOOSE p : Is(p)
  <1>1. pathOf(t, f) = path[0]
    BY DEF pathOf, Ups
  <1>2. PICK depth : Descends(Ups(t), depth)
    BY DEF Grounded
  <1>3. DOMAIN Ups(t) = D /\ IsFiniteSet(D) /\ \A g \in D : t[g].name \in Nat
    BY DEF Ups, Orderly
  <1>4. /\ n \in Nat /\ DOMAIN up = 0 .. n /\ up[0] = f
        /\ \A k \in 1 .. n : up[k] = Link(Ups(t), up[k - 1])
    BY <1>3, ChainIs
  <1>5. up[n] \notin D
    BY <1>2, <1>3, ChainEnds
  <1> HIDE DEF up, n, path
  <1>6. \E k \in DOMAIN up : Topmost(k)
    <2> DEFINE U == {k \in 0 .. n : up[k] \notin D}
    <2>1. U \subseteq Nat /\ U # {}
      BY <1>4, <1>5
    <2> HIDE DEF U
    <2>2. PICK m \in U : \A k \in U : m <= k
      BY <2>1, LeastOf
    <2>3. m \in 0 .. n /\ up[m] \notin D /\ m # 0
      BY <1>4, <2>2 DEF U
    <2>4. m - 1 \in 0 .. n /\ (m - 1) + 1 = m /\ m - 1 < m
      BY <1>4, <2>3
    <2>5. up[m - 1] \in D
      <3>1. m - 1 \in Nat /\ m \in Nat
        BY <1>4, <2>3
      <3> SUFFICES ASSUME up[m - 1] \notin D PROVE FALSE
        OBVIOUS
      <3>2. m - 1 \in U
        BY <2>4 DEF U
      <3>3. m <= m - 1
        BY <2>2, <3>2
      <3> QED BY <3>1, <3>3
    <2> QED BY <1>4, <2>3, <2>4, <2>5
  <1>7. top \in 0 .. n /\ up[top] \in D
    <2>1. top \in DOMAIN up /\ Topmost(top)
      <3> HIDE DEF Topmost
      <3> QED BY <1>6
    <2> HIDE DEF top
    <2> QED BY <1>4, <2>1
  <1> HIDE DEF top, Topmost
  <1>0. top \in Nat
    BY <1>4, <1>7
  <1> DEFINE T == {m \in Nat : m <= top => up[top - m] \in D}
  <1>8. 0 \in T
    BY <1>0, <1>7
  <1>9. ASSUME NEW m \in Nat, m \in T PROVE m + 1 \in T
    <2> SUFFICES ASSUME m + 1 <= top PROVE up[top - (m + 1)] \in D
      OBVIOUS
    <2>1. top - m \in 1 .. n /\ (top - m) - 1 = top - (m + 1) /\ m <= top
      BY <1>0, <1>4, <1>7
    <2>2. up[top - m] = Link(Ups(t), up[top - (m + 1)]) /\ up[top - m] \in D
      BY <1>4, <1>9, <2>1
    <2> QED BY <1>3, <2>2 DEF Link
  <1> HIDE DEF T
  <1>10. ASSUME NEW k \in 0 .. top PROVE t[up[k]].name \in Nat
    <2>1. top - k \in Nat /\ top - k <= top /\ top - (top - k) = k
      BY <1>0
    <2>2. top - k \in T
      BY <1>8, <1>9, <2>1, AllOfNat
    <2>3. up[k] \in D
      BY <2>1, <2>2 DEF T
    <2> QED BY <1>3, <2>3
  <1> DEFINE base == t[up[top]].name
             step == [q \in (1 .. top) \X Nat |-> Joined(q[2], t[up[top - q[1]]].name)]
  <1>11. ASSUME NEW j \in 1 .. top, NEW v \in Nat
         PROVE  step[<<j, v>>] = Joined(v, t[up[top - j]].name) /\ step[<<j, v>>] \in Nat
    <2>1. top - j \in 0 .. top
      BY <1>0
    <2>2. t[up[top - j]].name \in Nat
      BY <1>10, <2>1
    <2>3. <<j, v>> \in (1 .. top) \X Nat
      OBVIOUS
    <2> QED BY <2>2, <2>3 DEF JoinedNumbers
  <1>12. base \in Nat
    BY <1>0, <1>10
  <1> HIDE DEF step
  <1>13. PICK c : Iterated(c, base, step, top, Nat)
    <2>0. ASSUME NEW j \in 1 .. top, NEW v \in Nat PROVE step[<<j, v>>] \in Nat
      BY <1>11
    <2>1. Steps(step, top, Nat)
      BY <2>0 DEF Steps
    <2> HIDE DEF base
    <2> QED BY <1>0, <1>12, <2>1, Iterates
  <1>14. c \in [0 .. top -> Nat] /\ c[0] = base /\ \A k \in 1 .. top : c[k] = step[<<k, c[k - 1]>>]
    BY <1>13 DEF Iterated
  <1> DEFINE p == [k \in 0 .. top |-> c[top - k]]
             e == [k \in 0 .. top |-> IF k = top THEN t[up[k]].name ELSE Joined(p[k + 1], t[up[k]].name)]
  <1>15. ASSUME NEW k \in 0 .. top PROVE p[k] = e[k]
    <2>1. CASE k = top
      <3>1. p[k] = c[0]
        BY <1>0, <2>1
      <3> QED BY <1>14, <2>1, <3>1
    <2>2. CASE k # top
      <3>1. /\ top - k \in 1 .. top /\ (top - k) - 1 \in 0 .. top /\ top - (top - k) = k
            /\ k + 1 \in 0 .. top /\ top - (k + 1) = (top - k) - 1
        BY <1>0, <2>2
      <3>2. p[k] = c[top - k] /\ p[k + 1] = c[(top - k) - 1]
        BY <3>1
      <3>3. c[(top - k) - 1] \in Nat
        BY <1>14, <3>1
      <3>4. c[top - k] = Joined(c[(top - k) - 1], t[up[k]].name)
        BY <1>11, <1>14, <3>1, <3>3
      <3>5. e[k] = Joined(p[k + 1], t[up[k]].name)
        BY <2>2
      <3> HIDE DEF p, e
      <3> QED BY <3>2, <3>4, <3>5
    <2> QED BY <2>1, <2>2
  <1>16. Is(p)
    <2>1. p = [k \in 0 .. top |-> p[k]] /\ e = [k \in 0 .. top |-> e[k]]
      OBVIOUS
    <2> HIDE DEF p
    <2>2. p = e
      <3> HIDE DEF e
      <3> QED BY <1>15, <2>1
    <2> QED BY <2>2
  <1>17. Is(path)
    <2> HIDE DEF Is, p
    <2> QED BY <1>16 DEF path
  <1> HIDE DEF p, e
  <1>18. \A k \in 0 .. top : path[k] = IF k = top THEN t[up[k]].name ELSE Joined(path[k + 1], t[up[k]].name)
    <2> DEFINE g == [k \in 0 .. top |-> IF k = top THEN t[up[k]].name ELSE Joined(path[k + 1], t[up[k]].name)]
    <2>1. path = g
      BY <1>17
    <2>2. \A k \in 0 .. top : g[k] = IF k = top THEN t[up[k]].name ELSE Joined(path[k + 1], t[up[k]].name)
      OBVIOUS
    <2> HIDE DEF g
    <2> QED BY <2>1, <2>2
  <1> HIDE DEF Is
  <1> DEFINE W == {m \in Nat : m <= top => path[top - m] \in Nat}
  <1>19. 0 \in W
    <2>1. path[top] \in Nat
      BY <1>0, <1>12, <1>18
    <2> QED BY <1>0, <2>1
  <1>20. ASSUME NEW m \in Nat, m \in W PROVE m + 1 \in W
    <2> SUFFICES ASSUME m + 1 <= top PROVE path[top - (m + 1)] \in Nat
      OBVIOUS
    <2> DEFINE k == top - (m + 1)
    <2>1. k \in 0 .. top /\ k # top /\ k + 1 = top - m /\ m <= top
      BY <1>0
    <2>2. path[k + 1] \in Nat
      BY <1>20, <2>1
    <2>3. path[k] = Joined(path[k + 1], t[up[k]].name) /\ t[up[k]].name \in Nat
      BY <1>10, <1>18, <2>1
    <2> HIDE DEF k
    <2>4. path[k] \in Nat
      BY <2>2, <2>3 DEF JoinedNumbers
    <2> QED BY <2>4 DEF k
  <1> HIDE DEF W
  <1>21. top \in W
    BY <1>0, <1>19, <1>20, AllOfNat
  <1>22. path[0] \in Nat
    BY <1>0, <1>21 DEF W
  <1> QED BY <1>1, <1>22

(* The file an export writes can be read.                                  *)
LEMMA ExportIsFile ==
  ASSUME JoinedNumbers, NEW r, Tidy(r)
  PROVE  File(buildExport(r))
  <1> DEFINE t == r.session
             at(f)    == {s \in DOMAIN t : t[s].up = f}
             used     == {f \in DOMAIN r.folder : at(f) # {}}
             homes    == Sorted(r.folder, used) \o <<Root>>
             path     == [n \in DOMAIN homes |-> IF homes[n] = Root THEN Ungrouped ELSE pathOf(r.folder, homes[n])]
             first(n) == \A m \in 1 .. n - 1 : path[m] # path[n]
             of(n)    == LET ids == ByName(t, at(homes[n]))
                         IN  [k \in DOMAIN ids |-> [folder |-> path[n], name |-> t[ids[k]].name,
                                                    host |-> t[ids[k]].host]]
             group(p) == FlattenSeq([n \in DOMAIN homes |-> IF path[n] = p THEN of(n) ELSE <<>>])
             all      == [n \in DOMAIN homes |-> IF first(n) THEN group(path[n]) ELSE <<>>]
             H        == {t[s].host : s \in DOMAIN t}
             S        == [folder : Nat, name : Nat, host : H]
             n0       == Len(homes)
  <1>1. buildExport(r) = FlattenSeq(all)
    BY DEF buildExport
  <1>2. Orderly(r.folder) /\ Grounded(r.folder) /\ Orderly(t)
    BY DEF Tidy
  <1>3. Root \notin DOMAIN r.folder /\ used \subseteq DOMAIN r.folder /\ \A f : at(f) \subseteq DOMAIN t
    BY <1>2 DEF Orderly, Root
  <1> HIDE DEF used, at
  <1>4. Sorted(r.folder, used) \in Seq(used)
    BY <1>2, <1>3, RowsInOrder DEF InOrder
  <1>5. n0 \in Nat /\ DOMAIN homes = 1 .. n0 /\ \A n \in 1 .. n0 : homes[n] \in used \cup {Root}
    <2> DEFINE q == Sorted(r.folder, used)
               z == <<Root>>
               B == used \cup {Root}
    <2>1. q \in Seq(B) /\ z \in Seq(B)
      <3> HIDE DEF q
      <3> QED BY <1>4, SeqMore DEF q
    <2> HIDE DEF q, z, B
    <2>2. q \o z \in Seq(B)
      BY <2>1, ConcatProperties
    <2>3. homes = q \o z
      BY DEF q, z
    <2> HIDE DEF homes
    <2>4. homes \in Seq(B)
      BY <2>2, <2>3
    <2> QED BY <2>4, LenProperties DEF B
  <1> HIDE DEF homes, n0
  <1>6. ASSUME NEW n \in 1 .. n0 PROVE path[n] \in Nat
    <2>1. path[n] = IF homes[n] = Root THEN Ungrouped ELSE pathOf(r.folder, homes[n])
      BY <1>5
    <2>2. homes[n] # Root => homes[n] \in DOMAIN r.folder
      BY <1>3, <1>5
    <2>3. homes[n] # Root => pathOf(r.folder, homes[n]) \in Nat
      BY <1>2, <2>2, PathNumber
    <2>4. Ungrouped \in Nat
      BY TreeAssumption
    <2> HIDE DEF path
    <2> QED BY <2>1, <2>3, <2>4
  <1> HIDE DEF path
  <1>7. ASSUME NEW n \in 1 .. n0 PROVE of(n) \in Seq(S)
    <2> DEFINE ids == ByName(t, at(homes[n]))
               m == Len(ids)
               dev == [k \in DOMAIN ids |-> [folder |-> path[n], name |-> t[ids[k]].name, host |-> t[ids[k]].host]]
    <2>1. ids \in Seq(at(homes[n]))
      BY <1>2, <1>3, NamesInOrder
    <2> HIDE DEF ids
    <2>2. m \in Nat /\ DOMAIN ids = 1 .. m /\ \A k \in 1 .. m : ids[k] \in DOMAIN t
      BY <1>3, <2>1
    <2>3. ASSUME NEW k \in 1 .. m
          PROVE  [folder |-> path[n], name |-> t[ids[k]].name, host |-> t[ids[k]].host] \in S
      <3>1. ids[k] \in DOMAIN t /\ path[n] \in Nat
        BY <1>6, <2>2
      <3>2. t[ids[k]].name \in Nat /\ t[ids[k]].host \in H
        BY <1>2, <3>1 DEF Orderly
      <3> HIDE DEF H, t
      <3> QED BY <3>1, <3>2
    <2> HIDE DEF m
    <2>4. dev \in [1 .. m -> S]
      <3> HIDE DEF S, t
      <3> QED BY <2>2, <2>3
    <2> HIDE DEF dev, S
    <2>5. dev \in Seq(S)
      BY <2>2, <2>4, MadeSeq
    <2> QED BY <2>5 DEF dev, ids
  <1> HIDE DEF of, S
  <1>8. <<>> \in Seq(S)
    BY EmptySeq
  <1>9. ASSUME NEW p PROVE group(p) \in Seq(S)
    <2> DEFINE some == [n \in DOMAIN homes |-> IF path[n] = p THEN of(n) ELSE <<>>]
    <2>1. some \in [1 .. n0 -> Seq(S)]
      BY <1>5, <1>7, <1>8
    <2> HIDE DEF some
    <2>2. some \in Seq(Seq(S))
      BY <1>5, <2>1, MadeSeq
    <2>3. FlattenSeq(some) \in Seq(S)
      BY <2>2, Flattened
    <2> QED BY <2>3 DEF some
  <1> HIDE DEF group, first
  <1>10. all \in [1 .. n0 -> Seq(S)]
    BY <1>5, <1>8, <1>9
  <1> HIDE DEF all
  <1>11. all \in Seq(Seq(S))
    BY <1>5, <1>10, MadeSeq
  <1>12. buildExport(r) \in Seq(S)
    BY <1>1, <1>11, Flattened
  <1>13. \A d \in S : d.folder \in Nat /\ d.name \in Nat
    BY DEF S
  <1> QED BY <1>12, <1>13, LenProperties DEF File


------------------------------------------------------------------------------
(* The work of an import: what it has in hand and is yet to do stays        *)
(* numbered, and the one folder it may make is at the top.                  *)

LEMMA ImporterPlaced ==
  ASSUME TreeInv, ReachInv, NEW a \in Apps, job[a].does = "import"
  PROVE  /\ Importer(job[a]) /\ File(job[a].todo)
         /\ \A k, i, row : InHand(job[a], k, i, row) => Numbered(row)
  <1>1. PlacedJob(job[a], tree[a])
    BY DEF ReachInv, JobsPlaced
  <1> QED BY <1>1, ImporterHere DEF PlacedJob

LEMMA ImportWorks ==
  ASSUME TreeInv, NEW a \in Apps, UNCHANGED tree, OthersAlone(a), NEW q, job'[a] = q, Importer(q), File(q.todo),
         \A k, i, row : InHand(q, k, i, row) => Numbered(row)
  PROVE  Works(a)
  <1>1. ~Writing(q)
    BY DEF Importer, Writing
  <1>2. PlacedJob(q, tree[a])
    BY <1>1 DEF PlacedJob
  <1>3. PlacedJob(job'[a], tree'[a])
    BY <1>2
  <1>4. TreesStand
    BY TreesLeft
  <1> QED BY <1>3, <1>4 DEF Works

(* No row is written.                                                      *)
LEMMA ImportReads ==
  ASSUME TreeInv, ReachInv, NEW a \in Apps, UNCHANGED <<rows, last, tree, dialog>>, OthersAlone(a),
         NEW q, job'[a] = q, Importer(q), File(q.todo), \A k, i, row : InHand(q, k, i, row) => Numbered(row)
  PROVE  Follows(a)
  <1>1. Works(a)
    BY ImportWorks
  <1>2. CopiesPlaced'
    BY CopiesEnd, PlacesStay
  <1> QED BY <1>1, <1>2, StillReach

LEMMA BeginImportReach ==
  ASSUME TreeInv, ReachInv, NEW a \in Apps, NEW doc, File(doc), NEW merge, applyImport(a, doc, merge)
  PROVE  Follows(a)
  <1> DEFINE b == ByHost(rows.session)
             phase == Phase(doc, 1)
             q == [does |-> "import", todo |-> doc, n |-> 1, phase |-> phase,
                   into |-> Root, byHost |-> b, merge |-> merge, wrote |-> FALSE]
  <1>1. job' = [job EXCEPT ![a] = q] /\ UNCHANGED <<rows, last, tree, dialog>>
    BY DEF applyImport
  <1>2. \A h \in DOMAIN b : \E s \in DOMAIN rows.session : b[h].row = getSession(s)
    BY ByHostIs DEF getSession
  <1> HIDE DEF b, phase
  <1>3. Importer(q) /\ q.byHost = b /\ q.todo = doc
    BY DEF Importer, ImporterFields
  <1> HIDE DEF q
  <1>4. OthersAlone(a) /\ job'[a] = q
    BY <1>1, JobSet
  <1>5. ASSUME NEW k, NEW i, NEW row, InHand(q, k, i, row) PROVE Numbered(row)
    <2>1. \E h \in DOMAIN b : row = b[h].row
      BY <1>3, <1>5 DEF InHand, Importer, Writing
    <2>2. PICK s \in DOMAIN rows.session : row = getSession(s)
      BY <1>2, <2>1
    <2> QED BY <2>2, ReadRow DEF Numbered
  <1> QED BY <1>1, <1>3, <1>4, <1>5, ImportReads

LEMMA FindReach ==
  ASSUME TreeInv, ReachInv, NEW a \in Apps, findFolder(a)
  PROVE  Follows(a)
  <1>1. /\ Imports(a, "find") /\ UNCHANGED <<rows, last, tree, dialog>>
        /\ \E phase, into : job' = [job EXCEPT ![a].phase = phase, ![a].into = into]
    BY DEF findFolder
  <1>2. /\ Importer(job[a]) /\ File(job[a].todo)
        /\ \A k, i, row : InHand(job[a], k, i, row) => Numbered(row)
    BY <1>1, ImporterPlaced DEF Imports
  <1>3. PICK phase, into : job' = [job EXCEPT ![a].phase = phase, ![a].into = into]
    BY <1>1
  <1> DEFINE j == job[a]
             q == [j EXCEPT !.phase = phase, !.into = into]
  <1>4. OthersAlone(a) /\ job'[a] = q
    BY <1>3, ShapeFacts DEF Facts, OthersAlone
  <1> HIDE DEF j
  <1>5. Importer(j)
    BY <1>2 DEF j
  <1>6. Importer(q) /\ q.byHost = j.byHost /\ q.merge = j.merge /\ q.todo = j.todo /\ q.n = j.n
    BY <1>5 DEF Importer, ImporterFields
  <1> HIDE DEF q
  <1>7. \A k, i, row : InHand(q, k, i, row) => InHand(j, k, i, row)
    BY <1>5, <1>6, HandFewer
  <1>8. File(q.todo) /\ \A k, i, row : InHand(q, k, i, row) => Numbered(row)
    BY <1>2, <1>6, <1>7 DEF j
  <1> QED BY <1>1, <1>4, <1>6, <1>8, ImportReads

LEMMA SkipReach ==
  ASSUME TreeInv, ReachInv, NEW a \in Apps, skipDevice(a)
  PROVE  Follows(a)
  <1> DEFINE j == job[a]
             q == Imported(j, None)
  <1>1. /\ Imports(a, "write") /\ UNCHANGED <<rows, last, tree, dialog>> /\ job' = [job EXCEPT ![a] = q]
    BY DEF skipDevice
  <1>2. Importer(j) /\ File(j.todo) /\ \A k, i, row : InHand(j, k, i, row) => Numbered(row)
    BY <1>1, ImporterPlaced DEF Imports
  <1>3. OthersAlone(a) /\ job'[a] = q
    BY <1>1, JobSet
  <1> HIDE DEF j
  <1>4. Importer(q) /\ q.byHost = j.byHost /\ q.merge = j.merge /\ q.todo = j.todo /\ q.n = j.n + 1
    BY <1>2, ImportedIs
  <1> HIDE DEF q
  <1>5. \A k, i, row : InHand(q, k, i, row) => InHand(j, k, i, row)
    BY <1>2, <1>4, HandFewer
  <1> QED BY <1>1, <1>2, <1>3, <1>4, <1>5, ImportReads

LEMMA StopReach ==
  ASSUME TreeInv, ReachInv, NEW a \in Apps, importFails(a)
  PROVE  Follows(a)
  <1> DEFINE todo == <<>>
             j == job[a]
             q == [j EXCEPT !.todo = todo]
  <1>1. /\ j.does = "import" /\ UNCHANGED <<rows, last, tree, dialog>>
        /\ job' = [job EXCEPT ![a].todo = todo]
    BY DEF importFails, Imports
  <1>2. DOMAIN todo = {}
    OBVIOUS
  <1>3. Importer(j) /\ \A k, i, row : InHand(j, k, i, row) => Numbered(row)
    BY <1>1, ImporterPlaced
  <1> HIDE DEF todo
  <1>4. OthersAlone(a) /\ job'[a] = q
    BY <1>1, ShapeFacts DEF Facts, OthersAlone
  <1> HIDE DEF j
  <1>5. Importer(q) /\ q.byHost = j.byHost /\ q.merge = j.merge /\ q.todo = todo
    BY <1>3 DEF Importer, ImporterFields
  <1> HIDE DEF q
  <1>6. \A k, i, row : InHand(q, k, i, row) => InHand(j, k, i, row)
    BY <1>2, <1>3, <1>5, HandFewer
  <1>7. File(q.todo)
    BY <1>2, <1>5 DEF File
  <1> QED BY <1>1, <1>3, <1>4, <1>5, <1>6, <1>7, ImportReads

LEMMA EndReach ==
  ASSUME TreeInv, ReachInv, NEW a \in Apps, importEnds(a)
  PROVE  Follows(a)
  <1>1. UNCHANGED <<rows, last, dialog>>
    BY DEF importEnds
  <1>2. Loads(a) \/ (job' = [job EXCEPT ![a] = NoJob] /\ UNCHANGED tree)
    BY Reloaded DEF importEnds
  <1>3. CASE Loads(a)
    BY <1>1, <1>3, LoadsReach
  <1>4. CASE job' = [job EXCEPT ![a] = NoJob] /\ UNCHANGED tree
    <2>1. UNCHANGED <<rows, last, tree, dialog>> /\ job' = [job EXCEPT ![a] = NoJob]
      BY <1>1, <1>4
    <2> QED BY <2>1, FreedReach
  <1> QED BY <1>2, <1>3, <1>4

LEMMA MakeReach ==
  ASSUME TreeInv, ReachInv, NEW a \in Apps, makeFolder(a)
  PROVE  Follows(a)
  <1> DEFINE j == job[a]
             l == last.folder
             name == Now(a).folder
             t == Inserted(rows.folder, l + 1, NewFolder(Root, name))
             f == l + 1
             q == [j EXCEPT !.phase = "write", !.into = f, !.wrote = TRUE]
  <1>1. /\ Imports(a, "make") /\ UNCHANGED <<tree, filtering, dialog>>
        /\ rows' = [rows EXCEPT !.folder = t] /\ last' = [last EXCEPT !.folder = l + 1]
        /\ seen' = [seen EXCEPT !.open = @ \cup {l + 1}]
        /\ job' = [job EXCEPT ![a] = [@ EXCEPT !.phase = "write", !.into = f, !.wrote = TRUE]]
    BY DEF makeFolder
  <1>2. Importer(j) /\ File(j.todo) /\ \A k, i, row : InHand(j, k, i, row) => Numbered(row)
    BY <1>1, ImporterPlaced DEF Imports
  <1>3. name \in Nat
    BY <1>1, <1>2 DEF Imports, File, Now
  <1>4. Forest(rows.folder, l) /\ l \in Nat /\ l + 1 \in Nat /\ Root \in 0 .. l
    BY DEF ReachInv, RowsTidy, Forest, Root
  <1>5. last'.folder = l + 1
    BY <1>1, ShapeFacts DEF Facts
  <1>6. OthersAlone(a) /\ job'[a] = q
    BY <1>1, ShapeFacts DEF Facts, OthersAlone
  <1> HIDE DEF l, name, j
  <1>7. Forest(t, l + 1)
    BY <1>3, <1>4, ForestInserted
  <1> HIDE DEF t, f
  <1>8. rows'.folder = t /\ rows'.session = rows.session
    BY <1>1, ShapeFacts DEF Facts
  <1>9. Importer(q) /\ q.byHost = j.byHost /\ q.merge = j.merge /\ q.todo = j.todo /\ q.n = j.n
    BY <1>2 DEF Importer, ImporterFields
  <1> HIDE DEF q
  <1>10. \A k, i, row : InHand(q, k, i, row) => InHand(j, k, i, row)
    BY <1>2, <1>9, HandFewer
  <1>11. Works(a)
    BY <1>1, <1>2, <1>6, <1>9, <1>10, ImportWorks
  <1>12. CopiesPlaced'
    BY <1>1, CopiesEnd, PlacesStay
  <1>13. l <= last'.folder
    BY <1>4, <1>5
  <1> QED BY <1>5, <1>7, <1>8, <1>11, <1>12, <1>13, FoldersFollow DEF l

(* The device is in a row, a copy of which the import keeps.                *)
LEMMA DeviceWorks ==
  ASSUME TreeInv, NEW a \in Apps, UNCHANGED tree, OthersAlone(a), NEW j, Importer(j), File(j.todo),
         \A k, i, row : InHand(j, k, i, row) => Numbered(row),
         NEW i, NEW r, Numbered(r), job'[a] = Imported(j, [id |-> i, row |-> r])
  PROVE  Works(a)
  <1> DEFINE e == [id |-> i, row |-> r]
             q == Imported(j, e)
  <1>1. e # None
    BY DEF None
  <1>2. job'[a] = q
    OBVIOUS
  <1>3. /\ Importer(q) /\ q.n = j.n + 1 /\ q.todo = j.todo /\ q.merge = j.merge
        /\ q.byHost = With(j.byHost, j.todo[j.n].host, e)
    <2> HIDE DEF e
    <2> QED BY <1>1, ImportedIs
  <1> HIDE DEF q
  <1>4. ASSUME NEW k, NEW x, NEW row, InHand(q, k, x, row) PROVE Numbered(row)
    <2>1. InHand(j, k, x, row) \/ (k = "session" /\ x = i /\ row = r)
      BY <1>3, <1>4, HandNext
    <2> QED BY <2>1
  <1> QED BY <1>2, <1>3, <1>4, ImportWorks

LEMMA MergeReach ==
  ASSUME TreeInv, ReachInv, NEW a \in Apps, mergeDevice(a)
  PROVE  Follows(a)
  <1> DEFINE j == job[a]
             d == Now(a)
             h == d.host
             old == j.byHost[h]
             i == old.id
             copy == old.row
             row == Merged(copy, d, j.into)
             t == rows.session
             u == updateSession(t, i, row)
  <1>1. /\ Imports(a, "write") /\ j.merge /\ h \in DOMAIN j.byHost
        /\ rows' = [rows EXCEPT !.session = u]
        /\ job' = [job EXCEPT ![a] = Imported(@, [id |-> i, row |-> row])]
        /\ UNCHANGED <<last, tree, dialog>>
    BY DEF mergeDevice
  <1>2. Importer(j) /\ Hand(j) /\ File(j.todo) /\ \A k, x, r : InHand(j, k, x, r) => Numbered(r)
    BY <1>1, ImporterPlaced, ImporterHere DEF Imports
  <1>3. d.name \in Nat
    BY <1>1, <1>2 DEF Imports, File, Now
  <1>4. InHand(j, "session", i, copy)
    <2>1. j.n \in DOMAIN j.todo \ (1 .. j.n - 1) /\ h = j.todo[j.n].host
      BY <1>1, <1>2 DEF Imports, Importer, Now
    <2> HIDE DEF j, h
    <2> QED BY <1>1, <1>2, <2>1 DEF InHand, Importer
  <1>5. DOMAIN copy = Columns /\ Numbered(copy)
    <2> HIDE DEF j, i, copy
    <2> QED BY <1>2, <1>4 DEF Hand, Fits
  <1> HIDE DEF copy, d
  <1>6. {"pos", "name"} \subseteq DOMAIN row /\ Numbered(row)
    <2> DEFINE into == j.into
    <2>1. row = [copy EXCEPT !.name = d.name, !.host = d.host, !.up = into]
      BY DEF Merged
    <2> HIDE DEF into, row
    <2> QED BY <1>3, <1>5, <2>1 DEF Numbered, Columns, kSchema, kAddedColumns
  <1>7. OthersAlone(a) /\ job'[a] = Imported(j, [id |-> i, row |-> row])
    BY <1>1, ShapeFacts DEF Facts, OthersAlone
  <1> HIDE DEF row, i, j
  <1>8. Works(a)
    BY <1>1, <1>2, <1>6, <1>7, DeviceWorks
  <1>9. Orderly(t)
    BY DEF ReachInv, RowsTidy
  <1> HIDE DEF t
  <1>10. Orderly(u)
    BY <1>6, <1>9, OrderlyUpdated
  <1> HIDE DEF u
  <1>11. FoldersLeft /\ rows'.session = u
    BY <1>1, ShapeFacts DEF Facts, FoldersLeft
  <1>12. CopiesPlaced'
    BY <1>1, CopiesEnd, PlacesStay
  <1> QED BY <1>8, <1>10, <1>11, <1>12, SessionsFollow

LEMMA DeviceReach ==
  ASSUME TreeInv, ReachInv, NEW a \in Apps, insertDevice(a)
  PROVE  Follows(a)
  <1> DEFINE j == job[a]
             d == Now(a)
             s == last.session + 1
             row == NewSession(j.into, d.name, d.host)
  <1>1. /\ Imports(a, "write") /\ Insert(s, row)
        /\ job' = [job EXCEPT ![a] = Imported(@, [id |-> s, row |-> row])]
        /\ UNCHANGED <<tree, dialog>>
    BY DEF insertDevice
  <1>2. Importer(j) /\ File(j.todo) /\ \A k, x, r : InHand(j, k, x, r) => Numbered(r)
    BY <1>1, ImporterPlaced DEF Imports
  <1>3. d.name \in Nat
    BY <1>1, <1>2 DEF Imports, File, Now
  <1>4. OthersAlone(a) /\ job'[a] = Imported(j, [id |-> s, row |-> row])
    BY <1>1, ShapeFacts DEF Facts, OthersAlone
  <1> HIDE DEF d, j
  <1>5. DOMAIN row = Columns /\ row.name \in Nat /\ Numbered(row)
    BY <1>3 DEF NewSession, Columns, kSchema, kAddedColumns, Numbered
  <1> HIDE DEF row
  <1>6. Works(a)
    <2> HIDE DEF s
    <2> QED BY <1>1, <1>2, <1>4, <1>5, DeviceWorks
  <1>7. CopiesStay
    BY <1>1, CopiesEnd
  <1> QED BY <1>1, <1>5, <1>6, <1>7, InsertReach

------------------------------------------------------------------------------
(* From the files the windows start with, through every step.              *)

(* A file of the user's holds tables that can be walked.                   *)
LEMMA FileForest ==
  ASSUME NEW r \in Stores
  PROVE  Forest(r.folder, r.last.folder)
  <1> DEFINE t == r.folder
             l == r.last.folder
  <1>1. /\ l \in Nat
        /\ \A f \in DOMAIN t : f \in 1 .. l /\ t[f].up \in 0 .. l
        /\ \A f \in DOMAIN t : t[f].pos \in Nat /\ t[f].name \in Nat
    BY TreeAssumption DEF Kinds
  <1>2. PICK depth \in [DOMAIN t -> 0 .. l] :
          \A f \in DOMAIN t : t[f].up \in DOMAIN t => depth[t[f].up] < depth[f]
    BY FilesAreTrees
  <1> HIDE DEF t, l
  <1>3. IsFiniteSet(DOMAIN t)
    <2>1. IsFiniteSet(1 .. l) /\ DOMAIN t \subseteq 1 .. l
      BY <1>1, FS_Interval
    <2> QED BY <2>1, FS_Subset
  <1>4. Orderly(t)
    BY <1>1, <1>3 DEF Orderly
  <1>5. Grounded(t)
    <2>1. DOMAIN Ups(t) = DOMAIN t /\ \A f \in DOMAIN t : Ups(t)[f] = t[f].up
      BY DEF Ups
    <2>2. depth \in [DOMAIN t -> Nat]
      BY <1>1, <1>2
    <2>3. Descends(Ups(t), depth)
      BY <1>2, <2>1, <2>2 DEF Descends
    <2> QED BY <2>3 DEF Grounded
  <1>6. Parents(t, l)
    BY <1>1 DEF Parents
  <1> QED BY <1>1, <1>4, <1>5, <1>6 DEF Forest, t, l

LEMMA FileSessions ==
  ASSUME NEW r \in Stores, NEW u, u = [s \in DOMAIN r.session |-> Filled(r.session[s], kAddedColumns, Start)]
  PROVE  Orderly(u)
  <1> DEFINE t == r.session
             l == r.last.session
  <1>1. /\ l \in Nat
        /\ \A s \in DOMAIN t : s \in 1 .. l /\ DOMAIN t[s] \in {kSchema, Columns}
        /\ \A s \in DOMAIN t : t[s].pos \in Nat /\ t[s].name \in Nat
    BY TreeAssumption DEF Kinds, Columns
  <1>2. u = [s \in DOMAIN t |-> Filled(t[s], kAddedColumns, Start)]
    OBVIOUS
  <1> HIDE DEF t, l
  <1>3. IsFiniteSet(DOMAIN t)
    <2>1. IsFiniteSet(1 .. l) /\ DOMAIN t \subseteq 1 .. l
      BY <1>1, FS_Interval
    <2> QED BY <2>1, FS_Subset
  <1>4. DOMAIN u = DOMAIN t /\ \A s \in DOMAIN t : \A c \in DOMAIN t[s] : u[s][c] = t[s][c]
    BY <1>1, <1>2, Migrated
  <1>5. ASSUME NEW s \in DOMAIN t PROVE u[s].pos = t[s].pos /\ u[s].name = t[s].name
    <2>1. "pos" \in DOMAIN t[s] /\ "name" \in DOMAIN t[s]
      BY <1>1 DEF Columns, kSchema
    <2> QED BY <1>4, <2>1
  <1>6. \A s \in DOMAIN t : u[s].pos \in Nat /\ u[s].name \in Nat
    BY <1>1, <1>5
  <1>7. DOMAIN u = DOMAIN t /\ DOMAIN t \subseteq Nat \ {0}
    <2>1. \A s \in 1 .. l : s \in Nat \ {0}
      BY <1>1
    <2> QED BY <1>1, <1>4, <2>1
  <1> QED BY <1>3, <1>6, <1>7 DEF Orderly


LEMMA ReachInit == Init => ReachInv
  <1> SUFFICES ASSUME Init PROVE ReachInv
    OBVIOUS
  <1>1. PICK r \in Stores : rows = migrate([k \in Kinds |-> r[k]]) /\ last = r.last
    BY DEF Init
  <1>2. /\ tree = [a \in Apps |-> reload(rows)] /\ dialog = [a \in Apps |-> None]
        /\ job = [a \in Apps |-> NoJob]
    BY DEF Init
  <1> DEFINE both == [k \in Kinds |-> r[k]]
             u == [s \in DOMAIN r.session |-> Filled(r.session[s], kAddedColumns, Start)]
  <1>3. both.session = r.session /\ both.folder = r.folder /\ DOMAIN both = Kinds
    BY DEF Kinds
  <1>4. rows = [both EXCEPT !.session = [s \in DOMAIN both.session |->
                                          Filled(both.session[s], kAddedColumns, Start)]]
    BY <1>1 DEF migrate
  <1> HIDE DEF both
  <1>5. rows.session = u /\ rows.folder = r.folder
    BY <1>3, <1>4 DEF Kinds
  <1>6. Orderly(u)
    BY FileSessions
  <1> HIDE DEF u
  <1>7. RowsTidy
    BY <1>1, <1>5, <1>6, FileForest DEF RowsTidy
  <1>8. CopiesPlaced
    BY <1>2 DEF CopiesPlaced
  <1>9. Tidy(rows) /\ Parents(rows.folder, last.folder)
    BY <1>7, RowsAreTidy DEF RowsTidy, Forest
  <1>10. Looks(reload(rows), last.folder)
    <2> DEFINE l == last.folder
    <2>1. Parents(rows.folder, l)
      BY <1>9
    <2> HIDE DEF l
    <2>2. Looks(reload(rows), l)
      BY <1>9, <2>1, LooksNow
    <2> QED BY <2>2 DEF l
  <1>11. Windows
    BY <1>2, <1>10 DEF Windows
  <1>12. JobsPlaced
    <2>1. \A a \in Apps : job[a] = NoJob
      BY <1>2
    <2> QED BY <2>1, NoJobPlaced DEF JobsPlaced
  <1> QED BY <1>7, <1>8, <1>11, <1>12 DEF ReachInv

LEMMA FolderReach ==
  ASSUME TreeInv, ReachInv, NEW a \in Apps, Folder(a)
  PROVE  Follows(a)
  <1>1. CASE \E up \in Containers(tree[a]), n \in Names : addFolder(a, up, n)
    BY <1>1, AddReach
  <1>2. CASE \E f \in Folders(tree[a]) : removeFolder(a, f)
    BY <1>2, RemoveReach
  <1>3. CASE \E f \in Folders(tree[a]) : setExpanded(a, f)
    BY <1>3, ExpandReach
  <1>4. CASE \E f \in Folders(tree[a]), n \in Names : renameFolder(a, f, n)
    BY <1>4, RenameReach
  <1>5. CASE \E fs \in SUBSET Folders(tree[a]) : applyFilter(a, fs)
    BY <1>5, FilterReach
  <1> QED BY <1>1, <1>2, <1>3, <1>4, <1>5 DEF Folder

LEMMA SessionReach ==
  ASSUME TreeInv, ReachInv, NEW a \in Apps, Session(a)
  PROVE  Follows(a)
  <1>1. CASE \E s \in 1 .. last.session : editSession(a, s)
    BY <1>1, EditReach
  <1>2. CASE \E s \in 1 .. last.session : duplicateSession(a, s)
    BY <1>2, CopyReach
  <1>3. CASE \E s \in 1 .. last.session : deleteSession(a, s)
    BY <1>3, DeleteReach
  <1>4. CASE \E s \in 1 .. last.session : emitConnect(a, s)
    BY <1>4, ConnectReach
  <1>5. CASE \E up \in 0 .. MaxId, n \in Names, h \in Hosts, own \in Owns : saveEdited(a, up, n, h, own)
    BY <1>5, SaveReach
  <1>6. CASE \E up \in 0 .. MaxId, n \in Names, h \in Hosts, own \in Owns : saveNew(a, up, n, h, own)
    BY <1>6, SaveNewReach
  <1>7. CASE addSession(a)
    BY <1>7, NewReach
  <1>8. CASE cancel(a)
    BY <1>8, CancelReach
  <1> QED BY <1>1, <1>2, <1>3, <1>4, <1>5, <1>6, <1>7, <1>8 DEF Session

LEMMA DragReach ==
  ASSUME TreeInv, ReachInv, NEW a \in Apps, Drop(a)
  PROVE  Follows(a)
  <1>1. PICK k \in Kinds : \E i \in 1 .. last[k], target \in Containers(tree[a]) :
          \E row \in -1 .. Len(children(tree[a], target)) : dropMimeData(a, k, i, target, row)
    BY DEF Drop
  <1>2. PICK i \in 1 .. last[k], target \in Containers(tree[a]) :
          \E row \in -1 .. Len(children(tree[a], target)) : dropMimeData(a, k, i, target, row)
    BY <1>1
  <1>3. PICK row \in Int : dropMimeData(a, k, i, target, row)
    BY <1>2
  <1> QED BY <1>3, DropReach

LEMMA RowReach ==
  ASSUME TreeInv, ReachInv, NEW a \in Apps, RowStep(a), ~seen'.crossed
  PROVE  Follows(a)
  <1>1. CASE updateRow(a)
    <2>1. seen'.crossed = (seen.crossed \/ Crosses(a, Now(a), job[a].copy))
      BY <1>1, ShapeFacts DEF updateRow, Facts
    <2>2. ~Crosses(a, Now(a), job[a].copy)
      BY <2>1
    <2> QED BY <1>1, <2>2, WriteReach
  <1> QED BY <1>1, GoneReach, GetReach, FailsReach, ReturnsReach DEF RowStep

LEMMA FileReach ==
  ASSUME JoinedNumbers, TreeInv, ReachInv, NEW a \in Apps, Import(a)
  PROVE  Follows(a)
  <1>1. ASSUME NEW doc \in Files \cup Exported PROVE File(doc)
    <2>1. CASE doc \in Files
      BY <2>1, TreeAssumption DEF File
    <2>2. CASE doc \in Exported
      <3>1. doc = buildExport(rows)
        BY <2>2 DEF Exported
      <3>2. Tidy(rows)
        BY RowsAreTidy DEF ReachInv
      <3>3. File(buildExport(rows))
        BY <3>2, ExportIsFile
      <3> QED BY <3>1, <3>3
    <2> QED BY <2>1, <2>2
  <1>2. CASE \E doc \in Files \cup Exported, merge \in BOOLEAN : applyImport(a, doc, merge)
    BY <1>1, <1>2, BeginImportReach
  <1> QED BY <1>2, FindReach, MakeReach, SkipReach, MergeReach, DeviceReach, StopReach, EndReach DEF Import

(* That a folder was moved unseen is not forgotten.                        *)
LEMMA CrossedStays ==
  ASSUME TreeInv, [Next]_vars, seen.crossed
  PROVE  seen'.crossed
  <1> USE ShapeFacts DEF Facts
  <1>1. CASE UNCHANGED vars
    BY <1>1 DEF vars
  <1>2. CASE Next
    <2>1. PICK a \in Apps : Folder(a) \/ Session(a) \/ Drop(a) \/ RowStep(a) \/ Import(a) \/ Reopen(a)
      BY <1>2 DEF Next
    <2>2. CASE Folder(a)
      BY <2>2 DEF Folder, addFolder, removeFolder, setExpanded, renameFolder, applyFilter
    <2>3. CASE Session(a)
      <3>1. CASE \E s \in 1 .. last.session : \/ editSession(a, s) \/ duplicateSession(a, s)
                                              \/ deleteSession(a, s) \/ emitConnect(a, s)
        BY <3>1 DEF editSession, OpenDialog, duplicateSession, Insert, deleteSession, emitConnect
      <3>2. CASE \E up \in 0 .. MaxId, n \in Names, h \in Hosts, own \in Owns : saveEdited(a, up, n, h, own)
        BY <3>2 DEF saveEdited
      <3>3. CASE \E up \in 0 .. MaxId, n \in Names, h \in Hosts, own \in Owns : saveNew(a, up, n, h, own)
        BY <3>3 DEF saveNew, Insert
      <3>4. CASE addSession(a) \/ cancel(a)
        BY <3>4 DEF addSession, cancel, OpenDialog
      <3> QED BY <2>3, <3>1, <3>2, <3>3, <3>4 DEF Session
    <2>4. CASE Drop(a)
      BY <2>4 DEF Drop, dropMimeData
    <2>5. CASE RowStep(a)
      BY <2>5 DEF RowStep, rowGone, getRow, updateRow, rowFails, Returns
    <2>6. CASE Import(a)
      BY <2>6 DEF Import, applyImport, findFolder, makeFolder, skipDevice, mergeDevice, insertDevice, Insert,
                  importFails, importEnds
    <2>7. CASE Reopen(a)
      BY <2>7 DEF Reopen
    <2> QED BY <2>1, <2>2, <2>3, <2>4, <2>5, <2>6, <2>7
  <1> QED BY <1>1, <1>2

LEMMA ReachSame ==
  ASSUME TreeInv, ReachInv, UNCHANGED vars
  PROVE  ReachInv'
  <1>1. PICK r, l, d, t, j : r = rows /\ l = last /\ d = dialog /\ t = tree /\ j = job
    OBVIOUS
  <1>2. UNCHANGED <<rows, last, dialog, tree, job>>
    BY DEF vars
  <1>3. RowsTidy'
    BY <1>2 DEF ReachInv, RowsTidy
  <1>4. CopiesPlaced'
    BY <1>2 DEF ReachInv, CopiesPlaced
  <1>5. Windows'
    BY <1>2 DEF ReachInv, Windows
  <1>6. JobsPlaced'
    BY <1>2 DEF ReachInv, JobsPlaced
  <1> QED BY <1>3, <1>4, <1>5, <1>6 DEF ReachInv

(* Once a folder was moved unseen nothing is said.                         *)
Reachable == seen.crossed \/ ReachInv

LEMMA ReachKept ==
  ASSUME JoinedNumbers, TreeInv, Reachable, [Next]_vars
  PROVE  Reachable'
  <1> SUFFICES ASSUME ~seen'.crossed PROVE ReachInv'
    BY DEF Reachable
  <1>1. ReachInv
    BY CrossedStays DEF Reachable
  <1>2. CASE UNCHANGED vars
    BY <1>1, <1>2, ReachSame
  <1>3. CASE Next
    <2>1. PICK a \in Apps : Folder(a) \/ Session(a) \/ Drop(a) \/ RowStep(a) \/ Import(a) \/ Reopen(a)
      BY <1>3 DEF Next
    <2>2. Follows(a)
      BY <1>1, <2>1, FolderReach, SessionReach, DragReach, RowReach, FileReach, ReopenReach
    <2> QED BY <1>1, <2>1, <2>2, WindowStep
  <1> QED BY <1>2, <1>3

LEMMA ReachAlways ==
  ASSUME JoinedNumbers
  PROVE  Spec => []Reachable
  <1>1. TreeInv /\ Reachable /\ [Next]_vars => Reachable'
    BY ReachKept
  <1>2. Init => Reachable
    BY ReachInit DEF Reachable
  <1> QED BY <1>1, <1>2, TreeAlways, PTL DEF Spec

------------------------------------------------------------------------------
(* The theorems.                                                           *)

(* The rows of both tables have all their columns, whatever version of the  *)
(* file they come from and whoever wrote them last, and ids that            *)
(* AUTOINCREMENT has handed out; an editor holds a whole row.               *)
TypeOK ==
  /\ Shape /\ Copies
  /\ \A f \in DOMAIN rows.folder : /\ f \in 1 .. last.folder /\ DOMAIN rows.folder[f] = kFolderCols
                                   /\ rows.folder[f].open \in BOOLEAN
  /\ \A s \in DOMAIN rows.session : s \in 1 .. last.session /\ DOMAIN rows.session[s] = Columns

THEOREM TreeTypes == Spec => []TypeOK
  <1>1. TreeInv => TypeOK
    BY DEF TreeInv, TypeOK, Sessions, Tally, Expanded, Opened
  <1> QED BY <1>1, TreeAlways, PTL

(* For any files, drags, imports, edits and windows, each statement of which *)
(* may fall between any two of another window's: the connect count of a row *)
(* is the number of connects since it was made, although editors, drags and *)
(* imports write whole copies back, and its overrides are those last saved  *)
(* in an editor, but for a row saved while another window's drag or import  *)
(* had a copy of it to write back.                                         *)
THEOREM OthersFieldsStay == Spec => []OthersFieldsKept
  <1>1. TreeInv => OthersFieldsKept
    BY DEF TreeInv, OthersFieldsKept, Sessions, Tally
  <1> QED BY <1>1, TreeAlways, PTL

(* The folders recorded as open are those a person opened last, or that     *)
(* were made and not closed since, but for one recorded while another       *)
(* window had its row in hand: no filter, reload, drag or import, and       *)
(* nothing the view tells while the tree is loaded, changes it.             *)
THEOREM ExpansionStays == Spec => []ExpansionIsTheUsers
  <1>1. TreeInv => ExpansionIsTheUsers
    BY DEF TreeInv, ExpansionIsTheUsers, Expanded, Opened
  <1> QED BY <1>1, TreeAlways, PTL

(* For any files, drags, imports, edits and windows, each statement of which *)
(* may fall between any two of another window's, and any write of which may *)
(* fail: a tree loaded now shows every folder and session of the store,     *)
(* until a folder is put under one that another window moved since this one *)
(* loaded its tree, or is put back where it was when its row was read. (The *)
(* names an export joins are numbers, as all names are.)                   *)
THEOREM FoldersStayReachable ==
  ASSUME JoinedNumbers
  PROVE  Spec => []NothingUnreachable
  <1>1. Reachable => NothingUnreachable
    <2> SUFFICES ASSUME Reachable, ~seen.crossed PROVE NothingUnreachable
      BY DEF NothingUnreachable
    <2>1. Tidy(rows)
      BY RowsAreTidy DEF Reachable, ReachInv
    <2> QED BY <2>1, AllInTree
  <1> QED BY <1>1, ReachAlways, PTL
=============================================================================
