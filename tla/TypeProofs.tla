----------------------------- MODULE TypeProofs -----------------------------
(***************************************************************************)
(* The types of all parts, for every value of the constants, with what     *)
(* they bound: the position in a level, the frame of a player, the length  *)
(* of a file, the fields of an answer.                                     *)
(***************************************************************************)
EXTENDS BytesProofs, HeaderRewrapProofs

----------------------------------------------------------------------------
\* GalleryView: positions stay in the level that is shown.

\* A view whose selected position is in its level.
Good(v) == DOMAIN v = ViewFields /\ Len(v.entries) \in Nat /\ v.selected \in 0..Len(v.entries)

\* The trees that may be navigated.
KnownTrees == {Trees[i] : i \in DOMAIN Trees} \cup {NoTree}

\* What GTK selects when a level is replaced is in the new one.
LEMMA AutoselectedFits ==
  ASSUME NEW removed \in Nat, NEW selected \in 0..removed, NEW added \in Nat
  PROVE  Autoselected(selected, removed, added) \in 0..added
<1>1. CASE added = 0 \/ selected = 0
  BY <1>1 DEF Autoselected
<1>2. CASE added # 0 /\ selected # 0
  <2>1. removed \in Nat \ {0} /\ added \in Nat \ {0} /\ selected - 1 \in Nat /\ selected <= removed
    BY <1>2
  <2>2. PICK n \in Nat : n = (selected - 1) * added
    BY <2>1
  <2>3. PICK q \in Nat : q = n \div removed /\ q * removed <= n
    BY <2>1, Quotients
  <2>4. q < added
    <3>1. SUFFICES ASSUME added <= q PROVE FALSE
      OBVIOUS
    <3>2. added * removed <= q * removed
      BY <2>1, <3>1, Products
    <3>3. (selected - 1) * added + added = selected * added
      BY <2>1
    <3>4. selected * added <= removed * added
      BY <2>1, Products
    <3>5. removed * added = added * removed
      BY <2>1
    <3>6. PICK x \in Nat : x = selected * added
      BY <2>1
    <3>7. PICK y \in Nat : y = removed * added
      BY <2>1
    <3>8. PICK z \in Nat : z = q * removed
      BY <2>1
    <3>9. y <= z
      BY <3>2, <3>5, <3>7, <3>8
    <3>10. z <= n
      BY <2>3, <3>8
    <3>11. n + added = x
      BY <2>2, <3>3, <3>6
    <3>12. x <= y
      BY <3>4, <3>6, <3>7
    <3> QED
      BY <2>1, <3>9, <3>10, <3>11, <3>12
  <2>5. Autoselected(selected, removed, added) = q + 1
    BY <1>2, <2>2, <2>3 DEF Autoselected
  <2> QED
    BY <2>4, <2>5
<1> QED
  BY <1>1, <1>2

\* Every level of a tree is a sequence.
LEMMA LevelsCount ==
  ASSUME NEW tree \in KnownTrees, NEW path
  PROVE  Len(Level(tree, path)) \in Nat
<1>1. CASE tree = NoTree
  <2>1. Level(tree, path) = <<>>
    BY <1>1 DEF Level, NoTree
  <2> QED
    BY <2>1
<1>2. CASE tree # NoTree
  <2>1. PICK i \in DOMAIN Trees : tree = Trees[i]
    BY <1>2 DEF KnownTrees
  <2>2. Len(tree.root) \in Nat /\ \A f \in DOMAIN tree.inside : Len(tree.inside[f]) \in Nat
    BY <2>1, ViewAssumption
  <2> QED
    BY <2>2 DEF Level
<1> QED
  BY <1>1, <1>2

\* What show_gallery_level leaves is good.
LEMMA ShownFits ==
  ASSUME NEW tree \in KnownTrees, NEW v, Good(v)
  PROVE  Good(Shown(tree, v))
<1>1. PICK next : next = Level(tree, v.path) /\ Len(next) \in Nat
  BY LevelsCount
<1>2. PICK s : s = Autoselected(v.selected, Len(v.entries), Len(next))
  OBVIOUS
<1>3. s \in 0..Len(next)
  BY <1>1, <1>2, AutoselectedFits DEF Good
<1>4. Shown(tree, v) = [entries |-> next, path |-> v.path, up |-> v.up, selected |-> s]
  BY <1>1, <1>2 DEF Shown
<1> QED
  BY <1>1, <1>3, <1>4 DEF Good, ViewFields

\* Entering a gallery changes the path and no position.
LEMMA InsideFits ==
  ASSUME NEW v, Good(v)
  PROVE  Good(Inside(v)) /\ Inside(v).entries = v.entries
<1>1. DOMAIN Inside(v) = ViewFields /\ Inside(v).entries = v.entries /\ Inside(v).selected = v.selected
  BY DEF Inside, Good, ViewFields
<1> QED
  BY <1>1 DEF Good

\* What one gallery deeper shows is good.
LEMMA InnerFits ==
  ASSUME NEW tree \in KnownTrees, NEW views, \A v \in views : Good(v)
  PROVE  \A w \in Inner(tree, views) : Good(w)
<1>1. SUFFICES ASSUME NEW w \in Inner(tree, views) PROVE Good(w)
  OBVIOUS
<1>2. PICK u \in views : w = Shown(tree, Inside(u))
  BY <1>1 DEF Inner
<1> QED
  BY <1>2, InsideFits, ShownFits

\* The views inside each other, as deep as one counts, are good.
Entered(f, tree, v, n) ==
  f = [k \in 0..n |-> IF k = 0 THEN {v} ELSE f[k - 1] \cup Inner(tree, f[k - 1])]

\* There is such a function, so that CHOOSE finds one.
LEMMA EnteredExists ==
  ASSUME NEW tree, NEW v, NEW n \in Nat
  PROVE  \E f : Entered(f, tree, v, n)
<1> DEFINE S == {m \in Nat : \E f : Entered(f, tree, v, m)}
<1>1. 0 \in S
  <2>1. PICK f : f = [k \in 0..0 |-> {v}]
    OBVIOUS
  <2>2. f[0] = {v} /\ f = [k \in 0..0 |-> IF k = 0 THEN {v} ELSE f[k - 1] \cup Inner(tree, f[k - 1])]
    BY <2>1
  <2>3. Entered(f, tree, v, 0)
    BY <2>2 DEF Entered
  <2> QED
    BY <2>3
<1>2. ASSUME NEW m \in S PROVE m + 1 \in S
  <2>1. PICK f : Entered(f, tree, v, m)
    OBVIOUS
  <2>2. m \in Nat
    OBVIOUS
  <2>3. PICK last : last = f[m] \cup Inner(tree, f[m])
    OBVIOUS
  <2>4. PICK g : g = [k \in 0..m + 1 |-> IF k <= m THEN f[k] ELSE last]
    OBVIOUS
  <2>5. \A k \in 0..m : f[k] = IF k = 0 THEN {v} ELSE f[k - 1] \cup Inner(tree, f[k - 1])
    BY <2>1 DEF Entered
  <2>6. ASSUME NEW k \in 0..m + 1
        PROVE  g[k] = IF k = 0 THEN {v} ELSE g[k - 1] \cup Inner(tree, g[k - 1])
    <3>1. CASE k <= m
      <4>1. k \in 0..m /\ (k # 0 => k - 1 \in 0..m /\ k - 1 <= m /\ k - 1 \in 0..m + 1)
        BY <2>2, <2>6, <3>1
      <4>2. g[k] = f[k] /\ (k # 0 => g[k - 1] = f[k - 1])
        BY <2>4, <2>6, <4>1
      <4> QED
        BY <2>5, <4>1, <4>2
    <3>2. CASE k = m + 1
      <4>1. k # 0 /\ k - 1 = m /\ ~(k <= m) /\ m \in 0..m + 1 /\ m <= m
        BY <2>2, <3>2
      <4>2. g[k] = last /\ g[k - 1] = f[m]
        BY <2>4, <2>6, <4>1
      <4> QED
        BY <2>3, <4>1, <4>2
    <3> QED
      BY <2>2, <2>6, <3>1, <3>2
  <2>7. g = [k \in 0..m + 1 |-> g[k]]
    BY <2>4
  <2>8. Entered(g, tree, v, m + 1)
    BY <2>6, <2>7 DEF Entered
  <2>9. \E h : Entered(h, tree, v, m + 1)
    BY <2>8
  <2>10. m + 1 \in Nat
    BY <2>2
  <2> QED
    BY <2>9, <2>10
<1>3. S = Nat
  <2> HIDE DEF S
  <2>1. S \in SUBSET Nat
    BY DEF S
  <2> QED
    BY <1>1, <1>2, <2>1, NatSets
<1> QED
  BY <1>3

\* However deep GTK selects galleries, what is shown is good.
LEMMA EnteredFits ==
  ASSUME NEW tree \in KnownTrees, NEW v, Good(v), NEW n \in Nat, NEW f, Entered(f, tree, v, n)
  PROVE  \A w \in f[n] : Good(w)
<1> DEFINE S == {m \in Nat : m <= n => \A w \in f[m] : Good(w)}
<1>1. \A k \in 0..n : f[k] = IF k = 0 THEN {v} ELSE f[k - 1] \cup Inner(tree, f[k - 1])
  BY DEF Entered
<1>2. 0 \in S
  <2>1. 0 \in 0..n
    OBVIOUS
  <2>2. f[0] = {v}
    BY <1>1, <2>1
  <2> QED
    BY <2>2
<1>3. ASSUME NEW m \in S PROVE m + 1 \in S
  <2>1. SUFFICES ASSUME m + 1 <= n PROVE \A w \in f[m + 1] : Good(w)
    OBVIOUS
  <2>2. \A w \in f[m] : Good(w)
    BY <1>3, <2>1
  <2>3. m + 1 \in 0..n /\ m + 1 # 0 /\ (m + 1) - 1 = m
    BY <1>3, <2>1
  <2>4. f[m + 1] = f[m] \cup Inner(tree, f[m])
    BY <1>1, <2>3
  <2> QED
    BY <2>2, <2>4, InnerFits
<1>4. S = Nat
  <2> HIDE DEF S
  <2>1. S \in SUBSET Nat
    BY DEF S
  <2> QED
    BY <1>2, <1>3, <2>1, NatSets
<1> QED
  BY <1>4

\* So is every view whose selection GTK tells of.
LEMMA ToldFits ==
  ASSUME NEW tree \in KnownTrees, NEW v, Good(v)
  PROVE  \A w \in Told(tree, v) : Good(w)
<1>1. PICK n \in Nat : n = Cardinality(Folders)
  BY ViewAssumption, FS_CardinalityType
<1>2. PICK f : f = (CHOOSE g : Entered(g, tree, v, n))
  OBVIOUS
<1>3. \E g : Entered(g, tree, v, n)
  BY EnteredExists
<1>4. Entered(f, tree, v, n)
  BY <1>2, <1>3
<1>5. Told(tree, v) = {v} \cup Inner(tree, f[n])
  BY <1>1, <1>2 DEF Told, Entered
<1>6. \A w \in f[n] : Good(w)
  BY <1>4, EnteredFits
<1>7. \A w \in Inner(tree, f[n]) : Good(w)
  BY <1>6, InnerFits
<1> QED
  BY <1>5, <1>7

\* Whatever ends up selected, and whatever level is shown, is good; without a tree, and for
\* an image, the level stays.
LEMMA SelectsFits ==
  ASSUME NEW tree \in KnownTrees, NEW v, Good(v), NEW w \in Selects(tree, v)
  PROVE  Good(w) /\ (tree = NoTree \/ ~OnFolder(v) => w.entries = v.entries)
<1>1. CASE ~OnFolder(v)
  BY <1>1 DEF Selects
<1>2. CASE OnFolder(v) /\ tree = NoTree
  BY <1>2, InsideFits DEF Selects
<1>3. CASE OnFolder(v) /\ tree # NoTree
  <2>1. PICK u \in Told(tree, v) : w \in Ends(tree, u)
    BY <1>3 DEF Selects
  <2>2. Good(u)
    BY <2>1, ToldFits
  <2>3. w = u \/ w = Shown(tree, Inside(u))
    BY <2>1 DEF Ends
  <2> QED
    BY <1>3, <2>2, <2>3, InsideFits, ShownFits
<1> QED
  BY <1>1, <1>2, <1>3

\* Whatever showing a level ends in is good.
LEMMA ShowsFits ==
  ASSUME NEW tree \in KnownTrees, NEW v, Good(v), NEW w \in Shows(tree, v)
  PROVE  Good(w)
<1>1. PICK u : u = Shown(tree, v) /\ Good(u)
  BY ShownFits
<1>2. w = u \/ w \in Selects(tree, u)
  BY <1>1 DEF Shows
<1> QED
  BY <1>1, <1>2, SelectsFits

\* The types of GalleryView, and those of the view.
ViewFits == ViewTypeOK /\ Good(view)

\* Tiles keep to the level when it is replaced and they are taken off it, or when it stays.
LEMMA RecycledFits ==
  ASSUME NEW replaced \in BOOLEAN, Recycled(replaced), Good(view), Good(view'),
         DOMAIN tiles = Tiles, \A t \in Tiles : DOMAIN tiles[t] = {"position", "picture"},
         \A t \in Tiles : tiles[t].position \in 0..Len(view.entries),
         replaced \/ view'.entries = view.entries
  PROVE  \A t \in Tiles : tiles'[t].position \in 0..Len(view'.entries)
<1>1. SUFFICES ASSUME NEW t \in Tiles PROVE tiles'[t].position \in 0..Len(view'.entries)
  OBVIOUS
<1>2. Len(view.entries) \in Nat /\ Len(view'.entries) \in Nat
  BY DEF Good
<1>3. CASE replaced
  <2>1. tiles'[t] = [tiles[t] EXCEPT !.position = Unbound]
    BY <1>3 DEF Recycled
  <2>2. tiles'[t].position = 0
    BY <2>1 DEF Unbound
  <2> QED
    BY <1>2, <2>2
<1>4. CASE ~replaced
  BY <1>4 DEF Recycled
<1> QED
  BY <1>3, <1>4

\* When the position and the level change, what else has a type stays.
LEMMA OnlyTheViewChanges ==
  ASSUME ViewFits, Good(view'), \A t \in Tiles : tiles'[t].position \in 0..Len(view'.entries),
         unlisted' = unlisted, shownSession' \in 0..sessions, sessions' = sessions,
         revision' = revision, snapshot' \in KnownTrees
  PROVE  ViewFits'
BY DEF ViewFits, ViewTypeOK, Good, KnownTrees, Unbound

\* Nothing is shown, and nothing is bound.
LEMMA ViewFitsBegins == ViewInit => ViewFits
<1> SUFFICES ASSUME ViewInit PROVE ViewFits
  OBVIOUS
<1>1. view = EmptyView /\ DOMAIN view = ViewFields /\ view.entries = <<>> /\ view.selected = 0
  BY DEF ViewInit, EmptyView, ViewFields
<1>2. Len(view.entries) = 0
  BY <1>1
<1>3. \A t \in Tiles : tiles[t].position = 0
  BY DEF ViewInit, FreeTile, Unbound
<1>4. 1 \in DOMAIN Trees
  BY ViewAssumption
<1>5. Good(view)
  BY <1>1, <1>2 DEF Good
<1>6. MaxSessions \in Nat
  BY ViewAssumption
<1>7. shownSession = 0 /\ sessions = 0 /\ revision = 1 /\ unlisted = FALSE /\ snapshot = NoTree
  BY DEF ViewInit
<1>8. view.selected \in 0..Len(view.entries) /\ 0 \in 0..Len(view.entries)
  BY <1>1, <1>2
<1>9. \A t \in Tiles : tiles[t].position \in Unbound..Len(view.entries)
  BY <1>3, <1>8 DEF Unbound
<1>10. shownSession \in 0..sessions /\ sessions \in 0..MaxSessions /\ revision \in DOMAIN Trees
  BY <1>4, <1>6, <1>7
<1>11. unlisted \in BOOLEAN /\ snapshot \in {Trees[i] : i \in DOMAIN Trees} \cup {NoTree}
  BY <1>7
<1> QED
  BY <1>5, <1>8, <1>9, <1>10, <1>11 DEF ViewFits, ViewTypeOK

\* A selection ends in a level that has it, and its tiles.
LEMMA SelectFits ==
  ASSUME ViewFits, ViewInvariant, NEW position, Select(position)
  PROVE  ViewFits'
<1> DEFINE v == [view EXCEPT !.selected = position]
<1>1. Good(view) /\ snapshot \in KnownTrees
  BY DEF ViewFits, ViewTypeOK, KnownTrees
<1>2. position \in 1..Len(view.entries) /\ view' \in Selects(snapshot, v)
  BY DEF Select
<1>3. DOMAIN v = ViewFields /\ v.entries = view.entries /\ v.selected = position
  BY <1>1 DEF Good, ViewFields
<1>4. position \in 0..Len(view.entries) /\ Len(view.entries) \in Nat
  BY <1>1, <1>2 DEF Good
<1>5. Good(v)
  BY <1>3, <1>4 DEF Good
<1> HIDE DEF v
<1>7. Good(view') /\ (snapshot = NoTree \/ ~OnFolder(v) => view'.entries = v.entries)
  BY <1>1, <1>2, <1>5, SelectsFits
<1>8. OnFolder(v) <=> view.entries[position] \in Folders
  BY <1>3 DEF OnFolder
<1>9. PICK replaced \in BOOLEAN :
        replaced = (snapshot # NoTree /\ view.entries[position] \in Folders)
  OBVIOUS
<1>10. Recycled(replaced)
  BY <1>9 DEF Select
<1>11. replaced \/ view'.entries = view.entries
  BY <1>3, <1>7, <1>8, <1>9
<1>12. \A t \in Tiles : tiles[t].position \in 0..Len(view.entries)
  BY DEF ViewFits, ViewTypeOK, Unbound
<1>13. DOMAIN tiles = Tiles /\ \A t \in Tiles : DOMAIN tiles[t] = {"position", "picture"}
  BY DEF ViewInvariant
<1>14. \A t \in Tiles : tiles'[t].position \in 0..Len(view'.entries)
  BY <1>1, <1>7, <1>10, <1>11, <1>12, <1>13, RecycledFits
<1>15. /\ unlisted' = unlisted /\ shownSession' = shownSession /\ sessions' = sessions
       /\ revision' = revision /\ snapshot' = snapshot
  BY DEF Select
<1>16. shownSession \in 0..sessions
  BY DEF ViewInvariant
<1> QED
  BY <1>1, <1>7, <1>14, <1>15, <1>16, OnlyTheViewChanges

\* So does the Up button.
LEMMA UpFits ==
  ASSUME ViewFits, ViewInvariant, ClickUp
  PROVE  ViewFits'
<1>1. Good(view) /\ snapshot \in KnownTrees
  BY DEF ViewFits, ViewTypeOK, KnownTrees
<1>2. PICK path : path = IF view.path = <<>> THEN <<>> ELSE SubSeq(view.path, 1, Len(view.path) - 1)
  OBVIOUS
<1>3. PICK v : v = [view EXCEPT !.path = path, !.up = path # <<>>]
  OBVIOUS
<1>4. DOMAIN v = ViewFields /\ v.entries = view.entries /\ v.selected = view.selected
  BY <1>1, <1>3 DEF Good, ViewFields
<1>5. Good(v)
  BY <1>1, <1>4 DEF Good
<1>6. PICK w \in (IF snapshot = NoTree THEN {v} ELSE Shows(snapshot, v)) :
        view' = w /\ Recycled(snapshot # NoTree)
  BY <1>2, <1>3 DEF ClickUp
<1>7. Good(view') /\ (snapshot # NoTree \/ view'.entries = view.entries)
  <2>1. CASE snapshot = NoTree
    BY <1>4, <1>5, <1>6, <2>1
  <2>2. CASE snapshot # NoTree
    <3>1. w \in Shows(snapshot, v)
      BY <1>6, <2>2
    <3> QED
      BY <1>1, <1>5, <1>6, <2>2, <3>1, ShowsFits
  <2> QED
    BY <2>1, <2>2
<1>8. PICK replaced \in BOOLEAN : replaced = (snapshot # NoTree)
  OBVIOUS
<1>9. Recycled(replaced) /\ (replaced \/ view'.entries = view.entries)
  BY <1>6, <1>7, <1>8
<1>12. \A t \in Tiles : tiles[t].position \in 0..Len(view.entries)
  BY DEF ViewFits, ViewTypeOK, Unbound
<1>13. DOMAIN tiles = Tiles /\ \A t \in Tiles : DOMAIN tiles[t] = {"position", "picture"}
  BY DEF ViewInvariant
<1>14. \A t \in Tiles : tiles'[t].position \in 0..Len(view'.entries)
  BY <1>1, <1>7, <1>9, <1>12, <1>13, RecycledFits
<1>15. /\ unlisted' = unlisted /\ shownSession' = shownSession /\ sessions' = sessions
       /\ revision' = revision /\ snapshot' = snapshot
  BY DEF ClickUp
<1>16. shownSession \in 0..sessions
  BY DEF ViewInvariant
<1> QED
  BY <1>1, <1>7, <1>14, <1>15, <1>16, OnlyTheViewChanges

\* So does a listing that arrives, which replaces the level by a shorter one perhaps.
LEMMA ArrivalFits ==
  ASSUME ViewFits, ViewInvariant, ListingArrives
  PROVE  ViewFits'
<1>1. Good(view) /\ snapshot \in KnownTrees
  BY DEF ViewFits, ViewTypeOK, KnownTrees
<1>2. PICK i \in listings :
        /\ Due(i)
        /\ IF i.generation = shownSession
           THEN /\ LET next == Trees[i.revision].root
                       position == Autoselected(view.selected, Len(view.entries), Len(next))
                       top == [entries |-> next, path |-> <<>>, selected |-> position, up |-> FALSE]
                   IN view' \in Selects(snapshot, top) \cup
                                (IF Quiet(top, view.selected) THEN {top} ELSE {})
                /\ snapshot' = Trees[i.revision]
                /\ Recycled(TRUE)
           ELSE UNCHANGED <<snapshot, view, tiles>>
  BY DEF ListingArrives
<1>12. \A t \in Tiles : tiles[t].position \in 0..Len(view.entries)
  BY DEF ViewFits, ViewTypeOK, Unbound
<1>13. DOMAIN tiles = Tiles /\ \A t \in Tiles : DOMAIN tiles[t] = {"position", "picture"}
  BY DEF ViewInvariant
<1>15. /\ unlisted' = unlisted /\ shownSession' = shownSession /\ sessions' = sessions
       /\ revision' = revision
  BY DEF ListingArrives
<1>16. shownSession \in 0..sessions
  BY DEF ViewInvariant
<1>3. CASE i.generation = shownSession
  <2>1. i.revision \in DOMAIN Trees
    <3>1. i.revision # 0 /\ i.revision \in 0..revision /\ revision \in DOMAIN Trees
      BY <1>2 DEF Due, ViewInvariant, ViewFits, ViewTypeOK
    <3> QED
      BY <3>1, ViewAssumption
  <2>2. PICK next : next = Trees[i.revision].root /\ Len(next) \in Nat
    BY <2>1, ViewAssumption
  <2>3. PICK position : position = Autoselected(view.selected, Len(view.entries), Len(next))
    OBVIOUS
  <2>4. position \in 0..Len(next)
    BY <1>1, <2>2, <2>3, AutoselectedFits DEF Good
  <2>5. PICK top : top = [entries |-> next, path |-> <<>>, selected |-> position, up |-> FALSE]
    OBVIOUS
  <2>6. Good(top)
    BY <2>2, <2>4, <2>5 DEF Good, ViewFields
  <2>7. view' = top \/ view' \in Selects(snapshot, top)
    BY <1>2, <1>3, <2>2, <2>3, <2>5
  <2>8. Good(view')
    BY <1>1, <2>6, <2>7, SelectsFits
  <2>9. snapshot' \in KnownTrees /\ Recycled(TRUE)
    BY <1>2, <1>3, <2>1 DEF KnownTrees
  <2>10. \A t \in Tiles : tiles'[t].position \in 0..Len(view'.entries)
    BY <1>1, <1>12, <1>13, <2>8, <2>9, RecycledFits
  <2> QED
    BY <1>15, <1>16, <2>8, <2>9, <2>10, OnlyTheViewChanges
<1>4. CASE i.generation # shownSession
  <2>1. snapshot' = snapshot /\ view' = view /\ tiles' = tiles
    BY <1>2, <1>4
  <2> QED
    BY <1>1, <1>12, <1>15, <1>16, <2>1, OnlyTheViewChanges
<1> QED
  BY <1>3, <1>4

\* The types of GalleryView are kept.
LEMMA ViewFitsStep == ViewFits /\ ViewInvariant /\ [ViewNext]_viewVars => ViewFits'
<1> SUFFICES ASSUME ViewFits, ViewInvariant, [ViewNext]_viewVars PROVE ViewFits'
  OBVIOUS
<1>1. Good(view) /\ snapshot \in KnownTrees /\ shownSession \in 0..sessions /\ sessions \in Nat
  BY DEF ViewFits, ViewTypeOK, KnownTrees, ViewInvariant
<1>2. \A t \in Tiles : tiles[t].position \in 0..Len(view.entries)
  BY DEF ViewFits, ViewTypeOK, Unbound
<1>3. DOMAIN tiles = Tiles /\ \A t \in Tiles : DOMAIN tiles[t] = {"position", "picture"}
  BY DEF ViewInvariant
<1>4. CASE OpenSession
  <2>1. sessions' \in 0..MaxSessions /\ shownSession' \in 0..sessions'
    BY <1>1, <1>4, ViewAssumption DEF OpenSession
  <2> QED
    BY <1>4, <2>1 DEF OpenSession, ViewFits, ViewTypeOK, Good
<1>5. CASE CatalogChanges
  <2>1. revision' \in DOMAIN Trees
    BY <1>5, ViewAssumption DEF CatalogChanges, ViewFits, ViewTypeOK
  <2> QED
    BY <1>5, <2>1 DEF CatalogChanges, ViewFits, ViewTypeOK, Good
<1>6. CASE LockGallery
  <2>1. view' = [EmptyView EXCEPT !.up = view.up]
    BY <1>6 DEF LockGallery
  <2>2. DOMAIN view' = ViewFields /\ view'.entries = <<>> /\ view'.selected = 0
    BY <2>1 DEF EmptyView, ViewFields
  <2>3. Len(view'.entries) = 0
    BY <2>2
  <2>4. Good(view')
    BY <2>2, <2>3 DEF Good
  <2>5. \A t \in Tiles : tiles'[t].position \in 0..Len(view'.entries)
    BY <1>6, <2>3 DEF LockGallery, FreeTile, Unbound
  <2>6. /\ unlisted' = unlisted /\ shownSession' \in 0..sessions /\ sessions' = sessions
        /\ revision' = revision /\ snapshot' \in KnownTrees
    BY <1>1, <1>6 DEF LockGallery, KnownTrees
  <2> QED
    BY <2>4, <2>5, <2>6, OnlyTheViewChanges
<1>7. CASE PollLocked
  <2>1. view' = EmptyView
    BY <1>7 DEF PollLocked
  <2>2. DOMAIN view' = ViewFields /\ view'.entries = <<>> /\ view'.selected = 0
    BY <2>1 DEF EmptyView, ViewFields
  <2>3. Len(view'.entries) = 0
    BY <2>2
  <2>4. Good(view')
    BY <2>2, <2>3 DEF Good
  <2>5. Recycled(TRUE)
    BY <1>7 DEF PollLocked
  <2>6. \A t \in Tiles : tiles'[t].position \in 0..Len(view'.entries)
    BY <1>1, <1>2, <1>3, <2>4, <2>5, RecycledFits
  <2>7. /\ unlisted' = unlisted /\ shownSession' \in 0..sessions /\ sessions' = sessions
        /\ revision' = revision /\ snapshot' \in KnownTrees
    BY <1>1, <1>7 DEF PollLocked, KnownTrees
  <2> QED
    BY <2>4, <2>6, <2>7, OnlyTheViewChanges
<1>8. CASE PollRevision
  BY <1>8 DEF PollRevision, ViewFits, ViewTypeOK, Good
<1>9. CASE AnswerListing
  BY <1>9 DEF AnswerListing, ViewFits, ViewTypeOK, Good
<1>10. CASE ListingArrives
  BY <1>10, ArrivalFits
<1>11. CASE ListingFails
  <2>1. unlisted' \in BOOLEAN
    BY <1>11 DEF ListingFails, ViewFits, ViewTypeOK
  <2> QED
    BY <1>11, <2>1 DEF ListingFails, ViewFits, ViewTypeOK, Good
<1>12. CASE ClickUp
  BY <1>12, UpFits
<1>13. CASE ClickPrevious
  BY <1>13, SelectFits DEF ClickPrevious
<1>14. CASE ClickNext
  BY <1>14, SelectFits DEF ClickNext
<1>15. CASE ClickTile
  BY <1>15, SelectFits DEF ClickTile
<1>16. CASE Bind
  <2>1. PICK t \in Tiles, position \in 1..Len(view.entries) : BindTile(t, position)
    BY <1>16 DEF Bind
  <2>2. tiles' = [tiles EXCEPT ![t] = [position |-> position, picture |-> NoPicture]]
    BY <2>1 DEF BindTile
  <2>3. \A u \in Tiles : tiles'[u].position \in {position, tiles[u].position}
    BY <1>3, <2>2
  <2>4. position \in 0..Len(view.entries)
    BY <2>1
  <2>5. \A u \in Tiles : tiles'[u].position \in 0..Len(view.entries)
    BY <1>2, <2>3, <2>4
  <2>6. /\ unlisted' = unlisted /\ shownSession' = shownSession /\ sessions' = sessions
        /\ revision' = revision /\ snapshot' = snapshot /\ view' = view
    BY <2>1 DEF BindTile
  <2> QED
    BY <1>1, <2>5, <2>6, OnlyTheViewChanges
<1>17. CASE ThumbnailArrives
  <2>1. tiles' = tiles \/ \E i \in thumbnails : tiles' = [tiles EXCEPT ![i.tile].picture = i.image]
    BY <1>17 DEF ThumbnailArrives
  <2>2. ASSUME NEW t \in Tiles PROVE tiles'[t].position = tiles[t].position
    <3>1. CASE tiles' = tiles
      BY <3>1
    <3>2. CASE tiles' # tiles
      <4>1. PICK i \in thumbnails : tiles' = [tiles EXCEPT ![i.tile].picture = i.image]
        BY <2>1, <3>2
      <4>2. tiles'[t] = tiles[t] \/ tiles'[t] = [tiles[t] EXCEPT !.picture = i.image]
        BY <1>3, <4>1
      <4>3. DOMAIN tiles[t] = {"position", "picture"}
        BY <1>3
      <4> QED
        BY <4>2, <4>3
    <3> QED
      BY <3>1, <3>2
  <2>3. \A t \in Tiles : tiles'[t].position \in 0..Len(view.entries)
    BY <1>2, <2>2
  <2>4. /\ unlisted' = unlisted /\ shownSession' = shownSession /\ sessions' = sessions
        /\ revision' = revision /\ snapshot' = snapshot /\ view' = view
    BY <1>17 DEF ThumbnailArrives
  <2> QED
    BY <1>1, <2>3, <2>4, OnlyTheViewChanges
<1>18. CASE UNCHANGED viewVars
  BY <1>18 DEF viewVars, ViewFits, ViewTypeOK, Good
<1> QED
  BY <1>4, <1>5, <1>6, <1>7, <1>8, <1>9, <1>10, <1>11, <1>12, <1>13, <1>14, <1>15, <1>16, <1>17,
     <1>18 DEF ViewNext

----------------------------------------------------------------------------
\* ViewerPlayback.

PlaybackFits ==
  PlaybackTypeOK /\ DOMAIN player = {"transform", "playing", "frame", "frames"}

\* A new ViewerState is at the first of its frames.
LEMMA NewPlayerFits ==
  ASSUME NEW count \in Nat \ {0}
  PROVE  /\ DOMAIN NewPlayer(count) = {"transform", "playing", "frame", "frames"}
         /\ NewPlayer(count).transform \in Transforms
         /\ NewPlayer(count).frames \in Nat \ {0}
         /\ NewPlayer(count).frame \in 0..NewPlayer(count).frames - 1
BY PlaybackAssumption DEF NewPlayer

\* The viewer begins with one frame of nothing.
LEMMA PlaybackFitsBegins == PlaybackInit => PlaybackFits
<1> SUFFICES ASSUME PlaybackInit PROVE PlaybackFits
  OBVIOUS
<1>1. player = NewPlayer(1) /\ opening = {} /\ viewing = 0 /\ applied = Identity
  BY DEF PlaybackInit
<1>2. viewing \in 0..2 * MaxLocks /\ applied \in Transforms
  BY <1>1, PlaybackAssumption
<1> QED
  BY <1>1, <1>2, NewPlayerFits DEF PlaybackFits, PlaybackTypeOK

\* The types of ViewerPlayback are kept; the last generation is even, and none follows it.
LEMMA PlaybackFitsStep == PlaybackFits /\ [PlaybackNext]_playbackVars => PlaybackFits'
<1> SUFFICES ASSUME PlaybackFits, [PlaybackNext]_playbackVars PROVE PlaybackFits'
  OBVIOUS
<1>1. MaxLocks \in Nat /\ viewing \in 0..2 * MaxLocks /\ applied \in Transforms
  BY PlaybackAssumption DEF PlaybackFits, PlaybackTypeOK
<1>2. opening \subseteq [number : 1..MaxRequests, generation : 0..2 * MaxLocks, image : DOMAIN FrameCount]
  BY DEF PlaybackFits, PlaybackTypeOK
<1>3. /\ DOMAIN player = {"transform", "playing", "frame", "frames"}
      /\ player.transform \in Transforms /\ player.frames \in Nat \ {0}
      /\ player.frame \in 0..player.frames - 1
  BY DEF PlaybackFits, PlaybackTypeOK
<1>4. CASE UnlockViewer
  <2>1. viewing' \in 0..2 * MaxLocks
    BY <1>1, <1>4 DEF UnlockViewer
  <2> QED
    BY <1>4, <2>1 DEF UnlockViewer, PlaybackFits, PlaybackTypeOK
<1>5. CASE LockViewer
  <2>1. viewing # 2 * MaxLocks
    <3>1. (2 * MaxLocks) % 2 = 0
      BY <1>1
    <3> QED
      BY <1>5, <3>1 DEF LockViewer, Unlocked
  <2>2. viewing' \in 0..2 * MaxLocks
    BY <1>1, <1>5, <2>1 DEF LockViewer
  <2>3. player' = NewPlayer(1) /\ opening' = opening /\ applied' = applied
    BY <1>5 DEF LockViewer
  <2> QED
    BY <1>1, <1>2, <2>2, <2>3, NewPlayerFits DEF PlaybackFits, PlaybackTypeOK
<1>6. CASE ImportShown
  BY <1>6 DEF ImportShown, PlaybackFits, PlaybackTypeOK
<1>7. ASSUME NEW m \in DOMAIN FrameCount, OpenOriginal(m) PROVE PlaybackFits'
  <2>1. PICK number \in 1..MaxRequests :
          opening' = opening \cup {[number |-> number, generation |-> viewing, image |-> m]}
    BY <1>7 DEF OpenOriginal
  <2>2. opening' \subseteq [number : 1..MaxRequests, generation : 0..2 * MaxLocks,
                            image : DOMAIN FrameCount]
    BY <1>1, <1>2, <2>1
  <2> QED
    BY <1>7, <2>2 DEF OpenOriginal, PlaybackFits, PlaybackTypeOK
<1>8. ASSUME NEW i \in opening, OriginalArrives(i) PROVE PlaybackFits'
  <2>1. FrameCount[i.image] \in Nat \ {0}
    BY <1>2, PlaybackAssumption
  <2>2. PICK count \in Nat \ {0} : count = FrameCount[i.image]
    BY <2>1
  <2>3. player' = NewPlayer(count) /\ applied' = Identity /\ viewing' = viewing
        /\ opening' = opening \ {i}
    BY <1>8, <2>2 DEF OriginalArrives, PlayerOf
  <2>4. Identity \in Transforms /\ opening' \subseteq opening
    BY <2>3, PlaybackAssumption
  <2> QED
    BY <1>1, <1>2, <2>3, <2>4, NewPlayerFits DEF PlaybackFits, PlaybackTypeOK
<1>9. ASSUME NEW i \in opening, OriginalDropped(i) PROVE PlaybackFits'
  BY <1>9 DEF OriginalDropped, PlaybackFits, PlaybackTypeOK
<1>10. CASE Tick \/ ClickStep
  <2>1. player' = StepForward(player) /\ UNCHANGED <<viewing, opening, applied>>
    BY <1>10 DEF Tick, ClickStep, Advance
  <2>2. PICK n : n = (player.frame + 1) % player.frames
    OBVIOUS
  <2>3. n \in 0..player.frames - 1
    BY <1>3, <2>2
  <2>4. player' = [player EXCEPT !.frame = n]
    BY <2>1, <2>2 DEF StepForward
  <2>5. /\ DOMAIN player' = {"transform", "playing", "frame", "frames"}
        /\ player'.transform = player.transform /\ player'.frames = player.frames
        /\ player'.frame = n
    BY <1>3, <2>4
  <2> QED
    BY <1>1, <1>2, <1>3, <2>1, <2>3, <2>5 DEF PlaybackFits, PlaybackTypeOK
<1>11. CASE ClickPlay
  <2>1. UNCHANGED <<viewing, opening, applied>>
    BY <1>11 DEF ClickPlay
  <2>2. player' = player \/ player' = [player EXCEPT !.playing = ~player.playing]
    BY <1>11 DEF ClickPlay, ToggleAnimation
  <2>3. /\ DOMAIN player' = {"transform", "playing", "frame", "frames"}
        /\ player'.transform = player.transform /\ player'.frames = player.frames
        /\ player'.frame = player.frame
    BY <1>3, <2>2
  <2> QED
    BY <1>1, <1>2, <1>3, <2>1, <2>3 DEF PlaybackFits, PlaybackTypeOK
<1>12. ASSUME NEW t \in Transforms, ClickTransform(t) PROVE PlaybackFits'
  <2>1. player' = [player EXCEPT !.transform = t] /\ applied' = t /\ UNCHANGED <<viewing, opening>>
    BY <1>12 DEF ClickTransform
  <2>2. /\ DOMAIN player' = {"transform", "playing", "frame", "frames"}
        /\ player'.transform = t /\ player'.frames = player.frames
        /\ player'.frame = player.frame
    BY <1>3, <2>1
  <2> QED
    BY <1>1, <1>2, <1>3, <1>12, <2>1, <2>2 DEF PlaybackFits, PlaybackTypeOK
<1>13. CASE UNCHANGED playbackVars
  BY <1>13 DEF playbackVars, PlaybackFits, PlaybackTypeOK
<1> QED
  BY <1>4, <1>5, <1>6, <1>7, <1>8, <1>9, <1>10, <1>11, <1>12, <1>13 DEF PlaybackNext

----------------------------------------------------------------------------
\* Shell and GalleryTree.

\* The types of Shell are kept: a locked shell stays on the routes of a locked one.
LEMMA ShellFitsStep == ShellTypeOK /\ [ShellNext]_shellVars => ShellTypeOK'
<1> SUFFICES ASSUME ShellTypeOK, [ShellNext]_shellVars PROVE ShellTypeOK'
  OBVIOUS
<1> USE ShellAssumption DEF ShellTypeOK
<1>1. CASE UNCHANGED shellVars
  BY <1>1 DEF shellVars
<1>2. ASSUME NEW to \in Routes, Navigate(to) PROVE ShellTypeOK'
  BY <1>2 DEF Navigate
<1>3. CASE UnlockShell
  BY <1>3 DEF UnlockShell, Routes
<1>4. CASE LockShell
  BY <1>4 DEF LockShell, Routes, LockedRoutes
<1>5. CASE StartJob
  <2>1. nextJob \in 1..MaxJobs /\ nextJob' = nextJob + 1
    BY <1>5 DEF StartJob
  <2>2. /\ DOMAIN jobs' = DOMAIN jobs \cup {nextJob}
        /\ \A j \in DOMAIN jobs' : jobs'[j] = IF j = nextJob THEN "Running" ELSE jobs[j]
    BY <1>5 DEF StartJob
  <2>3. DOMAIN jobs' \subseteq 1..MaxJobs /\ nextJob' \in 1..MaxJobs + 1
    BY <2>1, <2>2
  <2>4. \A j \in DOMAIN jobs' : jobs'[j] \in {"Running", "Cancelling", "Failed", "Complete"}
    BY <2>2
  <2> QED
    BY <1>5, <2>3, <2>4 DEF StartJob
<1>6. ASSUME NEW w \in Workers, RegisterWorker(w) PROVE ShellTypeOK'
  BY <1>6 DEF RegisterWorker
<1>7. ASSUME NEW j \in 1..MaxJobs, NEW state \in {"Cancelling", "Failed", "Complete"}, EndJob(j, state)
      PROVE  ShellTypeOK'
  BY <1>7 DEF EndJob
<1>8. ASSUME NEW c \in Commands, NEW a \in Accelerators, Assign(c, a) PROVE ShellTypeOK'
  BY <1>8 DEF Assign
<1> QED
  BY <1>1, <1>2, <1>3, <1>4, <1>5, <1>6, <1>7, <1>8
  DEF ShellNext, ActivateLock, JobResult, CancelJob

\* The shell begins locked.
LEMMA ShellFitsBegins == ShellInit => ShellTypeOK
BY ShellAssumption DEF ShellInit, ShellTypeOK, Routes, LockedRoutes

\* The rows are those of a shelf.
LEMMA GalleryFits ==
  ASSUME ShelvesHold
  PROVE  GalleryTypeOK
BY DEF ShelvesHold, ShelfHolds, GalleryTypeOK

----------------------------------------------------------------------------
\* CatalogFiles.

\* No file is longer than the bound, and none will be by the transfer under way.
FilesFit ==
  /\ \A i \in 1..MaxInodes : Len(bytes[i]) <= MaxBytes
  /\ transfer.state = "moving" => transfer.at + Len(transfer.wanted) <= MaxBytes

\* All files are empty.
LEMMA FilesFitBegins == FilesInit => FilesFit
<1> SUFFICES ASSUME FilesInit PROVE FilesFit
  OBVIOUS
<1>1. \A i \in 1..MaxInodes : bytes[i] = <<>>
  BY DEF FilesInit
<1>2. Len(<<>>) <= MaxBytes
  BY CatalogFilesAssumption
<1>3. transfer.state # "moving"
  BY DEF FilesInit, NoTransfer
<1> QED
  BY <1>1, <1>2, <1>3 DEF FilesFit

\* A transfer keeps its place when it moves on or ends.
LEMMA MoveStays ==
  ASSUME PiecesMoved, Busy, NEW n,
         \/ transfer' = Done(Progressed(n))
         \/ \E buffer : transfer' = Done([Progressed(n) EXCEPT !.buffer = buffer])
         \/ \E buffer : transfer' = [transfer EXCEPT !.state = "short", !.buffer = buffer]
         \/ transfer' = [transfer EXCEPT !.state = "failed"]
  PROVE  transfer'.at = transfer.at /\ transfer'.wanted = transfer.wanted
<1>1. DOMAIN transfer = {"state", "op", "inode", "at", "wanted", "done", "offset", "buffer", "before"}
  BY Moving DEF Transfers
<1>2. PICK done, offset : done = transfer.done + n /\ offset = Advanced(n)
  OBVIOUS
<1>3. PICK p : p = [transfer EXCEPT !.done = done, !.offset = offset]
  OBVIOUS
<1>4. p = Progressed(n)
  BY <1>2, <1>3 DEF Progressed
<1>5. DOMAIN p = DOMAIN transfer /\ p.at = transfer.at /\ p.wanted = transfer.wanted
  BY <1>1, <1>3
<1>6. ASSUME NEW q, DOMAIN q = DOMAIN transfer
      PROVE  Done(q).at = q.at /\ Done(q).wanted = q.wanted
  BY <1>1, <1>6 DEF Done
<1>7. CASE transfer' = Done(Progressed(n))
  BY <1>4, <1>5, <1>6, <1>7
<1>8. ASSUME NEW buffer, transfer' = Done([Progressed(n) EXCEPT !.buffer = buffer])
      PROVE  transfer'.at = transfer.at /\ transfer'.wanted = transfer.wanted
  <2>1. PICK q : q = [p EXCEPT !.buffer = buffer]
    OBVIOUS
  <2>2. DOMAIN q = DOMAIN transfer /\ q.at = transfer.at /\ q.wanted = transfer.wanted
    BY <1>1, <1>5, <2>1
  <2>3. transfer' = Done(q)
    BY <1>4, <1>8, <2>1
  <2> QED
    BY <1>6, <2>2, <2>3
<1>9. ASSUME NEW buffer, transfer' = [transfer EXCEPT !.state = "short", !.buffer = buffer]
      PROVE  transfer'.at = transfer.at /\ transfer'.wanted = transfer.wanted
  BY <1>1, <1>9
<1>10. CASE transfer' = [transfer EXCEPT !.state = "failed"]
  BY <1>1, <1>10
<1> QED
  BY <1>7, <1>8, <1>9, <1>10

\* What is written ends where the transfer does at the latest.
LEMMA WriteFits ==
  ASSUME FilesTyped, PiecesMoved, FilesFit, NEW n \in Nat, WritePiece(n)
  PROVE  \A i \in 1..MaxInodes : Len(bytes'[i]) <= MaxBytes
<1>1. /\ transfer \in Transfers /\ transfer.state = "moving" /\ transfer.offset = transfer.at + transfer.done
      /\ transfer.inode \in 1..MaxInodes
  BY Moving DEF WritePiece
<1>2. PICK at \in Nat, done \in Nat, wanted \in Seq(Nat), inode \in 1..MaxInodes :
        at = transfer.at /\ done = transfer.done /\ wanted = transfer.wanted /\ inode = transfer.inode
  BY <1>1 DEF Transfers
<1>3. n \in 1..Len(wanted) - done
  BY <1>2 DEF WritePiece
<1>4. PICK to \in Nat : to = done + n /\ done <= to /\ to <= Len(wanted)
  BY <1>3
<1>5. PICK piece \in Seq(Nat) : piece = SubSeq(wanted, done + 1, done + n) /\ Len(piece) = n
  <2>1. PICK piece : piece = SubSeq(wanted, done + 1, to)
    OBVIOUS
  <2>2. piece \in Seq(Nat) /\ Len(piece) = to - done
    BY <1>4, <2>1, PieceBytes
  <2>3. to - done = n
    BY <1>3, <1>4
  <2> QED
    BY <1>4, <2>1, <2>2, <2>3
<1>6. PICK old \in Seq(Nat) : old = bytes[inode]
  BY DEF FilesTyped
<1>7. PICK offset \in Nat : offset = at + done
  OBVIOUS
<1>8. PICK new : new = Patched(old, offset, piece)
  OBVIOUS
<1>9. Len(new) = IF offset + Len(piece) > Len(old) THEN offset + Len(piece) ELSE Len(old)
  BY <1>8, PatchedBytes
<1>10. Len(old) <= MaxBytes /\ at + Len(wanted) <= MaxBytes /\ MaxBytes \in Nat
  BY <1>1, <1>2, <1>6, CatalogFilesAssumption DEF FilesFit
<1>11. offset + Len(piece) <= MaxBytes
  BY <1>4, <1>5, <1>7, <1>10
<1>12. Len(new) <= MaxBytes
  BY <1>9, <1>10, <1>11
<1>13. bytes' = [bytes EXCEPT ![inode] = new]
  BY <1>1, <1>2, <1>5, <1>6, <1>7, <1>8 DEF WritePiece
<1>14. DOMAIN bytes = 1..MaxInodes
  BY DEF FilesTyped
<1> QED
  BY <1>12, <1>13, <1>14 DEF FilesFit

\* A truncation ends at the bound at the latest.
LEMMA TruncateFits ==
  ASSUME FilesTyped, FilesFit, NEW m \in Members, NEW size \in 0..MaxBytes, Truncate(m, size)
  PROVE  FilesFit'
<1>1. PICK i : i = opened[m]
  OBVIOUS
<1>2. PICK old : old = bytes[i]
  OBVIOUS
<1>3. PICK new : new = [k \in 1..size |-> IF k <= Len(old) THEN old[k] ELSE 0]
  OBVIOUS
<1>4. Len(new) = size /\ size <= MaxBytes
  <2>1. size \in Nat /\ DOMAIN new = 1..size
    BY <1>3, CatalogFilesAssumption
  <2> QED
    BY <1>3, <2>1
<1>5. bytes' = [bytes EXCEPT ![i] = new]
  BY <1>1, <1>2, <1>3 DEF Truncate
<1>6. DOMAIN bytes = 1..MaxInodes
  BY DEF FilesTyped
<1>7. \A j \in 1..MaxInodes : Len(bytes'[j]) <= MaxBytes
  BY <1>4, <1>5, <1>6 DEF FilesFit
<1>8. transfer'.state # "moving"
  BY DEF Truncate, NoTransfer
<1> QED
  BY <1>7, <1>8 DEF FilesFit

\* The files keep to the bound.
LEMMA FilesFitStep == FilesInvariant /\ FilesFit /\ [FilesNext]_fileVars => FilesFit'
<1> SUFFICES ASSUME FilesInvariant, FilesFit, [FilesNext]_fileVars PROVE FilesFit'
  OBVIOUS
<1>1. FilesTyped /\ PiecesMoved
  BY DEF FilesInvariant
<1>2. ASSUME UNCHANGED <<bytes, transfer>> PROVE FilesFit'
  BY <1>2 DEF FilesFit
<1>3. ASSUME bytes' = bytes, transfer'.state # "moving" PROVE FilesFit'
  BY <1>3 DEF FilesFit
<1>4. ASSUME \A i \in 1..MaxInodes : Len(bytes'[i]) <= MaxBytes, Busy,
             transfer'.at = transfer.at /\ transfer'.wanted = transfer.wanted
      PROVE  FilesFit'
  BY <1>4 DEF FilesFit, Busy
<1>5. CASE UNCHANGED fileVars
  BY <1>2, <1>5 DEF fileVars
<1>6. ASSUME NEW m \in Members, NEW flag \in BOOLEAN,
             OpenMember(m, flag) \/ DeleteMember(m, flag)
      PROVE  FilesFit'
  BY <1>2, <1>6 DEF OpenMember, DeleteMember
<1>7. ASSUME NEW m \in Members,
             \/ OpenFails(m) \/ CloseMember(m) \/ DeleteWithoutEffect(m)
             \/ DeleteSyncFails(m) \/ PutForeign(m)
      PROVE  FilesFit'
  BY <1>2, <1>7 DEF OpenFails, CloseMember, DeleteWithoutEffect, DeleteSyncFails, PutForeign
<1>8. ASSUME NEW m \in Members, NEW op \in {"read", "write"}, NEW at \in 0..MaxBytes,
             NEW wanted \in Inputs, at + Len(wanted) <= MaxBytes, StartTransfer(m, op, at, wanted)
      PROVE  FilesFit'
  <2>1. bytes' = bytes /\ transfer'.at = at /\ transfer'.wanted = wanted
    BY <1>8 DEF StartTransfer
  <2> QED
    BY <1>8, <2>1 DEF FilesFit
<1>9. ASSUME NEW n \in 1..MaxBytes, ReadPiece(n) \/ WritePiece(n) PROVE FilesFit'
  <2>1. n \in Nat
    OBVIOUS
  <2>2. CASE ReadPiece(n)
    <3>1. bytes' = bytes /\ Busy
      BY <2>2 DEF ReadPiece
    <3>2. \E buffer : transfer' = Done([Progressed(n) EXCEPT !.buffer = buffer])
      BY <2>2 DEF ReadPiece
    <3>3. transfer'.at = transfer.at /\ transfer'.wanted = transfer.wanted
      BY <1>1, <3>1, <3>2, MoveStays
    <3> QED
      BY <1>4, <3>1, <3>3 DEF FilesFit
  <2>3. CASE WritePiece(n)
    <3>1. Busy /\ transfer' = Done(Progressed(n))
      BY <2>3 DEF WritePiece
    <3>2. transfer'.at = transfer.at /\ transfer'.wanted = transfer.wanted
      BY <1>1, <3>1, MoveStays
    <3> QED
      BY <1>1, <1>4, <2>1, <2>3, <3>1, <3>2, WriteFits
  <2> QED
    BY <1>9, <2>2, <2>3
<1>10. CASE ReadEnds \/ TransferFails
  <2>1. bytes' = bytes /\ Busy
    BY <1>10 DEF ReadEnds, TransferFails
  <2>2. \/ \E buffer : transfer' = [transfer EXCEPT !.state = "short", !.buffer = buffer]
        \/ transfer' = [transfer EXCEPT !.state = "failed"]
    BY <1>10 DEF ReadEnds, TransferFails
  <2>3. transfer'.at = transfer.at /\ transfer'.wanted = transfer.wanted
    BY <1>1, <2>1, <2>2, MoveStays
  <2> QED
    BY <1>4, <2>1, <2>3 DEF FilesFit
<1>11. ASSUME NEW m \in Members, NEW size \in 0..MaxBytes, Truncate(m, size) PROVE FilesFit'
  BY <1>1, <1>11, TruncateFits
<1>12. CASE Restart \/ FilesPowerLoss
  BY <1>3, <1>12 DEF Restart, FilesPowerLoss, NewProcess, NoTransfer
<1> QED
  BY <1>5, <1>6, <1>7, <1>8, <1>9, <1>10, <1>11, <1>12 DEF FilesNext

\* What the invariant and the bound say of the types.
LEMMA FilesTypes ==
  ASSUME FilesInvariant, FilesFit
  PROVE  FilesTypeOK
<1>1. FilesTyped /\ transfer \in {NoTransfer} \cup Transfers
  BY DEF FilesInvariant, PiecesMoved
<1>2. transfer.state \in {"none", "moving", "ok", "short", "failed"}
  BY <1>1 DEF NoTransfer, Transfers
<1> QED
  BY <1>1, <1>2 DEF FilesTyped, FilesTypeOK, FilesFit

----------------------------------------------------------------------------
\* What the invariants of the other parts say of their types.

\* An answer has the fields of an answer and is to a request, and only one is judged.
LEMMA RenditionTypes ==
  ASSUME RenditionInvariant
  PROVE  RenditionTypeOK
BY DEF RenditionInvariant, RenditionTypeOK

\* An open reader is where its header says that there is something.
LEMMA ObjectTypes ==
  ASSUME ObjectInvariant
  PROVE  ObjectFileTypeOK
<1>1. given \in [StoredObjects -> 0..MaxLength] /\ damages \in 0..MaxDamage
  BY DEF ObjectInvariant
<1>2. ASSUME reader.open
      PROVE  /\ reader.position \in 0..reader.header.length
             /\ reader.cached \in NotCached..ChunkCount(reader.header.length, reader.header.size) - 1
  <2>1. reader # NoReader
    BY <1>2 DEF NoReader
  <2>2. PICK o, length, size : ReaderHolds(reader, o, length, size)
    BY <2>1 DEF ObjectInvariant
  <2>3. reader.header.length = length /\ reader.header.size = size
    BY <2>2, ReaderTells
  <2>4. reader.position \in 0..length /\ reader.cached \in NotCached..ChunkCount(length, size) - 1
    BY <2>2 DEF ReaderHolds
  <2> QED
    BY <2>3, <2>4
<1> QED
  BY <1>1, <1>2 DEF ObjectFileTypeOK

\* A step of the parts is, for the credentials, a step of theirs or none; and the part that
\* was chosen stays.
LEMMA StepOfRewrap ==
  ASSUME [PartsNext]_partVars
  PROVE  [RewrapNext]_rewrapVars /\ part' = part
<1> USE DEF partVars, directoryVars
<1>1. CASE UNCHANGED partVars
  BY <1>1
<1>2. CASE RewrapPart
  BY <1>2 DEF RewrapPart
<1>3. CASE CreationPart \/ BackupPart \/ FilesPart
  BY <1>3 DEF CreationPart, BackupPart, FilesPart
<1>4. CASE GalleryPart \/ ViewPart \/ PlaybackPart \/ ShellPart
  BY <1>4 DEF GalleryPart, ViewPart, PlaybackPart, ShellPart
<1>5. CASE ObjectPart \/ HeaderPart \/ WirePart \/ ProbePart \/ RenditionPart
  BY <1>5 DEF ObjectPart, HeaderPart, WirePart, ProbePart, RenditionPart
<1> QED
  BY <1>1, <1>2, <1>3, <1>4, <1>5 DEF PartsNext

----------------------------------------------------------------------------
\* Every part keeps its types, and with them what they bound: a selected position and every
\* tile stay inside the level that is shown, a player inside its frames, a reader inside its
\* object, a file inside its bound, and an answer has the fields of the honest one.
THEOREM TypesHold == PartsSpec => []PartsTypeOK
<1> DEFINE Disk == RewrapInvariant /\ CreationInvariant /\ BackupInvariant /\ FilesInvariant /\ FilesFit
           Screens == ShelvesHold /\ ViewInvariant /\ ViewFits /\ PlaybackFits /\ ShellTypeOK
           Bytes == ObjectInvariant /\ FormatInvariant /\ ProbeInvariant /\ RenditionInvariant
           Inv == part \in PartNames /\ Disk /\ Screens /\ Bytes
<1>1. PartsInit => Inv
  <2> SUFFICES ASSUME PartsInit PROVE Inv
    OBVIOUS
  <2>1. Disk
    BY RewrapInitial, CreationBegins, BackupBegins, FilesBegin, FilesFitBegins DEF PartsInit
  <2>2. ShelfHolds(shelf)
    BY DEF PartsInit, GalleryInit, ShelfHolds, Shelf
  <2>3. ShelvesHold
    BY <2>2 DEF PartsInit, GalleryInit, ShelvesHold, NoDraft
  <2>4. Screens
    BY <2>3, ViewBegins, ViewFitsBegins, PlaybackFitsBegins, ShellFitsBegins DEF PartsInit
  <2>5. Bytes
    BY ObjectBegins, FormatBegins, ProbeBegins, RenditionBegins DEF PartsInit
  <2> QED
    BY <2>1, <2>4, <2>5 DEF PartsInit
<1>2. Inv /\ [PartsNext]_partVars => Inv'
  <2> SUFFICES ASSUME Inv, [PartsNext]_partVars PROVE Inv'
    OBVIOUS
  <2>1. RewrapInvariant' /\ part' = part
    BY StepOfRewrap, RewrapStep
  <2>2. CreationInvariant' /\ BackupInvariant'
    BY StepOfAPart, CreationStep, BackupStep
  <2>3. FilesInvariant' /\ FilesFit'
    BY StepOfAPart, FilesStep, FilesFitStep
  <2>4. ShelvesHold' /\ PlaybackFits' /\ ShellTypeOK'
    BY StepOfAPart, ShelvesStep, PlaybackFitsStep, ShellFitsStep
  <2>5. ViewInvariant' /\ ViewFits'
    <3>1. [ViewNext]_viewVars
      BY StepOfAPart
    <3>2. ViewInvariant'
      BY <3>1, TilesStep, ListingsStep DEF ViewInvariant, Tidy, ViewFields
    <3> QED
      BY <3>1, <3>2, ViewFitsStep
  <2>6. ObjectInvariant' /\ FormatInvariant' /\ ProbeInvariant' /\ RenditionInvariant'
    BY StepOfAPart, ObjectStep, FormatStep, ProbeStep, RenditionStep
  <2> QED
    BY <2>1, <2>2, <2>3, <2>4, <2>5, <2>6
<1>3. Inv => PartsTypeOK
  <2> SUFFICES ASSUME Inv PROVE PartsTypeOK
    OBVIOUS
  <2>1. RewrapTypeOK /\ CreationTypeOK /\ BackupTypeOK
    BY DEF RewrapInvariant, CreationInvariant, BackupInvariant
  <2>2. FilesTypeOK /\ GalleryTypeOK
    BY FilesTypes, GalleryFits
  <2>3. ViewTypeOK /\ PlaybackTypeOK
    BY DEF ViewFits, PlaybackFits
  <2>4. ObjectFileTypeOK /\ RenditionTypeOK
    BY ObjectTypes, RenditionTypes
  <2>5. FormatTypeOK /\ ProbeTypeOK
    BY DEF FormatInvariant, ProbeInvariant
  <2> QED
    BY <2>1, <2>2, <2>3, <2>4, <2>5 DEF PartsTypeOK
<1> QED
  BY <1>1, <1>2, <1>3, PTL DEF PartsSpec
=============================================================================
