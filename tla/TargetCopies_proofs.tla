------------------------ MODULE TargetCopies_proofs ------------------------
(* Proofs about targets and copies of their directories, and about what    *)
(* doctor says of them, for any numbers of paths, targets and mishaps.     *)
EXTENDS Doctor, TLAPS

Accepted == [gen: 0..MaxGeneration, state: State]
Table(Key, Value) == UNION {[ks -> Value] : ks \in SUBSET Key}
Image == [kind: {"image"}, schema: {0, 1}, target: Table(TargetId, Accepted),
          location: Table(Path, TargetId), pending: Table(TargetId, Path)]

(* An image that opens: each location belongs to an accepted target, each  *)
(* row of a pending operation to a target.                                 *)
Whole(image) ==
  image \notin {NoFile, Torn} =>
    /\ image \in Image
    /\ DOMAIN image.pending \subseteq DOMAIN image.target
    /\ \A p \in DOMAIN image.location :
         /\ image.location[p] \in DOMAIN image.target
         /\ image.target[image.location[p]].gen >= 1

Markers == {NoMarker} \cup [id: TargetId, gen: 1..MaxGeneration, state: State]
Commands ==
  [kind: Kinds \ {"restore"}, path: Path, id: TargetId \cup {Nothing},
   step: Steps \ {"wipe", "copy"}, source: TargetId \cup {Nothing},
   desired: State, todo: SUBSET Package]
Restores == [kind: {"restore"}, step: {"wipe", "copy"}, image: backups]

CopiesTypeOK ==
  /\ \A image \in {db, main} \cup backups : Whole(image)
  /\ dirs \in [Path -> [shown: Shown, marker: Markers]]
  /\ cmd = Idle \/ cmd \in Commands \/ cmd \in Restores
  /\ reported = Idle \/ reported \in [path: Path, id: TargetId]

(* What a command has found or done shows in its step.                     *)
OpenFits ==
  cmd \in Commands =>
    /\ cmd.step = "open" => db # Torn
    /\ cmd.step # "open" => Readable
    /\ cmd.step \notin {"open", "migrate"} => db.schema = 1
    /\ cmd.kind = "repair" => cmd.step \in {"open", "migrate", "decide"}
    /\ cmd.step \in {"open", "migrate", "decide"} =>
         /\ cmd.kind \in {"change", "sync", "repair"} =>
              Readable /\ cmd.id \in TargetIdsAt(cmd.path)
         /\ cmd.kind \in {"recover", "fork"} => cmd.id \in TargetId

(* Before its commit a target is in the registry and has room for another  *)
(* generation; from then on what it accepted is what is to be shown.       *)
CommitFits ==
  cmd \in Commands =>
    /\ cmd.step = "commit" =>
         cmd.kind # "sync" /\ Known(cmd.id) /\ db.target[cmd.id].gen < MaxGeneration
    /\ cmd.step \in {"sweep", "activate", "marker", "finish"} =>
         /\ Known(cmd.id) /\ db.target[cmd.id].gen >= 1
         /\ db.target[cmd.id].state = cmd.desired
         /\ cmd.path \in DOMAIN db.location /\ db.location[cmd.path] = cmd.id
    /\ cmd.step = "marker" => cmd.kind = "sync" /\ cmd.id \notin DOMAIN db.pending
    /\ cmd.step = "sweep" => cmd.kind = "sync"

Unshown(p, s) == {k \in Package : s[k] # Nothing /\ dirs[p].shown[k] # s[k]}

(* What is left to activate covers every difference, and nothing of the    *)
(* user's but what the staging of a sync will refuse.                      *)
TodoFits ==
  cmd \in Commands =>
    /\ cmd.step \in {"commit", "activate"} =>
         \A k \in cmd.todo : dirs[cmd.path].shown[k] # Foreign
    /\ cmd.step = "sweep" =>
         \A k \in cmd.todo \ Occupied : dirs[cmd.path].shown[k] # Foreign
    /\ cmd.step \in {"commit", "sweep", "activate"} => Unshown(cmd.path, cmd.desired) \subseteq cmd.todo
    /\ cmd.step \in {"marker", "finish"} => Unshown(cmd.path, cmd.desired) = {}
    /\ cmd.step = "finish" =>
         Marker(cmd.path) = [id |-> cmd.id, gen |-> db.target[cmd.id].gen, state |-> cmd.desired]

(* What a command that succeeded leaves.                                   *)
ReportFits ==
  reported # Idle =>
    LET p == reported.path
        t == reported.id
    IN /\ cmd = Idle /\ Readable /\ db.schema = 1
       /\ Known(t) /\ t \notin DOMAIN db.pending
       /\ p \in DOMAIN db.location /\ db.location[p] = t
       /\ Unshown(p, db.target[t].state) = {}
       /\ Marker(p) = [id |-> t, gen |-> db.target[t].gen, state |-> db.target[t].state]

CopiesInv == CopiesTypeOK /\ OpenFits /\ CommitFits /\ TodoFits /\ ReportFits

----------------------------------------------------------------------------
(* A table is a function from some of its keys.                            *)
LEMMA TableIs ==
  ASSUME NEW K, NEW V, NEW f
  PROVE  f \in Table(K, V) <=> f \in [DOMAIN f -> V] /\ DOMAIN f \subseteq K
BY DEF Table

(* Put changes one row.                                                    *)
LEMMA PutRow ==
  ASSUME NEW f, NEW k, NEW v
  PROVE  /\ DOMAIN Put(f, k, v) = DOMAIN f \cup {k}
         /\ Put(f, k, v)[k] = v
         /\ \A x \in DOMAIN f : x # k => Put(f, k, v)[x] = f[x]
BY DEF Put

(* A table with another row is a table.                                    *)
LEMMA PutInTable ==
  ASSUME NEW K, NEW V, NEW f \in Table(K, V), NEW k \in K, NEW v \in V
  PROVE  Put(f, k, v) \in Table(K, V)
<1>1. f \in [DOMAIN f -> V] /\ DOMAIN f \subseteq K
  BY TableIs
<1>2. Put(f, k, v) \in [DOMAIN f \cup {k} -> V]
  BY <1>1 DEF Put
<1> QED BY <1>1, <1>2 DEF Table

(* Drop removes one row.                                                   *)
LEMMA DropRow ==
  ASSUME NEW f, NEW k
  PROVE  /\ DOMAIN Drop(f, k) = DOMAIN f \ {k}
         /\ \A x \in DOMAIN f \ {k} : Drop(f, k)[x] = f[x]
BY DEF Drop, Restrict

(* A table without one of its rows is a table.                             *)
LEMMA DropFromTable ==
  ASSUME NEW K, NEW V, NEW f \in Table(K, V), NEW k
  PROVE  Drop(f, k) \in Table(K, V)
<1>1. f \in [DOMAIN f -> V] /\ DOMAIN f \subseteq K
  BY TableIs
<1>2. Drop(f, k) \in [DOMAIN f \ {k} -> V]
  BY <1>1 DEF Drop, Restrict
<1> QED BY <1>1, <1>2 DEF Table

(* The empty table.                                                        *)
LEMMA EmptyTable ==
  ASSUME NEW K, NEW V
  PROVE  /\ [x \in {} |-> 0] \in Table(K, V)
         /\ DOMAIN [x \in {} |-> 0] = {}
<1>1. [x \in {} |-> 0] \in [{} -> V]
  OBVIOUS
<1> QED BY <1>1 DEF Table

(* The tables of an image that opens.                                      *)
LEMMA WholeImage ==
  ASSUME NEW image, Whole(image), image # NoFile, image # Torn
  PROVE  /\ image \in Image /\ image.kind = "image"
         /\ image.target \in Table(TargetId, Accepted)
         /\ image.location \in Table(Path, TargetId)
         /\ image.pending \in Table(TargetId, Path)
         /\ DOMAIN image.pending \subseteq DOMAIN image.target
         /\ DOMAIN image.target \subseteq TargetId
         /\ \A t \in DOMAIN image.target :
              /\ image.target[t] \in Accepted
              /\ image.target[t].gen \in 0..MaxGeneration
              /\ image.target[t].state \in State
         /\ DOMAIN image.location \subseteq Path
         /\ \A p \in DOMAIN image.location :
              /\ image.location[p] \in DOMAIN image.target
              /\ image.target[image.location[p]].gen >= 1
<1>1. /\ image \in Image
      /\ DOMAIN image.pending \subseteq DOMAIN image.target
      /\ \A p \in DOMAIN image.location :
           /\ image.location[p] \in DOMAIN image.target
           /\ image.target[image.location[p]].gen >= 1
  BY DEF Whole
<1>2. /\ image.kind = "image"
      /\ image.target \in Table(TargetId, Accepted)
      /\ image.location \in Table(Path, TargetId)
      /\ image.pending \in Table(TargetId, Path)
  BY <1>1 DEF Image
<1>3. /\ image.target \in [DOMAIN image.target -> Accepted]
      /\ DOMAIN image.target \subseteq TargetId
      /\ DOMAIN image.location \subseteq Path
  BY <1>2, TableIs
<1>4. \A t \in DOMAIN image.target :
        /\ image.target[t] \in Accepted
        /\ image.target[t].gen \in 0..MaxGeneration
        /\ image.target[t].state \in State
  BY <1>3 DEF Accepted
<1> QED BY <1>1, <1>2, <1>3, <1>4

(* An image that reads as one is neither missing nor torn.                 *)
LEMMA ReadableImage ==
  ASSUME NEW image, Whole(image)
  PROVE  image.kind = "image" <=> image # NoFile /\ image # Torn
BY WholeImage DEF NoFile, Torn

(* Nothing accepted is lost or changed.                                    *)
Kept(old, new) ==
  /\ new \in Image /\ new # NoFile /\ new # Torn /\ Whole(new)
  /\ \A t \in DOMAIN old.target :
       old.target[t].gen >= 1 => t \in DOMAIN new.target /\ new.target[t] = old.target[t]

(* How images are put together.                                            *)
LEMMA MakeImage ==
  ASSUME NEW image \in Image,
         DOMAIN image.pending \subseteq DOMAIN image.target,
         \A p \in DOMAIN image.location :
           /\ image.location[p] \in DOMAIN image.target
           /\ image.target[image.location[p]].gen >= 1
  PROVE  Whole(image) /\ image # NoFile /\ image # Torn
BY DEF Whole, Image, NoFile, Torn

(* A row begins: its target is there, old or new, and nothing else         *)
(* changes.                                                                *)
LEMMA RowBegins ==
  ASSUME Whole(db), db # NoFile, db # Torn, NEW t \in TargetId, NEW p \in Path, BeginRow(t, p)
  PROVE  /\ Kept(db, db')
         /\ db'.schema = db.schema /\ db'.location = db.location
         /\ t \in DOMAIN db'.target
         /\ \A u \in DOMAIN db.target : u \in DOMAIN db'.target /\ db'.target[u] = db.target[u]
         /\ t \notin DOMAIN db.target => db'.target[t].gen = 0
<1> DEFINE zero == [gen |-> 0, state |-> NoState]
           targets == IF t \in DOMAIN db.target THEN db.target ELSE Put(db.target, t, zero)
           rows == Put(db.pending, t, p)
<1>1. zero \in Accepted /\ zero.gen = 0
  BY CopiesAssumption DEF Accepted, NoState, State
<1> HIDE DEF zero
<1>2. /\ db \in Image
      /\ db.target \in Table(TargetId, Accepted) /\ db.pending \in Table(TargetId, Path)
      /\ DOMAIN db.pending \subseteq DOMAIN db.target
      /\ \A q \in DOMAIN db.location :
           /\ db.location[q] \in DOMAIN db.target
           /\ db.target[db.location[q]].gen >= 1
  BY WholeImage
<1>3. /\ targets \in Table(TargetId, Accepted)
      /\ DOMAIN targets = DOMAIN db.target \cup {t}
      /\ \A u \in DOMAIN db.target : targets[u] = db.target[u]
      /\ t \notin DOMAIN db.target => targets[t] = zero
  <2>1. CASE t \in DOMAIN db.target
    BY <1>2, <2>1
  <2>2. CASE t \notin DOMAIN db.target
    <3>1. /\ Put(db.target, t, zero) \in Table(TargetId, Accepted)
          /\ DOMAIN Put(db.target, t, zero) = DOMAIN db.target \cup {t}
          /\ Put(db.target, t, zero)[t] = zero
          /\ \A u \in DOMAIN db.target : u # t => Put(db.target, t, zero)[u] = db.target[u]
      <4>1. Put(db.target, t, zero) \in Table(TargetId, Accepted)
        BY <1>1, <1>2, PutInTable
      <4> QED BY <4>1 DEF Put
    <3> QED BY <2>2, <3>1
  <2> QED BY <2>1, <2>2
<1>4. rows \in Table(TargetId, Path) /\ DOMAIN rows = DOMAIN db.pending \cup {t}
  BY <1>2, PutInTable, PutRow
<1>5. db' = [db EXCEPT !.pending = rows, !.target = targets]
  BY DEF BeginRow, zero
<1> HIDE DEF rows, targets
<1>6. /\ db' \in Image
      /\ db'.schema = db.schema /\ db'.location = db.location
      /\ db'.target = targets /\ db'.pending = rows
  BY <1>2, <1>3, <1>4, <1>5 DEF Image
<1>7. /\ DOMAIN db'.pending \subseteq DOMAIN db'.target
      /\ \A q \in DOMAIN db'.location :
           /\ db'.location[q] \in DOMAIN db'.target
           /\ db'.target[db'.location[q]].gen >= 1
  BY <1>2, <1>3, <1>4, <1>6
<1>8. Whole(db') /\ db' # NoFile /\ db' # Torn
  BY <1>6, <1>7, MakeImage
<1> QED BY <1>1, <1>3, <1>6, <1>8 DEF Kept

(* A row is completed: it is gone, and of the targets at most one that has *)
(* accepted nothing.                                                       *)
LEMMA RowCompleted ==
  ASSUME NEW image, Whole(image), image # NoFile, image # Torn, NEW t
  PROVE  LET new == Completed(image, t) IN
         /\ Kept(image, new)
         /\ new.schema = image.schema /\ new.location = image.location
         /\ DOMAIN new.pending = DOMAIN image.pending \ {t}
<1> DEFINE gone == /\ t \in DOMAIN image.pending
                   /\ image.target[t].gen = 0
                   /\ \A p \in DOMAIN image.location : image.location[p] # t
           targets == IF gone THEN Drop(image.target, t) ELSE image.target
           rows == Drop(image.pending, t)
           new == Completed(image, t)
<1>1. new = [image EXCEPT !.pending = rows, !.target = targets]
  BY DEF Completed
<1>2. /\ image \in Image
      /\ image.target \in Table(TargetId, Accepted) /\ image.pending \in Table(TargetId, Path)
      /\ DOMAIN image.pending \subseteq DOMAIN image.target
      /\ \A q \in DOMAIN image.location :
           /\ image.location[q] \in DOMAIN image.target
           /\ image.target[image.location[q]].gen >= 1
  BY WholeImage
<1>3. /\ Drop(image.target, t) \in Table(TargetId, Accepted)
      /\ DOMAIN Drop(image.target, t) = DOMAIN image.target \ {t}
      /\ \A u \in DOMAIN image.target \ {t} : Drop(image.target, t)[u] = image.target[u]
  BY <1>2, DropFromTable, DropRow
<1>4. rows \in Table(TargetId, Path) /\ DOMAIN rows = DOMAIN image.pending \ {t}
  BY <1>2, DropFromTable, DropRow
<1>5. /\ targets \in Table(TargetId, Accepted)
      /\ DOMAIN image.target \ {t} \subseteq DOMAIN targets
      /\ DOMAIN targets \subseteq DOMAIN image.target
      /\ \A u \in DOMAIN targets : targets[u] = image.target[u]
      /\ ~gone /\ t \in DOMAIN image.target => t \in DOMAIN targets
  BY <1>2, <1>3
<1>6. \A u \in DOMAIN image.target : image.target[u].gen >= 1 => u \in DOMAIN targets
  <2> SUFFICES ASSUME NEW u \in DOMAIN image.target, image.target[u].gen >= 1
               PROVE  u \in DOMAIN targets
    OBVIOUS
  <2>1. CASE u # t
    BY <1>5, <2>1
  <2>2. CASE u = t
    <3>1. image.target[t].gen # 0
      BY <2>2
    <3> QED BY <1>5, <2>2, <3>1
  <2> QED BY <2>1, <2>2
<1>7. \A q \in DOMAIN image.location : image.location[q] \in DOMAIN targets
  BY <1>2, <1>6
<1> HIDE DEF gone, rows, targets, new
<1>8. /\ new \in Image
      /\ new.schema = image.schema /\ new.location = image.location
      /\ new.target = targets /\ new.pending = rows
  BY <1>1, <1>2, <1>4, <1>5 DEF Image
<1>9. /\ DOMAIN new.pending \subseteq DOMAIN new.target
      /\ \A q \in DOMAIN new.location :
           /\ new.location[q] \in DOMAIN new.target
           /\ new.target[new.location[q]].gen >= 1
  BY <1>2, <1>4, <1>5, <1>7, <1>8
<1>10. Whole(new) /\ new # NoFile /\ new # Torn
  BY <1>8, <1>9, MakeImage
<1>11. Kept(image, new)
  BY <1>5, <1>6, <1>8, <1>10 DEF Kept
<1> QED BY <1>4, <1>8, <1>11 DEF new

(* A location is registered for a target that has accepted something.      *)
LEMMA LocationPut ==
  ASSUME NEW image, Whole(image), image # NoFile, image # Torn,
         NEW p \in Path, NEW t \in DOMAIN image.target, image.target[t].gen >= 1
  PROVE  LET new == [image EXCEPT !.location = Put(@, p, t)] IN
         /\ Kept(image, new)
         /\ new.schema = image.schema /\ new.target = image.target
         /\ new.pending = image.pending
         /\ p \in DOMAIN new.location /\ new.location[p] = t
<1> DEFINE locations == Put(image.location, p, t)
           new == [image EXCEPT !.location = locations]
<1>1. /\ image \in Image
      /\ image.location \in Table(Path, TargetId) /\ t \in TargetId
      /\ DOMAIN image.pending \subseteq DOMAIN image.target
      /\ \A q \in DOMAIN image.location :
           /\ image.location[q] \in DOMAIN image.target
           /\ image.target[image.location[q]].gen >= 1
  BY WholeImage
<1>2. /\ locations \in Table(Path, TargetId)
      /\ DOMAIN locations = DOMAIN image.location \cup {p}
      /\ locations[p] = t
      /\ \A q \in DOMAIN image.location : q # p => locations[q] = image.location[q]
  <2>1. locations \in Table(Path, TargetId)
    BY <1>1, PutInTable
  <2> QED BY <2>1 DEF Put
<1> HIDE DEF locations
<1>3. /\ new \in Image
      /\ new.schema = image.schema /\ new.target = image.target
      /\ new.pending = image.pending /\ new.location = locations
  BY <1>1, <1>2 DEF Image
<1> HIDE DEF new
<1>4. \A q \in DOMAIN new.location :
        /\ new.location[q] \in DOMAIN new.target
        /\ new.target[new.location[q]].gen >= 1
  BY <1>1, <1>2, <1>3
<1>5. Whole(new) /\ new # NoFile /\ new # Torn
  BY <1>1, <1>3, <1>4, MakeImage
<1> QED BY <1>2, <1>3, <1>5 DEF Kept, new, locations

(* The rows of pending operations change, but only for known targets.      *)
LEMMA RowsChanged ==
  ASSUME NEW image, Whole(image), image # NoFile, image # Torn,
         NEW rows \in Table(TargetId, Path), DOMAIN rows \subseteq DOMAIN image.target
  PROVE  LET new == [image EXCEPT !.pending = rows] IN
         /\ Kept(image, new)
         /\ new.schema = image.schema /\ new.target = image.target
         /\ new.location = image.location
<1> DEFINE new == [image EXCEPT !.pending = rows]
<1>1. /\ image \in Image
      /\ \A q \in DOMAIN image.location :
           /\ image.location[q] \in DOMAIN image.target
           /\ image.target[image.location[q]].gen >= 1
  BY WholeImage
<1>2. /\ new \in Image
      /\ new.schema = image.schema /\ new.target = image.target
      /\ new.pending = rows /\ new.location = image.location
  BY <1>1 DEF Image
<1> HIDE DEF new
<1>3. Whole(new) /\ new # NoFile /\ new # Torn
  BY <1>1, <1>2, MakeImage
<1> QED BY <1>2, <1>3 DEF Kept, new

(* A migration changes the schema only.                                    *)
LEMMA SchemaChanged ==
  ASSUME NEW image, Whole(image), image # NoFile, image # Torn
  PROVE  LET new == [image EXCEPT !.schema = 1] IN
         /\ Kept(image, new)
         /\ new.schema = 1 /\ new.target = image.target
         /\ new.location = image.location /\ new.pending = image.pending
<1> DEFINE new == [image EXCEPT !.schema = 1]
<1>1. /\ image \in Image
      /\ DOMAIN image.pending \subseteq DOMAIN image.target
      /\ \A q \in DOMAIN image.location :
           /\ image.location[q] \in DOMAIN image.target
           /\ image.target[image.location[q]].gen >= 1
  BY WholeImage
<1>2. /\ new \in Image
      /\ new.schema = 1 /\ new.target = image.target
      /\ new.pending = image.pending /\ new.location = image.location
  BY <1>1 DEF Image
<1> HIDE DEF new
<1>3. Whole(new) /\ new # NoFile /\ new # Torn
  BY <1>1, <1>2, MakeImage
<1> QED BY <1>2, <1>3 DEF Kept, new

(* The image in which a target has accepted another state.                 *)
Advanced(image, t, s) ==
  [image EXCEPT !.target[t] = [gen |-> image.target[t].gen + 1, state |-> s]]

(* A target accepts another state.                                         *)
LEMMA TargetPut ==
  ASSUME NEW image, Whole(image), image # NoFile, image # Torn,
         NEW t \in DOMAIN image.target, NEW s \in State, image.target[t].gen < MaxGeneration
  PROVE  LET new == Advanced(image, t, s) IN
         /\ Whole(new) /\ new # NoFile /\ new # Torn
         /\ new.schema = image.schema /\ new.location = image.location
         /\ new.pending = image.pending /\ DOMAIN new.target = DOMAIN image.target
         /\ new.target[t].gen = image.target[t].gen + 1 /\ new.target[t].gen >= 1
         /\ new.target[t].state = s
         /\ \A u \in DOMAIN image.target : u # t => new.target[u] = image.target[u]
<1> DEFINE row == [gen |-> image.target[t].gen + 1, state |-> s]
           targets == [image.target EXCEPT ![t] = row]
           new == Advanced(image, t, s)
<1>1. /\ image \in Image
      /\ image.target \in Table(TargetId, Accepted)
      /\ image.target[t].gen \in 0..MaxGeneration
      /\ DOMAIN image.pending \subseteq DOMAIN image.target
      /\ \A q \in DOMAIN image.location :
           /\ image.location[q] \in DOMAIN image.target
           /\ image.target[image.location[q]].gen >= 1
  BY WholeImage
<1>2. row \in Accepted /\ row.gen = image.target[t].gen + 1 /\ row.state = s /\ row.gen >= 1
  BY <1>1, CopiesAssumption DEF Accepted
<1>3. new = [image EXCEPT !.target = targets]
  BY <1>1 DEF Image, Advanced
<1> HIDE DEF row
<1>4. image.target \in [DOMAIN image.target -> Accepted] /\ DOMAIN image.target \subseteq TargetId
  BY <1>1, TableIs
<1>5. /\ targets \in Table(TargetId, Accepted)
      /\ DOMAIN targets = DOMAIN image.target
      /\ targets[t] = row
      /\ \A u \in DOMAIN image.target : u # t => targets[u] = image.target[u]
  BY <1>2, <1>4 DEF Table
<1> HIDE DEF targets, new
<1>6. /\ new \in Image
      /\ new.schema = image.schema /\ new.target = targets
      /\ new.pending = image.pending /\ new.location = image.location
  BY <1>1, <1>3, <1>5 DEF Image
<1>7. \A q \in DOMAIN new.location :
        /\ new.location[q] \in DOMAIN new.target
        /\ new.target[new.location[q]].gen >= 1
  BY <1>1, <1>2, <1>5, <1>6
<1>8. Whole(new) /\ new # NoFile /\ new # Torn
  BY <1>1, <1>5, <1>6, <1>7, MakeImage
<1> QED BY <1>2, <1>5, <1>6, <1>8 DEF new

----------------------------------------------------------------------------
(* A machine without a registry, or with one of version 0 that knows one   *)
(* target, is as it should be.                                             *)
LEMMA CopiesInit == Init => CopiesInv
<1> SUFFICES ASSUME Init PROVE CopiesInv
  OBVIOUS
<1>1. cmd = Idle /\ reported = Idle /\ main = db /\ backups = {}
  BY DEF Init
<1>2. NoState \in State /\ State \subseteq Shown
  BY DEF NoState, State, Shown
<1>3. NoMarker \in Markers
  BY DEF Markers
<1>4. Whole(db) /\ dirs \in [Path -> [shown: Shown, marker: Markers]]
  <2>1. CASE db = NoFile /\ dirs = [p \in Path |-> [shown |-> NoState, marker |-> NoMarker]]
    BY <1>2, <1>3, <2>1 DEF Whole
  <2>2. ASSUME NEW t \in TargetId, NEW p \in Path, NEW s \in State, db = OldRows(t, p, s),
               dirs = [q \in Path |->
                  IF q = p
                    THEN [shown |-> s, marker |-> [id |-> t, gen |-> 1, state |-> s]]
                    ELSE [shown |-> NoState, marker |-> NoMarker]]
        PROVE  Whole(db) /\ dirs \in [Path -> [shown: Shown, marker: Markers]]
    <3> DEFINE row == [gen |-> 1, state |-> s]
               none == [x \in {} |-> 0]
               targets == Put(none, t, row)
               locations == Put(none, p, t)
    <3>1. row \in Accepted /\ row.gen = 1
      BY CopiesAssumption DEF Accepted
    <3>2. [id |-> t, gen |-> 1, state |-> s] \in Markers
      BY CopiesAssumption DEF Markers
    <3>3. dirs \in [Path -> [shown: Shown, marker: Markers]]
      BY <1>2, <1>3, <2>2, <3>2
    <3>4. db = [kind |-> "image", schema |-> 0, target |-> targets, location |-> locations,
                pending |-> none]
      BY <2>2 DEF OldRows, Rows
    <3> HIDE DEF row
    <3>5. /\ none \in Table(TargetId, Accepted) /\ none \in Table(Path, TargetId)
          /\ none \in Table(TargetId, Path) /\ DOMAIN none = {}
      BY EmptyTable
    <3>6. targets \in Table(TargetId, Accepted) /\ locations \in Table(Path, TargetId)
      BY <3>1, <3>5, PutInTable
    <3>7. /\ DOMAIN targets = {t} /\ targets[t] = row
          /\ DOMAIN locations = {p} /\ locations[p] = t
      BY <3>5 DEF Put
    <3> HIDE DEF none, targets, locations
    <3>8. /\ db \in Image /\ db.target = targets /\ db.location = locations
          /\ db.pending = none
      BY <3>4, <3>5, <3>6 DEF Image
    <3>9. Whole(db)
      BY <3>1, <3>5, <3>7, <3>8, MakeImage
    <3> QED BY <3>3, <3>9
  <2> QED BY <2>1, <2>2 DEF Init
<1>5. cmd \notin Commands
  BY <1>1 DEF Commands, Idle, Kinds
<1>6. CopiesTypeOK
  BY <1>1, <1>4 DEF CopiesTypeOK
<1> QED BY <1>1, <1>5, <1>6 DEF CopiesInv, OpenFits, CommitFits, TodoFits, ReportFits

(* What runs is a command, or a restore, or nothing.                       *)
LEMMA WhatRuns ==
  ASSUME CopiesInv
  PROVE  /\ Idle \notin Commands
         /\ cmd \in Commands =>
              /\ cmd # Idle /\ reported = Idle
              /\ cmd.kind \in Kinds \ {"restore"} /\ cmd.step \in Steps \ {"wipe", "copy"}
              /\ cmd.path \in Path /\ cmd.id \in TargetId \cup {Nothing}
              /\ cmd.source \in TargetId \cup {Nothing}
              /\ cmd.desired \in State /\ cmd.todo \in SUBSET Package
         /\ \A step \in Steps \ {"wipe", "copy"} : At(step) => cmd \in Commands
         /\ \A step \in {"wipe", "copy"} : At(step) => cmd \in Restores /\ reported = Idle
<1>1. Idle \notin Commands
  BY DEF Idle, Commands, Kinds
<1>2. cmd \in Commands =>
        /\ cmd.kind \in Kinds \ {"restore"} /\ cmd.step \in Steps \ {"wipe", "copy"}
        /\ cmd.path \in Path /\ cmd.id \in TargetId \cup {Nothing}
        /\ cmd.source \in TargetId \cup {Nothing}
        /\ cmd.desired \in State /\ cmd.todo \in SUBSET Package
  BY DEF Commands
<1>3. cmd \in Restores => cmd.step \in {"wipe", "copy"} /\ cmd.kind = "restore"
  BY DEF Restores
<1>4. Idle.step = "none" /\ Idle.kind = "none"
  BY DEF Idle
<1>5. cmd = Idle \/ cmd \in Commands \/ cmd \in Restores
  BY DEF CopiesInv, CopiesTypeOK
<1>6. reported # Idle => cmd = Idle
  BY DEF CopiesInv, ReportFits
<1> QED BY <1>1, <1>2, <1>3, <1>4, <1>5, <1>6 DEF At, Steps

(* The invariant speaks of values in range: type correctness follows.      *)
LEMMA CopiesTyped == CopiesInv => TypeOK
<1> SUFFICES ASSUME CopiesInv PROVE TypeOK
  OBVIOUS
<1>1. \A image \in {db, main} \cup backups : ImageOK(image)
  <2> SUFFICES ASSUME NEW image \in {db, main} \cup backups, image \notin {NoFile, Torn}
               PROVE  ImageOK(image)
    BY DEF ImageOK
  <2>1. Whole(image)
    BY DEF CopiesInv, CopiesTypeOK
  <2>2. /\ image.target \in Table(TargetId, Accepted)
        /\ image.location \in Table(Path, TargetId)
        /\ DOMAIN image.pending \subseteq DOMAIN image.target
        /\ \A p \in DOMAIN image.location :
             /\ image.location[p] \in DOMAIN image.target
             /\ image.target[image.location[p]].gen >= 1
    BY <2>1, WholeImage
  <2>3. /\ image.target \in [DOMAIN image.target -> Accepted]
        /\ DOMAIN image.target \subseteq TargetId /\ DOMAIN image.location \subseteq Path
    BY <2>2, TableIs
  <2>4. \A t \in DOMAIN image.target :
          image.target[t].gen \in 0 .. MaxGeneration /\ image.target[t].state \in State
    BY <2>3 DEF Accepted
  <2> QED BY <2>2, <2>3, <2>4 DEF ImageOK
<1>2. \A p \in Path : dirs[p].shown \in Shown /\ Marker(p).gen \in 0 .. MaxGeneration
  <2> SUFFICES ASSUME NEW p \in Path
               PROVE  dirs[p].shown \in Shown /\ Marker(p).gen \in 0 .. MaxGeneration
    OBVIOUS
  <2>1. dirs[p].shown \in Shown /\ dirs[p].marker \in Markers
    BY DEF CopiesInv, CopiesTypeOK
  <2>2. \A m \in Markers : m.gen \in 0 .. MaxGeneration
    BY CopiesAssumption DEF Markers, NoMarker
  <2> QED BY <2>1, <2>2 DEF Marker
<1>3. cmd = Idle \/ (cmd.kind \in Kinds /\ cmd.step \in Steps)
  <2>1. cmd \in Restores => cmd.kind \in Kinds /\ cmd.step \in Steps
    BY DEF Restores, Kinds, Steps
  <2> QED BY <2>1, WhatRuns DEF CopiesInv, CopiesTypeOK
<1> QED BY <1>1, <1>2, <1>3 DEF TypeOK

(* The registry opens exactly when it is neither missing nor torn.         *)
LEMMA ReadableDb ==
  ASSUME CopiesInv
  PROVE  /\ Whole(db) /\ (Readable <=> db # NoFile /\ db # Torn)
         /\ Whole(main) /\ \A b \in backups : Whole(b)
         /\ NoFile # Torn /\ Whole(NoFile) /\ Whole(Torn)
         /\ \A p \in Path : dirs[p].shown \in Shown /\ dirs[p].marker \in Markers
         /\ dirs \in [Path -> [shown: Shown, marker: Markers]]
BY ReadableImage DEF CopiesInv, CopiesTypeOK, Readable, NoFile, Torn, Whole

----------------------------------------------------------------------------
(* The targets found at a path are in the registry.                        *)
LEMMA TargetsFound ==
  ASSUME CopiesInv, NEW p \in Path
  PROVE  /\ TargetIdsAt(p) # {} => Readable
         /\ \A t \in TargetIdsAt(p) : Readable /\ Known(t) /\ t \in TargetId
         /\ \A t \in TargetIdsAt(p) :
              t # Marker(p).id => p \in DOMAIN db.location /\ db.location[p] = t
         /\ Registered(p) => TargetAt(p) \in TargetIdsAt(p)
<1>1. TargetIdsAt(p) # {} => Readable
  BY DEF TargetIdsAt
<1>2. Readable => /\ DOMAIN db.target \subseteq TargetId
                  /\ \A q \in DOMAIN db.location : db.location[q] \in DOMAIN db.target
  BY ReadableDb, WholeImage
<1>3. Registered(p) => TargetAt(p) \in TargetIdsAt(p)
  BY DEF Registered, TargetAt
<1> QED BY <1>1, <1>2, <1>3 DEF TargetIdsAt, Known

(* A command that goes on keeps what it knows.                             *)
LEMMA Stepped ==
  ASSUME cmd \in Commands, NEW step \in Steps \ {"wipe", "copy"}, Goto(step)
  PROVE  /\ cmd' \in Commands /\ cmd'.step = step
         /\ cmd'.kind = cmd.kind /\ cmd'.path = cmd.path /\ cmd'.id = cmd.id
         /\ cmd'.source = cmd.source /\ cmd'.desired = cmd.desired /\ cmd'.todo = cmd.todo
BY DEF Goto, Commands

(* When nothing runs and nothing is reported, only the images and the      *)
(* directories matter.                                                     *)
LEMMA Quiet ==
  ASSUME (CopiesTypeOK)', cmd' = Idle, reported' = Idle
  PROVE  CopiesInv'
<1>1. cmd' \notin Commands
  BY DEF Commands, Idle, Kinds
<1> QED BY <1>1 DEF CopiesInv, OpenFits, CommitFits, TodoFits, ReportFits

(* A command that ends early leaves images and directories in order.       *)
LEMMA Ends ==
  ASSUME CopiesInv, cmd # Idle, Whole(db'), Close, UNCHANGED <<backups, dirs, reported>>
  PROVE  CopiesInv'
<1>1. reported = Idle
  BY DEF CopiesInv, ReportFits
<1>2. (CopiesTypeOK)'
  BY <1>1 DEF CopiesInv, CopiesTypeOK, Close
<1> QED BY <1>1, <1>2, Quiet DEF Close

(* Between commands a user may do anything to directories and registry.    *)
LEMMA UserActs ==
  ASSUME CopiesInv, UserAct, Whole(db'), Whole(main'),
         dirs' \in [Path -> [shown: Shown, marker: Markers]]
  PROVE  CopiesInv'
<1>1. (CopiesTypeOK)'
  BY DEF CopiesInv, CopiesTypeOK, UserAct
<1> QED BY <1>1, Quiet DEF UserAct

(* A command starts.                                                       *)
LEMMA StartStep ==
  ASSUME CopiesInv, NEW kind \in Kinds \ {"restore"}, NEW p \in Path,
         NEW t \in TargetId \cup {Nothing}, Start(kind, p, t),
         kind \in {"change", "sync", "repair"} => t \in TargetIdsAt(p),
         kind \in {"recover", "fork"} => t \in TargetId
  PROVE  CopiesInv'
<1> DEFINE new == Running(kind, p, t)
<1>1. /\ new \in Commands /\ new.kind = kind /\ new.step = "open" /\ new.path = p
      /\ new.id = t /\ new.todo = {} /\ new.source = Nothing
  BY DEF Running, Commands, Steps, NoState, State
<1> HIDE DEF new
<1>2. cmd' = new /\ reported' = Idle /\ UNCHANGED <<db, main, backups, dirs>> /\ StatusOk(p)
  BY DEF Start, new, registry
<1>3. (CopiesTypeOK)'
  BY <1>1, <1>2 DEF CopiesInv, CopiesTypeOK
<1>4. db # Torn
  BY <1>2 DEF StatusOk, Torn
<1>5. kind \in {"change", "sync", "repair"} => Readable
  BY TargetsFound
<1>6. OpenFits'
  BY <1>1, <1>2, <1>4, <1>5 DEF OpenFits, TargetIdsAt, Readable, Marker
<1>7. CommitFits' /\ TodoFits' /\ ReportFits'
  BY <1>1, <1>2 DEF CommitFits, TodoFits, ReportFits
<1> QED BY <1>3, <1>6, <1>7 DEF CopiesInv

(* Each way to start a command knows the target it is about.               *)
LEMMA StartsStep ==
  ASSUME CopiesInv, NEW p \in Path, Starts(p)
  PROVE  CopiesInv'
<1>1. CASE StartInstall(p)
  <2>1. Start("install", p, Nothing)
    BY <1>1 DEF StartInstall
  <2> QED BY <2>1, StartStep DEF Kinds
<1>2. CASE StartChange(p) \/ StartSync(p) \/ StartRepair(p)
  <2>1. /\ Registered(p)
        /\ \E kind \in {"change", "sync", "repair"} : Start(kind, p, TargetAt(p))
    BY <1>2 DEF StartChange, StartSync, StartRepair
  <2>2. TargetAt(p) \in TargetIdsAt(p) /\ TargetAt(p) \in TargetId
    BY <2>1, TargetsFound
  <2>3. PICK kind \in {"change", "sync", "repair"} : Start(kind, p, TargetAt(p))
    BY <2>1
  <2>4. kind \in Kinds \ {"restore"} /\ kind \notin {"recover", "fork"}
    BY <2>3 DEF Kinds
  <2> QED BY <2>2, <2>3, <2>4, StartStep
<1>3. CASE StartRecover(p) \/ StartFork(p)
  <2>1. Marker(p) # NoMarker /\ \E kind \in {"recover", "fork"} : Start(kind, p, Marker(p).id)
    BY <1>3 DEF StartRecover, StartFork
  <2>2. Marker(p).id \in TargetId
    BY <2>1, ReadableDb DEF Marker, Markers
  <2>3. PICK kind \in {"recover", "fork"} : Start(kind, p, Marker(p).id)
    BY <2>1
  <2>4. kind \in Kinds \ {"restore"} /\ kind \notin {"change", "sync", "repair"}
    BY <2>3 DEF Kinds
  <2> QED BY <2>2, <2>3, <2>4, StartStep
<1> QED BY <1>1, <1>2, <1>3 DEF Starts

(* A command that opens the registry finds the targets it looked for.      *)
LEMMA Opens ==
  ASSUME CopiesInv, cmd \in Commands, cmd.step \in {"open", "migrate"},
         NEW step \in {"migrate", "decide"}, Goto(step),
         Whole(db'), db' # NoFile, db' # Torn, step = "decide" => db'.schema = 1,
         Readable => db'.target = db.target /\ db'.location = db.location,
         \A b \in backups' : Whole(b), backups \subseteq backups',
         UNCHANGED <<main, dirs, reported>>
  PROVE  CopiesInv'
<1>1. step \in Steps \ {"wipe", "copy"}
  BY DEF Steps
<1>2. /\ cmd' \in Commands /\ cmd'.step = step
      /\ cmd'.kind = cmd.kind /\ cmd'.path = cmd.path /\ cmd'.id = cmd.id
      /\ cmd'.desired = cmd.desired /\ cmd'.todo = cmd.todo
  BY <1>1, Stepped
<1>3. (CopiesTypeOK)'
  BY <1>2 DEF CopiesInv, CopiesTypeOK
<1>4. Readable'
  BY ReadableImage DEF Readable
<1>5. cmd.kind = "repair" => cmd.step \in {"open", "migrate", "decide"}
  OBVIOUS
<1>6. cmd.kind \in {"change", "sync", "repair"} => Readable' /\ (cmd.id \in TargetIdsAt(cmd.path))'
  <2>1. cmd.kind \in {"change", "sync", "repair"} => Readable /\ cmd.id \in TargetIdsAt(cmd.path)
    BY DEF CopiesInv, OpenFits
  <2> QED BY <1>2, <1>4, <2>1 DEF TargetIdsAt, Readable, Marker
<1>7. cmd.kind \in {"recover", "fork"} => cmd.id \in TargetId
  BY DEF CopiesInv, OpenFits
<1>8. OpenFits'
  BY <1>2, <1>4, <1>6, <1>7 DEF OpenFits
<1>9. CommitFits'
  BY <1>2 DEF CommitFits
<1>10. TodoFits'
  BY <1>2 DEF CopiesInv, TodoFits
<1>11. ReportFits'
  BY WhatRuns DEF ReportFits
<1> QED BY <1>3, <1>8, <1>9, <1>10, <1>11 DEF CopiesInv

(* The registry is made, found current, backed up and migrated.            *)
LEMMA OpenStep ==
  ASSUME CopiesInv, OpenFresh \/ OpenCurrent \/ OpenOld \/ MigrateZeroToOne
  PROVE  CopiesInv'
<1>1. cmd \in Commands /\ cmd.step \in {"open", "migrate"}
  BY WhatRuns DEF OpenFresh, OpenCurrent, OpenOld, MigrateZeroToOne, At, Steps
<1>2. CASE OpenFresh
  <2>1. db = NoFile /\ ~Readable
    BY <1>2, ReadableDb DEF OpenFresh, Uninitialised
  <2>2. Rows \in Image /\ Rows.schema = 1 /\ DOMAIN Rows.pending = {} /\ DOMAIN Rows.location = {}
    BY EmptyTable DEF Rows, Image
  <2>3. Whole(Rows) /\ Rows # NoFile /\ Rows # Torn
    BY <2>2, MakeImage
  <2> QED BY <1>1, <1>2, <2>1, <2>2, <2>3, ReadableDb, Opens DEF OpenFresh
<1>3. CASE OpenCurrent
  <2>1. Whole(db) /\ db # NoFile /\ db # Torn
    BY <1>3, ReadableDb DEF OpenCurrent
  <2>2. UNCHANGED <<db, main, backups, dirs, reported>> /\ db.schema = 1 /\ Goto("decide")
    BY <1>3 DEF OpenCurrent, registry
  <2> QED BY <1>1, <2>1, <2>2, ReadableDb, Opens
<1>4. CASE OpenOld
  <2>1. Whole(db) /\ db # NoFile /\ db # Torn
    BY <1>4, ReadableDb DEF OpenOld
  <2>2. \A b \in backups' : Whole(b)
    BY <1>4, <2>1, ReadableDb DEF OpenOld
  <2> QED BY <1>1, <1>4, <2>1, <2>2, Opens DEF OpenOld
<1>5. CASE MigrateZeroToOne
  <2>1. Readable
    BY <1>1, <1>5 DEF CopiesInv, OpenFits, MigrateZeroToOne, At
  <2>2. Whole(db) /\ db # NoFile /\ db # Torn
    BY <2>1, ReadableDb
  <2>3. /\ db' = [db EXCEPT !.schema = 1] /\ Goto("decide")
        /\ UNCHANGED <<main, backups, dirs, reported>>
    BY <1>5 DEF MigrateZeroToOne
  <2>4. /\ Kept(db, db') /\ db'.schema = 1
        /\ db'.target = db.target /\ db'.location = db.location
    BY <2>2, <2>3, SchemaChanged
  <2> QED BY <1>1, <2>3, <2>4, ReadableDb, Opens DEF Kept
<1> QED BY <1>2, <1>3, <1>4, <1>5

(* A refused command, and one whose effects fail, leave everything as it   *)
(* was.                                                                    *)
LEMMA EndStep ==
  ASSUME CopiesInv, Refuse \/ SweepElsewhere \/ Fail
  PROVE  CopiesInv'
<1>1. cmd \in Commands
  BY WhatRuns DEF Refuse, SweepElsewhere, Fail, At, Steps
<1>2. Whole(db') /\ Close /\ UNCHANGED <<backups, dirs, reported>>
  BY ReadableDb DEF Refuse, SweepElsewhere, Fail
<1> QED BY <1>1, <1>2, WhatRuns, Ends

----------------------------------------------------------------------------
(* What the preflight lets through touches nothing of the user's, and      *)
(* covers every difference.                                                *)
LEMMA PreflightProtects ==
  ASSUME NEW base \in State, NEW desired \in State, NEW shown \in Shown,
         PreflightOk(base, desired, shown)
  PROVE  /\ Changes(base, desired, shown) \subseteq Package
         /\ \A k \in Changes(base, desired, shown) : shown[k] # Foreign
         /\ \A k \in Package :
              desired[k] # Nothing /\ shown[k] # desired[k] => k \in Changes(base, desired, shown)
<1>1. \A k \in Package : base[k] \in Version \cup {Nothing}
  BY DEF State
<1>2. ASSUME NEW k \in Changes(base, desired, shown)
      PROVE  shown[k] # Foreign
  <2>1. k \in Package /\ (base[k] # Nothing \/ desired[k] # Nothing)
    BY <1>2 DEF Changes
  <2>2. CASE base[k] # Nothing
    BY <1>1, <2>1, <2>2, CopiesAssumption DEF PreflightOk
  <2>3. CASE base[k] = Nothing
    BY <2>1, <2>3, CopiesAssumption DEF PreflightOk
  <2> QED BY <2>2, <2>3
<1> QED BY <1>2 DEF Changes

(* A command has staged for a new state of its target.                     *)
LEMMA Prepares ==
  ASSUME CopiesInv, cmd \in Commands, cmd.step = "decide",
         cmd.kind \in {"install", "change", "recover", "fork"},
         NEW t \in TargetId, NEW base \in State, NEW s \in State, Propose(t, base, s),
         Known(t) => db.target[t].gen < MaxGeneration,
         cmd' \in Commands, cmd'.step = "commit", cmd'.kind = cmd.kind, cmd'.path = cmd.path,
         cmd'.id = t, cmd'.desired = s, cmd'.todo = Changes(base, s, dirs[cmd.path].shown)
  PROVE  CopiesInv' /\ Kept(db, db')
<1> DEFINE shown == dirs[cmd.path].shown
<1>1. Readable /\ db.schema = 1
  BY DEF CopiesInv, OpenFits
<1>2. cmd.path \in Path /\ shown \in Shown /\ reported = Idle
  BY ReadableDb, WhatRuns
<1>3. PreflightOk(base, s, shown) /\ BeginRow(t, cmd.path)
      /\ UNCHANGED <<main, backups, dirs, reported>>
  BY DEF Propose
<1>4. /\ Kept(db, db') /\ db'.schema = 1
      /\ t \in DOMAIN db'.target
      /\ \A u \in DOMAIN db.target : u \in DOMAIN db'.target /\ db'.target[u] = db.target[u]
      /\ t \notin DOMAIN db.target => db'.target[t].gen = 0
  BY <1>1, <1>2, <1>3, ReadableDb, RowBegins
<1>5. Whole(db') /\ Readable'
  BY <1>4, ReadableImage DEF Kept, Readable
<1>6. (CopiesTypeOK)'
  BY <1>3, <1>5 DEF CopiesInv, CopiesTypeOK
<1>7. OpenFits'
  BY <1>4, <1>5 DEF OpenFits
<1>8. db'.target[t].gen < MaxGeneration
  <2>1. CASE t \in DOMAIN db.target
    BY <1>4, <2>1 DEF Known
  <2>2. CASE t \notin DOMAIN db.target
    BY <1>4, <2>2, CopiesAssumption
  <2> QED BY <2>1, <2>2
<1>9. CommitFits'
  BY <1>4, <1>8 DEF CommitFits, Known
<1>10. TodoFits'
  <2>1. /\ \A k \in cmd'.todo : shown[k] # Foreign
        /\ \A k \in Package : s[k] # Nothing /\ shown[k] # s[k] => k \in cmd'.todo
    BY <1>2, <1>3, PreflightProtects
  <2> QED BY <1>3, <2>1 DEF TodoFits, Unshown
<1>11. ReportFits'
  BY <1>2, <1>3 DEF ReportFits
<1> QED BY <1>4, <1>6, <1>7, <1>9, <1>10, <1>11 DEF CopiesInv

(* The four commands that propose a new state.                             *)
LEMMA ProposeStep ==
  ASSUME CopiesInv, NEW s \in State,
         \/ DecideChange(s) \/ DecideRecover(s)
         \/ \E t \in TargetId : DecideInstall(t, s) \/ DecideFork(t, s)
  PROVE  CopiesInv' /\ Kept(db, db')
<1>1. cmd \in Commands /\ cmd.step = "decide"
  BY WhatRuns DEF DecideChange, DecideRecover, DecideInstall, DecideFork, At, Steps
<1>2. cmd.path \in Path /\ dirs[cmd.path].shown \in Shown /\ Readable
  BY <1>1, WhatRuns, ReadableDb DEF CopiesInv, OpenFits
<1>3. NoState \in State
  BY DEF NoState, State
<1>4. OwnedAlready(s, dirs[cmd.path].shown) \in State
  BY <1>2 DEF OwnedAlready, State
<1>5. ASSUME NEW t \in TargetId, NEW base \in State, Prepared(t, base, s)
      PROVE  /\ cmd' \in Commands /\ cmd'.step = "commit" /\ cmd'.kind = cmd.kind
             /\ cmd'.path = cmd.path /\ cmd'.id = t /\ cmd'.desired = s
             /\ cmd'.todo = Changes(base, s, dirs[cmd.path].shown)
  <2> DEFINE todo == Changes(base, s, dirs[cmd.path].shown)
  <2>1. todo \in SUBSET Package
    BY DEF Changes
  <2>2. cmd' = [cmd EXCEPT !.step = "commit", !.id = t, !.desired = s, !.todo = todo]
    BY <1>5 DEF Prepared
  <2> HIDE DEF todo
  <2>3. /\ cmd' \in Commands /\ cmd'.step = "commit" /\ cmd'.kind = cmd.kind
        /\ cmd'.path = cmd.path /\ cmd'.id = t /\ cmd'.desired = s /\ cmd'.todo = todo
    BY <1>1, <2>1, <2>2 DEF Commands, Steps
  <2> QED BY <2>3 DEF todo
<1>6. CASE DecideChange(s)
  <2> DEFINE t == cmd.id
             base == db.target[t].state
  <2>1. /\ cmd.kind = "change" /\ db.target[t].gen < MaxGeneration
        /\ Propose(t, base, s) /\ Prepared(t, base, s)
    BY <1>6 DEF DecideChange
  <2>2. t \in TargetId /\ Known(t)
    BY <1>1, <1>2, <2>1, TargetsFound DEF CopiesInv, OpenFits
  <2>3. base \in State
    BY <1>2, <2>2, ReadableDb, WholeImage DEF Known
  <2> HIDE DEF t, base
  <2> QED BY <1>1, <1>5, <2>1, <2>2, <2>3, Prepares
<1>7. CASE DecideRecover(s)
  <2> DEFINE t == cmd.id
             base == OwnedAlready(s, dirs[cmd.path].shown)
  <2>1. /\ cmd.kind = "recover" /\ ~Known(t)
        /\ Propose(t, base, s) /\ Prepared(t, base, s)
    BY <1>7 DEF DecideRecover
  <2>2. t \in TargetId
    BY <1>1, <2>1 DEF CopiesInv, OpenFits
  <2> HIDE DEF t, base
  <2> QED BY <1>1, <1>4, <1>5, <2>1, <2>2, Prepares DEF base
<1>8. ASSUME NEW t \in TargetId, DecideInstall(t, s)
      PROVE  CopiesInv' /\ Kept(db, db')
  <2>1. cmd.kind = "install" /\ ~Known(t) /\ Propose(t, NoState, s) /\ Prepared(t, NoState, s)
    BY <1>8 DEF DecideInstall, FreshId
  <2> QED BY <1>1, <1>3, <1>5, <2>1, Prepares
<1>9. ASSUME NEW t \in TargetId, DecideFork(t, s)
      PROVE  CopiesInv' /\ Kept(db, db')
  <2> DEFINE base == OwnedAlready(s, dirs[cmd.path].shown)
             todo == Changes(base, s, dirs[cmd.path].shown)
             here == cmd.path \in DOMAIN db.location /\ db.location[cmd.path] = cmd.id
             source == IF here THEN cmd.id ELSE Nothing
  <2>1. /\ cmd.kind = "fork" /\ ~Known(t) /\ Propose(t, base, s)
        /\ cmd' = [cmd EXCEPT !.step = "commit", !.id = t, !.desired = s,
                              !.source = source, !.todo = todo]
    BY <1>9 DEF DecideFork, FreshId
  <2>2. todo \in SUBSET Package /\ source \in TargetId \cup {Nothing}
    BY <1>1, WhatRuns DEF Changes
  <2> HIDE DEF source
  <2>3. /\ cmd' \in Commands /\ cmd'.step = "commit" /\ cmd'.kind = cmd.kind
        /\ cmd'.path = cmd.path /\ cmd'.id = t /\ cmd'.desired = s /\ cmd'.todo = todo
    <3> HIDE DEF todo
    <3> QED BY <1>1, <2>1, <2>2 DEF Commands, Steps
  <2> HIDE DEF base
  <2> QED BY <1>1, <1>4, <2>1, <2>3, Prepares DEF base, todo
<1> QED BY <1>6, <1>7, <1>8, <1>9

----------------------------------------------------------------------------
(* Replaced drift is what the target accepted, and asked for.              *)
LEMMA RepairDriftStep ==
  ASSUME CopiesInv, RepairDrift
  PROVE  CopiesInv'
<1> DEFINE accepted == db.target[cmd.id].state
           shown == dirs[cmd.path].shown
           new == [k \in Package |->
                     IF accepted[k] = Nothing \/ shown[k] = Nothing THEN shown[k] ELSE accepted[k]]
<1>1. cmd \in Commands /\ cmd.step = "decide" /\ cmd.kind = "repair"
  BY WhatRuns DEF RepairDrift, At, Steps
<1>2. cmd.path \in Path /\ shown \in Shown /\ reported = Idle
  BY <1>1, WhatRuns, ReadableDb
<1>3. Readable /\ db.schema = 1 /\ Known(cmd.id) /\ cmd.id \in TargetIdsAt(cmd.path)
  BY <1>1, <1>2, TargetsFound DEF CopiesInv, OpenFits
<1>4. accepted \in State
  BY <1>3, ReadableDb, WholeImage DEF Known
<1> HIDE DEF accepted
<1>5. new \in Shown
  BY <1>2, <1>4 DEF State, Shown
<1>6. \A k \in Package : shown[k] # Foreign => new[k] # Foreign
  BY <1>2, <1>4, CopiesAssumption DEF State, Shown
<1>7. /\ dirs' = [dirs EXCEPT ![cmd.path].shown = new]
      /\ cmd' = [cmd EXCEPT !.kind = "sync"]
      /\ UNCHANGED <<db, main, backups, reported>>
  BY DEF RepairDrift, registry, accepted
<1> HIDE DEF new
<1>8. /\ dirs' \in [Path -> [shown: Shown, marker: Markers]]
      /\ dirs'[cmd.path].shown = new /\ \A p \in Path : dirs'[p].marker = dirs[p].marker
  BY <1>2, <1>5, <1>7, ReadableDb
<1>9. /\ cmd' \in Commands /\ cmd'.step = "decide" /\ cmd'.kind = "sync"
      /\ cmd'.path = cmd.path /\ cmd'.id = cmd.id /\ cmd'.todo = cmd.todo
  BY <1>1, <1>7 DEF Commands, Kinds
<1>10. (CopiesTypeOK)'
  BY <1>7, <1>8, <1>9 DEF CopiesInv, CopiesTypeOK
<1>11. OpenFits'
  BY <1>2, <1>3, <1>7, <1>8, <1>9 DEF OpenFits, TargetIdsAt, Marker, Readable
<1>12. CommitFits'
  BY <1>9 DEF CommitFits
<1>13. TodoFits'
  BY <1>9 DEF TodoFits
<1>14. ReportFits'
  BY <1>2, <1>7 DEF ReportFits
<1> QED BY <1>10, <1>11, <1>12, <1>13, <1>14 DEF CopiesInv

(* A sync finds its directory registered for a target that has accepted    *)
(* something, whether by its path or by its marker.                        *)
LEMMA DecideSyncStep ==
  ASSUME CopiesInv, DecideSync
  PROVE  CopiesInv' /\ Kept(db, db')
<1> DEFINE t == cmd.id
           p == cmd.path
           accepted == db.target[t].state
           base == SyncBaseline(p, t)
           shown == dirs[p].shown
           observed == Observed(base, shown)
           todo == Changes(base, accepted, observed)
<1>1. cmd \in Commands /\ cmd.step = "decide" /\ cmd.kind = "sync"
  BY WhatRuns DEF DecideSync, At, Steps
<1>2. p \in Path /\ shown \in Shown /\ dirs[p].marker \in Markers /\ reported = Idle
  BY <1>1, WhatRuns, ReadableDb
<1>3. Readable /\ db.schema = 1 /\ t \in TargetIdsAt(p) /\ t \in DOMAIN db.target /\ t \in TargetId
  BY <1>1, <1>2, TargetsFound DEF CopiesInv, OpenFits, Known
<1>4. /\ Whole(db) /\ db # NoFile /\ db # Torn
      /\ accepted \in State /\ db.target[t].gen \in 0..MaxGeneration
  BY <1>3, ReadableDb, WholeImage
<1>5. db.target[t].gen >= 1
  <2>1. CASE t # Marker(p).id
    BY <1>2, <1>3, <1>4, <2>1, TargetsFound, WholeImage
  <2>2. CASE t = Marker(p).id
    <3>1. Marker(p) # NoMarker
      BY <1>3, <2>2, CopiesAssumption DEF NoMarker
    <3>2. Marker(p).gen \in 1..MaxGeneration /\ Marker(p).gen <= db.target[t].gen
      BY <1>2, <3>1 DEF Marker, Markers, DecideSync
    <3> QED BY <1>4, <3>2, CopiesAssumption
  <2> QED BY <2>1, <2>2
<1>6. base \in State
  BY <1>2, <1>4 DEF SyncBaseline, Marker, Markers
<1>7. /\ PreflightOk(base, accepted, observed)
      /\ db' = [db EXCEPT !.location = Put(@, p, t)]
      /\ cmd' = [cmd EXCEPT !.step = "sweep", !.desired = accepted, !.todo = todo]
      /\ UNCHANGED <<main, backups, dirs, reported>>
  BY <1>4 DEF DecideSync, SyncedLocation, Image, Whole
<1>8. /\ Kept(db, db') /\ db'.schema = 1 /\ db'.target = db.target
      /\ p \in DOMAIN db'.location /\ db'.location[p] = t
  BY <1>2, <1>3, <1>4, <1>5, <1>7, LocationPut
<1>9. Whole(db') /\ Readable'
  BY <1>8, ReadableImage DEF Kept, Readable
<1>10. /\ todo \in SUBSET Package
       /\ \A k \in todo : base[k] # Nothing => shown[k] # Foreign
       /\ \A k \in Package : accepted[k] # Nothing /\ shown[k] # accepted[k] => k \in todo
  <2>1. observed \in Shown /\ \A k \in Package : base[k] # Nothing => observed[k] = shown[k]
    BY <1>2 DEF Observed, Shown
  <2>2. \A k \in Package : base[k] = Nothing => observed[k] = Nothing
    BY DEF Observed
  <2> HIDE DEF observed
  <2>3. /\ todo \subseteq Package
        /\ \A k \in todo : observed[k] # Foreign
        /\ \A k \in Package : accepted[k] # Nothing /\ observed[k] # accepted[k] => k \in todo
    BY <1>4, <1>6, <1>7, <2>1, PreflightProtects
  <2> HIDE DEF todo
  <2> QED BY <2>1, <2>2, <2>3
<1> HIDE DEF todo
<1>11. /\ cmd' \in Commands /\ cmd'.step = "sweep" /\ cmd'.kind = "sync"
       /\ cmd'.path = p /\ cmd'.id = t /\ cmd'.desired = accepted /\ cmd'.todo = todo
  BY <1>1, <1>4, <1>7, <1>10 DEF Commands, Steps
<1>12. (CopiesTypeOK)'
  BY <1>7, <1>9, <1>11 DEF CopiesInv, CopiesTypeOK
<1>13. OpenFits'
  BY <1>8, <1>9, <1>11 DEF OpenFits
<1>14. CommitFits'
  BY <1>3, <1>5, <1>8, <1>11 DEF CommitFits, Known
<1>15. TodoFits'
  <2>1. SyncBaseline(p, t)' = base /\ dirs' = dirs
    BY <1>7, <1>8 DEF SyncBaseline, Marker
  <2>2. ASSUME NEW k \in todo, k \notin Occupied'
        PROVE  shown[k] # Foreign
    <3>1. base[k] # Nothing \/ shown[k] = Nothing
      BY <1>11, <2>1, <2>2 DEF Occupied
    <3> QED BY <1>10, <2>2, <3>1, CopiesAssumption
  <2> HIDE DEF base
  <2>3. \A k \in cmd'.todo \ Occupied' : dirs[p].shown[k] # Foreign
    BY <1>11, <2>2
  <2> QED BY <1>10, <1>11, <2>1, <2>3 DEF TodoFits, Unshown
<1>16. ReportFits'
  BY <1>2, <1>7 DEF ReportFits
<1> QED BY <1>8, <1>12, <1>13, <1>14, <1>15, <1>16 DEF CopiesInv

(* A commit counts the generation up and takes the location.               *)
LEMMA CommitStep ==
  ASSUME CopiesInv, Commit
  PROVE  /\ CopiesInv'
         /\ Readable' /\ db'.target[cmd.id].gen = db.target[cmd.id].gen + 1
         /\ \A u \in DOMAIN db.target :
              u \in DOMAIN db'.target /\ (u # cmd.id => db'.target[u] = db.target[u])
<1> DEFINE t == cmd.id
           p == cmd.path
           mid == Advanced(db, t, cmd.desired)
<1>1. cmd \in Commands /\ cmd.step = "commit"
  BY WhatRuns DEF Commit, At, Steps
<1>2. p \in Path /\ reported = Idle /\ cmd.desired \in State
  BY <1>1, WhatRuns
<1>3. /\ Readable /\ db.schema = 1 /\ cmd.kind # "sync" /\ cmd.kind # "repair"
      /\ t \in DOMAIN db.target /\ db.target[t].gen < MaxGeneration
  BY <1>1 DEF CopiesInv, OpenFits, CommitFits, Known
<1>4. Whole(db) /\ db # NoFile /\ db # Torn
  BY <1>3, ReadableDb
<1>5. /\ Whole(mid) /\ mid # NoFile /\ mid # Torn
      /\ mid.schema = 1 /\ mid.location = db.location
      /\ DOMAIN mid.target = DOMAIN db.target
      /\ mid.target[t].gen = db.target[t].gen + 1 /\ mid.target[t].gen >= 1
      /\ mid.target[t].state = cmd.desired
      /\ \A u \in DOMAIN db.target : u # t => mid.target[u] = db.target[u]
  BY <1>2, <1>3, <1>4, TargetPut
<1>6. /\ db' = [mid EXCEPT !.location = Put(@, p, t)] /\ Goto("activate")
      /\ UNCHANGED <<main, backups, dirs, reported>>
  BY DEF Commit, Advanced
<1> HIDE DEF mid
<1>7. /\ Kept(mid, db') /\ db'.schema = 1 /\ db'.target = mid.target
      /\ p \in DOMAIN db'.location /\ db'.location[p] = t
  BY <1>2, <1>3, <1>5, <1>6, LocationPut
<1>8. Whole(db') /\ Readable'
  BY <1>7, ReadableImage DEF Kept, Readable
<1>9. /\ cmd' \in Commands /\ cmd'.step = "activate" /\ cmd'.kind = cmd.kind
      /\ cmd'.path = p /\ cmd'.id = t /\ cmd'.desired = cmd.desired /\ cmd'.todo = cmd.todo
  BY <1>1, <1>6, Stepped DEF Steps
<1>10. (CopiesTypeOK)'
  BY <1>6, <1>8, <1>9 DEF CopiesInv, CopiesTypeOK
<1>11. OpenFits'
  BY <1>3, <1>7, <1>8, <1>9 DEF OpenFits
<1>12. CommitFits'
  BY <1>3, <1>5, <1>7, <1>9 DEF CommitFits, Known
<1>13. TodoFits'
  BY <1>1, <1>6, <1>9 DEF CopiesInv, TodoFits, Unshown
<1>14. ReportFits'
  BY <1>2, <1>6 DEF ReportFits
<1> QED BY <1>3, <1>5, <1>7, <1>8, <1>10, <1>11, <1>12, <1>13, <1>14 DEF CopiesInv

(* A command that gives up completes the row it began.                     *)
LEMMA GiveUpStep ==
  ASSUME CopiesInv, GiveUp
  PROVE  CopiesInv' /\ Kept(db, db')
<1>1. cmd \in Commands /\ cmd.step \in {"commit", "refused"}
  BY WhatRuns DEF GiveUp, At, Steps
<1>2. Readable
  BY <1>1 DEF CopiesInv, OpenFits
<1>3. db' = Completed(db, cmd.id) /\ Close /\ UNCHANGED <<backups, dirs, reported>>
  BY DEF GiveUp
<1>4. Kept(db, db')
  BY <1>2, <1>3, ReadableDb, RowCompleted
<1> QED BY <1>1, <1>3, <1>4, WhatRuns, Ends DEF Kept

(* An activation changes a name the preflight has cleared.                 *)
LEMMA ActivateStep ==
  ASSUME CopiesInv, NEW k \in Package, Activate(k)
  PROVE  CopiesInv'
<1> DEFINE p == cmd.path
           v == cmd.desired[k]
           todo == cmd.todo \ {k}
<1>1. cmd \in Commands /\ cmd.step = "activate" /\ k \in cmd.todo
  BY WhatRuns DEF Activate, At, Steps
<1>2. /\ p \in Path /\ dirs[p].shown \in Shown /\ reported = Idle
      /\ cmd.desired \in State /\ todo \in SUBSET Package
  BY <1>1, WhatRuns, ReadableDb
<1>3. v \in Version \cup {Nothing} /\ v # Foreign
  BY <1>2, CopiesAssumption DEF State
<1> HIDE DEF v, todo
<1>4. /\ dirs' = [dirs EXCEPT ![p].shown[k] = v]
      /\ cmd' = [cmd EXCEPT !.todo = todo]
      /\ UNCHANGED <<db, main, backups, reported>>
  BY DEF Activate, registry, v, todo
<1> DEFINE new == [dirs[p].shown EXCEPT ![k] = v]
<1>5. new \in Shown /\ new[k] = v /\ \A j \in Package : j # k => new[j] = dirs[p].shown[j]
  BY <1>2, <1>3 DEF Shown
<1>6. dirs' = [dirs EXCEPT ![p].shown = new]
  BY <1>2, <1>4, ReadableDb
<1> HIDE DEF new
<1>7. /\ dirs' \in [Path -> [shown: Shown, marker: Markers]]
      /\ dirs'[p].shown = new /\ dirs'[p].marker = dirs[p].marker
  BY <1>2, <1>5, <1>6, ReadableDb
<1>8. /\ cmd' \in Commands /\ cmd'.step = "activate" /\ cmd'.kind = cmd.kind
      /\ cmd'.path = p /\ cmd'.id = cmd.id /\ cmd'.desired = cmd.desired /\ cmd'.todo = todo
  BY <1>1, <1>2, <1>4 DEF Commands
<1>9. (CopiesTypeOK)'
  BY <1>4, <1>7, <1>8 DEF CopiesInv, CopiesTypeOK
<1>10. OpenFits'
  BY <1>1, <1>4, <1>8 DEF CopiesInv, OpenFits, Readable
<1>11. CommitFits'
  BY <1>1, <1>4, <1>8 DEF CopiesInv, CommitFits, Known
<1>12. TodoFits'
  <2>1. \A j \in cmd.todo : j \in Package /\ dirs[p].shown[j] # Foreign
    BY <1>1, WhatRuns DEF CopiesInv, TodoFits
  <2>2. \A j \in todo : new[j] # Foreign
    BY <1>5, <2>1 DEF todo
  <2>3. \A j \in Package : cmd.desired[j] # Nothing /\ dirs[p].shown[j] # cmd.desired[j] =>
          j \in cmd.todo
    BY <1>1 DEF CopiesInv, TodoFits, Unshown
  <2>4. \A j \in Package : cmd.desired[j] # Nothing /\ new[j] # cmd.desired[j] => j \in todo
    BY <1>5, <2>3 DEF todo, v
  <2> QED BY <1>7, <1>8, <2>2, <2>4 DEF TodoFits, Unshown
<1>13. ReportFits'
  BY <1>2, <1>4 DEF ReportFits
<1> QED BY <1>9, <1>10, <1>11, <1>12, <1>13 DEF CopiesInv

(* A marker is written from the registry row of the target.                *)
LEMMA MarkerWritten ==
  ASSUME CopiesInv, cmd \in Commands, cmd.step \in {"activate", "marker"}, WriteMarker
  PROVE  LET written == [id |-> cmd.id, gen |-> db.target[cmd.id].gen, state |-> cmd.desired] IN
         /\ cmd.path \in Path /\ cmd.id \in TargetId
         /\ dirs' \in [Path -> [shown: Shown, marker: Markers]]
         /\ \A p \in Path : dirs'[p].shown = dirs[p].shown
         /\ dirs'[cmd.path].marker = written
<1> DEFINE written == [id |-> cmd.id, gen |-> db.target[cmd.id].gen, state |-> cmd.desired]
<1>1. cmd.path \in Path /\ cmd.desired \in State
  BY WhatRuns
<1>2. Readable /\ cmd.id \in DOMAIN db.target /\ db.target[cmd.id].gen >= 1
  BY DEF CopiesInv, OpenFits, CommitFits, Known
<1>3. cmd.id \in TargetId /\ db.target[cmd.id].gen \in 0..MaxGeneration
  BY <1>2, ReadableDb, WholeImage
<1>4. db.target[cmd.id].gen \in 1..MaxGeneration
  BY <1>2, <1>3, CopiesAssumption
<1>5. written \in Markers
  BY <1>1, <1>3, <1>4 DEF Markers
<1>6. dirs' = [dirs EXCEPT ![cmd.path].marker = written]
  BY DEF WriteMarker
<1> HIDE DEF written
<1>7. /\ dirs' \in [Path -> [shown: Shown, marker: Markers]]
      /\ \A p \in Path : dirs'[p].shown = dirs[p].shown
      /\ dirs'[cmd.path].marker = written
  BY <1>1, <1>5, <1>6, ReadableDb
<1> QED BY <1>1, <1>3, <1>7 DEF written

(* A change writes its marker when nothing is left to activate.            *)
LEMMA MarkChangeStep ==
  ASSUME CopiesInv, MarkChange
  PROVE  CopiesInv'
<1>1. cmd \in Commands /\ cmd.step = "activate" /\ cmd.todo = {} /\ cmd.kind # "sync"
  BY WhatRuns DEF MarkChange, At, Steps
<1>2. WriteMarker /\ Goto("finish") /\ UNCHANGED <<db, main, backups, reported>>
  BY DEF MarkChange, registry
<1>3. /\ cmd.path \in Path
      /\ dirs' \in [Path -> [shown: Shown, marker: Markers]]
      /\ \A p \in Path : dirs'[p].shown = dirs[p].shown
      /\ dirs'[cmd.path].marker =
           [id |-> cmd.id, gen |-> db.target[cmd.id].gen, state |-> cmd.desired]
  BY <1>1, <1>2, MarkerWritten
<1>4. /\ cmd' \in Commands /\ cmd'.step = "finish" /\ cmd'.kind = cmd.kind
      /\ cmd'.path = cmd.path /\ cmd'.id = cmd.id /\ cmd'.desired = cmd.desired
      /\ cmd'.todo = cmd.todo
  BY <1>1, <1>2, Stepped DEF Steps
<1>5. (CopiesTypeOK)'
  BY <1>2, <1>3, <1>4 DEF CopiesInv, CopiesTypeOK
<1>6. OpenFits'
  BY <1>1, <1>2, <1>4 DEF CopiesInv, OpenFits, Readable
<1>7. CommitFits'
  BY <1>1, <1>2, <1>4 DEF CopiesInv, CommitFits, Known
<1>8. TodoFits'
  <2>1. Unshown(cmd.path, cmd.desired) = {}
    BY <1>1 DEF CopiesInv, TodoFits
  <2> QED BY <1>1, <1>2, <1>3, <1>4, <2>1 DEF TodoFits, Unshown, Marker
<1>9. ReportFits'
  BY <1>1, <1>2, WhatRuns DEF ReportFits
<1> QED BY <1>5, <1>6, <1>7, <1>8, <1>9 DEF CopiesInv

(* A command that has done everything completes its row and succeeds.      *)
LEMMA FinishChangeStep ==
  ASSUME CopiesInv, FinishChange
  PROVE  CopiesInv' /\ Kept(db, db')
<1> DEFINE t == cmd.id
           p == cmd.path
<1>1. cmd \in Commands /\ cmd.step = "finish"
  BY WhatRuns DEF FinishChange, At, Steps
<1>2. /\ db' = Completed(db, t) /\ main' = db' /\ cmd' = Idle
      /\ reported' = [path |-> p, id |-> t] /\ UNCHANGED <<backups, dirs>>
  BY DEF FinishChange, Close, Report
<1>3. /\ Readable /\ db.schema = 1 /\ Whole(db) /\ db # NoFile /\ db # Torn
      /\ t \in DOMAIN db.target /\ db.target[t].gen >= 1 /\ db.target[t].state = cmd.desired
      /\ p \in DOMAIN db.location /\ db.location[p] = t
  BY <1>1, ReadableDb DEF CopiesInv, OpenFits, CommitFits, Known
<1>4. p \in Path /\ t \in TargetId
  BY <1>1, <1>3, WhatRuns, WholeImage
<1>5. /\ Unshown(p, cmd.desired) = {}
      /\ Marker(p) = [id |-> t, gen |-> db.target[t].gen, state |-> cmd.desired]
  BY <1>1 DEF CopiesInv, TodoFits
<1>6. /\ Kept(db, db') /\ db'.schema = 1 /\ db'.location = db.location
      /\ DOMAIN db'.pending = DOMAIN db.pending \ {t}
  BY <1>2, <1>3, RowCompleted
<1>7. Whole(db') /\ Readable' /\ t \in DOMAIN db'.target /\ db'.target[t] = db.target[t]
  BY <1>3, <1>6, ReadableImage DEF Kept, Readable
<1>8. reported' \in [path: Path, id: TargetId] /\ reported'.path = p /\ reported'.id = t
  BY <1>2, <1>4
<1>9. (CopiesTypeOK)'
  BY <1>2, <1>7, <1>8 DEF CopiesInv, CopiesTypeOK
<1>10. cmd' \notin Commands
  BY <1>2, WhatRuns
<1>11. ReportFits'
  BY <1>2, <1>3, <1>5, <1>6, <1>7, <1>8 DEF ReportFits, Known, Unshown, Marker
<1> QED BY <1>6, <1>9, <1>10, <1>11 DEF CopiesInv, OpenFits, CommitFits, TodoFits

(* A sync cleans up the row it finds and begins its own if it has work.    *)
LEMMA SweepStep ==
  ASSUME CopiesInv, Sweep
  PROVE  CopiesInv' /\ Kept(db, db')
<1> DEFINE t == cmd.id
           rows == IF cmd.todo = {} THEN Drop(db.pending, t) ELSE Put(db.pending, t, cmd.path)
           next == IF Occupied = {} THEN "activate" ELSE "refused"
<1>1. cmd \in Commands /\ cmd.step = "sweep"
  BY WhatRuns DEF Sweep, At, Steps
<1>2. /\ Readable /\ db.schema = 1 /\ Whole(db) /\ db # NoFile /\ db # Torn
      /\ t \in DOMAIN db.target /\ cmd.kind = "sync"
  BY <1>1, ReadableDb DEF CopiesInv, OpenFits, CommitFits, Known
<1>3. /\ cmd.path \in Path /\ t \in TargetId /\ reported = Idle
      /\ db.pending \in Table(TargetId, Path) /\ DOMAIN db.pending \subseteq DOMAIN db.target
  BY <1>1, <1>2, WhatRuns, WholeImage
<1>4. rows \in Table(TargetId, Path)
  BY <1>3, PutInTable, DropFromTable
<1>5. DOMAIN rows \subseteq DOMAIN db.target
  <2>1. DOMAIN Drop(db.pending, t) \subseteq DOMAIN db.pending
    BY DEF Drop, Restrict
  <2>2. DOMAIN Put(db.pending, t, cmd.path) = DOMAIN db.pending \cup {t}
    BY DEF Put
  <2> QED BY <1>2, <1>3, <2>1, <2>2
<1>6. db' = [db EXCEPT !.pending = rows] /\ Goto(next)
      /\ UNCHANGED <<main, backups, dirs, reported>>
  BY DEF Sweep
<1> HIDE DEF rows, next
<1>15. next \in {"activate", "refused"} /\ (next = "activate" => Occupied = {})
  BY DEF next
<1>7. /\ Kept(db, db') /\ db'.schema = 1 /\ db'.target = db.target
      /\ db'.location = db.location
  BY <1>2, <1>4, <1>5, <1>6, RowsChanged
<1>8. Whole(db') /\ Readable'
  BY <1>7, ReadableImage DEF Kept, Readable
<1>9. /\ cmd' \in Commands /\ cmd'.step = next /\ cmd'.kind = cmd.kind
      /\ cmd'.path = cmd.path /\ cmd'.id = t /\ cmd'.desired = cmd.desired
      /\ cmd'.todo = cmd.todo
  BY <1>1, <1>6, <1>15, Stepped DEF Steps
<1>10. (CopiesTypeOK)'
  BY <1>6, <1>8, <1>9 DEF CopiesInv, CopiesTypeOK
<1>11. OpenFits'
  BY <1>2, <1>15, <1>7, <1>8, <1>9 DEF OpenFits
<1>12. CommitFits'
  BY <1>1, <1>15, <1>7, <1>9 DEF CopiesInv, CommitFits, Known
<1>13. TodoFits'
  <2>1. next = "activate" => \A k \in cmd.todo : dirs[cmd.path].shown[k] # Foreign
    BY <1>1, <1>15 DEF CopiesInv, TodoFits
  <2>2. Unshown(cmd.path, cmd.desired) \subseteq cmd.todo
    BY <1>1 DEF CopiesInv, TodoFits
  <2> QED BY <1>6, <1>15, <1>9, <2>1, <2>2 DEF TodoFits, Unshown
<1>14. ReportFits'
  BY <1>3, <1>6 DEF ReportFits
<1> QED BY <1>7, <1>10, <1>11, <1>12, <1>13, <1>14 DEF CopiesInv

(* A sync completes its row before it writes the marker.                   *)
LEMMA CompleteSyncStep ==
  ASSUME CopiesInv, CompleteSync
  PROVE  CopiesInv' /\ Kept(db, db')
<1> DEFINE t == cmd.id
<1>1. cmd \in Commands /\ cmd.step = "activate" /\ cmd.todo = {} /\ cmd.kind = "sync"
  BY WhatRuns DEF CompleteSync, At, Steps
<1>2. /\ db' = Completed(db, t) /\ Goto("marker")
      /\ UNCHANGED <<main, backups, dirs, reported>>
  BY DEF CompleteSync
<1>3. /\ Readable /\ db.schema = 1 /\ Whole(db) /\ db # NoFile /\ db # Torn
      /\ t \in DOMAIN db.target /\ db.target[t].gen >= 1 /\ db.target[t].state = cmd.desired
      /\ cmd.path \in DOMAIN db.location /\ db.location[cmd.path] = t
  BY <1>1, ReadableDb DEF CopiesInv, OpenFits, CommitFits, Known
<1>4. /\ Kept(db, db') /\ db'.schema = 1 /\ db'.location = db.location
      /\ DOMAIN db'.pending = DOMAIN db.pending \ {t}
  BY <1>2, <1>3, RowCompleted
<1>5. Whole(db') /\ Readable' /\ t \in DOMAIN db'.target /\ db'.target[t] = db.target[t]
  BY <1>3, <1>4, ReadableImage DEF Kept, Readable
<1>6. /\ cmd' \in Commands /\ cmd'.step = "marker" /\ cmd'.kind = cmd.kind
      /\ cmd'.path = cmd.path /\ cmd'.id = t /\ cmd'.desired = cmd.desired
      /\ cmd'.todo = cmd.todo
  BY <1>1, <1>2, Stepped DEF Steps
<1>7. (CopiesTypeOK)'
  BY <1>2, <1>5, <1>6 DEF CopiesInv, CopiesTypeOK
<1>8. OpenFits'
  BY <1>1, <1>4, <1>5, <1>6 DEF OpenFits
<1>9. CommitFits'
  BY <1>1, <1>3, <1>4, <1>5, <1>6 DEF CommitFits, Known
<1>10. TodoFits'
  <2>1. Unshown(cmd.path, cmd.desired) = {}
    BY <1>1 DEF CopiesInv, TodoFits
  <2> QED BY <1>1, <1>2, <1>6, <2>1 DEF TodoFits, Unshown
<1>11. ReportFits'
  BY <1>1, <1>2, WhatRuns DEF ReportFits
<1> QED BY <1>4, <1>7, <1>8, <1>9, <1>10, <1>11 DEF CopiesInv

(* A sync writes its marker last and succeeds.                             *)
LEMMA MarkSyncStep ==
  ASSUME CopiesInv, MarkSync
  PROVE  CopiesInv'
<1> DEFINE t == cmd.id
           p == cmd.path
<1>1. cmd \in Commands /\ cmd.step = "marker"
  BY WhatRuns DEF MarkSync, At, Steps
<1>2. /\ WriteMarker /\ db' = db /\ main' = db' /\ cmd' = Idle
      /\ reported' = [path |-> p, id |-> t] /\ UNCHANGED backups
  BY DEF MarkSync, Close, Report
<1>3. /\ Readable /\ db.schema = 1 /\ Whole(db)
      /\ Known(t) /\ db.target[t].state = cmd.desired
      /\ p \in DOMAIN db.location /\ db.location[p] = t /\ t \notin DOMAIN db.pending
  BY <1>1, ReadableDb DEF CopiesInv, OpenFits, CommitFits
<1>4. /\ p \in Path /\ t \in TargetId
      /\ dirs' \in [Path -> [shown: Shown, marker: Markers]]
      /\ \A q \in Path : dirs'[q].shown = dirs[q].shown
      /\ dirs'[p].marker = [id |-> t, gen |-> db.target[t].gen, state |-> cmd.desired]
  BY <1>1, <1>2, MarkerWritten
<1>5. Unshown(p, cmd.desired) = {}
  BY <1>1 DEF CopiesInv, TodoFits
<1>6. reported' \in [path: Path, id: TargetId] /\ reported'.path = p /\ reported'.id = t
  BY <1>2, <1>4
<1>7. (CopiesTypeOK)'
  BY <1>2, <1>4, <1>6 DEF CopiesInv, CopiesTypeOK
<1>8. cmd' \notin Commands
  BY <1>2, WhatRuns
<1>9. ReportFits'
  BY <1>2, <1>3, <1>4, <1>5, <1>6 DEF ReportFits, Known, Unshown, Marker, Readable
<1> QED BY <1>7, <1>8, <1>9 DEF CopiesInv, OpenFits, CommitFits, TodoFits

----------------------------------------------------------------------------
(* Backups and restores: every image they handle is whole.                 *)
LEMMA RestoreStep ==
  ASSUME CopiesInv,
         CreateBackup \/ RemoveWal \/ CopyImage \/ \E b \in backups : StartRestore(b)
  PROVE  CopiesInv'
<1>1. CASE CreateBackup
  <2>1. /\ cmd = Idle /\ backups' = backups \cup {db}
        /\ UNCHANGED <<db, main, dirs, cmd, reported>>
    BY <1>1 DEF CreateBackup
  <2>2. (CopiesTypeOK)'
    BY <2>1 DEF CopiesInv, CopiesTypeOK
  <2>3. cmd' \notin Commands
    BY <2>1, WhatRuns
  <2>4. ReportFits'
    BY <2>1 DEF CopiesInv, ReportFits, Readable, Known, Unshown, Marker
  <2> QED BY <2>2, <2>3, <2>4 DEF CopiesInv, OpenFits, CommitFits, TodoFits
<1>2. CASE RemoveWal
  <2>1. cmd \in Restores /\ reported = Idle
    BY <1>2, WhatRuns DEF RemoveWal
  <2>2. db' = main /\ UNCHANGED <<main, backups, dirs, reported>>
    BY <1>2 DEF RemoveWal
  <2>3. cmd' = [cmd EXCEPT !.step = "copy"]
    BY <1>2 DEF RemoveWal, Goto
  <2>4. cmd' \in Restores /\ cmd'.kind = "restore"
    BY <2>1, <2>3 DEF Restores
  <2>5. (CopiesTypeOK)'
    BY <2>1, <2>2, <2>4 DEF CopiesInv, CopiesTypeOK, Restores
  <2>6. cmd' \notin Commands
    BY <2>4 DEF Commands
  <2> QED BY <2>1, <2>2, <2>5, <2>6
          DEF CopiesInv, OpenFits, CommitFits, TodoFits, ReportFits
<1>3. CASE CopyImage
  <2>1. cmd \in Restores /\ cmd # Idle
    BY <1>3, WhatRuns DEF CopyImage, Restores, Idle
  <2>2. Whole(db') /\ Close /\ UNCHANGED <<backups, dirs, reported>>
    BY <1>3, <2>1, ReadableDb DEF CopyImage, Restores
  <2> QED BY <2>1, <2>2, Ends
<1>4. ASSUME NEW b \in backups, StartRestore(b)
      PROVE  CopiesInv'
  <2>1. /\ cmd' = [kind |-> "restore", step |-> "wipe", image |-> b] /\ reported' = Idle
        /\ UNCHANGED <<db, main, backups, dirs>>
    BY <1>4 DEF StartRestore, registry
  <2>2. cmd' \in Restores /\ cmd'.kind = "restore"
    BY <2>1 DEF Restores
  <2>3. (CopiesTypeOK)'
    BY <2>1, <2>2 DEF CopiesInv, CopiesTypeOK, Restores
  <2>4. cmd' \notin Commands
    BY <2>2 DEF Commands
  <2> QED BY <2>1, <2>3, <2>4 DEF CopiesInv, OpenFits, CommitFits, TodoFits, ReportFits
<1> QED BY <1>1, <1>2, <1>3, <1>4

(* A crash leaves a main file that is old, new or torn.                    *)
LEMMA CrashStep ==
  ASSUME CopiesInv, Crash
  PROVE  CopiesInv'
<1>1. cmd # Idle /\ cmd' = Idle /\ UNCHANGED <<db, backups, dirs, reported>>
  BY DEF Crash
<1>2. main' \in {main, db, Torn}
  BY DEF Crash
<1>3. reported = Idle
  BY <1>1 DEF CopiesInv, ReportFits
<1>4. Whole(main')
  BY <1>2, ReadableDb
<1>5. (CopiesTypeOK)'
  BY <1>1, <1>3, <1>4 DEF CopiesInv, CopiesTypeOK
<1> QED BY <1>1, <1>3, <1>5, Quiet

(* Directories copied and edited, markers and registries lost.             *)
LEMMA UserStep ==
  ASSUME CopiesInv,
         \/ \E p \in Path, q \in Path : CopyDirectory(p, q)
         \/ \E p \in Path, k \in Package, c \in {Nothing, Foreign} : Edit(p, k, c)
         \/ \E p \in Path : LoseMarker(p)
         \/ LoseRegistry
  PROVE  CopiesInv'
<1>1. ASSUME NEW p \in Path, NEW q \in Path, CopyDirectory(p, q)
      PROVE  CopiesInv'
  <2>1. /\ UserAct /\ db' = db /\ main' = main
        /\ dirs' \in [Path -> [shown: Shown, marker: Markers]]
    BY <1>1, ReadableDb DEF CopyDirectory
  <2> QED BY <2>1, ReadableDb, UserActs
<1>2. ASSUME NEW p \in Path, NEW k \in Package, NEW c \in {Nothing, Foreign}, Edit(p, k, c)
      PROVE  CopiesInv'
  <2> DEFINE new == [dirs[p].shown EXCEPT ![k] = c]
  <2>1. new \in Shown
    BY ReadableDb DEF Shown
  <2>2. dirs' = [dirs EXCEPT ![p].shown = new]
    BY <1>2, ReadableDb DEF Edit
  <2> HIDE DEF new
  <2>3. UserAct /\ db' = db /\ main' = main
    BY <1>2 DEF Edit
  <2>4. dirs' \in [Path -> [shown: Shown, marker: Markers]]
    BY <2>1, <2>2, ReadableDb
  <2> QED BY <2>3, <2>4, ReadableDb, UserActs
<1>3. ASSUME NEW p \in Path, LoseMarker(p)
      PROVE  CopiesInv'
  <2>1. /\ UserAct /\ db' = db /\ main' = main
        /\ dirs' = [dirs EXCEPT ![p].marker = NoMarker]
    BY <1>3 DEF LoseMarker
  <2>2. NoMarker \in Markers
    BY DEF Markers
  <2>3. dirs' \in [Path -> [shown: Shown, marker: Markers]]
    BY <2>1, <2>2, ReadableDb
  <2> QED BY <2>1, <2>3, ReadableDb, UserActs
<1>4. CASE LoseRegistry
  <2>1. UserAct /\ db' = NoFile /\ main' = NoFile /\ dirs' = dirs
    BY <1>4 DEF LoseRegistry
  <2> QED BY <2>1, ReadableDb, UserActs
<1> QED BY <1>1, <1>2, <1>3, <1>4

(* Every step preserves the invariant.                                     *)
LEMMA CopiesStep == CopiesInv /\ [Next]_vars => CopiesInv'
<1> SUFFICES ASSUME CopiesInv, [Next]_vars PROVE CopiesInv'
  OBVIOUS
<1>1. CASE UNCHANGED vars
  <2>1. UNCHANGED <<db, main, backups, dirs, cmd, reported>>
    BY <1>1 DEF vars, registry
  <2>2. (CopiesTypeOK)'
    BY <2>1 DEF CopiesInv, CopiesTypeOK, Restores
  <2>3. OpenFits'
    BY <2>1 DEF CopiesInv, OpenFits, TargetIdsAt, Marker, Readable
  <2>4. CommitFits' /\ TodoFits'
    BY <2>1 DEF CopiesInv, CommitFits, TodoFits, Known, Marker, Unshown, Occupied, SyncBaseline
  <2>5. ReportFits'
    BY <2>1 DEF CopiesInv, ReportFits, Readable, Known, Unshown, Marker
  <2> QED BY <2>2, <2>3, <2>4, <2>5 DEF CopiesInv
<1>2. CASE \E p \in Path : Starts(p)
  BY <1>2, StartsStep
<1>3. CASE OpenFresh \/ OpenCurrent \/ OpenOld \/ MigrateZeroToOne
  BY <1>3, OpenStep
<1>4. CASE Refuse \/ SweepElsewhere \/ Fail
  BY <1>4, EndStep
<1>5. CASE Decides
  <2>1. CASE RepairDrift
    BY <2>1, RepairDriftStep
  <2>2. CASE DecideSync
    BY <2>2, DecideSyncStep
  <2>3. ASSUME NEW s \in State,
               \/ DecideChange(s) \/ DecideRecover(s)
               \/ \E t \in TargetId : DecideInstall(t, s) \/ DecideFork(t, s)
        PROVE  CopiesInv'
    BY <2>3, ProposeStep
  <2> QED BY <1>5, <2>1, <2>2, <2>3 DEF Decides
<1>6. CASE Commit \/ GiveUp \/ \E k \in Package : Activate(k)
  BY <1>6, CommitStep, GiveUpStep, ActivateStep
<1>7. CASE MarkChange \/ FinishChange \/ Sweep \/ CompleteSync \/ MarkSync
  BY <1>7, MarkChangeStep, FinishChangeStep, SweepStep, CompleteSyncStep, MarkSyncStep
<1>8. CASE CreateBackup \/ RemoveWal \/ CopyImage \/ \E b \in backups : StartRestore(b)
  BY <1>8, RestoreStep
<1>9. CASE Crash
  BY <1>9, CrashStep
<1>10. CASE \/ \E p \in Path, q \in Path : p # q /\ CopyDirectory(p, q)
            \/ \E p \in Path, k \in Package, c \in {Nothing, Foreign} :
                 dirs[p].shown[k] # c /\ Edit(p, k, c)
            \/ \E p \in Path : Marker(p) # NoMarker /\ LoseMarker(p)
            \/ db # NoFile /\ LoseRegistry
  BY <1>10, UserStep
<1> QED BY <1>1, <1>2, <1>3, <1>4, <1>5, <1>6, <1>7, <1>8, <1>9, <1>10 DEF Next

(* The inductive invariant holds throughout, for any numbers of paths,     *)
(* targets, packages, versions, generations and mishaps.                   *)
THEOREM CopiesInvariant == Spec => []CopiesInv
<1> QED BY CopiesInit, CopiesStep, PTL DEF Spec

(* Every image the machine may come to open is whole: a location belongs   *)
(* to an accepted target and a row to a target, whatever crashes, old      *)
(* schemas, backups and restores went before (prepareMachineRegistry,      *)
(* restoreRegistryBackup, completePendingOperation).                       *)
THEOREM ImagesStayWhole == Spec => []TypeOK
<1> QED BY CopiesInvariant, CopiesTyped, PTL

----------------------------------------------------------------------------
(* A registry that opens keeps what it holds when it does not change, and  *)
(* when it is migrated.                                                    *)
LEMMA OpenKeeps ==
  ASSUME CopiesInv, Readable, db' = db \/ MigrateZeroToOne
  PROVE  Kept(db, db')
<1>1. Whole(db) /\ db # NoFile /\ db # Torn /\ db \in Image
  BY ReadableDb, WholeImage
<1>2. CASE db' = db
  BY <1>1, <1>2 DEF Kept
<1>3. CASE MigrateZeroToOne
  BY <1>1, <1>3, SchemaChanged DEF MigrateZeroToOne
<1> QED BY <1>2, <1>3

(* The steps of a command that write to a registry that opens.             *)
LEMMA RegistryWrites ==
  ASSUME CopiesInv, Next, cmd # Idle, cmd.kind # "restore", Readable
  PROVE  \/ db' = db \/ MigrateZeroToOne
         \/ \E s \in State :
              \/ DecideChange(s) \/ DecideRecover(s)
              \/ \E t \in TargetId : DecideInstall(t, s) \/ DecideFork(t, s)
         \/ DecideSync \/ Commit \/ GiveUp \/ FinishChange \/ Sweep \/ CompleteSync
<1>1. ~OpenFresh
  BY ReadableDb DEF OpenFresh, Uninitialised
<1>2. ~RemoveWal /\ ~CopyImage
  BY WhatRuns DEF RemoveWal, CopyImage, Restores
<1>3. /\ \A p \in Path : ~Starts(p)
      /\ ~CreateBackup /\ ~UserAct /\ \A b \in backups : ~StartRestore(b)
  BY DEF Starts, StartInstall, StartChange, StartSync, StartRepair, StartRecover, StartFork,
         Start, CreateBackup, UserAct, StartRestore
<1>4. OpenCurrent \/ OpenOld \/ Refuse \/ RepairDrift \/ MarkChange \/ SweepElsewhere
        \/ MarkSync \/ Crash \/ Fail \/ (\E k \in Package : Activate(k)) => db' = db
  BY DEF OpenCurrent, OpenOld, Refuse, RepairDrift, MarkChange, SweepElsewhere, MarkSync,
         Crash, Fail, Activate, registry
<1> QED BY <1>1, <1>2, <1>3, <1>4
        DEF Next, Decides, CopyDirectory, Edit, LoseMarker, LoseRegistry

(* The steps of a command that write to directories.                       *)
LEMMA DirectoryWrites ==
  ASSUME CopiesInv, Next, cmd # Idle
  PROVE  dirs' = dirs \/ RepairDrift \/ MarkChange \/ MarkSync \/ \E j \in Package : Activate(j)
<1>1. /\ \A q \in Path : ~Starts(q)
      /\ ~CreateBackup /\ ~UserAct /\ \A b \in backups : ~StartRestore(b)
  BY DEF Starts, StartInstall, StartChange, StartSync, StartRepair, StartRecover, StartFork,
         Start, CreateBackup, UserAct, StartRestore
<1>2. OpenFresh \/ OpenCurrent \/ OpenOld \/ MigrateZeroToOne \/ Refuse \/ Commit \/ GiveUp
        \/ FinishChange \/ Sweep \/ SweepElsewhere \/ CompleteSync \/ RemoveWal \/ CopyImage
        \/ Crash \/ Fail => dirs' = dirs
  BY DEF OpenFresh, OpenCurrent, OpenOld, MigrateZeroToOne, Refuse, Commit, GiveUp,
         FinishChange, Sweep, SweepElsewhere, CompleteSync, RemoveWal, CopyImage, Crash, Fail
<1>3. Decides => dirs' = dirs \/ RepairDrift
  BY DEF Decides, DecideChange, DecideRecover, DecideInstall, DecideFork, DecideSync, Propose
<1> QED BY <1>1, <1>2, <1>3 DEF Next, CopyDirectory, Edit, LoseMarker, LoseRegistry

(* A step of a command keeps each accepted row or counts it up.            *)
LEMMA AcceptedStep ==
  ASSUME CopiesInv, Next, cmd # Idle, cmd.kind # "restore", Readable
  PROVE  /\ Readable'
         /\ \A t \in DOMAIN db.target :
              db.target[t].gen >= 1 =>
                /\ t \in DOMAIN db'.target
                /\ \/ db'.target[t] = db.target[t]
                   \/ Commit /\ t = cmd.id /\ db'.target[t].gen = db.target[t].gen + 1
<1> DEFINE Goal ==
      /\ Readable'
      /\ \A t \in DOMAIN db.target :
           db.target[t].gen >= 1 =>
             /\ t \in DOMAIN db'.target
             /\ \/ db'.target[t] = db.target[t]
                \/ Commit /\ t = cmd.id /\ db'.target[t].gen = db.target[t].gen + 1
<1> SUFFICES Goal
  OBVIOUS
<1>1. Kept(db, db') => Goal
  BY ReadableImage DEF Kept, Readable
<1>2. CASE db' = db \/ MigrateZeroToOne
  BY <1>1, <1>2, OpenKeeps
<1>3. CASE \E s \in State :
             \/ DecideChange(s) \/ DecideRecover(s)
             \/ \E t \in TargetId : DecideInstall(t, s) \/ DecideFork(t, s)
  BY <1>1, <1>3, ProposeStep
<1>4. CASE DecideSync \/ GiveUp \/ FinishChange \/ Sweep \/ CompleteSync
  BY <1>1, <1>4, DecideSyncStep, GiveUpStep, FinishChangeStep, SweepStep, CompleteSyncStep
<1>5. CASE Commit
  <2>1. /\ Readable' /\ db'.target[cmd.id].gen = db.target[cmd.id].gen + 1
        /\ \A u \in DOMAIN db.target :
             u \in DOMAIN db'.target /\ (u # cmd.id => db'.target[u] = db.target[u])
    BY <1>5, CommitStep
  <2> QED BY <1>5, <2>1
<1> HIDE DEF Goal
<1> QED BY <1>2, <1>3, <1>4, <1>5, RegistryWrites

(* No command forgets what a target has accepted or takes it back: every   *)
(* step of one keeps each accepted row or counts it up (openRegistry,      *)
(* commitAcceptedState, completePendingOperation).                         *)
THEOREM AcceptedStays == Spec => AcceptedNeverLost
<1> DEFINE Step ==
      cmd # Idle /\ cmd.kind # "restore" /\ Readable =>
       /\ db'.kind = "image"
       /\ \A t \in DOMAIN db.target :
            db.target[t].gen >= 1 =>
              /\ t \in DOMAIN db'.target
              /\ \/ db'.target[t] = db.target[t]
                 \/ db'.target[t].gen = db.target[t].gen + 1
<1>1. CopiesInv /\ [Next]_vars => [Step]_vars
  <2> SUFFICES ASSUME CopiesInv, Next, cmd # Idle, cmd.kind # "restore", Readable
               PROVE  Step
    OBVIOUS
  <2> QED BY AcceptedStep DEF Readable
<1>2. Spec => [][Step]_vars
  BY <1>1, CopiesInvariant, PTL DEF Spec
<1> QED BY <1>2 DEF AcceptedNeverLost

(* No command changes what the user put under a name, whatever copies,     *)
(* lost markers and older databases it meets; only repair replaces drift   *)
(* (preflightTargetOwnership, prepareRecoveryTarget).                      *)
THEOREM UsersKeepTheirContent == Spec => UserContentKept
<1> DEFINE Step ==
      \A p \in Path, k \in Package :
       /\ cmd # Idle
       /\ dirs[p].shown[k] = Foreign
       /\ cmd.kind # "repair"
       => dirs'[p].shown[k] = Foreign
<1>1. CopiesInv /\ [Next]_vars => [Step]_vars
  <2> SUFFICES ASSUME CopiesInv, Next, cmd # Idle, cmd.kind # "repair",
                      NEW p \in Path, NEW k \in Package, dirs[p].shown[k] = Foreign
               PROVE  dirs'[p].shown[k] = Foreign
    OBVIOUS
  <2>1. dirs' = dirs \/ MarkChange \/ MarkSync \/ \E j \in Package : Activate(j)
    BY DirectoryWrites DEF RepairDrift
  <2>2. CASE MarkChange \/ MarkSync
    <3>1. cmd \in Commands /\ cmd.step \in {"activate", "marker"} /\ WriteMarker
      BY <2>2, WhatRuns DEF MarkChange, MarkSync, At, Steps
    <3> QED BY <3>1, MarkerWritten
  <2>3. ASSUME NEW j \in Package, Activate(j)
        PROVE  dirs'[p].shown[k] = Foreign
    <3>1. cmd \in Commands /\ cmd.step = "activate" /\ j \in cmd.todo
      BY <2>3, WhatRuns DEF Activate, At, Steps
    <3>2. cmd.path \in Path /\ dirs[cmd.path].shown[j] # Foreign
      BY <3>1, WhatRuns DEF CopiesInv, TodoFits
    <3>3. p # cmd.path \/ k # j
      BY <3>2
    <3>4. dirs' = [dirs EXCEPT ![cmd.path].shown[j] = cmd.desired[j]]
      BY <2>3 DEF Activate
    <3>5. dirs[cmd.path].shown \in Shown /\ dirs \in [Path -> [shown: Shown, marker: Markers]]
      BY <3>2, ReadableDb
    <3> QED BY <3>2, <3>3, <3>4, <3>5 DEF Shown
  <2> QED BY <2>1, <2>2, <2>3
<1>2. Spec => [][Step]_vars
  BY <1>1, CopiesInvariant, PTL DEF Spec
<1> QED BY <1>2 DEF UserContentKept

----------------------------------------------------------------------------
(* The doctor that reads: values in range, and what its step tells.        *)
Looking ==
  [step: {"registry", "store", "projections", "marker"}, path: Path,
   id: TargetId \cup {Nothing}, target: TargetId \cup {Nothing},
   gen: 0..MaxGeneration, state: State, todo: SUBSET Package, clear: BOOLEAN,
   since: {"nothing", "commands", "others"}]

LookTyped ==
  /\ look = NoLook \/ look \in Looking
  /\ look \in Looking =>
       /\ look.todo \subseteq AcceptedPackages(look.state)
       /\ look.step # "projections" => look.todo = {}
       /\ look.clear => look.step = "marker"

(* The registry has been read, and only commands have written since.       *)
Overtaken == look \in Looking /\ look.step # "registry" /\ look.since # "others"

(* They may have moved the target on, but not back.                        *)
MovedOn ==
  Overtaken =>
    /\ Readable /\ Known(look.target) /\ look.path \in DOMAIN db.location
    /\ look.gen >= 1 /\ db.target[look.target].gen >= look.gen
    /\ db.target[look.target].gen = look.gen => db.target[look.target].state = look.state

(* What was found in the directory is still there.                         *)
StillShown ==
  /\ look.step \in {"projections", "marker"} =>
       \A k \in AcceptedPackages(look.state) \ look.todo :
         dirs[look.path].shown[k] = look.state[k]
  /\ look.clear =>
       \A k \in Package \ AcceptedPackages(look.state) : dirs[look.path].shown[k] = Nothing

(* It is, as long as the target has not moved on and the path is its,      *)
(* whether or not rows of pending operations have come and gone.           *)
Undone ==
  /\ Overtaken
  /\ db.target[look.target].gen = look.gen /\ db.location[look.path] = look.target
  => StillShown

(* Nothing was written since: the registry is as it was read.              *)
Unmoved == Overtaken /\ look.since = "nothing" => StillAsRead

(* Only a fork leaves another target, once it has decided to.              *)
Unsourced ==
  cmd \in Commands /\ cmd.step \in {"open", "migrate", "decide"} => cmd.source = Nothing

DoctorInv == CopiesInv /\ LookTyped /\ MovedOn /\ Undone /\ Unmoved /\ Unsourced

(* A doctor that does not read is not one that does.                       *)
LEMMA NotLooking == NoLook \notin Looking /\ NoLook.step = "none"
BY DEF NoLook, Looking

LEMMA DoctorBegins == DoctorInit => DoctorInv
<1> SUFFICES ASSUME DoctorInit PROVE DoctorInv
  OBVIOUS
<1>1. CopiesInv /\ look = NoLook /\ cmd = Idle
  BY CopiesInit DEF DoctorInit, Init
<1>2. look \notin Looking /\ cmd \notin Commands
  BY <1>1, NotLooking, WhatRuns
<1> QED BY <1>1, <1>2 DEF DoctorInv, LookTyped, MovedOn, Undone, Unmoved, Overtaken, Unsourced

(* A read leaves the system alone.                                         *)
LEMMA LooksKeep ==
  ASSUME CopiesInv, Unsourced, Looks
  PROVE  /\ CopiesInv' /\ Unsourced'
         /\ UNCHANGED <<db, dirs, cmd, reported, mishaps>>
<1>1. CopiesInv'
  BY CopiesStep DEF Looks
<1>2. UNCHANGED <<db, dirs, cmd, reported, mishaps>>
  BY DEF Looks, vars, registry
<1> QED BY <1>1, <1>2 DEF Unsourced, Commands

(* A doctor at one of its reads is reading.                                *)
LEMMA AtRead ==
  ASSUME DoctorInv, NEW step \in {"registry", "store", "projections", "marker"}, Reads(step)
  PROVE  /\ look \in Looking /\ look.step = step
         /\ look.path \in Path /\ look.state \in State /\ look.todo \subseteq Package
         /\ look.todo \subseteq AcceptedPackages(look.state)
         /\ step # "projections" => look.todo = {}
         /\ look.clear => step = "marker"
<1>1. look \in Looking
  BY NotLooking DEF DoctorInv, LookTyped, Reads
<1> QED BY <1>1 DEF DoctorInv, LookTyped, Reads, Looking

(* The directory changes nothing of what the registry says, nor the read.  *)
LEMMA Rereads ==
  ASSUME DoctorInv, Looks, look \in Looking, look' \in Looking, LookTyped',
         look.step # "registry", look'.step # "registry",
         look'.path = look.path, look'.target = look.target, look'.gen = look.gen,
         look'.state = look.state, look'.since = look.since,
         (StillShown)' \/ ~Overtaken \/ db.target[look.target].gen # look.gen
           \/ db.location[look.path] # look.target
  PROVE  DoctorInv'
<1>1. CopiesInv' /\ Unsourced' /\ db' = db /\ dirs' = dirs
  BY LooksKeep DEF DoctorInv
<1>2. Overtaken' <=> Overtaken
  BY DEF Overtaken
<1>3. MovedOn'
  BY <1>1, <1>2 DEF DoctorInv, MovedOn, Readable, Known
<1>4. Undone'
  BY <1>1, <1>2 DEF Undone
<1>5. Unmoved'
  BY <1>1, <1>2 DEF DoctorInv, Unmoved, StillAsRead, RegistrySound, Readable, Known, LocationMatches
<1> QED BY <1>1, <1>3, <1>4, <1>5 DEF DoctorInv

(* The snapshot of the registry is of its moment.                          *)
LEMMA ReadRegistryKeeps ==
  ASSUME DoctorInv, ReadRegistry, look' # NoLook
  PROVE  DoctorInv'
<1> DEFINE p == look.path
           t == IF Readable THEN DoctorTarget(look.path, look.id) ELSE Nothing
<1>1. look \in Looking /\ look.step = "registry" /\ p \in Path /\ look.todo = {} /\ ~look.clear
  BY AtRead DEF ReadRegistry
<1>2. /\ RegistrySound(p, t) /\ Looks
      /\ look' = [look EXCEPT !.step = "store", !.target = t,
                              !.gen = db.target[t].gen, !.state = db.target[t].state]
  BY DEF ReadRegistry, Unwell
<1> HIDE DEF t
<1>3. CopiesInv' /\ Unsourced' /\ db' = db /\ dirs' = dirs
  BY <1>2, LooksKeep DEF DoctorInv
<1>4. /\ Readable /\ t \in DOMAIN db.target /\ p \in DOMAIN db.location /\ db.location[p] = t
  BY <1>2 DEF RegistrySound, Known, LocationMatches
<1>5. /\ t \in TargetId /\ db.target[t] \in Accepted
      /\ db.target[t].gen \in 0..MaxGeneration /\ db.target[t].state \in State
      /\ db.target[t].gen >= 1
  BY <1>4, ReadableDb, WholeImage, TableIs DEF DoctorInv, Accepted
<1>6. db.target[t] = [gen |-> db.target[t].gen, state |-> db.target[t].state]
  BY <1>5 DEF Accepted
<1>7. /\ look' \in Looking /\ look'.step = "store" /\ look'.path = p /\ look'.target = t
      /\ look'.gen = db.target[t].gen /\ look'.state = db.target[t].state
      /\ look'.todo = {} /\ ~look'.clear
  BY <1>1, <1>2, <1>5 DEF Looking
<1>8. LookTyped'
  BY <1>7 DEF LookTyped
<1>9. MovedOn'
  BY <1>3, <1>4, <1>5, <1>7 DEF MovedOn, Readable, Known
<1>10. Undone'
  BY <1>7 DEF Undone, StillShown
<1>11. Unmoved'
  BY <1>2, <1>3, <1>6, <1>7
     DEF Unmoved, StillAsRead, RegistrySound, Readable, Known, LocationMatches
<1> QED BY <1>3, <1>8, <1>9, <1>10, <1>11 DEF DoctorInv

(* Each read of doctor adds what it has found.                             *)
LEMMA DoctorStepKeeps ==
  ASSUME DoctorInv, DoctorStep
  PROVE  DoctorInv'
<1>1. Looks
  BY DEF DoctorStep, ReadMarker, ReadRegistry, ReadStore, VerifyProjection, ReadForeign,
         ReadMarkerAgain
<1>2. /\ CopiesInv' /\ Unsourced' /\ db' = db /\ dirs' = dirs
  BY <1>1, LooksKeep DEF DoctorInv
<1>3. ASSUME look' = NoLook
      PROVE  DoctorInv'
  BY <1>2, <1>3, NotLooking DEF DoctorInv, LookTyped, MovedOn, Undone, Unmoved, Overtaken
<1>4. ASSUME NEW p \in Path, ReadMarker(p)
      PROVE  DoctorInv'
  <2>1. Marker(p).id \in TargetId \cup {Nothing}
    BY ReadableDb DEF DoctorInv, Marker, Markers, NoMarker
  <2>2. look' = [step |-> "registry", path |-> p, id |-> Marker(p).id, target |-> Nothing,
                 gen |-> 0, state |-> NoState, todo |-> {}, clear |-> FALSE,
                 since |-> "nothing"]
    BY <1>4 DEF ReadMarker, NoLook
  <2>3. NoState \in State
    BY DEF NoState, State
  <2>4. look' \in Looking /\ look'.step = "registry" /\ look'.todo = {} /\ ~look'.clear
    BY <2>1, <2>2, <2>3, CopiesAssumption DEF Looking
  <2> QED BY <1>2, <2>4 DEF DoctorInv, LookTyped, MovedOn, Undone, Unmoved, Overtaken
<1>5. ASSUME NEW broken, ReadStore(broken), look' # NoLook
      PROVE  DoctorInv'
  <2> DEFINE todo == AcceptedPackages(look.state)
  <2>1. look \in Looking /\ look.step = "store" /\ ~look.clear
    BY <1>5, AtRead DEF ReadStore
  <2>2. look' = [look EXCEPT !.step = "projections", !.todo = todo]
    BY <1>5 DEF ReadStore, Unwell
  <2>3. todo \subseteq Package
    BY DEF AcceptedPackages
  <2> HIDE DEF todo
  <2>4. /\ look' \in Looking /\ look'.step = "projections" /\ look'.todo = todo /\ ~look'.clear
        /\ look'.path = look.path /\ look'.target = look.target /\ look'.gen = look.gen
        /\ look'.state = look.state /\ look'.since = look.since
    BY <2>1, <2>2, <2>3 DEF Looking
  <2>5. LookTyped' /\ (StillShown)'
    BY <2>4 DEF LookTyped, StillShown, todo, AcceptedPackages
  <2> QED BY <1>1, <2>1, <2>4, <2>5, Rereads
<1>6. ASSUME NEW k \in Package, VerifyProjection(k), look' # NoLook
      PROVE  DoctorInv'
  <2> DEFINE todo == look.todo \ {k}
  <2>1. /\ look \in Looking /\ look.step = "projections" /\ ~look.clear
        /\ look.todo \subseteq AcceptedPackages(look.state) /\ look.todo \subseteq Package
    BY <1>6, AtRead DEF VerifyProjection
  <2>2. look' = [look EXCEPT !.todo = todo] /\ dirs[look.path].shown[k] = look.state[k]
    BY <1>6 DEF VerifyProjection, Unwell
  <2>3. /\ look' \in Looking /\ look'.step = "projections" /\ look'.todo = todo /\ ~look'.clear
        /\ look'.path = look.path /\ look'.target = look.target /\ look'.gen = look.gen
        /\ look'.state = look.state /\ look'.since = look.since
    BY <2>1, <2>2 DEF Looking
  <2>4. LookTyped'
    BY <2>1, <2>3 DEF LookTyped, AcceptedPackages
  <2>5. StillShown => (StillShown)'
    BY <1>2, <2>1, <2>2, <2>3 DEF StillShown, AcceptedPackages
  <2>6. StillShown \/ ~Overtaken \/ db.target[look.target].gen # look.gen
          \/ db.location[look.path] # look.target
    BY DEF DoctorInv, Undone
  <2> QED BY <1>1, <2>1, <2>3, <2>4, <2>5, <2>6, Rereads
<1>7. ASSUME ReadForeign
      PROVE  DoctorInv'
  <2> DEFINE clear == ForeignEntries(look.path, look.state) = {}
  <2>1. look \in Looking /\ look.step = "projections" /\ look.todo = {}
    BY <1>7, AtRead DEF ReadForeign
  <2>2. look' = [look EXCEPT !.step = "marker", !.clear = clear]
    BY <1>7 DEF ReadForeign
  <2>3. /\ look' \in Looking /\ look'.step = "marker" /\ look'.todo = {} /\ look'.clear = clear
        /\ look'.path = look.path /\ look'.target = look.target /\ look'.gen = look.gen
        /\ look'.state = look.state /\ look'.since = look.since
    BY <2>1, <2>2 DEF Looking
  <2>4. LookTyped'
    BY <2>3 DEF LookTyped
  <2>5. StillShown => (StillShown)'
    BY <1>2, <2>1, <2>3 DEF StillShown, ForeignEntries, AcceptedPackages
  <2>6. StillShown \/ ~Overtaken \/ db.target[look.target].gen # look.gen
          \/ db.location[look.path] # look.target
    BY DEF DoctorInv, Undone
  <2> QED BY <1>1, <2>1, <2>3, <2>4, <2>5, <2>6, Rereads
<1>8. CASE look' # NoLook
  BY <1>4, <1>5, <1>6, <1>7, <1>8, ReadRegistryKeeps DEF DoctorStep, ReadMarkerAgain
<1> QED BY <1>3, <1>8
(* A command decides whether it leaves another target when it proposes.    *)
LEMMA SourceStep ==
  ASSUME CopiesInv, Unsourced, Next
  PROVE  Unsourced'
<1>1. ASSUME NEW p \in Path, Starts(p)
      PROVE  Unsourced'
  BY <1>1 DEF Starts, StartInstall, StartChange, StartSync, StartRepair, StartRecover, StartFork,
              Start, Running, Unsourced
<1>2. CASE OpenFresh \/ OpenCurrent \/ OpenOld \/ MigrateZeroToOne
  <2>1. cmd \in Commands /\ cmd.step \in {"open", "migrate"}
    BY <1>2, WhatRuns DEF OpenFresh, OpenCurrent, OpenOld, MigrateZeroToOne, At, Steps
  <2>2. \/ Goto("decide") \/ Goto("migrate")
    BY <1>2 DEF OpenFresh, OpenCurrent, OpenOld, MigrateZeroToOne
  <2> QED BY <2>1, <2>2, Stepped DEF Unsourced, Steps
<1>3. CASE RepairDrift
  <2>1. cmd \in Commands /\ cmd.step = "decide" /\ cmd' = [cmd EXCEPT !.kind = "sync"]
    BY <1>3, WhatRuns DEF RepairDrift, At, Steps
  <2>2. cmd'.source = cmd.source
    BY <2>1 DEF Commands
  <2> QED BY <2>1, <2>2 DEF Unsourced
<1>4. ASSUME cmd' = Idle \/ cmd' \in Restores' \/ cmd' = cmd
      PROVE  Unsourced'
  <2>1. Idle \notin Commands /\ \A c \in Restores' : c \notin Commands
    BY DEF Idle, Commands, Kinds, Restores
  <2> QED BY <1>4, <2>1 DEF Unsourced, Commands
<1>5. ASSUME NEW step \in {"sweep", "refused", "activate", "marker", "finish", "commit"},
             cmd' \in Commands => cmd'.step = step
      PROVE  Unsourced'
  BY <1>5 DEF Unsourced
<1>6. ASSUME NEW s \in State,
             \/ DecideChange(s) \/ DecideRecover(s)
             \/ \E t \in TargetId : DecideInstall(t, s) \/ DecideFork(t, s)
      PROVE  Unsourced'
  <2>1. cmd \in Commands
    BY <1>6, WhatRuns DEF DecideChange, DecideRecover, DecideInstall, DecideFork, At, Steps
  <2>2. cmd'.step = "commit"
    BY <1>6, <2>1 DEF DecideChange, DecideRecover, DecideInstall, DecideFork, Prepared, Commands
  <2> QED BY <1>5, <2>2
<1>7. CASE DecideSync \/ Commit \/ MarkChange \/ Sweep \/ CompleteSync
             \/ \E j \in Package : Activate(j)
  <2>1. cmd \in Commands /\ (Commit \/ MarkChange \/ Sweep \/ CompleteSync \/ DecideSync
                              \/ cmd.step = "activate")
    BY <1>7, WhatRuns DEF DecideSync, Commit, MarkChange, Sweep, CompleteSync, Activate, At, Steps
  <2>2. Unsourced' \/ cmd'.step \in {"sweep", "refused", "activate", "marker", "finish", "commit"}
    BY <1>7, <2>1 DEF DecideSync, Commit, MarkChange, Sweep, CompleteSync, Activate, Goto, Commands
  <2> QED BY <1>5, <2>2
<1>8. CASE Refuse \/ SweepElsewhere \/ GiveUp \/ FinishChange \/ MarkSync \/ Crash \/ Fail
             \/ RemoveWal \/ CopyImage \/ CreateBackup \/ (\E b \in backups : StartRestore(b))
             \/ UserAct
  <2>1. cmd' = Idle \/ cmd' = cmd \/ RemoveWal \/ \E b \in backups : StartRestore(b)
    BY <1>8 DEF Refuse, SweepElsewhere, GiveUp, FinishChange, MarkSync, Crash, Fail, CopyImage,
                CreateBackup, UserAct, Close
  <2>2. RemoveWal => cmd' \in Restores'
    BY WhatRuns DEF RemoveWal, Restores, Goto
  <2>3. ASSUME NEW b \in backups, StartRestore(b)
        PROVE  cmd' \in Restores'
    BY <2>3 DEF StartRestore, Restores, registry
  <2> QED BY <1>4, <2>1, <2>2, <2>3
<1> QED BY <1>1, <1>2, <1>3, <1>6, <1>7, <1>8
        DEF Next, Decides, CopyDirectory, Edit, LoseMarker, LoseRegistry

(* A registered path stays registered, and only a commit gives it to       *)
(* another target.                                                         *)
LEMMA LocationsStay ==
  ASSUME CopiesInv, Unsourced, Next, cmd # Idle, cmd.kind # "restore", Readable,
         NEW p \in DOMAIN db.location
  PROVE  /\ p \in DOMAIN db'.location
         /\ \/ db'.location[p] = db.location[p]
            \/ Commit /\ db'.location[p] = cmd.id
<1>1. db \in Image /\ db.location[p] \in TargetId
  BY ReadableDb, WholeImage, TableIs
<1>2. CASE db'.location = db.location
  BY <1>2
<1>3. CASE db' = db
  BY <1>3
<1>4. CASE MigrateZeroToOne
  <2>1. db' = [db EXCEPT !.schema = 1]
    BY <1>4 DEF MigrateZeroToOne
  <2> QED BY <1>1, <1>2, <2>1 DEF Image
<1>5. ASSUME NEW t, NEW q, BeginRow(t, q)
      PROVE  db'.location = db.location
  BY <1>1, <1>5 DEF BeginRow, Image
<1>6. CASE \E s \in State :
             \/ DecideChange(s) \/ DecideRecover(s)
             \/ \E t \in TargetId : DecideInstall(t, s) \/ DecideFork(t, s)
  <2>1. \E t, q : BeginRow(t, q)
    BY <1>6 DEF DecideChange, DecideRecover, DecideInstall, DecideFork, Propose
  <2> QED BY <1>2, <1>5, <2>1
<1>7. CASE GiveUp \/ FinishChange \/ CompleteSync
  <2>1. db' = Completed(db, cmd.id)
    BY <1>7 DEF GiveUp, FinishChange, CompleteSync
  <2>2. db'.location = db.location
    BY <1>1, <2>1 DEF Completed, Image
  <2> QED BY <1>2, <2>2
<1>8. CASE Sweep
  <2>1. db'.location = db.location
    BY <1>1, <1>8 DEF Sweep, Image
  <2> QED BY <1>2, <2>1
<1>9. CASE DecideSync
  <2>1. cmd \in Commands /\ cmd.source = Nothing
    BY <1>9, WhatRuns DEF DecideSync, At, Steps, Unsourced
  <2>2. p = cmd.path => db.location[p] = cmd.id
    BY <1>1, <1>9, <2>1, CopiesAssumption DEF DecideSync, LocationFree
  <2>3. db'.location = Put(db.location, cmd.path, cmd.id)
    BY <1>1, <1>9 DEF DecideSync, SyncedLocation, Image
  <2> QED BY <2>2, <2>3 DEF Put
<1>10. CASE Commit
  <2>1. db'.location = Put(db.location, cmd.path, cmd.id)
    BY <1>1, <1>10 DEF Commit, Image
  <2> QED BY <1>10, <2>1 DEF Put
<1> QED BY <1>3, <1>4, <1>6, <1>7, <1>8, <1>9, <1>10, RegistryWrites

(* A command that activates in a directory, or repairs its drift, leaves   *)
(* there what the owner of the path has accepted, and nothing under other  *)
(* names that was not there.                                               *)
LEMMA ShowsAccepted ==
  ASSUME CopiesInv, Next, cmd # Idle, NEW p \in Path, NEW k \in Package,
         dirs'[p].shown[k] # dirs[p].shown[k]
  PROVE  /\ p \in DOMAIN db.location /\ db.location[p] \in DOMAIN db.target
         /\ LET accepted == db.target[db.location[p]].state IN
            dirs'[p].shown[k] = accepted[k]
<1>1. dirs \in [Path -> [shown: Shown, marker: Markers]]
  BY ReadableDb
<1>2. CASE MarkChange \/ MarkSync
  <2>1. dirs' = [dirs EXCEPT ![cmd.path].marker =
                   [id |-> cmd.id, gen |-> db.target[cmd.id].gen, state |-> cmd.desired]]
    BY <1>2 DEF MarkChange, MarkSync, WriteMarker
  <2>2. dirs'[p].shown = dirs[p].shown
    BY <1>1, <2>1
  <2> QED BY <2>2
<1>3. CASE RepairDrift
  <2> DEFINE accepted == db.target[cmd.id].state
             new == [j \in Package |->
                       IF accepted[j] = Nothing \/ dirs[cmd.path].shown[j] = Nothing
                         THEN dirs[cmd.path].shown[j] ELSE accepted[j]]
  <2>1. cmd \in Commands /\ cmd.path \in Path /\ cmd.step = "decide" /\ Readable
    BY <1>3, WhatRuns DEF RepairDrift, At, Steps, CopiesInv, OpenFits
  <2>2. cmd.path \in DOMAIN db.location /\ db.location[cmd.path] = cmd.id
    BY <1>3 DEF RepairDrift
  <2>3. dirs' = [dirs EXCEPT ![cmd.path].shown = new]
    BY <1>1, <1>3, <2>1 DEF RepairDrift
  <2> HIDE DEF new
  <2>4. p = cmd.path /\ dirs'[p].shown = new
    BY <1>1, <2>1, <2>3
  <2>5. new[k] = accepted[k]
    BY <2>4 DEF new
  <2>6. db.location[p] \in DOMAIN db.target
    BY <2>1, <2>2, <2>4, ReadableDb, WholeImage
  <2> QED BY <2>2, <2>4, <2>5, <2>6
<1>4. ASSUME NEW j \in Package, Activate(j)
      PROVE  /\ p \in DOMAIN db.location /\ db.location[p] \in DOMAIN db.target
             /\ dirs'[p].shown[k] = db.target[db.location[p]].state[k]
  <2>1. cmd \in Commands /\ cmd.step = "activate" /\ cmd.path \in Path
    BY <1>4, WhatRuns DEF Activate, At, Steps
  <2>2. /\ Known(cmd.id) /\ db.target[cmd.id].state = cmd.desired
        /\ cmd.path \in DOMAIN db.location /\ db.location[cmd.path] = cmd.id
    BY <2>1 DEF CopiesInv, CommitFits
  <2>3. dirs' = [dirs EXCEPT ![cmd.path].shown[j] = cmd.desired[j]]
    BY <1>4 DEF Activate
  <2>4. dirs[cmd.path].shown \in Shown
    BY <1>1, <2>1
  <2>5. p = cmd.path /\ k = j /\ dirs'[p].shown[k] = cmd.desired[k]
    BY <1>1, <2>1, <2>3, <2>4 DEF Shown
  <2> QED BY <2>2, <2>5 DEF Known
<1> QED BY <1>2, <1>3, <1>4, DirectoryWrites

(* While doctor reads, commands do not undo what it has seen but by moving *)
(* the target on or the path to another.                                   *)
LEMMA OtherStepKeeps ==
  ASSUME DoctorInv, OtherStep
  PROVE  DoctorInv'
<1>1. /\ CopiesInv' /\ Unsourced' /\ Next /\ look' = Noticed
  BY CopiesStep, SourceStep DEF DoctorInv, OtherStep
<1>2. CASE ~Reading
  <2>1. look' = NoLook
    BY <1>1, <1>2 DEF Noticed, Reading
  <2> QED BY <1>1, <2>1, NotLooking
          DEF DoctorInv, LookTyped, MovedOn, Undone, Unmoved, Overtaken
<1>3. CASE Reading /\ UNCHANGED <<db, dirs>>
  <2>1. look' = look /\ db' = db /\ dirs' = dirs
    BY <1>1, <1>3 DEF Noticed
  <2>2. LookTyped'
    BY <2>1 DEF DoctorInv, LookTyped, Looking
  <2>3. MovedOn'
    BY <2>1 DEF DoctorInv, MovedOn, Overtaken, Readable, Known, Looking
  <2>4. Undone'
    BY <2>1 DEF DoctorInv, Undone, StillShown, Overtaken, Looking
  <2>5. Unmoved'
    BY <2>1 DEF DoctorInv, Unmoved, StillAsRead, RegistrySound, Readable, Known, LocationMatches,
                Overtaken, Looking
  <2> QED BY <1>1, <2>2, <2>3, <2>4, <2>5 DEF DoctorInv
<1>4. CASE Reading /\ ~UNCHANGED <<db, dirs>>
  <2> DEFINE since ==
        IF cmd = Idle \/ cmd.kind = "restore" \/ look.since = "others" THEN "others" ELSE "commands"
             t == look.target
             p == look.path
  <2>1. look \in Looking /\ look' = [look EXCEPT !.since = since]
    BY <1>1, <1>4 DEF DoctorInv, LookTyped, Reading, Noticed
  <2>2. /\ look' \in Looking /\ look'.since = since
        /\ look'.step = look.step /\ look'.path = p /\ look'.target = t /\ look'.gen = look.gen
        /\ look'.state = look.state /\ look'.todo = look.todo /\ look'.clear = look.clear
    BY <2>1 DEF Looking
  <2>3. LookTyped'
    BY <2>1, <2>2 DEF DoctorInv, LookTyped, AcceptedPackages
  <2>4. Unmoved'
    BY <2>2 DEF Unmoved
  <2>5. CASE ~Overtaken'
    BY <1>1, <2>3, <2>4, <2>5 DEF DoctorInv, MovedOn, Undone
  <2>6. CASE Overtaken'
    <3>1. /\ cmd # Idle /\ cmd.kind # "restore" /\ Overtaken
          /\ p \in Path /\ look.state \in State /\ look.gen \in 0..MaxGeneration
      BY <2>1, <2>2, <2>6 DEF Overtaken, Looking
    <3>2. /\ Readable /\ t \in DOMAIN db.target /\ p \in DOMAIN db.location
          /\ look.gen >= 1 /\ db.target[t].gen >= look.gen
          /\ db.target[t].gen = look.gen => db.target[t].state = look.state
      BY <3>1 DEF DoctorInv, MovedOn, Known
    <3>3. db.target[t].gen \in Nat
      <4>1. db.target[t].gen \in 0..MaxGeneration
        BY <3>2, ReadableDb, WholeImage DEF DoctorInv
      <4> QED BY <4>1, CopiesAssumption
    <3>4. look.gen \in Nat
      BY <3>1, CopiesAssumption
    <3>5. /\ Readable' /\ t \in DOMAIN db'.target
          /\ \/ db'.target[t] = db.target[t]
             \/ db'.target[t].gen = db.target[t].gen + 1
      BY <1>1, <3>1, <3>2, <3>3, <3>4, AcceptedStep DEF DoctorInv
    <3>6. Commit => db'.target[cmd.id].gen = db.target[cmd.id].gen + 1
      BY CommitStep DEF DoctorInv
    <3>7. /\ p \in DOMAIN db'.location
          /\ db'.location[p] = db.location[p] \/ (Commit /\ db'.location[p] = cmd.id)
      BY <1>1, <3>1, <3>2, LocationsStay DEF DoctorInv
    <3>8. MovedOn'
      BY <2>2, <3>2, <3>3, <3>4, <3>5, <3>7 DEF MovedOn, Known
    <3>9. Undone'
      <4> SUFFICES ASSUME db'.target[t].gen = look.gen, db'.location[p] = t
                   PROVE  (StillShown)'
        BY <2>2 DEF Undone
      <4>1. db'.target[t] = db.target[t] /\ db.target[t].gen = look.gen
        BY <3>2, <3>3, <3>4, <3>5
      <4>2. db.location[p] = t
        BY <3>3, <3>6, <3>7, <4>1
      <4>3. StillShown /\ db.target[t].state = look.state
        BY <3>1, <3>2, <4>1, <4>2 DEF DoctorInv, Undone
      <4>4. \A k \in Package : dirs'[p].shown[k] = dirs[p].shown[k]
                                 \/ dirs'[p].shown[k] = look.state[k]
        BY <1>1, <3>1, <4>2, <4>3, ShowsAccepted DEF DoctorInv
      <4>5. \A k \in Package \ AcceptedPackages(look.state) : look.state[k] = Nothing
        BY DEF AcceptedPackages
      <4> QED BY <2>2, <4>3, <4>4, <4>5 DEF StillShown, AcceptedPackages
    <3> QED BY <1>1, <2>3, <2>4, <3>8, <3>9 DEF DoctorInv
  <2> QED BY <2>5, <2>6
<1> QED BY <1>2, <1>3, <1>4

(* What commands do while doctor reads is what they do without it.         *)
THEOREM DoctorIsTransparent == DoctorSpec => Spec
<1>1. DoctorInit => Init
  BY DEF DoctorInit
<1>2. DoctorStep => UNCHANGED vars
  BY DEF DoctorStep, ReadMarker, ReadRegistry, ReadStore, VerifyProjection, ReadForeign,
         ReadMarkerAgain, Looks
<1>3. [DoctorNext]_doctorVars => [Next]_vars
  BY <1>2 DEF DoctorNext, OtherStep, doctorVars
<1> QED BY <1>1, <1>3, PTL DEF DoctorSpec, Spec

(* What a doctor has read stays true of what can still be as it was.       *)
LEMMA DoctorInvariant == DoctorSpec => []DoctorInv
<1>1. DoctorInv /\ UNCHANGED doctorVars => DoctorInv'
  <2> SUFFICES ASSUME DoctorInv, UNCHANGED doctorVars PROVE DoctorInv'
    OBVIOUS
  <2>1. UNCHANGED vars /\ look' = look
    BY DEF doctorVars
  <2>2. CopiesInv' /\ Unsourced' /\ db' = db /\ dirs' = dirs
    BY <2>1, LooksKeep DEF DoctorInv, Looks
  <2>3. LookTyped'
    BY <2>1 DEF DoctorInv, LookTyped, Looking
  <2>4. MovedOn'
    BY <2>1, <2>2 DEF DoctorInv, MovedOn, Overtaken, Readable, Known, Looking
  <2>5. Undone'
    BY <2>1, <2>2 DEF DoctorInv, Undone, StillShown, Overtaken, Looking
  <2>6. Unmoved'
    BY <2>1, <2>2 DEF DoctorInv, Unmoved, StillAsRead, RegistrySound, Readable, Known,
                      LocationMatches, Overtaken, Looking
  <2> QED BY <2>2, <2>3, <2>4, <2>5, <2>6 DEF DoctorInv
<1>2. DoctorInv /\ [DoctorNext]_doctorVars => DoctorInv'
  BY <1>1, DoctorStepKeeps, OtherStepKeeps DEF DoctorNext
<1> QED BY <1>2, DoctorBegins, PTL DEF DoctorSpec

(* A marker that is decided to be current is the target's, and of its      *)
(* generation.                                                             *)
LEMMA MarkerDecided ==
  ASSUME NEW t, NEW marker, NEW generation \in Nat, marker.gen \in Nat
  PROVE  RecoveryDecision(t, marker, generation) = "current" <=>
           marker # NoMarker /\ marker.id = t /\ marker.gen = generation
<1>1. GenerationStatus(marker, generation) = "current" <=>
        marker # NoMarker /\ marker.gen = generation
  BY DEF GenerationStatus
<1>2. GenerationStatus(marker, generation) \in
        {"missing-marker-repairable", "stale-behind", "ahead-anomaly", "current"}
  BY DEF GenerationStatus
<1> DEFINE status == GenerationStatus(marker, generation)
<1> HIDE DEF status
<1>3. RecoveryDecision(t, marker, generation) =
        IF marker # NoMarker /\ marker.id # t THEN "conflict"
        ELSE CASE status = "ahead-anomaly" -> "conflict"
               [] status = "stale-behind" -> "choice-required"
               [] status = "missing-marker-repairable" -> "repair-marker"
               [] OTHER -> "current"
  BY DEF RecoveryDecision, status
<1> QED BY <1>1, <1>2, <1>3 DEF status

(* A directory that agrees with the registry and its marker is settled.    *)
LEMMA AgreementSettles ==
  ASSUME CopiesInv, NEW p \in Path, NEW t, RegistrySound(p, t),
         Marker(p) # NoMarker, Marker(p).id = t, Marker(p).gen = db.target[t].gen,
         \A k \in AcceptedPackages(db.target[t].state) : dirs[p].shown[k] = db.target[t].state[k]
  PROVE  Settled(p, t)
<1> DEFINE accepted == db.target[t].state
           shown == dirs[p].shown
<1>1. /\ Readable /\ t \in DOMAIN db.target /\ p \in DOMAIN db.location /\ db.location[p] = t
  BY DEF RegistrySound, Known, LocationMatches
<1>2. db.target[t].gen \in Nat
  <2>1. db.target[t].gen \in 0..MaxGeneration
    BY <1>1, ReadableDb, WholeImage
  <2> QED BY <2>1, CopiesAssumption
<1>3. \A k \in Package : accepted[k] # Nothing => shown[k] = accepted[k]
  BY DEF AcceptedPackages
<1>4. TargetIdsAt(p) = {t}
  BY <1>1 DEF TargetIdsAt
<1>5. TargetAt(p) = t
  BY <1>4 DEF TargetAt
<1>6. CurrentCopy(p)
  BY <1>2, <1>5 DEF CurrentCopy
<1>7. SyncBaseline(p, t) = accepted
  BY <1>2 DEF SyncBaseline
<1>8. PreflightOk(accepted, accepted, shown) /\ Changes(accepted, accepted, shown) = {}
  BY <1>3 DEF PreflightOk, Changes
<1> QED BY <1>4, <1>6, <1>7, <1>8 DEF Settled

(* What a command that succeeded leaves is sound and decided current.      *)
LEMMA SuccessIsWell ==
  ASSUME DoctorInv, reported # Idle, reported.path = look.path, look \in Looking,
         look.since = "nothing"
  PROVE  /\ look.step = "registry" =>
              RegistrySound(look.path, IF Readable THEN DoctorTarget(look.path, look.id) ELSE Nothing)
         /\ look.step = "projections" =>
              \A k \in look.todo : dirs[look.path].shown[k] = look.state[k]
         /\ look.step = "marker" => SaysHealthy
<1> DEFINE p == look.path
           t == reported.id
<1>1. /\ Readable /\ db.schema = 1 /\ Known(t) /\ t \notin DOMAIN db.pending
      /\ p \in DOMAIN db.location /\ db.location[p] = t
      /\ Unshown(p, db.target[t].state) = {}
      /\ Marker(p) = [id |-> t, gen |-> db.target[t].gen, state |-> db.target[t].state]
      /\ t \in TargetId /\ p \in Path
  BY DEF DoctorInv, CopiesInv, CopiesTypeOK, ReportFits
<1> HIDE DEF t
<1>2. RegistrySound(p, t) /\ DoctorTarget(p, look.id) = t
  BY <1>1 DEF RegistrySound, LocationMatches, DoctorTarget
<1>3. ASSUME look.step # "registry"
      PROVE  look.target = t /\ db.target[t] = [gen |-> look.gen, state |-> look.state]
  BY <1>1, <1>3 DEF DoctorInv, Unmoved, Overtaken, StillAsRead, RegistrySound, LocationMatches
<1>4. ASSUME look.step = "projections", NEW k \in look.todo
      PROVE  dirs[p].shown[k] = look.state[k]
  <2>1. k \in Package /\ look.state[k] # Nothing
    BY <1>4 DEF DoctorInv, LookTyped, AcceptedPackages
  <2>2. db.target[t].state = look.state
    BY <1>3, <1>4
  <2> QED BY <1>1, <2>1, <2>2 DEF Unshown
<1>5. ASSUME look.step = "marker"
      PROVE  SaysHealthy
  <2>1. look.target = t /\ db.target[t].gen = look.gen
    BY <1>3, <1>5
  <2>2. Marker(p).id = t /\ Marker(p).gen = look.gen /\ Marker(p) # NoMarker
    BY <1>1, <2>1, CopiesAssumption DEF NoMarker
  <2>3. look.gen \in Nat
    <3>1. look.gen \in 0..MaxGeneration
      BY DEF Looking
    <3> QED BY <3>1, CopiesAssumption
  <2> QED BY <1>5, <2>1, <2>2, <2>3, MarkerDecided DEF SaysHealthy, Decided, Reads
<1> QED BY <1>1, <1>2, <1>4, <1>5

(* `skiloom doctor` reads without a lock, and commands take their steps    *)
(* between its reads.  A directory it calls healthy is settled, or the     *)
(* registry shows what has overtaken it; and where a command has just      *)
(* succeeded it finds nothing wrong (inspectDoctorTarget).                 *)
THEOREM DoctorStaysRight == DoctorSpec => DoctorIsRight
<1> DEFINE Right ==
      Reading /\ Looks =>
       /\ SaysHealthy /\ look.since # "others" /\ StillAsRead =>
            /\ Settled(look.path, look.target)
            /\ look.clear => dirs[look.path].shown = look.state
       /\ /\ reported # Idle /\ reported.path = look.path
          /\ look.since = "nothing"
          /\ look' = NoLook
          => Reads("store") \/ SaysHealthy
<1>1. DoctorInv /\ [DoctorNext]_doctorVars => [Right]_doctorVars
  <2> SUFFICES ASSUME DoctorInv, DoctorNext, Reading, Looks
               PROVE  Right
    OBVIOUS
  <2>1. look \in Looking
    BY DEF DoctorInv, LookTyped, Reading
  <2>2. ASSUME SaysHealthy, look.since # "others", StillAsRead
        PROVE  /\ Settled(look.path, look.target)
               /\ look.clear => dirs[look.path].shown = look.state
    <3> DEFINE p == look.path
               t == look.target
    <3>1. /\ look.step = "marker" /\ look.todo = {} /\ p \in Path /\ look.state \in State
      BY <2>2, AtRead DEF SaysHealthy
    <3>2. /\ RegistrySound(p, t) /\ db.location[p] = t
          /\ db.target[t].gen = look.gen /\ db.target[t].state = look.state
      BY <2>2 DEF StillAsRead, RegistrySound, LocationMatches
    <3>3. StillShown
      BY <2>1, <2>2, <3>1, <3>2 DEF DoctorInv, Undone, Overtaken
    <3>4. \A k \in AcceptedPackages(look.state) : dirs[p].shown[k] = look.state[k]
      BY <3>1, <3>3 DEF StillShown
    <3>5. look.gen \in Nat /\ Marker(p).gen \in Nat
      <4>1. look.gen \in 0..MaxGeneration
        BY <2>1 DEF Looking
      <4>2. Marker(p).gen \in 0..MaxGeneration
        BY <3>1, CopiesTyped DEF DoctorInv, TypeOK
      <4> QED BY <4>1, <4>2, CopiesAssumption
    <3>6. Marker(p) # NoMarker /\ Marker(p).id = t /\ Marker(p).gen = look.gen
      BY <2>2, <3>5, MarkerDecided DEF SaysHealthy, Decided
    <3>7. Settled(p, t)
      BY <3>1, <3>2, <3>4, <3>6, AgreementSettles DEF DoctorInv
    <3>8. look.clear => dirs[p].shown = look.state
      <4> SUFFICES ASSUME look.clear PROVE dirs[p].shown = look.state
        OBVIOUS
      <4>1. \A k \in Package : dirs[p].shown[k] = look.state[k]
        BY <3>3, <3>4 DEF StillShown, AcceptedPackages
      <4>2. dirs[p].shown \in Shown
        BY <3>1, ReadableDb DEF DoctorInv
      <4> QED BY <3>1, <4>1, <4>2 DEF State, Shown
    <3> QED BY <3>7, <3>8
  <2>3. ASSUME reported # Idle, reported.path = look.path, look.since = "nothing", look' = NoLook
        PROVE  Reads("store") \/ SaysHealthy
    <3>1. CASE OtherStep
      <4>1. look' = look
        BY <3>1 DEF OtherStep, Noticed, Looks, vars, registry
      <4> QED BY <2>3, <4>1 DEF Reading
    <3>2. CASE DoctorStep
      <4>1. CASE ReadRegistry
        <5> DEFINE t == IF Readable THEN DoctorTarget(look.path, look.id) ELSE Nothing
        <5>1. look.step = "registry"
          BY <4>1 DEF ReadRegistry, Reads
        <5>2. look' # NoLook
          <6>1. look' = [look EXCEPT !.step = "store", !.target = t,
                                     !.gen = db.target[t].gen, !.state = db.target[t].state]
            BY <2>1, <2>3, <4>1, <5>1, SuccessIsWell DEF ReadRegistry
          <6>2. look'.step = "store"
            BY <2>1, <6>1 DEF Looking
          <6> QED BY <6>2, NotLooking
        <5> QED BY <2>3, <5>2
      <4>2. ASSUME NEW k \in Package, VerifyProjection(k)
            PROVE  FALSE
        <5>1. look.step = "projections" /\ k \in look.todo
          BY <4>2 DEF VerifyProjection, Reads
        <5>2. look' = [look EXCEPT !.todo = @ \ {k}]
          BY <2>1, <2>3, <4>2, <5>1, SuccessIsWell DEF VerifyProjection
        <5>3. look'.step = "projections"
          BY <2>1, <5>1, <5>2 DEF Looking
        <5> QED BY <2>3, <5>3, NotLooking
      <4>3. ~ReadForeign
        <5>1. ReadForeign => look'.step = "marker"
          BY <2>1 DEF ReadForeign, Looking
        <5> QED BY <2>3, <5>1, NotLooking
      <4>4. CASE ReadMarkerAgain
        BY <2>1, <2>3, <4>4, SuccessIsWell DEF ReadMarkerAgain, Reads
      <4> QED BY <3>2, <4>1, <4>2, <4>3, <4>4 DEF DoctorStep, ReadMarker, ReadStore
    <3> QED BY <3>1, <3>2 DEF DoctorNext
  <2> QED BY <2>2, <2>3
<1>2. DoctorSpec => [][Right]_doctorVars
  BY <1>1, DoctorInvariant, PTL DEF DoctorSpec
<1> QED BY <1>2 DEF DoctorIsRight
=============================================================================
