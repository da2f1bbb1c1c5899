------------------------- MODULE CapturedWritesProofs -------------------------
(***************************************************************************)
(* Why the tables can be made again from the archive's records, for any    *)
(* modules, accounts, items and sequence of writes.  The tables and the    *)
(* records agree key by key, but for memberships that were ever removed;   *)
(* every write changes the two alike, and what a bundle has pinned agrees  *)
(* with the tables of that moment.                                         *)
(*                                                                         *)
(* The sections after are about the tables themselves, ResultWindows: the  *)
(* index pages that windows of rows are served from list the captures as   *)
(* they are, and a table at rest shows the rows of the database.           *)
(***************************************************************************)
EXTENDS CapturedWrites, ResultWindows, FiniteSetTheorems, SequenceTheorems, FunctionTheorems,
        WellFoundedInduction, TLAPS

\* The shape of the tables and of the records.
Tables(t) == t = [entities |-> t.entities, captures |-> t.captures, edges |-> t.edges]

Records(s) ==
  \A k \in DOMAIN s :
    /\ \/ k = EntityKey(k.kind, k.id) /\ s[k].entity = Entity(k.kind, k.id)
       \/ /\ k = MembershipKey(k.kind, k.id, k.ext)
          /\ k.kind \in {"tweet", "user", "media_reference"}
       \/ k = EdgeKey(k.id, k.ext)
       \/ k = TombstoneKey(k.kind, k.id, k.ext) /\ k.kind \in {"tweet", "user"}
    /\ s[k].by = Owner

\* What a row of the tables holds, and the kind its record has.
Captured(r) ==
  IF KindOf[r.ext] = "custom" THEN Capture("custom", DataKey[r.id])
                              ELSE Capture(KindOf[r.ext], r.id)

KindOfRow(r) == IF KindOf[r.ext] = "custom" THEN "media_reference" ELSE KindOf[r.ext]

RowsAgree(t, s) ==
  /\ \A r \in DOMAIN t.captures :
       /\ r = CaptureRow(r.ext, r.id) /\ KindOf[r.ext] \in {"tweet", "user", "custom"}
       /\ t.captures[r] = Captured(r)
       /\ MembershipKey(KindOfRow(r), t.captures[r].key, r.ext) \in DOMAIN s
  /\ \A k \in DOMAIN s :
       k.of = "membership" /\ TombstoneKey(k.kind, k.id, k.ext) \notin DOMAIN s =>
         \E r \in DOMAIN t.captures :
           r.ext = k.ext /\ KindOfRow(r) = k.kind /\ t.captures[r].key = k.id

EntitiesAgree(t, s) ==
  /\ \A e \in DOMAIN t.entities :
       /\ e = Entity(e.kind, e.id) /\ EntityKey(e.kind, e.id) \in DOMAIN s
       /\ s[EntityKey(e.kind, e.id)].rev = t.entities[e]
  /\ \A k \in DOMAIN s : k.of = "entity" => Entity(k.kind, k.id) \in DOMAIN t.entities

EdgesAgree(t, s) ==
  /\ \A x \in t.edges : x = [ext |-> x.ext, edge |-> x.edge] /\ EdgeKey(x.edge, x.ext) \in DOMAIN s
  /\ \A k \in DOMAIN s : k.of = "edge" => [ext |-> k.ext, edge |-> k.id] \in t.edges

Agree(t, s) ==
  /\ Tables(t) /\ Records(s)
  /\ RowsAgree(t, s) /\ EntitiesAgree(t, s) /\ EdgesAgree(t, s)

\* What is read of a pinned record stays what was pinned.
BridgeAgrees ==
  /\ bridge = [at |-> bridge.at, items |-> bridge.items, read |-> bridge.read,
               captured |-> bridge.captured]
  /\ bridge.at \in {"none", "reading", "saved"}
  /\ bridge.at # "none" => Agree(bridge.captured, bridge.items)
  /\ DOMAIN bridge.read \subseteq DOMAIN bridge.items
  /\ bridge.read = [k \in DOMAIN bridge.read |-> bridge.items[k]]
  /\ bridge.items = [k \in DOMAIN bridge.items |-> bridge.items[k]]
  /\ bridge.at = "saved" => DOMAIN bridge.items \subseteq DOMAIN bridge.read

\* Of the signals only history.state may be another account's.
SignalsAgree ==
  /\ evidence = [c \in Classes |-> evidence[c]]
  /\ \A c \in Classes \ {"navigation_state"} : evidence[c] \in {viewer, NoViewer}

Restorable ==
  /\ Agree(tables, state)
  /\ state = [k \in DOMAIN state |-> state[k]]
  /\ BridgeAgrees
  /\ SignalsAgree

-----------------------------------------------------------------------------
LEMMA OverShape ==
  ASSUME NEW f, NEW g
  PROVE  Over(f, g) = [k \in DOMAIN Over(f, g) |-> Over(f, g)[k]]
  BY DEF Over

\* The state keys of different kinds of records differ.
LEMMA KeyFacts ==
  ASSUME NEW kind, NEW id, NEW ext
  PROVE  /\ EntityKey(kind, id).of = "entity" /\ EntityKey(kind, id).kind = kind
         /\ EntityKey(kind, id).id = id
         /\ MembershipKey(kind, id, ext).of = "membership"
         /\ MembershipKey(kind, id, ext).kind = kind /\ MembershipKey(kind, id, ext).id = id
         /\ MembershipKey(kind, id, ext).ext = ext
         /\ EdgeKey(id, ext).of = "edge" /\ EdgeKey(id, ext).id = id /\ EdgeKey(id, ext).ext = ext
         /\ TombstoneKey(kind, id, ext).of = "tombstone" /\ TombstoneKey(kind, id, ext).kind = kind
         /\ TombstoneKey(kind, id, ext).id = id /\ TombstoneKey(kind, id, ext).ext = ext
  BY DEF EntityKey, MembershipKey, EdgeKey, TombstoneKey

\* What is written may be written again: the records are written by the owner.
LEMMA RecordsOver ==
  ASSUME NEW m, NEW s, Records(m), Records(s)
  PROVE  Records(Over(m, s))
<1> PICK z : z = Over(m, s)
  OBVIOUS
<1>1. /\ DOMAIN z = DOMAIN m \union DOMAIN s
      /\ \A k \in DOMAIN m : z[k] = m[k]
      /\ \A k \in DOMAIN s \ DOMAIN m : z[k] = s[k]
  BY DEF Over
<1>2. \A k \in DOMAIN z : \/ k \in DOMAIN m /\ z[k] = m[k]
                          \/ k \in DOMAIN s /\ z[k] = s[k]
  BY <1>1
<1>3. Records(z)
  BY <1>2 DEF Records
<1> QED
  BY <1>3

\* The parts of a write that leaves the rows, the entities or the edges alone, ...
LEMMA RowsKept ==
  ASSUME NEW t, NEW s, NEW u, NEW m, RowsAgree(t, s), u.captures = t.captures,
         \A k \in DOMAIN m : k.of # "membership"
  PROVE  RowsAgree(u, Over(m, s))
<1> PICK z, c : z = Over(m, s) /\ c = t.captures
  OBVIOUS
<1>1. DOMAIN z = DOMAIN m \union DOMAIN s
  BY DEF Over
<1>2. \A k \in DOMAIN z : k.of = "membership" => k \in DOMAIN s
  BY <1>1
<1>3. ASSUME NEW r \in DOMAIN c
      PROVE  /\ r = CaptureRow(r.ext, r.id) /\ KindOf[r.ext] \in {"tweet", "user", "custom"}
             /\ c[r] = Captured(r)
             /\ MembershipKey(KindOfRow(r), c[r].key, r.ext) \in DOMAIN z
  BY <1>1, <1>3 DEF RowsAgree
<1>4. ASSUME NEW k \in DOMAIN z, k.of = "membership", TombstoneKey(k.kind, k.id, k.ext) \notin DOMAIN z
      PROVE  \E r \in DOMAIN c : r.ext = k.ext /\ KindOfRow(r) = k.kind /\ c[r].key = k.id
  BY <1>1, <1>2, <1>4 DEF RowsAgree
<1>5. u.captures = c
  OBVIOUS
<1>6. RowsAgree(u, z)
  BY <1>3, <1>4, <1>5 DEF RowsAgree
<1> QED
  BY <1>6

LEMMA EntitiesKept ==
  ASSUME NEW t, NEW s, NEW u, NEW m, EntitiesAgree(t, s), u.entities = t.entities,
         \A k \in DOMAIN m : k.of # "entity"
  PROVE  EntitiesAgree(u, Over(m, s))
<1> PICK z : z = Over(m, s)
  OBVIOUS
<1>1. DOMAIN z = DOMAIN m \union DOMAIN s /\ \A k \in DOMAIN s \ DOMAIN m : z[k] = s[k]
  BY DEF Over
<1>2. ASSUME NEW e \in DOMAIN t.entities
      PROVE  /\ e = Entity(e.kind, e.id) /\ EntityKey(e.kind, e.id) \in DOMAIN z
             /\ z[EntityKey(e.kind, e.id)].rev = t.entities[e]
  <2>1. PICK k : k = EntityKey(e.kind, e.id)
    OBVIOUS
  <2>2. e = Entity(e.kind, e.id) /\ k \in DOMAIN s /\ s[k].rev = t.entities[e]
    BY <2>1 DEF EntitiesAgree
  <2>3. k \notin DOMAIN m
    BY <2>1, KeyFacts
  <2> QED
    BY <1>1, <2>1, <2>2, <2>3
<1>3. \A k \in DOMAIN z : k.of = "entity" => Entity(k.kind, k.id) \in DOMAIN t.entities
  BY <1>1 DEF EntitiesAgree
<1>4. EntitiesAgree(u, z)
  BY <1>2, <1>3 DEF EntitiesAgree
<1> QED
  BY <1>4

LEMMA EdgesKept ==
  ASSUME NEW t, NEW s, NEW u, NEW m, EdgesAgree(t, s), u.edges = t.edges,
         \A k \in DOMAIN m : k.of # "edge"
  PROVE  EdgesAgree(u, Over(m, s))
<1> PICK z : z = Over(m, s)
  OBVIOUS
<1>1. DOMAIN z = DOMAIN m \union DOMAIN s
  BY DEF Over
<1>2. EdgesAgree(u, z)
  BY <1>1 DEF EdgesAgree
<1> QED
  BY <1>2

\* ... and of one that puts a row, removes one, puts an entity or an edge.
LEMMA RowPut ==
  ASSUME NEW t, NEW s, NEW u, NEW m, RowsAgree(t, s), NEW row,
         row = CaptureRow(row.ext, row.id), KindOf[row.ext] \in {"tweet", "user", "custom"},
         u.captures = Put(t.captures, row, Captured(row)),
         MembershipKey(KindOfRow(row), Captured(row).key, row.ext) \in DOMAIN m,
         \A k \in DOMAIN m :
           k.of = "membership" => k = MembershipKey(KindOfRow(row), Captured(row).key, row.ext)
  PROVE  RowsAgree(u, Over(m, s))
<1> PICK z, c : z = Over(m, s) /\ c = u.captures
  OBVIOUS
<1>1. DOMAIN z = DOMAIN m \union DOMAIN s
  BY DEF Over
<1>2. /\ DOMAIN c = DOMAIN t.captures \union {row} /\ c[row] = Captured(row)
      /\ \A r \in DOMAIN t.captures : r # row => c[r] = t.captures[r]
  BY DEF Put, Over
<1>3. \A r \in DOMAIN t.captures : c[r] = t.captures[r]
  <2>1. \A r \in DOMAIN t.captures : t.captures[r] = Captured(r)
    BY DEF RowsAgree
  <2> QED
    BY <1>2, <2>1
<1>4. ASSUME NEW r \in DOMAIN c
      PROVE  /\ r = CaptureRow(r.ext, r.id) /\ KindOf[r.ext] \in {"tweet", "user", "custom"}
             /\ c[r] = Captured(r)
             /\ MembershipKey(KindOfRow(r), c[r].key, r.ext) \in DOMAIN z
  <2>1. CASE r = row
    BY <1>1, <1>2, <2>1
  <2>2. CASE r # row
    BY <1>1, <1>2, <2>2 DEF RowsAgree
  <2> QED
    BY <2>1, <2>2
<1>5. ASSUME NEW k \in DOMAIN z, k.of = "membership", TombstoneKey(k.kind, k.id, k.ext) \notin DOMAIN z
      PROVE  \E r \in DOMAIN c : r.ext = k.ext /\ KindOfRow(r) = k.kind /\ c[r].key = k.id
  <2>1. CASE k \in DOMAIN m
    <3>1. k = MembershipKey(KindOfRow(row), Captured(row).key, row.ext)
      BY <1>5, <2>1
    <3> QED
      BY <1>2, <3>1, KeyFacts
  <2>2. CASE k \in DOMAIN s
    <3>1. PICK r \in DOMAIN t.captures : r.ext = k.ext /\ KindOfRow(r) = k.kind /\ t.captures[r].key = k.id
      BY <1>1, <1>5, <2>2 DEF RowsAgree
    <3> QED
      BY <1>2, <1>3, <3>1
  <2> QED
    BY <1>1, <2>1, <2>2
<1> QED
  BY <1>4, <1>5 DEF RowsAgree

LEMMA RowRemoved ==
  ASSUME NEW t, NEW s, NEW u, NEW m, RowsAgree(t, s), NEW ext, NEW id,
         KindOf[ext] \in {"tweet", "user"},
         u.captures = [r \in DOMAIN t.captures \ {CaptureRow(ext, id)} |-> t.captures[r]],
         DOMAIN m = {TombstoneKey(KindOf[ext], id, ext)}
  PROVE  RowsAgree(u, Over(m, s))
<1> PICK z, c : z = Over(m, s) /\ c = u.captures
  OBVIOUS
<1>1. DOMAIN z = DOMAIN m \union DOMAIN s
  BY DEF Over
<1>2. DOMAIN c = DOMAIN t.captures \ {CaptureRow(ext, id)} /\ \A r \in DOMAIN c : c[r] = t.captures[r]
  OBVIOUS
<1>3. ASSUME NEW r \in DOMAIN c
      PROVE  /\ r = CaptureRow(r.ext, r.id) /\ KindOf[r.ext] \in {"tweet", "user", "custom"}
             /\ c[r] = Captured(r)
             /\ MembershipKey(KindOfRow(r), c[r].key, r.ext) \in DOMAIN z
  BY <1>1, <1>2 DEF RowsAgree
<1>4. ASSUME NEW k \in DOMAIN z, k.of = "membership", TombstoneKey(k.kind, k.id, k.ext) \notin DOMAIN z
      PROVE  \E r \in DOMAIN c : r.ext = k.ext /\ KindOfRow(r) = k.kind /\ c[r].key = k.id
  <2>1. k \in DOMAIN s
    BY <1>1, <1>4, KeyFacts
  <2>2. PICK r \in DOMAIN t.captures : r.ext = k.ext /\ KindOfRow(r) = k.kind /\ t.captures[r].key = k.id
    BY <1>1, <1>4, <2>1 DEF RowsAgree
  <2>3. ASSUME r = CaptureRow(ext, id) PROVE FALSE
    <3>1. r.ext = ext /\ r.id = id
      BY <2>3 DEF CaptureRow
    <3>2. t.captures[r] = Capture(KindOf[ext], id)
      BY <2>2, <3>1 DEF RowsAgree, Captured
    <3>3. t.captures[r].key = id
      BY <3>2 DEF Capture
    <3>4. k.kind = KindOf[ext] /\ k.id = id /\ k.ext = ext
      BY <2>2, <3>1, <3>3 DEF KindOfRow
    <3> QED
      BY <1>1, <1>4, <3>4
  <2> QED
    BY <1>2, <2>2, <2>3
<1> QED
  BY <1>3, <1>4 DEF RowsAgree

LEMMA EntityPut ==
  ASSUME NEW t, NEW s, NEW u, NEW m, EntitiesAgree(t, s), NEW kind, NEW id, NEW rev,
         u.entities = Put(t.entities, Entity(kind, id), rev),
         EntityKey(kind, id) \in DOMAIN m, m[EntityKey(kind, id)].rev = rev,
         \A k \in DOMAIN m : k.of = "entity" => k = EntityKey(kind, id)
  PROVE  EntitiesAgree(u, Over(m, s))
<1> PICK z, c, e, key : z = Over(m, s) /\ c = u.entities /\ e = Entity(kind, id) /\ key = EntityKey(kind, id)
  OBVIOUS
<1>1. /\ DOMAIN z = DOMAIN m \union DOMAIN s
      /\ \A k \in DOMAIN m : z[k] = m[k]
      /\ \A k \in DOMAIN s \ DOMAIN m : z[k] = s[k]
  BY DEF Over
<1>2. /\ DOMAIN c = DOMAIN t.entities \union {e} /\ c[e] = rev
      /\ \A d \in DOMAIN t.entities : d # e => c[d] = t.entities[d]
  BY DEF Put, Over
<1>3. e.kind = kind /\ e.id = id
  BY DEF Entity
<1>4. ASSUME NEW d \in DOMAIN c
      PROVE  /\ d = Entity(d.kind, d.id) /\ EntityKey(d.kind, d.id) \in DOMAIN z
             /\ z[EntityKey(d.kind, d.id)].rev = c[d]
  <2>1. CASE d = e
    BY <1>1, <1>2, <1>3, <2>1
  <2>2. CASE d # e
    <3>1. PICK k : k = EntityKey(d.kind, d.id)
      OBVIOUS
    <3>2. d = Entity(d.kind, d.id) /\ k \in DOMAIN s /\ s[k].rev = t.entities[d]
      BY <1>2, <2>2, <3>1 DEF EntitiesAgree
    <3>3. k \notin DOMAIN m
      BY <1>3, <2>2, <3>1, <3>2, KeyFacts
    <3> QED
      BY <1>1, <1>2, <2>2, <3>1, <3>2, <3>3
  <2> QED
    BY <2>1, <2>2
<1>5. ASSUME NEW k \in DOMAIN z, k.of = "entity" PROVE Entity(k.kind, k.id) \in DOMAIN c
  <2>1. CASE k \in DOMAIN m
    BY <1>2, <1>5, <2>1, KeyFacts
  <2>2. CASE k \in DOMAIN s
    BY <1>2, <1>5, <2>2 DEF EntitiesAgree
  <2> QED
    BY <1>1, <2>1, <2>2
<1> QED
  BY <1>4, <1>5 DEF EntitiesAgree

LEMMA EdgePut ==
  ASSUME NEW t, NEW s, NEW u, NEW m, EdgesAgree(t, s), NEW ext, NEW edge,
         u.edges = t.edges \union {[ext |-> ext, edge |-> edge]}, DOMAIN m = {EdgeKey(edge, ext)}
  PROVE  EdgesAgree(u, Over(m, s))
<1> PICK z : z = Over(m, s)
  OBVIOUS
<1>1. DOMAIN z = DOMAIN s \union {EdgeKey(edge, ext)}
  BY DEF Over
<1>2. EdgesAgree(u, z)
  BY <1>1, KeyFacts DEF EdgesAgree
<1> QED
  BY <1>2

-----------------------------------------------------------------------------
\* A page that writes shows the paired account: of two classes that show it, one is not
\* history.state.
LEMMA OwnerWrites ==
  ASSUME SignalsAgree, Admitted
  PROVE  viewer = Owner
<1>1. Owner # NoViewer
  BY DEF Admitted, Observed
<1>2. PICK c, d \in Classes : c # d /\ evidence[c] = Owner /\ evidence[d] = Owner
  BY DEF Admitted, Corroborated
<1>3. PICK a \in Classes \ {"navigation_state"} : evidence[a] = Owner
  BY <1>2
<1> QED
  BY <1>1, <1>3 DEF SignalsAgree

\* A write keeps what was read and what the page shows.
LEMMA WriteKeeps ==
  ASSUME Restorable, NEW m, Route(m), Agree(tables', Over(m, state))
  PROVE  Restorable'
<1>1. state' = Over(m, state) /\ UNCHANGED <<viewer, evidence, loads, bridge>>
  BY DEF Route, identity
<1>2. Agree(tables, state)'
  BY <1>1
<1>3. state' = [k \in DOMAIN state' |-> state'[k]]
  BY <1>1, OverShape
<1>4. BridgeAgrees' /\ SignalsAgree'
  BY <1>1 DEF Restorable, BridgeAgrees, SignalsAgree
<1> QED
  BY <1>2, <1>3, <1>4 DEF Restorable

-----------------------------------------------------------------------------
LEMMA CaptureKeeps ==
  ASSUME Restorable, NEW ext, NEW id, extAddCaptureIds(ext, id)
  PROVE  Restorable'
<1> PICK m, row, kind, key : /\ m = captureMutations(kind, id, ext) /\ row = CaptureRow(ext, id)
                             /\ kind = KindOf[ext] /\ key = MembershipKey(kind, id, ext)
  OBVIOUS
<1>1. /\ kind \in {"tweet", "user"} /\ Route(m)
      /\ tables' = [tables EXCEPT !.captures = Put(@, row, Capture(kind, id))]
  BY DEF extAddCaptureIds
<1>2. viewer = Owner
  BY <1>1, OwnerWrites DEF Restorable, Route
<1>3. /\ DOMAIN m = {key} /\ m[key].by = Owner
  BY <1>2 DEF captureMutations, MutationOf
<1>4. key.of = "membership" /\ key.kind = kind /\ key.id = id /\ key.ext = ext
  BY KeyFacts
<1>5. Records(m)
  BY <1>1, <1>3, <1>4 DEF Records
<1>6. /\ Tables(tables') /\ tables'.entities = tables.entities /\ tables'.edges = tables.edges
      /\ tables'.captures = Put(tables.captures, row, Capture(kind, id))
  BY <1>1 DEF Restorable, Agree, Tables
<1>7. RowsAgree(tables', Over(m, state))
  <2>1. row.ext = ext /\ row.id = id /\ row = CaptureRow(row.ext, row.id)
    BY DEF CaptureRow
  <2>2. Captured(row) = Capture(kind, id) /\ KindOfRow(row) = kind
    BY <1>1, <2>1 DEF Captured, KindOfRow
  <2>3. Captured(row).key = id
    BY <2>2 DEF Capture
  <2>4. /\ MembershipKey(KindOfRow(row), Captured(row).key, row.ext) \in DOMAIN m
        /\ \A k \in DOMAIN m :
             k.of = "membership" => k = MembershipKey(KindOfRow(row), Captured(row).key, row.ext)
    BY <1>3, <2>1, <2>2, <2>3
  <2>5. KindOf[row.ext] \in {"tweet", "user", "custom"}
    BY <1>1, <2>1
  <2>6. tables'.captures = Put(tables.captures, row, Captured(row))
    BY <1>6, <2>2
  <2>7. RowsAgree(tables, state)
    BY DEF Restorable, Agree
  <2> QED
    BY <2>1, <2>4, <2>5, <2>6, <2>7, RowPut
<1>8. EntitiesAgree(tables', Over(m, state)) /\ EdgesAgree(tables', Over(m, state))
  BY <1>3, <1>4, <1>6, EntitiesKept, EdgesKept DEF Restorable, Agree
<1> QED
  BY <1>1, <1>5, <1>6, <1>7, <1>8, RecordsOver, WriteKeeps DEF Restorable, Agree

LEMMA AddKeeps ==
  ASSUME Restorable, NEW ext, NEW id, extAdd(ext, id)
  PROVE  Restorable'
<1> PICK c, n, m, row, kind, key, entity :
       /\ c = captureMutations(kind, id, ext) /\ n = entityMutations(kind, id) /\ m = Over(c, n)
       /\ row = CaptureRow(ext, id) /\ kind = KindOf[ext] /\ key = MembershipKey(kind, id, ext)
       /\ entity = EntityKey(kind, id)
  OBVIOUS
<1>1. /\ kind \in {"tweet", "user"} /\ Route(m)
      /\ tables' = [tables EXCEPT !.entities = Put(@, Entity(kind, id), writes + 1),
                                  !.captures = Put(@, row, Capture(kind, id))]
  BY DEF extAdd
<1>2. viewer = Owner
  BY <1>1, OwnerWrites DEF Restorable, Route
<1>3. /\ key.of = "membership" /\ key.kind = kind /\ key.id = id /\ key.ext = ext
      /\ entity.of = "entity" /\ entity.kind = kind /\ entity.id = id
  BY KeyFacts
<1>4. /\ DOMAIN c = {key} /\ c[key].by = Owner
      /\ DOMAIN n = {entity} /\ n[entity].by = Owner
      /\ n[entity].rev = writes + 1 /\ n[entity].entity = Entity(kind, id)
  BY <1>2 DEF captureMutations, entityMutations, MutationOf
<1>5. Records(m)
  <2>1. Records(c) /\ Records(n)
    BY <1>1, <1>3, <1>4 DEF Records
  <2> QED
    BY <2>1, RecordsOver
<1>6. DOMAIN m = {key, entity} /\ m[entity] = n[entity]
  BY <1>3, <1>4 DEF Over
<1>7. /\ Tables(tables') /\ tables'.edges = tables.edges
      /\ tables'.entities = Put(tables.entities, Entity(kind, id), writes + 1)
      /\ tables'.captures = Put(tables.captures, row, Capture(kind, id))
  BY <1>1 DEF Restorable, Agree, Tables
<1>8. RowsAgree(tables', Over(m, state))
  <2>1. row.ext = ext /\ row.id = id /\ row = CaptureRow(row.ext, row.id)
    BY DEF CaptureRow
  <2>2. Captured(row) = Capture(kind, id) /\ KindOfRow(row) = kind
    BY <1>1, <2>1 DEF Captured, KindOfRow
  <2>3. Captured(row).key = id
    BY <2>2 DEF Capture
  <2>4. /\ MembershipKey(KindOfRow(row), Captured(row).key, row.ext) \in DOMAIN m
        /\ \A k \in DOMAIN m :
             k.of = "membership" => k = MembershipKey(KindOfRow(row), Captured(row).key, row.ext)
    BY <1>3, <1>6, <2>1, <2>2, <2>3
  <2>5. KindOf[row.ext] \in {"tweet", "user", "custom"}
    BY <1>1, <2>1
  <2>6. tables'.captures = Put(tables.captures, row, Captured(row))
    BY <1>7, <2>2
  <2>7. RowsAgree(tables, state)
    BY DEF Restorable, Agree
  <2> QED
    BY <2>1, <2>4, <2>5, <2>6, <2>7, RowPut
<1>9. EntitiesAgree(tables', Over(m, state))
  <2>1. EntitiesAgree(tables, state)
    BY DEF Restorable, Agree
  <2>2. /\ EntityKey(kind, id) \in DOMAIN m /\ m[EntityKey(kind, id)].rev = writes + 1
        /\ \A k \in DOMAIN m : k.of = "entity" => k = EntityKey(kind, id)
    BY <1>3, <1>4, <1>6
  <2> QED
    BY <1>7, <2>1, <2>2, EntityPut
<1>10. EdgesAgree(tables', Over(m, state))
  BY <1>3, <1>6, <1>7, EdgesKept DEF Restorable, Agree
<1> QED
  BY <1>1, <1>5, <1>7, <1>8, <1>9, <1>10, RecordsOver, WriteKeeps DEF Restorable, Agree

LEMMA RemoveKeeps ==
  ASSUME Restorable, NEW ext, NEW id, extRemoveCaptureIds(ext, id)
  PROVE  Restorable'
<1> PICK m, kind, key : /\ m = membershipTombstones(kind, id, ext) /\ kind = KindOf[ext]
                        /\ key = TombstoneKey(kind, id, ext)
  OBVIOUS
<1>1. /\ kind \in {"tweet", "user"} /\ Route(m)
      /\ tables' = [tables EXCEPT
           !.captures = [r \in DOMAIN tables.captures \ {CaptureRow(ext, id)} |-> tables.captures[r]]]
  BY DEF extRemoveCaptureIds
<1>2. viewer = Owner
  BY <1>1, OwnerWrites DEF Restorable, Route
<1>3. DOMAIN m = {key} /\ m[key].by = Owner
  BY <1>2 DEF membershipTombstones, MutationOf
<1>4. key.of = "tombstone" /\ key.kind = kind /\ key.id = id /\ key.ext = ext
  BY KeyFacts
<1>5. Records(m)
  BY <1>1, <1>3, <1>4 DEF Records
<1>6. /\ Tables(tables') /\ tables'.entities = tables.entities /\ tables'.edges = tables.edges
      /\ tables'.captures = [r \in DOMAIN tables.captures \ {CaptureRow(ext, id)} |-> tables.captures[r]]
  BY <1>1 DEF Restorable, Agree, Tables
<1>7. RowsAgree(tables', Over(m, state))
  <2>1. RowsAgree(tables, state)
    BY DEF Restorable, Agree
  <2>2. KindOf[ext] \in {"tweet", "user"} /\ DOMAIN m = {TombstoneKey(KindOf[ext], id, ext)}
    BY <1>1, <1>3
  <2> QED
    BY <1>6, <2>1, <2>2, RowRemoved
<1>8. EntitiesAgree(tables', Over(m, state)) /\ EdgesAgree(tables', Over(m, state))
  BY <1>3, <1>4, <1>6, EntitiesKept, EdgesKept DEF Restorable, Agree
<1> QED
  BY <1>1, <1>5, <1>6, <1>7, <1>8, RecordsOver, WriteKeeps DEF Restorable, Agree

LEMMA CustomKeeps ==
  ASSUME Restorable, NEW ext, NEW item, extAddCustomCaptures(ext, item)
  PROVE  Restorable'
<1> PICK m, row, id, key :
       /\ m = captureMutations("media_reference", id, ext) /\ row = CaptureRow(ext, item)
       /\ id = DataKey[item] /\ key = MembershipKey("media_reference", id, ext)
  OBVIOUS
<1>1. /\ KindOf[ext] = "custom" /\ Route(m)
      /\ tables' = [tables EXCEPT !.captures = Put(@, row, Capture("custom", id))]
  BY DEF extAddCustomCaptures
<1>2. viewer = Owner
  BY <1>1, OwnerWrites DEF Restorable, Route
<1>3. DOMAIN m = {key} /\ m[key].by = Owner
  BY <1>2 DEF captureMutations, MutationOf
<1>4. key.of = "membership" /\ key.kind = "media_reference" /\ key.id = id /\ key.ext = ext
  BY KeyFacts
<1>5. Records(m)
  BY <1>3, <1>4 DEF Records
<1>6. /\ Tables(tables') /\ tables'.entities = tables.entities /\ tables'.edges = tables.edges
      /\ tables'.captures = Put(tables.captures, row, Capture("custom", id))
  BY <1>1 DEF Restorable, Agree, Tables
<1>7. RowsAgree(tables', Over(m, state))
  <2>1. row.ext = ext /\ row.id = item /\ row = CaptureRow(row.ext, row.id)
    BY DEF CaptureRow
  <2>2. Captured(row) = Capture("custom", id) /\ KindOfRow(row) = "media_reference"
    BY <1>1, <2>1 DEF Captured, KindOfRow
  <2>3. Captured(row).key = id
    BY <2>2 DEF Capture
  <2>4. /\ MembershipKey(KindOfRow(row), Captured(row).key, row.ext) \in DOMAIN m
        /\ \A k \in DOMAIN m :
             k.of = "membership" => k = MembershipKey(KindOfRow(row), Captured(row).key, row.ext)
    BY <1>3, <2>1, <2>2, <2>3
  <2>5. KindOf[row.ext] \in {"tweet", "user", "custom"}
    BY <1>1, <2>1
  <2>6. tables'.captures = Put(tables.captures, row, Captured(row))
    BY <1>6, <2>2
  <2>7. RowsAgree(tables, state)
    BY DEF Restorable, Agree
  <2> QED
    BY <2>1, <2>4, <2>5, <2>6, <2>7, RowPut
<1>8. EntitiesAgree(tables', Over(m, state)) /\ EdgesAgree(tables', Over(m, state))
  BY <1>3, <1>4, <1>6, EntitiesKept, EdgesKept DEF Restorable, Agree
<1> QED
  BY <1>1, <1>5, <1>6, <1>7, <1>8, RecordsOver, WriteKeeps DEF Restorable, Agree

LEMMA EdgeKeeps ==
  ASSUME Restorable, NEW ext, NEW edge, extAddSocialEdges(ext, edge)
  PROVE  Restorable'
<1> PICK m, key : m = relationshipMutations(edge, ext) /\ key = EdgeKey(edge, ext)
  OBVIOUS
<1>1. Route(m) /\ tables' = [tables EXCEPT !.edges = tables.edges \union {[ext |-> ext, edge |-> edge]}]
  BY DEF extAddSocialEdges
<1>2. viewer = Owner
  BY <1>1, OwnerWrites DEF Restorable, Route
<1>3. DOMAIN m = {key} /\ m[key].by = Owner
  BY <1>2 DEF relationshipMutations, MutationOf
<1>4. key.of = "edge" /\ key.id = edge /\ key.ext = ext
  BY KeyFacts
<1>5. Records(m)
  BY <1>3, <1>4 DEF Records
<1>6. /\ Tables(tables') /\ tables'.entities = tables.entities /\ tables'.captures = tables.captures
      /\ tables'.edges = tables.edges \union {[ext |-> ext, edge |-> edge]}
  BY <1>1 DEF Restorable, Agree, Tables
<1>7. EdgesAgree(tables', Over(m, state))
  BY <1>3, <1>6, EdgePut DEF Restorable, Agree
<1>8. RowsAgree(tables', Over(m, state)) /\ EntitiesAgree(tables', Over(m, state))
  BY <1>3, <1>4, <1>6, RowsKept, EntitiesKept DEF Restorable, Agree
<1> QED
  BY <1>1, <1>5, <1>6, <1>7, <1>8, RecordsOver, WriteKeeps DEF Restorable, Agree

LEMMA UpsertKeeps ==
  ASSUME Restorable, NEW id, upsertTweets(id)
  PROVE  Restorable'
<1> PICK m, key : m = entityMutations("tweet", id) /\ key = EntityKey("tweet", id)
  OBVIOUS
<1>1. Route(m) /\ tables' = [tables EXCEPT !.entities = Put(@, Entity("tweet", id), writes + 1)]
  BY DEF upsertTweets
<1>2. viewer = Owner
  BY <1>1, OwnerWrites DEF Restorable, Route
<1>3. /\ DOMAIN m = {key} /\ m[key].by = Owner
      /\ m[key].rev = writes + 1 /\ m[key].entity = Entity("tweet", id)
  BY <1>2 DEF entityMutations, MutationOf
<1>4. key.of = "entity" /\ key.kind = "tweet" /\ key.id = id
  BY KeyFacts
<1>5. Records(m)
  BY <1>3, <1>4 DEF Records
<1>6. /\ Tables(tables') /\ tables'.captures = tables.captures /\ tables'.edges = tables.edges
      /\ tables'.entities = Put(tables.entities, Entity("tweet", id), writes + 1)
  BY <1>1 DEF Restorable, Agree, Tables
<1>7. EntitiesAgree(tables', Over(m, state))
  <2>1. EntitiesAgree(tables, state)
    BY DEF Restorable, Agree
  <2>2. /\ EntityKey("tweet", id) \in DOMAIN m /\ m[EntityKey("tweet", id)].rev = writes + 1
        /\ \A k \in DOMAIN m : k.of = "entity" => k = EntityKey("tweet", id)
    BY <1>3
  <2> QED
    BY <1>6, <2>1, <2>2, EntityPut
<1>8. RowsAgree(tables', Over(m, state)) /\ EdgesAgree(tables', Over(m, state))
  BY <1>3, <1>4, <1>6, RowsKept, EdgesKept DEF Restorable, Agree
<1> QED
  BY <1>1, <1>5, <1>6, <1>7, <1>8, RecordsOver, WriteKeeps DEF Restorable, Agree

-----------------------------------------------------------------------------
\* What the records make of the entities, the edges and the rows that were never removed.
LEMMA EntitiesMade ==
  ASSUME NEW t, NEW s, EntitiesAgree(t, s), Records(s)
  PROVE  {[entity |-> s[k].entity, rev |-> s[k].rev] : k \in {l \in DOMAIN s : l.of = "entity"}}
           = {[entity |-> e, rev |-> t.entities[e]] : e \in DOMAIN t.entities}
<1>1. ASSUME NEW k \in DOMAIN s, k.of = "entity"
      PROVE  \E e \in DOMAIN t.entities : s[k].entity = e /\ s[k].rev = t.entities[e]
  <2>1. k = EntityKey(k.kind, k.id) /\ s[k].entity = Entity(k.kind, k.id)
    BY <1>1, KeyFacts DEF Records
  <2>2. PICK e \in DOMAIN t.entities : e = Entity(k.kind, k.id)
    BY <1>1 DEF EntitiesAgree
  <2>3. e.kind = k.kind /\ e.id = k.id
    BY <2>2 DEF Entity
  <2>4. s[k].rev = t.entities[e]
    BY <2>1, <2>3 DEF EntitiesAgree
  <2> QED
    BY <2>1, <2>2, <2>4
<1>2. ASSUME NEW e \in DOMAIN t.entities
      PROVE  \E k \in DOMAIN s : k.of = "entity" /\ s[k].entity = e /\ s[k].rev = t.entities[e]
  <2>1. PICK k : k = EntityKey(e.kind, e.id)
    OBVIOUS
  <2>2. e = Entity(e.kind, e.id) /\ k \in DOMAIN s /\ s[k].rev = t.entities[e]
    BY <2>1 DEF EntitiesAgree
  <2>3. k.of = "entity" /\ k.kind = e.kind /\ k.id = e.id
    BY <2>1, KeyFacts
  <2>4. s[k].entity = e
    BY <2>2, <2>3, KeyFacts DEF Records
  <2> QED
    BY <2>2, <2>3, <2>4
<1> QED
  BY <1>1, <1>2

LEMMA EdgesMade ==
  ASSUME NEW t, NEW s, EdgesAgree(t, s)
  PROVE  {[ext |-> k.ext, edge |-> k.id] : k \in {l \in DOMAIN s : l.of = "edge"}} = t.edges
<1>1. \A k \in DOMAIN s : k.of = "edge" => [ext |-> k.ext, edge |-> k.id] \in t.edges
  BY DEF EdgesAgree
<1>2. ASSUME NEW x \in t.edges
      PROVE  \E k \in DOMAIN s : k.of = "edge" /\ x = [ext |-> k.ext, edge |-> k.id]
  <2>1. x = [ext |-> x.ext, edge |-> x.edge] /\ EdgeKey(x.edge, x.ext) \in DOMAIN s
    BY DEF EdgesAgree
  <2> QED
    BY <2>1, KeyFacts
<1> QED
  BY <1>1, <1>2

TypeOfKind(kind) == IF kind = "media_reference" THEN "custom" ELSE kind

LEMMA RowsMade ==
  ASSUME NEW t, NEW s, RowsAgree(t, s), Records(s), NEW w, w \subseteq RemovedOnce(s)
  PROVE  {c \in {[ext |-> k.ext, type |-> TypeOfKind(k.kind), key |-> k.id] :
                   k \in {l \in DOMAIN s : l.of = "membership"} \ w} :
            TombstoneKey(c.type, c.key, c.ext) \notin DOMAIN s}
         = {c \in {[ext |-> r.ext, type |-> t.captures[r].type, key |-> t.captures[r].key] :
                     r \in DOMAIN t.captures} :
              TombstoneKey(c.type, c.key, c.ext) \notin DOMAIN s}
<1>1. \A kind, id, ext : TombstoneKey(kind, id, ext) \in DOMAIN s => kind \in {"tweet", "user"}
  <2>1. SUFFICES ASSUME NEW kind, NEW id, NEW ext, NEW k, k = TombstoneKey(kind, id, ext),
                        k \in DOMAIN s
                 PROVE  kind \in {"tweet", "user"}
    OBVIOUS
  <2>2. k.of = "tombstone" /\ k.kind = kind
    BY <2>1, KeyFacts
  <2> QED
    BY <2>1, <2>2, KeyFacts DEF Records
<1>2. ASSUME NEW r \in DOMAIN t.captures
      PROVE  t.captures[r].type = TypeOfKind(KindOfRow(r))
  <2>1. t.captures[r] = Captured(r) /\ KindOf[r.ext] \in {"tweet", "user", "custom"}
    BY DEF RowsAgree
  <2>2. Captured(r).type = KindOf[r.ext]
    BY DEF Captured, Capture
  <2>3. KindOf[r.ext] = TypeOfKind(KindOfRow(r))
    BY <2>1 DEF KindOfRow, TypeOfKind
  <2> QED
    BY <2>1, <2>2, <2>3
<1>3. ASSUME NEW k \in DOMAIN s, k.of = "membership",
             TombstoneKey(TypeOfKind(k.kind), k.id, k.ext) \notin DOMAIN s
      PROVE  \E r \in DOMAIN t.captures :
               r.ext = k.ext /\ t.captures[r].type = TypeOfKind(k.kind) /\ t.captures[r].key = k.id
  <2>1. TombstoneKey(k.kind, k.id, k.ext) \notin DOMAIN s
    BY <1>1, <1>3 DEF TypeOfKind
  <2> QED
    BY <1>2, <1>3, <2>1 DEF RowsAgree
<1>4. ASSUME NEW r \in DOMAIN t.captures,
             TombstoneKey(t.captures[r].type, t.captures[r].key, r.ext) \notin DOMAIN s
      PROVE  \E k \in DOMAIN s \ w :
               /\ k.of = "membership" /\ k.ext = r.ext
               /\ TypeOfKind(k.kind) = t.captures[r].type /\ k.id = t.captures[r].key
  <2>1. PICK k : k = MembershipKey(KindOfRow(r), t.captures[r].key, r.ext)
    OBVIOUS
  <2>2. k \in DOMAIN s
    BY <2>1 DEF RowsAgree
  <2>3. k.of = "membership" /\ k.kind = KindOfRow(r) /\ k.ext = r.ext /\ k.id = t.captures[r].key
    BY <2>1, KeyFacts
  <2>4. ASSUME k \in w PROVE FALSE
    <3>1. TombstoneKey(k.kind, k.id, k.ext) \in DOMAIN s
      BY <2>4 DEF RemovedOnce
    <3>2. t.captures[r].type = k.kind
      BY <1>1, <1>2, <2>3, <3>1 DEF TypeOfKind
    <3> QED
      BY <1>4, <2>3, <3>1, <3>2
  <2> QED
    BY <1>2, <2>2, <2>3, <2>4
<1> QED
  BY <1>3, <1>4

Standing(c, s) == {x \in c : TombstoneKey(x.type, x.key, x.ext) \notin DOMAIN s}

\* Sets of rows that differ in removed ones only are the same without these.
LEMMA Filtered ==
  ASSUME NEW e, NEW g, NEW c, NEW d, NEW p, NEW q,
         p = [entities |-> e, captures |-> c, edges |-> g],
         q = [entities |-> e, captures |-> d, edges |-> g]
  PROVE  \A s : Standing(c, s) = Standing(d, s) => NeverRemoved(p, s) = NeverRemoved(q, s)
<1>1. \A y : [p EXCEPT !.captures = y] = [q EXCEPT !.captures = y]
  OBVIOUS
<1>2. p.captures = c /\ q.captures = d
  OBVIOUS
<1>3. ASSUME NEW s, Standing(c, s) = Standing(d, s)
      PROVE  NeverRemoved(p, s) = NeverRemoved(q, s)
  BY <1>1, <1>2, <1>3, Zenon DEF NeverRemoved, Standing
<1> QED
  BY <1>3, Zenon

LEMMA AgreeShows ==
  ASSUME NEW t, NEW s, Agree(t, s), NEW w, w \subseteq RemovedOnce(s)
  PROVE  NeverRemoved(Made(s, w), s) = NeverRemoved(Shown(t), s)
<1>1. PICK entities, edges :
       /\ entities = {[entity |-> e, rev |-> t.entities[e]] : e \in DOMAIN t.entities}
       /\ edges = t.edges
  OBVIOUS
<1>2. PICK made, shown :
       /\ made = {[ext |-> k.ext, type |-> TypeOfKind(k.kind), key |-> k.id] :
                    k \in {l \in DOMAIN s : l.of = "membership"} \ w}
       /\ shown = {[ext |-> r.ext, type |-> t.captures[r].type, key |-> t.captures[r].key] :
                     r \in DOMAIN t.captures}
  OBVIOUS
<1>3. Standing(made, s) = Standing(shown, s)
  BY <1>2, RowsMade DEF Agree, Standing
<1>4. Shown(t) = [entities |-> entities, captures |-> shown, edges |-> edges]
  BY <1>1, <1>2 DEF Shown
<1>5. Made(s, w) = [entities |-> entities, captures |-> made, edges |-> edges]
  <2>1. {[entity |-> s[k].entity, rev |-> s[k].rev] : k \in {l \in DOMAIN s : l.of = "entity"}}
          = entities
    BY <1>1, EntitiesMade DEF Agree
  <2>2. {[ext |-> k.ext, edge |-> k.id] : k \in {l \in DOMAIN s : l.of = "edge"}} = edges
    BY <1>1, EdgesMade DEF Agree
  <2> QED
    BY <1>2, <2>1, <2>2, Zenon DEF Made, TypeOfKind
<1> QED
  BY <1>3, <1>4, <1>5, Filtered

-----------------------------------------------------------------------------
LEMMA RestorableInit == WritesInit => Restorable
<1> SUFFICES ASSUME WritesInit PROVE Restorable
  OBVIOUS
<1>1. DOMAIN <<>> = {} /\ <<>> = [k \in DOMAIN <<>> |-> <<>>[k]]
  OBVIOUS
<1>2. Agree(NoTables, <<>>)
  BY <1>1 DEF Agree, Tables, Records, RowsAgree, EntitiesAgree, EdgesAgree, NoTables
<1>3. BridgeAgrees
  BY <1>1 DEF WritesInit, NoBridge, BridgeAgrees
<1>4. SignalsAgree
  BY DEF WritesInit, SignalsAgree, Classes
<1> QED
  BY <1>1, <1>2, <1>3, <1>4 DEF WritesInit, Restorable

LEMMA LoadKeeps ==
  ASSUME Restorable, NEW v \in Viewers, Load(v)
  PROVE  Restorable'
<1>1. UNCHANGED <<tables, state>> /\ viewer' = v /\ bridge' = NoBridge
  BY DEF Load
<1>2. BridgeAgrees'
  BY <1>1 DEF NoBridge, BridgeAgrees
<1>3. SignalsAgree'
  BY DEF Load, SignalsAgree, Classes
<1> QED
  BY <1>1, <1>2, <1>3 DEF Restorable

LEMMA BridgeKeeps ==
  ASSUME Restorable, Reconcile \/ ReadPage \/ SaveBundle \/ StopBundle
  PROVE  Restorable'
<1>1. UNCHANGED <<tables, state, viewer, evidence>>
  BY DEF Reconcile, ReadPage, SaveBundle, StopBundle, identity
<1>2. Agree(tables, state)' /\ SignalsAgree'
  BY <1>1 DEF Restorable, SignalsAgree
<1>3. CASE Reconcile
  <2>1. BridgeAgrees'
    BY <1>3 DEF Reconcile, Restorable, BridgeAgrees
  <2> QED
    BY <1>1, <1>2, <2>1 DEF Restorable
<1>4. CASE ReadPage
  <2>1. PICK key : key \in Unread /\ bridge' = [bridge EXCEPT !.read = Put(@, key, bridge.items[key])]
    BY <1>4 DEF ReadPage, PinnedItem
  <2>2. PICK read, new : read = bridge.read /\ new = Put(read, key, bridge.items[key])
    OBVIOUS
  <2>3. bridge' = [at |-> bridge.at, items |-> bridge.items, read |-> new, captured |-> bridge.captured]
    BY <2>1, <2>2 DEF Restorable, BridgeAgrees
  <2>4. DOMAIN new = DOMAIN read \union {key} /\ new = [k \in DOMAIN new |-> bridge.items[k]]
    <3>1. read = [k \in DOMAIN read |-> bridge.items[k]]
      BY <2>2 DEF Restorable, BridgeAgrees
    <3> QED
      BY <2>2, <3>1 DEF Put, Over
  <2>5. BridgeAgrees'
    <3>1. /\ bridge'.at = "reading" /\ bridge'.items = bridge.items
          /\ bridge'.captured = bridge.captured /\ bridge'.read = new
      BY <1>4, <2>3 DEF ReadPage
    <3>2. Agree(bridge.captured, bridge.items)
      BY <1>4 DEF ReadPage, Restorable, BridgeAgrees
    <3>3. DOMAIN read \subseteq DOMAIN bridge.items
          /\ bridge.items = [k \in DOMAIN bridge.items |-> bridge.items[k]]
      BY <2>2 DEF Restorable, BridgeAgrees
    <3>4. DOMAIN new \subseteq DOMAIN bridge.items
      BY <2>1, <2>4, <3>3 DEF Unread
    <3>5. bridge' = [at |-> bridge'.at, items |-> bridge'.items, read |-> bridge'.read,
                     captured |-> bridge'.captured]
      BY <2>3
    <3> QED
      BY <2>4, <3>1, <3>2, <3>3, <3>4, <3>5 DEF BridgeAgrees
  <2> QED
    BY <1>1, <1>2, <2>5 DEF Restorable
<1>5. CASE SaveBundle
  <2>1. BridgeAgrees'
    BY <1>5 DEF SaveBundle, Unread, Restorable, BridgeAgrees
  <2> QED
    BY <1>1, <1>2, <2>1 DEF Restorable
<1>6. CASE StopBundle
  <2>1. BridgeAgrees'
    BY <1>6 DEF StopBundle, NoBridge, BridgeAgrees
  <2> QED
    BY <1>1, <1>2, <2>1 DEF Restorable
<1> QED
  BY <1>3, <1>4, <1>5, <1>6

LEMMA RestorableNext == Restorable /\ [WritesNext]_writeVars => Restorable'
<1> SUFFICES ASSUME Restorable, [WritesNext]_writeVars PROVE Restorable'
  OBVIOUS
<1>1. CASE UNCHANGED writeVars
  BY <1>1 DEF writeVars, Restorable, BridgeAgrees, SignalsAgree
<1>2. CASE Writes
  BY <1>2, AddKeeps, CaptureKeeps, RemoveKeeps, CustomKeeps, EdgeKeeps DEF Writes
<1>3. ASSUME NEW v \in Viewers, Load(v) PROVE Restorable'
  BY <1>3, LoadKeeps
<1>4. ASSUME NEW id \in Ids, upsertTweets(id) PROVE Restorable'
  BY <1>4, UpsertKeeps
<1> QED
  BY <1>1, <1>2, <1>3, <1>4, BridgeKeeps DEF WritesNext

LEMMA RestorableShows == Restorable => RebuildRestores
<1> SUFFICES ASSUME Restorable PROVE RebuildRestores
  OBVIOUS
<1>1. NeverRemoved(projectItems(state), state) = NeverRemoved(Shown(tables), state)
  <2>1. RemovedOnce(state) \ HashedAfter \subseteq RemovedOnce(state)
    OBVIOUS
  <2> QED
    BY <2>1, AgreeShows DEF Restorable, projectItems
<1>2. ASSUME bridge.at = "saved"
      PROVE  NeverRemoved(projectionFor(bridge.read), bridge.items)
               = NeverRemoved(Shown(bridge.captured), bridge.items)
  <2>1. bridge.read = bridge.items
    BY <1>2 DEF Restorable, BridgeAgrees
  <2>2. Agree(bridge.captured, bridge.items)
    BY <1>2 DEF Restorable, BridgeAgrees
  <2> QED
    BY <2>1, <2>2, AgreeShows DEF projectionFor
<1>3. \A k \in DOMAIN state : state[k].by = Owner
  BY DEF Restorable, Agree, Records
<1> QED
  BY <1>1, <1>2, <1>3 DEF RebuildRestores

\* The tables and the archive's records agree in every state, and so do a bundle's records
\* and the tables of the moment it was pinned.
THEOREM Restorability == WritesSpec => []Restorable
<1>1. WritesInit => Restorable
  BY RestorableInit
<1>2. Restorable /\ [WritesNext]_writeVars => Restorable'
  BY RestorableNext
<1> QED
  BY <1>1, <1>2, PTL DEF WritesSpec

\* Whatever is captured, removed and loaded, a cache that is rebuilt and a bundle that is
\* saved show all that was captured and never removed, in its last revision, and nothing
\* else; and every record is of a page of the paired account.
THEOREM RebuildsRestore == WritesSpec => []RebuildRestores
  BY Restorability, RestorableShows, PTL

-----------------------------------------------------------------------------
(* The captures in their order.                                              *)
Ordered ==
    /\ created \in [Captures -> Nat]
    /\ \A c, d \in Present : created[c] = created[d] => c = d

NewerIn(S, c) == {d \in S : Newer(d, c)}

LEMMA Ranks ==
    ASSUME Ordered, NEW S \in SUBSET Present
    PROVE  /\ IsFiniteSet(S) /\ Cardinality(S) \in Nat
           /\ \A c \in S : /\ IsFiniteSet(NewerIn(S, c))
                           /\ Cardinality(NewerIn(S, c)) \in 0..(Cardinality(S) - 1)
<1>1. IsFiniteSet(S) /\ Cardinality(S) \in Nat
  <2>1. IsFiniteSet(Captures) /\ S \in SUBSET Captures  BY WindowAssumption DEF Present
  <2> QED  BY <2>1, FS_Subset, FS_CardinalityType
<1>2. ASSUME NEW c \in S
      PROVE  /\ IsFiniteSet(NewerIn(S, c))
             /\ Cardinality(NewerIn(S, c)) \in 0..(Cardinality(S) - 1)
  <2>1. NewerIn(S, c) \in SUBSET (S \ {c})  BY DEF NewerIn, Newer, Ordered, Present
  <2>2. IsFiniteSet(S \ {c}) /\ Cardinality(S \ {c}) = Cardinality(S) - 1
    BY <1>1, FS_RemoveElement
  <2>3. /\ IsFiniteSet(NewerIn(S, c)) /\ Cardinality(NewerIn(S, c)) \in Nat
        /\ Cardinality(NewerIn(S, c)) <= Cardinality(S) - 1
    BY <2>1, <2>2, FS_Subset, FS_CardinalityType
  <2> QED  BY <1>1, <2>3
<1> QED  BY <1>1, <1>2

(* No two captures have as many newer ones.                                  *)
LEMMA RanksDiffer ==
    ASSUME Ordered, NEW S \in SUBSET Present, NEW c \in S, NEW d \in S,
           Cardinality(NewerIn(S, c)) = Cardinality(NewerIn(S, d))
    PROVE  c = d
<1>1. ASSUME NEW x \in S, NEW y \in S, created[x] > created[y]
      PROVE  Cardinality(NewerIn(S, x)) # Cardinality(NewerIn(S, y))
  <2>1. /\ NewerIn(S, x) \in SUBSET NewerIn(S, y)
        /\ x \in NewerIn(S, y) /\ x \notin NewerIn(S, x)
    BY <1>1 DEF NewerIn, Newer, Ordered, Present
  <2>2. IsFiniteSet(NewerIn(S, y))  BY Ranks
  <2> QED  BY <2>1, <2>2, FS_Subset
<1>2. created[c] \in Nat /\ created[d] \in Nat /\ c \in Present /\ d \in Present
  BY DEF Ordered, Present
<1>3. created[c] = created[d]  BY <1>1, <1>2
<1> QED  BY <1>2, <1>3 DEF Ordered

(* The list of a set of captures has each of them at the place of its rank.  *)
LEMMA NewestFacts ==
    ASSUME Ordered, NEW S \in SUBSET Present
    PROVE  /\ NewestFirst(S) \in Seq(S) /\ Len(NewestFirst(S)) = Cardinality(S)
           /\ \A n \in 1..Cardinality(S) :
                 /\ NewestFirst(S)[n] \in S
                 /\ Cardinality(NewerIn(S, NewestFirst(S)[n])) = n - 1
<1> DEFINE k == Cardinality(S)
           rank == [c \in S |-> Cardinality(NewerIn(S, c))]
           at(n) == CHOOSE c \in S : Cardinality(NewerIn(S, c)) = n - 1
<1>1. IsFiniteSet(S) /\ k \in Nat  BY Ranks
<1>2. rank \in Injection(S, 0..(k - 1))
  <2>1. rank \in [S -> 0..(k - 1)]  BY Ranks
  <2>2. \A c, d \in S : rank[c] = rank[d] => c = d  BY RanksDiffer
  <2> QED  BY <2>1, <2>2 DEF Injection, IsInjective
<1>3. rank \in Surjection(S, 0..(k - 1))
  <2>1. 0 \in Int /\ k - 1 \in Int  BY <1>1
  <2>2. IsFiniteSet(0..(k - 1)) /\ Cardinality(0..(k - 1)) = k
    BY <1>1, <2>1, FS_Interval
  <2> QED  BY <1>2, <2>2, FS_Injection
<1>4. ASSUME NEW n \in 1..k
      PROVE  at(n) \in S /\ Cardinality(NewerIn(S, at(n))) = n - 1
  <2>1. PICK c \in S : Cardinality(NewerIn(S, c)) = n - 1
    <3>1. n - 1 \in 0..(k - 1)  BY <1>1
    <3> QED  BY <1>3, <3>1 DEF Surjection
  <2> QED  BY <2>1
<1>5. NewestFirst(S) = [n \in 1..k |-> at(n)]  BY DEF NewestFirst, NewerIn
<1> HIDE DEF at
<1>6. NewestFirst(S) \in Seq(S) /\ Len(NewestFirst(S)) = k  BY <1>1, <1>4, <1>5
<1> QED  BY <1>4, <1>5, <1>6

(* The first of the list is the newest, and the rest is the list of the      *)
(* others.                                                                   *)
LEMMA NewestThenOthers ==
    ASSUME Ordered, NEW S \in SUBSET Present, S # {}
    PROVE  /\ Head(NewestFirst(S)) \in S /\ NewestFirst(S) # <<>>
           /\ \A d \in S \ {Head(NewestFirst(S))} : created[d] < created[Head(NewestFirst(S))]
           /\ Tail(NewestFirst(S)) = NewestFirst(S \ {Head(NewestFirst(S))})
<1> DEFINE s == NewestFirst(S)
           h == Head(s)
           R == S \ {h}
           t == NewestFirst(R)
           k == Cardinality(S)
<1>1. IsFiniteSet(S) /\ k \in Nat /\ k # 0  BY Ranks, FS_EmptySet
<1>2. /\ s \in Seq(S) /\ Len(s) = k
      /\ \A n \in 1..k : s[n] \in S /\ Cardinality(NewerIn(S, s[n])) = n - 1
  BY NewestFacts
<1>3. h = s[1] /\ h \in S /\ Cardinality(NewerIn(S, h)) = 0 /\ s # <<>>
  BY <1>1, <1>2
<1>4. NewerIn(S, h) = {}  BY <1>3, Ranks, FS_EmptySet
<1>5. \A d \in R : created[d] < created[h]
  BY <1>3, <1>4 DEF NewerIn, Newer, Ordered, Present
<1>6. R \in SUBSET Present /\ IsFiniteSet(R) /\ Cardinality(R) = k - 1
  BY <1>1, <1>3, FS_RemoveElement
<1>7. /\ t \in Seq(R) /\ Len(t) = k - 1
      /\ \A n \in 1..(k - 1) : t[n] \in R /\ Cardinality(NewerIn(R, t[n])) = n - 1
  BY <1>6, NewestFacts
<1> HIDE DEF s, t, k, h
<1>8. ASSUME NEW n \in 1..(k - 1) PROVE t[n] = s[n + 1]
  <2>1. t[n] \in R /\ t[n] \in S  BY <1>7
  <2>2. NewerIn(S, t[n]) = NewerIn(R, t[n]) \cup {h} /\ h \notin NewerIn(R, t[n])
    BY <1>3, <1>5, <2>1 DEF NewerIn, Newer, Ordered, Present
  <2>3. IsFiniteSet(NewerIn(R, t[n])) /\ Cardinality(NewerIn(R, t[n])) = n - 1
    BY <1>6, <1>7, <2>1, Ranks
  <2>4. Cardinality(NewerIn(S, t[n])) = n
    <3>1. Cardinality(NewerIn(R, t[n]) \cup {h}) = Cardinality(NewerIn(R, t[n])) + 1
      BY <2>2, <2>3, FS_AddElement
    <3> HIDE DEF R
    <3> QED  BY <1>1, <2>2, <2>3, <3>1
  <2>5. n + 1 \in 1..k /\ s[n + 1] \in S /\ Cardinality(NewerIn(S, s[n + 1])) = n
    BY <1>1, <1>2
  <2> QED  BY <2>1, <2>4, <2>5, RanksDiffer
<1>9. Tail(s) = t
  <2>1. Tail(s) \in Seq(S) /\ Len(Tail(s)) = k - 1 /\ \A n \in 1..(k - 1) : Tail(s)[n] = s[n + 1]
    BY <1>1, <1>2, <1>3, HeadTailProperties
  <2>2. t \in Seq(S)  BY <1>1, <1>7
  <2> QED  BY <1>7, <1>8, <2>1, <2>2, SeqEqual
<1> QED  BY <1>3, <1>5, <1>9 DEF s, t, h

LEMMA TailOfOne ==
    ASSUME NEW T, NEW s \in Seq(T), Len(s) = 1
    PROVE  Tail(s) = <<>>
<1>1. s # <<>>  BY EmptySeq
<1>2. Tail(s) \in Seq(T) /\ Len(Tail(s)) = 0
  <2>1. Tail(s) \in Seq(T) /\ Len(Tail(s)) = Len(s) - 1  BY <1>1, HeadTailProperties
  <2> QED  BY <2>1
<1> QED  BY <1>2, EmptySeq

(* A sequence and the head of another, then the tail of the other.           *)
LEMMA HeadMoves ==
    ASSUME NEW T, NEW r \in Seq(T), NEW s \in Seq(T), s # <<>>
    PROVE  Append(r, Head(s)) \o Tail(s) = r \o s
<1> DEFINE b == Tail(s)
           h == <<Head(s)>>
<1>1. /\ Head(s) \in T /\ Head(s) = s[1] /\ b \in Seq(T) /\ Len(b) = Len(s) - 1
      /\ \A i \in 1..Len(b) : b[i] = s[i + 1]
      /\ Len(s) \in Nat \ {0}
  BY HeadTailProperties, EmptySeq, LenProperties
<1>2. h \in Seq(T) /\ Len(h) = 1 /\ h[1] = s[1]  BY <1>1
<1> HIDE DEF b, h
<1>3. h \o b = s
  <2>1. /\ h \o b \in Seq(T) /\ Len(h \o b) = Len(h) + Len(b)
        /\ \A i \in 1..(Len(h) + Len(b)) : (h \o b)[i] = IF i <= Len(h) THEN h[i] ELSE b[i - Len(h)]
    BY <1>1, <1>2, ConcatProperties
  <2>2. Len(h) + Len(b) = Len(s)  BY <1>1, <1>2
  <2>3. ASSUME NEW i \in 1..Len(s) PROVE (h \o b)[i] = s[i]
    <3>1. CASE i = 1  BY <1>2, <2>1, <2>2, <3>1
    <3>2. CASE i # 1
      <4>1. /\ ~ (i <= Len(h)) /\ i - Len(h) \in 1..Len(b) /\ i - Len(h) + 1 = i
            /\ i \in 1..(Len(h) + Len(b))
        BY <1>1, <1>2, <3>2
      <4>2. (h \o b)[i] = b[i - Len(h)]  BY <2>1, <4>1
      <4> QED  BY <1>1, <4>1, <4>2
    <3> QED  BY <3>1, <3>2
  <2> QED  BY <2>1, <2>2, <2>3, SeqEqual
<1>4. Append(r, Head(s)) = r \o h  BY <1>1, AppendIsConcat DEF h
<1>5. (r \o h) \o b = r \o (h \o b)  BY <1>1, <1>2, ConcatAssociative
<1> QED  BY <1>3, <1>4, <1>5 DEF b

-----------------------------------------------------------------------------
(* Index pages.  What lists the captures of a revision lists them still as   *)
(* long as the revision is the same and every write has invalidated: a       *)
(* commit has its invalidation before it, and this has a new revision.       *)
Fresh(r) == r = revision /\ InvalidatedAll

StepNames == {"list", "commit", "emit", "bump", "delete", "publish"}

StepsTyped(w) ==
    /\ w.steps \in Seq(StepNames) /\ w.captures \subseteq Captures
    /\ \A i \in 1..Len(w.steps) :
          w.steps[i] = "commit" => /\ i > 1 => w.op # "add"
                                   /\ \E j \in (i + 1)..Len(w.steps) : w.steps[j] = "bump"

WriteTyped(w) ==
    /\ StepsTyped(w)
    /\ w = [op |-> w.op, captures |-> w.captures, steps |-> w.steps]
    /\ \A i \in 1..Len(w.steps) : w.steps[i] = "commit" => w.op # "add"

BuildSound ==
    /\ build.revision \in Nat /\ build.revision <= revision
    /\ build.rows \in Seq(Captures) /\ build.cursor \in Nat
    /\ build = [stage |-> build.stage, count |-> build.count, revision |-> build.revision,
                rows |-> build.rows, cursor |-> build.cursor]
    /\ build.stage \in {"off", "due"} => build.rows = <<>>
    /\ build.stage = "walk" /\ Fresh(build.revision)
          => build.rows \o RowsAfter(build.cursor) = Rows
    /\ build.stage \in {"check", "queued", "put"} /\ Fresh(build.revision)
          => build.rows = Rows

PagesSound ==
    \A p \in index : /\ p.revision \in Nat /\ p.revision <= revision
                     /\ Fresh(p.revision) => p.rows = Rows

CapturesTyped ==
    /\ Ordered /\ changes \in 0..MaxChanges /\ revision \in Nat
    /\ \A c \in Captures : created[c] <= Cardinality(Captures) + changes

WritesTyped ==
    /\ write = [t \in Tabs |-> write[t]]
    /\ \A t \in Tabs : WriteTyped(write[t])

IndexInv == CapturesTyped /\ WritesTyped /\ BuildSound /\ PagesSound

LEMMA CursorFirst == CapturesTyped => RowsAfter(NoCursor) = Rows
<1> SUFFICES ASSUME CapturesTyped PROVE RowsAfter(NoCursor) = Rows  OBVIOUS
<1>1. Cardinality(Captures) \in Nat /\ MaxChanges \in Nat
  BY WindowAssumption, FS_CardinalityType
<1>2. {c \in Present : created[c] < NoCursor} = Present
  BY <1>1 DEF CapturesTyped, Ordered, Present, NoCursor
<1> QED  BY <1>2 DEF RowsAfter, Rows

LEMMA WalkGoesOn ==
    ASSUME CapturesTyped, NEW cursor \in Nat, RowsAfter(cursor) # <<>>
    PROVE  LET c == Head(RowsAfter(cursor))
           IN  /\ c \in Captures /\ created[c] \in Nat
               /\ RowsAfter(created[c]) = Tail(RowsAfter(cursor))
               /\ RowsAfter(cursor) \in Seq(Captures)
               /\ Len(RowsAfter(cursor)) = 1 => RowsAfter(created[c]) = <<>>
<1> DEFINE S == {d \in Present : created[d] < cursor}
           c == Head(NewestFirst(S))
<1>1. Ordered /\ S \in SUBSET Present  BY DEF CapturesTyped
<1>2. NewestFirst(S) \in Seq(S) /\ NewestFirst(S) # <<>>  BY <1>1, NewestFacts DEF RowsAfter
<1>3. S # {}
  <2>1. Len(NewestFirst(S)) # 0  BY <1>2, EmptySeq
  <2> QED  BY <1>1, <2>1, NewestFacts, FS_EmptySet
<1>4. /\ c \in S /\ \A d \in S \ {c} : created[d] < created[c]
      /\ Tail(NewestFirst(S)) = NewestFirst(S \ {c})
  BY <1>1, <1>3, NewestThenOthers
<1> HIDE DEF c
<1>5. c \in Captures /\ created[c] \in Nat /\ created[c] < cursor
  BY <1>1, <1>4 DEF Present, Ordered
<1>6. {d \in Present : created[d] < created[c]} = S \ {c}
  BY <1>1, <1>4, <1>5 DEF Present, Ordered
<1>7. NewestFirst(S) \in Seq(Captures)  BY <1>2 DEF Present
<1>8. Len(NewestFirst(S)) = 1 => Tail(NewestFirst(S)) = <<>>
  BY <1>2, TailOfOne
<1> QED  BY <1>4, <1>5, <1>6, <1>7, <1>8 DEF RowsAfter, c

(* A capture that is added is newer than all.                                *)
LEMMA GreatestCreated ==
    ASSUME CapturesTyped, Captures # {}
    PROVE  /\ Max(Range(created)) \in Nat
           /\ Max(Range(created)) <= Cardinality(Captures) + changes
           /\ \A c \in Captures : created[c] <= Max(Range(created))
<1>1. Ordered /\ Present \in SUBSET Present  BY DEF CapturesTyped
<1>2. PICK c \in Captures : \A d \in Captures : created[d] <= created[c]
  <2>1. CASE Present = {}
    <3>1. \A d \in Captures : created[d] = 0  BY <1>1, <2>1 DEF Ordered, Present
    <3> QED  BY <3>1
  <2>2. CASE Present # {}
    <3>1. PICK c \in Present : \A d \in Present \ {c} : created[d] < created[c]
      BY <1>1, <2>2, NewestThenOthers
    <3>2. \A d \in Captures : created[d] <= created[c]
      BY <1>1, <3>1 DEF Ordered, Present
    <3> QED  BY <3>1, <3>2 DEF Present
  <2> QED  BY <2>1, <2>2
<1>3. created[c] \in Range(created) /\ \A x \in Range(created) : created[c] >= x
  BY <1>1, <1>2 DEF Range, Ordered
<1>4. /\ Max(Range(created)) \in Range(created)
      /\ \A x \in Range(created) : Max(Range(created)) >= x
  BY <1>3 DEF Max
<1>5. \A d \in Captures : created[d] \in Range(created)  BY <1>1 DEF Range, Ordered
<1>6. PICK d \in Captures : Max(Range(created)) = created[d]  BY <1>1, <1>4 DEF Range, Ordered
<1> QED  BY <1>1, <1>4, <1>5, <1>6 DEF CapturesTyped, Ordered

LEMMA CommittedOrdered ==
    ASSUME CapturesTyped, NEW w, w.captures \subseteq Captures,
           w.op = "add" => \E c : w.captures = {c}
    PROVE  /\ Committed(w) \in [Captures -> Nat]
           /\ \A c, d \in Captures :
                 Committed(w)[c] > 0 /\ Committed(w)[c] = Committed(w)[d] => c = d
           /\ \A c \in Captures :
                 \/ Committed(w)[c] <= Cardinality(Captures) + changes
                 \/ w.op = "add" /\ Committed(w)[c] = 1 + Max(Range(created))
<1> DEFINE f == Committed(w)
           m == Max(Range(created))
<1>1. f = [c \in Captures |-> IF c \notin w.captures THEN created[c]
                              ELSE IF w.op = "add" THEN 1 + m ELSE 0]
  BY DEF Committed
<1>2. /\ created \in [Captures -> Nat] /\ Cardinality(Captures) + changes \in Nat
      /\ \A c, d \in Captures : created[c] > 0 /\ created[c] = created[d] => c = d
      /\ \A c \in Captures : created[c] <= Cardinality(Captures) + changes
  BY WindowAssumption, FS_CardinalityType DEF CapturesTyped, Ordered, Present
<1>3. Captures # {} => m \in Nat /\ \A c \in Captures : created[c] <= m
  BY GreatestCreated
<1> HIDE DEF m, f
<1>4. CASE w.op = "add"
  <2>1. PICK x : w.captures = {x}  BY <1>4
  <2>2. \A c \in Captures : f[c] = IF c = x THEN 1 + m ELSE created[c]
    BY <1>1, <1>4, <2>1
  <2>3. f \in [Captures -> Nat]  BY <1>1, <1>2, <1>3
  <2>4. \A c, d \in Captures : f[c] > 0 /\ f[c] = f[d] => c = d
    BY <1>2, <1>3, <2>2
  <2> QED  BY <1>2, <1>4, <2>2, <2>3, <2>4 DEF f, m
<1>5. CASE w.op # "add"
  <2>1. \A c \in Captures : f[c] = IF c \in w.captures THEN 0 ELSE created[c]
    BY <1>1, <1>5
  <2>2. f \in [Captures -> Nat]  BY <1>1, <1>2, <1>5
  <2>3. \A c, d \in Captures : f[c] > 0 /\ f[c] = f[d] => c = d
    BY <1>2, <2>1
  <2> QED  BY <1>2, <2>1, <2>2, <2>3 DEF f
<1> QED  BY <1>4, <1>5

(* A step of a write that is at its beginning or under way.                  *)
(* A step of a write takes the first of its steps.                           *)
TakesFirst(t, w) ==
    /\ w.steps \in Seq(StepNames) /\ Head(w.steps) = w.steps[1]
    /\ Len(w.steps) \in Nat \ {0} /\ Tail(w.steps) \in Seq(StepNames)
    /\ Len(Tail(w.steps)) = Len(w.steps) - 1
    /\ \A i \in 1..Len(Tail(w.steps)) : Tail(w.steps)[i] = w.steps[i + 1]
    /\ write' = [u \in Tabs |-> write'[u]]
    /\ \A u \in Tabs \ {t} : write'[u] = write[u]
    /\ write'[t].steps = Tail(w.steps)
    /\ write'[t].captures \subseteq w.captures /\ write'[t].op \in {w.op, "none"}
    /\ write'[t] = [op |-> write'[t].op, captures |-> write'[t].captures,
                    steps |-> write'[t].steps]

LEMMA Performed ==
    ASSUME WritesTyped, NEW t \in Tabs, NEW w, Perform(t, w), StepsTyped(w), w.steps # <<>>,
           w = [op |-> w.op, captures |-> w.captures, steps |-> w.steps]
    PROVE  TakesFirst(t, w)
<1> DEFINE s == w.steps
<1>1. /\ s \in Seq(StepNames) /\ Head(s) = s[1] /\ Len(s) \in Nat \ {0}
      /\ Tail(s) \in Seq(StepNames) /\ Len(Tail(s)) = Len(s) - 1
      /\ \A i \in 1..Len(Tail(s)) : Tail(s)[i] = s[i + 1]
  BY HeadTailProperties, EmptySeq, LenProperties DEF StepsTyped
<1>2. write' = [write EXCEPT ![t] = IF Len(s) = 1 THEN NoWrite ELSE [w EXCEPT !.steps = Tail(s)]]
  BY DEF Perform
<1>3. write = [u \in Tabs |-> write[u]]  BY DEF WritesTyped
<1> DEFINE v == write'[t]
<1>4. /\ write' = [u \in Tabs |-> write'[u]]
      /\ \A u \in Tabs \ {t} : write'[u] = write[u]
      /\ v.steps = Tail(s) /\ v.captures \subseteq w.captures /\ v.op \in {w.op, "none"}
      /\ v = [op |-> v.op, captures |-> v.captures, steps |-> v.steps]
  <2>1. Len(s) = 1 => Tail(s) = <<>>  BY <1>1, TailOfOne
  <2>2. CASE Len(s) = 1  BY <1>2, <1>3, <2>1, <2>2 DEF NoWrite
  <2>3. CASE Len(s) # 1
    <3>1. v = [w EXCEPT !.steps = Tail(s)]  BY <1>2, <1>3, <2>3
    <3>2. /\ v.steps = Tail(s) /\ v.captures = w.captures /\ v.op = w.op
          /\ v = [op |-> v.op, captures |-> v.captures, steps |-> v.steps]
      BY <3>1
    <3>3. write' = [write EXCEPT ![t] = v]  BY <1>2, <2>3, <3>1
    <3> HIDE DEF v
    <3> QED  BY <1>3, <3>2, <3>3
  <2> QED  BY <2>2, <2>3
<1> QED  BY <1>1, <1>4 DEF TakesFirst

LEMMA PerformSound ==
    ASSUME IndexInv, NEW t \in Tabs, NEW w, Perform(t, w), StepsTyped(w), w.steps # <<>>,
           w = [op |-> w.op, captures |-> w.captures, steps |-> w.steps],
           write[t] = w \/ write[t].steps = <<>>,
           w.op = "add" /\ Head(w.steps) = "commit"
              => changes' = changes + 1 /\ \E c : w.captures = {c},
           changes' \in {changes, changes + 1} /\ changes' \in 0..MaxChanges
    PROVE  IndexInv'
<1> DEFINE s == w.steps
<1>0. TakesFirst(t, w)
  <2>1. WritesTyped  BY DEF IndexInv
  <2> QED  BY <2>1, Performed, Zenon
<1>1. /\ s \in Seq(StepNames) /\ Head(s) = s[1] /\ Len(s) \in Nat \ {0}
      /\ Tail(s) \in Seq(StepNames) /\ Len(Tail(s)) = Len(s) - 1
      /\ \A i \in 1..Len(Tail(s)) : Tail(s)[i] = s[i + 1]
  BY <1>0 DEF TakesFirst
<1>2. /\ write' = [write EXCEPT ![t] = IF Len(s) = 1 THEN NoWrite ELSE [w EXCEPT !.steps = Tail(s)]]
      /\ created' = IF Head(s) = "commit" THEN Committed(w) ELSE created
      /\ revision' = IF Head(s) = "bump" THEN revision + 1 ELSE revision
      /\ index' = IF Head(s) = "delete" THEN {} ELSE index
      /\ UNCHANGED build
  BY DEF Perform
<1>3. /\ write = [u \in Tabs |-> write[u]]
      /\ \A u \in Tabs : WriteTyped(write[u])
      /\ revision \in Nat /\ CapturesTyped
  BY DEF IndexInv, WritesTyped, CapturesTyped
<1> DEFINE v == write'[t]
<1>4. /\ write' = [u \in Tabs |-> write'[u]]
      /\ \A u \in Tabs \ {t} : write'[u] = write[u]
      /\ v.steps = Tail(s) /\ v.captures \subseteq w.captures /\ v.op \in {w.op, "none"}
      /\ v = [op |-> v.op, captures |-> v.captures, steps |-> v.steps]
  BY <1>0 DEF TakesFirst
<1> HIDE DEF v
<1>5. WritesTyped'
  <2>1. WriteTyped(v)
    <3> SUFFICES ASSUME NEW i \in 1..Len(Tail(s)), Tail(s)[i] = "commit"
                 PROVE  /\ v.op # "add"
                        /\ \E j \in (i + 1)..Len(Tail(s)) : Tail(s)[j] = "bump"
      BY <1>1, <1>4 DEF WriteTyped, StepsTyped
    <3>1. i + 1 \in 1..Len(s) /\ s[i + 1] = "commit"  BY <1>1
    <3>2. w.op # "add" /\ \E j \in (i + 2)..Len(s) : s[j] = "bump"
      BY <1>1, <3>1 DEF StepsTyped
    <3>3. PICK j \in (i + 2)..Len(s) : s[j] = "bump"  BY <3>2
    <3>4. j - 1 \in (i + 1)..Len(Tail(s)) /\ Tail(s)[j - 1] = s[j]  BY <1>1, <3>3
    <3> QED  BY <1>4, <3>2, <3>3, <3>4
  <2> QED  BY <1>3, <1>4, <2>1 DEF WritesTyped, v
<1>6. CapturesTyped'
  <2>1. CASE Head(s) = "commit"
    <3>1. /\ Committed(w) \in [Captures -> Nat]
          /\ \A c, d \in Captures :
                Committed(w)[c] > 0 /\ Committed(w)[c] = Committed(w)[d] => c = d
          /\ \A c \in Captures :
                \/ Committed(w)[c] <= Cardinality(Captures) + changes
                \/ w.op = "add" /\ Committed(w)[c] = 1 + Max(Range(created))
      BY <1>3, <2>1, CommittedOrdered DEF StepsTyped
    <3>2. \A c \in Captures : Committed(w)[c] <= Cardinality(Captures) + changes'
      BY <1>3, <2>1, <3>1, GreatestCreated, WindowAssumption, FS_CardinalityType
      DEF CapturesTyped
    <3> QED  BY <1>2, <1>3, <2>1, <3>1, <3>2 DEF CapturesTyped, Ordered, Present
  <2>2. CASE Head(s) # "commit"
    <3>1. \A c \in Captures : created[c] <= Cardinality(Captures) + changes'
      BY <1>3, WindowAssumption, FS_CardinalityType DEF CapturesTyped, Ordered
    <3> QED  BY <1>2, <1>3, <2>2, <3>1 DEF CapturesTyped, Ordered, Present
  <2> QED  BY <2>1, <2>2
<1>7. ASSUME NEW r \in Nat, r <= revision, Fresh(r)'
      PROVE  Fresh(r) /\ UNCHANGED created
  <2>1. r = revision' /\ InvalidatedAll'  BY <1>7 DEF Fresh
  <2>2. Head(s) # "bump" /\ r = revision  BY <1>2, <1>3, <1>7, <2>1
  <2>3. \A i \in 1..Len(Tail(s)) : Tail(s)[i] # "bump"
    BY <1>1, <1>4, <2>1 DEF InvalidatedAll, v
  <2>4. \A i \in 1..Len(s) : s[i] # "bump"
    <3> SUFFICES ASSUME NEW i \in 1..Len(s), i # 1 PROVE s[i] # "bump"
      BY <1>1, <2>2
    <3>1. i - 1 \in 1..Len(Tail(s)) /\ (i - 1) + 1 = i  BY <1>1
    <3> QED  BY <1>1, <2>3, <3>1
  <2>5. Head(s) # "commit"
    <3>1. ASSUME s[1] = "commit" PROVE FALSE
      <4>1. PICK j \in 2..Len(s) : s[j] = "bump"  BY <1>1, <3>1 DEF StepsTyped
      <4> QED  BY <1>1, <2>4, <4>1
    <3> QED  BY <1>1, <3>1
  <2>6. \A i \in DOMAIN write[t].steps : write[t].steps[i] # "bump"
    BY <1>1, <2>4
  <2>7. InvalidatedAll
    BY <1>4, <2>1, <2>6 DEF InvalidatedAll
  <2> QED  BY <1>2, <2>2, <2>5, <2>7 DEF Fresh
<1>8. revision' \in Nat /\ revision <= revision'  BY <1>2, <1>3
<1>9. ASSUME UNCHANGED created
      PROVE  Rows' = Rows /\ \A cursor : RowsAfter(cursor)' = RowsAfter(cursor)
  BY <1>9 DEF Rows, RowsAfter, NewestFirst, Present, Newer
<1>10. BuildSound'
  <2>1. /\ build.revision \in Nat /\ build.revision <= revision /\ BuildSound
    BY DEF IndexInv, BuildSound
  <2>2. UNCHANGED build /\ build.revision <= revision'  BY <1>2, <1>3, <1>8, <2>1
  <2>3. CASE ~ Fresh(build.revision)'
    BY <2>1, <2>2, <2>3 DEF BuildSound
  <2>4. CASE Fresh(build.revision)'
    BY <1>7, <1>9, <2>1, <2>2, <2>4 DEF BuildSound
  <2> QED  BY <2>3, <2>4
<1>11. PagesSound'
  <2>1. index' \subseteq index  BY <1>2
  <2>2. ASSUME NEW q \in index' PROVE q.revision \in Nat /\ q.revision <= revision'
                                      /\ (Fresh(q.revision)' => q.rows = Rows')
    <3>1. q \in index /\ q.revision \in Nat /\ q.revision <= revision
          /\ (Fresh(q.revision) => q.rows = Rows)
      BY <2>1 DEF IndexInv, PagesSound
    <3>2. q.revision <= revision'  BY <1>3, <1>8, <3>1
    <3> QED  BY <1>7, <1>9, <3>1, <3>2
  <2> QED  BY <2>2 DEF PagesSound
<1> QED  BY <1>5, <1>6, <1>10, <1>11 DEF IndexInv

LEMMA ListsOfSteps ==
    ASSUME NEW T, NEW a \in T, NEW b \in T, NEW c \in T, NEW d \in T, NEW e \in T, NEW f \in T
    PROVE  <<a, b, c, d, e, f>> \in Seq(T) /\ <<a, b, c, d, e>> \in Seq(T)
OBVIOUS

(* The steps of a write in their order.                                      *)
LEMMA StepsInOrder ==
    ASSUME NEW op
    PROVE  /\ StepsOf(op) \in Seq(StepNames) /\ StepsOf(op) # <<>>
           /\ \A i \in 1..Len(StepsOf(op)) : StepsOf(op)[i] = "commit"
                 => /\ i > 1 => op = "clear"
                    /\ \E j \in (i + 1)..Len(StepsOf(op)) : StepsOf(op)[j] = "bump"
<1>1. CASE op = "clear"
  <2> DEFINE s == StepsOf(op)
  <2>1. s = <<"list", "commit", "emit", "bump", "delete", "publish">>  BY <1>1 DEF StepsOf
  <2>2. s \in Seq(StepNames) /\ s # <<>> /\ Len(s) = 6 /\ s[4] = "bump"
    <3>1. s \in Seq(StepNames)  BY <2>1, ListsOfSteps DEF StepNames
    <3>2. Len(s) = 6 /\ s[4] = "bump"  BY <2>1
    <3> HIDE DEF s
    <3>3. s # <<>>  BY <3>1, <3>2, EmptySeq
    <3> QED  BY <3>1, <3>2, <3>3
  <2>3. \A i \in 1..6 : s[i] = "commit" => i = 2  BY <2>1
  <2> HIDE DEF s
  <2>4. \A i \in 1..Len(s) : s[i] = "commit" => \E j \in (i + 1)..Len(s) : s[j] = "bump"
    BY <2>2, <2>3
  <2> QED  BY <1>1, <2>2, <2>4 DEF s
<1>2. CASE op # "clear"
  <2> DEFINE s == StepsOf(op)
  <2>1. s = <<"commit", "bump", "delete", "emit", "publish">>  BY <1>2 DEF StepsOf
  <2>2. s \in Seq(StepNames) /\ s # <<>> /\ Len(s) = 5 /\ s[2] = "bump"
    <3>1. s \in Seq(StepNames)  BY <2>1, ListsOfSteps DEF StepNames
    <3>2. Len(s) = 5 /\ s[2] = "bump"  BY <2>1
    <3> HIDE DEF s
    <3>3. s # <<>>  BY <3>1, <3>2, EmptySeq
    <3> QED  BY <3>1, <3>2, <3>3
  <2>3. \A i \in 1..5 : s[i] = "commit" => i = 1  BY <2>1
  <2> HIDE DEF s
  <2>4. \A i \in 1..Len(s) : s[i] = "commit" => \E j \in (i + 1)..Len(s) : s[j] = "bump"
    BY <2>2, <2>3
  <2> QED  BY <2>2, <2>3, <2>4 DEF s
<1> QED  BY <1>1, <1>2

LEMMA WriteSteps ==
    ASSUME IndexInv, NEW t \in Tabs, Begin(t) \/ Step(t)
    PROVE  IndexInv'
<1>1. CASE Begin(t)
  <2>1. PICK op \in Operations, s \in {Present} \cup {{c} : c \in Captures} :
          /\ op = "add" => Cardinality(s) = 1
          /\ Perform(t, [op |-> op, captures |-> s, steps |-> StepsOf(op)])
    BY <1>1, WindowAssumption DEF Begin
  <2> DEFINE w == [op |-> op, captures |-> s, steps |-> StepsOf(op)]
  <2>2. s \subseteq Captures /\ IsFiniteSet(s)
    <3>1. s \subseteq Captures  BY DEF Present
    <3> QED  BY <3>1, WindowAssumption, FS_Subset
  <2>3. op = "add" => \E c : s = {c}  BY <2>1, <2>2, FS_Singleton
  <2>4. w.op = op /\ w.captures = s /\ w.steps = StepsOf(op)
        /\ w = [op |-> w.op, captures |-> w.captures, steps |-> w.steps]
        /\ Perform(t, w)
    BY <2>1
  <2> HIDE DEF w
  <2>5. StepsTyped(w) /\ w.steps # <<>>  BY <2>2, <2>4, StepsInOrder DEF StepsTyped
  <2>6. /\ write[t].steps = <<>> /\ changes' = changes + 1
        /\ changes' \in 0..MaxChanges
    BY <1>1, WindowAssumption DEF Begin, IndexInv, CapturesTyped
  <2> QED  BY <2>3, <2>4, <2>5, <2>6, PerformSound
<1>2. CASE Step(t)
  <2> DEFINE w == write[t]
  <2>1. /\ w.steps # <<>> /\ Perform(t, w) /\ changes' = changes
        /\ WriteTyped(w) /\ changes \in 0..MaxChanges
    BY <1>2 DEF Step, IndexInv, WritesTyped, CapturesTyped
  <2>2. w = [op |-> w.op, captures |-> w.captures, steps |-> w.steps]
    BY DEF IndexInv, WritesTyped, WriteTyped
  <2>3. w.op = "add" => Head(w.steps) # "commit"
    <3>1. w.steps \in Seq(StepNames) /\ Head(w.steps) = w.steps[1] /\ 1 \in 1..Len(w.steps)
      BY <2>1, EmptySeq, LenProperties DEF WriteTyped, StepsTyped
    <3> QED  BY <2>1, <3>1 DEF WriteTyped
  <2>4. StepsTyped(w)  BY <2>1 DEF WriteTyped
  <2> HIDE DEF w
  <2> QED  BY <2>1, <2>2, <2>3, <2>4, PerformSound DEF w
<1> QED  BY <1>1, <1>2

LEMMA BuildSteps ==
    ASSUME IndexInv,
           BuildStarts \/ BuildWalks \/ BuildChecks \/ BuildRechecks \/ BuildPuts
           \/ \E l \in hook.loads : Read(l)
    PROVE  IndexInv'
<1>1. /\ UNCHANGED <<created, revision, write, changes>>
      /\ UNCHANGED index \/ BuildPuts
  BY DEF BuildStarts, BuildWalks, BuildChecks, BuildRechecks, BuildPuts, Read, db
<1>2. CapturesTyped' /\ WritesTyped'
  BY <1>1 DEF IndexInv, CapturesTyped, WritesTyped, Ordered, Present
<1>3. /\ Rows' = Rows /\ (\A cursor : RowsAfter(cursor)' = RowsAfter(cursor))
      /\ \A r : Fresh(r)' <=> Fresh(r)
  BY <1>1 DEF Rows, RowsAfter, NewestFirst, Present, Newer, Fresh, InvalidatedAll
<1>4. /\ build = [stage |-> build.stage, count |-> build.count, revision |-> build.revision,
                  rows |-> build.rows, cursor |-> build.cursor]
      /\ build.revision \in Nat /\ build.revision <= revision /\ build.rows \in Seq(Captures)
      /\ build.cursor \in Nat /\ revision \in Nat /\ BuildSound /\ CapturesTyped
  BY DEF IndexInv, BuildSound, CapturesTyped
<1>5. NoBuild = [stage |-> "off", count |-> 0, revision |-> 0, rows |-> <<>>, cursor |-> 0]
  BY DEF NoBuild
<1>6. CASE BuildStarts
  <2>1. build' = [stage |-> "walk", count |-> build.count, revision |-> revision,
                  rows |-> build.rows, cursor |-> NoCursor]
    BY <1>4, <1>6 DEF BuildStarts
  <2>2. build.rows = <<>>  BY <1>4, <1>6 DEF BuildSound, BuildStarts
  <2>3. RowsAfter(NoCursor) = Rows /\ NoCursor \in Nat /\ Rows \in Seq(Captures)
    <3>1. Ordered /\ Present \in SUBSET Present  BY <1>4 DEF CapturesTyped
    <3>2. Rows \in Seq(Present)  BY <3>1, NewestFacts DEF Rows
    <3>3. Rows \in Seq(Captures)  BY <3>2 DEF Present
    <3>4. NoCursor \in Nat  BY WindowAssumption, FS_CardinalityType DEF NoCursor
    <3> QED  BY <1>4, <3>3, <3>4, CursorFirst
  <2>4. build.rows \o RowsAfter(NoCursor) = Rows
    <3>1. \A s \in Seq(Captures) : <<>> \o s = s  OBVIOUS
    <3> QED  BY <2>2, <2>3, <3>1
  <2>5. BuildSound'  BY <1>1, <1>3, <1>4, <2>1, <2>3, <2>4 DEF BuildSound
  <2> QED  BY <1>1, <1>2, <1>3, <2>5, <1>6 DEF IndexInv, PagesSound, BuildStarts, db
<1>7. CASE BuildWalks
  <2> DEFINE rest == RowsAfter(build.cursor)
  <2>1. CASE rest = <<>>
    <3>1. build' = [stage |-> "check", count |-> build.count, revision |-> build.revision,
                    rows |-> build.rows, cursor |-> build.cursor]
      BY <1>4, <1>7, <2>1 DEF BuildWalks
    <3>2. \A s \in Seq(Captures) : s \o <<>> = s  OBVIOUS
    <3>3. Fresh(build.revision) => build.rows = Rows
      BY <1>4, <1>7, <2>1, <3>2 DEF BuildSound, BuildWalks
    <3>4. BuildSound'  BY <1>1, <1>3, <1>4, <3>1, <3>3 DEF BuildSound
    <3> QED  BY <1>2, <1>3, <3>4, <1>7, <1>1 DEF IndexInv, PagesSound, BuildWalks, db
  <2>2. CASE rest # <<>>
    <3> DEFINE c == Head(rest)
    <3>1. /\ c \in Captures /\ created[c] \in Nat /\ RowsAfter(created[c]) = Tail(rest)
          /\ rest \in Seq(Captures)
          /\ Len(rest) = 1 => RowsAfter(created[c]) = <<>>
      BY <1>4, <2>2, WalkGoesOn
    <3>2. /\ Append(build.rows, c) \in Seq(Captures)
          /\ Append(build.rows, c) \o Tail(rest) = build.rows \o rest
      <4> HIDE DEF rest
      <4>1. Append(build.rows, c) \o Tail(rest) = build.rows \o rest
        BY <1>4, <2>2, <3>1, HeadMoves
      <4>2. Append(build.rows, c) \in Seq(Captures)  BY <1>4, <3>1, AppendProperties
      <4> QED  BY <4>1, <4>2
    <3>3. PICK next \in {"check", "walk"} :
            /\ build' = [stage |-> next, count |-> build.count, revision |-> build.revision,
                         rows |-> Append(build.rows, c), cursor |-> created[c]]
            /\ next = "check" => Len(rest) = 1
      BY <1>4, <1>7, <2>2 DEF BuildWalks
    <3>4. Fresh(build.revision) => build.rows \o rest = Rows
      BY <1>4, <1>7 DEF BuildSound, BuildWalks
    <3>5. Fresh(build.revision) /\ next = "check" => Append(build.rows, c) = Rows
      <4>1. \A s \in Seq(Captures) : s \o <<>> = s  OBVIOUS
      <4> HIDE DEF c, rest
      <4>2. next = "check" => Tail(rest) = <<>>
        <5>1. next = "check" => Len(rest) = 1  BY <3>3
        <5> QED  BY <3>1, <5>1
      <4>3. next = "check" => Append(build.rows, c) = build.rows \o rest
        BY <3>2, <4>1, <4>2
      <4> QED  BY <3>4, <4>3
    <3>6. Fresh(build.revision) => Append(build.rows, c) \o RowsAfter(created[c]) = Rows
      BY <3>1, <3>2, <3>4
    <3> HIDE DEF c, rest
    <3>7. BuildSound'
      BY <1>1, <1>3, <1>4, <3>1, <3>2, <3>3, <3>5, <3>6 DEF BuildSound
    <3> QED  BY <1>2, <1>3, <3>7, <1>7, <1>1 DEF IndexInv, PagesSound, BuildWalks, db
  <2> QED  BY <2>1, <2>2
<1>8. CASE BuildChecks \/ BuildRechecks
  <2>1. \/ build' = NoBuild
        \/ /\ build.stage \in {"check", "queued"}
           /\ \E next \in {"queued", "put"} :
                build' = [stage |-> next, count |-> build.count, revision |-> build.revision,
                          rows |-> build.rows, cursor |-> build.cursor]
    BY <1>4, <1>8 DEF BuildChecks, BuildRechecks
  <2>2. BuildSound'
    <3>1. CASE build' = NoBuild  BY <1>1, <1>4, <1>5, <3>1 DEF BuildSound
    <3>2. CASE build' # NoBuild
      <4>1. PICK next \in {"queued", "put"} :
              build' = [stage |-> next, count |-> build.count, revision |-> build.revision,
                        rows |-> build.rows, cursor |-> build.cursor]
        BY <2>1, <3>2
      <4>2. Fresh(build.revision) => build.rows = Rows  BY <1>4, <2>1, <3>2 DEF BuildSound
      <4> QED  BY <1>1, <1>3, <1>4, <4>1, <4>2 DEF BuildSound
    <3> QED  BY <3>1, <3>2
  <2> QED
    BY <1>1, <1>2, <1>3, <2>2, <1>8 DEF IndexInv, PagesSound, BuildChecks, BuildRechecks, db
<1>9. CASE BuildPuts
  <2>1. /\ index' = {[rows |-> build.rows, count |-> build.count, revision |-> build.revision]}
        /\ build' = NoBuild
        /\ Fresh(build.revision) => build.rows = Rows
    BY <1>4, <1>9 DEF BuildPuts, BuildSound
  <2>2. BuildSound'  BY <1>1, <1>3, <1>4, <1>5, <2>1 DEF BuildSound
  <2>3. PagesSound'  BY <1>1, <1>3, <1>4, <2>1 DEF PagesSound
  <2> QED  BY <1>2, <2>2, <2>3 DEF IndexInv
<1>10. CASE \E l \in hook.loads : Read(l)
  <2>1. \/ UNCHANGED build
        \/ \E n : build' = [NoBuild EXCEPT !.stage = "due", !.count = n]
    BY <1>10 DEF Read
  <2>2. UNCHANGED index  BY <1>10 DEF Read, db
  <2>3. BuildSound'
    <3>1. CASE UNCHANGED build  BY <1>1, <1>3, <1>4, <3>1 DEF BuildSound
    <3>2. CASE \E n : build' = [NoBuild EXCEPT !.stage = "due", !.count = n]
      <4>1. PICK n : build' = [stage |-> "due", count |-> n, revision |-> 0, rows |-> <<>>,
                               cursor |-> 0]
        BY <1>5, <3>2
      <4> QED  BY <1>1, <1>4, <4>1 DEF BuildSound
    <3> QED  BY <2>1, <3>1, <3>2
  <2> QED  BY <1>1, <1>2, <1>3, <2>2, <2>3 DEF IndexInv, PagesSound
<1> QED  BY <1>6, <1>7, <1>8, <1>9, <1>10

LEMMA IndexStep == IndexInv /\ [Next]_vars => IndexInv'
<1> SUFFICES ASSUME IndexInv, [Next]_vars PROVE IndexInv'  OBVIOUS
<1>1. CASE \E t \in Tabs : Begin(t) \/ Step(t)  BY <1>1, WriteSteps
<1>2. CASE BuildStarts \/ BuildWalks \/ BuildChecks \/ BuildRechecks \/ BuildPuts
           \/ \E l \in hook.loads : Read(l)
  BY <1>2, BuildSteps
<1>3. CASE Rerender \/ Scroll \/ (\E l \in hook.loads : Finish(l)) \/ UNCHANGED vars
  <2>1. UNCHANGED <<created, revision, index, write, changes, build>>
    BY <1>3 DEF Rerender, Scroll, Finish, vars, db
  <2>2. /\ Rows' = Rows /\ (\A cursor : RowsAfter(cursor)' = RowsAfter(cursor))
        /\ \A r : Fresh(r)' <=> Fresh(r)
    BY <2>1 DEF Rows, RowsAfter, NewestFirst, Present, Newer, Fresh, InvalidatedAll
  <2>3. CapturesTyped' /\ WritesTyped'
    BY <2>1 DEF IndexInv, CapturesTyped, WritesTyped, Ordered, Present
  <2>4. BuildSound' /\ PagesSound'
    BY <2>1, <2>2 DEF IndexInv, BuildSound, PagesSound
  <2> QED  BY <2>3, <2>4 DEF IndexInv
<1> QED  BY <1>1, <1>2, <1>3 DEF Next

LEMMA IndexBegins == Init => IndexInv
<1> SUFFICES ASSUME Init PROVE IndexInv  OBVIOUS
<1> DEFINE n == Cardinality(Captures)
<1>1. n \in Nat /\ MaxChanges \in Nat  BY WindowAssumption, FS_CardinalityType
<1>2. /\ First \in [Captures -> 1..n]
      /\ \A c, d \in Captures : First[c] = First[d] => c = d
  <2>1. \E rank \in [Captures -> 1..n] : \A c, d \in Captures : rank[c] = rank[d] => c = d
    <3>1. ExistsBijection(1..n, Captures)  BY WindowAssumption, FS_CardinalityType
    <3>2. ExistsBijection(Captures, 1..n)
      BY <3>1, Fun_ExistsBijSymmetric
    <3>3. PICK f \in Bijection(Captures, 1..n) : TRUE  BY <3>2 DEF ExistsBijection
    <3> QED  BY <3>3 DEF Bijection, Injection, IsInjective
  <2> QED  BY <2>1 DEF First
<1>3. PICK s \in SUBSET Captures : created = [c \in Captures |-> IF c \in s THEN First[c] ELSE 0]
  BY DEF Init
<1>4. CapturesTyped
  BY <1>1, <1>2, <1>3 DEF Init, CapturesTyped, Ordered, Present
<1>5. WritesTyped
  <2>1. WriteTyped(NoWrite)
    BY DEF NoWrite, WriteTyped, StepsTyped
  <2> QED  BY <2>1 DEF Init, WritesTyped
<1>6. BuildSound /\ PagesSound  BY DEF Init, BuildSound, PagesSound, NoBuild
<1> QED  BY <1>4, <1>5, <1>6 DEF IndexInv

(* Index pages that would be served list the captures as they are, whatever  *)
(* tabs add, remove and clear at once and whichever writes a build meets;    *)
(* for any captures, tabs, operations and number of writes.                  *)
(* (manager.ts, extBuildCaptureIndexPages, extGetCaptureIdsIndexedPage)      *)
THEOREM IndexIsExact == Spec => []IndexPagesExact
<1>1. IndexInv => IndexPagesExact
  BY DEF IndexInv, PagesSound, IndexPagesExact, Served, Fresh
<1> QED  BY <1>1, IndexBegins, IndexStep, PTL DEF Spec

-----------------------------------------------------------------------------
(* The windows of a table.  Once no signal is on its way and none is to      *)
(* come, what was read from the newest source is what the database has:      *)
(* every commit has its signal before it, and with the signal comes a new    *)
(* source.  A removal and an addition invalidate before they signal.         *)
SignalsLast == "clear" \notin Operations

Follow(s) ==
    \A i \in 1..Len(s) : s[i] \in {"commit", "bump"}
                           => \E j \in (i + 1)..Len(s) : s[j] = "emit"

Steady == signals = 0 /\ \A t \in Tabs : \A i \in 1..Len(write[t].steps) : write[t].steps[i] # "emit"

GoodCursor(p) == \A n \in Nat : At(RowsAfter(p[2]), n) = At(Rows, p[1] + n)

LoadTyped(l, version) ==
    /\ l = [key |-> l.key, total |-> l.total, stage |-> l.stage, rows |-> l.rows,
            after |-> l.after, n |-> l.n]
    /\ l.key = Key(l.key.version, l.key.start, l.key.initial)
    /\ l.key.version \in 1..version /\ l.key.start \in Nat
    /\ \A p \in l.after : p[1] \in Nat \ {0}
    /\ l.stage = "read" => l.after = {}

SourceTyped(src) ==
    /\ src = [pages |-> src.pages, cursors |-> src.cursors]
    /\ <<0, NoCursor>> \in src.cursors
    /\ \A p \in src.cursors : p[1] \in Nat

TableTyped(h) ==
    /\ h = [version |-> h.version, sources |-> h.sources, key |-> h.key,
            inFlight |-> h.inFlight, queued |-> h.queued, loads |-> h.loads,
            view |-> h.view, scrolls |-> h.scrolls, shown |-> h.shown, total |-> h.total,
            loading |-> h.loading, loadingWindow |-> h.loadingWindow]
    /\ h.version \in Nat \ {0} /\ h.key.version \in 0..h.version
    /\ h.sources = [v \in 1..h.version |-> h.sources[v]]
    /\ SourceTyped(h.sources[h.version])
    /\ h.view \in Nat /\ h.queued \subseteq Nat
    /\ h.inFlight => h.loads # {}
    /\ \A l \in h.loads : LoadTyped(l, h.version)

(* The window that was asked for last is to come, or has come.               *)
Comes(h) == h.queued # {} \/ \E l \in h.loads : l.key = h.key
Arrives(h, steady) ==
    \/ Comes(h)
    \/ /\ ~h.loading /\ ~h.loadingWindow
       /\ steady /\ h.key.version = h.version => h.shown = At(Rows, h.key.start)

(* What was read from the newest source.                                     *)
Exact(h) ==
    /\ \A page \in h.sources[h.version].pages : page.rows = At(Rows, page.key.start)
    /\ \A p \in h.sources[h.version].cursors : GoodCursor(p)
    /\ \A l \in h.loads : l.stage # "read" /\ l.key.version = h.version
          => l.rows = At(Rows, l.key.start) /\ \A p \in l.after : GoodCursor(p)

(* The table, and the table that is about to ask for a window.               *)
Asking(h, steady) ==
    TableTyped(h) /\ (h.queued # {} => h.inFlight) /\ (steady => Exact(h))
TableSound(h, steady) == Asking(h, steady) /\ Arrives(h, steady)

TableInv ==
    /\ IndexInv /\ signals \in Nat
    /\ \A t \in Tabs : Follow(write[t].steps)
    /\ TableSound(hook, Steady)

-----------------------------------------------------------------------------
(* The rows after a row of the list are the list from there on.              *)
LEMMA RowsFrom ==
    ASSUME Ordered, NEW i \in 1..Len(Rows)
    PROVE  LET rest == RowsAfter(created[Rows[i]])
           IN  /\ Rows \in Seq(Captures) /\ rest \in Seq(Captures)
               /\ Rows[i] \in Captures /\ created[Rows[i]] \in Nat
               /\ Len(rest) = Len(Rows) - i
               /\ \A n \in 1..Len(rest) : rest[n] = Rows[n + i]
<1> DEFINE S == Present
           k == Cardinality(S)
           c == Rows[i]
           T == {d \in Present : created[d] < created[c]}
           N == NewerIn(S, c)
           rest == NewestFirst(T)
<1>1. /\ S \in SUBSET Present /\ IsFiniteSet(S) /\ k \in Nat
      /\ Rows \in Seq(S) /\ Len(Rows) = k
      /\ \A n \in 1..k : Rows[n] \in S /\ Cardinality(NewerIn(S, Rows[n])) = n - 1
  BY Ranks, NewestFacts DEF Rows
<1>2. c \in S /\ Cardinality(N) = i - 1 /\ IsFiniteSet(N)  BY <1>1, Ranks
<1>3. \A d \in S : created[d] \in Nat /\ (created[d] = created[c] => d = c)
  BY <1>2 DEF Ordered, Present
<1>4. /\ T \in SUBSET Present /\ T = S \ (N \cup {c}) /\ c \notin N /\ N \cup {c} \subseteq S
      /\ T \cap (N \cup {c}) = {}
  BY <1>2, <1>3 DEF NewerIn, Newer
<1> HIDE DEF c, N
<1>5. IsFiniteSet(N \cup {c}) /\ Cardinality(N \cup {c}) = i
  <2>1. Cardinality(N \cup {c}) = Cardinality(N) + 1  BY <1>2, <1>4, FS_AddElement
  <2> QED  BY <1>2, <1>4, <2>1, FS_AddElement
<1>6. IsFiniteSet(T) /\ Cardinality(T) = k - i
  <2> HIDE DEF S, k, T
  <2>1. Cardinality(S \ (N \cup {c})) = Cardinality(S) - Cardinality(S \cap (N \cup {c}))
        /\ IsFiniteSet(S \ (N \cup {c}))
    BY <1>1, FS_Difference
  <2>2. S \cap (N \cup {c}) = N \cup {c} /\ k = Cardinality(S)  BY <1>4 DEF k
  <2> QED  BY <1>4, <1>5, <2>1, <2>2
<1>7. /\ rest \in Seq(T) /\ Len(rest) = k - i
      /\ \A n \in 1..(k - i) : rest[n] \in T /\ Cardinality(NewerIn(T, rest[n])) = n - 1
  BY <1>4, <1>6, NewestFacts
<1>8. ASSUME NEW n \in 1..(k - i) PROVE rest[n] = Rows[n + i]
  <2> DEFINE d == rest[n]
  <2>1. d \in T /\ d \in S /\ Cardinality(NewerIn(T, d)) = n - 1 /\ IsFiniteSet(NewerIn(T, d))
    BY <1>4, <1>7, Ranks
  <2>2. NewerIn(S, d) = NewerIn(T, d) \cup (N \cup {c}) /\ NewerIn(T, d) \cap (N \cup {c}) = {}
    <3>1. created[d] \in Nat /\ created[c] \in Nat /\ created[d] < created[c]
      BY <1>2, <1>3, <2>1
    <3>2. NewerIn(T, d) \cap (N \cup {c}) = {}  BY <1>4 DEF NewerIn
    <3>3. ASSUME NEW e \in S PROVE created[e] > created[d] <=> e \in NewerIn(T, d) \cup (N \cup {c})
      <4>1. created[e] \in Nat /\ (created[e] = created[c] => e = c)  BY <1>3
      <4>2. CASE e \in T  BY <1>4, <4>2 DEF NewerIn, Newer
      <4>3. CASE e \notin T
        <5>1. e \in N \cup {c} /\ created[e] >= created[c]  BY <1>3, <1>4, <3>1, <4>1, <4>3
        <5> QED  BY <3>1, <4>1, <5>1
      <4> QED  BY <4>2, <4>3
    <3>4. NewerIn(T, d) \subseteq S  BY DEF NewerIn
    <3> HIDE DEF d, T
    <3> QED  BY <1>4, <3>2, <3>3, <3>4 DEF NewerIn, Newer
  <2> HIDE DEF d, T, S
  <2>3. Cardinality(NewerIn(S, d)) = (n - 1) + i
    <3>1. Cardinality(NewerIn(T, d) \cup (N \cup {c}))
            = Cardinality(NewerIn(T, d)) + Cardinality(N \cup {c})
                - Cardinality(NewerIn(T, d) \cap (N \cup {c}))
      BY <1>5, <2>1, FS_Union
    <3>2. Cardinality(NewerIn(T, d) \cap (N \cup {c})) = 0  BY <2>2, FS_EmptySet
    <3> QED  BY <1>1, <1>5, <2>1, <2>2, <3>1, <3>2
  <2>4. n + i \in 1..k /\ Rows[n + i] \in S /\ Cardinality(NewerIn(S, Rows[n + i])) = n + i - 1
    BY <1>1
  <2>5. Cardinality(NewerIn(S, d)) = Cardinality(NewerIn(S, Rows[n + i]))  BY <1>1, <2>3, <2>4
  <2>6. d = Rows[n + i]  BY <1>1, <2>1, <2>4, <2>5, RanksDiffer
  <2> QED  BY <2>6 DEF d
<1>9. Rows \in Seq(Captures) /\ rest \in Seq(Captures) /\ c \in Captures /\ created[c] \in Nat
  BY <1>1, <1>2, <1>3, <1>7 DEF Present
<1>10. RowsAfter(created[c]) = rest  BY DEF RowsAfter
<1> QED  BY <1>1, <1>7, <1>8, <1>9, <1>10 DEF c

(* A cursor that a window leaves behind is right for the next.               *)
LEMMA NextCursor ==
    ASSUME Ordered, NEW start \in Nat, NEW c \in Range(At(Rows, start))
    PROVE  GoodCursor(<<start + 1, created[c]>>)
<1>1. Rows \in Seq(Captures) /\ Len(Rows) \in Nat
  <2>1. Present \in SUBSET Present /\ Present \subseteq Captures  BY DEF Present
  <2> QED  BY <2>1, NewestFacts DEF Rows
<1>2. start < Len(Rows) /\ c = Rows[start + 1]
  BY <1>1 DEF At, Range
<1> DEFINE rest == RowsAfter(created[c])
<1>3. start + 1 \in 1..Len(Rows)  BY <1>1, <1>2
<1>4. /\ rest \in Seq(Captures) /\ Len(rest) = Len(Rows) - (start + 1)
      /\ \A n \in 1..Len(rest) : rest[n] = Rows[n + (start + 1)]
  BY <1>2, <1>3, RowsFrom
<1> HIDE DEF rest
<1>5. ASSUME NEW n \in Nat PROVE At(rest, n) = At(Rows, start + 1 + n)
  <2>1. n < Len(rest) <=> start + 1 + n < Len(Rows)  BY <1>1, <1>4
  <2>2. CASE n < Len(rest)
    <3>1. n + 1 \in 1..Len(rest) /\ (n + 1) + (start + 1) = start + 1 + n + 1
      BY <1>1, <1>4, <2>2
    <3>2. rest[n + 1] = Rows[start + 1 + n + 1]  BY <1>4, <3>1
    <3> QED  BY <2>1, <2>2, <3>2 DEF At
  <2>3. CASE ~(n < Len(rest))  BY <2>1, <2>3 DEF At
  <2> QED  BY <2>2, <2>3
<1> QED  BY <1>5 DEF GoodCursor, rest

LEMMA NoCursorIsGood == CapturesTyped => GoodCursor(<<0, NoCursor>>)
  BY CursorFirst DEF GoodCursor

LEMMA NewSourceSound == SourceTyped(NewSource)
  BY DEF SourceTyped, NewSource

(* The nearest cursor before a window is one of its source's.               *)
LEMMA NearestIsOne ==
    ASSUME NEW src, SourceTyped(src), NEW start \in Nat
    PROVE  Nearest(src, start) \in src.cursors /\ Nearest(src, start)[1] <= start
<1> DEFINE D == {start - p[1] : p \in {q \in src.cursors : q[1] <= start}}
<1>1. D \subseteq Nat /\ D # {}
  <2>1. <<0, NoCursor>> \in src.cursors /\ \A p \in src.cursors : p[1] \in Nat
    BY DEF SourceTyped
  <2>2. ASSUME NEW p \in src.cursors, p[1] <= start PROVE start - p[1] \in Nat
    <3>1. p[1] \in Nat  BY <2>1
    <3> QED  BY <2>2, <3>1
  <2>3. <<0, NoCursor>>[1] = 0 /\ 0 <= start  OBVIOUS
  <2>4. start - 0 \in D  BY <2>1, <2>3
  <2> QED  BY <2>2, <2>4
<1>2. PICK x \in D : \A y \in D : ~ (<<y, x>> \in OpToRel(<, Nat))
  <2> HIDE DEF D
  <2> QED  BY <1>1, NatLessThanWellFounded, WFMin
<1>3. PICK p \in src.cursors : p[1] <= start /\ x = start - p[1]  BY <1>2
<1>4. ASSUME NEW q \in src.cursors, q[1] <= start PROVE q[1] <= p[1]
  <2>1. start - q[1] \in D /\ p[1] \in Nat /\ q[1] \in Nat  BY <1>4 DEF SourceTyped
  <2>2. ~ (start - q[1] < start - p[1])
    BY <1>1, <1>2, <1>3, <2>1 DEF OpToRel
  <2> QED  BY <2>1, <2>2
<1>5. \E r \in src.cursors : r[1] <= start /\ \A q \in src.cursors : q[1] <= start => q[1] <= r[1]
  BY <1>3, <1>4
<1> QED  BY <1>5 DEF Nearest

LEMMA WindowIsLoaded ==
    ASSUME NEW h, NEW steady, Asking(h, steady), NEW version \in 1..h.version,
           NEW start \in Nat, NEW initial \in BOOLEAN,
           h.key = Key(version, start, initial) => Arrives(h, steady)
    PROVE  LET g == LoadWindow(h, Key(version, start, initial))
           IN  /\ TableSound(g, steady)
               /\ g.version = h.version /\ g.view = h.view /\ g.total = h.total
<1> DEFINE key == Key(version, start, initial)
           g == LoadWindow(h, key)
           l == [key |-> key, total |-> counted, stage |-> "read", rows |-> <<>>,
                 after |-> {}, n |-> Another(h, key)]
<1>1. /\ h = [version |-> h.version, sources |-> h.sources, key |-> h.key,
              inFlight |-> h.inFlight, queued |-> h.queued, loads |-> h.loads,
              view |-> h.view, scrolls |-> h.scrolls, shown |-> h.shown, total |-> h.total,
              loading |-> h.loading, loadingWindow |-> h.loadingWindow]
      /\ key.version = version /\ key.start = start /\ key.initial = initial
      /\ key = Key(key.version, key.start, key.initial)
      /\ h.version \in Nat
  BY DEF Asking, TableTyped, Key
<1> HIDE DEF key
<1>2. CASE h.key = key
  BY <1>2 DEF LoadWindow, TableSound, key
<1>3. CASE h.key # key /\ h.inFlight /\ ~initial
  <2>1. g = [version |-> h.version, sources |-> h.sources, key |-> key,
              inFlight |-> h.inFlight, queued |-> {start}, loads |-> h.loads,
              view |-> h.view, scrolls |-> h.scrolls, shown |-> h.shown, total |-> h.total,
              loading |-> h.loading, loadingWindow |-> h.loadingWindow]
    BY <1>1, <1>3 DEF LoadWindow
  <2> HIDE DEF g
  <2>2. TableTyped(g)  BY <1>1, <2>1 DEF Asking, TableTyped
  <2>3. Comes(g) /\ g.inFlight  BY <1>3, <2>1 DEF Comes
  <2>4. steady => Exact(g)  BY <2>1 DEF Asking, Exact
  <2> QED  BY <2>1, <2>2, <2>3, <2>4 DEF TableSound, Asking, Arrives, g, key
<1>4. CASE h.key # key /\ (~h.inFlight \/ initial)
  <2>1. g = [version |-> h.version, sources |-> h.sources, key |-> key,
             inFlight |-> TRUE, queued |-> h.queued, loads |-> h.loads \cup {l},
             view |-> h.view, scrolls |-> h.scrolls, shown |-> h.shown, total |-> h.total,
             loading |-> h.loading \/ initial, loadingWindow |-> ~initial]
    BY <1>1, <1>4 DEF LoadWindow, StartLoad
  <2>2. /\ l = [key |-> l.key, total |-> l.total, stage |-> l.stage, rows |-> l.rows,
                after |-> l.after, n |-> l.n]
        /\ l.key = key /\ l.stage = "read" /\ l.after = {}
    OBVIOUS
  <2> HIDE DEF g, l
  <2>3. LoadTyped(l, h.version)  BY <1>1, <2>2 DEF LoadTyped
  <2>4. TableTyped(g)  BY <1>1, <2>1, <2>3 DEF Asking, TableTyped
  <2>5. Comes(g) /\ g.inFlight  BY <2>1, <2>2 DEF Comes
  <2>6. steady => Exact(g)  BY <2>1, <2>2 DEF Asking, Exact
  <2> QED  BY <2>1, <2>4, <2>5, <2>6 DEF TableSound, Asking, Arrives, g, key
<1> QED  BY <1>2, <1>3, <1>4

(* A signal: a new source, and with it the windows asked for.                *)
LEMMA ReloadSound ==
    ASSUME NEW h, NEW steady, Asking(h, steady)
    PROVE  TableSound(Reload(h), steady)
<1> DEFINE g == [h EXCEPT !.key = NoKey]
<1>0. /\ h = [version |-> h.version, sources |-> h.sources, key |-> h.key,
              inFlight |-> h.inFlight, queued |-> h.queued, loads |-> h.loads,
              view |-> h.view, scrolls |-> h.scrolls, shown |-> h.shown, total |-> h.total,
              loading |-> h.loading, loadingWindow |-> h.loadingWindow]
      /\ h.version \in Nat \ {0}
  BY DEF Asking, TableTyped
<1>5. NoKey.version = 0 /\ Key(h.version, 0, TRUE).version = h.version  BY DEF NoKey, Key
<1>1. g = [version |-> h.version, sources |-> h.sources, key |-> NoKey,
              inFlight |-> h.inFlight, queued |-> h.queued, loads |-> h.loads,
              view |-> h.view, scrolls |-> h.scrolls, shown |-> h.shown, total |-> h.total,
              loading |-> h.loading, loadingWindow |-> h.loadingWindow]
  BY <1>0
<1>2. Reload(h) = LoadWindow(g, Key(h.version, 0, TRUE))  BY DEF Reload
<1> HIDE DEF g
<1>3. Asking(g, steady)
  <2>1. TableTyped(g)  BY <1>0, <1>1, <1>5 DEF Asking, TableTyped
  <2>2. steady => Exact(g)  BY <1>1 DEF Asking, Exact
  <2> QED  BY <1>1, <2>1, <2>2 DEF Asking
<1>4. g.key # Key(h.version, 0, TRUE) /\ h.version \in 1..g.version /\ 0 \in Nat
  <2>1. g.key = NoKey /\ g.version = h.version  BY <1>1
  <2>2. h.version \in Nat \ {0}  BY <1>0
  <2>3. g.key # Key(h.version, 0, TRUE)
    <3>1. NoKey.version # Key(h.version, 0, TRUE).version  BY <1>5, <2>2
    <3> QED  BY <2>1, <3>1, Zenon
  <2>4. h.version \in 1..g.version /\ 0 \in Nat  BY <2>1, <2>2
  <2> QED  BY <2>3, <2>4, Zenon
<1> QED  BY <1>2, <1>3, <1>4, WindowIsLoaded

LEMMA RerenderSound ==
    ASSUME CapturesTyped, NEW h, NEW steady, TableTyped(h), h.queued # {} => h.inFlight,
           NEW next,
           next = [version |-> h.version + 1, sources |-> Append(h.sources, NewSource),
                   key |-> h.key, inFlight |-> h.inFlight, queued |-> h.queued,
                   loads |-> h.loads, view |-> h.view, scrolls |-> h.scrolls,
                   shown |-> h.shown, total |-> h.total,
                   loading |-> h.loading, loadingWindow |-> h.loadingWindow]
    PROVE  TableSound(Reload(Request(next, next.view)), steady)
<1> DEFINE n == h.version
           sources == Append(h.sources, NewSource)
<1>1. n \in Nat \ {0} /\ h.key.version \in 0..n /\ h.view \in Nat
  BY DEF TableTyped
<1>2. sources = [v \in 1..(n + 1) |-> sources[v]] /\ sources[n + 1] = NewSource
  <2> DEFINE T == {h.sources[v] : v \in 1..n} \cup {NewSource}
  <2>1. h.sources = [v \in 1..n |-> h.sources[v]] /\ n \in Nat  BY DEF TableTyped
  <2>2. h.sources \in Seq(T) /\ Len(h.sources) = n
    <3> HIDE DEF n
    <3>1. \A v \in 1..n : h.sources[v] \in T  OBVIOUS
    <3> HIDE DEF T
    <3> QED  BY <2>1, <3>1
  <2> HIDE DEF n, T
  <2>3. NewSource \in T  BY DEF T
  <2>4. sources \in Seq(T) /\ Len(sources) = n + 1 /\ sources[n + 1] = NewSource
    BY <2>2, <2>3, AppendProperties
  <2> HIDE DEF sources
  <2> QED  BY <2>4
<1> HIDE DEF sources
<1>7. \A l \in h.loads : LoadTyped(l, n + 1) /\ l.key.version # n + 1
  <2>1. \A l \in h.loads : LoadTyped(l, n)  BY DEF TableTyped
  <2> HIDE DEF n
  <2> QED  BY <1>1, <2>1 DEF LoadTyped
<1>8. h.inFlight => h.loads # {}  BY DEF TableTyped
<1>9. h.queued \subseteq Nat  BY DEF TableTyped
<1> HIDE DEF n
<1>10. /\ next.version = n + 1 /\ next.sources = sources /\ next.key = h.key
       /\ next.inFlight = h.inFlight /\ next.queued = h.queued /\ next.loads = h.loads
       /\ next.view = h.view
  BY DEF n, sources
<1>3. TableTyped(next)
  BY <1>1, <1>2, <1>7, <1>8, <1>9, <1>10, NewSourceSound DEF TableTyped
<1>4. Exact(next)
  <2>1. \A l \in next.loads : l.key.version # next.version
    BY <1>7, <1>10
  <2>2. next.sources[next.version] = NewSource  BY <1>2, <1>10
  <2>3. NewSource.pages = {} /\ NewSource.cursors = {<<0, NoCursor>>}  BY DEF NewSource
  <2> QED  BY <2>1, <2>2, <2>3, NoCursorIsGood DEF Exact
<1>5. Asking(next, steady)  BY <1>1, <1>3, <1>4 DEF Asking
<1>6. next.key # Key(next.version, next.view, FALSE) /\ next.version \in 1..next.version
      /\ next.view \in Nat
  <2>1. Key(next.version, next.view, FALSE).version = next.version  BY DEF Key
  <2>2. next.key.version # next.version  BY <1>1, <1>10
  <2>3. next.key # Key(next.version, next.view, FALSE)  BY <2>1, <2>2, Zenon
  <2>4. next.version \in 1..next.version /\ next.view \in Nat  BY <1>1, <1>10
  <2> QED  BY <2>3, <2>4, Zenon
<1>11. TableSound(Request(next, next.view), steady)
  BY <1>5, <1>6, WindowIsLoaded DEF Request
<1> QED  BY <1>11, ReloadSound DEF TableSound

LEMMA RequestSound ==
    ASSUME NEW h, NEW steady, TableSound(h, steady), NEW start \in Nat
    PROVE  TableSound(Request(h, start), steady)
<1>1. h.version \in 1..h.version  BY DEF TableSound, Asking, TableTyped
<1> QED  BY <1>1, WindowIsLoaded DEF TableSound, Request

HookRecord(h) ==
    [version |-> h.version, sources |-> h.sources, key |-> h.key,
     inFlight |-> h.inFlight, queued |-> h.queued, loads |-> h.loads,
     view |-> h.view, scrolls |-> h.scrolls, shown |-> h.shown, total |-> h.total,
     loading |-> h.loading, loadingWindow |-> h.loadingWindow]

SteadyInvalidated == Steady => InvalidatedAll

(* What a load reads for the newest source is what the database has.         *)
LEMMA ReadSteps ==
    ASSUME TableInv, SteadyInvalidated, NEW l \in hook.loads, Read(l)
    PROVE  TableSound(hook', Steady)
<1> DEFINE src == hook.sources[l.key.version]
           start == l.key.start
           near == Nearest(src, start)
           walked == At(RowsAfter(near[2]), start - near[1])
           after == {<<start + 1, created[c]>> : c \in Range(walked)}
<1>1. /\ TableTyped(hook) /\ (Steady => Exact(hook))
      /\ Arrives(hook, Steady) /\ (hook.queued # {} => hook.inFlight)
      /\ CapturesTyped /\ PagesSound
  BY DEF TableInv, TableSound, Asking, IndexInv
<1>2. hook = HookRecord(hook) /\ LoadTyped(l, hook.version) /\ l.stage = "read"
  BY <1>1 DEF TableTyped, HookRecord, Read
<1>3. /\ l = [key |-> l.key, total |-> l.total, stage |-> l.stage, rows |-> l.rows,
              after |-> l.after, n |-> l.n]
      /\ start \in Nat /\ l.after = {} /\ hook.version \in Nat \ {0}
  BY <1>1, <1>2 DEF LoadTyped, TableTyped
<1>4. PICK rows, total, cursors :
        /\ hook' = [hook EXCEPT !.loads = (@ \ {l}) \cup
                      {[key |-> l.key, total |-> total, stage |-> "done", rows |-> rows,
                        after |-> cursors, n |-> l.n]}]
        /\ \/ /\ \E page \in src.pages : page.key = l.key /\ page.rows = rows
              /\ cursors = {}
           \/ /\ \E pages \in index : Served(pages, l.total) /\ rows = At(pages.rows, start)
              /\ cursors = {}
           \/ rows = walked /\ cursors = after
  <2> HIDE DEF src, near, start
  <2> DEFINE done == [l EXCEPT !.stage = "done"]
  <2>1. done = [key |-> l.key, total |-> l.total, stage |-> "done", rows |-> l.rows,
                after |-> {}, n |-> l.n]
    BY <1>3
  <2> HIDE DEF done
  <2>4. ASSUME NEW page \in src.pages, page.key = l.key,
               hook' = [hook EXCEPT !.loads = (@ \ {l}) \cup
                          {[done EXCEPT !.rows = page.rows, !.total = page.total]}]
        PROVE  \E rows, total :
                 /\ hook' = [hook EXCEPT !.loads = (@ \ {l}) \cup
                       {[key |-> l.key, total |-> total, stage |-> "done", rows |-> rows,
                         after |-> {}, n |-> l.n]}]
                 /\ page.rows = rows
    <3> DEFINE m == [done EXCEPT !.rows = page.rows]
    <3>2. [done EXCEPT !.rows = page.rows, !.total = page.total] = [m EXCEPT !.total = page.total]
      BY Zenon
    <3>3. m = [key |-> l.key, total |-> l.total, stage |-> "done", rows |-> page.rows,
               after |-> {}, n |-> l.n]
      BY <2>1
    <3> HIDE DEF m
    <3>4. [m EXCEPT !.total = page.total]
            = [key |-> l.key, total |-> page.total, stage |-> "done", rows |-> page.rows,
               after |-> {}, n |-> l.n]
      BY <3>3
    <3>1. [done EXCEPT !.rows = page.rows, !.total = page.total]
            = [key |-> l.key, total |-> page.total, stage |-> "done", rows |-> page.rows,
               after |-> {}, n |-> l.n]
      BY <3>2, <3>4, Zenon
    <3> QED  BY <2>4, <3>1, Zenon
  <2>5. ASSUME NEW pages \in index, Served(pages, l.total),
               hook' = [hook EXCEPT !.loads = (@ \ {l}) \cup
                          {[done EXCEPT !.rows = At(pages.rows, start)]}]
        PROVE  hook' = [hook EXCEPT !.loads = (@ \ {l}) \cup
                 {[key |-> l.key, total |-> l.total, stage |-> "done",
                   rows |-> At(pages.rows, start), after |-> {}, n |-> l.n]}]
    <3>1. [done EXCEPT !.rows = At(pages.rows, start)]
            = [key |-> l.key, total |-> l.total, stage |-> "done", rows |-> At(pages.rows, start),
               after |-> {}, n |-> l.n]
      BY <2>1
    <3> QED  BY <2>5, <3>1, Zenon
  <2>6. ASSUME hook' = [hook EXCEPT !.loads = (@ \ {l}) \cup
                          {[done EXCEPT !.rows = walked, !.after = after]}]
        PROVE  hook' = [hook EXCEPT !.loads = (@ \ {l}) \cup
                 {[key |-> l.key, total |-> l.total, stage |-> "done", rows |-> walked,
                   after |-> after, n |-> l.n]}]
    <3> DEFINE m == [done EXCEPT !.rows = walked]
    <3>2. [done EXCEPT !.rows = walked, !.after = after] = [m EXCEPT !.after = after]
      BY Zenon
    <3> HIDE DEF walked, after
    <3>3. m = [key |-> l.key, total |-> l.total, stage |-> "done", rows |-> walked,
               after |-> {}, n |-> l.n]
      BY <2>1
    <3> HIDE DEF m
    <3>4. [m EXCEPT !.after = after]
            = [key |-> l.key, total |-> l.total, stage |-> "done", rows |-> walked,
               after |-> after, n |-> l.n]
      BY <3>3
    <3>1. [done EXCEPT !.rows = walked, !.after = after]
            = [key |-> l.key, total |-> l.total, stage |-> "done", rows |-> walked,
               after |-> after, n |-> l.n]
      BY <3>2, <3>4, Zenon
    <3> QED  BY <2>6, <3>1, Zenon
  <2> HIDE DEF done
  <2>7. \/ \E page \in src.pages : page.key = l.key /\
               hook' = [hook EXCEPT !.loads = (@ \ {l}) \cup
                          {[done EXCEPT !.rows = page.rows, !.total = page.total]}]
        \/ \E pages \in index : Served(pages, l.total) /\
               hook' = [hook EXCEPT !.loads = (@ \ {l}) \cup
                          {[done EXCEPT !.rows = At(pages.rows, start)]}]
        \/ hook' = [hook EXCEPT !.loads = (@ \ {l}) \cup
                          {[done EXCEPT !.rows = walked, !.after = after]}]
    BY Zenon DEF Read, src, near, start, done
  <2> HIDE DEF walked, after
  <2>8. CASE \E page \in src.pages : page.key = l.key /\
               hook' = [hook EXCEPT !.loads = (@ \ {l}) \cup
                          {[done EXCEPT !.rows = page.rows, !.total = page.total]}]
    BY <2>4, <2>8, Zenon
  <2>9. CASE \E pages \in index : Served(pages, l.total) /\
               hook' = [hook EXCEPT !.loads = (@ \ {l}) \cup
                          {[done EXCEPT !.rows = At(pages.rows, start)]}]
    BY <2>5, <2>9, Zenon
  <2> QED  BY <2>6, <2>7, <2>8, <2>9, Zenon
<1> DEFINE r == [key |-> l.key, total |-> total, stage |-> "done", rows |-> rows,
                 after |-> cursors, n |-> l.n]
<1>5. ASSUME Steady, l.key.version = hook.version
      PROVE  rows = At(Rows, start) /\ \A p \in cursors : GoodCursor(p)
  <2>1. Exact(hook) /\ src = hook.sources[hook.version] /\ SourceTyped(src)
    BY <1>1, <1>5 DEF TableTyped
  <2>2. ASSUME NEW page \in src.pages, page.key = l.key, page.rows = rows
        PROVE  rows = At(Rows, start)
    BY <2>1, <2>2 DEF Exact
  <2>3. ASSUME NEW pages \in index, Served(pages, l.total), rows = At(pages.rows, start)
        PROVE  rows = At(Rows, start)
    BY <1>1, <1>5, <2>3 DEF PagesSound, Served, Fresh, SteadyInvalidated
  <2>4. walked = At(Rows, start)
    <3>1. near \in src.cursors /\ near[1] <= start  BY <1>3, <2>1, NearestIsOne
    <3>2. GoodCursor(near) /\ near[1] \in Nat  BY <2>1, <3>1 DEF Exact, SourceTyped
    <3> HIDE DEF near, start
    <3>3. start - near[1] \in Nat /\ near[1] + (start - near[1]) = start
      BY <1>3, <3>1, <3>2
    <3>4. At(RowsAfter(near[2]), start - near[1]) = At(Rows, near[1] + (start - near[1]))
      BY <3>2, <3>3 DEF GoodCursor
    <3> QED  BY <3>3, <3>4
  <2>5. \A p \in after : GoodCursor(p)
    <3> HIDE DEF walked, start
    <3>1. \A c \in Range(walked) : GoodCursor(<<start + 1, created[c]>>)
      BY <1>1, <1>3, <2>4, NextCursor DEF CapturesTyped
    <3> QED  BY <3>1
  <2> HIDE DEF src, start, walked, after
  <2> QED  BY <1>4, <2>2, <2>3, <2>4, <2>5
<1>6. \A p \in cursors : p[1] \in Nat \ {0}
  <2> HIDE DEF start, walked, src
  <2>1. \A p \in after : p[1] = start + 1  OBVIOUS
  <2> HIDE DEF after
  <2> QED  BY <1>3, <1>4, <2>1
<1> HIDE DEF src, start, near, walked, after
<1>7. LoadTyped(r, hook.version) /\ r.key = l.key
  BY <1>2, <1>6 DEF LoadTyped
<1>8. Steady => \/ r.key.version # hook.version
                \/ r.rows = At(Rows, r.key.start) /\ \A p \in r.after : GoodCursor(p)
  BY <1>5 DEF start
<1>9. hook' = HookRecord(hook') /\ hook'.loads = (hook.loads \ {l}) \cup {r}
      /\ hook'.version = hook.version /\ hook'.sources = hook.sources /\ hook'.key = hook.key
      /\ hook'.inFlight = hook.inFlight /\ hook'.queued = hook.queued
      /\ hook'.view = hook.view /\ hook'.shown = hook.shown
      /\ hook'.loading = hook.loading /\ hook'.loadingWindow = hook.loadingWindow
  <2> HIDE DEF r
  <2>1. hook' = [hook EXCEPT !.loads = (@ \ {l}) \cup {r}]  BY <1>4 DEF r
  <2>2. hook' = [version |-> hook.version, sources |-> hook.sources, key |-> hook.key,
                 inFlight |-> hook.inFlight, queued |-> hook.queued,
                 loads |-> (hook.loads \ {l}) \cup {r},
                 view |-> hook.view, scrolls |-> hook.scrolls, shown |-> hook.shown,
                 total |-> hook.total, loading |-> hook.loading,
                 loadingWindow |-> hook.loadingWindow]
    BY <1>2, <2>1 DEF HookRecord
  <2> QED  BY <2>2 DEF HookRecord
<1> HIDE DEF r
<1>10. TableTyped(hook')  BY <1>1, <1>7, <1>9 DEF TableTyped, HookRecord
<1>11. Steady => Exact(hook')  BY <1>1, <1>8, <1>9 DEF Exact
<1>12. Arrives(hook', Steady)  BY <1>1, <1>7, <1>9 DEF Arrives, Comes
<1> QED  BY <1>1, <1>9, <1>10, <1>11, <1>12 DEF TableSound, Asking

(* A load that ends shows what it read, or another is to come.               *)
LEMMA FinishSteps ==
    ASSUME TableInv, NEW l \in hook.loads, Finish(l)
    PROVE  TableSound(hook', Steady)
<1> DEFINE v == l.key.version
           old == hook.sources[v]
           new == [pages |-> old.pages \cup {[key |-> l.key, rows |-> l.rows, total |-> l.total]},
                   cursors |-> {p \in old.cursors : \A q \in l.after : q[1] # p[1]} \cup l.after]
           sources == [hook.sources EXCEPT ![v] = new]
           kept == [hook EXCEPT !.sources[v] = new]
           ended == [Arrived(kept, l) EXCEPT !.loads = @ \ {l}, !.inFlight = FALSE]
           queued == NextQueued(ended, v)
           next == IF queued.total = hook.total THEN queued ELSE Request(queued, queued.view)
<1>1. /\ TableTyped(hook) /\ (Steady => Exact(hook))
      /\ Arrives(hook, Steady) /\ l.stage = "done"
  BY DEF TableInv, TableSound, Asking, Finish
<1>2. hook = HookRecord(hook) /\ LoadTyped(l, hook.version) /\ v \in 1..hook.version
      /\ hook.version \in Nat \ {0}
  BY <1>1 DEF TableTyped, HookRecord, LoadTyped
<1>3. hook' = [next EXCEPT !.sources =
                 [u \in DOMAIN @ |-> IF InUse(next, u) THEN @[u] ELSE NewSource]]
  BY Zenon DEF Finish
<1> HIDE DEF queued, next, new, old
<1>4. kept = [version |-> hook.version, sources |-> sources, key |-> hook.key,
              inFlight |-> hook.inFlight, queued |-> hook.queued, loads |-> hook.loads,
              view |-> hook.view, scrolls |-> hook.scrolls, shown |-> hook.shown,
              total |-> hook.total, loading |-> hook.loading,
              loadingWindow |-> hook.loadingWindow]
  BY <1>2 DEF HookRecord
<1>5. /\ sources = [u \in 1..hook.version |-> sources[u]]
      /\ sources[v] = new /\ \A u \in 1..hook.version \ {v} : sources[u] = hook.sources[u]
  BY <1>1, <1>2 DEF TableTyped
<1> HIDE DEF sources, kept
<1>6. SourceTyped(sources[hook.version])
  <2>1. SourceTyped(hook.sources[hook.version])  BY <1>1 DEF TableTyped
  <2>2. CASE v # hook.version
    <3>1. hook.version \in 1..hook.version \ {v}  BY <1>2, <2>2
    <3>2. sources[hook.version] = hook.sources[hook.version]  BY <1>5, <3>1
    <3> QED  BY <2>1, <3>2, Zenon
  <2>3. CASE v = hook.version
    <3>1. \A p \in l.after : p[1] \in Nat \ {0}  BY <1>2 DEF LoadTyped
    <3>2. SourceTyped(old)  BY <2>1, <2>3 DEF old
    <3>3. <<0, NoCursor>>[1] = 0  OBVIOUS
    <3>4. new.cursors = {p \in old.cursors : \A q \in l.after : q[1] # p[1]} \cup l.after
          /\ new = [pages |-> new.pages, cursors |-> new.cursors]
      BY DEF new
    <3> QED  BY <1>5, <2>3, <3>1, <3>2, <3>3, <3>4 DEF SourceTyped
  <2> QED  BY <2>2, <2>3
<1>7. ASSUME Steady
      PROVE  /\ \A page \in sources[hook.version].pages : page.rows = At(Rows, page.key.start)
             /\ \A p \in sources[hook.version].cursors : GoodCursor(p)
  <2>1. Exact(hook)  BY <1>1, <1>7
  <2>2. CASE v # hook.version
    <3>1. hook.version \in 1..hook.version \ {v}  BY <1>2, <2>2
    <3>2. sources[hook.version] = hook.sources[hook.version]  BY <1>5, <3>1
    <3> QED  BY <2>1, <3>2 DEF Exact
  <2>3. CASE v = hook.version
    <3>1. l.rows = At(Rows, l.key.start) /\ \A p \in l.after : GoodCursor(p)
      BY <1>1, <2>1, <2>3 DEF Exact
    <3>2. sources[hook.version] = new /\ old = hook.sources[hook.version]
      BY <1>5, <2>3 DEF old
    <3>3. /\ new.pages = old.pages \cup {[key |-> l.key, rows |-> l.rows, total |-> l.total]}
          /\ new.cursors \subseteq old.cursors \cup l.after
      BY DEF new
    <3> QED  BY <2>1, <3>1, <3>2, <3>3 DEF Exact
  <2> QED  BY <2>2, <2>3
<1>8. /\ ended = [version |-> hook.version, sources |-> sources, key |-> hook.key,
                    inFlight |-> FALSE, queued |-> hook.queued, loads |-> hook.loads \ {l},
                    view |-> hook.view, scrolls |-> hook.scrolls, shown |-> ended.shown,
                    total |-> ended.total, loading |-> ended.loading, loadingWindow |-> ended.loadingWindow]
        /\ \/ /\ hook.key = l.key /\ ended.shown = l.rows /\ ~ended.loading /\ ~ended.loadingWindow
           \/ /\ hook.key # l.key /\ ended.shown = hook.shown /\ ended.loading = hook.loading
              /\ ended.loadingWindow = hook.loadingWindow
  <2> DEFINE a == Arrived(kept, l)
             b == [a EXCEPT !.loads = @ \ {l}]
  <2>1. /\ a = [version |-> hook.version, sources |-> sources, key |-> hook.key,
                  inFlight |-> hook.inFlight, queued |-> hook.queued, loads |-> hook.loads,
                  view |-> hook.view, scrolls |-> hook.scrolls, shown |-> a.shown,
                  total |-> a.total, loading |-> a.loading, loadingWindow |-> a.loadingWindow]
          /\ \/ /\ hook.key = l.key /\ a.shown = l.rows /\ ~a.loading /\ ~a.loadingWindow
             \/ /\ hook.key # l.key /\ a.shown = hook.shown /\ a.loading = hook.loading
                /\ a.loadingWindow = hook.loadingWindow
    <3>1. CASE hook.key # l.key
      <4>1. a = kept  BY <1>4, <3>1 DEF Arrived
      <4> HIDE DEF a
      <4> QED  BY <1>4, <3>1, <4>1
    <3>2. CASE hook.key = l.key
      <4> DEFINE off == FALSE
                 x == [kept EXCEPT !.shown = l.rows]
                 y == [x EXCEPT !.total = l.total]
                 z == [y EXCEPT !.loading = off]
                 w == [z EXCEPT !.loadingWindow = off]
      <4>1. kept.key = hook.key  BY <1>4
      <4>2. a = w  BY <3>2, <4>1, Zenon DEF Arrived
      <4> HIDE DEF off
      <4>3. x = [version |-> hook.version, sources |-> sources, key |-> hook.key,
                 inFlight |-> hook.inFlight, queued |-> hook.queued, loads |-> hook.loads,
                 view |-> hook.view, scrolls |-> hook.scrolls, shown |-> l.rows,
                 total |-> hook.total, loading |-> hook.loading,
                 loadingWindow |-> hook.loadingWindow]
        BY <1>4
      <4> HIDE DEF x
      <4>4. y = [version |-> hook.version, sources |-> sources, key |-> hook.key,
                 inFlight |-> hook.inFlight, queued |-> hook.queued, loads |-> hook.loads,
                 view |-> hook.view, scrolls |-> hook.scrolls, shown |-> l.rows,
                 total |-> l.total, loading |-> hook.loading,
                 loadingWindow |-> hook.loadingWindow]
        BY <4>3
      <4> HIDE DEF y
      <4>5. z = [version |-> hook.version, sources |-> sources, key |-> hook.key,
                 inFlight |-> hook.inFlight, queued |-> hook.queued, loads |-> hook.loads,
                 view |-> hook.view, scrolls |-> hook.scrolls, shown |-> l.rows,
                 total |-> l.total, loading |-> off,
                 loadingWindow |-> hook.loadingWindow]
        BY <4>4
      <4> HIDE DEF z
      <4>6. w = [version |-> hook.version, sources |-> sources, key |-> hook.key,
                 inFlight |-> hook.inFlight, queued |-> hook.queued, loads |-> hook.loads,
                 view |-> hook.view, scrolls |-> hook.scrolls, shown |-> l.rows,
                 total |-> l.total, loading |-> off, loadingWindow |-> off]
        BY <4>5
      <4> HIDE DEF w
      <4>7. ~off  BY DEF off
      <4> HIDE DEF a
      <4> QED  BY <3>2, <4>2, <4>6, <4>7
    <3> QED  BY <3>1, <3>2
  <2> HIDE DEF a
  <2>3. b = [version |-> hook.version, sources |-> sources, key |-> hook.key,
             inFlight |-> hook.inFlight, queued |-> hook.queued, loads |-> hook.loads \ {l},
             view |-> hook.view, scrolls |-> hook.scrolls, shown |-> a.shown,
             total |-> a.total, loading |-> a.loading, loadingWindow |-> a.loadingWindow]
    BY <2>1
  <2>4. ended = [b EXCEPT !.inFlight = FALSE]  BY Zenon DEF a
  <2> HIDE DEF b, ended
  <2>5. ended = [version |-> hook.version, sources |-> sources, key |-> hook.key,
                 inFlight |-> FALSE, queued |-> hook.queued, loads |-> hook.loads \ {l},
                 view |-> hook.view, scrolls |-> hook.scrolls, shown |-> a.shown,
                 total |-> a.total, loading |-> a.loading, loadingWindow |-> a.loadingWindow]
    BY <2>3, <2>4
  <2> QED  BY <2>1, <2>5
<1> HIDE DEF ended
<1>9. TableTyped(ended)
  BY <1>1, <1>5, <1>6, <1>8 DEF TableTyped
<1>10. Steady => Exact(ended)
  <2>1. ASSUME Steady PROVE Exact(ended)
    <3>1. Exact(hook)  BY <1>1, <2>1
    <3> QED  BY <1>7, <1>8, <2>1, <3>1 DEF Exact
  <2> QED  BY <2>1
<1>11. Arrives(ended, Steady)
  <2>1. CASE hook.key = l.key
    <3>1. ended.key = l.key /\ ended.version = hook.version /\ ended.shown = l.rows
          /\ ~ended.loading /\ ~ended.loadingWindow
      BY <1>8, <2>1
    <3>2. Steady /\ l.key.version = hook.version => l.rows = At(Rows, l.key.start)
      BY <1>1 DEF Exact
    <3> QED  BY <3>1, <3>2 DEF Arrives
  <2>2. CASE hook.key # l.key
    <3>1. /\ ended.key = hook.key /\ ended.version = hook.version /\ ended.shown = hook.shown
          /\ ended.loading = hook.loading /\ ended.loadingWindow = hook.loadingWindow
          /\ ended.queued = hook.queued /\ ended.loads = hook.loads \ {l}
      BY <1>8, <2>2
    <3> QED  BY <1>1, <2>2, <3>1 DEF Arrives, Comes
  <2> QED  BY <2>1, <2>2
<1>12. TableSound(queued, Steady) /\ queued.version = hook.version
  <2>1. CASE ended.queued = {}
    <3>1. queued = ended  BY <2>1 DEF queued, NextQueued
    <3> QED  BY <1>8, <1>9, <1>10, <1>11, <2>1, <3>1 DEF TableSound, Asking
  <2>2. CASE ended.queued # {}
    <3> DEFINE start == CHOOSE s \in ended.queued : TRUE
               x == [ended EXCEPT !.queued = {}]
               y == [x EXCEPT !.key = NoKey]
    <3>1. start \in Nat  BY <1>9, <2>2 DEF TableTyped
    <3>2. queued = LoadWindow(y, Key(v, start, FALSE))
      BY <2>2, Zenon DEF queued, NextQueued
    <3> HIDE DEF start
    <3>3. ended = HookRecord(ended) /\ ended.version = hook.version
          /\ ended.sources = sources /\ ended.loads = hook.loads \ {l}
      BY <1>8, <1>9 DEF TableTyped, HookRecord
    <3>4. x = [version |-> ended.version, sources |-> ended.sources, key |-> ended.key,
               inFlight |-> ended.inFlight, queued |-> {}, loads |-> ended.loads,
               view |-> ended.view, scrolls |-> ended.scrolls, shown |-> ended.shown,
               total |-> ended.total, loading |-> ended.loading,
               loadingWindow |-> ended.loadingWindow]
      BY <3>3 DEF HookRecord
    <3> HIDE DEF x
    <3>5. y = [version |-> ended.version, sources |-> ended.sources, key |-> NoKey,
               inFlight |-> ended.inFlight, queued |-> {}, loads |-> ended.loads,
               view |-> ended.view, scrolls |-> ended.scrolls, shown |-> ended.shown,
               total |-> ended.total, loading |-> ended.loading,
               loadingWindow |-> ended.loadingWindow]
      BY <3>4
    <3> HIDE DEF y
    <3>6. NoKey.version = 0 /\ Key(v, start, FALSE).version = v  BY DEF NoKey, Key
    <3>7. TableTyped(y)  BY <1>2, <1>9, <3>3, <3>5, <3>6 DEF TableTyped
    <3>8. Steady => Exact(y)  BY <1>10, <3>5 DEF Exact
    <3>9. y.queued = {} /\ y.key = NoKey /\ y.version = hook.version  BY <3>3, <3>5
    <3>10. Asking(y, Steady)  BY <3>7, <3>8, <3>9 DEF Asking
    <3>11. v # 0  BY <1>2
    <3>12. y.key # Key(v, start, FALSE)  BY <3>6, <3>9, <3>11, Zenon
    <3>13. v \in 1..y.version  BY <1>2, <3>9
    <3> QED  BY <3>1, <3>2, <3>9, <3>10, <3>12, <3>13, WindowIsLoaded
  <2> QED  BY <2>1, <2>2
<1>13. TableSound(next, Steady)
  <2>1. queued.view \in Nat  BY <1>12 DEF TableSound, Asking, TableTyped
  <2> QED  BY <1>12, <2>1, RequestSound DEF next
<1> HIDE DEF v
<1>14. hook' = HookRecord(hook')
       /\ hook'.version = next.version /\ hook'.key = next.key
       /\ hook'.inFlight = next.inFlight /\ hook'.queued = next.queued
       /\ hook'.loads = next.loads /\ hook'.view = next.view /\ hook'.shown = next.shown
       /\ hook'.loading = next.loading /\ hook'.loadingWindow = next.loadingWindow
       /\ hook'.sources = [u \in DOMAIN next.sources |->
                             IF InUse(next, u) THEN next.sources[u] ELSE NewSource]
  <2> DEFINE swept == [u \in DOMAIN next.sources |->
                         IF InUse(next, u) THEN next.sources[u] ELSE NewSource]
  <2>1. hook' = [next EXCEPT !.sources = swept]  BY <1>3
  <2> HIDE DEF swept
  <2>2. next = HookRecord(next)  BY <1>13 DEF TableSound, Asking, TableTyped, HookRecord
  <2>3. hook' = [version |-> next.version, sources |-> swept, key |-> next.key,
                 inFlight |-> next.inFlight, queued |-> next.queued, loads |-> next.loads,
                 view |-> next.view, scrolls |-> next.scrolls, shown |-> next.shown,
                 total |-> next.total, loading |-> next.loading,
                 loadingWindow |-> next.loadingWindow]
    BY <2>1, <2>2 DEF HookRecord
  <2> QED  BY <2>3 DEF HookRecord, swept
<1>15. /\ hook'.sources = [u \in 1..next.version |-> hook'.sources[u]]
       /\ hook'.sources[next.version] = next.sources[next.version]
  <2>1. /\ DOMAIN next.sources = 1..next.version /\ next.version \in 1..next.version
    BY <1>13 DEF TableSound, Asking, TableTyped
  <2>2. InUse(next, next.version)  BY DEF InUse
  <2> QED  BY <1>14, <2>1, <2>2
<1>16. TableTyped(next) /\ (Steady => Exact(next)) /\ (next.queued # {} => next.inFlight)
       /\ Arrives(next, Steady)
  BY <1>13 DEF TableSound, Asking
<1>17. TableTyped(hook')  BY <1>14, <1>15, <1>16 DEF TableTyped, HookRecord
<1>18. Steady => Exact(hook')  BY <1>14, <1>15, <1>16 DEF Exact
<1>19. Arrives(hook', Steady)  BY <1>14, <1>16 DEF Arrives, Comes
<1> QED  BY <1>14, <1>16, <1>17, <1>18, <1>19 DEF TableSound, Asking

-----------------------------------------------------------------------------
(* What a step that leaves the captures alone keeps.                         *)
LEMMA Carried ==
    ASSUME TableSound(hook', Steady'), UNCHANGED created
    PROVE  TableSound(hook, Steady)'
<1>1. /\ Rows' = Rows
      /\ \A cursor : RowsAfter(cursor)' = RowsAfter(cursor)
  BY DEF Rows, RowsAfter, NewestFirst, Present, Newer
<1>2. \A p : GoodCursor(p)' <=> GoodCursor(p)  BY <1>1 DEF GoodCursor
<1>3. TableTyped(hook)' /\ (hook.queued # {} => hook.inFlight)'
  BY DEF TableSound, Asking, TableTyped, LoadTyped, SourceTyped
<1>4. Arrives(hook, Steady)'  BY <1>1 DEF TableSound, Arrives, Comes
<1>5. Steady' => Exact(hook)'  BY <1>1, <1>2 DEF TableSound, Asking, Exact
<1> QED  BY <1>3, <1>4, <1>5 DEF TableSound, Asking

LEMMA WritesFollow ==
    ASSUME SignalsLast, NEW op \in Operations
    PROVE  Follow(StepsOf(op))
<1> DEFINE s == StepsOf(op)
<1>1. s = <<"commit", "bump", "delete", "emit", "publish">>  BY DEF StepsOf, SignalsLast
<1>2. Len(s) = 5 /\ s[4] = "emit"  BY <1>1
<1>3. \A i \in 1..5 : s[i] \in {"commit", "bump"} => i \in 1..2  BY <1>1
<1> HIDE DEF s
<1>4. \A i \in 1..Len(s) : s[i] \in {"commit", "bump"} => 4 \in (i + 1)..Len(s)
  BY <1>2, <1>3
<1> QED  BY <1>2, <1>4 DEF Follow, s

(* A write that leaves nothing to signal has changed no capture.             *)
LEMMA QuietWrite ==
    ASSUME TableInv, NEW t \in Tabs, NEW w, Perform(t, w), StepsTyped(w), w.steps # <<>>,
           w = [op |-> w.op, captures |-> w.captures, steps |-> w.steps],
           write[t] = w \/ write[t].steps = <<>>, Follow(w.steps)
    PROVE  /\ signals' \in Nat
           /\ \A u \in Tabs : Follow(write'[u].steps)
           /\ TableSound(hook, Steady)'
<1>0. /\ w.steps \in Seq(StepNames) /\ Head(w.steps) = w.steps[1]
      /\ Len(w.steps) \in Nat \ {0} /\ Tail(w.steps) \in Seq(StepNames)
      /\ Len(Tail(w.steps)) = Len(w.steps) - 1
      /\ \A i \in 1..Len(Tail(w.steps)) : Tail(w.steps)[i] = w.steps[i + 1]
      /\ \A u \in Tabs \ {t} : write'[u] = write[u]
      /\ write'[t].steps = Tail(w.steps)
  <2>1. WritesTyped  BY DEF TableInv, IndexInv
  <2>2. TakesFirst(t, w)  BY <2>1, Performed, Zenon
  <2> QED  BY <2>2 DEF TakesFirst
<1> DEFINE s == w.steps
<1>1. /\ s \in Seq(StepNames) /\ Head(s) = s[1] /\ Len(s) \in Nat \ {0}
      /\ Tail(s) \in Seq(StepNames) /\ Len(Tail(s)) = Len(s) - 1
      /\ \A i \in 1..Len(Tail(s)) : Tail(s)[i] = s[i + 1]
      /\ \A u \in Tabs \ {t} : write'[u] = write[u]
      /\ write'[t].steps = Tail(s)
  BY <1>0
<1>2. /\ created' = IF Head(s) = "commit" THEN Committed(w) ELSE created
      /\ signals' = CASE Head(s) = "emit" /\ t = Self -> signals + 1
                      [] Head(s) = "emit" /\ t # Self -> signals + Copies
                      [] OTHER -> signals
      /\ UNCHANGED hook
  BY DEF Perform
<1>3. /\ signals \in Nat /\ (\A u \in Tabs : Follow(write[u].steps)) /\ TableSound(hook, Steady)
      /\ Copies \in 1..2
  BY WindowAssumption DEF TableInv
<1> HIDE DEF s
<1>4. signals' \in Nat /\ (signals' = 0 => signals = 0 /\ Head(s) # "emit")
  BY <1>2, <1>3
<1>5. Follow(Tail(s))
  <2> SUFFICES ASSUME NEW i \in 1..Len(Tail(s)), Tail(s)[i] \in {"commit", "bump"}
               PROVE  \E j \in (i + 1)..Len(Tail(s)) : Tail(s)[j] = "emit"
    BY DEF Follow
  <2>1. i + 1 \in 1..Len(s) /\ s[i + 1] \in {"commit", "bump"}  BY <1>1
  <2>2. PICK j \in (i + 2)..Len(s) : s[j] = "emit"  BY <2>1 DEF Follow, s
  <2>3. j - 1 \in (i + 1)..Len(Tail(s)) /\ Tail(s)[j - 1] = s[j]  BY <1>1, <2>2
  <2> QED  BY <2>2, <2>3
<1>6. \A u \in Tabs : Follow(write'[u].steps)  BY <1>1, <1>3, <1>5
<1>7. ASSUME Steady' PROVE Steady /\ UNCHANGED created
  <2>1. /\ signals' = 0
        /\ \A u \in Tabs : \A i \in 1..Len(write'[u].steps) : write'[u].steps[i] # "emit"
    BY <1>7 DEF Steady
  <2>2. \A i \in 1..Len(Tail(s)) : Tail(s)[i] # "emit"  BY <1>1, <2>1
  <2>3. \A i \in 1..Len(s) : s[i] # "emit"
    <3> SUFFICES ASSUME NEW i \in 1..Len(s), i # 1 PROVE s[i] # "emit"
      BY <1>1, <1>4, <2>1
    <3>1. i - 1 \in 1..Len(Tail(s)) /\ (i - 1) + 1 = i  BY <1>1
    <3> QED  BY <1>1, <2>2, <3>1
  <2>4. Head(s) # "commit"
    <3>1. ASSUME s[1] = "commit" PROVE FALSE
      <4>1. PICK j \in 2..Len(s) : s[j] = "emit"  BY <1>1, <3>1 DEF Follow, s
      <4> QED  BY <1>1, <2>3, <4>1
    <3> QED  BY <1>1, <3>1
  <2>5. \A i \in 1..Len(write[t].steps) : write[t].steps[i] # "emit"
    <3>1. CASE write[t] = w  BY <2>3, <3>1 DEF s
    <3>2. CASE write[t].steps = <<>>  BY <3>2
    <3> QED  BY <3>1, <3>2
  <2>6. \A u \in Tabs : \A i \in 1..Len(write[u].steps) : write[u].steps[i] # "emit"
    BY <1>1, <2>1, <2>5
  <2> QED  BY <1>2, <1>4, <2>1, <2>4, <2>6 DEF Steady
<1>8. TableSound(hook, Steady)'
  <2>1. CASE Steady'
    <3>1. TableSound(hook', Steady')  BY <1>2, <1>3, <1>7, <2>1
    <3> QED  BY <1>7, <2>1, <3>1, Carried
  <2>2. CASE ~Steady'
    <3>1. TableTyped(hook)' /\ (hook.queued # {} => hook.inFlight)'
      BY <1>2, <1>3 DEF TableSound, Asking, TableTyped, LoadTyped, SourceTyped
    <3>2. Arrives(hook, Steady)'  BY <1>2, <1>3, <2>2 DEF TableSound, Arrives, Comes
    <3> QED  BY <2>2, <3>1, <3>2 DEF TableSound, Asking
  <2> QED  BY <2>1, <2>2
<1> QED  BY <1>4, <1>6, <1>8

LEMMA TableStep == SignalsLast /\ TableInv /\ [Next]_vars => TableInv'
<1> SUFFICES ASSUME SignalsLast, TableInv, [Next]_vars PROVE TableInv'  OBVIOUS
<1>1. IndexInv'  BY IndexStep DEF TableInv
<1>2. /\ IndexInv /\ signals \in Nat /\ (\A t \in Tabs : Follow(write[t].steps))
      /\ TableSound(hook, Steady)
  BY DEF TableInv
<1>3. ASSUME NEW t \in Tabs, Begin(t) PROVE TableInv'
  <2>1. PICK op \in Operations, s \in {Present} \cup {{c} : c \in Captures} :
          Perform(t, [op |-> op, captures |-> s, steps |-> StepsOf(op)])
    BY <1>3 DEF Begin
  <2> DEFINE w == [op |-> op, captures |-> s, steps |-> StepsOf(op)]
  <2>2. /\ Perform(t, w) /\ w.op = op /\ w.captures = s /\ w.steps = StepsOf(op)
        /\ w = [op |-> w.op, captures |-> w.captures, steps |-> w.steps]
    BY <2>1
  <2> HIDE DEF w
  <2>3. s \subseteq Captures  BY DEF Present
  <2>4. StepsTyped(w) /\ w.steps # <<>> /\ Follow(w.steps)
    <3>1. StepsTyped(w) /\ w.steps # <<>>  BY <2>2, <2>3, StepsInOrder DEF StepsTyped
    <3>2. Follow(StepsOf(op))  BY WritesFollow
    <3> QED  BY <2>2, <3>1, <3>2
  <2>5. write[t].steps = <<>>  BY <1>3 DEF Begin
  <2> QED  BY <1>1, <2>2, <2>4, <2>5, QuietWrite DEF TableInv
<1>4. ASSUME NEW t \in Tabs, Step(t) PROVE TableInv'
  <2>1. /\ Perform(t, write[t]) /\ write[t].steps # <<>> /\ Follow(write[t].steps)
        /\ WriteTyped(write[t])
    BY <1>2, <1>4 DEF Step, IndexInv, WritesTyped
  <2>2. StepsTyped(write[t])
        /\ write[t] = [op |-> write[t].op, captures |-> write[t].captures, steps |-> write[t].steps]
    BY <2>1 DEF WriteTyped
  <2> QED  BY <1>1, <2>1, <2>2, QuietWrite DEF TableInv
<1>5. CASE UNCHANGED <<created, write, signals, hook>>
  <2>1. Steady' <=> Steady  BY <1>5 DEF Steady
  <2>2. TableSound(hook', Steady')  BY <1>2, <1>5, <2>1
  <2>3. TableSound(hook, Steady)'  BY <1>5, <2>2, Carried
  <2> QED  BY <1>1, <1>2, <1>5, <2>3 DEF TableInv
<1>6. ASSUME UNCHANGED <<created, write>>, signals' \in Nat, TableSound(hook', Steady')
      PROVE  TableInv'
  <2>1. TableSound(hook, Steady)'  BY <1>6, Carried
  <2> QED  BY <1>1, <1>2, <1>6, <2>1 DEF TableInv
<1>7. CASE Rerender
  <2> DEFINE x == [hook EXCEPT !.version = @ + 1]
             h == [x EXCEPT !.sources = Append(@, NewSource)]
  <2>1. hook' = Reload(Request(h, hook.view)) \/ hook' = Reload(Request(h, h.view))
    BY <1>7, Zenon DEF Rerender
  <2>2. TableTyped(hook) /\ (hook.queued # {} => hook.inFlight)  BY <1>2 DEF TableSound, Asking
  <2>3. hook = HookRecord(hook)  BY <2>2 DEF TableTyped, HookRecord
  <2>4. x = [version |-> hook.version + 1, sources |-> hook.sources,
             key |-> hook.key, inFlight |-> hook.inFlight, queued |-> hook.queued,
             loads |-> hook.loads, view |-> hook.view, scrolls |-> hook.scrolls,
             shown |-> hook.shown, total |-> hook.total,
             loading |-> hook.loading, loadingWindow |-> hook.loadingWindow]
    BY <2>3 DEF HookRecord
  <2> HIDE DEF x
  <2>5. h = [version |-> hook.version + 1, sources |-> Append(hook.sources, NewSource),
             key |-> hook.key, inFlight |-> hook.inFlight, queued |-> hook.queued,
             loads |-> hook.loads, view |-> hook.view, scrolls |-> hook.scrolls,
             shown |-> hook.shown, total |-> hook.total,
             loading |-> hook.loading, loadingWindow |-> hook.loadingWindow]
    BY <2>4
  <2> HIDE DEF h
  <2>6. h.view = hook.view  BY <2>5
  <2>7. TableSound(Reload(Request(h, h.view)), Steady')
    BY <1>2, <2>2, <2>5, RerenderSound DEF IndexInv
  <2>8. TableSound(hook', Steady')  BY <2>1, <2>6, <2>7, Zenon
  <2>9. UNCHANGED <<created, write>> /\ signals' \in Nat
    BY <1>2, <1>7 DEF Rerender, db
  <2> QED  BY <1>6, <2>8, <2>9
<1>8. CASE Scroll
  <2>1. PICK start \in Starts :
          hook' = Request([hook EXCEPT !.view = start, !.scrolls = @ + 1], start)
    BY <1>8, Zenon DEF Scroll
  <2>2. start \in Nat  BY <2>1 DEF Starts
  <2> DEFINE x == [hook EXCEPT !.view = start]
             h == [x EXCEPT !.scrolls = @ + 1]
  <2>3. hook' = Request(h, start)  BY <2>1, Zenon
  <2>4. TableTyped(hook) /\ (hook.queued # {} => hook.inFlight) /\ (Steady => Exact(hook))
        /\ Arrives(hook, Steady)
    BY <1>2 DEF TableSound, Asking
  <2>5. hook = HookRecord(hook)  BY <2>4 DEF TableTyped, HookRecord
  <2>6. x = [version |-> hook.version, sources |-> hook.sources,
             key |-> hook.key, inFlight |-> hook.inFlight, queued |-> hook.queued,
             loads |-> hook.loads, view |-> start, scrolls |-> hook.scrolls,
             shown |-> hook.shown, total |-> hook.total,
             loading |-> hook.loading, loadingWindow |-> hook.loadingWindow]
    BY <2>5 DEF HookRecord
  <2> HIDE DEF x
  <2>7. h = [version |-> hook.version, sources |-> hook.sources,
             key |-> hook.key, inFlight |-> hook.inFlight, queued |-> hook.queued,
             loads |-> hook.loads, view |-> start, scrolls |-> hook.scrolls + 1,
             shown |-> hook.shown, total |-> hook.total,
             loading |-> hook.loading, loadingWindow |-> hook.loadingWindow]
    BY <2>6
  <2> HIDE DEF h
  <2>8. TableTyped(h)  BY <2>2, <2>4, <2>7 DEF TableTyped
  <2>9. Steady => Exact(h)  BY <2>4, <2>7 DEF Exact
  <2>10. Arrives(h, Steady)  BY <2>4, <2>7 DEF Arrives, Comes
  <2>11. TableSound(h, Steady)  BY <2>4, <2>7, <2>8, <2>9, <2>10 DEF TableSound, Asking
  <2>12. TableSound(hook', Steady)  BY <2>2, <2>3, <2>11, RequestSound
  <2>13. UNCHANGED <<created, write, signals>>  BY <1>8 DEF Scroll, db
  <2>14. Steady' <=> Steady  BY <2>13 DEF Steady
  <2> QED  BY <1>2, <1>6, <2>12, <2>13, <2>14
<1>9. ASSUME NEW l \in hook.loads, Read(l) \/ Finish(l) PROVE TableInv'
  <2>1. SteadyInvalidated
    BY <1>2 DEF SteadyInvalidated, Steady, InvalidatedAll, Follow, IndexInv, WritesTyped,
                WriteTyped, StepsTyped
  <2>2. TableSound(hook', Steady)  BY <1>9, <2>1, ReadSteps, FinishSteps
  <2>3. UNCHANGED <<created, write, signals>>  BY <1>9 DEF Read, Finish, db
  <2>4. Steady' <=> Steady  BY <2>3 DEF Steady
  <2> QED  BY <1>2, <1>6, <2>2, <2>3, <2>4
<1> QED
  <2>1. CASE BuildStarts \/ BuildWalks \/ BuildChecks \/ BuildRechecks \/ BuildPuts
             \/ UNCHANGED vars
    BY <1>5, <2>1 DEF BuildStarts, BuildWalks, BuildChecks, BuildRechecks, BuildPuts, vars, db
  <2> QED  BY <1>3, <1>4, <1>7, <1>8, <1>9, <2>1 DEF Next

LEMMA TableBegins == SignalsLast /\ Init => TableInv
<1> SUFFICES ASSUME Init PROVE TableInv  OBVIOUS
<1>1. IndexInv  BY IndexBegins
<1>2. signals = 0 /\ write = [t \in Tabs |-> NoWrite] /\ hook = Reload(NewHook)
  BY DEF Init
<1>3. Asking(NewHook, Steady)
  <2>1. NewHook.sources = <<NewSource>> /\ NewHook.version = 1 /\ NewHook.loads = {}
        /\ NewHook.queued = {} /\ NewHook.inFlight = FALSE /\ NewHook.view = 0
        /\ NewHook.key = NoKey /\ NoKey.version = 0
    BY DEF NewHook, NoKey, Key
  <2>2. NewHook = HookRecord(NewHook)  BY DEF NewHook, HookRecord
  <2>3. TableTyped(NewHook)
    <3>1. NewHook.sources = [v \in 1..1 |-> NewHook.sources[v]] /\ NewHook.sources[1] = NewSource
      BY <2>1
    <3> QED  BY <2>1, <2>2, <3>1, NewSourceSound DEF TableTyped, HookRecord
  <2>4. Exact(NewHook)
    <3>1. NewSource.pages = {} /\ NewSource.cursors = {<<0, NoCursor>>}  BY DEF NewSource
    <3>2. NewHook.sources[NewHook.version] = NewSource  BY <2>1
    <3> QED  BY <1>1, <2>1, <3>1, <3>2, NoCursorIsGood DEF Exact, IndexInv
  <2> QED  BY <2>1, <2>3, <2>4 DEF Asking
<1>4. TableSound(hook, Steady)  BY <1>2, <1>3, ReloadSound
<1>5. \A t \in Tabs : Follow(write[t].steps)  BY <1>2 DEF NoWrite, Follow
<1> QED  BY <1>1, <1>2, <1>4, <1>5 DEF TableInv

(* A table at rest says nothing of loading, and shows the row that is there  *)
(* once the signals have come and its window is of its newest source;        *)
(* for any captures, tabs, additions and removals, signals and windows.  A   *)
(* clear, which signals before it invalidates, is left out by SignalsLast.   *)
(* (result-sources.ts, getWindow; hooks.ts, useDbBackedCapturedRecords)      *)
THEOREM TableIsCurrent ==
    ASSUME SignalsLast
    PROVE  Spec => []RowsAreCurrent
<1>1. TableInv => RowsAreCurrent
  <2> SUFFICES ASSUME TableInv, Quiet
               PROVE  /\ ~hook.loading /\ ~hook.loadingWindow
                      /\ Settled /\ hook.key.version = hook.version
                            => hook.shown = At(Rows, hook.key.start)
    BY DEF RowsAreCurrent
  <2>1. /\ hook.loads = {} /\ (hook.inFlight => hook.loads # {})
        /\ (hook.queued # {} => hook.inFlight) /\ Arrives(hook, Steady)
    BY DEF TableInv, TableSound, Asking, TableTyped, Quiet
  <2>2. ~Comes(hook)  BY <2>1 DEF Comes
  <2>3. Settled => Steady
    <3>1. ASSUME NEW s \in {<<>>, <<"publish">>} PROVE \A i \in 1..Len(s) : s[i] # "emit"
      OBVIOUS
    <3> QED  BY <3>1 DEF Settled, Steady
  <2> QED  BY <2>1, <2>2, <2>3 DEF Arrives
<1> QED  BY <1>1, TableBegins, TableStep, PTL DEF Spec

=============================================================================
