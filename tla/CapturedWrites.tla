-------------------------- MODULE CapturedWrites --------------------------
(***************************************************************************)
(* What a capture becomes, in the page's tables and in the paired archive, *)
(* and what is made of the archive again.  A write of a capture module is  *)
(* admitted if the page shows the paired account (identity.ts), changes    *)
(* the tables (database/manager.ts), and is sent as mutations              *)
(* (coordinator.buildMutations), of which the archive keeps the last of    *)
(* every state key (store._state_key).  A rebuilt cache (projectItems,     *)
(* generation.ts) and a bundle of the namespace (companion-bridge.ts) are  *)
(* both made of these records.                                             *)
(*                                                                         *)
(* The queue between the tables and the archive is DeliveryPipeline's: a   *)
(* write is in the archive here as soon as it is in the tables.  Of a      *)
(* row's content only its revision is kept, the number of its write: not   *)
(* the folder fields that the tables keep from an earlier capture          *)
(* (mergeTweetMetadata), nor the flags an interaction sets on the row      *)
(* (mutateExisting), which no mutation carries.                            *)
(***************************************************************************)
EXTENDS Integers

CONSTANTS
  Viewers, Owner, NoViewer,   \* accounts; the one of the pairing; no evidence
  Extensions, KindOf,         \* capture modules, and what each one captures
  Ids,                        \* ids of tweets and of users
  CustomItems, DataKey,       \* custom items, and the data_key of each
  Edges,                      \* pairs of users of a module that captures relations
  HashedAfter,                \* memberships whose state key, a hash, sorts after
                              \* "capture-membership:..."
  NoExtension,
  MaxWrites, MaxLoads         \* bounds of the run

VARIABLES
  viewer,     \* the account the page is signed in with
  evidence,   \* the account each class of signals shows
  loads, writes,
  tables,     \* the page's tables
  state,      \* state_records of the archive, by state key
  bridge      \* the bundle being read or saved: the pinned records, those read

writeVars == <<viewer, evidence, loads, writes, tables, state, bridge>>

identity == <<viewer, evidence, loads>>

-----------------------------------------------------------------------------
Classes == {"metadata", "session_state", "navigation_state"}

\* IdentityController.observe(): two classes of signals, and none against them.
Observed == {evidence[c] : c \in Classes} \ {NoViewer}

Corroborated(v) == \E c, d \in Classes : c # d /\ evidence[c] = v /\ evidence[d] = v

\* A variant to which a single signal is enough.
AdmittedByOne == Observed = {Owner}

Admitted == Observed = {Owner} /\ Corroborated(Owner)

-----------------------------------------------------------------------------
\* Puts of IndexedDB and of SQLite: the function with the values of another over its
\* own, and with one value put.
Over(f, g) ==
  [k \in DOMAIN f \union DOMAIN g |-> IF k \in DOMAIN f THEN f[k] ELSE g[k]]

Put(f, key, value) == Over([k \in {key} |-> value], f)

\* Rows of the tables: `${extension}-${id}` is the key of a capture.
CaptureRow(ext, id) == [ext |-> ext, id |-> id]

Capture(type, key) == [type |-> type, key |-> key]

Entity(kind, id) == [kind |-> kind, id |-> id]

\* _state_key(): an entity by its kind and id; a relationship by a hash of its kind,
\* subject, object and qualifier; its tombstone by the id the browser gave it, which
\* is none of these hashes.  This variant leaves out the kind of an entity.
EntityKeyOfId(kind, id) == [of |-> "entity", kind |-> "entity", id |-> id, ext |-> NoExtension]

EntityKey(kind, id) == [of |-> "entity", kind |-> kind, id |-> id, ext |-> NoExtension]

MembershipKey(kind, id, ext) == [of |-> "membership", kind |-> kind, id |-> id, ext |-> ext]

EdgeKey(edge, ext) == [of |-> "edge", kind |-> "user", id |-> edge, ext |-> ext]

TombstoneKey(kind, id, ext) == [of |-> "tombstone", kind |-> kind, id |-> id, ext |-> ext]

\* The mutations of this write: the state key of each, with the row it carries.
MutationOf(key, entity) ==
  [k \in {key} |-> [rev |-> writes + 1, by |-> viewer, entity |-> entity]]

entityMutations(kind, id) == MutationOf(EntityKey(kind, id), Entity(kind, id))

captureMutations(kind, id, ext) == MutationOf(MembershipKey(kind, id, ext), Entity(kind, id))

relationshipMutations(edge, ext) == MutationOf(EdgeKey(edge, ext), Entity("user", edge))

membershipTombstones(kind, id, ext) == MutationOf(TombstoneKey(kind, id, ext), Entity(kind, id))

\* route(): a write that is not admitted throws, and changes neither side.
Route(mutations) ==
  /\ Admitted
  /\ writes < MaxWrites
  /\ writes' = writes + 1
  /\ state' = Over(mutations, state)
  /\ UNCHANGED <<identity, bridge>>

-----------------------------------------------------------------------------
NoTables == [entities |-> <<>>, captures |-> <<>>, edges |-> {}]

NoBridge == [at |-> "none", items |-> <<>>, read |-> <<>>, captured |-> NoTables]

WritesInit ==
  /\ viewer = Owner
  /\ evidence = [c \in Classes |-> Owner]
  /\ loads = 0
  /\ writes = 0
  /\ tables = NoTables
  /\ state = <<>>
  /\ bridge = NoBridge

\* The page is loaded again, with the same or another account.  What the page states of
\* its viewer may be missing; history.state may be that of an earlier load.
Load(v) ==
  /\ loads < MaxLoads
  /\ loads' = loads + 1
  /\ viewer' = v
  /\ \E e \in [Classes -> {v, NoViewer, evidence["navigation_state"]}] :
       /\ \A c \in Classes : c # "navigation_state" => e[c] \in {v, NoViewer}
       /\ evidence' = e
  /\ bridge' = NoBridge
  /\ UNCHANGED <<writes, tables, state>>

\* extAddTweets, extAddUsers: the row and its membership of the module.
extAdd(ext, id) ==
  LET kind == KindOf[ext]
  IN  /\ kind \in {"tweet", "user"}
      /\ tables' = [tables EXCEPT
           !.entities = Put(@, Entity(kind, id), writes + 1),
           !.captures = Put(@, CaptureRow(ext, id), Capture(kind, id))]
      /\ Route(Over(captureMutations(kind, id, ext), entityMutations(kind, id)))

\* extAddTweetCaptureIds, extAddUserCaptureIds: the membership of a row that another
\* module has captured, or none yet.
extAddCaptureIds(ext, id) ==
  LET kind == KindOf[ext]
  IN  /\ kind \in {"tweet", "user"}
      /\ tables' = [tables EXCEPT !.captures = Put(@, CaptureRow(ext, id), Capture(kind, id))]
      /\ Route(captureMutations(kind, id, ext))

\* extRemoveTweetCaptureIds, extRemoveUserCaptureIds.
extRemoveCaptureIds(ext, id) ==
  LET kind == KindOf[ext]
      others == DOMAIN tables.captures \ {CaptureRow(ext, id)}
  IN  /\ kind \in {"tweet", "user"}
      /\ tables' = [tables EXCEPT !.captures = [r \in others |-> @[r]]]
      /\ Route(membershipTombstones(kind, id, ext))

\* extAddCustomCaptures: the row's key is the item's, the mutation's the data_key.
extAddCustomCaptures(ext, item) ==
  /\ KindOf[ext] = "custom"
  /\ tables' = [tables EXCEPT
       !.captures = Put(@, CaptureRow(ext, item), Capture("custom", DataKey[item]))]
  /\ Route(captureMutations("media_reference", DataKey[item], ext))

extAddSocialEdges(ext, edge) ==
  /\ KindOf[ext] = "user"
  /\ tables' = [tables EXCEPT !.edges = @ \union {[ext |-> ext, edge |-> edge]}]
  /\ Route(relationshipMutations(edge, ext))

\* upsertTweets, of a tweet that media-repair.ts has fetched again.
upsertTweets(id) ==
  /\ Entity("tweet", id) \in DOMAIN tables.entities
  /\ tables' = [tables EXCEPT !.entities = Put(@, Entity("tweet", id), writes + 1)]
  /\ Route(entityMutations("tweet", id))

-----------------------------------------------------------------------------
\* What the records make: entities, memberships but those in `without`, edges.
Made(items, without) ==
  LET keys(of) == {k \in DOMAIN items : k.of = of}
      typeOf(kind) == IF kind = "media_reference" THEN "custom" ELSE kind
  IN  [entities |-> {[entity |-> items[k].entity, rev |-> items[k].rev] : k \in keys("entity")},
       captures |-> {[ext |-> k.ext, type |-> typeOf(k.kind), key |-> k.id] :
                       k \in keys("membership") \ without},
       edges |-> {[ext |-> k.ext, edge |-> k.id] : k \in keys("edge")}]

\* projectItems(): the records in the order of their state keys; a tombstone deletes the
\* membership it names, if that comes before.
RemovedOnce(items) ==
  {k \in DOMAIN items :
     k.of = "membership" /\ TombstoneKey(k.kind, k.id, k.ext) \in DOMAIN items}

projectItems(items) == Made(items, RemovedOnce(items) \ HashedAfter)

\* projectionFor(): every record but the tombstones.
projectionFor(items) == Made(items, {})

\* readVerifiedState(): the records are pinned, as a stream of pages of one record.
Reconcile ==
  /\ bridge.at # "reading"
  /\ bridge' = [at |-> "reading", items |-> state, read |-> <<>>, captured |-> tables]
  /\ UNCHANGED <<identity, writes, tables, state>>

\* A variant that reads the record as it is when the page is asked for.
CurrentItem(key) == state[key]

PinnedItem(key) == bridge.items[key]

Unread == DOMAIN bridge.items \ DOMAIN bridge.read

ReadPage ==
  /\ bridge.at = "reading"
  /\ Unread # {}
  /\ LET key == CHOOSE k \in Unread : TRUE
     IN  bridge' = [bridge EXCEPT !.read = Put(@, key, PinnedItem(key))]
  /\ UNCHANGED <<identity, writes, tables, state>>

\* The proofs hold for all that was read, and the file is saved.
SaveBundle ==
  /\ bridge.at = "reading"
  /\ Unread = {}
  /\ bridge' = [bridge EXCEPT !.at = "saved"]
  /\ UNCHANGED <<identity, writes, tables, state>>

\* The companion, a proof or the user stops the export: nothing is saved.
StopBundle ==
  /\ bridge.at = "reading"
  /\ bridge' = NoBridge
  /\ UNCHANGED <<identity, writes, tables, state>>

-----------------------------------------------------------------------------
Writes ==
  \E ext \in Extensions :
    \/ \E id \in Ids :
         extAdd(ext, id) \/ extAddCaptureIds(ext, id) \/ extRemoveCaptureIds(ext, id)
    \/ \E item \in CustomItems : extAddCustomCaptures(ext, item)
    \/ \E edge \in Edges : extAddSocialEdges(ext, edge)

WritesNext ==
  \/ \E v \in Viewers : Load(v)
  \/ Writes
  \/ \E id \in Ids : upsertTweets(id)
  \/ Reconcile \/ ReadPage \/ SaveBundle \/ StopBundle

WritesSpec == WritesInit /\ [][WritesNext]_writeVars

-----------------------------------------------------------------------------
\* The tables as the records could show them: custom items by their data_key.
Shown(t) ==
  [entities |-> {[entity |-> e, rev |-> t.entities[e]] : e \in DOMAIN t.entities},
   captures |-> {[ext |-> r.ext, type |-> t.captures[r].type, key |-> t.captures[r].key] :
                   r \in DOMAIN t.captures},
   edges |-> t.edges]

\* All but the memberships that were ever removed.
NeverRemoved(made, items) ==
  [made EXCEPT !.captures =
     {c \in @ : TombstoneKey(c.type, c.key, c.ext) \notin DOMAIN items}]

\* A cache rebuilt now, and a bundle as of the moment it was pinned, show every tweet and
\* user in its last revision, every edge and every membership that was never removed,
\* and nothing that was not captured; and nothing comes from a page of another account,
\* although one signal of the page may be an earlier account's.
RebuildRestores ==
  /\ NeverRemoved(projectItems(state), state) = NeverRemoved(Shown(tables), state)
  /\ bridge.at = "saved" =>
       NeverRemoved(projectionFor(bridge.read), bridge.items)
         = NeverRemoved(Shown(bridge.captured), bridge.items)
  /\ \A k \in DOMAIN state : state[k].by = Owner

\* "... to prevent the deleted item from reappearing during reconciliation" (CONTEXT.md,
\* Tombstone): a cache rebuilt now has no membership that the tables have lost.
RemovedStaysRemoved == projectItems(state).captures \subseteq Shown(tables).captures

=============================================================================
