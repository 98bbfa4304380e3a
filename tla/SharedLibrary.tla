---------------------------- MODULE SharedLibrary ----------------------------
(***************************************************************************)
(* The Library that the workbenches of an identity share: one collection   *)
(* (the Presets) in SQLite (persistence/library.rs), and in every          *)
(* workbench the optimistic copy that multiInstanceBackend.js keeps of it. *)
(*                                                                         *)
(* A copy knows the documents it last saw in the store, with the revision  *)
(* of each and of the collection. An edit changes the cache and marks the  *)
(* key dirty; a drain, 200 ms later or at a flush, sends the difference    *)
(* with the revisions it expects. Every second an idle copy hydrates,      *)
(* which reads the items and the collection's revision in two queries. The *)
(* calls are asynchronous: other events come between the request, the      *)
(* transaction and the answer.                                             *)
(*                                                                         *)
(* A document is [id, text]; its text is the set of the edits it contains, *)
(* so that an edit that is written over can be seen to disappear.          *)
(***************************************************************************)
EXTENDS Integers, Sequences, FiniteSets, SequencesExt, TLC

CONSTANTS Workbenches,  \* the running workbenches
          Items,        \* the IDs in use, in the order of creation, a sequence
          Initially,    \* how many of them the Library holds at first
          None,
          MaxEdits,     \* bound: changes made by users
          MaxFaults     \* bound: calls that fail for another reason than a conflict

ASSUME SharedLibraryAssumption ==
  /\ Items \in Seq(ToSet(Items)) /\ IsInjective(Items)
  /\ Initially \in 0..Len(Items)
  /\ MaxEdits \in Nat /\ MaxFaults \in Nat

VARIABLES
  store,      \* library_items in the order of library_order: [id, rev, text]
  revision,   \* library_collections.revision
  cache,      \* cache: what the workbench shows
  persisted,  \* persistedDocuments: what it believes the store holds
  itemRev,    \* itemRevisions
  collRev,    \* collectionRevisions
  dirty,      \* dirty.has(key)
  drain,      \* activeDrain: the call it awaits
  conflict,   \* pendingConflict: the document of the refused update
  hydration,  \* for "refresh" and "resolve": the call that is awaited
  resolving,  \* resolveConflict: what it awaits, and the choice
  edits,      \* bound: the changes so far
  created,    \* how many of Items have been used
  faults,     \* bound: the failures so far
  overtaken,  \* history: the workbenches whose work an answer was taken over, until
              \* one is taken over by a workbench at rest
  spoiled     \* history: the items that lost an edit to one of those, or were added by it

history == <<overtaken, spoiled>>
local == <<cache, persisted, itemRev, collRev, dirty, conflict>>
vars == <<store, revision, local, drain, hydration, resolving,
          edits, created, faults, overtaken, spoiled>>

Id(s) == [k \in DOMAIN s |-> s[k].id]
Ids(s) == {s[k].id : k \in DOMAIN s}
Distinct(s) == IsInjective(Id(s))

\* Of two documents with one ID the index keeps the later one.
At(s, id) ==
  s[CHOOSE k \in DOMAIN s :
      s[k].id = id /\ \A l \in DOMAIN s : s[l].id = id => l <= k]
Documents(s) == [k \in DOMAIN s |-> [id |-> s[k].id, text |-> s[k].text]]
Revisions(s) == [id \in Ids(s) |-> At(s, id).rev]

Idle == [at |-> "idle"]
Callers == {"refresh", "resolve"}

\* The commands of a workbench run one at a time: PersistenceRuntime.session.
SessionFree(w) ==
  /\ drain[w].at # "committed" /\ resolving[w].at # "committed"
  /\ \A c \in Callers : hydration[w][c].at # "listed"

-----------------------------------------------------------------------------
(* The store: each operation is one IMMEDIATE transaction.                 *)

\* Mutant: the WHERE clause forgets the revision.
UpdatableAnyRevision(q) == q.id \in Ids(store)

\* update: the expected revision of the item, or a conflict.
Updatable(q) == q.id \in Ids(store) /\ At(store, q.id).rev = q.expected
Updated(q) ==
  [k \in DOMAIN store |->
     IF store[k].id = q.id
     THEN [id |-> q.id, rev |-> q.expected + 1, text |-> At(q.next, q.id).text]
     ELSE store[k]]

\* Mutant: a new item starts at revision 0.
CreatedAtZero(q) ==
  Append(store, [id |-> q.id, rev |-> 0, text |-> At(q.next, q.id).text])

\* create: appended with revision 1, or a conflict when the ID exists.
Creatable(q) == q.id \notin Ids(store)
Created(q) ==
  Append(store, [id |-> q.id, rev |-> 1, text |-> At(q.next, q.id).text])

\* reorder: the expected collection revision, and the same IDs, each once.
Reorderable(q) ==
  Distinct(q.next) /\ revision = q.coll /\ Ids(q.next) = Ids(store)
Reordered(q) == [k \in DOMAIN q.next |-> At(store, q.next[k].id)]

\* replace_collection: distinct IDs, every revision as expected; an item whose content is
\* the same keeps its revision.
Replaceable(q) ==
  Distinct(q.next) /\ revision = q.coll /\ Revisions(store) = q.revs
NewRevision(d) ==
  IF d.id \notin Ids(store) THEN 1
  ELSE IF At(store, d.id).text = d.text THEN At(store, d.id).rev
  ELSE At(store, d.id).rev + 1
Replaced(q) ==
  [k \in DOMAIN q.next |->
     [id |-> q.next[k].id, rev |-> NewRevision(q.next[k]), text |-> q.next[k].text]]

Accepts(q) ==
  \/ q.op = "update" /\ Updatable(q)
  \/ q.op = "create" /\ Creatable(q)
  \/ q.op = "reorder" /\ Reorderable(q)
  \/ q.op = "replace" /\ Replaceable(q)

After(q) ==
  CASE q.op = "update"  -> Updated(q)
    [] q.op = "create"  -> Created(q)
    [] q.op = "reorder" -> Reordered(q)
    [] q.op = "replace" -> Replaced(q)

-----------------------------------------------------------------------------
(* persistCollection: the call for the difference between the documents    *)
(* believed to be stored and the ones to store. A removal always changes   *)
(* the order, so the branch that would call delete is never taken.         *)

Request(w) ==
  LET prev == persisted[w]
      next == cache[w]
      added == Ids(next) \ Ids(prev)
      removed == Ids(prev) \ Ids(next)
      changed == {id \in Ids(prev) \cap Ids(next) : At(prev, id) # At(next, id)}
      moved == Id(prev) # Id(next)
      call(op, id) ==
        [op |-> op, id |-> id, next |-> next, coll |-> collRev[w], revs |-> itemRev[w],
         expected |-> IF op = "update" /\ id \in DOMAIN itemRev[w]
                      THEN itemRev[w][id] ELSE 0]
  IN  IF prev = next THEN call("none", None)
      ELSE IF added = {} /\ removed = {} /\ Cardinality(changed) = 1 /\ ~moved
      THEN call("update", CHOOSE id \in changed : TRUE)
      ELSE IF /\ Cardinality(added) = 1 /\ removed = {} /\ changed = {}
              /\ Last(next).id \in added /\ Id(prev) = Id(Front(next))
      THEN call("create", Last(next).id)
      ELSE IF added = {} /\ removed = {} /\ changed = {} /\ moved
      THEN call("reorder", None)
      ELSE call("replace", None)

-----------------------------------------------------------------------------
Init ==
  /\ store = [k \in 1..Initially |-> [id |-> Items[k], rev |-> 1, text |-> {}]]
  /\ revision = Initially
  /\ cache = [w \in Workbenches |-> Documents(store)]
  /\ persisted = cache
  /\ itemRev = [w \in Workbenches |-> Revisions(store)]
  /\ collRev = [w \in Workbenches |-> revision]
  /\ dirty = [w \in Workbenches |-> FALSE]
  /\ conflict = [w \in Workbenches |-> None]
  /\ drain = [w \in Workbenches |-> Idle]
  /\ hydration = [w \in Workbenches |-> [c \in Callers |-> Idle]]
  /\ resolving = [w \in Workbenches |-> Idle]
  /\ edits = 0 /\ created = Initially /\ faults = 0
  /\ overtaken = {} /\ spoiled = {}

-----------------------------------------------------------------------------
(* A user or an agent changes the collection that the workbench shows:     *)
(* backend.set.                                                            *)

Set(w, docs) ==
  /\ edits < MaxEdits
  /\ edits' = edits + 1
  /\ cache' = [cache EXCEPT ![w] = docs]
  /\ dirty' = [dirty EXCEPT ![w] = TRUE]
  /\ UNCHANGED <<store, revision, persisted, itemRev, collRev, drain, conflict, hydration, resolving, faults, history>>

Edit(w) ==
  \E k \in DOMAIN cache[w] :
    /\ Set(w, [cache[w] EXCEPT ![k].text = @ \cup {edits + 1}])
    /\ UNCHANGED created

Add(w) ==
  /\ created < Len(Items)
  /\ Set(w, Append(cache[w], [id |-> Items[created + 1], text |-> {edits + 1}]))
  /\ created' = created + 1

Delete(w) ==
  \E k \in DOMAIN cache[w] : Set(w, RemoveAt(cache[w], k)) /\ UNCHANGED created

Reorder(w) ==
  /\ Len(cache[w]) > 1
  /\ Set(w, Append(Tail(cache[w]), Head(cache[w])))
  /\ UNCHANGED created

-----------------------------------------------------------------------------
(* The drain. Starting it, and every turn of its loop, clears dirty and    *)
(* computes the call without letting another event in.                     *)

Turn(w) ==
  /\ dirty' = [dirty EXCEPT ![w] = FALSE]
  /\ drain' = [drain EXCEPT ![w] =
       [at |-> IF Request(w).op = "none" THEN "saving" ELSE "called",
        call |-> Request(w), attached |-> TRUE]]

\* The 200 ms timer fires, or somebody flushes, which may be at any time.
EnsureDrain(w) ==
  /\ dirty[w] /\ drain[w] = Idle
  /\ Turn(w)
  /\ UNCHANGED <<store, revision, cache, persisted, itemRev, collRev, conflict,
                 hydration, resolving, edits, created, faults, history>>

\* What a write does to items, should its workbench have been overtaken.
Spoils ==
  {id \in Ids(store') :
     id \notin Ids(store) \/ ~(At(store, id).text \subseteq At(store', id).text)}

\* The store runs the call. update and create read the collection's revision
\* after their transaction; the other two return the one they wrote.
Serve(w) ==
  /\ drain[w].at = "called" /\ SessionFree(w)
  /\ LET q == drain[w].call IN
     IF Accepts(q)
     THEN /\ store' = After(q)
          /\ revision' = revision + 1
          /\ drain' = [drain EXCEPT ![w] =
               [at |-> IF q.op \in {"update", "create"} THEN "committed" ELSE "stored",
                call |-> q, attached |-> @.attached,
                coll |-> revision', revs |-> Revisions(store')]]
          /\ spoiled' = IF w \in overtaken THEN spoiled \cup Spoils ELSE spoiled
     ELSE /\ drain' = [drain EXCEPT ![w].at = "refused"]
          /\ UNCHANGED <<store, revision, spoiled>>
  /\ UNCHANGED <<local, hydration, resolving, edits, created, faults, overtaken>>

ReadRevision(w) ==
  /\ drain[w].at = "committed"
  /\ drain' = [drain EXCEPT ![w] =
       [at |-> "stored", call |-> @.call, attached |-> @.attached,
        coll |-> revision, revs |-> @.revs]]
  /\ UNCHANGED <<store, revision, local, hydration, resolving, edits, created, faults, history>>

\* The database stays busy, or the workspace's file cannot be written.
Fault(w) ==
  /\ faults < MaxFaults
  /\ drain[w].at \in {"called", "saving"}
  /\ faults' = faults + 1
  /\ drain' = [drain EXCEPT ![w].at = "failed"]
  /\ UNCHANGED <<store, revision, local, hydration, resolving, edits, created, history>>

\* The revisions of the items after a success. They go to the map the call was
\* made from, which is not the workbench's any more when a hydration came
\* between.
Learned(w) ==
  LET q == drain[w].call IN
  CASE q.op = "replace" -> drain[w].revs
    [] q.op \in {"update", "create"} /\ drain[w].attached ->
         [id \in DOMAIN itemRev[w] \cup {q.id} |->
            IF id = q.id THEN q.expected + 1 ELSE itemRev[w][id]]
    [] OTHER -> itemRev[w]

\* Mutant: the cache is read after the call instead of before it.
StoredFromCache(w) ==
  /\ drain[w].at = "stored"
  /\ itemRev' = [itemRev EXCEPT ![w] = Learned(w)]
  /\ collRev' = [collRev EXCEPT ![w] = drain[w].coll]
  /\ persisted' = [persisted EXCEPT ![w] = cache[w]]
  /\ drain' = [drain EXCEPT ![w] = [at |-> "saving", call |-> @.call, attached |-> @.attached]]
  /\ UNCHANGED <<store, revision, cache, dirty, conflict, hydration, resolving,
                 edits, created, faults, history>>

\* The library call succeeded; the rest of the domain is saved next.
Stored(w) ==
  /\ drain[w].at = "stored"
  /\ itemRev' = [itemRev EXCEPT ![w] = Learned(w)]
  /\ collRev' = [collRev EXCEPT ![w] = drain[w].coll]
  /\ persisted' = [persisted EXCEPT ![w] = drain[w].call.next]
  /\ drain' = [drain EXCEPT ![w] = [at |-> "saving", call |-> @.call, attached |-> @.attached]]
  /\ UNCHANGED <<store, revision, cache, dirty, conflict,
                 hydration, resolving, edits, created, faults, history>>

\* The domain is saved: another turn when the key is dirty again.
Saved(w) ==
  /\ drain[w].at = "saving"
  /\ IF dirty[w] THEN Turn(w)
     ELSE drain' = [drain EXCEPT ![w] = Idle] /\ UNCHANGED dirty
  /\ UNCHANGED <<store, revision, cache, persisted, itemRev, collRev, conflict, hydration, resolving, edits, created, faults, history>>

\* A call failed: the key is dirty again, the drain ends and does not start
\* itself anew. Only the conflict of an update is published; one without an
\* expected revision does not reach the store.
DrainFailed(w) ==
  /\ drain[w].at \in {"refused", "failed"}
  /\ dirty' = [dirty EXCEPT ![w] = TRUE]
  /\ drain' = [drain EXCEPT ![w] = Idle]
  /\ conflict' = [conflict EXCEPT ![w] =
       IF /\ drain[w].at = "refused" /\ drain[w].call.op = "update"
          /\ drain[w].call.expected # 0
       THEN At(drain[w].call.next, drain[w].call.id) ELSE @]
  /\ UNCHANGED <<store, revision, cache, persisted, itemRev, collRev, hydration, resolving, edits, created, faults, history>>

-----------------------------------------------------------------------------
(* Hydration: hydrate_workspace lists the items with their revisions, and  *)
(* reads the collection's revision afterwards.                             *)

ListItems(w, c) ==
  /\ hydration[w][c].at = "asked" /\ SessionFree(w)
  /\ hydration' = [hydration EXCEPT ![w][c] = [at |-> "listed", items |-> store]]
  /\ UNCHANGED <<store, revision, local, drain, resolving, edits, created, faults, history>>

ReadCollection(w, c) ==
  /\ hydration[w][c].at = "listed"
  /\ hydration' = [hydration EXCEPT ![w][c] =
       [at |-> "answered", items |-> @.items, coll |-> revision]]
  /\ UNCHANGED <<store, revision, local, drain, resolving, edits, created, faults, history>>

News(w, h) ==
  \/ h.coll > collRev[w]
  \/ h.coll = collRev[w] /\ Documents(h.items) # persisted[w]

\* What the workbench may be in while an answer arrives. The code looks at none
\* of it when it takes the documents and the revisions over.
Writing(w) == dirty[w] \/ drain[w] # Idle
Copying(w) == resolving[w].at \in {"called", "committed", "stored"}

\* applyRemoteCollection. An edit that waits keeps the cache as it is, while
\* the documents and revisions it will be compared with move on.
ApplyRemote(w, h, waits) ==
  IF ~News(w, h) THEN UNCHANGED <<cache, persisted, itemRev, collRev, drain, overtaken>>
  ELSE /\ persisted' = [persisted EXCEPT ![w] = Documents(h.items)]
       /\ itemRev' = [itemRev EXCEPT ![w] = Revisions(h.items)]
       /\ collRev' = [collRev EXCEPT ![w] = h.coll]
       /\ cache' = IF waits THEN cache ELSE [cache EXCEPT ![w] = Documents(h.items)]
       /\ drain' = IF drain[w] = Idle THEN drain ELSE [drain EXCEPT ![w].attached = FALSE]
       /\ overtaken' = IF Writing(w) \/ Copying(w) THEN overtaken \cup {w}
                       ELSE overtaken \ {w}

\* Every second, when nothing waits to be written and nothing is written.
Refresh(w) ==
  /\ drain[w] = Idle /\ ~dirty[w]
  /\ hydration[w]["refresh"] = Idle
  /\ hydration' = [hydration EXCEPT ![w]["refresh"] = [at |-> "asked"]]
  /\ UNCHANGED <<store, revision, local, drain, resolving, edits, created, faults, history>>

Refreshed(w) ==
  LET h == hydration[w]["refresh"] IN
  /\ h.at = "answered"
  /\ ApplyRemote(w, h, dirty[w])
  /\ hydration' = [hydration EXCEPT ![w]["refresh"] = Idle]
  /\ UNCHANGED <<store, revision, dirty, conflict, resolving,
                 edits, created, faults, spoiled>>

-----------------------------------------------------------------------------
(* resolveConflict: "reload" takes the store's documents, "copy" also      *)
(* creates the refused document under a new ID.                            *)

Resolve(w) ==
  \E action \in {"reload", "copy"} :
    /\ conflict[w] # None /\ resolving[w] = Idle
    /\ action = "copy" => created < Len(Items)
    /\ resolving' = [resolving EXCEPT ![w] =
         [at |-> "hydrating", action |-> action, document |-> conflict[w]]]
    /\ hydration' = [hydration EXCEPT ![w]["resolve"] = [at |-> "asked"]]
    /\ dirty' = [dirty EXCEPT ![w] = FALSE]
    /\ UNCHANGED <<store, revision, cache, persisted, itemRev, collRev, drain,
                   conflict, edits, created, faults, history>>

\* "reload" ends here; "copy" goes on with a document under a new ID.
Reloaded(w) ==
  LET h == hydration[w]["resolve"] IN
  /\ h.at = "answered"
  /\ ApplyRemote(w, h, dirty[w])
  /\ hydration' = [hydration EXCEPT ![w]["resolve"] = Idle]
  /\ IF resolving[w].action = "reload"
     THEN /\ resolving' = [resolving EXCEPT ![w] = Idle]
          /\ conflict' = [conflict EXCEPT ![w] = None]
          /\ UNCHANGED created
     ELSE /\ created < Len(Items)
          /\ resolving' = [resolving EXCEPT ![w] =
               [at |-> "called",
                document |-> [id |-> Items[created + 1], text |-> @.document.text]]]
          /\ created' = created + 1
          /\ UNCHANGED conflict
  /\ UNCHANGED <<store, revision, dirty, edits, faults, spoiled>>

CreateCopy(w) ==
  /\ resolving[w].at = "called" /\ SessionFree(w)
  /\ LET q == [id |-> resolving[w].document.id, next |-> <<resolving[w].document>>] IN
     /\ Creatable(q)
     /\ store' = Created(q)
  /\ revision' = revision + 1
  /\ resolving' = [resolving EXCEPT ![w].at = "committed"]
  /\ UNCHANGED <<local, drain, hydration, edits, created, faults, history>>

ReadCopyRevision(w) ==
  /\ resolving[w].at = "committed"
  /\ resolving' = [resolving EXCEPT ![w] =
       [at |-> "stored", document |-> @.document, coll |-> revision]]
  /\ UNCHANGED <<store, revision, local, drain, hydration, edits, created, faults, history>>

\* The copy joins what the store is believed to hold, and all of it is shown.
CopyStored(w) ==
  LET d == resolving[w].document
      documents == Append(persisted[w], d)
  IN
  /\ resolving[w].at = "stored"
  /\ persisted' = [persisted EXCEPT ![w] = documents]
  /\ itemRev' = [itemRev EXCEPT ![w] =
       [id \in DOMAIN @ \cup {d.id} |-> IF id = d.id THEN 1 ELSE @[id]]]
  /\ collRev' = [collRev EXCEPT ![w] = resolving[w].coll]
  /\ cache' = [cache EXCEPT ![w] = documents]
  /\ resolving' = [resolving EXCEPT ![w].at = "saving"]
  /\ overtaken' = IF Writing(w) THEN overtaken \cup {w} ELSE overtaken
  /\ UNCHANGED <<store, revision, dirty, drain, conflict,
                 hydration, edits, created, faults, spoiled>>

CopySaved(w) ==
  /\ resolving[w].at = "saving"
  /\ resolving' = [resolving EXCEPT ![w] = Idle]
  /\ conflict' = [conflict EXCEPT ![w] = None]
  /\ UNCHANGED <<store, revision, cache, persisted, itemRev, collRev, dirty, drain,
                 hydration, edits, created, faults, history>>

\* A call of the resolution fails: the conflict stays, and can be resolved
\* again.
ResolveFault(w) ==
  /\ faults < MaxFaults
  /\ resolving[w].at \in {"hydrating", "called", "saving"}
  /\ resolving[w].at = "hydrating" => hydration[w]["resolve"].at = "asked"
  /\ faults' = faults + 1
  /\ hydration' = [hydration EXCEPT ![w]["resolve"] = Idle]
  /\ resolving' = [resolving EXCEPT ![w] = Idle]
  /\ UNCHANGED <<store, revision, local, drain, edits, created, history>>

-----------------------------------------------------------------------------
UserStep(w) == Edit(w) \/ Add(w) \/ Delete(w) \/ Reorder(w) \/ Resolve(w)

DrainStep(w) ==
  \/ EnsureDrain(w) \/ Serve(w) \/ ReadRevision(w) \/ Stored(w) \/ Saved(w) \/ DrainFailed(w)

RefreshStep(w) ==
  \/ Refresh(w) \/ ListItems(w, "refresh") \/ ReadCollection(w, "refresh") \/ Refreshed(w)

ResolveStep(w) ==
  \/ ListItems(w, "resolve") \/ ReadCollection(w, "resolve")
  \/ Reloaded(w) \/ CreateCopy(w) \/ ReadCopyRevision(w) \/ CopyStored(w) \/ CopySaved(w)

Next ==
  \E w \in Workbenches :
    \/ UserStep(w) \/ DrainStep(w) \/ RefreshStep(w) \/ ResolveStep(w)
    \/ Fault(w) \/ ResolveFault(w)

Spec == Init /\ [][Next]_vars

-----------------------------------------------------------------------------
Document == [id : ToSet(Items), text : SUBSET (1..MaxEdits)]
Calls == {"none", "update", "create", "reorder", "replace"}

(* Every variable keeps its shape, the IDs in the store are distinct, and  *)
(* no revision is ahead of the store (multiInstanceBackend.js:93-130).     *)
TypeOK ==
  /\ revision \in Nat /\ Documents(store) \in Seq(Document) /\ Distinct(store)
  /\ \A k \in DOMAIN store : store[k].rev \in 1..revision
  /\ created \in 0..Len(Items) /\ edits \in 0..MaxEdits /\ faults \in 0..MaxFaults
  /\ \A w \in Workbenches :
       /\ dirty[w] \in BOOLEAN
       /\ cache[w] \in Seq(Document) /\ persisted[w] \in Seq(Document)
       /\ \A id \in DOMAIN itemRev[w] : itemRev[w][id] \in 1..revision
       /\ collRev[w] \in 0..revision
       /\ conflict[w] \in Document \cup {None}
       /\ drain[w] = Idle \/ drain[w].call.op \in Calls
       /\ resolving[w] = Idle \/ resolving[w].document \in Document

(* A write never removes an edit that its workbench has not seen: an item  *)
(* keeps its edits, or a workbench that knows its text removes it whole.   *)
(* docs/user/system-settings.md:352, "the second save never overwrites the *)
(* first silently".                                                        *)
Knows(w, d) == [id |-> d.id, text |-> d.text] \in ToSet(persisted[w])
Served(w) == drain[w].at = "called" /\ drain'[w] # drain[w]
Keeps(d) ==
  \/ \E e \in ToSet(store') : e.id = d.id /\ d.text \subseteq e.text
  \/ d.id \notin Ids(store') /\ \E w \in Workbenches : Served(w) /\ Knows(w, d)
NoSilentOverwrite == [][\A d \in ToSet(store) : Keeps(d)]_store

(* Only a workbench that an answer has overtaken at work overwrites, and   *)
(* what it does to one item is no reason for a write of another workbench, *)
(* or to another item, to do so.                                           *)
OnlyOvertakenOverwrite ==
  [][\A d \in ToSet(store) :
       Keeps(d) \/ d.id \in spoiled \/ \E w \in overtaken : Served(w)]_store

(* What a workbench that was not overtaken believes to be stored was       *)
(* stored: of an item that still exists, the store holds every edit that   *)
(* the workbench takes for saved and will not send again, unless an        *)
(* overtaken workbench dropped it. multiInstanceBackend.js:143, :333-335.  *)
BelievedIsStored ==
  \A w \in Workbenches \ overtaken : \A d \in ToSet(persisted[w]), e \in ToSet(store) :
    d.id = e.id /\ e.id \notin spoiled => d.text \subseteq e.text

=============================================================================
