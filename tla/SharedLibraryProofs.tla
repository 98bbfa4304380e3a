------------------------- MODULE SharedLibraryProofs -------------------------
(***************************************************************************)
(* What is proved of SharedLibrary, for any number of workbenches, items,  *)
(* edits and faults: its types; that only a workbench whose work an answer *)
(* has overtaken overwrites a save unseen, and then no other item's; and   *)
(* that what any other workbench believes to be stored was stored, but for *)
(* the items that such a write has spoiled.                                *)
(*                                                                         *)
(* The last two rest on three facts. What a workbench remembers of an      *)
(* item, with its revision, is what the store held under that revision     *)
(* (Tells), even when the items and the collection's revision were read    *)
(* apart. What it would write contains what it remembers (Grown). And an   *)
(* ID that is new to the store is held by one workbench alone (Fresh), so  *)
(* that the revisions of an item never begin again.                        *)
(***************************************************************************)
EXTENDS SharedLibrary, FiniteSetTheorems, SequenceTheorems, TLAPS

-----------------------------------------------------------------------------
(* The types.                                                              *)

StoreItem == [id : ToSet(Items), rev : Nat, text : SUBSET (1..MaxEdits)]

\* The items of the store, now or when they were listed, and revisions that were
\* seen; none is above n.
Listing(s, n) ==
  s \in Seq(StoreItem) /\ Distinct(s) /\ \A k \in DOMAIN s : s[k].rev \in 1..n
Noted(f, n) == f \in [DOMAIN f -> 1..n]

StoreTyped ==
  /\ revision \in Nat /\ Listing(store, revision)
  /\ created \in 0..Len(Items) /\ edits \in 0..MaxEdits /\ faults \in 0..MaxFaults

CopiesTyped ==
  /\ cache \in [Workbenches -> Seq(Document)]
  /\ persisted \in [Workbenches -> Seq(Document)]
  /\ dirty \in [Workbenches -> BOOLEAN]
  /\ conflict \in [Workbenches -> Document \cup {None}]
  /\ collRev \in [Workbenches -> 0..revision]
  /\ itemRev = [w \in Workbenches |-> itemRev[w]]
  /\ \A w \in Workbenches : Noted(itemRev[w], revision)

CallTyped(q, n) ==
  /\ q.op \in Calls /\ q.next \in Seq(Document)
  /\ Noted(q.revs, n) /\ q.expected \in 0..n
  /\ q.op \in {"update", "create"} => q.id \in Ids(q.next)
  /\ q.op = "create" => q.expected = 0

Underway == {"called", "saving", "refused", "failed"}
Answered == {"committed", "stored"}

DrainTyped(d, n) ==
  \/ d = Idle
  \/ /\ d.at \in Underway /\ d = [at |-> d.at, call |-> d.call, attached |-> d.attached]
     /\ d.attached \in BOOLEAN /\ CallTyped(d.call, n)
     /\ d.at = "called" => d.call.op # "none"
  \/ /\ d.at \in Answered
     /\ d = [at |-> d.at, call |-> d.call, attached |-> d.attached,
             coll |-> d.coll, revs |-> d.revs]
     /\ d.attached \in BOOLEAN /\ CallTyped(d.call, n)
     /\ d.coll \in 0..n /\ Noted(d.revs, n)
     /\ d.call.op \in {"update", "create"} => d.call.expected < n

HydrationTyped(h, n) ==
  \/ h = Idle
  \/ h = [at |-> "asked"]
  \/ h.at = "listed" /\ h = [at |-> h.at, items |-> h.items] /\ Listing(h.items, n)
  \/ /\ h.at = "answered" /\ h = [at |-> h.at, items |-> h.items, coll |-> h.coll]
     /\ Listing(h.items, n) /\ h.coll \in 0..n

ResolvingTyped(r, n) ==
  \/ r = Idle
  \/ /\ r.at = "hydrating" /\ r.document \in Document
     /\ r = [at |-> r.at, action |-> r.action, document |-> r.document]
  \/ /\ r.at \in {"called", "committed"} /\ r.document \in Document
     /\ r = [at |-> r.at, document |-> r.document]
     /\ r.at = "committed" => n > 0
  \/ /\ r.at \in {"stored", "saving"} /\ r.document \in Document
     /\ r = [at |-> r.at, document |-> r.document, coll |-> r.coll]
     /\ r.coll \in 0..n /\ n > 0

CallersTyped ==
  /\ drain = [w \in Workbenches |-> drain[w]]
  /\ hydration = [w \in Workbenches |-> [c \in Callers |-> hydration[w][c]]]
  /\ resolving = [w \in Workbenches |-> resolving[w]]
  /\ \A w \in Workbenches :
       /\ DrainTyped(drain[w], revision) /\ ResolvingTyped(resolving[w], revision)
       /\ \A c \in Callers : HydrationTyped(hydration[w][c], revision)

TypedInv == StoreTyped /\ CopiesTyped /\ CallersTyped

-----------------------------------------------------------------------------
(* The invariant behind the promises.                                      *)

Sent(w) == drain[w].at \in {"called", "committed", "stored"}
Written(w) == drain[w].at \in Answered
Copied(w) == resolving[w].at \in Answered

\* No text of s is lost in t.
Grown(s, t) ==
  \A k \in DOMAIN s, l \in DOMAIN t : s[k].id = t[l].id => s[k].text \subseteq t[l].text

\* A call keeps the documents s but for the one it names.
Spares(q, s) ==
  /\ q.op = "update" =>
       /\ Ids(q.next) = Ids(s) /\ q.expected = q.revs[q.id]
       /\ \A k \in DOMAIN q.next : q.next[k].id # q.id => q.next[k] \in ToSet(s)
  /\ q.op = "create" =>
       /\ q.id \notin Ids(s) /\ Ids(q.next) = Ids(s) \cup {q.id}
       /\ \A k \in DOMAIN q.next : q.next[k].id # q.id => q.next[k] \in ToSet(s)
  /\ q.op = "reorder" =>
       /\ Ids(q.next) = Ids(s)
       /\ \A k \in DOMAIN q.next : q.next[k] \in ToSet(s)

CopyInv(w) ==
  /\ Distinct(cache[w]) /\ Distinct(persisted[w])
  /\ DOMAIN itemRev[w] = Ids(persisted[w])
  /\ Grown(persisted[w], cache[w])

SentInv(w) ==
  Sent(w) =>
    LET q == drain[w].call IN
    /\ drain[w].attached /\ q.revs = itemRev[w] /\ Distinct(q.next)
    /\ Spares(q, persisted[w]) /\ Grown(persisted[w], q.next) /\ Grown(q.next, cache[w])
    /\ Ids(cache[w]) \cap Ids(persisted[w]) \subseteq Ids(q.next)
    /\ Written(w) => DOMAIN Learned(w) = Ids(q.next)

\* The document d at revision rev is what the store s held under that revision,
\* when d is none of the items x.
Tells(s, x, d, rev) ==
  d.id \in Ids(s) \ x =>
    LET e == At(s, d.id) IN
    /\ rev <= e.rev /\ d.text \subseteq e.text
    /\ rev = e.rev => d.text = e.text

TellsAll(s, x, docs, revs) ==
  \A k \in DOMAIN docs : Tells(s, x, docs[k], revs[docs[k].id])
TellsItems(s, x, items) == \A k \in DOMAIN items : Tells(s, x, items[k], items[k].rev)

ToldInv(w) ==
  /\ TellsAll(store, spoiled, persisted[w], itemRev[w])
  /\ Written(w) => TellsAll(store, spoiled, drain[w].call.next, Learned(w))

HeardInv(w) ==
  /\ Copied(w) => Tells(store, spoiled, resolving[w].document, 1)
  /\ \A c \in Callers : hydration[w][c].at \in {"listed", "answered"} =>
       TellsItems(store, spoiled, hydration[w][c].items)

\* The IDs that the store has, or had, as far as w remembers.
Heard(w) ==
  (IF Copied(w) THEN {resolving[w].document.id} ELSE {})
  \cup UNION {IF hydration[w][c].at \in {"listed", "answered"}
              THEN Ids(hydration[w][c].items) ELSE {} : c \in Callers}
Remembered(w) ==
  UNION {IF w \in overtaken THEN {} ELSE Ids(persisted[w]),
         IF Written(w) /\ w \notin overtaken THEN Ids(drain[w].call.next) ELSE {},
         Heard(w)}
Seen == Ids(store) \cup UNION {Remembered(w) : w \in Workbenches}

\* The ID of the copy that w is about to create, and the IDs that w has made up
\* and the store has never had. An overtaken workbench may take an ID for one of
\* the latter that the store had and has no more.
Chosen(w) == IF resolving[w].at = "called" THEN {resolving[w].document.id} ELSE {}
Drafts(w) ==
  Chosen(w) \cup
  IF w \in overtaken THEN {}
  ELSE (Ids(cache[w]) \cup IF drain[w].at = "called" THEN Ids(drain[w].call.next) ELSE {})
         \ (Ids(persisted[w]) \cup IF Written(w) THEN Ids(drain[w].call.next) ELSE {})

\* All that w could write.
Holds(w) ==
  UNION {Ids(cache[w]), Ids(persisted[w]),
         IF Sent(w) THEN Ids(drain[w].call.next) ELSE {},
         IF Copying(w) THEN {resolving[w].document.id} ELSE {}}

Used == {Items[k] : k \in 1..created}

\* The copy that is being created is none of the documents.
Apart(w) ==
  /\ resolving[w].document.id \notin Ids(cache[w]) \cup Ids(persisted[w])
  /\ Sent(w) => resolving[w].document.id \notin Ids(drain[w].call.next)
CopyApart(w) == Copying(w) => Apart(w)
ChosenApart(w) == resolving[w].at = "called" => Apart(w)

Fresh ==
  /\ Seen \subseteq Used
  /\ \A w \in Workbenches :
       Holds(w) \subseteq Used /\ Drafts(w) \cap Seen = {} /\ ChosenApart(w)
  /\ \A v, w \in Workbenches : v # w => Drafts(v) \cap Holds(w) = {}

\* What holds of a workbench that was not overtaken.
Sound(w) == CopyInv(w) /\ SentInv(w) /\ ToldInv(w) /\ CopyApart(w)

LibraryInv ==
  /\ \A w \in Workbenches : HeardInv(w) /\ (w \notin overtaken => Sound(w))
  /\ Fresh

-----------------------------------------------------------------------------
(* Sequences of documents and the index of their IDs.                      *)

LEMMA DistinctMeans ==
  ASSUME NEW s
  PROVE  Distinct(s) <=> \A k, l \in DOMAIN s : s[k].id = s[l].id => k = l
BY DEF Distinct, Id, IsInjective

\* The later of the documents with an ID exists, whatever the sequence.
LEMMA LastIndex ==
  ASSUME NEW S, NEW s \in Seq(S), NEW id \in Ids(s)
  PROVE  \E k \in DOMAIN s : s[k].id = id /\ \A l \in DOMAIN s : s[l].id = id => l <= k
<1> DEFINE D == {k \in DOMAIN s : s[k].id = id}
           Above(k) == {l \in D : k <= l}
           F == {Above(k) : k \in D}
           R == StrictSubsetOrdering(DOMAIN s)
<1>1. DOMAIN s = 1..Len(s) /\ Len(s) \in Nat
  OBVIOUS
<1>2. IsFiniteSet(DOMAIN s)
  BY <1>1, FS_Interval
<1>3. F \subseteq FiniteSubsetsOf(DOMAIN s)
  BY <1>2, FS_FiniteSubsetsOfFinite
<1>4. F # {}
  <2>1. PICK k \in DOMAIN s : s[k].id = id
    BY DEF Ids
  <2>2. k \in D /\ Above(k) \in F
    BY <2>1
  <2> QED BY <2>2
<1>5. IsWellFoundedOn(R, FiniteSubsetsOf(DOMAIN s))
  BY FS_StrictSubsetOrderingWellFounded
<1> HIDE DEF R, F
<1>6. PICK x \in F : \A y \in F : <<y, x>> \notin R
  BY <1>3, <1>4, <1>5, WFMin
<1> USE DEF F
<1>7. PICK k \in D : x = Above(k)
  OBVIOUS
<1>8. ASSUME NEW l \in DOMAIN s, s[l].id = id, ~(l <= k) PROVE FALSE
  <2>1. k \in Above(k) /\ k \notin Above(l) /\ Above(l) \subseteq Above(k) /\ l \in D
    BY <1>1, <1>8
  <2>2. Above(l) \subseteq DOMAIN s /\ Above(k) \subseteq DOMAIN s
    OBVIOUS
  <2>3. <<Above(l), x>> \in R
    BY <1>7, <2>1, <2>2 DEF R, StrictSubsetOrdering
  <2> QED BY <1>6, <2>1, <2>3
<1> QED BY <1>8

LEMMA AtIndex ==
  ASSUME NEW S, NEW s \in Seq(S), NEW id \in Ids(s)
  PROVE  \E k \in DOMAIN s :
           /\ s[k].id = id /\ At(s, id) = s[k]
           /\ \A l \in DOMAIN s : s[l].id = id => l <= k
<1> DEFINE P(k) == s[k].id = id /\ \A l \in DOMAIN s : s[l].id = id => l <= k
           c == CHOOSE k \in DOMAIN s : P(k)
<1>1. \E k \in DOMAIN s : P(k)
  BY LastIndex
<1>2. c \in DOMAIN s /\ P(c)
  BY <1>1
<1>3. At(s, id) = s[c]
  BY DEF At
<1> QED BY <1>2, <1>3

LEMMA AtIn ==
  ASSUME NEW S, NEW s \in Seq(S), NEW id \in Ids(s)
  PROVE  At(s, id) \in S /\ At(s, id).id = id /\ At(s, id) \in ToSet(s)
BY AtIndex DEF ToSet

LEMMA AtDistinct ==
  ASSUME NEW S, NEW s \in Seq(S), Distinct(s), NEW k \in DOMAIN s
  PROVE  At(s, s[k].id) = s[k] /\ s[k].id \in Ids(s)
BY AtIndex, DistinctMeans DEF Ids

LEMMA MappedSeq ==
  ASSUME NEW T, NEW n \in Nat, NEW f \in [1..n -> T]
  PROVE  f \in Seq(T)
OBVIOUS

LEMMA SeqIs ==
  ASSUME NEW T, NEW s \in Seq(T)
  PROVE  /\ Len(s) \in Nat /\ DOMAIN s = 1..Len(s)
         /\ \A k \in DOMAIN s : s[k] \in T
OBVIOUS

LEMMA DocumentsOf ==
  ASSUME NEW n, NEW s, Listing(s, n)
  PROVE  /\ Documents(s) \in Seq(Document) /\ Distinct(Documents(s))
         /\ DOMAIN Documents(s) = DOMAIN s /\ Ids(Documents(s)) = Ids(s)
         /\ \A k \in DOMAIN s : Documents(s)[k] = [id |-> s[k].id, text |-> s[k].text]
<1>1. s \in Seq(StoreItem) /\ DOMAIN s = 1..Len(s) /\ Len(s) \in Nat
  BY SeqIs DEF Listing
<1>2. \A k \in DOMAIN s : s[k] \in StoreItem
  BY <1>1, SeqIs
<1>3. Documents(s) \in [1..Len(s) -> Document]
  BY <1>1, <1>2 DEF Documents, Document, StoreItem
<1>4. Documents(s) \in Seq(Document)
  BY <1>1, <1>3, MappedSeq
<1>5. /\ DOMAIN Documents(s) = DOMAIN s
      /\ \A k \in DOMAIN s : Documents(s)[k] = [id |-> s[k].id, text |-> s[k].text]
  BY DEF Documents
<1>6. Distinct(Documents(s))
  BY <1>5, DistinctMeans DEF Listing
<1>7. Ids(Documents(s)) = Ids(s)
  BY <1>5 DEF Ids
<1> QED BY <1>4, <1>5, <1>6, <1>7

LEMMA RevisionsOf ==
  ASSUME NEW n \in Nat, NEW s, Listing(s, n)
  PROVE  /\ Noted(Revisions(s), n) /\ DOMAIN Revisions(s) = Ids(s)
         /\ \A k \in DOMAIN s : Revisions(s)[s[k].id] = s[k].rev
<1>1. \A k \in DOMAIN s : At(s, s[k].id) = s[k] /\ s[k].id \in Ids(s)
  BY AtDistinct DEF Listing
<1>2. \A id \in Ids(s) : At(s, id).rev \in 1..n
  BY AtIndex DEF Listing
<1> QED BY <1>1, <1>2 DEF Revisions, Noted

\* A revision that was not ahead of the store is not later either.
LEMMA LaterTyped ==
  ASSUME NEW m \in Nat, NEW n \in Nat, m <= n
  PROVE  /\ \A s : Listing(s, m) => Listing(s, n)
         /\ \A f : Noted(f, m) => Noted(f, n)
         /\ \A q : CallTyped(q, m) => CallTyped(q, n)
         /\ \A d : DrainTyped(d, m) => DrainTyped(d, n)
         /\ \A h : HydrationTyped(h, m) => HydrationTyped(h, n)
         /\ \A r : ResolvingTyped(r, m) => ResolvingTyped(r, n)
<1>1. 1..m \subseteq 1..n /\ 0..m \subseteq 0..n
  OBVIOUS
<1>2. \A s : Listing(s, m) => Listing(s, n)
  BY <1>1 DEF Listing
<1>3. \A f : Noted(f, m) => Noted(f, n)
  BY <1>1 DEF Noted
<1>4. \A q : CallTyped(q, m) => CallTyped(q, n)
  BY <1>1, <1>3 DEF CallTyped
<1>5. ASSUME NEW d, DrainTyped(d, m) PROVE DrainTyped(d, n)
  <2>1. ASSUME d.call.expected < m, CallTyped(d.call, m) PROVE d.call.expected < n
    BY <2>1 DEF CallTyped
  <2> QED BY <1>1, <1>3, <1>4, <1>5, <2>1 DEF DrainTyped
<1>6. \A h : HydrationTyped(h, m) => HydrationTyped(h, n)
  BY <1>1, <1>2 DEF HydrationTyped
<1>7. \A r : ResolvingTyped(r, m) => ResolvingTyped(r, n)
  BY <1>1 DEF ResolvingTyped
<1> QED BY <1>2, <1>3, <1>4, <1>5, <1>6, <1>7

-----------------------------------------------------------------------------
(* What the operations of the store return.                                *)

\* The documents that a call sends, one by one.
LEMMA NextIs ==
  ASSUME NEW n, NEW q, CallTyped(q, n)
  PROVE  /\ q.next \in Seq(Document) /\ Len(q.next) \in Nat /\ DOMAIN q.next = 1..Len(q.next)
         /\ \A k \in DOMAIN q.next :
              q.next[k] \in Document /\ q.next[k].id \in ToSet(Items)
              /\ q.next[k].text \in SUBSET (1..MaxEdits)
         /\ \A id \in Ids(q.next) : At(q.next, id) \in Document /\ At(q.next, id).id = id
<1>1. q.next \in Seq(Document)
  BY DEF CallTyped
<1>2. \A k \in DOMAIN q.next : q.next[k] \in Document
  BY <1>1, SeqIs
<1>3. \A id \in Ids(q.next) : At(q.next, id) \in Document /\ At(q.next, id).id = id
  BY <1>1, AtIn
<1> QED BY <1>1, <1>2, <1>3, SeqIs DEF Document

LEMMA ListingIs ==
  ASSUME NEW n, NEW s, Listing(s, n)
  PROVE  /\ s \in Seq(StoreItem) /\ Len(s) \in Nat /\ DOMAIN s = 1..Len(s)
         /\ \A k \in DOMAIN s :
              /\ s[k] \in StoreItem /\ s[k].id \in ToSet(Items) /\ s[k].id \in Ids(s)
              /\ s[k].text \in SUBSET (1..MaxEdits) /\ s[k].rev \in 1..n
              /\ s[k] = [id |-> s[k].id, rev |-> s[k].rev, text |-> s[k].text]
              /\ At(s, s[k].id) = s[k]
         /\ \A k, l \in DOMAIN s : s[k].id = s[l].id => k = l
         /\ \A id \in Ids(s) : \E k \in DOMAIN s : s[k].id = id /\ At(s, id) = s[k]
<1>1. s \in Seq(StoreItem) /\ Distinct(s)
  BY DEF Listing
<1>2. \A k \in DOMAIN s : s[k] \in StoreItem
  BY <1>1, SeqIs
<1>3. \A k \in DOMAIN s : s[k].id \in Ids(s) /\ At(s, s[k].id) = s[k]
  BY <1>1, AtDistinct
<1>4. \A id \in Ids(s) : \E k \in DOMAIN s : s[k].id = id /\ At(s, id) = s[k]
  BY <1>1, AtIndex
<1>5. \A k \in DOMAIN s : s[k].rev \in 1..n
  BY DEF Listing
<1>6. \A k \in DOMAIN s :
        /\ s[k].id \in ToSet(Items) /\ s[k].text \in SUBSET (1..MaxEdits)
        /\ s[k] = [id |-> s[k].id, rev |-> s[k].rev, text |-> s[k].text]
  BY <1>2 DEF StoreItem
<1> QED BY <1>1, <1>2, <1>3, <1>4, <1>5, <1>6, SeqIs, DistinctMeans

\* What makes a listing.
LEMMA MakesListing ==
  ASSUME NEW n \in Nat, NEW N \in Nat, NEW s, DOMAIN s = 1..N, s = [k \in 1..N |-> s[k]],
         \A k \in 1..N : /\ s[k] = [id |-> s[k].id, rev |-> s[k].rev, text |-> s[k].text]
                         /\ s[k].id \in ToSet(Items) /\ s[k].rev \in 1..n
                         /\ s[k].text \in SUBSET (1..MaxEdits),
         \A k, l \in 1..N : s[k].id = s[l].id => k = l
  PROVE  Listing(s, n)
<1>1. \A k \in 1..N : s[k] \in StoreItem
  BY DEF StoreItem
<1>2. s \in [1..N -> StoreItem]
  BY <1>1
<1>3. s \in Seq(StoreItem)
  BY <1>2, MappedSeq
<1> QED BY <1>3, DistinctMeans DEF Listing

LEMMA UpdatedTyped ==
  ASSUME StoreTyped, NEW q, CallTyped(q, revision), q.op = "update", Updatable(q)
  PROVE  /\ Listing(Updated(q), revision + 1) /\ DOMAIN Updated(q) = DOMAIN store
         /\ \A k \in DOMAIN store :
              Updated(q)[k] = IF store[k].id = q.id
                              THEN [id |-> q.id, rev |-> q.expected + 1,
                                    text |-> At(q.next, q.id).text]
                              ELSE store[k]
         /\ Ids(Updated(q)) = Ids(store) /\ q.id \in Ids(store)
         /\ q.expected = At(store, q.id).rev /\ q.expected \in 1..revision
<1>1. /\ revision \in Nat /\ Listing(store, revision)
      /\ q.id \in Ids(store) /\ At(store, q.id).rev = q.expected /\ q.id \in Ids(q.next)
  BY DEF StoreTyped, Updatable, CallTyped
<1>2. At(q.next, q.id) \in Document
  BY <1>1, NextIs
<1>3. PICK k \in DOMAIN store : store[k].id = q.id /\ At(store, q.id) = store[k]
  BY <1>1, ListingIs
<1>4. q.expected \in 1..revision /\ q.id \in ToSet(Items)
  BY <1>1, <1>3, ListingIs
<1> DEFINE s == Updated(q)
<1>5. /\ DOMAIN s = DOMAIN store /\ s = [l \in DOMAIN store |-> s[l]]
      /\ \A l \in DOMAIN store :
           s[l] = IF store[l].id = q.id
                  THEN [id |-> q.id, rev |-> q.expected + 1, text |-> At(q.next, q.id).text]
                  ELSE store[l]
  BY DEF Updated
<1> HIDE DEF s
<1>6. At(q.next, q.id).text \in SUBSET (1..MaxEdits)
  BY <1>2 DEF Document
<1>7. \A l \in DOMAIN store :
        /\ s[l].id = store[l].id /\ s[l].rev \in 1..(revision + 1)
        /\ s[l].id \in ToSet(Items) /\ s[l].text \in SUBSET (1..MaxEdits)
        /\ s[l] = [id |-> s[l].id, rev |-> s[l].rev, text |-> s[l].text]
  BY <1>1, <1>4, <1>5, <1>6, ListingIs
<1>8. Listing(s, revision + 1)
  <2>1. /\ Len(store) \in Nat /\ DOMAIN store = 1..Len(store)
        /\ \A l, m \in DOMAIN store : store[l].id = store[m].id => l = m
    BY <1>1, ListingIs
  <2>2. revision + 1 \in Nat
    BY <1>1
  <2>3. DOMAIN s = 1..Len(store) /\ s = [l \in 1..Len(store) |-> s[l]]
    BY <1>5, <2>1
  <2>4. \A l \in 1..Len(store) :
          /\ s[l] = [id |-> s[l].id, rev |-> s[l].rev, text |-> s[l].text]
          /\ s[l].id \in ToSet(Items) /\ s[l].rev \in 1..(revision + 1)
          /\ s[l].text \in SUBSET (1..MaxEdits)
    BY <1>7, <2>1
  <2>5. \A l, m \in 1..Len(store) : s[l].id = s[m].id => l = m
    BY <1>7, <2>1
  <2> QED BY <2>1, <2>2, <2>3, <2>4, <2>5, MakesListing
<1>9. Ids(s) = Ids(store)
  BY <1>5, <1>7 DEF Ids
<1> QED BY <1>1, <1>4, <1>5, <1>8, <1>9 DEF s

LEMMA CreatedTyped ==
  ASSUME StoreTyped, NEW q, Creatable(q), At(q.next, q.id) \in Document, q.id \in ToSet(Items)
  PROVE  /\ Listing(Created(q), revision + 1)
         /\ DOMAIN Created(q) = 1..(Len(store) + 1)
         /\ \A k \in DOMAIN store : k \in DOMAIN Created(q) /\ Created(q)[k] = store[k]
         /\ Created(q)[Len(store) + 1]
              = [id |-> q.id, rev |-> 1, text |-> At(q.next, q.id).text]
         /\ Ids(Created(q)) = Ids(store) \cup {q.id} /\ q.id \notin Ids(store)
<1> DEFINE e == [id |-> q.id, rev |-> 1, text |-> At(q.next, q.id).text]
           s == Created(q)
<1>1. revision \in Nat /\ Listing(store, revision) /\ q.id \notin Ids(store)
  BY DEF StoreTyped, Creatable
<1>2. /\ store \in Seq(StoreItem) /\ Len(store) \in Nat /\ DOMAIN store = 1..Len(store)
      /\ \A k \in DOMAIN store :
           /\ store[k].id \in ToSet(Items) /\ store[k].rev \in 1..revision
           /\ store[k].text \in SUBSET (1..MaxEdits)
           /\ store[k] = [id |-> store[k].id, rev |-> store[k].rev, text |-> store[k].text]
           /\ store[k].id # q.id
      /\ \A k, l \in DOMAIN store : store[k].id = store[l].id => k = l
  <2>1. \A k \in DOMAIN store : store[k].id # q.id
    BY <1>1 DEF Ids
  <2> QED BY <1>1, <2>1, ListingIs
<1>3. s = Append(store, e)
  BY DEF Created
<1>5. e.id = q.id /\ e.rev = 1 /\ e.text \in SUBSET (1..MaxEdits) /\ e \in StoreItem
      /\ e = [id |-> e.id, rev |-> e.rev, text |-> e.text]
  BY DEF Document, StoreItem
<1> HIDE DEF s, e
<1>4. /\ DOMAIN s = 1..(Len(store) + 1) /\ s = [k \in 1..(Len(store) + 1) |-> s[k]]
      /\ \A k \in DOMAIN store : s[k] = store[k]
      /\ s[Len(store) + 1] = e
  <2>1. s \in Seq(StoreItem) /\ Len(s) = Len(store) + 1
    BY <1>2, <1>3, <1>5
  <2>2. (\A k \in 1..Len(store) : s[k] = store[k]) /\ s[Len(store) + 1] = e
    BY <1>2, <1>3, <1>5
  <2> QED BY <1>2, <2>1, <2>2
<1>6. \A k \in 1..(Len(store) + 1) :
        /\ s[k].id \in ToSet(Items) /\ s[k].rev \in 1..(revision + 1)
        /\ s[k].text \in SUBSET (1..MaxEdits)
        /\ s[k] = [id |-> s[k].id, rev |-> s[k].rev, text |-> s[k].text]
  <2> SUFFICES ASSUME NEW k \in 1..(Len(store) + 1)
               PROVE  /\ s[k].id \in ToSet(Items) /\ s[k].rev \in 1..(revision + 1)
                      /\ s[k].text \in SUBSET (1..MaxEdits)
                      /\ s[k] = [id |-> s[k].id, rev |-> s[k].rev, text |-> s[k].text]
    OBVIOUS
  <2>1. CASE k \in DOMAIN store
    <3>1. s[k] = store[k]
      BY <1>4, <2>1
    <3> QED BY <1>1, <1>2, <2>1, <3>1
  <2>2. CASE k = Len(store) + 1
    BY <1>1, <1>4, <1>5, <2>2
  <2> QED BY <1>2, <2>1, <2>2
<1>7. \A k, l \in 1..(Len(store) + 1) : s[k].id = s[l].id => k = l
  <2>2. \A k \in 1..(Len(store) + 1) : k \in DOMAIN store \/ k = Len(store) + 1
    BY <1>2
  <2>3. \A k \in DOMAIN store : s[k].id = store[k].id /\ s[k].id # q.id
    BY <1>2, <1>4
  <2>4. s[Len(store) + 1].id = q.id
    BY <1>4, <1>5
  <2> QED BY <1>2, <2>2, <2>3, <2>4
<1>8. Listing(s, revision + 1)
  <2>1. revision + 1 \in Nat /\ Len(store) + 1 \in Nat
    BY <1>1, <1>2
  <2>2. PICK N \in Nat : N = Len(store) + 1
    BY <2>1
  <2>3. DOMAIN s = 1..N /\ s = [k \in 1..N |-> s[k]]
    BY <1>4, <2>2
  <2>4. \A k \in 1..N :
          /\ s[k] = [id |-> s[k].id, rev |-> s[k].rev, text |-> s[k].text]
          /\ s[k].id \in ToSet(Items) /\ s[k].rev \in 1..(revision + 1)
          /\ s[k].text \in SUBSET (1..MaxEdits)
    BY <1>6, <2>2
  <2>5. \A k, l \in 1..N : s[k].id = s[l].id => k = l
    BY <1>7, <2>2
  <2> QED BY <2>1, <2>3, <2>4, <2>5, MakesListing
<1>9. Ids(s) = Ids(store) \cup {q.id}
  <2>1. \A k \in DOMAIN s : k \in DOMAIN store \/ k = Len(store) + 1
    BY <1>2, <1>4
  <2>2. \A k \in DOMAIN store : k \in DOMAIN s
    BY <1>2, <1>4
  <2>3. Len(store) + 1 \in DOMAIN s
    BY <1>2, <1>4
  <2>4. (\A k \in DOMAIN store : s[k].id = store[k].id) /\ s[Len(store) + 1].id = q.id
    BY <1>4, <1>5
  <2>5. Ids(s) \subseteq Ids(store) \cup {q.id}
    BY <2>1, <2>4 DEF Ids
  <2>6. Ids(store) \cup {q.id} \subseteq Ids(s)
    BY <2>2, <2>3, <2>4 DEF Ids
  <2> QED BY <2>5, <2>6
<1>10. \A k \in DOMAIN store : k \in DOMAIN s
  BY <1>2, <1>4
<1> QED BY <1>1, <1>4, <1>8, <1>9, <1>10 DEF s, e

LEMMA ReorderedTyped ==
  ASSUME StoreTyped, NEW q, CallTyped(q, revision), Reorderable(q)
  PROVE  /\ Listing(Reordered(q), revision + 1)
         /\ DOMAIN Reordered(q) = DOMAIN q.next /\ Ids(Reordered(q)) = Ids(store)
         /\ Ids(q.next) = Ids(store)
         /\ \A k \in DOMAIN q.next : /\ Reordered(q)[k] = At(store, q.next[k].id)
                                     /\ Reordered(q)[k].id = q.next[k].id
<1> DEFINE s == Reordered(q)
<1>1. /\ revision \in Nat /\ Listing(store, revision)
      /\ Ids(q.next) = Ids(store) /\ Distinct(q.next)
  BY DEF StoreTyped, Reorderable
<1>2. /\ Len(q.next) \in Nat /\ DOMAIN q.next = 1..Len(q.next)
      /\ \A k, l \in DOMAIN q.next : q.next[k].id = q.next[l].id => k = l
  BY <1>1, NextIs, DistinctMeans
<1>3. DOMAIN s = DOMAIN q.next /\ \A k \in DOMAIN q.next : s[k] = At(store, q.next[k].id)
  BY DEF Reordered
<1>7. s = [k \in 1..Len(q.next) |-> s[k]]
  BY <1>2 DEF Reordered
<1> HIDE DEF s
<1>4. ASSUME NEW k \in DOMAIN q.next
      PROVE  /\ s[k].id = q.next[k].id /\ s[k].id \in ToSet(Items)
             /\ s[k].rev \in 1..(revision + 1) /\ s[k].text \in SUBSET (1..MaxEdits)
             /\ s[k] = [id |-> s[k].id, rev |-> s[k].rev, text |-> s[k].text]
  <2>1. q.next[k].id \in Ids(store)
    BY <1>1 DEF Ids
  <2>2. PICK l \in DOMAIN store : store[l].id = q.next[k].id /\ s[k] = store[l]
    <3>1. s[k] = At(store, q.next[k].id)
      BY <1>3
    <3> QED BY <1>1, <2>1, <3>1, ListingIs
  <2>3. /\ store[l].id \in ToSet(Items) /\ store[l].rev \in 1..revision
        /\ store[l].text \in SUBSET (1..MaxEdits)
        /\ store[l] = [id |-> store[l].id, rev |-> store[l].rev, text |-> store[l].text]
    BY <1>1, ListingIs
  <2> QED BY <1>1, <2>2, <2>3
<1>5. Listing(s, revision + 1)
  <2>1. revision + 1 \in Nat
    BY <1>1
  <2>2. \A k, l \in 1..Len(q.next) : s[k].id = s[l].id => k = l
    BY <1>2, <1>4
  <2>3. \A k \in 1..Len(q.next) :
          /\ s[k] = [id |-> s[k].id, rev |-> s[k].rev, text |-> s[k].text]
          /\ s[k].id \in ToSet(Items) /\ s[k].rev \in 1..(revision + 1)
          /\ s[k].text \in SUBSET (1..MaxEdits)
    BY <1>2, <1>4
  <2>4. Len(q.next) \in Nat /\ DOMAIN s = 1..Len(q.next)
    BY <1>2, <1>3
  <2> QED BY <1>7, <2>1, <2>2, <2>3, <2>4, MakesListing
<1>6. Ids(s) = Ids(q.next)
  <2>1. DOMAIN s = DOMAIN q.next /\ \A k \in DOMAIN q.next : s[k].id = q.next[k].id
    BY <1>3, <1>4
  <2> QED BY <2>1 DEF Ids
<1> QED BY <1>1, <1>3, <1>4, <1>5, <1>6 DEF s

LEMMA ReplacedTyped ==
  ASSUME StoreTyped, NEW q, CallTyped(q, revision), Replaceable(q)
  PROVE  /\ Listing(Replaced(q), revision + 1)
         /\ DOMAIN Replaced(q) = DOMAIN q.next /\ Ids(Replaced(q)) = Ids(q.next)
         /\ \A k \in DOMAIN q.next :
              /\ Replaced(q)[k].id = q.next[k].id /\ Replaced(q)[k].text = q.next[k].text
              /\ Replaced(q)[k].rev = NewRevision(q.next[k])
         /\ Distinct(q.next) /\ Ids(store) = DOMAIN q.revs
         /\ \A id \in Ids(store) : q.revs[id] = At(store, id).rev
<1> DEFINE s == Replaced(q)
<1>1. /\ revision \in Nat /\ Listing(store, revision)
      /\ Revisions(store) = q.revs /\ Distinct(q.next)
  BY DEF StoreTyped, Replaceable
<1>2. /\ Len(q.next) \in Nat /\ DOMAIN q.next = 1..Len(q.next)
      /\ \A k, l \in DOMAIN q.next : q.next[k].id = q.next[l].id => k = l
      /\ \A k \in DOMAIN q.next :
           q.next[k].id \in ToSet(Items) /\ q.next[k].text \in SUBSET (1..MaxEdits)
  BY <1>1, NextIs, DistinctMeans
<1>3. /\ DOMAIN s = DOMAIN q.next
      /\ \A k \in DOMAIN q.next :
           s[k] = [id |-> q.next[k].id, rev |-> NewRevision(q.next[k]), text |-> q.next[k].text]
  BY DEF Replaced
<1>9. s = [k \in 1..Len(q.next) |-> s[k]]
  BY <1>2 DEF Replaced
<1> HIDE DEF s
<1>4. ASSUME NEW k \in DOMAIN q.next PROVE NewRevision(q.next[k]) \in 1..(revision + 1)
  <2> DEFINE d == q.next[k]
  <2>1. CASE d.id \notin Ids(store)
    BY <1>1, <2>1 DEF NewRevision
  <2>2. CASE d.id \in Ids(store)
    <3>1. PICK l \in DOMAIN store : At(store, d.id) = store[l]
      BY <1>1, <2>2, ListingIs
    <3>2. At(store, d.id).rev \in 1..revision
      BY <1>1, <3>1, ListingIs
    <3> QED BY <1>1, <2>2, <3>2 DEF NewRevision
  <2> QED BY <2>1, <2>2
<1>5. ASSUME NEW k \in DOMAIN q.next
      PROVE  /\ s[k].id = q.next[k].id /\ s[k].text = q.next[k].text
             /\ s[k].rev = NewRevision(q.next[k])
             /\ s[k] = [id |-> s[k].id, rev |-> s[k].rev, text |-> s[k].text]
  <2>1. s[k] = [id |-> q.next[k].id, rev |-> NewRevision(q.next[k]), text |-> q.next[k].text]
    BY <1>3
  <2> QED BY <2>1
<1>6. Listing(s, revision + 1)
  <2>1. revision + 1 \in Nat
    BY <1>1
  <2>2. \A k, l \in 1..Len(q.next) : s[k].id = s[l].id => k = l
    <3>1. \A k \in DOMAIN q.next : s[k].id = q.next[k].id
      BY <1>5
    <3> QED BY <1>2, <3>1
  <2>3. \A k \in 1..Len(q.next) :
          /\ s[k] = [id |-> s[k].id, rev |-> s[k].rev, text |-> s[k].text]
          /\ s[k].id \in ToSet(Items) /\ s[k].rev \in 1..(revision + 1)
          /\ s[k].text \in SUBSET (1..MaxEdits)
    <3> TAKE k \in 1..Len(q.next)
    <3>1. k \in DOMAIN q.next
      BY <1>2
    <3>2. q.next[k].id \in ToSet(Items) /\ q.next[k].text \in SUBSET (1..MaxEdits)
      BY <1>2, <3>1
    <3> QED BY <1>4, <1>5, <3>1, <3>2
  <2>4. Len(q.next) \in Nat /\ DOMAIN s = 1..Len(q.next)
    BY <1>2, <1>3
  <2> QED BY <1>9, <2>1, <2>2, <2>3, <2>4, MakesListing
<1>7. Ids(s) = Ids(q.next)
  <2>1. DOMAIN s = DOMAIN q.next /\ \A k \in DOMAIN q.next : s[k].id = q.next[k].id
    BY <1>3, <1>5
  <2> QED BY <2>1 DEF Ids
<1>8. Ids(store) = DOMAIN q.revs /\ \A id \in Ids(store) : q.revs[id] = At(store, id).rev
  BY <1>1 DEF Revisions
<1> QED BY <1>1, <1>3, <1>5, <1>6, <1>7, <1>8 DEF s

\* Whatever the store accepts, it is a listing again.
LEMMA AfterTyped ==
  ASSUME StoreTyped, NEW q, CallTyped(q, revision), Accepts(q)
  PROVE  /\ Listing(After(q), revision + 1)
         /\ q.op \in {"update", "create"} => q.expected < revision + 1
<1>1. revision \in Nat /\ q.expected \in 0..revision
  BY DEF StoreTyped, CallTyped
<1>2. CASE q.op = "update" /\ Updatable(q)
  <2>1. Listing(Updated(q), revision + 1) /\ q.expected \in 1..revision
    BY <1>2, UpdatedTyped
  <2>2. After(q) = Updated(q)
    BY <1>2 DEF After
  <2> QED BY <1>1, <2>1, <2>2
<1>3. CASE q.op = "create" /\ Creatable(q)
  <2>1. q.id \in Ids(q.next)
    BY <1>3 DEF CallTyped
  <2>2. At(q.next, q.id) \in Document /\ q.id \in ToSet(Items)
    BY <2>1, NextIs DEF Document
  <2>3. Listing(Created(q), revision + 1)
    BY <1>3, <2>2, CreatedTyped
  <2>4. After(q) = Created(q) /\ q.expected = 0
    BY <1>3 DEF After, CallTyped
  <2> QED BY <1>1, <2>3, <2>4
<1>4. CASE q.op = "reorder" /\ Reorderable(q)
  BY <1>1, <1>4, ReorderedTyped DEF After
<1>5. CASE q.op = "replace" /\ Replaceable(q)
  BY <1>1, <1>5, ReplacedTyped DEF After
<1> QED BY <1>2, <1>3, <1>4, <1>5 DEF Accepts

-----------------------------------------------------------------------------
(* The call for a difference.                                              *)

LEMMA IdsFinite ==
  ASSUME NEW S, NEW s \in Seq(S)
  PROVE  IsFiniteSet(Ids(s))
<1>1. DOMAIN s = 1..Len(s) /\ Len(s) \in Nat
  BY SeqIs
<1>2. IsFiniteSet(DOMAIN s)
  BY <1>1, FS_Interval
<1>3. Id(s) \in Surjection(DOMAIN s, Ids(s))
  BY DEF Ids, Id, Surjection
<1> QED BY <1>2, <1>3, FS_Surjection

\* The same order means the same IDs.
LEMMA SameOrder ==
  ASSUME NEW s, NEW t, Id(s) = Id(t)
  PROVE  DOMAIN s = DOMAIN t /\ Ids(s) = Ids(t) /\ \A k \in DOMAIN s : s[k].id = t[k].id
<1>1. DOMAIN s = DOMAIN Id(s) /\ DOMAIN t = DOMAIN Id(t)
  BY DEF Id
<1>2. \A k \in DOMAIN s : Id(s)[k] = s[k].id /\ Id(t)[k] = t[k].id
  BY <1>1 DEF Id
<1> QED BY <1>1, <1>2 DEF Ids

\* A list and the same list with one more document at its end.
LEMMA OneMore ==
  ASSUME NEW S, NEW prev, NEW next \in Seq(S), Last(next).id \in Ids(next),
         Id(prev) = Id(Front(next))
  PROVE  /\ Ids(next) = Ids(prev) \cup {Last(next).id}
         /\ next # <<>>
<1>1. Len(next) \in Nat /\ DOMAIN next = 1..Len(next)
  BY SeqIs
<1>2. Len(next) # 0
  BY <1>1 DEF Ids
<1>3. /\ DOMAIN Front(next) = 1..(Len(next) - 1)
      /\ \A k \in 1..(Len(next) - 1) : Front(next)[k] = next[k]
  BY <1>1, <1>2 DEF Front
<1>4. Ids(prev) = {next[k].id : k \in 1..(Len(next) - 1)}
  BY <1>3, SameOrder DEF Ids
<1>5. \A k \in DOMAIN next : k \in 1..(Len(next) - 1) \/ k = Len(next)
  BY <1>1
<1>6. 1..(Len(next) - 1) \subseteq DOMAIN next /\ Len(next) \in DOMAIN next
  BY <1>1, <1>2
<1>7. Ids(next) = {next[k].id : k \in 1..(Len(next) - 1)} \cup {next[Len(next)].id}
  BY <1>5, <1>6 DEF Ids
<1> QED BY <1>2, <1>4, <1>7 DEF Last

\* The documents of next with IDs that did not change are in prev.
LEMMA Unchanged ==
  ASSUME NEW S, NEW prev \in Seq(S), NEW next \in Seq(S), Distinct(next),
         NEW k \in DOMAIN next, next[k].id \in Ids(prev),
         At(prev, next[k].id) = At(next, next[k].id)
  PROVE  next[k] \in ToSet(prev)
BY AtDistinct, AtIn

LEMMA RequestIs ==
  ASSUME StoreTyped, CopiesTyped, NEW w \in Workbenches
  PROVE  /\ CallTyped(Request(w), revision)
         /\ Request(w).next = cache[w] /\ Request(w).revs = itemRev[w]
         /\ Request(w).op = "none" => persisted[w] = cache[w]
         /\ (Distinct(cache[w]) /\ DOMAIN itemRev[w] = Ids(persisted[w]))
              => Spares(Request(w), persisted[w])
<1> DEFINE prev == persisted[w]
           next == cache[w]
           added == Ids(next) \ Ids(prev)
           removed == Ids(prev) \ Ids(next)
           changed == {id \in Ids(prev) \cap Ids(next) : At(prev, id) # At(next, id)}
           moved == Id(prev) # Id(next)
           call(op, id) ==
             [op |-> op, id |-> id, next |-> next, coll |-> collRev[w], revs |-> itemRev[w],
              expected |-> IF op = "update" /\ id \in DOMAIN itemRev[w]
                           THEN itemRev[w][id] ELSE 0]
           q == Request(w)
<1>1. /\ prev \in Seq(Document) /\ next \in Seq(Document) /\ revision \in Nat
      /\ Noted(itemRev[w], revision)
  BY DEF StoreTyped, CopiesTyped
<1>2. \/ prev = next /\ q = call("none", None)
      \/ /\ added = {} /\ removed = {} /\ Cardinality(changed) = 1 /\ ~moved
         /\ q = call("update", CHOOSE id \in changed : TRUE)
      \/ /\ changed = {} /\ Last(next).id \in added /\ Id(prev) = Id(Front(next))
         /\ q = call("create", Last(next).id)
      \/ added = {} /\ removed = {} /\ changed = {} /\ q = call("reorder", None)
      \/ q = call("replace", None)
  BY SMTT(30) DEF Request
<1> HIDE DEF q
<1>3. q.next = next /\ q.revs = itemRev[w]
  BY <1>2
<1>4. \A op, id : call(op, id).expected \in 0..revision
  BY <1>1 DEF Noted
<1>5. q.expected \in 0..revision /\ q.op \in Calls
  BY <1>2, <1>4 DEF Calls
<1>11. CallTyped(q, revision) <=>
         /\ q.op \in {"update", "create"} => q.id \in Ids(next)
         /\ q.op = "create" => q.expected = 0
  BY <1>1, <1>3, <1>5 DEF CallTyped
<1>6. CASE prev = next /\ q = call("none", None)
  <2>1. q.op = "none" /\ prev = next
    BY <1>6
  <2> QED BY <1>3, <1>11, <2>1 DEF Spares, q
<1>7. CASE /\ added = {} /\ removed = {} /\ Cardinality(changed) = 1 /\ ~moved
           /\ q = call("update", CHOOSE id \in changed : TRUE)
  <2>1. IsFiniteSet(changed)
    <3>1. changed \subseteq Ids(next)
      OBVIOUS
    <3> QED BY <1>1, <3>1, IdsFinite, FS_Subset
  <2>2. PICK id : changed = {id}
    BY <1>7, <2>1, FS_Singleton
  <2>3. q.op = "update" /\ q.id = id /\ id \in Ids(prev) /\ id \in Ids(next)
    BY <1>7, <2>2
  <2>4. Ids(prev) = Ids(next)
    BY <1>7
  <2>5. ASSUME Distinct(next), DOMAIN itemRev[w] = Ids(prev)
        PROVE  Spares(q, prev)
    <3>1. q.expected = q.revs[q.id]
      <4>1. itemRev[w][id] = q.revs[q.id] /\ id \in DOMAIN itemRev[w]
        BY <1>3, <2>3, <2>5
      <4>2. q = call("update", id)
        BY <1>7, <2>2
      <4> QED BY <4>1, <4>2
    <3>2. ASSUME NEW k \in DOMAIN next, next[k].id # id PROVE next[k] \in ToSet(prev)
      <4>1. next[k].id \in Ids(next)
        BY DEF Ids
      <4>2. At(prev, next[k].id) = At(next, next[k].id)
        BY <2>2, <2>4, <3>2, <4>1
      <4> QED BY <1>1, <2>4, <2>5, <4>1, <4>2, Unchanged
    <3> QED BY <1>3, <2>3, <2>4, <3>1, <3>2 DEF Spares
  <2> QED BY <1>3, <1>11, <2>3, <2>5 DEF q
<1>8. CASE /\ changed = {} /\ Last(next).id \in added /\ Id(prev) = Id(Front(next))
           /\ q = call("create", Last(next).id)
  <2>1. q.op = "create" /\ q.id = Last(next).id /\ q.id \in Ids(next) /\ q.id \notin Ids(prev)
        /\ q.expected = 0
    BY <1>8
  <2>2. Ids(next) = Ids(prev) \cup {q.id}
    BY <1>1, <1>8, <2>1, OneMore
  <2>3. ASSUME Distinct(next), NEW k \in DOMAIN next, next[k].id # q.id
        PROVE  next[k] \in ToSet(prev)
    <3>1. next[k].id \in Ids(prev) /\ next[k].id \in Ids(next)
      BY <2>2, <2>3 DEF Ids
    <3>2. At(prev, next[k].id) = At(next, next[k].id)
      BY <1>8, <3>1
    <3> QED BY <1>1, <2>3, <3>1, <3>2, Unchanged
  <2>4. CallTyped(q, revision)
    BY <1>11, <2>1
  <2>5. Distinct(next) => Spares(q, prev)
    BY <1>3, <2>1, <2>2, <2>3 DEF Spares
  <2> QED BY <1>3, <2>1, <2>4, <2>5 DEF q
<1>9. CASE added = {} /\ removed = {} /\ changed = {} /\ q = call("reorder", None)
  <2>1. q.op = "reorder" /\ Ids(prev) = Ids(next)
    BY <1>9
  <2>2. ASSUME Distinct(next), NEW k \in DOMAIN next PROVE next[k] \in ToSet(prev)
    <3>1. next[k].id \in Ids(prev) /\ next[k].id \in Ids(next)
      BY <2>1 DEF Ids
    <3>2. At(prev, next[k].id) = At(next, next[k].id)
      BY <1>9, <3>1
    <3> QED BY <1>1, <2>2, <3>1, <3>2, Unchanged
  <2>3. CallTyped(q, revision)
    BY <1>11, <2>1
  <2>4. Distinct(next) => Spares(q, prev)
    BY <1>3, <2>1, <2>2 DEF Spares
  <2> QED BY <1>3, <2>1, <2>3, <2>4 DEF q
<1>10. CASE q = call("replace", None)
  <2>1. q.op = "replace"
    BY <1>10
  <2> QED BY <1>3, <1>11, <2>1 DEF Spares, q
<1> QED BY <1>2, <1>6, <1>7, <1>8, <1>9, <1>10 DEF q

-----------------------------------------------------------------------------
(* The types are kept.                                                     *)

\* Only the calls of w change.
LEMMA CallersKept ==
  ASSUME CallersTyped, revision \in Nat, revision' \in Nat, revision <= revision',
         NEW w \in Workbenches, NEW d, NEW h, NEW r,
         DrainTyped(d, revision'), ResolvingTyped(r, revision'),
         h = [c \in Callers |-> h[c]], \A c \in Callers : HydrationTyped(h[c], revision'),
         drain' = [drain EXCEPT ![w] = d],
         hydration' = [hydration EXCEPT ![w] = h],
         resolving' = [resolving EXCEPT ![w] = r]
  PROVE  CallersTyped'
<1>1. /\ drain' = [v \in Workbenches |-> drain'[v]]
      /\ resolving' = [v \in Workbenches |-> resolving'[v]]
      /\ \A v \in Workbenches : /\ drain'[v] = IF v = w THEN d ELSE drain[v]
                                /\ hydration'[v] = IF v = w THEN h ELSE hydration[v]
                                /\ resolving'[v] = IF v = w THEN r ELSE resolving[v]
  BY DEF CallersTyped
<1>2. hydration' = [v \in Workbenches |-> [c \in Callers |-> hydration'[v][c]]]
  <2>1. \A v \in Workbenches : hydration[v] = [c \in Callers |-> hydration[v][c]]
    BY DEF CallersTyped
  <2>2. \A v \in Workbenches : hydration'[v] = [c \in Callers |-> hydration'[v][c]]
    BY <1>1, <2>1
  <2>3. hydration' = [v \in Workbenches |-> hydration'[v]]
    BY DEF CallersTyped
  <2> QED BY <2>2, <2>3
<1>3. ASSUME NEW v \in Workbenches
      PROVE  /\ DrainTyped(drain'[v], revision') /\ ResolvingTyped(resolving'[v], revision')
             /\ \A c \in Callers : HydrationTyped(hydration'[v][c], revision')
  <2>1. CASE v = w
    BY <1>1, <2>1
  <2>2. CASE v # w
    <3>1. /\ DrainTyped(drain[v], revision) /\ ResolvingTyped(resolving[v], revision)
          /\ \A c \in Callers : HydrationTyped(hydration[v][c], revision)
      BY DEF CallersTyped
    <3> QED BY <1>1, <2>2, <3>1, LaterTyped
  <2> QED BY <2>1, <2>2
<1> QED BY <1>1, <1>2, <1>3 DEF CallersTyped

\* What is known of the calls of w, and what it means that they stay.
LEMMA CallersOf ==
  ASSUME CallersTyped, NEW w \in Workbenches
  PROVE  /\ DrainTyped(drain[w], revision) /\ ResolvingTyped(resolving[w], revision)
         /\ \A c \in Callers : HydrationTyped(hydration[w][c], revision)
         /\ hydration[w] = [c \in Callers |-> hydration[w][c]]
         /\ drain = [drain EXCEPT ![w] = drain[w]]
         /\ hydration = [hydration EXCEPT ![w] = hydration[w]]
         /\ resolving = [resolving EXCEPT ![w] = resolving[w]]
<1>1. hydration[w] = [c \in Callers |-> hydration[w][c]]
  BY DEF CallersTyped
<1>2. /\ drain = [drain EXCEPT ![w] = drain[w]]
      /\ hydration = [hydration EXCEPT ![w] = hydration[w]]
      /\ resolving = [resolving EXCEPT ![w] = resolving[w]]
  BY DEF CallersTyped
<1> QED BY <1>1, <1>2 DEF CallersTyped

\* Only the drain, only one hydration, or only the resolution changes.
LEMMA DrainKept ==
  ASSUME CallersTyped, revision \in Nat, revision' \in Nat, revision <= revision',
         NEW w \in Workbenches, NEW d, DrainTyped(d, revision'),
         drain' = [drain EXCEPT ![w] = d], UNCHANGED <<hydration, resolving>>
  PROVE  CallersTyped'
<1>1. /\ ResolvingTyped(resolving[w], revision')
      /\ \A c \in Callers : HydrationTyped(hydration[w][c], revision')
  BY CallersOf, LaterTyped
<1> QED BY <1>1, CallersOf, CallersKept

LEMMA ResolvingKept ==
  ASSUME CallersTyped, revision \in Nat, revision' \in Nat, revision <= revision',
         NEW w \in Workbenches, NEW r, ResolvingTyped(r, revision'),
         resolving' = [resolving EXCEPT ![w] = r], UNCHANGED <<hydration, drain>>
  PROVE  CallersTyped'
<1>1. /\ DrainTyped(drain[w], revision')
      /\ \A c \in Callers : HydrationTyped(hydration[w][c], revision')
  BY CallersOf, LaterTyped
<1> QED BY <1>1, CallersOf, CallersKept

LEMMA HydrationKept ==
  ASSUME CallersTyped, revision \in Nat, UNCHANGED revision,
         NEW w \in Workbenches, NEW c \in Callers, NEW h, NEW d, NEW r,
         HydrationTyped(h, revision), DrainTyped(d, revision), ResolvingTyped(r, revision),
         hydration' = [hydration EXCEPT ![w][c] = h],
         drain' = [drain EXCEPT ![w] = d], resolving' = [resolving EXCEPT ![w] = r]
  PROVE  CallersTyped'
<1> DEFINE g == [hydration[w] EXCEPT ![c] = h]
<1>1. hydration[w] = [b \in Callers |-> hydration[w][b]]
      /\ \A b \in Callers : HydrationTyped(hydration[w][b], revision)
  BY CallersOf
<1>2. g = [b \in Callers |-> g[b]] /\ \A b \in Callers : HydrationTyped(g[b], revision)
  BY <1>1
<1>3. hydration' = [hydration EXCEPT ![w] = g]
  OBVIOUS
<1> HIDE DEF g
<1>4. /\ revision' \in Nat /\ revision <= revision'
      /\ DrainTyped(d, revision') /\ ResolvingTyped(r, revision')
      /\ \A b \in Callers : HydrationTyped(g[b], revision')
  BY <1>2
<1> QED BY <1>2, <1>3, <1>4, CallersKept

LEMMA CopiesKept ==
  ASSUME CopiesTyped, UNCHANGED local,
         revision \in Nat, revision' \in Nat, revision <= revision'
  PROVE  CopiesTyped'
<1>1. \A w \in Workbenches : Noted(itemRev[w], revision')
  BY LaterTyped DEF CopiesTyped
<1>2. collRev \in [Workbenches -> 0..revision']
  BY DEF CopiesTyped
<1> QED BY <1>1, <1>2 DEF CopiesTyped, local

LEMMA InitTyped ==
  ASSUME Init
  PROVE  TypedInv
<1>1. Items \in Seq(ToSet(Items)) /\ IsInjective(Items)
  BY SharedLibraryAssumption
<1>2. /\ Initially \in Nat /\ Initially <= Len(Items) /\ Len(Items) \in Nat
      /\ DOMAIN Items = 1..Len(Items)
      /\ MaxEdits \in Nat /\ MaxFaults \in Nat
  BY <1>1, SharedLibraryAssumption
<1>3. \A k \in 1..Initially : k \in DOMAIN Items /\ Items[k] \in ToSet(Items)
  BY <1>2 DEF ToSet
<1>4. /\ DOMAIN store = 1..Initially /\ store = [k \in 1..Initially |-> store[k]]
      /\ revision = Initially
  BY DEF Init
<1>5. \A k \in 1..Initially : store[k] = [id |-> Items[k], rev |-> 1, text |-> {}]
  BY DEF Init
<1>6. Listing(store, revision)
  <2>1. \A k \in 1..Initially :
          /\ store[k] = [id |-> store[k].id, rev |-> store[k].rev, text |-> store[k].text]
          /\ store[k].id \in ToSet(Items) /\ store[k].rev \in 1..revision
          /\ store[k].text \in SUBSET (1..MaxEdits)
    BY <1>2, <1>3, <1>4, <1>5
  <2>2. \A k, l \in 1..Initially : store[k].id = store[l].id => k = l
    <3>1. \A k, l \in DOMAIN Items : Items[k] = Items[l] => k = l
      BY <1>1 DEF IsInjective
    <3>2. ASSUME NEW k \in 1..Initially PROVE store[k].id = Items[k]
      <4>1. store[k] = [id |-> Items[k], rev |-> 1, text |-> {}]
        BY <1>5
      <4> QED BY <4>1
    <3> SUFFICES ASSUME NEW k \in 1..Initially, NEW l \in 1..Initially,
                        store[k].id = store[l].id
                 PROVE  k = l
      OBVIOUS
    <3>3. k \in DOMAIN Items /\ l \in DOMAIN Items
      BY <1>3
    <3>4. Items[k] = Items[l]
      BY <3>2
    <3> QED BY <3>1, <3>3, <3>4
  <2>3. Initially \in Nat /\ revision \in Nat
    BY <1>2, <1>4
  <2> QED BY <1>4, <2>1, <2>2, <2>3, MakesListing
<1>7. StoreTyped
  BY <1>2, <1>4, <1>6 DEF Init, StoreTyped
<1>8. CopiesTyped
  <2>1. Documents(store) \in Seq(Document) /\ Noted(Revisions(store), revision)
    BY <1>2, <1>4, <1>6, DocumentsOf, RevisionsOf
  <2>2. revision \in 0..revision
    BY <1>2, <1>4
  <2> QED BY <2>1, <2>2 DEF Init, CopiesTyped
<1>9. CallersTyped
  BY DEF Init, CallersTyped, DrainTyped, ResolvingTyped, HydrationTyped
<1> QED BY <1>7, <1>8, <1>9 DEF TypedInv

-----------------------------------------------------------------------------
(* A user's steps.                                                         *)

LEMMA SetTyped ==
  ASSUME TypedInv, NEW w \in Workbenches, NEW docs \in Seq(Document), Set(w, docs),
         created' \in 0..Len(Items)
  PROVE  TypedInv'
<1>1. StoreTyped'
  BY SharedLibraryAssumption DEF Set, TypedInv, StoreTyped
<1>2. CopiesTyped'
  <2>1. /\ cache' \in [Workbenches -> Seq(Document)]
        /\ dirty' \in [Workbenches -> BOOLEAN]
        /\ UNCHANGED <<persisted, itemRev, collRev, conflict, revision>>
    BY DEF Set, TypedInv, CopiesTyped
  <2> QED BY <2>1 DEF TypedInv, CopiesTyped
<1>3. CallersTyped'
  BY DEF Set, TypedInv, CallersTyped
<1> QED BY <1>1, <1>2, <1>3 DEF TypedInv

LEMMA Retold ==
  ASSUME NEW d \in Document, NEW x
  PROVE  [d EXCEPT !.text = x] = [id |-> d.id, text |-> x]
BY DEF Document

LEMMA EditedDocs ==
  ASSUME TypedInv, NEW w \in Workbenches, edits < MaxEdits,
         NEW k \in DOMAIN cache[w]
  PROVE  /\ [cache[w] EXCEPT ![k].text = @ \cup {edits + 1}] \in Seq(Document)
         /\ [cache[w] EXCEPT ![k].text = @ \cup {edits + 1}]
              = [l \in DOMAIN cache[w] |->
                   IF l = k THEN [id |-> cache[w][l].id,
                                  text |-> cache[w][l].text \cup {edits + 1}]
                   ELSE cache[w][l]]
<1> DEFINE s == cache[w]
           e == [id |-> s[k].id, text |-> s[k].text \cup {edits + 1}]
<1>1. /\ s \in Seq(Document) /\ DOMAIN s = 1..Len(s) /\ Len(s) \in Nat
      /\ \A l \in DOMAIN s : s[l] \in Document
  BY SeqIs DEF TypedInv, CopiesTyped
<1>2. edits + 1 \in 1..MaxEdits
  BY SharedLibraryAssumption DEF TypedInv, StoreTyped
<1>3. e \in Document /\ [s[k] EXCEPT !.text = @ \cup {edits + 1}] = e
  <2>1. /\ s[k] = [id |-> s[k].id, text |-> s[k].text]
        /\ s[k].id \in ToSet(Items) /\ s[k].text \in SUBSET (1..MaxEdits)
    BY <1>1 DEF Document
  <2>2. e \in Document
    BY <1>2, <2>1 DEF Document
  <2>3. [s[k] EXCEPT !.text = @ \cup {edits + 1}] = e
    BY <1>1, Retold
  <2> QED BY <2>2, <2>3
<1>4. [s EXCEPT ![k].text = @ \cup {edits + 1}] = [s EXCEPT ![k] = e]
  <2>1. [s EXCEPT ![k].text = @ \cup {edits + 1}]
          = [s EXCEPT ![k] = [s[k] EXCEPT !.text = @ \cup {edits + 1}]]
    OBVIOUS
  <2> QED BY <1>3, <2>1
<1>5. [s EXCEPT ![k] = e] \in Seq(Document)
  BY <1>1, <1>3
<1> QED BY <1>4, <1>5

LEMMA AddedDocs ==
  ASSUME TypedInv, NEW w \in Workbenches, edits < MaxEdits, created < Len(Items)
  PROVE  /\ [id |-> Items[created + 1], text |-> {edits + 1}] \in Document
         /\ created + 1 \in 0..Len(Items) /\ created + 1 \in DOMAIN Items
         /\ Items[created + 1] \in ToSet(Items)
<1>1. Items \in Seq(ToSet(Items)) /\ DOMAIN Items = 1..Len(Items) /\ Len(Items) \in Nat
  BY SharedLibraryAssumption
<1>2. created + 1 \in DOMAIN Items /\ created + 1 \in 0..Len(Items) /\ edits + 1 \in 1..MaxEdits
  BY <1>1, SharedLibraryAssumption DEF TypedInv, StoreTyped
<1>3. Items[created + 1] \in ToSet(Items)
  BY <1>2 DEF ToSet
<1> QED BY <1>2, <1>3 DEF Document

\* What is left when one document is removed, and the rotation of a list.
LEMMA RemovedDocs ==
  ASSUME NEW S, NEW s \in Seq(S), NEW k \in DOMAIN s
  PROVE  /\ RemoveAt(s, k) \in Seq(S)
         /\ DOMAIN RemoveAt(s, k) = 1..(Len(s) - 1)
         /\ \A l \in 1..(Len(s) - 1) : RemoveAt(s, k)[l] = s[IF l < k THEN l ELSE l + 1]
<1>1. Len(s) \in Nat /\ DOMAIN s = 1..Len(s) /\ k \in 1..Len(s)
  BY SeqIs
<1> DEFINE a == SubSeq(s, 1, k - 1)
           b == SubSeq(s, k + 1, Len(s))
<1>2. /\ a \in Seq(S) /\ Len(a) = k - 1 /\ \A l \in 1..(k - 1) : a[l] = s[l]
  BY <1>1
<1>3. /\ b \in Seq(S) /\ Len(b) = Len(s) - k
      /\ \A l \in 1..(Len(s) - k) : b[l] = s[k + l]
  BY <1>1
<1> HIDE DEF a, b
<1>4. RemoveAt(s, k) = a \o b
  BY DEF RemoveAt, a, b
<1>5. a \o b \in Seq(S) /\ Len(a \o b) = Len(s) - 1
  <2>1. a \o b \in Seq(S) /\ Len(a \o b) = Len(a) + Len(b)
    BY <1>2, <1>3, ConcatProperties
  <2> QED BY <1>1, <1>2, <1>3, <2>1
<1>7. DOMAIN (a \o b) = 1..(Len(s) - 1)
  BY <1>5, SeqIs
<1>6. ASSUME NEW l \in 1..(Len(s) - 1) PROVE (a \o b)[l] = s[IF l < k THEN l ELSE l + 1]
  <2>1. CASE l < k
    <3>1. l \in 1..(k - 1)
      BY <1>1, <2>1
    <3>2. (a \o b)[l] = a[l]
      BY <1>1, <1>2, <1>3, <3>1, ConcatProperties
    <3> QED BY <1>2, <2>1, <3>1, <3>2
  <2>2. CASE ~(l < k)
    <3>1. l - (k - 1) \in 1..(Len(s) - k) /\ k + (l - (k - 1)) = l + 1
      BY <1>1, <2>2
    <3>2. (a \o b)[l] = b[l - (k - 1)]
      <4>1. Len(a) = k - 1 /\ Len(b) = Len(s) - k /\ ~(l <= Len(a)) /\ l \in 1..(Len(a) + Len(b))
        <5>1. Len(s) \in Nat /\ k \in 1..Len(s)
          BY <1>1
        <5> QED BY <1>2, <1>3, <2>2, <5>1
      <4>2. (a \o b)[l] = b[l - Len(a)]
        BY <1>2, <1>3, <4>1, ConcatProperties
      <4> QED BY <4>1, <4>2
    <3>3. b[l - (k - 1)] = s[l + 1]
      BY <1>3, <3>1
    <3> QED BY <2>2, <3>2, <3>3
  <2> QED BY <2>1, <2>2
<1> QED BY <1>4, <1>5, <1>6, <1>7

LEMMA RotatedDocs ==
  ASSUME NEW S, NEW s \in Seq(S), Len(s) > 1
  PROVE  /\ Append(Tail(s), Head(s)) \in Seq(S)
         /\ DOMAIN Append(Tail(s), Head(s)) = 1..Len(s)
         /\ \A l \in 1..Len(s) :
              Append(Tail(s), Head(s))[l] = s[IF l = Len(s) THEN 1 ELSE l + 1]
<1>1. Len(s) \in Nat /\ DOMAIN s = 1..Len(s) /\ Head(s) = s[1] /\ s[1] \in S
  BY SeqIs
<1>2. /\ Tail(s) \in Seq(S) /\ Len(Tail(s)) = Len(s) - 1
      /\ \A l \in 1..(Len(s) - 1) : Tail(s)[l] = s[l + 1]
  BY <1>1
<1> DEFINE t == Tail(s)
           h == Head(s)
<1> HIDE DEF t, h
<1>3. /\ Append(t, h) \in Seq(S) /\ Len(Append(t, h)) = Len(t) + 1
      /\ \A l \in 1..Len(t) : Append(t, h)[l] = t[l]
      /\ Append(t, h)[Len(t) + 1] = h
  BY <1>1, <1>2, AppendProperties DEF t, h
<1>4. Len(t) = Len(s) - 1 /\ \A l \in 1..(Len(s) - 1) : t[l] = s[l + 1]
  BY <1>2 DEF t
<1>5. h = s[1]
  BY <1>1 DEF h
<1>6. DOMAIN Append(t, h) = 1..Len(s) /\ Append(t, h) \in Seq(S)
  <2>1. Len(Append(t, h)) = Len(s)
    BY <1>1, <1>3, <1>4
  <2> QED BY <1>3, <2>1, SeqIs
<1>7. ASSUME NEW l \in 1..Len(s)
      PROVE  Append(t, h)[l] = s[IF l = Len(s) THEN 1 ELSE l + 1]
  <2>1. CASE l = Len(s)
    BY <1>1, <1>3, <1>4, <1>5, <2>1
  <2>2. CASE l # Len(s)
    <3>1. l \in 1..(Len(s) - 1)
      <4>1. Len(s) \in Nat
        OBVIOUS
      <4> QED BY <2>2, <4>1
    <3>2. Append(t, h)[l] = t[l] /\ t[l] = s[l + 1]
      BY <1>3, <1>4, <3>1
    <3> QED BY <2>2, <3>2
  <2> QED BY <2>1, <2>2
<1> QED BY <1>6, <1>7 DEF t, h

LEMMA EditTyped ==
  ASSUME TypedInv, NEW w \in Workbenches, Edit(w) \/ Add(w) \/ Delete(w) \/ Reorder(w)
  PROVE  TypedInv'
<1>1. cache[w] \in Seq(Document) /\ created \in 0..Len(Items)
  BY DEF TypedInv, StoreTyped, CopiesTyped
<1>2. CASE Edit(w)
  <2>1. PICK k \in DOMAIN cache[w] :
          Set(w, [cache[w] EXCEPT ![k].text = @ \cup {edits + 1}]) /\ UNCHANGED created
    BY <1>2 DEF Edit
  <2>2. edits < MaxEdits
    BY <2>1 DEF Set
  <2> QED BY <1>1, <2>1, <2>2, EditedDocs, SetTyped
<1>3. CASE Add(w)
  <2> DEFINE d == [id |-> Items[created + 1], text |-> {edits + 1}]
  <2>1. Set(w, Append(cache[w], d)) /\ created' = created + 1
    BY <1>3 DEF Add
  <2>2. edits < MaxEdits /\ created < Len(Items)
    BY <1>3 DEF Add, Set
  <2>3. d \in Document /\ created + 1 \in 0..Len(Items)
    BY <2>2, AddedDocs
  <2> HIDE DEF d
  <2>4. Append(cache[w], d) \in Seq(Document)
    BY <1>1, <2>3
  <2> QED BY <2>1, <2>3, <2>4, SetTyped
<1>4. CASE Delete(w)
  <2>1. PICK k \in DOMAIN cache[w] : Set(w, RemoveAt(cache[w], k)) /\ UNCHANGED created
    BY <1>4 DEF Delete
  <2> QED BY <1>1, <2>1, RemovedDocs, SetTyped
<1>5. CASE Reorder(w)
  <2>1. /\ Len(cache[w]) > 1 /\ Set(w, Append(Tail(cache[w]), Head(cache[w])))
        /\ UNCHANGED created
    BY <1>5 DEF Reorder
  <2> QED BY <1>1, <2>1, RotatedDocs, SetTyped
<1> QED BY <1>2, <1>3, <1>4, <1>5

LEMMA ResolveTyped ==
  ASSUME TypedInv, NEW w \in Workbenches, Resolve(w)
  PROVE  TypedInv'
<1>1. PICK action \in {"reload", "copy"} :
        /\ conflict[w] # None /\ resolving[w] = Idle
        /\ resolving' = [resolving EXCEPT ![w] =
             [at |-> "hydrating", action |-> action, document |-> conflict[w]]]
        /\ hydration' = [hydration EXCEPT ![w]["resolve"] = [at |-> "asked"]]
        /\ dirty' = [dirty EXCEPT ![w] = FALSE]
        /\ UNCHANGED <<store, revision, cache, persisted, itemRev, collRev, drain,
                       conflict, edits, created, faults>>
  BY DEF Resolve
<1>2. StoreTyped'
  BY <1>1 DEF TypedInv, StoreTyped
<1>3. CopiesTyped'
  BY <1>1 DEF TypedInv, CopiesTyped
<1>4. CallersTyped'
  <2> DEFINE r == [at |-> "hydrating", action |-> action, document |-> conflict[w]]
  <2>1. ResolvingTyped(r, revision)
    BY <1>1 DEF TypedInv, CopiesTyped, ResolvingTyped
  <2>2. HydrationTyped([at |-> "asked"], revision)
    BY DEF HydrationTyped
  <2>3. /\ CallersTyped /\ revision \in Nat /\ UNCHANGED revision /\ "resolve" \in Callers
        /\ DrainTyped(drain[w], revision) /\ drain' = [drain EXCEPT ![w] = drain[w]]
    BY <1>1, CallersOf DEF TypedInv, StoreTyped, Callers
  <2> QED BY <1>1, <2>1, <2>2, <2>3, HydrationKept
<1> QED BY <1>2, <1>3, <1>4 DEF TypedInv

-----------------------------------------------------------------------------
(* The steps of a drain.                                                   *)

LEMMA TurnTyped ==
  ASSUME TypedInv, NEW w \in Workbenches, Turn(w),
         UNCHANGED <<store, revision, cache, persisted, itemRev, collRev, conflict,
                     hydration, resolving, edits, created, faults>>
  PROVE  TypedInv'
<1> DEFINE d == [at |-> IF Request(w).op = "none" THEN "saving" ELSE "called",
                 call |-> Request(w), attached |-> TRUE]
<1>1. StoreTyped'
  BY DEF TypedInv, StoreTyped
<1>2. CopiesTyped'
  BY DEF Turn, TypedInv, CopiesTyped
<1>3. CallersTyped'
  <2>1. CallTyped(Request(w), revision)
    BY RequestIs DEF TypedInv
  <2>2. DrainTyped(d, revision)
    BY <2>1 DEF DrainTyped, Underway
  <2>3. drain' = [drain EXCEPT ![w] = d]
    BY DEF Turn
  <2>4. /\ CallersTyped /\ revision \in Nat /\ revision' \in Nat /\ revision <= revision'
        /\ DrainTyped(d, revision')
    BY <2>2 DEF TypedInv, StoreTyped
  <2> HIDE DEF d
  <2> QED BY <2>3, <2>4, DrainKept
<1> QED BY <1>1, <1>2, <1>3 DEF TypedInv

\* A drain by where it is.
LEMMA DrainIs ==
  ASSUME TypedInv, NEW w \in Workbenches, drain[w] # Idle
  PROVE  /\ CallTyped(drain[w].call, revision) /\ drain[w].attached \in BOOLEAN
         /\ drain[w].at \in Underway =>
              /\ drain[w] = [at |-> drain[w].at, call |-> drain[w].call,
                             attached |-> drain[w].attached]
              /\ drain[w].at = "called" => drain[w].call.op # "none"
         /\ drain[w].at \notin Underway =>
              /\ drain[w].at \in Answered
              /\ drain[w] = [at |-> drain[w].at, call |-> drain[w].call,
                             attached |-> drain[w].attached,
                             coll |-> drain[w].coll, revs |-> drain[w].revs]
              /\ drain[w].coll \in 0..revision /\ Noted(drain[w].revs, revision)
              /\ drain[w].call.op \in {"update", "create"} => drain[w].call.expected < revision
<1>1. DrainTyped(drain[w], revision)
  BY DEF TypedInv, CallersTyped
<1>2. Underway \cap Answered = {}
  BY DEF Underway, Answered
<1> QED BY <1>1, <1>2 DEF DrainTyped

LEMMA ServeTyped ==
  ASSUME TypedInv, NEW w \in Workbenches, Serve(w)
  PROVE  TypedInv'
<1> DEFINE q == drain[w].call
           accepted == [at |-> IF q.op \in {"update", "create"} THEN "committed" ELSE "stored",
                        call |-> q, attached |-> drain[w].attached,
                        coll |-> revision + 1, revs |-> Revisions(After(q))]
           refused == [at |-> "refused", call |-> q, attached |-> drain[w].attached]
<1>1. /\ StoreTyped /\ CopiesTyped /\ CallersTyped /\ revision \in Nat
      /\ drain[w].at = "called" /\ drain[w] # Idle
      /\ UNCHANGED <<local, hydration, resolving, edits, created, faults>>
  BY DEF Serve, TypedInv, StoreTyped, Idle
<1>2. /\ CallTyped(q, revision) /\ drain[w].attached \in BOOLEAN
      /\ drain[w] = [at |-> drain[w].at, call |-> q, attached |-> drain[w].attached]
  BY <1>1, DrainIs DEF Underway
<1>3. CASE Accepts(q)
  <2>1. store' = After(q) /\ revision' = revision + 1
    BY <1>3 DEF Serve
  <2>2. Listing(After(q), revision + 1) /\ (q.op \in {"update", "create"} => q.expected < revision + 1)
    BY <1>1, <1>2, <1>3, AfterTyped
  <2>3. drain' = [drain EXCEPT ![w] = accepted]
    <3>1. drain' = [drain EXCEPT ![w] =
            [at |-> IF q.op \in {"update", "create"} THEN "committed" ELSE "stored",
             call |-> q, attached |-> drain[w].attached,
             coll |-> revision', revs |-> Revisions(store')]]
      BY <1>3 DEF Serve
    <3> QED BY <2>1, <3>1, SMTT(30) DEF Revisions, Ids, At
  <2>4. DrainTyped(accepted, revision + 1)
    <3>1. CallTyped(q, revision + 1)
      BY <1>1, <1>2, LaterTyped
    <3>2. Noted(Revisions(After(q)), revision + 1)
      BY <1>1, <2>2, RevisionsOf
    <3>3. revision + 1 \in 0..(revision + 1)
      BY <1>1
    <3> QED BY <1>2, <2>2, <3>1, <3>2, <3>3 DEF DrainTyped, Answered
  <2>5. revision' \in Nat /\ revision <= revision' /\ revision' = revision + 1
    BY <1>1, <2>1
  <2>6. StoreTyped'
    BY <1>1, <2>1, <2>2, <2>5 DEF StoreTyped
  <2>7. CopiesTyped'
    BY <1>1, <2>5, CopiesKept
  <2> HIDE DEF accepted
  <2>8. CallersTyped'
    BY <1>1, <2>3, <2>4, <2>5, DrainKept
  <2> QED BY <2>6, <2>7, <2>8 DEF TypedInv
<1>4. CASE ~Accepts(q)
  <2>1. drain' = [drain EXCEPT ![w] = refused] /\ UNCHANGED <<store, revision>>
    <3>1. drain' = [drain EXCEPT ![w].at = "refused"] /\ UNCHANGED <<store, revision>>
      BY <1>4 DEF Serve
    <3>2. [drain[w] EXCEPT !.at = "refused"] = refused
      BY <1>2
    <3> QED BY <3>1, <3>2
  <2>2. DrainTyped(refused, revision')
    BY <1>2, <2>1 DEF DrainTyped, Underway
  <2>3. StoreTyped'
    BY <1>1, <2>1 DEF StoreTyped
  <2>4. revision' \in Nat /\ revision <= revision'
    BY <1>1, <2>1
  <2>5. CopiesTyped'
    BY <1>1, <2>4, CopiesKept
  <2> HIDE DEF refused
  <2>6. CallersTyped'
    BY <1>1, <2>1, <2>2, <2>4, DrainKept
  <2> QED BY <2>3, <2>5, <2>6 DEF TypedInv
<1> QED BY <1>3, <1>4

\* A drain goes on, and the copy of w may learn from it.
LEMMA DrainTypes ==
  ASSUME TypedInv, NEW w \in Workbenches, NEW d, DrainTyped(d, revision),
         drain' = [drain EXCEPT ![w] = d], CopiesTyped',
         UNCHANGED <<store, revision, hydration, resolving, edits, created>>,
         faults' \in 0..MaxFaults
  PROVE  TypedInv'
<1>1. StoreTyped'
  BY DEF TypedInv, StoreTyped
<1>2. CallersTyped'
  <2>1. CallersTyped /\ revision \in Nat /\ revision' \in Nat /\ revision <= revision'
        /\ DrainTyped(d, revision')
    BY DEF TypedInv, StoreTyped
  <2> QED BY <2>1, DrainKept
<1> QED BY <1>1, <1>2 DEF TypedInv

\* What a workbench learns from an answer.
LEMMA LearnedTyped ==
  ASSUME TypedInv, NEW w \in Workbenches, drain[w].at \in Answered
  PROVE  Noted(Learned(w), revision)
<1>1. /\ drain[w] # Idle /\ drain[w].at \notin Underway
      /\ revision \in Nat /\ Noted(itemRev[w], revision)
  BY DEF Idle, Underway, Answered, TypedInv, StoreTyped, CopiesTyped
<1>2. /\ Noted(drain[w].revs, revision) /\ CallTyped(drain[w].call, revision)
      /\ drain[w].call.op \in {"update", "create"} => drain[w].call.expected < revision
  BY <1>1, DrainIs
<1> DEFINE q == drain[w].call
           f == [id \in DOMAIN itemRev[w] \cup {q.id} |->
                   IF id = q.id THEN q.expected + 1 ELSE itemRev[w][id]]
<1>3. q.op \in {"update", "create"} => Noted(f, revision)
  <2>1. q.op \in {"update", "create"} => q.expected + 1 \in 1..revision
    BY <1>1, <1>2 DEF CallTyped
  <2>2. \A id \in DOMAIN itemRev[w] : itemRev[w][id] \in 1..revision
    BY <1>1 DEF Noted
  <2> QED BY <2>1, <2>2 DEF Noted
<1>4. Learned(w) \in {drain[w].revs, f, itemRev[w]}
      /\ (Learned(w) = f => q.op \in {"update", "create"} \/ f \in {drain[w].revs, itemRev[w]})
  BY DEF Learned
<1> HIDE DEF f
<1> QED BY <1>1, <1>2, <1>3, <1>4

LEMMA DrainStepTyped ==
  ASSUME TypedInv, NEW w \in Workbenches, DrainStep(w) \/ Fault(w)
  PROVE  TypedInv'
<1>1. /\ CopiesTyped /\ revision \in Nat /\ faults \in 0..MaxFaults
      /\ DrainTyped(Idle, revision)
  BY DEF TypedInv, StoreTyped, DrainTyped
<1>2. CASE EnsureDrain(w)
  BY <1>2, TurnTyped DEF EnsureDrain
<1>3. CASE Serve(w)
  BY <1>3, ServeTyped
<1>4. CASE ReadRevision(w)
  <2> DEFINE d == [at |-> "stored", call |-> drain[w].call, attached |-> drain[w].attached,
                   coll |-> revision, revs |-> drain[w].revs]
  <2>1. drain[w].at \notin Underway /\ drain[w] # Idle
    BY <1>4 DEF ReadRevision, Underway, Idle
  <2>2. /\ drain[w] = [at |-> drain[w].at, call |-> drain[w].call, attached |-> drain[w].attached,
                       coll |-> drain[w].coll, revs |-> drain[w].revs]
        /\ drain[w].attached \in BOOLEAN /\ CallTyped(drain[w].call, revision)
        /\ Noted(drain[w].revs, revision)
        /\ drain[w].call.op \in {"update", "create"} => drain[w].call.expected < revision
    BY <2>1, DrainIs
  <2>3. DrainTyped(d, revision)
    BY <1>1, <2>2 DEF DrainTyped, Answered
  <2>4. drain' = [drain EXCEPT ![w] = d]
    BY <1>4 DEF ReadRevision
  <2>5. /\ UNCHANGED <<store, revision, local, hydration, resolving, edits, created, faults>>
    BY <1>4 DEF ReadRevision
  <2>6. CopiesTyped'
    BY <1>1, <2>5, CopiesKept
  <2> HIDE DEF d
  <2> QED BY <1>1, <2>3, <2>4, <2>5, <2>6, DrainTypes
<1>5. CASE Stored(w)
  <2> DEFINE d == [at |-> "saving", call |-> drain[w].call, attached |-> drain[w].attached]
  <2>1. drain[w].at = "stored" /\ drain[w].at \notin Underway /\ drain[w] # Idle
    BY <1>5 DEF Stored, Underway, Idle
  <2>2. /\ drain[w].attached \in BOOLEAN /\ CallTyped(drain[w].call, revision)
        /\ drain[w].coll \in 0..revision /\ drain[w].call.next \in Seq(Document)
        /\ Noted(Learned(w), revision)
    BY <2>1, DrainIs, LearnedTyped DEF CallTyped, Answered
  <2>3. /\ itemRev' = [itemRev EXCEPT ![w] = Learned(w)]
        /\ collRev' = [collRev EXCEPT ![w] = drain[w].coll]
        /\ persisted' = [persisted EXCEPT ![w] = drain[w].call.next]
        /\ drain' = [drain EXCEPT ![w] = d]
        /\ UNCHANGED <<store, revision, cache, dirty, conflict,
                       hydration, resolving, edits, created, faults>>
    BY <1>5 DEF Stored
  <2>4. CopiesTyped'
    BY <1>1, <2>2, <2>3 DEF CopiesTyped
  <2>5. DrainTyped(d, revision)
    BY <2>2 DEF DrainTyped, Underway
  <2> HIDE DEF d
  <2> QED BY <1>1, <2>3, <2>4, <2>5, DrainTypes
<1>6. CASE Saved(w)
  <2>1. UNCHANGED <<store, revision, cache, persisted, itemRev, collRev, conflict,
                    hydration, resolving, edits, created, faults>>
    BY <1>6 DEF Saved
  <2>2. CASE Turn(w)
    BY <2>1, <2>2, TurnTyped
  <2>3. CASE drain' = [drain EXCEPT ![w] = Idle] /\ UNCHANGED dirty
    <3>1. CopiesTyped'
      BY <1>1, <2>1, <2>3, CopiesKept DEF local
    <3> QED BY <1>1, <2>1, <2>3, <3>1, DrainTypes
  <2> QED BY <1>6, <2>2, <2>3 DEF Saved
<1>7. CASE DrainFailed(w)
  <2>1. /\ dirty' = [dirty EXCEPT ![w] = TRUE] /\ drain' = [drain EXCEPT ![w] = Idle]
        /\ conflict' = [conflict EXCEPT ![w] =
             IF /\ drain[w].at = "refused" /\ drain[w].call.op = "update"
                /\ drain[w].call.expected # 0
             THEN At(drain[w].call.next, drain[w].call.id) ELSE @]
        /\ UNCHANGED <<store, revision, cache, persisted, itemRev, collRev,
                       hydration, resolving, edits, created, faults>>
    BY <1>7 DEF DrainFailed
  <2>2. drain[w].call.op = "update" => At(drain[w].call.next, drain[w].call.id) \in Document
    <3>1. drain[w] # Idle
      BY <1>7 DEF DrainFailed, Idle
    <3>2. CallTyped(drain[w].call, revision)
      BY <3>1, DrainIs
    <3> QED BY <3>2, NextIs DEF CallTyped
  <2>3. conflict' \in [Workbenches -> Document \cup {None}]
    BY <1>1, <2>1, <2>2 DEF CopiesTyped
  <2>4. dirty' \in [Workbenches -> BOOLEAN]
    BY <1>1, <2>1 DEF CopiesTyped
  <2>5. CopiesTyped'
    BY <1>1, <2>1, <2>3, <2>4 DEF CopiesTyped
  <2> QED BY <1>1, <2>1, <2>5, DrainTypes
<1>8. CASE Fault(w)
  <2> DEFINE d == [at |-> "failed", call |-> drain[w].call, attached |-> drain[w].attached]
  <2>1. drain[w].at \in Underway /\ drain[w] # Idle
    BY <1>8 DEF Fault, Underway, Idle
  <2>2. /\ drain[w] = [at |-> drain[w].at, call |-> drain[w].call, attached |-> drain[w].attached]
        /\ drain[w].attached \in BOOLEAN /\ CallTyped(drain[w].call, revision)
    BY <2>1, DrainIs
  <2>3. DrainTyped(d, revision)
    BY <2>2 DEF DrainTyped, Underway
  <2>4. drain' = [drain EXCEPT ![w] = d]
    <3>1. drain' = [drain EXCEPT ![w].at = "failed"]
      BY <1>8 DEF Fault
    <3>2. [drain[w] EXCEPT !.at = "failed"] = d
      BY <2>2
    <3> QED BY <3>1, <3>2
  <2>5. UNCHANGED <<store, revision, local, hydration, resolving, edits, created>>
    BY <1>8 DEF Fault
  <2>6. faults' \in 0..MaxFaults
    BY <1>1, <1>8, SharedLibraryAssumption DEF Fault
  <2>7. CopiesTyped'
    BY <1>1, <2>5, CopiesKept
  <2> HIDE DEF d
  <2> QED BY <2>3, <2>4, <2>5, <2>6, <2>7, DrainTypes
<1> QED BY <1>2, <1>3, <1>4, <1>5, <1>6, <1>7, <1>8 DEF DrainStep

-----------------------------------------------------------------------------
(* The steps of a hydration.                                               *)

LEMMA HydrationTypes ==
  ASSUME TypedInv, NEW w \in Workbenches, NEW c \in Callers,
         NEW h, HydrationTyped(h, revision), hydration' = [hydration EXCEPT ![w][c] = h],
         UNCHANGED <<store, revision, local, drain, resolving, edits, created, faults>>
  PROVE  TypedInv'
<1>1. StoreTyped'
  BY DEF TypedInv, StoreTyped
<1>2. CopiesTyped'
  BY CopiesKept DEF TypedInv, StoreTyped
<1>3. CallersTyped'
  <2>1. CallersTyped /\ revision \in Nat /\ UNCHANGED revision
    BY DEF TypedInv, StoreTyped
  <2>2. /\ DrainTyped(drain[w], revision) /\ drain' = [drain EXCEPT ![w] = drain[w]]
        /\ ResolvingTyped(resolving[w], revision)
        /\ resolving' = [resolving EXCEPT ![w] = resolving[w]]
    BY <2>1, CallersOf
  <2> QED BY <2>1, <2>2, HydrationKept
<1> QED BY <1>1, <1>2, <1>3 DEF TypedInv

LEMMA HydrationIs ==
  ASSUME TypedInv, NEW w \in Workbenches, NEW c \in Callers,
         hydration[w][c].at \in {"listed", "answered"}
  PROVE  /\ Listing(hydration[w][c].items, revision)
         /\ hydration[w][c].at = "answered" => hydration[w][c].coll \in 0..revision
<1>1. HydrationTyped(hydration[w][c], revision)
  BY DEF TypedInv, CallersTyped
<1> QED BY <1>1 DEF HydrationTyped, Idle

LEMMA ReadTyped ==
  ASSUME TypedInv, NEW w \in Workbenches, NEW c \in Callers,
         \/ c = "refresh" /\ Refresh(w)
         \/ ListItems(w, c) \/ ReadCollection(w, c)
  PROVE  TypedInv'
<1>1. Listing(store, revision) /\ revision \in Nat
  BY DEF TypedInv, StoreTyped
<1>2. CASE c = "refresh" /\ Refresh(w)
  <2>1. HydrationTyped([at |-> "asked"], revision)
    BY DEF HydrationTyped
  <2> QED BY <1>2, <2>1, HydrationTypes DEF Refresh
<1>3. CASE ListItems(w, c)
  <2> DEFINE h == [at |-> "listed", items |-> store]
  <2>1. HydrationTyped(h, revision)
    BY <1>1 DEF HydrationTyped
  <2>2. hydration' = [hydration EXCEPT ![w][c] = h]
        /\ UNCHANGED <<store, revision, local, drain, resolving, edits, created, faults>>
    BY <1>3 DEF ListItems
  <2> HIDE DEF h
  <2> QED BY <2>1, <2>2, HydrationTypes
<1>4. CASE ReadCollection(w, c)
  <2> DEFINE h == [at |-> "answered", items |-> hydration[w][c].items, coll |-> revision]
  <2>1. Listing(hydration[w][c].items, revision)
    BY <1>4, HydrationIs DEF ReadCollection
  <2>2. HydrationTyped(h, revision)
    BY <1>1, <2>1 DEF HydrationTyped
  <2>3. /\ hydration' = [hydration EXCEPT ![w][c] = h]
        /\ UNCHANGED <<store, revision, local, drain, resolving, edits, created, faults>>
    BY <1>4 DEF ReadCollection
  <2> HIDE DEF h
  <2> QED BY <2>2, <2>3, HydrationTypes
<1> QED BY <1>2, <1>3, <1>4

\* A drain that loses its map keeps its type.
LEMMA DetachedTyped ==
  ASSUME NEW d, NEW n, DrainTyped(d, n), d # Idle
  PROVE  DrainTyped([d EXCEPT !.attached = FALSE], n)
<1> DEFINE e == [d EXCEPT !.attached = FALSE]
<1>1. CASE /\ d.at \in Underway /\ CallTyped(d.call, n) /\ (d.at = "called" => d.call.op # "none")
           /\ d = [at |-> d.at, call |-> d.call, attached |-> d.attached]
  <2>1. DOMAIN d = {"at", "call", "attached"}
    BY <1>1
  <2>2. e = [x \in {"at", "call", "attached"} |-> e[x]]
    BY <2>1
  <2>3. e.at = d.at /\ e.call = d.call /\ e.attached = FALSE
    BY <2>1
  <2> HIDE DEF e
  <2>4. e = [at |-> e.at, call |-> e.call, attached |-> e.attached]
    BY <2>2
  <2>5. DrainTyped(e, n)
    BY <1>1, <2>3, <2>4 DEF DrainTyped
  <2> QED BY <2>5 DEF e
<1>2. CASE /\ d.at \in Answered /\ CallTyped(d.call, n)
           /\ d.coll \in 0..n /\ Noted(d.revs, n)
           /\ d.call.op \in {"update", "create"} => d.call.expected < n
           /\ d = [at |-> d.at, call |-> d.call, attached |-> d.attached,
                   coll |-> d.coll, revs |-> d.revs]
  <2>1. DOMAIN d = {"at", "call", "attached", "coll", "revs"}
    BY <1>2
  <2>2. e = [x \in {"at", "call", "attached", "coll", "revs"} |-> e[x]]
    BY <2>1
  <2>3. e.at = d.at /\ e.call = d.call /\ e.attached = FALSE /\ e.coll = d.coll /\ e.revs = d.revs
    BY <2>1
  <2> HIDE DEF e
  <2>4. e = [at |-> e.at, call |-> e.call, attached |-> e.attached,
             coll |-> e.coll, revs |-> e.revs]
    BY <2>2
  <2>5. DrainTyped(e, n)
    BY <1>2, <2>3, <2>4 DEF DrainTyped
  <2> QED BY <2>5 DEF e
<1> QED BY <1>1, <1>2 DEF DrainTyped

LEMMA RemoteTyped ==
  ASSUME TypedInv, NEW w \in Workbenches, NEW h, Listing(h.items, revision),
         h.coll \in 0..revision, NEW waits, ApplyRemote(w, h, waits),
         UNCHANGED <<revision, dirty>>, conflict' \in [Workbenches -> Document \cup {None}]
  PROVE  /\ CopiesTyped'
         /\ \E d : DrainTyped(d, revision) /\ drain' = [drain EXCEPT ![w] = d]
<1>1. /\ CopiesTyped /\ revision \in Nat
      /\ DrainTyped(drain[w], revision) /\ drain = [drain EXCEPT ![w] = drain[w]]
  BY CallersOf DEF TypedInv, StoreTyped
<1>2. CASE ~News(w, h)
  <2>1. UNCHANGED <<cache, persisted, itemRev, collRev, drain>>
    BY <1>2 DEF ApplyRemote
  <2> QED BY <1>1, <2>1 DEF CopiesTyped
<1>3. CASE News(w, h)
  <2>1. Documents(h.items) \in Seq(Document) /\ Noted(Revisions(h.items), revision)
    BY <1>1, DocumentsOf, RevisionsOf
  <2>2. /\ persisted' = [persisted EXCEPT ![w] = Documents(h.items)]
        /\ itemRev' = [itemRev EXCEPT ![w] = Revisions(h.items)]
        /\ collRev' = [collRev EXCEPT ![w] = h.coll]
        /\ cache' = cache \/ cache' = [cache EXCEPT ![w] = Documents(h.items)]
        /\ IF drain[w] = Idle THEN drain' = drain
           ELSE drain' = [drain EXCEPT ![w].attached = FALSE]
    BY <1>3 DEF ApplyRemote
  <2>3. CopiesTyped'
    <3>1. cache' \in [Workbenches -> Seq(Document)] /\ persisted' \in [Workbenches -> Seq(Document)]
      BY <1>1, <2>1, <2>2 DEF CopiesTyped
    <3>2. collRev' \in [Workbenches -> 0..revision]
      BY <1>1, <2>2 DEF CopiesTyped
    <3>3. /\ itemRev' = [v \in Workbenches |-> itemRev'[v]]
          /\ \A v \in Workbenches : Noted(itemRev'[v], revision)
      BY <1>1, <2>1, <2>2 DEF CopiesTyped
    <3> QED BY <1>1, <3>1, <3>2, <3>3 DEF CopiesTyped
  <2>4. CASE drain[w] = Idle
    BY <1>1, <2>2, <2>3, <2>4
  <2>5. CASE drain[w] # Idle
    <3> DEFINE d == [drain[w] EXCEPT !.attached = FALSE]
    <3>1. DrainTyped(d, revision)
      BY <1>1, <2>5, DetachedTyped
    <3>2. drain' = [drain EXCEPT ![w] = d]
      BY <2>2, <2>5
    <3> HIDE DEF d
    <3> QED BY <2>3, <3>1, <3>2
  <2> QED BY <2>4, <2>5
<1> QED BY <1>2, <1>3

-----------------------------------------------------------------------------
(* The steps of a resolution.                                              *)

\* Only a resolution that hydrates has a hydration of its own.
ResolvesOnce ==
  \A w \in Workbenches : hydration[w]["resolve"] # Idle => resolving[w].at = "hydrating"

LEMMA ResolvesOnceKept ==
  ASSUME TypedInv, ResolvesOnce, [Next]_vars
  PROVE  ResolvesOnce'
<1> USE DEF ResolvesOnce
<1>1. CASE UNCHANGED vars
  BY <1>1 DEF vars
<1>2. CASE Next
  <2>1. PICK w \in Workbenches :
          UserStep(w) \/ DrainStep(w) \/ RefreshStep(w) \/ ResolveStep(w) \/ Fault(w) \/ ResolveFault(w)
    BY <1>2 DEF Next
  <2>2. /\ \A v \in Workbenches : hydration[v] = [c \in Callers |-> hydration[v][c]]
        /\ hydration = [v \in Workbenches |-> hydration[v]]
        /\ resolving = [v \in Workbenches |-> resolving[v]]
    <3>1. CallersTyped
      BY DEF TypedInv
    <3> QED BY <3>1, CallersOf DEF CallersTyped
  <2>3. CASE UNCHANGED <<hydration, resolving>>
    BY <2>3
  <2>4. CASE \E c \in Callers : ListItems(w, c) \/ ReadCollection(w, c)
    <3>1. PICK c \in Callers :
            /\ hydration[w][c] # Idle /\ UNCHANGED resolving
            /\ \E h : hydration' = [hydration EXCEPT ![w][c] = h]
      BY <2>4 DEF ListItems, ReadCollection, Idle
    <3> QED BY <2>2, <3>1
  <2>5. CASE Refresh(w) \/ Refreshed(w)
    <3>1. \E h : hydration' = [hydration EXCEPT ![w]["refresh"] = h] /\ UNCHANGED resolving
      BY <2>5 DEF Refresh, Refreshed
    <3> QED BY <2>2, <3>1
  <2>6. CASE Resolve(w)
    <3>1. PICK action \in {"reload", "copy"} :
            /\ hydration' = [hydration EXCEPT ![w]["resolve"] = [at |-> "asked"]]
            /\ resolving' = [resolving EXCEPT ![w] =
                 [at |-> "hydrating", action |-> action, document |-> conflict[w]]]
      BY <2>6 DEF Resolve
    <3> QED BY <2>2, <3>1
  <2>7. CASE Reloaded(w) \/ ResolveFault(w)
    <3>1. /\ hydration' = [hydration EXCEPT ![w]["resolve"] = Idle]
          /\ \E r : resolving' = [resolving EXCEPT ![w] = r]
      BY <2>7 DEF Reloaded, ResolveFault
    <3> QED BY <2>2, <3>1 DEF Callers
  <2>8. CASE CreateCopy(w) \/ ReadCopyRevision(w) \/ CopyStored(w) \/ CopySaved(w)
    <3>1. /\ resolving[w].at # "hydrating" /\ UNCHANGED hydration
          /\ \E r : resolving' = [resolving EXCEPT ![w] = r]
      BY <2>8 DEF CreateCopy, ReadCopyRevision, CopyStored, CopySaved
    <3> QED BY <2>2, <3>1
  <2>9. Edit(w) \/ Add(w) \/ Delete(w) \/ Reorder(w) => UNCHANGED <<hydration, resolving>>
    BY DEF Edit, Add, Delete, Reorder, Set
  <2>10. EnsureDrain(w) \/ Serve(w) \/ ReadRevision(w) \/ Fault(w)
           => UNCHANGED <<hydration, resolving>>
    BY DEF EnsureDrain, Serve, ReadRevision, Fault
  <2>11. Stored(w) \/ Saved(w) \/ DrainFailed(w) => UNCHANGED <<hydration, resolving>>
    BY DEF Stored, Saved, DrainFailed
  <2> QED BY <2>1, <2>3, <2>4, <2>5, <2>6, <2>7, <2>8, <2>9, <2>10, <2>11
       DEF UserStep, DrainStep, RefreshStep, ResolveStep, Callers
<1> QED BY <1>1, <1>2

LEMMA ResolvingIs ==
  ASSUME TypedInv, NEW w \in Workbenches, resolving[w].at # "idle"
  PROVE  /\ resolving[w].document \in Document
         /\ resolving[w].document.id \in ToSet(Items)
         /\ resolving[w].document.text \in SUBSET (1..MaxEdits)
         /\ resolving[w].at \in {"called", "committed"} =>
              resolving[w] = [at |-> resolving[w].at, document |-> resolving[w].document]
         /\ resolving[w].at \in {"stored", "saving"} =>
              /\ resolving[w] = [at |-> resolving[w].at, document |-> resolving[w].document,
                                 coll |-> resolving[w].coll]
              /\ resolving[w].coll \in 0..revision
         /\ resolving[w].at \in {"committed", "stored", "saving"} => revision > 0
<1>1. ResolvingTyped(resolving[w], revision) /\ resolving[w] # Idle
  BY DEF TypedInv, CallersTyped, Idle
<1>2. resolving[w].document \in Document
  BY <1>1 DEF ResolvingTyped
<1> QED BY <1>1, <1>2 DEF ResolvingTyped, Document

LEMMA ResolvingTypes ==
  ASSUME TypedInv, NEW w \in Workbenches, NEW r, ResolvingTyped(r, revision),
         resolving' = [resolving EXCEPT ![w] = r], CopiesTyped',
         UNCHANGED <<store, revision, hydration, drain, edits, created, faults>>
  PROVE  TypedInv'
<1>1. StoreTyped'
  BY DEF TypedInv, StoreTyped
<1>2. CallersTyped'
  <2>1. CallersTyped /\ revision \in Nat /\ revision' \in Nat /\ revision <= revision'
        /\ ResolvingTyped(r, revision')
    BY DEF TypedInv, StoreTyped
  <2> QED BY <2>1, ResolvingKept
<1> QED BY <1>1, <1>2 DEF TypedInv

LEMMA AnsweredTyped ==
  ASSUME TypedInv, ResolvesOnce, NEW w \in Workbenches, Refreshed(w) \/ Reloaded(w)
  PROVE  TypedInv'
<1>1. /\ CopiesTyped /\ CallersTyped /\ StoreTyped /\ revision \in Nat
      /\ "refresh" \in Callers /\ "resolve" \in Callers
  BY DEF TypedInv, StoreTyped, Callers
<1>2. HydrationTyped(Idle, revision) /\ ResolvingTyped(Idle, revision)
  BY DEF HydrationTyped, ResolvingTyped
<1>3. CASE Refreshed(w)
  <2> DEFINE h == hydration[w]["refresh"]
  <2>1. /\ h.at = "answered" /\ ApplyRemote(w, h, dirty[w])
        /\ hydration' = [hydration EXCEPT ![w]["refresh"] = Idle]
        /\ UNCHANGED <<store, revision, dirty, conflict, resolving, edits, created, faults>>
    BY <1>3 DEF Refreshed
  <2>2. Listing(h.items, revision) /\ h.coll \in 0..revision
    BY <1>1, <2>1, HydrationIs
  <2>3. conflict' \in [Workbenches -> Document \cup {None}]
    BY <1>1, <2>1 DEF CopiesTyped
  <2>4. /\ CopiesTyped'
        /\ \E d : DrainTyped(d, revision) /\ drain' = [drain EXCEPT ![w] = d]
    BY <2>1, <2>2, <2>3, RemoteTyped
  <2>5. StoreTyped'
    BY <1>1, <2>1 DEF StoreTyped
  <2>6. CallersTyped'
    <3>1. ResolvingTyped(resolving[w], revision) /\ resolving' = [resolving EXCEPT ![w] = resolving[w]]
      BY <1>1, <2>1, CallersOf
    <3> QED BY <1>1, <1>2, <2>1, <2>4, <3>1, HydrationKept
  <2> QED BY <2>4, <2>5, <2>6 DEF TypedInv
<1>4. CASE Reloaded(w)
  <2> DEFINE h == hydration[w]["resolve"]
             reload == resolving[w].action = "reload"
             document == [id |-> Items[created + 1], text |-> resolving[w].document.text]
             r == IF reload THEN Idle ELSE [at |-> "called", document |-> document]
  <2>1. /\ h.at = "answered" /\ ApplyRemote(w, h, dirty[w])
        /\ hydration' = [hydration EXCEPT ![w]["resolve"] = Idle]
        /\ resolving' = [resolving EXCEPT ![w] = r]
        /\ IF reload THEN conflict' = [conflict EXCEPT ![w] = None] /\ UNCHANGED created
           ELSE created < Len(Items) /\ created' = created + 1 /\ UNCHANGED conflict
        /\ UNCHANGED <<store, revision, dirty, edits, faults>>
    BY <1>4 DEF Reloaded
  <2>2. Listing(h.items, revision) /\ h.coll \in 0..revision
    BY <1>1, <2>1, HydrationIs
  <2>3. conflict' \in [Workbenches -> Document \cup {None}]
    BY <1>1, <2>1 DEF CopiesTyped
  <2>4. /\ CopiesTyped'
        /\ \E d : DrainTyped(d, revision) /\ drain' = [drain EXCEPT ![w] = d]
    BY <2>1, <2>2, <2>3, RemoteTyped
  <2>5. StoreTyped'
    <3>1. Len(Items) \in Nat
      BY SharedLibraryAssumption
    <3>2. created' \in 0..Len(Items)
      BY <1>1, <2>1, <3>1 DEF StoreTyped
    <3> QED BY <1>1, <2>1, <3>2 DEF StoreTyped
  <2>6. ResolvingTyped(r, revision)
    <3>1. resolving[w].at = "hydrating"
      BY <2>1 DEF ResolvesOnce, Idle
    <3>2. resolving[w].document.text \in SUBSET (1..MaxEdits)
      BY <3>1, ResolvingIs
    <3>3. CASE ~reload
      <4>1. Items[created + 1] \in ToSet(Items)
        BY <1>1, <2>1, <3>3, SharedLibraryAssumption DEF StoreTyped, ToSet
      <4>2. document \in Document
        BY <3>2, <4>1 DEF Document
      <4> HIDE DEF document
      <4> QED BY <3>3, <4>2 DEF ResolvingTyped
    <3> QED BY <1>2, <3>3
  <2>7. CallersTyped'
    <3> HIDE DEF r
    <3> QED BY <1>1, <1>2, <2>1, <2>4, <2>6, HydrationKept
  <2> QED BY <2>4, <2>5, <2>7 DEF TypedInv
<1> QED BY <1>3, <1>4

LEMMA CopyTyped ==
  ASSUME TypedInv, NEW w \in Workbenches,
         \/ CreateCopy(w) \/ ReadCopyRevision(w) \/ CopyStored(w) \/ CopySaved(w)
         \/ ResolvesOnce /\ ResolveFault(w)
  PROVE  TypedInv'
<1> DEFINE document == resolving[w].document
<1>1. /\ CopiesTyped /\ CallersTyped /\ StoreTyped /\ revision \in Nat
      /\ HydrationTyped(Idle, revision) /\ ResolvingTyped(Idle, revision)
      /\ "resolve" \in Callers
  BY DEF TypedInv, StoreTyped, Callers, HydrationTyped, ResolvingTyped
<1>2. CASE CreateCopy(w)
  <2> DEFINE q == [id |-> document.id, next |-> <<document>>]
             r == [at |-> "committed", document |-> document]
  <2>1. /\ resolving[w].at = "called" /\ Creatable(q) /\ store' = Created(q)
        /\ revision' = revision + 1
        /\ resolving' = [resolving EXCEPT ![w].at = "committed"]
        /\ UNCHANGED <<local, drain, hydration, edits, created, faults>>
    BY <1>2 DEF CreateCopy
  <2>2. document \in Document /\ resolving[w] = [at |-> "called", document |-> document]
        /\ document.id \in ToSet(Items)
    BY <2>1, ResolvingIs
  <2>3. At(q.next, q.id) = document
    <3>1. q.next \in Seq(Document) /\ q.id \in Ids(q.next) /\ \A k \in DOMAIN q.next : q.next[k] = document
      BY <2>2 DEF Ids
    <3> HIDE DEF q
    <3> QED BY <3>1, AtIndex
  <2>4. Listing(Created(q), revision + 1)
    <3>1. q.id \in ToSet(Items) /\ At(q.next, q.id) \in Document
      BY <2>2, <2>3
    <3> HIDE DEF q
    <3> QED BY <1>1, <2>1, <3>1, CreatedTyped
  <2>5. revision' \in Nat /\ revision <= revision'
    BY <1>1, <2>1
  <2>6. StoreTyped'
    BY <1>1, <2>1, <2>4, <2>5 DEF StoreTyped
  <2>7. CopiesTyped'
    BY <1>1, <2>1, <2>5, CopiesKept
  <2>8. ResolvingTyped(r, revision')
    BY <1>1, <2>1, <2>2 DEF ResolvingTyped
  <2>9. resolving' = [resolving EXCEPT ![w] = r]
    <3>1. [resolving[w] EXCEPT !.at = "committed"] = r
      BY <2>2
    <3> QED BY <2>1, <3>1
  <2> HIDE DEF r
  <2>10. CallersTyped'
    BY <1>1, <2>1, <2>5, <2>8, <2>9, ResolvingKept
  <2> QED BY <2>6, <2>7, <2>10 DEF TypedInv
<1>3. CASE ReadCopyRevision(w)
  <2> DEFINE r == [at |-> "stored", document |-> document, coll |-> revision]
  <2>1. /\ resolving[w].at = "committed" /\ resolving' = [resolving EXCEPT ![w] = r]
        /\ UNCHANGED <<store, revision, local, drain, hydration, edits, created, faults>>
    BY <1>3 DEF ReadCopyRevision
  <2>2. ResolvingTyped(r, revision)
    <3>1. document \in Document /\ revision > 0
      BY <2>1, ResolvingIs
    <3> QED BY <1>1, <3>1 DEF ResolvingTyped
  <2>3. CopiesTyped'
    BY <1>1, <2>1, CopiesKept
  <2> HIDE DEF r
  <2> QED BY <2>1, <2>2, <2>3, ResolvingTypes
<1>4. CASE CopyStored(w)
  <2> DEFINE documents == Append(persisted[w], document)
             f == [id \in DOMAIN itemRev[w] \cup {document.id} |->
                     IF id = document.id THEN 1 ELSE itemRev[w][id]]
             r == [at |-> "saving", document |-> document, coll |-> resolving[w].coll]
  <2>1. /\ resolving[w].at = "stored"
        /\ persisted' = [persisted EXCEPT ![w] = documents]
        /\ itemRev' = [itemRev EXCEPT ![w] = f]
        /\ collRev' = [collRev EXCEPT ![w] = resolving[w].coll]
        /\ cache' = [cache EXCEPT ![w] = documents]
        /\ resolving' = [resolving EXCEPT ![w].at = "saving"]
        /\ UNCHANGED <<store, revision, dirty, drain, conflict, hydration, edits, created, faults>>
    <3>1. itemRev' = [itemRev EXCEPT ![w] = f]
      BY <1>4, <1>1 DEF CopyStored, CopiesTyped
    <3> QED BY <1>4, <3>1 DEF CopyStored
  <2>2. /\ document \in Document /\ resolving[w].coll \in 0..revision /\ revision > 0
        /\ resolving[w] = [at |-> resolving[w].at, document |-> document,
                           coll |-> resolving[w].coll]
    BY <2>1, ResolvingIs
  <2>3. documents \in Seq(Document)
    BY <1>1, <2>2 DEF CopiesTyped
  <2>4. Noted(f, revision)
    <3>1. \A id \in DOMAIN itemRev[w] : itemRev[w][id] \in 1..revision
      BY <1>1 DEF CopiesTyped, Noted
    <3>2. 1 \in 1..revision
      BY <1>1, <2>2
    <3> QED BY <3>1, <3>2 DEF Noted
  <2> HIDE DEF f, documents
  <2>5. CopiesTyped'
    BY <1>1, <2>1, <2>2, <2>3, <2>4 DEF CopiesTyped
  <2>6. ResolvingTyped(r, revision)
    BY <2>2 DEF ResolvingTyped
  <2>7. resolving' = [resolving EXCEPT ![w] = r]
    <3>1. [resolving[w] EXCEPT !.at = "saving"] = r
      BY <2>2
    <3> QED BY <2>1, <3>1
  <2> HIDE DEF r
  <2> QED BY <2>1, <2>5, <2>6, <2>7, ResolvingTypes
<1>5. CASE CopySaved(w)
  <2>1. CopiesTyped'
    BY <1>1, <1>5 DEF CopySaved, CopiesTyped
  <2> QED BY <1>1, <1>5, <2>1, ResolvingTypes DEF CopySaved
<1>6. CASE ResolvesOnce /\ ResolveFault(w)
  <2>1. /\ faults' = faults + 1 /\ faults < MaxFaults
        /\ hydration' = [hydration EXCEPT ![w]["resolve"] = Idle]
        /\ resolving' = [resolving EXCEPT ![w] = Idle]
        /\ UNCHANGED <<store, revision, local, drain, edits, created>>
    BY <1>6 DEF ResolveFault
  <2>2. StoreTyped'
    BY <1>1, <2>1, SharedLibraryAssumption DEF StoreTyped
  <2>3. CopiesTyped'
    BY <1>1, <2>1, CopiesKept
  <2>4. CallersTyped'
    <3>1. DrainTyped(drain[w], revision) /\ drain' = [drain EXCEPT ![w] = drain[w]]
      BY <1>1, <2>1, CallersOf
    <3> QED BY <1>1, <2>1, <3>1, HydrationKept
  <2> QED BY <2>2, <2>3, <2>4 DEF TypedInv
<1> QED BY <1>2, <1>3, <1>4, <1>5, <1>6

-----------------------------------------------------------------------------
(* The types are invariant.                                                *)

LEMMA TypedKept ==
  ASSUME TypedInv, ResolvesOnce, [Next]_vars
  PROVE  TypedInv'
<1>1. CASE UNCHANGED vars
  <2>1. UNCHANGED local /\ revision \in Nat /\ revision' \in Nat /\ revision <= revision'
    BY <1>1 DEF vars, TypedInv, StoreTyped
  <2>2. CopiesTyped'
    BY <2>1, CopiesKept DEF TypedInv
  <2>3. StoreTyped' /\ CallersTyped'
    BY <1>1 DEF vars, TypedInv, StoreTyped, CallersTyped
  <2> QED BY <2>2, <2>3 DEF TypedInv
<1>2. ASSUME NEW w \in Workbenches,
             \/ UserStep(w) \/ DrainStep(w) \/ RefreshStep(w) \/ ResolveStep(w)
             \/ Fault(w) \/ ResolveFault(w)
      PROVE  TypedInv'
  <2>1. CASE UserStep(w)
    BY <2>1, EditTyped, ResolveTyped DEF UserStep
  <2>2. CASE DrainStep(w) \/ Fault(w)
    BY <2>2, DrainStepTyped
  <2>3. CASE RefreshStep(w)
    BY <2>3, ReadTyped, AnsweredTyped DEF RefreshStep, Callers
  <2>4. CASE ResolveStep(w)
    BY <2>4, ReadTyped, AnsweredTyped, CopyTyped DEF ResolveStep, Callers
  <2>5. CASE ResolveFault(w)
    BY <2>5, CopyTyped
  <2> QED BY <1>2, <2>1, <2>2, <2>3, <2>4, <2>5
<1> QED BY <1>1, <1>2 DEF Next

LEMMA TypesKept == Spec => [](TypedInv /\ ResolvesOnce)
<1>1. Init => TypedInv /\ ResolvesOnce
  <2>1. Init => ResolvesOnce
    BY DEF Init, ResolvesOnce, Callers
  <2> QED BY <2>1, InitTyped
<1>2. TypedInv /\ ResolvesOnce /\ [Next]_vars => (TypedInv /\ ResolvesOnce)'
  BY TypedKept, ResolvesOnceKept
<1> QED BY <1>1, <1>2, PTL DEF Spec

\* Every variable keeps its shape, the IDs in the store stay distinct and no
\* revision that a workbench has seen is ahead of the store's.
THEOREM LibraryTypeCorrect == Spec => []TypeOK
<1>1. TypedInv => TypeOK
  <2> SUFFICES ASSUME TypedInv PROVE TypeOK
    OBVIOUS
  <2>1. /\ revision \in Nat /\ Listing(store, revision)
        /\ created \in 0..Len(Items) /\ edits \in 0..MaxEdits /\ faults \in 0..MaxFaults
    BY DEF TypedInv, StoreTyped
  <2>2. /\ Documents(store) \in Seq(Document) /\ Distinct(store)
        /\ \A k \in DOMAIN store : store[k].rev \in 1..revision
    BY <2>1, DocumentsOf DEF Listing
  <2>3. ASSUME NEW w \in Workbenches
        PROVE  /\ dirty[w] \in BOOLEAN
               /\ cache[w] \in Seq(Document) /\ persisted[w] \in Seq(Document)
               /\ \A id \in DOMAIN itemRev[w] : itemRev[w][id] \in 1..revision
               /\ collRev[w] \in 0..revision
               /\ conflict[w] \in Document \cup {None}
               /\ drain[w] = Idle \/ drain[w].call.op \in Calls
               /\ resolving[w] = Idle \/ resolving[w].document \in Document
    <3>1. /\ cache[w] \in Seq(Document) /\ persisted[w] \in Seq(Document)
          /\ dirty[w] \in BOOLEAN /\ conflict[w] \in Document \cup {None}
          /\ collRev[w] \in 0..revision /\ Noted(itemRev[w], revision)
      BY DEF TypedInv, CopiesTyped
    <3>2. drain[w] = Idle \/ drain[w].call.op \in Calls
      BY DrainIs DEF CallTyped
    <3>3. resolving[w] = Idle \/ resolving[w].document \in Document
      BY DEF TypedInv, CallersTyped, ResolvingTyped
    <3> QED BY <3>1, <3>2, <3>3 DEF Noted
  <2> QED BY <2>1, <2>2, <2>3 DEF TypeOK
<1> QED BY <1>1, TypesKept, PTL

-----------------------------------------------------------------------------
(* What a step of one workbench leaves to the others.                      *)

OnlyOf(w) ==
  /\ overtaken' \ {w} = overtaken \ {w}
  /\ \A v \in Workbenches \ {w} :
       UNCHANGED <<cache[v], persisted[v], itemRev[v], drain[v], hydration[v], resolving[v]>>

\* The items that stay keep their edits, and a revision stands for one text, but
\* for the spoiled ones; an item that is new was held by w, and was a draft.
Advances(w) ==
  /\ spoiled \subseteq spoiled'
  /\ \A id \in (Ids(store) \cap Ids(store')) \ spoiled' :
       LET d == At(store, id)
           e == At(store', id) IN
       /\ d.rev <= e.rev /\ d.text \subseteq e.text
       /\ d.rev = e.rev => d.text = e.text
  /\ Ids(store') \ Ids(store) \subseteq Holds(w) \ Drafts(w)'
  /\ (Ids(store') \ Ids(store)) \ spoiled' \subseteq Drafts(w)

LEMMA StoreIs ==
  ASSUME StoreTyped
  PROVE  /\ revision \in Nat /\ Listing(store, revision)
         /\ \A id \in Ids(store) : /\ At(store, id).rev \in Nat /\ At(store, id).rev > 0
                                   /\ At(store, id).id = id
<1>1. revision \in Nat /\ Listing(store, revision)
  BY DEF StoreTyped
<1> QED BY <1>1, ListingIs

LEMMA Stays ==
  ASSUME StoreTyped, UNCHANGED <<store, spoiled>>, NEW w \in Workbenches
  PROVE  Advances(w)
<1>1. Ids(store') = Ids(store) /\ \A id \in Ids(store) : At(store', id) = At(store, id)
  BY DEF Ids, At
<1> QED BY <1>1, StoreIs DEF Advances

LEMMA Known ==
  ASSUME LibraryInv, NEW w \in Workbenches
  PROVE  /\ Heard(w) \subseteq Remembered(w)
         /\ Remembered(w) \subseteq Seen /\ Seen \subseteq Used
         /\ Drafts(w) \subseteq Holds(w) /\ Holds(w) \subseteq Used
         /\ Drafts(w) \cap Seen = {}
         /\ w \notin overtaken => Ids(persisted[w]) \subseteq Remembered(w)
         /\ w \notin overtaken /\ Written(w) => Ids(drain[w].call.next) \subseteq Remembered(w)
         /\ Copied(w) => resolving[w].document.id \in Remembered(w)
         /\ \A c \in Callers : hydration[w][c].at \in {"listed", "answered"} =>
              Ids(hydration[w][c].items) \subseteq Remembered(w)
         /\ Ids(cache[w]) \subseteq Used /\ Ids(persisted[w]) \subseteq Used
         /\ Sent(w) => Ids(drain[w].call.next) \subseteq Used
         /\ Copying(w) => resolving[w].document.id \in Used
<1>1. /\ Copied(w) => resolving[w].document.id \in Heard(w)
      /\ \A c \in Callers : hydration[w][c].at \in {"listed", "answered"} =>
           Ids(hydration[w][c].items) \subseteq Heard(w)
  BY DEF Heard
<1>2. /\ Heard(w) \subseteq Remembered(w)
      /\ w \notin overtaken => Ids(persisted[w]) \subseteq Remembered(w)
      /\ w \notin overtaken /\ Written(w) => Ids(drain[w].call.next) \subseteq Remembered(w)
  BY DEF Remembered
<1>3. Remembered(w) \subseteq Seen /\ Seen \subseteq Used
  BY DEF Seen, LibraryInv, Fresh
<1>4. Holds(w) \subseteq Used /\ Drafts(w) \cap Seen = {}
  BY DEF LibraryInv, Fresh
<1>5. /\ Ids(cache[w]) \subseteq Holds(w) /\ Ids(persisted[w]) \subseteq Holds(w)
      /\ Sent(w) => Ids(drain[w].call.next) \subseteq Holds(w)
      /\ Copying(w) => resolving[w].document.id \in Holds(w)
  BY DEF Holds
<1>6. Drafts(w) \subseteq Holds(w)
  BY <1>5 DEF Drafts, Chosen, Sent, Copying
<1> QED BY <1>1, <1>2, <1>3, <1>4, <1>5, <1>6

\* What was told of an item that the store has, or had, stays true.
LEMMA TellsKept ==
  ASSUME StoreTyped, StoreTyped', LibraryInv, NEW w \in Workbenches, Advances(w)
  PROVE  /\ \A d : \A rev \in Nat :
              Tells(store, spoiled, d, rev) /\ d.id \in Seen => Tells(store', spoiled', d, rev)
         /\ \A docs, revs :
              /\ TellsAll(store, spoiled, docs, revs) /\ Ids(docs) \subseteq Seen
              /\ \A id \in Ids(docs) : revs[id] \in Nat
              => TellsAll(store', spoiled', docs, revs)
         /\ \A items :
              /\ TellsItems(store, spoiled, items) /\ Ids(items) \subseteq Seen
              /\ \A k \in DOMAIN items : items[k].rev \in Nat
              => TellsItems(store', spoiled', items)
<1>1. ASSUME NEW d, NEW rev \in Nat, Tells(store, spoiled, d, rev), d.id \in Seen
      PROVE  Tells(store', spoiled', d, rev)
  <2> SUFFICES ASSUME d.id \in Ids(store') \ spoiled'
               PROVE  LET e == At(store', d.id) IN
                      /\ rev <= e.rev /\ d.text \subseteq e.text
                      /\ rev = e.rev => d.text = e.text
    BY DEF Tells
  <2>1. d.id \notin Drafts(w)
    BY <1>1, Known
  <2>2. d.id \in Ids(store) \ spoiled
    BY <2>1 DEF Advances
  <2>3. At(store, d.id).rev \in Nat
    BY <2>2, StoreIs
  <2>4. At(store', d.id).rev \in Nat
    <3>1. revision' \in Nat /\ Listing(store', revision')
      BY DEF StoreTyped
    <3> QED BY <3>1, ListingIs
  <2> QED BY <1>1, <2>2, <2>3, <2>4 DEF Tells, Advances
<1>2. ASSUME NEW docs, NEW revs, TellsAll(store, spoiled, docs, revs), Ids(docs) \subseteq Seen,
             \A id \in Ids(docs) : revs[id] \in Nat
      PROVE  TellsAll(store', spoiled', docs, revs)
  <2> SUFFICES ASSUME NEW k \in DOMAIN docs
               PROVE  Tells(store', spoiled', docs[k], revs[docs[k].id])
    BY DEF TellsAll
  <2>1. docs[k].id \in Ids(docs)
    BY DEF Ids
  <2>2. Tells(store, spoiled, docs[k], revs[docs[k].id])
    BY <1>2 DEF TellsAll
  <2> QED BY <1>1, <1>2, <2>1, <2>2
<1>3. ASSUME NEW items, TellsItems(store, spoiled, items), Ids(items) \subseteq Seen,
             \A k \in DOMAIN items : items[k].rev \in Nat
      PROVE  TellsItems(store', spoiled', items)
  <2> SUFFICES ASSUME NEW k \in DOMAIN items
               PROVE  Tells(store', spoiled', items[k], items[k].rev)
    BY DEF TellsItems
  <2>1. items[k].id \in Ids(items)
    BY DEF Ids
  <2>2. Tells(store, spoiled, items[k], items[k].rev)
    BY <1>3 DEF TellsItems
  <2> QED BY <1>1, <1>3, <2>1, <2>2
<1> QED BY <1>1, <1>2, <1>3

\* The revisions that w remembers are numbers.
LEMMA RevisionsAre ==
  ASSUME TypedInv, LibraryInv, NEW w \in Workbenches
  PROVE  /\ w \notin overtaken => \A id \in Ids(persisted[w]) : itemRev[w][id] \in Nat
         /\ w \notin overtaken /\ Written(w) =>
              \A id \in Ids(drain[w].call.next) : Learned(w)[id] \in Nat
         /\ \A c \in Callers : hydration[w][c].at \in {"listed", "answered"} =>
              /\ Listing(hydration[w][c].items, revision)
              /\ \A k \in DOMAIN hydration[w][c].items : hydration[w][c].items[k].rev \in Nat
<1>1. revision \in Nat /\ (w \notin overtaken => CopyInv(w) /\ SentInv(w))
  BY DEF TypedInv, StoreTyped, LibraryInv, Sound
<1>2. w \notin overtaken => \A id \in Ids(persisted[w]) : itemRev[w][id] \in Nat
  BY <1>1 DEF CopyInv, TypedInv, CopiesTyped, Noted
<1>3. ASSUME Written(w), w \notin overtaken
      PROVE  \A id \in Ids(drain[w].call.next) : Learned(w)[id] \in Nat
  <2>1. DOMAIN Learned(w) = Ids(drain[w].call.next)
    BY <1>1, <1>3 DEF SentInv, Written, Sent, Answered
  <2>2. Noted(Learned(w), revision)
    BY <1>3, LearnedTyped DEF Written
  <2> QED BY <1>1, <2>1, <2>2 DEF Noted
<1>4. \A c \in Callers : hydration[w][c].at \in {"listed", "answered"} =>
        /\ Listing(hydration[w][c].items, revision)
        /\ \A k \in DOMAIN hydration[w][c].items : hydration[w][c].items[k].rev \in Nat
  BY <1>1, HydrationIs, ListingIs
<1> QED BY <1>2, <1>3, <1>4

\* A workbench that keeps its copy and its calls keeps what it was told.
LEMMA ToldKept ==
  ASSUME TypedInv, StoreTyped', LibraryInv, NEW w \in Workbenches, Advances(w),
         NEW v \in Workbenches
  PROVE  /\ v \notin overtaken => TellsAll(store', spoiled', persisted[v], itemRev[v])
         /\ v \notin overtaken /\ Written(v) =>
              TellsAll(store', spoiled', drain[v].call.next, Learned(v))
         /\ Copied(v) => Tells(store', spoiled', resolving[v].document, 1)
         /\ \A c \in Callers : hydration[v][c].at \in {"listed", "answered"} =>
              TellsItems(store', spoiled', hydration[v][c].items)
<1>1. StoreTyped /\ HeardInv(v) /\ (v \notin overtaken => ToldInv(v))
  BY DEF TypedInv, LibraryInv, Sound
<1>2. /\ v \notin overtaken => Ids(persisted[v]) \subseteq Seen
      /\ v \notin overtaken /\ Written(v) => Ids(drain[v].call.next) \subseteq Seen
      /\ Copied(v) => resolving[v].document.id \in Seen
      /\ \A c \in Callers : hydration[v][c].at \in {"listed", "answered"} =>
           Ids(hydration[v][c].items) \subseteq Seen
  BY Known
<1>3. /\ v \notin overtaken => \A id \in Ids(persisted[v]) : itemRev[v][id] \in Nat
      /\ v \notin overtaken /\ Written(v) =>
           \A id \in Ids(drain[v].call.next) : Learned(v)[id] \in Nat
      /\ \A c \in Callers : hydration[v][c].at \in {"listed", "answered"} =>
           \A k \in DOMAIN hydration[v][c].items : hydration[v][c].items[k].rev \in Nat
  BY RevisionsAre
<1>4. v \notin overtaken => TellsAll(store', spoiled', persisted[v], itemRev[v])
  BY <1>1, <1>2, <1>3, TellsKept DEF ToldInv
<1>5. v \notin overtaken /\ Written(v) =>
        TellsAll(store', spoiled', drain[v].call.next, Learned(v))
  BY <1>1, <1>2, <1>3, TellsKept DEF ToldInv
<1>6. Copied(v) => Tells(store', spoiled', resolving[v].document, 1)
  BY <1>1, <1>2, <1>3, TellsKept DEF HeardInv
<1>7. \A c \in Callers : hydration[v][c].at \in {"listed", "answered"} =>
        TellsItems(store', spoiled', hydration[v][c].items)
  BY <1>1, <1>2, <1>3, TellsKept DEF HeardInv
<1> QED BY <1>4, <1>5, <1>6, <1>7

\* The invariant is kept when it holds for the workbench that takes the step, and
\* what that one has drafted, remembers or holds is its own or in the store.
LEMMA InvKept ==
  ASSUME TypedInv, TypedInv', LibraryInv, NEW w \in Workbenches, OnlyOf(w), Advances(w),
         HeardInv(w)', w \notin overtaken' => Sound(w)', ChosenApart(w)',
         Remembered(w)' \subseteq Remembered(w) \cup Ids(store) \cup Ids(store'),
         Used \subseteq Used', Drafts(w)' \subseteq Drafts(w) \cup (Used' \ Used),
         Holds(w)' \subseteq Holds(w) \cup Seen \cup (Used' \ Used)
  PROVE  LibraryInv'
<1>1. /\ StoreTyped /\ StoreTyped' /\ CopiesTyped /\ CallersTyped
  BY DEF TypedInv
<1>2. ASSUME NEW v \in Workbenches, v # w
      PROVE  /\ UNCHANGED <<cache[v], persisted[v], itemRev[v],
                            drain[v], hydration[v], resolving[v]>>
             /\ v \in overtaken' <=> v \in overtaken
             /\ Remembered(v)' = Remembered(v) /\ Drafts(v)' = Drafts(v) /\ Holds(v)' = Holds(v)
             /\ Learned(v)' = Learned(v) /\ Written(v)' = Written(v) /\ Copied(v)' = Copied(v)
             /\ v \notin overtaken => CopyInv(v)' /\ SentInv(v)' /\ CopyApart(v)'
             /\ ChosenApart(v)'
  <2>1. /\ UNCHANGED <<cache[v], persisted[v], itemRev[v],
                       drain[v], hydration[v], resolving[v]>>
        /\ v \in overtaken' <=> v \in overtaken
    BY <1>2 DEF OnlyOf
  <2>2. /\ Ids(persisted[v])' = Ids(persisted[v]) /\ Ids(cache[v])' = Ids(cache[v])
        /\ Ids(drain[v].call.next)' = Ids(drain[v].call.next)
        /\ \A c \in Callers : Ids(hydration[v][c].items)' = Ids(hydration[v][c].items)
    BY <2>1 DEF Ids
  <2>3. /\ Written(v)' = Written(v) /\ Copied(v)' = Copied(v)
        /\ Sent(v)' = Sent(v) /\ Copying(v)' = Copying(v) /\ Learned(v)' = Learned(v)
    BY <2>1 DEF Written, Copied, Sent, Copying, Learned
  <2>4. Heard(v)' = Heard(v)
    BY <2>1, <2>2, <2>3 DEF Heard
  <2>5. Remembered(v)' = Remembered(v)
    BY <2>1, <2>2, <2>3, <2>4 DEF Remembered
  <2>6. Drafts(v)' = Drafts(v) /\ Holds(v)' = Holds(v)
    BY <2>1, <2>2, <2>3 DEF Drafts, Chosen, Holds
  <2>7. v \notin overtaken => Sound(v)
    BY DEF LibraryInv
  <2>8. v \notin overtaken => CopyInv(v)'
    BY <2>1, <2>7 DEF Sound, CopyInv
  <2>9. v \notin overtaken => SentInv(v)'
    BY <2>1, <2>3, <2>7 DEF Sound, SentInv
  <2>10. Apart(v)' = Apart(v)
    BY <2>1, <2>2, <2>3 DEF Apart
  <2>11. (v \notin overtaken => CopyApart(v)') /\ ChosenApart(v)'
    <3>1. ChosenApart(v)
      BY DEF LibraryInv, Fresh
    <3> QED BY <2>1, <2>3, <2>7, <2>10, <3>1 DEF Sound, CopyApart, ChosenApart
  <2> QED BY <2>1, <2>3, <2>5, <2>6, <2>8, <2>9, <2>11
<1>3. ASSUME NEW v \in Workbenches, v # w
      PROVE  HeardInv(v)' /\ (v \notin overtaken' => ToldInv(v)')
  <2>1. /\ UNCHANGED <<cache[v], persisted[v], itemRev[v],
                       drain[v], hydration[v], resolving[v]>>
        /\ v \in overtaken' <=> v \in overtaken
        /\ Learned(v)' = Learned(v) /\ Written(v)' = Written(v) /\ Copied(v)' = Copied(v)
    BY <1>2, <1>3
  <2>2. /\ v \notin overtaken => TellsAll(store', spoiled', persisted[v], itemRev[v])
        /\ v \notin overtaken /\ Written(v) =>
             TellsAll(store', spoiled', drain[v].call.next, Learned(v))
        /\ Copied(v) => Tells(store', spoiled', resolving[v].document, 1)
        /\ \A c \in Callers : hydration[v][c].at \in {"listed", "answered"} =>
             TellsItems(store', spoiled', hydration[v][c].items)
    BY <1>1, ToldKept
  <2> QED BY <2>1, <2>2 DEF ToldInv, HeardInv
<1>4. Seen' \subseteq Seen \cup (Holds(w) \ Drafts(w)')
  <2>1. Ids(store') \subseteq Seen \cup (Holds(w) \ Drafts(w)')
    BY DEF Advances, Seen
  <2>2. \A v \in Workbenches : Remembered(v) \subseteq Seen /\ Ids(store) \subseteq Seen
    BY DEF Seen
  <2>3. Remembered(w)' \subseteq Seen \cup (Holds(w) \ Drafts(w)')
    BY <2>1, <2>2
  <2>4. \A v \in Workbenches : Remembered(v)' \subseteq Seen \cup (Holds(w) \ Drafts(w)')
    BY <1>2, <2>2, <2>3
  <2> QED BY <2>1, <2>4 DEF Seen
<1>5. \A v \in Workbenches :
        /\ Drafts(v) \subseteq Holds(v) /\ Holds(v) \subseteq Used
        /\ Drafts(v) \cap Seen = {} /\ Seen \subseteq Used
  BY Known
<1>6. \A u, v \in Workbenches : u # v => Drafts(u) \cap Holds(v) = {}
  BY DEF LibraryInv, Fresh
<1>7. Seen' \subseteq Used'
  BY <1>4, <1>5
<1>8. \A v \in Workbenches : Holds(v)' \subseteq Used' /\ Drafts(v)' \cap Seen' = {}
  <2>1. Holds(w)' \subseteq Used' /\ Drafts(w)' \cap Seen' = {}
    BY <1>4, <1>5
  <2>2. ASSUME NEW v \in Workbenches, v # w
        PROVE  Holds(v)' \subseteq Used' /\ Drafts(v)' \cap Seen' = {}
    BY <1>2, <1>4, <1>5, <1>6, <2>2
  <2> QED BY <2>1, <2>2
<1>9. \A u, v \in Workbenches : u # v => Drafts(u)' \cap Holds(v)' = {}
  <2>1. ASSUME NEW v \in Workbenches, v # w
        PROVE  Drafts(v)' \cap Holds(w)' = {} /\ Drafts(w)' \cap Holds(v)' = {}
    <3>1. /\ Drafts(v)' = Drafts(v) /\ Holds(v)' = Holds(v)
          /\ Drafts(v) \cap Holds(w) = {} /\ Drafts(w) \cap Holds(v) = {}
          /\ Drafts(v) \cap Seen = {} /\ Drafts(v) \subseteq Used /\ Holds(v) \subseteq Used
      BY <1>2, <1>5, <1>6, <2>1
    <3> QED BY <3>1
  <2>2. \A u, v \in Workbenches : u # v /\ u # w /\ v # w => Drafts(u)' \cap Holds(v)' = {}
    BY <1>2, <1>6
  <2> QED BY <2>1, <2>2
<1>10. Fresh'
  BY <1>2, <1>7, <1>8, <1>9 DEF Fresh
<1>11. \A v \in Workbenches : HeardInv(v)' /\ (v \notin overtaken' => Sound(v)')
  BY <1>2, <1>3 DEF Sound
<1> QED BY <1>10, <1>11 DEF LibraryInv

\* A workbench that is sound afterwards holds nothing but drafts and what it
\* remembers.
LEMMA SoundKept ==
  ASSUME TypedInv, TypedInv', LibraryInv, NEW w \in Workbenches, OnlyOf(w), Advances(w),
         w \notin overtaken', HeardInv(w)',
         CopyInv(w)', SentInv(w)', ToldInv(w)', CopyApart(w)',
         Remembered(w)' \subseteq Remembered(w) \cup Ids(store) \cup Ids(store'),
         Used \subseteq Used', Drafts(w)' \subseteq Drafts(w) \cup (Used' \ Used)
  PROVE  LibraryInv'
<1>1. Sound(w)' /\ ChosenApart(w)'
  BY DEF Sound, CopyApart, ChosenApart, Copying
<1>2. Holds(w)' \subseteq Drafts(w)' \cup Remembered(w)'
  <2>1. Ids(persisted'[w]) \subseteq Remembered(w)'
    BY DEF Remembered
  <2>2. Sent(w)' => Ids(drain'[w].call.next) \subseteq Drafts(w)' \cup Remembered(w)'
    BY DEF Remembered, Drafts, Sent, Written, Answered
  <2>3. Copying(w)' => resolving'[w].document.id \in Drafts(w)' \cup Remembered(w)'
    BY DEF Remembered, Heard, Drafts, Chosen, Copying, Copied, Answered
  <2>4. Ids(cache'[w]) \subseteq Drafts(w)' \cup Remembered(w)'
    BY DEF Remembered, Drafts
  <2> QED BY <2>1, <2>2, <2>3, <2>4 DEF Holds
<1>3. Holds(w)' \subseteq Holds(w) \cup Seen \cup (Used' \ Used)
  <2>1. Ids(store') \subseteq Seen \cup Holds(w) /\ Ids(store) \subseteq Seen
    BY DEF Advances, Seen
  <2>2. Drafts(w) \subseteq Holds(w) /\ Remembered(w) \subseteq Seen
    BY Known
  <2> QED BY <1>2, <2>1, <2>2
<1> QED BY <1>1, <1>3, InvKept

LEMMA OnlyOfStep ==
  ASSUME TypedInv, NEW w \in Workbenches,
         \/ UserStep(w) \/ DrainStep(w) \/ RefreshStep(w) \/ ResolveStep(w)
         \/ Fault(w) \/ ResolveFault(w)
  PROVE  OnlyOf(w)
<1>1. /\ cache = [v \in Workbenches |-> cache[v]]
      /\ persisted = [v \in Workbenches |-> persisted[v]]
      /\ itemRev = [v \in Workbenches |-> itemRev[v]]
      /\ drain = [v \in Workbenches |-> drain[v]]
      /\ hydration = [v \in Workbenches |-> hydration[v]]
      /\ resolving = [v \in Workbenches |-> resolving[v]]
  <2>1. /\ cache = [v \in Workbenches |-> cache[v]]
        /\ persisted = [v \in Workbenches |-> persisted[v]]
        /\ itemRev = [v \in Workbenches |-> itemRev[v]]
    BY DEF TypedInv, CopiesTyped
  <2>2. /\ drain = [v \in Workbenches |-> drain[v]]
        /\ hydration = [v \in Workbenches |-> hydration[v]]
        /\ resolving = [v \in Workbenches |-> resolving[v]]
    BY DEF TypedInv, CallersTyped
  <2> QED BY <2>1, <2>2
<1> DEFINE Elsewhere(f, g) == \A v \in Workbenches \ {w} : g[v] = f[v]
<1> DEFINE Alone == overtaken' \ {w} = overtaken \ {w}
<1>2. ASSUME Elsewhere(cache, cache'), Elsewhere(persisted, persisted'),
             Elsewhere(itemRev, itemRev'), Elsewhere(drain, drain'),
             Elsewhere(hydration, hydration'), Elsewhere(resolving, resolving'), Alone
      PROVE  OnlyOf(w)
  BY <1>2 DEF OnlyOf
<1>3. CASE UserStep(w)
  <2>1. CASE Resolve(w)
    BY <1>1, <1>2, <2>1 DEF Resolve, history
  <2>2. CASE \E docs : Set(w, docs)
    BY <1>1, <1>2, <2>2 DEF Set, history
  <2> QED BY <1>3, <2>1, <2>2 DEF UserStep, Edit, Add, Delete, Reorder
<1>4. CASE DrainStep(w) \/ Fault(w)
  <2>1. CASE Turn(w) /\ UNCHANGED <<cache, persisted, itemRev, hydration, resolving, overtaken>>
    BY <1>1, <1>2, <2>1 DEF Turn
  <2>2. CASE Serve(w) \/ ReadRevision(w) \/ Fault(w)
    <3>1. UNCHANGED <<cache, persisted, itemRev, hydration, resolving, overtaken>>
      BY <2>2 DEF Serve, ReadRevision, Fault, local, history
    <3>2. \E d : drain' = [drain EXCEPT ![w] = d]
      BY <2>2 DEF Serve, ReadRevision, Fault
    <3> QED BY <1>1, <1>2, <3>1, <3>2
  <2>3. CASE Stored(w)
    <3>1. UNCHANGED <<cache, hydration, resolving, overtaken>>
      BY <2>3 DEF Stored, history
    <3>2. Elsewhere(persisted, persisted') /\ Elsewhere(itemRev, itemRev')
          /\ Elsewhere(drain, drain')
      BY <1>1, <2>3 DEF Stored
    <3> QED BY <1>2, <3>1, <3>2
  <2>4. CASE \/ DrainFailed(w)
             \/ drain' = [drain EXCEPT ![w] = Idle]
                /\ UNCHANGED <<cache, persisted, itemRev, hydration, resolving, overtaken>>
    BY <1>1, <1>2, <2>4 DEF DrainFailed, history
  <2> QED BY <1>4, <2>1, <2>2, <2>3, <2>4 DEF DrainStep, EnsureDrain, Saved, history
<1>5. CASE RefreshStep(w) \/ ResolveStep(w) \/ ResolveFault(w)
  <2>1. CASE Refresh(w) \/ (\E c \in Callers : ListItems(w, c) \/ ReadCollection(w, c))
             \/ ResolveFault(w)
    <3>1. UNCHANGED <<cache, persisted, itemRev, drain, overtaken>>
      BY <2>1 DEF Refresh, ListItems, ReadCollection, ResolveFault, local, history
    <3>2. /\ \E c, h : hydration' = [hydration EXCEPT ![w][c] = h]
          /\ resolving' = resolving \/ \E r : resolving' = [resolving EXCEPT ![w] = r]
      BY <2>1 DEF Refresh, ListItems, ReadCollection, ResolveFault
    <3> QED BY <1>1, <1>2, <3>1, <3>2
  <2>2. CASE Refreshed(w) \/ Reloaded(w)
    <3>1. \E c, h : hydration' = [hydration EXCEPT ![w][c] = h]
      BY <2>2 DEF Refreshed, Reloaded
    <3>2. resolving' = resolving \/ \E r : resolving' = [resolving EXCEPT ![w] = r]
      BY <2>2 DEF Refreshed, Reloaded
    <3>3. \E h, waits : ApplyRemote(w, h, waits)
      BY <2>2 DEF Refreshed, Reloaded
    <3>4. /\ Elsewhere(cache, cache') /\ Elsewhere(persisted, persisted')
          /\ Elsewhere(itemRev, itemRev') /\ Elsewhere(drain, drain')
      BY <1>1, <3>3 DEF ApplyRemote
    <3>5. Alone
      BY <3>3 DEF ApplyRemote
    <3>6. Elsewhere(hydration, hydration') /\ Elsewhere(resolving, resolving')
      BY <1>1, <3>1, <3>2
    <3> QED BY <1>2, <3>4, <3>5, <3>6
  <2>3. CASE CreateCopy(w) \/ ReadCopyRevision(w) \/ CopySaved(w)
    <3>1. UNCHANGED <<cache, persisted, itemRev, drain, hydration, overtaken>>
      BY <2>3 DEF CreateCopy, ReadCopyRevision, CopySaved, local, history
    <3>2. \E r : resolving' = [resolving EXCEPT ![w] = r]
      BY <2>3 DEF CreateCopy, ReadCopyRevision, CopySaved
    <3> QED BY <1>1, <1>2, <3>1, <3>2
  <2>4. CASE CopyStored(w)
    <3>1. UNCHANGED <<drain, hydration>>
      BY <2>4 DEF CopyStored
    <3>2. Elsewhere(cache, cache') /\ Elsewhere(persisted, persisted')
          /\ Elsewhere(itemRev, itemRev') /\ Elsewhere(resolving, resolving')
      BY <1>1, <2>4 DEF CopyStored
    <3>3. Alone
      BY <2>4 DEF CopyStored
    <3> QED BY <1>2, <3>1, <3>2, <3>3
  <2> QED BY <1>5, <2>1, <2>2, <2>3, <2>4 DEF RefreshStep, ResolveStep, Callers
<1> QED BY <1>3, <1>4, <1>5

-----------------------------------------------------------------------------
(* The invariant is kept by a user's changes.                              *)

LEMMA GrownThrough ==
  ASSUME NEW s, NEW t, NEW u, Grown(s, t), Grown(t, u), Ids(s) \cap Ids(u) \subseteq Ids(t)
  PROVE  Grown(s, u)
<1> SUFFICES ASSUME NEW k \in DOMAIN s, NEW m \in DOMAIN u, s[k].id = u[m].id
             PROVE  s[k].text \subseteq u[m].text
  BY DEF Grown
<1>1. s[k].id \in Ids(s) /\ s[k].id \in Ids(u)
  BY DEF Ids
<1>2. PICK l \in DOMAIN t : t[l].id = s[k].id
  BY <1>1 DEF Ids
<1> QED BY <1>2 DEF Grown

\* A list without repetitions is no news to itself.
LEMMA GrownSelf ==
  ASSUME NEW s, Distinct(s)
  PROVE  Grown(s, s)
BY DistinctMeans DEF Grown

LEMMA SetKeeps ==
  ASSUME TypedInv, TypedInv', LibraryInv, NEW w \in Workbenches, OnlyOf(w),
         w \notin overtaken, UNCHANGED <<overtaken, spoiled>>,
         NEW docs, Set(w, docs), Distinct(docs), Grown(cache[w], docs),
         Used \subseteq Used', Ids(docs) \subseteq Ids(cache[w]) \cup (Used' \ Used)
  PROVE  LibraryInv'
<1>1. /\ cache'[w] = docs
      /\ UNCHANGED <<store, persisted, itemRev, drain, hydration, resolving>>
      /\ StoreTyped /\ StoreTyped'
  BY DEF Set, TypedInv, CopiesTyped
<1>2. CopyInv(w) /\ SentInv(w) /\ ToldInv(w) /\ HeardInv(w) /\ CopyApart(w)
  BY DEF LibraryInv, Sound
<1>3. Advances(w)
  BY <1>1, Stays
<1>4. CopyInv(w)'
  <2>1. Grown(persisted[w], docs)
    <3>1. Ids(persisted[w]) \cap Ids(docs) \subseteq Ids(cache[w])
      BY Known
    <3> QED BY <1>2, <3>1, GrownThrough DEF CopyInv
  <2> QED BY <1>1, <1>2, <2>1 DEF CopyInv
<1>5. SentInv(w)'
  <2>1. Sent(w)' = Sent(w) /\ Written(w)' = Written(w) /\ Learned(w)' = Learned(w)
    BY <1>1 DEF Sent, Written, Learned
  <2>2. ASSUME Sent(w)
        PROVE  /\ Grown(drain[w].call.next, docs)
               /\ Ids(docs) \cap Ids(persisted[w]) \subseteq Ids(drain[w].call.next)
    <3>1. /\ Grown(drain[w].call.next, cache[w])
          /\ Ids(cache[w]) \cap Ids(persisted[w]) \subseteq Ids(drain[w].call.next)
      BY <1>2, <2>2 DEF SentInv
    <3>2. Ids(drain[w].call.next) \cap Ids(docs) \subseteq Ids(cache[w])
      BY <2>2, Known
    <3>3. Ids(docs) \cap Ids(persisted[w]) \subseteq Ids(cache[w])
      BY Known
    <3> QED BY <3>1, <3>2, <3>3, GrownThrough
  <2> QED BY <1>1, <1>2, <2>1, <2>2 DEF SentInv
<1>6. ToldInv(w)' /\ HeardInv(w)'
  <2>1. Written(w)' = Written(w) /\ Copied(w)' = Copied(w) /\ Learned(w)' = Learned(w)
    BY <1>1 DEF Written, Copied, Learned
  <2> QED BY <1>1, <1>2, <2>1 DEF ToldInv, HeardInv
<1>7. CopyApart(w)'
  <2>1. Copying(w)' = Copying(w) /\ Sent(w)' = Sent(w)
    BY <1>1 DEF Copying, Sent
  <2>2. Copying(w) => resolving[w].document.id \notin Ids(docs)
    BY <1>2, Known DEF CopyApart, Apart
  <2> QED BY <1>1, <1>2, <2>1, <2>2 DEF CopyApart, Apart
<1>8. Remembered(w)' = Remembered(w)
  BY <1>1 DEF Remembered, Heard, Written, Copied
<1>9. Drafts(w)' \subseteq Drafts(w) \cup (Used' \ Used)
  BY <1>1 DEF Drafts, Chosen, Written
<1> QED BY <1>3, <1>4, <1>5, <1>6, <1>7, <1>8, <1>9, SoundKept

\* The next ID is nobody's.
LEMMA NextId ==
  ASSUME StoreTyped, created < Len(Items)
  PROVE  /\ Items[created + 1] \notin Used
         /\ created' = created + 1 => Used' = Used \cup {Items[created + 1]}
<1>1. Items \in Seq(ToSet(Items)) /\ DOMAIN Items = 1..Len(Items) /\ Len(Items) \in Nat
      /\ \A k, l \in DOMAIN Items : Items[k] = Items[l] => k = l
  BY SharedLibraryAssumption DEF IsInjective
<1>2. created \in Nat
  BY <1>1 DEF StoreTyped
<1>3. Items[created + 1] \notin Used
  <2>1. \A k \in 1..created : k \in DOMAIN Items /\ k # created + 1
    BY <1>1, <1>2
  <2>2. created + 1 \in DOMAIN Items
    BY <1>1, <1>2
  <2> QED BY <1>1, <2>1, <2>2 DEF Used
<1>4. 1..(created + 1) = 1..created \cup {created + 1}
  BY <1>2
<1> QED BY <1>3, <1>4 DEF Used

LEMMA EditKeeps ==
  ASSUME TypedInv, TypedInv', LibraryInv, NEW w \in Workbenches, OnlyOf(w),
         w \notin overtaken, UNCHANGED <<overtaken, spoiled>>,
         Edit(w) \/ Add(w) \/ Delete(w) \/ Reorder(w)
  PROVE  LibraryInv'
<1> DEFINE s == cache[w]
<1>1. /\ s \in Seq(Document) /\ Len(s) \in Nat /\ DOMAIN s = 1..Len(s)
      /\ \A k, l \in DOMAIN s : s[k].id = s[l].id => k = l
      /\ \A k \in DOMAIN s : s[k] \in Document
  <2>1. s \in Seq(Document) /\ Distinct(s)
    BY DEF TypedInv, CopiesTyped, LibraryInv, Sound, CopyInv
  <2> QED BY <2>1, SeqIs, DistinctMeans
<1>2. UNCHANGED created => Used' = Used
  BY DEF Used
\* A list of documents of s, none of them twice.
<1>3. ASSUME NEW t, Set(w, t), UNCHANGED created,
             \A k \in DOMAIN t : \E l \in DOMAIN s :
               t[k].id = s[l].id /\ s[l].text \subseteq t[k].text,
             \A k, l \in DOMAIN t : t[k].id = t[l].id => k = l
      PROVE  LibraryInv'
  <2>1. Distinct(t)
    BY <1>3, DistinctMeans
  <2>2. Ids(t) \subseteq Ids(s)
    BY <1>3 DEF Ids
  <2>3. Grown(s, t)
    BY <1>1, <1>3 DEF Grown
  <2> QED BY <1>2, <1>3, <2>1, <2>2, <2>3, SetKeeps
<1>4. CASE Edit(w)
  <2>1. PICK k \in DOMAIN s :
          Set(w, [s EXCEPT ![k].text = @ \cup {edits + 1}]) /\ UNCHANGED created
    BY <1>4 DEF Edit
  <2> DEFINE t == [s EXCEPT ![k].text = @ \cup {edits + 1}]
  <2>2. edits < MaxEdits
    BY <2>1 DEF Set
  <2>3. t = [l \in DOMAIN s |-> IF l = k THEN [id |-> s[l].id, text |-> s[l].text \cup {edits + 1}]
                                ELSE s[l]]
    BY <2>2, EditedDocs
  <2> HIDE DEF t
  <2>4. \A l \in DOMAIN t : l \in DOMAIN s /\ t[l].id = s[l].id /\ s[l].text \subseteq t[l].text
    BY <2>3
  <2>5. Set(w, t)
    BY <2>1 DEF t
  <2> QED BY <1>1, <1>3, <2>1, <2>4, <2>5
<1>5. CASE Delete(w)
  <2>1. PICK k \in DOMAIN s : Set(w, RemoveAt(s, k)) /\ UNCHANGED created
    BY <1>5 DEF Delete
  <2> DEFINE t == RemoveAt(s, k)
             at(l) == IF l < k THEN l ELSE l + 1
  <2>2. DOMAIN t = 1..(Len(s) - 1) /\ \A l \in DOMAIN t : t[l] = s[at(l)]
    <3>1. s \in Seq(Document) /\ k \in DOMAIN s
      BY <1>1
    <3> HIDE DEF s
    <3> QED BY <3>1, RemovedDocs
  <2>3. \A l \in DOMAIN t : at(l) \in DOMAIN s
    BY <1>1, <2>2
  <2>4. \A l, m \in DOMAIN t : at(l) = at(m) => l = m
    BY <1>1, <2>2
  <2>5. Set(w, t) /\ UNCHANGED created
    BY <2>1
  <2> HIDE DEF t, at
  <2>7. \A m \in DOMAIN t : \E l \in DOMAIN s : t[m].id = s[l].id /\ s[l].text \subseteq t[m].text
    BY <2>2, <2>3
  <2>8. ASSUME NEW l \in DOMAIN t, NEW m \in DOMAIN t, t[l].id = t[m].id
        PROVE  l = m
    <3>1. s[at(l)].id = s[at(m)].id /\ at(l) \in DOMAIN s /\ at(m) \in DOMAIN s
      BY <2>2, <2>3, <2>8
    <3>2. at(l) = at(m)
      BY <1>1, <3>1
    <3> QED BY <2>4, <3>2
  <2> QED BY <1>3, <2>5, <2>7, <2>8
<1>6. CASE Reorder(w)
  <2> DEFINE t == Append(Tail(s), Head(s))
             at(l) == IF l = Len(s) THEN 1 ELSE l + 1
  <2>1. Len(s) > 1 /\ Set(w, t) /\ UNCHANGED created
    BY <1>6 DEF Reorder
  <2>2. DOMAIN t = 1..Len(s) /\ \A l \in DOMAIN t : t[l] = s[at(l)]
    BY <1>1, <2>1, RotatedDocs
  <2>3. \A l \in DOMAIN t : at(l) \in DOMAIN s
    BY <1>1, <2>2
  <2>4. \A l, m \in DOMAIN t : at(l) = at(m) => l = m
    BY <1>1, <2>2
  <2> HIDE DEF t, at
  <2>7. \A k \in DOMAIN t : \E l \in DOMAIN s : t[k].id = s[l].id /\ s[l].text \subseteq t[k].text
    BY <2>2, <2>3
  <2>8. ASSUME NEW k \in DOMAIN t, NEW l \in DOMAIN t, t[k].id = t[l].id
        PROVE  k = l
    <3>1. s[at(k)].id = s[at(l)].id /\ at(k) \in DOMAIN s /\ at(l) \in DOMAIN s
      BY <2>2, <2>3, <2>8
    <3>2. at(k) = at(l)
      BY <1>1, <3>1
    <3> QED BY <2>4, <3>2
  <2> QED BY <1>3, <2>1, <2>7, <2>8
<1>7. CASE Add(w)
  <2> DEFINE d == [id |-> Items[created + 1], text |-> {edits + 1}]
             t == Append(s, d)
  <2>1. created < Len(Items) /\ Set(w, t) /\ created' = created + 1
    BY <1>7 DEF Add
  <2>2. d.id \notin Used /\ Used' = Used \cup {d.id}
    BY <2>1, NextId DEF TypedInv
  <2>3. Ids(s) \subseteq Used
    BY Known
  <2>4. /\ DOMAIN t = 1..(Len(s) + 1) /\ t[Len(s) + 1] = d
        /\ \A k \in DOMAIN s : k \in DOMAIN t /\ t[k] = s[k]
        /\ \A k \in DOMAIN t : k \in DOMAIN s \/ k = Len(s) + 1
    <3> HIDE DEF d
    <3> QED BY <1>1
  <2> HIDE DEF t, d
  <2>5. \A k \in DOMAIN s : s[k].id # d.id
    BY <2>2, <2>3 DEF Ids
  <2>6. Distinct(t)
    <3>1. \A k, l \in DOMAIN t : t[k].id = t[l].id => k = l
      BY <1>1, <2>4, <2>5
    <3> QED BY <3>1, DistinctMeans
  <2>7. Ids(t) \subseteq Ids(s) \cup (Used' \ Used)
    BY <2>2, <2>4 DEF Ids
  <2>8. Grown(s, t)
    BY <1>1, <2>4, <2>5 DEF Grown
  <2> QED BY <2>1, <2>2, <2>6, <2>7, <2>8, SetKeeps
<1> QED BY <1>4, <1>5, <1>6, <1>7

-----------------------------------------------------------------------------
(* The invariant is kept by the steps that change neither the store nor a  *)
(* copy.                                                                   *)

LEMMA UsedKept ==
  ASSUME UNCHANGED created
  PROVE  Used' = Used
BY DEF Used

LEMMA HalfKept ==
  ASSUME LibraryInv, NEW w \in Workbenches, w \notin overtaken,
         UNCHANGED <<cache[w], persisted[w], itemRev[w]>>
  PROVE  CopyInv(w)'
<1>1. CopyInv(w)
  BY DEF LibraryInv, Sound
<1> QED BY <1>1 DEF CopyInv

\* A drain that was not answered ends, or its answer is an error.
LEMMA DrainEnds ==
  ASSUME TypedInv, TypedInv', LibraryInv, NEW w \in Workbenches, OnlyOf(w),
         w \notin overtaken, UNCHANGED <<overtaken, spoiled>>,
         UNCHANGED <<store, created, cache[w], persisted[w], itemRev[w],
                     hydration[w], resolving[w]>>,
         ~Written(w), ~Sent(w)'
  PROVE  LibraryInv'
<1>1. /\ StoreTyped /\ CopyInv(w)' /\ Used' = Used
      /\ ToldInv(w) /\ HeardInv(w) /\ CopyApart(w)
  BY HalfKept, UsedKept DEF TypedInv, LibraryInv, Sound
<1>2. Advances(w)
  BY <1>1, Stays
<1>3. ~Written(w)' /\ Copied(w)' = Copied(w) /\ Copying(w)' = Copying(w)
      /\ drain'[w].at # "called"
  BY DEF Written, Sent, Answered, Copied, Copying
<1>4. SentInv(w)' /\ ToldInv(w)' /\ HeardInv(w)' /\ CopyApart(w)'
  <2>1. SentInv(w)'
    BY DEF SentInv
  <2>2. ToldInv(w)' /\ HeardInv(w)'
    BY <1>1, <1>3 DEF ToldInv, HeardInv
  <2>3. CopyApart(w)'
    BY <1>1, <1>3 DEF CopyApart, Apart
  <2> QED BY <2>1, <2>2, <2>3
<1>5. Remembered(w)' \subseteq Remembered(w)
  BY <1>3 DEF Remembered, Heard
<1>6. Drafts(w)' \subseteq Drafts(w)
  BY <1>3 DEF Drafts, Chosen
<1> QED BY <1>1, <1>2, <1>4, <1>5, <1>6, SoundKept

\* A new turn sends what the workbench shows.
LEMMA TurnKeeps ==
  ASSUME TypedInv, TypedInv', LibraryInv, NEW w \in Workbenches, OnlyOf(w),
         w \notin overtaken, UNCHANGED <<overtaken, spoiled>>, Turn(w),
         UNCHANGED <<store, created, cache, persisted, itemRev, hydration, resolving>>,
         ~Written(w)
  PROVE  LibraryInv'
<1>1. /\ StoreTyped /\ CopiesTyped /\ CopyInv(w) /\ CopyInv(w)' /\ Used' = Used
      /\ ToldInv(w) /\ HeardInv(w) /\ CopyApart(w)
  BY HalfKept, UsedKept DEF TypedInv, LibraryInv, Sound
<1>2. Advances(w)
  BY <1>1, Stays
<1> DEFINE q == Request(w)
<1>3. /\ drain'[w].at \in {"saving", "called"} /\ drain'[w].call = q /\ drain'[w].attached
  BY DEF Turn, TypedInv, CallersTyped
<1>4. /\ q.next = cache[w] /\ q.revs = itemRev[w] /\ Spares(q, persisted[w])
  BY <1>1, RequestIs DEF CopyInv
<1> HIDE DEF q
<1>5. ~Written(w)' /\ Copied(w)' = Copied(w) /\ Copying(w)' = Copying(w)
  BY <1>3 DEF Written, Answered, Copied, Copying
<1>6. SentInv(w)'
  <2>1. Distinct(cache[w]) /\ Grown(persisted[w], cache[w]) /\ Grown(cache[w], cache[w])
    BY <1>1, GrownSelf DEF CopyInv
  <2> QED BY <1>3, <1>4, <1>5, <2>1 DEF SentInv
<1>7. ToldInv(w)' /\ HeardInv(w)'
  BY <1>1, <1>5 DEF ToldInv, HeardInv
<1>8. CopyApart(w)'
  BY <1>1, <1>3, <1>4, <1>5 DEF CopyApart, Apart
<1>9. Remembered(w)' \subseteq Remembered(w)
  BY <1>5 DEF Remembered, Heard
<1>10. Drafts(w)' \subseteq Drafts(w)
  BY <1>3, <1>4, <1>5 DEF Drafts, Chosen
<1> QED BY <1>1, <1>2, <1>6, <1>7, <1>8, <1>9, <1>10, SoundKept

\* The calls of a hydration and of a resolution go on, or end.
LEMMA CallsKeep ==
  ASSUME TypedInv, TypedInv', LibraryInv, NEW w \in Workbenches, OnlyOf(w),
         w \notin overtaken, UNCHANGED <<overtaken, spoiled>>,
         UNCHANGED <<store, created, cache[w], persisted[w], itemRev[w], drain[w]>>,
         \A c \in Callers : hydration'[w][c].at \in {"listed", "answered"} =>
           \/ hydration'[w][c].items = store
           \/ /\ hydration[w][c].at \in {"listed", "answered"}
              /\ hydration'[w][c].items = hydration[w][c].items,
         Copying(w)' =>
           \/ UNCHANGED resolving[w]
           \/ /\ Copied(w) /\ Copied(w)' /\ Copying(w)
              /\ resolving'[w].document = resolving[w].document
              /\ resolving'[w].at # "called"
  PROVE  LibraryInv'
<1>1. /\ StoreTyped /\ CopyInv(w)' /\ Used' = Used
      /\ SentInv(w) /\ ToldInv(w) /\ HeardInv(w) /\ CopyApart(w)
  BY HalfKept, UsedKept DEF TypedInv, LibraryInv, Sound
<1>2. Advances(w)
  BY <1>1, Stays
<1>3. Sent(w)' = Sent(w) /\ Written(w)' = Written(w) /\ Learned(w)' = Learned(w)
  BY DEF Sent, Written, Learned
<1>4. SentInv(w)'
  BY <1>1, <1>3 DEF SentInv
<1>5. /\ Copying(w)' => Copying(w) /\ resolving'[w].document = resolving[w].document
      /\ Copied(w)' => Copied(w) /\ resolving'[w].document = resolving[w].document
      /\ resolving'[w].at = "called" => UNCHANGED resolving[w]
  BY DEF Copying, Copied, Answered
<1>6. ToldInv(w)' /\ HeardInv(w)'
  <2>1. TellsItems(store, spoiled, store)
    BY <1>1, StoreIs, ListingIs DEF TellsItems, Tells
  <2>2. \A c \in Callers : hydration'[w][c].at \in {"listed", "answered"} =>
          TellsItems(store', spoiled', hydration'[w][c].items)
    BY <1>1, <2>1 DEF ToldInv, HeardInv
  <2> QED BY <1>1, <1>3, <1>5, <2>2 DEF ToldInv, HeardInv
<1>7. CopyApart(w)'
  BY <1>1, <1>3, <1>5 DEF CopyApart, Apart
<1>8. Remembered(w)' \subseteq Remembered(w) \cup Ids(store)
  <2>1. \A c \in Callers : hydration'[w][c].at \in {"listed", "answered"} =>
          Ids(hydration'[w][c].items) \subseteq Remembered(w) \cup Ids(store)
    BY Known
  <2>2. Copied(w)' => resolving'[w].document.id \in Remembered(w)
    BY <1>5, Known
  <2>3. Ids(persisted'[w]) \subseteq Remembered(w)
    BY Known
  <2>4. Written(w)' => Ids(drain'[w].call.next) \subseteq Remembered(w)
    BY <1>3, Known
  <2> QED BY <2>1, <2>2, <2>3, <2>4 DEF Remembered, Heard
<1>9. Drafts(w)' \subseteq Drafts(w)
  BY <1>3, <1>5 DEF Drafts, Chosen
<1> QED BY <1>1, <1>2, <1>4, <1>6, <1>7, <1>8, <1>9, SoundKept

LEMMA ReadRevisionKeeps ==
  ASSUME TypedInv, TypedInv', LibraryInv, NEW w \in Workbenches, OnlyOf(w),
         w \notin overtaken, UNCHANGED <<overtaken, spoiled>>, ReadRevision(w)
  PROVE  LibraryInv'
<1>1. /\ drain[w].at = "committed" /\ drain'[w].at = "stored"
      /\ drain'[w].call = drain[w].call /\ drain'[w].attached = drain[w].attached
      /\ drain'[w].revs = drain[w].revs
      /\ UNCHANGED <<store, local, hydration, resolving, created>>
  BY DEF ReadRevision, TypedInv, CallersTyped
<1>2. UNCHANGED <<cache, persisted, itemRev>>
  BY <1>1 DEF local
<1>3. /\ StoreTyped /\ CopyInv(w)' /\ Used' = Used
      /\ SentInv(w) /\ ToldInv(w) /\ HeardInv(w) /\ CopyApart(w)
  BY <1>1, <1>2, HalfKept, UsedKept DEF TypedInv, LibraryInv, Sound
<1>4. Advances(w)
  BY <1>1, <1>3, Stays
<1>5. /\ Sent(w) /\ Sent(w)' /\ Written(w) /\ Written(w)' /\ Learned(w)' = Learned(w)
      /\ Copied(w)' = Copied(w) /\ Copying(w)' = Copying(w)
  BY <1>1, <1>2 DEF Sent, Written, Answered, Learned, Copied, Copying
<1>6. SentInv(w)'
  BY <1>1, <1>2, <1>3, <1>5 DEF SentInv
<1>7. ToldInv(w)' /\ HeardInv(w)'
  BY <1>1, <1>2, <1>3, <1>5 DEF ToldInv, HeardInv
<1>8. CopyApart(w)'
  BY <1>1, <1>2, <1>3, <1>5 DEF CopyApart, Apart
<1>9. Remembered(w)' = Remembered(w)
  BY <1>1, <1>2, <1>5 DEF Remembered, Heard
<1>10. Drafts(w)' \subseteq Drafts(w)
  BY <1>1, <1>2, <1>5 DEF Drafts, Chosen
<1> QED BY <1>3, <1>4, <1>6, <1>7, <1>8, <1>9, <1>10, SoundKept

\* A step that neither writes nor learns starts a turn, ends a drain, or is of the
\* calls of a hydration or of a resolution.
Quiet(w) ==
  \/ EnsureDrain(w) \/ Saved(w) \/ DrainFailed(w) \/ Fault(w)
  \/ Refresh(w) \/ (\E c \in Callers : ListItems(w, c) \/ ReadCollection(w, c))
  \/ Resolve(w) \/ ReadCopyRevision(w) \/ CopySaved(w) \/ ResolveFault(w)

CallsGoOn(w) ==
  /\ \A c \in Callers : hydration'[w][c].at \in {"listed", "answered"} =>
       \/ hydration'[w][c].items = store
       \/ /\ hydration[w][c].at \in {"listed", "answered"}
          /\ hydration'[w][c].items = hydration[w][c].items
  /\ Copying(w)' =>
       \/ UNCHANGED resolving[w]
       \/ /\ Copied(w) /\ Copied(w)' /\ Copying(w)
          /\ resolving'[w].document = resolving[w].document
          /\ resolving'[w].at # "called"

LEMMA QuietIs ==
  ASSUME TypedInv, NEW w \in Workbenches, Quiet(w)
  PROVE  /\ UNCHANGED <<store, created, cache, persisted, itemRev, overtaken, spoiled>>
         /\ \/ UNCHANGED <<hydration, resolving>> /\ ~Written(w) /\ (Turn(w) \/ ~Sent(w)')
            \/ UNCHANGED drain /\ CallsGoOn(w)
<1>0. UNCHANGED <<overtaken, spoiled>>
  BY DEF Quiet, EnsureDrain, Saved, DrainFailed, Fault, Refresh, ListItems, ReadCollection,
         Resolve, ReadCopyRevision, CopySaved, ResolveFault, history
<1>1. /\ drain = [v \in Workbenches |-> drain[v]]
      /\ hydration = [v \in Workbenches |-> hydration[v]]
      /\ hydration[w] = [c \in Callers |-> hydration[w][c]]
      /\ resolving = [v \in Workbenches |-> resolving[v]]
  BY CallersOf DEF TypedInv, CallersTyped
<1>2. CASE EnsureDrain(w)
  <2>1. /\ Turn(w) /\ drain[w] = Idle
        /\ UNCHANGED <<store, created, cache, persisted, itemRev, hydration, resolving>>
    BY <1>2 DEF EnsureDrain
  <2>2. ~Written(w)
    BY <2>1 DEF Written, Answered, Idle
  <2> QED BY <1>0, <1>2, <2>1, <2>2
<1>3. CASE Saved(w)
  <2>1. /\ UNCHANGED <<store, created, cache, persisted, itemRev, hydration, resolving>>
        /\ ~Written(w)
    BY <1>3 DEF Saved, Written, Answered
  <2>2. CASE Turn(w)
    BY <1>0, <1>3, <2>1, <2>2
  <2>3. CASE drain' = [drain EXCEPT ![w] = Idle]
    <3>1. ~Sent(w)'
      BY <1>1, <2>3 DEF Sent, Idle
    <3> QED BY <1>0, <1>3, <2>1, <3>1
  <2> QED BY <1>3, <2>2, <2>3 DEF Saved
<1>4. CASE DrainFailed(w) \/ Fault(w)
  <2>1. /\ UNCHANGED <<store, created, cache, persisted, itemRev, hydration, resolving>>
        /\ ~Written(w)
    BY <1>4 DEF DrainFailed, Fault, Written, Answered, local
  <2>2. ~Sent(w)'
    <3>1. CASE DrainFailed(w)
      BY <1>1, <3>1 DEF DrainFailed, Sent, Idle
    <3>2. CASE Fault(w)
      <4>1. drain[w].at \in Underway /\ drain[w] # Idle
        BY <3>2 DEF Fault, Underway, Idle
      <4>2. DOMAIN drain[w] = {"at", "call", "attached"}
        <5>1. drain[w] = [at |-> drain[w].at, call |-> drain[w].call,
                          attached |-> drain[w].attached]
          BY <4>1, DrainIs
        <5> QED BY <5>1
      <4>3. drain'[w].at = "failed"
        BY <1>1, <3>2, <4>2 DEF Fault
      <4> QED BY <4>3 DEF Sent
    <3> QED BY <1>4, <3>1, <3>2
  <2> QED BY <1>0, <1>4, <2>1, <2>2
<1>5. CASE Refresh(w) \/ \E c \in Callers : ListItems(w, c) \/ ReadCollection(w, c)
  <2>1. UNCHANGED <<store, created, cache, persisted, itemRev, drain, resolving>>
    BY <1>5 DEF Refresh, ListItems, ReadCollection, local
  <2>2. ASSUME NEW b \in Callers, hydration'[w][b].at \in {"listed", "answered"}
        PROVE  \/ hydration'[w][b].items = store
               \/ /\ hydration[w][b].at \in {"listed", "answered"}
                  /\ hydration'[w][b].items = hydration[w][b].items
    <3>1. CASE Refresh(w)
      BY <1>1, <2>2, <3>1 DEF Refresh
    <3>2. ASSUME NEW c \in Callers, ListItems(w, c)
          PROVE  \/ hydration'[w][b].items = store
                 \/ /\ hydration[w][b].at \in {"listed", "answered"}
                    /\ hydration'[w][b].items = hydration[w][b].items
      BY <1>1, <2>2, <3>2 DEF ListItems
    <3>3. ASSUME NEW c \in Callers, ReadCollection(w, c)
          PROVE  \/ hydration'[w][b].items = store
                 \/ /\ hydration[w][b].at \in {"listed", "answered"}
                    /\ hydration'[w][b].items = hydration[w][b].items
      BY <1>1, <2>2, <3>3 DEF ReadCollection
    <3> QED BY <1>5, <3>1, <3>2, <3>3
  <2> QED BY <1>0, <1>5, <2>1, <2>2 DEF CallsGoOn
<1>6. CASE Resolve(w) \/ CopySaved(w) \/ ResolveFault(w)
  <2>1. UNCHANGED <<store, created, cache, persisted, itemRev, drain>>
    BY <1>6 DEF Resolve, CopySaved, ResolveFault, local
  <2>2. resolving'[w].at \in {"hydrating", "idle"}
    BY <1>1, <1>6 DEF Resolve, CopySaved, ResolveFault, Idle
  <2>3. ASSUME NEW b \in Callers, hydration'[w][b].at \in {"listed", "answered"}
        PROVE  hydration'[w][b] = hydration[w][b]
    <3>1. \/ UNCHANGED hydration
          \/ hydration' = [hydration EXCEPT ![w]["resolve"] = [at |-> "asked"]]
          \/ hydration' = [hydration EXCEPT ![w]["resolve"] = Idle]
      BY <1>6 DEF Resolve, CopySaved, ResolveFault
    <3> QED BY <1>1, <2>3, <3>1 DEF Idle
  <2>4. ~Copying(w)'
    BY <2>2 DEF Copying
  <2> QED BY <1>0, <1>6, <2>1, <2>3, <2>4 DEF CallsGoOn
<1>7. CASE ReadCopyRevision(w)
  <2>1. UNCHANGED <<store, created, cache, persisted, itemRev, drain, hydration>>
    BY <1>7 DEF ReadCopyRevision, local
  <2>2. /\ resolving[w].at = "committed" /\ resolving'[w].at = "stored"
        /\ resolving'[w].document = resolving[w].document
    BY <1>1, <1>7 DEF ReadCopyRevision
  <2>3. Copied(w) /\ Copied(w)' /\ Copying(w)
    BY <2>2 DEF Copied, Copying, Answered
  <2> QED BY <1>0, <1>7, <2>1, <2>2, <2>3 DEF CallsGoOn
<1> QED BY <1>2, <1>3, <1>4, <1>5, <1>6, <1>7 DEF Quiet

LEMMA QuietKeeps ==
  ASSUME TypedInv, TypedInv', LibraryInv, NEW w \in Workbenches, OnlyOf(w),
         w \notin overtaken, Quiet(w)
  PROVE  LibraryInv'
<1>1. CASE UNCHANGED <<hydration, resolving>> /\ ~Written(w) /\ (Turn(w) \/ ~Sent(w)')
  BY <1>1, QuietIs, TurnKeeps, DrainEnds
<1>2. CASE UNCHANGED drain /\ CallsGoOn(w)
  BY <1>2, QuietIs, CallsKeep DEF CallsGoOn
<1> QED BY <1>1, <1>2, QuietIs

-----------------------------------------------------------------------------
(* The invariant is kept by what a copy learns.                            *)

LEMMA StoredKeeps ==
  ASSUME TypedInv, TypedInv', LibraryInv, NEW w \in Workbenches, OnlyOf(w),
         w \notin overtaken, UNCHANGED <<overtaken, spoiled>>, Stored(w)
  PROVE  LibraryInv'
<1> DEFINE q == drain[w].call
<1>1. /\ drain[w].at = "stored" /\ drain'[w].at = "saving"
      /\ persisted'[w] = q.next /\ itemRev'[w] = Learned(w)
      /\ UNCHANGED <<store, cache, hydration, resolving, created>>
  <2>1. itemRev'[w] = Learned(w) /\ persisted'[w] = q.next
    BY DEF Stored, TypedInv, CopiesTyped
  <2>2. drain'[w].at = "saving"
    BY DEF Stored, TypedInv, CallersTyped
  <2> QED BY <2>1, <2>2 DEF Stored
<1>2. /\ StoreTyped /\ Used' = Used /\ SentInv(w) /\ ToldInv(w) /\ HeardInv(w) /\ CopyApart(w)
  BY <1>1, UsedKept DEF TypedInv, LibraryInv, Sound
<1>3. Advances(w)
  BY <1>1, <1>2, Stays
<1>4. /\ Sent(w) /\ Written(w) /\ ~Sent(w)' /\ ~Written(w)' /\ drain'[w].at # "called"
      /\ Copied(w)' = Copied(w) /\ Copying(w)' = Copying(w)
  BY <1>1 DEF Sent, Written, Answered, Copied, Copying
<1>5. /\ Distinct(q.next) /\ DOMAIN Learned(w) = Ids(q.next) /\ Grown(q.next, cache[w])
      /\ Ids(cache[w]) \cap Ids(persisted[w]) \subseteq Ids(q.next)
  BY <1>2, <1>4 DEF SentInv
<1>6. CopyInv(w)'
  <2>1. Distinct(cache[w])
    BY DEF LibraryInv, Sound, CopyInv
  <2> QED BY <1>1, <1>5, <2>1 DEF CopyInv
<1>7. SentInv(w)' /\ CopyApart(w)'
  <2>1. Ids(q.next) \subseteq Remembered(w)
    BY <1>4, Known
  <2>2. Copying(w) => resolving[w].document.id \notin Ids(q.next)
    BY <1>2, <1>4 DEF CopyApart, Apart
  <2> QED BY <1>1, <1>2, <1>4, <2>2 DEF SentInv, CopyApart, Apart
<1>8. ToldInv(w)' /\ HeardInv(w)'
  BY <1>1, <1>2, <1>4 DEF ToldInv, HeardInv
<1>9. Remembered(w)' \subseteq Remembered(w)
  BY <1>1, <1>4, Known DEF Remembered, Heard
<1>10. Drafts(w)' \subseteq Drafts(w)
  BY <1>1, <1>4, <1>5 DEF Drafts, Chosen
<1> QED BY <1>2, <1>3, <1>6, <1>7, <1>8, <1>9, <1>10, SoundKept

\* What was listed is what the store told.
LEMMA ItemsTell ==
  ASSUME NEW n \in Nat, NEW items, Listing(items, n), NEW s, NEW x,
         TellsItems(s, x, items)
  PROVE  TellsAll(s, x, Documents(items), Revisions(items))
<1> SUFFICES ASSUME NEW k \in DOMAIN items
             PROVE  Tells(s, x, Documents(items)[k], Revisions(items)[Documents(items)[k].id])
  BY DocumentsOf DEF TellsAll
<1>1. Documents(items)[k] = [id |-> items[k].id, text |-> items[k].text]
  BY DocumentsOf
<1>2. Revisions(items)[items[k].id] = items[k].rev
  BY RevisionsOf
<1>3. Tells(s, x, items[k], items[k].rev)
  BY DEF TellsItems
<1> QED BY <1>1, <1>2, <1>3 DEF Tells

\* An answer arrives. It changes the copy of a workbench at rest, overtaken or not,
\* or nothing.
LEMMA AnswerKeeps ==
  ASSUME TypedInv, TypedInv', LibraryInv, NEW w \in Workbenches, OnlyOf(w),
         w \notin overtaken', UNCHANGED <<store, spoiled>>,
         NEW c \in Callers, hydration[w][c].at = "answered",
         \A b \in Callers : hydration'[w][b] = IF b = c THEN Idle ELSE hydration[w][b],
         \/ w \notin overtaken /\ UNCHANGED <<cache[w], persisted[w], itemRev[w], drain[w]>>
         \/ /\ cache'[w] = Documents(hydration[w][c].items)
            /\ persisted'[w] = Documents(hydration[w][c].items)
            /\ itemRev'[w] = Revisions(hydration[w][c].items)
            /\ UNCHANGED drain[w] /\ drain[w] = Idle /\ ~Copying(w),
         \/ UNCHANGED <<resolving[w], created>>
         \/ resolving'[w] = Idle /\ UNCHANGED created
         \/ /\ created < Len(Items) /\ created' = created + 1
            /\ resolving'[w].at = "called" /\ resolving'[w].document.id = Items[created + 1]
  PROVE  LibraryInv'
<1> DEFINE items == hydration[w][c].items
<1>1. /\ StoreTyped /\ HeardInv(w) /\ revision \in Nat /\ Listing(items, revision)
      /\ w \notin overtaken => SentInv(w) /\ ToldInv(w) /\ CopyApart(w) /\ CopyInv(w)
  BY HydrationIs DEF TypedInv, StoreTyped, LibraryInv, Sound
<1>2. Advances(w)
  BY <1>1, Stays
<1>3. /\ Sent(w)' = Sent(w) /\ Written(w)' = Written(w)
      /\ Sent(w) => /\ UNCHANGED <<cache[w], persisted[w], itemRev[w], drain[w]>>
                    /\ Learned(w)' = Learned(w) /\ w \notin overtaken
      /\ drain'[w] = drain[w]
  BY DEF Sent, Written, Learned, Idle
<1>4. /\ CopyInv(w)' /\ TellsAll(store', spoiled', persisted'[w], itemRev'[w])
      /\ Ids(persisted'[w]) \subseteq Remembered(w)
      /\ Ids(cache'[w]) \subseteq Ids(cache[w]) \cup Ids(persisted'[w])
      /\ \/ w \notin overtaken /\ UNCHANGED <<cache[w], persisted[w], drain[w]>>
         \/ drain[w] = Idle /\ Ids(cache'[w]) \subseteq Ids(persisted'[w])
      /\ Copying(w) => UNCHANGED <<cache[w], persisted[w]>> /\ w \notin overtaken
      /\ Ids(cache'[w]) \subseteq Used /\ Ids(persisted'[w]) \subseteq Used
  <2>1. CASE w \notin overtaken /\ UNCHANGED <<cache[w], persisted[w], itemRev[w], drain[w]>>
    <3>1. CopyInv(w)'
      BY <2>1, HalfKept
    <3>2. TellsAll(store', spoiled', persisted'[w], itemRev'[w])
      BY <1>1, <2>1 DEF ToldInv, HeardInv
    <3>3. Ids(persisted[w]) \subseteq Remembered(w)
      BY <2>1, Known
    <3>4. Ids(cache[w]) \subseteq Used /\ Ids(persisted[w]) \subseteq Used
      BY Known
    <3> QED BY <2>1, <3>1, <3>2, <3>3, <3>4
  <2>2. CASE /\ cache'[w] = Documents(items) /\ persisted'[w] = Documents(items)
             /\ itemRev'[w] = Revisions(items) /\ drain[w] = Idle /\ ~Copying(w)
    <3>1. /\ Distinct(Documents(items)) /\ Ids(Documents(items)) = Ids(items)
          /\ DOMAIN Revisions(items) = Ids(items)
      BY <1>1, DocumentsOf, RevisionsOf
    <3>2. CopyInv(w)'
      BY <2>2, <3>1, GrownSelf DEF CopyInv
    <3>3. TellsItems(store, spoiled, items)
      BY <1>1 DEF ToldInv, HeardInv
    <3>4. TellsAll(store', spoiled', persisted'[w], itemRev'[w])
      BY <1>1, <2>2, <3>3, ItemsTell
    <3>5. Ids(items) \subseteq Remembered(w)
      BY Known
    <3> QED BY <2>2, <3>1, <3>2, <3>4, <3>5, Known
  <2> QED BY <2>1, <2>2
<1>5. /\ Used \subseteq Used'
      /\ \/ UNCHANGED resolving[w]
         \/ resolving'[w] = Idle
         \/ /\ resolving'[w].at = "called"
            /\ resolving'[w].document.id \in Used' \ Used
  BY <1>1, UsedKept, NextId
<1>6. /\ Copied(w)' => Copied(w) /\ UNCHANGED resolving[w]
      /\ Copying(w)' => \/ Copying(w) /\ UNCHANGED resolving[w]
                       \/ resolving'[w].document.id \in Used' \ Used
      /\ resolving'[w].at = "called" =>
           UNCHANGED resolving[w] \/ resolving'[w].document.id \in Used' \ Used
  BY <1>5 DEF Copied, Copying, Answered, Idle
<1>7. SentInv(w)'
  BY <1>1, <1>3 DEF SentInv
<1>8. ToldInv(w)' /\ HeardInv(w)'
  <2>1. \A b \in Callers : hydration'[w][b].at \in {"listed", "answered"} =>
          hydration'[w][b] = hydration[w][b]
    BY DEF Idle
  <2>2. Written(w)' => TellsAll(store', spoiled', drain'[w].call.next, Learned(w)')
    BY <1>1, <1>3 DEF ToldInv, HeardInv, Written, Sent, Answered
  <2>3. Copied(w)' => Tells(store', spoiled', resolving'[w].document, 1)
    BY <1>1, <1>6 DEF ToldInv, HeardInv
  <2> QED BY <1>1, <1>4, <2>1, <2>2, <2>3 DEF ToldInv, HeardInv
<1>9. CopyApart(w)'
  <2>1. /\ Ids(cache'[w]) \subseteq Used /\ Ids(persisted'[w]) \subseteq Used
        /\ Sent(w) => Ids(drain[w].call.next) \subseteq Used
    BY <1>4, Known
  <2>2. CASE Copying(w) /\ UNCHANGED resolving[w]
    BY <1>1, <1>3, <1>4, <2>2 DEF CopyApart, Apart, Copying
  <2>3. CASE resolving'[w].document.id \in Used' \ Used
    BY <1>3, <1>4, <2>1, <2>3 DEF CopyApart, Apart
  <2> QED BY <1>6, <2>2, <2>3 DEF CopyApart, Apart
<1>10. Remembered(w)' \subseteq Remembered(w)
  <2>1. \A b \in Callers : hydration'[w][b].at \in {"listed", "answered"} =>
          hydration'[w][b] = hydration[w][b]
    BY DEF Idle
  <2>2. \A b \in Callers : hydration'[w][b].at \in {"listed", "answered"} =>
          Ids(hydration'[w][b].items) \subseteq Remembered(w)
    BY <2>1, Known
  <2>3. Written(w)' => Ids(drain'[w].call.next) \subseteq Remembered(w)
    BY <1>3, Known DEF Written, Sent, Answered
  <2>4. Copied(w)' => resolving'[w].document.id \in Remembered(w)
    BY <1>6, Known
  <2> QED BY <1>4, <2>2, <2>3, <2>4 DEF Remembered, Heard
<1>11. Drafts(w)' \subseteq Drafts(w) \cup (Used' \ Used)
  <2>1. Written(w)' = Written(w) /\ drain'[w] = drain[w]
    BY <1>3
  <2>2. Chosen(w)' \subseteq Chosen(w) \cup (Used' \ Used)
    BY <1>6 DEF Chosen
  <2>3. CASE w \notin overtaken /\ UNCHANGED <<cache[w], persisted[w], drain[w]>>
    BY <2>1, <2>2, <2>3 DEF Drafts
  <2>4. CASE drain[w] = Idle /\ Ids(cache'[w]) \subseteq Ids(persisted'[w])
    <3>1. Drafts(w)' \subseteq Chosen(w)'
      BY <2>1, <2>4 DEF Drafts, Idle
    <3> QED BY <2>2, <3>1 DEF Drafts
  <2> QED BY <1>4, <2>3, <2>4
<1> QED BY <1>2, <1>4, <1>5, <1>7, <1>8, <1>9, <1>10, <1>11, SoundKept

\* The answer of a hydration: what it brings, and what becomes of the resolution
\* and of the next ID.
LEMMA AnswerIs ==
  ASSUME TypedInv, ResolvesOnce, NEW w \in Workbenches, Refreshed(w) \/ Reloaded(w)
  PROVE  \E c \in Callers :
           /\ hydration[w][c].at = "answered" /\ UNCHANGED <<store, spoiled>>
           /\ \A b \in Callers : hydration'[w][b] = IF b = c THEN Idle ELSE hydration[w][b]
           /\ \/ /\ UNCHANGED <<cache[w], persisted[w], itemRev[w], drain[w], overtaken>>
              \/ /\ \/ cache'[w] = Documents(hydration[w][c].items)
                    \/ UNCHANGED cache[w] /\ dirty[w]
                 /\ persisted'[w] = Documents(hydration[w][c].items)
                 /\ itemRev'[w] = Revisions(hydration[w][c].items)
                 /\ \/ UNCHANGED drain[w]
                    \/ /\ drain[w] # Idle /\ drain'[w].at = drain[w].at
                       /\ drain'[w].call = drain[w].call
                 /\ w \notin overtaken' =>
                      /\ cache'[w] = Documents(hydration[w][c].items)
                      /\ UNCHANGED drain[w] /\ drain[w] = Idle /\ ~Copying(w)
           /\ \/ UNCHANGED <<resolving[w], created>>
              \/ resolving'[w] = Idle /\ UNCHANGED created
              \/ /\ created < Len(Items) /\ created' = created + 1
                 /\ resolving'[w].at = "called"
                 /\ resolving'[w].document.id = Items[created + 1]
<1>1. PICK c \in Callers :
        /\ hydration[w][c].at = "answered" /\ UNCHANGED <<store, spoiled>>
        /\ ApplyRemote(w, hydration[w][c], dirty[w])
        /\ hydration' = [hydration EXCEPT ![w][c] = Idle]
  BY DEF Refreshed, Reloaded, Callers
<1> DEFINE h == hydration[w][c]
<1>2. \A b \in Callers : hydration'[w][b] = IF b = c THEN Idle ELSE hydration[w][b]
  <2>1. /\ hydration = [v \in Workbenches |-> hydration[v]]
        /\ hydration[w] = [b \in Callers |-> hydration[w][b]]
    BY CallersOf DEF TypedInv, CallersTyped
  <2> QED BY <1>1, <2>1
<1>3. \/ UNCHANGED <<cache[w], persisted[w], itemRev[w], drain[w], overtaken>>
      \/ /\ \/ cache'[w] = Documents(h.items)
            \/ UNCHANGED cache[w] /\ dirty[w]
         /\ persisted'[w] = Documents(h.items) /\ itemRev'[w] = Revisions(h.items)
         /\ \/ UNCHANGED drain[w]
            \/ /\ drain[w] # Idle /\ drain'[w].at = drain[w].at
               /\ drain'[w].call = drain[w].call
         /\ w \notin overtaken' =>
              /\ cache'[w] = Documents(h.items)
              /\ UNCHANGED drain[w] /\ drain[w] = Idle /\ ~Copying(w)
  <2>1. CASE ~News(w, h)
    BY <1>1, <2>1 DEF ApplyRemote
  <2>2. CASE News(w, h)
    <3>1. /\ persisted' = [persisted EXCEPT ![w] = Documents(h.items)]
          /\ itemRev' = [itemRev EXCEPT ![w] = Revisions(h.items)]
          /\ cache' = IF dirty[w] THEN cache ELSE [cache EXCEPT ![w] = Documents(h.items)]
          /\ drain' = IF drain[w] = Idle THEN drain ELSE [drain EXCEPT ![w].attached = FALSE]
          /\ w \notin overtaken' => ~Writing(w) /\ ~Copying(w)
      BY <1>1, <2>2 DEF ApplyRemote
    <3>2. persisted'[w] = Documents(h.items) /\ itemRev'[w] = Revisions(h.items)
      BY <3>1 DEF TypedInv, CopiesTyped
    <3>3. \/ ~dirty[w] /\ cache'[w] = Documents(h.items)
          \/ dirty[w] /\ UNCHANGED cache[w]
      BY <3>1 DEF TypedInv, CopiesTyped
    <3>4. \/ drain[w] = Idle /\ UNCHANGED drain[w]
          \/ /\ drain[w] # Idle /\ drain'[w].at = drain[w].at
             /\ drain'[w].call = drain[w].call
      BY <3>1 DEF TypedInv, CallersTyped
    <3> QED BY <3>1, <3>2, <3>3, <3>4 DEF Writing
  <2> QED BY <2>1, <2>2
<1>4. \/ UNCHANGED <<resolving[w], created>>
      \/ resolving'[w] = Idle /\ UNCHANGED created
      \/ /\ created < Len(Items) /\ created' = created + 1
         /\ resolving'[w].at = "called" /\ resolving'[w].document.id = Items[created + 1]
  <2>1. CASE Refreshed(w)
    BY <2>1 DEF Refreshed
  <2>2. CASE Reloaded(w)
    BY <2>2 DEF Reloaded, TypedInv, CallersTyped
  <2> QED BY <2>1, <2>2
<1> HIDE DEF h
<1> QED BY <1>1, <1>2, <1>3, <1>4 DEF h

LEMMA AnsweredKeeps ==
  ASSUME TypedInv, TypedInv', LibraryInv, ResolvesOnce,
         NEW w \in Workbenches, OnlyOf(w), w \notin overtaken', Refreshed(w) \/ Reloaded(w)
  PROVE  LibraryInv'
BY AnswerIs, AnswerKeeps

LEMMA CopyStoredKeeps ==
  ASSUME TypedInv, TypedInv', LibraryInv,
         NEW w \in Workbenches, OnlyOf(w), w \notin overtaken', CopyStored(w)
  PROVE  LibraryInv'
<1> DEFINE s == persisted[w]
           d == resolving[w].document
           t == Append(s, d)
           revs == [id \in DOMAIN itemRev[w] \cup {d.id} |->
                      IF id = d.id THEN 1 ELSE itemRev[w][id]]
<1>1. /\ resolving[w].at = "stored" /\ drain[w] = Idle /\ w \notin overtaken
      /\ UNCHANGED <<store, drain, hydration, created, overtaken, spoiled>>
  BY DEF CopyStored, Writing
<1>2. /\ persisted'[w] = t /\ cache'[w] = t /\ itemRev'[w] = revs
      /\ resolving'[w].at = "saving"
  <2>1. persisted'[w] = t /\ cache'[w] = t /\ itemRev'[w] = revs
    BY DEF CopyStored, TypedInv, CopiesTyped
  <2>2. resolving'[w].at = "saving"
    <3>1. resolving[w] = [at |-> resolving[w].at, document |-> resolving[w].document,
                          coll |-> resolving[w].coll]
      BY <1>1, ResolvingIs
    <3>2. DOMAIN resolving[w] = {"at", "document", "coll"}
      BY <3>1
    <3> QED BY <3>2 DEF CopyStored, TypedInv, CallersTyped
  <2> QED BY <2>1, <2>2
<1>3. /\ StoreTyped /\ Used' = Used /\ CopyInv(w) /\ ToldInv(w) /\ HeardInv(w) /\ CopyApart(w)
      /\ s \in Seq(Document) /\ d \in Document
  BY <1>1, UsedKept, ResolvingIs DEF TypedInv, CopiesTyped, LibraryInv, Sound
<1>4. Advances(w)
  BY <1>1, <1>3, Stays
<1>5. /\ Copied(w) /\ Copying(w) /\ ~Sent(w)' /\ ~Written(w)' /\ ~Copied(w)' /\ ~Copying(w)'
      /\ drain'[w].at # "called" /\ resolving'[w].at # "called"
  BY <1>1, <1>2 DEF Copied, Copying, Sent, Written, Answered, Idle
<1>6. /\ Len(s) \in Nat /\ DOMAIN s = 1..Len(s)
      /\ DOMAIN t = 1..(Len(s) + 1) /\ t[Len(s) + 1] = d
      /\ \A k \in DOMAIN s : t[k] = s[k]
      /\ \A k \in DOMAIN t : k \in DOMAIN s \/ k = Len(s) + 1
  <2> HIDE DEF s, d
  <2> QED BY <1>3
<1>7. /\ \A k \in DOMAIN s : s[k].id # d.id
      /\ \A k, l \in DOMAIN s : s[k].id = s[l].id => k = l
      /\ DOMAIN itemRev[w] = Ids(s)
  <2>1. d.id \notin Ids(s)
    BY <1>3, <1>5 DEF CopyApart, Apart
  <2> QED BY <1>3, <2>1, DistinctMeans DEF CopyInv, Ids
<1> HIDE DEF t, s, d
<1>8. Ids(t) = Ids(s) \cup {d.id}
  <2>1. \A k \in DOMAIN s : k \in DOMAIN t
    BY <1>6
  <2>2. Len(s) + 1 \in DOMAIN t
    BY <1>6
  <2> QED BY <1>6, <2>1, <2>2 DEF Ids
<1>9. Distinct(t)
  <2>1. \A k, l \in DOMAIN t : t[k].id = t[l].id => k = l
    BY <1>6, <1>7
  <2> QED BY <2>1, DistinctMeans
<1>10. CopyInv(w)' /\ SentInv(w)' /\ CopyApart(w)'
  <2>1. Grown(t, t) /\ DOMAIN revs = Ids(t)
    BY <1>7, <1>8, <1>9, GrownSelf
  <2> HIDE DEF revs
  <2> QED BY <1>2, <1>5, <1>9, <2>1 DEF CopyInv, SentInv, CopyApart, Apart
<1>11. ToldInv(w)' /\ HeardInv(w)'
  <2>1. TellsAll(store, spoiled, t, revs)
    <3> SUFFICES ASSUME NEW k \in DOMAIN t PROVE Tells(store, spoiled, t[k], revs[t[k].id])
      BY DEF TellsAll
    <3>1. CASE k \in DOMAIN s
      <4>1. t[k] = s[k] /\ s[k].id \in Ids(s) /\ s[k].id # d.id
        BY <1>6, <1>7, <3>1 DEF Ids
      <4>2. revs[s[k].id] = itemRev[w][s[k].id]
        BY <1>7, <4>1
      <4>3. Tells(store, spoiled, s[k], itemRev[w][s[k].id])
        BY <1>3, <3>1 DEF ToldInv, HeardInv, TellsAll, s
      <4> QED BY <4>1, <4>2, <4>3
    <3>2. CASE k = Len(s) + 1
      <4>1. t[k] = d /\ revs[d.id] = 1
        BY <1>6, <3>2
      <4>2. Tells(store, spoiled, d, 1)
        BY <1>3, <1>5 DEF ToldInv, HeardInv, d
      <4> QED BY <4>1, <4>2
    <3> QED BY <1>6, <3>1, <3>2
  <2> HIDE DEF revs
  <2> QED BY <1>1, <1>2, <1>3, <1>5, <2>1 DEF ToldInv, HeardInv
<1>12. Remembered(w)' \subseteq Remembered(w)
  <2>1. Ids(t) \subseteq Remembered(w)
    BY <1>1, <1>5, <1>8, Known DEF s, d
  <2>2. \A c \in Callers : hydration'[w][c].at \in {"listed", "answered"} =>
          Ids(hydration'[w][c].items) \subseteq Remembered(w)
    BY <1>1, Known
  <2> QED BY <1>2, <1>5, <2>1, <2>2 DEF Remembered, Heard
<1>13. Drafts(w)' \subseteq Drafts(w)
  BY <1>2, <1>5 DEF Drafts, Chosen
<1> QED BY <1>3, <1>4, <1>10, <1>11, <1>12, <1>13, SoundKept

-----------------------------------------------------------------------------
(* The invariant is kept by the store.                                     *)

\* The store's item of an ID is the one at its index.
LEMMA ItemAt ==
  ASSUME NEW n, NEW s, Listing(s, n), NEW id \in Ids(s)
  PROVE  /\ \E k \in DOMAIN s : s[k].id = id
         /\ \A k \in DOMAIN s : s[k].id = id => At(s, id) = s[k]
         /\ At(s, id).id = id
BY ListingIs DEF Ids

\* What the four operations make of the items.
LEMMA UpdatedAt ==
  ASSUME StoreTyped, NEW q, CallTyped(q, revision), q.op = "update", Updatable(q)
  PROVE  /\ At(Updated(q), q.id)
              = [id |-> q.id, rev |-> q.expected + 1, text |-> At(q.next, q.id).text]
         /\ \A id \in Ids(store) : id # q.id => At(Updated(q), id) = At(store, id)
<1> DEFINE s == Updated(q)
           d == At(q.next, q.id)
<1>1. Listing(store, revision)
  BY DEF StoreTyped
<1>2. /\ Listing(s, revision + 1) /\ DOMAIN s = DOMAIN store
      /\ \A k \in DOMAIN store :
           s[k] = IF store[k].id = q.id
                  THEN [id |-> q.id, rev |-> q.expected + 1, text |-> d.text]
                  ELSE store[k]
      /\ Ids(s) = Ids(store) /\ q.id \in Ids(store)
  BY UpdatedTyped
<1>3. At(s, q.id) = [id |-> q.id, rev |-> q.expected + 1, text |-> d.text]
  <2>1. PICK k \in DOMAIN store : store[k].id = q.id
    BY <1>2 DEF Ids
  <2>2. s[k] = [id |-> q.id, rev |-> q.expected + 1, text |-> d.text]
    BY <1>2, <2>1
  <2>3. s[k].id = q.id
    BY <2>2
  <2>4. At(s, q.id) = s[k]
    BY <1>2, <2>1, <2>3, ItemAt
  <2> QED BY <2>2, <2>4
<1>4. \A id \in Ids(store) : id # q.id => At(s, id) = At(store, id)
  <2> SUFFICES ASSUME NEW id \in Ids(store), id # q.id PROVE At(s, id) = At(store, id)
    OBVIOUS
  <2>1. PICK k \in DOMAIN store : store[k].id = id
    BY DEF Ids
  <2>2. s[k] = store[k]
    BY <1>2, <2>1
  <2> QED BY <1>1, <1>2, <2>1, <2>2, ItemAt
<1> QED BY <1>3, <1>4

\* An item is added to the store, by a call or as a copy.
LEMMA CreateAdds ==
  ASSUME StoreTyped, NEW q, Creatable(q), At(q.next, q.id) \in Document, q.id \in ToSet(Items)
  PROVE  /\ Ids(Created(q)) = Ids(store) \cup {q.id} /\ q.id \notin Ids(store)
         /\ \A id \in Ids(store) : At(Created(q), id) = At(store, id)
         /\ At(Created(q), q.id) = [id |-> q.id, rev |-> 1, text |-> At(q.next, q.id).text]
         /\ \A id \in Ids(store) : At(store, id).rev \in Nat
<1> DEFINE s == Created(q)
           e == [id |-> q.id, rev |-> 1, text |-> At(q.next, q.id).text]
<1>1. /\ Listing(store, revision) /\ revision \in Nat
      /\ \A id \in Ids(store) : At(store, id).rev \in Nat
  BY StoreIs DEF StoreTyped
<1>2. /\ Listing(s, revision + 1) /\ DOMAIN s = 1..(Len(store) + 1)
      /\ \A k \in DOMAIN store : k \in DOMAIN s /\ s[k] = store[k]
      /\ s[Len(store) + 1] = e
      /\ Ids(s) = Ids(store) \cup {q.id} /\ q.id \notin Ids(store)
  BY CreatedTyped
<1>3. Len(store) + 1 \in DOMAIN s /\ e.id = q.id
  <2>1. Len(store) \in Nat
    BY <1>1, ListingIs
  <2> QED BY <1>2, <2>1
<1> HIDE DEF s, e
<1>4. At(s, q.id) = e
  BY <1>2, <1>3, ItemAt
<1>5. ASSUME NEW id \in Ids(store) PROVE At(s, id) = At(store, id)
  <2>1. PICK k \in DOMAIN store : store[k].id = id
    BY DEF Ids
  <2> QED BY <1>1, <1>2, <2>1, ItemAt
<1> QED BY <1>1, <1>2, <1>4, <1>5 DEF s, e

LEMMA ReorderedAt ==
  ASSUME StoreTyped, NEW q, CallTyped(q, revision), Reorderable(q)
  PROVE  /\ Ids(Reordered(q)) = Ids(store)
         /\ \A id \in Ids(store) : At(Reordered(q), id) = At(store, id)
<1> DEFINE s == Reordered(q)
<1>1. /\ Listing(s, revision + 1) /\ DOMAIN s = DOMAIN q.next /\ Ids(s) = Ids(store)
      /\ Ids(q.next) = Ids(store)
      /\ \A k \in DOMAIN q.next : s[k] = At(store, q.next[k].id) /\ s[k].id = q.next[k].id
  BY ReorderedTyped
<1> HIDE DEF s
<1>2. ASSUME NEW id \in Ids(store) PROVE At(s, id) = At(store, id)
  <2>1. PICK k \in DOMAIN q.next : q.next[k].id = id
    BY <1>1 DEF Ids
  <2>2. At(s, id) = s[k]
    BY <1>1, <2>1, ItemAt
  <2> QED BY <1>1, <2>1, <2>2
<1> QED BY <1>1, <1>2 DEF s

LEMMA ReplacedAt ==
  ASSUME StoreTyped, NEW q, CallTyped(q, revision), Replaceable(q)
  PROVE  \A id \in Ids(store) \cap Ids(Replaced(q)) :
           /\ \E k \in DOMAIN q.next :
                q.next[k].id = id /\ At(Replaced(q), id).text = q.next[k].text
           /\ \/ At(Replaced(q), id).rev = At(store, id).rev + 1
              \/ /\ At(Replaced(q), id).rev = At(store, id).rev
                 /\ At(Replaced(q), id).text = At(store, id).text
<1> DEFINE s == Replaced(q)
<1>1. /\ Listing(s, revision + 1) /\ DOMAIN s = DOMAIN q.next /\ Ids(s) = Ids(q.next)
      /\ \A k \in DOMAIN q.next :
           /\ s[k].id = q.next[k].id /\ s[k].text = q.next[k].text
           /\ s[k].rev = NewRevision(q.next[k])
  BY ReplacedTyped
<1> HIDE DEF s
<1>2. ASSUME NEW id \in Ids(store), id \in Ids(s)
      PROVE  /\ \E k \in DOMAIN q.next : q.next[k].id = id /\ At(s, id).text = q.next[k].text
             /\ \/ At(s, id).rev = At(store, id).rev + 1
                \/ At(s, id).rev = At(store, id).rev /\ At(s, id).text = At(store, id).text
  <2>1. PICK k \in DOMAIN q.next : q.next[k].id = id
    BY <1>1, <1>2 DEF Ids
  <2>2. At(s, id) = s[k]
    BY <1>1, <1>2, <2>1, ItemAt
  <2>3. At(s, id).text = q.next[k].text /\ At(s, id).rev = NewRevision(q.next[k])
    BY <1>1, <2>1, <2>2
  <2> QED BY <1>2, <2>1, <2>3 DEF NewRevision
<1> QED BY <1>2 DEF s

\* What any accepted call does: an item's revision grows with its text, and an ID
\* that is new to the store is one of the call's.
LEMMA AfterAt ==
  ASSUME StoreTyped, NEW q, CallTyped(q, revision), Accepts(q)
  PROVE  /\ \A id \in Ids(store) \cap Ids(After(q)) :
              LET d == At(store, id)
                  e == At(After(q), id) IN
              d.rev <= e.rev /\ (d.rev = e.rev => d.text = e.text)
         /\ Ids(After(q)) \ Ids(store) \subseteq Ids(q.next)
<1>1. \A id \in Ids(store) : At(store, id).rev \in Nat
  BY StoreIs
<1>2. CASE q.op = "update" /\ Updatable(q)
  <2>1. /\ After(q) = Updated(q) /\ Ids(Updated(q)) = Ids(store)
        /\ q.expected = At(store, q.id).rev
    BY <1>2, UpdatedTyped DEF After
  <2>2. /\ At(Updated(q), q.id)
             = [id |-> q.id, rev |-> q.expected + 1, text |-> At(q.next, q.id).text]
        /\ \A id \in Ids(store) : id # q.id => At(Updated(q), id) = At(store, id)
    BY <1>2, UpdatedAt
  <2>3. At(Updated(q), q.id).rev = q.expected + 1
    BY <2>2
  <2> QED BY <1>1, <2>1, <2>2, <2>3
<1>3. CASE q.op = "create" /\ Creatable(q)
  <2>1. q.id \in Ids(q.next)
    BY <1>3 DEF CallTyped
  <2>2. At(q.next, q.id) \in Document /\ q.id \in ToSet(Items)
    BY <2>1, NextIs DEF Document
  <2>3. /\ After(q) = Created(q) /\ Ids(Created(q)) = Ids(store) \cup {q.id}
        /\ \A id \in Ids(store) : At(Created(q), id) = At(store, id)
    BY <1>3, <2>2, CreateAdds DEF After
  <2> QED BY <1>1, <2>1, <2>3
<1>4. CASE q.op = "reorder" /\ Reorderable(q)
  <2>1. /\ After(q) = Reordered(q) /\ Ids(Reordered(q)) = Ids(store)
        /\ \A id \in Ids(store) : At(Reordered(q), id) = At(store, id)
    BY <1>4, ReorderedAt DEF After
  <2> QED BY <1>1, <2>1
<1>5. CASE q.op = "replace" /\ Replaceable(q)
  <2>1. After(q) = Replaced(q) /\ Ids(Replaced(q)) = Ids(q.next)
    BY <1>5, ReplacedTyped DEF After
  <2>2. \A id \in Ids(store) \cap Ids(Replaced(q)) :
          \/ At(Replaced(q), id).rev = At(store, id).rev + 1
          \/ /\ At(Replaced(q), id).rev = At(store, id).rev
             /\ At(Replaced(q), id).text = At(store, id).text
    BY <1>5, ReplacedAt
  <2> QED BY <1>1, <2>1, <2>2
<1> QED BY <1>2, <1>3, <1>4, <1>5 DEF Accepts

\* A revision that w expects, and that is the item's, stands for the text that w
\* has seen, and that its call contains.
LEMMA CurrentText ==
  ASSUME LibraryInv, NEW w \in Workbenches, w \notin overtaken, Sent(w),
         NEW id \in Ids(store) \ spoiled, id \in Ids(persisted[w]), itemRev[w][id] = At(store, id).rev
  PROVE  /\ \E k \in DOMAIN persisted[w] :
              persisted[w][k].id = id /\ persisted[w][k].text = At(store, id).text
         /\ \A m \in DOMAIN drain[w].call.next : drain[w].call.next[m].id = id =>
              At(store, id).text \subseteq drain[w].call.next[m].text
<1>1. PICK k \in DOMAIN persisted[w] : persisted[w][k].id = id
  BY DEF Ids
<1>2. Tells(store, spoiled, persisted[w][k], itemRev[w][id])
  BY <1>1 DEF LibraryInv, Sound, ToldInv, HeardInv, TellsAll
<1>3. persisted[w][k].text = At(store, id).text
  BY <1>1, <1>2 DEF Tells
<1>4. Grown(persisted[w], drain[w].call.next)
  BY DEF LibraryInv, Sound, SentInv
<1> QED BY <1>1, <1>3, <1>4 DEF Grown

\* What the new store s makes of the items, and of the IDs, of a call's documents.
Takes(q, docs, s) ==
  /\ \A id \in (Ids(store) \cap Ids(s)) \ spoiled :
       LET d == At(store, id)
           e == At(s, id) IN
       /\ d.rev <= e.rev /\ d.text \subseteq e.text
       /\ d.rev = e.rev => d.text = e.text
  /\ Ids(s) \ Ids(store) \subseteq Ids(q.next) \ Ids(docs)
  /\ Ids(q.next) \subseteq Ids(s) \cup Ids(docs)

LEMMA UpdateTakes ==
  ASSUME TypedInv, LibraryInv, NEW w \in Workbenches, w \notin overtaken, Sent(w),
         drain[w].call.op = "update", Updatable(drain[w].call),
         CallTyped(drain[w].call, revision)
  PROVE  LET q == drain[w].call IN
         /\ Takes(q, persisted[w], Updated(q))
         /\ \A k \in DOMAIN q.next : q.next[k].id = q.id =>
              Tells(Updated(q), spoiled, q.next[k], q.expected + 1)
<1> DEFINE q == drain[w].call
           s == Updated(q)
           d == At(q.next, q.id)
<1>1. /\ StoreTyped /\ revision \in Nat /\ SentInv(w)
      /\ \A id \in Ids(store) : At(store, id).rev \in Nat
  BY StoreIs DEF TypedInv, StoreTyped, LibraryInv, Sound
<1>2. /\ Ids(s) = Ids(store) /\ q.id \in Ids(store)
      /\ q.expected = At(store, q.id).rev /\ q.expected \in 1..revision
  BY <1>1, UpdatedTyped
<1>3. /\ Ids(q.next) = Ids(persisted[w]) /\ q.expected = itemRev[w][q.id]
      /\ q.id \in Ids(q.next) /\ Distinct(q.next)
  BY <1>1 DEF SentInv, Spares, CallTyped
<1>4. PICK m \in DOMAIN q.next : q.next[m].id = q.id /\ d = q.next[m]
  <2>1. q.next \in Seq(Document)
    BY DEF CallTyped
  <2> QED BY <1>3, <2>1, AtIndex
<1>5. q.id \notin spoiled => At(store, q.id).text \subseteq d.text
  <2>1. /\ q.id \in Ids(store) /\ q.id \in Ids(persisted[w])
        /\ itemRev[w][q.id] = At(store, q.id).rev
    BY <1>2, <1>3
  <2>2. q.id \notin spoiled => At(store, q.id).text \subseteq q.next[m].text
    <3> HIDE DEF d
    <3> QED BY <1>4, <2>1, CurrentText
  <2> QED BY <1>4, <2>2
<1>6. /\ At(s, q.id) = [id |-> q.id, rev |-> q.expected + 1, text |-> d.text]
      /\ \A id \in Ids(store) : id # q.id => At(s, id) = At(store, id)
  BY <1>1, UpdatedAt
<1> HIDE DEF s, d, q
<1>7. Takes(q, persisted[w], s)
  <2>1. ASSUME NEW id \in Ids(store) \ spoiled
        PROVE  /\ At(store, id).rev <= At(s, id).rev /\ At(store, id).text \subseteq At(s, id).text
               /\ At(store, id).rev = At(s, id).rev => At(store, id).text = At(s, id).text
    <3>1. CASE id = q.id
      <4>1. At(s, id).rev = q.expected + 1 /\ At(s, id).text = d.text
        BY <1>6, <3>1
      <4> QED BY <1>1, <1>2, <1>5, <3>1, <4>1
    <3>2. CASE id # q.id
      BY <1>1, <1>6, <3>2
    <3> QED BY <3>1, <3>2
  <2> QED BY <1>2, <1>3, <2>1 DEF Takes
<1>8. ASSUME NEW k \in DOMAIN q.next, q.next[k].id = q.id
      PROVE  Tells(s, spoiled, q.next[k], q.expected + 1)
  <2>1. q.next[k] = d
    BY <1>3, <1>4, <1>8, DistinctMeans
  <2>2. q.expected + 1 \in Nat
    BY <1>1, <1>2
  <2> QED BY <1>4, <1>6, <2>1, <2>2 DEF Tells
<1> QED BY <1>7, <1>8 DEF q, s

LEMMA CreateTakes ==
  ASSUME TypedInv, LibraryInv, NEW w \in Workbenches, w \notin overtaken, Sent(w),
         drain[w].call.op = "create", Creatable(drain[w].call),
         CallTyped(drain[w].call, revision)
  PROVE  LET q == drain[w].call IN
         /\ Takes(q, persisted[w], Created(q))
         /\ \A k \in DOMAIN q.next : q.next[k].id = q.id =>
              Tells(Created(q), spoiled, q.next[k], q.expected + 1)
<1> DEFINE q == drain[w].call
           s == Created(q)
           d == At(q.next, q.id)
<1>1. StoreTyped /\ SentInv(w)
  BY DEF TypedInv, LibraryInv, Sound
<1>2. /\ q.id \notin Ids(persisted[w]) /\ Ids(q.next) = Ids(persisted[w]) \cup {q.id}
      /\ Distinct(q.next) /\ q.next \in Seq(Document) /\ q.expected = 0
  BY <1>1 DEF SentInv, Spares, CallTyped
<1>3. PICK m \in DOMAIN q.next : q.next[m].id = q.id /\ d = q.next[m]
  BY <1>2, AtIndex
<1>4. d \in Document /\ q.id \in ToSet(Items)
  <2>1. d \in Document
    BY <1>2, AtIn
  <2> QED BY <1>3, <2>1 DEF Document
<1>5. /\ Ids(s) = Ids(store) \cup {q.id} /\ q.id \notin Ids(store)
      /\ \A id \in Ids(store) : At(s, id) = At(store, id)
      /\ At(s, q.id) = [id |-> q.id, rev |-> 1, text |-> d.text]
      /\ \A id \in Ids(store) : At(store, id).rev \in Nat
  BY <1>1, <1>4, CreateAdds
<1> HIDE DEF s, d, q
<1>6. Takes(q, persisted[w], s)
  BY <1>2, <1>5 DEF Takes
<1>7. ASSUME NEW k \in DOMAIN q.next, q.next[k].id = q.id
      PROVE  Tells(s, spoiled, q.next[k], q.expected + 1)
  <2>1. q.next[k] = d
    BY <1>2, <1>3, <1>7, DistinctMeans
  <2> QED BY <1>2, <1>3, <1>5, <2>1 DEF Tells
<1> QED BY <1>6, <1>7 DEF q, s

LEMMA ReorderTakes ==
  ASSUME TypedInv, NEW w \in Workbenches, Reorderable(drain[w].call),
         CallTyped(drain[w].call, revision)
  PROVE  Takes(drain[w].call, persisted[w], Reordered(drain[w].call))
<1> DEFINE q == drain[w].call
           s == Reordered(q)
<1>1. StoreTyped /\ \A id \in Ids(store) : At(store, id).rev \in Nat
  BY StoreIs DEF TypedInv
<1>2. Ids(s) = Ids(store) /\ \A id \in Ids(store) : At(s, id) = At(store, id)
  BY <1>1, ReorderedAt
<1>3. Ids(q.next) = Ids(store)
  BY DEF Reorderable
<1> HIDE DEF s, q
<1>4. Takes(q, persisted[w], s)
  BY <1>1, <1>2, <1>3 DEF Takes
<1> QED BY <1>4 DEF q, s

LEMMA ReplaceTakes ==
  ASSUME TypedInv, LibraryInv, NEW w \in Workbenches, w \notin overtaken, Sent(w),
         Replaceable(drain[w].call), CallTyped(drain[w].call, revision)
  PROVE  LET q == drain[w].call IN
         /\ Takes(q, persisted[w], Replaced(q))
         /\ TellsAll(Replaced(q), spoiled, q.next, Revisions(Replaced(q)))
         /\ Ids(Replaced(q)) = Ids(q.next)
         /\ \A id \in Ids(store) \ spoiled : \E k \in DOMAIN persisted[w] :
              persisted[w][k].id = id /\ persisted[w][k].text = At(store, id).text
<1> DEFINE q == drain[w].call
           s == Replaced(q)
<1>1. /\ StoreTyped /\ SentInv(w) /\ CopyInv(w) /\ revision \in Nat /\ Listing(store, revision)
      /\ q.revs = itemRev[w] /\ DOMAIN itemRev[w] = Ids(persisted[w])
      /\ \A id \in Ids(store) : At(store, id).rev \in Nat
  BY StoreIs DEF TypedInv, StoreTyped, LibraryInv, Sound, SentInv, CopyInv
<1>2. /\ Listing(s, revision + 1) /\ DOMAIN s = DOMAIN q.next /\ Ids(s) = Ids(q.next)
      /\ \A k \in DOMAIN q.next : s[k].id = q.next[k].id /\ s[k].text = q.next[k].text
      /\ Ids(store) = DOMAIN q.revs
      /\ \A id \in Ids(store) : q.revs[id] = At(store, id).rev
  BY <1>1, ReplacedTyped
<1>3. Ids(store) = Ids(persisted[w]) /\ \A id \in Ids(store) : itemRev[w][id] = At(store, id).rev
  BY <1>1, <1>2
<1>4. ASSUME NEW id \in Ids(store) \ spoiled
      PROVE  /\ \E k \in DOMAIN persisted[w] :
                  persisted[w][k].id = id /\ persisted[w][k].text = At(store, id).text
             /\ \A m \in DOMAIN q.next : q.next[m].id = id =>
                  At(store, id).text \subseteq q.next[m].text
  BY <1>3, CurrentText
<1>5. \A id \in Ids(store) \cap Ids(s) :
        /\ \E k \in DOMAIN q.next : q.next[k].id = id /\ At(s, id).text = q.next[k].text
        /\ \/ At(s, id).rev = At(store, id).rev + 1
           \/ At(s, id).rev = At(store, id).rev /\ At(s, id).text = At(store, id).text
  BY <1>1, ReplacedAt
<1> HIDE DEF s, q
<1>6. Takes(q, persisted[w], s)
  <2>1. ASSUME NEW id \in (Ids(store) \cap Ids(s)) \ spoiled
        PROVE  /\ At(store, id).rev <= At(s, id).rev /\ At(store, id).text \subseteq At(s, id).text
               /\ At(store, id).rev = At(s, id).rev => At(store, id).text = At(s, id).text
    <3>1. At(store, id).text \subseteq At(s, id).text
      BY <1>4, <1>5
    <3> QED BY <1>1, <1>5, <3>1
  <2> QED BY <1>2, <1>3, <2>1 DEF Takes
<1>7. TellsAll(s, spoiled, q.next, Revisions(s))
  <2> SUFFICES ASSUME NEW k \in DOMAIN q.next
               PROVE  Tells(s, spoiled, q.next[k], Revisions(s)[q.next[k].id])
    BY DEF TellsAll
  <2>1. At(s, s[k].id) = s[k] /\ s[k].rev \in 1..(revision + 1)
    BY <1>2, ListingIs
  <2>2. Revisions(s)[s[k].id] = s[k].rev
    <3>1. revision + 1 \in Nat
      BY <1>1
    <3> QED BY <1>2, <3>1, RevisionsOf
  <2>3. s[k].rev \in Nat
    BY <1>1, <2>1
  <2> QED BY <1>2, <2>1, <2>2, <2>3 DEF Tells
<1> QED BY <1>2, <1>4, <1>6, <1>7 DEF q, s

\* What w will have learned of the documents of its call, once it is accepted.
LEMMA ServeTells ==
  ASSUME TypedInv, StoreTyped', LibraryInv, NEW w \in Workbenches, w \notin overtaken,
         UNCHANGED spoiled, drain[w].at = "called", Accepts(drain[w].call), Advances(w),
         store' = After(drain[w].call), itemRev' = itemRev,
         drain'[w].call = drain[w].call, drain'[w].attached = drain[w].attached,
         drain'[w].revs = Revisions(store')
  PROVE  /\ TellsAll(store', spoiled', drain[w].call.next, Learned(w)')
         /\ DOMAIN Learned(w)' = Ids(drain[w].call.next)
<1> DEFINE q == drain[w].call
           f == [id \in DOMAIN itemRev[w] \cup {q.id} |->
                   IF id = q.id THEN q.expected + 1 ELSE itemRev[w][id]]
<1>1. /\ Sent(w) /\ drain[w].attached /\ Spares(q, persisted[w]) /\ Distinct(q.next)
      /\ DOMAIN itemRev[w] = Ids(persisted[w]) /\ CallTyped(q, revision)
  <2>1. Sent(w) /\ drain[w] # Idle
    BY DEF Sent, Idle
  <2> QED BY <2>1, DrainIs DEF LibraryInv, Sound, SentInv, CopyInv
<1>2. TellsAll(store', spoiled', persisted[w], itemRev[w])
  BY ToldKept
<1>3. ASSUME NEW k \in DOMAIN q.next, q.next[k] \in ToSet(persisted[w])
      PROVE  /\ Tells(store', spoiled', q.next[k], itemRev[w][q.next[k].id])
             /\ q.next[k].id \in DOMAIN itemRev[w]
  <2>1. PICK l \in DOMAIN persisted[w] : q.next[k] = persisted[w][l]
    BY <1>3 DEF ToSet
  <2> QED BY <1>1, <1>2, <2>1 DEF TellsAll, Ids
<1>4. CASE \/ q.op = "update" /\ Updatable(q)
           \/ q.op = "create" /\ Creatable(q)
  <2>1. Learned(w)' = f
    BY <1>1, <1>4 DEF Learned
  <2>2. \A k \in DOMAIN q.next : q.next[k].id = q.id =>
          Tells(store', spoiled', q.next[k], q.expected + 1)
    <3>1. CASE q.op = "update" /\ Updatable(q)
      <4>1. store' = Updated(q)
        BY <3>1 DEF After
      <4> QED BY <1>1, <3>1, <4>1, UpdateTakes
    <3>2. CASE q.op = "create" /\ Creatable(q)
      <4>1. store' = Created(q)
        BY <3>2 DEF After
      <4> QED BY <1>1, <3>2, <4>1, CreateTakes
    <3> QED BY <1>4, <3>1, <3>2
  <2>3. \A k \in DOMAIN q.next : q.next[k].id # q.id => q.next[k] \in ToSet(persisted[w])
    BY <1>1, <1>4 DEF Spares
  <2>4. ASSUME NEW k \in DOMAIN q.next PROVE Tells(store', spoiled', q.next[k], f[q.next[k].id])
    <3>1. CASE q.next[k].id = q.id
      <4>1. f[q.next[k].id] = q.expected + 1
        BY <3>1
      <4> HIDE DEF f
      <4> QED BY <2>2, <3>1, <4>1
    <3>2. CASE q.next[k].id # q.id
      <4>1. /\ Tells(store', spoiled', q.next[k], itemRev[w][q.next[k].id])
            /\ q.next[k].id \in DOMAIN itemRev[w]
        BY <1>3, <2>3, <3>2
      <4>2. f[q.next[k].id] = itemRev[w][q.next[k].id]
        BY <3>2, <4>1
      <4> HIDE DEF f
      <4> QED BY <4>1, <4>2
    <3> QED BY <3>1, <3>2
  <2>5. DOMAIN f = Ids(q.next)
    <3>1. Ids(q.next) = Ids(persisted[w]) \cup {q.id}
      BY <1>1, <1>4 DEF Spares, CallTyped
    <3> QED BY <1>1, <3>1
  <2> HIDE DEF f
  <2> QED BY <2>1, <2>4, <2>5 DEF TellsAll
<1>5. CASE q.op = "reorder" /\ Reorderable(q)
  <2>1. Learned(w)' = itemRev[w]
    BY <1>1, <1>5 DEF Learned
  <2>2. /\ Ids(q.next) = Ids(persisted[w])
        /\ \A k \in DOMAIN q.next : q.next[k] \in ToSet(persisted[w])
    BY <1>1, <1>5 DEF Spares
  <2> QED BY <1>1, <1>3, <2>1, <2>2 DEF TellsAll
<1>6. CASE q.op = "replace" /\ Replaceable(q)
  <2>1. Learned(w)' = Revisions(store') /\ store' = Replaced(q)
    BY <1>6 DEF Learned, After
  <2>2. /\ TellsAll(Replaced(q), spoiled, q.next, Revisions(Replaced(q)))
        /\ Ids(Replaced(q)) = Ids(q.next)
    BY <1>1, <1>6, ReplaceTakes
  <2>3. DOMAIN Revisions(store') = Ids(store')
    BY DEF Revisions
  <2> QED BY <2>1, <2>2, <2>3
<1> QED BY <1>4, <1>5, <1>6 DEF Accepts

LEMMA ServeKeeps ==
  ASSUME TypedInv, TypedInv', LibraryInv, NEW w \in Workbenches, OnlyOf(w),
         w \notin overtaken, Serve(w)
  PROVE  LibraryInv'
<1> DEFINE q == drain[w].call
<1>1. /\ drain[w].at = "called" /\ Sent(w) /\ ~Written(w) /\ drain[w] # Idle
      /\ UNCHANGED <<cache, persisted, itemRev, hydration, resolving, created>>
      /\ drain = [v \in Workbenches |-> drain[v]] /\ UNCHANGED <<overtaken, spoiled>>
  <2>1. /\ drain[w].at = "called"
        /\ UNCHANGED <<local, hydration, resolving, created, overtaken, spoiled>>
    BY DEF Serve
  <2>2. drain = [v \in Workbenches |-> drain[v]]
    BY DEF TypedInv, CallersTyped
  <2> QED BY <2>1, <2>2 DEF local, Sent, Written, Answered, Idle
<1>2. CASE ~Accepts(q)
  <2>1. UNCHANGED store /\ drain' = [drain EXCEPT ![w].at = "refused"]
    BY <1>2 DEF Serve
  <2>2. ~Sent(w)'
    <3>1. drain[w] = [at |-> drain[w].at, call |-> drain[w].call,
                      attached |-> drain[w].attached]
      BY <1>1, DrainIs DEF Underway
    <3>2. DOMAIN drain[w] = {"at", "call", "attached"}
      BY <3>1
    <3>3. drain'[w].at = "refused"
      BY <1>1, <2>1, <3>2
    <3> QED BY <3>3 DEF Sent
  <2> QED BY <1>1, <2>1, <2>2, DrainEnds
<1>3. CASE Accepts(q)
  <2>1. /\ store' = After(q) /\ drain'[w].call = q /\ drain'[w].attached = drain[w].attached
        /\ drain'[w].revs = Revisions(store') /\ drain'[w].at \in {"committed", "stored"}
    BY <1>1, <1>3 DEF Serve
  <2>2. /\ StoreTyped /\ StoreTyped' /\ Used' = Used /\ CopyInv(w)' /\ CallTyped(q, revision)
        /\ SentInv(w) /\ CopyApart(w)
    BY <1>1, DrainIs, HalfKept, UsedKept DEF TypedInv, LibraryInv, Sound
  <2>3. /\ Sent(w)' /\ Written(w)' /\ drain'[w].at # "called"
        /\ Copied(w)' = Copied(w) /\ Copying(w)' = Copying(w)
    BY <1>1, <2>1 DEF Sent, Written, Answered, Copied, Copying
  <2>4. Takes(q, persisted[w], store')
    <3>1. CASE q.op = "update" /\ Updatable(q)
      BY <1>1, <2>1, <2>2, <3>1, UpdateTakes DEF After
    <3>2. CASE q.op = "create" /\ Creatable(q)
      BY <1>1, <2>1, <2>2, <3>2, CreateTakes DEF After
    <3>3. CASE q.op = "reorder" /\ Reorderable(q)
      BY <1>1, <2>1, <2>2, <3>3, ReorderTakes DEF After
    <3>4. CASE q.op = "replace" /\ Replaceable(q)
      BY <1>1, <2>1, <2>2, <3>4, ReplaceTakes DEF After
    <3> QED BY <1>3, <3>1, <3>2, <3>3, <3>4 DEF Accepts
  <2>5. Ids(store') \ Ids(store) \subseteq Ids(q.next) \ Ids(persisted[w])
    BY <2>4 DEF Takes
  <2>6. Ids(q.next) \ Ids(persisted[w]) \subseteq Drafts(w)
    BY <1>1 DEF Drafts, Chosen
  <2>7. Drafts(w)' \cap Ids(q.next) = {}
    <3>1. resolving'[w].at = "called" => resolving'[w].document.id \notin Ids(q.next)
      BY <1>1, <2>2 DEF CopyApart, Apart, Copying
    <3> QED BY <1>1, <2>1, <2>3, <3>1 DEF Drafts, Chosen
  <2>8. Drafts(w)' \subseteq Drafts(w)
    BY <1>1, <2>1, <2>3 DEF Drafts, Chosen
  <2>9. Advances(w)
    <3>1. Ids(store') \ Ids(store) \subseteq Drafts(w) \ Drafts(w)'
      BY <2>5, <2>6, <2>7
    <3> QED BY <1>1, <2>4, <3>1, Known DEF Takes, Advances
  <2>10. TellsAll(store', spoiled', q.next, Learned(w)') /\ DOMAIN Learned(w)' = Ids(q.next)
    BY <1>1, <1>3, <2>1, <2>2, <2>9, ServeTells
  <2>11. SentInv(w)'
    BY <1>1, <2>1, <2>2, <2>3, <2>10 DEF SentInv
  <2>12. ToldInv(w)' /\ HeardInv(w)'
    <3>1. /\ TellsAll(store', spoiled', persisted[w], itemRev[w])
          /\ Copied(w) => Tells(store', spoiled', resolving[w].document, 1)
          /\ \A c \in Callers : hydration[w][c].at \in {"listed", "answered"} =>
               TellsItems(store', spoiled', hydration[w][c].items)
      BY <2>2, <2>9, ToldKept
    <3> QED BY <1>1, <2>1, <2>3, <2>10, <3>1 DEF ToldInv, HeardInv
  <2>13. CopyApart(w)'
    BY <1>1, <2>1, <2>2, <2>3 DEF CopyApart, Apart
  <2>14. Remembered(w)' \subseteq Remembered(w) \cup Ids(store) \cup Ids(store')
    <3>1. Ids(q.next) \subseteq Ids(store') \cup Ids(persisted[w])
      BY <2>4 DEF Takes
    <3>2. Ids(persisted[w]) \subseteq Remembered(w)
      BY Known
    <3>3. \A c \in Callers : hydration[w][c].at \in {"listed", "answered"} =>
            Ids(hydration[w][c].items) \subseteq Remembered(w)
      BY Known
    <3>4. Copied(w) => resolving[w].document.id \in Remembered(w)
      BY Known
    <3>5. Ids(drain'[w].call.next) \subseteq Remembered(w) \cup Ids(store')
      BY <2>1, <3>1, <3>2
    <3>6. UNION {IF hydration'[w][c].at \in {"listed", "answered"}
                 THEN Ids(hydration'[w][c].items) ELSE {} : c \in Callers} \subseteq Remembered(w)
      BY <1>1, <3>3
    <3>7. (IF Copied(w)' THEN {resolving'[w].document.id} ELSE {}) \subseteq Remembered(w)
      BY <1>1, <2>3, <3>4
    <3> QED BY <1>1, <2>3, <3>2, <3>5, <3>6, <3>7 DEF Remembered, Heard
  <2> QED BY <1>1, <2>2, <2>8, <2>9, <2>11, <2>12, <2>13, <2>14, SoundKept
<1> QED BY <1>2, <1>3

\* A copy is created: it was a draft, and is apart from what its workbench shows.
LEMMA CopyAdds ==
  ASSUME TypedInv, TypedInv', LibraryInv, NEW w \in Workbenches, CreateCopy(w)
  PROVE  LET d == resolving[w].document IN
         /\ UNCHANGED <<cache, persisted, itemRev, drain, hydration, created, overtaken, spoiled>>
         /\ resolving[w].at = "called"
         /\ resolving'[w].at = "committed" /\ resolving'[w].document = d
         /\ Ids(store') = Ids(store) \cup {d.id} /\ d.id \notin Ids(store)
         /\ d.id \in Drafts(w) /\ d.id \notin Drafts(w)' /\ Drafts(w)' \subseteq Drafts(w)
         /\ Advances(w) /\ Tells(store', spoiled', d, 1)
<1> DEFINE d == resolving[w].document
           q == [id |-> d.id, next |-> <<d>>]
<1>1. /\ resolving[w].at = "called" /\ Creatable(q) /\ store' = Created(q)
      /\ resolving' = [resolving EXCEPT ![w].at = "committed"]
      /\ UNCHANGED <<cache, persisted, itemRev, drain, hydration, created, overtaken, spoiled>>
  BY DEF CreateCopy, local, history
<1>2. /\ d \in Document /\ d.id \in ToSet(Items)
      /\ resolving[w] = [at |-> "called", document |-> d]
  BY <1>1, ResolvingIs
<1>3. resolving'[w].at = "committed" /\ resolving'[w].document = d
  <2>1. DOMAIN resolving[w] = {"at", "document"}
    BY <1>2
  <2> QED BY <1>1, <2>1 DEF TypedInv, CallersTyped
<1>4. At(q.next, q.id) = d
  <2>1. /\ q.next \in Seq(Document) /\ q.id \in Ids(q.next)
        /\ \A k \in DOMAIN q.next : q.next[k] = d
    BY <1>2 DEF Ids
  <2> HIDE DEF q
  <2> QED BY <2>1, AtIndex
<1>5. /\ Ids(store') = Ids(store) \cup {d.id} /\ d.id \notin Ids(store)
      /\ \A id \in Ids(store) : At(store', id) = At(store, id)
      /\ At(store', d.id) = [id |-> d.id, rev |-> 1, text |-> d.text]
      /\ \A id \in Ids(store) : At(store, id).rev \in Nat
  <2>1. q.id = d.id /\ At(q.next, q.id) \in Document /\ q.id \in ToSet(Items)
    BY <1>2, <1>4
  <2> HIDE DEF q
  <2> QED BY <1>1, <1>4, <2>1, CreateAdds DEF TypedInv
<1> HIDE DEF q
<1>6. d.id \in Drafts(w) /\ d.id \notin Drafts(w)' /\ Drafts(w)' \subseteq Drafts(w)
  <2>1. d.id \notin Ids(cache[w]) /\ (drain[w].at = "called" => d.id \notin Ids(drain[w].call.next))
    <3>1. Apart(w)
      BY <1>1 DEF LibraryInv, Fresh, ChosenApart
    <3> QED BY <3>1 DEF Apart, Sent
  <2>2. Written(w)' = Written(w)
    BY <1>1 DEF Written
  <2> QED BY <1>1, <1>3, <2>1, <2>2 DEF Drafts, Chosen
<1>7. Advances(w)
  <2>1. d.id \in Holds(w)
    BY <1>6, Known
  <2> QED BY <1>1, <1>5, <1>6, <2>1 DEF Advances
<1>8. Tells(store', spoiled', d, 1)
  BY <1>5 DEF Tells
<1> QED BY <1>1, <1>3, <1>5, <1>6, <1>7, <1>8

LEMMA CreateCopyKeeps ==
  ASSUME TypedInv, TypedInv', LibraryInv, NEW w \in Workbenches, OnlyOf(w),
         w \notin overtaken, CreateCopy(w)
  PROVE  LibraryInv'
<1> DEFINE d == resolving[w].document
<1>1. /\ UNCHANGED <<cache, persisted, itemRev, drain, hydration, created, overtaken, spoiled>>
      /\ resolving[w].at = "called"
      /\ resolving'[w].at = "committed" /\ resolving'[w].document = d
      /\ Ids(store') = Ids(store) \cup {d.id}
      /\ Drafts(w)' \subseteq Drafts(w) /\ Advances(w) /\ Tells(store', spoiled', d, 1)
  BY CopyAdds
<1>2. /\ StoreTyped /\ StoreTyped' /\ Used' = Used /\ CopyInv(w)'
      /\ SentInv(w) /\ CopyApart(w)
  BY <1>1, HalfKept, UsedKept DEF TypedInv, LibraryInv, Sound
<1>3. /\ Sent(w)' = Sent(w) /\ Written(w)' = Written(w) /\ Learned(w)' = Learned(w)
      /\ Copying(w) /\ Copying(w)' /\ Copied(w)'
  BY <1>1 DEF Sent, Written, Answered, Learned, Copying, Copied
<1>4. SentInv(w)'
  BY <1>1, <1>2, <1>3 DEF SentInv
<1>5. ToldInv(w)' /\ HeardInv(w)'
  <2>1. /\ TellsAll(store', spoiled', persisted[w], itemRev[w])
        /\ Written(w) => TellsAll(store', spoiled', drain[w].call.next, Learned(w))
        /\ \A c \in Callers : hydration[w][c].at \in {"listed", "answered"} =>
             TellsItems(store', spoiled', hydration[w][c].items)
    BY <1>1, <1>2, ToldKept
  <2> QED BY <1>1, <1>3, <2>1 DEF ToldInv, HeardInv
<1>6. CopyApart(w)'
  BY <1>1, <1>2, <1>3 DEF CopyApart, Apart
<1>7. Remembered(w)' \subseteq Remembered(w) \cup Ids(store) \cup Ids(store')
  <2>1. /\ Ids(persisted[w]) \subseteq Remembered(w)
        /\ Written(w) => Ids(drain[w].call.next) \subseteq Remembered(w)
        /\ \A c \in Callers : hydration[w][c].at \in {"listed", "answered"} =>
             Ids(hydration[w][c].items) \subseteq Remembered(w)
    BY Known
  <2> QED BY <1>1, <1>3, <2>1 DEF Remembered, Heard
<1> QED BY <1>1, <1>2, <1>4, <1>5, <1>6, <1>7, SoundKept

-----------------------------------------------------------------------------
(* The invariant is kept by the steps of a workbench that is overtaken:    *)
(* what it believes no longer counts, but the IDs it holds do, and what it *)
(* hears.                                                                  *)

\* What it shows, believes or sends.
Shown(w) ==
  UNION {Ids(cache[w]), Ids(persisted[w]), IF Sent(w) THEN Ids(drain[w].call.next) ELSE {}}

LEMMA ShownIs ==
  ASSUME NEW w \in Workbenches
  PROVE  /\ Apart(w) <=> resolving[w].document.id \notin Shown(w)
         /\ Holds(w) = Shown(w) \cup IF Copying(w) THEN {resolving[w].document.id} ELSE {}
BY DEF Apart, Holds, Shown

\* It drafts the copy that it is about to create, and no other.
LEMMA OvertakenIs ==
  ASSUME NEW w \in overtaken
  PROVE  Remembered(w) = Heard(w) /\ Drafts(w) = Chosen(w)
BY DEF Remembered, Drafts

\* It writes nothing.
LEMMA OvertakenKeeps ==
  ASSUME TypedInv, TypedInv', LibraryInv, NEW w \in Workbenches, OnlyOf(w),
         w \in overtaken', UNCHANGED <<store, spoiled>>, Used \subseteq Used',
         Shown(w)' \subseteq Shown(w) \cup Seen \cup (Used' \ Used),
         \A c \in Callers : hydration'[w][c].at \in {"listed", "answered"} =>
           \/ hydration'[w][c].items = store
           \/ /\ hydration[w][c].at \in {"listed", "answered"}
              /\ hydration'[w][c].items = hydration[w][c].items,
         \/ ~Copying(w)'
         \/ UNCHANGED resolving[w]
         \/ /\ Copied(w) /\ resolving'[w].document = resolving[w].document
            /\ resolving'[w].at # "called"
         \/ /\ resolving'[w].at = "called" /\ resolving'[w].document.id \in Used' \ Used
            /\ Shown(w)' \subseteq Used
  PROVE  LibraryInv'
<1>1. StoreTyped /\ HeardInv(w) /\ ChosenApart(w)
  BY DEF TypedInv, LibraryInv, Fresh
<1>2. Advances(w)
  BY <1>1, Stays
<1>3. /\ Copied(w)' => Copied(w) /\ resolving'[w].document = resolving[w].document
      /\ resolving'[w].at = "called" =>
           \/ UNCHANGED resolving[w]
           \/ resolving'[w].document.id \in Used' \ Used /\ Shown(w)' \subseteq Used
      /\ Copying(w)' =>
           \/ Copying(w) /\ resolving'[w].document = resolving[w].document
           \/ resolving'[w].document.id \in Used' \ Used
  BY DEF Copied, Copying, Answered
<1>4. HeardInv(w)'
  <2>1. TellsItems(store, spoiled, store)
    BY <1>1, StoreIs, ListingIs DEF TellsItems, Tells
  <2>2. \A c \in Callers : hydration'[w][c].at \in {"listed", "answered"} =>
          TellsItems(store', spoiled', hydration'[w][c].items)
    BY <1>1, <2>1 DEF HeardInv
  <2> QED BY <1>1, <1>3, <2>2 DEF HeardInv
<1>5. Chosen(w) \subseteq Used /\ Chosen(w) \cap Seen = {}
  <2>1. Chosen(w) \subseteq Drafts(w)
    BY DEF Drafts
  <2> QED BY <2>1, Known
<1>6. ChosenApart(w)'
  <2>1. ASSUME resolving'[w].at = "called", UNCHANGED resolving[w]
        PROVE  resolving'[w].document.id \notin Shown(w)'
    <3>1. resolving[w].document.id \in Chosen(w) /\ resolving[w].document.id \notin Shown(w)
      BY <1>1, <2>1, ShownIs DEF Chosen, ChosenApart
    <3> QED BY <1>5, <2>1, <3>1
  <2>2. resolving'[w].at = "called" => resolving'[w].document.id \notin Shown(w)'
    BY <1>3, <2>1
  <2> QED BY <2>2 DEF ChosenApart, Apart, Shown
<1>7. Remembered(w)' \subseteq Remembered(w) \cup Ids(store)
  <2>1. \A c \in Callers : hydration'[w][c].at \in {"listed", "answered"} =>
          Ids(hydration'[w][c].items) \subseteq Remembered(w) \cup Ids(store)
    BY Known
  <2>2. Copied(w)' => resolving'[w].document.id \in Remembered(w)
    BY <1>3, Known
  <2>3. Heard(w)' \subseteq Remembered(w) \cup Ids(store)
    BY <2>1, <2>2 DEF Heard
  <2> QED BY <2>3 DEF Remembered
<1>8. Drafts(w)' \subseteq Drafts(w) \cup (Used' \ Used)
  <2>1. Drafts(w)' = Chosen(w)' /\ Chosen(w) \subseteq Drafts(w)
    BY DEF Drafts
  <2> QED BY <1>3, <2>1 DEF Chosen
<1>9. Holds(w)' \subseteq Holds(w) \cup Seen \cup (Used' \ Used)
  <2>1. Shown(w) \subseteq Holds(w) /\ (Copying(w) => resolving[w].document.id \in Holds(w))
    BY ShownIs
  <2>2. Holds(w)' = Shown(w)' \cup IF Copying(w)' THEN {resolving'[w].document.id} ELSE {}
    BY DEF Holds, Shown
  <2> QED BY <1>3, <2>1, <2>2
<1> QED BY <1>2, <1>4, <1>6, <1>7, <1>8, <1>9, InvKept

LEMMA OvertakenEdits ==
  ASSUME TypedInv, TypedInv', LibraryInv, NEW w \in Workbenches, OnlyOf(w), w \in overtaken,
         Edit(w) \/ Add(w) \/ Delete(w) \/ Reorder(w)
  PROVE  LibraryInv'
<1> DEFINE s == cache[w]
<1>1. s \in Seq(Document) /\ Len(s) \in Nat /\ DOMAIN s = 1..Len(s)
  <2>1. s \in Seq(Document)
    BY DEF TypedInv, CopiesTyped
  <2> HIDE DEF s
  <2> QED BY <2>1, SeqIs
<1>2. UNCHANGED created => Used' = Used
  BY DEF Used
<1>3. ASSUME NEW t, Set(w, t), Used \subseteq Used', Ids(t) \subseteq Ids(s) \cup (Used' \ Used)
      PROVE  LibraryInv'
  <2>1. /\ cache'[w] = t
        /\ UNCHANGED <<store, persisted, drain, hydration, resolving, overtaken, spoiled>>
    BY <1>3 DEF Set, history, TypedInv, CopiesTyped
  <2>2. Shown(w)' \subseteq Shown(w) \cup (Used' \ Used)
    <3>1. Sent(w)' = Sent(w)
      BY <2>1 DEF Sent
    <3> QED BY <1>3, <2>1, <3>1 DEF Shown
  <2> QED BY <1>3, <2>1, <2>2, OvertakenKeeps
\* A list of documents of s.
<1>4. ASSUME NEW t, Set(w, t), UNCHANGED created,
             \A k \in DOMAIN t : \E l \in DOMAIN s : t[k].id = s[l].id
      PROVE  LibraryInv'
  <2>1. Ids(t) \subseteq Ids(s)
    BY <1>4 DEF Ids
  <2> QED BY <1>2, <1>3, <1>4, <2>1
<1>5. CASE Edit(w)
  <2>1. PICK k \in DOMAIN s :
          Set(w, [s EXCEPT ![k].text = @ \cup {edits + 1}]) /\ UNCHANGED created
    BY <1>5 DEF Edit
  <2> DEFINE t == [s EXCEPT ![k].text = @ \cup {edits + 1}]
  <2>2. edits < MaxEdits
    BY <2>1 DEF Set
  <2>3. t = [l \in DOMAIN s |-> IF l = k THEN [id |-> s[l].id, text |-> s[l].text \cup {edits + 1}]
                                ELSE s[l]]
    BY <2>2, EditedDocs
  <2> HIDE DEF t
  <2>4. \A l \in DOMAIN t : l \in DOMAIN s /\ t[l].id = s[l].id
    BY <2>3
  <2>5. Set(w, t)
    BY <2>1 DEF t
  <2> QED BY <1>4, <2>1, <2>4, <2>5
<1>6. CASE Delete(w)
  <2>1. PICK k \in DOMAIN s : Set(w, RemoveAt(s, k)) /\ UNCHANGED created
    BY <1>6 DEF Delete
  <2> DEFINE t == RemoveAt(s, k)
  <2>2. \A l \in DOMAIN t : \E m \in DOMAIN s : t[l] = s[m]
    <3>1. /\ DOMAIN t = 1..(Len(s) - 1)
          /\ \A l \in 1..(Len(s) - 1) : t[l] = s[IF l < k THEN l ELSE l + 1]
      <4> HIDE DEF s
      <4> QED BY <1>1, RemovedDocs
    <3> HIDE DEF s, t
    <3>2. \A l \in 1..(Len(s) - 1) : (IF l < k THEN l ELSE l + 1) \in DOMAIN s
      BY <1>1
    <3> QED BY <3>1, <3>2
  <2> HIDE DEF t
  <2>3. Set(w, t)
    BY <2>1 DEF t
  <2> QED BY <1>4, <2>1, <2>2, <2>3
<1>7. CASE Reorder(w)
  <2> DEFINE t == Append(Tail(s), Head(s))
  <2>1. Len(s) > 1 /\ Set(w, t) /\ UNCHANGED created
    BY <1>7 DEF Reorder
  <2>2. \A l \in DOMAIN t : \E m \in DOMAIN s : t[l] = s[m]
    <3>1. /\ DOMAIN t = 1..Len(s)
          /\ \A l \in 1..Len(s) : t[l] = s[IF l = Len(s) THEN 1 ELSE l + 1]
      <4> HIDE DEF s
      <4> QED BY <1>1, <2>1, RotatedDocs
    <3> HIDE DEF s, t
    <3>2. ASSUME NEW l \in DOMAIN t PROVE \E m \in DOMAIN s : t[l] = s[m]
      <4>1. Len(s) \in Nat /\ Len(s) > 1 /\ DOMAIN s = 1..Len(s) /\ l \in 1..Len(s)
        BY <1>1, <2>1, <3>1
      <4>2. CASE l = Len(s)
        <5>1. 1 \in 1..Len(s)
          BY <4>1
        <5>2. t[l] = s[1]
          BY <3>1, <4>1, <4>2
        <5> QED BY <4>1, <5>1, <5>2
      <4>3. CASE l # Len(s)
        <5>1. l + 1 \in 1..Len(s)
          BY <4>1, <4>3
        <5> QED BY <3>1, <4>1, <4>3, <5>1
      <4> QED BY <4>2, <4>3
    <3> QED BY <3>2
  <2> HIDE DEF t
  <2>3. \A l \in DOMAIN t : \E m \in DOMAIN s : t[l].id = s[m].id
    BY <2>2
  <2> QED BY <1>4, <2>1, <2>3
<1>8. CASE Add(w)
  <2> DEFINE d == [id |-> Items[created + 1], text |-> {edits + 1}]
             t == Append(s, d)
  <2>1. created < Len(Items) /\ Set(w, t) /\ created' = created + 1
    BY <1>8 DEF Add
  <2>2. d.id \notin Used /\ Used' = Used \cup {d.id}
    BY <2>1, NextId DEF TypedInv
  <2>3. \A k \in DOMAIN t : t[k] = d \/ \E l \in DOMAIN s : t[k] = s[l]
    <3> HIDE DEF s, d
    <3> QED BY <1>1
  <2> HIDE DEF t, d
  <2>4. Ids(t) \subseteq Ids(s) \cup (Used' \ Used)
    BY <2>2, <2>3 DEF Ids
  <2> QED BY <1>3, <2>1, <2>2, <2>4
<1> QED BY <1>5, <1>6, <1>7, <1>8

LEMMA OvertakenQuiet ==
  ASSUME TypedInv, TypedInv', LibraryInv, NEW w \in Workbenches, OnlyOf(w), w \in overtaken,
         Quiet(w) \/ ReadRevision(w) \/ Stored(w)
  PROVE  LibraryInv'
<1>1. CASE Quiet(w)
  <2>1. /\ UNCHANGED <<store, created, cache, persisted, itemRev, overtaken, spoiled>>
        /\ \/ UNCHANGED <<hydration, resolving>> /\ (Turn(w) \/ ~Sent(w)')
           \/ UNCHANGED drain /\ CallsGoOn(w)
    BY <1>1, QuietIs
  <2>2. Shown(w)' \subseteq Shown(w)
    <3>1. CASE Turn(w)
      <4>1. drain'[w].call = Request(w)
        BY <3>1 DEF Turn, TypedInv, CallersTyped
      <4>2. drain'[w].call.next = cache[w]
        BY <4>1, RequestIs DEF TypedInv
      <4> QED BY <2>1, <4>2 DEF Shown
    <3>2. CASE ~Sent(w)'
      BY <2>1, <3>2 DEF Shown
    <3>3. CASE UNCHANGED drain
      <4>1. Sent(w)' = Sent(w)
        BY <3>3 DEF Sent
      <4> QED BY <2>1, <3>3, <4>1 DEF Shown
    <3> QED BY <2>1, <3>1, <3>2, <3>3
  <2> QED BY <2>1, <2>2, UsedKept, OvertakenKeeps DEF CallsGoOn
<1>2. CASE ReadRevision(w) \/ Stored(w)
  <2>1. /\ UNCHANGED <<store, created, cache, hydration, resolving, overtaken, spoiled>>
        /\ Sent(w) /\ persisted'[w] \in {persisted[w], drain[w].call.next}
    <3>1. persisted'[w] \in {persisted[w], drain[w].call.next}
      BY <1>2 DEF ReadRevision, Stored, local, TypedInv, CopiesTyped
    <3> QED BY <1>2, <3>1 DEF ReadRevision, Stored, Sent, local, history
  <2>2. drain'[w].call = drain[w].call
    BY <1>2 DEF ReadRevision, Stored, TypedInv, CallersTyped
  <2>3. Shown(w)' \subseteq Shown(w)
    BY <2>1, <2>2 DEF Shown
  <2> QED BY <2>1, <2>3, UsedKept, OvertakenKeeps
<1> QED BY <1>1, <1>2

LEMMA OvertakenLearns ==
  ASSUME TypedInv, TypedInv', LibraryInv, ResolvesOnce, NEW w \in Workbenches, OnlyOf(w),
         w \in overtaken', Refreshed(w) \/ Reloaded(w) \/ CopyStored(w)
  PROVE  LibraryInv'
<1>1. CASE Refreshed(w) \/ Reloaded(w)
  <2>1. PICK c \in Callers :
          /\ hydration[w][c].at = "answered" /\ UNCHANGED <<store, spoiled>>
          /\ \A b \in Callers : hydration'[w][b] = IF b = c THEN Idle ELSE hydration[w][b]
          /\ \/ UNCHANGED <<cache[w], persisted[w], drain[w]>>
             \/ /\ \/ cache'[w] = Documents(hydration[w][c].items)
                   \/ UNCHANGED cache[w]
                /\ persisted'[w] = Documents(hydration[w][c].items)
                /\ \/ UNCHANGED drain[w]
                   \/ drain'[w].at = drain[w].at /\ drain'[w].call = drain[w].call
          /\ \/ UNCHANGED <<resolving[w], created>>
             \/ resolving'[w] = Idle /\ UNCHANGED created
             \/ /\ created < Len(Items) /\ created' = created + 1
                /\ resolving'[w].at = "called"
                /\ resolving'[w].document.id = Items[created + 1]
    BY <1>1, AnswerIs
  <2> DEFINE items == hydration[w][c].items
  <2>2. Ids(Documents(items)) \subseteq Seen
    <3>1. revision \in Nat /\ Listing(items, revision)
      BY <2>1, HydrationIs DEF TypedInv, StoreTyped
    <3>2. Ids(Documents(items)) = Ids(items)
      <4> HIDE DEF items
      <4> QED BY <3>1, DocumentsOf
    <3> QED BY <2>1, <3>2, Known
  <2> HIDE DEF items
  <2>3. Shown(w)' \subseteq Shown(w) \cup Seen
    <3>1. /\ cache'[w] \in {cache[w], Documents(items)}
          /\ persisted'[w] \in {persisted[w], Documents(items)}
          /\ Sent(w)' = Sent(w) /\ drain'[w].call = drain[w].call
      BY <2>1 DEF Sent, items
    <3> QED BY <2>2, <3>1 DEF Shown
  <2>4. Shown(w) \subseteq Used /\ Seen \subseteq Used
    BY ShownIs, Known
  <2>5. /\ Used \subseteq Used'
        /\ \/ UNCHANGED resolving[w]
           \/ resolving'[w] = Idle
           \/ /\ resolving'[w].at = "called"
              /\ resolving'[w].document.id \in Used' \ Used
    BY <2>1, UsedKept, NextId DEF TypedInv
  <2>6. \A b \in Callers : hydration'[w][b].at \in {"listed", "answered"} =>
          hydration'[w][b] = hydration[w][b]
    BY <2>1 DEF Idle
  <2>7. resolving'[w] = Idle => ~Copying(w)'
    BY DEF Copying, Idle
  <2> QED BY <2>1, <2>3, <2>4, <2>5, <2>6, <2>7, OvertakenKeeps
<1>2. CASE CopyStored(w)
  <2> DEFINE d == resolving[w].document
             s == persisted[w]
             t == Append(s, d)
  <2>1. /\ resolving[w].at = "stored"
        /\ UNCHANGED <<store, drain, hydration, created, spoiled>>
        /\ persisted'[w] = t /\ cache'[w] = t
    BY <1>2 DEF CopyStored, TypedInv, CopiesTyped
  <2>2. resolving'[w].at = "saving"
    <3>1. resolving[w] = [at |-> resolving[w].at, document |-> resolving[w].document,
                          coll |-> resolving[w].coll]
      BY <2>1, ResolvingIs
    <3>2. DOMAIN resolving[w] = {"at", "document", "coll"}
      BY <3>1
    <3> QED BY <1>2, <3>2 DEF CopyStored, TypedInv, CallersTyped
  <2>3. Ids(t) \subseteq Ids(s) \cup {d.id}
    <3>1. s \in Seq(Document)
      BY DEF TypedInv, CopiesTyped
    <3> HIDE DEF s, d
    <3>2. \A k \in DOMAIN t : t[k] = d \/ \E l \in DOMAIN s : t[k] = s[l]
      BY <3>1
    <3> QED BY <3>2 DEF Ids
  <2>4. d.id \in Seen
    BY <2>1, Known DEF Copied, Answered
  <2>5. Shown(w)' \subseteq Shown(w) \cup Seen
    <3>1. Sent(w)' = Sent(w)
      BY <2>1 DEF Sent
    <3> HIDE DEF t, d
    <3> QED BY <2>1, <2>3, <2>4, <3>1 DEF Shown, s
  <2>6. ~Copying(w)'
    BY <2>2 DEF Copying
  <2> QED BY <2>1, <2>5, <2>6, UsedKept, OvertakenKeeps
<1> QED BY <1>1, <1>2

\* A call of its is accepted, or refused, or its copy is created. What a call does
\* to an item that it should not is in spoiled.
LEMMA OvertakenWrites ==
  ASSUME TypedInv, TypedInv', LibraryInv, NEW w \in Workbenches, OnlyOf(w), w \in overtaken,
         Serve(w) \/ CreateCopy(w)
  PROVE  LibraryInv'
<1>1. /\ StoreTyped /\ StoreTyped' /\ HeardInv(w) /\ ChosenApart(w)
      /\ drain = [v \in Workbenches |-> drain[v]]
  BY DEF TypedInv, CallersTyped, LibraryInv, Fresh
<1>2. Drafts(w) = Chosen(w) /\ Remembered(w) = Heard(w) /\ Drafts(w) \subseteq Holds(w)
  BY OvertakenIs, Known
<1>3. CASE Serve(w)
  <2> DEFINE q == drain[w].call
  <2>1. /\ drain[w].at = "called" /\ Sent(w) /\ drain[w] # Idle
        /\ UNCHANGED <<cache, persisted, hydration, resolving, created, overtaken>>
    BY <1>3 DEF Serve, local, Sent, Idle
  <2>2. Used' = Used
    BY <2>1, UsedKept
  <2>3. /\ Heard(w)' = Heard(w) /\ Chosen(w)' = Chosen(w)
        /\ Copied(w)' = Copied(w) /\ Copying(w)' = Copying(w)
    BY <2>1 DEF Heard, Chosen, Copied, Copying
  <2>4. CASE ~Accepts(q)
    <3>1. /\ UNCHANGED <<store, spoiled>> /\ drain' = [drain EXCEPT ![w].at = "refused"]
      BY <1>3, <2>4 DEF Serve
    <3>2. ~Sent(w)'
      <4>1. drain[w] = [at |-> drain[w].at, call |-> drain[w].call,
                        attached |-> drain[w].attached]
        BY <2>1, DrainIs DEF Underway
      <4>2. DOMAIN drain[w] = {"at", "call", "attached"}
        BY <4>1
      <4>3. drain'[w].at = "refused"
        BY <1>1, <3>1, <4>2
      <4> QED BY <4>3 DEF Sent
    <3>3. Shown(w)' \subseteq Shown(w)
      BY <2>1, <3>2 DEF Shown
    <3> QED BY <2>1, <2>2, <3>1, <3>3, OvertakenKeeps
  <2>5. CASE Accepts(q)
    <3>1. /\ store' = After(q) /\ spoiled' = spoiled \cup Spoils /\ drain'[w].call = q
      BY <1>1, <1>3, <2>5 DEF Serve
    <3>2. /\ \A id \in Ids(store) \cap Ids(store') :
               LET d == At(store, id)
                   e == At(store', id) IN
               d.rev <= e.rev /\ (d.rev = e.rev => d.text = e.text)
          /\ Ids(store') \ Ids(store) \subseteq Ids(q.next)
      BY <1>1, <2>1, <2>5, <3>1, DrainIs, AfterAt
    <3>3. /\ \A id \in (Ids(store) \cap Ids(store')) \ spoiled' :
               At(store, id).text \subseteq At(store', id).text
          /\ Ids(store') \ Ids(store) \subseteq spoiled'
      BY <3>1 DEF Spoils
    <3>4. /\ Ids(q.next) \subseteq Shown(w) /\ Shown(w) \subseteq Holds(w)
          /\ Shown(w)' \subseteq Shown(w)
      BY <2>1, <3>1 DEF Shown, Holds
    <3>5. ChosenApart(w)' /\ Chosen(w) \cap Shown(w) = {}
      <4>1. Chosen(w) \cap Shown(w) = {}
        BY <1>1, ShownIs DEF ChosenApart, Chosen
      <4>2. resolving'[w].at = "called" => resolving'[w].document.id \notin Shown(w)'
        BY <2>1, <3>4, <4>1 DEF Chosen
      <4> QED BY <4>1, <4>2 DEF ChosenApart, Apart, Shown
    <3>6. Drafts(w)' = Chosen(w) /\ Remembered(w)' = Remembered(w)
      BY <1>2, <2>1, <2>3 DEF Drafts, Remembered
    <3>7. Advances(w)
      BY <3>1, <3>2, <3>3, <3>4, <3>5, <3>6 DEF Advances
    <3>8. HeardInv(w)'
      <4>1. /\ Copied(w) => Tells(store', spoiled', resolving[w].document, 1)
            /\ \A c \in Callers : hydration[w][c].at \in {"listed", "answered"} =>
                 TellsItems(store', spoiled', hydration[w][c].items)
        BY <1>1, <3>7, ToldKept
      <4> QED BY <2>1, <2>3, <4>1 DEF HeardInv
    <3>9. Holds(w)' \subseteq Holds(w)
      BY <2>1, <3>1 DEF Holds, Copying
    <3> QED BY <1>2, <2>1, <2>2, <3>5, <3>6, <3>7, <3>8, <3>9, InvKept
  <2> QED BY <2>4, <2>5
<1>4. CASE CreateCopy(w)
  <2> DEFINE d == resolving[w].document
  <2>1. /\ UNCHANGED <<cache, persisted, drain, hydration, created, overtaken>>
        /\ resolving[w].at = "called"
        /\ resolving'[w].at = "committed" /\ resolving'[w].document = d
        /\ Ids(store') = Ids(store) \cup {d.id}
        /\ Drafts(w)' \subseteq Drafts(w) /\ Advances(w) /\ Tells(store', spoiled', d, 1)
    BY <1>4, CopyAdds
  <2>2. Used' = Used /\ Copying(w) /\ ChosenApart(w)'
    BY <2>1, UsedKept DEF Copying, ChosenApart
  <2>3. HeardInv(w)'
    <3>1. \A c \in Callers : hydration[w][c].at \in {"listed", "answered"} =>
            TellsItems(store', spoiled', hydration[w][c].items)
      BY <1>1, <2>1, ToldKept
    <3> QED BY <2>1, <3>1 DEF HeardInv
  <2>4. Remembered(w)' \subseteq Remembered(w) \cup Ids(store')
    <3>1. Heard(w)' \subseteq Heard(w) \cup {d.id}
      BY <2>1 DEF Heard
    <3>2. Remembered(w)' = Heard(w)'
      BY <2>1 DEF Remembered
    <3> QED BY <1>2, <2>1, <3>1, <3>2
  <2>5. Holds(w)' \subseteq Holds(w)
    <3>1. Sent(w)' = Sent(w)
      BY <2>1 DEF Sent
    <3> QED BY <2>1, <2>2, <3>1 DEF Holds
  <2> QED BY <2>1, <2>2, <2>3, <2>4, <2>5, InvKept
<1> QED BY <1>3, <1>4

-----------------------------------------------------------------------------
(* The promises.                                                           *)

LEMMA InvInit ==
  ASSUME Init
  PROVE  LibraryInv
<1>1. TypedInv /\ Listing(store, revision) /\ revision \in Nat
  BY InitTyped DEF TypedInv, StoreTyped
<1>2. ASSUME NEW w \in Workbenches
      PROVE  /\ cache[w] = Documents(store) /\ persisted[w] = Documents(store)
             /\ itemRev[w] = Revisions(store) /\ drain[w] = Idle /\ resolving[w] = Idle
             /\ \A c \in Callers : hydration[w][c] = Idle
  BY DEF Init
<1>3. /\ Distinct(Documents(store)) /\ Ids(Documents(store)) = Ids(store)
      /\ DOMAIN Revisions(store) = Ids(store)
  BY <1>1, DocumentsOf, RevisionsOf
<1>4. Ids(store) = Used
  <2>1. DOMAIN store = 1..Initially /\ created = Initially
    BY DEF Init
  <2>2. \A k \in 1..Initially : store[k].id = Items[k]
    BY DEF Init
  <2> QED BY <2>1, <2>2 DEF Ids, Used
<1>5. TellsAll(store, spoiled, Documents(store), Revisions(store))
  <2>1. TellsItems(store, spoiled, store)
    BY <1>1, StoreIs, ListingIs DEF TellsItems, Tells, TypedInv
  <2> QED BY <1>1, <2>1, ItemsTell
<1>6. ASSUME NEW w \in Workbenches
      PROVE  /\ Sound(w) /\ HeardInv(w) /\ ChosenApart(w)
             /\ Remembered(w) \subseteq Ids(store) /\ Drafts(w) = {} /\ Holds(w) \subseteq Ids(store)
  <2>1. ~Sent(w) /\ ~Written(w) /\ ~Copied(w) /\ ~Copying(w)
        /\ drain[w].at # "called" /\ resolving[w].at # "called"
    BY <1>2 DEF Sent, Written, Answered, Copied, Copying, Idle
  <2>2. \A c \in Callers : hydration[w][c].at \notin {"listed", "answered"}
    BY <1>2 DEF Idle
  <2>3. CopyInv(w)
    BY <1>2, <1>3, GrownSelf DEF CopyInv
  <2>4. SentInv(w) /\ ToldInv(w) /\ HeardInv(w) /\ CopyApart(w) /\ ChosenApart(w)
    BY <1>2, <1>5, <2>1, <2>2 DEF SentInv, ToldInv, HeardInv, CopyApart, ChosenApart
  <2>5. Remembered(w) \subseteq Ids(store)
    BY <1>2, <1>3, <2>1, <2>2 DEF Remembered, Heard
  <2>6. Drafts(w) = {}
    BY <1>2, <2>1 DEF Drafts, Chosen
  <2>7. Holds(w) \subseteq Ids(store)
    BY <1>2, <1>3, <2>1 DEF Holds
  <2> QED BY <2>3, <2>4, <2>5, <2>6, <2>7 DEF Sound
<1>7. Fresh
  <2>1. Seen = Ids(store)
    BY <1>6 DEF Seen
  <2> QED BY <1>4, <1>6, <2>1 DEF Fresh
<1> QED BY <1>6, <1>7 DEF LibraryInv

LEMMA InvStep ==
  ASSUME TypedInv, ResolvesOnce, LibraryInv, [Next]_vars
  PROVE  LibraryInv'
<1>1. CASE UNCHANGED vars
  <2>1. UNCHANGED <<store, cache, persisted, itemRev, drain, hydration, resolving, created,
                    overtaken, spoiled>>
    BY <1>1 DEF vars, local
  <2>2. ASSUME NEW w \in Workbenches
        PROVE  /\ Sent(w)' = Sent(w) /\ Written(w)' = Written(w) /\ Learned(w)' = Learned(w)
               /\ Copied(w)' = Copied(w) /\ Copying(w)' = Copying(w)
    BY <2>1 DEF Sent, Written, Learned, Copied, Copying
  <2>3. \A w \in Workbenches : /\ Remembered(w)' = Remembered(w)
                               /\ Drafts(w)' = Drafts(w) /\ Holds(w)' = Holds(w)
    BY <2>1, <2>2 DEF Remembered, Heard, Drafts, Chosen, Holds
  <2>4. ASSUME NEW w \in Workbenches
        PROVE  HeardInv(w)' /\ ChosenApart(w)' /\ (w \notin overtaken' => Sound(w)')
    <3>1. HeardInv(w) /\ ChosenApart(w) /\ (w \notin overtaken => Sound(w))
      BY DEF LibraryInv, Fresh
    <3>2. Apart(w)' = Apart(w)
      BY <2>1, <2>2 DEF Apart
    <3>3. HeardInv(w)' /\ ChosenApart(w)'
      BY <2>1, <2>2, <3>1, <3>2 DEF HeardInv, ChosenApart
    <3>4. w \notin overtaken => CopyInv(w)' /\ SentInv(w)' /\ ToldInv(w)' /\ CopyApart(w)'
      BY <2>1, <2>2, <3>1, <3>2 DEF Sound, CopyInv, SentInv, ToldInv, CopyApart
    <3> QED BY <2>1, <3>3, <3>4 DEF Sound
  <2>5. Seen' = Seen /\ Used' = Used
    BY <2>1, <2>3 DEF Seen, Used
  <2>6. Fresh'
    BY <2>3, <2>4, <2>5 DEF LibraryInv, Fresh
  <2> QED BY <2>4, <2>6 DEF LibraryInv
<1>2. ASSUME NEW w \in Workbenches,
             \/ UserStep(w) \/ DrainStep(w) \/ RefreshStep(w) \/ ResolveStep(w)
             \/ Fault(w) \/ ResolveFault(w),
             Next
      PROVE  LibraryInv'
  <2>1. TypedInv' /\ OnlyOf(w)
    BY <1>2, TypedKept, OnlyOfStep
  <2>2. CASE Edit(w) \/ Add(w) \/ Delete(w) \/ Reorder(w)
    <3>1. UNCHANGED <<overtaken, spoiled>>
      BY <2>2 DEF Edit, Add, Delete, Reorder, Set, history
    <3> QED BY <2>1, <2>2, <3>1, EditKeeps, OvertakenEdits
  <2>3. CASE Quiet(w)
    BY <2>1, <2>3, QuietKeeps, OvertakenQuiet
  <2>4. CASE Serve(w)
    BY <2>1, <2>4, ServeKeeps, OvertakenWrites
  <2>5. CASE ReadRevision(w) \/ Stored(w)
    <3>1. UNCHANGED <<overtaken, spoiled>>
      BY <2>5 DEF ReadRevision, Stored, history
    <3> QED BY <2>1, <2>5, <3>1, ReadRevisionKeeps, StoredKeeps, OvertakenQuiet
  <2>6. CASE Refreshed(w) \/ Reloaded(w)
    BY <2>1, <2>6, AnsweredKeeps, OvertakenLearns
  <2>7. CASE CreateCopy(w)
    BY <2>1, <2>7, CreateCopyKeeps, OvertakenWrites
  <2>8. CASE CopyStored(w)
    BY <2>1, <2>8, CopyStoredKeeps, OvertakenLearns
  <2> QED BY <1>2, <2>2, <2>3, <2>4, <2>5, <2>6, <2>7, <2>8
       DEF UserStep, DrainStep, RefreshStep, ResolveStep, Callers, Quiet
<1> QED BY <1>1, <1>2 DEF Next

LEMMA InvAlways == Spec => [](TypedInv /\ ResolvesOnce /\ LibraryInv)
<1>1. Init => LibraryInv
  BY InvInit
<1>2. TypedInv /\ ResolvesOnce /\ LibraryInv /\ [Next]_vars => LibraryInv'
  BY InvStep
<1> QED BY <1>1, <1>2, TypesKept, PTL DEF Spec

\* What a workbench that was not overtaken believes to be stored was stored: of an
\* item that still exists, the store holds every edit that the workbench takes for
\* saved and will not send again, but for the items that an overtaken one spoiled.
THEOREM BelievedWasStored == Spec => []BelievedIsStored
<1>1. TypedInv /\ LibraryInv => BelievedIsStored
  <2> SUFFICES ASSUME TypedInv, LibraryInv, NEW w \in Workbenches \ overtaken,
                      NEW d \in ToSet(persisted[w]), NEW e \in ToSet(store),
                      d.id = e.id, e.id \notin spoiled
               PROVE  d.text \subseteq e.text
    BY DEF BelievedIsStored
  <2>1. PICK k \in DOMAIN persisted[w] : d = persisted[w][k]
    BY DEF ToSet
  <2>2. d.id \in Ids(store) /\ At(store, d.id) = e
    BY ListingIs DEF TypedInv, StoreTyped, ToSet
  <2>3. Tells(store, spoiled, d, itemRev[w][d.id])
    BY <2>1 DEF LibraryInv, Sound, ToldInv, TellsAll
  <2> QED BY <2>2, <2>3 DEF Tells
<1> QED BY <1>1, InvAlways, PTL

LEMMA ServeOverwritesNothing ==
  ASSUME TypedInv, TypedInv', LibraryInv, NEW w \in Workbenches, w \notin overtaken, Serve(w),
         NEW d \in ToSet(store), d.id \notin spoiled
  PROVE  Keeps(d)
<1> DEFINE q == drain[w].call
<1>1. /\ Listing(store, revision) /\ Listing(store', revision')
      /\ drain = [v \in Workbenches |-> drain[v]] /\ persisted[w] \in Seq(Document)
  BY DEF TypedInv, StoreTyped, CallersTyped, CopiesTyped
<1>2. d.id \in Ids(store) /\ At(store, d.id) = d /\ d.text \subseteq d.text
  BY <1>1, ListingIs DEF ToSet
<1>3. drain[w].at = "called" /\ Sent(w) /\ drain[w] # Idle
  BY DEF Serve, Sent, Idle
<1>4. CASE ~Accepts(q)
  <2>1. store' = store
    BY <1>4 DEF Serve
  <2> QED BY <2>1 DEF Keeps
<1>5. CASE Accepts(q)
  <2>1. /\ store' = After(q) /\ CallTyped(q, revision) /\ StoreTyped
        /\ drain'[w].at # "called"
    BY <1>1, <1>3, <1>5, DrainIs DEF Serve, TypedInv
  <2>2. ASSUME Takes(q, persisted[w], store'), d.id \in Ids(store')
        PROVE  Keeps(d)
    <3>1. At(store', d.id) \in ToSet(store') /\ At(store', d.id).id = d.id
      BY <1>1, <2>2, AtIn DEF Listing
    <3>2. d.text \subseteq At(store', d.id).text
      BY <1>2, <2>2 DEF Takes
    <3> QED BY <3>1, <3>2 DEF Keeps
  <2>3. CASE q.op = "update" /\ Updatable(q)
    <3>1. store' = Updated(q) /\ Takes(q, persisted[w], store') /\ Ids(store') = Ids(store)
      BY <1>3, <2>1, <2>3, UpdateTakes, UpdatedTyped DEF After
    <3> QED BY <1>2, <2>2, <3>1
  <2>4. CASE q.op = "create" /\ Creatable(q)
    <3>1. At(q.next, q.id) \in Document /\ q.id \in ToSet(Items)
      BY <2>1, <2>4, NextIs DEF CallTyped, Document
    <3>2. store' = Created(q) /\ Takes(q, persisted[w], store') /\ Ids(store) \subseteq Ids(store')
      BY <1>3, <2>1, <2>4, <3>1, CreateTakes, CreateAdds DEF After
    <3> QED BY <1>2, <2>2, <3>2
  <2>5. CASE q.op = "reorder" /\ Reorderable(q)
    <3>1. store' = Reordered(q) /\ Takes(q, persisted[w], store') /\ Ids(store') = Ids(store)
      BY <1>3, <2>1, <2>5, ReorderTakes, ReorderedTyped DEF After
    <3> QED BY <1>2, <2>2, <3>1
  <2>6. CASE q.op = "replace" /\ Replaceable(q)
    <3>1. /\ store' = Replaced(q) /\ Takes(q, persisted[w], store')
          /\ \A id \in Ids(store) \ spoiled : \E k \in DOMAIN persisted[w] :
               persisted[w][k].id = id /\ persisted[w][k].text = At(store, id).text
      BY <1>3, <2>1, <2>6, ReplaceTakes DEF After
    <3>2. PICK k \in DOMAIN persisted[w] :
            persisted[w][k].id = d.id /\ persisted[w][k].text = d.text
      BY <1>2, <3>1
    <3>3. Knows(w, d)
      <4>1. persisted[w][k] \in Document
        BY <1>1, SeqIs
      <4>2. persisted[w][k] = [id |-> d.id, text |-> d.text]
        BY <3>2, <4>1 DEF Document
      <4> QED BY <4>2 DEF Knows, ToSet
    <3> QED BY <1>3, <2>1, <2>2, <3>1, <3>3 DEF Keeps, Served
  <2> QED BY <1>5, <2>3, <2>4, <2>5, <2>6 DEF Accepts
<1> QED BY <1>4, <1>5

\* Only a workbench that an answer has overtaken at work overwrites a save that it
\* has not seen, and what it does to one item is no reason for a write of another
\* workbench, or to another item, to do so.
THEOREM NothingOverwritten == Spec => OnlyOvertakenOverwrite
<1> DEFINE Excused(d) == Keeps(d) \/ d.id \in spoiled \/ \E w \in overtaken : Served(w)
<1>1. TypedInv /\ ResolvesOnce /\ LibraryInv /\ [Next]_vars
        => [\A d \in ToSet(store) : Excused(d)]_store
  <2> SUFFICES ASSUME TypedInv, ResolvesOnce, LibraryInv, [Next]_vars, store' # store,
                      NEW d \in ToSet(store)
               PROVE  Excused(d)
    OBVIOUS
  <2>1. PICK w \in Workbenches :
          UserStep(w) \/ DrainStep(w) \/ RefreshStep(w) \/ ResolveStep(w)
          \/ Fault(w) \/ ResolveFault(w)
    BY DEF Next, vars
  <2>2. TypedInv'
    BY TypedKept
  <2>3. Serve(w) \/ CreateCopy(w)
    <3>1. ~UserStep(w)
      BY DEF UserStep, Edit, Add, Delete, Reorder, Set, Resolve
    <3>2. ~RefreshStep(w) /\ ~Fault(w) /\ ~ResolveFault(w)
      BY DEF RefreshStep, Refresh, ListItems, ReadCollection, Refreshed, Fault, ResolveFault
    <3>3. DrainStep(w) => Serve(w)
      BY DEF DrainStep, EnsureDrain, ReadRevision, Stored, Saved, DrainFailed
    <3>4. ResolveStep(w) => CreateCopy(w)
      BY DEF ResolveStep, ListItems, ReadCollection, Reloaded, ReadCopyRevision, CopyStored,
             CopySaved
    <3> QED BY <2>1, <3>1, <3>2, <3>3, <3>4
  <2>4. CASE Serve(w)
    <3>1. CASE w \in overtaken
      <4>1. drain[w].at = "called" /\ drain'[w].at # "called"
        BY <2>4 DEF Serve, TypedInv, CallersTyped
      <4> QED BY <3>1, <4>1 DEF Served
    <3>2. CASE w \notin overtaken /\ d.id \notin spoiled
      BY <2>2, <2>4, <3>2, ServeOverwritesNothing
    <3> QED BY <3>1, <3>2
  <2>5. CASE CreateCopy(w)
    <3> DEFINE e == resolving[w].document
               q == [id |-> e.id, next |-> <<e>>]
    <3>1. /\ resolving[w].at = "called" /\ Creatable(q) /\ store' = Created(q)
      BY <2>5 DEF CreateCopy
    <3>2. \A k \in DOMAIN store : k \in DOMAIN store' /\ store'[k] = store[k]
      <4>1. At(q.next, q.id) \in Document /\ q.id \in ToSet(Items)
        <5>1. e \in Document /\ e.id \in ToSet(Items)
          BY <3>1, ResolvingIs
        <5>2. q.next \in Seq(Document) /\ q.id \in Ids(q.next) /\ q.id = e.id
          BY <5>1 DEF Ids
        <5> HIDE DEF q
        <5> QED BY <5>1, <5>2, AtIn
      <4> HIDE DEF q
      <4> QED BY <3>1, <4>1, CreatedTyped DEF TypedInv
    <3>3. d \in ToSet(store')
      BY <3>2 DEF ToSet
    <3> QED BY <3>3 DEF Keeps
  <2> QED BY <2>3, <2>4, <2>5
<1> QED BY <1>1, InvAlways, PTL DEF Spec, OnlyOvertakenOverwrite

=============================================================================
