------------------------------- MODULE Catalog -------------------------------
(***************************************************************************)
(* The catalogue of the facade (catalog.go, facets.go): the calls that edit  *)
(* a document in the store and then in the indexes, one step each, and the   *)
(* calls that read the documents page by page while others edit them. The    *)
(* store (ingest/gorm/document_store.go) gives a document a new id each time *)
(* its source is indexed; the indexes know it by its source, with a copy of  *)
(* its collections and metadata.                                             *)
(***************************************************************************)
EXTENDS Naturals, Sequences, SequencesExt, FiniteSets

CONSTANTS
    Urls,          \* sources
    Groups,        \* collections
    Values,        \* of the one metadata key; the metadata of a document is a list of them
    Metas,         \* metadata a caller gives
    Places,        \* sets of collections a caller gives
    Listings,      \* what is asked of a listing: kind, collections, values, page
    Stocks,        \* what the store and the indexes hold at first
    Editors,       \* callers that edit
    HeaderPage,    \* facetPageSize
    EditsOverlap,  \* whether a document may be edited while another call edits it
    MaxChanges,    \* bound on the edits
    MaxLists,      \* bound on the listings
    MaxBreaks      \* bound on failing steps and crashes

ASSUME CatalogAssumption ==
    /\ HeaderPage \in Nat \ {0} /\ EditsOverlap \in BOOLEAN
    /\ MaxChanges \in Nat /\ MaxLists \in Nat /\ MaxBreaks \in Nat
    /\ Metas \subseteq Seq(Values)

VARIABLES
    shelf,     \* the rows of the store, in the order of their insertion
    entries,   \* per source, the copy the indexes hold, or NoEntry
    collections,    \* the collections there are
    lastId,    \* of a document
    editing,     \* what each editor's call is doing
    listing,   \* what the listing under way has read
    changes, lists, breaks

catalogVars == <<shelf, entries, collections, lastId, editing, listing, changes, lists, breaks>>
-----------------------------------------------------------------------------
NoEntry == [cols |-> {}, meta |-> <<>>, held |-> FALSE]
EntryOf(cols, meta) == [cols |-> cols, meta |-> meta, held |-> TRUE]

NoEdit == [op |-> "none", at |-> "end", id |-> 0, source |-> "none", cols |-> {}, meta |-> <<>>, ok |-> TRUE]

NoListing == [kind |-> "none", at |-> "end", scope |-> <<>>, wanted |-> {}, page |-> 0, seen |-> {},
              visited |-> <<>>, counts |-> [v \in Values |-> 0], skip |-> 0, limit |-> 0, shown |-> <<>>,
              due |-> {}, changed |-> "no"]

HasRow(id) == \E n \in DOMAIN shelf : shelf[n].id = id
RowOf(id) == shelf[CHOOSE n \in DOMAIN shelf : shelf[n].id = id]
Rewritten(id, row) == [n \in DOMAIN shelf |-> IF shelf[n].id = id THEN row ELSE shelf[n]]

InEdit(u, op, at) == editing[u].op = op /\ editing[u].at = at
EditIs(u, e) == editing' = [editing EXCEPT ![u] = e]
EditEnds(u, ok) == EditIs(u, [editing[u] EXCEPT !.at = "end", !.ok = ok])

\* What a listing under way misses of the state it began with: nothing, the
\* documents added since, or more.
Disturb(how) ==
    listing' = IF listing.at = "end" THEN listing
               ELSE [listing EXCEPT !.changed = IF @ = "yes" THEN "yes" ELSE how]

Edited(s) == \E u \in Editors : editing[u].at # "end" /\ editing[u].source = s

\* An application editing a document in one place at a time, unless EditsOverlap.
Free(s) == EditsOverlap \/ ~Edited(s)

StoreKept == UNCHANGED <<shelf, collections, lastId>>
NoBounds == UNCHANGED <<changes, lists, breaks>>
-----------------------------------------------------------------------------
Stock ==
    /\ lastId = 0
    /\ \E stock \in Stocks :
        /\ shelf' = [n \in DOMAIN stock |-> [id |-> n, source |-> stock[n].source, cols |-> stock[n].cols, meta |-> stock[n].meta]]
        /\ lastId' = Len(stock)
        /\ entries' = [s \in Urls |->
              IF \E n \in DOMAIN stock : stock[n].source = s
              THEN LET d == stock[CHOOSE n \in DOMAIN stock : stock[n].source = s] IN EntryOf(d.cols, d.meta)
              ELSE NoEntry]
    /\ UNCHANGED <<collections, editing, listing>> /\ NoBounds

\* IndexFile as a whole: the row of the source is replaced by a new one.
Reindexed(s, cols, meta) ==
    /\ lastId > 0 /\ changes < MaxChanges /\ Free(s) /\ cols \subseteq collections
    /\ changes' = changes + 1 /\ lastId' = lastId + 1
    /\ shelf' = Append(SelectSeq(shelf, LAMBDA r : r.source # s), [id |-> lastId', source |-> s, cols |-> cols, meta |-> meta])
    /\ entries' = [entries EXCEPT ![s] = EntryOf(cols, meta)]
    /\ Disturb(IF \E r \in ToSet(shelf) : r.source = s THEN "yes" ELSE "added")
    /\ UNCHANGED <<collections, editing, lists, breaks>>

\* Every edit begins by finding the document; one that is gone is ErrNotFound.
EditBegins(u, op, id, cols, meta) ==
    /\ lastId > 0 /\ editing[u].at = "end" /\ changes < MaxChanges
    /\ HasRow(id) /\ Free(RowOf(id).source)
    /\ changes' = changes + 1
    /\ EditIs(u, [op |-> op, at |-> "first", id |-> id, source |-> RowOf(id).source, cols |-> cols, meta |-> meta, ok |-> TRUE])
    /\ StoreKept /\ UNCHANGED <<entries, listing, lists, breaks>>

\* Mutation of DeleteEntries: the index entries are left.
DeleteEntriesNot(u) ==
    /\ InEdit(u, "delete", "first")
    /\ EditIs(u, [editing[u] EXCEPT !.at = "second"])
    /\ StoreKept /\ UNCHANGED <<entries, listing>> /\ NoBounds

\* DeleteDocument: the index entries first.
DeleteEntries(u) ==
    /\ InEdit(u, "delete", "first")
    /\ entries' = [entries EXCEPT ![editing[u].source] = NoEntry]
    /\ EditIs(u, [editing[u] EXCEPT !.at = "second"])
    /\ StoreKept /\ UNCHANGED listing /\ NoBounds

DeleteDocumentRow(u) ==
    /\ InEdit(u, "delete", "second")
    /\ shelf' = SelectSeq(shelf, LAMBDA r : r.id # editing[u].id)
    /\ EditEnds(u, TRUE) /\ Disturb("yes")
    /\ UNCHANGED <<entries, collections, lastId>> /\ NoBounds

\* UpdateDocumentMetadata: the row, by id; then the copies, by source.
UpdateRow(u) ==
    /\ InEdit(u, "metadata", "first")
    /\ IF HasRow(editing[u].id)
       THEN /\ shelf' = Rewritten(editing[u].id, [RowOf(editing[u].id) EXCEPT !.meta = editing[u].meta])
            /\ EditIs(u, [editing[u] EXCEPT !.at = "second"])
            /\ Disturb("yes")
       ELSE EditEnds(u, FALSE) /\ UNCHANGED <<shelf, listing>>
    /\ UNCHANGED <<entries, collections, lastId>> /\ NoBounds

\* Mutation of UpdateEntries: the copies are left as they are.
UpdateEntriesNot(u) ==
    /\ InEdit(u, "metadata", "second")
    /\ EditEnds(u, TRUE)
    /\ StoreKept /\ UNCHANGED <<entries, listing>> /\ NoBounds

\* A source the index holds no chunk of stays out of its searches.
UpdateEntries(u) ==
    /\ InEdit(u, "metadata", "second")
    /\ entries' = [entries EXCEPT ![editing[u].source].meta = IF entries[editing[u].source].held THEN editing[u].meta ELSE @]
    /\ EditEnds(u, TRUE)
    /\ StoreKept /\ UNCHANGED listing /\ NoBounds

\* SetDocumentCollections: the row's collections, all of which must exist; the
\* document as it then is; its entries anew.
SetGroups(u) ==
    /\ InEdit(u, "groups", "first")
    /\ IF HasRow(editing[u].id) /\ editing[u].cols \subseteq collections
       THEN /\ shelf' = Rewritten(editing[u].id, [RowOf(editing[u].id) EXCEPT !.cols = editing[u].cols])
            /\ EditIs(u, [editing[u] EXCEPT !.at = "read"])
            /\ Disturb("yes")
       ELSE EditEnds(u, FALSE) /\ UNCHANGED <<shelf, listing>>
    /\ UNCHANGED <<entries, collections, lastId>> /\ NoBounds

ReadBack(u) ==
    /\ InEdit(u, "groups", "read")
    /\ IF HasRow(editing[u].id)
       THEN EditIs(u, [editing[u] EXCEPT !.at = "second", !.cols = RowOf(editing[u].id).cols, !.meta = RowOf(editing[u].id).meta])
       ELSE EditEnds(u, FALSE)
    /\ StoreKept /\ UNCHANGED <<entries, listing>> /\ NoBounds

DropEntries(u) ==
    /\ InEdit(u, "groups", "second")
    /\ entries' = [entries EXCEPT ![editing[u].source] = NoEntry]
    /\ EditIs(u, [editing[u] EXCEPT !.at = "third"])
    /\ StoreKept /\ UNCHANGED listing /\ NoBounds

IndexAgain(u) ==
    /\ InEdit(u, "groups", "third")
    /\ entries' = [entries EXCEPT ![editing[u].source] = EntryOf(editing[u].cols, editing[u].meta)]
    /\ EditEnds(u, TRUE)
    /\ StoreKept /\ UNCHANGED listing /\ NoBounds

\* Mutation of DeleteCollection: the links of the documents stay.
DeleteCollectionOnly(g) ==
    /\ lastId > 0 /\ changes < MaxChanges /\ g \in collections
    /\ changes' = changes + 1
    /\ collections' = collections \ {g}
    /\ Disturb("yes")
    /\ UNCHANGED <<shelf, entries, lastId, editing, lists, breaks>>

\* DeleteCollection: the rows lose it (the join table cascades), the entries do not.
DeleteCollection(g) ==
    /\ lastId > 0 /\ changes < MaxChanges /\ g \in collections
    /\ changes' = changes + 1
    /\ collections' = collections \ {g}
    /\ shelf' = [n \in DOMAIN shelf |-> [shelf[n] EXCEPT !.cols = @ \ {g}]]
    /\ Disturb("yes")
    /\ UNCHANGED <<entries, lastId, editing, lists, breaks>>

\* A step fails, or the process ends: what was done stays.
EditBreaks(u) ==
    /\ editing[u].at # "end" /\ breaks < MaxBreaks
    /\ breaks' = breaks + 1
    /\ EditEnds(u, FALSE)
    /\ StoreKept /\ UNCHANGED <<entries, listing, changes, lists>>
-----------------------------------------------------------------------------
InScope(row, scope) == scope = <<>> \/ row.cols \intersect ToSet(scope) # {}
Picks(row, wanted) == wanted = {} \/ ToSet(row.meta) \intersect wanted # {}

\* The rows of one query: all of them as they were inserted (QueryDocuments), or
\* those of one collection, newest first (QueryDocumentsByCollectionID).
Queried(scope) ==
    IF scope = <<>> THEN shelf
    ELSE Reverse(SelectSeq(shelf, LAMBDA r : Head(scope) \in r.cols))

PageAt(rows, nth) ==
    SubSeq(rows, nth * HeaderPage + 1, IF (nth + 1) * HeaderPage < Len(rows) THEN (nth + 1) * HeaderPage ELSE Len(rows))

ListBegins(l) ==
    /\ lastId > 0 /\ listing.at = "end" /\ lists < MaxLists
    /\ lists' = lists + 1
    /\ listing' = [NoListing EXCEPT !.kind = l.kind, !.at = "reading", !.scope = l.scope, !.wanted = l.wanted,
                                    !.skip = l.skip, !.limit = l.limit,
                                    !.due = {r \in ToSet(shelf) : InScope(r, l.scope) /\ Picks(r, l.wanted)}]
    /\ StoreKept /\ UNCHANGED <<entries, editing, changes, breaks>>

\* Mutation of Visit: a document of two collections is counted in each.
VisitAgain(l, row) ==
    IF ~Picks(row, l.wanted) THEN l
    ELSE [l EXCEPT !.visited = Append(@, row.source),
                   !.counts = [v \in Values |-> IF v \in ToSet(row.meta) THEN @[v] + 1 ELSE @[v]]]

\* Facets, MetadataKeys: a filter is kept off the documents already seen, and a
\* value repeated inside one document's list counts once.
Visit(l, row) ==
    IF row.id \in l.seen THEN l
    ELSE IF ~Picks(row, l.wanted) THEN [l EXCEPT !.seen = @ \union {row.id}]
    ELSE [l EXCEPT !.seen = @ \union {row.id}, !.visited = Append(@, row.source),
                   !.counts = [v \in Values |-> IF v \in ToSet(row.meta) THEN @[v] + 1 ELSE @[v]]]

\* listFilteredDocuments: the requested page is cut out of the matching ones.
Collect(l, row) ==
    IF ~Picks(row, l.wanted) THEN l
    ELSE [l EXCEPT !.visited = Append(@, row.source),
                   !.shown = IF Len(l.visited) >= l.skip /\ Len(@) < l.limit THEN Append(@, row.source) ELSE @]

\* Mutation of Turns: the last page is any page without a match.
TurnsEarly(l, rows) == Len(rows) < HeaderPage \/ \A n \in DOMAIN rows : ~Picks(rows[n], l.wanted)

\* A short page is the last one.
Turns(l, rows) == Len(rows) < HeaderPage

Takes(l, row) == IF l.kind = "facets" THEN Visit(l, row) ELSE Collect(l, row)

ListPage ==
    /\ listing.at = "reading"
    /\ LET rows == PageAt(Queried(listing.scope), listing.page)
           read == FoldLeft(Takes, listing, rows)
           further == IF listing.scope = <<>> THEN <<>> ELSE Tail(listing.scope)
       IN  listing' = IF ~Turns(listing, rows) THEN [read EXCEPT !.page = @ + 1]
                      ELSE IF further = <<>> \/ listing.kind = "documents" THEN [read EXCEPT !.at = "end"]
                      ELSE [read EXCEPT !.page = 0, !.scope = further]
    /\ StoreKept /\ UNCHANGED <<entries, editing>> /\ NoBounds
-----------------------------------------------------------------------------
CatalogInit ==
    /\ shelf = <<>> /\ lastId = 0
    /\ entries = [s \in Urls |-> NoEntry]
    /\ collections = Groups
    /\ editing = [u \in Editors |-> NoEdit]
    /\ listing = NoListing
    /\ changes = 0 /\ lists = 0 /\ breaks = 0

EditStep(u) ==
    \/ DeleteEntries(u) \/ DeleteDocumentRow(u)
    \/ UpdateRow(u) \/ UpdateEntries(u)
    \/ SetGroups(u) \/ ReadBack(u) \/ DropEntries(u) \/ IndexAgain(u)
    \/ EditBreaks(u)

CatalogNext ==
    \/ Stock
    \/ \E s \in Urls, cols \in Places, meta \in Metas : Reindexed(s, cols, meta)
    \/ \E u \in Editors, id \in 1..lastId :
        \/ EditBegins(u, "delete", id, {}, <<>>)
        \/ \E meta \in Metas : EditBegins(u, "metadata", id, {}, meta)
        \/ \E cols \in Places : EditBegins(u, "groups", id, cols, <<>>)
    \/ \E u \in Editors : EditStep(u)
    \/ \E g \in Groups : DeleteCollection(g)
    \/ \E l \in Listings : ListBegins(l)
    \/ ListPage
-----------------------------------------------------------------------------
\* Every variable has its type: the one type invariant of this module.
CatalogTypeOK ==
    /\ \A n \in DOMAIN shelf :
        /\ shelf[n].id \in 1..lastId /\ shelf[n].source \in Urls
        /\ shelf[n].cols \subseteq collections /\ shelf[n].meta \in Seq(Values)
    /\ \A s \in Urls : entries[s].held \in BOOLEAN /\ entries[s].cols \subseteq Groups
    /\ collections \subseteq Groups

\* The indexes never hold a document the store has not: an interrupted deletion
\* leaves a document no search finds, never an entry that leads nowhere
\* (DeleteDocument removes the index entries first).
NoOrphanEntry == \A s \in Urls : entries[s].held => \E r \in ToSet(shelf) : r.source = s

\* A call that returned without an error left the store and the indexes
\* agreeing on its document, whatever failed before it (a deleted collection
\* aside, which the entries keep until they are written again).
EditedAgrees ==
    [][\A u \in Editors : editing[u].at # "end" /\ editing'[u].at = "end" /\ editing'[u].ok =>
        LET s == editing[u].source
            rows == {r \in ToSet(shelf') : r.source = s}
            e == entries'[s]
        IN  CASE editing[u].op = "delete" -> rows = {} /\ ~e.held
              [] editing[u].op = "metadata" -> e.held => \A r \in rows : e.meta = r.meta
              [] OTHER -> e.held /\ \A r \in rows : e.meta = r.meta /\ e.cols \intersect collections' = r.cols]_catalogVars

\* Facets and MetadataKeys count every document once, those that are added
\* while the pages are read aside: a document of several collections is not
\* counted in each, and an insertion, which moves the pages of a collection by
\* one, neither hides nor doubles one.
CountedOnce ==
    listing.kind = "facets" /\ listing.at = "end" /\ listing.changed # "yes" =>
        /\ IsInjective(listing.visited)
        /\ {r.source : r \in listing.due} \subseteq ToSet(listing.visited)
        /\ listing.changed = "no" =>
             /\ Len(listing.visited) = Cardinality(listing.due)
             /\ \A v \in Values : listing.counts[v] = Cardinality({r \in listing.due : v \in ToSet(r.meta)})

\* A filtered page of a collection that does not change is a slice of its
\* matching documents, newest first, and the total is theirs.
PageIsSlice ==
    listing.kind = "documents" /\ listing.at = "end" /\ listing.changed = "no" =>
        LET matching == SetToSortSeq(listing.due, LAMBDA r, q : r.id > q.id)
            last == IF listing.skip + listing.limit < Len(matching) THEN listing.skip + listing.limit ELSE Len(matching)
        IN  /\ Len(listing.visited) = Len(matching)
            /\ listing.shown = [n \in 1..(last - listing.skip) |-> matching[n + listing.skip].source]

\* What the catalogue promises (catalog.go, ingest/gorm): no entry of a collection
\* that is gone, every document counted and paged once, and edits that reach the
\* store and the legs alike.
CatalogKeepsFaith ==
    /\ [](CatalogTypeOK /\ NoOrphanEntry /\ CountedOnce /\ PageIsSlice)
    /\ EditedAgrees
=============================================================================
