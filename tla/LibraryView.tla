------------------------------ MODULE LibraryView ------------------------------
(***************************************************************************)
(* The library page: what it has loaded of the owner's assets for each filter   *)
(* (library-view.tsx, useLibrary.ts, library-ui-store.ts), what is selected in   *)
(* it, and the deletions it sends to the API, while jobs add assets and take      *)
(* them away.  An asset is its place in the order of creation.                     *)
(***************************************************************************)
EXTENDS Naturals, Sequences, SequencesExt, FiniteSets

CONSTANTS
    Gallery,     \* the assets there will be: kind, the words its prompt has, its job
    PageSize,    \* limit of a request
    LibraryWords,\* what is searched for
    KindTabs,    \* the tabs of the page
    MaxCached,   \* bound: keys of the query cache in use
    MaxBatches   \* bound: batch deletions whose requests are under way

ASSUME LibraryAssumption ==
    /\ PageSize \in Nat \ {0} /\ MaxBatches \in Nat \ {0} /\ MaxCached \in Nat \ {0}
    /\ "" \notin LibraryWords /\ "all" \in KindTabs /\ KindTabs \subseteq {"all", "image", "video"}
    /\ Gallery \in Seq([kind : {"image", "video"}, words : SUBSET LibraryWords, job : Nat])

VARIABLES
    made,        \* assets whose job has stored them
    jobsGone,    \* deleted jobs
    filter,      \* searchQuery, appliedQuery and filterKind
    loaded,      \* per key of the query cache: the pages, flattened
    fetching,    \* per key: the fetch under way
    selected,    \* selectedAssetIds
    batches,     \* batch deletions: the requests without an answer
    deletionsSent \* deletions that no batch waits for

libraryVars == <<made, jobsGone, filter, loaded, fetching, selected, batches, deletionsSent>>

LibraryAssets == DOMAIN Gallery
Queries   == {""} \cup LibraryWords
QueryKeys == [q : Queries, kind : KindTabs]
Pages     == [items : Seq(LibraryAssets), count : 0 .. Len(Gallery) + 1, more : BOOLEAN]
NoPages   == [items |-> <<>>, count |-> 0, more |-> FALSE]

\* A fetch collects pages until `left` are there: all that were loaded, or one more.
PageFetch == [got : Pages, left : 0 .. Len(Gallery) + 1, next : BOOLEAN]
NoPageFetch == [got |-> NoPages, left |-> 0, next |-> FALSE]

LibraryTypeOK ==
    /\ made \subseteq LibraryAssets /\ jobsGone \subseteq {Gallery[a].job : a \in LibraryAssets}
    /\ filter \in [typed : Queries, applied : Queries, kind : KindTabs]
    /\ loaded \in [QueryKeys -> Pages] /\ fetching \in [QueryKeys -> PageFetch]
    /\ selected \subseteq LibraryAssets
    /\ batches \in [1 .. MaxBatches -> SUBSET LibraryAssets] /\ deletionsSent \subseteq LibraryAssets

LibraryInit ==
    /\ made = {} /\ jobsGone = {}
    /\ filter = [typed |-> "", applied |-> "", kind |-> "all"]
    /\ loaded = [k \in QueryKeys |-> NoPages]
    /\ fetching = [k \in QueryKeys |-> IF k = [q |-> "", kind |-> "all"]
                                         THEN [NoPageFetch EXCEPT !.left = 1] ELSE NoPageFetch]
    /\ selected = {} /\ batches = [b \in 1 .. MaxBatches |-> {}] /\ deletionsSent = {}
-----------------------------------------------------------------------------
(* GET /api/library                                                            *)
Matches(a, key) ==
    /\ key.kind \in {"all", Gallery[a].kind}
    /\ key.q \in {""} \cup Gallery[a].words

Alive == {a \in made : Gallery[a].job \notin jobsGone}

\* Newest first.
Descending(items) == \A i \in DOMAIN items : i > 1 => items[i] < items[i - 1]

\* The page that follows the cursor, the last asset of the page before; 0 is no cursor: of the
\* rows that are asked for the newest, as many as fit.
listLibrary(key, cursor) ==
    LET rows == {a \in Alive : Matches(a, key) /\ (cursor = 0 \/ a < cursor)} IN
    {[items |-> items, more |-> rows # ToSet(items)] :
        items \in {s \in UNION {[1 .. n -> rows] : n \in 0 .. PageSize} :
                      /\ Descending(s)
                      /\ \A a \in rows \ ToSet(s) : Len(s) = PageSize /\ a < s[PageSize]}}

\* A job ends with its outputs; its transaction may commit after that of a later one.
JobStores ==
    /\ \E job \in {Gallery[a].job : a \in LibraryAssets \ made} :
           made' = made \cup {a \in LibraryAssets : Gallery[a].job = job}
    /\ UNCHANGED <<jobsGone, filter, loaded, fetching, selected, batches, deletionsSent>>

\* DELETE /api/library/:id deletes the whole job, and answers alike when it is deleted.
deleteAsset(a) == jobsGone' = jobsGone \cup {Gallery[a].job}
-----------------------------------------------------------------------------
(* useLibraryInfiniteQuery                                                     *)
KeyOf(f) == [q |-> f.applied, kind |-> f.kind]
Key == KeyOf(filter)
Busy(key) == fetching[key].left > 0
AssetsOf(pages) == ToSet(pages.items)
VisibleAssets == AssetsOf(loaded[Key])

WholeFetch(key) == [got |-> NoPages, next |-> FALSE,
                    left |-> IF loaded[key].count = 0 THEN 1 ELSE loaded[key].count]

\* A fetch under way is replaced unless it is the first.
Refetched(key) == IF loaded[key].count = 0 /\ Busy(key) THEN fetching[key] ELSE WholeFetch(key)

Cached(key) == Busy(key) \/ loaded[key].count > 0

\* A key that comes into use is fetched when it has no data, or when that is old.
Observe(key) ==
    /\ Cardinality({k \in QueryKeys \ {key} : Cached(k)}) < MaxCached
    /\ \/ ~Busy(key) /\ fetching' = [fetching EXCEPT ![key] = WholeFetch(key)]
       \/ Cached(key) /\ UNCHANGED fetching

\* One page of a fetch is answered.
FetchPage(key) ==
    /\ Busy(key)
    /\ LET f == fetching[key]
           cursor == IF f.got.items = <<>> THEN 0 ELSE Last(f.got.items) IN
       \E page \in listLibrary(key, cursor) :
       LET got == [items |-> f.got.items \o page.items, count |-> f.got.count + 1, more |-> page.more] IN
       IF f.left = 1 \/ ~page.more
         THEN /\ loaded' = [loaded EXCEPT ![key] = got]
              /\ fetching' = [fetching EXCEPT ![key] = NoPageFetch]
         ELSE /\ fetching' = [fetching EXCEPT ![key] = [f EXCEPT !.got = got, !.left = @ - 1]]
              /\ UNCHANGED loaded
    /\ UNCHANGED <<made, jobsGone, filter, selected, batches, deletionsSent>>

\* What was loaded stays.
FetchFails(key) ==
    /\ Busy(key)
    /\ fetching' = [fetching EXCEPT ![key] = NoPageFetch]
    /\ UNCHANGED <<made, jobsGone, filter, loaded, selected, batches, deletionsSent>>

\* Data that no page uses is dropped in time.
CacheCollected(key) ==
    /\ key # Key /\ Cached(key) /\ ~Busy(key)
    /\ loaded' = [loaded EXCEPT ![key] = NoPages]
    /\ UNCHANGED <<made, jobsGone, filter, fetching, selected, batches, deletionsSent>>

fetchNextPage ==
    /\ loaded[Key].more /\ ~fetching[Key].next
    /\ fetching' = [fetching EXCEPT ![Key] = [got |-> loaded[Key], left |-> 1, next |-> TRUE]]
    /\ UNCHANGED <<made, jobsGone, filter, loaded, selected, batches, deletionsSent>>

\* The button, the window's focus, or a job that has succeeded.
RefetchLibrary ==
    /\ fetching' = [fetching EXCEPT ![Key] = Refetched(Key)]
    /\ UNCHANGED <<made, jobsGone, filter, loaded, selected, batches, deletionsSent>>
-----------------------------------------------------------------------------
(* LibraryView                                                                 *)
\* Mutant: what was selected under the old filter stays selected.
SelectionKept(f) == selected

\* The effect that runs whenever the applied query or the kind has changed.
SelectionAfter(f) == IF KeyOf(f) = Key THEN selected ELSE {}

SetFilter(f) ==
    /\ filter' = f /\ selected' = SelectionAfter(f)
    /\ IF KeyOf(f) = Key THEN UNCHANGED fetching ELSE Observe(KeyOf(f))
    /\ UNCHANGED <<made, jobsGone, loaded, batches, deletionsSent>>

setSearchQuery == \E q \in Queries : SetFilter([filter EXCEPT !.typed = q])
setFilterKind  == \E kind \in KindTabs : SetFilter([filter EXCEPT !.kind = kind])
Debounced      == filter.typed # filter.applied /\ SetFilter([filter EXCEPT !.applied = filter.typed])
clearQuery     == filter.applied # "" /\ SetFilter([filter EXCEPT !.typed = "", !.applied = ""])
clearFilters   == SetFilter([typed |-> "", applied |-> "", kind |-> "all"])

\* The page is left and opened again by a link: the store outlives it, its effects run anew.
OpenPage(link) ==
    /\ filter' = [ typed |-> IF link.q = "" THEN filter.typed ELSE link.q, applied |-> link.q,
                   kind |-> IF link.kind = "all" THEN filter.kind ELSE link.kind ]
    /\ selected' = {}
    /\ Observe(KeyOf(filter'))
    /\ UNCHANGED <<made, jobsGone, loaded, batches, deletionsSent>>

toggleSelectAsset(a) ==
    /\ selected' = IF a \in selected THEN selected \ {a} ELSE selected \cup {a}
    /\ UNCHANGED <<made, jobsGone, filter, loaded, fetching, batches, deletionsSent>>

\* The box above the tiles: all that are visible, or none.
selectAllAssets ==
    /\ VisibleAssets # {} /\ selected' = IF VisibleAssets \subseteq selected THEN {} ELSE VisibleAssets
    /\ UNCHANGED <<made, jobsGone, filter, loaded, fetching, batches, deletionsSent>>

\* All requests are sent at once.
confirmBatchDelete(b) ==
    /\ selected # {} /\ batches[b] = {}
    /\ batches' = [batches EXCEPT ![b] = selected]
    /\ UNCHANGED <<made, jobsGone, filter, loaded, fetching, selected, deletionsSent>>

\* The last answer clears the selection and has the list fetched again.
BatchDeleted(b, a) ==
    /\ deleteAsset(a)
    /\ batches' = [batches EXCEPT ![b] = @ \ {a}]
    /\ IF batches[b] = {a}
         THEN selected' = {} /\ fetching' = [fetching EXCEPT ![Key] = Refetched(Key)]
         ELSE UNCHANGED <<selected, fetching>>
    /\ UNCHANGED <<made, filter, loaded, deletionsSent>>

\* The first failure ends the wait; the other requests are on their way all the same.
BatchFails(b, a) ==
    /\ deleteAsset(a) \/ UNCHANGED jobsGone
    /\ batches' = [batches EXCEPT ![b] = {}] /\ deletionsSent' = deletionsSent \cup (batches[b] \ {a})
    /\ UNCHANGED <<made, filter, loaded, fetching, selected>>

confirmSingleDelete(a) ==
    /\ deletionsSent' = deletionsSent \cup {a}
    /\ UNCHANGED <<made, jobsGone, filter, loaded, fetching, selected, batches>>

\* Only a deletion of its own has the list fetched again, and only when it succeeded.
DeleteAnswered(a) ==
    /\ deletionsSent' = deletionsSent \ {a}
    /\ \/ deleteAsset(a) /\ fetching' = [fetching EXCEPT ![Key] = Refetched(Key)]
       \/ deleteAsset(a) /\ UNCHANGED fetching
       \/ UNCHANGED <<jobsGone, fetching>>
    /\ UNCHANGED <<made, filter, loaded, selected, batches>>

LibraryNext ==
    \/ JobStores \/ fetchNextPage \/ RefetchLibrary
    \/ \E key \in QueryKeys : FetchPage(key) \/ FetchFails(key) \/ CacheCollected(key)
    \/ setSearchQuery \/ setFilterKind \/ Debounced \/ clearQuery \/ clearFilters
    \/ \E link \in QueryKeys : OpenPage(link)
    \/ selectAllAssets
    \/ \E a \in VisibleAssets : toggleSelectAsset(a) \/ confirmSingleDelete(a)
    \/ \E b \in 1 .. MaxBatches :
         confirmBatchDelete(b) \/ \E a \in batches[b] : BatchDeleted(b, a) \/ BatchFails(b, a)
    \/ \E a \in deletionsSent : DeleteAnswered(a)

LibrarySpec == LibraryInit /\ [][LibraryNext]_libraryVars
-----------------------------------------------------------------------------
\* library-view.tsx: "a bulk delete must only ever act on tiles the user can currently see,
\* never on ones a filter has hidden"; and the pages of a key, however they were fetched,
\* are one list from new to old, without an asset twice or one that does not match.
SelectionInFilter ==
    /\ \A a \in selected : Matches(a, Key)
    /\ \A key \in QueryKeys :
          /\ \A a \in AssetsOf(loaded[key]) : Matches(a, key)
          /\ Descending(loaded[key].items)
=============================================================================
