------------------------------- MODULE MCStores -------------------------------
(***************************************************************************)
(* What the documents are kept in, for TLC: components that share no state,   *)
(* one part of the run for each.                                            *)
(***************************************************************************)
EXTENDS VecStore, BlobStores, Catalog, Snapshots, WorkspaceLock, TreeSync, LegSearch, TLC

VARIABLE part

vars == <<part, vecVars, storeVars, catalogVars, snapVars, lockVars, treeVars, legVars>>

others(p) ==
    /\ UNCHANGED part
    /\ p # "vector" => UNCHANGED vecVars
    /\ p # "blobs" => UNCHANGED storeVars
    /\ p # "catalog" => UNCHANGED catalogVars
    /\ p # "snapshots" => UNCHANGED snapVars
    /\ p # "lock" => UNCHANGED lockVars
    /\ p # "tree" => UNCHANGED treeVars
    /\ p # "legs" => UNCHANGED legVars

\* Three documents, one of them in both collections, and an empty store.
Shelved(s, cols, meta) == [source |-> s, cols |-> cols, meta |-> meta]
MCStocks == {<<Shelved("a", {"g", "h"}, <<"x", "y", "x">>), Shelved("b", {"h"}, <<"y">>), Shelved("c", {"g"}, <<>>)>>,
             <<Shelved("b", {"h"}, <<"x">>)>>}
MCMetas == {<<"y", "x">>}
MCPlaces == {{}, {"g", "h"}}
MCListings ==
    {[kind |-> "facets", scope |-> scope, wanted |-> wanted, skip |-> 0, limit |-> 0] : scope \in {<<>>, <<"g", "h">>}, wanted \in {{}, {"x"}}}
    \union {[kind |-> "documents", scope |-> <<"h">>, wanted |-> wanted, skip |-> 1, limit |-> 1] : wanted \in {{"x"}, {"y"}}}

-----------------------------------------------------------------------------
\* Backup and restoration of a workspace of three documents.
MCPicturesOf == ("f1" :> {1}) @@ ("f2" :> {1, 2}) @@ ("f3" :> {}) @@ ("f4" :> {3})
MCCollected == <<"f1", "f2", "f3">>

-----------------------------------------------------------------------------
\* A tree of three files, the last outside of the directory that is synchronized.
MCExcluded == ("top" :> {2}) @@ ("sub" :> {})
MCCascade == (1 :> {"top"}) @@ (2 :> {"top", "sub"}) @@ (3 :> {"top"})
MCPatterns == {{1, 2, 3}, {1}}

-----------------------------------------------------------------------------
\* Two passages of one section in both collections, an exact match, a passage
\* that is in no collection; a passage in more collections than the oversample.
Passage(source, section, places, fits, words, distance, hamming) ==
    [source |-> source, section |-> section, places |-> places, fits |-> fits, words |-> words,
     distance |-> distance, hamming |-> hamming]
MCLibraries == {
    <<>>,
    <<Passage("a", "a1", {1, 2}, TRUE, 2, 1, 1), Passage("a", "a1", {1, 2}, FALSE, 1, 2, 2),
      Passage("b", "b1", {2}, TRUE, 0, 0, 3), Passage("c", "c1", {}, TRUE, 2, 4, 0)>>,
    <<Passage("b", "b1", {1, 2, 3, 4}, FALSE, 1, 1, 1), Passage("b", "b2", {1, 2}, TRUE, 0, 2, 0)>>}
Wish(max, scope, filtered, valid) == [max |-> max, scope |-> scope, filtered |-> filtered, valid |-> valid]
MCWishes == {Wish(1, <<>>, TRUE, TRUE), Wish(2, <<>>, FALSE, TRUE), Wish(2, <<2, 1>>, FALSE, TRUE), Wish(1, <<1>>, TRUE, TRUE),
             Wish(0, <<>>, FALSE, TRUE), Wish(1, <<>>, TRUE, FALSE)}

MCInit ==
    /\ part \in {"vector", "blobs", "catalog", "snapshots", "lock", "tree", "legs"}
    /\ VecInit
    /\ StoreInit
    /\ CatalogInit
    /\ SnapInit
    /\ LockInit
    /\ TreeInit
    /\ LegInit
    /\ part # "legs" => passages = <<>>

MCNext ==
    \/ part = "vector" /\ VecNext /\ others("vector")
    \/ part = "blobs" /\ StoreNext /\ others("blobs")
    \/ part = "catalog" /\ CatalogNext /\ others("catalog")
    \/ part = "snapshots" /\ SnapNext /\ others("snapshots")
    \/ part = "lock" /\ LockNext /\ others("lock")
    \/ part = "tree" /\ TreeNext /\ others("tree")
    \/ part = "legs" /\ LegNext /\ others("legs")

MCSpec == MCInit /\ [][MCNext]_vars
=============================================================================
