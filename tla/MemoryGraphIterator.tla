------------------------- MODULE MemoryGraphIterator -------------------------
(***************************************************************************)
(* Reading the in-memory link graph while others write to it.  Links and   *)
(* Edges collect pointers under s.mu and return; the iterator follows one  *)
(* pointer at a time under s.mu again, when the store has gone on.  The    *)
(* iterators of different callers share nothing, so there is one, and a    *)
(* caller that is done with it may ask for another.  Ids are random, so    *)
(* the ids of a range [fromID, toID) may be any set.                       *)
(***************************************************************************)
EXTENDS MemoryGraph

ASSUME IteratorAssumption == Nil \notin EdgeID

VARIABLES
  of,       \* the iterator is over "links" or "edges", or there is "none"
  list,     \* the elements of its slice that are still to come
  current   \* the one before currentIndex, or Nil

iterVars == <<of, list, current>>

ReadInit == StoreInit /\ of = "none" /\ list = {} /\ current = Nil

Open(kind, found) ==
  /\ of = "none" /\ of' = kind
  /\ list' = found
  /\ UNCHANGED <<current, storeVars>>

Links(ids, before) ==
  Open("links", {l \in links \cap ids : retrievedAt[l] < before})

(* Edges goes through the links, and through what linkEdgeMap has for each.*)
Edges(ids, before) ==
  Open("edges", {e \in UNION {linkEdgeMap[l] : l \in links \cap ids} : updateAt[e] < before})

NextItem ==
  /\ \E x \in list : current' = x /\ list' = list \ {x}
  /\ UNCHANGED <<of, storeVars>>

(* Next returns false at the end, and Close can be called any time.        *)
Done ==
  /\ of # "none" /\ of' = "none"
  /\ list' = {} /\ current' = Nil
  /\ UNCHANGED storeVars

(* FindLink finds a link or returns ErrNotFound; Link and Edge copy what   *)
(* the iterator points to, as it is by then.                               *)
FindLink(id) == id \in links
Link == [url |-> url[current], retrievedAt |-> retrievedAt[current]]
Edge == [src |-> src[current], dst |-> dst[current], updateAt |-> updateAt[current]]

ReadNext ==
  \/ \E ids \in SUBSET LinkID, before \in Time : Links(ids, before)
  \/ \E ids \in SUBSET LinkID, before \in Time : Edges(ids, before)
  \/ NextItem \/ Done

ReadSpec ==
  ReadInit /\ [][(StoreNext /\ UNCHANGED iterVars) \/ ReadNext]_<<storeVars, iterVars>>

-----------------------------------------------------------------------------
TableEdges(ids, before) == {e \in edges : src[e] \in ids /\ updateAt[e] < before}
WalksLikeTable ==
  \A ids \in SUBSET LinkID, before \in Time :
    Edges(ids, before) => list' = TableEdges(ids, before)

(* The edges that a walk over s.links and s.linkEdgeMap collects are those *)
(* a query of table edges would select, as the other store does: none is   *)
(* missed, and none is left over that was removed from s.edges.            *)
EdgesLikeTable == [][WalksLikeTable]_<<storeVars, iterVars>>

(* Whoever follows an iterator finds what it leads to: a link that the url *)
(* index knows, or both ends of an edge, also when that edge was removed   *)
(* from the store since it was listed.                                     *)
IteratorLeadsToLinks ==
  current # Nil =>
    /\ of = "links" => FindLink(current) /\ linkURLIndex[Link.url] # Nil
    /\ of = "edges" => FindLink(Edge.src) /\ FindLink(Edge.dst)
=============================================================================
