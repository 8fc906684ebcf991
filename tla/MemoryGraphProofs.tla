-------------------------- MODULE MemoryGraphProofs --------------------------
(***************************************************************************)
(* Machine-checked proofs about MemoryGraph and MemoryGraphIterator, for   *)
(* any sets of urls and ids and any number of clock readings.              *)
(***************************************************************************)
EXTENDS MemoryGraphIterator, TLAPS

(* The four invariants of the store are inductive together: an upsert of   *)
(* an edge needs to know that the edges listed under a link are all the    *)
(* edges that leave it, and an upsert of a link that the index names a     *)
(* link of the store.                                                      *)
StoreInv == StoreTypeOK /\ EdgeMapsAgree /\ EdgesWellFormed /\ IndexFindsLink

LEMMA StoreInitially == StoreInit => StoreInv
  BY StoreAssumption DEF StoreInit, StoreInv, StoreTypeOK, EdgeMapsAgree,
     EdgesWellFormed, IndexFindsLink, Time

-----------------------------------------------------------------------------
(* One lemma per method.                                                   *)
LEMMA TickStep ==
  ASSUME StoreInv, Tick
  PROVE  StoreInv'
<1> USE DEF StoreInv, Tick, linkVars, edgeVars
<1>1. StoreTypeOK'
  BY StoreAssumption DEF StoreTypeOK, Time
<1>2. EdgeMapsAgree' /\ EdgesWellFormed' /\ IndexFindsLink'
  BY DEF EdgeMapsAgree, EdgesWellFormed, IndexFindsLink
<1> QED BY <1>1, <1>2

LEMMA UpsertLinkStep ==
  ASSUME StoreInv,
         NEW u \in URL, NEW t \in Time, NEW id \in LinkID, UpsertLink(u, t, id)
  PROVE  StoreInv'
<1> USE DEF StoreInv, UpsertLink, WithLink, Indexed, edgeVars
<1>1. StoreTypeOK'
  <2>1. retrievedAt' \in [LinkID -> Time]
    BY DEF StoreTypeOK, Latest
  <2>2. linkURLIndex' \in [URL -> links' \cup {Nil}]
    BY DEF StoreTypeOK
  <2>3. url' \in [LinkID -> URL \cup {Nil}] /\ links' \subseteq LinkID
    BY DEF StoreTypeOK
  <2> QED BY <2>1, <2>2, <2>3 DEF StoreTypeOK
<1>2. EdgeMapsAgree'
  BY DEF EdgeMapsAgree
<1>3. EdgesWellFormed'
  BY DEF EdgesWellFormed
<1>4. IndexFindsLink'
  <2> SUFFICES ASSUME NEW v \in URL
               PROVE  /\ linkURLIndex'[v] = Nil => \A x \in links' : url'[x] # v
                      /\ linkURLIndex'[v] # Nil => /\ linkURLIndex'[v] \in links'
                                                   /\ url'[linkURLIndex'[v]] = v
    BY DEF IndexFindsLink
  <2>1. CASE v = u
    <3>1. linkURLIndex'[v] = id /\ id # Nil
      BY <2>1, StoreAssumption DEF StoreTypeOK
    <3>2. url'[id] = u /\ id \in links'
      BY DEF StoreTypeOK
    <3> QED BY <2>1, <3>1, <3>2
  <2>2. CASE v # u
    <3>1. linkURLIndex'[v] = linkURLIndex[v]
      BY <2>2 DEF StoreTypeOK
    <3>2. \A x \in links : x # id /\ url'[x] = url[x]
      BY DEF StoreTypeOK
    <3>3. url'[id] = u
      BY DEF StoreTypeOK
    <3> QED BY <2>2, <3>1, <3>2, <3>3 DEF IndexFindsLink
  <2> QED BY <2>1, <2>2
<1> QED BY <1>1, <1>2, <1>3, <1>4

LEMMA UpdateEdgeStep ==
  ASSUME StoreInv, NEW s \in LinkID, NEW d \in LinkID, UpdateEdge(s, d)
  PROVE  StoreInv'
<1> USE DEF StoreInv, UpdateEdge, linkVars
<1>1. StoreTypeOK'
  BY DEF StoreTypeOK
<1>2. EdgeMapsAgree' /\ EdgesWellFormed' /\ IndexFindsLink'
  BY DEF EdgeMapsAgree, EdgesWellFormed, IndexFindsLink
<1> QED BY <1>1, <1>2

LEMMA InsertEdgeStep ==
  ASSUME StoreInv, NEW s \in LinkID, NEW d \in LinkID, NEW e \in EdgeID,
         InsertEdge(s, d, e)
  PROVE  StoreInv'
<1> USE DEF StoreInv, InsertEdge, EndpointsKnown, Existing, linkVars
<1>1. StoreTypeOK'
  BY DEF StoreTypeOK
<1>2. /\ src'[e] = s /\ dst'[e] = d /\ e \notin edges
      /\ \A f \in edges : src'[f] = src[f] /\ dst'[f] = dst[f]
  BY DEF StoreTypeOK
<1>3. \A l \in LinkID :
        linkEdgeMap'[l] = IF l = s THEN linkEdgeMap[s] \cup {e} ELSE linkEdgeMap[l]
  BY DEF StoreTypeOK
<1>4. EdgeMapsAgree'
  BY <1>2, <1>3 DEF EdgeMapsAgree
<1>5. \A f \in edges : ~(src[f] = s /\ dst[f] = d)
  BY DEF EdgeMapsAgree
<1>6. EdgesWellFormed'
  BY <1>2, <1>5 DEF EdgesWellFormed
<1>7. IndexFindsLink'
  BY DEF IndexFindsLink
<1> QED BY <1>1, <1>4, <1>6, <1>7

LEMMA RemoveStalEdgesStep ==
  ASSUME StoreInv, NEW l \in LinkID, NEW cutoff \in Time, RemoveStalEdges(l, cutoff)
  PROVE  StoreInv'
<1> USE DEF StoreInv, RemoveStalEdges, Shortened, linkVars
<1> DEFINE gone == Stale(l, cutoff)
<1>1. gone \subseteq linkEdgeMap[l]
  BY DEF Stale
<1>2. \A e \in gone : src[e] = l
  BY <1>1 DEF EdgeMapsAgree
<1>3. \A k \in LinkID :
        linkEdgeMap'[k] = IF k = l THEN linkEdgeMap[l] \ gone ELSE linkEdgeMap[k]
  BY DEF StoreTypeOK
<1> HIDE DEF gone
<1>4. edges' = edges \ gone
  BY DEF gone
<1>5. EdgeMapsAgree'
  BY <1>2, <1>3, <1>4 DEF EdgeMapsAgree
<1>6. linkEdgeMap' \in [LinkID -> SUBSET edges']
  <2>1. linkEdgeMap' = [linkEdgeMap EXCEPT ![l] = linkEdgeMap[l] \ gone]
    BY DEF gone
  <2>2. \A k \in LinkID : linkEdgeMap'[k] \subseteq edges'
    BY <1>5 DEF EdgeMapsAgree
  <2> QED BY <2>1, <2>2 DEF StoreTypeOK
<1>7. StoreTypeOK'
  BY <1>4, <1>6 DEF StoreTypeOK
<1>8. EdgesWellFormed' /\ IndexFindsLink'
  BY <1>4 DEF EdgesWellFormed, IndexFindsLink
<1> QED BY <1>5, <1>7, <1>8

LEMMA StoreStep ==
  ASSUME StoreInv, [StoreNext]_storeVars
  PROVE  StoreInv'
<1>1. CASE Tick
  BY <1>1, TickStep
<1>2. ASSUME NEW u \in URL, NEW t \in Time, NEW id \in LinkID, UpsertLink(u, t, id)
      PROVE  StoreInv'
  BY <1>2, UpsertLinkStep
<1>3. ASSUME NEW s \in LinkID, NEW d \in LinkID, UpsertEdge(s, d)
      PROVE  StoreInv'
  BY <1>3, UpdateEdgeStep, InsertEdgeStep DEF UpsertEdge
<1>4. ASSUME NEW l \in LinkID, NEW cutoff \in Time, RemoveStalEdges(l, cutoff)
      PROVE  StoreInv'
  BY <1>4, RemoveStalEdgesStep
<1>5. CASE UNCHANGED storeVars
  BY <1>5 DEF storeVars, linkVars, edgeVars, StoreInv, StoreTypeOK, EdgeMapsAgree,
     EdgesWellFormed, IndexFindsLink
<1> QED BY <1>1, <1>2, <1>3, <1>4, <1>5 DEF StoreNext

-----------------------------------------------------------------------------
(* The invariants of the store hold after any sequence of calls.           *)
THEOREM StoreInvariant == StoreSpec => []StoreInv
<1>1. StoreInit => StoreInv
  BY StoreInitially
<1>2. StoreInv /\ [StoreNext]_storeVars => StoreInv'
  BY StoreStep
<1> QED BY <1>1, <1>2, PTL DEF StoreSpec

(* Type correctness.                                                       *)
THEOREM StoreTypeCorrect == StoreSpec => []StoreTypeOK
<1>1. StoreInv => StoreTypeOK
  BY DEF StoreInv
<1> QED BY <1>1, StoreInvariant, PTL

(* s.edges and s.linkEdgeMap describe the same edges, so the lookups of    *)
(* Edges, UpsertEdge and RemoveStalEdges never find a nil edge.            *)
THEOREM MapsAgree == StoreSpec => []EdgeMapsAgree
<1>1. StoreInv => EdgeMapsAgree
  BY DEF StoreInv
<1> QED BY <1>1, StoreInvariant, PTL

(* Edges join links of the store, at most one from a link to another.      *)
THEOREM EdgesAreWellFormed == StoreSpec => []EdgesWellFormed
<1>1. StoreInv => EdgesWellFormed
  BY DEF StoreInv
<1> QED BY <1>1, StoreInvariant, PTL

(* The url index never misses a url or names a link with another one.      *)
THEOREM IndexIsExact == StoreSpec => []IndexFindsLink
<1>1. StoreInv => IndexFindsLink
  BY DEF StoreInv
<1> QED BY <1>1, StoreInvariant, PTL

-----------------------------------------------------------------------------
(* A link of the store keeps its url and its RetrievedAt does not go back. *)
THEOREM LinksOnlyMoveForward == StoreSpec => LinksMoveForward
<1> DEFINE Forward == \A id \in links : /\ id \in links' /\ url'[id] = url[id]
                                        /\ retrievedAt'[id] >= retrievedAt[id]
<1>1. ASSUME StoreInv, NEW u \in URL, NEW t \in Time, NEW id \in LinkID,
             UpsertLink(u, t, id)
      PROVE  Forward
  <2> SUFFICES ASSUME NEW x \in links
               PROVE  /\ x \in links' /\ url'[x] = url[x]
                      /\ retrievedAt'[x] >= retrievedAt[x]
    OBVIOUS
  <2>1. x # id /\ x \in LinkID /\ retrievedAt[x] \in Nat /\ t \in Nat
    BY <1>1 DEF UpsertLink, StoreInv, StoreTypeOK, Time
  <2>2. x \in links' /\ url'[x] = url[x]
    BY <1>1, <2>1 DEF UpsertLink, WithLink, StoreInv, StoreTypeOK
  <2>3. \/ retrievedAt'[x] = Latest(retrievedAt[x], t)
        \/ retrievedAt'[x] = retrievedAt[x]
    BY <1>1, <2>1 DEF UpsertLink
  <2> QED BY <2>1, <2>2, <2>3 DEF Latest
<1>2. ASSUME StoreInv, UNCHANGED <<links, url, retrievedAt>>
      PROVE  Forward
  BY <1>2 DEF StoreInv, StoreTypeOK, Time
<1>3. ASSUME StoreInv, [StoreNext]_storeVars
      PROVE  Forward
  <2>1. \/ UNCHANGED <<links, url, retrievedAt>>
        \/ \E u \in URL, t \in Time, id \in LinkID : UpsertLink(u, t, id)
    BY <1>3 DEF StoreNext, Tick, UpsertEdge, UpdateEdge, InsertEdge, RemoveStalEdges,
       storeVars, linkVars
  <2> QED BY <1>1, <1>2, <1>3, <2>1
<1> HIDE DEF Forward
<1>4. StoreSpec => [][Forward]_storeVars
  BY <1>3, StoreInvariant, PTL DEF StoreSpec
<1> QED BY <1>4 DEF LinksMoveForward, Forward

(* Removal takes the oldest edges of one link and spares its newer ones.   *)
THEOREM OldestEdgesGoFirst == StoreSpec => OldestGoFirst
<1> DEFINE Oldest == \A e \in edges \ edges' : \A f \in edges :
                       /\ f \in edges' /\ src[f] = src[e] => updateAt[f] > updateAt[e]
                       /\ f \notin edges' => src[f] = src[e]
<1>1. ASSUME StoreInv, NEW l \in LinkID, NEW cutoff \in Time,
             RemoveStalEdges(l, cutoff)
      PROVE  Oldest
  <2>1. \A e \in edges :
          /\ e \in EdgeID /\ updateAt[e] \in Nat /\ cutoff \in Nat
          /\ e \notin edges' <=> src[e] = l /\ updateAt[e] < cutoff
    BY <1>1 DEF RemoveStalEdges, Stale, StoreInv, StoreTypeOK, EdgeMapsAgree, Time
  <2> QED BY <2>1
<1>2. ASSUME StoreInv, [StoreNext]_storeVars
      PROVE  Oldest
  <2>1. \/ edges \subseteq edges'
        \/ \E l \in LinkID, cutoff \in Time : RemoveStalEdges(l, cutoff)
    BY <1>2 DEF StoreNext, Tick, UpsertLink, UpsertEdge, UpdateEdge, InsertEdge,
       storeVars, edgeVars
  <2> QED BY <1>1, <1>2, <2>1
<1> HIDE DEF Oldest
<1>3. StoreSpec => [][Oldest]_storeVars
  BY <1>2, StoreInvariant, PTL DEF StoreSpec
<1> QED BY <1>3 DEF OldestGoFirst, Oldest

-----------------------------------------------------------------------------
(* What an iterator points to: links of the store, or edges that are or    *)
(* were in it.  An edge id is never used again, so the fields of a removed *)
(* edge stay as they were, and links are never removed.                    *)
Remembered(e) == e \in usedEdges /\ {src[e], dst[e]} \subseteq links
Addressed == \A id \in links : url[id] \in URL

IterInv ==
  /\ Addressed
  /\ of \in {"none", "links", "edges"}
  /\ of = "none" => list = {} /\ current = Nil
  /\ of = "links" => list \subseteq links /\ current \in links \cup {Nil}
  /\ of = "edges" => \A e \in list \cup {current} : e = Nil \/ Remembered(e)

ReadInv == StoreInv /\ IterInv

Kept == links \subseteq links' /\ \A e : Remembered(e) => Remembered(e)'

LEMMA StillRemembered ==
  ASSUME StoreInv, [StoreNext]_storeVars
  PROVE  Kept
<1>1. CASE Tick
  BY <1>1 DEF Tick, linkVars, edgeVars, Kept, Remembered
<1>2. ASSUME NEW u \in URL, NEW t \in Time, NEW id \in LinkID, UpsertLink(u, t, id)
      PROVE  Kept
  BY <1>2 DEF UpsertLink, WithLink, StoreInv, StoreTypeOK, edgeVars, Kept, Remembered
<1>3. ASSUME NEW s \in LinkID, NEW d \in LinkID, UpdateEdge(s, d)
      PROVE  Kept
  BY <1>3 DEF UpdateEdge, linkVars, Kept, Remembered
<1>4. ASSUME NEW s \in LinkID, NEW d \in LinkID, NEW f \in EdgeID, InsertEdge(s, d, f)
      PROVE  Kept
  <2>1. links' = links /\ usedEdges \subseteq usedEdges'
    BY <1>4 DEF InsertEdge, linkVars
  <2>2. ASSUME NEW e, Remembered(e)
        PROVE  src'[e] = src[e] /\ dst'[e] = dst[e]
    BY <1>4, <2>2 DEF InsertEdge, Remembered, StoreInv, StoreTypeOK
  <2> QED BY <2>1, <2>2 DEF Kept, Remembered
<1>5. ASSUME NEW l \in LinkID, NEW cutoff \in Time, RemoveStalEdges(l, cutoff)
      PROVE  Kept
  BY <1>5 DEF RemoveStalEdges, linkVars, Kept, Remembered
<1>6. CASE UNCHANGED storeVars
  BY <1>6 DEF storeVars, linkVars, edgeVars, Kept, Remembered
<1> QED BY <1>1, <1>2, <1>3, <1>4, <1>5, <1>6 DEF StoreNext, UpsertEdge

LEMMA WriteStep ==
  ASSUME ReadInv, StoreNext \/ UNCHANGED storeVars, UNCHANGED iterVars
  PROVE  ReadInv'
<1>1. StoreInv'
  BY StoreStep DEF ReadInv
<1>2. Kept
  BY StillRemembered DEF ReadInv
<1>3. Addressed'
  <2>1. \/ UNCHANGED <<links, url>>
        \/ \E u \in URL, t \in Time, id \in LinkID : UpsertLink(u, t, id)
    BY DEF StoreNext, Tick, UpsertEdge, UpdateEdge, InsertEdge, RemoveStalEdges,
       storeVars, linkVars
  <2> QED
    BY <2>1 DEF UpsertLink, WithLink, Addressed, ReadInv, IterInv, StoreInv, StoreTypeOK
<1>4. IterInv'
  BY <1>2, <1>3 DEF Kept, ReadInv, IterInv, iterVars
<1> QED BY <1>1, <1>4 DEF ReadInv

LEMMA ReadStep ==
  ASSUME ReadInv, ReadNext
  PROVE  ReadInv'
<1>1. UNCHANGED storeVars
  BY DEF ReadNext, Links, Edges, Open, NextItem, Done
<1>2. StoreInv' /\ links' = links /\ (Addressed => Addressed')
      /\ \A e : Remembered(e)' <=> Remembered(e)
  BY <1>1, StoreStep DEF ReadInv, storeVars, linkVars, edgeVars, Addressed, Remembered
<1>3. ASSUME NEW ids \in SUBSET LinkID, NEW before \in Time, Links(ids, before)
      PROVE  IterInv'
  BY <1>2, <1>3 DEF Links, Open, ReadInv, IterInv
<1>4. ASSUME NEW ids \in SUBSET LinkID, NEW before \in Time, Edges(ids, before)
      PROVE  IterInv'
  <2>1. \A e \in list' : \E l \in LinkID : e \in linkEdgeMap[l]
    BY <1>4 DEF Edges, Open
  <2>2. \A e \in list' : Remembered(e)
    BY <2>1 DEF ReadInv, StoreInv, StoreTypeOK, EdgeMapsAgree, EdgesWellFormed, Remembered
  <2>3. of' = "edges" /\ current' = Nil
    BY <1>4 DEF Edges, Open, ReadInv, IterInv
  <2> QED BY <1>2, <2>2, <2>3 DEF ReadInv, IterInv
<1>5. ASSUME NextItem
      PROVE  IterInv'
  BY <1>2, <1>5 DEF NextItem, ReadInv, IterInv
<1>6. ASSUME Done
      PROVE  IterInv'
  BY <1>2, <1>6 DEF Done, ReadInv, IterInv
<1>7. IterInv'
  BY <1>3, <1>4, <1>5, <1>6 DEF ReadNext
<1> QED BY <1>2, <1>7 DEF ReadInv

(* The store's invariant holds while it is read, and what an iterator      *)
(* points to stays as the store knew it.                                   *)
THEOREM ReadInvariant == ReadSpec => []ReadInv
<1>1. ReadInit => ReadInv
  BY StoreInitially DEF StoreInit, ReadInit, IterInv, Addressed, ReadInv
<1>2. ReadInv /\ [(StoreNext /\ UNCHANGED iterVars) \/ ReadNext]_<<storeVars, iterVars>>
        => ReadInv'
  BY WriteStep, ReadStep
<1> QED BY <1>1, <1>2, PTL DEF ReadSpec

(* An iterator leads to links that FindLink finds, whatever is upserted or *)
(* removed while it is used.                                               *)
THEOREM IteratorsLeadToLinks == ReadSpec => []IteratorLeadsToLinks
<1>1. ASSUME ReadInv
      PROVE  IteratorLeadsToLinks
  <2>1. ASSUME current # Nil, of = "links"
        PROVE  FindLink(current) /\ linkURLIndex[Link.url] # Nil
    <3>1. current \in links
      BY <1>1, <2>1 DEF ReadInv, IterInv
    <3>2. url[current] \in URL
      BY <1>1, <3>1 DEF ReadInv, IterInv, Addressed
    <3> QED BY <1>1, <3>1, <3>2 DEF FindLink, Link, ReadInv, StoreInv, IndexFindsLink
  <2>2. ASSUME current # Nil, of = "edges"
        PROVE  FindLink(Edge.src) /\ FindLink(Edge.dst)
    BY <1>1, <2>2 DEF ReadInv, IterInv, Remembered, FindLink, Edge
  <2> QED BY <2>1, <2>2 DEF IteratorLeadsToLinks
<1> QED BY <1>1, ReadInvariant, PTL

(* The walk of Edges selects what a query of the edges would.              *)
THEOREM EdgesAreLikeTable == ReadSpec => EdgesLikeTable
<1>1. ASSUME ReadInv, NEW ids \in SUBSET LinkID, NEW before \in Time, Edges(ids, before)
      PROVE  list' = TableEdges(ids, before)
  <2>1. \A e : e \in UNION {linkEdgeMap[l] : l \in links \cap ids}
              <=> e \in edges /\ src[e] \in ids
    BY <1>1 DEF ReadInv, StoreInv, StoreTypeOK, EdgeMapsAgree, EdgesWellFormed
  <2> QED BY <1>1, <2>1 DEF Edges, Open, TableEdges
<1>2. ReadInv => WalksLikeTable
  BY <1>1 DEF WalksLikeTable
<1> QED BY <1>2, ReadInvariant, PTL DEF ReadSpec, EdgesLikeTable
=============================================================================
