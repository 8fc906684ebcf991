----------------------------- MODULE MemoryGraph -----------------------------
(***************************************************************************)
(* The in-memory link graph of internal/linkgraph/store/memory.  Every     *)
(* method holds s.mu for its whole body, so each is one action.  A Link or *)
(* Edge object is named by its id: its fields are functions of the id, and *)
(* the maps of the store hold ids.  A slice of edge ids is the set of its  *)
(* elements: ids are fresh when appended and nothing depends on the order. *)
(***************************************************************************)
EXTENDS Naturals

CONSTANTS
  URL,
  LinkID, EdgeID,   \* what uuid.New may return
  Nil,              \* no link, or a field of no object yet
  MaxTime           \* bound: readings of the clock

ASSUME StoreAssumption == Nil \notin LinkID \cup URL /\ MaxTime \in Nat

VARIABLES
  now,            \* what time.Now() returns
  links,          \* keys of s.links
  url, retrievedAt,             \* fields of the Link objects
  linkURLIndex,
  edges,          \* keys of s.edges
  src, dst, updateAt,           \* fields of the Edge objects
  linkEdgeMap,
  usedEdges       \* history: edge ids uuid.New has returned

linkVars == <<links, url, retrievedAt, linkURLIndex>>
edgeVars == <<edges, src, dst, updateAt, linkEdgeMap, usedEdges>>
storeVars == <<now, linkVars, edgeVars>>

Time == 0 .. MaxTime

StoreInit ==
  /\ now = 0
  /\ links = {}
  /\ url = [id \in LinkID |-> Nil]
  /\ retrievedAt = [id \in LinkID |-> 0]
  /\ linkURLIndex = [u \in URL |-> Nil]
  /\ edges = {}
  /\ src = [e \in EdgeID |-> Nil]
  /\ dst = [e \in EdgeID |-> Nil]
  /\ updateAt = [e \in EdgeID |-> 0]
  /\ linkEdgeMap = [id \in LinkID |-> {}]
  /\ usedEdges = {}

Tick ==
  /\ now < MaxTime
  /\ now' = now + 1
  /\ UNCHANGED <<linkVars, edgeVars>>

-----------------------------------------------------------------------------
(* The link the index has for the url takes the caller's fields, keeping   *)
(* the later RetrievedAt; the code goes on and gives the url a new link    *)
(* all the same.                                                           *)
Overwritten(old, t) == t                 \* mutant: origTs is not restored
Latest(old, t) == IF old > t THEN old ELSE t

SameLinks(id) == links                   \* mutant: the copy is not put into s.links
WithLink(id) == links \cup {id}
SameIndex(u, id) == linkURLIndex         \* mutant: the copy is not indexed
Indexed(u, id) == [linkURLIndex EXCEPT ![u] = id]

UpsertLink(u, t, id) ==
  /\ id \in LinkID \ links
  /\ links' = WithLink(id)
  /\ url' = [url EXCEPT ![id] = u]
  /\ LET existing == linkURLIndex[u] IN
     retrievedAt' = [x \in LinkID |-> IF x = id THEN t
                                      ELSE IF x = existing THEN Latest(retrievedAt[x], t)
                                      ELSE retrievedAt[x]]
  /\ linkURLIndex' = Indexed(u, id)
  /\ UNCHANGED <<now, edgeVars>>

-----------------------------------------------------------------------------
SrcKnown(s, d) == s \in links            \* mutant: the destination is not looked up
EndpointsKnown(s, d) == s \in links /\ d \in links

Existing(s, d) == {e \in linkEdgeMap[s] : src[e] = s /\ dst[e] = d}

UpdateEdge(s, d) ==
  /\ EndpointsKnown(s, d)
  /\ \E e \in Existing(s, d) : updateAt' = [updateAt EXCEPT ![e] = now]
  /\ UNCHANGED <<now, linkVars, edges, src, dst, linkEdgeMap, usedEdges>>

InsertEdge(s, d, e) ==
  /\ EndpointsKnown(s, d)
  /\ Existing(s, d) = {}
  /\ e \in EdgeID \ usedEdges
  /\ usedEdges' = usedEdges \cup {e}
  /\ edges' = edges \cup {e}
  /\ src' = [src EXCEPT ![e] = s]
  /\ dst' = [dst EXCEPT ![e] = d]
  /\ updateAt' = [updateAt EXCEPT ![e] = now]
  /\ linkEdgeMap' = [linkEdgeMap EXCEPT ![s] = @ \cup {e}]
  /\ UNCHANGED <<now, linkVars>>

(* An edge between links that are not both known is refused: no change.    *)
UpsertEdge(s, d) == UpdateEdge(s, d) \/ \E e \in EdgeID : InsertEdge(s, d, e)

-----------------------------------------------------------------------------
Fresh(l, cutoff) == {e \in linkEdgeMap[l] : updateAt[e] > cutoff}  \* mutant: After for Before
Stale(l, cutoff) == {e \in linkEdgeMap[l] : updateAt[e] < cutoff}
SameList(l, gone) == linkEdgeMap         \* mutant: newEdgelist is not stored
Shortened(l, gone) == [linkEdgeMap EXCEPT ![l] = @ \ gone]

RemoveStalEdges(l, cutoff) ==
  LET gone == Stale(l, cutoff) IN
  /\ edges' = edges \ gone
  /\ linkEdgeMap' = Shortened(l, gone)
  /\ UNCHANGED <<now, linkVars, src, dst, updateAt, usedEdges>>

-----------------------------------------------------------------------------
(* Any goroutine may call anything at any time.                            *)
StoreNext ==
  \/ Tick
  \/ \E u \in URL, t \in Time, id \in LinkID : t <= now /\ UpsertLink(u, t, id)
  \/ \E s, d \in LinkID : UpsertEdge(s, d)
  \/ \E l \in LinkID, cutoff \in Time : RemoveStalEdges(l, cutoff)

StoreSpec == StoreInit /\ [][StoreNext]_storeVars

-----------------------------------------------------------------------------
(* Type invariant.                                                         *)
StoreTypeOK ==
  /\ now \in Time
  /\ links \subseteq LinkID
  /\ url \in [LinkID -> URL \cup {Nil}]
  /\ retrievedAt \in [LinkID -> Time]
  /\ linkURLIndex \in [URL -> links \cup {Nil}]
  /\ src \in [EdgeID -> LinkID \cup {Nil}]
  /\ dst \in [EdgeID -> LinkID \cup {Nil}]
  /\ updateAt \in [EdgeID -> Time]
  /\ linkEdgeMap \in [LinkID -> SUBSET edges]
  /\ edges \subseteq usedEdges /\ usedEdges \subseteq EdgeID

(* Edges() looks up every id of linkEdgeMap in s.edges and dereferences    *)
(* what it finds: the two maps must describe the same edges, each listed   *)
(* under its source, after any sequence of upserts and removals.           *)
EdgeMapsAgree ==
  \A l \in LinkID : linkEdgeMap[l] = {e \in edges : src[e] = l}

(* Both ends of an edge are links of the store, and there is at most one   *)
(* edge from one link to another.                                          *)
EdgesWellFormed ==
  /\ \A e \in edges : {src[e], dst[e]} \subseteq links
  /\ \A e, f \in edges : src[e] = src[f] /\ dst[e] = dst[f] => e = f

(* The url index has an entry for exactly the urls the links have, and it  *)
(* names a link with that url: a lookup never misses or misdirects.        *)
IndexFindsLink ==
  \A u \in URL :
    /\ linkURLIndex[u] = Nil => \A id \in links : url[id] # u
    /\ linkURLIndex[u] # Nil => linkURLIndex[u] \in links /\ url[linkURLIndex[u]] = u

(* A link keeps its url, and its RetrievedAt never goes back, also when a  *)
(* caller upserts with an older time or none.                              *)
LinksMoveForward ==
  [][\A id \in links : /\ id \in links' /\ url'[id] = url[id]
                       /\ retrievedAt'[id] >= retrievedAt[id]]_storeVars

(* Removing stale edges removes the oldest edges of one link: what stays   *)
(* of its edges was updated later than all that went.                      *)
OldestGoFirst ==
  [][\A e \in edges \ edges' : \A f \in edges :
       /\ f \in edges' /\ src[f] = src[e] => updateAt[f] > updateAt[e]
       /\ f \notin edges' => src[f] = src[e]]_storeVars

(* "check if the link with the same url already exits. if so convert this  *)
(* as update and point that to an existing link" (memory.go): no url has   *)
(* two links.                                                              *)
OneLinkPerURL ==
  \A x, y \in links : url[x] = url[y] => x = y
=============================================================================
