---------------------------- MODULE GraphUpdater ----------------------------
(***************************************************************************)
(* The graphUpdater stage of internal/crawler over the database link graph *)
(* CDBGraph.  One Process call makes a series of store calls; the calls of *)
(* several crawlers that share the database interleave, and any call may   *)
(* fail, which ends Process where it stands.                               *)
(***************************************************************************)
EXTENDS CDBGraph

CONSTANTS
  Updater,    \* graphUpdaters: one per crawler
  Page,       \* payloads: [url, nofollow, links]
  Null        \* no page, no link

ASSUME PageAssumption ==
  /\ Null \notin Page \cup URL
  /\ \A p \in Page : /\ p.url \in URL /\ p.nofollow \subseteq URL /\ p.links \subseteq URL
                     /\ p.nofollow \cap p.links = {}

VARIABLES
  pc, page,        \* where Process is, and its payload
  stamp,           \* src.RetrievedAt
  cutoff,          \* removeEdgeOlderThan
  todo,            \* links the current loop has still to visit
  dst,             \* the link whose edge is due
  swept            \* history: the latest cutoff removed from a page

procVars == <<pc, page, stamp, cutoff, todo, dst>>
vars == <<cdbVars, procVars, swept>>

UpdaterPC == {"idle", "src", "nofollow", "dst", "edge", "done"}

Init ==
  /\ CDBInit
  /\ pc = [u \in Updater |-> "idle"]
  /\ page = [u \in Updater |-> Null]
  /\ stamp = [u \in Updater |-> 0]
  /\ cutoff = [u \in Updater |-> 0]
  /\ todo = [u \in Updater |-> {}]
  /\ dst = [u \in Updater |-> Null]
  /\ swept = [x \in URL |-> 0]

(* time.Now().                                                             *)
ClockAhead == now + 1     \* mutant: another clock than the database's
ClientNow == now

(* Process is called with a payload and reads the clock for src.           *)
Process(u, p) ==
  /\ pc[u] \in {"idle", "done"}
  /\ pc' = [pc EXCEPT ![u] = "src"]
  /\ page' = [page EXCEPT ![u] = p]
  /\ stamp' = [stamp EXCEPT ![u] = ClientNow]
  /\ cutoff' = [cutoff EXCEPT ![u] = 0]
  /\ UNCHANGED <<cdbVars, todo, dst, swept>>

UpsertSrc(u) ==
  /\ pc[u] = "src"
  /\ UpsertLink(page[u].url, stamp[u])
  /\ pc' = [pc EXCEPT ![u] = "nofollow"]
  /\ todo' = [todo EXCEPT ![u] = page[u].nofollow]
  /\ UNCHANGED <<page, stamp, cutoff, dst, swept>>

(* Links found on the page are upserted without a time.                    *)
UpsertNoFollow(u, d) ==
  /\ pc[u] = "nofollow" /\ d \in todo[u]
  /\ UpsertLink(d, 0)
  /\ todo' = [todo EXCEPT ![u] = @ \ {d}]
  /\ UNCHANGED <<pc, page, stamp, cutoff, dst, swept>>

ReadClock(u) ==
  /\ pc[u] = "nofollow" /\ todo[u] = {}
  /\ pc' = [pc EXCEPT ![u] = "dst"]
  /\ cutoff' = [cutoff EXCEPT ![u] = ClientNow]
  /\ todo' = [todo EXCEPT ![u] = page[u].links]
  /\ UNCHANGED <<cdbVars, page, stamp, dst, swept>>

(* Two calls for each link to follow.                                      *)
AddDst(d) == UpsertLink(d, 0)
UpsertDst(u, d) ==
  /\ pc[u] = "dst" /\ d \in todo[u]
  /\ AddDst(d)
  /\ pc' = [pc EXCEPT ![u] = "edge"]
  /\ todo' = [todo EXCEPT ![u] = @ \ {d}]
  /\ dst' = [dst EXCEPT ![u] = d]
  /\ UNCHANGED <<page, stamp, cutoff, swept>>

UpsertPageEdge(u) ==
  /\ pc[u] = "edge"
  /\ UpsertEdge(page[u].url, dst[u])
  /\ pc' = [pc EXCEPT ![u] = "dst"]
  /\ dst' = [dst EXCEPT ![u] = Null]
  /\ UNCHANGED <<page, stamp, cutoff, todo, swept>>

Sweep(u) ==
  LET t == cutoff[u] IN
  /\ pc[u] = "dst" /\ todo[u] = {}
  /\ RemoveStalEdges(page[u].url, t)
  /\ pc' = [pc EXCEPT ![u] = "done"]
  /\ swept' = [swept EXCEPT ![page[u].url] = IF @ > t THEN @ ELSE t]
  /\ UNCHANGED <<page, stamp, cutoff, todo, dst>>

(* A call fails, because of the database or an expired context, and the    *)
(* locals of Process are gone.  (One that took effect and failed is the    *)
(* call followed by this.)                                                 *)
Fail(u) ==
  /\ pc[u] \notin {"idle", "done"}
  /\ pc' = [pc EXCEPT ![u] = "idle"]
  /\ page' = [page EXCEPT ![u] = Null]
  /\ stamp' = [stamp EXCEPT ![u] = 0]
  /\ cutoff' = [cutoff EXCEPT ![u] = 0]
  /\ todo' = [todo EXCEPT ![u] = {}]
  /\ dst' = [dst EXCEPT ![u] = Null]
  /\ UNCHANGED <<cdbVars, swept>>

Next ==
  \/ Tick /\ UNCHANGED <<procVars, swept>>
  \/ \E u \in Updater :
       \/ \E p \in Page : Process(u, p)
       \/ UpsertSrc(u) \/ ReadClock(u) \/ UpsertPageEdge(u) \/ Sweep(u) \/ Fail(u)
       \/ \E d \in URL : UpsertNoFollow(u, d) \/ UpsertDst(u, d)

Spec == Init /\ [][Next]_vars

-----------------------------------------------------------------------------
(* Links whose edge from the page u is at has been upserted.               *)
Visited(u) ==
  CASE pc[u] \in {"dst", "done"} -> page[u].links \ todo[u]
    [] pc[u] = "edge" -> page[u].links \ (todo[u] \cup {dst[u]})
    [] OTHER -> {}

(* Type invariant.                                                         *)
TypeOK ==
  /\ now \in Time
  /\ links \subseteq URL
  /\ retrievedAt \in [URL -> Time]
  /\ edges \subseteq Pair
  /\ updatedAt \in [Pair -> Time]
  /\ pc \in [Updater -> UpdaterPC]
  /\ page \in [Updater -> Page \cup {Null}]
  /\ stamp \in [Updater -> Time]
  /\ cutoff \in [Updater -> Time]
  /\ todo \in [Updater -> SUBSET URL]
  /\ dst \in [Updater -> URL \cup {Null}]
  /\ swept \in [URL -> Time]

(* The edges of the page an updater has visited stand, newer than its      *)
(* cutoff, whatever other updaters of the same page add and remove, until  *)
(* one that read the clock later removes what is stale.                    *)
PageEdgesStand ==
  \A u \in Updater : \A d \in Visited(u) :
    LET e == <<page[u].url, d>> IN
    swept[page[u].url] <= cutoff[u] => e \in edges /\ updatedAt[e] >= cutoff[u]

(* "drop stale edges that have not been updated after this loop": once an  *)
(* updater has removed them, no edge from its page is older than its       *)
(* cutoff, then or later; a failed or slower updater brings none back.     *)
NoStaleEdges ==
  \A e \in edges : updatedAt[e] >= swept[e[1]]

(* What is removed is never an edge that leads to a link of the page just  *)
(* visited, nor an edge of a page whose updater is not at that point.      *)
OnlyStaleRemoved ==
  [][\A e \in edges \ edges' :
       \E u \in Updater : /\ pc[u] = "dst" /\ pc'[u] = "done"
                          /\ page[u].url = e[1] /\ e[2] \notin page[u].links]_vars

(* The time of a crawl is not lost: the crawled url stays a link that was  *)
(* retrieved then or later, though other updaters upsert it without a time *)
(* as a link of their pages.                                               *)
CrawlRecorded ==
  \A u \in Updater : pc[u] \in {"nofollow", "dst", "edge", "done"} =>
    page[u].url \in links /\ retrievedAt[page[u].url] >= stamp[u]

(* UpsertEdge never meets an unknown link: both ends were upserted before. *)
EdgeEndsKnown ==
  /\ edges \subseteq links \X links
  /\ \A u \in Updater : pc[u] = "edge" => {page[u].url, dst[u]} \subseteq links
=============================================================================
