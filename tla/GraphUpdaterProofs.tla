------------------------- MODULE GraphUpdaterProofs -------------------------
(***************************************************************************)
(* Machine-checked proofs about GraphUpdater, for any updaters, pages and  *)
(* urls and any number of clock readings.                                  *)
(***************************************************************************)
EXTENDS GraphUpdater, TLAPS

USE DEF UpdaterPC, Time, Pair, ClientNow

(* What is known of an updater's locals.                                   *)
AtWork ==
  \A u \in Updater :
    /\ pc[u] # "idle" => page[u] \in Page
    /\ pc[u] = "edge" => dst[u] \in URL

(* Nothing an updater or the history remembers is later than the clock.    *)
Past ==
  /\ \A u \in Updater : cutoff[u] <= now /\ stamp[u] <= now
  /\ \A x \in URL : swept[x] <= now

(* The inductive invariant.                                                *)
UpdaterInv ==
  /\ TypeOK /\ AtWork /\ Past
  /\ CrawlRecorded /\ EdgeEndsKnown /\ NoStaleEdges /\ PageEdgesStand

LEMMA PageParts ==
  ASSUME NEW p \in Page
  PROVE  p.url \in URL /\ p.nofollow \subseteq URL /\ p.links \subseteq URL
  BY PageAssumption

LEMMA Initially == Init => UpdaterInv
<1> SUFFICES ASSUME Init PROVE UpdaterInv
  OBVIOUS
<1> USE DEF Init, CDBInit
<1>1. TypeOK
  BY ClockAssumption DEF TypeOK
<1>2. AtWork /\ Past
  BY ClockAssumption DEF AtWork, Past
<1>3. CrawlRecorded /\ EdgeEndsKnown /\ NoStaleEdges
  BY DEF CrawlRecorded, EdgeEndsKnown, NoStaleEdges
<1>4. PageEdgesStand
  BY DEF PageEdgesStand, Visited
<1> QED BY <1>1, <1>2, <1>3, <1>4 DEF UpdaterInv

-----------------------------------------------------------------------------
(* What an upsert of a link does to the table of links.                    *)
LinksGrow ==
  /\ links \subseteq links' /\ links' \subseteq URL
  /\ retrievedAt' \in [URL -> Time]
  /\ \A x \in links : retrievedAt'[x] >= retrievedAt[x]
  /\ UNCHANGED <<now, edges, updatedAt>>

LEMMA UpsertLinkGrows ==
  ASSUME TypeOK, NEW x \in URL, NEW t \in Time, UpsertLink(x, t)
  PROVE  LinksGrow /\ x \in links' /\ retrievedAt'[x] >= t
<1> USE DEF UpsertLink, edgeTable
<1>1. /\ retrievedAt \in [URL -> Time]
      /\ \A y \in URL : retrievedAt[y] \in Nat
      /\ t \in Nat
  BY DEF TypeOK
<1>2. \A old \in Time : Greatest(old, t) \in Time /\ Greatest(old, t) >= old
                        /\ Greatest(old, t) >= t
  BY DEF Greatest
<1> DEFINE new == IF x \in links THEN Greatest(retrievedAt[x], t) ELSE t
<1>3. retrievedAt' = [retrievedAt EXCEPT ![x] = new]
  OBVIOUS
<1>4. new \in Time /\ new >= t /\ (x \in links => new >= retrievedAt[x])
  BY <1>1, <1>2
<1> HIDE DEF new
<1>5. /\ retrievedAt' \in [URL -> Time]
      /\ retrievedAt'[x] = new
      /\ \A y \in URL \ {x} : retrievedAt'[y] = retrievedAt[y]
  BY <1>1, <1>3, <1>4
<1>6. \A y \in links : retrievedAt'[y] >= retrievedAt[y]
  BY <1>1, <1>4, <1>5 DEF TypeOK
<1> QED BY <1>4, <1>5, <1>6 DEF LinksGrow, TypeOK

(* Growing links disturb neither what is recorded nor the edges.           *)
LEMMA GrowKeeps ==
  ASSUME UpdaterInv, LinksGrow, UNCHANGED <<stamp, cutoff, swept>>,
         \A u \in Updater : pc'[u] # "idle" => page'[u] = page[u],
         \A u \in Updater : pc'[u] # "idle" => pc[u] # "idle"
  PROVE  /\ NoStaleEdges' /\ edges' \subseteq links' \X links'
         /\ Past'
         /\ \A u \in Updater : pc[u] \in {"nofollow", "dst", "edge", "done"}
                               /\ pc'[u] # "idle" =>
              page'[u].url \in links' /\ retrievedAt'[page'[u].url] >= stamp'[u]
<1>1. NoStaleEdges' /\ Past'
  BY DEF LinksGrow, UpdaterInv, NoStaleEdges, Past
<1>2. edges' \subseteq links' \X links'
  BY DEF LinksGrow, UpdaterInv, EdgeEndsKnown
<1>3. ASSUME NEW u \in Updater, pc[u] \in {"nofollow", "dst", "edge", "done"},
             pc'[u] # "idle"
      PROVE  page'[u].url \in links' /\ retrievedAt'[page'[u].url] >= stamp'[u]
  <2>1. page'[u] = page[u] /\ page[u].url \in links /\ page[u].url \in URL
    BY <1>3, PageParts DEF UpdaterInv, CrawlRecorded, AtWork
  <2>2. retrievedAt[page[u].url] >= stamp[u]
    BY <1>3 DEF UpdaterInv, CrawlRecorded
  <2>3. /\ retrievedAt'[page[u].url] >= retrievedAt[page[u].url]
        /\ page[u].url \in links' /\ stamp'[u] = stamp[u]
    BY <2>1 DEF LinksGrow
  <2>4. /\ retrievedAt[page[u].url] \in Nat /\ retrievedAt'[page[u].url] \in Nat
        /\ stamp[u] \in Nat
    BY <2>1 DEF UpdaterInv, TypeOK, LinksGrow
  <2> QED BY <2>1, <2>2, <2>3, <2>4
<1> QED BY <1>1, <1>2, <1>3

(* The conjunct about visited links holds when no updater's visited links  *)
(* grow and the edges stay.                                                *)
LEMMA SameVisited ==
  ASSUME UpdaterInv, UNCHANGED <<edges, updatedAt, swept>>,
         \A u \in Updater : Visited(u)' # {} =>
           /\ Visited(u)' \subseteq Visited(u)
           /\ page'[u] = page[u] /\ cutoff'[u] = cutoff[u]
  PROVE  PageEdgesStand'
<1> SUFFICES ASSUME NEW u \in Updater, NEW d \in Visited(u)',
                    swept'[page'[u].url] <= cutoff'[u]
             PROVE  /\ <<page'[u].url, d>> \in edges'
                    /\ updatedAt'[<<page'[u].url, d>>] >= cutoff'[u]
  BY DEF PageEdgesStand
<1>1. d \in Visited(u) /\ page'[u] = page[u] /\ cutoff'[u] = cutoff[u]
  OBVIOUS
<1> QED BY <1>1 DEF UpdaterInv, PageEdgesStand

-----------------------------------------------------------------------------
(* One lemma per action.                                                   *)
LEMMA TickStep ==
  ASSUME UpdaterInv, Tick, UNCHANGED <<procVars, swept>>
  PROVE  UpdaterInv'
<1> USE DEF Tick, procVars, linkTable, edgeTable
<1>1. TypeOK'
  BY ClockAssumption DEF UpdaterInv, TypeOK
<1>2. AtWork'
  BY DEF UpdaterInv, AtWork
<1>3. Past'
  <2>1. now \in Nat /\ \A u \in Updater : cutoff[u] \in Nat /\ stamp[u] \in Nat
    BY DEF UpdaterInv, TypeOK
  <2>2. \A x \in URL : swept[x] \in Nat
    BY DEF UpdaterInv, TypeOK
  <2> QED BY <2>1, <2>2 DEF UpdaterInv, Past
<1>4. CrawlRecorded' /\ EdgeEndsKnown' /\ NoStaleEdges'
  BY DEF UpdaterInv, CrawlRecorded, EdgeEndsKnown, NoStaleEdges
<1>5. PageEdgesStand'
  BY DEF UpdaterInv, PageEdgesStand, Visited
<1> QED BY <1>1, <1>2, <1>3, <1>4, <1>5 DEF UpdaterInv

LEMMA ProcessStep ==
  ASSUME UpdaterInv, NEW u \in Updater, NEW p \in Page, Process(u, p)
  PROVE  UpdaterInv'
<1> USE DEF Process, cdbVars, linkTable, edgeTable
<1>1. TypeOK'
  BY ClockAssumption DEF UpdaterInv, TypeOK
<1>2. /\ pc'[u] = "src" /\ page'[u] = p /\ stamp'[u] = now /\ cutoff'[u] = 0
      /\ \A w \in Updater \ {u} : /\ pc'[w] = pc[w] /\ page'[w] = page[w]
                                  /\ stamp'[w] = stamp[w] /\ cutoff'[w] = cutoff[w]
  BY DEF UpdaterInv, TypeOK
<1>3. AtWork' /\ Past'
  <2>1. AtWork'
    BY <1>2 DEF UpdaterInv, AtWork
  <2>2. Past'
    BY <1>2 DEF UpdaterInv, TypeOK, Past
  <2> QED BY <2>1, <2>2
<1>4. CrawlRecorded' /\ EdgeEndsKnown' /\ NoStaleEdges'
  BY <1>2 DEF UpdaterInv, CrawlRecorded, EdgeEndsKnown, NoStaleEdges
<1>5. PageEdgesStand'
  <2>1. Visited(u)' = {}
    BY <1>2 DEF Visited
  <2>2. \A w \in Updater \ {u} : Visited(w)' = Visited(w)
    BY <1>2 DEF Visited
  <2> QED BY <1>2, <2>1, <2>2, SameVisited
<1> QED BY <1>1, <1>3, <1>4, <1>5 DEF UpdaterInv

LEMMA UpsertSrcStep ==
  ASSUME UpdaterInv, NEW u \in Updater, UpsertSrc(u)
  PROVE  UpdaterInv'
<1> USE DEF UpsertSrc
<1>1. page[u] \in Page /\ page[u].url \in URL /\ page[u].nofollow \subseteq URL
  BY PageParts DEF UpdaterInv, AtWork
<1>2. LinksGrow /\ page[u].url \in links' /\ retrievedAt'[page[u].url] >= stamp[u]
  BY <1>1, UpsertLinkGrows DEF UpdaterInv, TypeOK
<1>3. pc'[u] = "nofollow" /\ \A w \in Updater \ {u} : pc'[w] = pc[w] /\ todo'[w] = todo[w]
  BY DEF UpdaterInv, TypeOK
<1>4. TypeOK'
  BY <1>1, <1>2 DEF UpdaterInv, TypeOK, LinksGrow
<1>5. AtWork'
  BY <1>1, <1>3 DEF UpdaterInv, AtWork
<1>6. /\ NoStaleEdges' /\ edges' \subseteq links' \X links' /\ Past'
      /\ \A w \in Updater : pc[w] \in {"nofollow", "dst", "edge", "done"}
                            /\ pc'[w] # "idle" =>
           page'[w].url \in links' /\ retrievedAt'[page'[w].url] >= stamp'[w]
  BY <1>2, <1>3, GrowKeeps
<1>7. CrawlRecorded'
  BY <1>2, <1>3, <1>6 DEF CrawlRecorded
<1>8. EdgeEndsKnown'
  BY <1>2, <1>3, <1>6 DEF UpdaterInv, EdgeEndsKnown, LinksGrow
<1>9. PageEdgesStand'
  <2>1. Visited(u)' = {} /\ \A w \in Updater \ {u} : Visited(w)' = Visited(w)
    BY <1>3 DEF Visited
  <2> QED BY <1>2, <2>1, SameVisited DEF LinksGrow
<1> QED BY <1>4, <1>5, <1>6, <1>7, <1>8, <1>9 DEF UpdaterInv

LEMMA UpsertNoFollowStep ==
  ASSUME UpdaterInv, NEW u \in Updater, NEW d \in URL, UpsertNoFollow(u, d)
  PROVE  UpdaterInv'
<1> USE DEF UpsertNoFollow
<1>1. LinksGrow
  BY UpsertLinkGrows, ClockAssumption DEF UpdaterInv, TypeOK
<1>2. \A w \in Updater \ {u} : todo'[w] = todo[w]
  BY DEF UpdaterInv, TypeOK
<1>3. TypeOK'
  BY <1>1 DEF UpdaterInv, TypeOK, LinksGrow
<1>4. AtWork'
  BY DEF UpdaterInv, AtWork
<1>5. /\ NoStaleEdges' /\ edges' \subseteq links' \X links' /\ Past'
      /\ \A w \in Updater : pc[w] \in {"nofollow", "dst", "edge", "done"}
                            /\ pc'[w] # "idle" =>
           page'[w].url \in links' /\ retrievedAt'[page'[w].url] >= stamp'[w]
  BY <1>1, GrowKeeps
<1>6. CrawlRecorded'
  BY <1>5 DEF CrawlRecorded
<1>7. EdgeEndsKnown'
  BY <1>1, <1>5 DEF UpdaterInv, EdgeEndsKnown, LinksGrow
<1>8. PageEdgesStand'
  <2>1. Visited(u)' = {} /\ \A w \in Updater \ {u} : Visited(w)' = Visited(w)
    BY <1>2 DEF Visited
  <2> QED BY <1>1, <2>1, SameVisited DEF LinksGrow
<1> QED BY <1>3, <1>4, <1>5, <1>6, <1>7, <1>8 DEF UpdaterInv

LEMMA ReadClockStep ==
  ASSUME UpdaterInv, NEW u \in Updater, ReadClock(u)
  PROVE  UpdaterInv'
<1> USE DEF ReadClock, cdbVars, linkTable, edgeTable
<1>1. page[u] \in Page /\ page[u].links \subseteq URL
  BY PageParts DEF UpdaterInv, AtWork
<1>2. /\ pc'[u] = "dst" /\ cutoff'[u] = now /\ todo'[u] = page[u].links
      /\ \A w \in Updater \ {u} : /\ pc'[w] = pc[w] /\ cutoff'[w] = cutoff[w]
                                  /\ todo'[w] = todo[w]
  BY DEF UpdaterInv, TypeOK
<1>3. TypeOK'
  BY <1>1 DEF UpdaterInv, TypeOK
<1>4. AtWork'
  BY <1>1, <1>2 DEF UpdaterInv, AtWork
<1>5. Past'
  BY <1>2 DEF UpdaterInv, TypeOK, Past
<1>6. CrawlRecorded' /\ EdgeEndsKnown' /\ NoStaleEdges'
  BY <1>2 DEF UpdaterInv, CrawlRecorded, EdgeEndsKnown, NoStaleEdges
<1>7. PageEdgesStand'
  <2>1. Visited(u)' = {} /\ \A w \in Updater \ {u} : Visited(w)' = Visited(w)
    BY <1>2 DEF Visited
  <2> QED BY <1>2, <2>1, SameVisited
<1> QED BY <1>3, <1>4, <1>5, <1>6, <1>7 DEF UpdaterInv

LEMMA UpsertDstStep ==
  ASSUME UpdaterInv, NEW u \in Updater, NEW d \in URL, UpsertDst(u, d)
  PROVE  UpdaterInv'
<1> USE DEF UpsertDst, AddDst
<1>1. LinksGrow /\ d \in links'
  BY UpsertLinkGrows, ClockAssumption DEF UpdaterInv, TypeOK
<1>2. /\ pc'[u] = "edge" /\ dst'[u] = d /\ todo'[u] = todo[u] \ {d}
      /\ \A w \in Updater \ {u} : /\ pc'[w] = pc[w] /\ dst'[w] = dst[w]
                                  /\ todo'[w] = todo[w]
  BY DEF UpdaterInv, TypeOK
<1>3. TypeOK'
  BY <1>1 DEF UpdaterInv, TypeOK, LinksGrow
<1>4. AtWork'
  BY <1>2 DEF UpdaterInv, AtWork
<1>5. /\ NoStaleEdges' /\ edges' \subseteq links' \X links' /\ Past'
      /\ \A w \in Updater : pc[w] \in {"nofollow", "dst", "edge", "done"}
                            /\ pc'[w] # "idle" =>
           page'[w].url \in links' /\ retrievedAt'[page'[w].url] >= stamp'[w]
  BY <1>1, <1>2, GrowKeeps
<1>6. CrawlRecorded'
  BY <1>2, <1>5 DEF CrawlRecorded
<1>7. EdgeEndsKnown'
  <2>1. page[u].url \in links /\ links \subseteq links'
    BY <1>1 DEF UpdaterInv, CrawlRecorded, LinksGrow
  <2> QED BY <1>1, <1>2, <1>5, <2>1 DEF UpdaterInv, EdgeEndsKnown
<1>8. PageEdgesStand'
  <2>1. Visited(u)' = Visited(u) /\ \A w \in Updater \ {u} : Visited(w)' = Visited(w)
    BY <1>2 DEF Visited
  <2> QED BY <1>1, <2>1, SameVisited DEF LinksGrow
<1> QED BY <1>3, <1>4, <1>5, <1>6, <1>7, <1>8 DEF UpdaterInv

LEMMA UpsertPageEdgeStep ==
  ASSUME UpdaterInv, NEW u \in Updater, UpsertPageEdge(u)
  PROVE  UpdaterInv'
<1> USE DEF UpsertPageEdge, UpsertEdge, Refreshed, linkTable
<1> DEFINE e == <<page[u].url, dst[u]>>
<1>1. /\ page[u] \in Page /\ page[u].url \in URL /\ dst[u] \in URL
      /\ {page[u].url, dst[u]} \subseteq links
  BY PageParts DEF UpdaterInv, AtWork, EdgeEndsKnown
<1>2. /\ edges' = edges \cup {e} /\ e \in Pair
      /\ updatedAt' \in [Pair -> Time] /\ updatedAt'[e] = now
      /\ \A f \in Pair \ {e} : updatedAt'[f] = updatedAt[f]
  BY <1>1 DEF UpdaterInv, TypeOK
<1>3. /\ pc'[u] = "dst" /\ dst'[u] = Null
      /\ \A w \in Updater \ {u} : pc'[w] = pc[w] /\ dst'[w] = dst[w]
  BY DEF UpdaterInv, TypeOK
<1>4. e[1] = page[u].url /\ e[2] = dst[u]
  OBVIOUS
<1> HIDE DEF e
<1>5. TypeOK'
  <2>1. edges' \subseteq Pair
    BY <1>2 DEF UpdaterInv, TypeOK
  <2> QED BY <1>2, <2>1 DEF UpdaterInv, TypeOK
<1>6. AtWork' /\ Past'
  BY <1>1, <1>3 DEF UpdaterInv, AtWork, Past
<1>7. CrawlRecorded'
  BY <1>3 DEF UpdaterInv, CrawlRecorded
<1>8. EdgeEndsKnown'
  BY <1>1, <1>2, <1>3, <1>4 DEF UpdaterInv, EdgeEndsKnown, e
<1>9. NoStaleEdges'
  <2> SUFFICES ASSUME NEW f \in edges' PROVE updatedAt'[f] >= swept[f[1]]
    BY DEF NoStaleEdges
  <2>1. CASE f = e
    <3>1. swept[e[1]] <= now
      BY <1>1, <1>4 DEF UpdaterInv, Past
    <3>2. swept[e[1]] \in Nat /\ now \in Nat
      BY <1>1, <1>4 DEF UpdaterInv, TypeOK
    <3> QED BY <1>2, <2>1, <3>1, <3>2
  <2>2. CASE f # e
    <3>1. f \in edges /\ f \in Pair
      BY <1>2, <2>2 DEF UpdaterInv, TypeOK
    <3> QED BY <1>2, <2>2, <3>1 DEF UpdaterInv, NoStaleEdges
  <2> QED BY <2>1, <2>2
<1>10. PageEdgesStand'
  <2> SUFFICES ASSUME NEW w \in Updater, NEW d \in Visited(w)',
                      swept[page[w].url] <= cutoff[w]
               PROVE  /\ <<page[w].url, d>> \in edges'
                      /\ updatedAt'[<<page[w].url, d>>] >= cutoff[w]
    BY DEF PageEdgesStand
  <2>1. /\ page[w] \in Page /\ page[w].url \in URL /\ d \in URL
        /\ d \in Visited(w) \/ (w = u /\ d = dst[u])
    <3>1. CASE w = u
      BY <1>1, <1>3, <3>1, PageParts DEF Visited
    <3>2. CASE w # u
      <4>1. Visited(w)' = Visited(w) /\ pc[w] # "idle"
        BY <1>3, <3>2 DEF Visited
      <4>2. page[w] \in Page /\ Visited(w) \subseteq page[w].links
        BY <4>1 DEF UpdaterInv, AtWork, Visited
      <4> QED BY <4>1, <4>2, PageParts
    <3> QED BY <3>1, <3>2
  <2>2. cutoff[w] <= now /\ now \in Nat /\ cutoff[w] \in Nat
    BY DEF UpdaterInv, TypeOK, Past
  <2>3. CASE <<page[w].url, d>> = e
    BY <1>2, <2>2, <2>3
  <2>4. CASE <<page[w].url, d>> # e
    <3>1. d \in Visited(w)
      BY <2>1, <2>4 DEF e
    <3>2. <<page[w].url, d>> \in edges /\ updatedAt[<<page[w].url, d>>] >= cutoff[w]
      BY <3>1 DEF UpdaterInv, PageEdgesStand
    <3>3. <<page[w].url, d>> \in Pair
      BY <2>1
    <3> QED BY <1>2, <2>4, <3>2, <3>3
  <2> QED BY <2>3, <2>4
<1> QED BY <1>5, <1>6, <1>7, <1>8, <1>9, <1>10 DEF UpdaterInv

LEMMA SweepStep ==
  ASSUME UpdaterInv, NEW u \in Updater, Sweep(u)
  PROVE  UpdaterInv'
<1> USE DEF Sweep, RemoveStalEdges, linkTable
<1> DEFINE t == cutoff[u]
           x == page[u].url
<1>1. page[u] \in Page /\ x \in URL /\ t \in Nat /\ t <= now /\ t \in Time /\ now \in Nat
  BY PageParts DEF UpdaterInv, AtWork, TypeOK, Past
<1>2. \A f \in edges : f \notin edges' <=> f[1] = x /\ updatedAt[f] < t
  BY DEF Stale
<1>3. edges' \subseteq edges
  OBVIOUS
<1>4. /\ swept' = [swept EXCEPT ![x] = IF swept[x] > t THEN swept[x] ELSE t]
      /\ swept \in [URL -> Time]
  BY DEF UpdaterInv, TypeOK
<1> HIDE DEF t, x
<1>5. /\ swept' \in [URL -> Time]
      /\ swept'[x] = IF swept[x] > t THEN swept[x] ELSE t
      /\ \A y \in URL \ {x} : swept'[y] = swept[y]
  BY <1>1, <1>4
<1>6. \A y \in URL : /\ swept[y] \in Nat /\ swept'[y] \in Nat
                     /\ swept'[y] >= swept[y] /\ swept'[y] <= now
  BY <1>1, <1>4, <1>5 DEF UpdaterInv, Past
<1>7. pc'[u] = "done" /\ pc[u] = "dst" /\ \A w \in Updater \ {u} : pc'[w] = pc[w]
  BY DEF UpdaterInv, TypeOK
<1>8. TypeOK'
  BY <1>3, <1>5 DEF UpdaterInv, TypeOK
<1>9. AtWork' /\ Past'
  BY <1>1, <1>6, <1>7 DEF UpdaterInv, AtWork, Past
<1>10. CrawlRecorded'
  BY <1>7 DEF UpdaterInv, CrawlRecorded
<1>11. EdgeEndsKnown'
  BY <1>3, <1>7 DEF UpdaterInv, EdgeEndsKnown
<1>12. NoStaleEdges'
  <2> SUFFICES ASSUME NEW f \in edges' PROVE updatedAt[f] >= swept'[f[1]]
    BY DEF NoStaleEdges
  <2>1. f \in edges /\ f[1] \in URL /\ updatedAt[f] \in Nat
    BY <1>3 DEF UpdaterInv, TypeOK
  <2>2. updatedAt[f] >= swept[f[1]]
    BY <2>1 DEF UpdaterInv, NoStaleEdges
  <2> QED BY <1>1, <1>2, <1>5, <1>6, <2>1, <2>2
<1>13. PageEdgesStand'
  <2> SUFFICES ASSUME NEW w \in Updater, NEW d \in Visited(w)',
                      swept'[page[w].url] <= cutoff[w]
               PROVE  /\ <<page[w].url, d>> \in edges'
                      /\ updatedAt[<<page[w].url, d>>] >= cutoff[w]
    BY DEF PageEdgesStand
  <2> DEFINE f == <<page[w].url, d>>
  <2>1. d \in Visited(w) /\ pc[w] # "idle"
    BY <1>7 DEF Visited
  <2>2. page[w].url \in URL /\ cutoff[w] \in Nat
    BY <2>1, PageParts DEF UpdaterInv, AtWork, TypeOK
  <2>3. swept[page[w].url] <= cutoff[w]
    BY <1>6, <2>2
  <2>4. f \in edges /\ updatedAt[f] >= cutoff[w]
    BY <2>1, <2>3 DEF UpdaterInv, PageEdgesStand
  <2>5. updatedAt[f] \in Nat /\ f[1] = page[w].url
    BY <2>4 DEF UpdaterInv, TypeOK
  <2>6. f \in edges'
    <3>1. page[w].url = x => t <= cutoff[w]
      BY <1>1, <1>5, <1>6, <2>2
    <3> QED BY <1>1, <1>2, <2>2, <2>4, <2>5, <3>1
  <2> QED BY <2>4, <2>6
<1> QED BY <1>8, <1>9, <1>10, <1>11, <1>12, <1>13 DEF UpdaterInv

LEMMA FailStep ==
  ASSUME UpdaterInv, NEW u \in Updater, Fail(u)
  PROVE  UpdaterInv'
<1> USE DEF Fail, cdbVars, linkTable, edgeTable
<1>1. /\ pc'[u] = "idle" /\ stamp'[u] = 0 /\ cutoff'[u] = 0
      /\ \A w \in Updater \ {u} :
           /\ pc'[w] = pc[w] /\ page'[w] = page[w] /\ stamp'[w] = stamp[w]
           /\ cutoff'[w] = cutoff[w] /\ todo'[w] = todo[w] /\ dst'[w] = dst[w]
  BY DEF UpdaterInv, TypeOK
<1>2. TypeOK'
  BY ClockAssumption DEF UpdaterInv, TypeOK
<1>3. AtWork'
  BY <1>1 DEF UpdaterInv, AtWork
<1>4. Past'
  BY <1>1 DEF UpdaterInv, TypeOK, Past
<1>5. CrawlRecorded' /\ EdgeEndsKnown' /\ NoStaleEdges'
  BY <1>1 DEF UpdaterInv, CrawlRecorded, EdgeEndsKnown, NoStaleEdges
<1>6. PageEdgesStand'
  <2>1. Visited(u)' = {} /\ \A w \in Updater \ {u} : Visited(w)' = Visited(w)
    BY <1>1 DEF Visited
  <2> QED BY <1>1, <2>1, SameVisited
<1> QED BY <1>2, <1>3, <1>4, <1>5, <1>6 DEF UpdaterInv

LEMMA UpdaterStep ==
  ASSUME UpdaterInv, [Next]_vars
  PROVE  UpdaterInv'
<1>1. CASE Tick /\ UNCHANGED <<procVars, swept>>
  BY <1>1, TickStep
<1>2. CASE UNCHANGED vars
  <2> USE <1>2 DEF vars, cdbVars, procVars, linkTable, edgeTable
  <2>1. TypeOK' /\ AtWork' /\ Past'
    BY DEF UpdaterInv, TypeOK, AtWork, Past
  <2>2. CrawlRecorded' /\ EdgeEndsKnown' /\ NoStaleEdges'
    BY DEF UpdaterInv, CrawlRecorded, EdgeEndsKnown, NoStaleEdges
  <2>3. PageEdgesStand'
    BY DEF UpdaterInv, PageEdgesStand, Visited
  <2> QED BY <2>1, <2>2, <2>3 DEF UpdaterInv
<1>3. ASSUME NEW u \in Updater, NEW p \in Page, Process(u, p)
      PROVE  UpdaterInv'
  BY <1>3, ProcessStep
<1>4. ASSUME NEW u \in Updater,
             UpsertSrc(u) \/ ReadClock(u) \/ UpsertPageEdge(u) \/ Sweep(u) \/ Fail(u)
      PROVE  UpdaterInv'
  BY <1>4, UpsertSrcStep, ReadClockStep, UpsertPageEdgeStep, SweepStep, FailStep
<1>5. ASSUME NEW u \in Updater, NEW d \in URL, UpsertNoFollow(u, d) \/ UpsertDst(u, d)
      PROVE  UpdaterInv'
  BY <1>5, UpsertNoFollowStep, UpsertDstStep
<1> QED BY <1>1, <1>2, <1>3, <1>4, <1>5 DEF Next

-----------------------------------------------------------------------------
(* The inductive invariant holds of every behaviour of the updaters.       *)
THEOREM UpdaterInvariant == Spec => []UpdaterInv
<1>1. Init => UpdaterInv
  BY Initially
<1>2. UpdaterInv /\ [Next]_vars => UpdaterInv'
  BY UpdaterStep
<1> QED BY <1>1, <1>2, PTL DEF Spec

(* Type correctness.                                                       *)
THEOREM UpdaterTypeCorrect == Spec => []TypeOK
<1>1. UpdaterInv => TypeOK
  BY DEF UpdaterInv
<1> QED BY <1>1, UpdaterInvariant, PTL

(* The edges of a visited page stand until a later crawl removes them.     *)
THEOREM VisitedEdgesStand == Spec => []PageEdgesStand
<1>1. UpdaterInv => PageEdgesStand
  BY DEF UpdaterInv
<1> QED BY <1>1, UpdaterInvariant, PTL

(* No edge of a page is older than the latest cutoff removed from it.      *)
THEOREM StaleEdgesGone == Spec => []NoStaleEdges
<1>1. UpdaterInv => NoStaleEdges
  BY DEF UpdaterInv
<1> QED BY <1>1, UpdaterInvariant, PTL

(* A crawled url keeps the time of the crawl or a later one.               *)
THEOREM CrawlsAreRecorded == Spec => []CrawlRecorded
<1>1. UpdaterInv => CrawlRecorded
  BY DEF UpdaterInv
<1> QED BY <1>1, UpdaterInvariant, PTL

(* The ends of an edge are links before the edge is upserted.              *)
THEOREM EndsAreKnown == Spec => []EdgeEndsKnown
<1>1. UpdaterInv => EdgeEndsKnown
  BY DEF UpdaterInv
<1> QED BY <1>1, UpdaterInvariant, PTL

(* Edges are removed only by an updater at the end of the page they leave, *)
(* and only those to links the page no longer has.                         *)
THEOREM RemovedAreStale == Spec => OnlyStaleRemoved
<1> DEFINE Spared ==
      \A e \in edges \ edges' :
        \E u \in Updater : /\ pc[u] = "dst" /\ pc'[u] = "done"
                           /\ page[u].url = e[1] /\ e[2] \notin page[u].links
<1>1. ASSUME UpdaterInv, NEW u \in Updater, Sweep(u)
      PROVE  Spared
  <2> SUFFICES ASSUME NEW e \in edges \ edges'
               PROVE  /\ pc[u] = "dst" /\ pc'[u] = "done"
                      /\ page[u].url = e[1] /\ e[2] \notin page[u].links
    OBVIOUS
  <2>1. pc[u] = "dst" /\ pc'[u] = "done" /\ todo[u] = {}
    BY <1>1 DEF Sweep, UpdaterInv, TypeOK
  <2>2. e[1] = page[u].url /\ updatedAt[e] < cutoff[u]
    BY <1>1 DEF Sweep, RemoveStalEdges, Stale
  <2>3. /\ e = <<e[1], e[2]>> /\ e[1] \in URL
        /\ updatedAt[e] \in Nat /\ cutoff[u] \in Nat /\ swept[e[1]] \in Nat
    BY <1>1 DEF UpdaterInv, TypeOK
  <2>4. swept[e[1]] <= updatedAt[e]
    BY <1>1, <2>3 DEF UpdaterInv, NoStaleEdges
  <2>5. ASSUME e[2] \in page[u].links
        PROVE  FALSE
    <3>1. e[2] \in Visited(u)
      BY <2>1, <2>5 DEF Visited
    <3>2. swept[page[u].url] <= cutoff[u]
      BY <2>2, <2>3, <2>4
    <3>3. updatedAt[e] >= cutoff[u]
      BY <1>1, <2>2, <2>3, <3>1, <3>2 DEF UpdaterInv, PageEdgesStand
    <3> QED BY <2>2, <2>3, <3>3
  <2> QED BY <2>1, <2>2, <2>5
<1>2. ASSUME UpdaterInv, [Next]_vars
      PROVE  Spared
  <2>1. edges \subseteq edges' \/ \E u \in Updater : Sweep(u)
    BY <1>2 DEF Next, Tick, Process, UpsertSrc, ReadClock, UpsertPageEdge, Fail,
       UpsertNoFollow, UpsertDst, AddDst, UpsertLink, UpsertEdge,
       vars, cdbVars, edgeTable
  <2> QED BY <1>1, <1>2, <2>1
<1> HIDE DEF Spared
<1>3. Spec => [][Spared]_vars
  BY <1>2, UpdaterInvariant, PTL DEF Spec
<1> QED BY <1>3 DEF OnlyStaleRemoved, Spared
=============================================================================
