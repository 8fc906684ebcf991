----------------------------- MODULE MCCrawler -----------------------------
(***************************************************************************)
(* The crawler package for TLC.  A crawl never gets to the graph updater   *)
(* (see Crawler), so the run has two parts and picks one at the start: the *)
(* stages of a crawl, or graph updaters over the database, with two        *)
(* versions of one page that swap what is to be followed and a page that   *)
(* links to both.                                                          *)
(***************************************************************************)
EXTENDS GraphUpdater, Crawler, TLC

CONSTANTS site1, site2    \* urls

MCURL == {site1, site2}
MCPage ==
  { [url |-> site1, nofollow |-> {site1}, links |-> {site2}],
    [url |-> site1, nofollow |-> {site2}, links |-> {site1}],
    [url |-> site2, nofollow |-> {}, links |-> {site1, site2}] }

VARIABLE part

PackageInit == part \in {"stages", "updaters"} /\ Init /\ CrawlInit
PackageNext ==
  /\ UNCHANGED part
  /\ \/ part = "updaters" /\ Next /\ UNCHANGED crawlVars
     \/ part = "stages" /\ CrawlNext /\ UNCHANGED vars
PackageSpec == PackageInit /\ [][PackageNext]_<<part, vars, crawlVars>>

Symmetry == Permutations(Updater) \cup Permutations(Obj) \cup Permutations(Fetcher)
=============================================================================
