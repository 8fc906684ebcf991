------------------------------ MODULE Crawler ------------------------------
(***************************************************************************)
(* The stages assembleCrawlerPipeline puts together, and the payloads that *)
(* go through them: objects of payloadPool that stages fill in, copy and   *)
(* give back.  Pipeline has the machinery between the stages; what of it   *)
(* matters here is who may return when.                                    *)
(*                                                                         *)
(* Left out because the code never gets there: links (resolveURL gives     *)
(* none, see ExtractLinks) and the graph updater (see BroadcastPastEnd).   *)
(* Servers, the link rows of the database and the index are external.      *)
(***************************************************************************)
EXTENDS Naturals, FiniteSets

CONSTANTS
  Link,       \* rows of the link iterator; also stands for its url and page
  Titled,     \* pages with a title
  Fetcher,    \* FIFOs of the fixed worker pool
  Obj,        \* payload objects: enough never to run out
  NoLink, NoObj, NoDocument

ASSUME CrawlAssumption ==
  /\ Titled \subseteq Link /\ NoLink \notin Link
  /\ NoObj \notin Obj
  /\ Fetcher \cap {"source", "links", "text", "broadcast", "index", "sink", "clone"} = {}
  /\ IsFiniteSet(Obj) /\ IsFiniteSet(Link)
  /\ Cardinality(Obj) > Cardinality(Link)

Routine == Fetcher \cup {"source", "links", "text", "broadcast", "index", "sink"}
Place == Routine \cup {"clone"}    \* fifoPayload, in broadcast

VARIABLES
  at,         \* what each goroutine does: "idle" is to receive, or the source's Next
  held,       \* its payload, or NoObj
  payload,    \* the fields of every payload object
  payloadPool,\* objects that Get may return, put back or not made yet
  rows,       \* links of the iterator that are still to come
  failed,     \* an error was emitted: source and sink are cancelled
  ctxDone,    \* the caller's context is done
  crashed,    \* a panic has ended the program
  indexed     \* what was indexed last for each link

crawlVars == <<at, held, payload, payloadPool, rows, failed, ctxDone, crashed, indexed>>

(* Pages are named by their url; RawContent and TextContext are the set of *)
(* pages in them.                                                          *)
New == [LinkID |-> NoLink, URL |-> NoLink, RawContent |-> {},
        Title |-> NoLink, TextContext |-> {}]

CrawlInit ==
  /\ at = [r \in Routine |-> "idle"]
  /\ held = [p \in Place |-> NoObj]
  /\ payload = [o \in Obj |-> New]
  /\ payloadPool = Obj
  /\ rows = Link
  /\ failed = FALSE /\ ctxDone = FALSE /\ crashed = FALSE
  /\ indexed = [l \in Link |-> NoDocument]

Of(r) == payload[held[r]]
Set(r, new) == payload' = [payload EXCEPT ![held[r]] = new]
Go(r, where) == at' = [at EXCEPT ![r] = where]

(* The goroutine goes on without its payload.                              *)
Keeps(r) == held                         \* mutant
Without(r) == [held EXCEPT ![r] = NoObj]
Leaves(r, where) == Go(r, where) /\ held' = Without(r)

(* MarkAsProcessed: LinkID and RetrievedAt stay.                           *)
ResetButTitle(p) ==                      \* mutant
  [p EXCEPT !.URL = NoLink, !.RawContent = {}, !.TextContext = {}]
Reset(p) == [New EXCEPT !.LinkID = p.LinkID]
MarkAsProcessed(r) ==
  /\ Set(r, Reset(Of(r)))
  /\ payloadPool' = payloadPool \cup {held[r]}
  /\ Leaves(r, "idle")

Emit == failed' = TRUE

-----------------------------------------------------------------------------
(* linkSource.                                                             *)
Payload(l, o) ==
  /\ at["source"] = "idle"
  /\ l \in rows /\ rows' = rows \ {l}
  /\ o \in payloadPool /\ payloadPool' = payloadPool \ {o}
  /\ payload' = [payload EXCEPT ![o].LinkID = l, ![o].URL = l]
  /\ held' = [held EXCEPT !["source"] = o]
  /\ Go("source", "send")
  /\ UNCHANGED <<failed, ctxDone, crashed, indexed>>

(* A row that does not scan is an error.  No more rows are not, nor are    *)
(* rows that failed to come: nobody asks rows.Err().                       *)
RowsEnd ==
  /\ at["source"] = "idle"
  /\ Go("source", "gone")
  /\ Emit \/ UNCHANGED failed
  /\ UNCHANGED <<held, payload, payloadPool, rows, ctxDone, crashed, indexed>>

-----------------------------------------------------------------------------
(* Who sends to whom, and whose end closes the channel: the output of the  *)
(* broadcast stage is closed when all its goroutines are gone; that of the *)
(* source is closed by the sink, too.                                      *)
Sends == ({"source"} \X Fetcher) \cup (Fetcher \X {"links"})
         \cup {<<"links", "text">>, <<"text", "broadcast">>, <<"index", "sink">>}
Closers(r) == {s \in Routine : <<s, r>> \in Sends}
              \cup CASE r = "index" -> {"broadcast"}
                     [] r = "sink"  -> {"broadcast"}
                     [] OTHER       -> {}
Gone(r) == at[r] = "gone"
InputClosed(r) == \/ r # "source" /\ \A s \in Closers(r) : Gone(s)
                  \/ r \in Fetcher /\ Gone("sink")

HandOver(s, r) ==
  /\ <<s, r>> \in Sends
  /\ at[s] = "send" /\ at[r] = "idle" /\ ~InputClosed(r)
  /\ at' = [at EXCEPT ![s] = "idle", ![r] = "busy"]
  /\ held' = [held EXCEPT ![s] = NoObj, ![r] = held[s]]
  /\ UNCHANGED <<payload, payloadPool, rows, failed, ctxDone, crashed, indexed>>

(* A goroutine returns from a select, and what it was to send is lost.     *)
Done(r) == ctxDone \/ (r \in {"source", "sink"} /\ failed)
Return(r) ==
  /\ \/ at[r] = "send" /\ Done(r)
     \/ at[r] = "idle" /\ r # "source" /\ (Done(r) \/ InputClosed(r))
  /\ Go(r, "gone")
  /\ held' = [p \in Place |->
                IF p = r \/ (r = "broadcast" /\ p = "clone") THEN NoObj ELSE held[p]]
  /\ UNCHANGED <<payload, payloadPool, rows, failed, ctxDone, crashed, indexed>>

ContextDone ==
  /\ ~ctxDone /\ ctxDone' = TRUE
  /\ UNCHANGED <<at, held, payload, payloadPool, rows, failed, crashed, indexed>>

Panic ==
  /\ crashed' = TRUE
  /\ UNCHANGED <<at, held, payload, payloadPool, rows, failed, ctxDone, indexed>>

(* The channel of the source is closed twice, or under the source.         *)
SourceChannelPanics ==
  /\ Gone("sink")
  /\ at["source"] \in {"send", "gone"}
  /\ Panic

-----------------------------------------------------------------------------
(* linkFetcher: nothing to fetch, a private network, no answer; ...        *)
FetchSkips(f) ==
  /\ at[f] = "busy"
  /\ MarkAsProcessed(f)
  /\ UNCHANGED <<rows, failed, ctxDone, crashed, indexed>>

(* ... an answer, whose body is read, at least in part, ...                *)
Fetch(f) ==
  /\ at[f] = "busy"
  /\ Set(f, [Of(f) EXCEPT !.RawContent = @ \cup {Of(f).URL}])
  /\ \/ Go(f, "fetched") /\ UNCHANGED <<held, failed>>
     \/ Leaves(f, "gone") /\ Emit
  /\ UNCHANGED <<payloadPool, rows, ctxDone, crashed, indexed>>

(* ... and that is a page of html or not.                                  *)
FetchedPage(f) ==
  /\ at[f] = "fetched"
  /\ Go(f, "send")
  /\ UNCHANGED <<held, payload, payloadPool, rows, failed, ctxDone, crashed, indexed>>

FetchedOther(f) ==
  /\ at[f] = "fetched"
  /\ MarkAsProcessed(f)
  /\ UNCHANGED <<rows, failed, ctxDone, crashed, indexed>>

(* linkExtractor: resolveURL is nil for a link that parses, and so no link *)
(* is kept; it panics on one that does not parse, as ensureHasTrailingSlash*)
(* does on an empty base.                                                  *)
ExtractLinks ==
  /\ at["links"] = "busy"
  /\ \/ /\ Go("links", "send")
        /\ UNCHANGED <<held, payload, payloadPool, rows, failed, ctxDone, crashed, indexed>>
     \/ Panic

(* textExtractor: a page without a title leaves Title as it is; reading    *)
(* the text empties RawContent.                                            *)
ExtractText ==
  LET p == Of("text")
      titles == p.RawContent \cap Titled
  IN
  /\ at["text"] = "busy"
  /\ Set("text", [p EXCEPT !.Title = IF titles = {} THEN @ ELSE CHOOSE t \in titles : TRUE,
                           !.TextContext = p.RawContent,
                           !.RawContent = {}])
  /\ Go("text", "send")
  /\ UNCHANGED <<held, payloadPool, rows, failed, ctxDone, crashed, indexed>>

-----------------------------------------------------------------------------
(* broadcast begins with the last FIFO, the indexer's, which gets a clone, *)
(* and the clone the rest of RawContent, ...                               *)
TheSame(o) == held["broadcast"]          \* mutant: the payload itself
TheClone(o) == o
Clone(o) ==
  LET p == held["broadcast"] IN
  /\ at["broadcast"] = "busy"
  /\ o \in payloadPool /\ payloadPool' = payloadPool \ {o}
  /\ payload' = [payload EXCEPT
       ![o] = [payload[p] EXCEPT !.RawContent = @ \cup payload[o].RawContent],
       ![p].RawContent = {}]
  /\ held' = [held EXCEPT !["clone"] = TheClone(o)]
  /\ Go("broadcast", "send")
  /\ UNCHANGED <<rows, failed, ctxDone, crashed, indexed>>

SendClone ==
  /\ at["broadcast"] = "send" /\ at["index"] = "idle"
  /\ at' = [at EXCEPT !["broadcast"] = "next", !["index"] = "busy"]
  /\ held' = [held EXCEPT !["clone"] = NoObj, !["index"] = held["clone"]]
  /\ UNCHANGED <<payload, payloadPool, rows, failed, ctxDone, crashed, indexed>>

(* ... and counts on from there: the next FIFO is past the end.            *)
BroadcastPastEnd == at["broadcast"] = "next" /\ Panic

(* textIndexer.                                                            *)
IndexText ==
  LET p == Of("index") IN
  /\ at["index"] = "busy"
  /\ \/ /\ indexed' = [indexed EXCEPT ![p.LinkID] =
                         [title |-> p.Title, text |-> p.TextContext]]
        /\ Go("index", "send")
        /\ UNCHANGED <<held, failed>>
     \/ /\ Leaves("index", "gone") /\ Emit
        /\ UNCHANGED indexed
  /\ UNCHANGED <<payload, payloadPool, rows, ctxDone, crashed>>

Consume ==
  /\ at["sink"] = "busy"
  /\ MarkAsProcessed("sink")
  /\ UNCHANGED <<rows, failed, ctxDone, crashed, indexed>>

-----------------------------------------------------------------------------
(* A panic ends the program, and nothing else ends a crawl: when all its   *)
(* goroutines are gone the channel of the source is closed twice.          *)
Crashed == crashed /\ UNCHANGED crawlVars

Crawling ==
  /\ ~crashed
  /\ \/ \E o \in Obj : Clone(o) \/ \E l \in Link : Payload(l, o)
     \/ RowsEnd \/ ContextDone \/ SourceChannelPanics
     \/ \E r \in Routine : Return(r) \/ \E s \in Routine : HandOver(s, r)
     \/ \E f \in Fetcher : FetchSkips(f) \/ Fetch(f) \/ FetchedPage(f) \/ FetchedOther(f)
     \/ ExtractLinks \/ ExtractText
     \/ SendClone \/ BroadcastPastEnd \/ IndexText \/ Consume

CrawlNext == Crawling \/ Crashed

CrawlSpec == CrawlInit /\ [][CrawlNext]_crawlVars

-----------------------------------------------------------------------------
(* Type invariant.                                                         *)
CrawlTypeOK ==
  /\ at \in [Routine -> {"idle", "busy", "fetched", "send", "next", "gone"}]
  /\ held \in [Place -> Obj \cup {NoObj}]
  /\ payload \in [Obj -> [LinkID : Link \cup {NoLink}, URL : Link \cup {NoLink},
                          RawContent : SUBSET Link, Title : Link \cup {NoLink},
                          TextContext : SUBSET Link]]
  /\ payloadPool \subseteq Obj
  /\ rows \subseteq Link
  /\ {failed, ctxDone, crashed} \subseteq BOOLEAN
  /\ indexed \in [Link -> {NoDocument} \cup [title : Link \cup {NoLink}, text : SUBSET Link]]
  /\ \A r \in Routine : held[r] # NoObj <=> at[r] \in {"busy", "fetched", "send", "next"}

(* "as each FIFO might modify the payload, to avoid data race we need to   *)
(* copy": a payload object is with one stage, or in the pool.              *)
OneHolder ==
  \A p, q \in Place :
    held[p] # NoObj => /\ held[p] \notin payloadPool
                       /\ held[p] = held[q] => p = q

(* What a stage works on is of one link: an object that is used again      *)
(* carries nothing over from the link it was used for before.  And what is *)
(* indexed for a link is its page, whole, with the title if it has one.    *)
PagesDoNotMix ==
  /\ \A r \in Place : held[r] # NoObj =>
       LET p == Of(r) IN
       /\ p.URL = p.LinkID
       /\ p.RawContent \cup p.TextContext \subseteq {p.LinkID}
       /\ p.Title \in {p.LinkID, NoLink}
  /\ \A l \in Link : indexed[l] # NoDocument =>
       indexed[l] = [title |-> IF l \in Titled THEN l ELSE NoLink, text |-> {l}]
=============================================================================
