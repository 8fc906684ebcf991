--------------------------- MODULE CrawlerProofs ---------------------------
(***************************************************************************)
(* Machine-checked proofs about Crawler, for any links, pages, fetchers    *)
(* and payload objects.                                                    *)
(***************************************************************************)
EXTENDS Crawler, TLAPS

(* What a payload is on its way: with a link to fetch, with a page that    *)
(* was fetched, with the text of the page.                                 *)
TitleOf(l) == IF l \in Titled THEN l ELSE NoLink

Linked(p)    == p.LinkID \in Link /\ p.URL = p.LinkID
Fresh(p)     == Linked(p) /\ p.RawContent = {} /\ p.Title = NoLink /\ p.TextContext = {}
Fetched(p)   == Linked(p) /\ p.RawContent = {p.LinkID} /\ p.Title = NoLink /\ p.TextContext = {}
Extracted(p) == /\ Linked(p) /\ p.RawContent = {}
                /\ p.Title = TitleOf(p.LinkID) /\ p.TextContext = {p.LinkID}
Clean(p)     == /\ p.URL = NoLink /\ p.RawContent = {}
                /\ p.Title = NoLink /\ p.TextContext = {}

(* Which of these a routine has, by where it is.                           *)
ToFetch(r, where) == r = "source" \/ (r \in Fetcher /\ where = "busy")
ToExtract(r, where) ==
  ~ToFetch(r, where) /\ (r \in Fetcher \cup {"links"} \/ (r = "text" /\ where = "busy"))
Fits(r, where, p) ==
  /\ ToFetch(r, where) => Fresh(p)
  /\ ToExtract(r, where) => Fetched(p)
  /\ ~ToFetch(r, where) /\ ~ToExtract(r, where) => Extracted(p)

PayloadType ==
  [LinkID : Link \cup {NoLink}, URL : Link \cup {NoLink}, RawContent : SUBSET Link,
   Title : Link \cup {NoLink}, TextContext : SUBSET Link]

Indexed == {NoDocument} \cup [title : Link \cup {NoLink}, text : SUBSET Link]

Working == {"busy", "fetched", "send", "next"}

CloneHeld == held["clone"] # NoObj <=> at["broadcast"] = "send"
PoolClean == \A o \in payloadPool : Clean(payload[o])
Contents ==
  /\ \A r \in Routine : held[r] # NoObj => Fits(r, at[r], payload[held[r]])
  /\ held["clone"] # NoObj => Extracted(payload[held["clone"]])
IndexRight ==
  \A l \in Link : indexed[l] # NoDocument => indexed[l] = [title |-> TitleOf(l), text |-> {l}]

(* The inductive invariant: a payload is as its place needs it, one that   *)
(* is nowhere but in the pool has only its old link left.                  *)
CrawlInv ==
  /\ CrawlTypeOK /\ CloneHeld /\ OneHolder
  /\ PoolClean /\ Contents
  /\ IndexRight

LEMMA Names ==
  /\ "clone" \in Place /\ "clone" \notin Routine
  /\ \A r \in Routine : r \in Place
  /\ \A r \in {"source", "links", "text", "broadcast", "index", "sink"} :
       r \in Routine /\ r \notin Fetcher
  /\ \A f \in Fetcher : f \in Routine
  /\ \A p \in Place : p \in Routine \/ p = "clone"
  BY CrawlAssumption DEF Routine, Place

LEMMA CrawlInitially == CrawlInit => CrawlInv
<1> SUFFICES ASSUME CrawlInit
             PROVE  CrawlInv
  OBVIOUS
<1> USE DEF CrawlInit
<1>1. CrawlTypeOK
  <2>1. New \in PayloadType
    BY DEF New, PayloadType
  <2>2. payload \in [Obj -> PayloadType]
    BY <2>1
  <2>3. \A r \in Routine : held[r] = NoObj /\ at[r] = "idle"
    BY Names
  <2> QED BY <2>2, <2>3 DEF CrawlTypeOK, PayloadType
<1>2. CloneHeld /\ OneHolder
  BY Names DEF CloneHeld, OneHolder
<1>3. PoolClean /\ Contents
  BY Names DEF PoolClean, Contents, New, Clean
<1>4. IndexRight
  BY DEF IndexRight
<1> QED BY <1>1, <1>2, <1>3, <1>4 DEF CrawlInv

-----------------------------------------------------------------------------
(* Steps that move a goroutine on, or none, and touch no payload.          *)
LEMMA MoveOn ==
  ASSUME CrawlInv, UNCHANGED <<held, payload, payloadPool, indexed>>,
         rows' = rows, {failed', ctxDone', crashed'} \subseteq BOOLEAN,
         NEW r \in Routine, NEW where \in {"idle", "busy", "fetched", "send", "next", "gone"},
         at' = [at EXCEPT ![r] = where],
         where \in Working <=> at[r] \in Working,
         r = "broadcast" => (where = "send" <=> at[r] = "send"),
         at[r] \in Working =>
           /\ ToFetch(r, where) <=> ToFetch(r, at[r])
           /\ ToExtract(r, where) <=> ToExtract(r, at[r])
  PROVE  CrawlInv'
<1>1. CrawlTypeOK'
  BY Names DEF CrawlInv, CrawlTypeOK, Working
<1>2. CloneHeld' /\ OneHolder'
  BY Names DEF CrawlInv, CrawlTypeOK, CloneHeld, OneHolder
<1>3. ASSUME NEW q \in Routine, held[q] # NoObj
      PROVE  Fits(q, at'[q], payload[held[q]])
  <2>1. Fits(q, at[q], payload[held[q]]) /\ at[q] \in Working
    BY <1>3 DEF CrawlInv, Contents, CrawlTypeOK, Working
  <2>2. CASE q = r
    BY <2>1, <2>2 DEF Fits, CrawlInv, CrawlTypeOK
  <2>3. CASE q # r
    BY <2>1, <2>3 DEF CrawlInv, CrawlTypeOK
  <2> QED BY <2>2, <2>3
<1>4. PoolClean' /\ Contents' /\ IndexRight'
  BY <1>3 DEF CrawlInv, PoolClean, Contents, IndexRight
<1> QED BY <1>1, <1>2, <1>4 DEF CrawlInv

LEMMA Stay ==
  ASSUME CrawlInv, UNCHANGED <<at, held, payload, payloadPool, rows, indexed>>,
         {failed', ctxDone', crashed'} \subseteq BOOLEAN
  PROVE  CrawlInv'
<1>1. CrawlTypeOK'
  BY DEF CrawlInv, CrawlTypeOK
<1>2. CloneHeld' /\ OneHolder' /\ PoolClean' /\ Contents' /\ IndexRight'
  BY DEF CrawlInv, CloneHeld, OneHolder, PoolClean, Contents, IndexRight
<1> QED BY <1>1, <1>2 DEF CrawlInv

LEMMA ReturnStep ==
  ASSUME CrawlInv, NEW r \in Routine, Return(r)
  PROVE  CrawlInv'
<1> USE DEF Return, Go
<1>1. /\ held' \in [Place -> Obj \cup {NoObj}]
      /\ held'[r] = NoObj
      /\ \A q \in Routine : q # r => held'[q] = held[q]
      /\ \A p \in Place : held'[p] # NoObj => held'[p] = held[p]
      /\ held'["clone"] = IF r = "broadcast" THEN NoObj ELSE held["clone"]
  BY Names DEF CrawlInv, CrawlTypeOK
<1>2. at'[r] = "gone" /\ \A q \in Routine : q # r => at'[q] = at[q]
  BY DEF CrawlInv, CrawlTypeOK
<1>3. CrawlTypeOK'
  BY <1>1, <1>2 DEF CrawlInv, CrawlTypeOK
<1>4. CloneHeld' /\ OneHolder'
  BY <1>1, <1>2, Names DEF CrawlInv, CloneHeld, OneHolder
<1>5. PoolClean' /\ Contents' /\ IndexRight'
  BY <1>1, <1>2, Names DEF CrawlInv, PoolClean, Contents, IndexRight
<1> QED BY <1>3, <1>4, <1>5 DEF CrawlInv

LEMMA MarkStep ==
  ASSUME CrawlInv, NEW r \in Routine, at[r] \in {"busy", "fetched"}, MarkAsProcessed(r),
         UNCHANGED <<rows, failed, ctxDone, crashed, indexed>>
  PROVE  CrawlInv'
<1> DEFINE o == held[r]
<1> USE DEF MarkAsProcessed, Set, Of, Leaves, Go, Without
<1>1. o \in Obj /\ o # NoObj
  BY CrawlAssumption, Names DEF CrawlInv, CrawlTypeOK
<1>2. /\ held'[r] = NoObj /\ held' \in [Place -> Obj \cup {NoObj}]
      /\ \A p \in Place : p # r => held'[p] = held[p] /\ held[p] # o
  BY <1>1, Names DEF CrawlInv, CrawlTypeOK, OneHolder
<1>3. /\ payload'[o] = Reset(payload[o])
      /\ \A x \in Obj : x # o => payload'[x] = payload[x]
  BY <1>1 DEF CrawlInv, CrawlTypeOK
<1>4. /\ payload'[o] \in PayloadType
      /\ Clean(payload'[o])
  BY <1>1, <1>3 DEF CrawlInv, CrawlTypeOK, PayloadType, Reset, New, Clean
<1>5. at'[r] = "idle" /\ \A q \in Routine : q # r => at'[q] = at[q]
  BY DEF CrawlInv, CrawlTypeOK
<1>6. payloadPool' = payloadPool \cup {o}
  OBVIOUS
<1>7. CrawlTypeOK'
  <2>1. payload' \in [Obj -> PayloadType]
    BY <1>1, <1>4 DEF CrawlInv, CrawlTypeOK, PayloadType
  <2>2. at' \in [Routine -> {"idle", "busy", "fetched", "send", "next", "gone"}]
    BY DEF CrawlInv, CrawlTypeOK
  <2>3. \A q \in Routine : held'[q] # NoObj <=> at'[q] \in Working
    BY <1>2, <1>5, Names DEF CrawlInv, CrawlTypeOK, Working
  <2> QED BY <1>1, <1>2, <2>1, <2>2, <2>3 DEF CrawlInv, CrawlTypeOK, PayloadType, Working
<1> HIDE DEF MarkAsProcessed, o
<1>8. CloneHeld'
  BY <1>2, <1>5, Names DEF CrawlInv, CloneHeld
<1>9. OneHolder'
  BY <1>2, <1>6 DEF CrawlInv, OneHolder
<1>10. PoolClean'
  BY <1>3, <1>4, <1>6 DEF CrawlInv, PoolClean, CrawlTypeOK
<1>11. Contents'
  <2>1. ASSUME NEW p \in Place, held'[p] # NoObj
        PROVE  /\ p # r /\ held'[p] = held[p]
               /\ payload'[held'[p]] = payload[held[p]]
    BY <1>2, <1>3, <2>1 DEF CrawlInv, CrawlTypeOK
  <2> QED BY <1>5, <2>1, Names DEF CrawlInv, Contents
<1>12. IndexRight'
  BY DEF CrawlInv, IndexRight
<1> QED BY <1>7, <1>8, <1>9, <1>10, <1>11, <1>12 DEF CrawlInv

(* A stage changes the fields of the payload it works on, and keeps it.    *)
LEMMA Rewrite ==
  ASSUME CrawlInv, NEW r \in Routine, at[r] \in {"busy", "fetched"},
         NEW where \in {"fetched", "send"}, where = "send" => r # "broadcast",
         NEW new \in PayloadType, Fits(r, where, new),
         Set(r, new), Go(r, where),
         UNCHANGED <<held, payloadPool, rows, failed, ctxDone, crashed, indexed>>
  PROVE  CrawlInv'
<1> DEFINE o == held[r]
<1> USE DEF Set, Go
<1>1. o \in Obj /\ o # NoObj /\ o \notin payloadPool
  BY CrawlAssumption, Names DEF CrawlInv, CrawlTypeOK, OneHolder
<1>2. \A p \in Place : p # r /\ held[p] # NoObj => held[p] # o
  BY <1>1, Names DEF CrawlInv, OneHolder
<1>3. payload'[o] = new /\ \A x \in Obj : x # o => payload'[x] = payload[x]
  BY <1>1 DEF CrawlInv, CrawlTypeOK
<1>4. at'[r] = where /\ \A q \in Routine : q # r => at'[q] = at[q]
  BY DEF CrawlInv, CrawlTypeOK
<1>5. CrawlTypeOK'
  <2>1. payload' \in [Obj -> PayloadType]
    BY <1>1 DEF CrawlInv, CrawlTypeOK, PayloadType
  <2>2. at' \in [Routine -> {"idle", "busy", "fetched", "send", "next", "gone"}]
    BY DEF CrawlInv, CrawlTypeOK
  <2>3. \A q \in Routine : held'[q] # NoObj <=> at'[q] \in Working
    BY <1>1, <1>4 DEF CrawlInv, CrawlTypeOK, Working
  <2> QED BY <2>1, <2>2, <2>3 DEF CrawlInv, CrawlTypeOK, PayloadType, Working
<1> HIDE DEF o
<1>6. CloneHeld' /\ OneHolder' /\ IndexRight'
  BY <1>4, Names DEF CrawlInv, CloneHeld, OneHolder, IndexRight
<1>7. PoolClean'
  BY <1>1, <1>3 DEF CrawlInv, PoolClean, CrawlTypeOK
<1>8. Contents'
  <2>1. ASSUME NEW q \in Routine, held[q] # NoObj
        PROVE  Fits(q, at'[q], payload'[held[q]])
    <3>1. CASE q = r
      BY <1>3, <1>4, <3>1 DEF o
    <3>2. CASE q # r
      BY <1>2, <1>3, <1>4, <2>1, <3>2, Names DEF CrawlInv, CrawlTypeOK, Contents
    <3> QED BY <3>1, <3>2
  <2>2. held["clone"] # NoObj => payload'[held["clone"]] = payload[held["clone"]]
    BY <1>2, <1>3, Names DEF CrawlInv, CrawlTypeOK
  <2> QED BY <2>1, <2>2 DEF CrawlInv, Contents
<1> QED BY <1>5, <1>6, <1>7, <1>8 DEF CrawlInv

(* A stage ends with an error, and its payload is lost.                    *)
LEMMA Lose ==
  ASSUME CrawlInv, NEW r \in Routine, r # "broadcast", at[r] = "busy",
         NEW new \in PayloadType, Set(r, new) \/ UNCHANGED payload,
         Leaves(r, "gone"), Emit,
         UNCHANGED <<payloadPool, rows, ctxDone, crashed, indexed>>
  PROVE  CrawlInv'
<1> DEFINE o == held[r]
<1> USE DEF Set, Leaves, Without, Go, Emit
<1>1. o \in Obj /\ o # NoObj /\ o \notin payloadPool
  BY CrawlAssumption, Names DEF CrawlInv, CrawlTypeOK, OneHolder
<1>2. /\ held'[r] = NoObj /\ held' \in [Place -> Obj \cup {NoObj}]
      /\ \A p \in Place : p # r => held'[p] = held[p] /\ held[p] # o
  BY <1>1, Names DEF CrawlInv, CrawlTypeOK, OneHolder
<1>3. \A x \in Obj : x # o => payload'[x] = payload[x]
  BY <1>1 DEF CrawlInv, CrawlTypeOK
<1>4. at'[r] = "gone" /\ \A q \in Routine : q # r => at'[q] = at[q]
  BY DEF CrawlInv, CrawlTypeOK
<1>5. CrawlTypeOK'
  <2>1. payload' \in [Obj -> PayloadType]
    BY <1>1 DEF CrawlInv, CrawlTypeOK, PayloadType
  <2>2. at' \in [Routine -> {"idle", "busy", "fetched", "send", "next", "gone"}]
    BY DEF CrawlInv, CrawlTypeOK
  <2>3. \A q \in Routine : held'[q] # NoObj <=> at'[q] \in Working
    BY <1>2, <1>4, Names DEF CrawlInv, CrawlTypeOK, Working
  <2> QED BY <1>2, <2>1, <2>2, <2>3 DEF CrawlInv, CrawlTypeOK, PayloadType, Working
<1> HIDE DEF o
<1>6. CloneHeld' /\ OneHolder' /\ IndexRight'
  BY <1>2, <1>4, Names DEF CrawlInv, CloneHeld, OneHolder, IndexRight
<1>7. PoolClean'
  BY <1>1, <1>3 DEF CrawlInv, PoolClean, CrawlTypeOK
<1>8. Contents'
  <2>1. ASSUME NEW p \in Place, held'[p] # NoObj
        PROVE  p # r /\ held'[p] = held[p] /\ payload'[held'[p]] = payload[held[p]]
    BY <1>2, <1>3, <2>1 DEF CrawlInv, CrawlTypeOK
  <2> QED BY <1>4, <2>1, Names DEF CrawlInv, Contents
<1> QED BY <1>5, <1>6, <1>7, <1>8 DEF CrawlInv

-----------------------------------------------------------------------------
(* The other steps, one lemma each.                                        *)
LEMMA PayloadStep ==
  ASSUME CrawlInv, NEW l \in Link, NEW o \in Obj, Payload(l, o)
  PROVE  CrawlInv'
<1> DEFINE new == [payload[o] EXCEPT !.LinkID = l, !.URL = l]
<1> USE DEF Payload, Go
<1>1. /\ payload'[o] = new /\ payload' = [payload EXCEPT ![o] = new]
      /\ \A x \in Obj : x # o => payload'[x] = payload[x]
  BY DEF CrawlInv, CrawlTypeOK
<1>2. new \in PayloadType /\ Fresh(new)
  <2>1. Clean(payload[o]) /\ payload[o] \in PayloadType
    BY DEF CrawlInv, CrawlTypeOK, PayloadType, PoolClean
  <2> QED BY <2>1 DEF PayloadType, Clean, Fresh, Linked
<1>3. o # NoObj /\ held["source"] = NoObj /\ \A p \in Place : held[p] # o
  BY CrawlAssumption, Names DEF CrawlInv, CrawlTypeOK, OneHolder
<1>4. held'["source"] = o /\ \A p \in Place : p # "source" => held'[p] = held[p]
  BY Names DEF CrawlInv, CrawlTypeOK
<1>5. at'["source"] = "send" /\ \A q \in Routine : q # "source" => at'[q] = at[q]
  BY Names DEF CrawlInv, CrawlTypeOK
<1>6. CrawlTypeOK'
  <2>1. payload' \in [Obj -> PayloadType]
    BY <1>1, <1>2 DEF CrawlInv, CrawlTypeOK, PayloadType
  <2>2. \A q \in Routine : held'[q] # NoObj <=> at'[q] \in Working
    BY <1>3, <1>4, <1>5, Names DEF CrawlInv, CrawlTypeOK, Working
  <2>3. /\ at' \in [Routine -> {"idle", "busy", "fetched", "send", "next", "gone"}]
        /\ held' \in [Place -> Obj \cup {NoObj}]
    BY DEF CrawlInv, CrawlTypeOK
  <2> QED BY <2>1, <2>2, <2>3 DEF CrawlInv, CrawlTypeOK, PayloadType, Working
<1> HIDE DEF new
<1>7. CloneHeld' /\ OneHolder' /\ IndexRight'
  <2>1. CloneHeld' /\ IndexRight'
    BY <1>4, <1>5, Names DEF CrawlInv, CloneHeld, IndexRight
  <2>2. OneHolder'
    BY <1>3, <1>4 DEF CrawlInv, OneHolder
  <2> QED BY <2>1, <2>2
<1>8. PoolClean'
  BY <1>1 DEF CrawlInv, PoolClean, CrawlTypeOK
<1>9. Contents'
  <2>1. ASSUME NEW p \in Place, p # "source", held'[p] # NoObj
        PROVE  held'[p] = held[p] /\ payload'[held'[p]] = payload[held[p]]
    BY <1>1, <1>3, <1>4, <2>1 DEF CrawlInv, CrawlTypeOK
  <2>2. Fits("source", at'["source"], payload'[held'["source"]])
    BY <1>1, <1>2, <1>4 DEF Fits, ToFetch, ToExtract
  <2> QED BY <1>5, <2>1, <2>2, Names DEF CrawlInv, Contents
<1> QED BY <1>6, <1>7, <1>8, <1>9 DEF CrawlInv

LEMMA HandOverStep ==
  ASSUME CrawlInv, NEW s \in Routine, NEW r \in Routine, HandOver(s, r)
  PROVE  CrawlInv'
<1> USE DEF HandOver
<1>1. s # r /\ s # "broadcast"
  BY Names, CrawlAssumption DEF Sends
<1>2. /\ at'[s] = "idle" /\ at'[r] = "busy"
      /\ \A q \in Routine : q # s /\ q # r => at'[q] = at[q]
  BY <1>1 DEF CrawlInv, CrawlTypeOK
<1>3. /\ held'[s] = NoObj /\ held'[r] = held[s] /\ held[s] # NoObj /\ held[r] = NoObj
      /\ \A p \in Place : p # s /\ p # r => held'[p] = held[p]
  BY <1>1, Names DEF CrawlInv, CrawlTypeOK
<1>4. Fits(s, "send", payload[held[s]])
  BY <1>3 DEF CrawlInv, Contents
<1>5. Fits(r, "busy", payload[held[s]])
  <2>1. \/ s = "source" /\ r \in Fetcher
        \/ s \in Fetcher /\ r = "links"
        \/ s = "links" /\ r = "text"
        \/ s = "text" /\ r = "broadcast"
        \/ s = "index" /\ r = "sink"
    BY DEF Sends
  <2> QED BY <1>4, <2>1, Names DEF Fits, ToFetch, ToExtract
<1>6. CrawlTypeOK'
  <2>1. \A q \in Routine : held'[q] # NoObj <=> at'[q] \in Working
    BY <1>2, <1>3, Names DEF CrawlInv, CrawlTypeOK, Working
  <2>2. /\ at' \in [Routine -> {"idle", "busy", "fetched", "send", "next", "gone"}]
        /\ held' \in [Place -> Obj \cup {NoObj}]
    BY Names DEF CrawlInv, CrawlTypeOK
  <2> QED BY <2>1, <2>2 DEF CrawlInv, CrawlTypeOK, Working
<1>7. CloneHeld'
  <2>1. held'["clone"] = held["clone"]
    BY <1>3, Names
  <2>2. at'["broadcast"] = "send" <=> at["broadcast"] = "send"
    BY <1>1, <1>2, Names
  <2> QED BY <2>1, <2>2 DEF CrawlInv, CloneHeld
<1>8. OneHolder'
  <2> DEFINE from(p) == IF p = r THEN s ELSE p
  <2>1. ASSUME NEW p \in Place, held'[p] # NoObj
        PROVE  p # s /\ from(p) \in Place /\ held'[p] = held[from(p)]
    BY <1>1, <1>3, <2>1, Names
  <2>2. ASSUME NEW p \in Place, NEW q \in Place, held'[p] # NoObj, held'[p] = held'[q]
        PROVE  p = q
    <3>1. held[from(p)] = held[from(q)] /\ held[from(p)] # NoObj
      BY <2>1, <2>2
    <3>2. from(p) = from(q)
      BY <2>1, <2>2, <3>1 DEF CrawlInv, OneHolder
    <3> QED BY <2>1, <2>2, <3>2
  <2>3. ASSUME NEW p \in Place, held'[p] # NoObj
        PROVE  held'[p] \notin payloadPool'
    <3>1. held'[p] \notin payloadPool
      BY <2>1, <2>3 DEF CrawlInv, OneHolder
    <3> QED BY <3>1
  <2> QED BY <2>2, <2>3 DEF OneHolder
<1>9. PoolClean' /\ Contents' /\ IndexRight'
  BY <1>2, <1>3, <1>5, Names DEF CrawlInv, PoolClean, Contents, IndexRight
<1> QED BY <1>6, <1>7, <1>8, <1>9 DEF CrawlInv

LEMMA FetchStep ==
  ASSUME CrawlInv, NEW f \in Fetcher, Fetch(f)
  PROVE  CrawlInv'
<1> DEFINE new == [Of(f) EXCEPT !.RawContent = @ \cup {Of(f).URL}]
<1>1. f \in Routine /\ f # "source" /\ f # "broadcast" /\ at[f] = "busy"
  BY Names DEF Fetch
<1>2. held[f] # NoObj /\ held[f] \in Obj /\ Fresh(payload[held[f]])
  BY <1>1, Names DEF CrawlInv, CrawlTypeOK, Contents, Fits, ToFetch
<1>3. new \in PayloadType /\ Fetched(new)
  BY <1>2 DEF CrawlInv, CrawlTypeOK, PayloadType, Of, Fresh, Linked, Fetched
<1>4. Fits(f, "fetched", new)
  BY <1>1, <1>3 DEF Fits, ToFetch, ToExtract
<1>5. Set(f, new) /\ UNCHANGED <<payloadPool, rows, ctxDone, crashed, indexed>>
  BY DEF Fetch
<1> HIDE DEF new
<1>6. CASE Go(f, "fetched") /\ UNCHANGED <<held, failed>>
  BY <1>1, <1>3, <1>4, <1>5, <1>6, Rewrite
<1>7. CASE Leaves(f, "gone") /\ Emit
  BY <1>1, <1>3, <1>5, <1>7, Lose
<1> QED BY <1>6, <1>7 DEF Fetch

LEMMA ExtractTextStep ==
  ASSUME CrawlInv, ExtractText
  PROVE  CrawlInv'
<1> DEFINE p == Of("text")
           titles == p.RawContent \cap Titled
           new == [p EXCEPT !.Title = IF titles = {} THEN @ ELSE CHOOSE t \in titles : TRUE,
                            !.TextContext = p.RawContent,
                            !.RawContent = {}]
<1>1. "text" \in Routine /\ at["text"] = "busy"
  BY Names DEF ExtractText
<1>2. held["text"] # NoObj /\ held["text"] \in Obj /\ Fetched(p)
  BY <1>1, Names DEF CrawlInv, CrawlTypeOK, Contents, Fits, ToFetch, ToExtract, Of
<1>3. p \in PayloadType
  BY <1>2 DEF CrawlInv, CrawlTypeOK, PayloadType, Of
<1>4. titles = IF p.LinkID \in Titled THEN {p.LinkID} ELSE {}
  BY <1>2 DEF Fetched
<1>5. (IF titles = {} THEN p.Title ELSE CHOOSE t \in titles : TRUE) = TitleOf(p.LinkID)
  BY <1>2, <1>4 DEF Fetched, TitleOf
<1> HIDE DEF titles
<1>6. new \in PayloadType /\ Extracted(new)
  BY <1>2, <1>3, <1>5 DEF PayloadType, Fetched, Extracted, Linked, TitleOf
<1>7. Fits("text", "send", new)
  BY <1>6, Names DEF Fits, ToFetch, ToExtract
<1>8. /\ Set("text", new) /\ Go("text", "send")
      /\ UNCHANGED <<held, payloadPool, rows, failed, ctxDone, crashed, indexed>>
  BY DEF ExtractText, titles
<1> HIDE DEF new
<1> QED BY <1>1, <1>6, <1>7, <1>8, Rewrite

LEMMA CloneStep ==
  ASSUME CrawlInv, NEW o \in Obj, Clone(o)
  PROVE  CrawlInv'
<1> DEFINE b == held["broadcast"]
           rest == [payload[b] EXCEPT !.RawContent = {}]
           copy == [payload[b] EXCEPT !.RawContent = @ \cup payload[o].RawContent]
<1> USE DEF Clone, Go, TheClone
<1>1. /\ at["broadcast"] = "busy" /\ b \in Obj /\ b # NoObj /\ b \notin payloadPool
      /\ \A p \in Place : held[p] = b => p = "broadcast"
      /\ held["clone"] = NoObj
  BY CrawlAssumption, Names DEF CrawlInv, CrawlTypeOK, OneHolder, CloneHeld
<1>2. /\ o # NoObj /\ o # b /\ \A p \in Place : held[p] # o
  BY <1>1, CrawlAssumption DEF CrawlInv, OneHolder
<1>3. Extracted(payload[b]) /\ payload[b] \in PayloadType
  BY <1>1, Names DEF CrawlInv, CrawlTypeOK, PayloadType, Contents, Fits, ToFetch, ToExtract
<1>4. /\ payload'[o] = payload[b] /\ payload'[b] = rest
      /\ payload' = [payload EXCEPT ![o] = payload[b], ![b] = rest]
      /\ \A x \in Obj : x # o /\ x # b => payload'[x] = payload[x]
  <2>1. payload[o].RawContent = {}
    BY DEF CrawlInv, PoolClean, Clean
  <2>2. copy = payload[b]
    BY <1>3, <2>1 DEF PayloadType
  <2>3. payload' = [payload EXCEPT ![o] = payload[b], ![b] = rest]
    BY <2>2
  <2> HIDE DEF rest
  <2> QED BY <1>1, <1>2, <2>3 DEF CrawlInv, CrawlTypeOK
<1>5. rest \in PayloadType /\ Extracted(rest)
  BY <1>3 DEF PayloadType, Extracted, Linked
<1>6. held'["clone"] = o /\ \A r \in Routine : held'[r] = held[r]
  BY Names DEF CrawlInv, CrawlTypeOK
<1>7. at'["broadcast"] = "send" /\ \A q \in Routine : q # "broadcast" => at'[q] = at[q]
  BY Names DEF CrawlInv, CrawlTypeOK
<1>8. CrawlTypeOK'
  <2>1. payload' \in [Obj -> PayloadType]
    BY <1>1, <1>3, <1>4, <1>5 DEF CrawlInv, CrawlTypeOK, PayloadType
  <2>2. \A q \in Routine : held'[q] # NoObj <=> at'[q] \in Working
    BY <1>1, <1>6, <1>7, Names DEF CrawlInv, CrawlTypeOK, Working
  <2>3. /\ at' \in [Routine -> {"idle", "busy", "fetched", "send", "next", "gone"}]
        /\ held' \in [Place -> Obj \cup {NoObj}]
    BY DEF CrawlInv, CrawlTypeOK
  <2> QED BY <2>1, <2>2, <2>3 DEF CrawlInv, CrawlTypeOK, PayloadType, Working
<1> HIDE DEF b, rest
<1>9. CloneHeld' /\ IndexRight'
  BY <1>2, <1>6, <1>7 DEF CrawlInv, CloneHeld, IndexRight
<1>10. OneHolder'
  <2>1. \A p \in Place : p = "clone" \/ held'[p] = held[p]
    BY <1>6, Names
  <2> QED BY <1>2, <1>6, <2>1 DEF CrawlInv, OneHolder
<1>11. PoolClean'
  BY <1>1, <1>4 DEF CrawlInv, PoolClean, CrawlTypeOK
<1>12. Contents'
  <2>1. Extracted(payload'[held'["clone"]])
    BY <1>3, <1>4, <1>6
  <2>2. ASSUME NEW r \in Routine, held'[r] # NoObj
        PROVE  Fits(r, at'[r], payload'[held'[r]])
    <3>1. CASE r = "broadcast"
      BY <1>4, <1>5, <1>6, <3>1, Names DEF Fits, ToFetch, ToExtract, b
    <3>2. CASE r # "broadcast"
      BY <1>1, <1>2, <1>4, <1>6, <1>7, <2>2, <3>2, Names DEF CrawlInv, CrawlTypeOK, Contents
    <3> QED BY <3>1, <3>2
  <2> QED BY <2>1, <2>2 DEF Contents
<1> QED BY <1>8, <1>9, <1>10, <1>11, <1>12 DEF CrawlInv

LEMMA SendCloneStep ==
  ASSUME CrawlInv, SendClone
  PROVE  CrawlInv'
<1> USE DEF SendClone
<1>1. /\ held["clone"] # NoObj /\ Extracted(payload[held["clone"]])
      /\ held["index"] = NoObj
  BY Names DEF CrawlInv, CrawlTypeOK, CloneHeld, Contents
<1>2. /\ held'["clone"] = NoObj /\ held'["index"] = held["clone"]
      /\ \A r \in Routine : r # "index" => held'[r] = held[r]
  BY Names DEF CrawlInv, CrawlTypeOK
<1>3. /\ at'["broadcast"] = "next" /\ at'["index"] = "busy"
      /\ \A q \in Routine : q # "broadcast" /\ q # "index" => at'[q] = at[q]
  BY Names DEF CrawlInv, CrawlTypeOK
<1>4. CrawlTypeOK'
  <2>1. \A q \in Routine : held'[q] # NoObj <=> at'[q] \in Working
    BY <1>1, <1>2, <1>3, Names DEF CrawlInv, CrawlTypeOK, Working
  <2>2. /\ at' \in [Routine -> {"idle", "busy", "fetched", "send", "next", "gone"}]
        /\ held' \in [Place -> Obj \cup {NoObj}]
    BY Names DEF CrawlInv, CrawlTypeOK
  <2> QED BY <2>1, <2>2 DEF CrawlInv, CrawlTypeOK, Working
<1>5. CloneHeld' /\ IndexRight' /\ PoolClean'
  BY <1>2, <1>3 DEF CrawlInv, CloneHeld, IndexRight, PoolClean
<1>6. OneHolder'
  <2> DEFINE from(p) == IF p = "index" THEN "clone" ELSE p
  <2>1. ASSUME NEW p \in Place, held'[p] # NoObj
        PROVE  p # "clone" /\ from(p) \in Place /\ held'[p] = held[from(p)]
    BY <1>2, <2>1, Names
  <2>2. ASSUME NEW p \in Place, NEW q \in Place, held'[p] # NoObj, held'[p] = held'[q]
        PROVE  p = q
    <3>1. held[from(p)] = held[from(q)] /\ held[from(p)] # NoObj
      BY <2>1, <2>2
    <3>2. from(p) = from(q)
      BY <2>1, <2>2, <3>1 DEF CrawlInv, OneHolder
    <3> QED BY <2>1, <2>2, <3>2
  <2>3. ASSUME NEW p \in Place, held'[p] # NoObj
        PROVE  held'[p] \notin payloadPool'
    <3>1. held'[p] \notin payloadPool
      BY <2>1, <2>3 DEF CrawlInv, OneHolder
    <3> QED BY <3>1
  <2> QED BY <2>2, <2>3 DEF OneHolder
<1>7. Contents'
  <2>1. ASSUME NEW r \in Routine, held'[r] # NoObj
        PROVE  Fits(r, at'[r], payload[held'[r]])
    <3>1. CASE r = "index"
      BY <1>1, <1>2, <3>1, Names DEF Fits, ToFetch, ToExtract
    <3>2. CASE r = "broadcast"
      BY <1>2, <2>1, <3>2, Names DEF CrawlInv, Contents, Fits, ToFetch, ToExtract
    <3>3. CASE r # "index" /\ r # "broadcast"
      BY <1>2, <1>3, <2>1, <3>3 DEF CrawlInv, Contents
    <3> QED BY <3>1, <3>2, <3>3
  <2> QED BY <1>2, <2>1 DEF Contents
<1> QED BY <1>4, <1>5, <1>6, <1>7 DEF CrawlInv

LEMMA IndexTextStep ==
  ASSUME CrawlInv, IndexText
  PROVE  CrawlInv'
<1> DEFINE p == Of("index")
<1>1. "index" \in Routine /\ at["index"] = "busy" /\ "index" # "broadcast"
  BY Names DEF IndexText
<1>2. held["index"] # NoObj /\ held["index"] \in Obj /\ Extracted(p) /\ p \in PayloadType
  BY <1>1, Names DEF CrawlInv, CrawlTypeOK, PayloadType, Contents, Fits, ToFetch, ToExtract, Of
<1>3. CASE /\ indexed' = [indexed EXCEPT ![p.LinkID] = [title |-> p.Title, text |-> p.TextContext]]
           /\ Go("index", "send")
           /\ UNCHANGED <<held, failed>>
  <2>1. UNCHANGED <<held, payload, payloadPool, rows, failed, ctxDone, crashed>>
    BY <1>3 DEF IndexText
  <2>2. at'["index"] = "send" /\ \A q \in Routine : q # "index" => at'[q] = at[q]
    BY <1>1, <1>3 DEF Go, CrawlInv, CrawlTypeOK
  <2>3. CrawlTypeOK'
    <3>1. at' \in [Routine -> {"idle", "busy", "fetched", "send", "next", "gone"}]
      BY <1>3 DEF Go, CrawlInv, CrawlTypeOK
    <3>2. \A q \in Routine : held'[q] # NoObj <=> at'[q] \in Working
      BY <1>1, <1>2, <2>1, <2>2 DEF CrawlInv, CrawlTypeOK, Working
    <3>3. indexed' \in [Link -> Indexed]
      BY <1>2, <1>3 DEF CrawlInv, CrawlTypeOK, Indexed, PayloadType
    <3> QED BY <2>1, <3>1, <3>2, <3>3 DEF CrawlInv, CrawlTypeOK, Indexed, Working
  <2>4. CloneHeld' /\ OneHolder' /\ PoolClean'
    BY <2>1, <2>2, Names DEF CrawlInv, CloneHeld, OneHolder, PoolClean
  <2>5. Contents'
    <3>1. Fits("index", "send", p)
      BY <1>2, Names DEF Fits, ToFetch, ToExtract
    <3> QED BY <2>1, <2>2, <3>1 DEF CrawlInv, Contents, Of
  <2>6. IndexRight'
    <3> SUFFICES ASSUME NEW l \in Link, indexed'[l] # NoDocument
                 PROVE  indexed'[l] = [title |-> TitleOf(l), text |-> {l}]
      BY DEF IndexRight
    <3>1. CASE l # p.LinkID
      BY <1>3, <3>1 DEF CrawlInv, IndexRight
    <3>2. CASE l = p.LinkID
      BY <1>2, <1>3, <3>2 DEF Extracted, CrawlInv, CrawlTypeOK, IndexRight
    <3> QED BY <3>1, <3>2
  <2> QED BY <2>3, <2>4, <2>5, <2>6 DEF CrawlInv
<1>4. CASE Leaves("index", "gone") /\ Emit /\ UNCHANGED indexed
  <2>1. UNCHANGED <<payload, payloadPool, rows, ctxDone, crashed>>
    BY DEF IndexText
  <2> QED BY <1>1, <1>2, <1>4, <2>1, Lose
<1> QED BY <1>3, <1>4 DEF IndexText

LEMMA CrawlStep ==
  ASSUME CrawlInv, [CrawlNext]_crawlVars
  PROVE  CrawlInv'
<1>1. ASSUME RowsEnd
      PROVE  CrawlInv'
  <2>1. /\ UNCHANGED <<held, payload, payloadPool, rows, ctxDone, crashed, indexed>>
        /\ at' = [at EXCEPT !["source"] = "gone"] /\ at["source"] = "idle"
        /\ {failed', ctxDone', crashed'} \subseteq BOOLEAN
    BY <1>1 DEF RowsEnd, Go, Emit, CrawlInv, CrawlTypeOK
  <2> QED BY <2>1, MoveOn, Names DEF Working
<1>2. ASSUME NEW f \in Fetcher, FetchedPage(f)
      PROVE  CrawlInv'
  <2>1. /\ UNCHANGED <<held, payload, payloadPool, rows, failed, ctxDone, crashed, indexed>>
        /\ at' = [at EXCEPT ![f] = "send"] /\ at[f] = "fetched"
        /\ {failed', ctxDone', crashed'} \subseteq BOOLEAN
    BY <1>2 DEF FetchedPage, Go, CrawlInv, CrawlTypeOK
  <2>2. f \in Routine /\ f # "broadcast" /\ f # "source" /\ f # "text"
    BY Names
  <2>3. /\ ToFetch(f, "send") <=> ToFetch(f, "fetched")
        /\ ToExtract(f, "send") <=> ToExtract(f, "fetched")
    BY <2>2 DEF ToFetch, ToExtract
  <2> QED BY <2>1, <2>2, <2>3, MoveOn DEF Working
<1>3. ASSUME ExtractLinks, UNCHANGED crashed
      PROVE  CrawlInv'
  <2>1. CASE Go("links", "send") /\ UNCHANGED <<held, payload, payloadPool, rows, failed,
                                               ctxDone, crashed, indexed>>
    <3>1. /\ at' = [at EXCEPT !["links"] = "send"] /\ at["links"] = "busy"
          /\ {failed', ctxDone', crashed'} \subseteq BOOLEAN
      BY <1>3, <2>1 DEF ExtractLinks, Go, CrawlInv, CrawlTypeOK
    <3>2. /\ ToFetch("links", "send") <=> ToFetch("links", "busy")
          /\ ToExtract("links", "send") <=> ToExtract("links", "busy")
      BY Names DEF ToFetch, ToExtract
    <3> QED BY <2>1, <3>1, <3>2, MoveOn, Names DEF Working
  <2>2. CASE Panic
    BY <2>2, Stay DEF Panic, CrawlInv, CrawlTypeOK
  <2> QED BY <1>3, <2>1, <2>2 DEF ExtractLinks
<1>4. ASSUME Panic \/ ContextDone \/ UNCHANGED crawlVars
      PROVE  CrawlInv'
  BY <1>4, Stay DEF Panic, ContextDone, crawlVars, CrawlInv, CrawlTypeOK
<1>5. ASSUME NEW f \in Fetcher, FetchSkips(f) \/ FetchedOther(f)
      PROVE  CrawlInv'
  BY <1>5, MarkStep, Names DEF FetchSkips, FetchedOther
<1>6. ASSUME Consume
      PROVE  CrawlInv'
  BY <1>6, MarkStep, Names DEF Consume
<1>7. CASE Crawling
  <2>1. ASSUME ExtractLinks
        PROVE  CrawlInv'
    <3>1. CASE UNCHANGED crashed
      BY <1>3, <2>1, <3>1
    <3>2. CASE Panic
      BY <1>4, <3>2
    <3> QED BY <2>1, <3>1, <3>2 DEF ExtractLinks
  <2>2. ASSUME SourceChannelPanics \/ BroadcastPastEnd
        PROVE  CrawlInv'
    BY <1>4, <2>2 DEF SourceChannelPanics, BroadcastPastEnd
  <2> QED
    BY <1>1, <1>2, <1>4, <1>5, <1>6, <1>7, <2>1, <2>2, PayloadStep, HandOverStep, ReturnStep,
       FetchStep, ExtractTextStep, CloneStep, SendCloneStep, IndexTextStep
       DEF Crawling
<1> QED BY <1>4, <1>7 DEF CrawlNext, Crashed

-----------------------------------------------------------------------------
(* The inductive invariant of a crawl.                                     *)
THEOREM CrawlInvariant == CrawlSpec => []CrawlInv
<1>1. CrawlInit => CrawlInv
  BY CrawlInitially
<1>2. CrawlInv /\ [CrawlNext]_crawlVars => CrawlInv'
  BY CrawlStep
<1> QED BY <1>1, <1>2, PTL DEF CrawlSpec

(* Type correctness.                                                       *)
THEOREM CrawlTypeCorrect == CrawlSpec => []CrawlTypeOK
<1>1. CrawlInv => CrawlTypeOK
  BY DEF CrawlInv
<1> QED BY <1>1, CrawlInvariant, PTL

(* A payload object is with one stage, or in the pool.                     *)
THEOREM PayloadsHaveOneHolder == CrawlSpec => []OneHolder
<1>1. CrawlInv => OneHolder
  BY DEF CrawlInv
<1> QED BY <1>1, CrawlInvariant, PTL

(* No page gets into the payload or the indexed document of another link.  *)
THEOREM PagesAreKeptApart == CrawlSpec => []PagesDoNotMix
<1>1. ASSUME CrawlInv
      PROVE  PagesDoNotMix
  <2>1. ASSUME NEW r \in Place, held[r] # NoObj
        PROVE  Fresh(Of(r)) \/ Fetched(Of(r)) \/ Extracted(Of(r))
    BY <1>1, <2>1, Names DEF CrawlInv, Contents, Fits, Of
  <2>2. ASSUME NEW r \in Place, held[r] # NoObj
        PROVE  /\ Of(r).URL = Of(r).LinkID
               /\ Of(r).RawContent \cup Of(r).TextContext \subseteq {Of(r).LinkID}
               /\ Of(r).Title \in {Of(r).LinkID, NoLink}
    BY <2>1, <2>2 DEF Fresh, Fetched, Extracted, Linked, TitleOf
  <2>3. \A l \in Link : indexed[l] # NoDocument =>
          indexed[l] = [title |-> IF l \in Titled THEN l ELSE NoLink, text |-> {l}]
    BY <1>1 DEF CrawlInv, IndexRight, TitleOf
  <2> QED BY <2>2, <2>3 DEF PagesDoNotMix
<1> QED BY <1>1, CrawlInvariant, PTL
=============================================================================
