----------------------------- MODULE ESIndexer -----------------------------
(***************************************************************************)
(* ElasticSearchIndexer of textindexer/store/es.  Elasticsearch is         *)
(* external: an update merges the fields of a partial document into the    *)
(* stored one, or inserts it; a search sees what was stored at the last    *)
(* refresh, which an update asks for ("true") or leaves to the server.     *)
(* A call that fails may have had its update or not.                       *)
(*                                                                         *)
(* What it makes of a search is its own too.  The request asks for "from"  *)
(* and "to", where only "from" moves on with the pages, and the response's *)
(* total is read from hits.total.count.  A server                          *)
(*   "refuses"    a query with "to", or gives a total that is not decoded, *)
(*   "uncounted": answers with a total that has no count, which is zero,   *)
(*   "range":     takes "to" for the end of the hits it sends, or          *)
(*   "page":      passes over "to" and sends BatchSize hits by default.    *)
(***************************************************************************)
EXTENDS SearchIterator

VARIABLES
  stored,      \* documents of the index
  visible,     \* documents as searches see them
  refreshOpt,  \* WithRefresh of every update: TRUE for syncUpdates
  server       \* what the server makes of a search

esVars == <<stored, visible, refreshOpt, server>>
esIterVars == <<esVars, iterVars>>

ESInit ==
  /\ stored = [d \in Doc |-> NoDoc] /\ visible = stored
  /\ refreshOpt \in BOOLEAN
  /\ server \in {"refuses", "uncounted", "range", "page"}
  /\ IterInit

(* A field that an inserted document lacks decodes as its zero value.      *)
Zero == [text |-> NoText, rank |-> 0]
Merge(entry, fields) ==
  LET old == IF entry = NoDoc THEN Zero ELSE entry
      has(field) == field \in DOMAIN fields IN
  [text |-> IF has("text") THEN fields.text ELSE old.text,
   rank |-> IF has("rank") THEN fields.rank ELSE old.rank]

Refresh(view) == visible' = view /\ Moves

Update(d, fields) ==
  /\ stored' = [stored EXCEPT ![d] = Merge(@, fields)]
  /\ IF refreshOpt THEN Refresh(stored') ELSE UNCHANGED <<visible, iterVars>>
  /\ UNCHANGED <<refreshOpt, server>>

(* makeEsDoc leaves PageRank zero, and esDoc encodes it all the same.      *)
EsDoc(t) == [text |-> t, rank |-> 0]
ESIndex(d, t) == Update(d, EsDoc(t))

WholeDoc(s) == [text |-> NoText, rank |-> s]      \* mutant: through an esDoc
ScoreDoc(s) == [rank |-> s]
ESUpdateScore(d, s) == Update(d, ScoreDoc(s))

(* The server refreshes by itself.                                         *)
ServerRefresh ==
  /\ visible # stored
  /\ Refresh(stored)
  /\ UNCHANGED <<stored, refreshOpt, server>>

-----------------------------------------------------------------------------
(* Searches are not sorted: the order is that of the server's scores.      *)
ByScore(view) == SetToSeq(Matching(view))

ESAnswer(f) ==
  [hits |-> Page(ByScore(visible), f, IF server = "range" THEN BatchSize ELSE f + BatchSize),
   total |-> IF server = "uncounted" THEN 0 ELSE Len(ByScore(visible))]

(* A search that is refused returns an error and no iterator.              *)
ESSearch(offset) ==
  /\ server # "refuses"
  /\ Search(ByScore(visible), offset, ESAnswer(offset))
  /\ UNCHANGED esVars
ESNext == (Paging(ESAnswer(NextFrom)) \/ Load) /\ UNCHANGED esVars

(* Close reads the result, which is nil when the last page failed.         *)
ESClose ==
  /\ itpc \in {"open", "ended"}
  /\ IF rs # Nil
     THEN LetGo
     ELSE /\ itpc' = "nilresult"
          /\ UNCHANGED <<rs, from, rsIdx, cumIdx, lastErr, seen, listing, moved>>
  /\ UNCHANGED esVars

ESIndexerNext ==
  /\ itpc \notin {"panicked", "nilresult"}
  /\ \/ \E d \in Doc : \/ \E t \in Text : ESIndex(d, t)
                       \/ \E s \in 0 .. MaxScore : ESUpdateScore(d, s)
     \/ ServerRefresh
     \/ \E offset \in {0, 1} : ESSearch(offset)
     \/ ESNext
     \/ ESClose

ESSpec == ESInit /\ [][ESIndexerNext]_esIterVars

-----------------------------------------------------------------------------
(* An update of the score, repeated or not, leaves the text alone: a text  *)
(* changes only together with the score going back to zero.                *)
ScoreKeepsText ==
  [][\A d \in Doc :
       /\ stored[d] # NoDoc
       /\ stored'[d] # stored[d]
       /\ stored'[d].rank # 0
       => stored'[d].text = stored[d].text]_stored

(* What a search over an index that does not change lists depends on the   *)
(* server.  On one that passes over "to" it is every hit from the offset   *)
(* on, once and in order (ListingIsExact).  On one that takes "to" for an  *)
(* end no hit after the first BatchSize is ever listed, and if there are   *)
(* more Next panics; one that gives no count lists nothing.                *)
ListingAsAnswered ==
  /\ server = "page" => ListingIsExact
  /\ itpc # "none" /\ ~moved =>
       /\ IsPrefix(seen, listing)
       /\ server = "uncounted" => seen = << >> /\ itpc # "panicked"
       /\ server = "range" => seen = << >> \/ cumIdx <= BatchSize
       /\ itpc = "panicked" => server = "range" /\ BatchSize <= cumIdx /\ seen # listing
       /\ itpc = "ended" /\ lastErr = "nil" => seen = listing \/ server = "uncounted"

(* "PageRank is intentionally skip it, [...] don't want to overwrite       *)
(* existing PageRank values" (es.go): it is an Indexer, whose Index keeps  *)
(* the score.                                                              *)
Contract == INSTANCE Indexer WITH catalog <- stored
ESImplementsIndexer == Contract!Spec
=============================================================================
