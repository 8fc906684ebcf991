--------------------------- MODULE SearchIterator ---------------------------
(***************************************************************************)
(* The iterator Search returns: bleveIterator of the in-memory store and   *)
(* esIterator of the Elasticsearch store page through their results in the *)
(* same way.  The index goes on changing while they do.                    *)
(*                                                                         *)
(* A search service is external: `order' below is all its hits for the     *)
(* query in its order, which depends on nothing but the searchable         *)
(* documents, and `answer' is the SearchResult it makes of a request: some *)
(* of them and a number it gives for all.                                  *)
(***************************************************************************)
EXTENDS Naturals, FiniteSets, SequencesExt

CONSTANTS
  Doc, Text, NoText, NoDoc, MaxScore,   \* as in Indexer
  Query,       \* the texts the query of this iterator matches
  BatchSize,   \* hits of one page
  Nil          \* no result

ASSUME IndexAssumption ==
  /\ IsFiniteSet(Doc)
  /\ NoText \notin Text /\ Query \subseteq Text
  /\ MaxScore \in Nat
  /\ NoDoc \notin [text : Text \cup {NoText}, rank : 0 .. MaxScore]
  /\ BatchSize \in Nat \ {0}
  /\ Nil \notin [hits : Seq(Doc), total : Nat]

VARIABLES
  itpc,       \* "none", "open", "hit" (Next has a hit), "ended",
              \* "panicked" (a hit past its page), "nilresult" (a nil SearchResult)
  rs,         \* the SearchResult: [hits, total], or Nil
  from,       \* searchReq.From
  rsIdx, cumIdx, lastErr,
  seen,       \* history: documents Next has loaded
  listing,    \* history: the hits from the offset on, at the time of the search
  moved       \* history: the searchable documents have changed since

iterVars == <<itpc, rs, from, rsIdx, cumIdx, lastErr, seen, listing, moved>>

(* Documents are searched by text; a placeholder's text matches nothing.   *)
Matching(view) == {d \in Doc : view[d] # NoDoc /\ view[d].text \in Query}

IterInit ==
  /\ itpc = "none" /\ rs = Nil /\ from = 0 /\ rsIdx = 0 /\ cumIdx = 0
  /\ lastErr = "nil" /\ seen = << >> /\ listing = << >> /\ moved = FALSE

(* The index changed under the iterator, if there is one.                  *)
Moves == /\ moved' = (itpc # "none")
         /\ UNCHANGED <<itpc, rs, from, rsIdx, cumIdx, lastErr, seen, listing>>

(* The hits after the first f, up to the one at `end'.                     *)
Page(order, f, end) ==
  SubSeq(order, f + 1, IF end < Len(order) THEN end ELSE Len(order))

Search(order, offset, answer) ==
  /\ itpc = "none"
  /\ itpc' = "open"
  /\ rs' = answer
  /\ from' = offset /\ cumIdx' = offset
  /\ rsIdx' = 0 /\ lastErr' = "nil"
  /\ seen' = << >> /\ listing' = SubSeq(order, offset + 1, Len(order)) /\ moved' = FALSE

-----------------------------------------------------------------------------
(* Next returns false, ...                                                 *)
TotalReached == cumIdx >= rs.total
Exhausted == lastErr # "nil" \/ rs = Nil \/ TotalReached

NextEnds ==
  /\ itpc = "open" /\ Exhausted
  /\ itpc' = "ended"
  /\ UNCHANGED <<rs, from, rsIdx, cumIdx, lastErr, seen, listing, moved>>

(* ... or takes a hit of the page it has, ...                              *)
NextOnPage ==
  /\ itpc = "open" /\ ~Exhausted
  /\ rsIdx < Len(rs.hits)
  /\ itpc' = "hit"
  /\ UNCHANGED <<rs, from, rsIdx, cumIdx, lastErr, seen, listing, moved>>

(* ... or fetches the next page and takes its first hit, whether there is  *)
(* one or not, ...                                                         *)
SameFrom == from                       \* mutant: From is not advanced
NextFrom == from + BatchSize
SameHit == rsIdx                       \* mutant: rsIdx is not reset
FirstHit == 0
NextPage(answer) ==
  /\ itpc = "open" /\ ~Exhausted
  /\ rsIdx >= Len(rs.hits)
  /\ from' = NextFrom
  /\ rs' = answer
  /\ rsIdx' = FirstHit
  /\ itpc' = IF rs'.hits = << >> THEN "panicked" ELSE "hit"
  /\ UNCHANGED <<cumIdx, lastErr, seen, listing, moved>>

(* ... or fails to.                                                        *)
NextPageFails ==
  /\ itpc = "open" /\ ~Exhausted
  /\ rsIdx >= Len(rs.hits)
  /\ from' = NextFrom
  /\ rs' = Nil /\ lastErr' = "search"
  /\ itpc' = "ended"
  /\ UNCHANGED <<rsIdx, cumIdx, seen, listing, moved>>

Hit == rs.hits[rsIdx + 1]
Load ==
  /\ itpc = "hit"
  /\ seen' = Append(seen, Hit)
  /\ cumIdx' = cumIdx + 1 /\ rsIdx' = rsIdx + 1
  /\ itpc' = "open"
  /\ UNCHANGED <<rs, from, lastErr, listing, moved>>

Paging(answer) == NextEnds \/ NextOnPage \/ NextPage(answer) \/ NextPageFails

(* The iterator is let go: what it held is of no more use.                 *)
LetGo == /\ itpc' = "none" /\ rs' = Nil /\ from' = 0 /\ rsIdx' = 0 /\ cumIdx' = 0
         /\ lastErr' = "nil" /\ seen' = << >> /\ listing' = << >> /\ moved' = FALSE

-----------------------------------------------------------------------------
(* Type invariant.                                                         *)
IterTypeOK ==
  /\ itpc \in {"none", "open", "hit", "ended", "panicked", "nilresult"}
  /\ rs # Nil => /\ rs.hits \in Seq(Doc) /\ Len(rs.hits) <= BatchSize
                 /\ rs.total \in Nat
  /\ {from, rsIdx, cumIdx} \subseteq Nat
  /\ lastErr \in {"nil", "search", "find"}
  /\ seen \in Seq(Doc) /\ listing \in Seq(Doc)
  /\ moved \in BOOLEAN
  /\ itpc = "hit" => rsIdx < Len(rs.hits)

(* Over an index that does not change, the iterator loads each hit from    *)
(* the offset on once and in order, across pages and however the pages are *)
(* cut, and it stops only at the last one or with an error.  It never asks *)
(* a page for a hit it does not have.  (index.go of Next: "load the next   *)
(* document matching the query. it will rerturn false it there is no more  *)
(* document to pull".)                                                     *)
ListingIsExact ==
  itpc # "none" /\ ~moved =>
    /\ itpc # "panicked"
    /\ IsPrefix(seen, listing)
    /\ itpc = "ended" /\ lastErr = "nil" => seen = listing
=============================================================================
