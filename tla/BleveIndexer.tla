---------------------------- MODULE BleveIndexer ----------------------------
(***************************************************************************)
(* InMemoryBleveIndexer of textindexer/store/memory: a map of documents    *)
(* under a lock, beside a bleve index that has a lock of its own.  Search  *)
(* reads the index only, so it sees it change between the two writes of a  *)
(* call.  bleve is external: a write of it is atomic, or fails and changes *)
(* nothing.                                                                *)
(***************************************************************************)
EXTENDS SearchIterator

VARIABLES
  docs,     \* the stored documents
  bleve,    \* the bleveDocs of the index
  mu,       \* "free", or the call that holds the lock; "leaked": none will unlock
  key,      \* the document of the call that holds it, ...
  dcopy,    \* ... and the entry Index writes
  lagging   \* history: documents whose last write to bleve failed

memVars == <<docs, bleve, mu, key, dcopy, lagging>>
bleveVars == <<memVars, iterVars>>

MemEntry == [text : Text \cup {NoText}, rank : 0 .. MaxScore]
MemRank(entry) == IF entry = NoDoc THEN 0 ELSE entry.rank
MemText(entry) == IF entry = NoDoc THEN NoText ELSE entry.text

BleveInit ==
  /\ docs = [d \in Doc |-> NoDoc] /\ bleve = docs
  /\ mu = "free" /\ key = Nil /\ dcopy = Nil
  /\ lagging = {}
  /\ IterInit

-----------------------------------------------------------------------------
(* Index copies the caller's document, whose PageRank is zero, and keeps   *)
(* the stored one's.                                                       *)
NewRank(d) == 0                          \* mutant: the score is not kept
KeptRank(d) == MemRank(docs[d])
Index(d, t) ==
  /\ mu = "free"
  /\ mu' = "index" /\ key' = d /\ dcopy' = [text |-> t, rank |-> KeptRank(d)]
  /\ UNCHANGED <<docs, bleve, lagging, iterVars>>

IndexBleve ==
  /\ mu = "index"
  /\ mu' = "store"
  /\ bleve' = [bleve EXCEPT ![key] = dcopy]
  /\ Moves
  /\ UNCHANGED <<docs, key, dcopy, lagging>>

(* Index returns without unlocking.                                        *)
IndexFails ==
  /\ mu = "index"
  /\ mu' = "leaked" /\ key' = Nil /\ dcopy' = Nil
  /\ UNCHANGED <<docs, bleve, lagging, iterVars>>

Unlock == mu' = "free" /\ key' = Nil /\ dcopy' = Nil

StoredBefore == docs                     \* mutant: docs keeps the old document
StoredAfter == [docs EXCEPT ![key] = dcopy]
IndexStore ==
  /\ mu = "store"
  /\ docs' = StoredAfter
  /\ lagging' = lagging \ {key}
  /\ Unlock
  /\ UNCHANGED <<bleve, iterVars>>

(* UpdateScore changes the stored document, a placeholder if there is      *)
(* none, before it writes to bleve.                                        *)
Scored(entry, s) == [text |-> MemText(entry), rank |-> s]
UpdateScore(d, s) ==
  /\ mu = "free"
  /\ mu' = "score" /\ key' = d
  /\ docs' = [docs EXCEPT ![d] = Scored(@, s)]
  /\ UNCHANGED <<bleve, dcopy, lagging, iterVars>>

ScoreBleve ==
  /\ mu = "score"
  /\ bleve' = [bleve EXCEPT ![key] = docs[key]]
  /\ lagging' = lagging \ {key}
  /\ Moves
  /\ Unlock
  /\ UNCHANGED docs

NoDefer == mu' = "lost" /\ key' = Nil /\ dcopy' = Nil  \* mutant: no unlock
DeferredUnlock == Unlock
ScoreFails ==
  /\ mu = "score"
  /\ lagging' = lagging \cup {key}
  /\ DeferredUnlock
  /\ UNCHANGED <<docs, bleve, iterVars>>

-----------------------------------------------------------------------------
(* "-PageRank", then "-_score": of the orders by PageRank, always the same.*)
ByPageRank(view) ==
  CHOOSE s \in SetToSeqs(Matching(view)) :
    \A i, j \in DOMAIN s : i < j => view[s[i]].rank >= view[s[j]].rank

(* searchReq.From and Size.                                                *)
MemAnswer(f) == [hits |-> Page(ByPageRank(bleve), f, f + BatchSize),
                 total |-> Len(ByPageRank(bleve))]

MemSearch(offset) ==
  Search(ByPageRank(bleve), offset, MemAnswer(offset)) /\ UNCHANGED memVars

(* Next reads the stored document of a hit under the read lock.            *)
NoRLock == TRUE                          \* mutant
RLock == mu = "free"
FindFails ==
  /\ lastErr' = "find" /\ itpc' = "ended"
  /\ UNCHANGED <<rs, from, rsIdx, cumIdx, seen, listing, moved>>
MemLoad ==
  /\ itpc = "hit" /\ RLock
  /\ IF docs[Hit] # NoDoc THEN Load ELSE FindFails

MemNext == (Paging(MemAnswer(NextFrom)) \/ MemLoad) /\ UNCHANGED memVars

(* Close works whatever Next has come to.                                  *)
MemClose == itpc \in {"open", "ended"} /\ LetGo /\ UNCHANGED memVars

-----------------------------------------------------------------------------
Holder == IndexBleve \/ IndexFails \/ IndexStore \/ ScoreBleve \/ ScoreFails

BleveNext ==
  /\ itpc # "panicked"
  /\ \/ \E d \in Doc : \/ \E t \in Text : Index(d, t)
                       \/ \E s \in 0 .. MaxScore : UpdateScore(d, s)
     \/ Holder
     \/ \E offset \in {0, 1} : MemSearch(offset)
     \/ MemNext
     \/ MemClose

BleveSpec == BleveInit /\ [][BleveNext]_bleveVars

-----------------------------------------------------------------------------
(* Type invariant.                                                         *)
BleveTypeOK ==
  /\ IterTypeOK
  /\ {docs, bleve} \subseteq [Doc -> MemEntry \cup {NoDoc}]
  /\ mu \in {"free", "index", "store", "score", "leaked"}
  /\ mu \in {"index", "store", "score"} => key \in Doc
  /\ mu \in {"index", "store"} => dcopy \in MemEntry
  /\ lagging \subseteq Doc

(* Between calls documents and index agree, but for the documents whose    *)
(* score was not written to the index: on those they agree in the text, if *)
(* the index has them.  It is what Search orders by and what it loads.     *)
StoresAgree ==
  mu \in {"free", "leaked"} =>
    \A d \in Doc :
      /\ d \notin lagging => bleve[d] = docs[d]
      /\ bleve[d] # NoDoc => docs[d] # NoDoc /\ bleve[d].text = docs[d].text

(* Every hit has a stored document, although Index writes the index first: *)
(* the read lock makes Next wait for the rest of the call.                 *)
HitsAreFound == lastErr # "find"

(* The stored documents are the catalog of an Indexer, failures included.  *)
Promise == INSTANCE Indexer WITH catalog <- docs
BleveImplementsIndexer == Promise!Spec
=============================================================================
