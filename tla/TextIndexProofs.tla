-------------------------- MODULE TextIndexProofs --------------------------
(***************************************************************************)
(* Machine-checked proofs about the text index stores and the iterator of  *)
(* their searches, for any documents, texts, scores and sizes of pages,    *)
(* with any failures of bleve and Elasticsearch.                           *)
(***************************************************************************)
EXTENDS BleveIndexer, ESIndexer, FiniteSetTheorems, SequenceTheorems, TLAPS

-----------------------------------------------------------------------------
(* The orders of hits.                                                     *)

(* What is finite and has ranks can be listed by rank: at the place of an  *)
(* element are as many as come before it, ties broken by any numbering.    *)
LEMMA RanksCanBeSorted ==
  ASSUME NEW M, IsFiniteSet(M), NEW rank \in [M -> Nat]
  PROVE  \E s \in SetToSeqs(M) :
           \A i, j \in DOMAIN s : i < j => rank[s[i]] >= rank[s[j]]
<1> DEFINE n == Cardinality(M)
<1>1. n \in Nat /\ ExistsBijection(1 .. n, M)
  BY FS_CardinalityType
<1>2. PICK b \in [1 .. n -> M] : \A d \in M : \E k \in 1 .. n : b[k] = d
  BY <1>1 DEF ExistsBijection, Bijection, Injection, Surjection
<1> HIDE DEF n
<1> DEFINE number == [d \in M |-> CHOOSE k \in 1 .. n : b[k] = d]
<1>3. \A d \in M : number[d] \in 1 .. n /\ b[number[d]] = d
  BY <1>2
<1> HIDE DEF number
<1> DEFINE after == [d \in M |-> {e \in M : \/ rank[d] > rank[e]
                                            \/ rank[d] = rank[e] /\ number[d] < number[e]}]
<1>4. \A d, e \in M : d # e => e \in after[d] \/ d \in after[e]
  BY <1>1, <1>3
<1>5. \A d, e, f \in M : /\ d \notin after[d]
                         /\ e \in after[d] /\ f \in after[e] => f \in after[d]
  BY <1>1, <1>3
<1>6. \A d, e \in M : rank[d] > rank[e] => e \in after[d]
  BY <1>1
<1> HIDE DEF after
<1> DEFINE ahead == [e \in M |-> {d \in M : e \in after[d]}]
<1>7. ASSUME NEW e \in M
      PROVE  /\ IsFiniteSet(ahead[e]) /\ Cardinality(ahead[e]) \in Nat
             /\ Cardinality(ahead[e]) < n
  <2>1. ahead[e] \in SUBSET M /\ e \notin ahead[e]
    BY <1>5
  <2> HIDE DEF ahead
  <2>2. IsFiniteSet(ahead[e]) /\ Cardinality(ahead[e]) <= n /\ Cardinality(ahead[e]) # n
    BY <2>1, FS_Subset DEF n
  <2>3. Cardinality(ahead[e]) \in Nat
    BY <2>2, FS_CardinalityType
  <2> QED BY <1>1, <2>2, <2>3
<1>8. ASSUME NEW d \in M, NEW e \in M, e \in after[d]
      PROVE  ahead[d] \in SUBSET ahead[e] /\ d \in ahead[e] /\ d \notin ahead[d]
  <2>1. d \notin after[d] /\ \A c \in M : d \in after[c] => e \in after[c]
    BY <1>5, <1>8
  <2> QED BY <1>8, <2>1
<1> HIDE DEF ahead
<1> DEFINE pos == [e \in M |-> Cardinality(ahead[e]) + 1]
<1>9. pos \in [M -> 1 .. n]
  BY <1>1, <1>7
<1>10. ASSUME NEW d \in M, NEW e \in M, e \in after[d]
      PROVE  pos[d] < pos[e]
  <2>1. Cardinality(ahead[d]) <= Cardinality(ahead[e]) /\ Cardinality(ahead[d]) # Cardinality(ahead[e])
    BY <1>7, <1>10, <1>8, FS_Subset
  <2> QED BY <1>7, <2>1
<1> HIDE DEF pos
<1>11. ASSUME NEW d \in M, NEW e \in M, pos[d] = pos[e]
       PROVE  d = e
  <2>1. ~(pos[d] < pos[e]) /\ ~(pos[e] < pos[d])
    BY <1>1, <1>9, <1>11
  <2> QED BY <1>4, <1>10, <2>1
<1>12. \A k \in 1 .. n : \E d \in M : pos[d] = k
  <2>1. pos \in Injection(M, 1 .. n)
    BY <1>9, <1>11 DEF Injection, IsInjective
  <2>2. IsFiniteSet(1 .. n) /\ Cardinality(1 .. n) = n
    BY <1>1, FS_Interval
  <2>3. pos \in Surjection(M, 1 .. n)
    BY <2>1, <2>2, FS_Injection DEF n
  <2> QED BY <2>3 DEF Surjection
<1> DEFINE s == [k \in 1 .. n |-> CHOOSE d \in M : pos[d] = k]
<1>13. s \in [1 .. n -> M] /\ \A k \in 1 .. n : pos[s[k]] = k
  BY <1>12
<1> HIDE DEF s
<1>14. s \in SetToSeqs(M)
  BY <1>13 DEF SetToSeqs, n
<1>15. \A i, j \in 1 .. n : i < j => rank[s[i]] >= rank[s[j]]
  <2> SUFFICES ASSUME NEW i \in 1 .. n, NEW j \in 1 .. n, i < j, rank[s[i]] < rank[s[j]]
               PROVE  FALSE
    BY <1>13
  <2>1. s[i] \in after[s[j]]
    BY <1>13, <1>6
  <2>2. pos[s[j]] < pos[s[i]]
    BY <1>10, <1>13, <2>1
  <2> QED BY <1>1, <1>13, <2>2
<1> QED BY <1>13, <1>14, <1>15

(* ByPageRank lists every match once, those of a higher score first.       *)
LEMMA OrderByPageRank ==
  ASSUME NEW view \in [Doc -> MemEntry \cup {NoDoc}]
  PROVE  /\ ByPageRank(view) \in SetToSeqs(Matching(view))
         /\ \A i, j \in DOMAIN ByPageRank(view) :
              i < j => view[ByPageRank(view)[i]].rank >= view[ByPageRank(view)[j]].rank
<1> DEFINE M == Matching(view)
           rank == [d \in M |-> view[d].rank]
<1>1. IsFiniteSet(M)
  BY IndexAssumption, FS_Subset DEF Matching
<1>2. rank \in [M -> Nat]
  BY IndexAssumption DEF Matching, MemEntry
<1>3. PICK s \in SetToSeqs(M) : \A i, j \in DOMAIN s : i < j => rank[s[i]] >= rank[s[j]]
  BY <1>1, <1>2, RanksCanBeSorted
<1>4. \A i \in DOMAIN s : s[i] \in M
  BY DEF SetToSeqs
<1>5. \A i, j \in DOMAIN s : i < j => view[s[i]].rank >= view[s[j]].rank
  BY <1>3, <1>4
<1> QED BY <1>5 DEF ByPageRank

(* ByScore, in no known order, does so too.                                *)
LEMMA OrderByScore ==
  ASSUME NEW view
  PROVE  ByScore(view) \in SetToSeqs(Matching(view))
<1> DEFINE M == Matching(view)
<1>1. IsFiniteSet(M)
  BY IndexAssumption, FS_Subset DEF Matching
<1>2. \E f \in [1 .. Cardinality(M) -> M] : IsInjective(f)
  BY <1>1, FS_CardinalityType DEF ExistsBijection, Bijection, Injection
<1>3. SetToSeq(M) \in [1 .. Cardinality(M) -> M] /\ IsInjective(SetToSeq(M))
  BY <1>2 DEF SetToSeq
<1> QED BY <1>3 DEF ByScore, SetToSeqs, IsInjective

LEMMA OrdersAreSequences ==
  ASSUME NEW view, NEW s \in SetToSeqs(Matching(view))
  PROVE  s \in Seq(Doc) /\ \A k \in 1 .. Len(s) : s[k] \in Matching(view)
<1> DEFINE n == Cardinality(Matching(view))
<1>1. n \in Nat
  BY IndexAssumption, FS_Subset, FS_CardinalityType DEF Matching
<1>2. s \in [1 .. n -> Matching(view)] /\ Matching(view) \subseteq Doc
  BY DEF SetToSeqs, Matching
<1>3. s \in Seq(Doc) /\ Len(s) = n
  <2>1. s \in [1 .. n -> Doc]
    BY <1>2
  <2> QED BY <1>1, <2>1, SeqDef
<1> QED BY <1>2, <1>3

-----------------------------------------------------------------------------
(* The iterator, over any order of hits and on any server: `reading' is    *)
(* what a server makes of a search, and bleve is as one that goes by pages.*)
Answer(reading, order, f) ==
  [hits |-> Page(order, f, IF reading = "range" THEN BatchSize ELSE f + BatchSize),
   total |-> IF reading = "uncounted" THEN 0 ELSE Len(order)]

LEMMA AnswerCounts ==
  ASSUME NEW reading, NEW order, NEW f
  PROVE  Answer(reading, order, f).total = IF reading = "uncounted" THEN 0 ELSE Len(order)
BY DEF Answer

LEMMA AnswerIsAPage ==
  ASSUME NEW reading, NEW order \in Seq(Doc), NEW f \in Nat
  PROVE  /\ Answer(reading, order, f) \in [hits : Seq(Doc), total : Nat]
         /\ Answer(reading, order, f) # Nil
         /\ Answer(reading, order, f).total = IF reading = "uncounted" THEN 0 ELSE Len(order)
         /\ Len(Answer(reading, order, f).hits) \in Nat
         /\ Len(Answer(reading, order, f).hits) <= BatchSize
         /\ reading # "range" =>
              Len(Answer(reading, order, f).hits) =
                IF f + BatchSize < Len(order) THEN BatchSize
                ELSE IF f < Len(order) THEN Len(order) - f ELSE 0
         /\ reading = "range" =>
              Len(Answer(reading, order, f).hits) =
                IF BatchSize <= f \/ Len(order) <= f THEN 0
                ELSE IF BatchSize < Len(order) THEN BatchSize - f ELSE Len(order) - f
         /\ \A k \in 1 .. Len(Answer(reading, order, f).hits) :
              Answer(reading, order, f).hits[k] = order[f + k]
<1> DEFINE answer == Answer(reading, order, f)
           end == IF reading = "range" THEN BatchSize ELSE f + BatchSize
           last == IF end < Len(order) THEN end ELSE Len(order)
           page == SubSeq(order, f + 1, last)
<1>1. BatchSize \in Nat \ {0} /\ Len(order) \in Nat
  BY IndexAssumption
<1>2. end \in Nat /\ end <= f + BatchSize /\ last \in Nat /\ last <= Len(order) /\ last <= end
  BY <1>1
<1>3. \A i \in f + 1 .. last : order[i] \in Doc
  BY <1>1, <1>2, ElementOfSeq
<1>4. /\ page \in Seq(Doc)
      /\ Len(page) = IF f + 1 <= last THEN last - (f + 1) + 1 ELSE 0
      /\ \A i \in 1 .. last - (f + 1) + 1 : page[i] = order[f + 1 + i - 1]
  BY <1>1, <1>2, <1>3, SubSeqProperties
<1>5. /\ answer.hits = page
      /\ answer = [hits |-> page, total |-> IF reading = "uncounted" THEN 0 ELSE Len(order)]
  BY DEF Answer, Page
<1>6. \A k \in 1 .. Len(page) : page[k] = order[f + k]
  BY <1>1, <1>2, <1>4
<1>7. Len(page) \in Nat /\ Len(page) <= BatchSize
  BY <1>1, <1>2, <1>4
<1>8. reading # "range" => Len(page) = IF f + BatchSize < Len(order) THEN BatchSize
                                       ELSE IF f < Len(order) THEN Len(order) - f ELSE 0
  BY <1>1, <1>4
<1>9. reading = "range" => Len(page) = IF BatchSize <= f \/ Len(order) <= f THEN 0
                                       ELSE IF BatchSize < Len(order) THEN BatchSize - f
                                       ELSE Len(order) - f
  BY <1>1, <1>4
<1>10. (IF reading = "uncounted" THEN 0 ELSE Len(order)) \in Nat
  BY <1>1
<1> HIDE DEF page, last, end, answer
<1>11. answer \in [hits : Seq(Doc), total : Nat] /\ answer.total \in Nat
  BY <1>4, <1>5, <1>10
<1>12. answer # Nil
  BY <1>11, IndexAssumption
<1> QED BY <1>5, <1>6, <1>7, <1>8, <1>9, <1>11, <1>12 DEF answer

(* Where Next is on its page, also when the index has changed.             *)
OnPage ==
  /\ itpc # "none" /\ rs = Nil => lastErr # "nil"
  /\ itpc \in {"open", "hit"} => rs # Nil /\ lastErr = "nil"
  /\ rs # Nil => /\ rs \in [hits : Seq(Doc), total : Nat]
                 /\ rsIdx <= Len(rs.hits)

(* Over an unchanged index the three counts agree: the page is the one at  *)
(* `from', cumIdx is the place in the order and rsIdx the one on the page. *)
(* They part when Next has come to the end of a range.                     *)
Offset == cumIdx - Len(seen)
Listed(order) ==
  /\ Offset \in Nat
  /\ Len(listing) = IF Offset < Len(order) THEN Len(order) - Offset ELSE 0
  /\ \A k \in 1 .. Len(listing) : listing[k] = order[Offset + k]
  /\ Len(seen) <= Len(listing)
  /\ \A k \in 1 .. Len(seen) : seen[k] = listing[k]
Counted(reading, order) ==
  /\ itpc \in {"open", "hit"} => rs = Answer(reading, order, from) /\ cumIdx = from + rsIdx
  /\ itpc = "panicked" => reading = "range" /\ BatchSize <= cumIdx /\ cumIdx < Len(order)
  /\ itpc = "ended" /\ lastErr = "nil" => reading = "uncounted" \/ Len(seen) = Len(listing)
  /\ reading = "range" => Len(seen) = 0 \/ cumIdx <= BatchSize
  /\ reading = "uncounted" => itpc \in {"open", "ended"} /\ rs # Nil /\ Len(seen) = 0
InStep(reading, order) ==
  itpc # "none" /\ ~moved => Listed(order) /\ Counted(reading, order)

IterInv(reading, order) == IterTypeOK /\ OnPage /\ InStep(reading, order)

LEMMA IterInitially ==
  ASSUME IterInit, NEW reading, NEW order
  PROVE  IterInv(reading, order)
<1>1. IterTypeOK
  <2>1. moved \in BOOLEAN
    BY Zenon DEF IterInit
  <2> QED BY <2>1 DEF IterInit, IterTypeOK
<1> QED BY <1>1 DEF IterInv, IterInit, OnPage, InStep

LEMMA SearchStarts ==
  ASSUME NEW reading, NEW order \in Seq(Doc), NEW offset \in Nat,
         Search(order, offset, Answer(reading, order, offset))
  PROVE  IterInv(reading, order)'
<1> USE DEF Search
<1> DEFINE rest == SubSeq(order, offset + 1, Len(order))
<1>1. Len(order) \in Nat /\ \A i \in offset + 1 .. Len(order) : order[i] \in Doc
  BY ElementOfSeq
<1>2. /\ rest \in Seq(Doc)
      /\ Len(rest) = IF offset + 1 <= Len(order) THEN Len(order) - (offset + 1) + 1 ELSE 0
      /\ \A i \in 1 .. Len(order) - (offset + 1) + 1 : rest[i] = order[offset + 1 + i - 1]
  BY <1>1, SubSeqProperties
<1>3. Len(rest) = IF offset < Len(order) THEN Len(order) - offset ELSE 0
  BY <1>1, <1>2
<1>4. \A k \in 1 .. Len(rest) : rest[k] = order[offset + k]
  BY <1>1, <1>2
<1>5. /\ rs' \in [hits : Seq(Doc), total : Nat] /\ rs' # Nil
      /\ Len(rs'.hits) <= BatchSize /\ Len(rs'.hits) \in Nat
  BY AnswerIsAPage
<1>6. IterTypeOK'
  <2>1. moved' \in BOOLEAN
    BY Zenon
  <2> QED BY <1>2, <1>5, <2>1 DEF IterTypeOK
<1>7. OnPage'
  BY <1>5 DEF OnPage
<1>8. InStep(reading, order)'
  <2>1. Offset' = offset /\ Len(seen') = 0
    BY DEF Offset
  <2>2. listing' = rest /\ from' = offset /\ cumIdx' = offset /\ rsIdx' = 0 /\ itpc' = "open"
    OBVIOUS
  <2>3. rs' = Answer(reading, order, offset)
    OBVIOUS
  <2> HIDE DEF rest
  <2>4. Listed(order)'
    BY <1>2, <1>3, <1>4, <2>1, <2>2 DEF Listed
  <2>5. Counted(reading, order)'
    BY <1>5, <2>1, <2>2, <2>3 DEF Counted
  <2> QED BY <2>4, <2>5 DEF InStep
<1> QED BY <1>6, <1>7, <1>8 DEF IterInv

(* A search without a count has nothing to list.                           *)
LEMMA NotCountedIsExhausted ==
  ASSUME NEW reading, NEW order \in Seq(Doc), IterTypeOK, InStep(reading, order),
         itpc = "open", ~Exhausted, ~moved
  PROVE  reading # "uncounted"
<1>1. from \in Nat /\ cumIdx \in Nat /\ rs = Answer(reading, order, from)
  BY DEF IterTypeOK, InStep, Counted
<1>2. ~(cumIdx >= rs.total)
  BY DEF Exhausted, TotalReached
<1>3. Answer(reading, order, from).total = IF reading = "uncounted" THEN 0 ELSE Len(order)
  BY AnswerCounts, Zenon
<1> QED BY <1>1, <1>2, <1>3

(* NextPage goes on where the old page ends, so a page it gets has a hit,  *)
(* the next of the order; a range it asks for is behind its end.           *)
LEMMA PagingKeeps ==
  ASSUME NEW reading, NEW order \in Seq(Doc), IterInv(reading, order),
         Paging(Answer(reading, order, NextFrom))
  PROVE  IterInv(reading, order)'
<1> USE IndexAssumption
<1>0. IterTypeOK /\ OnPage /\ InStep(reading, order) /\ Len(order) \in Nat
  BY DEF IterInv
<1>1. CASE NextEnds
  <2>1. /\ itpc = "open" /\ Exhausted /\ itpc' = "ended"
        /\ UNCHANGED <<rs, from, rsIdx, cumIdx, lastErr, seen, listing, moved>>
    BY <1>1 DEF NextEnds
  <2>2. IterTypeOK' /\ OnPage'
    BY <1>0, <2>1 DEF IterTypeOK, OnPage
  <2>3. rs # Nil /\ lastErr = "nil" /\ cumIdx >= rs.total
    BY <1>0, <2>1 DEF OnPage, Exhausted, TotalReached
  <2>4. ASSUME ~moved, reading # "uncounted" PROVE Len(seen) = Len(listing)
    <3>1. Listed(order) /\ rs = Answer(reading, order, from) /\ from \in Nat
      BY <1>0, <2>1, <2>4 DEF InStep, Counted, IterTypeOK
    <3>2. Answer(reading, order, from).total = IF reading = "uncounted" THEN 0 ELSE Len(order)
      BY AnswerCounts, Zenon
    <3>3. rs.total = Len(order)
      BY <2>4, <3>1, <3>2
    <3>4. seen \in Seq(Doc) /\ listing \in Seq(Doc) /\ cumIdx \in Nat
      BY <1>0 DEF IterTypeOK
    <3>5. Len(seen) \in Nat /\ Len(listing) \in Nat
      BY <3>4, LenProperties
    <3>6. /\ Offset \in Nat /\ Len(seen) <= Len(listing)
          /\ Len(listing) = IF Offset < Len(order) THEN Len(order) - Offset ELSE 0
      BY <3>1 DEF Listed
    <3>7. Len(order) \in Nat /\ cumIdx >= Len(order)
      BY <1>0, <2>3, <3>3
    <3> QED BY <3>4, <3>5, <3>6, <3>7 DEF Offset
  <2>5. InStep(reading, order)'
    BY <1>0, <2>1, <2>3, <2>4 DEF InStep, Listed, Counted, Offset
  <2> QED BY <2>2, <2>5 DEF IterInv
<1>2. CASE NextOnPage
  <2>1. /\ itpc = "open" /\ ~Exhausted /\ rsIdx < Len(rs.hits) /\ itpc' = "hit"
        /\ UNCHANGED <<rs, from, rsIdx, cumIdx, lastErr, seen, listing, moved>>
    BY <1>2 DEF NextOnPage
  <2>2. IterTypeOK' /\ OnPage'
    BY <1>0, <2>1 DEF IterTypeOK, OnPage
  <2>3. ~moved => reading # "uncounted"
    BY <1>0, <2>1, NotCountedIsExhausted
  <2>4. InStep(reading, order)'
    BY <1>0, <2>1, <2>3 DEF InStep, Listed, Counted, Offset
  <2> QED BY <2>2, <2>4 DEF IterInv
<1>3. CASE NextPage(Answer(reading, order, NextFrom))
  <2>1. /\ itpc = "open" /\ ~Exhausted /\ rsIdx >= Len(rs.hits)
        /\ from' = from + BatchSize /\ rs' = Answer(reading, order, from') /\ rsIdx' = 0
        /\ itpc' = IF rs'.hits = << >> THEN "panicked" ELSE "hit"
        /\ UNCHANGED <<cumIdx, lastErr, seen, listing, moved>>
    BY <1>3 DEF NextPage, NextFrom, FirstHit
  <2>2. from' \in Nat /\ cumIdx \in Nat /\ from \in Nat /\ rsIdx \in Nat
    BY <1>0, <2>1 DEF IterTypeOK
  <2>3. /\ rs' \in [hits : Seq(Doc), total : Nat] /\ rs' # Nil
        /\ Len(rs'.hits) <= BatchSize /\ Len(rs'.hits) \in Nat
        /\ rs'.hits # << >> <=> 0 < Len(rs'.hits)
    <3>1. /\ rs' \in [hits : Seq(Doc), total : Nat] /\ rs' # Nil
          /\ Len(rs'.hits) <= BatchSize /\ Len(rs'.hits) \in Nat
      BY <2>1, <2>2, AnswerIsAPage
    <3> QED BY <3>1
  <2>4. IterTypeOK' /\ OnPage'
    BY <1>0, <2>1, <2>2, <2>3 DEF IterTypeOK, OnPage
  <2>5. ASSUME ~moved
        PROVE  /\ reading # "uncounted" /\ cumIdx < Len(order)
               /\ reading # "range" => from' = cumIdx /\ itpc' = "hit"
               /\ reading = "range" => BatchSize <= cumIdx /\ itpc' = "panicked"
    <3>1. /\ rs # Nil /\ ~(cumIdx >= rs.total) /\ rs.total \in Nat
          /\ rsIdx <= Len(rs.hits)
          /\ rs = Answer(reading, order, from) /\ cumIdx = from + rsIdx
      BY <1>0, <2>1, <2>5 DEF OnPage, Exhausted, TotalReached, InStep, Counted
    <3>2. reading # "uncounted"
      BY <1>0, <2>1, <2>5, NotCountedIsExhausted
    <3>3. /\ rs.total = Len(order) /\ Len(rs.hits) \in Nat
          /\ reading # "range" =>
               Len(rs.hits) = IF from + BatchSize < Len(order) THEN BatchSize
                              ELSE IF from < Len(order) THEN Len(order) - from ELSE 0
          /\ reading = "range" =>
               Len(rs.hits) = IF BatchSize <= from \/ Len(order) <= from THEN 0
                              ELSE IF BatchSize < Len(order) THEN BatchSize - from
                              ELSE Len(order) - from
      BY <2>2, <3>1, <3>2, AnswerIsAPage
    <3>4. rsIdx = Len(rs.hits) /\ cumIdx = from + Len(rs.hits) /\ cumIdx < Len(order)
      BY <1>0, <2>1, <2>2, <3>1, <3>3
    <3>5. /\ reading # "range" => from' = cumIdx
          /\ reading = "range" => BatchSize <= cumIdx
      BY <1>0, <2>1, <2>2, <3>3, <3>4
    <3>6. /\ reading # "range" =>
               Len(rs'.hits) = IF from' + BatchSize < Len(order) THEN BatchSize
                               ELSE IF from' < Len(order) THEN Len(order) - from' ELSE 0
          /\ reading = "range" => (BatchSize <= from' => Len(rs'.hits) = 0)
      BY <2>1, <2>2, AnswerIsAPage
    <3>7. /\ reading # "range" => 0 < Len(rs'.hits)
          /\ reading = "range" => Len(rs'.hits) = 0
      BY <1>0, <2>1, <2>2, <3>4, <3>5, <3>6
    <3> QED BY <2>1, <2>3, <3>2, <3>4, <3>5, <3>7
  <2>6. InStep(reading, order)'
    <3> SUFFICES ASSUME ~moved
                 PROVE  Listed(order)' /\ Counted(reading, order)'
      BY <2>1 DEF InStep
    <3>1. Listed(order) /\ Counted(reading, order)
      BY <1>0, <2>1 DEF InStep
    <3>2. Listed(order)'
      BY <2>1, <3>1 DEF Listed, Offset
    <3>3. Counted(reading, order)'
      BY <1>0, <2>1, <2>2, <2>5, <3>1 DEF Counted
    <3> QED BY <3>2, <3>3
  <2> QED BY <2>4, <2>6 DEF IterInv
<1>4. CASE NextPageFails
  <2>1. /\ itpc = "open" /\ ~Exhausted /\ from' = from + BatchSize /\ rs' = Nil
        /\ lastErr' = "search" /\ itpc' = "ended"
        /\ UNCHANGED <<rsIdx, cumIdx, seen, listing, moved>>
    BY <1>4 DEF NextPageFails, NextFrom
  <2>2. IterTypeOK' /\ OnPage'
    BY <1>0, <2>1 DEF IterTypeOK, OnPage
  <2>3. ~moved => reading # "uncounted"
    BY <1>0, <2>1, NotCountedIsExhausted
  <2>4. InStep(reading, order)'
    BY <1>0, <2>1, <2>3 DEF InStep, Listed, Counted, Offset
  <2> QED BY <2>2, <2>4 DEF IterInv
<1> QED BY <1>1, <1>2, <1>3, <1>4 DEF Paging

LEMMA LoadKeeps ==
  ASSUME NEW reading, NEW order \in Seq(Doc), IterInv(reading, order), Load
  PROVE  IterInv(reading, order)'
<1> USE IndexAssumption
<1>0. IterTypeOK /\ OnPage /\ InStep(reading, order) /\ Len(order) \in Nat
  BY DEF IterInv
<1>1. /\ itpc = "hit" /\ seen' = Append(seen, Hit) /\ itpc' = "open"
      /\ cumIdx' = cumIdx + 1 /\ rsIdx' = rsIdx + 1
      /\ UNCHANGED <<rs, from, lastErr, listing, moved>>
  BY DEF Load
<1>2. /\ rs # Nil /\ rs \in [hits : Seq(Doc), total : Nat] /\ Len(rs.hits) \in Nat
      /\ rsIdx \in Nat /\ cumIdx \in Nat /\ from \in Nat /\ rsIdx < Len(rs.hits)
  BY <1>0, <1>1 DEF OnPage, IterTypeOK
<1>3. Hit \in Doc /\ seen \in Seq(Doc) /\ listing \in Seq(Doc)
  <2>1. seen \in Seq(Doc) /\ listing \in Seq(Doc)
    BY <1>0 DEF IterTypeOK
  <2>2. rs.hits \in Seq(Doc) /\ rsIdx + 1 \in 1 .. Len(rs.hits)
    BY <1>2
  <2> QED BY <2>1, <2>2, ElementOfSeq DEF Hit
<1>4. /\ seen' \in Seq(Doc) /\ Len(seen') = Len(seen) + 1 /\ Len(seen) \in Nat
      /\ \A k \in 1 .. Len(seen) : seen'[k] = seen[k]
      /\ seen'[Len(seen) + 1] = Hit
  BY <1>1, <1>3, AppendProperties
<1>5. IterTypeOK' /\ OnPage'
  BY <1>0, <1>1, <1>2, <1>4 DEF IterTypeOK, OnPage
<1>6. ASSUME ~moved
      PROVE  /\ Listed(order) /\ Counted(reading, order)
             /\ rs = Answer(reading, order, from) /\ cumIdx = from + rsIdx
             /\ Len(listing) \in Nat
  BY <1>0, <1>1, <1>3, <1>6, LenProperties DEF InStep, Counted
<1>7. ASSUME ~moved
      PROVE  /\ Hit = order[cumIdx + 1] /\ cumIdx + 1 <= Len(order)
             /\ reading = "range" => cumIdx + 1 <= BatchSize
             /\ reading # "uncounted"
  <2>1. rs = Answer(reading, order, from) /\ cumIdx = from + rsIdx
    BY <1>6, <1>7
  <2>2. /\ \A k \in 1 .. Len(rs.hits) : rs.hits[k] = order[from + k]
        /\ reading # "range" =>
             Len(rs.hits) = IF from + BatchSize < Len(order) THEN BatchSize
                            ELSE IF from < Len(order) THEN Len(order) - from ELSE 0
        /\ reading = "range" =>
             Len(rs.hits) = IF BatchSize <= from \/ Len(order) <= from THEN 0
                            ELSE IF BatchSize < Len(order) THEN BatchSize - from
                            ELSE Len(order) - from
    BY <1>2, <2>1, AnswerIsAPage
  <2>3. rsIdx + 1 \in 1 .. Len(rs.hits) /\ from + (rsIdx + 1) = cumIdx + 1
    BY <1>2, <2>1
  <2>4. Hit = order[cumIdx + 1]
    BY <2>2, <2>3 DEF Hit
  <2>5. cumIdx + 1 <= Len(order) /\ (reading = "range" => cumIdx + 1 <= BatchSize)
    BY <1>0, <1>2, <2>2, <2>3
  <2>6. reading # "uncounted"
    BY <1>1, <1>6, <1>7 DEF Counted
  <2> QED BY <2>4, <2>5, <2>6
<1>8. Offset' = Offset
  BY <1>1, <1>2, <1>4 DEF Offset
<1>9. ASSUME ~moved
      PROVE  Listed(order)'
  <2>1. PICK o \in Nat : o = Offset
    BY <1>6, <1>9 DEF Listed
  <2>2. /\ Len(listing) = IF o < Len(order) THEN Len(order) - o ELSE 0
        /\ \A k \in 1 .. Len(listing) : listing[k] = order[o + k]
        /\ Len(seen) <= Len(listing)
        /\ \A k \in 1 .. Len(seen) : seen[k] = listing[k]
    BY <1>6, <1>9, <2>1 DEF Listed
  <2>3. o + (Len(seen) + 1) = cumIdx + 1
    BY <1>2, <1>4, <2>1 DEF Offset
  <2>4. Len(seen) + 1 <= Len(listing)
    BY <1>0, <1>4, <1>7, <1>9, <2>1, <2>2, <2>3
  <2>5. Hit = listing[Len(seen) + 1]
    BY <1>4, <1>6, <1>7, <1>9, <2>2, <2>3, <2>4
  <2>6. \A k \in 1 .. Len(seen') : seen'[k] = listing[k]
    BY <1>4, <2>2, <2>5
  <2> QED BY <1>1, <1>4, <1>8, <2>1, <2>2, <2>4, <2>6 DEF Listed
<1>10. ASSUME ~moved
       PROVE  Counted(reading, order)'
  <2>1. cumIdx' = from' + rsIdx' /\ rs' = Answer(reading, order, from')
    BY <1>1, <1>2, <1>6, <1>10
  <2> QED BY <1>1, <1>7, <1>10, <2>1 DEF Counted
<1>11. InStep(reading, order)'
  BY <1>1, <1>9, <1>10 DEF InStep
<1> QED BY <1>5, <1>11 DEF IterInv

(* Closing it, or not finding a document, or changing the index.           *)
LEMMA LetGoKeeps ==
  ASSUME LetGo, NEW reading, NEW order
  PROVE  IterInv(reading, order)'
<1>1. IterTypeOK'
  <2>1. moved' \in BOOLEAN
    BY Zenon DEF LetGo
  <2> QED BY <2>1 DEF LetGo, IterTypeOK
<1> QED BY <1>1 DEF IterInv, LetGo, OnPage, InStep

LEMMA MovesKeeps ==
  ASSUME NEW before, NEW old, NEW reading, NEW order, IterInv(before, old), Moves
  PROVE  IterInv(reading, order)'
<1>1. IterTypeOK'
  <2>1. moved' \in BOOLEAN
    BY Zenon DEF Moves
  <2> QED BY <2>1 DEF IterInv, Moves, IterTypeOK
<1> QED BY <1>1 DEF IterInv, Moves, OnPage, InStep

LEMMA UntouchedKeeps ==
  ASSUME NEW reading, NEW order, IterInv(reading, order), UNCHANGED iterVars
  PROVE  IterInv(reading, order)'
  BY DEF IterInv, iterVars, IterTypeOK, OnPage, InStep, Listed, Counted, Offset

(* What has been loaded begins the listing; it is all of it if the two are *)
(* of the same length.                                                     *)
LEMMA SeenIsPrefix ==
  ASSUME NEW reading, NEW order \in Seq(Doc), IterInv(reading, order),
         itpc # "none", ~moved
  PROVE  /\ IsPrefix(seen, listing)
         /\ Len(seen) = Len(listing) => seen = listing
         /\ Len(seen) = 0 => seen = << >>
<1>1. /\ seen \in Seq(Doc) /\ listing \in Seq(Doc)
      /\ Len(seen) \in Nat /\ Len(listing) \in Nat
      /\ Len(seen) <= Len(listing) /\ \A k \in 1 .. Len(seen) : seen[k] = listing[k]
  <2>1. seen \in Seq(Doc) /\ listing \in Seq(Doc)
    BY DEF IterInv, IterTypeOK
  <2>2. Listed(order)
    BY DEF IterInv, InStep
  <2> QED BY <2>1, <2>2, LenProperties DEF Listed
<1>2. SubSeq(seen, 1, Len(seen)) = SubSeq(listing, 1, Len(seen))
  <2>1. /\ SubSeq(seen, 1, Len(seen)) = seen
        /\ SubSeq(listing, 1, Len(seen)) \in Seq(Doc)
        /\ Len(SubSeq(listing, 1, Len(seen))) = Len(seen)
        /\ \A k \in 1 .. Len(seen) : SubSeq(listing, 1, Len(seen))[k] = listing[k]
    <3>1. \A i \in 1 .. Len(seen) : listing[i] \in Doc
      BY <1>1, ElementOfSeq
    <3> QED BY <1>1, <3>1, SubSeqProperties, SubSeqFull
  <2> QED BY <1>1, <2>1, SeqEqual
<1>3. Len(seen) = Len(listing) => seen = listing
  BY <1>1, SeqEqual
<1> QED BY <1>1, <1>2, <1>3 DEF IsPrefix

-----------------------------------------------------------------------------
(* The in-memory store.                                                    *)

(* A document's index entry has its text, if there is an entry, and is all *)
(* of it if the last write to the index did not fail.                      *)
Agrees(d) ==
  /\ d \notin lagging => bleve[d] = docs[d]
  /\ bleve[d] # NoDoc => docs[d] # NoDoc /\ bleve[d].text = docs[d].text

(* What the call that holds the lock has done so far.                      *)
InIndex ==
  mu \in {"index", "store"} =>
    /\ key \in Doc
    /\ \E t \in Text : dcopy = [text |-> t, rank |-> MemRank(docs[key])]
InScore ==
  mu = "score" =>
    /\ key \in Doc
    /\ docs[key] # NoDoc
    /\ bleve[key] # NoDoc => bleve[key].text = docs[key].text

(* The inductive invariant.  Two conditions of the call at the lock follow *)
(* from the writes it has made: to the index but not yet to the documents  *)
(* ("store"), or the other way about ("score").                            *)
StoreInv ==
  /\ docs \in [Doc -> MemEntry \cup {NoDoc}]
  /\ bleve \in [Doc -> MemEntry \cup {NoDoc}]
  /\ mu \in {"free", "index", "store", "score", "leaked"}
  /\ lagging \subseteq Doc
  /\ InIndex /\ InScore
  /\ mu = "store" => bleve[key] = dcopy
  /\ \A d \in Doc : (mu \in {"store", "score"} /\ d = key) \/ Agrees(d)

LEMMA Entries ==
  ASSUME NEW t \in Text, NEW entry \in MemEntry \cup {NoDoc}
  PROVE  /\ [text |-> t, rank |-> MemRank(entry)] \in MemEntry
         /\ \A s \in 0 .. MaxScore : Scored(entry, s) \in MemEntry
         /\ MemRank(entry) \in 0 .. MaxScore
<1>1. MemRank(entry) \in 0 .. MaxScore
  BY IndexAssumption DEF MemRank, MemEntry
<1>2. MemText(entry) \in Text \cup {NoText}
  BY IndexAssumption DEF MemText, MemEntry
<1> QED BY <1>1, <1>2 DEF MemEntry, Scored

LEMMA NoDocIsNoEntry == NoDoc \notin MemEntry
  BY IndexAssumption DEF MemEntry

-----------------------------------------------------------------------------
(* One lemma per step of a call; the iterator has none.                    *)
LEMMA IndexStep ==
  ASSUME StoreInv, NEW d \in Doc, NEW t \in Text, Index(d, t)
  PROVE  StoreInv'
<1>1. \A e \in Doc : Agrees(e)
  BY DEF StoreInv, Index
<1>2. InIndex'
  BY DEF Index, InIndex, KeptRank
<1> QED BY <1>1, <1>2 DEF StoreInv, Index, InScore, Agrees

LEMMA IndexBleveStep ==
  ASSUME StoreInv, IndexBleve
  PROVE  StoreInv'
<1>1. key \in Doc /\ dcopy \in MemEntry
  BY Entries DEF StoreInv, IndexBleve, InIndex
<1>2. bleve' \in [Doc -> MemEntry \cup {NoDoc}] /\ bleve'[key] = dcopy
  BY <1>1 DEF StoreInv, IndexBleve
<1>3. \A d \in Doc : d = key \/ Agrees(d)'
  BY <1>1 DEF StoreInv, IndexBleve, Agrees
<1>4. InIndex'
  BY DEF StoreInv, IndexBleve, InIndex
<1> QED BY <1>2, <1>3, <1>4 DEF StoreInv, IndexBleve, InScore

LEMMA IndexFailsStep ==
  ASSUME StoreInv, IndexFails
  PROVE  StoreInv'
  BY DEF StoreInv, IndexFails, InIndex, InScore, Agrees

LEMMA IndexStoreStep ==
  ASSUME StoreInv, IndexStore
  PROVE  StoreInv'
<1>1. key \in Doc /\ dcopy \in MemEntry /\ bleve[key] = dcopy
  BY Entries DEF StoreInv, IndexStore, InIndex
<1>2. docs' \in [Doc -> MemEntry \cup {NoDoc}] /\ docs'[key] = dcopy
  BY <1>1 DEF StoreInv, IndexStore, StoredAfter
<1>3. \A d \in Doc : d # key => Agrees(d)'
  BY <1>1 DEF StoreInv, IndexStore, StoredAfter, Agrees
<1>4. ASSUME NEW d \in Doc PROVE Agrees(d)'
  <2>1. CASE d = key
    <3>1. bleve'[d] = docs'[d] /\ docs'[d] # NoDoc
      BY <1>1, <1>2, <2>1, NoDocIsNoEntry DEF IndexStore
    <3> QED BY <3>1 DEF Agrees
  <2>2. CASE d # key
    BY <1>3, <2>2
  <2> QED BY <2>1, <2>2
<1> QED BY <1>2, <1>4 DEF StoreInv, IndexStore, Unlock, InIndex, InScore

LEMMA UpdateScoreStep ==
  ASSUME StoreInv, NEW d \in Doc, NEW s \in 0 .. MaxScore, UpdateScore(d, s)
  PROVE  StoreInv'
<1>1. Scored(docs[d], s) \in MemEntry
  <2>1. docs[d] \in MemEntry \cup {NoDoc}
    BY DEF StoreInv
  <2>2. MemRank(docs[d]) \in 0 .. MaxScore /\ MemText(docs[d]) \in Text \cup {NoText}
    BY <2>1, IndexAssumption DEF MemRank, MemText, MemEntry
  <2> QED BY <2>2 DEF Scored, MemEntry
<1>2. docs' \in [Doc -> MemEntry \cup {NoDoc}] /\ docs'[d] = Scored(docs[d], s)
  BY <1>1 DEF StoreInv, UpdateScore
<1>3. docs'[d] # NoDoc
  BY <1>1, <1>2, NoDocIsNoEntry
<1>4. bleve[d] # NoDoc => bleve[d].text = docs'[d].text
  <2>1. Agrees(d)
    BY DEF StoreInv, UpdateScore
  <2> QED BY <1>2, <2>1 DEF Agrees, Scored, MemText
<1>5. \A e \in Doc : e = d \/ Agrees(e)'
  BY DEF StoreInv, UpdateScore, Agrees
<1> QED BY <1>2, <1>3, <1>4, <1>5 DEF StoreInv, UpdateScore, InIndex, InScore

LEMMA ScoreBleveStep ==
  ASSUME StoreInv, ScoreBleve
  PROVE  StoreInv'
<1>1. key \in Doc /\ docs[key] # NoDoc
  BY DEF StoreInv, ScoreBleve, InScore
<1>2. bleve' \in [Doc -> MemEntry \cup {NoDoc}] /\ bleve'[key] = docs[key]
  BY <1>1 DEF StoreInv, ScoreBleve
<1>3. ASSUME NEW d \in Doc PROVE Agrees(d)'
  <2>1. CASE d = key
    BY <1>1, <1>2, <2>1 DEF ScoreBleve, Agrees
  <2>2. CASE d # key
    BY <1>1, <2>2 DEF StoreInv, ScoreBleve, Agrees
  <2> QED BY <2>1, <2>2
<1> QED BY <1>2, <1>3 DEF StoreInv, ScoreBleve, Unlock, InIndex, InScore

LEMMA ScoreFailsStep ==
  ASSUME StoreInv, ScoreFails
  PROVE  StoreInv'
<1>1. key \in Doc /\ docs[key] # NoDoc
      /\ (bleve[key] # NoDoc => bleve[key].text = docs[key].text)
  BY DEF StoreInv, ScoreFails, InScore
<1>2. ASSUME NEW d \in Doc PROVE Agrees(d)'
  BY <1>1 DEF StoreInv, ScoreFails, Agrees
<1> QED BY <1>2 DEF StoreInv, ScoreFails, DeferredUnlock, Unlock, InIndex, InScore

(* A step of the iterator, or none.                                        *)
LEMMA ReaderStep ==
  ASSUME StoreInv, UNCHANGED memVars
  PROVE  StoreInv'
  BY DEF StoreInv, memVars, InIndex, InScore, Agrees

-----------------------------------------------------------------------------
(* What a step does to the store.                                          *)
LEMMA StepCases ==
  ASSUME [BleveNext]_bleveVars
  PROVE  \/ \E d \in Doc : \/ \E t \in Text : Index(d, t)
                          \/ \E s \in 0 .. MaxScore : UpdateScore(d, s)
         \/ IndexBleve \/ IndexFails \/ IndexStore \/ ScoreBleve \/ ScoreFails
         \/ UNCHANGED memVars
  BY DEF BleveNext, Holder, MemSearch, MemNext, MemClose, bleveVars

LEMMA StoreInitially == BleveInit => StoreInv
  BY DEF BleveInit, StoreInv, InIndex, InScore, Agrees

LEMMA StoreNext == StoreInv /\ [BleveNext]_bleveVars => StoreInv'
  BY StepCases, IndexStep, IndexBleveStep, IndexFailsStep, IndexStoreStep,
     UpdateScoreStep, ScoreBleveStep, ScoreFailsStep, ReaderStep

(* The inductive invariant.                                                *)
THEOREM StoreInvariant == BleveSpec => []StoreInv
<1> QED BY StoreInitially, StoreNext, PTL DEF BleveSpec

(* Between calls documents and index agree (memory.go: Index and           *)
(* UpdateScore write both under the lock), but for what bleve refused.     *)
THEOREM StoresStayTogether == BleveSpec => []StoresAgree
<1>1. StoreInv => StoresAgree
  BY DEF StoreInv, StoresAgree, Agrees
<1> QED BY <1>1, StoreInvariant, PTL

-----------------------------------------------------------------------------
(* Every step of the store is a step of the catalog or none: Index takes   *)
(* effect when the document is stored, UpdateScore when it gets the lock.  *)
LEMMA CatalogStep ==
  ASSUME StoreInv, [BleveNext]_bleveVars
  PROVE  [Promise!Next]_docs
<1>1. ASSUME NEW d \in Doc, NEW t \in Text, Index(d, t) PROVE UNCHANGED docs
  BY <1>1 DEF Index
<1>2. ASSUME NEW d \in Doc, NEW s \in 0 .. MaxScore, UpdateScore(d, s) PROVE Promise!Next
  <2>1. Promise!UpdateScore(d, s)
    BY <1>2 DEF UpdateScore, Scored, MemText, Promise!UpdateScore, Promise!TextOf
  <2> QED BY <2>1 DEF Promise!Next, Promise!Score
<1>3. ASSUME IndexStore PROVE Promise!Next
  <2>1. PICK t \in Text : dcopy = [text |-> t, rank |-> MemRank(docs[key])]
    BY <1>3 DEF StoreInv, InIndex, IndexStore
  <2>2. key \in Doc /\ Promise!Index(key, t)
    BY <1>3, <2>1 DEF StoreInv, InIndex, IndexStore, StoredAfter, MemRank,
       Promise!Index, Promise!RankOf
  <2> QED BY <2>2 DEF Promise!Next
<1>4. ASSUME IndexBleve \/ IndexFails \/ ScoreBleve \/ ScoreFails \/ UNCHANGED memVars
      PROVE  UNCHANGED docs
  BY <1>4 DEF IndexBleve, IndexFails, ScoreBleve, ScoreFails, memVars
<1> QED BY <1>1, <1>2, <1>3, <1>4, StepCases

(* The in-memory store implements the Indexer: its documents change as     *)
(* Index and UpdateScore promise, and no other way.                        *)
THEOREM Implementation == BleveSpec => BleveImplementsIndexer
<1>1. BleveInit => Promise!Init
  BY DEF BleveInit, Promise!Init
<1> QED BY <1>1, CatalogStep, StoreInvariant, PTL
        DEF BleveSpec, BleveImplementsIndexer, Promise!Spec
-----------------------------------------------------------------------------
(* The in-memory store and the iterator over it.                           *)

(* bleve forgets no document, so the hits of a page stay in the index, and *)
(* a document of the index is stored when nobody is in the middle of Index *)
(* (StoreInv).                                                             *)
HitsKnown ==
  /\ rs # Nil => \A k \in 1 .. Len(rs.hits) : bleve[rs.hits[k]] # NoDoc
  /\ lastErr # "find"

BleveInv == StoreInv /\ IterInv("page", ByPageRank(bleve)) /\ HitsKnown

LEMMA MatchesByPageRank ==
  ASSUME StoreInv, NEW order, order = ByPageRank(bleve)
  PROVE  /\ order \in Seq(Doc)
         /\ \A f \in Nat :
              /\ MemAnswer(f) = Answer("page", order, f)
              /\ \A k \in 1 .. Len(Answer("page", order, f).hits) :
                   bleve[Answer("page", order, f).hits[k]] # NoDoc
<1>1. order \in SetToSeqs(Matching(bleve))
  BY OrderByPageRank DEF StoreInv
<1>2. order \in Seq(Doc) /\ \A k \in 1 .. Len(order) : order[k] \in Matching(bleve)
  BY <1>1, OrdersAreSequences
<1>3. ASSUME NEW f \in Nat, NEW k \in 1 .. Len(Answer("page", order, f).hits)
      PROVE  bleve[Answer("page", order, f).hits[k]] # NoDoc
  <2>1. PICK reading : reading = "page"
    OBVIOUS
  <2>2. PICK answer : answer = Answer(reading, order, f)
    OBVIOUS
  <2>3. /\ \A i \in 1 .. Len(answer.hits) : answer.hits[i] = order[f + i]
        /\ reading # "range" =>
             Len(answer.hits) = IF f + BatchSize < Len(order) THEN BatchSize
                                ELSE IF f < Len(order) THEN Len(order) - f ELSE 0
    BY <1>2, <2>2, AnswerIsAPage
  <2>4. k \in 1 .. Len(answer.hits) /\ answer.hits[k] = order[f + k]
    BY <2>1, <2>2, <2>3
  <2>5. f + k \in 1 .. Len(order)
    BY <1>2, <2>1, <2>3, <2>4, IndexAssumption
  <2> QED BY <1>2, <2>1, <2>2, <2>4, <2>5 DEF Matching
<1>4. \A f \in Nat : MemAnswer(f) = Answer("page", order, f)
  BY DEF MemAnswer, Answer
<1> QED BY <1>2, <1>3, <1>4

LEMMA BleveInvInitially == BleveInit => BleveInv
<1> SUFFICES ASSUME BleveInit
             PROVE  BleveInv
  OBVIOUS
<1>1. HitsKnown
  BY DEF BleveInit, IterInit, HitsKnown
<1> QED BY <1>1, StoreInitially, IterInitially DEF BleveInv, BleveInit

(* A write that does not reach bleve.                                      *)
LEMMA UnseenStep ==
  ASSUME BleveInv, StoreInv', UNCHANGED <<bleve, iterVars>>
  PROVE  BleveInv'
<1> PICK order : order = ByPageRank(bleve)
  OBVIOUS
<1>1. IterInv("page", order)'
  BY UntouchedKeeps DEF BleveInv
<1>2. order = ByPageRank(bleve)'
  OBVIOUS
<1>3. HitsKnown'
  BY DEF BleveInv, HitsKnown, iterVars
<1> QED BY <1>1, <1>2, <1>3 DEF BleveInv

(* One that does.                                                          *)
LEMMA SeenStep ==
  ASSUME BleveInv, StoreInv', IndexBleve \/ ScoreBleve
  PROVE  BleveInv'
<1>1. \A d \in Doc : bleve[d] # NoDoc => bleve'[d] # NoDoc
  <2>1. CASE IndexBleve
    <3>1. key \in Doc /\ dcopy \in MemEntry
      BY <2>1, Entries DEF BleveInv, StoreInv, IndexBleve, InIndex
    <3> QED BY <2>1, <3>1, NoDocIsNoEntry DEF BleveInv, StoreInv, IndexBleve
  <2>2. CASE ScoreBleve
    BY <2>2 DEF BleveInv, StoreInv, ScoreBleve, InScore
  <2> QED BY <2>1, <2>2
<1>2. Moves
  BY DEF IndexBleve, ScoreBleve
<1>3. HitsKnown'
  <2>1. UNCHANGED <<rs, lastErr>>
    BY <1>2 DEF Moves
  <2>2. rs # Nil => \A k \in 1 .. Len(rs.hits) : rs.hits[k] \in Doc
    <3> HAVE rs # Nil
    <3>1. rs.hits \in Seq(Doc)
      BY DEF BleveInv, IterInv, IterTypeOK
    <3> QED BY <3>1, ElementOfSeq
  <2> QED BY <1>1, <2>1, <2>2 DEF BleveInv, HitsKnown
<1> PICK order : order = ByPageRank(bleve)'
  OBVIOUS
<1>4. IterInv("page", order)'
  BY <1>2, MovesKeeps DEF BleveInv
<1> QED BY <1>3, <1>4 DEF BleveInv

(* The read lock is free only between calls, and then a document that is   *)
(* in the index is stored.                                                 *)
LEMMA FoundWhenKnown ==
  ASSUME BleveInv, itpc = "hit", RLock
  PROVE  docs[Hit] # NoDoc
<1>1. rs # Nil /\ rs.hits \in Seq(Doc) /\ rsIdx \in Nat /\ rsIdx < Len(rs.hits)
  BY DEF BleveInv, IterInv, IterTypeOK, OnPage
<1>2. rsIdx + 1 \in 1 .. Len(rs.hits)
  BY <1>1
<1>3. Hit \in Doc /\ bleve[Hit] # NoDoc
  BY <1>1, <1>2, ElementOfSeq DEF BleveInv, HitsKnown, Hit
<1> QED BY <1>3 DEF BleveInv, StoreInv, RLock, Agrees

LEMMA Offsets == \A offset \in {0, 1} : offset \in Nat
  OBVIOUS

LEMMA IteratorStep ==
  ASSUME BleveInv, UNCHANGED memVars,
         \/ \E offset \in {0, 1} : MemSearch(offset)
         \/ Paging(MemAnswer(NextFrom)) \/ MemLoad \/ LetGo
  PROVE  BleveInv'
<1> PICK order : order = ByPageRank(bleve)
  OBVIOUS
<1>1. /\ order \in Seq(Doc) /\ IterInv("page", order) /\ StoreInv'
      /\ \A f \in Nat :
           /\ MemAnswer(f) = Answer("page", order, f)
           /\ \A k \in 1 .. Len(Answer("page", order, f).hits) :
                bleve[Answer("page", order, f).hits[k]] # NoDoc
  BY MatchesByPageRank, ReaderStep DEF BleveInv
<1>2. bleve' = bleve /\ order = ByPageRank(bleve)'
  BY DEF memVars
<1>3. from \in Nat /\ BatchSize \in Nat /\ HitsKnown
  BY <1>1, IndexAssumption DEF BleveInv, IterInv, IterTypeOK
<1>4. ASSUME NEW offset \in {0, 1}, MemSearch(offset)
      PROVE  IterInv("page", order)' /\ HitsKnown'
  <2>0. offset \in Nat /\ Search(ByPageRank(bleve), offset, MemAnswer(offset))
    BY <1>4, Offsets DEF MemSearch
  <2>1. IterInv("page", order)'
    BY <1>1, <2>0, SearchStarts
  <2>2. HitsKnown'
    BY <1>1, <1>2, <2>0 DEF Search, HitsKnown
  <2> QED BY <2>1, <2>2
<1>5. ASSUME Paging(MemAnswer(NextFrom))
      PROVE  IterInv("page", order)' /\ HitsKnown'
  <2>0. NextFrom \in Nat /\ NextFrom = from + BatchSize
    BY <1>3 DEF NextFrom
  <2>1. IterInv("page", order)'
    BY <1>1, <1>5, <2>0, PagingKeeps
  <2>2. \/ rs' = rs /\ lastErr' = lastErr
        \/ rs' = Answer("page", order, NextFrom) /\ lastErr' = lastErr
        \/ rs' = Nil /\ lastErr' = "search"
    BY <1>1, <1>5, <2>0 DEF Paging, NextEnds, NextOnPage, NextPage, NextPageFails
  <2>3. HitsKnown'
    BY <1>1, <1>2, <1>3, <2>0, <2>2 DEF HitsKnown
  <2> QED BY <2>1, <2>3
<1>6. ASSUME MemLoad
      PROVE  IterInv("page", order)' /\ HitsKnown'
  <2>1. Load
    BY <1>6, FoundWhenKnown DEF MemLoad
  <2>2. IterInv("page", order)'
    BY <1>1, <2>1, LoadKeeps
  <2>3. HitsKnown'
    BY <1>2, <1>3, <2>1 DEF Load, HitsKnown
  <2> QED BY <2>2, <2>3
<1>7. ASSUME LetGo
      PROVE  IterInv("page", order)' /\ HitsKnown'
  <2>1. IterInv("page", order)'
    BY <1>7, LetGoKeeps
  <2>2. HitsKnown'
    BY <1>7 DEF LetGo, HitsKnown
  <2> QED BY <2>1, <2>2
<1>8. IterInv("page", order)' /\ HitsKnown'
  BY <1>4, <1>5, <1>6, <1>7
<1> QED BY <1>1, <1>2, <1>8 DEF BleveInv

(* The inductive invariant of the store and an iterator over it.           *)
THEOREM BleveInvariant == BleveSpec => []BleveInv
<1>1. BleveInv /\ [BleveNext]_bleveVars => BleveInv'
  <2> SUFFICES ASSUME BleveInv, [BleveNext]_bleveVars
               PROVE  BleveInv'
    OBVIOUS
  <2>1. StoreInv'
    BY StoreNext DEF BleveInv
  <2>2. CASE UNCHANGED <<bleve, iterVars>>
    BY <2>1, <2>2, UnseenStep
  <2>3. CASE IndexBleve \/ ScoreBleve
    BY <2>1, <2>3, SeenStep
  <2>4. ASSUME NEW offset \in {0, 1}, MemSearch(offset)
        PROVE  BleveInv'
    BY <2>4, IteratorStep DEF MemSearch
  <2>5. CASE MemNext \/ MemClose
    BY <2>5, IteratorStep DEF MemNext, MemClose
  <2>6. ASSUME NEW d \in Doc, \/ \E t \in Text : Index(d, t)
                              \/ \E s \in 0 .. MaxScore : UpdateScore(d, s)
        PROVE  UNCHANGED <<bleve, iterVars>>
    BY <2>6 DEF Index, UpdateScore
  <2>7. ASSUME IndexFails \/ IndexStore \/ ScoreFails
        PROVE  UNCHANGED <<bleve, iterVars>>
    BY <2>7 DEF IndexFails, IndexStore, ScoreFails
  <2>8. CASE UNCHANGED bleveVars
    BY <2>2, <2>8 DEF bleveVars, memVars
  <2> QED BY <2>2, <2>3, <2>4, <2>5, <2>6, <2>7, <2>8 DEF BleveNext, Holder
<1> QED BY <1>1, BleveInvInitially, PTL DEF BleveSpec

(* Type correctness.                                                       *)
THEOREM BleveTypeCorrect == BleveSpec => []BleveTypeOK
<1>1. BleveInv => BleveTypeOK
  <2> SUFFICES ASSUME BleveInv
               PROVE  BleveTypeOK
    OBVIOUS
  <2>1. IterTypeOK /\ StoreInv
    BY DEF BleveInv, IterInv
  <2>2. mu \in {"index", "store"} => dcopy \in MemEntry
    BY <2>1, Entries DEF StoreInv, InIndex
  <2>3. mu \in {"index", "store", "score"} => key \in Doc
    BY <2>1 DEF StoreInv, InIndex, InScore
  <2>4. {docs, bleve} \subseteq [Doc -> MemEntry \cup {NoDoc}]
    BY <2>1, Zenon DEF StoreInv
  <2> QED BY <2>1, <2>2, <2>3, <2>4 DEF StoreInv, BleveTypeOK
<1> QED BY <1>1, BleveInvariant, PTL

(* Next never comes to a hit without a document (iterator.go: Next calls   *)
(* FindByID), although Index writes the index before it writes the map.    *)
THEOREM HitsHaveDocuments == BleveSpec => []HitsAreFound
<1>1. BleveInv => HitsAreFound
  BY DEF BleveInv, HitsKnown, HitsAreFound
<1> QED BY <1>1, BleveInvariant, PTL

(* A search that is not disturbed lists its matches exactly, whatever the  *)
(* size of its pages and the number of matches (memory/iterator.go).       *)
THEOREM MemoryListingsAreExact == BleveSpec => []ListingIsExact
<1>1. BleveInv => ListingIsExact
  <2> SUFFICES ASSUME BleveInv
               PROVE  ListingIsExact
    OBVIOUS
  <2> SUFFICES ASSUME itpc # "none", ~moved
               PROVE  /\ itpc # "panicked"
                      /\ IsPrefix(seen, listing)
                      /\ itpc = "ended" /\ lastErr = "nil" => seen = listing
    BY DEF ListingIsExact
  <2> PICK order : order = ByPageRank(bleve)
    OBVIOUS
  <2>1. order \in Seq(Doc) /\ IterInv("page", order)
    BY MatchesByPageRank DEF BleveInv
  <2>2. Counted("page", order)
    BY <2>1 DEF IterInv, InStep
  <2> QED BY <2>1, <2>2, SeenIsPrefix DEF Counted
<1> QED BY <1>1, BleveInvariant, PTL

(* Each hit comes once, and those of a higher score first, on whichever    *)
(* pages they are (memory.go: SortBy "-PageRank").                         *)
BestFirst ==
  itpc # "none" /\ ~moved =>
    \A j, k \in 1 .. Len(seen) : j < k =>
      seen[j] # seen[k] /\ bleve[seen[j]].rank >= bleve[seen[k]].rank

THEOREM HitsComeBestFirst == BleveSpec => []BestFirst
<1>1. BleveInv => BestFirst
  <2> SUFFICES ASSUME BleveInv, itpc # "none", ~moved,
                      NEW a \in 1 .. Len(seen), NEW b \in 1 .. Len(seen), a < b
               PROVE  seen[a] # seen[b] /\ bleve[seen[a]].rank >= bleve[seen[b]].rank
    BY DEF BestFirst
  <2> PICK order : order = ByPageRank(bleve)
    OBVIOUS
  <2>1. /\ order \in SetToSeqs(Matching(bleve))
        /\ \A i, j \in DOMAIN order : i < j => bleve[order[i]].rank >= bleve[order[j]].rank
    BY OrderByPageRank DEF BleveInv, StoreInv
  <2>2. Listed(order) /\ order \in Seq(Doc)
    BY MatchesByPageRank DEF BleveInv, IterInv, InStep
  <2>3. Len(order) \in Nat /\ DOMAIN order = 1 .. Len(order)
    BY <2>2
  <2>4. IsInjective(order)
    BY <2>1 DEF SetToSeqs, IsInjective
  <2>5. Len(seen) \in Nat /\ Len(listing) \in Nat
    <3>1. seen \in Seq(Doc) /\ listing \in Seq(Doc)
      BY DEF BleveInv, IterInv, IterTypeOK
    <3> QED BY <3>1, LenProperties
  <2>6. a \in Nat /\ b \in Nat /\ 0 < a /\ a < b /\ b <= Len(seen)
    BY <2>5
  <2>7. PICK o \in Nat : o = Offset
    BY <2>2 DEF Listed
  <2>8. /\ Len(seen) <= Len(listing)
        /\ Len(listing) = IF o < Len(order) THEN Len(order) - o ELSE 0
        /\ \A k \in 1 .. Len(seen) : seen[k] = listing[k]
        /\ \A k \in 1 .. Len(listing) : listing[k] = order[o + k]
    BY <2>2, <2>7 DEF Listed
  <2>9. o < Len(order) /\ b <= Len(order) - o
    <3>1. Len(seen) <= Len(listing) /\ Len(listing) = IF o < Len(order) THEN Len(order) - o ELSE 0
      BY <2>8
    <3>2. 0 < Len(listing) /\ b <= Len(listing)
      BY <2>5, <2>6, <3>1
    <3>3. o < Len(order)
      BY <3>1, <3>2
    <3> QED BY <3>1, <3>2, <3>3
  <2>10. seen[a] = order[o + a] /\ seen[b] = order[o + b]
    <3>1. Len(seen) <= Len(listing)
      BY <2>8
    <3>2. a \in 1 .. Len(listing) /\ b \in 1 .. Len(listing)
      BY <2>5, <2>6, <3>1
    <3> QED BY <2>8, <3>2
  <2>11. o + a \in 1 .. Len(order) /\ o + b \in 1 .. Len(order) /\ o + a < o + b /\ o + a # o + b
    BY <2>3, <2>6, <2>9
  <2> QED BY <2>1, <2>3, <2>4, <2>10, <2>11 DEF IsInjective
<1> QED BY <1>1, BleveInvariant, PTL

-----------------------------------------------------------------------------
(* The Elasticsearch store.                                                *)
ESInv ==
  /\ stored \in [Doc -> MemEntry \cup {NoDoc}]
  /\ visible \in [Doc -> MemEntry \cup {NoDoc}]
  /\ IterInv(server, ByScore(visible))

LEMMA MergedFields ==
  ASSUME NEW entry \in MemEntry \cup {NoDoc}
  PROVE  /\ \A t \in Text : Merge(entry, EsDoc(t)) = [text |-> t, rank |-> 0]
         /\ \A s \in 0 .. MaxScore :
              Merge(entry, ScoreDoc(s)) = [text |-> MemText(entry), rank |-> s]
<1> DEFINE old == IF entry = NoDoc THEN Zero ELSE entry
<1>1. old.text = MemText(entry)
  BY DEF MemEntry, Zero, MemText
<1> HIDE DEF old
<1>2. \A s \in 0 .. MaxScore : Merge(entry, ScoreDoc(s)) = [text |-> old.text, rank |-> s]
  BY DEF Merge, ScoreDoc, old
<1>3. \A t \in Text : Merge(entry, EsDoc(t)) = [text |-> t, rank |-> 0]
  BY DEF Merge, EsDoc
<1> QED BY <1>1, <1>2, <1>3

LEMMA UpdateKeepsEntries ==
  ASSUME ESInv, NEW d \in Doc,
         \/ \E t \in Text : ESIndex(d, t)
         \/ \E s \in 0 .. MaxScore : ESUpdateScore(d, s)
  PROVE  /\ stored' \in [Doc -> MemEntry \cup {NoDoc}]
         /\ \/ UNCHANGED <<visible, iterVars>>
            \/ visible' = stored' /\ Moves
<1>1. stored[d] \in MemEntry \cup {NoDoc}
  BY DEF ESInv
<1>2. MemText(stored[d]) \in Text \cup {NoText} /\ 0 \in 0 .. MaxScore
  BY <1>1, IndexAssumption DEF MemText, MemEntry
<1>3. ASSUME NEW t \in Text, ESIndex(d, t)
      PROVE  stored' \in [Doc -> MemEntry \cup {NoDoc}]
  <2>1. Merge(stored[d], EsDoc(t)) \in MemEntry
    BY <1>1, <1>2, MergedFields DEF MemEntry
  <2>2. stored' = [stored EXCEPT ![d] = Merge(stored[d], EsDoc(t))]
    BY <1>3 DEF ESIndex, Update
  <2> QED BY <2>1, <2>2 DEF ESInv
<1>4. ASSUME NEW s \in 0 .. MaxScore, ESUpdateScore(d, s)
      PROVE  stored' \in [Doc -> MemEntry \cup {NoDoc}]
  <2>1. Merge(stored[d], ScoreDoc(s)) \in MemEntry
    BY <1>1, <1>2, MergedFields DEF MemEntry
  <2>2. stored' = [stored EXCEPT ![d] = Merge(stored[d], ScoreDoc(s))]
    BY <1>4 DEF ESUpdateScore, Update
  <2> QED BY <2>1, <2>2 DEF ESInv
<1>5. ASSUME NEW fields, Update(d, fields)
      PROVE  \/ UNCHANGED <<visible, iterVars>>
             \/ visible' = stored' /\ Moves
  BY <1>5 DEF Update, Refresh
<1> QED BY <1>3, <1>4, <1>5 DEF ESIndex, ESUpdateScore

(* What searches see has changed, or has not.                              *)
LEMMA RefreshStep ==
  ASSUME ESInv, UNCHANGED server, UNCHANGED <<visible, iterVars>> \/ Moves
  PROVE  IterInv(server, ByScore(visible))'
<1> PICK order : order = ByScore(visible)'
  OBVIOUS
<1> PICK reading : reading = server
  OBVIOUS
<1>1. CASE Moves
  <2>1. IterInv(reading, order)'
    BY <1>1, MovesKeeps DEF ESInv
  <2> QED BY <2>1
<1>2. CASE UNCHANGED <<visible, iterVars>>
  <2>1. order = ByScore(visible)
    BY <1>2
  <2>2. IterInv(reading, order)'
    BY <1>2, <2>1, UntouchedKeeps DEF ESInv
  <2> QED BY <2>2
<1> QED BY <1>1, <1>2

LEMMA ESIteratorStep ==
  ASSUME ESInv, itpc \notin {"panicked", "nilresult"},
         \/ \E offset \in {0, 1} : ESSearch(offset)
         \/ ESNext \/ ESClose
  PROVE  ESInv'
<1> PICK order : order = ByScore(visible)
  OBVIOUS
<1> PICK reading : reading = server
  OBVIOUS
<1>1. order \in Seq(Doc) /\ \A f \in Nat : ESAnswer(f) = Answer(reading, order, f)
  BY OrderByScore, OrdersAreSequences DEF ESAnswer, Answer
<1>2. UNCHANGED <<stored, visible, server>> /\ IterInv(reading, order)
  BY DEF ESSearch, ESNext, ESClose, esVars, ESInv
<1>3. order = ByScore(visible)' /\ reading = server'
  BY <1>2
<1>4. ASSUME NEW offset \in {0, 1}, ESSearch(offset)
      PROVE  IterInv(reading, order)'
  <2>1. Search(order, offset, ESAnswer(offset))
    BY <1>4 DEF ESSearch
  <2>2. offset \in Nat
    BY Offsets
  <2> QED BY <1>1, <2>1, <2>2, SearchStarts
<1>5. ASSUME ESNext
      PROVE  IterInv(reading, order)'
  <2>1. Paging(ESAnswer(NextFrom)) \/ Load
    BY <1>5 DEF ESNext
  <2>2. NextFrom \in Nat
    BY <1>2, IndexAssumption DEF IterInv, IterTypeOK, NextFrom
  <2> QED BY <1>1, <1>2, <2>1, <2>2, PagingKeeps, LoadKeeps
<1>6. ASSUME ESClose
      PROVE  IterInv(reading, order)'
  <2>1. CASE rs # Nil
    BY <1>6, <2>1, LetGoKeeps DEF ESClose
  <2>2. CASE rs = Nil
    <3>1. /\ itpc' = "nilresult" /\ itpc \in {"open", "ended"}
          /\ UNCHANGED <<rs, from, rsIdx, cumIdx, lastErr, seen, listing, moved>>
      BY <1>6, <2>2 DEF ESClose
    <3> QED BY <1>2, <2>2, <3>1
            DEF IterInv, IterTypeOK, OnPage, InStep, Listed, Counted, Offset
  <2> QED BY <2>1, <2>2
<1>7. IterInv(reading, order)'
  BY <1>4, <1>5, <1>6
<1> QED BY <1>2, <1>3, <1>7 DEF ESInv

(* The inductive invariant of the store and an iterator over it.           *)
THEOREM ESInvariant == ESSpec => []ESInv
<1>1. ESInit => ESInv
  <2> SUFFICES ASSUME ESInit
               PROVE  ESInv
    OBVIOUS
  <2>1. IterInv(server, ByScore(visible))
    BY IterInitially DEF ESInit
  <2> QED BY <2>1 DEF ESInit, ESInv
<1>2. ESInv /\ [ESIndexerNext]_esIterVars => ESInv'
  <2> SUFFICES ASSUME ESInv, [ESIndexerNext]_esIterVars
               PROVE  ESInv'
    OBVIOUS
  <2>1. ASSUME NEW d \in Doc,
               \/ \E t \in Text : ESIndex(d, t)
               \/ \E s \in 0 .. MaxScore : ESUpdateScore(d, s)
        PROVE  ESInv'
    <3>1. /\ stored' \in [Doc -> MemEntry \cup {NoDoc}]
          /\ \/ UNCHANGED <<visible, iterVars>>
             \/ visible' = stored' /\ Moves
      BY <2>1, UpdateKeepsEntries
    <3>2. IterInv(server, ByScore(visible))'
      BY <2>1, <3>1, RefreshStep DEF ESIndex, ESUpdateScore, Update
    <3> QED BY <3>1, <3>2 DEF ESInv
  <2>2. CASE ServerRefresh
    <3>1. IterInv(server, ByScore(visible))'
      BY <2>2, RefreshStep DEF ServerRefresh, Refresh
    <3> QED BY <2>2, <3>1 DEF ServerRefresh, Refresh, ESInv
  <2>3. CASE UNCHANGED esIterVars
    <3>1. IterInv(server, ByScore(visible))'
      BY <2>3, RefreshStep DEF esIterVars, esVars
    <3> QED BY <2>3, <3>1 DEF esIterVars, esVars, ESInv
  <2> QED BY <2>1, <2>2, <2>3, ESIteratorStep DEF ESIndexerNext
<1> QED BY <1>1, <1>2, PTL DEF ESSpec

(* A search of Elasticsearch lists the first matches from the offset on,   *)
(* and all of them only where the server reads the request and its total   *)
(* as the client does; with `to' as an end it panics past the first page   *)
(* (es.go: "to": batchSize; es/iterator.go: only "from" is advanced).      *)
THEOREM ESListings == ESSpec => []ListingAsAnswered
<1>1. ESInv => ListingAsAnswered
  <2> SUFFICES ASSUME ESInv, itpc # "none", ~moved
               PROVE  ListingAsAnswered
    BY DEF ListingAsAnswered, ListingIsExact
  <2> PICK order : order = ByScore(visible)
    OBVIOUS
  <2>1. order \in Seq(Doc) /\ IterInv(server, order)
    BY OrderByScore, OrdersAreSequences DEF ESInv
  <2>2. Listed(order) /\ Counted(server, order)
    BY <2>1 DEF IterInv, InStep
  <2>3. /\ IsPrefix(seen, listing)
        /\ Len(seen) = Len(listing) => seen = listing
        /\ Len(seen) = 0 => seen = << >>
    BY <2>1, SeenIsPrefix
  <2>4. itpc = "panicked" => seen # listing
    <3>1. seen \in Seq(Doc) /\ cumIdx \in Nat /\ Len(order) \in Nat
      BY <2>1 DEF IterInv, IterTypeOK
    <3>2. Len(seen) \in Nat
      BY <3>1, LenProperties
    <3>3. cumIdx < Len(order) => Len(seen) # Len(listing)
      BY <2>2, <3>1, <3>2 DEF Listed, Offset
    <3> QED BY <2>2, <3>3 DEF Counted
  <2> QED BY <2>2, <2>3, <2>4 DEF Counted, ListingAsAnswered, ListingIsExact
<1> QED BY <1>1, ESInvariant, PTL

(* Only Index changes a text, and it sets the score to zero: an update of  *)
(* the score sends no text (es.go: the "doc" of UpdateScore).              *)
THEOREM ScoresKeepTexts == ESSpec => ScoreKeepsText
<1> DEFINE TextKept == \A d \in Doc : /\ stored[d] # NoDoc
                                      /\ stored'[d] # stored[d]
                                      /\ stored'[d].rank # 0
                                      => stored'[d].text = stored[d].text
<1>1. ESInv /\ [ESIndexerNext]_esIterVars => [TextKept]_stored
  <2> SUFFICES ASSUME ESInv, [ESIndexerNext]_esIterVars, stored' # stored,
                      NEW e \in Doc, stored[e] # NoDoc, stored'[e] # stored[e], stored'[e].rank # 0
               PROVE  stored'[e].text = stored[e].text
    OBVIOUS
  <2>1. PICK d \in Doc : \/ \E t \in Text : ESIndex(d, t)
                         \/ \E s \in 0 .. MaxScore : ESUpdateScore(d, s)
    BY DEF ESIndexerNext, ServerRefresh, ESSearch, ESNext, ESClose, esIterVars, esVars
  <2>2. stored[d] \in MemEntry \cup {NoDoc} /\ stored \in [Doc -> MemEntry \cup {NoDoc}]
    BY DEF ESInv
  <2>3. ASSUME NEW t \in Text, ESIndex(d, t)
        PROVE  FALSE
    <3>1. stored' = [stored EXCEPT ![d] = [text |-> t, rank |-> 0]]
      BY <2>2, <2>3, MergedFields DEF ESIndex, Update
    <3> QED BY <2>2, <3>1
  <2>4. ASSUME NEW s \in 0 .. MaxScore, ESUpdateScore(d, s)
        PROVE  stored'[e].text = stored[e].text
    <3>1. stored' = [stored EXCEPT ![d] = [text |-> MemText(stored[d]), rank |-> s]]
      BY <2>2, <2>4, MergedFields DEF ESUpdateScore, Update
    <3> QED BY <2>2, <3>1 DEF MemText
  <2> QED BY <2>1, <2>3, <2>4
<1> QED BY <1>1, ESInvariant, PTL DEF ESSpec, ScoreKeepsText
=============================================================================
