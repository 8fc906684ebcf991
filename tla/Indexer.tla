------------------------------ MODULE Indexer ------------------------------
(***************************************************************************)
(* What internal/textindexer/index promises of an Indexer: Index inserts a *)
(* document or replaces its text and keeps its score, UpdateScore sets the *)
(* score and makes a placeholder for a document that is not there.         *)
(***************************************************************************)
EXTENDS Naturals

CONSTANTS
  Doc,        \* link ids of documents
  Text,       \* title and content together
  NoText,     \* title and content of a placeholder
  NoDoc,      \* no document
  MaxScore    \* bound: scores 0 .. MaxScore

VARIABLE catalog    \* each document, as FindByID returns it

Score == 0 .. MaxScore
Entry == [text : Text \cup {NoText}, rank : Score]

TextOf(entry) == IF entry = NoDoc THEN NoText ELSE entry.text
RankOf(entry) == IF entry = NoDoc THEN 0 ELSE entry.rank

Init == catalog = [d \in Doc |-> NoDoc]

Index(d, t) ==
  catalog' = [catalog EXCEPT ![d] = [text |-> t, rank |-> RankOf(@)]]

UpdateScore(d, s) ==
  catalog' = [catalog EXCEPT ![d] = [text |-> TextOf(@), rank |-> s]]

Next == \E d \in Doc : \/ \E t \in Text : Index(d, t)
                       \/ \E s \in Score : UpdateScore(d, s)

Spec == Init /\ [][Next]_catalog
=============================================================================
