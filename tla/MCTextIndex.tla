---------------------------- MODULE MCTextIndex ----------------------------
(***************************************************************************)
(* The two text index stores for TLC: as indextest.SuiteBase, the run is   *)
(* the same for whichever store it is given at the start.                  *)
(***************************************************************************)
EXTENDS BleveIndexer, ESIndexer

CONSTANT Stores      \* the stores it is run with

VARIABLE store
suiteVars == <<store, memVars, esVars, iterVars>>

(* What an Elasticsearch nobody uses would answer does not matter.         *)
SuiteInit ==
  /\ store \in Stores /\ BleveInit /\ ESInit
  /\ store = "memory" => refreshOpt /\ server = "page"

SuiteNext ==
  /\ UNCHANGED store
  /\ \/ store = "memory" /\ BleveNext /\ UNCHANGED esVars
     \/ store = "es" /\ ESIndexerNext /\ UNCHANGED memVars

(* Whoever searches calls Next until it is false, bleve and Elasticsearch  *)
(* answer, and a reader gets the lock between two calls that write: the    *)
(* RWMutex lets waiting readers in when a writer unlocks.                  *)
SuiteFairness ==
  /\ WF_suiteVars(store = "memory" /\ itpc # "panicked" /\ Holder /\ UNCHANGED <<store, esVars>>)
  /\ SF_suiteVars(store = "memory" /\ itpc # "panicked" /\ MemNext /\ UNCHANGED <<store, esVars>>)
  /\ SF_suiteVars(store = "es" /\ ESNext /\ UNCHANGED <<store, memVars>>)

SuiteSpec == SuiteInit /\ [][SuiteNext]_suiteVars /\ SuiteFairness

(* A search comes to an end, with or without an error, however the index   *)
(* changes meanwhile, unless an Index has kept the lock.                   *)
SearchEnds == itpc \in {"open", "hit"} ~> itpc \notin {"open", "hit"} \/ mu = "leaked"
=============================================================================
