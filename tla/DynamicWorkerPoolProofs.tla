---------------------- MODULE DynamicWorkerPoolProofs ----------------------
(***************************************************************************)
(* Machine-checked proofs about DynamicWorkerPool, for any Runs, tokens    *)
(* and payloads.                                                           *)
(***************************************************************************)
EXTENDS DynamicWorkerPool, FiniteSetTheorems, TLAPS

(* The goroutines that have a token to put back, and the tokens the Runs   *)
(* have taken in their last loops, as a set so that it can be counted.     *)
Busy == {w \in Worker : wpc[w] \notin {"none", "exit"}}
Drained == {x \in Run \X (1 .. MaxWorkers) : x[2] <= drained[x[1]]}

(* A payload's goroutine is started once, after the payload is received.   *)
Started ==
  /\ \A r \in Run : pc[r] = "token" => received[r] > 0
  /\ \A w \in Worker : wpc[w] # "none" =>
       /\ w[2] <= received[w[1]]
       /\ pc[w[1]] = "token" => w[2] < received[w[1]]

Draining ==
  \A r \in Run : /\ pc[r] \in {"idle", "select", "token"} => drained[r] = 0
                 /\ pc[r] = "drain" => drained[r] < MaxWorkers
                 /\ pc[r] = "returned" => drained[r] = MaxWorkers

(* Until a context expires a token is in the pool, with a goroutine, or    *)
(* with a Run that ends.                                                   *)
TokensKept ==
  NoneExpired => tokens + Cardinality(Busy) + Cardinality(Drained) = MaxWorkers

PoolInv == /\ TypeOK /\ Started /\ Draining
           /\ TokensKept
           /\ NoneExpired => ~panicked

USE PoolAssumption

LEMMA Finite ==
  ASSUME TypeOK
  PROVE  /\ IsFiniteSet(Busy) /\ Cardinality(Busy) \in Nat
         /\ IsFiniteSet(Drained) /\ Cardinality(Drained) \in Nat
<1>1. IsFiniteSet(1 .. Items) /\ IsFiniteSet(1 .. MaxWorkers)
  BY FS_Interval
<1>2. IsFiniteSet(Worker) /\ IsFiniteSet(Run \X (1 .. MaxWorkers))
  BY <1>1, FS_Product DEF Worker
<1>3. Busy \subseteq Worker /\ Drained \subseteq Run \X (1 .. MaxWorkers)
  BY DEF Busy, Drained
<1>4. IsFiniteSet(Busy) /\ IsFiniteSet(Drained)
  BY <1>2, <1>3, FS_Subset
<1> QED BY <1>4, FS_CardinalityType

(* A Run that has taken all tokens has them all.                           *)
LEMMA AllDrained ==
  ASSUME TypeOK, NEW r \in Run, drained[r] = MaxWorkers
  PROVE  Cardinality(Drained) >= MaxWorkers
<1> DEFINE own == {r} \X (1 .. MaxWorkers)
<1>1. IsFiniteSet({r}) /\ Cardinality({r}) = 1
  BY FS_Singleton
<1>2. IsFiniteSet(1 .. MaxWorkers) /\ Cardinality(1 .. MaxWorkers) = MaxWorkers
  BY FS_Interval
<1>3. Cardinality(own) = MaxWorkers
  <2>1. Cardinality(own) = Cardinality({r}) * Cardinality(1 .. MaxWorkers)
    BY <1>1, <1>2, FS_Product
  <2>2. Cardinality(own) = 1 * MaxWorkers
    BY <1>1, <1>2, <2>1
  <2> QED BY <2>2
<1>4. own \subseteq Drained
  BY DEF Drained
<1>5. IsFiniteSet(Drained) /\ Cardinality(Drained) \in Nat
  BY Finite
<1>6. Cardinality(own) <= Cardinality(Drained)
  BY <1>4, <1>5, FS_Subset
<1> HIDE DEF own
<1> QED BY <1>3, <1>5, <1>6

LEMMA PoolInitially == Init => PoolInv
<1> SUFFICES ASSUME Init
             PROVE  PoolInv
  OBVIOUS
<1>1. TypeOK
  <2>1. /\ tokens \in 0 .. MaxWorkers
        /\ received \in [Run -> 0 .. Items]
        /\ drained \in [Run -> 0 .. MaxWorkers]
    BY DEF Init
  <2>2. /\ pc \in [Run -> {"idle", "select", "token", "drain", "returned"}]
        /\ wpc \in [Worker -> {"none", "process", "send", "put", "exit"}]
    BY DEF Init
  <2>3. expired \in [Run -> BOOLEAN] /\ panicked \in BOOLEAN
    BY Zenon DEF Init
  <2> QED BY <2>1, <2>2, <2>3 DEF TypeOK
<1>2. Started /\ Draining
  BY DEF Init, Started, Draining, Worker
<1>3. Busy = {}
  BY DEF Init, Busy
<1>4. Drained = {}
  BY DEF Init, Drained
<1>5. TokensKept
  BY <1>3, <1>4, FS_EmptySet DEF TokensKept, Init
<1> QED BY <1>1, <1>2, <1>5 DEF PoolInv, Init

-----------------------------------------------------------------------------
(* Steps that leave the tokens, and who has them, alone.                   *)
LEMMA Quiet ==
  ASSUME PoolInv, UNCHANGED <<tokens, drained, panicked>>,
         \A w \in Worker : wpc'[w] \in {"none", "exit"} <=> wpc[w] \in {"none", "exit"},
         \A r \in Run : expired[r] => expired'[r]
  PROVE  TokensKept' /\ (NoneExpired => ~panicked)'
<1>1. Busy' = Busy /\ Drained' = Drained
  BY DEF Busy, Drained
<1>2. NoneExpired' => NoneExpired
  BY DEF NoneExpired
<1> QED BY <1>1, <1>2 DEF PoolInv, TokensKept

LEMMA RunnerStep ==
  ASSUME PoolInv, NEW r \in Run, Start(r) \/ Expire(r) \/ Receive(r) \/ Stop(r)
  PROVE  PoolInv'
<1>1. TypeOK' /\ Started' /\ Draining'
  <2>1. CASE Start(r)
    BY <2>1 DEF Start, PoolInv, TypeOK, Started, Draining, Worker
  <2>2. CASE Expire(r)
    BY <2>2 DEF Expire, PoolInv, TypeOK, Started, Draining, Worker
  <2>3. CASE Receive(r)
    BY <2>3 DEF Receive, PoolInv, TypeOK, Started, Draining, Worker
  <2>4. CASE Stop(r)
    BY <2>4 DEF Stop, PoolInv, TypeOK, Started, Draining, Worker
  <2> QED BY <2>1, <2>2, <2>3, <2>4
<1>2. /\ UNCHANGED <<tokens, drained, panicked, wpc>>
      /\ \A q \in Run : expired[q] => expired'[q]
  BY DEF Start, Expire, Receive, Stop, PoolInv, TypeOK
<1>3. TokensKept' /\ (NoneExpired => ~panicked)'
  BY <1>2, Quiet
<1> QED BY <1>1, <1>3 DEF PoolInv

LEMMA SpawnStep ==
  ASSUME PoolInv, NEW r \in Run, Spawn(r)
  PROVE  PoolInv'
<1> DEFINE w == <<r, received[r]>>
<1> USE DEF Spawn
<1>1. w \in Worker /\ wpc[w] = "none"
  BY DEF PoolInv, TypeOK, Started, Worker
<1>2. wpc'[w] = "process" /\ \A v \in Worker : v # w => wpc'[v] = wpc[v]
  BY <1>1 DEF PoolInv, TypeOK
<1>3. TypeOK' /\ Started' /\ Draining'
  <2>1. TypeOK'
    BY <1>1 DEF PoolInv, TypeOK, GetToken, GoOnWithout, Taken
  <2>2. Started'
    BY <1>1, <1>2 DEF PoolInv, TypeOK, Started, Worker
  <2>3. Draining'
    BY DEF PoolInv, TypeOK, Draining
  <2> QED BY <2>1, <2>2, <2>3
<1>4. Busy' = Busy \cup {w} /\ w \notin Busy
  BY <1>1, <1>2 DEF Busy
<1>5. Drained' = Drained /\ (NoneExpired' <=> NoneExpired)
  BY DEF Drained, NoneExpired
<1>6. TokensKept'
  <2> SUFFICES ASSUME NoneExpired
               PROVE  tokens' + Cardinality(Busy') + Cardinality(Drained') = MaxWorkers
    BY <1>5 DEF TokensKept
  <2>1. tokens' = tokens - 1
    BY DEF NoneExpired, GetToken, GoOnWithout, Taken
  <2>2. Cardinality(Busy') = Cardinality(Busy) + 1
    BY <1>4, Finite, FS_AddElement DEF PoolInv
  <2> QED BY <1>5, <2>1, <2>2, Finite DEF PoolInv, TypeOK, TokensKept
<1> QED BY <1>3, <1>5, <1>6 DEF PoolInv

LEMMA DrainStep ==
  ASSUME PoolInv, NEW r \in Run, Drain(r)
  PROVE  PoolInv'
<1> DEFINE x == <<r, drained[r] + 1>>
<1> USE DEF Drain
<1>1. drained[r] \in 0 .. MaxWorkers /\ drained[r] < MaxWorkers
  BY DEF PoolInv, TypeOK, Draining
<1>2. drained'[r] = drained[r] + 1 /\ \A q \in Run : q # r => drained'[q] = drained[q]
  BY DEF PoolInv, TypeOK
<1>3. TypeOK' /\ Started' /\ Draining'
  <2>1. TypeOK'
    BY <1>1 DEF PoolInv, TypeOK
  <2>2. Started'
    BY DEF PoolInv, TypeOK, Started, Worker
  <2>3. Draining'
    BY <1>1, <1>2 DEF PoolInv, TypeOK, Draining, AllTokens
  <2> QED BY <2>1, <2>2, <2>3
<1>4. Drained' = Drained \cup {x} /\ x \notin Drained
  BY <1>1, <1>2 DEF Drained, PoolInv, TypeOK
<1>5. Busy' = Busy /\ (NoneExpired' <=> NoneExpired)
  BY DEF Busy, NoneExpired
<1>6. Cardinality(Drained') = Cardinality(Drained) + 1
  BY <1>4, Finite, FS_AddElement DEF PoolInv
<1>7. TokensKept'
  BY <1>5, <1>6, Finite DEF PoolInv, TypeOK, TokensKept
<1> QED BY <1>3, <1>5, <1>7 DEF PoolInv

LEMMA ProcessSendStep ==
  ASSUME PoolInv, NEW w \in Worker, Process(w) \/ Send(w)
  PROVE  PoolInv'
<1>1. TypeOK' /\ Started' /\ Draining'
  BY DEF Process, Send, PoolInv, TypeOK, Started, Draining
<1>2. /\ UNCHANGED <<tokens, drained, panicked, expired>>
      /\ \A v \in Worker : wpc'[v] \in {"none", "exit"} <=> wpc[v] \in {"none", "exit"}
  BY DEF Process, Send, PoolInv, TypeOK
<1>3. TokensKept' /\ (NoneExpired => ~panicked)'
  BY <1>2, Quiet
<1> QED BY <1>1, <1>3 DEF PoolInv

LEMMA PutTokenStep ==
  ASSUME PoolInv, NEW w \in Worker, PutToken(w)
  PROVE  PoolInv'
<1> USE DEF PutToken
<1>1. wpc'[w] = "exit" /\ \A v \in Worker : v # w => wpc'[v] = wpc[v]
  BY DEF PoolInv, TypeOK
<1>2. TypeOK' /\ Started' /\ Draining'
  BY <1>1 DEF PoolInv, TypeOK, Started, Draining, Room, Returned
<1>3. Busy' = Busy \ {w} /\ w \in Busy
  BY <1>1 DEF Busy
<1>4. Drained' = Drained /\ (NoneExpired' <=> NoneExpired)
  BY DEF Drained, NoneExpired
<1>5. Cardinality(Busy') = Cardinality(Busy) - 1
  BY <1>3, Finite, FS_RemoveElement DEF PoolInv
<1>6. TokensKept'
  BY <1>4, <1>5, Finite DEF PoolInv, TypeOK, TokensKept, Returned
<1> QED BY <1>2, <1>4, <1>6 DEF PoolInv

(* Nobody is left to send when a Run has returned.                         *)
LEMMA ReturnedAlone ==
  ASSUME PoolInv, NoneExpired, NEW r \in Run, pc[r] = "returned"
  PROVE  Busy = {}
<1>1. Cardinality(Drained) >= MaxWorkers
  BY AllDrained DEF PoolInv, Draining
<1>2. Cardinality(Busy) = 0
  BY <1>1, Finite DEF PoolInv, TypeOK, TokensKept
<1> QED BY <1>2, Finite, FS_EmptySet DEF PoolInv

LEMMA SendOnClosedStep ==
  ASSUME PoolInv, NEW w \in Worker, SendOnClosed(w)
  PROVE  PoolInv'
<1> USE DEF SendOnClosed
<1>1. TypeOK' /\ Started' /\ Draining' /\ TokensKept'
  BY DEF PoolInv, TypeOK, Started, Draining, TokensKept, Busy, Drained, NoneExpired
<1>2. ~NoneExpired
  <2>1. w \in Busy /\ w[1] \in Run
    BY DEF Busy, Worker
  <2> QED BY <2>1, ReturnedAlone
<1> QED BY <1>1, <1>2 DEF PoolInv, NoneExpired

LEMMA PoolStep ==
  ASSUME PoolInv, [Next]_vars
  PROVE  PoolInv'
<1>1. CASE UNCHANGED vars
  BY <1>1 DEF vars, PoolInv, TypeOK, Started, Draining, TokensKept, Busy, Drained, NoneExpired
<1>2. CASE Next
  BY <1>2, RunnerStep, SpawnStep, DrainStep, ProcessSendStep, PutTokenStep, SendOnClosedStep
     DEF Next, RunStep, WorkerStep
<1> QED BY <1>1, <1>2

-----------------------------------------------------------------------------
(* The inductive invariant: where the tokens are.                          *)
THEOREM PoolInvariant == Spec => []PoolInv
<1>1. Init => PoolInv
  BY PoolInitially
<1>2. PoolInv /\ [Next]_vars => PoolInv'
  BY PoolStep
<1> QED BY <1>1, <1>2, PTL DEF Spec

(* Type correctness: the pool of tokens never overflows, also when         *)
(* goroutines were started without one.                                    *)
THEOREM PoolTypeCorrect == Spec => []TypeOK
<1>1. PoolInv => TypeOK
  BY DEF PoolInv
<1> QED BY <1>1, PoolInvariant, PTL

(* The tokens bound the goroutines over all Runs of the stage.             *)
THEOREM WorkersAreBounded == Spec => []AtMostMaxWorkers
<1>1. ASSUME PoolInv
      PROVE  AtMostMaxWorkers
  <2>1. UNION {Alive(r) : r \in Run} = Busy
    BY DEF Alive, Busy, Worker
  <2>2. ASSUME NoneExpired
        PROVE  Cardinality(Busy) <= MaxWorkers
    BY <1>1, <2>2, Finite DEF PoolInv, TypeOK, TokensKept
  <2> QED BY <2>1, <2>2 DEF AtMostMaxWorkers
<1> QED BY <1>1, PoolInvariant, PTL

(* A Run returns after its goroutines.                                     *)
THEOREM RunsWaitForWorkers == Spec => []WorkersExitFirst
<1>1. ASSUME PoolInv
      PROVE  WorkersExitFirst
  <2>1. ASSUME NoneExpired, NEW r \in Run, pc[r] = "returned"
        PROVE  Alive(r) = {}
    BY <1>1, <2>1, ReturnedAlone DEF Alive, Busy
  <2> QED BY <1>1, <2>1 DEF PoolInv, WorkersExitFirst
<1> QED BY <1>1, PoolInvariant, PTL

-----------------------------------------------------------------------------
(* The tokens a Run has drained stay with it: of the Runs of a stage only  *)
(* one can return (stage.go:150), and the next is left without a token.    *)
OneReturns ==
  NoneExpired => \A r \in Run : pc[r] = "returned" =>
    tokens = 0 /\ \A s \in Run \ {r} : drained[s] = 0 /\ pc[s] # "returned"

LEMMA OnlyDrained ==
  ASSUME PoolInv, NoneExpired, NEW r \in Run, pc[r] = "returned"
  PROVE  tokens = 0 /\ Drained = {r} \X (1 .. MaxWorkers)
<1> DEFINE own == {r} \X (1 .. MaxWorkers)
<1>1. drained[r] = MaxWorkers
  BY DEF PoolInv, Draining
<1>2. own \subseteq Drained
  BY <1>1 DEF Drained
<1>3. Cardinality(own) = MaxWorkers
  <2>1. IsFiniteSet({r}) /\ Cardinality({r}) = 1
    BY FS_Singleton
  <2>2. IsFiniteSet(1 .. MaxWorkers) /\ Cardinality(1 .. MaxWorkers) = MaxWorkers
    BY FS_Interval
  <2>3. Cardinality(own) = 1 * MaxWorkers
    BY <2>1, <2>2, FS_Product
  <2> QED BY <2>3
<1>4. IsFiniteSet(Drained) /\ Cardinality(Drained) \in Nat
  BY Finite DEF PoolInv
<1>5. tokens = 0 /\ Cardinality(Drained) = MaxWorkers
  <2>1. Cardinality(Drained) >= MaxWorkers
    BY <1>1, AllDrained DEF PoolInv
  <2>2. /\ tokens \in Nat /\ Cardinality(Busy) \in Nat
        /\ tokens + Cardinality(Busy) + Cardinality(Drained) = MaxWorkers
    BY Finite DEF PoolInv, TypeOK, TokensKept
  <2> QED BY <1>4, <2>1, <2>2
<1>6. own = Drained
  BY <1>2, <1>3, <1>4, <1>5, FS_Subset
<1> QED BY <1>5, <1>6

(* Until a context expires, a Run that has returned keeps every token, so  *)
(* no other Run of the stage ever drains one or returns.                   *)
THEOREM OneRunReturns == Spec => []OneReturns
<1>1. ASSUME PoolInv
      PROVE  OneReturns
  <2> SUFFICES ASSUME NoneExpired, NEW r \in Run, pc[r] = "returned"
               PROVE  /\ tokens = 0
                      /\ \A s \in Run \ {r} : drained[s] = 0 /\ pc[s] # "returned"
    BY DEF OneReturns
  <2>1. tokens = 0 /\ Drained = {r} \X (1 .. MaxWorkers)
    BY <1>1, OnlyDrained
  <2>2. ASSUME NEW s \in Run \ {r}
        PROVE  drained[s] = 0 /\ pc[s] # "returned"
    <3>1. <<s, 1>> \notin Drained
      BY <2>1
    <3>2. drained[s] \in 0 .. MaxWorkers
      BY <1>1 DEF PoolInv, TypeOK
    <3>3. drained[s] = 0
      BY <3>1, <3>2 DEF Drained
    <3> QED BY <1>1, <3>3 DEF PoolInv, Draining
  <2> QED BY <2>1, <2>2
<1> QED BY <1>1, PoolInvariant, PTL
=============================================================================
