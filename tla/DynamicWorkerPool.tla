-------------------------- MODULE DynamicWorkerPool --------------------------
(***************************************************************************)
(* The DyanamicWorkerPool stage of internal/pipeline.  Each Run takes a    *)
(* token for every payload, gives it to a goroutine that puts it back when *)
(* it is done, and at the end takes all tokens to wait for the goroutines. *)
(* The pool of tokens belongs to the stage, so Runs of it share it.        *)
(***************************************************************************)
EXTENDS Naturals, FiniteSets

CONSTANTS
  Run,           \* calls of Run of this stage
  MaxWorkers,    \* capacity of tokenPool
  Items,         \* bound: payloads in the input channel of a Run
  Expires        \* may the contexts expire?

ASSUME PoolAssumption ==
  /\ IsFiniteSet(Run)
  /\ MaxWorkers \in Nat \ {0}
  /\ Items \in Nat
  /\ Expires \in BOOLEAN

Worker == Run \X (1 .. Items)      \* the goroutine for the n-th payload of a Run

VARIABLES
  tokens,      \* tokens in tokenPool
  pc,          \* where each Run is
  received,    \* payloads it has received
  drained,     \* tokens it has taken in its last loop
  expired,     \* its context is done
  wpc,         \* where each goroutine is
  panicked     \* a goroutine sent on the closed output channel

vars == <<tokens, pc, received, drained, expired, wpc, panicked>>

Init ==
  /\ tokens = MaxWorkers
  /\ pc = [r \in Run |-> "idle"]
  /\ received = [r \in Run |-> 0]
  /\ drained = [r \in Run |-> 0]
  /\ expired = [r \in Run |-> FALSE]
  /\ wpc = [w \in Worker |-> "none"]
  /\ panicked = FALSE

Alive(r) == {w \in Worker : w[1] = r /\ wpc[w] \notin {"none", "exit"}}

Start(r) ==
  /\ pc[r] = "idle"
  /\ pc' = [pc EXCEPT ![r] = "select"]
  /\ UNCHANGED <<tokens, received, drained, expired, wpc, panicked>>

Expire(r) ==
  /\ Expires /\ ~expired[r]
  /\ expired' = [expired EXCEPT ![r] = TRUE]
  /\ UNCHANGED <<tokens, pc, received, drained, wpc, panicked>>

(* The loop: a payload, or the end of the input or of the context.         *)
Receive(r) ==
  /\ pc[r] = "select" /\ received[r] < Items
  /\ pc' = [pc EXCEPT ![r] = "token"]
  /\ received' = [received EXCEPT ![r] = @ + 1]
  /\ UNCHANGED <<tokens, drained, expired, wpc, panicked>>

Stop(r) ==
  /\ pc[r] = "select" /\ (received[r] = Items \/ expired[r])
  /\ pc' = [pc EXCEPT ![r] = "drain"]
  /\ UNCHANGED <<tokens, received, drained, expired, wpc, panicked>>

(* A token is needed for the payload's goroutine, but an expired context   *)
(* starts it without one.                                                  *)
Unpaid(n) == n                             \* mutant: no token is taken
Taken(n) == n - 1
GetToken(r) ==
  /\ tokens > 0 /\ tokens' = Taken(tokens)
GoOnWithout(r) ==
  /\ expired[r] /\ UNCHANGED tokens
Spawn(r) ==
  /\ pc[r] = "token"
  /\ GetToken(r) \/ GoOnWithout(r)
  /\ wpc' = [wpc EXCEPT ![<<r, received[r]>>] = "process"]
  /\ pc' = [pc EXCEPT ![r] = "select"]
  /\ UNCHANGED <<received, drained, expired, panicked>>

(* "wait for all workers to exit": one receive for each token.             *)
AllButOne(n) == n = MaxWorkers - 1         \* mutant
AllTokens(n) == n = MaxWorkers
Drain(r) ==
  /\ pc[r] = "drain" /\ tokens > 0
  /\ tokens' = tokens - 1
  /\ drained' = [drained EXCEPT ![r] = @ + 1]
  /\ pc' = [pc EXCEPT ![r] = IF AllTokens(drained'[r]) THEN "returned" ELSE "drain"]
  /\ UNCHANGED <<received, expired, wpc, panicked>>

-----------------------------------------------------------------------------
(* A goroutine processes its payload: it has an output, or none (nil or an *)
(* error, which maybeEmitError reports without blocking).                  *)
Process(w) ==
  /\ wpc[w] = "process"
  /\ \E next \in {"send", "put"} : wpc' = [wpc EXCEPT ![w] = next]
  /\ UNCHANGED <<tokens, pc, received, drained, expired, panicked>>

(* The output is received, or the context is done; once Run has returned   *)
(* the pipeline closes the output channel, and select takes the context or *)
(* sends, which panics.                                                    *)
Send(w) ==
  /\ wpc[w] = "send"
  /\ pc[w[1]] # "returned" \/ expired[w[1]]
  /\ wpc' = [wpc EXCEPT ![w] = "put"]
  /\ UNCHANGED <<tokens, pc, received, drained, expired, panicked>>

SendOnClosed(w) ==
  /\ wpc[w] = "send" /\ pc[w[1]] = "returned"
  /\ panicked' = TRUE
  /\ UNCHANGED <<tokens, pc, received, drained, expired, wpc>>

(* The deferred send to tokenPool blocks while that is full.               *)
Kept(n) == n                               \* mutant: a path without the defer
Returned(n) == n + 1
AnyRoom == TRUE                            \* mutant: an unbounded tokenPool
Room == tokens < MaxWorkers
PutToken(w) ==
  /\ wpc[w] = "put" /\ Room
  /\ tokens' = Returned(tokens)
  /\ wpc' = [wpc EXCEPT ![w] = "exit"]
  /\ UNCHANGED <<pc, received, drained, expired, panicked>>

-----------------------------------------------------------------------------
RunStep(r) == Receive(r) \/ Stop(r) \/ Spawn(r) \/ Drain(r)
WorkerStep(w) == Process(w) \/ Send(w) \/ PutToken(w) \/ SendOnClosed(w)

Next ==
  /\ ~panicked
  /\ \/ \E r \in Run : Start(r) \/ RunStep(r) \/ Expire(r)
     \/ \E w \in Worker : WorkerStep(w)

Spec == Init /\ [][Next]_vars

(* The input ends, processors return, the next stage receives or the       *)
(* context expires, and the Go scheduler runs what can run.                *)
FairSpec ==
  /\ Spec
  /\ \A r \in Run : WF_vars(~panicked /\ RunStep(r))
  /\ \A w \in Worker : WF_vars(~panicked /\ WorkerStep(w))

-----------------------------------------------------------------------------
(* Type invariant.                                                         *)
TypeOK ==
  /\ tokens \in 0 .. MaxWorkers
  /\ pc \in [Run -> {"idle", "select", "token", "drain", "returned"}]
  /\ received \in [Run -> 0 .. Items]
  /\ drained \in [Run -> 0 .. MaxWorkers]
  /\ expired \in [Run -> BOOLEAN]
  /\ wpc \in [Worker -> {"none", "process", "send", "put", "exit"}]
  /\ panicked \in BOOLEAN

NoneExpired == \A r \in Run : ~expired[r]

(* "can scale to max workers": no more goroutines than tokens, over all    *)
(* Runs that share the stage, while no context has expired.                *)
AtMostMaxWorkers ==
  NoneExpired => Cardinality(UNION {Alive(r) : r \in Run}) <= MaxWorkers

(* "wait for all workers to exit": while no context has expired, a Run     *)
(* that returns leaves no goroutine behind that could send on the channel  *)
(* the pipeline closes next.                                               *)
WorkersExitFirst ==
  NoneExpired =>
    /\ ~panicked
    /\ \A r \in Run : pc[r] = "returned" => Alive(r) = {}

(* A Run that has the stage to itself returns, its context expired or not. *)
AloneReturns ==
  \A r \in Run :
    [](\A s \in Run \ {r} : pc[s] = "idle") =>
      (pc[r] = "select" ~> pc[r] = "returned" \/ panicked)

(* "It is safe to call Process concurrently with different sources and     *)
(* sinks" (pipe.go): every Run of a stage that two Process calls share     *)
(* returns.                                                                *)
RunReturns == \A r \in Run : pc[r] = "select" ~> pc[r] = "returned" \/ panicked
=============================================================================
