------------------------------ MODULE Pipeline ------------------------------
(***************************************************************************)
(* One call of Process of internal/pipeline: the goroutines of the source, *)
(* of N stages of fifo workers and of the sink, wired by unbuffered        *)
(* channels, and the caller, who collects errors.  FIFO is a pool of one,  *)
(* FixedWorkerPool a pool of several.                                      *)
(*                                                                         *)
(* The source is group 0, stage i of the pipeline (stageIndex i - 1) group *)
(* i, the sink group N + 1.  Group i sends on stageCh[i].  A payload is    *)
(* its position in the source.                                             *)
(***************************************************************************)
EXTENDS Naturals, SequencesExt

CONSTANTS
  N,          \* number of stages
  PoolSize,   \* fifo workers of each stage
  Items       \* bound: payloads the source has

ASSUME PipelineAssumption ==
  /\ {N, Items} \subseteq Nat
  /\ PoolSize \in [1 .. N -> Nat \ {0}]

Group == 0 .. N + 1
Chan == 0 .. N
Size(i) == IF i \in 1 .. N THEN PoolSize[i] ELSE 1
Routine == UNION {{<<i, k>> : k \in 1 .. Size(i)} : i \in Group}
GroupOf(g) == g[1]
Source == <<0, 1>>
Sink == <<N + 1, 1>>

VARIABLES
  pc, item,       \* each goroutine and the payload it holds (0: none)
  produced,       \* payloads taken from the source
  closed,         \* stageCh[c] is closed
  exited,         \* groups that are past close() and wg.Done()
  expired,        \* ctx is done
  cancelled,      \* ctxCancelFn has been called
  errCh,
  caller,         \* "collect", "returned"
  collected,      \* errors in the multierror err
  panicked,
  emitted,        \* history: calls of maybeEmitError
  passed,         \* history: payloads that went through each channel
  marked          \* history: payloads MarkAsProcessed was called on

errVars == <<errCh, caller, collected, emitted>>
ctxVars == <<expired, cancelled>>
chanVars == <<closed, exited, panicked, passed>>
vars == <<pc, item, produced, chanVars, ctxVars, errVars, marked>>

Init ==
  /\ pc = [g \in Routine |-> IF g = Source THEN "next" ELSE "recv"]
  /\ item = [g \in Routine |-> 0]
  /\ produced = 0
  /\ closed = [c \in Chan |-> FALSE]
  /\ exited = {}
  /\ expired = FALSE /\ cancelled = FALSE
  /\ errCh = << >>
  /\ caller = "collect" /\ collected = 0
  /\ panicked = FALSE
  /\ emitted = 0
  /\ passed = [c \in Chan |-> << >>]
  /\ marked = {}

(* The stages get ctx, source and sink get pCtx.                           *)
Done(g) == expired \/ (g \in {Source, Sink} /\ cancelled)

NoBuffer == 0                           \* mutant: make(chan error)
ErrChCap == N + 2
MaybeEmitError ==
  /\ errCh' = IF Len(errCh) < ErrChCap THEN Append(errCh, "err") ELSE errCh
  /\ emitted' = emitted + 1
  /\ UNCHANGED <<caller, collected>>

-----------------------------------------------------------------------------
(* The source has another payload, or none, or fails.                      *)
SourceNext ==
  /\ pc[Source] = "next"
  /\ produced < Items
  /\ produced' = produced + 1
  /\ item' = [item EXCEPT ![Source] = produced']
  /\ pc' = [pc EXCEPT ![Source] = "send"]
  /\ UNCHANGED <<chanVars, ctxVars, errVars, marked>>

SourceEnd ==
  /\ pc[Source] = "next"
  /\ pc' = [pc EXCEPT ![Source] = "exit"]
  /\ MaybeEmitError \/ UNCHANGED errVars
  /\ UNCHANGED <<item, produced, chanVars, ctxVars, marked>>

(* A payload passes from a sender to a receiver of the next group.         *)
HandCopy(g, h) ==         \* mutant: the sender keeps it and sends it again
  /\ item' = [item EXCEPT ![h] = item[g]]
  /\ pc' = [pc EXCEPT ![h] = "process"]
Hand(g, h) ==
  /\ item' = [item EXCEPT ![h] = item[g], ![g] = 0]
  /\ pc' = [pc EXCEPT ![h] = "process", ![g] = IF g = Source THEN "next" ELSE "recv"]
Pass(g, h) ==
  /\ GroupOf(h) = GroupOf(g) + 1
  /\ pc[g] = "send" /\ pc[h] = "recv" /\ ~closed[GroupOf(g)]
  /\ Hand(g, h)
  /\ passed' = [passed EXCEPT ![GroupOf(g)] = Append(@, item[g])]
  /\ UNCHANGED <<produced, closed, exited, panicked, ctxVars, errVars, marked>>

SendOnClosed(g) ==
  /\ pc[g] = "send" /\ closed[GroupOf(g)]
  /\ panicked' = TRUE
  /\ UNCHANGED <<pc, item, produced, closed, exited, passed, ctxVars, errVars, marked>>

Exit(g) ==
  /\ pc' = [pc EXCEPT ![g] = "exit"]
  /\ item' = [item EXCEPT ![g] = 0]

ReceiveClosed(g) ==
  /\ pc[g] = "recv" /\ closed[GroupOf(g) - 1]
  /\ Exit(g)
  /\ UNCHANGED <<produced, chanVars, ctxVars, errVars, marked>>

(* The Done case of a select; a payload that was to be sent is dropped.    *)
Quit(g) ==
  /\ pc[g] \in {"recv", "send"} /\ Done(g)
  /\ Exit(g)
  /\ UNCHANGED <<produced, chanVars, ctxVars, errVars, marked>>

-----------------------------------------------------------------------------
(* A fifo worker has processed its payload: forward it, ...                *)
Forward(g) ==
  /\ pc[g] = "process" /\ g # Sink
  /\ pc' = [pc EXCEPT ![g] = "send"]
  /\ UNCHANGED <<item, produced, chanVars, ctxVars, errVars, marked>>

(* ... drop it because the processor returned nil, ...                     *)
DropAndSend(g) == pc' = [pc EXCEPT ![g] = "send"] /\ UNCHANGED item  \* mutant: no continue
Continue(g) == pc' = [pc EXCEPT ![g] = "recv"] /\ item' = [item EXCEPT ![g] = 0]
OutputOf(g) == 0           \* mutant: it is payloadOut, which is nil, that is marked
InputOf(g) == item[g]
Discard(g) ==
  /\ pc[g] = "process" /\ g # Sink
  /\ marked' = marked \cup {InputOf(g)}
  /\ Continue(g)
  /\ UNCHANGED <<produced, chanVars, ctxVars, errVars>>

(* ... or report an error, as the sink does when Consume fails.            *)
ProcessFails(g) ==
  /\ pc[g] = "process"
  /\ Exit(g)
  /\ MaybeEmitError
  /\ UNCHANGED <<produced, chanVars, ctxVars, marked>>

Consume ==
  /\ pc[Sink] = "process"
  /\ marked' = marked \cup {item[Sink]}
  /\ pc' = [pc EXCEPT ![Sink] = "recv"]
  /\ item' = [item EXCEPT ![Sink] = 0]
  /\ UNCHANGED <<produced, chanVars, ctxVars, errVars>>

-----------------------------------------------------------------------------
(* Run has returned when all workers of the pool have; then the goroutine  *)
(* closes its channel.  The sink's closes stageCh[0].                      *)
AnyReturned(i) == \E g \in Routine : GroupOf(g) = i /\ pc[g] = "exit"  \* mutant: no wg.Wait
AllReturned(i) == \A g \in Routine : GroupOf(g) = i => pc[g] = "exit"
CloseChan(i) == IF i = N + 1 THEN 0 ELSE i

CloseOutput(i) ==
  LET c == CloseChan(i) IN
  /\ AllReturned(i) /\ i \notin exited
  /\ IF closed[c]
     THEN panicked' = TRUE /\ UNCHANGED <<closed, exited>>
     ELSE /\ closed' = [closed EXCEPT ![c] = TRUE]
          /\ exited' = exited \cup {i}
          /\ UNCHANGED panicked
  /\ UNCHANGED <<pc, item, produced, passed, ctxVars, errVars, marked>>

(* `for pErr := range errCh': the channel is closed once all are through   *)
(* wg.Done().                                                              *)
ErrChClosed == exited = Group

Collect ==
  /\ caller = "collect"
  /\ errCh # << >> \/ ErrChClosed
  /\ IF errCh # << >>
     THEN /\ errCh' = Tail(errCh)
          /\ collected' = collected + 1
          /\ UNCHANGED caller
     ELSE caller' = "returned" /\ UNCHANGED <<errCh, collected>>
  /\ cancelled' = TRUE
  /\ UNCHANGED <<pc, item, produced, chanVars, expired, emitted, marked>>

Expire ==
  /\ ~expired /\ expired' = TRUE
  /\ UNCHANGED <<pc, item, produced, chanVars, cancelled, errVars, marked>>

-----------------------------------------------------------------------------
Work ==
  \/ SourceNext \/ SourceEnd \/ Consume
  \/ \E g \in Routine :
       \/ SendOnClosed(g) \/ ReceiveClosed(g) \/ Quit(g)
       \/ Forward(g) \/ Discard(g) \/ ProcessFails(g)
       \/ \E h \in Routine : Pass(g, h)
  \/ \E i \in Group : CloseOutput(i)
  \/ Collect

(* A panic ends the program.                                               *)
Terminated == (panicked \/ caller = "returned") /\ UNCHANGED vars

Next == (~panicked /\ (Work \/ Expire)) \/ Terminated

Spec == Init /\ [][Next]_vars

(* Sources end, processors and sinks return, and the Go scheduler runs     *)
(* what can run; the caller's context need not expire.                     *)
FairSpec == Spec /\ WF_vars(~panicked /\ Work)

-----------------------------------------------------------------------------
(* Type invariant.                                                         *)
TypeOK ==
  /\ pc \in [Routine -> {"next", "recv", "process", "send", "exit"}]
  /\ item \in [Routine -> 0 .. Items]
  /\ produced \in 0 .. Items
  /\ closed \in [Chan -> BOOLEAN]
  /\ exited \subseteq Group
  /\ {expired, cancelled, panicked} \subseteq BOOLEAN
  /\ errCh \in Seq({"err"})
  /\ caller \in {"collect", "returned"}
  /\ {collected, emitted} \subseteq Nat
  /\ passed \in [Chan -> Seq(1 .. Items)]
  /\ marked \subseteq 1 .. Items

Held(g) == pc[g] \in {"process", "send"}

(* A payload that was marked goes back to the pool of payloads: from then  *)
(* on no goroutine has it.  Until then at most one does.                   *)
MarkedIsFinal ==
  \A g \in Routine : Held(g) =>
    /\ item[g] \notin marked
    /\ \A h \in Routine : Held(h) /\ item[h] = item[g] => h = g

(* A stage of one worker is first in, first out: what it sends on is part  *)
(* of what it received, in the order it came.  No stage repeats any.       *)
Before(s, x, y) == \E m, n \in DOMAIN s : m < n /\ s[m] = x /\ s[n] = y
StagesKeepOrder ==
  /\ \A c \in Chan : IsInjective(passed[c])
  /\ \A i \in 1 .. N :
       LET in == passed[i - 1]  sent == passed[i] IN
       /\ ToSet(sent) \subseteq ToSet(in)
       /\ PoolSize[i] = 1 =>
            \A j, k \in DOMAIN sent : j < k => Before(in, sent[j], sent[k])

(* Without an error or an expired context the sink's input is closed only  *)
(* when every payload of the source has reached the sink or was discarded. *)
NothingLost ==
  closed[N] /\ emitted = 0 /\ ~expired =>
    \A x \in 1 .. produced : x \in marked \cup ToSet(passed[N])

(* When an error was emitted there is one for Process to return: errCh has *)
(* room for the first even when the caller is not receiving.               *)
FirstErrorKept == emitted > 0 => Len(errCh) + collected > 0

(* "Calls to Process block until: all data from the source has been        *)
(* processed OR an error occurs OR the supplied context expires" (pipe.go) *)
ProcessReturns == <>(caller = "returned")
=============================================================================
