---------------------------- MODULE MessageQueue ----------------------------
(***************************************************************************)
(* The in-memory message queue of internal/bspgraph/message: every         *)
(* exported method of inMemoryQueue holds q.mu for its whole body, so each *)
(* is one atomic operator on the slice q.msgs.  The queue is a stack: the  *)
(* iterator takes the message at the tail.  The latched message, which     *)
(* only the reader of the iterator sees, is the value Peek returns.        *)
(***************************************************************************)
EXTENDS Naturals, Sequences

EmptyQueue == << >>

Enqueue(q, msg) == Append(q, msg)

PendingMessages(q) == Len(q) # 0

DiscardMessages(q) == EmptyQueue

(* Next() latches the message at the tail and drops it from the queue.     *)
AfterNext(q) == SubSeq(q, 1, Len(q) - 1)
=============================================================================
