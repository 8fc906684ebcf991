----------------------------- MODULE MCPipeline -----------------------------
(* Instances of Pipeline for TLC: a stage of two workers and a FIFO, and    *)
(* a single FIFO.                                                           *)
EXTENDS Pipeline, TLC

PoolAndFIFO == <<2, 1>>
OneFIFO == <<1>>
=============================================================================
