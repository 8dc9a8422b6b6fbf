-------------------------- MODULE MCServicePipeline -------------------------
(* ServicePipeline for TLC, on Windows: the behaviours elsewhere are those   *)
(* in which an unlink and the write after it are not told apart.  No order  *)
(* leaves the trader, which matters to none of the pipeline's properties.   *)
EXTENDS ServicePipeline

MCDeposit == [a \in Asset |-> Size]
MCPayouts == [a \in Asset |-> {}]
=============================================================================
