--------------------------- MODULE MCDeliveryLive ---------------------------
(* What is accepted is delivered in the end: by the pipeline of durable      *)
(* operations, and by the spool of raw events.  The parts share no state; a  *)
(* behaviour follows one of them while the other rests.  In the spool an     *)
(* event that the daemon refuses comes before one that it takes.             *)
EXTENDS MCDeliveryPipeline

VARIABLES part, streaming, rows, waiting, put, flush, maintain, timer, connection, settled,
          dropped

spool ==
  <<streaming, rows, waiting, put, flush, maintain, timer, connection, settled, dropped>>

CONSTANT NoTab

Spool == INSTANCE RawSpool WITH
           SpoolTabs <- {t1}, EventCount <- 2, Poison <- {1}, MaxRows <- 2, BatchSize <- 1

LiveInit == part \in {"pipeline", "spool"} /\ Init /\ Spool!SpoolInit

LiveNext ==
  /\ UNCHANGED part
  /\ \/ part = "pipeline" /\ Next /\ UNCHANGED spool
     \/ part = "spool" /\ Spool!SpoolNext /\ UNCHANGED vars

(* The fairness of each part is that of its module, in its own behaviours.   *)
Delivers(A) == part = "pipeline" /\ A
Spools(A) == part = "spool" /\ A

PipelineFairness ==
  /\ WF_vars(Delivers(Pair))
  /\ \A t \in Tabs :
       /\ WF_vars(Delivers(Step(t))) /\ WF_vars(Delivers(Route(t, NoOp)))
       /\ SF_vars(Delivers(Hello(t))) /\ SF_vars(Delivers(Serve(t)))
       /\ SF_vars(Delivers(ReplayAcknowledged(t)))

SpoolFairness ==
  /\ WF_spool(Spools(Spool!Fire(t1))) /\ WF_spool(Spools(Spool!List(t1)))
  /\ WF_spool(Spools(Spool!Answer(t1)))
  /\ WF_spool(Spools(Spool!Maintain(t1))) /\ WF_spool(Spools(Spool!MaintainPrune(t1)))
  /\ WF_spool(Spools(Spool!OpenAgain(t1)))
  /\ SF_spool(Spools(Spool!AcceptAll(t1)))
  /\ SF_spool(Spools(Spool!Delete(t1))) /\ SF_spool(Spools(Spool!Update(t1)))
  /\ SF_spool(Spools(Spool!RestoreBatch(t1)))
  /\ \A e \in 1..2 : /\ SF_spool(Spools(Spool!Turn(e) /\ Spool!Fire(t1)))
                     /\ SF_spool(Spools(Spool!Turn(e) /\ Spool!List(t1)))
                     /\ WF_spool(Spools(Spool!Due(e)))

LiveSpec ==
  LiveInit /\ [][LiveNext]_<<part, vars, spool>> /\ PipelineFairness /\ SpoolFairness

RowsAreDelivered == Spool!RowsAreDelivered
=============================================================================
