------------------------------ MODULE MCIngest ------------------------------
(***************************************************************************)
(* Instances of Ingest with two fuels: gas, and geothermal, which is       *)
(* renewable, carbon-free and of low confidence.  The mixes EIA may report *)
(* include a negative value, a missing value and an hour without any       *)
(* generation to compute from.                                             *)
(***************************************************************************)
EXTENDS Ingest

MCFactor ==
  [NG  |-> [co2 |-> 900, renewable |-> FALSE, carbonFree |-> FALSE, lowConfidence |-> FALSE],
   GEO |-> [co2 |-> 120, renewable |-> TRUE, carbonFree |-> TRUE, lowConfidence |-> TRUE]]

Reading(ng, geo) == [f \in {"NG", "GEO"} |-> IF f = "NG" THEN ng ELSE geo]

MCMix == {Reading(1, 1), Reading(2, NoRow), Reading(0, -1)}
MCFewMixes == {Reading(1, 1), Reading(2, NoRow)}
MCMixesZero == {Reading(2, 1), Reading(0, 0)}

(* No guard and no liveness property depends on the ghost variables or on  *)
(* the outcome a run notes per region, so states that differ only there    *)
(* are one state of the liveness run.                                      *)
WithoutObservers ==
  <<published, feed, revisions, gen, intensity, pc, job, todo, region, batch, faults>>
=============================================================================
