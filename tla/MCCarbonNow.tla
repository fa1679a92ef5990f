---------------------------- MODULE MCCarbonNow ----------------------------
(***************************************************************************)
(* An instance of CarbonNow with the two fuels of MCIngest.  The mixes let *)
(* EIA report a negative value and an hour revised to no generation.       *)
(***************************************************************************)
EXTENDS CarbonNow

MCFactor ==
  [NG  |-> [co2 |-> 900, renewable |-> FALSE, carbonFree |-> FALSE, lowConfidence |-> FALSE],
   GEO |-> [co2 |-> 120, renewable |-> TRUE, carbonFree |-> TRUE, lowConfidence |-> TRUE]]

Reading(ng, geo) == [f \in {"NG", "GEO"} |-> IF f = "NG" THEN ng ELSE geo]

MCMix == {Reading(2, 1), Reading(3, -1), Reading(0, 0)}
=============================================================================
