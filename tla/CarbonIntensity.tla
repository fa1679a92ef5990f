--------------------------- MODULE CarbonIntensity ---------------------------
(***************************************************************************)
(* The arithmetic of app/services/carbon.py: the carbon intensity and the  *)
(* shares of one hour, computed from the hour's generation by fuel.        *)
(*                                                                         *)
(* A mix is the generation_hourly rows of one region and hour: a function  *)
(* from fuel codes to MWh, NoRow where there is no row.                    *)
(***************************************************************************)
EXTENDS Rounding, FiniteSetsExt, Functions

CONSTANTS
  Fuel,         \* stored fuel codes
  Factor,       \* emission_factors: fuel -> [co2, renewable, carbonFree, lowConfidence]
  GramScale,    \* LB_PER_MWH_TO_G_PER_KWH, in units of the last digit of gco2_per_kwh
  ShareScale,   \* 1.0 as a rounded share: 10000 in the code
  NoRow,        \* no generation row for this fuel
  NoIntensity   \* _intensity_for_period returned None; no intensity row

ASSUME FuelsAreFinite == IsFiniteSet(Fuel)
ASSUME FactorsAreSeeded ==
  \A f \in Fuel :
    /\ Factor[f].co2 \in Nat
    /\ {Factor[f].renewable, Factor[f].carbonFree, Factor[f].lowConfidence} \subseteq BOOLEAN
    /\ Factor[f].renewable => Factor[f].carbonFree
ASSUME ScalesArePositive == {GramScale, ShareScale} \subseteq Nat \ {0}

(* A row of carbon_intensity_hourly.                                       *)
IntensityRow ==
  [gco2 : Int, total : Int, renewable : Int, carbonFree : Int, lowConfidence : Int]

ASSUME NoIntensityIsNoRow == NoIntensity \notin IntensityRow

EmptyMix == [f \in Fuel |-> NoRow]

(* The fuels that count: negative values are clamped to zero and skipped.  *)
ReportedFuels(mix) == {f \in Fuel : mix[f] # NoRow /\ mix[f] # 0}  \* mutant: no clamp
Generating(mix) == {f \in Fuel : mix[f] # NoRow /\ mix[f] > 0}

MwhOf(mix, S) == SumFunctionOnSet(mix, S)

EmissionsLb(mix) ==
  SumFunction([f \in Generating(mix) |-> mix[f] * Factor[f].co2])

(* _intensity_for_period                                                   *)
IntensityForPeriod(mix) ==
  LET total == MwhOf(mix, Generating(mix))
      Share(Included(_)) ==
        RoundDiv(ShareScale * MwhOf(mix, {f \in Generating(mix) : Included(f)}), total)
  IN  IF total <= 0
        THEN NoIntensity
        ELSE [gco2          |-> RoundDiv(GramScale * EmissionsLb(mix), total),
              total         |-> total,
              renewable     |-> Share(LAMBDA f : Factor[f].renewable),
              carbonFree    |-> Share(LAMBDA f : Factor[f].carbonFree),
              lowConfidence |-> Share(LAMBDA f : Factor[f].lowConfidence)]
=============================================================================
