----------------------------- MODULE MCFrontend -----------------------------
(***************************************************************************)
(* A page with two regions, and ZIP codes of the one it does not open      *)
(* with.                                                                   *)
(***************************************************************************)
EXTENDS Frontend

MCRegionOf == [zip \in Zip |-> CHOOSE r \in Region : r # Home]
=============================================================================
