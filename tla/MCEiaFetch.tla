----------------------------- MODULE MCEiaFetch -----------------------------
(***************************************************************************)
(* An instance of EiaFetch: three fuel types an hour, of which two are     *)
(* unknown to the code and stored as OTH, and at most one row without a    *)
(* value.                                                                  *)
(***************************************************************************)
EXTENDS EiaFetch

MCCodeOf == <<"SUN", "OTH", "OTH">>
MCNullChoices == {{}} \cup {{r} : r \in Row}
MCNoNulls == {{}}
=============================================================================
