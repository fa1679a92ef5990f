------------------------------ MODULE Rounding ------------------------------
(***************************************************************************)
(* round() on rationals.  A rounded decimal is an integer in units of the  *)
(* last digit kept.                                                        *)
(***************************************************************************)
EXTENDS Integers

(* a / b to the nearest integer (the direction of exact ties, which float  *)
(* arithmetic decides in the code, is fixed upwards).                      *)
RoundDiv(a, b) == (2 * a + b) \div (2 * b)
=============================================================================
