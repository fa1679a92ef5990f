--------------------------- MODULE MCResponseCache ---------------------------
(***************************************************************************)
(* An instance of ResponseCache; its clients are interchangeable.          *)
(***************************************************************************)
EXTENDS ResponseCache, TLC

ClientsAlike == Permutations(Client)
=============================================================================
