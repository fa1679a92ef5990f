------------------------------- MODULE Listing -------------------------------
(***************************************************************************)
(* What a paged listing, newest first, promises to a client, whatever the  *)
(* pages are: the client is owed the rows it has not got and not passed;   *)
(* it gets them from the newest down and keeps what it got; a row that     *)
(* appears below all it got is owed too; at the end it is owed nothing.    *)
(***************************************************************************)
EXTENDS Integers

CONSTANT Row  \* numbers, the newer the greater

VARIABLES
  got,      \* rows the client has received
  owed,     \* rows it must still receive
  finished

Init ==
  /\ got = {}
  /\ owed \in SUBSET Row
  /\ finished = FALSE

Above(S, T) == \A s \in S, t \in T : s > t

(* The newest of the rows it is owed.                                      *)
Deliver(S) ==
  /\ ~finished
  /\ S \subseteq owed /\ Above(S, owed \ S) /\ Above(got, S)
  /\ got' = got \cup S
  /\ owed' = owed \ S
  /\ finished' \in {FALSE, owed' = {}}

Appear(t) ==
  /\ ~finished
  /\ Above(got, {t})
  /\ owed' = owed \cup {t}
  /\ UNCHANGED <<got, finished>>

Next ==
  \/ \E S \in SUBSET owed : Deliver(S)
  \/ \E t \in Row : Appear(t)

Spec == Init /\ [][Next]_<<got, owed, finished>>
=============================================================================
