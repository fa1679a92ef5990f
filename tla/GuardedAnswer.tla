---------------------------- MODULE GuardedAnswer ----------------------------
(***************************************************************************)
(* What /v1/ai/ask promises, whatever the language model writes: only safe *)
(* statements reach the database, at most MaxRuns of them, and the one     *)
(* shown with an answer is the one the answer comes from.                  *)
(***************************************************************************)
EXTENDS Sequences, Naturals

CONSTANTS
  SafeStatement,  \* statements that read the curated views and are bounded
  MaxRuns,        \* statements one question may run
  Nothing         \* no statement is shown

VARIABLES
  ran,      \* the statements that were sent to the database
  shown,    \* the statement shown with the answer
  outcome   \* "open", "answered" or "declined"

vars == <<ran, shown, outcome>>

Init == ran = <<>> /\ shown = Nothing /\ outcome = "open"

Run ==
  /\ outcome = "open" /\ Len(ran) < MaxRuns
  /\ \E s \in SafeStatement : ran' = Append(ran, s)
  /\ UNCHANGED <<shown, outcome>>

Answer ==
  /\ outcome = "open" /\ ran # <<>>
  /\ outcome' = "answered"
  /\ shown' = ran[Len(ran)]
  /\ UNCHANGED ran

Decline ==
  /\ outcome = "open"
  /\ outcome' = "declined"
  /\ UNCHANGED <<ran, shown>>

Next == Run \/ Answer \/ Decline

Spec == Init /\ [][Next]_vars
=============================================================================
