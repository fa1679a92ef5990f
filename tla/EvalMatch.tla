----------------------------- MODULE EvalMatch -----------------------------
(***************************************************************************)
(* The execution match of app/eval/run.py: a result is a sequence of rows, *)
(* a row the set of its values.                                            *)
(***************************************************************************)
EXTENDS FiniteSetsExt, SequencesExt

Free(got, used, row) == {j \in DOMAIN got : j \notin used /\ row \subseteq got[j]}

NotTaken(got, used, row) == used  \* mutant: without used[j] = True

(* The expected row takes the first row that has its values ...            *)
Taken(got, used, row) == used \cup {Min(Free(got, used, row))}

(* ... or fails the match.                                                 *)
Take(got, match, row) ==
  IF match.ok /\ Free(got, match.used, row) # {}
    THEN [ok |-> TRUE, used |-> Taken(got, match.used, row)]
    ELSE [ok |-> FALSE, used |-> match.used]

Matches(got, expected) ==
  /\ Len(got) = Len(expected)
  /\ FoldLeft(LAMBDA match, row : Take(got, match, row), [ok |-> TRUE, used |-> {}], expected).ok
=============================================================================
