------------------------------- MODULE AskSql -------------------------------
(***************************************************************************)
(* A question to /v1/ai/ask: the language model writes SQL, the guard      *)
(* checks it and enforces a LIMIT, the database runs it under a timeout,   *)
(* and a failure of either is told to the model, once.                     *)
(*                                                                         *)
(* What the model writes is what sqlglot makes of it: Unparsable, or a     *)
(* sequence of statements.  A statement is its kind, whether one of the    *)
(* forbidden kinds occurs anywhere in it, the names it uses as tables      *)
(* (those its CTEs define included) and its outermost LIMIT.               *)
(***************************************************************************)
EXTENDS Integers, Sequences, FiniteSets

CONSTANTS
  Text,          \* bound: what the model may write
  Unparsable,    \* sqlglot.parse raises
  Views,         \* ALLOWED_VIEWS
  Name,          \* names of tables, views and CTEs
  Bound,         \* numbers of rows a LIMIT may allow
  NoLimit,       \* no LIMIT clause
  NoName,        \* the `name` of a LIMIT expression is no integer
  DefaultLimit,
  MaxLimit,
  MaxAttempts,   \* MAX_ATTEMPTS
  None           \* Python's None

Limit == {NoLimit} \cup [name : Bound \cup {NoName}, value : Bound]
Statement ==
  [kind : {"select", "union", "other"}, writes : BOOLEAN,
   tables : SUBSET Name, ctes : SUBSET Name, limit : Limit]

ASSUME ViewsAreNames == Views \subseteq Name
ASSUME LimitsAreBounds ==
  Bound \subseteq Nat /\ {DefaultLimit, MaxLimit} \subseteq Bound /\ DefaultLimit <= MaxLimit
ASSUME AttemptsArePositive == MaxAttempts \in Nat \ {0}
ASSUME TextsAreStatements == Text \subseteq {Unparsable} \cup Seq(Statement)
ASSUME ValuesAreDistinct ==
  /\ NoName \notin Bound
  /\ None \notin Statement \cup [sql : Statement, repaired : BOOLEAN, rows : Bound]
  /\ NoLimit \notin [name : Bound \cup {NoName}, value : Bound]

VARIABLES
  pc,        \* "new", what answer_question awaits, or how the request ended
  attempt,   \* loop variable
  error,     \* `error`
  sql,       \* raw_sql, then safe_sql
  attempts,  \* `attempts`
  answer,    \* the dict that is returned
  prompts,   \* ghost: repair_error of every call of the model
  ran        \* ghost: the statements that were sent to the database

vars == <<pc, attempt, error, sql, attempts, answer, prompts, ran>>

Init ==
  /\ pc = "new"
  /\ attempt = 0
  /\ error = None
  /\ sql = None
  /\ attempts = <<>>
  /\ answer = None
  /\ prompts = <<>>
  /\ ran = <<>>

-----------------------------------------------------------------------------
(* sql_guard.py *)

(* The checks of validate_and_prepare; each finds fault with some texts.   *)
OneStatement(text) == text # Unparsable /\ Len(text) = 1
IsQuery(s) == s.kind \in {"select", "union"}
OnlyViews(s) == s.tables \subseteq Views

AcceptsByKind(text) ==  \* mutant: nothing below the top of the tree is looked at
  OneStatement(text) /\ IsQuery(text[1]) /\ OnlyViews(text[1])

Accepts(text) ==
  OneStatement(text) /\ IsQuery(text[1]) /\ ~text[1].writes /\ OnlyViews(text[1])

Exactly(n) == [name |-> n, value |-> n]

(* limit.expression.name is the literal, or that of the first operand, or  *)
(* something int() refuses.  A union is limited as a whole, whatever LIMIT *)
(* it had.                                                                 *)
CappedLimit(s) ==
  IF s.kind = "union" \/ s.limit = NoLimit \/ s.limit.name = NoName
    THEN Exactly(DefaultLimit)
  ELSE IF s.limit.name > MaxLimit THEN Exactly(MaxLimit)
  ELSE s.limit

Prepared(text) == [text[1] EXCEPT !.limit = CappedLimit(text[1])]

-----------------------------------------------------------------------------
(* text_to_sql.py *)

AwaitModel(reason) == pc' = "model" /\ prompts' = Append(prompts, reason)

(* ai_ask: a blank question is 400.                                        *)
Ask ==
  /\ pc = "new"
  /\ \/ AwaitModel(error)
     \/ pc' = "blank" /\ UNCHANGED prompts
  /\ UNCHANGED <<attempt, error, sql, attempts, answer, ran>>

ModelFails ==  \* the SDK raises, or no block is a tool call: 500
  /\ pc = "model"
  /\ pc' = "failed"
  /\ UNCHANGED <<attempt, error, sql, attempts, answer, prompts, ran>>

TracedLast(entry) == <<entry>>  \* mutant: `attempts = [...]`
Traced(entry) == Append(attempts, entry)

(* The end of an attempt: the next one, or 422 with the trace.             *)
AttemptFails(text, reason) ==
  /\ error' = reason
  /\ attempts' = Traced([sql |-> text, error |-> reason])
  /\ attempt' = attempt + 1
  /\ IF attempt + 1 < MaxAttempts
       THEN AwaitModel(reason)
       ELSE pc' = "refused" /\ UNCHANGED prompts
  /\ UNCHANGED answer

(* No await lies between the model's answer, the guard and the call of the *)
(* database.                                                               *)
ModelAnswers ==
  /\ pc = "model"
  /\ \E text \in Text :
       IF Accepts(text)
         THEN /\ pc' = "database"
              /\ sql' = Prepared(text)
              /\ ran' = Append(ran, Prepared(text))
              /\ UNCHANGED <<attempt, error, attempts, answer, prompts>>
         ELSE /\ AttemptFails(text, <<"validation", text>>)
              /\ sql' = text
              /\ UNCHANGED ran

ExecutionFails ==
  /\ pc = "database"
  /\ AttemptFails(sql, <<"execution", sql>>)
  /\ UNCHANGED <<sql, ran>>

(* Names no relation has, a LIMIT it cannot use, an overload or a          *)
(* connection that is lost.                                                *)
DatabaseFails == ExecutionFails

DatabaseAnswers ==
  /\ pc = "database"
  /\ \E rows \in Bound :
       /\ rows <= sql.limit.value
       /\ answer' = [sql |-> sql, repaired |-> attempt > 0, rows |-> rows]
  /\ pc' = "answered"
  /\ UNCHANGED <<attempt, error, sql, attempts, prompts, ran>>

(* SET statement_timeout: the database gives up on a statement that runs   *)
(* longer.                                                                 *)
NeverTimesOut == FALSE  \* mutant: the timeout is not set
TimesOut == ExecutionFails

ModelReturns == ModelAnswers \/ ModelFails

Next == Ask \/ ModelReturns \/ DatabaseFails \/ DatabaseAnswers \/ TimesOut

Spec == Init /\ [][Next]_vars

(* A call of the model returns or raises, by the timeout of its SDK; of    *)
(* the database no more is assumed than its statement_timeout.             *)
FairSpec == Spec /\ WF_vars(ModelReturns) /\ WF_vars(TimesOut)

-----------------------------------------------------------------------------
(* Properties *)

Ended == {"blank", "failed", "refused", "answered"}

(* Reads nothing but the views and what its own CTEs define, and returns   *)
(* MaxLimit rows at most.  A LIMIT whose expression names another number   *)
(* than it stands for is beyond the promise: the guard takes the name.     *)
Safe(s) ==
  /\ s.kind # "other" /\ ~s.writes
  /\ s.tables \ s.ctes \subseteq Views
  /\ s.limit # NoLimit
  /\ s.limit.value <= MaxLimit \/ s.limit.name \notin {NoName, s.limit.value}

Promise ==
  INSTANCE GuardedAnswer WITH
    SafeStatement <- {s \in Statement : Safe(s)},
    MaxRuns <- MaxAttempts,
    Nothing <- None,
    shown <- IF answer = None THEN None ELSE answer.sql,
    outcome <- IF pc = "answered" THEN "answered"
               ELSE IF pc \in Ended THEN "declined" ELSE "open"

(* Whatever the model writes, what reaches the database and what is shown  *)
(* is as GuardedAnswer says (sql_guard.py:29-71, text_to_sql.py:25-59).    *)
OnlySafeRuns == Promise!Spec

(* The attempts that failed in the database, and which of the statements   *)
(* that ran was the i-th attempt's: as many ran before as it has such      *)
(* attempts before it.                                                     *)
Executed == {i \in DOMAIN attempts : attempts[i].error[1] = "execution"}
RunOf(i) == Cardinality({k \in Executed : k <= i})

(* The trace of a 422 has every attempt once and in order; each failure,   *)
(* and no other, is what the model is next asked to repair; the traced     *)
(* execution failures are the statements that ran without answering; and   *)
(* `repaired` says whether any attempt failed (text_to_sql.py:25-52).      *)
TraceIsComplete ==
  /\ Len(attempts) = attempt
  /\ pc = "refused" => attempt = MaxAttempts
  /\ \A i \in DOMAIN prompts :
       prompts[i] = IF i = 1 THEN None ELSE attempts[i - 1].error
  /\ \A i \in Executed : RunOf(i) \in DOMAIN ran /\ ran[RunOf(i)] = attempts[i].sql
  /\ pc \in {"model", "failed", "refused"} => Len(ran) = Cardinality(Executed)
  /\ pc = "answered" =>
       /\ Len(ran) = Cardinality(Executed) + 1 /\ ran[Len(ran)] = answer.sql
       /\ answer.repaired <=> attempts # <<>>

(* A question that was asked ends, though the database may never answer.   *)
QuestionEnds == pc # "new" ~> pc \in Ended
=============================================================================
