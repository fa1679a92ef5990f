---------------------------- MODULE AskSqlProofs ----------------------------
(***************************************************************************)
(* AskSql implements GuardedAnswer and keeps a complete trace, whatever    *)
(* the model may write, however many attempts there are and whatever the   *)
(* limits are.                                                             *)
(***************************************************************************)
EXTENDS AskSql, FiniteSetTheorems, TLAPS

(* What ties the statement at hand to those that ran, and the number of    *)
(* those to the attempts: a statement runs in an attempt of its own.       *)
IInv ==
  /\ pc \in {"new", "model", "database"} \cup Ended
  /\ attempt \in Nat
  /\ ran \in Seq(Statement)
  /\ pc \in {"new", "model"} => attempt < MaxAttempts /\ Len(ran) <= attempt
  /\ pc = "database" =>
       /\ attempt < MaxAttempts /\ Len(ran) <= attempt + 1
       /\ sql \in Statement /\ ran # <<>> /\ ran[Len(ran)] = sql
  /\ pc = "answered" <=> answer # None

Abstract == Promise!vars

-----------------------------------------------------------------------------
(* The guard *)

(* A LIMIT that the guard leaves on a statement bounds its rows, unless    *)
(* its expression names another number (sql_guard.py:59-69).               *)
LEMMA CappedLimitBounds ==
  ASSUME NEW s \in Statement
  PROVE  /\ CappedLimit(s) \in Limit
         /\ CappedLimit(s) # NoLimit
         /\ \/ CappedLimit(s).value <= MaxLimit
            \/ CappedLimit(s).name \notin {NoName, CappedLimit(s).value}
<1> USE LimitsAreBounds, ValuesAreDistinct DEF Limit, Exactly
<1>1. Exactly(DefaultLimit) \in [name : Bound \cup {NoName}, value : Bound]
      /\ Exactly(MaxLimit) \in [name : Bound \cup {NoName}, value : Bound]
  OBVIOUS
<1>2. DefaultLimit \in Nat /\ MaxLimit \in Nat
  OBVIOUS
<1>3. CASE s.kind = "union" \/ s.limit = NoLimit \/ s.limit.name = NoName
  BY <1>1, <1>2, <1>3 DEF CappedLimit
<1>4. CASE ~(s.kind = "union" \/ s.limit = NoLimit \/ s.limit.name = NoName)
  <2>1. s.limit \in [name : Bound \cup {NoName}, value : Bound]
    BY <1>4 DEF Statement
  <2>2. s.limit.name \in Nat /\ s.limit.value \in Nat
    BY <1>4, <2>1
  <2>3. CASE s.limit.name > MaxLimit
    BY <1>1, <1>2, <1>4, <2>3 DEF CappedLimit
  <2>4. CASE ~(s.limit.name > MaxLimit)
    BY <1>2, <1>4, <2>1, <2>2, <2>4 DEF CappedLimit
  <2> QED
    BY <2>3, <2>4
<1> QED
  BY <1>3, <1>4

(* What the guard lets through is one statement, and safe as it will run   *)
(* (sql_guard.py:29-71).                                                   *)
LEMMA AcceptedIsSafe ==
  ASSUME NEW text \in Text, Accepts(text)
  PROVE  Prepared(text) \in {s \in Statement : Safe(s)}
<1>1. text \in Seq(Statement) /\ Len(text) = 1
  BY TextsAreStatements DEF Accepts, OneStatement
<1>2. text[1] \in Statement
  BY <1>1
<1> DEFINE s == text[1]
           limit == CappedLimit(s)
<1>3. limit \in Limit /\ limit # NoLimit
      /\ (limit.value <= MaxLimit \/ limit.name \notin {NoName, limit.value})
  BY <1>2, CappedLimitBounds
<1> HIDE DEF limit
<1>4. Prepared(text) = [s EXCEPT !.limit = limit]
  BY DEF Prepared, limit
<1>5. Prepared(text) \in Statement
  BY <1>2, <1>3, <1>4 DEF Statement
<1>6. /\ Prepared(text).kind = s.kind /\ Prepared(text).writes = s.writes
      /\ Prepared(text).tables = s.tables /\ Prepared(text).limit = limit
  BY <1>2, <1>4 DEF Statement
<1>7. s.kind # "other" /\ ~s.writes /\ s.tables \subseteq Views
  BY DEF Accepts, IsQuery, OnlyViews
<1> QED
  BY <1>3, <1>5, <1>6, <1>7 DEF Safe

-----------------------------------------------------------------------------
(* The invariant *)

LEMMA InitInvariant == Init => IInv
BY AttemptsArePositive DEF Init, IInv, Ended

(* However an attempt fails, the next one is within MaxAttempts and has    *)
(* run nothing yet (text_to_sql.py:25-52).                                 *)
LEMMA FailureKeepsInvariant ==
  ASSUME IInv, pc \in {"model", "database"}, NEW text, NEW reason,
         AttemptFails(text, reason), UNCHANGED ran,
         pc = "model" => Len(ran) <= attempt
  PROVE  IInv'
<1>1. attempt \in Nat /\ ran \in Seq(Statement) /\ Len(ran) \in Nat /\ Len(ran) <= attempt + 1
  BY AttemptsArePositive DEF IInv
<1>2. attempt' = attempt + 1 /\ answer' = answer /\ answer = None
  BY DEF AttemptFails, IInv
<1>3. \/ attempt + 1 < MaxAttempts /\ pc' = "model"
      \/ pc' = "refused"
  BY DEF AttemptFails, AwaitModel
<1> QED
  BY <1>1, <1>2, <1>3, AttemptsArePositive DEF IInv, Ended

LEMMA StepKeepsInvariant == IInv /\ [Next]_vars => IInv'
<1> SUFFICES ASSUME IInv, [Next]_vars PROVE IInv'
  OBVIOUS
<1>1. CASE Ask
  BY <1>1 DEF IInv, Ask, AwaitModel, Ended
<1>2. CASE ModelFails
  BY <1>2 DEF IInv, ModelFails, Ended
<1>3. CASE ModelAnswers
  <2>1. PICK text \in Text :
          IF Accepts(text)
            THEN /\ pc' = "database"
                 /\ sql' = Prepared(text)
                 /\ ran' = Append(ran, Prepared(text))
                 /\ UNCHANGED <<attempt, error, attempts, answer, prompts>>
            ELSE /\ AttemptFails(text, <<"validation", text>>)
                 /\ sql' = text
                 /\ UNCHANGED ran
    BY <1>3 DEF ModelAnswers
  <2>2. pc = "model"
    BY <1>3 DEF ModelAnswers
  <2>3. CASE Accepts(text)
    <3>1. Prepared(text) \in Statement
      BY <2>3, AcceptedIsSafe
    <3> DEFINE s == Prepared(text)
    <3>2. ran' = Append(ran, s) /\ sql' = s /\ pc' = "database" /\ attempt' = attempt /\ answer' = answer
      BY <2>1, <2>3
    <3> HIDE DEF s
    <3>3. s \in Statement
      BY <3>1 DEF s
    <3>4. ran' \in Seq(Statement) /\ Len(ran') = Len(ran) + 1 /\ ran'[Len(ran')] = s /\ ran' # <<>>
      BY <3>2, <3>3 DEF IInv
    <3> QED
      BY <2>2, <3>2, <3>3, <3>4 DEF IInv, Ended
  <2>4. CASE ~Accepts(text)
    BY <2>1, <2>2, <2>4, FailureKeepsInvariant DEF IInv
  <2> QED
    BY <2>3, <2>4
<1>4. CASE ExecutionFails
  BY <1>4, FailureKeepsInvariant DEF ExecutionFails
<1>5. CASE DatabaseAnswers
  <2>1. PICK rows \in Bound : answer' = [sql |-> sql, repaired |-> attempt > 0, rows |-> rows]
    BY <1>5 DEF DatabaseAnswers
  <2>2. pc = "database" /\ pc' = "answered" /\ UNCHANGED <<attempt, sql, ran>>
    BY <1>5 DEF DatabaseAnswers
  <2>3. sql \in Statement
    BY <2>2 DEF IInv
  <2>4. answer' # None
    <3>1. (attempt > 0) \in BOOLEAN
      OBVIOUS
    <3>2. answer' \in [sql : Statement, repaired : BOOLEAN, rows : Bound]
      BY <2>1, <2>3, <3>1, Zenon
    <3> QED
      BY <3>2, ValuesAreDistinct
  <2> QED
    BY <2>2, <2>4 DEF IInv, Ended
<1>6. CASE UNCHANGED vars
  BY <1>6 DEF IInv, vars
<1> QED
  BY <1>1, <1>2, <1>3, <1>4, <1>5, <1>6 DEF Next, ModelReturns, DatabaseFails, TimesOut

-----------------------------------------------------------------------------
(* The refinement *)

LEMMA InitImplements == Init => Promise!Init
BY DEF Init, Promise!Init, Ended

(* An attempt that fails is nothing to the promise, unless it is the last. *)
LEMMA FailureImplements ==
  ASSUME IInv, pc \in {"model", "database"}, NEW text, NEW reason,
         AttemptFails(text, reason), UNCHANGED ran
  PROVE  [Promise!Next]_Abstract
<1>1. answer' = answer /\ (pc' = "model" \/ pc' = "refused")
  BY DEF AttemptFails, AwaitModel
<1>2. CASE pc' = "model"
  BY <1>1, <1>2 DEF Abstract, Promise!vars, Ended
<1>3. CASE pc' = "refused"
  BY <1>1, <1>3 DEF Promise!Next, Promise!Decline, Ended
<1> QED
  BY <1>1, <1>2, <1>3

LEMMA StepImplements == IInv /\ IInv' /\ [Next]_vars => [Promise!Next]_Abstract
<1> SUFFICES ASSUME IInv, IInv', [Next]_vars PROVE [Promise!Next]_Abstract
  OBVIOUS
<1>1. CASE Ask
  <2>1. pc = "new" /\ answer' = answer /\ ran' = ran
    BY <1>1 DEF Ask
  <2>2. CASE pc' = "model"
    BY <2>1, <2>2 DEF Abstract, Promise!vars, Ended
  <2>3. CASE pc' = "blank"
    BY <2>1, <2>3 DEF Promise!Next, Promise!Decline, Ended
  <2> QED
    BY <1>1, <2>2, <2>3 DEF Ask, AwaitModel
<1>2. CASE ModelFails
  BY <1>2 DEF ModelFails, Promise!Next, Promise!Decline, Ended
<1>3. CASE ModelAnswers
  <2>1. PICK text \in Text :
          IF Accepts(text)
            THEN /\ pc' = "database"
                 /\ sql' = Prepared(text)
                 /\ ran' = Append(ran, Prepared(text))
                 /\ UNCHANGED <<attempt, error, attempts, answer, prompts>>
            ELSE /\ AttemptFails(text, <<"validation", text>>)
                 /\ sql' = text
                 /\ UNCHANGED ran
    BY <1>3 DEF ModelAnswers
  <2>2. pc = "model"
    BY <1>3 DEF ModelAnswers
  <2>3. CASE Accepts(text)
    <3>1. Prepared(text) \in {s \in Statement : Safe(s)}
      BY <2>3, AcceptedIsSafe
    <3>2. ran' = Append(ran, Prepared(text)) /\ pc' = "database" /\ answer' = answer
      BY <2>1, <2>3
    <3>3. Len(ran) < MaxAttempts
      BY <2>2, AttemptsArePositive DEF IInv
    <3>4. Promise!Run
      BY <2>2, <3>1, <3>2, <3>3 DEF Promise!Run, Ended
    <3> QED
      BY <3>4 DEF Promise!Next
  <2>4. CASE ~Accepts(text)
    BY <2>1, <2>2, <2>4, FailureImplements
  <2> QED
    BY <2>3, <2>4
<1>4. CASE ExecutionFails
  BY <1>4, FailureImplements DEF ExecutionFails
<1>5. CASE DatabaseAnswers
  <2>1. PICK rows \in Bound : answer' = [sql |-> sql, repaired |-> attempt > 0, rows |-> rows]
    BY <1>5 DEF DatabaseAnswers
  <2>2. pc = "database" /\ pc' = "answered" /\ ran' = ran
    BY <1>5 DEF DatabaseAnswers
  <2>3. answer' # None /\ answer'.sql = ran[Len(ran)] /\ ran # <<>>
    BY <2>1, <2>2 DEF IInv
  <2>4. Promise!Answer
    BY <2>2, <2>3 DEF Promise!Answer, Ended
  <2> QED
    BY <2>4 DEF Promise!Next
<1>6. CASE UNCHANGED vars
  BY <1>6 DEF Abstract, Promise!vars, vars
<1> QED
  BY <1>1, <1>2, <1>3, <1>4, <1>5, <1>6 DEF Next, ModelReturns, DatabaseFails, TimesOut

(* Whatever the model writes, only safe statements reach the database, no  *)
(* more than MaxAttempts of them, and what is shown is the one that was    *)
(* answered (sql_guard.py:29-71, text_to_sql.py:25-59).                    *)
THEOREM AskImplementsPromise == Spec => OnlySafeRuns
<1>1. Spec => []IInv
  BY InitInvariant, StepKeepsInvariant, PTL DEF Spec
<1> QED
  BY <1>1, InitImplements, StepImplements, PTL DEF Spec, OnlySafeRuns, Promise!Spec, Abstract

-----------------------------------------------------------------------------
(* The trace *)

Written == Text \cup Statement
Reason == {"validation", "execution"} \X Written
Entry == [sql : Written, error : Reason]

(* What the trace and the ghosts are made of, and how many of each there   *)
(* are while an attempt is under way.                                      *)
TraceTypes ==
  /\ attempts \in Seq(Entry)
  /\ prompts \in Seq({None} \cup Reason)
  /\ Len(attempts) = attempt
  /\ attempt <= MaxAttempts
  /\ pc = "new" => attempt = 0 /\ prompts = <<>> /\ error = None /\ ran = <<>>
  /\ pc \in {"model", "database"} => Len(prompts) = attempt + 1
  /\ pc = "refused" => attempt = MaxAttempts
  /\ pc = "answered" => answer.sql = ran[Len(ran)] /\ (answer.repaired <=> attempt > 0)

PromptsFollow ==
  \A i \in DOMAIN prompts :
    /\ i - 1 \in 0..Len(attempts)
    /\ prompts[i] = IF i = 1 THEN None ELSE attempts[i - 1].error

(* Every statement that ran and did not answer is in the trace, in the     *)
(* order in which they ran; the one that is running or answered is the     *)
(* last.                                                                   *)
RunsAreTraced ==
  /\ \A i \in Executed : RunOf(i) \in DOMAIN ran /\ ran[RunOf(i)] = attempts[i].sql
  /\ pc \in {"new", "model", "failed", "refused", "blank"} => Len(ran) = Cardinality(Executed)
  /\ pc \in {"database", "answered"} => Len(ran) = Cardinality(Executed) + 1

TraceInv == TraceTypes /\ PromptsFollow /\ RunsAreTraced

LEMMA ExecutedIsFinite ==
  ASSUME attempts \in Seq(Entry)
  PROVE  /\ IsFiniteSet(Executed) /\ Cardinality(Executed) \in Nat
         /\ Executed \subseteq 1..Len(attempts)
         /\ \A i \in Executed : RunOf(i) \in 1..Cardinality(Executed)
<1>1. Len(attempts) \in Nat /\ Executed \subseteq 1..Len(attempts)
  BY DEF Executed
<1>2. IsFiniteSet(1..Len(attempts))
  BY <1>1, FS_Interval
<1>3. IsFiniteSet(Executed)
  BY <1>1, <1>2, FS_Subset
<1>4. Cardinality(Executed) \in Nat
  BY <1>3, FS_CardinalityType
<1>5. ASSUME NEW i \in Executed
      PROVE  RunOf(i) \in 1..Cardinality(Executed)
  <2> DEFINE upTo == {k \in Executed : k <= i}
  <2>1. upTo \in SUBSET Executed
    OBVIOUS
  <2>2. IsFiniteSet(upTo) /\ Cardinality(upTo) <= Cardinality(Executed)
    BY <1>3, <2>1, FS_Subset
  <2>3. i \in upTo
    BY <1>1
  <2>4. Cardinality(upTo) \in Nat /\ Cardinality(upTo) # 0
    BY <2>2, <2>3, FS_CardinalityType, FS_EmptySet
  <2> QED
    BY <1>4, <2>2, <2>4 DEF RunOf
<1> QED
  BY <1>1, <1>3, <1>4, <1>5

(* An attempt the guard refused leaves the runs where they were, one that  *)
(* the database failed is the next of them (text_to_sql.py:31-44).         *)
LEMMA TracedGrows ==
  ASSUME attempts \in Seq(Entry), NEW entry \in Entry, attempts' = Append(attempts, entry),
         NEW n \in Nat, n = Len(attempts) + 1
  PROVE  /\ attempts' \in Seq(Entry) /\ Len(attempts') = n
         /\ \A i \in 1..Len(attempts) : attempts'[i] = attempts[i]
         /\ attempts'[n] = entry
         /\ \A i \in Executed : RunOf(i)' = RunOf(i)
         /\ entry.error[1] = "validation" => Executed' = Executed
         /\ entry.error[1] = "execution" =>
              /\ Executed' = Executed \cup {n}
              /\ Cardinality(Executed') = Cardinality(Executed) + 1
              /\ RunOf(n)' = Cardinality(Executed) + 1
<1>1. /\ attempts' \in Seq(Entry) /\ Len(attempts') = n /\ n \in Nat \ {0}
      /\ \A i \in 1..Len(attempts) : attempts'[i] = attempts[i]
      /\ attempts'[n] = entry
  OBVIOUS
<1>2. Executed \subseteq 1..Len(attempts) /\ n \notin Executed /\ IsFiniteSet(Executed)
  BY ExecutedIsFinite
<1>3. DOMAIN attempts = 1..Len(attempts) /\ DOMAIN attempts' = 1..n
  BY <1>1
<1>4. Executed' = IF entry.error[1] = "execution" THEN Executed \cup {n} ELSE Executed
  BY <1>1, <1>3 DEF Executed
<1>5. ASSUME NEW i \in Executed
      PROVE  RunOf(i)' = RunOf(i)
  <2>1. {k \in Executed' : k <= i} = {k \in Executed : k <= i}
    BY <1>1, <1>2, <1>4
  <2> QED
    BY <2>1 DEF RunOf
<1>6. ASSUME entry.error[1] = "execution"
      PROVE  /\ Executed' = Executed \cup {n}
             /\ Cardinality(Executed') = Cardinality(Executed) + 1
             /\ RunOf(n)' = Cardinality(Executed) + 1
  <2>1. Executed' = Executed \cup {n}
    BY <1>4, <1>6
  <2>2. Cardinality(Executed') = Cardinality(Executed) + 1
    BY <1>2, <2>1, FS_AddElement
  <2>3. {k \in Executed' : k <= n} = Executed'
    <3>1. \A k \in 1..Len(attempts) : k <= n
      BY <1>1
    <3>2. \A k \in Executed' : k <= n
      BY <1>1, <1>2, <2>1, <3>1
    <3> QED
      BY <3>2
  <2> QED
    BY <2>1, <2>2, <2>3 DEF RunOf
<1> QED
  BY <1>1, <1>4, <1>5, <1>6

LEMMA InitTraced == Init => TraceInv
<1> SUFFICES ASSUME Init PROVE TraceInv
  OBVIOUS
<1>1. Executed = {}
  BY DEF Init, Executed
<1> QED
  BY <1>1, FS_EmptySet, AttemptsArePositive
  DEF Init, TraceInv, TraceTypes, PromptsFollow, RunsAreTraced

(* A step that fails no attempt adds nothing to the trace.                 *)
LEMMA SameTrace ==
  ASSUME UNCHANGED attempts
  PROVE  Executed' = Executed /\ \A i \in Executed : RunOf(i)' = RunOf(i)
BY DEF Executed, RunOf

LEMMA FailureIsTraced ==
  ASSUME IInv, TraceInv, pc \in {"model", "database"},
         NEW kind \in {"validation", "execution"}, NEW text \in Written,
         AttemptFails(text, <<kind, text>>), UNCHANGED ran,
         pc = "model" <=> kind = "validation",
         pc = "database" => text = sql
  PROVE  TraceInv'
<1> DEFINE reason == <<kind, text>>
           entry == [sql |-> text, error |-> reason]
<1>0. PICK n \in Nat : n = Len(attempts) + 1
  BY DEF TraceInv, TraceTypes
<1>1. /\ attempts \in Seq(Entry) /\ prompts \in Seq({None} \cup Reason)
      /\ Len(attempts) = attempt /\ Len(prompts) = attempt + 1 /\ n = attempt + 1
      /\ attempt \in Nat /\ attempt < MaxAttempts /\ MaxAttempts \in Nat
      /\ PromptsFollow /\ RunsAreTraced
  BY <1>0, AttemptsArePositive DEF IInv, TraceInv, TraceTypes
<1>2. reason \in Reason /\ entry \in Entry /\ entry.sql = text
      /\ entry.error = reason /\ entry.error[1] = kind
  BY DEF Entry, Reason
<1>3. attempts' = Append(attempts, entry) /\ attempt' = attempt + 1
  BY DEF AttemptFails, Traced
<1>4. \/ /\ pc' = "model" /\ prompts' = Append(prompts, reason) /\ attempt + 1 < MaxAttempts
      \/ /\ pc' = "refused" /\ prompts' = prompts /\ ~(attempt + 1 < MaxAttempts)
  BY DEF AttemptFails, AwaitModel
<1> HIDE DEF reason, entry
<1>5. /\ attempts' \in Seq(Entry) /\ Len(attempts') = n
      /\ \A i \in 1..Len(attempts) : attempts'[i] = attempts[i]
      /\ attempts'[n] = entry
      /\ \A i \in Executed : RunOf(i)' = RunOf(i)
      /\ kind = "validation" => Executed' = Executed
      /\ kind = "execution" =>
           /\ Executed' = Executed \cup {n}
           /\ Cardinality(Executed') = Cardinality(Executed) + 1
           /\ RunOf(n)' = Cardinality(Executed) + 1
  BY <1>0, <1>1, <1>2, <1>3, TracedGrows
<1>6. TraceTypes'
  <2>1. pc' = "model" => prompts' \in Seq({None} \cup Reason) /\ Len(prompts') = attempt' + 1
    <3> SUFFICES ASSUME pc' = "model"
                 PROVE  prompts' \in Seq({None} \cup Reason) /\ Len(prompts') = attempt' + 1
      OBVIOUS
    <3>1. prompts' = Append(prompts, reason) /\ reason \in {None} \cup Reason
      BY <1>2, <1>4
    <3> HIDE DEF Reason
    <3> QED
      BY <1>1, <1>3, <3>1
  <2>2. pc' = "refused" => prompts' = prompts
    BY <1>4
  <2> QED
    BY <1>1, <1>3, <1>4, <1>5, <2>1, <2>2 DEF TraceTypes
<1>7. PromptsFollow'
  <2> SUFFICES ASSUME NEW i \in DOMAIN prompts'
               PROVE  /\ i - 1 \in 0..Len(attempts')
                      /\ prompts'[i] = IF i = 1 THEN None ELSE attempts'[i - 1].error
    BY DEF PromptsFollow
  <2>1. CASE i \in DOMAIN prompts
    <3>1. i \in 1..(attempt + 1) /\ prompts'[i] = prompts[i]
      BY <1>1, <1>2, <1>4, <2>1
    <3>2. prompts[i] = IF i = 1 THEN None ELSE attempts[i - 1].error
      BY <1>1, <2>1 DEF PromptsFollow
    <3> QED
      BY <1>1, <1>5, <3>1, <3>2
  <2>2. CASE i \notin DOMAIN prompts
    <3>1. i = attempt + 2 /\ prompts'[i] = reason
      BY <1>1, <1>2, <1>4, <2>2
    <3> QED
      BY <1>1, <1>2, <1>5, <3>1
  <2> QED
    BY <2>1, <2>2
<1>8. RunsAreTraced'
  <2>0. /\ Cardinality(Executed) \in Nat /\ Executed \subseteq 1..Len(attempts)
        /\ ran \in Seq(Statement) /\ ran' = ran /\ Len(ran) \in Nat
    BY <1>1, ExecutedIsFinite DEF IInv
  <2>1. ASSUME NEW i \in Executed
        PROVE  RunOf(i)' \in DOMAIN ran' /\ ran'[RunOf(i)'] = attempts'[i].sql
    BY <1>1, <1>5, <2>0 DEF RunsAreTraced
  <2>2. CASE kind = "validation"
    <3>1. Len(ran) = Cardinality(Executed)
      BY <1>1, <2>2 DEF RunsAreTraced
    <3> QED
      BY <1>4, <1>5, <2>0, <2>1, <2>2, <3>1 DEF RunsAreTraced
  <2>3. CASE kind = "execution"
    <3>1. pc = "database" /\ text = sql /\ ran[Len(ran)] = sql /\ Len(ran) = Cardinality(Executed) + 1
      BY <1>1, <2>3 DEF IInv, RunsAreTraced
    <3>2. RunOf(n)' = Len(ran) /\ attempts'[n].sql = sql /\ Len(ran') = Cardinality(Executed')
          /\ Executed' = Executed \cup {n}
      BY <1>2, <1>5, <2>0, <2>3, <3>1
    <3>3. RunOf(n)' \in DOMAIN ran' /\ ran'[RunOf(n)'] = attempts'[n].sql
      BY <2>0, <3>1, <3>2
    <3>4. ASSUME NEW i \in Executed'
          PROVE  RunOf(i)' \in DOMAIN ran' /\ ran'[RunOf(i)'] = attempts'[i].sql
      <4>1. CASE i \in Executed
        BY <4>1, <2>1
      <4>2. CASE i = n
        BY <4>2, <3>3
      <4> QED
        BY <3>2, <4>1, <4>2
    <3> QED
      BY <1>4, <3>2, <3>4 DEF RunsAreTraced
  <2> QED
    BY <2>2, <2>3
<1> QED
  BY <1>6, <1>7, <1>8 DEF TraceInv

LEMMA StepIsTraced == IInv /\ TraceInv /\ [Next]_vars => TraceInv'
<1> SUFFICES ASSUME IInv, TraceInv, [Next]_vars PROVE TraceInv'
  OBVIOUS
<1> USE DEF TraceInv
<1>1. CASE Ask
  <2>1. pc = "new" /\ UNCHANGED <<attempt, error, sql, attempts, answer, ran>>
        /\ \/ pc' = "model" /\ prompts' = Append(prompts, error)
           \/ pc' = "blank" /\ prompts' = prompts
    BY <1>1 DEF Ask, AwaitModel
  <2>2. prompts = <<>> /\ error = None /\ attempt = 0 /\ prompts \in Seq({None} \cup Reason)
    BY <2>1 DEF TraceTypes
  <2>3. Executed' = Executed /\ \A i \in Executed : RunOf(i)' = RunOf(i)
    BY <2>1, SameTrace
  <2>4. TraceTypes'
    <3>1. pc' = "model" => prompts' \in Seq({None} \cup Reason) /\ Len(prompts') = 1
      <4> SUFFICES ASSUME prompts' = Append(prompts, None)
                   PROVE  prompts' \in Seq({None} \cup Reason) /\ Len(prompts') = 1
        BY <2>1, <2>2
      <4> QED
        BY <2>2
    <3>2. prompts' \in Seq({None} \cup Reason) /\ (pc' = "model" => Len(prompts') = 1)
      BY <2>1, <2>2, <3>1
    <3> QED
      BY <2>1, <2>2, <3>2 DEF TraceTypes
  <2>5. PromptsFollow'
    <3>1. DOMAIN prompts' \subseteq {1} /\ \A i \in DOMAIN prompts' : prompts'[i] = None
      BY <2>1, <2>2
    <3>2. Len(attempts') = 0
      BY <2>1, <2>2 DEF TraceTypes
    <3> QED
      BY <3>1, <3>2 DEF PromptsFollow
  <2>6. RunsAreTraced'
    BY <2>1, <2>3 DEF RunsAreTraced
  <2> QED
    BY <2>4, <2>5, <2>6
<1>2. CASE ModelFails
  <2>1. pc = "model" /\ pc' = "failed"
        /\ UNCHANGED <<attempt, error, sql, attempts, answer, prompts, ran>>
    BY <1>2 DEF ModelFails
  <2>2. Executed' = Executed /\ \A i \in Executed : RunOf(i)' = RunOf(i)
    BY <2>1, SameTrace
  <2> QED
    BY <2>1, <2>2 DEF TraceTypes, PromptsFollow, RunsAreTraced
<1>3. CASE ModelAnswers
  <2>1. PICK text \in Text :
          IF Accepts(text)
            THEN /\ pc' = "database"
                 /\ sql' = Prepared(text)
                 /\ ran' = Append(ran, Prepared(text))
                 /\ UNCHANGED <<attempt, error, attempts, answer, prompts>>
            ELSE /\ AttemptFails(text, <<"validation", text>>)
                 /\ sql' = text
                 /\ UNCHANGED ran
    BY <1>3 DEF ModelAnswers
  <2>2. pc = "model"
    BY <1>3 DEF ModelAnswers
  <2>3. CASE Accepts(text)
    <3> DEFINE s == Prepared(text)
    <3>1. s \in Statement
      BY <2>3, AcceptedIsSafe
    <3>2. ran' = Append(ran, s) /\ pc' = "database"
          /\ UNCHANGED <<attempt, error, attempts, answer, prompts>>
      BY <2>1, <2>3
    <3> HIDE DEF s
    <3>3. Executed' = Executed /\ \A i \in Executed : RunOf(i)' = RunOf(i)
      BY <3>2, SameTrace
    <3>4. /\ ran \in Seq(Statement) /\ Len(ran) \in Nat /\ Len(ran') = Len(ran) + 1
          /\ DOMAIN ran = 1..Len(ran) /\ DOMAIN ran' = 1..(Len(ran) + 1)
          /\ \A k \in DOMAIN ran : ran'[k] = ran[k]
      BY <3>1, <3>2 DEF IInv
    <3>5. RunsAreTraced'
      <4>1. ASSUME NEW i \in Executed
            PROVE  RunOf(i)' \in DOMAIN ran' /\ ran'[RunOf(i)'] = attempts'[i].sql
        <5>1. RunOf(i) \in DOMAIN ran /\ ran[RunOf(i)] = attempts[i].sql /\ RunOf(i)' = RunOf(i)
          BY <3>3 DEF RunsAreTraced
        <5> QED
          BY <3>2, <3>4, <5>1
      <4>2. Len(ran') = Cardinality(Executed') + 1
        BY <2>2, <3>3, <3>4 DEF RunsAreTraced
      <4> QED
        BY <3>2, <3>3, <4>1, <4>2 DEF RunsAreTraced
    <3>6. TraceTypes' /\ PromptsFollow'
      BY <2>2, <3>2 DEF TraceTypes, PromptsFollow
    <3> QED
      BY <3>5, <3>6
  <2>4. CASE ~Accepts(text)
    <3>1. AttemptFails(text, <<"validation", text>>) /\ UNCHANGED ran /\ text \in Written
      BY <2>1, <2>4 DEF Written
    <3> QED
      BY <2>2, <3>1, FailureIsTraced
  <2> QED
    BY <2>3, <2>4
<1>4. CASE ExecutionFails
  <2>1. pc = "database" /\ AttemptFails(sql, <<"execution", sql>>) /\ UNCHANGED ran
    BY <1>4 DEF ExecutionFails
  <2>2. sql \in Written
    BY <2>1 DEF IInv, Written
  <2> QED
    BY <2>1, <2>2, FailureIsTraced
<1>5. CASE DatabaseAnswers
  <2>1. PICK rows \in Bound : answer' = [sql |-> sql, repaired |-> attempt > 0, rows |-> rows]
    BY <1>5 DEF DatabaseAnswers
  <2>2. pc = "database" /\ pc' = "answered" /\ UNCHANGED <<attempt, error, sql, attempts, prompts, ran>>
    BY <1>5 DEF DatabaseAnswers
  <2>3. answer'.sql = ran[Len(ran)] /\ (answer'.repaired <=> attempt > 0)
    BY <2>1, <2>2 DEF IInv
  <2>4. Executed' = Executed /\ \A i \in Executed : RunOf(i)' = RunOf(i)
    BY <2>2, SameTrace
  <2>5. TraceTypes'
    BY <2>2, <2>3 DEF TraceTypes
  <2> QED
    BY <2>2, <2>4, <2>5 DEF PromptsFollow, RunsAreTraced
<1>6. CASE UNCHANGED vars
  <2>1. Executed' = Executed /\ \A i \in Executed : RunOf(i)' = RunOf(i)
    BY <1>6, SameTrace DEF vars
  <2> QED
    BY <1>6, <2>1 DEF vars, TraceTypes, PromptsFollow, RunsAreTraced
<1> QED
  BY <1>1, <1>2, <1>3, <1>4, <1>5, <1>6 DEF Next, ModelReturns, DatabaseFails, TimesOut

LEMMA TracedIsComplete == IInv /\ TraceInv => TraceIsComplete
<1> SUFFICES ASSUME IInv, TraceInv PROVE TraceIsComplete
  OBVIOUS
<1>1. attempts \in Seq(Entry) /\ Len(attempts) = attempt
  BY DEF TraceInv, TraceTypes
<1>2. attempt > 0 <=> attempts # <<>>
  BY <1>1
<1> QED
  BY <1>1, <1>2 DEF TraceInv, TraceTypes, PromptsFollow, RunsAreTraced, TraceIsComplete

(* Whatever fails, in the guard or in the database, the trace of the       *)
(* attempts, what the model is asked to repair and the statements that     *)
(* ran tell one story (text_to_sql.py:25-52).                              *)
THEOREM TraceStaysComplete == Spec => []TraceIsComplete
<1>1. Init => IInv /\ TraceInv
  BY InitInvariant, InitTraced
<1>2. IInv /\ TraceInv /\ [Next]_vars => (IInv /\ TraceInv)'
  BY StepKeepsInvariant, StepIsTraced
<1>3. IInv /\ TraceInv => TraceIsComplete
  BY TracedIsComplete
<1> QED
  BY <1>1, <1>2, <1>3, PTL DEF Spec
=============================================================================
