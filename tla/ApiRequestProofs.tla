-------------------------- MODULE ApiRequestProofs --------------------------
(***************************************************************************)
(* Proofs about the rate limiting of ApiRequest: no more than the limit    *)
(* pass a window, nobody is refused before the limit is reached, and       *)
(* Retry-After leads into a later window - for any number of requests and  *)
(* callers, any limits and any length of a minute.                         *)
(***************************************************************************)
EXTENDS ApiRequest, FiniteSetTheorems, TLAPS

USE SizesArePositive, LimitsAreNatural DEF SizesArePositive, LimitsAreNatural

-----------------------------------------------------------------------------
(* Windows *)

LEMMA WindowContains ==
  ASSUME NEW t \in Nat
  PROVE  /\ t \div Minute \in Nat
         /\ (t \div Minute) * Minute <= t
         /\ t < (t \div Minute + 1) * Minute
<1>1. /\ t = Minute * (t \div Minute) + (t % Minute)
      /\ t % Minute \in 0..(Minute - 1)
      /\ t \div Minute \in Int
  OBVIOUS
<1>2. t \div Minute \in Nat
  BY Z3
<1> QED BY <1>1, <1>2, Z3

LEMMA WindowsInOrder ==
  ASSUME NEW v \in Nat, NEW w \in Nat, v <= w
  PROVE  /\ v * Minute \in Nat
         /\ v * Minute <= w * Minute
         /\ (w + 1) * Minute = w * Minute + Minute
BY Z3

LEMMA NotBefore ==
  ASSUME NEW t \in Nat, NEW w \in Nat, w * Minute <= t
  PROVE  w <= t \div Minute
<1> SUFFICES ASSUME ~(w <= t \div Minute) PROVE FALSE
  OBVIOUS
<1>1. t \div Minute + 1 <= w
  BY WindowContains
<1>2. (t \div Minute + 1) * Minute <= w * Minute
  BY <1>1, WindowContains, WindowsInOrder
<1> QED BY <1>2, WindowContains, WindowsInOrder, Z3

LEMMA ClockIsInWindow ==
  ASSUME NEW t \in 0..LastTick PROVE t \div Minute \in Window
<1>1. (t \div Minute) * Minute <= LastTick
  BY WindowContains
<1>2. t \div Minute <= LastTick \div Minute
  BY <1>1, WindowContains, NotBefore
<1> QED BY <1>2, WindowContains DEF Window

WindowEnd(w) == (w + 1) * Minute

LEMMA WindowEnds ==
  ASSUME NEW t \in Nat, NEW w \in Window
  PROVE  /\ w \in Nat /\ WindowEnd(w) \in Nat
         /\ WindowEnd(w) = w * Minute + Minute
         /\ t < WindowEnd(w) <=> t \div Minute <= w
<1>1. w \in Nat /\ w + 1 \in Nat
  BY DEF Window
<1>2. WindowEnd(w) \in Nat /\ WindowEnd(w) = w * Minute + Minute
  BY <1>1, WindowsInOrder DEF WindowEnd
<1>3. ASSUME t < WindowEnd(w) PROVE t \div Minute <= w
  <2> SUFFICES ASSUME w + 1 <= t \div Minute PROVE FALSE
    BY <1>1, WindowContains
  <2>1. (w + 1) * Minute <= (t \div Minute) * Minute
    BY <1>1, WindowContains, WindowsInOrder
  <2> QED BY <1>1, <1>2, <1>3, <2>1, WindowContains, WindowsInOrder DEF WindowEnd
<1>4. ASSUME t \div Minute <= w PROVE t < WindowEnd(w)
  <2>1. (t \div Minute) * Minute <= w * Minute
    BY <1>1, <1>4, WindowContains, WindowsInOrder
  <2>2. (t \div Minute + 1) * Minute = (t \div Minute) * Minute + Minute
    BY WindowContains, WindowsInOrder
  <2> QED BY <1>1, <1>2, <2>1, <2>2, WindowContains, WindowsInOrder
<1> QED BY <1>1, <1>2, <1>3, <1>4

LEMMA NeverIsLate ==
  ASSUME NEW w \in Window PROVE Never \in Nat /\ WindowEnd(w) < Never
<1>1. w \in Nat /\ LastTick \div Minute \in Nat /\ w <= LastTick \div Minute
  BY WindowContains DEF Window
<1>2. w * Minute <= LastTick
  BY <1>1, WindowsInOrder, WindowContains
<1> QED BY <1>1, <1>2, WindowEnds DEF Never
-----------------------------------------------------------------------------
(* Domains, and what holds of a request before it is counted *)

Label == {"new", "auth", "incr", "expire", "refusing", "refused", "read",
          "ask", "insights", "reading", "ended"}
Handler == {"read", "ask", "insights"}

Types ==
  /\ now \in 0..LastTick
  /\ counter \in [Caller \X Window -> Nat]
  /\ expiry \in [Caller \X Window -> Nat]
  /\ pc \in [Request -> Label]
  /\ caller \in [Request -> Caller \cup {Somebody}]
  /\ kind \in [Request -> Handler]
  /\ window \in [Request -> Window]
  /\ count \in [Request -> Nat]
  /\ onTime \in [Request -> BOOLEAN]
  /\ retryAt \in [Request -> Nat]

Known == \A r \in Request : pc[r] # "new" => caller[r] \in Caller
Uncounted == \A r \in Request : pc[r] \in {"new", "auth", "incr"} => count[r] = 0
WindowBegun == \A r \in Request : window[r] <= now \div Minute

BaseInv == Types /\ Known /\ Uncounted /\ WindowBegun

(* The steps as the counters see them: a request gets its caller, and its  *)
(* window if it is then known; or it goes on without being counted.        *)
Names(r) ==
  /\ pc[r] \in {"new", "auth"}
  /\ \E l \in {"auth", "incr"} : pc' = [pc EXCEPT ![r] = l]
  /\ \E c \in Caller : caller' = [caller EXCEPT ![r] = c]
  /\ \E k \in Handler : kind' = [kind EXCEPT ![r] = k]
  /\ window' = window \/ window' = [window EXCEPT ![r] = now \div Minute]
  /\ UNCHANGED <<now, redisVars, count, onTime, retryAt>>

Moves(r) ==
  /\ pc[r] # "new"
  /\ \E l \in {"reading", "ask", "ended"} : pc' = [pc EXCEPT ![r] = l]
  /\ \E k \in Handler : kind' = [kind EXCEPT ![r] = k]
  /\ UNCHANGED <<now, redisVars, caller, quotaVars>>

LEMMA EveryStep ==
  ASSUME BaseInv, NEW r \in Request, Step(r) \/ ModelAnswers(r) \/ Dies(r)
  PROVE  Names(r) \/ Incr(r) \/ Expire(r) \/ Refuse(r) \/ Moves(r)
<1>1. ASSUME Begin(r) PROVE Names(r)
  <2>1. pc[r] = "new" /\ \E k \in Handler : kind' = [kind EXCEPT ![r] = k]
    BY <1>1, KindsAreHandlers DEF Begin, KindsAreHandlers, Handler
  <2>2. PICK c \in Caller :
          /\ caller' = [caller EXCEPT ![r] = c]
          /\ IF c \in Keyed
               THEN Goto(r, "auth") /\ UNCHANGED <<now, redisVars, quotaVars>>
               ELSE ReadClock(r)
    BY <1>1 DEF Begin
  <2> QED BY <2>1, <2>2 DEF Names, Goto, ReadClock, quotaVars
<1>2. ASSUME FindKey(r) PROVE Names(r)
  <2>1. caller[r] \in Caller /\ caller' = [caller EXCEPT ![r] = caller[r]]
    BY <1>2 DEF FindKey, BaseInv, Types, Known
  <2>2. kind[r] \in Handler /\ kind' = [kind EXCEPT ![r] = kind[r]]
    BY <1>2 DEF FindKey, BaseInv, Types
  <2>3. pc[r] = "auth" /\ pc' = [pc EXCEPT ![r] = "incr"]
        /\ window' = [window EXCEPT ![r] = now \div Minute]
        /\ UNCHANGED <<now, redisVars, count, onTime, retryAt>>
    BY <1>2 DEF FindKey, ReadClock, Goto
  <2> QED BY <2>1, <2>2, <2>3 DEF Names
<1>3. ASSUME TakeConnection(r) PROVE Moves(r)
  <2>1. kind[r] \in Handler /\ kind' = [kind EXCEPT ![r] = kind[r]]
    BY <1>3 DEF TakeConnection, BaseInv, Types
  <2> QED BY <1>3, <2>1 DEF TakeConnection, Goto, Moves
<1>4. ASSUME pc[r] # "new", End(r) PROVE Moves(r)
  BY <1>4 DEF End, Goto, Moves, Handler
<1> QED
  BY <1>1, <1>2, <1>3, <1>4
     DEF Step, Respond, PoolTimesOut, GivesUp, ModelAnswers, Dies, Running

LEMMA InitBase == Init => BaseInv
<1> SUFFICES ASSUME Init PROVE BaseInv
  OBVIOUS
<1>1. 0 \in Window /\ 0 \div Minute \in Nat /\ Never \in Nat
  <2>1. LastTick \div Minute \in Nat /\ 0 \div Minute \in Nat
    BY WindowContains
  <2> QED BY <2>1, NeverIsLate DEF Window
<1>2. Known /\ Uncounted /\ WindowBegun
  BY <1>1 DEF Init, Known, Uncounted, WindowBegun
<1>3. now \in 0..LastTick /\ counter \in [Caller \X Window -> Nat]
      /\ expiry \in [Caller \X Window -> Nat]
  BY <1>1 DEF Init
<1>4. /\ pc \in [Request -> Label] /\ kind \in [Request -> Handler]
      /\ caller \in [Request -> Caller \cup {Somebody}]
      /\ window \in [Request -> Window] /\ count \in [Request -> Nat]
      /\ retryAt \in [Request -> Nat]
  BY <1>1 DEF Init, Label, Handler
<1>5. onTime \in [Request -> BOOLEAN]
  BY DEF Init
<1> QED BY <1>2, <1>3, <1>4, <1>5 DEF BaseInv, Types

LEMMA KeyOf ==
  ASSUME BaseInv, NEW r \in Request, pc[r] # "new"
  PROVE  /\ Key(r) \in Caller \X Window
         /\ counter[Key(r)] \in Nat
         /\ caller[r] \in Caller /\ Limit[caller[r]] \in Nat
BY DEF BaseInv, Types, Known, Key

LEMMA DecidedIsLabel ==
  ASSUME BaseInv, NEW r \in Request, NEW n \in Nat
  PROVE  /\ Decided(r, n) \in Label \ {"new", "auth", "incr"}
         /\ Decided(r, n) # "refused"
         /\ Decided(r, n) = "refusing" => ~WithinLimit(r, n)
BY DEF BaseInv, Types, Decided, Handler, Label

LEMMA TickBase ==
  ASSUME BaseInv, Tick PROVE BaseInv'
<1>1. now \in Nat /\ now' = now + 1 /\ now' \in 0..LastTick
  BY DEF BaseInv, Types, Tick
<1>2. now \div Minute <= now' \div Minute
  BY <1>1, WindowContains, NotBefore
<1>3. counter' \in [Caller \X Window -> Nat]
  BY DEF BaseInv, Types, Tick
<1>4. expiry' \in [Caller \X Window -> Nat]
  BY DEF BaseInv, Types, Tick, Never
<1>5. WindowBegun'
  <2> SUFFICES ASSUME NEW r \in Request PROVE window[r] <= now' \div Minute
    BY DEF WindowBegun, Tick, quotaVars
  <2>1. window[r] \in Nat /\ window[r] <= now \div Minute
    BY DEF BaseInv, Types, WindowBegun, Window
  <2> QED BY <1>1, <1>2, <2>1, WindowContains
<1> QED
  BY <1>1, <1>3, <1>4, <1>5 DEF BaseInv, Types, Tick, Known, Uncounted, quotaVars

LEMMA StepBase ==
  ASSUME BaseInv, NEW r \in Request,
         Names(r) \/ Incr(r) \/ Expire(r) \/ Refuse(r) \/ Moves(r)
  PROVE  BaseInv'
<1>1. now \div Minute \in Window /\ now \div Minute \in Nat /\ now \in Nat
  <2>1. now \in 0..LastTick /\ now \in Nat
    BY DEF BaseInv, Types
  <2> QED BY <2>1, ClockIsInWindow, WindowContains
<1>2. CASE Names(r)
  <2>1. PICK l \in {"auth", "incr"} : pc' = [pc EXCEPT ![r] = l]
    BY <1>2 DEF Names
  <2>2. PICK c \in Caller : caller' = [caller EXCEPT ![r] = c]
    BY <1>2 DEF Names
  <2>3. PICK k \in Handler : kind' = [kind EXCEPT ![r] = k]
    BY <1>2 DEF Names
  <2>4. Types'
    <3>1. window' \in [Request -> Window]
      BY <1>1, <1>2 DEF Names, BaseInv, Types
    <3>2. pc' \in [Request -> Label] /\ kind' \in [Request -> Handler]
          /\ caller' \in [Request -> Caller \cup {Somebody}]
      BY <2>1, <2>2, <2>3 DEF BaseInv, Types, Label
    <3>3. UNCHANGED <<now, counter, expiry, count, onTime, retryAt>>
      BY <1>2 DEF Names, redisVars
    <3> QED BY <3>1, <3>2, <3>3 DEF BaseInv, Types
  <2>5. WindowBegun'
    BY <1>1, <1>2 DEF Names, BaseInv, Types, WindowBegun
  <2>6. Known' /\ Uncounted'
    BY <1>2, <2>1, <2>2 DEF Names, BaseInv, Types, Known, Uncounted
  <2> QED BY <2>4, <2>5, <2>6 DEF BaseInv
<1>3. CASE Incr(r)
  <2> DEFINE n == counter[Key(r)] + 1
  <2>1. pc[r] = "incr" /\ n \in Nat /\ Decided(r, n) \in Label \ {"new", "auth", "incr"}
    BY <1>3, KeyOf, DecidedIsLabel DEF Incr
  <2> HIDE DEF n
  <2>2. /\ \E l \in Label \ {"new", "auth", "incr"} : pc' = [pc EXCEPT ![r] = l]
        /\ counter' = [counter EXCEPT ![Key(r)] = n]
        /\ count' = [count EXCEPT ![r] = n]
        /\ onTime' = [onTime EXCEPT ![r] = (now \div Minute = window[r])]
        /\ UNCHANGED <<now, expiry, caller, kind, window, retryAt>>
    BY <1>3, <2>1 DEF Incr, Goto, Label, n
  <2>3. PICK l \in Label \ {"new", "auth", "incr"} : pc' = [pc EXCEPT ![r] = l]
    BY <2>2
  <2>4. onTime' \in [Request -> BOOLEAN]
    BY <2>2, Zenon DEF BaseInv, Types
  <2>5. Types'
    BY <2>1, <2>2, <2>3, <2>4, KeyOf DEF BaseInv, Types
  <2> QED
    BY <2>1, <2>2, <2>3, <2>5 DEF BaseInv, Types, Known, Uncounted, WindowBegun
<1>4. CASE Expire(r)
  <2>1. Decided(r, count[r]) \in Label \ {"new", "auth", "incr"}
    BY DecidedIsLabel DEF BaseInv, Types
  <2>2. now + TimeToLive(r) \in Nat
    BY <1>1 DEF TimeToLive
  <2> QED
    BY <1>4, <2>1, <2>2 DEF Expire, Goto, quotaVars,
       BaseInv, Types, Known, Uncounted, WindowBegun
<1>5. CASE Refuse(r)
  <2>1. \E t \in Nat : retryAt' = [retryAt EXCEPT ![r] = t]
    <3>1. window[r] \in Window /\ ResetAt(r) = WindowEnd(window[r]) /\ ResetAt(r) \in Nat
      BY <1>1, WindowEnds DEF BaseInv, Types, ResetAt, WindowEnd
    <3> DEFINE t == IF ResetAt(r) - now > 0 THEN now + (ResetAt(r) - now) ELSE now
    <3>2. t \in Nat
      BY <1>1, <3>1
    <3>3. retryAt' = [retryAt EXCEPT ![r] = t]
      BY <1>5 DEF Refuse
    <3> QED BY <3>2, <3>3
  <2>2. pc' = [pc EXCEPT ![r] = "refused"] /\ kind' = [kind EXCEPT ![r] = "read"]
        /\ pc[r] = "refusing" /\ UNCHANGED <<now, redisVars, caller, window, count, onTime>>
    BY <1>5 DEF Refuse, Goto
  <2> QED
    BY <2>1, <2>2 DEF BaseInv, Types, Known, Uncounted, WindowBegun,
                      redisVars, Label, Handler
<1>6. CASE Moves(r)
  <2>1. PICK l \in {"reading", "ask", "ended"} : pc' = [pc EXCEPT ![r] = l]
    BY <1>6 DEF Moves
  <2>2. PICK k \in Handler : kind' = [kind EXCEPT ![r] = k]
    BY <1>6 DEF Moves
  <2>3. pc[r] # "new" /\ UNCHANGED <<now, counter, expiry, caller, quotaVars>>
    BY <1>6 DEF Moves, redisVars
  <2> QED
    BY <2>1, <2>2, <2>3 DEF BaseInv, Types, Known, Uncounted, WindowBegun,
                            quotaVars, Label
<1> QED BY <1>2, <1>3, <1>4, <1>5, <1>6

LEMMA NextBase ==
  ASSUME BaseInv, [Next]_vars PROVE BaseInv'
<1>1. CASE Tick BY <1>1, TickBase
<1>2. ASSUME NEW r \in Request, Step(r) \/ ModelAnswers(r) \/ Dies(r) PROVE BaseInv'
  BY <1>2, EveryStep, StepBase
<1>3. CASE UNCHANGED vars
  BY <1>3 DEF vars, redisVars, quotaVars,
              BaseInv, Types, Known, Uncounted, WindowBegun
<1> QED BY <1>1, <1>2, <1>3 DEF Next
-----------------------------------------------------------------------------
(* Retry-After *)

LEMMA RefuseLandsLater ==
  ASSUME BaseInv, NEW r \in Request, Refuse(r)
  PROVE  /\ retryAt'[r] \in Nat /\ retryAt'[r] \div Minute > window[r]
         /\ retryAt'[r] <= now \/ retryAt'[r] = (window[r] + 1) * Minute
<1>1. now \in Nat /\ window[r] \in Window /\ window[r] \in Nat
  BY DEF BaseInv, Types, Window
<1>2. ResetAt(r) = WindowEnd(window[r]) /\ WindowEnd(window[r]) \in Nat
  BY <1>1, WindowEnds DEF ResetAt, WindowEnd
<1>3. retryAt'[r] = IF ResetAt(r) - now > 0 THEN now + (ResetAt(r) - now) ELSE now
  BY DEF Refuse, BaseInv, Types
<1>4. retryAt'[r] \in Nat /\ ~(retryAt'[r] < WindowEnd(window[r]))
      /\ (retryAt'[r] <= now \/ retryAt'[r] = WindowEnd(window[r]))
  BY <1>1, <1>2, <1>3
<1>5. ~(retryAt'[r] \div Minute <= window[r])
  BY <1>1, <1>4, WindowEnds
<1>6. retryAt'[r] \div Minute \in Nat
  BY <1>4, WindowContains
<1>7. retryAt'[r] \div Minute > window[r]
  BY <1>1, <1>5, <1>6
<1> QED BY <1>4, <1>7 DEF WindowEnd

LEMMA NextRetry ==
  ASSUME BaseInv, RetryLandsLater, [Next]_vars PROVE RetryLandsLater'
<1> SUFFICES ASSUME NEW q \in Request, pc'[q] = "refused"
             PROVE  /\ retryAt'[q] \div Minute > window'[q]
                    /\ retryAt'[q] <= now' \/ retryAt'[q] = (window'[q] + 1) * Minute
  BY DEF RetryLandsLater
<1>1. ASSUME pc[q] = "refused", retryAt'[q] = retryAt[q], window'[q] = window[q],
             now' = now \/ now' = now + 1
      PROVE  /\ retryAt'[q] \div Minute > window'[q]
             /\ retryAt'[q] <= now' \/ retryAt'[q] = (window'[q] + 1) * Minute
  <2>1. retryAt[q] \in Nat /\ now \in Nat
    BY DEF BaseInv, Types
  <2> QED BY <1>1, <2>1 DEF RetryLandsLater
<1>2. CASE Tick
  BY <1>1, <1>2 DEF Tick, quotaVars
<1>3. CASE UNCHANGED vars
  BY <1>1, <1>3 DEF vars, quotaVars
<1>4. ASSUME NEW r \in Request, Names(r) \/ Incr(r) \/ Expire(r) \/ Moves(r)
      PROVE  pc[q] = "refused" /\ retryAt'[q] = retryAt[q] /\ window'[q] = window[q]
             /\ now' = now
  <2>1. CASE Names(r)
    BY <2>1 DEF Names, BaseInv, Types
  <2>2. CASE Incr(r)
    <3>1. Decided(r, counter[Key(r)] + 1) # "refused"
      BY <2>2, KeyOf, DecidedIsLabel DEF Incr
    <3> QED BY <2>2, <3>1 DEF Incr, Goto, BaseInv, Types
  <2>3. CASE Expire(r)
    <3>1. Decided(r, count[r]) # "refused"
      BY DecidedIsLabel DEF BaseInv, Types
    <3> QED BY <2>3, <3>1 DEF Expire, Goto, BaseInv, Types, quotaVars
  <2>4. CASE Moves(r)
    BY <2>4 DEF Moves, BaseInv, Types, quotaVars
  <2> QED BY <1>4, <2>1, <2>2, <2>3, <2>4
<1>5. ASSUME NEW r \in Request, Refuse(r)
      PROVE  /\ retryAt'[q] \div Minute > window'[q]
             /\ retryAt'[q] <= now' \/ retryAt'[q] = (window'[q] + 1) * Minute
  <2>1. CASE q = r
    BY <1>5, <2>1, RefuseLandsLater DEF Refuse
  <2>2. CASE q # r
    BY <1>1, <1>5, <2>2 DEF Refuse, Goto, BaseInv, Types
  <2> QED BY <2>1, <2>2
<1>6. ASSUME NEW r \in Request, Step(r) \/ ModelAnswers(r) \/ Dies(r)
      PROVE  /\ retryAt'[q] \div Minute > window'[q]
             /\ retryAt'[q] <= now' \/ retryAt'[q] = (window'[q] + 1) * Minute
  BY <1>1, <1>4, <1>5, <1>6, EveryStep
<1> QED BY <1>2, <1>3, <1>6 DEF Next

(* A client that waits as Retry-After says is counted in a later window,   *)
(* and need not wait beyond its beginning, whenever it was refused.        *)
THEOREM RetryAfterLandsLater == Spec => []RetryLandsLater
<1>1. Init => RetryLandsLater
  BY DEF Init, RetryLandsLater
<1> QED BY InitBase, NextBase, <1>1, NextRetry, PTL DEF Spec

-----------------------------------------------------------------------------
(* No more than the limit pass a window: while it is on, its key does not  *)
(* expire, so the requests counted in it have numbers of their own.        *)

ExpiresLate == \A c \in Caller, w \in Window : expiry[<<c, w>>] >= WindowEnd(w)

OnTimeCounted == \A r \in Request : onTime[r] => count[r] > 0

OnTimeNumbered ==
  \A r \in Request :
    onTime[r] /\ now \div Minute = window[r] => count[r] <= counter[Key(r)]

OnTimeDistinct ==
  \A r, q \in Request :
    r # q /\ onTime[r] /\ onTime[q] /\ Key(r) = Key(q) => count[r] # count[q]

QuotaInv == ExpiresLate /\ OnTimeCounted /\ OnTimeNumbered /\ OnTimeDistinct

LEMMA InitQuota == Init => QuotaInv
<1> SUFFICES ASSUME Init PROVE QuotaInv
  OBVIOUS
<1>1. ExpiresLate
  BY NeverIsLate, WindowEnds DEF Init, ExpiresLate
<1>2. \A r \in Request : ~onTime[r]
  BY DEF Init
<1> QED
  BY <1>1, <1>2 DEF QuotaInv, OnTimeCounted, OnTimeNumbered, OnTimeDistinct

LEMMA TickQuota ==
  ASSUME BaseInv, QuotaInv, Tick PROVE QuotaInv'
<1>1. now \in Nat /\ now' = now + 1 /\ now' \in Nat
      /\ UNCHANGED <<pc, caller, window, count, onTime>>
  BY DEF BaseInv, Types, Tick, quotaVars
<1>2. ExpiresLate'
  <2> SUFFICES ASSUME NEW c \in Caller, NEW w \in Window
               PROVE  expiry'[<<c, w>>] >= WindowEnd(w)
    BY DEF ExpiresLate
  <2>1. <<c, w>> \in Caller \X Window
    OBVIOUS
  <2>2. expiry'[<<c, w>>] = Never \/ expiry'[<<c, w>>] = expiry[<<c, w>>]
    BY <2>1 DEF BaseInv, Types, Tick
  <2> QED BY <2>2, NeverIsLate, WindowEnds DEF QuotaInv, ExpiresLate
<1>3. OnTimeNumbered'
  <2> SUFFICES ASSUME NEW r \in Request, onTime[r], now' \div Minute = window[r]
               PROVE  count[r] <= counter'[Key(r)]
    BY <1>1 DEF OnTimeNumbered, Key
  <2>1. count[r] > 0 /\ pc[r] # "new" /\ window[r] \in Window /\ window[r] \in Nat
    BY DEF QuotaInv, OnTimeCounted, BaseInv, Types, Uncounted, Window
  <2>2. Key(r) \in Caller \X Window /\ caller[r] \in Caller
    BY <2>1, KeyOf
  <2>3. now \div Minute = window[r]
    <3>1. now \div Minute \in Nat /\ now' \div Minute \in Nat
          /\ now \div Minute <= now' \div Minute
      BY <1>1, WindowContains, NotBefore
    <3> QED BY <2>1, <3>1 DEF BaseInv, WindowBegun
  <2>4. expiry[Key(r)] >= WindowEnd(window[r])
    BY <2>1, <2>2 DEF QuotaInv, ExpiresLate, Key
  <2>5. now + 1 < WindowEnd(window[r]) /\ WindowEnd(window[r]) \in Nat
    BY <1>1, <2>1, WindowEnds
  <2>6. expiry[Key(r)] \in Nat
    BY <2>2 DEF BaseInv, Types
  <2>7. expiry[Key(r)] # now + 1
    BY <1>1, <2>4, <2>5, <2>6
  <2>8. counter'[Key(r)] = counter[Key(r)]
    BY <2>2, <2>7 DEF BaseInv, Types, Tick
  <2> QED BY <2>3, <2>8 DEF QuotaInv, OnTimeNumbered
<1>4. OnTimeCounted' /\ OnTimeDistinct'
  BY <1>1 DEF QuotaInv, OnTimeCounted, OnTimeDistinct, Key
<1> QED BY <1>2, <1>3, <1>4 DEF QuotaInv

(* Steps that count nothing.                                               *)
LEMMA MoveQuota ==
  ASSUME BaseInv, QuotaInv, NEW r \in Request, Names(r) \/ Refuse(r) \/ Moves(r)
  PROVE  QuotaInv'
<1>1. UNCHANGED <<now, counter, expiry, count, onTime>>
  BY DEF Names, Refuse, Moves, redisVars, quotaVars
<1>2. ASSUME NEW q \in Request, onTime[q] PROVE Key(q)' = Key(q) /\ window'[q] = window[q]
  <2>1. count[q] > 0 /\ pc[q] \notin {"new", "auth"}
    BY <1>2 DEF QuotaInv, OnTimeCounted, BaseInv, Types, Uncounted
  <2> QED
    BY <2>1 DEF Names, Refuse, Moves, quotaVars, Key, BaseInv, Types
<1> QED
  BY <1>1, <1>2 DEF QuotaInv, ExpiresLate, OnTimeCounted, OnTimeNumbered, OnTimeDistinct

LEMMA IncrQuota ==
  ASSUME BaseInv, QuotaInv, NEW r \in Request, Incr(r) PROVE QuotaInv'
<1> DEFINE n == counter[Key(r)] + 1
<1>1. Key(r) \in Caller \X Window /\ counter[Key(r)] \in Nat /\ pc[r] = "incr"
  BY KeyOf DEF Incr
<1>2. /\ counter' = [counter EXCEPT ![Key(r)] = n]
      /\ count' = [count EXCEPT ![r] = n]
      /\ UNCHANGED <<now, expiry, caller, window>>
      /\ onTime' = [onTime EXCEPT ![r] = (now \div Minute = window[r])]
  BY DEF Incr
<1>3. /\ count'[r] = n /\ counter'[Key(r)] = n /\ n \in Nat /\ n > counter[Key(r)]
      /\ \A q \in Request : q # r => count'[q] = count[q]
      /\ \A k \in Caller \X Window : k # Key(r) => counter'[k] = counter[k]
  BY <1>1, <1>2 DEF BaseInv, Types
<1>4. /\ onTime'[r] => now \div Minute = window[r]
      /\ \A q \in Request : q # r /\ onTime'[q] => onTime[q]
  BY <1>2, Zenon DEF BaseInv, Types
<1> HIDE DEF n
<1>5. \A q \in Request : Key(q)' = Key(q)
  BY <1>2 DEF Key
<1>6. ASSUME NEW q \in Request, q # r, onTime'[q]
      PROVE  count[q] > 0 /\ Key(q) \in Caller \X Window
             /\ counter[Key(q)] \in Nat /\ count[q] \in Nat
  <2>1. count[q] > 0 /\ pc[q] # "new" /\ count[q] \in Nat
    BY <1>4, <1>6 DEF QuotaInv, OnTimeCounted, BaseInv, Types, Uncounted
  <2> QED BY <2>1, KeyOf
<1>7. OnTimeCounted'
  BY <1>1, <1>3, <1>6 DEF OnTimeCounted
<1>8. OnTimeNumbered'
  <2> SUFFICES ASSUME NEW q \in Request, onTime'[q], now \div Minute = window[q]
               PROVE  count'[q] <= counter'[Key(q)]
    BY <1>2, <1>5 DEF OnTimeNumbered
  <2>1. CASE q = r
    BY <1>3, <2>1
  <2>2. CASE q # r
    <3>1. count[q] <= counter[Key(q)]
      BY <1>4, <2>2 DEF QuotaInv, OnTimeNumbered
    <3> QED BY <1>1, <1>3, <1>6, <2>2, <3>1
  <2> QED BY <2>1, <2>2
<1>9. OnTimeDistinct'
  <2>1. ASSUME NEW q \in Request, q # r, onTime'[q], onTime'[r], Key(q) = Key(r)
        PROVE  count'[q] # count'[r]
    <3>1. now \div Minute = window[q]
      BY <1>4, <2>1 DEF Key
    <3>2. count[q] <= counter[Key(r)]
      BY <1>4, <2>1, <3>1 DEF QuotaInv, OnTimeNumbered
    <3> QED BY <1>1, <1>3, <1>6, <2>1, <3>2
  <2> SUFFICES ASSUME NEW p \in Request, NEW q \in Request,
                      p # q, onTime'[p], onTime'[q], Key(p) = Key(q)
               PROVE  count'[p] # count'[q]
    BY <1>5 DEF OnTimeDistinct
  <2>2. CASE p = r \/ q = r
    BY <2>1, <2>2
  <2>3. CASE p # r /\ q # r
    BY <1>3, <1>4, <2>3 DEF QuotaInv, OnTimeDistinct
  <2> QED BY <2>2, <2>3
<1>10. ExpiresLate'
  BY <1>2 DEF QuotaInv, ExpiresLate
<1> QED BY <1>7, <1>8, <1>9, <1>10 DEF QuotaInv

LEMMA ExpireQuota ==
  ASSUME BaseInv, QuotaInv, NEW r \in Request, Expire(r) PROVE QuotaInv'
<1>1. expiry' = [expiry EXCEPT ![Key(r)] = now + Minute]
      /\ UNCHANGED <<now, counter, caller, window, count, onTime>>
  BY DEF Expire, TimeToLive, quotaVars
<1>2. now + Minute >= WindowEnd(window[r])
  <2>1. now \in Nat /\ window[r] \in Window /\ window[r] \in Nat
        /\ window[r] <= now \div Minute
    BY DEF BaseInv, Types, WindowBegun, Window
  <2>2. window[r] * Minute <= (now \div Minute) * Minute
    BY <2>1, WindowContains, WindowsInOrder
  <2> QED BY <2>1, <2>2, WindowContains, WindowsInOrder, WindowEnds
<1>3. ExpiresLate'
  <2> SUFFICES ASSUME NEW c \in Caller, NEW w \in Window
               PROVE  expiry'[<<c, w>>] >= WindowEnd(w)
    BY DEF ExpiresLate
  <2>1. CASE <<c, w>> = Key(r)
    BY <1>1, <1>2, <2>1 DEF Key, BaseInv, Types
  <2>2. CASE <<c, w>> # Key(r)
    BY <1>1, <2>2 DEF QuotaInv, ExpiresLate, BaseInv, Types
  <2> QED BY <2>1, <2>2
<1>4. OnTimeCounted' /\ OnTimeNumbered' /\ OnTimeDistinct'
  BY <1>1 DEF QuotaInv, OnTimeCounted, OnTimeNumbered, OnTimeDistinct, Key
<1> QED BY <1>3, <1>4 DEF QuotaInv

LEMMA NextQuota ==
  ASSUME BaseInv, QuotaInv, [Next]_vars PROVE QuotaInv'
<1>1. CASE Tick BY <1>1, TickQuota
<1>2. ASSUME NEW r \in Request, Step(r) \/ ModelAnswers(r) \/ Dies(r) PROVE QuotaInv'
  BY <1>2, EveryStep, MoveQuota, IncrQuota, ExpireQuota
<1>3. CASE UNCHANGED vars
  BY <1>3 DEF vars, redisVars, quotaVars, Key,
              QuotaInv, ExpiresLate, OnTimeCounted, OnTimeNumbered, OnTimeDistinct
<1> QED BY <1>1, <1>2, <1>3 DEF Next

LEMMA DistinctNumbers ==
  ASSUME BaseInv, QuotaInv PROVE QuotaHolds
<1> SUFFICES ASSUME NEW c \in Caller, NEW w \in Window
             PROVE  Cardinality({r \in Counted(c, w) : onTime[r] /\ WithinLimit(r, count[r])})
                      <= Limit[c]
  BY DEF QuotaHolds
<1> DEFINE Passed == {r \in Counted(c, w) : onTime[r] /\ WithinLimit(r, count[r])}
           number == [r \in Passed |-> count[r]]
<1>1. Limit[c] \in Nat
  OBVIOUS
<1>2. ASSUME NEW r \in Passed
      PROVE  r \in Request /\ count[r] \in 1..Limit[c] /\ onTime[r] /\ Key(r) = <<c, w>>
  BY <1>1 DEF Counted, WithinLimit, Key, BaseInv, Types
<1>3. number \in Injection(Passed, 1..Limit[c])
  <2>1. number \in [Passed -> 1..Limit[c]]
    BY <1>2
  <2>2. \A r, q \in Passed : number[r] = number[q] => r = q
    BY <1>2 DEF QuotaInv, OnTimeDistinct
  <2> QED BY <2>1, <2>2 DEF Injection, IsInjective
<1>4. IsFiniteSet(1..Limit[c]) /\ Cardinality(1..Limit[c]) = Limit[c]
  BY <1>1, FS_Interval
<1> QED BY <1>3, <1>4, FS_Injection DEF ExistsInjection

(* Of the requests counted before their window was over no more than the   *)
(* limit pass, whoever dies between INCR and EXPIRE.                       *)
THEOREM QuotaIsKept == Spec => []QuotaHolds
BY InitBase, NextBase, InitQuota, NextQuota, DistinctNumbers, PTL DEF Spec
-----------------------------------------------------------------------------
(* Nobody is refused early: whoever has a number in a window has somebody  *)
(* of the same caller and window before it at every smaller number.        *)

Reached(c, w, n) ==
  \A i \in 1..n : \E q \in Request : caller[q] = c /\ window[q] = w /\ count[q] = i

CounterReached == \A c \in Caller, w \in Window : Reached(c, w, counter[<<c, w>>])

CountReached ==
  \A r \in Request : count[r] > 0 => Reached(caller[r], window[r], count[r])

RefusedOver ==
  \A r \in Request : pc[r] \in {"refusing", "refused"} => ~WithinLimit(r, count[r])

ReachInv == CounterReached /\ CountReached /\ RefusedOver

LEMMA InitReach == Init => ReachInv
<1> SUFFICES ASSUME Init PROVE ReachInv
  OBVIOUS
<1>1. \A c \in Caller, w \in Window : counter[<<c, w>>] = 0
  BY DEF Init
<1>2. CounterReached
  BY <1>1 DEF CounterReached, Reached
<1> QED
  BY <1>2 DEF Init, ReachInv, CountReached, RefusedOver

(* Whoever is counted stays counted, as the same number.                   *)
LEMMA CountedStays ==
  ASSUME BaseInv, [Next]_vars, NEW r \in Request, count[r] > 0
  PROVE  caller'[r] = caller[r] /\ window'[r] = window[r] /\ count'[r] = count[r]
<1>1. pc[r] \notin {"new", "auth", "incr"}
  BY DEF BaseInv, Types, Uncounted
<1>2. CASE Tick \/ UNCHANGED vars
  BY <1>2 DEF Tick, vars, quotaVars
<1>3. ASSUME NEW q \in Request, Step(q) \/ ModelAnswers(q) \/ Dies(q)
      PROVE  caller'[r] = caller[r] /\ window'[r] = window[r] /\ count'[r] = count[r]
  <2>1. CASE Names(q)
    BY <1>1, <2>1 DEF Names, BaseInv, Types
  <2>2. CASE Incr(q)
    BY <1>1, <2>2 DEF Incr, BaseInv, Types
  <2>3. CASE Expire(q) \/ Refuse(q) \/ Moves(q)
    BY <2>3 DEF Expire, Refuse, Moves, quotaVars
  <2> QED BY <1>3, <2>1, <2>2, <2>3, EveryStep
<1> QED BY <1>2, <1>3 DEF Next

LEMMA ReachedStays ==
  ASSUME BaseInv, [Next]_vars, NEW c, NEW w, NEW n \in Nat, Reached(c, w, n)
  PROVE  Reached(c, w, n)'
<1> SUFFICES ASSUME NEW i \in 1..n
             PROVE  \E q \in Request : caller'[q] = c /\ window'[q] = w /\ count'[q] = i
  BY DEF Reached
<1>1. PICK q \in Request : caller[q] = c /\ window[q] = w /\ count[q] = i
  BY DEF Reached
<1>2. caller'[q] = c /\ window'[q] = w /\ count'[q] = i
  BY <1>1, CountedStays
<1> QED BY <1>2

(* INCR gives the number after those that are taken.                       *)
LEMMA IncrReaches ==
  ASSUME BaseInv, ReachInv, NEW r \in Request, Incr(r),
         NEW c, NEW w, c = caller[r], w = window[r],
         NEW n \in Nat, n = counter[Key(r)]
  PROVE  /\ c \in Caller /\ w \in Window /\ Key(r) = <<c, w>>
         /\ caller' = caller /\ window' = window
         /\ counter' = [counter EXCEPT ![<<c, w>>] = n + 1]
         /\ count' = [count EXCEPT ![r] = n + 1]
         /\ Reached(c, w, n + 1)'
<1>1. c \in Caller /\ w \in Window /\ Key(r) = <<c, w>>
  BY KeyOf DEF Incr, Key, BaseInv, Types
<1>2. /\ caller' = caller /\ window' = window
      /\ counter' = [counter EXCEPT ![<<c, w>>] = n + 1]
      /\ count' = [count EXCEPT ![r] = n + 1]
  BY <1>1 DEF Incr
<1>3. Reached(c, w, n)'
  <2>1. Reached(c, w, n)
    BY <1>1 DEF ReachInv, CounterReached
  <2>2. [Next]_vars
    BY DEF Next, Step
  <2> QED BY <2>1, <2>2, ReachedStays
<1>4. Reached(c, w, n + 1)'
  <2> SUFFICES ASSUME NEW i \in 1..(n + 1)
               PROVE  \E q \in Request : caller'[q] = c /\ window'[q] = w /\ count'[q] = i
    BY DEF Reached
  <2>1. CASE i = n + 1
    BY <1>2, <2>1 DEF BaseInv, Types
  <2>2. CASE i # n + 1
    <3>1. i \in 1..n
      BY <2>2
    <3> QED BY <1>3, <3>1 DEF Reached
  <2> QED BY <2>1, <2>2
<1> QED BY <1>1, <1>2, <1>4

LEMMA NextCounterReached ==
  ASSUME BaseInv, ReachInv, [Next]_vars PROVE CounterReached'
<1> SUFFICES ASSUME NEW c \in Caller, NEW w \in Window,
                    NEW n, n = counter'[<<c, w>>]
             PROVE  Reached(c, w, n)'
  BY DEF CounterReached
<1>1. <<c, w>> \in Caller \X Window /\ counter[<<c, w>>] \in Nat
  BY DEF BaseInv, Types
<1>2. CASE n = counter[<<c, w>>]
  BY <1>1, <1>2, ReachedStays DEF ReachInv, CounterReached
<1>3. CASE n # counter[<<c, w>>]
  <2>1. CASE Tick
    <3>1. n = 0
      BY <1>1, <1>3, <2>1 DEF Tick, BaseInv, Types
    <3> QED BY <3>1 DEF Reached
  <2>2. ASSUME NEW r \in Request, Incr(r) PROVE Reached(c, w, n)'
    <3>1. PICK d \in Caller, v \in Window : d = caller[r] /\ v = window[r]
      BY <2>2, KeyOf DEF Incr, BaseInv, Types
    <3>2. PICK m \in Nat : m = counter[Key(r)]
      BY <2>2, KeyOf DEF Incr
    <3>3. /\ counter' = [counter EXCEPT ![<<d, v>>] = m + 1]
          /\ Reached(d, v, m + 1)'
      BY <2>2, <3>1, <3>2, IncrReaches
    <3>4. c = d /\ w = v /\ n = m + 1
      BY <1>1, <1>3, <3>3 DEF BaseInv, Types
    <3> QED BY <3>3, <3>4
  <2>3. CASE UNCHANGED vars
    BY <1>3, <2>3 DEF vars, redisVars
  <2>4. ASSUME NEW r \in Request, Names(r) \/ Expire(r) \/ Refuse(r) \/ Moves(r)
        PROVE  FALSE
    BY <1>3, <2>4 DEF Names, Expire, Refuse, Moves, redisVars
  <2> QED
    BY <2>1, <2>2, <2>3, <2>4, EveryStep DEF Next
<1> QED BY <1>2, <1>3

LEMMA NextCountReached ==
  ASSUME BaseInv, ReachInv, [Next]_vars PROVE CountReached'
<1> SUFFICES ASSUME NEW r \in Request, count'[r] > 0,
                    NEW c, NEW w, NEW n,
                    c = caller'[r], w = window'[r], n = count'[r]
             PROVE  Reached(c, w, n)'
  BY DEF CountReached
<1>1. CASE count[r] > 0
  <2>1. caller'[r] = caller[r] /\ window'[r] = window[r] /\ count'[r] = count[r]
        /\ count[r] \in Nat
    BY <1>1, CountedStays DEF BaseInv, Types
  <2> QED BY <1>1, <2>1, ReachedStays DEF ReachInv, CountReached
<1>2. CASE ~(count[r] > 0)
  <2>1. CASE Incr(r)
    <3>1. PICK m \in Nat : m = counter[Key(r)]
      BY <2>1, KeyOf DEF Incr
    <3>2. PICK d \in Caller, v \in Window : d = caller[r] /\ v = window[r]
      BY <2>1, KeyOf DEF Incr, BaseInv, Types
    <3>3. /\ caller' = caller /\ window' = window
          /\ count' = [count EXCEPT ![r] = m + 1]
          /\ Reached(d, v, m + 1)'
      BY <2>1, <3>1, <3>2, IncrReaches
    <3>4. c = d /\ w = v /\ n = m + 1
      BY <3>2, <3>3 DEF BaseInv, Types
    <3> QED BY <3>3, <3>4
  <2>2. CASE Tick \/ UNCHANGED vars
    BY <1>2, <2>2 DEF Tick, vars, quotaVars
  <2>3. ASSUME NEW q \in Request, Names(q) \/ Expire(q) \/ Refuse(q) \/ Moves(q)
        PROVE  FALSE
    BY <1>2, <2>3 DEF Names, Expire, Refuse, Moves, quotaVars
  <2>4. ASSUME NEW q \in Request, Incr(q), q # r PROVE FALSE
    BY <1>2, <2>4 DEF Incr, BaseInv, Types
  <2> QED
    BY <2>1, <2>2, <2>3, <2>4, EveryStep DEF Next
<1> QED BY <1>1, <1>2

LEMMA NextRefusedOver ==
  ASSUME BaseInv, ReachInv, [Next]_vars PROVE RefusedOver'
<1> SUFFICES ASSUME NEW q \in Request, pc'[q] \in {"refusing", "refused"}
             PROVE  ~(count'[q] <= Limit[caller'[q]])
  BY DEF RefusedOver, WithinLimit
<1>1. ASSUME pc[q] \in {"refusing", "refused"}, count'[q] = count[q], caller'[q] = caller[q]
      PROVE  ~(count'[q] <= Limit[caller'[q]])
  BY <1>1 DEF ReachInv, RefusedOver, WithinLimit
<1>2. CASE Tick \/ UNCHANGED vars
  BY <1>1, <1>2 DEF Tick, vars, quotaVars
<1>3. ASSUME NEW r \in Request, Names(r) \/ Refuse(r) \/ Moves(r)
      PROVE  ~(count'[q] <= Limit[caller'[q]])
  <2>1. pc[q] \in {"refusing", "refused"} /\ count'[q] = count[q] /\ caller'[q] = caller[q]
    BY <1>3 DEF Names, Refuse, Moves, Goto, quotaVars, BaseInv, Types
  <2> QED BY <1>1, <2>1
<1>4. ASSUME NEW r \in Request, Incr(r) PROVE ~(count'[q] <= Limit[caller'[q]])
  <2> DEFINE n == counter[Key(r)] + 1
  <2>1. n \in Nat /\ pc'[r] = (IF n = 1 THEN "expire" ELSE Decided(r, n))
        /\ count'[r] = n /\ caller' = caller
    BY <1>4, KeyOf DEF Incr, Goto, BaseInv, Types
  <2> HIDE DEF n
  <2>2. CASE q = r
    <3>1. pc'[r] = Decided(r, n) /\ Decided(r, n) # "refused"
      BY <2>1, <2>2, DecidedIsLabel
    <3> QED BY <2>1, <2>2, <3>1, DecidedIsLabel DEF WithinLimit
  <2>3. CASE q # r
    BY <1>1, <1>4, <2>3 DEF Incr, Goto, BaseInv, Types
  <2> QED BY <2>2, <2>3
<1>5. ASSUME NEW r \in Request, Expire(r) PROVE ~(count'[q] <= Limit[caller'[q]])
  <2>1. count' = count /\ caller' = caller /\ count[r] \in Nat
        /\ pc'[r] = Decided(r, count[r])
    BY <1>5 DEF Expire, Goto, quotaVars, BaseInv, Types
  <2>2. CASE q = r
    BY <2>1, <2>2, DecidedIsLabel DEF WithinLimit
  <2>3. CASE q # r
    BY <1>1, <1>5, <2>1, <2>3 DEF Expire, Goto, BaseInv, Types
  <2> QED BY <2>2, <2>3
<1> QED
  BY <1>2, <1>3, <1>4, <1>5, EveryStep DEF Next

LEMMA RefusedAfterLimit ==
  ASSUME BaseInv, ReachInv PROVE NobodyRefusedEarly
<1> SUFFICES ASSUME NEW r \in Request, pc[r] = "refused"
             PROVE  Cardinality({q \in Counted(caller[r], window[r]) : count[q] < count[r]})
                      >= Limit[caller[r]]
  BY DEF NobodyRefusedEarly
<1> DEFINE limit == Limit[caller[r]]
           Before == {q \in Counted(caller[r], window[r]) : count[q] < count[r]}
           at == [i \in 1..limit |-> CHOOSE q \in Before : count[q] = i]
<1>1. limit \in Nat /\ count[r] \in Nat /\ count[r] > limit
  BY KeyOf DEF BaseInv, Types, ReachInv, RefusedOver, WithinLimit
<1> HIDE DEF limit
<1>2. ASSUME NEW i \in 1..limit PROVE \E q \in Before : count[q] = i
  <2>1. Reached(caller[r], window[r], count[r]) /\ i \in 1..count[r]
    BY <1>1 DEF ReachInv, CountReached
  <2>2. PICK q \in Request : caller[q] = caller[r] /\ window[q] = window[r] /\ count[q] = i
    BY <2>1 DEF Reached
  <2>3. q \in Before
    BY <1>1, <2>2 DEF Counted
  <2> QED BY <2>2, <2>3
<1>3. at \in Injection(1..limit, Before)
  <2>1. \A i \in 1..limit : at[i] \in Before /\ count[at[i]] = i
    BY <1>2
  <2>2. at \in [1..limit -> Before]
    BY <2>1
  <2>3. \A i, j \in 1..limit : at[i] = at[j] => i = j
    BY <2>1
  <2> QED BY <2>2, <2>3 DEF Injection, IsInjective
<1>4. IsFiniteSet(Before)
  BY RequestsAreFinite, FS_Subset DEF RequestsAreFinite, Counted
<1>5. Cardinality(1..limit) <= Cardinality(Before)
  BY <1>3, <1>4, FS_Injection
<1>6. Cardinality(1..limit) = limit
  BY <1>1, FS_Interval
<1> QED BY <1>5, <1>6 DEF limit

(* Whoever is refused has had its whole limit counted in the same window,  *)
(* however late INCR and EXPIRE come and whatever keys were left behind.   *)
THEOREM RefusalIsEarned == Spec => []NobodyRefusedEarly
<1>1. ReachInv /\ BaseInv /\ [Next]_vars => ReachInv'
  BY NextCounterReached, NextCountReached, NextRefusedOver DEF ReachInv
<1> QED BY InitBase, NextBase, InitReach, <1>1, RefusedAfterLimit, PTL DEF Spec
=============================================================================
