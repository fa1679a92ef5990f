----------------------------- MODULE ApiRequest -----------------------------
(***************************************************************************)
(* Requests to the HTTP API: the dependencies get_session, get_principal   *)
(* and enforce_rate_limit in the order FastAPI runs them, then a handler   *)
(* that reads the tables, awaits the language model, or does both.  All    *)
(* requests share the counters in Redis, and those of a process its        *)
(* connections.                                                            *)
(*                                                                         *)
(* Time is counted in ticks, Minute of them to a minute.                   *)
(***************************************************************************)
EXTENDS Integers, FiniteSets

CONSTANTS
  Request,      \* bound: requests, each made once
  Kinds,        \* bound: request -> the handlers it may be for
  Keyed,        \* callers with an API key in api_keys
  Anonymous,    \* callers told apart by their address
  Limit,        \* caller -> rate_limit_per_min of its key, or the anonymous limit
  Minute,       \* ticks of 60 seconds
  LastTick,     \* bound: when the clock stops
  PoolSize      \* connections of the engine of app/db/session.py

Caller == Keyed \cup Anonymous
Window == 0..(LastTick \div Minute)

ASSUME RequestsAreFinite == IsFiniteSet(Request)
ASSUME CallersAreDistinct == Keyed \cap Anonymous = {}
ASSUME KindsAreHandlers == Kinds \in [Request -> SUBSET {"read", "ask", "insights"}]
ASSUME LimitsAreNatural == Limit \in [Caller -> Nat]
ASSUME SizesArePositive ==
  Minute \in Nat \ {0} /\ LastTick \in Nat /\ PoolSize \in Nat \ {0}

VARIABLES
  now,      \* the clock
  counter,  \* Redis: caller and window -> value of rl:{identity}:{window}, 0 if absent
  expiry,   \* Redis: when the key expires, or Never
  pc,       \* per request: what it does next, or how it ended
  caller,   \* per request: its principal
  kind,     \* per request: which handler
  window,   \* per request: `window`
  count,    \* per request: `count`, 0 before INCR
  onTime,   \* ghost: INCR came before `window` was over
  retryAt,  \* per request: when Retry-After is over, 0 if there is none
  holds     \* per request: its session has a connection checked out

redisVars == <<counter, expiry>>
quotaVars == <<window, count, onTime, retryAt>>
vars == <<now, redisVars, pc, caller, kind, quotaVars, holds>>

Somebody == CHOOSE c \in Caller : TRUE  \* value of `caller` before it is known
Never == LastTick + Minute + 1

Init ==
  /\ now = 0
  /\ counter = [k \in Caller \X Window |-> 0]
  /\ expiry = [k \in Caller \X Window |-> Never]
  /\ pc = [r \in Request |-> "new"]
  /\ caller = [r \in Request |-> Somebody]
  /\ kind = [r \in Request |-> "read"]
  /\ window = [r \in Request |-> 0]
  /\ count = [r \in Request |-> 0]
  /\ onTime = [r \in Request |-> FALSE]
  /\ retryAt = [r \in Request |-> 0]
  /\ holds = [r \in Request |-> FALSE]

(* The clock; Redis drops the keys whose time is over.                     *)
Tick ==
  /\ now < LastTick
  /\ now' = now + 1
  /\ counter' = [k \in DOMAIN counter |-> IF expiry[k] = now + 1 THEN 0 ELSE counter[k]]
  /\ expiry' = [k \in DOMAIN expiry |-> IF expiry[k] = now + 1 THEN Never ELSE expiry[k]]
  /\ UNCHANGED <<pc, caller, kind, quotaVars, holds>>

-----------------------------------------------------------------------------
(* Dependencies *)

Goto(r, label) == pc' = [pc EXCEPT ![r] = label]

Free == Cardinality({r \in Request : holds[r]}) < PoolSize

(* enforce_rate_limit reads the clock as soon as it knows the principal.   *)
ReadClock(r) ==
  /\ Goto(r, "incr")
  /\ window' = [window EXCEPT ![r] = now \div Minute]
  /\ UNCHANGED <<now, redisVars, count, onTime, retryAt>>

(* A session takes a connection with its first statement and keeps it to   *)
(* the end of the request; for an anonymous caller get_principal has none. *)
Begin(r) ==
  /\ pc[r] = "new"
  /\ \E k \in Kinds[r] : kind' = [kind EXCEPT ![r] = k]
  /\ \E c \in Caller :
       /\ caller' = [caller EXCEPT ![r] = c]
       /\ IF c \in Keyed
            THEN Goto(r, "auth") /\ UNCHANGED <<now, redisVars, quotaVars>>
            ELSE ReadClock(r)
  /\ UNCHANGED holds

(* get_principal finds the key.  (That it does not, and answers 401, is a  *)
(* way to end that Dies covers.)                                           *)
FindKey(r) ==
  /\ pc[r] = "auth" /\ Free
  /\ ReadClock(r)
  /\ holds' = [holds EXCEPT ![r] = TRUE]
  /\ UNCHANGED <<caller, kind>>

CallerKey(r) == <<caller[r], 0>>  \* mutant: f"rl:{identity}"
Key(r) == <<caller[r], window[r]>>

WithinLimit(r, n) == n <= Limit[caller[r]]

(* Once it is counted, a request is admitted to its handler or refused.    *)
Decided(r, n) == IF WithinLimit(r, n) THEN kind[r] ELSE "refusing"

(* redis.incr: a key that is not there counts from zero, and has no expiry *)
(* until it is given one.                                                  *)
Incr(r) ==
  LET n == counter[Key(r)] + 1
  IN  /\ pc[r] = "incr"
      /\ Goto(r, IF n = 1 THEN "expire" ELSE Decided(r, n))
      /\ counter' = [counter EXCEPT ![Key(r)] = n]
      /\ count' = [count EXCEPT ![r] = n]
      /\ onTime' = [onTime EXCEPT ![r] = now \div Minute = window[r]]
      /\ UNCHANGED <<now, expiry, caller, kind, window, retryAt, holds>>

HalfMinute(r) == Minute \div 2  \* mutant: redis.expire(key, 30)
TimeToLive(r) == Minute

Expire(r) ==
  /\ pc[r] = "expire"
  /\ Goto(r, Decided(r, count[r]))
  /\ expiry' = [expiry EXCEPT ![Key(r)] = now + TimeToLive(r)]
  /\ UNCHANGED <<now, counter, caller, kind, quotaVars, holds>>

WindowStart(r) == window[r] * Minute  \* mutant: reset_at one window short
ResetAt(r) == (window[r] + 1) * Minute

(* A Retry-After that is not positive does not make the client wait.       *)
Refuse(r) ==
  LET retryAfter == ResetAt(r) - now
  IN  /\ pc[r] = "refusing"
      /\ Goto(r, "refused")
      /\ retryAt' = [retryAt EXCEPT ![r] = IF retryAfter > 0 THEN now + retryAfter ELSE now]
      /\ holds' = [holds EXCEPT ![r] = FALSE]
      /\ kind' = [kind EXCEPT ![r] = "read"]
      /\ UNCHANGED <<now, redisVars, caller, window, count, onTime>>

-----------------------------------------------------------------------------
(* Handlers *)

(* A handler that reads the tables; ai_insights then awaits the model and  *)
(* keeps the connection.                                                   *)
TakeConnection(r) ==
  /\ pc[r] \in {"read", "insights"} /\ (holds[r] \/ Free)
  /\ Goto(r, IF kind[r] = "read" THEN "reading" ELSE "ask")
  /\ holds' = [holds EXCEPT ![r] = TRUE]
  /\ UNCHANGED <<now, redisVars, caller, kind, quotaVars>>

End(r) ==
  /\ Goto(r, "ended")
  /\ holds' = [holds EXCEPT ![r] = FALSE]
  /\ kind' = [kind EXCEPT ![r] = "read"]
  /\ UNCHANGED <<now, redisVars, caller, quotaVars>>

Respond(r) == pc[r] = "reading" /\ End(r)

(* ai_ask (what follows is module AskSql) and ai_insights wait for the     *)
(* model.                                                                  *)
ModelAnswers(r) == pc[r] = "ask" /\ End(r)

(* The pool raises TimeoutError when no connection comes free in 30 s.     *)
NeverGivesUp(r) == FALSE  \* mutant: waits without a timeout
GivesUp(r) == pc[r] \in {"auth", "read", "insights"} /\ ~holds[r] /\ ~Free

PoolTimesOut(r) == GivesUp(r) /\ End(r)

(* 401, an exception, or the end of the process, at any await: the         *)
(* connection is gone, and Redis keeps what was written.                   *)
Running(r) == pc[r] \notin {"new", "refused", "ended"}
Dies(r) == Running(r) /\ End(r)

Step(r) ==
  \/ Begin(r) \/ FindKey(r) \/ Incr(r) \/ Expire(r)
  \/ Refuse(r) \/ TakeConnection(r) \/ Respond(r) \/ PoolTimesOut(r)

Next == Tick \/ \E r \in Request : Step(r) \/ ModelAnswers(r) \/ Dies(r)

Spec == Init /\ [][Next]_vars

(* Redis and the database answer, and a wait for a connection ends; nothing *)
(* is assumed of the model.                                                 *)
FairSpec == Spec /\ \A r \in Request : WF_vars(Step(r))

-----------------------------------------------------------------------------
(* Properties *)

Counted(c, w) == {r \in Request : caller[r] = c /\ window[r] = w /\ count[r] > 0}

(* Of the requests counted before their window was over, no more than the  *)
(* caller's limit pass, though EXPIRE comes after INCR and each may be the *)
(* last thing its process does (ratelimit.py:26-40).                       *)
QuotaHolds ==
  \A c \in Caller, w \in Window :
    Cardinality({r \in Counted(c, w) : onTime[r] /\ WithinLimit(r, count[r])}) <= Limit[c]

(* Whoever is refused has had its whole limit counted in the same window:  *)
(* no other caller, no earlier window and no key that was left without an  *)
(* expiry counts against it (ratelimit.py:28-32).                          *)
NobodyRefusedEarly ==
  \A r \in Request : pc[r] = "refused" =>
    Cardinality({q \in Counted(caller[r], window[r]) : count[q] < count[r]}) >= Limit[caller[r]]

(* A client that waits as Retry-After says is counted in a later window,   *)
(* and waits no longer than to its beginning, also when the minute turned  *)
(* while it was being refused (ratelimit.py:27, 41).                       *)
RetryLandsLater ==
  \A r \in Request : pc[r] = "refused" =>
    /\ retryAt[r] \div Minute > window[r]
    /\ retryAt[r] <= now \/ retryAt[r] = (window[r] + 1) * Minute

(* A request that reads the tables comes to an end although every          *)
(* connection may be held by callers who wait for a model that never       *)
(* answers (session.py:42, api/v1/ai.py:27-36).                            *)
ReadsEnd ==
  \A r \in Request :
    (pc[r] # "new" /\ kind[r] = "read") ~> pc[r] \in {"ended", "refused"}
=============================================================================
