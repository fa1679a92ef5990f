---------------------------- MODULE ResponseCache ----------------------------
(***************************************************************************)
(* One cache key of cached_json (/now, /compare, /forecast,                *)
(* /cleanest-hour): requests of several clients look the key up in Redis,  *)
(* build the answer from the tables when it is missing, store it with a    *)
(* time to live, and reply with the answer or with 304.  Between its steps *)
(* a request awaits Redis or the database, so other requests, commits of   *)
(* the ingest and expiry fall in between.                                  *)
(*                                                                         *)
(* An answer is the version of the tables it was built from; equal         *)
(* versions have equal ETags.                                              *)
(***************************************************************************)
EXTENDS Integers

CONSTANTS
  Client,      \* clients, with one request in flight at a time
  Ttl,         \* `ttl`, of the Redis key and of Cache-Control max-age
  MaxRequest,  \* how long a request may take
  MaxVersion,  \* bound: commits to the tables
  None         \* no key in Redis, no copy at the client, no answer yet

Version == 0..MaxVersion

(* The clocks below count up to Horizon, beyond anything a property tells  *)
(* apart.                                                                  *)
Horizon == 2 * Ttl + 2 * MaxRequest

ASSUME DurationsAreNaturals ==
  Ttl \in Nat \ {0} /\ MaxRequest \in Nat /\ MaxVersion \in Nat
ASSUME RequestsAreShort == MaxRequest < Ttl
ASSUME NoneIsNoNumber == None \notin Int

VARIABLES
  version,   \* version of the tables
  outdated,  \* ghost: for how long each version has been replaced
  key,       \* Redis: the cached answer, or None
  keyLeft,   \* Redis: time to live of the key
  pc,        \* per client: where its request is
  elapsed,   \* per client: how long its request has taken
  answer,    \* per client: `payload` of its request
  copy,      \* per client: the answer it holds, sent as If-None-Match
  copyLeft,  \* per client: how long max-age lets it reuse that answer
  newest,    \* ghost: newest version any client has been answered with
  floor,     \* ghost, per client: `newest` when its request began
  overlap    \* ghost: an answer was stored over one that had not expired

tableVars == <<version, outdated>>
redisVars == <<key, keyLeft, overlap>>
requestVars == <<pc, elapsed, answer, floor>>
clientVars == <<copy, copyLeft, newest>>
vars == <<tableVars, redisVars, requestVars, clientVars>>

Init ==
  /\ version = 0
  /\ outdated = [v \in Version |-> 0]
  /\ key = None
  /\ keyLeft = 0
  /\ pc = [c \in Client |-> "idle"]
  /\ elapsed = [c \in Client |-> 0]
  /\ answer = [c \in Client |-> None]
  /\ copy = [c \in Client |-> None]
  /\ copyLeft = [c \in Client |-> 0]
  /\ newest = 0
  /\ floor = [c \in Client |-> 0]
  /\ overlap = FALSE

Running(c) == pc[c] # "idle"

Later(t) == IF t < Horizon THEN t + 1 ELSE t
Sooner(t) == IF t > 0 THEN t - 1 ELSE t

(* Time passes; Redis drops the key when its time is over.  A request is   *)
(* answered, or has failed, within MaxRequest.                             *)
Tick ==
  /\ \A c \in Client : Running(c) => elapsed[c] < MaxRequest
  /\ outdated' = [v \in Version |-> IF v < version THEN Later(outdated[v]) ELSE 0]
  /\ keyLeft' = Sooner(keyLeft)
  /\ key' = IF keyLeft' = 0 THEN None ELSE key
  /\ elapsed' = [c \in Client |-> IF Running(c) THEN elapsed[c] + 1 ELSE 0]
  /\ copyLeft' = [c \in Client |-> Sooner(copyLeft[c])]
  /\ UNCHANGED <<version, overlap, pc, answer, floor, copy, newest>>

(* The ingest commits new intensities.                                     *)
CommitTables ==
  /\ version < MaxVersion
  /\ version' = version + 1
  /\ UNCHANGED <<outdated, redisVars, requestVars, clientVars>>

Request(c) ==
  /\ pc[c] = "idle"
  /\ pc' = [pc EXCEPT ![c] = "lookup"]
  /\ floor' = [floor EXCEPT ![c] = newest]
  /\ UNCHANGED <<tableVars, redisVars, elapsed, answer, clientVars>>

(* redis.get finds the key ...                                             *)
Hit(c) ==
  /\ pc[c] = "lookup" /\ key # None
  /\ pc' = [pc EXCEPT ![c] = "reply"]
  /\ answer' = [answer EXCEPT ![c] = key]
  /\ UNCHANGED <<tableVars, redisVars, elapsed, floor, clientVars>>

(* ... or does not.                                                        *)
Miss(c) ==
  /\ pc[c] = "lookup" /\ key = None
  /\ pc' = [pc EXCEPT ![c] = "build"]
  /\ UNCHANGED <<tableVars, redisVars, elapsed, answer, floor, clientVars>>

(* `await build()`                                                         *)
Build(c) ==
  /\ pc[c] = "build"
  /\ pc' = [pc EXCEPT ![c] = "store"]
  /\ answer' = [answer EXCEPT ![c] = version]
  /\ UNCHANGED <<tableVars, redisVars, elapsed, floor, clientVars>>

NoExpiry(c) == Horizon      \* mutant: set without `ex`
SplitSecond(c) == 1         \* mutant: `px` for `ex`
TimeToLive(c) == Ttl

(* `await redis.set(cache_key, payload, ex=ttl)`, whoever stored meanwhile *)
Store(c) ==
  /\ pc[c] = "store"
  /\ pc' = [pc EXCEPT ![c] = "reply"]
  /\ key' = answer[c]
  /\ keyLeft' = TimeToLive(c)
  /\ overlap' = (overlap \/ key # None)
  /\ UNCHANGED <<tableVars, elapsed, answer, floor, clientVars>>

EndRequest(c) ==
  /\ pc' = [pc EXCEPT ![c] = "idle"]
  /\ elapsed' = [elapsed EXCEPT ![c] = 0]
  /\ answer' = [answer EXCEPT ![c] = None]
  /\ floor' = [floor EXCEPT ![c] = 0]
  /\ UNCHANGED <<tableVars, redisVars>>

HasCopy(c) == copy[c] # None  \* mutant: 304 to any If-None-Match
Matches(c) == copy[c] = answer[c]

(* If-None-Match names the answer: 304, and the client keeps its copy; or  *)
(* it does not, and the client gets the answer.                            *)
Reply(c) ==
  /\ pc[c] = "reply"
  /\ copy' = IF Matches(c) THEN copy ELSE [copy EXCEPT ![c] = answer[c]]
  /\ copyLeft' = [copyLeft EXCEPT ![c] = Ttl]
  /\ newest' = IF answer[c] > newest THEN answer[c] ELSE newest
  /\ EndRequest(c)

(* Redis, the database or build() raises: the client gets an error, and    *)
(* what is cached stays as it is.                                          *)
Fail(c) ==
  /\ Running(c)
  /\ EndRequest(c)
  /\ UNCHANGED clientVars

Next ==
  \/ Tick
  \/ CommitTables
  \/ \E c \in Client :
       \/ Request(c) \/ Hit(c) \/ Miss(c) \/ Build(c) \/ Store(c)
       \/ Reply(c) \/ Fail(c)

Spec == Init /\ [][Next]_vars

-----------------------------------------------------------------------------

(* Every variable stays in its domain; a key never outlives its ttl, and   *)
(* nothing holds a version the tables have not had.                        *)
TypeOK ==
  /\ version \in Version
  /\ outdated \in [Version -> 0..Horizon]
  /\ \A v \in Version : v >= version => outdated[v] = 0
  /\ key \in 0..version \cup {None}
  /\ keyLeft \in 0..Ttl
  /\ pc \in [Client -> {"idle", "lookup", "build", "store", "reply"}]
  /\ elapsed \in [Client -> 0..MaxRequest]
  /\ answer \in [Client -> 0..version \cup {None}]
  /\ copy \in [Client -> 0..version \cup {None}]
  /\ copyLeft \in [Client -> 0..Ttl]
  /\ newest \in 0..version
  /\ floor \in [Client -> 0..newest]
  /\ overlap \in BOOLEAN

(* A reply is outdated by less than the ttl and two requests: the one that *)
(* stored it may have read it long before, and the reply may be late -     *)
(* also when several requests build at once and the slowest stores last    *)
(* (cache.py:32-37).                                                       *)
RepliesAreFresh ==
  \A c \in Client :
    pc[c] = "reply" => outdated[answer[c]] < Ttl + 2 * MaxRequest

(* A client that reuses its copy for max-age, and revalidates it by 304s,  *)
(* shows nothing outdated by one more ttl than that (cache.py:41-48).      *)
CopiesAreFresh ==
  \A c \in Client :
    copyLeft[c] > 0 => outdated[copy[c]] < 2 * Ttl + 2 * MaxRequest

(* A request that begins after a reply is not answered with an older       *)
(* version, unless two builds overlapped and one stored over the other     *)
(* (cache.py:34-37: nothing keeps two requests from building at once).     *)
AnswersAdvance ==
  \A c \in Client : pc[c] = "reply" => answer[c] >= floor[c] \/ overlap
=============================================================================
