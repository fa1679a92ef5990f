------------------------- MODULE ResponseCacheProofs -------------------------
(***************************************************************************)
(* Proofs about ResponseCache: every variable stays in its domain, what a  *)
(* reply and a client's copy show is not outdated for long, and answers    *)
(* advance unless two builds overlapped.                                   *)
(***************************************************************************)
EXTENDS ResponseCache, TLAPS

USE NoneIsNoNumber DEF NoneIsNoNumber

LEMMA CountedTime ==
  Horizon \in Nat /\ Ttl \in Nat /\ Ttl > 0 /\ MaxRequest \in Nat
  /\ MaxVersion \in Nat /\ Horizon = 2 * Ttl + 2 * MaxRequest
BY DurationsAreNaturals DEF DurationsAreNaturals, Horizon

-----------------------------------------------------------------------------
(* Domains *)

(* A request that has its answer has one, and nothing that has no key or   *)
(* no copy has time left for it.                                           *)
Answered == \A c \in Client : pc[c] \in {"store", "reply"} => answer[c] # None
KeyExpires == key # None => keyLeft > 0
CopyIsHeld == \A c \in Client : copyLeft[c] > 0 => copy[c] # None

DomainInv == TypeOK /\ Answered /\ KeyExpires /\ CopyIsHeld

LEMMA InitDomain == Init => DomainInv
<1> SUFFICES ASSUME Init PROVE DomainInv
  OBVIOUS
<1>1. /\ version \in Version /\ outdated \in [Version -> 0..Horizon]
      /\ \A v \in Version : v >= version => outdated[v] = 0
  BY CountedTime DEF Init, Version
<1>2. /\ key \in 0..version \cup {None} /\ keyLeft \in 0..Ttl
      /\ newest \in 0..version
  BY CountedTime DEF Init
<1>3. /\ pc \in [Client -> {"idle", "lookup", "build", "store", "reply"}]
      /\ elapsed \in [Client -> 0..MaxRequest]
      /\ answer \in [Client -> 0..version \cup {None}]
      /\ floor \in [Client -> 0..newest]
      /\ Answered
  BY CountedTime DEF Init, Answered
<1>4. /\ copy \in [Client -> 0..version \cup {None}]
      /\ copyLeft \in [Client -> 0..Ttl]
      /\ CopyIsHeld /\ KeyExpires
  BY CountedTime DEF Init, CopyIsHeld, KeyExpires
<1>5. overlap \in BOOLEAN
  BY Zenon DEF Init
<1> QED
  BY <1>1, <1>2, <1>3, <1>4, <1>5, Zenon DEF DomainInv, TypeOK

LEMMA TickDomain ==
  ASSUME DomainInv, Tick PROVE DomainInv'
<1> USE CountedTime
<1>1. version \in Version /\ version' = version /\ newest' = newest
  BY DEF DomainInv, TypeOK, Tick
<1>2. outdated' \in [Version -> 0..Horizon]
      /\ \A v \in Version : v >= version' => outdated'[v] = 0
  BY DEF DomainInv, TypeOK, Tick, Later, Version
<1>3. key' \in 0..version' \cup {None} /\ keyLeft' \in 0..Ttl /\ KeyExpires'
  BY DEF DomainInv, TypeOK, Tick, Sooner, KeyExpires
<1>4. elapsed' \in [Client -> 0..MaxRequest]
  BY DEF DomainInv, TypeOK, Tick, Running
<1>5. copyLeft' \in [Client -> 0..Ttl] /\ CopyIsHeld'
  BY DEF DomainInv, TypeOK, Tick, Sooner, CopyIsHeld
<1> QED
  BY <1>1, <1>2, <1>3, <1>4, <1>5 DEF DomainInv, TypeOK, Tick, Answered

LEMMA CommitDomain ==
  ASSUME DomainInv, CommitTables PROVE DomainInv'
BY CountedTime
   DEF DomainInv, TypeOK, CommitTables, Version, Answered, KeyExpires, CopyIsHeld,
       redisVars, requestVars, clientVars

LEMMA EndDomain ==
  ASSUME DomainInv, NEW c \in Client, Reply(c) \/ Fail(c) PROVE DomainInv'
<1> USE CountedTime
<1>1. /\ version' = version /\ outdated' = outdated
      /\ key' = key /\ keyLeft' = keyLeft /\ overlap' = overlap
      /\ pc' = [pc EXCEPT ![c] = "idle"]
      /\ elapsed' = [elapsed EXCEPT ![c] = 0]
      /\ answer' = [answer EXCEPT ![c] = None]
      /\ floor' = [floor EXCEPT ![c] = 0]
  BY DEF Reply, Fail, EndRequest, tableVars, redisVars
<1>2. newest' \in 0..version /\ newest' >= newest
  <2>1. CASE Reply(c)
    BY <2>1 DEF DomainInv, TypeOK, Reply, Answered
  <2>2. CASE Fail(c)
    BY <2>2 DEF DomainInv, TypeOK, Fail, clientVars
  <2> QED BY <2>1, <2>2
<1>3. floor' \in [Client -> 0..newest']
  BY <1>1, <1>2 DEF DomainInv, TypeOK
<1>4. /\ copy' \in [Client -> 0..version \cup {None}]
      /\ copyLeft' \in [Client -> 0..Ttl]
      /\ CopyIsHeld'
  <2>1. CASE Reply(c)
    BY <2>1 DEF DomainInv, TypeOK, Reply, Matches, Answered, CopyIsHeld
  <2>2. CASE Fail(c)
    BY <2>2 DEF DomainInv, TypeOK, Fail, clientVars, CopyIsHeld
  <2> QED BY <2>1, <2>2
<1> QED
  BY <1>1, <1>2, <1>3, <1>4 DEF DomainInv, TypeOK, Answered, KeyExpires

LEMMA RequestDomain ==
  ASSUME DomainInv, NEW c \in Client,
         Request(c) \/ Hit(c) \/ Miss(c) \/ Build(c) \/ Store(c)
  PROVE  DomainInv'
<1> USE CountedTime
    DEF DomainInv, TypeOK, Answered, KeyExpires, CopyIsHeld,
        tableVars, redisVars, requestVars, clientVars
<1>1. CASE Request(c) BY <1>1 DEF Request
<1>2. CASE Hit(c) BY <1>2 DEF Hit
<1>3. CASE Miss(c) BY <1>3 DEF Miss
<1>4. CASE Build(c)
  <2>1. version \in 0..version /\ version # None
    BY DEF Version
  <2> QED BY <1>4, <2>1 DEF Build
<1>5. CASE Store(c)
  <2>1. answer[c] \in 0..version /\ TimeToLive(c) = Ttl
    BY <1>5 DEF Store, TimeToLive
  <2> QED BY <1>5, <2>1 DEF Store
<1> QED BY <1>1, <1>2, <1>3, <1>4, <1>5

LEMMA NextDomain ==
  ASSUME DomainInv, [Next]_vars PROVE DomainInv'
<1>1. CASE Tick BY <1>1, TickDomain
<1>2. CASE CommitTables BY <1>2, CommitDomain
<1>3. ASSUME NEW c \in Client,
             Request(c) \/ Hit(c) \/ Miss(c) \/ Build(c) \/ Store(c)
      PROVE  DomainInv'
  BY <1>3, RequestDomain
<1>4. ASSUME NEW c \in Client, Reply(c) \/ Fail(c) PROVE DomainInv'
  BY <1>4, EndDomain
<1>5. CASE UNCHANGED vars
  BY <1>5 DEF vars, tableVars, redisVars, requestVars, clientVars,
              DomainInv, TypeOK, Answered, KeyExpires, CopyIsHeld
<1> QED BY <1>1, <1>2, <1>3, <1>4, <1>5 DEF Next

(* Every variable of the cache stays in its domain, however many clients   *)
(* there are and however long requests take within the time to live.       *)
THEOREM CacheTypes == Spec => []TypeOK
<1>1. DomainInv => TypeOK BY DEF DomainInv
<1> QED BY InitDomain, NextDomain, <1>1, PTL DEF Spec
-----------------------------------------------------------------------------
(* Freshness: how long ago what a request, the key or a copy holds was     *)
(* replaced, as the sum of what its age may still grow by.                 *)

BuiltLately == \A c \in Client : pc[c] = "store" => outdated[answer[c]] <= elapsed[c]

KeyAge == key # None => outdated[key] + keyLeft <= Ttl + MaxRequest

ReplyAge ==
  \A c \in Client :
    pc[c] = "reply" => outdated[answer[c]] < Ttl + MaxRequest + elapsed[c]

CopyAge ==
  \A c \in Client :
    copyLeft[c] > 0 => outdated[copy[c]] + copyLeft[c] < 2 * Ttl + 2 * MaxRequest

FreshInv == BuiltLately /\ KeyAge /\ ReplyAge /\ CopyAge

LEMMA InitFresh == Init => FreshInv
BY CountedTime DEF Init, FreshInv, BuiltLately, KeyAge, ReplyAge, CopyAge

(* A tick adds at most one to the age of a version, and no version is      *)
(* outdated while it is the newest.                                        *)
LEMMA TickAges ==
  ASSUME DomainInv, Tick, NEW v \in 0..version
  PROVE  outdated[v] \in 0..Horizon /\ outdated'[v] \in 0..Horizon
         /\ outdated'[v] <= outdated[v] + 1
BY CountedTime DEF DomainInv, TypeOK, Tick, Later, Version

LEMMA TickFresh ==
  ASSUME DomainInv, FreshInv, Tick PROVE FreshInv'
<1> USE CountedTime
<1>1. ASSUME NEW c \in Client, pc[c] \in {"store", "reply"}
      PROVE  /\ answer[c] \in 0..version /\ elapsed[c] \in 0..MaxRequest
             /\ elapsed'[c] = elapsed[c] + 1
  BY <1>1 DEF DomainInv, TypeOK, Answered, Tick, Running
<1>2. BuiltLately'
  BY <1>1, TickAges DEF FreshInv, BuiltLately, Tick
<1>3. ReplyAge'
  <2> SUFFICES ASSUME NEW c \in Client, pc'[c] = "reply"
               PROVE  outdated'[answer'[c]] < Ttl + MaxRequest + elapsed'[c]
    BY DEF ReplyAge
  <2>1. pc[c] = "reply" /\ answer' = answer
    BY DEF Tick
  <2>2. outdated[answer[c]] < Ttl + MaxRequest + elapsed[c]
    BY <2>1 DEF FreshInv, ReplyAge
  <2> QED
    BY <1>1, <2>1, <2>2, TickAges
<1>4. KeyAge'
  <2> SUFFICES ASSUME key' # None
               PROVE  outdated'[key'] + keyLeft' <= Ttl + MaxRequest
    BY DEF KeyAge
  <2>1. key' = key /\ key \in 0..version /\ keyLeft \in 0..Ttl /\ keyLeft > 0
        /\ keyLeft' = keyLeft - 1
    BY DEF DomainInv, TypeOK, KeyExpires, Tick, Sooner
  <2> QED
    BY <2>1, TickAges DEF FreshInv, KeyAge
<1>5. CopyAge'
  <2> SUFFICES ASSUME NEW c \in Client, copyLeft'[c] > 0
               PROVE  outdated'[copy'[c]] + copyLeft'[c] < 2 * Ttl + 2 * MaxRequest
    BY DEF CopyAge
  <2>1. copyLeft[c] \in 0..Ttl /\ copyLeft'[c] = Sooner(copyLeft[c]) /\ copy' = copy
    BY DEF DomainInv, TypeOK, Tick
  <2>2. copyLeft[c] > 0 /\ copyLeft'[c] = copyLeft[c] - 1
    BY <2>1 DEF Sooner
  <2>3. copy[c] \in 0..version
    BY <2>2 DEF DomainInv, TypeOK, CopyIsHeld
  <2> QED
    BY <2>1, <2>2, <2>3, TickAges DEF FreshInv, CopyAge
<1> QED
  BY <1>2, <1>3, <1>4, <1>5 DEF FreshInv

LEMMA StepFresh ==
  ASSUME DomainInv, FreshInv, NEW c \in Client,
         Request(c) \/ Hit(c) \/ Miss(c) \/ Build(c) \/ Store(c)
  PROVE  FreshInv'
<1> USE CountedTime
    DEF FreshInv, DomainInv, TypeOK, Answered, KeyExpires,
        BuiltLately, KeyAge, ReplyAge, CopyAge,
        tableVars, redisVars, requestVars, clientVars
<1>1. CASE Request(c) BY <1>1 DEF Request
<1>2. CASE Hit(c)
  <2>1. key \in 0..version /\ outdated[key] \in 0..Horizon
        /\ outdated[key] < Ttl + MaxRequest
    BY <1>2 DEF Hit, Version
  <2> QED BY <1>2, <2>1 DEF Hit
<1>3. CASE Miss(c) BY <1>3 DEF Miss
<1>4. CASE Build(c)
  <2>1. outdated[version] = 0
    BY DEF Version
  <2> QED BY <1>4, <2>1 DEF Build
<1>5. CASE Store(c)
  <2>1. answer[c] \in 0..version /\ outdated[answer[c]] \in 0..Horizon
        /\ outdated[answer[c]] <= elapsed[c] /\ TimeToLive(c) = Ttl
    BY <1>5 DEF Store, TimeToLive, Version
  <2> QED BY <1>5, <2>1 DEF Store
<1> QED BY <1>1, <1>2, <1>3, <1>4, <1>5

LEMMA EndFresh ==
  ASSUME DomainInv, FreshInv, NEW c \in Client, Reply(c) \/ Fail(c)
  PROVE  FreshInv'
<1> USE CountedTime
<1>1. /\ outdated' = outdated /\ key' = key /\ keyLeft' = keyLeft
      /\ pc' = [pc EXCEPT ![c] = "idle"]
      /\ \A d \in Client : d # c => elapsed'[d] = elapsed[d] /\ answer'[d] = answer[d]
  BY DEF DomainInv, TypeOK, Reply, Fail, EndRequest, tableVars, redisVars
<1>2. BuiltLately' /\ KeyAge' /\ ReplyAge'
  BY <1>1 DEF DomainInv, TypeOK, FreshInv, BuiltLately, KeyAge, ReplyAge
<1>3. CopyAge'
  <2>1. CASE Reply(c)
    <3>1. /\ answer[c] \in 0..version /\ outdated[answer[c]] \in 0..Horizon
          /\ outdated[answer[c]] < Ttl + 2 * MaxRequest
      BY <2>1 DEF DomainInv, TypeOK, Answered, FreshInv, ReplyAge, Reply, Version
    <3>2. copy'[c] = answer[c] /\ copyLeft'[c] = Ttl
          /\ \A d \in Client : d # c => copy'[d] = copy[d] /\ copyLeft'[d] = copyLeft[d]
      BY <2>1 DEF DomainInv, TypeOK, Reply, Matches
    <3> QED
      BY <1>1, <3>1, <3>2 DEF FreshInv, CopyAge
  <2>2. CASE Fail(c)
    BY <1>1, <2>2 DEF Fail, clientVars, FreshInv, CopyAge
  <2> QED BY <2>1, <2>2
<1> QED
  BY <1>2, <1>3 DEF FreshInv

LEMMA NextFresh ==
  ASSUME DomainInv, FreshInv, [Next]_vars PROVE FreshInv'
<1>1. CASE Tick BY <1>1, TickFresh
<1>2. CASE CommitTables
  BY <1>2 DEF CommitTables, redisVars, requestVars, clientVars,
              FreshInv, BuiltLately, KeyAge, ReplyAge, CopyAge
<1>3. ASSUME NEW c \in Client,
             Request(c) \/ Hit(c) \/ Miss(c) \/ Build(c) \/ Store(c)
      PROVE  FreshInv'
  BY <1>3, StepFresh
<1>4. ASSUME NEW c \in Client, Reply(c) \/ Fail(c) PROVE FreshInv'
  BY <1>4, EndFresh
<1>5. CASE UNCHANGED vars
  BY <1>5 DEF vars, tableVars, redisVars, requestVars, clientVars,
              FreshInv, BuiltLately, KeyAge, ReplyAge, CopyAge
<1> QED BY <1>1, <1>2, <1>3, <1>4, <1>5 DEF Next

LEMMA FreshBounds ==
  ASSUME DomainInv, FreshInv PROVE RepliesAreFresh /\ CopiesAreFresh
<1> USE CountedTime
<1>1. \A v \in 0..version : outdated[v] \in 0..Horizon
  BY DEF DomainInv, TypeOK, Version
<1>2. RepliesAreFresh
  BY <1>1 DEF DomainInv, TypeOK, Answered, FreshInv, ReplyAge, RepliesAreFresh
<1>3. CopiesAreFresh
  BY <1>1 DEF DomainInv, TypeOK, CopyIsHeld, FreshInv, CopyAge, CopiesAreFresh
<1> QED BY <1>2, <1>3

(* A reply is outdated by less than the time to live and two requests,     *)
(* whatever builds, stores, expiries and commits fall between its steps.   *)
THEOREM RepliesStayFresh == Spec => []RepliesAreFresh
BY InitDomain, NextDomain, InitFresh, NextFresh, FreshBounds, PTL DEF Spec

(* A copy that max-age still lets a client reuse, after any number of      *)
(* revalidations, is outdated by less than one more time to live.          *)
THEOREM CopiesStayFresh == Spec => []CopiesAreFresh
BY InitDomain, NextDomain, InitFresh, NextFresh, FreshBounds, PTL DEF Spec
-----------------------------------------------------------------------------
(* Advance: without overlap the key is the newest answer there is.         *)

(* What clients have been given, may be given, or will be given.           *)
Published(p) ==
  \/ p = newest
  \/ key # None /\ p = key
  \/ \E d \in Client : pc[d] = "reply" /\ p = answer[d]

KeyIsNewest ==
  ~overlap /\ key # None => \A p \in 0..version : Published(p) => p <= key

(* Whoever is about to store what has been outrun finds the key, since a   *)
(* build is shorter than the time to live.                                 *)
OutrunFindsKey ==
  \A c \in Client : \A p \in 0..version :
    pc[c] = "store" /\ Published(p) /\ p > answer[c]
      => key # None /\ keyLeft >= Ttl - elapsed[c]

AdvanceInv == KeyIsNewest /\ OutrunFindsKey /\ AnswersAdvance

LEMMA InitAdvance == Init => AdvanceInv
BY DEF Init, AdvanceInv, KeyIsNewest, OutrunFindsKey, AnswersAdvance

(* What is published after these steps had been published before.          *)
LEMMA NothingPublished ==
  ASSUME DomainInv,
         \/ Tick
         \/ CommitTables
         \/ \E c \in Client : \/ Request(c) \/ Hit(c) \/ Miss(c) \/ Build(c)
                               \/ Reply(c) \/ Fail(c),
         NEW p \in 0..version', Published(p)'
  PROVE  p \in 0..version /\ Published(p)
<1> USE CountedTime
<1>1. CASE Tick \/ CommitTables
  BY <1>1 DEF Tick, CommitTables, Published, DomainInv, TypeOK, Answered, Version,
              redisVars, requestVars, clientVars
<1>2. ASSUME NEW c \in Client, Request(c) \/ Miss(c) \/ Build(c) \/ Fail(c)
      PROVE  p \in 0..version /\ Published(p)
  BY <1>2 DEF Request, Miss, Build, Fail, EndRequest, Published, DomainInv, TypeOK,
              tableVars, redisVars, requestVars, clientVars
<1>3. ASSUME NEW c \in Client, Hit(c)
      PROVE  p \in 0..version /\ Published(p)
  BY <1>3 DEF Hit, Published, DomainInv, TypeOK,
              tableVars, redisVars, clientVars
<1>4. ASSUME NEW c \in Client, Reply(c)
      PROVE  p \in 0..version /\ Published(p)
  <2>1. newest' = newest \/ newest' = answer[c]
    BY <1>4 DEF Reply
  <2> QED
    BY <1>4, <2>1 DEF Reply, EndRequest, Published, DomainInv, TypeOK,
              tableVars, redisVars
<1> QED BY <1>1, <1>2, <1>3, <1>4

LEMMA TickAdvance ==
  ASSUME DomainInv, AdvanceInv, Tick PROVE AdvanceInv'
<1> USE CountedTime, RequestsAreShort DEF RequestsAreShort
<1>1. \A p \in 0..version' : Published(p)' => p \in 0..version /\ Published(p)
  BY NothingPublished
<1>2. KeyIsNewest'
  BY <1>1 DEF AdvanceInv, KeyIsNewest, Tick
<1>3. OutrunFindsKey'
  <2> SUFFICES ASSUME NEW c \in Client, NEW p \in 0..version',
                      pc'[c] = "store", Published(p)', p > answer'[c]
               PROVE  key' # None /\ keyLeft' >= Ttl - elapsed'[c]
    BY DEF OutrunFindsKey
  <2>1. pc[c] = "store" /\ p > answer[c]
    BY DEF Tick
  <2>2. key # None /\ keyLeft >= Ttl - elapsed[c]
    BY <1>1, <2>1 DEF AdvanceInv, OutrunFindsKey
  <2>3. elapsed'[c] = elapsed[c] + 1 /\ elapsed[c] \in Nat /\ elapsed[c] < MaxRequest
    BY <2>1 DEF Tick, Running, DomainInv, TypeOK
  <2>4. keyLeft \in Nat /\ keyLeft' = keyLeft - 1 /\ keyLeft' > 0
    BY <2>2, <2>3 DEF Tick, Sooner, DomainInv, TypeOK
  <2>5. key' = key
    BY <2>4 DEF Tick
  <2> QED BY <2>2, <2>3, <2>4, <2>5
<1>4. AnswersAdvance'
  BY DEF AdvanceInv, AnswersAdvance, Tick
<1> QED BY <1>2, <1>3, <1>4 DEF AdvanceInv

LEMMA StoreAdvance ==
  ASSUME DomainInv, AdvanceInv, NEW c \in Client, Store(c) PROVE AdvanceInv'
<1> USE CountedTime
<1>1. /\ pc[c] = "store" /\ answer[c] \in 0..version
      /\ pc' = [pc EXCEPT ![c] = "reply"] /\ answer' = answer /\ elapsed' = elapsed
      /\ key' = answer[c] /\ key' # None /\ keyLeft' = Ttl
      /\ version' = version /\ newest' = newest /\ floor' = floor
  BY DEF Store, TimeToLive, DomainInv, TypeOK, Answered, tableVars, clientVars
<1>2. ~overlap' => ~overlap /\ key = None
  BY Zenon DEF Store
<1>3. \A p \in 0..version : Published(p)' => Published(p) \/ p = answer[c]
  BY <1>1 DEF Published, DomainInv, TypeOK
<1>4. ~overlap' => \A p \in 0..version : Published(p) => p <= answer[c]
  BY <1>1, <1>2 DEF AdvanceInv, OutrunFindsKey
<1>5. KeyIsNewest'
  BY <1>1, <1>3, <1>4 DEF KeyIsNewest
<1>6. OutrunFindsKey'
  BY <1>1 DEF OutrunFindsKey, DomainInv, TypeOK
<1>7. AnswersAdvance'
  <2> SUFFICES ASSUME NEW d \in Client, pc'[d] = "reply", ~overlap'
               PROVE  answer'[d] >= floor'[d]
    BY DEF AnswersAdvance
  <2>1. CASE d = c
    <3>1. newest \in 0..version /\ Published(newest) /\ floor[c] \in 0..newest
      BY DEF DomainInv, TypeOK, Published
    <3> QED BY <1>1, <1>4, <2>1, <3>1
  <2>2. CASE d # c
    BY <1>1, <1>2, <2>2 DEF AdvanceInv, AnswersAdvance, DomainInv, TypeOK
  <2> QED BY <2>1, <2>2
<1> QED BY <1>5, <1>6, <1>7 DEF AdvanceInv

LEMMA StepAdvance ==
  ASSUME DomainInv, AdvanceInv, NEW c \in Client,
         Request(c) \/ Hit(c) \/ Miss(c) \/ Build(c) \/ Reply(c) \/ Fail(c)
  PROVE  AdvanceInv'
<1> USE CountedTime
<1>1. \A p \in 0..version' : Published(p)' => p \in 0..version /\ Published(p)
  BY NothingPublished
<1>2. /\ version' = version /\ key' = key /\ keyLeft' = keyLeft /\ overlap' = overlap
  BY DEF Request, Hit, Miss, Build, Reply, Fail, EndRequest, tableVars, redisVars
<1>3. KeyIsNewest'
  BY <1>1, <1>2 DEF AdvanceInv, KeyIsNewest
<1>4. OutrunFindsKey'
  <2> SUFFICES ASSUME NEW d \in Client, NEW p \in 0..version',
                      pc'[d] = "store", Published(p)', p > answer'[d]
               PROVE  key' # None /\ keyLeft' >= Ttl - elapsed'[d]
    BY DEF OutrunFindsKey
  <2>1. ~Build(c) \/ d # c
    BY <1>2 DEF Build, DomainInv, TypeOK, Version
  <2>2. CASE Build(c) /\ d # c
    BY <1>1, <1>2, <2>2 DEF Build, DomainInv, TypeOK, AdvanceInv, OutrunFindsKey
  <2>3. CASE Request(c) \/ Hit(c) \/ Miss(c)
    BY <1>1, <1>2, <2>3 DEF Request, Hit, Miss, DomainInv, TypeOK, AdvanceInv, OutrunFindsKey
  <2>4. CASE Reply(c) \/ Fail(c)
    BY <1>1, <1>2, <2>4 DEF Reply, Fail, EndRequest, DomainInv, TypeOK, AdvanceInv, OutrunFindsKey
  <2> QED BY <2>1, <2>2, <2>3, <2>4
<1>5. AnswersAdvance'
  <2> SUFFICES ASSUME NEW d \in Client, pc'[d] = "reply", ~overlap'
               PROVE  answer'[d] >= floor'[d]
    BY DEF AnswersAdvance
  <2>1. CASE Hit(c) /\ d = c
    <3>1. newest \in 0..version /\ Published(newest) /\ floor[c] \in 0..newest
      BY DEF DomainInv, TypeOK, Published
    <3>2. key # None /\ key \in 0..version /\ answer'[c] = key /\ floor'[c] = floor[c]
      BY <2>1 DEF Hit, DomainInv, TypeOK
    <3> QED BY <1>2, <2>1, <3>1, <3>2 DEF AdvanceInv, KeyIsNewest
  <2>2. CASE ~(Hit(c) /\ d = c)
    <3>1. pc[d] = "reply" /\ answer'[d] = answer[d] /\ floor'[d] = floor[d]
      <4>1. CASE Request(c) \/ Hit(c) \/ Miss(c) \/ Build(c)
        BY <2>2, <4>1 DEF Request, Hit, Miss, Build, DomainInv, TypeOK
      <4>2. CASE Reply(c) \/ Fail(c)
        BY <4>2 DEF Reply, Fail, EndRequest, DomainInv, TypeOK
      <4> QED BY <4>1, <4>2
    <3> QED BY <1>2, <3>1 DEF AdvanceInv, AnswersAdvance
  <2> QED BY <2>1, <2>2
<1> QED BY <1>3, <1>4, <1>5 DEF AdvanceInv

LEMMA NextAdvance ==
  ASSUME DomainInv, AdvanceInv, [Next]_vars PROVE AdvanceInv'
<1>1. CASE Tick BY <1>1, TickAdvance
<1>2. CASE CommitTables
  <2>1. \A p \in 0..version' : Published(p)' => p \in 0..version /\ Published(p)
    BY <1>2, NothingPublished
  <2> QED
    BY <1>2, <2>1 DEF CommitTables, redisVars, requestVars, clientVars,
                AdvanceInv, KeyIsNewest, OutrunFindsKey, AnswersAdvance
<1>3. ASSUME NEW c \in Client,
             Request(c) \/ Hit(c) \/ Miss(c) \/ Build(c) \/ Reply(c) \/ Fail(c)
      PROVE  AdvanceInv'
  BY <1>3, StepAdvance
<1>4. ASSUME NEW c \in Client, Store(c) PROVE AdvanceInv'
  BY <1>4, StoreAdvance
<1>5. CASE UNCHANGED vars
  BY <1>5 DEF vars, tableVars, redisVars, requestVars, clientVars, Published,
              AdvanceInv, KeyIsNewest, OutrunFindsKey, AnswersAdvance
<1> QED BY <1>1, <1>2, <1>3, <1>4, <1>5 DEF Next

(* A request that begins after a reply is never answered with an older     *)
(* version, unless a build was stored over an answer that had not expired. *)
THEOREM AnswersOnlyAdvance == Spec => []AnswersAdvance
<1>1. AdvanceInv => AnswersAdvance BY DEF AdvanceInv
<1> QED BY InitDomain, NextDomain, InitAdvance, NextAdvance, <1>1, PTL DEF Spec
=============================================================================
