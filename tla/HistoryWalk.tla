----------------------------- MODULE HistoryWalk -----------------------------
(***************************************************************************)
(* A client walks /v1/carbon/history of one region from the newest hour to *)
(* the oldest, following next_cursor, while the ingest inserts hours.  A   *)
(* row of carbon_intensity_hourly is its period, a natural number; rows    *)
(* are never deleted, and an upsert of an existing one leaves the set of   *)
(* periods alone.                                                          *)
(***************************************************************************)
EXTENDS Integers, FiniteSets

CONSTANTS
  Period,    \* bound: the hours there can be
  Limits,    \* values of the `limit` parameter
  NoBound,   \* `start` or `end` is not given
  NoCursor   \* `cursor` is not given, next_cursor is None

ASSUME PeriodsAreFinite == Period \subseteq Int /\ IsFiniteSet(Period)
ASSUME LimitsArePositive == Limits \subseteq Nat \ {0}
ASSUME SentinelsAreNoPeriods == NoBound \notin Int /\ NoCursor \notin Int

VARIABLES
  table,   \* periods of carbon_intensity_hourly
  start,   \* `start` of the walk
  end,     \* `end` of the walk
  pc,      \* the client is "walking", or "done"
  cursor,  \* next_cursor of the last page
  served,  \* how often the walk has returned each period
  late     \* ghost: periods inserted after the walk had passed them

vars == <<table, start, end, pc, cursor, served, late>>

Init ==
  /\ table \in SUBSET Period
  /\ start \in Period \cup {NoBound}
  /\ end \in Period \cup {NoBound}
  /\ pc = "walking"
  /\ cursor = NoCursor
  /\ served = [t \in Period |-> 0]
  /\ late = {}

InRange(t) ==
  /\ start # NoBound => t >= start
  /\ end # NoBound => t <= end

BeforeCursorOrAt(t) == cursor # NoCursor => t <= cursor  \* mutant: <= for <
BeforeCursor(t) == cursor # NoCursor => t < cursor

Matching == {t \in table : InRange(t) /\ BeforeCursor(t)}

(* ORDER BY period DESC LIMIT n                                            *)
Newest(S, n) == {t \in S : Cardinality({u \in S : u > t}) < n}

Last(S) == {c \in S : \A u \in S : c <= u}

(* get_history selects limit + 1 rows to see whether there are more than   *)
(* limit; the cursor names the last row it keeps.                          *)
AnyPage(limit) == TRUE  \* mutant: next_cursor on every page
HasMore(limit) == Cardinality(Matching) > limit

CursorOfExtraRow(limit) == Last(Newest(Matching, limit + 1))      \* mutant: the row dropped
CursorBelow(limit) == {c - 1 : c \in Last(Newest(Matching, limit))}  \* mutant: an hour off
CursorAfter(limit) == Last(Newest(Matching, limit))

Returned(limit) ==
  served' = [t \in Period |-> IF t \in Newest(Matching, limit) THEN served[t] + 1
                                                                ELSE served[t]]

NextPage(limit) ==
  /\ pc = "walking"
  /\ HasMore(limit)
  /\ cursor' \in CursorAfter(limit)
  /\ Returned(limit)
  /\ UNCHANGED <<table, start, end, pc, late>>

LastPage(limit) ==
  /\ pc = "walking"
  /\ ~HasMore(limit)
  /\ pc' = "done"
  /\ cursor' = NoCursor
  /\ Returned(limit)
  /\ UNCHANGED <<table, start, end, late>>

Passed(t) == pc = "done" \/ ~BeforeCursor(t)

(* recompute_region inserts an hour, new at the front or backfilled.       *)
Insert(t) ==
  /\ t \notin table
  /\ table' = table \cup {t}
  /\ late' = IF Passed(t) THEN late \cup {t} ELSE late
  /\ UNCHANGED <<start, end, pc, cursor, served>>

Next ==
  \/ \E limit \in Limits : NextPage(limit) \/ LastPage(limit)
  \/ \E t \in Period : Insert(t)

Spec == Init /\ [][Next]_vars

(* The client keeps asking until next_cursor is None.                      *)
FairSpec == Spec /\ WF_vars(\E limit \in Limits : NextPage(limit) \/ LastPage(limit))

-----------------------------------------------------------------------------

(* Every variable stays in its domain; a cursor names a row of the table.  *)
TypeOK ==
  /\ table \in SUBSET Period
  /\ start \in Period \cup {NoBound}
  /\ end \in Period \cup {NoBound}
  /\ pc \in {"walking", "done"}
  /\ cursor \in table \cup {NoCursor}
  /\ served \in [Period -> Nat]
  /\ late \in SUBSET table

(* No hour is returned twice, and none outside the range or that is not    *)
(* there, whatever is inserted between the pages (pagination.py:3-5,       *)
(* queries.py:170-190).                                                    *)
NothingTwice ==
  \A t \in Period :
    /\ served[t] <= 1
    /\ served[t] > 0 => t \in table /\ InRange(t)

(* The walk returns every hour of the range that was there at the first    *)
(* page or came before the walk passed its place.                          *)
NothingMissed ==
  \A t \in table \ late : InRange(t) /\ Passed(t) => served[t] = 1

(* The walk keeps the promise of a listing: whatever the limits and the    *)
(* inserts, each page hands over the newest hours still owed, none is      *)
(* handed over again, and the last page leaves nothing owed                *)
(* (queries.py:170-190).                                                   *)
Promise == INSTANCE Listing WITH
  Row <- Period,
  got <- {t \in Period : served[t] > 0},
  owed <- {t \in table : InRange(t) /\ ~Passed(t)},
  finished <- pc = "done"

KeepsPromise == Promise!Spec

(* A walk comes to its last page, also while hours are inserted.           *)
WalkEnds == <>(pc = "done")
=============================================================================
