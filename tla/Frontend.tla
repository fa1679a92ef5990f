------------------------------ MODULE Frontend ------------------------------
(***************************************************************************)
(* The page of frontend/app.js: what the user does starts requests, each   *)
(* of which is answered, or fails, at any later time and in any order; the *)
(* code after an `await api(...)` runs to the next one without a pause.    *)
(*                                                                         *)
(* A panel shows Skeleton while it loads, Blank (dashes, no bars, hidden)  *)
(* when it has nothing to show, or else what its data is of.               *)
(***************************************************************************)
EXTENDS Integers

CONSTANTS
  Region,     \* region codes that /v1/regions lists
  Home,       \* the region the page opens with
  Preset,     \* the regions it opens the comparison with
  Zip,        \* ZIP codes
  RegionOf,   \* ZIP code -> its region, as /v1/carbon/now resolves it
  MaxEvents,  \* bound: what the user does
  Skeleton,
  Blank

ASSUME OpensWithRegions == Home \in Region /\ Preset \in (SUBSET Region) \ {{}}
ASSUME ZipsHaveRegions == RegionOf \in [Zip -> Region]
ASSUME EventsAreNatural == MaxEvents \in Nat
ASSUME PanelsAreDistinct ==
  /\ Skeleton # Blank
  /\ \A p \in {Skeleton, Blank} : p \notin Region \cup Nat /\ \A S \in SUBSET Region : p # S

VARIABLES
  region,      \* state.region
  compare,     \* state.compare, a set: the API sorts what it answers
  known,       \* /v1/regions has been answered
  selected,    \* #region-select, Blank while it has no options
  now,         \* the NOW panel
  chart,       \* the chart
  shimmer,     \* an overlay shimmers over the chart
  clean,       \* the cleanest-hour panel
  bars,        \* the bars of the comparison
  ask,         \* the answer to a question: the event that asked it
  askBusy,     \* the button shows a spinner
  insights,    \* the summary: the event that asked for it
  insBusy,     \* the button shows a spinner and takes no click
  inflight,    \* requests that are not answered: <<event, kind, argument>>
  events,      \* what the user has done; 0 is the opening of the page
  lastAsk,     \* ghost: the event of the last question
  overlapped,  \* ghost: groups of panels whose loads have overlapped
  chartLost    \* ghost: the chart of the last location could not be loaded

locationVars == <<region, selected, now, chart, shimmer, clean, chartLost>>
compareVars == <<compare, bars>>
askVars == <<ask, askBusy, lastAsk>>
insightsVars == <<insights, insBusy>>
vars ==
  <<locationVars, compareVars, askVars, insightsVars, known, inflight, events, overlapped>>

(* init(): the three loads that the page opens with.                       *)
Init ==
  /\ region = Home /\ compare = Preset
  /\ known = FALSE /\ selected = Blank
  /\ now = Skeleton /\ clean = Skeleton /\ bars = Skeleton
  /\ chart = Blank /\ shimmer = TRUE
  /\ ask = Blank /\ askBusy = FALSE
  /\ insights = Blank /\ insBusy = FALSE
  /\ inflight = {<<0, "now", Home>>, <<0, "compare", Preset>>, <<0, "regions", Home>>}
  /\ events = 0
  /\ lastAsk = 0 /\ overlapped = {} /\ chartLost = FALSE

-----------------------------------------------------------------------------
(* The user *)

Kinds(group) == IF group = "location" THEN {"now", "chart", "clean"} ELSE {group}

Event(group) ==
  /\ events < MaxEvents
  /\ events' = events + 1
  /\ overlapped' = IF \E q \in inflight : q[2] \in Kinds(group)
                     THEN overlapped \cup {group} ELSE overlapped \ {group}

(* refreshLocation, up to its await.                                       *)
RefreshLocation(r, place) ==
  /\ Event("location")
  /\ region' = r
  /\ now' = Skeleton /\ shimmer' = TRUE /\ clean' = Skeleton
  /\ inflight' = inflight \cup {<<events', "now", place>>}
  /\ chartLost' = FALSE
  /\ UNCHANGED <<chart, compareVars, askVars, insightsVars, known>>

ChooseRegion ==
  /\ known
  /\ \E r \in Region \ {selected} :
       RefreshLocation(r, r) /\ selected' = r

SubmitZip ==
  /\ \E z \in Zip : RefreshLocation(region, z)
  /\ UNCHANGED selected

(* A chip of the comparison, and loadCompare up to its await.              *)
ToggleChip ==
  /\ known
  /\ Event("compare")
  /\ \E r \in Region :
       compare' = IF r \in compare THEN compare \ {r} ELSE compare \cup {r}
  /\ IF compare' = {}
       THEN bars' = Blank /\ UNCHANGED inflight
       ELSE /\ bars' = Skeleton
            /\ inflight' = inflight \cup {<<events', "compare", compare'>>}
  /\ UNCHANGED <<locationVars, askVars, insightsVars, known>>

(* runAsk, up to its await: by the button, or by an example, which does    *)
(* not wait for the button.                                                *)
Ask ==
  /\ Event("ask")
  /\ askBusy' = TRUE /\ ask' = Skeleton
  /\ lastAsk' = events'
  /\ inflight' = inflight \cup {<<events', "ask", Home>>}
  /\ UNCHANGED <<locationVars, compareVars, insightsVars, known>>

(* runInsights, up to its await.                                           *)
Summarize ==
  /\ ~insBusy
  /\ Event("insights")
  /\ insBusy' = TRUE /\ insights' = Skeleton
  /\ inflight' = inflight \cup {<<events', "insights", Home>>}
  /\ UNCHANGED <<locationVars, compareVars, askVars, known>>

-----------------------------------------------------------------------------
(* The API *)

Arrives(q, kind) ==
  /\ q[2] = kind
  /\ UNCHANGED <<events, overlapped>>

Answered(q) == inflight' = inflight \ {q}

SelectedAsBefore(code) == selected  \* mutant: the selector is not set
SelectedAfter(code) == IF known THEN code ELSE Blank

ChartedAsBefore(code) == region  \* mutant: loadChart(state.region) comes first
Charted(code) == code

(* refreshLocation, loadChart and loadCleanest after the answer of /now.   *)
NowAnswers(q) ==
  LET code == IF q[3] \in Zip THEN RegionOf[q[3]] ELSE q[3]
  IN  /\ Arrives(q, "now")
      /\ region' = code
      /\ selected' = SelectedAfter(code)
      /\ now' = code
      /\ shimmer' = TRUE /\ clean' = Skeleton
      /\ inflight' = (inflight \ {q})
           \cup {<<q[1], "chart", Charted(code)>>, <<q[1], "clean", code>>}
      /\ UNCHANGED <<chart, chartLost, compareVars, askVars, insightsVars, known>>

CleanAsBefore == clean  \* mutant: without cleanSkeleton(false)
CleanWithoutNow == Blank

NowFails(q) ==
  /\ Arrives(q, "now") /\ Answered(q)
  /\ now' = Blank /\ shimmer' = FALSE
  /\ clean' = CleanWithoutNow
  /\ chartLost' = TRUE
  /\ UNCHANGED <<region, selected, chart, compareVars, askVars, insightsVars, known>>

(* loadChart awaits two answers; without either of them the chart stays as *)
(* it is.                                                                  *)
ChartArrives(q) ==
  /\ Arrives(q, "chart") /\ Answered(q)
  /\ shimmer' = FALSE
  /\ \/ chart' = q[3] /\ UNCHANGED chartLost
     \/ chartLost' = TRUE /\ UNCHANGED chart
  /\ UNCHANGED <<region, selected, now, clean, compareVars, askVars, insightsVars, known>>

CleanArrives(q) ==
  /\ Arrives(q, "clean") /\ Answered(q)
  /\ clean' \in {q[3], Blank}
  /\ UNCHANGED <<region, selected, now, chart, shimmer, chartLost>>
  /\ UNCHANGED <<compareVars, askVars, insightsVars, known>>

CompareArrives(q) ==
  /\ Arrives(q, "compare") /\ Answered(q)
  /\ bars' \in {q[3], Blank}
  /\ UNCHANGED <<compare, locationVars, askVars, insightsVars, known>>

AskArrives(q) ==
  /\ Arrives(q, "ask") /\ Answered(q)
  /\ askBusy' = FALSE
  /\ ask' \in {q[1], Blank}
  /\ UNCHANGED <<lastAsk, locationVars, compareVars, insightsVars, known>>

InsightsArrive(q) ==
  /\ Arrives(q, "insights") /\ Answered(q)
  /\ insBusy' = FALSE
  /\ insights' \in {q[1], Blank}
  /\ UNCHANGED <<locationVars, compareVars, askVars, known>>

(* loadRegions: without an answer the selectors and the chips stay empty.  *)
RegionsArrive(q) ==
  /\ Arrives(q, "regions") /\ Answered(q)
  /\ \/ known' = TRUE /\ selected' = region
     \/ UNCHANGED <<known, selected>>
  /\ UNCHANGED <<region, now, chart, shimmer, clean, chartLost>>
  /\ UNCHANGED <<compareVars, askVars, insightsVars>>

Next ==
  \/ ChooseRegion \/ SubmitZip \/ ToggleChip \/ Ask \/ Summarize
  \/ \E q \in inflight :
       \/ NowAnswers(q) \/ NowFails(q) \/ ChartArrives(q) \/ CleanArrives(q)
       \/ CompareArrives(q) \/ AskArrives(q) \/ InsightsArrive(q) \/ RegionsArrive(q)

Spec == Init /\ [][Next]_vars

-----------------------------------------------------------------------------
(* Properties *)

Loading(kinds) == \E q \in inflight : q[2] \in kinds

(* A panel shimmers, and a button is busy, only as long as a request is    *)
(* under way that will put an end to it, whatever fails and in whatever    *)
(* order answers come (app.js:55-88, 287-309, 406-413).                    *)
ShimmerMeansLoading ==
  /\ now = Skeleton => Loading({"now"})
  /\ clean = Skeleton => Loading({"now", "clean"})
  /\ shimmer => Loading({"now", "chart"})
  /\ bars = Skeleton => Loading({"compare"})
  /\ ask = Skeleton \/ askBusy => Loading({"ask"})
  /\ insights = Skeleton \/ insBusy => Loading({"insights"})

(* The NOW panel never shows another region than the selector names and    *)
(* the next load would use (app.js:413-416, 429, 436).                     *)
NowPanelNamesRegion ==
  now \notin {Skeleton, Blank} => now = region /\ (known => selected = region)

(* When all requests are answered and no two loads of a panel overlapped,  *)
(* every panel shows what was asked for last or nothing; only the chart    *)
(* keeps an earlier region's, when its own could not be loaded             *)
(* (app.js:177-181, 225-229, 258-264, 344-350, 406-418).                   *)
PanelsAgreeUnlessOverlapped ==
  inflight = {} =>
    /\ "location" \notin overlapped =>
         /\ clean \in {region, Blank}
         /\ chart # region => chartLost
         /\ now \in {region, Blank}
    /\ "compare" \notin overlapped =>
         bars \in {compare, Blank} /\ (compare = {} => bars = Blank)
    /\ "ask" \notin overlapped => ask \in {lastAsk, Blank}
=============================================================================
