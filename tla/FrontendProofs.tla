--------------------------- MODULE FrontendProofs ---------------------------
(***************************************************************************)
(* The panels of the page under answers in any order: proofs for every     *)
(* set of regions and ZIP codes and any number of events.                  *)
(***************************************************************************)
EXTENDS Frontend, TLAPS

USE DEF Loading

(* The requests there can be.                                              *)
Requests ==
  (Nat \X {"now"} \X (Region \cup Zip)) \cup
  (Nat \X {"chart", "clean"} \X Region) \cup
  (Nat \X {"compare"} \X SUBSET Region) \cup
  (Nat \X {"ask", "insights", "regions"} \X {Home})

TypeInv ==
  /\ inflight \subseteq Requests
  /\ events \in Nat
  /\ region \in Region
  /\ compare \in SUBSET Region
  /\ overlapped \subseteq {"location", "compare", "ask", "insights"}

(* The region that an answer of /now is of.                                *)
Code(q) == IF q[3] \in Zip THEN RegionOf[q[3]] ELSE q[3]

LEMMA CodeIsRegion ==
  ASSUME NEW q \in Requests, q[2] = "now"
  PROVE  Code(q) \in Region
BY ZipsHaveRegions DEF Requests, Code

(* What the arguments of a request are.                                    *)
LEMMA RequestArguments ==
  ASSUME NEW q \in Requests
  PROVE  /\ q[1] \in Nat
         /\ q[2] \in {"chart", "clean"} => q[3] \in Region
         /\ q[2] = "compare" => q[3] \in SUBSET Region
BY DEF Requests

LEMMA InitTypeInv == Init => TypeInv
BY OpensWithRegions DEF Init, TypeInv, Requests

LEMMA StepTypeInv == TypeInv /\ [Next]_vars => TypeInv'
<1> SUFFICES ASSUME TypeInv, [Next]_vars PROVE TypeInv'
  OBVIOUS
<1> USE DEF TypeInv
<1>0. Home \in Region
  BY OpensWithRegions
<1>1. CASE ChooseRegion
  BY <1>1 DEF ChooseRegion, RefreshLocation, Event, compareVars, Requests
<1>2. CASE SubmitZip
  BY <1>2 DEF SubmitZip, RefreshLocation, Event, compareVars, Requests
<1>3. CASE ToggleChip
  <2>1. compare' \in SUBSET Region /\ events' \in Nat /\ region' = region
    BY <1>3 DEF ToggleChip, Event, locationVars
  <2>2. overlapped' \subseteq {"location", "compare", "ask", "insights"}
    BY <1>3 DEF ToggleChip, Event
  <2>3. inflight' \subseteq inflight \cup {<<events', "compare", compare'>>}
    BY <1>3 DEF ToggleChip
  <2> QED
    BY <2>1, <2>2, <2>3 DEF Requests
<1>4. CASE Ask
  BY <1>0, <1>4 DEF Ask, Event, locationVars, compareVars, Requests
<1>5. CASE Summarize
  BY <1>0, <1>5 DEF Summarize, Event, locationVars, compareVars, Requests
<1>6. ASSUME NEW q \in inflight, NowAnswers(q)
      PROVE  TypeInv'
  <2>1. Code(q) \in Region /\ q[1] \in Nat
    BY <1>6, CodeIsRegion, RequestArguments DEF NowAnswers, Arrives
  <2>2. /\ region' = Code(q) /\ compare' = compare /\ events' = events /\ overlapped' = overlapped
        /\ inflight' = (inflight \ {q}) \cup {<<q[1], "chart", Code(q)>>, <<q[1], "clean", Code(q)>>}
    BY <1>6 DEF NowAnswers, Arrives, Charted, Code, compareVars
  <2> QED
    BY <2>1, <2>2 DEF Requests
<1>7. ASSUME NEW q \in inflight,
             NowFails(q) \/ ChartArrives(q) \/ CleanArrives(q) \/ CompareArrives(q)
               \/ AskArrives(q) \/ InsightsArrive(q) \/ RegionsArrive(q)
      PROVE  TypeInv'
  BY <1>7 DEF NowFails, ChartArrives, CleanArrives, CompareArrives, AskArrives, InsightsArrive,
              RegionsArrive, Arrives, Answered, locationVars, compareVars
<1>8. CASE UNCHANGED vars
  BY <1>8 DEF vars, locationVars, compareVars
<1> QED
  BY <1>1, <1>2, <1>3, <1>4, <1>5, <1>6, <1>7, <1>8 DEF Next

LEMMA TypeIsInvariant == Spec => []TypeInv
BY InitTypeInv, StepTypeInv, PTL DEF Spec

-----------------------------------------------------------------------------
(* The NOW panel *)

LEMMA StepNamesRegion ==
  TypeInv /\ NowPanelNamesRegion /\ [Next]_vars => NowPanelNamesRegion'
<1> SUFFICES ASSUME TypeInv, NowPanelNamesRegion, [Next]_vars
             PROVE  NowPanelNamesRegion'
  OBVIOUS
<1> USE DEF NowPanelNamesRegion
<1>1. CASE ChooseRegion \/ SubmitZip
  BY <1>1 DEF ChooseRegion, SubmitZip, RefreshLocation
<1>2. CASE ToggleChip \/ Ask \/ Summarize
  BY <1>2 DEF ToggleChip, Ask, Summarize, locationVars
<1>3. ASSUME NEW q \in inflight, NowAnswers(q) \/ NowFails(q)
      PROVE  NowPanelNamesRegion'
  BY <1>3 DEF NowAnswers, NowFails, SelectedAfter
<1>4. ASSUME NEW q \in inflight, ChartArrives(q) \/ CleanArrives(q)
      PROVE  NowPanelNamesRegion'
  BY <1>4 DEF ChartArrives, CleanArrives
<1>5. ASSUME NEW q \in inflight, CompareArrives(q) \/ AskArrives(q) \/ InsightsArrive(q)
      PROVE  NowPanelNamesRegion'
  BY <1>5 DEF CompareArrives, AskArrives, InsightsArrive, locationVars
<1>6. ASSUME NEW q \in inflight, RegionsArrive(q)
      PROVE  NowPanelNamesRegion'
  BY <1>6 DEF RegionsArrive
<1>7. CASE UNCHANGED vars
  BY <1>7 DEF vars, locationVars
<1> QED
  BY <1>1, <1>2, <1>3, <1>4, <1>5, <1>6, <1>7 DEF Next

(* The NOW panel never shows another region than the selector names and    *)
(* the next load would use, in whatever order answers come                 *)
(* (app.js:413-416, 429, 436).                                             *)
THEOREM PanelNamesRegion == Spec => []NowPanelNamesRegion
<1>1. Init => NowPanelNamesRegion
  BY DEF Init, NowPanelNamesRegion
<1> QED
  BY <1>1, TypeIsInvariant, StepNamesRegion, PTL DEF Spec

-----------------------------------------------------------------------------
(* Skeletons *)

LEMMA StepShimmers == TypeInv /\ ShimmerMeansLoading /\ [Next]_vars => ShimmerMeansLoading'
<1> SUFFICES ASSUME TypeInv, ShimmerMeansLoading, [Next]_vars
             PROVE  ShimmerMeansLoading'
  OBVIOUS
<1> USE DEF ShimmerMeansLoading
<1>1. CASE ChooseRegion \/ SubmitZip
  <2>1. PICK r, place : RefreshLocation(r, place)
    BY <1>1 DEF ChooseRegion, SubmitZip
  <2>2. <<events', "now", place>> \in inflight' /\ inflight \subseteq inflight'
    BY <2>1 DEF RefreshLocation
  <2>3. UNCHANGED <<bars, ask, askBusy, insights, insBusy>>
    BY <2>1 DEF RefreshLocation, compareVars, askVars, insightsVars
  <2> QED
    BY <2>2, <2>3
<1>2. CASE ToggleChip
  <2>1. UNCHANGED <<now, clean, shimmer, ask, askBusy, insights, insBusy>>
    BY <1>2 DEF ToggleChip, locationVars, askVars, insightsVars
  <2>2. inflight \subseteq inflight' /\ (bars' = Skeleton => <<events', "compare", compare'>> \in inflight')
    BY <1>2, PanelsAreDistinct DEF ToggleChip
  <2> QED
    BY <2>1, <2>2
<1>3. CASE Ask
  <2>1. UNCHANGED <<now, clean, shimmer, bars, insights, insBusy>>
    BY <1>3 DEF Ask, locationVars, compareVars, insightsVars
  <2>2. inflight \subseteq inflight' /\ <<events', "ask", Home>> \in inflight'
    BY <1>3 DEF Ask
  <2> QED
    BY <2>1, <2>2
<1>4. CASE Summarize
  <2>1. UNCHANGED <<now, clean, shimmer, bars, ask, askBusy>>
    BY <1>4 DEF Summarize, locationVars, compareVars, askVars
  <2>2. inflight \subseteq inflight' /\ <<events', "insights", Home>> \in inflight'
    BY <1>4 DEF Summarize
  <2> QED
    BY <2>1, <2>2
<1>5. ASSUME NEW q \in inflight, NowAnswers(q)
      PROVE  ShimmerMeansLoading'
  <2>1. q[2] = "now" /\ now' # Skeleton
    BY <1>5, CodeIsRegion, PanelsAreDistinct DEF NowAnswers, Arrives, TypeInv, Code
  <2>2. /\ inflight \ {q} \subseteq inflight'
        /\ <<q[1], "chart", Code(q)>> \in inflight' /\ <<q[1], "clean", Code(q)>> \in inflight'
    BY <1>5 DEF NowAnswers, Charted, Code
  <2>3. UNCHANGED <<bars, ask, askBusy, insights, insBusy>>
    BY <1>5 DEF NowAnswers, compareVars, askVars, insightsVars
  <2> QED
    BY <2>1, <2>2, <2>3
<1>6. ASSUME NEW q \in inflight, NowFails(q)
      PROVE  ShimmerMeansLoading'
  <2>1. q[2] = "now" /\ inflight' = inflight \ {q} /\ now' # Skeleton /\ ~shimmer' /\ clean' # Skeleton
    BY <1>6, PanelsAreDistinct DEF NowFails, Arrives, Answered, CleanWithoutNow
  <2>2. UNCHANGED <<bars, ask, askBusy, insights, insBusy>>
    BY <1>6 DEF NowFails, compareVars, askVars, insightsVars
  <2> QED
    BY <2>1, <2>2
<1>7. ASSUME NEW q \in inflight, ChartArrives(q)
      PROVE  ShimmerMeansLoading'
  <2>1. q[2] = "chart" /\ inflight' = inflight \ {q} /\ ~shimmer'
    BY <1>7 DEF ChartArrives, Arrives, Answered
  <2>2. UNCHANGED <<now, clean, bars, ask, askBusy, insights, insBusy>>
    BY <1>7 DEF ChartArrives, compareVars, askVars, insightsVars
  <2> QED
    BY <2>1, <2>2
<1>8. ASSUME NEW q \in inflight, CleanArrives(q)
      PROVE  ShimmerMeansLoading'
  <2>1. q[2] = "clean" /\ inflight' = inflight \ {q} /\ clean' # Skeleton
    BY <1>8, RequestArguments, PanelsAreDistinct DEF CleanArrives, Arrives, Answered, TypeInv
  <2>2. UNCHANGED <<now, shimmer, bars, ask, askBusy, insights, insBusy>>
    BY <1>8 DEF CleanArrives, compareVars, askVars, insightsVars
  <2> QED
    BY <2>1, <2>2
<1>9. ASSUME NEW q \in inflight, CompareArrives(q)
      PROVE  ShimmerMeansLoading'
  <2>1. q[2] = "compare" /\ inflight' = inflight \ {q} /\ bars' # Skeleton
    BY <1>9, RequestArguments, PanelsAreDistinct DEF CompareArrives, Arrives, Answered, TypeInv
  <2>2. UNCHANGED <<now, clean, shimmer, ask, askBusy, insights, insBusy>>
    BY <1>9 DEF CompareArrives, locationVars, askVars, insightsVars
  <2> QED
    BY <2>1, <2>2
<1>10. ASSUME NEW q \in inflight, AskArrives(q)
       PROVE  ShimmerMeansLoading'
  <2>1. q[2] = "ask" /\ inflight' = inflight \ {q} /\ ask' # Skeleton /\ ~askBusy'
    BY <1>10, RequestArguments, PanelsAreDistinct DEF AskArrives, Arrives, Answered, TypeInv
  <2>2. UNCHANGED <<now, clean, shimmer, bars, insights, insBusy>>
    BY <1>10 DEF AskArrives, locationVars, compareVars, insightsVars
  <2> QED
    BY <2>1, <2>2
<1>11. ASSUME NEW q \in inflight, InsightsArrive(q)
       PROVE  ShimmerMeansLoading'
  <2>1. q[2] = "insights" /\ inflight' = inflight \ {q} /\ insights' # Skeleton /\ ~insBusy'
    BY <1>11, RequestArguments, PanelsAreDistinct DEF InsightsArrive, Arrives, Answered, TypeInv
  <2>2. UNCHANGED <<now, clean, shimmer, bars, ask, askBusy>>
    BY <1>11 DEF InsightsArrive, locationVars, compareVars, askVars
  <2> QED
    BY <2>1, <2>2
<1>12. ASSUME NEW q \in inflight, RegionsArrive(q)
       PROVE  ShimmerMeansLoading'
  <2>1. q[2] = "regions" /\ inflight' = inflight \ {q}
    BY <1>12 DEF RegionsArrive, Arrives, Answered
  <2>2. UNCHANGED <<now, clean, shimmer, bars, ask, askBusy, insights, insBusy>>
    BY <1>12 DEF RegionsArrive, compareVars, askVars, insightsVars
  <2> QED
    BY <2>1, <2>2
<1>13. CASE UNCHANGED vars
  BY <1>13 DEF vars, locationVars, compareVars, askVars, insightsVars
<1> QED
  BY <1>1, <1>2, <1>3, <1>4, <1>5, <1>6, <1>7, <1>8, <1>9, <1>10, <1>11, <1>12, <1>13 DEF Next

(* A panel shimmers, and a button is busy, only as long as a request is    *)
(* under way that will put an end to it, whatever fails and in whatever    *)
(* order answers come (app.js:55-88, 287-309, 406-413).                    *)
THEOREM SkeletonsAreLoading == Spec => []ShimmerMeansLoading
<1>1. Init => ShimmerMeansLoading
  BY PanelsAreDistinct DEF Init, ShimmerMeansLoading
<1> QED
  BY <1>1, TypeIsInvariant, StepShimmers, PTL DEF Spec

-----------------------------------------------------------------------------
(* Agreement.  Each group of panels has an invariant of its own, which the *)
(* steps of the others cannot disturb.                                     *)

IsLocation(q) == q[2] \in Kinds("location")

(* Without overlap, a request for /now is the only one of its group, and   *)
(* those that follow it are for the region it was answered with.           *)
LocationInv ==
  "location" \notin overlapped =>
    /\ \A q, s \in inflight : q[2] = "now" /\ IsLocation(s) => s = q
    /\ \A q \in inflight : q[2] \in {"chart", "clean"} => q[3] = region
    /\ now \notin {region, Blank} => Loading({"now"})
    /\ clean \notin {region, Blank} => Loading({"now", "clean"})
    /\ chart # region => chartLost \/ Loading({"now", "chart"})

CompareInv ==
  "compare" \notin overlapped =>
    /\ \A q \in inflight : q[2] = "compare" => q[3] = compare /\ compare # {}
    /\ bars \notin {compare, Blank} => Loading({"compare"})
    /\ compare = {} => bars = Blank

AskInv ==
  "ask" \notin overlapped =>
    /\ \A q \in inflight : q[2] = "ask" => q[1] = lastAsk
    /\ ask \notin {lastAsk, Blank} => Loading({"ask"})

(* A step of another group neither starts nor answers a request of this    *)
(* one, and neither begins nor ends an overlap of it.                      *)
Apart(group) ==
  /\ group \in overlapped' <=> group \in overlapped
  /\ \A q \in inflight \cup inflight' : q[2] \in Kinds(group) =>
       (q \in inflight' <=> q \in inflight)

LEMMA LocationApart ==
  ASSUME LocationInv, UNCHANGED <<region, now, clean, chart, chartLost>>, Apart("location")
  PROVE  LocationInv'
BY DEF LocationInv, Apart, Kinds, IsLocation

LEMMA CompareApart ==
  ASSUME CompareInv, UNCHANGED compareVars, Apart("compare")
  PROVE  CompareInv'
BY DEF CompareInv, Apart, Kinds, compareVars

LEMMA AskApart ==
  ASSUME AskInv, UNCHANGED askVars, Apart("ask")
  PROVE  AskInv'
BY DEF AskInv, Apart, Kinds, askVars

(* What the user does concerns one group.                                  *)
LEMMA EventApart ==
  ASSUME NEW group \in {"location", "compare", "ask", "insights"}, Event(group),
         NEW other \in {"location", "compare", "ask", "insights"} \ {group},
         NEW q, q[2] \in Kinds(group), inflight' \in {inflight, inflight \cup {q}}
  PROVE  Apart(other)
BY DEF Event, Apart, Kinds

LEMMA AnswerApart ==
  ASSUME NEW kind, NEW q \in inflight, Arrives(q, kind), inflight' = inflight \ {q},
         NEW other \in {"location", "compare", "ask", "insights"}, kind \notin Kinds(other)
  PROVE  Apart(other)
BY DEF Arrives, Apart

LEMMA LocationStep == TypeInv /\ LocationInv /\ [Next]_vars => LocationInv'
<1> SUFFICES ASSUME TypeInv, LocationInv, [Next]_vars PROVE LocationInv'
  OBVIOUS
<1>1. CASE ChooseRegion \/ SubmitZip
  <2>1. PICK r, place : RefreshLocation(r, place)
    BY <1>1 DEF ChooseRegion, SubmitZip
  <2>2. inflight' = inflight \cup {<<events', "now", place>>}
    BY <2>1 DEF RefreshLocation
  <2>3. "location" \notin overlapped' => \A q \in inflight : ~IsLocation(q)
    BY <2>1 DEF RefreshLocation, Event, IsLocation
  <2>4. <<events', "now", place>>[2] = "now"
    OBVIOUS
  <2> QED
    BY <2>2, <2>3, <2>4 DEF LocationInv, IsLocation, Kinds
<1>2. CASE ToggleChip
  <2>1. Event("compare") /\ inflight' \in {inflight, inflight \cup {<<events', "compare", compare'>>}}
    BY <1>2 DEF ToggleChip
  <2>2. Apart("location")
    BY <2>1, EventApart DEF Kinds
  <2> QED
    BY <1>2, <2>2, LocationApart DEF ToggleChip, locationVars
<1>3. CASE Ask
  <2>1. Apart("location")
    BY <1>3, EventApart DEF Ask, Kinds
  <2> QED
    BY <1>3, <2>1, LocationApart DEF Ask, locationVars
<1>4. CASE Summarize
  <2>1. Apart("location")
    BY <1>4, EventApart DEF Summarize, Kinds
  <2> QED
    BY <1>4, <2>1, LocationApart DEF Summarize, locationVars
<1>5. ASSUME NEW q \in inflight, NowAnswers(q)
      PROVE  LocationInv'
  <2>1. q[2] = "now" /\ overlapped' = overlapped
    BY <1>5 DEF NowAnswers, Arrives
  <2>2. /\ region' = Code(q) /\ now' = Code(q)
        /\ inflight' = (inflight \ {q}) \cup {<<q[1], "chart", Code(q)>>, <<q[1], "clean", Code(q)>>}
    BY <1>5 DEF NowAnswers, Charted, Code
  <2>3. "location" \notin overlapped' => \A s \in inflight \ {q} : ~IsLocation(s)
    BY <2>1 DEF LocationInv
  <2>4. Loading({"now", "clean"})' /\ Loading({"now", "chart"})'
    <3>1. <<q[1], "chart", Code(q)>> \in inflight' /\ <<q[1], "clean", Code(q)>> \in inflight'
      BY <2>2
    <3> QED
      BY <3>1
  <2>5. "location" \notin overlapped' =>
          \A s \in inflight' :
            s[2] # "now" /\ (s[2] \in {"chart", "clean"} => s[3] = region')
    BY <2>1, <2>2, <2>3 DEF IsLocation, Kinds
  <2> QED
    BY <2>2, <2>4, <2>5 DEF LocationInv
<1>6. ASSUME NEW q \in inflight, NowFails(q)
      PROVE  LocationInv'
  <2>1. /\ q[2] = "now" /\ overlapped' = overlapped /\ inflight' = inflight \ {q}
        /\ region' = region /\ now' = Blank /\ clean' = Blank /\ chartLost'
    BY <1>6 DEF NowFails, Arrives, Answered, CleanWithoutNow
  <2> QED
    BY <2>1 DEF LocationInv, IsLocation, Kinds
<1>7. ASSUME NEW q \in inflight, ChartArrives(q)
      PROVE  LocationInv'
  <2>1. /\ q[2] = "chart" /\ overlapped' = overlapped /\ inflight' = inflight \ {q}
        /\ UNCHANGED <<region, now, clean>>
        /\ \/ chart' = q[3]
           \/ chartLost'
    BY <1>7 DEF ChartArrives, Arrives, Answered
  <2> QED
    BY <2>1 DEF LocationInv, IsLocation, Kinds
<1>8. ASSUME NEW q \in inflight, CleanArrives(q)
      PROVE  LocationInv'
  <2>1. /\ q[2] = "clean" /\ overlapped' = overlapped /\ inflight' = inflight \ {q}
        /\ UNCHANGED <<region, now, chart, chartLost>>
        /\ clean' \in {q[3], Blank}
    BY <1>8 DEF CleanArrives, Arrives, Answered
  <2> QED
    BY <2>1 DEF LocationInv, IsLocation, Kinds
<1>9. ASSUME NEW q \in inflight,
             CompareArrives(q) \/ AskArrives(q) \/ InsightsArrive(q) \/ RegionsArrive(q)
      PROVE  LocationInv'
  <2>1. PICK kind \in {"compare", "ask", "insights", "regions"} :
          Arrives(q, kind) /\ inflight' = inflight \ {q}
    BY <1>9 DEF CompareArrives, AskArrives, InsightsArrive, RegionsArrive, Answered
  <2>2. Apart("location")
    BY <2>1, AnswerApart DEF Kinds
  <2>3. UNCHANGED <<region, now, clean, chart, chartLost>>
    BY <1>9 DEF CompareArrives, AskArrives, InsightsArrive, RegionsArrive, locationVars
  <2> QED
    BY <2>2, <2>3, LocationApart
<1>10. CASE UNCHANGED vars
  BY <1>10, LocationApart DEF vars, locationVars, Apart
<1> QED
  BY <1>1, <1>2, <1>3, <1>4, <1>5, <1>6, <1>7, <1>8, <1>9, <1>10 DEF Next

LEMMA CompareStep == CompareInv /\ [Next]_vars => CompareInv'
<1> SUFFICES ASSUME CompareInv, [Next]_vars PROVE CompareInv'
  OBVIOUS
<1>1. CASE ChooseRegion \/ SubmitZip
  <2>1. PICK r, place : RefreshLocation(r, place)
    BY <1>1 DEF ChooseRegion, SubmitZip
  <2>2. Apart("compare")
    BY <2>1, EventApart DEF RefreshLocation, Kinds
  <2> QED
    BY <2>1, <2>2, CompareApart DEF RefreshLocation
<1>2. CASE ToggleChip
  <2>1. "compare" \notin overlapped' => \A q \in inflight : q[2] # "compare"
    BY <1>2 DEF ToggleChip, Event, Kinds
  <2>2. CASE compare' = {}
    BY <1>2, <2>1, <2>2 DEF ToggleChip, CompareInv
  <2>3. CASE compare' # {}
    <3>1. inflight' = inflight \cup {<<events', "compare", compare'>>}
      BY <1>2, <2>3 DEF ToggleChip
    <3>2. Loading({"compare"})'
      <4>1. <<events', "compare", compare'>> \in inflight'
        BY <3>1
      <4> QED
        BY <4>1
    <3>3. "compare" \notin overlapped' =>
            \A q \in inflight' : q[2] = "compare" => q[3] = compare'
      BY <2>1, <3>1
    <3> QED
      BY <2>3, <3>2, <3>3 DEF CompareInv
  <2> QED
    BY <2>2, <2>3
<1>3. CASE Ask
  <2>1. Apart("compare")
    BY <1>3, EventApart DEF Ask, Kinds
  <2> QED
    BY <1>3, <2>1, CompareApart DEF Ask
<1>4. CASE Summarize
  <2>1. Apart("compare")
    BY <1>4, EventApart DEF Summarize, Kinds
  <2> QED
    BY <1>4, <2>1, CompareApart DEF Summarize
<1>5. ASSUME NEW q \in inflight, NowAnswers(q)
      PROVE  CompareInv'
  <2>1. Apart("compare")
    BY <1>5 DEF NowAnswers, Arrives, Apart, Kinds
  <2> QED
    BY <1>5, <2>1, CompareApart DEF NowAnswers
<1>6. ASSUME NEW q \in inflight,
             NowFails(q) \/ ChartArrives(q) \/ CleanArrives(q) \/ AskArrives(q)
               \/ InsightsArrive(q) \/ RegionsArrive(q)
      PROVE  CompareInv'
  <2>1. PICK kind \in {"now", "chart", "clean", "ask", "insights", "regions"} :
          Arrives(q, kind) /\ inflight' = inflight \ {q}
    BY <1>6 DEF NowFails, ChartArrives, CleanArrives, AskArrives, InsightsArrive, RegionsArrive, Answered
  <2>2. Apart("compare")
    BY <2>1, AnswerApart DEF Kinds
  <2>3. UNCHANGED compareVars
    BY <1>6 DEF NowFails, ChartArrives, CleanArrives, AskArrives, InsightsArrive, RegionsArrive
  <2> QED
    BY <2>2, <2>3, CompareApart
<1>7. ASSUME NEW q \in inflight, CompareArrives(q)
      PROVE  CompareInv'
  <2>1. /\ q[2] = "compare" /\ overlapped' = overlapped /\ inflight' = inflight \ {q}
        /\ compare' = compare /\ bars' \in {q[3], Blank}
    BY <1>7 DEF CompareArrives, Arrives, Answered
  <2> QED
    BY <2>1 DEF CompareInv
<1>8. CASE UNCHANGED vars
  BY <1>8, CompareApart DEF vars, Apart
<1> QED
  BY <1>1, <1>2, <1>3, <1>4, <1>5, <1>6, <1>7, <1>8 DEF Next

LEMMA AskStep == AskInv /\ [Next]_vars => AskInv'
<1> SUFFICES ASSUME AskInv, [Next]_vars PROVE AskInv'
  OBVIOUS
<1>1. CASE ChooseRegion \/ SubmitZip
  <2>1. PICK r, place : RefreshLocation(r, place)
    BY <1>1 DEF ChooseRegion, SubmitZip
  <2>2. Apart("ask")
    BY <2>1, EventApart DEF RefreshLocation, Kinds
  <2> QED
    BY <2>1, <2>2, AskApart DEF RefreshLocation
<1>2. CASE ToggleChip
  <2>1. Event("compare") /\ inflight' \in {inflight, inflight \cup {<<events', "compare", compare'>>}}
    BY <1>2 DEF ToggleChip
  <2>2. Apart("ask")
    BY <2>1, EventApart DEF Kinds
  <2> QED
    BY <1>2, <2>2, AskApart DEF ToggleChip
<1>3. CASE Ask
  <2>1. "ask" \notin overlapped' => \A q \in inflight : q[2] # "ask"
    BY <1>3 DEF Ask, Event, Kinds
  <2>2. inflight' = inflight \cup {<<events', "ask", Home>>} /\ lastAsk' = events'
    BY <1>3 DEF Ask
  <2>3. Loading({"ask"})'
    <3>1. <<events', "ask", Home>> \in inflight'
      BY <2>2
    <3> QED
      BY <3>1
  <2>4. "ask" \notin overlapped' => \A q \in inflight' : q[2] = "ask" => q[1] = lastAsk'
    BY <2>1, <2>2
  <2> QED
    BY <2>3, <2>4 DEF AskInv
<1>4. CASE Summarize
  <2>1. Apart("ask")
    BY <1>4, EventApart DEF Summarize, Kinds
  <2> QED
    BY <1>4, <2>1, AskApart DEF Summarize
<1>5. ASSUME NEW q \in inflight, NowAnswers(q)
      PROVE  AskInv'
  <2>1. Apart("ask")
    BY <1>5 DEF NowAnswers, Arrives, Apart, Kinds
  <2> QED
    BY <1>5, <2>1, AskApart DEF NowAnswers
<1>6. ASSUME NEW q \in inflight,
             NowFails(q) \/ ChartArrives(q) \/ CleanArrives(q) \/ CompareArrives(q)
               \/ InsightsArrive(q) \/ RegionsArrive(q)
      PROVE  AskInv'
  <2>1. PICK kind \in {"now", "chart", "clean", "compare", "insights", "regions"} :
          Arrives(q, kind) /\ inflight' = inflight \ {q}
    BY <1>6 DEF NowFails, ChartArrives, CleanArrives, CompareArrives, InsightsArrive,
                RegionsArrive, Answered
  <2>2. Apart("ask")
    BY <2>1, AnswerApart DEF Kinds
  <2>3. UNCHANGED askVars
    BY <1>6 DEF NowFails, ChartArrives, CleanArrives, CompareArrives, InsightsArrive, RegionsArrive
  <2> QED
    BY <2>2, <2>3, AskApart
<1>7. ASSUME NEW q \in inflight, AskArrives(q)
      PROVE  AskInv'
  <2>1. /\ q[2] = "ask" /\ overlapped' = overlapped /\ inflight' = inflight \ {q}
        /\ lastAsk' = lastAsk /\ ask' \in {q[1], Blank}
    BY <1>7 DEF AskArrives, Arrives, Answered
  <2> QED
    BY <2>1 DEF AskInv
<1>8. CASE UNCHANGED vars
  BY <1>8, AskApart DEF vars, Apart
<1> QED
  BY <1>1, <1>2, <1>3, <1>4, <1>5, <1>6, <1>7, <1>8 DEF Next

(* When all requests are answered and no two loads of a panel overlapped,  *)
(* every panel shows what was asked for last or nothing; only the chart    *)
(* keeps an earlier region's, when its own could not be loaded             *)
(* (app.js:177-181, 225-229, 258-264, 344-350, 406-418).                   *)
THEOREM PanelsAgree == Spec => []PanelsAgreeUnlessOverlapped
<1>1. Init => LocationInv /\ CompareInv /\ AskInv
  <2> SUFFICES ASSUME Init PROVE LocationInv /\ CompareInv /\ AskInv
    OBVIOUS
  <2>1. inflight = {<<0, "now", Home>>, <<0, "compare", Preset>>, <<0, "regions", Home>>}
    BY DEF Init
  <2>2. LocationInv
    BY <2>1 DEF Init, LocationInv, IsLocation, Kinds
  <2>3. CompareInv
    BY <2>1, OpensWithRegions DEF Init, CompareInv
  <2>4. AskInv
    BY <2>1 DEF Init, AskInv
  <2> QED
    BY <2>2, <2>3, <2>4
<1>2. LocationInv /\ CompareInv /\ AskInv => PanelsAgreeUnlessOverlapped
  BY DEF LocationInv, CompareInv, AskInv, PanelsAgreeUnlessOverlapped
<1> QED
  BY <1>1, <1>2, TypeIsInvariant, LocationStep, CompareStep, AskStep, PTL DEF Spec
=============================================================================
