------------------------------ MODULE CarbonNow ------------------------------
(***************************************************************************)
(* Readers of the tables beside the processes of module Ingest: requests   *)
(* to /v1/carbon/now and /v1/carbon/compare, which read with several       *)
(* statements, each of which sees whatever is committed when it runs       *)
(* (READ COMMITTED).  Requests that one cache hit answers are module       *)
(* ResponseCache; here every request builds its answer.                    *)
(***************************************************************************)
EXTENDS Ingest, SequencesExt

CONSTANTS
  Reader,    \* requests in flight at a time
  Code,      \* codes a client may ask for, known or not
  MaxCodes,  \* codes of a comparison that are used: 10 in the code
  NoReply    \* no reply yet

ASSUME RegionsAreCodes == Region \subseteq Code
ASSUME MaxCodesIsNatural == MaxCodes \in Nat
ASSUME NoReplyIsNoRow == NoReply # NoIntensity

VARIABLES
  rpc,      \* per reader: "idle", or the next thing its request reads
  codes,    \* per reader: the codes of its request
  found,    \* per reader: the intensity rows it has read
  missing,  \* per reader: codes without a row
  reply,    \* per reader: its last reply
  shown,    \* ghost: the newest hour a reply has named, per region
  floor,    \* ghost, per reader: `shown` when its request began
  served    \* ghost, per reader: regions with intensities when it began

readerVars == <<rpc, codes, found, missing, reply, shown, floor, served>>
allVars == <<vars, readerVars>>

NowInit ==
  /\ Init
  /\ rpc = [r \in Reader |-> "idle"]
  /\ codes = [r \in Reader |-> <<>>]
  /\ found = [r \in Reader |-> <<>>]
  /\ missing = [r \in Reader |-> <<>>]
  /\ reply = [r \in Reader |-> NoReply]
  /\ shown = [c \in Region |-> 0]
  /\ floor = [r \in Reader |-> [c \in Region |-> 0]]
  /\ served = [r \in Reader |-> {}]

-----------------------------------------------------------------------------
(* Statements *)

Hours(c) == {t \in Period : intensity[c][t] # NoIntensity}

(* ORDER BY period DESC LIMIT 1                                            *)
LatestOf(c) == Max(Hours(c))
Available(c) == c \in Region /\ Hours(c) # {}

(* What makes the intensities of a region lag behind its generation.       *)
Lagging(c) ==
  tainted[c] \/ \E w \in Worker : region[w] = c /\ BetweenCommits(w)

(* _latest_intensity; `mix` and `lagging` are ghosts.                      *)
LatestIntensity(c) ==
  [code |-> c, period |-> LatestOf(c), row |-> intensity[c][LatestOf(c)],
   mix |-> gen[c][LatestOf(c)], lagging |-> Lagging(c)]

-----------------------------------------------------------------------------
(* Requests *)

Ask(r, next, cs) ==
  /\ rpc[r] = "idle"
  /\ rpc' = [rpc EXCEPT ![r] = next]
  /\ codes' = [codes EXCEPT ![r] = cs]
  /\ found' = [found EXCEPT ![r] = <<>>]
  /\ missing' = [missing EXCEPT ![r] = <<>>]
  /\ reply' = [reply EXCEPT ![r] = NoReply]
  /\ floor' = [floor EXCEPT ![r] = shown]
  /\ served' = [served EXCEPT ![r] = {c \in Region : Available(c)}]
  /\ UNCHANGED shown

(* carbon_now; resolve_region has found the region.                        *)
AskNow(r) == \E c \in Region : Ask(r, "latest", <<c>>)

(* carbon_compare: the codes are cut at MaxCodes, and stay as they are     *)
(* otherwise, repeated and unknown ones included.                          *)
AskCompare(r) ==
  \E cs \in SeqOf(Code, MaxCodes + 1) :
    Ask(r, "compare", SubSeq(cs, 1, IF Len(cs) < MaxCodes THEN Len(cs) ELSE MaxCodes))

Replies(r, answer) ==
  /\ rpc' = [rpc EXCEPT ![r] = "idle"]
  /\ reply' = [reply EXCEPT ![r] = answer]
  /\ UNCHANGED <<codes, found, missing, floor, served>>

(* build_now, first statement: without a row the answer is 503.            *)
ReadLatest(r) ==
  LET c == codes[r][1]
  IN  /\ rpc[r] = "latest"
      /\ IF Available(c)
           THEN /\ rpc' = [rpc EXCEPT ![r] = "mix"]
                /\ found' = [found EXCEPT ![r] = <<LatestIntensity(c)>>]
                /\ UNCHANGED <<codes, missing, reply, floor, served>>
           ELSE Replies(r, [kind |-> "503", code |-> c])
      /\ UNCHANGED shown

ReportedMix(mix, total) ==  \* mutant: negative generation is not clamped
  [f \in ReportedFuels(mix) |-> RoundDiv(ShareScale * mix[f], total)]

(* Each fuel's share of the row's total, not of the sum of what is here.   *)
FuelMix(mix, total) ==
  [f \in Generating(mix) |-> RoundDiv(ShareScale * mix[f], total)]

NewestGeneration(c, t) == gen[c][published[c]]  \* mutant: not the row's hour
GenerationOf(c, t) == gen[c][t]

(* build_now, second statement: the generation of the row's hour, as it    *)
(* stands by then.                                                         *)
ReadMix(r) ==
  LET read == found[r][1]
      mix == GenerationOf(read.code, read.period)
  IN  /\ rpc[r] = "mix"
      /\ Replies(r, [kind |-> "now", read |-> read, mix |-> mix,
                     shares |-> FuelMix(mix, read.row.total)])
      /\ shown' = [shown EXCEPT ![read.code] = IF @ < read.period THEN read.period ELSE @]

(* build_compare: the next code of the loop ...                            *)
Compared(r) == Len(found[r]) + Len(missing[r])

(* The ORM answers with the object that the last iteration still holds     *)
(* when the row is the same, whatever its values are by now.               *)
StillLoaded(r, c) ==
  /\ found[r] # <<>> /\ codes[r][Compared(r)] = c
  /\ Last(found[r]).code = c /\ Last(found[r]).period = LatestOf(c)

CompareCode(r) ==
  LET c == codes[r][Compared(r) + 1]
  IN  /\ rpc[r] = "compare" /\ Compared(r) < Len(codes[r])
      /\ IF Available(c)
           THEN /\ found' = [found EXCEPT ![r] = Append(@,
                               IF StillLoaded(r, c) THEN Last(@) ELSE LatestIntensity(c))]
                /\ UNCHANGED missing
           ELSE /\ missing' = [missing EXCEPT ![r] = Append(@, c)]
                /\ UNCHANGED found
      /\ UNCHANGED <<rpc, codes, reply, shown, floor, served>>

(* ... and the ranking, by `sort` on gco2_per_kwh, which is stable: the    *)
(* place of an item is the number of items up to and including it.         *)
Cleaner(a, b) == a.row.gco2 < b.row.gco2
UpTo(items, i) ==
  {j \in DOMAIN items :
     Cleaner(items[j], items[i]) \/ (j <= i /\ ~Cleaner(items[i], items[j]))}
Place(items, i) == Cardinality(UpTo(items, i))
AtPlace(items, k) == CHOOSE i \in DOMAIN items : Place(items, i) = k
Unranked(items) == items  \* mutant: the loop's order
Ranked(items) == [k \in DOMAIN items |-> items[AtPlace(items, k)]]

CompareRanks(r) ==
  /\ rpc[r] = "compare" /\ Compared(r) = Len(codes[r])
  /\ Replies(r, [kind |-> "compare", items |-> Ranked(found[r]), unavailable |-> missing[r]])
  /\ UNCHANGED shown

ReaderStep(r) ==
  AskNow(r) \/ AskCompare(r) \/ ReadLatest(r) \/ ReadMix(r) \/ CompareCode(r) \/ CompareRanks(r)

NowNext ==
  \/ Next /\ UNCHANGED readerVars
  \/ \E r \in Reader : ReaderStep(r) /\ UNCHANGED vars

NowSpec == NowInit /\ [][NowNext]_allVars

-----------------------------------------------------------------------------
(* Properties *)

RepliesOf(kind) == {reply[r] : r \in {q \in Reader : reply[q] # NoReply /\ reply[q].kind = kind}}

(* Every number of an answer comes from committed versions of the hour it  *)
(* names: the row is the intensity of one, and the mix beside it is one,   *)
(* never an hour without rows (queries.py:88-102, 211-227).                *)
AnswersAreCommitted ==
  /\ \A a \in RepliesOf("now") : a.mix \in seen[a.read.code][a.read.period] \ {EmptyMix}
  /\ \A r \in Reader : \A i \in DOMAIN found[r] :
       LET a == found[r][i]
       IN  \E m \in seen[a.code][a.period] : a.row = IntensityForPeriod(m)

AddUp(shares) ==
  LET n == Cardinality(DOMAIN shares)
  IN  2 * (SumFunction(shares) - ShareScale) \in -n..n

(* The shares of /now add up to 1 within their rounding, unless the        *)
(* generation of the hour was committed anew between the two statements,   *)
(* or the row lagged behind it for a cause StaleHasCause names, or the     *)
(* hour has been revised to no generation (queries.py:88-123).             *)
SharesAddUp ==
  \A a \in RepliesOf("now") :
    \/ AddUp(a.shares)
    \/ a.mix # a.read.mix
    \/ a.read.lagging
    \/ DOMAIN a.shares = {}

(* A request to /now that begins after another one was answered is not     *)
(* answered with an older hour, nor with 503 (queries.py:75-81, 89).       *)
NowNeverGoesBack ==
  \A r \in Reader :
    /\ reply[r] \in RepliesOf("now") =>
         reply[r].read.period >= floor[r][reply[r].read.code]
    /\ reply[r] \in RepliesOf("503") => floor[r][reply[r].code] = 0

Times(c, s) == Cardinality({i \in DOMAIN s : s[i] = c})
CodesOf(items) == [i \in DOMAIN items |-> items[i].code]

(* A comparison accounts for every code as often as it was asked for;      *)
(* lists as unavailable no region that had data when the request began;    *)
(* and ranks no region before a cleaner one (queries.py:211-232).          *)
ComparisonIsFair ==
  \A r \in Reader : reply[r] \in RepliesOf("compare") =>
    LET items == reply[r].items
        unavailable == reply[r].unavailable
    IN  /\ \A c \in Code :
             Times(c, codes[r]) = Times(c, CodesOf(items)) + Times(c, unavailable)
        /\ \A i \in DOMAIN unavailable : unavailable[i] \notin served[r]
        /\ \A i, j \in DOMAIN items : i < j => items[i].row.gco2 <= items[j].row.gco2
=============================================================================
