------------------------------ MODULE MCReads ------------------------------
(***************************************************************************)
(* Every ZIP prefix and every curated code; five ingested hours over a     *)
(* change of the clocks, with a day of three hours; histories around the   *)
(* 72 hours a forecast needs, some with gaps; results of up to three rows. *)
(***************************************************************************)
EXTENDS Reads

MCLookup ==
  {<<100 * p, Absent>> : p \in 0..999} \cup {<<entry[1], Absent>> : entry \in Curated}
    \cup {<<Absent, r>> : r \in {"CISO", "XYZ", Absent}} \cup {<<10001, "NYIS">>}

MCUtcOffset == [t \in 0..4 |-> IF t < 2 THEN 0 ELSE -1]
MCHistory == UNION {[S -> {0, 15, 100}] : S \in {{}, {1}, 0..3, 1..4, 0..4}}
MCRenewable == {[t \in 0..4 |-> 3], [t \in 0..4 |-> t]}

MCIngested ==
  {0..n : n \in {70, 71, 72, 100}} \cup {0..80 \ {40, 41}, 0..70 \cup {90}, 0..69 \cup {90}}

Pattern(horizon, means, width) ==
  [i \in 1..horizon |->
     LET m == means[1 + ((i - 1) % Len(means))]
     IN  [mean |-> m, lower |-> m - width, upper |-> m + width]]

MCFrames(horizon) ==
  {Pattern(horizon, <<a, b, c>>, w) : a, b, c \in {-20, 4, 12, 14, 300}, w \in {0, 30}}

MCRow == {{"a"}, {"b"}, {"a", "b"}}
MCResults ==
  LET Wide == (SUBSET {"a", "b", "c"}) \ {{}}
  IN  (SeqOf(Wide, 2) \X SeqOf(Wide, 2)) \cup (TupleOf(MCRow, 3) \X TupleOf(MCRow, 3))
=============================================================================
