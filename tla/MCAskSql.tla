------------------------------ MODULE MCAskSql ------------------------------
(***************************************************************************)
(* Texts over one view, one base table and one CTE, alone or two at a      *)
(* time, with limits below and above MaxLimit and limits whose expression  *)
(* names no number or another one than it stands for.                      *)
(***************************************************************************)
EXTENDS AskSql

MCLimits ==
  {NoLimit, Exactly(1), Exactly(5),
   [name |-> NoName, value |-> 5], [name |-> 1, value |-> 5]}

MCStatement ==
  {[kind |-> k, writes |-> w, tables |-> t, ctes |-> c, limit |-> l] :
     k \in {"select", "union", "other"}, w \in BOOLEAN,
     t \in {{"view"}, {"view", "base"}, {"view", "cte"}},
     c \in {{}, {"cte"}}, l \in MCLimits}

MCOne ==
  [kind |-> "select", writes |-> FALSE, tables |-> {"view"}, ctes |-> {}, limit |-> NoLimit]

MCText ==
  {Unparsable, <<>>, <<MCOne, MCOne>>} \cup
  {<<s>> : s \in {q \in MCStatement : "cte" \in q.tables <=> "cte" \in q.ctes}}
=============================================================================
