---------------------------- MODULE MCApiRequest ----------------------------
(***************************************************************************)
(* A caller with an API key and an anonymous one, each allowed one request *)
(* a minute; a read, a question, and a request that is a read or a         *)
(* summary; one connection.                                                *)
(***************************************************************************)
EXTENDS ApiRequest

CONSTANTS r1, r2, r3

MCKinds ==
  [r \in Request |-> IF r = r1 THEN {"read"} ELSE IF r = r2 THEN {"ask"} ELSE {"read", "insights"}]

MCLimit == [c \in Caller |-> 1]
=============================================================================
