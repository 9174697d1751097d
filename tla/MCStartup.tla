------------------------------ MODULE MCStartup ------------------------------
(* Files of two rows: every order of the members and parts, with a member   *)
(* missing; rows that share an id, a port, or the low bits of either;       *)
(* numbers that are zero, negative or too wide; and words with brackets and *)
(* names in them.  An int has 5 bits here, a field 3, a long 7.             *)
EXTENDS Startup

Word(w) == <<Str(w)>>

Worded(id, prt, role) == [id |-> id, port |-> prt, role |-> role]
Row(id, prt) == Worded(id, prt, Word(IF id = 1 THEN "edge" ELSE "core"))

File(rows, parts, nodeKeys, edgeKeys, about) ==
  [nodes |-> rows, edges |-> << [from |-> 1, to |-> 2], [from |-> 2, to |-> 1] >>,
   about |-> about, parts |-> parts, nodeKeys |-> nodeKeys, edgeKeys |-> edgeKeys]

Usual == <<"description", "nodes", "edges">>
Good  == <<Row(1, 1), Row(2, 2)>>

OfRows(rows, about) == File(rows, Usual, <<"id", "port", "role">>, <<"from", "to">>, about)

MCFiles ==
  {OfRows(rows, Word("text")) : rows \in
     {<<Row(1, 1), Row(1, 2)>>, <<Row(1, 1), Row(1, -1)>>,       \* one id
      <<Row(1, 1), Row(9, 2)>>, <<Row(0, 1), Row(8, 2)>>,        \* its low bits
      <<Row(1, 1), Row(33, 2)>>, <<Row(1, 1), Row(70, 2)>>,      \* as an int
      <<Row(1, 1), Row(2, 1)>>, <<Row(1, 1), Row(2, 9)>>,        \* one port
      <<Row(1, 0), Row(2, 6)>>, <<Row(1, 20), Row(2, 40)>>}}     \* chosen, negative
  \cup
  {OfRows(<<Worded(1, 1, role), Row(2, 2)>>, Word("text")) : role \in
     {<<RBrack>>, <<LBrace>>, <<RBrace, RBrack>>, Word("id"), <<Colon>>}}
  \cup
  {OfRows(Good, about) : about \in {Word("nodes"), <<LBrack>>, Word("port")}}
  \cup
  {File(Good, parts, <<"port", "role", "id">>, <<"to", "from">>, Word("text")) :
     parts \in SetToSeqs({"nodes", "edges", "description"}) \cup {<<"nodes">>}}
  \cup
  {File(Good, Usual, nodeKeys, <<"from", "to">>, Word("text")) :
     nodeKeys \in SetToSeqs({"id", "port", "role"}) \cup {<<"port", "id">>}}
=============================================================================
