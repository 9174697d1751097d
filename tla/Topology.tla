------------------------------ MODULE Topology ------------------------------
(***************************************************************************)
(* The two readers of config/topology.json: the JSON library the control   *)
(* plane uses, and the reader the nodes use, which searches the text for   *)
(* quoted names and brackets (src/topology.h).                             *)
(*                                                                         *)
(* A text is a sequence of tokens, of what a search of the second reader   *)
(* can stop at.  To it a quoted name is a quoted name, whether it is a key *)
(* or a value, so both are "str", and a bracket, brace or colon is one     *)
(* even between quotes: the role "a]b" is the mark "]".  Commas and blanks, *)
(* which it skips or never looks for, are left out.  Numbers are integers. *)
(***************************************************************************)
EXTENDS Integers, Sequences, SequencesExt, FiniteSetsExt

CONSTANTS
  IntHalf,   \* 2^31 in the code: an int is in -IntHalf .. IntHalf - 1
  LongHalf   \* 2^63 in the code: so is a long

ASSUME TopologyAssumption ==
  /\ IntHalf \in Nat \ {0} /\ LongHalf \in Nat
  /\ IntHalf <= LongHalf

Str(s)  == <<"str", s>>
Num(v)  == <<"num", v>>
Mark(c) == <<"mark", c>>

LBrace == Mark("{")
RBrace == Mark("}")
LBrack == Mark("[")
RBrack == Mark("]")
Colon  == Mark(":")

-----------------------------------------------------------------------------
(* The file: its rows in order, the members each row is written with, and   *)
(* the order of its parts.                                                  *)

Value(row, key) == IF key = "role" THEN row.role ELSE <<Num(row[key])>>

Object(row, keys) ==
  <<LBrace>>
    \o FlattenSeq([i \in DOMAIN keys |->
                     <<Str(keys[i]), Colon>> \o Value(row, keys[i])])
    \o <<RBrace>>

Array(key, rows, keys) ==
  <<Str(key), Colon, LBrack>>
    \o FlattenSeq([i \in DOMAIN rows |-> Object(rows[i], keys)])
    \o <<RBrack>>

Part(file, p) ==
  CASE p = "nodes" -> Array(p, file.nodes, file.nodeKeys)
    [] p = "edges" -> Array(p, file.edges, file.edgeKeys)
    [] p = "description" -> <<Str(p), Colon>> \o file.about

Text(file) ==
  <<LBrace>>
    \o FlattenSeq([i \in DOMAIN file.parts |-> Part(file, file.parts[i])])
    \o <<RBrace>>

(* What the library makes of any file: the rows, and the tokens of the      *)
(* words in it.                                                             *)
Words == Seq({"str", "mark"} \X STRING)

WellFormed(file) ==
  /\ file.nodes \in Seq([id : Int, port : Int, role : Words])
  /\ file.edges \in Seq([from : Int, to : Int])
  /\ file.about \in Words
  /\ file.nodeKeys \in Seq({"id", "port", "role"})
  /\ file.edgeKeys \in Seq({"from", "to"})
  /\ file.parts \in Seq({"nodes", "edges", "description"})

(* What the second reader assumes of a file (topology.h:34-36), without     *)
(* looking: that no word in it is or holds what it searches for.            *)
Confusing == {LBrace, RBrace, LBrack, RBrack}
               \cup {Str("nodes"), Str("edges"), Str("id"), Str("port")}

Plain(file) ==
  \A words \in {file.about} \cup {file.nodes[i].role : i \in DOMAIN file.nodes} :
    ToSet(words) \cap Confusing = {}

(* load_topology(): the library gives the rows back; a member the code asks *)
(* for that is not there is a KeyError.                                     *)
JsonReads(file) ==
  /\ {"nodes", "edges"} \subseteq ToSet(file.parts)
  /\ file.nodes # <<>> => {"id", "port", "role"} \subseteq ToSet(file.nodeKeys)
  /\ file.edges # <<>> => {"from", "to"} \subseteq ToSet(file.edgeKeys)

-----------------------------------------------------------------------------
(* std::string::find: the first place of t from p on, or NPos. *)
NPos(s) == Len(s) + 1
Find(s, t, p) == Min({i \in p .. Len(s) : s[i] = t} \cup {NPos(s)})

(* static_cast<int>(strtol()): a number too large for a long becomes the    *)
(* nearest long, and of that an int keeps the low bits.                     *)
Strtol(v) == IF v >= LongHalf THEN LongHalf - 1
             ELSE IF v < -LongHalf THEN -LongHalf ELSE v

CInt(v) == ((Strtol(v) + IntHalf) % (2 * IntHalf)) - IntHalf

(* extract_int, on one object; <<>> when it throws. *)
ExtractInt(s, key) ==
  LET colon == Find(s, Colon, Find(s, Str(key), 1) + 1)
  IN  IF colon < Len(s) /\ s[colon + 1][1] = "num"
      THEN <<CInt(s[colon + 1][2])>>
      ELSE <<>>

(* Mutant: the end of the array is not looked at. *)
InsideAnywhere(s, at, rbrack) == at # NPos(s)

Inside(s, at, rbrack) == at # NPos(s) /\ at <= rbrack

(* for_each_object_in_array: the objects between the brackets after the     *)
(* key; the last is <<>> if it does not end there.                          *)
ObjectsIn(s, key) ==
  LET lbrack == Find(s, LBrack, Find(s, Str(key), 1))
      rbrack == Find(s, RBrack, lbrack)
      from[p \in 1 .. NPos(s)] ==
        LET open  == Find(s, LBrace, p)
            close == Find(s, RBrace, open)
        IN  IF ~ Inside(s, open, rbrack) THEN <<>>
            ELSE IF ~ Inside(s, close, rbrack) THEN << <<>> >>
            ELSE <<SubSeq(s, open, close)>> \o from[close + 1]
  IN  IF rbrack = NPos(s) THEN << <<>> >> ELSE from[lbrack]

(* parse(): pairs of integers, in the order of the rows. *)
Pairs(s, key, a, b) ==
  LET objects == ObjectsIn(s, key)
  IN  [i \in DOMAIN objects |->
         <<ExtractInt(objects[i], a), ExtractInt(objects[i], b)>>]

Parsed(s) ==
  [nodes |-> Pairs(s, "nodes", "id", "port"),
   edges |-> Pairs(s, "edges", "from", "to")]

Throws(parsed) ==
  \E pair \in ToSet(parsed.nodes \o parsed.edges) : <<>> \in ToSet(pair)
=============================================================================
