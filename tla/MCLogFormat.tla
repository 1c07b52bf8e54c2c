---------------------------- MODULE MCLogFormat ----------------------------
(* A small instance of LogFormat: a line with a payload field, an object or   *)
(* two in it, and every way they may refer to each other.                     *)
EXTENDS LogFormat, TLC

CONSTANTS line, payload, a, b

ToObject(key, to) == [key |-> key, to |-> to]

(* Up to two fields of an object: to any object but the line, or a value. *)
FieldLists ==
  {<<>>} \cup [1..2 -> [key: Keys, to: {payload, a, b}]]
    \cup {<<ToObject(key, Leaf)>> : key \in Keys}

MCGraphs ==
  {(line :> <<ToObject("plain", payload)>>) @@ (payload :> p) @@ (a :> q) @@ (b :> r) :
     p \in FieldLists, q \in FieldLists,
     r \in {<<>>, <<ToObject("sensitive", Leaf)>>, <<ToObject("plain", a)>>,
            <<ToObject("plain", payload), ToObject("plain", b)>>}}
=============================================================================
