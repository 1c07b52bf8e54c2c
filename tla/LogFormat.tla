----------------------------- MODULE LogFormat -----------------------------
(***************************************************************************)
(* How a line is turned into output (Packages/Logger/Helpers): redactionFormat *)
(* clones the line through safeStringify, that is JSON.stringify with a     *)
(* replacer that remembers every object it was shown, and replaces the      *)
(* values of sensitive keys in the clone.                                   *)
(*                                                                          *)
(* A line is a graph of objects: payloads share objects and may be cyclic.  *)
(* JSON.stringify walks it depth first, one property at a time, and the     *)
(* walk is what the steps are.                                              *)
(***************************************************************************)
EXTENDS Naturals, Sequences

CONSTANTS
  Nodes, Root,     \* the objects of a line, and the line itself
  Leaf,            \* a value that is no object
  Graphs,          \* object -> its fields, each [key, to], in their order
  MaxSize,         \* the size beyond which the text is cut off, in fields
  Cut, Redacted    \* "[Circular Reference]" and "[REDACTED]"

Keys == {"plain", "sensitive"}
Field == [key: Keys, to: Nodes \cup {Leaf}]

ASSUME GraphsTyped ==
  /\ Graphs \subseteq [Nodes -> Seq(Field)]
  /\ Root \in Nodes /\ \A given \in Graphs : given[Root] # <<>>
ASSUME MarkersOutside ==
  /\ Leaf \notin Nodes /\ Cut \notin Nodes \cup {Leaf} /\ Redacted \notin Nodes \cup {Leaf, Cut}

VARIABLES
  graph,   \* the line to format
  stack,   \* the objects being printed, each with its next field
  seen,    \* the replacer's WeakSet
  printed, \* the text so far: [depth, key, shown], a field each
  output   \* <<>> until the line is done

vars == <<graph, stack, seen, printed, output>>

(* The replacer is shown the line itself first. *)
Init ==
  /\ graph \in Graphs
  /\ stack = <<[node |-> Root, next |-> 1]>>
  /\ seen = {Root}
  /\ printed = <<>> /\ output = <<>>

Top == stack[Len(stack)]
Printing == stack # <<>> /\ output = <<>>
FieldsLeft == Printing /\ Top.next <= Len(graph[Top.node])

Advanced == [stack EXCEPT ![Len(stack)].next = @ + 1]

Prints(key, shown) ==
  printed' = Append(printed, [depth |-> Len(stack), key |-> key, shown |-> shown])

(* Faulty variant: an object is remembered while it is being printed only. *)
PrintFieldForgetting ==
  /\ FieldsLeft
  /\ LET field == graph[Top.node][Top.next]
         open == {stack[i].node : i \in DOMAIN stack}
     IN  /\ Prints(field.key, IF field.to \in open THEN Cut ELSE field.to)
         /\ IF field.to \in open \cup {Leaf} THEN stack' = Advanced
            ELSE stack' = Append(Advanced, [node |-> field.to, next |-> 1])
         /\ seen' = seen \cup ({field.to} \ {Leaf})
  /\ UNCHANGED <<graph, output>>

(* The replacer sees the value of the next field. *)
PrintField ==
  /\ FieldsLeft
  /\ LET field == graph[Top.node][Top.next]
     IN  /\ Prints(field.key, IF field.to \in seen THEN Cut ELSE field.to)
         /\ IF field.to \in seen \cup {Leaf} THEN stack' = Advanced
            ELSE stack' = Append(Advanced, [node |-> field.to, next |-> 1])
         /\ seen' = seen \cup ({field.to} \ {Leaf})
  /\ UNCHANGED <<graph, output>>

LeaveObject ==
  /\ Printing /\ ~FieldsLeft
  /\ stack' = SubSeq(stack, 1, Len(stack) - 1)
  /\ UNCHANGED <<graph, seen, printed, output>>

-----------------------------------------------------------------------------
(* redactionFormat.  The line's own fields are not looked up in the list of   *)
(* keys, whatever is below them is.                                           *)

Above(text, j, i) == j < i /\ \A k \in (j + 1)..i : text[k].depth > text[j].depth

IsSensitive(entry) == entry.depth > 1 /\ entry.key = "sensitive"

(* Faulty variant: only the fields of the payload itself are redacted. *)
RedactShallowly(text) ==
  [i \in DOMAIN text |->
     IF IsSensitive(text[i]) /\ text[i].depth = 2 THEN [text[i] EXCEPT !.shown = Redacted]
     ELSE text[i]]

(* A sensitive key's value is replaced, and nothing below it is left. *)
Kept(text, i) == \A j \in DOMAIN text : Above(text, j, i) => ~IsSensitive(text[j])
Marked(entry) == IF IsSensitive(entry) THEN [entry EXCEPT !.shown = Redacted] ELSE entry

Redact(text) ==
  LET upTo[n \in 0..Len(text)] ==
        IF n = 0 THEN <<>>
        ELSE IF Kept(text, n) THEN Append(upTo[n - 1], Marked(text[n])) ELSE upTo[n - 1]
  IN  upTo[Len(text)]

(* The line of the catch block.  Its payload is the message of the JSON.parse   *)
(* error, which may quote a snippet of the text: one plain leaf stands for it. *)
Fallback == <<[depth |-> 1, key |-> "plain", shown |-> Leaf]>>

(* Faulty variant: nothing is caught when the text does not parse. *)
FormatLineOrNothing ==
  /\ stack = <<>> /\ output = <<>> /\ Len(printed) <= MaxSize
  /\ output' = Redact(printed)
  /\ UNCHANGED <<graph, stack, seen, printed>>

(* Text that was cut off does not parse, and a line of its own stands in. *)
FormatLine ==
  /\ stack = <<>> /\ output = <<>>
  /\ output' = IF Len(printed) > MaxSize THEN Fallback ELSE Redact(printed)
  /\ UNCHANGED <<graph, stack, seen, printed>>

(* JSON.stringify throws on a value (a BigInt, a toJSON that throws): what     *)
(* safeStringify returns then is no JSON either.                              *)
StringifyThrows ==
  /\ FieldsLeft
  /\ output' = Fallback
  /\ UNCHANGED <<graph, stack, seen, printed>>

Next == PrintField \/ LeaveObject \/ StringifyThrows \/ FormatLine
Spec == Init /\ [][Next]_vars
FairSpec == Spec /\ WF_vars(Next)

-----------------------------------------------------------------------------
TypeOK ==
  /\ graph \in [Nodes -> Seq(Field)]
  /\ stack \in Seq([node: Nodes, next: Nat \ {0}])
  /\ seen \subseteq Nodes
  /\ printed \in Seq([depth: Nat, key: Keys, shown: Nodes \cup {Leaf, Cut}])
  /\ output \in Seq([depth: Nat, key: Keys, shown: Nodes \cup {Leaf, Cut, Redacted}])

Successors(node) == {graph[node][i].to : i \in DOMAIN graph[node]} \ {Leaf}

(* However the objects of a line are shared and refer to each other, when the  *)
(* walk is over it has met every object the line leads to, cut fields or not,  *)
(* and each of them stands in the text exactly once.                           *)
EveryObjectOnce ==
  stack = <<>> =>
    /\ Root \in seen
    /\ \A node \in seen : Successors(node) \subseteq seen
    /\ \A node \in seen \ {Root} : \E i \in DOMAIN printed :
         \A j \in DOMAIN printed : printed[j].shown = node <=> j = i

(* In the output nothing stands at or below a sensitive key but the mark, at   *)
(* any depth and also where the value was printed elsewhere before.            *)
SensitiveValuesReplaced ==
  \A i \in DOMAIN output :
    IsSensitive(output[i]) =>
      /\ output[i].shown = Redacted
      /\ i < Len(output) => output[i + 1].depth <= output[i].depth

(* Formatting ends, and with a line, on every graph, cyclic ones included.     *)
FormattingEnds == <>(output # <<>>)

=============================================================================
