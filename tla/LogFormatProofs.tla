-------------------------- MODULE LogFormatProofs --------------------------
(* Proofs about LogFormat, for every graph of objects. *)
EXTENDS LogFormat, Integers, FiniteSetTheorems, TLAPS

Frame == [node: Nodes, next: Nat \ {0}]
PrintedField == [depth: Nat, key: Keys, shown: Nodes \cup {Leaf, Cut}]

-----------------------------------------------------------------------------
(* The walk. *)

(* The fields of a frame that were printed lead to objects that were met. *)
FieldsMet(frame) ==
  \A k \in DOMAIN graph[frame.node] :
    k < frame.next => graph[frame.node][k].to \in seen \cup {Leaf}

OnStack(node) == \E i \in DOMAIN stack : stack[i].node = node

ShownOnce(node) ==
  \E i \in DOMAIN printed : \A j \in DOMAIN printed : printed[j].shown = node <=> j = i

WalkTypes ==
  /\ graph \in [Nodes -> Seq(Field)]
  /\ stack \in Seq(Frame)
  /\ seen \subseteq Nodes
  /\ printed \in Seq(PrintedField)

(* Every object that was met and is not being printed has led to objects that  *)
(* were met, and what stands in the text are the objects that were met, once.  *)
WalkInv ==
  /\ WalkTypes
  /\ Root \in seen
  /\ \A i \in DOMAIN stack : stack[i].node \in seen /\ FieldsMet(stack[i])
  /\ \A node \in seen : OnStack(node) \/ Successors(node) \subseteq seen
  /\ \A node \in seen \ {Root} : ShownOnce(node)
  /\ \A j \in DOMAIN printed : printed[j].shown \in Nodes => printed[j].shown \in seen \ {Root}

LEMMA WalkInit == Init => WalkInv
<1> SUFFICES ASSUME Init PROVE WalkInv
  OBVIOUS
<1>1. Root \in Nodes /\ graph \in [Nodes -> Seq(Field)]
  BY GraphsTyped DEF Init
<1>2. /\ stack = <<[node |-> Root, next |-> 1]>> /\ seen = {Root} /\ printed = <<>>
      /\ [node |-> Root, next |-> 1] \in Frame
  BY <1>1 DEF Init, Frame
<1>3. stack \in Seq(Frame) /\ printed \in Seq(PrintedField) /\ DOMAIN stack = {1}
      /\ stack[1].node = Root /\ stack[1].next = 1 /\ DOMAIN printed = {}
  BY <1>2
<1>4. FieldsMet(stack[1])
  <2>1. graph[Root] \in Seq(Field)
    BY <1>1
  <2>2. \A k \in DOMAIN graph[Root] : k \in Nat /\ ~(k < 1)
    BY <2>1
  <2> QED BY <1>3, <2>2 DEF FieldsMet
<1>5. WalkTypes
  BY <1>1, <1>2, <1>3 DEF WalkTypes
<1> QED BY <1>2, <1>3, <1>4, <1>5 DEF WalkInv, OnStack

LEMMA TopFrame ==
  ASSUME WalkInv, Printing
  PROVE  /\ Len(stack) \in DOMAIN stack /\ Top \in Frame
         /\ Top.node \in seen /\ FieldsMet(Top)
<1>1. stack \in Seq(Frame) /\ stack # <<>>
  BY DEF WalkInv, WalkTypes, Printing
<1>2. Len(stack) \in DOMAIN stack /\ Top \in Frame
  BY <1>1 DEF Top
<1> QED BY <1>2 DEF WalkInv, Top

LEMMA AdvancedFrames ==
  ASSUME WalkInv, Printing
  PROVE  /\ Advanced \in Seq(Frame) /\ DOMAIN Advanced = DOMAIN stack
         /\ Len(Advanced) = Len(stack)
         /\ \A i \in DOMAIN stack \ {Len(stack)} : Advanced[i] = stack[i]
         /\ Advanced[Len(stack)].node = Top.node
         /\ Advanced[Len(stack)].next = Top.next + 1
<1>1. stack \in Seq(Frame) /\ stack # <<>> /\ Len(stack) \in DOMAIN stack
  BY TopFrame DEF WalkInv, WalkTypes, Printing
<1> DEFINE frame == [Top EXCEPT !.next = @ + 1]
<1>2. Top \in Frame /\ Advanced = [stack EXCEPT ![Len(stack)] = frame]
  BY TopFrame DEF Advanced, Top
<1>3. frame \in Frame /\ frame.node = Top.node /\ frame.next = Top.next + 1
  BY <1>2 DEF Frame
<1> HIDE DEF frame
<1> QED BY <1>1, <1>2, <1>3

LEMMA NextField ==
  ASSUME WalkInv, FieldsLeft
  PROVE  /\ Top.next \in DOMAIN graph[Top.node]
         /\ graph[Top.node][Top.next] \in Field
<1>1. Top.node \in Nodes /\ Top.next \in Nat \ {0} /\ graph \in [Nodes -> Seq(Field)]
  BY TopFrame DEF WalkInv, WalkTypes, FieldsLeft, Frame
<1>2. graph[Top.node] \in Seq(Field) /\ Top.next <= Len(graph[Top.node])
  BY <1>1 DEF FieldsLeft
<1> QED BY <1>1, <1>2

(* The object on top has met the value of its next field too, whatever the     *)
(* objects below it; what was met stays met.                                   *)
LEMMA AdvancedMet ==
  ASSUME WalkInv, FieldsLeft, graph' = graph, seen \subseteq seen',
         graph[Top.node][Top.next].to \in seen' \cup {Leaf},
         NEW i \in DOMAIN Advanced, NEW frame, frame = Advanced[i]
  PROVE  frame.node \in seen /\ FieldsMet(frame)'
<1>1. Printing /\ i \in DOMAIN stack
  BY AdvancedFrames DEF FieldsLeft
<1>2. CASE i = Len(stack)
  <2>1. frame.node = Top.node /\ frame.next = Top.next + 1
    BY <1>1, <1>2, AdvancedFrames
  <2>2. Top.node \in seen /\ FieldsMet(Top) /\ Top \in Frame
    BY <1>1, TopFrame
  <2>3. ASSUME NEW k \in DOMAIN graph[Top.node], k < Top.next + 1
        PROVE  graph[Top.node][k].to \in seen' \cup {Leaf}
    <3>1. k \in Nat /\ Top.next \in Nat
      <4>1. graph[Top.node] \in Seq(Field)
        BY <2>2 DEF WalkInv, WalkTypes, Frame
      <4> QED BY <2>2, <4>1 DEF Frame
    <3>2. CASE k = Top.next
      BY <3>2
    <3>3. CASE k < Top.next
      BY <2>2, <3>3 DEF FieldsMet
    <3> QED BY <2>3, <3>1, <3>2, <3>3
  <2>4. \A k \in DOMAIN graph'[frame.node] :
          k < frame.next => graph'[frame.node][k].to \in seen' \cup {Leaf}
    BY <2>1, <2>3
  <2> QED BY <2>1, <2>2, <2>4 DEF FieldsMet
<1>3. CASE i # Len(stack)
  <2>1. frame = stack[i]
    BY <1>1, <1>3, AdvancedFrames
  <2>2. stack[i].node \in seen /\ FieldsMet(stack[i])
    BY <1>1 DEF WalkInv
  <2>3. \A k \in DOMAIN graph'[frame.node] :
          k < frame.next => graph'[frame.node][k].to \in seen' \cup {Leaf}
    BY <2>1, <2>2 DEF FieldsMet
  <2> QED BY <2>1, <2>2, <2>3 DEF FieldsMet
<1> QED BY <1>2, <1>3

(* The value is no object, or one that was met: nothing new stands in the text. *)
LEMMA PrintKnown ==
  ASSUME WalkInv, PrintField, graph[Top.node][Top.next].to \in seen \cup {Leaf}
  PROVE  WalkInv'
<1> DEFINE field == graph[Top.node][Top.next]
           entry == [depth |-> Len(stack), key |-> field.key,
                     shown |-> IF field.to \in seen THEN Cut ELSE field.to]
<1>1. FieldsLeft /\ Printing /\ WalkTypes
  BY DEF PrintField, FieldsLeft, WalkInv
<1>2. /\ printed' = Append(printed, entry) /\ stack' = Advanced /\ seen' = seen
      /\ graph' = graph
  BY <1>1, MarkersOutside DEF PrintField, Prints, WalkTypes
<1>3. entry \in PrintedField /\ entry.shown \notin Nodes
  <2>1. field \in Field /\ Len(stack) \in Nat
    BY <1>1, NextField DEF WalkInv, WalkTypes
  <2> QED BY <2>1, MarkersOutside DEF PrintedField, Field
<1>4. /\ printed' \in Seq(PrintedField) /\ DOMAIN printed \subseteq DOMAIN printed'
      /\ \A j \in DOMAIN printed : printed'[j] = printed[j]
      /\ \A j \in DOMAIN printed' \ DOMAIN printed : printed'[j] = entry
  <2> HIDE DEF entry
  <2> QED BY <1>1, <1>2, <1>3 DEF WalkTypes
<1>5. WalkTypes'
  BY <1>1, <1>2, <1>4, AdvancedFrames DEF WalkTypes
<1>6. \A i \in DOMAIN stack' : stack'[i].node \in seen' /\ FieldsMet(stack[i])'
  <2> SUFFICES ASSUME NEW i \in DOMAIN Advanced, NEW frame, frame = Advanced[i]
               PROVE  frame.node \in seen /\ FieldsMet(frame)'
    BY <1>2 DEF FieldsMet
  <2> QED BY <1>1, <1>2, AdvancedMet
<1>7. \A node \in seen : OnStack(node)' \/ Successors(node)' \subseteq seen
  <2>1. \A node : OnStack(node) => OnStack(node)'
    BY <1>1, <1>2, AdvancedFrames DEF OnStack, Top
  <2> QED BY <1>2, <2>1 DEF WalkInv, Successors
<1>8. \A node \in seen \ {Root} : ShownOnce(node)'
  <2> SUFFICES ASSUME NEW node \in seen \ {Root} PROVE ShownOnce(node)'
    OBVIOUS
  <2>1. PICK i \in DOMAIN printed :
          \A j \in DOMAIN printed : printed[j].shown = node <=> j = i
    BY DEF WalkInv, ShownOnce
  <2>2. node \in Nodes
    BY <1>1 DEF WalkTypes
  <2>3. \A j \in DOMAIN printed' : printed'[j].shown = node <=> j = i
    BY <1>3, <1>4, <2>1, <2>2
  <2> QED BY <1>4, <2>3 DEF ShownOnce
<1>9. \A j \in DOMAIN printed' :
        printed'[j].shown \in Nodes => printed'[j].shown \in seen \ {Root}
  BY <1>3, <1>4 DEF WalkInv
<1> QED BY <1>2, <1>5, <1>6, <1>7, <1>8, <1>9 DEF WalkInv

(* The value is an object that was not met: it is shown, and printed next. *)
LEMMA PrintNew ==
  ASSUME WalkInv, PrintField, graph[Top.node][Top.next].to \notin seen \cup {Leaf}
  PROVE  WalkInv'
<1> DEFINE field == graph[Top.node][Top.next]
           entry == [depth |-> Len(stack), key |-> field.key, shown |-> field.to]
           below == [node |-> field.to, next |-> 1]
<1>1. FieldsLeft /\ Printing /\ WalkTypes /\ Root \in seen
  BY DEF PrintField, FieldsLeft, WalkInv
<1>2. /\ printed' = Append(printed, entry) /\ stack' = Append(Advanced, below)
      /\ seen' = seen \cup {field.to} /\ graph' = graph
  BY <1>1, MarkersOutside DEF PrintField, Prints, WalkTypes
<1>3. /\ entry \in PrintedField /\ entry.shown = field.to
      /\ field.to \in Nodes \ seen /\ below \in Frame /\ below.node = field.to /\ below.next = 1
  <2>1. field \in Field /\ Len(stack) \in Nat
    BY <1>1, NextField DEF WalkInv, WalkTypes
  <2> QED BY <2>1 DEF PrintedField, Field, Frame
<1>4. /\ printed' \in Seq(PrintedField) /\ DOMAIN printed \subseteq DOMAIN printed'
      /\ \A j \in DOMAIN printed : printed'[j] = printed[j]
      /\ \E k \in DOMAIN printed' : /\ DOMAIN printed' \ DOMAIN printed = {k}
                                    /\ printed'[k] = entry
  <2> HIDE DEF entry
  <2>1. /\ printed' \in Seq(PrintedField) /\ DOMAIN printed = 1..Len(printed)
        /\ DOMAIN printed' = 1..(Len(printed) + 1) /\ Len(printed) \in Nat
        /\ printed'[Len(printed) + 1] = entry
        /\ \A j \in DOMAIN printed : printed'[j] = printed[j]
    BY <1>1, <1>2, <1>3 DEF WalkTypes
  <2> QED BY <2>1
<1>5. /\ stack' \in Seq(Frame)
      /\ \A i \in DOMAIN Advanced : i \in DOMAIN stack' /\ stack'[i] = Advanced[i]
      /\ \A i \in DOMAIN stack' \ DOMAIN Advanced : stack'[i] = below
      /\ \E i \in DOMAIN stack' : stack'[i] = below
  <2> HIDE DEF below
  <2>1. Advanced \in Seq(Frame)
    BY <1>1, AdvancedFrames
  <2>2. /\ stack' \in Seq(Frame) /\ DOMAIN Advanced = 1..Len(Advanced)
        /\ DOMAIN stack' = 1..(Len(Advanced) + 1) /\ Len(Advanced) \in Nat
        /\ stack'[Len(Advanced) + 1] = below
        /\ \A i \in DOMAIN Advanced : stack'[i] = Advanced[i]
    BY <1>2, <1>3, <2>1
  <2> QED BY <2>2
<1> HIDE DEF entry, below, field
<1>6. WalkTypes'
  BY <1>1, <1>2, <1>3, <1>4, <1>5 DEF WalkTypes
<1>7. \A i \in DOMAIN stack' : stack'[i].node \in seen' /\ FieldsMet(stack[i])'
  <2>1. ASSUME NEW i \in DOMAIN Advanced, NEW frame, frame = Advanced[i]
        PROVE  frame.node \in seen /\ FieldsMet(frame)'
    BY <1>1, <1>2, <2>1, AdvancedMet DEF field
  <2>2. ASSUME NEW i \in DOMAIN stack' PROVE stack'[i].node \in seen' /\ FieldsMet(stack[i])'
    <3>1. CASE i \in DOMAIN Advanced
      BY <1>2, <1>5, <2>1, <3>1 DEF FieldsMet
    <3>2. CASE i \notin DOMAIN Advanced
      <4>1. stack'[i].node = field.to /\ stack'[i].next = 1
        BY <1>3, <1>5, <3>2
      <4>2. graph[field.to] \in Seq(Field)
        BY <1>1, <1>3 DEF WalkTypes
      <4>3. \A k \in DOMAIN graph[field.to] : k \in Nat /\ ~(k < 1)
        BY <4>2
      <4> QED BY <1>2, <4>1, <4>3 DEF FieldsMet
    <3> QED BY <3>1, <3>2
  <2> QED BY <2>2
<1>8. \A node \in seen' : OnStack(node)' \/ Successors(node)' \subseteq seen'
  <2>1. \A node : OnStack(node) => OnStack(node)'
    <3>1. \A node : OnStack(node) => \E i \in DOMAIN Advanced : Advanced[i].node = node
      BY <1>1, AdvancedFrames DEF OnStack, Top
    <3> QED BY <1>5, <3>1 DEF OnStack
  <2>2. \A node : node = field.to => OnStack(node)'
    BY <1>3, <1>5 DEF OnStack
  <2> QED BY <1>2, <2>1, <2>2 DEF WalkInv, Successors
<1>9. \A node \in seen' \ {Root} : ShownOnce(node)'
  <2> SUFFICES ASSUME NEW node \in seen' \ {Root} PROVE ShownOnce(node)'
    OBVIOUS
  <2>1. PICK k \in DOMAIN printed' :
          DOMAIN printed' \ DOMAIN printed = {k} /\ printed'[k].shown = field.to
    BY <1>3, <1>4
  <2>2. CASE node \in seen
    <3>1. PICK i \in DOMAIN printed :
            \A j \in DOMAIN printed : printed[j].shown = node <=> j = i
      BY <2>2 DEF WalkInv, ShownOnce
    <3>2. \A j \in DOMAIN printed' : printed'[j].shown = node <=> j = i
      BY <1>3, <1>4, <2>1, <2>2, <3>1
    <3> QED BY <1>4, <3>2 DEF ShownOnce
  <2>3. CASE node = field.to
    <3>1. \A j \in DOMAIN printed : printed[j].shown # node
      BY <1>3, <2>3 DEF WalkInv
    <3>2. \A j \in DOMAIN printed' : printed'[j].shown = node <=> j = k
      BY <1>4, <2>1, <2>3, <3>1
    <3> QED BY <3>2 DEF ShownOnce
  <2> QED BY <1>2, <2>2, <2>3
<1>10. \A j \in DOMAIN printed' :
         printed'[j].shown \in Nodes => printed'[j].shown \in seen' \ {Root}
  BY <1>1, <1>2, <1>3, <1>4 DEF WalkInv
<1> QED BY <1>1, <1>2, <1>6, <1>7, <1>8, <1>9, <1>10 DEF WalkInv

(* All fields of the object have been printed, so all they lead to was met. *)
LEMMA LeaveStep ==
  ASSUME WalkInv, LeaveObject
  PROVE  WalkInv'
<1>1. Printing /\ ~FieldsLeft /\ WalkTypes /\ graph' = graph /\ seen' = seen
      /\ printed' = printed /\ stack' = SubSeq(stack, 1, Len(stack) - 1)
  BY DEF LeaveObject, WalkInv
<1>2. Top \in Frame /\ Top.node \in Nodes /\ FieldsMet(Top) /\ graph[Top.node] \in Seq(Field)
  BY <1>1, TopFrame DEF Frame, WalkTypes
<1>3. Successors(Top.node) \subseteq seen
  <2>1. ~(Top.next <= Len(graph[Top.node])) /\ Top.next \in Nat
    BY <1>1, <1>2 DEF FieldsLeft, Frame
  <2>2. \A k \in DOMAIN graph[Top.node] : k < Top.next
    BY <1>2, <2>1
  <2> QED BY <1>2, <2>2 DEF FieldsMet, Successors
<1>4. /\ stack' \in Seq(Frame)
      /\ \A i \in DOMAIN stack' : i \in DOMAIN stack /\ stack'[i] = stack[i]
      /\ \A i \in DOMAIN stack : i \in DOMAIN stack' \/ i = Len(stack)
  BY <1>1 DEF WalkTypes, Printing
<1>5. WalkTypes'
  BY <1>1, <1>4 DEF WalkTypes
<1>6. \A i \in DOMAIN stack' : stack'[i].node \in seen' /\ FieldsMet(stack[i])'
  BY <1>1, <1>4 DEF WalkInv, FieldsMet
<1>7. \A node \in seen : OnStack(node)' \/ Successors(node)' \subseteq seen
  <2> SUFFICES ASSUME NEW node \in seen, ~(Successors(node) \subseteq seen)
               PROVE  OnStack(node)'
    BY <1>1 DEF Successors
  <2>1. PICK i \in DOMAIN stack : stack[i].node = node
    BY DEF WalkInv, OnStack
  <2>2. i # Len(stack)
    BY <1>3, <2>1 DEF Top
  <2> QED BY <1>4, <2>1, <2>2 DEF OnStack
<1>8. \A node \in seen \ {Root} : ShownOnce(node)'
  BY <1>1 DEF WalkInv, ShownOnce
<1> QED BY <1>1, <1>5, <1>6, <1>7, <1>8 DEF WalkInv

LEMMA WalkStep == WalkInv /\ [Next]_vars => WalkInv'
<1> SUFFICES ASSUME WalkInv, [Next]_vars PROVE WalkInv'
  OBVIOUS
<1>1. CASE PrintField
  BY <1>1, PrintKnown, PrintNew
<1>2. CASE LeaveObject
  BY <1>2, LeaveStep
<1>3. CASE UNCHANGED <<graph, stack, seen, printed>>
  <2>1. WalkTypes' /\ Root \in seen'
    BY <1>3 DEF WalkInv, WalkTypes
  <2>2. \A i \in DOMAIN stack' : stack'[i].node \in seen' /\ FieldsMet(stack[i])'
    BY <1>3 DEF WalkInv, FieldsMet
  <2>3. \A node \in seen' : OnStack(node)' \/ Successors(node)' \subseteq seen'
    BY <1>3 DEF WalkInv, OnStack, Successors
  <2>4. \A node \in seen' \ {Root} : ShownOnce(node)'
    BY <1>3 DEF WalkInv, ShownOnce
  <2>5. \A j \in DOMAIN printed' :
          printed'[j].shown \in Nodes => printed'[j].shown \in seen' \ {Root}
    BY <1>3 DEF WalkInv
  <2> QED BY <2>1, <2>2, <2>3, <2>4, <2>5 DEF WalkInv
<1> QED BY <1>1, <1>2, <1>3 DEF Next, vars, StringifyThrows, FormatLine

LEMMA WalkInvariant == Spec => []WalkInv
<1> QED BY WalkInit, WalkStep, PTL DEF Spec

(* However the objects of a line are shared and refer to each other, when the  *)
(* walk is over every object the line leads to has been met, and each of them  *)
(* stands in the text exactly once (safeStringify).                            *)
THEOREM EveryObjectOnceCorrect == Spec => []EveryObjectOnce
<1>1. WalkInv => EveryObjectOnce
  <2> SUFFICES ASSUME WalkInv, stack = <<>>
               PROVE  /\ Root \in seen
                      /\ \A node \in seen : Successors(node) \subseteq seen
                      /\ \A node \in seen \ {Root} : ShownOnce(node)
    BY DEF EveryObjectOnce, ShownOnce
  <2>1. \A node : ~OnStack(node)
    BY DEF OnStack
  <2> QED BY <2>1 DEF WalkInv
<1> QED BY <1>1, WalkInvariant, PTL

-----------------------------------------------------------------------------
(* Redaction.  Redact is defined by recursion over the length of the text. *)

(* Induction over the naturals as a fact about sets: below a number that is    *)
(* missing from T, the function n |-> n + 1 would map a finite set one to one  *)
(* into that set without 0, which has fewer elements.                          *)
LEMMA InductionSet ==
  ASSUME NEW T, 0 \in T, \A n \in Nat : n \in T => n + 1 \in T
  PROVE  Nat \subseteq T
<1> SUFFICES ASSUME NEW k \in Nat, k \notin T PROVE FALSE
  OBVIOUS
<1> DEFINE below == {n \in 0..k : n \in T}
           successor == [n \in below |-> n + 1]
<1>1. IsFiniteSet(below)
  <2>1. IsFiniteSet(0..k)
    BY FS_Interval
  <2>2. below \in SUBSET (0..k)
    OBVIOUS
  <2> HIDE DEF below
  <2> QED BY <2>1, <2>2, FS_Subset
<1>2. 0 \in below
  OBVIOUS
<1>3. IsFiniteSet(below \ {0}) /\ Cardinality(below \ {0}) = Cardinality(below) - 1
  <2> HIDE DEF below
  <2> QED BY <1>1, <1>2, FS_RemoveElement
<1>4. successor \in [below -> below \ {0}]
  <2>1. ASSUME NEW n \in below PROVE n + 1 \in below \ {0}
    OBVIOUS
  <2> QED BY <2>1
<1>5. Cardinality(below) \in Nat
  BY <1>1, FS_CardinalityType
<1>6. \A x, y \in below : successor[x] = successor[y] => x = y
  OBVIOUS
<1> HIDE DEF below, successor
<1>7. Cardinality(below \ {0}) < Cardinality(below)
  BY <1>3, <1>5
<1> QED BY <1>1, <1>3, <1>4, <1>6, <1>7, FS_PigeonHole

LEMMA LeastNatural ==
  ASSUME NEW S, S \subseteq Nat, S # {}
  PROVE  \E n \in S : \A m \in S : n <= m
<1> SUFFICES ASSUME \A n \in S : \E m \in S : m < n PROVE FALSE
  OBVIOUS
<1> DEFINE bounds == {n \in Nat : \A m \in S : n <= m}
<1>1. 0 \in bounds
  OBVIOUS
<1>2. \A n \in Nat : n \in bounds => n + 1 \in bounds
  <2> SUFFICES ASSUME NEW n \in Nat, n \in bounds, NEW m \in S PROVE n + 1 <= m
    OBVIOUS
  <2> QED OBVIOUS
<1>3. Nat \subseteq bounds
  <2> HIDE DEF bounds
  <2> QED BY <1>1, <1>2, InductionSet
<1>4. PICK s \in S : TRUE
  OBVIOUS
<1>5. s \in Nat /\ s + 1 \in Nat
  BY <1>4
<1>6. s + 1 \in bounds
  <2> HIDE DEF bounds
  <2> QED BY <1>3, <1>5
<1>7. s + 1 <= s
  BY <1>4, <1>6
<1> QED BY <1>5, <1>7

OutputField == [depth: Nat, key: Keys, shown: Nodes \cup {Leaf, Cut, Redacted}]

(* What the text of length n becomes, given what the one of length n - 1 does. *)
Extended(text, n, before) ==
  IF Kept(text, n) THEN Append(before, Marked(text[n])) ELSE before

IsRedactionUpTo(text, f, last) ==
  /\ f \in [0..last -> Seq(OutputField)]
  /\ f[0] = <<>>
  /\ \A n \in 1..last : f[n] = Extended(text, n, f[n - 1])

LEMMA MarkedField ==
  ASSUME NEW entry \in PrintedField
  PROVE  /\ Marked(entry) \in OutputField
         /\ Marked(entry).depth = entry.depth
         /\ IsSensitive(Marked(entry)) <=> IsSensitive(entry)
         /\ IsSensitive(entry) => Marked(entry).shown = Redacted
BY DEF Marked, IsSensitive, PrintedField, OutputField

LEMMA ExtendedTyped ==
  ASSUME NEW text \in Seq(PrintedField), NEW n \in 1..Len(text),
         NEW before \in Seq(OutputField)
  PROVE  Extended(text, n, before) \in Seq(OutputField)
<1>1. text[n] \in PrintedField
  OBVIOUS
<1>2. Marked(text[n]) \in OutputField
  BY <1>1, MarkedField
<1> QED BY <1>2 DEF Extended

(* The equation that defines Redact has a solution. *)
LEMMA RedactionExists ==
  ASSUME NEW text \in Seq(PrintedField)
  PROVE  \E f : IsRedactionUpTo(text, f, Len(text))
<1> DEFINE T == {n \in Nat : n <= Len(text) => \E f : IsRedactionUpTo(text, f, n)}
<1>1. 0 \in T
  <2> DEFINE f == [m \in 0..0 |-> <<>>]
  <2>1. IsRedactionUpTo(text, f, 0)
    BY DEF IsRedactionUpTo
  <2> QED BY <2>1
<1>2. \A n \in Nat : n \in T => n + 1 \in T
  <2> SUFFICES ASSUME NEW n \in Nat, n \in T, n + 1 <= Len(text)
               PROVE  \E f : IsRedactionUpTo(text, f, n + 1)
    OBVIOUS
  <2>1. PICK f : IsRedactionUpTo(text, f, n)
    OBVIOUS
  <2> DEFINE next == Extended(text, n + 1, f[n])
             g == [m \in 0..(n + 1) |-> IF m <= n THEN f[m] ELSE next]
  <2>2. next \in Seq(OutputField)
    <3>1. n + 1 \in 1..Len(text) /\ f[n] \in Seq(OutputField)
      BY <2>1 DEF IsRedactionUpTo
    <3> QED BY <3>1, ExtendedTyped
  <2> HIDE DEF next
  <2>3. g \in [0..(n + 1) -> Seq(OutputField)] /\ g[0] = <<>>
    BY <2>1, <2>2 DEF IsRedactionUpTo
  <2>4. ASSUME NEW m \in 1..(n + 1) PROVE g[m] = Extended(text, m, g[m - 1])
    <3>1. CASE m = n + 1
      <4>1. g[m] = next /\ g[m - 1] = f[n] /\ m = n + 1
        BY <3>1
      <4> QED BY <4>1 DEF next
    <3>2. CASE m # n + 1
      <4>1. m \in 1..n /\ g[m] = f[m] /\ g[m - 1] = f[m - 1]
        BY <3>2
      <4>2. f[m] = Extended(text, m, f[m - 1])
        BY <2>1, <4>1 DEF IsRedactionUpTo
      <4> QED BY <4>1, <4>2
    <3> QED BY <3>1, <3>2
  <2> HIDE DEF g
  <2>5. IsRedactionUpTo(text, g, n + 1)
    BY <2>3, <2>4 DEF IsRedactionUpTo
  <2> QED BY <2>5
<1>3. Nat \subseteq T
  <2> HIDE DEF T
  <2> QED BY <1>1, <1>2, InductionSet
<1>4. Len(text) \in Nat
  OBVIOUS
<1> QED BY <1>3, <1>4

(* Redact is the value at the end of a solution. *)
LEMMA RedactSolves ==
  ASSUME NEW text \in Seq(PrintedField)
  PROVE  \E f : IsRedactionUpTo(text, f, Len(text)) /\ Redact(text) = f[Len(text)]
<1> DEFINE Solves(f) ==
      f = [n \in 0..Len(text) |->
             IF n = 0 THEN <<>>
             ELSE IF Kept(text, n) THEN Append(f[n - 1], Marked(text[n])) ELSE f[n - 1]]
<1>1. Redact(text) = (CHOOSE f : Solves(f))[Len(text)]
  BY DEF Redact
<1>2. PICK f : IsRedactionUpTo(text, f, Len(text))
  BY RedactionExists
<1>3. f = [n \in 0..Len(text) |-> f[n]] /\ Len(text) \in Nat
  BY <1>2 DEF IsRedactionUpTo
<1>4. Solves(f)
  <2>1. \A n \in 0..Len(text) : f[n] =
          IF n = 0 THEN <<>>
          ELSE IF Kept(text, n) THEN Append(f[n - 1], Marked(text[n])) ELSE f[n - 1]
    <3>1. f[0] = <<>>
      BY <1>2 DEF IsRedactionUpTo
    <3>2. \A n \in 1..Len(text) : f[n] =
            IF Kept(text, n) THEN Append(f[n - 1], Marked(text[n])) ELSE f[n - 1]
      BY <1>2 DEF IsRedactionUpTo, Extended
    <3>3. \A n \in 0..Len(text) : n = 0 \/ (n # 0 /\ n \in 1..Len(text))
      BY <1>3
    <3> QED BY <3>1, <3>2, <3>3
  <2> QED BY <1>3, <2>1
<1> DEFINE g == CHOOSE h : Solves(h)
<1>5. Solves(g)
  <2> HIDE DEF Solves
  <2> QED BY <1>4
<1> HIDE DEF g
<1> DEFINE T == {n \in Nat : n <= Len(text) => g[n] = f[n]}
<1>6. 0 \in T
  BY <1>2, <1>3, <1>5 DEF IsRedactionUpTo
<1>7. ASSUME NEW n \in Nat, n <= Len(text) => g[n] = f[n], n + 1 <= Len(text)
      PROVE  g[n + 1] = f[n + 1]
  <2>1. n + 1 \in 0..Len(text) /\ n + 1 # 0 /\ (n + 1) - 1 = n /\ g[n] = f[n]
    BY <1>3, <1>7
  <2>2. g[n + 1] = Extended(text, n + 1, g[n])
    BY <1>5, <2>1 DEF Extended
  <2>3. f[n + 1] = Extended(text, n + 1, f[n])
    BY <1>4, <2>1 DEF Extended
  <2> QED BY <2>1, <2>2, <2>3
<1>8. g[Len(text)] = f[Len(text)]
  <2> HIDE DEF Solves
  <2>1. ASSUME NEW n \in Nat, n \in T PROVE n + 1 \in T
    <3>1. n <= Len(text) => g[n] = f[n]
      BY <2>1
    <3>2. n + 1 <= Len(text) => g[n + 1] = f[n + 1]
      BY <1>7, <3>1
    <3>3. n + 1 \in Nat
      OBVIOUS
    <3> QED BY <3>2, <3>3
  <2>2. Nat \subseteq T
    <3> HIDE DEF T
    <3> QED BY <1>6, <2>1, InductionSet
  <2> QED BY <1>3, <2>2
<1>9. Redact(text) = f[Len(text)]
  BY <1>1, <1>8 DEF g
<1> QED BY <1>2, <1>9

(* Between a sensitive entry and the next one that is kept, the text has come  *)
(* back to the depth of the sensitive one or higher.  Otherwise take the last  *)
(* entry k between them that has: it was dropped because of an entry above it, *)
(* and that one stands above the next kept entry too.                          *)
LEMMA KeptNeighbours ==
  ASSUME NEW text \in Seq(PrintedField),
         NEW m \in DOMAIN text, NEW n \in DOMAIN text, m < n,
         Kept(text, n), \A k \in (m + 1)..(n - 1) : ~Kept(text, k),
         IsSensitive(text[m])
  PROVE  text[n].depth <= text[m].depth
<1> SUFFICES ASSUME text[m].depth < text[n].depth PROVE FALSE
  <2>1. text[m] \in PrintedField /\ text[n] \in PrintedField
    OBVIOUS
  <2>2. text[m].depth \in Nat /\ text[n].depth \in Nat
    BY <2>1 DEF PrintedField
  <2> QED BY <2>2
<1>1. /\ DOMAIN text = 1..Len(text) /\ Len(text) \in Nat /\ m \in Nat /\ n \in Nat
      /\ \A k \in DOMAIN text : text[k].depth \in Nat
  <2>1. \A k \in DOMAIN text : text[k] \in PrintedField
    OBVIOUS
  <2>2. \A k \in DOMAIN text : text[k].depth \in Nat
    BY <2>1 DEF PrintedField
  <2> QED BY <2>2
<1> DEFINE back == {d \in Nat : n - d \in (m + 1)..n /\ text[n - d].depth <= text[m].depth}
<1>2. back # {}
  <2>1. ~Above(text, m, n)
    BY DEF Kept
  <2>2. PICK k \in (m + 1)..n : ~(text[k].depth > text[m].depth)
    BY <2>1 DEF Above
  <2>3. k \in DOMAIN text /\ n - k \in Nat /\ n - (n - k) = k
    BY <1>1, <2>2
  <2>4. text[k].depth <= text[m].depth
    BY <1>1, <2>2, <2>3
  <2>5. n - k \in back
    BY <2>2, <2>3, <2>4
  <2> QED BY <2>5
<1>3. PICK d \in back : \A e \in back : d <= e
  <2>1. back \subseteq Nat
    OBVIOUS
  <2> HIDE DEF back
  <2> QED BY <1>2, <2>1, LeastNatural
<1> DEFINE k == n - d
<1>4. k \in (m + 1)..n /\ k \in DOMAIN text /\ text[k].depth <= text[m].depth
  BY <1>1, <1>3
<1>5. k \in (m + 1)..(n - 1)
  BY <1>1, <1>4
<1>6. \A i \in (k + 1)..n : text[i].depth > text[m].depth
  <2> SUFFICES ASSUME NEW i \in (k + 1)..n, ~(text[i].depth > text[m].depth) PROVE FALSE
    OBVIOUS
  <2>1. i \in DOMAIN text /\ n - i \in Nat /\ n - (n - i) = i /\ i \in (m + 1)..n
    BY <1>1, <1>4
  <2>2. text[i].depth <= text[m].depth
    <3> DEFINE deep == text[i].depth
               least == text[m].depth
    <3>1. deep \in Nat /\ least \in Nat /\ ~(deep > least)
      BY <1>1, <2>1
    <3> HIDE DEF deep, least
    <3>2. deep <= least
      BY <3>1
    <3> QED BY <3>2 DEF deep, least
  <2>3. n - i \in back
    BY <2>1, <2>2
  <2>4. n - i < d
    BY <1>1, <1>3, <2>1
  <2>5. d \in Nat
    OBVIOUS
  <2> HIDE DEF back
  <2> QED BY <1>3, <2>1, <2>3, <2>4, <2>5
<1> HIDE DEF k, back
<1>7. PICK j \in DOMAIN text : Above(text, j, k) /\ IsSensitive(text[j])
  BY <1>4, <1>5 DEF Kept
<1>8. text[j].depth < text[k].depth /\ j < k
  BY <1>1, <1>4, <1>7 DEF Above
<1>9. text[j].depth < text[m].depth
  BY <1>1, <1>4, <1>8
<1>10. \A i \in (j + 1)..n : text[i].depth > text[j].depth
  <2> SUFFICES ASSUME NEW i \in (j + 1)..n PROVE text[i].depth > text[j].depth
    OBVIOUS
  <2>1. i \in DOMAIN text /\ (i <= k \/ i \in (k + 1)..n)
    BY <1>1, <1>4
  <2>2. CASE i <= k
    <3>1. i \in (j + 1)..k
      BY <1>1, <1>4, <2>2
    <3> QED BY <1>7, <3>1 DEF Above
  <2>3. CASE i \in (k + 1)..n
    BY <1>1, <1>6, <1>9, <2>1, <2>3
  <2> QED BY <2>1, <2>2, <2>3
<1>11. Above(text, j, n)
  BY <1>1, <1>4, <1>8, <1>10 DEF Above
<1> QED BY <1>7, <1>11 DEF Kept

(* What SensitiveValuesReplaced says of an output. *)
Clean(text) ==
  \A i \in DOMAIN text :
    IsSensitive(text[i]) =>
      /\ text[i].shown = Redacted
      /\ i < Len(text) => text[i + 1].depth <= text[i].depth

(* A redacted text ends with the last entry that was kept. *)
EndsWithLastKept(text, out, n) ==
  out # <<>> =>
    \E m \in 1..n : /\ out[Len(out)] = Marked(text[m])
                    /\ \A k \in (m + 1)..n : ~Kept(text, k)

LEMMA ExtendedClean ==
  ASSUME NEW text \in Seq(PrintedField), NEW n \in Nat, n + 1 <= Len(text),
         NEW out \in Seq(OutputField), Clean(out), EndsWithLastKept(text, out, n)
  PROVE  /\ Clean(Extended(text, n + 1, out))
         /\ EndsWithLastKept(text, Extended(text, n + 1, out), n + 1)
<1> DEFINE new == Extended(text, n + 1, out)
           entry == Marked(text[n + 1])
<1>1. /\ n + 1 \in DOMAIN text /\ text[n + 1] \in PrintedField /\ entry \in OutputField
      /\ Len(text) \in Nat /\ DOMAIN text = 1..Len(text)
  <2>1. n + 1 \in DOMAIN text /\ text[n + 1] \in PrintedField
    OBVIOUS
  <2> QED BY <2>1, MarkedField
<1>2. CASE ~Kept(text, n + 1)
  <2>1. new = out
    BY <1>2 DEF Extended
  <2>2. EndsWithLastKept(text, out, n + 1)
    <3> SUFFICES ASSUME out # <<>>
                 PROVE  \E m \in 1..(n + 1) : /\ out[Len(out)] = Marked(text[m])
                                              /\ \A k \in (m + 1)..(n + 1) : ~Kept(text, k)
      BY DEF EndsWithLastKept
    <3>1. PICK m \in 1..n : /\ out[Len(out)] = Marked(text[m])
                            /\ \A k \in (m + 1)..n : ~Kept(text, k)
      BY DEF EndsWithLastKept
    <3>2. \A k \in (m + 1)..(n + 1) : k = n + 1 \/ k \in (m + 1)..n
      OBVIOUS
    <3>3. m \in 1..(n + 1) /\ \A k \in (m + 1)..(n + 1) : ~Kept(text, k)
      BY <1>2, <3>1, <3>2
    <3> QED BY <3>1, <3>3
  <2> QED BY <2>1, <2>2
<1>3. CASE Kept(text, n + 1)
  <2> HIDE DEF entry
  <2>1. /\ new = Append(out, entry) /\ new \in Seq(OutputField)
        /\ Len(new) = Len(out) + 1 /\ Len(out) \in Nat
        /\ DOMAIN new = 1..(Len(out) + 1) /\ DOMAIN out = 1..Len(out)
        /\ new[Len(out) + 1] = entry
        /\ \A i \in DOMAIN out : new[i] = out[i]
    <3>1. new = Append(out, entry)
      BY <1>3 DEF Extended, entry
    <3> HIDE DEF new
    <3> QED BY <1>1, <3>1
  <2> HIDE DEF new
  <2>2. EndsWithLastKept(text, new, n + 1)
    <3>1. new[Len(new)] = Marked(text[n + 1])
      BY <2>1 DEF entry
    <3>2. n + 1 \in 1..(n + 1) /\ \A k \in ((n + 1) + 1)..(n + 1) : ~Kept(text, k)
      OBVIOUS
    <3> QED BY <3>1, <3>2 DEF EndsWithLastKept
  <2>3. ASSUME NEW i \in DOMAIN new, IsSensitive(new[i])
        PROVE  new[i].shown = Redacted /\ (i < Len(new) => new[i + 1].depth <= new[i].depth)
    <3>1. CASE i = Len(out) + 1
      <4>1. new[i] = entry /\ ~(i < Len(new))
        BY <2>1, <3>1
      <4>2. IsSensitive(text[n + 1])
        BY <1>1, <2>3, <4>1, MarkedField DEF entry
      <4>3. entry.shown = Redacted
        BY <1>1, <4>2, MarkedField DEF entry
      <4> QED BY <4>1, <4>3
    <3>2. CASE i = Len(out)
      <4>1. out # <<>> /\ i \in DOMAIN out
        BY <2>1, <3>2
      <4>2. new[i] = out[i] /\ new[i + 1] = entry
        BY <2>1, <3>2, <4>1
      <4>3. new[i].shown = Redacted
        BY <2>3, <4>1, <4>2 DEF Clean
      <4>4. PICK m \in 1..n : /\ out[Len(out)] = Marked(text[m])
                              /\ \A k \in (m + 1)..n : ~Kept(text, k)
        BY <4>1 DEF EndsWithLastKept
      <4>5. m \in DOMAIN text /\ text[m] \in PrintedField
        BY <1>1
      <4>6. IsSensitive(text[m]) /\ new[i].depth = text[m].depth
        BY <2>3, <3>2, <4>2, <4>4, <4>5, MarkedField
      <4>7. text[n + 1].depth <= text[m].depth
        <5>1. m < n + 1 /\ (n + 1) - 1 = n
          OBVIOUS
        <5> QED BY <1>1, <1>3, <4>4, <4>5, <4>6, <5>1, KeptNeighbours
      <4>8. entry.depth = text[n + 1].depth
        BY <1>1, MarkedField DEF entry
      <4> QED BY <4>2, <4>3, <4>6, <4>7, <4>8
    <3>3. CASE i < Len(out)
      <4>1. i \in DOMAIN out /\ i + 1 \in DOMAIN out
        BY <2>1, <3>3
      <4>2. new[i] = out[i] /\ new[i + 1] = out[i + 1]
        BY <2>1, <4>1
      <4> QED BY <2>3, <3>3, <4>1, <4>2 DEF Clean
    <3>4. i < Len(out) \/ i = Len(out) \/ i = Len(out) + 1
      BY <2>1
    <3> QED BY <3>1, <3>2, <3>3, <3>4
  <2> QED BY <2>2, <2>3 DEF Clean, new
<1> QED BY <1>2, <1>3

LEMMA RedactClean ==
  ASSUME NEW text \in Seq(PrintedField)
  PROVE  Redact(text) \in Seq(OutputField) /\ Clean(Redact(text))
<1>1. PICK f : IsRedactionUpTo(text, f, Len(text)) /\ Redact(text) = f[Len(text)]
  BY RedactSolves
<1> DEFINE T == {n \in Nat : n <= Len(text) =>
                   Clean(f[n]) /\ EndsWithLastKept(text, f[n], n)}
<1>2. 0 \in T
  BY <1>1 DEF IsRedactionUpTo, Clean, EndsWithLastKept
<1>3. \A n \in Nat : n \in T => n + 1 \in T
  <2> SUFFICES ASSUME NEW n \in Nat, n \in T, n + 1 <= Len(text)
               PROVE  Clean(f[n + 1]) /\ EndsWithLastKept(text, f[n + 1], n + 1)
    OBVIOUS
  <2>1. n + 1 \in 1..Len(text) /\ (n + 1) - 1 = n /\ n \in 0..Len(text)
    OBVIOUS
  <2>2. f[n + 1] = Extended(text, n + 1, f[n]) /\ f[n] \in Seq(OutputField)
    BY <1>1, <2>1 DEF IsRedactionUpTo
  <2>3. Clean(f[n]) /\ EndsWithLastKept(text, f[n], n)
    OBVIOUS
  <2> QED BY <2>2, <2>3, ExtendedClean
<1>4. Nat \subseteq T
  <2> HIDE DEF T
  <2> QED BY <1>2, <1>3, InductionSet
<1>5. Len(text) \in Nat /\ Len(text) \in 0..Len(text)
  OBVIOUS
<1>6. Clean(f[Len(text)])
  BY <1>4, <1>5
<1> QED BY <1>1, <1>5, <1>6 DEF IsRedactionUpTo

(* In the output nothing stands at or below a sensitive key but the mark,      *)
(* whatever the graph and however deep the key (redactionFormat): what Redact   *)
(* makes of any text is clean, by induction over its length.                   *)
THEOREM SensitiveValuesCorrect == Spec => []SensitiveValuesReplaced
<1> DEFINE OutputInv == output \in Seq(OutputField) /\ Clean(output)
<1>1. Init => OutputInv
  BY DEF Init, Clean
<1>2. Fallback \in Seq(OutputField) /\ Clean(Fallback)
  <2> DEFINE entry == [depth |-> 1, key |-> "plain", shown |-> Leaf]
  <2>1. entry \in OutputField /\ ~IsSensitive(entry)
    BY DEF OutputField, Keys, IsSensitive
  <2> HIDE DEF entry
  <2>2. <<entry>> \in Seq(OutputField) /\ \A i \in DOMAIN <<entry>> : <<entry>>[i] = entry
    BY <2>1
  <2> QED BY <2>1, <2>2 DEF Fallback, Clean, entry
<1>3. WalkInv /\ OutputInv /\ [Next]_vars => OutputInv'
  <2> SUFFICES ASSUME WalkInv, OutputInv, [Next]_vars PROVE OutputInv'
    OBVIOUS
  <2>1. CASE UNCHANGED output
    BY <2>1 DEF Clean
  <2>2. CASE output' = Fallback
    BY <1>2, <2>2 DEF Clean
  <2>3. CASE output' = Redact(printed)
    <3>1. printed \in Seq(PrintedField)
      BY DEF WalkInv, WalkTypes
    <3>2. Redact(printed) \in Seq(OutputField) /\ Clean(Redact(printed))
      BY <3>1, RedactClean
    <3> QED BY <2>3, <3>2 DEF Clean
  <2> QED BY <2>1, <2>2, <2>3
          DEF Next, PrintField, LeaveObject, StringifyThrows, FormatLine, vars
<1>4. OutputInv => SensitiveValuesReplaced
  BY DEF Clean, SensitiveValuesReplaced
<1> QED BY <1>1, <1>3, <1>4, WalkInvariant, PTL DEF Spec
=============================================================================
