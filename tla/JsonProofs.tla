----------------------------- MODULE JsonProofs -----------------------------
(***************************************************************************)
(* Proofs about JsonTree for any set of names and nodes, any limits, any   *)
(* sequence of calls and any failing allocations: every value has one      *)
(* owner, and objects keep within their arrays.                            *)
(***************************************************************************)
EXTENDS JsonTree, TLAPS

-----------------------------------------------------------------------------
(* A sound heap, and the roots from which its values are freed. *)

CellSound(cell) ==
  /\ cell \in Cell
  /\ Count(cell) <= cell.capacity
  /\ \A i, j \in 1 .. Count(cell) : cell.members[i].name = cell.members[j].name => i = j
  /\ \A i, j \in 1 .. Count(cell) : cell.members[i].value = cell.members[j].value => i = j
  /\ cell.type # "object" => Count(cell) = 0

Live(h, n) == h[n].type # "unused"

HeapSound(h, roots) ==
  /\ h \in [Node -> Cell]
  /\ roots \subseteq Node
  /\ \A n \in roots : Live(h, n)
  /\ \A n \in Node : CellSound(h[n])
  /\ \A n \in Node : \A c \in Children(h[n]) : Live(h, c) /\ c \notin roots
  /\ \A n, m \in Node : n # m => Children(h[n]) \cap Children(h[m]) = {}

\* The objects the parser has open are in nothing yet, and each is open once.
ParsingSound ==
  /\ parsing \in Seq(Node)
  /\ \A i \in 1 .. Len(parsing) : heap[parsing[i]].type = "object"
  /\ \A i, j \in 1 .. Len(parsing) : parsing[i] = parsing[j] => i = j
  /\ \A i \in 1 .. Len(parsing) : parsing[i] \notin held

JInv ==
  /\ HeapSound(heap, Roots)
  /\ ParsingSound
  /\ status \in {"ok", "failed"}

-----------------------------------------------------------------------------
(* Cells. *)

Binds(cell, name, v) ==
  \E i \in 1 .. Count(cell) : cell.members[i].name = name /\ cell.members[i].value = v

\* The same bindings, in whatever order.
SameBindings(cell, new) == \A n, x : Binds(new, n, x) <=> Binds(cell, n, x)

\* The members are still there, each in its place.
KeepsPlaces(cell, new) ==
  /\ Count(cell) <= Count(new)
  /\ \A i \in 1 .. Count(cell) : new.members[i] = cell.members[i]

LEMMA FreshCells ==
  ASSUME NEW cell \in {Unused, Leaf, EmptyObject}
  PROVE  CellSound(cell) /\ Children(cell) = {}
<1>1. <<>> \in Seq(Member) /\ Len(<<>>) = 0
  OBVIOUS
<1>2. cell.members = <<>> /\ cell.capacity = 0
  BY DEF Unused, Leaf, EmptyObject
<1>3. 0 \in 0 .. OBJECT_MAX_CAPACITY
  BY CapacityAssumption
<1>4. cell \in Cell
  <2>1. \A t \in {"unused", "leaf", "object"} :
           [type |-> t, members |-> <<>>, capacity |-> 0] \in Cell
    BY <1>1, <1>3 DEF Cell
  <2> QED
    BY <2>1 DEF Unused, Leaf, EmptyObject
<1>5. Count(cell) = 0
  BY <1>1, <1>2 DEF Count
<1> QED
  BY <1>2, <1>4, <1>5 DEF CellSound, Children

LEMMA CellFields ==
  ASSUME NEW cell \in Cell
  PROVE  /\ Count(cell) \in Nat /\ Count(cell) = Len(cell.members)
         /\ cell.capacity \in Nat /\ cell.capacity <= OBJECT_MAX_CAPACITY
         /\ cell.members \in Seq(Member)
         /\ \A i \in 1 .. Count(cell) : /\ cell.members[i] \in Member
                                        /\ cell.members[i].name \in Name
                                        /\ cell.members[i].value \in Node
<1>1. /\ cell.members \in Seq(Member)
      /\ cell.capacity \in 0 .. OBJECT_MAX_CAPACITY
  BY DEF Cell
<1>2. Count(cell) \in Nat /\ Count(cell) = Len(cell.members)
  BY <1>1 DEF Count
<1>3. \A i \in 1 .. Count(cell) : cell.members[i] \in Member
  BY <1>1 DEF Count
<1>4. \A m \in Member : m.name \in Name /\ m.value \in Node
  BY DEF Member
<1> QED
  BY <1>1, <1>2, <1>3, <1>4, CapacityAssumption

LEMMA ChildrenAreNodes ==
  ASSUME NEW cell \in Cell
  PROVE  Children(cell) \subseteq Node
BY CellFields DEF Children

LEMMA OtherMembers ==
  ASSUME NEW cell \in Cell, NEW ms \in Seq(Member), NEW new,
         new = [cell EXCEPT !.members = ms]
  PROVE  /\ new \in Cell /\ new.members = ms /\ Count(new) = Len(ms)
         /\ new.type = cell.type /\ new.capacity = cell.capacity
BY DEF Cell, Count

\* A cell with the same members and another capacity, large enough.
LEMMA ResizedCell ==
  ASSUME NEW cell, CellSound(cell), NEW c \in Nat,
         Count(cell) <= c, c <= OBJECT_MAX_CAPACITY
  PROVE  /\ CellSound(Resized(cell, c))
         /\ Resized(cell, c).members = cell.members
         /\ Resized(cell, c).type = cell.type
         /\ Resized(cell, c).capacity = c
         /\ Count(Resized(cell, c)) = Count(cell)
         /\ Children(Resized(cell, c)) = Children(cell)
<1>1. /\ Resized(cell, c) \in Cell
      /\ Resized(cell, c).members = cell.members
      /\ Resized(cell, c).type = cell.type
      /\ Resized(cell, c).capacity = c
  BY CapacityAssumption DEF Cell, Resized, CellSound
<1> QED
  BY <1>1 DEF CellSound, Count, Children

\* json_object_add grows an object by at least one, up to the limit.
LEMMA RoomyCell ==
  ASSUME NEW cell, CellSound(cell), Roomy(cell).capacity <= OBJECT_MAX_CAPACITY
  PROVE  /\ CellSound(Roomy(cell))
         /\ Roomy(cell).members = cell.members
         /\ Roomy(cell).type = cell.type
         /\ Children(Roomy(cell)) = Children(cell)
         /\ Count(Roomy(cell)) = Count(cell)
         /\ Count(cell) < Roomy(cell).capacity
<1>1. Count(cell) \in Nat /\ cell.capacity \in Nat /\ Count(cell) <= cell.capacity
  BY CellFields DEF CellSound
<1>2. CASE Full(cell)
  <2>1. Larger(cell) \in Nat /\ Count(cell) < Larger(cell)
    BY <1>1, <1>2, CapacityAssumption DEF Larger, Full
  <2>2. Roomy(cell) = Resized(cell, Larger(cell)) /\ Roomy(cell).capacity = Larger(cell)
    BY <1>2 DEF Roomy, Resized, Cell, CellSound
  <2> QED
    BY <1>1, <2>1, <2>2, ResizedCell
<1>3. CASE ~Full(cell)
  BY <1>1, <1>3 DEF Roomy, Full
<1> QED
  BY <1>2, <1>3

LEMMA AppendedCell ==
  ASSUME NEW cell, CellSound(cell), Count(cell) < cell.capacity,
         cell.type = "object", NEW name \in Name, NEW v \in Node,
         ~Has(cell, name), v \notin Children(cell)
  PROVE  LET new == Appended(cell, name, v)
         IN  /\ CellSound(new) /\ new.type = cell.type
             /\ Children(new) = Children(cell) \cup {v}
             /\ KeepsPlaces(cell, new)
             /\ \A n, x : Binds(new, n, x) <=> Binds(cell, n, x) \/ (n = name /\ x = v)
<1> DEFINE m == [name |-> name, value |-> v]
           new == Appended(cell, name, v)
           ms == Append(cell.members, m)
<1>1. m \in Member /\ m.name = name /\ m.value = v
  BY DEF Member
<1>2. /\ cell \in Cell /\ cell.members \in Seq(Member) /\ Count(cell) \in Nat
      /\ Count(cell) = Len(cell.members) /\ cell.capacity \in Nat
  BY CellFields DEF CellSound
<1>3. new = [cell EXCEPT !.members = ms]
  BY DEF Appended
<1> HIDE DEF m, new
<1>4. ms \in Seq(Member) /\ Len(ms) = Count(cell) + 1
  BY <1>1, <1>2
<1>5. /\ new \in Cell /\ new.members = ms /\ Count(new) = Count(cell) + 1
      /\ new.type = cell.type /\ new.capacity = cell.capacity
  <2> HIDE DEF ms
  <2> QED
    BY <1>2, <1>3, <1>4, OtherMembers
<1>6. /\ \A i \in 1 .. Count(cell) : new.members[i] = cell.members[i]
      /\ new.members[Count(cell) + 1] = m
  BY <1>1, <1>2, <1>5
<1> HIDE DEF ms
<1>7. \A i \in 1 .. Count(cell) : cell.members[i].name # name /\ cell.members[i].value # v
  BY DEF Has, Positions, Children
<1>8. \A i \in 1 .. Count(new) : i \in 1 .. Count(cell) \/ i = Count(cell) + 1
  BY <1>2, <1>5
<1>9. CellSound(new)
  <2>1. \A i, j \in 1 .. Count(new) : new.members[i].name = new.members[j].name => i = j
    BY <1>1, <1>6, <1>7, <1>8 DEF CellSound
  <2>2. \A i, j \in 1 .. Count(new) : new.members[i].value = new.members[j].value => i = j
    BY <1>1, <1>6, <1>7, <1>8 DEF CellSound
  <2> QED
    BY <1>2, <1>5, <2>1, <2>2 DEF CellSound
<1>10. /\ \A i \in 1 .. Count(cell) : i \in 1 .. Count(new)
       /\ Count(cell) + 1 \in 1 .. Count(new)
  BY <1>2, <1>5
<1>11. Children(new) = Children(cell) \cup {v}
  BY <1>1, <1>6, <1>8, <1>10 DEF Children
<1>12. KeepsPlaces(cell, new)
  BY <1>2, <1>5, <1>6 DEF KeepsPlaces
<1>13. ASSUME NEW n, NEW x
       PROVE  Binds(new, n, x) <=> Binds(cell, n, x) \/ (n = name /\ x = v)
  BY <1>1, <1>6, <1>8, <1>10 DEF Binds
<1> QED
  BY <1>5, <1>9, <1>11, <1>12, <1>13 DEF new

\* What json_object_add leaves, by its outcome.
LEMMA AddsCell ==
  ASSUME NEW cell, CellSound(cell), cell.type = "object", NEW name \in Name,
         NEW v \in Node, v \notin Children(cell), NEW a \in Adds(cell, name, v)
  PROVE  /\ a.ok \in BOOLEAN /\ CellSound(a.cell) /\ a.cell.type = "object"
         /\ KeepsPlaces(cell, a.cell)
         /\ ~a.ok => /\ Children(a.cell) = Children(cell)
                     /\ SameBindings(cell, a.cell)
         /\ a.ok => /\ Children(a.cell) = Children(cell) \cup {v}
                    /\ ~Has(cell, name)
                    /\ \A n, x : Binds(a.cell, n, x)
                                   <=> Binds(cell, n, x) \/ (n = name /\ x = v)
<1> DEFINE fits == Roomy(cell).capacity <= OBJECT_MAX_CAPACITY
<1>1. \/ a = [cell |-> cell, ok |-> FALSE]
      \/ fits /\ a = [cell |-> Roomy(cell), ok |-> FALSE]
      \/ /\ fits /\ ~Has(cell, name)
         /\ a = [cell |-> Appended(Roomy(cell), name, v), ok |-> TRUE]
  BY DEF Adds
<1>0. Count(cell) \in Nat
  BY CellFields DEF CellSound
<1>2. CASE a = [cell |-> cell, ok |-> FALSE]
  BY <1>0, <1>2 DEF KeepsPlaces, SameBindings
<1>3. CASE fits /\ a = [cell |-> Roomy(cell), ok |-> FALSE]
  <2>1. /\ CellSound(Roomy(cell)) /\ Roomy(cell).members = cell.members
        /\ Roomy(cell).type = cell.type /\ Children(Roomy(cell)) = Children(cell)
        /\ Count(Roomy(cell)) = Count(cell)
    BY <1>3, RoomyCell
  <2>2. a.cell = Roomy(cell) /\ a.ok = FALSE
    BY <1>3
  <2>3. KeepsPlaces(cell, a.cell) /\ SameBindings(cell, a.cell)
    BY <1>0, <2>1, <2>2 DEF KeepsPlaces, SameBindings, Binds
  <2> QED
    BY <2>1, <2>2, <2>3
<1>4. CASE /\ fits /\ ~Has(cell, name)
           /\ a = [cell |-> Appended(Roomy(cell), name, v), ok |-> TRUE]
  <2>1. /\ CellSound(Roomy(cell)) /\ Roomy(cell).members = cell.members
        /\ Roomy(cell).type = "object" /\ Children(Roomy(cell)) = Children(cell)
        /\ Count(Roomy(cell)) = Count(cell)
        /\ Count(Roomy(cell)) < Roomy(cell).capacity
    BY <1>4, RoomyCell
  <2>2. ~Has(Roomy(cell), name)
    BY <1>4, <2>1 DEF Has, Positions
  <2>3. a.ok = TRUE /\ a.cell = Appended(Roomy(cell), name, v)
    BY <1>4
  <2>4. /\ CellSound(a.cell) /\ a.cell.type = "object"
        /\ Children(a.cell) = Children(cell) \cup {v}
        /\ KeepsPlaces(Roomy(cell), a.cell)
        /\ \A n, x : Binds(a.cell, n, x)
                       <=> Binds(Roomy(cell), n, x) \/ (n = name /\ x = v)
    BY <2>1, <2>2, <2>3, AppendedCell
  <2>5. KeepsPlaces(cell, a.cell)
    BY <2>1, <2>4 DEF KeepsPlaces
  <2>6. \A n, x : Binds(Roomy(cell), n, x) <=> Binds(cell, n, x)
    BY <2>1 DEF Binds
  <2> QED
    BY <1>4, <2>3, <2>4, <2>5, <2>6
<1> QED
  BY <1>1, <1>2, <1>3, <1>4

LEMMA PositionIs ==
  ASSUME NEW cell, NEW name, Has(cell, name)
  PROVE  /\ Position(cell, name) \in 1 .. Count(cell)
         /\ cell.members[Position(cell, name)].name = name
         /\ Get(cell, name) = cell.members[Position(cell, name)].value
         /\ Get(cell, name) \in Children(cell)
<1>1. Position(cell, name) \in Positions(cell, name)
  BY DEF Has, Position
<1> QED
  BY <1>1 DEF Positions, Get, Children

\* What json_object_remove leaves: each of the others, in a slot of its own.
LEMMA WithoutCell ==
  ASSUME NEW cell, CellSound(cell), NEW name \in Name, Has(cell, name)
  PROVE  LET new == Without(cell, name)
         IN  /\ CellSound(new) /\ new.type = cell.type
             /\ Children(new) \subseteq Children(cell) \ {Get(cell, name)}
             /\ \A n, x : Binds(new, n, x) <=> Binds(cell, n, x) /\ n # name
<1> DEFINE new == Without(cell, name)
           pos == Position(cell, name)
           last == Count(cell)
           moved == [cell.members EXCEPT ![pos] = cell.members[last]]
           ms == SubSeq(moved, 1, last - 1)
           from(i) == IF i = pos THEN last ELSE i
<1>1. /\ cell \in Cell /\ cell.members \in Seq(Member) /\ last \in Nat
      /\ last = Len(cell.members) /\ cell.capacity \in Nat /\ pos \in 1 .. last
      /\ Get(cell, name) = cell.members[pos].value
  BY CellFields, PositionIs DEF CellSound
<1>2. new = [cell EXCEPT !.members = ms]
  BY DEF Without
<1> HIDE DEF pos, last, new
<1>3. /\ moved \in Seq(Member) /\ Len(moved) = last
      /\ \A i \in 1 .. last : moved[i] = cell.members[from(i)]
  BY <1>1
<1> HIDE DEF moved
<1>4. /\ ms \in Seq(Member) /\ Len(ms) = last - 1
      /\ \A i \in 1 .. last - 1 : ms[i] = moved[i]
  BY <1>1, <1>3
<1> HIDE DEF ms
<1>5. /\ new \in Cell /\ new.members = ms /\ Count(new) = last - 1
      /\ new.type = cell.type /\ new.capacity = cell.capacity
  BY <1>1, <1>2, <1>4, OtherMembers
<1>6. \A i \in 1 .. Count(new) : /\ new.members[i] = cell.members[from(i)]
                                 /\ from(i) \in 1 .. last /\ from(i) # pos
  BY <1>1, <1>3, <1>4, <1>5
<1>7. \A i, j \in 1 .. Count(new) : from(i) = from(j) => i = j
  BY <1>1, <1>5
<1>11. \A k \in 1 .. last : k # pos => \E i \in 1 .. Count(new) : from(i) = k
  <2> SUFFICES ASSUME NEW k \in 1 .. last, k # pos
               PROVE  \E i \in 1 .. Count(new) : from(i) = k
    OBVIOUS
  <2>1. CASE k = last
    <3>1. pos \in 1 .. Count(new) /\ from(pos) = k
      BY <1>1, <1>5, <2>1
    <3> QED
      BY <3>1
  <2>2. CASE k # last
    <3>1. k \in 1 .. Count(new) /\ from(k) = k
      BY <1>1, <1>5, <2>2
    <3> QED
      BY <3>1
  <2> QED
    BY <2>1, <2>2
<1> HIDE DEF from
<1>8. \A i, j \in 1 .. last :
         /\ cell.members[i].name = cell.members[j].name => i = j
         /\ cell.members[i].value = cell.members[j].value => i = j
  BY DEF CellSound, last
<1>9. CellSound(new)
  <2>1. Count(new) <= new.capacity
    BY <1>1, <1>5 DEF CellSound, last
  <2>2. new.type # "object" => Count(new) = 0
    BY <1>1, <1>5 DEF CellSound, last
  <2> QED
    BY <1>5, <1>6, <1>7, <1>8, <2>1, <2>2 DEF CellSound
<1>10. Children(new) \subseteq Children(cell) \ {Get(cell, name)}
  <2> SUFFICES ASSUME NEW i \in 1 .. Count(new)
               PROVE  /\ new.members[i].value \in Children(cell)
                      /\ new.members[i].value # Get(cell, name)
    BY DEF Children
  <2> QED
    BY <1>1, <1>6, <1>8 DEF Children, last
<1>12. cell.members[pos].name = name
  BY PositionIs DEF pos
<1>13. ASSUME NEW n, NEW x
       PROVE  Binds(new, n, x) <=> Binds(cell, n, x) /\ n # name
  <2>1. ASSUME Binds(new, n, x) PROVE Binds(cell, n, x) /\ n # name
    <3>1. PICK i \in 1 .. Count(new) : new.members[i].name = n /\ new.members[i].value = x
      BY <2>1 DEF Binds
    <3>2. /\ from(i) \in 1 .. last /\ from(i) # pos
          /\ cell.members[from(i)].name = n /\ cell.members[from(i)].value = x
      BY <1>6, <3>1
    <3>3. n # name
      BY <1>1, <1>8, <1>12, <3>2
    <3> QED
      BY <3>2, <3>3 DEF Binds, last
  <2>2. ASSUME Binds(cell, n, x), n # name PROVE Binds(new, n, x)
    <3>1. PICK k \in 1 .. last : cell.members[k].name = n /\ cell.members[k].value = x
      BY <2>2 DEF Binds, last
    <3>2. k # pos
      BY <1>12, <2>2, <3>1
    <3>3. PICK i \in 1 .. Count(new) : from(i) = k
      BY <1>11, <3>1, <3>2
    <3> QED
      BY <1>6, <3>1, <3>3 DEF Binds
  <2> QED
    BY <2>1, <2>2
<1> QED
  BY <1>5, <1>9, <1>10, <1>13 DEF new

\* What json_object_set_value leaves when the name is there.
Rewritten(cell, name, v) == [cell EXCEPT !.members[Position(cell, name)].value = v]

LEMMA RewrittenCell ==
  ASSUME NEW cell, CellSound(cell), NEW name \in Name, Has(cell, name),
         NEW v \in Node, v \notin Children(cell)
  PROVE  LET new == Rewritten(cell, name, v)
         IN  /\ CellSound(new) /\ new.type = cell.type
             /\ Children(new) \subseteq (Children(cell) \ {Get(cell, name)}) \cup {v}
             /\ \A n, x : Binds(new, n, x)
                            <=> IF n = name THEN x = v ELSE Binds(cell, n, x)
<1> DEFINE new == Rewritten(cell, name, v)
           pos == Position(cell, name)
           m == [cell.members[pos] EXCEPT !.value = v]
           ms == [cell.members EXCEPT ![pos] = m]
<1>1. /\ cell \in Cell /\ cell.members \in Seq(Member) /\ Count(cell) \in Nat
      /\ Count(cell) = Len(cell.members) /\ pos \in 1 .. Count(cell)
      /\ Get(cell, name) = cell.members[pos].value /\ cell.members[pos] \in Member
  BY CellFields, PositionIs DEF CellSound
<1>2. new = [cell EXCEPT !.members = ms]
  BY DEF Rewritten
<1> HIDE DEF pos, new
<1>3. m \in Member /\ m.value = v /\ m.name = cell.members[pos].name
  BY <1>1 DEF Member
<1> HIDE DEF m
<1>4. /\ ms \in Seq(Member) /\ Len(ms) = Count(cell)
      /\ \A i \in 1 .. Count(cell) : ms[i] = IF i = pos THEN m ELSE cell.members[i]
  BY <1>1, <1>3
<1> HIDE DEF ms
<1>5. /\ new \in Cell /\ new.members = ms /\ Count(new) = Count(cell)
      /\ new.type = cell.type /\ new.capacity = cell.capacity
  BY <1>1, <1>2, <1>4, OtherMembers
<1>6. \A i \in 1 .. Count(cell) :
         /\ new.members[i].name = cell.members[i].name
         /\ new.members[i].value = IF i = pos THEN v ELSE cell.members[i].value
         /\ cell.members[i].value # v
  BY <1>3, <1>4, <1>5 DEF Children
<1>7. CellSound(new)
  BY <1>5, <1>6 DEF CellSound
<1>8. Children(new) \subseteq (Children(cell) \ {Get(cell, name)}) \cup {v}
  <2> SUFFICES ASSUME NEW i \in 1 .. Count(new), i # pos
               PROVE  /\ new.members[i].value \in Children(cell)
                      /\ new.members[i].value # Get(cell, name)
    BY <1>5, <1>6 DEF Children
  <2> QED
    BY <1>1, <1>5, <1>6 DEF Children, CellSound
<1>9. \A i \in 1 .. Count(cell) : cell.members[i].name = name <=> i = pos
  <2>1. cell.members[pos].name = name
    BY PositionIs DEF pos
  <2> QED
    BY <1>1, <2>1 DEF CellSound
<1>10. ASSUME NEW n, NEW x
       PROVE  Binds(new, n, x) <=> IF n = name THEN x = v ELSE Binds(cell, n, x)
  <2>1. CASE n = name
    BY <1>1, <1>5, <1>6, <1>9, <2>1 DEF Binds
  <2>2. CASE n # name
    BY <1>5, <1>6, <1>9, <2>2 DEF Binds
  <2> QED
    BY <2>1, <2>2
<1> QED
  BY <1>5, <1>7, <1>8, <1>10 DEF new

\* What json_object_clear leaves.
LEMMA ClearedCell ==
  ASSUME NEW cell, CellSound(cell), NEW new, new = [cell EXCEPT !.members = <<>>]
  PROVE  /\ CellSound(new) /\ new.type = cell.type /\ Children(new) = {}
         /\ \A n, x : ~Binds(new, n, x)
<1>1. <<>> \in Seq(Member) /\ Len(<<>>) = 0
  OBVIOUS
<1>2. cell \in Cell /\ cell.capacity \in Nat
  BY CellFields DEF CellSound
<1>3. /\ new \in Cell /\ new.type = cell.type /\ new.capacity = cell.capacity
      /\ Count(new) = 0
  <2>1. new \in Cell /\ new.type = cell.type /\ new.capacity = cell.capacity
    BY <1>1, <1>2 DEF Cell
  <2>2. new.members = <<>>
    BY <1>2 DEF Cell
  <2> QED
    BY <1>1, <2>1, <2>2 DEF Count
<1>4. Children(new) = {} /\ \A n, x : ~Binds(new, n, x)
  BY <1>3 DEF Children, Binds
<1>5. CellSound(new)
  BY <1>2, <1>3 DEF CellSound
<1> QED
  BY <1>3, <1>4, <1>5

-----------------------------------------------------------------------------
(* Below. *)

Closed(h, S) == \A n \in S : Children(h[n]) \subseteq S

LEMMA BelowIs ==
  ASSUME NEW h \in [Node -> Cell], NEW roots, roots \subseteq Node
  PROVE  /\ Below(h, roots) \subseteq Node
         /\ roots \subseteq Below(h, roots)
         /\ Closed(h, Below(h, roots))
         /\ \A S \in SUBSET Node :
              roots \subseteq S /\ Closed(h, S) => Below(h, roots) \subseteq S
<1> DEFINE closed == {S \in SUBSET Node :
                        roots \subseteq S /\ \A n \in S : Children(h[n]) \subseteq S}
<1>1. Below(h, roots) = {n \in Node : \A S \in closed : n \in S}
  BY DEF Below
<1>2. ASSUME NEW n \in Below(h, roots), NEW c \in Children(h[n])
      PROVE  c \in Below(h, roots)
  <2>1. n \in Node /\ h[n] \in Cell
    BY <1>1
  <2>2. c \in Node
    BY <2>1, ChildrenAreNodes
  <2>3. \A S \in closed : n \in S
    BY <1>1
  <2>4. \A S \in closed : c \in S
    BY <2>3
  <2> QED
    BY <1>1, <2>2, <2>4
<1> QED
  BY <1>1, <1>2 DEF Closed

\* A node that is reached is a root or a child of one that is reached.
LEMMA BelowHasParent ==
  ASSUME NEW h \in [Node -> Cell], NEW roots, roots \subseteq Node,
         NEW n \in Below(h, roots), n \notin roots
  PROVE  \E m \in Below(h, roots) : n \in Children(h[m])
<1> SUFFICES ASSUME \A m \in Below(h, roots) : n \notin Children(h[m])
             PROVE  FALSE
  OBVIOUS
<1> DEFINE S == Below(h, roots) \ {n}
<1>1. S \in SUBSET Node /\ roots \subseteq S /\ Closed(h, S)
  BY BelowIs DEF Closed
<1> QED
  BY <1>1, BelowIs

\* What is freed with the roots taken out is in no other tree.
LEMMA FreedApart ==
  ASSUME NEW h, NEW roots, HeapSound(h, roots), NEW V, V \subseteq roots
  PROVE  /\ Below(h, V) \cap roots = V
         /\ \A n \in Node : Children(h[n]) \cap Below(h, V) # {} => n \in Below(h, V)
<1>1. h \in [Node -> Cell] /\ V \subseteq Node
  BY DEF HeapSound
<1>2. Below(h, V) \subseteq Node /\ V \subseteq Below(h, V)
  BY <1>1, BelowIs
<1>3. \A c \in Below(h, V) : c \notin V => \E m \in Below(h, V) : c \in Children(h[m])
  BY <1>1, BelowHasParent
<1> QED
  BY <1>2, <1>3 DEF HeapSound

\* And what is freed with children of an object that is reached is in no tree
\* but its own, and does not reach the object.
LEMMA DetachedApart ==
  ASSUME NEW h, NEW roots, HeapSound(h, roots), NEW o \in Below(h, roots),
         NEW G, G \subseteq Children(h[o])
  PROVE  /\ o \in Node
         /\ Below(h, G) \cap roots = {}
         /\ o \notin Below(h, G)
         /\ \A n \in Node : Children(h[n]) \cap Below(h, G) # {} => n \in Below(h, G) \/ n = o
         /\ Children(h[o]) \cap Below(h, G) \subseteq G
<1> DEFINE D == Below(h, G)
<1>1. h \in [Node -> Cell] /\ roots \subseteq Node
  BY DEF HeapSound
<1>2. o \in Node /\ Below(h, roots) \subseteq Node
  BY <1>1, BelowIs
<1>3. G \subseteq Node
  BY <1>1, <1>2, ChildrenAreNodes
<1>4. D \subseteq Node /\ G \subseteq D /\ Closed(h, D)
  BY <1>1, <1>3, BelowIs
<1>5. \A c \in D : c \notin G => \E m \in D : c \in Children(h[m])
  BY <1>1, <1>3, BelowHasParent
<1> HIDE DEF D
<1>6. D \cap roots = {}
  BY <1>2, <1>4, <1>5 DEF HeapSound
<1>7. \A n \in Node : Children(h[n]) \cap D # {} => n \in D \/ n = o
  BY <1>2, <1>4, <1>5 DEF HeapSound
<1>8. o \notin D
  <2> SUFFICES ASSUME o \in D PROVE FALSE
    OBVIOUS
  <2> DEFINE S == Node \ D
  <2>1. roots \subseteq S
    BY <1>1, <1>6
  <2>2. Closed(h, S)
    <3> SUFFICES ASSUME NEW n \in S, NEW c \in Children(h[n]) PROVE c \in S
      BY DEF Closed
    <3>1. c \in Node
      BY <1>1, ChildrenAreNodes
    <3> QED
      BY <1>7, <3>1
  <2>3. Below(h, roots) \subseteq S
    BY <1>1, <2>1, <2>2, BelowIs
  <2> QED
    BY <2>3
<1>9. Children(h[o]) \cap D \subseteq G
  BY <1>2, <1>4, <1>5, <1>8 DEF HeapSound
<1> QED
  BY <1>2, <1>6, <1>7, <1>8, <1>9 DEF D

-----------------------------------------------------------------------------
(* Changes of a heap. *)

LEMMA FewerRoots ==
  ASSUME NEW h, NEW roots, HeapSound(h, roots), NEW fewer, fewer \subseteq roots
  PROVE  HeapSound(h, fewer)
BY DEF HeapSound

\* A call makes a value.
LEMMA NewNode ==
  ASSUME NEW h, NEW roots, HeapSound(h, roots), NEW n \in Node, ~Live(h, n),
         NEW cell \in {Leaf, EmptyObject}
  PROVE  /\ HeapSound([h EXCEPT ![n] = cell], roots \cup {n})
         /\ \A o \in Below(h, roots) : o \in Below([h EXCEPT ![n] = cell], roots \cup {n})
         /\ n \notin roots
<1> DEFINE new == [h EXCEPT ![n] = cell]
<1>1. CellSound(cell) /\ Children(cell) = {} /\ cell \in Cell /\ cell.type # "unused"
  BY FreshCells DEF CellSound, Leaf, EmptyObject
<1>2. h \in [Node -> Cell] /\ n \notin roots /\ CellSound(h[n])
  BY DEF HeapSound
<1>3. Children(h[n]) = {}
  <2>1. Count(h[n]) = 0
    BY <1>2 DEF CellSound, Live
  <2> QED
    BY <2>1 DEF Children
<1>4. /\ new \in [Node -> Cell] /\ new[n] = cell
      /\ \A m \in Node : m # n => new[m] = h[m]
      /\ \A m \in Node : Children(new[m]) = Children(h[m])
  BY <1>1, <1>2, <1>3
<1> HIDE DEF new
<1>5. HeapSound(new, roots \cup {n})
  <2>1. \A m \in Node : CellSound(new[m]) /\ (Live(h, m) => Live(new, m))
    BY <1>1, <1>4 DEF HeapSound, Live
  <2>2. Live(new, n) /\ roots \cup {n} \subseteq Node
    BY <1>1, <1>4 DEF HeapSound, Live
  <2>3. \A m \in Node : \A c \in Children(h[m]) : c \in Node /\ c # n /\ Live(new, c)
    BY <1>2, <2>1, ChildrenAreNodes DEF HeapSound
  <2> QED
    BY <1>4, <2>1, <2>2, <2>3 DEF HeapSound
<1>6. ASSUME NEW o \in Below(h, roots)
      PROVE  o \in Below(new, roots \cup {n})
  <2>1. roots \cup {n} \subseteq Node /\ roots \subseteq Node
    BY DEF HeapSound
  <2> DEFINE S == Below(new, roots \cup {n})
  <2>2. S \in SUBSET Node /\ roots \subseteq S /\ Closed(new, S)
    BY <1>4, <2>1, BelowIs
  <2>3. Closed(h, S)
    BY <1>4, <2>2 DEF Closed
  <2> HIDE DEF S
  <2>4. Below(h, roots) \subseteq S
    BY <1>2, <2>1, <2>2, <2>3, BelowIs
  <2> QED
    BY <2>4 DEF S
<1> QED
  BY <1>2, <1>5, <1>6 DEF new

\* Whole trees that hang on o alone.
Detachable(h, roots, o, D) ==
  /\ D \subseteq Node
  /\ o \in Node \ D
  /\ D \cap roots = {}
  /\ \A n \in Node : Children(h[n]) \cap D # {} => n \in D \/ n = o

\* They are freed, and o becomes cell.
Changed(h, o, cell, D, new) ==
  /\ new \in [Node -> Cell]
  /\ \A n \in Node : new[n] = IF n \in D THEN Unused ELSE IF n = o THEN cell ELSE h[n]

\* One object changes: values that no longer belong to it are freed with all
\* that is below them, roots are put into it.
LEMMA ObjectChanges ==
  ASSUME NEW h, NEW roots, HeapSound(h, roots),
         NEW D, NEW o, Detachable(h, roots, o, D),
         NEW cell, CellSound(cell), cell.type # "unused",
         NEW V, V \subseteq roots,
         Children(cell) \subseteq (Children(h[o]) \ D) \cup V,
         NEW new, Changed(h, o, cell, D, new)
  PROVE  HeapSound(new, roots \ V)
<1> USE DEF Detachable, Changed
<1>1. CellSound(Unused) /\ Children(Unused) = {} /\ Unused \in Cell
  BY FreshCells DEF CellSound
<1>2. /\ cell \in Cell /\ h \in [Node -> Cell] /\ new \in [Node -> Cell]
      /\ \A n \in Node : CellSound(new[n])
  BY <1>1 DEF CellSound, HeapSound
<1>3. \A n \in Node :
        /\ n \in D => new[n] = Unused
        /\ n = o => new[n] = cell
        /\ n \notin D /\ n # o => new[n] = h[n]
  OBVIOUS
<1>4. \A n \in Node : /\ n # o => Children(new[n]) \subseteq Children(h[n]) \ D
                      /\ n = o => Children(new[n]) \subseteq (Children(h[n]) \ D) \cup V
  BY <1>1, <1>3
<1>5. \A n \in Node : n \notin D /\ Live(h, n) => Live(new, n)
  BY <1>3 DEF Live
<1>6. \A n \in Node : Children(h[n]) \subseteq Node
  BY <1>2, ChildrenAreNodes
<1>7. \A n \in Node : \A c \in Children(new[n]) : Live(new, c) /\ c \notin roots \ V
  BY <1>4, <1>5, <1>6 DEF HeapSound
<1>8. \A n, m \in Node : n # m => Children(new[n]) \cap Children(new[m]) = {}
  BY <1>4 DEF HeapSound
<1>9. \A n \in roots \ V : Live(new, n)
  BY <1>5 DEF HeapSound
<1> QED
  BY <1>2, <1>7, <1>8, <1>9 DEF HeapSound

LEMMA FreedRoots ==
  ASSUME NEW h, NEW roots, HeapSound(h, roots), NEW G, G \subseteq roots
  PROVE  HeapSound(Freed(h, G), roots \ G)
<1> DEFINE D == Below(h, G)
           new == Freed(h, G)
<1>1. h \in [Node -> Cell] /\ roots \subseteq Node /\ G \subseteq Node
  BY DEF HeapSound
<1>2. /\ D \cap roots = G /\ D \subseteq Node
      /\ \A n \in Node : Children(h[n]) \cap D # {} => n \in D
  BY <1>1, FreedApart, BelowIs
<1>3. new = [n \in Node |-> IF n \in D THEN Unused ELSE h[n]]
  BY DEF Freed
<1> HIDE DEF D, new
<1>4. CellSound(Unused) /\ Children(Unused) = {} /\ Unused \in Cell
  BY FreshCells DEF CellSound
<1>5. new \in [Node -> Cell] /\ \A n \in Node : CellSound(new[n])
  BY <1>1, <1>3, <1>4 DEF HeapSound
<1>6. \A n \in Node : Children(new[n]) \subseteq Children(h[n]) \ D
  BY <1>2, <1>3, <1>4
<1>7. \A n \in Node : n \notin D /\ Live(h, n) => Live(new, n)
  BY <1>3 DEF Live
<1>8. \A n \in Node : Children(h[n]) \subseteq Node
  BY <1>1, ChildrenAreNodes
<1>9. \A n \in Node : \A c \in Children(new[n]) : Live(new, c) /\ c \notin roots
  BY <1>6, <1>7, <1>8 DEF HeapSound
<1>10. \A n, m \in Node : n # m => Children(new[n]) \cap Children(new[m]) = {}
  BY <1>6 DEF HeapSound
<1>11. \A n \in roots \ G : n \in Node /\ Live(new, n)
  BY <1>1, <1>2, <1>7 DEF HeapSound
<1> QED
  BY <1>5, <1>9, <1>10, <1>11 DEF HeapSound, new

\* A root is released and what is below it is left behind.
LEMMA DroppedRoot ==
  ASSUME NEW h, NEW roots, HeapSound(h, roots), NEW n \in roots
  PROVE  HeapSound([h EXCEPT ![n] = Unused], roots \ {n})
<1> DEFINE new == [h EXCEPT ![n] = Unused]
<1>1. CellSound(Unused) /\ Children(Unused) = {} /\ Unused \in Cell
  BY FreshCells DEF CellSound
<1>2. h \in [Node -> Cell] /\ n \in Node /\ roots \subseteq Node
  BY DEF HeapSound
<1>3. /\ new \in [Node -> Cell]
      /\ \A m \in Node : new[m] = IF m = n THEN Unused ELSE h[m]
  BY <1>1, <1>2
<1> HIDE DEF new
<1>4. \A m \in Node : /\ CellSound(new[m]) /\ Children(new[m]) \subseteq Children(h[m])
                      /\ m # n /\ Live(h, m) => Live(new, m)
  BY <1>1, <1>3 DEF HeapSound, Live
<1>5. \A m \in Node : \A c \in Children(h[m]) : c \in Node /\ c # n
  BY <1>2, ChildrenAreNodes DEF HeapSound
<1>6. \A m \in Node : \A c \in Children(new[m]) : Live(new, c) /\ c \notin roots
  BY <1>4, <1>5 DEF HeapSound
<1>7. \A m, k \in Node : m # k => Children(new[m]) \cap Children(new[k]) = {}
  BY <1>4 DEF HeapSound
<1>8. \A m \in roots \ {n} : Live(new, m)
  BY <1>2, <1>4 DEF HeapSound
<1> QED
  BY <1>2, <1>3, <1>4, <1>6, <1>7, <1>8 DEF HeapSound, new

\* One object changes, and nothing is freed.
LEMMA ObjectGrows ==
  ASSUME NEW h, NEW roots, HeapSound(h, roots), NEW o \in Node,
         NEW cell, CellSound(cell), cell.type # "unused",
         NEW V, V \subseteq roots, Children(cell) \subseteq Children(h[o]) \cup V
  PROVE  HeapSound([h EXCEPT ![o] = cell], roots \ V)
<1> DEFINE D == {}
           new == [n \in Node |-> IF n \in D THEN Unused
                                  ELSE IF n = o THEN cell ELSE h[n]]
<1>1. h \in [Node -> Cell]
  BY DEF HeapSound
<1>2. [h EXCEPT ![o] = cell] = new
  BY <1>1
<1>3. /\ Detachable(h, roots, o, D)
      /\ Children(cell) \subseteq (Children(h[o]) \ D) \cup V
  BY DEF Detachable
<1>4. Changed(h, o, cell, D, new)
  BY <1>1, FreshCells DEF CellSound, Changed
<1> HIDE DEF D, new
<1>5. HeapSound(new, roots \ V)
  BY <1>3, <1>4, ObjectChanges
<1> QED
  BY <1>2, <1>5

LEMMA TrimmedObject ==
  ASSUME NEW h, NEW roots, HeapSound(h, roots), NEW o \in Node, Live(h, o),
         NEW new, new = [h EXCEPT ![o] = Resized(@, Count(@))]
  PROVE  /\ HeapSound(new, roots)
         /\ new[o].type = h[o].type
         /\ \A n \in Node : n # o => new[n] = h[n]
<1> DEFINE cell == Resized(h[o], Count(h[o]))
<1>1. h \in [Node -> Cell] /\ CellSound(h[o])
  BY DEF HeapSound
<1>2. Count(h[o]) \in Nat /\ Count(h[o]) <= OBJECT_MAX_CAPACITY
  BY <1>1, CellFields, CapacityAssumption DEF CellSound
<1>3. CellSound(cell) /\ cell.type = h[o].type /\ Children(cell) = Children(h[o])
  BY <1>1, <1>2, ResizedCell
<1>4. new = [h EXCEPT ![o] = cell]
  OBVIOUS
<1> HIDE DEF cell
<1>5. cell.type # "unused" /\ Children(cell) \subseteq Children(h[o]) \cup {}
  BY <1>3 DEF Live
<1>6. HeapSound([h EXCEPT ![o] = cell], roots \ {})
  BY <1>3, <1>5, ObjectGrows
<1>7. roots \ {} = roots
  OBVIOUS
<1> QED
  BY <1>1, <1>3, <1>4, <1>6, <1>7

LEMMA AddsSound ==
  ASSUME NEW h, NEW roots, HeapSound(h, roots), NEW o \in Node, h[o].type = "object",
         NEW name \in Name, NEW v \in Node, v \notin Children(h[o]),
         NEW a \in Adds(h[o], name, v), a.ok => v \in roots
  PROVE  /\ a.ok \in BOOLEAN /\ a.cell \in Cell /\ a.cell.type = "object"
         /\ HeapSound([h EXCEPT ![o] = a.cell], IF a.ok THEN roots \ {v} ELSE roots)
<1>1. CellSound(h[o])
  BY DEF HeapSound
<1>2. /\ a.ok \in BOOLEAN /\ CellSound(a.cell) /\ a.cell.type = "object"
      /\ ~a.ok => Children(a.cell) = Children(h[o])
      /\ a.ok => Children(a.cell) = Children(h[o]) \cup {v}
  BY <1>1, AddsCell
<1>3. CASE a.ok
  <2>1. HeapSound([h EXCEPT ![o] = a.cell], roots \ {v})
    BY <1>2, <1>3, ObjectGrows
  <2> QED
    BY <1>2, <1>3, <2>1 DEF CellSound
<1>4. CASE ~a.ok
  <2>1. HeapSound([h EXCEPT ![o] = a.cell], roots \ {})
    BY <1>2, <1>4, ObjectGrows
  <2> QED
    BY <1>2, <1>4, <2>1 DEF CellSound
<1> QED
  BY <1>2, <1>3, <1>4

\* One object changes, and values it had are freed.
LEMMA ObjectSheds ==
  ASSUME NEW h, NEW roots, HeapSound(h, roots), NEW o \in Below(h, roots),
         NEW cell, CellSound(cell), cell.type # "unused",
         NEW G, G \subseteq Children(h[o]), NEW V, V \subseteq roots,
         Children(cell) \subseteq (Children(h[o]) \ G) \cup V
  PROVE  HeapSound([Freed(h, G) EXCEPT ![o] = cell], roots \ V)
<1> DEFINE D == Below(h, G)
           new == [n \in Node |-> IF n \in D THEN Unused
                                  ELSE IF n = o THEN cell ELSE h[n]]
<1>1. /\ o \in Node /\ D \cap roots = {} /\ o \notin D
      /\ \A n \in Node : Children(h[n]) \cap D # {} => n \in D \/ n = o
      /\ Children(h[o]) \cap D \subseteq G
  BY DetachedApart
<1>2. h \in [Node -> Cell]
  BY DEF HeapSound
<1>3. D \subseteq Node
  BY <1>1, <1>2, ChildrenAreNodes, BelowIs
<1>4. Freed(h, G) = [n \in Node |-> IF n \in D THEN Unused ELSE h[n]]
  BY DEF Freed
<1> HIDE DEF D
<1>5. Children(cell) \subseteq (Children(h[o]) \ D) \cup V
  BY <1>1
<1>6. [Freed(h, G) EXCEPT ![o] = cell] = new
  BY <1>1, <1>4
<1>7. Detachable(h, roots, o, D) /\ Changed(h, o, cell, D, new)
  BY <1>1, <1>2, <1>3, FreshCells DEF CellSound, Detachable, Changed
<1> HIDE DEF new
<1>8. HeapSound(new, roots \ V)
  BY <1>5, <1>7, ObjectChanges
<1> QED
  BY <1>6, <1>8

\* json_object_set_value: the name is there, or it is not.
LEMMA OverwrittenSound ==
  ASSUME NEW h, NEW roots, HeapSound(h, roots), NEW o \in Below(h, roots),
         h[o].type = "object", NEW name \in Name, Has(h[o], name), NEW v \in roots
  PROVE  HeapSound(Overwritten(h, o, name, v), roots \ {v})
<1> DEFINE G == {Get(h[o], name)}
           V == {v}
           cell == Rewritten(h[o], name, v)
<1>1. h \in [Node -> Cell] /\ roots \subseteq Node
  BY DEF HeapSound
<1>2. o \in Node
  BY <1>1, BelowIs
<1>3. CellSound(h[o]) /\ v \in Node /\ v \notin Children(h[o])
  BY <1>1, <1>2 DEF HeapSound
<1>4. /\ CellSound(cell) /\ cell.type = "object"
      /\ Children(cell) \subseteq (Children(h[o]) \ G) \cup V
  BY <1>3, RewrittenCell
<1>5. G \subseteq Children(h[o]) /\ V \subseteq roots /\ cell.type # "unused"
  BY <1>4, PositionIs
<1> HIDE DEF G, V, cell
<1>6. HeapSound([Freed(h, G) EXCEPT ![o] = cell], roots \ V)
  BY <1>4, <1>5, ObjectSheds
<1>7. Freed(h, G)[o] = h[o]
  BY <1>2, <1>5, DetachedApart DEF Freed
<1>8. Overwritten(h, o, name, v) = [Freed(h, G) EXCEPT ![o] = cell]
  BY <1>7 DEF Overwritten, Rewritten, G, cell
<1> QED
  BY <1>6, <1>8 DEF V

LEMMA SetsNewSound ==
  ASSUME NEW h, NEW roots, HeapSound(h, roots), NEW o \in Node,
         h[o].type = "object", NEW name \in Name, ~Has(h[o], name), NEW v \in roots,
         NEW s \in Sets(h, o, name, v)
  PROVE  /\ s.ok \in BOOLEAN
         /\ HeapSound(s.heap, IF s.ok THEN roots \ {v} ELSE roots)
<1>1. PICK a \in Adds(h[o], name, v) : s = [heap |-> [h EXCEPT ![o] = a.cell], ok |-> a.ok]
  BY DEF Sets
<1>2. v \in Node /\ v \notin Children(h[o])
  BY DEF HeapSound
<1>3. a.ok \in BOOLEAN /\ HeapSound([h EXCEPT ![o] = a.cell], IF a.ok THEN roots \ {v} ELSE roots)
  BY <1>2, AddsSound
<1>4. s.ok = a.ok /\ s.heap = [h EXCEPT ![o] = a.cell]
  BY <1>1
<1> QED
  BY <1>3, <1>4

LEMMA SetsSound ==
  ASSUME NEW h, NEW roots, HeapSound(h, roots), NEW o \in Below(h, roots),
         h[o].type = "object", NEW name \in Name, NEW v \in roots,
         NEW s \in Sets(h, o, name, v)
  PROVE  /\ s.ok \in BOOLEAN
         /\ HeapSound(s.heap, IF s.ok THEN roots \ {v} ELSE roots)
<1>1. o \in Node
  BY BelowIs DEF HeapSound
<1>2. CASE Has(h[o], name)
  <2>1. s.ok = TRUE /\ s.heap = Overwritten(h, o, name, v)
    BY <1>2 DEF Sets
  <2>2. HeapSound(s.heap, roots \ {v})
    BY <1>2, <2>1, OverwrittenSound
  <2> QED
    BY <2>1, <2>2
<1>3. CASE ~Has(h[o], name)
  BY <1>1, <1>3, SetsNewSound
<1> QED
  BY <1>2, <1>3

LEMMA RemovedSound ==
  ASSUME NEW h, NEW roots, HeapSound(h, roots), NEW o \in Below(h, roots),
         h[o].type = "object", NEW name \in Name, Has(h[o], name)
  PROVE  HeapSound(Removed(h, o, name), roots)
<1> DEFINE G == {Get(h[o], name)}
           cell == Without(h[o], name)
<1>1. CellSound(h[o])
  BY BelowIs DEF HeapSound
<1>2. /\ CellSound(cell) /\ cell.type = "object"
      /\ Children(cell) \subseteq (Children(h[o]) \ G) \cup {}
  BY <1>1, WithoutCell
<1>3. G \subseteq Children(h[o])
  BY PositionIs
<1>4. Removed(h, o, name) = [Freed(h, G) EXCEPT ![o] = cell]
  BY DEF Removed
<1> HIDE DEF G, cell
<1>5. HeapSound([Freed(h, G) EXCEPT ![o] = cell], roots \ {})
  BY <1>2, <1>3, ObjectSheds
<1>6. roots \ {} = roots
  OBVIOUS
<1> QED
  BY <1>4, <1>5, <1>6

LEMMA ClearedSound ==
  ASSUME NEW h, NEW roots, HeapSound(h, roots), NEW o \in Below(h, roots),
         h[o].type = "object"
  PROVE  HeapSound(Cleared(h, o), roots)
<1> DEFINE G == Children(h[o])
           cell == [h[o] EXCEPT !.members = <<>>]
<1>1. CellSound(h[o])
  BY BelowIs DEF HeapSound
<1>2. CellSound(cell) /\ cell.type = "object" /\ Children(cell) = {}
  BY <1>1, ClearedCell
<1>3. Cleared(h, o) = [Freed(h, G) EXCEPT ![o] = cell]
  BY DEF Cleared
<1> HIDE DEF cell
<1>4. HeapSound([Freed(h, G) EXCEPT ![o] = cell], roots \ {})
  BY <1>2, ObjectSheds
<1>5. roots \ {} = roots
  OBVIOUS
<1> QED
  BY <1>3, <1>4, <1>5

-----------------------------------------------------------------------------
(* Calls: nothing is being parsed, and the roots are what the caller holds. *)

LEMMA CallKeeps ==
  ASSUME parsing = <<>>, parsing' = <<>>, HeapSound(heap', held'),
         status' \in {"ok", "failed"}
  PROVE  JInv'
<1>1. Opened' = {} /\ Len(parsing') = 0 /\ parsing' \in Seq(Node)
  BY DEF Opened
<1>2. Roots' = held'
  BY <1>1 DEF Roots
<1>3. ParsingSound'
  BY <1>1 DEF ParsingSound
<1> QED
  BY <1>2, <1>3 DEF JInv

LEMMA CallStarts ==
  ASSUME JInv, parsing = <<>>
  PROVE  /\ HeapSound(heap, held) /\ heap \in [Node -> Cell] /\ held \subseteq Node
         /\ \A o \in OwnObjects : /\ o \in Below(heap, held) /\ o \in Node
                                  /\ heap[o].type = "object"
         /\ \A n \in Free : n \in Node /\ ~Live(heap, n)
         /\ \A o \in OwnObjects, name \in Name : \A i \in Inner(heap, o, name) :
              /\ i \in Below(heap, held) /\ i \in Node /\ heap[i].type = "object"
<1>1. Roots = held
  BY DEF Roots, Opened
<1>2. HeapSound(heap, held) /\ heap \in [Node -> Cell] /\ held \subseteq Node
  BY <1>1 DEF JInv, HeapSound
<1>3. \A o \in OwnObjects : /\ o \in Below(heap, held) /\ o \in Node
                            /\ heap[o].type = "object"
  BY <1>2, BelowIs DEF OwnObjects, Owned
<1>4. ASSUME NEW o \in OwnObjects, NEW name \in Name, NEW i \in Inner(heap, o, name)
      PROVE  i \in Below(heap, held) /\ i \in Node /\ heap[i].type = "object"
  <2>1. i \in Node /\ heap[i].type = "object" /\ i \in Children(heap[o])
    BY PositionIs DEF Inner
  <2> QED
    BY <1>2, <1>3, <2>1, BelowIs DEF Closed
<1> QED
  BY <1>2, <1>3, <1>4 DEF Free, Live

LEMMA OutcomeStatus ==
  ASSUME NEW s, Outcome(s)
  PROVE  heap' = s.heap /\ status' \in {"ok", "failed"}
BY DEF Outcome

LEMMA NewValueJInv ==
  ASSUME JInv, parsing = <<>>, parsing' = parsing, NewValue
  PROVE  JInv'
<1> PICK n \in Free, cell \in {Leaf, EmptyObject} :
       heap' = [heap EXCEPT ![n] = cell] /\ held' = held \cup {n} /\ status' = "ok"
  BY DEF NewValue
<1>1. HeapSound(heap', held')
  BY CallStarts, NewNode
<1> QED
  BY <1>1, CallKeeps

LEMMA FreeValueJInv ==
  ASSUME JInv, parsing = <<>>, parsing' = parsing, FreeValue
  PROVE  JInv'
<1> PICK v \in Given : /\ heap' = Freed(heap, {v}) /\ held' = held \ {v}
                       /\ status' = "ok"
  BY DEF FreeValue
<1>1. {v} \subseteq held
  BY DEF Given
<1>2. HeapSound(heap', held')
  BY <1>1, CallStarts, FreedRoots
<1> QED
  BY <1>2, CallKeeps

LEMMA SetValueJInv ==
  ASSUME JInv, parsing = <<>>, parsing' = parsing, SetValue
  PROVE  JInv'
<1> PICK o \in OwnObjects, name \in Name, v \in Given :
       \E s \in Sets(heap, o, name, v) :
         Outcome(s) /\ held' = IF s.ok THEN held \ {v} ELSE held
  BY DEF SetValue
<1> PICK s \in Sets(heap, o, name, v) :
       Outcome(s) /\ held' = IF s.ok THEN held \ {v} ELSE held
  OBVIOUS
<1>1. v \in held
  BY DEF Given
<1>2. HeapSound(s.heap, IF s.ok THEN held \ {v} ELSE held) /\ s.ok \in BOOLEAN
  BY <1>1, CallStarts, SetsSound
<1> QED
  BY <1>2, OutcomeStatus, CallKeeps

LEMMA SetLeafJInv ==
  ASSUME JInv, parsing = <<>>, parsing' = parsing, SetLeaf
  PROVE  JInv'
<1>1. CASE Fails
  BY <1>1, CallStarts, CallKeeps DEF Fails
<1>2. ASSUME NEW o \in OwnObjects, NEW name \in Name, NEW v \in Free,
             NEW s \in Sets([heap EXCEPT ![v] = Leaf], o, name, v),
             Outcome(s), UNCHANGED held
      PROVE  JInv'
  <2> DEFINE h == [heap EXCEPT ![v] = Leaf]
  <2>1. /\ HeapSound(heap, held) /\ heap \in [Node -> Cell] /\ v \in Node
        /\ ~Live(heap, v) /\ o \in Below(heap, held) /\ o \in Node
        /\ heap[o].type = "object" /\ o # v
    BY CallStarts DEF Live
  <2>2. /\ HeapSound(h, held \cup {v}) /\ o \in Below(h, held \cup {v})
        /\ v \notin held
    BY <2>1, NewNode
  <2>3. h[o].type = "object"
    BY <2>1
  <2> HIDE DEF h
  <2>4. /\ s.ok \in BOOLEAN
        /\ HeapSound(s.heap, IF s.ok THEN (held \cup {v}) \ {v} ELSE held \cup {v})
    BY <1>2, <2>2, <2>3, SetsSound DEF h
  <2>5. HeapSound(s.heap, held)
    BY <2>2, <2>4, FewerRoots
  <2> QED
    BY <1>2, <2>5, OutcomeStatus, CallKeeps
<1> QED
  BY <1>1, <1>2 DEF SetLeaf

\* json_object_dotset_value on one object, under one name, of one value.
DotSets(o, outer, name, v) ==
  \/ \E i \in Inner(heap, o, outer) : \E s \in Sets(heap, i, name, v) :
       /\ Outcome(s)
       /\ held' = IF s.ok THEN held \ {v} ELSE held
  \/ Fails
  \/ \E i \in Free : \E a \in Adds(heap[o], outer, i) :
       IF a.ok
       THEN \E s \in Sets([heap EXCEPT ![o] = a.cell, ![i] = EmptyObject], i, name, v) :
              /\ Outcome(s)
              /\ held' = IF s.ok THEN held \ {v} ELSE held
       ELSE /\ heap' = [heap EXCEPT ![o] = a.cell]
            /\ status' = "failed"
            /\ UNCHANGED held

LEMMA DotSetIs ==
  ASSUME DotSet
  PROVE  \E o \in OwnObjects, outer \in Name, name \in Name, v \in Given :
           DotSets(o, outer, name, v)
BY Zenon DEF DotSet, DotSets

LEMMA DotSetJInv ==
  ASSUME JInv, parsing = <<>>, parsing' = parsing, DotSet
  PROVE  JInv'
<1> PICK o \in OwnObjects, outer \in Name, name \in Name, v \in Given :
       DotSets(o, outer, name, v)
  BY DotSetIs
<1>1. /\ v \in held /\ HeapSound(heap, held) /\ heap \in [Node -> Cell]
      /\ o \in Node /\ heap[o].type = "object"
  BY CallStarts DEF Given
<1>2. CASE Fails
  BY <1>1, <1>2, CallKeeps DEF Fails
<1>3. ASSUME NEW i \in Inner(heap, o, outer), NEW s \in Sets(heap, i, name, v),
             Outcome(s), held' = IF s.ok THEN held \ {v} ELSE held
      PROVE  JInv'
  <2>1. HeapSound(s.heap, IF s.ok THEN held \ {v} ELSE held) /\ s.ok \in BOOLEAN
    BY <1>1, CallStarts, SetsSound
  <2> QED
    BY <1>3, <2>1, OutcomeStatus, CallKeeps
<1>4. ASSUME NEW i \in Free, NEW a \in Adds(heap[o], outer, i)
      PROVE  /\ i \in Node /\ i # o /\ i \notin Children(heap[o])
             /\ ~Live(heap, i)
  BY <1>1, CallStarts DEF HeapSound, Live
<1>5. ASSUME NEW i \in Free, NEW a \in Adds(heap[o], outer, i), ~a.ok,
             heap' = [heap EXCEPT ![o] = a.cell], status' = "failed", UNCHANGED held
      PROVE  JInv'
  <2>1. HeapSound(heap', held)
    BY <1>1, <1>4, <1>5, AddsSound
  <2> QED
    BY <1>5, <2>1, CallKeeps
<1>6. ASSUME NEW i \in Free, NEW a \in Adds(heap[o], outer, i), a.ok,
             NEW s \in Sets([heap EXCEPT ![o] = a.cell, ![i] = EmptyObject], i, name, v),
             Outcome(s), held' = IF s.ok THEN held \ {v} ELSE held
      PROVE  JInv'
  <2> DEFINE made == [heap EXCEPT ![i] = EmptyObject]
             joined == [made EXCEPT ![o] = a.cell]
  <2>1. /\ i \in Node /\ i # o /\ i \notin Children(heap[o]) /\ ~Live(heap, i)
        /\ i \notin held
    BY <1>1, <1>4 DEF HeapSound
  <2>2. HeapSound(made, held \cup {i})
    BY <1>1, <2>1, NewNode
  <2>3. made[o] = heap[o] /\ made[i] = EmptyObject /\ made \in [Node -> Cell]
    BY <1>1, <2>1, FreshCells DEF CellSound
  <2>4. joined = [heap EXCEPT ![o] = a.cell, ![i] = EmptyObject]
    BY <1>1, <2>1
  <2> HIDE DEF made
  <2>5. HeapSound(joined, (held \cup {i}) \ {i})
    <3>1. i \in held \cup {i} /\ a \in Adds(made[o], outer, i) /\ made[o].type = "object"
      BY <1>1, <2>3
    <3> QED
      BY <1>1, <1>6, <2>1, <2>2, <2>3, <3>1, AddsSound
  <2>6. HeapSound(joined, held)
    BY <2>1, <2>5, FewerRoots
  <2>7. joined[i] = EmptyObject
    BY <2>1, <2>3
  <2>8. joined[i].type = "object" /\ ~Has(joined[i], name)
    <3>1. Len(<<>>) = 0
      OBVIOUS
    <3> QED
      BY <2>7, <3>1 DEF EmptyObject, Has, Positions, Count
  <2>9. s \in Sets(joined, i, name, v)
    BY <2>4
  <2> HIDE DEF joined
  <2>10. HeapSound(s.heap, IF s.ok THEN held \ {v} ELSE held) /\ s.ok \in BOOLEAN
    BY <1>1, <2>1, <2>6, <2>8, <2>9, SetsNewSound
  <2> QED
    BY <1>6, <2>10, OutcomeStatus, CallKeeps
<1> QED
  BY <1>2, <1>3, <1>5, <1>6 DEF DotSets

LEMMA RemoveJInv ==
  ASSUME JInv, parsing = <<>>, parsing' = parsing, Remove
  PROVE  JInv'
<1> PICK o \in OwnObjects, name \in Name :
       IF Has(heap[o], name)
       THEN Outcome([heap |-> Removed(heap, o, name), ok |-> TRUE]) /\ UNCHANGED held
       ELSE Fails
  BY DEF Remove
<1>1. CASE Has(heap[o], name)
  <2>1. HeapSound(Removed(heap, o, name), held)
    BY <1>1, CallStarts, RemovedSound
  <2>2. heap' = Removed(heap, o, name) /\ status' = "ok"
    BY <1>1 DEF Outcome
  <2> QED
    BY <1>1, <2>1, <2>2, CallKeeps
<1>2. CASE ~Has(heap[o], name)
  BY <1>2, CallStarts, CallKeeps DEF Fails
<1> QED
  BY <1>1, <1>2

LEMMA DotRemoveJInv ==
  ASSUME JInv, parsing = <<>>, parsing' = parsing, DotRemove
  PROVE  JInv'
<1>1. CASE Fails
  BY <1>1, CallStarts, CallKeeps DEF Fails
<1>2. ASSUME NEW o \in OwnObjects, NEW outer \in Name, NEW name \in Name,
             NEW i \in Inner(heap, o, outer), Has(heap[i], name),
             Outcome([heap |-> Removed(heap, i, name), ok |-> TRUE]), UNCHANGED held
      PROVE  JInv'
  <2>1. HeapSound(Removed(heap, i, name), held)
    BY <1>2, CallStarts, RemovedSound
  <2>2. heap' = Removed(heap, i, name) /\ status' = "ok"
    BY <1>2 DEF Outcome
  <2> QED
    BY <1>2, <2>1, <2>2, CallKeeps
<1> QED
  BY <1>1, <1>2 DEF DotRemove

LEMMA ClearJInv ==
  ASSUME JInv, parsing = <<>>, parsing' = parsing, Clear
  PROVE  JInv'
<1> PICK o \in OwnObjects :
       Outcome([heap |-> Cleared(heap, o), ok |-> TRUE]) /\ UNCHANGED held
  BY DEF Clear
<1>1. HeapSound(Cleared(heap, o), held)
  BY CallStarts, ClearedSound
<1>2. heap' = Cleared(heap, o) /\ status' = "ok"
  BY DEF Outcome
<1> QED
  BY <1>1, <1>2, CallKeeps

-----------------------------------------------------------------------------
(* The parser: what it has open are roots as well. *)

LEMMA ParsingStarts ==
  ASSUME JInv
  PROVE  /\ HeapSound(heap, held \cup Opened) /\ heap \in [Node -> Cell]
         /\ held \subseteq Node /\ Opened \subseteq Node /\ held \cap Opened = {}
         /\ parsing \in Seq(Node) /\ Opened = {parsing[i] : i \in 1 .. Len(parsing)}
         /\ \A n \in Opened : heap[n].type = "object"
         /\ \A n \in Free : n \in Node /\ ~Live(heap, n) /\ n \notin held \cup Opened
<1>1. HeapSound(heap, held \cup Opened) /\ parsing \in Seq(Node)
  BY DEF JInv, Roots, ParsingSound
<1>2. Opened = {parsing[i] : i \in 1 .. Len(parsing)}
  BY <1>1 DEF Opened
<1> QED
  BY <1>1, <1>2 DEF JInv, ParsingSound, HeapSound, Free, Live

\* The innermost open object, and the others.
LEMMA Innermost ==
  ASSUME JInv, parsing # <<>>
  PROVE  /\ Len(parsing) \in Nat \ {0} /\ Top = parsing[Len(parsing)]
         /\ Top \in Opened /\ Top \in Node
         /\ Outer \in Seq(Node) /\ Len(Outer) = Len(parsing) - 1
         /\ \A i \in 1 .. Len(Outer) : Outer[i] = parsing[i] /\ Outer[i] # Top
         /\ {Outer[i] : i \in 1 .. Len(Outer)} = Opened \ {Top}
<1>1. parsing \in Seq(Node) /\ Opened = {parsing[i] : i \in 1 .. Len(parsing)}
  BY ParsingStarts
<1>2. Len(parsing) \in Nat \ {0} /\ Top = parsing[Len(parsing)]
  BY <1>1 DEF Top
<1>3. /\ Outer \in Seq(Node) /\ Len(Outer) = Len(parsing) - 1
      /\ \A i \in 1 .. Len(Outer) : Outer[i] = parsing[i]
  <2> DEFINE last == Len(parsing) - 1
  <2>1. last \in Nat /\ last <= Len(parsing) /\ Outer = SubSeq(parsing, 1, last)
    BY <1>2 DEF Outer
  <2> HIDE DEF last
  <2>2. Outer \in Seq(Node)
    BY <1>1, <2>1
  <2>3. Len(Outer) = last
    BY <1>1, <2>1
  <2>4. \A i \in 1 .. last : Outer[i] = parsing[i]
    BY <1>1, <2>1
  <2> QED
    BY <2>2, <2>3, <2>4 DEF last
<1>4. \A i \in 1 .. Len(parsing) : i \in 1 .. Len(Outer) \/ i = Len(parsing)
  BY <1>2, <1>3
<1>5. \A i \in 1 .. Len(Outer) : i \in 1 .. Len(parsing) /\ i # Len(parsing)
  BY <1>2, <1>3
<1>6. Len(parsing) \in 1 .. Len(parsing)
  BY <1>2
<1>7. \A i, j \in 1 .. Len(parsing) : parsing[i] = parsing[j] => i = j
  BY DEF JInv, ParsingSound
<1>8. Top \in Opened /\ Top \in Node
  BY <1>1, <1>2, <1>6, ParsingStarts
<1>9. \A i \in 1 .. Len(Outer) : Outer[i] # Top
  BY <1>2, <1>3, <1>5, <1>6, <1>7
<1>10. {Outer[i] : i \in 1 .. Len(Outer)} = Opened \ {Top}
  <2>1. ASSUME NEW n \in Opened \ {Top}
        PROVE  n \in {Outer[i] : i \in 1 .. Len(Outer)}
    BY <1>1, <1>2, <1>3, <1>4
  <2>2. ASSUME NEW i \in 1 .. Len(Outer)
        PROVE  Outer[i] \in Opened \ {Top}
    BY <1>1, <1>3, <1>5, <1>9
  <2> QED
    BY <2>1, <2>2
<1> QED
  BY <1>2, <1>3, <1>8, <1>9, <1>10

LEMMA AbandonKeeps ==
  ASSUME JInv, NEW h, NEW open, open \subseteq Node, held \cap open = {},
         HeapSound(h, held \cup open), Abandon(h, open)
  PROVE  JInv'
<1>1. HeapSound(Freed(h, open), (held \cup open) \ open)
  BY FreedRoots
<1>2. HeapSound(Freed(h, open), held)
  BY <1>1, FewerRoots
<1>3. heap' = Freed(h, open) /\ held' = held /\ parsing' = <<>> /\ status' = "failed"
  BY DEF Abandon
<1>4. Opened' = {} /\ Len(parsing') = 0 /\ parsing' \in Seq(Node)
  BY <1>3 DEF Opened
<1>5. Roots' = held
  BY <1>3, <1>4 DEF Roots
<1>6. ParsingSound'
  BY <1>4 DEF ParsingSound
<1> QED
  BY <1>2, <1>3, <1>5, <1>6 DEF JInv

LEMMA ParseObjectJInv ==
  ASSUME JInv, ParseObject
  PROVE  JInv'
<1> PICK n \in Free : /\ heap' = [heap EXCEPT ![n] = EmptyObject]
                      /\ parsing' = Append(parsing, n)
                      /\ UNCHANGED <<held, status>>
  BY DEF ParseObject
<1>1. /\ HeapSound(heap, held \cup Opened) /\ heap \in [Node -> Cell]
      /\ parsing \in Seq(Node) /\ Opened = {parsing[i] : i \in 1 .. Len(parsing)}
      /\ n \in Node /\ ~Live(heap, n) /\ n \notin held /\ n \notin Opened
      /\ Len(parsing) \in Nat
  BY ParsingStarts
<1>2. /\ parsing' \in Seq(Node) /\ Len(parsing') = Len(parsing) + 1
      /\ \A i \in 1 .. Len(parsing) : parsing'[i] = parsing[i]
      /\ parsing'[Len(parsing) + 1] = n
  BY <1>1
<1>3. \A i \in 1 .. Len(parsing') : i \in 1 .. Len(parsing) \/ i = Len(parsing) + 1
  BY <1>1, <1>2
<1>4. Opened' \subseteq Opened \cup {n}
  <2>1. Opened' = {parsing'[i] : i \in 1 .. Len(parsing')}
    BY <1>2 DEF Opened
  <2> QED
    BY <1>1, <1>2, <1>3, <2>1
<1>5. HeapSound(heap', Roots')
  <2>1. HeapSound(heap', (held \cup Opened) \cup {n})
    BY <1>1, NewNode
  <2>2. Roots' \subseteq (held \cup Opened) \cup {n}
    BY <1>4 DEF Roots
  <2> QED
    BY <2>1, <2>2, FewerRoots
<1>6. \A i \in 1 .. Len(parsing) : parsing[i] # n /\ parsing[i] \in Node
  BY <1>1
<1>7. ParsingSound'
  <2>1. \A i \in 1 .. Len(parsing') : heap'[parsing'[i]].type = "object"
    BY <1>1, <1>2, <1>3, <1>6 DEF JInv, ParsingSound, EmptyObject
  <2>2. \A i, j \in 1 .. Len(parsing') : parsing'[i] = parsing'[j] => i = j
    BY <1>2, <1>3, <1>6 DEF JInv, ParsingSound
  <2>3. \A i \in 1 .. Len(parsing') : parsing'[i] \notin held'
    BY <1>1, <1>2, <1>3 DEF JInv, ParsingSound
  <2> QED
    BY <1>2, <2>1, <2>2, <2>3 DEF ParsingSound
<1> QED
  BY <1>5, <1>7 DEF JInv

LEMMA ParseLeafJInv ==
  ASSUME JInv, ParseLeaf
  PROVE  JInv'
<1>1. parsing # <<>>
  BY DEF ParseLeaf
<1>p. PICK n \in Free, name \in Name : \E a \in Adds(heap[Top], name, n) :
       IF a.ok
       THEN /\ heap' = [heap EXCEPT ![n] = Leaf, ![Top] = a.cell]
            /\ UNCHANGED <<held, parsing, status>>
       ELSE Abandon(heap, Opened)
  BY DEF ParseLeaf
<1>a. PICK a \in Adds(heap[Top], name, n) :
       IF a.ok
       THEN /\ heap' = [heap EXCEPT ![n] = Leaf, ![Top] = a.cell]
            /\ UNCHANGED <<held, parsing, status>>
       ELSE Abandon(heap, Opened)
  BY <1>p
<1> DEFINE roots == held \cup Opened
           made == [heap EXCEPT ![n] = Leaf]
<1>2. /\ HeapSound(heap, roots) /\ heap \in [Node -> Cell] /\ Opened \subseteq Node
      /\ held \cap Opened = {} /\ n \in Node /\ ~Live(heap, n) /\ n \notin roots
      /\ Top \in Node /\ heap[Top].type = "object"
  BY <1>p, <1>1, ParsingStarts, Innermost
<1>3. CASE ~a.ok
  BY <1>a, <1>2, <1>3, AbandonKeeps
<1>4. CASE a.ok
  <2>1. n # Top /\ n \notin Children(heap[Top])
    BY <1>2 DEF Live, HeapSound
  <2>2. HeapSound(made, roots \cup {n})
    BY <1>2, NewNode
  <2>3. made[Top] = heap[Top] /\ heap' = [made EXCEPT ![Top] = a.cell]
    BY <1>a, <1>2, <1>4, <2>1
  <2>4. \A m \in Node : m # n => made[m] = heap[m]
    BY <1>2
  <2>5. made \in [Node -> Cell]
    BY <2>2 DEF HeapSound
  <2> HIDE DEF made
  <2> DEFINE all == roots \cup {n}
  <2>6. n \in all /\ a \in Adds(made[Top], name, n) /\ made[Top].type = "object"
        /\ n \notin Children(made[Top]) /\ HeapSound(made, all)
    BY <1>a, <1>2, <2>1, <2>2, <2>3
  <2> HIDE DEF all
  <2>7. /\ HeapSound([made EXCEPT ![Top] = a.cell], all \ {n})
        /\ a.cell.type = "object"
    <3>1. n \in Node /\ Top \in Node /\ name \in Name
      BY <1>p, <1>2
    <3>2. CellSound(made[Top])
      BY <2>6, <3>1 DEF HeapSound
    <3>3. a.cell.type = "object"
      BY <2>6, <3>1, <3>2, AddsCell
    <3>4. HeapSound([made EXCEPT ![Top] = a.cell], IF a.ok THEN all \ {n} ELSE all)
      BY <2>6, <3>1, AddsSound
    <3> QED
      BY <1>4, <3>3, <3>4
  <2>8. Roots' \subseteq all \ {n} /\ UNCHANGED <<held, parsing, status>>
    BY <1>a, <1>2, <1>4 DEF Roots, Opened, all
  <2>9. HeapSound(heap', Roots')
    BY <2>3, <2>7, <2>8, FewerRoots
  <2>10. \A m \in Node : m # n => heap'[m].type = heap[m].type \/ m = Top
    BY <2>3, <2>4, <2>5
  <2>11. heap'[Top].type = "object"
    BY <1>2, <2>3, <2>5, <2>7
  <2>12. ParsingSound'
    <3>1. \A i \in 1 .. Len(parsing) : parsing[i] \in Node /\ parsing[i] # n
      BY <1>2, ParsingStarts
    <3>2. \A i \in 1 .. Len(parsing') : heap'[parsing'[i]].type = "object"
      BY <2>8, <2>10, <2>11, <3>1 DEF JInv, ParsingSound
    <3> QED
      BY <2>8, <3>2 DEF JInv, ParsingSound
  <2> QED
    BY <2>8, <2>9, <2>12 DEF JInv
<1> QED
  BY <1>3, <1>4

LEMMA ParseEndJInv ==
  ASSUME JInv, ParseEnd
  PROVE  JInv'
<1>1. /\ heap' = [heap EXCEPT ![Top] = Resized(@, Count(@))]
      /\ held' = held \cup {Top} /\ parsing' = <<>> /\ status' = "ok"
      /\ Len(parsing) = 1
  BY DEF ParseEnd
<1>2. parsing # <<>>
  <2>1. Len(<<>>) = 0
    OBVIOUS
  <2> QED
    BY <1>1, <2>1
<1>3. /\ HeapSound(heap, held \cup Opened) /\ Top \in Opened /\ Top \in Node
      /\ Live(heap, Top)
  BY <1>2, ParsingStarts, Innermost DEF HeapSound
<1>4. HeapSound(heap', held \cup Opened)
  BY <1>1, <1>3, TrimmedObject
<1>5. held' \subseteq held \cup Opened
  BY <1>1, <1>3
<1>6. HeapSound(heap', held')
  BY <1>4, <1>5, FewerRoots
<1> QED
  <2>1. Opened' = {} /\ Len(parsing') = 0 /\ parsing' \in Seq(Node)
    BY <1>1 DEF Opened
  <2>2. Roots' = held'
    BY <2>1 DEF Roots
  <2>3. ParsingSound'
    BY <2>1 DEF ParsingSound
  <2> QED
    BY <1>1, <1>6, <2>2, <2>3 DEF JInv

LEMMA ParseFailJInv ==
  ASSUME JInv, ParseFail
  PROVE  JInv'
BY ParsingStarts, AbandonKeeps DEF ParseFail

LEMMA ParseCloseJInv ==
  ASSUME JInv, ParseClose
  PROVE  JInv'
<1> DEFINE outer == Outer[Len(Outer)]
           trimmed == [heap EXCEPT ![Top] = Resized(@, Count(@))]
           roots == held \cup Opened
<1>p. PICK name \in Name : \E a \in Adds(heap[outer], name, Top) :
       IF a.ok
       THEN /\ heap' = [trimmed EXCEPT ![outer] = a.cell]
            /\ parsing' = Outer
            /\ UNCHANGED <<held, status>>
       ELSE Abandon([heap EXCEPT ![Top] = Unused], Opened \ {Top})
  BY DEF ParseClose
<1>a. PICK a \in Adds(heap[outer], name, Top) :
       IF a.ok
       THEN /\ heap' = [trimmed EXCEPT ![outer] = a.cell]
            /\ parsing' = Outer
            /\ UNCHANGED <<held, status>>
       ELSE Abandon([heap EXCEPT ![Top] = Unused], Opened \ {Top})
  BY <1>p
<1>1. parsing # <<>> /\ Len(parsing) > 1
  <2>1. Len(<<>>) = 0
    OBVIOUS
  <2> QED
    BY <2>1 DEF ParseClose
<1>2. /\ Len(parsing) \in Nat /\ Outer \in Seq(Node) /\ Len(Outer) = Len(parsing) - 1
      /\ \A i \in 1 .. Len(Outer) : Outer[i] = parsing[i] /\ Outer[i] # Top
      /\ {Outer[i] : i \in 1 .. Len(Outer)} = Opened \ {Top}
      /\ Top \in Opened /\ Top \in Node
  BY <1>1, Innermost
<1>3. Len(Outer) \in 1 .. Len(Outer)
  BY <1>1, <1>2
<1>4. outer \in Opened /\ outer # Top /\ outer \in Node
  BY <1>2, <1>3
<1>5. /\ HeapSound(heap, roots) /\ heap \in [Node -> Cell] /\ Opened \subseteq Node
      /\ held \cap Opened = {} /\ held \subseteq Node
      /\ \A n \in Opened : heap[n].type = "object"
  BY ParsingStarts
<1> HIDE DEF outer
<1>6. CASE ~a.ok
  <2> DEFINE h == [heap EXCEPT ![Top] = Unused]
             open == Opened \ {Top}
  <2>1. HeapSound(h, roots \ {Top})
    BY <1>2, <1>5, DroppedRoot
  <2>2. roots \ {Top} = held \cup open
    BY <1>2, <1>5
  <2>3. open \subseteq Node /\ held \cap open = {}
    BY <1>5
  <2>4. Abandon(h, open)
    BY <1>a, <1>6
  <2> HIDE DEF h, open
  <2> QED
    BY <2>1, <2>2, <2>3, <2>4, AbandonKeeps
<1>7. CASE a.ok
  <2>1. heap' = [trimmed EXCEPT ![outer] = a.cell] /\ parsing' = Outer
        /\ UNCHANGED <<held, status>>
    BY <1>a, <1>7
  <2>2. Live(heap, Top)
    BY <1>2, <1>5 DEF Live
  <2>3. /\ HeapSound(trimmed, roots) /\ trimmed[Top].type = "object"
        /\ \A n \in Node : n # Top => trimmed[n] = heap[n]
    <3>1. trimmed = [heap EXCEPT ![Top] = Resized(@, Count(@))]
      OBVIOUS
    <3>2. HeapSound(heap, roots) /\ heap[Top].type = "object" /\ Top \in Node
      BY <1>2, <1>5
    <3> HIDE DEF trimmed, roots
    <3>3. HeapSound(trimmed, roots)
      BY <2>2, <3>1, <3>2, TrimmedObject
    <3>4. trimmed[Top].type = heap[Top].type
      BY <2>2, <3>1, <3>2, TrimmedObject
    <3>5. \A n \in Node : n # Top => trimmed[n] = heap[n]
      BY <1>5, <3>1
    <3> QED
      BY <3>2, <3>3, <3>4, <3>5
  <2> HIDE DEF trimmed
  <2>4. /\ trimmed[outer] = heap[outer] /\ trimmed[outer].type = "object"
        /\ trimmed \in [Node -> Cell]
    BY <1>4, <1>5, <2>3 DEF HeapSound
  <2>5. Top \in roots /\ Top \notin Children(trimmed[outer])
    BY <1>2, <1>4, <2>3 DEF HeapSound
  <2> HIDE DEF roots
  <2>6. /\ HeapSound([trimmed EXCEPT ![outer] = a.cell], roots \ {Top})
        /\ a.cell.type = "object"
    <3>1. /\ a \in Adds(trimmed[outer], name, Top)
          /\ HeapSound(trimmed, roots) /\ trimmed[outer].type = "object"
          /\ outer \in Node /\ Top \in Node /\ Top \in roots
          /\ Top \notin Children(trimmed[outer])
      BY <1>a, <1>2, <1>4, <2>3, <2>4, <2>5
    <3>2. CellSound(trimmed[outer])
      BY <3>1 DEF HeapSound
    <3>3. a.cell.type = "object"
      BY <3>1, <3>2, AddsCell
    <3>4. HeapSound([trimmed EXCEPT ![outer] = a.cell],
                    IF a.ok THEN roots \ {Top} ELSE roots)
      BY <3>1, AddsSound
    <3> QED
      BY <1>7, <3>3, <3>4
  <2>7. Opened' = Opened \ {Top}
    <3>1. Opened' = {Outer[i] : i \in 1 .. Len(Outer)}
      BY <1>2, <2>1 DEF Opened
    <3> QED
      BY <1>2, <3>1
  <2>8. Roots' \subseteq roots \ {Top}
    BY <1>2, <1>5, <2>1, <2>7 DEF Roots, roots
  <2>9. HeapSound(heap', Roots')
    BY <2>1, <2>6, <2>8, FewerRoots
  <2>10. \A n \in Opened : n # Top => heap'[n].type = "object"
    BY <1>4, <1>5, <2>1, <2>3, <2>4, <2>6
  <2>11. ParsingSound'
    <3>1. \A i \in 1 .. Len(Outer) : i \in 1 .. Len(parsing) /\ Outer[i] \in Opened
      BY <1>2
    <3>2. \A i \in 1 .. Len(Outer) : heap'[Outer[i]].type = "object"
      BY <1>2, <2>10, <3>1
    <3>3. \A i, j \in 1 .. Len(Outer) : Outer[i] = Outer[j] => i = j
      BY <1>2, <3>1 DEF JInv, ParsingSound
    <3>4. \A i \in 1 .. Len(Outer) : Outer[i] \notin held
      BY <1>5, <3>1
    <3> QED
      BY <1>2, <2>1, <3>2, <3>3, <3>4 DEF ParsingSound
  <2> QED
    BY <2>1, <2>9, <2>11 DEF JInv
<1> QED
  BY <1>6, <1>7

-----------------------------------------------------------------------------
(* The theorems. *)

LEMMA InitJInv == Init => JInv
<1> SUFFICES ASSUME Init PROVE JInv
  OBVIOUS
<1>1. \A cell \in {Unused, EmptyObject} : CellSound(cell) /\ Children(cell) = {}
  BY FreshCells
<1>2. /\ heap \in [Node -> Cell] /\ Live(heap, Root)
      /\ \A n \in Node : CellSound(heap[n]) /\ Children(heap[n]) = {}
  BY <1>1, RootAssumption DEF Init, CellSound, Live, EmptyObject
<1>3. Opened = {} /\ Len(parsing) = 0 /\ parsing \in Seq(Node)
  BY DEF Init, Opened
<1>4. Roots = {Root}
  BY <1>3 DEF Roots, Init
<1>5. HeapSound(heap, Roots)
  BY <1>2, <1>4, RootAssumption DEF HeapSound
<1>6. ParsingSound
  BY <1>3 DEF ParsingSound
<1> QED
  BY <1>5, <1>6 DEF JInv, Init

LEMMA NextJInv == JInv /\ [Next]_vars => JInv'
<1> SUFFICES ASSUME JInv, [Next]_vars PROVE JInv'
  OBVIOUS
<1>1. CASE Call
  BY <1>1, NewValueJInv, FreeValueJInv, SetValueJInv, SetLeafJInv, DotSetJInv,
     RemoveJInv, DotRemoveJInv, ClearJInv DEF Call
<1>2. CASE Parse
  BY <1>2, ParseObjectJInv, ParseLeafJInv, ParseCloseJInv, ParseEndJInv, ParseFailJInv
     DEF Parse
<1>3. CASE UNCHANGED vars
  <2>1. UNCHANGED <<heap, held, parsing, status>> /\ Roots' = Roots
    BY <1>3 DEF vars, Roots, Opened
  <2> QED
    BY <2>1 DEF JInv, ParsingSound
<1> QED
  BY <1>1, <1>2, <1>3 DEF Next

LEMMA JInvProperties == JInv => JsonTypeOK /\ ObjectsSound /\ OneOwner
<1> SUFFICES ASSUME JInv PROVE JsonTypeOK /\ ObjectsSound /\ OneOwner
  OBVIOUS
<1>1. /\ HeapSound(heap, Roots) /\ held \subseteq Node /\ parsing \in Seq(Node)
  BY DEF JInv, HeapSound, Roots, ParsingSound
<1>2. JsonTypeOK
  BY <1>1 DEF JsonTypeOK, JInv, HeapSound
<1>3. ObjectsSound
  BY <1>1 DEF ObjectsSound, HeapSound, CellSound
<1>4. \A n \in Roots : heap[n].type # "unused"
  BY <1>1 DEF HeapSound, Live
<1>5. ASSUME NEW n \in Node, NEW i \in 1 .. Count(heap[n]),
             NEW v, v = heap[n].members[i].value
      PROVE  /\ heap[v].type # "unused" /\ v \notin Roots
             /\ \A m \in Node : \A j \in 1 .. Count(heap[m]) :
                  heap[m].members[j].value = v => m = n /\ j = i
  <2>1. v \in Children(heap[n])
    BY <1>5 DEF Children
  <2>2. heap[v].type # "unused" /\ v \notin Roots
    BY <1>1, <2>1 DEF HeapSound, Live
  <2>3. ASSUME NEW m \in Node, NEW j \in 1 .. Count(heap[m]),
               heap[m].members[j].value = v
        PROVE  m = n /\ j = i
    <3>1. v \in Children(heap[m])
      BY <2>3 DEF Children
    <3>2. m = n
      BY <1>1, <2>1, <3>1 DEF HeapSound
    <3>3. CellSound(heap[n])
      BY <1>1 DEF HeapSound
    <3> QED
      BY <1>5, <2>3, <3>2, <3>3 DEF CellSound
  <2> QED
    BY <2>2, <2>3
<1>6. OneOwner
  BY <1>4, <1>5 DEF OneOwner
<1> QED
  BY <1>2, <1>3, <1>6

\* The library's objects are sound at every moment between two calls, and
\* between two steps of the parser.
LEMMA JInvariance == Spec => []JInv
BY InitJInv, NextJInv, PTL DEF Spec

\* Every variable keeps its type; in particular no object is larger than
\* OBJECT_MAX_CAPACITY (json_object_add looks at the limit before it grows).
THEOREM JsonTypeCorrect == Spec => []JsonTypeOK
BY JInvariance, JInvProperties, PTL

\* No object has more members than its arrays have room for, or two of one
\* name, whatever was set, removed, cleared or parsed (json_object_add).
THEOREM ObjectsAreSound == Spec => []ObjectsSound
BY JInvariance, JInvProperties, PTL

\* Every value in an object is allocated, is in no other place and belongs to
\* nobody else: json_value_free frees a tree without freeing anything twice.
THEOREM ValuesHaveOneOwner == Spec => []OneOwner
BY JInvariance, JInvProperties, PTL
-----------------------------------------------------------------------------
(* What the caller owns is apart from what the parser has open. *)

\* Only values that are in use are reached.
LEMMA BelowIsLive ==
  ASSUME NEW h, NEW roots, HeapSound(h, roots), NEW V, V \subseteq roots
  PROVE  \A n \in Below(h, V) : n \in Node /\ Live(h, n)
<1> DEFINE S == {n \in Node : Live(h, n)}
<1>1. h \in [Node -> Cell] /\ V \subseteq Node /\ V \subseteq S
  BY DEF HeapSound
<1>2. \A n \in Node : Children(h[n]) \subseteq Node
  BY <1>1, ChildrenAreNodes
<1>3. Closed(h, S)
  BY <1>2 DEF Closed, HeapSound
<1>4. Below(h, V) \subseteq S
  BY <1>1, <1>3, BelowIs
<1> QED
  BY <1>4

\* The trees of different roots have nothing in common.
LEMMA TreesApart ==
  ASSUME NEW h, NEW roots, HeapSound(h, roots),
         NEW V, V \subseteq roots, NEW W, W \subseteq roots, V \cap W = {}
  PROVE  Below(h, V) \cap Below(h, W) = {}
<1> DEFINE D == Below(h, W)
           S == Node \ D
<1>1. h \in [Node -> Cell] /\ V \subseteq Node
  BY DEF HeapSound
<1>2. /\ D \cap roots = W
      /\ \A n \in Node : Children(h[n]) \cap D # {} => n \in D
  BY FreedApart
<1>3. \A n \in Node : Children(h[n]) \subseteq Node
  BY <1>1, ChildrenAreNodes
<1> HIDE DEF D
<1>4. V \subseteq S
  BY <1>1, <1>2
<1>5. Closed(h, S)
  BY <1>2, <1>3 DEF Closed
<1>6. Below(h, V) \subseteq S
  BY <1>1, <1>4, <1>5, BelowIs
<1> QED
  BY <1>6 DEF D

\* From fewer roots, through fewer members, fewer values are reached.
LEMMA BelowFewer ==
  ASSUME NEW h \in [Node -> Cell], NEW g \in [Node -> Cell],
         \A n \in Node : Children(g[n]) \subseteq Children(h[n]),
         NEW W, W \subseteq Node, NEW V, V \subseteq W
  PROVE  Below(g, V) \subseteq Below(h, W)
<1> DEFINE S == Below(h, W)
<1>1. S \subseteq Node /\ W \subseteq S /\ Closed(h, S)
  BY BelowIs
<1>2. Closed(g, S)
  BY <1>1 DEF Closed
<1> HIDE DEF S
<1>3. V \subseteq S /\ V \subseteq Node
  BY <1>1
<1>4. Below(g, V) \subseteq S
  BY <1>1, <1>2, <1>3, BelowIs
<1> QED
  BY <1>4 DEF S

LEMMA OwnedApart ==
  ASSUME JInv, NEW o \in Owned
  PROVE  /\ o \in Node /\ Live(heap, o)
         /\ o \notin Below(heap, Opened) /\ o \notin Opened
<1>1. /\ HeapSound(heap, held \cup Opened) /\ heap \in [Node -> Cell]
      /\ held \cap Opened = {} /\ Opened \subseteq Node
  BY ParsingStarts
<1>2. o \in Node /\ Live(heap, o)
  BY <1>1, BelowIsLive DEF Owned
<1>3. o \notin Below(heap, Opened)
  BY <1>1, TreesApart DEF Owned
<1>4. Opened \subseteq Below(heap, Opened)
  BY <1>1, BelowIs
<1> QED
  BY <1>2, <1>3, <1>4

\* The parser touches nothing of the caller's, whether it goes on or gives up.
LEMMA ParseLeavesOwned ==
  ASSUME JInv, Parse, NEW o \in Owned
  PROVE  heap'[o] = heap[o]
<1>1. /\ o \in Node /\ Live(heap, o)
      /\ o \notin Below(heap, Opened) /\ o \notin Opened
  BY OwnedApart
<1>2. /\ heap \in [Node -> Cell] /\ Opened \subseteq Node
      /\ \A n \in Free : n \in Node /\ n # o
  BY <1>1, ParsingStarts
<1>3. CASE ParseObject
  BY <1>1, <1>2, <1>3 DEF ParseObject
<1>4. CASE ParseLeaf
  <2>1. Top \in Opened
    BY <1>4, Innermost DEF ParseLeaf
  <2>2. PICK n \in Free, name \in Name : \E a \in Adds(heap[Top], name, n) :
          IF a.ok THEN heap' = [heap EXCEPT ![n] = Leaf, ![Top] = a.cell]
                  ELSE Abandon(heap, Opened)
    BY <1>4 DEF ParseLeaf
  <2>3. PICK a : IF a.ok THEN heap' = [heap EXCEPT ![n] = Leaf, ![Top] = a.cell]
                         ELSE Abandon(heap, Opened)
    BY <2>2
  <2>4. CASE a.ok
    BY <1>1, <1>2, <2>1, <2>3, <2>4
  <2>5. CASE ~a.ok
    BY <1>1, <2>3, <2>5 DEF Abandon, Freed
  <2> QED
    BY <2>4, <2>5
<1>5. CASE ParseClose
  <2> DEFINE outer == Outer[Len(Outer)]
             trimmed == [heap EXCEPT ![Top] = Resized(@, Count(@))]
             h == [heap EXCEPT ![Top] = Unused]
             open == Opened \ {Top}
  <2>0. parsing # <<>> /\ Len(parsing) > 1
    <3>1. Len(<<>>) = 0
      OBVIOUS
    <3> QED
      BY <1>5, <3>1 DEF ParseClose
  <2>1. Top \in Opened /\ outer \in Opened
    <3>1. /\ Len(parsing) \in Nat /\ Len(Outer) = Len(parsing) - 1
          /\ {Outer[i] : i \in 1 .. Len(Outer)} = Opened \ {Top} /\ Top \in Opened
      BY <2>0, Innermost
    <3>2. Len(Outer) \in 1 .. Len(Outer)
      BY <2>0, <3>1
    <3> QED
      BY <3>1, <3>2
  <2>2. PICK name \in Name : \E a \in Adds(heap[outer], name, Top) :
          IF a.ok THEN heap' = [trimmed EXCEPT ![outer] = a.cell]
                  ELSE Abandon(h, open)
    BY <1>5 DEF ParseClose
  <2>3. PICK a : IF a.ok THEN heap' = [trimmed EXCEPT ![outer] = a.cell]
                         ELSE Abandon(h, open)
    BY <2>2
  <2>4. trimmed[o] = heap[o] /\ h[o] = heap[o]
    BY <1>1, <1>2, <2>1
  <2>5. CASE a.ok
    <3>1. trimmed \in [Node -> Cell] \/ DOMAIN trimmed = Node
      BY <1>2
    <3> HIDE DEF trimmed, outer
    <3>2. heap' = [trimmed EXCEPT ![outer] = a.cell] /\ o # outer
      BY <1>1, <2>1, <2>3, <2>5
    <3> QED
      BY <1>1, <2>4, <3>1, <3>2
  <2>6. CASE ~a.ok
    <3>1. h \in [Node -> Cell] /\ \A n \in Node : Children(h[n]) \subseteq Children(heap[n])
      BY <1>2, FreshCells DEF CellSound
    <3> HIDE DEF h, open
    <3>2. Below(h, open) \subseteq Below(heap, Opened)
      BY <1>2, <3>1, BelowFewer DEF open
    <3> QED
      BY <1>1, <2>3, <2>4, <2>6, <3>2 DEF Abandon, Freed
  <2> QED
    BY <2>5, <2>6
<1>6. CASE ParseEnd
  <2>1. parsing # <<>>
    <3>1. Len(<<>>) = 0
      OBVIOUS
    <3> QED
      BY <1>6, <3>1 DEF ParseEnd
  <2>2. Top \in Opened
    BY <2>1, Innermost
  <2> QED
    BY <1>1, <1>2, <1>6, <2>2 DEF ParseEnd
<1>7. CASE ParseFail
  BY <1>1, <1>7 DEF ParseFail, Abandon, Freed
<1> QED
  BY <1>3, <1>4, <1>5, <1>6, <1>7 DEF Parse
-----------------------------------------------------------------------------
(* A call that fails. *)

LEMMA SamePlaces ==
  ASSUME NEW cell \in Cell
  PROVE  KeepsPlaces(cell, cell)
BY CellFields DEF KeepsPlaces

LEMMA AddsKeep ==
  ASSUME NEW h, NEW roots, HeapSound(h, roots), NEW o \in Node, h[o].type = "object",
         NEW name \in Name, NEW v \in Node, v \notin Children(h[o]),
         NEW a \in Adds(h[o], name, v)
  PROVE  \A n \in Node : KeepsPlaces(h[n], [h EXCEPT ![o] = a.cell][n])
<1>1. h \in [Node -> Cell] /\ CellSound(h[o])
  BY DEF HeapSound
<1>2. KeepsPlaces(h[o], a.cell)
  BY <1>1, AddsCell
<1>3. \A n \in Node : KeepsPlaces(h[n], h[n])
  BY <1>1, SamePlaces
<1> QED
  BY <1>1, <1>2, <1>3

LEMMA SetsFailKeep ==
  ASSUME NEW h, NEW roots, HeapSound(h, roots), NEW o \in Node, h[o].type = "object",
         NEW name \in Name, NEW v \in Node, v \notin Children(h[o]),
         NEW s \in Sets(h, o, name, v), ~s.ok
  PROVE  \A n \in Node : KeepsPlaces(h[n], s.heap[n])
<1>1. ~Has(h[o], name)
  BY DEF Sets
<1>2. PICK a \in Adds(h[o], name, v) : s = [heap |-> [h EXCEPT ![o] = a.cell], ok |-> a.ok]
  BY <1>1 DEF Sets
<1>3. s.heap = [h EXCEPT ![o] = a.cell]
  BY <1>2
<1> QED
  BY <1>3, AddsKeep

\* The objects of the caller after a call that has failed.
AllKept == \A o \in OwnObjects : KeepsPlaces(heap[o], heap'[o])

\* Nothing is free that a heap's cells or the caller refer to.
LEMMA FreeIsApart ==
  ASSUME JInv, parsing = <<>>, NEW n \in Free, NEW o \in OwnObjects
  PROVE  n \in Node /\ ~Live(heap, n) /\ n # o /\ n \notin Children(heap[o]) /\ n \notin held
BY CallStarts DEF HeapSound, Live

LEMMA SetValueKeeps ==
  ASSUME JInv, parsing = <<>>, SetValue, status' = "failed"
  PROVE  AllKept
<1> PICK o \in OwnObjects, name \in Name, v \in Given : \E s \in Sets(heap, o, name, v) : Outcome(s)
  BY DEF SetValue
<1> PICK s \in Sets(heap, o, name, v) : Outcome(s)
  OBVIOUS
<1>1. ~s.ok /\ heap' = s.heap
  BY DEF Outcome
<1>2. /\ HeapSound(heap, held) /\ o \in Node /\ heap[o].type = "object"
      /\ v \in Node /\ v \notin Children(heap[o])
  BY CallStarts DEF Given, HeapSound
<1>3. \A n \in Node : KeepsPlaces(heap[n], s.heap[n])
  BY <1>1, <1>2, SetsFailKeep
<1> QED
  BY <1>1, <1>3, CallStarts DEF AllKept

LEMMA SetLeafKeeps ==
  ASSUME JInv, parsing = <<>>, SetLeaf, status' = "failed"
  PROVE  AllKept
<1>1. CASE Fails
  BY <1>1, CallStarts, SamePlaces DEF Fails, AllKept
<1>2. ASSUME NEW o \in OwnObjects, NEW name \in Name, NEW v \in Free,
             NEW s \in Sets([heap EXCEPT ![v] = Leaf], o, name, v), Outcome(s)
      PROVE  AllKept
  <2> DEFINE h == [heap EXCEPT ![v] = Leaf]
  <2>1. ~s.ok /\ heap' = s.heap
    BY <1>2 DEF Outcome
  <2>2. /\ HeapSound(heap, held) /\ heap \in [Node -> Cell] /\ o \in Node
        /\ heap[o].type = "object"
        /\ v \in Node /\ ~Live(heap, v) /\ v # o /\ v \notin Children(heap[o])
    BY CallStarts, FreeIsApart
  <2>3. HeapSound(h, held \cup {v}) /\ h[o] = heap[o]
    BY <2>2, NewNode
  <2>4. \A p \in OwnObjects : p \in Node /\ h[p] = heap[p]
    BY <2>2, CallStarts, FreeIsApart
  <2> HIDE DEF h
  <2>5. s \in Sets(h, o, name, v)
    BY DEF h
  <2>6. \A n \in Node : KeepsPlaces(h[n], s.heap[n])
    BY <2>1, <2>2, <2>3, <2>5, SetsFailKeep
  <2> QED
    BY <2>1, <2>4, <2>6 DEF AllKept
<1> QED
  BY <1>1, <1>2 DEF SetLeaf

\* Whether the inner object was there, could not be made, or was made for
\* nothing.
LEMMA DotSetKeeps ==
  ASSUME JInv, parsing = <<>>, DotSet, status' = "failed"
  PROVE  AllKept
<1> PICK o \in OwnObjects, outer \in Name, name \in Name, v \in Given :
       DotSets(o, outer, name, v)
  BY DotSetIs
<1>1. /\ v \in held /\ v \in Node /\ HeapSound(heap, held) /\ heap \in [Node -> Cell]
      /\ o \in Node /\ heap[o].type = "object"
      /\ \A p \in OwnObjects : p \in Node
  BY CallStarts DEF Given
<1>2. CASE Fails
  BY <1>1, <1>2, SamePlaces DEF Fails, AllKept
<1>3. ASSUME NEW i \in Inner(heap, o, outer), NEW s \in Sets(heap, i, name, v), Outcome(s)
      PROVE  AllKept
  <2>1. ~s.ok /\ heap' = s.heap
    BY <1>3 DEF Outcome
  <2>2. i \in Node /\ heap[i].type = "object"
    BY CallStarts
  <2>3. v \notin Children(heap[i])
    BY <1>1, <2>2 DEF HeapSound
  <2>4. \A n \in Node : KeepsPlaces(heap[n], s.heap[n])
    BY <1>1, <2>1, <2>2, <2>3, SetsFailKeep
  <2> QED
    BY <1>1, <2>1, <2>4 DEF AllKept
<1>4. ASSUME NEW i \in Free, NEW a \in Adds(heap[o], outer, i)
      PROVE  \A n \in Node : KeepsPlaces(heap[n], [heap EXCEPT ![o] = a.cell][n])
  BY <1>1, FreeIsApart, AddsKeep
<1>5. ASSUME NEW i \in Free, NEW a \in Adds(heap[o], outer, i),
             heap' = [heap EXCEPT ![o] = a.cell]
      PROVE  AllKept
  BY <1>1, <1>4, <1>5 DEF AllKept
<1>6. ASSUME NEW i \in Free, NEW a \in Adds(heap[o], outer, i), a.ok,
             NEW s \in Sets([heap EXCEPT ![o] = a.cell, ![i] = EmptyObject], i, name, v),
             Outcome(s)
      PROVE  AllKept
  <2> DEFINE joined == [heap EXCEPT ![o] = a.cell, ![i] = EmptyObject]
  <2>1. ~s.ok /\ heap' = s.heap
    BY <1>6 DEF Outcome
  <2>2. \A p \in OwnObjects : p # i
    BY FreeIsApart
  <2>3. i \in Node /\ joined[i] = EmptyObject
    BY <1>1, FreeIsApart
  <2>4. \A p \in OwnObjects : joined[p] = [heap EXCEPT ![o] = a.cell][p]
    BY <1>1, <2>2, <2>3
  <2> HIDE DEF joined
  <2>5. s \in Sets(joined, i, name, v)
    BY DEF joined
  <2>6. ~Has(joined[i], name)
    <3>1. Len(<<>>) = 0
      OBVIOUS
    <3> QED
      BY <2>3, <3>1 DEF EmptyObject, Has, Positions, Count
  <2>7. \E b : s.heap = [joined EXCEPT ![i] = b.cell]
    <3>1. PICK b \in Adds(joined[i], name, v) :
            s = [heap |-> [joined EXCEPT ![i] = b.cell], ok |-> b.ok]
      BY <2>5, <2>6 DEF Sets
    <3> QED
      BY <3>1
  <2>8. \A p \in OwnObjects : s.heap[p] = joined[p]
    <3>1. DOMAIN joined = Node
      BY <1>1 DEF joined
    <3> QED
      BY <1>1, <2>2, <2>7, <3>1
  <2> QED
    BY <1>1, <1>4, <2>1, <2>4, <2>8 DEF AllKept
<1> QED
  BY <1>2, <1>3, <1>5, <1>6 DEF DotSets

LEMMA NextKeeps ==
  ASSUME JInv, Next, status' = "failed"
  PROVE  AllKept
<1>1. CASE Parse
  <2>1. \A o \in OwnObjects : o \in Node /\ heap'[o] = heap[o]
    BY <1>1, ParseLeavesOwned, OwnedApart DEF OwnObjects
  <2>2. heap \in [Node -> Cell]
    BY ParsingStarts
  <2> QED
    BY <2>1, <2>2, SamePlaces DEF AllKept
<1>2. CASE Call
  <2>1. CASE NewValue \/ FreeValue \/ Clear
    BY <2>1 DEF NewValue, FreeValue, Clear, Outcome
  <2>2. CASE Remove \/ DotRemove
    <3>1. Fails
      BY <2>2 DEF Remove, DotRemove, Outcome
    <3> QED
      BY <1>2, <3>1, CallStarts, SamePlaces DEF Call, Fails, AllKept
  <2> QED
    BY <1>2, <2>1, <2>2, SetValueKeeps, SetLeafKeeps, DotSetKeeps DEF Call
<1> QED
  BY <1>1, <1>2 DEF Next

\* A call that fails, of whatever it has done by then, leaves every member of
\* every object of the caller as it was, even in its place.
THEOREM FailuresKeep == Spec => FailureKeeps
<1> DEFINE Kept ==
      \A o \in OwnObjects : \A i \in 1 .. Count(heap[o]) :
        \E j \in 1 .. Count(heap[o])' : heap'[o].members[j] = heap[o].members[i]
<1>1. JInv /\ [Next]_vars => [status' = "failed" => Kept]_vars
  <2> SUFFICES ASSUME JInv, Next, status' = "failed" PROVE Kept
    OBVIOUS
  <2>1. AllKept
    BY NextKeeps
  <2> SUFFICES ASSUME NEW o \in OwnObjects, NEW i \in 1 .. Count(heap[o])
               PROVE  \E j \in 1 .. Count(heap[o])' :
                        heap'[o].members[j] = heap[o].members[i]
    OBVIOUS
  <2>2. KeepsPlaces(heap[o], heap'[o])
    BY <2>1 DEF AllKept
  <2>3. o \in Node /\ heap[o] \in Cell /\ heap'[o] \in Cell
    <3>1. JInv'
      BY NextJInv
    <3>2. heap' \in [Node -> Cell]
      BY <3>1 DEF JInv, HeapSound
    <3> QED
      BY <3>2, OwnedApart, ParsingStarts DEF OwnObjects
  <2>4. Count(heap[o]) \in Nat /\ Count(heap'[o]) \in Nat
    BY <2>3, CellFields
  <2>5. i \in 1 .. Count(heap'[o]) /\ heap'[o].members[i] = heap[o].members[i]
    BY <2>2, <2>4 DEF KeepsPlaces
  <2>6. Count(heap[o])' = Count(heap'[o])
    BY DEF Count
  <2> QED
    BY <2>5, <2>6
<1> QED
  BY <1>1, JInvariance, PTL DEF Spec, FailureKeeps
-----------------------------------------------------------------------------
(* The object the caller starts with, as a map. *)

\* The caller never frees it and never gives it away.
RootHeld == Root \in held

LEMMA InitRootHeld == Init => RootHeld
BY DEF Init, RootHeld

LEMMA NextRootHeld == RootHeld /\ [Next]_vars => RootHeld'
<1> SUFFICES ASSUME [Next]_vars
             PROVE  held \subseteq held' \/ \E v \in Given : held' = held \ {v}
  BY DEF RootHeld, Given
<1>1. CASE NewValue \/ SetLeaf \/ Remove \/ DotRemove \/ Clear
  BY <1>1 DEF NewValue, SetLeaf, Remove, DotRemove, Clear, Fails
<1>2. CASE FreeValue
  BY <1>2 DEF FreeValue
<1>3. CASE SetValue
  BY <1>3 DEF SetValue
<1>4. CASE DotSet
  <2>1. PICK o \in OwnObjects, outer \in Name, name \in Name, v \in Given :
          DotSets(o, outer, name, v)
    BY <1>4, DotSetIs
  <2> QED
    BY <2>1 DEF DotSets, Fails
<1>5. CASE Parse
  BY <1>5 DEF Parse, ParseObject, ParseLeaf, ParseClose, ParseEnd, ParseFail, Abandon
<1>6. CASE UNCHANGED vars
  BY <1>6 DEF vars
<1> QED
  BY <1>1, <1>2, <1>3, <1>4, <1>5, <1>6 DEF Next, Call

CellMap(cell) == [name \in {n \in Name : Has(cell, n)} |-> Get(cell, name)]

\* What a lookup finds in a sound object is what it binds.
LEMMA CellMapBinds ==
  ASSUME NEW cell, CellSound(cell)
  PROVE  /\ DOMAIN CellMap(cell) = {n \in Name : \E x : Binds(cell, n, x)}
         /\ \A n, x : Binds(cell, n, x) => /\ n \in Name /\ x \in Node
                                           /\ CellMap(cell)[n] = x
         /\ \A n : Has(cell, n) <=> \E x : Binds(cell, n, x)
<1>1. \A n : Has(cell, n) <=> \E x : Binds(cell, n, x)
  BY DEF Has, Positions, Binds
<1>2. ASSUME NEW n, NEW x, Binds(cell, n, x)
      PROVE  n \in Name /\ x \in Node /\ Get(cell, n) = x
  <2>1. PICK i \in 1 .. Count(cell) : cell.members[i].name = n /\ cell.members[i].value = x
    BY <1>2 DEF Binds
  <2>2. cell \in Cell /\ Has(cell, n)
    BY <1>1, <1>2 DEF CellSound
  <2>3. Position(cell, n) = i
    BY <2>1, <2>2, PositionIs DEF CellSound
  <2> QED
    BY <2>1, <2>2, <2>3, CellFields, PositionIs
<1>3. \A n \in Name : Has(cell, n) => CellMap(cell)[n] = Get(cell, n)
  BY DEF CellMap
<1>4. DOMAIN CellMap(cell) = {n \in Name : Has(cell, n)}
  BY DEF CellMap
<1> QED
  BY <1>1, <1>2, <1>3, <1>4

\* A map is known by what the object binds.
LEMMA CellMapIs ==
  ASSUME NEW cell, CellSound(cell), NEW S \in SUBSET Name, NEW f \in [S -> Node],
         \A n \in Name : (\E x : Binds(cell, n, x)) <=> n \in S,
         \A n \in S : Binds(cell, n, f[n])
  PROVE  CellMap(cell) = f
<1>1. DOMAIN CellMap(cell) = S
  BY CellMapBinds
<1>2. \A n \in S : CellMap(cell)[n] = f[n]
  BY CellMapBinds
<1>3. CellMap(cell) = [n \in DOMAIN CellMap(cell) |-> CellMap(cell)[n]]
  BY DEF CellMap
<1> HIDE DEF CellMap
<1> QED
  BY <1>1, <1>2, <1>3

\* What a call makes of one object: nothing a lookup can see, or a name bound
\* to a value, or a name unbound, or all of them.
BindStep(cell, new) ==
  \/ SameBindings(cell, new)
  \/ \E n \in Name, v \in Node :
       \A m, x : Binds(new, m, x) <=> IF m = n THEN x = v ELSE Binds(cell, m, x)
  \/ \E n \in Name : /\ Has(cell, n)
                     /\ \A m, x : Binds(new, m, x) <=> Binds(cell, m, x) /\ m # n
  \/ \A m, x : ~Binds(new, m, x)

\* Each is a step of the map.
LEMMA BindStepMaps ==
  ASSUME CellSound(heap[Root]), CellSound(heap'[Root]), BindStep(heap[Root], heap'[Root])
  PROVE  [Map!MapNext]_RootMap
<1> DEFINE cell == heap[Root]
           new == heap'[Root]
           old == CellMap(cell)
<1>1. RootMap = old /\ RootMap' = CellMap(new)
  BY DEF RootMap, CellMap, Has, Get, Positions, Position, Count
<1>2. /\ DOMAIN old = {n \in Name : \E x : Binds(cell, n, x)}
      /\ \A n, x : Binds(cell, n, x) => n \in Name /\ x \in Node /\ old[n] = x
      /\ \A n : Has(cell, n) <=> \E x : Binds(cell, n, x)
  BY CellMapBinds
<1>3. old \in [DOMAIN old -> Node]
  <2>1. old = [n \in DOMAIN old |-> old[n]]
    BY DEF CellMap
  <2> HIDE DEF old
  <2> QED
    BY <1>2, <2>1
<1>4. \A n \in DOMAIN old : n \in Name /\ old[n] \in Node /\ Binds(cell, n, old[n])
  BY <1>2
<1>5. CellSound(new)
  OBVIOUS
<1> HIDE DEF cell, new, old
<1>6. CASE SameBindings(cell, new)
  <2>1. CellMap(new) = old
    BY <1>2, <1>3, <1>4, <1>5, <1>6, CellMapIs DEF SameBindings
  <2> QED
    BY <1>1, <2>1
<1>7. ASSUME NEW n \in Name, NEW v \in Node,
             \A m, x : Binds(new, m, x) <=> IF m = n THEN x = v ELSE Binds(cell, m, x)
      PROVE  Map!MapNext
  <2> DEFINE S == {n} \cup DOMAIN old
             f == [m \in S |-> IF m = n THEN v ELSE old[m]]
  <2>1. S \in SUBSET Name /\ f \in [S -> Node]
    BY <1>4
  <2>2. \A m \in Name : (\E x : Binds(new, m, x)) <=> m \in S
    BY <1>2, <1>7
  <2>3. \A m \in S : Binds(new, m, f[m])
    BY <1>4, <1>7
  <2> HIDE DEF S, f
  <2>4. CellMap(new) = f
    BY <1>5, <2>1, <2>2, <2>3, CellMapIs
  <2>5. Map!Put(n, v)
    BY <1>1, <2>4 DEF Map!Put, S, f
  <2> QED
    BY <2>5 DEF Map!MapNext
<1>8. ASSUME NEW n \in Name, Has(cell, n),
             \A m, x : Binds(new, m, x) <=> Binds(cell, m, x) /\ m # n
      PROVE  Map!MapNext
  <2> DEFINE S == DOMAIN old \ {n}
             f == [m \in S |-> old[m]]
  <2>1. S \in SUBSET Name /\ f \in [S -> Node]
    BY <1>4
  <2>2. \A m \in Name : (\E x : Binds(new, m, x)) <=> m \in S
    BY <1>2, <1>8
  <2>3. \A m \in S : Binds(new, m, f[m])
    BY <1>4, <1>8
  <2> HIDE DEF S, f
  <2>4. CellMap(new) = f
    BY <1>5, <2>1, <2>2, <2>3, CellMapIs
  <2>5. n \in DOMAIN old
    BY <1>2, <1>8
  <2>6. Map!Delete(n)
    BY <1>1, <2>4, <2>5 DEF Map!Delete, S, f
  <2> QED
    BY <2>6 DEF Map!MapNext
<1>9. CASE \A m, x : ~Binds(new, m, x)
  <2> DEFINE f == [m \in {} |-> m]
  <2>1. {} \in SUBSET Name /\ f \in [{} -> Node]
    OBVIOUS
  <2>2. /\ \A m \in Name : (\E x : Binds(new, m, x)) <=> m \in {}
        /\ \A m \in {} : Binds(new, m, f[m])
    BY <1>9
  <2> HIDE DEF f
  <2>3. CellMap(new) = f
    BY <1>5, <2>1, <2>2, CellMapIs
  <2>4. Map!Empty
    BY <1>1, <2>3 DEF Map!Empty, f
  <2> QED
    BY <2>4 DEF Map!MapNext
<1>10. BindStep(cell, new)
  BY DEF cell, new
<1> QED
  BY <1>6, <1>7, <1>8, <1>9, <1>10 DEF BindStep

LEMMA InitMap == Init => Map!MapInit
<1> SUFFICES ASSUME Init PROVE RootMap = [n \in {} |-> n]
  BY DEF Map!MapInit
<1>1. heap[Root] = EmptyObject
  BY RootAssumption DEF Init
<1>2. Count(heap[Root]) = 0
  <2>1. Len(<<>>) = 0
    OBVIOUS
  <2> QED
    BY <1>1, <2>1 DEF EmptyObject, Count
<1>3. {n \in Name : Has(heap[Root], n)} = {}
  BY <1>2 DEF Has, Positions
<1> QED
  BY <1>3 DEF RootMap

LEMMA SameBindStep ==
  ASSUME NEW cell
  PROVE  BindStep(cell, cell)
BY DEF BindStep, SameBindings

LEMMA AddsBind ==
  ASSUME NEW cell, CellSound(cell), cell.type = "object", NEW name \in Name,
         NEW v \in Node, v \notin Children(cell), NEW a \in Adds(cell, name, v)
  PROVE  BindStep(cell, a.cell)
<1>1. /\ a.ok \in BOOLEAN
      /\ ~a.ok => SameBindings(cell, a.cell)
      /\ a.ok => /\ ~Has(cell, name)
                 /\ \A n, x : Binds(a.cell, n, x) <=> Binds(cell, n, x) \/ (n = name /\ x = v)
  BY AddsCell
<1>2. CASE a.ok
  <2>1. \A x : ~Binds(cell, name, x)
    BY <1>1, <1>2, CellMapBinds
  <2>2. \A n, x : Binds(a.cell, n, x) <=> IF n = name THEN x = v ELSE Binds(cell, n, x)
    BY <1>1, <1>2, <2>1
  <2> QED
    BY <2>2 DEF BindStep
<1>3. CASE ~a.ok
  BY <1>1, <1>3 DEF BindStep
<1> QED
  BY <1>2, <1>3

\* An object that sheds values of its own leaves the roots, itself perhaps
\* excepted, as they are.
LEMMA ShedsElsewhere ==
  ASSUME NEW h, NEW roots, HeapSound(h, roots), NEW o \in Below(h, roots),
         NEW G, G \subseteq Children(h[o]), NEW cell, NEW r \in roots
  PROVE  [Freed(h, G) EXCEPT ![o] = cell][r] = IF r = o THEN cell ELSE h[r]
<1>1. o \in Node /\ Below(h, G) \cap roots = {}
  BY DetachedApart
<1>2. r \in Node
  BY DEF HeapSound
<1> QED
  BY <1>1, <1>2 DEF Freed

LEMMA OverwrittenIs ==
  ASSUME NEW h, NEW roots, HeapSound(h, roots), NEW o \in Below(h, roots),
         NEW name \in Name, Has(h[o], name), NEW v
  PROVE  Overwritten(h, o, name, v)
           = [Freed(h, {Get(h[o], name)}) EXCEPT ![o] = Rewritten(h[o], name, v)]
<1>1. {Get(h[o], name)} \subseteq Children(h[o])
  BY PositionIs
<1>2. Freed(h, {Get(h[o], name)})[o] = h[o]
  BY <1>1, DetachedApart DEF Freed
<1> QED
  BY <1>2 DEF Overwritten, Rewritten

LEMMA SetsBind ==
  ASSUME NEW h, NEW roots, HeapSound(h, roots), NEW o \in Below(h, roots),
         h[o].type = "object", NEW name \in Name, NEW v \in roots, NEW r \in roots,
         NEW s \in Sets(h, o, name, v)
  PROVE  BindStep(h[r], s.heap[r])
<1>1. /\ h \in [Node -> Cell] /\ o \in Node /\ r \in Node /\ CellSound(h[o])
      /\ v \in Node /\ v \notin Children(h[o])
  BY BelowIs DEF HeapSound
<1>2. CASE Has(h[o], name)
  <2> DEFINE cell == Rewritten(h[o], name, v)
  <2>1. s.heap = [Freed(h, {Get(h[o], name)}) EXCEPT ![o] = cell]
    BY <1>2, OverwrittenIs DEF Sets
  <2>2. {Get(h[o], name)} \subseteq Children(h[o])
    BY <1>2, PositionIs
  <2>3. \A m, x : Binds(cell, m, x) <=> IF m = name THEN x = v ELSE Binds(h[o], m, x)
    BY <1>1, <1>2, RewrittenCell
  <2> HIDE DEF cell
  <2>4. s.heap[r] = IF r = o THEN cell ELSE h[r]
    BY <2>1, <2>2, ShedsElsewhere
  <2>5. BindStep(h[o], cell)
    BY <1>1, <2>3 DEF BindStep
  <2> QED
    BY <2>4, <2>5, SameBindStep
<1>3. CASE ~Has(h[o], name)
  <2>1. PICK a \in Adds(h[o], name, v) : s = [heap |-> [h EXCEPT ![o] = a.cell], ok |-> a.ok]
    BY <1>3 DEF Sets
  <2>2. s.heap[r] = IF r = o THEN a.cell ELSE h[r]
    BY <1>1, <2>1
  <2>3. BindStep(h[o], a.cell)
    BY <1>1, AddsBind
  <2> QED
    BY <2>2, <2>3, SameBindStep
<1> QED
  BY <1>2, <1>3

LEMMA RemovedBind ==
  ASSUME NEW h, NEW roots, HeapSound(h, roots), NEW o \in Below(h, roots),
         NEW name \in Name, Has(h[o], name), NEW r \in roots
  PROVE  BindStep(h[r], Removed(h, o, name)[r])
<1> DEFINE cell == Without(h[o], name)
<1>1. CellSound(h[o])
  BY BelowIs DEF HeapSound
<1>2. \A m, x : Binds(cell, m, x) <=> Binds(h[o], m, x) /\ m # name
  BY <1>1, WithoutCell
<1>3. {Get(h[o], name)} \subseteq Children(h[o])
  BY PositionIs
<1> HIDE DEF cell
<1>4. Removed(h, o, name)[r] = IF r = o THEN cell ELSE h[r]
  BY <1>3, ShedsElsewhere DEF Removed, cell
<1>5. BindStep(h[o], cell)
  BY <1>2 DEF BindStep
<1> QED
  BY <1>4, <1>5, SameBindStep

LEMMA ClearedBind ==
  ASSUME NEW h, NEW roots, HeapSound(h, roots), NEW o \in Below(h, roots), NEW r \in roots
  PROVE  BindStep(h[r], Cleared(h, o)[r])
<1> DEFINE cell == [h[o] EXCEPT !.members = <<>>]
<1>1. CellSound(h[o])
  BY BelowIs DEF HeapSound
<1>2. \A m, x : ~Binds(cell, m, x)
  BY <1>1, ClearedCell
<1> HIDE DEF cell
<1>3. Cleared(h, o)[r] = IF r = o THEN cell ELSE h[r]
  <2>1. Cleared(h, o) = [Freed(h, Children(h[o])) EXCEPT ![o] = cell]
    BY DEF Cleared, cell
  <2> QED
    BY <2>1, ShedsElsewhere
<1>4. BindStep(h[o], cell)
  BY <1>2 DEF BindStep
<1> QED
  BY <1>3, <1>4, SameBindStep

\* What a step does to the object the caller starts with.
RootStep == BindStep(heap[Root], heap'[Root])

LEMMA RootIs ==
  ASSUME JInv, RootHeld
  PROVE  /\ Root \in Node /\ Live(heap, Root) /\ heap \in [Node -> Cell]
         /\ Root \in Owned
<1>1. HeapSound(heap, held \cup Opened)
  BY ParsingStarts
<1>2. held \subseteq Below(heap, held)
  BY <1>1, ParsingStarts, BelowIs
<1> QED
  BY <1>1, <1>2 DEF RootHeld, HeapSound, Owned

LEMMA FailsRoot ==
  ASSUME Fails
  PROVE  RootStep
BY SameBindStep DEF Fails, RootStep

LEMMA FreeValueRoot ==
  ASSUME JInv, RootHeld, parsing = <<>>, FreeValue
  PROVE  RootStep
<1>1. PICK v \in Given : heap' = Freed(heap, {v})
  BY DEF FreeValue
<1>2. HeapSound(heap, held) /\ {v} \subseteq held /\ Root \in Node /\ v # Root
  BY CallStarts, RootIs DEF Given
<1>3. Below(heap, {v}) \cap held = {v}
  BY <1>2, FreedApart
<1>4. heap'[Root] = heap[Root]
  BY <1>1, <1>2, <1>3 DEF Freed, RootHeld
<1> QED
  BY <1>4, SameBindStep DEF RootStep

LEMMA SetValueRoot ==
  ASSUME JInv, RootHeld, parsing = <<>>, SetValue
  PROVE  RootStep
<1>1. PICK o \in OwnObjects, name \in Name, v \in Given :
        \E s \in Sets(heap, o, name, v) : Outcome(s)
  BY DEF SetValue
<1>2. PICK s \in Sets(heap, o, name, v) : Outcome(s)
  BY <1>1
<1>3. v \in held
  BY DEF Given
<1>4. BindStep(heap[Root], s.heap[Root])
  BY <1>3, CallStarts, SetsBind DEF RootHeld
<1> QED
  BY <1>2, <1>4 DEF Outcome, RootStep

LEMMA SetLeafRoot ==
  ASSUME JInv, RootHeld, parsing = <<>>, SetLeaf
  PROVE  RootStep
<1>1. ASSUME NEW o \in OwnObjects, NEW name \in Name, NEW v \in Free,
             NEW s \in Sets([heap EXCEPT ![v] = Leaf], o, name, v), Outcome(s)
      PROVE  RootStep
  <2> DEFINE h == [heap EXCEPT ![v] = Leaf]
             roots == held \cup {v}
  <2>1. /\ HeapSound(heap, held) /\ heap \in [Node -> Cell] /\ v \in Node
        /\ ~Live(heap, v) /\ o \in Below(heap, held) /\ o \in Node
        /\ heap[o].type = "object" /\ o # v /\ v # Root
    BY CallStarts, RootIs DEF Live
  <2>2. HeapSound(h, roots) /\ o \in Below(h, roots)
    BY <2>1, NewNode
  <2>3. h[o].type = "object" /\ h[Root] = heap[Root]
    BY <2>1, RootIs
  <2>4. Root \in roots /\ v \in roots
    BY DEF RootHeld
  <2> HIDE DEF h, roots
  <2>5. s \in Sets(h, o, name, v)
    BY DEF h
  <2>6. BindStep(h[Root], s.heap[Root])
    BY <2>2, <2>3, <2>4, <2>5, SetsBind
  <2> QED
    BY <1>1, <2>3, <2>6 DEF Outcome, RootStep
<1> QED
  BY <1>1, FailsRoot DEF SetLeaf

LEMMA DotSetRoot ==
  ASSUME JInv, RootHeld, parsing = <<>>, DotSet
  PROVE  RootStep
<1> PICK o \in OwnObjects, outer \in Name, name \in Name, v \in Given :
       DotSets(o, outer, name, v)
  BY DotSetIs
<1>1. /\ v \in held /\ HeapSound(heap, held) /\ heap \in [Node -> Cell]
      /\ o \in Node /\ heap[o].type = "object" /\ Root \in Node
  BY CallStarts, RootIs DEF Given
<1>2. ASSUME NEW i \in Inner(heap, o, outer), NEW s \in Sets(heap, i, name, v), Outcome(s)
      PROVE  RootStep
  <2>1. i \in Below(heap, held) /\ heap[i].type = "object"
    BY CallStarts
  <2>2. BindStep(heap[Root], s.heap[Root])
    BY <1>1, <2>1, SetsBind DEF RootHeld
  <2> QED
    BY <1>2, <2>2 DEF Outcome, RootStep
<1>3. ASSUME NEW i \in Free, NEW a \in Adds(heap[o], outer, i)
      PROVE  BindStep(heap[Root], [heap EXCEPT ![o] = a.cell][Root])
  <2>1. i \in Node /\ i \notin Children(heap[o]) /\ CellSound(heap[o])
    BY <1>1, FreeIsApart DEF HeapSound
  <2>2. BindStep(heap[o], a.cell)
    BY <1>1, <2>1, AddsBind
  <2> QED
    BY <1>1, <2>2, SameBindStep
<1>4. ASSUME NEW i \in Free, NEW a \in Adds(heap[o], outer, i),
             heap' = [heap EXCEPT ![o] = a.cell]
      PROVE  RootStep
  BY <1>3, <1>4 DEF RootStep
<1>5. ASSUME NEW i \in Free, NEW a \in Adds(heap[o], outer, i), a.ok,
             NEW s \in Sets([heap EXCEPT ![o] = a.cell, ![i] = EmptyObject], i, name, v),
             Outcome(s)
      PROVE  RootStep
  <2> DEFINE joined == [heap EXCEPT ![o] = a.cell, ![i] = EmptyObject]
  <2>1. i \in Node /\ i # Root
    BY <1>1, FreeIsApart, RootIs DEF Live, Free
  <2>2. joined[i] = EmptyObject /\ joined[Root] = [heap EXCEPT ![o] = a.cell][Root]
        /\ DOMAIN joined = Node
    BY <1>1, <2>1
  <2> HIDE DEF joined
  <2>3. s \in Sets(joined, i, name, v)
    BY DEF joined
  <2>4. ~Has(joined[i], name)
    <3>1. Len(<<>>) = 0
      OBVIOUS
    <3> QED
      BY <2>2, <3>1 DEF EmptyObject, Has, Positions, Count
  <2>5. PICK b \in Adds(joined[i], name, v) :
          s = [heap |-> [joined EXCEPT ![i] = b.cell], ok |-> b.ok]
    BY <2>3, <2>4 DEF Sets
  <2>6. heap'[Root] = joined[Root]
    BY <1>1, <1>5, <2>1, <2>2, <2>5 DEF Outcome
  <2> QED
    BY <1>3, <2>2, <2>6 DEF RootStep
<1> QED
  BY <1>2, <1>4, <1>5, FailsRoot DEF DotSets

LEMMA RemovalsRoot ==
  ASSUME JInv, RootHeld, parsing = <<>>, Remove \/ DotRemove \/ Clear
  PROVE  RootStep
<1>1. HeapSound(heap, held) /\ Root \in held
  BY CallStarts DEF RootHeld
<1>2. ASSUME NEW o \in Below(heap, held), NEW name \in Name, Has(heap[o], name),
             Outcome([heap |-> Removed(heap, o, name), ok |-> TRUE])
      PROVE  RootStep
  BY <1>1, <1>2, RemovedBind DEF Outcome, RootStep
<1>3. CASE Remove
  BY <1>2, <1>3, CallStarts, FailsRoot DEF Remove
<1>4. CASE DotRemove
  BY <1>2, <1>4, CallStarts, FailsRoot DEF DotRemove
<1>5. CASE Clear
  <2>1. PICK o \in OwnObjects : Outcome([heap |-> Cleared(heap, o), ok |-> TRUE])
    BY <1>5 DEF Clear
  <2>2. BindStep(heap[Root], Cleared(heap, o)[Root])
    BY <1>1, CallStarts, ClearedBind
  <2> QED
    BY <2>1, <2>2 DEF Outcome, RootStep
<1> QED
  BY <1>3, <1>4, <1>5

LEMMA NextRoot ==
  ASSUME JInv, RootHeld, [Next]_vars
  PROVE  RootStep
<1>1. CASE Parse
  <2>1. heap'[Root] = heap[Root]
    BY <1>1, ParseLeavesOwned, RootIs
  <2> QED
    BY <2>1, SameBindStep DEF RootStep
<1>2. CASE Call
  <2>1. CASE NewValue
    <3>1. PICK n \in Free, cell \in {Leaf, EmptyObject} : heap' = [heap EXCEPT ![n] = cell]
      BY <2>1 DEF NewValue
    <3>2. n # Root
      BY RootIs DEF Free, Live
    <3>3. heap'[Root] = heap[Root]
      BY <3>1, <3>2, RootIs
    <3> QED
      BY <3>3, SameBindStep DEF RootStep
  <2> QED
    BY <1>2, <2>1, FreeValueRoot, SetValueRoot, SetLeafRoot, DotSetRoot, RemovalsRoot
       DEF Call
<1>3. CASE UNCHANGED vars
  BY <1>3, SameBindStep DEF vars, RootStep
<1> QED
  BY <1>1, <1>2, <1>3 DEF Next

LEMMA NextMap == JInv /\ JInv' /\ RootHeld /\ [Next]_vars => [Map!MapNext]_RootMap
<1> SUFFICES ASSUME JInv, JInv', RootHeld, [Next]_vars PROVE [Map!MapNext]_RootMap
  OBVIOUS
<1>1. RootStep
  BY NextRoot
<1>2. CellSound(heap[Root]) /\ CellSound(heap'[Root])
  BY RootAssumption DEF JInv, HeapSound
<1> QED
  BY <1>1, <1>2, BindStepMaps DEF RootStep

\* Whatever is set, removed, cleared or parsed, in whatever order its members
\* are and whichever allocations fail, an object is a map from names to values.
THEOREM MapImplemented == Spec => ImplementsMap
<1>1. Init => Map!MapInit /\ RootHeld
  BY InitMap, InitRootHeld
<1>2. RootHeld /\ [Next]_vars => RootHeld'
  BY NextRootHeld
<1>3. JInv /\ JInv' /\ RootHeld /\ [Next]_vars => [Map!MapNext]_RootMap
  BY NextMap
<1> QED
  BY <1>1, <1>2, <1>3, JInvariance, PTL DEF Spec, ImplementsMap, Map!MapSpec
=============================================================================
