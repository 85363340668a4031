------------------------------ MODULE JsonTree ------------------------------
(***************************************************************************)
(* The objects of the JSON library (parson.c) as a heap of nodes: who owns *)
(* a value, what a failed call leaves behind, and how the parser builds an *)
(* object from the inside out.  Strings, numbers and booleans are leaves;  *)
(* arrays are left out, and the texts are in JsonText.  One caller, one    *)
(* call at a time.  An allocation may fail wherever the code makes one.    *)
(***************************************************************************)
EXTENDS JsonLimits, Sequences

CONSTANTS Name, Node,
          Root                  \* the object the caller starts with

ASSUME RootAssumption == Root \in Node

VARIABLES heap,     \* node -> its type, members in order, capacity
          held,     \* values the caller has to free or hand over
          parsing,  \* the objects json_parse_string has open, outermost first
          status    \* of the last call

vars == <<heap, held, parsing, status>>

Member == [name : Name, value : Node]
Cell == [type : {"unused", "leaf", "object"},
         members : Seq(Member),
         capacity : 0 .. OBJECT_MAX_CAPACITY]

Unused == [type |-> "unused", members |-> <<>>, capacity |-> 0]
Leaf == [type |-> "leaf", members |-> <<>>, capacity |-> 0]
EmptyObject == [type |-> "object", members |-> <<>>, capacity |-> 0]

Free == {n \in Node : heap[n].type = "unused"}

----------------------------------------------------------------------------
(* Trees.                                                                  *)

Count(cell) == Len(cell.members)

\* Mutant of Positions: names of one length are taken to be equal.
PositionsAny(cell, name) == 1 .. Count(cell)

Positions(cell, name) == {i \in 1 .. Count(cell) : cell.members[i].name = name}
Has(cell, name) == Positions(cell, name) # {}
Position(cell, name) == CHOOSE i \in Positions(cell, name) : TRUE
Get(cell, name) == cell.members[Position(cell, name)].value
Children(cell) == {cell.members[i].value : i \in 1 .. Count(cell)}

\* The nodes json_value_free reaches from any of roots.
Below(h, roots) ==
  LET closed == {S \in SUBSET Node :
                   roots \subseteq S /\ \A n \in S : Children(h[n]) \subseteq S}
  IN  {n \in Node : \A S \in closed : n \in S}

Freed(h, roots) ==
  LET gone == Below(h, roots)
  IN  [n \in Node |-> IF n \in gone THEN Unused ELSE h[n]]

----------------------------------------------------------------------------
(* One object.  An outcome says whether the call succeeds and what the     *)
(* object is afterwards.                                                   *)

Larger(cell) ==
  IF 2 * cell.capacity > STARTING_CAPACITY THEN 2 * cell.capacity ELSE STARTING_CAPACITY

\* Mutant of Full: room is asked for one member too late.
FullLate(cell) == Count(cell) > cell.capacity

Full(cell) == Count(cell) >= cell.capacity

\* json_object_resize; it fails like its allocations do.
Resized(cell, capacity) == [cell EXCEPT !.capacity = capacity]

\* The object with room for one more, or as it is.
Roomy(cell) == IF Full(cell) THEN Resized(cell, Larger(cell)) ELSE cell

Appended(cell, name, value) ==
  [cell EXCEPT !.members = Append(@, [name |-> name, value |-> value])]

\* Mutant of Adds: the limit is not looked at.
AddsUnlimited(cell, name, value) ==
  {[cell |-> Roomy(cell), ok |-> FALSE]}
    \cup {o \in {[cell |-> Appended(Roomy(cell), name, value), ok |-> TRUE]} :
            ~Has(cell, name)}

\* Past the limit, and when an allocation fails, the object stays as it is;
\* when the name is taken or cannot be copied it may have grown.
Adds(cell, name, value) ==
  LET fits == Roomy(cell).capacity <= OBJECT_MAX_CAPACITY
  IN  {[cell |-> cell, ok |-> FALSE]}
        \cup {o \in {[cell |-> Roomy(cell), ok |-> FALSE]} : fits}
        \cup {o \in {[cell |-> Appended(Roomy(cell), name, value), ok |-> TRUE]} :
                fits /\ ~Has(cell, name)}

\* Mutant of Without: the last member goes, whichever was freed.
WithoutLast(cell, name) ==
  [cell EXCEPT !.members = SubSeq(@, 1, Count(cell) - 1)]

\* The last member takes the place of the one removed.
Without(cell, name) ==
  LET last  == Count(cell)
      moved == [cell.members EXCEPT ![Position(cell, name)] = cell.members[last]]
  IN  [cell EXCEPT !.members = SubSeq(moved, 1, last - 1)]

----------------------------------------------------------------------------
(* Whole calls, as outcomes on the heap.                                   *)

Overwritten(h, o, name, value) ==
  [Freed(h, {Get(h[o], name)}) EXCEPT
     ![o].members[Position(h[o], name)].value = value]

\* Mutant of Sets: an old member is removed, then the new one added.
SetsAgain(h, o, name, value) ==
  LET old     == IF Has(h[o], name) THEN {Get(h[o], name)} ELSE {}
      cleaned == IF Has(h[o], name) THEN Without(h[o], name) ELSE h[o]
  IN  {[heap |-> [Freed(h, old) EXCEPT ![o] = a.cell], ok |-> a.ok] :
         a \in Adds(cleaned, name, value)}

Sets(h, o, name, value) ==
  IF Has(h[o], name)
  THEN {[heap |-> Overwritten(h, o, name, value), ok |-> TRUE]}
  ELSE {[heap |-> [h EXCEPT ![o] = a.cell], ok |-> a.ok] : a \in Adds(h[o], name, value)}

Removed(h, o, name) ==
  [Freed(h, {Get(h[o], name)}) EXCEPT ![o] = Without(h[o], name)]

Cleared(h, o) ==
  [Freed(h, Children(h[o])) EXCEPT ![o] = [h[o] EXCEPT !.members = <<>>]]

\* The object under a name, or nothing if what is there is no object.
Inner(h, o, name) ==
  {c \in Node : Has(h[o], name) /\ c = Get(h[o], name) /\ h[c].type = "object"}

----------------------------------------------------------------------------
(* The caller.                                                             *)

Owned == Below(heap, held)
OwnObjects == {o \in Owned : heap[o].type = "object"}

\* The caller keeps Root.  A value he gives to an object must not hold it.
Given == held \ {Root}
MayHold(o, v) == o \notin Below(heap, {v})

Init ==
  /\ heap = [n \in Node |-> IF n = Root THEN EmptyObject ELSE Unused]
  /\ held = {Root}
  /\ parsing = <<>>
  /\ status = "ok"

Outcome(o) ==
  /\ heap' = o.heap
  /\ status' = IF o.ok THEN "ok" ELSE "failed"

Fails ==
  /\ status' = "failed"
  /\ UNCHANGED <<heap, held>>

\* json_value_init_object and its like.
NewValue ==
  \E n \in Free, cell \in {Leaf, EmptyObject} :
    /\ heap' = [heap EXCEPT ![n] = cell]
    /\ held' = held \cup {n}
    /\ status' = "ok"

FreeValue ==
  \E v \in Given :
    /\ heap' = Freed(heap, {v})
    /\ held' = held \ {v}
    /\ status' = "ok"

SetValue ==
  \E o \in OwnObjects, name \in Name, v \in Given :
    /\ MayHold(o, v)
    /\ \E s \in Sets(heap, o, name, v) :
         /\ Outcome(s)
         /\ held' = IF s.ok THEN held \ {v} ELSE held

\* json_object_set_string and its like: a value that is not taken is lost.
SetLeaf ==
  \/ \E o \in OwnObjects, name \in Name, v \in Free :
       \E s \in Sets([heap EXCEPT ![v] = Leaf], o, name, v) :
         /\ Outcome(s)
         /\ UNCHANGED held
  \/ Fails

\* json_object_dotset_value with a name of two parts: it is cut in two, and the
\* inner object made if it is not there, which stays if the inner call fails.
DotSet ==
  \E o \in OwnObjects, outer \in Name, name \in Name, v \in Given :
    /\ MayHold(o, v)
    /\ \/ Fails
       \/ \E i \in Inner(heap, o, outer) : \E s \in Sets(heap, i, name, v) :
            /\ Outcome(s)
            /\ held' = IF s.ok THEN held \ {v} ELSE held
       \/ /\ Inner(heap, o, outer) = {}
          /\ \E i \in Free : \E a \in Adds(heap[o], outer, i) :
               IF a.ok
               THEN \E s \in Sets([heap EXCEPT ![o] = a.cell, ![i] = EmptyObject],
                                  i, name, v) :
                      /\ Outcome(s)
                      /\ held' = IF s.ok THEN held \ {v} ELSE held
               ELSE /\ heap' = [heap EXCEPT ![o] = a.cell]
                    /\ status' = "failed"
                    /\ UNCHANGED held

Remove ==
  \E o \in OwnObjects, name \in Name :
    IF Has(heap[o], name)
    THEN /\ Outcome([heap |-> Removed(heap, o, name), ok |-> TRUE])
         /\ UNCHANGED held
    ELSE Fails

\* json_object_dotremove, likewise.
DotRemove ==
  \E o \in OwnObjects, outer \in Name, name \in Name :
    \/ Fails
    \/ \E i \in {c \in Inner(heap, o, outer) : Has(heap[c], name)} :
         /\ Outcome([heap |-> Removed(heap, i, name), ok |-> TRUE])
         /\ UNCHANGED held

Clear ==
  \E o \in OwnObjects :
    /\ Outcome([heap |-> Cleared(heap, o), ok |-> TRUE])
    /\ UNCHANGED held

----------------------------------------------------------------------------
(* json_parse_string.  parse_object_value adds a member once its value is  *)
(* complete, so an open object is in none; the text is any text.           *)

Opened == {parsing[i] : i \in DOMAIN parsing}
Top == parsing[Len(parsing)]
Outer == SubSeq(parsing, 1, Len(parsing) - 1)

\* Every level of the recursion frees its object and returns NULL.
Abandon(h, open) ==
  /\ heap' = Freed(h, open)
  /\ parsing' = <<>>
  /\ status' = "failed"
  /\ UNCHANGED held

ParseObject ==
  \E n \in Free :
    /\ Len(parsing) <= MAX_NESTING
    /\ heap' = [heap EXCEPT ![n] = EmptyObject]
    /\ parsing' = Append(parsing, n)
    /\ UNCHANGED <<held, status>>

ParseLeaf ==
  /\ parsing # <<>>
  /\ \E n \in Free, name \in Name : \E a \in Adds(heap[Top], name, n) :
       IF a.ok
       THEN /\ heap' = [heap EXCEPT ![n] = Leaf, ![Top] = a.cell]
            /\ UNCHANGED <<held, parsing, status>>
       ELSE Abandon(heap, Opened)

\* An object that cannot be added is released without its members.
ParseClose ==
  /\ Len(parsing) > 1
  /\ \E name \in Name :
       LET outer   == Outer[Len(Outer)]
           trimmed == [heap EXCEPT ![Top] = Resized(@, Count(@))]
       IN  \E a \in Adds(heap[outer], name, Top) :
             IF a.ok
             THEN /\ heap' = [trimmed EXCEPT ![outer] = a.cell]
                  /\ parsing' = Outer
                  /\ UNCHANGED <<held, status>>
             ELSE Abandon([heap EXCEPT ![Top] = Unused], Opened \ {Top})

ParseEnd ==
  /\ Len(parsing) = 1
  /\ heap' = [heap EXCEPT ![Top] = Resized(@, Count(@))]
  /\ held' = held \cup {Top}
  /\ parsing' = <<>>
  /\ status' = "ok"

\* A malformed text, one nested too deep, or no memory.
ParseFail ==
  /\ parsing # <<>>
  /\ Abandon(heap, Opened)

Call ==
  /\ parsing = <<>>
  /\ \/ NewValue \/ FreeValue \/ SetValue \/ SetLeaf \/ DotSet
     \/ Remove \/ DotRemove \/ Clear
  /\ UNCHANGED parsing

Parse == ParseObject \/ ParseLeaf \/ ParseClose \/ ParseEnd \/ ParseFail

Next == Call \/ Parse

Spec == Init /\ [][Next]_vars

----------------------------------------------------------------------------
(* Properties.                                                             *)

Roots == held \cup Opened

JsonTypeOK ==
  /\ heap \in [Node -> Cell]
  /\ held \subseteq Node
  /\ parsing \in Seq(Node)
  /\ status \in {"ok", "failed"}

\* An object never holds more members than its arrays have room for
\* (json_object_add writes names[count] and values[count] unchecked), and
\* never two of one name (json_object_get_value would hide the second).
ObjectsSound ==
  \A n \in Node :
    /\ Count(heap[n]) <= heap[n].capacity
    /\ \A i, j \in 1 .. Count(heap[n]) :
         heap[n].members[i].name = heap[n].members[j].name => i = j

\* Freeing a tree frees every value once: what an object, the caller or the
\* parser refers to is allocated, and nothing else refers to it.
OneOwner ==
  /\ \A n \in Roots : heap[n].type # "unused"
  /\ \A n \in Node : \A i \in 1 .. Count(heap[n]) :
       LET v == heap[n].members[i].value
       IN  /\ heap[v].type # "unused"
           /\ v \notin Roots
           /\ \A m \in Node : \A j \in 1 .. Count(heap[m]) :
                heap[m].members[j].value = v => m = n /\ j = i

\* A call that fails takes nothing from the caller: every member of every
\* object of his is still there, with its value.
FailureKeeps ==
  [][status' = "failed" =>
       \A o \in OwnObjects : \A i \in 1 .. Count(heap[o]) :
         \E j \in 1 .. Count(heap[o])' :
           heap'[o].members[j] = heap[o].members[i]]_vars

\* Names to values of the object the caller starts with.
RootMap == [name \in {n \in Name : Has(heap[Root], n)} |-> Get(heap[Root], name)]

Map == INSTANCE JsonMap WITH map <- RootMap, Value <- Node

\* Whatever order the members are in, the object is a map.
ImplementsMap == Map!MapSpec
=============================================================================
