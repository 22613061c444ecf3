----------------------------- MODULE JsonObject -----------------------------
(***************************************************************************)
(* The hash table of a JSON object (libs/parson.c:440-698, 2084-2125,      *)
(* 2291-2308): items in an array, and cells that hold their positions,     *)
(* found by linear probing and closed up when an item is removed.          *)
(*                                                                         *)
(* Items are counted from 1 and cells from 0. A malloc that fails leaves   *)
(* the object as it is: no step.                                           *)
(***************************************************************************)
EXTENDS Integers, FiniteSetsExt, SequencesExt

CONSTANTS
    Name,               \* keys
    Value,              \* JSON values
    HashOf,             \* hash_string of each key
    STARTING_CAPACITY,  \* a power of two (16)
    MaxCapacity         \* bound: cells of an object

ASSUME ObjectAssumption ==
    /\ HashOf \in [Name -> Nat]
    /\ STARTING_CAPACITY \in Nat \ {0, 1}
    /\ MaxCapacity \in Nat

VARIABLE object

OBJECT_INVALID_IX == -1

json_object_init(capacity) ==
    [capacity |-> capacity,
     cells    |-> [c \in 0..(capacity - 1) |-> OBJECT_INVALID_IX],
     items    |-> <<>>]

item_capacity(o) == (o.capacity * 7) \div 10

-----------------------------------------------------------------------------
(* Looking a name up *)

Free(o, c) == o.cells[c] = OBJECT_INVALID_IX
Holds(o, c, n) ==
    /\ ~Free(o, c)
    /\ o.items[o.cells[c]].hash = HashOf[n]
    /\ o.items[o.cells[c]].name = n

\* hash & (capacity - 1), and the cells after it.
Probe(o, n, k) == (HashOf[n] + k) % o.capacity

Stops(o, n, k) == LET c == Probe(o, n, k) IN Free(o, c) \/ Holds(o, c, n)

\* The first cell that is free or holds the name.
json_object_get_cell_ix(o, n) ==
    IF \E k \in 0..(o.capacity - 1) : Stops(o, n, k)
      THEN Probe(o, n, CHOOSE k \in 0..(o.capacity - 1) :
                           Stops(o, n, k) /\ \A j \in 0..(k - 1) : ~Stops(o, n, j))
      ELSE OBJECT_INVALID_IX

Found(o, n) == LET c == json_object_get_cell_ix(o, n)
               IN  c # OBJECT_INVALID_IX /\ Holds(o, c, n)

json_object_getn_value(o, n) ==
    o.items[o.cells[json_object_get_cell_ix(o, n)]].value

-----------------------------------------------------------------------------
(* Adding and replacing *)

Insert(o, n, v) ==
    LET c == json_object_get_cell_ix(o, n)
    IN  [o EXCEPT !.cells[c] = Len(o.items) + 1,
                  !.items = Append(@, [name |-> n, value |-> v,
                                       cell_ix |-> c, hash |-> HashOf[n]])]

json_object_grow_and_rehash(o) ==
    LET rehashed[i \in 0..Len(o.items)] ==
          IF i = 0
            THEN json_object_init(Max({o.capacity * 2, STARTING_CAPACITY}))
            ELSE Insert(rehashed[i - 1], o.items[i].name, o.items[i].value)
    IN  rehashed[Len(o.items)]

WithRoom(o) == IF Len(o.items) < item_capacity(o)
                 THEN o ELSE json_object_grow_and_rehash(o)

\* json_object_add, and json_object_set_value of a new name.
Added(o, n, v) == Insert(WithRoom(o), n, v)

json_object_add(n, v) ==
    /\ ~Found(object, n)
    /\ WithRoom(object).capacity <= MaxCapacity
    /\ object' = Added(object, n, v)

\* Faulty: the first cell looked at is taken, whichever name is in it.
Replaced_first(o, n, v) == [o EXCEPT !.items[o.cells[Probe(o, n, 0)]].value = v]

\* json_object_set_value of a name that is there.
Replaced(o, n, v) == [o EXCEPT !.items[o.cells[json_object_get_cell_ix(o, n)]].value = v]

json_object_set_value(n, v) ==
    /\ Found(object, n)
    /\ object' = Replaced(object, n, v)

-----------------------------------------------------------------------------
(* Removing *)

\* The last item takes the place of the one removed.
MoveLast(o, ix) ==
    IF ix = Len(o.items)
      THEN [o EXCEPT !.items = Front(@)]
      ELSE [o EXCEPT !.items = Front([@ EXCEPT ![ix] = Last(o.items)]),
                     !.cells[Last(o.items).cell_ix] = ix]

\* Faulty: cells that go round the end of the table are forgotten.
MayMove_straight(i, j, k) == j > i /\ (k <= i \/ k > j)

\* An item in cell j whose hash says k would be found in cell i.
MayMove(i, j, k) == \/ j > i /\ (k <= i \/ k > j)
                    \/ j < i /\ k <= i /\ k > j

\* One turn of the loop: gap.i is the free cell, j the one looked at.
CloseUp(gap, j) ==
    LET o == gap.object
        k == o.items[o.cells[j]].hash % o.capacity
    IN  IF gap.closed \/ Free(o, j) THEN [gap EXCEPT !.closed = TRUE]
        ELSE IF MayMove(gap.i, j, k)
          THEN [gap EXCEPT !.i = j,
                           !.object.items[o.cells[j]].cell_ix = gap.i,
                           !.object.cells[gap.i] = o.cells[j]]
          ELSE gap

Removed(o, n) ==
    LET cell == json_object_get_cell_ix(o, n)
        gap[x \in 0..(o.capacity - 1)] ==
          IF x = 0
            THEN [object |-> MoveLast(o, o.cells[cell]), i |-> cell, closed |-> FALSE]
            ELSE CloseUp(gap[x - 1], (cell + x) % o.capacity)
        last == gap[o.capacity - 1]
    IN  [last.object EXCEPT !.cells[last.i] = OBJECT_INVALID_IX]

json_object_remove(n) ==
    /\ Found(object, n)
    /\ object' = Removed(object, n)

Cleared(o) == [o EXCEPT !.items = <<>>,
                        !.cells = [c \in DOMAIN @ |-> OBJECT_INVALID_IX]]

json_object_clear == object' = Cleared(object)

-----------------------------------------------------------------------------
(* Specification *)

Init == object = json_object_init(0)

Next == \/ \E n \in Name, v \in Value : \/ json_object_add(n, v)
                                         \/ json_object_set_value(n, v)
        \/ \E n \in Name : json_object_remove(n)
        \/ json_object_clear

Spec == Init /\ [][Next]_object

-----------------------------------------------------------------------------
(* Properties *)

\* What the table says, seen through its own lookups.
map == [n \in {m \in Name : Found(object, m)} |-> json_object_getn_value(object, n)]

\* The table implements a map: no name is lost when another one is added or
\* removed (parson.c:679-696) or the table grows.
Map == INSTANCE PartialMap

MapSpec == Map!Spec
=============================================================================
