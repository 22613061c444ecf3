---------------------------- MODULE JsonDocument ----------------------------
(***************************************************************************)
(* Building, changing, copying and freeing JSON values                     *)
(* (libs/parson.c:700-713, 1593-1797, 1923-2308), in a memory that may be  *)
(* full at every malloc of a call.                                         *)
(*                                                                         *)
(* A value and what it is made with, such as the characters of a string or *)
(* the table of an object, are one block, and a key is one. Blocks are     *)
(* counted and not told apart (at is 0). A container owns what is in it;   *)
(* the caller owns the values of its variables.                            *)
(***************************************************************************)
EXTENDS JsonValue, TLC

CONSTANTS
    Variable,   \* the caller's
    Data,       \* strings, numbers, booleans and null
    Invalid,    \* those no value is made of: not UTF-8, infinite or NaN
    Path,       \* names that are used, as sequences: "a.b" is <<a, b>>
    MaxItems,   \* bound: items in an array
    MaxBlocks   \* bound: blocks in use

ASSUME DocumentAssumption ==
    /\ Invalid \subseteq Data
    /\ Path \subseteq Seq(Name) \ {<<>>}
    /\ MaxItems \in Nat /\ MaxBlocks \in Nat

VARIABLES
    held,       \* the values of the caller's variables, by name
    marked,     \* variables whose value has a parent all the same
    used,       \* blocks in use
    last        \* the last call: what it did, and where

dvars == <<held, marked, used, last>>

\* How many blocks json_value_free(v) frees: with a member goes its key.
RECURSIVE Size(_)
Size(v) ==
    LET count   == CASE v.kind = "leaf"  -> 0
                     [] v.kind = "array" -> Len(v.items)
                     [] OTHER            -> Len(v.table.items)
        Part(i) == IF v.kind = "array" THEN Size(v.items[i])
                   ELSE 1 + Size(v.table.items[i].value.value)
        freed[i \in 0..count] == IF i = 0 THEN 1 ELSE freed[i - 1] + Part(i)
    IN  freed[count]

-----------------------------------------------------------------------------
(* A call works on a record of the memory and has an outcome. tight: arrays *)
(* have no room for another item (array_resize).                            *)

Full(m)    == m.used = MaxBlocks
Malloc(m)  == [m EXCEPT !.used = @ + 1]
Freed(m, n) == [m EXCEPT !.used = @ - n]

\* parented: the value handed over has a parent now.
Done(v, m) == [ok |-> TRUE, value |-> v, mem |-> m, parented |-> TRUE]
Failed(v, m, parented) == [ok |-> FALSE, value |-> v, mem |-> m, parented |-> parented]
JSONFailure(v, m) == Failed(v, m, FALSE)

\* json_value_init_string_with_len, _number, _boolean, _null, _array, _object
json_value_init(d, m) ==
    IF d \in Invalid \/ Full(m) THEN JSONFailure(NULL, m)
    ELSE Done(CASE d = "[" -> Array(0) [] d = "{" -> Object(0) [] OTHER -> Leaf(0, d),
              Malloc(m))

-----------------------------------------------------------------------------
(* Arrays *)

json_array_add(a, x, m) ==
    IF m.tight /\ Full(m) THEN JSONFailure(a, m)
    ELSE Done([a EXCEPT !.items = Append(@, x)], m)

json_array_replace_value(a, i, x, m) ==
    IF i \notin DOMAIN a.items THEN JSONFailure(a, m)
    ELSE Done([a EXCEPT !.items[i] = x], Freed(m, Size(a.items[i])))

json_array_remove(a, i, m) ==
    IF i \notin DOMAIN a.items THEN JSONFailure(a, m)
    ELSE Done([a EXCEPT !.items = RemoveAt(@, i)], Freed(m, Size(a.items[i])))

-----------------------------------------------------------------------------
(* Objects *)

Member(x) == [key |-> 0, value |-> x]

PutMember(o, n, x) == [o EXCEPT !.table = Replaced(@, n, Member(x))]
NewMember(o, n, x) == [o EXCEPT !.table = Added(@, n, Member(x))]

MustGrow(o) == WithRoom(o.table) # o.table

\* json_object_set_value: a name that is new needs a key.
SetMember(o, n, x, m) ==
    IF Has(o, n) THEN Done(PutMember(o, n, x), Freed(m, Size(Get(o, n))))
    ELSE IF Full(m) THEN JSONFailure(o, m)
    ELSE Done(NewMember(o, n, x), Malloc(m))

\* json_object_dotremove_internal and json_object_remove_internal
RECURSIVE Dotremove(_, _, _, _)
Dotremove(o, path, free_value, m) ==
    LET n   == Head(path)
        Sub == Dotremove(Get(o, n), Tail(path), free_value, m)
    IN  IF ~Has(o, n) THEN JSONFailure(o, m)
        ELSE IF Len(path) = 1
          THEN Done([o EXCEPT !.table = Removed(@, n)],
                    Freed(m, IF free_value THEN 1 + Size(Get(o, n)) ELSE 1))
        ELSE IF Get(o, n).kind # "object" THEN JSONFailure(o, m)
        ELSE [Sub EXCEPT !.value = PutMember(o, n, Sub.value)]

\* Faulty: the value is freed with the object it has been put into.
GiveUp_whole(made, path, m) == Freed(m, Size(made))

\* A new object is given up: the value put into it is taken out before.
GiveUp(made, path, m) ==
    LET emptied == Dotremove(made, path, FALSE, m)
    IN  Freed(emptied.mem, Size(emptied.value))

RECURSIVE json_object_dotset_value(_, _, _, _)
json_object_dotset_value(o, path, x, m) ==
    LET n     == Head(path)
        rest  == Tail(path)
        There == json_object_dotset_value(Get(o, n), rest, x, m)
        New   == json_object_dotset_value(Object(0), rest, x, Malloc(m))
        keyed == Malloc(New.mem)
    IN  IF Len(path) = 1 THEN SetMember(o, n, x, m)
        ELSE IF Has(o, n) THEN
          IF Get(o, n).kind # "object" THEN JSONFailure(o, m)
          ELSE [There EXCEPT !.value = PutMember(o, n, There.value)]
        ELSE IF Full(m) THEN JSONFailure(o, m)
        ELSE IF ~New.ok THEN Failed(o, Freed(New.mem, Size(New.value)), New.parented)
        ELSE IF Full(New.mem) THEN Failed(o, GiveUp(New.value, rest, New.mem), TRUE)
        ELSE IF MustGrow(o) /\ Full(keyed)
          THEN Failed(o, GiveUp(New.value, rest, Freed(keyed, 1)), TRUE)
        ELSE Done(NewMember(o, n, New.value), keyed)

\* The value that is got, or none.
RECURSIVE json_object_dotget_value(_, _)
json_object_dotget_value(o, path) ==
    IF o.kind # "object" \/ ~Has(o, Head(path)) THEN {}
    ELSE IF Len(path) = 1 THEN {Get(o, Head(path))}
    ELSE json_object_dotget_value(Get(o, Head(path)), Tail(path))

-----------------------------------------------------------------------------
(* Copying *)

\* Faulty: the copy of an item that its container does not take is left.
CopyFailed_leak(c, n, m) == JSONFailure(NULL, Freed(m, Size(c)))

\* The copy so far is freed, and n blocks of what was to go into it.
CopyFailed(c, n, m) == JSONFailure(NULL, Freed(m, Size(c) + n))

\* A copy x of an item goes into c, the copy of its array or object so far.
CopyElement(c, x, m) ==
    LET o == json_array_add(c, x, m)
    IN  IF o.ok THEN o ELSE CopyFailed(c, Size(x), m)

CopyMember(c, n, x, m) ==
    LET keyed == Malloc(m)
    IN  IF Full(m) THEN CopyFailed(c, Size(x), m)
        ELSE IF MustGrow(c) /\ Full(keyed) THEN CopyFailed(c, Size(x) + 1, keyed)
        ELSE Done(NewMember(c, n, x), keyed)

RECURSIVE json_value_deep_copy(_, _)
json_value_deep_copy(v, m) ==
    LET count   == CASE v.kind = "leaf"  -> 0
                     [] v.kind = "array" -> Len(v.items)
                     [] OTHER            -> Len(v.table.items)
        Name_(i) == v.table.items[i].name
        Part(i) == IF v.kind = "array" THEN v.items[i] ELSE Get(v, Name_(i))
        Extend(c, i) ==
          LET x == json_value_deep_copy(Part(i), c.mem)
          IN  IF ~c.ok THEN c
              ELSE IF ~x.ok THEN CopyFailed(c.value, 0, x.mem)
              ELSE IF v.kind = "array" THEN CopyElement(c.value, x.value, x.mem)
              ELSE CopyMember(c.value, Name_(i), x.value, x.mem)
        copied[i \in 0..count] ==
          IF i = 0 THEN json_value_init(CASE v.kind = "array"  -> "["
                                          [] v.kind = "object" -> "{"
                                          [] OTHER -> v.token, m)
          ELSE Extend(copied[i - 1], i)
    IN  copied[count]

-----------------------------------------------------------------------------
(* Where things are: the positions of the items on the way to a value *)

Items(v) == CASE v.kind = "leaf"   -> <<>>
              [] v.kind = "array"  -> v.items
              [] v.kind = "object" -> [i \in DOMAIN v.table.items |->
                                          v.table.items[i].value.value]

RECURSIVE Places(_)
Places(v) == {<<>>} \cup UNION {{<<i>> \o p : p \in Places(Items(v)[i])} :
                                    i \in DOMAIN Items(v)}

RECURSIVE At(_, _)
At(v, p) == IF p = <<>> THEN v ELSE At(Items(v)[Head(p)], Tail(p))

\* v with c at p.
RECURSIVE With(_, _, _)
With(v, p, c) ==
    IF p = <<>> THEN c
    ELSE LET inner == With(Items(v)[Head(p)], Tail(p), c)
         IN  IF v.kind = "array" THEN [v EXCEPT !.items[Head(p)] = inner]
             ELSE [v EXCEPT !.table.items[Head(p)].value.value = inner]

-----------------------------------------------------------------------------
(* Calls *)

Memory(tight) == [used |-> used, tight |-> tight]

\* What a call leaves. o.value is its container, and changed says the variables.
Leave(o, variables, call) ==
    /\ held' = variables
    /\ used' = o.mem.used
    /\ last' = ("ok" :> o.ok) @@ call

Changed(h, p, c) == [held EXCEPT ![h] = With(@, p, c)]
Without(h, variables) == Restrict(variables, DOMAIN variables \ {h})

\* Keys of a container: the end of an array (0), an item, which may not be
\* there, or a name or dotted name in an object.
Keys(c) == CASE c.kind = "leaf"   -> {}
             [] c.kind = "array"  -> {k \in 0..(Len(c.items) + 1) :
                                         k = 0 => Len(c.items) < MaxItems}
             [] c.kind = "object" -> Path

\* Whether an array must get more room for what is put behind its end.
Tight(c, k) == IF c.kind = "array" /\ k = 0 THEN BOOLEAN ELSE {FALSE}

Put(c, k, x, m) ==
    IF c.kind = "object" THEN json_object_dotset_value(c, k, x, m)
    ELSE IF k = 0 THEN json_array_add(c, x, m)
    ELSE json_array_replace_value(c, k, x, m)

\* json_value_init_
Create == \E h \in Variable \ DOMAIN held, d \in Data \cup {"[", "{"} :
    LET o == json_value_init(d, Memory(FALSE))
    IN  /\ UNCHANGED marked
        /\ Leave(o, IF o.ok THEN held @@ (h :> o.value) ELSE held, [call |-> "make"])

\* json_array_append_value, json_array_replace_value, json_object_set_value,
\* json_object_dotset_value: the container takes a value, if no other has it.
PutValue == \E h \in DOMAIN held : \E g \in DOMAIN held \ {h}, p \in Places(held[h]) :
    \E k \in Keys(At(held[h], p)) : \E tight \in Tight(At(held[h], p), k) :
    LET c == At(held[h], p)
        o == IF g \in marked THEN JSONFailure(c, Memory(tight))
             ELSE Put(c, k, held[g], Memory(tight))
    IN  /\ Leave(o, IF o.ok THEN Without(g, Changed(h, p, o.value))
                             ELSE Changed(h, p, o.value),
                  [call |-> "put", var |-> h, at |-> p, key |-> k,
                   value |-> held[g], from |-> g])
        /\ marked' = IF o.parented /\ ~o.ok THEN marked \cup {g} ELSE marked

\* The same with _string, _number, _boolean or _null: a value is made, and is
\* freed again if the container does not take it.
PutData == \E h \in DOMAIN held, d \in Data :
    LET x == json_value_init(d, Memory(FALSE))
        Into(p, c, k, tight) ==
            LET put == Put(c, k, x.value, [x.mem EXCEPT !.tight = tight])
                o   == IF put.ok THEN put
                       ELSE JSONFailure(put.value, Freed(put.mem, Size(x.value)))
            IN  Leave(o, Changed(h, p, o.value),
                      [call |-> "put", var |-> h, at |-> p, key |-> k, value |-> x.value])
    IN  /\ UNCHANGED marked
        /\ \/ ~x.ok /\ Leave(x, held, [call |-> "make"])
           \/ /\ x.ok
              /\ \E p \in Places(held[h]) :
                 LET c == At(held[h], p)
                 IN  \E k \in Keys(c) : \E tight \in Tight(c, k) : Into(p, c, k, tight)

\* json_array_remove, json_object_remove, json_object_dotremove
TakeOut == \E h \in DOMAIN held : \E p \in Places(held[h]) :
    \E k \in Keys(At(held[h], p)) :
    LET c == At(held[h], p)
        o == IF c.kind = "object" THEN Dotremove(c, k, TRUE, Memory(FALSE))
             ELSE json_array_remove(c, k, Memory(FALSE))
    IN  /\ UNCHANGED marked
        /\ Leave(o, Changed(h, p, o.value),
                  [call |-> "remove", var |-> h, at |-> p, key |-> k])

\* json_array_clear, json_object_clear
Clear == \E h \in DOMAIN held : \E p \in Places(held[h]) :
    LET c == At(held[h], p)
        cleared == IF c.kind = "object" THEN [c EXCEPT !.table = Cleared(@)]
                   ELSE [c EXCEPT !.items = <<>>]
    IN  /\ c.kind # "leaf"
        /\ UNCHANGED marked
        /\ Leave(Done(cleared, Freed(Memory(FALSE), Size(c) - 1)),
                  Changed(h, p, cleared), [call |-> "clear"])

Copy == \E h \in DOMAIN held, g \in Variable \ DOMAIN held, tight \in BOOLEAN :
    \E p \in Places(held[h]) :
    LET o == json_value_deep_copy(At(held[h], p), Memory(tight))
    IN  /\ UNCHANGED marked
        /\ Leave(o, IF o.ok THEN held @@ (g :> o.value) ELSE held,
                  [call |-> "copy", var |-> h, at |-> p, to |-> g])

json_value_free == \E h \in DOMAIN held :
    /\ Leave(Done(NULL, Freed(Memory(FALSE), Size(held[h]))), Without(h, held),
              [call |-> "free"])
    /\ marked' = marked \ {h}

-----------------------------------------------------------------------------
(* Specification *)

BuildInit == /\ held = << >>
             /\ marked = {}
             /\ used = 0
             /\ last = [ok |-> TRUE, call |-> "none"]

BuildNext == Create \/ PutValue \/ PutData \/ TakeOut \/ Clear \/ Copy \/ json_value_free

-----------------------------------------------------------------------------
(* Properties *)

\* The blocks in use are those of the caller's values: no call leaks a block or
\* frees one that a value still has, wherever in it malloc fails.
BlocksOwned == used = MapThenSumSet(LAMBDA h : Size(held[h]), DOMAIN held)

\* A dotted set has put its value into an object of its own making.
DottedSetOf(g, call) ==
    LET c == At(held[call.var], call.at)
    IN  /\ call.call = "put" /\ "from" \in DOMAIN call /\ call.from = g
        /\ c.kind = "object" /\ Len(call.key) > 1
        /\ json_object_dotget_value(c, Front(call.key)) = {}

\* A call that fails leaves every value as it was and no block behind, however
\* far it had come (parson.c:2172-2221, 1709-1797), with one exception: the value
\* that a dotted set has put into a new object, and taken out again, keeps a
\* parent (663), and no container will take it any more.
FailureChangesNothing ==
    [][~last'.ok =>
          /\ held' = held /\ used' = used
          /\ \/ marked' = marked
             \/ \E g \in DOMAIN held :
                   marked' = marked \cup {g} /\ DottedSetOf(g, last')]_dvars

\* json_value_equals holds of two values if and only if they say the same, but
\* for numbers, which only have to be nearer than EPSILON (parson.c:2370-2433).
EqualSaysTheSame ==
    \A h, g \in DOMAIN held :
        json_value_equals(held[h], held[g]) <=> Alike(Meaning(held[h]), Meaning(held[g]))

Effect(variables, call) == call.ok =>
    LET c == At(variables[call.var], call.at)
    IN  CASE call.call = "copy" -> Meaning(variables[call.to]) = Meaning(c)
          [] call.call = "put" /\ c.kind = "object" ->
                json_object_dotget_value(c, call.key) = {call.value}
          [] call.call = "remove" /\ c.kind = "object" ->
                json_object_dotget_value(c, call.key) = {}
          [] OTHER -> TRUE

\* What has been put under a name, dotted or not, is got under it, and what has
\* been removed is not; a copy says what the value it was made from says.
EffectSeen == [][Effect(held', last')]_dvars
=============================================================================
