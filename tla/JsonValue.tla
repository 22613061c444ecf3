------------------------------ MODULE JsonValue ------------------------------
(***************************************************************************)
(* JSON values (libs/parson.c): trees of arrays, objects, which are tables *)
(* of JsonObject, and leaves; what is freed with one, the text it is       *)
(* written as, and when two are equal.                                     *)
(*                                                                         *)
(* Each value is known by the block of memory it was allocated as (at). A  *)
(* leaf is known by its token, and a text is a sequence of tokens.         *)
(***************************************************************************)
EXTENDS JsonObject, Bags

CONSTANTS
    Number,     \* the tokens that are numbers, and their values
    EPSILON     \* the difference from which on two numbers are two (0.000001)

ASSUME ValueAssumption ==
    Number \in [DOMAIN Number -> Int] /\ EPSILON \in Nat \ {0}

NULL == "NULL"

Leaf(at, t) == [kind |-> "leaf", at |-> at, token |-> t]
Array(at)   == [kind |-> "array", at |-> at, items |-> <<>>]
Object(at)  == [kind |-> "object", at |-> at, table |-> json_object_init(0)]

\* An object owns its keys too, whose blocks are kept with the values.
Members(v) == [m \in DOMAIN v.table.items |-> v.table.items[m].value]

\* What json_value_free(v) frees.
RECURSIVE Blocks(_)
Blocks(v) ==
    {v.at} \cup
    CASE v.kind = "leaf"   -> {}
      [] v.kind = "array"  -> UNION {Blocks(x) : x \in Range(v.items)}
      [] v.kind = "object" -> UNION {{m.key} \cup Blocks(m.value) :
                                        m \in Range(Members(v))}

\* json_object_get_value
Get(v, n) == json_object_getn_value(v.table, n).value
Has(v, n) == Found(v.table, n)

-----------------------------------------------------------------------------
(* Writing *)

Separator(i, count) == IF i < count THEN <<",">> ELSE <<>>

\* What an array or object writes: parts, each on a line of its own if is_pretty.
Bracketed(parts, open, close, level, is_pretty) ==
    LET Pretty(t)  == IF is_pretty /\ parts # <<>> THEN t ELSE <<>>
        Indent(n)  == Pretty([x \in 1..n |-> "indent"])
        Line(i)    == Indent(level + 1) \o parts[i]
                         \o Separator(i, Len(parts)) \o Pretty(<<"newline">>)
    IN  <<open>> \o Pretty(<<"newline">>)
          \o FlattenSeq([i \in DOMAIN parts |-> Line(i)])
          \o Indent(level) \o <<close>>

RECURSIVE json_serialize_to_buffer_r(_, _, _)
json_serialize_to_buffer_r(v, level, is_pretty) ==
    LET Sub(x) == json_serialize_to_buffer_r(x, level + 1, is_pretty)
        Space  == IF is_pretty THEN <<"space">> ELSE <<>>
        Named(item) == <<item.name, ":">> \o Space \o Sub(item.value.value)
    IN  CASE v.kind = "leaf"   -> <<v.token>>
          [] v.kind = "array"  ->
                Bracketed([i \in DOMAIN v.items |-> Sub(v.items[i])],
                          "[", "]", level, is_pretty)
          [] v.kind = "object" ->
                Bracketed([i \in DOMAIN v.table.items |-> Named(v.table.items[i])],
                          "{", "}", level, is_pretty)

json_serialize_to_string(v)        == json_serialize_to_buffer_r(v, 0, FALSE)
json_serialize_to_string_pretty(v) == json_serialize_to_buffer_r(v, 0, TRUE)

-----------------------------------------------------------------------------
(* Comparing *)

\* Faulty: only as many members as a has are compared.
SameCount_object(a, b) == a.kind = "array" => Len(a.items) = Len(b.items)

SameCount(a, b) == IF a.kind = "array" THEN Len(a.items) = Len(b.items)
                   ELSE Len(a.table.items) = Len(b.table.items)

\* Faulty: without fabs a number equals all that are greater.
Near_signed(s, t) == s = t \/ /\ {s, t} \subseteq DOMAIN Number
                              /\ Number[s] - Number[t] < EPSILON

\* Numbers are the same when they are near enough to each other.
Near(s, t) == s = t \/ /\ {s, t} \subseteq DOMAIN Number
                       /\ Number[s] - Number[t] \in (1 - EPSILON)..(EPSILON - 1)

RECURSIVE json_value_equals(_, _)
json_value_equals(a, b) ==
    /\ a.kind = b.kind
    /\ CASE a.kind = "leaf"   -> Near(a.token, b.token)
         [] a.kind = "array"  ->
               /\ SameCount(a, b)
               /\ \A i \in DOMAIN a.items : json_value_equals(a.items[i], b.items[i])
         [] a.kind = "object" ->
               /\ SameCount(a, b)
               /\ \A i \in DOMAIN a.table.items :
                     LET n == a.table.items[i].name
                     IN  Has(b, n) /\ json_value_equals(Get(a, n), Get(b, n))

\* What a value says: what is where. There is no order of an object's names.
RECURSIVE Meaning(_)
Meaning(v) ==
    LET Under(k, x) == {<<<<k>> \o w[1], w[2]>> : w \in Meaning(x)}
    IN  CASE v.kind = "leaf"   -> {<<<<>>, v.token>>}
          [] v.kind = "array"  ->
                {<<<<>>, "array">>}
                    \cup UNION {Under(i, v.items[i]) : i \in DOMAIN v.items}
          [] v.kind = "object" ->
                {<<<<>>, "object">>}
                    \cup UNION {Under(n, Get(v, n)) : n \in {m \in Name : Has(v, m)}}

\* The same is said in both, but for numbers that differ by less than EPSILON.
Alike(m, w) ==
    /\ {x[1] : x \in m} = {y[1] : y \in w}
    /\ \A x \in m, y \in w : x[1] = y[1] =>
          \/ x[2] = y[2]
          \/ /\ {x[2], y[2]} \subseteq DOMAIN Number
             /\ Number[x[2]] < Number[y[2]] + EPSILON
             /\ Number[y[2]] < Number[x[2]] + EPSILON
=============================================================================
