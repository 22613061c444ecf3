----------------------------- MODULE JsonParse -----------------------------
(***************************************************************************)
(* The parser of JSON texts (libs/parson.c:787-1125), which fills objects  *)
(* through JsonObject, and the memory it allocates and frees.              *)
(*                                                                         *)
(* A text is a sequence of tokens, chosen as the parser reads them. A name *)
(* is a string; "nul" a string with an escaped null character in it;       *)
(* "scalar" a number, true, false or null; "junk" whatever no rule begins  *)
(* or completes. White space and a byte order mark are left out.           *)
(*                                                                         *)
(* The recursion is a stack of the arrays and objects being read. A block  *)
(* of memory is known by the position of the token it was allocated for.   *)
(***************************************************************************)
EXTENDS JsonValue

CONSTANTS
    TextName,       \* names that are used in texts
    MAX_NESTING,    \* deepest nesting that is parsed (2048)
    MaxTokens       \* bound: tokens before the text ends

ASSUME ParseAssumption ==
    TextName \subseteq Name /\ MAX_NESTING \in Nat /\ MaxTokens \in Nat

VARIABLES
    text,       \* tokens read
    pc,         \* what is read next, or "done", "failed"
    stack,      \* containers being read, with the key read last
    made,       \* blocks allocated
    freed,      \* blocks freed, each as often as it was
    result      \* the value returned

pvars == <<text, pc, stack, made, freed, result>>

Strings == TextName \cup {"nul"}
Token == Strings \cup {"{", "}", "[", "]", ",", ":", "scalar", "junk", "end"}

NoKey == [name |-> NULL, at |-> 0]
Frame(value) == [value |-> value, key |-> NoKey]

ParseInit ==
    /\ text = <<>>
    /\ pc = "value"
    /\ stack = <<>>
    /\ made = {}
    /\ freed = EmptyBag
    /\ result = NULL

-----------------------------------------------------------------------------
(* Steps of the parser *)

here == Len(text) + 1

Read(t) ==
    /\ Len(text) < MaxTokens \/ t = "end"
    /\ text' = Append(text, t)

Make(blocks) == made' = made \cup blocks
\* parson_free
Release(blocks) == freed' = freed (+) SetToBag(blocks)

\* NULL is returned: the containers on the stack are freed one by one.
Reject ==
    /\ pc' = "failed"
    /\ UNCHANGED <<stack, freed, result>>

-----------------------------------------------------------------------------
(* A value that is complete goes to the container it is in *)

AddElement(s, v) ==
    /\ s # <<>> /\ Last(s).value.kind = "array"
    /\ stack' = Append(Front(s), [Last(s) EXCEPT !.value.items = Append(@, v)])
    /\ pc' = "after"
    /\ UNCHANGED <<freed, result>>

\* Faulty: json_object_add does not look whether the name is there.
Duplicate_unchecked(s) == FALSE

Duplicate(s) == Found(Last(s).value.table, Last(s).key.name)

AddMember(s, v) ==
    LET f == Last(s)
    IN  /\ s # <<>> /\ f.value.kind = "object"
        /\ ~Duplicate(s)
        /\ stack' = Append(Front(s),
              [f EXCEPT !.key = NoKey,
                        !.value.table = Added(@, f.key.name,
                                          [key |-> f.key.at, value |-> v])])
        /\ pc' = "after"
        /\ UNCHANGED <<freed, result>>

\* Faulty: the value is left to the object, which has not taken it.
RejectMember_leak(s, v) ==
    /\ s # <<>> /\ Last(s).value.kind = "object"
    /\ Duplicate(s)
    /\ stack' = s
    /\ pc' = "failed"
    /\ UNCHANGED <<freed, result>>

RejectMember(s, v) ==
    /\ s # <<>> /\ Last(s).value.kind = "object"
    /\ Duplicate(s)
    /\ stack' = s
    /\ Release(Blocks(v))
    /\ pc' = "failed"
    /\ UNCHANGED result

ReturnRoot(s, v) ==
    /\ s = <<>>
    /\ stack' = s
    /\ result' = v
    /\ pc' = "done"
    /\ UNCHANGED freed

Return(s, v) == \/ AddElement(s, v) \/ AddMember(s, v)
                \/ RejectMember(s, v) \/ ReturnRoot(s, v)

-----------------------------------------------------------------------------
(* parse_value, on its first token *)

TooDeep == Len(stack) > MAX_NESTING

OpenContainer(t) ==
    /\ ~TooDeep /\ t \in {"{", "["}
    /\ stack' = Append(stack, Frame(IF t = "{" THEN Object(here) ELSE Array(here)))
    /\ pc' = "item"
    /\ Make({here})
    /\ UNCHANGED <<freed, result>>

ReadLeaf(t) ==
    /\ ~TooDeep /\ t \in Strings \cup {"scalar"}
    /\ Make({here})
    /\ Return(stack, Leaf(here, t))

RejectValue(t) ==
    /\ TooDeep \/ t \notin Strings \cup {"scalar", "{", "["}
    /\ Reject
    /\ UNCHANGED made

parse_value(t) == OpenContainer(t) \/ ReadLeaf(t) \/ RejectValue(t)

ParseValue == \E t \in Token : pc = "value" /\ Read(t) /\ parse_value(t)

-----------------------------------------------------------------------------
(* parse_array_value and parse_object_value *)

Kind == Last(stack).value.kind
Closing == IF Kind = "array" THEN "]" ELSE "}"

\* Right after the opening token, or after a comma; or after a value.
Close ==
    /\ pc \in {"item", "after"}
    /\ Read(Closing)
    /\ Return(Front(stack), Last(stack).value)
    /\ UNCHANGED made

ParseElement == \E t \in Token \ {"]"} :
    /\ pc = "item" /\ Kind = "array"
    /\ Read(t)
    /\ parse_value(t)

ParseKey == \E t \in TextName :
    /\ pc = "item" /\ Kind = "object"
    /\ Read(t)
    /\ Make({here})
    /\ stack' = Append(Front(stack), [Last(stack) EXCEPT !.key = [name |-> t, at |-> here]])
    /\ pc' = "colon"
    /\ UNCHANGED <<freed, result>>

\* A key with a null character in it is shorter than its length says.
RejectKey == \E t \in Token \ (TextName \cup {"}"}) :
    /\ pc = "item" /\ Kind = "object"
    /\ Read(t)
    /\ IF t = "nul" THEN Make({here}) /\ Release({here}) ELSE UNCHANGED <<made, freed>>
    /\ pc' = "failed"
    /\ UNCHANGED <<stack, result>>

ParsePunctuation ==
    /\ \/ pc = "colon" /\ Read(":") /\ pc' = "value"
       \/ pc = "after" /\ Read(",") /\ pc' = "item"
    /\ UNCHANGED <<stack, made, freed, result>>

RejectPunctuation == \E t \in Token :
    /\ \/ pc = "colon" /\ t # ":"
       \/ pc = "after" /\ t \notin {",", Closing}
    /\ Read(t)
    /\ Reject
    /\ UNCHANGED made

\* The container is freed, and the key in front of the value that failed.
Unwind ==
    /\ pc = "failed" /\ stack # <<>>
    /\ LET f == Last(stack)
       IN  Release(Blocks(f.value) \cup (IF f.key = NoKey THEN {} ELSE {f.key.at}))
    /\ stack' = Front(stack)
    /\ UNCHANGED <<text, pc, made, result>>

-----------------------------------------------------------------------------
(* Specification *)

ParseNext ==
    \/ ParseValue
    \/ Close \/ ParseElement
    \/ ParseKey \/ RejectKey
    \/ ParsePunctuation \/ RejectPunctuation
    \/ Unwind

-----------------------------------------------------------------------------
(* Properties *)

\* A comma in front of a closing token is read over.
WithoutLastCommas(t) ==
    FoldLeft(LAMBDA x, y : IF y \in {"]", "}"} /\ x # <<>> /\ Last(x) = ","
                             THEN Append(Front(x), y) ELSE Append(x, y),
             <<>>, t)

\* The objects of a value find each member by its name.
RECURSIVE NamesFound(_)
NamesFound(v) ==
    CASE v.kind = "leaf"   -> TRUE
      [] v.kind = "array"  -> \A x \in Range(v.items) : NamesFound(x)
      [] v.kind = "object" ->
            \A item \in Range(v.table.items) :
                Get(v, item.name) = item.value.value /\ NamesFound(item.value.value)

\* A text that is parsed and written again is the same text: nothing is lost,
\* misplaced or found under another name, however values are nested. Written
\* in lines (json_serialize_to_string_pretty) it differs in white space only.
TreeSpellsText ==
    pc = "done" =>
        /\ NamesFound(result)
        /\ json_serialize_to_string(result) = WithoutLastCommas(text)
        /\ json_serialize_to_string(result)
             = SelectSeq(json_serialize_to_string_pretty(result),
                         LAMBDA t : t \notin {"newline", "indent", "space"})

\* No block is freed twice; when a text is refused, wherever, all blocks have
\* been freed, and otherwise those that the value returned does not own.
BlocksFreedOnce ==
    /\ \A b \in made : CopiesIn(b, freed) <= 1
    /\ pc = "failed" /\ stack = <<>> => BagToSet(freed) = made
    /\ pc = "done" => made \ BagToSet(freed) = Blocks(result)
=============================================================================
