------------------------------- MODULE Arena --------------------------------
(***************************************************************************)
(* The arena allocator (libs/arena.h). "from" keeps the strings and the    *)
(* JSON tree of a frame in one: a list of regions out of which blocks are  *)
(* cut, from a->end on, and which is only ever emptied as a whole.         *)
(*                                                                         *)
(* The list from a->begin is a sequence and a->end an index into it, 0 for *)
(* NULL. When malloc fails an assertion ends the process: no step.         *)
(***************************************************************************)
EXTENDS Integers, Sequences

CONSTANTS
    Handle,     \* names for the blocks that the arena's users hold
    Value,      \* contents of a byte
    Junk,       \* contents of a byte that malloc has returned
    Sizes,      \* sizes in bytes that are asked for
    WordBytes,  \* sizeof(uintptr_t)
    REGION_DEFAULT_CAPACITY,
    MaxRegions  \* bound: regions of an arena

ASSUME ArenaAssumption ==
    /\ Junk \in Value
    /\ Sizes \subseteq Nat
    /\ WordBytes \in Nat \ {0}
    /\ REGION_DEFAULT_CAPACITY \in Nat

VARIABLES
    regions,    \* the regions of the arena
    end,        \* a->end
    blocks      \* where each block lies: what alloc and realloc have returned

vars == <<regions, end, blocks>>

-----------------------------------------------------------------------------
(* Regions *)

Region == [count : Nat, capacity : Nat, data : Seq(Value)]

\* Faulty: the last, incomplete word is not counted.
Words_down(bytes) == bytes \div WordBytes

\* The words a block takes; the bytes of a region of so many words.
Words(bytes) == (bytes + WordBytes - 1) \div WordBytes
Bytes(words) == words * WordBytes

new_region(capacity) ==
    [count    |-> 0,
     capacity |-> capacity,
     data     |-> [k \in 1..Bytes(capacity) |-> Junk]]

\* Faulty: a large block gets a region of the usual size.
Capacity_fixed(size) == REGION_DEFAULT_CAPACITY

Capacity(size) == IF REGION_DEFAULT_CAPACITY < size THEN size
                                                    ELSE REGION_DEFAULT_CAPACITY

Room(i, size) == regions[i].count + size <= regions[i].capacity

\* A block of so many bytes at data[first] of the i-th region.
Block(i, first, bytes) == [region |-> i, first |-> first, bytes |-> bytes]
Cells(b) == (Bytes(b.first) + 1)..(Bytes(b.first) + b.bytes)
Contents(rs, b) ==
    [k \in 1..b.bytes |-> rs[b.region].data[Bytes(b.first) + k]]

-----------------------------------------------------------------------------
(* Operations *)

Init == regions = <<>> /\ end = 0 /\ blocks = <<>>

\* arena_alloc cuts the block from the first region, from a->end on, that has
\* room for it, and from a new one if there is none.
Target(size, i) ==
    /\ i \in 1..(Len(regions) + 1)
    /\ i <= Len(regions) => end <= i /\ Room(i, size)
    /\ \A j \in DOMAIN regions : end <= j /\ j < i => ~Room(j, size)

\* The regions once size words have been cut from the i-th.
Cut(size, i) ==
    [IF i <= Len(regions) THEN regions
                          ELSE Append(regions, new_region(Capacity(size)))
        EXCEPT ![i].count = @ + size]

First(i) == IF i <= Len(regions) THEN regions[i].count ELSE 0

Alloc(h, bytes) ==
    /\ h \notin DOMAIN blocks
    /\ \E i \in 1..MaxRegions :
        /\ Target(Words(bytes), i)
        /\ regions' = Cut(Words(bytes), i)
        /\ end' = i
        /\ blocks' = [g \in DOMAIN blocks \cup {h} |->
                        IF g = h THEN Block(i, First(i), bytes) ELSE blocks[g]]

\* arena_realloc of a size that is not larger returns the block itself.
Shrink(h, bytes) ==
    /\ h \in DOMAIN blocks
    /\ bytes <= blocks[h].bytes
    /\ blocks' = [blocks EXCEPT ![h].bytes = bytes]
    /\ UNCHANGED <<regions, end>>

\* rs, with the contents of one block copied to the start of another.
Copied(rs, from, to) ==
    [rs EXCEPT ![to.region].data = [c \in DOMAIN @ |->
        IF c - Bytes(to.first) \in 1..from.bytes
          THEN Contents(rs, from)[c - Bytes(to.first)] ELSE @[c]]]

\* Faulty: the contents stay behind.
Grow_empty(h, bytes) ==
    /\ h \in DOMAIN blocks
    /\ bytes > blocks[h].bytes
    /\ \E i \in 1..MaxRegions :
        /\ Target(Words(bytes), i)
        /\ regions' = Cut(Words(bytes), i)
        /\ end' = i
        /\ blocks' = [blocks EXCEPT ![h] = Block(i, First(i), bytes)]

Grow(h, bytes) ==
    /\ h \in DOMAIN blocks
    /\ bytes > blocks[h].bytes
    /\ \E i \in 1..MaxRegions :
        LET new == Block(i, First(i), bytes) IN
        /\ Target(Words(bytes), i)
        /\ regions' = Copied(Cut(Words(bytes), i), blocks[h], new)
        /\ end' = i
        /\ blocks' = [blocks EXCEPT ![h] = new]

\* Faulty: a->end stays where it is.
Reset_end ==
    /\ regions' = [i \in DOMAIN regions |-> [regions[i] EXCEPT !.count = 0]]
    /\ blocks' = <<>>
    /\ UNCHANGED end

Reset ==
    /\ regions' = [i \in DOMAIN regions |-> [regions[i] EXCEPT !.count = 0]]
    /\ end' = IF regions = <<>> THEN 0 ELSE 1
    /\ blocks' = <<>>

\* Faulty: a->end is left dangling.
Free_end == regions' = <<>> /\ blocks' = <<>> /\ UNCHANGED end

Free == regions' = <<>> /\ end' = 0 /\ blocks' = <<>>

Written(rs, b, v) ==
    [rs EXCEPT ![b.region].data =
        [c \in DOMAIN @ |-> IF c \in Cells(b) THEN v ELSE @[c]]]

\* The owner of a block writes to all of it.
Fill(h, v) ==
    /\ h \in DOMAIN blocks
    /\ regions' = Written(regions, blocks[h], v)
    /\ UNCHANGED <<end, blocks>>

-----------------------------------------------------------------------------
(* Specification *)

Next == \/ \E h \in Handle : \/ \E n \in Sizes : \/ Alloc(h, n)
                                                 \/ Shrink(h, n)
                                                 \/ Grow(h, n)
                             \/ \E v \in Value : Fill(h, v)
        \/ Reset
        \/ Free

Spec == Init /\ [][Next]_vars

-----------------------------------------------------------------------------
(* Properties *)

\* a->end is NULL when, and only when, a->begin is (arena.h:160).
TypeOK ==
    /\ regions \in Seq(Region)
    /\ end \in 0..Len(regions)
    /\ end = 0 <=> regions = <<>>
    /\ DOMAIN blocks \subseteq Handle
    /\ \A h \in DOMAIN blocks :
          blocks[h] \in [region : DOMAIN regions, first : Nat, bytes : Nat]

\* Every byte of a block is inside its region's array (arena.h:171-179), also
\* when the block is larger than the usual region or not a number of words.
BlocksInBounds ==
    \A h \in DOMAIN blocks :
        Cells(blocks[h]) \subseteq DOMAIN regions[blocks[h].region].data

\* No byte belongs to two blocks, however allocations, changes of size and
\* resets have followed one another (arena.h:155-203).
BlocksDisjoint ==
    \A g, h \in DOMAIN blocks :
        g # h /\ blocks[g].region = blocks[h].region =>
            Cells(blocks[g]) \cap Cells(blocks[h]) = {}

\* The arena implements what its users rely on.
Store == INSTANCE BlockStore
           WITH store <- [h \in DOMAIN blocks |-> Contents(regions, blocks[h])]

StoreSpec == Store!Spec
=============================================================================
