---------------------------- MODULE Arena_proofs ----------------------------
(***************************************************************************)
(* Proofs about Arena: blocks lie apart from one another in their regions, *)
(* and so the arena implements BlockStore. About ArenaReplay: the          *)
(* allocations after a reset go where they went before it, one by one.     *)
(***************************************************************************)
EXTENDS ArenaReplay, SequenceLemmas

-----------------------------------------------------------------------------
(* Words and bytes *)

\* A block takes a natural number of words.
LEMMA WordsType == ASSUME NEW n \in Nat PROVE Words(n) \in Nat
  BY ArenaAssumption DEF Words

\* They hold all of its bytes.
LEMMA WordsHold == ASSUME NEW n \in Nat PROVE n <= Bytes(Words(n))
  BY ArenaAssumption DEF Words, Bytes

\* A smaller block takes no more of them.
LEMMA WordsMonotonic ==
  ASSUME NEW m \in Nat, NEW n \in Nat, m <= n PROVE Words(m) <= Words(n)
  BY ArenaAssumption DEF Words

\* Sizes in bytes are natural numbers, in the order of the sizes in words.
LEMMA BytesType == ASSUME NEW n \in Nat PROVE Bytes(n) \in Nat
  BY ArenaAssumption DEF Bytes

LEMMA BytesMonotonic ==
  ASSUME NEW m \in Nat, NEW n \in Nat, m <= n PROVE Bytes(m) <= Bytes(n)
  BY ArenaAssumption DEF Bytes

LEMMA BytesOfSum ==
  ASSUME NEW m \in Nat, NEW n \in Nat PROVE Bytes(m + n) = Bytes(m) + Bytes(n)
  BY ArenaAssumption DEF Bytes

\* A block that ends in front of a word has no byte at or after that word.
LEMMA BlockEnds ==
  ASSUME NEW first \in Nat, NEW n \in Nat, NEW word \in Nat,
         first + Words(n) <= word
  PROVE  Bytes(first) + n <= Bytes(word)
<1>1. Words(n) \in Nat  BY WordsType
<1>2. Bytes(first + Words(n)) = Bytes(first) + Bytes(Words(n))
  BY <1>1, BytesOfSum
<1>3. Bytes(first + Words(n)) <= Bytes(word)
  BY <1>1, BytesMonotonic
<1>4. n <= Bytes(Words(n))  BY WordsHold
<1>5. /\ Bytes(first) \in Nat /\ Bytes(word) \in Nat
      /\ Bytes(Words(n)) \in Nat
  BY <1>1, BytesType
<1> QED  BY <1>2, <1>3, <1>4, <1>5

-----------------------------------------------------------------------------
(* The inductive invariant *)

\* No region has more cut from it than it holds, and its array is all there.
Whole(rs) ==
  \A i \in DOMAIN rs : /\ rs[i].count <= rs[i].capacity
                       /\ Len(rs[i].data) = Bytes(rs[i].capacity)

\* The words of a block have been cut from its region.
BlocksPlaced ==
  \A h \in DOMAIN blocks :
    blocks[h].first + Words(blocks[h].bytes)
      <= regions[blocks[h].region].count

\* Of two blocks in a region one ends where the other begins, or before.
BlocksApart ==
  \A g, h \in DOMAIN blocks :
    g # h /\ blocks[g].region = blocks[h].region =>
      \/ blocks[g].first + Words(blocks[g].bytes) <= blocks[h].first
      \/ blocks[h].first + Words(blocks[h].bytes) <= blocks[g].first

ArenaInv == TypeOK /\ Whole(regions) /\ BlocksPlaced /\ BlocksApart

\* A block's bytes are inside its region's array.
LEMMA InBounds ==
  ASSUME ArenaInv, NEW h \in DOMAIN blocks
  PROVE  /\ Cells(blocks[h]) \subseteq DOMAIN regions[blocks[h].region].data
         /\ Bytes(blocks[h].first) + blocks[h].bytes
              <= Bytes(regions[blocks[h].region].count)
<1> DEFINE b == blocks[h]
           r == regions[b.region]
<1>1. /\ b.region \in DOMAIN regions /\ b.first \in Nat /\ b.bytes \in Nat
      /\ r \in Region
  BY DEF ArenaInv, TypeOK
<1>2. r.count \in Nat /\ r.capacity \in Nat /\ r.data \in Seq(Value)
  BY <1>1 DEF Region
<1>3. b.first + Words(b.bytes) <= r.count
  BY DEF ArenaInv, BlocksPlaced
<1>4. r.count <= r.capacity /\ Len(r.data) = Bytes(r.capacity)
  BY <1>1 DEF ArenaInv, Whole
<1>5. Bytes(b.first) + b.bytes <= Bytes(r.count)
  BY <1>1, <1>2, <1>3, BlockEnds
<1>6. Bytes(r.count) <= Bytes(r.capacity)
  BY <1>2, <1>4, BytesMonotonic
<1>7. Bytes(b.first) \in Nat /\ Bytes(r.count) \in Nat /\ Bytes(r.capacity) \in Nat
  BY <1>1, <1>2, BytesType
<1>8. Cells(b) \subseteq 1..Len(r.data)
  BY <1>1, <1>4, <1>5, <1>6, <1>7 DEF Cells
<1> QED  BY <1>2, <1>5, <1>8

\* Blocks share no byte.
LEMMA Disjoint ==
  ASSUME ArenaInv, NEW g \in DOMAIN blocks, NEW h \in DOMAIN blocks,
         g # h, blocks[g].region = blocks[h].region
  PROVE  Cells(blocks[g]) \cap Cells(blocks[h]) = {}
<1> DEFINE bg == blocks[g]
           bh == blocks[h]
<1>1. /\ bg.first \in Nat /\ bg.bytes \in Nat
      /\ bh.first \in Nat /\ bh.bytes \in Nat
  BY DEF ArenaInv, TypeOK
<1>2. Bytes(bg.first) \in Nat /\ Bytes(bh.first) \in Nat
  BY <1>1, BytesType
<1>3. CASE bg.first + Words(bg.bytes) <= bh.first
  <2>1. Bytes(bg.first) + bg.bytes <= Bytes(bh.first)
    BY <1>1, <1>3, BlockEnds
  <2> QED  BY <1>1, <1>2, <2>1 DEF Cells
<1>4. CASE bh.first + Words(bh.bytes) <= bg.first
  <2>1. Bytes(bh.first) + bh.bytes <= Bytes(bg.first)
    BY <1>1, <1>4, BlockEnds
  <2> QED  BY <1>1, <1>2, <2>1 DEF Cells
<1> QED  BY <1>3, <1>4 DEF ArenaInv, BlocksApart

-----------------------------------------------------------------------------
(* arena_alloc *)

\* A new region is a region, empty and of the right length.
LEMMA NewRegion ==
  ASSUME NEW n \in Nat
  PROVE  /\ new_region(n) \in Region
         /\ new_region(n).count = 0 /\ new_region(n).capacity = n
         /\ Len(new_region(n).data) = Bytes(n)
<1>1. Bytes(n) \in Nat  BY BytesType
<1>2. [k \in 1..Bytes(n) |-> Junk] \in Seq(Value)
  BY <1>1, ArenaAssumption
<1> QED  BY <1>1, <1>2 DEF new_region, Region

\* Cutting a block changes the count of one region, in which it fits, and at
\* most adds that region at the end.
LEMMA CutRegions ==
  ASSUME ArenaInv, NEW size \in Nat, NEW i, Target(size, i)
  PROVE  /\ Cut(size, i) \in Seq(Region)
         /\ Len(regions) <= Len(Cut(size, i))
         /\ i \in 1..Len(Cut(size, i))
         /\ First(i) \in Nat
         /\ Cut(size, i)[i].count = First(i) + size
         /\ First(i) + size <= Cut(size, i)[i].capacity
         /\ i \in DOMAIN regions => First(i) = regions[i].count
         /\ Len(Cut(size, i)) # Len(regions) => i = Len(regions) + 1
         /\ Len(Cut(size, i)) <= Len(regions) + 1
         /\ \A j \in DOMAIN regions :
              /\ j # i => Cut(size, i)[j].count = regions[j].count
              /\ Cut(size, i)[j].capacity = regions[j].capacity
              /\ Cut(size, i)[j].data = regions[j].data
         /\ Whole(Cut(size, i))
<1> DEFINE c == Cut(size, i)
<1>1. regions \in Seq(Region) /\ Len(regions) \in Nat /\ i \in 1..(Len(regions) + 1)
  BY DEF ArenaInv, TypeOK, Target
<1>2. \A j \in 1..Len(regions) :
        /\ regions[j] \in Region
        /\ regions[j].count <= regions[j].capacity
        /\ Len(regions[j].data) = Bytes(regions[j].capacity)
  BY <1>1 DEF ArenaInv, Whole
<1>3. CASE i <= Len(regions)
  <2> DEFINE new == [regions[i] EXCEPT !.count = @ + size]
  <2>1. i \in 1..Len(regions) /\ regions[i] \in Region
    BY <1>1, <1>2, <1>3
  <2>2. /\ new \in Region
        /\ new.count = regions[i].count + size
        /\ new.capacity = regions[i].capacity
        /\ new.data = regions[i].data
        /\ regions[i].count \in Nat
    BY <2>1 DEF Region
  <2>3. c = [regions EXCEPT ![i] = new]
    BY <1>3 DEF Cut
  <2> HIDE DEF new, c
  <2>4. c \in Seq(Region) /\ Len(c) = Len(regions)
        /\ \A j \in 1..Len(regions) : c[j] = IF j = i THEN new ELSE regions[j]
    BY <1>1, <2>1, <2>2, <2>3, ExceptSeq
  <2>5. regions[i].count + size <= regions[i].capacity
    BY <1>3 DEF Target, Room
  <2>6. First(i) = regions[i].count
    BY <1>3 DEF First
  <2>7. Whole(c)
    BY <1>2, <2>1, <2>2, <2>4, <2>5 DEF Whole
  <2>8. \A j \in 1..Len(regions) :
          /\ j # i => c[j].count = regions[j].count
          /\ c[j].capacity = regions[j].capacity
          /\ c[j].data = regions[j].data
    BY <2>2, <2>4
  <2>9. /\ c[i].count = First(i) + size
        /\ First(i) + size <= c[i].capacity
    BY <2>1, <2>2, <2>4, <2>5, <2>6
  <2>10. i \in 1..Len(c) /\ Len(regions) <= Len(c) /\ First(i) \in Nat
    BY <1>1, <2>1, <2>2, <2>4, <2>6
  <2> QED  BY <1>1, <2>4, <2>6, <2>7, <2>8, <2>9, <2>10 DEF c
<1>4. CASE i = Len(regions) + 1
  <2> DEFINE empty == new_region(Capacity(size))
             longer == Append(regions, empty)
             new == [empty EXCEPT !.count = @ + size]
  <2>1. Capacity(size) \in Nat /\ size <= Capacity(size)
    BY ArenaAssumption DEF Capacity
  <2>2. /\ empty \in Region /\ empty.count = 0 /\ empty.capacity = Capacity(size)
        /\ Len(empty.data) = Bytes(Capacity(size))
    BY <2>1, NewRegion
  <2>3. /\ longer \in Seq(Region)
        /\ Len(longer) = i
        /\ longer[i] = empty
        /\ \A j \in 1..Len(regions) : longer[j] = regions[j]
    BY <1>1, <1>4, <2>2, AppendProperties
  <2>4. c = [longer EXCEPT ![i] = new]
    BY <1>1, <1>4, <2>3 DEF Cut
  <2> HIDE DEF empty, longer, c
  <2>5. /\ new \in Region /\ new.count = size /\ new.capacity = Capacity(size)
        /\ Len(new.data) = Bytes(Capacity(size))
    BY <2>1, <2>2 DEF Region
  <2> HIDE DEF new
  <2>6. i \in 1..i
    BY <1>1, <1>4
  <2>7. c \in Seq(Region) /\ Len(c) = i
        /\ \A j \in 1..i : c[j] = IF j = i THEN new ELSE longer[j]
    <3>1. longer \in Seq(Region) /\ Len(longer) = i /\ i \in 1..Len(longer)
      BY <2>3, <2>6
    <3> QED  BY <3>1, <2>4, <2>5, ExceptSeq
  <2>8. c[i] = new /\ \A j \in 1..Len(regions) : j # i /\ c[j] = regions[j]
    BY <1>1, <1>4, <2>3, <2>6, <2>7
  <2>9. First(i) = 0
    BY <1>1, <1>4 DEF First
  <2>10. \A j \in 1..Len(c) : j = i \/ j \in 1..Len(regions)
    BY <1>1, <1>4, <2>7
  <2>11. Whole(c)
    BY <1>2, <2>1, <2>5, <2>7, <2>8, <2>10 DEF Whole
  <2>12. \A j \in 1..Len(regions) :
          /\ c[j].count = regions[j].count
          /\ c[j].capacity = regions[j].capacity
          /\ c[j].data = regions[j].data
    BY <2>8
  <2>13. /\ c[i].count = First(i) + size
         /\ First(i) + size <= c[i].capacity
    BY <2>1, <2>5, <2>8, <2>9
  <2> QED  BY <1>1, <1>4, <2>6, <2>7, <2>9, <2>11, <2>12, <2>13 DEF c
<1> QED  BY <1>1, <1>3, <1>4

\* A block is placed where arena_alloc cut it, the others stay where they are.
LEMMA PlacingKeepsInv ==
  ASSUME ArenaInv, NEW h \in Handle, NEW n \in Nat, NEW i,
         Target(Words(n), i),
         regions' \in Seq(Region),
         Len(regions') = Len(Cut(Words(n), i)),
         \A j \in 1..Len(regions') :
           /\ regions'[j].count = Cut(Words(n), i)[j].count
           /\ regions'[j].capacity = Cut(Words(n), i)[j].capacity
           /\ Len(regions'[j].data) = Len(Cut(Words(n), i)[j].data),
         end' = i,
         DOMAIN blocks' = DOMAIN blocks \cup {h},
         blocks'[h] = Block(i, First(i), n),
         \A g \in DOMAIN blocks \ {h} : blocks'[g] = blocks[g]
  PROVE  ArenaInv'
<1> DEFINE size == Words(n)
           c == Cut(size, i)
<1>1. size \in Nat /\ Target(size, i)  BY WordsType
<1> HIDE DEF size
<1>2. /\ Len(regions) <= Len(c) /\ i \in 1..Len(c) /\ First(i) \in Nat
      /\ c \in Seq(Region) /\ c[i].count = First(i) + size
      /\ i \in DOMAIN regions => First(i) = regions[i].count
      /\ \A j \in DOMAIN regions : j # i => c[j].count = regions[j].count
      /\ Whole(c)
  BY <1>1, CutRegions
<1> HIDE DEF c
<1>3. /\ regions \in Seq(Region) /\ DOMAIN regions = 1..Len(regions)
      /\ DOMAIN regions' = 1..Len(regions') /\ Len(regions') = Len(c)
      /\ DOMAIN blocks \subseteq Handle
      /\ \A g \in DOMAIN blocks :
            blocks[g] \in [region : DOMAIN regions, first : Nat, bytes : Nat]
  BY DEF ArenaInv, TypeOK, c, size
<1>4. /\ blocks'[h].region = i /\ blocks'[h].first = First(i)
      /\ blocks'[h].bytes = n
  BY DEF Block
<1>5. TypeOK'
  <2>1. end' \in 0..Len(regions') /\ (end' = 0 <=> regions' = <<>>)
    BY <1>2, <1>3
  <2>2. blocks'[h] \in [region : DOMAIN regions', first : Nat, bytes : Nat]
    BY <1>2, <1>3 DEF Block
  <2>3. \A g \in DOMAIN blocks \ {h} :
          blocks'[g] \in [region : DOMAIN regions', first : Nat, bytes : Nat]
    BY <1>2, <1>3
  <2> QED  BY <1>3, <2>1, <2>2, <2>3 DEF TypeOK
<1>6. \A j \in 1..Len(c) : /\ regions'[j].count = c[j].count
                          /\ regions'[j].capacity = c[j].capacity
                          /\ Len(regions'[j].data) = Len(c[j].data)
  BY <1>3 DEF c, size
<1>6a. Whole(regions')
  <2>1. DOMAIN c = 1..Len(c)
    BY <1>2
  <2> SUFFICES ASSUME NEW j \in 1..Len(c)
               PROVE  /\ regions'[j].count <= regions'[j].capacity
                      /\ Len(regions'[j].data) = Bytes(regions'[j].capacity)
    BY <1>3 DEF Whole
  <2>2. c[j].count <= c[j].capacity /\ Len(c[j].data) = Bytes(c[j].capacity)
    BY <1>2, <2>1 DEF Whole
  <2> QED  BY <1>6, <2>2
<1>7. /\ regions'[i].count = First(i) + Words(n)
      /\ \A j \in DOMAIN regions : j # i => regions'[j].count = regions[j].count
  BY <1>2, <1>3, <1>6 DEF size
\* The other blocks of region i end where the new one begins, or before.
<1>8. \A g \in DOMAIN blocks \ {h} :
        /\ blocks[g].first + Words(blocks[g].bytes)
             <= regions[blocks[g].region].count
        /\ blocks[g].region = i =>
             blocks[g].first + Words(blocks[g].bytes) <= First(i)
        /\ Words(blocks[g].bytes) \in Nat
  BY <1>2, <1>3, WordsType DEF ArenaInv, BlocksPlaced
<1>9. BlocksPlaced'
  <2> SUFFICES ASSUME NEW g \in DOMAIN blocks'
               PROVE  blocks'[g].first + Words(blocks'[g].bytes)
                        <= regions'[blocks'[g].region].count
    BY DEF BlocksPlaced
  <2>1. CASE g = h
    BY <1>1, <1>2, <1>4, <1>7, <2>1 DEF size
  <2>2. CASE g # h
    <3>1. g \in DOMAIN blocks \ {h} /\ blocks'[g] = blocks[g]
      BY <2>2
    <3>2. blocks[g].region \in DOMAIN regions /\ blocks[g].first \in Nat
      BY <1>3, <3>1
    <3>3. CASE blocks[g].region = i
      BY <1>1, <1>2, <1>7, <1>8, <3>1, <3>2, <3>3 DEF size
    <3>4. CASE blocks[g].region # i
      BY <1>7, <1>8, <3>1, <3>2, <3>4
    <3> QED  BY <3>3, <3>4
  <2> QED  BY <2>1, <2>2
<1>10. BlocksApart'
  <2> SUFFICES ASSUME NEW f \in DOMAIN blocks', NEW g \in DOMAIN blocks',
                      f # g, blocks'[f].region = blocks'[g].region
               PROVE  \/ blocks'[f].first + Words(blocks'[f].bytes) <= blocks'[g].first
                      \/ blocks'[g].first + Words(blocks'[g].bytes) <= blocks'[f].first
    BY DEF BlocksApart
  <2>1. CASE f = h
    BY <1>4, <1>8, <2>1
  <2>2. CASE g = h
    BY <1>4, <1>8, <2>2
  <2>3. CASE f # h /\ g # h
    BY <2>3 DEF ArenaInv, BlocksApart
  <2> QED  BY <2>1, <2>2, <2>3
<1> QED  BY <1>5, <1>6a, <1>9, <1>10 DEF ArenaInv

-----------------------------------------------------------------------------
(* The copy of arena_realloc and the writes of owners *)

\* Replacing the data of a region, and not its length, changes nothing else.
LEMMA DataReplaced ==
  ASSUME NEW rs \in Seq(Region), NEW i \in 1..Len(rs),
         NEW d \in Seq(Value), Len(d) = Len(rs[i].data)
  PROVE  LET new == [rs EXCEPT ![i].data = d] IN
         /\ new \in Seq(Region) /\ Len(new) = Len(rs)
         /\ new[i].data = d
         /\ \A j \in 1..Len(rs) :
              /\ new[j].count = rs[j].count /\ new[j].capacity = rs[j].capacity
              /\ Len(new[j].data) = Len(rs[j].data)
              /\ j # i => new[j] = rs[j]
<1> DEFINE r == [rs[i] EXCEPT !.data = d]
           new == [rs EXCEPT ![i] = r]
<1>1. rs[i] \in Region  OBVIOUS
<1>2. /\ r \in Region /\ r.data = d
      /\ r.count = rs[i].count /\ r.capacity = rs[i].capacity
  BY <1>1 DEF Region
<1> HIDE DEF r
<1>3. /\ new \in Seq(Region) /\ Len(new) = Len(rs)
      /\ \A j \in 1..Len(rs) : new[j] = IF j = i THEN r ELSE rs[j]
  BY <1>2, ExceptSeq
<1>4. [rs EXCEPT ![i].data = d] = new
  BY DEF r
<1> HIDE DEF new
<1>5. \A j \in 1..Len(rs) :
        /\ new[j].count = rs[j].count /\ new[j].capacity = rs[j].capacity
        /\ Len(new[j].data) = Len(rs[j].data)
        /\ j # i => new[j] = rs[j]
  BY <1>2, <1>3
<1> QED  BY <1>2, <1>3, <1>4, <1>5

\* The contents of a block depend on nothing but its own bytes.
LEMMA SameContents ==
  ASSUME NEW rs, NEW new, NEW b, b.bytes \in Nat, b.first \in Nat,
         \A c \in Cells(b) : new[b.region].data[c] = rs[b.region].data[c]
  PROVE  Contents(new, b) = Contents(rs, b)
<1>1. \A k \in 1..b.bytes : Bytes(b.first) + k \in Cells(b)
  BY BytesType DEF Cells
<1> QED  BY <1>1 DEF Contents

\* arena_realloc: the old contents appear at the start of the new block, the
\* other blocks keep theirs.
LEMMA GrowEffect ==
  ASSUME ArenaInv, NEW h \in DOMAIN blocks, NEW n \in Nat, NEW i,
         n > blocks[h].bytes, Target(Words(n), i),
         NEW new, new = Copied(Cut(Words(n), i), blocks[h], Block(i, First(i), n))
  PROVE  /\ new \in Seq(Region) /\ Len(new) = Len(Cut(Words(n), i))
         /\ \A j \in 1..Len(new) :
              /\ new[j].count = Cut(Words(n), i)[j].count
              /\ new[j].capacity = Cut(Words(n), i)[j].capacity
              /\ Len(new[j].data) = Len(Cut(Words(n), i)[j].data)
         /\ \A g \in DOMAIN blocks \ {h} :
              Contents(new, blocks[g]) = Contents(regions, blocks[g])
         /\ \A k \in 1..blocks[h].bytes :
              Contents(new, Block(i, First(i), n))[k]
                = Contents(regions, blocks[h])[k]
<1> DEFINE size == Words(n)
           rs == Cut(size, i)
           old == blocks[h]
           b == Block(i, First(i), n)
           d == [c \in DOMAIN rs[i].data |->
                   IF c - Bytes(b.first) \in 1..old.bytes
                     THEN Contents(rs, old)[c - Bytes(b.first)]
                     ELSE rs[i].data[c]]
<1>1. size \in Nat /\ Target(size, i)  BY WordsType
<1> HIDE DEF size
<1>2. /\ rs \in Seq(Region) /\ Len(regions) <= Len(rs) /\ i \in 1..Len(rs)
      /\ First(i) \in Nat /\ First(i) + size <= rs[i].capacity
      /\ i \in DOMAIN regions => First(i) = regions[i].count
      /\ \A j \in DOMAIN regions : rs[j].data = regions[j].data
      /\ Whole(rs)
  BY <1>1, CutRegions
<1> HIDE DEF rs
<1>3. b.region = i /\ b.first = First(i) /\ b.bytes = n
  BY DEF Block
<1>4. /\ regions \in Seq(Region) /\ DOMAIN regions = 1..Len(regions)
      /\ \A g \in DOMAIN blocks :
            blocks[g] \in [region : DOMAIN regions, first : Nat, bytes : Nat]
  BY DEF ArenaInv, TypeOK
<1> HIDE DEF b
<1>5. old.region \in DOMAIN regions /\ old.first \in Nat /\ old.bytes \in Nat
  BY <1>4
\* The old contents are all there.
<1>6. \A k \in 1..old.bytes :
        /\ Bytes(old.first) + k \in DOMAIN regions[old.region].data
        /\ Contents(rs, old)[k] = regions[old.region].data[Bytes(old.first) + k]
        /\ Contents(rs, old)[k] = Contents(regions, old)[k]
        /\ Contents(rs, old)[k] \in Value
  <2> SUFFICES ASSUME NEW k \in 1..old.bytes
      PROVE  /\ Bytes(old.first) + k \in DOMAIN regions[old.region].data
             /\ Contents(rs, old)[k] = regions[old.region].data[Bytes(old.first) + k]
             /\ Contents(rs, old)[k] = Contents(regions, old)[k]
             /\ Contents(rs, old)[k] \in Value
    OBVIOUS
  <2>1. Bytes(old.first) \in Nat  BY <1>5, BytesType
  <2>2. Bytes(old.first) + k \in Cells(old)
    BY <1>5, <2>1 DEF Cells
  <2>3. Bytes(old.first) + k \in DOMAIN regions[old.region].data
    BY <2>2, InBounds
  <2>4. regions[old.region].data \in Seq(Value)
    <3>1. regions[old.region] \in Region
      BY <1>4, <1>5
    <3> QED  BY <3>1 DEF Region
  <2>5. regions[old.region].data[Bytes(old.first) + k] \in Value
    BY <2>3, <2>4
  <2>6. rs[old.region].data = regions[old.region].data
    BY <1>2, <1>5
  <2> QED  BY <2>3, <2>5, <2>6 DEF Contents
<1>7. rs[i].data \in Seq(Value) /\ rs[i].capacity \in Nat
  <2>1. rs[i] \in Region
    BY <1>2
  <2> QED  BY <2>1 DEF Region
<1>8. d \in Seq(Value) /\ Len(d) = Len(rs[i].data)
  <2>1. \A c \in 1..Len(rs[i].data) : d[c] \in Value
    BY <1>6, <1>7
  <2>2. DOMAIN d = 1..Len(rs[i].data) /\ Len(rs[i].data) \in Nat
    BY <1>7
  <2>3. d = [c \in DOMAIN d |-> d[c]]
    OBVIOUS
  <2> HIDE DEF d
  <2>4. d \in [1..Len(rs[i].data) -> Value]
    BY <2>1, <2>2, <2>3
  <2> QED  BY <2>2, <2>4
<1>9. new = [rs EXCEPT ![i].data = d]
  BY <1>2, <1>3 DEF Copied, rs, size, b
<1>10. \A c \in DOMAIN rs[i].data :
         d[c] = IF c - Bytes(b.first) \in 1..old.bytes
                  THEN Contents(rs, old)[c - Bytes(b.first)]
                  ELSE rs[i].data[c]
  OBVIOUS
<1> HIDE DEF d, old
<1>11. /\ new \in Seq(Region) /\ Len(new) = Len(rs) /\ new[i].data = d
       /\ \A j \in 1..Len(rs) :
            /\ new[j].count = rs[j].count /\ new[j].capacity = rs[j].capacity
            /\ Len(new[j].data) = Len(rs[j].data)
            /\ j # i => new[j] = rs[j]
  BY <1>2, <1>8, <1>9, DataReplaced
<1>12. ASSUME NEW g \in DOMAIN blocks \ {h}
       PROVE  Contents(new, blocks[g]) = Contents(regions, blocks[g])
  <2> DEFINE bg == blocks[g]
  <2>1. /\ bg.region \in DOMAIN regions /\ bg.first \in Nat /\ bg.bytes \in Nat
        /\ bg.region \in 1..Len(rs)
    BY <1>2, <1>4
  <2>2. ASSUME NEW c \in Cells(bg)
        PROVE  new[bg.region].data[c] = regions[bg.region].data[c]
    <3>1. CASE bg.region # i
      BY <1>2, <1>11, <2>1, <3>1
    <3>2. CASE bg.region = i
      <4>1. c \in DOMAIN rs[i].data
        BY <1>2, <2>1, <3>2, InBounds
      <4>2. Bytes(bg.first) + bg.bytes <= Bytes(First(i))
        BY <1>2, <2>1, <3>2, InBounds
      <4>3. Bytes(bg.first) \in Nat /\ Bytes(First(i)) \in Nat
        BY <1>2, <2>1, BytesType
      <4>4. c \in Nat /\ c - Bytes(b.first) <= 0
        BY <1>3, <2>1, <4>2, <4>3 DEF Cells
      <4>5. d[c] = rs[i].data[c]
        BY <1>3, <1>10, <4>1, <4>3, <4>4
      <4> QED  BY <1>2, <1>11, <2>1, <3>2, <4>5
    <3> QED  BY <3>1, <3>2
  <2> QED  BY <2>1, <2>2, SameContents
<1>13. ASSUME NEW k \in 1..old.bytes
       PROVE  Contents(new, b)[k] = Contents(regions, old)[k]
  <2>1. old.bytes \in Nat /\ n > old.bytes /\ k \in 1..n
    BY <1>5 DEF old
  <2>2. Bytes(First(i)) + n <= Bytes(rs[i].capacity)
    BY <1>2, <1>7, BlockEnds DEF size
  <2>3. Bytes(First(i)) \in Nat /\ Bytes(rs[i].capacity) \in Nat
    BY <1>2, <1>7, BytesType
  <2>4. Len(rs[i].data) = Bytes(rs[i].capacity)
    BY <1>2 DEF Whole
  <2>5. Bytes(First(i)) + k \in DOMAIN rs[i].data
    BY <1>7, <2>1, <2>2, <2>3, <2>4
  <2>6. (Bytes(First(i)) + k) - Bytes(b.first) = k
    BY <1>3, <2>1, <2>3
  <2>7. d[Bytes(First(i)) + k] = Contents(rs, old)[k]
    BY <1>10, <2>5, <2>6
  <2>8. Contents(new, b)[k] = d[Bytes(First(i)) + k]
    BY <1>3, <1>11, <2>1 DEF Contents
  <2> QED  BY <1>6, <2>7, <2>8 DEF old
<1> QED  BY <1>11, <1>12, <1>13 DEF rs, size, b, old

\* A write by a block's owner changes that block and no other.
LEMMA FillEffect ==
  ASSUME ArenaInv, NEW h \in DOMAIN blocks, NEW v \in Value,
         NEW new, new = Written(regions, blocks[h], v)
  PROVE  /\ new \in Seq(Region) /\ Len(new) = Len(regions)
         /\ \A j \in 1..Len(regions) :
              /\ new[j].count = regions[j].count
              /\ new[j].capacity = regions[j].capacity
              /\ Len(new[j].data) = Len(regions[j].data)
         /\ \A g \in DOMAIN blocks \ {h} :
              Contents(new, blocks[g]) = Contents(regions, blocks[g])
         /\ Contents(new, blocks[h]) = [k \in 1..blocks[h].bytes |-> v]
<1> DEFINE b == blocks[h]
           i == b.region
           d == [c \in DOMAIN regions[i].data |->
                   IF c \in Cells(b) THEN v ELSE regions[i].data[c]]
<1>1. /\ regions \in Seq(Region) /\ DOMAIN regions = 1..Len(regions)
      /\ \A g \in DOMAIN blocks :
            blocks[g] \in [region : DOMAIN regions, first : Nat, bytes : Nat]
  BY DEF ArenaInv, TypeOK
<1>2. i \in 1..Len(regions) /\ b.region = i /\ b.first \in Nat /\ b.bytes \in Nat
  BY <1>1
<1>3. Cells(b) \subseteq DOMAIN regions[i].data
  BY InBounds
<1>4. regions[i].data \in Seq(Value)
  <2>1. regions[i] \in Region  BY <1>1, <1>2
  <2> QED  BY <2>1 DEF Region
<1>5. d \in Seq(Value) /\ Len(d) = Len(regions[i].data)
  <2>1. \A c \in 1..Len(regions[i].data) : d[c] \in Value
    BY <1>4
  <2>2. DOMAIN d = 1..Len(regions[i].data) /\ Len(regions[i].data) \in Nat
    BY <1>4
  <2>3. d = [c \in DOMAIN d |-> d[c]]
    OBVIOUS
  <2> HIDE DEF d
  <2>4. d \in [1..Len(regions[i].data) -> Value]
    BY <2>1, <2>2, <2>3
  <2> QED  BY <2>2, <2>4
<1>6. new = [regions EXCEPT ![i].data = d]
  BY <1>2 DEF Written
<1>7. \A c \in DOMAIN regions[i].data :
        d[c] = IF c \in Cells(b) THEN v ELSE regions[i].data[c]
  OBVIOUS
<1> HIDE DEF d, i, b
<1>8. /\ new \in Seq(Region) /\ Len(new) = Len(regions) /\ new[i].data = d
      /\ \A j \in 1..Len(regions) :
           /\ new[j].count = regions[j].count
           /\ new[j].capacity = regions[j].capacity
           /\ Len(new[j].data) = Len(regions[j].data)
           /\ j # i => new[j] = regions[j]
  <2>1. regions \in Seq(Region) /\ i \in 1..Len(regions)
    BY <1>1, <1>2
  <2> QED  BY <1>5, <1>6, <2>1, DataReplaced
<1>9. ASSUME NEW g \in DOMAIN blocks \ {h}
      PROVE  Contents(new, blocks[g]) = Contents(regions, blocks[g])
  <2> DEFINE bg == blocks[g]
  <2>1. bg.region \in 1..Len(regions) /\ bg.first \in Nat /\ bg.bytes \in Nat
    BY <1>1
  <2>2. ASSUME NEW c \in Cells(bg)
        PROVE  new[bg.region].data[c] = regions[bg.region].data[c]
    <3>1. CASE bg.region # i
      BY <1>8, <2>1, <3>1
    <3>2. CASE bg.region = i
      <4>1. c \in DOMAIN regions[i].data
        BY <3>2, InBounds
      <4>2. c \notin Cells(b)
        BY <1>2, <3>2, Disjoint DEF b
      <4> QED  BY <1>7, <1>8, <3>2, <4>1, <4>2
    <3> QED  BY <3>1, <3>2
  <2> QED  BY <2>1, <2>2, SameContents
<1>10. Contents(new, b) = [k \in 1..b.bytes |-> v]
  <2>1. ASSUME NEW k \in 1..b.bytes
        PROVE  new[i].data[Bytes(b.first) + k] = v
    <3>1. Bytes(b.first) \in Nat
      BY <1>2, BytesType
    <3>2. Bytes(b.first) + k \in Cells(b)
      BY <1>2, <3>1 DEF Cells
    <3> QED  BY <1>3, <1>7, <1>8, <3>2
  <2> QED  BY <1>2, <2>1 DEF Contents
<1> QED  BY <1>8, <1>9, <1>10 DEF b

-----------------------------------------------------------------------------
(* The steps keep the invariant *)

\* Allocation with arena_alloc.
LEMMA AllocKeepsInv ==
  ASSUME ArenaInv, NEW h \in Handle, NEW n \in Nat, Alloc(h, n)
  PROVE  ArenaInv'
<1>1. PICK i \in 1..MaxRegions :
        /\ Target(Words(n), i)
        /\ regions' = Cut(Words(n), i)
        /\ end' = i
        /\ blocks' = [g \in DOMAIN blocks \cup {h} |->
                        IF g = h THEN Block(i, First(i), n) ELSE blocks[g]]
  BY DEF Alloc
<1>2. /\ DOMAIN blocks' = DOMAIN blocks \cup {h}
      /\ blocks'[h] = Block(i, First(i), n)
      /\ \A g \in DOMAIN blocks \ {h} : blocks'[g] = blocks[g]
  BY <1>1
<1>3. Words(n) \in Nat
  BY WordsType
<1>4. regions' \in Seq(Region) /\ Len(regions') = Len(Cut(Words(n), i))
  BY <1>1, <1>3, CutRegions
<1> QED  BY <1>1, <1>2, <1>4, PlacingKeepsInv

\* arena_realloc to a larger size.
LEMMA GrowKeepsInv ==
  ASSUME ArenaInv, NEW h \in Handle, NEW n \in Nat, Grow(h, n)
  PROVE  ArenaInv'
<1>1. h \in DOMAIN blocks /\ n > blocks[h].bytes
  BY DEF Grow
<1>2. PICK i \in 1..MaxRegions :
        /\ Target(Words(n), i)
        /\ regions' = Copied(Cut(Words(n), i), blocks[h], Block(i, First(i), n))
        /\ end' = i
        /\ blocks' = [blocks EXCEPT ![h] = Block(i, First(i), n)]
  BY DEF Grow
<1>3. /\ DOMAIN blocks' = DOMAIN blocks \cup {h}
      /\ blocks'[h] = Block(i, First(i), n)
      /\ \A g \in DOMAIN blocks \ {h} : blocks'[g] = blocks[g]
  BY <1>1, <1>2
<1>4. /\ regions' \in Seq(Region) /\ Len(regions') = Len(Cut(Words(n), i))
      /\ \A j \in 1..Len(regions') :
           /\ regions'[j].count = Cut(Words(n), i)[j].count
           /\ regions'[j].capacity = Cut(Words(n), i)[j].capacity
           /\ Len(regions'[j].data) = Len(Cut(Words(n), i)[j].data)
  BY <1>1, <1>2, GrowEffect
<1> QED  BY <1>2, <1>3, <1>4, PlacingKeepsInv

\* arena_realloc to a smaller size: the block gives up words at its end.
LEMMA ShrinkKeepsInv ==
  ASSUME ArenaInv, NEW h \in Handle, NEW n \in Nat, Shrink(h, n)
  PROVE  ArenaInv'
<1>1. /\ h \in DOMAIN blocks /\ n <= blocks[h].bytes
      /\ blocks' = [blocks EXCEPT ![h].bytes = n]
      /\ regions' = regions /\ end' = end
  BY DEF Shrink
<1>2. \A g \in DOMAIN blocks :
        blocks[g] \in [region : DOMAIN regions, first : Nat, bytes : Nat]
  BY DEF ArenaInv, TypeOK
<1>3. /\ DOMAIN blocks' = DOMAIN blocks
      /\ \A g \in DOMAIN blocks :
           /\ blocks'[g] \in [region : DOMAIN regions, first : Nat, bytes : Nat]
           /\ blocks'[g].region = blocks[g].region
           /\ blocks'[g].first = blocks[g].first
           /\ blocks'[g].bytes <= blocks[g].bytes
  BY <1>1, <1>2
<1>4. ASSUME NEW g \in DOMAIN blocks
      PROVE  /\ Words(blocks'[g].bytes) <= Words(blocks[g].bytes)
             /\ Words(blocks'[g].bytes) \in Nat /\ Words(blocks[g].bytes) \in Nat
             /\ blocks[g].first \in Nat /\ regions[blocks[g].region].count \in Nat
  <2>1. blocks'[g].bytes \in Nat /\ blocks[g].bytes \in Nat
    BY <1>2, <1>3
  <2>2. regions[blocks[g].region] \in Region
    BY <1>2 DEF ArenaInv, TypeOK
  <2>3. regions[blocks[g].region].count \in Nat
    BY <2>2 DEF Region
  <2> QED  BY <1>2, <1>3, <2>1, <2>3, WordsMonotonic, WordsType
<1>5. TypeOK'
  BY <1>1, <1>3 DEF ArenaInv, TypeOK
<1>6. Whole(regions')
  BY <1>1 DEF ArenaInv
<1>7. BlocksPlaced'
  BY <1>1, <1>3, <1>4 DEF ArenaInv, BlocksPlaced
<1>8. BlocksApart'
  BY <1>3, <1>4 DEF ArenaInv, BlocksApart
<1> QED  BY <1>5, <1>6, <1>7, <1>8 DEF ArenaInv

\* A write changes data only.
LEMMA FillKeepsInv ==
  ASSUME ArenaInv, NEW h \in Handle, NEW v \in Value, Fill(h, v)
  PROVE  ArenaInv'
<1>1. /\ h \in DOMAIN blocks /\ end' = end /\ blocks' = blocks
      /\ regions' = Written(regions, blocks[h], v)
  BY DEF Fill
<1>2. /\ regions' \in Seq(Region) /\ Len(regions') = Len(regions)
      /\ \A j \in 1..Len(regions) :
           /\ regions'[j].count = regions[j].count
           /\ regions'[j].capacity = regions[j].capacity
           /\ Len(regions'[j].data) = Len(regions[j].data)
  BY <1>1, FillEffect
<1>3. /\ DOMAIN regions = 1..Len(regions) /\ DOMAIN regions' = 1..Len(regions)
      /\ regions = <<>> <=> regions' = <<>>
  BY <1>2 DEF ArenaInv, TypeOK
<1>4. TypeOK'
  BY <1>1, <1>2, <1>3 DEF ArenaInv, TypeOK
<1>5. Whole(regions')
  BY <1>2, <1>3 DEF ArenaInv, Whole
<1>6. BlocksPlaced' /\ BlocksApart'
  BY <1>1, <1>2, <1>3 DEF ArenaInv, TypeOK, BlocksPlaced, BlocksApart
<1> QED  BY <1>4, <1>5, <1>6 DEF ArenaInv

\* arena_reset empties the regions and keeps them.
LEMMA ResetKeepsInv == ASSUME ArenaInv, Reset PROVE ArenaInv'
<1> DEFINE emptied(i) == [regions[i] EXCEPT !.count = 0]
<1>1. /\ regions' = [i \in DOMAIN regions |-> emptied(i)]
      /\ end' = IF regions = <<>> THEN 0 ELSE 1
      /\ blocks' = <<>> /\ DOMAIN blocks' = {}
  BY DEF Reset
<1>2. regions \in Seq(Region) /\ DOMAIN regions = 1..Len(regions)
      /\ Len(regions) \in Nat
  BY DEF ArenaInv, TypeOK
<1>3. ASSUME NEW i \in DOMAIN regions
      PROVE
        /\ emptied(i) \in Region /\ emptied(i).count = 0
        /\ emptied(i).capacity = regions[i].capacity
        /\ emptied(i).data = regions[i].data
        /\ regions[i].capacity \in Nat
  <2>1. regions[i] \in Region
    BY <1>2
  <2> QED  BY <2>1 DEF Region
<1> HIDE DEF emptied
<1>4. regions' \in Seq(Region) /\ Len(regions') = Len(regions)
      /\ \A i \in DOMAIN regions : regions'[i] = emptied(i)
  BY <1>1, <1>2, <1>3
<1>5. regions' = <<>> <=> regions = <<>>
  BY <1>2, <1>4
<1>6. TypeOK'
  BY <1>1, <1>2, <1>4, <1>5 DEF TypeOK
<1>7. Whole(regions')
  BY <1>1, <1>2, <1>3, <1>4 DEF ArenaInv, Whole
<1>8. BlocksPlaced' /\ BlocksApart'
  BY <1>1 DEF BlocksPlaced, BlocksApart
<1> QED  BY <1>6, <1>7, <1>8 DEF ArenaInv

\* arena_free returns to the initial state.
LEMMA NothingAllocated ==
  ASSUME regions = <<>>, end = 0, blocks = <<>> PROVE ArenaInv
<1>1. regions \in Seq(Region) /\ Len(regions) = 0 /\ DOMAIN regions = {}
      /\ DOMAIN blocks = {}
  OBVIOUS
<1> QED  BY <1>1 DEF ArenaInv, TypeOK, Whole, BlocksPlaced, BlocksApart

LEMMA StepKeepsInv == ArenaInv /\ [Next]_vars => ArenaInv'
<1> SUFFICES ASSUME ArenaInv, [Next]_vars PROVE ArenaInv'
  OBVIOUS
<1>1. ASSUME NEW h \in Handle, NEW n \in Sizes, Alloc(h, n) PROVE ArenaInv'
  BY <1>1, AllocKeepsInv, ArenaAssumption
<1>2. ASSUME NEW h \in Handle, NEW n \in Sizes, Shrink(h, n) PROVE ArenaInv'
  BY <1>2, ShrinkKeepsInv, ArenaAssumption
<1>3. ASSUME NEW h \in Handle, NEW n \in Sizes, Grow(h, n) PROVE ArenaInv'
  BY <1>3, GrowKeepsInv, ArenaAssumption
<1>4. ASSUME NEW h \in Handle, NEW v \in Value, Fill(h, v) PROVE ArenaInv'
  BY <1>4, FillKeepsInv
<1>5. CASE Reset
  BY <1>5, ResetKeepsInv
<1>6. CASE Free
  <2>1. ((regions = <<>> /\ end = 0 /\ blocks = <<>>) => ArenaInv)'
    BY NothingAllocated, PTL
  <2> QED  BY <1>6, <2>1 DEF Free
<1>7. CASE UNCHANGED vars
  BY <1>7 DEF vars, ArenaInv, TypeOK, Whole, BlocksPlaced, BlocksApart
<1> QED  BY <1>1, <1>2, <1>3, <1>4, <1>5, <1>6, <1>7 DEF Next

\* In every state an arena can be in, the invariant holds.
THEOREM ArenaInvariant == Spec => []ArenaInv
<1>1. Init => ArenaInv
  BY NothingAllocated DEF Init
<1> QED  BY <1>1, StepKeepsInv, PTL DEF Spec

-----------------------------------------------------------------------------
(* Safety *)

\* The state has its type, and a->end is NULL exactly when a->begin is.
THEOREM TypeCorrect == Spec => []TypeOK
<1>1. ArenaInv => TypeOK  BY DEF ArenaInv
<1> QED  BY <1>1, ArenaInvariant, PTL

\* No block reaches outside its region, whatever sizes are asked for.
THEOREM BoundsCorrect == Spec => []BlocksInBounds
<1>1. ArenaInv => BlocksInBounds
  BY InBounds DEF BlocksInBounds
<1> QED  BY <1>1, ArenaInvariant, PTL

\* No two blocks share a byte.
THEOREM DisjointCorrect == Spec => []BlocksDisjoint
<1>1. ArenaInv => BlocksDisjoint
  BY Disjoint DEF BlocksDisjoint
<1> QED  BY <1>1, ArenaInvariant, PTL

-----------------------------------------------------------------------------
(* Refinement *)

store == [h \in DOMAIN blocks |-> Contents(regions, blocks[h])]

\* A new block takes nothing from the others.
LEMMA AllocAcquires ==
  ASSUME ArenaInv, NEW h \in Handle, NEW n \in Nat, Alloc(h, n)
  PROVE  Store!Acquire(h)
<1>1. h \notin DOMAIN blocks
  BY DEF Alloc
<1>2. PICK i \in 1..MaxRegions :
        /\ Target(Words(n), i)
        /\ regions' = Cut(Words(n), i)
        /\ blocks' = [g \in DOMAIN blocks \cup {h} |->
                        IF g = h THEN Block(i, First(i), n) ELSE blocks[g]]
  BY DEF Alloc
<1>3. Words(n) \in Nat
  BY WordsType
<1>4. \A j \in DOMAIN regions : regions'[j].data = regions[j].data
  BY <1>2, <1>3, CutRegions
<1>5. ASSUME NEW g \in DOMAIN blocks
      PROVE  /\ blocks'[g] = blocks[g]
             /\ Contents(regions', blocks[g]) = Contents(regions, blocks[g])
  <2>1. blocks[g] \in [region : DOMAIN regions, first : Nat, bytes : Nat]
    BY DEF ArenaInv, TypeOK
  <2>2. regions'[blocks[g].region].data = regions[blocks[g].region].data
    BY <1>4, <2>1
  <2> QED  BY <1>1, <1>2, <2>2 DEF Contents
<1>6. DOMAIN store = DOMAIN blocks /\ DOMAIN store' = DOMAIN blocks \cup {h}
  BY <1>2 DEF store
<1>7. \A g \in DOMAIN blocks : store'[g] = store[g]
  BY <1>2, <1>5 DEF store
<1> QED  BY <1>1, <1>6, <1>7 DEF Store!Acquire, Store!Kept, store

\* A block that grows takes its contents along.
LEMMA GrowResizes ==
  ASSUME ArenaInv, NEW h \in Handle, NEW n \in Nat, Grow(h, n)
  PROVE  Store!Resize(h)
<1>1. h \in DOMAIN blocks /\ n > blocks[h].bytes /\ blocks[h].bytes \in Nat
  BY DEF Grow, ArenaInv, TypeOK
<1>2. PICK i \in 1..MaxRegions :
        /\ Target(Words(n), i)
        /\ regions' = Copied(Cut(Words(n), i), blocks[h], Block(i, First(i), n))
        /\ blocks' = [blocks EXCEPT ![h] = Block(i, First(i), n)]
  BY DEF Grow
<1>3. /\ DOMAIN blocks' = DOMAIN blocks
      /\ blocks'[h] = Block(i, First(i), n)
      /\ \A g \in DOMAIN blocks \ {h} : blocks'[g] = blocks[g]
  BY <1>1, <1>2
<1>4. /\ \A g \in DOMAIN blocks \ {h} :
           Contents(regions', blocks[g]) = Contents(regions, blocks[g])
      /\ \A k \in 1..blocks[h].bytes :
           Contents(regions', blocks'[h])[k] = Contents(regions, blocks[h])[k]
  BY <1>1, <1>2, <1>3, GrowEffect
<1>5. DOMAIN store = DOMAIN blocks /\ DOMAIN store' = DOMAIN blocks
  BY <1>3 DEF store
<1>6. \A g \in DOMAIN blocks \ {h} : store'[g] = store[g]
  BY <1>3, <1>4 DEF store
<1>7. DOMAIN store[h] = 1..blocks[h].bytes
  BY <1>1 DEF store, Contents
<1>8. \A k \in DOMAIN store[h] : store'[h][k] = store[h][k]
  BY <1>1, <1>3, <1>4, <1>7 DEF store
<1> QED  BY <1>1, <1>5, <1>6, <1>8 DEF Store!Resize, Store!Kept, store

\* A block that shrinks keeps the start of its contents.
LEMMA ShrinkResizes ==
  ASSUME ArenaInv, NEW h \in Handle, NEW n \in Nat, Shrink(h, n)
  PROVE  Store!Resize(h)
<1>1. /\ h \in DOMAIN blocks /\ n <= blocks[h].bytes
      /\ blocks' = [blocks EXCEPT ![h].bytes = n]
      /\ regions' = regions
      /\ blocks[h] \in [region : DOMAIN regions, first : Nat, bytes : Nat]
  BY DEF Shrink, ArenaInv, TypeOK
<1>2. /\ DOMAIN blocks' = DOMAIN blocks
      /\ \A g \in DOMAIN blocks \ {h} : blocks'[g] = blocks[g]
      /\ blocks'[h].region = blocks[h].region
      /\ blocks'[h].first = blocks[h].first /\ blocks'[h].bytes = n
  BY <1>1
<1>3. DOMAIN store = DOMAIN blocks /\ DOMAIN store' = DOMAIN blocks
  BY <1>2 DEF store
<1>4. \A g \in DOMAIN blocks \ {h} : store'[g] = store[g]
  BY <1>1, <1>2 DEF store
<1>5. \A k \in DOMAIN store[h] \cap DOMAIN store'[h] : store'[h][k] = store[h][k]
  BY <1>1, <1>2 DEF store, Contents
<1> QED  BY <1>1, <1>3, <1>4, <1>5 DEF Store!Resize, Store!Kept, store

\* A write is a write.
LEMMA FillFills ==
  ASSUME ArenaInv, NEW h \in Handle, NEW v \in Value, Fill(h, v)
  PROVE  Store!Fill(h, v)
<1>1. /\ h \in DOMAIN blocks /\ blocks' = blocks
      /\ regions' = Written(regions, blocks[h], v)
  BY DEF Fill
<1>2. /\ \A g \in DOMAIN blocks \ {h} :
           Contents(regions', blocks[g]) = Contents(regions, blocks[g])
      /\ Contents(regions', blocks[h]) = [k \in 1..blocks[h].bytes |-> v]
  BY <1>1, FillEffect
<1>3. DOMAIN store = DOMAIN blocks /\ DOMAIN store' = DOMAIN blocks
  BY <1>1 DEF store
<1>4. \A g \in DOMAIN blocks \ {h} : store'[g] = store[g]
  BY <1>1, <1>2 DEF store
<1>5. DOMAIN store[h] = 1..blocks[h].bytes
  BY <1>1 DEF store, Contents
<1>6. store'[h] = [k \in DOMAIN store[h] |-> v]
  BY <1>1, <1>2, <1>5 DEF store
<1> QED  BY <1>1, <1>3, <1>4, <1>6 DEF Store!Fill, Store!Kept, store

\* The arena implements BlockStore: a block keeps its contents through every
\* allocation, reallocation and write that is not to itself.
THEOREM ArenaImplementsStore == Spec => StoreSpec
<1>1. Init => Store!Init
  BY DEF Init, Store!Init
<1>2. ArenaInv /\ [Next]_vars => [Store!Next]_store
  <2> SUFFICES ASSUME ArenaInv, [Next]_vars
               PROVE  Store!Next \/ UNCHANGED store
    OBVIOUS
  <2>1. ASSUME NEW h \in Handle, NEW n \in Sizes, Alloc(h, n)
        PROVE  Store!Next
    BY <2>1, AllocAcquires, ArenaAssumption DEF Store!Next
  <2>2. ASSUME NEW h \in Handle, NEW n \in Sizes, Shrink(h, n)
        PROVE  Store!Next
    BY <2>2, ShrinkResizes, ArenaAssumption DEF Store!Next
  <2>3. ASSUME NEW h \in Handle, NEW n \in Sizes, Grow(h, n)
        PROVE  Store!Next
    BY <2>3, GrowResizes, ArenaAssumption DEF Store!Next
  <2>4. ASSUME NEW h \in Handle, NEW v \in Value, Fill(h, v)
        PROVE  Store!Next
    BY <2>4, FillFills DEF Store!Next
  <2>5. CASE Reset \/ Free
    BY <2>5 DEF Reset, Free, Store!Next, Store!ReleaseAll
  <2>6. CASE UNCHANGED vars
    BY <2>6 DEF vars, store
  <2> QED  BY <2>1, <2>2, <2>3, <2>4, <2>5, <2>6 DEF Next
<1> QED  BY <1>1, <1>2, ArenaInvariant, PTL DEF Spec, StoreSpec, Store!Spec, store

-----------------------------------------------------------------------------
(* Traces *)

\* Where the search for room starts after k allocations.
From(t, k) == IF k = 0 THEN 1 ELSE t[k]

\* Allocations of these sizes, out of empty regions of these capacities. The
\* k-th goes to region t[k], and c[k] counts the words cut from each region
\* then: it is the first region, from that of the one before on, with room.
Trace(sizes, caps, t, c) ==
  /\ t \in [1..Len(sizes) -> DOMAIN caps]
  /\ c \in [0..Len(sizes) -> [DOMAIN caps -> Nat]]
  /\ \A j \in DOMAIN caps : c[0][j] = 0
  /\ \A k \in 1..Len(sizes) :
       /\ \A j \in DOMAIN caps :
            /\ c[k][j] = c[k - 1][j] + IF j = t[k] THEN Words(sizes[k]) ELSE 0
            /\ From(t, k - 1) <= j /\ j < t[k] =>
                 c[k - 1][j] + Words(sizes[k]) > caps[j]
       /\ c[k][t[k]] <= caps[t[k]]
       /\ From(t, k - 1) <= t[k]

\* The arena is where the trace is after k allocations.
Reached(caps, t, c, k) ==
  /\ DOMAIN caps = DOMAIN regions
  /\ \A j \in DOMAIN regions : /\ regions[j].capacity = caps[j]
                               /\ regions[j].count = c[k][j]
  /\ regions # <<>> => end = From(t, k)

\* What has been done since the last reset, in one trace.
Epoch ==
  \E caps \in Seq(Nat) : \E t, c :
    Trace(work, caps, t, c) /\ Reached(caps, t, c, Len(work))

\* What was done before it: the arena follows that trace while the work is the
\* same.
Following ==
  \E caps \in Seq(Nat) : \E t, c :
    /\ Len(caps) = held /\ Trace(before, caps, t, c)
    /\ IsPrefix(work, before) => Reached(caps, t, c, Len(work))

ReplayInv ==
  /\ ArenaInv
  /\ work \in Seq(Sizes) /\ before \in Seq(Sizes) /\ held \in Nat
  /\ Epoch
  /\ Following

-----------------------------------------------------------------------------
(* Facts about traces *)

\* Regions from which nothing has been cut are the end of an empty trace.
LEMMA EmptyTrace ==
  ASSUME NEW caps \in Seq(Nat)
  PROVE  Trace(<<>>, caps, <<>>, [k \in 0..0 |-> [j \in DOMAIN caps |-> 0]])
<1> DEFINE c == [k \in 0..0 |-> [j \in DOMAIN caps |-> 0]]
<1>1. Len(<<>>) = 0 /\ 1..0 = {} /\ DOMAIN caps = 1..Len(caps)
  OBVIOUS
<1>2. c \in [0..0 -> [DOMAIN caps -> Nat]] /\ \A j \in DOMAIN caps : c[0][j] = 0
  OBVIOUS
<1>3. <<>> \in [1..0 -> DOMAIN caps]
  OBVIOUS
<1> QED  BY <1>1, <1>2, <1>3 DEF Trace

\* After m allocations n bytes go to region i, a region of the trace or a new
\* one; "more" and "cut" are the capacities and the counts then.
Extends(caps, t, c, m, n, i, more, cut) ==
  /\ i \in DOMAIN more
  /\ Len(more) = IF i \in DOMAIN caps THEN Len(caps) ELSE Len(caps) + 1
  /\ \A j \in DOMAIN caps :
       /\ more[j] = caps[j]
       /\ cut[j] = c[m][j] + IF j = i THEN Words(n) ELSE 0
       /\ From(t, m) <= j /\ j < i => c[m][j] + Words(n) > caps[j]
  /\ i \notin DOMAIN caps => cut[i] = Words(n)
  /\ cut[i] <= more[i]
  /\ From(t, m) <= i

\* A trace of these sizes that ends at region i with these counts.
EndsAt(sizes, caps, i, cut) ==
  \E t, c : /\ Trace(sizes, caps, t, c)
            /\ From(t, Len(sizes)) = i /\ c[Len(sizes)] = cut

\* A trace goes on with one allocation more.
LEMMA TraceExtended ==
  ASSUME NEW sizes \in Seq(Nat), NEW n \in Nat, NEW caps \in Seq(Nat),
         NEW t, NEW c, Trace(sizes, caps, t, c),
         NEW more \in Seq(Nat), NEW cut \in [DOMAIN more -> Nat],
         NEW i, Extends(caps, t, c, Len(sizes), n, i, more, cut)
  PROVE  EndsAt(Append(sizes, n), more, i, cut)
<1> DEFINE m == Len(sizes)
           longer == Append(sizes, n)
           old(k) == [j \in DOMAIN more |-> IF j \in DOMAIN caps THEN c[k][j] ELSE 0]
           t2 == [k \in 1..(m + 1) |-> IF k = m + 1 THEN i ELSE t[k]]
           c2 == [k \in 0..(m + 1) |-> IF k = m + 1 THEN cut ELSE old(k)]
<1>1. /\ longer \in Seq(Nat) /\ Len(longer) = m + 1 /\ longer[m + 1] = n
      /\ \A k \in 1..m : longer[k] = sizes[k]
      /\ m \in Nat
  BY AppendProperties
<1>2. /\ DOMAIN caps = 1..Len(caps) /\ DOMAIN more = 1..Len(more)
      /\ Len(caps) \in Nat /\ Len(more) \in Nat
      /\ DOMAIN caps \subseteq DOMAIN more
      /\ \A j \in DOMAIN more : j \in DOMAIN caps \/ j = i
  BY DEF Extends
<1>3. /\ t \in [1..m -> DOMAIN caps]
      /\ c \in [0..m -> [DOMAIN caps -> Nat]]
      /\ \A j \in DOMAIN caps : c[0][j] = 0
  BY DEF Trace
<1>4. /\ t2 \in [1..(m + 1) -> DOMAIN more]
      /\ c2 \in [0..(m + 1) -> [DOMAIN more -> Nat]]
      /\ t2[m + 1] = i /\ \A k \in 1..m : t2[k] = t[k]
      /\ c2[m + 1] = cut
      /\ \A k \in 0..m : /\ \A j \in DOMAIN caps : c2[k][j] = c[k][j]
                         /\ \A j \in DOMAIN more \ DOMAIN caps : c2[k][j] = 0
  <2>1. \A k \in 1..(m + 1) : k = m + 1 \/ (k \in 1..m /\ k # m + 1)
    BY <1>1
  <2>2. \A k \in 0..(m + 1) : k = m + 1 \/ (k \in 0..m /\ k # m + 1)
    BY <1>1
  <2>3. \A k \in 0..m : k \in 0..(m + 1) /\ k # m + 1
    BY <1>1
  <2>4. \A k \in 1..m : k \in 1..(m + 1) /\ k # m + 1
    BY <1>1
  <2>5. m + 1 \in 1..(m + 1) /\ m + 1 \in 0..(m + 1)
    BY <1>1
  <2> HIDE DEF m
  <2>6. t2 \in [1..(m + 1) -> DOMAIN more]
    BY <1>2, <1>3, <2>1 DEF Extends
  <2>7. ASSUME NEW k \in 0..m
        PROVE  old(k) \in [DOMAIN more -> Nat]
    <3>1. c[k] \in [DOMAIN caps -> Nat]
      BY <1>3
    <3>2. \A j \in DOMAIN more : (IF j \in DOMAIN caps THEN c[k][j] ELSE 0) \in Nat
      BY <3>1
    <3> QED  BY <3>2
  <2>8. \A k \in 0..m : /\ \A j \in DOMAIN caps : old(k)[j] = c[k][j]
                        /\ \A j \in DOMAIN more \ DOMAIN caps : old(k)[j] = 0
    BY <1>2
  <2> HIDE DEF old
  <2>9. c2 \in [0..(m + 1) -> [DOMAIN more -> Nat]]
    BY <2>2, <2>7
  <2>10. \A k \in 0..m : c2[k] = old(k)
    BY <2>3
  <2> QED  BY <2>4, <2>5, <2>6, <2>8, <2>9, <2>10
<1>5. m = Len(sizes)
  OBVIOUS
<1>6. \A k \in 1..m :
        /\ \A j \in DOMAIN caps :
             /\ c[k][j] = c[k - 1][j] + IF j = t[k] THEN Words(sizes[k]) ELSE 0
             /\ From(t, k - 1) <= j /\ j < t[k] =>
                  c[k - 1][j] + Words(sizes[k]) > caps[j]
        /\ c[k][t[k]] <= caps[t[k]]
        /\ From(t, k - 1) <= t[k]
  BY DEF Trace
<1>7. /\ \A j \in DOMAIN caps :
           /\ more[j] = caps[j]
           /\ cut[j] = c[m][j] + IF j = i THEN Words(n) ELSE 0
           /\ From(t, m) <= j /\ j < i => c[m][j] + Words(n) > caps[j]
      /\ i \in DOMAIN more /\ cut[i] <= more[i] /\ From(t, m) <= i
      /\ i \notin DOMAIN caps => cut[i] = Words(n)
  BY DEF Extends
<1> HIDE DEF longer, t2, c2, m
<1>8. \A k \in 0..m : From(t2, k) = From(t, k)
  <2>1. \A k \in 0..m : k = 0 \/ k \in 1..m
    BY <1>1
  <2> QED  BY <1>4, <2>1 DEF From
<1>9. \A j \in DOMAIN more : c2[0][j] = 0
  <2>1. 0 \in 0..m
    BY <1>1
  <2>2. \A j \in DOMAIN caps : c2[0][j] = c[0][j]
    BY <1>4, <2>1
  <2>3. \A j \in DOMAIN more \ DOMAIN caps : c2[0][j] = 0
    BY <1>4, <2>1
  <2> QED  BY <1>3, <2>2, <2>3
<1>10. ASSUME NEW k \in 1..m
      PROVE  /\ \A j \in DOMAIN more :
                  /\ c2[k][j] = c2[k - 1][j]
                       + IF j = t2[k] THEN Words(longer[k]) ELSE 0
                  /\ From(t2, k - 1) <= j /\ j < t2[k] =>
                       c2[k - 1][j] + Words(longer[k]) > more[j]
             /\ c2[k][t2[k]] <= more[t2[k]]
             /\ From(t2, k - 1) <= t2[k]
  <2>1. k - 1 \in 0..m /\ k \in 0..m
    BY <1>1
  <2>2. t[k] \in DOMAIN caps /\ t2[k] = t[k] /\ longer[k] = sizes[k]
    BY <1>1, <1>3, <1>4
  <2>3. From(t2, k - 1) = From(t, k - 1)
    BY <1>8, <2>1
  <2>4. /\ \A j \in DOMAIN caps : c2[k][j] = c[k][j] /\ c2[k - 1][j] = c[k - 1][j]
        /\ \A j \in DOMAIN more \ DOMAIN caps : c2[k][j] = 0 /\ c2[k - 1][j] = 0
    BY <1>4, <2>1
  <2>5. ASSUME NEW j \in DOMAIN caps
        PROVE  /\ c2[k][j] = c2[k - 1][j]
                    + IF j = t2[k] THEN Words(longer[k]) ELSE 0
               /\ From(t2, k - 1) <= j /\ j < t2[k] =>
                    c2[k - 1][j] + Words(longer[k]) > more[j]
    <3>1. /\ c[k][j] = c[k - 1][j] + IF j = t[k] THEN Words(sizes[k]) ELSE 0
          /\ From(t, k - 1) <= j /\ j < t[k] =>
               c[k - 1][j] + Words(sizes[k]) > caps[j]
      BY <1>6
    <3>2. more[j] = caps[j]
      BY <1>7
    <3>3. c2[k][j] = c[k][j] /\ c2[k - 1][j] = c[k - 1][j]
      BY <2>4
    <3> QED  BY <2>2, <2>3, <3>1, <3>2, <3>3
  <2>6. ASSUME NEW j \in DOMAIN more \ DOMAIN caps
        PROVE  /\ c2[k][j] = c2[k - 1][j]
                    + IF j = t2[k] THEN Words(longer[k]) ELSE 0
               /\ ~(j < t2[k])
    <3>1. j # t[k] /\ ~(j < t[k])
      <4>1. j \in 1..Len(more) /\ ~(j \in 1..Len(caps)) /\ t[k] \in 1..Len(caps)
        BY <1>2, <2>2
      <4>2. Len(caps) \in Nat /\ Len(more) \in Nat
        BY <1>2
      <4>3. j \in Nat /\ j > Len(caps)
        BY <4>1, <4>2
      <4>4. t[k] \in Nat /\ t[k] <= Len(caps)
        BY <4>1, <4>2
      <4> QED  BY <4>2, <4>3, <4>4
    <3>2. c2[k][j] = 0 /\ c2[k - 1][j] = 0
      BY <2>4
    <3> QED  BY <2>2, <3>1, <3>2
  <2>7. c2[k][t2[k]] <= more[t2[k]] /\ From(t2, k - 1) <= t2[k]
    <3>1. c[k][t[k]] <= caps[t[k]] /\ From(t, k - 1) <= t[k]
      BY <1>6
    <3>2. c2[k][t[k]] = c[k][t[k]] /\ more[t[k]] = caps[t[k]]
      BY <1>7, <2>2, <2>4
    <3> QED  BY <2>2, <2>3, <3>1, <3>2
  <2> QED  BY <1>2, <2>5, <2>6, <2>7
<1>11. /\ \A j \in DOMAIN more :
            /\ c2[m + 1][j] = c2[m][j]
                 + IF j = t2[m + 1] THEN Words(longer[m + 1]) ELSE 0
            /\ From(t2, m) <= j /\ j < t2[m + 1] =>
                 c2[m][j] + Words(longer[m + 1]) > more[j]
       /\ c2[m + 1][t2[m + 1]] <= more[t2[m + 1]]
       /\ From(t2, m) <= t2[m + 1]
  <2>1. m \in 0..m
    BY <1>1
  <2>2. From(t2, m) = From(t, m)
    BY <1>8, <2>1
  <2>3. /\ \A j \in DOMAIN caps : c2[m][j] = c[m][j]
        /\ \A j \in DOMAIN more \ DOMAIN caps : c2[m][j] = 0
    BY <1>4, <2>1
  <2>4. ASSUME NEW j \in DOMAIN caps
        PROVE  /\ cut[j] = c2[m][j] + IF j = i THEN Words(n) ELSE 0
               /\ From(t2, m) <= j /\ j < i => c2[m][j] + Words(n) > more[j]
    BY <1>7, <2>2, <2>3
  <2>5. ASSUME NEW j \in DOMAIN more \ DOMAIN caps
        PROVE  /\ cut[j] = c2[m][j] + IF j = i THEN Words(n) ELSE 0
               /\ ~(j < i)
    <3>1. j = i /\ cut[j] = Words(n) /\ c2[m][j] = 0
      BY <1>2, <1>7, <2>3
    <3>2. Words(n) \in Nat
      BY WordsType
    <3> QED  BY <1>2, <3>1, <3>2
  <2>6. \A j \in DOMAIN more :
          /\ cut[j] = c2[m][j] + IF j = i THEN Words(n) ELSE 0
          /\ From(t2, m) <= j /\ j < i => c2[m][j] + Words(n) > more[j]
    BY <2>4, <2>5
  <2> QED  BY <1>1, <1>4, <1>7, <2>2, <2>6
<1>12. Trace(longer, more, t2, c2)
  <2>1. \A k \in 1..(m + 1) : k \in 1..m \/ (k = m + 1 /\ k - 1 = m)
    BY <1>1
  <2>2. ASSUME NEW k \in 1..(m + 1)
        PROVE  /\ \A j \in DOMAIN more :
                    /\ c2[k][j] = c2[k - 1][j]
                         + IF j = t2[k] THEN Words(longer[k]) ELSE 0
                    /\ From(t2, k - 1) <= j /\ j < t2[k] =>
                         c2[k - 1][j] + Words(longer[k]) > more[j]
               /\ c2[k][t2[k]] <= more[t2[k]]
               /\ From(t2, k - 1) <= t2[k]
    <3>1. CASE k \in 1..m
      BY <1>10, <3>1
    <3>2. CASE k = m + 1 /\ k - 1 = m
      BY <1>11, <3>2
    <3> QED  BY <2>1, <3>1, <3>2
  <2> QED  BY <1>1, <1>4, <1>9, <2>2 DEF Trace
<1>13. From(t2, m + 1) = i
  BY <1>1, <1>4 DEF From
<1> QED  BY <1>1, <1>4, <1>12, <1>13 DEF longer, EndsAt

-----------------------------------------------------------------------------
(* The steps *)

\* A block of n bytes goes to region i, the regions being as they are.
Placed(n, i) ==
  /\ Target(Words(n), i) /\ i \in 1..Len(regions')
  /\ regions' \in Seq(Region) /\ end' = i
  /\ Len(regions') = IF i \in DOMAIN regions THEN Len(regions) ELSE Len(regions) + 1
  /\ \A j \in DOMAIN regions :
       /\ regions'[j].capacity = regions[j].capacity
       /\ regions'[j].count = regions[j].count + IF j = i THEN Words(n) ELSE 0
  /\ i \notin DOMAIN regions => regions'[i].count = Words(n)
  /\ regions'[i].count <= regions'[i].capacity

\* What arena_alloc does to the regions, on its own and for arena_realloc.
LEMMA CutPlaces ==
  ASSUME ArenaInv, NEW n \in Nat, NEW i, Target(Words(n), i),
         regions' \in Seq(Region), Len(regions') = Len(Cut(Words(n), i)),
         \A j \in 1..Len(regions') :
           /\ regions'[j].count = Cut(Words(n), i)[j].count
           /\ regions'[j].capacity = Cut(Words(n), i)[j].capacity,
         end' = i
  PROVE  Placed(n, i)
<1> DEFINE size == Words(n)
           rs == Cut(size, i)
<1>1. size \in Nat /\ Target(size, i)
  BY WordsType
<1> HIDE DEF size
<1>2. /\ Len(regions) <= Len(rs) /\ i \in 1..Len(rs)
      /\ First(i) \in Nat /\ rs[i].count = First(i) + size
      /\ First(i) + size <= rs[i].capacity
      /\ i \in DOMAIN regions => First(i) = regions[i].count
      /\ Len(rs) # Len(regions) => i = Len(regions) + 1
      /\ Len(rs) <= Len(regions) + 1
      /\ \A j \in DOMAIN regions :
           /\ j # i => rs[j].count = regions[j].count
           /\ rs[j].capacity = regions[j].capacity
  BY <1>1, CutRegions
<1>3. /\ DOMAIN regions = 1..Len(regions) /\ Len(regions) \in Nat
      /\ \A j \in DOMAIN regions : regions[j].count \in Nat
  <2>1. regions \in Seq(Region)
    BY DEF ArenaInv, TypeOK
  <2>2. \A j \in DOMAIN regions : regions[j] \in Region
    BY <2>1
  <2> QED  BY <2>1, <2>2 DEF Region
<1>4. /\ Len(regions') = Len(rs)
      /\ \A j \in 1..Len(rs) : /\ regions'[j].count = rs[j].count
                               /\ regions'[j].capacity = rs[j].capacity
  BY DEF rs, size
<1> HIDE DEF rs
<1>5. Len(rs) \in Nat
  BY <1>4
<1>6. Len(regions') = IF i \in DOMAIN regions THEN Len(regions) ELSE Len(regions) + 1
  BY <1>2, <1>3, <1>4, <1>5
<1>7. ASSUME NEW j \in DOMAIN regions
      PROVE  /\ regions'[j].capacity = regions[j].capacity
             /\ regions'[j].count = regions[j].count + IF j = i THEN size ELSE 0
  <2>1. j \in 1..Len(rs)
    BY <1>2, <1>3, <1>5
  <2>2. regions'[j].count = rs[j].count /\ regions'[j].capacity = rs[j].capacity
    BY <1>4, <2>1
  <2> QED  BY <1>2, <1>3, <2>2
<1>8. i \notin DOMAIN regions => regions'[i].count = size
  <2>1. i \notin DOMAIN regions => First(i) = 0
    BY <1>2, <1>3, <1>5 DEF First
  <2>2. regions'[i].count = First(i) + size
    BY <1>2, <1>4
  <2> QED  BY <1>1, <2>1, <2>2
<1>9. regions'[i].count <= regions'[i].capacity
  BY <1>2, <1>4
<1> QED  BY <1>1, <1>2, <1>4, <1>6, <1>7, <1>8, <1>9 DEF Placed, size

\* arena_alloc and the arena_realloc that moves a block both place one.
LEMMA AllocPlaces ==
  ASSUME ArenaInv, NEW h \in Handle, NEW n \in Nat, Alloc(h, n)
  PROVE  \E i \in Nat : Placed(n, i)
<1>1. PICK i \in 1..MaxRegions :
        /\ Target(Words(n), i)
        /\ regions' = Cut(Words(n), i)
        /\ end' = i
  BY DEF Alloc
<1>2. Words(n) \in Nat
  BY WordsType
<1>3. Cut(Words(n), i) \in Seq(Region)
  BY <1>1, <1>2, CutRegions
<1>4. Placed(n, i)
  BY <1>1, <1>3, CutPlaces
<1>5. i \in Nat
  BY <1>1 DEF Target
<1> QED  BY <1>4, <1>5

LEMMA GrowPlaces ==
  ASSUME ArenaInv, NEW h \in Handle, NEW n \in Nat, Grow(h, n)
  PROVE  \E i \in Nat : Placed(n, i)
<1>1. h \in DOMAIN blocks /\ n > blocks[h].bytes
  BY DEF Grow
<1>2. PICK i \in 1..MaxRegions :
        /\ Target(Words(n), i)
        /\ regions' = Copied(Cut(Words(n), i), blocks[h], Block(i, First(i), n))
        /\ end' = i
  BY DEF Grow
<1>3. /\ regions' \in Seq(Region) /\ Len(regions') = Len(Cut(Words(n), i))
      /\ \A j \in 1..Len(regions') :
           /\ regions'[j].count = Cut(Words(n), i)[j].count
           /\ regions'[j].capacity = Cut(Words(n), i)[j].capacity
  BY <1>1, <1>2, GrowEffect
<1>4. Placed(n, i)
  BY <1>2, <1>3, CutPlaces
<1>5. i \in Nat
  BY <1>2 DEF Target
<1> QED  BY <1>4, <1>5

\* Sequences over the same indices are as long as each other.
LEMMA SameIndices ==
  ASSUME NEW S, NEW T, NEW s \in Seq(S), NEW u \in Seq(T), DOMAIN s = DOMAIN u
  PROVE  Len(s) = Len(u)
<1>1. /\ Len(s) \in Nat /\ Len(u) \in Nat
      /\ DOMAIN s = 1..Len(s) /\ DOMAIN u = 1..Len(u)
  OBVIOUS
<1>2. ~(Len(s) < Len(u))
  <2>1. Len(s) < Len(u) => Len(u) \in 1..Len(u) /\ Len(u) \notin 1..Len(s)
    BY <1>1
  <2> QED  BY <1>1, <2>1
<1>3. ~(Len(u) < Len(s))
  <2>1. Len(u) < Len(s) => Len(s) \in 1..Len(s) /\ Len(s) \notin 1..Len(u)
    BY <1>1
  <2> QED  BY <1>1, <2>1
<1>4. Len(s) \in Nat /\ Len(u) \in Nat
  OBVIOUS
<1> QED  BY <1>2, <1>3, <1>4

\* The block is the next one of the trace of what has been done since the
\* reset.
LEMMA EpochGrows ==
  ASSUME ReplayInv, NEW n \in Sizes, NEW i \in Nat, Placed(n, i),
         work' = Append(work, n)
  PROVE  Epoch'
<1>1. PICK caps \in Seq(Nat) : \E t, c :
        Trace(work, caps, t, c) /\ Reached(caps, t, c, Len(work))
  BY DEF ReplayInv, Epoch
<1>2. PICK t, c : Trace(work, caps, t, c) /\ Reached(caps, t, c, Len(work))
  BY <1>1
<1> DEFINE m == Len(work)
<1>3. n \in Nat /\ work \in Seq(Nat) /\ m \in Nat
  <2>1. work \in Seq(Sizes) /\ Sizes \subseteq Nat
    BY ArenaAssumption DEF ReplayInv
  <2>2. Len(work) \in Nat /\ \A k \in 1..Len(work) : work[k] \in Sizes
    BY <2>1
  <2>3. \A k \in 1..Len(work) : work[k] \in Nat
    BY <2>1, <2>2
  <2> QED  BY <2>1, <2>2, <2>3
<1>4. /\ DOMAIN caps = DOMAIN regions /\ Len(caps) = Len(regions)
      /\ DOMAIN regions = 1..Len(regions) /\ Len(regions) \in Nat
      /\ \A j \in DOMAIN regions : /\ regions[j].capacity = caps[j]
                                   /\ regions[j].count = c[m][j]
                                   /\ regions[j].count \in Nat
                                   /\ regions[j].capacity \in Nat
  <2>1. regions \in Seq(Region)
    BY DEF ReplayInv, ArenaInv, TypeOK
  <2>2. \A j \in DOMAIN regions : regions[j] \in Region
    BY <2>1
  <2>3. DOMAIN caps = 1..Len(caps) /\ DOMAIN regions = 1..Len(regions)
    BY <2>1
  <2>4. DOMAIN caps = DOMAIN regions
    BY <1>2 DEF Reached
  <2>5. Len(caps) = Len(regions)
    BY <2>1, <2>4, SameIndices
  <2> QED  BY <1>2, <2>1, <2>2, <2>3, <2>4, <2>5 DEF Reached, Region
<1>5. /\ regions' \in Seq(Region) /\ i \in 1..Len(regions')
      /\ Len(regions') = IF i \in DOMAIN regions THEN Len(regions) ELSE Len(regions) + 1
      /\ \A j \in DOMAIN regions :
           /\ regions'[j].capacity = regions[j].capacity
           /\ regions'[j].count = regions[j].count + IF j = i THEN Words(n) ELSE 0
      /\ i \notin DOMAIN regions => regions'[i].count = Words(n)
      /\ regions'[i].count <= regions'[i].capacity
      /\ end' = i
  BY DEF Placed
<1>6. /\ \A j \in 1..Len(regions') : /\ regions'[j].capacity \in Nat
                                     /\ regions'[j].count \in Nat
      /\ DOMAIN regions' = 1..Len(regions') /\ Len(regions') \in Nat
  <2>1. regions' \in Seq(Region)
    BY <1>5
  <2>2. DOMAIN regions' = 1..Len(regions') /\ Len(regions') \in Nat
    BY <2>1
  <2>3. ASSUME NEW j \in 1..Len(regions')
        PROVE  regions'[j].capacity \in Nat /\ regions'[j].count \in Nat
    <3>1. regions'[j] \in Region
      BY <2>1
    <3> QED  BY <3>1 DEF Region
  <2> QED  BY <2>2, <2>3
<1>7. PICK more \in Seq(Nat) :
        /\ DOMAIN more = 1..Len(regions') /\ Len(more) = Len(regions')
        /\ \A j \in 1..Len(regions') : more[j] = regions'[j].capacity
  <2> DEFINE f == [j \in 1..Len(regions') |-> regions'[j].capacity]
  <2>1. /\ f \in Seq(Nat) /\ DOMAIN f = 1..Len(regions') /\ Len(f) = Len(regions')
        /\ \A j \in 1..Len(regions') : f[j] = regions'[j].capacity
    BY <1>6
  <2> QED  BY <2>1
<1>8. PICK cut \in [DOMAIN more -> Nat] :
        \A j \in 1..Len(regions') : cut[j] = regions'[j].count
  <2> DEFINE f == [j \in 1..Len(regions') |-> regions'[j].count]
  <2>1. /\ f \in [1..Len(regions') -> Nat]
        /\ \A j \in 1..Len(regions') : f[j] = regions'[j].count
    BY <1>6
  <2> QED  BY <1>7, <2>1
<1> HIDE DEF m
<1>9. regions # <<>> => end = From(t, m)
  BY <1>2 DEF Reached, m
<1>10. ASSUME NEW j \in DOMAIN regions
       PROVE  From(t, m) <= j /\ j < i => c[m][j] + Words(n) > caps[j]
  <2>1. end = From(t, m)
    BY <1>4, <1>9
  <2>2. From(t, m) <= j /\ j < i => ~Room(j, Words(n))
    BY <2>1 DEF Placed, Target
  <2>3. Words(n) \in Nat
    BY <1>3, WordsType
  <2> QED  BY <1>4, <2>2, <2>3 DEF Room
<1>11. From(t, m) <= i
  <2>1. CASE regions = <<>>
    <3>1. m = 0
      <4>1. t \in [1..m -> DOMAIN caps]
        BY <1>2 DEF Trace, m
      <4>2. DOMAIN caps = {}
        BY <1>4, <2>1
      <4> QED  BY <1>3, <4>1, <4>2
    <3> QED  BY <1>5, <3>1 DEF From
  <2>2. CASE regions # <<>>
    <3>1. end = From(t, m) /\ end \in 0..Len(regions)
      BY <1>9, <2>2 DEF ReplayInv, ArenaInv, TypeOK
    <3>2. i <= Len(regions) => end <= i
      BY DEF Placed, Target
    <3> QED  BY <1>4, <3>1, <3>2
  <2> QED  BY <2>1, <2>2
<1>12. Len(more) = IF i \in DOMAIN caps THEN Len(caps) ELSE Len(caps) + 1
  BY <1>4, <1>5, <1>7
<1>13. ASSUME NEW j \in DOMAIN caps
       PROVE  /\ more[j] = caps[j]
              /\ cut[j] = c[m][j] + IF j = i THEN Words(n) ELSE 0
  <2>1. j \in DOMAIN regions /\ j \in 1..Len(regions')
    BY <1>4, <1>5, <1>6
  <2> QED  BY <1>4, <1>5, <1>7, <1>8, <2>1
<1>14. cut[i] <= more[i] /\ i \in DOMAIN more
  BY <1>5, <1>7, <1>8
<1>15. i \notin DOMAIN caps => cut[i] = Words(n)
  BY <1>4, <1>5, <1>8
<1>16. \A j \in DOMAIN caps :
         /\ more[j] = caps[j]
         /\ cut[j] = c[Len(work)][j] + IF j = i THEN Words(n) ELSE 0
         /\ From(t, Len(work)) <= j /\ j < i => c[Len(work)][j] + Words(n) > caps[j]
  BY <1>4, <1>10, <1>13 DEF m
<1>17. From(t, Len(work)) <= i
  BY <1>11 DEF m
<1>18. Extends(caps, t, c, Len(work), n, i, more, cut)
  BY <1>12, <1>14, <1>15, <1>16, <1>17 DEF Extends
<1>19. EndsAt(Append(work, n), more, i, cut)
  <2>1. Trace(work, caps, t, c)
    BY <1>2
  <2>2. n \in Nat /\ work \in Seq(Nat)
    BY <1>3
  <2> QED  BY <1>18, <2>1, <2>2, TraceExtended
<1>20. PICK t2, c2 : /\ Trace(work', more, t2, c2)
                     /\ From(t2, Len(work')) = i /\ c2[Len(work')] = cut
  BY <1>19 DEF EndsAt
<1>21. Reached(more, t2, c2, Len(work))'
  <2>1. /\ DOMAIN more = DOMAIN regions'
        /\ \A j \in DOMAIN regions' : /\ regions'[j].capacity = more[j]
                                      /\ regions'[j].count = cut[j]
    BY <1>6, <1>7, <1>8
  <2> QED  BY <1>5, <1>20, <2>1 DEF Reached
<1> QED  BY <1>20, <1>21 DEF Epoch

\* While the work is what it was before, the block goes where it went then:
\* only that region is the first with room for it.
LEMMA ReplayFollows ==
  ASSUME ReplayInv, NEW n \in Sizes, NEW i \in Nat, Placed(n, i),
         work' = Append(work, n), before' = before, held' = held
  PROVE  Following'
<1>1. PICK caps \in Seq(Nat) : \E t, c :
        /\ Len(caps) = held /\ Trace(before, caps, t, c)
        /\ IsPrefix(work, before) => Reached(caps, t, c, Len(work))
  BY DEF ReplayInv, Following
<1>2. PICK t, c : /\ Len(caps) = held /\ Trace(before, caps, t, c)
                  /\ IsPrefix(work, before) => Reached(caps, t, c, Len(work))
  BY <1>1
<1>3. ASSUME IsPrefix(work', before)
      PROVE  Reached(caps, t, c, Len(work))'
  <2> DEFINE m == Len(work)
             q == t[m + 1]
  <2>1. /\ work \in Seq(Sizes) /\ before \in Seq(Sizes)
        /\ m \in Nat /\ Len(work') = m + 1
    BY AppendProperties DEF ReplayInv
  <2>2. IsPrefix(work, before) /\ m < Len(before) /\ before[m + 1] = n
    BY <1>3, <2>1, AppendedPrefix
  <2>3. m + 1 \in 1..Len(before) /\ (m + 1) - 1 = m
    BY <2>1, <2>2
  <2>4. Reached(caps, t, c, m)
    BY <1>2, <2>2
  <2>5. /\ DOMAIN caps = DOMAIN regions
        /\ \A j \in DOMAIN regions : /\ regions[j].capacity = caps[j]
                                     /\ regions[j].count = c[m][j]
    BY <2>4 DEF Reached
  <2>6. /\ q \in DOMAIN caps
        /\ \A j \in DOMAIN caps :
             /\ c[m + 1][j] = c[m][j] + IF j = q THEN Words(n) ELSE 0
             /\ From(t, m) <= j /\ j < q => c[m][j] + Words(n) > caps[j]
        /\ c[m + 1][q] <= caps[q]
        /\ From(t, m) <= q
    BY <1>2, <2>2, <2>3 DEF Trace
  <2> HIDE DEF m, q
  <2>7. /\ regions \in Seq(Region) /\ DOMAIN regions = 1..Len(regions)
        /\ Len(regions) \in Nat
    BY DEF ReplayInv, ArenaInv, TypeOK
  <2>8. end = From(t, m)
    BY <2>4, <2>5, <2>6, <2>7 DEF Reached
  <2>9. Words(n) \in Nat
    BY ArenaAssumption, WordsType
  <2>10. \A j \in DOMAIN regions : regions[j].count \in Nat /\ regions[j].capacity \in Nat
    <3>1. \A j \in DOMAIN regions : regions[j] \in Region
      BY <2>7
    <3> QED  BY <3>1 DEF Region
  <2>11. Room(q, Words(n))
    BY <2>5, <2>6 DEF Room
  <2>12. \A j \in DOMAIN regions : end <= j /\ j < q => ~Room(j, Words(n))
    <3> SUFFICES ASSUME NEW j \in DOMAIN regions, end <= j, j < q
        PROVE  ~Room(j, Words(n))
      OBVIOUS
    <3>1. j \in DOMAIN caps /\ From(t, m) <= j
      BY <2>5, <2>8
    <3>2. c[m][j] + Words(n) > caps[j]
      BY <2>6, <3>1
    <3>3. regions[j].count + Words(n) > regions[j].capacity
      BY <2>5, <3>2
    <3> QED  BY <2>9, <2>10, <3>3 DEF Room
  <2>13. q \in 1..Len(regions) /\ end <= q
    BY <2>5, <2>6, <2>7, <2>8
  <2>14. i = q
    <3>1. /\ i <= Len(regions) => end <= i /\ Room(i, Words(n))
          /\ \A j \in DOMAIN regions : end <= j /\ j < i => ~Room(j, Words(n))
          /\ i \in 1..(Len(regions) + 1)
      BY DEF Placed, Target
    <3>2. ~(q < i)
      BY <2>5, <2>6, <2>11, <2>13, <3>1
    <3>3. ~(i < q)
      <4>1. i < q => i \in DOMAIN regions
        BY <2>7, <2>13, <3>1
      <4> QED  BY <2>7, <2>12, <3>1, <4>1
    <3> QED  BY <2>13, <3>2, <3>3
  <2>15. /\ Len(regions') = Len(regions) /\ DOMAIN regions' = 1..Len(regions')
         /\ end' = q
         /\ \A j \in DOMAIN regions :
              /\ regions'[j].capacity = regions[j].capacity
              /\ regions'[j].count = regions[j].count + IF j = q THEN Words(n) ELSE 0
    BY <2>5, <2>6, <2>14 DEF Placed
  <2>16. From(t, m + 1) = q
    BY <2>1 DEF From, q
  <2>17. /\ DOMAIN caps = DOMAIN regions'
         /\ \A j \in DOMAIN regions' : /\ regions'[j].capacity = caps[j]
                                       /\ regions'[j].count = c[m + 1][j]
    BY <2>5, <2>6, <2>7, <2>15
  <2> QED  BY <2>1, <2>15, <2>16, <2>17 DEF Reached
<1> QED  BY <1>2, <1>3 DEF Following

\* Regions with the same counts, and the same work, are in the same places of
\* the same traces.
LEMMA SameTraces ==
  ASSUME ReplayInv, UNCHANGED <<work, before, held>>, end' = end,
         DOMAIN regions' = DOMAIN regions, regions' = <<>> <=> regions = <<>>,
         \A j \in DOMAIN regions : /\ regions'[j].count = regions[j].count
                                   /\ regions'[j].capacity = regions[j].capacity
  PROVE  Epoch' /\ Following'
<1>1. ASSUME NEW caps, NEW t, NEW c, NEW k, Reached(caps, t, c, k)
      PROVE  Reached(caps, t, c, k)'
  BY <1>1 DEF Reached
<1>2. Epoch'
  <2>1. PICK caps \in Seq(Nat) : \E t, c :
          Trace(work, caps, t, c) /\ Reached(caps, t, c, Len(work))
    BY DEF ReplayInv, Epoch
  <2>2. PICK t, c : Trace(work, caps, t, c) /\ Reached(caps, t, c, Len(work))
    BY <2>1
  <2>3. Reached(caps, t, c, Len(work))'
    BY <1>1, <2>2 DEF Reached
  <2> QED  BY <2>2, <2>3 DEF Epoch
<1>3. Following'
  <2>1. PICK caps \in Seq(Nat) : \E t, c :
          /\ Len(caps) = held /\ Trace(before, caps, t, c)
          /\ IsPrefix(work, before) => Reached(caps, t, c, Len(work))
    BY DEF ReplayInv, Following
  <2>2. PICK t, c : /\ Len(caps) = held /\ Trace(before, caps, t, c)
                    /\ IsPrefix(work, before) => Reached(caps, t, c, Len(work))
    BY <2>1
  <2>3. IsPrefix(work', before') => Reached(caps, t, c, Len(work))'
    BY <1>1, <2>2 DEF Reached
  <2> QED  BY <2>2, <2>3 DEF Following
<1> QED  BY <1>2, <1>3

\* Without a region there is nothing to follow: the initial state, and the
\* state after arena_free.
LEMMA NothingToFollow ==
  ASSUME regions = <<>>, end = 0, blocks = <<>>,
         work = <<>>, before = <<>>, held = 0
  PROVE  ReplayInv
<1> DEFINE c == [k \in 0..0 |-> [j \in DOMAIN <<>> |-> 0]]
<1>1. <<>> \in Seq(Nat) /\ Len(<<>>) = 0 /\ <<>> \in Seq(Sizes)
  OBVIOUS
<1>2. Trace(<<>>, <<>>, <<>>, c)
  BY <1>1, EmptyTrace
<1> HIDE DEF c
<1>3. Reached(<<>>, <<>>, c, 0)
  BY DEF Reached
<1>4. Epoch
  BY <1>1, <1>2, <1>3 DEF Epoch
<1>5. Following
  BY <1>1, <1>2, <1>3 DEF Following
<1> QED  BY <1>1, <1>4, <1>5, NothingAllocated DEF ReplayInv

\* At a reset the trace of the work becomes the one to follow, from its start.
LEMMA ResetStartsAgain ==
  ASSUME ReplayInv, ReplayReset
  PROVE  Epoch' /\ Following'
<1>1. PICK caps \in Seq(Nat) : \E t, c :
        Trace(work, caps, t, c) /\ Reached(caps, t, c, Len(work))
  BY DEF ReplayInv, Epoch
<1>2. PICK t, c : Trace(work, caps, t, c) /\ Reached(caps, t, c, Len(work))
  BY <1>1
<1>3. /\ regions \in Seq(Region) /\ \A j \in DOMAIN regions : regions[j] \in Region
  BY DEF ReplayInv, ArenaInv, TypeOK
<1>4. DOMAIN caps = DOMAIN regions /\ \A j \in DOMAIN regions : regions[j].capacity = caps[j]
  BY <1>2 DEF Reached
<1>5. Len(caps) = Len(regions)
  BY <1>3, <1>4, SameIndices
<1>6. /\ DOMAIN regions' = DOMAIN regions
      /\ \A j \in DOMAIN regions : /\ regions'[j].count = 0
                                   /\ regions'[j].capacity = regions[j].capacity
      /\ regions' # <<>> => regions # <<>>
      /\ end' = IF regions = <<>> THEN 0 ELSE 1
      /\ work' = <<>> /\ before' = work /\ held' = Len(regions)
  <2>1. /\ regions' = [j \in DOMAIN regions |-> [regions[j] EXCEPT !.count = 0]]
        /\ end' = IF regions = <<>> THEN 0 ELSE 1
        /\ work' = <<>> /\ before' = work /\ held' = Len(regions)
    BY DEF ReplayReset, Reset
  <2>2. ASSUME NEW j \in DOMAIN regions
        PROVE  /\ [regions[j] EXCEPT !.count = 0].count = 0
               /\ [regions[j] EXCEPT !.count = 0].capacity = regions[j].capacity
    BY <1>3 DEF Region
  <2>3. regions = <<>> => regions' = <<>>
    <3>1. regions = <<>> => DOMAIN regions = {}
      OBVIOUS
    <3> QED  BY <2>1, <3>1
  <2> QED  BY <2>1, <2>2, <2>3
<1>7. Len(work') = 0 /\ 0 \in 0..Len(work)
  BY <1>6 DEF ReplayInv
<1>8. ASSUME NEW u, NEW d, \A j \in DOMAIN caps : d[0][j] = 0
      PROVE  Reached(caps, u, d, Len(work))'
  BY <1>4, <1>6, <1>7, <1>8 DEF Reached, From
<1>9. Following'
  <2>1. \A j \in DOMAIN caps : c[0][j] = 0
    BY <1>2 DEF Trace
  <2>2. Reached(caps, t, c, Len(work))'
    BY <1>8, <2>1
  <2>3. Len(caps) = held' /\ Trace(before', caps, t, c)
    BY <1>2, <1>5, <1>6
  <2> QED  BY <2>2, <2>3 DEF Following
<1>10. Epoch'
  <2>1. PICK d : d = [k \in 0..0 |-> [j \in DOMAIN caps |-> 0]]
    OBVIOUS
  <2>2. Trace(work', caps, <<>>, d)
    BY <1>6, <2>1, EmptyTrace
  <2>3. \A j \in DOMAIN caps : d[0][j] = 0
    BY <2>1
  <2>4. Reached(caps, <<>>, d, Len(work))'
    BY <1>8, <2>3
  <2> QED  BY <2>2, <2>4 DEF Epoch
<1> QED  BY <1>9, <1>10

-----------------------------------------------------------------------------
(* The theorems *)

\* Histories change nothing: the steps are steps of the arena.
LEMMA ReplaySteps == [ReplayNext]_<<vars, history>> => [Next]_vars
BY DEF ReplayNext, ReplayReset, ReplayFree, Next

LEMMA ReplayStepKeepsInv ==
  ReplayInv /\ [ReplayNext]_<<vars, history>> => ReplayInv'
<1> SUFFICES ASSUME ReplayInv, [ReplayNext]_<<vars, history>>
    PROVE  ReplayInv'
  OBVIOUS
<1>1. ArenaInv'
  BY ReplaySteps, StepKeepsInv DEF ReplayInv
<1>2. work \in Seq(Sizes) /\ before \in Seq(Sizes) /\ held \in Nat /\ ArenaInv
  BY DEF ReplayInv
<1>3. ASSUME NEW h \in Handle, NEW n \in Sizes, Alloc(h, n) \/ Grow(h, n), Work(n)
      PROVE  ReplayInv'
  <2>1. n \in Nat
    BY ArenaAssumption
  <2>2. PICK i \in Nat : Placed(n, i)
    BY <1>2, <1>3, <2>1, AllocPlaces, GrowPlaces
  <2>3. work' = Append(work, n) /\ before' = before /\ held' = held
    BY <1>3 DEF Work
  <2>4. Epoch' /\ Following'
    BY <2>2, <2>3, EpochGrows, ReplayFollows
  <2>5. work' \in Seq(Sizes)
    BY <1>2, <2>3
  <2> QED  BY <1>1, <1>2, <2>3, <2>4, <2>5 DEF ReplayInv
<1>4. ASSUME UNCHANGED history, end' = end,
             DOMAIN regions' = DOMAIN regions, regions' = <<>> <=> regions = <<>>,
             \A j \in DOMAIN regions :
               /\ regions'[j].count = regions[j].count
               /\ regions'[j].capacity = regions[j].capacity
      PROVE  ReplayInv'
  <2>1. work' = work /\ before' = before /\ held' = held
    BY <1>4 DEF history
  <2>2. Epoch' /\ Following'
    BY <1>4, <2>1, SameTraces
  <2> QED  BY <1>1, <1>2, <2>1, <2>2 DEF ReplayInv
<1>5. ASSUME NEW h \in Handle, NEW n \in Sizes, Shrink(h, n), UNCHANGED history
      PROVE  ReplayInv'
  BY <1>4, <1>5 DEF Shrink
<1>6. ASSUME NEW h \in Handle, NEW v \in Value, Fill(h, v), UNCHANGED history
      PROVE  ReplayInv'
  <2>1. h \in DOMAIN blocks /\ regions' = Written(regions, blocks[h], v) /\ end' = end
    BY <1>6 DEF Fill
  <2>2. /\ regions' \in Seq(Region) /\ Len(regions') = Len(regions)
        /\ \A j \in 1..Len(regions) :
             /\ regions'[j].count = regions[j].count
             /\ regions'[j].capacity = regions[j].capacity
    BY <1>2, <2>1, FillEffect
  <2>3. /\ DOMAIN regions = 1..Len(regions) /\ DOMAIN regions' = 1..Len(regions)
        /\ regions' = <<>> <=> regions = <<>>
    BY <1>2, <2>2 DEF ArenaInv, TypeOK
  <2> QED  BY <1>4, <1>6, <2>1, <2>2, <2>3
<1>7. CASE ReplayReset
  <2>1. Epoch' /\ Following'
    BY <1>7, ResetStartsAgain
  <2>2. /\ work' = <<>> /\ before' = work /\ held' = Len(regions)
        /\ Len(regions) \in Nat /\ <<>> \in Seq(Sizes)
    BY <1>2, <1>7 DEF ReplayReset, ArenaInv, TypeOK
  <2> QED  BY <1>1, <1>2, <2>1, <2>2 DEF ReplayInv
<1>8. CASE ReplayFree
  <2>1. ((regions = <<>> /\ end = 0 /\ blocks = <<>>
            /\ work = <<>> /\ before = <<>> /\ held = 0) => ReplayInv)'
    BY NothingToFollow, PTL
  <2> QED  BY <1>8, <2>1 DEF ReplayFree, Free
<1>9. CASE UNCHANGED <<vars, history>>
  BY <1>4, <1>9 DEF vars
<1> QED  BY <1>3, <1>5, <1>6, <1>7, <1>8, <1>9 DEF ReplayNext

\* In every state of an arena that is used again and again, its traces are
\* there.
THEOREM ReplayInvariant == ReplaySpec => []ReplayInv
<1>1. ReplayInit => ReplayInv
  BY NothingToFollow DEF ReplayInit, Init
<1> QED  BY <1>1, ReplayStepKeepsInv, PTL DEF ReplaySpec

\* A reset is worth it: the work that an arena has done once takes no new
\* region when it is done again (arena_reset, arena.h:196-203).
THEOREM ReplayCorrect == ReplaySpec => []ReplayNeedsNoMemory
<1>1. ReplayInv => ReplayNeedsNoMemory
  <2> SUFFICES ASSUME ReplayInv, IsPrefix(work, before)
      PROVE  Len(regions) = held
    BY DEF ReplayNeedsNoMemory
  <2>1. PICK caps \in Seq(Nat) : \E t, c :
          /\ Len(caps) = held /\ Trace(before, caps, t, c)
          /\ IsPrefix(work, before) => Reached(caps, t, c, Len(work))
    BY DEF ReplayInv, Following
  <2>2. DOMAIN caps = DOMAIN regions /\ Len(caps) = held
    BY <2>1 DEF Reached
  <2>3. regions \in Seq(Region)
    BY DEF ReplayInv, ArenaInv, TypeOK
  <2> QED  BY <2>2, <2>3, SameIndices
<1> QED  BY <1>1, ReplayInvariant, PTL

\* What is proved of the arena holds of the arena that is used again.
THEOREM ReplayIsArena == ReplaySpec => Spec
<1>1. ReplayInit => Init
  BY DEF ReplayInit
<1> QED  BY <1>1, ReplaySteps, PTL DEF ReplaySpec, Spec
=============================================================================
