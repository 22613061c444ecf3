------------------------ MODULE JsonLibrary_proofs ------------------------
(***************************************************************************)
(* Proofs about the JSON library. Its hash table is a map, whatever the    *)
(* names hash to. Its check for UTF-8 takes what the Unicode standard      *)
(* calls well formed, and a string that it writes it reads as it was,      *)
(* whatever bytes the string has.                                          *)
(***************************************************************************)
EXTENDS JsonObject, JsonString, SequenceLemmas

-----------------------------------------------------------------------------
(* Going round the cells *)

\* The k-th of m cells from h on.
Round(m, h, k) == IF h + k < m THEN h + k ELSE (h + k) - m

\* Going round from h, one passes c before one is at p.
Before(h, c, p) == IF h <= p THEN h <= c /\ c < p ELSE h <= c \/ c < p

\* A remainder is known by its multiple.
LEMMA RemainderIs ==
  ASSUME NEW m \in Nat \ {0}, NEW q \in Nat, NEW r \in 0..(m - 1)
  PROVE  (q * m + r) % m = r
OBVIOUS

LEMMA RemainderExists ==
  ASSUME NEW m \in Nat \ {0}, NEW x \in Nat
  PROVE  \E q \in Nat, r \in 0..(m - 1) : x = q * m + r /\ x % m = r
<1>1. x % m \in 0..(m - 1) /\ x \div m \in Nat
  OBVIOUS
<1>2. x = (x \div m) * m + (x % m)
  OBVIOUS
<1> QED  BY <1>1, <1>2, Zenon

LEMMA RoundIs ==
  ASSUME NEW m \in Nat \ {0}, NEW x \in Nat, NEW k \in 0..(m - 1)
  PROVE  /\ x % m \in 0..(m - 1)
         /\ (x + k) % m = Round(m, x % m, k)
<1>1. PICK q \in Nat, r \in 0..(m - 1) : x = q * m + r /\ x % m = r
  BY RemainderExists
<1>2. CASE r + k < m
  <2>1. x + k = q * m + (r + k) /\ r + k \in 0..(m - 1)
    BY <1>1, <1>2
  <2>2. (x + k) % m = r + k
    BY <2>1, RemainderIs
  <2> QED  BY <1>1, <1>2, <2>2 DEF Round
<1>3. CASE ~(r + k < m)
  <2>1. x + k = (q + 1) * m + ((r + k) - m) /\ (r + k) - m \in 0..(m - 1)
    BY <1>1, <1>3
  <2>2. PICK p \in Nat, s \in 0..(m - 1) : p = q + 1 /\ s = (r + k) - m
    BY <2>1
  <2>3. x + k = p * m + s
    BY <2>1, <2>2, Zenon
  <2>4. (p * m + s) % m = s
    BY RemainderIs
  <2>5. (x + k) % m = (r + k) - m
    BY <2>2, <2>3, <2>4, Zenon
  <2> QED  BY <1>1, <1>3, <2>5 DEF Round
<1> QED  BY <1>2, <1>3

\* Every cell is the k-th from h for one k, and those passed on the way to it are
\* the ones before.
LEMMA RoundReaches ==
  ASSUME NEW m \in Nat \ {0}, NEW h \in 0..(m - 1)
  PROVE  /\ \A k \in 0..(m - 1) : Round(m, h, k) \in 0..(m - 1)
         /\ \A c \in 0..(m - 1) : \E k \in 0..(m - 1) : c = Round(m, h, k)
         /\ \A j, k \in 0..(m - 1) :
               /\ Round(m, h, j) = Round(m, h, k) => j = k
               /\ Before(h, Round(m, h, j), Round(m, h, k)) <=> j < k
<1>1. \A k \in 0..(m - 1) : Round(m, h, k) \in 0..(m - 1)
  BY DEF Round
<1>2. ASSUME NEW c \in 0..(m - 1) PROVE \E k \in 0..(m - 1) : c = Round(m, h, k)
  <2>1. CASE c >= h
    <3>1. c - h \in 0..(m - 1) /\ c = Round(m, h, c - h)
      BY <2>1 DEF Round
    <3> QED  BY <3>1
  <2>2. CASE ~(c >= h)
    <3>1. (c - h) + m \in 0..(m - 1) /\ c = Round(m, h, (c - h) + m)
      BY <2>2 DEF Round
    <3> QED  BY <3>1
  <2> QED  BY <2>1, <2>2
<1>3. ASSUME NEW j \in 0..(m - 1), NEW k \in 0..(m - 1)
      PROVE  /\ Round(m, h, j) = Round(m, h, k) => j = k
             /\ Before(h, Round(m, h, j), Round(m, h, k)) <=> j < k
  BY DEF Round, Before
<1> QED  BY <1>1, <1>2, <1>3

-----------------------------------------------------------------------------
(* Tables *)

Cell(o) == 0..(o.capacity - 1)
Index(o) == 1..Len(o.items)
Home(o, n) == HashOf[n] % o.capacity

Item(m) == [name : Name, value : Value, cell_ix : 0..(m - 1), hash : Nat]

Shape(o) ==
  /\ o = [capacity |-> o.capacity, cells |-> o.cells, items |-> o.items]
  /\ o.capacity \in Nat
  /\ o.cells \in [Cell(o) -> {OBJECT_INVALID_IX} \cup (Nat \ {0})]
  /\ o.items \in Seq(Item(o.capacity))

\* Items and the cells that are not free point at each other.
Linked(o) ==
  /\ \A i \in Index(o) : o.cells[o.items[i].cell_ix] = i
  /\ \A c \in Cell(o) : ~Free(o, c) => /\ o.cells[c] \in Index(o)
                                       /\ o.items[o.cells[c]].cell_ix = c

Named(o) ==
  /\ \A i \in Index(o) : o.items[i].hash = HashOf[o.items[i].name]
  /\ \A i, j \in Index(o) : o.items[i].name = o.items[j].name => i = j

\* No cell is free on the way to an item.
Reachable(o) ==
  \A i \in Index(o), c \in Cell(o) :
     Before(Home(o, o.items[i].name), c, o.items[i].cell_ix) => ~Free(o, c)

Table(o) == Shape(o) /\ Linked(o) /\ Named(o) /\ Reachable(o)

LEMMA ItemsOf ==
  ASSUME NEW o, Shape(o)
  PROVE  /\ Len(o.items) \in Nat /\ DOMAIN o.items = Index(o)
         /\ \A i \in Index(o) :
               /\ o.items[i].name \in Name /\ o.items[i].value \in Value
               /\ o.items[i].cell_ix \in Cell(o) /\ o.items[i].hash \in Nat
               /\ Home(o, o.items[i].name) \in Cell(o)
<1>1. o.items \in Seq(Item(o.capacity))
  BY DEF Shape
<1>2. Len(o.items) \in Nat /\ DOMAIN o.items = Index(o)
  BY <1>1, LenProperties DEF Index
<1>3. ASSUME NEW i \in Index(o)
      PROVE  /\ o.items[i].name \in Name /\ o.items[i].value \in Value
             /\ o.items[i].cell_ix \in Cell(o) /\ o.items[i].hash \in Nat
             /\ Home(o, o.items[i].name) \in Cell(o)
  <2>1. o.items[i] \in Item(o.capacity)
    BY <1>1, ElementOfSeq DEF Index
  <2>2. /\ o.items[i].name \in Name /\ o.items[i].value \in Value
        /\ o.items[i].cell_ix \in 0..(o.capacity - 1) /\ o.items[i].hash \in Nat
    BY <2>1 DEF Item
  <2>3. o.capacity \in Nat \ {0} /\ HashOf[o.items[i].name] \in Nat
    BY <2>2, ObjectAssumption DEF Shape
  <2>4. Home(o, o.items[i].name) \in 0..(o.capacity - 1)
    BY <2>3, 0 \in 0..(o.capacity - 1), RoundIs DEF Home
  <2> QED  BY <2>2, <2>4 DEF Cell
<1> QED  BY <1>2, <1>3

\* More cells than items: some are free.
LEMMA SomeFree ==
  ASSUME NEW o, Table(o), Len(o.items) < o.capacity
  PROVE  \E c \in Cell(o) : Free(o, c)
<1> SUFFICES ASSUME \A c \in Cell(o) : ~Free(o, c) PROVE FALSE
  OBVIOUS
<1>1. o.capacity \in Nat /\ Len(o.items) \in Nat /\ Shape(o)
  BY ItemsOf DEF Table, Shape
<1> DEFINE f == [c \in Cell(o) |-> o.cells[c]]
<1>2. \A c \in Cell(o) : o.cells[c] \in Index(o) /\ o.items[o.cells[c]].cell_ix = c
  BY DEF Table, Linked
<1>3. f \in Injection(Cell(o), Index(o))
  BY <1>2 DEF Injection, IsInjective
<1>4. /\ IsFiniteSet(Cell(o)) /\ Cardinality(Cell(o)) = o.capacity
      /\ IsFiniteSet(Index(o)) /\ Cardinality(Index(o)) = Len(o.items)
  <2>1. ASSUME NEW m \in Nat
        PROVE  /\ IsFiniteSet(0..(m - 1)) /\ Cardinality(0..(m - 1)) = m
               /\ IsFiniteSet(1..m) /\ Cardinality(1..m) = m
    <3>1. /\ IsFiniteSet(0..(m - 1)) /\ IsFiniteSet(1..m)
          /\ Cardinality(0..(m - 1)) = IF 0 > m - 1 THEN 0 ELSE (m - 1) - 0 + 1
          /\ Cardinality(1..m) = IF 1 > m THEN 0 ELSE m - 1 + 1
      BY FS_Interval, m - 1 \in Int
    <3> QED  BY <3>1
  <2> QED  BY <1>1, <2>1 DEF Cell, Index
<1>5. Cardinality(Cell(o)) <= Cardinality(Index(o))
  <2> HIDE DEF f
  <2> QED  BY <1>3, <1>4, FS_Injection DEF ExistsInjection
<1> QED  BY <1>1, <1>4, <1>5

-----------------------------------------------------------------------------
(* Looking a name up *)

LEMMA ProbeIs ==
  ASSUME NEW o, o.capacity \in Nat \ {0}, NEW n \in Name, NEW k \in 0..(o.capacity - 1)
  PROVE  /\ Home(o, n) \in Cell(o)
         /\ Probe(o, n, k) = Round(o.capacity, Home(o, n), k)
BY RoundIs, ObjectAssumption DEF Home, Cell, Probe

\* The first cell that is free or holds the name, if there is one.
LEMMA CellFound ==
  ASSUME NEW o, o.capacity \in Nat \ {0}, NEW n \in Name,
         NEW f \in Cell(o), Free(o, f) \/ Holds(o, f, n)
  PROVE  LET c == json_object_get_cell_ix(o, n) IN
         /\ c \in Cell(o)
         /\ Free(o, c) \/ Holds(o, c, n)
         /\ \A b \in Cell(o) : Before(Home(o, n), b, c) => ~Free(o, b) /\ ~Holds(o, b, n)
<1> DEFINE m == o.capacity
           h == Home(o, n)
           K == {k \in 0..(m - 1) : Stops(o, n, k)}
           First(k) == Stops(o, n, k) /\ \A j \in 0..(k - 1) : ~Stops(o, n, j)
<1>1. h \in 0..(m - 1) /\ \A k \in 0..(m - 1) : Probe(o, n, k) = Round(m, h, k)
  BY ProbeIs, 0 \in 0..(m - 1) DEF Cell
<1>2. /\ \A k \in 0..(m - 1) : Round(m, h, k) \in 0..(m - 1)
      /\ \A c \in 0..(m - 1) : \E k \in 0..(m - 1) : c = Round(m, h, k)
      /\ \A j, k \in 0..(m - 1) : Before(h, Round(m, h, j), Round(m, h, k)) <=> j < k
  BY <1>1, RoundReaches
<1> HIDE DEF h
<1>3. \E k \in 0..(m - 1) : Stops(o, n, k)
  <2>1. PICK k \in 0..(m - 1) : f = Probe(o, n, k)
    BY <1>1, <1>2 DEF Cell
  <2> QED  BY <2>1 DEF Stops
<1>4. \E k \in 0..(m - 1) : First(k)
  <2>1. PICK k \in K : \A j \in K : k <= j
    <3>1. K \in SUBSET Nat /\ K # {}
      BY <1>3
    <3> HIDE DEF K
    <3> QED  BY <3>1, SmallestExists
  <2>2. \A j \in 0..(k - 1) : j \in 0..(m - 1) /\ ~(k <= j)
    OBVIOUS
  <2> QED  BY <2>1, <2>2
<1> DEFINE k == CHOOSE x \in 0..(m - 1) : First(x)
<1>5. k \in 0..(m - 1) /\ First(k)
  BY <1>4, Zenon
<1>6. json_object_get_cell_ix(o, n) = Probe(o, n, k)
  BY <1>3, Zenon DEF json_object_get_cell_ix
<1> HIDE DEF k
<1>7. ASSUME NEW b \in Cell(o), Before(h, b, Probe(o, n, k))
      PROVE  ~Free(o, b) /\ ~Holds(o, b, n)
  <2>1. PICK j \in 0..(m - 1) : b = Round(m, h, j)
    BY <1>2 DEF Cell
  <2>2. j < k
    BY <1>1, <1>2, <1>5, <1>7, <2>1
  <2>3. j \in 0..(k - 1)
    BY <1>5, <2>2
  <2> QED  BY <1>1, <1>5, <2>1, <2>3 DEF Stops
<1> QED  BY <1>1, <1>2, <1>5, <1>6, <1>7 DEF Stops, Cell, h

\* A name that is in the table is found at its item.
LEMMA NameFound ==
  ASSUME NEW o, Table(o), NEW i \in Index(o)
  PROVE  LET n == o.items[i].name IN
         /\ json_object_get_cell_ix(o, n) = o.items[i].cell_ix
         /\ o.cells[json_object_get_cell_ix(o, n)] = i
         /\ Found(o, n)
<1> DEFINE n == o.items[i].name
           p == o.items[i].cell_ix
           c == json_object_get_cell_ix(o, n)
<1>1. /\ n \in Name /\ p \in Cell(o) /\ o.cells[p] = i
      /\ o.items[i].hash = HashOf[n] /\ i # OBJECT_INVALID_IX
  BY ItemsOf DEF Table, Linked, Named, OBJECT_INVALID_IX, Index
<1>2. o.capacity \in Nat \ {0} /\ Shape(o)
  BY <1>1 DEF Table, Shape, Cell
<1>3. Holds(o, p, n)
  BY <1>1 DEF Holds, Free
<1> HIDE DEF c
<1>4. /\ c \in Cell(o)
      /\ Free(o, c) \/ Holds(o, c, n)
      /\ \A b \in Cell(o) : Before(Home(o, n), b, c) => ~Free(o, b) /\ ~Holds(o, b, n)
  BY <1>1, <1>2, <1>3, CellFound DEF c
<1>5. Home(o, n) \in Cell(o)
  BY <1>2, ItemsOf
<1>6. c = p
  <2> SUFFICES ASSUME c # p PROVE FALSE
    OBVIOUS
  <2>1. Before(Home(o, n), c, p) \/ Before(Home(o, n), p, c)
    BY <1>1, <1>2, <1>4, <1>5 DEF Before, Cell
  <2>2. ~Before(Home(o, n), p, c)
    BY <1>1, <1>3, <1>4
  <2>3. ~Free(o, c)
    BY <1>4, <2>1, <2>2 DEF Table, Reachable
  <2>4. Holds(o, c, n)
    BY <1>4, <2>3
  <2>5. o.cells[c] \in Index(o) /\ o.items[o.cells[c]].cell_ix = c
    BY <1>4, <2>3 DEF Table, Linked
  <2>6. o.cells[c] = i
    BY <2>4, <2>5 DEF Holds, Table, Named
  <2> QED  BY <2>5, <2>6
<1>7. c # OBJECT_INVALID_IX
  BY <1>4 DEF Cell, OBJECT_INVALID_IX
<1> QED  BY <1>1, <1>3, <1>6, <1>7 DEF c, Found

\* One that is not has a free cell to go to.
LEMMA NameNotFound ==
  ASSUME NEW o, Table(o), NEW n \in Name, \A i \in Index(o) : o.items[i].name # n
  PROVE  /\ ~Found(o, n)
         /\ Len(o.items) < o.capacity =>
              LET c == json_object_get_cell_ix(o, n) IN
              /\ c \in Cell(o) /\ Free(o, c)
              /\ \A b \in Cell(o) : Before(Home(o, n), b, c) => ~Free(o, b)
<1>1. \A b \in Cell(o) : ~Holds(o, b, n)
  BY DEF Holds, Table, Linked
<1> DEFINE c == json_object_get_cell_ix(o, n)
<1>2. ASSUME NEW f \in Cell(o), Free(o, f)
      PROVE  /\ c \in Cell(o) /\ Free(o, c)
             /\ \A b \in Cell(o) : Before(Home(o, n), b, c) => ~Free(o, b)
  <2>1. o.capacity \in Nat \ {0}
    BY <1>2 DEF Cell, Table, Shape
  <2>2. /\ c \in Cell(o)
        /\ Free(o, c) \/ Holds(o, c, n)
        /\ \A b \in Cell(o) : Before(Home(o, n), b, c) => ~Free(o, b) /\ ~Holds(o, b, n)
    <3> HIDE DEF c
    <3> QED  BY <1>2, <2>1, CellFound DEF c
  <2> HIDE DEF c
  <2> QED  BY <1>1, <2>2
<1>3. ~Found(o, n)
  <2> SUFFICES ASSUME c # OBJECT_INVALID_IX, Holds(o, c, n) PROVE FALSE
    BY DEF Found
  <2>1. PICK k \in 0..(o.capacity - 1) : Stops(o, n, k)
    BY DEF json_object_get_cell_ix
  <2>2. o.capacity \in Nat \ {0}
    BY DEF Table, Shape
  <2>3. Probe(o, n, k) \in Cell(o)
    BY <2>2, ProbeIs, RoundReaches DEF Cell
  <2>4. Free(o, Probe(o, n, k))
    BY <1>1, <2>1, <2>3 DEF Stops
  <2>5. c \in Cell(o)
    BY <1>2, <2>3, <2>4
  <2> QED  BY <1>1, <2>5
<1>4. ASSUME Len(o.items) < o.capacity PROVE \E f \in Cell(o) : Free(o, f)
  BY <1>4, SomeFree
<1> QED  BY <1>2, <1>3, <1>4

-----------------------------------------------------------------------------
(* Adding *)

\* The item of a name goes to the end of the array and to a free cell.
LEMMA InsertIs ==
  ASSUME NEW o, Shape(o), NEW n, NEW v, NEW c, c = json_object_get_cell_ix(o, n)
  PROVE  Insert(o, n, v) =
           [capacity |-> o.capacity,
            cells    |-> [o.cells EXCEPT ![c] = Len(o.items) + 1],
            items    |-> Append(o.items, [name |-> n, value |-> v,
                                          cell_ix |-> c, hash |-> HashOf[n]])]
<1> DEFINE x == [name |-> n, value |-> v, cell_ix |-> c, hash |-> HashOf[n]]
<1>1. Insert(o, n, v) = [o EXCEPT !.cells[c] = Len(o.items) + 1, !.items = Append(@, x)]
  BY Zenon DEF Insert
<1> HIDE DEF x
<1>2. o = [capacity |-> o.capacity, cells |-> o.cells, items |-> o.items]
  BY DEF Shape
<1> QED  BY <1>1, <1>2 DEF x

\* The names of the items.
Names(o) == {o.items[i].name : i \in Index(o)}

LEMMA Inserted ==
  ASSUME NEW o, Table(o), Len(o.items) < o.capacity,
         NEW n \in Name, NEW v \in Value, n \notin Names(o)
  PROVE  LET p == Insert(o, n, v) IN
         /\ Table(p)
         /\ p.capacity = o.capacity
         /\ Len(p.items) = Len(o.items) + 1
         /\ \A i \in Index(o) : p.items[i] = o.items[i]
         /\ p.items[Len(o.items) + 1].name = n
         /\ p.items[Len(o.items) + 1].value = v
<1> DEFINE c == json_object_get_cell_ix(o, n)
           x == [name |-> n, value |-> v, cell_ix |-> c, hash |-> HashOf[n]]
           p == Insert(o, n, v)
<1>1. /\ c \in Cell(o) /\ Free(o, c)
      /\ \A b \in Cell(o) : Before(Home(o, n), b, c) => ~Free(o, b)
  <2>1. \A i \in Index(o) : o.items[i].name # n
    BY DEF Names
  <2> HIDE DEF c
  <2> QED  BY <2>1, NameNotFound DEF c
<1>2. p = [capacity |-> o.capacity,
           cells    |-> [o.cells EXCEPT ![c] = Len(o.items) + 1],
           items    |-> Append(o.items, x)]
  BY InsertIs, Zenon DEF Table
<1> HIDE DEF c, p
<1>3. /\ Shape(o) /\ o.items \in Seq(Item(o.capacity)) /\ o.capacity \in Nat
      /\ o.cells \in [Cell(o) -> {OBJECT_INVALID_IX} \cup (Nat \ {0})]
  BY DEF Table, Shape
<1>4. PICK m \in Nat : m = Len(o.items)
  BY <1>3, ItemsOf
<1>5. x \in Item(o.capacity)
  BY <1>1, ObjectAssumption DEF Item, Cell
<1>6. /\ p.items \in Seq(Item(o.capacity)) /\ Len(p.items) = m + 1
      /\ \A i \in 1..m : p.items[i] = o.items[i]
      /\ p.items[m + 1] = x
  <2> HIDE DEF x
  <2> QED  BY <1>2, <1>3, <1>4, <1>5, AppendProperties
<1>7. /\ p.capacity = o.capacity /\ p = [capacity |-> p.capacity, cells |-> p.cells, items |-> p.items]
      /\ p.cells = [o.cells EXCEPT ![c] = m + 1]
  <2> HIDE DEF x
  <2> QED  BY <1>2, <1>4
<1>8. Cell(p) = Cell(o) /\ Index(o) = 1..m /\ Index(p) = 1..(m + 1)
  BY <1>4, <1>6, <1>7 DEF Cell, Index
<1>9. /\ p.cells[c] = m + 1
      /\ \A b \in Cell(o) : b # c => p.cells[b] = o.cells[b]
      /\ p.cells \in [Cell(o) -> {OBJECT_INVALID_IX} \cup (Nat \ {0})]
  BY <1>1, <1>3, <1>7
<1>10. \A i \in 1..m : /\ o.items[i].cell_ix \in Cell(o) /\ o.items[i].cell_ix # c
                       /\ o.cells[o.items[i].cell_ix] = i
  <2>1. \A i \in 1..m : o.items[i].cell_ix \in Cell(o)
    BY <1>3, <1>8, ItemsOf
  <2>2. \A i \in 1..m : o.cells[o.items[i].cell_ix] = i
    BY <1>8 DEF Table, Linked
  <2>3. \A i \in 1..m : i # OBJECT_INVALID_IX
    BY DEF OBJECT_INVALID_IX
  <2> QED  BY <1>1, <2>1, <2>2, <2>3 DEF Free
<1>11. x.name = n /\ x.value = v /\ x.cell_ix = c /\ x.hash = HashOf[n]
  OBVIOUS
<1>12. \A b \in Cell(o) : Free(p, b) <=> (Free(o, b) /\ b # c)
  BY <1>9, m + 1 # OBJECT_INVALID_IX DEF Free, OBJECT_INVALID_IX
<1>13. Home(p, n) = Home(o, n) /\ \A i \in 1..m : Home(p, o.items[i].name) = Home(o, o.items[i].name)
  BY <1>7 DEF Home
<1> HIDE DEF x
<1>14. Linked(p)
  <2>1. \A i \in 1..(m + 1) : p.cells[p.items[i].cell_ix] = i
    BY <1>6, <1>9, <1>10, <1>11
  <2>2. ASSUME NEW b \in Cell(o), ~Free(p, b)
        PROVE  p.cells[b] \in 1..(m + 1) /\ p.items[p.cells[b]].cell_ix = b
    <3>1. CASE b = c
      BY <1>6, <1>9, <1>11, <3>1
    <3>2. CASE b # c
      <4>1. o.cells[b] \in 1..m /\ o.items[o.cells[b]].cell_ix = b
        BY <1>8, <1>12, <2>2, <3>2 DEF Table, Linked
      <4> QED  BY <1>6, <1>9, <3>2, <4>1
    <3> QED  BY <3>1, <3>2
  <2> QED  BY <1>8, <2>1, <2>2 DEF Linked
<1>15. Named(p)
  <2>1. \A i \in 1..m : /\ o.items[i].hash = HashOf[o.items[i].name] /\ o.items[i].name # n
                       /\ \A j \in 1..m : o.items[i].name = o.items[j].name => i = j
    BY <1>8 DEF Table, Named, Names
  <2>2. \A i \in 1..(m + 1) : p.items[i].hash = HashOf[p.items[i].name]
    BY <1>6, <1>11, <2>1
  <2>3. \A i, j \in 1..(m + 1) : p.items[i].name = p.items[j].name => i = j
    <3>1. \A i \in 1..m : p.items[i].name # n
      BY <1>6, <2>1
    <3>2. \A i, j \in 1..m : p.items[i].name = p.items[j].name => i = j
      BY <1>6, <2>1
    <3>3. \A i \in 1..(m + 1) : i \in 1..m \/ i = m + 1
      OBVIOUS
    <3>4. p.items[m + 1].name = n
      BY <1>6, <1>11
    <3> QED  BY <3>1, <3>2, <3>3, <3>4, Zenon
  <2> QED  BY <1>8, <2>2, <2>3 DEF Named
<1>16. Reachable(p)
  <2>1. \A i \in 1..m, b \in Cell(o) :
           Before(Home(o, o.items[i].name), b, o.items[i].cell_ix) => ~Free(o, b)
    BY <1>8 DEF Table, Reachable
  <2>2. ASSUME NEW i \in 1..(m + 1), NEW b \in Cell(o),
               Before(Home(p, p.items[i].name), b, p.items[i].cell_ix)
        PROVE  ~Free(p, b)
    <3>1. CASE i \in 1..m
      BY <1>6, <1>12, <1>13, <2>1, <2>2, <3>1
    <3>2. CASE i = m + 1
      BY <1>1, <1>6, <1>11, <1>12, <1>13, <2>2, <3>2
    <3> QED  BY <3>1, <3>2
  <2> QED  BY <1>8, <2>2 DEF Reachable
<1>17. Shape(p)
  BY <1>3, <1>6, <1>7, <1>8, <1>9 DEF Shape
<1> QED  BY <1>4, <1>6, <1>7, <1>8, <1>11, <1>14, <1>15, <1>16, <1>17 DEF Table, p

-----------------------------------------------------------------------------
(* Growing *)

\* The index of the items a table has room for stays below its cells.
LEMMA RoomIs ==
  ASSUME NEW m \in Nat
  PROVE  /\ (m * 7) \div 10 \in Nat
         /\ m > 0 => (m * 7) \div 10 < m
         /\ \A p \in Nat : p >= 2 /\ p >= m * 2 => (m * 7) \div 10 < (p * 7) \div 10
OBVIOUS

LEMMA EmptyTable ==
  ASSUME NEW m \in Nat
  PROVE  LET o == json_object_init(m) IN
         Table(o) /\ o.capacity = m /\ o.items = <<>> /\ Len(o.items) = 0
<1> DEFINE o == json_object_init(m)
<1>1. /\ o = [capacity |-> o.capacity, cells |-> o.cells, items |-> o.items]
      /\ o.capacity = m /\ o.items = <<>> /\ o.cells = [c \in 0..(m - 1) |-> OBJECT_INVALID_IX]
  BY DEF json_object_init
<1>2. Len(o.items) = 0 /\ o.items \in Seq(Item(m)) /\ Index(o) = {}
  BY <1>1 DEF Index
<1>3. Shape(o) /\ \A c \in Cell(o) : Free(o, c)
  BY <1>1, <1>2 DEF Shape, Cell, Free
<1>4. Linked(o) /\ Named(o) /\ Reachable(o)
  BY <1>2, <1>3 DEF Linked, Named, Reachable
<1> QED  BY <1>1, <1>2, <1>3, <1>4 DEF Table

\* One by one, the items of o enter a table of M cells.
Rehashing(o, M, i, g) ==
  IF i = 0 THEN json_object_init(M) ELSE Insert(g[i - 1], o.items[i].name, o.items[i].value)

Rehashes(o, M, N, g) == g = [i \in 0..N |-> Rehashing(o, M, i, g)]

LEMMA RehashingExists ==
  ASSUME NEW o, NEW M, NEW N \in Nat
  PROVE  \E g : Rehashes(o, M, N, g)
<1> DEFINE Right(g, k) == \A i \in 0..k : g[i] = Rehashing(o, M, i, g)
           S == {k \in Nat : \E g : Right(g, k)}
<1>1. 0 \in S
  <2> DEFINE g == [i \in {0} |-> json_object_init(M)]
  <2>1. Right(g, 0)
    BY DEF Rehashing
  <2> QED  BY <2>1
<1>2. ASSUME NEW k \in Nat, k \in S PROVE k + 1 \in S
  <2>1. PICK f : Right(f, k)
    BY <1>2
  <2> DEFINE g == [i \in 0..(k + 1) |-> IF i <= k THEN f[i] ELSE Rehashing(o, M, i, f)]
  <2>2. ASSUME NEW i \in 0..(k + 1) PROVE g[i] = Rehashing(o, M, i, g)
    <3>1. g[i] = Rehashing(o, M, i, f)
      BY <2>1
    <3>2. i # 0 => f[i - 1] = g[i - 1]
      OBVIOUS
    <3> QED  BY <3>1, <3>2 DEF Rehashing
  <2>3. Right(g, k + 1)
    BY <2>2
  <2>4. k + 1 \in Nat
    OBVIOUS
  <2> HIDE DEF g, Right
  <2> QED  BY <2>3, <2>4
<1>3. N \in S
  <2> HIDE DEF S
  <2> QED  BY <1>1, <1>2, NatSetInduction
<1>4. PICK f : Right(f, N)
  BY <1>3
<1> DEFINE g == [i \in 0..N |-> f[i]]
<1>5. \A i \in 0..N : Rehashing(o, M, i, f) = Rehashing(o, M, i, g)
  <2>1. \A i \in 0..N : i # 0 => f[i - 1] = g[i - 1]
    OBVIOUS
  <2> HIDE DEF g
  <2> QED  BY <2>1 DEF Rehashing
<1>6. g = [i \in 0..N |-> Rehashing(o, M, i, g)]
  BY <1>4, <1>5
<1> QED  BY <1>6, Zenon DEF Rehashes

\* The items of a table are added to a larger one in their order.
LEMMA Rehashed ==
  ASSUME NEW o, Table(o), Len(o.items) <= item_capacity(o)
  PROVE  LET p == json_object_grow_and_rehash(o) IN
         /\ Table(p)
         /\ p.capacity >= 2 /\ p.capacity >= o.capacity * 2
         /\ Len(p.items) = Len(o.items)
         /\ \A i \in Index(o) : /\ p.items[i].name = o.items[i].name
                               /\ p.items[i].value = o.items[i].value
<1> DEFINE M == Max({o.capacity * 2, STARTING_CAPACITY})
           N == Len(o.items)
           r == CHOOSE g : Rehashes(o, M, N, g)
<1>1. json_object_grow_and_rehash(o) = r[N]
  BY Zenon DEF json_object_grow_and_rehash, Rehashes, Rehashing
<1>2. /\ Shape(o) /\ o.capacity \in Nat /\ N \in Nat
  BY ItemsOf DEF Table, Shape
<1>3. M \in Nat /\ M >= 2 /\ M >= o.capacity * 2
  <2> DEFINE a == o.capacity * 2
             b == STARTING_CAPACITY
  <2>1. a \in Nat /\ b \in Nat /\ b >= 2
    BY <1>2, ObjectAssumption
  <2> HIDE DEF a, b
  <2>2. \E x \in {a, b} : \A y \in {a, b} : x >= y
    BY <2>1
  <2>3. Max({a, b}) \in {a, b} /\ \A y \in {a, b} : Max({a, b}) >= y
    BY <2>2, Zenon DEF Max
  <2> QED  BY <2>1, <2>3 DEF a, b
<1>4. N <= M
  BY <1>2, <1>3, RoomIs DEF item_capacity
<1>5. Rehashes(o, M, N, r)
  BY <1>2, RehashingExists
<1> HIDE DEF M, r
<1>6. \A i \in 0..N : r[i] = Rehashing(o, M, i, r)
  <2>1. r = [i \in 0..N |-> Rehashing(o, M, i, r)]
    BY <1>5, Zenon DEF Rehashes
  <2> QED  BY <2>1
<1> DEFINE Ok(i) == /\ Table(r[i]) /\ r[i].capacity = M /\ Len(r[i].items) = i
                    /\ \A j \in 1..i : /\ r[i].items[j].name = o.items[j].name
                                      /\ r[i].items[j].value = o.items[j].value
           S == {i \in Nat : i <= N => Ok(i)}
<1>7. 0 \in S
  <2>1. r[0] = json_object_init(M)
    BY <1>2, <1>6 DEF Rehashing
  <2> QED  BY <1>3, <2>1, EmptyTable
<1>8. ASSUME NEW k \in Nat, k \in S PROVE k + 1 \in S
  <2> SUFFICES ASSUME k + 1 <= N PROVE Ok(k + 1)
    OBVIOUS
  <2> DEFINE q == r[k]
             n == o.items[k + 1].name
             v == o.items[k + 1].value
  <2>1. r[k + 1] = Insert(q, n, v)
    <3>1. k + 1 \in 0..N /\ k + 1 # 0 /\ (k + 1) - 1 = k
      BY <1>2
    <3> QED  BY <1>6, <3>1 DEF Rehashing
  <2>2. k <= N /\ k < M /\ k + 1 \in Index(o) /\ 1..k \in SUBSET Index(o)
    BY <1>2, <1>3, <1>4 DEF Index
  <2>3. Ok(k)
    BY <1>8, <2>2
  <2>4. n \in Name /\ v \in Value
    BY <1>2, <2>2, ItemsOf
  <2>5. n \notin Names(q)
    <3> SUFFICES ASSUME NEW j \in 1..k, q.items[j].name = n PROVE FALSE
      BY <2>3 DEF Names, Index
    <3>1. o.items[j].name = o.items[k + 1].name
      BY <2>3
    <3>2. j = k + 1
      BY <2>2, <3>1 DEF Table, Named
    <3> QED  BY <3>2
  <2> HIDE DEF n, v
  <2>6. PICK p : p = Insert(q, n, v)
    OBVIOUS
  <2>7. /\ Table(p) /\ p.capacity = M /\ Len(p.items) = k + 1
        /\ \A j \in 1..k : p.items[j] = q.items[j]
        /\ p.items[k + 1].name = n /\ p.items[k + 1].value = v
    <3> HIDE DEF q
    <3>1. Table(q) /\ q.capacity = M /\ Len(q.items) = k
      BY <2>3 DEF q
    <3> QED  BY <2>2, <2>4, <2>5, <2>6, <3>1, Inserted DEF Index
  <2>8. \A j \in 1..(k + 1) : p.items[j].name = o.items[j].name /\ p.items[j].value = o.items[j].value
    <3>1. \A j \in 1..(k + 1) : j \in 1..k \/ j = k + 1
      OBVIOUS
    <3> QED  BY <2>3, <2>7, <3>1 DEF n, v
  <2> QED  BY <2>1, <2>6, <2>7, <2>8
<1>9. Ok(N)
  <2>1. N \in S
    <3> HIDE DEF S
    <3> QED  BY <1>2, <1>7, <1>8, NatSetInduction
  <2> QED  BY <1>2, <2>1
<1> QED  BY <1>1, <1>2, <1>3, <1>9 DEF Index

-----------------------------------------------------------------------------
(* Replacing *)

\* A name is found when an item has it, and leads to that item's value.
LEMMA Contents ==
  ASSUME NEW o, Table(o)
  PROVE  /\ \A n \in Name : Found(o, n) <=> n \in Names(o)
         /\ Names(o) \in SUBSET Name
         /\ \A i \in Index(o) : json_object_getn_value(o, o.items[i].name) = o.items[i].value
<1>1. ASSUME NEW n \in Name PROVE Found(o, n) <=> n \in Names(o)
  <2>1. CASE n \in Names(o)
    <3>1. PICK i \in Index(o) : n = o.items[i].name
      BY <2>1 DEF Names
    <3>2. Found(o, o.items[i].name)
      BY NameFound
    <3> QED  BY <2>1, <3>1, <3>2
  <2>2. CASE n \notin Names(o)
    <3>1. \A i \in Index(o) : o.items[i].name # n
      BY <2>2 DEF Names
    <3>2. ~Found(o, n)
      BY <3>1, NameNotFound
    <3> QED  BY <2>2, <3>2
  <2> QED  BY <2>1, <2>2
<1>2. Names(o) \in SUBSET Name
  BY ItemsOf DEF Names, Table
<1>3. ASSUME NEW i \in Index(o)
      PROVE  json_object_getn_value(o, o.items[i].name) = o.items[i].value
  <2>1. o.cells[json_object_get_cell_ix(o, o.items[i].name)] = i
    BY NameFound
  <2> QED  BY <2>1, Zenon DEF json_object_getn_value
<1> QED  BY <1>1, <1>2, <1>3

LEMMA ValueReplaced ==
  ASSUME NEW o, Table(o), NEW i \in Index(o), NEW v \in Value
  PROVE  LET p == Replaced(o, o.items[i].name, v) IN
         /\ Table(p) /\ p.capacity = o.capacity /\ Len(p.items) = Len(o.items)
         /\ \A j \in Index(o) : /\ p.items[j].name = o.items[j].name
                               /\ p.items[j].value = IF j = i THEN v ELSE o.items[j].value
<1> DEFINE n == o.items[i].name
           x == [o.items[i] EXCEPT !.value = v]
           p == Replaced(o, n, v)
<1>1. /\ Shape(o) /\ o.items \in Seq(Item(o.capacity)) /\ o.capacity \in Nat
      /\ o = [capacity |-> o.capacity, cells |-> o.cells, items |-> o.items]
      /\ Len(o.items) \in Nat /\ DOMAIN o.items = Index(o)
  BY ItemsOf DEF Table, Shape
<1>2. o.cells[json_object_get_cell_ix(o, n)] = i
  BY NameFound
<1>3. p = [o EXCEPT !.items[i].value = v]
  BY <1>2, Zenon DEF Replaced
<1>4. o.items[i] \in Item(o.capacity)
  BY <1>1, ElementOfSeq DEF Index
<1>5. /\ x \in Item(o.capacity) /\ x.value = v
      /\ x.name = o.items[i].name /\ x.cell_ix = o.items[i].cell_ix /\ x.hash = o.items[i].hash
  BY <1>4 DEF Item
<1>6. p = [capacity |-> o.capacity, cells |-> o.cells, items |-> [o.items EXCEPT ![i] = x]]
  <2>1. p = [o EXCEPT !.items = [o.items EXCEPT ![i] = x]]
    BY <1>1, <1>3
  <2> HIDE DEF p, x
  <2> QED  BY <1>1, <2>1
<1> HIDE DEF p, x, n
<1>7. /\ p.items \in Seq(Item(o.capacity)) /\ Len(p.items) = Len(o.items)
      /\ p.items[i] = x /\ \A j \in Index(o) : j # i => p.items[j] = o.items[j]
  <2>1. p.items = [o.items EXCEPT ![i] = x]
    BY <1>6
  <2> QED  BY <1>1, <1>5, <2>1, ExceptSeq DEF Index
<1>8. /\ p.capacity = o.capacity /\ p.cells = o.cells
      /\ p = [capacity |-> p.capacity, cells |-> p.cells, items |-> p.items]
  BY <1>6
<1>9. Cell(p) = Cell(o) /\ Index(p) = Index(o)
  BY <1>7, <1>8 DEF Cell, Index
<1>10. \A j \in Index(o) : /\ p.items[j].name = o.items[j].name
                           /\ p.items[j].cell_ix = o.items[j].cell_ix
                           /\ p.items[j].hash = o.items[j].hash
                           /\ p.items[j].value = IF j = i THEN v ELSE o.items[j].value
  BY <1>5, <1>7
<1>11. /\ \A c \in Cell(o) : Free(p, c) <=> Free(o, c)
       /\ \A a \in Name : Home(p, a) = Home(o, a)
  BY <1>8 DEF Free, Home
<1>12. Shape(p)
  BY <1>1, <1>7, <1>8, <1>9 DEF Shape
<1>13. Linked(p)
  BY <1>8, <1>9, <1>10, <1>11 DEF Table, Linked
<1>14. Named(p)
  BY <1>9, <1>10 DEF Table, Named
<1>15. Reachable(p)
  BY <1>1, <1>9, <1>10, <1>11, ItemsOf DEF Table, Reachable
<1> QED  BY <1>7, <1>8, <1>10, <1>12, <1>13, <1>14, <1>15 DEF Table, p, n

LEMMA TableCleared ==
  ASSUME NEW o, Table(o)
  PROVE  LET p == Cleared(o) IN
         Table(p) /\ p.capacity = o.capacity /\ p.items = <<>> /\ Len(p.items) = 0
<1> DEFINE cs == [c \in Cell(o) |-> OBJECT_INVALID_IX]
<1>1. /\ o = [capacity |-> o.capacity, cells |-> o.cells, items |-> o.items]
      /\ DOMAIN o.cells = Cell(o) /\ o.capacity \in Nat
  BY DEF Table, Shape
<1>2. Cleared(o) = [o EXCEPT !.items = <<>>, !.cells = cs]
  BY <1>1, Zenon DEF Cleared
<1>3. Cleared(o) = [capacity |-> o.capacity, cells |-> cs, items |-> <<>>]
  <2> HIDE DEF cs
  <2> QED  BY <1>1, <1>2
<1>4. Cleared(o) = json_object_init(o.capacity)
  BY <1>3 DEF json_object_init, Cell
<1> QED  BY <1>1, <1>4, EmptyTable

-----------------------------------------------------------------------------
(* Removing *)

\* Steps round the cells from f to c.
Steps(m, f, c) == IF c >= f THEN c - f ELSE (c - f) + m

\* But for the cell g a table, with a free cell f.
Hole(p, g, f) ==
  /\ Shape(p) /\ Named(p)
  /\ g \in Cell(p) /\ f \in Cell(p) /\ g # f /\ Free(p, f)
  /\ \A i \in Index(p) : p.items[i].cell_ix # g /\ p.cells[p.items[i].cell_ix] = i
  /\ \A c \in Cell(p) : c # g /\ ~Free(p, c) => /\ p.cells[c] \in Index(p)
                                               /\ p.items[p.cells[c]].cell_ix = c
  /\ \A i \in Index(p), c \in Cell(p) :
        c # g /\ Before(Home(p, p.items[i].name), c, p.items[i].cell_ix) => ~Free(p, c)

\* No item is looked for beyond g.
Closed(p, g) ==
  \A i \in Index(p) : ~Before(Home(p, p.items[i].name), g, p.items[i].cell_ix)

\* Those that are lie behind j.
Ahead(p, g, f, j) ==
  \A i \in Index(p) : Before(Home(p, p.items[i].name), g, p.items[i].cell_ix)
                        => Before(f, j, p.items[i].cell_ix)

\* The items are those of o, but that the last one is at ix.
Kept(p, o, ix) ==
  /\ p.capacity = o.capacity
  /\ Len(p.items) = Len(o.items) - 1
  /\ \A i \in Index(p) : LET k == IF i = ix THEN Len(o.items) ELSE i IN
        p.items[i].name = o.items[k].name /\ p.items[i].value = o.items[k].value

LEMMA MovedLast ==
  ASSUME NEW o, Table(o), NEW r \in Index(o), NEW f \in Cell(o), Free(o, f)
  PROVE  LET p == MoveLast(o, r)
             a == o.items[r].cell_ix
         IN  Hole(p, a, f) /\ Kept(p, o, r)
<1> DEFINE p == MoveLast(o, r)
           a == o.items[r].cell_ix
           its == [o.items EXCEPT ![r] = Last(o.items)]
<1>1. /\ Shape(o) /\ o.items \in Seq(Item(o.capacity)) /\ o.capacity \in Nat
      /\ o = [capacity |-> o.capacity, cells |-> o.cells, items |-> o.items]
      /\ o.cells \in [Cell(o) -> {OBJECT_INVALID_IX} \cup (Nat \ {0})]
      /\ Len(o.items) \in Nat
  BY ItemsOf DEF Table, Shape
<1>2. PICK N \in Nat : N = Len(o.items) /\ Index(o) = 1..N /\ r \in 1..N
  BY <1>1 DEF Index
<1>3. PICK l \in Item(o.capacity) : l = Last(o.items) /\ l = o.items[N]
  BY <1>1, <1>2, ElementOfSeq DEF Last
<1> DEFINE at(i) == IF i = r THEN N ELSE i
<1>4. /\ p = [capacity |-> p.capacity, cells |-> p.cells, items |-> p.items]
      /\ p.capacity = o.capacity
      /\ p.cells = IF r = N THEN o.cells ELSE [o.cells EXCEPT ![l.cell_ix] = r]
      /\ p.items = IF r = N THEN Front(o.items) ELSE Front(its)
  <2>1. CASE r = N
    <3>1. p = [o EXCEPT !.items = Front(o.items)]
      BY <1>2, <2>1, Zenon DEF MoveLast
    <3> HIDE DEF p
    <3> QED  BY <1>1, <2>1, <3>1
  <2>2. CASE r # N
    <3>1. p = [o EXCEPT !.items = Front([@ EXCEPT ![r] = Last(o.items)]),
                        !.cells[Last(o.items).cell_ix] = r]
      BY <1>2, <2>2, Zenon DEF MoveLast
    <3>2. p = [o EXCEPT !.items = Front(its), !.cells[l.cell_ix] = r]
      BY <1>3, <3>1, Zenon
    <3> HIDE DEF p, its
    <3> QED  BY <1>1, <2>2, <3>2
  <2> QED  BY <2>1, <2>2
<1> HIDE DEF p
<1>5. /\ p.items \in Seq(Item(o.capacity)) /\ Len(p.items) = N - 1
      /\ \A i \in 1..(N - 1) : p.items[i] = o.items[at(i)]
  <2>1. /\ its \in Seq(Item(o.capacity)) /\ Len(its) = N
        /\ \A i \in 1..N : its[i] = IF i = r THEN l ELSE o.items[i]
    BY <1>1, <1>2, <1>3, ExceptSeq
  <2> HIDE DEF its
  <2>2. PICK s \in Seq(Item(o.capacity)) :
           /\ Len(s) = N /\ p.items = Front(s)
           /\ \A i \in 1..(N - 1) : s[i] = o.items[at(i)]
    <3>1. CASE r = N
      BY <1>1, <1>2, <1>4, <3>1
    <3>2. CASE r # N
      BY <1>2, <1>3, <1>4, <2>1, <3>2
    <3> QED  BY <3>1, <3>2
  <2>3. p.items = SubSeq(s, 1, N - 1)
    BY <2>2 DEF Front
  <2>4. /\ SubSeq(s, 1, N - 1) \in Seq(Item(o.capacity)) /\ Len(SubSeq(s, 1, N - 1)) = N - 1
        /\ \A i \in 1..(N - 1) : SubSeq(s, 1, N - 1)[i] = s[i]
    <3>1. N - 1 \in Nat /\ N - 1 <= N
      BY <1>2
    <3>2. Len(s) = N
      BY <2>2
    <3>3. PICK k \in Nat : k = N - 1 /\ k <= Len(s)
      BY <3>1, <3>2
    <3>4. /\ SubSeq(s, 1, k) \in Seq(Item(o.capacity)) /\ Len(SubSeq(s, 1, k)) = k
          /\ \A i \in 1..k : SubSeq(s, 1, k)[i] = s[i]
      <4> HIDE DEF its, at
      <4> QED  BY <3>3, SubSeqProperties
    <3> QED  BY <3>3, <3>4
  <2> HIDE DEF at
  <2> QED  BY <2>2, <2>3, <2>4
<1>6. Cell(p) = Cell(o) /\ Index(p) = 1..(N - 1)
  BY <1>2, <1>4, <1>5 DEF Cell, Index
<1>7. /\ \A i \in 1..N : /\ o.items[i].cell_ix \in Cell(o) /\ o.cells[o.items[i].cell_ix] = i
                        /\ Home(o, o.items[i].name) \in Cell(o)
      /\ \A c \in Cell(o) : ~Free(o, c) => /\ o.cells[c] \in 1..N
                                           /\ o.items[o.cells[c]].cell_ix = c
      /\ a \in Cell(o) /\ o.cells[a] = r /\ f # a
  <2>1. \A i \in 1..N : /\ o.items[i].cell_ix \in Cell(o) /\ o.cells[o.items[i].cell_ix] = i
                       /\ Home(o, o.items[i].name) \in Cell(o)
    BY <1>1, <1>2, ItemsOf DEF Table, Linked
  <2>2. o.cells[f] = -1 /\ o.cells[a] = r /\ -1 \notin 1..N
    BY <1>2, <2>1 DEF Free, OBJECT_INVALID_IX
  <2> QED  BY <1>2, <2>1, <2>2 DEF Table, Linked
<1>8. \A i \in 1..(N - 1) : /\ at(i) \in 1..N /\ at(i) # r
                            /\ \A j \in 1..(N - 1) : at(i) = at(j) => i = j
  BY <1>2
<1>9. \A c \in Cell(o) : p.cells[c] = IF o.cells[c] = N /\ r # N THEN r ELSE o.cells[c]
  <2>1. CASE r = N
    BY <1>4, <2>1
  <2>2. CASE r # N
    <3>1. l.cell_ix \in Cell(o) /\ o.cells[l.cell_ix] = N
      BY <1>2, <1>3, <1>7
    <3>2. \A c \in Cell(o) : o.cells[c] = N => c = l.cell_ix
      <4>1. N # -1
        OBVIOUS
      <4> QED  BY <1>3, <1>7, <4>1 DEF Free, OBJECT_INVALID_IX
    <3>3. p.cells = [o.cells EXCEPT ![l.cell_ix] = r] /\ DOMAIN o.cells = Cell(o)
      BY <1>1, <1>4, <2>2
    <3> QED  BY <2>2, <3>1, <3>2, <3>3
  <2> QED  BY <2>1, <2>2
<1>10. p.cells \in [Cell(o) -> {OBJECT_INVALID_IX} \cup (Nat \ {0})]
  <2>1. p.cells = o.cells \/ p.cells = [o.cells EXCEPT ![l.cell_ix] = r]
    BY <1>4
  <2>2. r \in {OBJECT_INVALID_IX} \cup (Nat \ {0})
    BY <1>2
  <2> HIDE DEF OBJECT_INVALID_IX
  <2> QED  BY <1>1, <2>1, <2>2
<1>11. \A c \in Cell(o) : Free(p, c) <=> Free(o, c)
  BY <1>2, <1>9 DEF Free, OBJECT_INVALID_IX
<1>12. \A i \in 1..(N - 1) : Home(p, p.items[i].name) = Home(o, o.items[at(i)].name)
  BY <1>4, <1>5 DEF Home
<1> DEFINE c(i) == o.items[at(i)].cell_ix
<1>13. \A i \in 1..(N - 1) : p.items[i].cell_ix = c(i)
  BY <1>5
<1>14. Shape(p)
  BY <1>1, <1>4, <1>5, <1>6, <1>10 DEF Shape
<1>15. Named(p)
  <2>1. \A i \in 1..N : /\ o.items[i].hash = HashOf[o.items[i].name]
                       /\ \A j \in 1..N : o.items[i].name = o.items[j].name => i = j
    BY <1>2 DEF Table, Named
  <2> HIDE DEF at
  <2>2. \A i \in 1..(N - 1) : p.items[i].hash = HashOf[p.items[i].name]
    BY <1>5, <1>8, <2>1
  <2>3. \A i, j \in 1..(N - 1) : p.items[i].name = p.items[j].name => i = j
    BY <1>5, <1>8, <2>1
  <2> QED  BY <1>6, <2>2, <2>3 DEF Named
<1>16. ASSUME NEW i \in 1..(N - 1) PROVE c(i) # a /\ p.cells[c(i)] = i
  <2>1. at(i) \in 1..N /\ at(i) # r
    BY <1>8
  <2>2. c(i) \in Cell(o) /\ o.cells[c(i)] = at(i)
    <3> HIDE DEF at
    <3> QED  BY <1>7, <2>1
  <2>3. c(i) # a
    BY <1>7, <2>1, <2>2
  <2>4. p.cells[c(i)] = IF at(i) = N /\ r # N THEN r ELSE at(i)
    <3> HIDE DEF at
    <3> QED  BY <1>9, <2>2
  <2>5. (IF at(i) = N /\ r # N THEN r ELSE at(i)) = i
    BY <1>2
  <2> QED  BY <2>3, <2>4, <2>5
<1>17. ASSUME NEW b \in Cell(o), b # a, ~Free(p, b)
       PROVE  p.cells[b] \in 1..(N - 1) /\ c(p.cells[b]) = b
  <2>1. o.cells[b] \in 1..N /\ o.items[o.cells[b]].cell_ix = b
    BY <1>7, <1>11, <1>17
  <2>2. o.cells[b] # r
    BY <1>17, <2>1
  <2>3. p.cells[b] = IF o.cells[b] = N /\ r # N THEN r ELSE o.cells[b]
    BY <1>9
  <2>4. p.cells[b] \in 1..(N - 1) /\ at(p.cells[b]) = o.cells[b]
    BY <1>2, <2>1, <2>2, <2>3
  <2> QED  BY <2>1, <2>4
<1>18. ASSUME NEW i \in 1..(N - 1), NEW b \in Cell(o),
              Before(Home(o, o.items[at(i)].name), b, c(i))
       PROVE  ~Free(o, b)
  <2> HIDE DEF at
  <2> QED  BY <1>2, <1>8, <1>18 DEF Table, Reachable
<1> HIDE DEF at, c, a
<1>19. Hole(p, a, f)
  BY <1>6, <1>7, <1>11, <1>12, <1>13, <1>14, <1>15, <1>16, <1>17, <1>18 DEF Hole
<1>20. Kept(p, o, r)
  BY <1>2, <1>4, <1>5, <1>6 DEF Kept, at
<1> QED  BY <1>19, <1>20 DEF p, a
\* Where the items are, and the free cell nobody passes.
LEMMA HoleIs ==
  ASSUME NEW p, NEW g, NEW f, Hole(p, g, f), NEW i \in Index(p)
  PROVE  LET h == Home(p, p.items[i].name)
             c == p.items[i].cell_ix
         IN  /\ h \in Cell(p) /\ c \in Cell(p) /\ c # g /\ c # f
             /\ p.cells[c] = i /\ ~Free(p, c)
             /\ ~Before(h, f, c)
<1> DEFINE h == Home(p, p.items[i].name)
           c == p.items[i].cell_ix
<1>1. Shape(p) /\ f \in Cell(p) /\ f # g /\ Free(p, f) /\ p.cells[c] = i /\ c # g
  BY DEF Hole
<1>2. h \in Cell(p) /\ c \in Cell(p)
  BY <1>1, ItemsOf
<1>3. ~Free(p, c)
  BY <1>1 DEF Free, OBJECT_INVALID_IX, Index
<1>4. c # f
  BY <1>1, <1>3
<1>5. ~Before(h, f, c)
  BY <1>1 DEF Hole
<1> QED  BY <1>1, <1>2, <1>3, <1>4, <1>5

\* The cell after j.
After(m, j) == IF j + 1 < m THEN j + 1 ELSE 0

LEMMA AheadOfHole ==
  ASSUME NEW p, NEW g, NEW f, Hole(p, g, f)
  PROVE  Ahead(p, g, f, g)
<1> SUFFICES ASSUME NEW i \in Index(p), NEW h, h = Home(p, p.items[i].name),
                    NEW c, c = p.items[i].cell_ix, Before(h, g, c)
             PROVE  Before(f, g, c)
  BY DEF Ahead
<1>1. h \in Cell(p) /\ c \in Cell(p) /\ ~Before(h, f, c) /\ c # f /\ c # g
  BY HoleIs
<1>2. p.capacity \in Nat /\ g \in Cell(p) /\ f \in Cell(p) /\ g # f
  BY DEF Hole, Shape
<1> QED  BY <1>1, <1>2 DEF Cell, Before

\* The loop ends at a free cell: nobody passes it on the way from g.
LEMMA FreeCloses ==
  ASSUME NEW p, NEW g, NEW f, NEW j \in Cell(p),
         Hole(p, g, f), Ahead(p, g, f, j), Steps(p.capacity, f, g) <= Steps(p.capacity, f, j),
         Free(p, After(p.capacity, j))
  PROVE  Closed(p, g)
<1> DEFINE d == After(p.capacity, j)
<1> SUFFICES ASSUME NEW i \in Index(p), NEW h, h = Home(p, p.items[i].name),
                    NEW c, c = p.items[i].cell_ix, Before(h, g, c)
             PROVE  FALSE
  BY DEF Closed
<1>1. h \in Cell(p) /\ c \in Cell(p) /\ ~Before(h, f, c) /\ c # f /\ c # g /\ ~Free(p, c)
  BY HoleIs
<1>2. p.capacity \in Nat /\ g \in Cell(p) /\ f \in Cell(p) /\ g # f
  BY DEF Hole, Shape
<1>3. Before(f, j, c)
  BY DEF Ahead
<1>4. d \in Cell(p) /\ c # d
  <2>1. d \in Cell(p)
    BY <1>2 DEF After, Cell
  <2> HIDE DEF d
  <2> QED  BY <1>1, <2>1 DEF d
<1>5. d # g /\ Before(h, d, c)
  BY <1>1, <1>2, <1>3, <1>4 DEF Before, After, Steps, Cell
<1> QED
  <2> HIDE DEF d
  <2>1. Free(p, d)
    BY DEF d
  <2> QED  BY <1>4, <1>5, <2>1 DEF Hole

\* An item that is not moved is none that is looked for beyond g.
LEMMA ItemStays ==
  ASSUME NEW p, NEW g, NEW f, NEW j \in Cell(p), NEW d, d = After(p.capacity, j),
         Hole(p, g, f), Ahead(p, g, f, j), ~Free(p, d),
         ~Before(Home(p, p.items[p.cells[d]].name), g, d)
  PROVE  Ahead(p, g, f, d)
<1> SUFFICES ASSUME NEW i \in Index(p), NEW h, h = Home(p, p.items[i].name),
                    NEW c, c = p.items[i].cell_ix, Before(h, g, c)
             PROVE  Before(f, d, c)
  BY DEF Ahead
<1>1. h \in Cell(p) /\ c \in Cell(p) /\ c # f /\ p.cells[c] = i
  BY HoleIs
<1>2. p.capacity \in Nat /\ f \in Cell(p) /\ Free(p, f)
  BY DEF Hole, Shape
<1>3. Before(f, j, c)
  BY DEF Ahead
<1>4. c # d
  BY <1>1
<1>5. d # f
  BY <1>2
<1> QED  BY <1>1, <1>2, <1>3, <1>4, <1>5 DEF Before, After, Cell
\* The table with the item of cell j in cell g.
Moved(p, g, j) == [capacity |-> p.capacity,
                   cells    |-> [p.cells EXCEPT ![g] = p.cells[j]],
                   items    |-> [p.items EXCEPT ![p.cells[j]].cell_ix = g]]

\* An item that is looked for beyond g can be in g, and leaves a hole where it was.
LEMMA ItemMoves ==
  ASSUME NEW p, NEW g, NEW f, NEW j \in Cell(p), Hole(p, g, f), j # g, ~Free(p, j),
         Before(Home(p, p.items[p.cells[j]].name), g, j), NEW o, NEW r, Kept(p, o, r)
  PROVE  Hole(Moved(p, g, j), j, f) /\ Kept(Moved(p, g, j), o, r)
<1> DEFINE q == Moved(p, g, j)
           m == p.cells[j]
           x == [p.items[m] EXCEPT !.cell_ix = g]
           h(i) == Home(p, p.items[i].name)
           c(i) == p.items[i].cell_ix
<1>1. /\ Shape(p) /\ p.items \in Seq(Item(p.capacity)) /\ p.capacity \in Nat
      /\ p.cells \in [Cell(p) -> {OBJECT_INVALID_IX} \cup (Nat \ {0})]
      /\ Len(p.items) \in Nat /\ DOMAIN p.items = Index(p)
      /\ g \in Cell(p) /\ f \in Cell(p) /\ Free(p, f) /\ g # f
  BY ItemsOf DEF Hole, Shape
<1>2. m \in Index(p) /\ c(m) = j
  BY DEF Hole
<1>3. \A i \in Index(p) : /\ h(i) \in Cell(p) /\ c(i) \in Cell(p) /\ c(i) # g /\ c(i) # f
                          /\ p.cells[c(i)] = i /\ i # OBJECT_INVALID_IX
  BY HoleIs DEF Index, OBJECT_INVALID_IX
<1>4. p.items[m] \in Item(p.capacity)
  BY <1>1, <1>2, ElementOfSeq DEF Index
<1>5. /\ x \in Item(p.capacity) /\ x.cell_ix = g
      /\ x.name = p.items[m].name /\ x.value = p.items[m].value /\ x.hash = p.items[m].hash
  BY <1>1, <1>4 DEF Item, Cell
<1>6. /\ q = [capacity |-> q.capacity, cells |-> q.cells, items |-> q.items]
      /\ q.capacity = p.capacity /\ q.cells = [p.cells EXCEPT ![g] = m]
      /\ q.items = [p.items EXCEPT ![m] = x]
  BY DEF Moved
<1> HIDE DEF q, m, x
<1>7. /\ q.items \in Seq(Item(p.capacity)) /\ Len(q.items) = Len(p.items)
      /\ q.items[m] = x /\ \A i \in Index(p) : i # m => q.items[i] = p.items[i]
  BY <1>1, <1>2, <1>5, <1>6, ExceptSeq DEF Index
<1>8. Cell(q) = Cell(p) /\ Index(q) = Index(p)
  BY <1>6, <1>7 DEF Cell, Index
<1>9. \A i \in Index(p) : /\ q.items[i].name = p.items[i].name /\ q.items[i].value = p.items[i].value
                          /\ q.items[i].hash = p.items[i].hash
                          /\ q.items[i].cell_ix = IF i = m THEN g ELSE c(i)
                          /\ Home(q, q.items[i].name) = h(i)
  BY <1>5, <1>6, <1>7 DEF Home
<1>10. /\ q.cells[g] = m /\ \A b \in Cell(p) : b # g => q.cells[b] = p.cells[b]
       /\ q.cells \in [Cell(p) -> {OBJECT_INVALID_IX} \cup (Nat \ {0})]
  <2>1. m \in Nat \ {0}
    BY <1>2 DEF Index
  <2> QED  BY <1>1, <1>6, <2>1
<1>11. \A b \in Cell(p) : Free(q, b) <=> (b # g /\ Free(p, b))
  BY <1>2, <1>3, <1>10 DEF Free
<1>12. Shape(q)
  BY <1>1, <1>6, <1>7, <1>8, <1>10 DEF Shape
<1>13. Named(q)
  BY <1>8, <1>9 DEF Hole, Named
<1>14. j # f
  BY <1>1
<1> HIDE DEF h, c
<1>15. ASSUME NEW i \in Index(p)
       PROVE  q.items[i].cell_ix # j /\ q.cells[q.items[i].cell_ix] = i
  <2>1. CASE i = m
    BY <1>9, <1>10, <2>1
  <2>2. CASE i # m
    <3>1. c(i) # j
      BY <1>2, <1>3, <2>2
    <3> QED  BY <1>3, <1>9, <1>10, <2>2, <3>1
  <2> QED  BY <2>1, <2>2
<1>16. ASSUME NEW b \in Cell(p), b # j, ~Free(q, b)
       PROVE  q.cells[b] \in Index(p) /\ q.items[q.cells[b]].cell_ix = b
  <2>1. CASE b = g
    BY <1>2, <1>9, <1>10, <2>1
  <2>2. CASE b # g
    <3>1. p.cells[b] \in Index(p) /\ c(p.cells[b]) = b
      BY <1>11, <1>16, <2>2 DEF Hole, c
    <3>2. p.cells[b] # m
      BY <1>2, <1>16, <3>1
    <3> QED  BY <1>9, <1>10, <2>2, <3>1, <3>2
  <2> QED  BY <2>1, <2>2
<1>17. ASSUME NEW i \in Index(p), NEW b \in Cell(p), b # j,
              Before(h(i), b, q.items[i].cell_ix)
       PROVE  ~Free(q, b)
  <2>1. \A k \in Index(p) : b # g /\ Before(h(k), b, c(k)) => ~Free(p, b)
    BY DEF Hole, h, c
  <2>2. CASE b = g
    BY <1>11, <2>2
  <2>3. CASE b # g /\ i # m
    BY <1>9, <1>11, <1>17, <2>1, <2>3
  <2>4. CASE b # g /\ i = m
    <3>1. Before(h(m), b, g) /\ Before(h(m), g, j)
      BY <1>9, <1>17, <2>4 DEF h, m
    <3>2. Before(h(m), b, j)
      BY <1>1, <1>2, <1>3, <3>1 DEF Before, Cell
    <3> QED  BY <1>2, <1>11, <2>1, <2>4, <3>2
  <2> QED  BY <2>2, <2>3, <2>4
<1>18. Hole(q, j, f)
  BY <1>1, <1>8, <1>9, <1>11, <1>12, <1>13, <1>14, <1>15, <1>16, <1>17 DEF Hole
<1>19. Kept(q, o, r)
  BY <1>6, <1>7, <1>8, <1>9 DEF Kept
<1> QED  BY <1>18, <1>19 DEF q

\* What the loop has reached after looking at j.
Turn(gap, o, r, a, f, x, j) ==
  /\ gap = [object |-> gap.object, i |-> gap.i, closed |-> gap.closed]
  /\ Hole(gap.object, gap.i, f) /\ Kept(gap.object, o, r)
  /\ gap.closed = TRUE => Closed(gap.object, gap.i)
  /\ gap.closed # TRUE =>
       /\ Ahead(gap.object, gap.i, f, j)
       /\ Steps(o.capacity, f, gap.i) <= Steps(o.capacity, f, j)
       /\ Steps(o.capacity, f, j) = Steps(o.capacity, f, a) + x

\* One assignment after the other.
ItemMoved(p, g, d) == [p EXCEPT !.items[p.cells[d]].cell_ix = g, !.cells[g] = p.cells[d]]

LEMMA ItemMovedIs ==
  ASSUME NEW p, p = [capacity |-> p.capacity, cells |-> p.cells, items |-> p.items],
         NEW d, NEW g
  PROVE  ItemMoved(p, g, d) = Moved(p, g, d)
<1>1. PICK m, cs, is, n : m = p.capacity /\ cs = p.cells /\ is = p.items /\ n = p.cells[d]
  OBVIOUS
<1>2. PICK js : js = [is EXCEPT ![n].cell_ix = g]
  OBVIOUS
<1>3. p = [capacity |-> m, cells |-> cs, items |-> is]
  BY <1>1
<1>4. [p EXCEPT !.items[n].cell_ix = g] = [capacity |-> m, cells |-> cs, items |-> js]
  BY <1>2, <1>3
<1>5. [[capacity |-> m, cells |-> cs, items |-> js] EXCEPT !.cells[g] = n] =
        [capacity |-> m, cells |-> [cs EXCEPT ![g] = n], items |-> js]
  OBVIOUS
<1>6. [p EXCEPT !.items[n].cell_ix = g, !.cells[g] = n] =
        [[p EXCEPT !.items[n].cell_ix = g] EXCEPT !.cells[g] = n]
  BY Zenon
<1> QED  BY <1>1, <1>2, <1>4, <1>5, <1>6, Zenon DEF Moved, ItemMoved

GapMoved(gap, d) == [gap EXCEPT !.i = d,
                                !.object.items[gap.object.cells[d]].cell_ix = gap.i,
                                !.object.cells[gap.i] = gap.object.cells[d]]

LEMMA GapMovedIs ==
  ASSUME NEW gap, gap = [object |-> gap.object, i |-> gap.i, closed |-> gap.closed], NEW d,
         gap.object = [capacity |-> gap.object.capacity, cells |-> gap.object.cells,
                       items    |-> gap.object.items]
  PROVE  GapMoved(gap, d) =
           [object |-> Moved(gap.object, gap.i, d), i |-> d, closed |-> gap.closed]
<1>1. PICK p, g, i, b, n : p = gap.object /\ i = gap.i /\ g = i /\ b = gap.closed /\ n = p.cells[d]
  OBVIOUS
<1>2. PICK e, q : e = [object |-> p, i |-> d, closed |-> b] /\ q = [p EXCEPT !.items[n].cell_ix = g]
  OBVIOUS
<1>3. [gap EXCEPT !.i = d, !.object.items[n].cell_ix = g] = [object |-> q, i |-> d, closed |-> b]
  <2>1. [gap EXCEPT !.i = d, !.object.items[n].cell_ix = g] =
          [[gap EXCEPT !.i = d] EXCEPT !.object.items[n].cell_ix = g]
    BY Zenon
  <2>2. gap = [object |-> p, i |-> i, closed |-> b]
    BY <1>1
  <2>3. [gap EXCEPT !.i = d] = e
    BY <1>2, <2>2
  <2>4. [e EXCEPT !.object.items[n].cell_ix = g] = [e EXCEPT !.object = [p EXCEPT !.items[n].cell_ix = g]]
    BY <1>2
  <2>5. [e EXCEPT !.object = q] = [object |-> q, i |-> d, closed |-> b]
    BY <1>2
  <2> QED  BY <1>2, <2>1, <2>3, <2>4, <2>5, Zenon
<1>4. [[object |-> q, i |-> d, closed |-> b] EXCEPT !.object.cells[g] = n] =
        [object |-> [q EXCEPT !.cells[g] = n], i |-> d, closed |-> b]
  OBVIOUS
<1>5. [gap EXCEPT !.i = d, !.object.items[n].cell_ix = g, !.object.cells[g] = n] =
        [[gap EXCEPT !.i = d, !.object.items[n].cell_ix = g] EXCEPT !.object.cells[g] = n]
  BY Zenon
<1>6. [p EXCEPT !.items[n].cell_ix = g, !.cells[g] = n] =
        [[p EXCEPT !.items[n].cell_ix = g] EXCEPT !.cells[g] = n]
  BY Zenon
<1>7. [p EXCEPT !.items[n].cell_ix = g, !.cells[g] = n] = Moved(p, g, d)
  <2>1. p = [capacity |-> p.capacity, cells |-> p.cells, items |-> p.items]
    BY <1>1
  <2>2. ItemMoved(p, g, d) = Moved(p, g, d)
    BY <2>1, ItemMovedIs
  <2> QED  BY <1>1, <2>2, Zenon DEF ItemMoved
<1>8. GapMoved(gap, d) = [gap EXCEPT !.i = d, !.object.items[n].cell_ix = g, !.object.cells[g] = n]
  BY <1>1, Zenon DEF GapMoved
<1> QED  BY <1>1, <1>2, <1>3, <1>4, <1>5, <1>6, <1>7, <1>8, Zenon

LEMMA TurnTaken ==
  ASSUME NEW gap, NEW o, NEW r, NEW f, NEW x \in Nat, NEW j \in Cell(o), NEW a \in Cell(o),
         Turn(gap, o, r, a, f, x, j), gap.closed \in BOOLEAN
  PROVE  LET d == After(o.capacity, j)
             q == CloseUp(gap, d)
         IN  d \in Cell(o) /\ q.closed \in BOOLEAN /\ Turn(q, o, r, a, f, x + 1, d)
<1> SUFFICES ASSUME NEW d, d = After(o.capacity, j), NEW q, q = CloseUp(gap, d)
             PROVE  d \in Cell(o) /\ q.closed \in BOOLEAN /\ Turn(q, o, r, a, f, x + 1, d)
  OBVIOUS
<1> DEFINE p == gap.object
           g == gap.i
           i == p.cells[d]
           k == p.items[i].hash % p.capacity
<1>1. /\ Hole(p, g, f) /\ Kept(p, o, r) /\ p.capacity = o.capacity /\ Cell(p) = Cell(o)
      /\ o.capacity \in Nat /\ g \in Cell(o) /\ f \in Cell(o) /\ f # g /\ Free(p, f)
      /\ gap = [object |-> p, i |-> g, closed |-> gap.closed]
  BY DEF Turn, Kept, Hole, Shape, Cell
<1>2. d \in Cell(o)
  BY <1>1 DEF After, Cell
<1>3. CASE gap.closed = TRUE
  <2>1. q = [gap EXCEPT !.closed = TRUE]
    BY <1>3, Zenon DEF CloseUp
  <2>2. q = gap
    BY <1>1, <1>3, <2>1
  <2>3. Closed(p, g)
    BY <1>3 DEF Turn
  <2> QED  BY <1>1, <1>2, <1>3, <2>2, <2>3 DEF Turn
<1>4. CASE gap.closed = FALSE /\ Free(p, d)
  <2>1. q = [gap EXCEPT !.closed = TRUE]
    BY <1>4, Zenon DEF CloseUp
  <2>2. q = [object |-> p, i |-> g, closed |-> TRUE]
    BY <1>1, <2>1
  <2>3. Closed(p, g)
    BY <1>1, <1>4, FreeCloses DEF Turn
  <2>4. q.object = p /\ q.i = g /\ q.closed = TRUE /\ q = [object |-> q.object, i |-> q.i, closed |-> q.closed]
    BY <2>2
  <2> QED  BY <1>1, <1>2, <2>3, <2>4 DEF Turn
<1>5. ASSUME gap.closed = FALSE, ~Free(p, d)
      PROVE  /\ Ahead(p, g, f, j) /\ d # g
             /\ Steps(o.capacity, f, g) <= Steps(o.capacity, f, d)
             /\ Steps(o.capacity, f, d) = Steps(o.capacity, f, a) + (x + 1)
             /\ k = Home(p, p.items[i].name)
             /\ MayMove(g, d, k) <=> Before(k, g, d)
  <2>1. /\ Ahead(p, g, f, j) /\ Steps(o.capacity, f, g) <= Steps(o.capacity, f, j)
        /\ Steps(o.capacity, f, j) = Steps(o.capacity, f, a) + x
    BY <1>5 DEF Turn
  <2>2. d # f
    BY <1>1, <1>5
  <2>3. Steps(o.capacity, f, d) = Steps(o.capacity, f, j) + 1
    BY <1>1, <2>2 DEF Steps, After, Cell
  <2>4. Steps(o.capacity, f, j) \in Nat /\ Steps(o.capacity, f, g) \in Nat /\ Steps(o.capacity, f, a) \in Nat
    BY <1>1 DEF Steps, Cell
  <2>5. d # g
    BY <2>1, <2>3, <2>4
  <2>6. i \in Index(p)
    BY <1>1, <1>2, <1>5, <2>5 DEF Hole
  <2>7. k = Home(p, p.items[i].name)
    BY <1>1, <2>6 DEF Hole, Named, Home
  <2>8. k \in Cell(o)
    <3>1. Home(p, p.items[i].name) \in Cell(p)
      <4> HIDE DEF i, p, g
      <4> QED  BY <1>1, <2>6, HoleIs
    <3> QED  BY <1>1, <2>7, <3>1
  <2>9. MayMove(g, d, k) <=> Before(k, g, d)
    <3>1. ASSUME NEW m \in Nat, NEW b \in 0..(m - 1), NEW c \in 0..(m - 1), NEW h \in 0..(m - 1),
                 b # c
          PROVE  MayMove(b, c, h) <=> Before(h, b, c)
      BY <3>1 DEF MayMove, Before
    <3>2. /\ o.capacity \in Nat /\ g # d
          /\ g \in 0..(o.capacity - 1) /\ d \in 0..(o.capacity - 1) /\ k \in 0..(o.capacity - 1)
      BY <1>1, <1>2, <2>5, <2>8 DEF Cell
    <3> HIDE DEF k, g
    <3> QED  BY <3>1, <3>2
  <2>10. /\ Steps(o.capacity, f, g) <= Steps(o.capacity, f, d)
         /\ Steps(o.capacity, f, d) = Steps(o.capacity, f, a) + (x + 1)
    BY <2>1, <2>3, <2>4
  <2> HIDE DEF k, i, p, g
  <2> QED  BY <2>1, <2>5, <2>7, <2>9, <2>10
<1>6. CASE gap.closed = FALSE /\ ~Free(p, d) /\ MayMove(g, d, k)
  <2>1. q = GapMoved(gap, d)
    BY <1>6, Zenon DEF CloseUp, GapMoved
  <2>2. p = [capacity |-> p.capacity, cells |-> p.cells, items |-> p.items]
    BY <1>1 DEF Hole, Shape
  <2>3. q = [object |-> Moved(p, g, d), i |-> d, closed |-> FALSE]
    <3>1. GapMoved(gap, d) = [object |-> Moved(p, g, d), i |-> d, closed |-> gap.closed]
      BY <1>1, <2>2, GapMovedIs
    <3> QED  BY <1>6, <2>1, <3>1, Zenon
  <2>4. Hole(Moved(p, g, d), d, f) /\ Kept(Moved(p, g, d), o, r)
    BY <1>1, <1>2, <1>5, <1>6, ItemMoves
  <2>5. Ahead(Moved(p, g, d), d, f, d)
    BY <2>4, AheadOfHole
  <2>6. q.object = Moved(p, g, d) /\ q.i = d /\ q.closed = FALSE
    BY <2>3
  <2>7. q = [object |-> q.object, i |-> q.i, closed |-> q.closed]
    BY <2>3, <2>6, Zenon
  <2>8. /\ Steps(o.capacity, f, d) <= Steps(o.capacity, f, d)
        /\ Steps(o.capacity, f, d) = Steps(o.capacity, f, a) + (x + 1)
    <3>1. Steps(o.capacity, f, d) <= Steps(o.capacity, f, d)
      BY <1>1, <1>2 DEF Steps, Cell
    <3> QED  BY <1>5, <1>6, <3>1
  <2> HIDE DEF p, g
  <2> QED  BY <1>2, <2>4, <2>5, <2>6, <2>7, <2>8, q.closed # TRUE DEF Turn
<1>7. CASE gap.closed = FALSE /\ ~Free(p, d) /\ ~MayMove(g, d, k)
  <2>1. q = gap
    BY <1>7, Zenon DEF CloseUp
  <2>2. Ahead(p, g, f, d)
    BY <1>1, <1>5, <1>7, ItemStays
  <2> QED  BY <1>1, <1>2, <1>5, <1>7, <2>1, <2>2 DEF Turn
<1> QED  BY <1>3, <1>4, <1>6, <1>7
\* The turns of the loop that removes the item of cell a.
Turning(o, a, x, gap) ==
  IF x = 0
    THEN [object |-> MoveLast(o, o.cells[a]), i |-> a, closed |-> FALSE]
    ELSE CloseUp(gap[x - 1], (a + x) % o.capacity)

Turns(o, a, N, gap) == gap = [x \in 0..N |-> Turning(o, a, x, gap)]

LEMMA TurnsExist ==
  ASSUME NEW o, NEW a, NEW N \in Nat
  PROVE  \E g : Turns(o, a, N, g)
<1> DEFINE Right(g, k) == \A i \in 0..k : g[i] = Turning(o, a, i, g)
           S == {k \in Nat : \E g : Right(g, k)}
<1>1. 0 \in S
  <2> DEFINE g == [i \in {0} |-> Turning(o, a, 0, <<>>)]
  <2>1. Right(g, 0)
    BY DEF Turning
  <2> QED  BY <2>1
<1>2. ASSUME NEW k \in Nat, k \in S PROVE k + 1 \in S
  <2>1. PICK f : Right(f, k)
    BY <1>2
  <2> DEFINE g == [i \in 0..(k + 1) |-> IF i <= k THEN f[i] ELSE Turning(o, a, i, f)]
  <2>2. ASSUME NEW i \in 0..(k + 1) PROVE g[i] = Turning(o, a, i, g)
    <3>1. g[i] = Turning(o, a, i, f)
      BY <2>1
    <3>2. i # 0 => f[i - 1] = g[i - 1]
      OBVIOUS
    <3> HIDE DEF g
    <3> QED  BY <3>1, <3>2 DEF Turning
  <2>3. Right(g, k + 1)
    BY <2>2
  <2>4. k + 1 \in Nat
    OBVIOUS
  <2> HIDE DEF g, Right
  <2> QED  BY <2>3, <2>4
<1>3. N \in S
  <2> HIDE DEF S
  <2> QED  BY <1>1, <1>2, NatSetInduction
<1>4. PICK f : Right(f, N)
  BY <1>3
<1> DEFINE g == [i \in 0..N |-> f[i]]
<1>5. \A i \in 0..N : Turning(o, a, i, f) = Turning(o, a, i, g)
  <2>1. \A i \in 0..N : i # 0 => f[i - 1] = g[i - 1]
    OBVIOUS
  <2> HIDE DEF g
  <2> QED  BY <2>1 DEF Turning
<1>6. g = [i \in 0..N |-> Turning(o, a, i, g)]
  BY <1>4, <1>5
<1> QED  BY <1>6, Zenon DEF Turns

\* With nothing looked for beyond the hole, emptying its cell leaves a table.
LEMMA HoleEmptied ==
  ASSUME NEW p, NEW g, NEW f, Hole(p, g, f), Closed(p, g)
  PROVE  LET q == [p EXCEPT !.cells[g] = OBJECT_INVALID_IX]
         IN  Table(q) /\ q.items = p.items /\ q.capacity = p.capacity
<1> SUFFICES ASSUME NEW q, q = [p EXCEPT !.cells[g] = OBJECT_INVALID_IX]
             PROVE  Table(q) /\ q.items = p.items /\ q.capacity = p.capacity
  OBVIOUS
<1>1. /\ Shape(p) /\ p.items \in Seq(Item(p.capacity)) /\ p.capacity \in Nat
      /\ p.cells \in [Cell(p) -> {OBJECT_INVALID_IX} \cup (Nat \ {0})]
      /\ p = [capacity |-> p.capacity, cells |-> p.cells, items |-> p.items]
      /\ g \in Cell(p)
  BY DEF Hole, Shape
<1>2. q = [capacity |-> p.capacity, cells |-> [p.cells EXCEPT ![g] = OBJECT_INVALID_IX],
           items    |-> p.items]
  BY <1>1
<1>3. /\ q.capacity = p.capacity /\ q.items = p.items
      /\ q.cells = [p.cells EXCEPT ![g] = OBJECT_INVALID_IX]
      /\ q = [capacity |-> q.capacity, cells |-> q.cells, items |-> q.items]
  BY <1>2
<1>4. Cell(q) = Cell(p) /\ Index(q) = Index(p) /\ \A n \in Name : Home(q, n) = Home(p, n)
  BY <1>3 DEF Cell, Index, Home
<1>5. \A c \in Cell(p) : /\ Free(q, c) <=> (c = g \/ Free(p, c))
                         /\ c # g => q.cells[c] = p.cells[c]
  BY <1>1, <1>3 DEF Free
<1>11. q.cells \in [Cell(p) -> {OBJECT_INVALID_IX} \cup (Nat \ {0})]
  BY <1>1, <1>3
<1>6. \A i \in Index(p) : p.items[i].name \in Name /\ p.items[i].cell_ix \in Cell(p)
  BY <1>1, ItemsOf
<1>7. Shape(q)
  BY <1>1, <1>3, <1>4, <1>11 DEF Shape
<1>8. Linked(q)
  <2>1. ASSUME NEW i \in Index(p) PROVE q.cells[q.items[i].cell_ix] = i
    <3>1. p.items[i].cell_ix # g /\ p.cells[p.items[i].cell_ix] = i
      BY DEF Hole
    <3> QED  BY <1>3, <1>5, <1>6, <3>1
  <2>2. ASSUME NEW c \in Cell(p), ~Free(q, c)
        PROVE  q.cells[c] \in Index(p) /\ q.items[q.cells[c]].cell_ix = c
    <3>1. c # g /\ ~Free(p, c) /\ q.cells[c] = p.cells[c]
      BY <1>5, <2>2
    <3>2. p.cells[c] \in Index(p) /\ p.items[p.cells[c]].cell_ix = c
      BY <3>1 DEF Hole
    <3> QED  BY <1>3, <3>1, <3>2
  <2> QED  BY <1>4, <2>1, <2>2 DEF Linked
<1>9. Named(q)
  BY <1>3, <1>4 DEF Hole, Named
<1>10. Reachable(q)
  <2>1. ASSUME NEW i \in Index(p), NEW c \in Cell(p),
               Before(Home(p, p.items[i].name), c, p.items[i].cell_ix)
        PROVE  ~Free(q, c)
    <3>1. c # g
      BY <2>1 DEF Closed
    <3>2. ~Free(p, c)
      BY <2>1, <3>1 DEF Hole
    <3> QED  BY <1>5, <3>1, <3>2
  <2>2. \A i \in Index(q) : q.items[i] = p.items[i] /\ Home(q, q.items[i].name) = Home(p, p.items[i].name)
    BY <1>3, <1>4, <1>6
  <2> QED  BY <1>4, <2>1, <2>2 DEF Reachable
<1> QED  BY <1>3, <1>7, <1>8, <1>9, <1>10 DEF Table
\* An item is removed: the others keep their names and values.
LEMMA ItemRemoved ==
  ASSUME NEW o, Table(o), NEW r \in Index(o), Len(o.items) < o.capacity
  PROVE  LET p == Removed(o, o.items[r].name) IN Table(p) /\ Kept(p, o, r)
<1> DEFINE N == o.capacity - 1
           a == o.items[r].cell_ix
           t == CHOOSE g : Turns(o, a, N, g)
           last == t[N]
           p == Removed(o, o.items[r].name)
           at(x) == (a + x) % o.capacity
<1>1. /\ Shape(o) /\ o.capacity \in Nat \ {0} /\ N \in Nat /\ a \in Cell(o) /\ o.cells[a] = r
      /\ json_object_get_cell_ix(o, o.items[r].name) = a
  BY ItemsOf, NameFound DEF Table, Linked, Shape, Cell
<1>2. p = [last.object EXCEPT !.cells[last.i] = OBJECT_INVALID_IX]
  BY <1>1, Zenon DEF Removed, Turns, Turning
<1>3. \A x \in 0..N : t[x] = Turning(o, a, x, t)
  <2>1. Turns(o, a, N, t)
    BY <1>1, TurnsExist
  <2> HIDE DEF t
  <2>2. t = [x \in 0..N |-> Turning(o, a, x, t)]
    BY <2>1, Zenon DEF Turns
  <2> QED  BY <2>2
<1>4. PICK f \in Cell(o) : Free(o, f)
  BY SomeFree
<1> HIDE DEF t, p
<1>5. /\ at(0) = a
      /\ \A x \in 0..N : at(x) \in Cell(o)
      /\ \A x \in 0..N : x # 0 => at(x) = After(o.capacity, at(x - 1))
  <2>1. ASSUME NEW x \in 0..N PROVE at(x) = Round(o.capacity, a % o.capacity, x)
    <3>1. a \in Nat /\ x \in 0..(o.capacity - 1)
      BY <1>1 DEF Cell
    <3> HIDE DEF a, N
    <3> QED  BY <1>1, <3>1, RoundIs
  <2>2. a % o.capacity = a
    <3>1. PICK m, b : m = o.capacity /\ b = a /\ m \in Nat \ {0} /\ b \in 0..(m - 1)
      BY <1>1 DEF Cell
    <3>2. PICK q \in Nat : q = 0
      OBVIOUS
    <3>3. (q * m + b) % m = b
      BY <3>1, RemainderIs
    <3>4. q * m + b = b
      BY <3>1, <3>2
    <3> QED  BY <3>1, <3>3, <3>4
  <2>3. \A x \in 0..N : at(x) = Round(o.capacity, a, x)
    BY <2>1, <2>2
  <2>4. PICK m \in Nat \ {0} : m = o.capacity
    BY <1>1
  <2>5. \A x \in 0..(m - 1) : at(x) = Round(m, a, x)
    BY <2>3, <2>4
  <2>6. a \in 0..(m - 1)
    BY <1>1, <2>4 DEF Cell
  <2> HIDE DEF at, a
  <2>7. at(0) = a /\ \A x \in 0..(m - 1) : at(x) \in 0..(m - 1)
    BY <2>5, <2>6 DEF Round
  <2>8. ASSUME NEW x \in 0..(m - 1), x # 0 PROVE at(x) = After(m, at(x - 1))
    <3>1. at(x) = Round(m, a, x) /\ at(x - 1) = Round(m, a, x - 1)
      BY <2>5, <2>8, x - 1 \in 0..(m - 1)
    <3> QED  BY <2>6, <2>8, <3>1 DEF Round, After
  <2> QED  BY <2>4, <2>7, <2>8 DEF Cell
<1> DEFINE Ok(x) == t[x].closed \in BOOLEAN /\ Turn(t[x], o, r, a, f, x, at(x))
           S == {x \in Nat : x <= N => Ok(x)}
<1> HIDE DEF at
<1>6. 0 \in S
  <2>1. t[0] = [object |-> MoveLast(o, r), i |-> a, closed |-> FALSE]
    <3>1. t[0] = Turning(o, a, 0, t)
      BY <1>1, <1>3
    <3> HIDE DEF a
    <3> QED  BY <1>1, <3>1 DEF Turning
  <2>2. Hole(MoveLast(o, r), a, f) /\ Kept(MoveLast(o, r), o, r)
    BY <1>4, MovedLast
  <2>3. Ahead(MoveLast(o, r), a, f, a)
    BY <2>2, AheadOfHole
  <2>4. /\ t[0].object = MoveLast(o, r) /\ t[0].i = a /\ t[0].closed = FALSE
        /\ t[0] = [object |-> t[0].object, i |-> t[0].i, closed |-> t[0].closed]
    BY <2>1
  <2>5. Steps(o.capacity, f, a) <= Steps(o.capacity, f, a) /\ Steps(o.capacity, f, a) = Steps(o.capacity, f, a) + 0
    BY <1>1, <1>4 DEF Steps, Cell
  <2> QED  BY <1>5, <2>2, <2>3, <2>4, <2>5 DEF Turn
<1>7. ASSUME NEW k \in Nat, k \in S PROVE k + 1 \in S
  <2> SUFFICES ASSUME k + 1 <= N PROVE Ok(k + 1)
    OBVIOUS
  <2>1. k \in 0..N /\ k + 1 \in 0..N /\ k + 1 # 0 /\ (k + 1) - 1 = k
    BY <1>1
  <2>2. Ok(k)
    BY <1>7, <2>1
  <2>3. t[k + 1] = CloseUp(t[k], at(k + 1))
    <3> HIDE DEF N
    <3> QED  BY <1>3, <2>1 DEF Turning, at
  <2>4. at(k + 1) = After(o.capacity, at(k)) /\ at(k) \in Cell(o)
    <3> HIDE DEF N
    <3> QED  BY <1>5, <2>1
  <2> QED  BY <1>1, <2>2, <2>3, <2>4, TurnTaken
<1>8. Ok(N)
  <2>1. N \in S
    <3> HIDE DEF S
    <3> QED  BY <1>1, <1>6, <1>7, NatSetInduction
  <2> QED  BY <1>1, <2>1
<1>9. Hole(last.object, last.i, f) /\ Kept(last.object, o, r) /\ Closed(last.object, last.i)
  <2>1. Hole(last.object, last.i, f) /\ Kept(last.object, o, r)
    BY <1>8 DEF Turn
  <2>2. CASE last.closed = TRUE
    BY <1>8, <2>1, <2>2 DEF Turn
  <2>3. CASE last.closed # TRUE
    <3>1. Steps(o.capacity, f, at(N)) = Steps(o.capacity, f, a) + N
      BY <1>8, <2>3 DEF Turn
    <3>2. f # a
      BY <1>1, <1>4 DEF Free, OBJECT_INVALID_IX, Index
    <3>3. at(N) \in Cell(o)
      BY <1>1, <1>5
    <3>4. PICK b \in Cell(o) : b = at(N)
      BY <3>3
    <3>5. Steps(o.capacity, f, b) = Steps(o.capacity, f, a) + (o.capacity - 1)
      BY <3>1, <3>4
    <3>6. FALSE
      <4> HIDE DEF a
      <4> QED  BY <1>1, <1>4, <3>2, <3>5 DEF Steps, Cell
    <3> QED  BY <3>6
  <2> QED  BY <2>2, <2>3
<1>10. Table(p) /\ p.items = last.object.items /\ p.capacity = last.object.capacity
  <2> HIDE DEF last
  <2> QED  BY <1>2, <1>9, HoleEmptied
<1>11. Kept(p, o, r)
  BY <1>9, <1>10 DEF Kept, Index
<1> QED  BY <1>10, <1>11 DEF p

-----------------------------------------------------------------------------
(* The table implements a map *)

\* A table with no more items than it has room for.
Good(o) ==
  /\ Table(o)
  /\ o.capacity = 0 \/ o.capacity >= 2
  /\ Len(o.items) <= item_capacity(o)

\* What a table says, seen through its own lookups.
Says(o) == [n \in {m \in Name : Found(o, m)} |-> json_object_getn_value(o, n)]

LEMMA SaysIs ==
  ASSUME NEW o, Table(o)
  PROVE  /\ DOMAIN Says(o) = Names(o)
         /\ \A i \in Index(o) : Says(o)[o.items[i].name] = o.items[i].value
<1>1. {m \in Name : Found(o, m)} = Names(o)
  BY Contents
<1>2. \A n \in Names(o) : Says(o)[n] = json_object_getn_value(o, n)
  BY <1>1 DEF Says
<1>3. \A i \in Index(o) : o.items[i].name \in Names(o)
  BY DEF Names
<1> QED  BY <1>1, <1>2, <1>3, Contents DEF Says

LEMMA SaysAll ==
  ASSUME NEW o, Table(o), NEW entries, entries = [n \in DOMAIN entries |-> entries[n]],
         DOMAIN entries = Names(o), \A i \in Index(o) : entries[o.items[i].name] = o.items[i].value
  PROVE  Says(o) = entries
<1>1. /\ DOMAIN Says(o) = Names(o)
      /\ \A i \in Index(o) : Says(o)[o.items[i].name] = o.items[i].value
  BY SaysIs
<1>2. ASSUME NEW n \in Names(o) PROVE Says(o)[n] = entries[n]
  BY <1>1 DEF Names
<1>3. Says(o) = [n \in DOMAIN Says(o) |-> Says(o)[n]]
  BY DEF Says
<1> HIDE DEF Says
<1> QED  BY <1>1, <1>2, <1>3

LEMMA RoomMade ==
  ASSUME NEW o, Good(o)
  PROVE  LET p == WithRoom(o) IN
         /\ Table(p) /\ p.capacity >= 2 /\ Len(p.items) < item_capacity(p)
         /\ item_capacity(p) \in Nat /\ item_capacity(p) < p.capacity
         /\ Names(p) = Names(o) /\ Says(p) = Says(o)
<1>1. o.capacity \in Nat /\ Len(o.items) \in Nat
  BY ItemsOf DEF Good, Table, Shape
<1>2. CASE Len(o.items) < item_capacity(o)
  <2>1. WithRoom(o) = o
    BY <1>2 DEF WithRoom
  <2>2. o.capacity # 0
    <3>1. (0 * 7) \div 10 = 0
      OBVIOUS
    <3>2. o.capacity = 0 => item_capacity(o) = 0
      BY <3>1, Zenon DEF item_capacity
    <3> QED  BY <1>1, <1>2, <3>2
  <2> QED  BY <1>1, <1>2, <2>1, <2>2, RoomIs DEF Good, item_capacity
<1>3. CASE ~(Len(o.items) < item_capacity(o))
  <2>1. PICK p : p = json_object_grow_and_rehash(o)
    OBVIOUS
  <2>2. /\ Table(p)
        /\ p.capacity >= 2 /\ p.capacity >= o.capacity * 2
        /\ Len(p.items) = Len(o.items)
        /\ \A i \in Index(o) : /\ p.items[i].name = o.items[i].name
                              /\ p.items[i].value = o.items[i].value
    BY <2>1, Rehashed DEF Good
  <2>3. p.capacity \in Nat
    BY <2>2 DEF Table, Shape
  <2>4. Len(p.items) < item_capacity(p)
    BY <1>1, <1>3, <2>2, <2>3, RoomIs DEF Good, item_capacity
  <2>5. item_capacity(p) \in Nat /\ item_capacity(p) < p.capacity
    BY <2>2, <2>3, RoomIs DEF item_capacity
  <2>6. Index(p) = Index(o)
    BY <2>2 DEF Index
  <2>7. Names(p) = Names(o)
    BY <2>2, <2>6 DEF Names
  <2>8. Says(p) = Says(o)
    <3>1. /\ DOMAIN Says(o) = Names(o)
          /\ \A i \in Index(o) : Says(o)[o.items[i].name] = o.items[i].value
      BY SaysIs DEF Good
    <3>2. Says(o) = [n \in DOMAIN Says(o) |-> Says(o)[n]]
      BY DEF Says
    <3> HIDE DEF Says
    <3> QED  BY <2>2, <2>6, <2>7, <3>1, <3>2, SaysAll
  <2>9. WithRoom(o) = p
    BY <1>3, <2>1 DEF WithRoom
  <2> QED  BY <2>2, <2>4, <2>5, <2>7, <2>8, <2>9
<1> QED  BY <1>2, <1>3
\* What is said with a name added, or its value replaced.
WithEntry(s, n, v) == [m \in DOMAIN s \cup {n} |-> IF m = n THEN v ELSE s[m]]

\* Each operation of the object is one of the map.
LEMMA AddIsPut ==
  ASSUME NEW o, Good(o), NEW n \in Name, NEW v \in Value, ~Found(o, n)
  PROVE  LET p == Added(o, n, v) IN
         /\ Good(p)
         /\ Says(p) = WithEntry(Says(o), n, v)
<1>1. PICK w : w = WithRoom(o)
  OBVIOUS
<1>2. /\ Table(w) /\ w.capacity >= 2 /\ Len(w.items) < item_capacity(w)
      /\ item_capacity(w) \in Nat /\ item_capacity(w) < w.capacity
      /\ Names(w) = Names(o) /\ Says(w) = Says(o)
  BY <1>1, RoomMade
<1>3. w.capacity \in Nat /\ Len(w.items) \in Nat
  BY <1>2, ItemsOf DEF Table, Shape
<1>4. n \notin Names(w)
  BY <1>2, Contents DEF Good
<1>5. PICK p : p = Insert(w, n, v)
  OBVIOUS
<1>6. /\ Table(p) /\ p.capacity = w.capacity /\ Len(p.items) = Len(w.items) + 1
      /\ \A i \in Index(w) : p.items[i] = w.items[i]
      /\ p.items[Len(w.items) + 1].name = n /\ p.items[Len(w.items) + 1].value = v
  <2>1. Len(w.items) < w.capacity
    BY <1>2, <1>3
  <2> QED  BY <1>2, <1>4, <1>5, <2>1, Inserted
<1>7. Good(p)
  BY <1>2, <1>3, <1>6 DEF Good, item_capacity
<1>8. Index(p) = Index(w) \cup {Len(w.items) + 1} /\ Len(w.items) + 1 \notin Index(w)
  BY <1>3, <1>6 DEF Index
<1>9. Names(p) = Names(w) \cup {n}
  BY <1>6, <1>8 DEF Names
<1> DEFINE entries == [m \in DOMAIN Says(o) \cup {n} |-> IF m = n THEN v ELSE Says(o)[m]]
<1>10. /\ DOMAIN Says(w) = Names(w)
       /\ \A i \in Index(w) : Says(w)[w.items[i].name] = w.items[i].value
  BY <1>2, SaysIs
<1>11. Says(p) = entries
  <2>1. DOMAIN entries = Names(p) /\ entries = [m \in DOMAIN entries |-> entries[m]]
    BY <1>2, <1>9, <1>10
  <2>2. ASSUME NEW i \in Index(p) PROVE entries[p.items[i].name] = p.items[i].value
    <3>1. CASE i = Len(w.items) + 1
      BY <1>6, <3>1
    <3>2. CASE i \in Index(w)
      <4>1. w.items[i].name \in Names(w) /\ w.items[i].name # n
        BY <1>4, <3>2 DEF Names
      <4>2. entries[w.items[i].name] = Says(w)[w.items[i].name]
        BY <1>2, <1>10, <4>1
      <4> HIDE DEF entries
      <4> QED  BY <1>6, <1>10, <3>2, <4>2
    <3> QED  BY <1>8, <3>1, <3>2
  <2> HIDE DEF entries
  <2> QED  BY <1>6, <2>1, <2>2, SaysAll
<1> QED  BY <1>1, <1>5, <1>7, <1>11, Zenon DEF Added, WithEntry

LEMMA ReplaceIsPut ==
  ASSUME NEW o, Good(o), NEW n \in Name, NEW v \in Value, Found(o, n)
  PROVE  LET p == Replaced(o, n, v) IN
         /\ Good(p)
         /\ Says(p) = WithEntry(Says(o), n, v)
<1>1. Table(o) /\ n \in Names(o)
  BY Contents DEF Good
<1>2. PICK i \in Index(o) : n = o.items[i].name
  BY <1>1 DEF Names
<1>3. PICK p : p = Replaced(o, n, v)
  OBVIOUS
<1>4. /\ Table(p) /\ p.capacity = o.capacity /\ Len(p.items) = Len(o.items)
      /\ \A j \in Index(o) : /\ p.items[j].name = o.items[j].name
                            /\ p.items[j].value = IF j = i THEN v ELSE o.items[j].value
  BY <1>1, <1>2, <1>3, ValueReplaced
<1>5. Good(p) /\ Index(p) = Index(o)
  BY <1>4 DEF Good, item_capacity, Index
<1>6. Names(p) = Names(o)
  BY <1>4, <1>5 DEF Names
<1> DEFINE entries == [m \in DOMAIN Says(o) \cup {n} |-> IF m = n THEN v ELSE Says(o)[m]]
<1>7. /\ DOMAIN Says(o) = Names(o)
      /\ \A j \in Index(o) : Says(o)[o.items[j].name] = o.items[j].value
  BY <1>1, SaysIs
<1>8. DOMAIN entries = Names(p) /\ entries = [m \in DOMAIN entries |-> entries[m]]
  BY <1>1, <1>6, <1>7
<1>9. ASSUME NEW j \in Index(o) PROVE entries[p.items[j].name] = p.items[j].value
  <2>1. o.items[j].name \in Names(o) /\ (o.items[j].name = n <=> j = i)
    BY <1>1, <1>2 DEF Names, Table, Named
  <2>2. entries[o.items[j].name] = IF o.items[j].name = n THEN v ELSE Says(o)[o.items[j].name]
    BY <1>7, <2>1
  <2> HIDE DEF entries
  <2> QED  BY <1>4, <1>7, <2>1, <2>2
<1> HIDE DEF entries
<1>10. Says(p) = entries
  BY <1>4, <1>5, <1>8, <1>9, SaysAll
<1> QED  BY <1>3, <1>5, <1>10, Zenon DEF entries, WithEntry

LEMMA RemoveIsRemove ==
  ASSUME NEW o, Good(o), NEW n \in Name, Found(o, n)
  PROVE  LET p == Removed(o, n) IN
         /\ Good(p) /\ n \in DOMAIN Says(o)
         /\ Says(p) = [m \in DOMAIN Says(o) \ {n} |-> Says(o)[m]]
<1>1. Table(o) /\ n \in Names(o)
  BY Contents DEF Good
<1>2. PICK r \in Index(o) : n = o.items[r].name
  BY <1>1 DEF Names
<1>3. PICK p : p = Removed(o, n)
  OBVIOUS
<1>4. o.capacity \in Nat /\ Len(o.items) \in Nat /\ Len(o.items) <= item_capacity(o)
  BY ItemsOf DEF Good, Table, Shape
<1>5. Len(o.items) < o.capacity
  <2>1. Len(o.items) >= 1
    BY <1>4 DEF Index
  <2>2. o.capacity = 0 => item_capacity(o) = 0
    <3>1. (0 * 7) \div 10 = 0
      OBVIOUS
    <3> QED  BY <3>1, Zenon DEF item_capacity
  <2> QED  BY <1>4, <2>1, <2>2, RoomIs DEF item_capacity
<1>6. Table(p) /\ Kept(p, o, r)
  BY <1>1, <1>2, <1>3, <1>5, ItemRemoved
<1>7. PICK N \in Nat : N = Len(o.items) /\ Index(o) = 1..N /\ Index(p) = 1..(N - 1)
  BY <1>4, <1>6 DEF Index, Kept
<1>8. Good(p)
  BY <1>4, <1>6 DEF Good, Kept, item_capacity
<1> DEFINE at(i) == IF i = r THEN N ELSE i
<1>9. /\ \A i \in 1..(N - 1) : /\ p.items[i].name = o.items[at(i)].name
                              /\ p.items[i].value = o.items[at(i)].value
                              /\ at(i) \in 1..N /\ at(i) # r
      /\ \A k \in 1..N : k # r => \E i \in 1..(N - 1) : at(i) = k
  <2>1. ASSUME NEW k \in 1..N, k # r PROVE \E i \in 1..(N - 1) : at(i) = k
    <3>1. CASE k = N
      <4>1. r \in 1..(N - 1) /\ at(r) = k
        BY <1>7, <2>1, <3>1
      <4> QED  BY <4>1
    <3>2. CASE k # N
      <4>1. k \in 1..(N - 1) /\ at(k) = k
        BY <1>7, <2>1, <3>2
      <4> QED  BY <4>1
    <3> QED  BY <3>1, <3>2
  <2>2. \A i \in 1..(N - 1) : /\ p.items[i].name = o.items[at(i)].name
                             /\ p.items[i].value = o.items[at(i)].value
    BY <1>6, <1>7, Zenon DEF Kept
  <2>3. \A i \in 1..(N - 1) : at(i) \in 1..N /\ at(i) # r
    BY <1>7
  <2> HIDE DEF at
  <2> QED  BY <2>1, <2>2, <2>3
<1>10. \A i, j \in 1..N : o.items[i].name = o.items[j].name => i = j
  BY <1>1, <1>7 DEF Table, Named
<1> HIDE DEF at
<1>11. Names(p) = Names(o) \ {n}
  <2>1. ASSUME NEW i \in 1..(N - 1) PROVE p.items[i].name \in Names(o) \ {n}
    BY <1>2, <1>7, <1>9, <1>10 DEF Names
  <2>2. ASSUME NEW k \in 1..N, o.items[k].name # n PROVE o.items[k].name \in Names(p)
    <3>1. PICK i \in 1..(N - 1) : at(i) = k
      BY <1>2, <1>9, <2>2
    <3> QED  BY <1>7, <1>9, <3>1 DEF Names
  <2>3. \A m \in Names(p) : m \in Names(o) \ {n}
    BY <1>7, <2>1 DEF Names
  <2>4. \A m \in Names(o) : m # n => m \in Names(p)
    BY <1>7, <2>2 DEF Names
  <2> QED  BY <2>3, <2>4
<1> DEFINE entries == [m \in DOMAIN Says(o) \ {n} |-> Says(o)[m]]
<1>12. /\ DOMAIN Says(o) = Names(o)
       /\ \A j \in Index(o) : Says(o)[o.items[j].name] = o.items[j].value
  BY <1>1, SaysIs
<1>13. DOMAIN entries = Names(p) /\ entries = [m \in DOMAIN entries |-> entries[m]]
  BY <1>11, <1>12
<1>14. ASSUME NEW i \in Index(p) PROVE entries[p.items[i].name] = p.items[i].value
  <2>1. p.items[i].name \in DOMAIN entries
    BY <1>13 DEF Names
  <2>2. entries[p.items[i].name] = Says(o)[p.items[i].name]
    BY <2>1
  <2> HIDE DEF entries
  <2>3. /\ p.items[i].name = o.items[at(i)].name /\ p.items[i].value = o.items[at(i)].value
        /\ at(i) \in Index(o)
    BY <1>7, <1>9
  <2> QED  BY <1>12, <2>2, <2>3
<1> HIDE DEF entries
<1>15. Says(p) = entries
  BY <1>6, <1>13, <1>14, SaysAll
<1> QED  BY <1>1, <1>3, <1>8, <1>12, <1>15 DEF entries

LEMMA ClearIsClear ==
  ASSUME NEW o, Good(o)
  PROVE  Good(Cleared(o)) /\ Says(Cleared(o)) = [n \in {} |-> n]
<1>1. PICK p : p = Cleared(o)
  OBVIOUS
<1>2. Table(p) /\ p.capacity = o.capacity /\ p.items = <<>> /\ Len(p.items) = 0
  BY <1>1, TableCleared DEF Good
<1>3. Good(p)
  <2>1. o.capacity \in Nat
    BY DEF Good, Table, Shape
  <2> QED  BY <1>2, <2>1, RoomIs DEF Good, item_capacity
<1>4. Names(p) = {}
  BY <1>2 DEF Names, Index
<1>5. DOMAIN Says(p) = {}
  BY <1>2, <1>4, SaysIs
<1>6. Says(p) = [n \in {} |-> n]
  BY <1>5 DEF Says
<1> QED  BY <1>1, <1>3, <1>6

\* Between two calls the items are where their names are looked for, whatever
\* the names hash to and however the table has grown (parson.c:464-694).
THEOREM TablesAreGood == Spec => []Good(object)
<1>1. Init => Good(object)
  <2> SUFFICES ASSUME object = json_object_init(0) PROVE Good(object)
    BY DEF Init
  <2>1. Table(object) /\ object.capacity = 0 /\ Len(object.items) = 0
    BY EmptyTable
  <2> QED  BY <2>1 DEF Good, item_capacity
<1>2. Good(object) /\ [Next]_object => Good(object)'
  <2> SUFFICES ASSUME Good(object), [Next]_object PROVE Good(object')
    OBVIOUS
  <2>1. CASE UNCHANGED object
    BY <2>1
  <2>2. ASSUME NEW n \in Name, NEW v \in Value, json_object_add(n, v) PROVE Good(object')
    BY <2>2, AddIsPut DEF json_object_add
  <2>3. ASSUME NEW n \in Name, NEW v \in Value, json_object_set_value(n, v) PROVE Good(object')
    BY <2>3, ReplaceIsPut DEF json_object_set_value
  <2>4. ASSUME NEW n \in Name, json_object_remove(n) PROVE Good(object')
    BY <2>4, RemoveIsRemove DEF json_object_remove
  <2>5. CASE json_object_clear
    BY <2>5, ClearIsClear DEF json_object_clear
  <2> QED  BY <2>1, <2>2, <2>3, <2>4, <2>5 DEF Next
<1> QED  BY <1>1, <1>2, PTL DEF Spec

\* Every call on an object, those that fail and those that grow the table
\* among them, does what it does to a map of at most so many names, or nothing
\* (parson.c:464-694).
THEOREM ObjectIsAMap == Spec => MapSpec
<1>1. map = Says(object) /\ map' = Says(object')
  BY DEF map, Says, Found, json_object_getn_value
<1>2. Init => Map!Init
  <2> SUFFICES ASSUME object = json_object_init(0) PROVE map = [n \in {} |-> n]
    BY DEF Init, Map!Init
  <2>1. Table(object) /\ Len(object.items) = 0
    BY EmptyTable
  <2>2. Names(object) = {}
    BY <2>1 DEF Names, Index
  <2>3. DOMAIN Says(object) = {}
    BY <2>1, <2>2, SaysIs
  <2> QED  BY <1>1, <2>3 DEF Says
<1>3. Good(object) /\ [Next]_object => [Map!Next]_map
  <2> SUFFICES ASSUME Good(object), [Next]_object PROVE Map!Next \/ UNCHANGED map
    OBVIOUS
  <2> HIDE DEF map
  <2>1. CASE UNCHANGED object
    BY <1>1, <2>1
  <2>2. ASSUME NEW n \in Name, NEW v \in Value, json_object_add(n, v) PROVE Map!Next
    <3>1. Says(object') = WithEntry(Says(object), n, v)
      BY <2>2, AddIsPut DEF json_object_add
    <3>2. map' = WithEntry(map, n, v)
      BY <1>1, <3>1, Zenon
    <3>3. \E m \in Name, w \in Value :
            map' = [k \in DOMAIN map \cup {m} |-> IF k = m THEN w ELSE map[k]]
      BY <3>2, Zenon DEF WithEntry
    <3> QED  BY <3>3 DEF Map!Next, Map!Put
  <2>3. ASSUME NEW n \in Name, NEW v \in Value, json_object_set_value(n, v) PROVE Map!Next
    <3>1. Says(object') = WithEntry(Says(object), n, v)
      BY <2>3, ReplaceIsPut DEF json_object_set_value
    <3>2. map' = WithEntry(map, n, v)
      BY <1>1, <3>1, Zenon
    <3>3. \E m \in Name, w \in Value :
            map' = [k \in DOMAIN map \cup {m} |-> IF k = m THEN w ELSE map[k]]
      BY <3>2, Zenon DEF WithEntry
    <3> QED  BY <3>3 DEF Map!Next, Map!Put
  <2>4. ASSUME NEW n \in Name, json_object_remove(n) PROVE Map!Next
    <3>1. /\ n \in DOMAIN Says(object)
          /\ Says(object') = [m \in DOMAIN Says(object) \ {n} |-> Says(object)[m]]
      BY <2>4, RemoveIsRemove DEF json_object_remove
    <3> QED  BY <1>1, <3>1, Zenon DEF Map!Next, Map!Remove
  <2>5. CASE json_object_clear
    <3>1. Says(object') = [n \in {} |-> n]
      BY <2>5, ClearIsClear DEF json_object_clear
    <3> QED  BY <1>1, <3>1, Zenon DEF Map!Next, Map!Clear
  <2> QED  BY <2>1, <2>2, <2>3, <2>4, <2>5 DEF Next
<1> QED  BY <1>2, <1>3, TablesAreGood, PTL DEF Spec, MapSpec, Map!Spec

-----------------------------------------------------------------------------
(* Bytes, and the check for UTF-8 *)

\* The bytes that promise so many, and the others of a character.
Lead0 == 128..193 \cup 245..255
Lead1 == 0..127
Lead2 == 194..223
Lead3 == 224..239
Lead4 == 240..244
Later  == 128..191

LEMMA LeadsAreBytes ==
  ASSUME NEW b
  PROVE  b \in Byte <=> b \in Lead0 \/ b \in Lead1 \/ b \in Lead2 \/ b \in Lead3 \/ b \in Lead4
BY SMT DEF Byte, Lead0, Lead1, Lead2, Lead3, Lead4

\* How many bytes the first one of a character promises.
LEMMA NumBytes ==
  ASSUME NEW c \in Byte
  PROVE  /\ c \in Lead0 => num_bytes_in_utf8_sequence(c) = 0
         /\ c \in Lead1 => num_bytes_in_utf8_sequence(c) = 1
         /\ c \in Lead2 => num_bytes_in_utf8_sequence(c) = 2
         /\ c \in Lead3 => num_bytes_in_utf8_sequence(c) = 3
         /\ c \in Lead4 => num_bytes_in_utf8_sequence(c) = 4
<1>1. PICK d \in Int, e \in Int, g \in Int : d = c \div 64 /\ e = c \div 32 /\ g = c \div 16
  BY DEF Byte
<1>2. (d = 2 <=> c \in 128..191) /\ (e = 6 <=> c \in 192..223) /\ (g = 14 <=> c \in 224..239)
  BY <1>1 DEF Byte
<1>3. num_bytes_in_utf8_sequence(c) =
        CASE c \in {192, 193} \/ c > 244 \/ d = 2 -> 0 [] c < 128 -> 1
          [] e = 6 /\ c \notin {192, 193} -> 2
          [] g = 14 -> 3 [] OTHER -> 4
  BY <1>1, Zenon DEF num_bytes_in_utf8_sequence, IS_CONT
<1> QED  BY <1>2, <1>3, SMT DEF Lead0, Lead1, Lead2, Lead3, Lead4

LEMMA ContinuationByte ==
  ASSUME NEW b \in Byte PROVE IS_CONT(b) <=> b \in Later
BY DEF IS_CONT, Byte, Later

LEMMA Continues ==
  ASSUME NEW s \in Seq(Byte), NEW i \in Nat \ {0}
  PROVE  IS_CONT(ByteAt(s, i)) <=> i <= Len(s) /\ s[i] \in Later
<1>1. CASE i \in DOMAIN s
  <2>1. i <= Len(s) /\ s[i] \in Byte
    BY <1>1, ElementOfSeq
  <2>2. ByteAt(s, i) = s[i]
    BY <1>1 DEF ByteAt
  <2> QED  BY <2>1, <2>2, ContinuationByte
<1>2. CASE i \notin DOMAIN s
  <2>1. ~(i <= Len(s))
    BY <1>2
  <2>2. ByteAt(s, i) = 0 /\ 0 \div 64 = 0
    BY <1>2 DEF ByteAt
  <2> QED  BY <2>1, <2>2 DEF IS_CONT
<1> QED  BY <1>1, <1>2

\* The rows of the table.
Form1 == <<0..127, {}, 0>>
Form2 == <<194..223, 128..191, 0>>
Form3 == <<{224}, 160..191, 1>>
Form4 == <<225..236, 128..191, 1>>
Form5 == <<{237}, 128..159, 1>>
Form6 == <<238..239, 128..191, 1>>
Form7 == <<{240}, 144..191, 2>>
Form8 == <<241..243, 128..191, 2>>
Form9 == <<{244}, 128..143, 2>>

LEMMA FormsAre == Forms = {Form1, Form2, Form3, Form4, Form5, Form6, Form7, Form8, Form9}
BY Zenon DEF Forms, Form1, Form2, Form3, Form4, Form5, Form6, Form7, Form8, Form9

LEMMA FormsGoOn ==
  /\ Form2[2] # {} /\ Form3[2] # {} /\ Form4[2] # {} /\ Form5[2] # {}
  /\ Form6[2] # {} /\ Form7[2] # {} /\ Form8[2] # {} /\ Form9[2] # {}
<1>2. 128 \in Form2[2]
  BY DEF Form2
<1>3. 160 \in Form3[2]
  BY DEF Form3
<1>4. 128 \in Form4[2]
  BY DEF Form4
<1>5. 128 \in Form5[2]
  BY DEF Form5
<1>6. 128 \in Form6[2]
  BY DEF Form6
<1>7. 144 \in Form7[2]
  BY DEF Form7
<1>8. 128 \in Form8[2]
  BY DEF Form8
<1>9. 128 \in Form9[2]
  BY DEF Form9
<1> QED  BY <1>2, <1>3, <1>4, <1>5, <1>6, <1>7, <1>8, <1>9, Zenon

\* What it takes to have a form.
LEMMA HasOne ==
  ASSUME NEW s \in Seq(Byte), NEW i \in 1..Len(s)
  PROVE  HasForm(s, i, Form1) <=> s[i] \in Form1[1]
<1>1. FormLength(Form1) = 1
  BY DEF Form1, FormLength
<1>2. i + 1 - 1 = i /\ ~(1 > 1) /\ i <= Len(s) /\ \A k : ~(k \in (i + 2)..(i + 1 - 1))
  OBVIOUS
<1> QED  BY <1>1, <1>2 DEF HasForm

LEMMA HasMore ==
  ASSUME NEW s \in Seq(Byte), NEW i \in 1..Len(s), NEW f, NEW n \in 0..2, f[2] # {}, f[3] = n
  PROVE  HasForm(s, i, f) <=>
           /\ i + 1 + n <= Len(s) /\ s[i] \in f[1] /\ s[i + 1] \in f[2]
           /\ n > 0 => s[i + 2] \in Later
           /\ n > 1 => s[i + 3] \in Later
<1>1. FormLength(f) = 2 + n
  BY DEF FormLength
<1>2. PICK l, C : l = Len(s) /\ C = 128..191 /\ C = Later
  BY DEF Later
<1>3. HasForm(s, i, f) <=>
        /\ i + 1 + n <= l /\ s[i] \in f[1] /\ s[i + 1] \in f[2]
        /\ \A k \in (i + 2)..(i + 1 + n) : s[k] \in C
  <2>1. i + (2 + n) - 1 = i + 1 + n /\ 2 + n > 1
    OBVIOUS
  <2> QED  BY <1>1, <1>2, <2>1 DEF HasForm
<1>4. (\A k \in (i + 2)..(i + 1 + n) : s[k] \in C) <=>
        (n > 0 => s[i + 2] \in C) /\ (n > 1 => s[i + 3] \in C)
  <2>1. \A k \in (i + 2)..(i + 1 + n) : k = i + 2 \/ (n > 1 /\ k = i + 3)
    OBVIOUS
  <2>2. n > 0 => i + 2 \in (i + 2)..(i + 1 + n)
    OBVIOUS
  <2>3. n > 1 => i + 3 \in (i + 2)..(i + 1 + n)
    OBVIOUS
  <2>4. ASSUME NEW k \in (i + 2)..(i + 1 + n) PROVE n > 0
    BY <2>4
  <2> QED  BY <2>1, <2>2, <2>3, <2>4
<1> QED  BY <1>2, <1>3, <1>4, Zenon

LEMMA HasTwo ==
  ASSUME NEW s \in Seq(Byte), NEW i \in 1..Len(s), NEW f, f[2] # {}, f[3] = 0
  PROVE  HasForm(s, i, f) <=> i + 1 <= Len(s) /\ s[i] \in f[1] /\ s[i + 1] \in f[2]
<1>1. PICK n \in 0..2 : n = 0
  OBVIOUS
<1>2. HasForm(s, i, f) <=> i + 1 + n <= Len(s) /\ s[i] \in f[1] /\ s[i + 1] \in f[2]
  BY <1>1, HasMore
<1>3. i + 1 + n = i + 1
  BY <1>1
<1> QED  BY <1>2, <1>3, Zenon

LEMMA HasThree ==
  ASSUME NEW s \in Seq(Byte), NEW i \in 1..Len(s), NEW f, f[2] # {}, f[3] = 1
  PROVE  HasForm(s, i, f) <=>
           i + 2 <= Len(s) /\ s[i] \in f[1] /\ s[i + 1] \in f[2] /\ s[i + 2] \in Later
<1>1. PICK n \in 0..2 : n = 1
  OBVIOUS
<1>2. HasForm(s, i, f) <=>
        i + 1 + n <= Len(s) /\ s[i] \in f[1] /\ s[i + 1] \in f[2] /\ s[i + 2] \in Later
  BY <1>1, HasMore
<1>3. i + 1 + n = i + 2
  BY <1>1
<1> QED  BY <1>2, <1>3, Zenon

LEMMA HasFour ==
  ASSUME NEW s \in Seq(Byte), NEW i \in 1..Len(s), NEW f, f[2] # {}, f[3] = 2
  PROVE  HasForm(s, i, f) <=>
           /\ i + 3 <= Len(s) /\ s[i] \in f[1] /\ s[i + 1] \in f[2]
           /\ s[i + 2] \in Later /\ s[i + 3] \in Later
<1>1. PICK n \in 0..2 : n = 2
  OBVIOUS
<1>2. HasForm(s, i, f) <=>
        /\ i + 1 + n <= Len(s) /\ s[i] \in f[1] /\ s[i + 1] \in f[2]
        /\ s[i + 2] \in Later /\ s[i + 3] \in Later
  BY <1>1, HasMore
<1>3. i + 1 + n = i + 3
  BY <1>1
<1> QED  BY <1>2, <1>3, Zenon

\* What a row says of the bytes, of which there are l, from the i-th on.
Says1(i, l, b, c, d, e) == b \in Form1[1]
Says2(i, l, b, c, d, e) == i + 1 <= l /\ b \in Form2[1] /\ c \in Form2[2]
Says3(i, l, b, c, d, e) == i + 2 <= l /\ b \in Form3[1] /\ c \in Form3[2] /\ d \in Later
Says4(i, l, b, c, d, e) == i + 2 <= l /\ b \in Form4[1] /\ c \in Form4[2] /\ d \in Later
Says5(i, l, b, c, d, e) == i + 2 <= l /\ b \in Form5[1] /\ c \in Form5[2] /\ d \in Later
Says6(i, l, b, c, d, e) == i + 2 <= l /\ b \in Form6[1] /\ c \in Form6[2] /\ d \in Later
Says7(i, l, b, c, d, e) == i + 3 <= l /\ b \in Form7[1] /\ c \in Form7[2] /\ d \in Later /\ e \in Later
Says8(i, l, b, c, d, e) == i + 3 <= l /\ b \in Form8[1] /\ c \in Form8[2] /\ d \in Later /\ e \in Later
Says9(i, l, b, c, d, e) == i + 3 <= l /\ b \in Form9[1] /\ c \in Form9[2] /\ d \in Later /\ e \in Later

LEMMA RowsAre ==
  ASSUME NEW s \in Seq(Byte), NEW i \in 1..Len(s)
  PROVE  /\ (HasForm(s, i, Form1) <=> Says1(i, Len(s), s[i], s[i + 1], s[i + 2], s[i + 3]))
         /\ (HasForm(s, i, Form2) <=> Says2(i, Len(s), s[i], s[i + 1], s[i + 2], s[i + 3]))
         /\ (HasForm(s, i, Form3) <=> Says3(i, Len(s), s[i], s[i + 1], s[i + 2], s[i + 3]))
         /\ (HasForm(s, i, Form4) <=> Says4(i, Len(s), s[i], s[i + 1], s[i + 2], s[i + 3]))
         /\ (HasForm(s, i, Form5) <=> Says5(i, Len(s), s[i], s[i + 1], s[i + 2], s[i + 3]))
         /\ (HasForm(s, i, Form6) <=> Says6(i, Len(s), s[i], s[i + 1], s[i + 2], s[i + 3]))
         /\ (HasForm(s, i, Form7) <=> Says7(i, Len(s), s[i], s[i + 1], s[i + 2], s[i + 3]))
         /\ (HasForm(s, i, Form8) <=> Says8(i, Len(s), s[i], s[i + 1], s[i + 2], s[i + 3]))
         /\ (HasForm(s, i, Form9) <=> Says9(i, Len(s), s[i], s[i + 1], s[i + 2], s[i + 3]))
<1>1. HasForm(s, i, Form1) <=> Says1(i, Len(s), s[i], s[i + 1], s[i + 2], s[i + 3])
  BY HasOne DEF Says1
<1>2. HasForm(s, i, Form2) <=> Says2(i, Len(s), s[i], s[i + 1], s[i + 2], s[i + 3])
  <2>1. Form2[3] = 0 /\ Form2[2] # {}
    BY FormsGoOn DEF Form2
  <2> QED  BY <2>1, HasTwo, Zenon DEF Says2
<1>3. HasForm(s, i, Form3) <=> Says3(i, Len(s), s[i], s[i + 1], s[i + 2], s[i + 3])
  <2>1. Form3[3] = 1 /\ Form3[2] # {}
    BY FormsGoOn DEF Form3
  <2> QED  BY <2>1, HasThree, Zenon DEF Says3
<1>4. HasForm(s, i, Form4) <=> Says4(i, Len(s), s[i], s[i + 1], s[i + 2], s[i + 3])
  <2>1. Form4[3] = 1 /\ Form4[2] # {}
    BY FormsGoOn DEF Form4
  <2> QED  BY <2>1, HasThree, Zenon DEF Says4
<1>5. HasForm(s, i, Form5) <=> Says5(i, Len(s), s[i], s[i + 1], s[i + 2], s[i + 3])
  <2>1. Form5[3] = 1 /\ Form5[2] # {}
    BY FormsGoOn DEF Form5
  <2> QED  BY <2>1, HasThree, Zenon DEF Says5
<1>6. HasForm(s, i, Form6) <=> Says6(i, Len(s), s[i], s[i + 1], s[i + 2], s[i + 3])
  <2>1. Form6[3] = 1 /\ Form6[2] # {}
    BY FormsGoOn DEF Form6
  <2> QED  BY <2>1, HasThree, Zenon DEF Says6
<1>7. HasForm(s, i, Form7) <=> Says7(i, Len(s), s[i], s[i + 1], s[i + 2], s[i + 3])
  <2>1. Form7[3] = 2 /\ Form7[2] # {}
    BY FormsGoOn DEF Form7
  <2> QED  BY <2>1, HasFour, Zenon DEF Says7
<1>8. HasForm(s, i, Form8) <=> Says8(i, Len(s), s[i], s[i + 1], s[i + 2], s[i + 3])
  <2>1. Form8[3] = 2 /\ Form8[2] # {}
    BY FormsGoOn DEF Form8
  <2> QED  BY <2>1, HasFour, Zenon DEF Says8
<1>9. HasForm(s, i, Form9) <=> Says9(i, Len(s), s[i], s[i + 1], s[i + 2], s[i + 3])
  <2>1. Form9[3] = 2 /\ Form9[2] # {}
    BY FormsGoOn DEF Form9
  <2> QED  BY <2>1, HasFour, Zenon DEF Says9
<1> QED  BY <1>1, <1>2, <1>3, <1>4, <1>5, <1>6, <1>7, <1>8, <1>9, Zenon

InTable(i, l, b, c, d, e) ==
  \/ Says1(i, l, b, c, d, e) \/ Says2(i, l, b, c, d, e) \/ Says3(i, l, b, c, d, e)
  \/ Says4(i, l, b, c, d, e) \/ Says5(i, l, b, c, d, e) \/ Says6(i, l, b, c, d, e)
  \/ Says7(i, l, b, c, d, e) \/ Says8(i, l, b, c, d, e) \/ Says9(i, l, b, c, d, e)

LEMMA TableIs ==
  ASSUME NEW s \in Seq(Byte), NEW i \in 1..Len(s)
  PROVE  (\E f \in Forms : HasForm(s, i, f)) <=>
           InTable(i, Len(s), s[i], s[i + 1], s[i + 2], s[i + 3])
<1>1. (\E f \in Forms : HasForm(s, i, f)) <=>
        \/ HasForm(s, i, Form1) \/ HasForm(s, i, Form2) \/ HasForm(s, i, Form3)
        \/ HasForm(s, i, Form4) \/ HasForm(s, i, Form5) \/ HasForm(s, i, Form6)
        \/ HasForm(s, i, Form7) \/ HasForm(s, i, Form8) \/ HasForm(s, i, Form9)
  BY FormsAre, Zenon
<1> QED  BY <1>1, RowsAre, Zenon DEF InTable

Fit3(b, c) == (b = 224 => c \in 160..191) /\ (b = 237 => c \in 128..159)
Fit4(b, c) == (b = 240 => c \in 144..191) /\ (b = 244 => c \in 128..143)

\* What the check says of them.
Checks(i, l, b, c, d, e) ==
  \/ b \in Lead1
  \/ b \in Lead2 /\ i + 1 <= l /\ c \in Later
  \/ b \in Lead3 /\ i + 2 <= l /\ c \in Later /\ d \in Later /\ Fit3(b, c)
  \/ b \in Lead4 /\ i + 3 <= l /\ c \in Later /\ d \in Later /\ e \in Later /\ Fit4(b, c)

LEMMA LeadsApart ==
  /\ \A b : b \in Lead0 => b \notin Lead1 /\ b \notin Lead2 /\ b \notin Lead3 /\ b \notin Lead4
  /\ \A b : b \in Lead1 => b \notin Lead2 /\ b \notin Lead3 /\ b \notin Lead4
  /\ \A b : b \in Lead2 => b \notin Lead3 /\ b \notin Lead4
  /\ \A b : b \in Lead3 => b \notin Lead4
BY SMT DEF Lead0, Lead1, Lead2, Lead3, Lead4

LEMMA ChecksByLead ==
  ASSUME NEW i, NEW l, NEW b, NEW c, NEW d, NEW e
  PROVE  /\ b \in Lead0 => ~Checks(i, l, b, c, d, e)
         /\ b \in Lead1 => Checks(i, l, b, c, d, e)
         /\ b \in Lead2 => (Checks(i, l, b, c, d, e) <=> i + 1 <= l /\ c \in Later)
         /\ b \in Lead3 => (Checks(i, l, b, c, d, e) <=>
              i + 2 <= l /\ c \in Later /\ d \in Later /\ Fit3(b, c))
         /\ b \in Lead4 => (Checks(i, l, b, c, d, e) <=>
              i + 3 <= l /\ c \in Later /\ d \in Later /\ e \in Later /\ Fit4(b, c))
BY LeadsApart, Zenon DEF Checks

LEMMA ChecksAreTable ==
  ASSUME NEW i, NEW l, NEW b, NEW c, NEW d, NEW e
  PROVE  Checks(i, l, b, c, d, e) <=> InTable(i, l, b, c, d, e)
<1>1. b \in Form1[1] <=> b \in Lead1
  BY DEF Form1, Lead1
<1>2. b \in Form2[1] /\ c \in Form2[2] <=> b \in Lead2 /\ c \in Later
  BY DEF Form2, Lead2, Later
<1>3. b \in Lead3 /\ c \in Later /\ Fit3(b, c) <=>
        \/ b \in Form3[1] /\ c \in Form3[2]
        \/ b \in Form4[1] /\ c \in Form4[2]
        \/ b \in Form5[1] /\ c \in Form5[2]
        \/ b \in Form6[1] /\ c \in Form6[2]
  BY SMT DEF Form3, Form4, Form5, Form6, Lead3, Later, Fit3
<1>4. b \in Lead4 /\ c \in Later /\ Fit4(b, c) <=>
        \/ b \in Form7[1] /\ c \in Form7[2]
        \/ b \in Form8[1] /\ c \in Form8[2]
        \/ b \in Form9[1] /\ c \in Form9[2]
  BY SMT DEF Form7, Form8, Form9, Lead4, Later, Fit4
<1> QED
  BY <1>1, <1>2, <1>3, <1>4, Zenon
     DEF Checks, InTable, Says1, Says2, Says3, Says4, Says5, Says6, Says7, Says8, Says9

LEMMA FormLengths ==
  ASSUME NEW f, f[2] # {}
  PROVE  FormLength(f) = 2 + f[3]
BY DEF FormLength

LEMMA FormLengthIs ==
  ASSUME NEW s \in Seq(Byte), NEW i \in 1..Len(s), NEW f \in Forms, HasForm(s, i, f)
  PROVE  FormLength(f) = num_bytes_in_utf8_sequence(s[i])
<1>1. PICK b \in Byte : b = s[i] /\ b \in f[1]
  BY ElementOfSeq DEF HasForm
<1>2. \/ b \in Lead1 /\ FormLength(f) = 1
      \/ b \in Lead2 /\ FormLength(f) = 2
      \/ b \in Lead3 /\ FormLength(f) = 3
      \/ b \in Lead4 /\ FormLength(f) = 4
  <2>1. CASE f = Form1
    BY <1>1, <2>1 DEF Form1, FormLength, Lead1
  <2>2. CASE f = Form2
    <3>1. f[3] = 0 /\ f[2] # {}
      BY <2>2, FormsGoOn DEF Form2
    <3>2. FormLength(f) = 2 + f[3]
      BY <3>1, FormLengths, Zenon
    <3>3. b \in Lead2
      BY <1>1, <2>2 DEF Form2, Lead2
    <3> QED  BY <3>1, <3>2, <3>3
  <2>3. CASE f = Form3
    <3>1. f[3] = 1 /\ f[2] # {}
      BY <2>3, FormsGoOn DEF Form3
    <3>2. FormLength(f) = 2 + f[3]
      BY <3>1, FormLengths, Zenon
    <3>3. b \in Lead3
      BY <1>1, <2>3 DEF Form3, Lead3
    <3> QED  BY <3>1, <3>2, <3>3
  <2>4. CASE f = Form4
    <3>1. f[3] = 1 /\ f[2] # {}
      BY <2>4, FormsGoOn DEF Form4
    <3>2. FormLength(f) = 2 + f[3]
      BY <3>1, FormLengths, Zenon
    <3>3. b \in Lead3
      BY <1>1, <2>4 DEF Form4, Lead3
    <3> QED  BY <3>1, <3>2, <3>3
  <2>5. CASE f = Form5
    <3>1. f[3] = 1 /\ f[2] # {}
      BY <2>5, FormsGoOn DEF Form5
    <3>2. FormLength(f) = 2 + f[3]
      BY <3>1, FormLengths, Zenon
    <3>3. b \in Lead3
      BY <1>1, <2>5 DEF Form5, Lead3
    <3> QED  BY <3>1, <3>2, <3>3
  <2>6. CASE f = Form6
    <3>1. f[3] = 1 /\ f[2] # {}
      BY <2>6, FormsGoOn DEF Form6
    <3>2. FormLength(f) = 2 + f[3]
      BY <3>1, FormLengths, Zenon
    <3>3. b \in Lead3
      BY <1>1, <2>6 DEF Form6, Lead3
    <3> QED  BY <3>1, <3>2, <3>3
  <2>7. CASE f = Form7
    <3>1. f[3] = 2 /\ f[2] # {}
      BY <2>7, FormsGoOn DEF Form7
    <3>2. FormLength(f) = 2 + f[3]
      BY <3>1, FormLengths, Zenon
    <3>3. b \in Lead4
      BY <1>1, <2>7 DEF Form7, Lead4
    <3> QED  BY <3>1, <3>2, <3>3
  <2>8. CASE f = Form8
    <3>1. f[3] = 2 /\ f[2] # {}
      BY <2>8, FormsGoOn DEF Form8
    <3>2. FormLength(f) = 2 + f[3]
      BY <3>1, FormLengths, Zenon
    <3>3. b \in Lead4
      BY <1>1, <2>8 DEF Form8, Lead4
    <3> QED  BY <3>1, <3>2, <3>3
  <2>9. CASE f = Form9
    <3>1. f[3] = 2 /\ f[2] # {}
      BY <2>9, FormsGoOn DEF Form9
    <3>2. FormLength(f) = 2 + f[3]
      BY <3>1, FormLengths, Zenon
    <3>3. b \in Lead4
      BY <1>1, <2>9 DEF Form9, Lead4
    <3> QED  BY <3>1, <3>2, <3>3
  <2> QED  BY FormsAre, <2>1, <2>2, <2>3, <2>4, <2>5, <2>6, <2>7, <2>8, <2>9, Zenon
<1>3. FormLength(f) = num_bytes_in_utf8_sequence(b)
  BY <1>2, NumBytes
<1> QED  BY <1>1, <1>3, Zenon

\* What is decoded.
LEMMA CodePointOne ==
  ASSUME NEW s, NEW i
  PROVE  CodePoint(s, i, 1) = s[i]
<1>1. PICK n : n = 1
  OBVIOUS
<1>2. CodePoint(s, i, n) = s[i]
  BY <1>1, SMT DEF CodePoint
<1> QED  BY <1>1, <1>2

Point2(b, c) == (b - 192) * 64 + (c - 128)
Point3(b, c, d) == (b - 224) * 4096 + (c - 128) * 64 + (d - 128)
Point4(b, c, d, e) == (b - 240) * 262144 + (c - 128) * 4096 + (d - 128) * 64 + (e - 128)

LEMMA CodePointTwo ==
  ASSUME NEW s, NEW i, s[i] \in Lead2, s[i + 1] \in Later
  PROVE  CodePoint(s, i, 2) = Point2(s[i], s[i + 1])
<1>1. PICK n \in Nat, b \in Lead2, c \in Later : n = 2 /\ b = s[i] /\ c = s[i + 1]
  OBVIOUS
<1>2. b % 32 = b - 192 /\ c % 64 = c - 128
  BY DEF Lead2, Later
<1>3. CodePoint(s, i, n) = (b % 32) * 64 + (c % 64)
  BY <1>1, SMT DEF CodePoint
<1> QED  BY <1>1, <1>2, <1>3, SMT DEF Point2

LEMMA CodePointThree ==
  ASSUME NEW s, NEW i, s[i] \in Lead3, s[i + 1] \in Later, s[i + 2] \in Later
  PROVE  CodePoint(s, i, 3) = Point3(s[i], s[i + 1], s[i + 2])
<1>0. PICK n \in Nat : n = 3
  OBVIOUS
<1>1. PICK b \in Lead3, c \in Later, d \in Later :
         b = s[i] /\ c = s[i + 1] /\ d = s[i + 2]
  BY Zenon
<1>2. b % 16 = b - 224 /\ c % 64 = c - 128 /\ d % 64 = d - 128
  BY SMT DEF Lead3, Lead4, Later
<1>3. CodePoint(s, i, n) = (b % 16) * 4096 + (c % 64) * 64 + (d % 64)
  BY <1>0, <1>1, SMT DEF CodePoint
<1> QED  BY <1>0, <1>1, <1>2, <1>3, SMT DEF Point3

LEMMA CodePointFour ==
  ASSUME NEW s, NEW i, s[i] \in Lead4, s[i + 1] \in Later, s[i + 2] \in Later,
         s[i + 3] \in Later
  PROVE  CodePoint(s, i, 4) = Point4(s[i], s[i + 1], s[i + 2], s[i + 3])
<1>0. PICK n \in Nat : n = 4
  OBVIOUS
<1>1. PICK b \in Lead4, c \in Later, d \in Later, e \in Later :
         b = s[i] /\ c = s[i + 1] /\ d = s[i + 2] /\ e = s[i + 3]
  BY Zenon
<1>2. b % 8 = b - 240 /\ c % 64 = c - 128 /\ d % 64 = d - 128 /\ e % 64 = e - 128
  BY SMT DEF Lead3, Lead4, Later
<1>3. CodePoint(s, i, n) = (b % 8) * 262144 + (c % 64) * 4096 + (d % 64) * 64 + (e % 64)
  BY <1>0, <1>1, SMT DEF CodePoint
<1> QED  BY <1>0, <1>1, <1>2, <1>3, SMT DEF Point4

\* What a decoded character may be.
Allowed(cp, n) == ~Overlong(cp, n) /\ cp <= 1114111 /\ cp \notin 55296..57343

Continued(s, i, n) == \A k \in 1..(n - 1) : IS_CONT(ByteAt(s, i + k))

LEMMA VerifyIs ==
  ASSUME NEW s, NEW i, NEW n \in Nat, n = num_bytes_in_utf8_sequence(s[i])
  PROVE  verify_utf8_sequence(s, i) <=> n > 0 /\ Continued(s, i, n) /\ Allowed(CodePoint(s, i, n), n)
BY SMT DEF verify_utf8_sequence, Allowed, Continued

LEMMA ContinuedIs ==
  ASSUME NEW s \in Seq(Byte), NEW i \in 1..Len(s)
  PROVE  /\ Continued(s, i, 1)
         /\ Continued(s, i, 2) <=> i + 1 <= Len(s) /\ s[i + 1] \in Later
         /\ Continued(s, i, 3) <=>
              i + 2 <= Len(s) /\ s[i + 1] \in Later /\ s[i + 2] \in Later
         /\ Continued(s, i, 4) <=>
              /\ i + 3 <= Len(s) /\ s[i + 1] \in Later
              /\ s[i + 2] \in Later /\ s[i + 3] \in Later
<1> DEFINE C(k) == IS_CONT(ByteAt(s, i + k))
<1>1. /\ C(1) <=> i + 1 <= Len(s) /\ s[i + 1] \in Later
      /\ C(2) <=> i + 2 <= Len(s) /\ s[i + 2] \in Later
      /\ C(3) <=> i + 3 <= Len(s) /\ s[i + 3] \in Later
  BY Continues
<1>2. (i + 2 <= Len(s) => i + 1 <= Len(s)) /\ (i + 3 <= Len(s) => i + 1 <= Len(s) /\ i + 2 <= Len(s))
  OBVIOUS
<1>3. \A n : Continued(s, i, n) <=> \A k \in 1..(n - 1) : C(k)
  BY Zenon DEF Continued
<1> HIDE DEF C
<1>4. /\ \A k : k \in 1..(1 - 1) <=> FALSE
      /\ \A k : k \in 1..(2 - 1) <=> k = 1
      /\ \A k : k \in 1..(3 - 1) <=> k = 1 \/ k = 2
      /\ \A k : k \in 1..(4 - 1) <=> k = 1 \/ k = 2 \/ k = 3
  OBVIOUS
<1>5. Continued(s, i, 1)
  BY <1>3, <1>4, Zenon
<1>6. Continued(s, i, 2) <=> C(1)
  BY <1>3, <1>4, Zenon
<1>7. Continued(s, i, 3) <=> C(1) /\ C(2)
  BY <1>3, <1>4, Zenon
<1>8. Continued(s, i, 4) <=> C(1) /\ C(2) /\ C(3)
  BY <1>3, <1>4, Zenon
<1> QED  BY <1>1, <1>2, <1>5, <1>6, <1>7, <1>8, Zenon

LEMMA AllowedOne ==
  ASSUME NEW b \in Lead1 PROVE Allowed(b, 1)
BY SMT DEF Lead1, Lead2, Lead3, Lead4, Later, Allowed, Overlong

LEMMA AllowedTwo ==
  ASSUME NEW b \in Lead2, NEW c \in Later
  PROVE  Allowed(Point2(b, c), 2)
<1> DEFINE p == Point2(b, c)
<1>1. p \in Int /\ p >= 128 /\ p <= 2047
  BY SMT DEF Lead1, Lead2, Lead3, Lead4, Later, Point2
<1> QED  BY <1>1, SMT DEF p, Allowed, Overlong

LEMMA AllowedThree ==
  ASSUME NEW b \in Lead3, NEW c \in Later, NEW d \in Later
  PROVE  Allowed(Point3(b, c, d), 3) <=> Fit3(b, c)
<1> DEFINE p == Point3(b, c, d)
<1>1. p \in Int
  BY SMT DEF Lead1, Lead2, Lead3, Lead4, Later, Point3
<1>2. /\ p <= 1114111
      /\ (p < 128 => b = 224 /\ c < 160)
      /\ (p < 2048 <=> b = 224 /\ c < 160)
      /\ (p \in 55296..57343 <=> b = 237 /\ c > 159)
  BY <1>1, SMT DEF Lead1, Lead2, Lead3, Lead4, Later, Point3
<1> HIDE DEF p
<1>3. (c < 160 <=> ~(c \in 160..191)) /\ (c > 159 <=> ~(c \in 128..159))
  BY SMT DEF Later
<1>4. Allowed(p, 3) <=> ~(b = 224 /\ c < 160) /\ ~(b = 237 /\ c > 159)
  BY <1>1, <1>2, SMT DEF Lead1, Lead2, Lead3, Lead4, Later, Allowed, Overlong
<1> QED  BY <1>3, <1>4, SMT DEF p, Fit3, Later

LEMMA AllowedFour ==
  ASSUME NEW b \in Lead4, NEW c \in Later, NEW d \in Later, NEW e \in Later
  PROVE  Allowed(Point4(b, c, d, e), 4) <=> Fit4(b, c)
<1> DEFINE p == Point4(b, c, d, e)
<1>1. p \in Int
  BY SMT DEF Lead1, Lead2, Lead3, Lead4, Later, Point4
<1>2. /\ (p > 1114111 <=> b = 244 /\ c > 143)
      /\ (p < 65536 <=> b = 240 /\ c < 144)
  BY <1>1, SMT DEF Lead1, Lead2, Lead3, Lead4, Later, Point4
<1> HIDE DEF p
<1>3. (c < 144 <=> ~(c \in 144..191)) /\ (c > 143 <=> ~(c \in 128..143))
  BY SMT DEF Later
<1>4. Allowed(p, 4) <=> ~(b = 240 /\ c < 144) /\ ~(b = 244 /\ c > 143)
  BY <1>1, <1>2, SMT DEF Lead1, Lead2, Lead3, Lead4, Later, Allowed, Overlong
<1> QED  BY <1>3, <1>4, SMT DEF p, Fit4, Later

\* What the check says, by the number of bytes that the first one promises.
LEMMA VerifyNone ==
  ASSUME NEW s \in Seq(Byte), NEW i \in 1..Len(s), s[i] \in Lead0
  PROVE  ~verify_utf8_sequence(s, i)
<1>1. num_bytes_in_utf8_sequence(s[i]) = 0
  BY LeadsAreBytes, NumBytes
<1> QED  BY <1>1, SMT DEF verify_utf8_sequence

LEMMA VerifyOne ==
  ASSUME NEW s \in Seq(Byte), NEW i \in 1..Len(s), s[i] \in Lead1
  PROVE  verify_utf8_sequence(s, i)
<1>1. num_bytes_in_utf8_sequence(s[i]) = 1
  BY LeadsAreBytes, NumBytes
<1>2. Allowed(CodePoint(s, i, 1), 1)
  BY CodePointOne, AllowedOne
<1> QED  BY <1>1, <1>2, ContinuedIs, VerifyIs

LEMMA VerifyTwo ==
  ASSUME NEW s \in Seq(Byte), NEW i \in 1..Len(s), s[i] \in Lead2
  PROVE  verify_utf8_sequence(s, i) <=> i + 1 <= Len(s) /\ s[i + 1] \in Later
<1>1. num_bytes_in_utf8_sequence(s[i]) = 2
  BY LeadsAreBytes, NumBytes
<1>2. verify_utf8_sequence(s, i) <=> Continued(s, i, 2) /\ Allowed(CodePoint(s, i, 2), 2)
  BY <1>1, VerifyIs
<1>3. ASSUME s[i + 1] \in Later PROVE Allowed(CodePoint(s, i, 2), 2)
  <2>1. CodePoint(s, i, 2) = Point2(s[i], s[i + 1])
    BY <1>3, CodePointTwo, Zenon
  <2>2. Allowed(Point2(s[i], s[i + 1]), 2)
    BY <1>3, AllowedTwo, Zenon
  <2> QED  BY <2>1, <2>2, Zenon
<1> QED  BY <1>2, <1>3, ContinuedIs, Zenon

LEMMA VerifyThree ==
  ASSUME NEW s \in Seq(Byte), NEW i \in 1..Len(s), s[i] \in Lead3
  PROVE  verify_utf8_sequence(s, i) <=>
           i + 2 <= Len(s) /\ s[i + 1] \in Later /\ s[i + 2] \in Later /\ Fit3(s[i], s[i + 1])
<1>1. num_bytes_in_utf8_sequence(s[i]) = 3
  BY LeadsAreBytes, NumBytes
<1>2. verify_utf8_sequence(s, i) <=> Continued(s, i, 3) /\ Allowed(CodePoint(s, i, 3), 3)
  BY <1>1, VerifyIs
<1>3. ASSUME s[i + 1] \in Later, s[i + 2] \in Later
      PROVE  Allowed(CodePoint(s, i, 3), 3) <=> Fit3(s[i], s[i + 1])
  <2>1. CodePoint(s, i, 3) = Point3(s[i], s[i + 1], s[i + 2])
    BY <1>3, CodePointThree, Zenon
  <2>2. Allowed(Point3(s[i], s[i + 1], s[i + 2]), 3) <=> Fit3(s[i], s[i + 1])
    BY <1>3, AllowedThree, Zenon
  <2> QED  BY <2>1, <2>2, Zenon
<1> QED  BY <1>2, <1>3, ContinuedIs, Zenon

LEMMA VerifyFour ==
  ASSUME NEW s \in Seq(Byte), NEW i \in 1..Len(s), s[i] \in Lead4
  PROVE  verify_utf8_sequence(s, i) <=>
           i + 3 <= Len(s) /\ s[i + 1] \in Later /\ s[i + 2] \in Later /\ s[i + 3] \in Later
             /\ Fit4(s[i], s[i + 1])
<1>1. num_bytes_in_utf8_sequence(s[i]) = 4
  BY LeadsAreBytes, NumBytes
<1>2. verify_utf8_sequence(s, i) <=> Continued(s, i, 4) /\ Allowed(CodePoint(s, i, 4), 4)
  BY <1>1, VerifyIs
<1>3. ASSUME s[i + 1] \in Later, s[i + 2] \in Later, s[i + 3] \in Later
      PROVE  Allowed(CodePoint(s, i, 4), 4) <=> Fit4(s[i], s[i + 1])
  <2>1. CodePoint(s, i, 4) = Point4(s[i], s[i + 1], s[i + 2], s[i + 3])
    BY <1>3, CodePointFour, Zenon
  <2>2. Allowed(Point4(s[i], s[i + 1], s[i + 2], s[i + 3]), 4) <=> Fit4(s[i], s[i + 1])
    BY <1>3, AllowedFour, Zenon
  <2> QED  BY <2>1, <2>2, Zenon
<1> QED  BY <1>2, <1>3, ContinuedIs, Zenon

\* The check takes what the table has.
LEMMA VerifyIsTable ==
  ASSUME NEW s \in Seq(Byte), NEW i \in 1..Len(s)
  PROVE  verify_utf8_sequence(s, i) <=> \E f \in Forms : HasForm(s, i, f)
<1>1. verify_utf8_sequence(s, i) <=> Checks(i, Len(s), s[i], s[i + 1], s[i + 2], s[i + 3])
  <2>1. CASE s[i] \in Lead1
    BY <2>1, VerifyOne, ChecksByLead, Zenon
  <2>2. CASE s[i] \in Lead0
    BY <2>2, VerifyNone, ChecksByLead, Zenon
  <2>3. CASE s[i] \in Lead2
    BY <2>3, VerifyTwo, ChecksByLead, Zenon
  <2>4. CASE s[i] \in Lead3
    BY <2>4, VerifyThree, ChecksByLead, Zenon
  <2>5. CASE s[i] \in Lead4
    <3>1. verify_utf8_sequence(s, i) <=>
            i + 3 <= Len(s) /\ s[i + 1] \in Later /\ s[i + 2] \in Later /\ s[i + 3] \in Later
              /\ Fit4(s[i], s[i + 1])
      BY <2>5, VerifyFour, Zenon
    <3>2. Checks(i, Len(s), s[i], s[i + 1], s[i + 2], s[i + 3]) <=>
            i + 3 <= Len(s) /\ s[i + 1] \in Later /\ s[i + 2] \in Later /\ s[i + 3] \in Later
              /\ Fit4(s[i], s[i + 1])
      BY <2>5, ChecksByLead, Zenon
    <3> QED  BY <3>1, <3>2, Zenon
  <2>6. s[i] \in Byte
    BY ElementOfSeq
  <2>7. \/ s[i] \in Lead0 \/ s[i] \in Lead1 \/ s[i] \in Lead2 \/ s[i] \in Lead3 \/ s[i] \in Lead4
    BY <2>6, LeadsAreBytes
  <2> QED  BY <2>1, <2>2, <2>3, <2>4, <2>5, <2>7, Zenon
<1>2. Checks(i, Len(s), s[i], s[i + 1], s[i + 2], s[i + 3]) <=>
        InTable(i, Len(s), s[i], s[i + 1], s[i + 2], s[i + 3])
  BY ChecksAreTable, Zenon
<1> QED  BY <1>1, <1>2, TableIs, Zenon

\* So the two definitions are the same function of every string of bytes.
THEOREM ValidIsWellFormed ==
  ASSUME NEW s \in Seq(Byte)
  PROVE  is_valid_utf8(s) <=> WellFormed(s)
<1> DEFINE A(f) == f = [i \in 1..(Len(s) + 1) |->
                          i > Len(s) \/ /\ verify_utf8_sequence(s, i)
                                        /\ f[i + num_bytes_in_utf8_sequence(s[i])]]
           B(f) == f = [i \in 1..(Len(s) + 1) |->
                          i > Len(s) \/ \E g \in Forms : HasForm(s, i, g) /\ f[i + FormLength(g)]]
<1>1. ASSUME NEW f, NEW i \in 1..(Len(s) + 1)
      PROVE  (i > Len(s) \/ (verify_utf8_sequence(s, i) /\ f[i + num_bytes_in_utf8_sequence(s[i])]))
               = (i > Len(s) \/ \E g \in Forms : HasForm(s, i, g) /\ f[i + FormLength(g)])
  <2>1. CASE i > Len(s)
    BY <2>1
  <2>2. CASE ~(i > Len(s))
    <3>1. i \in 1..Len(s)
      BY <2>2
    <3>2. \A g \in Forms : HasForm(s, i, g) => FormLength(g) = num_bytes_in_utf8_sequence(s[i])
      BY <3>1, FormLengthIs
    <3>3. verify_utf8_sequence(s, i) <=> \E g \in Forms : HasForm(s, i, g)
      BY <3>1, VerifyIsTable
    <3> QED  BY <2>2, <3>2, <3>3, Zenon
  <2> QED  BY <2>1, <2>2
<1>2. ASSUME NEW f PROVE A(f) <=> B(f)
  BY <1>1, Zenon
<1>3. (CHOOSE f : A(f)) = (CHOOSE f : B(f))
  <2> HIDE DEF A, B
  <2> QED  BY <1>2, Zenon
<1>4. is_valid_utf8(s) = (CHOOSE f : A(f))[1] /\ WellFormed(s) = (CHOOSE f : B(f))[1]
  BY Zenon DEF is_valid_utf8, WellFormed
<1> QED  BY <1>3, <1>4, Zenon

\* The pieces are strings of bytes.
LEMMA PiecesType == StringSpec => [](pieces \in Seq(Seq(Byte)))
<1>1. StringInit => pieces \in Seq(Seq(Byte))
  BY DEF StringInit
<1>2. pieces \in Seq(Seq(Byte)) /\ [StringNext]_pieces => (pieces \in Seq(Seq(Byte)))'
  <2> SUFFICES ASSUME pieces \in Seq(Seq(Byte)), [StringNext]_pieces
               PROVE  pieces' \in Seq(Seq(Byte))
    OBVIOUS
  <2>1. CASE AddByte
    <3>1. PICK b \in Byte : pieces' = Append(pieces, <<b>>)
      BY <2>1, StringAssumption DEF AddByte
    <3>2. <<b>> \in Seq(Byte)
      OBVIOUS
    <3> QED  BY <3>1, <3>2, AppendProperties
  <2>2. CASE AddEscape
    <3>1. PICK e \in Seq(Byte) : pieces' = Append(pieces, e)
      BY <2>2, StringAssumption DEF AddEscape
    <3> QED  BY <3>1, AppendProperties
  <2> QED  BY <2>1, <2>2 DEF StringNext
<1> QED  BY <1>1, <1>2, PTL DEF StringSpec

\* What parson.c:308-386 takes for UTF-8 is what the standard calls well formed.
THEOREM TakesUtf8Only == StringSpec => []Utf8Exact
<1>1. pieces \in Seq(Seq(Byte)) => Utf8Exact
  BY FlattenSeqType, ValidIsWellFormed DEF Utf8Exact, bytes
<1> QED  BY <1>1, PiecesType, PTL

-----------------------------------------------------------------------------
(* A string that is written, and read *)

\* The escapes of two characters.
Letters == {98, 116, 110, 102, 114}

LEMMA ShortIs ==
  /\ DOMAIN Short = {8, 9, 10, 12, 13}
  /\ Short[8] = 98 /\ Short[9] = 116 /\ Short[10] = 110 /\ Short[12] = 102 /\ Short[13] = 114
BY SMT DEF Short

LEMMA LettersAre == Range(Short) = Letters
BY ShortIs DEF Range, Letters

LEMMA ShortBack ==
  ASSUME NEW c \in DOMAIN Short
  PROVE  Short[c] \in Letters /\ Lengthened(Short[c]) = c
<1>1. \A b \in DOMAIN Short : Short[b] = Short[c] => b = c
  BY ShortIs
<1> QED  BY <1>1, ShortIs DEF Letters, Lengthened

LEMMA DigitRead ==
  ASSUME NEW d \in 0..15
  PROVE  /\ hex_char_to_int(Digit(d)) = d
         /\ Digit(d) \in Byte /\ Digit(d) # 0 /\ Digit(d) # 34 /\ Digit(d) # 92
<1>1. CASE d < 10
  <2>1. Digit(d) = 48 + d
    BY <1>1 DEF Digit
  <2>2. Digit(d) \in 48..57
    BY <1>1, <2>1
  <2> QED  BY <2>1, <2>2 DEF hex_char_to_int, Byte
<1>2. CASE ~(d < 10)
  <2>1. Digit(d) = 87 + d
    BY <1>2 DEF Digit
  <2>2. Digit(d) \in 97..102
    BY <1>2, <2>1
  <2> QED  BY <2>1, <2>2 DEF hex_char_to_int, Byte
<1> QED  BY <1>1, <1>2

\* The ways a byte is written.
AsItself(c) == c >= 32 /\ c # 34 /\ c # 92 /\ Written(c) = <<c>>
Quoted(c)   == c \in {34, 92, 47} /\ Written(c) = <<92, c>>
Shortened(c) == c \in DOMAIN Short /\ Written(c) = <<92, Short[c]>>
Numbered(c) ==
  /\ Written(c) = <<92, 117, 48, 48, Digit(c \div 16), Digit(c % 16)>>
  /\ c < 32 /\ c \div 16 \in 0..15 /\ c % 16 \in 0..15 /\ c = 16 * (c \div 16) + (c % 16)

LEMMA WrittenOne ==
  ASSUME NEW c \in Byte
  PROVE  AsItself(c) \/ Quoted(c) \/ Shortened(c) \/ Numbered(c)
<1>1. CASE c \in {34, 92, 47}
  <2>1. c \notin DOMAIN Short /\ ~(c < 32)
    BY <1>1, ShortIs
  <2> QED  BY <1>1, <2>1 DEF Quoted, Written
<1>2. CASE c \in DOMAIN Short
  <2>1. c \notin {34, 92, 47}
    BY <1>2, ShortIs
  <2> QED  BY <1>2, <2>1 DEF Shortened, Written
<1>3. CASE c < 32 /\ c \notin DOMAIN Short
  <2>1. c \notin {34, 92, 47}
    BY <1>3 
  <2>2. Written(c) = <<92, 117, 48, 48, Digit(c \div 16), Digit(c % 16)>>
    BY <1>3, <2>1, Zenon DEF Written
  <2>3. c \div 16 \in 0..15 /\ c % 16 \in 0..15 /\ c = 16 * (c \div 16) + (c % 16)
    BY <1>3 DEF Byte
  <2> QED  BY <1>3, <2>2, <2>3, Zenon DEF Numbered
<1>4. CASE c \notin {34, 92, 47} /\ c \notin DOMAIN Short /\ ~(c < 32)
  BY <1>4 DEF AsItself, Written, Byte
<1> QED  BY <1>1, <1>2, <1>3, <1>4

LEMMA WrittenType ==
  ASSUME NEW c \in Byte
  PROVE  Written(c) \in Seq(Byte)
<1>1. CASE AsItself(c)
  BY <1>1 DEF AsItself
<1>2. CASE Quoted(c)
  BY <1>2 DEF Quoted, Byte
<1>3. CASE Shortened(c)
  BY <1>3, ShortBack DEF Shortened, Letters, Byte
<1>4. CASE Numbered(c)
  BY <1>4, DigitRead DEF Numbered, Byte
<1> QED  BY <1>1, <1>2, <1>3, <1>4, WrittenOne

\* The bytes w are in s, at i.
Spelled(s, i, w) ==
  i - 1 + Len(w) <= Len(s) /\ \A j \in 1..Len(w) : s[i - 1 + j] = w[j]

LEMMA SpelledAt ==
  ASSUME NEW s \in Seq(Byte), NEW i \in Nat \ {0}, NEW w \in Seq(Byte), Spelled(s, i, w),
         NEW j \in 1..Len(w), NEW k \in Int, k = i - 1 + j
  PROVE  k \in 1..Len(s) /\ ByteAt(s, k) = w[j] /\ s[k] = w[j]
<1>1. PICK n \in Nat, m \in Nat : n = Len(s) /\ m = Len(w)
  OBVIOUS
<1>2. i - 1 + m <= n
  BY <1>1 DEF Spelled
<1>3. k \in 1..n
  BY <1>1, <1>2
<1>4. s[k] = w[j]
  BY DEF Spelled
<1>5. DOMAIN s = 1..n
  BY <1>1
<1> QED  BY <1>1, <1>3, <1>4, <1>5 DEF ByteAt

LEMMA HexOf ==
  ASSUME NEW s, NEW i \in Nat, NEW d \in 0..15, NEW e \in 0..15, NEW c, c = 16 * d + e,
         NEW i1, NEW i2, NEW i3, i1 = i + 1, i2 = i + 2, i3 = i + 3,
         ByteAt(s, i) = 48, ByteAt(s, i1) = 48,
         ByteAt(s, i2) = Digit(d), ByteAt(s, i3) = Digit(e)
  PROVE  parse_utf16_hex(s, i) = c
<1> DEFINE x == [k \in 1..4 |-> hex_char_to_int(ByteAt(s, i + k - 1))]
<1>1. hex_char_to_int(48) = 0
  BY DEF hex_char_to_int
<1>2. x[1] = 0 /\ x[2] = 0 /\ x[3] = d /\ x[4] = e
  <2>1. i + 1 - 1 = i /\ i + 2 - 1 = i1 /\ i + 3 - 1 = i2 /\ i + 4 - 1 = i3
    OBVIOUS
  <2> QED  BY <1>1, <2>1, DigitRead
<1>3. -1 \notin Range(x)
  <2>1. DOMAIN x = 1..4
    OBVIOUS
  <2> HIDE DEF x
  <2> QED  BY <1>2, <2>1 DEF Range
<1>4. parse_utf16_hex(s, i) = IF -1 \in Range(x) THEN -1
                              ELSE x[1] * 4096 + x[2] * 256 + x[3] * 16 + x[4]
  BY Zenon DEF parse_utf16_hex
<1> HIDE DEF x
<1> QED  BY <1>2, <1>3, <1>4

LEMMA SmallPoint ==
  ASSUME NEW c \in Byte, c < 32
  PROVE  /\ Encoded(c) = <<c>> /\ c # -1 /\ c >= 0
         /\ ~IsLead(c) /\ ~IsTrailing(c)
<1>1. c \in Int /\ c < 128
  BY DEF Byte
<1>2. Encoded(c) = <<c>>
  BY <1>1 DEF Encoded
<1> QED  BY <1>2, SMT DEF Byte, IsLead, IsTrailing

LEMMA SmallParsed ==
  ASSUME NEW s, NEW i, NEW k, k = i + 1, NEW c \in Byte, c < 32, parse_utf16_hex(s, k) = c
  PROVE  parse_utf16(s, i) = [length |-> 5, out |-> <<c>>]
<1>1. parse_utf16_hex(s, i + 1) = c
  OBVIOUS
<1>2. c # -1 /\ ~IsLead(c) /\ ~IsTrailing(c) /\ Encoded(c) = <<c>>
  BY SmallPoint
<1> QED  BY <1>1, <1>2 DEF parse_utf16

\* What an escape is read as.
LEMMA ReadEscapes ==
  ASSUME NEW s, NEW i, NEW c, s[i] = 92, ByteAt(s, i + 1) = c
  PROVE  /\ c \in {34, 92, 47} => Processed(s, i) = [length |-> 2, out |-> <<c>>]
         /\ c \in Letters => Processed(s, i) = [length |-> 2, out |-> <<Lengthened(c)>>]
         /\ c = 117 => Processed(s, i) = [parse_utf16(s, i + 1) EXCEPT !.length = @ + 1]
<1>1. c \in {34, 92, 47} => Processed(s, i) = [length |-> 2, out |-> <<c>>]
  BY LettersAre, SMT DEF Processed, Letters
<1>2. c \in Letters => Processed(s, i) = [length |-> 2, out |-> <<Lengthened(c)>>]
  BY LettersAre, SMT DEF Processed, Letters
<1>3. c = 117 => Processed(s, i) = [parse_utf16(s, i + 1) EXCEPT !.length = @ + 1]
  BY LettersAre, SMT DEF Processed, Letters
<1> QED  BY <1>1, <1>2, <1>3

\* What was written is read.
LEMMA ReadAsWritten ==
  ASSUME NEW s \in Seq(Byte), NEW i \in Nat \ {0}, NEW c \in Byte, Spelled(s, i, Written(c))
  PROVE  /\ ByteAt(s, i) # 0
         /\ Processed(s, i) = [length |-> Len(Written(c)), out |-> <<c>>]
<1>0. PICK w \in Seq(Byte) : w = Written(c) /\ Spelled(s, i, w)
  BY WrittenType
<1>6. ASSUME NEW j \in 1..Len(w), NEW k \in Int, k = i - 1 + j
      PROVE  ByteAt(s, k) = w[j] /\ s[k] = w[j]
  BY <1>0, <1>6, SpelledAt
<1>1. CASE AsItself(c)
  <2>1. ByteAt(s, i) = c /\ s[i] = c /\ Len(Written(c)) = 1
    <3>1. Len(w) = 1 /\ w[1] = c
      BY <1>0, <1>1 DEF AsItself
    <3>2. PICK j \in 1..Len(w), k \in Int : j = 1 /\ k = i - 1 + j
      BY <3>1
    <3>3. k = i
      BY <3>2
    <3>4. ByteAt(s, k) = w[j] /\ s[k] = w[j]
      BY <1>6, <3>2
    <3> QED  BY <1>0, <3>1, <3>2, <3>3, <3>4
  <2>2. c >= 32 /\ c # 34 /\ c # 92
    BY <1>1 DEF AsItself
  <2> QED  BY <2>1, <2>2, SMT DEF Processed, Byte
<1>2. ASSUME NEW x \in Byte, Written(c) = <<92, x>>
      PROVE  ByteAt(s, i) = 92 /\ s[i] = 92 /\ ByteAt(s, i + 1) = x /\ Len(Written(c)) = 2
  <2>1. Len(w) = 2 /\ w[1] = 92 /\ w[2] = x
    BY <1>0, <1>2
  <2>2. PICK j \in 1..Len(w), k \in Int : j = 1 /\ k = i - 1 + j
    BY <2>1
  <2>3. ByteAt(s, k) = w[j] /\ s[k] = w[j]
    BY <1>6, <2>2
  <2>7. k = i
    BY <2>2
  <2>4. PICK g \in 1..Len(w), h \in Int : g = 2 /\ h = i - 1 + g
    BY <2>1
  <2>5. ByteAt(s, h) = w[g]
    BY <1>6, <2>4
  <2>6. h = i + 1
    BY <2>4
  <2> QED  BY <1>0, <2>1, <2>2, <2>3, <2>4, <2>5, <2>6, <2>7
<1>3. CASE Quoted(c)
  <2>1. ByteAt(s, i) = 92 /\ s[i] = 92 /\ ByteAt(s, i + 1) = c /\ Len(Written(c)) = 2
    BY <1>2, <1>3 DEF Quoted
  <2>2. c \in {34, 92, 47}
    BY <1>3 DEF Quoted
  <2> QED  BY <2>1, <2>2, ReadEscapes
<1>4. CASE Shortened(c)
  <2>1. Short[c] \in Letters /\ Short[c] \in Byte /\ Written(c) = <<92, Short[c]>>
    BY <1>4, ShortBack DEF Shortened, Letters, Byte
  <2>2. ByteAt(s, i) = 92 /\ s[i] = 92 /\ ByteAt(s, i + 1) = Short[c] /\ Len(Written(c)) = 2
    BY <1>2, <2>1
  <2>3. Lengthened(Short[c]) = c
    BY <1>4, ShortBack DEF Shortened
  <2> QED  BY <2>1, <2>2, <2>3, ReadEscapes
<1>5. CASE Numbered(c)
  <2>1. PICK d \in 0..15, e \in 0..15 : d = c \div 16 /\ e = c % 16
    BY <1>5 DEF Numbered
  <2>2. c = 16 * d + e /\ c < 32 /\ Written(c) = <<92, 117, 48, 48, Digit(d), Digit(e)>>
    BY <1>5, <2>1 DEF Numbered
  <2>3. /\ Len(w) = 6 /\ w[1] = 92 /\ w[2] = 117
        /\ w[3] = 48 /\ w[4] = 48 /\ w[5] = Digit(d) /\ w[6] = Digit(e)
    BY <1>0, <2>2
  <2>4. ASSUME NEW j \in 1..6, NEW k \in Int, k = i - 1 + j
        PROVE  ByteAt(s, k) = w[j] /\ s[k] = w[j]
    <3>1. j \in 1..Len(w)
      BY <2>3
    <3> QED  BY <1>6, <2>4, <3>1
  <2>5. PICK i2 \in Int, i3 \in Int, i4 \in Int, i5 \in Int :
           i2 = i + 2 /\ i3 = i + 3 /\ i4 = i + 4 /\ i5 = i + 5
    OBVIOUS
  <2>6. /\ ByteAt(s, i) = 92 /\ s[i] = 92 /\ ByteAt(s, i + 1) = 117 /\ ByteAt(s, i2) = 48
        /\ ByteAt(s, i3) = 48 /\ ByteAt(s, i4) = Digit(d) /\ ByteAt(s, i5) = Digit(e)
    <3>1. i = i - 1 + 1 /\ i + 1 = i - 1 + 2 /\ i2 = i - 1 + 3 /\ i3 = i - 1 + 4
          /\ i4 = i - 1 + 5 /\ i5 = i - 1 + 6 /\ i + 1 \in Int
      BY <2>5
    <3> QED  BY <2>3, <2>4, <3>1
  <2>7. parse_utf16_hex(s, i2) = c
    <3>1. i2 \in Nat /\ i3 = i2 + 1 /\ i4 = i2 + 2 /\ i5 = i2 + 3
      BY <2>5
    <3>2. ByteAt(s, i2) = 48 /\ ByteAt(s, i3) = 48 /\ ByteAt(s, i4) = Digit(d) /\ ByteAt(s, i5) = Digit(e)
      BY <2>6
    <3>3. c = 16 * d + e
      BY <2>2
    <3> QED  BY <3>1, <3>2, <3>3, HexOf, Zenon
  <2>8. parse_utf16(s, i + 1) = [length |-> 5, out |-> <<c>>]
    <3>1. PICK k \in Int : k = i + 1
      OBVIOUS
    <3>2. i2 = k + 1
      BY <2>5, <3>1
    <3>3. parse_utf16(s, k) = [length |-> 5, out |-> <<c>>]
      BY <2>2, <2>7, <3>2, SmallParsed
    <3> QED  BY <3>1, <3>3
  <2>9. Processed(s, i) = [parse_utf16(s, i + 1) EXCEPT !.length = @ + 1]
    BY <2>6, ReadEscapes
  <2>10. Len(Written(c)) = 6
    BY <1>0, <2>3
  <2> QED  BY <2>6, <2>8, <2>9, <2>10
<1> QED  BY <1>1, <1>3, <1>4, <1>5, WrittenOne

\* Where the string ends that goes on at i, if it does at a from the next
\* byte, and at b from the one after it.
EndAt(s, i, a, b) ==
  CASE ByteAt(s, i) = 0  -> 0
    [] ByteAt(s, i) = 34 -> i
    [] ByteAt(s, i) = 92 -> IF ByteAt(s, i + 1) = 0 THEN 0 ELSE b
    [] OTHER -> a

Ends(s, f) == f = [i \in 1..(Len(s) + 1) |-> EndAt(s, i, f[i + 1], f[i + 2])]

LEMMA EndAtIs ==
  ASSUME NEW s, NEW i, NEW a, NEW b
  PROVE  /\ ByteAt(s, i) = 0 => EndAt(s, i, a, b) = 0
         /\ ByteAt(s, i) = 34 => EndAt(s, i, a, b) = i
         /\ ByteAt(s, i) = 92 /\ ByteAt(s, i + 1) = 0 => EndAt(s, i, a, b) = 0
         /\ ByteAt(s, i) = 92 /\ ByteAt(s, i + 1) # 0 => EndAt(s, i, a, b) = b
         /\ ByteAt(s, i) # 0 /\ ByteAt(s, i) # 34 /\ ByteAt(s, i) # 92 =>
              EndAt(s, i, a, b) = a
BY SMT DEF EndAt

\* Past the end of a string there is a null byte.
LEMMA ByteIsIn ==
  ASSUME NEW s \in Seq(Byte), NEW i \in Nat \ {0}, ByteAt(s, i) # 0
  PROVE  i <= Len(s)
BY DEF ByteAt

LEMMA EndsExist ==
  ASSUME NEW s \in Seq(Byte)
  PROVE  \E f : Ends(s, f)
<1>1. PICK n \in Nat : n = Len(s)
  OBVIOUS
<1> DEFINE Right(f, k) ==
             \A i \in (n + 2 - k)..(n + 1) : f[i] = EndAt(s, i, f[i + 1], f[i + 2])
           T == {k \in Nat : k <= n + 1 => \E f : Right(f, k)}
<1>2. 0 \in T
  <2>1. Right(<<>>, 0)
    OBVIOUS
  <2> QED  BY <2>1
<1>3. ASSUME NEW k \in Nat, k \in T PROVE k + 1 \in T
  <2> SUFFICES ASSUME k + 1 <= n + 1 PROVE \E f : Right(f, k + 1)
    OBVIOUS
  <2>1. PICK f : Right(f, k)
    BY <1>3
  <2>2. PICK j \in Int : j = n + 1 - k
    OBVIOUS
  <2>3. PICK y : y = EndAt(s, j, f[j + 1], f[j + 2])
    OBVIOUS
  <2>4. PICK g : g = [i \in Int |-> IF i = j THEN y ELSE f[i]]
    OBVIOUS
  <2>5. ASSUME NEW i \in (n + 2 - (k + 1))..(n + 1)
        PROVE  g[i] = EndAt(s, i, g[i + 1], g[i + 2])
    <3>1. g[i + 1] = f[i + 1] /\ g[i + 2] = f[i + 2]
      BY <2>2, <2>4
    <3>2. CASE i = j
      <4>1. g[i] = y
        BY <2>4, <3>2
      <4> QED  BY <2>3, <3>1, <3>2, <4>1
    <3>3. CASE i # j
      <4>1. g[i] = f[i] /\ i \in (n + 2 - k)..(n + 1)
        BY <2>2, <2>4, <3>3
      <4>2. f[i] = EndAt(s, i, f[i + 1], f[i + 2])
        BY <2>1, <4>1
      <4> QED  BY <3>1, <4>1, <4>2
    <3> QED  BY <3>2, <3>3
  <2>6. Right(g, k + 1)
    BY <2>5
  <2> HIDE DEF Right
  <2> QED  BY <2>6
<1>4. PICK f : Right(f, n + 1)
  <2>1. n + 1 \in T
    <3>1. n + 1 \in Nat
      OBVIOUS
    <3> HIDE DEF T
    <3> QED  BY <1>2, <1>3, <3>1, NatSetInduction
  <2> QED  BY <2>1
<1>5. PICK h : h = [i \in 1..(n + 1) |-> f[i]]
  OBVIOUS
<1>6. ASSUME NEW i \in 1..(n + 1)
      PROVE  h[i] = EndAt(s, i, h[i + 1], h[i + 2])
  <2>1. h[i] = EndAt(s, i, f[i + 1], f[i + 2])
    <3>1. n + 2 - (n + 1) = 1
      OBVIOUS
    <3> QED  BY <1>4, <1>5, <3>1
  <2>2. CASE ByteAt(s, i) = 0 \/ ByteAt(s, i) = 34
    BY <2>1, <2>2, EndAtIs
  <2>3. CASE ByteAt(s, i) # 0 /\ ByteAt(s, i) # 34 /\ ByteAt(s, i) # 92
    <3>1. i <= n
      BY <1>1, <2>3, ByteIsIn
    <3>2. h[i + 1] = f[i + 1]
      BY <1>5, <3>1
    <3> QED  BY <2>1, <2>3, <3>2, EndAtIs
  <2>4. CASE ByteAt(s, i) = 92 /\ ByteAt(s, i + 1) = 0
    BY <2>1, <2>4, EndAtIs
  <2>5. CASE ByteAt(s, i) = 92 /\ ByteAt(s, i + 1) # 0
    <3>1. i + 1 <= n
      BY <1>1, <2>5, ByteIsIn
    <3>2. h[i + 2] = f[i + 2]
      BY <1>5, <3>1
    <3> QED  BY <2>1, <2>5, <3>2, EndAtIs
  <2> QED  BY <2>2, <2>3, <2>4, <2>5
<1>7. h = [i \in 1..(n + 1) |-> EndAt(s, i, h[i + 1], h[i + 2])]
  BY <1>5, <1>6
<1> QED  BY <1>1, <1>7 DEF Ends

LEMMA EndsStep ==
  ASSUME NEW s \in Seq(Byte), NEW f, Ends(s, f), NEW i \in 1..(Len(s) + 1)
  PROVE  f[i] = EndAt(s, i, f[i + 1], f[i + 2])
BY Zenon DEF Ends

LEMMA SkipsTo ==
  ASSUME NEW s \in Seq(Byte), ByteAt(s, 1) = 34
  PROVE  \E f : Ends(s, f) /\ skip_quotes(s) = f[2]
<1> DEFINE f == CHOOSE g : Ends(s, g)
<1>1. skip_quotes(s) = IF ByteAt(s, 1) = 34 THEN f[2] ELSE 0
  BY Zenon DEF skip_quotes, Ends, EndAt
<1>2. Ends(s, f)
  BY EndsExist
<1> HIDE DEF f
<1> QED  BY <1>1, <1>2

\* A number is read where there are four digits.
LEMMA HexIsIn ==
  ASSUME NEW s \in Seq(Byte), NEW i \in Nat \ {0}, parse_utf16_hex(s, i) # -1
  PROVE  i + 3 <= Len(s)
<1> DEFINE x == [k \in 1..4 |-> hex_char_to_int(ByteAt(s, i + k - 1))]
<1>1. -1 \notin Range(x)
  BY Zenon DEF parse_utf16_hex
<1>2. x[4] # -1
  <2>1. 4 \in DOMAIN x
    OBVIOUS
  <2> HIDE DEF x
  <2> QED  BY <1>1, <2>1 DEF Range
<1>3. i + 4 - 1 = i + 3
  OBVIOUS
<1>4. hex_char_to_int(ByteAt(s, i + 3)) # -1
  BY <1>2, <1>3
<1>5. hex_char_to_int(0) = -1
  BY SMT DEF hex_char_to_int
<1>6. ByteAt(s, i + 3) # 0
  BY <1>4, <1>5
<1> QED  BY <1>6, ByteIsIn

\* What is read is in the string.
Goes(s, i, p) == p.out # Error => p.length \in Nat \ {0} /\ i + p.length <= Len(s) + 1

LEMMA UnitGoes ==
  ASSUME NEW s \in Seq(Byte), NEW i \in Nat \ {0}
  PROVE  parse_utf16(s, i).out # Error =>
           parse_utf16(s, i).length \in Nat \ {0} /\ i + parse_utf16(s, i).length <= Len(s) + 1
<1>1. PICK cp : cp = parse_utf16_hex(s, i + 1)
  OBVIOUS
<1>2. CASE cp # -1 /\ ~IsLead(cp) /\ ~IsTrailing(cp)
  <2>1. parse_utf16(s, i).length = 5
    BY <1>1, <1>2 DEF parse_utf16
  <2>2. (i + 1) + 3 <= Len(s)
    BY <1>1, <1>2, HexIsIn
  <2>3. PICK n \in Nat : n = Len(s)
    OBVIOUS
  <2>4. i + 5 <= n + 1
    BY <2>2, <2>3
  <2> QED  BY <2>1, <2>3, <2>4
<1>3. CASE /\ ~(cp # -1 /\ ~IsLead(cp) /\ ~IsTrailing(cp))
           /\ IsLead(cp) /\ IsTrail(s, i + 5)
  <2>1. parse_utf16(s, i).length = 11
    BY <1>1, <1>3 DEF parse_utf16
  <2>2. PICK k \in Nat, n \in Nat : k = i + 5 + 2 /\ n = Len(s)
    OBVIOUS
  <2>3. parse_utf16_hex(s, k) # -1
    <3>1. IsTrailing(parse_utf16_hex(s, i + 5 + 2))
      BY <1>3, Zenon DEF IsTrail
    <3>2. ~IsTrailing(-1)
      BY SMT DEF IsTrailing
    <3> QED  BY <2>2, <3>1, <3>2, Zenon
  <2>4. k + 3 <= n
    BY <2>2, <2>3, HexIsIn
  <2>5. i + 11 <= n + 1
    BY <2>2, <2>4
  <2> QED  BY <2>1, <2>2, <2>5
<1>4. CASE /\ ~(cp # -1 /\ ~IsLead(cp) /\ ~IsTrailing(cp))
           /\ ~(IsLead(cp) /\ IsTrail(s, i + 5))
  <2>1. parse_utf16(s, i).out = Error
    BY <1>1, <1>4 DEF parse_utf16
  <2> QED  BY <2>1
<1> QED  BY <1>2, <1>3, <1>4

LEMMA UnitForm ==
  ASSUME NEW s, NEW i
  PROVE  \E l, o : parse_utf16(s, i) = [length |-> l, out |-> o]
BY Zenon DEF parse_utf16

LEMMA ProcessedGoes ==
  ASSUME NEW s \in Seq(Byte), NEW i \in Nat \ {0}, ByteAt(s, i) # 0
  PROVE  Goes(s, i, Processed(s, i))
<1>1. PICK n \in Nat : n = Len(s)
  OBVIOUS
<1>9. PICK c : c = ByteAt(s, i + 1)
  OBVIOUS
<1>2. i <= n
  BY <1>1, <1>9, ByteIsIn
<1>3. c # 0 => i + 1 <= n
  BY <1>1, <1>9, ByteIsIn
<1>4. CASE s[i] = 92 /\ c \in {34, 92, 47}
  <2>1. Processed(s, i).length = 2
    BY <1>1, <1>9, <1>4, ReadEscapes
  <2> QED  BY <1>1, <1>9, <1>3, <1>4, <2>1 DEF Goes
<1>5. CASE s[i] = 92 /\ c \in Letters
  <2>1. Processed(s, i).length = 2
    BY <1>1, <1>9, <1>5, ReadEscapes
  <2>2. c # 0
    BY <1>5 DEF Letters
  <2> QED  BY <1>1, <1>9, <1>3, <2>1, <2>2 DEF Goes
<1>6. CASE s[i] = 92 /\ c = 117
  <2>1. PICK p : p = parse_utf16(s, i + 1)
    OBVIOUS
  <2>2. Processed(s, i) = [p EXCEPT !.length = @ + 1]
    BY <1>1, <1>9, <1>6, <2>1, ReadEscapes
  <2>3. p = [length |-> p.length, out |-> p.out]
    BY <2>1, UnitForm
  <2>4. Processed(s, i).length = p.length + 1 /\ Processed(s, i).out = p.out
    BY <2>2, <2>3
  <2>5. p.out # Error => p.length \in Nat \ {0} /\ (i + 1) + p.length <= n + 1
    BY <1>1, <1>9, <2>1, UnitGoes
  <2> QED  BY <1>1, <1>9, <2>4, <2>5 DEF Goes
<1>7. CASE s[i] >= 32 /\ s[i] # 92
  <2>1. Processed(s, i).length = 1
    BY <1>7, SMT DEF Processed
  <2> QED  BY <1>1, <1>9, <1>2, <2>1 DEF Goes
<1>8. CASE /\ s[i] = 92 => c \notin {34, 92, 47} /\ c \notin Letters /\ c # 117
           /\ ~(s[i] >= 32 /\ s[i] # 92)
  <2>1. Processed(s, i).out = Error
    BY <1>1, <1>9, <1>8, LettersAre, SMT DEF Processed
  <2> QED  BY <2>1 DEF Goes
<1> QED  BY <1>4, <1>5, <1>6, <1>7, <1>8

\* What is read from i, if rest is from what comes after.
ProcessAt(s, i, rest) ==
  IF ByteAt(s, i) = 0 THEN <<>>
  ELSE IF Processed(s, i).out = Error \/ rest = Error THEN Error
       ELSE Processed(s, i).out \o rest

Processes(s, f) ==
  f = [i \in 1..(Len(s) + 1) |-> ProcessAt(s, i, f[i + Processed(s, i).length])]

LEMMA ProcessesExist ==
  ASSUME NEW s \in Seq(Byte)
  PROVE  \E f : Processes(s, f)
<1>1. PICK n \in Nat : n = Len(s)
  OBVIOUS
<1> DEFINE Right(f, k) ==
             \A i \in (n + 2 - k)..(n + 1) :
                f[i] = ProcessAt(s, i, f[i + Processed(s, i).length])
           T == {k \in Nat : k <= n + 1 => \E f : Right(f, k)}
<1>2. 0 \in T
  <2>1. Right(<<>>, 0)
    OBVIOUS
  <2> QED  BY <2>1
<1>3. ASSUME NEW k \in Nat, k \in T PROVE k + 1 \in T
  <2> SUFFICES ASSUME k + 1 <= n + 1 PROVE \E f : Right(f, k + 1)
    OBVIOUS
  <2>1. PICK f : Right(f, k)
    BY <1>3
  <2>2. PICK j \in Int : j = n + 1 - k
    OBVIOUS
  <2>3. PICK y : y = ProcessAt(s, j, f[j + Processed(s, j).length])
    OBVIOUS
  <2>4. PICK g : g = [i \in Int |-> IF i = j THEN y ELSE f[i]]
    OBVIOUS
  <2>5. ASSUME NEW i \in (n + 2 - (k + 1))..(n + 1)
        PROVE  g[i] = ProcessAt(s, i, g[i + Processed(s, i).length])
    <3>1. ProcessAt(s, i, g[i + Processed(s, i).length])
            = ProcessAt(s, i, f[i + Processed(s, i).length])
      <4>1. CASE ByteAt(s, i) = 0 \/ Processed(s, i).out = Error
        BY <4>1 DEF ProcessAt
      <4>2. CASE ByteAt(s, i) # 0 /\ Processed(s, i).out # Error
        <5>1. PICK l : l = Processed(s, i).length
          OBVIOUS
        <5>2. i \in Nat \ {0}
          BY <2>2
        <5>3. l \in Nat \ {0}
          BY <4>2, <5>1, <5>2, ProcessedGoes DEF Goes
        <5>4. g[i + l] = f[i + l]
          BY <2>2, <2>4, <5>3
        <5> QED  BY <5>1, <5>4
      <4> QED  BY <4>1, <4>2
    <3>2. CASE i = j
      <4>1. g[i] = y
        BY <2>4, <3>2
      <4> QED  BY <2>3, <3>1, <3>2, <4>1
    <3>3. CASE i # j
      <4>1. g[i] = f[i] /\ i \in (n + 2 - k)..(n + 1)
        BY <2>2, <2>4, <3>3
      <4>2. f[i] = ProcessAt(s, i, f[i + Processed(s, i).length])
        BY <2>1, <4>1
      <4> QED  BY <3>1, <4>1, <4>2
    <3> QED  BY <3>2, <3>3
  <2>6. Right(g, k + 1)
    BY <2>5
  <2> HIDE DEF Right
  <2> QED  BY <2>6
<1>4. PICK f : Right(f, n + 1)
  <2>1. n + 1 \in T
    <3>1. n + 1 \in Nat
      OBVIOUS
    <3> HIDE DEF T
    <3> QED  BY <1>2, <1>3, <3>1, NatSetInduction
  <2> QED  BY <2>1
<1>5. PICK h : h = [i \in 1..(n + 1) |-> f[i]]
  OBVIOUS
<1>6. ASSUME NEW i \in 1..(n + 1)
      PROVE  h[i] = ProcessAt(s, i, h[i + Processed(s, i).length])
  <2>1. h[i] = ProcessAt(s, i, f[i + Processed(s, i).length])
    <3>1. n + 2 - (n + 1) = 1
      OBVIOUS
    <3> QED  BY <1>4, <1>5, <3>1
  <2>2. CASE ByteAt(s, i) = 0 \/ Processed(s, i).out = Error
    BY <2>1, <2>2 DEF ProcessAt
  <2>3. CASE ByteAt(s, i) # 0 /\ Processed(s, i).out # Error
    <3>1. PICK l : l = Processed(s, i).length
      OBVIOUS
    <3>2. l \in Nat \ {0} /\ i + l <= n + 1
      BY <1>1, <2>3, <3>1, ProcessedGoes DEF Goes
    <3>3. h[i + l] = f[i + l]
      BY <1>5, <3>2
    <3> QED  BY <2>1, <3>1, <3>3
  <2> QED  BY <2>2, <2>3
<1>7. h = [i \in 1..(n + 1) |-> ProcessAt(s, i, h[i + Processed(s, i).length])]
  BY <1>5, <1>6
<1> QED  BY <1>1, <1>7 DEF Processes

LEMMA ProcessesStep ==
  ASSUME NEW s \in Seq(Byte), NEW f, Processes(s, f), NEW i \in 1..(Len(s) + 1)
  PROVE  f[i] = ProcessAt(s, i, f[i + Processed(s, i).length])
BY Zenon DEF Processes

LEMMA ProcessesFirst ==
  ASSUME NEW s \in Seq(Byte)
  PROVE  \E f : Processes(s, f) /\ process_string(s) = f[1]
<1> DEFINE f == CHOOSE g : Processes(s, g)
<1>1. process_string(s) = f[1]
  BY Zenon DEF process_string, Processes, ProcessAt
<1>2. Processes(s, f)
  BY ProcessesExist
<1> HIDE DEF f
<1> QED  BY <1>1, <1>2

Writing(s) == [k \in DOMAIN s |-> Written(s[k])]

LEMMA WritingType ==
  ASSUME NEW s \in Seq(Byte)
  PROVE  /\ Writing(s) \in Seq(Seq(Byte)) /\ Len(Writing(s)) = Len(s)
         /\ \A k \in 1..Len(s) : Writing(s)[k] = Written(s[k])
<1>1. PICK n \in Nat : n = Len(s) /\ DOMAIN s = 1..n
  OBVIOUS
<1>2. \A k \in 1..n : Written(s[k]) \in Seq(Byte)
  BY <1>1, ElementOfSeq, WrittenType
<1>3. Writing(s) = [k \in 1..n |-> Written(s[k])]
  BY <1>1 DEF Writing
<1> HIDE DEF Writing
<1> QED  BY <1>1, <1>2, <1>3

\* Each byte is written at its place.
LEMMA SpelledThere ==
  ASSUME NEW s \in Seq(Byte), NEW P, PartsAt(Writing(s), P), NEW k \in 1..Len(s)
  PROVE  /\ P[k - 1] \in Nat /\ P[k] = P[k - 1] + Len(Written(s[k]))
         /\ P[k] <= Len(FlattenSeq(Writing(s)))
         /\ \A j \in 1..Len(Written(s[k])) :
               FlattenSeq(Writing(s))[P[k - 1] + j] = Written(s[k])[j]
<1>1. PICK w : w = Writing(s)
  OBVIOUS
<1>2. Len(w) = Len(s) /\ w[k] = Written(s[k])
  BY <1>1, WritingType
<1>3. PartsAt(w, P)
  BY <1>1
<1>4. k \in 0..Len(w) /\ k \in 1..Len(w) /\ k - 1 \in 0..Len(w)
  BY <1>2
<1>5. P[k - 1] \in Nat /\ P[k] <= Len(FlattenSeq(w))
  BY <1>3, <1>4 DEF PartsAt
<1>6. P[k] = P[k - 1] + Len(w[k]) /\ \A j \in 1..Len(w[k]) : FlattenSeq(w)[P[k - 1] + j] = w[k][j]
  BY <1>3, <1>4 DEF PartsAt
<1> QED  BY <1>1, <1>2, <1>5, <1>6

LEMMA FirstAndRest ==
  ASSUME NEW S, NEW s \in Seq(S), NEW k \in 1..Len(s)
  PROVE  <<s[k]>> \o SubSeq(s, k + 1, Len(s)) = SubSeq(s, k, Len(s))
<1>1. PICK n \in Nat : n = Len(s)
  OBVIOUS
<1>2. PICK r : r = SubSeq(s, k + 1, n)
  OBVIOUS
<1>3. r \in Seq(S) /\ Len(r) = n - k /\ \A j \in 1..(n - k) : r[j] = s[k + j]
  <2>1. \A j \in 1..(n - k) : (k + 1) + j - 1 = k + j
    BY <1>1
  <2> QED  BY <1>1, <1>2, <2>1
<1>4. PICK q : q = SubSeq(s, k, n)
  OBVIOUS
<1>5. q \in Seq(S) /\ Len(q) = n - k + 1 /\ \A j \in 1..(n - k + 1) : q[j] = s[k + j - 1]
  BY <1>1, <1>4
<1>6. PICK u : u = <<s[k]>> \o r
  OBVIOUS
<1>7. /\ u \in Seq(S) /\ Len(u) = n - k + 1 /\ u[1] = s[k]
      /\ \A j \in 1..(n - k) : u[j + 1] = r[j]
  <2>1. s[k] \in S
    BY ElementOfSeq
  <2>2. <<s[k]>> \in Seq(S) /\ Len(<<s[k]>>) = 1 /\ <<s[k]>>[1] = s[k]
    BY <2>1
  <2>3. PICK e \in Seq(S) : e = <<s[k]>> /\ Len(e) = 1 /\ e[1] = s[k]
    BY <2>2
  <2>4. PICK m \in Nat : m = n - k
    <3>1. k <= n
      BY <1>1
    <3>2. n - k \in Nat
      BY <3>1
    <3> QED  BY <3>2
  <2>5. u = e \o r /\ Len(r) = m
    BY <1>3, <1>6, <2>3, <2>4
  <2>6. /\ u \in Seq(S) /\ Len(u) = 1 + m
        /\ \A j \in 1..(1 + m) : u[j] = IF j <= 1 THEN e[j] ELSE r[j - 1]
    BY <1>3, <2>3, <2>5, ConcatProperties
  <2>7. u[1] = s[k]
    BY <2>3, <2>4, <2>6
  <2>8. \A j \in 1..m : u[j + 1] = r[j]
    <3>1. \A j \in 1..m : j + 1 \in 1..(1 + m) /\ ~(j + 1 <= 1) /\ (j + 1) - 1 = j
      BY <2>4
    <3> QED  BY <2>6, <3>1
  <2> QED  BY <2>4, <2>6, <2>7, <2>8
<1>8. \A j \in 1..(n - k + 1) : u[j] = q[j]
  <2> SUFFICES ASSUME NEW j \in 1..(n - k + 1) PROVE u[j] = q[j]
    OBVIOUS
  <2>1. CASE j = 1
    <3>1. q[1] = s[k]
      BY <1>1, <1>5
    <3> QED  BY <1>7, <2>1, <3>1
  <2>2. CASE j # 1
    <3>1. PICK i \in 1..(n - k) : j = i + 1
      BY <1>1, <2>2
    <3>2. u[j] = r[i] /\ r[i] = s[k + i]
      BY <1>3, <1>7, <3>1
    <3>3. q[j] = s[k + i]
      <4>1. k + j - 1 = k + i
        BY <3>1
      <4> QED  BY <1>5, <4>1
    <3> QED  BY <3>2, <3>3
  <2> QED  BY <2>1, <2>2
<1> QED  BY <1>1, <1>2, <1>4, <1>5, <1>6, <1>7, <1>8, SeqEqual

\* Between its quotes a string that was written is read as it was.
LEMMA ProcessedBack ==
  ASSUME NEW s \in Seq(Byte)
  PROVE  process_string(FlattenSeq(Writing(s))) = s
<1>1. PICK n \in Nat : n = Len(s)
  OBVIOUS
<1>2. PICK w \in Seq(Seq(Byte)) : w = Writing(s) /\ Len(w) = n
  BY <1>1, WritingType
<1>3. PICK P : PartsAt(w, P)
  BY PartsAreAt
<1>4. PICK b \in Seq(Byte), l \in Nat : b = FlattenSeq(w) /\ l = Len(b)
  BY FlattenSeqType
<1>5. PICK f : Processes(b, f) /\ process_string(b) = f[1]
  BY ProcessesFirst
<1>6. P[0] = 0 /\ P[n] = l
  BY <1>2, <1>3, <1>4 DEF PartsAt
<1> DEFINE T == {m \in Nat : m <= n => f[P[n - m] + 1] = SubSeq(s, n - m + 1, n)}
<1>7. 0 \in T
  <2>1. PICK i \in 1..(l + 1) : i = l + 1
    OBVIOUS
  <2>2. f[i] = ProcessAt(b, i, f[i + Processed(b, i).length])
    BY <1>4, <1>5, ProcessesStep
  <2>3. ByteAt(b, i) = 0
    BY <1>4, <2>1 DEF ByteAt
  <2>4. f[i] = <<>>
    BY <2>2, <2>3 DEF ProcessAt
  <2>5. SubSeq(s, n + 1, n) = <<>>
    BY <1>1
  <2>6. n - 0 = n
    OBVIOUS
  <2> QED  BY <1>6, <2>1, <2>4, <2>5, <2>6
<1>8. ASSUME NEW m \in Nat, m \in T PROVE m + 1 \in T
  <2> SUFFICES ASSUME m + 1 <= n PROVE f[P[n - (m + 1)] + 1] = SubSeq(s, n - (m + 1) + 1, n)
    OBVIOUS
  <2>1. PICK k \in 1..n : k = n - m
    OBVIOUS
  <2>2. n - (m + 1) = k - 1 /\ n - (m + 1) + 1 = k /\ n - m + 1 = k + 1
    BY <2>1
  <2>3. f[P[k] + 1] = SubSeq(s, k + 1, n)
    BY <1>8, <2>1, <2>2
  <2>4. PICK c \in Byte : c = s[k]
    BY <1>1, ElementOfSeq
  <2>5. PICK x \in Seq(Byte), y \in Nat : x = Written(c) /\ y = Len(x)
    BY WrittenType
  <2>6. /\ P[k - 1] \in Nat /\ P[k] = P[k - 1] + y /\ P[k] <= l
        /\ \A j \in 1..y : b[P[k - 1] + j] = x[j]
    <3>1. k \in 1..Len(s) /\ PartsAt(Writing(s), P)
      BY <1>1, <1>2, <1>3
    <3>2. /\ P[k - 1] \in Nat /\ P[k] = P[k - 1] + Len(Written(s[k]))
          /\ P[k] <= Len(FlattenSeq(Writing(s)))
      BY <3>1, SpelledThere
    <3>3. \A j \in 1..Len(Written(s[k])) :
             FlattenSeq(Writing(s))[P[k - 1] + j] = Written(s[k])[j]
      BY <3>1, SpelledThere
    <3> QED  BY <1>2, <1>4, <2>4, <2>5, <3>2, <3>3
  <2>7. PICK p \in Nat, i \in Nat \ {0} : p = P[k - 1] /\ i = p + 1
    <3>1. PICK q \in Nat : q = P[k - 1]
      BY <2>6, Zenon
    <3>2. q + 1 \in Nat \ {0}
      OBVIOUS
    <3> QED  BY <3>1, <3>2
  <2>8. Spelled(b, i, x)
    <3>1. i - 1 = p /\ p + y <= l
      BY <2>6, <2>7
    <3> QED  BY <1>4, <2>5, <2>6, <2>7, <3>1 DEF Spelled
  <2>9. ByteAt(b, i) # 0 /\ Processed(b, i) = [length |-> y, out |-> <<c>>]
    BY <2>5, <2>8, ReadAsWritten
  <2>10. f[i] = ProcessAt(b, i, f[i + Processed(b, i).length])
    <3>1. i \in 1..(Len(b) + 1)
      BY <1>4, <2>9, ByteIsIn
    <3> QED  BY <1>5, <3>1, ProcessesStep
  <2>11. i + Processed(b, i).length = P[k] + 1
    <3>1. Processed(b, i).length = y
      BY <2>9
    <3> QED  BY <2>5, <2>6, <2>7, <3>1
  <2>12. <<c>> # Error /\ SubSeq(s, k + 1, n) # Error
    <3>1. PICK r \in Seq(Byte) : r = SubSeq(s, k + 1, n)
      <4>1. \A z \in (k + 1)..n : s[z] \in Byte
        <5>1. \A z \in (k + 1)..n : z \in 1..n
          OBVIOUS
        <5> QED  BY <1>1, <5>1, ElementOfSeq
      <4>2. PICK h \in Int : h = k + 1
        OBVIOUS
      <4>3. \A z \in h..n : s[z] \in Byte
        BY <4>1, <4>2
      <4>4. SubSeq(s, h, n) \in Seq(Byte)
        BY <4>3, SubSeqProperties
      <4> QED  BY <4>2, <4>4
    <3>2. -1 \notin Byte
      BY DEF Byte
    <3>3. \A z \in Seq(Byte) : z # <<-1>>
      <4> SUFFICES ASSUME <<-1>> \in Seq(Byte) PROVE FALSE
        OBVIOUS
      <4>1. 1 \in 1..Len(<<-1>>) /\ <<-1>>[1] = -1
        OBVIOUS
      <4>2. <<-1>>[1] \in Byte
        BY <4>1, ElementOfSeq
      <4> QED  BY <3>2, <4>1, <4>2
    <3>4. <<c>> \in Seq(Byte)
      OBVIOUS
    <3> QED  BY <3>1, <3>3, <3>4 DEF Error
  <2>13. f[i] = <<c>> \o SubSeq(s, k + 1, n)
    <3>1. Processed(b, i).out = <<c>>
      BY <2>9
    <3> QED  BY <2>3, <2>9, <2>10, <2>11, <2>12, <3>1 DEF ProcessAt
  <2>14. <<s[k]>> \o SubSeq(s, k + 1, n) = SubSeq(s, k, n)
    BY <1>1, FirstAndRest
  <2>15. f[i] = SubSeq(s, k, n)
    BY <2>4, <2>13, <2>14
  <2> QED  BY <2>2, <2>7, <2>15
<1>9. f[P[0] + 1] = SubSeq(s, 1, n)
  <2>1. n \in T
    <3> HIDE DEF T
    <3> QED  BY <1>7, <1>8, NatSetInduction
  <2>2. n - n = 0 /\ 0 + 1 = 1
    OBVIOUS
  <2> QED  BY <2>1, <2>2
<1>10. SubSeq(s, 1, n) = s
  BY <1>1
<1> QED  BY <1>2, <1>4, <1>5, <1>6, <1>9, <1>10

Passes(f, i, w) == f[i + Len(w)] = f[i]

\* From the first byte of what a byte is written as, the search for the end
\* goes to what comes after it.
LEMMA SkipsOne ==
  ASSUME NEW t \in Seq(Byte), NEW f, Ends(t, f), NEW i \in Nat \ {0}, NEW c \in Byte,
         Spelled(t, i, Written(c))
  PROVE  Passes(f, i, Written(c))
<1>0. SUFFICES ASSUME NEW k, k = i + Len(Written(c)) PROVE f[k] = f[i]
  BY DEF Passes
<1>1. PICK w \in Seq(Byte), l \in Nat : w = Written(c) /\ Spelled(t, i, w) /\ l = Len(w)
  BY WrittenType
<1>2. ASSUME NEW j \in 1..l, NEW h \in Int, h = i - 1 + j
      PROVE  ByteAt(t, h) = w[j]
  BY <1>1, <1>2, SpelledAt
<1>3. ASSUME NEW h \in Nat \ {0}, ByteAt(t, h) # 0
      PROVE  f[h] = EndAt(t, h, f[h + 1], f[h + 2])
  <2>1. h \in 1..(Len(t) + 1)
    BY <1>3, ByteIsIn
  <2> QED  BY <2>1, EndsStep
<1>4. ASSUME NEW h \in Nat \ {0}, ByteAt(t, h) # 0, ByteAt(t, h) # 34, ByteAt(t, h) # 92
      PROVE  f[h] = f[h + 1]
  BY <1>3, <1>4, EndAtIs
<1>5. ASSUME NEW h \in Nat \ {0}, ByteAt(t, h) = 92, ByteAt(t, h + 1) # 0
      PROVE  f[h] = f[h + 2]
  BY <1>3, <1>5, EndAtIs
<1>6. CASE AsItself(c)
  <2>1. l = 1 /\ w[1] = c /\ c # 0 /\ c # 34 /\ c # 92
    BY <1>1, <1>6 DEF AsItself
  <2>2. ByteAt(t, i) = c
    BY <1>2, <2>1
  <2>3. f[i] = f[i + 1]
    BY <1>4, <2>1, <2>2
  <2> QED  BY <1>0, <1>1, <2>1, <2>3
<1>7. ASSUME NEW x \in Byte, x # 0, Written(c) = <<92, x>>
      PROVE  f[k] = f[i]
  <2>1. l = 2 /\ w[1] = 92 /\ w[2] = x
    BY <1>1, <1>7
  <2>2. ByteAt(t, i) = 92 /\ ByteAt(t, i + 1) = x
    BY <1>2, <2>1
  <2>3. f[i] = f[i + 2]
    BY <1>5, <1>7, <2>2
  <2> QED  BY <1>0, <1>1, <2>1, <2>3
<1>8. CASE Quoted(c)
  BY <1>7, <1>8 DEF Quoted
<1>9. CASE Shortened(c)
  <2>1. Short[c] \in Byte /\ Short[c] # 0 /\ Written(c) = <<92, Short[c]>>
    BY <1>9, ShortBack DEF Shortened, Letters, Byte
  <2> QED  BY <1>7, <2>1
<1>10. CASE Numbered(c)
  <2>1. PICK d \in 0..15, e \in 0..15 : Written(c) = <<92, 117, 48, 48, Digit(d), Digit(e)>>
    BY <1>10 DEF Numbered
  <2>2. PICK x \in Byte, y \in Byte : x = Digit(d) /\ y = Digit(e)
    BY DigitRead
  <2>3. x # 0 /\ x # 34 /\ x # 92 /\ y # 0 /\ y # 34 /\ y # 92
    BY <2>2, DigitRead
  <2>4. /\ l = 6 /\ w[1] = 92 /\ w[2] = 117 /\ w[3] = 48 /\ w[4] = 48 /\ w[5] = x /\ w[6] = y
    BY <1>1, <2>1, <2>2
  <2>5. PICK i1 \in Nat, i2 \in Nat, i3 \in Nat, i4 \in Nat, i5 \in Nat :
           i1 = i + 1 /\ i2 = i + 2 /\ i3 = i + 3 /\ i4 = i + 4 /\ i5 = i + 5
    OBVIOUS
  <2>6. /\ ByteAt(t, i) = 92 /\ ByteAt(t, i1) = 117 /\ ByteAt(t, i2) = 48
        /\ ByteAt(t, i3) = 48 /\ ByteAt(t, i4) = x /\ ByteAt(t, i5) = y
    <3>1. i = i - 1 + 1 /\ i1 = i - 1 + 2 /\ i2 = i - 1 + 3 /\ i3 = i - 1 + 4
          /\ i4 = i - 1 + 5 /\ i5 = i - 1 + 6
      BY <2>5
    <3>2. \A j \in 1..6 : j \in 1..l
      BY <2>4
    <3>3. ByteAt(t, i) = w[1] /\ ByteAt(t, i1) = w[2] /\ ByteAt(t, i2) = w[3]
      BY <1>2, <2>4, <2>5, <3>1, <3>2
    <3>4. ByteAt(t, i3) = w[4] /\ ByteAt(t, i4) = w[5] /\ ByteAt(t, i5) = w[6]
      BY <1>2, <2>4, <2>5, <3>1, <3>2
    <3> QED  BY <2>4, <3>3, <3>4
  <2>7. f[i] = f[i2]
    BY <1>5, <2>5, <2>6
  <2>8. f[i2] = f[i3]
    <3>1. i2 \in Nat \ {0} /\ i3 = i2 + 1
      BY <2>5
    <3> QED  BY <1>4, <2>6, <3>1
  <2>9. f[i3] = f[i4]
    <3>1. i3 \in Nat \ {0} /\ i4 = i3 + 1
      BY <2>5
    <3> QED  BY <1>4, <2>6, <3>1
  <2>10. f[i4] = f[i5]
    <3>1. i4 \in Nat \ {0} /\ i5 = i4 + 1
      BY <2>5
    <3> QED  BY <1>4, <2>3, <2>6, <3>1
  <2>11. f[i5] = f[i + 6]
    <3>1. i5 \in Nat \ {0} /\ i + 6 = i5 + 1
      BY <2>5
    <3> QED  BY <1>4, <2>3, <2>6, <3>1
  <2>12. k = i + 6
    BY <1>0, <1>1, <2>4
  <2> QED  BY <2>7, <2>8, <2>9, <2>10, <2>11, <2>12
<1> QED  BY <1>6, <1>8, <1>9, <1>10, WrittenOne

\* t is the string b between quotes.
Between(t, b, l) ==
  /\ t \in Seq(Byte) /\ Len(t) = l + 2 /\ t[1] = 34 /\ t[l + 2] = 34
  /\ \A j \in 1..l : t[j + 1] = b[j]

LEMMA BetweenQuotes ==
  ASSUME NEW b \in Seq(Byte), NEW l \in Nat, l = Len(b), NEW t, t = << 34 >> \o b \o << 34 >>
  PROVE  Between(t, b, l)
<1>1. PICK q \in Seq(Byte) : q = <<34>> /\ Len(q) = 1 /\ q[1] = 34
  <2>1. 34 \in Byte
    BY DEF Byte
  <2>2. <<34>> \in Seq(Byte) /\ Len(<<34>>) = 1 /\ <<34>>[1] = 34
    BY <2>1
  <2> QED  BY <2>2
<1>2. PICK a : a = q \o b
  OBVIOUS
<1>3. /\ a \in Seq(Byte) /\ Len(a) = 1 + l
      /\ \A j \in 1..(1 + l) : a[j] = IF j <= 1 THEN q[j] ELSE b[j - 1]
  BY <1>1, <1>2, ConcatProperties
<1>4. t = a \o q
  BY <1>1, <1>2
<1>5. /\ t \in Seq(Byte) /\ Len(t) = (1 + l) + 1
      /\ \A j \in 1..((1 + l) + 1) : t[j] = IF j <= 1 + l THEN a[j] ELSE q[j - (1 + l)]
  BY <1>1, <1>3, <1>4, ConcatProperties
<1>6. t[1] = 34
  <2>1. t[1] = a[1] /\ a[1] = q[1]
    BY <1>3, <1>5
  <2> QED  BY <1>1, <2>1
<1>7. t[l + 2] = 34
  <2>1. PICK j \in 1..((1 + l) + 1) : j = l + 2 /\ ~(j <= 1 + l) /\ j - (1 + l) = 1
    OBVIOUS
  <2>2. t[j] = q[1]
    BY <1>5, <2>1
  <2> QED  BY <1>1, <2>1, <2>2
<1>8. ASSUME NEW j \in 1..l PROVE t[j + 1] = b[j]
  <2>1. PICK k \in 1..(1 + l) : k = j + 1 /\ ~(k <= 1) /\ k - 1 = j
    OBVIOUS
  <2>2. t[k] = a[k]
    BY <1>5, <2>1
  <2>3. a[k] = b[k - 1]
    BY <1>3, <2>1
  <2> QED  BY <2>1, <2>2, <2>3
<1>9. Len(t) = l + 2
  BY <1>5
<1> QED  BY <1>5, <1>6, <1>7, <1>8, <1>9 DEF Between

\* The search for the end of a string that was written goes to the quote after it.
LEMMA EndFound ==
  ASSUME NEW s \in Seq(Byte), NEW b, b = FlattenSeq(Writing(s)), NEW t, t = << 34 >> \o b \o << 34 >>
  PROVE  skip_quotes(t) = Len(b) + 2
<1>1. PICK n \in Nat : n = Len(s)
  OBVIOUS
<1>2. PICK w \in Seq(Seq(Byte)) : w = Writing(s) /\ Len(w) = n
  BY <1>1, WritingType
<1>3. PICK P : PartsAt(w, P)
  BY PartsAreAt
<1>4. b \in Seq(Byte)
  BY <1>2, FlattenSeqType
<1>5. PICK l \in Nat : l = Len(b)
  BY <1>4, LenProperties
<1>6. /\ t \in Seq(Byte) /\ Len(t) = l + 2 /\ t[1] = 34 /\ t[l + 2] = 34
      /\ \A j \in 1..l : t[j + 1] = b[j]
  <2>1. Between(t, b, l)
    BY <1>4, <1>5, BetweenQuotes, Zenon
  <2> QED  BY <2>1 DEF Between
<1>7. ByteAt(t, 1) = 34 /\ ByteAt(t, l + 2) = 34
  <2>1. DOMAIN t = 1..(l + 2)
    BY <1>6
  <2> QED  BY <1>6, <2>1 DEF ByteAt
<1>8. PICK f : Ends(t, f) /\ skip_quotes(t) = f[2]
  BY <1>6, <1>7, SkipsTo
<1>9. P[0] = 0 /\ P[n] = l
  BY <1>2, <1>3, <1>5 DEF PartsAt
<1> DEFINE T == {m \in Nat : m <= n => f[P[n - m] + 2] = l + 2}
<1>10. 0 \in T
  <2>1. f[l + 2] = EndAt(t, l + 2, f[l + 2 + 1], f[l + 2 + 2])
    <3>1. PICK i \in 1..(Len(t) + 1) : i = l + 2
      BY <1>6
    <3> QED  BY <1>6, <1>8, <3>1, EndsStep
  <2>2. f[l + 2] = l + 2
    BY <1>7, <2>1, EndAtIs
  <2>3. n - 0 = n
    OBVIOUS
  <2> QED  BY <1>9, <2>2, <2>3
<1>11. ASSUME NEW m \in Nat, m \in T PROVE m + 1 \in T
  <2> SUFFICES ASSUME m + 1 <= n PROVE f[P[n - (m + 1)] + 2] = l + 2
    OBVIOUS
  <2>1. PICK k \in 1..n : k = n - m
    OBVIOUS
  <2>2. n - (m + 1) = k - 1
    BY <2>1
  <2>3. f[P[k] + 2] = l + 2
    BY <1>11, <2>1
  <2>4. PICK c \in Byte : c = s[k]
    BY <1>1, ElementOfSeq
  <2>5. PICK x \in Seq(Byte), y \in Nat : x = Written(c) /\ y = Len(x)
    BY WrittenType
  <2>6. /\ P[k - 1] \in Nat /\ P[k] = P[k - 1] + y /\ P[k] <= l
        /\ \A j \in 1..y : b[P[k - 1] + j] = x[j]
    <3>1. k \in 1..Len(s) /\ PartsAt(Writing(s), P)
      BY <1>1, <1>2, <1>3
    <3>2. /\ P[k - 1] \in Nat /\ P[k] = P[k - 1] + Len(Written(s[k]))
          /\ P[k] <= Len(FlattenSeq(Writing(s)))
      BY <3>1, SpelledThere
    <3>3. \A j \in 1..Len(Written(s[k])) :
             FlattenSeq(Writing(s))[P[k - 1] + j] = Written(s[k])[j]
      BY <3>1, SpelledThere
    <3> QED  BY <1>2, <1>5, <2>4, <2>5, <3>2, <3>3
  <2>7. PICK p \in Nat, i \in Nat \ {0} : p = P[k - 1] /\ i = p + 2
    <3>1. PICK q \in Nat : q = P[k - 1]
      BY <2>6, Zenon
    <3>2. q + 2 \in Nat \ {0}
      OBVIOUS
    <3> QED  BY <3>1, <3>2
  <2>13. i = p + 2
    BY <2>7
  <2>12. P[k] = p + y /\ p + y <= l
    BY <2>6, <2>7
  <2>8. Spelled(t, i, x)
    <3>1. i - 1 + y <= l + 2
      <4>1. i - 1 = p + 1
        BY <2>7
      <4> QED  BY <2>12, <4>1
    <3>2. ASSUME NEW j \in 1..y PROVE t[i - 1 + j] = x[j]
      <4>1. PICK h \in 1..l : h = p + j
        BY <2>12
      <4>2. t[h + 1] = b[h] /\ b[h] = x[j]
        BY <1>6, <2>6, <2>7, <4>1
      <4>3. i - 1 + j = h + 1
        BY <2>13, <4>1
      <4> QED  BY <4>2, <4>3
    <3> QED  BY <1>6, <2>5, <3>1, <3>2 DEF Spelled
  <2>9. PICK g \in Nat : g = i + y
    OBVIOUS
  <2>10. f[g] = f[i]
    <3>1. Spelled(t, i, Written(c)) /\ g = i + Len(Written(c))
      BY <2>5, <2>8, <2>9
    <3>2. Ends(t, f) /\ t \in Seq(Byte)
      BY <1>6, <1>8
    <3>3. Passes(f, i, Written(c))
      BY <2>4, <2>7, <3>1, <3>2, SkipsOne, Zenon
    <3> QED  BY <3>1, <3>3 DEF Passes
  <2>11. g = P[k] + 2
    <3>1. i = p + 2
      BY <2>7
    <3> QED  BY <2>9, <2>12, <3>1
  <2> QED  BY <2>2, <2>3, <2>7, <2>10, <2>11
<1>12. f[P[0] + 2] = l + 2
  <2>1. n \in T
    <3> HIDE DEF T
    <3> QED  BY <1>10, <1>11, NatSetInduction
  <2>2. n - n = 0
    OBVIOUS
  <2> QED  BY <2>1, <2>2
<1> QED  BY <1>5, <1>8, <1>9, <1>12

\* Every string of bytes is read as it was written.
THEOREM ReadAsItWas ==
  ASSUME NEW s \in Seq(Byte)
  PROVE  get_quoted_string(json_serialize_string(s)) = s
<1>1. PICK b : b = FlattenSeq(Writing(s))
  OBVIOUS
<1>2. b \in Seq(Byte)
  BY <1>1, WritingType, FlattenSeqType
<1>3. PICK l \in Nat : l = Len(b)
  BY <1>2, LenProperties
<1>4. PICK t : t = <<34>> \o b \o <<34>>
  OBVIOUS
<1>5. json_serialize_string(s) = t
  BY <1>1, <1>4, Zenon DEF json_serialize_string, Writing
<1>6. skip_quotes(t) = l + 2
  BY <1>1, <1>3, <1>4, EndFound
<1>7. SubSeq(t, 2, l + 1) = b
  <2>1. /\ t \in Seq(Byte) /\ Len(t) = l + 2 /\ \A j \in 1..l : t[j + 1] = b[j]
    <3>1. Between(t, b, l)
      BY <1>2, <1>3, <1>4, BetweenQuotes, Zenon
    <3> QED  BY <3>1 DEF Between
  <2>2. PICK u : u = SubSeq(t, 2, l + 1)
    OBVIOUS
  <2>3. u \in Seq(Byte) /\ Len(u) = l /\ \A j \in 1..l : u[j] = t[j + 1]
    <3>1. \A j \in 1..l : 2 + j - 1 = j + 1
      OBVIOUS
    <3> QED  BY <2>1, <2>2, <3>1
  <2> QED  BY <1>2, <1>3, <2>1, <2>2, <2>3, SeqEqual
<1>8. get_quoted_string(t) = process_string(SubSeq(t, 2, l + 1))
  <2>1. (l + 2) - 1 = l + 1 /\ l + 2 # 0
    OBVIOUS
  <2>2. get_quoted_string(t) = IF skip_quotes(t) = 0 THEN Error
                               ELSE process_string(SubSeq(t, 2, skip_quotes(t) - 1))
    BY Zenon DEF get_quoted_string
  <2> QED  BY <1>6, <2>1, <2>2
<1> QED  BY <1>1, <1>5, <1>7, <1>8, ProcessedBack

\* Whatever bytes a string has, reading what json_serialize_string writes of it
\* gives the string (parson.c:787-806, 1290-1352).
THEOREM WrittenStringsAreRead == StringSpec => []StringsRead
<1>1. pieces \in Seq(Seq(Byte)) => StringsRead
  BY FlattenSeqType, ReadAsItWas DEF StringsRead, bytes
<1> QED  BY <1>1, PiecesType, PTL
=============================================================================
