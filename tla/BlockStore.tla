----------------------------- MODULE BlockStore -----------------------------
(***************************************************************************)
(* What the users of an arena rely on: a block keeps its contents until    *)
(* its owner writes to it or everything is released, whatever is allocated *)
(* in the meantime. A block's contents are a sequence of bytes.            *)
(***************************************************************************)
CONSTANTS
    Handle,     \* names of blocks
    Value       \* contents of a byte

VARIABLE store  \* the contents of every block there is

Kept(handles) == \A h \in handles : store'[h] = store[h]

Init == DOMAIN store = {}

\* A new block holds anything.
Acquire(h) ==
    /\ h \notin DOMAIN store
    /\ DOMAIN store' = DOMAIN store \cup {h}
    /\ Kept(DOMAIN store)

Fill(h, v) ==
    /\ h \in DOMAIN store
    /\ DOMAIN store' = DOMAIN store
    /\ Kept(DOMAIN store \ {h})
    /\ store'[h] = [k \in DOMAIN store[h] |-> v]

\* A block that grows or shrinks keeps what fits.
Resize(h) ==
    /\ h \in DOMAIN store
    /\ DOMAIN store' = DOMAIN store
    /\ Kept(DOMAIN store \ {h})
    /\ \A k \in DOMAIN store[h] \cap DOMAIN store'[h] :
          store'[h][k] = store[h][k]

ReleaseAll == DOMAIN store' = {}

Next == \/ \E h \in Handle : \/ Acquire(h) \/ Resize(h)
                             \/ \E v \in Value : Fill(h, v)
        \/ ReleaseAll

Spec == Init /\ [][Next]_store
=============================================================================
