----------------------------- MODULE StreamIndex ----------------------------
(* The maps and the lists of contracts/stream/src/storage.rs.  A map stands  *)
(* for the storage keys that are present.  A list is a counter and slots     *)
(* that are numbered from 0, as the code keeps them.                         *)
EXTENDS Integers, Sequences

Put(f, key, value) ==
    [k \in DOMAIN f \cup {key} |-> IF k = key THEN value ELSE f[k]]
Drop(f, key) == [k \in DOMAIN f \ {key} |-> f[k]]

EmptyIndex == [count |-> 0, slots |-> <<>>]

(* index_by_sender, index_by_recipient, index_global_stream: the slot at the *)
(* counter, which moves on.                                                  *)
Indexed(index, id) ==
    [count |-> index.count + 1, slots |-> Put(index.slots, index.count, id)]

(* The slots below the counter that hold an id.                              *)
Holding(index, id) ==
    {i \in 0..(index.count - 1) : i \in DOMAIN index.slots /\ index.slots[i] = id}
FirstHolding(index, id) ==
    CHOOSE i \in Holding(index, id) : \A j \in Holding(index, id) : i <= j

(* Mutant: the last slot goes without its id taking the freed slot.          *)
UnindexedNoSwap(index, id) ==
    LET last == index.count - 1
    IN  IF Holding(index, id) = {}
        THEN index
        ELSE [count |-> last, slots |-> Drop(index.slots, last)]

(* unindex_by_sender, unindex_by_recipient: the first slot that holds the id *)
(* takes the last slot's id, and the last slot goes (swap and pop).          *)
Unindexed(index, id) ==
    LET last  == index.count - 1
        moved == [index.slots EXCEPT ![FirstHolding(index, id)] = index.slots[last]]
    IN  IF Holding(index, id) = {}
        THEN index
        ELSE [count |-> last, slots |-> Drop(moved, last)]

(* A loop over a list that keeps the items that are in a set.                *)
Those(list, set) ==
    LET found[n \in 0..Len(list)] ==
            IF n = 0 THEN <<>>
            ELSE IF list[n] \in set THEN Append(found[n - 1], list[n]) ELSE found[n - 1]
    IN  found[Len(list)]

(* The ids in the slots from first up to, but not including, end: the loops  *)
(* of get_ids_by_sender and of the queries.  An empty slot is skipped.       *)
IdsBetween(index, first, end) ==
    LET present == Those([k \in 1..(IF end > first THEN end - first ELSE 0) |-> first + k - 1],
                         DOMAIN index.slots)
    IN  [k \in DOMAIN present |-> index.slots[present[k]]]
Ids(index) == IdsBetween(index, 0, index.count)
=============================================================================
