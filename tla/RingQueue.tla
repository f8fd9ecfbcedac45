------------------------------ MODULE RingQueue ------------------------------
(***************************************************************************)
(* The growable ring buffer of src/unix/queue.c.                           *)
(*                                                                         *)
(* `q' is the C struct: _front, _back, _size, _range_mask and the array    *)
(* behind _data.  The operations are operators from struct to struct, so   *)
(* that q_push can call q_resize as the code does; an action runs one      *)
(* call of the interface.                                                  *)
(***************************************************************************)
EXTENDS Integers, Sequences

CONSTANTS
    Values,        \* the pointers callers push
    Null,          \* the 0 that q_next returns for an empty queue
    Garbage,       \* what malloc leaves in a cell nobody has written
    DefaultSize,   \* CUSTOM_QUEUE_DEFAULT_SIZE
    MaxCapacity,   \* bound on the array: no push or resize goes beyond it
    ResizeArgs     \* the sizes callers pass to q_resize

(* The values `1 << msb' takes without overflowing an int.                 *)
Capacities ==
    { 1, 2, 4, 8, 16, 32, 64, 128, 256, 512, 1024, 2048, 4096, 8192, 16384,
      32768, 65536, 131072, 262144, 524288, 1048576, 2097152, 4194304,
      8388608, 16777216, 33554432, 67108864, 134217728, 268435456,
      536870912, 1073741824 }

ASSUME QueueAssumption ==
    /\ Garbage \notin Values
    /\ DefaultSize \in Capacities
    /\ MaxCapacity \in Capacities
    /\ DefaultSize <= MaxCapacity
    /\ ResizeArgs \subseteq 0..MaxCapacity

VARIABLES q, event

vars == <<q, event>>

Event(call, val) == [call |-> call, val |-> val]

------------------------------------------------------------------------------
(* The operations.                                                         *)

(* i & mask, for a mask one below a power of two.                          *)
Masked(i, mask) == i % (mask + 1)

(* The k-th queued value, oldest first, is in cell (front + k) & mask.     *)
Cell(r, k) == Masked(r.front + k, r.mask)

(* q_resize rounds its argument up to a power of two: the most significant *)
(* bit of new_size, one more if new_size has lower bits too; 1 for 0.      *)
RoundedUp(n) ==
    CHOOSE c \in Capacities :
        /\ n <= c
        /\ \A d \in Capacities : n <= d => c <= d

Created ==
    [front |-> 0, back |-> 0, size |-> 0, mask |-> DefaultSize - 1,
     data |-> [i \in 0..(DefaultSize - 1) |-> Garbage]]

IsEmpty(r) == r.size = 0

(* Faulty variant: the write index is masked with the new mask but not     *)
(* recomputed from the number of values moved.                             *)
ResizedKeepsBack(r, n) ==
    LET newSize  == RoundedUp(n)
        moveSize == IF r.size < newSize THEN r.size ELSE newSize
    IN  IF newSize = r.mask + 1
        THEN r
        ELSE [front |-> 0, back |-> Masked(r.back, newSize - 1), size |-> moveSize,
              mask |-> newSize - 1,
              data |-> [i \in 0..(newSize - 1) |->
                          IF i < moveSize THEN r.data[Cell(r, i)] ELSE Garbage]]

(* The copy loop calls q_next move_size times; cells beyond it keep what   *)
(* malloc gave.                                                            *)
Resized(r, n) ==
    LET newSize  == RoundedUp(n)
        moveSize == IF r.size < newSize THEN r.size ELSE newSize
    IN  IF newSize = r.mask + 1
        THEN r
        ELSE [front |-> 0, back |-> Masked(moveSize, newSize - 1), size |-> moveSize,
              mask |-> newSize - 1,
              data |-> [i \in 0..(newSize - 1) |->
                          IF i < moveSize THEN r.data[Cell(r, i)]
                                          ELSE Garbage]]

(* Faulty variant: the array grows one push too late.                      *)
GrownTooLate(r) == IF r.size > r.mask + 1 THEN Resized(r, (r.mask + 1) * 2) ELSE r

(* A push into a full ring doubles the array first.                        *)
Grown(r) == IF r.size >= r.mask + 1 THEN Resized(r, (r.mask + 1) * 2) ELSE r

(* Faulty variant: the write index is advanced and not masked.             *)
StoredNoWrap(r, v) ==
    [front |-> r.front, back |-> r.back + 1, size |-> r.size + 1, mask |-> r.mask,
     data |-> [r.data EXCEPT ![r.back] = v]]

Stored(r, v) ==
    [front |-> r.front, back |-> Masked(r.back + 1, r.mask),
     size |-> r.size + 1, mask |-> r.mask,
     data |-> [r.data EXCEPT ![r.back] = v]]

Pushed(r, v) == Stored(Grown(r), v)

Advanced(r) ==
    [front |-> Masked(r.front + 1, r.mask), back |-> r.back,
     size |-> r.size - 1, mask |-> r.mask, data |-> r.data]

------------------------------------------------------------------------------
Init ==
    /\ q = Created
    /\ event = Event("create", Null)

Push(v) ==
    /\ q.size < MaxCapacity                      \* bound of the model
    /\ q' = Pushed(q, v)
    /\ event' = Event("push", v)

Take ==
    /\ ~IsEmpty(q)
    /\ q' = Advanced(q)
    /\ event' = Event("next", q.data[q.front])

TakeEmpty ==
    /\ IsEmpty(q)
    /\ event' = Event("next", Null)
    /\ UNCHANGED q

Resize(n) ==
    /\ q' = Resized(q, n)
    /\ event' = Event("resize", Null)

Next ==
    \/ \E v \in Values : Push(v)
    \/ Take
    \/ TakeEmpty
    \/ \E n \in ResizeArgs : Resize(n)

Spec == Init /\ [][Next]_vars

------------------------------------------------------------------------------
(* Properties.                                                             *)

(* The struct's fields agree with the capacity of its array, which is a     *)
(* power of two within the bound.                                          *)
Structs(c) ==
    [front : 0..(c - 1), back : 0..(c - 1), size : 0..c, mask : {c - 1},
     data : [0..(c - 1) -> Values \cup {Garbage}]]

TypeOK ==
    /\ \E c \in Capacities : c <= MaxCapacity /\ q \in Structs(c)
    /\ event \in [call : {"create", "push", "next", "resize"},
                  val : Values \cup {Null}]

(* The write index stays exactly `size' cells ahead of the read index,     *)
(* modulo the capacity, through pushes, takes, wraps, growth and shrinking *)
(* (queue.c keeps all three fields and updates them separately).           *)
BackFollowsFront == q.back = Cell(q, q.size)

(* Every queued cell has been written: q_next never hands out a word of    *)
(* freshly allocated memory, in particular after q_resize moved the data.  *)
QueuedCellsWritten == \A k \in 0..(q.size - 1) : q.data[Cell(q, k)] \in Values

(* The ring implements the first-in first-out queue: pushes append and     *)
(* lose nothing even when they reallocate, takes return the oldest value,  *)
(* an explicit q_resize keeps a prefix of the oldest values.               *)
Contents(r) == [i \in 1..r.size |-> r.data[Cell(r, i - 1)]]

Fifo == INSTANCE FifoQueue WITH contents <- Contents(q)

ImplementsFifo == Fifo!Spec
==============================================================================
