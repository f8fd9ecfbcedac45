--------------------------- MODULE RingQueueProofs ---------------------------
(***************************************************************************)
(* Proofs about the ring of queue.c, for every capacity, every set of      *)
(* values and every history of calls.                                      *)
(***************************************************************************)
EXTENDS RingQueue, SequenceTheorems, TLAPS

------------------------------------------------------------------------------
(* The capacities.                                                         *)

(* The smallest power of two that is not below n exists and is within the  *)
(* bound, whatever n (the rounding of q_resize).                           *)
LEMMA RoundedUpFacts ==
    ASSUME NEW n \in 0..MaxCapacity
    PROVE  /\ RoundedUp(n) \in Capacities
           /\ n <= RoundedUp(n)
           /\ RoundedUp(n) <= MaxCapacity
<1>1. MaxCapacity \in Capacities /\ n \in Nat /\ n <= 1073741824
  BY QueueAssumption, SMT DEF Capacities
<1>2. \E c \in Capacities : n <= c /\ \A d \in Capacities : n <= d => c <= d
  BY <1>1, SMTT(60) DEF Capacities
<1>3. QED
  BY <1>1, <1>2 DEF RoundedUp

(* A full ring below the bound can double and stay within it (q_push).     *)
LEMMA DoubleFits ==
    ASSUME NEW c \in Capacities, c < MaxCapacity
    PROVE  c * 2 \in Capacities /\ c * 2 <= MaxCapacity
  BY QueueAssumption, SMTT(60) DEF Capacities

(* Every capacity is a positive integer, so `%' by it is meaningful.       *)
LEMMA CapacityPositive == Capacities \subseteq Nat \ {0}
  BY SMT DEF Capacities

(* The masked indices: below the capacity nothing wraps, one lap beyond it *)
(* wraps once.  With this fact the proofs below are linear arithmetic.     *)
LEMMA MaskedWraps ==
    ASSUME NEW m \in Nat, NEW i \in Nat, i <= 2 * m + 1
    PROVE  Masked(i, m) = IF i <= m THEN i ELSE i - (m + 1)
<1>1. CASE i <= m
  BY <1>1, SMT DEF Masked
<1>2. CASE i > m
  BY <1>2, SMT DEF Masked
<1>3. QED
  BY <1>1, <1>2

(* Append and Tail as functions of the index.                              *)
LEMMA AppendFunction ==
    ASSUME NEW S, NEW cs \in Seq(S), NEW v \in S
    PROVE  Append(cs, v) =
             [i \in 1..(Len(cs) + 1) |-> IF i = Len(cs) + 1 THEN v ELSE cs[i]]
<1>1. Append(cs, v) \in Seq(S) /\ Len(Append(cs, v)) = Len(cs) + 1
  OBVIOUS
<1>2. Append(cs, v) = [i \in 1..(Len(cs) + 1) |-> Append(cs, v)[i]]
  BY <1>1, LenProperties
<1>3. \A i \in 1..(Len(cs) + 1) :
        Append(cs, v)[i] = IF i = Len(cs) + 1 THEN v ELSE cs[i]
  OBVIOUS
<1>4. QED
  BY <1>2, <1>3

LEMMA TailFunction ==
    ASSUME NEW S, NEW cs \in Seq(S), Len(cs) # 0
    PROVE  Tail(cs) = [i \in 1..(Len(cs) - 1) |-> cs[i + 1]]
<1>1. Tail(cs) \in Seq(S) /\ Len(Tail(cs)) = Len(cs) - 1
  OBVIOUS
<1>2. Tail(cs) = [i \in 1..(Len(cs) - 1) |-> Tail(cs)[i]]
  BY <1>1, LenProperties
<1>3. \A i \in 1..(Len(cs) - 1) : Tail(cs)[i] = cs[i + 1]
  OBVIOUS
<1>4. QED
  BY <1>2, <1>3

(* The k-th cell, for k up to the capacity, written without `%'.           *)
LEMMA CellValue ==
    ASSUME NEW r, NEW k \in Nat,
           r.mask \in Nat, r.front \in 0..r.mask, k <= r.mask + 1
    PROVE  Cell(r, k) = IF r.front + k <= r.mask THEN r.front + k
                                                 ELSE r.front + k - (r.mask + 1)
<1>1. r.front + k \in Nat /\ r.front + k <= 2 * r.mask + 1
  OBVIOUS
<1>2. QED
  BY <1>1, MaskedWraps DEF Cell

(* One step of the write index moves it to the next cell of the queue.     *)
LEMMA CellAfter ==
    ASSUME NEW r, NEW k \in Nat,
           r.mask \in Nat, r.front \in 0..r.mask, k <= r.mask
    PROVE  Masked(Cell(r, k) + 1, r.mask) = Cell(r, k + 1)
<1>1. Cell(r, k) = IF r.front + k <= r.mask THEN r.front + k
                                            ELSE r.front + k - (r.mask + 1)
  BY CellValue
<1>2. Cell(r, k + 1) = IF r.front + k + 1 <= r.mask THEN r.front + k + 1
                                            ELSE r.front + k + 1 - (r.mask + 1)
  <2>1. k + 1 \in Nat /\ k + 1 <= r.mask + 1
    OBVIOUS
  <2>2. QED
    BY <2>1, CellValue
<1> DEFINE i == Cell(r, k) + 1
<1>3. i \in Nat /\ i <= 2 * r.mask + 1
  BY <1>1
<1>4. Masked(i, r.mask) = IF i <= r.mask THEN i ELSE i - (r.mask + 1)
  BY <1>3, MaskedWraps
<1>5. QED
  BY <1>1, <1>2, <1>4

------------------------------------------------------------------------------
(* One call, on any well-formed struct.                                    *)

(* The invariant of a struct: the parts that RingQueue states about q.     *)
RingOK(r) ==
    /\ \E c \in Capacities : c <= MaxCapacity /\ r \in Structs(c)
    /\ r.back = Cell(r, r.size)
    /\ \A k \in 0..(r.size - 1) : r.data[Cell(r, k)] \in Values

(* The contents are as many values as the size says.                       *)
LEMMA ContentsTyped ==
    ASSUME NEW r, r.size \in Nat, \A k \in 0..(r.size - 1) : r.data[Cell(r, k)] \in Values
    PROVE  Contents(r) \in Seq(Values) /\ Len(Contents(r)) = r.size
<1>1. PICK n \in Nat : n = r.size
  OBVIOUS
<1>2. \A i \in 1..n : r.data[Cell(r, i - 1)] \in Values
  <2>1. \A i \in 1..n : i - 1 \in 0..(n - 1)
    OBVIOUS
  <2>2. QED
    BY <1>1, <2>1, Zenon
<1>3. Contents(r) = [i \in 1..n |-> r.data[Cell(r, i - 1)]]
  BY <1>1, Zenon DEF Contents
<1>4. Contents(r) \in [1..n -> Values]
  BY <1>2, <1>3
<1>5. QED
  BY <1>1, <1>4

(* q_resize keeps the struct well formed and keeps a prefix of the oldest  *)
(* values; all of them when they fit in the new array.                     *)
LEMMA ResizedFacts ==
    ASSUME NEW r, RingOK(r), NEW n \in 0..MaxCapacity
    PROVE  /\ RingOK(Resized(r, n))
           /\ \E k \in 0..Len(Contents(r)) :
                 Contents(Resized(r, n)) = SubSeq(Contents(r), 1, k)
           /\ r.size <= RoundedUp(n) =>
                 /\ Contents(Resized(r, n)) = Contents(r)
                 /\ Resized(r, n).size = r.size
                 /\ Resized(r, n).mask + 1 = RoundedUp(n)
<1> DEFINE m == RoundedUp(n)
           s == Resized(r, n)
           k == IF r.size < m THEN r.size ELSE m
<1>1. PICK c \in Capacities : c <= MaxCapacity /\ r \in Structs(c)
  BY DEF RingOK
<1>2. m \in Capacities /\ m <= MaxCapacity /\ m \in Nat \ {0} /\ c \in Nat \ {0}
  BY RoundedUpFacts, CapacityPositive
<1> HIDE DEF m
<1>3. /\ r.front \in 0..(c - 1) /\ r.size \in 0..c /\ r.mask = c - 1
      /\ r.data \in [0..(c - 1) -> Values \cup {Garbage}]
  BY <1>1 DEF Structs
<1>4. Contents(r) \in Seq(Values) /\ Len(Contents(r)) = r.size
  <2>1. r.size \in Nat /\ \A i \in 0..(r.size - 1) : r.data[Cell(r, i)] \in Values
    BY <1>3 DEF RingOK
  <2>2. QED
    BY <2>1, ContentsTyped
<1>5. CASE m = r.mask + 1
  <2>1. s = r
    BY <1>5 DEF Resized, m
  <2>2. Contents(r) = SubSeq(Contents(r), 1, r.size)
    BY <1>4
  <2>3. QED
    BY <1>3, <1>4, <1>5, <2>1, <2>2 DEF m
<1>6. CASE m # r.mask + 1
  <2>1. s = [front |-> 0, back |-> Masked(k, m - 1), size |-> k, mask |-> m - 1,
             data |-> [i \in 0..(m - 1) |->
                         IF i < k THEN r.data[Cell(r, i)] ELSE Garbage]]
    BY <1>6 DEF Resized, m
  <2>2. k \in 0..m /\ k <= r.size /\ (r.size <= m => k = r.size)
    BY <1>2, <1>3
  <2> HIDE DEF k, s
  <2>3. \A i \in 0..(k - 1) : Cell(r, i) \in 0..(c - 1) /\ r.data[Cell(r, i)] \in Values
    <3>1. ASSUME NEW i \in 0..(k - 1)
          PROVE  Cell(r, i) \in 0..(c - 1)
      <4>1. i \in Nat /\ i <= r.mask + 1 /\ r.mask \in Nat /\ r.front \in 0..r.mask /\ r.mask = c - 1
        BY <1>2, <1>3, <2>2
      <4>2. Cell(r, i) = IF r.front + i <= r.mask THEN r.front + i ELSE r.front + i - (r.mask + 1)
        BY <4>1, CellValue
      <4>3. QED
        BY <4>1, <4>2
    <3>2. \A i \in 0..(k - 1) : i \in 0..(r.size - 1)
      BY <1>2, <1>3, <2>2
    <3>3. QED
      BY <3>1, <3>2 DEF RingOK
  <2>4. \A i \in 0..(k - 1) : Cell(s, i) = i
    <3>1. s.front = 0 /\ s.mask = m - 1
      BY <1>2, <2>1
    <3>2. QED
      BY <1>2, <2>2, <3>1, MaskedWraps DEF Cell
  <2>5. \A i \in 0..(k - 1) : s.data[Cell(s, i)] = r.data[Cell(r, i)]
    BY <1>2, <2>1, <2>2, <2>4
  <2>6. s \in Structs(m)
    <3>1. Masked(k, m - 1) \in 0..(m - 1)
      BY <1>2, <2>2, MaskedWraps
    <3>2. [i \in 0..(m - 1) |-> IF i < k THEN r.data[Cell(r, i)] ELSE Garbage]
            \in [0..(m - 1) -> Values \cup {Garbage}]
      BY <1>2, <2>2, <2>3
    <3>3. QED
      BY <1>2, <2>1, <2>2, <3>1, <3>2 DEF Structs
  <2>7. s.back = Cell(s, s.size)
    BY <1>2, <2>1, <2>2 DEF Cell
  <2>8. RingOK(s)
    BY <1>2, <2>1, <2>3, <2>5, <2>6, <2>7 DEF RingOK
  <2>9. Contents(s) = SubSeq(Contents(r), 1, k)
    <3>1. Contents(s) = [i \in 1..k |-> r.data[Cell(r, i - 1)]]
      BY <2>1, <2>2, <2>5 DEF Contents
    <3>2. SubSeq(Contents(r), 1, k) = [i \in 1..k |-> Contents(r)[i]]
      BY <1>4, <2>2
    <3>3. \A i \in 1..k : Contents(r)[i] = r.data[Cell(r, i - 1)]
      BY <1>3, <2>2 DEF Contents
    <3>4. QED
      BY <3>1, <3>2, <3>3
  <2>10. r.size <= m => Contents(s) = Contents(r)
    BY <1>4, <2>2, <2>9
  <2>11. k \in 0..Len(Contents(r)) /\ s.size = k /\ s.mask + 1 = m
    BY <1>2, <1>3, <1>4, <2>1, <2>2
  <2>12. QED
    BY <2>2, <2>8, <2>9, <2>10, <2>11 DEF s, m
<1>7. QED
  BY <1>5, <1>6

(* Growing makes room and changes nothing a caller can see (q_push).       *)
LEMMA GrownFacts ==
    ASSUME NEW r, RingOK(r), r.size < MaxCapacity
    PROVE  /\ RingOK(Grown(r))
           /\ Contents(Grown(r)) = Contents(r)
           /\ Grown(r).size <= Grown(r).mask
<1>1. PICK c \in Capacities : c <= MaxCapacity /\ r \in Structs(c)
  BY DEF RingOK
<1>2. c \in Nat \ {0} /\ r.mask = c - 1 /\ r.size \in 0..c /\ MaxCapacity \in Nat
  BY <1>1, CapacityPositive, QueueAssumption DEF Structs
<1>3. CASE r.size >= r.mask + 1
  <2>1. r.size = c /\ r.mask + 1 = c /\ c < MaxCapacity
    BY <1>2, <1>3
  <2>2. c * 2 \in Capacities /\ c * 2 <= MaxCapacity
    BY <2>1, DoubleFits
  <2>3. c * 2 \in 0..MaxCapacity
    BY <1>2, <2>2
  <2>4. /\ RingOK(Resized(r, c * 2))
        /\ r.size <= RoundedUp(c * 2) =>
              /\ Contents(Resized(r, c * 2)) = Contents(r)
              /\ Resized(r, c * 2).size = r.size
              /\ Resized(r, c * 2).mask + 1 = RoundedUp(c * 2)
    BY <2>3, ResizedFacts
  <2>5. c * 2 <= RoundedUp(c * 2) /\ RoundedUp(c * 2) \in Nat
    BY <2>3, RoundedUpFacts, CapacityPositive
  <2>6. Resized(r, c * 2).mask \in Int
    <3>1. PICK d \in Capacities : Resized(r, c * 2) \in Structs(d)
      BY <2>4 DEF RingOK
    <3>2. QED
      BY <3>1, CapacityPositive DEF Structs
  <2>7. Grown(r) = Resized(r, c * 2)
    BY <1>3, <2>1 DEF Grown
  <2>8. QED
    BY <1>2, <2>1, <2>4, <2>5, <2>6, <2>7
<1>4. CASE ~(r.size >= r.mask + 1)
  BY <1>2, <1>4 DEF Grown
<1>5. QED
  BY <1>3, <1>4

(* Storing into a ring with room appends at the back.                      *)
LEMMA StoredFacts ==
    ASSUME NEW r, RingOK(r), r.size <= r.mask, NEW v \in Values
    PROVE  /\ RingOK(Stored(r, v))
           /\ Contents(Stored(r, v)) = Append(Contents(r), v)
<1> DEFINE s == Stored(r, v)
<1>1. PICK c \in Capacities : c <= MaxCapacity /\ r \in Structs(c)
  BY DEF RingOK
<1>2. /\ c \in Nat \ {0} /\ r.mask = c - 1 /\ r.size \in 0..(c - 1)
      /\ r.front \in 0..(c - 1) /\ r.back \in 0..(c - 1)
      /\ r.data \in [0..(c - 1) -> Values \cup {Garbage}]
  BY <1>1, CapacityPositive DEF Structs
<1>3. /\ s.front = r.front /\ s.back = Masked(r.back + 1, r.mask)
      /\ s.size = r.size + 1 /\ s.mask = r.mask
      /\ s.data = [r.data EXCEPT ![r.back] = v]
      /\ s = [front |-> s.front, back |-> s.back, size |-> s.size,
               mask |-> s.mask, data |-> s.data]
  BY DEF Stored
<1> HIDE DEF s
<1>4. r.back = Masked(r.front + r.size, r.mask)
  BY DEF RingOK, Cell
<1>5. \A k \in 0..(r.size - 1) :
        Cell(s, k) = Cell(r, k) /\ Cell(r, k) \in 0..(c - 1) /\ Cell(r, k) # r.back
  <2>1. ASSUME NEW k \in 0..(r.size - 1)
        PROVE  /\ Cell(s, k) = Cell(r, k)
               /\ Cell(r, k) \in 0..(c - 1)
               /\ Cell(r, k) # r.back
    <3>1. Cell(r, k) = IF r.front + k <= r.mask THEN r.front + k
                                                ELSE r.front + k - (r.mask + 1)
      <4>1. /\ k \in Nat /\ k <= r.mask + 1
            /\ r.mask \in Nat /\ r.front \in 0..r.mask
        BY <1>2
      <4>2. QED
        BY <4>1, CellValue
    <3>2. r.back = IF r.front + r.size <= r.mask THEN r.front + r.size
                                       ELSE r.front + r.size - (r.mask + 1)
      <4>1. r.size \in Nat /\ r.mask \in Nat /\ r.front \in 0..r.mask /\ r.size <= r.mask + 1
        BY <1>2
      <4>2. QED
        BY <4>1, CellValue DEF RingOK
    <3>3. Cell(s, k) = Cell(r, k)
      BY <1>3 DEF Cell
    <3>4. k \in Nat /\ k < r.size
      BY <1>2
    <3>5. PICK f \in Nat, m \in Nat, n \in Nat : f = r.front /\ m = r.mask /\ n = r.size
      <4>1. r.front \in Nat /\ r.mask \in Nat /\ r.size \in Nat
        BY <1>2
      <4>2. QED
        BY <4>1, Zenon
    <3>6. f <= m /\ n <= m /\ m = c - 1
      BY <1>2, <3>5
    <3>7. Cell(r, k) = (IF f + k <= m THEN f + k ELSE f + k - (m + 1))
      BY <3>1, <3>5
    <3>8. r.back = (IF f + n <= m THEN f + n ELSE f + n - (m + 1))
      BY <3>2, <3>5
    <3>9. k < n
      BY <3>4, <3>5
    <3>10. QED
      BY <3>3, <3>4, <3>6, <3>7, <3>8, <3>9
  <2>2. QED
    BY <2>1
<1>6. Cell(s, r.size) = r.back
  BY <1>3, <1>4 DEF Cell
<1>7. \A k \in 0..(r.size - 1) : s.data[Cell(s, k)] = r.data[Cell(r, k)]
  BY <1>2, <1>3, <1>5
<1>8. s.data[Cell(s, r.size)] = v
  BY <1>2, <1>3, <1>6
<1>9. s.back = Cell(s, s.size) /\ s.back \in 0..(c - 1)
  <2>1. /\ r.mask \in Nat /\ r.front \in 0..r.mask /\ r.size \in Nat
        /\ r.size <= r.mask /\ r.size + 1 \in Nat /\ r.size + 1 <= r.mask + 1
    BY <1>2
  <2>2. s.back = Cell(r, r.size + 1)
    BY <1>3, <2>1, CellAfter DEF RingOK
  <2>3. Cell(r, r.size + 1) = Cell(s, s.size)
    BY <1>3 DEF Cell
  <2>4. Cell(r, r.size + 1) \in 0..(c - 1)
    <3>1. Cell(r, r.size + 1) = IF r.front + (r.size + 1) <= r.mask THEN r.front + (r.size + 1)
                                        ELSE r.front + (r.size + 1) - (r.mask + 1)
      BY <2>1, CellValue
    <3>2. PICK f \in Nat, m \in Nat, n \in Nat : f = r.front /\ m = r.mask /\ n = r.size
      BY <1>2
    <3>3. f <= m /\ n <= m /\ m = c - 1
      BY <1>2, <2>1, <3>2
    <3>4. Cell(r, r.size + 1) = IF f + (n + 1) <= m THEN f + (n + 1) ELSE f + (n + 1) - (m + 1)
      BY <3>1, <3>2
    <3>5. QED
      BY <3>3, <3>4
  <2>5. QED
    BY <2>2, <2>3, <2>4
<1>10. s \in Structs(c)
  <2>1. s.data \in [0..(c - 1) -> Values \cup {Garbage}]
    BY <1>2, <1>3
  <2>2. s.front \in 0..(c - 1) /\ s.size \in 0..c /\ s.mask = c - 1
    BY <1>2, <1>3
  <2>3. QED
    BY <1>3, <1>9, <2>1, <2>2 DEF Structs
<1>11. \A k \in 0..(s.size - 1) : s.data[Cell(s, k)] \in Values
  <2>1. \A k \in 0..(r.size - 1) : r.data[Cell(r, k)] \in Values
    BY DEF RingOK
  <2>2. \A k \in 0..(s.size - 1) : k \in 0..(r.size - 1) \/ k = r.size
    BY <1>2, <1>3
  <2>3. QED
    BY <1>7, <1>8, <2>1, <2>2
<1>12. RingOK(s)
  BY <1>1, <1>9, <1>10, <1>11 DEF RingOK
<1>13. Contents(s) = Append(Contents(r), v)
  <2>1. Contents(r) \in Seq(Values) /\ Len(Contents(r)) = r.size
    <3>1. r.size \in Nat /\ \A k \in 0..(r.size - 1) : r.data[Cell(r, k)] \in Values
      BY <1>2 DEF RingOK
    <3>2. QED
      BY <3>1, ContentsTyped
  <2>2. Append(Contents(r), v) =
          [i \in 1..(r.size + 1) |-> IF i = r.size + 1 THEN v ELSE Contents(r)[i]]
    BY <2>1, AppendFunction
  <2>3. ASSUME NEW i \in 1..(r.size + 1)
        PROVE  s.data[Cell(s, i - 1)] = IF i = r.size + 1 THEN v ELSE Contents(r)[i]
    <3>1. CASE i = r.size + 1
      BY <1>2, <1>8, <3>1
    <3>2. CASE i # r.size + 1
      <4>1. i \in 1..r.size /\ i - 1 \in 0..(r.size - 1)
        BY <1>2, <3>2
      <4>2. Contents(r)[i] = r.data[Cell(r, i - 1)]
        BY <4>1 DEF Contents
      <4>3. QED
        BY <1>7, <3>2, <4>1, <4>2
    <3>3. QED
      BY <3>1, <3>2
  <2>4. Contents(s) = [i \in 1..(r.size + 1) |-> s.data[Cell(s, i - 1)]]
    BY <1>3 DEF Contents
  <2>5. QED
    BY <2>2, <2>3, <2>4
<1>14. QED
  BY <1>12, <1>13 DEF s

(* Taking from a non-empty ring removes the oldest value.                  *)
LEMMA AdvancedFacts ==
    ASSUME NEW r, RingOK(r), ~IsEmpty(r)
    PROVE  /\ RingOK(Advanced(r))
           /\ Contents(r) # <<>>
           /\ Contents(Advanced(r)) = Tail(Contents(r))
           /\ r.data[r.front] = Head(Contents(r))
           /\ r.data[r.front] \in Values
<1> DEFINE s == Advanced(r)
<1>1. PICK c \in Capacities : c <= MaxCapacity /\ r \in Structs(c)
  BY DEF RingOK
<1>2. /\ c \in Nat \ {0} /\ r.mask = c - 1 /\ r.size \in 1..c
      /\ r.front \in 0..(c - 1) /\ r.back \in 0..(c - 1)
      /\ r.data \in [0..(c - 1) -> Values \cup {Garbage}]
  BY <1>1, CapacityPositive DEF Structs, IsEmpty
<1>3. /\ s.front = Masked(r.front + 1, r.mask) /\ s.back = r.back
      /\ s.size = r.size - 1 /\ s.mask = r.mask /\ s.data = r.data
      /\ s = [front |-> s.front, back |-> s.back, size |-> s.size,
               mask |-> s.mask, data |-> s.data]
  BY DEF Advanced
<1> HIDE DEF s
<1>4. s.front = IF r.front + 1 <= c - 1 THEN r.front + 1 ELSE 0
  <2>1. /\ r.mask \in Nat /\ r.front \in 0..r.mask /\ 1 \in Nat /\ 1 <= r.mask + 1
    BY <1>2
  <2>2. Cell(r, 1) = IF r.front + 1 <= r.mask THEN r.front + 1
                                              ELSE r.front + 1 - (r.mask + 1)
    BY <2>1, CellValue
  <2>3. QED
    BY <1>2, <1>3, <2>2 DEF Cell
<1>5. \A k \in 0..(r.size - 1) : Cell(s, k) = Cell(r, k + 1)
  <2>1. ASSUME NEW k \in 0..(r.size - 1)
        PROVE  Cell(s, k) = Cell(r, k + 1)
    <3>1. /\ k \in Nat /\ k + 1 \in Nat /\ k + 1 <= r.mask + 1 /\ k <= r.mask + 1
          /\ r.mask \in Nat /\ r.front \in 0..r.mask
          /\ s.mask \in Nat /\ s.front \in 0..s.mask /\ k <= s.mask + 1
      <4>1. /\ k \in Nat /\ k + 1 \in Nat /\ k + 1 <= r.mask + 1 /\ k <= r.mask + 1
            /\ r.mask \in Nat /\ r.front \in 0..r.mask
        BY <1>2
      <4>2. s.mask = r.mask /\ r.mask = c - 1
        BY <1>2, <1>3
      <4>3. s.front \in 0..r.mask
        BY <1>4, <4>1, <4>2
      <4>4. QED
        BY <4>1, <4>2, <4>3
    <3>2. Cell(r, k + 1) = IF r.front + (k + 1) <= r.mask THEN r.front + (k + 1)
                                        ELSE r.front + (k + 1) - (r.mask + 1)
      BY <3>1, CellValue
    <3>3. Cell(s, k) = IF s.front + k <= s.mask THEN s.front + k
                                                ELSE s.front + k - (s.mask + 1)
      BY <3>1, CellValue
    <3>4. CASE r.front + 1 <= c - 1
      <4>1. s.front = r.front + 1 /\ s.mask = r.mask
        BY <1>3, <1>4, <3>4
      <4>2. s.front + k = r.front + (k + 1)
        BY <3>1, <4>1
      <4>3. Cell(s, k) = IF r.front + (k + 1) <= r.mask THEN r.front + (k + 1)
                                        ELSE r.front + (k + 1) - (r.mask + 1)
        BY <3>1, <3>3, <4>1, <4>2
      <4>4. QED
        BY <3>2, <4>3
    <3>5. CASE ~(r.front + 1 <= c - 1)
      <4>1. r.front = r.mask /\ s.front = 0 /\ s.mask = r.mask
        BY <1>2, <1>3, <1>4, <3>5
      <4>2. k <= r.mask
        BY <1>2
      <4>3. Cell(r, k + 1) = k
        BY <3>1, <3>2, <4>1
      <4>4. Cell(s, k) = k
        BY <3>1, <3>3, <4>1, <4>2
      <4>5. QED
        BY <4>3, <4>4
    <3>6. QED
      BY <3>4, <3>5
  <2>2. QED
    BY <2>1
<1>6. s \in Structs(c)
  BY <1>2, <1>3, <1>4 DEF Structs
<1>7. s.back = Cell(s, s.size)
  <2>1. s.size \in 0..(r.size - 1) /\ s.size + 1 = r.size
    BY <1>2, <1>3
  <2>2. Cell(s, s.size) = Cell(r, r.size)
    BY <1>5, <2>1, Zenon
  <2>3. r.back = Cell(r, r.size)
    BY Zenon DEF RingOK
  <2>4. QED
    BY <1>3, <2>2, <2>3, Zenon
<1>8. \A k \in 0..(s.size - 1) :
        k + 1 \in 0..(r.size - 1) /\ s.data[Cell(s, k)] = r.data[Cell(r, k + 1)]
  <2>1. \A k \in 0..(s.size - 1) : k \in 0..(r.size - 1) /\ k + 1 \in 0..(r.size - 1)
    BY <1>2, <1>3
  <2>2. s.data = r.data
    BY <1>3
  <2>3. QED
    BY <1>5, <2>1, <2>2, Zenon
<1>9. RingOK(s)
  BY <1>1, <1>6, <1>7, <1>8 DEF RingOK
<1>10. Contents(r) \in Seq(Values) /\ Len(Contents(r)) = r.size
  <2>1. r.size \in Nat /\ \A k \in 0..(r.size - 1) : r.data[Cell(r, k)] \in Values
    BY <1>2 DEF RingOK
  <2>2. QED
    BY <2>1, ContentsTyped
<1>11. Contents(s) = Tail(Contents(r))
  <2>1. Contents(s) = [i \in 1..(r.size - 1) |-> s.data[Cell(s, i - 1)]]
    BY <1>3 DEF Contents
  <2>2. ASSUME NEW i \in 1..(r.size - 1)
        PROVE  s.data[Cell(s, i - 1)] = Contents(r)[i + 1]
    <3>1. i - 1 \in 0..(s.size - 1) /\ (i - 1) + 1 = i /\ i + 1 \in 1..r.size /\ (i + 1) - 1 = i
      BY <1>2, <1>3
    <3>2. s.data[Cell(s, i - 1)] = r.data[Cell(r, i)]
      BY <1>8, <3>1
    <3>3. Contents(r)[i + 1] = r.data[Cell(r, i)]
      BY <3>1 DEF Contents
    <3>4. QED
      BY <3>2, <3>3
  <2>3. Tail(Contents(r)) = [i \in 1..(r.size - 1) |-> Contents(r)[i + 1]]
    <3>1. Len(Contents(r)) # 0
      BY <1>2, <1>10
    <3>2. QED
      BY <1>10, <3>1, TailFunction
  <2>4. QED
    BY <2>1, <2>2, <2>3
<1>12. Cell(r, 0) = r.front
  BY <1>2, MaskedWraps DEF Cell
<1>13. r.data[r.front] = Head(Contents(r)) /\ Contents(r) # <<>>
  BY <1>2, <1>10, <1>12 DEF Contents
<1>14. r.data[r.front] \in Values
  BY <1>2, <1>12 DEF RingOK
<1>15. QED
  BY <1>9, <1>11, <1>13, <1>14 DEF s

------------------------------------------------------------------------------
(* Every history of calls.                                                 *)

(* The inductive invariant: the three invariants of RingQueue together.    *)
(* None is inductive alone; q_push writes at `back', so that the queued    *)
(* cells are the written ones depends on where `back' is.                  *)
Inv == TypeOK /\ BackFollowsFront /\ QueuedCellsWritten

LEMMA InvIsRingOK ==
    Inv <=> RingOK(q) /\ event \in [call : {"create", "push", "next", "resize"},
                                     val : Values \cup {Null}]
  BY DEF Inv, TypeOK, BackFollowsFront, QueuedCellsWritten, RingOK

(* q_create.                                                               *)
LEMMA CreatedFacts == RingOK(Created) /\ Contents(Created) = <<>>
<1>1. DefaultSize \in Capacities /\ DefaultSize \in Nat \ {0} /\ DefaultSize <= MaxCapacity
  BY QueueAssumption, CapacityPositive
<1>2. Created \in Structs(DefaultSize)
  BY <1>1 DEF Created, Structs
<1>3. Cell(Created, 0) = 0
  BY <1>1, SMT DEF Created, Cell, Masked
<1>4. Created.back = 0 /\ Created.size = 0
  BY DEF Created
<1>5. RingOK(Created)
  BY <1>1, <1>2, <1>3, <1>4 DEF RingOK
<1>6. Contents(Created) = [i \in 1..0 |-> Created.data[Cell(Created, i - 1)]]
  BY <1>4 DEF Contents
<1>7. QED
  BY <1>5, <1>6

LEMMA InitInv == Init => Inv
  BY CreatedFacts, InvIsRingOK DEF Init, Event

LEMMA NextInv == Inv /\ [Next]_vars => Inv'
<1> SUFFICES ASSUME RingOK(q),
                    event \in [call : {"create", "push", "next", "resize"},
                               val : Values \cup {Null}],
                    [Next]_vars
             PROVE  RingOK(q') /\ event' \in [call : {"create", "push", "next", "resize"},
                                              val : Values \cup {Null}]
  BY InvIsRingOK
     DEF Inv, TypeOK, BackFollowsFront, QueuedCellsWritten, RingOK, Structs, Cell
<1>1. ASSUME NEW v \in Values, Push(v)
      PROVE  RingOK(q') /\ event' = Event("push", v)
  BY <1>1, GrownFacts, StoredFacts DEF Push, Pushed
<1>2. CASE Take
  <2>1. RingOK(q')
    BY <1>2, AdvancedFacts DEF Take
  <2>2. q.data[q.front] \in Values
    BY <1>2, AdvancedFacts DEF Take
  <2>3. QED
    BY <1>2, <2>1, <2>2 DEF Take, Event
<1>3. CASE TakeEmpty
  BY <1>3 DEF TakeEmpty, Event
<1>4. ASSUME NEW n \in ResizeArgs, Resize(n)
      PROVE  RingOK(q') /\ event' = Event("resize", Null)
  BY <1>4, ResizedFacts, QueueAssumption DEF Resize
<1>5. CASE UNCHANGED vars
  BY <1>5 DEF vars
<1>6. QED
  BY <1>1, <1>2, <1>3, <1>4, <1>5 DEF Next, Event

(* The struct stays well formed, front, back and size stay consistent and  *)
(* no queued cell is unwritten memory, whatever calls are made.            *)
THEOREM RingInvariant == Spec => []Inv
  BY InitInv, NextInv, PTL DEF Spec

(* Type correctness of the struct and of what calls return.                *)
THEOREM RingTypeOK == Spec => []TypeOK
<1>1. Inv => TypeOK
  BY DEF Inv
<1>2. QED
  BY RingInvariant, <1>1, PTL

(* Front, back and size agree in every reachable state (q_push and q_next  *)
(* update them separately, q_resize recomputes all three).                 *)
THEOREM RingBackFollowsFront == Spec => []BackFollowsFront
<1>1. Inv => BackFollowsFront
  BY DEF Inv
<1>2. QED
  BY RingInvariant, <1>1, PTL

(* q_next never returns memory that no q_push wrote, however often the     *)
(* array was grown or shrunk by q_resize.                                  *)
THEOREM RingQueuedCellsWritten == Spec => []QueuedCellsWritten
<1>1. Inv => QueuedCellsWritten
  BY DEF Inv
<1>2. QED
  BY RingInvariant, <1>1, PTL

------------------------------------------------------------------------------
(* The ring implements the abstract queue.                                 *)

LEMMA InitImplements == Init => Fifo!Init
  BY CreatedFacts DEF Init, Fifo!Init, Event, Fifo!Event

LEMMA NextImplements == Inv /\ [Next]_vars => [Fifo!Next]_(Fifo!vars)
<1> SUFFICES ASSUME RingOK(q), [Next]_vars
             PROVE  [Fifo!Next]_(Fifo!vars)
  BY InvIsRingOK
<1>1. (Contents(q))' = Contents(q')
  BY DEF Contents, Cell
<1>2. ASSUME NEW v \in Values, Push(v)
      PROVE  Fifo!Push(v)
  BY <1>1, <1>2, GrownFacts, StoredFacts DEF Push, Pushed, Fifo!Push, Event, Fifo!Event
<1>3. CASE Take
  <2>1. /\ Contents(q) # <<>>
        /\ Contents(Advanced(q)) = Tail(Contents(q))
        /\ q.data[q.front] = Head(Contents(q))
    BY <1>3, AdvancedFacts DEF Take
  <2>2. Fifo!Take
    BY <1>1, <1>3, <2>1 DEF Take, Fifo!Take, Event, Fifo!Event
  <2>3. QED
    BY <2>2 DEF Fifo!Next
<1>4. CASE TakeEmpty
  <2>1. Contents(q) = <<>>
    BY <1>4 DEF TakeEmpty, IsEmpty, Contents
  <2>2. Fifo!TakeEmpty
    BY <1>1, <1>4, <2>1 DEF TakeEmpty, Fifo!TakeEmpty, Event, Fifo!Event
  <2>3. QED
    BY <2>2 DEF Fifo!Next
<1>5. ASSUME NEW n \in ResizeArgs, Resize(n)
      PROVE  Fifo!Truncate
  <2>1. \E k \in 0..Len(Contents(q)) :
           Contents(Resized(q, n)) = SubSeq(Contents(q), 1, k)
    BY ResizedFacts, QueueAssumption
  <2>2. QED
    BY <1>1, <1>5, <2>1 DEF Resize, Fifo!Truncate, Event, Fifo!Event
<1>6. CASE UNCHANGED vars
  BY <1>1, <1>6 DEF vars, Fifo!vars
<1>7. QED
  BY <1>2, <1>3, <1>4, <1>5, <1>6 DEF Next, Fifo!Next

(* queue.c is a first-in first-out queue: every push appends, no push      *)
(* loses a value even when it reallocates, q_next returns the oldest one.  *)
THEOREM RingImplementsFifo == Spec => ImplementsFifo
  BY RingInvariant, InitImplements, NextImplements, PTL
     DEF Spec, ImplementsFifo, Fifo!Spec
==============================================================================
