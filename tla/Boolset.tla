------------------------------- MODULE Boolset -------------------------------
(***************************************************************************)
(* src/unix/boolset.c: the growing array of words in which endpoint.c      *)
(* records its clients.  A word is the set of its bits that are 1.         *)
(*                                                                         *)
(* A call is one step, but for boolset_foreach, whose callback may change  *)
(* the set: disconnect_all_foreach (endpoint.c:224) clears the bit it is   *)
(* called for, the callback of test/boolset-T.cpp leaves it.               *)
(***************************************************************************)
EXTENDS Integers

CONSTANTS
    WordBits,   \* sizeof(BOOLSET_TYPE) * 8
    Indices     \* the indices callers use

ASSUME BoolsetAssumption ==
    /\ WordBits \in Nat \ {0}
    /\ Indices \subseteq Nat

Bits == 0..(WordBits - 1)

VARIABLES
    set,      \* the struct: size and data
    pc,       \* "call" between calls, "word" and "bits" in the two loops of foreach
    major,    \* major_index of boolset_foreach
    minor,    \* minor_index
    value,    \* the copy of the word that is looked through
    event     \* the last call or callback, with its index and boolean

vars == <<set, pc, major, minor, value, event>>

Event(call, index, val) == [call |-> call, index |-> index, val |-> val]

------------------------------------------------------------------------------
(* The operations on the struct.                                           *)

Major(index) == index \div WordBits
Minor(index) == index % WordBits

Created == [size |-> 1, data |-> [w \in {0} |-> {}]]

(* Faulty variant: the size grows and the array does not.                  *)
ExpandedSizeOnly(s, newSize) == [size |-> newSize, data |-> s.data]

(* boolset_expand: the old words, zeroes after them.                       *)
Expanded(s, newSize) ==
    [size |-> newSize,
     data |-> [w \in 0..(newSize - 1) |-> IF w < s.size THEN s.data[w] ELSE {}]]

Enough(s, required) == IF required > s.size THEN Expanded(s, required) ELSE s

(* Every other bit of the word is kept.                                    *)
Written(s, index, val) ==
    [size |-> s.size,
     data |-> [s.data EXCEPT ![Major(index)] =
                 (@ \ {Minor(index)}) \cup (IF val THEN {Minor(index)} ELSE {})]]

(* boolset_set.                                                            *)
WithBit(s, index, val) == Written(Enough(s, Major(index) + 1), index, val)

------------------------------------------------------------------------------
Init ==
    /\ set = Created
    /\ pc = "call"
    /\ major = 0
    /\ minor = 0
    /\ value = {}
    /\ event = Event("create", 0, FALSE)

Set(index, val) ==
    /\ pc = "call"
    /\ set' = WithBit(set, index, val)
    /\ event' = Event("set", index, val)
    /\ UNCHANGED <<pc, major, minor, value>>

(* There is no test of the size: beyond it the answer is whatever lies in  *)
(* memory after the array.                                                 *)
Get(index) ==
    /\ pc = "call"
    /\ \E val \in BOOLEAN :
          /\ Major(index) < set.size => val = (Minor(index) \in set.data[Major(index)])
          /\ event' = Event("get", index, val)
    /\ UNCHANGED <<set, pc, major, minor, value>>

Foreach ==
    /\ pc = "call"
    /\ pc' = "word"
    /\ major' = 0
    /\ event' = Event("foreach", 0, FALSE)
    /\ UNCHANGED <<set, minor, value>>

(* The outer loop copies a word, and skips one that is 0.                  *)
ReadWord ==
    /\ pc = "word"
    /\ major < set.size
    /\ value' = set.data[major]
    /\ minor' = 0
    /\ IF value' = {}
       THEN major' = major + 1 /\ UNCHANGED pc
       ELSE pc' = "bits" /\ UNCHANGED major
    /\ UNCHANGED <<set, event>>

EndForeach ==
    /\ pc = "word"
    /\ major >= set.size
    /\ pc' = "call"
    /\ UNCHANGED <<set, major, minor, value, event>>

(* The inner loop moves on, and leaves after the last bit.                 *)
NextMinor ==
    /\ minor' = minor + 1
    /\ IF minor + 1 < WordBits
       THEN UNCHANGED <<pc, major>>
       ELSE pc' = "word" /\ major' = major + 1

SkipBit ==
    /\ pc = "bits"
    /\ minor \notin value
    /\ NextMinor
    /\ UNCHANGED <<set, value, event>>

(* Faulty variant: the loop goes on with the next word after a callback.   *)
VisitOnePerWord ==
    /\ pc = "bits"
    /\ minor \in value
    /\ \E keep \in BOOLEAN :
          LET index == major * WordBits + minor
          IN  /\ set' = IF keep THEN set ELSE WithBit(set, index, FALSE)
              /\ event' = Event("visit", index, keep)
    /\ pc' = "word"
    /\ major' = major + 1
    /\ UNCHANGED <<minor, value>>

(* The callback, which may call boolset_set on its index.                  *)
Visit ==
    /\ pc = "bits"
    /\ minor \in value
    /\ \E keep \in BOOLEAN :
          LET index == major * WordBits + minor
          IN  /\ set' = IF keep THEN set ELSE WithBit(set, index, FALSE)
              /\ event' = Event("visit", index, keep)
    /\ NextMinor
    /\ UNCHANGED value

Next ==
    \/ \E index \in Indices, val \in BOOLEAN : Set(index, val)
    \/ \E index \in Indices : Get(index)
    \/ Foreach
    \/ ReadWord
    \/ EndForeach
    \/ SkipBit
    \/ Visit

Spec == Init /\ [][Next]_vars

------------------------------------------------------------------------------
(* Properties.                                                             *)

(* The array has the words that its size says.                             *)
TypeOK ==
    /\ set.size \in Nat \ {0}
    /\ set = [size |-> set.size, data |-> set.data]
    /\ set.data \in [0..(set.size - 1) -> SUBSET Bits]
    /\ pc \in {"call", "word", "bits"}
    /\ major \in 0..set.size
    /\ minor \in 0..WordBits
    /\ value \subseteq Bits
    /\ pc = "bits" => major < set.size /\ minor < WordBits

(* The words are a set of indices: growth moves none, setting and clearing *)
(* change one, and boolset_foreach calls back once for each index that was *)
(* in the set when it began, in increasing order, although its callback    *)
(* clears bits of the words it goes through.                               *)
Members(s) == {i \in 0..(s.size * WordBits - 1) : Minor(i) \in s.data[Major(i)]}

Pending ==
    CASE pc = "call" -> {}
      [] pc = "word" -> {i \in Members(set) : i >= major * WordBits}
      [] pc = "bits" -> {major * WordBits + b : b \in {c \in value : c >= minor}}
                            \cup {i \in Members(set) : i >= (major + 1) * WordBits}

Abstract == INSTANCE IndexSet WITH
    members <- Members(set),
    reach <- set.size * WordBits,
    pending <- Pending

ImplementsIndexSet == Abstract!Spec
==============================================================================
