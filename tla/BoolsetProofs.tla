---------------------------- MODULE BoolsetProofs ----------------------------
(***************************************************************************)
(* Proofs about Boolset, for every width of a word and every set of        *)
(* indices: the words behave as one set of indices.                        *)
(***************************************************************************)
EXTENDS Boolset, TLAPS

(* An index is the word and the bit in it.                                 *)
LEMMA IndexSplits ==
    ASSUME NEW i \in Nat
    PROVE  /\ Major(i) \in Nat
           /\ Minor(i) \in Bits
           /\ i = Major(i) * WordBits + Minor(i)
  BY BoolsetAssumption, SMT DEF Major, Minor, Bits

LEMMA IndexJoins ==
    ASSUME NEW w \in Nat, NEW b \in Bits
    PROVE  /\ w * WordBits + b \in Nat
           /\ Major(w * WordBits + b) = w
           /\ Minor(w * WordBits + b) = b
  BY BoolsetAssumption, SMT DEF Major, Minor, Bits

(* Words are ordered as their indices are.                                 *)
LEMMA WordsInOrder ==
    ASSUME NEW i \in Nat, NEW w \in Nat
    PROVE  i < w * WordBits <=> Major(i) < w
  BY BoolsetAssumption, SMT DEF Major

------------------------------------------------------------------------------
(* The struct on its own: what TypeOK says of it.                          *)
SetOK(s) ==
    /\ s.size \in Nat \ {0}
    /\ s = [size |-> s.size, data |-> s.data]
    /\ s.data \in [0..(s.size - 1) -> SUBSET Bits]

(* The members, by word and bit.                                           *)
LEMMA MembersByWord ==
    ASSUME NEW s, SetOK(s)
    PROVE  /\ Members(s) \subseteq Nat
           /\ \A i \in Nat : i \in Members(s) <=>
                  Major(i) < s.size /\ Minor(i) \in s.data[Major(i)]
<1>1. s.size * WordBits \in Nat
  BY BoolsetAssumption, SMT DEF SetOK
<1>2. \A i \in Nat : i < s.size * WordBits <=> Major(i) < s.size
  BY WordsInOrder DEF SetOK
<1>3. \A i \in Nat : i \in 0..(s.size * WordBits - 1) <=> i < s.size * WordBits
  BY <1>1
<1>4. Members(s) \subseteq Nat
  BY <1>1 DEF Members
<1>5. QED
  BY <1>2, <1>3, <1>4 DEF Members

LEMMA CreatedFacts == SetOK(Created) /\ Members(Created) = {}
<1>1. SetOK(Created)
  BY BoolsetAssumption DEF SetOK, Created
<1>2. \A i \in Nat : i \notin Members(Created)
  BY <1>1, MembersByWord, IndexSplits DEF Created
<1>3. QED
  BY <1>1, <1>2, MembersByWord

(* The array grows to what is required, and the members stay.              *)
LEMMA EnoughFacts ==
    ASSUME NEW s, SetOK(s), NEW required \in Nat
    PROVE  LET t == Enough(s, required)
           IN  SetOK(t) /\ t.size >= s.size /\ required <= t.size /\ Members(t) = Members(s)
<1> DEFINE t == Enough(s, required)
<1>1. CASE required <= s.size
  <2>1. t = s
    BY <1>1 DEF Enough, SetOK
  <2>2. QED
    BY <1>1, <2>1 DEF SetOK
<1>2. CASE required > s.size
  <2>1. t = Expanded(s, required)
    BY <1>2 DEF Enough
  <2>2. /\ SetOK(t)
        /\ t.size = required
        /\ \A w \in 0..(required - 1) : t.data[w] = IF w < s.size THEN s.data[w] ELSE {}
    BY <1>2, <2>1 DEF Expanded, SetOK
  <2>3. ASSUME NEW i \in Nat
        PROVE  i \in Members(t) <=> i \in Members(s)
    <3>1. /\ i \in Members(t) <=> Major(i) < required /\ Minor(i) \in t.data[Major(i)]
          /\ i \in Members(s) <=> Major(i) < s.size /\ Minor(i) \in s.data[Major(i)]
      BY <2>2, MembersByWord
    <3>2. Major(i) \in Nat
      BY IndexSplits
    <3>3. PICK n \in Nat \ {0} : n = s.size
      BY DEF SetOK
    <3>4. CASE Major(i) < n
      <4>1. Major(i) < required /\ Major(i) \in 0..(required - 1)
        BY <1>2, <3>2, <3>3, <3>4
      <4>2. t.data[Major(i)] = s.data[Major(i)]
        BY <2>2, <3>3, <3>4, <4>1, Zenon
      <4>3. QED
        BY <3>1, <3>3, <3>4, <4>1, <4>2, Zenon
    <3>5. CASE ~(Major(i) < n)
      <4>1. i \notin Members(s)
        BY <3>1, <3>3, <3>5, Zenon
      <4>2. ASSUME Major(i) < required PROVE t.data[Major(i)] = {}
        <5>1. Major(i) \in 0..(required - 1)
          BY <3>2, <4>2
        <5>2. QED
          BY <2>2, <3>3, <3>5, <5>1, Zenon
      <4>3. QED
        BY <3>1, <4>1, <4>2, Zenon
    <3>6. QED
      BY <3>4, <3>5, Zenon
  <2>4. Members(t) = Members(s)
    BY <2>2, <2>3, MembersByWord
  <2>5. QED
    BY <1>2, <2>2, <2>4 DEF SetOK
<1>3. QED
  BY <1>1, <1>2 DEF SetOK

(* One bit is set or cleared, all others are kept.                         *)
LEMMA WrittenFacts ==
    ASSUME NEW s, SetOK(s), NEW i \in Nat, Major(i) < s.size, NEW val \in BOOLEAN
    PROVE  LET t == Written(s, i, val)
           IN  /\ SetOK(t)
               /\ t.size = s.size
               /\ Members(t) = IF val THEN Members(s) \cup {i} ELSE Members(s) \ {i}
<1> DEFINE t == Written(s, i, val)
           old == s.data[Major(i)]
           new == (old \ {Minor(i)}) \cup (IF val THEN {Minor(i)} ELSE {})
<1>1. Major(i) \in 0..(s.size - 1) /\ Minor(i) \in Bits
  BY IndexSplits DEF SetOK
<1>2. new \subseteq Bits
  BY <1>1 DEF SetOK
<1>3. /\ t = [size |-> s.size, data |-> t.data]
      /\ t.size = s.size
      /\ t.data = [s.data EXCEPT ![Major(i)] = new]
  BY DEF Written, SetOK
<1> HIDE DEF new, t
<1>4. /\ SetOK(t)
      /\ \A w \in 0..(s.size - 1) : t.data[w] = IF w = Major(i) THEN new ELSE s.data[w]
  BY <1>1, <1>2, <1>3 DEF SetOK
<1>5. \A b : b \in new <=> IF b = Minor(i) THEN val ELSE b \in old
  BY DEF new
<1>6. \A k \in Nat : Major(k) = Major(i) /\ Minor(k) = Minor(i) => k = i
  BY IndexSplits
<1>7. ASSUME NEW k \in Nat
      PROVE  k \in Members(t) <=> IF k = i THEN val ELSE k \in Members(s)
  <2>1. /\ k \in Members(t) <=> Major(k) < s.size /\ Minor(k) \in t.data[Major(k)]
        /\ k \in Members(s) <=> Major(k) < s.size /\ Minor(k) \in s.data[Major(k)]
    BY <1>3, <1>4, MembersByWord
  <2>2. Major(k) \in Nat
    BY IndexSplits
  <2>3. CASE Major(k) # Major(i)
    BY <1>4, <2>1, <2>2, <2>3 DEF SetOK
  <2>4. CASE Major(k) = Major(i)
    BY <1>1, <1>4, <1>5, <1>6, <2>1, <2>4
  <2>5. QED
    BY <2>3, <2>4
<1>8. Members(t) \subseteq Nat /\ Members(s) \subseteq Nat
  BY <1>4, MembersByWord
<1>9. Members(t) = IF val THEN Members(s) \cup {i} ELSE Members(s) \ {i}
  BY <1>7, <1>8
<1>10. QED
  BY <1>3, <1>4, <1>9 DEF t

(* boolset_set adds or removes its index.                                  *)
LEMMA WithBitFacts ==
    ASSUME NEW s, SetOK(s), NEW i \in Nat, NEW val \in BOOLEAN
    PROVE  LET t == WithBit(s, i, val)
           IN  /\ SetOK(t)
               /\ t.size >= s.size
               /\ Major(i) < t.size
               /\ Major(i) < s.size => t.size = s.size
               /\ Members(t) = IF val THEN Members(s) \cup {i} ELSE Members(s) \ {i}
<1> DEFINE e == Enough(s, Major(i) + 1)
<1>1. Major(i) \in Nat /\ Major(i) + 1 \in Nat
  BY IndexSplits
<1>2. SetOK(e) /\ e.size >= s.size /\ Major(i) + 1 <= e.size /\ Members(e) = Members(s)
  BY <1>1, EnoughFacts
<1>3. Major(i) < s.size => e = s
  BY <1>1 DEF Enough, SetOK
<1> HIDE DEF e
<1>4. Major(i) < e.size /\ e.size \in Nat
  BY <1>1, <1>2 DEF SetOK
<1> DEFINE t == Written(e, i, val)
<1>5. /\ SetOK(t)
      /\ t.size = e.size
      /\ Members(t) = IF val THEN Members(e) \cup {i} ELSE Members(e) \ {i}
  BY <1>2, <1>4, WrittenFacts
<1>6. WithBit(s, i, val) = t
  BY DEF WithBit, e
<1> HIDE DEF t
<1>7. QED
  BY <1>2, <1>3, <1>4, <1>5, <1>6
------------------------------------------------------------------------------
(* Type correctness.                                                       *)

LEMMA TypeOKIsSetOK == TypeOK => SetOK(set)
  BY DEF TypeOK, SetOK

LEMMA InitTypeOK == Init => TypeOK
  BY CreatedFacts, BoolsetAssumption DEF Init, TypeOK, SetOK, Created

(* The callback's index lies in the word that is looked through.           *)
LEMMA VisitedIndex ==
    ASSUME TypeOK, pc = "bits"
    PROVE  /\ major * WordBits + minor \in Nat
           /\ Major(major * WordBits + minor) = major
           /\ Minor(major * WordBits + minor) = minor
<1>1. major \in Nat /\ minor \in Bits
  BY BoolsetAssumption DEF TypeOK, Bits
<1>2. QED
  BY <1>1, IndexJoins

LEMMA VisitFacts ==
    ASSUME TypeOK, Visit
    PROVE  \E keep \in BOOLEAN :
              LET index == major * WordBits + minor
              IN  /\ event' = Event("visit", index, keep)
                  /\ SetOK(set')
                  /\ set'.size = set.size
                  /\ Members(set') = IF keep THEN Members(set) ELSE Members(set) \ {index}
<1> DEFINE index == major * WordBits + minor
<1>1. PICK keep \in BOOLEAN :
        /\ set' = IF keep THEN set ELSE WithBit(set, index, FALSE)
        /\ event' = Event("visit", index, keep)
  BY DEF Visit
<1>2. /\ pc = "bits"
      /\ SetOK(set)
      /\ major < set.size
  BY TypeOKIsSetOK DEF Visit, TypeOK
<1>3. index \in Nat /\ Major(index) = major
  BY <1>2, VisitedIndex
<1> HIDE DEF index
<1>4. CASE keep
  BY <1>1, <1>2, <1>4 DEF index
<1>5. CASE ~keep
  <2>1. /\ SetOK(WithBit(set, index, FALSE))
        /\ WithBit(set, index, FALSE).size = set.size
        /\ Members(WithBit(set, index, FALSE)) = Members(set) \ {index}
    BY <1>2, <1>3, WithBitFacts
  <2>2. QED
    BY <1>1, <1>5, <2>1 DEF index
<1>6. QED
  BY <1>4, <1>5

LEMMA NextTypeOK == TypeOK /\ [Next]_vars => TypeOK'
<1> SUFFICES ASSUME TypeOK, [Next]_vars
             PROVE  TypeOK'
  OBVIOUS
<1>1. SetOK(set) /\ WordBits \in Nat \ {0}
  BY TypeOKIsSetOK, BoolsetAssumption
<1>2. ASSUME NEW index \in Indices, NEW val \in BOOLEAN, Set(index, val)
      PROVE  TypeOK'
  <2>1. index \in Nat
    BY BoolsetAssumption
  <2>2. SetOK(set') /\ set'.size >= set.size
    BY <1>1, <1>2, <2>1, WithBitFacts DEF Set
  <2>3. QED
    BY <1>1, <1>2, <2>2 DEF Set, TypeOK, SetOK
<1>3. ASSUME NEW index \in Indices, Get(index)
      PROVE  TypeOK'
  BY <1>3 DEF Get, TypeOK
<1>4. CASE Foreach
  BY <1>4 DEF Foreach, TypeOK
<1>5. CASE ReadWord
  <2>1. value' \subseteq Bits
    BY <1>5 DEF ReadWord, TypeOK
  <2>2. QED
    BY <1>1, <1>5, <2>1 DEF ReadWord, TypeOK
<1>6. CASE EndForeach
  BY <1>6 DEF EndForeach, TypeOK
<1>7. CASE SkipBit
  BY <1>1, <1>7 DEF SkipBit, NextMinor, TypeOK
<1>8. CASE Visit
  <2>1. SetOK(set') /\ set'.size = set.size
    BY <1>8, VisitFacts
  <2>2. pc = "bits" /\ NextMinor /\ value' = value
    BY <1>8 DEF Visit
  <2>3. /\ major' \in 0..set.size
        /\ minor' \in 0..WordBits
        /\ pc' \in {"bits", "word"}
        /\ pc' = "bits" => major' < set.size /\ minor' < WordBits
    BY <1>1, <2>2 DEF NextMinor, TypeOK
  <2>4. value' \subseteq Bits
    BY <2>2 DEF TypeOK
  <2>5. QED
    BY <2>1, <2>3, <2>4 DEF TypeOK, SetOK
<1>9. CASE UNCHANGED vars
  BY <1>9 DEF vars, TypeOK
<1>10. QED
  BY <1>2, <1>3, <1>4, <1>5, <1>6, <1>7, <1>8, <1>9 DEF Next

(* The array always has the words its size says, and boolset_foreach never *)
(* reads a word beyond it, whatever indices are set.                       *)
THEOREM BoolsetTypeOK == Spec => []TypeOK
  BY InitTypeOK, NextTypeOK, PTL DEF Spec

------------------------------------------------------------------------------
(* The words implement the set of indices.                                 *)

(* Pending, of any state.                                                  *)
PendingIn(s, p, ma, mi, v) ==
    CASE p = "call" -> {}
      [] p = "word" -> {i \in Members(s) : i >= ma * WordBits}
      [] p = "bits" -> {ma * WordBits + b : b \in {c \in v : c >= mi}}
                            \cup {i \in Members(s) : i >= (ma + 1) * WordBits}

LEMMA WordsFrom ==
    ASSUME NEW s, SetOK(s), NEW w \in Nat
    PROVE  /\ {i \in Members(s) : i >= w * WordBits} \subseteq Nat
           /\ \A i \in Nat : i \in {k \in Members(s) : k >= w * WordBits} <=>
                                  Major(i) >= w /\ i \in Members(s)
<1>1. w * WordBits \in Nat
  BY BoolsetAssumption, SMT
<1>2. \A i \in Nat : i >= w * WordBits <=> Major(i) >= w
  BY <1>1, WordsInOrder, IndexSplits
<1>3. QED
  BY <1>2, MembersByWord

(* By word and bit, as Members.                                            *)
LEMMA PendingByWord ==
    ASSUME NEW s, SetOK(s), NEW ma \in Nat, NEW mi \in Nat, NEW v \in SUBSET Bits
    PROVE  /\ PendingIn(s, "word", ma, mi, v) \subseteq Nat
           /\ PendingIn(s, "bits", ma, mi, v) \subseteq Nat
           /\ \A i \in Nat : i \in PendingIn(s, "word", ma, mi, v) <=>
                  Major(i) >= ma /\ i \in Members(s)
           /\ \A i \in Nat : i \in PendingIn(s, "bits", ma, mi, v) <=>
                  \/ Major(i) = ma /\ Minor(i) \in v /\ Minor(i) >= mi
                  \/ Major(i) > ma /\ i \in Members(s)
<1> DEFINE here == {ma * WordBits + b : b \in {c \in v : c >= mi}}
           later == {i \in Members(s) : i >= (ma + 1) * WordBits}
<1>1. PendingIn(s, "word", ma, mi, v) = {i \in Members(s) : i >= ma * WordBits}
  BY DEF PendingIn
<1>2. PendingIn(s, "bits", ma, mi, v) = here \cup later
  BY DEF PendingIn
<1>3. /\ here \subseteq Nat
      /\ \A i \in here : Major(i) = ma /\ Minor(i) \in v /\ Minor(i) >= mi
  BY IndexJoins
<1>4. \A i \in Nat : Major(i) = ma /\ Minor(i) \in v /\ Minor(i) >= mi => i \in here
  BY IndexSplits
<1>5. /\ later \subseteq Nat
      /\ \A i \in Nat : i \in later <=> Major(i) > ma /\ i \in Members(s)
  <2>1. /\ later \subseteq Nat
        /\ \A i \in Nat : i \in later <=> Major(i) >= ma + 1 /\ i \in Members(s)
    BY WordsFrom, ma + 1 \in Nat
  <2>2. QED
    BY <2>1, IndexSplits
<1> HIDE DEF here, later
<1>6. QED
  BY <1>1, <1>2, <1>3, <1>4, <1>5, WordsFrom
LEMMA PendingNow ==
    /\ Pending = PendingIn(set, pc, major, minor, value)
    /\ Pending' = PendingIn(set', pc', major', minor', value')
  BY DEF Pending, PendingIn, Members, Major, Minor

LEMMA InitImplements == Init => Abstract!Init
<1>1. Init => Members(set) = {} /\ set.size * WordBits \in Nat
  BY CreatedFacts, BoolsetAssumption DEF Init, Created
<1>2. QED
  BY <1>1 DEF Init, Abstract!Init, Pending, Event, Abstract!Event

(* Going on to the next bit takes the present one from the pending ones,   *)
(* if the words that follow stay as they are.                              *)
LEMMA NextMinorPending ==
    ASSUME TypeOK, pc = "bits", NextMinor, value' = value, SetOK(set'),
           \A i \in Nat : Major(i) > major => (i \in Members(set') <=> i \in Members(set))
    PROVE  /\ Pending' \subseteq Nat
           /\ \A i \in Nat : i \in Pending' <=>
                  i \in Pending /\ ~(Major(i) = major /\ Minor(i) = minor)
<1>1. /\ SetOK(set)
      /\ major \in Nat /\ minor \in Nat /\ minor < WordBits
      /\ major + 1 \in Nat /\ minor + 1 \in Nat /\ WordBits \in Nat
      /\ value \in SUBSET Bits
  BY TypeOKIsSetOK, BoolsetAssumption DEF TypeOK
<1>2. \A i \in Nat : Major(i) \in Nat /\ Minor(i) \in Nat /\ Minor(i) < WordBits
  BY IndexSplits, <1>1 DEF Bits
<1>3. \A i \in Nat : i \in Pending <=>
         \/ Major(i) = major /\ Minor(i) \in value /\ Minor(i) >= minor
         \/ Major(i) > major /\ i \in Members(set)
  BY <1>1, PendingByWord, PendingNow
<1>4. minor' = minor + 1
  BY DEF NextMinor
<1>5. CASE minor + 1 < WordBits
  <2>1. pc' = "bits" /\ major' = major
    BY <1>5 DEF NextMinor
  <2>2. /\ Pending' \subseteq Nat
        /\ \A i \in Nat : i \in Pending' <=>
              \/ Major(i) = major /\ Minor(i) \in value /\ Minor(i) >= minor + 1
              \/ Major(i) > major /\ i \in Members(set')
    BY <1>1, <1>4, <2>1, PendingByWord, PendingNow
  <2>3. QED
    BY <1>1, <1>2, <1>3, <2>2
<1>6. CASE ~(minor + 1 < WordBits)
  <2>1. pc' = "word" /\ major' = major + 1
    BY <1>6 DEF NextMinor
  <2>2. /\ Pending' \subseteq Nat
        /\ \A i \in Nat : i \in Pending' <=> Major(i) >= major + 1 /\ i \in Members(set')
    BY <1>1, <1>4, <2>1, PendingByWord, PendingNow
  <2>3. ASSUME NEW i \in Nat
        PROVE  i \in Pending' <=> i \in Pending /\ ~(Major(i) = major /\ Minor(i) = minor)
    <3>1. Major(i) \in Nat /\ Minor(i) \in Nat /\ Minor(i) < WordBits
      BY <1>2
    <3>2. Minor(i) >= minor => Minor(i) = minor
      BY <1>1, <1>6, <3>1
    <3>3. Major(i) >= major + 1 <=> Major(i) > major
      BY <1>1, <3>1
    <3>4. QED
      BY <1>1, <1>3, <2>2, <3>1, <3>2, <3>3
  <2>4. QED
    BY <2>2, <2>3
<1>7. QED
  BY <1>5, <1>6

(* The loops of boolset_foreach between two callbacks.                     *)
LEMMA LoopsKeepPending ==
    ASSUME TypeOK, ReadWord \/ EndForeach \/ SkipBit
    PROVE  set' = set /\ event' = event /\ Pending' = Pending
<1>1. /\ SetOK(set)
      /\ major \in Nat /\ minor \in Nat /\ major + 1 \in Nat /\ minor + 1 \in Nat
      /\ value \in SUBSET Bits
  BY TypeOKIsSetOK, BoolsetAssumption DEF TypeOK
<1>2. CASE ReadWord
  <2>1. /\ pc = "word" /\ major < set.size /\ value' = set.data[major] /\ minor' = 0
        /\ set' = set /\ event' = event
    BY <1>2 DEF ReadWord
  <2>2. value' \in SUBSET Bits
    BY <1>1, <2>1 DEF SetOK
  <2>3. \A i \in Nat : Major(i) = major /\ i \in Members(set) <=> Major(i) = major /\ Minor(i) \in value'
    BY <1>1, <2>1, MembersByWord
  <2>4. \A i \in Nat : Major(i) \in Nat /\ Minor(i) \in Nat
    BY IndexSplits, BoolsetAssumption DEF Bits
  <2>5. /\ Pending \subseteq Nat
        /\ \A i \in Nat : i \in Pending <=> Major(i) >= major /\ i \in Members(set)
    BY <1>1, <2>1, PendingByWord, PendingNow
  <2>6. /\ Pending' \subseteq Nat
        /\ \A i \in Nat : i \in Pending' <=>
              \/ Major(i) = major /\ Minor(i) \in value'
              \/ Major(i) > major /\ i \in Members(set)
    <3>1. CASE value' = {}
      <4>1. pc' = "word" /\ major' = major + 1
        BY <1>2, <2>1, <3>1 DEF ReadWord
      <4>2. /\ Pending' \subseteq Nat
            /\ \A i \in Nat : i \in Pending' <=> Major(i) >= major + 1 /\ i \in Members(set)
        BY <1>1, <2>1, <2>2, <4>1, PendingByWord, PendingNow
      <4>3. QED
        BY <1>1, <2>4, <3>1, <4>2
    <3>2. CASE value' # {}
      <4>1. pc' = "bits" /\ major' = major
        BY <1>2, <2>1, <3>2 DEF ReadWord
      <4>2. /\ Pending' \subseteq Nat
            /\ \A i \in Nat : i \in Pending' <=>
                  \/ Major(i) = major /\ Minor(i) \in value' /\ Minor(i) >= 0
                  \/ Major(i) > major /\ i \in Members(set)
        BY <1>1, <2>1, <2>2, <4>1, PendingByWord, PendingNow
      <4>3. QED
        BY <2>4, <4>2
    <3>3. QED
      BY <3>1, <3>2
  <2>7. \A i \in Nat : i \in Pending' <=> i \in Pending
    BY <1>1, <2>3, <2>4, <2>5, <2>6
  <2>8. QED
    BY <2>1, <2>5, <2>6, <2>7
<1>3. CASE EndForeach
  <2>1. pc = "word" /\ major >= set.size /\ pc' = "call" /\ set' = set /\ event' = event
    BY <1>3 DEF EndForeach
  <2>2. \A i \in Members(set) : i \in Nat /\ Major(i) \in Nat /\ ~(Major(i) >= major)
    BY <1>1, <2>1, MembersByWord, IndexSplits DEF SetOK
  <2>3. Pending = {}
    BY <1>1, <2>1, <2>2, PendingByWord, PendingNow
  <2>4. Pending' = {}
    BY <2>1 DEF Pending
  <2>5. QED
    BY <2>1, <2>3, <2>4
<1>4. CASE SkipBit
  <2>1. /\ pc = "bits" /\ minor \notin value /\ NextMinor
        /\ set' = set /\ event' = event /\ value' = value
    BY <1>4 DEF SkipBit
  <2>2. /\ Pending' \subseteq Nat
        /\ \A i \in Nat : i \in Pending' <=> i \in Pending /\ ~(Major(i) = major /\ Minor(i) = minor)
    BY <1>1, <2>1, NextMinorPending
  <2>3. \A i \in Nat : i \in Pending => ~(Major(i) = major /\ Minor(i) = minor)
    BY <1>1, <2>1, PendingByWord, PendingNow
  <2>4. Pending \subseteq Nat
    BY <1>1, <2>1, PendingByWord, PendingNow
  <2>5. QED
    BY <2>1, <2>2, <2>3, <2>4
<1>5. QED
  BY <1>2, <1>3, <1>4
(* A callback is for the least of the pending indices.                     *)
LEMMA VisitImplements == ASSUME TypeOK, Visit PROVE Abstract!Visit
<1> DEFINE index == major * WordBits + minor
<1>1. /\ pc = "bits" /\ minor \in value /\ NextMinor /\ value' = value
      /\ SetOK(set)
      /\ major \in Nat /\ minor \in Nat /\ value \in SUBSET Bits
  BY TypeOKIsSetOK, BoolsetAssumption DEF Visit, TypeOK
<1>2. index \in Nat /\ Major(index) = major /\ Minor(index) = minor
  BY <1>1, VisitedIndex
<1>3. PICK keep \in BOOLEAN :
        /\ event' = Event("visit", index, keep)
        /\ SetOK(set')
        /\ set'.size = set.size
        /\ Members(set') = IF keep THEN Members(set) ELSE Members(set) \ {index}
  BY VisitFacts
<1> HIDE DEF index
<1>4. /\ Pending \subseteq Nat
      /\ \A i \in Nat : i \in Pending <=>
            \/ Major(i) = major /\ Minor(i) \in value /\ Minor(i) >= minor
            \/ Major(i) > major /\ i \in Members(set)
  BY <1>1, PendingByWord, PendingNow
<1>5. index \in Pending
  BY <1>1, <1>2, <1>4
<1>6. ASSUME NEW other \in Pending
      PROVE  index <= other
  <2>1. /\ other \in Nat /\ Major(other) \in Nat /\ Minor(other) \in Nat
        /\ other = Major(other) * WordBits + Minor(other)
    BY <1>4, IndexSplits, BoolsetAssumption DEF Bits
  <2>2. CASE Major(other) = major /\ Minor(other) >= minor
    <3>1. major * WordBits \in Nat
      BY <1>1, BoolsetAssumption, SMT
    <3>2. QED
      BY <1>1, <2>1, <2>2, <3>1 DEF index
  <2>3. CASE Major(other) > major
    <3>1. index < Major(other) * WordBits
      BY <1>2, <2>1, <2>3, WordsInOrder
    <3>2. ~(other < Major(other) * WordBits)
      BY <2>1, WordsInOrder
    <3>3. Major(other) * WordBits \in Nat
      BY <2>1, BoolsetAssumption, SMT
    <3>4. QED
      BY <1>2, <2>1, <3>1, <3>2, <3>3
  <2>4. QED
    BY <1>4, <2>1, <2>2, <2>3
<1>7. Pending' = Pending \ {index}
  <2>1. \A i \in Nat : Major(i) = major /\ Minor(i) = minor <=> i = index
    BY <1>2, IndexSplits DEF index
  <2>2. \A i \in Nat : Major(i) > major => (i \in Members(set') <=> i \in Members(set))
    BY <1>1, <1>2, <1>3
  <2>3. /\ Pending' \subseteq Nat
        /\ \A i \in Nat : i \in Pending' <=>
               i \in Pending /\ ~(Major(i) = major /\ Minor(i) = minor)
    BY <1>1, <1>3, <2>2, NextMinorPending
  <2>4. QED
    BY <1>4, <2>1, <2>3
<1>8. /\ (Members(set))' = Members(set')
      /\ (set.size * WordBits)' = set.size * WordBits
  BY <1>3 DEF Members, Major, Minor
<1>9. QED
  BY <1>3, <1>5, <1>6, <1>7, <1>8 DEF Abstract!Visit, Event, Abstract!Event

LEMMA NextImplements == TypeOK /\ [Next]_vars => [Abstract!Next]_(Abstract!vars)
<1> SUFFICES ASSUME TypeOK, [Next]_vars
             PROVE  [Abstract!Next]_(Abstract!vars)
  OBVIOUS
<1>1. SetOK(set)
  BY TypeOKIsSetOK
<1>2. (Members(set))' = Members(set')
  BY DEF Members, Major, Minor
<1>3. ASSUME NEW index \in Indices, NEW val \in BOOLEAN, Set(index, val)
      PROVE  Abstract!Set(index, val)
  <2>1. index \in Nat
    BY BoolsetAssumption
  <2>2. /\ SetOK(set')
        /\ set'.size >= set.size
        /\ Major(index) < set'.size
        /\ Members(set') = IF val THEN Members(set) \cup {index} ELSE Members(set) \ {index}
    BY <1>1, <1>3, <2>1, WithBitFacts DEF Set
  <2>3. set.size * WordBits <= set'.size * WordBits
    <3>1. \A m, n, w \in Nat : m <= n => m * w <= n * w
      BY SMT
    <3>2. QED
      BY <1>1, <2>2, <3>1, BoolsetAssumption DEF SetOK
  <2>4. index < set'.size * WordBits
    BY <2>1, <2>2, WordsInOrder DEF SetOK
  <2>5. set.size * WordBits \in Nat /\ set'.size * WordBits \in Nat
    BY <1>1, <2>2, BoolsetAssumption, SMT DEF SetOK
  <2>6. Pending = {} /\ Pending' = {}
    BY <1>3 DEF Set, Pending
  <2>7. event' = Event("set", index, val)
    BY <1>3 DEF Set
  <2>8. QED
    BY <1>2, <2>2, <2>3, <2>4, <2>5, <2>6, <2>7 DEF Abstract!Set, Event, Abstract!Event
<1>4. ASSUME NEW index \in Indices, Get(index)
      PROVE  Abstract!Get(index)
  <2>1. index \in Nat
    BY BoolsetAssumption
  <2>2. PICK val \in BOOLEAN :
          /\ Major(index) < set.size => val = (Minor(index) \in set.data[Major(index)])
          /\ event' = Event("get", index, val)
    BY <1>4 DEF Get
  <2>3. index < set.size * WordBits <=> Major(index) < set.size
    BY <1>1, <2>1, WordsInOrder DEF SetOK
  <2>4. Major(index) < set.size =>
          ((index \in Members(set)) <=> (Minor(index) \in set.data[Major(index)]))
    BY <1>1, <2>1, MembersByWord
  <2>5. index < set.size * WordBits => val = (index \in Members(set))
    BY <2>2, <2>3, <2>4
  <2>6. Pending = {} /\ UNCHANGED <<Members(set), set.size * WordBits, Pending>>
    BY <1>2, <1>4 DEF Get, Pending
  <2>7. QED
    BY <2>2, <2>5, <2>6 DEF Abstract!Get, Event, Abstract!Event
<1>5. CASE Foreach
  <2>1. /\ pc = "call" /\ pc' = "word" /\ major' = 0 /\ set' = set
        /\ minor' = minor /\ value' = value /\ event' = Event("foreach", 0, FALSE)
    BY <1>5 DEF Foreach
  <2>2. minor \in Nat /\ value \in SUBSET Bits
    BY BoolsetAssumption DEF TypeOK
  <2>3. /\ Pending' \subseteq Nat
        /\ \A i \in Nat : i \in Pending' <=> Major(i) >= 0 /\ i \in Members(set)
    BY <1>1, <2>1, <2>2, PendingByWord, PendingNow
  <2>4. Pending' = Members(set)
    <3>1. \A i \in Nat : Major(i) >= 0
      BY IndexSplits
    <3>2. QED
      BY <1>1, <2>3, <3>1, MembersByWord
  <2>5. Pending = {}
    BY <2>1 DEF Pending
  <2>6. UNCHANGED <<Members(set), set.size * WordBits>>
    BY <1>2, <2>1
  <2>7. Abstract!Foreach
    BY <2>1, <2>4, <2>5, <2>6 DEF Abstract!Foreach, Event, Abstract!Event
  <2>8. QED
    BY <2>7 DEF Abstract!Next
<1>6. CASE ReadWord \/ EndForeach \/ SkipBit
  <2>1. set' = set /\ event' = event /\ Pending' = Pending
    BY <1>6, LoopsKeepPending
  <2>2. QED
    BY <1>2, <2>1 DEF Abstract!vars
<1>7. CASE Visit
  BY <1>7, VisitImplements DEF Abstract!Next
<1>8. CASE UNCHANGED vars
  <2>1. set' = set /\ event' = event /\ Pending' = Pending
    BY <1>8, PendingNow DEF vars
  <2>2. QED
    BY <1>2, <2>1 DEF Abstract!vars
<1>9. QED
  BY <1>3, <1>4, <1>5, <1>6, <1>7, <1>8 DEF Next, Abstract!Next

(* boolset.c is a set of indices: growing moves none, boolset_set changes  *)
(* one, boolset_foreach calls back once for each, in increasing order,     *)
(* even if its callback clears bits of the words it is going through.      *)
THEOREM BoolsetImplementsIndexSet == Spec => ImplementsIndexSet
  BY BoolsetTypeOK, InitImplements, NextImplements, PTL
     DEF Spec, ImplementsIndexSet, Abstract!Spec
==============================================================================
