------------------------------ MODULE HttpHeaders -----------------------------
(***************************************************************************)
(* The header functions of src/unix/http.c as operators on a buffer, and   *)
(* the definition of a header that they are compared with.                 *)
(*                                                                         *)
(* A buffer is a function from indices to characters: what a C string      *)
(* points into, with what lies before and behind it.  Characters are       *)
(* strings of length one or the names below; those that are none of these  *)
(* are all alike to the code.                                              *)
(***************************************************************************)
EXTENDS Integers, Sequences, FiniteSetsExt

CONSTANTS
    KeyMax,    \* HEADER_KEY_MAX_LENGTH, with the final NUL
    ValueMax   \* HEADER_VALUE_MAX_LENGTH, likewise

ASSUME MaxLengthsAssumption == KeyMax \in Nat \ {0} /\ ValueMax \in Nat \ {0}

CR == "CR"
LF == "LF"
NUL == "NUL"
Space == " "
Colon == ":"

(* The characters from i to j.                                             *)
Slice(buf, i, j) == [k \in 1..(j - i + 1) |-> buf[i + k - 1]]

(* What is printed of n characters: they end at a NUL.                     *)
CString(buf, from, n) ==
    Slice(buf, from, Min({from + n} \cup {i \in from..(from + n - 1) : buf[i] = NUL}) - 1)

(* The scans for a character that is not a space, up and down from i.      *)
SkipUp(buf, i) == Min({j \in DOMAIN buf : j >= i /\ buf[j] # Space})

(* Faulty variant: the scan looks one character ahead.                     *)
SkipDownAhead(buf, i) == Max({j \in DOMAIN buf \ {0} : j <= i /\ buf[j - 1] # Space})

SkipDown(buf, i) == Max({j \in DOMAIN buf : j <= i /\ buf[j] # Space})

(* The scan for the end of a line: the next CR, or limit.                  *)
LineEnd(buf, from, limit) ==
    IF from >= limit THEN from
    ELSE Min({limit} \cup {i \in from..limit : buf[i] = CR})

(* The scan for the colon; without one it ends at len, which line 49 lets  *)
(* pass.                                                                   *)
ColonAt(buf, at, len) == Min({len} \cup {i \in 0..len : buf[at + i] = Colon})

(* http_str_to_header on the len characters from at.  A negative length    *)
(* passes the test of line 75, and memcpy takes it for a huge one: the     *)
(* process ends.                                                           *)
HeaderAt(buf, at, len) ==
    LET colon == ColonAt(buf, at, len)
        key_start == SkipUp(buf, at)
        key_end == SkipDown(buf, at + colon - 1)
        val_start == SkipUp(buf, at + colon + 1)
        val_end == SkipDown(buf, at + len - 1)
        key_len == key_end - key_start + 1
        val_len == val_end - val_start + 1
    IN  IF key_len + 1 > KeyMax \/ val_len + 1 > ValueMax
        THEN [status |-> "refused"]
        ELSE IF key_len < 0 \/ val_len < 0
        THEN [status |-> "fault"]
        ELSE [status |-> "parsed",
              header |-> [key |-> CString(buf, key_start, key_len),
                          value |-> CString(buf, val_start, val_len)]]

(* Faulty variant: the separator is left out.                              *)
HeaderToStrNoColon(header) == header.key \o <<Space>> \o header.value

(* http_header_to_str: key, colon, space, value; what the caller sees of   *)
(* it is the string up to the NUL.                                         *)
HeaderToStr(header) == header.key \o <<Colon, Space>> \o header.value

------------------------------------------------------------------------------
(* The reference: what the line from i to j of a request says.             *)

Visible(buf, i, j) == {k \in i..j : buf[k] # Space}

Trimmed(buf, i, j) ==
    IF Visible(buf, i, j) = {} THEN <<>>
    ELSE Slice(buf, Min(Visible(buf, i, j)), Max(Visible(buf, i, j)))

Colons(buf, i, j) == {k \in i..j : buf[k] = Colon}

Meant(buf, i, j) ==
    LET c == Min(Colons(buf, i, j))
    IN  [key |-> Trimmed(buf, i, c - 1), value |-> Trimmed(buf, c + 1, j)]

Fits(header) == Len(header.key) < KeyMax /\ Len(header.value) < ValueMax

(* Lines the parser is made for: a colon, and visible text on both sides   *)
(* of it, or nothing at all.                                               *)
Regular(buf, i, j) ==
    LET c == Min(Colons(buf, i, j))
    IN  /\ Colons(buf, i, j) # {}
        /\ c = i \/ Visible(buf, i, c - 1) # {}
        /\ c = j \/ Visible(buf, c + 1, j) # {}
==============================================================================
