------------------------------- MODULE LogTail -------------------------------
(***************************************************************************)
(* truncate_utf8 of src/src/storage.rs: the end of a command log, cut at a *)
(* character boundary, as every write of a finished operation stores it.   *)
(* A text is its length in bytes and the offsets at which characters       *)
(* begin or end.  Deploy has the rows; what is cut off their logs has no   *)
(* state.                                                                  *)
(***************************************************************************)
EXTENDS DeployInvariant

CONSTANTS
    MaxLen,      \* bound: the longest text, in bytes
    Limits       \* storage.max_log_bytes

ASSUME TailAssumption == MaxLen \in Nat /\ Limits \subseteq Nat \ {0}

(* A character has one to four bytes. *)
Characters(n) ==
    {B \in SUBSET (0 .. n) :
        /\ {0, n} \subseteq B
        /\ \A b \in B \ {n} : \E c \in B : b < c /\ c <= b + 4}

Texts == UNION {[len : {n}, boundaries : Characters(n)] : n \in 0 .. MaxLen}

(* Definitions named Faulty... are plausible mistakes, for mutation runs only. *)
FaultyAdvance(text) ==
    LET loop[i \in 0 .. text.len] == IF i \in text.boundaries THEN i ELSE loop[i - 1]
    IN  loop

(* Where the loop that starts at an offset ends: 0 and the length of the text  *)
(* are boundaries, so it never passes the end.                                 *)
Advance(text) ==
    LET loop[i \in 0 .. text.len] == IF i \in text.boundaries THEN i ELSE loop[i + 1]
    IN  loop

(* The offset at which the end that is kept begins. *)
truncate_utf8(text, max) ==
    IF text.len <= max THEN 0 ELSE Advance(text)[text.len - max]

-----------------------------------------------------------------------------
Cuts == [text : Texts, max : Limits]
Start(cut) == truncate_utf8(cut.text, cut.max)

(* The cuts inside a character or above the limit, and those that lose a       *)
(* character which would have fitted.                                          *)
Misplaced ==
    {cut \in Cuts :
        \/ Start(cut) \notin cut.text.boundaries
        \/ cut.text.len - Start(cut) > cut.max}
TooShort ==
    {cut \in Cuts :
        \E b \in cut.text.boundaries : b < Start(cut) /\ cut.text.len - b <= cut.max}

(* What a finished row has of any log begins at a character and fits the       *)
(* limit, and no longer end of the log does: the error that ends it is there.  *)
TailLongest ==
    (\E id \in Ids : row[id].status \in DoneStatus) => Misplaced = {} /\ TooShort = {}
=============================================================================
