----------------------------- MODULE RingStore -----------------------------
(***************************************************************************)
(* What a log promises of the data it keeps: a set of units numbered in    *)
(* the order they are written.  A unit is added while there is room; a log *)
(* without room loses its oldest block of units, never any other.  A Clear *)
(* loses them all, and so does a failure that leaves the order of the units *)
(* in doubt; what is written before the Clear that mends it is lost too.   *)
(* A limit below the room (an OTP log) stops the writer.                   *)
(***************************************************************************)
EXTENDS Naturals, FiniteSets

CONSTANTS
    Room,       \* units that fit
    BlockSize,  \* units lost together
    Limit       \* the writer stops here

VARIABLES kept, last

Init == kept = {} /\ last = 0

Put ==
    /\ Cardinality(kept) < Room /\ Cardinality(kept) < Limit
    /\ kept' = kept \cup {last + 1}
    /\ last' = last + 1

Recycle ==
    /\ Cardinality(kept) = Room
    /\ kept' = {u \in kept : u > last - (Room - BlockSize)}
    /\ UNCHANGED last

Lose == kept' = {} /\ last' >= last

Next == Put \/ Recycle \/ Lose

Spec == Init /\ [][Next]_<<kept, last>>

=============================================================================
