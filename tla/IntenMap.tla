------------------------------ MODULE IntenMap ------------------------------
(***************************************************************************)
(* The table that translates Alnitak brightness levels (one byte) into the *)
(* intensities of the Spike-a dimmer (0..1023), and its inverse: struct    *)
(* IntenMap of emu/alnitak_emu.cpp.                                        *)
(*                                                                         *)
(* The code declares unsigned int map[255] but fills and reads the indices *)
(* 0..255: the cell past the end is memory the table does not own.  The    *)
(* model keeps the two apart: map has the cells the array has, PastEnd is  *)
(* what a read one past the end finds.                                     *)
(***************************************************************************)
EXTENDS Integers

CONSTANTS
    MaxLvl,     \* largest Alnitak level, 255; also the array's length
    map,        \* contents of the array, an increasing function
    PastEnd     \* value found at map[MaxLvl], outside the array

Levels == 0..MaxLvl
Cells == 0..(MaxLvl - 1)

\* The constructor fills the array with an increasing polynomial that
\* starts at 0; module IntenTable computes it.
ASSUME MapAssumption ==
    /\ MaxLvl \in Nat \ {0}
    /\ map \in [Cells -> Nat]
    /\ map[0] = 0
    /\ \A i, j \in Cells : i < j => map[i] < map[j]
    /\ PastEnd \in Nat

\* What the lookup of an index finds, inside the array or past it.
Lookup(i) == IF i \in Cells THEN map[i] ELSE PastEnd

\* IntenMap::usbd_val(): the index is clamped to 255, so it can be the one
\* past the end.
usbd_val(blvl) == Lookup(IF blvl < MaxLvl THEN blvl ELSE MaxLvl)

\* The intervals [i, j] alnitak_val()'s loop can get to.
Intervals == (0..(MaxLvl + 1)) \X (-1..MaxLvl)

\* An iteration of the loop; search holds what the remaining ones return.
Halved(search, inten, i, j) ==
    LET mid == (i + j) \div 2
    IN  IF ~(i < j) THEN i
        ELSE IF Lookup(mid) = inten THEN mid
        ELSE IF Lookup(mid) < inten THEN search[<<mid + 1, j>>]
        ELSE search[<<i, mid - 1>>]

\* IntenMap::alnitak_val() as a function: the interval of the loop is the
\* argument of the recursive function.
alnitak_val(inten) ==
    LET search[w \in Intervals] == Halved(search, inten, w[1], w[2])
    IN  search[<<0, MaxLvl>>]

-----------------------------------------------------------------------------
(* The contract of the inverse.                                            *)

\* Level lvl stands for the intensity: no level below it is as bright, none
\* above it as dark.  For an intensity of the table this is equality.
Near(lvl, inten) ==
    \A i \in Cells : /\ i < lvl => map[i] < inten
                     /\ i > lvl => map[i] > inten

Exact(lvl, inten) == (\E i \in Cells : map[i] = inten) => Lookup(lvl) = inten
=============================================================================
