----------------------------- MODULE IntenFill ------------------------------
(***************************************************************************)
(* The constructor of IntenMap, one step per iteration: what the table     *)
(* holds once the static s_map has been built.  The other modules take     *)
(* this for granted in MapAssumption.                                      *)
(***************************************************************************)
EXTENDS IntenTable

VARIABLES
    i,          \* the loop's index
    memory      \* the words stored so far, from &map[0] on

vars == <<i, memory>>

MapLength == 255        \* unsigned int map[255]
Cells == 0..(MapLength - 1)

Init ==
    /\ i = 0
    /\ memory = [n \in {} |-> 0]

Fill ==
    /\ i <= 255
    /\ memory' = [n \in DOMAIN memory \cup {i} |->
                    IF n = i THEN usbd_poly(i) ELSE memory[n]]
    /\ i' = i + 1

Next == Fill

Spec == Init /\ [][Next]_vars /\ WF_vars(Next)

-----------------------------------------------------------------------------

\* "map[255]" (alnitak_emu.cpp:43): the constructor stores inside the array
\* it declares.
StoresInsideArray == DOMAIN memory \subseteq Cells
=============================================================================
