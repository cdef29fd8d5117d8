----------------------------- MODULE MCEmulator -----------------------------
EXTENDS Emulator

\* Three levels over intensities 0..3, with an intensity the table skips.
MCMap == [i \in 0..1 |-> 2 * i]
MCArgs == {0, 2, 3}
MCInitialFields == {[on |-> FALSE, brightness |-> 0]}
MCLevelOf == [r \in Register |-> alnitak_val(r)]
=============================================================================
