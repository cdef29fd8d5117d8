--------------------------- MODULE MCSharedPanel ----------------------------
EXTENDS SharedPanel

\* Levels 0, 1 and, past the end of the array, 2; a fresh object holds a
\* brightness beyond the panel's range.
MCMap == [i \in 0..1 |-> i]
MCInitialFields == {[on |-> FALSE, brightness |-> 2]}
=============================================================================
