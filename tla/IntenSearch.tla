---------------------------- MODULE IntenSearch -----------------------------
(***************************************************************************)
(* IntenMap::alnitak_val() as the loop it is: one step per iteration of    *)
(* the binary search that turns an intensity read from the dimmer into an  *)
(* Alnitak level.  AlnitakEmu::Connect() runs it on whatever GETINTEN      *)
(* returned, in or out of the table.                                       *)
(***************************************************************************)
EXTENDS IntenMap

CONSTANT Intensities    \* the intensities the dimmer may report

ASSUME IntensitiesAssumption == Intensities \subseteq Nat

VARIABLES
    inten,      \* the argument
    a, b,       \* the interval still searched
    mid,        \* the index probed last, or None
    done        \* has the function returned a ?

vars == <<inten, a, b, mid, done>>

None == -1

\* A bug the runs would find: the interval starts past the last level.
InitPastLevels ==
    /\ inten \in Intensities
    /\ a = 0
    /\ b = MaxLvl + 1
    /\ mid = None
    /\ done = FALSE

Init ==
    /\ inten \in Intensities
    /\ a = 0
    /\ b = MaxLvl
    /\ mid = None
    /\ done = FALSE

Middle == (a + b) \div 2

Found(m) ==
    /\ Lookup(m) = inten
    /\ a' = m
    /\ done' = TRUE
    /\ UNCHANGED b

\* A bug the runs would find: the middle stays in the interval.
TooDarkKeepsMiddle(m) ==
    /\ Lookup(m) < inten
    /\ a' = m
    /\ UNCHANGED <<b, done>>

TooDark(m) ==
    /\ Lookup(m) < inten
    /\ a' = m + 1
    /\ UNCHANGED <<b, done>>

\* A bug the runs would find: the cell left of the middle is skipped.
TooBrightSkipsOne(m) ==
    /\ Lookup(m) > inten
    /\ b' = m - 2
    /\ UNCHANGED <<a, done>>

TooBright(m) ==
    /\ Lookup(m) > inten
    /\ b' = m - 1
    /\ UNCHANGED <<a, done>>

\* A bug the runs would find: a one-level interval is probed too.
ProbeClosed ==
    /\ ~done
    /\ a <= b
    /\ mid' = Middle
    /\ Found(Middle) \/ TooDark(Middle) \/ TooBright(Middle)
    /\ UNCHANGED inten

\* The loop condition holds and the middle cell decides.
Probe ==
    /\ ~done
    /\ a < b
    /\ mid' = Middle
    /\ Found(Middle) \/ TooDark(Middle) \/ TooBright(Middle)
    /\ UNCHANGED inten

\* The loop condition fails: return a.
Return ==
    /\ ~done
    /\ ~(a < b)
    /\ done' = TRUE
    /\ UNCHANGED <<inten, a, b, mid>>

Next == Probe \/ Return

Spec == Init /\ [][Next]_vars

-----------------------------------------------------------------------------

TypeOK ==
    /\ inten \in Intensities
    /\ a \in Levels
    /\ b \in -1..MaxLvl
    /\ mid \in Levels \cup {None}
    /\ done \in BOOLEAN

\* Although the search starts from the interval 0..255, it never reads the
\* cell past the end of the 255-element array (alnitak_emu.cpp:70-74).
ReadsInsideArray == mid # None => mid \in Cells

\* "inverse function of usbd_val()" (alnitak_emu.cpp:68): an intensity of
\* the table maps back to its own level, any other to a neighbouring level,
\* and so does an intensity brighter than the whole array.
InverseOfUsbdVal ==
    done => /\ Near(a, inten)
            /\ Exact(a, inten)
            /\ (\A i \in Cells : map[i] < inten) => a = MaxLvl

\* The level set with B is what alnitak_val() makes of its intensity, read
\* back after a reconnect: for the 255 levels inside the array always, for
\* level 255 as long as nothing else overwrote the cell past the end
\* (alnitak_emu.cpp:61-64 against 66-82).  Only for level 0 does Connect() hand
\* alnitak_val() something else, 900 (usbdimmer.cpp:210-214).
RoundTrip ==
    done => \A lvl \in Levels :
        /\ inten = usbd_val(lvl)
        /\ lvl \in Cells \/ PastEnd > map[MaxLvl - 1]
        => a = lvl

\* The loop and the recursive function compute the same level.
SameAsFunction == done => a = alnitak_val(inten)

\* The polynomial is rounded down, yet no lit panel is reported at level 0:
\* the lowest levels keep intensities of their own.  That a dark one is not
\* reported at level 0 either is Connect()'s doing, which calls it 900 before
\* alnitak_val() sees it (alnitak_emu.cpp:45-53, 66-82, usbdimmer.cpp:210-214).
NoLitPanelAtZero == done /\ inten > 0 => a > 0

\* "use a polynomial function to to give finer control over the lower
\* intensity levels" (alnitak_emu.cpp:49): a step up from the level found
\* changes the intensity by no less than the step that led to it, rounding
\* aside.
FinerControlBelow ==
    done /\ a \in 1..(MaxLvl - 1) =>
        usbd_val(a + 1) - usbd_val(a) >= usbd_val(a) - usbd_val(a - 1) - 1

\* The search returns for every intensity: every iteration that does not
\* return leaves less than half of the interval, so the 256 levels take no more
\* than eight (alnitak_emu.cpp:71-80).
IntervalHalves == [][done' \/ 2 * (b' - a') < b - a]_vars
=============================================================================
