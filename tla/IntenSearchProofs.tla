------------------------- MODULE IntenSearchProofs --------------------------
(***************************************************************************)
(* The binary search of IntenMap::alnitak_val(), as the function the       *)
(* emulator calls and as the loop it is, proved for every table length,    *)
(* every increasing table, whatever word lies past its end, and every      *)
(* intensity; and what is true of the table the program fills in.          *)
(***************************************************************************)
EXTENDS IntenSearch, IntenTable, NaturalSets

LEMMA Ranges ==
    /\ MaxLvl \in Nat \ {0}
    /\ Levels = Cells \cup {MaxLvl}
    /\ \A i \in Cells : i \in Nat /\ i < MaxLvl /\ map[i] \in Nat
    /\ Intensities \subseteq Nat
BY MapAssumption, IntensitiesAssumption DEF Levels, Cells

\* The table is increasing.
LEMMA Increasing == \A i, j \in Cells : i < j => map[i] < map[j]
BY MapAssumption

-----------------------------------------------------------------------------
(* The interval and what it becomes.                                       *)

\* What the interval [i, j] means: everything left of it is too dark,
\* everything right of it too bright.  The second line keeps the search away
\* from the array's end: j only moves to the left of a cell.
Bracketed(v, i, j) ==
    /\ i \in Levels /\ j \in -1..MaxLvl /\ i <= j + 1
    /\ j < MaxLvl => j + 1 \in Cells
    /\ \A k \in Cells : k < i => map[k] < v
    /\ \A k \in Cells : k > j => map[k] > v

\* The contract of the inverse.
Inverts(lvl, v) ==
    /\ lvl \in Levels
    /\ Near(lvl, v)
    /\ Exact(lvl, v)
    /\ (\A i \in Cells : map[i] < v) => lvl = MaxLvl

LEMMA AllBracketed == \A v : Bracketed(v, 0, MaxLvl)
BY Ranges DEF Bracketed, Levels

\* The middle of a proper interval lies in it, and never on its right end.
LEMMA MiddleInside ==
    ASSUME NEW i \in Levels, NEW j \in -1..MaxLvl, i < j
    PROVE  /\ (i + j) \div 2 \in Cells
           /\ i <= (i + j) \div 2 /\ (i + j) \div 2 < j
BY MapAssumption DEF Levels, Cells

LEMMA FoundInverts ==
    ASSUME NEW v \in Nat, NEW m \in Cells, map[m] = v
    PROVE  Inverts(m, v)
<1>1. \A i \in Cells : i < m => map[i] < v
    BY Increasing
<1>2. \A i \in Cells : i > m => map[i] > v
    BY Increasing, Ranges
<1>. QED
    BY <1>1, <1>2, Ranges DEF Inverts, Near, Exact, Lookup

LEMMA DarkMiddle ==
    ASSUME NEW v \in Nat, NEW i, NEW j, Bracketed(v, i, j),
           NEW m \in Cells, m < j, map[m] < v
    PROVE  Bracketed(v, m + 1, j)
<1>1. \A k \in Cells : k < m + 1 => map[k] < v
    <2>1. \A k \in Cells : k < m + 1 => k = m \/ k < m
        BY Ranges
    <2>2. \A k \in Cells : k < m => map[k] < map[m]
        BY Increasing
    <2>. QED
        BY <2>1, <2>2, Ranges
<1>2. m + 1 \in Levels /\ m + 1 <= j + 1
    <2>1. m \in Nat /\ j \in Int /\ j <= MaxLvl /\ m < j
        BY Ranges DEF Bracketed
    <2>. QED
        BY <2>1, Ranges DEF Levels
<1>. QED
    BY <1>1, <1>2 DEF Bracketed

LEMMA BrightMiddle ==
    ASSUME NEW v \in Nat, NEW i, NEW j, Bracketed(v, i, j),
           NEW m \in Cells, i <= m, map[m] > v
    PROVE  Bracketed(v, i, m - 1)
<1>1. \A k \in Cells : k > m - 1 => map[k] > v
    <2>1. \A k \in Cells : k > m - 1 => k = m \/ k > m
        BY Ranges
    <2>2. \A k \in Cells : k > m => map[k] > map[m]
        BY Increasing, Ranges
    <2>. QED
        BY <2>1, <2>2, Ranges
<1>2. m - 1 \in -1..MaxLvl /\ i <= (m - 1) + 1 /\ (m - 1) + 1 = m
    BY Ranges
<1>. QED
    BY <1>1, <1>2 DEF Bracketed

LEMMA EndInverts ==
    ASSUME NEW v \in Nat, NEW i, NEW j, Bracketed(v, i, j), ~(i < j)
    PROVE  Inverts(i, v)
<1>1. i \in Nat /\ i <= MaxLvl /\ j \in Int /\ (i = j \/ i = j + 1)
    BY Ranges DEF Bracketed, Levels
<1>2. /\ \A k \in Cells : k < i => map[k] < v
      /\ \A k \in Cells : k > j => map[k] > v
      /\ j < MaxLvl => j + 1 \in Cells
    BY DEF Bracketed
<1>3. Near(i, v)
    BY <1>1, <1>2, Ranges DEF Near
<1>4. Exact(i, v)
    <2> SUFFICES ASSUME NEW k \in Cells, map[k] = v PROVE Lookup(i) = v
        BY DEF Exact
    <2>1. ~(k < i) /\ ~(k > j)
        BY <1>2
    <2>2. k = i
        BY <1>1, <2>1, Ranges
    <2>. QED
        BY <2>2 DEF Lookup
<1>5. ASSUME \A k \in Cells : map[k] < v PROVE i = MaxLvl
    <2>1. ASSUME j < MaxLvl PROVE FALSE
        <3>1. j + 1 \in Cells /\ j + 1 > j
            BY <1>1, <1>2, <2>1
        <3>2. map[j + 1] > v /\ map[j + 1] < v
            BY <1>2, <1>5, <3>1
        <3>. QED
            BY <3>1, <3>2, Ranges
    <2>. QED
        BY <1>1, <2>1, Ranges
<1>. QED
    BY <1>3, <1>4, <1>5 DEF Inverts, Bracketed

-----------------------------------------------------------------------------
(* The recursive function.  It has a value because an interval's level     *)
(* depends only on those of narrower intervals: the induction is on the    *)
(* width.                                                                  *)

\* The levels of all intervals, given those that the remaining iterations find.
Halving(g, v) == [w \in Intervals |-> Halved(g, v, w[1], w[2])]

\* What alnitak_val() calls search.
Search(v) == CHOOSE search : search = Halving(search, v)

Width(w) == w[2] - w[1]

\* g is right about the intervals no wider than n.
RightUpTo(g, v, n) ==
    \A w \in Intervals : Width(w) <= n => g[w] = Halved(g, v, w[1], w[2])

LEMMA IntervalRanges ==
    /\ MaxLvl \in Nat
    /\ \A w \in Intervals :
         /\ w[1] \in Nat /\ w[1] <= MaxLvl + 1
         /\ w[2] \in Int /\ -1 <= w[2] /\ w[2] <= MaxLvl
         /\ Width(w) \in Int /\ Width(w) <= MaxLvl
BY MapAssumption DEF Intervals, Width

\* One iteration looks at narrower intervals only.
LEMMA HalvesInside ==
    ASSUME NEW w \in Intervals, w[1] < w[2], NEW m, m = (w[1] + w[2]) \div 2
    PROVE  /\ m \in Nat /\ w[1] <= m /\ m < w[2]
           /\ <<m + 1, w[2]>> \in Intervals /\ Width(<<m + 1, w[2]>>) < Width(w)
           /\ <<w[1], m - 1>> \in Intervals /\ Width(<<w[1], m - 1>>) < Width(w)
<1>1. m \in Nat /\ w[1] <= m /\ m < w[2]
    BY IntervalRanges
<1>2. m + 1 \in 0..(MaxLvl + 1) /\ m - 1 \in -1..MaxLvl
    BY <1>1, IntervalRanges
<1>3. w[1] \in 0..(MaxLvl + 1) /\ w[2] \in -1..MaxLvl
    BY IntervalRanges
<1>4. w[2] - (m + 1) < w[2] - w[1] /\ (m - 1) - w[1] < w[2] - w[1]
    BY <1>1, IntervalRanges
<1>. QED
    BY <1>1, <1>2, <1>3, <1>4 DEF Intervals, Width

LEMMA HalvedLooksInside ==
    ASSUME NEW v, NEW g, NEW h, NEW w \in Intervals,
           \A u \in Intervals : Width(u) < Width(w) => g[u] = h[u]
    PROVE  Halved(g, v, w[1], w[2]) = Halved(h, v, w[1], w[2])
<1>1. CASE ~(w[1] < w[2])
    BY <1>1 DEF Halved
<1>2. CASE w[1] < w[2]
    <2> DEFINE m == (w[1] + w[2]) \div 2
    <2>1. g[<<m + 1, w[2]>>] = h[<<m + 1, w[2]>>] /\ g[<<w[1], m - 1>>] = h[<<w[1], m - 1>>]
        BY <1>2, HalvesInside
    <2>. QED
        BY <1>2, <2>1 DEF Halved
<1>. QED
    BY <1>1, <1>2

LEMMA HalvingSolvable ==
    ASSUME NEW v
    PROVE  \E g : g = Halving(g, v)
<1> DEFINE Widths == {n \in Nat : \E g : RightUpTo(g, v, n)}
<1>1. 0 \in Widths
    <2> DEFINE g == [w \in Intervals |-> w[1]]
    <2>1. ASSUME NEW w \in Intervals, Width(w) <= 0
          PROVE  g[w] = Halved(g, v, w[1], w[2])
        <3>1. ~(w[1] < w[2])
            BY <2>1, IntervalRanges DEF Width
        <3>2. g[w] = w[1]
            OBVIOUS
        <3>3. \A i, j, f : ~(i < j) => Halved(f, v, i, j) = i
            BY DEF Halved
        <3>. QED
            BY <3>1, <3>2, <3>3
    <2> HIDE DEF g
    <2>. QED
        BY <2>1 DEF RightUpTo
<1>2. ASSUME NEW n \in Nat, n \in Widths PROVE n + 1 \in Widths
    <2>1. PICK g : RightUpTo(g, v, n)
        BY <1>2
    <2> DEFINE h == Halving(g, v)
    <2>2. \A w \in Intervals : h[w] = Halved(g, v, w[1], w[2])
        BY DEF Halving
    <2> HIDE DEF h
    <2>3. \A w \in Intervals : Width(w) <= n => h[w] = g[w]
        BY <2>1, <2>2 DEF RightUpTo
    <2>4. ASSUME NEW w \in Intervals, Width(w) <= n + 1
          PROVE  h[w] = Halved(h, v, w[1], w[2])
        <3>1. \A u \in Intervals : Width(u) < Width(w) => Width(u) <= n
            BY <2>4, IntervalRanges
        <3>2. \A u \in Intervals : Width(u) < Width(w) => g[u] = h[u]
            BY <2>3, <3>1
        <3>3. Halved(g, v, w[1], w[2]) = Halved(h, v, w[1], w[2])
            BY <3>2, HalvedLooksInside
        <3>. QED
            BY <2>2, <3>3
    <2>. QED
        BY <2>4 DEF RightUpTo
<1>3. MaxLvl \in Widths
    <2> HIDE DEF Widths
    <2>. QED
        BY <1>1, <1>2, Induction, MapAssumption
<1>4. PICK g : RightUpTo(g, v, MaxLvl)
    BY <1>3
<1> DEFINE h == Halving(g, v)
<1>5. \A w \in Intervals : h[w] = g[w]
    BY <1>4, IntervalRanges DEF RightUpTo, Halving
<1>6. \A w \in Intervals : Halved(g, v, w[1], w[2]) = Halved(h, v, w[1], w[2])
    <2> HIDE DEF h
    <2>. QED
        BY <1>5, HalvedLooksInside
<1>7. h = Halving(h, v)
    BY Zenon, <1>6 DEF Halving
<1>. QED
    BY Zenon, <1>7

\* The equation of the recursive function, and the function itself.
LEMMA SearchEquation ==
    ASSUME NEW v, NEW w \in Intervals
    PROVE  Search(v)[w] = Halved(Search(v), v, w[1], w[2])
<1>1. Search(v) = Halving(Search(v), v)
    BY Zenon, HalvingSolvable DEF Search
<1>2. \A g : Halving(g, v)[w] = Halved(g, v, w[1], w[2])
    BY DEF Halving
<1>. QED
    BY Zenon, <1>1, <1>2

LEMMA AlnitakVal == \A v : alnitak_val(v) = Search(v)[<<0, MaxLvl>>]
BY DEF alnitak_val, Search, Halving

\* Bracketed intervals stand for levels of the contract, again by induction on
\* the width.
LEMMA BracketsInvert ==
    ASSUME NEW v \in Nat
    PROVE  \A w \in Intervals : Bracketed(v, w[1], w[2]) => Inverts(Search(v)[w], v)
<1> DEFINE Good(n) == \A w \in Intervals :
               Width(w) <= n /\ Bracketed(v, w[1], w[2]) => Inverts(Search(v)[w], v)
           Widths == {n \in Nat : Good(n)}
<1>1. ASSUME NEW w \in Intervals, Bracketed(v, w[1], w[2]), ~(w[1] < w[2])
      PROVE  Inverts(Search(v)[w], v)
    BY <1>1, SearchEquation, EndInverts DEF Halved
<1>2. 0 \in Widths
    <2>1. \A w \in Intervals : Width(w) <= 0 => ~(w[1] < w[2])
        BY IntervalRanges DEF Width
    <2>. QED
        BY <1>1, <2>1
<1>3. ASSUME NEW n \in Nat, n \in Widths PROVE n + 1 \in Widths
    <2> SUFFICES ASSUME NEW w \in Intervals, Width(w) <= n + 1,
                        Bracketed(v, w[1], w[2]), w[1] < w[2]
                 PROVE  Inverts(Search(v)[w], v)
        BY <1>1
    <2> DEFINE m == (w[1] + w[2]) \div 2
    <2>1. m \in Cells /\ w[1] <= m /\ m < w[2]
        BY MiddleInside DEF Bracketed
    <2>2. /\ <<m + 1, w[2]>> \in Intervals /\ Width(<<m + 1, w[2]>>) <= n
          /\ <<w[1], m - 1>> \in Intervals /\ Width(<<w[1], m - 1>>) <= n
        BY HalvesInside, IntervalRanges
    <2>3. Search(v)[w] = IF map[m] = v THEN m
                         ELSE IF map[m] < v THEN Search(v)[<<m + 1, w[2]>>]
                         ELSE Search(v)[<<w[1], m - 1>>]
        BY <2>1, SearchEquation DEF Halved, Lookup
    <2>4. map[m] \in Nat
        BY <2>1, Ranges
    <2> HIDE DEF m
    <2>5. CASE map[m] = v
        BY <2>1, <2>3, <2>5, FoundInverts
    <2>6. CASE map[m] < v
        <3>1. Bracketed(v, m + 1, w[2])
            BY <2>1, <2>6, DarkMiddle
        <3>2. Inverts(Search(v)[<<m + 1, w[2]>>], v)
            BY <1>3, <2>2, <3>1
        <3>. QED
            BY <2>3, <2>4, <2>6, <3>2
    <2>7. CASE map[m] > v
        <3>1. Bracketed(v, w[1], m - 1)
            BY <2>1, <2>7, BrightMiddle
        <3>2. Inverts(Search(v)[<<w[1], m - 1>>], v)
            BY <1>3, <2>2, <3>1
        <3>. QED
            BY <2>3, <2>4, <2>7, <3>2
    <2>. QED
        BY <2>4, <2>5, <2>6, <2>7
<1>4. MaxLvl \in Widths
    <2> HIDE DEF Widths
    <2>. QED
        BY <1>2, <1>3, Induction, Ranges
<1>. QED
    BY <1>4, IntervalRanges

\* alnitak_val() gives, for every intensity, the level that has it or one with
\* darker levels below and brighter ones above: what Emulator assumes of the
\* level AlnitakEmu::Connect() reports (alnitak_emu.cpp:66-82, 93).
THEOREM FunctionInverts == \A v \in Nat : Inverts(alnitak_val(v), v)
<1>1. <<0, MaxLvl>> \in Intervals
    BY Ranges DEF Intervals
<1>. QED
    BY <1>1, AllBracketed, BracketsInvert, AlnitakVal

-----------------------------------------------------------------------------
(* The loop.                                                               *)

\* The loop is in the state of a call of the recursive function whose value is
\* still the one asked for.
SearchInv ==
    /\ TypeOK
    /\ mid # None => mid \in Cells
    /\ ~done => /\ Bracketed(inten, a, b)
                /\ Search(inten)[<<a, b>>] = alnitak_val(inten)
    /\ done => Inverts(a, inten) /\ a = alnitak_val(inten)

LEMMA InitEstablishes == Init => SearchInv
<1> SUFFICES ASSUME Init PROVE SearchInv
    OBVIOUS
<1>1. TypeOK
    <2>1. 0 \in Levels /\ MaxLvl \in -1..MaxLvl
        BY Ranges DEF Levels
    <2>. QED
        BY <2>1 DEF Init, TypeOK
<1>. QED
    BY <1>1, AllBracketed, AlnitakVal DEF Init, SearchInv

LEMMA ProbeKeeps == SearchInv /\ Probe => SearchInv'
<1> SUFFICES ASSUME SearchInv, Probe PROVE SearchInv'
    OBVIOUS
<1> DEFINE m == Middle
           left == <<a, m - 1>>
           right == <<m + 1, b>>
<1>1. /\ a \in Levels /\ b \in -1..MaxLvl /\ a < b
      /\ inten \in Intensities /\ inten \in Nat
      /\ Bracketed(inten, a, b) /\ Search(inten)[<<a, b>>] = alnitak_val(inten)
    BY Ranges DEF SearchInv, TypeOK, Probe
<1>2. m \in Cells /\ a <= m /\ m < b /\ m \in Levels /\ m # None
    <2>1. m \in Cells /\ a <= m /\ m < b
        BY <1>1, MiddleInside DEF Middle
    <2>. QED
        BY <2>1, Ranges DEF None
<1>3. Lookup(m) = map[m] /\ map[m] \in Nat
    BY <1>2, Ranges DEF Lookup
<1>4. ~done /\ inten' = inten /\ mid' = m
    BY DEF Probe
<1>5. alnitak_val(inten) = IF map[m] = inten THEN m
                           ELSE IF map[m] < inten THEN Search(inten)[right]
                           ELSE Search(inten)[left]
    <2>1. <<a, b>> \in Intervals
        BY <1>1, Ranges DEF Intervals, Levels
    <2>2. <<a, b>>[1] = a /\ <<a, b>>[2] = b
        OBVIOUS
    <2>3. alnitak_val(inten) = Halved(Search(inten), inten, a, b)
        BY <1>1, <2>1, <2>2, SearchEquation
    <2>. QED
        BY <1>1, <1>3, <2>3 DEF Halved, Middle
<1>6. CASE Found(m)
    <2>1. a' = m /\ b' = b /\ done' /\ done' = TRUE /\ map[m] = inten
        BY <1>3, <1>6 DEF Found
    <2>2. Inverts(m, inten) /\ m = alnitak_val(inten)
        BY <1>1, <1>2, <1>5, <2>1, FoundInverts
    <2>. QED
        BY <1>1, <1>2, <1>4, <2>1, <2>2
        DEF SearchInv, TypeOK, Inverts, Near, Exact, Lookup, alnitak_val
<1>7. CASE TooDark(m)
    <2>1. a' = m + 1 /\ b' = b /\ done' = done /\ map[m] < inten
        BY <1>3, <1>7 DEF TooDark
    <2>2. Bracketed(inten, m + 1, b)
        BY <1>1, <1>2, <2>1, DarkMiddle
    <2>3. Search(inten)[<<m + 1, b>>] = alnitak_val(inten)
        BY <1>1, <1>3, <1>5, <2>1
    <2>. QED
        BY <1>1, <1>2, <1>4, <2>1, <2>2, <2>3 DEF SearchInv, TypeOK, Bracketed
<1>8. CASE TooBright(m)
    <2>1. b' = m - 1 /\ a' = a /\ done' = done /\ map[m] > inten
        BY <1>3, <1>8 DEF TooBright
    <2>2. Bracketed(inten, a, m - 1)
        BY <1>1, <1>2, <2>1, BrightMiddle
    <2>3. Search(inten)[<<a, m - 1>>] = alnitak_val(inten)
        BY <1>1, <1>3, <1>5, <2>1
    <2>. QED
        BY <1>1, <1>2, <1>4, <2>1, <2>2, <2>3 DEF SearchInv, TypeOK, Bracketed
<1>. QED
    BY <1>6, <1>7, <1>8 DEF Probe

LEMMA ReturnKeeps == SearchInv /\ Return => SearchInv'
<1> SUFFICES ASSUME SearchInv, Return PROVE SearchInv'
    OBVIOUS
<1>1. /\ ~done /\ ~(a < b) /\ done' = TRUE
      /\ inten' = inten /\ a' = a /\ b' = b /\ mid' = mid
    BY DEF Return
<1>2. inten \in Nat /\ Bracketed(inten, a, b)
    BY <1>1, Ranges DEF SearchInv, TypeOK
<1>3. Inverts(a, inten)
    BY <1>1, <1>2, EndInverts
<1>4. a = alnitak_val(inten)
    <2>1. <<a, b>> \in Intervals
        BY <1>2, Ranges DEF Bracketed, Intervals, Levels
    <2>2. <<a, b>>[1] = a /\ <<a, b>>[2] = b
        OBVIOUS
    <2>3. Search(inten)[<<a, b>>] = Halved(Search(inten), inten, a, b)
        BY <2>1, <2>2, SearchEquation
    <2>. QED
        BY <1>1, <2>3 DEF SearchInv, Halved
<1>. QED
    BY <1>1, <1>3, <1>4 DEF SearchInv, TypeOK

LEMMA NextKeeps == SearchInv /\ [Next]_vars => SearchInv'
<1> SUFFICES ASSUME SearchInv, [Next]_vars PROVE SearchInv'
    OBVIOUS
<1>1. CASE Probe
    BY <1>1, ProbeKeeps
<1>2. CASE Return
    BY <1>2, ReturnKeeps
<1>3. CASE UNCHANGED vars
    BY <1>3 DEF vars, SearchInv, TypeOK
<1>. QED
    BY <1>1, <1>2, <1>3 DEF Next

\* The induction.
THEOREM SearchInvariance == Spec => []SearchInv
<1>. QED
    BY InitEstablishes, NextKeeps, PTL DEF Spec

-----------------------------------------------------------------------------

\* The variables keep their ranges; in particular a, which the code returns
\* as an unsigned char, stays a level.
THEOREM TypeCorrect == Spec => []TypeOK
<1>1. SearchInv => TypeOK
    BY DEF SearchInv
<1>. QED
    BY <1>1, SearchInvariance, PTL

\* The search never reads the cell past the end, whatever the table holds,
\* although usbd_val() does (alnitak_emu.cpp:61-74).
THEOREM SearchStaysInside == Spec => []ReadsInsideArray
<1>1. SearchInv => ReadsInsideArray
    BY DEF SearchInv, ReadsInsideArray
<1>. QED
    BY <1>1, SearchInvariance, PTL

\* Every intensity is mapped to a level that is exact when the table has the
\* intensity, and has darker cells below it and brighter ones above it when
\* it does not (alnitak_emu.cpp:66-82).
THEOREM SearchInverts == Spec => []InverseOfUsbdVal
<1>1. SearchInv => InverseOfUsbdVal
    BY DEF SearchInv, Inverts, InverseOfUsbdVal
<1>. QED
    BY <1>1, SearchInvariance, PTL

\* The loop returns what the recursive function gives, so that the other
\* modules may call the function (alnitak_emu.cpp:66-82).
THEOREM LoopIsFunction == Spec => []SameAsFunction
<1>1. SearchInv => SameAsFunction
    BY DEF SearchInv, SameAsFunction
<1>. QED
    BY <1>1, SearchInvariance, PTL

\* Each iteration leaves less than half of the interval to search, which
\* bounds their number for every table (alnitak_emu.cpp:71-80).
THEOREM SearchHalves == Spec => IntervalHalves
<1>1. SearchInv /\ [Next]_vars => [done' \/ 2 * (b' - a') < b - a]_vars
    <2> SUFFICES ASSUME SearchInv, Next, ~done'
                 PROVE  2 * (b' - a') < b - a
        BY DEF Return
    <2>1. Probe
        BY DEF Next, Return
    <2>2. a \in Nat /\ b \in Int /\ a < b
        BY <2>1, Ranges DEF SearchInv, TypeOK, Levels, Probe
    <2>3. (a' = Middle + 1 /\ b' = b) \/ (a' = a /\ b' = Middle - 1)
        BY <2>1 DEF Probe, Found, TooDark, TooBright
    <2>. QED
        BY <2>2, <2>3 DEF Middle
<1>. QED
    BY <1>1, SearchInvariance, PTL DEF Spec, IntervalHalves

\* A level survives being set, read back from the dimmer and mapped again.
LEMMA InverseRoundTrips == SearchInv => RoundTrip
<1> SUFFICES ASSUME SearchInv, done,
                    NEW lvl \in Levels, inten = usbd_val(lvl),
                    lvl \in Cells \/ PastEnd > map[MaxLvl - 1]
             PROVE  a = lvl
    BY DEF RoundTrip
<1>1. a \in Levels /\ a \in Nat /\ inten \in Nat /\ lvl \in Nat
    BY Ranges DEF SearchInv, TypeOK, Levels
<1>2. InverseOfUsbdVal
    BY DEF SearchInv, Inverts, InverseOfUsbdVal
<1>3. CASE lvl \in Cells
    <2>1. inten = map[lvl]
        BY <1>3, Ranges DEF usbd_val, Lookup
    <2>2. ~(lvl < a) /\ ~(lvl > a)
        BY <1>1, <1>2, <1>3, <2>1 DEF InverseOfUsbdVal, Near
    <2>. QED
        BY <1>1, <2>2
<1>4. CASE lvl \notin Cells
    <2>1. lvl = MaxLvl /\ inten = PastEnd
        BY <1>4, Ranges DEF usbd_val, Lookup, Cells
    <2>2. MaxLvl - 1 \in Cells /\ map[MaxLvl - 1] < inten /\ map[MaxLvl - 1] \in Nat
        BY <1>4, <2>1, Ranges DEF Cells
    <2>3. \A i \in Cells : i = MaxLvl - 1 \/ map[i] < map[MaxLvl - 1]
        BY <2>2, Increasing, Ranges
    <2>4. \A i \in Cells : map[i] < inten
        BY <1>1, <2>2, <2>3, Ranges
    <2>. QED
        BY <1>2, <2>1, <2>4 DEF InverseOfUsbdVal
<1>. QED
    BY <1>3, <1>4

\* The level of a B request is the level a J request reports after the panel
\* was disconnected and connected again (alnitak_emu.cpp:61-82, 93, 137).
THEOREM LevelsRoundTrip == Spec => []RoundTrip
<1>. QED
    BY InverseRoundTrips, SearchInvariance, PTL

-----------------------------------------------------------------------------
(* The polynomial in limbs is the polynomial.                              *)

\* A number in two limbs, and the number.
IsPair(n) == n[1] \in Nat /\ n[2] \in Nat /\ n[2] < Limb
Value(n) == n[1] * Limb + n[2]

\* Divisor in parts.
Factors == {27, 625, 289}

\* Quotient and remainder, for the numbers the table is computed with.
LEMMA LimbDivision ==
    ASSUME NEW x \in Nat, NEW d \in Factors \cup {Limb}
    PROVE  \E q \in Nat, r \in Nat :
               r < d /\ x = d * q + r /\ x \div d = q /\ x % d = r
<1> DEFINE Divides(e) == /\ x \div e \in Nat /\ (x % e) \in Nat /\ (x % e) < e
                         /\ x = e * (x \div e) + (x % e)
<1>1. Divides(27)
    OBVIOUS
<1>2. Divides(625)
    OBVIOUS
<1>3. Divides(289)
    OBVIOUS
<1>4. Divides(65536)
    OBVIOUS
<1>5. d = 27 \/ d = 625 \/ d = 289 \/ d = 65536
    BY DEF Factors, Limb
<1> HIDE DEF Divides
<1>6. Divides(d)
    BY <1>1, <1>2, <1>3, <1>4, <1>5
<1>. QED
    BY <1>6 DEF Divides

LEMMA NormValue ==
    ASSUME NEW h \in Nat, NEW l \in Nat
    PROVE  IsPair(Norm(h, l)) /\ Value(Norm(h, l)) = h * Limb + l
<1>1. PICK q \in Nat, r \in Nat :
          r < Limb /\ l = Limb * q + r /\ l \div Limb = q /\ l % Limb = r
    BY LimbDivision
<1>2. Norm(h, l) = <<h + q, r>>
    BY <1>1 DEF Norm
<1>3. Norm(h, l)[1] = h + q /\ Norm(h, l)[2] = r
    BY <1>2
<1>4. (h + q) * Limb + r = h * Limb + l
    BY <1>1 DEF Limb
<1>. QED
    BY <1>1, <1>3, <1>4 DEF IsPair, Value

LEMMA TimesValue ==
    ASSUME NEW n, IsPair(n), NEW k \in Nat
    PROVE  IsPair(Times(n, k)) /\ Value(Times(n, k)) = Value(n) * k
<1>1. n[1] * k \in Nat /\ n[2] * k \in Nat
    BY DEF IsPair
<1>2. \A x, y \in Nat : (x * k) * Limb + y * k = (x * Limb + y) * k
    BY DEF Limb
<1>3. (n[1] * k) * Limb + n[2] * k = (n[1] * Limb + n[2]) * k
    BY <1>2 DEF IsPair
<1>. QED
    BY <1>1, <1>3, NormValue DEF Times, Value

\* Dividing by one of the factors, as bounds on the quotient.
LEMMA OverValue ==
    ASSUME NEW n, IsPair(n), NEW d \in Factors
    PROVE  /\ IsPair(Over(n, d))
           /\ d * Value(Over(n, d)) <= Value(n)
           /\ Value(n) < d * Value(Over(n, d)) + d
<1>1. PICK x \in Nat, y \in Nat : n[1] = x /\ n[2] = y /\ y < Limb
    BY DEF IsPair
<1>2. PICK q \in Nat, r \in Nat :
          r < d /\ x = d * q + r /\ x \div d = q /\ x % d = r
    BY LimbDivision
<1>3. PICK z \in Nat : z = r * Limb + y
    BY <1>1 DEF Limb
<1>4. PICK s \in Nat, t \in Nat :
          t < d /\ z = d * s + t /\ z \div d = s /\ z % d = t
    BY LimbDivision
<1>5. Over(n, d) = <<q, s>>
    BY <1>1, <1>2, <1>3, <1>4 DEF Over
<1>6. Over(n, d)[1] = q /\ Over(n, d)[2] = s
    BY <1>5
<1>7. d = 27 \/ d = 625 \/ d = 289
    BY DEF Factors
<1>8. s < Limb
    BY <1>1, <1>2, <1>3, <1>4, <1>7 DEF Limb
<1>9. d * (q * Limb + s) <= x * Limb + y
    BY <1>2, <1>3, <1>4, <1>7 DEF Limb
<1>10. x * Limb + y < d * (q * Limb + s) + d
    BY <1>2, <1>3, <1>4, <1>7 DEF Limb
<1>. QED
    BY <1>1, <1>6, <1>8, <1>9, <1>10 DEF IsPair, Value

\* 256 x^4, and the product of the factors.
Quartic(x) == 256 * (x * x * x * x)
Divisor == 27 * 625 * 289 * 289

LEMMA QuarticRange ==
    ASSUME NEW x \in 0..255
    PROVE  Quartic(x) \in Nat /\ Quartic(x) <= 768 * Divisor
<1>1. x \in Nat /\ x <= 255
    OBVIOUS
<1>2. PICK y \in Nat : y = x * x /\ y <= 65025
    <2>1. x * x \in Nat /\ x * x <= 255 * x
        BY <1>1
    <2>. QED
        BY <1>1, <2>1
<1>3. y * y \in Nat /\ y * y <= 65025 * y
    BY <1>2
<1>4. x * x * x * x = y * y
    BY <1>1, <1>2
<1>5. Quartic(x) = 256 * (y * y)
    BY <1>4 DEF Quartic
<1>. QED
    BY <1>2, <1>3, <1>5 DEF Divisor

LEMMA QuarticIncreases ==
    ASSUME NEW i \in 0..255, NEW j \in 0..255, i < j
    PROVE  Quartic(i) <= Quartic(j)
<1>1. i \in Nat /\ j \in Nat /\ i <= j
    OBVIOUS
<1>2. PICK x \in Nat, y \in Nat : x = i * i /\ y = j * j /\ x <= y
    <2>1. i * i \in Nat /\ j * j \in Nat /\ i * i <= i * j /\ i * j <= j * j
        BY <1>1
    <2>2. i * j \in Nat
        BY <1>1
    <2>. QED
        BY <2>1, <2>2
<1>3. x * x <= x * y /\ x * y <= y * y
    BY <1>2
<1>4. x * x \in Nat /\ x * y \in Nat /\ y * y \in Nat
    OBVIOUS
<1>5. i * i * i * i = x * x /\ j * j * j * j = y * y
    BY <1>1, <1>2
<1>. QED
    BY <1>3, <1>4, <1>5 DEF Quartic

LEMMA QuarticConvex ==
    ASSUME NEW x \in 1..254
    PROVE  Quartic(x + 1) + Quartic(x - 1) >= 2 * Quartic(x)
<1>1. x \in Int
    OBVIOUS
<1>2. Quartic(x + 1) + Quartic(x - 1) = 2 * Quartic(x) + 256 * (12 * (x * x) + 2)
    BY <1>1 DEF Quartic
<1>3. x * x \in Nat /\ Quartic(x) \in Int
    BY <1>1 DEF Quartic
<1>. QED
    BY <1>2, <1>3

\* usbd_poly() is x + floor(256 x^4 / 1409416875), the floor given by its
\* bounds; the cap at 1023 never applies.
LEMMA PolyValue ==
    ASSUME NEW x \in 0..255
    PROVE  \E q \in Nat : /\ usbd_poly(x) = x + q
                          /\ Divisor * q <= Quartic(x)
                          /\ Quartic(x) < Divisor * (q + 1)
<1> DEFINE cube == Norm(0, x * x * x)
           product == Times(Times(cube, x), 256)
           over1 == Over(product, 27)
           over2 == Over(over1, 625)
           over3 == Over(over2, 289)
           over4 == Over(over3, 289)
<1>1. x \in Nat /\ x * x * x \in Nat
    OBVIOUS
<1>2. IsPair(cube) /\ Value(cube) = x * x * x
    <2>1. 0 * Limb + x * x * x = x * x * x
        BY <1>1 DEF Limb
    <2>. QED
        BY <1>1, <2>1, NormValue
<1>3. IsPair(product) /\ Value(product) = Quartic(x)
    <2> HIDE DEF cube
    <2>1. IsPair(Times(cube, x)) /\ Value(Times(cube, x)) = x * x * x * x
        BY <1>1, <1>2, TimesValue
    <2>2. \A n : IsPair(n) => /\ IsPair(Times(n, 256))
                               /\ Value(Times(n, 256)) = Value(n) * 256
        BY TimesValue
    <2>3. IsPair(product) /\ Value(product) = (x * x * x * x) * 256
        BY <2>1, <2>2
    <2>4. x * x * x * x \in Nat
        BY <1>1
    <2>. QED
        BY <2>3, <2>4 DEF Quartic
<1> HIDE DEF product
<1>4. IsPair(over1) /\ 27 * Value(over1) <= Value(product) /\ Value(product) < 27 * Value(over1) + 27
    BY <1>3, OverValue DEF Factors
<1> HIDE DEF over1
<1>5. IsPair(over2) /\ 625 * Value(over2) <= Value(over1) /\ Value(over1) < 625 * Value(over2) + 625
    BY <1>4, OverValue DEF Factors
<1> HIDE DEF over2
<1>6. IsPair(over3) /\ 289 * Value(over3) <= Value(over2) /\ Value(over2) < 289 * Value(over3) + 289
    BY <1>5, OverValue DEF Factors
<1> HIDE DEF over3
<1>7. IsPair(over4) /\ 289 * Value(over4) <= Value(over3) /\ Value(over3) < 289 * Value(over4) + 289
    BY <1>6, OverValue DEF Factors
<1>8. usbd_poly(x) = IF x + over4[2] < 1023 THEN x + over4[2] ELSE 1023
    BY DEF usbd_poly, over1, over2, over3, product
<1> HIDE DEF over4
<1>9. \A n : IsPair(n) => Value(n) \in Nat
    BY DEF IsPair, Value, Limb
<1>10. PICK q \in Nat : /\ q = Value(over4)
                        /\ Divisor * q <= Quartic(x)
                        /\ Quartic(x) < Divisor * (q + 1)
    <2>1. PICK v1 \in Nat, v2 \in Nat, v3 \in Nat, v4 \in Nat :
              v1 = Value(over1) /\ v2 = Value(over2) /\ v3 = Value(over3) /\ v4 = Value(over4)
        BY <1>4, <1>5, <1>6, <1>7, <1>9
    <2>2. PICK p \in Nat : p = Quartic(x)
        BY <1>3, <1>9
    <2>3. /\ 27 * v1 <= p /\ p < 27 * v1 + 27
          /\ 625 * v2 <= v1 /\ v1 < 625 * v2 + 625
          /\ 289 * v3 <= v2 /\ v2 < 289 * v3 + 289
          /\ 289 * v4 <= v3 /\ v3 < 289 * v4 + 289
        BY <1>3, <1>4, <1>5, <1>6, <1>7, <2>1, <2>2
    <2>4. 1409416875 * v4 <= p /\ p < 1409416875 * (v4 + 1)
        BY <2>3
    <2>. QED
        BY <2>1, <2>2, <2>4 DEF Divisor
<1>11. q <= 768
    BY <1>10, QuarticRange DEF Divisor
<1>12. over4[2] = q
    <2>1. over4[1] \in Nat /\ over4[2] \in Nat /\ q = over4[1] * 65536 + over4[2]
        BY <1>7, <1>10 DEF IsPair, Value, Limb
    <2>. QED
        BY <2>1, <1>11
<1>13. usbd_poly(x) = x + q
    BY <1>8, <1>11, <1>12
<1>. QED
    BY <1>10, <1>13

LEMMA PolyRange == \A x \in 0..255 : usbd_poly(x) \in Nat
BY PolyValue

LEMMA PolyLowest == usbd_poly(0) = 0 /\ usbd_poly(1) = 1
<1>1. Quartic(0) = 0 /\ Quartic(1) = 256
    BY DEF Quartic
<1>2. PICK q \in Nat : usbd_poly(0) = 0 + q /\ Divisor * q <= Quartic(0)
    BY PolyValue
<1>3. PICK r \in Nat : usbd_poly(1) = 1 + r /\ Divisor * r <= Quartic(1)
    BY PolyValue
<1>. QED
    BY <1>1, <1>2, <1>3 DEF Divisor

LEMMA PolyIncreases ==
    ASSUME NEW i \in 0..255, NEW j \in 0..255, i < j
    PROVE  usbd_poly(i) < usbd_poly(j)
<1>1. PICK q \in Nat : usbd_poly(i) = i + q /\ Divisor * q <= Quartic(i)
    BY PolyValue
<1>2. PICK r \in Nat : usbd_poly(j) = j + r /\ Quartic(j) < Divisor * (r + 1)
    BY PolyValue
<1>3. PICK c \in Nat, d \in Nat : c = Quartic(i) /\ d = Quartic(j) /\ c <= d
    BY QuarticRange, QuarticIncreases
<1>4. q <= r
    BY <1>1, <1>2, <1>3 DEF Divisor
<1>. QED
    BY <1>1, <1>2, <1>4

LEMMA PolyStepsGrow ==
    ASSUME NEW x \in 1..254
    PROVE  usbd_poly(x + 1) - usbd_poly(x) >= usbd_poly(x) - usbd_poly(x - 1) - 1
<1>1. x \in 0..255 /\ x + 1 \in 0..255 /\ x - 1 \in 0..255
    OBVIOUS
<1>2. PICK q \in Nat : usbd_poly(x) = x + q /\ Divisor * q <= Quartic(x)
    BY <1>1, PolyValue
<1>3. PICK r \in Nat : usbd_poly(x + 1) = (x + 1) + r /\ Quartic(x + 1) < Divisor * (r + 1)
    BY <1>1, PolyValue
<1>4. PICK s \in Nat : usbd_poly(x - 1) = (x - 1) + s /\ Quartic(x - 1) < Divisor * (s + 1)
    BY <1>1, PolyValue
<1>5. PICK c \in Nat, d \in Nat, e \in Nat :
          c = Quartic(x) /\ d = Quartic(x + 1) /\ e = Quartic(x - 1) /\ d + e >= 2 * c
    BY <1>1, QuarticRange, QuarticConvex
<1>6. r + s >= 2 * q - 1
    BY <1>2, <1>3, <1>4, <1>5 DEF Divisor
<1>. QED
    BY <1>2, <1>3, <1>4, <1>6

-----------------------------------------------------------------------------
(* The table the program fills in.                                         *)

RealTable == MaxLvl = 255 /\ map = Table /\ PastEnd = StoredPastEnd

\* The constructor's table is what MapAssumption says: it starts at 0 and
\* increases, on past its end (alnitak_emu.cpp:45-59).
THEOREM TableIncreases ==
    /\ Table \in [0..254 -> Nat] /\ Table[0] = 0 /\ StoredPastEnd \in Nat
    /\ \A i, j \in 0..254 : i < j => Table[i] < Table[j]
    /\ \A i \in 0..254 : Table[i] < StoredPastEnd
<1>1. \A i \in 0..254 : i \in 0..255 /\ i < 255 /\ Table[i] = usbd_poly(i)
    BY DEF Table
<1>2. 255 \in 0..255 /\ 0 \in 0..254
    OBVIOUS
<1>3. Table \in [0..254 -> Nat] /\ StoredPastEnd \in Nat
    BY <1>1, <1>2, PolyRange DEF Table, StoredPastEnd
<1>4. ASSUME NEW i \in 0..254, NEW j \in 0..254, i < j
      PROVE  Table[i] < Table[j]
    <2>1. usbd_poly(i) < usbd_poly(j)
        BY <1>1, <1>4, PolyIncreases
    <2>. QED
        BY <1>1, <2>1
<1>5. ASSUME NEW i \in 0..254 PROVE Table[i] < StoredPastEnd
    <2>1. PICK last \in 0..255 : last = 255
        BY <1>2
    <2>2. i \in 0..255 /\ i < last
        BY <2>1
    <2>3. usbd_poly(i) < usbd_poly(last)
        BY <2>2, PolyIncreases
    <2>. QED
        BY <1>1, <2>1, <2>3 DEF StoredPastEnd
<1>6. Table[0] = 0
    BY <1>1, <1>2, PolyLowest
<1>. QED
    BY <1>3, <1>4, <1>5, <1>6

LEMMA RealLookup ==
    ASSUME RealTable
    PROVE  /\ Cells = 0..254 /\ Levels = 0..255
           /\ \A lvl \in 0..255 : usbd_val(lvl) = usbd_poly(lvl) /\ Lookup(lvl) = usbd_poly(lvl)
<1>1. Cells = 0..254 /\ Levels = 0..255
    BY DEF RealTable, Cells, Levels
<1>2. \A lvl \in 0..254 : Lookup(lvl) = usbd_poly(lvl)
    BY <1>1 DEF RealTable, Lookup, Table
<1>3. Lookup(255) = usbd_poly(255)
    BY <1>1 DEF RealTable, Lookup, StoredPastEnd
<1>4. \A lvl \in 0..255 : lvl \in 0..254 \/ lvl = 255
    OBVIOUS
<1>. QED
    BY <1>1, <1>2, <1>3, <1>4 DEF usbd_val, RealTable

\* With the program's own table each of the 256 levels, 255 and the cell past
\* the end included, is the level its intensity is read back as.
THEOREM EveryLevelReadBack ==
    ASSUME RealTable
    PROVE  \A lvl \in Levels : alnitak_val(usbd_val(lvl)) = lvl
<1> SUFFICES ASSUME NEW lvl \in Levels PROVE alnitak_val(usbd_val(lvl)) = lvl
    OBVIOUS
<1> DEFINE lvl2 == alnitak_val(usbd_val(lvl))
<1>1. lvl \in 0..255 /\ usbd_val(lvl) = usbd_poly(lvl) /\ usbd_val(lvl) \in Nat
    BY RealLookup, PolyRange
<1>2. Inverts(lvl2, usbd_val(lvl))
    BY <1>1, FunctionInverts
<1> HIDE DEF lvl2
<1>3. lvl2 \in 0..255
    BY <1>2, RealLookup DEF Inverts
<1>4. CASE lvl \in 0..254
    <2>1. lvl \in Cells /\ map[lvl] = usbd_val(lvl)
        BY <1>4, RealLookup DEF usbd_val, Lookup, RealTable
    <2>2. ~(lvl < lvl2) /\ ~(lvl > lvl2)
        BY <1>1, <1>2, <2>1 DEF Inverts, Near
    <2>. QED
        BY <1>1, <1>3, <2>2 DEF lvl2
<1>5. CASE lvl = 255
    <2>1. usbd_val(lvl) = StoredPastEnd
        BY <1>1, <1>5 DEF StoredPastEnd
    <2>2. \A i \in Cells : map[i] < usbd_val(lvl)
        <3>1. Cells = 0..254 /\ map = Table
            BY RealLookup DEF RealTable
        <3>2. \A i \in 0..254 : Table[i] < StoredPastEnd
            BY TableIncreases
        <3>. QED
            BY <2>1, <3>1, <3>2
    <2>3. lvl2 = MaxLvl
        BY <1>2, <2>2 DEF Inverts
    <2>. QED
        BY <1>5, <2>3 DEF lvl2, RealTable
<1>. QED
    BY <1>1, <1>4, <1>5

\* No lit panel is reported at level 0: the second cell of the table holds 1
\* (alnitak_emu.cpp:45-53, 66-82).
THEOREM LitAboveZero ==
    ASSUME RealTable
    PROVE  Spec => []NoLitPanelAtZero
<1>1. SearchInv => NoLitPanelAtZero
    <2> SUFFICES ASSUME SearchInv, done, inten > 0 PROVE a > 0
        BY DEF NoLitPanelAtZero
    <2>1. a \in Nat /\ inten \in Nat /\ Near(a, inten)
        BY Ranges DEF SearchInv, TypeOK, Inverts, Levels
    <2>2. 0 \in Cells /\ 1 \in Cells /\ map[0] = 0 /\ map[1] = 1
        BY RealLookup, PolyLowest DEF RealTable, Table
    <2>. QED
        BY <2>1, <2>2 DEF Near
<1>. QED
    BY <1>1, SearchInvariance, PTL

\* The steps of the table grow with the level, one unit of rounding aside, up
\* to the step into the cell past its end (alnitak_emu.cpp:49-53).
THEOREM StepsGrow ==
    ASSUME RealTable
    PROVE  Spec => []FinerControlBelow
<1>1. SearchInv => FinerControlBelow
    <2> SUFFICES ASSUME SearchInv, done, a \in 1..(MaxLvl - 1)
                 PROVE  usbd_val(a + 1) - usbd_val(a) >= usbd_val(a) - usbd_val(a - 1) - 1
        BY DEF FinerControlBelow
    <2>1. a \in 1..254
        BY DEF RealTable
    <2>2. a + 1 \in 0..255 /\ a \in 0..255 /\ a - 1 \in 0..255
        BY <2>1
    <2>. QED
        BY <2>1, <2>2, RealLookup, PolyStepsGrow
<1>. QED
    BY <1>1, SearchInvariance, PTL
=============================================================================
