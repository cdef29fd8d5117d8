------------------------- MODULE SharedPanelProofs --------------------------
(***************************************************************************)
(* Two processes over one panel, proved for every panel, table, command    *)
(* line and interleaving: no stored intensity is left without a SETSTATE,  *)
(* and a process alone with the panel shows, and does, what it says.       *)
(***************************************************************************)
EXTENDS SharedPanel, TLAPS

\* A call of either object, by either process.
ObjectStep(p) ==
    \/ Construct(p) \/ Destruct(p)
    \/ Opens(p) \/ GetInten(p) \/ GetIntenFails(p)
    \/ \E arg \in Nat : SetBrightness(p, arg)
    \/ \E on \in BOOLEAN : LightOn(p, on)
    \/ Store(p) \/ Go(p) \/ Poll(p)
    \/ \E to \in {"idle", "drop"} : Fails(p, to)
    \/ Killed(p)

objects == <<dev, object, pc, call, cut>>

Calls == [op : {"none", "SetBrightness", "LightOn"}, inten : Int]

\* A running call, or one that failed and has not been cleared up after, holds
\* a handle.
Typed ==
    /\ TypeOK
    /\ call \in [Process -> Calls]
    /\ \A p \in Process : pc[p] \in Exchanging \cup {"drop"} => open[p]

Places == {"none", "idle", "drop"} \cup Exchanging

-----------------------------------------------------------------------------
(* Operators.                                                              *)

LEMMA Others == \A p \in Process : Other(p) \in Process /\ Other(p) # p
                                   /\ \A q \in Process : q = p \/ q = Other(p)
BY DEF Process, Other

LEMMA Ranges ==
    /\ Intensity \subseteq Register
    /\ Register \subseteq Nat
    /\ DefaultBrightness \in Register
    /\ 0 \in Register
    /\ MaxInten \in Nat
BY PanelAssumption DEF Intensity, Register

LEMMA DarkOrLit == \A v \in Register : (v > 0) = TRUE \/ (v = 0 /\ (v > 0) = FALSE)
BY PanelAssumption DEF Register

LEMMA SteadyIsDevice == \A v \in Register : Steady(v) \in Device
BY DEF Steady, Device

LEMMA ArriveIsDevice == \A d \in Device : Arrive(d) \in Device
BY DEF Arrive, Steady, Device

LEMMA TwoBytesIsRegister == \A n \in Int : TwoBytes(n) \in Register
BY PanelAssumption DEF TwoBytes, Register

LEMMA TwoBytesFit == \A n \in Register : TwoBytes(n) = n
BY PanelAssumption DEF TwoBytes, Register

LEMMA ClampIsRegister == \A arg \in Nat : Clamp(arg) \in Register
BY PanelAssumption DEF Clamp, Register

LEMMA UsbdValIsNat == \A lvl \in Nat : usbd_val(lvl) \in Nat
BY MapAssumption DEF usbd_val, Lookup

LEMMA LevelsAreNat == Asked \subseteq Nat
BY SharedAssumption, MapAssumption DEF Levels

\* What a command line asks for is a brightness, or nothing.
LEMMA JobsRange == AacmdJobs \cup UsbdctrlJobs \subseteq Nat \cup {Query}
<1>1. Numbers \subseteq Nat
    BY SharedAssumption
<1>2. ASSUME NEW j \in AacmdJobs PROVE j \in Nat
    <2>1. j = 0 \/ \E n \in Numbers : j = usbd_val(n)
        BY DEF AacmdJobs
    <2>. QED
        BY <1>1, <2>1, UsbdValIsNat
<1>3. \A n \in Numbers : AsInt(n) \in Int
    BY <1>1, SharedAssumption DEF AsInt
<1>4. UsbdctrlJobs \subseteq Nat \cup {Query}
    BY <1>3 DEF UsbdctrlJobs
<1>. QED
    BY <1>2, <1>4

LEMMA StoredIsDevice ==
    ASSUME Typed, NEW p \in Process
    PROVE  Stored(p) \in Device /\ Started \in Device
<1>1. TwoBytes(call[p].inten) \in Register
    BY TwoBytesIsRegister DEF Typed, Calls
<1>. QED
    BY <1>1 DEF Typed, TypeOK, Device, Stored, Started

LEMMA InterruptedIsDevice ==
    ASSUME Typed, NEW p \in Process
    PROVE  Interrupted(p) \subseteq Device
BY StoredIsDevice DEF Interrupted, Typed, TypeOK

-----------------------------------------------------------------------------
(* Reports.                                                                *)

LEMMA OneInOneOut ==
    ASSUME NEW S, NEW s \in Seq(S), NEW a \in S
    PROVE  /\ Tail(Append(s, a)) \in Seq(S)
           /\ Len(Tail(Append(s, a))) = Len(s)
OBVIOUS

LEMMA LatestKept ==
    ASSUME NEW S, NEW s \in Seq(S), NEW a \in S, Len(s) <= Buffers
    PROVE  /\ Latest(Append(s, a)) \in Seq(S)
           /\ Len(Latest(Append(s, a))) <= Buffers
BY SharedAssumption DEF Latest

\* A process with nothing in its queue reads the answer to its own command.
LEMMA NothingWaits ==
    ASSUME NEW a
    PROVE  Tail(Append(<<>>, a)) = <<>> /\ Head(Append(<<>>, a)) = a
OBVIOUS

\* The queues of two handles.
QueuesTyped ==
    /\ queue \in [Process -> Seq(BOOLEAN)]
    /\ \A p \in Process : Len(queue[p]) <= IF open[p] THEN Buffers ELSE 0

LEMMA ExchangeTyped ==
    ASSUME Typed, NEW p \in Process, open[p], NEW answer \in BOOLEAN,
           Exchange(p, answer), UNCHANGED open
    PROVE  QueuesTyped' /\ late' = late
<1>0. queue \in [Process -> Seq(BOOLEAN)] /\ QueuesTyped
    BY DEF Typed, TypeOK, QueuesTyped
<1>1. ASSUME NEW q \in Process
      PROVE  /\ queue'[q] \in Seq(BOOLEAN)
             /\ Len(queue'[q]) <= IF open[q] THEN Buffers ELSE 0
    <2>1. CASE q = p
        <3>1. queue'[q] = Tail(Append(queue[q], answer))
            BY <2>1 DEF Exchange
        <3>. QED
            BY <1>0, <2>1, <3>1, OneInOneOut DEF QueuesTyped
    <2>2. CASE q # p /\ open[q]
        <3>1. queue'[q] = Latest(Append(queue[q], answer))
            BY <2>2 DEF Exchange
        <3>2. queue[q] \in Seq(BOOLEAN) /\ Len(queue[q]) <= Buffers
            BY <1>0, <2>2 DEF QueuesTyped
        <3>. QED
            BY <2>2, <3>1, <3>2, LatestKept
    <2>3. CASE q # p /\ ~open[q]
        <3>1. queue'[q] = queue[q]
            BY <2>3 DEF Exchange
        <3>. QED
            BY <1>0, <2>3, <3>1 DEF QueuesTyped
    <2>. QED
        BY <2>1, <2>2, <2>3
<1>2. queue' = [q \in Process |-> queue'[q]] /\ late' = late
    BY DEF Exchange
<1>. QED
    BY <1>1, <1>2 DEF QueuesTyped

\* A handle is closed with what it keeps.
LEMMA ClosedTyped ==
    ASSUME Typed, NEW p \in Process, Closed(p)
    PROVE  QueuesTyped' /\ open' \in [Process -> BOOLEAN]
BY DEF Closed, QueuesTyped, Typed, TypeOK

LEMMA MissedIsTyped ==
    ASSUME Typed, AnswerIsMissed
    PROVE  late' \in 0..MaxLate /\ clean' \in [Process -> BOOLEAN]
BY SharedAssumption DEF AnswerIsMissed, Typed, TypeOK

-----------------------------------------------------------------------------

LEMMA NextSplits ==
    ASSUME Typed, [Next]_vars
    PROVE  \/ \E p \in Process : ObjectStep(p)
           \/ Disconnects
           \/ PanelSettles
           \/ LateAnswer
           \/ UNCHANGED objects
<1>1. CASE Emulator
    <2>1. "emulator" \in Process
        BY DEF Process
    <2>2. CASE \E lvl \in Asked : SetBrightness("emulator", usbd_val(lvl))
        <3>1. PICK lvl \in Asked : SetBrightness("emulator", usbd_val(lvl))
            BY <2>2
        <3>2. usbd_val(lvl) \in Nat
            BY LevelsAreNat, UsbdValIsNat
        <3>3. ObjectStep("emulator")
            BY <3>1, <3>2 DEF ObjectStep
        <3>. QED
            BY <2>1, <3>3
    <2>. QED
        BY <1>1, <2>1, <2>2 DEF Emulator, EmulatorWorks, Exchanges, ObjectStep
<1>2. CASE Tool
    <2>1. "tool" \in Process
        BY DEF Process
    <2>2. job > 0 => job \in Nat
        BY JobsRange DEF Typed, TypeOK, Query
    <2>3. CASE ToolConnects \/ ToolReports
        BY <2>1, <2>3 DEF ToolConnects, ToolReports, ObjectStep, objects
    <2>4. CASE ToolSetsBrightness
        BY <2>1, <2>2, <2>4 DEF ToolSetsBrightness, ObjectStep
    <2>5. CASE ToolSetsLight
        <3>1. LightOn("tool", job > 0) /\ (job > 0) \in BOOLEAN
            BY <2>5 DEF ToolSetsLight
        <3>. QED
            BY <2>1, <3>1, Zenon DEF ObjectStep
    <2>6. CASE ToolStarts \/ ToolReturns
        BY <2>1, <2>6 DEF ToolStarts, ToolReturns, ObjectStep
    <2>. QED
        BY <1>2, <2>1, <2>3, <2>4, <2>5, <2>6
        DEF Tool, ToolWorks, Exchanges, ObjectStep
<1>3. CASE PanelSettles \/ LateAnswer
    BY <1>3
<1>4. CASE UNCHANGED vars
    BY <1>4 DEF vars, objects
<1>. QED
    BY <1>1, <1>2, <1>3, <1>4 DEF Next

-----------------------------------------------------------------------------
(* Types, and a handle for every call.                                     *)

LEMMA InitTyped == Init => Typed
<1> SUFFICES ASSUME Init PROVE Typed
    OBVIOUS
<1>1. dev \in Device
    BY SteadyIsDevice, Ranges DEF Init
<1>2. job \in AacmdJobs \cup UsbdctrlJobs
    BY DEF Init, UsbdctrlJobs
<1>3. call \in [Process -> Calls]
    BY DEF Init, NoCall, Calls
<1>4. pc["tool"] = "none" /\ \A p \in Process : pc[p] = "none" /\ ~open[p]
    BY DEF Init, Process
<1>5. pc \in [Process -> Places]
    BY DEF Init, Places
<1>6. cache \in [Process -> [on : BOOLEAN, brightness : Int]]
    BY DEF Init, Gone
<1>7. /\ open \in [Process -> BOOLEAN] /\ QueuesTyped
      /\ clean \in [Process -> BOOLEAN] /\ late \in 0..MaxLate /\ cut \in BOOLEAN
    <2>1. <<>> \in Seq(BOOLEAN) /\ Len(<<>>) = 0
        OBVIOUS
    <2>2. queue = [p \in Process |-> <<>>] /\ \A p \in Process : ~open[p]
        BY DEF Init
    <2>3. QueuesTyped
        BY <2>1, <2>2 DEF QueuesTyped
    <2>. QED
        <3>1. 0 \in 0..MaxLate
            BY SharedAssumption
        <3>. QED
            BY <2>3, <3>1, Zenon DEF Init
<1>8. main = "none"
    BY DEF Init
<1>. QED
    BY <1>1, <1>2, <1>3, <1>4, <1>5, <1>6, <1>7, <1>8
    DEF Typed, TypeOK, QueuesTyped, Places, Exchanging, InCall

\* What the two processes' objects keep, whoever moves.
ObjectsTyped ==
    /\ dev \in Device
    /\ open \in [Process -> BOOLEAN]
    /\ cache \in [Process -> [on : BOOLEAN, brightness : Int]]
    /\ pc \in [Process -> Places]
    /\ \A p \in Process : pc[p] = "none" => ~open[p]
    /\ late \in 0..MaxLate /\ cut \in BOOLEAN
    /\ QueuesTyped
    /\ clean \in [Process -> BOOLEAN]
    /\ call \in [Process -> Calls]
    /\ \A p \in Process : pc[p] \in Exchanging \cup {"drop"} => open[p]

LEMMA TypedSplits == Typed => ObjectsTyped
BY DEF Typed, TypeOK, ObjectsTyped, QueuesTyped, Places

LEMMA CommandTyped ==
    ASSUME Typed, NEW p \in Process, pc[p] \in InCall, NEW next \in InCall,
           Command(p, next), dev' \in Device, cut' \in BOOLEAN
    PROVE  ObjectsTyped'
<1>0. ObjectsTyped /\ open[p]
    BY TypedSplits DEF Typed, Exchanging
<1>1. QueuesTyped' /\ late' = late
    BY <1>0, ExchangeTyped DEF Command
<1>2. clean' \in [Process -> BOOLEAN]
    BY <1>0 DEF Command, OthersLoseTrack, ObjectsTyped
<1>. QED
    BY <1>0, <1>1, <1>2 DEF Command, ObjectsTyped, Places, Exchanging, InCall

LEMMA ObjectStepTyped ==
    ASSUME Typed, NEW p \in Process, ObjectStep(p)
    PROVE  ObjectsTyped'
<1>0. ObjectsTyped
    BY TypedSplits
<1>1. CASE Construct(p)
    <2>1. PICK f \in InitialFields : cache' = [cache EXCEPT ![p] = f]
        BY <1>1 DEF Construct
    <2>2. f \in [on : BOOLEAN, brightness : Int]
        BY PanelAssumption
    <2>3. QueuesTyped'
        BY <1>0, <1>1 DEF Construct, ObjectsTyped, QueuesTyped
    <2>. QED
        BY <1>0, <1>1, <2>1, <2>2, <2>3
        DEF Construct, ObjectsTyped, Places, Exchanging, InCall
<1>2. CASE Destruct(p)
    <2>1. QueuesTyped' /\ open' \in [Process -> BOOLEAN]
        BY <1>2, ClosedTyped DEF Destruct
    <2>. QED
        BY <1>0, <1>2, <2>1
        DEF Destruct, Closed, ObjectsTyped, Places, Exchanging, InCall, Gone
<1>3. CASE Opens(p)
    <2>1. QueuesTyped'
        BY <1>0, <1>3, SharedAssumption DEF Opens, ObjectsTyped, QueuesTyped
    <2>. QED
        BY <1>0, <1>3, <2>1 DEF Opens, ObjectsTyped, Places, Exchanging, InCall
<1>4. CASE GetInten(p)
    <2>1. PICK inten \in Register :
             cache' = [cache EXCEPT ![p] =
                [on |-> inten > 0,
                 brightness |-> IF inten > 0 THEN inten ELSE DefaultBrightness]]
        <3>1. (IF queue[p] = <<>> THEN Gets(dev) ELSE Register) \subseteq Register
            BY <1>0 DEF ObjectsTyped, Gets, Device
        <3>. QED
            BY <1>4, <3>1 DEF GetInten
    <2>2. cache' \in [Process -> [on : BOOLEAN, brightness : Int]]
        BY <1>0, <2>1, Ranges DEF ObjectsTyped
    <2>3. open[p] /\ UNCHANGED <<dev, open, call, cut>>
        BY <1>0, <1>4 DEF GetInten, ObjectsTyped, Exchanging
    <2>4. QueuesTyped' /\ late' = late
        BY <1>4, <2>3, ExchangeTyped DEF GetInten
    <2>5. clean' \in [Process -> BOOLEAN]
        BY <1>4, Zenon DEF GetInten
    <2>. QED
        BY <1>0, <1>4, <2>2, <2>3, <2>4, <2>5
        DEF GetInten, ObjectsTyped, Places, Exchanging, InCall
<1>5. CASE GetIntenFails(p)
    <2>1. late' \in 0..MaxLate /\ clean' \in [Process -> BOOLEAN]
        BY <1>5, MissedIsTyped DEF GetIntenFails
    <2>2. QueuesTyped'
        BY <1>0, <1>5 DEF GetIntenFails, ObjectsTyped, QueuesTyped
    <2>. QED
        BY <1>0, <1>5, <2>1, <2>2
        DEF GetIntenFails, ObjectsTyped, Places, Exchanging, InCall
<1>6. ASSUME NEW op \in {"SetBrightness", "LightOn"}, NEW inten \in Int,
             open[p], Begin(p, op, inten)
      PROVE  ObjectsTyped'
    BY <1>0, <1>6
    DEF Begin, object, ObjectsTyped, QueuesTyped, Places, Exchanging, InCall, Calls
<1>7. ASSUME UNCHANGED objects
      PROVE  ObjectsTyped'
    BY <1>0, <1>7 DEF objects, object, ObjectsTyped, QueuesTyped
<1>8. CASE \E arg \in Nat : SetBrightness(p, arg)
    <2>1. PICK arg \in Nat : SetBrightness(p, arg)
        BY <1>8
    <2>2. Clamp(arg) \in Int
        BY PanelAssumption DEF Clamp
    <2>3. CASE cache' = [cache EXCEPT ![p].brightness = Clamp(arg)]
               /\ UNCHANGED <<dev, open, queue, clean, late, pc, call, cut>>
        <3>1. cache' \in [Process -> [on : BOOLEAN, brightness : Int]]
            BY <1>0, <2>2, <2>3 DEF ObjectsTyped
        <3>. QED
            BY <1>0, <2>3, <3>1 DEF ObjectsTyped, QueuesTyped
    <2>. QED
        BY <1>6, <1>7, <2>1, <2>2, <2>3 DEF SetBrightness, objects
<1>9. CASE \E on \in BOOLEAN : LightOn(p, on)
    <2>1. PICK on \in BOOLEAN : LightOn(p, on)
        BY <1>9
    <2> DEFINE inten == IF on THEN cache[p].brightness ELSE 0
    <2>2. inten \in Int
        BY <1>0 DEF ObjectsTyped
    <2>. QED
        BY <1>6, <1>7, <2>1, <2>2 DEF LightOn, objects
<1>10. CASE Store(p) \/ Go(p)
    <2>1. dev' \in Device /\ cut' \in BOOLEAN
        BY <1>0, <1>10, StoredIsDevice DEF Store, Go, ObjectsTyped
    <2>. QED
        BY <1>10, <2>1, CommandTyped DEF Store, Go, InCall
<1>11. CASE Poll(p)
    <2>1. call[p] \in Calls /\ cache[p] \in [on : BOOLEAN, brightness : Int] /\ open[p]
        BY <1>0, <1>11 DEF ObjectsTyped, Poll, Exchanging, InCall
    <2>2. cache' \in [Process -> [on : BOOLEAN, brightness : Int]]
        <3> DEFINE f == IF call[p].op = "LightOn"
                        THEN [cache[p] EXCEPT !.on = call[p].inten > 0]
                        ELSE [on |-> cache[p].on /\ call[p].inten # 0,
                              brightness |-> call[p].inten]
        <3>1. f \in [on : BOOLEAN, brightness : Int]
            <4>1. (call[p].inten > 0) \in BOOLEAN
                OBVIOUS
            <4>2. (cache[p].on /\ call[p].inten # 0) \in BOOLEAN /\ call[p].inten \in Int
                BY <2>1, Zenon DEF Calls
            <4>. QED
                BY <2>1, <4>1, <4>2
        <3>2. cache' = [cache EXCEPT ![p] = f] \/ cache' = cache
            BY <1>11 DEF Poll
        <3> HIDE DEF f
        <3>. QED
            BY <1>0, <3>1, <3>2 DEF ObjectsTyped
    <2>3. (~dev.moving) \in BOOLEAN
        OBVIOUS
    <2>4. QueuesTyped' /\ late' = late
        BY <1>11, <2>1, <2>3, ExchangeTyped DEF Poll
    <2>5. clean' \in [Process -> BOOLEAN]
        BY <1>0, <1>11 DEF Poll, OthersLoseTrack, ObjectsTyped
    <2>6. /\ pc' = [pc EXCEPT ![p] = "idle"] \/ pc' = pc
          /\ call' = [call EXCEPT ![p] = NoCall] \/ call' = call
          /\ UNCHANGED <<dev, open, cut>>
        BY <1>11 DEF Poll
    <2>7. call' \in [Process -> Calls]
        BY <1>0, <2>6 DEF ObjectsTyped, NoCall, Calls
    <2>8. /\ pc' \in [Process -> Places]
          /\ \A q \in Process : pc'[q] = "none" => ~open'[q]
          /\ \A q \in Process : pc'[q] \in Exchanging \cup {"drop"} => open'[q]
        BY <1>0, <2>1, <2>6 DEF ObjectsTyped, Places, Exchanging, InCall
    <2>. QED
        BY <1>0, <2>2, <2>4, <2>5, <2>6, <2>7, <2>8 DEF ObjectsTyped
<1>12. CASE \E to \in {"idle", "drop"} : Fails(p, to)
    <2>1. PICK to \in {"idle", "drop"} : Fails(p, to)
        BY <1>12
    <2>2. dev' \in Device
        BY <2>1, InterruptedIsDevice DEF Fails, StopsShort
    <2>3. late' \in 0..MaxLate /\ clean' \in [Process -> BOOLEAN]
        BY <2>1, MissedIsTyped DEF Fails
    <2>4. cut' \in BOOLEAN
        BY <2>1, Zenon DEF Fails, StopsShort
    <2>5. QueuesTyped'
        BY <1>0, <2>1 DEF Fails, ObjectsTyped, QueuesTyped
    <2>6. call' \in [Process -> Calls]
        BY <1>0, <2>1 DEF Fails, StopsShort, ObjectsTyped, NoCall, Calls
    <2>7. /\ pc' \in [Process -> Places] /\ UNCHANGED <<open, cache>>
          /\ \A q \in Process : pc'[q] = "none" => ~open'[q]
          /\ \A q \in Process : pc'[q] \in Exchanging \cup {"drop"} => open'[q]
        BY <1>0, <2>1 DEF Fails, ObjectsTyped, Places, Exchanging, InCall
    <2>. QED
        BY <1>0, <2>2, <2>3, <2>4, <2>5, <2>6, <2>7 DEF ObjectsTyped
<1>13. CASE Killed(p)
    <2>1. dev' \in Device
        BY <1>13, InterruptedIsDevice DEF Killed, StopsShort
    <2>2. cut' \in BOOLEAN
        BY <1>13, Zenon DEF Killed, StopsShort
    <2>3. late' \in 0..MaxLate /\ clean' \in [Process -> BOOLEAN]
        BY <1>0, <1>13, MissedIsTyped DEF Killed, ObjectsTyped
    <2>4. QueuesTyped' /\ open' \in [Process -> BOOLEAN]
        BY <1>13, ClosedTyped DEF Killed
    <2>. QED
        BY <1>0, <1>13, <2>1, <2>2, <2>3, <2>4
        DEF Killed, Closed, StopsShort, ObjectsTyped, Places, Exchanging, InCall, NoCall,
            Calls, Gone
<1>. QED
    BY <1>1, <1>2, <1>3, <1>4, <1>5, <1>8, <1>9, <1>10, <1>11, <1>12, <1>13 DEF ObjectStep

LEMMA ObjectsKeepTypes == Typed /\ [Next]_vars => ObjectsTyped'
<1> SUFFICES ASSUME Typed, [Next]_vars PROVE ObjectsTyped'
    OBVIOUS
<1>0. ObjectsTyped
    BY TypedSplits
<1>1. CASE \E p \in Process : ObjectStep(p)
    BY <1>1, ObjectStepTyped
<1>2. CASE Disconnects
    <2>1. "emulator" \in Process
        BY DEF Process
    <2>2. QueuesTyped' /\ open' \in [Process -> BOOLEAN]
        BY <1>2, <2>1, ClosedTyped DEF Disconnects
    <2>. QED
        BY <1>0, <1>2, <2>1, <2>2
        DEF Disconnects, Closed, ObjectsTyped, Places, Exchanging, InCall, Process
<1>3. CASE PanelSettles
    BY <1>0, <1>3, ArriveIsDevice DEF PanelSettles, object, ObjectsTyped, QueuesTyped
<1>4. CASE LateAnswer
    <2>1. PICK answer \in BOOLEAN :
             queue' = [q \in Process |->
                 IF open[q] THEN Latest(Append(queue[q], answer)) ELSE queue[q]]
        BY <1>4 DEF LateAnswer
    <2>2. ASSUME NEW q \in Process
          PROVE  /\ queue'[q] \in Seq(BOOLEAN)
                 /\ Len(queue'[q]) <= IF open[q] THEN Buffers ELSE 0
        <3>1. queue[q] \in Seq(BOOLEAN) /\ (open[q] => Len(queue[q]) <= Buffers)
            BY <1>0 DEF ObjectsTyped, QueuesTyped
        <3>2. CASE open[q]
            BY <2>1, <3>1, <3>2, LatestKept
        <3>3. CASE ~open[q]
            BY <1>0, <2>1, <3>3 DEF ObjectsTyped, QueuesTyped
        <3>. QED
            BY <3>2, <3>3
    <2>3. queue' \in [Process -> Seq(BOOLEAN)]
        <3>1. queue' = [q \in Process |-> queue'[q]]
            BY <2>1
        <3>. QED
            BY <2>2, <3>1
    <2>4. QueuesTyped'
        BY <1>4, <2>2, <2>3 DEF LateAnswer, QueuesTyped
    <2>5. late' \in 0..MaxLate
        BY <1>0, <1>4, SharedAssumption DEF LateAnswer, ObjectsTyped
    <2>. QED
        BY <1>0, <1>4, <2>4, <2>5 DEF LateAnswer, ObjectsTyped
<1>5. CASE UNCHANGED objects
    BY <1>0, <1>5 DEF objects, object, ObjectsTyped, QueuesTyped
<1>. QED
    BY <1>1, <1>2, <1>3, <1>4, <1>5, NextSplits

\* The tool's object lasts as long as its main().
LEMMA MainTyped ==
    ASSUME Typed, [Next]_vars
    PROVE  /\ main' \in {"none", "connect", "connected", "failed", "light", "done"}
           /\ main' = "none" <=> pc'["tool"] = "none"
           /\ job' \in AacmdJobs \cup UsbdctrlJobs
<1>0. /\ main \in {"none", "connect", "connected", "failed", "light", "done"}
      /\ main = "none" <=> pc["tool"] = "none"
      /\ job \in AacmdJobs \cup UsbdctrlJobs
      /\ pc \in [Process -> Places]
    BY DEF Typed, TypeOK, Places
<1>1. Query \in AacmdJobs \cup UsbdctrlJobs
    BY DEF UsbdctrlJobs
<1>2. "tool" \in Process /\ "emulator" \in Process
    BY DEF Process
<1>3. CASE Emulator
    <2>1. pc'["tool"] = pc["tool"] /\ UNCHANGED tool
        BY <1>0, <1>2, <1>3
        DEF Emulator, EmulatorWorks, Exchanges, Construct, Destruct, Killed, StopsShort,
            Opens, GetInten, GetIntenFails, SetBrightness, LightOn, Begin,
            Disconnects, Command, Store, Go, Poll, Fails
    <2>. QED
        BY <1>0, <2>1 DEF tool
<1>4. CASE ToolStarts
    BY <1>0, <1>2, <1>4 DEF ToolStarts, Construct
<1>5. CASE ToolConnects
    BY <1>0, <1>2, <1>5 DEF ToolConnects, Opens, GetInten, GetIntenFails
<1>6. CASE ToolSetsBrightness
    BY <1>0, <1>2, <1>6 DEF ToolSetsBrightness, SetBrightness, Begin
<1>7. CASE ToolSetsLight
    BY <1>0, <1>2, <1>7 DEF ToolSetsLight, LightOn, Begin
<1>8. CASE ToolReports
    BY <1>0, <1>8 DEF ToolReports
<1>9. CASE ToolReturns
    BY <1>0, <1>1, <1>2, <1>9 DEF ToolReturns, Destruct
<1>10. CASE Exchanges("tool") /\ UNCHANGED tool
    BY <1>0, <1>2, <1>10 DEF Exchanges, tool, Command, Store, Go, Poll, InCall
<1>11. CASE Fails("tool", "idle") /\ UNCHANGED tool
    BY <1>0, <1>2, <1>11 DEF Fails, tool, InCall
<1>12. CASE Killed("tool") /\ main' = "none" /\ job' = Query
    BY <1>0, <1>1, <1>2, <1>12 DEF Killed
<1>13. CASE PanelSettles \/ LateAnswer \/ UNCHANGED vars
    BY <1>0, <1>13 DEF PanelSettles, LateAnswer, tool, vars
<1>. QED
    BY <1>3, <1>4, <1>5, <1>6, <1>7, <1>8, <1>9, <1>10, <1>11, <1>12, <1>13
    DEF Next, Tool, ToolWorks

LEMMA NextTyped == Typed /\ [Next]_vars => Typed'
BY ObjectsKeepTypes, MainTyped DEF Typed, TypeOK, ObjectsTyped, QueuesTyped, Places

\* In particular a process that has ended, or was stopped, holds no handle
\* (usbdimmer.cpp:41-49).
THEOREM TypeCorrect == Spec => []TypeOK
<1>1. Typed => TypeOK
    BY DEF Typed
<1>. QED
    BY <1>1, InitTyped, NextTyped, PTL DEF Spec

-----------------------------------------------------------------------------
(* A stored intensity.                                                     *)

LEMMA ObjectStepApplies ==
    ASSUME Typed, IntensityIsApplied, NEW p \in Process, ObjectStep(p)
    PROVE  IntensityIsApplied'
<1>0. pc \in [Process -> Places] /\ dev \in Device
    BY DEF Typed, TypeOK, Places
<1>1. ASSUME UNCHANGED <<dev, cut>>, \A q \in Process : pc[q] = "go" => pc'[q] = "go"
      PROVE  IntensityIsApplied'
    BY <1>1 DEF IntensityIsApplied
<1>2. CASE Construct(p) \/ Destruct(p) \/ Opens(p) \/ GetInten(p) \/ GetIntenFails(p)
    BY <1>0, <1>1, <1>2 DEF Construct, Destruct, Opens, GetInten, GetIntenFails
<1>3. CASE \E arg \in Nat : SetBrightness(p, arg)
    BY <1>0, <1>1, <1>3 DEF SetBrightness, Begin
<1>4. CASE \E on \in BOOLEAN : LightOn(p, on)
    BY <1>0, <1>1, <1>4 DEF LightOn, Begin
<1>5. CASE Store(p)
    BY <1>0, <1>5 DEF Store, Command, IntensityIsApplied
<1>6. CASE Go(p)
    BY <1>0, <1>6 DEF Go, Started, Device, IntensityIsApplied
<1>7. CASE Poll(p)
    BY <1>0, <1>1, <1>7 DEF Poll
<1>8. ASSUME StopsShort(p), NEW to, pc' = [pc EXCEPT ![p] = to]
      PROVE  IntensityIsApplied'
    <2>1. CASE pc[p] \in {"store", "go"}
        <3>1. cut' \/ dev'.moving
            BY <1>8, <2>1, Zenon DEF StopsShort
        <3>. QED
            BY <3>1 DEF IntensityIsApplied
    <2>2. CASE pc[p] \notin {"store", "go"}
        <3>1. dev' = dev /\ (cut => cut')
            BY <1>8, <2>2 DEF StopsShort, Interrupted
        <3>. QED
            BY <1>0, <1>8, <2>2, <3>1 DEF IntensityIsApplied
    <2>. QED
        BY <2>1, <2>2
<1>9. CASE \E to \in {"idle", "drop"} : Fails(p, to)
    BY <1>8, <1>9 DEF Fails
<1>10. CASE Killed(p)
    BY <1>8, <1>10 DEF Killed
<1>. QED
    BY <1>2, <1>3, <1>4, <1>5, <1>6, <1>7, <1>9, <1>10 DEF ObjectStep

\* An intensity stored in the panel is moved to, or belongs to a call about to
\* send SETSTATE or cut short before it, however the calls of two processes
\* interleave (usbdimmer.cpp:112-148).
THEOREM StoredIsApplied == Spec => []IntensityIsApplied
<1>1. Init => IntensityIsApplied
    BY DEF Init, Steady, IntensityIsApplied
<1>2. Typed /\ IntensityIsApplied /\ [Next]_vars => IntensityIsApplied'
    <2> SUFFICES ASSUME Typed, IntensityIsApplied, [Next]_vars
                 PROVE  IntensityIsApplied'
        OBVIOUS
    <2>0. pc \in [Process -> Places]
        BY DEF Typed, TypeOK, Places
    <2>1. CASE \E p \in Process : ObjectStep(p)
        BY <2>1, ObjectStepApplies
    <2>2. CASE Disconnects
        BY <2>0, <2>2 DEF Disconnects, IntensityIsApplied
    <2>3. CASE PanelSettles
        BY <2>3 DEF PanelSettles, Arrive, Steady, IntensityIsApplied
    <2>4. CASE LateAnswer
        BY <2>4 DEF LateAnswer, IntensityIsApplied
    <2>5. CASE UNCHANGED objects
        BY <2>5 DEF objects, IntensityIsApplied
    <2>. QED
        BY <2>1, <2>2, <2>3, <2>4, <2>5, NextSplits
<1>. QED
    BY <1>1, <1>2, InitTyped, NextTyped, PTL DEF Spec

-----------------------------------------------------------------------------
(* A process alone with the panel.                                         *)

\* A set_inten() between its first and its last exchange: which intensity it
\* sets, and where the panel is on the way to it.
Underway(p) ==
    /\ call[p].inten \in Register
    /\ IF call[p].op = "LightOn"
       THEN call[p].inten \in {0, cache[p].brightness}
       ELSE cache[p].on
    /\ pc[p] \in {"go", "poll"} => dev.target = call[p].inten
    /\ pc[p] = "poll" => dev.moving \/ dev = Steady(call[p].inten)

\* With nothing in its queue and no answer outstanding, the process reads the
\* answers to its own commands.  A cached brightness wider than SETINTEN's two
\* bytes would make the next LightOn() miss.
Alone(p) ==
    clean[p] =>
        /\ open[p] /\ queue[p] = <<>> /\ late = 0
        /\ cache[p].brightness \in Register
        /\ pc[p] = "idle" \/ pc[p] \in InCall
        /\ pc[p] = "idle" => dev = Steady(Shown(p))
        /\ pc[p] \in InCall => Underway(p)

\* As long as one process counts as alone, the other exchanges nothing.
LEMMA OtherMoves ==
    ASSUME Typed, NEW p \in Process, Alone(Other(p)), ObjectStep(p), clean'[Other(p)]
    PROVE  LET q == Other(p)
           IN  /\ clean[q] /\ dev' = dev /\ late' = late /\ queue'[q] = queue[q]
               /\ open'[q] = open[q] /\ cache'[q] = cache[q]
               /\ pc'[q] = pc[q] /\ call'[q] = call[q]
<1> DEFINE q == Other(p)
<1>0. q \in Process /\ q # p
    BY Others
<1>1. /\ DOMAIN open = Process /\ DOMAIN clean = Process /\ DOMAIN queue = Process
      /\ DOMAIN pc = Process /\ DOMAIN call = Process /\ DOMAIN cache = Process
    BY DEF Typed, TypeOK
<1> HIDE DEF q
<1>2. ~GetInten(p) /\ ~GetIntenFails(p) /\ ~Store(p) /\ ~Go(p) /\ ~Poll(p)
      /\ ~(\E to \in {"idle", "drop"} : Fails(p, to))
    <2>1. \/ GetInten(p) \/ GetIntenFails(p) \/ Store(p) \/ Go(p) \/ Poll(p)
          \/ \E to \in {"idle", "drop"} : Fails(p, to)
          => ~clean'[q]
        BY <1>0, Zenon
        DEF GetInten, GetIntenFails, Store, Go, Command, Poll, OthersLoseTrack,
            AnswerIsMissed, Fails
    <2>. QED
        BY <2>1 DEF q
<1>3. CASE Construct(p)
    BY <1>0, <1>1, <1>3 DEF Construct, q
<1>4. CASE Destruct(p)
    BY <1>0, <1>1, <1>4 DEF Destruct, Closed, q
<1>5. CASE Opens(p)
    BY <1>0, <1>1, <1>5 DEF Opens, q
<1>6. CASE \E arg \in Nat : SetBrightness(p, arg)
    BY <1>0, <1>1, <1>6 DEF SetBrightness, Begin, object, q
<1>7. CASE \E on \in BOOLEAN : LightOn(p, on)
    BY <1>0, <1>1, <1>7 DEF LightOn, Begin, object, q
<1>8. CASE Killed(p)
    <2>1. pc[p] \notin Exchanging
        <3>1. AnswerIsMissed => ~clean'[q]
            BY <1>0, Zenon DEF AnswerIsMissed
        <3>. QED
            BY <1>8, <3>1 DEF Killed, q
    <2>2. dev' = dev
        BY <1>8, <2>1 DEF Killed, StopsShort, Interrupted, Exchanging, InCall
    <2>. QED
        BY <1>0, <1>1, <1>8, <2>1, <2>2 DEF Killed, Closed, StopsShort, q
<1>. QED
    BY <1>2, <1>3, <1>4, <1>5, <1>6, <1>7, <1>8 DEF ObjectStep, q

\* The exchanges of a process alone leave nothing in its queue.
LEMMA LonelyExchange ==
    ASSUME NEW p \in Process, queue[p] = <<>>, NEW answer, Exchange(p, answer)
    PROVE  queue'[p] = <<>> /\ late' = late /\ Heard(p, answer) = answer
<1>1. queue'[p] = Tail(Append(<<>>, answer))
    BY DEF Exchange
<1>. QED
    BY <1>1, NothingWaits DEF Exchange, Heard

\* What the moves of a process alone make of its own part of the invariant.
LEMMA OwnMoves ==
    ASSUME Typed, NEW p \in Process, Alone(p), ObjectStep(p)
    PROVE  Alone(p)'
<1> SUFFICES ASSUME clean'[p]
             PROVE  /\ open'[p] /\ queue'[p] = <<>> /\ late' = 0
                    /\ cache'[p].brightness \in Register
                    /\ pc'[p] = "idle" \/ pc'[p] \in InCall
                    /\ pc'[p] = "idle" => dev' = Steady(Shown(p)')
                    /\ pc'[p] \in InCall => Underway(p)'
    BY DEF Alone
<1>0. /\ DOMAIN open = Process /\ DOMAIN queue = Process /\ DOMAIN clean = Process
      /\ DOMAIN pc = Process /\ DOMAIN call = Process /\ DOMAIN cache = Process
      /\ dev \in Device
      /\ cache[p] \in [on : BOOLEAN, brightness : Int]
      /\ call[p] \in Calls
      /\ Other(p) \in Process /\ Other(p) # p
    BY Others DEF Typed, TypeOK
<1>1. CASE Construct(p)
    <2>1. ~open[p] /\ clean[p]
        BY <1>0, <1>1 DEF Construct, Typed, TypeOK
    <2>. QED
        BY <2>1 DEF Alone
<1>2. CASE \/ Destruct(p) \/ Killed(p) \/ GetIntenFails(p)
           \/ \E to \in {"idle", "drop"} : Fails(p, to)
    <2>1. ~clean'[p]
        BY <1>0, <1>2
        DEF Destruct, Killed, GetIntenFails, Fails, AnswerIsMissed
    <2>. QED
        BY <2>1
<1>3. CASE Opens(p)
    <2>1. ~open[p] /\ clean[p]
        BY <1>0, <1>3 DEF Opens
    <2>. QED
        BY <2>1 DEF Alone
<1>4. CASE GetInten(p)
    <2>1. queue[p] = <<>> /\ late = 0 /\ Quiet(dev)
        BY <1>4, Zenon DEF GetInten
    <2>2. queue'[p] = <<>> /\ late' = 0
        BY <1>4, <2>1, LonelyExchange DEF GetInten
    <2>3. open[p]
        BY <1>4 DEF GetInten, Typed, Exchanging
    <2>5. open'[p] /\ pc'[p] = "idle" /\ dev' = dev
        BY <1>0, <1>4, <2>3 DEF GetInten
    <2>6. PICK inten \in Gets(dev) :
             cache' = [cache EXCEPT ![p] =
                [on |-> inten > 0,
                 brightness |-> IF inten > 0 THEN inten ELSE DefaultBrightness]]
        BY <1>4, <2>1 DEF GetInten
    <2>7. dev = Steady(inten) /\ inten \in Register
        BY <1>0, <2>1, <2>6 DEF Quiet, Gets, Steady, Device
    <2>8. cache'[p].brightness \in Register
        BY <1>0, <2>6, <2>7, Ranges
    <2>9. Shown(p)' = inten
        <3>1. cache'[p] = [on |-> inten > 0,
                           brightness |-> IF inten > 0 THEN inten ELSE DefaultBrightness]
            BY <1>0, <2>6
        <3>2. cache'[p].on = (inten > 0)
            BY <3>1
        <3>3. CASE (inten > 0) = TRUE
            <4>1. cache'[p].brightness = inten
                BY <3>1, <3>3
            <4>2. cache'[p].on
                BY <3>2, <3>3, Zenon
            <4>. QED
                BY <4>1, <4>2 DEF Shown
        <3>4. CASE inten = 0 /\ (inten > 0) = FALSE
            <4>1. ~cache'[p].on
                BY <3>2, <3>4, Zenon
            <4>. QED
                BY <3>4, <4>1 DEF Shown
        <3>. QED
            BY <2>7, <3>3, <3>4, DarkOrLit
    <2>. QED
        BY <2>2, <2>5, <2>7, <2>8, <2>9 DEF InCall
<1>5. CASE \E arg \in Nat : SetBrightness(p, arg)
    <2>1. PICK arg \in Nat : SetBrightness(p, arg)
        BY <1>5
    <2>2. pc[p] = "idle" /\ open[p] /\ clean[p]
        BY <2>1 DEF SetBrightness, Begin, object
    <2>3. /\ queue[p] = <<>> /\ late = 0 /\ cache[p].brightness \in Register
          /\ dev = Steady(Shown(p))
        BY <2>2 DEF Alone
    <2>4. Clamp(arg) \in Register
        BY ClampIsRegister
    <2>5. CASE UNCHANGED objects
        BY <2>2, <2>3, <2>5 DEF objects, object, Shown, InCall
    <2>6. CASE ~cache[p].on /\ cache' = [cache EXCEPT ![p].brightness = Clamp(arg)]
               /\ UNCHANGED <<dev, open, queue, clean, late, pc, call, cut>>
        <3>1. cache'[p].on = cache[p].on /\ cache'[p].brightness = Clamp(arg)
            BY <1>0, <2>6
        <3>. QED
            BY <2>2, <2>3, <2>4, <2>6, <3>1 DEF Shown, InCall
    <2>7. CASE cache[p].on /\ Begin(p, "SetBrightness", Clamp(arg))
        <3>1. pc'[p] = "store" /\ call'[p] = [op |-> "SetBrightness", inten |-> Clamp(arg)]
            BY <1>0, <2>7 DEF Begin
        <3>. QED
            BY <2>2, <2>3, <2>4, <2>7, <3>1 DEF Begin, object, Underway, InCall
    <2>. QED
        BY <2>1, <2>5, <2>6, <2>7 DEF SetBrightness, objects
<1>6. CASE \E on \in BOOLEAN : LightOn(p, on)
    <2>1. PICK on \in BOOLEAN : LightOn(p, on)
        BY <1>6
    <2> DEFINE inten == IF on THEN cache[p].brightness ELSE 0
    <2>2. pc[p] = "idle" /\ open[p] /\ clean[p]
        BY <2>1 DEF LightOn, Begin, object
    <2>3. /\ queue[p] = <<>> /\ late = 0 /\ cache[p].brightness \in Register
          /\ dev = Steady(Shown(p))
        BY <2>2 DEF Alone
    <2>4. inten \in Register /\ inten \in {0, cache[p].brightness}
        BY <2>3, Ranges
    <2>5. CASE UNCHANGED objects
        BY <2>2, <2>3, <2>5 DEF objects, object, Shown, InCall
    <2>6. CASE Begin(p, "LightOn", inten)
        <3> HIDE DEF inten
        <3>1. pc'[p] = "store" /\ call'[p] = [op |-> "LightOn", inten |-> inten]
            BY <1>0, <2>6 DEF Begin
        <3>. QED
            BY <2>2, <2>3, <2>4, <2>6, <3>1 DEF Begin, object, Underway, InCall
    <2>. QED
        BY <2>1, <2>5, <2>6 DEF LightOn, objects
<1>7. ASSUME pc[p] \in InCall, NEW answer, Exchange(p, answer),
             clean' = OthersLoseTrack(p), UNCHANGED open
      PROVE  /\ clean[p] /\ Underway(p) /\ cache[p].brightness \in Register
             /\ open'[p] /\ queue'[p] = <<>> /\ late' = 0
             /\ Heard(p, answer) = answer
    <2>1. clean[p]
        BY <1>7, Zenon DEF OthersLoseTrack
    <2>2. queue[p] = <<>> /\ late = 0 /\ open[p]
        BY <2>1 DEF Alone
    <2>. QED
        BY <1>7, <2>1, <2>2, LonelyExchange DEF Alone
<1>8. CASE Store(p)
    <2>1. /\ clean[p] /\ Underway(p) /\ cache[p].brightness \in Register
          /\ open'[p] /\ queue'[p] = <<>> /\ late' = 0
        BY <1>7, <1>8 DEF Store, Command, InCall
    <2>2. TwoBytes(call[p].inten) = call[p].inten
        BY <2>1, TwoBytesFit DEF Underway
    <2>3. pc'[p] = "go" /\ dev'.target = call[p].inten
        BY <1>0, <1>8, <2>2 DEF Store, Command, Stored, Device
    <2>. QED
        BY <1>8, <2>1, <2>3 DEF Store, Command, Underway, InCall
<1>9. CASE Go(p)
    <2>1. /\ clean[p] /\ Underway(p) /\ cache[p].brightness \in Register
          /\ open'[p] /\ queue'[p] = <<>> /\ late' = 0
        BY <1>7, <1>9 DEF Go, Command, InCall
    <2>2. pc'[p] = "poll" /\ dev'.target = dev.target /\ dev'.moving
        BY <1>0, <1>9 DEF Go, Command, Started, Device
    <2>3. dev.target = call[p].inten
        BY <1>9, <2>1 DEF Go, Underway
    <2>. QED
        BY <1>9, <2>1, <2>2, <2>3 DEF Go, Command, Underway, InCall
<1>10. CASE Poll(p)
    <2>0. /\ clean[p] /\ Underway(p) /\ cache[p].brightness \in Register
          /\ open'[p] /\ queue'[p] = <<>> /\ late' = 0
          /\ Heard(p, ~dev.moving) = ~dev.moving
          /\ pc[p] = "poll" /\ dev' = dev
        BY <1>7, <1>10 DEF Poll, InCall
    <2>1. CASE ~Ends(p, ~dev.moving)
        BY <1>10, <2>0, <2>1 DEF Poll, Underway, InCall
    <2> SUFFICES ASSUME Ends(p, ~dev.moving)
                 PROVE  /\ pc'[p] = "idle" /\ cache'[p].brightness \in Register
                        /\ dev' = Steady(Shown(p)')
        BY <2>0, <2>1 DEF InCall
    <2>2. ~dev.moving
        BY <2>0, Zenon DEF Ends
    <2>3. dev' = Steady(call[p].inten) /\ pc'[p] = "idle"
        BY <1>0, <1>10, <2>0, <2>2 DEF Poll, Underway
    <2>4. call[p].inten \in Register
        BY <2>0 DEF Underway
    <2>5. CASE call[p].op = "LightOn"
        <3>1. cache'[p].on = (call[p].inten > 0) /\ cache'[p].brightness = cache[p].brightness
            BY <1>0, <1>10, <2>5 DEF Poll
        <3>2. call[p].inten \in {0, cache[p].brightness}
            BY <2>0, <2>5 DEF Underway
        <3>3. Shown(p)' = call[p].inten
            <4>1. CASE (call[p].inten > 0) = TRUE
                <5>1. call[p].inten = cache[p].brightness
                    BY <2>4, <3>2, <4>1, Ranges
                <5>2. cache'[p].on
                    BY <3>1, <4>1, Zenon
                <5>. QED
                    BY <3>1, <5>1, <5>2 DEF Shown
            <4>2. CASE call[p].inten = 0 /\ (call[p].inten > 0) = FALSE
                <5>1. ~cache'[p].on
                    BY <3>1, <4>2, Zenon
                <5>. QED
                    BY <4>2, <5>1 DEF Shown
            <4>. QED
                BY <2>4, <4>1, <4>2, DarkOrLit
        <3>. QED
            BY <2>0, <2>3, <3>1, <3>3
    <2>6. CASE call[p].op # "LightOn"
        <3>1. /\ cache'[p].on = (cache[p].on /\ call[p].inten # 0)
              /\ cache'[p].brightness = call[p].inten
            BY <1>0, <1>10, <2>6 DEF Poll
        <3>2. cache[p].on
            BY <2>0, <2>6 DEF Underway
        <3>3. Shown(p)' = call[p].inten
            <4>1. cache'[p].on <=> call[p].inten # 0
                BY <3>1, <3>2
            <4>. QED
                BY <3>1, <4>1 DEF Shown
        <3>. QED
            BY <2>3, <2>4, <3>1, <3>3
    <2>. QED
        BY <2>5, <2>6
<1>. QED
    BY <1>1, <1>2, <1>3, <1>4, <1>5, <1>6, <1>8, <1>9, <1>10 DEF ObjectStep

AllAlone == \A p \in Process : Alone(p)

LEMMA ObjectStepAlone ==
    ASSUME Typed, AllAlone, NEW p \in Process, ObjectStep(p)
    PROVE  AllAlone'
<1>1. Alone(p)'
    BY OwnMoves DEF AllAlone
<1>2. Alone(Other(p))'
    <2> SUFFICES ASSUME clean'[Other(p)] PROVE Alone(Other(p))'
        BY DEF Alone
    <2>0. Other(p) \in Process
        BY Others
    <2>1. /\ clean[Other(p)] /\ dev' = dev /\ late' = late
          /\ queue'[Other(p)] = queue[Other(p)] /\ open'[Other(p)] = open[Other(p)]
          /\ cache'[Other(p)] = cache[Other(p)]
          /\ pc'[Other(p)] = pc[Other(p)] /\ call'[Other(p)] = call[Other(p)]
        BY <2>0, OtherMoves DEF AllAlone
    <2>2. Alone(Other(p))
        BY <2>0 DEF AllAlone
    <2>. QED
        BY <2>0, <2>1, <2>2 DEF Alone, Underway, Shown
<1>. QED
    BY <1>1, <1>2, Others DEF AllAlone

LEMMA NextAlone == Typed /\ AllAlone /\ [Next]_vars => AllAlone'
<1> SUFFICES ASSUME Typed, AllAlone, [Next]_vars PROVE AllAlone'
    OBVIOUS
<1>1. CASE \E p \in Process : ObjectStep(p)
    BY <1>1, ObjectStepAlone
<1>2. CASE Disconnects
    <2>1. /\ "emulator" \in Process /\ "tool" \in Process
          /\ \A p \in Process : p = "emulator" \/ p = "tool"
        BY DEF Process
    <2>2. Alone("emulator")'
        <3>1. ~clean'["emulator"]
            BY <1>2, <2>1 DEF Disconnects, Typed, TypeOK
        <3>. QED
            BY <3>1 DEF Alone
    <2>3. Alone("tool")'
        <3>1. /\ clean'["tool"] = clean["tool"] /\ queue'["tool"] = queue["tool"]
              /\ open'["tool"] = open["tool"] /\ pc'["tool"] = pc["tool"]
              /\ UNCHANGED <<dev, late, cache, call>>
            BY <1>2, <2>1 DEF Disconnects, Closed, Typed, TypeOK
        <3>2. Alone("tool")
            BY <2>1 DEF AllAlone
        <3>. QED
            BY <3>1, <3>2 DEF Alone, Underway, Shown
    <2>. QED
        BY <2>1, <2>2, <2>3 DEF AllAlone
<1>3. CASE PanelSettles
    <2>1. dev.moving /\ dev' = Steady(dev.target) /\ UNCHANGED <<object, pc, call>>
        BY <1>3 DEF PanelSettles, Arrive
    <2> SUFFICES ASSUME NEW p \in Process, clean[p] PROVE Alone(p)'
        BY <2>1 DEF AllAlone, Alone, object
    <2>2. Alone(p)
        BY DEF AllAlone
    <2>3. pc[p] # "idle"
        BY <2>1, <2>2 DEF Alone, Steady
    <2>4. dev'.target = dev.target
        BY <2>1 DEF Steady
    <2>. QED
        BY <2>1, <2>2, <2>3, <2>4 DEF Alone, Underway, object, InCall
<1>4. CASE LateAnswer
    <2> SUFFICES ASSUME NEW p \in Process PROVE ~clean'[p]
        BY DEF AllAlone, Alone
    <2>. QED
        BY <1>4 DEF LateAnswer, AllAlone, Alone
<1>5. CASE UNCHANGED objects
    BY <1>5 DEF objects, object, AllAlone, Alone, Underway, Shown
<1>. QED
    BY <1>1, <1>2, <1>3, <1>4, <1>5, NextSplits

SharedInv == Typed /\ AllAlone

LEMMA SharedInvHolds == Spec => []SharedInv
<1>1. Init => AllAlone
    BY DEF Init, AllAlone, Alone
<1>2. SharedInv /\ [Next]_vars => SharedInv'
    BY NextTyped, NextAlone DEF SharedInv
<1>. QED
    BY <1>1, <1>2, InitTyped, PTL DEF Spec, SharedInv

\* Whatever happened before, and however often the other process came and
\* went, the cache of a process that connected to a panel at rest and has
\* been alone with it is what the panel shows (usbdimmer.cpp:188-277).
THEOREM CacheOfLoner == Spec => []AloneShowsPanel
<1>1. SharedInv => AloneShowsPanel
    BY DEF SharedInv, AllAlone, Alone, AloneShowsPanel
<1>. QED
    BY <1>1, SharedInvHolds, PTL

-----------------------------------------------------------------------------
(* The tool.                                                               *)

\* What the call for the brightness leaves the call for the light to do.
JobInHand ==
    /\ main \in {"connect", "connected", "failed"} => pc["tool"] \in {"idle", "get"}
    /\ clean["tool"] /\ job # Query /\ main = "light" =>
        /\ job > 0
        /\ pc["tool"] = "idle" => cache["tool"].brightness = Clamp(job)
        /\ pc["tool"] \in InCall =>
               call["tool"] = [op |-> "SetBrightness", inten |-> Clamp(job)]
    /\ clean["tool"] /\ job # Query /\ main = "done" =>
        /\ pc["tool"] = "idle" => Shown("tool") = Clamp(job)
        /\ pc["tool"] \in InCall =>
               call["tool"] = [op |-> "LightOn", inten |-> Clamp(job)]

LEMMA ClampOfNothing == Clamp(0) = 0
BY PanelAssumption DEF Clamp

LEMMA NextKeepsJob == SharedInv /\ JobInHand /\ [Next]_vars => JobInHand'
<1> SUFFICES ASSUME SharedInv, JobInHand, [Next]_vars PROVE JobInHand'
    OBVIOUS
<1> DEFINE t == "tool"
<1>0. /\ t \in Process /\ "emulator" \in Process
      /\ Other("emulator") = t /\ Other(t) = "emulator"
      /\ DOMAIN open = Process /\ DOMAIN clean = Process
      /\ DOMAIN pc = Process /\ DOMAIN call = Process /\ DOMAIN cache = Process
      /\ Typed /\ Alone("emulator") /\ Alone(t)
    BY DEF SharedInv, AllAlone, Typed, TypeOK, Process, Other
<1>1. ASSUME clean'[t] => clean[t], pc'[t] = pc[t],
             cache'[t] = cache[t], call'[t] = call[t], UNCHANGED tool
      PROVE  JobInHand'
    BY <1>1 DEF JobInHand, Shown, tool
<1>2. CASE Emulator
    <2>1. ASSUME ObjectStep("emulator"), UNCHANGED tool PROVE JobInHand'
        <3>1. pc'[t] = pc[t]
            BY <1>0, <2>1
            DEF ObjectStep, Construct, Destruct, Killed, StopsShort, Opens, GetInten,
                GetIntenFails, SetBrightness, LightOn, Begin, Command, Store, Go, Poll, Fails
        <3>2. CASE clean'[t]
            BY <1>0, <1>1, <2>1, <3>2, OtherMoves
        <3>3. CASE ~clean'[t]
            BY <2>1, <3>1, <3>3 DEF JobInHand, tool
        <3>. QED
            BY <3>2, <3>3
    <2>2. CASE Disconnects
        BY <1>0, <1>1, <1>2, <2>2 DEF Emulator, Disconnects, Closed
    <2>3. CASE \E lvl \in Asked : SetBrightness("emulator", usbd_val(lvl))
        <3>1. PICK lvl \in Asked : SetBrightness("emulator", usbd_val(lvl))
            BY <2>3
        <3>2. usbd_val(lvl) \in Nat
            BY LevelsAreNat, UsbdValIsNat
        <3>3. ObjectStep("emulator")
            BY <3>1, <3>2 DEF ObjectStep
        <3>. QED
            BY <1>2, <2>1, <3>3 DEF Emulator
    <2>. QED
        BY <1>2, <2>1, <2>2, <2>3 DEF Emulator, EmulatorWorks, Exchanges, ObjectStep
<1>3. CASE ToolStarts
    BY <1>0, <1>3 DEF ToolStarts, Construct, JobInHand
<1>4. CASE ToolConnects
    BY <1>0, <1>4 DEF ToolConnects, Opens, GetInten, GetIntenFails, JobInHand
<1>5. CASE ToolSetsBrightness
    <2>1. main' = "light" /\ job' = job /\ job > 0 /\ pc[t] = "idle"
        BY <1>5 DEF ToolSetsBrightness, SetBrightness, Begin
    <2>2. CASE UNCHANGED <<dev, object, pc, call, cut>> /\ Clamp(job) = cache[t].brightness
        BY <2>1, <2>2 DEF object, JobInHand, InCall
    <2>3. CASE cache' = [cache EXCEPT ![t].brightness = Clamp(job)]
               /\ UNCHANGED <<dev, open, queue, clean, late, pc, call, cut>>
        <3>1. cache'[t].brightness = Clamp(job)
            BY <1>0, <2>3 DEF Typed, TypeOK
        <3>. QED
            BY <2>1, <2>3, <3>1 DEF JobInHand, InCall
    <2>4. CASE Begin(t, "SetBrightness", Clamp(job))
        BY <1>0, <2>1, <2>4 DEF Begin, object, JobInHand, InCall
    <2>. QED
        BY <1>5, <2>2, <2>3, <2>4 DEF ToolSetsBrightness, SetBrightness
<1>6. CASE ToolSetsLight
    <2>1. main' = "done" /\ job' = job /\ pc[t] = "idle" /\ LightOn(t, job > 0)
        BY <1>6 DEF ToolSetsLight, LightOn, Begin
    <2> DEFINE inten == IF job > 0 THEN cache[t].brightness ELSE 0
    <2>2. CASE ~clean[t]
        <3>1. ~clean'[t]
            BY <2>1, <2>2 DEF LightOn, Begin, object
        <3>. QED
            BY <2>1, <3>1 DEF JobInHand
    <2>3. CASE clean[t] /\ job # Query
        <3>1. inten = Clamp(job)
            <4>1. CASE main = "connected" /\ job = 0
                BY <4>1, ClampOfNothing
            <4>2. CASE main = "light"
                BY <2>1, <2>3, <4>2 DEF JobInHand
            <4>. QED
                BY <1>6, <4>1, <4>2 DEF ToolSetsLight
        <3>2. CASE cache[t].on = (job > 0) /\ UNCHANGED <<dev, object, pc, call, cut>>
            <4>1. Shown(t) = inten
                <5>1. cache[t].on <=> job > 0
                    BY <3>2, Zenon
                <5>. QED
                    BY <5>1 DEF Shown
            <4>. QED
                BY <2>1, <3>1, <3>2, <4>1 DEF object, JobInHand, Shown, InCall
        <3>3. CASE Begin(t, "LightOn", inten)
            <4> HIDE DEF inten
            <4>. QED
                BY <1>0, <2>1, <3>1, <3>3 DEF Begin, object, JobInHand, InCall
        <3>. QED
            BY <2>1, <3>2, <3>3 DEF LightOn
    <2>4. CASE job = Query
        BY <2>1, <2>4 DEF JobInHand
    <2>. QED
        BY <2>2, <2>3, <2>4
<1>7. CASE ToolReports
    BY <1>7 DEF ToolReports, JobInHand
<1>8. CASE ToolReturns \/ (Killed("tool") /\ main' = "none" /\ job' = Query)
    BY <1>8 DEF ToolReturns, JobInHand
<1>9. CASE (Store(t) \/ Go(t)) /\ UNCHANGED tool
    <2>1. pc[t] \in InCall /\ pc'[t] \in InCall /\ pc'[t] \notin {"idle", "get"}
          /\ pc[t] \notin {"idle", "get"}
        BY <1>0, <1>9 DEF Store, Go, Command, InCall
    <2>2. (clean'[t] => clean[t]) /\ call' = call
        BY <1>0, <1>9, Zenon DEF Store, Go, Command, OthersLoseTrack
    <2>. QED
        BY <1>9, <2>1, <2>2 DEF JobInHand, tool, InCall
<1>10. CASE Poll(t) /\ UNCHANGED tool
    <2>0. clean'[t] => clean[t]
        BY <1>0, <1>10, Zenon DEF Poll, OthersLoseTrack
    <2> USE <2>0
    <2>1. pc[t] \in InCall /\ pc[t] \notin {"idle", "get"}
        BY <1>0, <1>10 DEF Poll, InCall
    <2>2. main \notin {"connect", "connected", "failed"}
        BY <2>1 DEF JobInHand
    <2>5. CASE ~Ends(t, ~dev.moving)
        BY <1>1, <1>10, <2>5 DEF Poll
    <2> SUFFICES ASSUME Ends(t, ~dev.moving) PROVE JobInHand'
        BY <2>5
    <2>6. pc'[t] = "idle"
        BY <1>0, <1>10 DEF Poll
    <2>3. ASSUME clean[t], job # Query, main = "light"
          PROVE  job > 0 /\ cache'[t].brightness = Clamp(job)
        <3>1. job > 0 /\ call[t] = [op |-> "SetBrightness", inten |-> Clamp(job)]
            BY <2>1, <2>3 DEF JobInHand
        <3>. QED
            BY <1>0, <1>10, <3>1 DEF Poll
    <2>4. ASSUME clean[t], job # Query, main = "done"
          PROVE  Shown(t)' = Clamp(job)
        <3>1. call[t] = [op |-> "LightOn", inten |-> Clamp(job)]
            BY <2>1, <2>4 DEF JobInHand
        <3>2. Clamp(job) \in Register /\ Clamp(job) \in {0, cache[t].brightness}
            BY <1>0, <2>1, <2>4, <3>1 DEF Alone, Underway
        <3>3. /\ cache'[t].on = (Clamp(job) > 0)
              /\ cache'[t].brightness = cache[t].brightness
            BY <1>0, <1>10, <3>1 DEF Poll, Typed, TypeOK
        <3>4. CASE (Clamp(job) > 0) = TRUE
            <4>1. Clamp(job) = cache[t].brightness
                BY <3>2, <3>4, Ranges
            <4>2. cache'[t].on
                BY <3>3, <3>4, Zenon
            <4>. QED
                BY <3>3, <4>1, <4>2 DEF Shown
        <3>5. CASE Clamp(job) = 0 /\ (Clamp(job) > 0) = FALSE
            <4>1. ~cache'[t].on
                BY <3>3, <3>5, Zenon
            <4>. QED
                BY <3>5, <4>1 DEF Shown
        <3>. QED
            BY <3>2, <3>4, <3>5, DarkOrLit
    <2>. QED
        BY <1>10, <2>1, <2>2, <2>3, <2>4, <2>6 DEF JobInHand, tool, InCall
<1>11. CASE Fails("tool", "idle") /\ UNCHANGED tool
    <2>1. ~clean'[t] /\ pc'[t] = "idle"
        BY <1>0, <1>11 DEF Fails, AnswerIsMissed
    <2>. QED
        BY <1>11, <2>1 DEF tool, JobInHand
<1>12. CASE PanelSettles \/ LateAnswer \/ UNCHANGED vars
    BY <1>1, <1>12 DEF PanelSettles, LateAnswer, vars, object, tool
<1>13. CASE Tool
    BY <1>3, <1>4, <1>5, <1>6, <1>7, <1>8, <1>9, <1>10, <1>11, <1>13
    DEF Tool, ToolWorks, Exchanges
<1>. QED
    BY <1>2, <1>12, <1>13 DEF Next

\* A tool that ends with status 0, alone with a panel that was at rest and
\* without a failed exchange, has set it to what its command line said:
\* nothing less will do, as the results of the calls are ignored
\* (aacmd.cpp:144-152, usbdctrl.cpp:56-64).
THEOREM ToolDoesItsJob == Spec => []DoneMeansDone
<1>1. Init => JobInHand
    BY DEF Init, JobInHand
<1>2. SharedInv /\ JobInHand => DoneMeansDone
    BY DEF SharedInv, AllAlone, Alone, Process, JobInHand, DoneMeansDone
<1>. QED
    BY <1>1, <1>2, NextKeepsJob, SharedInvHolds, PTL DEF Spec
=============================================================================
