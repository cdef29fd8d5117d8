----------------------------- MODULE USBDProofs -----------------------------
(***************************************************************************)
(* The exchanges implement the calls: every behaviour of module USBD is    *)
(* one of module Dimmer, for every panel, caller, pattern of failures and  *)
(* number of late answers.                                                 *)
(***************************************************************************)
EXTENDS USBD, SequenceTheorems, TLAPS

Running == pc \in {"write", "read"}
Reports == [of : Commands, val : Register]
CallTypes == [op : {"none", "Connect", "SetBrightness", "LightOn"},
              inten : Int, quiet : BOOLEAN]
Views == [dev : Device, stale : BOOLEAN, m_handle : BOOLEAN, handles : Nat]

Typed == TypeOK /\ call \in CallTypes /\ before \in Views

\* A read finds a report, and a call leaves at most MaxLate of them behind.
Queued ==
    /\ pc = "read" => replies # <<>>
    /\ pc # "read" => Len(replies) <= MaxLate

Held ==
    /\ pc = "none" => ~m_handle
    /\ Running => m_handle
    /\ synced => m_handle
    /\ m_handle => handles >= 1

\* Nothing is left in the queue of a synced handle.
Drained ==
    synced /\ (Running => call.op # "Connect") =>
        IF pc = "read"
        THEN Len(replies) = 1 /\ replies[1].of = cmd
        ELSE replies = <<>>

\* Inside get_inten(): the only report is the answer to GETINTEN, unless there
\* were late ones before the call.
Connecting ==
    Running /\ call.op = "Connect" =>
        /\ cmd = "GETINTEN"
        /\ handles = before.handles + 1
        /\ call.quiet = Quiet(before.dev)
        /\ dev \in Drift(before.dev)
        /\ pc = "write" /\ replies # <<>> => before.stale
        /\ pc = "read" => IF Len(replies) = 1
                          THEN replies[1].val \in Gets(before.dev)
                          ELSE before.stale

\* What the running call of set_inten() was called for.
Purpose ==
    \/ /\ call.op = "SetBrightness" /\ m_on
       /\ \E arg \in Args : call.inten = Clamp(arg) /\ call.inten # m_brightness
    \/ /\ call.op = "LightOn"
       /\ \E on \in BOOLEAN : /\ m_on # on
                              /\ call.inten = IF on THEN m_brightness ELSE 0

\* Where the panel may have come from b with v stored.
Between(b, v) ==
    {d \in Device : d.target = v /\ d.level \in {b.level, Arrive(b).level, v}}

\* Inside set_inten(): how far the panel is, and whether the report that is
\* read next is the answer to the command written last.
Setting ==
    Running /\ call.op # "Connect" =>
        LET v == TwoBytes(call.inten)
        IN  /\ Purpose
            /\ cmd \in {"SETINTEN", "SETSTATE", "GETSTATE"}
            /\ before.m_handle /\ handles = before.handles
            /\ before.stale <=> Len(replies) >= (IF pc = "read" THEN 2 ELSE 1)
            /\ IF cmd = "SETINTEN" /\ pc = "write"
               THEN dev \in Drift(before.dev)
               ELSE dev \in Between(before.dev, v)
            /\ cmd = "GETSTATE" \/ (cmd = "SETSTATE" /\ pc = "read") =>
                   dev.moving \/ dev = Steady(v)
            /\ cmd = "GETSTATE" /\ pc = "read" /\ Len(replies) = 1
               /\ replies[1].val = 0 => dev = Steady(v)

USBDInv ==
    /\ Typed
    /\ Queued
    /\ Held
    /\ Drained
    /\ Connecting
    /\ Setting

-----------------------------------------------------------------------------
(* Panel and queue.                                                        *)

LEMMA Ranges ==
    /\ Intensity \subseteq Register
    /\ Register \subseteq Int
    /\ DefaultBrightness \in Register
    /\ 0 \in Register
    /\ 0 \in Intensity
BY PanelAssumption DEF Intensity, Register

LEMMA SteadyIsDevice == \A v \in Register : Steady(v) \in Device
BY DEF Steady, Device

LEMMA ArriveIsDevice == \A d \in Device : Arrive(d) \in Device
BY DEF Arrive, Steady, Device

LEMMA GetsIsRegister == \A d \in Device : Gets(d) \subseteq Register
BY DEF Gets, Device

LEMMA TwoBytesIsRegister == \A n \in Int : TwoBytes(n) \in Register
BY PanelAssumption DEF TwoBytes, Register

LEMMA ClampIsInt == \A arg \in Args : Clamp(arg) \in Int
BY PanelAssumption, ArgsAssumption DEF Clamp

\* A panel on its own drifts no further than Drift() says, and GETINTEN's
\* answer does not tell how far it has come.
LEMMA DriftGoesOn ==
    ASSUME NEW b \in Device, NEW d \in Drift(b)
    PROVE  Arrive(d) \in Drift(b) /\ Gets(d) \subseteq Gets(b) /\ d \in Device
<1>1. Arrive(b) \in Device
    BY ArriveIsDevice
<1>2. CASE d = b
    BY <1>2 DEF Drift
<1>3. CASE d = Arrive(b)
    <2>1. Arrive(d) = d
        BY <1>3 DEF Arrive, Steady, Device
    <2>2. Gets(d) \subseteq Gets(b)
        BY <1>3 DEF Gets, Arrive, Steady
    <2>. QED
        BY <1>1, <1>3, <2>1, <2>2 DEF Drift
<1>. QED
    BY <1>2, <1>3 DEF Drift

LEMMA SetDrifted ==
    ASSUME NEW b \in Device, NEW d \in Drift(b), NEW v \in Register
    PROVE  [d EXCEPT !.target = v] \in Between(b, v)
<1>1. d = b \/ d = Arrive(b)
    BY DEF Drift
<1>2. Arrive(b) \in Device
    BY ArriveIsDevice
<1>3. d \in Device
    BY <1>1, <1>2
<1>4. /\ [d EXCEPT !.target = v] \in Device
      /\ [d EXCEPT !.target = v].target = v
      /\ [d EXCEPT !.target = v].level = d.level
    BY <1>3 DEF Device
<1>. QED
    BY <1>1, <1>4 DEF Between

LEMMA BetweenGoesOn ==
    ASSUME NEW b \in Device, NEW v \in Register, NEW d \in Between(b, v)
    PROVE  /\ d \in Device /\ d.target = v
           /\ [d EXCEPT !.moving = TRUE] \in Between(b, v)
           /\ [d EXCEPT !.moving = TRUE].moving
           /\ Steady(v) \in Between(b, v)
           /\ d.moving => Arrive(d) = Steady(v)
<1>1. d \in Device /\ d.target = v /\ d.level \in {b.level, Arrive(b).level, v}
    BY DEF Between
<1>2. /\ [d EXCEPT !.moving = TRUE] \in Device
      /\ [d EXCEPT !.moving = TRUE].moving
      /\ [d EXCEPT !.moving = TRUE].target = d.target
      /\ [d EXCEPT !.moving = TRUE].level = d.level
    BY <1>1 DEF Device
<1>3. [d EXCEPT !.moving = TRUE] \in Between(b, v)
    BY <1>1, <1>2 DEF Between
<1>4. Steady(v) \in Device /\ Steady(v).target = v /\ Steady(v).level = v
    BY SteadyIsDevice DEF Steady
<1>5. d.moving => Arrive(d) = Steady(v)
    BY <1>1 DEF Arrive
<1>. QED
    BY <1>1, <1>2, <1>3, <1>4, <1>5 DEF Between

\* These are the states module Dimmer lets a failing call leave.
LEMMA BetweenIsInterrupted ==
    ASSUME NEW b \in Device, NEW v \in Register, NEW d \in Between(b, v)
    PROVE  d \in {[level |-> l, target |-> v, moving |-> go] :
                    l \in {b.level, Arrive(b).level, v}, go \in BOOLEAN}
<1>1. /\ d.level \in {b.level, Arrive(b).level, v} /\ d.moving \in BOOLEAN
      /\ d = [level |-> d.level, target |-> v, moving |-> d.moving]
    BY DEF Between, Device
<1>2. \E l \in {b.level, Arrive(b).level, v}, go \in BOOLEAN :
         d = [level |-> l, target |-> v, moving |-> go]
    BY <1>1, Zenon
<1>. QED
    BY <1>2

LEMMA QueueAppends ==
    ASSUME NEW s \in Seq(Reports), NEW r \in Reports
    PROVE  /\ Append(s, r) \in Seq(Reports) /\ Append(s, r) # <<>>
           /\ Len(Append(s, r)) = Len(s) + 1 /\ Len(s) \in Nat
           /\ s = <<>> => Append(s, r)[1] = r
OBVIOUS

LEMMA QueueEmpty ==
    ASSUME NEW s \in Seq(Reports)
    PROVE  Len(s) \in Nat /\ (s = <<>> <=> Len(s) = 0)
BY EmptySeq

LEMMA QueueTail ==
    ASSUME NEW s \in Seq(Reports), s # <<>>
    PROVE  /\ Head(s) = s[1] /\ s[1] \in Reports
           /\ Tail(s) \in Seq(Reports) /\ Len(Tail(s)) = Len(s) - 1
           /\ Len(s) \in Nat /\ (Tail(s) = <<>> <=> Len(s) = 1)
<1>1. /\ Head(s) \in Reports /\ Tail(s) \in Seq(Reports) /\ Len(Tail(s)) = Len(s) - 1
      /\ Len(s) \in Nat
    BY HeadTailProperties, LenProperties
<1>2. Head(s) = s[1]
    OBVIOUS
<1>3. Tail(s) = <<>> <=> Len(Tail(s)) = 0
    BY <1>1, QueueEmpty
<1>. QED
    BY <1>1, <1>2, <1>3

LEMMA QueueDrops ==
    ASSUME NEW s \in Seq(Reports), NEW n \in 0..Len(s)
    PROVE  LET t == SubSeq(s, n + 1, Len(s))
           IN  t \in Seq(Reports) /\ Len(t) <= Len(s) /\ (s = <<>> => t = <<>>)
<1>1. Len(s) \in Nat /\ \A i \in (n + 1)..Len(s) : s[i] \in Reports
    BY ElementOfSeq, LenProperties
<1>2. LET t == SubSeq(s, n + 1, Len(s))
      IN  t \in Seq(Reports) /\ Len(t) = IF n + 1 <= Len(s) THEN Len(s) - (n + 1) + 1 ELSE 0
    BY <1>1, SubSeqProperties
<1>. QED
    BY <1>1, <1>2, QueueEmpty

-----------------------------------------------------------------------------
(* The invariant.                                                          *)

LEMMA NowIsView == TypeOK => Now \in Views
<1> SUFFICES ASSUME TypeOK PROVE Now \in Views
    OBVIOUS
<1>1. handles \in Nat
    BY ExchangeAssumption DEF TypeOK, ObjectTypeOK
<1>. QED
    BY <1>1 DEF TypeOK, ObjectTypeOK, Now, Views

LEMMA InitInv == Init => USBDInv
<1> SUFFICES ASSUME Init PROVE USBDInv
    OBVIOUS
<1>1. dev \in Device
    BY SteadyIsDevice, Ranges DEF Init
<1>2. m_on \in BOOLEAN /\ m_brightness \in Int
    BY PanelAssumption DEF Init, ObjectInit
<1>3. replies \in Seq(Reports) /\ Len(replies) = 0
    BY EmptySeq DEF Init, ObjectInit
<1>4. call = NoCall /\ call \in CallTypes /\ call.op = "none"
    BY DEF Init, ObjectInit, NoCall, CallTypes
<1>5. 0 \in 0..MaxHandles /\ Len(replies) <= MaxLate + 1
    BY <1>3, ExchangeAssumption
<1>7. TypeOK
    BY <1>1, <1>2, <1>3, <1>4, <1>5
    DEF Init, ObjectInit, TypeOK, ObjectTypeOK, Reports
<1>6. Typed
    BY <1>4, <1>7, NowIsView DEF Typed, Init
<1>. QED
    BY <1>3, <1>6, ExchangeAssumption
    DEF Init, ObjectInit, USBDInv, Queued, Held, Drained, Connecting, Setting, Running

\* What the invariant asks between two calls.
LEMMA BetweenCalls ==
    ASSUME Typed', pc' \notin {"write", "read"}, Held',
           Len(replies)' <= MaxLate, synced' => replies' = <<>>
    PROVE  USBDInv'
BY DEF USBDInv, Queued, Drained, Connecting, Setting, Running

LEMMA BeforeIsView == Typed /\ Next => before' \in Views
BY NowIsView DEF Next, Typed

LEMMA TypeFacts ==
    ASSUME Typed
    PROVE  /\ dev \in Device
           /\ replies \in Seq(Reports) /\ Len(replies) \in Nat
           /\ m_on \in BOOLEAN /\ m_brightness \in Int
           /\ synced \in BOOLEAN /\ handles \in 0..MaxHandles
           /\ ret \in {SUCCESS, NOT_CONNECTED, COMM_ERROR}
           /\ call \in CallTypes /\ call.inten \in Int
           /\ before \in Views /\ before.dev \in Device
           /\ MaxHandles \in Nat /\ MaxLate \in Nat
BY ExchangeAssumption, LenProperties DEF Typed, TypeOK, ObjectTypeOK, Reports, CallTypes, Views

\* The steps that neither begin a call nor are inside one.
LEMMA IdleSteps ==
    ASSUME USBDInv, Next,
           Construct \/ Destruct \/ OpenFails \/ Disconnect
    PROVE  USBDInv'
<1>0. Typed /\ before' \in Views
    BY BeforeIsView DEF USBDInv
<1>1. /\ pc \in {"none", "idle"} /\ pc' \in {"none", "idle"}
      /\ UNCHANGED <<dev, replies, cmd, call>>
    BY DEF Construct, Destruct, OpenFails, Disconnect
<1>2. Len(replies)' <= MaxLate /\ (synced' => replies' = <<>>)
    BY <1>1 DEF Construct, Destruct, OpenFails, Disconnect, USBDInv, Queued, Drained, Running
<1>3. m_on' \in BOOLEAN /\ m_brightness' \in Int
    BY <1>0, TypeFacts, PanelAssumption DEF Construct, Destruct, OpenFails, Disconnect
<1>4. handles' \in 0..MaxHandles
    <2>1. m_handle => handles - 1 \in 0..MaxHandles
        BY <1>0, TypeFacts DEF USBDInv, Held
    <2>. QED
        BY <1>0, <2>1, TypeFacts DEF Construct, Destruct, OpenFails, Disconnect
<1>8. m_handle \in BOOLEAN /\ synced \in BOOLEAN /\ Held
    BY <1>0 DEF USBDInv, Typed, TypeOK, ObjectTypeOK
<1>9. m_handle' \in BOOLEAN /\ synced' \in BOOLEAN
    BY <1>8, Zenon DEF Construct, Destruct, OpenFails, Disconnect
<1>10. ASSUME Construct PROVE Held'
    BY <1>1, <1>8, <1>10 DEF Construct, Held, Running
<1>11. ASSUME Destruct \/ OpenFails \/ Disconnect PROVE Held'
    BY <1>1, <1>11 DEF Destruct, OpenFails, Disconnect, Held, Running
<1>5. m_handle' \in BOOLEAN /\ synced' \in BOOLEAN /\ Held'
    BY <1>9, <1>10, <1>11
<1>6. ret' \in {SUCCESS, NOT_CONNECTED, COMM_ERROR}
    BY <1>0, TypeFacts DEF Construct, Destruct, OpenFails, Disconnect
<1>7. Typed'
    BY <1>0, <1>1, <1>2, <1>3, <1>4, <1>5, <1>6, ExchangeAssumption
    DEF Typed, TypeOK, ObjectTypeOK
<1>. QED
    BY <1>1, <1>2, <1>5, <1>7, BetweenCalls

\* Calls that begin an exchange, or return without one.
LEMMA ConnectBegins ==
    ASSUME USBDInv, Next, Connect
    PROVE  USBDInv'
<1>0. Typed /\ before' \in Views
    BY BeforeIsView DEF USBDInv
<1>1. /\ pc = "idle" /\ pc' = "write" /\ cmd' = "GETINTEN"
      /\ call' = [op |-> "Connect", inten |-> 0, quiet |-> Quiet(dev)]
      /\ m_handle' = TRUE /\ handles' = handles + 1 /\ handles < MaxHandles
      /\ UNCHANGED <<dev, m_on, m_brightness, synced, ret>>
    BY DEF Connect, Begin
<1>2. replies' \in Seq(Reports) /\ Len(replies') <= MaxLate /\ (replies' # <<>> => replies # <<>>)
    <2>1. PICK n \in 0..Len(replies) : replies' = SubSeq(replies, n + 1, Len(replies))
        BY DEF Connect
    <2>2. Len(replies) <= MaxLate
        BY <1>1 DEF USBDInv, Queued
    <2>3. Len(replies') <= Len(replies) /\ Len(replies') \in Nat
        BY <1>0, <2>1, QueueDrops, TypeFacts, LenProperties
    <2>4. Len(replies') <= MaxLate
        BY <1>0, <2>2, <2>3, TypeFacts
    <2>. QED
        BY <1>0, <2>1, <2>4, QueueDrops, TypeFacts
<1>3. before' = Now
    BY <1>1 DEF Next
<1>4. call' \in CallTypes /\ call'.op = "Connect" /\ call'.quiet = Quiet(dev)
    <2>1. Quiet(dev) \in BOOLEAN
        BY DEF Quiet
    <2>. QED
        BY <1>1, <2>1 DEF CallTypes
<1>5. Typed'
    <2>1. Len(replies') <= MaxLate + 1 /\ handles' \in 0..MaxHandles
        BY <1>0, <1>1, <1>2, TypeFacts, LenProperties
    <2>. QED
        BY <1>0, <1>1, <1>2, <1>4, <2>1
        DEF Typed, TypeOK, ObjectTypeOK, Reports, Commands
<1>6. Held'
    BY <1>0, <1>1, TypeFacts DEF Held, Running
<1>7. Connecting'
    BY <1>1, <1>2, <1>3, <1>4 DEF Connecting, Now, Drift
<1>8. Drained' /\ Setting' /\ Queued'
    BY <1>1, <1>2, <1>4 DEF Drained, Setting, Queued, Running
<1>. QED
    BY <1>5, <1>6, <1>7, <1>8 DEF USBDInv

\* A call of set_inten() from a state between calls.
LEMMA SetBegins ==
    ASSUME USBDInv, Next, pc = "idle", m_handle,
           NEW op \in {"SetBrightness", "LightOn"}, NEW inten \in Int,
           Begin(op, inten, "SETINTEN"),
           UNCHANGED <<replies, handles, m_handle>>,
           Purpose'
    PROVE  USBDInv'
<1>0. Typed /\ before' \in Views
    BY BeforeIsView DEF USBDInv
<1>1. /\ pc' = "write" /\ cmd' = "SETINTEN"
      /\ call' = [op |-> op, inten |-> inten, quiet |-> Quiet(dev)]
      /\ UNCHANGED <<dev, m_on, m_brightness, synced, ret>>
    BY DEF Begin
<1>2. before' = Now
    BY <1>1 DEF Next
<1>3. call' \in CallTypes /\ call'.op = op /\ call'.op # "Connect"
    <2>1. Quiet(dev) \in BOOLEAN
        BY DEF Quiet
    <2>. QED
        BY <1>1, <2>1 DEF CallTypes
<1>4. Typed'
    BY <1>0, <1>1, <1>3 DEF Typed, TypeOK, ObjectTypeOK, Commands
<1>5. Held' /\ Queued'
    BY <1>1 DEF USBDInv, Held, Queued, Running
<1>6. Drained' /\ Connecting'
    BY <1>1, <1>3 DEF USBDInv, Drained, Connecting, Running
<1>7. before'.stale <=> Len(replies') >= 1
    <2>1. replies' = replies /\ replies \in Seq(Reports)
        BY <1>0, TypeFacts
    <2>2. before'.stale <=> replies # <<>>
        BY <1>2, Zenon DEF Now
    <2>. QED
        BY <2>1, <2>2, QueueEmpty
<1>8. Setting'
    BY <1>1, <1>2, <1>3, <1>7 DEF Setting, Now, Drift
<1>. QED
    BY <1>4, <1>5, <1>6, <1>8 DEF USBDInv

\* A call that returns without an exchange.
LEMMA ReturnsAtOnce ==
    ASSUME USBDInv, Next, pc = "idle",
           NEW code \in {SUCCESS, NOT_CONNECTED}, ReturnAtOnce(code),
           m_handle' = m_handle, m_on' = m_on, m_brightness' \in Int
    PROVE  USBDInv'
<1>0. Typed /\ before' \in Views
    BY BeforeIsView DEF USBDInv
<1>1. UNCHANGED <<dev, replies, synced, handles, pc, cmd, call>> /\ ret' = code
    BY DEF ReturnAtOnce
<1>2. Typed'
    BY <1>0, <1>1 DEF Typed, TypeOK, ObjectTypeOK
<1>. QED
    BY <1>1, <1>2, BetweenCalls DEF USBDInv, Queued, Drained, Held, Running

LEMMA SetBrightnessBegins ==
    ASSUME USBDInv, Next, NEW arg \in Args, SetBrightness(arg)
    PROVE  USBDInv'
<1>0. /\ Clamp(arg) \in Int /\ pc = "idle" /\ m_handle' = m_handle
      /\ m_brightness \in Int
    BY ClampIsInt, TypeFacts DEF SetBrightness, USBDInv
<1>1. CASE m_handle /\ m_on /\ Clamp(arg) # m_brightness
           /\ Begin("SetBrightness", Clamp(arg), "SETINTEN")
           /\ UNCHANGED <<replies, handles>>
    <2>1. Purpose'
        BY <1>1 DEF Begin, Purpose
    <2>. QED
        BY <1>0, <1>1, <2>1, SetBegins
<1>2. CASE \E code \in {SUCCESS, NOT_CONNECTED} :
                ReturnAtOnce(code) /\ m_on' = m_on /\ m_brightness' \in Int
    BY <1>0, <1>2, ReturnsAtOnce
<1>. QED
    BY <1>0, <1>1, <1>2 DEF SetBrightness, fields

LEMMA LightOnBegins ==
    ASSUME USBDInv, Next, NEW on \in BOOLEAN, LightOn(on)
    PROVE  USBDInv'
<1> DEFINE inten == IF on THEN m_brightness ELSE 0
<1>0. /\ m_brightness \in Int /\ inten \in Int /\ pc = "idle"
      /\ UNCHANGED <<m_handle, m_on, m_brightness>>
    BY TypeFacts DEF LightOn, USBDInv
<1>1. CASE m_handle /\ m_on # on /\ Begin("LightOn", inten, "SETINTEN")
           /\ UNCHANGED <<replies, handles>>
    <2>1. call'.op = "LightOn" /\ call'.inten = inten
        BY <1>1 DEF Begin
    <2>2. Purpose'
        BY <1>0, <1>1, <2>1, Zenon DEF Purpose
    <2> HIDE DEF inten
    <2>. QED
        BY <1>0, <1>1, <2>2, SetBegins
<1>2. CASE \E code \in {SUCCESS, NOT_CONNECTED} : ReturnAtOnce(code)
    BY <1>0, <1>2, ReturnsAtOnce
<1>. QED
    BY <1>0, <1>1, <1>2 DEF LightOn

\* The exchanges.

LEMMA ObeyedStays ==
    ASSUME USBDInv, pc = "write"
    PROVE  Obeyed \in Device /\ Answers \subseteq Register
<1>1. Typed
    BY DEF USBDInv
<1>2. TwoBytes(call.inten) \in Register /\ dev \in Device
    BY <1>1, TypeFacts, TwoBytesIsRegister
<1>3. Obeyed \in Device
    BY <1>2 DEF Obeyed, Device
<1>4. 0 \in Register /\ 1 \in Register
    BY PanelAssumption DEF Register
<1>. QED
    BY <1>2, <1>3, <1>4, GetsIsRegister, ExchangeAssumption DEF Answers

LEMMA WriteKeeps ==
    ASSUME USBDInv, Next, Write
    PROVE  USBDInv'
<1>0. Typed /\ before' = before
    BY DEF USBDInv, Write, Next
<1>1. /\ pc = "write" /\ pc' = "read" /\ dev' = Obeyed
      /\ UNCHANGED <<m_handle, m_on, m_brightness, synced, handles, ret, cmd, call>>
    BY DEF Write
<1>2. PICK val \in Answers : replies' = Append(replies, [of |-> cmd, val |-> val])
    BY DEF Write
<1>3. cmd \in Commands
    BY <1>0, <1>1 DEF USBDInv, Connecting, Setting, Running, Commands
<1>4. [of |-> cmd, val |-> val] \in Reports
    BY <1>1, <1>3, ObeyedStays DEF Reports
<1>5. /\ replies' \in Seq(Reports) /\ replies' # <<>>
      /\ Len(replies') = Len(replies) + 1 /\ Len(replies) \in Nat
      /\ (Len(replies) = 0 <=> replies = <<>>)
      /\ replies = <<>> => replies'[1] = [of |-> cmd, val |-> val]
    BY <1>0, <1>2, <1>4, QueueAppends, QueueEmpty, TypeFacts
<1>6. Len(replies) <= MaxLate /\ Len(replies') <= MaxLate + 1
    BY <1>0, <1>1, <1>5, TypeFacts DEF USBDInv, Queued
<1>7. Typed'
    BY <1>0, <1>1, <1>5, <1>6, ObeyedStays DEF Typed, TypeOK, ObjectTypeOK, Reports
<1>8. Queued' /\ Held'
    BY <1>1, <1>5 DEF USBDInv, Queued, Held, Running
<1>9. Drained'
    BY <1>1, <1>5 DEF USBDInv, Drained, Running
<1>10. Connecting'
    <2> SUFFICES ASSUME call.op = "Connect" PROVE Connecting'
        BY <1>1 DEF Connecting
    <2>1. /\ cmd = "GETINTEN" /\ handles = before.handles + 1
          /\ call.quiet = Quiet(before.dev) /\ dev \in Drift(before.dev)
          /\ replies # <<>> => before.stale
        BY <1>1 DEF USBDInv, Connecting, Running
    <2>2. dev' = dev /\ val \in Gets(dev)
        BY <1>1, <1>2, <2>1 DEF Obeyed, Answers
    <2>3. val \in Gets(before.dev)
        BY <1>0, <2>1, <2>2, DriftGoesOn, TypeFacts
    <2>4. IF Len(replies') = 1 THEN replies'[1].val \in Gets(before.dev) ELSE before.stale
        BY <1>5, <2>1, <2>3
    <2>. QED
        BY <1>0, <1>1, <2>1, <2>2, <2>4 DEF Connecting
<1>11. Setting'
    <2> SUFFICES ASSUME call.op # "Connect" PROVE Setting'
        BY <1>1 DEF Setting
    <2> DEFINE v == TwoBytes(call.inten)
    <2>0. v \in Register /\ before.dev \in Device
        BY <1>0, TypeFacts, TwoBytesIsRegister
    <2>1. /\ Purpose
          /\ cmd \in {"SETINTEN", "SETSTATE", "GETSTATE"}
          /\ before.m_handle /\ handles = before.handles
          /\ before.stale <=> Len(replies) >= 1
          /\ IF cmd = "SETINTEN" THEN dev \in Drift(before.dev)
                                 ELSE dev \in Between(before.dev, v)
          /\ cmd = "GETSTATE" => dev.moving \/ dev = Steady(v)
        BY <1>1 DEF USBDInv, Setting, Running
    <2>2. Purpose' /\ (before.stale <=> Len(replies') >= 2)
        BY <1>1, <1>5, <2>1 DEF Purpose
    <2> HIDE DEF v
    <2>3. dev' \in Between(before.dev, v)
        <3>1. CASE cmd = "SETINTEN"
            BY <1>1, <2>0, <2>1, <3>1, SetDrifted DEF Obeyed, v
        <3>2. CASE cmd = "SETSTATE"
            BY <1>1, <2>0, <2>1, <3>2, BetweenGoesOn DEF Obeyed
        <3>3. CASE cmd = "GETSTATE"
            BY <1>1, <2>1, <3>3 DEF Obeyed
        <3>. QED
            BY <2>1, <3>1, <3>2, <3>3
    <2>4. cmd = "SETSTATE" => dev'.moving
        BY <1>1, <2>0, <2>1, BetweenGoesOn DEF Obeyed
    <2>5. cmd = "GETSTATE" => dev' = dev
        BY <1>1 DEF Obeyed
    <2>6. ASSUME cmd = "GETSTATE", Len(replies') = 1, replies'[1].val = 0
          PROVE  dev' = Steady(v)
        <3>1. val = 0
            <4>1. replies = <<>>
                <5>1. /\ Len(replies) + 1 = 1 /\ Len(replies) \in Nat
                      /\ Len(replies) = 0 <=> replies = <<>>
                    BY <1>5, <2>6
                <5>. QED
                    BY <5>1
            <4>2. replies'[1] = [of |-> cmd, val |-> val]
                BY <1>5, <4>1
            <4>. QED
                BY <2>6, <4>2
        <3>2. ~dev.moving
            BY <1>2, <2>6, <3>1 DEF Answers
        <3>. QED
            BY <2>1, <2>5, <2>6, <3>2
    <2>. QED
        BY <1>0, <1>1, <2>1, <2>2, <2>3, <2>4, <2>5, <2>6 DEF Setting, v
<1>. QED
    BY <1>7, <1>8, <1>9, <1>10, <1>11 DEF USBDInv

\* A call ends in an error.
LEMMA ErrorKeeps ==
    ASSUME USBDInv, Next, Running, ReturnError, dev' = dev,
           replies' \in Seq(Reports), Len(replies') <= MaxLate
    PROVE  USBDInv'
<1>0. Typed /\ before' = before
    BY DEF USBDInv, Running, Next
<1>1. /\ pc' = "idle" /\ cmd' = NoCommand /\ call' = NoCall /\ ret' = COMM_ERROR
      /\ synced' = FALSE
      /\ UNCHANGED <<m_handle, handles, m_on, m_brightness>>
    BY DEF ReturnError, Return, fields
<1>2. Typed'
    <2>1. Len(replies') <= MaxLate + 1
        BY <1>0, TypeFacts, LenProperties
    <2>2. call' \in CallTypes /\ call'.op = "none"
        BY <1>1 DEF NoCall, CallTypes
    <2>. QED
        BY <1>0, <1>1, <2>1, <2>2 DEF Typed, TypeOK, ObjectTypeOK, Reports
<1>. QED
    BY <1>1, <1>2, BetweenCalls DEF USBDInv, Held, Running

LEMMA FailureKeeps ==
    ASSUME USBDInv, Next, WriteFails \/ ReadFails
    PROVE  USBDInv'
<1>0. replies \in Seq(Reports) /\ <<>> \in Seq(Reports) /\ Len(<<>>) <= MaxLate
    BY TypeFacts, EmptySeq DEF USBDInv
<1>1. replies' \in Seq(Reports) /\ Len(replies') <= MaxLate
    BY <1>0 DEF WriteFails, ReadFails, USBDInv, Queued
<1>. QED
    BY <1>1, ErrorKeeps DEF WriteFails, ReadFails, Running

\* The report a read takes.
LEMMA ReadFacts ==
    ASSUME USBDInv, Read
    PROVE  /\ Head(replies) = replies[1] /\ replies[1] \in Reports
           /\ replies[1].val \in Register
           /\ replies' = Tail(replies) /\ replies' \in Seq(Reports)
           /\ Len(replies') = Len(replies) - 1 /\ Len(replies') <= MaxLate
           /\ Len(replies) \in Nat /\ Len(replies) >= 1
           /\ (replies' = <<>> <=> Len(replies) = 1)
           /\ (replies' = <<>> <=> Len(replies') = 0)
<1>1. /\ replies \in Seq(Reports) /\ replies # <<>> /\ replies' = Tail(replies)
      /\ Len(replies) <= MaxLate + 1 /\ MaxLate \in Nat
    BY TypeFacts DEF USBDInv, Typed, TypeOK, Read
<1>2. /\ Head(replies) = replies[1] /\ replies[1] \in Reports
      /\ replies' \in Seq(Reports) /\ Len(replies') = Len(replies) - 1
      /\ Len(replies) \in Nat /\ (replies' = <<>> <=> Len(replies) = 1)
    BY <1>1, QueueTail
<1>3. replies = <<>> <=> Len(replies) = 0
    BY <1>1, QueueEmpty
<1>. QED
    BY <1>1, <1>2, <1>3 DEF Reports

\* The reads inside set_inten() that lead to another command.
LEMMA NextExchangeKeeps ==
    ASSUME USBDInv, Next, Read, pc' = "write", cmd' \in {"SETSTATE", "GETSTATE"},
           cmd # "GETINTEN", cmd' = "GETSTATE" => cmd # "SETINTEN",
           UNCHANGED <<m_handle, m_on, m_brightness, synced, handles, ret, call>>
    PROVE  USBDInv'
<1>0. Typed /\ before' = before /\ pc = "read" /\ dev' = dev
    BY DEF USBDInv, Read, Next
<1>1. Typed'
    <2>1. Len(replies') <= MaxLate + 1
        BY <1>0, ReadFacts, TypeFacts, LenProperties
    <2>. QED
        BY <1>0, <2>1, ReadFacts DEF Typed, TypeOK, ObjectTypeOK, Reports, Commands
<1>2. call.op # "Connect"
    BY <1>0 DEF USBDInv, Connecting, Running
<1>3. Queued' /\ Held' /\ Connecting'
    BY <1>0, <1>2, ReadFacts DEF USBDInv, Queued, Held, Connecting, Running
<1>4. Drained'
    BY <1>0, <1>2, ReadFacts DEF USBDInv, Drained, Running
<1>5. before.stale <=> Len(replies') >= 1
    BY <1>0, <1>2, ReadFacts DEF USBDInv, Setting, Running
<1>6. Setting'
    BY <1>0, <1>2, <1>5 DEF USBDInv, Setting, Running, Purpose
<1>. QED
    BY <1>1, <1>3, <1>4, <1>6 DEF USBDInv

\* The read that ends a call.
LEMMA SuccessKeeps ==
    ASSUME USBDInv, Next, Read, Return(SUCCESS),
           m_on' \in BOOLEAN, m_brightness' \in Int, synced' \in BOOLEAN,
           synced' => replies' = <<>>
    PROVE  USBDInv'
<1>0. Typed /\ before' = before /\ pc = "read" /\ dev' = dev
    BY DEF USBDInv, Read, Next
<1>1. /\ pc' = "idle" /\ cmd' = NoCommand /\ call' = NoCall /\ ret' = SUCCESS
      /\ UNCHANGED <<m_handle, handles>>
    BY DEF Return
<1>2. Typed'
    <2>1. Len(replies') <= MaxLate + 1
        BY <1>0, ReadFacts, TypeFacts, LenProperties
    <2>2. call' \in CallTypes /\ call'.op = "none"
        BY <1>1 DEF NoCall, CallTypes
    <2>. QED
        BY <1>0, <1>1, <2>1, <2>2, ReadFacts DEF Typed, TypeOK, ObjectTypeOK, Reports
<1>. QED
    BY <1>0, <1>1, <1>2, BetweenCalls, ReadFacts DEF USBDInv, Held, Running

LEMMA ReadKeeps ==
    ASSUME USBDInv, Next, Read
    PROVE  USBDInv'
<1>0. /\ Typed /\ before' = before /\ pc = "read" /\ dev' = dev
      /\ Head(replies).val \in Register /\ Head(replies).val \in Int
      /\ m_on \in BOOLEAN /\ m_brightness \in Int /\ synced \in BOOLEAN
      /\ call.inten \in Int
    BY ReadFacts, TypeFacts, Ranges DEF USBDInv, Read, Next
<1>1. CASE cmd = "GETINTEN" /\ ConnectSucceeds(Head(replies).val) /\ Return(SUCCESS)
    <2>0. (Head(replies).val > 0) \in BOOLEAN
        OBVIOUS
    <2>1. m_on' \in BOOLEAN /\ synced' \in BOOLEAN
        BY <1>1, <2>0, Zenon DEF ConnectSucceeds
    <2>2. m_brightness' \in Int
        BY <1>0, <1>1, Ranges DEF ConnectSucceeds
    <2>3. synced' => replies' = <<>>
        BY <1>1, ReadFacts DEF ConnectSucceeds
    <2>. QED
        BY <1>1, <2>1, <2>2, <2>3, SuccessKeeps
<1>2. CASE cmd = "GETSTATE" /\ Arrived(Head(replies).val) /\ SetSucceeds /\ Return(SUCCESS)
    <2>0. (call.inten > 0) \in BOOLEAN
        OBVIOUS
    <2>1. m_on' \in BOOLEAN
        BY <1>0, <1>2, <2>0, Zenon DEF SetSucceeds
    <2>2. m_brightness' \in Int /\ synced' = synced
        BY <1>0, <1>2 DEF SetSucceeds
    <2>3. call.op # "Connect"
        BY <1>0, <1>2 DEF USBDInv, Connecting, Running
    <2>4. synced' => replies' = <<>>
        BY <1>0, <2>2, <2>3, ReadFacts DEF USBDInv, Drained
    <2>. QED
        BY <1>0, <1>2, <2>1, <2>2, <2>4, SuccessKeeps
<1>3. CASE /\ pc' = "write"
           /\ \/ cmd = "SETINTEN" /\ cmd' = "SETSTATE"
              \/ cmd \in {"SETSTATE", "GETSTATE"} /\ cmd' = "GETSTATE"
           /\ UNCHANGED <<m_handle, m_on, m_brightness, synced, handles, ret, call>>
    BY <1>3, NextExchangeKeeps
<1>. QED
    BY <1>1, <1>2, <1>3 DEF Read

LEMMA SettleKeeps ==
    ASSUME USBDInv, Next, Settle
    PROVE  USBDInv'
<1>0. /\ Typed /\ before' = before /\ dev' = Arrive(dev) /\ dev.moving
      /\ UNCHANGED objectVars
    BY DEF USBDInv, Settle, objectVars, Next
<1>1. Typed'
    BY <1>0, ArriveIsDevice, TypeFacts DEF Typed, TypeOK, ObjectTypeOK, objectVars
<1>2. Queued' /\ Held' /\ Drained'
    BY <1>0 DEF USBDInv, Queued, Held, Drained, Running, objectVars
<1>3. Connecting'
    BY <1>0, DriftGoesOn, TypeFacts DEF USBDInv, Connecting, Running, objectVars
<1>4. Setting'
    <2> SUFFICES ASSUME Running, call.op # "Connect" PROVE Setting'
        BY <1>0 DEF Setting, Running, objectVars
    <2> DEFINE v == TwoBytes(call.inten)
    <2>0. v \in Register /\ before.dev \in Device
        BY <1>0, TypeFacts, TwoBytesIsRegister
    <2>1. CASE cmd = "SETINTEN" /\ pc = "write"
        <3>1. dev' \in Drift(before.dev)
            BY <1>0, <2>0, <2>1, DriftGoesOn DEF USBDInv, Setting
        <3>. QED
            BY <1>0, <2>1, <3>1 DEF USBDInv, Setting, Running, Purpose, objectVars
    <2>2. CASE ~(cmd = "SETINTEN" /\ pc = "write")
        <3>1. dev \in Between(before.dev, v)
            BY <2>2 DEF USBDInv, Setting
        <3> HIDE DEF v
        <3>2. dev' = Steady(v) /\ dev' \in Between(before.dev, v)
            <4>1. Arrive(dev) = Steady(v) /\ Steady(v) \in Between(before.dev, v)
                BY <1>0, <2>0, <3>1, BetweenGoesOn
            <4>. QED
                BY <1>0, <4>1
        <3>. QED
            BY <1>0, <2>2, <3>2 DEF USBDInv, Setting, Running, Purpose, objectVars, v
    <2>. QED
        BY <2>1, <2>2
<1>. QED
    BY <1>1, <1>2, <1>3, <1>4 DEF USBDInv

LEMMA NextKeeps == USBDInv /\ [Next]_vars => USBDInv'
<1> SUFFICES ASSUME USBDInv, [Next]_vars PROVE USBDInv'
    OBVIOUS
<1>1. CASE Next
    <2>1. CASE \E val \in Args : USBD_SetBrightness(val)
        BY <1>1, <2>1, SetBrightnessBegins DEF USBD_SetBrightness
    <2>2. CASE \E on \in BOOLEAN : USBD_LightOn(on)
        BY <1>1, <2>2, LightOnBegins DEF USBD_LightOn
    <2>3. CASE USBD_Open \/ USBD_Close \/ OpenFails \/ USBD_Disconnect
        BY <1>1, <2>3, IdleSteps DEF USBD_Open, USBD_Close, USBD_Disconnect
    <2>4. CASE Connect
        BY <1>1, <2>4, ConnectBegins
    <2>5. CASE Exchanging
        BY <1>1, <2>5, WriteKeeps, FailureKeeps, ReadKeeps DEF Exchanging
    <2>6. CASE Settle
        BY <1>1, <2>6, SettleKeeps
    <2>. QED
        BY <1>1, <2>1, <2>2, <2>3, <2>4, <2>5, <2>6 DEF Next, Step, USBD_Connect
<1>2. CASE UNCHANGED vars
    BY <1>2 DEF vars, objectVars, USBDInv, Typed, TypeOK, ObjectTypeOK, Queued, Held,
                Drained, Connecting, Setting, Purpose, Running
<1>. QED
    BY <1>1, <1>2

LEMMA InvHolds == Spec => []USBDInv
BY InitInv, NextKeeps, PTL DEF Spec

\* Nothing but what they should hold, and no handle is closed that is not
\* open; at most MaxLate answers are ever left behind.
THEOREM TypeCorrect == Spec => []TypeOK
BY InvHolds, PTL DEF USBDInv, Typed

\* Through a synced handle each read gets the answer to the command written
\* just before, though the code never looks which command a report echoes
\* (usbdimmer.cpp:57-68, 92, 123, 143, 161).
THEOREM ReadsItsAnswer == Spec => []InStep
<1>1. USBDInv => InStep
    BY DEF USBDInv, Drained, InStep, Running
<1>. QED
    BY <1>1, InvHolds, PTL

-----------------------------------------------------------------------------
(* The refinement.  A call shows at its return.                            *)

LEMMA InitRefines == Init => Dimmer!DimmerInit
BY DEF Init, ObjectInit, Now, Dimmer!DimmerInit, Dimmer!Steady, Steady,
       Dimmer!Intensity, Intensity, Dimmer!SUCCESS, SUCCESS

\* Between calls the caller sees the object's own variables.
LEMMA OpenRefines ==
    ASSUME USBDInv, Next, Construct \/ Destruct
    PROVE  Dimmer!Construct \/ Dimmer!Disconnect \/ UNCHANGED Dimmer!dimmerVars
<1>1. CASE Construct
    BY <1>1 DEF Construct, Dimmer!Construct, USBDInv, Held
<1>2. CASE Destruct /\ m_handle
    BY <1>2 DEF Destruct, Dimmer!Disconnect
<1>3. CASE Destruct /\ ~m_handle
    <2>1. synced = FALSE /\ m_handle = FALSE
        BY <1>3 DEF USBDInv, Held, Typed, TypeOK, ObjectTypeOK
    <2>. QED
        BY <1>3, <2>1 DEF Destruct, Dimmer!dimmerVars
<1>. QED
    BY <1>1, <1>2, <1>3

LEMMA OpenFailsRefines ==
    ASSUME OpenFails
    PROVE  Dimmer!Connect
BY DEF OpenFails, Dimmer!Connect, Dimmer!OpenFails, COMM_ERROR, Dimmer!COMM_ERROR

LEMMA DisconnectRefines ==
    ASSUME Disconnect
    PROVE  Dimmer!Disconnect
BY DEF Disconnect, Dimmer!Disconnect

\* A call that begins, or an exchange inside it, does not show.
LEMMA Hidden ==
    ASSUME Next, pc' \in {"write", "read"},
           pc = "idle" \/ pc \in {"write", "read"},
           pc = "idle" => UNCHANGED dev,
           UNCHANGED <<m_on, m_brightness, synced, ret>>
    PROVE  UNCHANGED Dimmer!dimmerVars
<1>1. CASE pc = "idle"
    BY <1>1 DEF Next, Now, Dimmer!dimmerVars
<1>2. CASE pc \in {"write", "read"}
    BY <1>2 DEF Next, Dimmer!dimmerVars
<1>. QED
    BY <1>1, <1>2

LEMMA SetBrightnessRefines ==
    ASSUME USBDInv, Next, NEW arg \in Args, SetBrightness(arg)
    PROVE  Dimmer!SetBrightness(arg) \/ UNCHANGED Dimmer!dimmerVars
<1>0. pc = "idle" /\ m_handle' = m_handle /\ Clamp(arg) = Dimmer!Clamp(arg)
    BY DEF SetBrightness, Clamp, Dimmer!Clamp
<1>1. CASE Begin("SetBrightness", Clamp(arg), "SETINTEN")
    BY <1>0, <1>1, Hidden DEF Begin
<1>2. CASE ~m_handle /\ ReturnAtOnce(NOT_CONNECTED) /\ UNCHANGED fields
    BY <1>0, <1>2
    DEF ReturnAtOnce, fields, Dimmer!SetBrightness, Dimmer!Returns, Dimmer!fields,
        NOT_CONNECTED, Dimmer!NOT_CONNECTED
<1>3. CASE /\ m_handle /\ Clamp(arg) = m_brightness
           /\ ReturnAtOnce(SUCCESS) /\ UNCHANGED fields
    BY <1>0, <1>3
    DEF ReturnAtOnce, fields, Dimmer!SetBrightness, Dimmer!Returns, Dimmer!fields,
        SUCCESS, Dimmer!SUCCESS
<1>4. CASE /\ m_handle /\ Clamp(arg) # m_brightness /\ ~m_on
           /\ m_brightness' = Clamp(arg)
           /\ ReturnAtOnce(SUCCESS) /\ UNCHANGED m_on
    BY <1>0, <1>4
    DEF ReturnAtOnce, Dimmer!SetBrightness, Dimmer!Returns, SUCCESS, Dimmer!SUCCESS
<1>. QED
    BY <1>1, <1>2, <1>3, <1>4 DEF SetBrightness

LEMMA LightOnRefines ==
    ASSUME USBDInv, Next, NEW on \in BOOLEAN, LightOn(on)
    PROVE  Dimmer!LightOn(on) \/ UNCHANGED Dimmer!dimmerVars
<1>0. pc = "idle" /\ UNCHANGED <<m_handle, m_on, m_brightness>>
    BY DEF LightOn
<1>1. CASE Begin("LightOn", IF on THEN m_brightness ELSE 0, "SETINTEN")
    <2>1. pc' = "write" /\ UNCHANGED <<dev, m_on, m_brightness, synced, ret>>
        BY <1>1 DEF Begin
    <2>. QED
        BY <1>0, <2>1, Hidden
<1>2. CASE ~m_handle /\ ReturnAtOnce(NOT_CONNECTED)
    BY <1>0, <1>2
    DEF ReturnAtOnce, Dimmer!LightOn, Dimmer!Returns, Dimmer!fields,
        NOT_CONNECTED, Dimmer!NOT_CONNECTED
<1>3. CASE m_handle /\ m_on = on /\ ReturnAtOnce(SUCCESS)
    BY <1>0, <1>3
    DEF ReturnAtOnce, Dimmer!LightOn, Dimmer!Returns, Dimmer!fields,
        SUCCESS, Dimmer!SUCCESS
<1>. QED
    BY <1>1, <1>2, <1>3 DEF LightOn

\* A call that returns, whatever it was.
Returned ==
    \/ Dimmer!Connect
    \/ \E arg \in Args : Dimmer!SetBrightness(arg)
    \/ \E on \in BOOLEAN : Dimmer!LightOn(on)

LEMMA PanelTheSame ==
    /\ \A d \in Device : Dimmer!Drift(d) = Drift(d) /\ Dimmer!Gets(d) = Gets(d)
                         /\ Dimmer!Arrive(d) = Arrive(d) /\ Dimmer!Quiet(d) = Quiet(d)
    /\ \A n \in Int : Dimmer!TwoBytes(n) = TwoBytes(n)
    /\ \A v : Dimmer!Steady(v) = Steady(v)
    /\ \A arg : Dimmer!Clamp(arg) = Clamp(arg)
    /\ Dimmer!Register = Register
    /\ Dimmer!SUCCESS = SUCCESS /\ Dimmer!COMM_ERROR = COMM_ERROR
    /\ SUCCESS # COMM_ERROR
BY DEF Dimmer!Drift, Drift, Dimmer!Gets, Gets, Dimmer!Arrive, Arrive,
       Dimmer!Quiet, Quiet, Dimmer!TwoBytes, TwoBytes, Dimmer!Steady, Steady,
       Dimmer!Clamp, Clamp, Dimmer!Register, Register,
       Dimmer!SUCCESS, SUCCESS, Dimmer!COMM_ERROR, COMM_ERROR

LEMMA BetweenTheSame ==
    ASSUME Typed, Running, NEW v \in Register
    PROVE  Between(before.dev, v) \subseteq Dimmer!Interrupted(v)
<1>1. before.dev \in Device
    BY TypeFacts
<1>2. SUFFICES ASSUME NEW d \in Between(before.dev, v) PROVE d \in Dimmer!Interrupted(v)
    OBVIOUS
<1>3. d \in {[level |-> l, target |-> v, moving |-> go] :
                l \in {before.dev.level, Arrive(before.dev).level, v}, go \in BOOLEAN}
    BY <1>1, BetweenIsInterrupted
<1>. QED
    BY <1>1, <1>3, PanelTheSame DEF Running, Dimmer!Interrupted

\* The two outcomes of set_inten().
LEMMA SetIntenFails ==
    ASSUME USBDInv, Running, call.op # "Connect", Faults, ReturnError, dev' = dev
    PROVE  Dimmer!SetInten(call.inten) /\ ret' = COMM_ERROR
<1> DEFINE v == TwoBytes(call.inten)
<1>1. /\ pc \notin {"none", "idle"} /\ pc' = "idle" /\ ret' = COMM_ERROR /\ synced' = FALSE
      /\ Typed /\ v \in Register /\ before.dev \in Device /\ call.inten \in Int
    BY TypeFacts, TwoBytesIsRegister DEF USBDInv, Running, ReturnError, Return
<1>2. dev \in Drift(before.dev) \/ dev \in Between(before.dev, v)
    BY DEF USBDInv, Setting
<1>3. dev \in Dimmer!Drift(before.dev) \cup Dimmer!Interrupted(Dimmer!TwoBytes(call.inten))
    BY <1>1, <1>2, PanelTheSame, BetweenTheSame
<1>. QED
    BY <1>1, <1>3, PanelTheSame DEF Dimmer!SetInten

LEMMA SetIntenSucceeds ==
    ASSUME USBDInv, Read, cmd = "GETSTATE", Arrived(Head(replies).val),
           Return(SUCCESS), SetSucceeds
    PROVE  Dimmer!SetInten(call.inten) /\ ret' = SUCCESS
<1> DEFINE v == TwoBytes(call.inten)
<1>1. /\ pc = "read" /\ pc' = "idle" /\ ret' = SUCCESS /\ synced' = synced /\ dev' = dev
      /\ Typed /\ v \in Register /\ before.dev \in Device /\ call.inten \in Int
      /\ Running
    BY TypeFacts, TwoBytesIsRegister DEF USBDInv, Read, Return, SetSucceeds, Running
<1>2. call.op # "Connect"
    BY <1>1 DEF USBDInv, Connecting
<1>3. /\ before.stale <=> Len(replies) >= 2
      /\ dev \in Between(before.dev, v)
      /\ dev.moving \/ dev = Steady(v)
      /\ Len(replies) = 1 /\ replies[1].val = 0 => dev = Steady(v)
    BY <1>1, <1>2 DEF USBDInv, Setting
<1>4. replies[1].val = 0
    BY ReadFacts DEF Arrived
<1>5. (replies' # <<>>) = before.stale
    <2>1. replies' # <<>> <=> Len(replies) >= 2
        BY ReadFacts
    <2>2. before.stale \in BOOLEAN /\ (replies' # <<>>) \in BOOLEAN
        BY <1>1 DEF Typed, Views
    <2>. QED
        BY <1>3, <2>1, <2>2
<1>6. dev \in Dimmer!Accepted(Dimmer!TwoBytes(call.inten))
    <2>1. CASE before.stale
        <3>1. dev \in Dimmer!Interrupted(v)
            BY <1>1, <1>3, BetweenTheSame
        <3>. QED
            BY <1>1, <1>3, <2>1, <3>1, PanelTheSame DEF Dimmer!Accepted
    <2>2. CASE ~before.stale
        <3>1. Len(replies) = 1
            BY <1>3, <2>2, ReadFacts
        <3>. QED
            BY <1>1, <1>3, <1>4, <3>1, PanelTheSame DEF Dimmer!Accepted
    <2>. QED
        BY <2>1, <2>2
<1>. QED
    BY <1>1, <1>5, <1>6, PanelTheSame DEF Dimmer!SetInten

\* The call the outcome belongs to.
LEMMA SetReturns ==
    ASSUME USBDInv, Running, call.op # "Connect", pc' = "idle",
           Dimmer!SetInten(call.inten), UNCHANGED <<m_handle, handles>>,
           \/ ret' = COMM_ERROR /\ UNCHANGED fields
           \/ ret' = SUCCESS /\ SetSucceeds
    PROVE  Returned
<1>1. /\ Purpose /\ before.m_handle /\ handles = before.handles
      /\ m_handle /\ pc \notin {"none", "idle"}
      /\ m_on \in BOOLEAN /\ before.m_handle \in BOOLEAN /\ m_handle \in BOOLEAN
    BY TypeFacts DEF USBDInv, Setting, Held, Running, Typed, TypeOK, ObjectTypeOK, Views
<1>2. before.m_handle = m_handle
    BY <1>1
<1>3. CASE call.op = "SetBrightness"
    <2>1. PICK arg \in Args : call.inten = Clamp(arg) /\ call.inten # m_brightness /\ m_on
        BY <1>1, <1>3 DEF Purpose
    <2>2. m_brightness' = IF ret' = SUCCESS THEN call.inten ELSE m_brightness
        BY <1>3, PanelTheSame DEF SetSucceeds, fields
    <2>3. m_on' = (ret' = SUCCESS => call.inten # 0)
        BY <1>1, <1>3, <2>1, PanelTheSame DEF SetSucceeds, fields
    <2>4. Dimmer!SetBrightness(arg)
        BY <1>1, <1>2, <2>1, <2>2, <2>3, PanelTheSame DEF Dimmer!SetBrightness
    <2>. QED
        BY <2>4 DEF Returned
<1>4. CASE call.op = "LightOn"
    <2>1. PICK on \in BOOLEAN : m_on # on /\ call.inten = IF on THEN m_brightness ELSE 0
        BY <1>1, <1>4 DEF Purpose
    <2>2. m_brightness' = m_brightness
        BY <1>4 DEF SetSucceeds, fields
    <2>3. m_on' = IF ret' = SUCCESS THEN call.inten > 0 ELSE m_on
        BY <1>4, PanelTheSame DEF SetSucceeds, fields
    <2>4. Dimmer!LightOn(on)
        BY <1>1, <1>2, <2>1, <2>2, <2>3, PanelTheSame DEF Dimmer!LightOn
    <2>. QED
        BY <2>4 DEF Returned
<1>. QED
    BY <1>1, <1>3, <1>4 DEF Purpose

LEMMA FailureRefines ==
    ASSUME USBDInv, Next, WriteFails \/ ReadFails
    PROVE  Returned
<1>1. /\ Running /\ Faults /\ ReturnError /\ dev' = dev /\ pc' = "idle"
      /\ UNCHANGED <<m_handle, handles, m_on, m_brightness>>
      /\ ret' = COMM_ERROR /\ synced' = FALSE
    BY DEF WriteFails, ReadFails, Running, ReturnError, Return, fields
<1>2. CASE call.op = "Connect"
    <2>1. /\ m_handle = TRUE /\ handles = before.handles + 1 /\ dev \in Drift(before.dev)
          /\ before.dev \in Device
        BY <1>1, <1>2, TypeFacts DEF USBDInv, Held, Connecting, Typed, TypeOK, ObjectTypeOK
    <2>2. Dimmer!GetIntenFails
        BY <1>1, <2>1, PanelTheSame DEF Dimmer!GetIntenFails, Dimmer!fields, Running
    <2>. QED
        BY <2>2 DEF Returned, Dimmer!Connect
<1>3. CASE call.op # "Connect"
    BY <1>1, <1>3, SetIntenFails, SetReturns DEF fields
<1>. QED
    BY <1>2, <1>3

LEMMA GetIntenRefines ==
    ASSUME USBDInv, Next, Read, cmd = "GETINTEN",
           ConnectSucceeds(Head(replies).val), Return(SUCCESS)
    PROVE  Returned
<1> DEFINE inten == Head(replies).val
<1>1. /\ Running /\ pc = "read" /\ pc' = "idle" /\ dev' = dev /\ ret' = SUCCESS
      /\ UNCHANGED <<m_handle, handles>>
    BY DEF Read, Return, Running
<1>2. call.op = "Connect"
    BY <1>1 DEF USBDInv, Setting
<1>3. /\ m_handle = TRUE /\ handles = before.handles + 1 /\ dev \in Drift(before.dev)
      /\ before.dev \in Device /\ call.quiet = Quiet(before.dev)
      /\ IF Len(replies) = 1 THEN inten \in Gets(before.dev) ELSE before.stale
    BY <1>1, <1>2, TypeFacts, ReadFacts
    DEF USBDInv, Held, Connecting, Typed, TypeOK, ObjectTypeOK
<1>4. /\ inten \in Register
      /\ m_on' = (inten > 0)
      /\ m_brightness' = IF inten > 0 THEN inten ELSE DefaultBrightness
      /\ synced' = (Tail(replies) = <<>> /\ call.quiet)
    BY ReadFacts DEF ConnectSucceeds
<1> HIDE DEF inten
<1>5. CASE Len(replies) = 1
    <2>1. replies' = <<>> /\ Tail(replies) = <<>>
        BY <1>5, ReadFacts
    <2>2. (replies' # <<>>) = FALSE
        BY <2>1
    <2>3. synced' = Dimmer!Quiet(before.dev)
        <3>1. Quiet(before.dev) \in BOOLEAN
            BY DEF Quiet
        <3>. QED
            BY <1>3, <1>4, <2>1, <3>1, PanelTheSame
    <2>4. inten \in Dimmer!Gets(before.dev) /\ dev' \in Dimmer!Drift(before.dev)
        BY <1>1, <1>3, <1>5, PanelTheSame
    <2>5. Dimmer!GetIntenReturns(inten)
        BY <1>1, <1>3, <1>4, <2>2, <2>3, <2>4, PanelTheSame DEF Dimmer!GetIntenReturns, Running
    <2>. QED
        BY <1>4, <2>5, PanelTheSame DEF Returned, Dimmer!Connect
<1>6. CASE Len(replies) # 1
    <2>1. (replies' # <<>>) = TRUE /\ synced' = FALSE
        BY <1>4, <1>6, ReadFacts
    <2>2. before.stale /\ dev' \in Dimmer!Drift(before.dev)
        BY <1>1, <1>3, <1>6, PanelTheSame
    <2>3. Dimmer!GetIntenReturns(inten)
        BY <1>1, <1>3, <1>4, <2>1, <2>2, PanelTheSame DEF Dimmer!GetIntenReturns, Running
    <2>. QED
        BY <1>4, <2>3, PanelTheSame DEF Returned, Dimmer!Connect
<1>. QED
    BY <1>5, <1>6

LEMMA ReadRefines ==
    ASSUME USBDInv, Next, Read
    PROVE  Returned \/ UNCHANGED Dimmer!dimmerVars
<1>1. CASE cmd = "GETINTEN" /\ ConnectSucceeds(Head(replies).val) /\ Return(SUCCESS)
    BY <1>1, GetIntenRefines
<1>2. CASE cmd = "GETSTATE" /\ Arrived(Head(replies).val) /\ SetSucceeds /\ Return(SUCCESS)
    <2>1. Running /\ call.op # "Connect"
        BY <1>2 DEF Read, Running, USBDInv, Connecting
    <2>. QED
        BY <1>2, <2>1, SetIntenSucceeds, SetReturns DEF Return
<1>3. CASE pc' = "write" /\ UNCHANGED <<m_on, m_brightness, synced, ret>>
    BY <1>3, Hidden DEF Read
<1>. QED
    BY <1>1, <1>2, <1>3 DEF Read

LEMMA SettleRefines ==
    ASSUME USBDInv, Next, Settle
    PROVE  Dimmer!Settle \/ UNCHANGED Dimmer!dimmerVars
<1>0. dev \in Device
    BY TypeFacts DEF USBDInv
<1>1. CASE pc \in {"none", "idle"}
    BY <1>0, <1>1, PanelTheSame DEF Settle, objectVars, Dimmer!Settle
<1>2. CASE pc \notin {"none", "idle"}
    BY <1>2 DEF Settle, objectVars, Next, Dimmer!dimmerVars
<1>. QED
    BY <1>1, <1>2

LEMMA NextRefines ==
    USBDInv /\ [Next]_vars => [Dimmer!DimmerNext]_(Dimmer!dimmerVars)
<1> SUFFICES ASSUME USBDInv, [Next]_vars
             PROVE  Dimmer!DimmerNext \/ UNCHANGED Dimmer!dimmerVars
    OBVIOUS
<1>1. CASE Next
    <2>1. CASE \E val \in Args : USBD_SetBrightness(val)
        BY <1>1, <2>1, SetBrightnessRefines DEF USBD_SetBrightness, Dimmer!DimmerNext
    <2>2. CASE \E on \in BOOLEAN : USBD_LightOn(on)
        BY <1>1, <2>2, LightOnRefines DEF USBD_LightOn, Dimmer!DimmerNext
    <2>3. CASE USBD_Open \/ USBD_Close
        BY <1>1, <2>3, OpenRefines DEF USBD_Open, USBD_Close, Dimmer!DimmerNext
    <2>4. CASE OpenFails \/ USBD_Disconnect
        BY <2>4, OpenFailsRefines, DisconnectRefines DEF USBD_Disconnect, Dimmer!DimmerNext
    <2>5. CASE Connect
        <3>1. /\ pc = "idle" /\ pc' = "write"
              /\ UNCHANGED <<dev, m_on, m_brightness, synced, ret>>
            BY <2>5 DEF Connect, Begin
        <3>. QED
            BY <1>1, <3>1, Hidden
    <2>6. CASE Write
        <3>1. pc = "write" /\ pc' = "read" /\ UNCHANGED <<m_on, m_brightness, synced, ret>>
            BY <2>6 DEF Write
        <3>. QED
            BY <1>1, <3>1, Hidden
    <2>7. CASE WriteFails \/ ReadFails
        BY <1>1, <2>7, FailureRefines DEF Returned, Dimmer!DimmerNext
    <2>8. CASE Read
        BY <1>1, <2>8, ReadRefines DEF Returned, Dimmer!DimmerNext
    <2>9. CASE Settle
        BY <1>1, <2>9, SettleRefines DEF Dimmer!DimmerNext
    <2>. QED
        BY <1>1, <2>1, <2>2, <2>3, <2>4, <2>5, <2>6, <2>7, <2>8, <2>9
        DEF Next, Step, USBD_Connect, Exchanging
<1>2. CASE UNCHANGED vars
    BY <1>2 DEF vars, objectVars, Dimmer!dimmerVars
<1>. QED
    BY <1>1, <1>2

\* Whatever the exchanges of a call run into, it has one of the outcomes
\* module Dimmer allows, with which its promises, and those of the emulator
\* built on it, hold of the exchanges (usbdimmer.cpp:70-277).
THEOREM ExchangesImplementDimmer == Spec => ImplementsDimmer
BY InitRefines, InvHolds, NextRefines, PTL DEF Spec, ImplementsDimmer, Dimmer!DimmerSpec
=============================================================================
