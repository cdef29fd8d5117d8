--------------------------- MODULE EmulatorProofs ---------------------------
(***************************************************************************)
(* The emulator, proved for every panel, table, client and pattern of      *)
(* failures: it uses the dimmer as module Dimmer allows, holds one handle  *)
(* at most, and through a synced handle reports what the panel shows.      *)
(***************************************************************************)
EXTENDS Emulator, DimmerProofs

\* The state flag covers the panel's: TRUE whenever the light is on.
LightCovered == synced /\ m_on => light

EmulatorInv ==
    /\ TypeOK
    /\ DimmerInv
    /\ OneHandle
    /\ LightCovered
    /\ ReportsCachedLevel
    /\ ResponseKept

-----------------------------------------------------------------------------
(* What the calls of the dimmer do, as far as the emulator depends on it.  *)

LEMMA LightOnEffect ==
    ASSUME DimmerInv, NEW on \in BOOLEAN, LightOn(on)
    PROVE  /\ m_handle' = m_handle /\ handles' = handles
           /\ m_brightness' = m_brightness
           /\ synced' => /\ synced /\ ret' = SUCCESS
                         /\ m_on' => on
                         /\ on => m_on' \/ m_brightness = 0
<1> DEFINE inten == IF on THEN m_brightness ELSE 0
<1>0. m_on \in BOOLEAN /\ m_brightness \in Int /\ inten \in Int
    BY DEF DimmerInv, DimmerTypeOK
<1>1. CASE ~m_handle /\ Returns(NOT_CONNECTED) /\ UNCHANGED fields
    BY <1>1 DEF Returns, fields, DimmerInv, SyncedCache
<1>2. CASE m_handle /\ m_on = on /\ Returns(SUCCESS) /\ UNCHANGED fields
    BY <1>2 DEF Returns, fields, DimmerInv, SyncedCache
<1>3. CASE /\ m_handle /\ m_on # on /\ SetInten(inten)
           /\ m_on' = IF ret' = SUCCESS THEN inten > 0 ELSE m_on
           /\ UNCHANGED <<m_handle, m_brightness, handles>>
    <2>1. synced' => synced /\ ret' = SUCCESS
        BY <1>0, <1>3, SetIntenEffect
    <2>2. ASSUME synced' PROVE m_brightness \in Nat
        BY <2>1, <2>2, PanelAssumption DEF DimmerInv, SyncedCache, Register
    <2>3. ASSUME synced' PROVE m_on' = (inten > 0)
        BY <1>3, <2>1, <2>3
    <2>4. ASSUME synced', m_on' PROVE on
        <3>1. inten > 0
            BY <2>3, <2>4
        <3>2. ~on => inten = 0
            OBVIOUS
        <3>. QED
            BY <3>1, <3>2, <1>0
    <2>5. ASSUME synced', on PROVE m_on' \/ m_brightness = 0
        <3>1. m_on' = (m_brightness > 0)
            BY <2>3, <2>5
        <3>2. m_brightness > 0 \/ m_brightness = 0
            BY <2>2, <2>5
        <3>. QED
            BY <3>1, <3>2
    <2>. QED
        BY <1>3, <2>1, <2>4, <2>5
<1>. QED
    BY <1>1, <1>2, <1>3 DEF LightOn

LEMMA SetBrightnessEffect ==
    ASSUME DimmerInv, NEW arg \in Args, SetBrightness(arg)
    PROVE  /\ m_handle' = m_handle /\ handles' = handles
           /\ synced' => /\ synced /\ ret' = SUCCESS
                         /\ m_brightness' = Clamp(arg)
                         /\ m_on' => m_on
<1> DEFINE val == Clamp(arg)
<1>0. m_on \in BOOLEAN /\ val \in Int
    BY ClampIsRegister, Ranges DEF DimmerInv, DimmerTypeOK
<1>1. CASE ~m_handle /\ Returns(NOT_CONNECTED) /\ UNCHANGED fields
    BY <1>1 DEF Returns, fields, DimmerInv, SyncedCache
<1>2. CASE m_handle /\ val = m_brightness /\ Returns(SUCCESS) /\ UNCHANGED fields
    BY <1>2 DEF Returns, fields, DimmerInv, SyncedCache
<1>3. CASE /\ m_handle /\ ~m_on /\ m_brightness' = val
           /\ Returns(SUCCESS) /\ UNCHANGED m_on
    BY <1>3 DEF Returns
<1>4. CASE /\ m_handle /\ m_on /\ SetInten(val)
           /\ m_brightness' = IF ret' = SUCCESS THEN val ELSE m_brightness
           /\ UNCHANGED <<m_handle, handles>>
    <2>1. synced' => synced /\ ret' = SUCCESS
        BY <1>0, <1>4, SetIntenEffect
    <2>. QED
        BY <1>4, <2>1
<1>. QED
    BY <1>1, <1>2, <1>3, <1>4 DEF SetBrightness

-----------------------------------------------------------------------------
(* The emulator's steps are the dimmer's, or none.                         *)

LEMMA BytesAreArgs == \A n \in Nat : ToByte(n) \in Levels /\ usbd_val(ToByte(n)) \in Args
<1>1. \A n \in Nat : ToByte(n) \in Levels
    BY MapAssumption DEF ToByte, Levels
<1>. QED
    BY <1>1, EmulatorAssumption

LEMMA RequestArg == TypeOK /\ req.cmd = "B" => req.arg \in Nat
<1> SUFFICES ASSUME TypeOK, req.cmd = "B" PROVE req.arg \in Nat
    OBVIOUS
<1>1. CASE req = None
    BY <1>1 DEF None
<1>2. CASE req \in [cmd : {"S", "L", "D", "J", "V"}, arg : {0}]
    BY <1>2
<1>3. CASE req \in [cmd : {"B"}, arg : Asked]
    BY <1>3, EmulatorAssumption
<1>. QED
    BY <1>1, <1>2, <1>3 DEF TypeOK, Requests

LEMMA StepRefines == TypeOK /\ [Next]_vars => [DimmerNext]_dimmerVars
<1> SUFFICES ASSUME TypeOK, [Next]_vars PROVE [DimmerNext]_dimmerVars
    OBVIOUS
<1>1. ASSUME NEW r \in Requests, Receive(r) PROVE [DimmerNext]_dimmerVars
    BY <1>1 DEF Receive, AlreadyConnected, ConnectPanel, DimmerNext
<1>2. CASE ServeQuery
    BY <1>2 DEF ServeQuery
<1>3. CASE ServeLight
    <2>1. (req.cmd = "L") \in BOOLEAN
        OBVIOUS
    <2>. QED
        BY <1>3, <2>1 DEF ServeLight, DimmerNext
<1>4. CASE ServeBrightness
    <2>1. usbd_val(ToByte(req.arg)) \in Args
        BY <1>4, RequestArg, BytesAreArgs DEF ServeBrightness
    <2>. QED
        BY <1>4, <2>1 DEF ServeBrightness, DimmerNext
<1>5. CASE DisconnectPanel
    BY <1>5 DEF DisconnectPanel, DimmerNext
<1>6. CASE Elapse
    BY <1>6 DEF Elapse
<1>7. CASE ReadTimeout
    BY <1>7 DEF ReadTimeout, DimmerNext
<1>8. CASE Exit
    BY <1>8 DEF Exit, DimmerNext
<1>9. CASE ClientLeaves
    BY <1>9 DEF ClientLeaves
<1>10. CASE PanelSettles
    BY <1>10 DEF PanelSettles, DimmerNext
<1>11. CASE ClockIsSet
    BY <1>11 DEF ClockIsSet
<1>12. CASE UNCHANGED vars
    BY <1>12 DEF vars
<1>13. CASE Abort
    BY <1>13 DEF Abort, DimmerNext
<1>. QED
    BY <1>1, <1>2, <1>3, <1>4, <1>5, <1>6, <1>7, <1>8, <1>9, <1>10, <1>11, <1>12, <1>13
    DEF Next, Step, Serve

-----------------------------------------------------------------------------
(* Types.                                                                  *)

LEMMA Constants ==
    /\ IdleTimeout \in Nat /\ MaxAhead \in Nat /\ IdleTimeout <= MaxAhead
    /\ MaxLvl \in Levels /\ Levels \subseteq Nat
    /\ \A r \in Register : level_of[r] \in Levels
    /\ None.cmd = "none"
BY EmulatorAssumption, MapAssumption DEF Levels, None

LEMMA DigitsAreNat == \A lvl \in Levels : TwoDigits(lvl) \in Nat
<1>1. Levels \subseteq Nat /\ Base \in Nat \ {0}
    BY Constants, EmulatorAssumption
<1>2. \A n \in Nat, b \in Nat \ {0} : n \div b \in Nat
    OBVIOUS
<1>. QED
    BY <1>1, <1>2 DEF TwoDigits

LEMMA RespondTypes ==
    ASSUME TypeOK, req # None, NEW arg \in Nat, Respond(arg)
    PROVE  /\ pc' = "read" /\ req' = None /\ gone' = gone
           /\ resp' \in Responses
           /\ remaining' \in Expired..MaxAhead
           /\ quiet' \in 0..Forever
           /\ jumped' \in BOOLEAN
<1>1. req.cmd \in {"S", "L", "D", "J", "V", "B"}
    BY DEF TypeOK, Requests
<1>2. resp' \in Responses
    BY <1>1 DEF Respond, Responses
<1>3. jumped' \in BOOLEAN
    BY Zenon DEF Respond, UpdateDisconnectTime
<1>. QED
    BY <1>2, <1>3, Constants DEF Respond, UpdateDisconnectTime, Expired, Forever

LEMMA ServeTypes ==
    ASSUME TypeOK, DimmerTypeOK', failed' \in BOOLEAN, Serve
    PROVE  TypeOK'
<1> USE Constants
<1>0. req.cmd # "none" => req # None
    OBVIOUS
<1>1. CASE ServeQuery
    <2>1. /\ light' = light /\ blvl' = blvl /\ req # None
          /\ \E arg \in Nat : Respond(arg)
        <3>1. (IF light THEN 1 ELSE 0) \in Nat /\ TwoDigits(blvl) \in Nat /\ 999 \in Nat
            BY DigitsAreNat DEF TypeOK
        <3>. QED
            BY <1>0, <1>1, <3>1 DEF ServeQuery
    <2>. QED
        BY <2>1, RespondTypes DEF TypeOK
<1>2. CASE ServeLight
    <2>1. req # None /\ light' \in BOOLEAN /\ blvl' = blvl
        BY <1>0, <1>2 DEF ServeLight, GiveUp, TypeOK
    <2>2. CASE Respond(0)
        BY <2>1, <2>2, RespondTypes DEF TypeOK
    <2>3. CASE GiveUp
        BY <2>1, <2>3 DEF TypeOK, GiveUp
    <2>. QED
        BY <1>2, <2>2, <2>3 DEF ServeLight
<1>3. CASE ServeBrightness
    <2>1. req # None /\ req.arg \in Nat /\ ToByte(req.arg) \in Levels
        BY <1>0, <1>3, RequestArg, BytesAreArgs DEF ServeBrightness
    <2>2. light' = light /\ blvl' \in Levels
        BY <1>3, <2>1 DEF ServeBrightness, GiveUp, TypeOK
    <2>3. CASE Respond(req.arg)
        BY <2>1, <2>2, <2>3, RespondTypes DEF TypeOK
    <2>4. CASE GiveUp
        BY <2>2, <2>4 DEF TypeOK, GiveUp
    <2>. QED
        BY <1>3, <2>3, <2>4 DEF ServeBrightness
<1>4. CASE Abort
    BY <1>4 DEF Abort, TypeOK
<1>. QED
    BY <1>1, <1>2, <1>3, <1>4 DEF Serve

LEMMA ReceiveTypes ==
    ASSUME TypeOK, DimmerInv', failed' \in BOOLEAN, NEW r \in Requests, Receive(r)
    PROVE  TypeOK'
<1>1. /\ req' \in Requests \cup {None} /\ resp' = None
      /\ quiet' = quiet /\ gone' = gone
    BY DEF Receive
<1>2. DimmerTypeOK'
    BY DEF DimmerInv
<1>3. CASE AlreadyConnected
    BY <1>1, <1>2, <1>3 DEF AlreadyConnected, TypeOK
<1>4. CASE ConnectPanel /\ ret' = SUCCESS /\ CopyState /\ pc' = "serve" /\ UpdateDisconnectTime
    <2>1. m_brightness' \in Register
        BY <1>4, Ranges DEF ConnectPanel, Connect, OpenFails, GetIntenFails,
            GetIntenReturns, SUCCESS, COMM_ERROR
    <2>2. light' \in BOOLEAN /\ blvl' \in Levels
        BY <1>2, <1>4, <2>1, Constants DEF CopyState, DimmerTypeOK
    <2>3. jumped' \in BOOLEAN
        BY <1>4, Zenon DEF UpdateDisconnectTime
    <2>. QED
        BY <1>1, <1>2, <1>4, <2>2, <2>3, Constants
        DEF TypeOK, UpdateDisconnectTime, Expired
<1>5. CASE pc' = "read" /\ UNCHANGED <<light, blvl, remaining, jumped>>
    BY <1>1, <1>2, <1>5 DEF TypeOK
<1>. QED
    BY <1>3, <1>4, <1>5 DEF Receive, ConnectPanel

LEMMA PassesTypes ==
    TypeOK /\ Passes => remaining' \in Expired..MaxAhead /\ quiet' \in 0..Forever
BY Constants DEF TypeOK, Passes, Expired, Forever

LEMMA TypeKeeps ==
    ASSUME TypeOK, DimmerInv', [Next]_vars
    PROVE  TypeOK'
<1>0. DimmerTypeOK' /\ failed' \in BOOLEAN
    BY DEF DimmerInv, Next, vars, TypeOK
<1>1. ASSUME NEW r \in Requests, Receive(r) PROVE TypeOK'
    BY <1>0, <1>1, ReceiveTypes
<1>2. CASE Serve
    BY <1>0, <1>2, ServeTypes
<1>3. CASE DisconnectPanel
    BY <1>0, <1>3 DEF DisconnectPanel, TypeOK
<1>4. CASE Elapse
    BY <1>0, <1>4, PassesTypes DEF Elapse, TypeOK
<1>5. CASE ReadTimeout
    BY <1>0, <1>5, PassesTypes DEF ReadTimeout, TypeOK
<1>6. CASE Exit
    BY <1>0, <1>6 DEF Exit, TypeOK
<1>7. CASE ClientLeaves
    BY <1>0, <1>7 DEF ClientLeaves, TypeOK
<1>8. CASE PanelSettles
    BY <1>0, <1>8 DEF PanelSettles, emulatorVars, TypeOK
<1>9. CASE ClockIsSet
    BY <1>0, <1>9, Constants DEF ClockIsSet, TypeOK, Forever
<1>10. CASE UNCHANGED vars
    BY <1>0, <1>10 DEF vars, emulatorVars, TypeOK
<1>. QED
    BY <1>1, <1>2, <1>3, <1>4, <1>5, <1>6, <1>7, <1>8, <1>9, <1>10 DEF Next, Step

-----------------------------------------------------------------------------
(* One handle.                                                             *)

LEMMA DisconnectCounts == OneHandle /\ m_handle /\ Disconnect => handles' = 0 /\ ~m_handle'
BY DEF OneHandle, Disconnect

LEMMA OneHandleKeeps ==
    ASSUME TypeOK, DimmerInv, OneHandle, [Next]_vars
    PROVE  OneHandle'
<1>1. ASSUME NEW r \in Requests, Receive(r) PROVE OneHandle'
    <2>1. CASE AlreadyConnected
        BY <2>1 DEF AlreadyConnected, dimmerVars, OneHandle
    <2>2. CASE ConnectPanel
        BY <2>2 DEF ConnectPanel, Connect, OpenFails, GetIntenFails, GetIntenReturns, OneHandle
    <2>. QED
        BY <1>1, <2>1, <2>2 DEF Receive
<1>2. CASE ServeQuery
    BY <1>2 DEF ServeQuery, dimmerVars, OneHandle, Respond
<1>3. CASE ServeLight
    <2>1. m_handle' = m_handle /\ handles' = handles
        BY <1>3, LightOnEffect DEF ServeLight
    <2>2. pc' # "exit"
        BY <1>3 DEF ServeLight, Respond, GiveUp
    <2>. QED
        BY <2>1, <2>2 DEF OneHandle
<1>4. CASE ServeBrightness
    <2>1. usbd_val(ToByte(req.arg)) \in Args
        BY <1>4, RequestArg, BytesAreArgs DEF ServeBrightness
    <2>2. m_handle' = m_handle /\ handles' = handles
        BY <1>4, <2>1, SetBrightnessEffect DEF ServeBrightness
    <2>3. pc' # "exit"
        BY <1>4 DEF ServeBrightness, Respond, GiveUp
    <2>. QED
        BY <2>2, <2>3 DEF OneHandle
<1>5. CASE DisconnectPanel
    BY <1>5, DisconnectCounts DEF DisconnectPanel, OneHandle, Disconnect
<1>6. CASE Elapse
    BY <1>6 DEF Elapse, dimmerVars, OneHandle
<1>7. CASE ReadTimeout
    <2>1. CASE Idle /\ Disconnect
        BY <1>7, <2>1, DisconnectCounts DEF ReadTimeout, OneHandle, Idle
    <2>2. CASE UNCHANGED dimmerVars
        BY <1>7, <2>2 DEF ReadTimeout, dimmerVars, OneHandle
    <2>. QED
        BY <1>7, <2>1, <2>2 DEF ReadTimeout
<1>8. CASE Exit
    <2>1. CASE m_handle /\ Disconnect
        BY <2>1, DisconnectCounts DEF OneHandle
    <2>2. CASE ~m_handle /\ UNCHANGED dimmerVars
        BY <2>2 DEF dimmerVars, OneHandle
    <2>. QED
        BY <1>8, <2>1, <2>2 DEF Exit
<1>9. CASE ClientLeaves
    BY <1>9 DEF ClientLeaves, dimmerVars, OneHandle
<1>10. CASE PanelSettles
    BY <1>10 DEF PanelSettles, Settle, emulatorVars, OneHandle
<1>11. CASE ClockIsSet
    BY <1>11 DEF ClockIsSet, dimmerVars, OneHandle
<1>12. CASE UNCHANGED vars
    BY <1>12 DEF vars, dimmerVars, emulatorVars, OneHandle
<1>13. CASE Abort
    BY <1>13, DisconnectCounts DEF Abort, Disconnect, OneHandle
<1>. QED
    BY <1>1, <1>2, <1>3, <1>4, <1>5, <1>6, <1>7, <1>8, <1>9, <1>10, <1>11, <1>12, <1>13
    DEF Next, Step, Serve

-----------------------------------------------------------------------------
(* What is reported and promised.                                          *)

\* The three parts that speak of synced handles only.
Reported == LightCovered /\ ReportsCachedLevel /\ ResponseKept

LEMMA NotSynced == ~synced' => Reported'
BY DEF Reported, LightCovered, ReportsCachedLevel, ResponseKept

\* Steps that leave the dimmer and the emulator's copy alone, and write no
\* response.
LEMMA CopyUntouched ==
    ASSUME Reported, UNCHANGED <<dimmerVars, light, blvl>>,
           resp' = resp \/ resp' = None
    PROVE  Reported'
<1>1. UNCHANGED <<dev, m_on, m_brightness, synced>>
    BY DEF dimmerVars
<1>2. LightCovered' /\ ReportsCachedLevel'
    BY <1>1 DEF Reported, LightCovered, ReportsCachedLevel, Near
<1>3. ResponseKept'
    BY <1>1, Constants DEF Reported, ResponseKept
<1>. QED
    BY <1>2, <1>3 DEF Reported

LEMMA ReceiveReports ==
    ASSUME Reported, DimmerInv', NEW r \in Requests, Receive(r)
    PROVE  Reported'
<1>1. resp' = None
    BY DEF Receive
<1>2. CASE AlreadyConnected
    BY <1>1, <1>2, CopyUntouched DEF AlreadyConnected
<1>3. CASE ConnectPanel /\ synced'
    <2>1. CopyState
        BY <1>3 DEF ConnectPanel, Connect, OpenFails, GetIntenFails,
            GetIntenReturns, SUCCESS, COMM_ERROR
    <2>2. m_brightness' \in Register
        BY <1>3 DEF DimmerInv, SyncedCache
    <2>3. Near(blvl, m_brightness)'
        BY <2>1, <2>2, EmulatorAssumption DEF CopyState, Near
    <2>. QED
        BY <1>1, <2>1, <2>3, Constants
        DEF Reported, LightCovered, ReportsCachedLevel, ResponseKept, CopyState
<1>. QED
    BY <1>2, <1>3, NotSynced DEF Receive

LEMMA ServeQueryReports ==
    ASSUME Reported, ServeQuery
    PROVE  Reported'
<1>1. UNCHANGED <<dev, m_on, m_brightness, synced, light, blvl>>
    BY DEF ServeQuery, dimmerVars
<1>2. resp'.cmd \in {"S", "J", "V"}
    BY DEF ServeQuery, Respond
<1>3. LightCovered' /\ ReportsCachedLevel'
    BY <1>1 DEF Reported, LightCovered, ReportsCachedLevel, Near
<1>4. ResponseKept'
    BY <1>2 DEF ResponseKept
<1>. QED
    BY <1>3, <1>4 DEF Reported

LEMMA ServeLightReports ==
    ASSUME Reported, DimmerInv, DimmerInv', ServeLight, synced'
    PROVE  Reported'
<1> DEFINE on == req.cmd = "L"
<1>1. /\ synced /\ ret' = SUCCESS
      /\ m_on' => on
      /\ on => m_on' \/ m_brightness = 0
      /\ m_brightness' = m_brightness
    <2>1. on \in BOOLEAN
        OBVIOUS
    <2>. QED
        BY <2>1, LightOnEffect DEF ServeLight
<1>2. /\ light' = on /\ blvl' = blvl
      /\ req.cmd \in {"L", "D"} /\ resp' = [cmd |-> req.cmd, arg |-> 0]
    BY <1>1 DEF ServeLight, Respond, GiveUp
<1>3. dev' = Steady((Shown)')
    BY DEF DimmerInv, SyncedCache, Steady
<1>4. (Shown)' = IF on THEN m_brightness' ELSE 0
    BY <1>1 DEF Shown
<1>5. LightCovered' /\ ReportsCachedLevel'
    BY <1>1, <1>2 DEF Reported, LightCovered, ReportsCachedLevel, Near
<1>6. ResponseKept'
    BY <1>2, <1>3, <1>4 DEF ResponseKept, Steady
<1>. QED
    BY <1>5, <1>6 DEF Reported

LEMMA ServeBrightnessReports ==
    ASSUME TypeOK, Reported, DimmerInv, DimmerInv', ServeBrightness, synced'
    PROVE  Reported'
<1> DEFINE arg == usbd_val(ToByte(req.arg))
<1>1. arg \in Args
    BY RequestArg, BytesAreArgs DEF ServeBrightness
<1>2. synced /\ ret' = SUCCESS /\ m_brightness' = Clamp(arg) /\ (m_on' => m_on)
    BY <1>1, SetBrightnessEffect DEF ServeBrightness
<1>3. /\ light' = light /\ blvl' = ToByte(req.arg)
      /\ req.cmd = "B" /\ resp' = [cmd |-> "B", arg |-> req.arg]
    BY <1>2 DEF ServeBrightness, Respond, GiveUp
<1>4. dev' = Steady((Shown)')
    BY DEF DimmerInv, SyncedCache, Steady
<1>5. (Shown)' \in {0, Clamp(arg)}
    BY <1>2 DEF Shown
<1>6. LightCovered'
    BY <1>2, <1>3 DEF Reported, LightCovered
<1>7. ReportsCachedLevel'
    BY <1>2, <1>3 DEF ReportsCachedLevel
<1>8. ResponseKept'
    BY <1>2, <1>3, <1>4, <1>5 DEF ResponseKept, Steady
<1>. QED
    BY <1>6, <1>7, <1>8 DEF Reported

LEMMA ReportedKeeps ==
    ASSUME TypeOK, DimmerInv, DimmerInv', Reported, [Next]_vars
    PROVE  Reported'
<1>1. ASSUME NEW r \in Requests, Receive(r) PROVE Reported'
    BY <1>1, ReceiveReports
<1>2. CASE ServeQuery
    BY <1>2, ServeQueryReports
<1>3. CASE ServeLight
    BY <1>3, ServeLightReports, NotSynced
<1>4. CASE ServeBrightness
    BY <1>4, ServeBrightnessReports, NotSynced
<1>5. CASE DisconnectPanel
    BY <1>5, NotSynced DEF DisconnectPanel, Disconnect
<1>6. CASE Elapse
    BY <1>6, CopyUntouched DEF Elapse
<1>7. CASE ReadTimeout
    BY <1>7, CopyUntouched, NotSynced DEF ReadTimeout, Disconnect
<1>8. CASE Exit
    BY <1>8, CopyUntouched, NotSynced DEF Exit, Disconnect
<1>9. CASE ClientLeaves
    BY <1>9, CopyUntouched DEF ClientLeaves
<1>10. CASE PanelSettles
    <2>1. synced' = synced /\ (synced => ~dev.moving)
        BY <1>10 DEF PanelSettles, Settle, DimmerInv, SyncedCache, Steady
    <2>. QED
        BY <1>10, <2>1, NotSynced DEF PanelSettles, Settle
<1>11. CASE ClockIsSet
    BY <1>11, CopyUntouched DEF ClockIsSet
<1>12. CASE UNCHANGED vars
    BY <1>12, CopyUntouched DEF vars, emulatorVars
<1>13. CASE Abort
    BY <1>13, NotSynced DEF Abort, Disconnect
<1>. QED
    BY <1>1, <1>2, <1>3, <1>4, <1>5, <1>6, <1>7, <1>8, <1>9, <1>10, <1>11, <1>12, <1>13
    DEF Next, Step, Serve

-----------------------------------------------------------------------------
(* The induction.                                                          *)

LEMMA EmulatorInit == Init => EmulatorInv
<1> SUFFICES ASSUME Init PROVE EmulatorInv
    OBVIOUS
<1>1. DimmerInv
    BY InitEstablishes DEF Init
<1>2. TypeOK
    <2>1. remaining \in Expired..MaxAhead /\ quiet \in 0..Forever
        BY Constants DEF Init, Expired, Forever
    <2>. QED
        BY <1>1, <2>1, Constants DEF Init, DimmerInv, TypeOK
<1>3. OneHandle
    BY DEF Init, DimmerInit, OneHandle
<1>4. LightCovered /\ ReportsCachedLevel /\ ResponseKept
    BY DEF Init, DimmerInit, LightCovered, ReportsCachedLevel, ResponseKept
<1>. QED
    BY <1>1, <1>2, <1>3, <1>4 DEF EmulatorInv

LEMMA EmulatorNext == EmulatorInv /\ [Next]_vars => EmulatorInv'
<1> SUFFICES ASSUME EmulatorInv, [Next]_vars PROVE EmulatorInv'
    OBVIOUS
<1>1. DimmerInv'
    BY StepRefines, NextKeeps DEF EmulatorInv
<1>2. TypeOK'
    BY <1>1, TypeKeeps DEF EmulatorInv
<1>3. OneHandle'
    BY OneHandleKeeps DEF EmulatorInv
<1>4. Reported'
    BY <1>1, ReportedKeeps DEF EmulatorInv, Reported
<1>. QED
    BY <1>1, <1>2, <1>3, <1>4 DEF EmulatorInv, Reported

THEOREM EmulatorInvariance == Spec => []EmulatorInv
<1>. QED
    BY EmulatorInit, EmulatorNext, PTL DEF Spec

\* The emulator is one of the callers module Dimmer describes, so what is
\* proved of the dimmer holds of the emulator's (emu.cpp against
\* usbdimmer.h).
THEOREM UsesDimmer == Spec => DimmerSpec
<1>1. Init => DimmerInit
    BY DEF Init
<1>2. EmulatorInv /\ [Next]_vars => [DimmerNext]_dimmerVars
    BY StepRefines DEF EmulatorInv
<1>. QED
    BY <1>1, <1>2, EmulatorInvariance, PTL DEF Spec, DimmerSpec

\* Types are kept; in particular blvl, which is sent back to the client,
\* stays a byte whatever number a B request carried (alnitak_emu.h:46).
THEOREM EmulatorTypeCorrect == Spec => []TypeOK
<1>1. EmulatorInv => TypeOK
    BY DEF EmulatorInv
<1>. QED
    BY <1>1, EmulatorInvariance, PTL

\* No sequence of requests, failures, timeouts and exits leaks a HID handle
\* (emu.cpp:64-87, alnitak_emu.h:77-80).
THEOREM NeverLeaks == Spec => []OneHandle
<1>1. EmulatorInv => OneHandle
    BY DEF EmulatorInv
<1>. QED
    BY <1>1, EmulatorInvariance, PTL

\* Through a synced handle a lit panel is never reported off
\* (alnitak_emu.cpp:92, 125-133).
THEOREM LitPanelReported == Spec => []NeverReportsLitPanelOff
<1>1. EmulatorInv => NeverReportsLitPanelOff
    <2> SUFFICES ASSUME EmulatorInv, synced, dev.level > 0 PROVE light
        BY DEF NeverReportsLitPanelOff
    <2>1. dev.level = Shown
        BY DEF EmulatorInv, DimmerInv, SyncedCache, Steady
    <2>2. m_on
        BY <2>1 DEF Shown
    <2>. QED
        BY <2>2 DEF EmulatorInv, LightCovered
<1>. QED
    BY <1>1, EmulatorInvariance, PTL

\* Through a synced handle the brightness in a J response stands for the
\* cached intensity (alnitak_emu.cpp:93, 135-144).
THEOREM CachedLevelReported == Spec => []ReportsCachedLevel
<1>1. EmulatorInv => ReportsCachedLevel
    BY DEF EmulatorInv
<1>. QED
    BY <1>1, EmulatorInvariance, PTL

\* Through a synced handle the responses to L, D and B tell the truth about
\* the panel for as long as they are the last word (emu.cpp:159-211).
THEOREM ResponsesKept == Spec => []ResponseKept
<1>1. EmulatorInv => ResponseKept
    BY DEF EmulatorInv
<1>. QED
    BY <1>1, EmulatorInvariance, PTL

-----------------------------------------------------------------------------
(* No failure, no divergence.                                              *)

\* Until a HID call fails no answer is late, the panel rests between calls
\* and the handle is synced.
InOrder == ~failed => ~stale /\ Quiet(dev) /\ (m_handle => synced)

LEMMA QuietDevice == Quiet(dev) => ~dev.moving /\ Drift(dev) = {dev}
BY DEF Quiet, Steady, Drift, Arrive

LEMMA SteadyQuiet == \A v : Quiet(Steady(v))
BY DEF Quiet, Steady

\* A call that does not fail leaves it so.
LEMMA DimmerInOrder ==
    ASSUME DimmerTypeOK, ~stale, Quiet(dev), m_handle => synced,
           [DimmerNext]_dimmerVars, ret' # COMM_ERROR
    PROVE  ~stale' /\ Quiet(dev)' /\ (m_handle' => synced')
<1>1. ASSUME NEW v, SetInten(v) PROVE ~stale' /\ Quiet(dev)' /\ synced' = synced
    <2>1. dev' = Steady(TwoBytes(v)) /\ UNCHANGED <<stale, synced>>
        BY <1>1 DEF SetInten, Accepted
    <2>. QED
        BY <2>1, SteadyQuiet
<1>2. ASSUME UNCHANGED <<dev, stale, m_handle, synced>>
      PROVE  ~stale' /\ Quiet(dev)' /\ (m_handle' => synced')
    BY <1>2 DEF Quiet
<1>3. CASE Connect
    <2>1. \E inten \in Register : GetIntenReturns(inten)
        BY <1>3 DEF Connect, OpenFails, GetIntenFails
    <2>2. dev' = dev /\ stale' = FALSE /\ synced' = Quiet(dev)
        BY <2>1, QuietDevice DEF GetIntenReturns
    <2>. QED
        BY <2>2 DEF Quiet
<1>4. CASE Disconnect
    BY <1>4 DEF Disconnect, Quiet
<1>5. ASSUME NEW arg \in Args, SetBrightness(arg)
      PROVE  ~stale' /\ Quiet(dev)' /\ (m_handle' => synced')
    <2>1. CASE Returns(NOT_CONNECTED) \/ Returns(SUCCESS)
        BY <1>2, <2>1 DEF Returns
    <2>2. CASE SetInten(Clamp(arg)) /\ UNCHANGED <<m_handle, handles>>
        BY <1>1, <2>2
    <2>. QED
        BY <1>5, <2>1, <2>2 DEF SetBrightness
<1>6. ASSUME NEW on \in BOOLEAN, LightOn(on)
      PROVE  ~stale' /\ Quiet(dev)' /\ (m_handle' => synced')
    <2>1. CASE Returns(NOT_CONNECTED) \/ Returns(SUCCESS)
        BY <1>2, <2>1 DEF Returns
    <2>2. CASE /\ SetInten(IF on THEN m_brightness ELSE 0)
               /\ UNCHANGED <<m_handle, m_brightness, handles>>
        BY <1>1, <2>2
    <2>. QED
        BY <1>6, <2>1, <2>2 DEF LightOn
<1>7. CASE Settle
    BY <1>7, QuietDevice DEF Settle
<1>8. CASE Construct
    BY <1>2, <1>8 DEF Construct
<1>9. CASE UNCHANGED dimmerVars
    BY <1>2, <1>9 DEF dimmerVars
<1>. QED
    BY <1>3, <1>4, <1>5, <1>6, <1>7, <1>8, <1>9 DEF DimmerNext

LEMMA InOrderInit == Init => InOrder
BY SteadyQuiet DEF Init, DimmerInit, InOrder

LEMMA InOrderNext == EmulatorInv /\ InOrder /\ [Next]_vars => InOrder'
<1> SUFFICES ASSUME EmulatorInv, InOrder, [Next]_vars, ~failed'
             PROVE  ~stale' /\ Quiet(dev)' /\ (m_handle' => synced')
    BY DEF InOrder
<1>1. CASE Next
    <2>1. ~failed /\ ret' # COMM_ERROR
        BY <1>1 DEF Next
    <2>2. [DimmerNext]_dimmerVars
        BY StepRefines DEF EmulatorInv
    <2>. QED
        BY <2>1, <2>2, DimmerInOrder DEF InOrder, EmulatorInv, TypeOK
<1>2. CASE UNCHANGED vars
    BY <1>2 DEF vars, dimmerVars, InOrder, Quiet
<1>. QED
    BY <1>1, <1>2

\* Whatever the client does, a handle that is not synced goes back to a HID
\* call that failed (usbdimmer.cpp:150-172, 199-216).
THEOREM SyncedUntilItFails == Spec => []SyncedUntilFailure
<1>1. InOrder => SyncedUntilFailure
    BY DEF InOrder, SyncedUntilFailure
<1>. QED
    BY <1>1, InOrderInit, InOrderNext, EmulatorInvariance, PTL DEF Spec

-----------------------------------------------------------------------------
(* The idle timeout.                                                       *)

\* Until the clock is set, the time left and the time gone by make up the
\* idle timeout at least.
TimeKept == quiet # Forever => remaining + quiet >= IdleTimeout

LEMMA PassesKeeps == TypeOK /\ TimeKept /\ Passes => TimeKept'
BY Constants DEF TypeOK, TimeKept, Passes, Expired, Forever

LEMMA TimeUntouched ==
    TimeKept /\ UNCHANGED quiet /\ (UNCHANGED remaining \/ remaining' = IdleTimeout)
    /\ TypeOK => TimeKept'
BY Constants DEF TimeKept, Forever, TypeOK

LEMMA TimeKeptInit == Init => TimeKept
BY DEF Init, TimeKept

LEMMA TimeKeptNext == EmulatorInv /\ TimeKept /\ [Next]_vars => TimeKept'
<1> SUFFICES ASSUME TypeOK, TimeKept, [Next]_vars PROVE TimeKept'
    BY DEF EmulatorInv
<1>1. ASSUME NEW r \in Requests, Receive(r) PROVE TimeKept'
    BY <1>1, TimeUntouched
    DEF Receive, AlreadyConnected, ConnectPanel, UpdateDisconnectTime
<1>2. CASE Serve
    <2>1. CASE GiveUp \/ UNCHANGED <<remaining, quiet>>
        BY <2>1, TimeUntouched DEF GiveUp
    <2>2. ASSUME NEW arg, Respond(arg) PROVE TimeKept'
        BY <2>2, Constants DEF Respond, UpdateDisconnectTime, TimeKept
    <2>. QED
        BY <1>2, <2>1, <2>2 DEF Serve, ServeQuery, Abort, ServeLight, ServeBrightness
<1>3. CASE DisconnectPanel
    BY <1>3, TimeUntouched DEF DisconnectPanel
<1>4. CASE Elapse \/ ReadTimeout
    BY <1>4, PassesKeeps DEF Elapse, ReadTimeout
<1>5. CASE ClockIsSet
    BY <1>5 DEF ClockIsSet, TimeKept, Forever
<1>6. CASE Exit
    BY <1>6, TimeUntouched DEF Exit
<1>7. CASE ClientLeaves
    BY <1>7, TimeUntouched DEF ClientLeaves
<1>8. CASE PanelSettles
    BY <1>8, TimeUntouched DEF PanelSettles, emulatorVars
<1>9. CASE UNCHANGED vars
    BY <1>9, TimeUntouched DEF vars, emulatorVars
<1>. QED
    BY <1>1, <1>2, <1>3, <1>4, <1>5, <1>6, <1>7, <1>8, <1>9 DEF Next, Step

LEMMA OutOfTime ==
    ASSUME NEW t \in 0..Forever, t # Forever => Expired + t >= IdleTimeout
    PROVE  t = Forever
BY Constants DEF Expired, Forever

LEMMA TimeIsUp ==
    ASSUME TimeKept', quiet' \in 0..Forever, remaining' = Expired
    PROVE  quiet' = Forever
<1>1. quiet' # Forever => Expired + quiet' >= IdleTimeout
    BY DEF TimeKept
<1>. QED
    BY <1>1, OutOfTime

\* For every idle_timeout: as long as the clock is left alone, nothing but an
\* idle timeout's worth of silence takes the panel away between requests
\* (emu.cpp:59-62, 129-132).
THEOREM ActiveClientKept == Spec => NeverDropsActiveClient
<1> DEFINE Drops == pc = "read" /\ pc' = "read" /\ m_handle /\ ~m_handle'
<1>1. ASSUME EmulatorInv, TimeKept, [Next]_vars, Drops PROVE quiet' = Forever
    <2>1. CASE ReadTimeout
        <3>1. remaining' = Expired
            <4>1. ~Idle => UNCHANGED m_handle
                BY <2>1 DEF ReadTimeout, dimmerVars
            <4>2. Idle
                BY <1>1, <4>1
            <4>. QED
                BY <4>2 DEF Idle
        <3>2. quiet' \in 0..Forever
            BY <1>1, <2>1, PassesTypes DEF ReadTimeout, EmulatorInv
        <3>3. TimeKept'
            BY <1>1, TimeKeptNext
        <3>. QED
            BY <3>1, <3>2, <3>3, TimeIsUp
    <2>2. ASSUME NEW r \in Requests, Receive(r) PROVE FALSE
        BY <1>1, <2>2 DEF Receive, AlreadyConnected, ConnectPanel, dimmerVars
    <2>3. CASE Serve \/ DisconnectPanel \/ Exit
        BY <1>1, <2>3 DEF Serve, ServeQuery, Abort, ServeLight, ServeBrightness,
            DisconnectPanel, Exit
    <2>4. CASE \/ Elapse \/ ClockIsSet \/ ClientLeaves \/ PanelSettles
               \/ UNCHANGED vars
        BY <1>1, <2>4 DEF Elapse, ClockIsSet, ClientLeaves, PanelSettles, Settle,
            vars, dimmerVars
    <2>. QED
        BY <1>1, <2>1, <2>2, <2>3, <2>4 DEF Next, Step
<1>2. EmulatorInv /\ TimeKept /\ [Next]_vars => [Drops => quiet' = Forever]_vars
    BY <1>1
<1>. QED
    BY <1>2, TimeKeptInit, TimeKeptNext, EmulatorInvariance, PTL
    DEF Spec, NeverDropsActiveClient

-----------------------------------------------------------------------------
(* The emulator is a Flat-Man.                                             *)

\* A request is served with the handle open, and dropped with its synchrony
\* gone.
Serving == (pc = "serve" => m_handle) /\ (pc = "drop" => m_handle /\ ~synced)

\* m_on never stands for a light at level 0: m_on and the lit panel are the
\* same.
LitIsBright == synced /\ m_on => m_brightness > 0

FlatManInv == EmulatorInv /\ Serving /\ LitIsBright

\* What one call of the dimmer means to a client who has the panel.
LEMMA SyncSurvives ==
    ASSUME NEW v, SetInten(v), ret' = SUCCESS
    PROVE  synced' = synced
BY DEF SetInten, SUCCESS, COMM_ERROR

LEMMA LightOnFlat ==
    ASSUME DimmerInv, NEW on \in BOOLEAN, LightOn(on), m_handle
    PROVE  /\ ret' = SUCCESS => synced' = synced
           /\ ret' # SUCCESS => ~synced'
           /\ synced' /\ LitIsBright => LitIsBright'
<1> DEFINE inten == IF on THEN m_brightness ELSE 0
<1>1. CASE m_on = on /\ Returns(SUCCESS) /\ UNCHANGED fields
    BY <1>1 DEF Returns, fields, LitIsBright
<1>2. CASE /\ SetInten(inten)
           /\ m_on' = IF ret' = SUCCESS THEN inten > 0 ELSE m_on
           /\ UNCHANGED <<m_handle, m_brightness, handles>>
    <2>1. inten \in Int
        BY DEF DimmerInv, DimmerTypeOK
    <2>2. synced' => ret' = SUCCESS
        BY <1>2, <2>1, SetIntenEffect
    <2>3. ret' = SUCCESS => synced' = synced
        BY <1>2, SyncSurvives
    <2>4. ASSUME synced', m_on' PROVE m_brightness' > 0
        <3>1. m_on' = (inten > 0)
            BY <1>2, <2>2, <2>4
        <3>2. inten > 0
            BY <2>4, <3>1
        <3>3. inten = m_brightness
            BY <3>2
        <3>. QED
            BY <1>2, <3>2, <3>3
    <2>. QED
        BY <2>2, <2>3, <2>4 DEF LitIsBright
<1>. QED
    BY <1>1, <1>2 DEF LightOn

LEMMA SetBrightnessFlat ==
    ASSUME DimmerInv, NEW arg \in Args, SetBrightness(arg), m_handle
    PROVE  /\ ret' = SUCCESS => synced' = synced
           /\ ret' # SUCCESS => ~synced'
           /\ synced' /\ LitIsBright => LitIsBright'
           /\ synced' /\ m_on => m_on' \/ m_brightness' = 0
<1> DEFINE val == Clamp(arg)
<1>0. val \in Int /\ val >= 0
    BY ClampIsRegister, Ranges DEF Register
<1>1. CASE val = m_brightness /\ Returns(SUCCESS) /\ UNCHANGED fields
    BY <1>1 DEF Returns, fields, LitIsBright
<1>2. CASE /\ ~m_on /\ m_brightness' = val
           /\ Returns(SUCCESS) /\ UNCHANGED m_on
    BY <1>2 DEF Returns, LitIsBright
<1>3. CASE /\ val # m_brightness /\ m_on /\ SetInten(val)
           /\ m_brightness' = IF ret' = SUCCESS THEN val ELSE m_brightness
           /\ m_on' = (ret' = SUCCESS => val # 0)
           /\ UNCHANGED <<m_handle, handles>>
    <2>1. synced' => ret' = SUCCESS
        BY <1>0, <1>3, SetIntenEffect
    <2>2. ret' = SUCCESS => synced' = synced
        BY <1>3, SyncSurvives
    <2>3. ASSUME synced' PROVE (m_on' => val # 0) /\ (val # 0 => m_on') /\ m_brightness' = val
        <3>1. m_on' = (val # 0)
            BY <1>3, <2>1, <2>3
        <3>. QED
            BY <1>3, <2>1, <2>3, <3>1
    <2>4. synced' => LitIsBright'
        BY <1>0, <2>3 DEF LitIsBright
    <2>. QED
        BY <1>3, <2>1, <2>2, <2>3, <2>4
<1>. QED
    BY <1>1, <1>2, <1>3 DEF SetBrightness

LEMMA ConnectFlat ==
    ASSUME Connect
    PROVE  /\ ret' = SUCCESS => m_handle'
           /\ synced' => LitIsBright'
<1>1. CASE OpenFails \/ GetIntenFails
    BY <1>1 DEF OpenFails, GetIntenFails, SUCCESS, COMM_ERROR
<1>2. ASSUME NEW inten \in Register, GetIntenReturns(inten)
      PROVE  m_handle' /\ LitIsBright'
    <2>1. m_handle' /\ (inten > 0 => m_brightness' = inten)
        BY <1>2 DEF GetIntenReturns
    <2>2. ASSUME m_on' PROVE inten > 0
        <3>1. m_on' = (inten > 0)
            BY <1>2 DEF GetIntenReturns
        <3>. QED
            BY <2>2, <3>1
    <2>. QED
        BY <2>1, <2>2 DEF LitIsBright
<1>. QED
    BY <1>1, <1>2 DEF Connect

LEMMA FlatManNext == FlatManInv /\ [Next]_vars => FlatManInv'
<1> SUFFICES ASSUME FlatManInv, [Next]_vars PROVE FlatManInv'
    OBVIOUS
<1>0. EmulatorInv' /\ EmulatorInv /\ DimmerInv /\ TypeOK
    BY EmulatorNext DEF FlatManInv, EmulatorInv
<1> SUFFICES Serving' /\ LitIsBright'
    BY <1>0 DEF FlatManInv
<1>n. ~synced' => LitIsBright'
    BY DEF LitIsBright
<1>k. UNCHANGED dimmerVars => LitIsBright'
    BY DEF dimmerVars, LitIsBright, FlatManInv
<1>u. UNCHANGED dimmerVars /\ UNCHANGED pc => Serving'
    BY DEF dimmerVars, Serving, FlatManInv
<1>1. ASSUME NEW r \in Requests, Receive(r) PROVE Serving' /\ LitIsBright'
    <2>1. CASE AlreadyConnected
        BY <2>1, <1>k DEF AlreadyConnected, dimmerVars, Serving
    <2>2. CASE ConnectPanel
        BY <2>2, <1>n, ConnectFlat DEF ConnectPanel, Serving
    <2>. QED
        BY <1>1, <2>1, <2>2 DEF Receive
<1>2. CASE ServeQuery
    BY <1>2, <1>k DEF ServeQuery, Respond, Serving
<1>3. CASE ServeLight
    <2>0. (req.cmd = "L") \in BOOLEAN
        OBVIOUS
    <2>1. m_handle /\ LightOn(req.cmd = "L") /\ LitIsBright
        BY <1>3 DEF ServeLight, FlatManInv, Serving
    <2>2. m_handle' /\ (ret' # SUCCESS => ~synced') /\ (synced' => LitIsBright')
        BY <2>0, <2>1, <1>0, LightOnFlat, LightOnEffect
    <2>3. (ret' = SUCCESS /\ pc' = "read") \/ (ret' # SUCCESS /\ pc' = "drop")
        BY <1>3 DEF ServeLight, Respond, GiveUp
    <2>. QED
        BY <2>2, <2>3, <1>n DEF Serving
<1>4. CASE ServeBrightness
    <2>0. usbd_val(ToByte(req.arg)) \in Args
        BY <1>0, <1>4, RequestArg, BytesAreArgs DEF ServeBrightness
    <2>1. m_handle /\ SetBrightness(usbd_val(ToByte(req.arg))) /\ LitIsBright
        BY <1>4 DEF ServeBrightness, FlatManInv, Serving
    <2>2. m_handle' /\ (ret' # SUCCESS => ~synced') /\ (synced' => LitIsBright')
        BY <2>0, <2>1, <1>0, SetBrightnessFlat, SetBrightnessEffect
    <2>3. (ret' = SUCCESS /\ pc' = "read") \/ (ret' # SUCCESS /\ pc' = "drop")
        BY <1>4 DEF ServeBrightness, Respond, GiveUp
    <2>. QED
        BY <2>2, <2>3, <1>n DEF Serving
<1>5. CASE DisconnectPanel
    BY <1>5, <1>n DEF DisconnectPanel, Disconnect, Serving
<1>6. CASE Elapse
    BY <1>6, <1>k, <1>u DEF Elapse
<1>7. CASE ReadTimeout
    BY <1>7, <1>k, <1>n DEF ReadTimeout, Disconnect, Serving
<1>8. CASE Exit
    BY <1>8, <1>k, <1>n DEF Exit, Disconnect, Serving
<1>9. CASE ClientLeaves
    BY <1>9, <1>k, <1>u DEF ClientLeaves
<1>10. CASE PanelSettles
    BY <1>10 DEF PanelSettles, Settle, emulatorVars, Serving, LitIsBright, FlatManInv
<1>11. CASE ClockIsSet
    BY <1>11, <1>k, <1>u DEF ClockIsSet
<1>12. CASE UNCHANGED vars
    BY <1>12, <1>k, <1>u DEF vars, emulatorVars
<1>13. CASE Abort
    BY <1>13, <1>n DEF Abort, Disconnect, Serving
<1>. QED
    BY <1>1, <1>2, <1>3, <1>4, <1>5, <1>6, <1>7, <1>8, <1>9, <1>10, <1>11, <1>12, <1>13
    DEF Next, Step, Serve


LEMMA FlatManInit == Init => FlatManInv
BY EmulatorInit DEF Init, DimmerInit, FlatManInv, Serving, LitIsBright

LEMMA FlatManInvariance == Spec => []FlatManInv
BY FlatManInit, FlatManNext, PTL DEF Spec

\* Where the client has the panel.
Mode == IF synced THEN "held"
        ELSE IF ~m_handle /\ ~stale /\ Quiet(dev) THEN "released"
        ELSE "lost"

\* What the client knows of it.
Known == <<dev.level, m_brightness, blvl, light>>

LEMMA LampTheSame ==
    /\ \A n : Lamp!usbd_val(n) = usbd_val(n)
    /\ \A n : Lamp!Clamp(n) = Clamp(n)
    /\ \A lvl, inten : Lamp!Near(lvl, inten) = Near(lvl, inten)
    /\ Lamp!NoAnswer = None
    /\ Lamp!Intensity = Intensity
BY DEF Lamp!usbd_val, usbd_val, Lamp!Lookup, Lookup, Lamp!Cells, Cells,
    Lamp!Clamp, Clamp, Lamp!Near, Near, Lamp!NoAnswer, None,
    Lamp!Intensity, Intensity

LEMMA ModeNow ==
    /\ synced => Mode = "held"
    /\ ~synced => Mode \in {"released", "lost"}
    /\ ~synced /\ m_handle => Mode = "lost"
    /\ ~synced /\ (dev.moving \/ stale) => Mode = "lost"
BY DEF Mode, Quiet, Steady

LEMMA ModeThen ==
    /\ synced' => Mode' = "held"
    /\ ~synced' => Mode' \in {"released", "lost"}
    /\ ~synced' /\ m_handle' => Mode' = "lost"
    /\ ~synced' /\ ~m_handle' /\ ~stale' /\ Quiet(dev)' => Mode' = "released"
BY DEF Mode

LEMMA Strays == Mode = "lost" /\ Mode' \in {"lost", "released"} => Lamp!Next
BY DEF Mode, Lamp!Next, Lamp!Astray

LEMMA Loses == Mode # "lost" /\ Mode' = "lost" /\ resp' = None => Lamp!Next
BY LampTheSame DEF Mode, Lamp!Next, Lamp!Lose, Lamp!Silent

LEMMA Ignores ==
    Mode # "lost" /\ Mode' = Mode /\ UNCHANGED Known /\ resp' = None => Lamp!Next
BY LampTheSame DEF Mode, Known, Lamp!Next, Lamp!Ignore, Lamp!Silent, Lamp!lamp

LEMMA Releases ==
    Mode = "held" /\ Mode' = "released" /\ UNCHANGED Known /\ resp' = None
    => Lamp!Next
BY LampTheSame DEF Mode, Known, Lamp!Next, Lamp!Release, Lamp!Silent, Lamp!lamp

\* A step that leaves the panel, the dimmer and the copy alone.
LEMMA SameMode == UNCHANGED dimmerVars => Mode' = Mode
BY DEF dimmerVars, Mode, Quiet

LEMMA QuietStep ==
    ASSUME UNCHANGED <<dimmerVars, light, blvl>>, resp' = None
    PROVE  Lamp!Next
<1>1. Mode' = Mode /\ UNCHANGED Known
    BY SameMode DEF dimmerVars, Known
<1>. QED
    BY <1>1, Ignores, Strays

LEMMA Stutters ==
    ASSUME UNCHANGED <<dimmerVars, light, blvl, resp>>
    PROVE  UNCHANGED Lamp!lampVars
BY DEF dimmerVars, Lamp!lampVars, Lamp!lamp, Quiet

\* Letting go of the panel; it stays as it is.
LEMMA DisconnectStep ==
    ASSUME FlatManInv, Disconnect, UNCHANGED <<light, blvl>>,
           synced => resp' = None
    PROVE  Lamp!Next
<1>1. ~synced' /\ ~m_handle' /\ m_handle /\ UNCHANGED Known
    BY DEF Disconnect, Known
<1>2. CASE synced
    <2>1. ~stale' /\ Quiet(dev)'
        BY <1>2 DEF Disconnect, FlatManInv, EmulatorInv, DimmerInv, SyncedCache,
            Quiet, Steady
    <2>. QED
        BY <1>1, <1>2, <2>1, ModeNow, ModeThen, Releases
<1>3. CASE ~synced
    BY <1>1, <1>3, ModeNow, ModeThen, Strays
<1>. QED
    BY <1>2, <1>3

\* A failed request leaves the panel lost.
LEMMA FailedStep ==
    ASSUME m_handle', ~synced', resp' = None
    PROVE  Lamp!Next
BY ModeThen, Loses, Strays

\* A request served without knowing the panel.
LEMMA BlindStep ==
    ASSUME ~synced, m_handle, ~synced', m_handle'
    PROVE  Lamp!Next
BY ModeNow, ModeThen, Strays

-----------------------------------------------------------------------------
(* The handlers, one by one.                                               *)

LEMMA TakeStep ==
    ASSUME FlatManInv, DimmerInv', ConnectPanel, resp' = None
    PROVE  Lamp!Next
<1>0. ~m_handle /\ ~synced
    BY DEF ConnectPanel, FlatManInv, EmulatorInv, DimmerInv, SyncedCache
<1>1. CASE OpenFails
    <2>1. /\ UNCHANGED <<dev, stale, m_brightness, light, blvl>>
          /\ ~m_handle' /\ ~synced'
        BY <1>1 DEF ConnectPanel, OpenFails, fields, SUCCESS, COMM_ERROR
    <2>2. Mode' = Mode /\ UNCHANGED Known
        BY <1>0, <2>1 DEF Mode, Known, Quiet
    <2>. QED
        BY <2>2, Ignores, Strays
<1>2. CASE GetIntenFails
    BY <1>2, FailedStep DEF GetIntenFails
<1>3. ASSUME NEW inten \in Register, GetIntenReturns(inten), ~synced'
      PROVE  Lamp!Next
    BY <1>3, FailedStep DEF GetIntenReturns
<1>4. ASSUME NEW inten \in Register, GetIntenReturns(inten), synced'
      PROVE  Lamp!Next
    <2>1. inten \in Gets(dev) /\ Quiet(dev) /\ dev' \in Drift(dev)
        BY <1>4 DEF GetIntenReturns
    <2>2. dev' = dev /\ dev'.level = inten
        BY <2>1, QuietStays
    <2>3. /\ m_on' = (inten > 0)
          /\ m_brightness' = IF inten > 0 THEN inten ELSE DefaultBrightness
          /\ ret' = SUCCESS
        BY <1>4 DEF GetIntenReturns
    <2>4. light' = (inten > 0) /\ blvl' = level_of[m_brightness']
        BY <2>3 DEF ConnectPanel, CopyState
    <2>5. Near(blvl', m_brightness')
        <3>1. m_brightness' \in Register
            BY <2>3, Ranges
        <3>. QED
            BY <2>4, <3>1, EmulatorAssumption
    <2>6. (Lamp!Found)'
        BY <2>2, <2>3, <2>4, <2>5, LampTheSame DEF Lamp!Found
    <2>7. Lamp!Take
        BY <1>0, <1>4, <2>2, <2>6, LampTheSame DEF Lamp!Take, Lamp!Silent
    <2>. QED
        BY <2>7 DEF Lamp!Next
<1>. QED
    BY <1>1, <1>2, <1>3, <1>4 DEF ConnectPanel, Connect

LEMMA QueryStep ==
    ASSUME FlatManInv, ServeQuery
    PROVE  Lamp!Next
<1>1. m_handle /\ UNCHANGED <<dimmerVars, light, blvl>>
    BY DEF ServeQuery, FlatManInv, Serving
<1>2. CASE synced
    <2>1. Lamp!Report
        BY <1>1 DEF ServeQuery, TwoDigits, Respond, Lamp!Report, Lamp!Says,
            Lamp!lamp, dimmerVars
    <2>2. synced'
        BY <1>1, <1>2 DEF dimmerVars
    <2>. QED
        BY <1>2, <2>1, <2>2 DEF Lamp!Serve, Lamp!Next
<1>3. CASE ~synced
    BY <1>1, <1>3, BlindStep DEF dimmerVars
<1>. QED
    BY <1>2, <1>3

LEMMA LightStep ==
    ASSUME FlatManInv, DimmerInv', ServeLight
    PROVE  Lamp!Next
<1> DEFINE on == req.cmd = "L"
<1>0. on \in BOOLEAN /\ DimmerInv /\ m_handle /\ LightOn(on)
    BY DEF ServeLight, FlatManInv, EmulatorInv, Serving
<1>1. /\ m_handle' /\ (ret' # SUCCESS => ~synced')
      /\ ret' = SUCCESS => synced' = synced
      /\ m_brightness' = m_brightness
    BY <1>0, LightOnFlat, LightOnEffect
<1>2. CASE ret' # SUCCESS
    <2>1. resp' = None
        BY <1>2 DEF ServeLight, GiveUp
    <2>. QED
        BY <1>1, <1>2, <2>1, FailedStep
<1>3. CASE ~synced /\ ~synced'
    BY <1>0, <1>1, <1>3, BlindStep
<1>4. CASE synced /\ synced' /\ ret' = SUCCESS
    <2>1. /\ light' = on /\ blvl' = blvl
          /\ req.cmd \in {"L", "D"} /\ resp' = [cmd |-> req.cmd, arg |-> 0]
        BY <1>4 DEF ServeLight, Respond, GiveUp
    <2>2. (m_on' => on) /\ (on => m_on' \/ m_brightness = 0)
        BY <1>0, <1>4, LightOnEffect
    <2>3. dev'.level = (Shown)'
        BY <1>4 DEF DimmerInv, SyncedCache, Steady
    <2>4. dev'.level = IF on THEN m_brightness ELSE 0
        BY <1>1, <2>2, <2>3 DEF Shown
    <2>5. Lamp!TurnOn \/ Lamp!TurnOff
        BY <1>1, <2>1, <2>4 DEF Lamp!TurnOn, Lamp!TurnOff, Lamp!Says
    <2>. QED
        BY <1>4, <2>5 DEF Lamp!Serve, Lamp!Next
<1>. QED
    <2>1. synced' \in BOOLEAN /\ synced \in BOOLEAN
        BY <1>0 DEF DimmerInv, DimmerTypeOK
    <2>. QED
        BY <1>1, <1>2, <1>3, <1>4, <2>1

LEMMA LevelStep ==
    ASSUME FlatManInv, DimmerInv', ServeBrightness
    PROVE  Lamp!Next
<1> DEFINE arg == usbd_val(ToByte(req.arg))
<1>0. TypeOK /\ DimmerInv /\ m_handle /\ SetBrightness(arg) /\ arg \in Args
    BY RequestArg, BytesAreArgs DEF ServeBrightness, FlatManInv, EmulatorInv, Serving
<1>1. /\ m_handle' /\ (ret' # SUCCESS => ~synced')
      /\ ret' = SUCCESS => synced' = synced
    BY <1>0, SetBrightnessFlat, SetBrightnessEffect
<1>2. CASE ret' # SUCCESS
    <2>1. resp' = None
        BY <1>2 DEF ServeBrightness, GiveUp
    <2>. QED
        BY <1>1, <1>2, <2>1, FailedStep
<1>3. CASE ~synced /\ ~synced'
    BY <1>0, <1>1, <1>3, BlindStep
<1>4. CASE synced /\ synced' /\ ret' = SUCCESS
    <2>1. /\ light' = light /\ blvl' = ToByte(req.arg)
          /\ req.cmd = "B" /\ resp' = [cmd |-> "B", arg |-> req.arg]
        BY <1>4 DEF ServeBrightness, Respond, GiveUp
    <2>2. m_brightness' = Clamp(arg) /\ (m_on' => m_on)
        BY <1>0, <1>4, SetBrightnessEffect
    <2>3. m_on => m_on' \/ m_brightness' = 0
        BY <1>0, <1>4, SetBrightnessFlat
    <2>4. dev.level = Shown /\ dev'.level = (Shown)'
        BY <1>0, <1>4 DEF DimmerInv, SyncedCache, Steady
    <2>5. dev.level > 0 <=> m_on
        BY <1>0, <1>4, <2>4 DEF Shown, FlatManInv, LitIsBright
    <2>6. dev'.level = IF m_on THEN m_brightness' ELSE 0
        BY <2>2, <2>3, <2>4 DEF Shown
    <2>7. blvl' = resp'.arg % (MaxLvl + 1) /\ resp'.cmd = "B"
        BY <2>1 DEF ToByte
    <2>8. m_brightness' = Lamp!Clamp(Lamp!usbd_val(blvl'))
        BY <2>1, <2>2, LampTheSame
    <2>9. Lamp!SetLevel
        BY <2>1, <2>5, <2>6, <2>7, <2>8 DEF Lamp!SetLevel
    <2>. QED
        BY <1>4, <2>9 DEF Lamp!Serve, Lamp!Next
<1>. QED
    <2>1. synced' \in BOOLEAN /\ synced \in BOOLEAN
        BY <1>0 DEF DimmerInv, DimmerTypeOK
    <2>. QED
        BY <1>1, <1>2, <1>3, <1>4, <2>1

LEMMA SettleStep ==
    ASSUME FlatManInv, PanelSettles
    PROVE  Lamp!Next
<1>1. dev.moving /\ synced' = synced
    BY DEF PanelSettles, Settle
<1>2. ~synced
    BY <1>1 DEF FlatManInv, EmulatorInv, DimmerInv, SyncedCache, Steady
<1>. QED
    BY <1>1, <1>2, ModeNow, ModeThen, Strays

LEMMA StepImplements ==
    FlatManInv /\ FlatManInv' /\ [Next]_vars => [Lamp!Next]_(Lamp!lampVars)
<1> SUFFICES ASSUME FlatManInv, FlatManInv', [Next]_vars
             PROVE  Lamp!Next \/ UNCHANGED Lamp!lampVars
    OBVIOUS
<1>0. DimmerInv'
    BY DEF FlatManInv, EmulatorInv
<1>1. ASSUME NEW r \in Requests, Receive(r) PROVE Lamp!Next
    BY <1>0, <1>1, QuietStep, TakeStep DEF Receive, AlreadyConnected
<1>2. CASE ServeQuery
    BY <1>2, QueryStep
<1>3. CASE ServeLight
    BY <1>0, <1>3, LightStep
<1>4. CASE ServeBrightness
    BY <1>0, <1>4, LevelStep
<1>5. CASE DisconnectPanel
    <2>1. ~synced
        BY <1>5 DEF DisconnectPanel, FlatManInv, Serving
    <2>. QED
        BY <1>5, <2>1, DisconnectStep DEF DisconnectPanel
<1>6. CASE Elapse \/ ClientLeaves \/ ClockIsSet
    BY <1>6, Stutters DEF Elapse, ClientLeaves, ClockIsSet
<1>7. CASE ReadTimeout
    BY <1>7, DisconnectStep, QuietStep DEF ReadTimeout
<1>8. CASE Exit
    BY <1>8, DisconnectStep, QuietStep DEF Exit
<1>9. CASE PanelSettles
    BY <1>9, SettleStep
<1>10. CASE UNCHANGED vars
    BY <1>10, Stutters DEF vars, emulatorVars
<1>11. CASE Abort
    BY <1>11, DisconnectStep DEF Abort
<1>. QED
    BY <1>1, <1>2, <1>3, <1>4, <1>5, <1>6, <1>7, <1>8, <1>9, <1>10, <1>11
    DEF Next, Step, Serve

LEMMA StartsReleased == Init => Lamp!Init
BY SteadyQuiet, LampTheSame DEF Init, DimmerInit, Lamp!Init, Steady

\* Whatever the panel, the table, the client and the failures: the emulator
\* is to its client a Flat-Man that may lose the panel when an exchange fails
\* and forgets the brightness of a light that is off when it lets go
\* (emu.cpp:127-231, alnitak_emu.cpp:88-97, 125-144, usbdimmer.cpp:188-277).
THEOREM EmulatorIsFlatMan == Spec => ImplementsFlatMan
<1>. QED
    BY StartsReleased, FlatManInvariance, StepImplements, PTL
    DEF Spec, ImplementsFlatMan, Lamp!Spec
=============================================================================
