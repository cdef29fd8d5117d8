---------------------------- MODULE DimmerProofs ----------------------------
(***************************************************************************)
(* The cache of class USBDimmer, proved for every panel, argument set and  *)
(* pattern of failures: module Dimmer's CacheShowsPanel.                   *)
(***************************************************************************)
EXTENDS Dimmer, TLAPS

\* Late answers, or a cached intensity wider than SETINTEN's two bytes, would
\* make the next call through a synced handle miss the panel: both are part
\* of the induction.
SyncedCache ==
    synced =>
        /\ m_handle
        /\ ~stale
        /\ m_brightness \in Register
        /\ dev = Steady(Shown)

\* The handle Disconnect() closes is one that was opened.
HandleCounted == m_handle => handles >= 1

DimmerInv == DimmerTypeOK /\ SyncedCache /\ HandleCounted

-----------------------------------------------------------------------------
(* The operators on panel states.                                          *)

LEMMA Ranges ==
    /\ Intensity \subseteq Register
    /\ Register \subseteq Int
    /\ DefaultBrightness \in Register
    /\ 0 \in Register
BY PanelAssumption DEF Intensity, Register

LEMMA SteadyIsDevice == \A v \in Register : Steady(v) \in Device
BY DEF Steady, Device

LEMMA DriftIsDevice == \A d \in Device : Drift(d) \subseteq Device
BY DEF Drift, Arrive, Steady, Device

LEMMA QuietStays == \A d : Quiet(d) => Drift(d) = {d} /\ Gets(d) = {d.level}
BY DEF Quiet, Drift, Arrive, Gets, Steady

LEMMA GetsIsRegister == \A d \in Device : Gets(d) \subseteq Register
BY DEF Gets, Device

LEMMA TwoBytesIsRegister == \A n \in Int : TwoBytes(n) \in Register
BY PanelAssumption DEF TwoBytes, Register

\* What fits into two bytes is sent as it is.
LEMMA TwoBytesFit == \A n \in Register : TwoBytes(n) = n
BY PanelAssumption DEF TwoBytes, Register

LEMMA ClampIsRegister == \A arg \in Args : Clamp(arg) \in Register
BY PanelAssumption, ArgsAssumption DEF Clamp, Register

LEMMA InterruptedIsDevice ==
    dev \in Device => \A v \in Register : Interrupted(v) \subseteq Device
BY DEF Interrupted, Arrive, Steady, Device

LEMMA AcceptedIsDevice ==
    dev \in Device => \A v \in Register : Accepted(v) \subseteq Device
BY InterruptedIsDevice, SteadyIsDevice DEF Accepted

-----------------------------------------------------------------------------

LEMMA InitEstablishes == DimmerInit => DimmerInv
<1> SUFFICES ASSUME DimmerInit PROVE DimmerInv
    OBVIOUS
<1>1. dev \in Device
    BY SteadyIsDevice, Ranges DEF DimmerInit
<1>2. m_on \in BOOLEAN /\ m_brightness \in Int
    BY PanelAssumption DEF DimmerInit
<1>. QED
    BY <1>1, <1>2 DEF DimmerInit, DimmerInv, DimmerTypeOK, SyncedCache, HandleCounted

\* What set_inten() leaves behind: a success through a synced handle has the
\* light at the intensity, a failure ends the synchrony.
LEMMA SetIntenEffect ==
    ASSUME DimmerInv, NEW inten \in Int, SetInten(inten)
    PROVE  /\ dev' \in Device
           /\ stale' \in BOOLEAN
           /\ synced' \in BOOLEAN
           /\ ret' \in {SUCCESS, COMM_ERROR}
           /\ synced' => /\ synced /\ ret' = SUCCESS /\ ~stale'
                         /\ inten \in Register => dev' = Steady(inten)
<1>1. TwoBytes(inten) \in Register
    BY TwoBytesIsRegister
<1>2. CASE ret' = SUCCESS /\ dev' \in Accepted(TwoBytes(inten))
                /\ UNCHANGED <<stale, synced>>
    <2>1. dev' \in Device
        BY <1>1, <1>2, AcceptedIsDevice DEF DimmerInv, DimmerTypeOK
    <2>2. ASSUME synced', inten \in Register
          PROVE  dev' = Steady(inten)
        BY <1>2, <2>2, TwoBytesFit DEF Accepted, DimmerInv, SyncedCache
    <2>. QED
        BY <1>2, <2>1, <2>2 DEF DimmerInv, DimmerTypeOK, SyncedCache, HandleCounted
<1>3. CASE /\ ret' = COMM_ERROR
           /\ dev' \in Drift(dev) \cup Interrupted(TwoBytes(inten))
           /\ stale' \in BOOLEAN
           /\ synced' = FALSE
    BY <1>1, <1>3, DriftIsDevice, InterruptedIsDevice DEF DimmerInv, DimmerTypeOK
<1>. QED
    BY <1>2, <1>3 DEF SetInten

LEMMA ConnectKeeps == DimmerInv /\ Connect => DimmerInv'
<1> SUFFICES ASSUME DimmerInv, Connect PROVE DimmerInv'
    OBVIOUS
<1>0. dev \in Device /\ handles \in Nat /\ m_on \in BOOLEAN /\ m_brightness \in Int
    BY DEF DimmerInv, DimmerTypeOK
<1>1. CASE OpenFails
    BY <1>1 DEF OpenFails, DimmerInv, DimmerTypeOK, SyncedCache, HandleCounted
<1>2. CASE GetIntenFails
    <2>1. dev' \in Device
        BY <1>0, <1>2, DriftIsDevice DEF GetIntenFails
    <2>2. handles' \in Nat /\ handles' >= 1
        BY <1>0, <1>2 DEF GetIntenFails
    <2>3. m_on' = m_on /\ m_brightness' = m_brightness
        BY <1>2 DEF GetIntenFails, fields
    <2>4. m_handle' /\ ~synced' /\ synced' \in BOOLEAN /\ stale' \in BOOLEAN
        BY <1>2 DEF GetIntenFails
    <2>5. ret' = COMM_ERROR
        BY <1>2 DEF GetIntenFails
    <2>. QED
        BY <1>0, <1>2, <2>1, <2>2, <2>3, <2>4, <2>5
        DEF DimmerInv, DimmerTypeOK, SyncedCache, HandleCounted, GetIntenFails
<1>3. ASSUME NEW inten \in Register, GetIntenReturns(inten)
      PROVE  DimmerInv'
    <2>1. dev' \in Device
        BY <1>0, <1>3, DriftIsDevice DEF GetIntenReturns
    <2>2. handles' \in Nat /\ handles' >= 1
        BY <1>0, <1>3 DEF GetIntenReturns
    <2>3. /\ inten > 0 => m_on' = TRUE /\ m_brightness' = inten
          /\ ~(inten > 0) => ~m_on' /\ m_brightness' = DefaultBrightness
        BY <1>3 DEF GetIntenReturns
    <2>4. m_brightness' \in Register /\ m_on' \in BOOLEAN
        BY <1>3, <2>3, Ranges DEF GetIntenReturns
    <2>5. (Shown)' = inten
        BY <1>3, <2>3 DEF Shown, Register
    <2>6. CASE inten \in Gets(dev) /\ stale' = FALSE /\ synced' = Quiet(dev)
        <3>1. synced' \in BOOLEAN
            BY <2>6 DEF Quiet
        <3>2. ASSUME synced' PROVE dev' = Steady(inten)
            <4>1. Quiet(dev)
                BY <2>6, <3>2
            <4>2. dev' = dev /\ inten = dev.level
                BY <1>3, <2>6, <4>1, QuietStays DEF GetIntenReturns
            <4>. QED
                BY <4>1, <4>2 DEF Quiet
        <3>. QED
            BY <1>3, <2>1, <2>2, <2>4, <2>5, <2>6, <3>1, <3>2, Ranges
            DEF GetIntenReturns, DimmerInv, DimmerTypeOK, SyncedCache, HandleCounted
    <2>7. CASE stale /\ stale' = TRUE /\ synced' = FALSE
        BY <1>3, <2>1, <2>2, <2>4, <2>7, Ranges
        DEF GetIntenReturns, DimmerInv, DimmerTypeOK, SyncedCache, HandleCounted
    <2>. QED
        BY <1>3, <2>6, <2>7 DEF GetIntenReturns
<1>. QED
    BY <1>1, <1>2, <1>3 DEF Connect

LEMMA DisconnectKeeps == DimmerInv /\ Disconnect => DimmerInv'
<1> SUFFICES ASSUME DimmerInv, Disconnect PROVE DimmerInv'
    OBVIOUS
<1>1. handles' \in Nat
    BY DEF DimmerInv, DimmerTypeOK, HandleCounted, Disconnect
<1>. QED
    BY <1>1 DEF DimmerInv, DimmerTypeOK, SyncedCache, HandleCounted, Disconnect

\* The calls that return without an exchange and change nothing.
LEMMA ReturnsKeeps ==
    ASSUME DimmerInv, NEW code \in {SUCCESS, NOT_CONNECTED}, Returns(code),
           m_on' = m_on, m_brightness' = m_brightness
    PROVE  DimmerInv'
<1>1. Shown' = Shown
    BY DEF Shown
<1>. QED
    BY <1>1 DEF DimmerInv, DimmerTypeOK, SyncedCache, HandleCounted, Returns

LEMMA SetBrightnessKeeps ==
    ASSUME NEW arg \in Args, DimmerInv, SetBrightness(arg)
    PROVE  DimmerInv'
<1> DEFINE val == Clamp(arg)
<1>0. m_on \in BOOLEAN /\ m_brightness \in Int
    BY DEF DimmerInv, DimmerTypeOK
<1>1. val \in Register /\ val \in Int
    BY ClampIsRegister, Ranges
<1>2. CASE ~m_handle /\ Returns(NOT_CONNECTED) /\ UNCHANGED fields
    BY <1>2, ReturnsKeeps DEF fields
<1>3. CASE m_handle /\ val = m_brightness /\ Returns(SUCCESS) /\ UNCHANGED fields
    BY <1>3, ReturnsKeeps DEF fields
<1>4. CASE /\ m_handle /\ ~m_on /\ m_brightness' = val
           /\ Returns(SUCCESS) /\ UNCHANGED m_on
    <2>1. Shown' = Shown
        BY <1>4 DEF Shown
    <2>. QED
        BY <1>0, <1>1, <1>4, <2>1, Ranges
        DEF DimmerInv, DimmerTypeOK, SyncedCache, HandleCounted, Returns
<1>5. CASE /\ m_handle /\ m_on /\ SetInten(val)
           /\ m_brightness' = IF ret' = SUCCESS THEN val ELSE m_brightness
           /\ m_on' = (ret' = SUCCESS => val # 0)
           /\ UNCHANGED <<m_handle, handles>>
    <2>1. /\ dev' \in Device
          /\ stale' \in BOOLEAN
          /\ synced' \in BOOLEAN
          /\ ret' \in {SUCCESS, COMM_ERROR}
          /\ synced' => synced /\ ret' = SUCCESS /\ ~stale' /\ dev' = Steady(val)
        BY <1>1, <1>5, SetIntenEffect
    <2>2. m_on' \in BOOLEAN /\ m_brightness' \in Int
        BY <1>0, <1>1, <1>5
    <2>3. ASSUME ret' = SUCCESS PROVE (Shown)' = val /\ m_brightness' = val
        BY <1>5, <2>3 DEF Shown
    <2>4. m_handle' = m_handle /\ handles' = handles
        BY <1>5
    <2>. QED
        BY <1>1, <2>1, <2>2, <2>3, <2>4
        DEF DimmerInv, DimmerTypeOK, SyncedCache, HandleCounted
<1>. QED
    BY <1>2, <1>3, <1>4, <1>5 DEF SetBrightness

LEMMA LightOnKeeps ==
    ASSUME NEW on \in BOOLEAN, DimmerInv, LightOn(on)
    PROVE  DimmerInv'
<1> DEFINE inten == IF on THEN m_brightness ELSE 0
<1>0. m_on \in BOOLEAN /\ m_brightness \in Int /\ inten \in Int
    BY DEF DimmerInv, DimmerTypeOK
<1>1. CASE ~m_handle /\ Returns(NOT_CONNECTED) /\ UNCHANGED fields
    BY <1>1, ReturnsKeeps DEF fields
<1>2. CASE m_handle /\ m_on = on /\ Returns(SUCCESS) /\ UNCHANGED fields
    BY <1>2, ReturnsKeeps DEF fields
<1>3. CASE /\ m_handle /\ m_on # on /\ SetInten(inten)
           /\ m_on' = IF ret' = SUCCESS THEN inten > 0 ELSE m_on
           /\ UNCHANGED <<m_handle, m_brightness, handles>>
    <2>1. /\ dev' \in Device
          /\ stale' \in BOOLEAN
          /\ synced' \in BOOLEAN
          /\ ret' \in {SUCCESS, COMM_ERROR}
          /\ synced' => /\ synced /\ ret' = SUCCESS /\ ~stale'
                        /\ inten \in Register => dev' = Steady(inten)
        BY <1>0, <1>3, SetIntenEffect
    <2>2. m_on' \in BOOLEAN /\ m_brightness' = m_brightness
        BY <1>0, <1>3
    <2>3. m_handle' = m_handle /\ handles' = handles
        BY <1>3
    <2>4. ASSUME synced' PROVE inten \in Register /\ (Shown)' = inten
        <3>1. synced /\ ret' = SUCCESS
            BY <2>1, <2>4
        <3>2. m_brightness \in Register
            BY <3>1 DEF DimmerInv, SyncedCache
        <3>3. inten \in Register
            BY <3>2, Ranges
        <3>4. m_on' = (inten > 0)
            BY <1>3, <3>1
        <3>5. inten > 0 => on /\ m_on'
            BY <3>4
        <3>6. ~(inten > 0) => inten = 0
            BY <3>3, PanelAssumption DEF Register
        <3>7. ~(inten > 0) => ~m_on'
            BY <3>4
        <3>. QED
            BY <2>2, <3>3, <3>5, <3>6, <3>7 DEF Shown
    <2>. QED
        BY <1>0, <2>1, <2>2, <2>3, <2>4
        DEF DimmerInv, DimmerTypeOK, SyncedCache, HandleCounted
<1>. QED
    BY <1>1, <1>2, <1>3 DEF LightOn

LEMMA SettleKeeps == DimmerInv /\ Settle => DimmerInv'
<1> SUFFICES ASSUME DimmerInv, Settle PROVE DimmerInv'
    OBVIOUS
<1>1. dev' \in Device
    BY DriftIsDevice DEF DimmerInv, DimmerTypeOK, Settle, Drift
<1>2. ~synced
    BY DEF DimmerInv, SyncedCache, Settle, Steady
<1>. QED
    BY <1>1, <1>2 DEF DimmerInv, DimmerTypeOK, SyncedCache, HandleCounted, Settle

LEMMA ConstructKeeps == DimmerInv /\ Construct => DimmerInv'
<1> SUFFICES ASSUME DimmerInv, Construct PROVE DimmerInv'
    OBVIOUS
<1>1. m_on' \in BOOLEAN /\ m_brightness' \in Int
    BY PanelAssumption DEF Construct
<1>2. ~synced
    BY DEF DimmerInv, SyncedCache, Construct
<1>. QED
    BY <1>1, <1>2 DEF DimmerInv, DimmerTypeOK, SyncedCache, HandleCounted, Construct

LEMMA NextKeeps == DimmerInv /\ [DimmerNext]_dimmerVars => DimmerInv'
<1> SUFFICES ASSUME DimmerInv, [DimmerNext]_dimmerVars PROVE DimmerInv'
    OBVIOUS
<1>1. CASE Connect
    BY <1>1, ConnectKeeps
<1>2. CASE Disconnect
    BY <1>2, DisconnectKeeps
<1>3. ASSUME NEW arg \in Args, SetBrightness(arg) PROVE DimmerInv'
    BY <1>3, SetBrightnessKeeps
<1>4. ASSUME NEW on \in BOOLEAN, LightOn(on) PROVE DimmerInv'
    BY <1>4, LightOnKeeps
<1>5. CASE Settle
    BY <1>5, SettleKeeps
<1>6. CASE Construct
    BY <1>6, ConstructKeeps
<1>7. CASE UNCHANGED dimmerVars
    BY <1>7 DEF dimmerVars, DimmerInv, DimmerTypeOK, SyncedCache, HandleCounted, Shown
<1>. QED
    BY <1>1, <1>2, <1>3, <1>4, <1>5, <1>6, <1>7 DEF DimmerNext

\* The induction: any caller, any order of calls, any failures.
THEOREM DimmerInvariance == DimmerSpec => []DimmerInv
<1>. QED
    BY InitEstablishes, NextKeeps, PTL DEF DimmerSpec

\* Types are kept: in particular a failed call never leaves a result other
\* than the three of usbdimmer.h, and no handle is closed that was not
\* opened.
THEOREM TypeCorrect == DimmerSpec => []DimmerTypeOK
<1>1. DimmerInv => DimmerTypeOK
    BY DEF DimmerInv
<1>. QED
    BY <1>1, DimmerInvariance, PTL

\* For every panel, every argument and every pattern of failing calls: the
\* cache of a synced handle is what the panel shows (usbdimmer.cpp:188-277).
THEOREM CacheIsPanel == DimmerSpec => []CacheShowsPanel
<1>1. DimmerInv => CacheShowsPanel
    BY DEF DimmerInv, SyncedCache, CacheShowsPanel
<1>. QED
    BY <1>1, DimmerInvariance, PTL
=============================================================================
