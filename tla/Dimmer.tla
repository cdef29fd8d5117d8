------------------------------- MODULE Dimmer -------------------------------
(***************************************************************************)
(* What class USBDimmer promises its callers, one action per method call.  *)
(* A call is atomic here; module USBDimmer has the HID exchanges a call is *)
(* made of and implements this specification.                              *)
(*                                                                         *)
(* The object caches the panel's state in m_on and m_brightness.  The      *)
(* cache is read from the panel by Connect() only.  synced is a history    *)
(* variable: the handle was opened by a Connect() that read its own answer *)
(* from a panel at rest, and no exchange has failed since.                 *)
(***************************************************************************)
EXTENDS Panel

CONSTANT Args   \* arguments callers pass to SetBrightness(unsigned int)

ASSUME ArgsAssumption == Args \subseteq Nat

VARIABLES
    dev,            \* the panel
    stale,          \* may answers to timed-out requests still arrive?
    m_handle,       \* is the handle non-null?
    m_on,
    m_brightness,
    synced,
    handles,        \* HID handles opened and not closed
    ret             \* result of the last call

fields == <<m_on, m_brightness>>
dimmerVars == <<dev, stale, m_handle, m_on, m_brightness, synced, handles, ret>>

DimmerTypeOK ==
    /\ dev \in Device
    /\ stale \in BOOLEAN
    /\ m_handle \in BOOLEAN
    /\ m_on \in BOOLEAN
    /\ m_brightness \in Int
    /\ synced \in BOOLEAN
    /\ handles \in Nat
    /\ ret \in {SUCCESS, NOT_CONNECTED, COMM_ERROR}

DimmerInit ==
    /\ dev \in {Steady(v) : v \in Intensity}
    /\ stale = FALSE
    /\ m_handle = FALSE
    /\ \E f \in InitialFields : m_on = f.on /\ m_brightness = f.brightness
    /\ synced = FALSE
    /\ handles = 0
    /\ ret = SUCCESS

\* A new object: the constructor sets m_handle only.
Construct ==
    /\ ~m_handle
    /\ \E f \in InitialFields : m_on' = f.on /\ m_brightness' = f.brightness
    /\ UNCHANGED <<dev, stale, m_handle, synced, handles, ret>>

-----------------------------------------------------------------------------
(* Connect(), by what hid_open() and get_inten() do.                       *)

\* hid_open() returns null, and m_handle is assigned that.
OpenFails ==
    /\ Faults
    /\ m_handle' = FALSE
    /\ ret' = COMM_ERROR
    /\ synced' = FALSE
    /\ UNCHANGED <<dev, stale, m_on, m_brightness, handles>>

\* The device opens but its intensity cannot be read: the error return
\* leaves m_handle open and the cache as it was.
GetIntenFails ==
    /\ Faults
    /\ m_handle' = TRUE
    /\ handles' = handles + 1
    /\ ret' = COMM_ERROR
    /\ synced' = FALSE
    /\ dev' \in Drift(dev)
    /\ stale' \in BOOLEAN
    /\ UNCHANGED fields

\* get_inten() returns an intensity: the panel's, or whatever a late answer
\* holds where GETINTEN's would have it, for the command echoed in front is
\* not looked at.
GetIntenReturns(inten) ==
    /\ m_handle' = TRUE
    /\ handles' = handles + 1
    /\ ret' = SUCCESS
    /\ dev' \in Drift(dev)
    /\ \/ inten \in Gets(dev) /\ stale' = FALSE /\ synced' = Quiet(dev)
       \/ stale /\ stale' = TRUE /\ synced' = FALSE
    /\ m_on' = (inten > 0)
    /\ m_brightness' = IF inten > 0 THEN inten ELSE DefaultBrightness

Connect ==
    \/ OpenFails
    \/ GetIntenFails
    \/ \E inten \in Register : GetIntenReturns(inten)

\* Disconnect(): nothing to do without a handle.
Disconnect ==
    /\ m_handle
    /\ m_handle' = FALSE
    /\ handles' = handles - 1
    /\ synced' = FALSE
    /\ UNCHANGED <<dev, stale, m_on, m_brightness, ret>>

-----------------------------------------------------------------------------
(* set_inten(), by where it gives up.                                      *)

\* How far the device may have come when an exchange fails: the intensity
\* stored, the move perhaps started, perhaps finished.
Interrupted(v) ==
    {[level |-> l, target |-> v, moving |-> go] :
        l \in {dev.level, Arrive(dev).level, v}, go \in BOOLEAN}

\* A bug the runs would find: set_inten() does not wait for the light.
AcceptedMoving(v) == {Steady(v)} \cup {d \in Interrupted(v) : d.moving}

\* With late answers about, the answer that ends the polling loop may be an
\* older one: the call succeeds while the light still moves.
Accepted(v) ==
    {Steady(v)} \cup
    (IF stale THEN {d \in Interrupted(v) : d.moving} ELSE {})

SetInten(inten) ==
    \/ /\ ret' = SUCCESS
       /\ dev' \in Accepted(TwoBytes(inten))
       /\ UNCHANGED <<stale, synced>>
    \/ /\ Faults
       /\ ret' = COMM_ERROR
       /\ dev' \in Drift(dev) \cup Interrupted(TwoBytes(inten))
       /\ stale' \in BOOLEAN
       /\ synced' = FALSE

\* The calls that return without an exchange.
Returns(code) ==
    /\ ret' = code
    /\ UNCHANGED <<dev, stale, m_handle, synced, handles>>

\* A bug the runs would find: a light that is off is set, too.
SetBrightnessAnyway(arg) ==
    LET val == Clamp(arg)
    IN  \/ /\ ~m_handle
           /\ Returns(NOT_CONNECTED) /\ UNCHANGED fields
        \/ /\ m_handle /\ val = m_brightness
           /\ Returns(SUCCESS) /\ UNCHANGED fields
        \/ /\ m_handle /\ val # m_brightness
           /\ SetInten(val)
           /\ m_brightness' = IF ret' = SUCCESS THEN val ELSE m_brightness
           /\ m_on' = (ret' = SUCCESS => val # 0)
           /\ UNCHANGED <<m_handle, handles>>

SetBrightness(arg) ==
    LET val == Clamp(arg)
    IN  \/ /\ ~m_handle
           /\ Returns(NOT_CONNECTED) /\ UNCHANGED fields
        \/ /\ m_handle /\ val = m_brightness
           /\ Returns(SUCCESS) /\ UNCHANGED fields
        \/ /\ m_handle /\ val # m_brightness /\ ~m_on
           /\ m_brightness' = val
           /\ Returns(SUCCESS) /\ UNCHANGED m_on
        \/ /\ m_handle /\ val # m_brightness /\ m_on
           /\ SetInten(val)
           /\ m_brightness' = IF ret' = SUCCESS THEN val ELSE m_brightness
           /\ m_on' = (ret' = SUCCESS => val # 0)
           /\ UNCHANGED <<m_handle, handles>>

LightOn(on) ==
    LET inten == IF on THEN m_brightness ELSE 0
    IN  \/ /\ ~m_handle
           /\ Returns(NOT_CONNECTED) /\ UNCHANGED fields
        \/ /\ m_handle /\ m_on = on
           /\ Returns(SUCCESS) /\ UNCHANGED fields
        \/ /\ m_handle /\ m_on # on
           /\ SetInten(inten)
           /\ m_on' = IF ret' = SUCCESS THEN inten > 0 ELSE m_on
           /\ UNCHANGED <<m_handle, m_brightness, handles>>

\* The panel, by itself.
Settle ==
    /\ dev.moving
    /\ dev' = Arrive(dev)
    /\ UNCHANGED <<stale, m_handle, m_on, m_brightness, synced, handles, ret>>

DimmerNext ==
    \/ Construct
    \/ Connect
    \/ Disconnect
    \/ \E arg \in Args : SetBrightness(arg)
    \/ \E on \in BOOLEAN : LightOn(on)
    \/ Settle

DimmerSpec == DimmerInit /\ [][DimmerNext]_dimmerVars

-----------------------------------------------------------------------------

\* What the panel shows according to the cache.
Shown == IF m_on THEN m_brightness ELSE 0

\* The cache tells the truth: through a synced handle, whatever calls were
\* made on it, the light is at rest where m_on and m_brightness say it is
\* (usbdimmer.cpp:205-214, 233-246, 269-276).
CacheShowsPanel == synced => m_handle /\ ~stale /\ dev = Steady(Shown)
=============================================================================
