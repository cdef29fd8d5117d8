-------------------------------- MODULE Panel -------------------------------
(***************************************************************************)
(* The Spike-a dimmer and the flat panel behind it, which are not in this  *)
(* repository: what emu/usbdimmer.cpp takes for granted about them.        *)
(*                                                                         *)
(* SETINTEN stores an intensity, SETSTATE "goto" starts moving the light   *)
(* to it, GETSTATE answers nonzero while it moves, GETINTEN answers an     *)
(* intensity.  Whether GETINTEN reports the stored intensity or the one    *)
(* the light has is not visible from the code: both are allowed.           *)
(***************************************************************************)
EXTENDS Integers

CONSTANTS
    MaxInten,           \* brightest intensity, 1023
    MaxReg,             \* largest intensity SETINTEN's two bytes carry, 65535
    DefaultBrightness,  \* DEFAULT_BRIGHTNESS, 900
    InitialFields,      \* what m_on and m_brightness may hold before Connect
                        \* first writes them: the constructor does not
    Faults              \* can HID calls fail or time out?

ASSUME PanelAssumption ==
    /\ MaxInten \in Nat /\ MaxReg \in Nat /\ MaxInten <= MaxReg
    /\ DefaultBrightness \in 1..MaxInten
    /\ InitialFields \subseteq [on : BOOLEAN, brightness : Int]
    /\ Faults \in BOOLEAN

Intensity == 0..MaxInten
Register == 0..MaxReg
Device == [level : Register, target : Register, moving : BOOLEAN]

\* The light is at v and stays there.
Steady(v) == [level |-> v, target |-> v, moving |-> FALSE]

Quiet(d) == d = Steady(d.level)

\* A moving light arrives at the stored intensity.
Arrive(d) == IF d.moving THEN Steady(d.target) ELSE d

\* Where the device may be a little later if nobody commands it.
Drift(d) == {d, Arrive(d)}

\* What GETINTEN may answer.
Gets(d) == {d.level, d.target}

\* USBD_SUCCESS, USBD_NOT_CONNECTED, USBD_COMM_ERROR (usbdimmer.h).
SUCCESS == 0
NOT_CONNECTED == -1
COMM_ERROR == -2

\* SetBrightness() limits its argument to the panel's range.
Clamp(val) == IF val < MaxInten THEN val ELSE MaxInten

\* set_inten() sends the low two bytes of its argument.
TwoBytes(inten) == inten % (MaxReg + 1)
=============================================================================
