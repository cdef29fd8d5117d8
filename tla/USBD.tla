-------------------------------- MODULE USBD --------------------------------
(***************************************************************************)
(* The usbd DLL: the functions usbd.dll exports, over one USBDimmer object *)
(* and called by any program, any function whenever none is running, as    *)
(* long as the handle passed is one USBD_Open() returned and USBD_Close()  *)
(* has not taken back.  The calls are shown to implement module Dimmer.    *)
(***************************************************************************)
EXTENDS USBDimmer

CONSTANT Args   \* arguments callers pass to USBD_SetBrightness()

ASSUME ArgsAssumption == Args \subseteq Nat

VARIABLE before     \* history variable: dev, replies, m_handle and handles
                    \* when the running function was called

vars == <<dev, objectVars, before>>

Now == [dev |-> dev, stale |-> replies # <<>>, m_handle |-> m_handle,
        handles |-> handles]

Init ==
    /\ dev \in {Steady(v) : v \in Intensity}
    /\ ObjectInit
    /\ before = Now

USBD_Open == Construct
USBD_Close == Destruct
USBD_Connect == Connect \/ OpenFails
USBD_Disconnect == Disconnect
USBD_SetBrightness(val) == SetBrightness(val)
USBD_LightOn(on) == LightOn(on)

Step ==
    \/ USBD_Open \/ USBD_Close
    \/ USBD_Connect \/ USBD_Disconnect
    \/ \E val \in Args : USBD_SetBrightness(val)
    \/ \E on \in BOOLEAN : USBD_LightOn(on)
    \/ Exchanging
    \/ Settle

Next == Step /\ before' = IF pc' \in {"write", "read"} /\ pc = "idle"
                          THEN Now ELSE before

\* The program keeps running, reads end after 5000 ms, and a panel told to
\* move arrives.
Fairness == WF_vars(Exchanging /\ Next) /\ WF_vars(Settle /\ Next)

Spec == Init /\ [][Next]_vars /\ Fairness

-----------------------------------------------------------------------------

TypeOK ==
    /\ dev \in Device
    /\ ObjectTypeOK
    /\ Len(replies) <= MaxLate + 1

\* Each read gets the answer to the command written just before it, as the
\* comments "read response" take for granted (usbdimmer.cpp:92, 123, 143,
\* 161), in every call made through a synced handle: one report is due, and
\* it is that command's.
InStep ==
    pc = "read" /\ synced /\ call.op # "Connect" =>
        Len(replies) = 1 /\ replies[1].of = cmd

\* The object as its callers see it between calls.
Dimmer == INSTANCE Dimmer WITH
    dev      <- IF pc \in {"none", "idle"} THEN dev ELSE before.dev,
    stale    <- IF pc \in {"none", "idle"} THEN replies # <<>> ELSE before.stale,
    m_handle <- IF pc \in {"none", "idle"} THEN m_handle ELSE before.m_handle,
    handles  <- IF pc \in {"none", "idle"} THEN handles ELSE before.handles

\* Every call, with all its exchanges and whatever the panel does meanwhile,
\* has one of the outcomes module Dimmer allows: a success means the light
\* has arrived, unless late answers were about (usbdimmer.cpp:107-175,
\* 188-277).
ImplementsDimmer == Dimmer!DimmerSpec

\* Every method returns: the unbounded polling loop of set_inten() ends
\* because the panel arrives (usbdimmer.cpp:150-172).
CallsReturn == pc \in {"write", "read"} ~> pc = "idle"

-----------------------------------------------------------------------------
(* What the source says, and the code does not do.                         *)

\* "val = std::min(std::max(val, 0U), 1023U)" (usbdimmer.cpp:232): the panel
\* is never told an intensity beyond its range, "a value from 0 to 1023"
\* (README.txt:93).
TargetInRange == dev.target <= MaxInten
=============================================================================
