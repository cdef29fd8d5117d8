----------------------------- MODULE USBDimmer ------------------------------
(***************************************************************************)
(* Class USBDimmer at the level of its HID exchanges: each hid_write() and *)
(* each hid_read_timeout() is a step, and the panel moves, answers late or *)
(* fails in between.  Module USBD has the object used by any caller of the *)
(* DLL.                                                                    *)
(*                                                                         *)
(* Reads take the oldest report in the handle's queue, whichever command   *)
(* it answers.  A read that times out leaves its answer to come, so every  *)
(* later read on the handle is off by one.                                 *)
(***************************************************************************)
EXTENDS Panel, Sequences

CONSTANTS
    AckBytes,       \* what the answers to SETINTEN and SETSTATE may hold
                    \* where an intensity or a state would be
    MaxLate,        \* bound: answers still to come after timed-out reads
    MaxHandles      \* bound: handles a caller leaks by connecting again

ASSUME ExchangeAssumption ==
    /\ AckBytes \subseteq Register /\ AckBytes # {}
    /\ MaxLate \in Nat /\ MaxHandles \in Nat

VARIABLES
    dev,            \* the panel
    replies,        \* answers not read yet, arrived or still to come
    m_handle, m_on, m_brightness,
    synced, handles, ret,       \* as in module Dimmer
    pc,             \* "none" without an object, "idle" between calls, or
                    \* about to "write" or to "read"
    cmd,            \* the command being exchanged
    call            \* the method running, the intensity it sets, and
                    \* whether the panel was at rest when it was called

fields == <<m_on, m_brightness>>
objectVars == <<replies, m_handle, m_on, m_brightness, synced, handles, ret,
                pc, cmd, call>>

Commands == {"GETINTEN", "SETINTEN", "SETSTATE", "GETSTATE"}
NoCommand == "none"
NoCall == [op |-> "none", inten |-> 0, quiet |-> FALSE]

\* No object yet.
ObjectInit ==
    /\ replies = <<>>
    /\ m_handle = FALSE
    /\ \E f \in InitialFields : m_on = f.on /\ m_brightness = f.brightness
    /\ synced = FALSE
    /\ handles = 0
    /\ ret = SUCCESS
    /\ pc = "none" /\ cmd = NoCommand /\ call = NoCall

-----------------------------------------------------------------------------
(* Calls and returns.                                                      *)

\* A method that goes on to exchange first, for intensity inten.
Begin(op, inten, first) ==
    /\ pc' = "write" /\ cmd' = first
    /\ call' = [op |-> op, inten |-> inten, quiet |-> Quiet(dev)]
    /\ UNCHANGED <<dev, m_on, m_brightness, synced, ret>>

\* A method that returns without an exchange.
ReturnAtOnce(code) ==
    /\ ret' = code
    /\ UNCHANGED <<dev, replies, synced, handles, pc, cmd, call>>

\* The running method returns; dev and replies are the caller's business.
Return(code) ==
    /\ ret' = code
    /\ pc' = "idle" /\ cmd' = NoCommand /\ call' = NoCall
    /\ UNCHANGED <<m_handle, handles>>

ReturnError ==
    /\ Return(COMM_ERROR)
    /\ synced' = FALSE
    /\ UNCHANGED fields

-----------------------------------------------------------------------------
(* The methods.                                                            *)

\* USBDimmer::USBDimmer() sets m_handle only.
Construct ==
    /\ pc = "none"
    /\ \E f \in InitialFields : m_on' = f.on /\ m_brightness' = f.brightness
    /\ pc' = "idle"
    /\ UNCHANGED <<dev, replies, m_handle, synced, handles, ret, cmd, call>>

OpenFails ==
    /\ pc = "idle"
    /\ Faults
    /\ m_handle' = FALSE
    /\ synced' = FALSE
    /\ ret' = COMM_ERROR
    /\ UNCHANGED <<dev, replies, m_on, m_brightness, handles, pc, cmd, call>>

\* A fresh handle does not see the answers that arrived before it was opened.
Connect ==
    /\ pc = "idle"
    /\ handles < MaxHandles
    /\ m_handle' = TRUE
    /\ handles' = handles + 1
    /\ \E n \in 0..Len(replies) : replies' = SubSeq(replies, n + 1, Len(replies))
    /\ Begin("Connect", 0, "GETINTEN")

\* A bug the runs would find: closing whether or not a handle is open.
DisconnectAlways ==
    /\ pc = "idle"
    /\ m_handle' = FALSE
    /\ handles' = handles - 1
    /\ synced' = FALSE
    /\ UNCHANGED <<dev, replies, m_on, m_brightness, ret, pc, cmd, call>>

Disconnect ==
    /\ pc = "idle"
    /\ m_handle
    /\ m_handle' = FALSE
    /\ handles' = handles - 1
    /\ synced' = FALSE
    /\ UNCHANGED <<dev, replies, m_on, m_brightness, ret, pc, cmd, call>>

\* The destructor disconnects.
Destruct ==
    /\ pc = "idle"
    /\ pc' = "none"
    /\ m_handle' = FALSE
    /\ handles' = IF m_handle THEN handles - 1 ELSE handles
    /\ synced' = FALSE
    /\ UNCHANGED <<dev, replies, m_on, m_brightness, ret, cmd, call>>

SetBrightness(arg) ==
    LET val == Clamp(arg)
    IN  /\ pc = "idle"
        /\ \/ ~m_handle /\ ReturnAtOnce(NOT_CONNECTED) /\ UNCHANGED fields
           \/ /\ m_handle /\ val = m_brightness
              /\ ReturnAtOnce(SUCCESS) /\ UNCHANGED fields
           \/ /\ m_handle /\ val # m_brightness /\ ~m_on
              /\ m_brightness' = val
              /\ ReturnAtOnce(SUCCESS) /\ UNCHANGED m_on
           \/ /\ m_handle /\ val # m_brightness /\ m_on
              /\ Begin("SetBrightness", val, "SETINTEN")
              /\ UNCHANGED <<replies, handles>>
        /\ UNCHANGED m_handle

LightOn(on) ==
    /\ pc = "idle"
    /\ \/ ~m_handle /\ ReturnAtOnce(NOT_CONNECTED)
       \/ m_handle /\ m_on = on /\ ReturnAtOnce(SUCCESS)
       \/ /\ m_handle /\ m_on # on
          /\ Begin("LightOn", IF on THEN m_brightness ELSE 0, "SETINTEN")
          /\ UNCHANGED <<replies, handles>>
    /\ UNCHANGED <<m_handle, m_on, m_brightness>>

-----------------------------------------------------------------------------
(* The exchanges.                                                          *)

\* What the command makes of the device.
Obeyed ==
    CASE cmd = "SETINTEN" -> [dev EXCEPT !.target = TwoBytes(call.inten)]
      [] cmd = "SETSTATE" -> [dev EXCEPT !.moving = TRUE]
      [] OTHER            -> dev

\* What the device may answer, where the code looks for the value.
Answers ==
    CASE cmd = "GETINTEN" -> Gets(dev)
      [] cmd = "GETSTATE" -> {IF dev.moving THEN 1 ELSE 0}
      [] OTHER            -> AckBytes

\* A bug the runs would find: the answer to SETSTATE is not read.
WriteWithoutReading ==
    /\ pc = "write"
    /\ dev' = Obeyed
    /\ \E val \in Answers : replies' = Append(replies, [of |-> cmd, val |-> val])
    /\ IF cmd = "SETSTATE"
       THEN pc' = "write" /\ cmd' = "GETSTATE"
       ELSE pc' = "read" /\ UNCHANGED cmd
    /\ UNCHANGED <<m_handle, m_on, m_brightness, synced, handles, ret, call>>

\* hid_write(): the device gets the command, obeys and answers.
Write ==
    /\ pc = "write"
    /\ dev' = Obeyed
    /\ \E val \in Answers : replies' = Append(replies, [of |-> cmd, val |-> val])
    /\ pc' = "read"
    /\ UNCHANGED <<m_handle, m_on, m_brightness, synced, handles, ret, cmd, call>>

WriteFails ==
    /\ pc = "write"
    /\ Faults
    /\ ReturnError
    /\ UNCHANGED <<dev, replies>>

\* usbd_read() returns 0 or less: the answer comes too late, or never.
ReadFails ==
    /\ pc = "read"
    /\ Faults
    /\ \/ Len(replies) <= MaxLate /\ UNCHANGED replies
       \/ replies' = <<>>
    /\ ReturnError
    /\ UNCHANGED dev

\* The caches Connect(), SetBrightness() and LightOn() leave on success.
ConnectSucceeds(inten) ==
    /\ m_on' = (inten > 0)
    /\ m_brightness' = IF inten > 0 THEN inten ELSE DefaultBrightness
    /\ synced' = (Tail(replies) = <<>> /\ call.quiet)

SetSucceeds ==
    /\ UNCHANGED synced
    /\ \/ /\ call.op = "SetBrightness"
          /\ m_brightness' = call.inten
          /\ m_on' = (m_on /\ call.inten # 0)
       \/ /\ call.op = "LightOn"
          /\ m_on' = (call.inten > 0)
          /\ UNCHANGED m_brightness

\* Bugs the runs would find: one poll ends the loop, or the test inverted.
ArrivedAnyway(val) == TRUE
ArrivedInverted(val) == val # 0

\* The state that ends the polling loop.
Arrived(val) == val = 0

\* The oldest report is taken for the answer; the next command depends on
\* the code's place and, when polling, on the report.
Read ==
    /\ pc = "read"
    /\ replies # <<>>
    /\ replies' = Tail(replies)
    /\ LET val == Head(replies).val
           Exchange(next) ==
               /\ pc' = "write" /\ cmd' = next
               /\ UNCHANGED <<m_handle, m_on, m_brightness, synced, handles, ret, call>>
       IN  \/ cmd = "GETINTEN" /\ ConnectSucceeds(val) /\ Return(SUCCESS)
           \/ cmd = "SETINTEN" /\ Exchange("SETSTATE")
           \/ cmd = "SETSTATE" /\ Exchange("GETSTATE")
           \/ cmd = "GETSTATE" /\ ~Arrived(val) /\ Exchange("GETSTATE")
           \/ cmd = "GETSTATE" /\ Arrived(val) /\ SetSucceeds /\ Return(SUCCESS)
    /\ UNCHANGED dev

\* The panel, by itself.
Settle ==
    /\ dev.moving
    /\ dev' = Arrive(dev)
    /\ UNCHANGED objectVars

Exchanging == Write \/ WriteFails \/ Read \/ ReadFails

ObjectTypeOK ==
    /\ replies \in Seq([of : Commands, val : Register])
    /\ m_handle \in BOOLEAN /\ m_on \in BOOLEAN /\ m_brightness \in Int
    /\ synced \in BOOLEAN /\ handles \in 0..MaxHandles
    /\ ret \in {SUCCESS, NOT_CONNECTED, COMM_ERROR}
    /\ pc \in {"none", "idle", "write", "read"}
    /\ cmd \in Commands \cup {NoCommand}
    /\ call.op \in {"none", "Connect", "SetBrightness", "LightOn"}
=============================================================================
