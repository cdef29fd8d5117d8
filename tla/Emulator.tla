------------------------------ MODULE Emulator ------------------------------
(***************************************************************************)
(* alnitak_emu.exe: the command loop of emu/emu.cpp over the global        *)
(* AlnitakEmu panel.  A request that needs the panel connects it on demand *)
(* and is then served; a failed light or brightness request disconnects    *)
(* it; reads that time out disconnect it once it has been idle for 15 s.   *)
(*                                                                         *)
(* The loop is one thread.  A handler is split where it calls the dimmer a *)
(* second time: "serve" is after ConnectPanel() returned true, "drop" is   *)
(* before the DisconnectPanel() of a failed request.                       *)
(***************************************************************************)
EXTENDS Dimmer, IntenMap

CONSTANTS
    level_of,       \* alnitak_val() as a function on Register
    Base,           \* of the digits a response is written in, 10
    Asked,          \* brightnesses clients ask for, an unsigned int each
    IdleTimeout,    \* idle_timeout, 15 s, in read timeouts of 3 s
    MaxAhead        \* bound: how far ahead of the clock disconnect_time may
                    \* get when the clock is set back

ASSUME EmulatorAssumption ==
    /\ level_of \in [Register -> Levels]
    /\ \A r \in Register : Near(level_of[r], r)
    \* three digits are enough for a level
    /\ Base \in Nat \ {0, 1} /\ MaxLvl < Base * Base * Base
    /\ Asked \subseteq Nat
    /\ Args = {usbd_val(lvl) : lvl \in Levels}
    /\ \A i \in Cells : map[i] <= MaxInten
    \* a global: zeroed before its constructor, which leaves the two alone
    /\ InitialFields = {[on |-> FALSE, brightness |-> 0]}
    /\ IdleTimeout \in Nat
    /\ MaxAhead \in Nat /\ MaxAhead >= IdleTimeout

VARIABLES
    light, blvl,    \* AlnitakEmu's copy of the state, which it reports
    pc,             \* "read", "serve", "drop" or "exit"
    req,            \* the request being served
    resp,           \* the response just written, if one was
    remaining,      \* disconnect_time - time64(), or Expired
    quiet,          \* history variable: time since the last response, or
                    \* Forever if the clock has been set since
    gone,           \* history variable: has the client stopped for good?
    failed,         \* history variable: has a HID call failed?
    jumped          \* history variable: has the clock been set since
                    \* disconnect_time was computed?

emulatorVars == <<light, blvl, pc, req, resp, remaining, quiet, gone, jumped>>
vars == <<dimmerVars, emulatorVars, failed>>

Expired == -1
Forever == IdleTimeout + 1
None == [cmd |-> "none", arg |-> 0]

\* The requests that need the panel; only B has an argument.
Requests == [cmd : {"S", "L", "D", "J", "V"}, arg : {0}] \cup [cmd : {"B"}, arg : Asked]
Responses == [cmd : {"S", "L", "D", "J", "V", "B"}, arg : Nat]

Init ==
    /\ DimmerInit
    /\ light = FALSE
    /\ blvl = MaxLvl
    /\ pc = "read" /\ req = None /\ resp = None
    /\ remaining = Expired      \* disconnect_time is 0, long past
    /\ quiet = Forever
    /\ gone = FALSE /\ failed = FALSE /\ jumped = FALSE

\* A bug the runs would find: activity does not postpone the timeout.
LeaveDisconnectTime == UNCHANGED <<remaining, jumped>>

\* update_disconnect_time()
UpdateDisconnectTime == remaining' = IdleTimeout /\ jumped' = FALSE

-----------------------------------------------------------------------------
(* A line arrives.                                                         *)

\* ConnectPanel() finds the handle open, whoever left it open.
AlreadyConnected ==
    /\ m_handle
    /\ pc' = "serve"
    /\ UNCHANGED <<dimmerVars, light, blvl, remaining, jumped>>

\* Bugs the runs would find: half of the state is not copied.
CopyBrightness == blvl' = level_of[m_brightness'] /\ UNCHANGED light
CopyLight == light' = m_on' /\ UNCHANGED blvl

CopyState == light' = m_on' /\ blvl' = level_of[m_brightness']

\* AlnitakEmu::Connect() copies the state the dimmer read, or fails and the
\* request is dropped without a response.
ConnectPanel ==
    /\ ~m_handle
    /\ Connect
    /\ \/ /\ ret' = SUCCESS
          /\ CopyState
          /\ pc' = "serve"
          /\ UpdateDisconnectTime
       \/ /\ ret' # SUCCESS
          /\ pc' = "read"
          /\ UNCHANGED <<light, blvl, remaining, jumped>>

Receive(r) ==
    /\ pc = "read" /\ ~gone
    /\ AlreadyConnected \/ ConnectPanel
    /\ req' = IF pc' = "serve" THEN r ELSE None
    /\ resp' = None
    /\ UNCHANGED <<quiet, gone>>

-----------------------------------------------------------------------------
(* The request is served with the panel connected.                         *)

Respond(arg) ==
    /\ resp' = [cmd |-> req.cmd, arg |-> arg]
    /\ pc' = "read" /\ req' = None
    /\ UpdateDisconnectTime
    /\ quiet' = 0
    /\ UNCHANGED gone

\* The set failed: no response, and DisconnectPanel() follows.
GiveUp ==
    /\ pc' = "drop" /\ req' = None /\ resp' = None
    /\ UNCHANGED <<light, blvl, remaining, quiet, gone, jumped>>

\* The level is formatted as three digits into a buffer that has room for
\* two of them.
TwoDigits(lvl) == lvl \div Base

\* stateStr() reports light, brightness requests what is left of blvl, the
\* version a constant.
ServeQuery ==
    /\ pc = "serve"
    /\ \/ req.cmd = "S" /\ Respond(IF light THEN 1 ELSE 0)
       \/ req.cmd = "J" /\ Respond(TwoDigits(blvl))
       \/ req.cmd = "V" /\ Respond(999)
    /\ UNCHANGED <<dimmerVars, light, blvl>>

\* Built with MSVC, _snprintf_s() does not cut what has no room but stops the
\* program, and Windows closes its handles.
Abort ==
    /\ pc = "serve" /\ req.cmd = "J"
    /\ Disconnect
    /\ pc' = "exit" /\ req' = None /\ resp' = None
    /\ UNCHANGED <<light, blvl, remaining, quiet, gone, jumped>>

\* AlnitakEmu::setLightOn()
ServeLight ==
    /\ pc = "serve" /\ req.cmd \in {"L", "D"}
    /\ LightOn(req.cmd = "L")
    /\ \/ /\ ret' = SUCCESS
          /\ light' = (req.cmd = "L")
          /\ UNCHANGED blvl
          /\ Respond(0)
       \/ ret' # SUCCESS /\ GiveUp

\* A bug the runs would find: the level is not cut to a byte.
Uncut(b) == b

\* An unsigned int passed as an unsigned char.
ToByte(b) == b % (MaxLvl + 1)

\* AlnitakEmu::setBrightness() takes an unsigned char; the response is known
\* by the number asked for, whose digits module CommandLine follows.
ServeBrightness ==
    /\ pc = "serve" /\ req.cmd = "B"
    /\ LET val == ToByte(req.arg)
       IN  /\ SetBrightness(usbd_val(val))
           /\ \/ /\ ret' = SUCCESS
                 /\ blvl' = val
                 /\ UNCHANGED light
                 /\ Respond(req.arg)
              \/ ret' # SUCCESS /\ GiveUp

Serve == ServeQuery \/ Abort \/ ServeLight \/ ServeBrightness

DisconnectPanel ==
    /\ pc = "drop"
    /\ Disconnect
    /\ pc' = "read"
    /\ UNCHANGED <<light, blvl, req, resp, remaining, quiet, gone, jumped>>

-----------------------------------------------------------------------------
(* Time.                                                                   *)

\* One read timeout's worth of time goes by.
Passes ==
    /\ remaining' = IF remaining = Expired THEN Expired ELSE remaining - 1
    /\ quiet' = IF quiet = Forever THEN Forever ELSE quiet + 1

\* Time passes while bytes keep coming or calls take long.
Elapse ==
    /\ pc # "exit"
    /\ Passes
    /\ UNCHANGED <<dimmerVars, light, blvl, pc, req, resp, gone, jumped>>

\* A bug the runs would find: only a synced handle is released.
IdleSynced == synced /\ remaining' = Expired

\* panel.IsConnected() && time64() > disconnect_time
Idle == m_handle /\ remaining' = Expired

\* dev.Read() returns 0 after 3 s without a byte, and the loop looks whether
\* the panel has been idle for too long.
ReadTimeout ==
    /\ pc = "read"
    /\ Passes
    /\ IF Idle
       THEN Disconnect
       ELSE UNCHANGED dimmerVars
    /\ resp' = None
    /\ UNCHANGED <<light, blvl, pc, req, gone, jumped>>

\* A bug the runs would find: the panel is not disconnected.
ExitConnected ==
    /\ pc = "read"
    /\ pc' = "exit"
    /\ resp' = None
    /\ UNCHANGED <<dimmerVars, light, blvl, req, remaining, quiet, gone, jumped>>

\* The line "quit", or a read error of the COM port: main() returns and the
\* global panel's destructor disconnects.
Exit ==
    /\ pc = "read"
    /\ pc' = "exit"
    /\ IF m_handle THEN Disconnect ELSE UNCHANGED dimmerVars
    /\ resp' = None
    /\ UNCHANGED <<light, blvl, req, remaining, quiet, gone, jumped>>

\* time64() is the wall clock in 32-bit seconds: the user, a time server or
\* the year 2038 may set it either way.
ClockIsSet ==
    /\ pc # "exit" /\ ~jumped
    /\ remaining' \in Expired..MaxAhead
    /\ jumped' = TRUE
    /\ quiet' = Forever
    /\ UNCHANGED <<dimmerVars, light, blvl, pc, req, resp, gone>>

-----------------------------------------------------------------------------
(* The environment.                                                        *)

ClientLeaves ==
    /\ ~gone
    /\ gone' = TRUE
    /\ UNCHANGED <<dimmerVars, light, blvl, pc, req, resp, remaining, quiet, jumped>>

PanelSettles == Settle /\ UNCHANGED emulatorVars

Step ==
    \/ \E r \in Requests : Receive(r)
    \/ Serve
    \/ DisconnectPanel
    \/ Elapse
    \/ ReadTimeout
    \/ ClockIsSet
    \/ Exit
    \/ ClientLeaves
    \/ PanelSettles

Next == Step /\ failed' = (failed \/ ret' = COMM_ERROR)

\* The thread keeps running, and once no byte comes any more ReadFile
\* returns after 3000 ms (the COMMTIMEOUTS of serialport.cpp).  Clients owe
\* nothing.
Fairness ==
    /\ WF_vars(Serve /\ Next) /\ WF_vars(DisconnectPanel /\ Next)
    /\ WF_vars(gone /\ ReadTimeout /\ Next)

Spec == Init /\ [][Next]_vars /\ Fairness

-----------------------------------------------------------------------------

TypeOK ==
    /\ DimmerTypeOK
    /\ light \in BOOLEAN
    /\ blvl \in Levels
    /\ pc \in {"read", "serve", "drop", "exit"}
    /\ req \in Requests \cup {None}
    /\ resp \in Responses \cup {None}
    /\ remaining \in Expired..MaxAhead
    /\ quiet \in 0..Forever
    /\ gone \in BOOLEAN /\ failed \in BOOLEAN /\ jumped \in BOOLEAN

\* The emulator never connects over an open handle, so it holds one HID
\* handle at most, and none once it has exited (emu.cpp:64-81, 83-87,
\* alnitak_emu.h:77-80), although Connect() itself would leak it.
OneHandle ==
    /\ handles = IF m_handle THEN 1 ELSE 0
    /\ pc = "exit" => handles = 0

\* Through a synced handle the emulator never reports the light off while
\* the panel is lit, after any sequence of requests, failures and
\* reconnects (alnitak_emu.cpp:92, 125-133 against usbdimmer.cpp:205-276).
NeverReportsLitPanelOff == synced /\ dev.level > 0 => light

\* Through a synced handle blvl, the emulator's copy of the brightness, is
\* the cached intensity's level: the one it was set from, or one no other
\* level is nearer than (alnitak_emu.cpp:93, 135-144).
ReportsCachedLevel ==
    synced => m_brightness = Clamp(usbd_val(blvl)) \/ Near(blvl, m_brightness)

\* What a response promises through a synced handle: D, the panel is dark;
\* L, it is at the intensity in the cache; B, it is dark or at the
\* intensity asked for, and the next L will light it so (emu.cpp:159-211).
ResponseKept ==
    synced =>
        /\ resp.cmd = "D" => dev = Steady(0)
        /\ resp.cmd = "L" => dev = Steady(m_brightness)
        /\ resp.cmd = "B" =>
            LET inten == Clamp(usbd_val(ToByte(resp.arg)))
            IN  /\ m_brightness = inten
                /\ dev \in {Steady(0), Steady(inten)}

\* The idle timeout never takes the panel from a client that got a response
\* within the last 15 s, unless the clock has been set since that response
\* (emu.cpp:59-62, 129-132, dbg.cpp:84-89).
NeverDropsActiveClient ==
    [][pc = "read" /\ pc' = "read" /\ m_handle /\ ~m_handle' =>
        quiet' = Forever]_vars

\* A connected panel is released once the client is silent, for other
\* programs to use, even one left open by a failed connect and even if the
\* clock is set back in the meantime (emu.cpp:127-134).
EventuallyReleased == gone ~> [](~m_handle)

\* As long as no HID call has failed, the handle is synced: no sequence of
\* requests, idle timeouts and reconnects leaves the panel moving when it is
\* connected again or late answers behind (usbdimmer.cpp:150-172, 199-216).
SyncedUntilFailure == ~failed => (m_handle => synced)

\* The emulator as its client sees it: the panel is held through a synced
\* handle, released when it rests without one, and lost otherwise.
Lamp == INSTANCE FlatMan WITH
    mode   <- IF synced THEN "held"
              ELSE IF ~m_handle /\ ~stale /\ Quiet(dev) THEN "released"
              ELSE "lost",
    glow   <- dev.level,
    preset <- m_brightness,
    level  <- blvl,
    asked  <- light,
    answer <- resp

\* Three copies of the state, a panel that moves by itself and commands that
\* are skipped look to the client like one lamp: each response is true when
\* it is given, J's as far as its two digits go, nothing happens to the light
\* in between, and letting go of the panel and taking it again forgets at most
\* the brightness of a light that is off (emu.cpp:127-231,
\* alnitak_emu.cpp:88-97, 125-144, usbdimmer.cpp:188-277).
ImplementsFlatMan == Lamp!Spec

-----------------------------------------------------------------------------
(* What the comments and messages of the source say, and the code does not *)
(* do.                                                                     *)

\* "light on?" (alnitak_emu.h:44): the flag the state response reports is
\* TRUE only while the panel is lit, as far as the client asked for light.
LightFlagHonest == synced /\ light /\ blvl > 0 => dev.level > 0

\* "REQ: light off" (emu.cpp:177): once a D has been answered, the panel is
\* dark.
LightOffTurnsPanelOff == resp.cmd = "D" => dev.level = 0
=============================================================================
