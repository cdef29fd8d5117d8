---------------------------- MODULE SharedPanel -----------------------------
(***************************************************************************)
(* The emulator and a command-line tool, aacmd or usbdctrl, over one       *)
(* panel.  Each process has a USBDimmer object of its own and neither      *)
(* knows of the other: the steps of their set_inten() interleave, and      *)
(* either process may be stopped anywhere.                                 *)
(*                                                                         *)
(* Windows hands every report of a HID device to every open handle, which  *)
(* queues it and drops the oldest ones when nobody reads.  So a process    *)
(* finds the answers to the other one's commands in its queue, and reads   *)
(* them for its own.                                                       *)
(*                                                                         *)
(* An exchange is one step here: what the panel does and answers is        *)
(* settled by the write, and the read only collects a report (module       *)
(* USBDimmer has the two apart).  Of the emulator only the calls on its    *)
(* object are here; module Emulator says when it makes them.               *)
(***************************************************************************)
EXTENDS Panel, IntenMap, Sequences

CONSTANTS
    Asked,          \* levels the emulator's client asks for
    Numbers,        \* numbers on the tools' command lines
    MaxInt,         \* largest int, 2^31 - 1
    Buffers,        \* reports a handle keeps, 64
    MaxLate         \* bound: late answers on their way at a time

ASSUME SharedAssumption ==
    /\ MaxInt \in Nat /\ Buffers \in Nat \ {0} /\ MaxLate \in Nat
    /\ Asked \subseteq Levels
    /\ Numbers \subseteq 0..(2 * MaxInt + 1)

Process == {"emulator", "tool"}
Other(p) == IF p = "tool" THEN "emulator" ELSE "tool"

VARIABLES
    dev,            \* the panel
    open,           \* open[p]: has p's object an open handle?
    cache,          \* cache[p]: m_on and m_brightness of p's object
    pc,             \* pc[p]: "none" without an object, "idle" between calls,
                    \* the next exchange: "get" in get_inten(), "store", "go"
                    \* or "poll" in set_inten(), or "drop", about to
                    \* disconnect after a failure
    call,           \* call[p]: the method running and the intensity it sets
    main,           \* the tool's place in main()
    job,            \* the intensity the tool is to set, or Query
    queue,          \* queue[p]: the reports p's handle keeps; of each, whether
                    \* it reads as "does not move", its first byte being 0
    late,           \* answers that may still come and nobody waits for
    clean,          \* history: p connected to a panel at rest, nobody else has
                    \* exchanged anything with it since, and no exchange failed
    cut             \* history: was a set_inten() cut short between SETINTEN
                    \* and SETSTATE, and no SETSTATE sent since?

object == <<open, cache, queue, clean, late>>
tool == <<main, job>>
vars == <<dev, object, pc, call, tool, cut>>

InCall == {"store", "go", "poll"}
Exchanging == InCall \cup {"get"}
NoCall == [op |-> "none", inten |-> 0]
Gone == [on |-> FALSE, brightness |-> 0]
Query == -1

Init ==
    /\ dev \in {Steady(v) : v \in Intensity}
    /\ open = [p \in Process |-> FALSE]
    /\ cache = [p \in Process |-> Gone]
    /\ pc = [p \in Process |-> "none"]
    /\ call = [p \in Process |-> NoCall]
    /\ main = "none" /\ job = Query
    /\ queue = [p \in Process |-> <<>>]
    /\ late = 0
    /\ clean = [p \in Process |-> FALSE]
    /\ cut = FALSE

-----------------------------------------------------------------------------
(* Reports.                                                                *)

Latest(reports) == IF Len(reports) > Buffers THEN Tail(reports) ELSE reports

\* What p takes for the answer to its command: the first report in its queue,
\* which is the answer itself if nothing else is waiting.
Heard(p, answer) == Head(Append(queue[p], answer))

\* An exchange of p: the answer goes to every open handle, and p reads one
\* report.
Exchange(p, answer) ==
    /\ queue' = [q \in Process |->
            IF q = p THEN Tail(Append(queue[p], answer))
            ELSE IF open[q] THEN Latest(Append(queue[q], answer))
            ELSE queue[q]]
    /\ late' = late

\* Nothing but an exchange of p's own.
OthersLoseTrack(p) == [q \in Process |-> q = p /\ clean[p]]

\* An answer nobody waits for any more arrives, with any first byte.
LateAnswer ==
    /\ late > 0 /\ late' = late - 1
    /\ \E answer \in BOOLEAN :
        queue' = [q \in Process |->
            IF open[q] THEN Latest(Append(queue[q], answer)) ELSE queue[q]]
    /\ UNCHANGED <<dev, open, cache, clean, pc, call, tool, cut>>

\* An exchange fails: its answer may be lost, or late.
AnswerIsMissed ==
    /\ late' \in {late, late + 1} /\ late' <= MaxLate
    /\ clean' = [q \in Process |-> FALSE]

-----------------------------------------------------------------------------
(* The objects.                                                            *)

Construct(p) ==
    /\ pc[p] = "none"
    /\ pc' = [pc EXCEPT ![p] = "idle"]
    /\ cache' \in {[cache EXCEPT ![p] = f] : f \in InitialFields}
    /\ UNCHANGED <<dev, open, call, queue, late, clean, cut>>

\* The handle is closed, and what it kept is gone.
Closed(p) ==
    /\ open' = [open EXCEPT ![p] = FALSE]
    /\ queue' = [queue EXCEPT ![p] = <<>>]

\* A bug the runs would find: the destructor leaves the handle open.
DestructOnly(p) ==
    /\ pc[p] = "idle"
    /\ pc' = [pc EXCEPT ![p] = "none"]
    /\ cache' = [cache EXCEPT ![p] = Gone]
    /\ UNCHANGED <<dev, open, queue, clean, call, late, cut>>

\* The destructor disconnects.
Destruct(p) ==
    /\ pc[p] = "idle"
    /\ pc' = [pc EXCEPT ![p] = "none"]
    /\ Closed(p)
    /\ clean' = [clean EXCEPT ![p] = FALSE]
    /\ cache' = [cache EXCEPT ![p] = Gone]
    /\ UNCHANGED <<dev, call, late, cut>>

\* Connect() opens a handle, with nothing in its queue yet.
Opens(p) ==
    /\ pc[p] = "idle" /\ ~open[p]
    /\ open' = [open EXCEPT ![p] = TRUE]
    /\ pc' = [pc EXCEPT ![p] = "get"]
    /\ UNCHANGED <<dev, cache, queue, late, clean, call, cut>>

\* get_inten() returns the panel's intensity, or what it makes of another
\* report.
GetInten(p) ==
    /\ pc[p] = "get"
    /\ pc' = [pc EXCEPT ![p] = "idle"]
    /\ \E answer \in BOOLEAN : Exchange(p, answer)
    /\ \E inten \in (IF queue[p] = <<>> THEN Gets(dev) ELSE Register) :
        cache' = [cache EXCEPT ![p] =
            [on         |-> inten > 0,
             brightness |-> IF inten > 0 THEN inten ELSE DefaultBrightness]]
    /\ clean' = [q \in Process |-> q = p /\ queue[p] = <<>> /\ late = 0 /\ Quiet(dev)]
    /\ UNCHANGED <<dev, open, call, cut>>

\* The handle stays open, the cache as it was.
GetIntenFails(p) ==
    /\ Faults
    /\ pc[p] = "get"
    /\ pc' = [pc EXCEPT ![p] = "idle"]
    /\ AnswerIsMissed
    /\ UNCHANGED <<dev, open, cache, queue, call, cut>>

Begin(p, op, inten) ==
    /\ pc' = [pc EXCEPT ![p] = "store"]
    /\ call' = [call EXCEPT ![p] = [op |-> op, inten |-> inten]]
    /\ UNCHANGED <<dev, object, cut>>

SetBrightness(p, arg) ==
    LET val == Clamp(arg)
    IN  /\ pc[p] = "idle" /\ open[p]
        /\ \/ /\ val = cache[p].brightness
              /\ UNCHANGED <<dev, object, pc, call, cut>>
           \/ /\ val # cache[p].brightness /\ ~cache[p].on
              /\ cache' = [cache EXCEPT ![p].brightness = val]
              /\ UNCHANGED <<dev, open, queue, clean, late, pc, call, cut>>
           \/ /\ val # cache[p].brightness /\ cache[p].on
              /\ Begin(p, "SetBrightness", val)

LightOn(p, on) ==
    /\ pc[p] = "idle" /\ open[p]
    /\ \/ cache[p].on = on /\ UNCHANGED <<dev, object, pc, call, cut>>
       \/ /\ cache[p].on # on
          /\ Begin(p, "LightOn", IF on THEN cache[p].brightness ELSE 0)

-----------------------------------------------------------------------------
(* set_inten().                                                            *)

Stored(p) == [dev EXCEPT !.target = TwoBytes(call[p].inten)]
Started == [dev EXCEPT !.moving = TRUE]

\* SETINTEN or SETSTATE: whatever report is read ends the exchange.
Command(p, next) ==
    /\ \E answer \in BOOLEAN : Exchange(p, answer)
    /\ clean' = OthersLoseTrack(p)
    /\ pc' = [pc EXCEPT ![p] = next]
    /\ UNCHANGED <<open, cache, call>>

\* A bug the runs would find: SETSTATE is not sent.
StoreOnly(p) ==
    /\ pc[p] = "store"
    /\ dev' = Stored(p)
    /\ Command(p, "poll")
    /\ UNCHANGED cut

Store(p) ==
    /\ pc[p] = "store"
    /\ dev' = Stored(p)
    /\ Command(p, "go")
    /\ UNCHANGED cut

Go(p) ==
    /\ pc[p] = "go"
    /\ dev' = Started
    /\ Command(p, "poll")
    /\ cut' = FALSE

\* Bugs the runs would find: any report ends the loop, or only one that came
\* alone.
EndsAlways(p, answer) == TRUE
EndsUndisturbed(p, answer) == queue[p] = <<>> /\ answer

\* buf[1] == 0
Ends(p, answer) == Heard(p, answer)

\* GETSTATE, once more round the loop or for the last time.
Poll(p) ==
    /\ pc[p] = "poll"
    /\ Exchange(p, ~dev.moving)
    /\ clean' = OthersLoseTrack(p)
    /\ IF Ends(p, ~dev.moving)
       THEN /\ cache' = [cache EXCEPT ![p] =
                IF call[p].op = "LightOn"
                THEN [@ EXCEPT !.on = call[p].inten > 0]
                ELSE [on |-> @.on /\ call[p].inten # 0, brightness |-> call[p].inten]]
            /\ pc' = [pc EXCEPT ![p] = "idle"]
            /\ call' = [call EXCEPT ![p] = NoCall]
       ELSE UNCHANGED <<cache, pc, call>>
    /\ UNCHANGED <<dev, open, cut>>

\* Where the panel is when p stops short in an exchange: it may have obeyed.
Interrupted(p) ==
    CASE pc[p] = "store" -> {dev, Stored(p)}
      [] pc[p] = "go"    -> {dev, Started}
      [] OTHER           -> {dev}

StopsShort(p) ==
    /\ dev' \in Interrupted(p)
    /\ cut' = (cut \/ (pc[p] \in {"store", "go"} /\ ~dev'.moving))
    /\ call' = [call EXCEPT ![p] = NoCall]

\* A write or a read fails, and the call with it; the answer may come yet.
Fails(p, to) ==
    /\ Faults
    /\ pc[p] \in InCall
    /\ StopsShort(p)
    /\ AnswerIsMissed
    /\ pc' = [pc EXCEPT ![p] = to]
    /\ UNCHANGED <<open, cache, queue>>

\* The process is ended from outside and its handle closed for it.
Killed(p) ==
    /\ pc[p] # "none"
    /\ StopsShort(p)
    /\ IF pc[p] \in Exchanging
       THEN AnswerIsMissed
       ELSE late' = late /\ clean' = [clean EXCEPT ![p] = FALSE]
    /\ pc' = [pc EXCEPT ![p] = "none"]
    /\ cache' = [cache EXCEPT ![p] = Gone]
    /\ Closed(p)

Exchanges(p) == Store(p) \/ Go(p) \/ Poll(p)

-----------------------------------------------------------------------------
(* The emulator: its object, over and over.                                *)

\* DisconnectPanel(), after a failed set or for idleness.
Disconnects ==
    /\ pc["emulator"] \in {"idle", "drop"} /\ open["emulator"]
    /\ Closed("emulator")
    /\ clean' = [clean EXCEPT !["emulator"] = FALSE]
    /\ pc' = [pc EXCEPT !["emulator"] = "idle"]
    /\ UNCHANGED <<dev, cache, call, late, cut>>

EmulatorWorks ==
    \/ GetInten("emulator") \/ Exchanges("emulator")
    \/ pc["emulator"] = "drop" /\ Disconnects

Emulator ==
    /\ \/ Construct("emulator") \/ Destruct("emulator") \/ Killed("emulator")
       \/ Opens("emulator") \/ GetIntenFails("emulator")
       \/ \E lvl \in Asked : SetBrightness("emulator", usbd_val(lvl))
       \/ \E on \in BOOLEAN : LightOn("emulator", on)
       \/ Disconnects
       \/ EmulatorWorks \/ Fails("emulator", "drop")
    /\ UNCHANGED tool

-----------------------------------------------------------------------------
(* The tool: one pass through main(), then another.                        *)

\* sscanf_s() "%u" into an unsigned int, assigned to an int.
AsInt(n) == IF n <= MaxInt THEN n ELSE n - 2 * (MaxInt + 1)

\* The intensities the command lines of aacmd and usbdctrl ask for.  Other
\* lines end the program before it touches the panel: usage errors, V, O, C.
AacmdJobs ==
    {usbd_val(n) : n \in {k \in Numbers : k >= 1 /\ k <= MaxLvl}} \cup {0}
UsbdctrlJobs ==
    {IF AsInt(n) < 0 THEN Query ELSE AsInt(n) : n \in Numbers} \cup {Query}

ToolStarts ==
    /\ main = "none"
    /\ job' \in AacmdJobs \cup UsbdctrlJobs
    /\ main' = "connect"
    /\ Construct("tool")

ToolConnects ==
    /\ main = "connect"
    /\ \/ Opens("tool") /\ main' = "connect"
       \/ GetInten("tool") /\ main' = "connected"
       \/ GetIntenFails("tool") /\ main' = "failed"
       \/ /\ Faults /\ pc["tool"] = "idle"
          /\ main' = "failed" /\ UNCHANGED <<dev, object, pc, call, cut>>
    /\ UNCHANGED job

\* A bug the runs would find: the light is not switched on.
ToolSetsBrightnessOnly ==
    /\ main = "connected" /\ job > 0
    /\ SetBrightness("tool", job)
    /\ main' = "done"
    /\ UNCHANGED job

\* AlnitakEmu::setBrightness() or USBDimmer::SetBrightness(), then the light.
ToolSetsBrightness ==
    /\ main = "connected" /\ job > 0
    /\ SetBrightness("tool", job)
    /\ main' = "light"
    /\ UNCHANGED job

\* Whatever became of the brightness.
ToolSetsLight ==
    /\ (main = "connected" /\ job = 0) \/ main = "light"
    /\ LightOn("tool", job > 0)
    /\ main' = "done"
    /\ UNCHANGED job

\* usbdctrl prints what IsLightOn() and GetBrightness() return.
ToolReports ==
    /\ main = "connected" /\ job = Query
    /\ main' = "done"
    /\ UNCHANGED <<dev, object, pc, call, cut, job>>

\* Exit status 1 if the panel could not be connected, and 0 otherwise,
\* whatever the calls returned.
ToolReturns ==
    /\ main \in {"failed", "done"}
    /\ Destruct("tool")
    /\ main' = "none" /\ job' = Query

ToolWorks ==
    \/ ToolConnects
    \/ ToolSetsBrightness \/ ToolSetsLight \/ ToolReports
    \/ ToolReturns
    \/ Exchanges("tool") /\ UNCHANGED tool

Tool ==
    \/ ToolStarts
    \/ ToolWorks
    \/ Fails("tool", "idle") /\ UNCHANGED tool
    \/ Killed("tool") /\ main' = "none" /\ job' = Query

-----------------------------------------------------------------------------

PanelSettles ==
    /\ dev.moving
    /\ dev' = Arrive(dev)
    /\ UNCHANGED <<object, pc, call, tool, cut>>

Next == Emulator \/ Tool \/ PanelSettles \/ LateAnswer

\* Both processes keep running, the panel arrives and answers or an exchange
\* fails after 5000 ms.  Nobody has to ask for anything, no late answer has to
\* come, and no exchange has to fail: a loop that only a failure would end
\* counts as endless.
Fairness ==
    /\ WF_vars(EmulatorWorks /\ UNCHANGED tool)
    /\ WF_vars(ToolWorks)
    /\ WF_vars(PanelSettles)

Spec == Init /\ [][Next]_vars /\ Fairness

-----------------------------------------------------------------------------

\* In particular no process without an object holds a handle, and no queue
\* outgrows its handle.
TypeOK ==
    /\ dev \in Device
    /\ open \in [Process -> BOOLEAN]
    /\ cache \in [Process -> [on : BOOLEAN, brightness : Int]]
    /\ pc \in [Process -> {"none", "idle", "drop"} \cup Exchanging]
    /\ \A p \in Process : pc[p] = "none" => ~open[p]
    /\ queue \in [Process -> Seq(BOOLEAN)]
    /\ \A p \in Process : Len(queue[p]) <= IF open[p] THEN Buffers ELSE 0
    /\ late \in 0..MaxLate
    /\ main \in {"none", "connect", "connected", "failed", "light", "done"}
    /\ main = "none" <=> pc["tool"] = "none"
    /\ job \in AacmdJobs \cup UsbdctrlJobs
    /\ cut \in BOOLEAN
    /\ clean \in [Process -> BOOLEAN]

Shown(p) == IF cache[p].on THEN cache[p].brightness ELSE 0

\* Whatever went on before: once a process has connected to a panel at rest,
\* with nothing in its queue and no answer outstanding, its cache is what the
\* panel shows for as long as nobody else exchanges anything with the panel,
\* whether or not the other process has it open (usbdimmer.cpp:188-277).
AloneShowsPanel ==
    \A p \in Process : clean[p] /\ pc[p] = "idle" => dev = Steady(Shown(p))

\* A tool that ends with status 0, undisturbed on a panel that was at rest and
\* without a failed exchange, has set the panel to what it was asked for:
\* "turns the panel on to brightness nnn" (aacmd.cpp:44), "turns off the
\* panel" (README.txt:99).  None of the conditions can be left out, as the
\* results of the calls are ignored (aacmd.cpp:144-152, usbdctrl.cpp:56-64).
DoneMeansDone ==
    main = "done" /\ pc["tool"] = "idle" /\ clean["tool"] /\ job # Query =>
        dev = Steady(Clamp(job))

\* Whoever else commands the panel: an intensity stored in it and not yet
\* moved to belongs to a call about to send SETSTATE, or to one that failed
\* or was stopped there (usbdimmer.cpp:112-148).
IntensityIsApplied ==
    dev.level # dev.target /\ ~dev.moving =>
        cut \/ \E p \in Process : pc[p] = "go"

\* p stores an intensity, moves the light or asks for the intensity.
Disturbs(p) == pc[p] \in {"get", "store", "go"} /\ pc'[p] # pc[p]

\* The polling loops do not keep each other waiting, though each reads the
\* other's reports for its own and may be a queue of them behind: when nobody
\* commands the panel any more, both end (usbdimmer.cpp:150-172).  A process
\* in an endless loop commands nothing, so neither process hangs while the
\* other does nothing but poll.
NobodyHangs ==
    <>[][\A p \in Process : ~Disturbs(p)]_vars =>
        <>[](\A p \in Process : pc[p] \notin Exchanging)
=============================================================================
