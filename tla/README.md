# alnitak_emu in TLA+

alnitak_emu lets imaging programs that speak the Alnitak Flat-Man protocol over
a COM port drive a flat panel behind a Spike-a USB dimmer. This directory holds
its TLA+ modules, the TLC configurations that check them on small instances,
and theorems with proofs checked by TLAPS. Line numbers refer to `src/`.

    client --bytes--> com0com --> SerialPort.Read   --+
                                                      |  emu.cpp main loop
    client <--bytes-- com0com <-- SerialPort.Write <--+  (one thread)
                                                      |
                                   AlnitakEmu  (light, blvl) -- IntenMap
                                                      |
                                   USBDimmer   (m_handle, m_on, m_brightness)
                                                      |  HID reports
                                   Spike-a dimmer and panel
                                                      |
    aacmd, usbdctrl, usbd.dll: other programs, each with USBDimmer objects of its own

## 1. Inventory

| component | state | operations | correct when |
|---|---|---|---|
| `IntenMap` (alnitak_emu.cpp:41-85) | `map[255]`, built once | constructor, `usbd_val` (level to intensity), `alnitak_val` (binary search back) | the table is increasing; the search inverts it, stays inside the array and ends |
| `USBDimmer` (usbdimmer.cpp) | HID handle; cache `m_on`, `m_brightness` | `Connect`, `Disconnect`, `SetBrightness`, `LightOn`; HID exchanges inside | the cache is what the panel shows; a success means the light has arrived; every call returns; no handle is lost |
| `AlnitakEmu` (alnitak_emu.cpp) | `light`, `blvl`, a copy of what the dimmer cached | `Connect`, `setLightOn`, `setBrightness`, `stateStr`, `brightnessStr`, `responseStr` | what it reports is what the panel shows; a response is a line |
| main loop (emu.cpp) | line buffer, `disconnect_time` | one handler per request; connect on demand; disconnect on error, on idleness, on exit | a response answers its request and is true; an active client keeps the panel, a silent one loses it |
| `SerialPort` (serialport.cpp) | `m_fd`, two OVERLAPPED structures | `Open`, `Read` (3 s timeout), `Write` (overlapped, then flushed), `Close` | responses arrive in order; writes do not overlap, nor outlive their buffer; the loop is not blocked; nothing is held after the end |
| `aacmd`, `usbdctrl` | none of their own | a sequence of dimmer calls, then exit | the panel is left as asked |
| `usbd.dll` (usbd.cpp) | one `USBDimmer` per `USBD_Open` | forwards | as `USBDimmer`, for any caller |
| `dbg.cpp` | log file | `time64` (wall clock), logging | |
| `redist` | | hidapi header, third party | |

How they interact: the main loop calls `AlnitakEmu`, which calls `USBDimmer`,
synchronously, on one thread. There are three copies of the panel's state
(panel, dimmer cache, emulator copy) and they are compared nowhere: they agree
only by the order in which they are written. The serial driver works in the
background on the buffer of a write; the panel moves in the background after
SETSTATE; the tools are other processes that open the same device.

What is hard about it:

* An exchange may fail at any of five places of a call, after the panel has
  obeyed part of it. Errors travel up as -2, and what each layer keeps differs.
* A report that comes after its read has timed out stays in the handle's queue,
  and is taken for the answer to the next command: the code does not compare
  the echoed command (usbdimmer.cpp:57-68).
* `Connect()` can fail with the handle open, and the emulator's idea of
  "connected" is the handle (usbdimmer.cpp:199-203, emu.cpp:66).
* `SetBrightness()` and `LightOn()` skip the panel when the cache already has
  the value; `SetBrightness(0)` turns the light off below the emulator's flag.
* Two processes may have the panel open, each overhearing the other's answers
  and believing its own cache; either may be stopped between two exchanges.
* A flush that fails is ignored: `Write()` returns, and its string is freed,
  with the write still under way (serialport.cpp:307).
* The line buffer is never cleared, and dispatch looks at its second byte
  whatever the line's length (emu.cpp:116-148).
* The idle timeout runs only between reads, on the wall clock; a blocked write
  stops it.
* Off-by-ones at the table's end, and integers cut to a byte.

`PROJECT.json` lists each of these hazards at its line with the properties that
cover it.

## 2. Modules

| module | models | level |
|---|---|---|
| `IntenMap` | lookup and inverse as functions, for any increasing table | operators |
| `IntenTable` | the constructor's polynomial, exactly, for levels 0..255 | operators |
| `IntenFill` | the constructor's loop and where it stores | state machine |
| `IntenSearch` | `alnitak_val` as the loop it is | state machine |
| `Panel` | the device outside the repository: what its commands do and answer | operators |
| `Dimmer` | `USBDimmer`, one atomic action per method: the abstract specification | state machine |
| `USBDimmer` | class `USBDimmer`, one step per HID write and read | actions |
| `USBD` | the functions of usbd.dll over `USBDimmer`, called by any program; implements `Dimmer` | state machine |
| `FlatMan` | the device the emulator stands for, as a client may count on it: no cache, no dimmer | abstract state machine |
| `Emulator` | main loop and `AlnitakEmu`, over `Dimmer` and `IntenMap`; implements `FlatMan` | state machine |
| `CommandLine` | bytes to lines, dispatch, the bytes of the responses | state machine |
| `SerialPort` | class `SerialPort`, `main()` around it, the driver and the client | state machine |
| `SharedPanel` | the emulator and `aacmd` or `usbdctrl` over one panel | state machine |
| `IntenSearchProofs`, `DimmerProofs`, `USBDProofs`, `EmulatorProofs`, `CommandLineProofs`, `SerialPortProofs`, `SharedPanelProofs` | theorems | |
| `NaturalSets` | theorems about sets of numbers that the proofs share: least element, induction | |

`MCIntenSearch`, `MCUSBD`, `MCEmulator`, `MCCommandLine` and `MCSharedPanel`
give the constants their values for TLC; `IntenFill` and `SerialPort` are run
as they are. The operators whose comments begin "A bug the runs would find"
take part in no specification: they are altered forms of the definition below
them, with which the properties fail.

### How state and actions correspond to the code

**Table.** The code declares `map[255]` and both fills and reads 256 words.
`map` in the model has the 255 cells of the array; `PastEnd` is what a read one
past it finds: normally the word the constructor stored there, otherwise
whatever overwrote it. `IntenSearch` has one step per loop iteration; `mid` is
the index read, so reading outside the array is visible.
`IntenTable` computes `x * (1 + K4 * x^3)` in integers of two limbs, because
the products do not fit TLC's. Its 256 values are those the double
expression of the source gives when cut to an unsigned int.

**Panel.** `dev` is the light's level, the intensity stored by SETINTEN and
whether the light is moving. Whether GETINTEN answers the stored or the present
intensity is not visible from the code, so it may answer either.

**Dimmer.** `m_handle` is TRUE when the pointer is not null; `handles` counts
`hid_open` less `hid_close`; `ret` is the last result. `m_on` and
`m_brightness` start as anything in `InitialFields`, because the constructor
leaves them uninitialised. `stale` says that answers to timed-out reads may
still come. `synced` is a history variable: the handle was opened by a
`Connect()` that read its own answer from a panel at rest, and no exchange has
failed since. It delimits what can be promised: the code cannot recognise a
late answer, so nothing can be said of a cache that was read from one.

**USBDimmer and USBD.** `pc` and `cmd` say which command is about to be written
or read; `replies` is the handle's queue of input reports, each with the command
it answers (the code ignores it; the properties do not). The exported functions
of usbd.dll are the methods, called in any order between `USBD_Open` and
`USBD_Close`. `before` is the caller-visible state when the function was called,
which the refinement mapping shows until it returns, so that a call with all its
exchanges appears as one atomic step of `Dimmer`.

**Emulator.** A line is received (`Receive`, which calls `ConnectPanel` when
there is no handle) and then served (`ServeQuery`, `ServeLight`,
`ServeBrightness`); a failed set continues with `DisconnectPanel`. J formats the
level into three bytes of which the NUL takes one: `TwoDigits` is what is left
of it, with `Base` for the 10 of the digits, and `Abort` what happens instead
in a build with MSVC, where `snprintf` is `_snprintf_s` (emu.cpp:40, 216-217) and
stops the program. These are
separate steps only because they are separate dimmer calls: between them the
panel may move, but no other request is served. `remaining` is
`disconnect_time - time64()` in units of the 3 s read timeout; `ClockIsSet`
moves it either way, at most once between two updates of `disconnect_time`.
`quiet`, the time since the last response, `gone`, whether the client has
stopped, `failed`, whether a HID call has failed, and `jumped` are history
variables. Unknown commands and unfinished lines change nothing but time and
are `Elapse`. `level_of` stands for `alnitak_val`, of which the module assumes
only that it returns a nearest level; `IntenSearchProofs!FunctionInverts` proves
that of the recursive function, as which the configurations define it, and
`SearchInverts` of the loop.

**FlatMan.** What remains of the emulator when its three copies of the state
are one: a light (`glow`), the intensity it has when on (`preset`), the level
that stands for it and whether light was asked for. `mode` says where the
panel is. While it is "held" each response is a function of the state, and
nothing else changes it; "released" it stays as it is, and the next request
takes it back with the brightness of what shines, or the default one; "lost",
after a failed exchange, nothing can be said until it is taken again. In
`Emulator` the panel is held through a synced handle, `glow` is the device's
level and `preset` the dimmer's `m_brightness`; `m_on`, the handle, the queue
of late answers and the moving light have no counterpart. The cut digit of J
has one: `FlatMan` promises no more of the level than `level \div Base`, and
the end of the program, by `Abort` or otherwise, is a release.

**CommandLine.** `buf`, `p` and `rem` are those of `main()`, with `rem` the room
left; what a line does not overwrite stays, and a byte no line wrote is `Junk`,
which a comparison may take for anything. `StartLine` is the head of the outer
loop, `ReadNewline` and `ReadByte` its inner one; the actions named `Answer...`
are the handlers as far as their bytes go, `NoAnswer` a line that is no request
or a request that failed. `StoppedByRuntime` is `_snprintf_s` when three digits
do not fit `bbuf`. `NewClient` is another program at the other end of the port
pair: the bytes it finds in `buf` were sent by its predecessor. `said`, `clean`,
`whole` and `last` are history variables: what the client sent of its line, and
whether that line began at the front of the buffer; `last` is the last line
that was not empty, which an empty one is answered for (`LineInBuffer`).
`Emulator` treats requests
whole; the two modules meet in the request, which is what `AnswersItsLine` and
`EchoesItsLine` are about.

**SerialPort.** `Open()` has one step for each call that may fail, and a failure
is a way to `"close"`, where the destructors run. `ov` is what
`GetOverlappedResult` says of `m_ov_wr`: "done"
also stands for the all-zero structure before the first write. `driver` is the
write in progress; `buffer` is the caller's temporary string, `Freed` once
`Write()` has returned. A `WriteFile` that fails may leave either a pending or
an error status in the structure. The driver hands a response over when the
client's input buffer has room, as com0com (README.txt:59) does without overrun
emulation; responses are numbered, and one fills one place. `FlushFails` is the
flush whose result the code ignores: `Write()` returns true wherever the driver
is, the string is freed, and the driver, if it has not taken the bytes yet,
finds the response or something else there (`Bytes`). `unflushed` remembers
which responses that happened to, and the next `Write()` finds the operation
pending and drops its own.

**SharedPanel.** Each process has a `USBDimmer` object; `main` and `job` are the
tool's place in `main()` and what its command line asks for, as
`sscanf_s("%u")` and the assignment to an `int` leave it. An exchange is one
step: what the panel does and answers is settled by the write, and the read
only collects a report (`USBD` has the two apart). Windows gives every input
report to every open handle of a device, and each handle queues them:
`queue[p]` holds what p has not read, at most `Buffers` reports, of each only
whether its first byte is 0, which is all `set_inten` looks at. An exchange
puts its answer into the queue of every open handle and takes one report, the
oldest, out of its own (`Exchange`); what it took for its answer is `Heard`. So
the polls of one process read the other's answers, and lag behind by as many as
were waiting. A failed exchange may leave an answer that comes later
(`LateAnswer`), with any first byte. `clean` is the counterpart of `synced`: p
connected to a panel at rest with nothing queued or outstanding, no exchange
has failed and nobody else has exchanged anything with the panel since; that the
other process has it open does not matter. `cut` remembers a
call that failed or was stopped between SETINTEN and SETSTATE. `Killed` ends a
process anywhere, and Windows closes its handle.

## 3. Runs

Those that pass:

| run | configuration | what it shows |
|---|---|---|
| `search` | the real 255 cells, intensities 0..1030 | `alnitak_val` inverts the table (`InverseOfUsbdVal`), a level set is the level read back (`RoundTrip`, level 255 only as long as nothing overwrote the word past the array), it reads inside the array although it starts at index 255 (`ReadsInsideArray`), it ends, as each turn leaves less than half of the interval (`IntervalHalves`), and loop and function agree (`SameAsFunction`); no lit panel is at level 0 (`NoLitPanelAtZero`; nor is a dark one, which `Connect()` calls 900 before the search sees it, usbdimmer.cpp:210-214), and control is finer at the dark end although the polynomial is rounded down (`FinerControlBelow`) |
| `exchanges` | `MCUSBD`: intensities 0..2, register 0..3, any caller, failures, one late answer, uninitialised fields | the exchanges implement `Dimmer` (`ImplementsDimmer`), reads through a synced handle get their own command's answer (`InStep`), every call returns (`CallsReturn`) |
| `emulator` | three levels, brightness requests within and beyond a byte, idle timeout of one read timeout, failures, late answers, the clock set either way | no handle is leaked (`OneHandle`), the cache of a synced handle is what the panel shows (`CacheShowsPanel`), every handle is synced until a call fails (`SyncedUntilFailure`), a lit panel is not reported off (`NeverReportsLitPanelOff`), the reported brightness is the cached one (`ReportsCachedLevel`), responses to L, D and B are true (`ResponseKept`), all of the responses together are those of one lamp without caches, which a reconnect leaves as it is, the brightness told without its last digit (`ImplementsFlatMan`), the idle timeout spares an active client (`NeverDropsActiveClient`), and a silent one's panel is released for good, even one a failed connect left open (`EventuallyReleased`) |
| `commands` | a buffer of 6 bytes, any bytes in any order from any number of clients | bytes are stored inside the buffer (`StoresInside`), a line that began cleanly is what the handlers see (`HandlersSeeLine`), is answered (`AnswersItsLine`) and echoed (`EchoesItsLine`) without the bytes of longer lines before it, an empty line is answered and echoed as the last one that was not empty, and only the quit word ends the program (`QuitsOnlyOnWord`) |
| `serial` | 5 responses, room for 2, failures of every call of `Open()`, `Read()` and `Write()`, the ignored one of the flush included, a client that stops reading and then sending | responses arrive once and in order (`ArriveInOrder`), of those `Write()` returned true for at most the last is missing, and only those whose flush failed are garbled (`TrueMeansArrived`), a write runs on a freed string only if its own flush failed (`BufferOutlivesWrite`), no write is started over another (`OneWriteAtATime`), `Write()` returns while the client reads (`WritesReturn`), and nothing is held once the program has ended (`ReleasedAtExit`) |
| `shared` | the emulator and one tool after another, register 0..2, three levels, numbers beyond the largest int, failures, processes stopped anywhere, handles that queue one report, one late answer | the cache of a process that connected to a panel at rest and that nobody disturbed is what the panel shows, even with the other process's handle open (`AloneShowsPanel`), a tool that ends with status 0, undisturbed and without a failed exchange, has done what it was asked (`DoneMeansDone`), a stored intensity is applied or belongs to a call that was cut short (`IntensityIsApplied`), and once neither process commands the panel any more both polling loops end, whatever is in their queues (`NobodyHangs`) |

Those in which TLC finds what the source says to be violated by what it does:

| run | says | does |
|---|---|---|
| `map_bounds` | `map[255]` (alnitak_emu.cpp:43) | the constructor stores `map[255]`, one word past the array |
| `light_flag` | `light on?` (alnitak_emu.h:44) | after L, B000, B100 the emulator reports on at level 100 and the panel is dark: 0 turned the light off below the flag, and the last B only stored its value |
| `light_off` | `REQ: light off` (emu.cpp:177), and `could not connect` (emu.cpp:73) | a connect that fails in `get_inten` leaves the handle open; the next D is served with a cache never read, finds `m_on` FALSE and is acknowledged with the panel lit |
| `uninitialised` | `val = std::min(std::max(val, 0U), 1023U)` (usbdimmer.cpp:232) | on the same path through usbd.dll, `LightOn` sends the panel an `m_brightness` nobody set |
| `broken_line` | `'\n', 0` ends a response (alnitak_emu.cpp:104) | the answer to J is cut at the NUL of a three-byte buffer, and that to a short B at the line's own NUL: both lose their newline |
| `deaf_client` | `disconnect after 15 seconds` (emu.cpp:47) | a client that stops reading blocks the flush, and the timeout is never looked at |

### Bounds, and why they are enough

* The table and its search are checked at their real size, and proved for every
  increasing table.
* Intensities: `MaxInten = 3` in `emulator` has dark, the default brightness,
  one other and the brightest. Registers beyond `MaxInten` let an unclamped or
  late value show. The table skips an intensity, so that the inverse lookup
  must choose a neighbour. In `shared` the panel has dark and lit (`MaxInten =
  1`), an intensity between two and three levels: enough for one process to
  overwrite what the other stored, and a register of 2 lets an unclamped value
  show. What these models show of safety
  is also proved for any size, except for the properties section 4 lists as
  only model-checked.
* `Asked` in `emulator` has 0 and 5, which is beyond the byte and is cut to
  another level; the two violation runs have levels inside it as well. `Base`
  is smaller than the number of levels, so that J loses something.
* `MaxLate = 1`: one late answer already shifts every later read by one. More
  shift it further; `Dimmer` allows any value for them alike.
* `MaxHandles = 2` bounds only callers of `USBD_Connect` over an open
  handle, which leaks the old one: one leak shows what any further would. The
  emulator never does so (`OneHandle`), and its model has no such bound.
* `IdleTimeout = 1` or 2 against the real 5 read timeouts: the
  countdown is compared with zero only. `remaining` and `quiet` stop at
  `Expired` and `Forever`, beyond which nothing changes; `MaxAhead` is how far
  ahead a clock set back leaves `disconnect_time`, one read timeout more than
  the code itself ever would.
* `Size = 6`: the last index a handler looks at is 4, so the buffer has lines
  that are empty, short, as long as a handler reads and cut for being too long.
  The bytes are the two special ones and one of each kind the dispatch tells
  apart; a word of two letters stands for `quit`.
* `Buffers = 1` and `MaxLate = 1` in `shared`, against 64 reports: one report
  waiting already makes every read return the answer before, and a full queue
  drops its oldest. Deeper queues lag further; the proofs hold for any.
* `Room = 2` and `MaxResponses = 5` (4 in `deaf_client`): the client's buffer
  fills and drains with a write waiting, and responses follow one whose flush
  failed or that ended in an error.
* `MaxInt = 2`, with numbers up to `2 * MaxInt + 1 = 5`, the largest unsigned
  one: 5 is -1 as an `int`, which `usbdctrl` takes for a query.

`CHECK_DEADLOCK FALSE` is set where the system may stop: the search and the
constructor end, the emulator exits, the responses of the serial model are
finitely many, and the line reader ends with the word quit. Programs over
usbd.dll and over the shared panel can always do something: `exchanges`,
`uninitialised` and `shared` are checked for deadlock.

### Fairness

* `Exchanging` (USBD): the thread runs, and every `hid_read_timeout` ends
  within 5000 ms. `Settle`: a panel told to move arrives. Without it the polling
  loop of `set_inten` is unbounded (usbdimmer.cpp:150-172).
* `Serve`, `DisconnectPanel` (Emulator): the thread runs. `ReadTimeout` only
  once the client is gone: then no byte comes, and ReadFile returns after
  3000 ms (serialport.cpp:246-249). A client that sends incomplete lines for
  ever keeps reads from timing out, so nothing is promised about one. That the
  blocked write of `deaf_client` does not occur is a premise of
  `EventuallyReleased`: `Emulator` takes responses to be written at once.
* `Opening`, `Close`, `Writing`, `IdleTimeout`, `HandOver`, `ClientReads`
  (SerialPort): the thread runs when not blocked, reads of a silent client time
  out, the driver transfers when there is room, and a client that reads keeps
  reading. Nothing makes a client read that has stopped, and nothing makes a
  flush fail: `FlushFails` has no fairness, so it cannot be what ends a write.
* `EmulatorWorks`, `ToolWorks`, `PanelSettles` (SharedPanel): both processes
  run, the panel arrives. That an exchange fails after 5000 ms is left out of
  it on purpose: `NobodyHangs` may not hold because something broke. Its premise
  is that both processes come to do nothing but poll: as long as one starts new
  calls, its answers to other commands keep the other's queue in motion, and
  nothing bounds how often. A process in an endless loop does start none, so
  what the property rules out is that both are stuck, or one while the other
  leaves the panel alone.
* `Fill` (IntenFill): the loop runs.
* None on requests, failures, exit, the clock, or the client's leaving;
  `CommandLine` and `IntenSearch` state safety only.

## 4. Proofs

All assumptions are the named ASSUMEs on constants, which TLC evaluates in the
runs. Each safety proof is the same argument: an inductive invariant holds
initially, each action preserves it, and it implies the property.

* `IntenSearchProofs`: for every array length, every increasing table, every
  word past its end and every set of intensities: `TypeCorrect`,
  `SearchStaysInside`, `SearchInverts`, `LevelsRoundTrip`. The property speaks
  of the final `a` only, so the invariant says what the interval means on the
  way: every cell left of `a` is darker than the argument, and every cell right
  of `b` brighter. It also says that `a` passes `b` by one at most, and that
  `b` only moves to the left of a cell, which keeps the search off the end.
  `SearchHalves` gives `IntervalHalves`, which bounds the iterations by the
  logarithm of the table. `LoopIsFunction` and `FunctionInverts` are about the
  recursive `alnitak_val`, by induction on the length of the interval: it is
  what the loop returns, and it returns a nearest level for every natural
  intensity, which is what `Emulator` assumes of `level_of`.
  The real table has theorems of its own. `TableIncreases` says that it is what
  `MapAssumption` asks for. Below it, limb by limb, the polynomial is
  `x + floor(256 x^4 / 1409416875)`, and the cap at 1023 takes nothing off any level.
  From that follow `EveryLevelReadBack` (level 255 included, with the
  word past the end as the constructor stores it), `LitAboveZero` and
  `StepsGrow`. The hypothesis of these three, `RealTable`, says that the
  constants are the constructor's.
* `NaturalSets`: that a set of numbers has a least element and that induction
  over them holds, for a set in the place of the predicate. The library's
  induction theorems take an operator, which the provers cannot instantiate;
  these take a set and come from `WellFoundedInduction`.
* `DimmerProofs`: `TypeCorrect` and `CacheIsPanel`, for every panel, argument
  set and failure. `CacheShowsPanel` is not inductive: the next `LightOn(TRUE)`
  sends the cached brightness through SETINTEN's two bytes, so a wider cache
  would miss the panel. `SyncedCache` therefore bounds `m_brightness`, and
  `HandleCounted` says that the handle `Disconnect()` closes is one that was
  opened.
* `USBDProofs`: `ExchangesImplementDimmer`, for every panel, caller, pattern of
  failures and number of late answers: `Spec` implies `Dimmer!DimmerSpec` under
  the refinement mapping. Every step inside a call maps to a stutter, and the one
  that ends it to an action of `Dimmer`; so the invariant must carry, from the
  first exchange to the last, all that the result is going to depend on.
  `Setting` says of a running `set_inten()` what it was called for, how far
  between the state at the call and the one asked for the panel has come, and
  that more than one report in the queue means there were late ones before;
  `Connecting` says the same of `get_inten()`. `ReadsItsAnswer` rests on
  `Drained`: the queue of a synced handle is empty, or holds the one answer the
  next read is for. With this theorem what `DimmerProofs` and `EmulatorProofs`
  prove over atomic calls holds of the exchanges, for a caller that makes those
  calls.
* `EmulatorProofs`: `UsesDimmer` (each step of the emulator is a step of
  `Dimmer` or leaves the dimmer alone, from which the invariant of `Dimmer`
  carries over), `EmulatorTypeCorrect`, `NeverLeaks`, `LitPanelReported`,
  `CachedLevelReported`, `ResponsesKept`. `NeverReportsLitPanelOff` relates
  panel and flag; the induction goes through the cache between them:
  `LightCovered`, the flag is on whenever `m_on` is, with the dimmer's
  `SyncedCache`. `SyncedUntilItFails` needs that without a failure the panel is
  at rest whenever a connect finds it, and no answer is late; `ActiveClientKept`,
  the action property, that `remaining` and `quiet` add up to the timeout or
  more until the clock is set. `EmulatorIsFlatMan` is the refinement: `Spec`
  implies `Lamp!Spec`, where every step of a handler is one of `FlatMan`, and
  time, the clock and the client's leaving are stutters. Its invariant adds to
  the others that a request is served with the handle open and dropped with
  its synchrony gone (`Serving`), and that `m_on` never stands for a light of
  intensity 0 (`LitIsBright`): without it a light that is dark to the client
  would shine at the next B, for only `m_on` decides whether the panel is told.
* `CommandLineProofs`: `StoredInside`, `LineSeen`, `LineAnswered`, `WordQuits`,
  `CommandLineTypes`, `LineEchoed`, for every buffer size, alphabet and quit
  word. `EchoesItsLine` compares a response cut at the first NUL of
  eight bytes with one cut from the client's line, so the proof first
  establishes where a C string ends and that there is such a place
  (`CutExists`, `CutAt`, `CutValue`). The invariant relates the
  buffer to what the client has sent (`Stored`), whether the line is cut or
  ends in its NUL (`Terminated`), and the byte that a line too short to
  overwrite it leaves for the dispatch (`LastKept`).
* `SerialPortProofs`: `BufferIsAlive`, `TrueArrives`, `KeepsOrder`,
  `OneAtATime`, `ReleasesAll`, `TypeCorrect`, for any room and number of
  responses. The driver works on the string of the write in the flush, or on
  that of the last response reported as written, if its flush failed; it works
  only while `ov` is pending, which is why `Check` never starts a second
  write. What has arrived is, position by position, what was reported as written
  or garbled after a failed flush, up to the response now under way and one
  that ended in an error, after which no other is started; what arrives is
  newer than all before it.
* `SharedPanelProofs`: `TypeCorrect`, `StoredIsApplied`, `CacheOfLoner`,
  `ToolDoesItsJob`, for every panel, table, command line, queue length and
  interleaving. The invariant of the loner (`AllAlone`) says that as long as
  nobody else exchanges anything its queue is empty and no answer is
  outstanding, so that each read gets the answer to its own command
  (`NothingWaits`), and where between its cache and its call the panel is;
  `JobInHand` follows a tool through its calls, for no result is looked at on
  the way.

Every invariant, action property and refinement of the passing runs is stated
by one of these theorems. Only model-checked are the liveness properties
(`CallsReturn`, `EventuallyReleased`, `WritesReturn`, `NobodyHangs`): they rest
on weak fairness and so on ENABLED, which TLAPS cannot reason about. That the
search ends needs no liveness: it is the bound that `SearchHalves` proves. The violation runs are
counterexamples, and have nothing to prove.

## 5. Not modelled

* Logging and usage messages, which nothing reads; `DllMain`, which does
  nothing; the fields of the device control block, which are always the same.
* hidapi and the driver below it, beyond how the code sees their calls fail.
* Product id, cover and motor, which never change.
* Signs and blanks before a number, which `%u` skips (emu.cpp:195).
* Several threads over one object of usbd.dll: nothing in the repository calls
  it so, and nothing in its header allows it.

That the brightness set while the light was off becomes 900 after an idle
disconnect (usbdimmer.cpp:210-214) is modelled; no document promises otherwise,
so no property forbids it. After a write that ended with an error every later
response is dropped (serialport.cpp:289-299); `TrueMeansArrived` states what is
left of the promise.

## 6. Plan

In order of importance. All but the last two are done.

1. `IntenMap`, `IntenFill`, `IntenSearch`: the table, checked at real size, the
   search proved.
2. `Panel`, `Dimmer`: the abstract dimmer; `CacheShowsPanel` proved.
3. `USBDimmer`, `USBD`: the exchanges and the library, refining `Dimmer`; the
   refinement proved.
4. `Emulator`: the loop over `Dimmer` and `IntenMap`, with the wall clock; its
   safety proved.
5. `SerialPort`: opening, the overlapped write and the flush; its safety proved.
6. `CommandLine`: the line buffer with its stale bytes, dispatch and responses;
   its safety proved.
7. `SharedPanel`: the emulator and the tools over one panel; its safety proved.
8. `FlatMan`: what the protocol promises a client, implemented by `Emulator`;
   the refinement proved.
9. `Emulator` over the exchanges of `USBDimmer` in one module. Until then
   `FlatMan` is proved of the HID exchanges in two theorems that are not chained
   by a third: `EmulatorIsFlatMan` over the calls of `Dimmer`, and
   `ExchangesImplementDimmer`, which holds for any caller.
10. `CommandLine` with `Emulator`. They meet in the request and the response,
    which each describes for itself; how a blocked write and the idle timeout
    meet is in `SerialPort` (`deaf_client`).
