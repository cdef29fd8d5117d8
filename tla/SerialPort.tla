----------------------------- MODULE SerialPort -----------------------------
(***************************************************************************)
(* Class SerialPort of emu/serialport.cpp with the main() of emu/emu.cpp   *)
(* that opens it, reads, writes and closes it, the COM driver below and    *)
(* the client at the other end.                                            *)
(*                                                                         *)
(* Opening takes five calls that may each fail; main() then returns, and   *)
(* the destructor closes what there is.                                    *)
(*                                                                         *)
(* A write is overlapped: WriteFile() starts it, the driver hands the      *)
(* bytes to the client's input buffer when there is room, and the next     *)
(* Write() looks in m_ov_wr how it ended.  FlushFileBuffers() blocks the   *)
(* thread, the only one, until the driver has nothing left, or fails,      *)
(* which Write() ignores: the driver then goes on with a write whose       *)
(* string the caller has freed.                                            *)
(***************************************************************************)
EXTENDS Integers, Sequences

CONSTANTS
    Room,           \* responses that fit into the client's input buffer
    MaxResponses    \* bound: responses the emulator writes

ASSUME SerialAssumption == Room \in Nat \ {0} /\ MaxResponses \in Nat

VARIABLES
    pc,         \* opening: "create", "state", "events", "timeouts",
                \* "queues"; "read"; in Write(): "check", "write", "flush";
                \* main() has returned: "close", "exit"
    open,       \* handles held: the port's "file", the events "rd", "wr"
    connected,  \* is the panel connected?
    buffer,     \* the response the caller's string holds, or Freed
    ov,         \* what GetOverlappedResult() says of m_ov_wr
    driver,     \* the response the driver has not handed over yet, or Freed
    peer,       \* responses in the client's input buffer; Freed for bytes
                \* taken from a string that was freed
    received,   \* responses the client has read
    sent,       \* history variable: responses Write() returned true for
    unflushed,  \* history variable: those whose flush failed
    count,      \* responses so far; they are numbered
    client      \* "reads", "deaf" (sends, does not read) or "silent"

vars == <<pc, open, connected, buffer, ov, driver, peer, received, sent, unflushed,
          count, client>>

Freed == 0
Numbers == 1..MaxResponses
InWrite == {"check", "write", "flush"}

Init ==
    /\ pc = "create" /\ open = {}
    /\ connected = FALSE
    /\ buffer = Freed /\ driver = Freed
    /\ ov = "done"      \* all zero: no error, nothing transferred
    /\ peer = <<>> /\ received = <<>>
    /\ sent = <<>> /\ unflushed = {}
    /\ count = 0
    /\ client = "reads"

-----------------------------------------------------------------------------
(* Open(), which finds nothing wrong with "8N1", and Close().              *)

data == <<buffer, peer, received, sent, unflushed, count, client>>
io == <<ov, driver, data>>

\* CreateFileA(), which refuses a port that another program holds.
CreateFile ==
    /\ pc = "create"
    /\ \/ pc' = "state" /\ open' = {"file"}
       \/ pc' = "close" /\ UNCHANGED open
    /\ UNCHANGED <<connected, io>>

\* The device control block is filled in and set: no flow control of either
\* kind.  A failure ends Open() with -2, and main() with it.
SetCommState ==
    /\ pc = "state"
    /\ pc' \in {"events", "close"}
    /\ UNCHANGED <<open, connected, io>>

\* CreateEvent() fails with NULL, which is not INVALID_HANDLE_VALUE: Open()
\* goes on without the event and never returns -3.
CreateEvents ==
    /\ pc = "events"
    /\ \E made \in SUBSET {"rd", "wr"} : open' = open \cup made
    /\ pc' = "timeouts"
    /\ UNCHANGED <<connected, io>>

\* Reads return after 3000 ms and writes never time out, or Open() ends
\* with -5.
SetCommTimeouts ==
    /\ pc = "timeouts"
    /\ pc' \in {"queues", "close"}
    /\ UNCHANGED <<open, connected, io>>

\* The driver's queues, or -6.
SetupComm ==
    /\ pc = "queues"
    /\ pc' \in {"read", "close"}
    /\ UNCHANGED <<open, connected, io>>

\* ReadFile() or GetOverlappedResult() fails: main() returns.
ReadFails ==
    /\ pc = "read"
    /\ pc' = "close"
    /\ UNCHANGED <<open, connected, io>>

\* Closing the file cancels a write that is still under way.
CancelWrite ==
    /\ driver' = Freed
    /\ ov' = IF driver = Freed THEN ov ELSE "error"

\* A bug the runs would find: the destructor closes a fully opened port only.
CloseComplete ==
    /\ pc = "close"
    /\ IF {"file", "rd", "wr"} \subseteq open
       THEN open' = {} /\ CancelWrite
       ELSE UNCHANGED <<open, ov, driver>>
    /\ connected' = FALSE
    /\ pc' = "exit"
    /\ UNCHANGED data

\* ~SerialPort() closes the port, and ~AlnitakEmu() disconnects the panel.
Close ==
    /\ pc = "close"
    /\ IF "file" \in open
       THEN open' = {} /\ CancelWrite
       ELSE UNCHANGED <<open, ov, driver>>
    /\ connected' = FALSE
    /\ pc' = "exit"
    /\ UNCHANGED data

-----------------------------------------------------------------------------
(* The loop.                                                               *)

\* A request is served with the panel connected, and answered.
Request ==
    /\ pc = "read" /\ client # "silent"
    /\ count < MaxResponses
    /\ count' = count + 1
    /\ buffer' = count'
    /\ connected' = TRUE
    /\ pc' = "check"
    /\ UNCHANGED <<open, ov, driver, peer, received, sent, unflushed, client>>

\* Reads have timed out for idle_timeout.
IdleTimeout ==
    /\ pc = "read" /\ connected
    /\ connected' = FALSE
    /\ UNCHANGED <<pc, open, io>>

\* Write() returns; the caller's string is gone.
Return(result) ==
    /\ pc' = "read"
    /\ buffer' = Freed
    /\ sent' = IF result THEN Append(sent, buffer) ELSE sent
    /\ UNCHANGED <<open, connected, peer, received, count, client>>

-----------------------------------------------------------------------------
(* Write().                                                                *)

\* A bug the runs would find: a write still under way is taken for a finished
\* one.
CheckErrors ==
    /\ pc = "check"
    /\ \/ /\ ov \in {"done", "pending"}
          /\ pc' = "write"
          /\ UNCHANGED <<open, connected, ov, driver, data>>
       \/ /\ ov = "error"
          /\ Return(FALSE)
          /\ UNCHANGED <<ov, driver, unflushed>>

\* How the write before ended: one still under way, for its flush failed, or
\* one that failed makes Write() drop this one.  m_ov_wr is not reset: an
\* error stays.
Check ==
    /\ pc = "check"
    /\ \/ /\ ov = "done"
          /\ pc' = "write"
          /\ UNCHANGED <<open, connected, ov, driver, data>>
       \/ /\ ov \in {"pending", "error"}
          /\ Return(FALSE)
          /\ UNCHANGED <<ov, driver, unflushed>>

WriteFile ==
    /\ pc = "write"
    /\ \/ /\ ov' = "pending" /\ driver' = buffer
          /\ pc' = "flush"
          /\ UNCHANGED <<open, connected, data>>
       \/ /\ ov' \in {"pending", "error"}   \* set by WriteFile() before it fails, or after
          /\ driver' = Freed
          /\ Return(FALSE)
          /\ UNCHANGED unflushed

\* Bugs the runs would find: Write() gives up on the driver without cancelling
\* the write, or has the test inverted.
FlushGivesUp ==
    /\ pc = "flush"
    /\ Return(driver = Freed)
    /\ UNCHANGED <<ov, driver, unflushed>>
FlushInverted ==
    /\ pc = "flush"
    /\ driver # Freed
    /\ Return(TRUE)
    /\ UNCHANGED <<ov, driver, unflushed>>

\* FlushFileBuffers() returns when the driver has nothing left.
Flush ==
    /\ pc = "flush"
    /\ driver = Freed
    /\ Return(TRUE)
    /\ UNCHANGED <<ov, driver, unflushed>>

\* A bug the runs would find: Write() reports a failed flush as a failed write.
FlushFailureReturned ==
    /\ pc = "flush"
    /\ Return(FALSE)
    /\ unflushed' = unflushed \cup {buffer}
    /\ UNCHANGED <<ov, driver>>

\* It fails, wherever the driver is; Write() ignores that and returns true.
FlushFails ==
    /\ pc = "flush"
    /\ Return(TRUE)
    /\ unflushed' = unflushed \cup {buffer}
    /\ UNCHANGED <<ov, driver>>

-----------------------------------------------------------------------------
(* The driver and the client.                                              *)

\* The bytes the driver sends: the response, or what is there by now once its
\* string is freed.
Bytes == IF buffer = driver THEN {driver} ELSE {driver, Freed}

\* A bug the runs would find: the client's buffer overflows.
HandOverAnyway ==
    /\ driver # Freed
    /\ \E bytes \in Bytes : peer' = Append(peer, bytes)
    /\ driver' = Freed
    /\ ov' = "done"
    /\ UNCHANGED <<pc, open, connected, buffer, received, sent, unflushed, count, client>>

HandOver ==
    /\ driver # Freed
    /\ Len(peer) < Room
    /\ \E bytes \in Bytes : peer' = Append(peer, bytes)
    /\ driver' = Freed
    /\ ov' = "done"
    /\ UNCHANGED <<pc, open, connected, buffer, received, sent, unflushed, count, client>>

WriteEndsInError ==
    /\ driver # Freed
    /\ driver' = Freed
    /\ ov' = "error"
    /\ UNCHANGED <<pc, open, connected, data>>

ClientReads ==
    /\ client = "reads"
    /\ peer # <<>>
    /\ received' = Append(received, Head(peer))
    /\ peer' = Tail(peer)
    /\ UNCHANGED <<pc, open, connected, buffer, ov, driver, sent, unflushed, count, client>>

StopReading ==
    /\ client = "reads"
    /\ client' = "deaf"
    /\ UNCHANGED <<pc, open, connected, buffer, ov, driver, peer, received, sent, unflushed,
                   count>>

StopSending ==
    /\ client = "deaf"
    /\ client' = "silent"
    /\ UNCHANGED <<pc, open, connected, buffer, ov, driver, peer, received, sent, unflushed,
                   count>>

Writing == Check \/ WriteFile \/ Flush

Opening == CreateFile \/ SetCommState \/ CreateEvents \/ SetCommTimeouts \/ SetupComm

Next ==
    \/ Opening \/ ReadFails \/ Close
    \/ Request \/ IdleTimeout
    \/ Writing \/ FlushFails
    \/ HandOver \/ WriteEndsInError
    \/ ClientReads \/ StopReading \/ StopSending

\* The thread runs when it is not blocked, a silent client lets reads time
\* out, the driver transfers when it can, and a client that reads keeps
\* reading.  Nothing makes a deaf client read, or a flush fail.
Fairness ==
    /\ WF_vars(Opening) /\ WF_vars(Close)
    /\ WF_vars(Writing)
    /\ WF_vars(IdleTimeout /\ client = "silent")
    /\ WF_vars(HandOver) /\ WF_vars(ClientReads)

Spec == Init /\ [][Next]_vars /\ Fairness

-----------------------------------------------------------------------------

TypeOK ==
    /\ pc \in {"create", "state", "events", "timeouts", "queues",
              "read", "check", "write", "flush", "close", "exit"}
    /\ open \subseteq {"file", "rd", "wr"}
    /\ connected \in BOOLEAN
    /\ buffer \in Numbers \cup {Freed} /\ driver \in Numbers \cup {Freed}
    /\ ov \in {"done", "pending", "error"}
    /\ peer \in Seq(Numbers \cup {Freed}) /\ Len(peer) <= Room
    /\ received \in Seq(Numbers \cup {Freed})
    /\ sent \in Seq(Numbers) /\ unflushed \subseteq Numbers
    /\ count \in 0..MaxResponses
    /\ client \in {"reads", "deaf", "silent"}

\* Whatever step of Open() fails, whenever a read fails and whatever the write
\* before it came to: once the program has ended it holds no handle and no
\* panel, and no write is under way any more (serialport.cpp:62-76, 119-262,
\* emu.cpp:106-116, 135-138).
ReleasedAtExit == pc = "exit" => open = {} /\ ~connected /\ driver = Freed

Arrived == received \o peer

\* Whatever is dropped or fails: responses arrive once, in the order of
\* their requests, and none arrives that Write() gave up; what else arrives
\* are bytes of a freed string (serialport.cpp:285-309).
ArriveInOrder ==
    /\ \A i, j \in DOMAIN Arrived :
          i < j /\ Arrived[i] # Freed /\ Arrived[j] # Freed => Arrived[i] < Arrived[j]
    /\ \A i \in DOMAIN Arrived :
          Arrived[i] \in {buffer, Freed} \/ \E j \in DOMAIN sent : sent[j] = Arrived[i]

\* The string a write takes its bytes from outlives the write, unless the
\* flush of this very write failed: respond() frees it as soon as Write()
\* returns (emu.cpp:154, 165 against serialport.cpp:301-308).
BufferOutlivesWrite == driver # Freed => buffer = driver \/ driver \in unflushed

\* Outside of a write the client has got what Write() returned true for, in
\* that order and nothing else.  Garbled is only what was still under way when
\* its flush failed, and missing at most the last: it still is under way, or
\* it is lost, and then nothing is reported as written any more
\* (serialport.cpp:289-308).
TrueMeansArrived ==
    pc # "flush" =>
        /\ \/ Len(sent) = Len(Arrived)
           \/ /\ Len(sent) = Len(Arrived) + 1
              /\ ov = "error" \/ driver = sent[Len(sent)]
        /\ \A i \in DOMAIN Arrived :
              Arrived[i] = sent[i] \/ (Arrived[i] = Freed /\ sent[i] \in unflushed)

\* No write is started while another one is under way, as it may be after a
\* failed flush: they share m_ov_wr, and the driver would lose the first
\* ("prior write not finished, drop this one", serialport.cpp:289-301).
OneWriteAtATime == [][driver # Freed => driver' \in {driver, Freed}]_vars

\* As long as the client reads, no write blocks the loop for ever, and with
\* it the idle timeout (serialport.cpp:307).
WritesReturn == pc \in InWrite ~> pc \notin InWrite \/ client # "reads"

-----------------------------------------------------------------------------
(* What the comments of the source say, and the code does not do.          *)

\* "disconnect after 15 seconds" (emu.cpp:47): the panel of a silent client
\* is disconnected.
SilentClientDisconnected == client = "silent" ~> ~connected
=============================================================================
