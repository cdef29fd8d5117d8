----------------------------- MODULE CommandLine ----------------------------
(***************************************************************************)
(* How emu/emu.cpp turns the bytes of the COM port into lines, lines into  *)
(* requests and requests into responses.  What a request does to the panel *)
(* is module Emulator's; here it is served or it fails.                    *)
(*                                                                         *)
(* buf is the same piece of stack in every turn of the loop: what a line   *)
(* does not overwrite stays, and what no line ever wrote is Junk.  A read  *)
(* that times out changes nothing here: the bytes an earlier client left   *)
(* stay in front of the next client's.                                     *)
(***************************************************************************)
EXTENDS Integers, Sequences

CONSTANTS
    Size,           \* sizeof(buf), 1024
    Byte,           \* what a client sends
    Digit,          \* bytes a number starts with (the blanks and the sign
                    \* that "%u" also takes are left out)
    QuitWord        \* "quit", a byte at a time

NL == "nl"          \* '\n'
NUL == "nul"        \* the byte 0
Junk == "junk"      \* a byte of buf that was never written
None == <<>>        \* no response
Plain == {"S", "L", "D", "V"}   \* requests without a number in or out

ASSUME LineAssumption ==
    /\ Size \in Nat /\ Size >= 6 /\ Size > Len(QuitWord) + 1
    /\ {NL, NUL} \subseteq Byte /\ Junk \notin Byte
    /\ Digit \subseteq Byte \ {NL, NUL}
    /\ QuitWord \in Seq(Byte \ {NL, NUL}) /\ Len(QuitWord) >= 2

VARIABLES
    buf, p, rem,    \* the buffer, the index of the next byte, the room left
    pc,             \* "top" of the loop, "read", "dispatch", or out of it:
                    \* "quit", "error", "aborted"
    resp,           \* the bytes of the response, or None
    said,           \* history: what the client has sent of its line
    clean,          \* history: does the buffer hold nothing but its line?
    whole,          \* history: did the line end with a newline?
    last            \* history: the last line that was not empty, until a byte
                    \* of the next one is stored; <<>> if there was none or it
                    \* did not begin cleanly

vars == <<buf, p, rem, pc, resp, said, clean, whole, last>>

Indices == 0..Size - 1

Init ==
    /\ buf = [i \in Indices |-> Junk]
    /\ p = 0 /\ rem = 0
    /\ pc = "top"
    /\ resp = None
    /\ said = <<>> /\ clean = TRUE /\ whole = TRUE
    /\ last = <<>>

-----------------------------------------------------------------------------
(* Reading a line.                                                         *)

\* The line whose bytes the handlers find from buf[1] on: an empty one leaves
\* those of the line before.
LineInBuffer == IF said = <<>> THEN last ELSE said

\* Bugs the runs would find: the whole buffer is offered to the reader, or
\* the next line is stored after the last.
OfferAll ==
    /\ pc = "top" /\ pc' = "read"
    /\ p' = 0 /\ rem' = Size
    /\ resp' = None /\ last' = (IF clean THEN LineInBuffer ELSE <<>>)
    /\ said' = <<>> /\ clean' = whole
    /\ UNCHANGED <<buf, whole>>
KeepPlace ==
    /\ pc = "top" /\ pc' = "read"
    /\ rem' = Size - 1 - p
    /\ resp' = None /\ last' = (IF clean THEN LineInBuffer ELSE <<>>)
    /\ said' = <<>> /\ clean' = whole
    /\ UNCHANGED <<buf, p, whole>>

\* Every turn starts at the front of buf, with a byte kept for the NUL.
StartLine ==
    /\ pc = "top" /\ pc' = "read"
    /\ p' = 0 /\ rem' = Size - 1
    /\ resp' = None /\ last' = (IF clean THEN LineInBuffer ELSE <<>>)
    /\ said' = <<>> /\ clean' = whole
    /\ UNCHANGED <<buf, whole>>

\* A bug the runs would find: the line is not terminated.
LeaveNewline ==
    /\ pc = "read"
    /\ whole' = TRUE
    /\ pc' = "dispatch"
    /\ UNCHANGED <<buf, p, rem, resp, said, clean, last>>

\* The newline ends the line, and a NUL takes its place.
ReadNewline ==
    /\ pc = "read"
    /\ buf' = [buf EXCEPT ![p] = NUL]
    /\ whole' = TRUE
    /\ pc' = "dispatch"
    /\ UNCHANGED <<p, rem, resp, said, clean, last>>

\* Any other byte is stored; the last there is room for ends the line too.
ReadByte(c) ==
    /\ pc = "read"
    /\ c # NL
    /\ buf' = [buf EXCEPT ![p] = c]
    /\ p' = p + 1 /\ rem' = rem - 1
    /\ said' = Append(said, c) /\ last' = <<>>
    /\ whole' = FALSE
    /\ pc' = IF rem' > 0 THEN "read" ELSE "dispatch"
    /\ UNCHANGED <<resp, clean>>

\* dev.Read() returns -1, and main() ends.
ReadError ==
    /\ pc = "read"
    /\ pc' = "error"
    /\ UNCHANGED <<buf, p, rem, resp, said, clean, whole, last>>

-----------------------------------------------------------------------------
(* Dispatching it, on buf[1] whatever the line's length.                   *)

\* What buf[i] may be taken for.
Seen(i) == IF buf[i] = Junk THEN Byte ELSE {buf[i]}

\* A C string: the bytes before the first NUL.
UpToNul(s) == [i \in {k \in DOMAIN s : \A j \in 1..k : s[j] # NUL} |-> s[i]]

\* responseStr(): "*", the command, the product id 10, three bytes of data
\* and a newline; the conversion to a string stops at the first NUL.
responseStr(cmd, data) ==
    UpToNul(<<"*", cmd, "1", "0", data[1], data[2], data[3], NL>>)

Answer(r) ==
    /\ resp' = r
    /\ pc' = "top"
    /\ UNCHANGED <<buf, p, rem, said, clean, whole, last>>

\* The state, "000" and "999" are three characters long.
AnswerPlain ==
    /\ pc = "dispatch"
    /\ \E cmd \in Plain \cap Seen(1) : Answer(responseStr(cmd, <<"0", "0", "0">>))

\* B echoes three bytes of the line, the number's or whatever comes after it.
AnswerBrightness ==
    /\ pc = "dispatch"
    /\ "B" \in Seen(1)
    /\ Seen(2) \cap Digit # {}
    /\ Answer(responseStr("B", <<buf[2], buf[3], buf[4]>>))

\* "%03u" gives three digits, and bbuf has room for two and a NUL.
AnswerLevel ==
    /\ pc = "dispatch"
    /\ "J" \in Seen(1)
    /\ Answer(responseStr("J", <<"0", "0", NUL>>))

\* Under MSVC, snprintf is _snprintf_s, which stops the program instead.
StoppedByRuntime ==
    /\ pc = "dispatch"
    /\ "J" \in Seen(1)
    /\ pc' = "aborted"
    /\ UNCHANGED <<buf, p, rem, resp, said, clean, whole, last>>

\* A bug the runs would find: any command with a u is taken for quit.
IsQuitU == "u" \in Seen(1)

\* strcmp(buf, "quit") == 0, asked when buf[1] is a u
IsQuit ==
    /\ "u" \in Seen(1)
    /\ \A i \in DOMAIN QuitWord : QuitWord[i] \in Seen(i - 1)
    /\ NUL \in Seen(Len(QuitWord))

\* Not a request, or one that fails: nothing is sent.
NoAnswer ==
    /\ pc = "dispatch"
    /\ ~IsQuit
    /\ Answer(None)

Quit ==
    /\ pc = "dispatch"
    /\ IsQuit
    /\ pc' = "quit"
    /\ UNCHANGED <<buf, p, rem, resp, said, clean, whole, last>>

-----------------------------------------------------------------------------

\* Another client opens the port; what the one before sent is in buf.
NewClient ==
    /\ pc = "read"
    /\ said' = <<>>
    /\ clean' = (p = 0)
    /\ UNCHANGED <<buf, p, rem, pc, resp, whole, last>>

Next ==
    \/ StartLine
    \/ ReadNewline \/ \E c \in Byte : ReadByte(c)
    \/ ReadError
    \/ NoAnswer \/ AnswerPlain \/ AnswerBrightness \/ AnswerLevel
    \/ StoppedByRuntime \/ Quit
    \/ NewClient

Spec == Init /\ [][Next]_vars

-----------------------------------------------------------------------------

TypeOK ==
    /\ buf \in [Indices -> Byte \cup {Junk}]
    /\ p \in 0..Size - 1 /\ rem \in 0..Size - 1
    /\ pc \in {"top", "read", "dispatch", "quit", "error", "aborted"}
    /\ resp \in Seq(Byte \cup {Junk, "*", "0", "1"} \cup Plain \cup {"B", "J"})
    /\ said \in Seq(Byte \ {NL})
    /\ clean \in BOOLEAN /\ whole \in BOOLEAN
    /\ last \in Seq(Byte \ {NL})

\* Every byte is stored inside buf, and the last index is never reached: the
\* bytes stored and the room left always make up the buffer less one
\* (emu.cpp:122-146).
StoresInside == pc = "read" => p + rem = Size - 1 /\ rem > 0

\* The handlers see the client's line, all of it and terminated, whatever
\* lines, clients and overlong lines came before, as long as the line began
\* after a newline or with a new client at the front of the buffer
\* (emu.cpp:120-146).
HandlersSeeLine ==
    pc = "dispatch" /\ clean =>
        /\ \A i \in DOMAIN said : buf[i - 1] = said[i]
        /\ whole => buf[Len(said)] = NUL
        /\ ~whole => Len(said) = Size - 1

\* A response answers the line it follows, or, if that is empty, the last one
\* that was not: the command is that line's second byte.  A line of one byte
\* is not answered (emu.cpp:148-242).
AnswersItsLine ==
    pc = "top" /\ resp # None /\ clean /\ LineInBuffer # <<>> =>
        Len(LineInBuffer) >= 2 /\ resp[2] = LineInBuffer[2]

\* B echoes the bytes of the line it answers, three or all there are, and
\* none of a longer line before it, although &buf[2] is handed to
\* responseStr() without a length.  An empty line after "*B100" is answered
\* with the 100 again (emu.cpp:201, alnitak_emu.cpp:99-106).
EchoesItsLine ==
    pc = "top" /\ resp # None /\ clean /\ LineInBuffer # <<>> /\ resp[2] = "B" =>
        LET data == UpToNul(SubSeq(LineInBuffer, 3, Len(LineInBuffer)))
        IN  resp = <<"*", "B", "1", "0">> \o
                   (IF Len(data) < 3 THEN data ELSE <<data[1], data[2], data[3], NL>>)

\* Only the word itself ends the program, alone on its line, not a command
\* left in the buffer.  The tail of an overlong line is a line of its own here,
\* and not one that began cleanly: "quit" there does end the program
\* (emu.cpp:120-146, 233-237).
QuitsOnlyOnWord ==
    pc = "quit" /\ clean => UpToNul(said) = QuitWord

-----------------------------------------------------------------------------
(* What the source says, and the code does not do.                         *)

\* responseStr() ends what it builds with '\n', 0 (alnitak_emu.cpp:104):
\* every response is a line.
ResponseIsALine == resp # None /\ said # <<>> => resp[Len(resp)] = NL
=============================================================================
