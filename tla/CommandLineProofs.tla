-------------------------- MODULE CommandLineProofs -------------------------
(***************************************************************************)
(* The line buffer, proved for every buffer size, alphabet and sequence of *)
(* lines, clients and read errors: what the handlers see is the line, and  *)
(* what they send back answers it.                                         *)
(***************************************************************************)
EXTENDS CommandLine, NaturalSets

\* TypeOK without the response.
Types ==
    /\ buf \in [Indices -> Byte \cup {Junk}]
    /\ p \in Nat /\ rem \in Nat
    /\ pc \in {"top", "read", "dispatch", "quit", "error", "aborted"}
    /\ said \in Seq(Byte \ {NL})
    /\ clean \in BOOLEAN /\ whole \in BOOLEAN
    /\ last \in Seq(Byte \ {NL})

\* What the client has sent of its line is what is stored.
Stored == clean => Len(said) = p /\ \A i \in 1..Len(said) : buf[i - 1] = said[i]

\* A line is handed on with its NUL, or at full length, and stays so.
Terminated ==
    pc = "dispatch" \/ (pc = "top" /\ p > 0) =>
        /\ p < Size
        /\ whole => buf[p] = NUL
        /\ ~whole => p = Size - 1

\* A line, but for its first byte, and the NUL where it has room for one.
Kept(line) ==
    /\ Len(line) < Size
    /\ \A i \in 2..Len(line) : buf[i - 1] = line[i]
    /\ Len(line) < Size - 1 => buf[Len(line)] = NUL

\* Until a byte is stored, the last line is still there.
LastKept == last # <<>> => p = 0 /\ Kept(last)

LineInv == Types /\ StoresInside /\ Stored /\ Terminated /\ LastKept

LEMMA Sizes ==
    /\ Size \in Nat /\ Size >= 6 /\ {0, 1, 2, 3, 4} \subseteq Indices
    /\ NL \in Byte /\ NUL \in Byte /\ Junk \notin Byte /\ NL # NUL
BY LineAssumption DEF Indices, NL, NUL

\* Steps that touch neither the buffer nor the line.
LEMMA LineUntouched ==
    ASSUME LineInv, UNCHANGED <<buf, p, rem, said, clean, whole, last>>,
           pc' \in {"top", "quit", "error", "aborted"}, pc' = "top" => pc = "dispatch"
    PROVE  LineInv'
BY DEF LineInv, Types, StoresInside, Stored, Terminated, LastKept, Kept

LEMMA LineInit == Init => LineInv
<1> SUFFICES ASSUME Init PROVE LineInv
    OBVIOUS
<1>1. Types
    BY DEF Init, Types
<1>. QED
    BY <1>1 DEF Init, LineInv, StoresInside, Stored, Terminated, LastKept

\* A line that has been read is in the buffer, and an empty one leaves the
\* line before it there.
LEMMA LineIsKept ==
    ASSUME LineInv, pc \in {"top", "dispatch"}, clean, LineInBuffer # <<>>
    PROVE  Kept(LineInBuffer) /\ LineInBuffer \in Seq(Byte \ {NL})
                              /\ Len(LineInBuffer) \in Nat \ {0}
<1>1. said \in Seq(Byte \ {NL}) /\ last \in Seq(Byte \ {NL}) /\ p \in Nat
    BY DEF LineInv, Types
<1>2. CASE said = <<>>
    <2>1. LineInBuffer = last /\ last # <<>>
        BY <1>2 DEF LineInBuffer
    <2>. QED
        BY <1>1, <2>1 DEF LineInv, LastKept
<1>3. CASE said # <<>>
    <2>1. LineInBuffer = said
        BY <1>3 DEF LineInBuffer
    <2>2. Len(said) = p /\ p > 0 /\ \A i \in 1..p : buf[i - 1] = said[i]
        BY <1>1, <1>3 DEF LineInv, Stored
    <2>3. p < Size /\ (whole => buf[p] = NUL) /\ (~whole => p = Size - 1)
        BY <2>2 DEF LineInv, Terminated
    <2>. QED
        BY <1>1, <2>1, <2>2, <2>3, Sizes DEF Kept
<1>. QED
    BY <1>2, <1>3

LEMMA StartLineKeeps == LineInv /\ StartLine => LineInv'
<1> SUFFICES ASSUME LineInv, StartLine PROVE LineInv'
    OBVIOUS
<1>1. last' \in Seq(Byte \ {NL}) /\ (last' # <<>> => Kept(last'))
    <2>1. CASE clean /\ LineInBuffer # <<>>
        <3>1. last' = LineInBuffer /\ pc = "top"
            BY <2>1 DEF StartLine
        <3>. QED
            BY <2>1, <3>1, LineIsKept
    <2>2. CASE ~(clean /\ LineInBuffer # <<>>)
        <3>1. last' = <<>>
            BY <2>2 DEF StartLine
        <3>. QED
            BY <3>1
    <2>. QED
        BY <2>1, <2>2
<1>2. Types'
    BY <1>1, Sizes DEF LineInv, Types, StartLine
<1>3. StoresInside' /\ Stored' /\ Terminated'
    BY Sizes DEF StartLine, StoresInside, Stored, Terminated
<1>4. LastKept'
    BY <1>1 DEF StartLine, LastKept, Kept
<1>. QED
    BY <1>2, <1>3, <1>4 DEF LineInv

LEMMA ReadNewlineKeeps == LineInv /\ ReadNewline => LineInv'
<1> SUFFICES ASSUME LineInv, ReadNewline PROVE LineInv'
    OBVIOUS
<1>1. p \in Indices /\ p < Size - 1
    BY Sizes DEF LineInv, Types, StoresInside, ReadNewline, Indices
<1>2. Types'
    BY Sizes DEF LineInv, Types, ReadNewline
<1>3. buf' \in [Indices -> Byte \cup {Junk}] /\ buf'[p] = NUL
      /\ \A i \in Indices \ {p} : buf'[i] = buf[i]
    BY <1>1, Sizes DEF LineInv, Types, ReadNewline
<1>4. Stored'
    <2> SUFFICES ASSUME clean'
                 PROVE  Len(said') = p' /\ \A i \in 1..Len(said') : buf'[i - 1] = said'[i]
        BY DEF Stored
    <2>1. clean /\ said' = said /\ p' = p
        BY DEF ReadNewline
    <2>2. Len(said) = p /\ \A i \in 1..Len(said) : buf[i - 1] = said[i]
        BY <2>1 DEF LineInv, Stored
    <2>3. \A i \in 1..Len(said) : i - 1 \in Indices \ {p}
        BY <1>1, <2>2, Sizes DEF Indices
    <2>. QED
        BY <1>3, <2>1, <2>2, <2>3
<1>5. Terminated' /\ StoresInside'
    BY <1>1, <1>3, Sizes DEF Terminated, StoresInside, ReadNewline, Indices
<1>6. LastKept'
    <2> SUFFICES ASSUME last # <<>> PROVE p = 0 /\ Kept(last)'
        BY DEF LastKept, ReadNewline
    <2>1. last \in Seq(Byte \ {NL}) /\ Len(last) \in Nat \ {0} /\ p = 0 /\ Kept(last)
          /\ last' = last
        BY DEF LineInv, Types, LastKept, ReadNewline
    <2>2. \A i \in 2..Len(last) : i - 1 \in Indices \ {0}
        BY <2>1, Sizes DEF Kept, Indices
    <2>3. Len(last) \in Indices \ {0}
        BY <2>1, Sizes DEF Kept, Indices
    <2>. QED
        BY <1>3, <2>1, <2>2, <2>3 DEF Kept
<1>. QED
    BY <1>2, <1>4, <1>5, <1>6 DEF LineInv

LEMMA ReadByteKeeps ==
    ASSUME LineInv, NEW c \in Byte, ReadByte(c)
    PROVE  LineInv'
<1>1. p \in Indices /\ p + rem = Size - 1 /\ rem > 0 /\ p < Size - 1
    BY Sizes DEF LineInv, Types, StoresInside, ReadByte, Indices
<1>2. buf' \in [Indices -> Byte \cup {Junk}] /\ buf'[p] = c
      /\ \A i \in Indices \ {p} : buf'[i] = buf[i]
    BY <1>1 DEF LineInv, Types, ReadByte
<1>3. said \in Seq(Byte \ {NL}) /\ said' = Append(said, c) /\ c \in Byte \ {NL}
    BY DEF LineInv, Types, ReadByte
<1>4. p' = p + 1 /\ rem' = rem - 1 /\ p' \in Nat /\ rem' \in Nat
    BY <1>1 DEF LineInv, Types, ReadByte
<1>5. Types'
    <2>1. said' \in Seq(Byte \ {NL})
        BY <1>3
    <2>2. pc' \in {"read", "dispatch"} /\ clean' \in BOOLEAN /\ last' \in Seq(Byte \ {NL})
        BY DEF ReadByte, LineInv, Types
    <2>3. whole' \in BOOLEAN
        BY DEF ReadByte
    <2>. QED
        BY <1>2, <1>4, <2>1, <2>2, <2>3 DEF Types
<1>6. StoresInside'
    <2>1. pc' = "read" => rem' > 0
        BY DEF ReadByte
    <2>2. p' + rem' = Size - 1
        BY <1>1, <1>4, Sizes DEF LineInv, Types
    <2>. QED
        BY <2>1, <2>2 DEF StoresInside
<1>7. Stored'
    <2> SUFFICES ASSUME clean'
                 PROVE  Len(said') = p' /\ \A i \in 1..Len(said') : buf'[i - 1] = said'[i]
        BY DEF Stored
    <2>1. Len(said) = p /\ \A i \in 1..Len(said) : buf[i - 1] = said[i]
        BY DEF ReadByte, LineInv, Stored
    <2>2. Len(said') = p + 1 /\ said'[p + 1] = c
          /\ \A i \in 1..p : said'[i] = said[i]
        BY <1>3, <2>1
    <2>3. \A i \in 1..p : i - 1 \in Indices \ {p}
        BY <1>1, Sizes DEF Indices
    <2>4. \A i \in 1..p : buf'[i - 1] = said'[i]
        BY <1>2, <2>1, <2>2, <2>3
    <2>5. \A i \in 1..p + 1 : i \in 1..p \/ i = p + 1
        BY <1>1 DEF Indices
    <2>6. (p + 1) - 1 = p
        BY <1>1 DEF Indices
    <2>7. \A i \in 1..p + 1 : buf'[i - 1] = said'[i]
        BY <1>2, <2>2, <2>4, <2>5, <2>6
    <2>. QED
        BY <1>4, <2>2, <2>7
<1>8. Terminated'
    <2>0. pc' # "top"
        BY DEF ReadByte
    <2>1. pc' = "dispatch" => rem' = 0
        <3>1. pc' = "dispatch" => ~(rem' > 0)
            BY DEF ReadByte
        <3>2. \A r \in Nat : ~(r > 0) => r = 0
            OBVIOUS
        <3>. QED
            BY <1>4, <3>1, <3>2
    <2>2. rem' = 0 => p' = Size - 1
        BY <1>1, <1>4, Sizes DEF LineInv, Types
    <2>3. ~whole'
        BY DEF ReadByte
    <2>. QED
        BY <2>0, <2>1, <2>2, <2>3, Sizes DEF Terminated
<1>9. LastKept'
    BY DEF ReadByte, LastKept
<1>. QED
    BY <1>5, <1>6, <1>7, <1>8, <1>9 DEF LineInv

LEMMA NewClientKeeps == LineInv /\ NewClient => LineInv'
<1> SUFFICES ASSUME LineInv, NewClient PROVE LineInv'
    OBVIOUS
<1>1. clean' \in BOOLEAN /\ (clean' => p = 0)
    BY Zenon DEF NewClient
<1>2. Types'
    BY <1>1 DEF LineInv, Types, NewClient
<1>3. Stored'
    BY <1>1 DEF NewClient, Stored
<1>4. StoresInside' /\ Terminated' /\ LastKept'
    BY DEF LineInv, StoresInside, Terminated, LastKept, Kept, NewClient
<1>. QED
    BY <1>2, <1>3, <1>4 DEF LineInv

LEMMA LineNext == LineInv /\ [Next]_vars => LineInv'
<1> SUFFICES ASSUME LineInv, [Next]_vars PROVE LineInv'
    OBVIOUS
<1>1. CASE StartLine
    BY <1>1, StartLineKeeps
<1>2. CASE ReadNewline
    BY <1>2, ReadNewlineKeeps
<1>3. ASSUME NEW c \in Byte, ReadByte(c) PROVE LineInv'
    BY <1>3, ReadByteKeeps
<1>4. CASE ReadError \/ StoppedByRuntime \/ Quit
    BY <1>4, LineUntouched DEF ReadError, StoppedByRuntime, Quit
<1>5. CASE NoAnswer \/ AnswerPlain \/ AnswerBrightness \/ AnswerLevel
    BY <1>5, LineUntouched
    DEF NoAnswer, AnswerPlain, AnswerBrightness, AnswerLevel, Answer
<1>6. CASE NewClient
    BY <1>6, NewClientKeeps
<1>7. CASE UNCHANGED vars
    BY <1>7 DEF vars, LineInv, Types, StoresInside, Stored, Terminated, LastKept, Kept
<1>. QED
    BY <1>1, <1>2, <1>3, <1>4, <1>5, <1>6, <1>7 DEF Next

THEOREM LineInvariance == Spec => []LineInv
<1>. QED
    BY LineInit, LineNext, PTL DEF Spec

\* No byte is ever stored outside the buffer or at its last index, and the
\* reader is never asked for a byte there is no room for (emu.cpp:122-146).
THEOREM StoredInside == Spec => []StoresInside
<1>1. LineInv => StoresInside
    BY DEF LineInv
<1>. QED
    BY <1>1, LineInvariance, PTL

\* Whatever came before it, a line is handed to the handlers whole and
\* terminated, for every size of the buffer (emu.cpp:120-146).
THEOREM LineSeen == Spec => []HandlersSeeLine
<1>1. LineInv => HandlersSeeLine
    BY DEF LineInv, Types, Stored, Terminated, HandlersSeeLine
<1>. QED
    BY <1>1, LineInvariance, PTL

-----------------------------------------------------------------------------
(* The response.                                                           *)

\* Cutting at a NUL leaves what stands before it alone.
LEMMA CutKeeps ==
    ASSUME NEW s, NEW i \in DOMAIN s, \A j \in 1..i : s[j] # NUL
    PROVE  i \in DOMAIN UpToNul(s) /\ UpToNul(s)[i] = s[i]
BY DEF UpToNul

LEMMA ResponseCommand ==
    ASSUME NEW cmd, cmd # NUL, NEW data
    PROVE  responseStr(cmd, data)[2] = cmd
<1> DEFINE s == <<"*", cmd, "1", "0", data[1], data[2], data[3], NL>>
<1>1. 2 \in DOMAIN s /\ s[2] = cmd /\ s[1] = "*"
    OBVIOUS
<1>2. \A j \in 1..2 : s[j] # NUL
    BY <1>1 DEF NUL
<1>. QED
    BY <1>1, <1>2, CutKeeps DEF responseStr

\* The command the handlers see is the line's, or the last line's if this one
\* is empty.
LEMMA CommandSeen ==
    ASSUME LineInv, pc = "dispatch", clean, LineInBuffer # <<>>,
           NEW cmd \in Seen(1), cmd # NUL
    PROVE  Len(LineInBuffer) >= 2 /\ cmd = LineInBuffer[2]
<1> DEFINE line == LineInBuffer
<1>1. Kept(line) /\ line \in Seq(Byte \ {NL}) /\ Len(line) \in Nat \ {0}
    BY LineIsKept
<1> HIDE DEF line
<1>2. CASE Len(line) = 1
    <2>1. buf[1] = NUL
        BY <1>1, <1>2, Sizes DEF Kept
    <2>. QED
        BY <2>1 DEF Seen, NUL, Junk
<1>3. CASE Len(line) >= 2
    <2>1. 2 \in 2..Len(line) /\ 2 - 1 = 1
        BY <1>1, <1>3
    <2>2. buf[1] = line[2]
        BY <1>1, <2>1 DEF Kept
    <2>3. line[2] \in Byte
        BY <1>1, <1>3
    <2>. QED
        BY <1>3, <2>2, <2>3, Sizes DEF Seen, line
<1>4. Len(line) = 1 \/ Len(line) >= 2
    <2> DEFINE n == Len(line)
    <2>1. n \in Nat \ {0}
        BY <1>1
    <2> HIDE DEF n
    <2>2. n = 1 \/ n >= 2
        BY <2>1
    <2>. QED
        BY <2>2 DEF n
<1>. QED
    BY <1>2, <1>3, <1>4

LEMMA AnswersNext == LineInv /\ AnswersItsLine /\ [Next]_vars => AnswersItsLine'
<1> SUFFICES ASSUME LineInv, AnswersItsLine, [Next]_vars PROVE AnswersItsLine'
    OBVIOUS
<1>1. ASSUME NEW cmd \in Seen(1), cmd # NUL, NEW data, pc = "dispatch",
             Answer(responseStr(cmd, data))
      PROVE  AnswersItsLine'
    <2>1. clean /\ LineInBuffer # <<>> =>
              Len(LineInBuffer) >= 2 /\ responseStr(cmd, data)[2] = LineInBuffer[2]
        BY <1>1, CommandSeen, ResponseCommand
    <2>. QED
        BY <1>1, <2>1 DEF Answer, AnswersItsLine, LineInBuffer
<1>2. CASE AnswerPlain
    <2>1. PICK cmd \in Plain \cap Seen(1) : Answer(responseStr(cmd, <<"0", "0", "0">>))
        BY <1>2 DEF AnswerPlain
    <2>2. cmd # NUL
        BY DEF Plain, NUL
    <2>. QED
        BY <1>1, <1>2, <2>1, <2>2 DEF AnswerPlain
<1>3. CASE AnswerBrightness
    <2>1. "B" # NUL
        BY DEF NUL
    <2>. QED
        BY <1>1, <1>3, <2>1 DEF AnswerBrightness
<1>4. CASE AnswerLevel
    <2>1. "J" # NUL
        BY DEF NUL
    <2>. QED
        BY <1>1, <1>4, <2>1 DEF AnswerLevel
<1>5. CASE NoAnswer \/ StartLine
    <2>1. resp' = None
        BY <1>5 DEF NoAnswer, Answer, StartLine
    <2>. QED
        BY <2>1 DEF AnswersItsLine
<1>6. CASE ReadNewline \/ ReadError \/ StoppedByRuntime \/ Quit \/ NewClient
    <2>1. pc' # "top"
        BY <1>6 DEF ReadNewline, ReadError, StoppedByRuntime, Quit, NewClient
    <2>. QED
        BY <2>1 DEF AnswersItsLine
<1>7. ASSUME NEW c \in Byte, ReadByte(c) PROVE AnswersItsLine'
    <2>1. pc' # "top"
        BY <1>7 DEF ReadByte
    <2>. QED
        BY <2>1 DEF AnswersItsLine
<1>8. CASE UNCHANGED vars
    BY <1>8 DEF vars, AnswersItsLine, LineInBuffer
<1>. QED
    BY <1>2, <1>3, <1>4, <1>5, <1>6, <1>7, <1>8 DEF Next

\* No response answers a line it does not follow, or, after empty ones, any but
\* the last that was not, however short, long or broken the lines were
\* (emu.cpp:148-242).
THEOREM LineAnswered == Spec => []AnswersItsLine
<1>1. Init => AnswersItsLine
    BY DEF Init, AnswersItsLine
<1>. QED
    BY <1>1, AnswersNext, LineInvariance, PTL DEF Spec

-----------------------------------------------------------------------------
(* The word that ends the program.                                         *)

LEMMA WordSeen ==
    ASSUME LineInv, pc = "dispatch", clean, IsQuit
    PROVE  UpToNul(said) = QuitWord
<1> DEFINE L == Len(QuitWord)
<1>1. Len(said) = p /\ \A i \in 1..p : buf[i - 1] = said[i]
    BY DEF LineInv, Stored
<1>2. said \in Seq(Byte \ {NL}) /\ p \in Nat /\ \A i \in 1..p : said[i] \in Byte
    <2>1. said \in Seq(Byte \ {NL}) /\ p \in Nat
        BY DEF LineInv, Types
    <2>. QED
        BY <1>1, <2>1
<1>3. /\ QuitWord \in Seq(Byte \ {NL, NUL}) /\ L \in Nat /\ L < Size - 1
      /\ \A i \in 1..L : QuitWord[i] # NUL
    BY LineAssumption
<1>4. \A i \in 1..p : Seen(i - 1) = {said[i]}
    BY <1>1, <1>2, Sizes DEF Seen
<1>5. p >= L
    <2> SUFFICES ASSUME p < L PROVE FALSE
        BY <1>2, <1>3
    <2>1. buf[p] = NUL
        BY <1>3, Sizes DEF LineInv, Terminated
    <2>2. Seen(p) = {NUL}
        BY <2>1 DEF Seen, NUL, Junk
    <2>3. p + 1 \in DOMAIN QuitWord /\ (p + 1) - 1 = p /\ p + 1 \in 1..L
        BY <1>2, <1>3
    <2>4. QuitWord[p + 1] \in Seen((p + 1) - 1)
        BY <2>3 DEF IsQuit
    <2>. QED
        BY <1>3, <2>2, <2>3, <2>4
<1>6. \A i \in 1..L : said[i] = QuitWord[i]
    BY <1>2, <1>3, <1>4, <1>5 DEF IsQuit
<1>7. p > L => said[L + 1] = NUL
    <2> SUFFICES ASSUME p > L PROVE said[L + 1] = NUL
        OBVIOUS
    <2>1. L + 1 \in 1..p /\ (L + 1) - 1 = L
        BY <1>2, <1>3
    <2>2. Seen(L) = {said[L + 1]}
        BY <1>4, <2>1
    <2>. QED
        BY <2>2 DEF IsQuit
<1>8. {k \in DOMAIN said : \A j \in 1..k : said[j] # NUL} = 1..L
    <2>1. DOMAIN said = 1..p
        BY <1>1, <1>2
    <2>2. ASSUME NEW k \in 1..p, \A j \in 1..k : said[j] # NUL PROVE k \in 1..L
        <3>1. k > L => L + 1 \in 1..k /\ p > L
            BY <1>2, <1>3
        <3>2. ~(k > L)
            BY <1>7, <2>2, <3>1
        <3>. QED
            BY <1>2, <1>3, <3>2
    <2>3. ASSUME NEW k \in 1..L PROVE k \in 1..p /\ \A j \in 1..k : said[j] # NUL
        <3>1. \A j \in 1..k : j \in 1..L
            BY <1>3
        <3>. QED
            BY <1>2, <1>3, <1>5, <1>6, <3>1
    <2>. QED
        BY <2>1, <2>2, <2>3
<1>9. QuitWord = [i \in 1..L |-> QuitWord[i]]
    BY <1>3
<1>. QED
    BY <1>6, <1>8, <1>9 DEF UpToNul

LEMMA QuitsNext == LineInv /\ QuitsOnlyOnWord /\ [Next]_vars => QuitsOnlyOnWord'
<1> SUFFICES ASSUME LineInv, QuitsOnlyOnWord, [Next]_vars PROVE QuitsOnlyOnWord'
    OBVIOUS
<1>1. CASE Quit
    BY <1>1, WordSeen DEF Quit, QuitsOnlyOnWord
<1>2. CASE pc' # "quit"
    BY <1>2 DEF QuitsOnlyOnWord
<1>3. CASE UNCHANGED vars
    BY <1>3 DEF vars, QuitsOnlyOnWord
<1>4. \A c \in Byte : ReadByte(c) => pc' # "quit"
    BY DEF ReadByte
<1>5. NewClient => pc' # "quit"
    BY DEF NewClient
<1>6. StartLine \/ ReadNewline \/ ReadError \/ StoppedByRuntime => pc' # "quit"
    BY DEF StartLine, ReadNewline, ReadError, StoppedByRuntime
<1>7. NoAnswer \/ AnswerPlain \/ AnswerBrightness \/ AnswerLevel => pc' # "quit"
    BY DEF NoAnswer, AnswerPlain, AnswerBrightness, AnswerLevel, Answer
<1>. QED
    BY <1>1, <1>2, <1>3, <1>4, <1>5, <1>6, <1>7 DEF Next

\* Nothing but the word "quit", alone on its line, ends the program by
\* request (emu.cpp:233-237).
THEOREM WordQuits == Spec => []QuitsOnlyOnWord
<1>1. Init => QuitsOnlyOnWord
    BY DEF Init, QuitsOnlyOnWord
<1>. QED
    BY <1>1, QuitsNext, LineInvariance, PTL DEF Spec

-----------------------------------------------------------------------------
(* C strings.                                                              *)

\* A string whose first NUL is at n + 1, or that has none and length n.
CutAt(s, n) ==
    /\ n \in 0..Len(s)
    /\ \A j \in 1..n : s[j] # NUL
    /\ n < Len(s) => s[n + 1] = NUL

LEMMA CutValue ==
    ASSUME NEW S, NEW s \in Seq(S), NEW n \in Nat, CutAt(s, n)
    PROVE  UpToNul(s) = [i \in 1..n |-> s[i]]
<1>1. DOMAIN s = 1..Len(s) /\ Len(s) \in Nat /\ n <= Len(s)
    BY DEF CutAt
<1>2. ASSUME NEW k \in 1..Len(s), \A j \in 1..k : s[j] # NUL PROVE k \in 1..n
    <2>1. ASSUME k > n PROVE FALSE
        <3>1. n < Len(s) /\ n + 1 \in 1..k
            BY <1>1, <2>1
        <3>. QED
            BY <1>2, <3>1 DEF CutAt
    <2>. QED
        BY <1>1, <2>1
<1>3. ASSUME NEW k \in 1..n PROVE k \in 1..Len(s) /\ \A j \in 1..k : s[j] # NUL
    <2>1. \A j \in 1..k : j \in 1..n
        OBVIOUS
    <2>. QED
        BY <1>1, <2>1 DEF CutAt
<1>4. {k \in DOMAIN s : \A j \in 1..k : s[j] # NUL} = 1..n
    BY <1>1, <1>2, <1>3
<1>. QED
    BY <1>4 DEF UpToNul

\* There is such a place in every string.
LEMMA CutExists ==
    ASSUME NEW S, NEW s \in Seq(S)
    PROVE  \E n \in Nat : CutAt(s, n)
<1> DEFINE Ends == {n \in Nat : n = Len(s) \/ (n < Len(s) /\ s[n + 1] = NUL)}
<1>1. Len(s) \in Nat /\ Len(s) \in Ends
    <2>1. Len(s) \in Nat
        OBVIOUS
    <2>. QED
        BY <2>1
<1>2. PICK n \in Ends : \A k \in Ends : n <= k
    BY <1>1, LeastNatural
<1>3. n \in 0..Len(s)
    OBVIOUS
<1>4. ASSUME NEW j \in 1..n, s[j] = NUL PROVE FALSE
    <2>1. j - 1 \in Nat /\ j - 1 < Len(s) /\ (j - 1) + 1 = j /\ j - 1 < n
        BY <1>3
    <2>2. j - 1 \in Ends
        BY <1>4, <2>1
    <2>. QED
        BY <1>2, <2>1, <2>2
<1>. QED
    BY <1>3, <1>4 DEF CutAt

LEMMA CutIsSequence ==
    ASSUME NEW S, NEW s \in Seq(S)
    PROVE  UpToNul(s) \in Seq(S)
<1>1. PICK n \in Nat : CutAt(s, n)
    BY CutExists
<1>2. UpToNul(s) = [i \in 1..n |-> s[i]]
    BY <1>1, CutValue
<1>3. \A i \in 1..n : s[i] \in S
    BY <1>1 DEF CutAt
<1>. QED
    BY <1>2, <1>3

-----------------------------------------------------------------------------
(* Types, the response included.                                           *)

ResponseBytes == Byte \cup {Junk, "*", "0", "1"} \cup Plain \cup {"B", "J"}

LEMMA ResponseType ==
    ASSUME NEW cmd \in ResponseBytes,
           NEW c1 \in ResponseBytes, NEW c2 \in ResponseBytes, NEW c3 \in ResponseBytes
    PROVE  responseStr(cmd, <<c1, c2, c3>>) \in Seq(ResponseBytes)
<1>1. {"*", "1", "0", NL} \subseteq ResponseBytes
    BY Sizes DEF ResponseBytes
<1>2. <<"*", cmd, "1", "0", c1, c2, c3, NL>> \in Seq(ResponseBytes)
    BY <1>1
<1>. QED
    BY <1>2, CutIsSequence DEF responseStr

LEMMA TypeNext == LineInv /\ TypeOK /\ [Next]_vars => TypeOK'
<1> SUFFICES ASSUME LineInv, TypeOK, [Next]_vars PROVE TypeOK'
    OBVIOUS
<1> USE DEF ResponseBytes
<1>1. \A i \in 0..4 : Seen(i) \subseteq Byte \cup {Junk} /\ buf[i] \in Byte \cup {Junk}
    BY Sizes DEF TypeOK, Seen, Indices
<1>2. ASSUME Answer(resp'), resp' \in Seq(ResponseBytes) PROVE TypeOK'
    BY <1>2 DEF Answer, TypeOK
<1>3. CASE AnswerPlain
    <2>1. PICK cmd \in Plain \cap Seen(1) : Answer(responseStr(cmd, <<"0", "0", "0">>))
        BY <1>3 DEF AnswerPlain
    <2>2. cmd \in ResponseBytes /\ "0" \in ResponseBytes
        OBVIOUS
    <2>. QED
        BY <1>2, <2>1, <2>2, ResponseType DEF Answer
<1>4. CASE AnswerBrightness
    <2>1. buf[2] \in ResponseBytes /\ buf[3] \in ResponseBytes /\ buf[4] \in ResponseBytes /\ "B" \in ResponseBytes
        BY <1>1
    <2>. QED
        BY <1>2, <1>4, <2>1, ResponseType DEF AnswerBrightness, Answer
<1>5. CASE AnswerLevel
    <2>1. "J" \in ResponseBytes /\ "0" \in ResponseBytes /\ NUL \in ResponseBytes
        BY Sizes
    <2>. QED
        BY <1>2, <1>5, <2>1, ResponseType DEF AnswerLevel, Answer
<1>6. CASE NoAnswer
    BY <1>2, <1>6 DEF NoAnswer, Answer, None
<1>7. CASE StartLine
    <2>1. last' \in Seq(Byte \ {NL})
        BY <1>7, StartLineKeeps DEF LineInv, Types
    <2>. QED
        BY <1>7, <2>1, Sizes DEF StartLine, TypeOK, None
<1>8. CASE ReadNewline
    BY <1>8, Sizes DEF ReadNewline, TypeOK
<1>9. ASSUME NEW c \in Byte, ReadByte(c) PROVE TypeOK'
    <2>1. LineInv'
        BY <1>9, ReadByteKeeps
    <2>2. p' \in 0..Size - 1 /\ rem' \in 0..Size - 1
        BY <1>9, Sizes DEF LineInv, Types, StoresInside, ReadByte
    <2>3. resp' = resp
        BY <1>9 DEF ReadByte
    <2>. QED
        BY <2>1, <2>2, <2>3 DEF TypeOK, LineInv, Types
<1>10. CASE ReadError \/ StoppedByRuntime \/ Quit
    BY <1>10 DEF ReadError, StoppedByRuntime, Quit, TypeOK
<1>11. CASE NewClient
    <2>1. clean' \in BOOLEAN
        BY Zenon, <1>11 DEF NewClient
    <2>. QED
        BY <1>11, <2>1 DEF NewClient, TypeOK
<1>12. CASE UNCHANGED vars
    BY <1>12 DEF vars, TypeOK
<1>. QED
    BY <1>3, <1>4, <1>5, <1>6, <1>7, <1>8, <1>9, <1>10, <1>11, <1>12 DEF Next

\* Everything stays in range, above all the response: cut at its first NUL, it
\* is a string again, of the bytes a client or the emulator may have put there.
THEOREM CommandLineTypes == Spec => []TypeOK
<1>1. Init => TypeOK
    BY Sizes DEF Init, TypeOK, None
<1>. QED
    BY <1>1, TypeNext, LineInvariance, PTL DEF Spec

-----------------------------------------------------------------------------
(* What B echoes.                                                          *)

\* A sequence but for its first two elements.
LEMMA BehindTwo ==
    ASSUME NEW S, NEW s \in Seq(S), NEW n \in Nat, n = Len(s), n >= 2
    PROVE  LET t == SubSeq(s, 3, n)
           IN  /\ t \in Seq(S) /\ Len(t) = n - 2 /\ n - 2 \in Nat
               /\ \A i \in 1..n - 2 : t[i] = s[i + 2]
OBVIOUS

\* The data of the line: what follows its command byte.
LEMMA DataOfLine ==
    ASSUME LineInv, pc = "dispatch", clean, Len(LineInBuffer) >= 2, LineInBuffer # <<>>
    PROVE  LET data == SubSeq(LineInBuffer, 3, Len(LineInBuffer))
           IN  /\ data \in Seq(Byte)
               /\ Len(data) = Len(LineInBuffer) - 2 /\ Len(data) \in Nat
               /\ \A i \in 1..Len(data) : data[i] = buf[i + 1]
               /\ Len(data) < 3 => buf[Len(data) + 2] = NUL
<1> DEFINE line == LineInBuffer
           n == Len(line)
           data == SubSeq(line, 3, n)
<1>1. Kept(line) /\ n \in Nat /\ n >= 2 /\ line \in Seq(Byte)
    BY LineIsKept
<1> HIDE DEF line
<1>2. data \in Seq(Byte) /\ Len(data) = n - 2 /\ n - 2 \in Nat
      /\ \A i \in 1..n - 2 : data[i] = line[i + 2]
    BY <1>1, BehindTwo, Zenon
<1>3. ASSUME NEW i \in 1..n - 2 PROVE line[i + 2] = buf[i + 1]
    <2>1. i + 2 \in 2..n /\ (i + 2) - 1 = i + 1
        BY <1>1, <1>2
    <2>. QED
        BY <1>1, <2>1 DEF Kept
<1>4. n - 2 < 3 => buf[n] = NUL
    BY <1>1, Sizes DEF Kept
<1>5. (n - 2) + 2 = n
    BY <1>1
<1>. QED
    BY <1>2, <1>3, <1>4, <1>5 DEF line

LEMMA EchoOfLine ==
    ASSUME LineInv, pc = "dispatch", clean, Len(LineInBuffer) >= 2, LineInBuffer # <<>>
    PROVE  LET data == UpToNul(SubSeq(LineInBuffer, 3, Len(LineInBuffer)))
           IN  responseStr("B", <<buf[2], buf[3], buf[4]>>) =
                   <<"*", "B", "1", "0">> \o
                   (IF Len(data) < 3 THEN data ELSE <<data[1], data[2], data[3], NL>>)
<1> DEFINE line == SubSeq(LineInBuffer, 3, Len(LineInBuffer))
           data == UpToNul(line)
           r == <<"*", "B", "1", "0", buf[2], buf[3], buf[4], NL>>
<1>1. /\ line \in Seq(Byte) /\ Len(line) \in Nat
      /\ \A i \in 1..Len(line) : line[i] = buf[i + 1]
      /\ Len(line) < 3 => buf[Len(line) + 2] = NUL
    BY DataOfLine
<1> SUFFICES UpToNul(r) = <<"*", "B", "1", "0">> \o
                 (IF Len(data) < 3 THEN data ELSE <<data[1], data[2], data[3], NL>>)
    BY DEF responseStr
<1> HIDE DEF line
<1>2. PICK n \in Nat : CutAt(line, n)
    BY <1>1, CutExists
<1>3. data = [i \in 1..n |-> line[i]] /\ n <= Len(line)
    <2>1. data = [i \in 1..n |-> line[i]]
        BY Zenon, <1>1, <1>2, CutValue
    <2>. QED
        BY <1>1, <1>2, <2>1 DEF CutAt
<1>4. Len(data) = n /\ \A i \in 1..n : data[i] = buf[i + 1] /\ buf[i + 1] # NUL
    <2>1. \A i \in 1..n : line[i] = buf[i + 1] /\ line[i] # NUL
        BY <1>1, <1>2, <1>3 DEF CutAt
    <2> HIDE DEF data
    <2>2. Len(data) = n
        BY <1>3
    <2>. QED
        BY <1>3, <2>1, <2>2
<1>5. data \in Seq(Byte)
    BY <1>1, CutIsSequence
<1>6. n < 3 => buf[n + 2] = NUL
    <2>1. CASE n < Len(line)
        <3>1. n + 1 \in 1..Len(line) /\ (n + 1) + 1 = n + 2
            BY <1>1, <2>1
        <3>. QED
            BY <1>1, <1>2, <2>1, <3>1 DEF CutAt
    <2>2. CASE n = Len(line)
        BY <1>1, <2>2
    <2>. QED
        BY <1>1, <1>3, <2>1, <2>2
<1> HIDE DEF data
<1> DEFINE A == Byte \cup {"*", "B", "1", "0", buf[2], buf[3], buf[4], NL}
<1>7. r \in Seq(A) /\ Len(r) = 8
    OBVIOUS
<1>8. "*" # NUL /\ "B" # NUL /\ "1" # NUL /\ "0" # NUL /\ NL # NUL
    BY DEF NUL, NL
<1>9. CASE n < 3
    <2>1. CutAt(r, n + 4)
        BY <1>4, <1>6, <1>8, <1>9 DEF CutAt
    <2>2. n + 4 \in Nat
        OBVIOUS
    <2>3. UpToNul(r) = [i \in 1..n + 4 |-> r[i]]
        BY Zenon, <1>7, <2>1, <2>2, CutValue
    <2>4. [i \in 1..n + 4 |-> r[i]] = <<"*", "B", "1", "0">> \o data
        BY <1>4, <1>5, <1>9
    <2>. QED
        BY <1>4, <1>9, <2>3, <2>4
<1>10. CASE n >= 3
    <2>1. CutAt(r, 8)
        BY <1>4, <1>7, <1>8, <1>10 DEF CutAt
    <2>2. UpToNul(r) = [i \in 1..8 |-> r[i]]
        BY <1>7, <2>1, CutValue
    <2>3. [i \in 1..8 |-> r[i]] = <<"*", "B", "1", "0">> \o <<data[1], data[2], data[3], NL>>
        BY <1>4, <1>10
    <2>4. ~(Len(data) < 3)
        BY <1>4, <1>10
    <2>. QED
        BY Zenon, <2>2, <2>3, <2>4
<1>11. n < 3 \/ n >= 3
    OBVIOUS
<1>. QED
    BY Zenon, <1>9, <1>10, <1>11

LEMMA EchoesNext == LineInv /\ EchoesItsLine /\ [Next]_vars => EchoesItsLine'
<1> SUFFICES ASSUME LineInv, EchoesItsLine, [Next]_vars PROVE EchoesItsLine'
    OBVIOUS
<1>1. CASE AnswerPlain
    <2>1. PICK cmd \in Plain \cap Seen(1) : Answer(responseStr(cmd, <<"0", "0", "0">>))
        BY <1>1 DEF AnswerPlain
    <2>2. cmd # NUL /\ cmd # "B"
        BY DEF Plain, NUL
    <2>3. resp'[2] # "B"
        BY <2>1, <2>2, ResponseCommand DEF Answer
    <2>. QED
        BY <2>3 DEF EchoesItsLine
<1>2. CASE AnswerBrightness
    <2>1. "B" # NUL /\ "B" \in Seen(1) /\ pc = "dispatch"
        BY <1>2 DEF AnswerBrightness, NUL
    <2>2. LineInBuffer' = LineInBuffer /\ clean' = clean
          /\ resp' = responseStr("B", <<buf[2], buf[3], buf[4]>>)
        BY <1>2 DEF AnswerBrightness, Answer, LineInBuffer
    <2> SUFFICES ASSUME clean, LineInBuffer # <<>> PROVE EchoesItsLine'
        BY <2>2 DEF EchoesItsLine
    <2>3. Len(LineInBuffer) >= 2
        BY <2>1, CommandSeen
    <2>. QED
        BY <2>1, <2>2, <2>3, EchoOfLine DEF EchoesItsLine
<1>3. CASE AnswerLevel
    <2>1. "J" # NUL /\ "J" # "B"
        BY DEF NUL
    <2>2. resp'[2] # "B"
        BY <1>3, <2>1, ResponseCommand DEF AnswerLevel, Answer
    <2>. QED
        BY <2>2 DEF EchoesItsLine
<1>4. CASE NoAnswer \/ StartLine
    <2>1. resp' = None
        BY <1>4 DEF NoAnswer, Answer, StartLine
    <2>. QED
        BY <2>1 DEF EchoesItsLine
<1>5. CASE ReadNewline \/ ReadError \/ StoppedByRuntime \/ Quit \/ NewClient
    <2>1. pc' # "top"
        BY <1>5 DEF ReadNewline, ReadError, StoppedByRuntime, Quit, NewClient
    <2>. QED
        BY <2>1 DEF EchoesItsLine
<1>6. ASSUME NEW c \in Byte, ReadByte(c) PROVE EchoesItsLine'
    <2>1. pc' # "top"
        BY <1>6 DEF ReadByte
    <2>. QED
        BY <2>1 DEF EchoesItsLine
<1>7. CASE UNCHANGED vars
    BY <1>7 DEF vars, EchoesItsLine, LineInBuffer
<1>. QED
    BY <1>1, <1>2, <1>3, <1>4, <1>5, <1>6, <1>7 DEF Next

\* B echoes nothing but the line it answers, for every buffer size, line and
\* history, although nobody tells responseStr() how long the line is; an empty
\* line is answered with the bytes of the last that was not (emu.cpp:201).
THEOREM LineEchoed == Spec => []EchoesItsLine
<1>1. Init => EchoesItsLine
    BY DEF Init, EchoesItsLine
<1>. QED
    BY <1>1, EchoesNext, LineInvariance, PTL DEF Spec
=============================================================================
