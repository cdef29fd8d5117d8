-------------------------- MODULE SerialPortProofs --------------------------
(***************************************************************************)
(* The serial port, proved for any number of responses, any room in the    *)
(* client's buffer and any failures, a failing flush included: strings     *)
(* outlive their writes unless the flush failed, what Write() returns true *)
(* for has arrived, responses keep their order, one write runs at a time,  *)
(* and nothing is held once the program has ended.                         *)
(***************************************************************************)
EXTENDS SerialPort, SequenceTheorems, TLAPS

Values == Numbers \cup {Freed}

\* The steps, by what they change.
OpenOrClose == Opening \/ ReadFails \/ Close
ClientSteps == StopReading \/ StopSending \/ IdleTimeout
OtherSteps == Opening \/ ReadFails \/ ClientSteps

\* What the writer, the driver and the client do not change while the port is
\* opened, a read fails, the panel is disconnected or the client stops.
LEMMA Aside ==
    ASSUME OtherSteps
    PROVE  /\ UNCHANGED <<buffer, ov, driver, peer, received, sent, unflushed, count>>
           /\ (pc' \notin InWrite /\ pc \notin InWrite) \/ pc' = pc
<1>1. CASE Opening
    BY <1>1 DEF Opening, CreateFile, SetCommState, CreateEvents, SetCommTimeouts,
                SetupComm, io, data, InWrite
<1>2. CASE ReadFails
    BY <1>2 DEF ReadFails, io, data, InWrite
<1>3. CASE ClientSteps
    BY <1>3 DEF ClientSteps, StopReading, StopSending, IdleTimeout, io, data
<1>. QED
    BY <1>1, <1>2, <1>3 DEF OtherSteps

LEMMA NextSplits ==
    ASSUME [Next]_vars
    PROVE  \/ OtherSteps \/ Close
           \/ Request \/ Check \/ WriteFile \/ Flush \/ FlushFails
           \/ HandOver \/ WriteEndsInError \/ ClientReads
           \/ UNCHANGED vars
BY DEF Next, Writing, OtherSteps, ClientSteps

-----------------------------------------------------------------------------
(* The handles.                                                            *)

\* The file is the first handle to be opened and the one Close() looks at,
\* and the loop, which connects the panel, comes after it.
FileIsHeld ==
    /\ pc = "create" => open = {} /\ ~connected
    /\ open # {} => "file" \in open
    /\ pc \in InWrite \cup {"state", "events", "timeouts", "queues", "read"} => "file" \in open
    /\ pc = "exit" => open = {} /\ ~connected /\ driver = Freed
    /\ driver # Freed => "file" \in open /\ pc \in InWrite \cup {"read", "close"}

LEMMA NextKeepsFile == FileIsHeld /\ [Next]_vars => FileIsHeld'
<1> SUFFICES ASSUME FileIsHeld, [Next]_vars PROVE FileIsHeld'
    OBVIOUS
<1> USE DEF InWrite
<1>1. CASE CreateFile \/ SetCommState
    BY <1>1 DEF CreateFile, SetCommState, io, FileIsHeld
<1>2. CASE CreateEvents
    BY <1>2 DEF CreateEvents, io, FileIsHeld
<1>3. CASE SetCommTimeouts \/ SetupComm
    BY <1>3 DEF SetCommTimeouts, SetupComm, io, FileIsHeld
<1>4. CASE ReadFails \/ Close
    BY <1>4 DEF ReadFails, Close, CancelWrite, io, FileIsHeld
<1>5. CASE Request \/ IdleTimeout
    BY <1>5 DEF Request, IdleTimeout, io, FileIsHeld
<1>6. CASE Check \/ WriteFile \/ Flush \/ FlushFails
    BY <1>6 DEF Check, WriteFile, Flush, FlushFails, Return, FileIsHeld
<1>7. CASE HandOver \/ WriteEndsInError
    BY <1>7 DEF HandOver, WriteEndsInError, FileIsHeld
<1>8. CASE ClientReads \/ StopReading \/ StopSending
    BY <1>8 DEF ClientReads, StopReading, StopSending, FileIsHeld
<1>9. CASE UNCHANGED vars
    BY <1>9 DEF vars, FileIsHeld
<1>. QED
    BY <1>1, <1>2, <1>3, <1>4, <1>5, <1>6, <1>7, <1>8, <1>9
    DEF Next, Opening, Writing

\* Whatever fails, and wherever, the program ends without handles and without
\* the panel (serialport.cpp:62-76, 119-262, emu.cpp:106-116, 135-138).
THEOREM ReleasesAll == Spec => []ReleasedAtExit
<1>1. Init => FileIsHeld
    BY DEF Init, FileIsHeld, InWrite
<1>2. FileIsHeld => ReleasedAtExit
    BY DEF FileIsHeld, ReleasedAtExit
<1>. QED
    BY <1>1, <1>2, NextKeepsFile, PTL DEF Spec

-----------------------------------------------------------------------------
(* What arrives.                                                           *)

Increasing(s) == \A i, j \in 1..Len(s) : i < j => s[i] < s[j]
Below(s, n) == \A i \in 1..Len(s) : s[i] < n

\* The responses WriteFile() has taken: those reported as written and the one
\* that is being flushed.
Taken == IF pc = "flush" THEN Append(sent, buffer) ELSE sent

\* What was taken has arrived, but for the last: the driver is still at it, in
\* the flush or because the flush failed, or it is lost and m_ov_wr tells.
UnderWay ==
    /\ driver # Freed =>
          /\ ov = "pending" /\ pc # "write"
          /\ Len(Taken) = Len(Arrived) + 1 /\ driver = Taken[Len(Taken)]
          /\ pc # "flush" => driver \in unflushed
    /\ driver = Freed =>
          \/ Len(Taken) = Len(Arrived)
          \/ ov = "error" /\ Len(Taken) = Len(Arrived) + 1
    /\ pc = "write" => ov = "done"

\* Each arrived as it was taken, or garbled if its flush failed.
Matching ==
    \A i \in 1..Len(Arrived) :
        \/ Arrived[i] = Taken[i]
        \/ Arrived[i] = Freed /\ Taken[i] \in unflushed

\* The response being written is the newest, and younger than what was taken.
Newest ==
    /\ pc \in InWrite => buffer = count /\ buffer \in Numbers
    /\ pc \notin InWrite => buffer = Freed
    /\ Below(Taken, count + 1)
    /\ pc \in {"check", "write"} => Below(Taken, count)

Ordered == UnderWay /\ Matching /\ Newest /\ Increasing(Taken)

PortInv == TypeOK /\ Ordered

LEMMA Appends ==
    ASSUME NEW S, NEW s \in Seq(S), NEW n \in S
    PROVE  /\ Append(s, n) \in Seq(S)
           /\ Len(Append(s, n)) = Len(s) + 1
           /\ \A i \in 1..Len(s) : Append(s, n)[i] = s[i]
           /\ Append(s, n)[Len(s) + 1] = n
OBVIOUS

LEMMA NumbersInside ==
    ASSUME NEW s \in Seq(Numbers)
    PROVE  \A i \in 1..Len(s) : s[i] \in Int
<1>1. \A i \in 1..Len(s) : s[i] \in Numbers
    BY ElementOfSeq
<1>. QED
    BY <1>1 DEF Numbers

\* The client moves a response from one sequence to the other.
LEMMA ReadKeepsArrived ==
    ASSUME NEW r \in Seq(Values), NEW p \in Seq(Values), p # <<>>
    PROVE  Append(r, Head(p)) \o Tail(p) = r \o p
<1>1. Append(r, Head(p)) \in Seq(Values) /\ Tail(p) \in Seq(Values)
    BY HeadTailProperties
<1>2. Len(Append(r, Head(p)) \o Tail(p)) = Len(r \o p)
    BY <1>1, HeadTailProperties, ConcatProperties
<1>3. ASSUME NEW i \in 1..Len(r \o p)
      PROVE  (Append(r, Head(p)) \o Tail(p))[i] = (r \o p)[i]
    BY <1>1, HeadTailProperties, ConcatProperties
<1>. QED
    BY <1>1, <1>2, <1>3, ConcatProperties, SeqEqual

LEMMA HandOverAppends ==
    ASSUME NEW r \in Seq(Values), NEW p \in Seq(Values), NEW n \in Values
    PROVE  r \o Append(p, n) = Append(r \o p, n)
<1>1. r \o Append(p, n) \in Seq(Values) /\ Append(r \o p, n) \in Seq(Values)
    BY ConcatProperties
<1>2. Len(r \o Append(p, n)) = Len(Append(r \o p, n))
    BY ConcatProperties
<1>3. ASSUME NEW i \in 1..Len(r \o Append(p, n))
      PROVE  (r \o Append(p, n))[i] = Append(r \o p, n)[i]
    <2>1. r \o p \in Seq(Values) /\ Len(r \o p) = Len(r) + Len(p)
        BY ConcatProperties
    <2>2. Append(p, n) \in Seq(Values) /\ Len(Append(p, n)) = Len(p) + 1
        BY Appends
    <2>3. i \in 1..(Len(r) + Len(p) + 1)
        BY <2>2, ConcatProperties
    <2>4. (r \o Append(p, n))[i] = IF i <= Len(r) THEN r[i] ELSE Append(p, n)[i - Len(r)]
        BY <2>2, <2>3, ConcatProperties
    <2>5. CASE i <= Len(r) + Len(p)
        <3>1. Append(r \o p, n)[i] = (r \o p)[i]
            BY <2>1, <2>3, <2>5, Appends
        <3>2. (r \o p)[i] = IF i <= Len(r) THEN r[i] ELSE p[i - Len(r)]
            BY <2>3, <2>5, ConcatProperties
        <3>3. i > Len(r) => Append(p, n)[i - Len(r)] = p[i - Len(r)]
            <4> SUFFICES ASSUME i > Len(r) PROVE Append(p, n)[i - Len(r)] = p[i - Len(r)]
                OBVIOUS
            <4>1. i - Len(r) \in 1..Len(p)
                BY <2>3, <2>5
            <4>. QED
                BY <4>1, Appends
        <3>. QED
            BY <2>3, <2>4, <3>1, <3>2, <3>3
    <2>6. CASE i = Len(r) + Len(p) + 1
        <3>1. Append(r \o p, n)[i] = n
            BY <2>1, <2>6, Appends
        <3>2. ~(i <= Len(r)) /\ i - Len(r) = Len(p) + 1
            BY <2>6
        <3>. QED
            BY <2>4, <3>1, <3>2, Appends
    <2>. QED
        BY <2>3, <2>5, <2>6
<1>. QED
    BY <1>1, <1>2, <1>3, SeqEqual

LEMMA AppendIncreases ==
    ASSUME NEW s \in Seq(Numbers), NEW n \in Numbers, Increasing(s), Below(s, n)
    PROVE  Increasing(Append(s, n)) /\ Below(Append(s, n), n + 1)
<1> DEFINE t == Append(s, n)
<1>1. /\ Len(t) = Len(s) + 1
      /\ \A i \in 1..Len(s) : t[i] = s[i] /\ s[i] \in Int /\ s[i] < n
      /\ t[Len(s) + 1] = n
    <2>1. \A i \in 1..Len(s) : s[i] \in Int
        BY NumbersInside
    <2>. QED
        BY <2>1, Appends DEF Below
<1>2. Len(s) \in Nat /\ n \in Int
    BY DEF Numbers
<1>3. \A i \in 1..Len(t) : i \in 1..Len(s) \/ i = Len(s) + 1
    BY <1>1, <1>2
<1> HIDE DEF t
<1>4. Below(t, n + 1)
    BY <1>1, <1>2, <1>3 DEF Below
<1>5. ASSUME NEW i \in 1..Len(t), NEW j \in 1..Len(t), i < j
      PROVE  t[i] < t[j]
    <2>1. i \in 1..Len(s)
        BY <1>1, <1>2, <1>5
    <2>2. CASE j \in 1..Len(s)
        BY <1>1, <1>5, <2>1, <2>2 DEF Increasing
    <2>3. CASE j = Len(s) + 1
        BY <1>1, <2>1, <2>3
    <2>. QED
        BY <1>3, <2>2, <2>3
<1>. QED
    BY <1>4, <1>5 DEF Increasing, t


LEMMA ArrivedIsSeq == TypeOK => Arrived \in Seq(Values)
BY ConcatProperties DEF TypeOK, Arrived, Values

LEMMA TakenIsSeq == TypeOK /\ Newest => Taken \in Seq(Numbers)
<1> SUFFICES ASSUME TypeOK, Newest PROVE Taken \in Seq(Numbers)
    OBVIOUS
<1>1. CASE pc = "flush"
    BY <1>1, Appends DEF TypeOK, Newest, InWrite, Taken
<1>2. CASE pc # "flush"
    BY <1>2 DEF TypeOK, Taken
<1>. QED
    BY <1>1, <1>2

LEMMA InitOrdered == Init => PortInv
<1> SUFFICES ASSUME Init PROVE PortInv
    OBVIOUS
<1>1. Arrived = <<>> /\ Taken = <<>>
    BY ConcatEmptySeq DEF Init, Arrived, Taken
<1>2. TypeOK
    <2>1. <<>> \in Seq(Numbers) /\ <<>> \in Seq(Values) /\ Len(<<>>) <= Room
        BY EmptySeq, SerialAssumption
    <2>2. 0 \in 0..MaxResponses
        BY SerialAssumption
    <2>. QED
        BY <2>1, <2>2 DEF Init, TypeOK, Values
<1>3. Ordered
    BY <1>1 DEF Init, Ordered, UnderWay, Matching, Newest, InWrite, Below, Increasing
<1>. QED
    BY <1>2, <1>3 DEF PortInv

LEMMA TypeKept == TypeOK /\ Newest /\ [Next]_vars => TypeOK'
<1> SUFFICES ASSUME TypeOK, Newest, [Next]_vars PROVE TypeOK'
    OBVIOUS
<1>1. CASE OtherSteps
    <2>1. CASE Opening
        BY <2>1 DEF Opening, CreateFile, SetCommState, CreateEvents, SetCommTimeouts,
                    SetupComm, io, data, TypeOK
    <2>2. CASE ReadFails
        BY <2>2 DEF ReadFails, io, data, TypeOK
    <2>3. CASE ClientSteps
        BY <2>3 DEF ClientSteps, StopReading, StopSending, IdleTimeout, io, data, TypeOK
    <2>. QED
        BY <1>1, <2>1, <2>2, <2>3 DEF OtherSteps
<1>2. CASE Close
    BY <1>2 DEF Close, CancelWrite, data, TypeOK
<1>3. CASE Request
    BY <1>3, SerialAssumption DEF Request, TypeOK, Numbers
<1>4. CASE Check
    BY <1>4 DEF Check, Return, data, TypeOK
<1>5. CASE WriteFile
    BY <1>5 DEF WriteFile, Return, data, TypeOK
<1>6. CASE Flush \/ FlushFails
    <2>1. buffer \in Numbers
        BY <1>6 DEF Flush, FlushFails, Newest, InWrite
    <2>2. sent' = Append(sent, buffer) /\ sent \in Seq(Numbers)
        BY <1>6 DEF Flush, FlushFails, Return, TypeOK
    <2>3. sent' \in Seq(Numbers)
        BY <2>1, <2>2, Appends
    <2>. QED
        BY <1>6, <2>1, <2>3 DEF Flush, FlushFails, Return, TypeOK
<1>7. CASE HandOver
    <2>1. PICK bytes \in Bytes : peer' = Append(peer, bytes)
        BY <1>7 DEF HandOver
    <2>2. bytes \in Values
        BY <2>1 DEF Bytes, TypeOK, Values
    <2>3. peer' \in Seq(Values) /\ Len(peer') <= Room
        BY <1>7, <2>1, <2>2, Appends, SerialAssumption DEF HandOver, TypeOK, Values
    <2>. QED
        BY <1>7, <2>3 DEF HandOver, TypeOK, Values
<1>8. CASE WriteEndsInError
    BY <1>8 DEF WriteEndsInError, data, TypeOK
<1>9. CASE ClientReads
    <2>1. Head(peer) \in Values /\ Tail(peer) \in Seq(Values) /\ Len(Tail(peer)) = Len(peer) - 1
        BY <1>9, HeadTailProperties DEF ClientReads, TypeOK, Values
    <2>2. received' \in Seq(Values)
        BY <1>9, <2>1, Appends DEF ClientReads, TypeOK, Values
    <2>3. Len(peer') <= Room
        BY <1>9, <2>1, SerialAssumption DEF ClientReads, TypeOK
    <2>. QED
        BY <1>9, <2>1, <2>2, <2>3 DEF ClientReads, TypeOK, Values
<1>10. CASE UNCHANGED vars
    BY <1>10 DEF vars, TypeOK
<1>. QED
    BY <1>1, <1>2, <1>3, <1>4, <1>5, <1>6, <1>7, <1>8, <1>9, <1>10, NextSplits

\* A step that leaves what arrived and what was taken alone keeps the order.
LEMMA OrderUntouched ==
    ASSUME Ordered, UNCHANGED <<buffer, ov, driver, sent, unflushed, count>>,
           Arrived' = Arrived,
           (pc' \notin InWrite /\ pc \notin InWrite) \/ pc' = pc
    PROVE  Ordered'
<1>1. Taken' = Taken
    BY DEF Taken, InWrite
<1>. QED
    BY <1>1 DEF Ordered, UnderWay, Matching, Newest, Increasing, Below, InWrite

LEMMA CountIsAbove ==
    ASSUME TypeOK, Newest
    PROVE  /\ Below(Taken, count + 1)
           /\ Below(Taken, count + 2)
<1>1. \A i \in 1..Len(Taken) : Taken[i] \in Int
    BY TakenIsSeq, NumbersInside
<1>. QED
    BY <1>1 DEF Below, Newest, TypeOK

LEMMA NextKeepsOrder == PortInv /\ [Next]_vars => Ordered'
<1> SUFFICES ASSUME PortInv, [Next]_vars PROVE Ordered'
    OBVIOUS
<1> USE DEF PortInv
<1>1. CASE OtherSteps \/ UNCHANGED vars
    <2>1. Arrived' = Arrived
        BY <1>1, Aside DEF Arrived, vars
    <2>. QED
        BY <1>1, <2>1, Aside, OrderUntouched DEF vars
<1>2. CASE ClientReads
    <2>1. Arrived' = Arrived
        BY <1>2, ReadKeepsArrived DEF ClientReads, Arrived, TypeOK, Values
    <2>. QED
        BY <1>2, <2>1, OrderUntouched DEF ClientReads
<1>3. CASE Close \/ WriteEndsInError
    <2>1. Arrived' = Arrived /\ UNCHANGED <<buffer, sent, unflushed, count>>
        BY <1>3 DEF Close, WriteEndsInError, Arrived, data
    <2>2. (pc = "close" /\ pc' = "exit") \/ pc' = pc
        BY <1>3 DEF Close, WriteEndsInError
    <2>3. Taken' = Taken
        BY <2>1, <2>2 DEF Taken
    <2>4. \/ driver' = driver /\ ov' = ov
          \/ driver = Freed /\ driver' = Freed /\ ov' = ov
          \/ driver # Freed /\ driver' = Freed /\ ov' = "error"
        BY <1>3 DEF Close, CancelWrite, WriteEndsInError
    <2>5. UnderWay'
        BY <2>1, <2>2, <2>3, <2>4 DEF Ordered, UnderWay
    <2>. QED
        BY <2>1, <2>2, <2>3, <2>5 DEF Ordered, Matching, Newest, Increasing, Below, InWrite
<1>4. CASE Request
    <2>1. Arrived' = Arrived /\ Taken' = Taken /\ UNCHANGED <<ov, driver, sent, unflushed>>
        BY <1>4 DEF Request, Arrived, Taken
    <2>2. pc = "read" /\ pc' = "check"
        BY <1>4 DEF Request
    <2>3. count' = count + 1 /\ buffer' = count' /\ buffer' \in Numbers
        <3>1. count' = count + 1 /\ buffer' = count' /\ count < MaxResponses
            BY <1>4 DEF Request
        <3>2. count + 1 \in Numbers
            BY <3>1, SerialAssumption DEF TypeOK, Numbers
        <3>. QED
            BY <3>1, <3>2
    <2>4. Below(Taken', count') /\ Below(Taken', count' + 1)
        <3>1. count + 1 + 1 = count + 2
            BY DEF TypeOK
        <3>. QED
            BY <2>1, <2>3, <3>1, CountIsAbove DEF Ordered
    <2>5. Newest'
        BY <2>2, <2>3, <2>4 DEF Newest, InWrite
    <2>. QED
        BY <2>1, <2>2, <2>5 DEF Ordered, UnderWay, Matching, Increasing
<1>5. CASE Check
    <2>1. Arrived' = Arrived /\ Taken' = Taken /\ UNCHANGED <<ov, driver, sent, unflushed, count>>
        BY <1>5 DEF Check, Return, data, Arrived, Taken
    <2>2. /\ pc = "check"
          /\ \/ pc' = "write" /\ ov = "done" /\ buffer' = buffer
             \/ pc' = "read" /\ buffer' = Freed
        BY <1>5 DEF Check, Return, data
    <2>3. UnderWay'
        BY <2>1, <2>2 DEF Ordered, UnderWay
    <2>4. Newest'
        BY <2>1, <2>2 DEF Ordered, Newest, InWrite, Below
    <2>. QED
        BY <2>1, <2>3, <2>4 DEF Ordered, Matching, Increasing
<1>6. CASE WriteFile
    <2>1. /\ pc = "write" /\ ov = "done" /\ driver = Freed
          /\ Taken = sent /\ Len(sent) = Len(Arrived)
          /\ buffer = count /\ buffer \in Numbers
          /\ sent \in Seq(Numbers) /\ Below(sent, count) /\ Increasing(sent)
        BY <1>6 DEF WriteFile, Ordered, UnderWay, Newest, InWrite, Taken, TypeOK
    <2>2. Arrived' = Arrived /\ sent' = sent /\ count' = count /\ unflushed' = unflushed
        BY <1>6 DEF WriteFile, Return, data, Arrived
    <2>3. CASE pc' = "flush"
        <3>1. driver' = buffer /\ buffer' = buffer /\ ov' = "pending"
            BY <1>6, <2>3 DEF WriteFile, Return, data
        <3>2. Taken' = Append(sent, buffer)
            BY <2>2, <2>3, <3>1 DEF Taken
        <3>3. /\ Taken'[Len(Taken')] = buffer /\ Len(Taken') = Len(Arrived) + 1
              /\ \A i \in 1..Len(Arrived) : Taken'[i] = Taken[i]
            BY <2>1, <3>2, Appends
        <3>4. Increasing(Taken') /\ Below(Taken', count + 1)
            BY <2>1, <3>2, AppendIncreases
        <3>5. UnderWay'
            BY <2>1, <2>2, <2>3, <3>1, <3>3 DEF UnderWay, Numbers, Freed
        <3>6. Matching'
            BY <2>2, <3>3 DEF Ordered, Matching
        <3>7. Newest'
            BY <2>1, <2>2, <2>3, <3>1, <3>4 DEF Newest, InWrite
        <3>. QED
            BY <3>4, <3>5, <3>6, <3>7 DEF Ordered
    <2>4. CASE pc' # "flush"
        <3>1. pc' = "read" /\ driver' = Freed /\ buffer' = Freed
            BY <1>6, <2>4 DEF WriteFile, Return, data
        <3>2. Taken' = sent
            BY <2>2, <3>1 DEF Taken
        <3>3. UnderWay'
            BY <2>1, <2>2, <3>1, <3>2 DEF UnderWay
        <3>4. Newest' /\ Matching' /\ Increasing(Taken')
            BY <2>1, <2>2, <3>1, <3>2 DEF Ordered, Newest, Matching, InWrite
        <3>. QED
            BY <3>3, <3>4 DEF Ordered
    <2>. QED
        BY <2>3, <2>4
<1>7. CASE Flush \/ FlushFails
    <2>1. pc = "flush" /\ pc' = "read" /\ buffer' = Freed /\ sent' = Append(sent, buffer)
        BY <1>7 DEF Flush, FlushFails, Return
    <2>2. Arrived' = Arrived /\ Taken' = Taken /\ UNCHANGED <<ov, driver, count>>
        BY <1>7, <2>1 DEF Flush, FlushFails, Return, Arrived, Taken
    <2>3. unflushed \subseteq unflushed'
        BY <1>7 DEF Flush, FlushFails
    <2>4. driver # Freed => driver = buffer /\ buffer \in unflushed'
        <3>1. Taken[Len(Taken)] = buffer
            <4>1. buffer \in Numbers /\ sent \in Seq(Numbers)
                BY <2>1 DEF Ordered, Newest, InWrite, TypeOK
            <4>2. Taken = Append(sent, buffer)
                BY <2>1 DEF Taken
            <4>. QED
                BY <4>1, <4>2, Appends
        <3>. QED
            BY <1>7, <3>1 DEF Flush, FlushFails, Ordered, UnderWay
    <2>5. UnderWay'
        BY <2>1, <2>2, <2>4 DEF Ordered, UnderWay
    <2>6. Matching'
        BY <2>2, <2>3 DEF Ordered, Matching
    <2>. QED
        BY <2>1, <2>2, <2>5, <2>6 DEF Ordered, Newest, InWrite, Increasing
<1>8. CASE HandOver
    <2>1. driver # Freed /\ driver \in Numbers /\ driver' = Freed
        BY <1>8 DEF HandOver, TypeOK
    <2>2. PICK bytes \in Bytes : peer' = Append(peer, bytes)
        BY <1>8 DEF HandOver
    <2>3. UNCHANGED <<pc, buffer, sent, unflushed, count>>
        BY <1>8 DEF HandOver
    <2>4. Taken' = Taken
        BY <2>3 DEF Taken
    <2>5. Arrived' = Append(Arrived, bytes) /\ bytes \in Values
        BY <1>8, <2>1, <2>2, HandOverAppends DEF HandOver, Arrived, TypeOK, Values, Bytes
    <2>6. /\ Len(Arrived') = Len(Arrived) + 1
          /\ \A i \in 1..Len(Arrived) : Arrived'[i] = Arrived[i]
          /\ Arrived'[Len(Arrived) + 1] = bytes
        BY <2>5, ArrivedIsSeq, Appends
    <2>7. Len(Taken) = Len(Arrived) + 1 /\ driver = Taken[Len(Arrived) + 1]
        BY <2>1 DEF Ordered, UnderWay
    <2>8. UnderWay'
        BY <2>1, <2>3, <2>4, <2>6, <2>7 DEF Ordered, UnderWay
    <2>9. bytes = driver \/ (bytes = Freed /\ driver \in unflushed)
        <3>1. CASE pc = "flush"
            <4>1. buffer \in Numbers /\ sent \in Seq(Numbers)
                BY <3>1 DEF Ordered, Newest, InWrite, TypeOK
            <4>2. Taken = Append(sent, buffer)
                BY <3>1 DEF Taken
            <4>3. Taken[Len(Taken)] = buffer
                BY <4>1, <4>2, Appends
            <4>4. driver = buffer
                BY <2>1, <4>3 DEF Ordered, UnderWay
            <4>. QED
                BY <2>2, <4>4 DEF Bytes
        <3>2. CASE pc # "flush"
            BY <2>1, <2>2, <3>2 DEF Ordered, UnderWay, Bytes
        <3>. QED
            BY <3>1, <3>2
    <2>10. Matching'
        <3> SUFFICES ASSUME NEW i \in 1..Len(Arrived')
                     PROVE  \/ Arrived'[i] = Taken[i]
                            \/ Arrived'[i] = Freed /\ Taken[i] \in unflushed
            BY <2>3, <2>4 DEF Matching
        <3>1. Len(Arrived) \in Nat
            BY ArrivedIsSeq, LenProperties
        <3>2. i \in 1..Len(Arrived) \/ i = Len(Arrived) + 1
            BY <2>6, <3>1
        <3>3. CASE i \in 1..Len(Arrived)
            BY <2>6, <3>3 DEF Ordered, Matching
        <3>4. CASE i = Len(Arrived) + 1
            BY <2>6, <2>7, <2>9, <3>4
        <3>. QED
            BY <3>2, <3>3, <3>4
    <2>. QED
        BY <2>3, <2>4, <2>8, <2>10 DEF Ordered, Newest, Increasing, Below
<1>. QED
    BY <1>1, <1>2, <1>3, <1>4, <1>5, <1>6, <1>7, <1>8, NextSplits

LEMMA PortInvHolds == Spec => []PortInv
<1>1. PortInv /\ [Next]_vars => PortInv'
    BY TypeKept, NextKeepsOrder DEF PortInv, Ordered
<1>. QED
    BY <1>1, InitOrdered, PTL DEF Spec

THEOREM TypeCorrect == Spec => []TypeOK
BY PortInvHolds, PTL DEF PortInv

\* What Write() returned true for is at the client, and nothing else is:
\* garbled is only what was still under way when its flush failed, and the one
\* response that may be missing is the last (serialport.cpp:289-308).
THEOREM TrueArrives == Spec => []TrueMeansArrived
<1>1. PortInv => TrueMeansArrived
    <2> SUFFICES ASSUME PortInv, pc # "flush" PROVE TrueMeansArrived
        BY DEF TrueMeansArrived
    <2> USE DEF PortInv, Ordered
    <2>1. Taken = sent
        BY DEF Taken
    <2>2. DOMAIN Arrived = 1..Len(Arrived)
        BY ArrivedIsSeq, LenProperties
    <2>3. \/ Len(sent) = Len(Arrived)
          \/ /\ Len(sent) = Len(Arrived) + 1
             /\ ov = "error" \/ driver = sent[Len(sent)]
        BY <2>1 DEF UnderWay
    <2>. QED
        BY <2>1, <2>2, <2>3 DEF Matching, TrueMeansArrived
<1>. QED
    BY <1>1, PortInvHolds, PTL

\* respond() may free its string when Write() returns, unless the flush failed:
\* FlushFileBuffers() has waited for the driver, and a write that did not start
\* left it nothing (serialport.cpp:301-308, emu.cpp:49-57).
THEOREM BufferIsAlive == Spec => []BufferOutlivesWrite
<1>1. PortInv => BufferOutlivesWrite
    <2> SUFFICES ASSUME PortInv, driver # Freed, pc = "flush" PROVE buffer = driver
        BY DEF PortInv, Ordered, UnderWay, BufferOutlivesWrite
    <2>1. buffer \in Numbers /\ sent \in Seq(Numbers)
        BY DEF PortInv, Ordered, Newest, InWrite, TypeOK
    <2>2. Taken = Append(sent, buffer)
        BY DEF Taken
    <2>3. Taken[Len(Taken)] = buffer
        BY <2>1, <2>2, Appends
    <2>. QED
        BY <2>3 DEF PortInv, Ordered, UnderWay
<1>. QED
    BY <1>1, PortInvHolds, PTL

\* The driver never gets a second write while it is at one: m_ov_wr tells of
\* the first until it has ended (serialport.cpp:289-301).
THEOREM OneAtATime == Spec => OneWriteAtATime
<1>1. ASSUME PortInv, [Next]_vars
      PROVE  [driver # Freed => driver' \in {driver, Freed}]_vars
    <2> SUFFICES ASSUME driver # Freed PROVE driver' \in {driver, Freed}
        OBVIOUS
    <2>1. CASE WriteFile
        BY <1>1, <2>1 DEF WriteFile, PortInv, Ordered, UnderWay
    <2>2. CASE Close \/ HandOver \/ WriteEndsInError
        BY <2>2 DEF Close, CancelWrite, HandOver, WriteEndsInError
    <2>3. CASE Request \/ Check \/ Flush \/ FlushFails \/ ClientReads
        BY <2>3 DEF Request, Check, Flush, FlushFails, Return, ClientReads
    <2>4. CASE OtherSteps \/ UNCHANGED vars
        BY <2>4, Aside DEF vars
    <2>. QED
        BY <1>1, <2>1, <2>2, <2>3, <2>4, NextSplits
<1>. QED
    BY <1>1, PortInvHolds, PTL DEF Spec, OneWriteAtATime

\* Responses arrive once, in the order of their requests, and none arrives
\* that Write() gave up; what else arrives are bytes of a freed string
\* (serialport.cpp:285-309).
THEOREM KeepsOrder == Spec => []ArriveInOrder
<1>1. PortInv => ArriveInOrder
    <2> SUFFICES ASSUME PortInv PROVE ArriveInOrder
        OBVIOUS
    <2> USE DEF PortInv, Ordered
    <2>1. Arrived \in Seq(Values) /\ DOMAIN Arrived = 1..Len(Arrived) /\ Len(Arrived) \in Nat
        BY ArrivedIsSeq, LenProperties
    <2>2. sent \in Seq(Numbers) /\ DOMAIN sent = 1..Len(sent) /\ Len(sent) \in Nat
        BY LenProperties DEF TypeOK
    <2>3. Taken \in Seq(Numbers) /\ Len(Taken) \in Nat /\ Len(Arrived) <= Len(Taken)
        BY <2>1, TakenIsSeq, LenProperties DEF UnderWay
    <2>4. ASSUME NEW i \in DOMAIN Arrived, NEW j \in DOMAIN Arrived,
                 i < j, Arrived[i] # Freed, Arrived[j] # Freed
          PROVE  Arrived[i] < Arrived[j]
        <3>1. Arrived[i] = Taken[i] /\ Arrived[j] = Taken[j]
            BY <2>1, <2>4 DEF Matching
        <3>2. i \in 1..Len(Taken) /\ j \in 1..Len(Taken)
            BY <2>1, <2>3, <2>4
        <3>. QED
            BY <2>4, <3>1, <3>2 DEF Increasing
    <2>5. ASSUME NEW i \in DOMAIN Arrived
          PROVE  Arrived[i] \in {buffer, Freed} \/ \E j \in DOMAIN sent : sent[j] = Arrived[i]
        <3>1. Arrived[i] = Freed \/ Arrived[i] = Taken[i]
            BY <2>1 DEF Matching
        <3>2. i \in 1..Len(Taken)
            BY <2>1, <2>3
        <3>3. CASE pc = "flush"
            <4>1. Taken = Append(sent, buffer) /\ buffer \in Numbers
                BY <3>3 DEF Taken, Newest, InWrite
            <4>2. i \in 1..Len(sent) \/ i = Len(sent) + 1
                BY <2>2, <3>2, <4>1, Appends
            <4>3. CASE i \in 1..Len(sent)
                BY <2>2, <3>1, <4>1, <4>3, Appends
            <4>4. CASE i = Len(sent) + 1
                BY <2>2, <3>1, <4>1, <4>4, Appends
            <4>. QED
                BY <4>2, <4>3, <4>4
        <3>4. CASE pc # "flush"
            BY <2>2, <3>1, <3>2, <3>4 DEF Taken
        <3>. QED
            BY <3>3, <3>4
    <2>. QED
        BY <2>4, <2>5 DEF ArriveInOrder
<1>. QED
    BY <1>1, PortInvHolds, PTL
=============================================================================
