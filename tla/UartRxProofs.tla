---------------------------- MODULE UartRxProofs ----------------------------
(***************************************************************************)
(* Proofs, for every size of the ring, that the receiving side of the UART *)
(* never loses an announcement, never reads from an empty register or ring *)
(* and implements ByteReceiver.                                            *)
(***************************************************************************)
EXTENDS UartRx, SequenceTheorems, TLAPS

\* The next index, without division.
LEMMA NextIndex ==
    ASSUME NEW i \in Idx
    PROVE  /\ (i + 1) % QLen \in Idx
           /\ (i + 1) % QLen = IF i + 1 = QLen THEN 0 ELSE i + 1
<1>1. QLen \in Nat \ {0} /\ i + 1 \in Nat /\ i + 1 <= QLen
  BY QLenAssumption DEF Idx
<1>2. CASE i + 1 < QLen
  <2>1. (i + 1) % QLen = i + 1
    BY <1>1, <1>2
  <2> QED
    BY <1>1, <1>2, <2>1 DEF Idx
<1>3. CASE i + 1 = QLen
  <2>1. QLen % QLen = 0
    BY <1>1
  <2> QED
    BY <1>1, <1>3, <2>1 DEF Idx
<1> QED
  BY <1>1, <1>2, <1>3

LEMMA InitIInv == Init => IInv
<1> SUFFICES ASSUME Init PROVE IInv
  OBVIOUS
<1>1. <<>> \in Seq(Byte) /\ Len(<<>>) <= HwDepth /\ 0 \in Idx
  BY HwDepthAssumption, QLenAssumption DEF Idx
<1> QED
  BY <1>1, ByteAssumption
     DEF Init, IInv, TypeOK, WaitingByteAnnounced, NothingReadFromEmpty, CopyIsFirst

\* One step per action: the hardware, the handler, the reader.
LEMMA NextIInv == IInv /\ [Next]_vars => IInv'
<1> SUFFICES ASSUME IInv, [Next]_vars PROVE IInv'
  OBVIOUS
<1> USE DEF IInv, WaitingByteAnnounced, NothingReadFromEmpty, CopyIsFirst, IsEmpty
<1>1. TypeOK
  OBVIOUS
<1>2. ASSUME NEW b \in Byte, Receive(b) PROVE IInv'
  <2>1. rxd' \in Seq(Byte) /\ Len(rxd') <= HwDepth /\ rxd' # <<>>
    BY <1>1, <1>2, AppendProperties, HwDepthAssumption DEF Receive, TypeOK
  <2> QED
    BY <1>2, <2>1 DEF Receive, TypeOK, ringVars
<1>3. CASE IrqClear
  BY <1>3 DEF IrqClear, TypeOK, ringVars
<1>4. CASE IrqGet
  <2>1. rxd \in Seq(Byte) /\ rxd # <<>>
    BY <1>4 DEF IrqGet, TypeOK
  <2>2. /\ Head(rxd) \in Byte /\ Tail(rxd) \in Seq(Byte)
        /\ Len(rxd) \in Nat \ {0} /\ Len(Tail(rxd)) = Len(rxd) - 1
    BY <2>1, HeadTailProperties, LenProperties
  <2>3. Tail(rxd) # <<>> => Len(rxd) > 1
    BY <2>2, EmptySeq
  <2>4. ~rxdrdy
    BY <1>4 DEF IrqGet
  <2>5. TypeOK'
    BY <1>1, <1>4, <2>2, HwDepthAssumption DEF IrqGet, Get, TypeOK, ringVars
  <2>6. irq'.at = "enque" /\ rxd' = Tail(rxd) /\ (rxdrdy' <=> Len(rxd) > 1)
    BY <1>1, <1>4, <2>4 DEF IrqGet, Get, TypeOK
  <2>7. Len(rxd) > 1 => Tail(rxd) # <<>>
    BY <2>2, EmptySeq
  <2>8. WaitingByteAnnounced' /\ (rxdrdy => rxd # <<>> /\ irq.at # "get")'
    BY <2>3, <2>6, <2>7
  <2>9. NothingReadFromEmpty' /\ CopyIsFirst'
    BY <1>4, <2>6 DEF IrqGet, ringVars
  <2> QED
    BY <2>5, <2>8, <2>9
<1>5. CASE IrqEnque
  <2>1. /\ front' \in Idx /\ data' \in [Idx -> Byte]
        /\ data'[rear] = data[rear] \/ IsEmpty
        /\ front' # rear \/ IsEmpty
    BY <1>1, <1>5, NextIndex DEF IrqEnque, Enque, TypeOK
  <2> QED
    BY <1>1, <1>5, <2>1 DEF IrqEnque, TypeOK, hwVars
<1>6. CASE ReadAvailable
  BY <1>6 DEF ReadAvailable, Thread, TypeOK, hwVars, ringVars
<1>7. CASE ReadDeque
  BY <1>7 DEF ReadDeque, Thread, TypeOK, hwVars, ringVars
<1>8. CASE ReadAdvance
  <2>1. rear' \in Idx
    BY <1>1, <1>8, NextIndex DEF ReadAdvance, RearNext, TypeOK
  <2> QED
    BY <1>8, <2>1 DEF ReadAdvance, Thread, TypeOK, hwVars
<1>9. CASE UNCHANGED vars
  BY <1>9 DEF vars, hwVars, ringVars, TypeOK
<1> QED
  BY <1>2, <1>3, <1>4, <1>5, <1>6, <1>7, <1>8, <1>9 DEF Next, Irq, Read

\* For every size of the ring and depth of the hardware the invariant holds in
\* every state that uart.cpp and circularBuffer.h reach together.
THEOREM UartRxInvariant == Spec => []IInv
<1> QED
  BY InitIInv, NextIInv, PTL DEF Spec

\* Indices stay in the array and bytes are bytes.
THEOREM UartRxTypeCorrect == Spec => []TypeOK
<1>1. IInv => TypeOK
  BY DEF IInv
<1> QED
  BY <1>1, UartRxInvariant, PTL

\* No byte is left in the hardware with no interrupt to come for it.
THEOREM ByteAnnounced == Spec => []WaitingByteAnnounced
<1>1. IInv => WaitingByteAnnounced
  BY DEF IInv
<1> QED
  BY <1>1, UartRxInvariant, PTL

\* The handler finds a byte in RXD, the reader one in the ring.
THEOREM NothingFromEmpty == Spec => []NothingReadFromEmpty
<1>1. IInv => NothingReadFromEmpty
  BY DEF IInv
<1> QED
  BY <1>1, UartRxInvariant, PTL

-----------------------------------------------------------------------------
\* The ring as a queue: how the two indices move it.

LEMMA UnreadIsSeq ==
    TypeOK => /\ Used \in 0 .. QLen - 1
              /\ Unread \in Seq(Byte)
              /\ Len(Unread) = Used
              /\ \A k \in 1 .. Used : /\ Wrap(rear + k - 1) \in Idx
                                      /\ Unread[k] = data[Wrap(rear + k - 1)]
<1> SUFFICES ASSUME TypeOK PROVE UnreadIsSeq!2
  OBVIOUS
<1>1. QLen \in Nat /\ front \in 0 .. QLen - 1 /\ rear \in 0 .. QLen - 1
  BY QLenAssumption DEF TypeOK, Idx
<1>2. Used \in 0 .. QLen - 1
  BY <1>1 DEF Used
<1>3. ASSUME NEW k \in 1 .. Used PROVE Wrap(rear + k - 1) \in Idx
  BY <1>1, <1>2 DEF Wrap, Idx
<1>4. \A k \in 1 .. Used : data[Wrap(rear + k - 1)] \in Byte
  BY <1>3 DEF TypeOK
<1>5. Unread \in [1 .. Used -> Byte]
  BY <1>4 DEF Unread
<1>6. Used \in Nat
  BY <1>2
<1>7. Unread \in Seq(Byte) /\ Len(Unread) = Used
  BY <1>5, <1>6, SeqDef, LenProperties
<1> QED
  BY <1>2, <1>3, <1>7 DEF Unread

\* The reader finds the ring empty when the queue is.
LEMMA EmptyMeansNoneUnread ==
    ASSUME TypeOK
    PROVE  /\ IsEmpty <=> Used = 0
           /\ ~IsEmpty => Unread # <<>> /\ Head(Unread) = data[rear]
<1>1. QLen \in Nat /\ front \in 0 .. QLen - 1 /\ rear \in 0 .. QLen - 1
  BY QLenAssumption DEF TypeOK, Idx
<1>2. IsEmpty <=> Used = 0
  BY <1>1 DEF IsEmpty, Used
<1>3. ASSUME ~IsEmpty PROVE Unread # <<>> /\ Head(Unread) = data[rear]
  <2>1. 1 \in 1 .. Used /\ Len(Unread) # 0 /\ Unread[1] = data[Wrap(rear + 1 - 1)]
    BY <1>2, <1>3, UnreadIsSeq
  <2>2. rear + 1 - 1 = rear /\ Wrap(rear) = rear
    BY <1>1 DEF Wrap
  <2>3. Unread # <<>>
    BY <2>1, EmptySeq
  <2> QED
    BY <2>1, <2>2, <2>3
<1> QED
  BY <1>2, <1>3

\* enque adds a byte at the end, or drops it when one entry is left.
LEMMA EnqueAppends ==
    ASSUME TypeOK, TypeOK', IrqEnque
    PROVE  Unread' = IF Len(Unread) < QLen - 1 THEN Append(Unread, irq.byte) ELSE Unread
<1>1. /\ QLen \in Nat \ {0, 1}
      /\ front \in 0 .. QLen - 1 /\ rear \in 0 .. QLen - 1
      /\ irq.byte \in Byte /\ data \in [Idx -> Byte] /\ rear' = rear
  BY QLenAssumption DEF TypeOK, Idx, IrqEnque
<1> DEFINE next == (front + 1) % QLen
<1>2. next = IF front + 1 = QLen THEN 0 ELSE front + 1
  BY NextIndex DEF TypeOK
<1>3. next = rear <=> Used = QLen - 1
  BY <1>1, <1>2 DEF Used
<1>4. CASE next = rear
  <2>1. data' = data /\ front' = front
    BY <1>4 DEF IrqEnque, Enque
  <2>2. Unread' = Unread
    BY <1>1, <2>1 DEF Unread, Used, Wrap
  <2>3. ~(Len(Unread) < QLen - 1)
    BY <1>1, <1>3, <1>4, UnreadIsSeq
  <2> QED
    BY <2>2, <2>3
<1>5. CASE next # rear
  <2>1. data' = [data EXCEPT ![front] = irq.byte] /\ front' = next
    BY <1>5 DEF IrqEnque, Enque
  <2>2. Used' = Used + 1
    <3>1. front' = IF front + 1 = QLen THEN 0 ELSE front + 1
      BY <1>2, <2>1
    <3> HIDE DEF next
    <3> QED
      BY <1>1, <1>2, <1>5, <3>1 DEF Used
  <2>3. Used \in 0 .. QLen - 1 /\ Used # QLen - 1
    BY <1>3, <1>5, UnreadIsSeq
  <2>4. /\ Unread \in Seq(Byte) /\ Len(Unread) = Used
        /\ Unread' \in Seq(Byte) /\ Len(Unread') = Used + 1
    <3>1. (Unread \in Seq(Byte) /\ Len(Unread) = Used)'
      BY UnreadIsSeq, PTL
    <3> QED
      BY <2>2, <3>1, UnreadIsSeq
  <2>5. ASSUME NEW k \in 1 .. Used PROVE Unread'[k] = Unread[k]
    <3>1. Wrap(rear + k - 1) \in Idx /\ Wrap(rear + k - 1) # front
      BY <1>1, <2>3 DEF Wrap, Idx, Used
    <3>2. Unread'[k] = data'[Wrap(rear + k - 1)]
      BY <1>1, <2>2, <2>3 DEF Unread, Wrap
    <3>3. data'[Wrap(rear + k - 1)] = data[Wrap(rear + k - 1)]
      BY <1>1, <2>1, <3>1
    <3> QED
      BY <3>2, <3>3, UnreadIsSeq
  <2>6. Unread'[Used + 1] = irq.byte
    <3>1. Wrap(rear + (Used + 1) - 1) = front /\ Used + 1 \in 1 .. Used + 1
      BY <1>1, <2>3 DEF Wrap, Used
    <3>2. Unread'[Used + 1] = data'[Wrap(rear + (Used + 1) - 1)]
      BY <1>1, <2>2, <3>1 DEF Unread, Wrap
    <3> QED
      BY <1>1, <2>1, <3>1, <3>2 DEF Idx
  <2>7. LET a == Append(Unread, irq.byte)
        IN  /\ a \in Seq(Byte) /\ Len(a) = Used + 1
            /\ \A k \in 1 .. Used : a[k] = Unread[k]
            /\ a[Used + 1] = irq.byte
    BY <1>1, <2>4, AppendProperties
  <2>8. \A k \in 1 .. Used + 1 : Unread'[k] = Append(Unread, irq.byte)[k]
    BY <2>3, <2>5, <2>6, <2>7
  <2>9. Unread' = Append(Unread, irq.byte)
    BY <2>4, <2>7, <2>8, SeqEqual
  <2> QED
    BY <1>1, <2>3, <2>4, <2>9
<1> QED
  BY <1>4, <1>5

\* deque takes the first one away.
LEMMA DequeTails ==
    ASSUME TypeOK, TypeOK', ReadAdvance, ~IsEmpty
    PROVE  Unread' = Tail(Unread)
<1>1. /\ QLen \in Nat \ {0, 1}
      /\ front \in 0 .. QLen - 1 /\ rear \in 0 .. QLen - 1 /\ rear # front
      /\ front' = front /\ data' = data
  BY QLenAssumption DEF TypeOK, Idx, IsEmpty, ReadAdvance
<1>2. rear' = IF rear + 1 = QLen THEN 0 ELSE rear + 1
  BY NextIndex DEF TypeOK, ReadAdvance, RearNext
<1>3. Used' = Used - 1 /\ Used \in 1 .. QLen - 1
  BY <1>1, <1>2 DEF Used
<1>4. /\ Unread \in Seq(Byte) /\ Len(Unread) = Used /\ Unread # <<>>
      /\ Unread' \in Seq(Byte) /\ Len(Unread') = Used - 1
  <2>1. (Unread \in Seq(Byte) /\ Len(Unread) = Used)'
    BY UnreadIsSeq, PTL
  <2> QED
    BY <1>3, <2>1, UnreadIsSeq, EmptyMeansNoneUnread
<1>5. ASSUME NEW k \in 1 .. Used - 1 PROVE Unread'[k] = Unread[k + 1]
  <2>1. k + 1 \in 1 .. Used
    BY <1>3
  <2>2. Unread'[k] = data[Wrap(rear' + k - 1)]
    BY <1>1, <1>3 DEF Unread, Wrap
  <2>3. Unread[k + 1] = data[Wrap(rear + (k + 1) - 1)]
    BY <2>1, UnreadIsSeq
  <2>4. Wrap(rear' + k - 1) = Wrap(rear + (k + 1) - 1)
    BY <1>1, <1>2, <1>3 DEF Wrap
  <2> QED
    BY <2>2, <2>3, <2>4
<1>6. /\ Tail(Unread) \in Seq(Byte) /\ Len(Tail(Unread)) = Used - 1
      /\ \A k \in 1 .. Used - 1 : Tail(Unread)[k] = Unread[k + 1]
  BY <1>4, HeadTailProperties
<1> QED
  BY <1>4, <1>5, <1>6, SeqEqual

-----------------------------------------------------------------------------
\* The refinement.

Line == InHand \o rxd

LEMMA UnreadUnchanged == UNCHANGED ringVars => UNCHANGED Unread
BY DEF ringVars, Unread, Used, Wrap

LEMMA InitRefines == Init => R!Init
<1> SUFFICES ASSUME Init PROVE R!Init
  OBVIOUS
<1>1. TypeOK
  BY InitIInv DEF IInv
<1>2. Used = 0
  BY <1>1, EmptyMeansNoneUnread DEF Init, IsEmpty
<1>3. Unread = <<>>
  BY <1>1, <1>2, UnreadIsSeq, EmptySeq
<1>4. Line = <<>>
  BY DEF Init, Line, InHand
<1> QED
  BY <1>3, <1>4 DEF R!Init, Line, Init

\* Bytes arrive in the hardware, enque accepts them or loses them, and moving
\* rear on delivers them.  No other step is seen outside.
LEMMA NextRefines == IInv /\ IInv' /\ [Next]_vars => [R!Next]_(R!rvars)
<1> SUFFICES ASSUME IInv, IInv', [Next]_vars PROVE [R!Next]_(R!rvars)
  OBVIOUS
<1> DEFINE Stutter == UNCHANGED <<Line, Unread, got>>
<1>1. /\ TypeOK /\ TypeOK' /\ NothingReadFromEmpty /\ CopyIsFirst
      /\ rxd \in Seq(Byte) /\ irq.byte \in Byte
  BY DEF IInv, TypeOK
<1>2. InHand \in Seq(Byte)
  BY <1>1 DEF InHand
<1>3. ASSUME NEW b \in Byte, Receive(b) PROVE R!Arrive(b)
  <2>1. Line' = Append(Line, b)
    <3>1. rxd' = Append(rxd, b) /\ InHand' = InHand
      BY <1>3 DEF Receive, InHand
    <3>2. Append(rxd, b) = rxd \o <<b>> /\ Append(Line, b) = Line \o <<b>>
      BY <1>1, <1>2, AppendIsConcat, ConcatProperties DEF Line
    <3> QED
      BY <1>1, <1>2, <3>1, <3>2, ConcatAssociative DEF Line
  <2>2. Unread' = Unread /\ got' = got
    BY <1>3, UnreadUnchanged DEF Receive
  <2> QED
    BY <2>1, <2>2 DEF R!Arrive, Line
<1>4. CASE IrqClear
  <2>1. Stutter
    BY <1>1, <1>4, UnreadUnchanged DEF IrqClear, Line, InHand, TypeOK
  <2> QED
    BY <2>1 DEF R!rvars, Line
<1>5. CASE IrqGet
  <2>1. rxd # <<>> /\ InHand = <<>> /\ InHand' = <<Head(rxd)>> /\ rxd' = Tail(rxd)
    BY <1>1, <1>5 DEF IrqGet, Get, InHand, NothingReadFromEmpty
  <2>2. Line = rxd
    BY <1>1, <2>1, ConcatEmptySeq DEF Line
  <2>3. Line' = <<Head(rxd)>> \o Tail(rxd)
    BY <2>1 DEF Line
  <2>4. <<Head(rxd)>> \o Tail(rxd) = rxd
    <3>1. /\ Head(rxd) \in Byte /\ Tail(rxd) \in Seq(Byte) /\ Head(rxd) = rxd[1]
          /\ Len(Tail(rxd)) = Len(rxd) - 1 /\ Len(rxd) \in Nat \ {0}
          /\ \A i \in 1 .. Len(Tail(rxd)) : Tail(rxd)[i] = rxd[i + 1]
      BY <1>1, <2>1, HeadTailProperties, EmptySeq
    <3>2. <<Head(rxd)>> \in Seq(Byte) /\ Len(<<Head(rxd)>>) = 1
      BY <3>1
    <3>3. LET c == <<Head(rxd)>> \o Tail(rxd)
          IN  /\ c \in Seq(Byte) /\ Len(c) = Len(rxd)
              /\ \A i \in 1 .. Len(rxd) :
                    c[i] = IF i <= 1 THEN Head(rxd) ELSE Tail(rxd)[i - 1]
      <4>1. LET c == <<Head(rxd)>> \o Tail(rxd)
            IN  /\ c \in Seq(Byte) /\ Len(c) = 1 + Len(Tail(rxd))
                /\ \A i \in 1 .. 1 + Len(Tail(rxd)) :
                      c[i] = IF i <= 1 THEN <<Head(rxd)>>[i] ELSE Tail(rxd)[i - 1]
        BY <3>1, <3>2, ConcatProperties
      <4> QED
        BY <3>1, <4>1
    <3>4. \A i \in 1 .. Len(rxd) : (<<Head(rxd)>> \o Tail(rxd))[i] = rxd[i]
      BY <3>1, <3>3
    <3> QED
      BY <1>1, <3>3, <3>4, SeqEqual
  <2>5. Stutter
    BY <1>5, <2>2, <2>3, <2>4, UnreadUnchanged DEF IrqGet
  <2> QED
    BY <2>5 DEF R!rvars, Line
<1>6. CASE IrqEnque
  <2>1. InHand = <<irq.byte>> /\ InHand' = <<>> /\ rxd' = rxd /\ got' = got
    BY <1>1, <1>6 DEF IrqEnque, InHand, hwVars, TypeOK
  <2>2. Line = <<irq.byte>> \o rxd /\ Line' = rxd
    BY <1>1, <2>1, ConcatEmptySeq DEF Line
  <2>3. Line \in Seq(Byte) /\ Line # <<>> /\ Head(Line) = irq.byte
    <3>1. <<irq.byte>> \in Seq(Byte) /\ Len(<<irq.byte>>) = 1
      BY <1>1
    <3>2. Line \in Seq(Byte) /\ Len(Line) = 1 + Len(rxd) /\ Line[1] = irq.byte
      <4>1. Len(rxd) \in Nat
        BY <1>1, LenProperties
      <4> QED
        BY <1>1, <2>2, <3>1, <4>1, ConcatProperties
    <3>3. Line # <<>>
      BY <1>1, <3>2, EmptySeq, LenProperties
    <3> QED
      BY <3>2, <3>3
  <2>4. Tail(Line) = rxd
    <3>1. <<irq.byte>> \in Seq(Byte) /\ Len(<<irq.byte>>) = 1 /\ Len(rxd) \in Nat
      BY <1>1, LenProperties
    <3>2. /\ Len(Line) = 1 + Len(rxd)
          /\ \A i \in 1 .. 1 + Len(rxd) :
                Line[i] = IF i <= 1 THEN <<irq.byte>>[i] ELSE rxd[i - 1]
      BY <1>1, <2>2, <3>1, ConcatProperties
    <3>3. /\ Tail(Line) \in Seq(Byte) /\ Len(Tail(Line)) = Len(rxd)
          /\ \A i \in 1 .. Len(rxd) : Tail(Line)[i] = Line[i + 1]
      <4>1. /\ Tail(Line) \in Seq(Byte) /\ Len(Tail(Line)) = Len(Line) - 1
            /\ \A i \in 1 .. Len(Tail(Line)) : Tail(Line)[i] = Line[i + 1]
        BY <2>3, HeadTailProperties
      <4> QED
        BY <3>1, <3>2, <4>1
    <3>4. \A i \in 1 .. Len(rxd) : Tail(Line)[i] = rxd[i]
      BY <3>1, <3>2, <3>3
    <3> QED
      BY <1>1, <3>3, <3>4, SeqEqual
  <2>5. Unread' = IF Len(Unread) < QLen - 1 THEN Append(Unread, irq.byte) ELSE Unread
    BY <1>1, <1>6, EnqueAppends
  <2> QED
    BY <2>1, <2>2, <2>3, <2>4, <2>5 DEF R!Next, R!Accept, Line
<1>7. CASE ReadAvailable
  <2>1. Stutter
    BY <1>7, UnreadUnchanged DEF ReadAvailable, Line, InHand, hwVars
  <2> QED
    BY <2>1 DEF R!rvars, Line
<1>8. CASE ReadDeque
  <2>1. ~IsEmpty
    BY <1>1, <1>8 DEF ReadDeque, NothingReadFromEmpty
  <2>2. Stutter
    BY <1>8, <2>1, UnreadUnchanged DEF ReadDeque, Line, InHand, hwVars
  <2> QED
    BY <2>2 DEF R!rvars, Line
<1>9. CASE ReadAdvance
  <2>1. ~IsEmpty /\ reader.byte = data[rear]
    BY <1>1, <1>9 DEF ReadAdvance, NothingReadFromEmpty, CopyIsFirst
  <2>2. Unread # <<>> /\ Head(Unread) = data[rear]
    BY <1>1, <2>1, EmptyMeansNoneUnread
  <2>3. Unread' = Tail(Unread)
    BY <1>1, <1>9, <2>1, DequeTails
  <2>4. Line' = Line /\ got' = data[rear]
    BY <1>9, <2>1 DEF ReadAdvance, Line, InHand, hwVars
  <2> QED
    BY <2>2, <2>3, <2>4 DEF R!Next, R!Deliver, Line
<1>10. CASE UNCHANGED vars
  <2>1. Stutter
    BY <1>10, UnreadUnchanged DEF vars, hwVars, Line, InHand
  <2> QED
    BY <2>1 DEF R!rvars, Line
<1>11. (\E b \in Byte : Receive(b)) => R!Next
  BY <1>3 DEF R!Next
<1> QED
  BY <1>4, <1>5, <1>6, <1>7, <1>8, <1>9, <1>10, <1>11 DEF Next, Irq, Read

\* The UART and its ring are a bounded queue that drops the newest byte when it
\* is full: nothing is read twice, out of order, or lost in any other way.
THEOREM UartRxRefines == Spec => ImplementsReceiver
<1> QED
  BY InitRefines, NextRefines, UartRxInvariant, PTL DEF Spec, ImplementsReceiver, R!Spec
=============================================================================
