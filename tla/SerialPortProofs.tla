-------------------------- MODULE SerialPortProofs --------------------------
(***************************************************************************)
(* Proofs about SerialPort, for any set of descriptors and any bounds.     *)
(***************************************************************************)
EXTENDS SerialPort, SequenceTheorems, TLAPS

-----------------------------------------------------------------------------
(* serial_fd_ and the descriptor table tell the same: serial_fd_ is the one *)
(* number that stands for the port.                                         *)

PortInv ==
  /\ table \in [Descriptors -> {"free", "port", "hung", "other"}]
  /\ fd \in Descriptors \union {None}
  /\ OwnsDescriptor
  /\ NoDescriptorLeaks

LEMMA PortInit == Init => PortInv
  BY SerialPortAssumption DEF Init, PortInv, OwnsDescriptor, NoDescriptorLeaks

\* Closing serial_fd_ under the mutex leaves no number that stands for the port.
LEMMA CloseFdPort == PortInv /\ CloseFd => PortInv'
  BY SerialPortAssumption DEF CloseFd, PortInv, OwnsDescriptor, NoDescriptorLeaks

LEMMA PortMain == PortInv /\ Main => PortInv'
<1> SUFFICES ASSUME PortInv, Main PROVE PortInv'
  OBVIOUS
<1>1. CASE UNCHANGED <<fd, table>>
  BY <1>1 DEF PortInv, OwnsDescriptor, NoDescriptorLeaks
<1>2. CASE CloseFd
  BY <1>2, CloseFdPort
<1>3. CASE BeginWrite
  BY <1>1, <1>3 DEF BeginWrite
<1>4. CASE Writer
  BY <1>1, <1>2, <1>4 DEF Writer, WriteChunk, WriteFails
<1>5. CASE StopRunning
  BY <1>1, <1>5 DEF StopRunning
<1>6. CASE Destructor
  BY <1>1, <1>2, <1>6 DEF Destructor, CloseInDestructor, Join
<1>. QED BY <1>3, <1>4, <1>5, <1>6 DEF Main

LEMMA PortReader == PortInv /\ Reader => PortInv'
<1> SUFFICES ASSUME PortInv, Reader PROVE PortInv'
  OBVIOUS
<1>1. CASE UNCHANGED <<fd, table>>
  BY <1>1 DEF PortInv, OwnsDescriptor, NoDescriptorLeaks
<1>2. CASE OpenSerial
  <2>1. CASE UNCHANGED <<fd, table>>
    BY <1>1, <2>1
  <2>2. CASE fd = None /\ ~UNCHANGED <<fd, table>>
    <3>1. PICK f \in Descriptors : /\ table[f] = "free"
                                   /\ fd' = f
                                   /\ table' = [table EXCEPT ![f] = "port"]
      BY <1>2, <2>2 DEF OpenSerial
    <3>. QED BY <2>2, <3>1, SerialPortAssumption DEF PortInv, OwnsDescriptor, NoDescriptorLeaks
  <2>. QED BY <1>2, <2>1, <2>2 DEF OpenSerial
<1>3. CASE CloseSerial
  BY <1>3, CloseFdPort DEF CloseSerial
<1>4. CASE LoopWhileRunning \/ CopyFd \/ PollTimesOut \/ PollData \/ PollError
  BY <1>1, <1>4 DEF LoopWhileRunning, CopyFd, PollTimesOut, PollData, PollError, ReaderStep
<1>5. CASE ReadByte \/ ReadStranger \/ ReadNothing \/ ReadError
  BY <1>1, <1>5 DEF ReadByte, ReadStranger, ReadNothing, ReadError, ReaderStep
<1>. QED BY <1>2, <1>3, <1>4, <1>5 DEF Reader

LEMMA PortExternal == PortInv /\ External => PortInv'
<1> SUFFICES ASSUME PortInv, External PROVE PortInv'
  OBVIOUS
<1> USE DEF PortInv, OwnsDescriptor, NoDescriptorLeaks
<1>1. CASE MainboardSends \/ LoseByte \/ Drain
  BY <1>1 DEF MainboardSends, LoseByte, Drain
<1>2. CASE Plug
  BY <1>2, SerialPortAssumption DEF Plug
<1>3. ASSUME NEW f \in Descriptors, StrangerOpens(f) PROVE PortInv'
  BY <1>3, SerialPortAssumption DEF StrangerOpens
<1>4. ASSUME NEW f \in Descriptors, StrangerCloses(f) PROVE PortInv'
  BY <1>4, SerialPortAssumption DEF StrangerCloses
<1>. QED BY <1>1, <1>2, <1>3, <1>4 DEF External

LEMMA PortNext == PortInv /\ [Next]_vars => PortInv'
<1>1. CASE UNCHANGED vars
  BY <1>1 DEF vars, PortInv, OwnsDescriptor, NoDescriptorLeaks
<1>. QED BY <1>1, PortMain, PortReader, PortExternal DEF Next

LEMMA PortInvariant == Spec => []PortInv
  BY PortInit, PortNext, PTL DEF Spec

\* serial_fd_ never names a closed number or a stranger's (open_serial, close_serial and
\* write_packet, which share it under serial_mutex_).
THEOREM DescriptorOwned == Spec => []OwnsDescriptor
<1>1. PortInv => OwnsDescriptor
  BY DEF PortInv
<1>. QED BY <1>1, PortInvariant, PTL

\* No descriptor of the port is left open behind serial_fd_ by reconnecting (open_serial).
THEOREM NoLeak == Spec => []NoDescriptorLeaks
<1>1. PortInv => NoDescriptorLeaks
  BY DEF PortInv
<1>. QED BY <1>1, PortInvariant, PTL

-----------------------------------------------------------------------------
(* Strangers.                                                               *)

LEMMA CloseFdSpares ==
  ASSUME PortInv, CloseFd, NEW f \in Descriptors, table[f] = "other" PROVE table'[f] = "other"
  BY SerialPortAssumption DEF CloseFd, PortInv, OwnsDescriptor

LEMMA ReaderSpares ==
  ASSUME PortInv, Reader, NEW f \in Descriptors, table[f] = "other" PROVE table'[f] = "other"
<1>1. CASE OpenSerial
  BY <1>1 DEF OpenSerial, PortInv
<1>2. CASE CloseSerial
  BY <1>2, CloseFdSpares DEF CloseSerial
<1>3. CASE LoopWhileRunning \/ CopyFd \/ PollTimesOut \/ PollData \/ PollError
  BY <1>3 DEF LoopWhileRunning, CopyFd, PollTimesOut, PollData, PollError, ReaderStep
<1>4. CASE ReadByte \/ ReadStranger \/ ReadNothing \/ ReadError
  BY <1>4 DEF ReadByte, ReadStranger, ReadNothing, ReadError, ReaderStep
<1>. QED BY <1>1, <1>2, <1>3, <1>4 DEF Reader

LEMMA MainSpares ==
  ASSUME PortInv, Main, NEW f \in Descriptors, table[f] = "other" PROVE table'[f] = "other"
<1>1. CASE BeginWrite \/ StopRunning
  BY <1>1 DEF BeginWrite, StopRunning
<1>2. CASE Writer
  BY <1>2, CloseFdSpares DEF Writer, WriteChunk, WriteFails
<1>3. CASE Destructor
  BY <1>3, CloseFdSpares DEF Destructor, CloseInDestructor, Join
<1>. QED BY <1>1, <1>2, <1>3 DEF Main

\* No step of either thread closes a descriptor that somebody else was given, even when the
\* read thread polled or read it by mistake (read_loop, write_packet, close_serial).
THEOREM StrangersSafe == Spec => StrangersAreLeftAlone
<1> DEFINE Spared == \A f \in Descriptors : table[f] = "other" /\ table'[f] # "other" => StrangerCloses(f)
<1>1. PortInv /\ [Next]_vars => [Spared]_vars
  <2> SUFFICES ASSUME PortInv, Next, NEW f \in Descriptors, table[f] = "other", table'[f] # "other"
               PROVE  StrangerCloses(f)
    OBVIOUS
  <2>1. ~Main /\ ~Reader
    BY MainSpares, ReaderSpares
  <2>2. External
    BY <2>1 DEF Next
  <2>3. ~(MainboardSends \/ LoseByte \/ Drain)
    BY DEF MainboardSends, LoseByte, Drain
  <2>4. ~Plug
    BY DEF Plug
  <2>5. PICK g \in Descriptors : StrangerOpens(g) \/ StrangerCloses(g)
    BY <2>2, <2>3, <2>4 DEF External
  <2>6. ~StrangerOpens(g)
    BY DEF StrangerOpens
  <2>7. g = f
    BY <2>5, <2>6 DEF StrangerCloses, PortInv
  <2>. QED BY <2>5, <2>6, <2>7
<1>. QED BY <1>1, PortInvariant, PTL DEF Spec, StrangersAreLeftAlone

-----------------------------------------------------------------------------
(* Types.  While write_packet() runs it has chunks to write, so that their  *)
(* number does not fall below zero.                                         *)

TypeInv == TypeOK /\ (main = "write" => left > 0)

LEMMA TypeInit == Init => TypeInv
<1> SUFFICES ASSUME Init PROVE TypeInv
  OBVIOUS
<1>1. frame \in Seq(Bytes) /\ Len(frame) <= MaxFrame
  BY EmptySeq, SerialPortAssumption DEF Init
<1>2. wire \in Seq(Bytes \union {Zero}) /\ Len(wire) <= MaxWire
  BY EmptySeq, SerialPortAssumption DEF Init
<1>3. heard \in 0 .. Spoilt
  BY DEF Init, Spoilt, Frame
<1>. QED BY <1>1, <1>2, <1>3, SerialPortAssumption DEF Init, TypeInv, TypeOK

LEMMA CloseFdTypes ==
  ASSUME TypeOK, CloseFd
  PROVE  /\ table' \in [Descriptors -> {"free", "port", "hung", "other"}]
         /\ fd' \in Descriptors \union {None}
         /\ heard' \in 0 .. Spoilt
  BY DEF TypeOK, CloseFd, Spoilt, Frame

LEMMA TypeMain == TypeInv /\ Main => TypeInv'
<1> SUFFICES ASSUME TypeInv, Main PROVE TypeInv'
  OBVIOUS
<1> USE DEF TypeInv, TypeOK, mainVars, readerVars, lineVars
<1>1. CASE BeginWrite
  BY <1>1 DEF BeginWrite
<1>2. CASE WriteChunk
  BY <1>2, SerialPortAssumption DEF WriteChunk
<1>3. CASE WriteFails
  BY <1>3, CloseFdTypes DEF WriteFails
<1>4. CASE StopRunning
  BY <1>4 DEF StopRunning
<1>5. CASE CloseInDestructor
  BY <1>5, CloseFdTypes DEF CloseInDestructor
<1>6. CASE Join
  BY <1>6 DEF Join
<1>. QED BY <1>1, <1>2, <1>3, <1>4, <1>5, <1>6 DEF Main, Writer, Destructor

\* The buffer takes a byte, or is emptied by it; a delimiter empties it.
LEMMA BufferFits ==
  ASSUME frame \in Seq(Bytes), Len(frame) <= MaxFrame,
         TakeDelimiter \/ \E b \in Bytes : TakeByte(b)
  PROVE  /\ frame' \in Seq(Bytes) /\ Len(frame') <= MaxFrame
         /\ outcome' \in {"none", "handled", "dropped"}
<1>1. CASE TakeDelimiter
  BY <1>1, EmptySeq, SerialPortAssumption DEF TakeDelimiter
<1>2. ASSUME NEW b \in Bytes, TakeByte(b)
      PROVE  /\ frame' \in Seq(Bytes) /\ Len(frame') <= MaxFrame
             /\ outcome' \in {"none", "handled", "dropped"}
  BY <1>2, EmptySeq, SerialPortAssumption DEF TakeByte
<1>. QED BY <1>1, <1>2

LEMMA TypeReader == TypeInv /\ Reader => TypeInv'
<1> SUFFICES ASSUME TypeInv, Reader PROVE TypeInv'
  OBVIOUS
<1> USE DEF TypeInv, TypeOK, mainVars, readerVars, lineVars
<1>1. CASE LoopWhileRunning \/ CopyFd
  BY <1>1 DEF LoopWhileRunning, CopyFd, Goto
<1>2. CASE OpenSerial
  BY <1>2, SerialPortAssumption DEF OpenSerial, Goto
<1>3. CASE PollTimesOut \/ PollData \/ PollError \/ ReadNothing \/ ReadError
  BY <1>3 DEF PollTimesOut, PollData, PollError, ReadNothing, ReadError, ReaderStep, Goto
<1>4. CASE CloseSerial
  BY <1>4, CloseFdTypes DEF CloseSerial, Goto
<1>5. CASE ReadByte
  <2>1. Head(wire) \in Bytes \union {Zero} /\ wire' \in Seq(Bytes \union {Zero}) /\ Len(wire') <= MaxWire
    BY <1>5, HeadTailProperties, SerialPortAssumption DEF ReadByte
  <2>2. TakeDelimiter \/ \E b \in Bytes : TakeByte(b)
    BY <1>5, <2>1 DEF ReadByte
  <2>3. heard' \in 0 .. Spoilt
    BY <1>5 DEF ReadByte, Spoilt, Frame
  <2>. QED BY <1>5, <2>1, <2>2, <2>3, BufferFits DEF ReadByte, Goto
<1>6. CASE ReadStranger
  <2>1. heard' \in 0 .. Spoilt
    BY <1>6 DEF ReadStranger, Spoilt, Frame
  <2>. QED BY <1>6, <2>1, BufferFits DEF ReadStranger, Goto
<1>. QED BY <1>1, <1>2, <1>3, <1>4, <1>5, <1>6 DEF Reader

LEMMA TypeExternal == TypeInv /\ External => TypeInv'
<1> SUFFICES ASSUME TypeInv, External PROVE TypeInv'
  OBVIOUS
<1> USE DEF TypeInv, TypeOK, mainVars, readerVars, lineVars
<1>1. CASE MainboardSends
  <2>1. /\ Append(Frame, Zero) \in Seq(Bytes \union {Zero})
        /\ Len(Append(Frame, Zero)) = 3
    BY DEF Frame, Bytes
  <2>2. wire' \in Seq(Bytes \union {Zero}) /\ Len(wire') <= MaxWire
    BY <1>1, <2>1, ConcatProperties, SerialPortAssumption DEF MainboardSends
  <2>. QED BY <1>1, <2>2 DEF MainboardSends
<1>2. CASE LoseByte
  <2>1. wire' \in Seq(Bytes \union {Zero}) /\ Len(wire') <= MaxWire
    BY <1>2, HeadTailProperties, SerialPortAssumption DEF LoseByte
  <2>. QED BY <1>2, <2>1 DEF LoseByte
<1>3. CASE Drain
  BY <1>3, SerialPortAssumption DEF Drain
<1>4. CASE Plug
  <2>1. wire' \in Seq(Bytes \union {Zero}) /\ Len(wire') <= MaxWire
    BY <1>4, EmptySeq, SerialPortAssumption DEF Plug
  <2>. QED BY <1>4, <2>1 DEF Plug
<1>5. ASSUME NEW f \in Descriptors, StrangerOpens(f) \/ StrangerCloses(f) PROVE TypeInv'
  BY <1>5 DEF StrangerOpens, StrangerCloses
<1>. QED BY <1>1, <1>2, <1>3, <1>4, <1>5 DEF External

\* Every variable keeps its type: the frame buffer never exceeds its limit, for any limit.
THEOREM TypeCorrect == Spec => []TypeOK
<1>1. TypeInv /\ [Next]_vars => TypeInv'
  <2> SUFFICES ASSUME TypeInv, [Next]_vars PROVE TypeInv'
    OBVIOUS
  <2>1. CASE UNCHANGED vars
    BY <2>1 DEF vars, mainVars, readerVars, lineVars, TypeInv, TypeOK
  <2>. QED BY <2>1, TypeMain, TypeReader, TypeExternal DEF Next
<1>2. TypeInv => TypeOK
  BY DEF TypeInv
<1>. QED BY <1>1, <1>2, TypeInit, PTL DEF Spec

-----------------------------------------------------------------------------
(* The frame after a delimiter.  What the buffer holds is what was heard,   *)
(* unless it was spoilt; after a delimiter nothing is.                      *)

FrameInv == /\ heard \in 0 .. Spoilt
            /\ heard = 0 => frame = << >>
            /\ heard = 1 => frame = <<"head">>
            /\ heard = 2 => frame = Frame

LEMMA FrameInit == Init => FrameInv
  BY DEF Init, FrameInv, Spoilt, Frame

LEMMA ClosingSpoils == FrameInv /\ CloseFd /\ frame' = frame => FrameInv'
  BY DEF FrameInv, CloseFd, Spoilt, Frame

\* A letter behind a letter.
LEMMA AppendPair == ASSUME NEW S, NEW a \in S, NEW b \in S PROVE Append(<<a>>, b) = <<a, b>>
<1>1. <<a>> \in Seq(S) /\ <<a, b>> \in Seq(S) /\ Len(<<a>>) = 1 /\ Len(<<a, b>>) = 2
  OBVIOUS
<1>2. /\ Append(<<a>>, b) \in Seq(S) /\ Len(Append(<<a>>, b)) = 2
      /\ \A i \in 1 .. 1 : Append(<<a>>, b)[i] = <<a>>[i]
      /\ Append(<<a>>, b)[2] = b
  BY <1>1, AppendProperties
<1>3. \A i \in 1 .. 2 : Append(<<a>>, b)[i] = <<a, b>>[i]
  BY <1>2
<1>. QED BY <1>1, <1>2, <1>3, SeqEqual

LEMMA FrameReads == FrameInv /\ (ReadByte \/ ReadStranger) => FrameInv'
<1> SUFFICES ASSUME FrameInv, ReadByte \/ ReadStranger PROVE FrameInv'
  OBVIOUS
<1>1. Spoilt = 3
  BY DEF Spoilt, Frame
<1>2. CASE ReadStranger
  BY <1>1, <1>2 DEF ReadStranger, FrameInv
<1>3. CASE ReadByte /\ Head(wire) = Zero
  <2>1. heard' = 0 /\ frame' = << >>
    BY <1>3 DEF ReadByte, TakeDelimiter
  <2>. QED BY <1>1, <2>1 DEF FrameInv
<1>4. CASE ReadByte /\ Head(wire) # Zero
  <2>1. /\ TakeByte(Head(wire))
        /\ heard' = IF heard < 2 /\ Head(wire) = Frame[heard + 1] THEN heard + 1 ELSE 3
    BY <1>1, <1>4 DEF ReadByte, Frame
  <2>2. CASE heard = 0 /\ Head(wire) = "head"
    <3>1. heard' = 1 /\ frame' = <<"head">>
      BY <2>1, <2>2, SerialPortAssumption DEF TakeByte, FrameInv, Frame
    <3>. QED BY <1>1, <3>1 DEF FrameInv
  <2>3. CASE heard = 1 /\ Head(wire) = "tail"
    <3>1. frame = <<"head">> /\ Len(frame) = 1 /\ Len(Frame) = 2
      BY <2>3 DEF FrameInv, Frame
    <3>2. ~(Len(frame) >= MaxFrame)
      BY <3>1, SerialPortAssumption
    <3>3. TakeByte("tail")
      BY <2>1, <2>3
    <3>4. frame' = Append(frame, "tail")
      BY <3>2, <3>3, Zenon DEF TakeByte
    <3>5. Append(<<"head">>, "tail") = <<"head", "tail">>
      <4>1. "head" \in Bytes /\ "tail" \in Bytes
        BY DEF Bytes
      <4>. QED BY <4>1, AppendPair
    <3>6. heard' = 2
      BY <2>1, <2>3 DEF Frame
    <3>7. frame' = Frame
      BY <3>1, <3>5, <3>4 DEF Frame
    <3>. QED BY <1>1, <3>6, <3>7 DEF FrameInv
  <2>4. CASE ~(heard = 0 /\ Head(wire) = "head") /\ ~(heard = 1 /\ Head(wire) = "tail")
    <3>1. heard' = 3
      BY <1>1, <2>1, <2>4 DEF Frame, FrameInv
    <3>. QED BY <1>1, <3>1 DEF FrameInv
  <2>. QED BY <2>2, <2>3, <2>4
<1>. QED BY <1>2, <1>3, <1>4

LEMMA FrameNext == FrameInv /\ [Next]_vars => FrameInv'
<1> SUFFICES ASSUME FrameInv, [Next]_vars PROVE FrameInv'
  OBVIOUS
<1> USE DEF mainVars, readerVars
<1>1. CASE UNCHANGED <<frame, heard>>
  BY <1>1 DEF FrameInv
<1>2. CASE CloseFd /\ frame' = frame
  BY <1>2, ClosingSpoils
<1>3. CASE ReadByte \/ ReadStranger
  BY <1>3, FrameReads
<1>4. CASE Main
  BY <1>1, <1>2, <1>4 DEF Main, Writer, Destructor, BeginWrite, WriteChunk, WriteFails, StopRunning,
    CloseInDestructor, Join
<1>5. CASE Reader
  BY <1>1, <1>2, <1>3, <1>5 DEF Reader, LoopWhileRunning, OpenSerial, CopyFd, PollTimesOut, PollData,
    PollError, CloseSerial, ReadNothing, ReadError, ReaderStep
<1>6. CASE External
  BY <1>1, <1>6 DEF External, MainboardSends, LoseByte, Drain, Plug, StrangerOpens, StrangerCloses
<1>7. CASE UNCHANGED vars
  BY <1>1, <1>7 DEF vars
<1>. QED BY <1>4, <1>5, <1>6, <1>7 DEF Next

\* Only the delimiter behind a whole frame takes heard from two to zero, and it finds the
\* frame in the buffer.
LEMMA FrameHandled ==
  FrameInv /\ [Next]_vars => (heard = Len(Frame) /\ heard' = 0 => outcome' = "handled")
<1> SUFFICES ASSUME FrameInv, [Next]_vars, heard = Len(Frame), heard' = 0 PROVE outcome' = "handled"
  OBVIOUS
<1> USE DEF mainVars, readerVars
<1>1. heard = 2 /\ frame = Frame /\ Spoilt = 3 /\ Frame # << >>
  BY DEF FrameInv, Frame, Spoilt
<1>2. ~(UNCHANGED heard) /\ ~CloseFd
  BY <1>1 DEF CloseFd
<1>3. CASE ReadByte
  BY <1>1, <1>3 DEF ReadByte, TakeDelimiter
<1>4. CASE ReadStranger
  BY <1>1, <1>4 DEF ReadStranger
<1>5. ~Main
  BY <1>2 DEF Main, Writer, Destructor, BeginWrite, WriteChunk, WriteFails, StopRunning,
    CloseInDestructor, Join
<1>6. Reader => ReadByte \/ ReadStranger
  BY <1>2 DEF Reader, LoopWhileRunning, OpenSerial, CopyFd, PollTimesOut, PollData,
    PollError, CloseSerial, ReadNothing, ReadError, ReaderStep
<1>7. ~External
  BY <1>2 DEF External, MainboardSends, LoseByte, Drain, Plug, StrangerOpens, StrangerCloses
<1>. QED BY <1>2, <1>3, <1>4, <1>5, <1>6, <1>7 DEF Next, vars

\* A frame that arrives whole after a delimiter is handled, for any limit that holds it,
\* whatever bytes, closes and strangers came before.
THEOREM NextFrame == Spec => NextFrameArrives
<1>1. FrameInv /\ [Next]_vars => [heard = Len(Frame) /\ heard' = 0 => outcome' = "handled"]_vars
  BY FrameHandled
<1>. QED BY <1>1, FrameInit, FrameNext, PTL DEF Spec, NextFrameArrives
=============================================================================
