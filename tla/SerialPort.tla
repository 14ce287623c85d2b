------------------------------ MODULE SerialPort ----------------------------
(***************************************************************************)
(* The serial port of the mainboard bridge                                 *)
(* (src/hardware_bridge/mainboard_serial_bridge_node.cpp), below the       *)
(* packets of MainboardBridge: bytes, the file descriptor and its mutex.   *)
(*                                                                         *)
(* The main thread runs the executor, whose timer writes a heartbeat with  *)
(* serial_mutex_ held, and at last the destructor.  The read thread opens  *)
(* the port, polls and reads a copy of the descriptor without the mutex,   *)
(* and puts frames together.  A descriptor is a number: once closed, any   *)
(* other part of the process may be given the same one.                    *)
(***************************************************************************)
EXTENDS Naturals, Sequences

CONSTANTS Descriptors,   \* numbers the process may be given
          None,          \* the number -1
          MaxFrame,      \* frame.size() is kept below this (512)
          MaxWire,       \* bound on the bytes the line holds
          Room           \* bound on the chunks the output buffer of the port takes

ASSUME SerialPortAssumption ==
  /\ None \notin Descriptors
  /\ MaxFrame \in Nat /\ MaxFrame >= 2
  /\ MaxWire \in Nat /\ MaxWire >= 3
  /\ Room \in Nat \ {0}

VARIABLES main,       \* where the main thread is: "write" holds serial_mutex_
          left,       \* the chunks write_packet() has yet to write
          reader,     \* where the read thread is
          copy,       \* its copy of the descriptor
          frame,      \* its local variable frame
          outcome,    \* what process_frame() made of the latest frame
          fd,         \* serial_fd_
          table,      \* external: what each number stands for in the kernel
          attached,   \* external: is the mainboard plugged in?
          wire,       \* external: bytes on their way to the port
          room,       \* external: free chunks of the output buffer
          heard       \* history: how much of a frame came since the latest delimiter; or Spoilt

mainVars   == <<main, left>>
readerVars == <<reader, copy, frame, outcome, heard>>
lineVars   == <<attached, wire>>
vars == <<mainVars, readerVars, fd, table, lineVars, room>>

\* One frame stands for all: COBS and the checksum tell it from everything else.
Frame == <<"head", "tail">>
Bytes == {"head", "tail"}
Zero  == "zero"

\* What came since the latest delimiter is not the beginning of a frame.
Spoilt == Len(Frame) + 1

Locked  == main = "write"
Running == main \in {"spin", "write"}

Init ==
  /\ main = "spin"
  /\ left = 0
  /\ reader = "loop"
  /\ copy = None
  /\ frame = << >>
  /\ outcome = "none"
  /\ fd = None
  /\ table \in [Descriptors -> {"free"}]
  /\ attached \in BOOLEAN
  /\ wire = << >>
  /\ room = Room
  /\ heard = 0

-----------------------------------------------------------------------------
(* The descriptor.                                                          *)

\* Mutant: serial_fd_ is not set to -1 after the close.
CloseFdKept == /\ table' = IF fd = None THEN table ELSE [table EXCEPT ![fd] = "free"]
               /\ fd' = fd
               /\ heard' = IF heard = 0 THEN 0 ELSE Spoilt

\* ::close(serial_fd_), and -1 instead.
CloseFd == /\ table' = IF fd = None THEN table ELSE [table EXCEPT ![fd] = "free"]
           /\ fd' = None
           /\ heard' = IF heard = 0 THEN 0 ELSE Spoilt

\* What a number that was passed to the kernel stands for.
Means(f) == IF f = None THEN "none" ELSE table[f]

-----------------------------------------------------------------------------
(* The main thread.                                                         *)

\* write_packet() with an open port takes the mutex; without one it returns at once.
BeginWrite == /\ main = "spin" /\ fd # None
              /\ main' = "write"
              /\ left' \in 1 .. 2
              /\ UNCHANGED <<readerVars, fd, table, lineVars, room>>

\* A full buffer makes the loop try again: no step is possible, and the mutex stays held.
WriteChunk == /\ main = "write"
              /\ Means(fd) \in {"port", "other"}
              /\ room > 0
              /\ room' = room - 1
              /\ left' = left - 1
              /\ main' = IF left = 1 THEN "spin" ELSE "write"
              /\ UNCHANGED <<readerVars, fd, table, lineVars>>

\* Mutant: every error of write() counts as a full buffer, and the loop tries again.
WriteRetries == main = "write" /\ Means(fd) \notin {"port", "other"} /\ UNCHANGED vars

WriteFails == /\ main = "write"
              /\ Means(fd) \notin {"port", "other"}
              /\ CloseFd
              /\ main' = "spin"
              /\ left' = 0
              /\ UNCHANGED <<reader, copy, frame, outcome, lineVars, room>>

\* The destructor, once rclcpp::spin() has returned: running_ first, then the port, then the thread.
StopRunning == /\ main = "spin"
               /\ main' = "closing"
               /\ UNCHANGED <<left, readerVars, fd, table, lineVars, room>>

CloseInDestructor == /\ main = "closing"
                     /\ CloseFd
                     /\ main' = "join"
                     /\ UNCHANGED <<left, reader, copy, frame, outcome, lineVars, room>>

Join == /\ main = "join" /\ reader = "exit"
        /\ main' = "end"
        /\ UNCHANGED <<left, readerVars, fd, table, lineVars, room>>

-----------------------------------------------------------------------------
(* The read thread.                                                         *)

Goto(from, to) == reader = from /\ reader' = to

LoopWhileRunning == /\ Goto("loop", IF Running THEN "open" ELSE "exit")
                    /\ UNCHANGED <<copy, frame, outcome, heard, mainVars, fd, table, lineVars, room>>

\* Mutant: the port is opened again although it is open.
OpenSerialAgain ==
  /\ ~Locked
  /\ \/ /\ attached
        /\ Goto("open", "copy")
        /\ \E f \in Descriptors : /\ table[f] = "free"
                                  /\ fd' = f
                                  /\ table' = [table EXCEPT ![f] = "port"]
        /\ room' = Room
     \/ /\ ~attached
        /\ Goto("open", "loop")
        /\ UNCHANGED <<fd, table, room>>
  /\ UNCHANGED <<copy, frame, outcome, heard, mainVars, lineVars>>

\* open_serial(): there already, or opened and configured now, or not to be had for now.  A
\* descriptor that cannot be configured is closed again before the mutex is released.
OpenSerial ==
  /\ ~Locked
  /\ \/ /\ fd # None
        /\ Goto("open", "copy")
        /\ UNCHANGED <<fd, table, room>>
     \/ /\ fd = None /\ attached
        /\ Goto("open", "copy")
        /\ \E f \in Descriptors : /\ table[f] = "free"
                                  /\ fd' = f
                                  /\ table' = [table EXCEPT ![f] = "port"]
        /\ room' = Room
     \/ /\ fd = None
        /\ Goto("open", "loop")
        /\ UNCHANGED <<fd, table, room>>
  /\ UNCHANGED <<copy, frame, outcome, heard, mainVars, lineVars>>

CopyFd == /\ ~Locked
          /\ Goto("copy", "poll")
          /\ copy' = fd
          /\ UNCHANGED <<frame, outcome, heard, mainVars, fd, table, lineVars, room>>

ReaderStep(from, to) == /\ Goto(from, to)
                        /\ UNCHANGED <<copy, frame, outcome, heard, mainVars, fd, table, lineVars, room>>

\* Mutant: poll() has no timeout.
PollWaitsForData == Means(copy) = "other" /\ ReaderStep("poll", "loop")

\* 200 ms without an event; a negative descriptor never has one.
PollTimesOut == /\ \/ Means(copy) \in {"none", "other"}
                   \/ Means(copy) = "port" /\ wire = << >>
                /\ ReaderStep("poll", "loop")

PollData == /\ \/ Means(copy) = "port" /\ wire # << >>
               \/ Means(copy) = "other"
            /\ ReaderStep("poll", "read")

\* Mutant: a hangup is not looked for.
PollErrorNoHangup == Means(copy) \in {"free", "other"} /\ ReaderStep("poll", "close")

\* POLLHUP or POLLERR of a device that is gone, POLLNVAL of a number that was closed.
PollError == Means(copy) \in {"hung", "free", "other"} /\ ReaderStep("poll", "close")

\* Mutant: the read thread closes the descriptor it polled.
CloseSerialCopy == /\ ~Locked
                   /\ Goto("close", "loop")
                   /\ table' = IF copy = None THEN table ELSE [table EXCEPT ![copy] = "free"]
                   /\ fd' = None
                   /\ heard' = IF heard = 0 THEN 0 ELSE Spoilt
                   /\ UNCHANGED <<copy, frame, outcome, mainVars, lineVars, room>>

CloseSerial == /\ ~Locked
               /\ Goto("close", "loop")
               /\ CloseFd
               /\ UNCHANGED <<copy, frame, outcome, mainVars, lineVars, room>>

\* A byte that is not a delimiter; one too many empties the frame and is dropped with it.
TakeByte(b) == /\ frame' = IF Len(frame) >= MaxFrame THEN << >> ELSE Append(frame, b)
               /\ outcome' = "none"

\* Mutant: a frame that is not valid stays in the buffer.
TakeDelimiterKeeps == /\ outcome' = IF frame = << >> THEN "none"
                                    ELSE IF frame = Frame THEN "handled" ELSE "dropped"
                      /\ frame' = IF frame = Frame THEN << >> ELSE frame

\* A delimiter: process_frame(), unless the frame is empty.
TakeDelimiter == /\ outcome' = IF frame = << >> THEN "none"
                               ELSE IF frame = Frame THEN "handled" ELSE "dropped"
                 /\ frame' = << >>

ReadByte == /\ Means(copy) = "port" /\ wire # << >>
            /\ Goto("read", "loop")
            /\ wire' = Tail(wire)
            /\ \/ /\ Head(wire) = Zero
                  /\ TakeDelimiter
                  /\ heard' = 0
               \/ /\ Head(wire) # Zero
                  /\ TakeByte(Head(wire))
                  /\ heard' = IF heard < Len(Frame) /\ Head(wire) = Frame[heard + 1] THEN heard + 1 ELSE Spoilt
            /\ UNCHANGED <<copy, mainVars, fd, table, attached, room>>

\* The number has been given away between poll() and the copy: a byte of somebody else's.
ReadStranger == /\ Means(copy) = "other"
                /\ Goto("read", "loop")
                /\ TakeDelimiter \/ \E b \in Bytes : TakeByte(b)
                /\ heard' = Spoilt
                /\ UNCHANGED <<copy, mainVars, fd, table, lineVars, room>>

\* EAGAIN, or the end of file of a device that is gone.
ReadNothing == /\ Means(copy) \in {"port", "hung", "other"}
               /\ Means(copy) = "port" => wire = << >>
               /\ ReaderStep("read", "loop")

ReadError == Means(copy) \in {"hung", "free", "other"} /\ ReaderStep("read", "close")

Reader == \/ LoopWhileRunning \/ OpenSerial \/ CopyFd
          \/ PollTimesOut \/ PollData \/ PollError \/ CloseSerial
          \/ ReadByte \/ ReadStranger \/ ReadNothing \/ ReadError

-----------------------------------------------------------------------------
(* External: the mainboard, the line, and the rest of the process.          *)

MainboardSends == /\ attached
                  /\ Len(wire) + 3 <= MaxWire
                  /\ wire' = wire \o Append(Frame, Zero)
                  /\ UNCHANGED <<mainVars, readerVars, fd, table, attached, room>>

LoseByte == /\ wire # << >>
            /\ wire' = Tail(wire)
            /\ UNCHANGED <<mainVars, readerVars, fd, table, attached, room>>

Drain == /\ attached /\ room < Room
         /\ room' = room + 1
         /\ UNCHANGED <<mainVars, readerVars, fd, table, lineVars>>

\* A descriptor of a device that was unplugged stays bad, also when the device comes back.
Plug == /\ attached' = ~attached
        /\ table' = [f \in Descriptors |-> IF table[f] = "port" THEN "hung" ELSE table[f]]
        /\ wire' = << >>
        /\ UNCHANGED <<mainVars, readerVars, fd, room>>

\* The bound: one stranger at a time.
StrangerOpens(f) == /\ table[f] = "free"
                    /\ \A g \in Descriptors : table[g] # "other"
                    /\ table' = [table EXCEPT ![f] = "other"]
                    /\ UNCHANGED <<mainVars, readerVars, fd, lineVars, room>>

StrangerCloses(f) == /\ table[f] = "other"
                     /\ table' = [table EXCEPT ![f] = "free"]
                     /\ UNCHANGED <<mainVars, readerVars, fd, lineVars, room>>

-----------------------------------------------------------------------------
Writer == WriteChunk \/ WriteFails

Destructor == CloseInDestructor \/ Join

Main == BeginWrite \/ Writer \/ StopRunning \/ Destructor

External == \/ MainboardSends \/ LoseByte \/ Drain \/ Plug
            \/ \E f \in Descriptors : StrangerOpens(f) \/ StrangerCloses(f)

Next == Main \/ Reader \/ External

Spec == Init /\ [][Next]_vars

OpensAtLast == OpenSerial /\ fd' # None

\* Both threads run.  The read thread finds the mutex free again and again, and heartbeats are
\* far apart, so that it gets it in the end; and one of its tries to open and configure a port
\* that is there succeeds.
FairSpec == /\ Spec
            /\ SF_vars(Reader)
            /\ SF_vars(OpensAtLast)
            /\ WF_vars(Writer)
            /\ WF_vars(Destructor)
            /\ WF_vars(Drain)

-----------------------------------------------------------------------------
(* Properties.                                                              *)

TypeOK ==
  /\ main \in {"spin", "write", "closing", "join", "end"}
  /\ left \in 0 .. 2
  /\ reader \in {"loop", "open", "copy", "poll", "read", "close", "exit"}
  /\ copy \in Descriptors \union {None}
  /\ fd \in Descriptors \union {None}
  /\ frame \in Seq(Bytes) /\ Len(frame) <= MaxFrame
  /\ outcome \in {"none", "handled", "dropped"}
  /\ table \in [Descriptors -> {"free", "port", "hung", "other"}]
  /\ attached \in BOOLEAN
  /\ wire \in Seq(Bytes \union {Zero}) /\ Len(wire) <= MaxWire
  /\ room \in 0 .. Room
  /\ heard \in 0 .. Spoilt

\* serial_fd_ is never a number that was closed, or that somebody else was given: whoever
\* finds the port dead first, both threads agree that it is closed, and a heartbeat is never
\* written into a stranger's descriptor.
OwnsDescriptor == fd # None => table[fd] \in {"port", "hung"}

\* The bridge holds one descriptor of the port at most: reconnecting, however the two
\* threads race, leaves no open one behind.
NoDescriptorLeaks == \A f \in Descriptors : table[f] \in {"port", "hung"} => f = fd

\* The descriptor of a stranger is closed by the stranger: errors of the read thread, which
\* it may get from a number that was given away, never close it.
StrangersAreLeftAlone ==
  [][\A f \in Descriptors : table[f] = "other" /\ table'[f] # "other" => StrangerCloses(f)]_vars

\* A frame that arrives whole after a delimiter is handled, whatever was received before: a
\* lost byte, an oversized frame or a reconnect costs one frame, never the one after it.
NextFrameArrives ==
  [][heard = Len(Frame) /\ heard' = 0 => outcome' = "handled"]_vars

\* The destructor comes to its end: the read thread sees that it is to stop, wherever it is.
ShutdownEnds == main = "closing" ~> main = "end"

\* A mainboard that stays plugged in is listened to: what it sent does not wait for ever,
\* whatever a heartbeat in the middle of its chunks, a dead descriptor or a given-away number
\* does to the read thread.  It rests on the mainboard reading on (Drain).
LineIsRead == <>[](attached /\ Running) => []<>(wire = << >>)

\* A port that comes back, and stays, is opened again, whichever thread notices that the old
\* descriptor is dead.
Reconnects ==
  <>[](attached /\ Running) => <>[](fd # None /\ Means(fd) = "port")
=============================================================================
