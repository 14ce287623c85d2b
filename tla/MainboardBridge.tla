--------------------------- MODULE MainboardBridge --------------------------
(***************************************************************************)
(* The emergency handshake of the mainboard bridge                         *)
(* (src/hardware_bridge/mainboard_serial_bridge_node.cpp).                 *)
(*                                                                         *)
(* The executor thread serves /hardware/set_emergency and                  *)
(* /hardware/clear_emergency and sends a heartbeat at every tick of its    *)
(* timer; the read thread handles the status packets of the mainboard and  *)
(* reconnects.  They share three atomic flags and the serial port.  The    *)
(* mainboard is external: a heartbeat's request sets its emergency latch,  *)
(* a release clears it, and a request outweighs a release in one packet.   *)
(***************************************************************************)
EXTENDS Naturals, Sequences

CONSTANT MaxInFlight   \* bound on the packets each direction of the serial line holds

ASSUME MainboardBridgeAssumption == MaxInFlight \in Nat \ {0}

VARIABLES requested,   \* emergency_requested_
          release,     \* release_requested_
          lowLevel,    \* low_level_emergency_
          heartbeat,   \* what send_heartbeat() has put together so far
          sender,      \* where the executor thread is: "idle", or inside send_heartbeat()
          reader,      \* where the read thread is: "poll", or inside handle_status()
          open,        \* is serial_fd_ valid?
          port,        \* external: is the mainboard plugged in?
          down,        \* external: heartbeats on the line
          up,          \* external: status packets on the line, as "is there an emergency?"
          latch,       \* external: the emergency latch of the mainboard
          button       \* external: stop button or lift switch

flags == <<requested, release, lowLevel>>
board == <<latch, button>>
line  == <<port, down, up>>
vars  == <<flags, heartbeat, sender, reader, open, board, line>>

Heartbeats == [request: BOOLEAN, release: BOOLEAN]
NoHeartbeat == [request |-> FALSE, release |-> FALSE]

Init ==
  /\ requested = FALSE
  /\ release = FALSE
  /\ lowLevel = FALSE
  /\ heartbeat = NoHeartbeat
  /\ sender = "idle"
  /\ reader = "poll"
  /\ open = FALSE
  /\ port \in BOOLEAN
  /\ down = << >>
  /\ up = << >>
  /\ latch \in BOOLEAN
  /\ button = FALSE

-----------------------------------------------------------------------------
(* The executor thread: the two services.                                   *)

\* A request does not take back a release that is still pending.
SetEmergency(data) == /\ sender = "idle"
                      /\ requested' = data
                      /\ release' = (release \/ ~data)
                      /\ UNCHANGED <<lowLevel, heartbeat, sender, reader, open, board, line>>

ClearEmergency == SetEmergency(FALSE)

-----------------------------------------------------------------------------
(* The executor thread: send_heartbeat(), with one step per flag it loads.  *)

\* A request is not repeated while the mainboard reports an emergency.
LoadRequest == /\ sender = "idle"
               /\ heartbeat' = [NoHeartbeat EXCEPT !.request = requested /\ ~lowLevel]
               /\ sender' = "release"
               /\ UNCHANGED <<flags, reader, open, board, line>>

\* Mutant: the mask of the request is put on the release, too.
LoadReleaseMasked == /\ sender = "release"
                     /\ heartbeat' = [heartbeat EXCEPT !.release = release /\ ~lowLevel]
                     /\ sender' = "write"
                     /\ UNCHANGED <<flags, reader, open, board, line>>

LoadRelease == /\ sender = "release"
               /\ heartbeat' = [heartbeat EXCEPT !.release = release]
               /\ sender' = "write"
               /\ UNCHANGED <<flags, reader, open, board, line>>

\* write_packet(): nothing without a port; an error closes it; a full line is tried again.
WritePacket == /\ sender = "write"
               /\ \/ open /\ port /\ Len(down) < MaxInFlight
                     /\ down' = Append(down, heartbeat)
                     /\ open' = open
                  \/ ~(open /\ port)
                     /\ open' = FALSE
                     /\ down' = down
               /\ sender' = "idle"
               /\ heartbeat' = NoHeartbeat
               /\ UNCHANGED <<flags, reader, board, port, up>>

Heartbeat == LoadRequest \/ LoadRelease \/ WritePacket

-----------------------------------------------------------------------------
(* The read thread.                                                         *)

OpenSerial == /\ reader = "poll"
              /\ ~open /\ port
              /\ open' = TRUE
              /\ UNCHANGED <<flags, heartbeat, sender, reader, board, line>>

\* Hangup, poll error or read error.
CloseSerial == /\ reader = "poll"
               /\ open /\ ~port
               /\ open' = FALSE
               /\ UNCHANGED <<flags, heartbeat, sender, reader, board, line>>

Receive == /\ reader = "poll"
           /\ open
           /\ up # << >>
           /\ up' = Tail(up)

\* Mutant: the bridge goes on believing the first emergency it is told of.
HandleStatusSticky == /\ Receive
                      /\ lowLevel' = (lowLevel \/ Head(up))
                      /\ reader' = IF Head(up) THEN "poll" ELSE "clear"
                      /\ UNCHANGED <<requested, release, heartbeat, sender, open, board, port, down>>

\* handle_status(): low_level_emergency_ first, then, without emergency, release_requested_.
HandleStatus == /\ Receive
                /\ lowLevel' = Head(up)
                /\ reader' = IF Head(up) THEN "poll" ELSE "clear"
                /\ UNCHANGED <<requested, release, heartbeat, sender, open, board, port, down>>

\* A frame with a bad code or checksum is dropped.
DropStatus == /\ Receive
              /\ UNCHANGED <<flags, heartbeat, sender, reader, open, board, port, down>>

\* Mutant: a status without emergency leaves the release pending.
ClearReleaseNot == /\ reader = "clear"
                   /\ reader' = "poll"
                   /\ UNCHANGED <<flags, heartbeat, sender, open, board, line>>

ClearRelease == /\ reader = "clear"
                /\ release' = FALSE
                /\ reader' = "poll"
                /\ UNCHANGED <<requested, lowLevel, heartbeat, sender, open, board, line>>

-----------------------------------------------------------------------------
(* External: the mainboard, its buttons and the line.                       *)

Emergency == latch \/ button

BoardReceives == /\ port
                 /\ down # << >>
                 /\ down' = Tail(down)
                 /\ latch' = (Head(down).request \/ (latch /\ ~Head(down).release) \/ button)
                 /\ UNCHANGED <<flags, heartbeat, sender, reader, open, button, port, up>>

BoardDrops == /\ port
              /\ down # << >>
              /\ down' = Tail(down)
              /\ UNCHANGED <<flags, heartbeat, sender, reader, open, board, port, up>>

BoardReports == /\ port
                /\ Len(up) < MaxInFlight
                /\ up' = Append(up, Emergency)
                /\ UNCHANGED <<flags, heartbeat, sender, reader, open, board, port, down>>

Button == /\ button' = ~button
          /\ latch' = TRUE
          /\ UNCHANGED <<flags, heartbeat, sender, reader, open, line>>

Plug == /\ port' = ~port
        /\ down' = << >>
        /\ up' = << >>
        /\ UNCHANGED <<flags, heartbeat, sender, reader, open, board>>

-----------------------------------------------------------------------------
Services == ClearEmergency \/ \E data \in BOOLEAN : SetEmergency(data)

Reader == OpenSerial \/ CloseSerial \/ HandleStatus \/ DropStatus \/ ClearRelease

External == BoardReceives \/ BoardDrops \/ BoardReports \/ Button \/ Plug

Next == Services \/ Heartbeat \/ Reader \/ External

Spec == Init /\ [][Next]_vars

\* Timer and read thread run, the mainboard reports, and the line does not corrupt every
\* packet of a direction for ever.  Clients, buttons and the plug need not do anything.
FairSpec == /\ Spec
            /\ SF_vars(Heartbeat)
            /\ WF_vars(OpenSerial \/ CloseSerial \/ ClearRelease)
            /\ WF_vars(BoardReports)
            /\ SF_vars(HandleStatus)
            /\ SF_vars(BoardReceives)

-----------------------------------------------------------------------------
(* Properties.                                                              *)

TypeOK ==
  /\ requested \in BOOLEAN /\ release \in BOOLEAN /\ lowLevel \in BOOLEAN
  /\ heartbeat \in Heartbeats
  /\ sender \in {"idle", "release", "write"}
  /\ reader \in {"poll", "clear"}
  /\ open \in BOOLEAN /\ port \in BOOLEAN
  /\ down \in Seq(Heartbeats) /\ Len(down) <= MaxInFlight
  /\ up \in Seq(BOOLEAN) /\ Len(up) <= MaxInFlight
  /\ latch \in BOOLEAN /\ button \in BOOLEAN

\* An emergency request that stands ends with the mainboard latched for good once the buttons
\* rest, whatever was lost, stale or still pending from before: the loop of heartbeat, status
\* and mask converges.
EmergencyTakesHold == <>[](requested /\ ~button /\ port) => <>[]latch

\* An operator who keeps asking for a release gets it, once no request stands and no button
\* is held: a late status packet may cost a release request, never all of them.
ReleaseTakesHold ==
  <>[](~requested /\ ~button /\ port) /\ []<>release => []<>~latch

\* A release that stays pending does so only because the mainboard keeps reporting
\* emergencies: it is not carried over, for ever, to emergencies to come.
ReleaseIsForgotten == <>[](release /\ port) => []<>latch

\* The mainboard is not asked to release while a request stands ("Emergency request
\* latched").  The code breaks this: the request leaves an earlier release pending.
HeartbeatKeepsRequest == sender = "write" /\ requested => ~heartbeat.release
=============================================================================
