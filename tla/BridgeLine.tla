----------------------------- MODULE BridgeLine -----------------------------
(***************************************************************************)
(* The handshake of MainboardBridge over the bytes of PacketCodec.         *)
(*                                                                         *)
(* MainboardBridge has packets on the line, which get lost but are never   *)
(* altered.  Here the packets become the bytes that the code writes and    *)
(* reads, and the two properties say that this abstraction is right: the   *)
(* bytes of the packets on the line are read back as these packets, and    *)
(* damage to the bytes loses packets, as DropStatus does, and no more.     *)
(* Button events are on the line with the status packets.                  *)
(***************************************************************************)
EXTENDS MainboardBridge, PacketCodec

\* LlStatus with some readings, and the stop bit for an emergency.
StatusPacket(emergency) ==
  Sealed(<<LlStatus, 6>> \o [i \in 1..20 |-> IF i % 4 = 0 THEN 63 ELSE 0]
         \o <<IF emergency THEN 2 ELSE 0>>
         \o <<0, 0, 236, 65>> \o <<0, 0, 200, 65>> \o <<205, 204, 12, 191>> \o <<80>>)

UiEventPacket(button_id, press_duration) == Sealed(<<LlUiEvent, button_id, press_duration>>)

\* Where handle_status() finds emergency_bitmask.
EmergencyOffset == 23

\* What handle_status() makes of the packets that are handled.
Emergencies[packets \in Seq(Seq(Byte))] ==
  LET n == Len(packets)
  IN  IF n = 0 THEN <<>>
      ELSE Emergencies[First(packets, n - 1)]
             \o (IF packets[n][1] = LlStatus THEN <<packets[n][EmergencyOffset] # 0>> ELSE <<>>)

Reports == UNION {[1..n -> BOOLEAN] : n \in 0..MaxInFlight}

\* The packets behind the reports on the line: a button event before each.
Upstream[reports \in Reports] ==
  LET n == Len(reports)
  IN  IF n = 0 THEN <<>>
      ELSE Upstream[First(reports, n - 1)]
             \o <<UiEventPacket(n % 256, 0), StatusPacket(reports[n])>>

HeartbeatPacket(beat) ==
  Sealed(<<LlHeartbeat, IF beat.request THEN 1 ELSE 0, IF beat.release THEN 1 ELSE 0>>)

-----------------------------------------------------------------------------
(* Properties.                                                              *)

HeartbeatsReturn == \A beat \in Heartbeats : RoundTrip(HeartbeatPacket(beat))

ReportsReturn ==
  \A reports \in Reports : Emergencies[Received[Bytes[Upstream[reports]]]] = reports

(* Whatever is encoded, with zeros anywhere and blocks of any length, comes   *)
(* back, in a frame without a zero but its delimiter; so does every           *)
(* heartbeat, and the read loop makes of the bytes of the status packets     *)
(* that may be on the line the emergencies the mainboard reported, in order. *)
FramesComeBack == /\ SamplesReturn
                  /\ HeartbeatsReturn
                  /\ up \in Reports /\ ReportsReturn

DamageAlwaysShows == \A reports \in Reports : DamageShows(Upstream[reports])

(* With one byte of the line damaged, the packets that are handled are those  *)
(* on the line, in order, less two neighbours at most: a packet gets lost,   *)
(* none is altered or invented, and the read loop is soon in step again.     *)
DamageIsNoticed == up \in Reports /\ DamageAlwaysShows
=============================================================================
