---------------------------- MODULE DoipDiscovery ----------------------------
(***************************************************************************)
(* The UDP half of the DoIP entity: step 1 of doip_interface_process (one  *)
(* udp_recvfrom into udp_rx_buffer, then entity_udp_rx_callback) and the   *)
(* announcement half of doip_entity_update_timers.  It shares no variable  *)
(* with the TCP half (DoipEntity): the DoIP task runs both in the same     *)
(* locked cycle, so the task is the product of the two.                    *)
(*                                                                         *)
(* A datagram is a record: from and to name the sockets (the entity's      *)
(* port 13400, a tester's port, or the broadcast to 13400), bytes is its   *)
(* content.  udpNet holds the datagrams in flight; UDP may lose, duplicate *)
(* and reorder them.                                                       *)
(***************************************************************************)
EXTENDS Integers, Sequences, FiniteSets, DoipCodec

CONSTANTS
  Vin, Eid, Gid,          \* config.vin, config.eid, config.gid (byte sequences)
  LogicalAddress,         \* config.logical_address
  CycleTime,              \* DOIP_ENTITY_CYCLE_TIME_MS, the elapsed_ms of update_timers
  AnnouncementInterval,   \* the 500 ms re-arm of announcement_timer
  UdpView,                \* bytes of udp_rx_buffer the entity can read (8 + 17)
  MaxInFlight             \* bound: datagrams in flight

ASSUME Len(Vin) = VIN_LENGTH /\ Len(Eid) = EID_LENGTH /\ Len(Gid) = GID_LENGTH
ASSUME UdpView >= 8 + VIN_LENGTH

VARIABLES
  udpBuf,     \* interface.udp_rx_buffer[0 .. UdpView - 1]
  annCount,   \* entity.announcement_count
  annTimer,   \* entity.announcement_timer
  udpNet,     \* datagrams in flight
  answered    \* history: the requests the entity answered

entityVars == <<udpBuf, annCount, annTimer, answered>>

EntityPort == <<"entity", 0>>
Broadcast == <<"broadcast", 0>>

-----------------------------------------------------------------------------
(* The VehicleIdResponse the entity builds from its config, for an         *)
(* announcement and for an answer alike.                                   *)
VehicleIdResponse ==
  [vin |-> Vin, logical_address |-> LogicalAddress, eid |-> Eid, gid |-> Gid,
   further_action_required |-> 0, sync_status |-> 0]

(* udp_sendto of one datagram whose result the entity ignores: it fails,  *)
(* or the datagram is on the wire (lost when the network is full).         *)
Sends(net, m) ==
  {net, IF Cardinality(net) < MaxInFlight THEN net \cup {m} ELSE net}

(* recvfrom copies the datagram to the front of udp_rx_buffer; the bytes   *)
(* after it are left from earlier datagrams.                               *)
Received(buf, bytes) ==
  IF Len(bytes) >= UdpView THEN SubSeq(bytes, 1, UdpView)
  ELSE bytes \o SubSeq(buf, Len(bytes) + 1, UdpView)

(* handle_vehicle_id_request: whether to answer.  The payload compared is  *)
(* &data[8], for header.payload_length bytes: it is not checked against    *)
(* the length of the datagram.                                             *)
ShouldRespond(h, data) ==
  \/ h.payload_type = VEHICLE_ID_REQ
  \/ /\ h.payload_type = VEHICLE_ID_REQ_VIN
     /\ h.payload_length >= VIN_LENGTH
     /\ BytesAt(data, 8, VIN_LENGTH) = Vin
  \/ /\ h.payload_type = VEHICLE_ID_REQ_EID
     /\ h.payload_length >= EID_LENGTH
     /\ BytesAt(data, 8, EID_LENGTH) = Eid

(* entity_udp_rx_callback for datagram d now at the front of data: the     *)
(* set of (network, answered) outcomes.                                    *)
UdpRxCallback(d, data, net) ==
  LET n == Len(d.bytes)
      h == DecodeHeader(data, n)
  IN
  IF n < 8 THEN {<<net, answered>>}
  ELSE IF ~ValidateHeader(h) THEN {<<net, answered>>}
  ELSE IF h.payload_type \in {VEHICLE_ID_REQ, VEHICLE_ID_REQ_EID, VEHICLE_ID_REQ_VIN}
          /\ ShouldRespond(h, data)
  THEN {<<net2, answered \cup {d.bytes}>> :
          net2 \in Sends(net, [from |-> EntityPort, to |-> d.from,
                               bytes |-> EncodeVehicleIdResponse(VehicleIdResponse)])}
  ELSE {<<net, answered>>}

(* A mutant: announcements without the limit of three. *)
AnnounceUnlimited(net) ==
  IF annTimer > CycleTime THEN {<<annTimer - CycleTime, annCount, net>>}
  ELSE {<<AnnouncementInterval, annCount + 1, net2>> :
          net2 \in Sends(net, [from |-> EntityPort, to |-> Broadcast,
                               bytes |-> EncodeVehicleIdResponse(VehicleIdResponse)])}

(* The announcement half of doip_entity_update_timers (lines 476-484):     *)
(* the set of (timer, count, network) outcomes.  The count goes up whether *)
(* or not the broadcast succeeded.                                         *)
Announce(net) ==
  IF annCount >= 3 THEN {<<annTimer, annCount, net>>}
  ELSE IF annTimer > CycleTime THEN {<<annTimer - CycleTime, annCount, net>>}
  ELSE {<<AnnouncementInterval, annCount + 1, net2>> :
          net2 \in Sends(net, [from |-> EntityPort, to |-> Broadcast,
                               bytes |-> EncodeVehicleIdResponse(VehicleIdResponse)])}

-----------------------------------------------------------------------------
(* doip_entity_init and doip_entity_start: count and timer zero, so the   *)
(* first update_timers announces.  udp_rx_buffer is a static, all zeros.   *)
EntityInit ==
  /\ udpBuf = [i \in 1 .. UdpView |-> 0]
  /\ annCount = 0
  /\ annTimer = 0
  /\ answered = {}

(* One DoIP task cycle, UDP half: udp_recvfrom returns a datagram sent to  *)
(* port 13400 (it may stay in flight: a duplicate) ...                    *)
EntityCycleRecv ==
  \E d \in udpNet :
    /\ d.to \in {EntityPort, Broadcast}
    /\ d.from # EntityPort
    /\ \E rest \in {udpNet \ {d}, udpNet} :
         LET data == Received(udpBuf, d.bytes) IN
         \E o \in UdpRxCallback(d, data, rest) :
           \E a \in Announce(o[1]) :
             /\ udpBuf' = data
             /\ answered' = o[2]
             /\ annTimer' = a[1] /\ annCount' = a[2] /\ udpNet' = a[3]

(* ... or nothing (would block); then update_timers.                       *)
EntityCycleIdle ==
  \E a \in Announce(udpNet) :
    /\ annTimer' = a[1] /\ annCount' = a[2] /\ udpNet' = a[3]
    /\ UNCHANGED <<udpBuf, answered>>

EntityCycle == EntityCycleRecv \/ EntityCycleIdle

=============================================================================
