------------------------ MODULE MC_DoipDiscoverySystem ------------------------
(***************************************************************************)
(* The discovery composition with the configuration of doip_task_example.c *)
(* (VIN "WVWZZZ1KZ1A234567", EID 00 1B 2C 3D 4E 5F, GID FF x 6, logical    *)
(* address 0x1000), a tester, and another tester's requests.               *)
(***************************************************************************)
EXTENDS DoipDiscoverySystem, DoipCodec, TLC

MC_Vin == <<87, 86, 87, 90, 90, 90, 49, 75, 90, 49, 65, 50, 51, 52, 53, 54, 55>>
MC_Eid == <<0, 27, 44, 61, 78, 95>>
MC_Gid == <<255, 255, 255, 255, 255, 255>>

(* TesterPresent, 0x3E 0x00. *)
MC_UdsRequest == <<62, 0>>

(* Requests of another tester, as bytes on the wire. *)
VinRequest ==
  EncodeHeader(Header(VEHICLE_ID_REQ_VIN, VIN_LENGTH)) \o MC_Vin
OtherVinRequest ==
  EncodeHeader(Header(VEHICLE_ID_REQ_VIN, VIN_LENGTH))
    \o SubSeq(MC_Vin, 1, VIN_LENGTH - 1) \o <<56>>
EidRequest ==
  EncodeHeader(Header(VEHICLE_ID_REQ_EID, EID_LENGTH)) \o MC_Eid
OldVersionRequest == <<1, 254, 0, 1, 0, 0, 0, 0>>
ShortDatagram == <<3, 252, 0, 1, 0>>
(* A VIN request whose header announces 17 bytes the datagram lacks. *)
TruncatedVinRequest == EncodeHeader(Header(VEHICLE_ID_REQ_VIN, VIN_LENGTH))

MC_Probes == {VinRequest, OtherVinRequest, EidRequest, OldVersionRequest, ShortDatagram}
MC_ProbesTruncated == {VinRequest, TruncatedVinRequest}

-----------------------------------------------------------------------------
(* The datagram an answered request came in, bytes as sent. *)
Identifies(b) ==
  LET h == DecodeHeader(b, Len(b)) IN
  \/ h.payload_type = VEHICLE_ID_REQ
  \/ /\ h.payload_type = VEHICLE_ID_REQ_VIN
     /\ Len(b) >= 8 + VIN_LENGTH
     /\ BytesAt(b, 8, VIN_LENGTH) = Vin
  \/ /\ h.payload_type = VEHICLE_ID_REQ_EID
     /\ Len(b) >= 8 + EID_LENGTH
     /\ BytesAt(b, 8, EID_LENGTH) = Eid

(* The entity record a discovery should produce. *)
ThisEntity == [vin |-> Vin, logical_address |-> LogicalAddress, eid |-> Eid]

TypeOK ==
  /\ tState \in Tester!States
  /\ tTimer \in 0 .. ResponseTimeout
  /\ annCount \in 0 .. 3
  /\ annTimer \in 0 .. AnnouncementInterval
  /\ nStarts \in 0 .. MaxStarts
  /\ nProbes \in 0 .. MaxProbes
  /\ Cardinality(udpNet) <= MaxInFlight
  /\ Len(udpBuf) = UdpView
  /\ tConnId = FALSE /\ tSock = FALSE /\ nCalls = 0

(* Whatever the tester stored from an announcement (its own answer, a      *)
(* duplicate, one that arrived after a timeout or a restart) is the        *)
(* entity's VIN, logical address and EID: handle_vehicle_announcement      *)
(* reads them at the offsets doip_encode_vehicle_id_response wrote them.   *)
DiscoveredIsEntity == tEntity \in {Tester!NoEntity, ThisEntity}

(* A discovery started by doip_tester_start_discovery ends: an answer sets *)
(* Idle, or doip_tester_update_timers times it out to Error, however the   *)
(* network loses or duplicates datagrams.                                  *)
DiscoveryEnds == tState = "Discovery" ~> tState # "Discovery"

(* handle_vehicle_id_request answers a VIN or EID request only when the    *)
(* request itself carries this entity's VIN or EID (spec: a VIN request    *)
(* shorter than 17 bytes is dropped or refused).                           *)
AnsweredOnlyMatching == \A b \in answered : Identifies(b)

=============================================================================
