------------------------------ MODULE DoipCodec ------------------------------
(***************************************************************************)
(* The DoIP wire codec of doip_protocol.c as operators over byte           *)
(* sequences.  A buffer is a sequence of bytes (0 .. 255); the C offset k  *)
(* is the sequence index k + 1.  Multi-byte integers are big-endian.       *)
(*                                                                         *)
(* TLC's integers are 32-bit signed, so a uint32_t read is exact for the   *)
(* values below 2^31; the modules that use these operators keep the top    *)
(* byte of a length below 0x80 (DoipFraming models the 2^32 wrap).        *)
(***************************************************************************)
EXTENDS Integers, Sequences

(* doip_protocol.h *)
VERSION_2012 == 2           \* DOIP_PROTOCOL_VERSION_2012
VERSION_2019 == 3           \* DOIP_PROTOCOL_VERSION_2019
INVERSE_2012 == 253         \* DOIP_INVERSE_VERSION_2012 0xFD
INVERSE_2019 == 252         \* DOIP_INVERSE_VERSION_2019 0xFC
VEHICLE_ID_REQ == 1
VEHICLE_ID_REQ_EID == 2
VEHICLE_ID_REQ_VIN == 3
VEHICLE_ANNOUNCEMENT == 4
ROUTING_ACTIVATION_REQ == 5
ROUTING_ACTIVATION_RES == 6
ALIVE_CHECK_REQ == 7
ALIVE_CHECK_RES == 8
DIAG_MESSAGE == 32769       \* 0x8001
DIAG_MESSAGE_ACK == 32770   \* 0x8002
DIAG_MESSAGE_NACK == 32771  \* 0x8003
RA_RES_SUCCESS == 16           \* DOIP_ROUTING_ACT_RES_SUCCESS
RA_RES_CONFIRM_REQUIRED == 17  \* DOIP_ROUTING_ACT_RES_CONFIRM_REQUIRED
MAX_PAYLOAD_SIZE == 4096
VIN_LENGTH == 17
EID_LENGTH == 6
GID_LENGTH == 6

(* The outcome of a decode that reads fewer than 8 bytes. *)
BufferTooSmall == "BufferTooSmall"

-----------------------------------------------------------------------------
(* write_be16, write_be32, read_be16, read_be32. *)
WriteBE16(v) == << (v \div 256) % 256, v % 256 >>
WriteBE32(v) ==
  << (v \div 16777216) % 256, (v \div 65536) % 256, (v \div 256) % 256, v % 256 >>
ReadBE16(s, off) == s[off + 1] * 256 + s[off + 2]
ReadBE32(s, off) ==
  ((s[off + 1] * 256 + s[off + 2]) * 256 + s[off + 3]) * 256 + s[off + 4]

(* The n bytes of s from C offset off on. *)
BytesAt(s, off, n) == SubSeq(s, off + 1, off + n)

-----------------------------------------------------------------------------
(* doip_encode_header: the 8 bytes of a header (the caller's buffer is     *)
(* always at least 8 bytes long).                                          *)
EncodeHeader(h) ==
  << h.protocol_version, h.inverse_protocol_version >>
    \o WriteBE16(h.payload_type) \o WriteBE32(h.payload_length)

(* doip_decode_header: no semantic check, only the buffer size. *)
DecodeHeader(s, size) ==
  IF size < 8 THEN BufferTooSmall
  ELSE [protocol_version |-> s[1], inverse_protocol_version |-> s[2],
        payload_type |-> ReadBE16(s, 2), payload_length |-> ReadBE32(s, 4)]

(* doip_validate_header: a known version pair and a payload of at most    *)
(* DOIP_MAX_PAYLOAD_SIZE bytes.                                            *)
ValidateHeader(h) ==
  /\ <<h.protocol_version, h.inverse_protocol_version>>
       \in {<<VERSION_2012, INVERSE_2012>>, <<VERSION_2019, INVERSE_2019>>}
  /\ h.payload_length <= MAX_PAYLOAD_SIZE

Header(type, len) ==
  [protocol_version |-> VERSION_2019, inverse_protocol_version |-> INVERSE_2019,
   payload_type |-> type, payload_length |-> len]

(* A mutant: the GID written where the EID belongs. *)
EncodeVehicleIdResponseGidFirst(r) ==
  EncodeHeader(Header(VEHICLE_ANNOUNCEMENT, 33))
    \o r.vin \o WriteBE16(r.logical_address) \o r.gid \o r.eid
    \o << r.further_action_required, r.sync_status >>

(* doip_encode_vehicle_id_response: header (type 0x0004, length 33), VIN,  *)
(* logical address, EID, GID, further action, sync status.                 *)
EncodeVehicleIdResponse(r) ==
  EncodeHeader(Header(VEHICLE_ANNOUNCEMENT, 33))
    \o r.vin \o WriteBE16(r.logical_address) \o r.eid \o r.gid
    \o << r.further_action_required, r.sync_status >>

(* doip_encode_routing_activation_req: 11 payload bytes. *)
EncodeRoutingActivationReq(r) ==
  EncodeHeader(Header(ROUTING_ACTIVATION_REQ, 11))
    \o WriteBE16(r.source_address) \o << r.activation_type >>
    \o WriteBE32(r.reserved) \o WriteBE32(r.oem_specific)

(* doip_decode_routing_activation_req on the payload at C offset 8 of a    *)
(* frame: the length check is commented out, so the fields are read       *)
(* whatever the payload length (the caller's buffer holds the bytes).     *)
DecodeRoutingActivationReq(s) ==
  [source_address |-> ReadBE16(s, 8), activation_type |-> s[11]]

(* doip_encode_routing_activation_res: 13 payload bytes, the response     *)
(* code at payload offset 4.                                               *)
EncodeRoutingActivationRes(r) ==
  EncodeHeader(Header(ROUTING_ACTIVATION_RES, 13))
    \o WriteBE16(r.tester_address) \o WriteBE16(r.entity_address)
    \o << r.response_code >> \o WriteBE32(r.reserved) \o WriteBE32(r.oem_specific)

(* doip_encode_diagnostic_message: source, target, user data. *)
EncodeDiagnosticMessage(m) ==
  EncodeHeader(Header(DIAG_MESSAGE, 4 + Len(m.user_data)))
    \o WriteBE16(m.source_address) \o WriteBE16(m.target_address) \o m.user_data

(* doip_decode_diagnostic_message on the payload at C offset 8: at least  *)
(* 4 payload bytes, or it fails.                                          *)
DecodeDiagnosticMessage(s, payloadLength) ==
  IF payloadLength < 4 THEN [result |-> "InvalidFormat"]
  ELSE [result |-> "OK", source_address |-> ReadBE16(s, 8), target_address |-> ReadBE16(s, 10),
        user_data |-> SubSeq(s, 13, 8 + payloadLength)]

(* doip_encode_diag_message_ack (app_doip_entity.c): ACK for code 0,      *)
(* NACK otherwise; 5 payload bytes.                                        *)
EncodeDiagMessageAck(source, target, code) ==
  EncodeHeader(Header(IF code = 0 THEN DIAG_MESSAGE_ACK ELSE DIAG_MESSAGE_NACK, 5))
    \o WriteBE16(source) \o WriteBE16(target) \o << code >>

=============================================================================
