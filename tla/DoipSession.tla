----------------------------- MODULE DoipSession -----------------------------
(***************************************************************************)
(* A diagnostic session end to end: the tester library (DoipTester, its    *)
(* TCP half) on connection TConn to the entity's TCP side (DoipEntity),    *)
(* next to other testers that open connections and send frames of their   *)
(* own.  The tester writes bytes with the codec of doip_protocol.c; the    *)
(* entity sees the frame record its handlers decode from them, and the     *)
(* frames it answers with reach the tester as the bytes the entity's       *)
(* encoders write.                                                         *)
(***************************************************************************)
EXTENDS Integers, Sequences, FiniteSets, DoipCodec

CONSTANTS
  MaxConnections, Conns, NoSocket, LogicalAddress, TesterAddrMin,
  TesterAddrMax, InitialInactivityTime, GeneralInactivityTime, CycleTime,
  TcpFrames, MaxFrames,
  ResponseTimeout, TesterElapsed, MaxStarts, MaxInFlight, TesterAddresses,
  ActivationType, TargetAddresses, UdsRequest, MaxCalls,
  TConn,        \* the connection of the tester library
  RawFrames     \* the frames the other testers send

VARIABLES
  sock, ifState, rxq, connId, activated, srcAddr, initTimer, genTimer, pc,
  cur, status, inbound, peerClosed, peerReset, out, nFrames, activatedConns,
  udsLog, sinceArm, tState, tTimer, tEntity, tUdpOpen, tPort, nStarts, tConnId, tSock,
  tRouting, tRead, tAddr, nCalls

Entity == INSTANCE DoipEntity

(* The UDS response the entity sends: the bytes of uds_process_request    *)
(* are abstracted to a positive TesterPresent response.                    *)
UdsResponseData == <<126, 0>>

(* The bytes of a frame the entity sends on the tester's connection, as    *)
(* handle_routing_activation_request, handle_diagnostic_message and        *)
(* doip_entity_send_diagnostic_response encode it.  The tester address of  *)
(* a RoutingActivationRes is the request's source, the tester's own.       *)
FrameBytes(f) ==
  CASE f.type = "RoutingActivationRes" ->
         EncodeRoutingActivationRes([tester_address |-> tAddr,
           entity_address |-> LogicalAddress, response_code |-> f.code,
           reserved |-> 0, oem_specific |-> 0])
    [] f.type = "DiagMessageAck" -> EncodeDiagMessageAck(LogicalAddress, tAddr, 0)
    [] f.type = "DiagMessageNack" -> EncodeDiagMessageAck(LogicalAddress, 0, f.code)
    [] f.type = "DiagnosticMessage" ->
         EncodeDiagnosticMessage([source_address |-> LogicalAddress,
           target_address |-> tAddr, user_data |-> UdsResponseData])

Tester == INSTANCE DoipTester
  WITH udpNet <- {},
       tcpIn <- [k \in 1 .. Len(out[TConn]) |-> FrameBytes(out[TConn][k])],
       tcpClosed <- status[TConn] = "Closed"

(* entity_tcp_rx_callback: the frame record its handlers act on, decoded  *)
(* from the bytes of a whole frame (the records of DoipEntity's            *)
(* RoutingActivationReq, DiagnosticMessage and FrameOf).                   *)
Frame(type, src, tgt) == [type |-> type, src |-> src, tgt |-> tgt]

EntityFrame(b) ==
  LET h == DecodeHeader(b, Len(b)) IN
  CASE ~ValidateHeader(h) -> Frame("Invalid", 0, 0)
    [] h.payload_type = ROUTING_ACTIVATION_REQ ->
         Frame("RoutingActivationReq", DecodeRoutingActivationReq(b).source_address, 0)
    [] h.payload_type = DIAG_MESSAGE ->
         LET m == DecodeDiagnosticMessage(b, h.payload_length) IN
         IF m.result = "InvalidFormat" THEN Frame("DiagTruncated", 0, 0)
         ELSE Frame("DiagnosticMessage", m.source_address, m.target_address)
    [] h.payload_type = ALIVE_CHECK_RES -> Frame("AliveCheckRes", 0, 0)
    [] OTHER -> Frame("Other", 0, 0)

testerVars == <<tState, tTimer, tEntity, tUdpOpen, tPort, nStarts, tConnId,
                tSock, tRouting, tRead, tAddr, nCalls>>
entityVars == <<sock, ifState, rxq, connId, activated, srcAddr, initTimer,
                genTimer, pc, cur, status, inbound, peerClosed, peerReset, out,
                nFrames, activatedConns, udsLog, sinceArm>>
vars == <<entityVars, testerVars>>

Init == Entity!Init /\ Tester!TesterInit

(* The DoIP task's cycle, TCP half. *)
EntityStep == Entity!Task /\ UNCHANGED testerVars

(* The application's cycle: doip_tester_process, doip_tester_update_timers. *)
TesterStep == Tester!TesterCycle /\ UNCHANGED entityVars

(* doip_tester_connect: lwIP completes the handshake into the entity's    *)
(* listen backlog.                                                         *)
TesterConnect == Tester!Connect /\ Entity!Connect(TConn)

(* The tester's tcp_send: the frame reaches the entity while it has the   *)
(* connection; once the entity closed it, the data is lost or send fails. *)
TesterSends(b) ==
  \/ Entity!SendFrame(TConn, EntityFrame(b))
  \/ status[TConn] = "Closed" /\ UNCHANGED entityVars

TesterActivate ==
  \/ Tester!ActivateRouting(TRUE) /\ TesterSends(Tester!RoutingActivationRequest)
  \/ status[TConn] = "Closed" /\ Tester!ActivateRouting(FALSE) /\ UNCHANGED entityVars

TesterDiagnostic ==
  \E t \in TargetAddresses :
    Tester!SendDiagnostic(t) /\ TesterSends(Tester!DiagnosticRequest(t))

(* The other testers: raw connections, frames, closes and resets. *)
OtherTesters ==
  /\ \E c \in Conns \ {TConn} :
       \/ Entity!Connect(c) \/ Entity!PeerClose(c) \/ Entity!PeerReset(c)
       \/ \E f \in RawFrames : Entity!SendFrame(c, f)
  /\ UNCHANGED testerVars

Next == EntityStep \/ TesterStep \/ TesterConnect \/ TesterActivate
          \/ TesterDiagnostic \/ OtherTesters

(* The DoIP task wakes every cycle; the application is assumed to keep    *)
(* calling doip_tester_process and doip_tester_update_timers.              *)
Spec == Init /\ [][Next]_vars /\ WF_vars(EntityStep) /\ WF_vars(TesterStep)

=============================================================================
