----------------------------- MODULE DoipTester -----------------------------
(***************************************************************************)
(* The DoIP tester library (app_doip_tester.c): a client that discovers an *)
(* entity over UDP and keeps a timeout_timer for its pending request.  No  *)
(* task of the repository drives it (DOIP_ENABLE_TESTER is off and        *)
(* doip_tester_task is only declared), so its API calls are actions an     *)
(* application may take in any order, and its cycle is                     *)
(* doip_tester_process followed by doip_tester_update_timers.              *)
(*                                                                         *)
(* The tester's TCP socket comes from lwip_tcp_connect, which, unlike      *)
(* every other socket of the adapter, is left blocking: the tcp_recv of    *)
(* doip_tester_process waits until the entity sends or closes.  What the   *)
(* entity sent on the connection (tcpIn, as the bytes of whole frames) and *)
(* whether it closed it (tcpClosed) are given by the composition.         *)
(***************************************************************************)
EXTENDS Integers, Sequences, FiniteSets, DoipCodec
LOCAL INSTANCE SequencesExt

CONSTANTS
  ResponseTimeout,   \* config.response_timeout
  TesterElapsed,     \* the elapsed_ms the application passes to update_timers
  MaxStarts,         \* bound: calls of doip_tester_start_discovery
  MaxInFlight,       \* bound: datagrams in flight
  TesterAddresses,   \* the config.logical_address values to check
  ActivationType,    \* config.activation_type
  TargetAddresses,   \* target_addr arguments of doip_tester_send_diagnostic
  UdsRequest,        \* the uds_data bytes of a diagnostic request
  MaxCalls           \* bound: calls of activate_routing and send_diagnostic

VARIABLES
  tState,     \* tester->state
  tTimer,     \* tester->timeout_timer
  tEntity,    \* tester->entity: vin, logical_address, eid
  tUdpOpen,   \* tester->interface->udp_socket >= 0
  tPort,      \* which bind the tester's UDP socket came from
  nStarts,    \* calls of doip_tester_start_discovery so far
  udpNet,     \* datagrams in flight
  tConnId,    \* tester->tcp_connection_id >= 0
  tSock,      \* interface->connections[0].socket_fd >= 0
  tRouting,   \* tester->routing_activated
  tRead,      \* frames of tcpIn the tester's recv has returned
  tAddr,      \* tester->config.logical_address
  nCalls,     \* calls of activate_routing and send_diagnostic so far
  tcpIn,      \* bytes of the frames the entity sent on the connection
  tcpClosed   \* the entity closed the connection

testerVars == <<tState, tTimer, tEntity, tUdpOpen, tPort, nStarts,
                tConnId, tSock, tRouting, tRead, tAddr, nCalls>>

(* The k-th bound socket of the tester: each bind opens a new one. *)
TesterPort(k) == <<"tester", k>>

(* doip_tester_state_t *)
States == {"Idle", "Discovery", "Connecting", "Activating", "Ready", "Error"}

(* The entity record before any discovery: zero bytes. *)
NoEntity ==
  [vin |-> [i \in 1 .. VIN_LENGTH |-> 0], logical_address |-> 0,
   eid |-> [i \in 1 .. EID_LENGTH |-> 0]]

(* A datagram udp_sendto accepted: on the wire, or lost when the network  *)
(* is full.                                                                *)
Delivered(net, m) == IF Cardinality(net) < MaxInFlight THEN net \cup {m} ELSE net

-----------------------------------------------------------------------------
(* handle_vehicle_announcement: only while discovering, only with at least *)
(* 33 payload bytes; the entity is read at offsets 0, 17 and 19 of the     *)
(* payload.                                                                *)
Discovered(data) ==
  [vin |-> BytesAt(data, 8, VIN_LENGTH),
   logical_address |-> ReadBE16(data, 8 + VIN_LENGTH),
   eid |-> BytesAt(data, 8 + VIN_LENGTH + 2, EID_LENGTH)]

(* tester_udp_rx_callback: the tester state after datagram bytes. *)
AfterDatagram(data) ==
  LET h == DecodeHeader(data, Len(data)) IN
  IF /\ Len(data) >= 8
     /\ h.payload_type = VEHICLE_ANNOUNCEMENT
     /\ tState = "Discovery"
     /\ h.payload_length >= 33
  THEN [state |-> "Idle", entity |-> Discovered(data)]
  ELSE [state |-> tState, entity |-> tEntity]

(* handle_routing_activation_response reads the code at payload[4]; a    *)
(* mutant reads it at payload[2].                                           *)
ResponseCodeAt2(data) == data[8 + 2 + 1]
ResponseCode(data) == data[8 + 4 + 1]

(* handle_routing_activation_response: only while Activating, only with at *)
(* least 13 payload bytes; Success or ConfirmRequired gives Ready and sets *)
(* routing_activated, any other code gives Error.                          *)
AfterRoutingActivationResponse(st, data, len) ==
  IF st.state # "Activating" \/ len < 13 THEN st
  ELSE IF ResponseCode(data) \in {RA_RES_SUCCESS, RA_RES_CONFIRM_REQUIRED}
  THEN [state |-> "Ready", routing |-> TRUE]
  ELSE [state |-> "Error", routing |-> st.routing]

(* tester_tcp_rx_callback for one frame: a RoutingActivationRes is handled; *)
(* a DiagnosticMessage is decoded and handed to a NULL uds_indication; an   *)
(* AliveCheckReq and every other type are ignored.                         *)
AfterTcpFrame(st, data) ==
  LET h == DecodeHeader(data, Len(data)) IN
  IF h.payload_type = ROUTING_ACTIVATION_RES
  THEN AfterRoutingActivationResponse(st, data, h.payload_length)
  ELSE st

(* What doip_tester_update_timers does to a state whose timer fired. *)
TimedOutActivatingOnly(s) == IF s = "Activating" THEN "Error" ELSE s
TimedOutDiscoveryOnly(s) == IF s = "Discovery" THEN "Error" ELSE s
TimedOut(s) == IF s \in {"Discovery", "Activating"} THEN "Error" ELSE s

(* doip_tester_update_timers: the (state, timer) after one call. *)
UpdateTimers(s, t) ==
  IF t = 0 THEN <<s, t>>
  ELSE IF t > TesterElapsed THEN <<s, t - TesterElapsed>>
  ELSE <<TimedOut(s), 0>>

-----------------------------------------------------------------------------
(* doip_tester_init; the tester's UDP socket is not bound yet. *)
TesterInit ==
  /\ tState = "Idle"
  /\ tTimer = 0
  /\ tEntity = NoEntity
  /\ tUdpOpen = FALSE
  /\ tPort = 0
  /\ nStarts = 0
  /\ tConnId = FALSE
  /\ tSock = FALSE
  /\ tRouting = FALSE
  /\ tRead = 0
  /\ tAddr \in TesterAddresses
  /\ nCalls = 0

(* doip_tester_start_discovery: bind a new UDP socket on any port (a     *)
(* failed bind leaves udp_socket = -1 and returns), broadcast a            *)
(* VehicleIdReq to port 13400; only a broadcast that udp_sendto accepted   *)
(* starts the discovery.                                                   *)
StartDiscovery ==
  /\ nStarts < MaxStarts
  /\ nStarts' = nStarts + 1
  /\ \/ /\ tUdpOpen' = FALSE
        /\ UNCHANGED <<tState, tTimer, tPort, udpNet>>
     \/ /\ tUdpOpen' = TRUE
        /\ tPort' = nStarts + 1
        /\ \/ /\ udpNet' = Delivered(udpNet,
                     [from |-> TesterPort(nStarts + 1), to |-> <<"broadcast", 0>>,
                      bytes |-> EncodeHeader(Header(VEHICLE_ID_REQ, 0))])
              /\ tState' = "Discovery"
              /\ tTimer' = ResponseTimeout
           \/ UNCHANGED <<tState, tTimer, udpNet>>
  /\ UNCHANGED <<tEntity, tConnId, tSock, tRouting, tRead, tAddr, nCalls>>

(* doip_tester_connect: a blocking tcp_connect that succeeded; slot 0 of  *)
(* the interface is written directly.  The model connects once.            *)
Connect ==
  /\ ~tConnId
  /\ tConnId' = TRUE /\ tSock' = TRUE
  /\ tState' = "Connecting"
  /\ UNCHANGED <<tTimer, tEntity, tUdpOpen, tPort, nStarts, udpNet, tRouting,
                 tRead, tAddr, nCalls>>

(* The request doip_tester_activate_routing encodes. *)
RoutingActivationRequest ==
  EncodeRoutingActivationReq([source_address |-> tAddr,
    activation_type |-> ActivationType, reserved |-> 0, oem_specific |-> 0])

(* doip_tester_activate_routing with a connection: tcp_send returned ok    *)
(* (the tester is Activating, timer armed) or an error (nothing changes).  *)
(* A slot whose socket the tester closed answers NOT_READY.                *)
ActivateRouting(ok) ==
  /\ tConnId /\ tSock
  /\ nCalls < MaxCalls
  /\ nCalls' = nCalls + 1
  /\ IF ok THEN tState' = "Activating" /\ tTimer' = ResponseTimeout
           ELSE UNCHANGED <<tState, tTimer>>
  /\ UNCHANGED <<tEntity, tUdpOpen, tPort, nStarts, udpNet, tConnId, tSock,
                 tRouting, tRead, tAddr>>

(* The request doip_tester_send_diagnostic encodes. *)
DiagnosticRequest(target) ==
  EncodeDiagnosticMessage([source_address |-> tAddr, target_address |-> target,
                           user_data |-> UdsRequest])

(* doip_tester_send_diagnostic: allowed once routing_activated, whatever   *)
(* the state; the tester's state does not change.                          *)
SendDiagnostic(target) ==
  /\ tRouting /\ tSock
  /\ nCalls < MaxCalls
  /\ nCalls' = nCalls + 1
  /\ UNCHANGED <<tState, tTimer, tEntity, tUdpOpen, tPort, nStarts, udpNet,
                 tConnId, tSock, tRouting, tRead, tAddr>>

(* One cycle of the application: doip_tester_process, then               *)
(* doip_tester_update_timers.  process first reads at most one datagram     *)
(* sent to the tester's port (its socket is bound to an ephemeral port, so  *)
(* broadcasts to 13400 never reach it); recvfrom may find none.            *)
UdpPoll ==
  {[state |-> tState, entity |-> tEntity, net |-> udpNet]}
  \cup UNION {{[state |-> AfterDatagram(d.bytes).state,
                entity |-> AfterDatagram(d.bytes).entity, net |-> rest] :
                 rest \in {udpNet \ {d}, udpNet}} :
               d \in {x \in udpNet : tUdpOpen /\ x.to = TesterPort(tPort)}}

(* Then the blocking tcp_recv of slot 0: bytes completing k >= 1 frames,    *)
(* each handed to tester_tcp_rx_callback; or 0 once the entity closed, and  *)
(* the slot is closed with no callback (disconnected is NULL); with         *)
(* neither, the call does not return.                                      *)
AfterFrames(s, k) ==
  FoldLeft(AfterTcpFrame, [state |-> s, routing |-> tRouting],
           SubSeq(tcpIn, tRead + 1, tRead + k))

TcpPoll(s) ==
  IF ~tSock THEN {[state |-> s, routing |-> tRouting, read |-> tRead, sock |-> FALSE]}
  ELSE
    {[state |-> AfterFrames(s, k).state, routing |-> AfterFrames(s, k).routing,
      read |-> tRead + k, sock |-> TRUE] : k \in 1 .. Len(tcpIn) - tRead}
    \cup (IF tRead = Len(tcpIn) /\ tcpClosed
          THEN {[state |-> s, routing |-> tRouting, read |-> tRead, sock |-> FALSE]}
          ELSE {})

TesterCycle ==
  \E u \in UdpPoll :
    \E t \in TcpPoll(u.state) :
      LET v == UpdateTimers(t.state, tTimer) IN
      /\ tState' = v[1] /\ tTimer' = v[2]
      /\ tEntity' = u.entity /\ udpNet' = u.net
      /\ tRouting' = t.routing /\ tRead' = t.read /\ tSock' = t.sock
      /\ UNCHANGED <<tUdpOpen, tPort, nStarts, tConnId, tAddr, nCalls>>

(* doip_tester_is_ready *)
IsReady == tState = "Ready" /\ tRouting

=============================================================================
