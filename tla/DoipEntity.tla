----------------------------- MODULE DoipEntity -----------------------------
(***************************************************************************)
(* The DoIP entity's TCP connection handling, at the level of whole DoIP   *)
(* frames.  It composes                                                    *)
(*   - the connection slots of doip_interface.c (socket_fd, state, the     *)
(*     complete frames waiting in rx_buffer),                              *)
(*   - the per-slot state of app_doip_entity.c (connection_id,             *)
(*     is_activated, source_address, the two inactivity timers),           *)
(*   - the DoIP task loop of doip_task_example.c, one iteration of which   *)
(*     is doip_entity_process followed by doip_entity_update_timers, and   *)
(*   - the environment: testers that connect, send frames and close.       *)
(* The loop is a program counter: accept, then for each slot               *)
(* one tcp_recv and the delivery of each complete frame it produced, then  *)
(* the timers.  The lwIP thread (the environment) runs between any two of  *)
(* these steps.  How bytes become frames is modelled in DoipFraming; the   *)
(* UDP half of the loop and the announcement half of the timer update,    *)
(* which share no state with the TCP side, in DoipDiscovery.              *)
(***************************************************************************)
EXTENDS Integers, Sequences, FiniteSets

CONSTANTS
  MaxConnections,        \* DOIP_MAX_CONNECTIONS (doip_interface.h: 2)
  Conns,                 \* TCP connections testers may open (model values)
  NoSocket,              \* INVALID_SOCKET (-1)
  LogicalAddress,        \* config.logical_address
  TesterAddrMin,         \* DOIP_TESTER_ADDRESS_MIN
  TesterAddrMax,         \* DOIP_TESTER_ADDRESS_MAX
  InitialInactivityTime, \* config.initial_inactivity_time
  GeneralInactivityTime, \* config.general_inactivity_time
  CycleTime,             \* DOIP_ENTITY_CYCLE_TIME_MS, the elapsed_ms of a tick
  TcpFrames,             \* the frames a tester may send
  MaxFrames              \* bound: frames sent by all testers together

Slots == 0 .. MaxConnections - 1

ASSUME MaxConnections \in Nat \ {0}
ASSUME NoSocket \notin Conns
ASSUME CycleTime \in Nat \ {0}

(* Payload and response codes of doip_protocol.h. *)
RA_SUCCESS == 16          \* DOIP_ROUTING_ACT_RES_SUCCESS (0x10)
RA_UNKNOWN_SOURCE == 0    \* DOIP_ROUTING_ACT_RES_UNKNOWN_SOURCE (0x00)
NACK_INVALID_SOURCE == 2  \* DOIP_DIAG_NACK_INVALID_SOURCE
NACK_UNKNOWN_TARGET == 3  \* DOIP_DIAG_NACK_UNKNOWN_TARGET

(* The frames a tester can send, after decode_header.  "Invalid" fails     *)
(* doip_validate_header; "DiagTruncated" is a DiagnosticMessage whose      *)
(* payload is shorter than 4 bytes, so doip_decode_diagnostic_message      *)
(* fails; "AliveCheckRes" and "Other" change nothing the entity keeps.     *)
RoutingActivationReq(a) == [type |-> "RoutingActivationReq", src |-> a, tgt |-> 0]
DiagnosticMessage(a, t) == [type |-> "DiagnosticMessage", src |-> a, tgt |-> t]
FrameOf(type) == [type |-> type, src |-> 0, tgt |-> 0]

VARIABLES
  sock,           \* doip_interface_t: connections[i].socket_fd
  ifState,        \* doip_interface_t: connections[i].state
  rxq,            \* complete frames in connections[i].rx_buffer, not yet delivered
  connId,         \* doip_entity_t: connections[i].connection_id >= 0
  activated,      \* doip_entity_t: connections[i].is_activated
  srcAddr,        \* doip_entity_t: connections[i].source_address
  initTimer,      \* doip_entity_t: connections[i].initial_inactivity_timer
  genTimer,       \* doip_entity_t: connections[i].general_inactivity_timer
  pc,             \* where the DoIP task is in its loop
  cur,            \* the slot the loop of doip_interface_process is at
  status,         \* per connection: "Idle", "Backlog", "Open", "Closed"
  inbound,        \* frames sent by the tester and not yet read by tcp_recv
  peerClosed,     \* the tester closed its end
  peerReset,      \* the tester vanished without a FIN (reset, cable pulled)
  out,            \* frames the entity sent on each connection
  nFrames,        \* frames sent so far by all testers
  activatedConns, \* history: connections on which routing activation succeeded
  udsLog,         \* history: requests forwarded to the UDS callback
  sinceArm        \* history: update_timers calls since the running timer was armed

ifVars == <<sock, ifState, rxq>>
entityVars == <<connId, activated, srcAddr, initTimer, genTimer>>
envVars == <<status, inbound, peerClosed, peerReset, out, nFrames>>
histVars == <<activatedConns, udsLog, sinceArm>>
vars == <<ifVars, entityVars, pc, cur, envVars, histVars>>

-----------------------------------------------------------------------------
(* Helpers of the interface and the entity.                                *)

(* A free-slot search that trusts the entity's connection_id instead of  *)
(* the interface's state.                                                 *)
FreeSlotsByEntity == {i \in Slots : ~connId[i]}

(* find_free_connection: the first slot whose state is Closed. *)
FreeSlots == {i \in Slots : ifState[i] = "Closed"}
FirstFree == CHOOSE i \in FreeSlots : \A j \in FreeSlots : i <= j

(* doip_interface_tcp_send: NOT_READY on a slot without a socket. *)
SendOn(o, i, m) ==
  IF sock[i] = NoSocket THEN o ELSE [o EXCEPT ![sock[i]] = Append(@, m)]

(* Variants of the timer arithmetic a slip in the code would give: an     *)
(* unguarded uint32 subtraction, and a strict comparison that lets a      *)
(* timer equal to elapsed_ms run forever.                                 *)
DecrementTimerUnguarded(t) == t - CycleTime
TimerExpiredStrict(t) == t < CycleTime

(* The timer arithmetic of doip_entity_update_timers. *)
DecrementTimer(t) == IF t > CycleTime THEN t - CycleTime ELSE t
TimerExpired(t) == ~(t > CycleTime)

(* The entity slot that doip_entity_send_diagnostic_response picks: the    *)
(* first activated slot whose source_address is the target.                *)
ResponseSlots(a) == {j \in Slots : activated[j] /\ srcAddr[j] = a}
ResponseSlot(a) == CHOOSE j \in ResponseSlots(a) : \A k \in ResponseSlots(a) : j <= k

(* The time the running timer of slot i was armed with, and a bound on   *)
(* the update_timers calls any timer can see before it fires.             *)
ArmedTime(i) == IF activated[i] THEN GeneralInactivityTime ELSE InitialInactivityTime
MaxTicks == (IF InitialInactivityTime > GeneralInactivityTime
             THEN InitialInactivityTime ELSE GeneralInactivityTime) \div CycleTime + 1

(* Arming a timer of slot i restarts the count of its updates. *)
Armed(i) == sinceArm' = [sinceArm EXCEPT ![i] = 0]

(* The line of the loop after slot i has been polled. *)
AfterSlot(i) ==
  IF i + 1 \in Slots THEN pc' = "Recv" /\ cur' = i + 1
                     ELSE pc' = "Timers" /\ cur' = cur

-----------------------------------------------------------------------------
Init ==
  /\ sock = [i \in Slots |-> NoSocket]
  /\ ifState = [i \in Slots |-> "Closed"]
  /\ rxq = [i \in Slots |-> <<>>]
  /\ connId = [i \in Slots |-> FALSE]
  /\ activated = [i \in Slots |-> FALSE]
  /\ srcAddr = [i \in Slots |-> 0]
  /\ initTimer = [i \in Slots |-> 0]
  /\ genTimer = [i \in Slots |-> 0]
  /\ pc = "Accept"
  /\ cur = 0
  /\ status = [c \in Conns |-> "Idle"]
  /\ inbound = [c \in Conns |-> <<>>]
  /\ peerClosed = [c \in Conns |-> FALSE]
  /\ peerReset = [c \in Conns |-> FALSE]
  /\ out = [c \in Conns |-> <<>>]
  /\ nFrames = 0
  /\ activatedConns = {}
  /\ udsLog = {}
  /\ sinceArm = [i \in Slots |-> 0]

-----------------------------------------------------------------------------
(* The DoIP task: doip_entity_task runs doip_entity_process, whose         *)
(* doip_interface_process polls UDP, accepts, and reads every slot, and    *)
(* then doip_entity_update_timers.                                         *)

(* tcp_accept returns no socket. *)
AcceptNone ==
  /\ pc = "Accept"
  /\ \A c \in Conns : status[c] # "Backlog"
  /\ pc' = "Recv" /\ cur' = 0
  /\ UNCHANGED <<ifVars, entityVars, envVars, histVars>>

(* entity_tcp_connected_callback clears is_activated. *)
ActivatedOnConnect(i) == [activated EXCEPT ![i] = FALSE]

(* tcp_accept returns c and find_free_connection finds a slot: the slot   *)
(* becomes PendingActivation with an empty rx_buffer, and the connected   *)
(* callback starts the initial inactivity timer.                          *)
AcceptInto(c) ==
  LET i == FirstFree IN
  /\ sock' = [sock EXCEPT ![i] = c]
  /\ ifState' = [ifState EXCEPT ![i] = "PendingActivation"]
  /\ rxq' = [rxq EXCEPT ![i] = <<>>]
  /\ connId' = [connId EXCEPT ![i] = TRUE]
  /\ initTimer' = [initTimer EXCEPT ![i] = InitialInactivityTime]
  /\ activated' = ActivatedOnConnect(i)
  /\ srcAddr' = [srcAddr EXCEPT ![i] = 0]
  /\ status' = [status EXCEPT ![c] = "Open"]
  /\ Armed(i)
  /\ UNCHANGED <<genTimer>>

(* tcp_accept returns c but every slot is in use: the socket is closed.   *)
AcceptRefused(c) ==
  /\ status' = [status EXCEPT ![c] = "Closed"]
  /\ UNCHANGED <<ifVars, entityVars>>

Accept ==
  /\ pc = "Accept"
  /\ \E c \in Conns :
       /\ status[c] = "Backlog"
       /\ IF FreeSlots # {} THEN AcceptInto(c) ELSE AcceptRefused(c) /\ UNCHANGED sinceArm
  /\ pc' = "Recv" /\ cur' = 0
  /\ UNCHANGED <<inbound, peerClosed, peerReset, out, nFrames,
                 activatedConns, udsLog>>
(* One tcp_recv on slot cur that returns bytes completing k >= 1 frames:  *)
(* rx_buffer_used advances and the while loop at line 226 will deliver    *)
(* them.                                                                   *)
RecvFrames ==
  /\ pc = "Recv"
  /\ sock[cur] # NoSocket
  /\ \E k \in 1 .. Len(inbound[sock[cur]]) :
       /\ rxq' = [rxq EXCEPT ![cur] = SubSeq(inbound[sock[cur]], 1, k)]
       /\ inbound' = [inbound EXCEPT ![sock[cur]] =
                        SubSeq(@, k + 1, Len(@))]
  /\ pc' = "Deliver"
  /\ UNCHANGED <<sock, ifState, entityVars, cur, status, peerClosed, peerReset,
                 out, nFrames, histVars>>

(* tcp_recv returns 0 after the tester closed: entity_tcp_disconnected_   *)
(* callback resets the entity slot, the socket is closed and the slot is  *)
(* Closed with an empty rx_buffer.                                        *)
RecvClosed ==
  LET c == sock[cur] IN
  /\ pc = "Recv"
  /\ c # NoSocket
  /\ inbound[c] = <<>>
  /\ peerClosed[c]
  /\ connId' = [connId EXCEPT ![cur] = FALSE]
  /\ srcAddr' = [srcAddr EXCEPT ![cur] = 0]
  /\ activated' = [activated EXCEPT ![cur] = FALSE]
  /\ initTimer' = [initTimer EXCEPT ![cur] = 0]
  /\ genTimer' = [genTimer EXCEPT ![cur] = 0]
  /\ sock' = [sock EXCEPT ![cur] = NoSocket]
  /\ ifState' = [ifState EXCEPT ![cur] = "Closed"]
  /\ rxq' = [rxq EXCEPT ![cur] = <<>>]
  /\ status' = [status EXCEPT ![c] = "Closed"]
  /\ AfterSlot(cur)
  /\ UNCHANGED <<inbound, peerClosed, peerReset, out,
                 nFrames, histVars>>

(* No socket in the slot, or tcp_recv returns EWOULDBLOCK, an error, or   *)
(* only part of a frame: nothing changes (line 272).                      *)
RecvNothing ==
  /\ pc = "Recv"
  /\ sock[cur] # NoSocket => ~(inbound[sock[cur]] = <<>> /\ peerClosed[sock[cur]])
  /\ AfterSlot(cur)
  /\ UNCHANGED <<ifVars, entityVars, envVars, histVars>>

-----------------------------------------------------------------------------
(* Delivery of the frame at the head of rx_buffer to entity_tcp_rx_       *)
(* callback, then the memmove that removes it.  Each action below is one  *)
(* path through the callback and the handler it calls.                    *)

Delivering(i, f) ==
  /\ pc = "Deliver" /\ i = cur
  /\ rxq[i] # <<>> /\ f = Head(rxq[i])
  /\ rxq' = [rxq EXCEPT ![i] = Tail(@)]
  /\ IF Tail(rxq[i]) = <<>> THEN AfterSlot(i) ELSE UNCHANGED <<pc, cur>>

IsTester(a) == a >= TesterAddrMin /\ a <= TesterAddrMax

(* handle_routing_activation_request, source in the tester range: the     *)
(* slot is activated with that source and the general inactivity timer    *)
(* is started, whatever the slot's state and source were before.          *)
RoutingActivationAccepted(i, f) ==
  /\ f.type = "RoutingActivationReq" /\ IsTester(f.src)
  /\ activated' = [activated EXCEPT ![i] = TRUE]
  /\ srcAddr' = [srcAddr EXCEPT ![i] = f.src]
  /\ genTimer' = [genTimer EXCEPT ![i] = GeneralInactivityTime]
  /\ out' = SendOn(out, i, [type |-> "RoutingActivationRes", code |-> RA_SUCCESS, req |-> sock[i]])
  /\ activatedConns' = activatedConns \cup {sock[i]}
  /\ Armed(i)
  /\ UNCHANGED <<connId, initTimer, udsLog>>

(* handle_routing_activation_request, source outside the tester range:    *)
(* UnknownSource is answered and the slot is left as it is.               *)
RoutingActivationRejected(i, f) ==
  /\ f.type = "RoutingActivationReq" /\ ~IsTester(f.src)
  /\ out' = SendOn(out, i, [type |-> "RoutingActivationRes",
                            code |-> RA_UNKNOWN_SOURCE, req |-> sock[i]])
  /\ UNCHANGED <<entityVars, histVars>>

(* handle_diagnostic_message on a slot that is not activated: a NACK with *)
(* InvalidSource, before the payload is decoded.                          *)
DiagNotActivated(i, f) ==
  /\ f.type \in {"DiagnosticMessage", "DiagTruncated"}
  /\ ~activated[i]
  /\ out' = SendOn(out, i, [type |-> "DiagMessageNack", code |-> NACK_INVALID_SOURCE, req |-> sock[i]])
  /\ UNCHANGED <<entityVars, histVars>>

(* A frame the entity drops: a header that fails doip_validate_header, a  *)
(* DiagnosticMessage that fails to decode on an activated slot, an        *)
(* AliveCheckRes (which clears alive_check_pending, a flag nothing ever   *)
(* sets) or a payload type the switch does not handle.                    *)
Dropped(i, f) ==
  /\ \/ f.type \in {"Invalid", "AliveCheckRes", "Other"}
     \/ f.type = "DiagTruncated" /\ activated[i]
  /\ UNCHANGED <<out, entityVars, histVars>>

(* handle_diagnostic_message, target not this entity: NACK UnknownTarget. *)
DiagUnknownTarget(i, f) ==
  /\ f.type = "DiagnosticMessage" /\ activated[i]
  /\ f.tgt # LogicalAddress
  /\ out' = SendOn(out, i, [type |-> "DiagMessageNack", code |-> NACK_UNKNOWN_TARGET, req |-> sock[i]])
  /\ UNCHANGED <<entityVars, histVars>>

(* The response of doip_entity_uds_rx_handler: uds_process_request always *)
(* fills the response, and doip_entity_send_diagnostic_response sends it  *)
(* on the first activated slot whose source is the request's source; if   *)
(* there is none, or that slot has no socket, it is not sent.             *)
SendResponse(o, a, m) ==
  IF ResponseSlots(a) = {} THEN o ELSE SendOn(o, ResponseSlot(a), m)

(* The response to a request that came in on connection c. *)
UdsResponse(c) == [type |-> "DiagnosticMessage", code |-> 0, req |-> c]

(* handle_diagnostic_message, activated slot, target this entity: a       *)
(* positive ACK to the request's source, the UDS callback and the         *)
(* response it sends, then the general inactivity timer is restarted.     *)
DiagAccepted(i, f) ==
  /\ f.type = "DiagnosticMessage" /\ activated[i]
  /\ f.tgt = LogicalAddress
  /\ out' = SendResponse(
              SendOn(out, i, [type |-> "DiagMessageAck", code |-> 0, req |-> sock[i]]),
              f.src,
              UdsResponse(sock[i]))
  /\ udsLog' = udsLog \cup {[conn |-> sock[i], src |-> f.src]}
  /\ genTimer' = [genTimer EXCEPT ![i] = GeneralInactivityTime]
  /\ Armed(i)
  /\ UNCHANGED <<connId, activated, srcAddr, initTimer,
                 activatedConns>>

Deliver ==
  \E f \in TcpFrames :
    /\ Delivering(cur, f)
    /\ \/ RoutingActivationAccepted(cur, f)
       \/ RoutingActivationRejected(cur, f)
       \/ DiagNotActivated(cur, f)
       \/ DiagUnknownTarget(cur, f)
       \/ DiagAccepted(cur, f)
       \/ Dropped(cur, f)
    /\ UNCHANGED <<sock, ifState, status, inbound, peerClosed, peerReset,
                   nFrames>>

-----------------------------------------------------------------------------
(* doip_entity_update_timers(entity, CycleTime).                          *)

(* A timer check that always looks at the initial inactivity timer. *)
RunningTimerInitialOnly(i) == initTimer[i]

(* The timer that runs on a slot the entity thinks is in use: the initial *)
(* one until the slot is activated, the general one after.                *)
RunningTimer(i) == IF activated[i] THEN genTimer[i] ELSE initTimer[i]
Expires(i) == connId[i] /\ TimerExpired(RunningTimer(i))

(* doip_interface_close_connection of every slot whose timer fired: it    *)
(* closes the socket and frees the interface slot, and calls no callback. *)
ClosedByTimer(c) == \E i \in Slots : Expires(i) /\ sock[i] = c

UpdateTimers ==
  /\ pc = "Timers"
  /\ initTimer' = [i \in Slots |->
                     IF connId[i] /\ ~activated[i] THEN DecrementTimer(initTimer[i])
                                                   ELSE initTimer[i]]
  /\ genTimer' = [i \in Slots |->
                    IF connId[i] /\ activated[i] THEN DecrementTimer(genTimer[i])
                                                 ELSE genTimer[i]]
  /\ sock' = [i \in Slots |-> IF Expires(i) THEN NoSocket ELSE sock[i]]
  /\ ifState' = [i \in Slots |-> IF Expires(i) THEN "Closed" ELSE ifState[i]]
  /\ rxq' = [i \in Slots |-> IF Expires(i) THEN <<>> ELSE rxq[i]]
  /\ status' = [c \in Conns |-> IF ClosedByTimer(c) THEN "Closed" ELSE status[c]]
  /\ sinceArm' = [i \in Slots |->
                     IF sock[i] # NoSocket /\ connId[i] /\ sinceArm[i] < MaxTicks
                     THEN sinceArm[i] + 1 ELSE sinceArm[i]]
  /\ pc' = "Accept"
  /\ UNCHANGED <<connId, activated, srcAddr, cur, inbound, peerClosed, peerReset,
                 out, nFrames, activatedConns, udsLog>>

Task == AcceptNone \/ Accept \/ RecvFrames \/ RecvClosed \/ RecvNothing
          \/ Deliver \/ UpdateTimers

-----------------------------------------------------------------------------
(* The environment: testers on the other end of the TCP connections, and  *)
(* the lwIP stack that queues connections, data and datagrams.            *)

(* A tester connects; lwIP queues the connection in the listen backlog.   *)
Connect(c) ==
  /\ status[c] = "Idle"
  /\ status' = [status EXCEPT ![c] = "Backlog"]
  /\ UNCHANGED <<ifVars, entityVars, pc, cur, inbound, peerClosed, peerReset, out,
                 nFrames, histVars>>

(* A tester sends a frame on a connection it has not closed.             *)
SendFrame(c, f) ==
  /\ status[c] \in {"Backlog", "Open"} /\ ~peerClosed[c] /\ ~peerReset[c]
  /\ nFrames < MaxFrames
  /\ inbound' = [inbound EXCEPT ![c] = Append(@, f)]
  /\ nFrames' = nFrames + 1
  /\ UNCHANGED <<ifVars, entityVars, pc, cur, status, peerClosed, peerReset, out,
                 histVars>>

(* A tester closes its end of the connection.                             *)
PeerClose(c) ==
  /\ status[c] \in {"Backlog", "Open"} /\ ~peerClosed[c] /\ ~peerReset[c]
  /\ peerClosed' = [peerClosed EXCEPT ![c] = TRUE]
  /\ UNCHANGED <<ifVars, entityVars, pc, cur, status, inbound, peerReset, out,
                 nFrames, histVars>>

(* The tester's end goes away without a FIN: lwIP's recv then returns -1  *)
(* (ECONNRESET, or nothing ever arrives), never 0, so doip_interface_     *)
(* process takes the "error or would block" branch at every poll and      *)
(* never closes the slot.  Bytes already queued may still be read.        *)
PeerReset(c) ==
  /\ status[c] \in {"Backlog", "Open"} /\ ~peerClosed[c] /\ ~peerReset[c]
  /\ peerReset' = [peerReset EXCEPT ![c] = TRUE]
  /\ UNCHANGED <<ifVars, entityVars, pc, cur, status, inbound, peerClosed, out,
                 nFrames, histVars>>

Environment ==
  \/ \E c \in Conns : Connect(c) \/ PeerClose(c) \/ PeerReset(c)
  \/ \E c \in Conns, f \in TcpFrames : SendFrame(c, f)

Next == Task \/ Environment

(* The DoIP task is the only user of g_doip_mutex and wakes every cycle   *)
(* (vTaskDelayUntil), so its steps are weakly fair; testers are not.      *)
Spec == Init /\ [][Next]_vars /\ WF_vars(Task)

-----------------------------------------------------------------------------
(* Properties.                                                            *)

Messages == [type : {"RoutingActivationRes", "DiagMessageAck", "DiagMessageNack",
                     "DiagnosticMessage"},
             code : Nat, req : Conns]

TypeOK ==
  /\ sock \in [Slots -> Conns \cup {NoSocket}]
  /\ ifState \in [Slots -> {"Closed", "PendingActivation"}]
  /\ rxq \in [Slots -> Seq(TcpFrames)]
  /\ connId \in [Slots -> BOOLEAN]
  /\ activated \in [Slots -> BOOLEAN]
  /\ srcAddr \in [Slots -> Nat]
  /\ initTimer \in [Slots -> 0 .. InitialInactivityTime]
  /\ genTimer \in [Slots -> 0 .. GeneralInactivityTime]
  /\ pc \in {"Accept", "Recv", "Deliver", "Timers"}
  /\ cur \in Slots
  /\ status \in [Conns -> {"Idle", "Backlog", "Open", "Closed"}]
  /\ inbound \in [Conns -> Seq(TcpFrames)]
  /\ peerClosed \in [Conns -> BOOLEAN]
  /\ peerReset \in [Conns -> BOOLEAN]
  /\ out \in [Conns -> Seq(Messages)]
  /\ activatedConns \subseteq Conns
  /\ udsLog \subseteq [conn : Conns, src : Nat]
  /\ sinceArm \in [Slots -> 0 .. MaxTicks]

(* A connection the entity accepted is eventually either activated or    *)
(* closed: the initial inactivity timer of doip_entity_update_timers     *)
(* closes a connection that never completes routing activation.           *)
AcceptedEventuallyResolved ==
  \A c \in Conns : status[c] = "Open" ~> (status[c] = "Closed" \/ c \in activatedConns)

(* The entity keeps a slot in use (connection_id >= 0) only while the     *)
(* interface slot holds a socket: spec section 8 says the slot returns to *)
(* Closed and disconnected_callback fires when the inactivity timer       *)
(* expires.  doip_entity_update_timers closes through                     *)
(* doip_interface_close_connection, which calls no callback.              *)
NoStaleEntitySlot == \A i \in Slots : connId[i] => sock[i] # NoSocket

(* Every request handed to the UDS callback is answered on the           *)
(* connection that carried it, after its ACK (spec section 5, end-to-end  *)
(* scenario 4).  doip_entity_uds_rx_handler answers through               *)
(* doip_entity_send_diagnostic_response, which looks the connection up   *)
(* by the request's source address among the activated entity slots,     *)
(* including slots a timer closed without resetting them.                 *)
ResponseReturnedToRequester ==
  \A r \in udsLog :
    \E k \in 1 .. Len(out[r.conn]) : out[r.conn][k] = UdsResponse(r.conn)

(* A connection whose tester vanished without closing it is eventually    *)
(* closed.  doip_interface_process treats every negative tcp_recv as      *)
(* would-block (doip_interface.c:272), so only the inactivity timer of    *)
(* doip_entity_update_timers, the initial one or, once activated, the     *)
(* general one, frees the slot.                                           *)
ResetEventuallyClosed ==
  \A c \in Conns : status[c] = "Open" /\ peerReset[c] ~> status[c] = "Closed"

(* The inactivity timers fire on schedule: an open slot is closed by an   *)
(* update_timers call exactly when it is the ceil(T / elapsed_ms)-th call  *)
(* since its running timer was armed with T (by the connected callback,   *)
(* a routing activation or an accepted diagnostic message).  The first of *)
(* these calls runs in the cycle that armed the timer, so a tester gets   *)
(* one cycle less than T: 1990 ms of the 2000 ms initial inactivity time. *)
TimersFireOnSchedule ==
  [][pc = "Timers" /\ pc' = "Accept" =>
       \A i \in Slots :
         sock[i] # NoSocket /\ connId[i] =>
           (sock'[i] = NoSocket <=> (sinceArm[i] + 1) * CycleTime >= ArmedTime(i))]_vars

-----------------------------------------------------------------------------
(* The refinement mapping to DoipConnections.  A connection in the listen *)
(* backlog is Queued; an open one is Activated when the slot holding its  *)
(* socket has is_activated, with that slot's source_address, and Pending  *)
(* otherwise.  The connections UDS was called from are those of udsLog.   *)
(* The tester addresses are those the frames of the model carry.          *)

SlotOf(c) == CHOOSE i \in Slots : sock[i] = c

ConnState(c) ==
  CASE status[c] = "Idle" -> "Idle"
    [] status[c] = "Backlog" -> "Queued"
    [] status[c] = "Closed" -> "Closed"
    [] OTHER -> IF activated[SlotOf(c)] THEN "Activated" ELSE "Pending"

Connections == INSTANCE DoipConnections
  WITH conn <- [c \in Conns |-> ConnState(c)],
       source <- [c \in Conns |-> IF ConnState(c) = "Activated"
                                   THEN srcAddr[SlotOf(c)] ELSE 0],
       served <- {r.conn : r \in udsLog},
       TesterAddrs <- {f.src : f \in {g \in TcpFrames : IsTester(g.src)}}

(* The entity implements the connection lifecycle of DoipConnections: a   *)
(* connection is admitted by doip_interface_process only into a free      *)
(* slot and refused only when every slot holds a socket, it becomes        *)
(* Activated only by a routing activation with a tester address (on a     *)
(* slot the connected callback reset), UDS is called only from an         *)
(* activated open connection, and a connection leaves the pool only by    *)
(* tcp_recv returning 0 or by the timers of doip_entity_update_timers.    *)
(* This ties find_free_connection (interface state) to the entity's slots *)
(* that a timer close leaves stale.                                       *)
ImplementsConnections == Connections!Spec

=============================================================================
