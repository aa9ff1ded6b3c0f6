---------------------------- MODULE MC_DoipSession ----------------------------
(***************************************************************************)
(* DoipSession with two slots, the tester library on one connection and    *)
(* another tester on a second, timers scaled to a few 10 ms cycles.  The   *)
(* tester is configured with a tester address (0x0E00) or with one the     *)
(* entity refuses (0x0001); the other tester activates with 0x0E00 too.    *)
(***************************************************************************)
EXTENDS DoipSession, TLC

CONSTANTS TC, c2

MC_Conns == {TC, c2}

(* TesterPresent, 0x3E 0x00. *)
MC_UdsRequest == <<62, 0>>

MC_RawFrames == {Frame("RoutingActivationReq", 3584, 0)}

(* Every frame the entity may read: the other tester's, and the routing   *)
(* activation and diagnostic requests of the tester library ...            *)
MC_TcpFrames ==
  MC_RawFrames
  \cup {Frame("RoutingActivationReq", a, 0) : a \in TesterAddresses}
  \cup {Frame("DiagnosticMessage", a, t) : a \in TesterAddresses, t \in TargetAddresses}

(* ... which are what the entity decodes from the bytes the tester's      *)
(* encoders write.                                                         *)
ASSUME \A a \in TesterAddresses, t \in TargetAddresses :
  /\ EntityFrame(EncodeRoutingActivationReq([source_address |-> a,
       activation_type |-> ActivationType, reserved |-> 0, oem_specific |-> 0]))
       \in MC_TcpFrames
  /\ EntityFrame(EncodeDiagnosticMessage([source_address |-> a,
       target_address |-> t, user_data |-> MC_UdsRequest])) \in MC_TcpFrames

-----------------------------------------------------------------------------
(* The tester reports Ready only if the entity activated routing on its   *)
(* connection, and while that connection is open the entity's slot is     *)
(* activated with the tester's own address: the response code that        *)
(* handle_routing_activation_response reads at payload[4] is the one      *)
(* doip_encode_routing_activation_res wrote for this tester.              *)
TesterReadyMeansActivated ==
  tState = "Ready" =>
    /\ TConn \in activatedConns
    /\ \A i \in Entity!Slots :
         sock[i] = TConn => activated[i] /\ srcAddr[i] = tAddr

(* A routing activation the tester started ends in Ready or Error.  The   *)
(* tester's recv blocks until the entity answers or closes, so this rests *)
(* on the entity's answer and inactivity timers, and, once the connection *)
(* is gone, on the response timer of doip_tester_update_timers.           *)
ActivationEnds == tState = "Activating" ~> tState \in {"Ready", "Error"}

(* Every connection the entity accepted is eventually activated or closed *)
(* by the initial inactivity timer of doip_entity_update_timers, with the *)
(* tester library on one of them.                                         *)
AcceptedEventuallyResolved == Entity!AcceptedEventuallyResolved

(* A connection whose tester vanished without a FIN (the other tester     *)
(* resets its connection) is eventually closed by the entity's            *)
(* inactivity timers, since no tcp_recv error ever closes it.             *)
ResetEventuallyClosed == Entity!ResetEventuallyClosed

=============================================================================
