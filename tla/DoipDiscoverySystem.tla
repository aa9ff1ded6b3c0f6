------------------------- MODULE DoipDiscoverySystem -------------------------
(***************************************************************************)
(* Vehicle discovery end to end: the UDP half of the DoIP entity           *)
(* (DoipDiscovery) and the tester library (DoipTester) over a UDP network  *)
(* that loses, duplicates and reorders datagrams, with other testers       *)
(* sending their own requests to port 13400.                               *)
(***************************************************************************)
EXTENDS Integers, Sequences, FiniteSets

CONSTANTS
  Vin, Eid, Gid, LogicalAddress, CycleTime, AnnouncementInterval, UdpView,
  ResponseTimeout, TesterElapsed, MaxStarts, MaxInFlight,
  TesterAddresses, ActivationType, TargetAddresses, UdsRequest, MaxCalls,
  Probes,       \* the datagrams other testers send to port 13400
  MaxProbes     \* bound: datagrams other testers send

VARIABLES
  udpBuf, annCount, annTimer, answered,           \* the entity
  tState, tTimer, tEntity, tUdpOpen, tPort, nStarts,  \* the tester
  tConnId, tSock, tRouting, tRead, tAddr, nCalls,     \* (its TCP half idle)
  udpNet,                                         \* the network
  nProbes                                         \* datagrams other testers sent

Entity == INSTANCE DoipDiscovery
Tester == INSTANCE DoipTester WITH tcpIn <- << >>, tcpClosed <- FALSE

entityVars == <<udpBuf, annCount, annTimer, answered>>
testerVars == <<tState, tTimer, tEntity, tUdpOpen, tPort, nStarts,
                tConnId, tSock, tRouting, tRead, tAddr, nCalls>>
vars == <<entityVars, testerVars, udpNet, nProbes>>

ProberPort == <<"prober", 0>>

Init ==
  /\ Entity!EntityInit
  /\ Tester!TesterInit
  /\ udpNet = {}
  /\ nProbes = 0

(* The DoIP task's cycle, UDP half. *)
EntityStep == Entity!EntityCycle /\ UNCHANGED <<testerVars, nProbes>>

(* The application's calls into the tester library. *)
TesterStep ==
  \/ Tester!TesterCycle /\ UNCHANGED <<entityVars, nProbes>>
  \/ Tester!StartDiscovery /\ UNCHANGED <<entityVars, nProbes>>

(* Another tester sends a request, unicast to the entity or broadcast. *)
Probe ==
  /\ nProbes < MaxProbes
  /\ Cardinality(udpNet) < MaxInFlight
  /\ \E p \in Probes, to \in {Entity!EntityPort, Entity!Broadcast} :
       udpNet' = udpNet \cup {[from |-> ProberPort, to |-> to, bytes |-> p]}
  /\ nProbes' = nProbes + 1
  /\ UNCHANGED <<entityVars, testerVars>>

(* UDP loses a datagram. *)
Lose ==
  /\ \E d \in udpNet : udpNet' = udpNet \ {d}
  /\ UNCHANGED <<entityVars, testerVars, nProbes>>

Next == EntityStep \/ TesterStep \/ Probe \/ Lose

(* Both tasks run every cycle; the application keeps calling the tester's *)
(* process and update_timers.  The network and other testers need do      *)
(* nothing.                                                                *)
Spec ==
  /\ Init /\ [][Next]_vars
  /\ WF_vars(EntityStep)
  /\ WF_vars(Tester!TesterCycle /\ UNCHANGED <<entityVars, nProbes>>)

=============================================================================
