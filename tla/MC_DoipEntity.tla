---------------------------- MODULE MC_DoipEntity ----------------------------
(* DoipEntity with two slots (DOIP_MAX_CONNECTIONS), three connections,   *)
(* timers scaled to a few 10 ms cycles.                                   *)
EXTENDS DoipEntity, TLC

CONSTANTS c1, c2, c3

MCConns == {c1, c2, c3}
MCConnsLive == {c1, c2}

(* 0x0E00 and 0x0E01 are tester addresses, 0x0001 is not; 0x1000 is the  *)
(* entity (config.logical_address), 0x1001 another ECU.                   *)
TesterA == 3584
TesterB == 3585
NotTester == 1
Entity == 4096
OtherEcu == 4097

(* The frames of the passing run: one tester address. *)
MCFrames ==
  { RoutingActivationReq(TesterA), RoutingActivationReq(NotTester),
    DiagnosticMessage(TesterA, Entity), DiagnosticMessage(TesterA, OtherEcu),
    FrameOf("DiagTruncated"), FrameOf("AliveCheckRes") }

(* Frames with two tester addresses, for the runs about sources. *)
MCFramesTwoTesters ==
  { RoutingActivationReq(TesterA), RoutingActivationReq(TesterB),
    DiagnosticMessage(TesterA, Entity) }

(* The code never orders connections, only slots: the connections are   *)
(* interchangeable for the safety properties.                            *)
MCSymmetry == Permutations(MCConns)

=============================================================================
