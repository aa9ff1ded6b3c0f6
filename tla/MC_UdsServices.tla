---------------------------- MODULE MC_UdsServices ----------------------------
(* UdsServices with keys and seeds on 8 bits (0xA5 for 0xA5A5A5A5, 0x78  *)
(* for 0x12345678), request->length on 8 bits and the attempt counter on *)
(* 3 bits.                                                                *)
EXTENDS UdsServices

UD(n, sid, sub, key, did) == [n |-> n, sid |-> sid, sub |-> sub, key |-> key, did |-> did]

MCSeed == 120
MCMask == 165
GoodKey == 120 ^^ 165        \* the key of the fixed seed
BlankKey == 165              \* the key of seed 0, before any RequestSeed
WrongKey == 0

(* Requests of every service, well and badly formed, with a key for each *)
(* seed and a wrong one.                                                 *)
MCUserData ==
  { UD(2, SID_SESSION, 2, 0, FALSE), UD(2, SID_SESSION, 5, 0, FALSE),
    UD(1, SID_SESSION, 0, 0, FALSE),
    UD(2, SID_RESET, 1, 0, FALSE), UD(2, SID_RESET, 7, 0, FALSE),
    UD(1, SID_RESET, 0, 0, FALSE),
    UD(2, SID_SECURITY, REQUEST_SEED, 0, FALSE),
    UD(6, SID_SECURITY, SEND_KEY, GoodKey, FALSE),
    UD(6, SID_SECURITY, SEND_KEY, WrongKey, FALSE),
    UD(2, SID_SECURITY, SEND_KEY, 0, FALSE),
    UD(2, SID_SECURITY, 5, 0, FALSE), UD(1, SID_SECURITY, 0, 0, FALSE),
    UD(2, SID_TP, 0, 0, FALSE), UD(1, SID_TP, 0, 0, FALSE),
    UD(3, SID_RDBI, 241, 0, TRUE), UD(3, SID_RDBI, 241, 0, FALSE),
    UD(2, SID_RDBI, 241, 0, FALSE),
    UD(1, 49, 0, 0, FALSE) }

(* Adds the key of seed 0, for a SendKey with no RequestSeed before it.   *)
MCUserDataBlankKey == MCUserData \cup {UD(6, SID_SECURITY, SEND_KEY, BlankKey, FALSE)}

(* Adds a DiagnosticMessage with no user data. *)
MCUserDataEmpty ==
  {UD(0, 0, 0, 0, FALSE), UD(2, SID_TP, 0, 0, FALSE)}
MCSids == {SID_SESSION, SID_SECURITY}
MCSubBytes == {2}
MCKeys == {WrongKey}

=============================================================================
