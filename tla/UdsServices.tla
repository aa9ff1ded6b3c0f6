----------------------------- MODULE UdsServices -----------------------------
(***************************************************************************)
(* The UDS service layer: one uds_context_t (g_uds_context), shared by     *)
(* every tester, and uds_process_request as called by                      *)
(* doip_entity_uds_rx_handler for the user data of each accepted           *)
(* DiagnosticMessage.  Requests are handled one at a time: the handler     *)
(* runs inside the DoIP task, under g_doip_mutex.                          *)
(*                                                                         *)
(* User data is a record: n is user_data_length, sid is data[0], sub is    *)
(* data[1] (the sub-function or the first DID byte), key is data[2..5]     *)
(* read as a big-endian word, did tells a known DID from an unknown one.   *)
(* The key arithmetic is kept at a reduced width: KeyWord plays 2^32 for   *)
(* seed and key, LenWord plays 2^32 for request->length, ByteWord plays    *)
(* 2^8 for failed_security_attempts.                                       *)
(***************************************************************************)
EXTENDS Integers, Bitwise

CONSTANTS
  UserData,     \* the user data testers send
  Sids,         \* the values data[0] can hold
  SubBytes,     \* the values data[1] can hold
  Keys,         \* the values data[2..5] can hold
  KeyMask,      \* 0xA5A5A5A5 at the model's width
  FixedSeed,    \* 0x12345678 at the model's width
  LenWord,      \* 2^32 for uint32_t request->length
  ByteWord,     \* 2^8 for uint8_t failed_security_attempts
  MaxRequests   \* bound: requests handled in a behaviour

(* uds_services.h *)
SID_SESSION == 16      \* UDS_SID_DIAGNOSTIC_SESSION_CONTROL 0x10
SID_RESET == 17        \* UDS_SID_ECU_RESET 0x11
SID_SECURITY == 39     \* UDS_SID_SECURITY_ACCESS 0x27
SID_TP == 62           \* UDS_SID_TESTER_PRESENT 0x3E
SID_RDBI == 34         \* UDS_SID_READ_DATA_BY_IDENTIFIER 0x22
NRC_NOT_SUPPORTED == 17   \* 0x11
NRC_SUBFUNC == 18         \* 0x12
NRC_LENGTH == 19          \* 0x13
NRC_OUT_OF_RANGE == 49    \* 0x31
NRC_DENIED == 51          \* 0x33
NRC_INVALID_KEY == 53     \* 0x35
NRC_EXCEEDED == 54        \* 0x36
DEFAULT == 1
Sessions == {1, 2, 3}     \* Default, Programming, Extended
ResetTypes == {1, 2, 3}   \* Hard, KeyOffOn, Soft
REQUEST_SEED == 1
SEND_KEY == 2

VARIABLES
  session,    \* current_session
  unlocked,   \* security_unlocked
  seed,       \* seed
  failed,     \* failed_security_attempts
  resp,       \* the response of the last request
  lastUd,     \* history: the user data of the last request
  streak,     \* history: invalid keys since the last unlock
  nReq        \* requests handled so far

ctx == <<session, unlocked, seed, failed>>
vars == <<session, unlocked, seed, failed, resp, lastUd, streak, nReq>>

NoResponse == [pos |-> FALSE, sid |-> 0, val |-> 0]
Neg(sid, nrc) == [pos |-> FALSE, sid |-> sid, val |-> nrc]
Pos(sid, v) == [pos |-> TRUE, sid |-> sid, val |-> v]

(* The key doip expects for a seed: seed ^ 0xA5A5A5A5. *)
KeyOf(s) == s ^^ KeyMask

-----------------------------------------------------------------------------
(* doip_entity_uds_rx_handler builds the request from the user data:      *)
(* sid = data[0], data = &data[1], length = length - 1U.  With no user    *)
(* data, data[0] and what follows are bytes left in rx_buffer by earlier  *)
(* frames, and length - 1U wraps.                                         *)
Decoded(ud) ==
  IF ud.n > 0
  THEN {[sid |-> ud.sid, len |-> ud.n - 1, sub |-> ud.sub, key |-> ud.key,
         did |-> ud.did]}
  ELSE {[sid |-> s, len |-> (0 - 1) % LenWord, sub |-> b, key |-> k, did |-> d] :
          s \in Sids, b \in SubBytes, k \in Keys, d \in BOOLEAN}

Init ==
  /\ session = DEFAULT
  /\ unlocked = FALSE
  /\ seed = 0
  /\ failed = 0
  /\ resp = NoResponse
  /\ lastUd = [n |-> 1, sid |-> 0, sub |-> 0, key |-> 0, did |-> FALSE]
  /\ streak = 0
  /\ nReq = 0

(* A handler that switches the session before validating it. *)
SessionControlEager(r) ==
  /\ r.sid = SID_SESSION
  /\ IF r.len < 1 THEN resp' = Neg(SID_SESSION, NRC_LENGTH) /\ UNCHANGED session
                  ELSE /\ session' = r.sub
                       /\ resp' = IF r.sub \notin Sessions THEN Neg(SID_SESSION, NRC_SUBFUNC)
                                                           ELSE Pos(SID_SESSION, r.sub)
  /\ UNCHANGED <<unlocked, seed, failed, streak>>

(* uds_handle_diagnostic_session_control. *)
SessionControl(r) ==
  /\ r.sid = SID_SESSION
  /\ CASE r.len < 1 -> resp' = Neg(SID_SESSION, NRC_LENGTH) /\ UNCHANGED session
       [] r.sub \notin Sessions -> resp' = Neg(SID_SESSION, NRC_SUBFUNC) /\ UNCHANGED session
       [] OTHER -> session' = r.sub /\ resp' = Pos(SID_SESSION, r.sub)
  /\ UNCHANGED <<unlocked, seed, failed, streak>>

(* uds_handle_ecu_reset: the security check comes after the sub-function  *)
(* check; the reset itself is a TODO in the code.                         *)
ResetAllowed == unlocked \/ session = DEFAULT
EcuReset(r) ==
  /\ r.sid = SID_RESET
  /\ resp' = CASE r.len < 1 -> Neg(SID_RESET, NRC_LENGTH)
               [] r.sub \notin ResetTypes -> Neg(SID_RESET, NRC_SUBFUNC)
               [] ~ResetAllowed -> Neg(SID_RESET, NRC_DENIED)
               [] OTHER -> Pos(SID_RESET, r.sub)
  /\ UNCHANGED <<session, unlocked, seed, failed, streak>>

(* RequestSeed: an unlocked server answers a zero seed; otherwise the     *)
(* fixed seed is stored and returned.  Nothing is refused.                *)
RequestSeed(r) ==
  /\ r.sid = SID_SECURITY /\ r.len >= 1 /\ r.sub = REQUEST_SEED
  /\ IF unlocked THEN resp' = Pos(SID_SECURITY, 0) /\ UNCHANGED seed
                 ELSE seed' = FixedSeed /\ resp' = Pos(SID_SECURITY, FixedSeed)
  /\ UNCHANGED <<session, unlocked, failed, streak>>

(* A successful key that leaves the counter alone. *)
ClearFailedKept == failed

(* failed_security_attempts = 0U on a matching key. *)
ClearFailed == 0

(* SendKey: a key equal to seed ^ mask unlocks and clears the counter,    *)
(* whatever the counter says; any other key increments the uint8 counter  *)
(* and answers ExceededNumberOfAttempts from the third failure on.        *)
SendKey(r) ==
  /\ r.sid = SID_SECURITY /\ r.len >= 1 /\ r.sub = SEND_KEY
  /\ CASE r.len < 5 ->
            resp' = Neg(SID_SECURITY, NRC_LENGTH) /\ UNCHANGED <<unlocked, failed, streak>>
       [] r.key = KeyOf(seed) ->
            /\ unlocked' = TRUE /\ failed' = ClearFailed
            /\ resp' = Pos(SID_SECURITY, SEND_KEY)
            /\ streak' = 0
       [] OTHER ->
            /\ failed' = (failed + 1) % ByteWord
            /\ resp' = Neg(SID_SECURITY, IF failed' >= 3 THEN NRC_EXCEEDED ELSE NRC_INVALID_KEY)
            /\ streak' = streak + 1
            /\ UNCHANGED unlocked
  /\ UNCHANGED <<session, seed>>

(* uds_handle_security_access: no length, or another sub-function. *)
SecurityAccessRejected(r) ==
  /\ r.sid = SID_SECURITY
  /\ r.len < 1 \/ r.sub \notin {REQUEST_SEED, SEND_KEY}
  /\ resp' = Neg(SID_SECURITY, IF r.len < 1 THEN NRC_LENGTH ELSE NRC_SUBFUNC)
  /\ UNCHANGED <<session, unlocked, seed, failed, streak>>

(* uds_handle_tester_present: echoes the sub-function, 0x80 included. *)
TesterPresent(r) ==
  /\ r.sid = SID_TP
  /\ resp' = IF r.len < 1 THEN Neg(SID_TP, NRC_LENGTH) ELSE Pos(SID_TP, r.sub)
  /\ UNCHANGED <<session, unlocked, seed, failed, streak>>

(* uds_handle_read_data_by_id: VIN, serial and software number DIDs. *)
ReadDataById(r) ==
  /\ r.sid = SID_RDBI
  /\ resp' = CASE r.len < 2 -> Neg(SID_RDBI, NRC_LENGTH)
               [] r.did -> Pos(SID_RDBI, r.sub)
               [] OTHER -> Neg(SID_RDBI, NRC_OUT_OF_RANGE)
  /\ UNCHANGED <<session, unlocked, seed, failed, streak>>

(* uds_process_request, default branch. *)
Unsupported(r) ==
  /\ r.sid \notin {SID_SESSION, SID_RESET, SID_SECURITY, SID_TP, SID_RDBI}
  /\ resp' = Neg(r.sid, NRC_NOT_SUPPORTED)
  /\ UNCHANGED <<session, unlocked, seed, failed, streak>>

(* One request: the rx handler decodes the user data and                  *)
(* uds_process_request dispatches on the SID.                             *)
Handle(ud, r) ==
  /\ nReq < MaxRequests
  /\ nReq' = nReq + 1
  /\ lastUd' = ud
  /\ r \in Decoded(ud)

Next ==
  \E ud \in UserData : \E r \in Decoded(ud) :
    \/ Handle(ud, r) /\ SessionControl(r)
    \/ Handle(ud, r) /\ EcuReset(r)
    \/ Handle(ud, r) /\ RequestSeed(r)
    \/ Handle(ud, r) /\ SendKey(r)
    \/ Handle(ud, r) /\ SecurityAccessRejected(r)
    \/ Handle(ud, r) /\ TesterPresent(r)
    \/ Handle(ud, r) /\ ReadDataById(r)
    \/ Handle(ud, r) /\ Unsupported(r)

Spec == Init /\ [][Next]_vars

-----------------------------------------------------------------------------
(* Properties.                                                            *)

Responses == [pos : BOOLEAN, sid : Int, val : Int]

TypeOK ==
  /\ session \in Sessions
  /\ unlocked \in BOOLEAN
  /\ seed \in {0, FixedSeed}
  /\ failed \in 0 .. ByteWord - 1
  /\ resp \in Responses
  /\ lastUd \in UserData \cup {[n |-> 1, sid |-> 0, sub |-> 0, key |-> 0, did |-> FALSE]}
  /\ streak \in Nat
  /\ nReq \in 0 .. MaxRequests

(* The session is the one the last positive DiagnosticSessionControl     *)
(* response announced: a rejected request leaves it alone.  (A request   *)
(* that is not a session control request leaves it alone too.)           *)
SessionFollowsResponse ==
  [][resp'.sid = SID_SESSION =>
       IF resp'.pos THEN session' = resp'.val ELSE session' = session]_vars

(* ExceededNumberOfAttempts is answered only after at least three invalid *)
(* keys in a row since the last unlock: a successful SendKey clears       *)
(* failed_security_attempts.                                              *)
ExceededOnlyAfterThreeFailures ==
  (~resp.pos /\ resp.sid = SID_SECURITY /\ resp.val = NRC_EXCEEDED) => streak >= 3

(* After three invalid keys in a row no key unlocks the server (spec      *)
(* section 4.5: RequestSeed is refused until a delay has elapsed).        *)
LockoutEnforced == [][streak >= 3 => ~(~unlocked /\ unlocked')]_vars

(* A DiagnosticMessage with no user data carries no request: it changes  *)
(* no UDS state.                                                          *)
EmptyRequestHarmless == [][lastUd'.n = 0 => UNCHANGED ctx]_vars

=============================================================================
