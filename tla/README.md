# TLA+ models of the DoIP/UDS bootloader stack

This directory holds TLA+ models of the DoIP (ISO 13400, diagnostics over IP)
entity and the UDS (ISO 14229) service layer in `src/`. They are checked with
TLC. Every module is translated from the C source. `PROJECT.json` lists, for
each definition, the source lines it models (`map`), the runs, the mutants
that show each property can fail, the findings and the hazards.

## 1. The system

| Part | Source | State | Operations |
|------|--------|-------|------------|
| Codec | `doip/doip_protocol.c` | none (pure) | encode/decode/validate of the 8-byte header and of the payloads |
| NetOps adapter | `doip/doip_lwip_adapter.c` | none of its own (lwIP sockets) | non-blocking socket calls |
| Interface | `doip/doip_interface.c` | `connections[i]`: socket_fd, state, rx_buffer, rx_buffer_used; UDP socket | `process` (UDP recv, accept, per-slot recv and framing), `close_connection`, `tcp_send`, `udp_send`/`udp_broadcast` |
| Entity | `doip/app_doip_entity.c` | `connections[i]`: connection_id, source_address, is_activated, inactivity timers, alive-check flag; announcement timer and count | connected/disconnected callbacks, TCP and UDP rx callbacks, routing activation, diagnostic messages, `send_diagnostic_response`, `update_timers` |
| DoIP task | `doip/doip_task_example.c` | `g_doip_mutex`, the UDS context | the loop `lock; process; update_timers(10); unlock; delay`, and the UDS rx handler |
| UDS services | `uds/uds_services.c` | current_session, security_unlocked, seed, failed_security_attempts | session control, ECU reset, security access, tester present, read DID |
| Tester | `doip/app_doip_tester.c` | state, discovered entity, one TCP connection, routing_activated, timeout timer | init, start_discovery, connect, activate_routing, send_diagnostic, process, update_timers; compiled out (`DOIP_ENABLE_TESTER` is off), so driven by no task in this build |
| Platform | FreeRTOS port, `led.c`, `device.c`, `debug_print.c`, `doip_log.c` | hardware | not modelled |

How they interact: the DoIP task is the only code that changes DoIP state,
and it holds `g_doip_mutex` for a whole cycle. Each cycle,
`doip_interface_process` does these steps in order:

1. It reads one UDP datagram.
2. It accepts at most one TCP connection into the first Closed slot. If every
   slot is in use, it closes the new socket.
3. For each slot it calls `tcp_recv` once. It hands every complete frame in
   `rx_buffer` to `entity_tcp_rx_callback`. A `recv` that returns 0 runs the
   disconnected callback and closes the slot.

Then `doip_entity_update_timers` sends announcements and decrements the
per-connection timers. A timer that fires calls
`doip_interface_close_connection`, which calls no callback.

The diagnostic handler calls the UDS callback synchronously. Its response
goes back through `doip_entity_send_diagnostic_response`, which looks the
connection up by the request's source address. The lwIP thread runs
concurrently: testers connect, send bytes and close between any two steps
of the task.

## 2. Modules

**`DoipEntity`** models the Interface, Entity and task at the level of whole
DoIP frames. It is the composition of the interface slots and the entity
slots, the task loop and the testers.

- **Interface slot state:** `sock`, `ifState`, and `rxq` (complete frames
  waiting in `rx_buffer`).
- **Entity slot state:** `connId` (connection_id >= 0), `activated`,
  `srcAddr`, `initTimer`, `genTimer`.
- **Task position:** `pc` and `cur`. The loop `for i in slots` in
  `doip_interface_process` becomes `pc = "Recv"` with `cur = i`, so the
  lwIP environment can interleave between slots.
- **Actions and the code they model:**
  - `AcceptNone`, `Accept` (`AcceptInto`, `AcceptRefused`): lines 189-210.
  - `RecvFrames`: `n > 0`, which fills `rxq`.
  - `RecvClosed`: `n == 0`.
  - `RecvNothing`: would-block, an error, or a partial frame.
  - `Deliver`: one frame through `entity_tcp_rx_callback`, one disjunct per
    handler path (`RoutingActivationAccepted`, `RoutingActivationRejected`,
    `DiagNotActivated`, `DiagUnknownTarget`, `DiagAccepted`, `Dropped`).
  - `UpdateTimers`: the connection half of `doip_entity_update_timers`.
  - `Connect`, `SendFrame`, `PeerClose`: the environment.
  - `PeerReset`: the tester vanishes without a FIN (a reset or a dead
    link). lwIP's `recv` then returns -1, never 0, and
    `doip_interface_process` ignores every negative result (lines 272-276),
    so the slot is freed only by the inactivity timers. Spec line 226 says
    any receive error closes the connection.
- **`DiagAccepted`** includes the whole synchronous chain: ACK, UDS
  callback, response routed by `send_diagnostic_response`, then the general
  timer refresh.
- **Frames** are records (type, source, target) after `decode_header`. How
  bytes become frames is `DoipFraming`'s job. That module is checked to
  implement `FrameChannel`, which is the whole-frame FIFO this module
  assumes.
- **History variables:** `activatedConns` and `udsLog` record what the
  properties talk about. `sinceArm[i]` counts the `update_timers` calls
  since slot i's running timer was last armed (on accept, on activation,
  on a diagnostic message). It is capped at `MaxTicks`, one more than the
  longest timer in cycles, so the state space stays finite.

- **Refinement:** `DoipConnections` is the abstract specification of what
  the entity's TCP side promises, one connection at a time, with no slots,
  buffers or timers. A connection goes Idle, Queued (in the listen
  backlog), Pending, Activated, Closed. It is admitted only while fewer
  than `MaxConnections` connections are in the pool, and refused only when
  the pool is full (backpressure). It becomes Activated only with a tester
  address. UDS is called only from an Activated connection. A timer
  update may close several connections in one step. Re-activation may
  replace the source address, because the code does that (spec 4.4.1's
  DiffSource answer is not implemented; see the hazards). The mapping
  (`ConnState`, `SlotOf`) reads an open connection's state from the slot
  that holds its socket. `ImplementsConnections` checks
  `DoipConnections!Spec`. It relates `find_free_connection`, which looks
  at the interface's slot state, to the entity slots that a timer close
  leaves stale. A free-slot search that trusted the entity's
  `connection_id` would refuse a tester while a slot is free.

**`MC_DoipEntity`** instantiates it:

- 2 slots, which is `DOIP_MAX_CONNECTIONS` as overridden in
  `doip_interface.h`.
- 3 connections, so the backlog refusal path happens.
- Timers of 20 ms with a 10 ms cycle. Each timer runs out after two
  decrements, which is the smallest setting in which a timer is both
  decremented and fires. The real values are 2000 ms and 300000 ms.
- Frames from a small set of tester and non-tester addresses.
- At most 2 frames in the safety run. That is enough for "activate, then
  diagnose" on one connection, and for a slot to be closed and reused.

**`DoipFraming`** models the byte level of one connection slot:

- **Source:** the receive loop of `doip_interface_process`
  (`doip_interface.c` 213-276).
- **State:**
  - `written`: the frames the tester wrote;
  - `rcvd`: bytes `recv` has copied;
  - `used`: `rx_buffer_used`;
  - `open`: whether the socket is open;
  - `pc`: `Recv`, `Loop` or `Done`;
  - `calls`: a history of the callback's (stream position, length) pairs.
- **`TcpRecv`:** copies any 1..n waiting bytes that fit. If the buffer is
  full it calls `recv(len = 0)`; lwIP answers 0 (close) or -1 (nothing), and
  the model chooses either.
- **`LoopStep`:** one turn of `while (used >= 8)`.
- **Header values:** a header read at a frame boundary gives that frame's
  `payload_length`. Eight bytes read anywhere else may declare any value.
- **uint32 arithmetic:** `Word = 32` plays 2^32, so `8U + payload_length`
  wraps where the code wraps. `BufSize = 12` plays 4096.
- **Refinement:** `FrameChannel` is the abstract specification: frames
  written, and frames handed over in order, under weak fairness of
  handing. `DoipFraming` maps `handed` to the frames its callback history
  names. `ImplementsFrameChannel` checks the whole `FrameChannel!Spec`,
  liveness included.

**`UdsServices`** models `g_uds_context` and `uds_process_request` with
every service handler:

- **State:** `session`, `unlocked`, `seed`, `failed` and the response of
  the last request.
- **History variables:**
  - `streak`: invalid keys since the last unlock;
  - `lastUd`: the last user data.
- **Responses:** each response is reduced to (positive, SID, value).
- **One request is one step** (`Handle` plus one service action). Requests
  never interleave: the handler runs inside the DoIP task under
  `g_doip_mutex`.
- **`Decoded`** is `doip_entity_uds_rx_handler`'s request construction.
  With no user data, the SID and the following bytes are stale
  `rx_buffer` bytes (any value), and `length - 1U` wraps.
- **Widths:**
  - keys and seeds are on 8 bits: mask 0xA5 and seed 0x78;
  - `request->length` is on 8 bits;
  - `failed_security_attempts` is on 3 bits, so its uint8 wrap is kept.

**`DoipCodec`** holds the encoders and decoders of `doip_protocol.c` as
operators over byte sequences: header, validation, the big-endian helpers,
the vehicle identification response, routing activation request and
response, diagnostic message and `doip_encode_diag_message_ack`. Note that
`doip_decode_routing_activation_req` reads its fields whatever the payload
length, because its length check is commented out.

**`DoipDiscovery`** is the UDP half of the entity: the one datagram
`doip_interface_process` reads per cycle into the static `udp_rx_buffer`,
`handle_vehicle_id_request` for all three request kinds, and the three
announcements of `doip_entity_update_timers`. The buffer is a variable,
because a short datagram is compared against bytes an earlier one left.

**`DoipTester`** is the tester library. It has the discovery state
(`tState`, `discovered`, the timer), and the TCP half: `Connect`,
`ActivateRouting`, `SendDiagnostic`, and `TesterCycle`, which is one
`doip_tester_process` (one UDP datagram, then one `tcp_recv` on its
connection and every complete frame to `tester_tcp_rx_callback`) followed
by `doip_tester_update_timers`. `lwip_tcp_connect` leaves the tester's
socket blocking (every other socket of the adapter is `O_NONBLOCK`), so
`TcpPoll` takes no step while the entity neither sends nor closes. The
TCP input (`tcpIn`, `tcpClosed`) is a parameter the composing module
substitutes.

**`DoipDiscoverySystem`** composes `DoipDiscovery` and `DoipTester` over a
UDP network that loses, duplicates and reorders datagrams, with another
tester's probe datagrams (`Probe`, bounded by `MaxProbes`).

**`DoipSession`** composes `DoipEntity` with `DoipTester` on one TCP
connection `TConn`. The tester's input is the entity's output on that
connection, encoded by `FrameBytes`; the entity's input is what the tester
sends, decoded by `EntityFrame` (routing activation request, diagnostic
message or a truncated one, alive check response, other). Another tester
(`OtherTesters`) connects, closes and sends raw frames on a second
connection.

## 3. Runs

| Run | Checks | Result |
|-----|--------|--------|
| `entity_safety` | `TypeOK`; `TimersFireOnSchedule`: an `update_timers` call closes a slot exactly when the calls since the running timer was armed, times the cycle, reach that timer's value. So a tester gets one cycle less than T (1990 of 2000 ms), because the decrement and the expiry test are in one call. `ImplementsConnections`: the entity implements the connection lifecycle of `DoipConnections`. In particular, a request reaches UDS only from an open connection whose routing activation succeeded. That matters because a timer-closed slot keeps `is_activated` until the slot is reused. This property replaces the earlier invariant `UdsOnlyFromActivated`, which it implies. | pass (symmetry over connections) |
| `tester_session` | `TesterReadyMeansActivated`: while the tester says Ready, the entity has activated its connection with the tester's address; `ActivationEnds`: every routing activation ends in Ready or Error; `AcceptedEventuallyResolved`: every accepted connection is eventually activated or closed by the initial timer; `ResetEventuallyClosed`: a connection whose peer reset it is eventually closed, by the timers alone | pass |
| `entity_stale_slot` | `NoStaleEntitySlot`: the entity slot is in use only while the interface slot holds a socket | violation: a timer close skips the disconnected callback |
| `entity_response_route` | `ResponseReturnedToRequester`: every request given to UDS is answered on its own connection | violation: the response is routed by source address |
| `framing_channel` | `TypeOK`, `ImplementsFrameChannel`, `LoopTerminates` for frames of payload 0, 2 and 4 bytes, up to 3 frames, in every chunking | pass: the byte loop implements the frame FIFO and the loop always ends |
| `framing_wrap` | `LoopTerminates` with a frame declaring `payload_length = Word - 8` | violation: the size wraps to 0 and the loop spins with the mutex held |
| `framing_oversize` | `ImplementsFrameChannel` with a frame whose payload is the buffer size | violation: the frame never fits; the slot stalls or is closed |
| `uds_security` | `TypeOK`, `ExceededOnlyAfterThreeFailures`, `SessionFollowsResponse` over 6 requests of all services | pass |
| `uds_lockout` | `LockoutEnforced` (spec 4.5) | violation: a correct key unlocks after three failures |
| `uds_empty_request` | `EmptyRequestHarmless` | violation: stale bytes with a wrapped length run as a request |
| `discovery_system` | `TypeOK`; `DiscoveredIsEntity`: the tester stores only the entity's own VIN, address and EID; `DiscoveryEnds`: every discovery ends in Idle or Error | pass, over a lossy, duplicating, reordering UDP network |
| `discovery_stale_vin` | `AnsweredOnlyMatching`: a VIN request is answered only when its VIN matches | violation: an 8-byte request whose header says 17 is compared with the VIN an earlier datagram left in `udp_rx_buffer` |

The two-connection uniqueness and source-stability questions of spec
section 8 and 4.4.1 were checked in an earlier version. They were dropped
to keep the run list to one run per question the code raises; their
hazards are listed in `PROJECT.json`.

Symmetry over the connections is used only in the safety run. The code
never orders connections, only slots.

## 4. Fairness

- `DoipEntity`: `WF_vars(Task)` and no fairness for the testers. The DoIP
  task is the only holder of `g_doip_mutex`, it wakes every cycle through
  `vTaskDelayUntil`, and testers may stop at any time.
- `DoipDiscoverySystem` and `DoipSession`: weak fairness of the entity's
  step and of the tester's cycle. The tester's cycle is not scheduled by any
  task in this build; the fairness is the assumption that an application
  keeps calling `doip_tester_process` and `doip_tester_update_timers`, as
  the header documents. Nothing is fair for the network or for the other
  tester: datagrams may be lost forever.

## 5. Bounds

- **Framing:** up to 3 frames and 4 callbacks. With chunks of any size
  from 1 byte up, this covers headers split across chunks, several frames in
  one chunk, and a frame completed by a later `recv`.
- **UDS:** 6 requests. That is enough for:
  - RequestSeed, three invalid keys, and then a correct key;
  - an unlock followed by another failure.

  The passing run leaves out the key of seed 0 (`0xA5A5A5A5`). That key
  unlocks with no RequestSeed, which is listed as a hazard. Deadlock
  checking is off in the UDS runs, because the server idles once the tester
  stops sending.
- **Discovery:** 2 discoveries, 2 datagrams in flight, 1 probe of another
  tester. The timers (cycle 10, announcement 20, response 30) let an answer
  arrive before, at and after the timeout.
- **Session:** 2 slots, the tester's connection and one other, 2 frames
  from the other tester, 2 tester calls, timers of two cycles. The tester's
  address is either a valid one (3584) or one the entity refuses (1), so
  both Ready and Error are reached; the other tester uses the same address.

## 6. Plan for the next modules

1. A partial `send` (`doip_interface_tcp_send` treats any result >= 0
   as success, line 139): this needs a byte stream from entity to tester
   like `DoipFraming`'s.
2. UDS: the seedless unlock, and security relock on session change.
3. The tester's Ready after the entity has closed the connection (its
   disconnected callback is NULL).
4. The tester's stale `routing_activated`. `DoipSession` already reaches
   it: the tester is Ready, the entity's timer closes the connection, and
   a new `doip_tester_activate_routing` is lost. Then
   `doip_tester_update_timers` sets Error, but `routing_activated` stays
   true, so `doip_tester_send_diagnostic` still sends. An invariant
   `tRouting => tState # "Error"` fails at depth 17. Every run slot is
   taken, so this has no run of its own; it is listed as a hazard.

## 7. Not modelled

- The FreeRTOS port, the LED, device, logging and debug-print code are
  I/O or hardware glue with no protocol state.
- The lwIP adapter is modelled only by the outcomes of its calls, and by
  the blocking `tcp_connect` socket of the tester, and by `recv` returning
  -1 after a peer reset. A partial `send` and bind failures are not
  modelled.
- The tester connects once; a second `doip_tester_connect` overwriting
  `connections[0]` is listed as a hazard, not modelled.
- The alive-check timer: `alive_check_pending` is cleared on
  AliveCheckRes and never set, and `alive_check_timer` is never read. The
  model keeps AliveCheckRes as a frame that changes nothing.
- Start-up: `doip_entity_start` returns early on a bind failure and the
  task deletes itself. The rest of `doip_task_example.c` past the task loop
  (lines 160-266) is platform initialisation: `interface_init`,
  `doip_application_init`, the lock wrappers and task-info printing. None of
  it has protocol state after start-up. `doip_task_example.h` declares
  functions that are never defined (a tester task, a network task,
  suspend/resume, statistics).
- The tester's `DiagnosticMessage` handling: the TCP callback passes a NULL
  UDS indication, so a response is decoded and dropped. The model's tester
  reacts only to RoutingActivationResponse and treats other frames as
  changing nothing, which is what the code does.
- `doip_encode_generic_nack` is called nowhere, and
  `doip_decode_vehicle_id_request` is declared but never defined.
