---------------------------- MODULE MC_DoipFraming ----------------------------
(* DoipFraming with uint32 at 5 bits (Word = 32) and a 12-byte rx_buffer *)
(* standing for DOIP_RX_BUFFER_SIZE = DOIP_MAX_PAYLOAD_SIZE = 4096.      *)
EXTENDS DoipFraming

(* A frame whose header tells the truth about its payload. *)
Valid(n) == [plen |-> n, len |-> n]

(* Frames of 8, 10 and 12 bytes: each fits the buffer, and a chunk can   *)
(* hold a frame and a torn header of the next.                           *)
MCValidFrames == {Valid(0), Valid(2), Valid(4)}

(* A header declaring payload_length 2^32 - 8 (here Word - 8), followed  *)
(* by no payload: 8U + payload_length wraps to 0.                        *)
MCWrapFrames == {Valid(2), [plen |-> 24, len |-> 0]}

(* A valid frame with the largest payload validate_header accepts: its   *)
(* 8 + 4096 bytes (here 8 + 12) do not fit in rx_buffer.                 *)
MCOversizeFrames == {Valid(2), Valid(12)}

=============================================================================
