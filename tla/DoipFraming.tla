----------------------------- MODULE DoipFraming -----------------------------
(***************************************************************************)
(* The byte level of one TCP connection slot of doip_interface_process:    *)
(* tcp_recv appends whatever chunk lwIP returns to rx_buffer, and the      *)
(* while loop hands every complete DoIP message at the front of the        *)
(* buffer to the rx callback and memmoves the rest down.                   *)
(*                                                                         *)
(* The stream is the concatenation of the frames the tester wrote.  A      *)
(* frame is a record: plen is the payload_length its header declares, len  *)
(* the number of payload bytes that follow the header.  The contents of    *)
(* rx_buffer are named by stream positions: the buffer holds the bytes     *)
(* rcvd - used + 1 .. rcvd.  A header read at a frame boundary declares    *)
(* that frame's plen; eight bytes read anywhere else are payload or a torn *)
(* header, and declare any payload_length.                                 *)
(*                                                                         *)
(* uint32 arithmetic is kept at a reduced width: Word plays 2^32, so       *)
(* 8 + payload_length wraps modulo Word exactly where the code wraps       *)
(* modulo 2^32.                                                            *)
(***************************************************************************)
EXTENDS Integers, Sequences, SequencesExt

CONSTANTS
  Word,         \* 2^w, the modulus of uint32_t at the model's width
  BufSize,      \* DOIP_RX_BUFFER_SIZE
  Frames,       \* the frames a tester may write: [plen, len]
  MaxWritten,   \* bound: frames written in a behaviour
  MaxCalls      \* bound: rx callback invocations kept in the history

ASSUME Word > 8 /\ BufSize >= 8
ASSUME \A f \in Frames : f.plen \in 0 .. Word - 1 /\ f.len \in Nat

HeaderSize == 8   \* the DoIP generic header

VARIABLES
  written,   \* frames the tester wrote on the connection, in order
  rcvd,      \* stream bytes tcp_recv has copied into rx_buffer
  used,      \* connections[i].rx_buffer_used
  open,      \* connections[i].socket_fd >= 0
  pc,        \* "Recv": the tcp_recv of this slot is next; "Loop": in the
             \* while loop; "Done": the rest of the task's cycle
  calls      \* history: the (stream position, length) of every callback

vars == <<written, rcvd, used, open, pc, calls>>

-----------------------------------------------------------------------------
FrameSize(f) == HeaderSize + f.len

(* Bytes the tester has written, and the stream position of frame k.      *)
StreamLen(s) == FoldLeft(LAMBDA acc, f : acc + FrameSize(f), 0, s)
Start(k) == StreamLen(SubSeq(written, 1, k - 1))

(* The stream position of rx_buffer[0]. *)
BufferStart == rcvd - used

(* The payload_length values doip_decode_header can read at stream       *)
(* position p.                                                           *)
HeaderAt(p) ==
  IF \E k \in 1 .. Len(written) : Start(k) = p
  THEN {written[CHOOSE k \in 1 .. Len(written) : Start(k) = p].plen}
  ELSE 0 .. Word - 1

(* A size that forgets the header, and one that is a byte short.        *)
TotalMessageSizeNoHeader(plen) == plen % Word
TotalMessageSizeShort(plen) == (HeaderSize + plen - 1) % Word

(* total_message_size = 8U + header.payload_length, a uint32_t. *)
TotalMessageSize(plen) == (HeaderSize + plen) % Word

(* The room tcp_recv is given: DOIP_RX_BUFFER_SIZE - rx_buffer_used.     *)
RoomOffByOne == BufSize - used + 1
Room == BufSize - used

(* The callback history keeps its first MaxCalls entries. *)
Called(c) == IF Len(calls) < MaxCalls THEN Append(calls, c) ELSE calls

-----------------------------------------------------------------------------
Init ==
  /\ written = <<>>
  /\ rcvd = 0
  /\ used = 0
  /\ open = TRUE
  /\ pc = "Recv"
  /\ calls = <<>>

(* One tcp_recv into &rx_buffer[used] with room DOIP_RX_BUFFER_SIZE - used *)
(* (lines 213-225 and 262-276):                                           *)
(*  - bytes are waiting and there is room: lwIP copies any 1..n of them;  *)
(*  - bytes are waiting and the buffer is full: recv with length 0, which *)
(*    lwIP answers with 0 (the slot is closed as if the peer had closed)  *)
(*    or with -1 (nothing happens);                                       *)
(*  - nothing is waiting: EWOULDBLOCK, nothing happens.                   *)
TcpRecv ==
  LET avail == StreamLen(written) - rcvd
      room == Room
  IN
  /\ pc = "Recv" /\ open
  /\ \/ /\ avail > 0 /\ room > 0
        /\ \E n \in 1 .. IF avail < room THEN avail ELSE room :
             /\ rcvd' = rcvd + n
             /\ used' = used + n
        /\ pc' = "Loop"
        /\ UNCHANGED open
     \/ /\ avail > 0 /\ room = 0
        /\ \/ open' = FALSE /\ used' = 0
           \/ UNCHANGED <<open, used>>
        /\ pc' = "Done"
        /\ UNCHANGED rcvd
     \/ /\ avail = 0
        /\ pc' = "Done"
        /\ UNCHANGED <<rcvd, used, open>>
  /\ UNCHANGED <<written, calls>>

(* One turn of while (rx_buffer_used >= 8U) (lines 226-260): decode the  *)
(* header at the front; a complete message is handed to the callback and *)
(* memmoved out; otherwise, or below 8 bytes, the loop ends.             *)
LoopStep ==
  /\ pc = "Loop"
  /\ \/ /\ used < HeaderSize
        /\ pc' = "Done"
        /\ UNCHANGED <<used, calls>>
     \/ /\ used >= HeaderSize
        /\ \E plen \in HeaderAt(BufferStart) :
             LET total == TotalMessageSize(plen) IN
             IF used >= total
             THEN /\ calls' = Called([pos |-> BufferStart, len |-> total])
                  /\ used' = used - total
                  /\ UNCHANGED pc
             ELSE /\ pc' = "Done"
                  /\ UNCHANGED <<used, calls>>
  /\ UNCHANGED <<written, rcvd, open>>

(* The rest of the cycle: the other slots, update_timers, the unlock and *)
(* vTaskDelayUntil; this slot's tcp_recv comes next.                     *)
EndCycle ==
  /\ pc = "Done" /\ open
  /\ pc' = "Recv"
  /\ UNCHANGED <<written, rcvd, used, open, calls>>

(* The tester writes a whole frame; lwIP queues its bytes.               *)
Write(f) ==
  /\ Len(written) < MaxWritten
  /\ written' = Append(written, f)
  /\ UNCHANGED <<rcvd, used, open, pc, calls>>

Task == TcpRecv \/ LoopStep \/ EndCycle

Next == Task \/ \E f \in Frames : Write(f)

(* The DoIP task runs every cycle and holds the mutex throughout; the    *)
(* tester need not write anything.                                       *)
Spec == Init /\ [][Next]_vars /\ WF_vars(Task)

-----------------------------------------------------------------------------
(* Properties.                                                            *)

TypeOK ==
  /\ written \in Seq(Frames)
  /\ rcvd \in 0 .. StreamLen(written)
  /\ used \in 0 .. BufSize
  /\ used <= rcvd
  /\ open \in BOOLEAN
  /\ pc \in {"Recv", "Loop", "Done"}
  /\ calls \in Seq([pos : Nat, len : 0 .. Word - 1])

(* The frame a callback was handed, if its bytes are exactly one frame    *)
(* the tester wrote; anything else is a value no tester writes.           *)
NotAFrame == [plen |-> -1, len |-> -1]
SegmentFrame(c) ==
  IF \E k \in 1 .. Len(written) : Start(k) = c.pos /\ FrameSize(written[k]) = c.len
  THEN written[CHOOSE k \in 1 .. Len(written) : Start(k) = c.pos]
  ELSE NotAFrame

Channel == INSTANCE FrameChannel
             WITH written <- written,
                  handed <- [i \in 1 .. Len(calls) |-> SegmentFrame(calls[i])]

(* However lwIP chunks the stream, the receive loop hands the rx callback *)
(* exactly the frames the tester wrote, whole, once each and in order,    *)
(* and every one of them eventually (spec section 8, framing).           *)
ImplementsFrameChannel == Channel!Spec

(* The while loop of doip_interface_process ends: the DoIP task leaves    *)
(* doip_entity_process and releases g_doip_mutex.                         *)
LoopTerminates == pc = "Loop" ~> pc = "Done"

=============================================================================
