---------------------------- MODULE FrameChannel ----------------------------
(***************************************************************************)
(* What the TCP receive path of a DoIP connection promises the entity:     *)
(* the frames a tester writes are handed to entity_tcp_rx_callback whole,  *)
(* once each, in the order they were written, and none is held back for    *)
(* ever.  DoipFraming is checked to implement it.                          *)
(***************************************************************************)
EXTENDS Naturals, Sequences

CONSTANT Frames   \* the frames a tester may write

VARIABLES
  written,  \* the frames the tester wrote, in order
  handed    \* the frames handed to the callback, in order

vars == <<written, handed>>

Init ==
  /\ written = <<>>
  /\ handed = <<>>

(* The tester writes frame f. *)
Write(f) ==
  /\ written' = Append(written, f)
  /\ UNCHANGED handed

(* The next frame not yet handed over is handed to the callback. *)
Hand ==
  /\ Len(handed) < Len(written)
  /\ handed' = Append(handed, written[Len(handed) + 1])
  /\ UNCHANGED written

Next == (\E f \in Frames : Write(f)) \/ Hand

Spec == Init /\ [][Next]_vars /\ WF_vars(Hand)

=============================================================================
