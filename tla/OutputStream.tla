---------------------------- MODULE OutputStream ----------------------------
(***************************************************************************)
(* What a session's output half promises its Dart consumer: a windowed     *)
(* byte stream.  The programs on the terminal print bytes; the session     *)
(* delivers them in order, never more than Window of them unacknowledged;  *)
(* and it announces the end once, after everything that was printed has    *)
(* been delivered and nobody is left who could print more -- unless the    *)
(* stream was cut (the owner closed or discarded it, or its I/O failed).   *)
(* Bytes are positions: delivered and acked are prefixes of printed.       *)
(***************************************************************************)
EXTENDS Naturals

CONSTANT Window                       \* output_window_bytes, at least 1

VARIABLES
  printed,     \* bytes written to the terminal so far
  writers,     \* some process can still write to the terminal
  delivered,   \* bytes handed to the consumer
  acked,       \* bytes the consumer has acknowledged
  cut,         \* the stream is being closed or discarded, or has failed
  closed       \* the end of the stream was announced

vars == <<printed, writers, delivered, acked, cut, closed>>

Init ==
  /\ printed = 0 /\ delivered = 0 /\ acked = 0
  /\ writers = TRUE /\ cut = FALSE /\ closed = FALSE

ProgramPrints ==
  /\ writers
  /\ printed' = printed + 1
  /\ UNCHANGED <<writers, delivered, acked, cut, closed>>

LastWriterLeaves ==
  /\ writers
  /\ writers' = FALSE
  /\ UNCHANGED <<printed, delivered, acked, cut, closed>>

Deliver ==
  /\ ~closed
  /\ delivered' \in (delivered + 1) .. printed
  /\ delivered' <= acked + Window
  /\ UNCHANGED <<printed, writers, acked, cut, closed>>

Ack ==
  /\ acked' \in (acked + 1) .. delivered
  /\ UNCHANGED <<printed, writers, delivered, cut, closed>>

Cut ==
  /\ cut' = TRUE
  /\ UNCHANGED <<printed, writers, delivered, acked, closed>>

Close ==
  /\ ~closed
  /\ cut \/ (~writers /\ delivered = printed)
  /\ closed' = TRUE
  /\ UNCHANGED <<printed, writers, delivered, acked, cut>>

Next == ProgramPrints \/ LastWriterLeaves \/ Deliver \/ Ack \/ Cut \/ Close

Spec == Init /\ [][Next]_vars
=============================================================================
