--------------------------- MODULE SessionContract ---------------------------
(***************************************************************************)
(* What a native session promises the isolate that owns it, on either      *)
(* system: which events it tells, in which order and of what program, and  *)
(* when its memory may go.  The isolate is told at most once that it was   *)
(* spawned or was not, that the output, the input and the program ended,   *)
(* and that the session is closed; it is told the truth; and after the     *)
(* last of these it hears nothing more.  The isolate may stop listening at *)
(* any time, by giving the session up or by going away with all it heard.  *)
(***************************************************************************)
EXTENDS Naturals

VARIABLES
  told,       \* how often the isolate was told of each event
  listening,  \* the port is open and the session not abandoned
  program,    \* "none", "running" or "over"
  freed       \* the last reference is gone

vars == <<told, listening, program, freed>>

Events == {"SPAWNED", "SPAWN_FAILED", "OUTPUT_CLOSED", "INPUT_CLOSED",
           "PROCESS_EXIT", "ASYNC_ERROR", "SESSION_CLOSED"}
Nothing == [e \in Events |-> 0]

Init == told = Nothing /\ listening = TRUE /\ program = "none" /\ freed = FALSE

Heard(e) == told[e] > 0

\* A failed spawn and a closed session leave no program running.
True(e) ==
  /\ e = "SPAWNED" => program # "none" /\ ~Heard("SPAWN_FAILED")
  /\ e = "SPAWN_FAILED" => program # "running" /\ ~Heard("SPAWNED")
  /\ e = "PROCESS_EXIT" => program = "over"
  /\ e = "SESSION_CLOSED" => program # "running"

\* Errors can be many.  One during startup makes the isolate close the session
\* before the bootstrap's answer, which then has no use and may be late.
Answers == {"SPAWNED", "SPAWN_FAILED"}
InTime(e) == Heard("SESSION_CLOSED") => e \in Answers /\ Heard("ASYNC_ERROR")

Tell(e) ==
  /\ listening /\ ~freed
  /\ e = "ASYNC_ERROR" \/ ~Heard(e)
  /\ True(e) /\ InTime(e)
  /\ told' = [told EXCEPT ![e] = @ + 1]
  /\ UNCHANGED <<listening, program, freed>>

\* The port closes or the session is abandoned, with or without its listener.
Disconnect ==
  /\ listening' = FALSE /\ told' \in {told, Nothing}
  /\ UNCHANGED <<program, freed>>

ProgramStarts ==
  /\ program = "none" /\ ~freed /\ program' = "running"
  /\ UNCHANGED <<told, listening, freed>>

ProgramEnds ==
  /\ program = "running" /\ program' = "over"
  /\ UNCHANGED <<told, listening, freed>>

Free ==
  /\ ~freed /\ program # "running"
  /\ Heard("SESSION_CLOSED") \/ ~listening
  /\ freed' = TRUE
  /\ UNCHANGED <<told, listening, program>>

Next == (\E e \in Events : Tell(e)) \/ Disconnect \/ ProgramStarts \/ ProgramEnds \/ Free

Spec == Init /\ [][Next]_vars
=============================================================================
