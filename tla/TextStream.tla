----------------------------- MODULE TextStream -----------------------------
(***************************************************************************)
(* What the dictation pipeline promises to the program that started it,    *)
(* without its threads and channels: audio frames are heard one after the  *)
(* other; texts, each made from some of the frames heard, are written in   *)
(* the order the frames were heard, no frame twice; and once the stream is *)
(* closed nothing is written any more.                                     *)
(***************************************************************************)
EXTENDS Integers, Sequences

VARIABLES
  heard,    \* number of audio frames taken from the source so far
  written,  \* the texts written, each the set of the frames it was made from
  closed    \* the sink has returned its result

vars == <<heard, written, closed>>

(* Every frame of a comes before every frame of b. *)
Precedes(a, b) == \A x \in a, y \in b : x < y

Init == heard = 0 /\ written = <<>> /\ closed = FALSE

Hear ==
  /\ heard' = heard + 1
  /\ UNCHANGED <<written, closed>>

Write(text) ==
  /\ ~closed
  /\ \A i \in DOMAIN written : Precedes(written[i], text)
  /\ written' = Append(written, text)
  /\ UNCHANGED <<heard, closed>>

Close ==
  /\ ~closed
  /\ closed' = TRUE
  /\ UNCHANGED <<heard, written>>

Next == Hear \/ Close \/ \E text \in (SUBSET (1..heard)) \ {{}} : Write(text)

Spec == Init /\ [][Next]_vars
=============================================================================
