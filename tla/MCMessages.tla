---- MODULE MCMessages ----
(***************************************************************************)
(* The way of messages into the server: the frames they come in, and the   *)
(* workers that look for what belongs together in them.  The two share no  *)
(* variable: each is explored while the other has not begun, so that the   *)
(* states are those of the one and those of the other.                     *)
(***************************************************************************)
EXTENDS MCCorrelation, MCFraming

NoFrameYet == sent = <<>> /\ breaks = 0
NoMessageYet == posted = 0 /\ now = 0

MCNext ==
  \/ NoFrameYet /\ CorrelationNext /\ UNCHANGED vars
  \/ NoMessageYet /\ Next /\ UNCHANGED correlationVars

MCInit == CorrelationInit /\ Init

MCSpec == MCInit /\ [][MCNext]_<<correlationVars, vars>>
====
