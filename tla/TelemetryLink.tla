---- MODULE TelemetryLink ----
(***************************************************************************)
(* What the agent's TCP client promises the server: an abstract link.      *)
(*                                                                         *)
(* The agent offers frames 1, 2, 3, ... (heartbeats, metrics and security  *)
(* events, in the order they were produced).  The server sees them over    *)
(* successive connections.  The link may lose any frame, but it never      *)
(* delivers a frame twice, never reorders the frames of a connection,      *)
(* never delivers on a connection a frame older than one given to an       *)
(* earlier connection, and opens every connection with a handshake.        *)
(***************************************************************************)
EXTENDS Naturals, Sequences

CONSTANTS
  MaxConns,   \* connections considered (bound)
  MaxFrames   \* frames the agent offers (bound)

VARIABLES
  offered,    \* number of frames the agent has produced so far
  inbox       \* inbox[c]: what the server has read from connection c

linkVars == <<offered, inbox>>

Conns == 1..MaxConns

Handshake == 0

Init ==
  /\ offered = 0
  /\ inbox = [c \in Conns |-> <<>>]

Offer ==
  /\ offered < MaxFrames
  /\ offered' = offered + 1
  /\ UNCHANGED inbox

\* f fits at the end of connection c: newer than all that c and the earlier
\* connections delivered, older than all that the later ones delivered.
InOrder(c, f) ==
  \A d \in Conns : \A i \in 1..Len(inbox[d]) :
    \/ inbox[d][i] = Handshake
    \/ IF d <= c THEN inbox[d][i] < f ELSE f < inbox[d][i]

Open(c) ==
  /\ inbox[c] = <<>>
  /\ inbox' = [inbox EXCEPT ![c] = <<Handshake>>]
  /\ UNCHANGED offered

Deliver(c) ==
  /\ inbox[c] # <<>>
  /\ \E f \in 1..offered :
       /\ InOrder(c, f)
       /\ inbox' = [inbox EXCEPT ![c] = Append(@, f)]
  /\ UNCHANGED offered

Next == Offer \/ \E c \in Conns : Open(c) \/ Deliver(c)

Spec == Init /\ [][Next]_linkVars
====
