---- MODULE MCTcpServer ----
(***************************************************************************)
(* Small instances of the receiver: two connections of one agent, or these *)
(* and one of another agent.                                               *)
(***************************************************************************)
EXTENDS TcpServer, TLC

CONSTANTS a1, a2, s1, s2, s3

MCOwner == s1 :> a1 @@ s2 :> a1 @@ s3 :> a2

(* Frames read (bound): MaxFrames and two of the same agent; or two, a
   handshake that replaces their connection, and two of the other agent. *)
InBound ==
  \/ conn'[s3] = "idle" /\ read'[s2] <= 2
  \/ read'[s1] <= 2 /\ read'[s2] <= 1 /\ read'[s3] <= 2

MCSpec == Init /\ [][Next /\ InBound]_vars /\ WF_vars(ServerWorks)
====
