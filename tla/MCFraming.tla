---- MODULE MCFraming ----
(* An instance of Framing for TLC: a payload of one byte and one that could be
   taken for a header. *)
EXTENDS Framing

MCPayloads == {<<125>>, <<0, 0, 0, 2>>}
====
