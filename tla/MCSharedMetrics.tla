---- MODULE MCSharedMetrics ----
(***************************************************************************)
(* The two metric workers, each with two of its fields.                    *)
(***************************************************************************)
EXTENDS SharedMetrics, TLC

CONSTANTS system, io, cpu, memory, disk, network

MCFieldsOf == system :> {cpu, memory} @@ io :> {disk, network}
====
