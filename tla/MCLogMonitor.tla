---- MODULE MCLogMonitor ----
(***************************************************************************)
(* Three collections over a log of three lines, the second of which is     *)
(* none that the monitor reports.                                          *)
(***************************************************************************)
EXTENDS LogMonitor, TLC

CONSTANTS c1, c2, c3

CollectionSymmetry == Permutations({c1, c2, c3})
====
