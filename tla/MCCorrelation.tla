---- MODULE MCCorrelation ----
(* An instance of Correlation for TLC: a login that names its address and one
   that does not, a session of root and a sudo command; memory that rises and
   falls, CPU that rises, and a metric that is neither.  Four messages are two
   candidates of two events each, with two ticks for a window that has passed
   for the first of three events and not for the second. *)
EXTENDS Correlation, TLC
CONSTANTS a1, a2, ip

AuthLine(ms, from) == [log |-> "auth", matches |-> ms, from |-> from]

MCLines ==
  {AuthLine({"failed"}, ip), AuthLine({"failed"}, NoAddress),
   AuthLine({"session opened", "session opened for user root"}, NoAddress),
   AuthLine({"sudo"}, NoAddress)}

Metric(type, high) == [metricType |-> type, high |-> high]

MCMetrics ==
  {Metric("cpu", TRUE), Metric("memory", TRUE), Metric("memory", FALSE), Metric("disk", TRUE)}

(* Workers that take their messages at once, so that the time of taking a value
   is the time it was measured. *)
PromptNext ==
  /\ CorrelationNext
  /\ now' = now \/ \A w \in Workers : ports[w] = <<>>

PromptSpec == CorrelationInit /\ [][PromptNext]_correlationVars

MCSymmetry == Permutations({a1, a2})
====
