------------------------------- MODULE Otello -------------------------------
(***************************************************************************)
(* monitoring/otel: Otello.  Start dials and makes a resource and one      *)
(* provider after the other, each with a goroutine that exports; it        *)
(* returns at the first failure and undoes nothing.  Stop shuts down the   *)
(* providers there are and closes the connection.  gRPC and the providers  *)
(* are external.                                                           *)
(***************************************************************************)
EXTENDS Naturals, Sequences, SequencesExt

CONSTANT WithoutPrometheus   \* the config's flag, a Boolean

VARIABLES
  oconn,       \* o.conn is set
  providers,   \* the providers that are set
  inited,      \* o.inited
  oopen,       \* external: connections not closed
  exporting    \* external: providers not shut down

otelVars == <<oconn, providers, inited, oopen, exporting>>

(* What Start makes, in its order. *)
Stages ==
  <<"conn", "resource", "tracer", "logger">> \o IF WithoutPrometheus THEN <<>> ELSE <<"meter">>

Init == oconn = FALSE /\ providers = {} /\ inited = FALSE /\ oopen = 0 /\ exporting = {}

Made(n) == Range(SubSeq(Stages, 1, n)) \ {"conn", "resource"}

(* Start up to stage n: it succeeds if that is the last one. *)
Start(n) ==
  LET kept == IF oconn THEN oopen - 1 ELSE oopen IN
    /\ oconn' = (n >= 1) /\ oopen' = IF n >= 1 THEN kept + 1 ELSE kept
    /\ providers' = providers \cup Made(n) /\ exporting' = exporting \cup Made(n)
    /\ inited' = (inited \/ n = Len(Stages))

Stop ==
  /\ exporting' = exporting \ {p \in providers : p = "meter" => ~WithoutPrometheus}
  /\ oconn' = FALSE /\ oopen' = IF oconn THEN oopen - 1 ELSE oopen
  /\ UNCHANGED <<providers, inited>>

TypeOK ==
  /\ oconn \in BOOLEAN /\ inited \in BOOLEAN /\ oopen \in 0..1
  /\ providers \subseteq {"tracer", "logger", "meter"} /\ exporting \subseteq providers

(* No connection and no exporting goroutine is left. *)
Gone == oopen = 0 /\ exporting = {}
=============================================================================
