----------------------------- MODULE HostedApp -----------------------------
(***************************************************************************)
(* An application whose services are the web server, telemetry and others: *)
(* the controller's calls of Start and Stop are the ones of GinWeb and of  *)
(* Otello, its context is the one that the web server watches, and the     *)
(* goroutines of the web server run beside it.                             *)
(***************************************************************************)
EXTENDS AppController

CONSTANTS Web, Otel, MaxConns, WithoutPrometheus

ASSUME HostedAssumption ==
  /\ {Web, Otel} \subseteq Services /\ Web # Otel
  /\ MaxConns \in Nat /\ WithoutPrometheus \in BOOLEAN

VARIABLES once, serve, watch, shut, conns, oconn, providers, inited, oopen, exporting

webVars == <<once, serve, watch, shut, conns>>
otelVars == <<oconn, providers, inited, oopen, exporting>>
hostVars == <<vars, webVars, otelVars>>

W == INSTANCE GinWeb WITH ctxDone <- cancelled
O == INSTANCE Otello

HostInit == Init /\ W!Init /\ O!Init

(* v.Start(ctx) of initServices: GinWeb's never fails. *)
HostStart ==
  /\ InitService
  /\ IF startList[k] = Web THEN pc' = "init" /\ W!Start ELSE UNCHANGED webVars
  /\ IF startList[k] = Otel
     THEN \E n \in 0..Len(O!Stages) : O!Start(n) /\ (n = Len(O!Stages) <=> pc' = "init")
     ELSE UNCHANGED otelVars

(* Stop of the service whose turn it is, in initServices or deInitServices. *)
HostStop ==
  /\ UndoService \/ DeInitService
  /\ IF log' # log /\ Last(log') = Web THEN W!Stop ELSE UNCHANGED webVars
  /\ IF log' # log /\ Last(log') = Otel THEN O!Stop ELSE UNCHANGED otelVars

HostElse ==
  /\ LoadConfig \/ MakeQuit \/ Process \/ ProcessEnd \/ Quit \/ Stop \/ Signal \/ Return
  /\ UNCHANGED <<webVars, otelVars>>

HostNext ==
  \/ HostStart \/ HostStop \/ HostElse
  \/ W!Next /\ UNCHANGED <<vars, otelVars>>

HostFairness ==
  /\ WF_hostVars(HostStart) /\ WF_hostVars(HostStop)
  /\ WF_vars(MakeQuit) /\ WF_vars(ProcessEnd) /\ SF_vars(Quit) /\ WF_vars(Return)
  /\ W!Fairness

HostSpec == HostInit /\ [][HostNext]_hostVars /\ HostFairness

----------------------------------------------------------------------------
(* Requests are served only between Start and Stop of the web server, also *)
(* when Stop comes before its goroutine listens or serves                  *)
(* (ginWeb.go:73-113).                                                     *)
ServesOnlyRunning == serve = "serving" => Web \in running

(* Of a service that is not running nothing is left, unless it is          *)
(* telemetry whose Start has failed, which nobody stops                    *)
(* (appcv3.go:175-183; otello.go:68-164).                                  *)
TelemetryOwned ==
  Otel \in running \/ O!Gone \/ (pc \in {"undo", "failed"} /\ startList[Len(started) + 1] = Otel)

(* The controller undoes what it started (appcv3.go:169-203), and nothing  *)
(* of the web server or of telemetry outlasts their Stop.                  *)
HostInv == Inv /\ FailureUndone /\ W!TypeOK /\ O!TypeOK /\ ServesOnlyRunning /\ TelemetryOwned

(* Once Run is over the web server goes quiet for good, although app.Stop  *)
(* may not name it and its goroutine may not have listened yet             *)
(* (ginWeb.go:84-96, 103-113; appcv3.go:149-150, 175-183).                 *)
WebGoesQuiet == pc \in {"returned", "failed"} ~> []W!Quiet
=============================================================================
