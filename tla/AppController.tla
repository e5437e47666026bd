---------------------------- MODULE AppController ----------------------------
(***************************************************************************)
(* app/v3: AppControllerV3.Run loads the configuration, starts the         *)
(* application's services in turn, runs its processing function on a       *)
(* ticker until something arrives on quit, and stops the services that     *)
(* app.Stop() names.  Stop may be called by any goroutine at any time,     *)
(* operating-system signals arrive once they are asked for.                *)
(*                                                                         *)
(* The application, its services and its processing function are external. *)
(* A service whose Start fails is taken not to run.  log is a history      *)
(* variable: the services stopped, in order; asked is set by a Stop or     *)
(* signal that finds the quit channel.                                     *)
(***************************************************************************)
EXTENDS Naturals, Sequences, SequencesExt, FiniteSets

CONSTANTS
  Services,
  Nil,         \* a nil service, a nil channel
  MaxList      \* bound on the lists that app.Start() and app.Stop() return

ASSUME AppAssumption == Nil \notin Services \cup Nat /\ MaxList \in Nat

VARIABLES
  startList, stopList,   \* what app.Start() and app.Stop() return
  pc, k,                 \* Run's place, index into the list it goes through
  started,               \* initServices' started
  quit,                  \* messages in v3.quit, of capacity 1, or Nil
  cancelled,             \* v3.ctx is done
  running, log, asked

lists == <<startList, stopList>>
vars == <<lists, pc, k, started, quit, cancelled, running, log, asked>>

(* Distinct services to start; to stop, the same or others, nil included.  *)
StartLists == {s \in BoundedSeq(Services, MaxList) : IsInjective(s)}
StopLists == {s \in BoundedSeq(Services \cup {Nil}, MaxList) : IsInjective(s)}

Init ==
  /\ startList \in StartLists /\ stopList \in StopLists
  /\ pc = "config" /\ k = 1 /\ started = <<>> /\ quit = Nil
  /\ cancelled = FALSE /\ running = {} /\ log = <<>> /\ asked = FALSE

----------------------------------------------------------------------------
(* cm.Load(): a failure panics before there is anything to undo. *)
LoadConfig ==
  /\ pc = "config"
  /\ pc' \in {"init", "failed"}
  /\ UNCHANGED <<lists, k, started, quit, cancelled, running, log, asked>>

(* initServices, one service; the ones before it are stopped if it fails.  *)
InitService ==
  /\ pc = "init" /\ k <= Len(startList)
  /\ \/ /\ started' = Append(started, startList[k])
        /\ running' = running \cup {startList[k]}
        /\ k' = k + 1
        /\ UNCHANGED pc
     \/ /\ pc' = "undo" /\ k' = Len(started)
        /\ UNCHANGED <<started, running>>
  /\ UNCHANGED <<lists, quit, cancelled, log, asked>>

StopService(s) ==
  /\ running' = running \ {s}
  /\ log' = Append(log, s)

(* Fault: the first service is not stopped. *)
UndoServiceShort ==
  /\ pc = "undo"
  /\ IF k > 1
     THEN StopService(started[k]) /\ k' = k - 1 /\ UNCHANGED pc
     ELSE pc' = "failed" /\ UNCHANGED <<k, running, log>>
  /\ UNCHANGED <<lists, started, quit, cancelled, asked>>

UndoService ==
  /\ pc = "undo"
  /\ IF k > 0
     THEN StopService(started[k]) /\ k' = k - 1 /\ UNCHANGED pc
     ELSE pc' = "failed" /\ UNCHANGED <<k, running, log>>
  /\ UNCHANGED <<lists, started, quit, cancelled, asked>>

(* The quit channel is made, and signals asked for, after the services.    *)
MakeQuit ==
  /\ pc = "init" /\ k > Len(startList)
  /\ quit' = 0 /\ pc' = "loop"
  /\ UNCHANGED <<lists, k, started, cancelled, running, log, asked>>

----------------------------------------------------------------------------
(* doProcess: the ticker's case runs the processing function, which may    *)
(* panic; nothing then stops the services.                                 *)
Process ==
  /\ pc = "loop"
  /\ pc' = "processing"
  /\ UNCHANGED <<lists, k, started, quit, cancelled, running, log, asked>>

ProcessEnd ==
  /\ pc = "processing"
  /\ pc' \in {"loop", "crashed"}
  /\ UNCHANGED <<lists, k, started, quit, cancelled, running, log, asked>>

Quit ==
  /\ pc = "loop" /\ quit = 1
  /\ quit' = 0 /\ pc' = "deinit" /\ k' = 1
  /\ UNCHANGED <<lists, started, cancelled, running, log, asked>>

(* A send that does not wait: dropped while the channel holds a message.   *)
Send ==
  /\ quit # Nil
  /\ quit' = 1
  /\ asked' = TRUE

(* Stop before the channel exists is lost. *)
Stop ==
  /\ Send
  /\ UNCHANGED <<lists, pc, k, started, cancelled, running, log>>

(* External: a signal, until signal.Stop when Run returns. *)
Signal ==
  /\ pc \in {"loop", "processing", "deinit"}
  /\ Send
  /\ UNCHANGED <<lists, pc, k, started, cancelled, running, log>>

(* Fault: the method of a nil service is called. *)
DeInitServiceNil ==
  /\ pc = "deinit" /\ k <= Len(stopList)
  /\ IF stopList[k] = Nil THEN pc' = "crashed" /\ UNCHANGED <<running, log>>
     ELSE StopService(stopList[k]) /\ UNCHANGED pc
  /\ k' = k + 1
  /\ UNCHANGED <<lists, started, quit, cancelled, asked>>

(* deInitServices, one service; an error of its Stop is logged. *)
DeInitService ==
  /\ pc = "deinit" /\ k <= Len(stopList)
  /\ IF stopList[k] = Nil THEN UNCHANGED <<running, log>> ELSE StopService(stopList[k])
  /\ k' = k + 1
  /\ UNCHANGED <<lists, pc, started, quit, cancelled, asked>>

Return ==
  /\ pc = "deinit" /\ k > Len(stopList)
  /\ cancelled' = TRUE /\ pc' = "returned"
  /\ UNCHANGED <<lists, k, started, quit, running, log, asked>>

----------------------------------------------------------------------------
Next ==
  \/ LoadConfig \/ InitService \/ UndoService \/ MakeQuit
  \/ Process \/ ProcessEnd \/ Quit \/ Stop \/ Signal
  \/ DeInitService \/ Return

Spec == Init /\ [][Next]_vars

----------------------------------------------------------------------------
TypeOK ==
  /\ startList \in StartLists /\ stopList \in StopLists
  /\ pc \in {"config", "init", "undo", "failed", "loop", "processing", "crashed", "deinit", "returned"}
  /\ k \in 0..(MaxList + 1) /\ started \in Seq(Services)
  /\ quit \in {Nil, 0, 1}
  /\ cancelled \in BOOLEAN /\ running \subseteq Services
  /\ log \in Seq(Services) /\ asked \in BOOLEAN

(* A failed start leaves nothing behind: the services that had been        *)
(* started were each stopped, the last one first (appcv3.go:175-183).      *)
FailureUndone == pc = "failed" => running = {} /\ log = Reverse(started)

(* A Stop or a signal that finds the quit channel is not lost, whatever    *)
(* the loop is doing then (appcv3.go:143, 163-166, 210-217).               *)
AskedNotLost == asked => quit = 1 \/ pc \in {"deinit", "returned", "crashed"}

(* The services' context is cancelled only when every service that         *)
(* app.Stop() names has been stopped (appcv3.go:149-150).                  *)
ContextOutlivesServices == cancelled => running \cap Range(stopList) = {}

(* A request to stop is kept until it is acted on, and the context         *)
(* outlives the services (appcv3.go:143-166, 210-217).                     *)
Inv == TypeOK /\ AskedNotLost /\ ContextOutlivesServices

(* Run ends once it has been asked to, unless the processing function      *)
(* panics: a busy ticker and nil services do not stand in the way          *)
(* (appcv3.go:188-217).                                                    *)
RunReturns == asked ~> pc = "returned" \/ (pc = "crashed" /\ ~cancelled /\ log = <<>>)
=============================================================================
