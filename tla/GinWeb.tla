------------------------------- MODULE GinWeb -------------------------------
(***************************************************************************)
(* web/gin: GinWeb.  Start sets two goroutines going, once: one listens    *)
(* and serves, the other waits for the context and shuts the server down;  *)
(* Stop shuts it down too.  Neither Start nor Stop knows how far the first *)
(* goroutine has got, so Stop may come before it listens.                  *)
(*                                                                         *)
(* http.Server is external: ListenAndServe looks at the shutdown flag      *)
(* before it listens and again before it serves; Shutdown sets the flag,   *)
(* closes the listener that is served and waits for the requests, with a   *)
(* timeout.                                                                *)
(***************************************************************************)
EXTENDS Naturals

CONSTANT MaxConns   \* bound on requests at once, a number

VARIABLES
  ctxDone,     \* the context given to Start is cancelled
  once,        \* startOnce is done, srv is set
  serve,       \* place of the first goroutine
  watch,       \* place of the second
  shut,        \* external: the server's shutdown flag
  conns        \* external: requests that are served

webVars == <<once, serve, watch, shut, conns>>

Init ==
  /\ once = FALSE /\ serve = "none" /\ watch = "none"
  /\ shut = FALSE /\ conns = 0

(* Fault: nobody waits for the context. *)
StartUnwatched ==
  /\ once' = TRUE
  /\ serve' = IF once THEN serve ELSE "begin"
  /\ UNCHANGED <<watch, shut, conns>>

Start ==
  /\ once' = TRUE
  /\ serve' = IF once THEN serve ELSE "begin"
  /\ watch' = IF once THEN watch ELSE "wait"
  /\ UNCHANGED <<shut, conns>>

(* ListenAndServe; an address in use is logged. *)
Listen ==
  /\ serve = "begin"
  /\ serve' \in IF shut THEN {"ended"} ELSE {"bound", "ended"}
  /\ UNCHANGED <<once, watch, shut, conns>>

Serve ==
  /\ serve = "bound"
  /\ serve' = IF shut THEN "ended" ELSE "serving"
  /\ UNCHANGED <<once, watch, shut, conns>>

(* srv.Shutdown *)
Shutdown ==
  /\ shut' = TRUE
  /\ serve' = IF serve = "serving" THEN "ended" ELSE serve

Stop ==
  /\ IF once THEN Shutdown ELSE UNCHANGED <<shut, serve>>
  /\ UNCHANGED <<once, watch, conns>>

Watch ==
  /\ watch = "wait" /\ ctxDone
  /\ Shutdown
  /\ watch' = "ended"
  /\ UNCHANGED <<once, conns>>

(* External: a request begins and ends. *)
Accept ==
  /\ serve = "serving" /\ conns < MaxConns
  /\ conns' = conns + 1
  /\ UNCHANGED <<once, serve, watch, shut>>

Finish ==
  /\ conns > 0
  /\ conns' = conns - 1
  /\ UNCHANGED <<once, serve, watch, shut>>

Next == Listen \/ Serve \/ Watch \/ Accept \/ Finish

(* The goroutines run, and every request ends (ReadTimeout, WriteTimeout). *)
Fairness == WF_webVars(Listen \/ Serve) /\ WF_webVars(Watch) /\ WF_webVars(Finish)

TypeOK ==
  /\ once \in BOOLEAN /\ shut \in BOOLEAN /\ conns \in 0..MaxConns
  /\ serve \in {"none", "begin", "bound", "serving", "ended"}
  /\ watch \in {"none", "wait", "ended"}

(* Nothing is listened to, served or going to be. *)
Quiet == serve \in {"none", "ended"} /\ conns = 0
=============================================================================
