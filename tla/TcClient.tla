------------------------------ MODULE TcClient ------------------------------
(***************************************************************************)
(* tc/tcClientSender: a chat client that keeps one websocket connection.   *)
(* The application calls Start and Stop in turn.  Each connection has a    *)
(* reader and a writer goroutine; whichever meets an error spawns          *)
(* wsRestart, which disconnects and connects again.  wsConnect is thus run *)
(* by the application (in Start) and by restarters, wsDisconnect by the    *)
(* application (in Stop) and by both when a connect fails late.            *)
(*                                                                         *)
(* A section under tc.mu, a network call and an atomic operation is one    *)
(* step each.  A connection, its context and its cancel function are named *)
(* by the number of its dial, 0 is nil.  A restarter is a reusable slot.   *)
(* The server, the token service and the websocket library are external.   *)
(***************************************************************************)
EXTENDS Naturals, Sequences, FiniteSets

CONSTANTS
  MaxStarts, MaxDials,   \* bounds on Start and on dials
  Slots,                 \* bound on restarters that exist at a time
  QueueSize,             \* capacity of tc.wsMsg, 256 in the code
  MaxMsgs,               \* bound on SendMsg
  MaxFaults              \* bound on what the network and the server do wrong

(* What the constants are. *)
ClientConstants ==
  /\ MaxStarts \in Nat /\ MaxDials \in Nat /\ Slots \in Nat
  /\ QueueSize \in Nat \ {0} /\ MaxMsgs \in Nat /\ MaxFaults \in Nat

ASSUME TcAssumption == ClientConstants

App == 0
Restarters == 1..Slots
Actors == {App} \cup Restarters
Conns == 1..MaxDials
Lives == 1..MaxStarts

VARIABLES
  started, connecting,                    \* under tc.mu
  wsconn,                                 \* under tc.mu; stands for tc.ctx and tc.cancel too
  stopped, restartFlag,                   \* atomic
  tokenValid,                             \* tc.token # "" and not expired
  wsMsg,                                  \* the queue of messages to write
  stopDone, parentDone,                   \* contexts that are done
  pc, ret, conn, again,   \* per actor: place, what follows wsDisconnect, local conn, count > 1
  rd, wr,                 \* per connection: <<place, local conn>> of its reader and writer
  refresh, starts,        \* per Start: place of its tokenRefreshLoop; Starts so far
  sender, msgs,           \* a goroutine in SendMsg, SendMsg calls so far
  panicked,               \* a goroutine has dereferenced a nil connection
  dials, connsOpen, authed, faults        \* external

tcVars == <<started, connecting, wsconn, stopped, restartFlag, tokenValid>>
ctxVars == <<stopDone, parentDone>>
actorVars == <<pc, ret, conn, again>>
pumpVars == <<rd, wr, panicked>>
otherVars == <<refresh, starts, sender, msgs>>
netVars == <<dials, connsOpen, authed, faults>>
vars == <<tcVars, ctxVars, actorVars, pumpVars, otherVars, netVars, wsMsg>>

Places ==
  {"idle", "token0", "failed", "stopping", "take", "close", "wait", "enter", "token",
   "dial", "dialed", "spawn", "auth", "cas", "loop", "backoff", "retry", "end"}
PumpPlaces == ({"none", "begin", "done"} \X {0}) \cup ({"loop"} \X (Conns \cup {0}))
Done == <<"done", 0>>

Init ==
  /\ started = FALSE /\ connecting = FALSE /\ wsconn = 0
  /\ stopped = FALSE /\ restartFlag = FALSE /\ tokenValid = FALSE /\ wsMsg = <<>>
  /\ stopDone = FALSE /\ parentDone = FALSE
  /\ pc = [a \in Actors |-> "idle"] /\ ret = [a \in Actors |-> "none"]
  /\ conn = [a \in Actors |-> 0] /\ again = [a \in Actors |-> FALSE]
  /\ rd = [c \in Conns |-> <<"none", 0>>] /\ wr = [c \in Conns |-> <<"none", 0>>]
  /\ refresh = [t \in Lives |-> "none"] /\ starts = 0 /\ sender = "idle" /\ msgs = 0
  /\ panicked = FALSE
  /\ dials = 0 /\ connsOpen = {} /\ authed = {} /\ faults = 0

Fault == faults < MaxFaults /\ faults' = faults + 1
Goto(a, place) == pc' = [pc EXCEPT ![a] = place]

(* getAuthorizationToken gives up: three requests in a row get no answer,  *)
(* or one gets an answer that is not a token.                              *)
TokenRefused == Fault

(* pushWSMsg succeeds; it fails when the queue stays full for 5 s. *)
HasRoom == Len(wsMsg) < QueueSize

(* tc.ctx, tc.cancel and tc.wsconn are stored together and taken out       *)
(* together: tc.ctx was cancelled exactly when there is no connection.     *)
CtxDone == parentDone \/ wsconn = 0

----------------------------------------------------------------------------
(* Start and Stop. *)
StartBegin ==
  /\ pc[App] = "idle" /\ ~started /\ starts < MaxStarts
  /\ starts' = starts + 1
  /\ started' = TRUE /\ stopped' = FALSE
  /\ Goto(App, "token0")
  /\ UNCHANGED <<connecting, wsconn, restartFlag, tokenValid, ctxVars,
                 ret, conn, again, pumpVars, refresh, sender, msgs, netVars, wsMsg>>

(* getAuthorizationToken, then the refresh loop and wsConnect. *)
StartToken ==
  /\ pc[App] = "token0"
  /\ \/ /\ tokenValid' = TRUE
        /\ refresh' = [refresh EXCEPT ![starts] = "top"]
        /\ Goto(App, "enter")
        /\ UNCHANGED faults
     \/ /\ TokenRefused
        /\ Goto(App, "failed")
        /\ UNCHANGED <<tokenValid, refresh>>
  /\ UNCHANGED <<started, connecting, wsconn, stopped, restartFlag, ctxVars,
                 ret, conn, again, pumpVars, starts, sender, msgs, dials, connsOpen, authed, wsMsg>>

StartFailed ==
  /\ pc[App] = "failed"
  /\ started' = FALSE
  /\ Goto(App, "idle")
  /\ UNCHANGED <<connecting, wsconn, stopped, restartFlag, tokenValid, ctxVars,
                 ret, conn, again, pumpVars, otherVars, netVars, wsMsg>>

StopBegin ==
  /\ pc[App] = "idle"
  /\ started' = FALSE
  /\ Goto(App, "stopping")
  /\ UNCHANGED <<connecting, wsconn, stopped, restartFlag, tokenValid, ctxVars,
                 ret, conn, again, pumpVars, otherVars, netVars, wsMsg>>

StopFlag ==
  /\ pc[App] = "stopping"
  /\ stopped' = TRUE /\ stopDone' = TRUE
  /\ Goto(App, "take")
  /\ ret' = [ret EXCEPT ![App] = "idle"]
  /\ UNCHANGED <<started, connecting, wsconn, restartFlag, tokenValid,
                 parentDone, conn, again, pumpVars, otherVars, netVars, wsMsg>>

----------------------------------------------------------------------------
(* wsDisconnect: take the connection out, close it, wait for the pumps. *)
DisconnectTake(a) ==
  /\ pc[a] = "take"
  /\ conn' = [conn EXCEPT ![a] = wsconn]
  /\ wsconn' = 0 /\ connecting' = FALSE
  /\ Goto(a, IF wsconn = 0 THEN ret[a] ELSE "close")
  /\ UNCHANGED <<started, stopped, restartFlag, tokenValid, stopDone, parentDone,
                 ret, again, pumpVars, otherVars, netVars, wsMsg>>

DisconnectClose(a) ==
  /\ pc[a] = "close"
  /\ connsOpen' = connsOpen \ {conn[a]} /\ authed' = authed \ {conn[a]}
  /\ conn' = [conn EXCEPT ![a] = 0]
  /\ Goto(a, "wait")
  /\ UNCHANGED <<tcVars, ctxVars, ret, again, pumpVars, otherVars, dials, faults, wsMsg>>

PumpsEnded == \A c \in Conns : rd[c][1] \in {"none", "done"} /\ wr[c][1] \in {"none", "done"}

DisconnectWait(a) ==
  /\ pc[a] = "wait" /\ PumpsEnded
  /\ Goto(a, ret[a])
  /\ UNCHANGED <<tcVars, ctxVars, ret, conn, again, pumpVars, otherVars, netVars, wsMsg>>

----------------------------------------------------------------------------
(* wsConnect. Its errors and its success take Start and wsRestart on. *)
OnError(a) == IF a = App THEN "failed" ELSE "retry"
OnSuccess(a) == IF a = App THEN "idle" ELSE "end"

ConnectEnter(a) ==
  /\ pc[a] = "enter"
  /\ IF wsconn # 0 \/ connecting
     THEN Goto(a, OnError(a)) /\ UNCHANGED connecting
     ELSE Goto(a, "token") /\ connecting' = TRUE
  /\ UNCHANGED <<started, wsconn, stopped, restartFlag, tokenValid, ctxVars,
                 ret, conn, again, pumpVars, otherVars, netVars, wsMsg>>

(* Start hands its token in; a restarter takes tc.token or asks for one. *)
ConnectToken(a) ==
  /\ pc[a] = "token"
  /\ \/ Goto(a, "dial") /\ UNCHANGED <<connecting, faults>>
     \/ /\ a # App /\ ~tokenValid /\ TokenRefused
        /\ connecting' = FALSE
        /\ Goto(a, OnError(a))
  /\ UNCHANGED <<started, wsconn, stopped, restartFlag, tokenValid, ctxVars,
                 ret, conn, again, pumpVars, otherVars, dials, connsOpen, authed, wsMsg>>

(* A dial may fail any number of times, and always does when the           *)
(* application's context is done.                                          *)
ConnectDial(a) ==
  /\ pc[a] = "dial" /\ dials < MaxDials
  /\ \/ /\ ~parentDone
        /\ dials' = dials + 1
        /\ connsOpen' = connsOpen \cup {dials'}
        /\ conn' = [conn EXCEPT ![a] = dials']
        /\ Goto(a, "dialed")
        /\ UNCHANGED connecting
     \/ /\ connecting' = FALSE
        /\ Goto(a, OnError(a))
        /\ UNCHANGED <<dials, connsOpen, conn>>
  /\ UNCHANGED <<started, wsconn, stopped, restartFlag, tokenValid, ctxVars,
                 ret, again, pumpVars, otherVars, authed, faults, wsMsg>>

(* Fault: a connection dialled too late is not closed. *)
ConnectDialedLeak(a) ==
  /\ pc[a] = "dialed"
  /\ connecting' = FALSE
  /\ wsconn' = IF stopped THEN wsconn ELSE conn[a]
  /\ Goto(a, IF stopped THEN OnError(a) ELSE "spawn")
  /\ UNCHANGED <<started, stopped, restartFlag, tokenValid, ctxVars, ret, conn, again,
                 pumpVars, otherVars, netVars, wsMsg>>

ConnectDialed(a) ==
  /\ pc[a] = "dialed"
  /\ connecting' = FALSE
  /\ IF stopped
     THEN /\ connsOpen' = connsOpen \ {conn[a]}
          /\ conn' = [conn EXCEPT ![a] = 0]
          /\ Goto(a, OnError(a))
          /\ UNCHANGED wsconn
     ELSE /\ wsconn' = conn[a]
          /\ Goto(a, "spawn")
          /\ UNCHANGED <<connsOpen, conn>>
  /\ UNCHANGED <<started, stopped, restartFlag, tokenValid, ctxVars, ret, again,
                 pumpVars, otherVars, dials, authed, faults, wsMsg>>

ConnectSpawn(a) ==
  /\ pc[a] = "spawn"
  /\ rd' = [rd EXCEPT ![conn[a]] = <<"begin", 0>>]
  /\ wr' = [wr EXCEPT ![conn[a]] = <<"begin", 0>>]
  /\ Goto(a, "auth")
  /\ UNCHANGED <<tcVars, ctxVars, ret, conn, again, panicked, otherVars,
                 netVars, wsMsg>>

(* pushWSMsg of the auth request; a queue full for 5 s undoes the connect. *)
ConnectAuth(a) ==
  /\ pc[a] = "auth"
  /\ IF HasRoom
     THEN /\ wsMsg' = Append(wsMsg, "auth")
          /\ Goto(a, OnSuccess(a))
          /\ conn' = [conn EXCEPT ![a] = IF a = App THEN 0 ELSE @]
          /\ UNCHANGED ret
     ELSE /\ Goto(a, "take")
          /\ ret' = [ret EXCEPT ![a] = OnError(a)]
          /\ UNCHANGED <<wsMsg, conn>>
  /\ UNCHANGED <<tcVars, ctxVars, again, pumpVars, otherVars, netVars>>

----------------------------------------------------------------------------
(* wsRestart. *)
Idle == {r \in Restarters : pc[r] = "idle"}

(* go tc.wsRestart() *)
Spawn == \E r \in Idle : (\A q \in Idle : r <= q) /\ Goto(r, "cas")

(* The reader and the writer look at both flags first. *)
SpawnRestart == IF stopped \/ restartFlag THEN UNCHANGED pc ELSE Spawn

RestartCAS(r) ==
  /\ pc[r] = "cas"
  /\ restartFlag' = TRUE
  /\ Goto(r, IF restartFlag THEN "idle" ELSE "loop")
  /\ UNCHANGED <<started, connecting, wsconn, stopped, tokenValid, ctxVars,
                 ret, conn, again, pumpVars, otherVars, netVars, wsMsg>>

RestartLoop(r) ==
  /\ pc[r] = "loop"
  /\ IF stopped THEN Goto(r, "end") /\ UNCHANGED ret
     ELSE Goto(r, "take") /\ ret' = [ret EXCEPT ![r] = "backoff"]
  /\ UNCHANGED <<tcVars, ctxVars, conn, again, pumpVars, otherVars, netVars, wsMsg>>

(* No pause before the first attempt; a pause ends early when stopCtx does. *)
RestartBackoff(r) ==
  /\ pc[r] = "backoff"
  /\ \/ Goto(r, "enter")
     \/ again[r] /\ stopDone /\ Goto(r, "end")
  /\ again' = [again EXCEPT ![r] = TRUE]
  /\ UNCHANGED <<tcVars, ctxVars, ret, conn, pumpVars, otherVars, netVars, wsMsg>>

(* Fault: the restart is given up after one attempt. *)
RestartRetryOnce(r) ==
  /\ pc[r] = "retry"
  /\ Goto(r, "end")
  /\ UNCHANGED <<tcVars, ctxVars, ret, conn, again, pumpVars, otherVars, netVars, wsMsg>>

RestartRetry(r) ==
  /\ pc[r] = "retry"
  /\ Goto(r, IF stopped THEN "end" ELSE "loop")
  /\ UNCHANGED <<tcVars, ctxVars, ret, conn, again, pumpVars, otherVars, netVars, wsMsg>>

RestartEnd(r) ==
  /\ pc[r] = "end"
  /\ restartFlag' = FALSE
  /\ Goto(r, "idle")
  /\ conn' = [conn EXCEPT ![r] = 0] /\ again' = [again EXCEPT ![r] = FALSE]
  /\ ret' = [ret EXCEPT ![r] = "none"]
  /\ UNCHANGED <<started, connecting, wsconn, stopped, tokenValid, ctxVars,
                 pumpVars, otherVars, netVars, wsMsg>>

(* Test, the debug method, on a client that has started. *)
ForceRestart ==
  /\ Fault /\ started /\ pc[App] = "idle" /\ ~restartFlag
  /\ Spawn
  /\ UNCHANGED <<tcVars, ctxVars, ret, conn, again, pumpVars, otherVars,
                 dials, connsOpen, authed, wsMsg>>

----------------------------------------------------------------------------
(* readMsg and writeMsg take tc.wsconn of the moment they first run. One   *)
(* that finds nil panics: that ends the program, but the model only makes  *)
(* a note of it and goes on, which adds behaviours and leaves none out.    *)
ReadBegin(c) ==
  /\ rd[c] = <<"begin", 0>>
  /\ rd' = [rd EXCEPT ![c] = IF wsconn = 0 THEN Done ELSE <<"loop", wsconn>>]
  /\ panicked' = (panicked \/ wsconn = 0)
  /\ UNCHANGED <<tcVars, ctxVars, actorVars, wr, otherVars, netVars, wsMsg>>

(* Fault: the reader tries again on a connection that has failed. *)
ReadFailsAgain(c) ==
  /\ rd[c][1] = "loop" /\ rd[c][2] \notin connsOpen
  /\ SpawnRestart
  /\ UNCHANGED <<tcVars, ctxVars, ret, conn, again, pumpVars, otherVars, netVars, wsMsg>>

ReadFails(c) ==
  /\ rd[c][1] = "loop" /\ rd[c][2] \notin connsOpen
  /\ rd' = [rd EXCEPT ![c] = Done]
  /\ SpawnRestart
  /\ UNCHANGED <<tcVars, ctxVars, ret, conn, again, wr, panicked, otherVars,
                 netVars, wsMsg>>

(* The server answers with an error code of 300 or more: the reader goes on. *)
ReadErrorCode(c) ==
  /\ rd[c][1] = "loop" /\ rd[c][2] \in connsOpen /\ Fault
  /\ SpawnRestart
  /\ UNCHANGED <<tcVars, ctxVars, ret, conn, again, pumpVars, otherVars,
                 dials, connsOpen, authed, wsMsg>>

WriteBegin(c) ==
  /\ wr[c] = <<"begin", 0>>
  /\ wr' = [wr EXCEPT ![c] = <<"loop", wsconn>>]
  /\ UNCHANGED <<tcVars, ctxVars, actorVars, rd, panicked, otherVars, netVars, wsMsg>>

WriteDone(c) ==
  /\ wr[c][1] = "loop" /\ CtxDone
  /\ wr' = [wr EXCEPT ![c] = Done]
  /\ UNCHANGED <<tcVars, ctxVars, actorVars, rd, panicked, otherVars, netVars,
                 wsMsg>>

(* A write on the writer's connection that does not succeed. *)
WriteFails(c) ==
  /\ wr[c][2] \notin connsOpen
  /\ panicked' = (panicked \/ wr[c][2] = 0)
  /\ wr' = [wr EXCEPT ![c] = Done]
  /\ SpawnRestart

(* The first tick comes 25 s after the writer began; the connect that      *)
(* began it has returned by then, 5 s at the latest after that.            *)
WritePing(c) ==
  /\ wr[c][1] = "loop"
  /\ ~\E a \in Actors : pc[a] \in {"auth", "end"} /\ conn[a] = c
  /\ WriteFails(c)
  /\ UNCHANGED <<tcVars, ctxVars, ret, conn, again, rd, otherVars, netVars, wsMsg>>

WriteMsg(c) ==
  /\ wr[c][1] = "loop" /\ wsMsg # <<>>
  /\ wsMsg' = Tail(wsMsg)
  /\ \/ /\ ~restartFlag /\ ~stopped /\ wr[c][2] \in connsOpen
        /\ authed' = IF Head(wsMsg) = "auth" THEN authed \cup {wr[c][2]} ELSE authed
        /\ UNCHANGED <<wr, panicked, pc>>
     \/ ~restartFlag /\ ~stopped /\ WriteFails(c) /\ UNCHANGED authed
     \/ (restartFlag \/ stopped) /\ UNCHANGED <<authed, wr, panicked, pc>>
  /\ UNCHANGED <<tcVars, ctxVars, ret, conn, again, rd, otherVars,
                 dials, connsOpen, faults>>

----------------------------------------------------------------------------
(* SendMsg: the flag, then the queue; an error when it stays full. *)
SendBegin ==
  /\ sender = "idle" /\ msgs < MaxMsgs /\ ~stopped
  /\ sender' = "push" /\ msgs' = msgs + 1
  /\ UNCHANGED <<tcVars, ctxVars, actorVars, pumpVars, refresh, starts, netVars, wsMsg>>

SendPush ==
  /\ sender = "push"
  /\ sender' = "idle"
  /\ wsMsg' = IF HasRoom THEN Append(wsMsg, "user") ELSE wsMsg
  /\ UNCHANGED <<tcVars, ctxVars, actorVars, pumpVars, refresh, starts, msgs, netVars>>

(* tokenRefreshLoop: started is looked at, then it sleeps. *)
RefreshTop(t) ==
  /\ refresh[t] = "top"
  /\ refresh' = [refresh EXCEPT ![t] = IF started THEN "sleep" ELSE "done"]
  /\ UNCHANGED <<tcVars, ctxVars, actorVars, pumpVars, starts, sender, msgs, netVars, wsMsg>>

(* The timer, and the request, which stores its token or leaves the old one. *)
RefreshWake(t) ==
  /\ refresh[t] = "sleep"
  /\ refresh' = [refresh EXCEPT ![t] = "top"]
  /\ \/ tokenValid' = TRUE /\ UNCHANGED faults
     \/ TokenRefused /\ UNCHANGED tokenValid
  /\ UNCHANGED <<started, connecting, wsconn, stopped, restartFlag, ctxVars,
                 actorVars, pumpVars, starts, sender, msgs, dials, connsOpen, authed, wsMsg>>

RefreshStop(t) ==
  /\ refresh[t] = "sleep" /\ stopDone
  /\ refresh' = [refresh EXCEPT ![t] = "done"]
  /\ UNCHANGED <<tcVars, ctxVars, actorVars, pumpVars, starts, sender, msgs, netVars, wsMsg>>

----------------------------------------------------------------------------
(* External: the application's context ends, the token expires, the        *)
(* connection is lost.                                                     *)
ParentCancel ==
  /\ starts > 0 /\ ~parentDone /\ parentDone' = TRUE /\ Fault
  /\ UNCHANGED <<tcVars, stopDone, actorVars, pumpVars, otherVars,
                 dials, connsOpen, authed, wsMsg>>

TokenExpires ==
  /\ tokenValid /\ tokenValid' = FALSE /\ Fault
  /\ UNCHANGED <<started, connecting, wsconn, stopped, restartFlag, ctxVars,
                 actorVars, pumpVars, otherVars, dials, connsOpen, authed, wsMsg>>

ServerDrop(c) ==
  /\ c \in connsOpen /\ Fault
  /\ connsOpen' = connsOpen \ {c} /\ authed' = authed \ {c}
  /\ UNCHANGED <<tcVars, ctxVars, actorVars, pumpVars, otherVars, dials, wsMsg>>

AppStep == StartToken \/ StartFailed \/ StopFlag
ConnectStep(a) ==
  \/ DisconnectTake(a) \/ DisconnectClose(a) \/ DisconnectWait(a)
  \/ ConnectEnter(a) \/ ConnectToken(a) \/ ConnectDial(a) \/ ConnectDialed(a)
  \/ ConnectSpawn(a) \/ ConnectAuth(a)
RestartStep(r) ==
  RestartCAS(r) \/ RestartLoop(r) \/ RestartBackoff(r) \/ RestartRetry(r) \/ RestartEnd(r)
ReadStep(c) == ReadBegin(c) \/ ReadFails(c)
WriteStep(c) == WriteBegin(c) \/ WriteDone(c) \/ WritePing(c) \/ WriteMsg(c)
RefreshStep(t) == RefreshTop(t) \/ RefreshWake(t) \/ RefreshStop(t)

Next ==
  \/ StartBegin \/ StopBegin \/ AppStep
  \/ \E a \in Actors : ConnectStep(a)
  \/ \E r \in Restarters : RestartStep(r)
  \/ \E c \in Conns : ReadStep(c) \/ WriteStep(c) \/ ReadErrorCode(c)
  \/ SendBegin \/ SendPush \/ ForceRestart
  \/ \E t \in Lives : RefreshStep(t)
  \/ ParentCancel \/ TokenExpires
  \/ \E c \in Conns : ServerDrop(c)

Spec == Init /\ [][Next]_vars

(* Goroutines run, network calls return, back-offs and timers end, the     *)
(* ticker ticks, select does not pass over a context that is done, and a   *)
(* server that is dialled again and again answers in the end.              *)
Fairness ==
  /\ WF_vars(AppStep)
  /\ \A a \in Actors : WF_vars(ConnectStep(a))
  /\ \A r \in Restarters : /\ WF_vars(RestartStep(r))
                           /\ SF_vars(ConnectDial(r) /\ dials' > dials)
  /\ \A c \in Conns : /\ WF_vars(ReadStep(c))
                      /\ WF_vars(WriteBegin(c))
                      /\ WF_vars(WriteDone(c))
                      /\ WF_vars(WritePing(c))
  /\ \A t \in Lives : /\ WF_vars(RefreshStep(t))
                      /\ SF_vars(RefreshStop(t))

FairSpec == Spec /\ Fairness

----------------------------------------------------------------------------
TypeOK ==
  /\ started \in BOOLEAN /\ connecting \in BOOLEAN /\ stopped \in BOOLEAN
  /\ restartFlag \in BOOLEAN /\ tokenValid \in BOOLEAN /\ panicked \in BOOLEAN
  /\ wsconn \in Conns \cup {0}
  /\ stopDone \in BOOLEAN /\ parentDone \in BOOLEAN
  /\ pc \in [Actors -> Places] /\ ret \in [Actors -> {"none", "idle", "failed", "retry", "backoff"}]
  /\ conn \in [Actors -> Conns \cup {0}] /\ again \in [Actors -> BOOLEAN]
  /\ rd \in [Conns -> PumpPlaces] /\ wr \in [Conns -> PumpPlaces]
  /\ refresh \in [Lives -> {"none", "top", "sleep", "done"}]
  /\ starts \in 0..MaxStarts /\ sender \in {"idle", "push"} /\ msgs \in 0..MaxMsgs
  /\ wsMsg \in Seq({"auth", "user"}) /\ Len(wsMsg) <= QueueSize
  /\ dials \in 0..MaxDials /\ connsOpen \in SUBSET Conns /\ authed \in SUBSET connsOpen
  /\ faults \in 0..MaxFaults

(* Once Stop has taken the connection out, none is stored until the next   *)
(* Start, whatever dial of a restarter Stop fell into (tcClientWS.go:181-  *)
(* 192 against tcClient.go:95-102).                                        *)
NothingAfterStop == stopped => wsconn = 0 \/ pc[App] = "take"

(* In one life no websocket is lost sight of: an open one is tc.wsconn, or *)
(* in the hands of a connect that will store or close it, or of a          *)
(* disconnect that will close it (tcClientWS.go:74-93, 181-192).           *)
ConnectionsOwned ==
  \A c \in connsOpen :
    c = wsconn \/ \E a \in Actors : pc[a] \in {"dialed", "close"} /\ conn[a] = c

(* In one life, a stored connection always has someone who will notice its *)
(* loss and restart: a restart is under way, or the connection's writer    *)
(* runs, though its reader may have found the restart flag still set and   *)
(* gone without a word (tcClientWS.go:36, 247-250, 282-288).               *)
Attended ==
  wsconn # 0 /\ ~stopped /\ ~parentDone =>
    \/ \E a \in Actors : pc[a] = "spawn"
    \/ \E r \in Restarters : pc[r] # "idle"
    \/ wr[wsconn] \in {<<"begin", 0>>, <<"loop", wsconn>>}

(* In one life, no websocket is lost sight of, none is stored after Stop,  *)
(* and the stored one has someone to notice its loss (tcClientWS.go:74-93, *)
(* 181-192, 247-288).                                                      *)
Inv == TypeOK /\ NothingAfterStop /\ ConnectionsOwned /\ Attended

(* Stop returns, as the pumps it waits for end (tcClientWS.go:74-93), the  *)
(* connection is closed, and all goroutines of the client end, unless      *)
(* there is another Start.                                                 *)
StopQuiesces ==
  pc[App] = "stopping" ~>
    \/ started \/ panicked
    \/ /\ pc[App] = "idle" /\ connsOpen = {} /\ PumpsEnded
       /\ Idle = Restarters /\ \A t \in Lives : refresh[t] \in {"none", "done"}

(* In one life, a client that has started comes to have an open connection *)
(* again, whichever of its goroutines sees the loss first and however the  *)
(* attempts to restart fail, until Stop or the end of its context.         *)
Reconnects ==
  (started /\ pc[App] = "idle") ~>
    (stopDone \/ parentDone \/ panicked \/ (wsconn \in connsOpen))

(* tcClientWS.go:220 says of the request that wsConnect queues that it is  *)
(* the auth message being sent: a connection that is in use and has        *)
(* nothing queued has had it.                                              *)
InUseIsAuthenticated ==
  (wsconn \in connsOpen /\ wsMsg = <<>> /\ ~panicked /\ \A a \in Actors : pc[a] = "idle")
     => wsconn \in authed
=============================================================================
