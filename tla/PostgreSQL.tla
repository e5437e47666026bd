----------------------------- MODULE PostgreSQL -----------------------------
(***************************************************************************)
(* db/postgres: a connection pool that is restarted when a ping fails, and *)
(* a listener goroutine that holds one connection of the pool and reads    *)
(* the notifications of one channel (OptionNotifyListener is given).       *)
(*                                                                         *)
(* Every doStart makes a pool, a context and its cancel function; they are *)
(* named by the number of the doStart, 0 is nil.  Threads are the          *)
(* application's goroutines, which call the exported methods, and the      *)
(* listener of each pool, which goes on into DoPing when it breaks.        *)
(*                                                                         *)
(* doStop waits in pool.Close, and doStart in Ping, with s.mu held: mu is  *)
(* the thread that waits there.  Other sections under s.mu are one step.   *)
(* pgxpool and the database are external: an Acquire fails on a cancelled  *)
(* context or an unreachable database and waits while the pool is used up, *)
(* Close waits until every connection is given back.                       *)
(***************************************************************************)
EXTENDS Naturals, FiniteSets

CONSTANTS
  Users,       \* goroutines of the application
  None,        \* s.mu is free
  MaxConns,    \* size of a pool
  MaxPools,    \* bound on doStart
  MaxFaults    \* bound on connections and databases lost

Listeners == 1..MaxPools
Threads == Users \cup Listeners

(* What the constants are. *)
PoolConstants ==
  /\ MaxConns \in Nat \ {0} /\ MaxPools \in Nat /\ MaxFaults \in Nat
  /\ Users \cap Nat = {} /\ None \notin Threads

VARIABLES
  mu,
  dbpool, conn, cancel,   \* the pool, the pool of the listener's conn, the live cancel function
  restarting,
  starts, cancelled,      \* doStarts so far, contexts that are done
  errorCh,                \* length of the channel, of capacity 1
  pc, pool,               \* per thread: place, local pool
  held,                   \* per user: the pool that its open rows come from
  started, stopped,       \* Start was called, Stop was called
  panicked,               \* a goroutine dereferenced nil: the process is gone
  dbUp, open, lost, faults   \* external: database, pools not closed, listeners' conns lost

sVars == <<dbpool, conn, cancel, restarting, starts, cancelled>>
callVars == <<started, stopped, panicked>>
dbVars == <<dbUp, lost, faults>>
vars == <<mu, sVars, errorCh, pc, pool, held, callVars, open, dbVars>>

Init ==
  /\ mu = None /\ dbpool = 0 /\ conn = 0 /\ cancel = 0 /\ restarting = FALSE
  /\ starts = 0 /\ cancelled = {} /\ errorCh = 0
  /\ pc = [t \in Threads |-> IF t \in Users THEN "idle" ELSE "done"]
  /\ pool = [t \in Threads |-> 0] /\ held = [u \in Users |-> 0]
  /\ started = FALSE /\ stopped = FALSE /\ panicked = FALSE
  /\ dbUp = TRUE /\ open = {} /\ lost = {} /\ faults = 0

(* Where a goroutine is after its call. *)
Rest(t) == IF t \in Users THEN "idle" ELSE "done"
Goto(t, place) == pc' = [pc EXCEPT ![t] = place]

(* Connections of a pool in use, and whether another one can be had. *)
InUse(p) == Cardinality({u \in Users : held[u] = p}) + (IF conn = p THEN 1 ELSE 0)
Free(p) == InUse(p) < MaxConns

----------------------------------------------------------------------------
(* Fault: the flag stays set when the start fails. *)
doStartStuck(t) ==
  LET n == starts + 1 IN
  /\ starts < MaxPools
  /\ starts' = n /\ cancel' = n /\ dbpool' = n /\ open' = open \cup {n}
  /\ IF dbUp
     THEN conn' = n /\ pc' = [pc EXCEPT ![n] = "wait", ![t] = "initPing"] /\ mu' = t
     ELSE conn' = 0 /\ Goto(t, Rest(t)) /\ mu' = None
  /\ UNCHANGED <<restarting, cancelled, errorCh, pool, held, stopped, panicked, dbVars>>

(* Fault: a pool that cannot LISTEN is closed and forgotten. *)
doStartNil(t) ==
  LET n == starts + 1 IN
  /\ starts < MaxPools /\ starts' = n /\ cancel' = n
  /\ IF dbUp
     THEN /\ dbpool' = n /\ open' = open \cup {n} /\ conn' = n
          /\ pc' = [pc EXCEPT ![n] = "wait", ![t] = "initPing"]
          /\ mu' = t /\ UNCHANGED restarting
     ELSE dbpool' = 0 /\ conn' = 0 /\ Goto(t, Rest(t)) /\ restarting' = FALSE /\ mu' = None /\ UNCHANGED open
  /\ UNCHANGED <<cancelled, errorCh, pool, held, stopped, panicked, dbVars>>

(* doStart up to the ping: a pool, then LISTEN and its listener; the pool  *)
(* stays when LISTEN fails.  t holds s.mu.  The configuration is taken to  *)
(* be valid, so that there is always a pool to begin with.                 *)
doStart(t) ==
  LET n == starts + 1 IN
  /\ starts < MaxPools
  /\ starts' = n /\ cancel' = n /\ dbpool' = n /\ open' = open \cup {n}
  /\ IF dbUp
     THEN /\ conn' = n
          /\ pc' = [pc EXCEPT ![n] = "wait", ![t] = "initPing"]
          /\ mu' = t
          /\ UNCHANGED restarting
     ELSE /\ conn' = 0
          /\ Goto(t, Rest(t))
          /\ restarting' = FALSE /\ mu' = None
  /\ UNCHANGED <<cancelled, errorCh, pool, held, stopped, panicked, dbVars>>

(* Start, which an application calls once. *)
Start(u) ==
  /\ pc[u] = "idle" /\ mu = None /\ ~started
  /\ ~restarting
  /\ started' = TRUE
  /\ doStart(u)

(* The ping that ends doStart, whatever its answer; it waits for a free    *)
(* connection.                                                             *)
StartPing(t) ==
  /\ pc[t] = "initPing" /\ Free(dbpool)
  /\ restarting' = FALSE /\ mu' = None
  /\ Goto(t, Rest(t))
  /\ UNCHANGED <<dbpool, conn, cancel, starts, cancelled, errorCh, pool, held,
                 callVars, open, dbVars>>

(* Fault: the listener's connection is not given back. *)
doStopNoRelease(t, place) ==
  /\ cancelled' = IF cancel = 0 THEN cancelled ELSE cancelled \cup {cancel}
  /\ cancel' = 0 /\ mu' = t /\ Goto(t, place) /\ UNCHANGED conn

(* doStop up to pool.Close. *)
doStop(t, place) ==
  /\ conn' = 0
  /\ cancelled' = IF cancel = 0 THEN cancelled ELSE cancelled \cup {cancel}
  /\ cancel' = 0
  /\ mu' = t
  /\ Goto(t, place)

(* Stop, which an application calls once. *)
Stop(u) ==
  /\ pc[u] = "idle" /\ mu = None /\ started /\ ~stopped
  /\ stopped' = TRUE
  /\ doStop(u, "stopClose")
  /\ UNCHANGED <<dbpool, restarting, starts, errorCh, pool, held, started, panicked, open, dbVars>>

(* pool.Close returns when nobody holds a connection of the pool. *)
Closed(t, place, then) ==
  /\ pc[t] = place
  /\ dbpool # 0 => InUse(dbpool) = 0
  /\ open' = open \ {dbpool} /\ dbpool' = 0
  /\ mu' = None
  /\ Goto(t, then)
  /\ UNCHANGED <<conn, cancel, restarting, starts, cancelled, errorCh, pool, held, callVars, dbVars>>

StopClosed(u) == Closed(u, "stopClose", "idle")

----------------------------------------------------------------------------
(* DoRestart: stop, sleep without s.mu, start. *)
RestartCall(u) ==
  /\ pc[u] = "idle" /\ started
  /\ Goto(u, "restart")
  /\ UNCHANGED <<mu, sVars, errorCh, pool, held, callVars, open, dbVars>>

RestartRefused(t) ==
  /\ pc[t] = "restart" /\ mu = None /\ restarting
  /\ Goto(t, Rest(t))
  /\ UNCHANGED <<mu, sVars, errorCh, pool, held, callVars, open, dbVars>>

RestartStop(t) ==
  /\ pc[t] = "restart" /\ mu = None /\ ~restarting /\ starts < MaxPools
  /\ restarting' = TRUE
  /\ doStop(t, "restartClose")
  /\ UNCHANGED <<dbpool, starts, errorCh, pool, held, callVars, open, dbVars>>

RestartClosed(t) == Closed(t, "restartClose", "sleep")

RestartStart(t) ==
  /\ pc[t] = "sleep" /\ mu = None
  /\ doStart(t)
  /\ UNCHANGED started

----------------------------------------------------------------------------
(* DoPing: a ping that fails restarts the pool. *)
PingBegin(t) ==
  /\ pc[t] \in {"idle", "callPing"} /\ mu = None /\ started
  /\ pool' = [pool EXCEPT ![t] = dbpool]
  /\ Goto(t, IF dbpool = 0 THEN Rest(t) ELSE "ping")
  /\ UNCHANGED <<mu, sVars, errorCh, held, callVars, open, dbVars>>

Answers(p) == p \in open \ cancelled /\ dbUp /\ Free(p)

PingEnd(t) ==
  /\ pc[t] = "ping"
  /\ Goto(t, IF Answers(pool[t]) THEN Rest(t) ELSE "restart")
  /\ pool' = [pool EXCEPT ![t] = 0]
  /\ UNCHANGED <<mu, sVars, errorCh, held, callVars, open, dbVars>>

(* Query, QueryRow, Exec: the pool is read under s.mu and used after it.   *)
QueryBegin(u) ==
  /\ pc[u] = "idle" /\ mu = None /\ started
  /\ pool' = [pool EXCEPT ![u] = dbpool]
  /\ panicked' = (dbpool = 0)
  /\ Goto(u, "query")
  /\ UNCHANGED <<mu, sVars, errorCh, held, started, stopped, open, dbVars>>

QueryAcquire(u) ==
  /\ pc[u] = "query" /\ Answers(pool[u])
  /\ held' = [held EXCEPT ![u] = pool[u]] /\ pool' = [pool EXCEPT ![u] = 0]
  /\ Goto(u, "rows")
  /\ UNCHANGED <<mu, sVars, errorCh, callVars, open, dbVars>>

QueryFails(u) ==
  /\ pc[u] = "query"
  /\ pool[u] \notin open \ cancelled \/ ~dbUp
  /\ pool' = [pool EXCEPT ![u] = 0]
  /\ Goto(u, "idle")
  /\ UNCHANGED <<mu, sVars, errorCh, held, callVars, open, dbVars>>

(* The caller closes its rows. *)
RowsClose(u) ==
  /\ pc[u] = "rows"
  /\ held' = [held EXCEPT ![u] = 0]
  /\ Goto(u, "idle")
  /\ UNCHANGED <<mu, sVars, errorCh, pool, callVars, open, dbVars>>

----------------------------------------------------------------------------
(* listenForEvent.  conn.Conn() dereferences what Release has set to nil.  *)
ListenNotified(l) ==
  /\ pc[l] = "wait" /\ conn = l /\ l \notin cancelled \cup lost
  /\ Goto(l, "got")
  /\ UNCHANGED <<mu, sVars, errorCh, pool, held, callVars, open, dbVars>>

(* The notification is queued or dropped, neither of which waits. *)
ListenAgain(l) ==
  /\ pc[l] = "got"
  /\ panicked' = (conn # l)
  /\ Goto(l, "wait")
  /\ UNCHANGED <<mu, sVars, errorCh, pool, held, started, stopped, open, dbVars>>

ListenBreaks(l) ==
  /\ pc[l] = "wait"
  /\ conn # l \/ l \in cancelled \cup lost
  /\ Goto(l, "report")
  /\ UNCHANGED <<mu, sVars, errorCh, pool, held, callVars, open, dbVars>>

(* errorCh takes one message; then the listener's goroutine runs DoPing.   *)
ListenReport(l) ==
  /\ pc[l] = "report" /\ errorCh < 1
  /\ errorCh' = errorCh + 1
  /\ Goto(l, "callPing")
  /\ UNCHANGED <<mu, sVars, pool, held, callVars, open, dbVars>>

(* External: the application receives from errorCh. *)
ReadError ==
  /\ errorCh > 0
  /\ errorCh' = errorCh - 1
  /\ UNCHANGED <<mu, sVars, pc, pool, held, callVars, open, dbVars>>

(* External: the network and the database. *)
ConnLost ==
  /\ conn \notin lost \cup {0} /\ faults < MaxFaults
  /\ lost' = lost \cup {conn} /\ faults' = faults + 1
  /\ UNCHANGED <<mu, sVars, errorCh, pc, pool, held, callVars, open, dbUp>>

DbDown ==
  /\ dbUp /\ faults < MaxFaults
  /\ dbUp' = FALSE /\ lost' = lost \cup ({conn} \ {0}) /\ faults' = faults + 1
  /\ UNCHANGED <<mu, sVars, errorCh, pc, pool, held, callVars, open>>

DbBack ==
  /\ ~dbUp
  /\ dbUp' = TRUE
  /\ UNCHANGED <<mu, sVars, errorCh, pc, pool, held, callVars, open, lost, faults>>

----------------------------------------------------------------------------
UserCalls(u) == Start(u) \/ Stop(u) \/ RestartCall(u) \/ PingBegin(u) \/ QueryBegin(u)

(* What goes on by itself once called. *)
UserSteps(u) == StopClosed(u) \/ QueryAcquire(u) \/ QueryFails(u) \/ RowsClose(u)

ThreadSteps(t) ==
  \/ StartPing(t) \/ RestartRefused(t) \/ RestartStop(t) \/ RestartClosed(t) \/ RestartStart(t)
  \/ PingEnd(t)

ListenerSteps(l) == ListenAgain(l) \/ ListenBreaks(l) \/ ListenReport(l) \/ PingBegin(l)

Next ==
  /\ ~panicked
  /\ \/ \E u \in Users : UserCalls(u) \/ UserSteps(u)
     \/ \E t \in Threads : ThreadSteps(t)
     \/ \E l \in Listeners : ListenerSteps(l) \/ ListenNotified(l)
     \/ ReadError \/ ConnLost \/ DbDown \/ DbBack

Spec == Init /\ [][Next]_vars

(* Called methods go on, callers close their rows, the application reads   *)
(* errorCh.                                                                *)
Fairness ==
  /\ \A u \in Users : WF_vars(~panicked /\ UserSteps(u))
  /\ \A t \in Threads : WF_vars(~panicked /\ ThreadSteps(t))
  /\ \A l \in Listeners : WF_vars(~panicked /\ ListenerSteps(l))
  /\ WF_vars(~panicked /\ ReadError)

FairSpec == Spec /\ Fairness

----------------------------------------------------------------------------
Places ==
  {"idle", "done", "initPing", "stopClose", "restart", "restartClose", "sleep", "callPing",
   "ping", "query", "rows", "wait", "got", "report"}

TypeOK ==
  /\ mu \in Threads \cup {None}
  /\ dbpool \in 0..MaxPools /\ conn \in 0..MaxPools /\ cancel \in 0..MaxPools
  /\ restarting \in BOOLEAN /\ starts \in 0..MaxPools /\ cancelled \subseteq Listeners
  /\ errorCh \in 0..1
  /\ pc \in [Threads -> Places] /\ pool \in [Threads -> 0..MaxPools]
  /\ held \in [Users -> 0..MaxPools]
  /\ started \in BOOLEAN /\ stopped \in BOOLEAN /\ panicked \in BOOLEAN
  /\ dbUp \in BOOLEAN /\ open \subseteq Listeners /\ lost \subseteq Listeners
  /\ faults \in 0..MaxFaults

(* No pool is lost: whatever restarts, stops, pings and breaking listeners *)
(* run together, the only pool that is not closed is the one that the next *)
(* doStop will close (postgreSql.go:105, 163-166, 208-247).                *)
PoolsOwned == open \subseteq {dbpool}

(* Every listener that waits for notifications with a live context is the  *)
(* current pool's: those of replaced pools were told to end                *)
(* (postgreSql.go:82, 127, 158-162).                                       *)
ListenersOfCurrentPool ==
  \A l \in Listeners : pc[l] \in {"wait", "got"} /\ l \notin cancelled => l = dbpool

(* A service that was started and not stopped lacks its pool only while a  *)
(* restart is in progress: a restart that fails leaves a pool, so that     *)
(* DoPing can try again (postgreSql.go:124-134, 208-247, 263).             *)
PoolUnlessRestarting == started /\ dbpool = 0 => restarting \/ stopped

(* A started service has a pool unless it restarts, no other pool is open, *)
(* and only the listener of the current one waits for notifications        *)
(* (postgreSql.go:82-134, 144-169, 208-247).                               *)
Inv == TypeOK /\ PoolsOwned /\ ListenersOfCurrentPool /\ PoolUnlessRestarting

(* A restart comes to an end, in success or not, so that the next one is   *)
(* not refused for ever (postgreSql.go:210, 231, 244).                     *)
RestartCompletes == restarting ~> ~restarting \/ panicked

(* Stop returns: pool.Close gets every connection back, the listener's too *)
(* (postgreSql.go:144-169).                                                *)
StopReturns == \A u \in Users : pc[u] = "stopClose" ~> pc[u] = "idle" \/ panicked

(* The listener of a pool that was stopped ends and reports it             *)
(* (postgreSql.go:303-318).                                                *)
ListenersEnd ==
  \A l \in Listeners : l \in cancelled ~> pc[l] \notin {"wait", "got", "report"} \/ panicked

(* What Stop begins comes to an end: Stop itself, and the listeners of the *)
(* pools that it or a restart stopped (postgreSql.go:144-169, 303-318).    *)
StopCompletes == StopReturns /\ ListenersEnd
=============================================================================
