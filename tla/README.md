# TLA+ models of arcella-lib

arcella-lib is a Go library of the parts that a service is put together from: an application
controller, caches, clients for message brokers, databases, directories, mail and chat, and
middleware for web servers. Most parts are a struct with a few fields under a mutex, goroutines that
outlive the call that started them, and network calls made with the lock released. That is where
they can go wrong, and what these modules are about.

Paths below are relative to `src/`. `PROJECT.json` maps every definition to the lines it models and
lists the hazards, each at its line, with the properties that cover it.

## Inventory

| Component | State | Operations | What is hard about it |
|---|---|---|---|
| TTL cache `cache/memcachettl` | map, expiry heap, sequence numbers, limit; reaper with `done` channel | Set, Get, GetAll, Delete, CheckTTL, SetMaxEntries, Start, Stop | Get reads under one lock and evicts under another; stale heap entries; Start against Stop |
| RabbitMQ client `mq/rabbitmq` | connection, channel, deliveries, `stopped`, `connected`, `confirms`, context | Start, Stop, connect loop, dispatcher, workers, Produce | every network call is made without the lock; Stop may come between any two steps |
| SMS centre client `smsc/smsc.go` | session, waiters by sequence number, `sendMu`, `restartMu` | SendMessage (parts, retries), answer handler, Start, Stop, Restart | early and late answers, refused parts, retries, two restarts at once |
| chat client `tc/tcClientSender` | websocket, contexts, restart flag, token, message queue | Start, Stop, connect, disconnect, restart, reader, writer, refresh loop, SendMsg | the goroutine that meets an error must not wait for itself; errors during a restart |
| fail2ban `web/gin/middleware/fail2ban` | suspects with counts, bans, sweeps | check, Incr, Del, Add | four critical sections per request, many requests at once |
| rate limiter `web/gin/middleware/rateLimiter` | token bucket and last use per address | look-up with sweep, Allow | Allow after the unlock; a forgotten address gets a full bucket |
| PostgreSQL pool `db/postgres` | pool, listener connection, cancel function, `restarting`, error channel | Start, Stop, DoRestart, DoPing, queries, listener | Close and Ping wait with the lock held; listeners of replaced pools |
| Oracle pool `db/oracle` | handle, context | Start, Stop, DoPing, DoRestart | pings outside the lock, several restarters |
| MS SQL pool `db/mssql` | handle | Start with retried pings, Stop, GetDB | pings with the lock held |
| LDAP client `ldap/client.go` | shared connection | VerifyUser (connect, search, reconnect, search), Close | the shared connection is closed and replaced under its other users |
| mail sender `mail/sender` | persistent SMTP client | SendMessage, Stop | a Send goroutine outlives its timeout |
| HTTP client `web/std/client` | lazily built client, cipher rule, round tripper, headers | GetClient, setters, Close, requests | double-checked building; who closes the body |
| application controller `app/v3` | services started, quit channel, context | Run, Stop, signals | a failing start half-way, Stop at any time |
| embedded store `db/bbolt` | handle `bb.db` | Start, Stop, Put, Get, Delete, batches, AddWithSeq, buckets | operations read the handle without the lock; Stop closes it under them; crashes, failed commits |
| web server `web/gin` | `http.Server`, `startOnce`, two goroutines | Start, Stop | Stop may come before the goroutine listens; the context and Stop both shut down |
| telemetry `monitoring/otel` | connection, three providers, `inited` | Start, Stop | Start returns at the first failure and leaves what it made |
| log handler `app/v3/log/prettylog` | derived handlers sharing slices, pool of buffers | WithGroup, WithAttrs, Handle | appending to a shared array, buffers given back and reused |
| keepass cache `crypt/keepass` | decoded file with its stamp | Load | a file that changes between Stat, Open, Decode and Stat |
| configuration loader `app/v3/config/basic` | the application's struct | Load | precedence of file, default and environment through nested values |
| helpers `utils`, `ldap/utils.go` | none | SubStr, GetSubStr, sieve, decodeSID, GUID conversions | boundaries, overflow, lengths taken from data |
| plain cache, NTLM, auth and request-log middleware, fasthttp client, SMPP store, ciphers, codecs | see `PROJECT.json` | | not modelled, see the end |

The parts meet in three places. The controller starts and stops services and cancels their context:
`AppController` has abstract services, and `HostedApp` gives it the web server and telemetry as two of
them, with the web server's goroutines running beside the controller and watching its context. The
caches, log handlers and middleware are called by request goroutines. All others are called by
goroutines of the application, which each module has as a set of callers.

## Modules

| Module | Models | Uses |
|---|---|---|
| `TTLMap` | what a TTL cache promises: an abstract specification, without heap, numbers, locks or reaper | |
| `MemCacheTTL` | the TTL cache | refines `TTLMap` |
| `MemCacheTTLProofs` | theorems about the cache, the refinement included | |
| `RabbitMQ`, `RabbitMQProofs` | the RabbitMQ client: life, connect loop, producers | |
| `RabbitConsumer`, `RabbitConsumerProofs` | its consumer half: dispatcher, workers, prefetch window, settlement | |
| `TcClient` | the chat client | |
| `SMSCenter` | the SMS centre client | |
| `MCMessengers`, `MCMessengersProofs` | the two, side by side, for TLC; theorems about them | |
| `PostgreSQL` | the PostgreSQL pool with its listener | |
| `DurableStore` | what an embedded store promises: an abstract specification | |
| `BBolt` | the embedded store | refines `DurableStore` |
| `MCStores`, `MCStoresProofs` | the pool beside the embedded store, for TLC; theorems about them, the refinement included | |
| `AppController` | the application controller | |
| `GinWeb`, `Otello` | the web server; telemetry | |
| `HostedApp` | an application that hosts them | composes `AppController`, `GinWeb` and `Otello` |
| `MsSQL`, `OracleSQL`, `MailSender` | services that keep one handle | |
| `MCApp`, `MCAppProofs` | `HostedApp` and the three, put together for TLC; theorems about them | |
| `HTTPClient`, `LDAPClient`, `Keepass`, `PrettyLog` | clients and handlers that share a cached thing | |
| `MCClients`, `MCClientsProofs` | the four, with the same callers, for TLC; theorems about them | |
| `Fail2Ban`, `RateLimiter` | the two middlewares that turn clients away | |
| `MCGuards`, `MCGuardsProofs` | the two, with the same addresses, for TLC; theorems about them | |
| `Config`, `Helpers` | functions: the loader, and helpers that compute with positions | |
| `MCPure` | for TLC: the inputs of the two | |

`HostedApp` composes parts that interact. `MCApp`, `MCClients` and `MCGuards` only put modules that share
nothing under one run: each steps only while the others are in their initial state, so no product of
independent state spaces is explored, and none of it would show more. `MCStores` and `MCMessengers` put a
second module beside the one that they extend, under a specification of its own in which the first stays in
its initial state: `PoolSpec` for the pool, `SendSpec` for the SMS centre's client. `Spec` of the extended
module is checked by that module's own run. A module `XProofs` extends `X` and has its theorems.

Conventions shared by all of them:

* A section under a mutex is one step, and so is a network call, an atomic operation, or a channel
  operation between two of these. What a call does between two sections is a place in `pc`.
* A connection, channel, session, pool, handle or context is the number of the call that made it; 0
  is nil. Payloads, names and texts are left out unless a property tells them apart.
* The network, the servers and the client libraries are external: they are modelled by what the code
  relies on, and may fail wherever the code handles a failure.
* A nil dereference that an interleaving can reach is an outcome, `panicked`, after which the process
  is gone; the liveness properties except it (see "Known limits of the code").
* An operator marked "Fault" is a plausible mistake at the definition below it. It is not part of the
  specification; replacing the definition by it makes the property that `PROJECT.json` names under
  "mutants" fail, which shows that the property has something to say about that code.
* Each bound (`Max...`, `Slots`) is a guard of the action it bounds and is named in the module.

### How the modules correspond to the code

**MemCacheTTL.** `items`, `expiryHeap`, `nextSeq`, `maxEntries` are the fields under `c.mu`; the heap
is the set of its elements, since popping the least while it is due removes just those that are due.
Get is a read section and, if it found the item expired, a write section that looks again. Stop takes
`done` under the lock, closes it, and waits. Time moves between any two steps.

**RabbitMQ.** Each Start makes a loop; `lpc` walks through `connectAsync` and `connect` (dial, store,
open channel, store, Confirm, declare, Consume, store, watch). Stop cancels, takes connection and
channel out under the lock, and closes them after it. `r.ctx` is read through the struct, so an old
loop sees the context of a newer Start, as in the code.

**SMSCenter.** A sender is one SendMessage with its attempts; a part is its sender, its attempt and
its number. The waiter is registered before Submit; the answer handler runs on the session's
goroutine and takes the waiter out.

**TcClient.** wsConnect and wsDisconnect are procedures run by the application and by restarters
(`pc`, `ret`); the pumps of each connection are `rd` and `wr`. The run has one life (Start, Stop) per behaviour.

**RabbitConsumer.** A delivery is a message and the channel it came on. The dispatcher of a channel
reads `r.mqMessages` when it first runs, which may be nil or a later channel's, ranges over it and
hands deliveries to `workCh`; a worker runs the function and settles. A call that panics settles nothing
and its worker goes on. The broker delivers as far as the window allows and, when a channel ends,
delivers what was not settled again.

**Fail2Ban.** Requests are goroutines, each critical section a step. The history `hits` is read by
properties only.

**RateLimiter.** The look-up, with its sweep, is a section; Allow comes after it, up to `MaxDelay`
later. The bucket is the library's, with the rate that the code gives it. `asked` and `served` are history,
read by properties only: running totals by the end of each second, so that what a span let through is
the difference of two of them.

**PostgreSQL.** `mu` is held across pool.Close and the ping of doStart, which wait. Users close their
rows before their next call. A listener ends in DoPing, and may restart the pool itself.

**OracleSQL, MsSQL.** Oracle's ping runs between two sections, its restart in one. MS SQL's Start
holds the lock through up to four pings.

**LDAPClient.** connectLocked releases the lock for the dial and looks again; the second search reads
`c.conn` again and is told from the first by `failed`.

**MailSender.** Each message is one call, which SendMessage begins and which then waits for the lock. The lock is held from the dial to the result, while
`flights` are the Send goroutines, abandoned ones included. An error that is sent again
(isConnLevelErr) is taken to come before the server took the message.

**HTTPClient.** The setters give other values than the present ones, the empty rule among them. GetClient is a read section and a write section; a request keeps the client that it
got. `held` are the requests whose connection was not given back.

**AppController, HostedApp.** Every pair of lists of services to start and to stop is an initial state.
In `HostedApp` the controller's Start and Stop of the web server and of telemetry are the actions of
their modules, and the other services stay abstract.

**GinWeb.** `serve` and `watch` are the places of the two goroutines. http.Server is external: it looks
at its shutdown flag before it listens and before it serves, which is what makes an early Stop work.

**Otello.** Start stops after any of its stages; Stop shuts down what is set.

**BBolt.** An operation reads `bb.db`, begins its transaction on that handle, commits, and returns, each a step;
Start opens a handle and then stores it, Stop closes it, which waits for transactions, and then sets `bb.db` to nil,
all under the lock that operations do not take. So an operation may find nil, which panics, or a handle that a Stop
closes before the transaction begins or has closed just before, which is an error; `met` are the operations that a
Stop has overlapped. A crash ends all calls and keeps what was committed. An id that was drawn for a
commit that fails is returned beside the error (`Drawn`).

**Keepass.** Load compares Stat of the path with the entry, and otherwise opens, decodes, asks Stat of
the open file and stores; others rewrite, replace and remove the file at any time.

**PrettyLog.** A slice is an array and a length, so appends of two handlers derived from one may meet
in one array, as in Go. A buffer has an owner and its text.

**Config.** A struct is a tree of values; `Load` picks the file, reads it and walks the tree as
`modifyStruct` does. Environment, file and up to two
arguments are chosen in Init, with absent, empty and bad ones among them; an argument `cfg=` that is empty leads
to the default, past the variable. Which file it should be is defined apart from the code's way of
finding it (`ChosenFile`).

**Helpers.** Strings are sequences of bytes or of rune sizes, int wraps at `MaxInt`; each function is
compared with a definition of what it is for.

## Runs

One run per question. `Inv` of a module is the conjunction of its type invariant and of the named
invariants that it lists; `HostInv`, `HandlesInv`, `ClientsInv`, `GuardsInv`, `SendInv` and `PoolInv` do
the same for the modules of a run. Safety and liveness are checked together. Symmetry is used in `web_guards` and
`clients` only, which have no liveness property.

| Run | Shows | Bounds and why they are enough |
|---|---|---|
| `cache` | map and heap agree, a Set is refused only by a cache full of live entries, reapers have owners, growth stays within the limit, the cache implements `TTLMap`; expired entries go and Stop returns | two keys, two Sets, TTL 1, limit 1, two callers, two Starts: an overwrite, a stale heap entry and a full cache happen, a Get is overtaken by a Set, and a Stop by a Start |
| `rabbit_single` | a stopped client holds nothing, connections are owned, the channel is the watched connection's, deliveries are dispatched, the loop ends after Stop, a lost connection is replaced | one life, four dials, two faults: a failure at any step, and another during recovery |
| `rabbit_consumer` | no delivery is lost between goroutines, the dispatcher never waits, a message is handled again only after its channel was lost; what is ready is settled, dispatchers and workers of a lost channel end | three messages, a window of one, two channels: a full window, redelivery, and a dispatcher that ranges over its successor's deliveries |
| `rabbit_isconnected` | a disagreement, see below | the shortest life |
| `smsc_send` | answers find their waiter and belong to the attempt, success means every part was submitted, no session is leaked, every call returns | two senders, two parts, two attempts, one fault: a late answer can meet the next attempt and the other sender |
| `tc_life` | nothing stored after Stop, connections owned, a dead connection attended to; Stop returns, all ends, a lost connection is replaced | one life, three connections, one fault at any place, two restarters, dials that fail any number of times; a queue of four never stays full, so that three connections are as many as one fault can need; a restart then fails only in its dial, and that an error seen during a restart is not lost is shown by `Attended` in `Inv` |
| `web_guards` | bans are justified, over-limit counts are punished, bans hold; no span of time lets more requests of an address through than its bucket allows | two addresses, two requests at once, threshold 2, periods of one tick; a burst of two, five requests, and time for a bucket to be forgotten and made again |
| `pg_pool` | one pool open at most, old listeners told to end, a pool unless restarting; restarts end, Stop returns, listeners end | three pools with their listeners, one user, two faults: the user and a listener, which pings and restarts like a user, compete for a restart that a third pool would betray |
| `app_run` | a failed start is undone in reverse, a request to stop is not lost, the context outlives services, the web server serves only between its Start and Stop, telemetry is shut down, Run returns and the web server goes quiet for good; one handle open at most in MS SQL, Oracle and mail, a mail is delivered once at most and nil means taken, calls return | every pair of lists over three services; three handles, two Starters, users and checkers, three mails: an abandoned Send overlaps two later calls |
| `clients` | the HTTP client has the current settings, is built once between resets, gives connections back; LDAP connections are lost track of only by a refused second search, and otherwise forgotten only once they are closed; a keepass entry is what the file holds; every log line is whole and has its own handler's attributes | three callers each; three builds and two resets; four dials; two versions of the file; four handlers, two attributes and two buffers: two handlers derived from one whose array has room |
| `bbolt_store` | no open handle is lost, an operation meets a closed one only if a Stop overlaps it, the store implements `DurableStore`, a key that AddWithSeqID returned without an error is not returned so again, Stop returns | two callers, three operations on one or two keys, two Opens, one crash or failed commit |
| `pure` | each leaf comes from the environment, else the file, else the default; helpers return what they are for | every input of the sizes in the cfg; ints wrap at 7, a byte has three values |

`CHECK_DEADLOCK FALSE` stands in every cfg: behaviours end with a client that was stopped, a call that
has returned, or a bound that is used up. That nobody waits for ever is what the liveness properties say.

### Disagreements between the code and what the repository says of it

`rabbit_isconnected` expects a violation: IsConnected stays true after Stop, and
`mq/rabbitmq/rabbitMQ_test.go:36-38` says it must not (the test never connects). Two more are
stated as invariants in their modules and are not part of a run; each has a counterexample when it is
added to its module's cfg:

* `RabbitMQ!NoWaitWhereConfirmFailed`: `confirms` outlives its channel, so Produce waits for confirms
  on a channel that the log (`rabbitMQ.go:315`) says is published to without them.
* `TcClient!InUseIsAuthenticated`: after a restart the writer may drop the auth request because the
  restart flag is still set (`tcClientWS.go:292`), and the connection stays unauthenticated.

These were found in reading and have no property:

* The 404 that finds an ended watch period is not counted (`suspected.go:54`), so the threshold number
  of 404s in one period need not ban.
* rateLimiter.go:35 takes Seconds for a rate, so that "1,10" is one request a second after a burst of ten
  and not ten a second.
* After a failed restart of the Oracle service GetDB returns the handle whose ping failed, while the
  log (oracleSql.go:141) says nil.
* The comment on Load (config.go:47) says that the file is looked for in the current folder; the code
  looks beside the executable. A file named by the argument that does not exist is passed over silently.

### Properties that hold only under conditions

* `RabbitMQ`: `Inv`, with `ConnectionsOwned`, is checked and proved for one Start. With a Stop and a
  second Start while the old loop dials, two loops overwrite each other's connection and it fails.
  `StoppedHoldsNothing` is checked for one Start and proved for any number of them.
* `TcClient`: `Inv` and `Reconnects` are for one Start. A restart left over from the first life may connect
  beside a second Start, and then one connection is stored over the other, which nobody closes. `NothingAfterStop` and `OneRestarter` are
  proved for any number of Starts.
* `PostgreSQL`: the pool has two connections at least. With one, which the listener holds, the ping of
  a restart waits for ever with the lock held. Start and Stop are called once; a ping that fails
  late may revive a stopped service. The configuration is valid: the error returns of ParseConfig and
  NewWithConfig (postgreSql.go:83-86, 105), which leave no pool, are not modelled.
* `MailSender`: that a mail is delivered at most once rests on go-mail giving ErrNoActiveConnection, a
  failed check of the connection, or a net.Error that is no SendError only before the server took the
  message (mailSender.go:169-182). And Close is taken to return and to close the connection, also
  under a Send that hangs; the code ignores its error (mailSender.go:213-218).
* `LDAPClient`: a refused second search leaks its connection (`dropped`). `ForgetsOnlyDead` is about
  forgetting: a refused first search closes the shared connection under all who use it
  (client.go:185), and they search again on another.
* `HTTPClient`: a gzip body not read to its end keeps its connection.
* `RateLimiter`: `Limit <= Seconds * (IdleTimeout - MaxDelay)`, so that a bucket that is forgotten would
  have been full. With the 300 seconds of the code that is a burst below 300 times the rate. And
  `MaxDelay <= IdleTimeout`: a request comes to Allow within the idle timeout of its look-up, so that no
  sweep forgets the bucket that it has in hand.
* `Keepass`: a file rewritten in place between its decoding and Stat of it is cached under the new
  stamp (`torn`), and versions are taken to differ in time or size.
* `Otello`: a Start that failed is not stopped by the controller, and what it had made remains
  (`TelemetryOwned` excepts exactly this, so it does not cover that hazard).
* `RabbitConsumer`: `Drains` excepts messages whose call panicked and a window full of such; `WorkersEnd`
  excepts a dispatcher that read nil, because Stop came before it first ran: it never ends.

### Known limits of the code

`PROJECT.json` lists the hazards that properties are about, and the five uncovered ones that matter
most. The model also has these, or leaves them out, and the code promises nothing about them:

* A goroutine may find nil where it expects a connection and panic (`panicked`): the reader of the
  chat client (tcClientWS.go:241), a query during the pause of a PostgreSQL restart or its listener
  between two waits (postgreSql.go:282, 305), the second search of the LDAP client (client.go:200), an
  operation of the embedded store before Start or after Stop (etcdBBolt.go:69).
* A call that overlaps Stop or Close may connect again after it: SendMessage of the SMS centre and of
  the mail sender, VerifyUser of the LDAP client.
* A retry may repeat what was done: an SMS whose answer timed out, a publish whose confirm is late.
* Chat client: `stopCtx` is made once, so a second life has no refresh loop and no backoff; and
  wsDisconnect clears `connecting` under a dial that another life began.
* RabbitMQ: a channel closed by the broker is not noticed; a consumer function that panics neither
  acknowledges nor rejects, and as many panics as the prefetch window stop the consumer (`Jammed`).
* TTL cache: overwriting a key adds a heap entry each time, up to its expiry.
* AppController: Stop before Run has made its channel is dropped; a panic of the processing function
  leaves the services running.
* GinWeb: `startOnce` lets a server start once; after Stop it never serves again.
* Config: numbers are set from 64 bits and wrap in a narrower field; a field of a named type other than
  a number is not supported, nor is time.Time.
* BBolt: the id that AddWithSeqID returns beside the error of a failed commit is drawn again by the next
  call, so that nobody may use it (etcdBBolt.go:199).
* SubStr panics when start plus length overflows.

### Fairness

Weak fairness is given to steps of goroutines that the Go scheduler will run: internal steps of loops,
senders, restarters, pumps, reapers, dispatchers and workers, and timers (a timeout, a ticker, a backoff).
None is given to the application's decision to call something. Strong fairness is used in five places:

* `Quit` in `HostedApp` and `RefreshStop` in `TcClient`: a Go select with several ready cases picks at
  random and so cannot neglect one for ever.
* `SendLock` in `SMSCenter`: sync.Mutex hands itself to a waiter that has starved.
* `StopClose` in `BBolt`: Close waits for bolt's locks, which transactions of other callers take again
  and again; they are of the same kind.
* A dial that succeeds in `TcClient`: an assumption on the server, which answers in the end when it is
  dialled again and again, and without which no client could reconnect.

Assumed of the environment, each needed by the properties of that module only: in `RabbitConsumer` the
consumer function returns or panics, the broker delivers what is ready as far as the window goes, and
the library closes the deliveries of a channel that has ended; in `PostgreSQL` callers close their
rows and the application reads `errorCh`; in `GinWeb` requests end, as the server's timeouts see to; in `HostedApp` the
services' Start and Stop return; in `MsSQL` each ping ends because its context has a timeout. In
`MailSender` nothing is assumed of Send, only that the timer fires and that closing the SMTP client returns.

## Proofs

TLAPS proves for all values of the constants that meet the named assumptions. Every proof of an invariant
has the same shape: an inductive invariant (`IInv` or the name below), a lemma that Init implies it, one
lemma or step per action that it is kept, and what follows from it. The inductive invariants were
checked with TLC on the runs' instances before they were proved.

`MemCacheTTLProofs`, from `CacheAssumption`:

* `InvAlways`: `Inv`, from four theorems on its parts, `TypeCorrect` (inductive as it stands, one step
  per action, with `PoppedTypes` for the operations that pop), `HeapTracksItemsAlways`,
  `SeqsIdentifyAlways` and `ReapersOwnedAlways`.
* `HeapTracksItemsAlways`: every item has its own heap element. Inductive together with the types.
  The argument is `PopTracks`: a due element takes its item with it, so an item left in the map still
  has its element; an overwrite adds a new element and may leave an old one, which is harmless.
* `SeqsIdentifyAlways`: elements have distinct numbers, all below `nextSeq`.
* `SkippedOnlyWhenFull` follows from `HeapTracksItems`: after the pop in Set no item left is due.
* `OnlyExpiredVanishAlways`: an action property, which no run checks, as the refinement does; needs the
  types only, since every removal compares the expiry, the second section of Get included.
* `GrowsOnlyWithinLimitAlways`: an action property; `PresentCounts` says that a set of keys with fewer
  of them is smaller, and only Set, which compares the size with the limit, adds one.
* `ReapersOwnedAlways`: reapers, `done`, closed channels and the channels in the hands of Stops fit
  together.
* `CacheImplementsTTLMap`: initial states map to initial states, every step to a step or a stutter of
  `TTLMap`. The mapping hides sequence numbers; the lemmas `PopExpires`, `VisibleWithout`,
  `VisibleDelete` and `SetIsPut` say what pops, deletes and Sets are in abstract terms.

`RabbitMQProofs`, from `RabbitAssumption`:

* `TypeCorrect`: `TypeOK` is not inductive, because a loop stores its locals in the shared fields;
  `TypeInv` adds what the locals are at the places where they are used (`LoopLocals`).
* `StoppedHoldsNothingAlways`: while stopped, and past the section in which Stop takes things out, the
  client holds no connection and no channel, for any number of Starts. A loop stores a
  connection only after reading `stopped` under the lock, and a channel only while its connection is
  still the client's.
* `InvAlways`: `Inv` for one Start (`MaxStarts = 1`) and any number of dials, faults and producers.
  `OneLoop` adds what the fields are at each place of the loop (no connection while it dials, no
  channel before it stores one, the channel it consumes from or none after); `NewEach` adds that a
  channel that is opened is another than those opened before.

`RabbitConsumerProofs`, from `ConsumerAssumption`:

* `InvAlways`: `NoneDropped` and `DispatcherNeverWaits`, for any window, messages and number of
  channels. That the dispatcher never waits is a matter of counting: what is under way of a channel
  (`Flight`) is no more than the window (`Bounded`), which needs that a delivery is in one hand only
  (`Apart`), that hands are empty where the code holds nothing (`Hands`), and that channels come one
  after the other (`Order`).
* `AgainOnlyAfterLossAlways`: from `Fresh`, that a delivery still on its way to a worker has not been
  handled; `Apart` again makes that inductive.

`MCMessengersProofs`, from `SMSAssumed` and `TcAssumption`:

* `SendInvAlways` and `ResultOfOwnAttemptAlways`, for any senders, parts, attempts, sessions and faults. The
  invariants need each other and two more: the sender between its first part and its answer
  holds `sendMu` (`MuHeld`), and the parts submitted in this attempt are those before `next`
  (`Progress`), none of them of a later attempt. So an answer that comes late is of an attempt below the
  present one, and finds another channel than the one that is waited on.
* `StopAndRestartAlways`: for any number of Starts, whatever goroutines of earlier lives are still under
  way, no connection is stored while the client is stopped, and one restart at most is past its
  compare-and-swap. The inductive invariant `EveryLife` has the types, where each actor can be (`Walks`),
  and that a connection just dialled is new to everyone and in one hand (`Dialled`); the types
  need the last, since a connection that its dialler closes must not be an authenticated one. It
  was checked with TLC for two Starts and three dials.
* `ChatInvAlways`: `Inv` of `TcClient` for one life (`OneLife`: the constants of `TcAssumption` and
  `MaxStarts = 1`), any number of dials, restarter slots, messages and faults. The inductive invariant
  `ChatInv` adds to `EveryLife` that before Start has spawned the pumps there is no one else (`Alone`,
  `FirstConnect`), and that a restarter finds nothing stored until it stores its own connection
  (`RestartersOwn`). There is one lemma per conjunct (`KeepsAttended` and so on) with one step per
  group of actions, and `ChatQuiet` for the steps that touch none of them. `Attended` rests on
  `SpawnStep`: who finds a connection lost starts a restart or finds one under way, or the client stopped.

`MCStoresProofs`, from `BoltAssumption` and `PoolAssumed`:

* `InvAlways`: an open handle is in `bb.db` or about to be stored there (`HandleOwned`), and a closed one
  is met only by operations that a Stop overlaps (`ClosedOnlyByStop`). Besides these it needs that a call
  has taken its handle (`HandleTaken`), that nothing is open after Close and that who is called while a
  Stop is under way has met it (`StopUnderWay`), and, for the type of the counter, that each number of
  the sequence was asked for by a call of its own (`SeqWithinCalls`).
* `IdsNeverReusedAlways`: what was given out is at most the bucket's sequence (`IssuedBehind`), which is
  committed with the record, so that a crash takes back both or none.
* `BBoltImplementsDurableStore`: Start, Stop and the beginning of a transaction are stutters; a commit is
  the abstract step (`WrittenIsChanged`), a failed one the abstract failure, a crash the abstract one.
  `PhaseMoves` and `ToldMoves` say how a step of one caller maps; what comes beside an error is not
  part of the answer (`Told`).
* `PoolInvAlways`: `Inv` of `PostgreSQL`, for any number of users, restarts and pools. `PoolIInv` adds who holds `mu` across a wait (`MuHeld`); that one restart at most is
  between its stop and its start, with no pool then and no other start (`OneRestart`); that the cancel
  function is the current pool's, so that a replaced pool's listener was told to end (`Cancels`); and
  that nothing happens before Start (`Begun`).

`MCGuardsProofs`, from the assumptions of the two middlewares:

* `GuardsInvAlways`, `OverLimitIsPunishedAlways`: the inductive part is `Counted`: the count of a
  suspect is made up of 404s since its watch period began. The steps are about the cardinality of the
  hits since an instant (`OneMoreHit`, `EarlierHasMore`). For the rate limiter, `RateInv`: a
  request that has its bucket in hand was seen within `MaxDelay`, so the sweep leaves that bucket.
* `AdmittedBoundAlways`: what an address got through since any second, and what it could have through at
  once, are together no more than the burst and the tokens of the time since (`Covered`). What it could have
  is its bucket's tokens, or a full burst if it has no bucket (`Level`). So the bound survives a sweep just
  if a bucket that is forgotten would be full by now (`LookupCovered`); that is where the condition on
  `Limit` is used, and where it matters that a bucket was last asked `MaxDelay` after its last look-up at
  the latest. Allow pays for what it lets through (`AllowCovered`), a second brings no more tokens than the
  bound grows by (`TickCovered`), and the bound for spans in the past stays as it was (`PastBound`).
* `BanHoldsAlways`: an action property, from `Counted`'s bound on how far a ban reaches: a ban that is
  set later ends later (`BansLeft` for the sweeps).

`MCAppProofs`, from `ServicesAssumption`, `HostedAssumption` and `AppAssumption`:

* `HandlesInvAlways`: `MsInv`, `OracleInv` and `MailInv` add who is where when a handle is open and not
  yet kept, or kept and not yet answered: one Start pings at a time, a handle in `ms.db` has answered
  once the lock is free, a mail is in one flight only.
* `HostInvAlways`: `RunInv` says how far Run has come: started is a prefix of the list, and while it
  undoes, the running services are the first k of it (`First`) and the log is the reverse of the rest.
  That makes the log of a failed start the reverse of what was started. `WebInv` ties the web
  server's goroutine to `running`; `OtelInv` has telemetry's one connection, and that no provider is made
  that Stop would pass over (`MadeProviders`).

`MCClientsProofs`, from `ClientsAssumption` and `HTTPAssumption`:

* `ClientsInvAlways`, `ForgetsOnlyDeadAlways`, `LinesWholeAlways`: four independent inductive invariants.
  `HttpInv`: clients are numbered as they are built (`Numbered`), and while there is none all built are
  older than the last reset (`Older`). `LdapInv`: a connection just dialled is nobody else's (`Fresh`),
  the one that failed is not the shared one again (`Gone`), an open one is shared, dropped or in the hands of its dialler
  (`Owned`). `KeepassInv`: what was decoded is what the file held, up to a rewrite that is noted.
  `LogInv`: a handler's array holds just its own lineage (`Derived`), and a buffer that has an owner
  holds what that owner has written so far (`Written`).

Only model-checked:

* Liveness, all of it: `ReaperServes`, `StopQuiesces` and `Reconnects` (RabbitMQ and the chat client),
  `Drains`, `WorkersEnd`, `SendReturns`, `RestartCompletes`, `StopCompletes`, `RunReturns`,
  `WebGoesQuiet`, `CallsReturn`, `StopReturns`. Fairness and ENABLED are out of the prover's reach.
* `LoadedByPrecedence` and `HelpersMeanIt`: recursive definitions, whose result for every input takes an
  induction over data.

## Not modelled

* `smsc/CustomStore.go`: not used (`smsc.go:123` has it commented out).
* `cache/memcache`: every operation is one critical section and nothing spans two.
* NTLM, basic authentication and request-log middleware: the headers of one request, around a library.
* fasthttp client: one request through a library, without state.
* Ciphers, random strings, uuid, codecs and conversions by the standard library: arithmetic beyond a
  model checker, or no logic of their own.
* LDAP: dates, account flags, group types and getGroups are tables, formats and queries of one call.
* Telemetry: recording of spans and metrics only calls the library.
* Log lines: their text, the goroutine id and the cache of function names.
* The arithmetic of backoffs; the header map of the HTTP client, copied under its lock.

## Plan

The plan is carried out: the components it names are modelled, every invariant of a passing run has a theorem
except the two about recursive functions, and so has every action property and refinement. What could be
added:

1. Several Starts of `RabbitMQ`, `TcClient` and `PostgreSQL` under properties that the code does keep
   there; `StoppedHoldsNothingAlways` and `StopAndRestartAlways` are the ones known so far.
2. The action properties that the liveness properties rest on, stated apart from fairness.
