# Formal models of dubai-deals-be

TLA+ models of the backend, the TLC instances that check them, and theorems about
them proved with TLAPS.  Sources are cited relative to `src/`.

## The system

`api-gateway` (Echo, HTTP) turns most requests into an event on RabbitMQ and waits for
the reply event.  `user-service` consumes those events, works on MongoDB and an avatar
directory and publishes the replies.  Both use the `messaging` package.
`payment-gateway-service` is a skeleton.

| component | state | operations | talks to | what makes it correct |
|---|---|---|---|---|
| messaging library (`messaging/`) | `RabbitMQConnection`: `conn`, `channel`, `mu`; per call a reply queue, a consumer goroutine, `msgChannel`, a timer | `connect`, `GetConnection`, `GetChannel`, `PublishEvent`, `WaitForEvent`, `ConsumeEvent`, `Close` | broker; shared by all goroutines of a process | no event lost, waiters hear, every call returns, mutex discipline |
| gateway handlers (`api-gateway/handler`) | none | `Register`, `Login`, `GetProfile`, `UpdateProfile`, `Logout`, `CreateAdmin`, `UpdateAdmin`, `GetAllAdmins` | publish an event, then `HandleEventResponse` | a request ends once, with a reply of its operation |
| gateway responses (`webResponse`) | none | `HandleEventResponse`: wait, token of a login and its storage, answer | `WaitForEvent`, Redis | failures are not reported as success; a token is stored before it is handed out |
| gateway process (`api-gateway/cmd/app`) | the Echo server, `RMQ`, the Redis client | `Initialize`, `Run`, `handleShutdown` | all of the gateway | it comes back after a failed start; it stops without cutting requests off |
| sessions (`utils/jwt.go`, `middleware`, `config/redis.go`) | signed tokens; a record per token in Redis | `GenerateToken`, `StoreTokenInRedis`, `IsBlacklistedToken`, `JWTMiddleware`, `RoleMiddleware` | gateway handlers, Redis | token and record agree; no answer of Redis, and no missing one, ends a session early |
| rate limiter (`config/rateLimit.go`) | counters of a limiter that lives for one call | `Allow`, `CheckRateLimit` | every handler | (never in force, see below) |
| event consumer (`user-service/cmd/app`) | the durable queue `user-service_queue` | take, dispatch, acknowledge | handlers | at least once, in order; no readable event without a reply |
| service handlers (`core/service`) | local variables | eight handlers | `UserRepo`, avatar files, `SendingToMessage` | replies tell the truth, data stay consistent |
| repository | collections `users`, `roles`, `userActivityLog` and their unique indexes | find, save, update | MongoDB | roles resolve, one account per address |
| user-service process, migrations, seeders (`cmd/app`, `database`) | the same collections; `AUTO_MIGRATE`, `AUTO_DROP` | rollback, migrate, seed, connect, run, stop | MongoDB, docker-compose | no half-seeded database goes into service; the service starts again and stops when told |
| avatar files (`utils/uploadImage.go`) | a directory | upload, delete | handlers | every named file exists |

Interactions: HTTP goroutines share one channel pointer (shared state); gateway and
service exchange messages through a topic exchange (the service's queue is durable and
shared over restarts, reply queues are exclusive, auto-delete and private to a request);
service and database exchange calls, under a 5 s context but for the two role lookups, which
have no limit of their own.

What is hard here: goroutines that close each other's channel; a reply published before
its queue exists; an event that is acknowledged without a reply because its handler cannot
read it; crash and redelivery between handling and acknowledging; broker outages
under a mutex that is not reentrant; writes that fail, or succeed and report a failure;
several writes, a file and a reply per handler without a transaction; a boot that
migrates and seeds call by call and is repeated on what it left; a token that is generated,
stored and handed out in three steps, and an answer of Redis that is used later than it was
given.  `PROJECT.json` lists each hazard with its line and the properties on guard there.

## Modules

| module | models | builds on |
|---|---|---|
| `EventNames` | the event vocabulary, as the two sides spell it | |
| `RpcContract` | abstract: what a request may expect of the round trip | `EventNames` |
| `EventConsumer` | abstract: what the loop around the handlers promises of each event | |
| `EventConsumerProofs` | what follows from that promise | `EventConsumer` |
| `RequestReply` | concurrent requests, the shared channel, reply queues, broker routing, the service's queue and consumer | `EventNames`; implements `RpcContract` and `EventConsumer` |
| `RequestReplyProofs` | theorems about `RequestReply` | `RequestReply`, `EventConsumerProofs` |
| `OrphanProofs` | the bound on channels left open | `RequestReplyProofs` |
| `RabbitConn` | one process's connection across outages: boot, `connect`, the mutex, `PublishEvent`, the consumer's end, exit and restart | |
| `RabbitConnProofs` | theorems about `RabbitConn` | `RabbitConn` |
| `AccountStore` | abstract: what the service promises of the accounts | |
| `UserAccounts` | the eight service handlers over database, avatar directory and queue | implements `AccountStore` and `EventConsumer` |
| `UserAccountsProofs` | theorems about `UserAccounts` | `UserAccounts`, `EventConsumerProofs` |
| `ServiceLifecycle` | the user service from start to end: rollback, migration, seeding, broker, signals, restart | |
| `ServiceLifecycleProofs` | theorems about `ServiceLifecycle` | `ServiceLifecycle` |
| `Session` | logins, tokens, their records in Redis, and the requests that present them | |
| `SessionProofs` | theorems about `Session` | `Session` |
| `MC*` | the instances TLC checks | the module after `MC` |

`RequestReply` looks at the messages, with the connection up; `RabbitConn` at the
connection, with the messages left out; `UserAccounts` at the data, with the broker
reduced to a queue that redelivers; `ServiceLifecycle` at what the data are before any
handler runs; `Session` at what the gateway does with a reply.  A line of the code that
matters to two of them is in both (`ConsumeEvent`'s loop, for example).

They meet in what one assumes and another shows.  `RequestReply` assumes that a handler ends
with one of its replies, once per handling and before the acknowledgement, unless it cannot
read the event, and then with none: `EventConsumer` says that in a module of its own,
`RequestReply` refines it with a service of one step per handling, and `UserAccounts` with
the handlers themselves.  `UserAccounts` starts on a seeded database or on one that was
never migrated: `MigratedServiceIsComplete` says that there is nothing in between when
`AUTO_MIGRATE` is set.  `Session` takes any login reply for any login: `RpcContract`
promises no more.

### RequestReply and EventNames

A request is a gateway goroutine named by its correlation ID; `pc` walks through
`PublishEvent` and `WaitForEvent` and stops between any two broker calls:

| label | code |
|---|---|
| `start`, `reopen`, `leave` | `GetConnection` under the mutex: the test of the shared channel, its replacement, the return of what the pointer holds then |
| `publish` | `PublishEvent` on the channel obtained |
| `getChannel`, `open`, `return` | `GetChannel`: the same three without the mutex |
| `declare`, `bind`, `consume` | `QueueDeclare`, two `QueueBind`s, `Consume` |
| `wait` | the `select` between `msgChannel` (`inbox`) and the timer |
| `answered`, `timeout`, `error` | returned; `HandleEventResponse` turns every error of `WaitForEvent` into a timeout |

Channels are numbered in the order of their storing; `channel` is the shared pointer and
`ch[r]` what the goroutine holds.  The pointer is read again when a channel is returned
(`LeaveConnection`, `ReturnChannel`), so a goroutine may return a channel that another has
stored over its own.  `CloseChannel` is the deferred `ch.Close()`: every reply queue
consumed on that channel is deleted with its only consumer, whoever's it is.  `replies[r]`
is the reply queue and what the client has buffered of it.  The service is one goroutine
(`svc`); its unacknowledged event stays at the head of `workQueue`, and `Crash` puts the
service down at any point.  `unreadable` are the requests whose payload does not fit the
handler's struct: their event is acknowledged without a reply (`Ignore`).  A client gets
there with an age near the end of `int`, which passes the validation, travels as a generic
JSON number and comes out of the float beyond `int`.  `accepted` and `published` are history
variables.

Assumed: the broker and the connection stay up (outages are `RabbitConn`'s subject), the
gateway does not crash, and a handler that can read its event ends with exactly one of its
replies (`UserAccounts` shows that it does, see `EventConsumer`).  The timer may fire any
time while waiting. `CreateAdmin` and `UpdateAdmin` are outside `ReachableOperations`: they
read the context key `role`, which no middleware sets, and answer 401 before publishing.
Their event names are in the tables and do not match between the two sides
(`AdminRegisteredSuccess` is awaited, `AdminCreateSuccess` is published), so they could only
time out.

### RpcContract

The abstract specification: a request is accepted or not, served at least once if
accepted, and ends once with an answer, a timeout or an error.  An answer is a published
reply to *some* accepted request of the same operation; it cannot promise more, since
nothing compares correlation IDs.  `RequestReply` implements it under
`outcome <- Outcome` (`pc` with everything before the end called `pending`).

### EventConsumer

The other abstract specification of the service, without accounts: events `sent`, a durable
`queue`, the consumer's `state` and the `answers` each event has got.  A handling takes the
head of the queue, answers it once, or not at all if the event is `unreadable`, and
acknowledges it then; a crash puts the consumer down and the event is handled again.
`RequestReply` implements it under `answers <- Reported` (which replies of `r` are among the
published ones), `UserAccounts` under `state <- State` (every step of a handler is
`handling`) and `answers <- replied`.  `AtLeastOnce` (of readable events), `OnlySent` and
`InOrder` follow from it.  It says nothing of *which* answer: that is `AccountStore`'s part.

### RabbitConn

`mu` is the mutex, `pc[Main]` the process and `pc[p]` a goroutine:

| label | code |
|---|---|
| `redis`, `connect`, `dial`, `channel`, `exchange`, `serving` | `Initialize`: `InitRedis` (gateway), `connect`, the declaration of the exchange, `Run` |
| `draining`, `close`, `exit`, `killed` | `handleShutdown`: in `Server.Shutdown`, before `RMQ.Close`, gone; gone by the `Fatalf` of the goroutine in `Run` |
| `lock`, `check`, `connect`, `reopen` | `GetConnection` under the mutex |
| `declare`, `publish` | `PublishEvent` |
| `await`, `wait` | `WaitForEvent`, setting up and waiting; it touches the channel without the mutex |

Boot and callers share the actions of `connect`, as the code does: `GetConnection` calls it
at label `check` with `mu = {p}`, and `LockInConnect` needs `mu = {}`.  `process` says whose
connection it is: any number of gateway goroutines call `PublishEvent`, but only one of the
service, from its consumer.

`Outage` makes an open connection `"dead"`: broken, and not noticed.  Until `Notice` (a read
error, a missed heartbeat) `IsClosed()` is false, calls that wait for the broker's answer
hang, and `Publish`, which does not wait, returns nil.  A nil from `Publish` promises little
on an open connection either: there are no confirms and the messages are transient, so the
event is `flying` until the other process has handled it, and an outage may take it.  `cut`
records the calls an outage began in, from the answer to `ExchangeDeclare` to the handling of
the event; `lost` those whose event an outage took behind a nil.  `ChannelGone`: a channel that
a call has obtained may be closed any time in the gateway, by the `WaitForEvent` of another
request.

`Restart` is `restart: always` of the two containers; a gateway that was told to stop is
started again too, by docker or by whoever stopped it.

### UserAccounts

One event at a time: `step` says which write, file operation or reply comes next, `job`
holds the handler's local document and old avatar.  Nobody else uses the database once the
service is up, so the reads of a handler are part of the step of the write that follows.
Each write is one of the outcomes of `Write`: done; rejected by a unique index; failed
(`"write"`); done but reported as failed (`"ambiguous"`, the context ended first). A lookup
may fail (`"read"`).  `disturbed` records which request met which trouble. `migrated` says
whether the service ever ran with `AUTO_MIGRATE`: then it starts with the seeded roles and
users and the unique indexes, otherwise with nothing.  `Crash` comes anywhere and leaves
database and directory as they are; the event at the head of `queue` is handled again from
the start.

Abstractions: a document has an ObjectID, an address, a role ID and an avatar; passwords
are a nondeterministic choice; phone, name and login time are left out.  ObjectIDs and
file names come from one counter `fresh`.  Avatars of seeded users are external links and
count as 0, "no file".  Details the model keeps because properties depend on them:

* `HandleUserRegistered` takes a failed `FindUserByEmail` for "not found", saves a missing
  role without looking at the error and goes on with the nil ID of the failed lookup;
  the ObjectID the driver makes up for the user is unknown to the handler, so its activity
  log entry has the nil user ID.
* The migration's unique index on the activity log is on `userID`; documents have
  `user_id`.  Every document has the same (missing) key, so only one is ever accepted.
* The gateway sends `avatar_base64`, the service's `UpdateProfileEvent` reads `avatar`:
  the upload of a profile update is dropped.  The admin events carry the field the service
  reads, and upload before they save.
* Admin events are modelled at the service's queue although the gateway's handlers answer
  401 today: the service handles them.

`Payloads` are the events a client can cause.  A user ID comes from a token and belongs to a
user who could log in, but for `UpdateAdmin`, whose ID is a form value: any user's, or
nobody's.  Only the event types that carry an address or upload have one, and only those with
an age may be unreadable: `Ignore` acknowledges them without a reply.  `Hash` may fail, on
passwords that are too long for bcrypt, also after a role was saved.

### AccountStore

The abstract specification of the service: a set of accounts `[id, email, role]`, what
each request asks for, what it has made and how it was answered.  An account never
disappears and keeps ID and role; only a request for an account makes one, under a free
address; an account moves only to a free address; every request is answered, and the
answer to a request for an account tells whether there is one, unless the request is
`doubted` (it met a crash or a write of unknown outcome).  `excused` lifts the rule about
addresses: a lookup failed and no index backs it up.  `UserAccounts` implements it under
`Store` (`accounts` are the user documents without avatar, `asked` comes from the event's
type, `made <- created`, `answers <- replied`).

### ServiceLifecycle

`pc` walks through `InitMongoDB` (`rollback`, `migrate`, `seedRoles`, `seedUsers`), the broker
(`connect`) and `Run` (`run`); `down` is a process that is not there and will be started
again.  Each database call is a step, and each can fail, which ends the process
(`logrus.Fatal`); an `InsertMany` that fails may have inserted a part: a prefix of the roles
(it is ordered), any of the users (it is not).  `env` holds `AUTO_MIGRATE` and `AUTO_DROP`,
and `Redeploy` changes them.  A name in `roles` is a document, `users` is the set of roles
that users refer to, `logs` counts entries of the activity log up to two, which is where
its unique index stops being possible (it is on a field no document has).  `Register` is
what handled events do to a database nobody seeded.

`Notify` is the registration of `Run` (SIGINT) and of `RunConsumer` (SIGINT and SIGTERM), in
their two goroutines; a signal that nobody has registered for kills the process; `Exit`
needs both to have heard one (`wg.Wait`).  `asked` records the signals that came when both
had registered.

Left out: that seeded addresses may clash by chance (a failed call covers its effect), the
`LoadEnv` that precedes everything, and what is in the documents.

### Session

A request logs in (`reply`, `store`, `respond`) or presents a token: it asks Redis for the
token's key on the blacklist (`lookup`), gets an answer (`found`, `missing` or, after three
seconds, `error`) and is decided on with that answer and the clock of then.  It ends with
`accepted`, `unauthorized`, `forbidden`, `unclaimed` (the 401 of a handler that looks for
the claims under a key nobody sets) or `failed`.  A token is a user and the second it was
issued in: two logins in one second get the same token.  `expires` are the records in Redis
with their time to live.  `StoreTokenInRedis` may fail with or without effect (`Store`); the
request's context ends with its client.  `RedisReturns` loses any records, as a snapshot
does; `Crash` ends all requests of the gateway; `Tick` moves the clock of the gateway and of
Redis.  `held` are the tokens that have reached a client, `stray` those that may be stored
behind an answer that does not tell.

`Get` is what Redis may answer: an error when it is down and, by the three seconds, also when
it is up; otherwise what is on `blacklist`.  `IsBlacklisted` maps the answer as the code does,
an error to "no".  `BlacklistToken` has no caller, so nothing is ever on the blacklist: it
is a variable of Redis without a writer, and that no lookup finds anything is proved
(`NeverFound`), not assumed.  `Logout` touches neither the token nor its record, so the model
has no action for it.

## Runs

`pass` runs check properties, `violation` runs exhibit one finding each.

| run | instance | shows |
|---|---|---|
| `rr_roundtrip` | 2 requests, 3 operations, 1 crash | `AnswerSameOperation`: no reply crosses operations; `NoEventLost`: crash and redelivery lose nothing, and only an unreadable event leaves the queue unanswered; `EveryRequestEnds`, `AcceptedIsHandled`; `ContractSpec`: the refinement of `RpcContract` with its liveness; `ConsumerSpec`: the service it talks to is an `EventConsumer` |
| `rr_channel` | 3 requests of one operation | `DeafOnlyByPeer`: a waiter on an open channel is bound and consuming; a closed one was closed by a peer that returned. `QueueOutlivesOnlyFailedSetup`: only a setup cut off by a peer leaves a reply queue behind. `OrphansNeedThree`: N requests leave at most N - 2 channels open with nobody to close them |
| `rr_correlation` | 2 logins | violates `AnswerIsOwn` |
| `rc_connection` | gateway or service, 2 callers, 3 outages, 1 signal | `CriticalSections`; `OnlyLossBlocks`: a caller waits for itself only if the connection is lost; `LostOnlySinceDeclare`: an outage takes an event behind a success only if it began after the answer to the `ExchangeDeclare` of that call and before the event was handled; `CloseAfterDrain`; `BlockedForGood`: a caller that waits for itself blocks everybody until the restart; `CallsReturn`; `EventuallyServes` |
| `rc_self_deadlock` | 2 callers, 1 outage | violates `NobodyWaitsForItself` |
| `rc_listens` | 1 outage | violates `ListensAgain` |
| `rc_graceful` | 1 caller, 1 signal, no outage | violates `GracefulShutdown` |
| `ua_accounts` | 2 registrations, admin creations or updates; 2 addresses; with and without indexes; 2 database errors of any kind; 2 crashes | `RolesResolve`, `AvatarExists`, `NoLeftoverFiles`, `SuccessIsDurable`, `FailureIsTruthful`, `OneAccountPerEmail`; `DeliveredInOrder`: no early return, error or crash forgets a readable event or answers one before its turn, whatever unreadable ones are between |
| `ua_live` | 2 events of any type, with and without indexes, 1 error, 1 crash | `EveryEventIsAnswered`: every event that can be read; `LogoutFailsByIndexOnly`: an undisturbed logout fails by finding 5 and nothing else; `StoreSpec`, `ConsumerSpec`: the refinements of `AccountStore` and `EventConsumer` with their liveness |
| `ua_logout` | 2 events, no faults | violates `LogoutSucceeds` |
| `sl_lifecycle` | any settings, 4 crashes, failed calls, signals or changes of the settings | `RolesOutliveUsers`: no user without its role, wherever a boot is cut off; `MigratedServiceIsComplete`: half a seeding never goes into service; `FailsOnlyOnOldData`: which starts never succeed; `InterruptStops` |
| `se_session` | 2 requests, 1 user, tokens valid for 1 tick of 2 | `RecordOutlivesToken`, `RecordsAreHeld`: tokens and records agree; `RefusedOnlyWhenExpired`: no answer of Redis, no missing one and no restart ends a session; `RequestsEnd`: nothing waits for Redis for good |

Bounds.  Two requests show every pairwise interference (a reply taken by the wrong one, a
channel closed under the other); the third in `rr_channel` closes the channel that two
others then both see closed and replace under each other, which is what it takes to orphan
one.  In `rc_connection` two callers contend for the mutex while one of them is stuck, and
three outages let a process fail at boot, serve, and lose its connection again, with events
of both callers under way.  In `ua_accounts` two crashes let an event be cut off,
redelivered and cut off again; two errors let a failed write be followed by a failed
clean-up.  Four troubles in `sl_lifecycle` let a seeding be cut off, the settings change,
the next start fail and the one after it be stopped by a signal.  In `se_session` two
requests are two logins of one user in one second, or a login and a request with its token;
the clock gets past the expiry of a token, between any two steps of a request, and past that
of its successor.  Requests, and addresses, are interchangeable, so `SYMMETRY` is used in
runs that only check invariants.

`OrphansNeedThree` is checked for three requests, where the bound is one channel; that it is
N - 2 for N requests is a theorem.

`CHECK_DEADLOCK FALSE` is in the `rc_` runs only: a goroutine that waits for a mutex it
holds stops there, and so does everyone behind it.  `RequestReply` and `UserAccounts` have a
`Quiescent` step for "nothing left to do", `ServiceLifecycle` and `Session` never run out of
steps, and all are checked for deadlock.

## Fairness

* `RequestReply`: weak fairness of each goroutine and of the service.  Goroutines are
  scheduled, the timer of `WaitForEvent` fires, and a dead service is started again.
* `RabbitConn`: strong fairness of `connect`, `PublishEvent` and `WaitForEvent` steps,
  because a goroutine may find the mutex taken again and again before it gets it; Go's
  mutex hands itself to a waiter that has starved for a millisecond.  The container is
  restarted (`docker-compose.yml`, `restart: always`), and heartbeats are missed
  (`Notice`).  The broker's own container has no restart policy: that it returns is an
  assumption about its operator, and `EventuallyServes` and the violation of `ListensAgain`
  are relative to it.  Outages and signals are finite in number.  Nobody is obliged to call.
* `UserAccounts`: weak fairness of the consumer, which includes the restart.
* `ServiceLifecycle`: weak fairness of the process's own steps, the start by docker-compose
  among them.  Signals, registrations, crashes and redeployments are not fair.
* `Session`: weak fairness of each goroutine: the timers of the wait, of the lookup and of
  the store fire.  Redis need not come back and the clock need not move.

## Proofs

For every value of the constants:

| module | theorem | states |
|---|---|---|
| `RequestReplyProofs` | `TypeCorrect` | `Spec => []TypeOK` |
| | `AnswersAreOfTheOperation` | `Spec => []AnswerSameOperation` |
| | `EventsAreNotLost` | `Spec => []NoEventLost` |
| | `DeafnessComesFromPeers` | `Spec => []DeafOnlyByPeer` |
| | `LeftoverQueues` | `Spec => []QueueOutlivesOnlyFailedSetup` |
| | `ImplementsContract` | `RequestReply` implements the safety part of `RpcContract` |
| | `ImplementsConsumer` | `RequestReply` implements `EventConsumer!Safety` |
| | `RepliesComeInOrder` | `Spec => []` of `AtLeastOnce` and `InOrder` of its consumer |
| `OrphanProofs` | `ChannelsLeftOpen` | `Spec => []OrphansNeedThree` |
| `EventConsumerProofs` | `DeliveryHolds` | `Safety => [](AtLeastOnce /\ OnlySent /\ InOrder)` |
| `RabbitConnProofs` | `ConnectionTypes` | `Spec => []TypeOK` |
| | `MutualExclusion` | `Spec => []CriticalSections` |
| | `BlockedByLoss` | `Spec => []OnlyLossBlocks` |
| | `EarlierOutagesAreNoticed` | `Spec => []LostOnlySinceDeclare` |
| | `ConnectionClosedLast` | `Spec => []CloseAfterDrain` |
| | `LossIsForGood` | `Spec => BlockedForGood` |
| `UserAccountsProofs` | `AccountTypes` | `Spec => []TypeOK` |
| | `RolesHold` | `Spec => []RolesResolve` |
| | `AvatarsHold` | `Spec => []AvatarExists` |
| | `FilesHold` | `Spec => []NoLeftoverFiles` |
| | `SuccessHolds` | `Spec => []SuccessIsDurable` |
| | `FailureHolds` | `Spec => []FailureIsTruthful` |
| | `EmailsHold` | `Spec => []OneAccountPerEmail` |
| | `LogoutsHold` | `Spec => []LogoutFailsByIndexOnly` |
| | `StoreHolds` | `UserAccounts` implements `AccountStore!Safety` |
| | `HandlersImplementConsumer` | `UserAccounts` implements `EventConsumer!Safety` |
| | `DeliveryIsInOrder` | `Spec => []DeliveredInOrder` |
| `ServiceLifecycleProofs` | `LifecycleTypes` | `Spec => []TypeOK` |
| | `RolesAreThere` | `Spec => []RolesOutliveUsers` |
| | `NoHalfSeedingServes` | `Spec => []MigratedServiceIsComplete` |
| `SessionProofs` | `SessionTypes` | `Spec => []TypeOK` |
| | `RecordsLast` | `Spec => []RecordOutlivesToken` |
| | `NoRecordOfFailedLogins` | `Spec => []RecordsAreHeld` |
| | `SessionsLast` | `Spec => RefusedOnlyWhenExpired` |

`RequestReplyProofs`.  The invariants are proved in layers.  `TypeInv` adds to `TypeOK` that
the queue is not empty while the service handles (or `Head` would be anything).  `OriginInv`
says of every delivery, buffered message and answer that an accepted request of the
operation it was bound for caused it; it rests on `AwaitedReply`, a lemma on the vocabulary:
a reply goes out under an awaited name only for the operation that awaits it.  `LossInv`
adds that a replied event at the head has been published, which `Ack` needs.  `ChannelInv`
relates labels, bindings, consumers and channels of one request, and who has closed a
channel.  `SingleMessage` (at most one buffered message) serves the refinement of
`RpcContract`. The one of `EventConsumer` needs that a request publishes once
(`PublishesOnce`), and that a published reply tells which event it answers and how
(`RepliesDiffer`): also `HandleGetProfile`'s failure, with its type and correlation ID
swapped, can be told from every other reply.

`OrphanProofs`.  The bound is a count, and the proof counts by an injection: `Charged(f, z)`
says that `f` charges every orphan to a request of its own that has been through
`GetChannel`, without the channel of the boot (`Settled`).  Two requests are never charged:
one that waited on the boot's channel (`FirstChannel`: nothing is opened before such a
request has closed it), and `z`, which is held in reserve.  An orphan comes about when a
channel is stored over an open one; if `GetChannel` stored
it, it is charged to the request that did; if `GetConnection` did, to `z`, whose place that
request takes.  The last two conjuncts of
`Charged` are what makes that always possible: `z` is not itself about to store over an open
channel, and when `GetConnection` is about to, somebody has replaced the channel it found
closed, so that `z` can be charged.  Whoever replaces a closed channel orphans nothing and
may become the reserve.  `Mutex` says that `GetConnection` has one such request at a time.

`EventConsumerProofs`.  `InOrder` is inductive because an event waits once (`Distinct`) and one
that was not sent has no answer (`OnlySent`).  The two modules that implement
`EventConsumer` take the consequences from here by instantiation, and so `RequestReply` and
`UserAccounts` are tied together: what the first takes for granted of its service, the
second's handlers do, on every path of a handler that can read its event (`HandlingIsSilent`:
nothing inside a handler, failed or not, leaves `handling` but through an answer or a crash;
an unreadable event leaves it through `Ignore`).

`RabbitConnProofs`.  The properties are inductive together with `Places` (a caller never
gets past the lock in `connect`, since it holds the mutex), `AttemptsLeft`, the fact that
`conn` is not nil after the first dial, that whoever holds the mutex is in a critical
section or blocked (which makes the mutex free when all have returned), and that a caller
which publishes on a dead connection saw it break (which makes a lost event a cut one; those
that were flying are cut by the outage itself).
`LossIsForGood` is a step property under the same invariant: while one caller waits for itself
nobody is in a critical section, so nobody gets to a dial.  With `BlockedByLoss` it says what
finding 2 costs: from the first loss that a caller notices, until the process ends.

`UserAccountsProofs`.  Layers, each inductive over those before it.

| layer | what it adds |
|---|---|
| `TypeInv` | which handlers get to which step; requests wait once |
| `PersonInv` | ObjectIDs are unique; a migrated database keeps the seeded roles and an unmigrated one has no admins; a handler that updates a document has the ID, role and avatar of the one in the database |
| `RoleInv` | a handler is about to write a role that has a document, or NilObjectID after a lookup that found none |
| `AvatarInv` | avatars are not shared; what is about to be written is on disk and nobody else's; what is about to be deleted is nobody's |
| `FileInv` | while nothing has gone wrong, each file is in a document or in the handler's hands |
| `EmailInv` | a registration that goes on without an index has found the address free, and nobody else writes |
| `AnswerInv` | an event no crash and no write of unknown outcome has touched is answered once, at the end, and creates its account in the last step that can fail |
| `LogoutInv` | a logout about to report a failure met an error, or the index on a log that is not empty |

The layers matter: `AvatarExists` alone is not inductive, since a deletion is harmless only
because the document was replaced before (`AvatarInv`), and that the replaced document was
the right one is `PersonInv`.  The refinement uses all of them: a write of the database is a
`Create` or a `Move`, a reply an `Answer`, an error or a crash a `Disturb`, and everything
else stutters.

`ServiceLifecycleProofs`.  `Stages` says what each stage of the boot has behind it: the users
are gone when the rollback reaches the roles, an index is built when its migration is past,
and `RoleSeeder` leaves all three roles or ends the process.

`SessionProofs`.  `Stored` speaks of expirations instead of the clock, and also of the token
a request has stored and not yet handed out: its record expires no earlier than the token
(no token is dated in the future, so a time to live that begins later ends later), or is lost.
`NeverFound` speaks of lookups that were made earlier: a refusal uses an answer of Redis that
may be older than anything Redis says now.

The assumptions are those named in the modules: requests are finitely many and their
correlation IDs are no event names, operations are reachable ones, event types and kinds of
error are among the listed ones, the main goroutine is no caller, a token lives for at least
a tick, bounds are numbers.

Only model-checked: all liveness (`EveryRequestEnds`, `AcceptedIsHandled`, `CallsReturn`,
`EventuallyServes`, `EveryEventIsAnswered`, `FailsOnlyOnOldData`, `InterruptStops`,
`RequestsEnd`) and the liveness halves of the refinements (`ContractSpec`, `ConsumerSpec`,
`StoreSpec`), which need fairness and `ENABLED` and are beyond the prover.  Every invariant
and every action property of a run that passes is a theorem.  The five properties that fail are
findings and need no proof; what holds in their place is proved where there is such a thing:
`AnswerSameOperation` for `AnswerIsOwn`, `OnlyLossBlocks` and `BlockedForGood` for
`NobodyWaitsForItself`, `LogoutFailsByIndexOnly` for `LogoutSucceeds`.

## Findings

1. `WaitForEvent` compares event types and never correlation IDs: concurrent requests of
   one operation receive each other's replies (`rr_correlation`).
2. `GetConnection` calls `connect` with the mutex held: after a lost connection the process
   never publishes again (`rc_self_deadlock`).
3. After a lost connection nothing consumes the service's queue again, and the process
   stays up (`rc_listens`).
4. The gateway's shutdown is not graceful: `Server.Start` returns when `Shutdown` begins, and
   the goroutine that called it ends the process under the requests in flight
   (`rc_graceful`).
5. The activity log's unique index accepts one document, so logouts fail (`ua_logout`).

Weaknesses without a run of their own; the models contain them and the properties that
hold name them as exceptions, or live with them:

* `WaitForEvent` closes the channel everybody shares; peers go deaf and time out
  (`DeafOnlyByPeer` is about who can do it).
* An early reply is dropped because the event goes out before the reply queue is bound; the
  request ends by its timer (`EveryRequestEnds`).
* `HandleGetProfile` swaps type and correlation ID in its failure reply
  (`core/service/user_service.go:410`); nobody is bound to that name, and the request times
  out (`FailureReply` in `EventNames`).
* An event that does not fit its handler's struct is acknowledged without a reply, by the
  dispatchers in `eventhandlers` and by `HandleUserRegistered`: a registration or a profile
  update with an age near the end of `int` times out (`Ignore` in `RequestReply` and
  `UserAccounts`; `EveryEventIsAnswered` and `AcceptedIsHandled` are about readable events).
* `GetChannel` stores and re-reads the shared pointer without the mutex: two requests that see
  the channel closed orphan one between them (`OrphansNeedThree` bounds how many).
* Messages are transient and published without confirms: a success of `PublishEvent` says
  that the event was written, not that it survives (`LostOnlySinceDeclare`).
* A failed lookup counts as an unknown address, so that without the unique index a second
  account is created (the exception in `OneAccountPerEmail`).
* The gateway sends the upload of a profile update as `avatar_base64`, the service reads
  `avatar`: it is dropped and success reported (`UpdateProfile` in `UserAccounts`).
* `AUTO_MIGRATE` without `AUTO_DROP` works once: the next start fails on the roles that are
  there, and goes on failing (the exception in `FailsOnlyOnOldData`).
* The user service's `Run` does not listen for SIGTERM: only `RunConsumer` stops, and
  the process stays until it is killed or interrupted (hence `InterruptStops`, not SIGTERM).
* `CreateAdmin` and `UpdateAdmin` look for the claims under a context key nobody sets and
  answer 401 to everyone (`unclaimed` in `Session`).
* `Logout` ends no session: it neither blacklists the token nor deletes its record.
* `CheckRateLimit` never rejects; and if it did, `c.JSON` would return nil and the handler
  would go on.

## Not modelled

* Rate limiting: the limiter of `config/rateLimit.go` lives for one call and has no
  behaviour over time; the one in force is a middleware of Echo.
* The payment service: docker-compose does not start it, nothing calls it, and its list of
  migrations is empty.  Its shutdown is a copy of the gateway's.
* Google sign-in (its routes are commented out), the activity log repository,
  `BlacklistToken`, `VerifyToken`, `FindByGoogleID`, `GetUserByRole`, `HandleUserOauth`,
  `GetMongoDB` and `CloseMongoDB` (no callers).
* Logging, validation and the decoding of payloads, but for whether it succeeds: pure or I/O.
* The middlewares of Echo, Redis and MongoDB themselves: modelled from how the code uses
  them, where it depends on what they do.

## Plan

Done: the abstract `RpcContract`, `AccountStore` and `EventConsumer`; `EventNames`,
`RequestReply`, `RabbitConn`, `UserAccounts`, `ServiceLifecycle`, `Session`, each of these
five with its theorems; every safety property of the runs proved.

Worth doing next:

1. An abstract specification of a session, what a client may rely on between login and
   expiry, with `Session` shown to implement it.
2. The safety cores of two liveness properties: which starts `FailsOnlyOnOldData` excludes as
   an invariant of `ServiceLifecycle`, and that a request in `RequestReply` has a step to take
   as long as it has not ended.
3. A composition of `RequestReply` with `RabbitConn`: replies over a connection that is
   lost and a consumer that has ended.  Each half is checked alone; together the state
   space needs one request and one outage.
4. The payment service, once it has operations.
