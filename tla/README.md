# A verification of Agent2API

Agent2API is a gateway: clients speak the OpenAI or Anthropic protocol to it, and
it serves them from several upstream platforms through pools of accounts. What is
hard in it is not the translation of payloads but the bookkeeping around it: who
may use which account when, what happens to an account when an attempt on it fails
late, how one refresh, one upload or one catalog request is shared by many callers,
and what a restart finds on disk. This directory models that bookkeeping in TLA+,
checks it with TLC and proves the core of it with TLAPS. All paths below are
relative to `src/`.

## 1. Inventory

For each component: its state, its operations, what it talks to, what is hard, and
what makes it correct. `PROJECT.json` has the same list with the modules.

| Component | State | Operations | Hard behaviour | Correct when |
|---|---|---|---|---|
| **Account pool** `internal/adapter/pool.go`, `queue.go`, `affinity.go` | accounts with state, two levels of cooldown, `inFlight`; `queued`, the broadcast channel `changed`; session bindings | `Stream` (reserve, dial, classify, fail over), `slotStream.Recv/Close`, `Add`, enable, disable, reset, re-authenticate | every critical section of `p.mu` interleaves with other requests, the operator and time; a waiter sleeps outside the lock | slots and queue places are counted exactly, no wake-up is lost, cooldowns are not shortened, a Retry-After is kept, every call returns |
| **Credential refresh** `internal/adapter/workbuddy/auth.go` | current credential, the flight in progress, the file | `EnsureValid`, `Refresh`, `runRefresh`, `replaceCredential`, `persistCredential` | single flight with cancelling waiters; a login supersedes a rotation; publish and save are two steps | one exchange per refresh token, the file follows memory, waiters learn the truth, nobody waits for ever |
| **WorkBuddy adapter** `internal/adapter/workbuddy/adapter.go`, `client.go` | loop variables of one attempt | `Stream` (dial, refresh on 401, back-off) | retry loop whose counter is decremented by the 401 branch | at most one refresh, a bounded number of dials |
| **Request execution** `internal/llm/execution.go` | phase, attempts, deadline of one request | `BeginAttempt`/`finish`, `BeginQueue`, `NoteAttemptFailure`, late upload callbacks | timer, completion and callbacks of an older attempt race | budgets are shared by all layers, a late callback never changes a newer attempt |
| **Routing** `internal/app/routing.go`, `app/affinity.go` | the routing timer, the accepted stream | `openRoutedStream`, `routeStream` | the timer fires while the stream is being accepted | a stream is either handed over or closed, never both or neither |
| **Failure classification** `internal/llm/failure.go` | none | `Wrap`, `HTTPStatus` | which flag wins | each failure reaches the pool with one meaning |
| **Model catalog** `internal/app/catalog.go`, `hub.go` | catalog per platform, flights, time stamps | `RefreshCatalogIfDue`, `refreshPlatformCatalog`, routing look-ups | followers inherit the leader's result; a cancelled leader | one refresh per platform at a time, a stale result is not published |
| **Drain and shutdown** `cmd/agent2api/shutdown.go` | `stopping`, active requests | `ServeHTTP`, `stop`, `shutdownAndPersist`, `runServer` | a request arrives while the drain starts, or is cancelled and still to be counted | no request is served after the drain, and the last save has every one that was |
| **Metrics and storage** `internal/obs`, `internal/app/metrics_storage.go` | counters, minutes, calendar history, the file and its recovery file | record, load, recover, import, save | a damaged file at start; the periodic save beside the last one; archives that overlap | a request is counted once, a saved file is never replaced by one with less in it |
| **Login sessions** `internal/app/login.go`, `adapter/trae/login.go`, `grant.go` | sessions with TTL, staged credentials, the pending token and the saved grant of TRAE | `Start`, poll, `commitCredential`, `resumeLogin`, `finishAuthorization` | the browser chooses another account; several logins and the watcher at once; a crash after a code was spent | one pool entry per account, each with its own file; a spent code's token is not lost |
| **Image reference cache** `internal/adapter/workbuddy/image_cache.go` | uploaded references, flights | `get`, `pruneLocked`, `save` | the last waiter leaves while the upload finishes | one upload per image, no waiter is left behind |
| **Kiro runtime** `internal/adapter/kiro/runtime.go`, `job.go` | pending RPC calls, jobs with a bounded event buffer | `call`, `startJob`, `attach`, `Recv`, `Close`, `resume` | a process that dies, a tool result for a job that ended | each call is answered once, a job ends exactly once |
| **Check-in** `internal/adapter/trae/checkin.go`, `quota.go`, `workbuddy/checkin.go` | the state file, its copy in memory, the operation in progress | `tick`, `ClaimCheckin`, `RefreshCheckin`, `run`, `reconcileReward`, `updateStatus` | a reply is lost or the process dies after the reward was given; midnight; another account logs in; credits of another source | no claim after one that took effect, a day's attempts are limited, only the reward is approved for use |
| **Benefits** `internal/adapter/benefits.go` | cached quota | `Refresh`, `Snapshot` | concurrent refreshes | a newer result is not overwritten |
| **Client configuration** `internal/clientconfig`, `internal/zcode` | files of other programs | `WriteFile`, `Apply` | the file changes between read and write | another writer's change is not lost |
| **Protocol encoders** `internal/api` | per-response encoder state | `Write` per event, `Finish` | every order of text, reasoning, tool calls, errors | block events are balanced, exactly one terminal event |
| **Stream decoders** `workbuddy/sse.go`, `cursor/stream.go`, `trae/stream.go`, `openrouter/stream.go` | partial tool calls, usage, finish reason | `Recv` | truncated streams, idle time-outs | a truncated stream is not reported as complete |
| **Watchers** `cmd/agent2api/poolwatch.go`, `keepalive.go`, `background.go` | what a pass knows of the pool | scan, keep alive | runs beside logins and requests; files are half copied | an account is added once, and without a restart |
| Configuration, HTTP and console handlers, web console, other adapters, credential decoding | | parsing, translation, user interface, cryptography | data rather than control | not modelled (section 7) |

How they interact. An HTTP handler creates an `Execution`, routes the request to a
platform (`Routing`), whose `Pool` picks an account, reserves a slot and calls the
account's adapter. The adapter refreshes its credential and dials; the stream it
returns is wrapped by the pool (slot), by the router (timer) and read by a protocol
encoder. Operator commands and the watchers change pools while requests run;
logins replace credentials in adapters and then clear the pool's block
(`AccountReauthenticated`), or leave a file that the watcher brings into the pool. The
deferred end of each request goes into the metrics, which a worker saves and the exit
saves last.

The hazards of the code, each at its line and with the property that watches it, are
listed in `PROJECT.json`.

## 2. Plan

In the order of importance for the system:

1. `AccountPool` with `SlotLedger` (abstract), `PoolRetry`, `PoolOperator` (history
   variables) and `AccountPoolProofs`: **done**.
2. `CredentialStore` (abstract), `CredentialRefresh`, its composition with the retry loop
   of the adapter `UpstreamRetry`, and `CredentialRefreshProofs`: **done**.
3. `Execution` and, on top of it, `RoutedStream` (budgets, timers and the hand-over of a
   stream), with `RoutedStreamProofs`: **done**.
4. `UsageHistory` (what is counted, and how archives are imported) and `MetricsStore` (from
   boot to exit: load, recover, save, drain, crash), with `MetricsStoreProofs`: **done**.
5. `KiroJob`: a resumable job, its agent, its requests and its end, with `KiroJobProofs`: **done**.
6. `ProtocolEncoders` and `StreamDecoder` as operators, and `RelayedReply`, which runs them
   together for every order of frames, with `RelayedReplyProofs`: **done**.
7. `AccountAdmission` (who comes into the pool), `TraeLogin` and on top of it `TraeCheckin`,
   with `TraeCheckinProofs`; the theorems of `AccountAdmission` are in
   `AccountPoolProofs`: **done**.
8. `CatalogRefresh` and `ImageReferenceCache`: the two other single-flights
   (`app/catalog.go` 60-204, `app/hub.go`; `workbuddy/image_cache.go` 53-221), both with an
   abstract "one flight per key" they implement. **Left.**
9. WorkBuddy's check-in (`workbuddy/checkin.go`), which shares only the timer with TRAE's.
   **Left.**
10. Pure algorithms: failure classification by text (`llm/failure.go`), and
   compare-and-replace of client files (`clientconfig/files.go` 33-102). **Left.**

Induction over numbers and over what a fold computes is available to every proof through
`InductionLemmas` (section 5). What is left to prove with it: the theorems of the modules of
items 8 to 10. **Left.**

Each part is checked by one run (two for the pool). Instances are kept to two or three actors,
because each of the hazards needs two requests and one intruder (operator, login,
timer or client) at most.

## 3. Modules

| Module | What it is |
|---|---|
| `AccountPool` | the pool: `pool.go`, `queue.go` and its use of `affinity.go` |
| `SlotLedger` | abstract: who holds a slot and who waits, nothing else |
| `PoolRetry` | `AccountPool` with the Retry-After promises made to clients |
| `PoolOperator` | `AccountPool` with what the operator asked for last |
| `PoolShapes`, `AccountPoolMC`, `PoolRetryMC`, `PoolOperatorMC` | small instances for TLC |
| `AccountPoolProofs` | the theorems of `AccountPool`, `PoolRetry` and `AccountAdmission` |
| `CredentialStore` | abstract: a credential in memory and its copy on disk |
| `CredentialRefresh` | the credential of one account: `workbuddy/auth.go` |
| `UpstreamRetry` | the retry loop of `workbuddy/adapter.go` and the keep-alive on top of it |
| `CredentialRefreshProofs` | their theorems |
| `Execution` | what the gateway records of one request: `llm/execution.go`, `adapter/http_trace.go` |
| `RoutedStream` | the life of one request on top of it: `app/app.go`, `app/routing.go`, `app/live.go`, the loops of the pool and of the adapters |
| `RoutedStreamProofs` | their theorems |
| `ProtocolEncoders` | operators: the three stream encoders of `internal/api`, and the message `aggregate` puts together |
| `StreamDecoder` | operators: the decoders of the four platforms, frame by frame |
| `RelayedReply` | one reply from the upstream's frames to the client's, with idle timer, pump and client |
| `RelayedReplyProofs` | its theorems, and what they need of encoders and decoders |
| `KiroJob` | one generation of Kiro: `kiro/job.go` and the calls of `kiro/runtime.go` |
| `KiroJobProofs` | its theorems |
| `UsageHistory` | operators: what the metrics keep of finished requests, load and import: `obs/history.go`, `history_import.go`, `metrics.go` |
| `MetricsStore`, `MetricsStoreMC`, `MetricsInOrderMC` | boot, requests, saves, drain and exit: `app/metrics_storage.go`, `cmd/agent2api/shutdown.go`, `main.go` |
| `MetricsStoreProofs` | its theorems |
| `AccountAdmission`, `AccountAdmissionMC` | start-up, watcher and logins that bring accounts of WorkBuddy into the pool |
| `TraeLogin` | the web login of TRAE with the files it resumes from |
| `TraeCheckin`, `TraeCheckinMC` | the daily check-in of TRAE and the evidence for its reward |
| `TraeCheckinProofs` | the theorems of `TraeLogin` and `TraeCheckin` |
| `InductionLemmas` | lemmas several proofs rest on: induction, least elements, folds, sequences |

### AccountPool and the code

A request is a goroutine in `Pool.Stream`; its program counter `pc` names where it
is. Each critical section of `p.mu` (or of the affinity table's own mutex) is one
action, so everything the code leaves open between two of them is an interleaving:

| Code | Actions |
|---|---|
| `Stream` 343-383 | `Arrive`, `Lookup` |
| `reserve` (queue.go 34-149) | `ReserveSlot`, `ReserveNone`, `ReserveCanceled`, `ReserveRefused`, `ReserveWait`; the `select`: `WakeChanged`, `WakeTimer`, `WakeCanceled`; the deferred function: `Dequeue` |
| after the reservation | `Leave`, `AbortReserved`, `BeginDial` |
| adapter and first event | `DialSucceeds`, `DialFails` |
| failure path 429-517 | `ReleaseFailed`, `Unbind`, `Classify` with `CooldownModel`, `CooldownAccount` |
| `exhaustedFailure` | `Exhausted` |
| `slotStream.Recv` 618-634 | `StreamEnds` (the stream ended by itself: the slot goes back before `Close`) |
| `slotStream.Close` 636-643 | `BeginClose`, `CloseUpstream`, `CloseReleases` |
| operator and watchers | `Add`, `Enable`, `Disable`, `ResetCooldown`, `Reauthenticated` |
| outside | `Cancel` (client leaves), `BindingExpires`, `Tick` |

Abstractions. Time is a set of countdowns. A failure is one of the classes the code
tells apart, in the order in which it tests them; a rate limit carries the reset
time the upstream stated, or none. Health scores weight a random choice with
positive weights, so the choice is nondeterministic and the scores are left out.
The time a request's execution has left bounds its queue deadline from above; it is
a free choice in `JoinQueue`. A model's cooldown is kept for each account and model.
The queue's broadcast channel is the flag `signalled`: the channel a waiter captured
was closed. `Dequeue` is separate from the return because the deferred function
takes the lock again.

### CredentialRefresh, UpstreamRetry and the code

Each critical section of `a.mu` is one action. `commitMu`, which is held across several
of them and across the write of the file, is the variable `commit`. The exchange with
the platform is a goroutine of its own and outlives the callers that wait for it; the
record `credentialRefresh` is an element of `flight`, and a record is reused once nobody
refers to it any more.

| Code (`auth.go`) | Actions |
|---|---|
| `refresh` 279-321 | `Call`, `ReturnCanceled`, `ReturnValid`, `AwaitCancelled` and `AwaitOver`, `Join`, `StartFlight` |
| `waitRefresh` 323-339 | `WaitOver` (the `select`), `Unwait` (the deferred function) |
| `refreshToken` 374-424 | `Exchanged`, `TimesOut` |
| `runRefresh` 340-372 | `Land`, `SaveRotation` with `persistCredential`, `FinishFlight` |
| `replaceCredential` 233-259 | `LoginBegins`, `LoginSaves`, `LoginAdopts` |
| contexts and clock | `Cancel`, `NextCall`, `Age` |

| Code (`adapter.go`) | Actions |
|---|---|
| `Stream` 219-243 | `Begin`, `Ensured` |
| its loop 248-313 | `DialOpens`, `DialFatal`, `DialUnauthorized`, `Recovered`, `DialRetryable`, `BackoffOver` |
| `refreshExpiring` (keepalive.go 30-63) | `Begin`, `Checked` |

Abstractions. A credential is the login session it descends from and the number of its
rotation; tokens, time stamps and the file format are left out, a write of the file
succeeds as a whole or fails (it is a rename). A flight compares its base with the
credential in use and nothing else, and at most one rotation of a session can happen
while it runs, so rotation numbers wrap at `Generations`. An expiry time is one of the
three intervals the code tells apart. A dial is one step with four outcomes: a stream, a
401, an error worth another dial, a final error; uploading images before the loop can
fail like a final error. A login that names another account is refused before anything
changes and is not an action.

### Execution, RoutedStream and the code

Here the actor is one request, and what interleaves with it are its client, four clocks
and the callbacks of the HTTP transport, which run in goroutines of their own. `pc` says
where the request's goroutine is; accounts and upstreams only answer, because what
requests share is in `AccountPool` and what a WorkBuddy adapter does with its credential
in `UpstreamRetry`.

| Code | Actions |
|---|---|
| `serve` (app.go 271-367) | `Reject`, `StartRouting` |
| `openRoutedStream` (routing.go 16-57) | `OpenRoutedStream`, `HandOver`, `OpenFails`, `RoutingExpired`; the timer: `RoutingTimerFires`, `RoutingTimerRuns` |
| `routeStream` 59-103, `openPlatformStream` | `OpenPlatformStream`, `FallBack` |
| `Pool.Stream`, `reserve` | `Reserve`, `Enqueue`, `QueueServes`, `QueueFails`, `PoolReturns`, `NextAccount`, `PoolGivesUp`; the probe: `ProbeAccepts`, `ProbeFails` |
| `BeginAttempt` and `finish` (execution.go 236-305) | `AttemptRefused`, `Send`, `Finish`; the header timer: `HeaderTimerFires`, `HeaderTimerRuns` |
| the adapters' `Stream` | `Prepare`, `UpstreamAnswers`, `DoAborted`, `Refuse`, `NotAStream`, `DialOpens`, `Redial`, `AdapterReturns` |
| `uploadGuard` (workbuddy/upload.go) | `UploadStalls`, `GuardStarts`, `GuardStops` |
| `TraceRequest` (http_trace.go 12-32) | `Callback` with `GotConn`, `WroteHeaders`, `WroteRequest`, `WriteBreaks` |
| `observedStream.Recv`, `writeStream`, `writeFinal` | `Relay`, `RelayDone`, `UpstreamEnds`, `UpstreamFails`, `WriteFails`, `Complete`, `Close` |
| contexts and client | `ClientLeaves`, `Disconnect`, `RequestTimesOut`, `DeadlinePasses` |

A timer is "armed", "fired" from the moment on when `Stop` returns false, and "expired"
once its function has run: between the two lies the race that `openRoutedStream` and
`finish` have to win. `late` says that the deadline has passed; the routing timer and the
refusals of `BeginAttempt` are due from then on. A context is the reason why it ended, and
`ContextErr` is what `ctx.Err` tells of it: the cause given by the routing timer is
visible to `context.Cause` only.

Abstractions. A failure code stands for the class `Failure` gives it; vendor wording is
left out except for whether a 5xx is reported as `http_5xx` or under a code of the
platform's own, because `eligible` looks at that. `Routes` counts the platforms
`routeStream` may try, which is 1 when fallback is off. Adapters differ in what the model
tells apart: WorkBuddy has an upload guard and redials but no header timer, the others the
reverse, WorkBuddy prepares images before it dials, and the others may be refused while they
authorize or look at their quota, before there is an attempt (`Prepare`). `renewals` is
`refreshedOnAttempt`: one refresh, and so one redial after a 401, for each call of the adapter.
The phases are those the live view shows, "preparing_images" and "streaming" included; a
preparation that fails leaves "preparing_images" shown while the pool looks for its next
account. Left out: the console fall-back of WorkBuddy on 404 (adapter.go 359-364), encoders
that fail, and the adapters' idle and total
time-outs as clocks of their own (they end a stream with "transport"). A body that breaks
while it is sent is seen only where somebody listens, by an armed upload guard.

### ProtocolEncoders, StreamDecoder, RelayedReply and the code

A decoder and an encoder are each a fold: `Consume(p, ...)` takes one frame of platform `p`
into the state of its decoder and the events it emits, `Encode(p, ...)` one event into the
state of an encoder and the frames it writes. All three encoders are fed the same events, so
each behaviour checks each pair of platform and protocol.

| Code | Definitions |
|---|---|
| `workbuddy/sse.go`, `trae/stream.go`, `openrouter/stream.go` | `WorkBuddyConsume`, `TraeConsume`, `OpenRouterConsume`, their `...Finish` and `...ReadEnds`; the tool calls they share: `KnownTool`, `ConsumeToolCall`, `StartToolCall`, `EndToolCalls` |
| `cursor/stream.go` | `CursorConsume` with `Exec`, `RelayTool`, `CursorFinish`; its `pump`: `PumpSends`, `PumpAborts` |
| `openai/chat`, `anthropic/messages`, `openai/responses` | `ChatEncode`, `MessagesEncode`, `ResponsesEncode`; not streamed: `Aggregate`, `ChatFinal`, `MessagesFinal`, `ResponsesFinal` |
| `writeStream`, `observedStream.Recv`, the idle timers | `Relay`, `RecvEnds`, `IdleTimeout`, `ReadEnds`, `ClientLeaves` |

Abstractions. A frame carries one part, and a message one choice; the content of the n-th
frame is `n`, so text that is lost, doubled or out of order is seen. Identifiers, names and
usage are left out but for whether a tool call has its id and its name yet. A response that
is not streamed has no client to be slow. `heard`, which no code keeps, is what the upstream
has said so far: one entry for each frame with text, thinking or a tool call. What a client
puts together of it is `Gathered` from the frames or blocks that carry content.

### KiroJob and the code

The actors are the goroutines of `startJob` and `resume`, the native agent, the requests'
handlers and the watcher of each request's context. The job's mutex is `lock`: what its
holder has yet to send into a channel that is full.

| Code (`job.go`) | Actions |
|---|---|
| `startJob` 171-276 and its prompt | `Start`, `StartFails`, `StartJob`, `PromptReturns`, `PromptCloses`, `JobTimeout` |
| `Stream` with results, `resume` 294-341 | `Return`, `CheckFails`, `ResumeRefused`, `Resume` |
| `send`, `endText`, `deliverWaiting`, `notify` | `Section`, `GoOn`, `Delivery`, `Notify` |
| `serveMCP` 391-476 | `ServeCall`, `CallReturns`, `AgentHangsUp` |
| `close` 369-389 | `CloseBegins`, `CloseMarks`, `CloseForgets` |
| `Recv`, `Close`, `watch` | `RecvEvent`, `RecvMarksEnd`, `CloseStream`, `WatchChecks`, `WatchCloses` |
| the agent (external) | `AgentSpeaks`, `AgentCalls`, `AgentEnds` |

A watcher looks at the mark of its stream's end and closes the job in two steps, and no mutex
joins them: `leaving` is the watchers that have looked and not acted yet. `Recv` may hand the job
off in between.

Abstractions. Requests and tool calls are numbered in the order in which they come. Finding
and starting the command line tool, its list of models and the prompt's text are left out; a
request brings results of calls the client was told of, all, some or some again.

### UsageHistory, MetricsStore and the code

| Code | Definitions |
|---|---|
| `obs/metrics.go`, `history.go` | `Record`, `AddMinute`, `RecordHistory`; `Load` of an old snapshot: `LoadLegacy` |
| `obs/history_import.go` | `ImportHistory`, `ImportSnapshot`, `ImportLog` |
| `app/metrics_storage.go` | `Loaded`, `ImportAll`, `Recovery` in `Boot`; the worker: `TickDue`; `saveMetrics`: `SaveBegins`, `SaveEnds` |
| `shutdown.go`, `runServer` | `Arrive`, `Leave`, `Signal`, `ShutdownReturns`, `ShutdownTimesOut`, `CleanupDone`, `CleanupTimesOut` |
| `App.serve`, deferred | `CountRequest` |
| outside | `Send`, `Crash`, `Damage`, `Delete` |

Abstractions. A counter is kept as the requests it counts: `counted[r]` says how often `r` is
in the row of its day and model, so that a request counted twice is not hidden by one that is
lost. A file is saved whole or not at all (it is a rename). All of it happens on one day,
`Today`: the retention of 366 days, the cap on recent requests and the counters that are only
displayed are left out. `StoreAssumption` says what the files of others may hold: archives of
former gateways, each of which counted a request at most once and none of ours.
`ArchivesInOrder` says more of them, and only `EachCountedOnce` asks for it: what an import
takes one request at a time is known to it by identity, or is counted by nothing imported
before. `MetricsInOrderMC` assumes it of the archives of the run `metrics_store`; those of
`history_overlap` are not in such an order.

### AccountAdmission and the code

A credential is the account it belongs to. The directory is a set of named files, some half
copied; the watcher's pass (`poolwatch.go` 55-119) is `ScanBegins`, `Skip`, `LoadCandidate`,
`AddCandidate`; `buildAdapter` is `Boot`; a login (`app/login.go`) is `Start`, `Obtain`,
`LoginFails` and the steps of `commitCredential`, with `credentialMu` as `holder`:

| Code (`commitCredential`, `app/login.go`) | Actions |
|---|---|
| the account is in the pool: `replaceLoginCredential` | `CommitToPool` |
| `findDuplicateCredential` 294 | `FindDuplicate` |
| the duplicate is loaded and gets the session | `MergeDuplicate` |
| `os.Stat` 308 | `StatTarget` |
| `os.Rename` 313 | `RenameStaged` |

The mutex keeps other logins out between these steps, and nobody else: a file that is copied
in after `os.Stat` is overwritten by `os.Rename`, and `late` records its name, so that the
properties say what holds beside it. A credential that was granted but cannot be staged is lost
(`Obtain`); from then on it is in a temporary file until it is in one of the directory. Left
out: what happens to the sessions and their refresh (they are in `CredentialRefresh`), the
deletion of files, and the forgetting of finished sessions.

### TraeLogin, TraeCheckin and the code

| Code | Actions |
|---|---|
| `startTrae` (app/login.go 171-216), `resumeLogin` | `StartTrae` with `Begin` |
| `finishAuthorization`, `saveCredential` (trae/login.go, grant.go) | `Authorize`, `Redeem`, `SavePending`, `Resolve`, `CheckOwner`, `Replace`, `LoginFails` |
| `tick` and the timer (checkin.go) | `Tick`, `TickRuns` |
| the console | `ClaimCheckin`, `RefreshCheckin`, `ConfigureCheckin` |
| `run`, one upstream call or critical section a step | `Load`, `Status`, `ReadBalance`, `Decide`, `Claim`, `Confirm`, `DateAnswer`, `Succeed` |
| `reconcileReward`, `updateStatus` | `Approve`, `Confirms`, `Updated` in these |
| outside | `Boot`, `Crash`, `Midnight`, `External`, `RemoveCredential` |

Two pairs of steps are separate because something can come in between. The upstream's answer
to a code and its save are `Redeem` and `SavePending`: a code is exchanged once (`spent`), and a
crash in between loses its token. The status that confirms a claim and its date are `Confirm` and
`DateAnswer`: the code takes the time after the answer, so that one given before midnight may be
dated on the new day (`carried` records it).

Abstractions. A day's reward is one pack, and credits of another source are another; their
amounts differ. The hour at which the check-in is due and the fifteen minutes after a failure
may have passed at any step, which allows more than the code does. `TraeCheckin` sees of a
login only that it puts a credential where none was (`CredentialChanges`): that this is all a
login does to that file is the theorem `LoginOnlyAdds`, so that the two need not be
interleaved, and `TraeCheckinMC` runs them side by side.

## 4. Runs

| Run | Instance | Shows |
|---|---|---|
| `pool_safety` | 2 accounts an operator may reset, 2 requests of one session, limit 1, queue 1, reset times 1 and 3 with a cap of 2 | slot and queue accounting, the upstream limit, no lost wake-up, the Retry-After promise, monotone cooldowns, affinity; the pool implements `SlotLedger` |
| `pool_liveness` | 1 account added later, 2 requests whose clients may leave, one of them in a session, all five commands of an operator, queue 1 | every call returns |
| `credential_refresh` | a request whose client may leave and the keep-alive on one account, 2 overlapping flights, 1 login, 2 dials | one exchange per credential, file against memory, the count of waiters, granted rotations kept, truthful success, the abstract store; every request returns |
| `routed_stream` | 1 request, 2 platforms (WorkBuddy, and one with codes of its own for a 5xx), 1 account each, 2 attempts, 2 redials, refusals 401 and 5xx | type and the budget, nothing leaks, an accepted stream is not cut, truthful blame, honest answers, truthful phase, history kept, no replay after an upload, every request returns |
| `stream_relay` | every order of up to 3 frames and an ending, 4 platforms, 3 protocols, 2 tool calls, a channel of 2 | what the client is written is well formed and is what the upstream said; the reply ends |
| `kiro_job` | 3 requests of one client, 2 tool calls, at most 4 of both together, 1 piece of text, a channel of 2 | well-formed replies, tool calls told and answered once, a hand-off keeps the job; the job ends |
| `metrics_store` | 2 requests in 2 minutes, 3 boots, 2 damaged or deleted files, 4 former requests in overlapping archives, 1 minute kept | counted once, files kept, the last save is complete |
| `account_admission` | 2 accounts, 2 logins, 2 file names, one file copied in, a configured credential or none, 2 boots | one pool entry per account with its own file; a login joins the pool |
| `trae_checkin` | 2 accounts on 2 days, 1 attempt a day, 1 crash, 1 removal of the credential, a gift to one account, one check-in elsewhere; 2 logins | claims as promised; rewards accounted for, and approved by whoever finds them that day; the files of a login |
| `routed_fallback` | 1 account, 2 platforms, the first with codes of its own | **violated**: see section 6 |
| `history_overlap` | the instance of `metrics_store`, an older archive named after a newer one | **violated**: see section 6 |
| `pool_disable` | 1 account, 1 request, enable, disable, re-authenticate | **violated**: see section 6 |

Why the bounds are enough. A slot limit of 1 makes every second request wait, and while
every account cools both wait, so that a queue of 1 is full; two accounts make fail-over
and rebinding possible and, with both cooling, exhaustion. A reset time above the cap and
one below it show both sides of `upstreamCooldown`. A third request or a second model would
add another waiter and another cooldown of the same kind; the theorems of section 5 hold for
any number of both. `SYMMETRY`
is used only in runs that check no liveness: of accounts in `pool_safety`, which starts
with every account in the pool, of requests in `metrics_store` and of logins in
`trae_checkin`.

In `credential_refresh` a request and the keep-alive make one call each, so the system
comes to rest and deadlock is not checked; within its call a request can refresh twice,
and what the two do covers each pair of positions in `refresh`. A login lets a second
flight overlap the superseded one; a third name is never needed (with no current flight
and somebody about to start one, a name is always free). The theorems of section 5 have
none of these bounds.

In `routed_stream` two attempts are enough for a callback of an attempt that is no longer
the last, for a redial, for a second platform, and for a budget that runs out at each of
them; a second account per platform would repeat the loop of the first. One WorkBuddy
platform and one other show both watchdogs. A request ends, so deadlock is not checked.

In `stream_relay` three frames suffice for a block that grows after another was opened, for
a tool call announced late (its id, its name and its arguments in frames of their own) and for
two interleaved ones; longer replies repeat these. A channel of 2 is full while Cursor's pump
has a third event in its hands.

In `kiro_job` three requests are one that starts the job, one that resumes it and one that
repeats or comes late; two tool calls are one the client knows of beside one that is still to
be delivered. A channel of 2 is filled by one tool call with the end of a text block.

In `metrics_store` one boot leaves a file, one damages the recovery file's turn and the third
shows what is loaded then; two minutes with one kept cut the series while requests end out of
order. In `account_admission` two of everything are one pair that meets in each step, with a
second boot after a crash. In `trae_checkin` a day's limit of attempts is 1 instead of 6, so
that it is reached; one crash and one removal of the credential (so one change of account) at
any point, and two days so that midnight falls anywhere. These systems come to rest, so
deadlock is not checked; only the two runs of the pool check it.

Fairness (`pool_liveness`). A goroutine that can take a step does (`WF` of
`Working(r)`): the scheduler runs it, and dials and streams end because every adapter
bounds them with time-outs. Time passes (`WF` of `Tick`). The timer branch of a
waiter is strongly fair: the waiter can be woken by others again and again, but the
`select` chooses at random among ready branches, and the deadline once passed stays
passed. Clients, operators and expiries are never obliged to act.

Fairness (`credential_refresh`). A caller inside a call, a flight and a login that holds
`commitMu` each take their next step if they can (`WF`): they are goroutines, the
exchange is bounded by the 20 seconds of its context, the dial by the time-outs of the
HTTP client, the back-off by its timer. Calls, logins, departures and the ageing of the
credential are never obliged to happen.

Fairness (`routed_stream`). The request's goroutine takes a step if it can (`WF` of `Runs`),
time passes (`DeadlinePasses`), a timer that is due fires and its function runs (`WF` of
`RoutingTimerFires`, `RoutingTimerRuns`, `HeaderTimerRuns`). Nothing obliges an account to
become free, an upstream to answer (`Waits`), a client to stay or to leave, or a callback to
come: `EveryRequestReturns` holds because the routing timer ends each wait before the
hand-over. After the hand-over it is the adapters' idle and total time-outs that end a silent
stream; they are why `Runs` includes the ends of a stream.

Fairness (`stream_relay`). The relay receives and writes (`WF` of `Relay`, `RecvEnds`), the
pump sends or gives up, the idle timer of a reply that neither ends nor goes on runs out
(`IdleTimeout`; an upstream sends finitely many frames), and a response that was closed ends
the read that waits for it. The upstream is not obliged to send, nor the client to stay.

Fairness (`kiro_job`). The time of a job runs out (`JobTimeout`: its context has a deadline),
`close()` and whoever holds the mutex go on, the handler of a tool call is run and returns when
it can. No client is obliged to read, which is what the order in `close()` is for, and the agent
may do nothing.

Fairness (`account_admission`). The watcher looks every ten seconds while the process runs
(`WF` of `Scan`), and a gateway that is down is started again if the bound allows (`WF` of
`Boot`). Nobody has to log in, nor to finish copying a file. `metrics_store` and `trae_checkin`
state no fairness, because they check safety only.

Every property has a mutant: a bug the code could plausibly have ("Variant:" in the
modules) that makes TLC find the property violated on the same instance. `LoginFilesSafe` has
two: two logins at a time, and one that never saves its token as pending. So has
`RewardsAccountedFor`: a record that is saved too late, and a reward that only the operation
which claimed it looks for.

## 5. Proofs

`AccountPoolProofs` proves, for any finite set of accounts and requests and every value
of the limits and time-outs (the assumption `PoolConstants`: `QueueLimit`,
`QueueTimeout` and the cooldowns are positive, `NoAccount` is no account, ...):

* `PoolInvariant`: `IInv` is inductive. It joins the type invariant, the counts of slots
  and queue places, what each program counter implies for its request (`Place`) and what
  a sleeping waiter may assume (`WaitInv`). `SlotAccounting` alone is not inductive: the
  action `Release` decrements the counter of the account in `holds`, so one has to know
  that `holds` agrees with the account of the attempt (`Place`) and that the counter is
  the cardinality of the holders (`SlotCount`).
* `SlotsAccounted`, `UpstreamBounded`, `QueueAccounted`, `TypeCorrect` follow from it.
* `NoWakeupLost`: `NoLostWakeup` speaks of waiters whose timer has not fired; `WaitInv`
  strengthens it to "each account still usable is full, needs an operator, or cools at
  least as long as the timer", which every `Tick` preserves because both count down
  together. That the timer is set to a least element is lemma `NatMin` (`InductionLemmas`),
  from well-foundedness.
* `CooldownsOnlyGrow` and `UnbindsOnlyOwn`: action properties, one case per action.
* `PoolIsALedger`: the pool implements `SlotLedger` with `lease <- holds` and
  `waiting <- InQueue`. It needs `SlotCount` to see that `HasCapacity` is the ledger's
  guard and `Place` to see that only a request without a slot reserves.

It proves of `PoolRetry`, from the pool's own invariant and the same assumption:

* `RetryInvariant`: `RetryInv` is inductive. `RetryPromise` alone is not: that no account can
  serve now says nothing of when the first one will. `PromiseInv` bounds from below when each
  account is back by what is left of the promise; both run down together with the clock, and
  cooldowns only grow in between.
* `PromisesKept`: `RetryPromise` follows.

`AccountPoolProofs` proves of `AccountAdmission`, for any accounts, names of files and logins
(`AdmissionAssumption`: names are numbers from 1, in the order of the directory):

* `AdmissionInvariant`: `AdmissionInv` is inductive. `OnceAndOwn` alone is not: the watcher adds
  an account it has loaded some steps before, and a login writes to a file it has chosen some
  steps before. `PassInv` says what the watcher knows during its pass, `PoolOwn` and `PoolOnce`
  what is in the pool and of the candidate in the watcher's hands, `SessionInv` where the
  credential of a login is, that a login in `commitCredential` has the mutex, and that a file
  which is there when a login is about to rename has come late.
* `CredentialsKeepTheirAccount`: what carries those conjuncts over the steps of others is that
  no step puts another account in a complete credential, unless it was copied late
  (`WholeKept`); for the steps of `commitCredential` this is lemma `CommitKeeps`. `MergeDuplicate`
  reads the file again, and `RenameStaged` meets a complete file only if it is in `late`.
* `AccountsOnceAndOwn` follows.

`CredentialRefreshProofs` proves, for any finite set of callers and any logins and flights
(`RefreshConstants`: the names are distinct, rotation numbers wrap at 2 or more):

* `AuthInvariant`: `AInv` is inductive. `OneExchange` alone is not: when a flight starts,
  nothing in the property says that the flights of earlier sessions used other tokens.
  `FlightInv` adds that the current flight started from the credential in use, that every
  other unfinished one belongs to an earlier session, and no two to the same. `CommitInv`
  says which steps hold `commitMu`; `FileInv` says whether memory or the file is ahead in
  each of them; `CallerInv` and `FlightHasAudience` say who holds which flight.
* `OneExchangeAtATime`, `FileFollows`, `AudienceCounted`, `AuthTypesCorrect` follow from it.
* `GrantsAreKept`: only `Land` takes a flight out of "granted" (`GrantedLands`), and a
  flight that lands with its base still in use is the current one.
* `SuccessIsTruthful`: only `FinishFlight` tells a caller of success, and a flight that
  reports success has seen its base replaced, by itself or by a login; that a rotation
  differs from what it rotates is lemma `Rotations`.
* `AuthImplementsStore`: refinement of `CredentialStore`, step by step.
* `RetryUsesAuth`: each step of the retry loop is a step `AuthSpec` allows, so all of this
  holds with the adapter on top.

`RoutedStreamProofs` proves, for any number of platforms, accounts, redials and attempts
(`RouteConstants`, `ExecutionConstants`: they are positive, and `Causes` holds classes an
upstream can refuse with):

* `RequestInvariant`: `RInv` is inductive. It joins what is held where (`HoldInv`), the
  clocks that may still run at each place (`TimerInv`, `WatchInv`), where a request can be
  after a failure that forbids another attempt (`ReplayInv`), when its record is good
  (`AnswerInv`), and what each failure in hand or on record is evidence of (`BlameInv`).
* `RequestLeaksNothing`, `AcceptedStreams`, `BlameIsTruthful`, `AnswersAreHonest`,
  `PhaseIsTruthful` and `RequestTyped` follow from it. None is inductive alone: that an
  accepted stream is out of reach of the routing timer needs that the timer is stopped only
  while it is armed and that a context ends with "routing_timeout" only after the timer has
  run; that nobody is blamed wrongly needs that a context which says "canceled" was
  cancelled by a client that left, or by a timer that ran.
* `NoReplay`: only `Send` makes an attempt, it starts from "dial", and `ReplayInv` says that
  a request with a forbidding failure on record is never there again.
* `HistoryIsKept`: every step writes at most the outcome of the last attempt
  (`RequestWrites`) or, in a callback, the upload of the last one that has not failed
  (`CallbackWrites`).

`TraeCheckinProofs` proves of `TraeLogin`, for any accounts and any number of login sessions
(`LoginAssumption`: `None` is no account):

* `LoginInvariant`: `LoginInv` is inductive. It joins the types, that at most one login is in
  progress (`OneInProgress`), that one which has no saved token yet found no pending one and has
  its code in the grant file (`BeforeToken`), that one which goes on with a token has it in the
  pending file (`TokenPending`: from `SavePending` on), and that the credential it is about to
  replace is its own account's (`OwnerChecked`).
* `FilesSafe`: `LoginFilesSafe` is an action property, but not of the steps alone: that
  `Replace` keeps to its account rests on what `CheckOwner` read some steps before, and that it
  clears its own token on there being no other login.
* `LoginOnlyAdds`: what a login does to the credential file is to put an account where none
  was, or nothing. This is what `TraeCheckin` takes a login to be.

It proves of `TraeCheckin`, for any accounts, any number of days, attempts and restarts
(`CheckinAssumption`: the limit of attempts and the number of days are positive, and what
others do concerns known accounts and days):

* `CheckinInvariant`: `CheckinInv` is inductive. `Evidence` says what may be relied on in a
  state, in memory or in the file: whose rewards are approved, what the record of a claim must
  name, that it covers a claim of today, and what "checked today" rests on: the upstream's word
  of today, or an answer that was on its way at midnight (`carried`). It is kept by each way in
  which states and upstream change, one lemma per way (`EvidenceFrom` to `EvidenceApproved`; for
  the date of an answer `DatedParts` and `DateStep`). `Counted` keeps
  the automatic claims below the attempts on record, `RunInv` says what the operation in
  progress has been told, by the step it has come to, and `TickInv` that what the timer is
  about to begin was due when it looked.
* `ClaimsKept` and `RewardsKept` follow. Neither is inductive: that no claim is sent twice
  rests on the status the same operation read two steps before, and that the record tells
  the reward of today on the balance read in between: all that was there of earlier days is
  in it, so one pack that came since is today's. That a later operation of the day approves a
  reward the claiming one did not rests on the status it has read before the balance.

`KiroJobProofs` proves, for any number of requests, tool calls, pieces of text and places in a
stream (`JobAssumption`: there is a request and a place):

* `JobInvariant`: `JobInv` is inductive: a stream is marked as ended only when its request has
  got its last event or has closed it (`StreamInv`), and the adapter's index names exactly the
  calls the job knows until `close()` collects them, at most those while it removes them, and
  none after (`IndexInv`). A call that comes in between is refused under the same mutex.
* `JobForgotten` and `HandOffKept` (`HandOffSurvives`) follow. A handler does not end a job it has
  handed off; a watcher does so only if it had found the client gone before the end was marked
  (`leaving`), and none begins to after it.
* `KiroInvariant`: `KiroInv` is inductive. The stream of a request is what it has received, then
  what is in its channel, then what the holder of the mutex has yet to send; events are only
  ever added at its end (by whoever holds the mutex) or cut off behind what was received (by the
  end of the request). `MarkInv` says that each piece of text and each tool call is in all
  streams together at most once, and one that is not sent yet in none; `ChannelInv`, `CtxInv`,
  `ClientInv` and `CallInv` say how far each request and each call is.
* `CallsAreAccountedFor` follows: `CallsAccountedFor` alone is not inductive, because a call is
  handed out by a section of `serveMCP` or `deliverWaiting` that may still be sending when the
  next request or `close()` comes.
* `GrammarInvariant`: as long as the job's context lives, each event in a stream may follow the
  one before (`Grammar`), a stream that has ended has come to its end, and `textOpen` says
  whether the stream the job is attached to has a text block open. The job carries `textOpen`
  from request to request, so this is what has to be known where it is read.
* `RepliesAreWellFormed` follows for what was received, which begins a well-formed stream.
  That it opens as many blocks as it closes is counted, by induction over its length (lemma
  `BlocksOpen`).

`RelayedReplyProofs` proves, for any of the four platforms, any frames in any order and any
number, any tool calls and any room in the channel (`BoundsAssumption`):

* `FlowIsInvariant`: `FlowInvariant` is inductive. An event fits the events before it (`Fits`) if a
  block is opened once, grows and is closed as what it was opened while it is open, all are
  closed when the reply is done, and nothing follows its end. The invariant says that what the
  relay has received, what waits in the channel and what is in the pump's hands fit
  (`EventsOK`), and that a decoder which reads on knows them (`Knows`): the block it has open
  is, the tool calls it takes for announced have been and are not closed, every other block is
  closed, and the next index is one no block has. One lemma per kind of frame and platform shows
  that what the decoder emits fits and is known again; closing or announcing all tool calls at
  the end is a fold, so an induction over the calls (`EndCallsStep`, `AnnounceAllStep`).
* `WireIsWellFormed`: `WireWellFormed` follows. What an encoder has written is a fold over the
  events, so the proof is an induction over them (`EncoderStep`, `EncoderTellsAll`): after each, it
  has written frames in order, has ended just when the events have (`WrittenOf`), and the blocks
  it has announced and closed are those of the events (`Mirrors`, `BlocksOf`; `CallsOf` for Chat,
  which gives tool calls ordinals and closes nothing). The encoders rely on
  the decoders here: those of Responses and Chat have no guard against a delta for a closed
  block, and the guards Anthropic's has, for a block that was never announced or is still open
  at the end, turn out never to be needed (`NothingToStop`). The failure of a reply is written at most once, after
  anything but an ending, because a reply whose end the relay has received does not fail.
* `CutOffIsNotComplete`: a stream of any platform but WorkBuddy that was cut off is never a
  complete reply. It is the first conjunct of `ReplyIsWhatWasSaid`, `CompleteIsMarked`, and
  rests on `EndIsMarked`: those decoders end without a failure only at a frame that says so
  (`OnlyMarksEnd`, `EndOfReadFails`), and nothing after it takes that back.
* `StreamedIsWhatWasSaid`: the second conjunct, `StreamIsWhatWasSaid`. The events lie between
  what was heard and what is written. `SaidInvariant` says that the events received, waiting and
  in the pump's hands begin (`Begins`) what was heard, told by its deltas (`Told`): all talk is
  told when a frame has been read; a tool call keeps its arguments until it is announced, so it
  may be told nothing yet, and then all of them at once (`AgreedWith`). When the reply is done
  nothing is kept back and each close of a tool call repeats what its deltas have told
  (`ClosesTell`). On the other side each encoder conveys (`Conveys`) what the events tell, and
  that is an induction over them with what the encoder remembers: blocks (`BlocksTold`) and, for
  Chat, the ordinal of each call (`ChatTold`). A client has received a beginning of these events.
* `WholeMessageIsWhatWasSaid`: the last conjunct, `MessageIsWhatWasSaid`. `aggregate` keeps a
  table with one entry for each block the events have opened. An entry has the deltas of its
  block in it, or what the close of a tool call has put in their place (`Table`, `Remembers`, by
  induction over the events); by `ClosesTell` that is the same. Sorted by index
  (`AscendingLists`), the entries say what was heard: the deltas of talk have told one block
  after another in ascending order (`AgreedWith`), so the blocks joined by index are the talk in
  the order in which it was heard (`ToldInTurn`), and the block of a tool call has its arguments
  (`ListReports`). The Responses encoder builds its items itself: it keeps a table of the same
  kind in `seen` and the finished items in `completed` (`Shelled`), and the list it ends the
  stream with takes one or the other for each index (`ShellLists`).
* `WhatIsGivenWasSaid`: the three conjuncts together, `ReplyIsWhatWasSaid`.

`MetricsStoreProofs` proves, for any archives, requests and number of boots (`StoreAssumption`):

* `MetricsInvariant`: `MetricsInv` is inductive. `SnapshotInv` says that the snapshot in memory,
  the one being written and all on the disk count no request of this gateway twice, and none
  that has not ended; `DrainInv` what each phase of the shutdown says of the requests of this
  process; `FileInv` that the file it saves to is not a damaged one and counts nothing that
  memory does not, and that a spare file is the one of its own boot.
* `LastSaveComplete`: `FinalSave` is the step to "down" seen from behind: it rests on
  `DrainInv`, which has followed the snapshot of the last save since it was taken.
* `ServedCountedOnce`: the half of `CountedOnce` that is about the requests of this gateway.
  What is saved, lost, loaded and imported on the way never counts one of them twice: an import
  adds only former requests (lemma `ImportAllGrows`, by induction over the archives).
  The half about former requests depends on the archives: section 6 has a pair for which it
  does not hold.
* `EachCountedOnce`: `CountedOnce` as a whole, for archives in order (`ArchivesInOrder`, which
  TLC evaluates for `MetricsInOrderMC`). At every boot the history starts from a loaded
  snapshot, and the archives are imported one after the other. What has to be known in between
  (`Origin`, `Imported`) is where each count of a former request came from: the snapshot the
  import began with, or an archive named before. A row that is taken whole was empty (`Sound`),
  and a request taken by itself was not marked, so neither was it counted (`Marked`); the
  induction is over the archives. Files written by this process come from such a history, so
  the next boot starts from a sound one (`PastInv`).
* `MinutesInOrder`: the other half, without an assumption on archives. The list of minutes is in
  order, each entry says how many counted requests ended in that minute, none is empty, and a
  minute that is missing is older than a full list (`Agrees`). `Record` has to find its minute,
  or the place for a new one, by search, because requests end in any order (`NewBucket`,
  `FoundMinute`), and cuts the oldest entry of an overfull list (`CutMinutes`); it may be the one
  just added.
* `NothingOverwritten`: `FilesKept` is an action property, but a save does not know what it
  replaces: that the snapshot counts all the file does is `FileInv`, and rests on the load and
  the import at boot as much as on the saves between.

`InductionLemmas` is what these proofs share: least elements (`NatMin`), induction over numbers
(`NumberInduction`) and over sequences (`SequenceInduction`), sequences with one element more and
their beginnings, lists of indices in ascending order (`Rises`), and the folds of the community
modules. The library has induction theorems,
but they take the property as a parameter; here it is a set. A fold is a `CHOOSE` of a function
that satisfies its equations, and says nothing until one is known to exist: `FoldExists` proves
that it does, by induction over the bound of the set that is folded.

Only model-checked. Liveness is outside the prover's reach: `EveryCallReturns`,
`EveryStreamReturns`, `EveryRequestReturns`, `EveryReplyEnds`, `EveryJobEnds`, `LoginJoins`.
No theorem states `CountedOnce` for archives in any order: there are archives for which it does
not hold (section 6). Every other safety property of a passing run is stated by a theorem. The
type invariants `TypeOK` of the pool and `AuthTypeOK` are theorems and not part of a run.

## 6. Disagreements found

`pool_disable`: an operator disables an account while an attempt on it is in flight; the
attempt fails with 401 and `cooldownAccount` (`internal/adapter/pool.go:832`) writes
`blocked` over `disabled`; a new login then makes the account `ready`, although
`pool.go:49`, `pool.go:1172` and `docs/accounts.md:58` say that only the operator ends a
manual disable.

`routed_fallback`: `docs/configuration.md:64` promises that with `fallback_on_unavailable`
an HTTP 5xx before the stream makes the gateway try other platforms. `eligible`
(`internal/app/routing.go:67`) recognises one by the prefix `http_5` of its code, but TRAE,
Cursor and, for business codes, WorkBuddy report it under codes of their own
(`trae_http_503`, `cursor_http_503`, `upstream_N`): the request fails although another
platform serves the model. (In the run the refusal comes before any attempt: the quota
that `trae/adapter.go:165` asks for.)

`history_overlap`: `docs/console.md:97` says that overlapping snapshots import nothing twice,
and line 99 that the history is rather covered in part than counted twice. `ImportHistory`
(`internal/obs/history_import.go:163`) looks for a recent request of a snapshot among the rows
of that snapshot and the identities it has kept, and keeps of a snapshot with a calendar
history the identities of the recent requests only. A request that fills a row from such a
snapshot is counted again from the recent requests of an older snapshot named after it. (A log
named before an older snapshot is counted twice for the same reason.)

Met while modelling, without a run of their own, because no property is about them:

* `docs/api.md:50` says an attempt keeps the status of an HTTP response; WorkBuddy's client
  turns a refusal into an error (client.go 486-489), so the attempt of a 503 is recorded with
  the 502 of that error (workbuddy/attempt.go 18-23).
* A 200 that is no event stream is refused after `finish` (trae/adapter.go 291-295,
  cursor/adapter.go 284-287) and its attempt keeps no failure code.
* The header timer is cut to what is left of the routing budget (execution.go 254-256), so
  it can blame an account for the gateway's own deadline.
* The note of routing.go 35 goes to the last attempt even if that one failed for a reason of
  its own long before.
* A probe that is interrupted by the routing timer notes "canceled"; if the time-out of the
  request comes before the answer, the note stays (the exception in `TruthfulBlame`).
* The slot of a failed attempt is returned before its 401 is recorded (pool.go 434), so a
  waiter may be given an account that is about to be blocked; and a 401 of an attempt that used
  the old credential may block an account whose block a new login has just cleared (pool.go 829).
* A crash between the publication of a rotation and its save leaves a spent refresh token in the
  file (workbuddy/auth.go 360), and a rotation that cannot be saved counts as a failed refresh
  although the new token is in use (workbuddy/adapter.go 278).
* Anthropic's block indexes need not increase in the order of announcement: a tool call takes
  its index with its first fragment and is announced when its name is known
  (workbuddy/sse.go 290), while messages.go 325 relies on increasing ones.
* WorkBuddy's decoder takes a response that stops without `[DONE]` for a finished one
  (`ReplyIsWhatWasSaid` excepts it), and passes over error frames in a 200 stream.
* Arguments of a tool call that are no JSON become `{}` in Anthropic's message when it is not
  streamed, while the stream carries them as they came.
* With a client that is slow and a full channel, Cursor's idle timer, which only its pump
  resets, closes the upstream (cursor/stream.go 173), and the reply fails as "canceled".
* A Kiro request whose watcher has found the client gone, and is interrupted before it closes the
  job, may hand the job off in between (job.go 280-287, 103-109): the job is closed all the same,
  and the results of the tool calls come to nothing.
* When WorkBuddy's preparation of images fails, the live view goes on to show "preparing_images"
  while the pool looks for the next account (execution.go 110).
* Text of a Kiro agent that comes while no request is attached is dropped (job.go 343); a request
  that repeats results already given, and whose check of the account fails, ends the job while it
  streams to another request.
* Two processes on one accounts directory: the CLI's `dedupeCredentialDir` (accounts.go 285-352)
  may delete the file of an account in a running gateway's pool. A file whose name is the
  label of an account from elsewhere never joins (poolwatch.go 83, the exception in `LoginJoins`),
  and the watcher may add an account with the session it has loaded although a login replaced the
  file in between (poolwatch.go 91-115, login.go 294).
* A credential copied into the accounts directory between `os.Stat` and `os.Rename` of a login
  with the same name is overwritten (app/login.go 308-313; the exception in `OnceAndOwn`), and the
  token a WorkBuddy login has been granted is lost when it cannot be staged
  (workbuddy/login.go 122-124).
* TRAE's web login saves the code before it is used, but a crash or a failed save between the
  answer and the pending file loses the token, and the code cannot be used again
  (trae/grant.go 99-105).
* TRAE's check-in: when `tick` has decided and an operation of the console fails before it runs,
  a claim follows without the 15 minutes' wait of docs/trae.md 47 (checkin.go 271-276). An answer
  "checked in" given before midnight and dated after it makes the new day count as checked until
  the next status, so that day's claim waits for it (checkin.go 549-560, the exception in
  `ClaimsAsPromised`). `docs/trae.md:95` says that a refresh continues the reconciliation of a
  claim on record, and line 49 that it comes first after a time-out or a restart; but only the
  record's own day is compared (checkin.go 387), so the reward of a claim that was not confirmed
  before midnight is never approved, and the account stays refused (`RefreshRecovers`, a part of
  `RewardsAccountedFor`, speaks of one day for this reason). A claim decided before midnight and sent after it may lose its record
  to an operation dated the day before. After a change of account and back the attempts of the
  day are counted anew and the evidence is gone. Credits of another source that are exactly the
  promised amount would pass for the reward; the model's amounts differ.

## 7. Not modelled

Data transformations without interleavings, whose unit tests reach what a model would: payload
translation, prompt sanitising, model lists and aliases, cryptography and credential formats,
configuration parsing, HTTP routing of the console, the browser console, command-line set-up and
the classification of a failure by its text.

Left by the plan of section 2: the model catalog, the image reference cache, WorkBuddy's
check-in, the cache of benefits and the files of other programs.

Left out of modelled components, beside the abstractions of section 3:

* the pool's health scores and status views; the forgetting of finished login sessions; the
  login of the Kiro command line tool, which keeps no file of the gateway's, and how that tool is
  found and started;
* in the metrics, retention over 366 days, the cap on recent requests and the view of requests in
  flight;
* in TRAE's check-in, a state file that cannot be read, the guard against a second handler that
  outlives its login by more than the second its `Shutdown` waits, the quota view of the console,
  and a reward that arrives after its day;
* more than one process on the same files.
