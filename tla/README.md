# A verification project for llama-supervisor

llama-supervisor is a reverse proxy in front of one llama.cpp backend. It
forwards requests and restarts, probes and watches the backend with a handful
of policies that act on the same requests and the same clock. What is hard in
it is not the proxying but the *interplay*: goroutines of requests, a sampling
loop, a ticker, a liveness poll and trigger goroutines that share a few mutexes
and a few deadlines. That interplay is what these modules model.

Paths below are relative to `src/`.

## 1. The system

| Component | Source | State | Operations | Interacts with |
|---|---|---|---|---|
| watchdog policy | `internal/watchdog/watchdog.go` | count of chat completions in flight, owner of sampling and its stop channel, streams, streaks, pause, baseline flag | OnRequestStart/End, probeLoop/Tick, OnStreamStart/Content/End, OnCompletion, trigger | called by ServeHTTP and the hub; fetches `/slots`; runs a command |
| content loop detection | same | run counters per stream | OnStreamContent | judged by the sampling loop, may start a trigger |
| idle tracker | `internal/idle/idle.go` | a deadline, active or not | OnHTTPRequest, ConsumeIdle | restart (ticker), probe (request) |
| restart policy | `internal/restart/restart.go` | a lazy tracker | ConsumeIdle | one second ticker of `proxy.StartBackground` |
| probe policy | `internal/probe/probe.go` | an eager tracker, run counters of a probe | ConsumeIdle, probeBackend | blocks the request that found the window due |
| error guard | `internal/errguard/errguard.go` | time of the last fire | OnBackendError | called by the response pipeline |
| command runner | `internal/command/command.go` | none | RunCommand | every policy, the stats page |
| routing | `internal/proxy/proxy.go`, `cloud.go` | cloud slots | ServeHTTP, Route, acquire/release | all policies, the local context window |
| liveness tracker | `internal/proxy/proxy.go` | up or down | pollHealth, set | routing fallback, stats page |
| response pipeline | `internal/proxy/proxy.go`, `streamerror.go`, `completion.go` | per response: parked error, partial line, published or not | Read/Close of three nested bodies, a watcher goroutine | hub, error guard, client |
| observation hub | `internal/observe/observe.go` | registered consumers | StreamStart/Content/End, Notify | pipeline to watchdog and stats |
| local context window | `internal/localctx/localctx.go` | cached value, its lifetime, back-off | ContextWindow, probe | routing; asks the backend |
| size estimate | `internal/tokenest/tokenest.go` | BPE table | Estimate | routing |
| statistics | `internal/stats/stats.go` | day files, day of the last purge, lock of the control endpoint | record, Days, purge, handleControl | hub, liveness tracker |
| request rewriting | `internal/request`, `internal/reqbody`, `internal/observe` | per request: what is left of its body, and the length declared for it | Authorize, ModifyRequest, injectUsage, rewrite for the cloud | routing, which reads the same body before |
| Anthropic relay | `internal/anthropic` | per stream: converter, terminated or not | relay, convert | ServeHTTP (loopback request) |
| debug dumps, config, main, scripts | | | I/O, parsing, wiring | |

What is hard to test in it (each at its line in `PROJECT.json`, "hazards"):

* *Check and act in different critical sections*: the watchdog looks at its
  streams, the pause and its sample in separate sections; the liveness poll
  compares and sets under two locks.
* *Ownership of a goroutine*: requests end and start while the sampling loop of
  before is still in a fetch or in a command.
* *Deadlines that are checked lazily*: by a ticker and by requests, so that
  something else may happen between the deadline and the look at it.
* *Streams cut anywhere*: runs, lines and errors that straddle reads; a
  connection that breaks in the middle of a line; a client that leaves.
* *Waiting*: for a cloud slot, for the backend, for a command, for a read.
* *Bursts*: many responses report the same fault at once; many requests find
  the context window unknown at once.
* *Files*: a process that dies between two system calls, a page that reads what
  is being written, a completion that is recorded after midnight.
* *One body, many readers*: routing and several rewrites read and reinstall the
  body of a request, each under its own conditions.

## 2. The modules

Every module keeps the source's names. An action is one critical section, or
one step between two blocking points, of the code; everything the code does in
it is in the action, and what it does not touch is UNCHANGED. `PROJECT.json`
"map" gives the lines each definition translates. A definition marked
"Mutant" is a plausible bug of the definition below it and is used by no
specification: each listed property must fail when the mutant takes its place.

**`Watchdog`** (`watchdog.go`). `req` is where a handler is (sent, response
registered as plain or stream, hardRepeat crossed but not looked at yet,
closed); `probing`, `stopProbe`, `stop` and `pc` are the ownership of sampling;
`prev`, `wedges`, `skipNext`, `paused`, `draftWedges` are the fields of the
policy. The mutex is not modelled as a variable: each `Lock` ... `Unlock` is an
action, so that all interleavings *between* sections are there. `stop[l]` has a
state `detached` because `OnRequestEnd` closes the channel after it unlocked.
`pc[l]` splits a tick at every unlock: fetch, judgement, trigger, command, back
in the loop. A stop channel and a timer that are both ready are two enabled
actions (`StopSeen`, `TimerFires`), as in Go's select. *Abstractions*: time is
the flag `paused` and the action `PauseExpires`; a sample of `/slots` is
"generating" and a sum of tokens; a low draft rate is a choice; content marks a
stream or crosses hardRepeat by choice, and `ContentLoop` has the algorithm.

**`MCWatchdog`** adds history variables to `Watchdog` that its properties read
and no action depends on: how the latest pause began, how many fetches in a row
ended with an over-speed sample (`streak`, an independent count beside the
code's `wedges`), and whether two loops interleaved the two critical sections in
which a sample is stored and then counted (`mixed`).

**`ContentLoop`** (`OnStreamContent`, `countRun`). One stream, rune by rune, cut
into pieces arbitrarily. `text` remembers everything, and the properties compare
the incremental counters with definitions over the whole text.

**`ProbeStream`** (`probeBackendStreaming`, `repeatChecker`). The two fields of
an answer in events; the same idea, for the verdict.

**`IdlePolicies`** (`idle.go`, `restart.go`, the idle part of `probe.go`,
`StartBackground`, the first half of ServeHTTP, `waitBackendReady`). A deadline
is the time left until it. The request handlers, the ticker, the commands and
the backend's readiness interleave.

**`ErrGuard`** (`errguard.go`, `config.EffectiveCooldown`, `RunCommand` on
shutdown). Reporters match an error first and enter the critical section later.

**`CloudRouting`** (ServeHTTP up to forwarding, `cloud.go` Route/acquire/release,
`backendHealth`, `pollHealth`, `handleControl`). The size estimate and the probe
are choices here; the liveness tracker and its two writers are in full.

**`StreamPipeline`** (`wrapResponse`, `ctxBody` with its watcher, `guardBody`,
`completionTap`, the copy loop of `httputil.ReverseProxy`). A response is a
sequence of tokens: the payload of a line and the newline behind it. A read
returns any number of tokens, with or without the end or the error that
follows. The blank line with which the supervisor's error event starts, and a
payload that was cut, are tokens too, because "the event is not inside a line" is
one of the properties. A payload in which the backend died may be anything that
gjson still makes of it, since the tap reads JSON leniently: all of it (the payload
without its newline, then a reset) or nothing (`cut`). `kind` says where the response comes from and how it is
announced: a stream of the local or of the cloud backend, a stream whose
Content-Type does not say so, or a JSON body. The kind decides who guards,
registers and scans it. A tap that does not scan collects the body and parses it
at the end (`PublishFromBody`). Its abstract specification is **`Delivery`**: the
text of the backend as far as the client has it, the mark of an interruption, and
how the response ended, without reads, taps, watcher or parked errors. The
refinement mapping is `Response` in `StreamPipeline`; `outcome` is computed from
`copy`, `failed` and `gone`.

**`AnthropicRelay`** (`anthropic/stream.go`, `anthropic.go`) extends
`StreamPipeline` with the two readers a local stream can have: a client of its
own, or the handler of `/v1/messages`, which asks the supervisor itself for the
stream, scans it line by line and turns it into events for a client of its own.
All steps of the pipeline are steps of the composition; leaving takes two steps
here, since the handler's client leaves first and the pipeline notices when the
handler's request is cancelled. The conversion of a chunk is a library, modelled
by what the handler relies on, and `Parsed` is `json.Unmarshal`, which unlike gjson
refuses a payload without its end. `behind` is what net/http has not flushed.

**`LocalCtx`** (`localctx.go`). Callers of `ContextWindow` look, queue for
`fetchMu`, probe one endpoint and then the other, store and read, each a critical
section or a request of its own; `gone` is the context of the client on which
the probe runs. Deadlines are times left. `calm` is history: how long the
backend is as it is.

**`DayStats`** (`stats.go`: `record`, `purge`, `Days`, `New`) is the detailed
specification of **`Ledger`**, a book that adds one completion to one day or drops
days outside the window. A file is the number of completions it accounts;
`record` is split at every system call, so that a crash, a failing write and the
page's reader fall between any two of them. A purge may fail to read the directory
or to remove files, which is only logged: `left` remembers what it left, and
`lastPurge` is set all the same, as in the code. The local clock has days and hours
and an offset to UTC, because `purge` reads file names as UTC midnight and
compares them with a local instant. The refinement mapping `Book` reads a
damaged file as a doubtful day.

**`RequestBody`** (`reqbody.go`, `virtualkey.go`, `prefixcache.go`,
`injectUsage`, the cloud's rewrites, in the order of `ReverseProxy.Rewrite`). What
reads and reinstalls the body of one request, which length is declared for it,
and what the transport makes of the two, for every combination of features and
every kind of request. It has no constants: the run is exhaustive.

**`MCUnits`** checks four modules that share no state in one run: the initial
state picks `ErrGuard`, `ContentLoop`, `ProbeStream` or `RequestBody`.

How they fit: `CloudRouting` is the whole handler, `IdlePolicies` refines its
steps refresh, probe and waitReady, and `LocalCtx` the question that its size
decision asks; `RequestBody` is what happens to the body along the way, with the
decision as a choice. The count `active` of both `CloudRouting` and `Watchdog` is
the same field, and the second half of `CountersExact` is the assumption under
which `Watchdog`'s requests are exactly the local chat completions.
`StreamPipeline` makes the calls (`StreamStart`, content, one observation,
`StreamEnd`) that `Watchdog` takes as `Response`, the observations that `DayStats`
takes as `OnCompletion`, and the calls `OnBackendError` that `ErrGuard` takes as
`Matches`.

## 3. What TLC checks

| Run | Question | Result |
|---|---|---|
| `watchdog_safety` | With requests that come and go, overlapping loops, over-speed, low draft, hardRepeat and failing fetches interleaved: does exactly one live loop own sampling while requests are in flight (`OwnerInv`), is the count exact and every request covered by a loop nobody stopped (`SamplingCovered`), does the owner stay (`OwnerStays`); does a judgement start only after `times` consecutive over-speed samples, whatever triggers, pauses and hand-overs reset or overlap the count (`StreakIsConsecutive`), does a pause that began with no fetch under way end with a baseline (`BaselineAfterCleanPause`), is there one low-draft trigger per pause (`DraftOutsidePause`)? | holds |
| `watchdog_live` | Does a loop that lost ownership end (`OrphanRetires`), does sampling go on (`SamplingContinues`)? | holds |
| `watchdog_hardpause` | Is a hardRepeat crossing "skipped while the watchdog is paused", at least in a pause whose command is already running? | **violated**: check and trigger are two sections; two crossings, even of one stream, pass the check together, and the second trigger runs the command again |
| `units` | Do the incremental counters agree with the text (`MarkIsExact`) and is there exactly one alarm for each piece that brings a run to hardRepeat (`OneAlarmPerRun`); does the probe's verdict find exactly the loops, wherever events cut them (`VerdictIsExact`); at most one fire per cooldown (`RateBound`), and does an error fire that comes a cooldown after a suppressed one (`PersistentFaultActs`); does a body with text arrive whole or not at all (`BodyWhole`), with exactly the edits and keys that are due (`RewritesAreDue`)? | holds |
| `idle` | No probe within an interval of another (`ProbesSpaced`), no second restart for the same activity (`RestartNeedsRequest`), no activity without timing (`ActivityIsTimed`); is idleness acted on (`IdleRestartHappens`), does waiting end (`WaitingEnds`)? | holds |
| `cloud` | Slots neither leak nor exceed the cap, and the watchdog counts the local completions (`CountersExact`); does a waiter get its turn although others come and go (`SlotWaitEnds`), does the liveness state settle (`HealthSettles`)? | holds |
| `cloud_anypath` | Do non-chat paths stay local? | **violated**: the fallback looks at neither path nor method |
| `responses` | Does the client see what the backend sent (`ClientStreamFaithful`) and learn of an interruption (`InterruptionIsTold`); are usage (`UsageCounted`) and content and errors (`ConsumersFed`) accounted, for every kind of response; is a stream released when its client leaves (`GoneClientReleases`)? Does a client of `/v1/messages` get a terminal event (`MessageTerminated`) that the backend earned, with all of the content before it (`StopIsEarned`), and does the handler return and let go of its stream (`MessageEnds`)? Is every step of the pipeline one that a delivery may do (`DeliversResponse`)? | holds |
| `stream_timings` | Is a usage event behind draft timings still counted? | **violated**: the first data publishes |
| `relay_flush` | Does an Anthropic event reach the client while the backend is silent? | **violated**: neither writer can flush |
| `localctx` | Is the cache right within one probe and one lifetime or back-off (`CacheSettles`), is a stale value better than none (`StaleBeatsNothing`), does every call return (`CallsReturn`)? | holds |
| `daystats` | Do the day files implement the book (`BookKept`), are old files gone unless a purge of this day failed on them (`OldFilesGo`), does the page show all there was (`PageShowsAll`) and fail only for a purge (`PageFailsOnlyAtPurge`)? | holds |

### Bounds, and why they are enough

* *Watchdog*: two requests, two loops. Two requests give "first", "last" and
  "one in between"; two loops give one orphan beside one owner, with dead loops
  reused, so a run starts arbitrarily many loops. A request that would need a
  third live loop is not started; the proofs below cover any number of both.
  `Times` and `DraftTimes` are 2 in `watchdog_safety`, so that a streak can be
  begun, broken and completed by two loops, and 1 in `watchdog_live`.
  `MaxDecoded = 1` and `MaxDelta = 0` make any growth over-speed. One trigger
  goroutine runs beside the loops' own triggers and commands, so that two
  monitors can be between decision and pause at once; a trigger that would need
  a second goroutine waits for it (`watchdog_hardpause` has two).
  `watchdog_safety` uses symmetry; it has no liveness property.
  `watchdog_live` has commands that may hang and a single request, which ends
  and is sent again while its old loop is still in a tick. One request is enough
  there because `OwnerStays`, which is proved for any number, says that requests
  that join or leave others do not touch the owner.
* *ContentLoop*: `repeatLimit` 2 and `hardRepeat` 3 with texts of 7 runes, so that
  a text holds two runs that cross and something between them; pieces of up to 4
  runes, so that a piece can hold a whole run, the end of one and the beginning of
  the next, or a part of one. *ProbeStream*: events of up to 2 runes, 4 per field.
  Two runes count, one does not, and one is wide.
* *ErrGuard*: `MaxTime` and `MaxFired` bound the clock and the type of the
  counter; three ticks of cooldown within eight ticks give three windows.
* *RequestBody* has no bound; `Arrive` enumerates every request, and a request
  can follow another.
* Deadlock checking is off in `units`, where the clock of `ErrGuard` stops at
  `MaxTime` and a text at its length, and in `daystats`, where the calendar ends.
* *IdlePolicies*: intervals of 3 and 2 ticks, deliberately unequal; three
  requests, so that two can race while one holds the probe. Ages saturate at the
  interval they are compared with.
* *CloudRouting*: one slot and two requests is the smallest contention; a
  request may return and come again without end.
* *StreamPipeline, AnthropicRelay*: `MaxEvents = 4` events are content, usage and
  an error on either side of it; `NextResponse` starts over, since a response
  shares nothing with the next. The relay reads a local stream: to it one from
  the cloud looks the same. `Guard` is on; without it the scan stops early, which
  is what `stream_timings` is about.
* *LocalCtx*: two callers are one in a probe and one behind it; a back-off of
  1 to 4 ticks can be doubled twice; two windows distinguish a value of an earlier
  start-up; a backend that tells the window by the second endpoint only makes
  every probe try both.
* *DayStats*: three days of two hours with one day kept, so that a day can be in
  the window, at its edge and out of it; two recorders, one of them belated; one
  damaged file, failing read or failing purge; zones at and east of UTC (for those west of it
  see section 5). `MaxPerDay = 2` bounds a file, `MaxFaults = 1` the
  damages and failures.

### Fairness, and why the code justifies it

Only what the Go runtime and the code's own timeouts guarantee: a runnable
goroutine runs, a timer fires, a fetch, dial, probe or tokenizer call ends
(5 s, the interval, `probe.timeout`), time passes. Nothing is assumed about
clients, about what the backend answers or whether a stream ends, or about how
long a command takes, with two exceptions that are named where they are made:
`BackendFairness` in `IdlePolicies` (a command ends, and a backend that nobody
restarts comes up; without it waiting for a backend is rightly endless) and the
antecedents inside `SlotWaitEnds` (no one request stays in the cloud for good with
its client there; that others come and go without end is allowed), `WaitingEnds` (the policies do not restart the backend for
ever), `HealthSettles` (the port settles) and `MessageEnds` (the backend ended).
Strong fairness occurs twice, where several wait for one: for `Acquire`, since
senders on a Go channel queue first in, first out (with weak fairness in its place
TLC finds the waiter that starves while others take the slot in turn), and for `Enter` of `LocalCtx`,
since a Go mutex hands over to a waiter that starves. `RelayFairness` schedules
the copy loop, the watcher, the handler and the cancelled request separately: the
handler may be slow without stopping the pipeline.

## 4. What TLAPS proves

The theorems hold for all values of the constants that the named ASSUMEs admit
(finite sets of requests, callers or recorders, positive limits, Booleans).

| Theorem | States |
|---|---|
| `Watchdog_proofs!TypeCorrect`, `CountCorrect` | `TypeOK`, `CountInv` |
| `OwnershipCorrect`, `CoverageCorrect`, `OwnershipStays` | `OwnerInv`, `SamplingCovered`, `OwnerStays` |
| `DraftTriggersSpaced` | `DraftOutsidePause` |
| `StreaksConsecutive`, `BaselineFirst` | `StreakIsConsecutive`, `BaselineAfterCleanPause`, of the specification with history |
| `MCUnits_proofs!RateBounded`, `FaultsAnswered` | `RateBound`, `PersistentFaultActs` |
| `MarksExact`, `AlarmsPerRun` | `MarkIsExact`, `OneAlarmPerRun`, for a text of any length and every cut of it |
| `VerdictsExact` | `VerdictIsExact`, for an answer of any length and every cut of it |
| `BodiesArriveWhole`, `RewritesApplied` | `BodyWhole`, `RewritesAreDue` |
| `UnitsTypes` | `UnitsTypeOK` |
| `IdlePolicies_proofs!WindowCorrect`, `ProbesAreSpaced`, `ActivityCorrect`, `RestartsEarned` | `WindowCoversProbe`, `ProbesSpaced`, `ActivityIsTimed`, `RestartNeedsRequest` |
| `CloudRouting_proofs!CountersCorrect`, `ControlsCorrect` | `TypeOK` and `CountersExact`; `ControlsSerial` |
| `LocalCtx_proofs!TypeCorrect`, `SerialCorrect`, `BackoffCorrect`, `Settles`, `StaleServes` | `TypeOK`, `ProbesSerial`, `BackoffInv`, `CacheSettles`, `StaleBeatsNothing` |
| `DayStats_proofs!KeepsTheBook` | `BookKept`, that `DayStats` implements `Ledger`, when the zone is at or east of UTC |
| `OldFilesGone`, `PageComplete`, `PageFailures` | `OldFilesGo`, `PageShowsAll`, `PageFailsOnlyAtPurge` |
| `AnthropicRelay_proofs!StreamFaithful`, `InterruptionsTold` | `ClientStreamFaithful`, `InterruptionIsTold` of the pipeline by itself |
| `RelayFaithful`, `RelayTold`, `MessagesTerminated` | both in the composition, and `MessageTerminated` |
| `UsageAccounted` | `UsageCounted`, when the backend sends no timings before the usage |
| `ConsumersHear` | `ConsumersFed`, with the error guard or without such timings |
| `NeverTwice` | that no completion is published twice, with early timings or without; it has no run, TLC checked it once for both values of `EarlyTimings` |
| `ResponsesDelivered` | `DeliversResponse`, that `StreamPipeline` implements `Delivery`, with every reader of it |
| `StopsEarned` | `StopIsEarned` |
| `RelayTypesCorrect` | `RelayTypeOK`, the types of the pipeline and of the handler |

`CountInv`, the types, `WindowCoversProbe`, `ControlsSerial`, `ProbesSerial` and
`BackoffInv` are proved and have no run of their own: they are the steps that the
proofs of the deeper properties rest on.

Two theorems have a hypothesis on a switch, and the code needs it. With timings
before the usage the tap publishes the timings and never looks at the usage, which
the run `stream_timings` shows; without the error guard it also stops to scan, so
that content behind the timings is lost to the watchdog. No other theorem but
`KeepsTheBook` (the zone) has one beyond the ASSUMEs of the modules.

The arguments:

* *Ownership*. `OwnerInv` is inductive together with the types and the count.
  It needs `CountInv` because the guards of the code look at the number, and
  "no request in flight" must follow from `active = 0`; `CountInv` in turn is the
  cardinality of a set that grows or shrinks by one. It also shows that the
  branch `active == 0` of probeLoop cannot be reached by the owner.
* *Draft triggers* need the streak to be below its limit outside the critical
  section, which is part of `TypeOK`: this is why the type is proved first.
* *Over-speed and baseline*. The history variables of `MCWatchdog` observe: a step
  of `SpecH` is a step of `Spec`, so that every theorem about `Spec` is one about
  `SpecH` (`HistoryObserves`). For the streak the code's count has to be related to
  the independent one (`StreakInv`): `wedges` does not exceed `streak` while no loop
  is between storing a sample and counting it, and is below it while one has an
  over-speed sample to count; after a slow one the reset is still to come. Two loops
  between their two sections break that (section 5), which is what `mixed` leaves
  out until the count is at 0 and nobody is between.
  `BaselineAfterCleanPause` is not: what has to be known is that a clean pause owes
  its baseline until a sample pays for it, and that while it lasts no loop has a
  fetch under way that could pay too early (`BaselineOwed`); every way into a pause
  asks for a baseline (`PauseAsksBaseline`).
* *Rate*. `(fired - 1) * Cooldown <= now` is not inductive: the invariant
  strengthens it to the time of the last fire, `(fired - 1) * Cooldown <=
  lastFire <= now`. That a lasting fault is acted on needs that every error
  suppressed since the last fire lies in the window of that fire (`WindowHolds`):
  were the window renewed by what it suppresses, the first of them would fall out.
* *Loops over runes*. The property looks at the text, the code at counters. The
  invariant of the loop (`Describes`, `Checked`) says what `run`, `clean`, the last
  rune and the mark mean for the first k runes: how far back the current run
  reaches, how long nothing repeated, and that the mark is on exactly if a run of
  the limit has not been answered since. It holds after each rune, hence after a
  piece (`Induction`), hence for the concatenation of all pieces: where the pieces
  were cut does not matter. The alarms are the number of pieces with a crossing of
  the text so far (`AlarmsFit`): a piece more changes neither the crossings of the
  text before it nor the pieces they belong to, and adds its own end exactly if the
  loop crossed in it (`AlarmStep`). A probe's loop is stated from its
  first rune and found at its last one (`LoopReaches`).
* *Body*. Between two rewrites the reader holds the client's text with just the
  edits that are due and were considered so far, under a length that is its own
  (`BodyOnItsWay`), and the keys are those of the step (`KeysOnTheirWay`): each
  rewrite re-establishes both although it reads and reinstalls the body by itself.
* *Probes*. Time left and age of the last probe move in opposite directions,
  so that their sum covers the interval; a window that is due then means an old
  enough probe.
* *Slots*. A slot is the cardinality of the requests in the cloud; the step into
  and out of the cloud changes both by one, and every other way out of `acquire`
  neither.
* *Cache*. `CacheSettles` says nothing before the backend was calm for long. Its
  invariant bounds, at every moment, how old a wrong value or a back-off can be:
  what is stored or waited for and what the backend says may only differ while
  the time left of it and `calm` together are within one probe and one lifetime
  or back-off (`AgeInv`). It needs that one probe runs at a time.
* *Book*. Every step of `DayStats` is a step of `Ledger` or leaves it alone. What
  has to be known is that the document a recorder is about to write is the file
  plus one as long as it holds the lock, whatever purges, damages and crashes
  happen meanwhile (`DocInv`), and that an expired day is outside the window, which
  is where the zone comes in.
* *Old files*. A day outside the window of the last purge is gone or among what that
  purge failed to remove, or a belated recorder wrote it after that purge (`OldInv`).
  Then the date of that recorder is not the day of `lastPurge`, and it purges before
  it returns.
* *Page*. What was read is at least what was there, since files only grow until
  they expire, and what expired stays so.
* *Stream*. At any moment the client has exactly what was read, or all of a
  broken stream and the error event (`Clean`, `Told`). A parked error is only on
  its way while the copy is clean and complete (`Failures`), and a copy that ends
  with its client there has been told or has everything (`Endings`). The lemmas
  `CopiedGrows`, `CopiedReads` are about sequences only.
* *Delivery*. The same invariant shows that each step of the pipeline is a step of
  `Delivery` or leaves it alone. A read extends what the client has by a part of what
  the backend sent (`ReadIsMore`); the parked error comes out of `Clean` with
  everything read, so that the mark is behind all of the text, and out of `Told` it
  cannot come again; and the copy ends only where the outcome is earned.
* *Terminal event*. A handler may return in silence only when the stream broke.
  Then its pipeline is in `Told`, the error event is in front of the scanner, and
  the scanner cannot have passed it: the event brings its own newline, so that no
  line holds it behind the first token (`LineStopsBefore`), and a line that begins
  with it ends the handler with an error event. The invariant is that a reading
  handler has scanned at most two tokens more than the pipeline read. This is also why
  the blank line in front of the event (streamerror.go) matters.
* *Accounting*. The tap is compared with the text the client has got: the
  consumers know the payloads of all lines but the open one, which the tap holds
  (`Fed`). The scan of a piece keeps that token by token, wherever the piece ends
  (`FeedStep`, `PieceFed`); the last line without a newline is made up for at EOF.
  What is counted is compared with what was sent by lemmas about counting
  (`CountNext`, `CountMore`), and that a line holds one payload, that nothing but an
  error or the end follows the usage and that a JSON body is one object is the
  invariant of the backend's text (`TextFits`). `TapInv` is all of it.
* *Stop*. The message under way has a delta for each content scanned and no more
  events than content and usage (`Balanced`; a payload without its end is the last
  thing scanned of a stream that broke, `PastBreak`), a stop only if the backend said so,
  and when the handler returned with one it has all of the content (`Whole`). This
  rests on `Told` and `Clean` too: the text that is scanned is the text sent.

Several of these are about loops over data of any length. The induction theorems
of the library cannot be instantiated, but the minimum of a set of numbers needs no
operator: `RecursionTheorems` proves from it induction over 0..n for a set of places
(`Induction`) and that a function defined by recursion exists (`RecursionExists`).
The loops of the modules (`FeedRunes`, `CheckRunes`, `Scanned`) are written as such
functions for this reason. TLC has also checked the invariants of the proofs
(`BodyInv`, `ContentInv`, `ProbeInv`, `BaselineOwed`, `TapInv`, `MessageFits`) on
the instances of the runs; they are not part of the runs because the properties
follow from them.

Only model-checked: the liveness properties (`OrphanRetires`,
`SamplingContinues`, `IdleRestartHappens`, `WaitingEnds`, `SlotWaitEnds`,
`HealthSettles`, `GoneClientReleases`, `MessageEnds`, `CallsReturn`), because this
prover does no reasoning about fairness; and the four that the code violates, which
a run refutes. Every invariant and every action property of a passing run is a
theorem.

## 5. Where the code and its documents differ

Four are runs (section 3). The following were met while modelling and are not
runs; nothing in the modules assumes the documented behaviour:

* After a pause the first sample "only rebuilds the baseline"
  (`README.md:90`, `internal/watchdog/watchdog.go:152`), but a fetch that was under
  way when the pause began uses up the request for it (273).
  `BaselineAfterCleanPause` is about the other pauses.
* A fetch of `/slots` can start after the last request ended: timer and closed
  channel race in the select (`internal/watchdog/watchdog.go:215` against 139-140).
  `OrphanRetires` bounds it to one tick.
* A judgement is about the streams of its own critical section; the sample it is
  about was stored before, and the trigger comes after: completions that started or
  ended in between are judged for a sample of others, or restarted without a
  judgement (`internal/watchdog/watchdog.go:336`, 299, 311). No document says more
  than "in-flight", and no property does.
* "Consecutive" over-speed samples (`internal/watchdog/watchdog.go:297`) are counted a
  critical section after they are stored. An orphan loop and the owner that both stand
  between the two sections (a few instructions) count their samples in either order,
  and a reset may fall before an older sample is counted. `StreakIsConsecutive`
  leaves these out (`mixed`).
* In `watchdog_hardpause` one stream is enough: two of its runs cross hardRepeat, both
  crossings are checked before either goroutine has set the pause, the first trigger
  starts pause and command, and the second renews the pause and runs the command
  while the first one runs.
* With virtual keys off the `api_key` in the query of a client goes along to the cloud:
  only `Authorization` is replaced (`internal/proxy/cloud.go:211-213`), and only the
  virtual key policy drops the query key. The comment (208-210) and `README.md:186`
  say that client keys, virtual or real, never reach the cloud. `RewritesAreDue` states
  what the code does.
* A purge that fails on the directory or on a file is not tried again on the same day,
  since `lastPurge` is set before (`internal/stats/stats.go:297` against 299-302 and
  314-315): files outside the window stay until the next day or restart
  (`README.md:233` has them dropped). `OldFilesGo` admits exactly these.
* A payload in which the backend died is parsed leniently by the tap
  (`internal/proxy/completion.go:205-218`, 281-361): content of it may be judged, an
  error in it reported and a usage in it published although the client cannot read the
  line; a number that was cut is published as it is. Counts of tokens are data here.
* `trigger` resets the over-speed streak, not the draft streak
  (`internal/watchdog/watchdog.go:316` against 312-313, "resets the streaks").
* `prev` outlives its loop: the first sample of a new loop is compared with one
  of an earlier burst (`internal/watchdog/watchdog.go:280` against `README.md:90`).
* Early success of a probe counts bytes, not characters
  (`internal/probe/probe.go:244` against 27 and 77).
* Without an error guard the scan of a stream stops at the first data, so content
  behind draft timings is not judged for loops either
  (`internal/proxy/completion.go:187`; the run `stream_timings` shows the usage).
* In a stream that is not announced as one an error is only looked for in the
  first object of the body, so errguard does not hear of one that comes later
  (`PublishFromBody`).
* A cooldown of 0 is the default, not "disabled" (`internal/config/config.go:131`
  against `README.md:138`, `config.yaml.example:104`).
* A request between the restart deadline and the next tick of the ticker does not
  extend the window; a request longer than the interval does not count as
  activity; a second request does not wait for the probe's restart
  (`internal/idle/idle.go:53`, `internal/proxy/proxy.go:426` and 371 against
  `README.md:78` and 5).
* A request that turns to the cloud at the second decision has already refreshed
  the idle timers (`internal/proxy/proxy.go:378` against `README.md:174`).
* A failing probe of the context window that is due to its own client leaving
  counts as a failure for everybody (`internal/localctx/localctx.go:99`), and
  callers that queue behind one probe again and double the back-off each time
  (96). `CacheSettles` says how long this can matter.
* West of UTC a day file is dropped one day early: its name is read as midnight
  UTC and compared with a local instant (`internal/stats/stats.go:308` against
  `README.md:233` and 241). `BookKept` fails there, and its theorem has the zone as
  a hypothesis.
* "At most once a day" (`internal/stats/stats.go:139`): a completion that took its
  date before midnight and the lock after another one purges again, and so does
  the next of the new day. `OldFilesGo` shows that this is also what removes a file
  it wrote again.
* The date of a completion is taken before the lock and its hour after it
  (`internal/stats/stats.go:141`, 160): around midnight an hour of the new day is
  accounted to the old one. Hours are not in the model.
* A day file that cannot be read for another reason than not being there is
  rebuilt from one completion on, silently for the page (`MergeBlind`); a file is
  renamed without fsync, so a power loss may leave an empty one (`Damage`), and one
  damaged file fails all of the page (`ReadDay`).
* A body of blanks is read and closed and not reinstalled
  (`internal/request/prefixcache.go:56` against 60-61), and a POST of a chat
  completion with an empty body has no body to read once it is cloned, which
  panics in `io.ReadAll` (`Missing`; the server recovers it per connection).
  `BodyWhole` is about bodies with text.
* The handler of `/v1/messages` may send an error event after `message_stop`, when
  an error follows the usage event (`MessageTerminated` only says that nothing
  follows an error). When the scanner fails it returns without a terminal event
  (`internal/anthropic/stream.go:76` against 82-83): for a stream that broke the
  theorem shows that the error event came before, but a line of more than 8 MB (40),
  which is not in the model, leaves the client without one.

## 6. What is not modelled

The HTTP and JSON layer, regular expressions, the tokenizer
(`internal/tokenest`) and the conversion of messages between protocols (a library)
are data; where they decide something the modules make a choice. Debug dumps,
logging, configuration (other than the cooldown), the wiring in `main.go`, the HTML
of the stats page and the build scripts change no state that the policies share.
In `StreamPipeline` a compressed body is missing (decoded, it is parsed as the
others are) and so is the dump of a response; in the Anthropic relay the plain,
not streamed, request (`serveSingle`), which is one call with one answer. `IdlePolicies` leaves out the HTTP exchange of a probe, which only
contributes a verdict. The command runner is part of the policies that run
commands; that commands of two policies overlap is listed as a hazard.

## 7. Plan

Done in this order: `Watchdog` first, because it has the most concurrency, then
its detection algorithms, the idle policies, the error guard, routing and the
pipeline that connects them; then the context window, the statistics with their
abstract book, the request body, the kinds of responses and the Anthropic relay
on top; and the proofs, those about loops over texts last. Left:

1. A composed module of the policies' commands (watchdog, errguard, probe,
   restart and the stats page), for what happens when they overlap.
2. Abstract specifications for `Watchdog` (a switch that is on while requests are
   in flight) and for `CloudRouting` (a counting semaphore), with refinement
   checked and proved; today their invariants say the same.
3. `CloudRouting` with the cache of `LocalCtx` in place of a choice.
