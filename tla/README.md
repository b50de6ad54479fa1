# ComputeConnect, in TLA+

ComputeConnect is a gateway in front of inference engines (llama.cpp servers and a simulated cloud).
A call names a model, or only what it needs, and a privacy tier; the gateway picks a healthy provider
that the tier permits, relays the engine's stream to the caller, keeps a record of the run that can be
queried and cancelled, and publishes lifecycle and health events. This directory holds TLA+ models of
that program, the TLC configurations that check them, and proofs checked by TLAPS.

Source paths below are relative to the repository's package (`src/computeconnect/...`).

To repeat the checks, in this directory: `tlc -workers 2 -config Serve.cfg MCServing`, and likewise for
the other rows of the table of runs; `tlapm RunsProofs.tla`, and the same of the other modules named `...Proofs`.

## 1. The system and its parts

Everything of one server runs in one process on one asyncio event loop: code between two `await`s (or
between two `yield`s of a response body) is atomic, and everything may happen at an `await`. That decides
where one action ends and the next begins in every module.

| Part | State | Operations | Hard behaviour | What makes it correct |
|---|---|---|---|---|
| Run registry (`runs.py`, `RunRegistry`) | `_runs`, an ordered map of run objects; the history limit | `create`, `finish`, `cancel`, `get`, `active_count`, `_trim` | eviction while runs are live; lookups in memory, then in the journal; handlers that abandon a run | a live run can be cancelled; a client is told one consistent story; the load is what is served, and what was abandoned, once |
| Run journal (`runs.py`, `RunJournal`) | a SQLite table, the only thing that outlives the process; one connection per process | `record`, `reconcile`, `load` | crash between two writes; a write that fails; a second process on the same file | after a restart nothing is left "running"; rows only move forward; how a run ended wins |
| Upstream stream (`app.py`, `UpstreamStream`) | the engine's generator, a pump task, a queue of one item | `start`, `_pump`, `next`, `aclose` | engine, pump, handler and canceller interleave | order, no loss, bounded read-ahead, the upstream connection is closed |
| Serving (`app.py`, `_generate_stream`, `_openai_sse`, `v1_chat_completions`) | a suspended handler with its local status; the run | relay, cancel, disconnect, error, closing document, placed event | cancellation and disconnection at every await; three different endings | the run is settled once, truthfully, after the upstream is gone; the event log, the record and the answer agree |
| Engines (`engines.py`) | an HTTP connection; the rest of a chunk while its text is yielded | `stream_chat`, `health`, `list_models` | silence, errors, a chunk that is only half looked at when the run is cancelled | as the upstream stream |
| Provider registry (`providers.py`) | one cache entry per provider | `snapshot`, `_refresh`, `_emit_health_transition`, `invalidate`, `known_but_unhealthy` | several requests probe the same provider; probes of any length | the registry does not go back in time; an entry too old for placement is the price of a wait; events are edge-triggered |
| Privacy (`privacy.py`) | none | `resolve_privacy_tier`, `resolve_privacy_precedence` | garbage, blanks, ties, two signals | the strictest supplied signal rules; default deny |
| Placement (`placement.py`) | none | `filter_candidates`, `select_placement`, `estimate` | six rejection stages, model choice, a ranking by five keys | local before cloud; preferences honoured; a rejection shows nothing of a forbidden cloud |
| Placing routes (`app.py`, `route_estimate`, `generate`, `v1_chat_completions`) | calls in progress | resolve, snapshot, place, explain a refusal | the cache and the load move under a snapshot, and between two of them | the privacy of the call reaches every decision made for it; work spreads over equal providers |
| Read-only routes (`/health`, `/models`, `/models/loaded`, `/v1/models`) | none | render a snapshot | entries of different times on one page | what a page promises, placement keeps, but for the age of what it shows |
| Event bus publisher (`buspublish.py`) | fire-and-forget tasks | `publish`, `_send` | loss and overtaking | an event says what happened, once |
| Authentication and bind guard (`app.py`, `cli.py`) | a token | a check per request, two checks at start | each check has its own idea of an empty token | no open surface on a reachable interface |
| Configuration, command line (`config.py`, `cli.py`) | none after start | flag, environment and file to one `AppConfig` | precedence; the command line decides before it reads the file | what the command line passes starts; no cloud unasked; fresh entries are not stale |

How they interact: a placing route resolves the privacy of the call, takes a snapshot from the provider
registry (which may probe engines, and asks the run registry for the load), hands it to placement, and
creates a run. The serving code then owns the run: it starts an upstream stream, relays, and calls
`finish`, after which the placed event is emitted. `POST /runs/{id}/cancel` reaches a serving handler
only through the run's `cancel_event`. The run registry writes its journal inside `create` and `finish`.

`PROJECT.json` lists every part with its status, and every hazard found with the line at which it bites.

## 2. Modules

| Module | Models | Built on |
|---|---|---|
| `RunLedger` | what the registry promises to holders of a run id (abstract) | - |
| `Runs` | run registry, journal, crash, restart | implements `RunLedger` |
| `RunsProofs` | theorems on `Runs` | `Runs` |
| `SharedJournal` | two processes over one journal, and SQLite's connections | two instances of `Runs` |
| `SharedJournalProofs` | theorems on `SharedJournal` | `SharedJournal` |
| `Relay` | what serving a run promises (abstract) | - |
| `UpstreamStream` | engine, pump, queue; operators for the handler's side | - |
| `Serving` | one run on one of three surfaces, canceller, client | `UpstreamStream`, implements `Relay` |
| `ServingProofs` | theorems on `Serving` | `Serving` |
| `ProviderRegistry` | cache, concurrent snapshots and probes, health events, time | - |
| `ProviderRegistryProofs` | theorems on `ProviderRegistry` | `ProviderRegistry` |
| `Privacy`, `Placement` | the pure algorithms | - |
| `PlacementProofs` | theorems on `Placement` | `Placement` |
| `Routing` | a tier-bearing call with the cache moving under it | `Privacy`, `Placement` |
| `Catalogue` | the read-only pages beside a call | `Routing` |
| `RoutingProofs` | theorems on `Privacy`, `Routing` and `Catalogue` | `Catalogue`, `PlacementProofs` |
| `EventBus` | the publisher's tasks | - |
| `Gateway` | two calls at once, the load of each other's runs, one bus | two instances of `Routing`, `EventBus` |
| `GatewayProofs` | theorems on `Gateway` | `Gateway`, two instances of `RoutingProofs` |
| `Startup` | flags, environment, file, the guards, the middleware | - |
| `StartupProofs` | theorems on `Startup` | `Startup` |
| `MCRuns`, `MCServing`, `MCProviderRegistry`, `MCRouting`, `MCGateway`, `MCStartup` | symmetry, chunks, fleets, inventories, calls and files for TLC | |

Definitions whose comment begins with "Mutant" are wrong versions of the definition after them. No
specification uses them: replacing the right one by the wrong one must break the property that
`PROJECT.json` pairs it with, which shows that the property can fail.

### Runs

`run` holds the `Run` objects of this process, `memory` the keys of `_runs`, `born` the insertion order,
`held` the runs that a handler got from `create` and has not abandoned, `journal` the state column of each row. `up` is the
process. Two variables are history: `seen`, what `GET /runs/{id}` last said, and `abandoned`, the unfinished runs of
this process that no handler is left to finish. One action per operation:
`Create` (insert, then either `Records`, the row and the trimming, or `NotRecorded`: the journal raises after
the insertion, so the object stays in `_runs` and nobody serves it), `Finish` (the object first, then the journal, which may fail),
`Abandon` (a streaming handler that is left at its first frame, before the `try` whose `finally` finishes the run:
finding 1 below), `Cancel`, `Get`, `Crash`, `Restart` (the constructor, with reconciliation). The registry is synchronous,
so each is one step; a crash inside one leaves the journal before or after its commit, like a crash
beside it.

`RunLedger` has one variable, the status of each id. The mapping is what `get` would answer, or, while
the process is down, what the journal holds. It holds only of a journal that does not fail: with one
that fails, memory and journal part and a client can be told "succeeded" and later "interrupted".

### SharedJournal

Two instances of `Runs`, `A` and `B`, share `journal` and `born` and keep the rest to themselves, as the
old and the new process of a rolling restart do. A start is two steps, the SELECT of `reconcile` (`Scan`) and
its UPDATE (`Reconcile`), which other commits can come between; the UPDATE looks at the state again.
`conn` says what SQLite (external) makes of a connection. `record` commits but never rolls back, so a
refused INSERT leaves a connection "begun"; the next SELECT pins its snapshot ("pinned"); a later commit of
the other process overtakes it, after which it reads the `past` and cannot write. `lost` is history: the
runs whose final write was refused, of which nothing can be promised.

### UpstreamStream and Serving

A delta is its number in the engine's output, so loss, repetition and reordering are visible. The
engine's generator runs only while the pump awaits it (`pump = "reading"`). It reads chunks (`ReadChunk`), each
with or without text and with the `rest`: reasoning, a finish reason, a usage block. The text is yielded
before the rest is looked at, so the rest is only absorbed into the caller's dicts when the generator is
resumed (`PumpPut`): a run that is cancelled there never learns of it. Or the generator ends or breaks
(`EngineEnd`). `_pump` puts into a bounded queue and ends with a done or an error item. `aclose` cancels the
pump and awaits it: its first half is `CancelPump`, its await is the handler's `pc = "closing"`, left when
`pump = "ended"`. `next` is three steps, as in the code: `Pop`, in which its `get_task` takes the oldest item (`got`);
whatever the pump does then, since the queue has room again; and `Returns`, in which the handler resumes with the item.

`Serving` walks one handler through its awaits: `created`, `prefix` (the first chunk, yielded before the
upstream is started and before the `try`), `next`/`waiting` (`upstream.next` before and inside
`asyncio.wait`; `Ask` looks into the queue, `Fetch` is an item that comes later), `yield`, `closing`, `raising`,
`fallback`, `document`, `over`. `run.surface` is chosen at the start.
The `json` surface has no body iterator, does not notice a client that leaves, and finishes a failed run
*before* it closes the upstream. `finish` and the placed event are one step, since no await is between them; but the
journal may refuse the final row (`JournalMayFail`), and then the run is finished in memory, its row still says running
(`run.row`), the exception takes the place of the event, and the response is cut short (`SettleRefused`) or a 500
(`AnswerRaises`, `AnswerError` after `raising`). `AnswerRaises` is also the `int()` of a usage value that is no number.
An item that was taken is preferred to a cancellation, as in the code.

`answer` has only what a surface sends at the end: the status, the chunks and the output of `/generate`'s document, the
finish reason of the last SSE chunk, the finish reason and the content of the json answer.

`Relay` is the contract: deltas relayed in order, an engine at most `Ahead` deltas ahead of what
was relayed, and one settlement, only when the upstream is gone, with "succeeded" or "failed" only if
the engine ended or broke by itself and everything it made was relayed. The refinement mapping is
`relayed <- Len(sent)`, `fate <- run.state`, `Ahead <- QueueSize + 2`: one delta that `get_task` has taken, those in the queue,
and one in the pump's hand. The `json` surface's early
finish does implement it, because an error item is put only after the generator has ended.

### ProviderRegistry

A request scans the providers in order with a `now` read once. A fresh entry is copied
(`ReadFresh`), a stale one probed: `StartProbe` reads `previous` and suspends in `health()`; `EngineAnswers` is its
verdict, at which a probe of a healthy engine goes on and suspends in `list_models()`, which `EngineLists` ends, with the
verdict of `health()` or, if it fails, with its own; `Complete` writes the entry with the time of the writing, emits, and
copies it, with no await between. Time passes only while every request is suspended, and then for as long as it likes: the
timeouts of httpx are of one connection or one read, not of a request, and a probe is two requests. `obs` (when the
engine gave the verdict, which the code does not keep: `taken_at` is when the probe ended), `news` (the last two
health events) and `overlapped` (the providers that two requests probed at once) are history. Inventories are left to
`Routing`. No bound on the age of a verdict that a call trusts is stated, since the code has none (section 4); what
does hold is `StaleOnlyAfterWaiting` and, of providers that were never probed twice at once, `VerdictsMoveForward`.

### Privacy, Placement, Routing, Catalogue

`Raws` classifies what a caller can send by what the code tells apart: absent, blank, not a string, an
unknown string, or one of the five tiers. `Placement` follows `select_placement`: `Failures` is the set of
stages a provider fails, `Stage` the first of them, `ModelKey` and `Rank` the sort keys as tuples. What
is compared lexicographically in Python is compared by `Less`.

In `Routing` the cache moves freely (`ProbeUp`, `ProbeDown`), which over-approximates every timing that
`ProviderRegistry` allows; an engine that is up may have an empty inventory. A call copies one entry per
step (`Look`), the last copy and placement are one step (`Decide`), and a refused `/v1` call copies the
providers again (`LookAgain`) before `Explain` chooses between 403, 503 and 404. `Ages` says whether an entry
is within the staleness ceiling when it is used.

`Catalogue` adds a read-only request, which copies the entries one by one as `Routing`'s calls do, each with any age of
`Ages`, and renders `/health`'s status or the list of models. The pages have no staleness check; placement has one. The
properties compare a page with what `select_placement` would make of the same entries, of the same ages, and say where
the two part.

### Gateway and EventBus

`Gateway` instantiates `Routing` twice over one cache. A run exists from placement to its end, so the
load that goes into a copied entry is no parameter here: `Active(p)` counts the runs in progress on `p`,
and those that nobody will ever finish (`leaked`, at most `MaxLeaks` of a provider: finding 1 below). `raced` is history: the clients under
whose snapshot a run began or ended. It extends `EventBus`, in which each event is a task of
its own, delivered or lost in any order. `Ends` finishes a run with or without its event: with a refused final row, or a
usage value that is no number, the handler raises between the two; which of them may happen when is `Serving`'s subject, and
`EventsTellTheTruth` says nothing of completeness but of refusals. `Leaves` is a run that is never finished. Every
step of a client is a step of `Routing` on its call; that it is, for the load that the other's runs make, is a lemma of
`GatewayProofs`, by which what is proved there for any load holds of both calls.

### Startup

One action for each stage of a start: `Preflight` (`cli.main`), `Load` (`load_app_config`), `Guard` (`create_app`,
which is told the host by the command line, and perhaps by an embedder), `Receive` (the middleware).
`setup` has the flags, the environment and the file; a token is classified by what the code tells apart (not
given, empty, bare, with blanks).

## 3. What is checked

| Run | Module | Checks | Bounds |
|---|---|---|---|
| `RunsDurable` | `MCRuns` | `TypeOK`, `LoadIsServedOrAbandoned`, `RunningIsServedOrAbandoned`, `LiveRunsCanBeCancelled`, `JournalNeverAhead`, `TrimKeepsTheNewest`, `AnswersAreFinal`, `ImplementsLedger` | 3 ids, 2 providers, 2 outcomes, limit 1, a journal that does not fail |
| `SharedJournal` | `SharedJournal` | `TruthWins`, `EachCancelsItsOwn`, `EachCountsItsOwn`, `RowsMoveForward`, `OneOutcome` | 2 processes, 2 ids, limit 0, any write may be refused |
| `Serve` | `MCServing` | `TypeOK`, `SentInOrder`, `OnePlacedEvent`, `AnswerMatchesRecord`, `ImplementsRelay`, `CancelEnds`, `DisconnectReleases` | 3 surfaces, 4 deltas, queue of 1, 8 chunks, a final row that may be refused |
| `Registry` | `MCProviderRegistry` | `TypeOK`, `BusAgrees`, `StaleOnlyAfterWaiting`, `VerdictsMoveForward` | 2 callers, 2 providers, healthy or offline, TTL and ceiling of one tick, clock to 4, 1 invalidation |
| `RoutingPair` | `MCRouting` | `TypeOK`, `StrictestTierRules`, `CloudNeedsConsent`, `ForbiddenCloudIsInvisible`, `HealthAgreesWithPlacement`, `RefusalExplained` | the shipped pair of providers, every surface, 24 pairs of signals, an inventory or none, entries of either age |
| `RoutingTrio` | `MCRouting` | `LocalWorkStaysLocal`, `PreferenceHonoured`, `ListedIsServed` | two unlike local engines and a better cloud, 4 calls, two loads, two inventories, entries of either age |
| `Gateway` | `MCGateway` | `EventsTellTheTruth`, `ShortestQueueUnlessRaced` | two equal local engines, 2 clients, 3 calls, 1 run of each engine that leaks |
| `Startup` | `MCStartup` | `TypeOK`, `NoOpenSurface`, `CloudIsAskedFor`, `FreshIsNeverStale`, `PreflightSuffices` | 241 files, every flag, environment and request |
| `ServePlacedClaim` | `MCServing` | `EveryRunIsPlaced` - violated | 1 delta |
| `ServeUsageClaim` | `MCServing` | `MalformedUsageFallsBack` - violated | 1 delta |
| `RegistryRecoveryClaim` | `MCProviderRegistry` | `RecoveryIsNews` - violated | 2 callers, 1 provider |
| `RoutingForbiddenClaim` | `MCRouting` | `ForbiddenMeansForbidden` - violated | the pair |

What they show. *RunsDurable*: through crashes, restarts and evictions clients are told a consistent story; what counts
as load, or is answered as running, is a run that is served or one that was abandoned, each once; and a live run can
always be cancelled. *SharedJournal*: although the start of one process
interrupts the live rows of the other, a row comes to say how its run ended and stays so, rows never move
back whatever a stale connection reads, each process can cancel what it serves and counts nothing else, and clients are
told one outcome. *Serve*: one run relays faithfully, at most three deltas behind its engine, ends truthfully and
releases its upstream, whatever happens at each await. *Registry*: of every provider that was not probed twice at once, a
verdict is replaced by a later one only, and events are edges and agree with the cache; and a request meets an entry
beyond the ceiling only if it has itself waited in other probes for longer than the ceiling leaves beside the TTL.
*RoutingPair*: the strictest signal rules,
cloud is denied by default, placement and its rejections show nothing of a forbidden cloud, a 403 of `/v1` has its
reason in the privacy of the call or in the age of an entry (that it can have either is finding 4), and `/health` says what
placement would do but for the age of what it shows. *RoutingTrio*: work stays local, preferences are honoured, and a listed
model can be had if an entry within the ceiling lists it. *Gateway*: a call without a preference that nothing raced with gets the shortest of equal queues - by the
runs that exist, not those it saw - and the bus is told every refusal, no end of a run that has not ended, and
nothing twice, whatever is lost or late.
*Startup*: no combination of flags, environment and file leaves a reachable server open.

Why the bounds are enough. *RunsDurable*: with a limit of 1 and three ids, one `create` evicts a finished run
while another is live, a run can be evicted and then looked up, and runs of two processes coexist in the
journal; the proofs remove the bounds, and cover the journal that fails. *SharedJournal*: two ids give each
process a run of its own, so that the one can be refused while the other commits, which is what overtakes a
connection; a limit of 0 evicts at once, so that answers come from the journal. *Serve*: four deltas are one more than `get_task`, the queue and the pump's hand
hold together, so backpressure blocks; the chunks have text with a finish reason in the
same chunk, both finish reasons, reasoning, and all forms of usage block. *Registry*: a window is one tick and
the clock allows three beyond the first, so an entry is fresh, stale, probed and stale again, and a probe may outlast
the ceiling; two callers suffice for every overlap of two
probes, and a third classification differs from "offline" only in its name. *Routing*:
with two providers the two snapshots have a middle, in which the cache moves; the inventories contain none, a model with a
window that is too small for some calls, one with an unknown window, and models that are loaded here and not there; an
entry is within the ceiling or not. *Gateway*: three calls let
one client call again while the other's run is on, or leaked; the two engines are equal, so that only the load
decides. *Startup*: requests are judged one by one, and a start has no loop. Symmetry is used for
ids and callers only, whose order no operator reads, and never with a liveness property.

Deadlock is checked in every run but `Gateway`, which stops when its calls are made (`MaxCalls`), and `Startup`, which
ends with a refusal, a failure or one answer. `Serving` ends in `Over`, an explicit stuttering state, because the
process goes on with other requests when one response is complete.

### Fairness

Only `Serving` has liveness properties. Weak fairness is assumed of the handler and its `get_task` and of the pump
(asyncio runs what is ready), and of `Leaving` (Starlette cancels the response task of a client that left,
or the abandoned generator is closed when collected). Nothing is assumed of the engine, which may be silent for
ever, nor of the canceller, nor of the client: `Resume` is not fair, since a client that is there may stop reading, the
transport then holds the handler at its yield, and a cancellation goes unseen for as long. So `CancelEnds` has that as a
hypothesis: unless the handler stays at a yield for ever, a cancelled run ends, although the
engine never speaks again, and although items that were taken are preferred to the cancellation. An engine that never pauses
is outwaited because its output is finite (`max_tokens` in the code, `MaxDeltas` here): how long that takes, nothing in the
code bounds. `DisconnectReleases` needs nothing of a client that is gone. Events have no liveness: nothing in
`buspublish.py` retries, so an event may be lost, and no property promises its arrival.

## 4. Where the code and its documents disagree

Each is a run that TLC violates; the trace is the scenario.

1. `ServePlacedClaim`: "exactly one compute.generation.placed fires per run regardless of how it ended"
   (`app.py:633-637`). The first chunk is yielded before the `try`; a client that is gone by then leaves a run
   that stays "running" and counted as load, with no event.
2. `ServeUsageClaim`: "a partial/malformed block falls back to the estimate" (`app.py:857-859`). A block
   with both keys and a value that is no number raises in `int()`, after `finish` and before the event: a 500.
3. `RegistryRecoveryClaim`: "an immediate provider.offline on the transition down, a provider.recovered
   on the transition back" (`tests/test_event_bus_publish.py:143-146`). Of two overlapping probes
   the later compares with a `previous` that is no longer what was published last; a recovery can go
   unpublished, and, for the same reason, a transition can be published twice.
4. `RoutingForbiddenClaim`: 403 means that "the model exists on a healthy provider but the effective
   tier forbids that provider" (`docs/CONTRACT.md:99-100`). A local provider that recovers between the two
   snapshots turns an outage into a `privacy_refusal`.

Others that the modelling met, without a run of their own:

- "Nothing is buffered server-side beyond one delta" (`app.py:21`), "the pump cannot run ahead of the client" (`app.py:242`),
  "nothing buffered beyond one delta" (`docs/CONTRACT.md:191-192`): three may be on the way, one that `get_task` has taken, one in
  the queue and one that the pump waits to put. `ImplementsRelay` has the bound that does hold.
- A journal that refuses the final row (`runs.py:193`) makes `finish` raise after the run is terminal in memory: there is no
  placed event, `/generate` and the SSE stream are cut short without their end, and json answers 500. The "exactly one" of
  finding 1 is false there too.
- A json answer of nothing but reasoning cut by the budget says "length" of a run that was cancelled as well: the check at
  `app.py:894` has no look at the status, which that of `/generate` has (`app.py:617`), and `GET /runs/{id}` says "cancelled".
- "a snapshot is only ever as old as snapshot_ttl anyway" (`app.py:168-169`): entries copied first age while
  later providers are probed, for any time. `StaleOnlyAfterWaiting` is what does hold.
- The health that a call trusts may be older than the ceiling: `taken_at` is the time at which the probe ended, the verdict is
  of its first request, and the timeouts of httpx (`engines.py:73,91`) do not bound a request as a whole. Of two overlapping
  probes the one that is late overwrites the newer verdict, and stamps it with the present time.
- `/health` and the catalogues have no staleness check (`app.py:397-444`), placement has (`placement.py:175`): an entry that
  aged while later providers were probed, or was not yet due for a probe under a low `max_snapshot_age`, is "ok" and its models
  are listed, and a call is refused.
- "at worst ... one lazy GET per provider per TTL window" (`providers.py:6-8`): every request that finds an entry stale
  probes, so concurrent requests send one each.
- "every run is recorded at creation and at completion" (`docs/CONTRACT.md:211`): a refused record leaves its
  transaction open; once overtaken, the connection refuses every later write and answers from the past.
- A start on a shared journal interrupts the live runs of the other process (until they finish), and a
  cancellation sent to the other process is answered "already finished".
- The help of `--config` says "additive" (`cli.py:47-48`), but declared providers replace the default fleet; `--no-sim-cloud`
  does not override `include_sim_cloud` of a file, and `include_sim_cloud: false` without providers keeps the default cloud.
- A token that is only in the file is refused by the command line on a reachable host; a configured token
  with blanks around it matches nothing, since what is presented is stripped and it is not.
- A `max_snapshot_age` below `snapshot_ttl` is accepted and makes entries stale that nothing refreshes yet;
  a `placement_class` is not validated.
- A provider that recovers *during* the second snapshot counts neither as serving nor as down: the answer is
  404. An explicit `secret_sensitive` and an unknown tier tie in strictness, so that their order decides
  the `assumed` flag (`privacy.py:137-138` calls ties indistinguishable). An `invalidate()` during a probe is
  overwritten by it (nothing calls `invalidate`).

## 5. What is proved

Every theorem is for all values of the constants that satisfy the named assumptions of the module.

**`RunsProofs`.** The inductive invariant `IInv` strengthens `TypeOK` with: a dead process has no objects;
every active run is in `memory` (this is what eviction must not break); an id that was never drawn has no
object, no row and was never shown; without a journal there are no rows; `JournalNeverAhead`; and `Attended`, that every
active run has its handler or was abandoned, and an abandoned one has neither a handler nor an end.
`LiveRunsCanBeCancelled`, `JournalNeverAhead` and `LoadIsServedOrAbandoned` (`LoadIsAccountedFor`) follow, journal failures
included: the runs counted are a disjoint union of those served and those abandoned. For a journal that
does not fail, `Synced` adds that the row of a run in memory is its state, that a run out of memory is
not "running" in the journal, and that what a client was shown as
terminal is still what memory and journal say. From it follow `RunningIsServedOrAbandoned` (`OnlyTheAbandonedDangle`),
`AnswersAreFinal`, and the refinement of `RunLedger`: `Create` opens, `Finish` settles, `Restart`
interrupts all, everything else stutters - eviction, `Abandon` and `Crash` too, which is where `Synced` is needed. None of the theorems bounds the history limit or the ids, and all but the
refinement, which needs a journal, cover both values of `HasJournal`.
`HistoryKeepsTheNewest` needs one more invariant, `Stamped`: insertion stamps differ, and a new one is beyond all. What is kept
is the upper end of the finished runs by stamp; the oldest kept run was counted with all the others kept, so they are
within the limit, and the newest evicted one was counted with the kept ones only, so they are no fewer than the limit.

**`SharedJournalProofs`.** `Inserted`, `Settled` and `Flagged` say what an operation of a process does without naming it,
and are derived for each of the two instances of `Runs`; the rest is proved once. `IInv` adds to the types:
an id never drawn has left no trace; a run belongs to one process for ever (`OneOwner`), so that its row has one
writer besides the reconciliations; `RowsFollow`, that the row of a running run has no outcome, and that of
one that ended has the right one unless its write was refused; `ReadsAreTrue`, that an outcome which a client or a
stale connection has read is the one in the row. Every step moves rows forward only, so what was true of an
outcome stays true although it is read late. From it: `OutcomesWin`, `NoRowMovesBack`, `CancelsReach`, `OneOutcomeIsTold`,
for any ids and limit, whatever is refused.

**`ServingProofs`.** The inductive invariant has five parts: the types; the stream (what was sent is the first deltas,
what `get_task` has taken is the next one (`Handed`), the queue holds those behind it (`Queued`) and an end only as the last
of all, and what was made is sent, taken, queued or in the pump's
hand until the pump is cancelled); `Phased`, how far the pump can be by where the handler is; `Concluded`,
that a status "succeeded" or "failed" says what the engine did, everything it made having been relayed; and `Recorded`,
that record, row, event and answer are all untouched, or all say the status, or the row was refused and there is neither
event nor closing document. From it, for any number of deltas, size of
the queue and set of chunks, and for a journal that may fail: `RelaysInOrder`, `PlacedOnce`, `AnswersMatch` and, action by action,
`ServingImplementsRelay`: the engine's, the pump's and the handler's steps are `Make`, `EndOfSource`, `Pass` and `Settle`
of `Relay`, or stutters; `Make` is within `Ahead` because of the count in `Pumped`, and `Settle` is allowed because `Phased` says
that the pump has ended, or, for the early finish of `json`, because `Handed` says that an error item means so.

**`ProviderRegistryProofs`.** `IInv` is the types; `Positions` (a scan has copied one entry of each provider it is past, and
its `now` is not in the future); `Timely` (what a request has copied was written at most the TTL before its `now`, by itself or by others,
and no entry is of the future); `OneProbe`, of a provider that was never probed by two at once: there is one probe at most,
the `previous` it holds is still the classification in the cache, and the verdict it has is younger than the entry;
and that the last event is the classification. `StaleMeansWaited` is `Timely` and arithmetic, for probes of any length and
any invalidation; `NoOlderVerdict` and `BusIsRight` are `OneProbe`. What overlapped probes lose is finding 3, and the order of verdicts.

**`PlacementProofs`.** Lemmas say that the two sort keys are tuples of integers that differ where the ids differ, and that
`Less` orders such tuples totally. A finite set then has a first: the element with the
fewest before it, which exists by minimality on the naturals, so that no induction is needed. From it: `BestExists`, `PlacementIsTheBest`, `SameEligibleSamePlacement`,
`PlacedOrNobodyCan`, of any finite set of snapshots with distinct ids.

**`RoutingProofs`.** `PrecedenceIsStrictest` is on the algorithm: for a sequence of signals of any length, if
one is supplied then the result is the resolution of one that was supplied, at least as strict as each. It
needs that the `CHOOSE` in `resolve_privacy_precedence` has a witness: a strictest and first index, from
well-founded minimality on the naturals. The inductive invariant of a call has five parts: types; that its privacy
is the resolution of what was supplied; that each copied snapshot carries its provider's class; that a placement was
lawful when it was made; and that what is recorded of the decision is what `Select` and `Rejections` make of the
snapshots the call holds. `CloudIsDefaultDenied` follows along this line: what `Select` chooses is eligible, what is
eligible passed the privacy stage, a cloud provider passes it only if the resolved tier permits the cloud, and that
is only so if every supplied signal permits it. With `PlacementProofs` the last part gives the rest:
`ForbiddenCloudNeverShows` (blanking the cloud changes neither who is eligible nor a stage, and placement depends on
nothing else), and `LocalBeforeCloud` and `PreferenceIsHonoured` (from the first keys of the rank). `RefusalIsExplained` needs
`Unplaced`: a call that is being explained was refused on what it copied. A provider that listed its
model there was healthy, and `/v1` asks for no capability and no window, so that the model fits: what is left to reject it
for is privacy and age. `Catalogue`'s own invariant, that the page holds
faithful copies, gives `HealthIsPlacements` and `ListedCanBeHad`, for entries of any age.
No assumption is made on how the cache moves. `LocalBeforeCloud` and `ListedCanBeHad` have a hypothesis: every
`placement_class` is "local" or "cloud". It is not an assumption of the module because the code does
not ensure it (`config.py:101` takes the string as it is, and one that is neither is ranked behind local like the
cloud, but not filtered like it); the other theorems hold of any class.

**`GatewayProofs`.** What a step does to the call of a client is first stated once for both clients. The lemma `CallsRoute`: each
call is a behaviour of `Routing`, because the load that goes into a copied entry is one of `Loads`; from there the
theorems of `RoutingProofs`, in two instances, hold of each call, and `CallsNeedConsent` is the most important one.
`BusHearsTheTruth` has an invariant of its own: calls are numbered without repetition, runs and events with
them, `Telling` is what holds of what was published, whether or not an end was, and `Standing` ties what the bus has been told of a call to how far the call is. `ShortestQueueIsTaken` needs `Seen`:
the entries copied by a call that nothing raced with hold the load there is now; what was ranked is then
what is. It is restricted, like the property, to calls without a preference: one that prefers quality is sent past a
shorter queue by design.

**`StartupProofs`.** `IInv` is `TypeOK` with what each stage leaves to the next: `PassedPreflight` (a start that passed
the command line has a token, also after `Load`, because a file cannot take it away), `PassedGuard` (what serves
a reachable host has one), `AnsweredRightly` (an answer is the middleware's, under the config in effect),
`Inherited` (a ceiling that is not declared is none) and `FleetIsDeclared` (the fleet is the file's, or the default one
where nothing declares any). From it: `NeverOpen`, `CommandLineSuffices`, `CeilingBeyondTTL`, `CloudIsOptIn` for every
set of files and every TTL. The types need that concatenated fleets are fleets, from the sequence theorems.

The assumptions are those declared with the constants: `RunIds` finite, `Outcomes` the four terminal states that
handlers pass, a natural history limit, `NoRun` not a run; chunks that are records, a queue of at least one item; times that are
natural numbers, a clock that outlasts the TTL, at least one provider, the classifications `_refresh` can give; a non-empty
fleet with integers where the rank compares, inventories that are finite sets of `ModelInfo`, signals among `Raws`, entries of either
age, and that a complete `/v1` call names a model; for `Gateway`, that `Loads` has every load that can arise; TTLs that are
integers, files that are well-formed records; and model values (`None`, `NoPlacement`, `AnyModel`) that are none of the
values they stand beside. TLC evaluates all of them.

Only model-checked: the two liveness properties, `CancelEnds` and `DisconnectReleases`, because liveness under
fairness and `ENABLED` are out of the prover's reach, and `EachCountsItsOwn`, whose counterpart of one process is `LoadIsAccountedFor`. Every other property of a passing run is a theorem. The four runs that
expect a violation are refutations, and need no proof. Theorems on Runs' client-visible promises (`OnlyTheAbandonedDangle`,
`TerminalAnswersAreFinal`, `RegistryImplementsLedger`) hold of a journal that does not fail, as the properties do; the types, the
load, the eviction and what can be cancelled hold of any.

## 6. Not modelled

Texts, token counts, durations and the wording of reasons are abstracted away; timestamps of runs and the
metrics other than chunk count and marker are left out. HTTP, JSON, YAML, SQLite and uvicorn are external.

- `drain` of the publisher, which only tests call, and `close` of the journal, which nothing calls.
- `bus_url` and `bus_token`, which are resolved exactly as the token is, and the path of the journal.
- The mismatch between the token default that placement checks (0) and the one that the engine is sent (2048,
  `app.py:504`), and the `OverflowError` of an infinite number (`app.py:94`): conversions with no state, that a unit
  test reaches better.
- The answer to a token that is not ASCII (a 500), and a health document that is valid JSON but no object (taken for
  an engine that is offline).
- A bus that accepts a request and answers it slowly, byte by byte, which can hold a task beyond the timeout.

## 7. Plan

Done, in this order: run registry and journal with its abstraction and proofs; upstream stream and serving
with its abstraction; provider registry; privacy, placement and routing with proofs; two processes on one journal
with proofs; the read-only routes; two calls at once with load and bus; start-up and authentication with proofs; the proofs
of serving and its refinement, the provider registry, placement, the read-only routes, two calls at once, and the history.

Next, to prove:

1. What the registry promises when the journal fails, of the runs whose writes were not refused: `Synced` with a `lost`, as
   `SharedJournalProofs` has it.
2. What the two abstract specifications imply by themselves (`RunLedger`: statuses move forward; `Relay`: one settlement, read-ahead
   bounded), once, to be carried over the refinements.
3. That a provider is probed at most once per window by requests that do not overlap.
