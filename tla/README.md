# Verification of sre-pilot

TLA+ models of the alerting pipeline of this repository, model-checked with
TLC, and proofs about them checked with TLAPS. Paths are relative to the root
of the repository; `main.go:269` is a line of it.

## The system

| Part | State | Operations | Talks to |
|---|---|---|---|
| Log intake (`main.go:99-136`, `injector.go`, `target-app/main.go`) | position in the topic, channel of 100 lines | poll, send to the channel | Redpanda; the workers |
| 16 workers (`main.go:147-327`) | locals of `processWithAI` | one line at a time: cache, engine, Qdrant, Redis, SQLite, dispatch | everything below |
| Embedding cache (`cache.go`) | LRU of 5000, keyed by a fuzzy hash | `GetEmbedding`, `Add` | shared by the workers |
| Qdrant | points `qID -> vector, payload` | query, upsert | workers, API, seeder |
| Redis | `blast:<q>`, `throttle:<q>`, `sim:*` | SADD, EXPIRE, SCARD, SETNX, GET, SET, expiry | workers, agents, operators |
| Audit trail (`trace.go`) | table `audit_logs` | `RecordIncident`, two selects | workers, agents, API, seeder |
| Slack (`notifications.go`) | - | `SendSlackAlert` | goroutines of workers, agents |
| Agents (`reasoning.go`) | locals of `Investigator.Run` | read health, logs, CPU; remediate | Redis; audit trail and Slack through `main.go:277-288` |
| Engine service (`inference-server-cpp/src/main.cpp`) | one handler per call, a promise each | `RunInference` | queue; orchestrator and Python clients through gRPC |
| Queue (`simple_queue.hpp`) | deque, atomic depth | `push`, `pop_batch` | handlers, pool |
| Worker pool (`thread_pool.hpp`) | batch, valid indices, output of each thread | `worker_loop`, destructor | queue, promises, ONNX |
| Telemetry (`thread_pool.hpp`, `main.cpp:113-159`) | counters, samples | add, snapshot and reset, broadcast | engine dashboard |
| Tokenizer (`tokenizer.cpp`) | vocabulary | `tokenize`, a row of 128 ids | handlers |
| API (`api.go`) | - | three reads | audit trail, Qdrant |
| Dashboard (`frontend/src`) | the feed, the points, what is selected, what the pane shows | poll every 5 s, detail requests | API |
| Seeder (`seed.go`) | position in its file | embed, upsert, record each line | engine, Qdrant, audit trail |

What is hard: nothing locks an incident. `processWithAI` makes eight calls to
four stores, most of whose errors are discarded; sixteen workers run it at once
with lines that may have one embedding; the throttle key expires while an agent
of the old window still runs; the process can die anywhere. The engine reads
the depth of its queue without a lock, shares batches among models and clients,
drops late requests out of the middle of a batch and stops its threads with
messages in the queue they all read, while a detached thread reads and resets
the counters they add to. Agents act on readings of a pod that other
agents are changing. The dashboard asks again before it has been answered and
shows whatever comes last. `PROJECT.json` lists each of these hazards at its line.

What makes each part correct:

* throttle and workers: one event and one row per incident and window, whoever
  opens a window records it, and only a failing insert, a lost answer of SETNX
  or a crash leaves a window without a row;
* cache: one entry per signature, within capacity, only embeddings of lines of
  that signature;
* blast radius: never zero, and forgotten some time;
* engine: the depth is bounded, a request is computed once and its result goes
  to its caller, every call returns;
* telemetry: no count is lost between two snapshots, the counters agree with
  each other and with what the callers got, a worker that fails is not counted
  as active for ever;
* tokenizer: the longest pieces, and rows that fit the tensor exactly;
* agents: only a sick pod is treated, and treatment converges;
* intake: lines are taken in order, none twice and none skipped, a full channel
  only delays them, and target-app's last line outlives it;
* seeder: a row without a point is the last act of a run;
* dashboard: the pane shows what is selected, and the page ends up showing the
  stores as they are.

## Modules

| Module | Models |
|---|---|
| `AlertGate` | abstract: what the throttle promises. Open windows, who owes a row, what is settled |
| `Orchestrator` | workers, cache, Qdrant ids, Redis keys, audit trail, agents (as one step) and Slack; instantiates `AlertGate` |
| `FuzzyHash` | the signature of a line in the cache |
| `OrchestratorProofs` | theorems about `Orchestrator`: types, throttle, the refinement of `AlertGate` |
| `StoresProofs` | further theorems: the cache, and the stores against each other |
| `Investigator` | `Investigator.Run`, tool call by tool call, with several agents, operators and expiry |
| `InvestigatorProofs` | theorems about `Investigator` |
| `RequestReply` | abstract: what the engine promises its callers. Calls that are taken, decided, answered |
| `InferenceEngine` | `RunInference`, `SimpleQueue`, `worker_loop`, `~ThreadPool`; instantiates `RequestReply` |
| `Telemetry` | the counters and the broadcaster, on top of `InferenceEngine` |
| `Tokenizer` | vocabulary, WordPiece, the row of a text, and a reference for it |
| `InputTensor` | the input tensor of a batch: `InferenceEngine` with the rows that `Tokenizer` makes |
| `EngineProofs` | theorems about `InferenceEngine` and its refinement of `RequestReply` |
| `TelemetryProofs` | theorems about `Telemetry` |
| `InputTensorProofs` | theorems about `Tokenizer` and `InputTensor` |
| `Intake` | injector, target-app and its Kafka client, the topic, the consumer, the poll loop, `logChan` |
| `IntakeProofs` | theorems about `Intake` |
| `Seeder` | the seeder and the orchestrator as writers of the trail and the points |
| `Dashboard` | the API's handlers and the page, over `Seeder` |
| `DashboardProofs` | theorems about `Seeder` and `Dashboard` |
| `MCOrchestrator`, `MCInvestigator`, `MCInferenceEngine`, `MCIntake`, `MCDashboard` | values of the constants for TLC |

### Orchestrator

Each worker has a program counter, `pc[w]`, the name of the call it makes next,
and `job[w]`, the locals of `processWithAI` (line, embedding, similarity,
radius, the window its SETNX opened). One action is one call with the
assignments that follow it:

    idle -CacheHit-> query                      main.go:316
    idle -CacheMiss-> infer -Infer-> query      main.go:161-186
    query -Query-> sadd -SAdd-> expire -Expire-> scard -SCard-> upsert
    upsert -Upsert-> setnx -SetNX-> decide -Dispatch | Record-> add or idle
    setnx -Throttled | SetNXFails-> add or idle
    add -Add-> idle                             main.go:322-325

Incident identities (`qID`, sha256 of the vector) are the vectors themselves,
i.e. the hash has no collisions. Similarities are whole percentages, so 0.85,
0.98 and 0.99 are 85, 98 and 99. When several points are equally near, any of them may
be returned, and they have the same score. A Redis call that fails
leaves the keys as they are; a SETNX that fails may have been executed or not. `window[q]` counts how often the throttle
key of `q` has expired; it is a ghost that names the window of a row. A
crash empties the process and keeps the stores; lines in flight are lost
because the consumer starts at the end of the topic (`main.go:102`). What an
agent does between its dispatch and its row is `Investigator`; here its
conclusion is either status. `lost` is a history variable: the windows whose
row nobody will write, by a SETNX that was executed and returned an error, an
insert that failed or a crash. `RecordIncident` and the `go` (or the call) that
posts the alert are one step: a goroutine that starts does nothing others see
until it posts, which is `Post`, and no property is about the order of the two.

### AlertGate

An incident is open or not; whoever opens it owes a row for the pair
`<<incident, window>>`; a debt is settled once. A window goes without its row in
three ways only: it is burnt (`Burn`: SETNX executed, answer lost), its debtor
gives up (`GiveUp`: the insert fails) or all debtors die (`Forget`: a crash);
`MayBurn`, `MayGiveUp` and `MayForget` say which may happen, and `lost` keeps
account of them. `Orchestrator!GateSpec` is the refinement: `open` is the set of
throttle keys, `owed` what deciding workers and agents have not recorded,
`settled` the rows; each loss needs its own fault in `Faults`.

### FuzzyHash

A line is a sequence of words, a word a sequence of fragments that lower-casing
maps to fragments. Words that contain `pod-`, `127.0.0.1` or `time=` are left
out, the others are written to the hash one after another. FNV-1a has no
collisions here, so the signature is what was written. `MCOrchestrator` makes
the signatures of its lines with it: two copies of one message, from `pod-1` and
`pod-2` and at two times, and an ERROR line.

### Investigator

`health`, `logs` and `cpu` are the simulated pods' keys, set by operators
(`README.md:234`); each read and each remedy is a step. A read that fails gives
the zero value of its type and no error, as the discarded errors at
`reasoning.go:123, 149, 186` do. A log text is a name with the words it
mentions. `ill[a]` is a history variable: the pod of run `a` had a symptom at
some time during the run. Nothing in the steps depends on it.

### InferenceEngine

A handler is new, admitted (it has read the depth), waiting (it has pushed) or
done. A worker pops a batch, filters the late requests out, runs the model on
the others, delivers row `b` to request `valid_indices[b]`. Time is
nondeterministic: any request may be more than 100 ms old when its batch is
filtered, and must be when its handler has given up after 5 s. Only calls in
`SlowCalls` may time out while their request is queued or computed; every call
times out once no worker will fulfil its promise. An embedding is the request
whose tokens the model was given. Projecting the empty embedding of a late
result (`main.cpp:83`) is undefined behaviour: the process dies, or the reply
has arbitrary coordinates. A missing `projection.bin` makes the initial phase
`stopping`.

### RequestReply

A call that is taken is open until it is computed, found late or abandoned,
once; its caller gets one answer. A computed embedding is always delivered
(`GiveUp` needs a call that has none), an open call is given up only when it is
slow, and `Refuse` needs more than `Limit` open calls: the depth that a handler
reads without the lock never refuses a call that would have had room.
`InferenceEngine!ServiceSpec` is the refinement: `open` is what is in the queue
or in some batch without a result, `computed` and `late` are the promises that
are set. There are no queue, no batches and no depth in it, so a promise
forgotten in a batch, a result for somebody else or a depth that drifts shows.

### Telemetry

Each step of `InferenceEngine` that counts something is conjoined with the
counter, and where the code counts between two calls there are steps of their
own: `Begin` (`active_workers++`), `End` or `Catch` and `Decrement` (an
exception tests the counter and decrements it in two steps), `CountTasks` (the
window the broadcaster reads) and `CountTotal` (`total_processed`). `count[w]`
says how far worker `w` is. `Snapshot` is `get_and_reset_telemetry`; its
exchanges are one step, as are those of the filter of a batch, because nobody
reads two counters together. `shown` adds up what the snapshots returned, of
which `main.cpp:135-145` sends the tasks and not the dropped requests. `Catch` is
an exception of the model (`thread_pool.hpp:119-125`). One before the increment
of `active_workers` (103-118) or after its decrement (127-170) would reach the
same handler and take another worker's count off; only memory that runs out
makes these lines throw (`RowsAligned` shows that the tensors fit their shape),
and `ActiveExact` says nothing of them.
Latency figures (active time, percentiles, sample) and the websocket are left
out, and so are the peaks `main.cpp` sends, two of which no code updates.

### Tokenizer

Characters are values, and so is a blank line of the vocabulary. Pieces are
found by a recursive function over the places where a piece may begin. The
reference `Spelled` says it without a loop: the places where pieces end
are such that each piece is the longest in the vocabulary that begins where it
does, and a word that cannot be divided so is unknown. TLC evaluates it for every word
of up to four letters over three, with a vocabulary that has a blank line, a
word twice and continuations of different lengths; `WordsSpelled` proves it for
every word and vocabulary. The file (`VocabFile`), `tolower` (`Lower`), the
characters and the length of a row are constants, and the bytes that make
characters are left out.

### InputTensor

`Text[r]` are the words of the log line of call `r`; the handler tokenizes it
before it pushes (`Row`), and a worker concatenates the rows of its valid
requests (`BatchTokens`). `RowsAligned` says what ONNX, which is given the shape only,
relies on. In the run a row has 8 tokens, not 128, and the texts are short,
leave no room for the separator, and leave just that.

### Intake

A line is its number in the order of production, and on the topic it is known by its
offset. The injector produces synchronously (`sync` is the line it waits for);
the handlers of target-app hand lines to a client with a buffer that a
goroutine of the client empties (`Deliver`). The broker is external: the topic
has one partition, an acknowledged line stays, and lines in `Refusable` may be
refused, which the code only prints. `chaos[n]` is where the crashing handler
that made line `n` is, before `Flush` or before `os.Exit`; any number of them
run at once with other handlers.

    down -Start-> starting -ResetToEnd-> up -Crash-> down     main.go:99-103
    Poll      a fetch of one or more records                  main.go:119, 129
    Enqueue   the next record of the fetch, when logChan has room   main.go:134
    Take, Finish   a worker has a line, and is done with it   main.go:315-326

The offset at which the consumer begins is read some time after the process
has started, so lines produced in between are not taken. `taken` is a history
variable over all starts. What a worker does between `Take` and `Finish` is
`Orchestrator`, whose `CacheHit` and `CacheMiss` receive any line at any time;
the two are not composed.

### Seeder

    off -StartSeeder-> next -UpsertSeed-> record -RecordSeed-> next    seed.go:48-96
    next -EmbedFails-> next          the line is skipped
    record -RecordSeed-> off         log.Fatalf, after the row was written
    any -EndSeeder-> off             end of the file, or an interrupt

Of the orchestrator only its upserts and inserts are left, of incidents in
`Met`, each insert after the upsert, which may have failed if `SeedFaults` has
`"orchestrator"`. An insert that fails is only logged; an upsert that returns an
error may have been executed.

### Dashboard

The id of a row is its position in `audit`. A poll is two requests; each is
served in a step of its own (`ServeIncidents`, `ServeSpatial`) and when both
answers are there, `Resolve` puts them on the page: whatever other polls have
put there since. `Truncate` is an answer of `/incidents` that an error of the
iteration has cut short, which `api.go:42-50` serves like a whole one.
`/incident/<q>` is `First(RowsOf(q))`, since SQLite scans a
table without index in the order of its ids. `stray` is a history variable: an
answer has arrived while something else was selected, or a request has failed.
An empty list is a nil slice in `api.go:41`, hence `null`, and `incidents.map`
(`App.jsx:54`) throws: `Resolve` makes the page blank until the user reloads it.

## Runs

| Run | Question | Instance | Distinct states |
|---|---|---|---|
| `orchestrator_faults` | Do one event and one row per window, a sound cache and the refinement survive failing calls and a crash? Which windows end up without a row? | 2 workers, 2 lines out of 3 kinds, 3 vectors, cache of 1, every window may lapse once, 1 crash; Qdrant, Redis, SQLite fail | 1,444,450 |
| `orchestrator_live` | Do the stores agree, and is what passed the throttle recorded? Is nothing lost? | the same lines, cache of 2; engine, queries and Slack fail; fairness | 140,515 |
| `engine` | Batching, delivery, depth, counters, token rows, termination of calls; is a call left to its timeout only by a batch that fails? Does the engine implement `RequestReply`? | 3 calls (one for a model that is not loaded, one slow), 2 workers, batches of 2, depth limit 0, 2 handlers at a time, runs that throw, any snapshots | 46,384 |
| `investigator` | Are only sick pods treated, and do remedies converge? | 2 agents on 1 pod, investigated without end, 3 symptoms set, log reads fail | 102,205 |
| `intake` | Are lines taken in order, once, and all of them? Does target-app's last line get out? | 3 lines, of which the broker may refuse one, channel of 1, 2 workers, 2 starts; fairness | 56,996 |
| `dashboard` | Which rows lack a point, does the pane agree with the selection, does the view converge? | 2 polls and 2 detail requests at a time, a file of 1 line, 2 incidents, 2 rows, a seeder run whose calls all may fail, the orchestrator's inserts too, pages of 1 row that may be cut short; fairness | 937,840 |
| `orchestrator_duplicate`, `engine_stale`, `engine_foreign_model`, `engine_boot`, `investigator_blind`, `dashboard_trace` | Does the code do what a doc or comment says? No; see Findings | smallest instance that shows it | |

Why the bounds are enough to be interesting: two workers already race for a
cache entry, a point, a blast set and a throttle key, and with two lines one of
them can be in any step of `processWithAI` while the other one passes. Two
kinds of line share a signature and are familiar to each other, the third is
tagged ERROR, so the three branches after the throttle, cache hits on another
line's embedding and evictions all happen. One lapse per incident lets an
agent of the old window overlap the worker of the new one. In the engine two
handlers can read depth 0 before either pushes, batches are full or not, and a
late request can precede one that is not; the limits of the code (32, 500) only
make these rarer. In the intake a fetch can hold more
lines than the channel has room for while both workers are busy, and a crash can fall with
a line in the fetch, in the channel and at a worker. Two polls and two detail
requests are enough for every reordering of answers, two rows for an incident
that has an older row and for a trail that does not fit the list. Incidents of one pod are what agents share, so one pod and
two agents suffice. `MaxLogs`, `MaxWindows`, `MaxCrashes`, `MaxSymptoms`, `MaxLines`, `MaxStarts`, `MaxRows` and
`MaxRuns` (and the sizes of `Polls` and `Requests` in `Dashboard`) are
bounds of the instances and appear only in guards; the proofs hold for
every value of them.

Symmetry is used in `orchestrator_faults` (workers, no liveness). No run
switches deadlock checking off: the ends of the bounded instances are actions
(`Drained`, `Gone`).

Fairness. `Orchestrator`: a worker or goroutine that can make its next call
does so (the Go scheduler is preemptive and every call returns, if only with an
error); new lines, expiries and crashes are not fair. That the calls to Qdrant
return is an assumption about Qdrant: `main.go:188` and `242` have no deadline
(`main.go:30`), and a call that hangs keeps its worker, so `ClaimIsRecorded` and
`Intake`'s `LineIsTaken` depend on it. `InferenceEngine`:
threads that can run do, and all waits are timed; whether calls are made is not
fair. `Investigator`: a run that has begun goes on (500 ms timeouts); dispatch
is not fair, and `RemediesConverge` says what follows when pods are looked at
again and again. `Intake`: the broker answers, the poll loop and the workers
run, `processWithAI` returns (with the same assumption about Qdrant); producing,
crashing and restarting are not fair. `Dashboard`: the timer fires, handlers
answer polls or fail, the browser runs its callbacks; the user and the writers
may do nothing, and details may stay unanswered. `ViewConverges` excepts polls
that are rejected or cut short again and again and a page that stays blank.

Every property of a passing run has a mutant in the module, a plausible bug of
the code named in a comment `Mutant:`, with which TLC finds the property violated.

## Proofs

For every value of the constants (any number of workers, lines, agents, pods;
any embedding, similarity, faults), from the assumptions named
`...Assumption` of the modules only:

* `OrchestratorProofs!TypeCorrect`: `Spec => []TypeOK`. One lemma per group of
  actions; `TypeOK` is inductive because it says what a worker has at each step
  (a line when it is not idle, a vector after the engine).
* `OrchestratorProofs!OneEvent`, `OneRow`: `Spec => []OneEventPerWindow` and
  `[]OneRowPerWindow`. Neither is inductive: that SETNX found no key must imply
  that nobody has a ticket for this window. `GateInv` adds (1) every ticket is
  for a window that has begun, and while the window is the current one the key
  exists; (2) whoever has yet to record is alone in its window, among workers,
  agents and rows. The steps fall in four kinds: `QuietStep` (no new ticket),
  SETNX (a ticket for a window that begins), Dispatch (a ticket changes hands),
  Record and AgentRecords (`SettleGate`: a pending ticket becomes a row's).
* `OrchestratorProofs!ImplementsGate`: `Spec => GateSpec`. `InitImplements` and
  `NextImplements` are the two halves; the steps that change no debt are
  `GateSame`, SETNX is a Claim (or, when its answer is lost, a Burn),
  `RecordSettles` maps a row to Settle and a failed insert to GiveUp, and a crash is
  Forget. That one row settles exactly one debt needs `PendingAlone`.
* `OrchestratorProofs!WindowsAccounted`: `Spec => []EveryWindowAccounted`. It is
  proved of the steps of `AlertGate` (`LedgerInv`: `OpenLedger`, `PayLedger`,
  `LapseLedger`) and carried over by `NextImplements`: owed, settled and lost
  windows are three disjoint sets, and together they are the windows that have begun.
* `StoresProofs!CacheIsSound`: `Spec => []CacheSound`. `CacheSound` alone is not
  inductive, since a worker adds what it computed many steps ago: `JobGenuine`
  says that what a worker carries is the embedding of a line with the signature
  of its own. `Store` is treated once, by position in the sequence.
* `StoresProofs!PointExists`, `BlastForgotten`: the stores against
  each other, each under the assumption its comment in the model names: upserts do
  not fail; Redis does not fail and nobody dies between SADD and EXPIRE.
  Everything else may fail. `PointExists` needs that a worker before its SETNX
  has its point already; `BlastForgotten` is inductive.
* `EngineProofs!TypeCorrect`, `OwnAnswer`, `DepthIsBounded`. `OwnAnswer` needs
  that the rows of a worker's output are those of its valid requests in order,
  and that a promise holds the embedding of its own request (`RowsInv`, `PromiseInv`);
  `DepthIsBounded` counts admitted calls that have not pushed yet together with
  those in the queue (`DepthInv`).
* `EngineProofs!TakenAtMostOnce`: `Spec => []TakenOnce`. `TakenInv` adds that a
  call that has not pushed yet (`Early`) is in no queue and no batch.
* `EngineProofs!ImplementsService`: `Spec => ServiceSpec` (and, by
  `TelemetryImplements`, `TSpec => ServiceSpec`). It needs that a promise that is
  set belongs to a request that has left the queue (`DecidedInv`), that
  `valid_indices` has every request of the batch that was not dropped
  (`CoverInv`), that there is no pill while the engine serves (`PillInv`) and that
  nobody is answered before its handler returns (`AnswerInv`). Then a queued
  request is open, and since none is queued twice the queue maps one to one into
  the open calls: the depth is not more than their number.
* `EngineProofs!OnlyFailures`: `Spec => OnlyFailedBatchAbandons`, an action
  property. A request leaves the queue for a batch (`PopTakes`) and leaves the batch
  with a result, unless the run throws. It needs that what the model was
  given is what was not dropped (`CoverInv`), that the only item a worker
  throws away is a pill (`PoolInv`), and that a worker in the middle of its loop
  has a batch (`HoldInv`). `ServedUnlessFailed` follows:
  when the model does not throw and every client names a loaded model,
  `[]LoadedIsServed`, which is what remains of the expectation that
  `engine_foreign_model` refutes.
* `TelemetryProofs!TelemetryImplements`: `TSpec => Spec`, so what is proved of the
  engine holds with its counters (`TelemetrySafe`, `TelemetryService`).
  `ActiveIsExact`: `TSpec => []ActiveExact`, by the
  cardinality of the set of workers that a step changes by one.
* `TelemetryProofs!NoneLost`, `CountersAgree`: `TSpec => []NoUpdateLost` and
  `[]CountedOnce`. The counters are compared with cardinalities of sets, of
  requests with a result and of pairs of a worker and a row of its batch, so that a step
  adds or takes away a set of known size. `SumInv` is the invariant: both
  properties and the types of the counters (`TeleType`). That the rows of a batch are as many as the promises it sets needs that no
  request is twice in a batch or in two (`PoolInv`, over `TakenInv`), and that
  promises of a batch that runs are not set (`UnsetInv`).
* `InputTensorProofs!WordsSpelled`: for every vocabulary and word,
  `Spelled(word)`. `TensorAligned`: `Spec => []RowsAligned`, for all texts and
  lengths of rows. What the recursive function of `wordpiece_tokenize` and `FlattenSeq` compute
  is established from the definition of the function (`Division`, `FlattenIs`)
  by an induction over the naturals that is stated of a set, not of a
  predicate (`Inductive`, from `WFMin`): of the lengths for which no such
  function exists none would be the least. On it rest that the rows have
  `MaxLength` ids (`TokenRow`) and that in a concatenation of rows of one length
  the b-th is found at its place (`FlattenRows`); that a worker's
  `valid_indices` are places of requests is `PoolInv`.
* `IntakeProofs!TypeCorrect`, `InOrder`: `Spec => []TakenInOrder`. The invariant
  puts what has been taken, the channel, the fetch and the rest of the topic in
  one increasing order (`OrderInv`); a restart at the end of the topic is
  beyond all of them. `NoSkip` and `Reported` prove `NothingSkipped` and
  `CrashIsReported`; the second one needs that a handler has its line
  in the buffer or on the topic until it flushes, and on the topic when it
  is about to exit (`ReportInv`).
* `InvestigatorProofs!TypeCorrect`, `OnlySick`: `Spec => []OnlySickPodsTreated`,
  with the invariant that a run has noticed any symptom its pod has now
  (`IllWhenSick`), which makes each of the three readings justified.
  `RedeployJustified`: when reads of the health keys do not fail,
  `[]RedeployedPodWasSick`, which `investigator_blind` refutes for the code as it is.
* `DashboardProofs!SeedRows`: `Spec => []SeedRowHasPoint`. The row the seeder is
  about to write has its point unless the upsert has failed (`SeedInv`); so only a
  run that dies adds to the rows without one, and no more than one. `PaneIsSelected`: `Spec => []PaneAgrees`,
  where the row an answer shows is the first of its incident
  (`FirstIsMember`, by well-foundedness of the naturals). `TypeCorrect` and
  `ShownIsStored`: the page lists rows that are in the trail and draws
  points that are in Qdrant, however old its answers are. `StoredInv`
  says that of answers under way as well, and holds because nothing is ever
  deleted.

Every safety invariant and action property of the passing runs is proved.
Only model-checked: all liveness (`ClaimIsRecorded`, `QueuedIsTaken`,
`CallReturns`, `RemediesConverge`, `LineIsTaken`, `ViewConverges`), which TLAPS
cannot do here.

## Findings

Six runs state what a document, a comment or a client of the repository says
and TLC refutes it; each trace was followed in the source. `PROJECT.json` has
the quotes.

* `orchestrator_duplicate`: query and upsert are two calls, so the only row of
  an incident can call it a duplicate.
* `engine_stale`: a late result is projected although it is empty.
* `engine_foreign_model`: one unknown model id fails the batch of others; without
  one (and without a run that throws) nobody is abandoned (`ServedUnlessFailed`).
* `engine_boot`: with more than one worker, one swallows the pills of others.
* `investigator_blind`: a failed health check redeploys a healthy pod, and nothing
  else does (`RedeployJustified`).
* `dashboard_trace`: the detail of an incident is its oldest row. An incident
  that was recorded as new (say, while Qdrant was out of reach and its upsert
  failed) and investigated in a later window is shown without any trace.

Two more divergences are in the models without a run of their own. The
level derived at `main.go:227` is not what line 275 looks for, so JSON events of
target-app are never `ERROR` to it (`README.md:39`); and the injector's pods are named
`gateway-01` and `db-primary`, which the cache does not strip
(`README.md:28`), so copies of one message share an entry only when the pods'
names contain `pod-` (`cache.go:43`). A dashboard that is
opened before the first row goes blank (`ViewConverges` excepts it).

## Not modelled

* Vectors, cosine scores, PCA, mean pooling and sha256 (constants with the
  properties the control depends on); trust score and capacity loss (floats
  that only go to payloads and messages); message and JSON layout, CORS,
  drawing; start-up checks of `main`.
* Of the engine: latency figures and percentiles, the websocket, the loading of
  sessions, and the detached broadcaster after `main` has returned, which uses
  destroyed objects.
* Of the intake: several partitions, records the broker loses or repeats after
  it has acknowledged them.
* The engine dashboard (`inference-server-cpp/inference-dash`): it reads and smooths
  snapshots and changes nothing. Offline tools (`log.go`, `read_db.go`,
  training, export, load and test clients): straight lines of library calls, none of
  which keeps state that another part reads while it runs. Generated protocol code.

## Plan

Everything planned so far is done but for these, which would add less:

1. `Orchestrator` with `RequestReply` for its calls to the engine, and the
   two-second timeout of `main.go:162` on top of it; the orchestrator's `Infer`
   now succeeds or fails at any time, which allows all of that.
2. `Intake` composed with `Orchestrator` through `logChan`.
