# kuvox-ai: TLA+ models and proofs

kuvox-ai is the machine-learning side of a video editor: a FastAPI process plus
RabbitMQ workers that ingest media into a graph (Kuzu) and a vector index
(Qdrant), answer retrieval requests from them, plan edits, and render timelines.
The modules in this directory model the parts of it in which several tasks,
processes or deliveries meet, or in which a step may fail half-way. All paths are
relative to the repository; `PROJECT.json` names, for every definition that models
code, the lines it stands for.

- [1. The system](#1-the-system)
- [2. Modules and how they correspond to the code](#2-modules-and-how-they-correspond-to-the-code)
- [3. Runs](#3-runs)
- [4. Fairness](#4-fairness)
- [5. Proofs](#5-proofs)
- [6. Where the code and its documentation disagree](#6-where-the-code-and-its-documentation-disagree)
- [7. What is not modelled](#7-what-is-not-modelled)
- [8. Plan](#8-plan)

## 1. The system

Every process is a single-threaded asyncio loop: code between two `await`s is
atomic, anything may happen at an `await`, and a task may be cancelled there
(`CancelledError` is not an `Exception`, so `except Exception` does not see it).
Several processes (the API with its embedded workers, stand-alone workers, other
replicas) share Redis, RabbitMQ, Qdrant and the object store.

| Component | State it keeps | Operations | What is hard |
| --- | --- | --- | --- |
| Circuit breaker, Redis operations (`cache.py`) | state, failure count, opening time, probe-in-flight flag, per store and process | `allow_request`, `record_success`, `record_failure` around every Redis command | commands admitted in one state of the breaker end in another; a cancelled command records nothing |
| Distributed lock (`distributed_lock.py`) | a Redis key with a random token and a TTL | `acquire`, `is_locked`, `release` | expiry under a running owner; commands that time out at the client and still execute |
| Single flight (`single_flight.py`) | lock and cache entry per key | `run`: lead, follow, or fall back | stale answers, leaders that raise, are cancelled or die, everybody waiting |
| Text embedding cache (`text_embedding_cache.py`) | KTEV entries, one lock per distinct text of a batch | `encode_texts` | several locks at once, crossed batches, partial release |
| File embedding cache (`file_embedding_cache.py`) | KVEV/KAEV entries by content hash | `encode_items`: fingerprint, group, read, verify, encode, check, write | files that are rewritten or removed between hash, hit, encoder and write |
| Retrieval result cache (`modules/retrieval/result_cache.py`) | JSON entries by scope revision and request | `retrieve_video_editor`: key, read, validate, discard, write | corrupt entries deleted after an await; only complete results may be stored, under the revision they were asked for |
| Job delivery (`infrastructure/rabbitmq_client.py`, `workers/`) | main, retry and dead-letter queues, attempt header, prefetch slots | validate, work, retry, report, dead-letter, acknowledge | at-least-once delivery, publishes that raise, crashes, dropped connections |
| Ingestion: graph (`modules/ingestion/kuzu_writer.py`) | nodes and relationships of a medium in Kuzu | delete the old shots, upsert the video, create and link each shot | no transaction; retries and overlapping runs use the same ids |
| Ingestion: index (`modules/ingestion/service.py`, `qdrant_writer.py`) | the points of a medium in four collections | per modality: encode, delete, upsert; best effort | failures inside a modality, requests executed after the caller gave up |
| Retrieval (`modules/retrieval/service.py`) | none | search the collections, fuse ranks, add graph neighbours | the collections are searched one after the other while an ingestion rewrites them |
| Planning (`modules/planning/service.py`) | none | trim, split, delete, move, volume and speed plans | rounding that accumulates over plans; which items a command means |
| Rendering (`modules/rendering/service.py`) | a work directory per render job | download, manifest, frame loop, audio, mux, upload | validation and frame loop sample at different times; two deliveries of a job share the directory |
| Media optimization (`modules/media_optimization/service.py`) | a temporary directory per attempt, objects under keys of the medium | mandatory and optional outputs, uploads, probe | optional commands that fail after creating a file; attempts that overwrite each other's objects |
| Process start-up (`main.py`, `workers/_runner.py`, `config.py`) | clients, consumers | connect, register consumers, close | settings that only fit together |

How they interact: HTTP requests reach retrieval and planning; RabbitMQ messages
reach ingestion, media optimization and rendering through the worker handlers.
Retrieval and ingestion encode text through the text embedding cache: retrieval one
query at a time and with the lock store, ingestion many texts at once and without locks.
Only the result cache of retrieval uses the class `SingleFlight`; the text embedding cache
has a single flight of its own, over the locks of its texts. The cache store and the lock
store of a process share its Redis client, but each has its own circuit breaker. Frames
and sounds are encoded through the file embedding cache. What ingestion writes, retrieval
reads. Plans go back to the editor, which applies them to its document and sends the
document with a render job; the media of the job are the objects that media
optimization reported. Editor and API are not part of the repository.

What makes each component correct:

- *Breaker*: recovery is decided by one probe; an open circuit goes quiet; the
  circuit closes again when Redis is back.
- *Single flight*: whatever happens to lock and cache, a caller sees a value that
  some authoritative work produced, or its own error; work is shared when nothing
  calls for duplicates; locks are neither leaked nor stolen; every call ends.
- *Job delivery*: no job is lost, none has two outcomes or two workers without a
  fault, every job comes to rest, and a failure is known to the other services. A
  service that never returns holds up its own job only, as long as a handler is left.
- *Text embedding cache*: a batch returns a vector for every text, never waits with a
  lock in its hands, and shares the work for each text on its own.
- *Graph and index*: a run that is alone leaves exactly its own data, whatever
  earlier runs left; leftovers never block a retry; reported counts are true.
- *File embedding cache*: an entry under a hash is the vector of the bytes with that hash;
  what a call returns for a file is the vector of bytes the file had meanwhile.
- *Retrieval and its result cache*: an answer is of the revisions that were asked for, of
  every medium that is not being ingested; fusion puts the better shot first.
- *Planning and the manifest*: plans leave a document that can be rendered; a clip never
  shows more of its source than it had; a linked sound is heard once; no invalid state
  reaches the frame loop; layers are in their order.
- *Optimization and render job*: reports name what is stored; a mandatory object or a
  rendered video is whole or not there; nothing is left on the disk.

`PROJECT.json` lists the hazards one by one, each at its line.

## 2. Modules and how they correspond to the code

### CircuitBreaker

`cache.py`'s `CircuitBreaker` and the pattern of every operation of `RedisCacheStore`
and `RedisLockStore`: ask the breaker, await the command under a timeout, record the
result. The model is one such store: each has a breaker of its own. `state`, `failures`, `probing` are the fields of the class; `openAge` is
`monotonic() - _opened_at`, capped where the code stops telling values apart, and
`failures` is capped at the threshold for the same reason. `Admit`/`Refuse` are the two
results of `allow_request`; `Succeed` and `Fail` end a command with
`RecordSuccess`/`RecordFailure`; `Cancel` ends it with neither. The clock (`Tick`)
cannot pass the timeout of a command in flight. Redis (`redisUp`) is the environment.
`command` and `age` say which command each task is suspended in and for how long;
`probeLost` is a history variable. Names that every component has (`BInit`, `BNext`,
`BSpec`, `BTypeOK`, `bvars`) have a prefix here, because one module of proofs extends
this module and SingleFlight.

### AuthoritativeCall and SingleFlight

`AuthoritativeCall` is the promise of CACHING.md's "Advisory single-flight" in five
actions. `SingleFlight` is `SingleFlight.run` with the lock of `RedisLockStore`:
one action per `await`, so that what a call learned from Redis is used by its next
action, when it may be stale. `pc` is the `await` where the call is suspended,
`owner` the lock key, `cached` the entry, `leaders` the calls that
`SINGLE_FLIGHT_HELD_LOCKS` counts. `AcquireFails`, `LookupFails`, `WriteFails` and
`ReleaseFails` are the error and bypass outcomes; through `PerhapsExecuted` a
command whose reply is lost may have taken effect. `Cancel` raises
`CancelledError` where the call is suspended and still runs the finally block;
`Crash` does not. `LockExpires`, `EntryExpires` and `Timeout` replace time: they
may happen whenever the lock, the entry or a waiting follower exists. The refinement
mapping shows a call's ending and answer only once it is done.

### TextEmbeddingBatch

`CachedTextEmbeddingEncoder.encode_texts` with single flight enabled: a batch of texts,
one lock per text it misses. As wired today, the encoder with locks gets one text per call
(`modules/retrieval/service.py:165`) and the one that gets many has no locks (`main.py`):
what is shown of several locks and of crossed batches is shown of the class. `todo`,
`contended`, `local` and `owned` are the lists of `_encode_single_flight` (a text stands
for its `_TextGroup`), `resolved` the texts that have a vector, `fresh` the vectors of a
pending write, `free` the text between `is_locked` and the attempt to take its lock over.
The actions follow the `await`s: `Read`, `ReadLegacy` and `Promote` (the first look, also
under the key of earlier builds); `Acquire` per text; `Recheck`, `Encode`, `Write`,
`Release` per lock (`_compute_owned_and_local` with its finally block, `Finally`);
`Sleep`, `Poll`, `IsLocked`, `Retake` (the loop that waits), `Timeout` (its deadline).
`NextPart` is the order in which a round continues: what the batch has before what it
waits for. The `...Fails` actions are error and bypass outcomes, which make a text
`local`. `Cancel` releases the locks only when the batch is suspended inside the `try`
(`Guarded`): a batch that is cancelled while it gathers locks, or while it releases them,
leaves the remaining ones to their TTL (`disturbed`), and in the second case their gauge
is not decremented either. A lookup of several keys is one command and fails as a whole; a
corrupt entry is a miss, an invalid vector a failed write. `written`, `clean` and
`disturbed` are history variables.

### JobDelivery

One RabbitMQ queue with its retry queues and its dead-letter queue, and the
`handle_message_body` of the three workers inside `message.process(requeue=True)`.
A message is its job and its attempt header; queues count copies. `stage` is where a
handler is; `Deliver` validates the body (an invalid job goes straight to `dlq`),
`Fail` chooses between retry and report, and the publishing steps follow in the order
of the code. `PublishRaises` covers a publish that raised whether or not the broker
received it, and rejects the message to the queue; `Crash` is the death of the
process; `Drop` a lost connection: the broker redelivers while the handler goes on.
`AnnouncesStart` tells rendering, which publishes a started event, from the other two.
`MaxFaults` bounds the faults of a behaviour.

### ShotGraph

`KuzuMediaGraphWriter.write_video_with_shots` inside `ingest_video`, one action per
Cypher statement, for any number of runs over one medium. Shot ids are derived from
the medium and the index, so a shot is its index and a node is the run that created
it. Kuzu refuses to delete a node that has relationships (`Clear`) and to create a
second node with the same primary key (`CreateShot`); a `MATCH` without a match
creates nothing. `Detect` chooses the number of shots anew in every run: detection
falls back to one shot after a timeout. `Fail` is an exception or a crash between
any two statements. `latest` and `overlapped` are history variables that say which
run began last and which were ever active together.

### ModalityIndex

The index phase of `ingest` for a video, an audio file or an image: the collections
in their order (`Plans`), and for each of them encoding, `delete_media_points` and
`upsert` as separate requests. The `except` and `wait_for` blocks are actions of
their own, because they give up different things: one collection (`BlockFails`),
transcript, audio and OCR together (`OptionalFails`), the audio of an audio file,
with a second write that cleans up (`MediaAudioFails`, `Cleanup`, `CleanupFails`), or
the whole ingestion (`Raise`). A request that was given up may not be executed, may
have been, or may be executed later (`late`, `Land`). `counted` is what the
completed event reports, `failed` what a run gave up without cleaning up.

### FileEmbedding

`CachedFileEmbeddingEncoder.encode_items`. `Stat` and `Hash` are `fingerprint_file` with
its second attempt and the semaphore; `Twins`, `Leads` and `Leaders` are the groups of
`_group_inputs`; `Lookup`, `Verify`, `Encode`, `Check` and `Write` are the steps after
them, one action per file where the code awaits for every file. `Change` rewrites,
creates or removes a file between any two of them, `Expire` evicts an entry, and
another call runs at the same time. The vector of some bytes is those bytes, and so is
their hash: encoder and hash are functions, and no property asks more of them. A
`signature` counts the changes of a file, so two versions of a file are never
mistaken for each other: the code's signature (size, device, inode, mtime in
nanoseconds) is assumed to tell them apart. `had` is a history variable. A call on a
disabled cache only encodes.

### Planning, RenderManifest and VideoEditing

`Planning` is `plan_video_editor` as operators: the targets of a command, the six kinds
of plan, the refusals, and `_round_time` with its rounding to even. Numbers are integers
in units of which `One` make a 1 and `Grain` is what the code rounds to, so that numbers
finer than the rounding exist. `RenderManifest` is `build_manifest` and the frame loop
of `_compose_and_encode_video` as operators over such a document: what is refused
(`Rejected`), owner groups of linked sounds, stack orders, validation of animated values
(`ValidFrames`), and for each frame its layers and the position in their source.
`VideoEditing` is the editing session: `Edit` plans a command and applies the plan. The
editor is external: `Applied` is modelled from the fields of the actions, in the obvious
way: a trim sets start, duration and range (`Changed`), and a split makes two items at
its time, which share the source at the place that is shown there (`FirstPart`,
`SecondPart`, `SourceAt`). The documents that a session can begin with are a constant of
which `DocumentAssumption` says what an editor guarantees: times and a speed the
renderer accepts, as much of their source as items show, ids that differ, videos on
video tracks. `reach` (the part of its source an item had at first), `sped` (the items
whose speed was changed), `even` and `exact` (no number of the document, and none of the
commands either, was finer than the rounding) are history variables. `Request` is what
the planner is asked.

### MediaOptimization, RenderJob and Export

`MediaOptimization` is `optimize` for the three kinds of media, one action per file,
upload and probe: `Variants` in their order, `Mandatory` ones that raise, and optional
ones that leave what they left. `RenderJob` is `render`: the work directory, download,
composition, audio, muxing, upload and stat. A file is `"whole"` or `"part"`. While two
deliveries of one job overlap, either may find any of the files gone, replaced or
half-written (`Written`). `Export` composes the two on one object storage: the job is made
of what an attempt of the optimization reported (`Submit`, the API, external), and a
delivery downloads the object while a later attempt may overwrite it. `Crash` ends
everything that runs in the process. `shared`, `blind`, `died` and `killed` are history
variables.

### Retrieval

`retrieve_video_editor` with its result cache, and the search it caches, while `Ingest`
rewrites the two text collections of a medium one after the other (delete, upsert) and
publishes its revision at the end. A call reads the cache (`Read`, `Discard` of a
damaged value), searches one collection per action (`SearchTranscript`, `SearchOcr`,
each of which may fail with a warning), fuses (`Fused`, with the weights of `_merge_hit`
and the cut at `top_k`), attaches the graph's context and writes the result unless there
was a warning or no key. `distance` is how far each shot is from the query in each
modality, and `Reciprocal` the exact 1 / (60 + rank) in a unit that makes it an integer.
Sorting, by an order given as a set of pairs, is in `Ordering`, which Planning uses as
well. Single flight is used as `AuthoritativeCall` promises it: a call that misses may
look at the cache again before it computes. `Expire` and `Damage` are Redis's.

The `MC...` modules add what only model checking needs: symmetry sets, inputs, and
statements of the documentation that a run compares with the code. The `...Proofs`
modules hold the theorems: `SingleFlightProofs` those of CircuitBreaker too,
`VideoEditorProofs` those of Retrieval and of VideoEditing. Operators marked *Mutant*
change one definition the way a slip in that code would; no specification uses them.
They document which slip each property detects (`PROJECT.json`, "mutants").

## 3. Runs

| Run | Module, configuration | Checks | States |
| --- | --- | --- | --- |
| `breaker` | MCCircuitBreaker, CircuitBreaker.cfg | BTypeOK, ProbeAlone, QuietWhileOpen, RecoversUnlessProbeLost | 6 684 |
| `breaker_wedge` | MCCircuitBreaker, CircuitBreakerWedge.cfg | violates CircuitRecovers | |
| `single_flight` | MCSingleFlight, SingleFlight.cfg | TypeOK, StoredOnce, NoOrphanLock, LockTakenOnlyByOwner, ImplementsAuthoritativeCall, EveryCallEnds | 164 604 |
| `text_batch` | MCTextEmbeddingBatch, TextEmbeddingBatch.cfg | TypeOK, NothingForgotten, NoHoldAndWait, EncodedOnce, EndsUndisturbed | 250 043 |
| `file_embedding` | MCFileEmbedding, FileEmbedding.cfg | TypeOK, EntryIsOfItsBytes, AnswerIsOfTheFile | 1 717 747 |
| `job_delivery` | MCJobDelivery, JobDelivery.cfg | TypeOK, NoJobLost, DeadOnlyAfterFailed, OneOutcome, OneWorker, JobsComeToRest | 245 276 |
| `job_lost` | MCJobDelivery, JobDeliveryLost.cfg | violates FailuresAreReported | |
| `shot_graph` | MCShotGraph, ShotGraph.cfg | TypeOK, GraphIsOfLatest, AloneIsNeverRefused | 414 023 |
| `modality_index` | MCModalityIndex, ModalityIndex.cfg | TypeOK, ReportMatchesIndex, OneGeneration | 2 977 835 |
| `retrieval` | MCRetrieval, Retrieval.cfg | BestFirst, FreshForScope | 734 950 |
| `editing` | MCVideoEditing, VideoEditing.cfg | PlansKeepRenderable, ShowsItsRange, SoundHasOneOwner, RenderedStatesAreValid, LayersAreOrdered | 64 735 |
| `rendering` | MCExport, Export.cfg | ReportsAreBacked, OutputIsWhole, NothingLeftBehind | 2 228 122 |

Bounds, and why they suffice:

- `breaker`: four callers, threshold 3, open period 4 ticks, timeout 2 ticks. More
  callers than the threshold means that the circuit can open while a command
  admitted earlier is still in flight, with a stale success and a stale failure to
  come. The real settings (5 failures, 10 s against 0.5 s) have the same order;
  the proofs need only `TimeoutTicks < OpenTicks`. With a timeout as long as the
  open period, a stale command could still be in flight beside the probe.
- `single_flight`: three calls: a leader, one that takes over, and one that reads
  either's value. No symmetry, which liveness does not allow.
- `text_batch`: two batches, whose inputs are `{x, y}` or `{y, blank}`: crossed batches
  need two texts in common, partly overlapping ones have one, and a blank text is
  encoded beside them. No symmetry, because of the liveness property.
- `job_delivery`: two valid jobs and an invalid one, two handlers: enough for two of them
  to hold the same job, for one to hang while the other works off the rest, and for both
  to hang. Two attempts, two retry queues, and one fault, which makes one duplicate. The
  safety properties are proved for any number of faults.
- `shot_graph`: three runs, three shots: two runs that overlap and leave any mixture,
  and a third that must repair it; shots with no, one and two neighbours.
- `modality_index`: two runs, at most two points, at most one late request at a
  time, all three kinds of media.
- `file_embedding`: two paths and two contents, so that files are twins, become twins or
  stop being twins; two calls, one of which can write between the other's read and
  write; both files of a call hashed at once; three changes in all: both attempts at a
  fingerprint spoiled and one change after it, or both files changed and one of them
  changed back. Files, contents and calls are symmetric.
- `editing`: one second is 16 units, the planner rounds to 4 and a frame is 8, so times
  lie on the rounding and beside it, on frames and between them. Commands use the times
  6, 16, 24 and the speeds 1/8, 1/2 and 2 (one that is rounded to 0, a slow and a fast
  one); two plans, because the second one works on what the first one rounded;
  twenty-four documents: video and sound linked or not, hidden or muted tracks, an
  overlay that is animated through a negative scale, a text, starts on a frame, beside
  one and beside the rounding.
- `rendering`: two attempts and two deliveries, the least that overlap; each may follow the
  other's failure or crash. Attempts and deliveries are symmetric.
- `retrieval`: two calls, three shots of two media, the first of which is ingested twice;
  three kinds of request (one medium with a cut at one result, both media, and one
  without revisions), one cache entry at a time: entries of different keys do not
  meet. Their order by similarity differs in the two collections, so that fusion has to
  decide.

`CHECK_DEADLOCK FALSE` stands where calls, jobs or runs are finite in number and a
behaviour may end with all of them done. The breaker's run checks for deadlock.

## 4. Fairness

- *CircuitBreaker*: `WF(Finish(c))`, since every command is under
  `asyncio.timeout` and therefore ends; `WF(Tick)`, the clock advances; and
  `WF(\E c : Admit(c))`, requests keep arriving, so that an admissible command is
  eventually sent (without traffic nothing probes). Nothing is assumed of Redis
  or of cancellation.
- *SingleFlight*: `WF(Proceed(c))`, since Redis commands are under timeouts and the
  authoritative work returns or raises; `SF(Timeout(c))`, since a follower returns to
  its loop again and again and compares the clock with a fixed deadline each time.
  A call that was never begun need not begin.
- *TextEmbeddingBatch*: `WF(Proceed(b))`, for the same reasons. Nothing is assumed of the
  deadline or of expiry: crossed batches have to end without them.
- *JobDelivery*: `WF(Proceed(h))`: handlers publish and acknowledge, since a publish ends
  or raises; the TTLs of retry queues elapse; and the broker delivers what is queued when
  there is a consumer for it. `Proceed` leaves out the work of the service, `Succeed` and
  `Fail`: ingest, optimize and render are awaited without a timeout, and a render whose
  decoder fills the pipe of its stderr never returns (section 7). So `JobsComeToRest` is
  conditional: a job comes to rest unless the service never returns from this job, or
  every handler is taken for ever. Faults are not fair.
- All others: safety only. In particular, that a render job ends is not claimed.

## 5. Proofs

Checked by TLAPS for all values of the constants; the only assumptions are the
named `ASSUME`s of the modules. The argument of each module:

- **SingleFlightProofs, on the circuit breaker.** `IInv` adds to the checked properties
  that the flag is set only in the half-open state and that *in an open circuit a
  command in flight is at least as old as the opening* (`OldCommandsExpire`).
  `ProbeAlone` alone is not inductive: that the probe is admitted to an empty breaker
  follows only because commands admitted before the opening have timed out when the open
  period ends, which is where `TimeoutTicks < OpenTicks` is used (`CooledIsQuiet`).
  Theorems: `BreakerTypes`, `ProbeIsAlone`, `OpenGoesQuiet`, `ClosedIsBelowThreshold`,
  `FlagIsBacked`, `WedgeIsForever`.
- **SingleFlightProofs, on single flight.** `OwnerAccounted` (whoever holds the lock is
  in its leader section, or disturbed) gives `NoOrphans`. `Exclusive` (while `clean`,
  every leader owns the lock, only a leader works, and it works only as long as nothing
  was stored) gives `FilledOnce`. `Accounted` (every value in the cache or in an answer
  was produced, and nobody who raised has produced) gives `Refinement`: the initial
  state maps to the abstract one and every action to an abstract action or a stutter.
  `OnlyOwnerReleases` is an action property.
- **TextEmbeddingBatchProofs.** `OwnerKnown` (every lock belongs to a batch that owns it
  or lost track of it) and `EmptyHanded` (which stages own nothing) give
  `NoHoldAndWaitCorrect`. `Within` and `Covered` (at every stage each text of the batch
  is in one of the lists that the code after that stage still works through) give
  `NothingForgottenCorrect`: the property itself speaks only of batches that are done. `Held`, `Alone`, `Stored` and `Apart` (while `clean`,
  owned texts are locked, only owned texts are written, everything written is in the
  cache, and what is about to be encoded or written was not written before) give
  `EncodedOnceCorrect`. All of it for any number of batches and texts.
- **JobDeliveryProofs.** `TypeCorrect` with `RetriesAllowed` (a handler retries only
  below the limit, so the next attempt is a copy). `DeadWasReported` from `Reported`
  (a handler at `dlq` with a valid job has published its failure).
  `NothingLost`: every submitted job is completed or has a copy in the broker, and a
  handler about to acknowledge is backed by a completed event, a dead letter or a copy
  with a later attempt (`AllBacked`; the growing attempts keep two handlers from
  backing only each other). Only `Ack` removes a copy without putting
  one elsewhere (`OnlyAckRemoves`). The theorem assumes
  `MaxAttempts <= NumDelays`; see section 6 for what happens otherwise.
  `OneOutcomeOnly` and `OneWorkerOnly` from `Single`: a job without a fault is in one
  place, a copy in one queue or with one handler that is not done with it, and nowhere
  once it has an outcome. A copy that waits for its acknowledgement does not count, which
  is what makes a retry that overtakes the acknowledgement harmless.
- **ShotGraphProofs.** `NobodyElse` (while a run that has not overlapped is active it
  is the latest and the only active one) and `Progress` (what the graph contains
  at each statement of such a run, in terms of `at`) give `LatestGraph` and
  `NeverRefused` for any number of runs and shots.
- **ModalityIndexProofs.** `SoFar` says, for each collection of the plan, what the latest
  run has made of it so far: what it will report where it has passed, no points between
  its delete and its upsert. `Ahead` (a run has neither counted nor given up what is still
  to come), `Unplanned` (collections its kind of media does not have stay empty) and
  `NobodyElse` complete the invariant. `RunStep` shows once that a run that touches only
  the collection it is at keeps all of this, and `AbandonedFacts` that a request it gave
  up does not reach further; one lemma per action does the rest. Theorems: `TypeCorrect`,
  `ReportIsTrue`, `OneGenerationOnly`, for any number of runs, points and late requests.
- **FileEmbeddingProofs.** `PrintsHold` (a file that has its fingerprint's signature has
  the bytes that were hashed), `StorableIsHashed`, `Current` (the vector of a group that
  may be stored is right as long as its file is as fingerprinted) and `Checked` (after
  the check it is right for good, whatever becomes of the file) give
  `EntriesAreOfTheirBytes`. `AnswersAreOfTheirFiles` is about the past of the files,
  which `had` keeps for each call. Five parts of `Traced` follow a vector from the read
  of the cache to the return: `Seen` (until the encoder has read them, the bytes a file
  has are among those it had), `Genuine` (what a fingerprint that still fits says was
  among them, too), `Settled` (each group is encoded, or is a hit that was verified for
  every file of it), `Encoded` and `Prints`. The verification asks for every file of a
  group whether it is as fingerprinted: a hit stands only if all of them had the hashed
  bytes (`Verified`).
- **ExportProofs.** Of the optimization: `FilesAreWhole`, `NamedIsStored` and
  `ObjectsAreWhole`. Of the render job: who runs alone (`Alone`), what the directory holds
  at each step of such a delivery (`Progress`), `StoredIsWhole` and `UploadedIsThere`.
  The composition is where the two meet: a delivery downloads the canonical object, which
  is mandatory and therefore whole, whichever attempt wrote it. Theorems:
  `ReportsBacked`, `OutputWhole`, `DiskIsClean`.
- **VideoEditorProofs, on retrieval.** `PlaceFacts` and `SortedFacts` say what sorting
  by a strict total order does, for any finite set; the order of fusion is one
  (`RankingIsOrder`). `BestAreFirst` needs of the weights only that they decrease with
  the rank, which follows from what `ReciprocalAssumption` says of them
  (`ReciprocalFacts`). `AnswersAreFresh` is an action property. Its invariant `Fresh`:
  of a medium the last of whose ingestions is published, none is running (`Published`);
  a call keeps for each collection it has searched exactly what the collection has of
  the media not ingested again since (`CallsFresh`); and so does every entry of the
  cache for the revisions of its key (`CacheFresh`). Both are stated of *revisions that
  nothing has been begun after*, and this is what makes them stable: an ingestion begins
  before it touches the index, and from then on nothing is said of its medium
  (`IngestFacts`, `SteadyStep`). That a search is faithful and a fusion of faithful
  searches exact are `FoundFaithful` and `FusedCorrect`.
- **VideoEditorProofs, on editing.** `SoundIsOwnedOnce` needs no invariant: it holds for
  any timeline. For the other four, `EditInv` says of every item of a session, after any
  number of plans: ids differ and what the renderer reads is there (`Typed`); in an
  `even` document, times and speeds are multiples of the rounding (`Numeric`), and the
  item is within its reach (`Within`), unless its speed was changed; after `exact`
  commands only, the renderer accepts it (`Renderable`). The step has three levels.
  `PlanFacts` says what a plan is, whatever the command and the selection (`IsPlan`: a
  trim has a range its item has, a split is within its item). `StepFacts` says what
  applying it does to the tracks: each new item is an old one, a part of one, or a new
  text (`Stepped`, `Becomes`). And per item, `TypedStep`, `NumericStep`,
  `RenderableStep` and `InReachStep` show that `Becomes` preserves each part. The last
  is where roundings could add up: a trim rounds its range twice, but takes nothing from
  beyond `item.out`, and a split cuts the source in two at one place, so the slack of
  `Within` stays that of one rounding, however many plans there were. `GridFacts` and
  `RoundRatioFacts` are the arithmetic. `ExportStaysInReach` then goes from the item to
  every frame in which it is drawn. `LayersAreStacked` rests on `DrawnFacts`: keys of
  `_stack_orders` are strictly ordered because ids differ, so places are unique
  (`StackFacts`, from `PlaceFacts`).

Model-checked only: all liveness (`RecoversUnlessProbeLost`, `EveryCallEnds`,
`EndsUndisturbed`, `JobsComeToRest`), which needs ENABLED and fairness and is out of the
prover's reach. Every other property that a passing run checks is a theorem as well.
`BestFirst` and the editing properties are proved of exact numbers (section 7);
`RenderedStatesAreValid` says that frame loop and validation look at the same times, so
its proof does not depend on what an animation evaluates to.

## 6. Where the code and its documentation disagree

- `breaker_wedge`: CACHING.md:113 says that a probe's success closes the circuit. When
  the task carrying the probe is cancelled (a client that disconnects, a shutdown of a
  worker), neither `record_success` nor `record_failure` is called; the flag stays
  set and the process never uses Redis again (theorem `WedgeIsForever`). This is the only
  way in which recovery fails: `RecoversUnlessProbeLost`.
- `job_lost`: `publish_retry` addresses `<queue>.retry.<n>` for every attempt, while one
  queue is declared per configured delay, and no setting is checked against the other.
  With more attempts than delays the exchange drops the message, the original is
  acknowledged and the job vanishes, although modules/ingestion/README.md:28 promises
  `ingestion.failed`. The defaults (3 and 3) are safe, which is `NothingLost`.

Read off the code without a run:

- CACHING.md:112 says that five failures open the circuit for ten seconds.
  `record_success` closes it in any state, so a command that was sent before the opening
  and succeeds after it closes the circuit early and without a probe. Once the circuit is
  half-open this cannot happen any more (`ProbeAlone`).
- CACHING.md:112 speaks of the process-local circuit. A process with both stores has two
  circuits, of which one may be open while the other is closed, and both set the one gauge
  `kuvox_cache_circuit_state` (`metrics.py:176`).
- modules/ingestion/README.md:28 says that `ingestion.completed` is published only after
  all configured indexes succeed. The best-effort blocks swallow the failure of a
  modality, and the ingestion completes with a zero count.
- CACHING.md:207 allows revisions in lower- and upper-case hexadecimal digits; the pattern
  in `result_cache.py` accepts lower case only, so other revisions bypass the cache.

## 7. What is not modelled

- Encoders, ffmpeg, OCR and transcription: functions without state of their own. Their
  failure, their absence of output and their changing output are choices of the
  models (`Encode`, `Detect`, `Fail`).
- `write_audio` and `write_image`: one `MERGE` each. Metadata merging of ingestion.
- Whether a Qdrant collection exists; a failing `ensure_collection` is one of the
  failures after which ModalityIndex gives up a block.
- Keys, envelopes and codecs of the caches: an entry is the computation it came from,
  a corrupt or oversized one is a miss.
- The text embedding cache without single flight: one lookup, one call of the encoder,
  one write, without any coordination. That the vectors of equal texts are copied to
  all their positions.
- In FileEmbedding the codec is reduced to refusing a value; two versions of a file with
  equal signatures are excluded. A file that another file of the call equalled is given
  the vector of its representative: if the representative changes before the encoder reads
  it, that is a vector of bytes the twin may never have had. It is returned but not
  stored; `AnswerIsOfTheFile` states this exception.
- In Retrieval, evidence, texts and neighbours, and the visual and audio collections,
  which the service answers with a warning. What is cached while an ingestion rewrites the
  index is of no promise until the revision changes.
- In Planning, the regular expressions (a command is its groups). The planner checks neither
  locked tracks nor that items of a track overlap, never uses its target kind `text`,
  rounds a speed below its grain to 0 although it refuses 0 with "Speed must be greater
  than 0x.", and may round a split to the end of the item: `PlansKeepRenderable` speaks of
  commands with at most three decimals.
- `even` and `exact`: without them both properties are false of the code. A split rounds
  its time, so in a document with finer times it may be placed after the end of its
  item. The arithmetic is exact: the unit is a millionth or finer (`Grain * Grain >=
  One` in `NumberAssumption`), and floating-point errors, which are far below a
  thousandth, are left out.
- Of faults a job has suffered itself: a job that is redelivered while its first handler
  goes on does have two workers and may have two outcomes. `OneOutcome`, `OneWorker` and
  `GraphIsOfLatest` except such jobs and overlapping runs; they say that nothing else leads
  there, and that the next run alone repairs what they left.
- In RenderManifest, pixels, colours, easing and text layout; of the validation of animated
  values only the scale is evaluated, not crop and opacity, since what matters here is at
  which times frame loop and validation look. `LayersAreOrdered` is about videos: images,
  which a video track may hold as well, have the same keys. The validation counts frames
  from the item's start and the frame loop from the start of the timeline, so
  `RenderedStatesAreValid` speaks of items that start on a frame. An item without a speed
  has speed 1 for the planner and is refused by the renderer. A muted audio track still
  owns the sound of its group. The decoder is given no end: only the plan keeps the range.
- In RenderJob, how much a decoder writes to its stderr, which nobody reads before it is
  closed. A decoder that ends early leaves its layer out of the video without an error
  (`blind`). Deliveries that overlap may upload half-written output; `OutputIsWhole` speaks
  of those that do not, and JobDelivery says when they do.
- Threads that go on when the task awaiting them is cancelled at shutdown: an image
  optimization may still create its directory (`modules/media_optimization/service.py:477`)
  after the `finally` block has removed it. `rmtree` is taken to succeed; its errors are
  ignored by the code.
- In MediaOptimization, the arguments of ffmpeg. An optional command that failed may leave a
  partial file, which is uploaded because it exists, even over a whole one.
- HTTP routes, metrics, logging, the sandbox stub: no behaviour of their own.
- In ModalityIndex, a run begins when its graph writes are done; what a hit means for
  the graph needs the composition of the two (see the plan).

## 8. Plan

Every component with behaviour of its own now has a module. What is left, in this order:

1. The composition of ShotGraph, ModalityIndex and the reader of Retrieval: which hits can
   be of shots the graph does not have, and for how long.
2. `ensure_collection` of `QdrantShotEmbeddingWriter`: two workers that create one
   collection.
3. Liveness of retrieval on top of `EveryCallEnds`, and of a render job once the decoder's
   pipe is read.
