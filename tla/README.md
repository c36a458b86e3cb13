# LimbWorker: specifications, model checking and proofs

LimbWorker is a worker process: it takes image requests from a RabbitMQ broker,
reads each image from MongoDB GridFS, runs a neural network on it (background
removal, upscaling), writes the image back and reports to the client.  This
directory specifies it in TLA+ from the ring of its thread pool to the requests
of its clients, checks it with TLC on small instances, and proves its main
invariants with TLAPS for every instance.

Contents: [1 The system](#1-the-system), [2 Modules](#2-modules-and-how-they-correspond-to-the-code),
[3 Runs](#3-runs-what-they-check-and-what-they-show), [4 Fairness](#4-fairness),
[5 Proofs](#5-proofs), [6 Disagreements](#6-where-the-code-and-what-is-said-of-it-disagree),
[7 Abstractions](#7-abstractions-and-assumptions), [8 Not modelled](#8-not-modelled-and-why),
[9 What is left](#9-what-is-left).

Paths below are relative to the repository (`PROJECT.json` writes them with `src/`
in front).

## 1 The system

```
 RabbitMQ <-> AmqpHandler <-> AMQP-CPP <-> AmqpTransport --> ThreadPool --> handleProcessImage
              (socket, buffers,  (library)  (callbacks,      (MPMC queue,    (a worker thread)
               loop, heartbeats)             replies, acks)   workers)          |
                     ^                            ^                             v
                     |                            +---- progress, result ---- App::processImage
                     +--------- frames of every channel call ------+            |
                                                                     ImageService::processImage
                                                                      |        |           |
                                                                MongoClient  codec   processor container
                                                                                     (lazily initialised)
```

### 1.1 Inventory

| Component | State | Operations | Used by, through | What is hard | Correct means |
|---|---|---|---|---|---|
| `MPMCBoundedQueue` (`include/thread-pool/limb-queue.hpp`) | ring of cells with sequence numbers, two positions | `push`, `pop` | pool: any number of threads | lock-free; relaxed loads; cell reuse | a bounded FIFO; `false` only when full or empty |
| `ThreadPoolImpl`, `Worker` (`thread-pool.hpp`, `worker.hpp`) | ring, worker threads, one running flag and one mutex per worker, a shared condition variable | `tryPost`, `post`, destructor, `threadFunc` | transport posts; workers call the transport's handler | wait and notify without a common mutex; a handler variable that is never cleared; exceptions swallowed | an accepted task is called once; the backlog is bounded; the destructor returns |
| `AmqpHandler` (`amqp-handler.cpp`) | socket, `outBuffer` with two mutexes, input buffer, heartbeat clock, `quit` | `loop`, `onData`, `sendDataFromBuffer`, `heartbeater`, `close` | AMQP-CPP calls `onData` from every thread that uses the channel; the loop parses input | buffer shared under two different mutexes; three nested mutexes; partial sends | frames reach the socket once, in order; contents are not interleaved; no deadlock |
| `AmqpTransport`, `AmqpTransportAdapter` (`amqp-transport.cpp`) | channel and its mutex, the pool, consumers | message callbacks, `sendResponse`, `sendAck`, `sendReject`, `handleProcessImage` | broker through the handler; the pool; the application | replies from several threads; crash between reply and acknowledgement; full pool; failing steps | every request is answered and settled once, the answer first |
| `ImageService`, `ProcessorProvider`, `ProcessorInitializer`, `ProcessorStorage` (`include/image-service/`) | map of containers, set of initialised indices | `processImage`, `acquireContainer`, `clear` | pool threads, through `App` | first use initialises without a lock; failures are ignored and remembered | a processor works on a loaded, live model; a ready container serves |
| RMBG and RealESRGAN containers (`processors/`) | one session or net pointer | `init`, `deinit`, `tryAcquireProcessor`, `process_image` | initialiser and service | publish before load (RealESRGAN), failure paths; stripes, tiles, padding and eight orientations over six sizes | see above; every output pixel comes from the one below it |
| Loopback (`processors/loopback`) | none | copies pixels | as above | nothing | - |
| `App` (`include/limb-app.h`) | service, loader, capabilities | `init`, `processImage`, `deinit` | main, transport | `init` fails half way; order of destruction | what is listed is served; nothing leaks or is used after it is destroyed |
| `MongoClient` (`mongo-client.cpp`) | pool of clients | `getImageById`, `updateImageById` | service, any worker | remove and upload are two steps; a client is returned early; results of writes are ignored | an update alone never loses the image; what was acknowledged is in it; a client serves one thread |
| `ProcessorLoader` (`processor-loader.cpp`) | directories, modules, the module index of every container | constructor, `reload`, `addLoadDir`, `removeLoadDir`, allocate, destroy | `App` | unloading what is in use; indices that outlive a reload | containers live inside loaded libraries and go back to where they came from |
| `CodecFactory`, codecs (`internal/image/`) | two codecs per factory behind a mutex | `acquireFromData`, reclaim, decode, encode | service, any worker | unknown format; every way out must reclaim | a codec serves one thread and is never lost |
| `FixedFunction` (`fixed-function.hpp`) | inline storage, three function pointers | move, call | pool handlers | what a move leaves behind | a handler is called from one place |
| `CapabilitiesProvider` | list behind a mutex | add, list, clear | `GetAppInfo` | little | - |
| Task parser, configuration, `main`, utils | none after start | parse, read, construct | - | parse may throw; integer edges | - |

### 1.2 How the parts interact

* The network thread runs `loop()`: it reads the socket, lets AMQP-CPP parse,
  and AMQP-CPP calls the transport's callbacks in that thread.  A ping and an
  inquiry are answered there; an image request is posted to the pool.
* A pool thread runs `handleProcessImage`; progress, result and acknowledgement
  are channel calls, and each becomes frames which AMQP-CPP hands to `onData` in
  the calling thread.  So `outBuffer` is written by the network thread, the
  heartbeater and all workers.
* Every pool thread calls `ImageService::processImage` on one shared service:
  nothing there has a lock except the codec pool and the Mongo client pool.
* The process may end at any point; the broker redelivers what was not settled.

### 1.3 What makes it hard

`PROJECT.json` lists 40 hazards at their lines, each with the properties
that watch it; two have none, with the reason.  The main groups: the cell
protocol of the queue; the gap between a worker's last look and its wait; two
mutexes over one buffer; order of reply, acknowledgement and progress over a
crash; removal and upload of one image by several workers, failing in between;
initialisation without a lock; a heartbeat that is computed from two clocks that
another thread sets; the order in which everything is destroyed.

## 2 Modules and how they correspond to the code

| Module | Models | Steps |
|---|---|---|
| `BoundedFifo` | abstract: what the queue promises | a push appends, a pop takes the head |
| `LimbQueue` | `MPMCBoundedQueue::push`, `pop`; implements `BoundedFifo` | one access to shared memory per action |
| `ThreadPool` | `tryPost`, `~ThreadPoolImpl`, `Worker::threadFunc` | one action per access to queue, flag or condition variable |
| `AmqpHandler` | `onData`, `sendDataFromBuffer`, the lock of `sendResponse` | one action per lock, copy, commit, send, drain |
| `AmqpConnection` | `loop`, `onNegotiate`, `heartbeater`, `onClosed`, the destructors, against a clock | a call that sends is one step |
| `AmqpTransport` | the callbacks, `handleProcessImage`, broker, crash and restart | one action per channel call or callback |
| `Lending` | abstract: what the users of a pool of clients or codecs rely on | an item is lent or returned |
| `MongoClient` | `getImageById`, `updateImageById`, GridFS, the pool of clients | one action per call of the database library |
| `CodecFactory` | acquire and reclaim under the mutex | one action per critical section |
| `ImageJobs` | `handleProcessImage` around `ImageService::processImage`, composed of `MongoClient` and `CodecFactory`; implements `Lending` twice | theirs, and one per step of the request |
| `ImageService` | `processImage`, the initialiser, the containers' `init`/`deinit`, `App::deinit` | one action per read or write of shared state |
| `TileGrid` | `RealesrganProcessor::process_image` and its four shaders | one action per upload, tile, download |
| `ProcessorLoader` | constructor, `reload`, `addLoadDir`, `removeLoadDir`, allocate, destroy, unload | one action per operation |
| `LimbApp` | `App::init`, `deinit`, `~App`, storage and capabilities, composed with `ProcessorLoader` | one action per container |
| `MC*` | model values and symmetry sets for TLC | - |
| `*Proofs` | theorems (section 5) | - |

`PROJECT.json` maps every definition to its lines.  Definitions whose comment
begins with "Mutant" are wrong variants, each the likely result of a slip; they
stand next to the definition they vary, no action uses them, and substituting
one breaks the property it was written for.

**LimbQueue.** `enqueuePos`, `dequeuePos`, `seq`, `data` are the members;
`pos` and `item` are the locals of a call; `pc` is where the call is.
`PushLoad`/`PopLoad` are relaxed loads and may return any value between what
this thread has seen last and the current one.  `PushCheck`/`PopCheck` are the
acquire load of the cell's sequence and the three branches on `dif`.
`PushClaim`/`PushClaimFails` are the weak compare-and-swap, which may fail
spuriously.  `log` is history: values in order of their claimed positions.  The
refinement to `BoundedFifo` maps a push and a pop to the moment they claim.

**ThreadPool** composes with the queue through what `LimbQueue` establishes: push
and pop are one step each, with the still unpublished cell (`unpublished`) and
the cells still being released (`holds`) kept visible because they make `tryPost`
refuse and `pop` fail.  `handler` is the local of `threadFunc`, never cleared.
`block` is the gap between the evaluation of the predicate and the wait.  `runs` counts the
calls of each handler: `Call` makes one whatever was called before, so a stopped worker that
leaves the wait without a task calls its last handler again.  (The transport posts
`std::packaged_task`s, which answer such a call with an exception; that is the library's
doing and not in the model.)  `Ring` is the
pool seen as a `BoundedFifo`, with `handler` as the output argument of `pop`: the pool and
`LimbQueue` meet in the same abstract queue (`UsesFifo`, a theorem).

**AmqpHandler.** `buf` and `use` are `outBuffer.m_data` and `m_use`; `copy` and
`commit` are the two halves of `Buffer::write` and `m_use += write`; `send` and
`drain` are `send1` and `drain`.  `chOwner`, `writeOwner`, `sendOwner` are the
three mutexes.  `wire` is what the socket has accepted up to the first send that failed or
took only a part; `broken` says that there was one.

**AmqpConnection** is the same handler seen over its whole life.  `mpc` is where `main`
is, in `loop()` or in one of the destructors, in the order of the members; `object` says
whether the `AMQP::Connection` exists, `connection` is the handler's pointer to it.  Time
is counted in ticks of `HEARTBEAT_RESOLUTION`; the time points are kept as ages, which
stop growing where no comparison can tell them apart (`Oldest`).  `slept` bounds how long
the heartbeater takes for one round: a tick and `Jitter`.  `Decide` is the comparison as
`uint16_t`: when a message goes out after the time was taken the difference is negative,
and both branches are possible.  While `main` is in `~ThreadPool` (`pool`) an idle worker
leaves (`Leave`), misses flag and notification and waits on (`Oversleep`), or takes another
task (`TakesTooLate`): `~AmqpTransportAdapter` is over by then, so the call of
`handleProcessImage` is a pure virtual one and the process is aborted.

**AmqpTransport** takes channel calls as atomic (their frames are in
`AmqpHandler`) and the pool as a bounded sequence (its threads are in
`ThreadPool`).  `ready`, `unacked`, `acked`, `dropped`, `replies` belong to the
broker, which is external.

**MongoClient.** `mpc` is where each worker is in a call of the repository, and `img`,
`filedata`, `chunk`, `ret`, `outBuf`, `client` are its locals.  `files` and `chunks` are
the two collections of GridFS: a document and its chunks are written and removed
separately, and the document last.  An image is a version, a format and the requests that
have been applied to it, in order.  Between `RemoveDocument` and `Close` a call is in its
`Window`: there the store holds no whole image.  `broken` and `overlap` are history: the
images of which an update failed half way, or two were in the window at once.

**CodecFactory.** `m_pool` and the codec each `unique_ptr` holds.  A codec is a type and a
number, so that two holders of one codec can be told from two codecs.

**ImageJobs** puts the request around them: `jpc` is where the worker is in
`processImage`, `ready` and `acked` belong to the broker.  `Crash` is the copy of -1 bytes
in `getImageById` or the call through a null codec.  `ProcessEnds` happens at any step of
any worker: calls, clients and codecs are gone, the store stays, and what was not
acknowledged is delivered again.  `outdated` is history: an update that replaced a newer
version than the one it was made of.

**ImageService.** `initialized` is `m_initializedMap`, `snapshot` what an insertion has seen
of it; `model[c]` is the `session` or `net` pointer; models are numbered in the order they
are allocated, and `params`, `loaded` and `freed` say what became of each.  `Early`
containers are of the kind of RealESRGAN: `InitBegins` publishes a new net, and then
`SetsUp`, `LoadBegins` before `load_param` and `LoadBegins` before `load_model` each read the
pointer again, so that an init may load the layers of one net and ask another, which has
none, for its weights.  The others are of the kind of RMBG, which reads the file, makes the
session and then publishes it.  Every call of the libraries may fail each time it is made;
`DeinitReads`, `Deletes` and `Forgets` are the `deinit` of an init that has failed, on
whatever model is there by then.  `Undefined` lists the places where a worker uses null,
a deleted object or an object another worker is writing; `Crash` is the end of the process
there, and the worker may also go on.  `inits`, `raced`, `disturbed`, `began` and
`hasty` are history.

**TileGrid.** A pixel is its coordinates, so `out` says for every offset of the output
from which pixels of the input it was made.  The operators between the state and the
actions are the arithmetic of the C++ code and of the shaders; the network is external and
keeps pixels in their places.

**ProcessorLoader, LimbApp.** `m_loadDirectories`, `m_modules`, `m_processors`,
`m_containers`, `availableProcessors` are the members.  `refs` counts how often a library
is open, `home` is the library whose code a container runs; both belong to the dynamic
linker.  `OnlyLooks` is `RTLD_NOLOAD` in the verification of a library.

## 3 Runs: what they check and what they show

`tlc -config <cfg> <module>` repeats a run.

| Run | cfg | Checks | Shows |
|---|---|---|---|
| `queue_mpmc` | `LimbQueue_mpmc` | `RingInv`, `CellOwnersExclusive`, `FullIsJustified`, `EmptyIsJustified`, `TakesOwnPosition`, `FifoSpec` | cells are exclusive through any interleaving, stale load and failed swap; values come out as they went in; `false` is justified; the queue refines `BoundedFifo` |
| `pool` | `ThreadPool_all` | `PoolInv`, `NothingLost`, `CalledAgainOnlyByStop`, `OutstandingBounded`, `TakenWhileAwake`, `DestroyedUnlessRaced` | accepted tasks are held once and called once, except that a stopped worker may call its last one again before it exits; an awake worker takes what is queued; the destructor returns unless a worker was about to sleep |
| `pool_destructor` | `ThreadPool_destructor` | `DestructorFinishes` | violated (section 6) |
| `amqp_out` | `AmqpHandler_out` | `HandlerInv`, `FramesInOrder`, `NeverFull`, `NoDeadlock`, `ResponsesNotMixed` | the two mutexes over `outBuffer` suffice, three mutexes never deadlock |
| `connection` | `AmqpConnection_all` | `ConnectionInv`, `SilenceIsBounded`, `EndIsReached` | the connection is never silent much longer than the interval; workers are gone before the connection, nobody uses what is freed, a heartbeater uses a destroyed connection at most once; the process ends when it is told to, regularly or by an abort, unless a worker oversleeps the end of the pool |
| `transport_images` | `AmqpTransport_images` | `TransportInv`, `FinalIsLast`, `OnlyFailuresLeak` | image requests over a crash: one place per request, one verdict per delivery, result last, places of the window leak with failures only |
| `transport_mixed` | `AmqpTransport_mixed` | `AckedWasAnswered`, `DoneIsSettled` | pings of every kind with images: the answer precedes its acknowledgement, also when the parser throws at another; a sent result leads to a settled request |
| `image_jobs` | `ImageJobs_all` | `JobsInv`, `LossNeedsFailure`, `DoneIsInStore`, `AppliedOnce`, `LendsToOne` | two requests for one image through a store that may fail at every call, with an end anywhere: what can lose an image, what can lose an acknowledged result, and that nothing else can; clients and codecs are lent to one thread and come back |
| `service_use` | `ImageService_all` | `ServiceInv`, `ProcessesOnUsableModel`, `ReadyIsServed`, `SettledIsReady` | inits that overlap, repeat, throw or fail, of both kinds of containers: a second init of a container needs a race in the set; unless inits of one container overlap or a repeated one fails, processors have loaded models and a ready container serves; whatever happens, inits leave a loaded model or none |
| `tiles` | `TileGrid_all` | `GridTypeOK`, `OutputIsImage`, `PaddingIsSurrounding` | no gap, seam or overlap in the output for any remainder of the division into tiles; of images larger than the padding only uploaded pixels are read |
| `loader` | `LimbApp_all` | `AppInv`, `ListedIsServed`, `NothingLeaks` | `init` that fails half way, repeated `init` and `deinit`, reloads: what is listed is served, libraries stay open while containers live, nothing leaks |
| `loader_found` | `LimbApp_found` | `LibrariesAreFound` | violated (section 6) |

### Bounds and why they are enough

* **Queue**: two pushers, two poppers, two cells, three values; no symmetry, because
  a refinement is checked.  Two cells are the least the constructor accepts and the
  hardest case: the third value reuses a cell, a pusher waits for a popper one round
  behind and a stale position is a whole round old.  The theorems of section 5 remove the bounds.
* **Pool**: two workers, two cells, three tasks: one more than cells, so that posts are
  refused both by a full ring and by a busy cell; two workers compete for one task and for
  one notification.  Safety is proved without bounds.
* **AmqpHandler**: network thread, heartbeater, two workers, one call each
  (`MaxCalls`), buffer of one frame (`Capacity`).  One frame is the least capacity
  and makes `NeverFull` strongest; responses of two workers meet on the channel.
  Safety is proved without bounds.
* **AmqpConnection**: intervals of 3 to 5 ticks from proposals below, between and above the
  limits (0, 4, 9), one tick of `Jitter`, two requests (`MaxTasks`) and two workers: a
  message may go out at every point of the heartbeater's round, and the interval is longer
  than a round with its delay.  Safety is proved for every interval and jitter.
* **AmqpTransport**: three images (one unusable) and an inquiry with two workers, a
  window of three and a ring of two, so that a request is refused by the ring and
  another by a busy cell; one progress report per task (`MaxProgress`), one end of the
  process (`MaxExits`).  With pings one worker is enough, since the queues meet only on the
  wire.  Safety is proved without these bounds.
* **ImageJobs**: two workers, two clients, two requests on one jpg, two chunks, one restart
  (`MaxExits`).  Two requests on one image are the case in which updates meet; a jpg is the
  format for which a thread needs two codecs; with two chunks a read can end in the middle
  of an image and an upload between two chunks.  Images do not influence each other, and the
  proofs allow any number.
* **ImageService**: two workers with two calls each (`MaxCalls`) and one container of each
  kind.  Two containers in one set are needed for a lost insertion; a second call per
  worker for a first use after a lost insertion and for a call that begins when a container
  is ready.  Two inits of one container meet at every point of loading, failing and
  deleting; the theorems allow any number.
* **TileGrid**: tiles of 3, padding 2, scale 2 for 200, 10 and 4; widths and heights 1, 2, 3,
  4, 5, 7 are one pixel, the padding, a whole tile, a tile with one and two pixels left, and
  three tiles.  All pairs, with and without alpha and test-time augmentation.  As in the
  code a tile is larger than its padding.
* **LimbApp**: two libraries, two directories and one that is missing, five containers, three
  loads (`MaxLoads`) and three inits (`MaxInits`).  The constructor lists the default
  directory twice, as `main` makes it do, so four modules are found at once: five containers
  are one more than one `init` allocates.

`CHECK_DEADLOCK FALSE` is set where the system may stop: a destroyed pool, a
closed connection, all requests settled, an application that is deinited.  The
queue run checks deadlock.

## 4 Fairness

* **ThreadPool**: weak fairness of each worker's own steps and of what the owner
  has begun (`OwnerContinues`): a preemptive scheduler runs a runnable thread, and
  task bodies return.  None for posting and destroying (the program may do
  neither), none for spurious wakeups (the language allows and does not promise
  them).  A notification is part of the notifier's step.
* **AmqpTransport**: weak fairness of each worker that has a task (`Work`) and of
  the wire (`BrokerReceives`).  None for taking a task from the pool, which need not
  happen (section 6).  None for restart or end.
* **AmqpConnection**: weak fairness of main, the heartbeater, of each worker that answers or
  is idle when the pool is destroyed (`WorkerGoesOn`), of the clock, and of `Receive`: a broker to which the socket is open sends heartbeats, as was
  negotiated.  The code needs this: `recv1` blocks, and `quit` is only looked at when it
  returns.  None for `Quit` and the failures of the network, none for
  taking a task, and none for what could wake a worker that oversleeps the end of the pool.
* The other modules have no liveness property.

## 5 Proofs

`tlapm <module>` checks a proof module.  Assumptions are those named with the
constants in each module, plus what a row names.

| Theorem | Statement |
|---|---|
| `LimbQueueProofs!RingIsConsistent` | `Spec => []RingInv` |
| `CellsNeverShared`, `PopsTakeTheirOwn`, `FullMeansFull`, `EmptyMeansEmpty` | `[]CellOwnersExclusive`, `[]TakesOwnPosition`, `[]FullIsJustified`, `[]EmptyIsJustified` |
| `QueueIsFifo` | `Spec => Fifo!Spec` under the refinement mapping |
| `ThreadPoolProofs!PoolIsConsistent` | `Spec => []PoolInv` |
| `AcceptedNotLost`, `WorkIsBounded` | `[]NothingLost`, `[]OutstandingBounded` |
| `OnlyStopCallsAgain` | `[]CalledAgainOnlyByStop` |
| `PoolUsesFifo` | `Spec => UsesFifo`, the specification of `BoundedFifo` under the refinement mapping |
| `AmqpHandlerProofs!HandlerIsConsistent` | `Spec => []HandlerInv` |
| `SocketKeepsOrder`, `BufferHasRoom`, `ContentsStayApart`, `LocksCannotDeadlock` | `[]FramesInOrder`, `[]NeverFull`, `[]ResponsesNotMixed`, `[]NoDeadlock` |
| `AmqpConnectionProofs!ConnectionIsConsistent` | `Spec => []ConnectionInv` |
| `SilenceStaysBounded` | `Spec => []SilenceIsBounded` |
| `AmqpTransportProofs!TransportIsConsistent` | `Spec => []TransportInv` |
| `AckFollowsResult`, `ResultComesLast`, `WindowLeaksByFailure` | `[]AckedWasAnswered`, `[]FinalIsLast`, `[]OnlyFailuresLeak` |
| `ImageJobsProofs!RepositoryIsConsistent` | `MongoSpec => []MongoInv`, for any callers |
| `LossHasACause` | `MongoSpec => []LossNeedsFailure` |
| `NoImageIsLost` | `Spec => []LossNeedsFailure` for the composition |
| `JobsUseRepository` | `Spec => MongoSpec` |
| `DoneStaysInStore`, `NothingTwice` | `[]DoneIsInStore`, `[]AppliedOnce` |
| `JobsAreConsistent` | `Spec => []JobsInv` |
| `PoolsLendToOne` | `Spec => ClientLending!Spec /\ CodecLending!Spec` under the refinement mappings |
| `ImageServiceProofs!ServiceIsConsistent` | `Spec => []ServiceInv` |
| `SecondInitIsARace` | `[]SecondInitNeedsRace`, a part of `ServiceInv` |
| `ModelsAreUsable`, `ReadyStaysServed`, `InitsSettle` | `[]ProcessesOnUsableModel`, `[]ReadyIsServed`, `[]SettledIsReady` |
| `ProcessorsProofs!ContainersAreHome` | `Spec => []AppInv` (`LimbApp`) |
| `ListIsServed`, `AllIsGivenBack` | `[]ListedIsServed`, `[]NothingLeaks` |
| `TilesAreCounted` | `GridSpec => []GridTypeOK` (`TileGrid`) |
| `ImageIsOutput`, `TilesArePadded` | `[]OutputIsImage`, `[]PaddingIsSurrounding` |

**The ring.** Exclusive cells are not inductive: one must know why a sequence
number that matches a position gives the right to the cell.  `RingInv` says it for
the `Size` positions from `dequeuePos` on, which are all the cells there are:
`PushedCells` (published, or its pusher still owns it), `FreeCells` (free, or the
popper one round earlier still owns it), and what each thread knows of the cell it
holds or is about to claim.  The arithmetic is in lemmas on `%`: two positions less
than `Size` apart have different cells, one `Size` apart have the same.

**The pool.** `NothingLost` needs that a worker's handler is overwritten only after
it was called, hence `HandlerInv`: an uncalled handler is held by one worker, in
`release` or `call`, and is not in the queue; and `QueueInv`: what is queued is
accepted, uncalled and queued once.  For `CalledAgainOnlyByStop`, `HandlerInv` adds that a
handler, called or not, is in one worker's variable only, and that a worker which is about
to call one that has run was stopped; it exits after the call, and its flag is never set
again.  The bound then counts: unfinished tasks inject
into ring positions and workers.

**The handler.** `FramesInOrder` needs that a flush sends exactly what was committed.
The key fact is `BufferInv`: `use` is at most 1, because the thread that committed a
frame flushes it before it releases `writeMtx`, so the next writer finds the buffer
empty; the loop, which has only `sendMtx`, can at most flush earlier.  Therefore
`Copy` and a concurrent `Drain` cannot overlap.  `ResponsesNotMixed` needs that a
waiting head belongs to the owner of `m_chMutex` (`HeadWaits`).  The absence of
deadlock follows from `LockInv` alone: the locks are nested in one order.

**The connection.** `SilenceIsBounded` is not inductive: the bound depends on when the
heartbeater last looked.  `SilenceInv` relates the ages: the last message is never older
than what the heartbeater counts from (`lastMessage <= lastSent`), and what it counts from
was younger than the interval when it last looked, so that a round with its delay is all
that can be added.  This holds because `lastSent` is set back to the last message and not
forward to the present; the mutant `Decide_FromNow` does the latter.  `QuitInv` (once
closed or being destroyed, `quit` stays set) gives that the loop does not read again and that a late
heartbeat is the last.

**The requests.** The invariant of the transport (`RequestsInv`) has to know what is on the
wire for every message: `InOrder` says that its calls come as progress reports, then at
most one result, then at most one verdict, and that an acknowledgement has its result
before it, on the wire or with the client; `InStep` says which of these may be there while
the request waits for a thread, is with one, or is over.  `PlacesOK` keeps a delivery in
one place.  An end of the process empties wire and threads at once, and a redelivery clears
the replies, which is what makes it inductive over crashes.

**The repository.** `LossNeedsFailure` follows from `StoreInv`: a call that is alone in its
window and whose writes have worked has put its version where it removed the old one, as
far as it has come.  `CallInv` adds where the loops of a call are.  The proof is made for
a repository that is called in any way (`MongoSpec`); in the composition every step of
`ImageJobs` is one of these steps or leaves the repository alone, so the same lemmas carry
`NoImageIsLost` (`CallsInv`).  `JobsUseRepository` states this step for step.  It is not a
property of the run `image_jobs`, since TLC cannot enumerate the versions that `MongoNext` allows
an update to store.

**The results.** For `DoneIsInStore`, `DoneInv` carries an acknowledged request, or one whose
upload is complete, through every update of its image: it is in the stored version, and in
the version of every update that has removed the stored one and not yet replaced it.  An
update made of another version than the one it removes puts the image into `outdated`, two
at once put it into `overlap`, so for the other images the new version is the removed one
and one request more.  For `AppliedOnce`, `OnceInv` says of every
version anywhere (store, chunks, buffers) that each request is in it at most once, and only
if it has been applied; the version a thread makes adds its own request, which is in no
other because its job is in no other hands.

**The codecs.** `JobsInv` counts: the codecs made of a type are those in the pool and those
held (`NoCodecLost`), so one more is only made when the pool is empty and all are held.
That there is then a worker left over needs `HoldersInv`: a worker holds two codecs only as
a jpg and a png, hence at most one of a type, and the holders of a type inject into the
workers.  The factory alone does not promise this bound.  `LendsToOne` follows: numbers
never repeat, since a new one is above all that were made, and for the clients
`ClientsInv` says that what is free is owned by nobody.

**The service.** Three questions, each with its part of `ServiceInv`.  *Who may be in `init`?*
`SetIsExact` says that without a race an index is in the set before its only init begins;
the race is a second first use, of whatever container, while one is between its look at the
set and its insertion.  *What does a container show?* `ModelsInv`: a visible model that is
not loaded has a worker in its `init` (`Completes`), who will load this one or replace or
clear the pointer; a visible model that is deleted has a worker about to clear the pointer.
This holds for any interleaving and any failures and gives `SettledIsReady`.  *What may a
processor rely on?* `UndisturbedInv`, for a container whose inits do not overlap and of
which none but the first fails: its init works on the model it has made itself
(`InitIsAlone`), and a processor's model or a ready container's is an older one, loaded and
never deleted (`IsServed`).  The container leaves this state (`disturbed`) exactly when two
inits overlap or a repeated one fails: then one init deletes what another has published, and
the models do contain processors on deleted models.  A processor that takes the net of an
`init` still loading (`hasty`) is left out as well: it may work on a net without weights.

**The processors.** `AppInv` speaks of the containers of the storage and of the loader's
tables at once, and is not inductive while `init` and `deinit` go through them one by one.
`LimbInv` adds what they keep in between.  `Stored`: the loader's living containers are
those of the storage, in `deinit` those from index `i` on, and the storage has no gap and no
container twice, so `deinit`, which goes up to the number of containers, misses none.
`Offered`: in `init` and after it, a name in the list belongs to the container at its index.
`Routed`: the index that the loader remembers for a container is that of the module it came
from, which is what a reload takes away.  `Left`: when the application is gone, so are its
containers and modules.  An open library is counted as often as it is in `m_modules`
(`OpensIs`), so that giving back every module closes every library.  The lists of modules
may come out of the directories in any order, so no induction over them is needed.

**The tiles.** `OutputIsImage` is proved for every size of image, tile and padding and every
scale.  The arithmetic is in lemmas on `\div` and `%`: quotient and remainder are unique
(`DivisionIs`), a multiple of the divisor passes through (`DivisionShifts`), a block counted
from the end is the same block (`DivisionMirrored`, for the mirrored orientations).  From
them follow where a tile and a stripe are (`TileShape`, `StripeShape`), that the tiles end
where the image does (`TilesCover`), and that in each of the eight orientations what is read
back lies over the pixel that it was made of (`OrientedScales`, `UpscaledIs`).  The
inductive invariant `GridInv` says how far the loops have come: `StripeInv`, that the stripe
is painted up to the columns of the current tile, and `ImageInv`, that the image is written
up to the current stripe.  A tile only covers its own columns (`SpotsAre`), so it does not
disturb the ones before it.  `TilesArePadded` assumes nothing of tile and padding; the
property itself is about images larger than the padding, since the shader mirrors once.
Application and tiles share a module, `ProcessorsProofs`, as the two ends of a processor:
where it lives and what it makes of an image.

**Only model-checked.** All liveness (`TakenWhileAwake`, `DestroyedUnlessRaced`,
`DoneIsSettled`, `EndIsReached`): fairness and `ENABLED` are out of the prover's reach.
Every other property of a passing run is proved.  The project declares no recursive operator.

## 6 Where the code and what is said of it disagree

Each is a run that ends in a counterexample.

| Run | Said | Done |
|---|---|---|
| `pool_destructor` | `include/thread-pool/thread-pool.hpp:41` the destructor stops all workers | a worker between its predicate and its wait misses the flag and `notify_all`; `join` hangs |
| `loader_found` | `tests/loopback_verify.t.cpp:123` the processors in the directory are found | `verifyModules` opens a library with `RTLD_NOLOAD` before it was ever opened: on Linux it gets null and passes over every library (`processor-loader.cpp:47`) |

`loader` is checked with a loader that finds libraries (`OnlyLooks = FALSE`), since
otherwise nothing would ever be loaded.

More came up while modelling.  They have no run of their own: they need no interleaving, or
are the exceptions which the properties of the runs above name, and the models contain
them as actions.

* `thread-pool/worker.hpp:15` says that an idle worker spins with a delay; it waits without
  a timeout, and a task posted between its last look and its wait stays until the next post.
  `TakenWhileAwake` says what remains.
* `app-transport/amqp-transport.hpp:44`: `sendResponse` holds `m_chMutex`, `sendAck` and
  `sendReject` do not, so a frame of another thread's acknowledgement may stand between the
  header and the body of a response.  `ResponsesNotMixed` is about responses only.
* `amqp-transport.hpp:46` leaves settling to the caller; after `Fail` nobody settles, and the
  place in the window is lost (`OnlyFailuresLeak`).
* `tests/rmbg_inference_parallel.t.cpp:144` expects first uses that threads make at the same
  time to succeed.  The index is marked before `init`; another call finds it marked and no
  session, and is aborted though nothing has failed (`TryAcquireFails`, `image-service.hpp:68`).
* `processor-module.h:37` has `init` prepare what processors need, but RealESRGAN's net is
  visible before it is loaded (`InitBegins`, `realesrgan-processor.cpp:62`): an overlapping
  call gets a processor on it (`TryAcquire`, `hasty`).
* Two inits of one container at the same time spoil each other: `load_model` meets a net whose
  layers another init has not loaded, fails, and deletes the net the other is loading; an RMBG
  init that cannot read its file deletes the session another has published (`LoadsModel`,
  `LoadFails`, `Deletes`, `rmbg.cpp:103`, `realesrgan-processor.cpp:93`).  The containers this
  has happened to are in `disturbed`.
* A task that is taken while the pool is being destroyed ends in a pure virtual call
  (`TakesTooLate`, `amqp-transport.hpp:39`).
* A stopped worker calls the handler of its last task again (`worker.hpp:129`,
  `CalledAgainOnlyByStop`).
* `tests/loopback_verify.t.cpp:143` expects a status for an invalid index;
  `ProcessorStorage::acquireContainer` throws out of `processImage` (`FindThrows`).
* `TODO.md:13` says the crash on a wrong format is fixed; `processImage` calls a null
  codec (`Undefined`, `NoCodecCrashes`, `image-service.hpp:56`).
* `App::deinit` deallocates the containers and then clears the provider, which calls
  `deinit` on them and erases from the set it iterates over (`DestroyContainer`,
  `ClearContainer`, `limb-app.h:79`).
* A request whose handler throws is neither answered nor settled (`Throws`).
* `updateImageById` returns kOk when a write or the saving of the document has failed:
  `Done` is sent for an image that is gone (`Write`, `Close`, `mongo-client.cpp:272`).
* A second request for an image that is in work discards what the first has done, though it
  was acknowledged (`outdated` in `DoneIsInStore`).
* A heartbeater that looked at `quit` before the destruction began sends on a connection
  that no longer exists, once (`LateOnce`).
* With one tile in a stripe the progress of a tile is reported before the tile is computed
  (`Tile`), and an image of at most ten pixels is read outside of what was uploaded, since it
  is mirrored only once (`PaddingIsSurrounding` asks for more than `Pad`).

## 7 Abstractions and assumptions

* **Memory order.** Loads of a cell's sequence number and the compare-and-swaps see the
  current value; relaxed position loads may be stale.  A stale sequence number would
  only be an older one: the caller sees a full or an empty ring, as it would a moment
  earlier.  Positions are unbounded integers; they are 64 bits wide.
* **Condition variable.** One variable is waited on with a different mutex per worker,
  which the standard does not allow; it is modelled as working.
* **One poster.** Only the network thread posts and only its owner destroys the pool.
* **Frames.** Sizes are counted in frames, each smaller than `BUFFER_SIZE`.  `send1` sends all,
  or it fails or sends a part; from then on nothing is claimed about the socket.
* **Broker.** From the calls the code makes: manual acknowledgement, a window per
  consumer, reject without requeue, redelivery of unsettled messages after an end.
* **Atomic channel calls** in `AmqpTransport`: a reply or a settlement reaches the wire
  in one step.  `AmqpHandler` models what is inside; with an acknowledgement inside a
  response the broker may close the connection, which is one of the ends.
* **Time.** In `AmqpConnection` sleeping threads are late by at most `Jitter`, and ages are
  counted from tick to tick, so a bound in ticks is a bound in time up to one tick.  A
  negative difference converted to `uint16_t` may come out as anything.  Heartbeaters are
  one: `onNegotiate` is called once per connection.  `std::async` starts a thread; the
  default policy would also allow it to be deferred.
* **Store.** GridFS keeps a document and its chunks apart and has no transactions; each call
  of the driver is one step that works or fails.  A failed removal of the document changes
  nothing.  A stream that has failed once takes no more.
* **Requests for images** in `ImageJobs` go to a thread directly, and an answer and its
  acknowledgement are one step: pool, window and wire are the subject of `AmqpTransport`.
* **Linker.** A library stays loaded while it was opened more often than closed; a directory
  is read in any order.
* **Refusals.** `tryPost` may refuse while a popped cell is being released; in
  `AmqpTransport` that is a worker in `release`.  Whether it is this cell is left open,
  so the module allows more refusals than the code, never fewer.
* **Undefined behaviour.** Concurrent insertions into `std::set` are modelled as a lost
  insertion; erasing while iterating as going on or stopping (`aborted`); a use of null, of a
  deleted object or of one that is being written as the end of the process or as going on
  without harm to other objects.  Worse outcomes are not explored.
* **Containers.** `loaded` is what the library has reported, not what two loads into one net
  leave inside it.  No address is used twice.  A pointer is read at each use in the code, and
  once more where the compiler may.  The GPU instance that `init` and `deinit` create and
  destroy is left out.
* **Images, models, messages** are identities; a step that depends on their content may
  go either way.

## 8 Not modelled, and why

Two thirds of the lines that count as implementation, 10 205 of 15 302, are the vendored
headers `stb_image.h` and `stb_image_write.h`.  They are third-party code, and
the map does not reach into them.  Of the program's own code:

* Inference (ncnn, ONNX), allocators of the GPU, and decoding and encoding (stb,
  libjpeg-turbo): data without control of this program.
* Parsing and formatting of tasks and configuration: their outcomes are constants
  (`Body`, `Prefetch`, `QueueSize`).
* Bytes: how many `recv1`, `send1` and `parse` take at a time.  A part of the buffer that
  `send1` did not take is drained with the rest (`amqp-handler.cpp:253`): the frame is lost
  without any interleaving.
* `MongoClient::init`, `ping` and `mongoTest`, `removeContainer`,
  `removeAvailableProcessor`, `getWorker`: they run before any thread exists or are not called.
* The destruction of the GPU instance in `main` before the pool is joined (`main.cpp:82`):
  it needs a model of the device that ncnn hands out.
* Values of variables that were never written (the destination buffer of the jpg codec), and
  overflow of the products of image sizes in `int`: local to one function.
* Loopback, `FixedFunction`, `files.cpp`, `endian.h`, `bithacks.h`, `status.h`: no state that
  survives a call, or layout that the types decide.  Build files and tests: read as
  statements about the code.

## 9 What is left

* `AmqpHandler` with byte counts, for partial sends and the input buffer.
* `AmqpTransport` and `ImageJobs` in one module: they share `handleProcessImage`, and each
  abstracts the half the other has in detail.
* The GPU device, so that the end of `main` can be stated for the processors too.
