# PyCamTRT: specification, model checking, proofs

PyCamTRT decodes many cameras on the GPU, batches their frames into shared TensorRT inferences and hands the results
to the application. What its unit tests cannot reach is the concurrency around that: one producer thread per camera,
one GPU thread, sink threads, and application threads that poll, hold frames and call `Stop()` whenever they like.
This directory models that machinery in TLA+, checks it with TLC and proves the batch assembler's safety properties,
the ownership of frame copies in the whole data plane, the result queue under its Python users, the geometry of sliced
inference and the sizing advice with TLAPS. The other half of the difficulty is what the GPU thread does with a batch,
its tiles, crops and routed child engines on parallel CUDA streams, where a row one place off is a plausible result of
another vehicle; that is modelled too, from the Python objects a user declares to the numbers the example programs
print. Around the library stand the programs of the repository: the demo server, its dataset tool, the examples and
the QA scripts, whose expectations are the reference for what the library promises.

Paths below are relative to `src/`; "pipeline.cpp" is `src/core/pipeline.cpp`.

## 1. The system

```
 camera/file --FFmpegDemuxer--> NvDecoder --> producer thread (ProducerLoop), one per stream
                   |                              |   Nv12Ring: claim a slot, copy the frame
                   v                              |   Batcher: Acquire / MarkReady a batch slot
              PacketRing                          v
               |      |                     Batcher buffers: filling, pending, free
     StreamRelay   ExtractClip                    |  Take
     thread(s)                                    v
                                            GPU thread (GpuLoop): infer, postprocess, cascade
                                                  |  Push                 | one line per result
                                                  v                       v
                                             ResultQueue              LineQueue --> Events sink thread(s)
                                                  |  Poll
                                                  v
                                             application (holds frames, ReleaseFrame, Stop)
                                                  |
   Python: recommend() -> objects -> graph compiler -> Pipeline (iterate, stop, __del__, fetch_frame)
                                                  |  Result, outputs by layer name
                                                  v
                examples, QA scripts, fleet_demo (engine thread, POST /config, SSE browsers)
```

### Inventory

| part | state it keeps | operations | what is hard about it | correct when |
|---|---|---|---|---|
| **Batcher** (pipeline.cpp `struct Batcher`) | `filling`, `free_bufs`, `pending`, per buffer `allocated`/`ready`, `active_producers`, `stopping`; condition variables `cv_space`, `cv_ready` | `Acquire`, `MarkReady`, `ProducerDone`, `Take`, `Recycle`, `SetStopping` | slots are written outside the lock; a batch is closed while some of them are still being written; wake-ups are sent only for some counter values | no buffer lost or shared, no batch half written, no missed wake-up, `nullptr` only when drained |
| **Nv12Ring / Nv12RingHold** | per-slot `in_use`, the allocation and its size | `Ensure`, `AcquireSlot`, `ReleaseSlot` | ownership of a slot travels producer -> batch -> result -> consumer; the allocation may fail; the size changes mid-stream | one owner per slot in use, a copy is never overwritten or freed under a reader |
| **ResultQueue** | `q_`, `dropped_`, `stopping_`, `finished_` | `Push` (Block / DropOldest), `Poll`, `Stop`, `MarkFinished` | blocked pusher and several pollers with timeouts; eviction destroys results that own ring slots | every result delivered or accounted for, Finished is last |
| **ProducerLoop** | decoded/inferred counters, backoff, `last_success` | open, demux, decode, pop, skip, claim, preprocess, retry, give up | errors anywhere between two claims; reconnects; Stop at any point | claims are given back, backoff and give-up follow decoded frames |
| **GpuLoop** | the batch in hand, `SlotMeta` per slot | take, infer, cascade, push, release, recycle, finish | two kinds of release that producers wait for, while itself blocked by the consumer | one result per preprocessed frame, in order; ends when drained |
| **Start / Stop / destructor** | `stop_requested`, `stop_seq_started`, `stop_seq_complete`, `started`, the threads | `Start`, `StopImpl`, `~Impl` | callable from any thread, concurrently, before Start, and from the destructor | a caller that gets `Stop()` back finds all threads gone |
| **Events sink** | bounded `LineQueue`, connection | push a line, connect, pop, write | target down or slow; eviction; Stop during backoff | losses are counted, order kept, Stop returns |
| **PacketRing, ExtractClip** | packets of the last seconds, codec parameters | push and trim, snapshots, anchor of a clip | trimmed while cursors and clips refer into it | starts at a keyframe, a clip reaches as far back as asked |
| **StreamRelay sink** | cursor, timestamp offset | connect, follow the ring, rebase, write, reconnect | source timestamps restart or are missing; connection lost between two packets | no replay, output timestamps climb |
| **NvDecoder** | mapped surfaces and the queue of decoded frames | decode, pop, release | only two output surfaces: one forgotten stalls the camera | every mapped surface is queued or in hand |
| **FFmpegDemuxer** | the connection | open, demux | returns false for the end, an error and a timeout alike | (external input) |
| **Stage graph** (`Validate`) | the configuration, the plan made of it | accept or reject, plan | steps, layers and wires are checked apart; the plan keeps no wires | exactly the depth-two trees are accepted, and the plan does what their wires say |
| **Cascade** (GpuLoop between Take and the results) | detections per slot, `h_crops`, `crop_owner`, `child_pass`, per child a CUDA stream with device and host buffers | infer, slice, merge, crop, route, enqueue, join, decode | rows travel through chunks, filters and parallel streams before they meet their detection again | every output belongs to its detection, frame and engine |
| **SAHI and NMS** | tile grid, merge candidates | `MakeTileGrid`, letterbox, crop resize, decode, `NmsBlock` | tiles overlap, the last one is pulled back, tiles of several frames are pooled | each object once, at its place |
| **Graph compiler** (pycamtrt `Pipeline.__init__`) | steps and layers numbered so far | constructors' checks, `index_of`, sahi on a layer or on the pipeline, sinks | objects are shared between layers, declared in any order, and found again by name | the compiled graph has the wires of the objects, refused where the scripts expect it |
| **Python Pipeline object** | `_started`, reference count, the GIL | `__iter__`, `__next__`, `stop`, `__exit__`, `__del__`, `Result.fetch_frame`, log callback | several threads iterate, stop and drop one object; the destructor runs under the GIL that the GPU thread's log callback needs | destroyed once dropped, never under a fetch, no result lost |
| **Capacity recommender** (`_capacity.py`) | - | `recommend`, `sahi_tile_count` | two resources and four dials; rounding | the suggested dials hold, the named resource is the one exceeded |
| **fleet_demo** (demo.py) | `CFG`, `GEN`, `READY`, `STOP`, `LOCK`, browser queues | engine loop, POST /config, statistics, fan-out, shutdown | a generation is stopped by one thread while another builds the next | a POST is answered by a generation with its dials |
| **prep_aic22** | clips and manifest on disk | runs with a pool of ffmpeg jobs | clips up to date are skipped; failures and kills leave partial files | the manifest describes what is on disk |
| **Examples, QA scripts** | counters, zones, tracks, galleries | one loop over the results each | outputs are parallel lists by detection | the counts are those of the frames shown |
| `Setup`, CTC decoding, engine builder, CLI tools, benchmarks | see section 8 | | | not modelled |

Interactions: producers call Batcher and their own ring, the GPU thread calls the Batcher,
every ring and the ResultQueue and pushes lines into the sinks' queues; ring slots are released
by the GPU thread, by the destruction of results inside the queue, or by application threads;
`StopImpl` touches all of them in a fixed order (queue, sinks, `stop`, batcher, joins). Python
threads enter through `start`, `poll`, `stop` and `fetch_frame`, which give up the GIL; the C++
destructor does not, and the log callback takes it.

The hazards that follow from this are listed, each at its line, in `PROJECT.json`
("hazards"), with the properties that cover them or the reason none does.

## 2. Modules

An action is one critical section of the code together with the thread-local code up to the
next one. Condition variables are modelled with their sleepers: a thread that waits is in a
place such as `"asleep"` or `"space"`, a notification moves it to a "woken" place, and spurious
wake-ups are actions. A notification the code forgets is therefore a reachable state with
a sleeper whose condition holds.

| module | models | correspondence |
|---|---|---|
| `Batcher` | the batch assembler | variables carry the code's names; `prod[p]`, `held[p]`, `slot[p]` say where producer p stands and what it is writing, `gpu`, `taken` the same for the GPU thread. `Acquire` is split by outcome (`AcquireRefused`, `AcquireSlot`, `AcquireRotate`, `AcquireWait`), `Take` by branch (`TakePending`, `TakeClose`, `TakeStragglers`, `TakeNull`, `TakeWait`). `free_bufs` is a set: the buffers are interchangeable |
| `BatcherProofs` | theorems about `Batcher` | section 5 |
| `Nv12Ring` | the ring of frame copies, one per stream | `dims` is what the ring believes its size to be, `mem` the allocation that exists: they differ after a failed `cudaMallocPitch`. `EnsureFits`/`Wait`/`Realloc`/`Fails` are the outcomes of `Ensure`; `PassOn` is the producer handing its slot to a batch |
| `ResultQueue` | the bounded queue | `Push` is split into discard, room, evict, wait; `Poll` into ok, finished, wait, timeout. Counters `pushes`, `popped`, `discarded` are history |
| `ResultQueueProofs` | theorems about `ResultQueue` | section 5 |
| `PyPipeline` | the Python `Pipeline` object and its users | extends `ResultQueue`. `at[t]` is where thread t stands, `refs` who holds a reference, `object` how far the object's end has come (`__del__`, C++ destructor, gone), `collector` the thread that keeps the GIL in the destructor; `gpu` is the GPU thread, which may want the GIL in the log callback; `asleep` are the streams whose producer waits for a ring slot that a queued, pushed or kept Result owns |
| `PyPipelineProofs` | theorems about `PyPipeline`, the refinement of `ResultQueue` included | section 5 |
| `MCPyPipeline` | results for TLC | - |
| `Pipeline` | ProducerLoop, GpuLoop and StopImpl around the three, and the consumer | instances `B`, `R`, `Q` share the variables; every action calls their actions. `meta` is `BatchBuffer::meta`, with stream `None` for the code's `stream_id = -1`; a ring slot owned by a result is its field `slot` (`frame_hold`) |
| `PipelineProofs` | theorems about `Pipeline`: its use of the batcher and of the queue, and the refinement of `FrameDelivery` | section 5 |
| `FrameDelivery` | abstract specification: each stream is a line of frames (the set of their numbers), shown smallest first, lost only when losing is allowed | - |
| `PipelineDelivery` | the refinement mapping from `Pipeline` to `FrameDelivery` | the line of a stream is the set of frame numbers in the queue, the rest of the GPU thread's batch, the pending buffers, the filling buffer |
| `MCPipeline` | stream sets and symmetry for TLC | - |
| `CameraLoop` | the whole of ProducerLoop for one camera: reconnects, backoff, give-up, decoder surfaces | extends `Nv12Ring`; `lpc` is the place in the nested loops, `silence` is now - `last_success`; `slept`, `reading` and `stalled` are history, and say where that time went: in backoffs, in opening and reading, in waits for a ring or batch slot. In `Pipeline` this loop is reduced to what other threads see of it |
| `CameraProofs` | theorems about `CameraLoop`, `PacketRing` and `StreamRelay` | section 5 |
| `EventsSink` | `LineQueue` and `EventsSinkLoop` | a line is its push number |
| `Lifecycle` | `Start`, `StopImpl` with its election and joins, `~Impl` | extends `EventsSink`; the GPU thread (which joins the producers itself) is one of three states here |
| `PacketRing` | packet ring and clip extraction | a packet is number, pts, arrival time, keyframe |
| `StreamRelay` | `RelaySinkLoop` | extends `PacketRing`; `timeline` is the rebasing state |
| `StageGraph` | `Validate` | no state: `Verdict(cfg)` is the first thing it throws, `Plan(cfg)` the ExecPlan. `Line`, `Kinds` and `IsTree` are the reference: the accepted shape, said of the wires alone |
| `SahiTiles` | sahi_tiles.h (`FloatShort` are the tiles and overlaps whose stride single precision cuts one short), the letterbox and resize geometry of preprocess.cu, the box decoder of postprocess.cu | operators on rectangles in whole pixels |
| `Detections` | `Iou`, `Before`, `NmsBlock`; the detector network (external) | `Nms` is a fold over the sorted candidates. The network reports what it sees of a scene if it is large enough in its input, a truncated object with less score |
| `Cascade` | GpuLoop between Take and the results, for one configuration | extends `StageGraph` and `Detections`; `pc` is where the GPU thread stands. `stream[c]` is child c's CUDA stream: operations are appended by the host and run by `RunOp` when the device likes; a synchronize is a guard. In `Pipeline` all this is one step between `Take` and the first push |
| `MCCascade` | configurations and scenes for TLC | - |
| `CascadeProofs` | theorems about `StageGraph`, `Cascade`, `SahiTiles`, `Sizing`, `GraphCompiler` and `Application` | section 5 |
| `GraphCompiler` | the constructors of pycamtrt and `Pipeline.__init__`, up to the `PipelineConfig` | no state: `ArgsOk` is what the constructors accept, `Compile(prog)` the configuration, in the form `StageGraph` judges; `Outputs` is `Result.outputs` |
| `Programs` | the graphs of the examples and the QA scripts, one operator each | a program is its list of objects, its layers and its keyword arguments |
| `Consumers` | what each script counts | one operator per script from its tally and a `Result` to its next tally; before it, `FrameResult` and `Result`, made of what the engines answer for each crop |
| `Capacity` | `recommend`'s tables and formulas, `sahi_tile_count` | milliseconds become integers of a fixed unit, ratios are compared by cross-multiplication; the stride of its own tiles is cut in double precision (`DoubleShort`) |
| `Sizing` | asking, turning the suggested dials, asking again | `request` is what `recommend` is called with |
| `Application` | a program from its sizing to its last result | extends `Sizing` and `Consumers`; `phase` is sizing, compiled, running or the exception raised |
| `FleetDemo` | demo.py | one variable per global (`CFG`, `GEN`, `READY`, `STOP`, `LOCK`, `CLIENTS`), one program counter per thread or request; `gens` is every generation built so far with its dials and state |
| `PrepAic22` | prep_aic22.py, run repeatedly | `clip` is the file of a camera in a directory: absent, partial or whole, with its keyframe interval and whether it is newer than its source; `job` the pool; `torn` is a manifest emptied and not yet written, `recorded` (history) what it was last written to say |
| `DemoProofs` | theorems about `FleetDemo` and `PrepAic22` | section 5 |
| `LifecycleProofs` | theorems about `Lifecycle` and `EventsSink` | section 5 |
| `MCApplication`, `MCFleetDemo`, `MCPrepAic22` | constants for TLC | - |

Operators marked `\* mutant` are deliberately wrong versions of the definition that follows
them. No specification uses one; `PROJECT.json` names, for each checked property, a mutant
under which TLC finds the property violated, so that no property is true of every program.

`Batcher!Bookkeeping`, `Batcher!StragglersAreWriters` and the type invariants are stated where they
belong: they are parts of the proved invariants, or name what a module's variables may be.

## 3. What the runs check

Run a configuration with `tlc -workers 2 -config X.cfg M`. States are distinct states.

| run | module, cfg | question | bounds |
|---|---|---|---|
| `batcher` | Batcher, Batcher.cfg | does the batcher keep its buffers, batches and wake-ups right, and end only when drained | 3 producers, 3 buffers of 2 slots; 107k states |
| `pipeline_one` | MCPipeline, MCPipelineOne.cfg | every fate of one camera's frames: held, evicted, abandoned by an exception, resized, failing allocation, Stop; does a slot always have one owner and its copy stay intact; do frames come out in order | 3 frames over a ring of 2, 3 buffers of 2, queue 1, both modes, `hold_frames`; 706k |
| `pipeline_live` | MCPipeline, MCPipelineLive.cfg | is every published frame shown to who polls; does Stop return though nobody polls | 1 camera, 8 decoded frames of which 4 are inferred, skip 2, ring of 2, 1 buffer of 2, queue 1; 82k |
| `py_pipe` | MCPyPipeline, MCPyPipeline.cfg | two Python threads iterate, break, stop, fetch and drop one Pipeline: is every result accounted for, is none stale, is Finished final, does a fetch find its ring, is a dropped object destroyed | 2 threads and a timer, queue 2, 3 pushes, ring of 3, 1 log line, both modes; 590k |
| `held_result` | MCPyPipeline, MCHeldResult.cfg | (violation) does a held frame outlive its pipeline | 1 thread and a timer |
| `camera` | CameraLoop, CameraLoop.cfg | reconnects, backoff, give-up, surfaces, resolution changes, end after Stop | 6 frames, skip 2, ring 2, 2 sizes, backoff 1..3, give-up after 4 units; 97k |
| `lifecycle` | Lifecycle, Lifecycle.cfg | concurrent Stops before, after, during and instead of Start, then the destructor; the sink's accounting | 2 callers and the destructor, 2 Starts, 3 lines over a queue of 2; 71k |
| `relay` | StreamRelay, StreamRelay.cfg | trimming, clips, cursor, timestamps across wraps and lost connections | 4 packets, window 1, gaps 0..1, pts missing, true or restarting at 0; 711k |
| `cascade` | MCCascade, MCCascade.cfg | does Validate accept exactly the trees; for what it accepts, is each object found once and does every output follow the wires | graphs of up to 8 steps with one or two rewired, SAHI on and off, pooled and serial, 2 slots, chunks of 2, 2 batches, 2 scenes; 43k |
| `application` | MCApplication, MCApplication.cfg | is every program of the repository accepted or refused as its script expects, compiled to the wires of its objects, its outputs found by name, its counts those of the frames; does the sizing advice hold | every example and gate, five of them rewired, reordered or with a step added again; up to 3 results each, a gallery of 1; the requests of every resolution, tiles of 640 and 1280 at overlaps up to 0.9; 26k |
| `fleet` | MCFleetDemo, MCFleetDemo.cfg | is a configuration request answered by a generation with its dials, does the engine thread outlive it, does it return; what does a slow browser see | 2 requests, 4 generations, 1 browser with a queue of 1, 2 events; 552k |
| `prep` | MCPrepAic22, MCPrepAic22.cfg | does the manifest describe the disk, does `--force` repair it, do entries survive other runs | 2 cameras, 2 directories, 2 keyframe intervals, 3 runs, 2 faults; 1.8M |

Why the bounds are enough for the questions asked:

- *batcher*: two producers can share a buffer while a third is refused, asleep or writing the
  next one; three buffers let one be with the GPU thread, one pending and one filling, and a
  fourth producer request then finds none. Two slots give a first, a last and an incomplete
  batch. `kNumBufs` is 3 in the code too. The safety part is in addition proved for all sizes.
- *pipeline runs*: more frames than ring slots and more results than queue places, so that
  wrap-around, a full queue and back-pressure happen. In `pipeline_live` four inferred frames meet a ring of two, one
  batch buffer and a queue of one: while nobody polls, the GPU thread sleeps in Push with both slots in use, and
  the producer sleeps in `AcquireSlot`, or in `Acquire` when the batch in work has one frame, when Stop comes. Two
  cameras with as many frames are too many states for liveness; that the end needs all cameras is checked by
  `batcher` (`ExitMeansDrained`) with three producers. `pipeline_one` affords everything that may go wrong with a frame;
  three buffers keep one in each place.
- *py_pipe*: more pushes than the queue's capacity, so that a push evicts or sleeps; two threads because of
  `notify_one`, and because one may drop the object while the other is in `poll` or `fetch_frame`; one log line
  is enough to have the GPU thread wait for the GIL at any moment. With a ring of three and two kept Results the third
  slot is free, is owned by a queued result, or belongs to the Push in progress.
- *camera*: the frame limit leaves room for three inferred frames over a ring of two with a
  resolution change between; backoff saturates at its maximum and the give-up time lies
  beyond it. Past the give-up time no more time is counted. Times are in units of the first backoff.
- *relay*: four packets over a window of one time unit let the ring trim past a cursor and let a
  group of pictures be dropped while another is being sent.
- *cascade*: each of three correct graphs has every single step replaced by every kind and wired
  to every other, and a few have two steps changed, since a shared or a foreign Select takes two;
  what Validate accepts of this is executed. Frames have up to four tiles, so two frames pool
  eight over chunks of two; a frame has up to three detections, so the crops of a batch need several
  chunks; a second batch finds the first one's rows in all buffers. An abandoned slot may stand
  anywhere in a batch.
- *application*: the programs are those of the repository, so their graphs need no bound, and variants of five that
  differ in one wire, in the layers' order, in a step that stands in two places or in the score a Select asks for; the
  frames show
  a centre on the zones' border, boxes at the frame's edges, sizes at the limits of the Selects, two persons who look
  alike, rows with a tie and below zero, cars that move to where another was, and a long gap.
  Three results let a track be confirmed, move and die. `GALLERY_PER_STREAM` is 1 (50 in the code), so that the second
  person of a stream evicts the first. The strides of the tiles and overlaps asked for are those the two precisions give
  (`MCFloatShort`, `MCDoubleShort`): equal at most of them, different at 640 and 0.9 or 0.6.
- *fleet*: two requests contend for the lock, each during any step of the engine thread; four generations are the
  first, one per request, and one that a camera's end may cause. A queue of one is full at the second event.
- *prep*: three runs are a first one, one that finds what it left, and one that finds what that left; two
  directories and two keyframe intervals are what an entry can be wrong about; with two faults a repair may fail once.
- *lifecycle*: two application threads suffice for winner and loser of the election, the
  destructor is the caller that frees the members.

`CHECK_DEADLOCK FALSE` is in every configuration: all these systems really stop (all producers
done, the queue finished, the last packet sent).

What is left out of every model: durations (timeouts may expire at any time), the pixel and
tensor contents (a copy is the number of the frame it was made from), and text (a line is its
number). In `Pipeline` a poll that times out is not told apart from one that keeps waiting;
`py_pipe` has the timeouts.

## 4. Properties worth knowing

- `FrameCopyIntact`, `SlotHasOneOwner` (Pipeline): the reference counting of frame copies. The comment at pipeline.cpp
  617-637 describes the silent wrong-frame crops it was introduced for; the properties say that at every moment the
  slot behind a live result holds that result's frame, and that exactly one party will release it. Freeing the ring's
  memory forgets all copies in it, so the first depends on the wait in `Ensure`; it exempts a ring whose last
  allocation failed, since frames are then copied nowhere.
- `DeliversInOrder` (PipelineDelivery): `Pipeline` implements `FrameDelivery`. It needs the FIFO
  of `pending`, the order of slots in a batch and that batches close in order.
- `NoMissedWakeup` (Batcher): the sleeping GPU thread has nothing to do. The code notifies only on the first
  and the last ready slot of a buffer, and on the last producer.
- `FinishedIsFinal`, `NothingVanishes` (ResultQueue), `NoStaleDelivery` (PyPipeline): what a consumer may conclude
  from the answers it gets and from `DroppedResults()`, with any number of iterating threads.
- `DroppedIsDestroyed` (PyPipeline): once no thread holds the object it is destroyed, in whatever state: never
  started, with the GPU thread asleep in Push, or waiting for the GIL. It is what `__del__` is there for. Exempt is a
  producer that sleeps for ever on the ring slot of a kept or queued Result (`Starved`), which Stop does not wake.
- `FetchReadsLiveRing` (PyPipeline): nobody copies out of a ring that is being destroyed, although a Result has
  only a weak reference to its Pipeline.
- `StopReturnsQuiet`, `EveryStopReturns` (Lifecycle): losers of the election wait for the winner. The first speaks
  of histories in which no Stop overlapped Start: a Stop that runs between Start's check and its
  spawning of threads joins nothing, and leaves joinable threads to the destructor (see the hazards).
- `ClipCoversWindow`, `PublishedSeamlessly` (PacketRing, StreamRelay): trimming keeps exactly what clips and relays
  need; packets are sent once and in order, timestamps climb whatever the source does, and a relay that fell
  behind resumes at a keyframe.
- `CameraKept`, `SurfacesOwned` (CameraLoop). The first has three parts: a camera given up has had more than
  the give-up time in backoffs, reads and waits for the consumers since its last frame (`FlappingCameraKept`); the
  backoff is what doubling from the first one gives, and nothing but a frame resets it (`BackoffDoubles`); a live camera
  never ends like a file (`LiveCameraStays`). The waits are a summand because the code's clock runs through them,
  which its comment does not say (section 6). The second: no decoder surface is forgotten.
- `AcceptedIffTree` (Cascade): `Validate` against a definition that only follows wires. The two agree
  on every graph of the run, the layers' order and shared Selects included.
- `ObjectsFoundOnce` (Cascade): tiling, pooling, decoding and the two suppressions together: an object
  that fits what tiles share, or the whole-frame pass, is one detection at its place in its frame.
  Larger objects that only tiles see may be truncated, and the property says no more of them than
  that their boxes lie within the object.
- `OutputsFollowWires` (Cascade): what a detection is given by a child is what that child's engine says
  of that detection's pixels in that frame, or nothing if a Select on the way rejects it. The expected
  engine and Select are read off the wires of the graph, not off the plan.
- `GraphIsTheObjects`, `OutputsFollowNames`, `OutcomesAsExpected` (Application): the compiler's numbers against the
  objects' identities, for every program of the repository, and `Validate`'s verdict against what the script expects.
- `ProgramsCountRight` (Application): each script's counters against a count over the frames shown, which knows
  nothing of results and outputs: zones by coordinates, tracks by which object moved, matches by who was seen
  lately enough for the gallery.
- `TilesAsPredicted`, `DialsSuffice`, `BindingIsTheLimit` (Sizing): the recommender against the grid that the C++ code
  cuts, where the two compute the same stride, and against itself after its own advice. The resource named is the one
  with the least room: of fewer cameras, however few, it is overcommitted as long as either is.
- `PostTakesEffect`, `EngineOutlivesPosts`, `PostReturns` (FleetDemo). The first two hold as long as no generation
  ends by itself: `for r in pipe` also ends when all cameras were given up, `READY` then stays set through the
  rebuild, and a request is answered for the wrong generation or stops one that is not started. The
  variable `alone` records that it has not happened.
- `BrowserSeesNewest` (FleetDemo): a full queue loses its oldest event, never the newest.
- `ManifestRemembersDisk`, `ForcedRunRepairs`, `EntriesSurvive` (PrepAic22). The first is stated for one output
  directory and no fault: with either it is false, because a partial clip is newer than its source and is skipped,
  and because an entry is not looked at when another directory has the clip. The second says how to get out of that.
  The third relates the file to all that was ever recorded: it has the latest entry of every camera whenever it can
  be read, and the window in which a kill empties it is the one the code has.
- `LinesAccounted` (Lifecycle): each line is in exactly one place, the tail that a stopped sink leaves in its queue
  among them; what is queued are the newest lines accepted, in order.

### Fairness

- Pipeline: producers (whose cameras deliver or end), the GPU thread and the stopping thread are
  weakly fair, the consumer is not. `PublishedIsShown` assumes a consumer that polls and releases
  (`ConsumerFairness => ...`); `StopCompletes` assumes nothing of it, but is checked without `hold_frames`:
  with it, a consumer that keeps what it polled keeps `AcquireSlot` waiting, which no stop flag wakes (section 6).
- PyPipeline: the GPU thread and the threads inside the library run when they can; whether a thread goes on
  iterating, breaks, stops or drops the object is its own affair, except that what it has begun it ends. Nobody has to
  fetch from a Result it keeps, or to let go of it, so a producer may wait for its slot for ever.
- Lifecycle: the sink's calls into the network return, and the GPU thread ends once told to
  stop. The latter is what `StopCompletes` shows in `pipeline_live`. The former is an
  assumption: `send()` and `connect()` have no timeout (pipeline.cpp 3154).
- CameraLoop: strong fairness of `Release(k)`: whoever reads a ring slot gives it back.
- FleetDemo: the engine thread, each request once it has arrived and the event loop run; requests, browsers, the
  statistics thread, a camera's end and the shutdown need not happen. `PostReturns` excepts a dead engine thread,
  since `READY` is first waited for without a timeout.
- Batcher, StreamRelay, Cascade, Application, PrepAic22: only safety and action properties are checked.

## 5. What is proved

`BatcherProofs` proves, for every finite set of producers, every non-empty finite set of buffers and
every `MaxBatch >= 1`:

| theorem | states |
|---|---|
| `Invariant` | `Spec => []IInv` |
| `TypeCorrect` | `Spec => []TypeOK` |
| `BuffersNeverShared` | `Spec => []BuffersPartitioned` |
| `StragglersKnown` | `Spec => []StragglersAreWriters` |
| `SlotsNeverShared` | `Spec => []SlotsExclusive` |
| `TakeReturnsBatches` | `Spec => []BatchIsComplete` |
| `WakeUpsSuffice` | `Spec => []NoMissedWakeup` |
| `ExitIsDrained` | `Spec => []ExitMeansDrained` |

Assumptions: only the module's named ones on its constants. The argument: none of the
properties is inductive alone. That a batch is complete when `Take` returns it
(`BatchIsComplete`) needs that the un-ready slots of the buffer are exactly the slots being
written (`StragglersAreWriters`), which needs that a recycled or free buffer has no writer and zero
counters, which needs that no buffer is in two places (`BuffersPartitioned`). That `Drained` cannot
become true under a sleeping GPU thread (`NoMissedWakeup`) needs that `active_producers` is the number of
producers not done, and that a buffer with `allocated > 0` and no ready slot has a writer who will
notify. `Bookkeeping` collects the facts about program counters that tie these together, and

    IInv == TypeOK /\ Bookkeeping /\ BuffersPartitioned /\ StragglersAreWriters
              /\ SlotsExclusive /\ BatchIsComplete /\ NoMissedWakeup /\ ExitMeansDrained

is inductive. `InitInv` shows it of the initial states, one lemma per action (`AcquireSlotInv`,
`TakeCloseInv`, ...) that the action preserves it, `NextInv` puts them together. The lemmas before
them are about appending to and removing from the pending queue (`AppendFacts`, `TailFacts`) and about
the cardinality of the set of writers and of active producers when one thread moves
(`HoldersAdd`, `HoldersRemove`, `ActiveRemove`).

`PipelineProofs` proves of the data plane, for any cameras, batch buffers and slots, ring depth from 2 on, queue
capacity and mode, skip factor, pollers and frame sizes, with and without `hold_frames`, with and without
exceptions and Stop() (`PipelineAssumption`):

| theorem | states |
|---|---|
| `UsesBatcher` | `Spec => BP!Spec`: producers, GPU thread and Stop() call the batcher as `Batcher` allows, so all of `BatcherProofs` holds here |
| `UsesQueue` | `Spec => QP!Spec /\ []QP!NothingVanishes`: the same for the result queue |
| `OneOwner` | `Spec => []SlotHasOneOwner` |
| `CopiesIntact` | `Spec => []FrameCopyIntact` |
| `InOrder` | `Spec => DeliversInOrder`: the data plane implements `FrameDelivery` |

The two ownership properties count and describe owners in five kinds of places; neither is inductive. The invariant
(`PipeInv`) names the places a meta can be in (`At`: a ready batch slot, an entry of the queue, the Push in progress,
a kept result) and says of those whose meta still names a ring slot (`Own`): no two name the same, none names one a
producer has claimed, the slot is in use and holds that frame unless there is no memory behind the ring (`Contents`),
and every slot in use is named or claimed. A ring without slots in use has no frame to lose, so `Ensure` may free it
(`FreeRingForgets`). `Transfer` shows once that `Own` survives when metas move between places and some disappear with
exactly their slots freed; the lemmas after it are the few ways that happens (`BatchToPush`, `PushToQueue`,
`HeadDies`, `HeadKept`, `BatchDies`, ...), to which `SlotClaimed`, `ClaimReturned` and `FramePublished` add the
producer's side. One lemma per action then composes them: DropOldest, for instance, is `BatchToPush`, `HeadDies`,
`PushToQueue`. What the batcher promises (`BatchFacts`, from `BP!IInv`) is what keeps a producer from writing the meta
of a ready slot or of the batch in the GPU thread's hands; `PushInv` says how far that thread is, so that a recycled
batch owns nothing.

The refinement needs to know that frames stand in order wherever they are (`OrderInv`): in the queue by place
(`QueueOrder`), behind it the unpushed slots by buffer and slot, buffers being ordered as the GPU thread will take
them (`BufOrder`: taken, pending, filling; `BatchOrder`), behind those the slot a producer has claimed (`ClaimsLast`),
and nothing in flight has been shown or not been decoded yet (`FlightNumbers`). Each action is then shown to be a step
of `FrameDelivery` or to leave the lines alone: MarkReady publishes, a poll shows, an eviction or a result refused
after Stop() loses, and rotating, closing and taking a buffer only move what is in flight.

`CascadeProofs` proves of the tiling, with no assumption but that sizes are positive:

| theorem | states |
|---|---|
| `TilesCoverObjects` | an object inside the frame no larger than `tile - stride + 1` lies whole in some tile |
| `TilesInsideFrame` | no tile hangs over the edge |
| `SquareTilesExact` | on a square tile, decoding undoes the crop resize for every box in it |

The grid is a product, so the first two are proved for one axis (`AxisCovered`, `AxisInside`): the last multiple of
the stride at or before the object (`Multiple`) is a tile's offset, or its tile would reach over the edge and the
flush one covers the object. `StrideBounds` keeps the stride between 1 and the tile for any overlap a user writes, cut
one short by rounding or not (`FloatAssumption`). `TilesCoverObjects` is where the bound in `ObjectsFoundOnce` comes
from. Frames lower or narrower than a tile are outside `SquareTilesExact`: there the crop kernel stretches both axes
while the decoder undoes one scale.

`ResultQueueProofs` and `PyPipelineProofs` prove, for any set of pollers, any capacity, both modes and any number of
pushes:

| theorem | states |
|---|---|
| `QueueLosesNothing` | `Spec => []NothingVanishes` |
| `FinishedStaysFinal` | `Spec => FinishedIsFinal` |
| `PyImplementsQueue` | `PySpec => Spec`: the Python object's steps are steps of the queue or leave it alone |
| `PyLosesNothing`, `PyFinishedStaysFinal` | the first two, for the Python object, through the refinement |
| `FetchIsSafe` | `PySpec => []FetchReadsLiveRing` |
| `DeliveryIsFresh` | `PySpec => []NoStaleDelivery` |

The queue's invariant (`QueueInv`) adds to the two that a finished queue has no Push in progress and what types the
counted results have; `SentInv`, that no frame number exceeds the number of pushes and the one in Push is a result, is
what makes a step of `PyPipeline` one of the queue. `FetchIsSafe` needs that a thread in `fetch_frame` is in `refs`
and that the object's end begins only with `refs` empty (`RefInv`); a fetch that borrows the object during `__del__`
puts itself into `refs` again. `DeliveryIsFresh` needs `OrderInv`: what is queued climbs per stream, what any thread
was given is older than all of it, and the frame in Push is newer than all of it (`sent`).

`CascadeProofs` also proves, for every request of the tables' resolutions and any stream count, rate, skip, keyframe
interval and tiling:

| theorem | states |
|---|---|
| `SuggestionSuffices` | `SizingSpec => DialsSuffice` |
| `BindingIsOvercommitted` | `SizingSpec => []BindingIsTheLimit` |
| `TileCountIsExact` | `SizingSpec => []TilesAsPredicted` |

The load is a product that falls with the skip and rises with the streams; `CeilDivCovers` and `FloorDivFits` say that
the ceiling taken for the skip and the floor taken for the streams are enough, `TurnedGpuHolds` and `TurnedNvdecHolds`
put them together for the request that all the suggested dials make. Both loads are proportional to the number of
cameras, so the one that is greater relative to its budget stays so in a smaller fleet (`FewerKeeps`). The tile count
is exact, where the predicted stride is the grid's, because an axis cut by `AxisOffsets` has its multiples of the
stride and, unless the last one ends at the edge, one flush tile more, which is what the formula's ceiling counts; the
grid is the product of its axes.

`CascadeProofs` proves of `Validate` and of the executor, for any set of configurations and scenes, any number of slots,
detections, children and chunks, and any pace of the CUDA streams:

| theorem | states |
|---|---|
| `AcceptedGraphsAreTrees` | `Spec => []AcceptedIffTree` |
| `CascadeInvariant` | `Spec => []CascadeInv` |
| `EveryOutputFollowsItsWires` | `Spec => []OutputsFollowWires` |

The assumptions are types: a configuration is what the structs of graph.h can hold, its numbers and its order
unrestricted (`ConfigsAssumption`); a frame has a size and shows finitely many objects (`ScenesAssumption`); buffers
and tiles have positive sizes (`CascadeAssumption`).

`Validate` looks at a few steps of each layer, `IsTree` follows the wires from the end of each layer to the source.
`Line` walks back with a recursive function, for at most as many steps as the graph has; what it returns is proved by
induction over the number of steps walked (`UpTo`, from well-foundedness, since an induction theorem over an operator
cannot be used): `LineIs` computes the line of a graph whose wires are known, and `LineSound` says that what it returns is
connected by wires. `ChildVerdicts` then puts the checks of one child beside the branch its wires make, `OnTreeIff`
and `TreeShapeIff` do it for the whole graph. A layer that names no step, or a step that is not there, is in neither:
`LayerNamesSteps` was added to `IsTree` because without it `IsTree` asked after steps that do not exist.

`OutputsFollowWires` speaks of the finished results alone. `CascadeInv` says what holds on the way: `StreamRight(c)`,
that child c's stream holds the last so many of the operations queued for its chunks, the rows of the chunks already
copied are in its host buffer, and the crops and rows of the chunk in hand are on the device; and `OutRight(c)`, that
the rows decoded so far (`RowsDecoded`) stand at their detections and nothing stands elsewhere. When the host passes a
synchronize, the stream is empty, so the host buffer holds the rows the decoding takes. There is a lemma for each
action (...Keeps). Rows and crops correspond because `HCrops` and `Pass` list each crop once, in order (`FlattenSeq`,
proved element by element), and the plan's engine and Select are the ones on the wires (`PlanFollowsWires`), by what
`AcceptedIffTree` says of the graph.

`CascadeProofs` proves of the Python package, for any set of programs, engines and frames and any number of results:

| theorem | states |
|---|---|
| `ApplicationInvariant` | `AppSpec => []ApplicationInv` |
| `CompiledGraphIsTheObjects` | `AppSpec => []GraphIsTheObjects` |
| `OutputsAreNamedRight` | `AppSpec => []OutputsFollowNames` |

The assumptions say what a program and a frame are. A program is sequences of objects and layers; a layer's steps are
objects that exist; `classes=`, `min_score=` and `min_size=` are a value or None, NaN among the values
(`ProgramsAssumption`). Wires, names and families are unrestricted: what the constructors and Pipeline.__init__ refuse,
`Compile` refuses. A detection has integer coordinates and a score of at least 0, as every decoder gives it, and every
engine answers any crop with a row that is not empty, since `ClassifyArgmax` reads its first element unasked
(`FramesAssumption`). TLC evaluates both on the run's programs and frames.

The compiler goes through the layers and numbers every step it meets, and `index_of` keeps an object's last number
only. `Compiled` says where it stands after n steps: the graph so far is the first n objects of the listing
(`StepRight`), and `index_of` answers with the last place an object was listed at (`LastListing`). One step keeps this
(`StepCompiled`), then a layer (`LayerAdded`), then all of them (`LayersCompiled`); the pipeline-wide `sahi=` changes
no step (`LegacySahiKeepsSteps`). `Placed` relates a place in a layer to its place in the listing of all.

For `OutputsFollowNames` a running program's graph was accepted, so each of its layers ends in a Postprocess over an
Engine (`AcceptedLayers`), and by `StepRight` the wires behind it are those of the objects (`RightGraphWires`,
`ChildWires`), although the compiler may have given a child a later copy of an object it shares. Then `OutputIs` leads
from the layer's name to the child's place in the FrameResult, `ChildOutputIs` from there to the engine's row,
`PassesAsWanted` through the Select, whose missing arguments are defaults, and `ArgmaxIsGreatest` to the label;
`PayloadIs` puts them together.

`CameraProofs` proves, for any ring depth, skip factor, backoff and give-up times and any number of frames, through
failing opens, reads, decodes, allocations and preprocessing, and Stop at any moment (`CameraAssumption`):

| theorem | states |
|---|---|
| `CameraInvariant` | `CameraSpec => []CameraInv` |
| `CameraTyped` | `CameraSpec => []CameraTypeOK` |
| `SurfacesAccounted` | `CameraSpec => []SurfacesOwned` |
| `CameraIsKept` | `CameraSpec => []CameraKept` |

`SurfacesOwned` is inductive once it is known where the producer can stand with a surface in hand (`PlacesFit`).
`CameraKept` needs that the clock the code decides by is the sum of what was slept, read and waited since the last
decoded frame, which only the model's history variables know, that the backoff follows from what was slept, and that
a camera given up stays given up (`ClocksFit`).

It also proves of the packet ring, for any `ring_seconds` of at least 1, any gaps and keyframes, and any losses of the
connection (`PacketRingAssumption`, `StreamRelayAssumption`):

| theorem | states |
|---|---|
| `RelayInvariant` | `RelaySpec => []RelayInv` |
| `StreamIsSeamless` | `RelaySpec => []PublishedSeamlessly` |
| `ClipsReachBack` | `RelaySpec => []ClipCoversWindow` |

`RingInv` says what trimming leaves: the newest packets, and when some were let go the first one is a keyframe that
is at least `ring_seconds` old (`Anchored`). From it follow the keyframe a clip needs (`KeyIsKept`) and that a
snapshot either continues where the relay was or begins at a keyframe (`SnapshotContinues`). `BatchInv` keeps that
of the batch while packets of it are written and the ring moves on under it, `TimelineInv` that the packet about
to be written comes after the last one published, whatever its timestamp was. `Max` and `Min` of a set of places are
CHOOSE expressions; that they exist is proved without induction, from the well-foundedness of inclusion between finite
sets (`FirstPlace`, `LastPlace`).

`DemoProofs` proves of the demo server, for any requests and bodies, dials, number of generations, browsers and queue
capacity (`FleetAssumption`):

| theorem | states |
|---|---|
| `FleetInvariant` | `FleetSpec => []EngineInv` |
| `PostsTakeEffect` | `FleetSpec => []PostTakesEffect` |
| `EngineOutlives` | `FleetSpec => []EngineOutlivesPosts` |
| `EventsInvariant` | `FleetSpec => []SseInv` |
| `BrowsersSeeNewest` | `FleetSpec => []BrowserSeesNewest` |

The handshake between a request and the engine thread goes over `READY`, `GEN` and the lock, and neither property is
inductive: a request that clears `READY` must find the engine in its loop, or the stop would reach a
generation that has not started. `EngineGoesOn` says what each step of the engine thread has in hand while nothing
disturbed it, `RequestInStep` how far the holder of the lock and the engine thread can be at the same time, and
`Rebuilding(CFG)` that the engine, wherever it stands, is on its way to a generation with those dials. For the
browsers, `EventsInOrder` orders what was given, queued and is waiting in the event loop as one
ascending sequence, and `NewestKept` that a queue is the end of what was fanned out.

`DemoProofs` also proves of the dataset tool, for any data set in which the splits that hold a scenario have a first
one (as the members of a list do), any directories, intervals and jobs, and any number of runs, failures and kills:

| theorem | states |
|---|---|
| `PrepInvariant` | `Spec => []PrepInv` |
| `ManifestIsRight` | `Spec => []ManifestRemembersDisk` |
| `ForceRepairs` | `Spec => []ForcedRunRepairs` |
| `EntriesKept` | `Spec => []EntriesSurvive` |

None of the properties is inductive. `RunInv` says what the jobs of a run have done so far: what is done has an
entry, what `--force` redid is whole and encoded as the run asks, and what is still to do cannot be missing when
nothing failed. `HistoryInv` says what the runs before it left: a camera with a clip has an entry, and the entry is
true, as long as there was one directory and no fault. A camera being encoded is exempt until its job is done,
since its entry is then the run's. `ManifestInv` follows the manifest through a run: what it merges into is what was
recorded before, and a manifest is torn only in the run that writes it or after one that was killed.

`LifecycleProofs` proves, for any set of threads that call Stop(), any capacity of the line queue and any number of
lines:

| theorem | states |
|---|---|
| `LinesAreAccounted` | `Spec => []LinesAccounted` |
| `StopLeavesQuiet` | `Spec => []StopReturnsQuiet` |

The sink holds a line exactly while it writes, and every action moves one line between two terms of the sum; `LineInv`
adds that the queue is the newest lines accepted (`Newest`), which each push, pop and eviction keeps. For Stop,
`ElectionInv` says that one caller runs the sequence and that nobody returns before its end, `SpawnInv` that threads
are spawned once and what was joined has ended, and `QuietInv` that, without an overlap, Start() is not under way once
a Stop() was called: so what the sequence has joined stays all there is to join.

Only model-checked:

- all liveness: fairness and ENABLED are outside the prover;
- `ObjectsFoundOnce`: that two suppressions leave one detection of each object depends on which boxes the network
  reports and how they overlap, which is geometry of each scene; the detections are proved finite and in sequence,
  no more;
- `OutcomesAsExpected` and `ProgramsCountRight` of Application: they are about the scripts of the repository, each a
  fixed graph with a count of its own, and hold of these frames or graphs only because they are these.

## 6. Findings

- `held_result`: a Result kept after its Pipeline is gone holds a frame of a ring that is gone too, and so do results
  still queued when the Pipeline is destroyed: `Teardown` clears the rings first. result.h promises the contrary;
  releasing the hold then locks a destroyed mutex.

The code also departs from its own comments where a property says what it does and names the exception; of these there
is no run of their own, but each exception is a term of the property and a state of the model:

- *Stop with held frames.* "The GPU thread keeps draining ..., releasing ring slots as it goes, so no producer stays
  blocked in Nv12Ring::AcquireSlot" (pipeline.cpp 3394-3396; likewise 751-754), and `stop()` "blocks until fully torn down"
  (`__init__.py` 1203-1206). With `hold_frames` the slots belong to results. A producer whose next slot is owned by a
  result that is kept, or queued and never polled, sleeps on: `AcquireSlot` (694-700) does not look at any stop
  flag, the GPU thread joins the producer, Stop joins the GPU thread. `DroppedIsDestroyed` exempts it (`Starved`).
- *The tail of an Events sink.* "Still delivers whatever was queued before Stop(), so a shutdown flushes rather than
  silently losing the tail" (1004-1006). The loop around `Pop` looks at `stopping` first (3142), so what is queued is not
  written, and no counter has it: the term `LostTail` of `LinesAccounted`.
- *Give-up.* "Only after kGiveUpMs of CONSECUTIVE failure" (1910). `last_success` (2004) is also not refreshed while the
  producer waits for a ring or a batch slot, so one disconnect after a long wait for the consumers ends a camera that
  never failed before: the summand `stalled` of `CameraKept`.
- *Tile counts.* `sahi_tile_count` "matches `sahi_tiles.h` bit-for-bit" (`_capacity.py` 236) but computes the stride in
  double precision, the grid in single (sahi_tiles.h 45). A tile of 640 at an overlap of 0.9 advances by 63 there and by 64
  here, which at 720p is 12 x 3 tiles and 11 x 3; at 0.6 it advances by 256 and by 255. `TilesAsPredicted` speaks of the
  overlaps where they agree.
- *The manifest.* "Existing manifest entries for other scenarios are preserved" (prep_aic22.py 21-23). A run killed between
  the truncation and the write of the file (298) loses all of them, and every later run raises at 216 until someone
  removes the file: the exception of `EntriesSurvive`.
- *NaN thresholds.* `Select` refuses negative thresholds by `< 0` (`__init__.py` 469-473), which NaN passes, and
  GpuLoop reads it as no threshold (`> 0`, pipeline.cpp 2630-2634). `OutputsFollowNames` counts it so.

Behaviour that a property exempts or does not cover for other reasons, each listed at its line under "hazards": a Stop
that overlaps Start (pipeline.cpp 3440), a failed reallocation of a ring (677), tiles of frames smaller than a tile (2286),
a generation that ends by itself (demo.py 212), faults of the dataset tool (298).

## 7. Plan

Done: Batcher, Nv12Ring, ResultQueue; Pipeline with its refinement; Lifecycle with the Events
sink; PacketRing with the relay; CameraLoop; the stage graph and the cascade with SAHI; the Python object with its
refinement of the queue; the graph compiler, the programs and what they count; the recommender; the demo server and its
dataset tool; the proofs about Batcher, Pipeline with its refinement, SahiTiles, StageGraph and Cascade, ResultQueue,
PyPipeline, Sizing, the graph compiler and the naming of outputs, CameraLoop, PacketRing with the relay, FleetDemo,
PrepAic22 and Lifecycle.

What would come next:

1. *Setup*: opening engines one after another with the failure path of the constructor, and the
   shape checks between plan and engines.
2. *CTC* and *EngineCache*: collapse of repeats and blanks; write-then-rename with crashes and two builders.
3. *Proofs*: of the trackers and zone counters of `Consumers`, apart from the frames they are run on; and that what
   `Application` takes of the executor in one step is what `Cascade` does in many.

## 8. Not modelled, and why

- **Tensor arithmetic, TensorRT**: floating-point data-parallel code, out of reach of TLC. The geometry
  of the kernels and the hand-over of the buffers they work on are modelled; coordinates are whole
  pixels and scales divide exactly, so rounding is not.
- **Setup, CTC, EngineBuilder**: sequential code around TensorRT and files (section 7).
- **Python**: text of messages, `frame_cuda`'s array interface, `extract_clip` and stream statistics.
- **Recommender**: floating point, but for the strides of the tiles. The model computes in integers of a fixed unit; a
  percentage printed with rounding may differ from it, a verdict only when a ratio lies within rounding error of 1.
- **Demo server, dataset tool**: `PostTakesEffect` compares the dials named in a request's body; of those it leaves out it
  says nothing. A kill ends ffmpeg with the script, a scenario given twice (two jobs on one file) and the repair of an
  emptied manifest by hand are left out.
- **Expected refusals**: of an exception only its class is compared; one gate also looks for "chained cascades" in its
  message.
- **QA scripts**: gates that measure time, memory, a network receiver or another implementation's numbers.
- **Command-line programs, benchmarks**: earlier stages of the same pipeline kept as tools; measurements.
- **FFmpeg and NVDEC internals**: external; a demux step yields a packet, the end or an error, a
  decode step any number of frames up to the bound. A changed sequence header
  inside a running decoder and the decoder's reorder delay are left out.
