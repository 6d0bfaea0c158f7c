------------------------------ MODULE FleetDemo ------------------------------
(***************************************************************************)
(* The fleet demo: a web server whose engine thread runs one pipeline      *)
(* generation after another.  POST /config changes the dials, stops the    *)
(* running generation and waits for the next; the threads meet in the      *)
(* events READY and STOP, in the globals CFG and GEN, and in the event     *)
(* loop, which fans events out to a bounded queue per browser.             *)
(*                                                                         *)
(* A generation is a Pipeline seen from its owner: built, running, then    *)
(* stopped by somebody, or finished when its cameras have all been given   *)
(* up.  Lifecycle and ResultQueue say why stop() returns and why iteration *)
(* ends then.                                                              *)
(***************************************************************************)
EXTENDS Integers, FiniteSets, SequencesExt

Dials == {"n", "decode"}

CONSTANTS
  Posts,        \* POST /config requests, each made once
  Bodies,       \* what they may ask for: [dial -> number] on some of the dials
  Clients,      \* browsers that read GET /events
  Capacity,     \* of a browser's queue
  MaxDial,      \* cameras in the manifest
  MaxGens, MaxEvents,           \* bounds: generations, published events
  Nobody        \* None, where a request or an answer may be

ASSUME FleetAssumption ==
  /\ Capacity \in Nat \ {0} /\ MaxDial \in Nat \ {0}
  /\ \A body \in Bodies : DOMAIN body \subseteq Dials /\ body \in [DOMAIN body -> Int]
  /\ Nobody \notin Posts

VARIABLES
  CFG,          \* the dials
  GEN,          \* the current generation's number, 0 for None
  READY, STOP,  \* threading.Event
  gens,         \* [dials, state] of every generation built
  engine,       \* [pc, c]: the engine thread; c is its copy of CFG
  lock,         \* the POST that holds LOCK
  post,         \* [pc, body, dials, answer] of every POST
  stats,        \* pc of the stats thread
  down,         \* pc of lifespan's second half
  calls,        \* events handed to the loop by call_soon_threadsafe
  published,    \* number of events published so far
  CLIENTS,      \* the browsers that are connected
  queue,        \* of every browser
  fanned, got,  \* what was fanned out to a browser since it connected; what it got
  alone         \* FALSE once a generation ended by itself or could not be built

sse == <<calls, published, CLIENTS, queue, fanned, got>>
fleetVars == <<CFG, GEN, READY, STOP, gens, engine, lock, post, stats, down, sse, alone>>

\* A number asked for is brought into range; a decode mode that is none is "all", 1.
Clamped(dial, v) ==
  IF dial = "decode" THEN (IF v \in 1..2 THEN v ELSE 1)
  ELSE IF v < 1 THEN 1 ELSE IF v > MaxDial THEN MaxDial ELSE v

\* The dials of a request: those its body leaves out are read from CFG when it arrives.
Requested(body) ==
  [d \in Dials |-> Clamped(d, IF d \in DOMAIN body THEN body[d] ELSE CFG[d])]

StartDials == [d \in Dials |-> 1]

FleetInit ==
  /\ CFG = StartDials /\ GEN = 0 /\ READY = FALSE /\ STOP = FALSE
  /\ gens = <<>>
  /\ engine = [pc |-> "check", c |-> StartDials]
  /\ lock = Nobody
  /\ post = [p \in Posts |-> [pc |-> "idle", body |-> <<>>, dials |-> StartDials, answer |-> Nobody]]
  /\ stats = "wait"
  /\ down = "serving"
  /\ calls = <<>> /\ published = 0
  /\ queue = [c \in Clients |-> <<>>]
  /\ CLIENTS = {}
  /\ fanned = [c \in Clients |-> <<>>]
  /\ got = [c \in Clients |-> <<>>]
  /\ alone = TRUE

-----------------------------------------------------------------------------
(* The engine thread *)

EngineCheck ==
  /\ engine.pc = "check"
  /\ engine' = [engine EXCEPT !.pc = IF STOP THEN "ended" ELSE "copy"]
  /\ UNCHANGED <<CFG, GEN, READY, STOP, gens, lock, post, stats, down, sse, alone>>

EngineCopy ==
  /\ engine.pc = "copy"
  /\ engine' = [engine EXCEPT !.pc = "build", !.c = CFG]
  /\ UNCHANGED <<CFG, GEN, READY, STOP, gens, lock, post, stats, down, sse, alone>>

\* build_pipeline: minutes, the first time; an exception ends the thread.
EngineBuild ==
  /\ engine.pc = "build"
  /\ \/ /\ gens' = Append(gens, [dials |-> engine.c, state |-> "built"])
        /\ engine' = [engine EXCEPT !.pc = "swap"]
        /\ UNCHANGED alone
     \/ /\ engine' = [engine EXCEPT !.pc = "dead"]
        /\ alone' = FALSE
        /\ UNCHANGED gens
  /\ UNCHANGED <<CFG, GEN, READY, STOP, lock, post, stats, down, sse>>

EngineSwap ==
  /\ engine.pc = "swap"
  /\ GEN' = Len(gens)
  /\ engine' = [engine EXCEPT !.pc = "start"]
  /\ UNCHANGED <<CFG, READY, STOP, gens, lock, post, stats, down, sse, alone>>

\* start() raises on a pipeline that was stopped before, and the thread with it.
EngineStart ==
  /\ engine.pc = "start"
  /\ IF gens[Len(gens)].state = "built"
     THEN /\ gens' = [gens EXCEPT ![Len(gens)].state = "running"]
          /\ engine' = [engine EXCEPT !.pc = "ready"]
     ELSE /\ engine' = [engine EXCEPT !.pc = "dead"]
          /\ UNCHANGED gens
  /\ UNCHANGED <<CFG, GEN, READY, STOP, lock, post, stats, down, sse, alone>>

EngineReady ==
  /\ engine.pc = "ready"
  /\ READY' = TRUE
  /\ engine' = [engine EXCEPT !.pc = "loop"]
  /\ UNCHANGED <<CFG, GEN, STOP, gens, lock, post, stats, down, sse, alone>>

\* Events are numbered as they are published.
Publish ==
  /\ published < MaxEvents
  /\ published' = published + 1
  /\ calls' = Append(calls, published + 1)

\* consume: one result, published when its camera is among those displayed.
EngineConsume ==
  /\ engine.pc = "loop"
  /\ Publish
  /\ UNCHANGED <<CFG, GEN, READY, STOP, gens, engine, lock, post, stats, down, CLIENTS,
                 queue, fanned, got, alone>>

LoopEndsNever == FALSE                                           \* mutant

\* Iteration over the pipeline ends.
LoopEnds == gens[Len(gens)].state # "running"

EngineLoopEnds ==
  /\ engine.pc = "loop"
  /\ LoopEnds
  /\ engine' = [engine EXCEPT !.pc = "check"]
  /\ UNCHANGED <<CFG, GEN, READY, STOP, gens, lock, post, stats, down, sse, alone>>

\* The last camera of the running generation was given up.  (MaxGens leaves room for the
\* generation each POST asks for.)
GenerationFinishes ==
  /\ gens # <<>>
  /\ Len(gens) + Cardinality(Posts) < MaxGens
  /\ gens[Len(gens)].state = "running"
  /\ gens' = [gens EXCEPT ![Len(gens)].state = "finished"]
  /\ alone' = FALSE
  /\ UNCHANGED <<CFG, GEN, READY, STOP, engine, lock, post, stats, down, sse>>

-----------------------------------------------------------------------------
(* POST /config: steps between awaits; awaited calls run in worker threads *)

At(p, place) == post[p].pc = place

Go(p, place) == post' = [post EXCEPT ![p].pc = place]

PostArrives(p) ==
  /\ At(p, "idle") /\ down = "serving"
  /\ \E body \in Bodies :
       post' = [post EXCEPT ![p].pc = "lock", ![p].body = body, ![p].dials = Requested(body)]
  /\ UNCHANGED <<CFG, GEN, READY, STOP, gens, engine, lock, stats, down, sse, alone>>

PostLocks(p) ==
  /\ At(p, "lock") /\ lock = Nobody
  /\ lock' = p
  /\ Go(p, "waitReady")
  /\ UNCHANGED <<CFG, GEN, READY, STOP, gens, engine, stats, down, sse, alone>>

SomeBuild == TRUE                                                \* mutant

\* A build may still be in progress.
RunningBuild == READY

PostWaits(p) ==
  /\ At(p, "waitReady") /\ RunningBuild
  /\ Go(p, "update")
  /\ UNCHANGED <<CFG, GEN, READY, STOP, gens, engine, lock, stats, down, sse, alone>>

PostUpdates(p) ==
  /\ At(p, "update")
  /\ CFG' = post[p].dials
  /\ Go(p, "clear")
  /\ UNCHANGED <<GEN, READY, STOP, gens, engine, lock, stats, down, sse, alone>>

KeptReady == READY                                               \* mutant

ClearedReady == FALSE

PostClears(p) ==
  /\ At(p, "clear")
  /\ READY' = ClearedReady
  /\ Go(p, "stop")
  /\ UNCHANGED <<CFG, GEN, STOP, gens, engine, lock, stats, down, sse, alone>>

\* stop(): idempotent, and leaves a finished pipeline stopped too.
Stopped(g) == [gens EXCEPT ![g].state = "stopped"]

\* GEN is read here, after the clear: whichever generation it names by now.
PostStops(p) ==
  /\ At(p, "stop") /\ GEN # 0
  /\ gens' = Stopped(GEN)
  /\ Go(p, "waitNext")
  /\ UNCHANGED <<CFG, GEN, READY, STOP, engine, lock, stats, down, sse, alone>>

\* READY is set again, or 300 seconds are over; either way the lock is given up.
PostAnswers(p) ==
  /\ At(p, "waitNext")
  /\ READY \/ engine.pc \in {"dead", "build"}
  /\ post' = [post EXCEPT ![p].pc = "done", ![p].answer = [dials |-> CFG, ready |-> READY]]
  /\ lock' = Nobody
  /\ UNCHANGED <<CFG, GEN, READY, STOP, gens, engine, stats, down, sse, alone>>

-----------------------------------------------------------------------------
(* The stats thread *)

StatsWakes ==
  /\ stats = "wait"
  /\ \/ STOP /\ stats' = "ended"
     \/ ~STOP /\ GEN # 0 /\ stats' = "check"
  /\ UNCHANGED <<CFG, GEN, READY, STOP, gens, engine, lock, post, down, sse, alone>>

\* Rates need two readings of one generation; whether this is the second is left open.
StatsReads ==
  /\ stats = "check"
  /\ \/ READY /\ Publish
     \/ UNCHANGED <<calls, published>>
  /\ stats' = "wait"
  /\ UNCHANGED <<CFG, GEN, READY, STOP, gens, engine, lock, post, down, CLIENTS,
                 queue, fanned, got, alone>>

-----------------------------------------------------------------------------
(* The event loop and the browsers *)

Connect(c) ==
  /\ c \notin CLIENTS /\ down = "serving"
  /\ CLIENTS' = CLIENTS \cup {c}
  /\ UNCHANGED <<CFG, GEN, READY, STOP, gens, engine, lock, post, stats, down, calls, published,
                 queue, fanned, got, alone>>

PutOrSkip(q, evt) == IF Len(q) = Capacity THEN q ELSE Append(q, evt)      \* mutant

\* A full queue gives up its oldest event.
PutEvt(q, evt) == Append(IF Len(q) = Capacity THEN Tail(q) ELSE q, evt)

Fanout ==
  /\ calls # <<>>
  /\ queue' = [c \in Clients |-> IF c \in CLIENTS THEN PutEvt(queue[c], Head(calls)) ELSE queue[c]]
  /\ fanned' = [c \in Clients |-> IF c \in CLIENTS THEN Append(fanned[c], Head(calls)) ELSE fanned[c]]
  /\ calls' = Tail(calls)
  /\ UNCHANGED <<CFG, GEN, READY, STOP, gens, engine, lock, post, stats, down, published, CLIENTS,
                 got, alone>>

\* sse_gen hands the browser its next event.
Yield(c) ==
  /\ queue[c] # <<>>
  /\ got' = [got EXCEPT ![c] = Append(@, Head(queue[c]))]
  /\ queue' = [queue EXCEPT ![c] = Tail(@)]
  /\ UNCHANGED <<CFG, GEN, READY, STOP, gens, engine, lock, post, stats, down, calls, published,
                 CLIENTS, fanned, alone>>

-----------------------------------------------------------------------------
(* lifespan, once the requests in flight are answered *)

ShutdownSetsStop ==
  /\ down = "serving"
  /\ \A p \in Posts : post[p].pc \in {"idle", "done"}
  /\ STOP' = TRUE
  /\ down' = "stop"
  /\ UNCHANGED <<CFG, GEN, READY, gens, engine, lock, post, stats, sse, alone>>

ShutdownStops ==
  /\ down = "stop"
  /\ gens' = IF GEN = 0 THEN gens ELSE Stopped(GEN)
  /\ down' = "done"
  /\ UNCHANGED <<CFG, GEN, READY, STOP, engine, lock, post, stats, sse, alone>>

-----------------------------------------------------------------------------

EngineStep ==
  \/ EngineCheck \/ EngineCopy \/ EngineBuild \/ EngineSwap
  \/ EngineStart \/ EngineReady \/ EngineConsume \/ EngineLoopEnds

PostStep(p) ==
  \/ PostLocks(p) \/ PostWaits(p) \/ PostUpdates(p)
  \/ PostClears(p) \/ PostStops(p) \/ PostAnswers(p)

StatsStep == StatsWakes \/ StatsReads

FleetNext ==
  \/ EngineStep \/ GenerationFinishes
  \/ \E p \in Posts : PostArrives(p) \/ PostStep(p)
  \/ StatsStep
  \/ \E c \in Clients : Connect(c) \/ Yield(c)
  \/ Fanout
  \/ ShutdownSetsStop \/ ShutdownStops

\* Threads run; the browsers, the requests and the cameras need not do anything.
EngineProceeds ==
  \/ EngineCheck \/ EngineCopy \/ EngineBuild \/ EngineSwap
  \/ EngineStart \/ EngineReady \/ EngineLoopEnds

FleetFairness ==
  /\ WF_fleetVars(EngineProceeds)
  /\ \A p \in Posts : WF_fleetVars(PostStep(p))
  /\ WF_fleetVars(Fanout)

FleetSpec == FleetInit /\ [][FleetNext]_fleetVars /\ FleetFairness

-----------------------------------------------------------------------------
(* Properties *)

FleetTypeOK ==
  /\ CFG \in [Dials -> Nat] /\ GEN \in 0..Len(gens)
  /\ READY \in BOOLEAN /\ STOP \in BOOLEAN /\ alone \in BOOLEAN
  /\ \A g \in DOMAIN gens : gens[g].state \in {"built", "running", "stopped", "finished"}
  /\ engine.pc \in {"check", "copy", "build", "swap", "start", "ready", "loop", "ended", "dead"}
  /\ lock \in Posts \cup {Nobody}

\* set_config's promise: when a POST answers that the pipeline is ready, the generation
\* that runs is one built with the dials asked for, the engine thread having copied CFG
\* after the update - as long as no generation ended by itself, which leaves READY set
\* through the rebuild, or could not be built.
PostTakesEffect ==
  \A p \in Posts :
    lock = p /\ At(p, "waitNext") /\ READY /\ alone =>
      /\ gens[GEN].state = "running"
      /\ \A d \in DOMAIN post[p].body : gens[GEN].dials[d] = Clamped(d, post[p].body[d])

\* The engine thread outlives every POST: it is only ever stopped in its loop, never
\* between GEN's assignment and start(), where stop() would make start() raise.
EngineOutlivesPosts == engine.pc = "dead" /\ alone => STOP

\* Every POST is answered, however the requests queue up for the lock, unless the engine
\* thread has died: then READY is waited for without a timeout.
PostReturns ==
  \A p \in Posts : At(p, "lock") ~> (At(p, "done") \/ engine.pc = "dead")

\* A browser's queue holds the latest events, in the order they were published, however
\* slow the browser; what it was given before is older, and nothing is lost that fitted.
BrowserSeesNewest ==
  \A c \in CLIENTS :
    /\ IsSuffix(queue[c], fanned[c])
    /\ \A i, j \in DOMAIN (got[c] \o queue[c]) :
         i < j => (got[c] \o queue[c])[i] < (got[c] \o queue[c])[j]
    /\ Len(fanned[c]) <= Capacity => got[c] \o queue[c] = fanned[c]
=============================================================================
