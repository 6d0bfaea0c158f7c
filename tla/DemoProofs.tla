------------------------------ MODULE DemoProofs ------------------------------
(***************************************************************************)
(* Theorems about the programs of the fleet demo: its server, for any      *)
(* number of requests, browsers, generations and events, and its dataset   *)
(* tool, for any data set, number of jobs, output directories and keyframe *)
(* intervals, and any number of runs and faults.                           *)
(*                                                                         *)
(* About the server there are two invariants: one ties the events READY    *)
(* and STOP and the globals CFG and GEN to where the engine thread and the *)
(* holder of LOCK stand, the other orders the events on their way from a   *)
(* thread to a browser.  The argument about the tool is about one run at a *)
(* time: what its jobs have done to the clips and to new_entries, and what *)
(* the run found on disk.                                                  *)
(***************************************************************************)
EXTENDS FleetDemo, PrepAic22, TLAPS, FiniteSetTheorems, SequenceTheorems

-----------------------------------------------------------------------------
(* The demo server: the engine thread and the requests *)

\* The values of the dials, a generation, the engine thread and a request.
Settings == [Dials -> Nat]
Generations == [dials : Settings, state : {"built", "running", "stopped", "finished"}]
Engines == [pc : {"check", "copy", "build", "swap", "start", "ready", "loop", "ended", "dead"},
            c : Settings]

Requests == [pc : {"idle", "lock", "waitReady", "update", "clear", "stop", "waitNext", "done"},
             body : Bodies \cup {<<>>}, dials : Settings,
             answer : {Nobody} \cup [dials : Settings, ready : BOOLEAN]]

EngineTyped ==
  /\ CFG \in Settings /\ GEN \in Nat /\ READY \in BOOLEAN /\ STOP \in BOOLEAN /\ alone \in BOOLEAN
  /\ gens \in Seq(Generations)
  /\ engine \in Engines
  /\ lock \in Posts \cup {Nobody}
  /\ post \in [Posts -> Requests]
  /\ down \in {"serving", "stop", "done"}

\* The generation that was built last.
Newest == gens[Len(gens)]

\* Where a request has the lock.
Holding == {"waitReady", "update", "clear", "stop", "waitNext"}

LockHeld == \A p \in Posts : lock = p <=> post[p].pc \in Holding

\* GEN is assigned one step after the generation is built.
GenNamed ==
  /\ GEN = IF engine.pc = "swap" THEN Len(gens) - 1 ELSE Len(gens)
  /\ engine.pc \in {"swap", "start", "ready", "loop"} => Len(gens) > 0

\* STOP is set once, when no request is on its way.
StopIsShutdown ==
  /\ STOP <=> down # "serving"
  /\ STOP => \A p \in Posts : post[p].pc \in {"idle", "done"}

\* No generation ended by itself or could not be built, and the server is not shut down.
Undisturbed == alone /\ ~STOP

\* READY means that the last generation runs: the engine thread starts what it has just
\* built, and nobody stops it before it is in its loop.
EngineGoesOn ==
  Undisturbed =>
    /\ engine.pc \notin {"ended", "dead"}
    /\ engine.pc \in {"swap", "start"} => Newest.state = "built"
    /\ engine.pc = "ready" => Newest.state = "running"
    /\ READY => engine.pc = "loop" /\ Newest.state = "running"

\* The engine thread is on its way to a generation with the dials c, or has one running.
Rebuilding(c) ==
  \/ engine.pc = "loop" /\ ~READY /\ Newest.state # "running"
  \/ engine.pc \in {"check", "copy"}
  \/ engine.pc = "build" /\ engine.c = c
  \/ engine.pc \in {"swap", "start", "ready"} /\ Newest.dials = c
  \/ engine.pc = "loop" /\ READY /\ Newest.dials = c

\* A request asks for what its body says, in range.
RequestSane(p) ==
  post[p].pc # "idle" =>
    /\ post[p].body \in Bodies
    /\ \A d \in DOMAIN post[p].body : post[p].dials[d] = Clamped(d, post[p].body[d])

\* How far the holder of the lock is fits how far the engine thread is.
RequestInStep(p) ==
  Undisturbed =>
    /\ post[p].pc \in {"update", "clear"} => READY
    /\ post[p].pc = "stop" => ~READY /\ engine.pc = "loop" /\ Newest.state = "running"
    /\ post[p].pc \in {"clear", "stop", "waitNext"} => CFG = post[p].dials
    /\ post[p].pc = "waitNext" => Rebuilding(CFG)

EngineInv ==
  /\ EngineTyped /\ LockHeld /\ GenNamed /\ StopIsShutdown /\ EngineGoesOn
  /\ \A p \in Posts : RequestSane(p) /\ RequestInStep(p)

-----------------------------------------------------------------------------
\* A generation changes its state.
LEMMA StateChanges ==
  ASSUME gens \in Seq(Generations), NEW g \in 1..Len(gens),
         NEW st \in {"built", "running", "stopped", "finished"},
         NEW h, h = [gens EXCEPT ![g].state = st]
  PROVE  /\ h \in Seq(Generations) /\ Len(h) = Len(gens)
         /\ h[g].state = st /\ h[g].dials = gens[g].dials
<1>1. gens[g] \in Generations
  OBVIOUS
<1>2. [gens[g] EXCEPT !.state = st] \in Generations
  BY <1>1 DEF Generations
<1>3. h = [gens EXCEPT ![g] = [gens[g] EXCEPT !.state = st]]
  OBVIOUS
<1>4. /\ h \in Seq(Generations) /\ Len(h) = Len(gens) /\ h[g] = [gens[g] EXCEPT !.state = st]
  BY <1>2, <1>3, ExceptSeq
<1>5. QED BY <1>1, <1>4 DEF Generations

\* A generation is built.
LEMMA GenerationAdded ==
  ASSUME gens \in Seq(Generations), NEW c \in Settings,
         NEW h, h = Append(gens, [dials |-> c, state |-> "built"])
  PROVE  /\ h \in Seq(Generations) /\ Len(h) = Len(gens) + 1
         /\ h[Len(h)].state = "built" /\ h[Len(h)].dials = c
<1>1. [dials |-> c, state |-> "built"] \in Generations
  BY DEF Generations
<1>2. QED BY <1>1

\* A request moves on, the others stay where they are.
LEMMA RequestMoves ==
  ASSUME post \in [Posts -> Requests], NEW p \in Posts,
         NEW place \in {"idle", "lock", "waitReady", "update", "clear", "stop", "waitNext", "done"},
         Go(p, place)
  PROVE  /\ post' \in [Posts -> Requests]
         /\ post'[p].pc = place /\ post'[p].body = post[p].body /\ post'[p].dials = post[p].dials
         /\ \A q \in Posts \ {p} : post'[q] = post[q]
<1>1. post[p] \in Requests
  OBVIOUS
<1>2. post' = [post EXCEPT ![p] = [post[p] EXCEPT !.pc = place]]
  BY DEF Go
<1>3. /\ [post[p] EXCEPT !.pc = place] \in Requests
      /\ [post[p] EXCEPT !.pc = place].pc = place
      /\ [post[p] EXCEPT !.pc = place].body = post[p].body
      /\ [post[p] EXCEPT !.pc = place].dials = post[p].dials
  BY <1>1 DEF Requests
<1>4. QED BY <1>2, <1>3

\* GEN names the last generation, or the one before while a new one is not named yet.
LEMMA NamedInRange ==
  ASSUME EngineTyped, GenNamed
  PROVE  GEN \in 0..Len(gens) /\ (engine.pc # "swap" => GEN = Len(gens))
<1>1. Len(gens) \in Nat
  BY DEF EngineTyped
<1>2. CASE engine.pc = "swap"
  <2>1. GEN = Len(gens) - 1 /\ Len(gens) > 0
    BY <1>2 DEF GenNamed
  <2>2. QED BY <1>1, <1>2, <2>1
<1>3. CASE engine.pc # "swap"
  BY <1>1, <1>3 DEF GenNamed
<1>4. QED BY <1>2, <1>3

\* A number asked for is in range.
LEMMA InRange ==
  \A d \in Dials : \A v \in Int : Clamped(d, v) \in Nat
BY FleetAssumption DEF Clamped, Dials

\* What a request will set.
LEMMA RequestedDials ==
  ASSUME CFG \in Settings, NEW body \in Bodies
  PROVE  /\ Requested(body) \in Settings
         /\ \A d \in DOMAIN body : Requested(body)[d] = Clamped(d, body[d])
<1>1. DOMAIN body \subseteq Dials /\ \A d \in DOMAIN body : body[d] \in Int
  BY FleetAssumption
<1>2. \A d \in Dials : (IF d \in DOMAIN body THEN body[d] ELSE CFG[d]) \in Int
  BY <1>1 DEF Settings
<1>3. QED BY <1>1, <1>2, InRange DEF Requested, Settings

-----------------------------------------------------------------------------
engineVars == <<CFG, GEN, READY, STOP, gens, engine, lock, post, down, alone>>

\* The invariant holds at first.
LEMMA FleetStarts == FleetInit => EngineInv
<1>. SUFFICES ASSUME FleetInit PROVE EngineInv
  OBVIOUS
<1>1. /\ CFG = StartDials /\ GEN = 0 /\ READY = FALSE /\ STOP = FALSE /\ gens = <<>>
      /\ engine = [pc |-> "check", c |-> StartDials] /\ lock = Nobody /\ down = "serving" /\ alone = TRUE
      /\ post = [p \in Posts |-> [pc |-> "idle", body |-> <<>>, dials |-> StartDials, answer |-> Nobody]]
  BY DEF FleetInit
<1>2. StartDials \in Settings
  BY DEF StartDials, Settings
<1>3. \A p \in Posts : post[p] \in Requests /\ post[p].pc = "idle"
  BY <1>1, <1>2 DEF Requests
<1>4. EngineTyped
  <2>1. post \in [Posts -> Requests]
    BY <1>1, <1>3
  <2>2. gens \in Seq(Generations)
    BY <1>1
  <2>3. engine \in Engines
    BY <1>1, <1>2 DEF Engines
  <2>4. QED BY <1>1, <1>2, <2>1, <2>2, <2>3 DEF EngineTyped
<1>5. LockHeld
  BY <1>1, <1>3, FleetAssumption DEF LockHeld, Holding
<1>6. GenNamed /\ StopIsShutdown /\ EngineGoesOn
  BY <1>1, <1>3 DEF GenNamed, StopIsShutdown, EngineGoesOn
<1>7. \A p \in Posts : RequestSane(p) /\ RequestInStep(p)
  BY <1>3 DEF RequestSane, RequestInStep
<1>8. QED BY <1>4, <1>5, <1>6, <1>7 DEF EngineInv

\* Steps of the browsers and the statistics.
LEMMA OthersKeepEngine == EngineInv /\ UNCHANGED engineVars => EngineInv'
BY DEF EngineInv, engineVars, EngineTyped, LockHeld, GenNamed, StopIsShutdown, EngineGoesOn, Undisturbed,
       Newest, RequestSane, RequestInStep, Rebuilding

\* The steps of the engine and of the cameras leave the requests and the lock alone.
LEMMA RequestsKept ==
  ASSUME EngineInv, UNCHANGED <<CFG, STOP, lock, post, down>>, alone' => alone
  PROVE  /\ LockHeld' /\ StopIsShutdown' /\ \A p \in Posts : RequestSane(p)'
         /\ CFG' \in Settings /\ STOP' \in BOOLEAN /\ lock' \in Posts \cup {Nobody}
         /\ post' \in [Posts -> Requests] /\ down' \in {"serving", "stop", "done"}
         /\ Undisturbed' => Undisturbed
<1>1. LockHeld' /\ StopIsShutdown' /\ \A p \in Posts : RequestSane(p)'
  BY DEF EngineInv, LockHeld, StopIsShutdown, RequestSane
<1>2. QED BY <1>1 DEF EngineInv, EngineTyped, Undisturbed

\* What the engine's steps before the build do.
LEMMA EngineBeginsKeeps ==
  ASSUME EngineInv, EngineCheck \/ EngineCopy \/ EngineLoopEnds
  PROVE  EngineInv'
<1>1. /\ UNCHANGED <<CFG, GEN, READY, STOP, gens, lock, post, down, alone>>
      /\ engine' \in [pc : {"check", "copy", "build", "ended"}, c : Settings]
      /\ engine.pc \in {"check", "copy", "loop"}
      /\ \/ engine.pc = "check" /\ engine'.pc = IF STOP THEN "ended" ELSE "copy"
         \/ engine.pc = "copy" /\ engine'.pc = "build" /\ engine'.c = CFG
         \/ engine.pc = "loop" /\ engine'.pc = "check" /\ Newest.state # "running"
  BY DEF EngineCheck, EngineCopy, EngineLoopEnds, LoopEnds, EngineInv, EngineTyped, Newest, Engines
<1>2. EngineTyped'
  BY <1>1, RequestsKept DEF EngineInv, EngineTyped, Engines
<1>3. GenNamed'
  BY <1>1 DEF EngineInv, GenNamed
<1>4. Newest' = Newest
  BY <1>1 DEF Newest
<1>5. EngineGoesOn'
  BY <1>1, <1>4 DEF EngineInv, EngineGoesOn, Undisturbed
<1>6. ASSUME NEW p \in Posts PROVE RequestInStep(p)'
  <2>1. RequestInStep(p) /\ EngineGoesOn
    BY DEF EngineInv
  <2>2. QED BY <1>1, <1>4, <2>1 DEF RequestInStep, EngineGoesOn, Undisturbed, Rebuilding
<1>7. LockHeld' /\ StopIsShutdown' /\ \A p \in Posts : RequestSane(p)'
  BY <1>1, RequestsKept
<1>8. QED BY <1>2, <1>3, <1>5, <1>6, <1>7 DEF EngineInv

\* A generation is built, or cannot be.
LEMMA EngineBuildKeeps ==
  ASSUME EngineInv, EngineBuild
  PROVE  EngineInv'
<1>1. /\ UNCHANGED <<CFG, GEN, READY, STOP, lock, post, down>> /\ engine.pc = "build"
      /\ alone' => alone
      /\ \/ /\ gens' = Append(gens, [dials |-> engine.c, state |-> "built"])
            /\ engine' = [engine EXCEPT !.pc = "swap"] /\ alone' = alone
         \/ engine' = [engine EXCEPT !.pc = "dead"] /\ alone' = FALSE /\ gens' = gens
  BY DEF EngineBuild
<1>2. /\ gens \in Seq(Generations) /\ GEN = Len(gens) /\ Len(gens) \in Nat /\ GEN \in Nat
      /\ engine \in Engines
      /\ engine.c \in Settings /\ READY \in BOOLEAN /\ alone \in BOOLEAN
  BY <1>1 DEF EngineInv, EngineTyped, GenNamed, Engines
<1>3. \/ /\ gens' \in Seq(Generations) /\ Len(gens') = Len(gens) + 1
         /\ Newest'.state = "built" /\ Newest'.dials = engine.c
         /\ engine'.pc = "swap" /\ alone' = alone
      \/ engine'.pc = "dead" /\ alone' = FALSE /\ gens' = gens
  BY <1>1, <1>2, GenerationAdded DEF Newest, Engines
<1>4. engine' \in Engines
  BY <1>1, <1>2 DEF Engines
<1>5. /\ LockHeld' /\ StopIsShutdown' /\ \A p \in Posts : RequestSane(p)'
      /\ CFG' \in Settings /\ STOP' \in BOOLEAN /\ lock' \in Posts \cup {Nobody}
      /\ post' \in [Posts -> Requests] /\ down' \in {"serving", "stop", "done"}
      /\ Undisturbed' => Undisturbed
  BY <1>1, RequestsKept
<1>6. EngineTyped'
  BY <1>1, <1>2, <1>3, <1>4, <1>5 DEF EngineTyped
<1>7. GenNamed'
  BY <1>1, <1>2, <1>3 DEF GenNamed
<1>8. EngineGoesOn'
  BY <1>1, <1>3 DEF EngineInv, EngineGoesOn, Undisturbed
<1>9. ASSUME NEW p \in Posts PROVE RequestInStep(p)'
  <2>1. RequestInStep(p) /\ EngineGoesOn
    BY DEF EngineInv
  <2>2. QED BY <1>1, <1>3, <2>1 DEF RequestInStep, EngineGoesOn, Undisturbed, Rebuilding
<1>10. QED BY <1>5, <1>6, <1>7, <1>8, <1>9 DEF EngineInv

\* The generation that was built is named, started, and announced.
LEMMA EngineSwapKeeps ==
  ASSUME EngineInv, EngineSwap
  PROVE  EngineInv'
<1>1. /\ UNCHANGED <<CFG, READY, STOP, gens, lock, post, down, alone>> /\ engine.pc = "swap"
      /\ GEN' = Len(gens) /\ engine' = [engine EXCEPT !.pc = "start"]
  BY DEF EngineSwap
<1>2. /\ gens \in Seq(Generations) /\ Len(gens) \in Nat
      /\ engine \in Engines
  BY DEF EngineInv, EngineTyped
<1>3. /\ engine'.pc = "start" /\ Newest' = Newest
      /\ engine' \in Engines
  BY <1>1, <1>2 DEF Newest, Engines
<1>4. EngineTyped'
  BY <1>1, <1>2, <1>3 DEF EngineInv, EngineTyped
<1>5. GenNamed' /\ EngineGoesOn'
  BY <1>1, <1>3 DEF EngineInv, GenNamed, EngineGoesOn, Undisturbed
<1>6. ASSUME NEW p \in Posts PROVE RequestInStep(p)'
  <2>1. RequestInStep(p)
    BY DEF EngineInv
  <2>2. QED BY <1>1, <1>3, <2>1 DEF RequestInStep, Undisturbed, Rebuilding
<1>7. LockHeld' /\ StopIsShutdown' /\ \A p \in Posts : RequestSane(p)'
  BY <1>1, RequestsKept
<1>8. QED BY <1>4, <1>5, <1>6, <1>7 DEF EngineInv

\* Generations change their state: the last one is started, or finished.
LEMMA EngineStartKeeps ==
  ASSUME EngineInv, EngineStart
  PROVE  EngineInv'
<1>1. /\ UNCHANGED <<CFG, GEN, READY, STOP, lock, post, down, alone>> /\ engine.pc = "start"
      /\ \/ /\ Newest.state = "built"
            /\ gens' = [gens EXCEPT ![Len(gens)].state = "running"]
            /\ engine' = [engine EXCEPT !.pc = "ready"]
         \/ /\ Newest.state # "built"
            /\ gens' = gens /\ engine' = [engine EXCEPT !.pc = "dead"]
  BY DEF EngineStart, Newest
<1>2. /\ gens \in Seq(Generations) /\ Len(gens) \in 1..Len(gens) /\ GEN = Len(gens)
      /\ engine \in Engines
  BY <1>1 DEF EngineInv, EngineTyped, GenNamed
<1>3. /\ gens' \in Seq(Generations) /\ Len(gens') = Len(gens) /\ Newest'.dials = Newest.dials
      /\ \/ engine'.pc = "ready" /\ Newest'.state = "running"
         \/ engine'.pc = "dead" /\ Newest.state # "built"
      /\ engine' \in Engines
  BY <1>1, <1>2, StateChanges DEF Newest, Engines
<1>4. EngineTyped'
  BY <1>1, <1>3 DEF EngineInv, EngineTyped
<1>5. GenNamed' /\ EngineGoesOn'
  BY <1>1, <1>2, <1>3 DEF EngineInv, GenNamed, EngineGoesOn, Undisturbed
<1>6. ASSUME NEW p \in Posts PROVE RequestInStep(p)'
  <2>1. RequestInStep(p) /\ EngineGoesOn
    BY DEF EngineInv
  <2>2. QED BY <1>1, <1>3, <2>1 DEF RequestInStep, EngineGoesOn, Undisturbed, Rebuilding
<1>7. LockHeld' /\ StopIsShutdown' /\ \A p \in Posts : RequestSane(p)'
  BY <1>1, RequestsKept
<1>8. QED BY <1>4, <1>5, <1>6, <1>7 DEF EngineInv

\* READY is set.
LEMMA EngineReadyKeeps ==
  ASSUME EngineInv, EngineReady
  PROVE  EngineInv'
<1>1. /\ UNCHANGED <<CFG, GEN, STOP, gens, lock, post, down, alone>> /\ engine.pc = "ready"
      /\ READY' = TRUE /\ engine' = [engine EXCEPT !.pc = "loop"]
  BY DEF EngineReady
<1>2. engine \in Engines
  BY DEF EngineInv, EngineTyped
<1>3. /\ engine'.pc = "loop" /\ Newest' = Newest
      /\ engine' \in Engines
  BY <1>1, <1>2 DEF Newest, Engines
<1>4. EngineTyped'
  BY <1>1, <1>3 DEF EngineInv, EngineTyped
<1>5. GenNamed' /\ EngineGoesOn'
  BY <1>1, <1>3 DEF EngineInv, GenNamed, EngineGoesOn, Undisturbed
<1>6. ASSUME NEW p \in Posts PROVE RequestInStep(p)'
  <2>1. RequestInStep(p)
    BY DEF EngineInv
  <2>2. QED BY <1>1, <1>3, <2>1 DEF RequestInStep, Undisturbed, Rebuilding
<1>7. LockHeld' /\ StopIsShutdown' /\ \A p \in Posts : RequestSane(p)'
  BY <1>1, RequestsKept
<1>8. QED BY <1>4, <1>5, <1>6, <1>7 DEF EngineInv

\* A generation ends by itself, after which nothing is promised.
LEMMA GenerationFinishesKeeps ==
  ASSUME EngineInv, GenerationFinishes
  PROVE  EngineInv'
<1>1. /\ UNCHANGED <<CFG, GEN, READY, STOP, engine, lock, post, down>> /\ alone' = FALSE
      /\ gens # <<>> /\ gens' = [gens EXCEPT ![Len(gens)].state = "finished"]
  BY DEF GenerationFinishes
<1>2. gens \in Seq(Generations) /\ Len(gens) \in 1..Len(gens)
  BY <1>1 DEF EngineInv, EngineTyped
<1>3. gens' \in Seq(Generations) /\ Len(gens') = Len(gens)
  BY <1>1, <1>2, StateChanges, SMTT(30)
<1>4. EngineTyped' /\ GenNamed'
  BY <1>1, <1>3 DEF EngineInv, EngineTyped, GenNamed
<1>5. EngineGoesOn' /\ \A p \in Posts : RequestInStep(p)'
  BY <1>1 DEF EngineGoesOn, RequestInStep, Undisturbed
<1>6. LockHeld' /\ StopIsShutdown' /\ \A p \in Posts : RequestSane(p)'
  BY <1>1, RequestsKept
<1>7. QED BY <1>4, <1>5, <1>6 DEF EngineInv

\* A request that moves without touching the engine, and holds the lock before or after
\* the step, or neither.
LEMMA RequestStepKeeps ==
  ASSUME EngineInv, NEW p \in Posts,
         UNCHANGED <<STOP, down, alone, engine, GEN>>,
         CFG' \in Settings, READY' \in BOOLEAN, gens' \in Seq(Generations), Len(gens') = Len(gens),
         lock' \in Posts \cup {Nobody}, LockHeld', down = "serving",
         post' \in [Posts -> Requests], \A q \in Posts \ {p} : post'[q] = post[q],
         \A q \in Posts \ {p} : post'[q].pc \notin Holding \ {"waitReady"},
         RequestSane(p)', RequestInStep(p)', EngineGoesOn'
  PROVE  EngineInv'
<1>1. EngineTyped' /\ GenNamed'
  BY DEF EngineInv, EngineTyped, GenNamed
<1>2. StopIsShutdown'
  BY DEF EngineInv, StopIsShutdown
<1>3. ASSUME NEW q \in Posts PROVE RequestSane(q)' /\ RequestInStep(q)'
  <2>1. CASE q = p
    BY <2>1
  <2>2. CASE q # p
    <3>1. RequestSane(q)
      BY DEF EngineInv
    <3>2. RequestSane(q)'
      BY <2>2, <3>1 DEF RequestSane
    <3>3. RequestInStep(q)'
      BY <2>2 DEF RequestInStep, Holding
    <3>4. QED BY <3>2, <3>3
  <2>3. QED BY <2>1, <2>2
<1>4. QED BY <1>1, <1>2, <1>3 DEF EngineInv

\* Only one request has the lock.
LEMMA OthersWait ==
  ASSUME EngineInv, NEW p \in Posts, post[p].pc \in Holding \/ lock = Nobody
  PROVE  /\ \A q \in Posts \ {p} : post[q].pc \notin Holding
         /\ post[p].pc \in Holding => down = "serving" /\ ~STOP
<1>1. \A q \in Posts \ {p} : post[q].pc \notin Holding
  BY FleetAssumption DEF EngineInv, LockHeld
<1>2. post[p].pc \in Holding => ~STOP
  BY DEF EngineInv, StopIsShutdown, Holding
<1>3. QED BY <1>1, <1>2 DEF EngineInv, StopIsShutdown

\* A request arrives, and waits for the lock.
LEMMA PostArrivesKeeps ==
  ASSUME EngineInv, NEW p \in Posts, PostArrives(p)
  PROVE  EngineInv'
<1>1. PICK body \in Bodies :
        post' = [post EXCEPT ![p].pc = "lock", ![p].body = body, ![p].dials = Requested(body)]
  BY Zenon DEF PostArrives
<1>2. /\ UNCHANGED <<CFG, GEN, READY, STOP, gens, engine, lock, down, alone>> /\ post[p].pc = "idle"
      /\ down = "serving"
  BY DEF PostArrives, At
<1>3. post \in [Posts -> Requests] /\ CFG \in Settings /\ post[p] \in Requests
  BY DEF EngineInv, EngineTyped
<1>4. /\ Requested(body) \in Settings
      /\ \A d \in DOMAIN body : Requested(body)[d] = Clamped(d, body[d])
  BY <1>3, RequestedDials
<1>5. DEFINE r == [post[p] EXCEPT !.pc = "lock", !.body = body, !.dials = Requested(body)]
<1>6. r \in Requests /\ r.pc = "lock" /\ r.body = body /\ r.dials = Requested(body)
  BY <1>3, <1>4 DEF Requests
<1>7. post' = [post EXCEPT ![p] = r]
  BY <1>1
<1>. HIDE DEF r
<1>8. /\ post' \in [Posts -> Requests] /\ post'[p] = r
      /\ \A q \in Posts \ {p} : post'[q] = post[q]
  BY <1>3, <1>6, <1>7
<1>9. \A q \in Posts : post'[q].pc \in Holding <=> post[q].pc \in Holding
  BY <1>2, <1>6, <1>8 DEF Holding
<1>10. LockHeld'
  BY <1>2, <1>9 DEF EngineInv, LockHeld
<1>11. RequestSane(p)'
  BY <1>4, <1>6, <1>8 DEF RequestSane
<1>12. RequestInStep(p)'
  BY <1>6, <1>8 DEF RequestInStep
<1>13. StopIsShutdown'
  BY <1>2 DEF EngineInv, StopIsShutdown
<1>14. EngineTyped' /\ GenNamed' /\ EngineGoesOn'
  BY <1>2, <1>8 DEF EngineInv, EngineTyped, GenNamed, EngineGoesOn, Undisturbed, Newest
<1>15. ASSUME NEW q \in Posts PROVE RequestSane(q)' /\ RequestInStep(q)'
  <2>1. CASE q = p
    BY <1>11, <1>12, <2>1
  <2>2. CASE q # p
    <3>1. RequestSane(q) /\ RequestInStep(q) /\ post'[q] = post[q]
      BY <1>8, <2>2 DEF EngineInv
    <3>2. RequestSane(q)'
      BY <3>1 DEF RequestSane
    <3>3. RequestInStep(q)'
      BY <1>2, <3>1 DEF RequestInStep, Undisturbed, Rebuilding, Newest
    <3>4. QED BY <3>2, <3>3
  <2>3. QED BY <2>1, <2>2
<1>16. QED BY <1>10, <1>13, <1>14, <1>15 DEF EngineInv

\* The lock is taken.
LEMMA PostLocksKeeps ==
  ASSUME EngineInv, NEW p \in Posts, PostLocks(p)
  PROVE  EngineInv'
<1>1. /\ UNCHANGED <<CFG, GEN, READY, STOP, gens, engine, down, alone>> /\ post[p].pc = "lock"
      /\ lock = Nobody /\ lock' = p /\ Go(p, "waitReady")
  BY DEF PostLocks, At
<1>2. /\ post' \in [Posts -> Requests]
      /\ post'[p].pc = "waitReady" /\ post'[p].body = post[p].body /\ post'[p].dials = post[p].dials
      /\ \A q \in Posts \ {p} : post'[q] = post[q]
  BY <1>1, RequestMoves DEF EngineInv, EngineTyped
<1>3. \A q \in Posts \ {p} : post[q].pc \notin Holding
  BY <1>1, OthersWait
<1>4. LockHeld'
  BY <1>1, <1>2, <1>3 DEF LockHeld, Holding
<1>5. down = "serving"
  BY <1>1 DEF EngineInv, StopIsShutdown
<1>6. RequestSane(p)'
  BY <1>1, <1>2 DEF EngineInv, RequestSane
<1>7. RequestInStep(p)'
  BY <1>2 DEF RequestInStep
<1>8. EngineGoesOn'
  BY <1>1 DEF EngineInv, EngineGoesOn, Undisturbed, Newest
<1>9. \A q \in Posts \ {p} : post'[q].pc \notin Holding \ {"waitReady"}
  BY <1>2, <1>3
<1>10. QED
  BY <1>1, <1>2, <1>4, <1>5, <1>6, <1>7, <1>8, <1>9, RequestStepKeeps DEF EngineInv, EngineTyped

\* What the holder of the lock finds, and leaves to the others.
LEMMA HolderMoves ==
  ASSUME EngineInv, NEW p \in Posts, NEW place \in Holding, post[p].pc \in Holding, Go(p, place),
         lock' = lock
  PROVE  /\ post' \in [Posts -> Requests] /\ post'[p].pc = place
         /\ post'[p].body = post[p].body /\ post'[p].dials = post[p].dials
         /\ \A q \in Posts \ {p} : post'[q] = post[q] /\ post'[q].pc \notin Holding \ {"waitReady"}
         /\ LockHeld' /\ lock' \in Posts \cup {Nobody} /\ RequestSane(p)' /\ down = "serving" /\ ~STOP
<1>1. /\ post' \in [Posts -> Requests]
      /\ post'[p].pc = place /\ post'[p].body = post[p].body /\ post'[p].dials = post[p].dials
      /\ \A q \in Posts \ {p} : post'[q] = post[q]
  BY RequestMoves DEF EngineInv, EngineTyped, Holding
<1>2. /\ \A q \in Posts \ {p} : post[q].pc \notin Holding
      /\ down = "serving" /\ ~STOP
  BY OthersWait
<1>3. \A q \in Posts : post'[q].pc \in Holding <=> post[q].pc \in Holding
  BY <1>1
<1>4. LockHeld' /\ lock' \in Posts \cup {Nobody}
  BY <1>3 DEF EngineInv, EngineTyped, LockHeld
<1>5. RequestSane(p)'
  BY <1>1 DEF EngineInv, RequestSane, Holding
<1>6. QED BY <1>1, <1>2, <1>4, <1>5

\* READY was set, the dials are changed, READY is cleared.
LEMMA PostProceedsKeeps ==
  ASSUME EngineInv, NEW p \in Posts, PostWaits(p) \/ PostUpdates(p) \/ PostClears(p)
  PROVE  EngineInv'
<1>1. PICK place \in Holding :
        /\ UNCHANGED <<GEN, STOP, gens, engine, lock, down, alone>> /\ post[p].pc \in Holding
        /\ Go(p, place)
        /\ \/ place = "update" /\ READY' /\ CFG' = CFG /\ READY' = READY
           \/ post[p].pc = "update" /\ place = "clear" /\ CFG' = post[p].dials /\ READY' = READY
           \/ post[p].pc = "clear" /\ place = "stop" /\ CFG' = CFG /\ READY' = FALSE
  <2>1. CASE PostWaits(p)
    <3>1. /\ UNCHANGED <<CFG, GEN, READY, STOP, gens, engine, lock, down, alone>>
          /\ post[p].pc = "waitReady" /\ READY /\ Go(p, "update")
      BY <2>1 DEF PostWaits, At, RunningBuild
    <3>2. READY' /\ READY' = READY
      BY <3>1, Zenon
    <3>3. "waitReady" \in Holding /\ "update" \in Holding
      BY DEF Holding
    <3>4. QED BY <3>1, <3>2, <3>3, Zenon
  <2>2. CASE PostUpdates(p)
    BY <2>2 DEF PostUpdates, At, Holding
  <2>3. CASE PostClears(p)
    BY <2>3 DEF PostClears, At, Holding, ClearedReady
  <2>4. QED BY <2>1, <2>2, <2>3
<1>2. /\ post' \in [Posts -> Requests] /\ post'[p].pc = place
      /\ post'[p].body = post[p].body /\ post'[p].dials = post[p].dials
      /\ \A q \in Posts \ {p} : post'[q] = post[q] /\ post'[q].pc \notin Holding \ {"waitReady"}
      /\ LockHeld' /\ lock' \in Posts \cup {Nobody} /\ RequestSane(p)' /\ down = "serving" /\ ~STOP
  BY <1>1, HolderMoves
<1>3. /\ CFG \in Settings /\ post[p].dials \in Settings /\ READY \in BOOLEAN /\ gens \in Seq(Generations)
  BY DEF EngineInv, EngineTyped, Requests
<1>4. CFG' \in Settings /\ READY' \in BOOLEAN
  BY <1>1, <1>3
<1>5. EngineGoesOn' /\ Newest' = Newest
  BY <1>1 DEF EngineInv, EngineGoesOn, Undisturbed, Newest
<1>6. RequestInStep(p)'
  <2>1. RequestInStep(p) /\ EngineGoesOn
    BY DEF EngineInv
  <2>2. CASE place = "update" /\ READY'
    BY <1>2, <2>2 DEF RequestInStep
  <2>3. CASE post[p].pc = "update" /\ place = "clear" /\ CFG' = post[p].dials /\ READY' = READY
    BY <1>1, <1>2, <2>1, <2>3 DEF RequestInStep, Undisturbed
  <2>4. CASE post[p].pc = "clear" /\ place = "stop" /\ CFG' = CFG /\ READY' = FALSE
    BY <1>1, <1>2, <1>5, <2>1, <2>4 DEF RequestInStep, EngineGoesOn, Undisturbed
  <2>5. QED BY <1>1, <2>2, <2>3, <2>4
<1>7. QED
  BY <1>1, <1>2, <1>3, <1>4, <1>5, <1>6, RequestStepKeeps

\* The generation GEN names is stopped: the last one, since the engine is in its loop.
LEMMA PostStopsKeeps ==
  ASSUME EngineInv, NEW p \in Posts, PostStops(p)
  PROVE  EngineInv'
<1>1. /\ UNCHANGED <<CFG, GEN, READY, STOP, engine, lock, down, alone>> /\ post[p].pc = "stop"
      /\ GEN # 0 /\ Go(p, "waitNext") /\ gens' = [gens EXCEPT ![GEN].state = "stopped"]
  BY DEF PostStops, At, Stopped
<1>2. /\ post' \in [Posts -> Requests] /\ post'[p].pc = "waitNext"
      /\ post'[p].body = post[p].body /\ post'[p].dials = post[p].dials
      /\ \A q \in Posts \ {p} : post'[q] = post[q] /\ post'[q].pc \notin Holding \ {"waitReady"}
      /\ LockHeld' /\ lock' \in Posts \cup {Nobody} /\ RequestSane(p)' /\ down = "serving" /\ ~STOP
  BY <1>1, HolderMoves DEF Holding
<1>3. /\ gens \in Seq(Generations) /\ CFG \in Settings /\ READY \in BOOLEAN /\ GEN \in Nat
      /\ GEN \in 1..Len(gens) /\ (engine.pc # "swap" => GEN = Len(gens))
  <2>1. GEN \in 0..Len(gens) /\ (engine.pc # "swap" => GEN = Len(gens))
    BY NamedInRange DEF EngineInv
  <2>2. QED BY <1>1, <2>1 DEF EngineInv, EngineTyped
<1>4. gens' \in Seq(Generations) /\ Len(gens') = Len(gens) /\ gens'[GEN].state = "stopped"
  <2>1. gens \in Seq(Generations) /\ GEN \in 1..Len(gens)
    BY <1>3
  <2>2. gens' = [gens EXCEPT ![GEN].state = "stopped"]
    BY <1>1
  <2>3. QED BY <2>1, <2>2, StateChanges, SMTT(30)
<1>5. alone => /\ ~READY /\ engine.pc = "loop" /\ CFG = post[p].dials
               /\ Newest'.state = "stopped"
  <2>1. RequestInStep(p)
    BY DEF EngineInv
  <2>2. alone => ~READY /\ engine.pc = "loop" /\ CFG = post[p].dials
    BY <1>1, <1>2, <2>1 DEF RequestInStep, Undisturbed
  <2>3. QED BY <1>1, <1>3, <1>4, <2>2 DEF Newest
<1>6. EngineGoesOn' /\ RequestInStep(p)'
  BY <1>1, <1>2, <1>5 DEF EngineGoesOn, RequestInStep, Rebuilding, Undisturbed
<1>7. QED
  BY <1>1, <1>2, <1>3, <1>4, <1>6, RequestStepKeeps

\* The request is answered, and gives up the lock.
LEMMA PostAnswersKeeps ==
  ASSUME EngineInv, NEW p \in Posts, PostAnswers(p)
  PROVE  EngineInv'
<1>1. /\ UNCHANGED <<CFG, GEN, READY, STOP, gens, engine, down, alone>> /\ post[p].pc = "waitNext"
      /\ lock' = Nobody
      /\ post' = [post EXCEPT ![p].pc = "done", ![p].answer = [dials |-> CFG, ready |-> READY]]
  BY DEF PostAnswers, At
<1>2. /\ post \in [Posts -> Requests] /\ CFG \in Settings /\ post[p] \in Requests /\ READY \in BOOLEAN
      /\ gens \in Seq(Generations)
  BY DEF EngineInv, EngineTyped
<1>3. DEFINE r == [post[p] EXCEPT !.pc = "done", !.answer = [dials |-> CFG, ready |-> READY]]
<1>4. r \in Requests /\ r.pc = "done" /\ r.body = post[p].body /\ r.dials = post[p].dials
  BY <1>2 DEF Requests
<1>5. post' = [post EXCEPT ![p] = r]
  BY <1>1
<1>. HIDE DEF r
<1>6. /\ post' \in [Posts -> Requests] /\ post'[p] = r
      /\ \A q \in Posts \ {p} : post'[q] = post[q]
  BY <1>2, <1>4, <1>5
<1>7. /\ \A q \in Posts \ {p} : post[q].pc \notin Holding
      /\ down = "serving"
  BY <1>1, OthersWait DEF Holding
<1>8. \A q \in Posts : post'[q].pc \notin Holding
  BY <1>4, <1>6, <1>7 DEF Holding
<1>9. LockHeld'
  BY <1>1, <1>8, FleetAssumption DEF LockHeld
<1>10. RequestSane(p)'
  BY <1>1, <1>4, <1>6 DEF EngineInv, RequestSane
<1>11. RequestInStep(p)'
  BY <1>4, <1>6 DEF RequestInStep
<1>12. EngineGoesOn'
  BY <1>1 DEF EngineInv, EngineGoesOn, Undisturbed, Newest
<1>13. QED
  BY <1>1, <1>2, <1>6, <1>7, <1>8, <1>9, <1>10, <1>11, <1>12, RequestStepKeeps

\* The server shuts down, once no request is on its way.
LEMMA ShutdownKeeps ==
  ASSUME EngineInv, ShutdownSetsStop \/ ShutdownStops
  PROVE  EngineInv'
<1>1. /\ UNCHANGED <<CFG, GEN, READY, engine, lock, post, alone>> /\ STOP' = TRUE
      /\ \A p \in Posts : post[p].pc \in {"idle", "done"}
      /\ down' \in {"stop", "done"}
      /\ gens' = gens \/ (GEN # 0 /\ gens' = [gens EXCEPT ![GEN].state = "stopped"])
  <2>1. CASE ShutdownSetsStop
    <3>1. /\ UNCHANGED <<CFG, GEN, READY, gens, engine, lock, post, alone>> /\ STOP' = TRUE /\ down' = "stop"
          /\ \A p \in Posts : post[p].pc \in {"idle", "done"}
      BY <2>1, Zenon DEF ShutdownSetsStop
    <3>2. down' \in {"stop", "done"}
      BY <3>1
    <3>3. QED BY <3>1, <3>2, Zenon
  <2>2. CASE ShutdownStops
    <3>1. /\ UNCHANGED <<CFG, GEN, READY, STOP, engine, lock, post, alone>> /\ down = "stop" /\ down' = "done"
          /\ gens' = IF GEN = 0 THEN gens ELSE [gens EXCEPT ![GEN].state = "stopped"]
      BY <2>2 DEF ShutdownStops, Stopped
    <3>2. STOP = TRUE /\ \A p \in Posts : post[p].pc \in {"idle", "done"}
      <4>1. /\ STOP \in BOOLEAN /\ (STOP <=> down # "serving")
            /\ STOP => \A p \in Posts : post[p].pc \in {"idle", "done"}
        BY DEF EngineInv, StopIsShutdown, EngineTyped
      <4>2. down # "serving"
        BY <3>1
      <4>3. QED BY <4>1, <4>2, Zenon
    <3>3. gens' = gens \/ (GEN # 0 /\ gens' = [gens EXCEPT ![GEN].state = "stopped"])
      BY <3>1, Zenon
    <3>4. down' \in {"stop", "done"} /\ STOP' = TRUE
      BY <3>1, <3>2
    <3>5. QED BY <3>1, <3>2, <3>3, <3>4, Zenon
  <2>3. QED BY <2>1, <2>2
<1>2. gens' \in Seq(Generations) /\ Len(gens') = Len(gens)
  <2>1. gens \in Seq(Generations) /\ (GEN # 0 => GEN \in 1..Len(gens))
    BY NamedInRange DEF EngineInv, EngineTyped
  <2>2. CASE gens' = gens
    BY <2>1, <2>2
  <2>3. CASE GEN # 0 /\ gens' = [gens EXCEPT ![GEN].state = "stopped"]
    BY <2>1, <2>3, StateChanges
  <2>4. QED BY <1>1, <2>2, <2>3
<1>3. EngineTyped' /\ LockHeld' /\ GenNamed'
  BY <1>1, <1>2 DEF EngineInv, EngineTyped, LockHeld, GenNamed
<1>4. StopIsShutdown'
  BY <1>1 DEF StopIsShutdown
<1>5. EngineGoesOn' /\ \A p \in Posts : RequestInStep(p)'
  BY <1>1 DEF EngineGoesOn, RequestInStep, Undisturbed
<1>6. \A p \in Posts : RequestSane(p)'
  BY <1>1 DEF EngineInv, RequestSane
<1>7. QED BY <1>3, <1>4, <1>5, <1>6 DEF EngineInv

\* Every step keeps the invariant.
LEMMA FleetStepKeeps == EngineInv /\ [FleetNext]_fleetVars => EngineInv'
<1>. SUFFICES ASSUME EngineInv, [FleetNext]_fleetVars PROVE EngineInv'
  OBVIOUS
<1>1. CASE EngineStep \/ GenerationFinishes
  <2>1. CASE EngineConsume
    BY <2>1, OthersKeepEngine DEF EngineConsume, engineVars
  <2>2. QED
    BY <1>1, <2>1, EngineBeginsKeeps, EngineBuildKeeps, EngineSwapKeeps, EngineStartKeeps, EngineReadyKeeps,
       GenerationFinishesKeeps DEF EngineStep
<1>2. ASSUME NEW p \in Posts, PostArrives(p) \/ PostStep(p) PROVE EngineInv'
  BY <1>2, PostArrivesKeeps, PostLocksKeeps, PostProceedsKeeps, PostStopsKeeps, PostAnswersKeeps DEF PostStep
<1>3. CASE StatsStep \/ (\E c \in Clients : Connect(c) \/ Yield(c)) \/ Fanout \/ UNCHANGED fleetVars
  <2>1. UNCHANGED engineVars
    BY <1>3 DEF StatsStep, StatsWakes, StatsReads, Connect, Yield, Fanout, engineVars, fleetVars
  <2>2. QED BY <2>1, OthersKeepEngine
<1>4. CASE ShutdownSetsStop \/ ShutdownStops
  BY <1>4, ShutdownKeeps
<1>5. QED BY <1>1, <1>2, <1>3, <1>4 DEF FleetNext

\* The invariant of the engine thread and the requests.
THEOREM FleetInvariant == FleetSpec => []EngineInv
<1>1. FleetInit => EngineInv
  BY FleetStarts
<1>2. EngineInv /\ [FleetNext]_fleetVars => EngineInv'
  BY FleetStepKeeps
<1>3. QED BY <1>1, <1>2, PTL DEF FleetSpec

\* A request that is answered while the pipeline is ready is answered by a running
\* generation with its dials, whatever other requests, builds and shutdowns do.
THEOREM PostsTakeEffect == FleetSpec => []PostTakesEffect
<1>1. EngineInv => PostTakesEffect
  <2>. SUFFICES ASSUME EngineInv, NEW p \in Posts, lock = p, At(p, "waitNext"), READY, alone
                PROVE  /\ gens[GEN].state = "running"
                       /\ \A d \in DOMAIN post[p].body : gens[GEN].dials[d] = Clamped(d, post[p].body[d])
    BY DEF PostTakesEffect
  <2>1. post[p].pc = "waitNext" /\ ~STOP /\ EngineGoesOn /\ RequestInStep(p) /\ RequestSane(p) /\ GenNamed
    BY DEF EngineInv, StopIsShutdown, At
  <2>2. engine.pc = "loop" /\ Newest.state = "running" /\ CFG = post[p].dials /\ Rebuilding(CFG)
    BY <2>1 DEF EngineGoesOn, RequestInStep, Undisturbed
  <2>3. GEN = Len(gens) /\ Newest.dials = post[p].dials
    BY <2>1, <2>2 DEF GenNamed, Rebuilding
  <2>4. QED BY <2>1, <2>2, <2>3 DEF Newest, RequestSane
<1>2. QED BY <1>1, FleetInvariant, PTL

\* No request ever ends the engine thread.
THEOREM EngineOutlives == FleetSpec => []EngineOutlivesPosts
<1>1. EngineInv => EngineOutlivesPosts
  BY DEF EngineInv, EngineGoesOn, Undisturbed, EngineOutlivesPosts
<1>2. QED BY <1>1, FleetInvariant, PTL

-----------------------------------------------------------------------------
(* The demo server: what a browser sees *)

\* Numbers in order; all of one sequence below all of another; none above a number; the
\* last elements of a sequence.
Ascending(s) == \A i, j \in 1..Len(s) : i < j => s[i] < s[j]

Before(s, t) == \A i \in 1..Len(s), j \in 1..Len(t) : s[i] < t[j]

UpTo(s, n) == \A i \in 1..Len(s) : s[i] <= n

EndOf(s, t) == Len(s) <= Len(t) /\ \A i \in 1..Len(s) : s[i] = t[Len(t) - Len(s) + i]

\* The events a browser has, those in its queue and those still on their way are the
\* published ones, in order.
EventsInOrder(g, q, cs, n) ==
  /\ Ascending(g) /\ Ascending(q) /\ Ascending(cs)
  /\ Before(g, q) /\ Before(g, cs) /\ Before(q, cs)
  /\ UpTo(g, n) /\ UpTo(q, n) /\ UpTo(cs, n)

\* Its queue is the end of what was fanned out to it, and loses nothing before it is full.
NewestKept(g, q, f) ==
  /\ EndOf(q, f)
  /\ Len(f) <= Capacity => g \o q = f

SseTyped ==
  /\ calls \in Seq(Nat) /\ published \in Nat /\ CLIENTS \subseteq Clients
  /\ queue \in [Clients -> Seq(Nat)] /\ fanned \in [Clients -> Seq(Nat)] /\ got \in [Clients -> Seq(Nat)]

SseInv ==
  /\ SseTyped
  /\ \A c \in Clients :
       /\ EventsInOrder(got[c], queue[c], calls, published)
       /\ NewestKept(got[c], queue[c], fanned[c])

-----------------------------------------------------------------------------
\* The elements of the sequences the steps make.
LEMMA AppendAt ==
  ASSUME NEW s \in Seq(Nat), NEW e \in Nat
  PROVE  /\ Append(s, e) \in Seq(Nat) /\ Len(Append(s, e)) = Len(s) + 1
         /\ \A i \in 1..Len(s) : Append(s, e)[i] = s[i]
         /\ Append(s, e)[Len(s) + 1] = e
OBVIOUS

\* All but the first.
LEMMA TailAt ==
  ASSUME NEW s \in Seq(Nat), s # <<>>
  PROVE  /\ Tail(s) \in Seq(Nat) /\ Len(s) \in Nat \ {0} /\ Len(Tail(s)) = Len(s) - 1
         /\ \A i \in 1..(Len(s) - 1) : Tail(s)[i] = s[i + 1]
         /\ Head(s) = s[1] /\ Head(s) \in Nat
OBVIOUS

\* One after the other.
LEMMA ConcatAt ==
  ASSUME NEW s \in Seq(Nat), NEW t \in Seq(Nat)
  PROVE  /\ s \o t \in Seq(Nat) /\ Len(s \o t) = Len(s) + Len(t)
         /\ \A i \in 1..Len(s) : (s \o t)[i] = s[i]
         /\ \A i \in 1..Len(t) : (s \o t)[Len(s) + i] = t[i]
OBVIOUS

\* Sequences with the same elements are the same.
LEMMA SameElements ==
  ASSUME NEW s \in Seq(Nat), NEW t \in Seq(Nat), Len(s) = Len(t), \A i \in 1..Len(s) : s[i] = t[i]
  PROVE  s = t
BY SeqEqual

\* A suffix, by its elements.
LEMMA EndIsSuffix ==
  ASSUME NEW s \in Seq(Nat), NEW t \in Seq(Nat), EndOf(s, t)
  PROVE  IsSuffix(s, t)
<1>1. /\ Len(s) \in Nat /\ Len(t) \in Nat /\ Len(s) <= Len(t)
      /\ \A i \in 1..Len(s) : s[i] = t[Len(t) - Len(s) + i]
  BY DEF EndOf
<1>2. ASSUME NEW u \in Seq(Nat)
      PROVE  /\ Reverse(u) \in Seq(Nat) /\ Len(Reverse(u)) = Len(u)
             /\ \A i \in 1..Len(u) : Reverse(u)[i] = u[Len(u) - i + 1]
  BY DEF Reverse
<1>3. \A i \in 1..Len(s) : Reverse(s)[i] = Reverse(t)[i]
  <2>1. TAKE i \in 1..Len(s)
  <2>2. Len(s) - i + 1 \in 1..Len(s) /\ Len(t) - Len(s) + (Len(s) - i + 1) = Len(t) - i + 1
    BY <1>1
  <2>3. s[Len(s) - i + 1] = t[Len(t) - i + 1]
    BY <1>1, <2>2
  <2>4. Reverse(s)[i] = s[Len(s) - i + 1] /\ Reverse(t)[i] = t[Len(t) - i + 1]
    BY <1>1, <1>2
  <2>5. QED BY <2>3, <2>4
<1>4. SubSeq(Reverse(s), 1, Len(s)) = SubSeq(Reverse(t), 1, Len(s))
  <2>1. Len(Reverse(s)) = Len(s) /\ Len(Reverse(t)) = Len(t) /\ Reverse(s) \in Seq(Nat) /\ Reverse(t) \in Seq(Nat)
    BY <1>2
  <2>2. \A u \in Seq(Nat) : Len(u) >= Len(s) =>
          /\ SubSeq(u, 1, Len(s)) \in Seq(Nat) /\ Len(SubSeq(u, 1, Len(s))) = Len(s)
          /\ \A i \in 1..Len(s) : SubSeq(u, 1, Len(s))[i] = u[i]
    BY <1>1
  <2>3. Len(Reverse(s)) >= Len(s) /\ Len(Reverse(t)) >= Len(s)
    BY <1>1, <2>1
  <2>4. /\ SubSeq(Reverse(s), 1, Len(s)) \in Seq(Nat) /\ Len(SubSeq(Reverse(s), 1, Len(s))) = Len(s)
        /\ \A i \in 1..Len(s) : SubSeq(Reverse(s), 1, Len(s))[i] = Reverse(s)[i]
    BY <2>1, <2>2, <2>3, Zenon
  <2>5. /\ SubSeq(Reverse(t), 1, Len(s)) \in Seq(Nat) /\ Len(SubSeq(Reverse(t), 1, Len(s))) = Len(s)
        /\ \A i \in 1..Len(s) : SubSeq(Reverse(t), 1, Len(s))[i] = Reverse(t)[i]
    BY <2>1, <2>2, <2>3, Zenon
  <2>6. QED BY <1>3, <2>4, <2>5, SameElements
<1>5. QED BY <1>1, <1>2, <1>4 DEF IsSuffix, IsPrefix

\* A place in a sequence with one more element.
LEMMA LastOrBefore == \A n \in Nat : \A i \in 1..(n + 1) : i = n + 1 \/ i \in 1..n
OBVIOUS

\* A place beyond the first of two sequences, seen from the second.
LEMMA PlaceInTwo ==
  \A m, n \in Nat : \A i \in 1..(m + n) :
    /\ i <= m => i \in 1..m
    /\ i > m => i - m \in 1..n /\ m + (i - m) = i
OBVIOUS

\* Two places, one before the other, and where the first sequence ends.
LEMMA PlacesOrdered ==
  \A m, i, j \in Nat : i < j =>
    /\ i - m < j - m /\ (j <= m => i <= m) /\ (i > m => j > m)
    /\ i <= m \/ i > m
    /\ j <= m \/ j > m
OBVIOUS

\* A place seen from the end of a longer sequence.
LEMMA PlaceShifted ==
  \A m, n \in Nat : \A i \in 1..(m - 1) : i + 1 \in 1..m /\ n - m + (i + 1) = n - (m - 1) + i
OBVIOUS

\* Two sequences that ascend, one after the other.
LEMMA ConcatAscends ==
  ASSUME NEW s \in Seq(Nat), NEW t \in Seq(Nat), Ascending(s), Ascending(t), Before(s, t)
  PROVE  \A i, j \in DOMAIN (s \o t) : i < j => (s \o t)[i] < (s \o t)[j]
<1>. DEFINE u == s \o t
<1>1. /\ Len(s) \in Nat /\ Len(t) \in Nat /\ u \in Seq(Nat) /\ Len(u) = Len(s) + Len(t)
      /\ \A i \in 1..Len(s) : u[i] = s[i]
      /\ \A i \in 1..Len(t) : u[Len(s) + i] = t[i]
  BY ConcatAt
<1>. HIDE DEF u
<1>2. DOMAIN u = 1..(Len(s) + Len(t))
  BY <1>1
<1>3. ASSUME NEW i \in DOMAIN u, NEW j \in DOMAIN u, i < j PROVE u[i] < u[j]
  <2>0. /\ Len(s) \in Nat /\ Len(t) \in Nat
        /\ i \in 1..(Len(s) + Len(t)) /\ j \in 1..(Len(s) + Len(t)) /\ i < j
        /\ i \in Nat /\ j \in Nat
    BY <1>1, <1>2, <1>3
  <2>1. CASE j <= Len(s)
    <3>1. i \in 1..Len(s) /\ j \in 1..Len(s)
      BY <2>0, <2>1, PlaceInTwo, PlacesOrdered
    <3>2. QED BY <1>1, <1>3, <3>1 DEF Ascending
  <2>2. CASE i <= Len(s) /\ j > Len(s)
    <3>1. i \in 1..Len(s) /\ j - Len(s) \in 1..Len(t) /\ Len(s) + (j - Len(s)) = j
      BY <2>0, <2>2, PlaceInTwo
    <3>2. u[i] = s[i] /\ u[j] = t[j - Len(s)]
      BY <1>1, <3>1
    <3>3. QED BY <3>1, <3>2 DEF Before
  <2>3. CASE i > Len(s)
    <3>0. j > Len(s) /\ i - Len(s) < j - Len(s)
      BY <2>0, <2>3, PlacesOrdered
    <3>1. /\ i - Len(s) \in 1..Len(t) /\ Len(s) + (i - Len(s)) = i
          /\ j - Len(s) \in 1..Len(t) /\ Len(s) + (j - Len(s)) = j
      BY <2>0, <2>3, <3>0, PlaceInTwo
    <3>2. u[i] = t[i - Len(s)] /\ u[j] = t[j - Len(s)]
      BY <1>1, <3>1
    <3>3. QED BY <3>0, <3>1, <3>2 DEF Ascending
  <2>4. QED BY <2>0, <2>1, <2>2, <2>3
<1>4. QED BY <1>3 DEF u

\* An element at the end.
LEMMA AppendKeeps ==
  ASSUME NEW s \in Seq(Nat), NEW e \in Nat
  PROVE  /\ Ascending(s) /\ (\A i \in 1..Len(s) : s[i] < e) => Ascending(Append(s, e))
         /\ \A n \in Nat : UpTo(s, n) /\ e <= n => UpTo(Append(s, e), n)
         /\ \A t \in Seq(Nat) : Before(t, s) /\ (\A i \in 1..Len(t) : t[i] < e) => Before(t, Append(s, e))
         /\ \A t \in Seq(Nat) : Before(s, t) /\ (\A j \in 1..Len(t) : e < t[j]) => Before(Append(s, e), t)
<1>. DEFINE u == Append(s, e)
<1>1. /\ Len(s) \in Nat /\ Len(u) = Len(s) + 1
      /\ \A i \in 1..Len(s) : u[i] = s[i]
      /\ u[Len(s) + 1] = e
  BY AppendAt
<1>2. \A i \in 1..Len(u) : i = Len(s) + 1 \/ (i \in 1..Len(s) /\ i # Len(s) + 1)
  BY <1>1
<1>. HIDE DEF u
<1>3. ASSUME Ascending(s), \A i \in 1..Len(s) : s[i] < e PROVE Ascending(u)
  <2>1. SUFFICES ASSUME NEW i \in 1..Len(u), NEW j \in 1..Len(u), i < j PROVE u[i] < u[j]
    BY DEF Ascending
  <2>2. i \in 1..Len(s) /\ u[i] = s[i]
    BY <1>1, <2>1
  <2>3. CASE j = Len(s) + 1
    BY <1>1, <1>3, <2>2, <2>3
  <2>4. CASE j \in 1..Len(s)
    BY <1>1, <1>3, <2>1, <2>2, <2>4 DEF Ascending
  <2>5. QED BY <1>2, <2>3, <2>4
<1>4. ASSUME NEW n \in Nat, UpTo(s, n), e <= n PROVE UpTo(u, n)
  BY <1>1, <1>2, <1>4 DEF UpTo
<1>5. ASSUME NEW t \in Seq(Nat), Before(t, s), \A i \in 1..Len(t) : t[i] < e PROVE Before(t, u)
  BY <1>1, <1>2, <1>5 DEF Before
<1>6. ASSUME NEW t \in Seq(Nat), Before(s, t), \A j \in 1..Len(t) : e < t[j] PROVE Before(u, t)
  BY <1>1, <1>2, <1>6 DEF Before
<1>7. QED BY <1>3, <1>4, <1>5, <1>6 DEF u

\* All but the first element, which comes before them.
LEMMA TailKeeps ==
  ASSUME NEW s \in Seq(Nat), s # <<>>
  PROVE  /\ Ascending(s) => Ascending(Tail(s)) /\ \A i \in 1..Len(Tail(s)) : Head(s) < Tail(s)[i]
         /\ \A n \in Nat : UpTo(s, n) => UpTo(Tail(s), n) /\ Head(s) <= n
         /\ \A t \in Seq(Nat) : Before(t, s) => Before(t, Tail(s)) /\ \A i \in 1..Len(t) : t[i] < Head(s)
         /\ \A t \in Seq(Nat) : Before(s, t) => Before(Tail(s), t) /\ \A i \in 1..Len(t) : Head(s) < t[i]
<1>. DEFINE u == Tail(s)
<1>1. /\ Len(s) \in Nat \ {0} /\ Len(u) = Len(s) - 1
      /\ \A i \in 1..(Len(s) - 1) : u[i] = s[i + 1]
      /\ Head(s) = s[1]
  BY TailAt
<1>2. \A i \in 1..Len(u) : u[i] = s[i + 1] /\ i + 1 \in 1..Len(s) /\ 1 < i + 1 /\ 1 \in 1..Len(s)
  BY <1>1
<1>3. 1 \in 1..Len(s)
  BY <1>1
<1>. HIDE DEF u
<1>4. ASSUME Ascending(s) PROVE Ascending(u) /\ \A i \in 1..Len(u) : s[1] < u[i]
  <2>1. ASSUME NEW i \in 1..Len(u), NEW j \in 1..Len(u), i < j PROVE u[i] < u[j]
    <3>1. i + 1 < j + 1
      BY <1>1, <2>1
    <3>2. QED BY <1>2, <1>4, <3>1 DEF Ascending
  <2>2. \A i \in 1..Len(u) : s[1] < u[i]
    BY <1>2, <1>3, <1>4 DEF Ascending
  <2>3. QED BY <2>1, <2>2 DEF Ascending
<1>5. ASSUME NEW n \in Nat, UpTo(s, n) PROVE UpTo(u, n) /\ s[1] <= n
  BY <1>2, <1>3, <1>5 DEF UpTo
<1>6. ASSUME NEW t \in Seq(Nat), Before(t, s) PROVE Before(t, u) /\ \A i \in 1..Len(t) : t[i] < s[1]
  BY <1>2, <1>3, <1>6 DEF Before
<1>7. ASSUME NEW t \in Seq(Nat), Before(s, t) PROVE Before(u, t) /\ \A i \in 1..Len(t) : s[1] < t[i]
  BY <1>2, <1>3, <1>7 DEF Before
<1>8. QED BY <1>1, <1>4, <1>5, <1>6, <1>7 DEF u

\* An event is published.
LEMMA PublishInOrder ==
  ASSUME NEW g \in Seq(Nat), NEW q \in Seq(Nat), NEW cs \in Seq(Nat), NEW n \in Nat,
         EventsInOrder(g, q, cs, n)
  PROVE  EventsInOrder(g, q, Append(cs, n + 1), n + 1)
<1>1. /\ \A i \in 1..Len(g) : g[i] \in Nat /\ g[i] <= n
      /\ \A i \in 1..Len(q) : q[i] \in Nat /\ q[i] <= n
      /\ \A i \in 1..Len(cs) : cs[i] \in Nat /\ cs[i] <= n
  BY SMTT(30) DEF EventsInOrder, UpTo
<1>2. /\ \A i \in 1..Len(g) : g[i] < n + 1
      /\ \A i \in 1..Len(q) : q[i] < n + 1
      /\ \A i \in 1..Len(cs) : cs[i] < n + 1
  BY <1>1, SMTT(30)
<1>3. UpTo(g, n + 1) /\ UpTo(q, n + 1) /\ UpTo(cs, n + 1)
  BY <1>1, SMTT(30) DEF UpTo
<1>4. /\ n + 1 \in Nat /\ n + 1 <= n + 1
      /\ Ascending(g) /\ Ascending(q) /\ Ascending(cs)
      /\ Before(g, q) /\ Before(g, cs) /\ Before(q, cs)
  BY DEF EventsInOrder
<1>5. Ascending(Append(cs, n + 1))
  BY <1>2, <1>4, AppendKeeps
<1>6. UpTo(Append(cs, n + 1), n + 1)
  BY <1>3, <1>4, AppendKeeps
<1>7. Before(g, Append(cs, n + 1)) /\ Before(q, Append(cs, n + 1))
  BY <1>2, <1>4, AppendKeeps
<1>8. QED BY <1>3, <1>4, <1>5, <1>6, <1>7 DEF EventsInOrder

\* The queue of a browser makes room when it is full.
LEMMA RoomMade ==
  ASSUME NEW q \in Seq(Nat)
  PROVE  LET r == IF Len(q) = Capacity THEN Tail(q) ELSE q
         IN  /\ r \in Seq(Nat)
             /\ \A e : PutEvt(q, e) = Append(r, e)
             /\ r = q \/ (Len(q) = Capacity /\ q # <<>> /\ r = Tail(q))
<1>1. Len(q) = Capacity => q # <<>>
  BY FleetAssumption
<1>2. q # <<>> => Tail(q) \in Seq(Nat)
  BY TailAt
<1>3. QED BY <1>1, <1>2 DEF PutEvt

\* An event is fanned out to a browser.
LEMMA FanoutInOrder ==
  ASSUME NEW g \in Seq(Nat), NEW q \in Seq(Nat), NEW cs \in Seq(Nat), NEW n \in Nat,
         EventsInOrder(g, q, cs, n), cs # <<>>
  PROVE  /\ EventsInOrder(g, PutEvt(q, Head(cs)), Tail(cs), n)
         /\ EventsInOrder(g, q, Tail(cs), n)
         /\ PutEvt(q, Head(cs)) \in Seq(Nat) /\ Tail(cs) \in Seq(Nat) /\ Head(cs) \in Nat
<1>. DEFINE r == IF Len(q) = Capacity THEN Tail(q) ELSE q
            e == Head(cs)
            ds == Tail(cs)
<1>1. /\ Ascending(g) /\ Ascending(q) /\ Ascending(cs)
      /\ Before(g, q) /\ Before(g, cs) /\ Before(q, cs)
      /\ UpTo(g, n) /\ UpTo(q, n) /\ UpTo(cs, n)
  BY DEF EventsInOrder
<1>2. r \in Seq(Nat) /\ PutEvt(q, e) = Append(r, e) /\ (r = q \/ (q # <<>> /\ r = Tail(q)))
  BY RoomMade
<1>3. ds \in Seq(Nat) /\ e \in Nat
  BY TailAt
<1>. HIDE DEF r, e, ds
<1>4. Ascending(r) /\ UpTo(r, n) /\ Before(g, r) /\ Before(r, cs)
  <2>1. CASE r = q
    BY <1>1, <2>1
  <2>2. CASE q # <<>> /\ r = Tail(q)
    BY <1>1, <2>2, TailKeeps
  <2>3. QED BY <1>2, <2>1, <2>2
<1>5. /\ Ascending(ds) /\ (\A i \in 1..Len(ds) : e < ds[i])
      /\ UpTo(ds, n) /\ e <= n
  BY <1>1, TailKeeps DEF e, ds
<1>6. \A t \in Seq(Nat) : Before(t, cs) => Before(t, ds) /\ \A i \in 1..Len(t) : t[i] < e
  BY TailKeeps DEF e, ds
<1>7. Before(g, ds) /\ Before(q, ds) /\ Before(r, ds)
  BY <1>1, <1>2, <1>4, <1>6
<1>8. (\A i \in 1..Len(g) : g[i] < e) /\ (\A i \in 1..Len(r) : r[i] < e)
  BY <1>1, <1>2, <1>4, <1>6
<1>9. Ascending(Append(r, e)) /\ UpTo(Append(r, e), n)
  BY <1>2, <1>3, <1>4, <1>5, <1>8, AppendKeeps
<1>10. Before(g, Append(r, e))
  BY <1>2, <1>3, <1>4, <1>8, AppendKeeps
<1>11. Before(Append(r, e), ds)
  BY <1>2, <1>3, <1>5, <1>7, AppendKeeps
<1>12. EventsInOrder(g, Append(r, e), ds, n) /\ EventsInOrder(g, q, ds, n)
  BY <1>1, <1>5, <1>7, <1>9, <1>10, <1>11 DEF EventsInOrder
<1>13. Append(r, e) \in Seq(Nat)
  BY <1>2, <1>3, AppendAt
<1>14. QED BY <1>2, <1>3, <1>12, <1>13 DEF e, ds

\* A browser is given its next event.
LEMMA YieldInOrder ==
  ASSUME NEW g \in Seq(Nat), NEW q \in Seq(Nat), NEW cs \in Seq(Nat), NEW n \in Nat,
         EventsInOrder(g, q, cs, n), q # <<>>
  PROVE  /\ EventsInOrder(Append(g, Head(q)), Tail(q), cs, n)
         /\ Append(g, Head(q)) \in Seq(Nat) /\ Tail(q) \in Seq(Nat)
<1>. DEFINE e == Head(q)
            r == Tail(q)
<1>1. /\ Ascending(g) /\ Ascending(q) /\ Ascending(cs)
      /\ Before(g, q) /\ Before(g, cs) /\ Before(q, cs)
      /\ UpTo(g, n) /\ UpTo(q, n) /\ UpTo(cs, n)
  BY DEF EventsInOrder
<1>2. r \in Seq(Nat) /\ e \in Nat
  BY TailAt
<1>3. /\ Ascending(r) /\ (\A i \in 1..Len(r) : e < r[i])
      /\ UpTo(r, n) /\ e <= n
  BY <1>1, TailKeeps
<1>4. Before(g, r) /\ (\A i \in 1..Len(g) : g[i] < e)
  BY <1>1, TailKeeps
<1>5. Before(r, cs) /\ (\A i \in 1..Len(cs) : e < cs[i])
  BY <1>1, TailKeeps
<1>. HIDE DEF e, r
<1>6. Ascending(Append(g, e)) /\ UpTo(Append(g, e), n)
  BY <1>1, <1>2, <1>3, <1>4, AppendKeeps
<1>7. Before(Append(g, e), r)
  BY <1>2, <1>3, <1>4, AppendKeeps
<1>8. Before(Append(g, e), cs)
  BY <1>1, <1>2, <1>5, AppendKeeps
<1>9. EventsInOrder(Append(g, e), r, cs, n)
  BY <1>1, <1>3, <1>5, <1>6, <1>7, <1>8 DEF EventsInOrder
<1>10. Append(g, e) \in Seq(Nat)
  BY <1>2, AppendAt
<1>11. QED BY <1>2, <1>9, <1>10 DEF e, r

\* The end of what was fanned out stays its end, without its first element, and with one
\* more on both.
LEMMA EndKept ==
  ASSUME NEW s \in Seq(Nat), NEW t \in Seq(Nat), EndOf(s, t)
  PROVE  /\ s # <<>> => EndOf(Tail(s), t)
         /\ \A e \in Nat : EndOf(Append(s, e), Append(t, e))
<1>1. /\ Len(s) \in Nat /\ Len(t) \in Nat /\ Len(s) <= Len(t)
      /\ \A i \in 1..Len(s) : s[i] = t[Len(t) - Len(s) + i]
  BY DEF EndOf
<1>2. ASSUME s # <<>> PROVE EndOf(Tail(s), t)
  <2>1. /\ Len(s) \in Nat \ {0} /\ Len(Tail(s)) = Len(s) - 1
        /\ \A i \in 1..(Len(s) - 1) : Tail(s)[i] = s[i + 1]
    BY <1>2, TailAt
  <2>2. ASSUME NEW i \in 1..(Len(s) - 1)
        PROVE  Tail(s)[i] = t[Len(t) - (Len(s) - 1) + i]
    <3>1. i + 1 \in 1..Len(s) /\ Len(t) - Len(s) + (i + 1) = Len(t) - (Len(s) - 1) + i
      BY <1>1, PlaceShifted
    <3>2. s[i + 1] = t[Len(t) - Len(s) + (i + 1)]
      BY <1>1, <3>1
    <3>3. QED BY <2>1, <3>1, <3>2
  <2>3. Len(Tail(s)) <= Len(t)
    BY <1>1, <2>1
  <2>4. QED BY <2>1, <2>2, <2>3 DEF EndOf
<1>3. ASSUME NEW e \in Nat PROVE EndOf(Append(s, e), Append(t, e))
  <2>1. /\ Len(Append(s, e)) = Len(s) + 1 /\ \A i \in 1..Len(s) : Append(s, e)[i] = s[i]
        /\ Append(s, e)[Len(s) + 1] = e
    BY AppendAt
  <2>2. /\ Len(Append(t, e)) = Len(t) + 1 /\ \A i \in 1..Len(t) : Append(t, e)[i] = t[i]
        /\ Append(t, e)[Len(t) + 1] = e
    BY AppendAt
  <2>3. ASSUME NEW i \in 1..(Len(s) + 1)
        PROVE  Append(s, e)[i] = Append(t, e)[(Len(t) + 1) - (Len(s) + 1) + i]
    <3>1. CASE i = Len(s) + 1
      <4>1. (Len(t) + 1) - (Len(s) + 1) + i = Len(t) + 1
        BY <1>1, <3>1
      <4>2. QED BY <2>1, <2>2, <3>1, <4>1
    <3>2. CASE i \in 1..Len(s)
      <4>1. /\ (Len(t) + 1) - (Len(s) + 1) + i = Len(t) - Len(s) + i
            /\ Len(t) - Len(s) + i \in 1..Len(t)
        BY <1>1, <3>2
      <4>2. QED BY <1>1, <2>1, <2>2, <3>2, <4>1
    <3>3. Len(s) \in Nat /\ i \in 1..(Len(s) + 1)
      BY <1>1, <2>3
    <3>4. QED BY <3>1, <3>2, <3>3, LastOrBefore
  <2>4. Len(Append(s, e)) <= Len(Append(t, e))
    BY <1>1, <2>1, <2>2
  <2>5. QED BY <2>1, <2>2, <2>3, <2>4 DEF EndOf
<1>4. QED BY <1>2, <1>3

\* Appending to the last of two sequences, or moving an element from one to the other.
LEMMA ConcatShifts ==
  ASSUME NEW g \in Seq(Nat), NEW q \in Seq(Nat)
  PROVE  /\ \A e \in Nat : g \o Append(q, e) = Append(g \o q, e)
         /\ q # <<>> => Append(g, Head(q)) \o Tail(q) = g \o q
<1>1. ASSUME NEW e \in Nat PROVE g \o Append(q, e) = Append(g \o q, e)
  OBVIOUS
<1>2. ASSUME q # <<>> PROVE Append(g, Head(q)) \o Tail(q) = g \o q
  <2>1. Head(q) \in Nat /\ Tail(q) \in Seq(Nat) /\ <<Head(q)>> \in Seq(Nat)
    BY <1>2
  <2>2. Append(g, Head(q)) = g \o <<Head(q)>>
    BY <2>1, AppendIsConcat
  <2>3. q = <<Head(q)>> \o Tail(q)
    BY <1>2, SMTT(30)
  <2>4. (g \o <<Head(q)>>) \o Tail(q) = g \o (<<Head(q)>> \o Tail(q))
    BY <2>1, ConcatAssociative, SMTT(30)
  <2>5. QED BY <2>2, <2>3, <2>4, Zenon
<1>3. QED BY <1>1, <1>2

\* What a browser is fanned out, or given, keeps the newest.
LEMMA FanoutKeepsNewest ==
  ASSUME NEW g \in Seq(Nat), NEW q \in Seq(Nat), NEW f \in Seq(Nat), NEW e \in Nat, NewestKept(g, q, f)
  PROVE  NewestKept(g, PutEvt(q, e), Append(f, e)) /\ Append(f, e) \in Seq(Nat)
<1>. DEFINE r == IF Len(q) = Capacity THEN Tail(q) ELSE q
<1>1. r \in Seq(Nat) /\ PutEvt(q, e) = Append(r, e) /\ (r = q \/ (Len(q) = Capacity /\ q # <<>> /\ r = Tail(q)))
  BY RoomMade
<1>. HIDE DEF r
<1>2. EndOf(q, f)
  BY DEF NewestKept
<1>3. EndOf(r, f)
  BY <1>1, <1>2, EndKept
<1>4. EndOf(Append(r, e), Append(f, e))
  BY <1>1, <1>3, EndKept
<1>5. ASSUME Len(Append(f, e)) <= Capacity PROVE g \o Append(r, e) = Append(f, e)
  <2>1. Len(f) + 1 <= Capacity /\ Len(f) \in Nat /\ Len(q) \in Nat /\ Len(q) <= Len(f) /\ Capacity \in Nat
    BY <1>2, <1>5, AppendAt, FleetAssumption DEF EndOf
  <2>2. r = q
    BY <1>1, <2>1
  <2>3. g \o q = f
    BY <2>1 DEF NewestKept
  <2>4. QED BY <2>2, <2>3, ConcatShifts
<1>6. Append(f, e) \in Seq(Nat)
  BY AppendAt
<1>7. QED BY <1>1, <1>4, <1>5, <1>6 DEF NewestKept

\* What it is given leaves its queue, and nothing else is lost.
LEMMA YieldKeepsNewest ==
  ASSUME NEW g \in Seq(Nat), NEW q \in Seq(Nat), NEW f \in Seq(Nat), q # <<>>, NewestKept(g, q, f)
  PROVE  NewestKept(Append(g, Head(q)), Tail(q), f)
BY EndKept, ConcatShifts DEF NewestKept

\* The invariant of the events holds at first.
LEMMA SseStarts == FleetInit => SseInv
<1>. SUFFICES ASSUME FleetInit PROVE SseInv
  OBVIOUS
<1>1. /\ calls = <<>> /\ published = 0 /\ CLIENTS = {}
      /\ \A c \in Clients : queue[c] = <<>> /\ fanned[c] = <<>> /\ got[c] = <<>>
      /\ queue = [c \in Clients |-> <<>>] /\ fanned = [c \in Clients |-> <<>>] /\ got = [c \in Clients |-> <<>>]
  BY DEF FleetInit
<1>2. <<>> \in Seq(Nat) /\ <<>> \o <<>> = <<>> /\ Len(<<>>) = 0
  OBVIOUS
<1>3. EventsInOrder(<<>>, <<>>, <<>>, 0)
  BY <1>2 DEF EventsInOrder, Ascending, Before, UpTo
<1>4. NewestKept(<<>>, <<>>, <<>>)
  BY <1>2 DEF NewestKept, EndOf
<1>5. SseTyped
  BY <1>1, <1>2 DEF SseTyped
<1>6. QED BY <1>1, <1>3, <1>4, <1>5 DEF SseInv

\* What the browsers have in a state of the invariant.
LEMMA SseOf ==
  ASSUME SseInv, NEW c \in Clients
  PROVE  /\ got[c] \in Seq(Nat) /\ queue[c] \in Seq(Nat) /\ fanned[c] \in Seq(Nat)
         /\ calls \in Seq(Nat) /\ published \in Nat
         /\ EventsInOrder(got[c], queue[c], calls, published)
         /\ NewestKept(got[c], queue[c], fanned[c])
BY DEF SseInv, SseTyped

\* An event is published, by the engine or by the statistics thread.
LEMMA PublishKeepsSse ==
  ASSUME SseInv, Publish, UNCHANGED <<CLIENTS, queue, fanned, got>>
  PROVE  SseInv'
<1>1. published' = published + 1 /\ calls' = Append(calls, published + 1)
  BY DEF Publish
<1>2. SseTyped'
  BY <1>1 DEF SseInv, SseTyped
<1>3. ASSUME NEW c \in Clients
      PROVE  EventsInOrder(got[c], queue[c], calls, published)' /\ NewestKept(got[c], queue[c], fanned[c])'
  <2>1. EventsInOrder(got[c], queue[c], Append(calls, published + 1), published + 1)
    BY SseOf, PublishInOrder
  <2>2. got'[c] = got[c] /\ queue'[c] = queue[c] /\ fanned'[c] = fanned[c]
    OBVIOUS
  <2>3. EventsInOrder(got'[c], queue'[c], calls', published')
    BY <1>1, <2>1, <2>2
  <2>4. NewestKept(got'[c], queue'[c], fanned'[c])
    BY <2>2, SseOf
  <2>5. QED BY <2>3, <2>4
<1>4. QED BY <1>2, <1>3 DEF SseInv

\* The event loop fans the next event out.
LEMMA FanoutKeepsSse ==
  ASSUME SseInv, Fanout
  PROVE  SseInv'
<1>1. /\ calls # <<>> /\ calls' = Tail(calls) /\ UNCHANGED <<published, CLIENTS, got>>
      /\ queue' = [c \in Clients |-> IF c \in CLIENTS THEN PutEvt(queue[c], Head(calls)) ELSE queue[c]]
      /\ fanned' = [c \in Clients |-> IF c \in CLIENTS THEN Append(fanned[c], Head(calls)) ELSE fanned[c]]
  BY DEF Fanout
<1>2. /\ calls' \in Seq(Nat) /\ Head(calls) \in Nat
      /\ \A c \in Clients : queue'[c] \in Seq(Nat) /\ fanned'[c] \in Seq(Nat)
      /\ \A c \in Clients :
           EventsInOrder(got'[c], queue'[c], calls', published') /\ NewestKept(got'[c], queue'[c], fanned'[c])
  <2>1. calls' \in Seq(Nat) /\ Head(calls) \in Nat
    BY <1>1, TailAt DEF SseInv, SseTyped
  <2>2. ASSUME NEW c \in Clients
        PROVE  /\ queue'[c] \in Seq(Nat) /\ fanned'[c] \in Seq(Nat)
               /\ EventsInOrder(got'[c], queue'[c], calls', published') /\ NewestKept(got'[c], queue'[c], fanned'[c])
    <3>1. /\ got[c] \in Seq(Nat) /\ queue[c] \in Seq(Nat) /\ fanned[c] \in Seq(Nat)
          /\ calls \in Seq(Nat) /\ published \in Nat
          /\ EventsInOrder(got[c], queue[c], calls, published)
          /\ NewestKept(got[c], queue[c], fanned[c])
      BY SseOf
    <3>2. /\ EventsInOrder(got[c], PutEvt(queue[c], Head(calls)), Tail(calls), published)
          /\ EventsInOrder(got[c], queue[c], Tail(calls), published)
          /\ PutEvt(queue[c], Head(calls)) \in Seq(Nat)
      BY <1>1, <3>1, FanoutInOrder
    <3>3. /\ NewestKept(got[c], PutEvt(queue[c], Head(calls)), Append(fanned[c], Head(calls)))
          /\ Append(fanned[c], Head(calls)) \in Seq(Nat)
      BY <2>1, <3>1, FanoutKeepsNewest
    <3>4. CASE c \in CLIENTS
      <4>1. queue'[c] = PutEvt(queue[c], Head(calls)) /\ fanned'[c] = Append(fanned[c], Head(calls))
        BY <1>1, <3>4
      <4>2. QED BY <1>1, <3>2, <3>3, <4>1
    <3>5. CASE c \notin CLIENTS
      <4>1. queue'[c] = queue[c] /\ fanned'[c] = fanned[c]
        BY <1>1, <3>5
      <4>2. QED BY <1>1, <3>1, <3>2, <4>1
    <3>6. QED BY <3>4, <3>5
  <2>3. QED BY <2>1, <2>2
<1>3. SseTyped'
  BY <1>1, <1>2 DEF SseInv, SseTyped
<1>4. QED BY <1>2, <1>3 DEF SseInv

\* A browser is handed its next event.
LEMMA YieldKeepsSse ==
  ASSUME SseInv, NEW b \in Clients, Yield(b)
  PROVE  SseInv'
<1>1. /\ queue[b] # <<>> /\ UNCHANGED <<calls, published, CLIENTS, fanned>>
      /\ got' = [got EXCEPT ![b] = Append(got[b], Head(queue[b]))]
      /\ queue' = [queue EXCEPT ![b] = Tail(queue[b])]
  BY DEF Yield
<1>2. /\ got[b] \in Seq(Nat) /\ queue[b] \in Seq(Nat) /\ fanned[b] \in Seq(Nat)
      /\ calls \in Seq(Nat) /\ published \in Nat
      /\ EventsInOrder(got[b], queue[b], calls, published)
      /\ NewestKept(got[b], queue[b], fanned[b])
  BY SseOf
<1>3. /\ EventsInOrder(Append(got[b], Head(queue[b])), Tail(queue[b]), calls, published)
      /\ Append(got[b], Head(queue[b])) \in Seq(Nat) /\ Tail(queue[b]) \in Seq(Nat)
  BY <1>1, <1>2, YieldInOrder
<1>4. NewestKept(Append(got[b], Head(queue[b])), Tail(queue[b]), fanned[b])
  BY <1>1, <1>2, YieldKeepsNewest
<1>5. got \in [Clients -> Seq(Nat)] /\ queue \in [Clients -> Seq(Nat)]
  BY DEF SseInv, SseTyped
<1>6. /\ got' \in [Clients -> Seq(Nat)] /\ queue' \in [Clients -> Seq(Nat)]
      /\ got'[b] = Append(got[b], Head(queue[b])) /\ queue'[b] = Tail(queue[b])
      /\ \A c \in Clients \ {b} : got'[c] = got[c] /\ queue'[c] = queue[c]
  BY <1>1, <1>3, <1>5
<1>7. SseTyped'
  BY <1>1, <1>6 DEF SseInv, SseTyped
<1>8. ASSUME NEW c \in Clients
      PROVE  EventsInOrder(got'[c], queue'[c], calls', published') /\ NewestKept(got'[c], queue'[c], fanned'[c])
  <2>1. CASE c = b
    BY <1>1, <1>3, <1>4, <1>6, <2>1
  <2>2. CASE c # b
    BY <1>1, <1>6, <2>2, SseOf
  <2>3. QED BY <2>1, <2>2
<1>9. QED BY <1>7, <1>8 DEF SseInv

\* The events of a browser that connects: none.
LEMMA OthersKeepSse ==
  ASSUME SseInv, UNCHANGED <<calls, published, queue, fanned, got>>, CLIENTS' \subseteq Clients
  PROVE  SseInv'
BY DEF SseInv, SseTyped

\* The invariant of the events.
THEOREM EventsInvariant == FleetSpec => []SseInv
<1>1. FleetInit => SseInv
  BY SseStarts
<1>2. ASSUME SseInv, [FleetNext]_fleetVars PROVE SseInv'
  <2>0. CLIENTS \subseteq Clients
    BY <1>2 DEF SseInv, SseTyped
  <2>1. CASE EngineStep \/ GenerationFinishes
    <3>1. CASE EngineConsume
      BY <1>2, <3>1, PublishKeepsSse DEF EngineConsume
    <3>2. CASE ~EngineConsume
      <4>1. UNCHANGED sse
        BY <2>1, <3>2 DEF EngineStep, EngineCheck, EngineCopy, EngineBuild, EngineSwap, EngineStart,
           EngineReady, EngineLoopEnds, GenerationFinishes
      <4>2. QED BY <1>2, <2>0, <4>1, OthersKeepSse DEF sse
    <3>3. QED BY <3>1, <3>2
  <2>2. ASSUME NEW p \in Posts, PostArrives(p) \/ PostStep(p) PROVE SseInv'
    <3>1. UNCHANGED sse
      BY <2>2, Zenon DEF PostArrives, PostStep, PostLocks, PostWaits, PostUpdates, PostClears, PostStops, PostAnswers
    <3>2. QED BY <1>2, <2>0, <3>1, OthersKeepSse DEF sse
  <2>3. CASE StatsStep
    <3>1. UNCHANGED <<CLIENTS, queue, fanned, got>> /\ (Publish \/ UNCHANGED <<calls, published>>)
      BY <2>3 DEF StatsStep, StatsWakes, StatsReads, sse
    <3>2. QED BY <1>2, <2>0, <3>1, PublishKeepsSse, OthersKeepSse
  <2>4. ASSUME NEW c \in Clients, Connect(c) \/ Yield(c) PROVE SseInv'
    <3>1. CASE Connect(c)
      BY <1>2, <2>0, <3>1, OthersKeepSse DEF Connect
    <3>2. CASE Yield(c)
      BY <1>2, <3>2, YieldKeepsSse
    <3>3. QED BY <2>4, <3>1, <3>2
  <2>5. CASE Fanout
    BY <1>2, <2>5, FanoutKeepsSse
  <2>6. CASE ShutdownSetsStop \/ ShutdownStops \/ UNCHANGED fleetVars
    <3>1. UNCHANGED sse
      BY <2>6 DEF ShutdownSetsStop, ShutdownStops, fleetVars
    <3>2. QED BY <1>2, <2>0, <3>1, OthersKeepSse DEF sse
  <2>7. QED BY <1>2, <2>1, <2>2, <2>3, <2>4, <2>5, <2>6 DEF FleetNext
<1>3. QED BY <1>1, <1>2, PTL DEF FleetSpec

\* A browser sees the newest events in the order they were published, for any number of
\* browsers, events and any capacity of the queues.
THEOREM BrowsersSeeNewest == FleetSpec => []BrowserSeesNewest
<1>1. ASSUME SseInv PROVE BrowserSeesNewest
  <2>. SUFFICES ASSUME NEW c \in CLIENTS
                PROVE  /\ IsSuffix(queue[c], fanned[c])
                       /\ \A i, j \in DOMAIN (got[c] \o queue[c]) :
                            i < j => (got[c] \o queue[c])[i] < (got[c] \o queue[c])[j]
                       /\ Len(fanned[c]) <= Capacity => got[c] \o queue[c] = fanned[c]
    BY DEF BrowserSeesNewest
  <2>1. c \in Clients
    BY <1>1 DEF SseInv, SseTyped
  <2>2. /\ got[c] \in Seq(Nat) /\ queue[c] \in Seq(Nat) /\ fanned[c] \in Seq(Nat)
        /\ EventsInOrder(got[c], queue[c], calls, published) /\ NewestKept(got[c], queue[c], fanned[c])
    BY <1>1, <2>1, SseOf
  <2>3. IsSuffix(queue[c], fanned[c])
    BY <2>2, EndIsSuffix DEF NewestKept
  <2>4. Len(fanned[c]) <= Capacity => got[c] \o queue[c] = fanned[c]
    BY <2>2 DEF NewestKept
  <2>5. \A i, j \in DOMAIN (got[c] \o queue[c]) :
          i < j => (got[c] \o queue[c])[i] < (got[c] \o queue[c])[j]
    BY <2>2, ConcatAscends DEF EventsInOrder
  <2>6. QED BY <2>3, <2>4, <2>5
<1>2. QED BY <1>1, EventsInvariant, PTL

-----------------------------------------------------------------------------
(* The dataset tool *)


Clip == [state : {"absent", "partial", "whole"}, gop : Gops \cup {0}, newer : BOOLEAN]

Settled == {"none", "done", "failed"}

PrepType ==
  /\ clip \in [Outs -> [Cameras -> Clip]]
  /\ job \in [Cameras -> Settled \cup {"queued", "checked", "running"}]
  /\ pc \in {"idle", "pool", "write"}
  /\ pc # "idle" => args.out \in outs /\ args.gop \in Gops
  /\ IsFiniteSet(outs) /\ outs \subseteq Outs
  /\ faults \in Nat

\* What the jobs of a run have left behind so far.
RunInv ==
  /\ pc # "pool" => \A c \in Cameras : job[c] \in Settled
  /\ pc # "idle" =>
       /\ prev = recorded
       /\ DOMAIN new = {c \in Cameras : job[c] = "done"}
       /\ \A c \in DOMAIN new : new[c] = [out |-> args.out, gop |-> args.gop]
       /\ \A c \in Cameras : job[c] = "running" => clip[args.out][c].gop = args.gop
       /\ clean => \A c \in CamerasOf(args.scenarios) : job[c] \notin {"none", "failed"}
       /\ args.force =>
            \A c \in Cameras : job[c] = "done" =>
              clip[args.out][c].state = "whole" /\ clip[args.out][c].gop = args.gop

OneOut == \A a, b \in outs : a = b

\* The camera's entry, if any, is true, and it has one if it has a clip.
Remembered(c) ==
  /\ c \in DOMAIN recorded => True(c, recorded[c])
  /\ \A o \in outs : clip[o][c].state # "absent" => c \in DOMAIN recorded

\* What runs that all went well have left behind.
HistoryInv ==
  /\ DOMAIN recorded \subseteq Cameras
  /\ \A c \in DOMAIN recorded : recorded[c].out \in outs
  /\ \A o \in Outs \ outs : \A c \in Cameras : clip[o][c].state = "absent"
  /\ faults = 0 /\ OneOut =>
       \A c \in Cameras :
         /\ job[c] # "failed"
         /\ pc = "idle" \/ job[c] \in {"none", "queued", "checked"} => Remembered(c)
         /\ pc # "idle" /\ job[c] = "done" =>
              clip[args.out][c].state = "whole" /\ clip[args.out][c].gop = args.gop

\* Where the entries are: in the manifest, or for the moment only in the run that writes it.
ManifestInv ==
  /\ pc = "write" => torn
  /\ pc = "pool" => ~torn
  /\ torn => manifest = NoEntries /\ (pc = "write" \/ ~clean)
  /\ ~torn => manifest = recorded

PrepInv == PrepType /\ RunInv /\ HistoryInv /\ ManifestInv

-----------------------------------------------------------------------------
(* Lemmas *)

\* A dict after an update.
LEMMA UpdatedFacts ==
  ASSUME NEW former, NEW latest
  PROVE  /\ DOMAIN Updated(former, latest) = DOMAIN former \cup DOMAIN latest
         /\ \A c \in DOMAIN latest : Updated(former, latest)[c] = latest[c]
         /\ \A c \in DOMAIN former : c \notin DOMAIN latest => Updated(former, latest)[c] = former[c]
  BY DEF Updated

\* The cameras of a run are cameras.
LEMMA RunCameras ==
  ASSUME NEW scs, NEW c \in CamerasOf(scs)
  PROVE  c \in Cameras
<1>1. PICK s \in scs \cap Scenarios : c \in Dataset[FindScenarioSplit(s)][s]
  BY DEF CamerasOf
<1>2. DEFINE T == {i \in DOMAIN Dataset : s \in DOMAIN Dataset[i]}
<1>3. T \in (SUBSET DOMAIN Dataset) \ {{}}
  BY <1>1 DEF Scenarios
<1>4. PICK x \in T : \A y \in T : x <= y
  BY <1>3, DatasetAssumption
<1>5. FindScenarioSplit(s) \in T
  BY <1>4 DEF FindScenarioSplit
<1>6. QED BY <1>1, <1>5, DatasetAssumption

\* A camera's entry is recorded among those of the run.
LEMMA RecordFacts ==
  ASSUME NEW d, Record(d)
  PROVE  /\ DOMAIN new' = DOMAIN new \cup {d}
         /\ new'[d] = [out |-> args.out, gop |-> args.gop]
         /\ \A c \in DOMAIN new : c # d => new'[c] = new[c]
  BY DEF Record, Updated

\* A clip may be rewritten, and become stale.
LEMMA ClipEdited ==
  ASSUME NEW x \in Clip
  PROVE  [x EXCEPT !.state = "whole"] \in Clip /\ [x EXCEPT !.newer = FALSE] \in Clip
  BY DEF Clip

\* Another state of one clip.
LEMMA ClipReplaced ==
  ASSUME clip \in [Outs -> [Cameras -> Clip]], NEW o \in Outs, NEW c \in Cameras, NEW latest \in Clip
  PROVE  [clip EXCEPT ![o][c] = latest] \in [Outs -> [Cameras -> Clip]]
<1>1. [clip[o] EXCEPT ![c] = latest] \in [Cameras -> Clip]
  OBVIOUS
<1>2. QED BY <1>1

\* Before the first run there is nothing to remember.
LEMMA InitInv == Init => PrepInv
<1>1. SUFFICES ASSUME Init PROVE PrepInv
  OBVIOUS
<1>2. PrepType
  BY <1>1, FS_EmptySet DEF Init, PrepType, Absent, Clip, Settled
<1>3. RunInv
  BY <1>1 DEF Init, RunInv, Settled
<1>4. HistoryInv
  BY <1>1 DEF Init, HistoryInv, Remembered, NoEntries, Absent
<1>5. ManifestInv
  BY <1>1 DEF Init, ManifestInv
<1>6. QED BY <1>2, <1>3, <1>4, <1>5 DEF PrepInv

\* A run begins, with its arguments.
LEMMA StartInv == PrepInv /\ Start => PrepInv'
<1>1. SUFFICES ASSUME PrepInv, Start PROVE PrepInv'
  OBVIOUS
<1>2. PICK o \in Outs, g \in Gops, force \in BOOLEAN, scs \in (SUBSET Scenarios) \ {{}} :
        /\ args' = [out |-> o, gop |-> g, force |-> force, scenarios |-> scs]
        /\ job' = [c \in Cameras |-> IF c \in CamerasOf(scs) THEN "queued" ELSE "none"]
        /\ outs' = outs \cup {o}
  BY <1>1 DEF Start
<1>3. PrepType'
  BY <1>1, <1>2, FS_AddElement DEF PrepInv, PrepType, Start, disk, Settled
<1>4. RunInv'
  <2>1. /\ pc' = "pool" /\ prev' = recorded' /\ clip' = clip
        /\ DOMAIN new' = {} /\ args'.scenarios = scs /\ CamerasOf(args.scenarios)' = CamerasOf(scs)
    BY <1>1, <1>2 DEF PrepInv, ManifestInv, Start, disk, NoEntries, CamerasOf, FindScenarioSplit
  <2>2. \A c \in Cameras : job'[c] \in {"queued", "none"}
    BY <1>2
  <2>3. \A c \in CamerasOf(scs) : job'[c] = "queued"
    BY <1>2, RunCameras
  <2>4. QED BY <2>1, <2>2, <2>3 DEF RunInv
<1>5. HistoryInv'
  BY <1>1, <1>2 DEF PrepInv, HistoryInv, PrepType, Start, disk, Remembered, True, OneOut
<1>6. ManifestInv'
  BY <1>1 DEF PrepInv, PrepType, ManifestInv, Start, disk
<1>7. QED BY <1>3, <1>4, <1>5, <1>6 DEF PrepInv

\* A run that cannot read the manifest is over.
LEMMA StartTornInv == PrepInv /\ StartTorn => PrepInv'
<1>1. SUFFICES ASSUME PrepInv, StartTorn PROVE PrepInv'
  OBVIOUS
<1>2. PrepType'
  BY <1>1 DEF PrepInv, PrepType, StartTorn, disk
<1>3. RunInv'
  BY <1>1 DEF PrepInv, RunInv, StartTorn, disk, Settled
<1>4. HistoryInv'
  BY <1>1 DEF PrepInv, HistoryInv, StartTorn, disk, Remembered, True, OneOut
<1>5. ManifestInv'
  BY <1>1 DEF PrepInv, ManifestInv, StartTorn, disk
<1>6. QED BY <1>2, <1>3, <1>4, <1>5 DEF PrepInv

\* A worker takes a camera of the run.
LEMMA BeginInv == ASSUME NEW d \in Cameras PROVE PrepInv /\ Begin(d) => PrepInv'
<1>1. SUFFICES ASSUME PrepInv, Begin(d) PROVE PrepInv'
  OBVIOUS
<1>2. PrepType'
  BY <1>1 DEF PrepInv, PrepType, Begin, disk
<1>3. RunInv'
  BY <1>1 DEF PrepInv, PrepType, RunInv, Begin, disk
<1>4. HistoryInv'
  BY <1>1 DEF PrepInv, PrepType, HistoryInv, Begin, disk, Remembered, True, OneOut
<1>5. ManifestInv'
  BY <1>1 DEF PrepInv, PrepType, ManifestInv, Begin, disk
<1>6. QED BY <1>2, <1>3, <1>4, <1>5 DEF PrepInv

\* A camera's clip is skipped only if it is as the run wants it.
LEMMA CheckInv == ASSUME NEW d \in Cameras PROVE PrepInv /\ Check(d) => PrepInv'
<1>1. SUFFICES ASSUME PrepInv, Check(d) PROVE PrepInv'
  OBVIOUS
<1>2. PrepType'
  <2>1. CASE Skips(d)
    BY <1>1, <2>1 DEF PrepInv, PrepType, Check, Settled
  <2>2. CASE ~Skips(d)
    <3>1. pc = "pool" /\ args.out \in Outs /\ args.gop \in Gops
      BY <1>1 DEF PrepInv, PrepType, RunInv, Check, Settled
    <3>2. clip' \in [Outs -> [Cameras -> Clip]]
      <4>1. [state |-> "partial", gop |-> args.gop, newer |-> TRUE] \in Clip
        BY <3>1 DEF Clip
      <4>2. clip' = [clip EXCEPT ![args.out][d] =
                      [state |-> "partial", gop |-> args.gop, newer |-> TRUE]]
        BY <1>1, <2>2 DEF Check
      <4>3. QED BY <1>1, <3>1, <4>1, <4>2, ClipReplaced DEF PrepInv, PrepType
    <3>3. QED BY <1>1, <2>2, <3>1, <3>2 DEF PrepInv, PrepType, Check, Settled
  <2>3. QED BY <2>1, <2>2
<1>3. RunInv'
  <2>1. pc = "pool" /\ pc' = pc /\ args' = args
        /\ CamerasOf(args.scenarios)' = CamerasOf(args.scenarios)
    BY <1>1 DEF PrepInv, PrepType, RunInv, Check, Settled, CamerasOf, FindScenarioSplit
  <2>2. CASE Skips(d)
    <3>1. job' = [job EXCEPT ![d] = "done"] /\ Record(d) /\ clip' = clip /\ ~args.force
      BY <1>1, <2>2 DEF Check, Skips
    <3>2. /\ DOMAIN new' = {c \in Cameras : job'[c] = "done"}
          /\ \A c \in DOMAIN new' : new'[c] = [out |-> args.out, gop |-> args.gop]
      <4>1. DOMAIN new = {c \in Cameras : job[c] = "done"}
            /\ \A c \in DOMAIN new : new[c] = [out |-> args.out, gop |-> args.gop]
        BY <1>1, <2>1 DEF PrepInv, RunInv
      <4>2. \A c \in Cameras : job'[c] = IF c = d THEN "done" ELSE job[c]
        BY <1>1, <3>1 DEF PrepInv, PrepType
      <4>3. /\ DOMAIN new' = DOMAIN new \cup {d}
            /\ new'[d] = [out |-> args.out, gop |-> args.gop]
            /\ \A c \in DOMAIN new : c # d => new'[c] = new[c]
        BY <3>1, RecordFacts
      <4>4. QED BY <4>1, <4>2, <4>3
    <3>3. QED BY <1>1, <2>1, <3>1, <3>2 DEF PrepInv, PrepType, RunInv, Check, Settled
  <2>3. CASE ~Skips(d)
    <3>1. \A c \in Cameras : c # d => clip'[args.out][c] = clip[args.out][c]
      BY <1>1, <2>1, <2>3 DEF PrepInv, PrepType, Check
    <3>2. clip'[args.out][d].gop = args.gop
      BY <1>1, <2>1, <2>3 DEF PrepInv, PrepType, Check
    <3>3. job' = [job EXCEPT ![d] = "running"] /\ new' = new
      BY <1>1, <2>3 DEF Check
    <3>4. QED BY <1>1, <2>1, <3>1, <3>2, <3>3 DEF PrepInv, PrepType, RunInv, Check, Settled
  <2>4. QED BY <2>2, <2>3
<1>4. HistoryInv'
  <2>1. CASE Skips(d)
    BY <1>1, <2>1 DEF PrepInv, PrepType, RunInv, HistoryInv, Check, Skips, UpToDate, EncodedOtherwise, Remembered, True, OneOut, Settled
  <2>2. CASE ~Skips(d)
    <3>1. /\ clip' = [clip EXCEPT ![args.out][d] = [state |-> "partial", gop |-> args.gop, newer |-> TRUE]]
          /\ job' = [job EXCEPT ![d] = "running"] /\ pc = "pool" /\ args.out \in outs
          /\ recorded' = recorded /\ outs' = outs /\ faults' = faults /\ pc' = pc /\ args' = args
      BY <1>1, <2>2 DEF PrepInv, PrepType, RunInv, Check, Settled
    <3>2. /\ \A c \in Cameras : c # d => job'[c] = job[c]
          /\ \A o \in Outs, c \in Cameras : c # d \/ o # args.out => clip'[o][c] = clip[o][c]
          /\ job'[d] = "running"
      BY <1>1, <3>1 DEF PrepInv, PrepType
    <3>3. \A o \in Outs \ outs' : \A c \in Cameras : clip'[o][c].state = "absent"
      BY <1>1, <3>1, <3>2 DEF PrepInv, HistoryInv
    <3>4. ASSUME faults' = 0, OneOut', NEW c \in Cameras, c # d
          PROVE  /\ job'[c] # "failed"
                 /\ pc' = "idle" \/ job'[c] \in {"none", "queued", "checked"} => Remembered(c)'
                 /\ pc' # "idle" /\ job'[c] = "done" =>
                      clip'[args'.out][c].state = "whole" /\ clip'[args'.out][c].gop = args'.gop
      <4>1. \A o \in outs : clip'[o][c] = clip[o][c]
        BY <1>1, <3>1, <3>2, <3>4 DEF PrepInv, PrepType
      <4>2. Remembered(c) => Remembered(c)'
        BY <1>1, <3>1, <3>4, <4>1 DEF PrepInv, HistoryInv, Remembered, True
      <4>3. OneOut /\ faults = 0 /\ job'[c] = job[c]
        BY <3>1, <3>2, <3>4 DEF OneOut
      <4>4. QED BY <1>1, <3>1, <4>1, <4>2, <4>3 DEF PrepInv, HistoryInv
    <3>5. QED BY <1>1, <3>1, <3>2, <3>3, <3>4 DEF PrepInv, HistoryInv
  <2>3. QED BY <2>1, <2>2
<1>5. ManifestInv'
  BY <1>1 DEF PrepInv, PrepType, ManifestInv, Check
<1>6. QED BY <1>2, <1>3, <1>4, <1>5 DEF PrepInv

\* ffmpeg leaves the clip the entry describes.
LEMMA FfmpegDoneInv == ASSUME NEW d \in Cameras PROVE PrepInv /\ FfmpegDone(d) => PrepInv'
<1>1. SUFFICES ASSUME PrepInv, FfmpegDone(d) PROVE PrepInv'
  OBVIOUS
<1>2. PrepType'
  <2>1. args.out \in Outs
    BY <1>1 DEF PrepInv, PrepType, RunInv, FfmpegDone, Settled
  <2>2. clip' \in [Outs -> [Cameras -> Clip]]
    <3>1. [clip[args.out][d] EXCEPT !.state = "whole"] \in Clip
      BY <1>1, <2>1, ClipEdited, ZenonT(60) DEF PrepInv, PrepType
    <3>2. clip' = [clip EXCEPT ![args.out][d] = [clip[args.out][d] EXCEPT !.state = "whole"]]
      BY <1>1 DEF FfmpegDone
    <3>3. QED BY <1>1, <2>1, <3>1, <3>2, ClipReplaced DEF PrepInv, PrepType
  <2>3. QED BY <1>1, <2>2 DEF PrepInv, PrepType, FfmpegDone, Settled
<1>3. RunInv'
  <2>1. pc = "pool" /\ pc' = pc /\ args' = args
        /\ CamerasOf(args.scenarios)' = CamerasOf(args.scenarios)
    BY <1>1 DEF PrepInv, PrepType, RunInv, FfmpegDone, Settled, CamerasOf, FindScenarioSplit
  <2>2. \A c \in Cameras : clip'[args.out][c].gop = clip[args.out][c].gop
    BY <1>1, <2>1 DEF PrepInv, PrepType, FfmpegDone, Clip
  <2>3. \A c \in Cameras : clip'[args.out][c].state = IF c = d THEN "whole" ELSE clip[args.out][c].state
    BY <1>1, <2>1 DEF PrepInv, PrepType, FfmpegDone, Clip
  <2>4. /\ DOMAIN new' = {c \in Cameras : job'[c] = "done"}
        /\ \A c \in DOMAIN new' : new'[c] = [out |-> args.out, gop |-> args.gop]
    <3>1. DOMAIN new = {c \in Cameras : job[c] = "done"}
          /\ \A c \in DOMAIN new : new[c] = [out |-> args.out, gop |-> args.gop]
      BY <1>1, <2>1 DEF PrepInv, RunInv
    <3>2. Record(d) /\ \A c \in Cameras : job'[c] = IF c = d THEN "done" ELSE job[c]
      BY <1>1 DEF PrepInv, PrepType, FfmpegDone
    <3>3. /\ DOMAIN new' = DOMAIN new \cup {d}
          /\ new'[d] = [out |-> args.out, gop |-> args.gop]
          /\ \A c \in DOMAIN new : c # d => new'[c] = new[c]
      BY <3>2, RecordFacts
    <3>4. QED BY <3>1, <3>2, <3>3
  <2>5. QED BY <1>1, <2>1, <2>2, <2>3, <2>4 DEF PrepInv, PrepType, RunInv, FfmpegDone, Settled
<1>4. HistoryInv'
  BY <1>1 DEF PrepInv, PrepType, RunInv, HistoryInv, FfmpegDone, Remembered, True, OneOut, Settled
<1>5. ManifestInv'
  BY <1>1 DEF PrepInv, PrepType, ManifestInv, FfmpegDone
<1>6. QED BY <1>2, <1>3, <1>4, <1>5 DEF PrepInv

\* A failure ends what the history promises.
LEMMA FfmpegFailsInv == ASSUME NEW d \in Cameras PROVE PrepInv /\ FfmpegFails(d) => PrepInv'
<1>1. SUFFICES ASSUME PrepInv, FfmpegFails(d) PROVE PrepInv'
  OBVIOUS
<1>2. PrepType'
  BY <1>1 DEF PrepInv, PrepType, FfmpegFails, disk, Settled
<1>3. RunInv'
  BY <1>1 DEF PrepInv, PrepType, RunInv, FfmpegFails, disk, Settled
<1>4. HistoryInv'
  BY <1>1 DEF PrepInv, PrepType, HistoryInv, FfmpegFails, disk
<1>5. ManifestInv'
  BY <1>1 DEF PrepInv, PrepType, ManifestInv, FfmpegFails, disk
<1>6. QED BY <1>2, <1>3, <1>4, <1>5 DEF PrepInv

\* Truncating the manifest touches no clip, and the run has what it held.
LEMMA TruncateInv == PrepInv /\ Truncate => PrepInv'
<1>1. SUFFICES ASSUME PrepInv, Truncate PROVE PrepInv'
  OBVIOUS
<1>2. PrepType'
  BY <1>1 DEF PrepInv, PrepType, Truncate
<1>3. RunInv'
  BY <1>1 DEF PrepInv, PrepType, RunInv, Truncate, Settled, CamerasOf, FindScenarioSplit
<1>4. HistoryInv'
  BY <1>1 DEF PrepInv, PrepType, HistoryInv, Truncate, Remembered, True, OneOut
<1>5. ManifestInv'
  BY <1>1 DEF PrepInv, PrepType, ManifestInv, Truncate
<1>6. QED BY <1>2, <1>3, <1>4, <1>5 DEF PrepInv

\* The merged entries are true, each of a camera of this run or of an earlier one.
LEMMA WriteInv == PrepInv /\ Write => PrepInv'
<1>1. SUFFICES ASSUME PrepInv, Write PROVE PrepInv'
  OBVIOUS
<1>2. PrepType'
  BY <1>1 DEF PrepInv, PrepType, Write
<1>3. RunInv'
  BY <1>1 DEF PrepInv, PrepType, RunInv, Write, Settled
<1>4. HistoryInv'
  <2>1. /\ recorded' = Updated(recorded, new) /\ clip' = clip /\ args' = args
        /\ job' = job /\ outs' = outs /\ faults' = faults /\ pc = "write" /\ pc' = "idle"
    BY <1>1 DEF PrepInv, RunInv, Write
  <2>2. /\ DOMAIN recorded' = DOMAIN recorded \cup DOMAIN new
        /\ \A c \in DOMAIN new : recorded'[c] = [out |-> args.out, gop |-> args.gop]
        /\ \A c \in DOMAIN recorded : c \notin DOMAIN new => recorded'[c] = recorded[c]
    <3>1. recorded' = [c \in DOMAIN recorded \cup DOMAIN new |->
                         IF c \in DOMAIN new THEN new[c] ELSE recorded[c]]
      BY <2>1 DEF Updated
    <3>2. \A c \in DOMAIN new : new[c] = [out |-> args.out, gop |-> args.gop]
      BY <1>1, <2>1 DEF PrepInv, RunInv
    <3>3. QED BY <3>1, <3>2
  <2>3. DOMAIN new = {c \in Cameras : job[c] = "done"} /\ args.out \in outs
    BY <1>1, <2>1 DEF PrepInv, PrepType, RunInv
  <2>4. DOMAIN recorded' \subseteq Cameras /\ \A c \in DOMAIN recorded' : recorded'[c].out \in outs'
    BY <1>1, <2>1, <2>2, <2>3 DEF PrepInv, HistoryInv
  <2>5. ASSUME faults' = 0, OneOut', NEW c \in Cameras PROVE job'[c] # "failed" /\ Remembered(c)'
    <3>1. job[c] \in {"none", "done"} /\ OneOut
      BY <1>1, <2>1, <2>5 DEF PrepInv, RunInv, HistoryInv, Settled, OneOut
    <3>2. CASE job[c] = "done"
      BY <1>1, <2>1, <2>2, <2>3, <2>5, <3>1, <3>2 DEF PrepInv, HistoryInv, Remembered, True, OneOut
    <3>3. CASE job[c] = "none"
      BY <1>1, <2>1, <2>2, <2>3, <2>5, <3>1, <3>3 DEF PrepInv, HistoryInv, Remembered, True
    <3>4. QED BY <3>1, <3>2, <3>3
  <2>6. QED BY <1>1, <2>1, <2>4, <2>5 DEF PrepInv, HistoryInv
<1>5. ManifestInv'
  BY <1>1 DEF PrepInv, PrepType, RunInv, ManifestInv, Write, Merged
<1>6. QED BY <1>2, <1>3, <1>4, <1>5 DEF PrepInv

\* A kill leaves the disk as it was.
LEMMA KillInv == PrepInv /\ Kill => PrepInv'
<1>1. SUFFICES ASSUME PrepInv, Kill PROVE PrepInv'
  OBVIOUS
<1>2. PrepType'
  BY <1>1 DEF PrepInv, PrepType, Kill, disk, Settled
<1>3. RunInv'
  BY <1>1 DEF PrepInv, PrepType, RunInv, Kill, disk, Settled
<1>4. HistoryInv'
  BY <1>1 DEF PrepInv, PrepType, HistoryInv, Kill, disk
<1>5. ManifestInv'
  BY <1>1 DEF PrepInv, PrepType, ManifestInv, Kill, disk
<1>6. QED BY <1>2, <1>3, <1>4, <1>5 DEF PrepInv

\* A new source makes clips stale and changes none.
LEMMA SourceChangesInv == ASSUME NEW d \in Cameras PROVE PrepInv /\ SourceChanges(d) => PrepInv'
<1>1. SUFFICES ASSUME PrepInv, SourceChanges(d) PROVE PrepInv'
  OBVIOUS
<1>2. PrepType'
  <2>1. \A o \in Outs : [clip[o] EXCEPT ![d].newer = FALSE] \in [Cameras -> Clip]
    <3>1. \A o \in Outs : [clip[o][d] EXCEPT !.newer = FALSE] \in Clip
      BY <1>1, ClipEdited DEF PrepInv, PrepType
    <3>2. QED BY <1>1, <3>1 DEF PrepInv, PrepType
  <2>2. clip' \in [Outs -> [Cameras -> Clip]]
    BY <1>1, <2>1 DEF SourceChanges
  <2>3. QED BY <1>1, <2>2 DEF PrepInv, PrepType, SourceChanges
<1>3. RunInv'
  BY <1>1 DEF PrepInv, PrepType, RunInv, SourceChanges, Settled
<1>4. \A o \in Outs, c \in Cameras : clip'[o][c].state = clip[o][c].state /\ clip'[o][c].gop = clip[o][c].gop
  BY <1>1 DEF PrepInv, PrepType, SourceChanges, Clip
<1>5. HistoryInv'
  BY <1>1, <1>4 DEF PrepInv, PrepType, HistoryInv, SourceChanges, Remembered, True, OneOut
<1>6. ManifestInv'
  BY <1>1 DEF PrepInv, PrepType, ManifestInv, SourceChanges
<1>7. QED BY <1>2, <1>3, <1>5, <1>6 DEF PrepInv

\* Every step preserves the invariant.
LEMMA NextInv == PrepInv /\ [Next]_vars => PrepInv'
<1>1. ASSUME PrepInv, UNCHANGED vars PROVE PrepInv'
  BY <1>1, ZenonT(60) DEF vars, disk, PrepInv, PrepType, RunInv, HistoryInv, ManifestInv, OneOut, Remembered, True,
              CamerasOf, FindScenarioSplit
<1>2. ASSUME PrepInv, NEW c \in Cameras,
             Begin(c) \/ Check(c) \/ FfmpegDone(c) \/ FfmpegFails(c) \/ SourceChanges(c)
      PROVE  PrepInv'
  BY <1>2, BeginInv, CheckInv, FfmpegDoneInv, FfmpegFailsInv, SourceChangesInv
<1>3. QED BY <1>1, <1>2, StartInv, StartTornInv, TruncateInv, WriteInv, KillInv DEF Next

-----------------------------------------------------------------------------
(* Theorems *)

\* The clips, the jobs and the manifest agree through every run, failure and kill.
THEOREM PrepInvariant == Spec => []PrepInv
  BY InitInv, NextInv, PTL DEF Spec

\* "The manifest remembers what is on disk": whatever the scenarios and the intervals of
\* the runs, and however often the sources changed, as long as the runs wrote to one
\* directory and nothing failed.
THEOREM ManifestIsRight == Spec => []ManifestRemembersDisk
<1>1. PrepInv => ManifestRemembersDisk
  <2>1. SUFFICES ASSUME PrepInv, pc = "idle", ~torn, faults = 0, Cardinality(outs) <= 1,
                        NEW c \in DOMAIN manifest
                 PROVE  True(c, manifest[c])
    BY DEF ManifestRemembersDisk
  <2>2. OneOut
    <3>1. SUFFICES ASSUME NEW a \in outs, NEW b \in outs, a # b PROVE FALSE
      BY DEF OneOut
    <3>2. {a, b} \subseteq outs /\ IsFiniteSet(outs)
      BY <2>1 DEF PrepInv, PrepType
    <3>3. Cardinality({a, b}) <= Cardinality(outs) /\ Cardinality(outs) \in Nat
      BY <3>2, FS_Subset, FS_CardinalityType
    <3>4. IsFiniteSet({a}) /\ Cardinality({a}) = 1
      BY FS_Singleton
    <3>5. Cardinality({a} \cup {b}) = 2
      BY <3>1, <3>4, FS_AddElement, SMTT(30)
    <3>6. {a} \cup {b} = {a, b}
      OBVIOUS
    <3>7. QED BY <2>1, <3>3, <3>5, <3>6
  <2>3. QED BY <2>1, <2>2 DEF PrepInv, HistoryInv, ManifestInv, Remembered
<1>2. QED BY <1>1, PrepInvariant, PTL

\* A forced run that ends well repairs what earlier runs left, however they ended.
THEOREM ForceRepairs == Spec => []ForcedRunRepairs
<1>1. PrepInv => ForcedRunRepairs
  <2>1. SUFFICES ASSUME PrepInv, pc = "write", args.force, clean,
                        NEW c \in CamerasOf(args.scenarios)
                 PROVE  c \in DOMAIN Merged /\ True(c, Merged[c])
    BY DEF ForcedRunRepairs
  <2>2. c \in Cameras
    BY RunCameras
  <2>3. job[c] = "done"
    BY <2>1, <2>2 DEF PrepInv, RunInv, Settled
  <2>4. c \in DOMAIN new /\ new[c] = [out |-> args.out, gop |-> args.gop]
    BY <2>1, <2>2, <2>3 DEF PrepInv, RunInv
  <2>5. clip[args.out][c].state = "whole" /\ clip[args.out][c].gop = args.gop
    BY <2>1, <2>2, <2>3 DEF PrepInv, RunInv
  <2>6. c \in DOMAIN Merged /\ Merged[c] = new[c]
    BY <2>4 DEF Merged, Updated
  <2>7. QED BY <2>4, <2>5, <2>6 DEF True
<1>2. QED BY <1>1, PrepInvariant, PTL

\* EntriesSurvive for any data set, directories, intervals and number of runs, failures and
\* kills: a manifest that can be read has all that was recorded, and only a run killed
\* while it writes the file leaves one that cannot.
THEOREM EntriesKept == Spec => []EntriesSurvive
<1>1. PrepInv => EntriesSurvive
  BY DEF PrepInv, ManifestInv, EntriesSurvive
<1>2. QED BY <1>1, PrepInvariant, PTL
=============================================================================
