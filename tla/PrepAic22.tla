------------------------------ MODULE PrepAic22 ------------------------------
(***************************************************************************)
(* prep_aic22.py, which transcodes the data set's cameras into the clips   *)
(* the fleet demo's publishers loop, and keeps a manifest of them: which   *)
(* file, with which keyframe interval.  A run may be repeated, for other   *)
(* scenarios, another --gop or another --out; clips that are up to date    *)
(* are skipped.  ffmpeg writes the clip in place, and may fail; the script *)
(* may be killed at any moment.                                            *)
(***************************************************************************)
EXTENDS Integers, FiniteSets

CONSTANTS
  Cameras,
  Dataset,      \* the splits in scan order, each [scenario |-> its cameras with a video]
  Outs,         \* output directories, --out
  Gops,         \* keyframe intervals, --gop
  Jobs,         \* --jobs
  MaxRuns, MaxFaults,           \* bounds on the runs, and on failures and kills
  None

ASSUME PrepAssumption == Jobs \in Nat \ {0} /\ Gops \subseteq Nat
\* Any of the splits have a first one.
ASSUME DatasetAssumption ==
  /\ \A T \in (SUBSET DOMAIN Dataset) \ {{}} : \E i \in T : \A j \in T : i <= j
  /\ \A i \in DOMAIN Dataset : \A s \in DOMAIN Dataset[i] : Dataset[i][s] \subseteq Cameras

VARIABLES
  clip,         \* [state, gop, newer] of the file of each camera in each directory
  manifest,     \* entry [out, gop] of each camera that has one
  torn,         \* the manifest is empty or half written: no entry of it can be read
  pc,           \* main
  args,         \* [out, gop, force, scenarios] of the run
  prev,         \* prev_by_slug
  job,          \* of each camera: none, queued, checked, running, done, failed
  new,          \* new_entries
  runs, faults, outs, clean,    \* history; clean: nothing failed in this run
  recorded      \* history: the last entry of each camera in a run that was not killed

disk == <<clip, manifest, torn>>
vars == <<disk, pc, args, prev, job, new, runs, faults, outs, clean, recorded>>

NoEntries == [c \in {} |-> None]

\* The entries of `latest` over those of `former`, as in a dict's update.
Updated(former, latest) ==
  [c \in DOMAIN former \cup DOMAIN latest |->
     IF c \in DOMAIN latest THEN latest[c] ELSE former[c]]

Absent == [state |-> "absent", gop |-> 0, newer |-> FALSE]

Init ==
  /\ clip = [o \in Outs |-> [c \in Cameras |-> Absent]]
  /\ manifest = NoEntries /\ torn = FALSE
  /\ pc = "idle"
  /\ args = [out |-> None, gop |-> 0, force |-> FALSE, scenarios |-> {}]
  /\ prev = NoEntries /\ new = NoEntries
  /\ job = [c \in Cameras |-> "none"]
  /\ runs = 0 /\ faults = 0 /\ outs = {} /\ clean = TRUE
  /\ recorded = NoEntries

-----------------------------------------------------------------------------
(* main, up to the pool *)

Scenarios == UNION {DOMAIN Dataset[i] : i \in DOMAIN Dataset}

\* The first split that has the scenario.
FindScenarioSplit(scenario) ==
  CHOOSE i \in DOMAIN Dataset :
    /\ scenario \in DOMAIN Dataset[i]
    /\ \A j \in DOMAIN Dataset : scenario \in DOMAIN Dataset[j] => i <= j

\* Scenarios that no split has are reported and left out.
CamerasOf(scenarios) ==
  UNION {Dataset[FindScenarioSplit(s)][s] : s \in scenarios \cap Scenarios}

\* json.loads raises: the run ends before it has touched anything.
StartTorn ==
  /\ pc = "idle" /\ runs < MaxRuns /\ torn
  /\ runs' = runs + 1
  /\ UNCHANGED <<disk, pc, args, prev, job, new, faults, outs, clean, recorded>>

Start ==
  /\ pc = "idle" /\ runs < MaxRuns /\ ~torn
  /\ \E o \in Outs, g \in Gops, force \in BOOLEAN, scs \in (SUBSET Scenarios) \ {{}} :
       /\ args' = [out |-> o, gop |-> g, force |-> force, scenarios |-> scs]
       /\ job' = [c \in Cameras |-> IF c \in CamerasOf(scs) THEN "queued" ELSE "none"]
       /\ outs' = outs \cup {o}
  /\ prev' = manifest
  /\ new' = NoEntries
  /\ runs' = runs + 1
  /\ clean' = TRUE
  /\ pc' = "pool"
  /\ UNCHANGED <<disk, faults, recorded>>

-----------------------------------------------------------------------------
(* _process_camera, in a worker thread *)

Busy == {c \in Cameras : job[c] \in {"checked", "running"}}

Begin(c) ==
  /\ pc = "pool" /\ job[c] = "queued" /\ Cardinality(Busy) < Jobs
  /\ job' = [job EXCEPT ![c] = "checked"]
  /\ UNCHANGED <<disk, pc, args, prev, new, runs, faults, outs, clean, recorded>>

NotRedone(c) == FALSE                                            \* mutant

\* The manifest says the same file was encoded with another interval.
EncodedOtherwise(c) ==
  /\ c \in DOMAIN prev
  /\ prev[c].out = args.out
  /\ prev[c].gop # args.gop

UpToDate(c) ==
  LET out == clip[args.out][c] IN out.state # "absent" /\ out.newer

SkipsFresh(c) == UpToDate(c) /\ ~EncodedOtherwise(c)              \* mutant

Skips(c) == UpToDate(c) /\ ~EncodedOtherwise(c) /\ ~args.force

Record(c) == new' = Updated(new, [k \in {c} |-> [out |-> args.out, gop |-> args.gop]])

\* transcode: the clip is fresh enough, or ffmpeg starts to write over it.
Check(c) ==
  /\ job[c] = "checked"
  /\ IF Skips(c)
     THEN /\ job' = [job EXCEPT ![c] = "done"]
          /\ Record(c)
          /\ UNCHANGED clip
     ELSE /\ job' = [job EXCEPT ![c] = "running"]
          /\ clip' = [clip EXCEPT ![args.out][c] =
                        [state |-> "partial", gop |-> args.gop, newer |-> TRUE]]
          /\ UNCHANGED new
  /\ UNCHANGED <<manifest, torn, pc, args, prev, runs, faults, outs, clean, recorded>>

FfmpegDone(c) ==
  /\ job[c] = "running"
  /\ clip' = [clip EXCEPT ![args.out][c].state = "whole"]
  /\ job' = [job EXCEPT ![c] = "done"]
  /\ Record(c)
  /\ UNCHANGED <<manifest, torn, pc, args, prev, runs, faults, outs, clean, recorded>>

\* A deviation is reported; what ffmpeg wrote stays.
FfmpegFails(c) ==
  /\ job[c] = "running" /\ faults < MaxFaults
  /\ job' = [job EXCEPT ![c] = "failed"]
  /\ faults' = faults + 1
  /\ clean' = FALSE
  /\ UNCHANGED <<disk, pc, args, prev, new, runs, outs, recorded>>

-----------------------------------------------------------------------------
(* main, after the pool *)

OnlyNew == new                                                   \* mutant

\* by_slug: the entries of this run over those there were.
Merged == Updated(prev, new)

\* write_text empties the file before it writes it.
Truncate ==
  /\ pc = "pool"
  /\ \A c \in Cameras : job[c] \in {"none", "done", "failed"}
  /\ manifest' = NoEntries
  /\ torn' = TRUE
  /\ pc' = "write"
  /\ UNCHANGED <<clip, args, prev, job, new, runs, faults, outs, clean, recorded>>

Write ==
  /\ pc = "write"
  /\ manifest' = Merged
  /\ torn' = FALSE
  /\ recorded' = Updated(recorded, new)
  /\ pc' = "idle"
  /\ UNCHANGED <<clip, args, prev, job, new, runs, faults, outs, clean>>

-----------------------------------------------------------------------------
(* The world *)

\* The script is killed, ffmpeg with it.
Kill ==
  /\ pc # "idle" /\ faults < MaxFaults
  /\ faults' = faults + 1
  /\ pc' = "idle"
  /\ job' = [c \in Cameras |-> "none"]
  /\ clean' = FALSE
  /\ UNCHANGED <<disk, args, prev, new, runs, outs, recorded>>

\* The data set's video is replaced by a later one.
SourceChanges(c) ==
  /\ pc = "idle"
  /\ clip' = [o \in Outs |-> [clip[o] EXCEPT ![c].newer = FALSE]]
  /\ UNCHANGED <<manifest, torn, pc, args, prev, job, new, runs, faults, outs, clean, recorded>>

Next ==
  \/ Start \/ StartTorn \/ Truncate \/ Write \/ Kill
  \/ \E c \in Cameras :
       Begin(c) \/ Check(c) \/ FfmpegDone(c) \/ FfmpegFails(c) \/ SourceChanges(c)

Spec == Init /\ [][Next]_vars

-----------------------------------------------------------------------------
(* Properties *)

TypeOK ==
  /\ clip \in [Outs -> [Cameras -> [state : {"absent", "partial", "whole"},
                                    gop : Gops \cup {0}, newer : BOOLEAN]]]
  /\ pc \in {"idle", "pool", "write"}
  /\ DOMAIN manifest \subseteq Cameras /\ DOMAIN new \subseteq Cameras

True(c, entry) ==
  /\ clip[entry.out][c].state = "whole"
  /\ clip[entry.out][c].gop = entry.gop

\* "The manifest remembers what is on disk" - between runs, as long as every run wrote
\* to the same directory, and no ffmpeg failed and no run was killed: either leaves a clip
\* that looks up to date beside an entry that does not describe it.
ManifestRemembersDisk ==
  pc = "idle" /\ ~torn /\ faults = 0 /\ Cardinality(outs) <= 1 =>
    \A c \in DOMAIN manifest : True(c, manifest[c])

\* A forced run that ends well repairs what earlier runs left, wherever they wrote and
\* whatever became of their clips: its cameras have whole clips, encoded as the manifest
\* says.
ForcedRunRepairs ==
  pc = "write" /\ args.force /\ clean =>
    \A c \in CamerasOf(args.scenarios) : c \in DOMAIN Merged /\ True(c, Merged[c])

\* "existing manifest entries for other scenarios are preserved": a manifest that can be
\* read has every entry that a run recorded, the latest of each camera - those of other
\* scenarios, and of cameras whose transcoding has failed since.  It is kept but for one
\* window: a run killed between write_text's truncation of the file and its write loses
\* all of them.
EntriesSurvive ==
  IF torn THEN pc = "write" \/ ~clean ELSE manifest = recorded
=============================================================================
