-------------------------------- MODULE Sizing --------------------------------
(***************************************************************************)
(* Sizing a deployment with recommend(): ask for a fleet of cameras, turn  *)
(* the dials the answer names, ask again, until real time is held.         *)
(***************************************************************************)
EXTENDS Capacity

CONSTANTS
  Requests,    \* what is asked for first
  OtherNames,  \* strings that name no resolution and no decode mode
  Settled      \* not a request: the deployment is decided

Names == DOMAIN Resolutions \cup DecodeKinds \cup OtherNames

\* What recommend() is called with.  It refuses the wrong resolutions, decode modes,
\* stream counts and skips itself, and divides by the rest.
Request ==
  [streams : Int, resolution : Names, fps : Nat \ {0}, skip : Int, decode : Names,
   key_gop : Nat \ {0},
   sahi : SUBSET [tile : Nat \ {0}, overlap : Int, full_frame : BOOLEAN, serial : BOOLEAN]]

ASSUME RequestsAssumption == Requests \subseteq Request /\ Settled \notin Request

VARIABLE request

SizingInit == request \in Requests

Asked == request # Settled /\ ~Refused(request)

\* Every numbered dial of the suggestion at once.
TurnDials ==
  /\ Asked /\ ~Holds(request)
  /\ request' = Turned(request)

\* Or one of the other two.
TakeAlternative ==
  /\ Asked /\ ~Holds(request)
  /\ request' \in Alternatives(request)

Settle ==
  /\ Asked /\ Holds(request)
  /\ request' = Settled

SizingNext == TurnDials \/ TakeAlternative \/ Settle

SizingSpec == SizingInit /\ [][SizingNext]_request

-----------------------------------------------------------------------------
(* Properties *)

\* recommend()'s promise: who turns every numbered dial of the suggestion holds real
\* time, unless already one camera is more than the decoder can take.
DialsSuffice == [][TurnDials => Holds(request') \/ OneIsTooMany(request')]_request

\* sahi_tile_count's promise: the count is that of the grid MakeTileGrid lays out.  It
\* is kept where single and double precision cut the same stride out of the tile, and
\* not everywhere: of 640 pixels at an overlap of 0.9 they leave 64 and 63.
TilesAsPredicted ==
  Asked =>
    \A s \in request.sahi :
      PredictedStride(s) = Stride(s.tile, s.overlap) =>
      LET r == Resolutions[request.resolution]
      IN  SahiTileCount(request.resolution, [s EXCEPT !.full_frame = FALSE])
            = Cardinality(MakeTileGrid(r.w, r.h, s.tile, s.overlap))

Fewer(q, n) == [q EXCEPT !.streams = n]

\* binding_resource's promise: when real time is not held, it names the resource with the
\* least room.  Of however many cameras the fleet is then left with, the one named is
\* overcommitted as long as any is.
BindingIsTheLimit ==
  Asked /\ ~Holds(request) =>
    \A n \in 1..request.streams :
      \/ Holds(Fewer(request, n))
      \/ Binding(request) = "gpu-inference" /\ ~GpuHolds(Fewer(request, n))
      \/ Binding(request) = "nvdec" /\ ~NvdecHolds(Fewer(request, n))
=============================================================================
