---------------------------- MODULE VisionReview ----------------------------
(***************************************************************************)
(* One review of a walkthrough video after the other: sampled frames are   *)
(* read by the served model or, if none of its replies is usable, by the   *)
(* local detector (packages/inference/vision.py, media/cv_observer.py);    *)
(* what comes out is written as evidence (agents/vision_risk), and the     *)
(* video is rendered with its identities hidden (media/redaction.py).      *)
(*                                                                         *)
(* Pixels, boxes and confidences are left out: what a frame may show and   *)
(* what the served model may say of it are constants.  A detection is a    *)
(* kind at a place, the centre of its box; a frame lists its changes       *)
(* largest first.                                                          *)
(***************************************************************************)
EXTENDS Naturals, Sequences, FiniteSets

CONSTANTS
    ZoneKind,        \* the site model: zone -> kind
    Pictures,        \* what a frame shows: [changes, scene], sequences of [kind, place]
    Replies,         \* what the served model says of a frame: [zone, risk]
    Regions,         \* the frame-to-zone mapping: [zone, covers], in order
    DefaultZone,     \* the zone of what no region covers, or NoZone; both come with
                     \* the video, or with a cue, and may name zones unknown to the site
    NoZone,
    Sampled,         \* sampled frames of a video
    MaxPerFrame,     \* detections kept per frame (3 in the code)
    Videos,          \* input files, two of which can share a stem
    Stem,            \* video -> name of its render
    FilmLength,      \* frames of a video to render
    Films,           \* what a video may show: frame -> [people, faces], sets of spots
    DetectInterval,  \* people are located in every so many frames (5)
    MaxReviews,      \* bound on reviews
    MaxCrashes       \* bound on crashes

ObstructionRisks == {"zone_obstruction", "person_in_exclusion_zone", "load_path_conflict"}
LocalRisks == {"person_in_exclusion_zone", "zone_obstruction", "route_obstruction",
               "fire_or_smoke", "poor_visibility", "housekeeping"}
RiskTypes ==
    LocalRisks \cup
    {"load_path_conflict", "ppe_noncompliance", "unsafe_edge_or_opening", "spill_or_leak",
     "vehicle_person_conflict", "electrical_hazard", "unstable_materials",
     "blocked_egress", "structural_damage", "none"}
ActionableRisks == RiskTypes \ {"housekeeping", "none"}
MappedZones == {Regions[i].zone : i \in DOMAIN Regions}
Frames == 0..(FilmLength - 1)

ReviewWellFormed ==
    /\ DOMAIN Regions \subseteq Nat
    /\ NoZone \notin DOMAIN ZoneKind
    /\ Sampled \in Nat \ {0} /\ MaxPerFrame \in Nat \ {0}
    /\ FilmLength \in Nat \ {0} /\ DetectInterval \in Nat \ {0}
    /\ \A film \in Films : DOMAIN film = Frames
                          /\ \A f \in Frames : film[f].faces \subseteq film[f].people
    /\ MaxReviews \in Nat /\ MaxCrashes \in Nat

ASSUME ReviewAssumption == ReviewWellFormed

VARIABLES
    pc,         \* "idle", "sample", "served", "local", "write", "redact"
    video,      \* under review
    left,       \* frames still to read
    observed,   \* served: [zone, risk]; local: [zone, kind] kept so far
    todo,       \* evidence still to write
    evidence,   \* what the review under way has written
    manifests,  \* REDACTION_MANIFEST: [input, film, ranges]
    rendered,   \* rendered file name -> the video it was rendered from
    reviews,
    crashes

reviewVars == <<pc, video, left, observed, todo, evidence, manifests, rendered, reviews, crashes>>
output == <<manifests, rendered>>
counts == <<reviews, crashes>>

ReviewInit ==
    /\ pc = "idle" /\ video \in Videos /\ left = 0
    /\ observed = {} /\ todo = {} /\ evidence = {}
    /\ manifests = {} /\ rendered = <<>>
    /\ reviews = 0 /\ crashes = 0

Finding(zone, risk, confirmed) == [zone |-> zone, risk |-> risk, confirmed |-> confirmed]

-----------------------------------------------------------------------------
(* The local detector *)

\* The first region that covers the place names the zone.
ZoneForBox(place) ==
    LET covering == {i \in DOMAIN Regions : place \in Regions[i].covers}
    IN  IF covering = {} THEN DefaultZone
        ELSE Regions[CHOOSE i \in covering : \A j \in covering : i <= j].zone

\* The largest changes of a frame and its first two scene candidates.
Kept(picture) ==
    LET first(seq, n) == {seq[i] : i \in {j \in DOMAIN seq : j <= n}}
    IN  {[zone |-> ZoneForBox(d.place), kind |-> d.kind] :
            d \in first(picture.changes, MaxPerFrame) \cup first(picture.scene, 2)}

\* Mutant: everything seen in a zone is one group.
OneCategory(kind) == "any"

Category(kind) ==
    CASE kind \in {"fire", "haze"} -> "fire-or-smoke"
      [] kind = "dark" -> "visibility"
      [] OTHER -> "person-or-obstruction"

\* The kind of a zone is known where a region maps it and the site model has it.
InExclusion(zone) ==
    /\ zone \in MappedZones \cap DOMAIN ZoneKind
    /\ ZoneKind[zone] = "lift-exclusion"

\* The first that applies.
RiskTypeFor(kinds, zone) ==
    IF "person" \in kinds /\ InExclusion(zone) THEN "person_in_exclusion_zone"
    ELSE IF "obstruction" \in kinds
         THEN IF InExclusion(zone) THEN "zone_obstruction" ELSE "route_obstruction"
    ELSE IF {"fire", "haze"} \cap kinds # {} THEN "fire_or_smoke"
    ELSE IF "dark" \in kinds THEN "poor_visibility" ELSE "housekeeping"

\* One finding for each zone and category, by the worst of its kinds.
Grouped(kept) ==
    {LET group == {b \in kept : b.zone = a.zone /\ Category(b.kind) = Category(a.kind)}
     IN  Finding(a.zone, RiskTypeFor({b.kind : b \in group}, a.zone), FALSE) : a \in kept}

-----------------------------------------------------------------------------
(* The review *)

\* The review is over: its working state is gone.
Over ==
    /\ pc' = "idle" /\ left' = 0
    /\ observed' = {} /\ todo' = {} /\ evidence' = {}

Begin(v) ==
    /\ pc = "idle" /\ reviews < MaxReviews
    /\ video' = v /\ pc' = "sample" /\ left' = 0
    /\ observed' = {} /\ todo' = {} /\ evidence' = {}
    /\ reviews' = reviews + 1 /\ UNCHANGED <<output, crashes>>

\* The configured backend reads the frames.
FramesSampled(backend) ==
    /\ pc = "sample" /\ pc' = backend /\ left' = Sampled
    /\ UNCHANGED <<video, observed, todo, evidence, output, counts>>

\* The file opens and has no frame: that is the evidence.
NoFrames ==
    /\ pc = "sample" /\ pc' = "idle"
    /\ evidence' = {Finding(NoZone, "unavailable", FALSE)}
    /\ UNCHANGED <<video, left, observed, todo, output, counts>>

\* The file does not open: the review fails and writes nothing.
CannotOpen ==
    /\ pc = "sample" /\ Over
    /\ UNCHANGED <<video, output, counts>>

SuppliedZone(zone) == IF zone \in MappedZones THEN zone ELSE NoZone

\* Mutant: a risk is taken over as the model names it.
RiskAsNamed(risk) == risk

KnownRisk(risk) == IF risk \in RiskTypes THEN risk ELSE "housekeeping"

ServedReplies(reply) ==
    /\ pc = "served" /\ left > 0 /\ left' = left - 1
    /\ observed' = observed \cup
          {[zone |-> SuppliedZone(reply.zone), risk |-> KnownRisk(reply.risk)]}
    /\ UNCHANGED <<pc, video, todo, evidence, output, counts>>

\* The call fails, times out or returns no JSON: the frame is passed over.
ServedFails ==
    /\ pc = "served" /\ left > 0 /\ left' = left - 1
    /\ UNCHANGED <<pc, video, observed, todo, evidence, output, counts>>

\* Without a single usable reply the local detector reads all frames.
ServedEnds ==
    /\ pc = "served" /\ left = 0
    /\ \/ observed = {} /\ pc' = "local" /\ left' = Sampled /\ UNCHANGED todo
       \/ /\ observed # {} /\ pc' = "write"
          /\ todo' = {Finding(o.zone, o.risk, TRUE) : o \in observed}
          /\ UNCHANGED left
    /\ UNCHANGED <<video, observed, evidence, output, counts>>

LocalFrame(picture) ==
    /\ pc = "local" /\ left > 0 /\ left' = left - 1
    /\ observed' = observed \cup Kept(picture)
    /\ UNCHANGED <<pc, video, todo, evidence, output, counts>>

NothingSeen == {Finding(NoZone, "none", FALSE)}

LocalEnds ==
    /\ pc = "local" /\ left = 0
    /\ pc' = "write" /\ todo' = IF observed = {} THEN NothingSeen ELSE Grouped(observed)
    /\ UNCHANGED <<video, left, observed, evidence, output, counts>>

WriteEvidence(finding) ==
    /\ pc = "write" /\ finding \in todo
    /\ evidence' = evidence \cup {finding} /\ todo' = todo \ {finding}
    /\ pc' = IF todo = {finding} THEN "redact" ELSE "write"
    /\ UNCHANGED <<video, left, observed, output, counts>>

-----------------------------------------------------------------------------
(* Redaction.  A film tells for each frame where people stand and whose     *)
(* face is visible; the detectors are taken at their best and find all.     *)

Located(f) == f - (f % DetectInterval)

\* Faces are blurred; a person located without a face in the box is pixelated.
Hidden(film, f) ==
    film[f].faces \cup (film[Located(f)].people \ film[f].faces)

\* Mutant: a later frame lengthens the last range across a gap.
Bridged(ranges, f) ==
    IF ranges # <<>>
    THEN [ranges EXCEPT ![Len(ranges)] = <<@[1], f>>] ELSE Append(ranges, <<f, f>>)

\* The frame after the last range lengthens it, any other starts a range.
Extended(ranges, f) ==
    IF ranges # <<>> /\ f = ranges[Len(ranges)][2] + 1
    THEN [ranges EXCEPT ![Len(ranges)] = <<@[1], f>>] ELSE Append(ranges, <<f, f>>)

\* The redacted frames, read in order.
ToRanges(frames) ==
    LET upTo[n \in 0..FilmLength] ==
            IF n = 0 THEN <<>>
            ELSE IF n - 1 \in frames THEN Extended(upTo[n - 1], n - 1) ELSE upTo[n - 1]
    IN  upTo[FilmLength]

AlreadyRedacted == \E m \in manifests : m.input = video

WithRender ==
    [name \in DOMAIN rendered \cup {Stem[video]} |->
        IF name = Stem[video] THEN video ELSE rendered[name]]

Redact(film) ==
    /\ pc = "redact" /\ ~AlreadyRedacted
    /\ rendered' = WithRender
    /\ manifests' = manifests \cup
          {[input |-> video, film |-> film,
            ranges |-> ToRanges({f \in Frames : Hidden(film, f) # {}})]}
    /\ Over /\ UNCHANGED <<video, counts>>

\* A render that is not on record: the file may have been written or not.
Unfinished ==
    /\ rendered' \in {rendered} \cup (IF AlreadyRedacted THEN {} ELSE {WithRender})
    /\ UNCHANGED manifests

\* There is a manifest of this input, or redaction fails: the review stands.
NotRedacted ==
    /\ pc = "redact" /\ Unfinished
    /\ Over /\ UNCHANGED <<video, counts>>

\* A demo reset deletes the manifests and leaves the files.
ResetManifests ==
    /\ manifests # {} /\ manifests' = {}
    /\ UNCHANGED <<pc, video, left, observed, todo, evidence, rendered, counts>>

\* What was written stays; a render can be cut short.
Crash ==
    /\ pc # "idle" /\ crashes < MaxCrashes /\ crashes' = crashes + 1
    /\ IF pc = "redact" THEN Unfinished ELSE UNCHANGED output
    /\ Over /\ UNCHANGED <<video, reviews>>

Step ==
    \/ NoFrames \/ CannotOpen \/ ServedFails \/ ServedEnds \/ LocalEnds \/ NotRedacted
    \/ \E backend \in {"served", "local"} : FramesSampled(backend)
    \/ \E reply \in Replies : ServedReplies(reply)
    \/ \E picture \in Pictures : LocalFrame(picture)
    \/ \E finding \in todo : WriteEvidence(finding)
    \/ \E film \in Films : Redact(film)

ReviewNext ==
    \/ Step
    \/ \E v \in Videos : Begin(v)
    \/ ResetManifests \/ Crash

ReviewSpec == ReviewInit /\ [][ReviewNext]_reviewVars

-----------------------------------------------------------------------------
\* Whatever the served model replies, a confirmed finding names a zone that the
\* frame mapping supplied, or none, and a risk the system knows.  One of the
\* local detector can name the default zone too, and only what it can tell.
\* (Neither has to be a zone of the site model: observe, _zone_for_box.)
NothingInvented ==
    \A f \in todo \cup evidence :
        IF f.confirmed
        THEN f.zone \in MappedZones \cup {NoZone} /\ f.risk \in RiskTypes
        ELSE /\ f.zone \in MappedZones \cup {DefaultZone, NoZone}
             /\ f.risk \in LocalRisks \cup {"none", "unavailable"}

ReviewTypeOK ==
    /\ pc \in {"idle", "sample", "served", "local", "write", "redact"}
    /\ video \in Videos /\ left \in 0..Sampled
    /\ NothingInvented /\ \A f \in todo \cup evidence : f.confirmed \in BOOLEAN
    /\ \A m \in manifests : m.input \in Videos /\ m.ranges \in Seq(Frames \X Frames)
    /\ reviews \in 0..MaxReviews /\ crashes \in 0..MaxCrashes

\* A manifest accounts for every frame in which something was hidden and for no
\* other, in order, and two of its ranges are never one.  (_to_ranges of what
\* redact_video collects.)
RangesExact ==
    \A m \in manifests :
        LET from(i) == m.ranges[i][1]
            to(i) == m.ranges[i][2]
        IN  /\ {f \in Frames : Hidden(m.film, f) # {}}
                  = UNION {from(i)..to(i) : i \in DOMAIN m.ranges}
            /\ \A i, j \in DOMAIN m.ranges : i < j => to(i) + 1 < from(j)

\* What a single detection alone would have been reported as.
Alone(o) == RiskTypeFor({o.kind}, o.zone)

\* Merging the detections of all frames loses nothing the decision looks at:
\* the zones with an obstruction are those of the single detections, and every
\* other risk one of them would have raised is raised under its zone.
\* (observe: groups by zone and category, one risk type for each group.)
NoFindingLost ==
    pc = "redact" /\ (\A f \in evidence : ~f.confirmed) =>
        /\ {f.zone : f \in {g \in evidence : g.risk \in ObstructionRisks}}
             = {o.zone : o \in {p \in observed : Alone(p) \in ObstructionRisks}}
        /\ \A o \in observed :
              Alone(o) \in ActionableRisks \ ObstructionRisks
                  => \E f \in evidence : f.zone = o.zone /\ f.risk = Alone(o)

-----------------------------------------------------------------------------
(* What the documentation says and the code does not keep. *)

\* "... the safe default rather than leaving an identity exposed": whoever is
\* in a frame is hidden in it.
IdentitiesHidden ==
    \A m \in manifests : \A f \in Frames : m.film[f].people \subseteq Hidden(m.film, f)

\* A person in an exclusion zone is reported as one.  Not so in the default
\* zone: its kind is looked up among the mapped regions only.
PersonInExclusionReported ==
    pc = "redact" /\ (\A f \in evidence : ~f.confirmed) =>
        \A o \in observed :
            o.kind = "person" /\ o.zone \in DOMAIN ZoneKind /\ ZoneKind[o.zone] = "lift-exclusion"
                => Finding(o.zone, "person_in_exclusion_zone", FALSE) \in evidence

\* "Store a redaction_manifest with the input hash ... output hash": the file
\* a manifest names is the render of its input.
ManifestDescribesRender == \A m \in manifests : rendered[Stem[m.input]] = m.input
=============================================================================
