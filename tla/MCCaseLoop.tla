----------------------------- MODULE MCCaseLoop -----------------------------
(***************************************************************************)
(* A small site: one limited reading kind, one worker, one zone.  The cfgs *)
(* choose the inputs, the faults and the versions of the lift plan.        *)
(***************************************************************************)
EXTENDS CaseLoop

Input(kind, subject, value) == [kind |-> kind, subject |-> subject, value |-> value]
Reading(value) == Input("reading", "wind_gust_kmh", value)
Position(relation) == Input("position", "w1", relation)
Lift(active) == Input("lift_state", "lift", active)
Review == Input("review", "manager", "on_demand")
Heartbeat == Input("heartbeat", "gateway", "ok")

VisionCue == Input("vision_cue", "scanner", "cue")
AudioCue == Input("audio_cue", "radio", "cue")
Indexed == Input("documents_indexed", "importer", "done")

AllInputs ==
    {Reading(0), Reading(2), Position("inside_risk_zone"), Position("safe"),
     Lift(TRUE), Lift(FALSE), Review, Heartbeat, Indexed}
LiveInputs == {Review, VisionCue, AudioCue, Reading(2)}
ReadingInputs == {Reading(0), Reading(2)}

Chunk(key, value) == [ruleKey |-> key, ruleValue |-> value]
ZoneChunk == Chunk("exclusion_zone_clear", 0)
Plan3 == {Chunk("wind_gust_kmh", 3), ZoneChunk}   \* the permissive plan
Plan1 == {Chunk("wind_gust_kmh", 1), ZoneChunk}   \* the strict one
OnePlan == {Plan1}
TwoPlans == {Plan1, Plan3}

MCScenes == [a \in {"vision-risk", "crew-comms"} |->
    IF a = "vision-risk"
    THEN {VisionItem("C", "zone_obstruction")}
    ELSE {CrewItem("C")}]

MCSiteRule == [k \in SiteKinds |-> [dir |-> "min", limit |-> 1]]
=============================================================================
