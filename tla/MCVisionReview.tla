--------------------------- MODULE MCVisionReview ---------------------------
(* A camera that sees the exclusion zone C, a route A, a gate that the site *)
(* model does not know and what is between them, and two files of one name  *)
(* with different suffixes.                                                 *)
EXTENDS VisionReview

MCZoneKind == [z \in {"A", "C"} |-> IF z = "C" THEN "lift-exclusion" ELSE "safe-route"]
MCRegions ==
    <<[zone |-> "C", covers |-> {1}], [zone |-> "A", covers |-> {1, 2}],
      [zone |-> "gate", covers |-> {4}]>>
MCStem == [v \in Videos |-> "walk"]

At(kind, place) == [kind |-> kind, place |-> place]

MCPictures ==
    [changes : {<<>>, <<At("person", 1)>>, <<At("obstruction", 1)>>,
                <<At("obstruction", 2), At("person", 4)>>,
                <<At("person", 2), At("obstruction", 3), At("person", 1)>>},
     scene : {<<>>, <<At("fire", 1)>>, <<At("dark", 2), At("haze", 4)>>}]

\* One person, in the frames of p; with or without a visible face.
Film(p, faces) ==
    [f \in Frames |-> IF f \in p THEN [people |-> {1}, faces |-> {1} \cap faces]
                                 ELSE [people |-> {}, faces |-> {}]]

MCFilms ==
    {Film(p, faces) : p \in {{}, Frames, {1}, {0, 3}, {1, 3}}, faces \in {{}, {1}}}

MCReplies ==
    {[zone |-> "C", risk |-> "zone_obstruction"], [zone |-> "gate", risk |-> "blocked_egress"],
     [zone |-> "A", risk |-> "none"],
     [zone |-> "invented", risk |-> "fire_or_smoke"], [zone |-> NoZone, risk |-> "invented"]}
=============================================================================
