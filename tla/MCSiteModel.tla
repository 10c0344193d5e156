---------------------------- MODULE MCSiteModel ----------------------------
(* Version 1 is the layout of data/site-models/site-042-v1.json, in half     *)
(* metres.  Version 2 adds a second floor with a concave exclusion zone that *)
(* has a slanted edge, and one with another buffer.                          *)
EXTENDS SiteModel

Zone(name, floor, kind, buffer, polygon) ==
    [zoneId |-> name, floorId |-> floor, kind |-> kind, buffer |-> buffer,
     polygon |-> polygon]

Site042 ==
    <<Zone("A", "F12", "other", 4, <<<<0, 0>>, <<16, 0>>, <<16, 10>>, <<0, 10>>>>),
      Zone("B", "F12", "other", 4, <<<<0, 10>>, <<16, 10>>, <<16, 24>>, <<0, 24>>>>),
      Zone("C", "F12", "lift-exclusion", 5, <<<<16, 0>>, <<28, 0>>, <<28, 12>>, <<16, 12>>>>),
      Zone("D", "F12", "other", 4, <<<<16, 12>>, <<28, 12>>, <<28, 24>>, <<16, 24>>>>)>>

Level13 ==
    <<Zone("L", "F13", "lift-exclusion", 4,
           <<<<0, 0>>, <<12, 0>>, <<12, 4>>, <<6, 4>>, <<6, 14>>, <<0, 10>>>>),
      Zone("M", "F13", "lift-exclusion", 2,
           <<<<12, 8>>, <<20, 8>>, <<20, 16>>, <<12, 16>>>>),
      Zone("N", "F13", "other", 4,
           <<<<12, 0>>, <<24, 0>>, <<24, 8>>, <<12, 8>>>>)>>

MCLayouts == <<Site042, Site042 \o Level13>>
MCFloors == {"F12", "F13"}
MCZoneNames == {"A", "B", "C", "D", "L", "M", "N", "Z"}
MCArea == {-1, 0, 4, 6, 8, 11, 12, 13, 15, 16, 18, 20, 22}
            \X {-1, 0, 2, 4, 8, 9, 10, 12, 14, 16, 17}

\* Both layouts are plans; the proof of InsideMeansInside is about such.
ASSUME MCPlanned == Planned
=============================================================================
