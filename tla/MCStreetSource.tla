---- MODULE MCStreetSource ----
(* A street of four nodes, a building whose corner no way uses, and a path   *)
(* that leaves the extract; three edits in two diffs.                        *)
EXTENDS StreetSource

Tagged(hw, key, value) == [NoTags EXCEPT !.highway = hw, ![key] = value]
Way(refs, tags) == [refs |-> refs, tags |-> tags]
Street == [NoTags EXCEPT !.highway = "residential"]
Path == [NoTags EXCEPT !.highway = "path"]
Ring == [Street EXCEPT !.roundabout = TRUE]

MCMaps ==
  {[x   |-> <<0, 3, 5, 9, 14, 30>>,
    way |-> <<Way(<<1, 2, 3, 4>>, Street), Way(<<3, 5>>, NoTags), Way(<<4, 6>>, Path)>>]}

MCVersions ==
  <<{Way(<<1, 2, 3, 4>>, Street),
     Way(<<4, 3, 1>>, [Tagged("residential", "oneway", "-1") EXCEPT !.contra = "no"])},
    {Way(<<3, 5>>, Path), Way(<<2, 3, 5, 2>>, Ring), Way(<<5, 2>>, Tagged("motorway", "bicycle", "no")),
     Way(<<3, 5>>, Tagged("motorway_link", "oneway", ""))},
    {Way(<<4, 6>>, Path), Way(<<3, 5>>, Path)}>>
====
