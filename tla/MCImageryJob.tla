----------------------------- MODULE MCImageryJob -----------------------------
(* ImageryJob for TLC: a city with two waypoints on one segment that have   *)
(* an image in common and one on a second segment, and a city that sees     *)
(* one of the same images.                                                  *)
EXTENDS ImageryJob

CONSTANTS c1, c2, s1, s2, s3, i1, i2, i3

MCWaypoints ==
  [c \in City |->
     IF c = c1 THEN << [segment |-> s1, images |-> {i1, i2}],
                       [segment |-> s1, images |-> {i2, i3}],
                       [segment |-> s2, images |-> {i1}] >>
     ELSE << [segment |-> s3, images |-> {i2}] >>]
=============================================================================
