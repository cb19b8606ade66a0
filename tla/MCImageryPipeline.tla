-------------------------- MODULE MCImageryPipeline --------------------------
(* ImageryPipeline for TLC: one city, whose waypoint has two images.       *)
EXTENDS ImageryPipeline

CONSTANTS c1, s1, i1, i2

MCCities == <<c1>>

MCWaypoints ==
  [c \in City |-> << [segment |-> s1, images |-> {i1, i2}] >>]
=============================================================================
