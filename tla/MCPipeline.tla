----------------------------- MODULE MCPipeline -----------------------------
(* Small instances of Pipeline for TLC. *)
EXTENDS Pipeline

CONSTANTS s1, s2, s3

TwoStages   == <<s1, s2>>
ThreeStages == <<s1, s2, s3>>
=============================================================================
