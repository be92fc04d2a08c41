---------------------------- MODULE MCSegmentation ----------------------------
(***************************************************************************)
(* Instances of Segmentation for TLC: the durations of the code scaled down *)
(* so that a chunk fits into ten frames, in the same order as there: the    *)
(* post-speech silence is longer than the smallest gap of the table.        *)
(***************************************************************************)
EXTENDS Segmentation

MCPoints == <<<<3, 3>>, <<5, 1>>, <<7, 1>>>>
=============================================================================
