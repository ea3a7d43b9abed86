--------------------------- MODULE MCCameraThreads ---------------------------
(* Values for the constants of CameraThreads.                              *)
EXTENDS CameraThreads, TLC

SourceSymmetry == Permutations(SourceIds)
=============================================================================
