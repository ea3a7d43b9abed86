--------------------------- MODULE MCRawRecorder ---------------------------
(* RawRecorder with the limits of MCRawRecorder.cfg, counted in frames.    *)
EXTENDS RawRecorder
=============================================================================
