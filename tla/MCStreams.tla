----------------------------- MODULE MCStreams -----------------------------
(* Streams for TLC: both surfaces. *)
EXTENDS Streams

MCSurfaces == {"sse", "ws"}
MCSocket == {"ws"}
=============================================================================
