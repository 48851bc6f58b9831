------------------------------- MODULE MCFrames -------------------------------
(* A surface with two buffers that may be scanned out and one that is copied, on  *)
(* two outputs.                                                                   *)
EXTENDS Frames, TLC

CONSTANTS s1, b1, b2, shm, o1, o2, f1

MCSurfaces == {s1}
MCBuffers == {b1, b2, shm}
MCCopied == {shm}
MCOutputs == {o1, o2}
MCFeedbacks == {f1}
Symmetry == Permutations({b1, b2}) \cup Permutations(MCOutputs)
=============================================================================
