----------------------------- MODULE MCImageWatch -----------------------------
(* ImageWatch with two image files and a session that has old batches. *)
EXTENDS ImageWatch, TLC

\* The names of the images are interchangeable.
ImageSymmetry == Permutations(Images)

\* Bound: descriptors and events are created by scripts only, so MaxScripts and
\* a bound on the queue of one script bound the state space.
CONSTANT MaxQueued
QueueBound == Len(inotifyQ) <= MaxQueued
=============================================================================
