------------------------------ MODULE MCRSession ------------------------------
(* RSession with the sets of commands its runs use. *)
EXTENDS RSession

\* The commands that say or evaluate something, and those that the images are
\* about, which run nothing but resetWatch.
NothingRun == {"execOther", "execUnknownId", "clearFileChanges"}
SessionOps == Ops \ (NothingRun \cup {"unknown"})
LoopOps == NothingRun \cup {"open", "execScript", "execRnw"}
UnknownOps == {"open", "unknown"}
CloseOrHelp == {"close", "help"}
=============================================================================
