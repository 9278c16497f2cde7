----------------------------- MODULE FrameChannel -----------------------------
(***************************************************************************)
(* What the session's input promises a client, without bytes: commands     *)
(* arrive at most once and in the order they were sent, and a client that  *)
(* sends a command only when the session has read the one before it loses  *)
(* none.  A client that sends a command while another is in flight may     *)
(* lose either, and may lose commands it sends afterwards.                 *)
(*                                                                         *)
(* InputBuffer implements this channel; RSession's ClientRead uses it.     *)
(***************************************************************************)
EXTENDS Naturals, Sequences

CONSTANT MaxFrames   \* bound: frames the client sends

VARIABLES
  sent,        \* frames sent so far; a frame's name is its number
  inFlight,    \* frames that can still be delivered
  overlapped,  \* a frame was sent while another was in flight
  delivered    \* frames delivered, in order

channelVars == <<sent, inFlight, overlapped, delivered>>

Init ==
  /\ sent = 0
  /\ inFlight = {}
  /\ overlapped = FALSE
  /\ delivered = <<>>

Send ==
  /\ sent < MaxFrames
  /\ sent' = sent + 1
  /\ inFlight' = inFlight \cup {sent + 1}
  /\ overlapped' \in {overlapped, TRUE}
  /\ inFlight # {} => overlapped'
  /\ UNCHANGED delivered

\* A frame is delivered; with it, frames that were sent around it may be lost.
Deliver ==
  \E f \in inFlight :
    /\ delivered' = Append(delivered, f)
    /\ inFlight' \in SUBSET {g \in inFlight : g > f}
    /\ UNCHANGED <<sent, overlapped>>

Lose ==
  /\ overlapped
  /\ inFlight' \in SUBSET inFlight
  /\ UNCHANGED <<sent, overlapped, delivered>>

Next == Send \/ Deliver \/ Lose

Spec == Init /\ [][Next]_channelVars /\ WF_channelVars(Deliver /\ ~overlapped)

=============================================================================
