----------------------------- MODULE FrameQueue -----------------------------
(***************************************************************************)
(* What the frame ring of the AirPlay receiver promises: decoded frames    *)
(* are handed to the sink once each and in the order they were written, at *)
(* most Capacity of them wait, and a flush or the end of a session loses   *)
(* all that wait and no other.                                             *)
(***************************************************************************)
EXTENDS Naturals, Sequences

CONSTANTS Frame, Capacity

VARIABLES
  queue,        \* the frames that wait
  heard         \* the last frame handed to the sink, or none: <<>> or <<f>>

Init == queue = <<>> /\ heard = <<>>

Put == /\ Len(queue) < Capacity
       /\ \E f \in Frame : queue' = Append(queue, f)
       /\ UNCHANGED heard

Take == /\ queue # <<>>
        /\ heard' = <<Head(queue)>> /\ queue' = Tail(queue)

Clear == queue' = <<>> /\ UNCHANGED heard

Next == Put \/ Take \/ Clear

Spec == Init /\ [][Next]_<<queue, heard>>
=============================================================================
