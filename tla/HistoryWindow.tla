--------------------------- MODULE HistoryWindow ---------------------------
(***************************************************************************)
(* What history_store promises its callers: a window of the newest samples *)
(* that a restart never replaces by anything but the last saved one, the   *)
(* one whose save was cut short at its very end, or an empty one.          *)
(***************************************************************************)
EXTENDS Naturals, Sequences

CONSTANTS
    Slots,     \* kHistorySlots
    Samples    \* the samples that may be recorded

VARIABLES window, saved

\* history_append()
Push(w, s) == Append(IF Len(w) < Slots THEN w ELSE Tail(w), s)

Init == window = <<>> /\ saved = <<>>

Record(s) == window' = Push(window, s) /\ UNCHANGED saved

Commit == saved' = window /\ UNCHANGED window

Restart ==
    /\ window' \in {saved, window, <<>>}
    /\ saved' = window'

Next == (\E s \in Samples : Record(s)) \/ Commit \/ Restart

Spec == Init /\ [][Next]_<<window, saved>>
=============================================================================
