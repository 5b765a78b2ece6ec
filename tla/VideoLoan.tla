------------------------------ MODULE VideoLoan ------------------------------
(***************************************************************************)
(* What the video promises to whoever stops a stream and starts the next   *)
(* one: the memory of a picture is lent to an epoch, and comes back.  At   *)
(* most one epoch is open, none is opened under a freeze, what an epoch    *)
(* leaves behind drains, and the freeze is lifted only when nothing is     *)
(* lent any more.                                                          *)
(*                                                                         *)
(* VideoPipeline implements this specification with its domains, frames    *)
(* and surfaces; StreamSession knows no more of the video than what is     *)
(* said here, and implements it as well (VideoIsLent in both).             *)
(***************************************************************************)

VARIABLES
    frozen,        \* nothing is lent until the freeze is lifted
    lent           \* "open": an epoch runs; "draining": something of older ones is out

vars == <<frozen, lent>>

Init ==
    /\ frozen = FALSE
    /\ lent = {}

\* Before the next request, and only when everything is back.
Thaw ==
    /\ lent = {}
    /\ frozen' = FALSE
    /\ UNCHANGED lent

\* At any time, by whoever stops the stream.
Freeze ==
    /\ frozen' = TRUE
    /\ UNCHANGED lent

Start ==
    /\ ~frozen /\ "open" \notin lent
    /\ lent' = lent \union {"open"}
    /\ UNCHANGED frozen

\* The epoch is over; what it had may be out for longer.
End ==
    /\ "open" \in lent
    /\ lent' \in {lent \ {"open"}, {"draining"}}
    /\ UNCHANGED frozen

\* The last of it is returned.
Return ==
    /\ "draining" \in lent
    /\ lent' = lent \ {"draining"}
    /\ UNCHANGED frozen

Next == Thaw \/ Freeze \/ Start \/ End \/ Return

Spec == Init /\ [][Next]_vars
=============================================================================
