----------------------------- MODULE LossyQueue -----------------------------
(***************************************************************************)
(* What a link to a gateway promises to those who queue messages on it.    *)
(* Messages are numbered as they are accepted.  They leave in that order,  *)
(* each at most once; when a connection breaks, the oldest ones may be     *)
(* lost; a message that is refused is lost by itself, wherever it is; when *)
(* the link closes, so is whatever is still queued.                        *)
(***************************************************************************)
EXTENDS Naturals, Sequences

VARIABLES accepted, queue, delivered, closed

vars == <<accepted, queue, delivered, closed>>

Init ==
    /\ accepted = 0
    /\ queue = <<>>
    /\ delivered = <<>>
    /\ closed = FALSE

Accept ==
    /\ ~closed
    /\ accepted' = accepted + 1
    /\ queue' = Append(queue, accepted')
    /\ UNCHANGED <<delivered, closed>>

Deliver ==
    /\ ~closed
    /\ queue # <<>>
    /\ queue' = Tail(queue)
    /\ delivered' = Append(delivered, Head(queue))
    /\ UNCHANGED <<accepted, closed>>

Lose ==
    /\ ~closed
    /\ \E n \in 1 .. Len(queue) : queue' = SubSeq(queue, n + 1, Len(queue))
    /\ UNCHANGED <<accepted, delivered, closed>>

Refuse ==
    /\ ~closed
    /\ \E i \in 1 .. Len(queue) :
          queue' = SubSeq(queue, 1, i - 1) \o SubSeq(queue, i + 1, Len(queue))
    /\ UNCHANGED <<accepted, delivered, closed>>

Close ==
    /\ ~closed
    /\ closed' = TRUE
    /\ queue' = <<>>
    /\ UNCHANGED <<accepted, delivered>>

Next == Accept \/ Deliver \/ Lose \/ Refuse \/ Close

Spec == Init /\ [][Next]_vars

\* Messages reach the gateway in the order of the calls that queued them, and
\* none reaches it twice, whatever was lost in between.
DeliveredInOrder ==
    \A i, j \in DOMAIN delivered : i < j => delivered[i] < delivered[j]
=============================================================================
