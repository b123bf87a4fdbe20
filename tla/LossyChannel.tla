---------------------------- MODULE LossyChannel ----------------------------
(***************************************************************************)
(* What the path from the probes to the detection engine promises, as one  *)
(* channel: events come out in the order in which they went in, none       *)
(* twice; one that does not come out was counted as refused or as          *)
(* discarded, or is still inside, behind everything that came out.         *)
(***************************************************************************)
EXTENDS Integers, Sequences, SequencesExt

VARIABLES
    pipe,       \* events inside, oldest first
    delivered,  \* events that came out, in order
    refused,    \* events turned away at the entrance, counted
    discarded   \* events given up inside, counted or logged

chanVars == <<pipe, delivered, refused, discarded>>

Init ==
    /\ pipe = <<>> /\ delivered = <<>>
    /\ refused = 0 /\ discarded = 0

\* An event goes in at the end; it is not one that is inside or came out.
Accept ==
    /\ Len(pipe') = Len(pipe) + 1 /\ Front(pipe') = pipe
    /\ ~Contains(pipe, Last(pipe')) /\ ~Contains(delivered, Last(pipe'))
    /\ UNCHANGED <<delivered, refused, discarded>>

Refuse ==
    /\ refused' = refused + 1
    /\ UNCHANGED <<pipe, delivered, discarded>>

\* The oldest event comes out.
Deliver ==
    /\ pipe # <<>>
    /\ pipe' = Tail(pipe)
    /\ delivered' = Append(delivered, Head(pipe))
    /\ UNCHANGED <<refused, discarded>>

\* One event is given up, and that is counted.
Discard ==
    /\ \E i \in 1..Len(pipe) : pipe' = RemoveAt(pipe, i)
    /\ discarded' = discarded + 1
    /\ UNCHANGED <<delivered, refused>>

Next == Accept \/ Refuse \/ Deliver \/ Discard

Spec == Init /\ [][Next]_chanVars
=============================================================================
