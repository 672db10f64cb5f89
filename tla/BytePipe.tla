------------------------------ MODULE BytePipe ------------------------------
(***************************************************************************)
(* What a handler may rely on when it writes to a stream (stream.h:85-96): *)
(* one write at a time, whose bytes reach the peer in order and once, all  *)
(* of them unless the write fails or was given several buffers, in which   *)
(* case the rest may be left out after some of them were delivered.        *)
(***************************************************************************)
EXTENDS Integers, Sequences

VARIABLES
    delivered,   \* everything the peer will receive, in order
    asked,       \* what the write in progress has still to deliver
    several      \* was that write given several buffers?

Init == delivered = <<>> /\ asked = <<>> /\ several = FALSE

Write ==
    /\ asked = <<>> /\ asked' # <<>>
    /\ several' \in BOOLEAN
    /\ UNCHANGED delivered

Deliver ==
    /\ \E k \in 1..Len(asked) :
          /\ delivered' = delivered \o SubSeq(asked, 1, k)
          /\ \/ asked' = SubSeq(asked, k + 1, Len(asked))
             \/ several /\ asked' = <<>>
    /\ UNCHANGED several

Fail == asked # <<>> /\ asked' = <<>> /\ UNCHANGED <<delivered, several>>

Next == Write \/ Deliver \/ Fail

Spec == Init /\ [][Next]_<<delivered, asked, several>>
=============================================================================
