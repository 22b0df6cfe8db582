----------------------------- MODULE ByteStream -----------------------------
(***************************************************************************)
(* What openkal.kit.channel promises the two ends: a bounded stream of     *)
(* bytes.  A byte is named by its place in what the writer's calls carry,  *)
(* so that a byte lost, repeated, invented or out of order shows up as the *)
(* wrong number at the reader.                                             *)
(***************************************************************************)
EXTENDS Integers, Sequences

CONSTANT Capacity       (* the most bytes the channel holds                *)

VARIABLES accepted,     (* how many bytes the writer's calls have put in   *)
          got,          (* the bytes the reader's calls have been given    *)
          shut,         (* an end has been closed                          *)
          ended         (* the reader has been told of end of input        *)

streamVars == <<accepted, got, shut, ended>>

StreamInit == /\ accepted = 0
              /\ got = <<>>
              /\ shut = FALSE
              /\ ended = FALSE

(* A write hands over n bytes at once, when there is room for them.        *)
Accept(n) == /\ n > 0
             /\ accepted + n - Len(got) <= Capacity
             /\ accepted' = accepted + n
             /\ UNCHANGED <<got, shut, ended>>

(* A read is given the next byte, which is one that was written.           *)
Deliver == /\ Len(got) < accepted
           /\ got' = Append(got, Len(got))
           /\ UNCHANGED <<accepted, shut, ended>>

Shut == /\ shut' = TRUE
        /\ UNCHANGED <<accepted, got, ended>>

(* End of input is reported only when an end has been closed.              *)
Finish == /\ shut
          /\ ended' = TRUE
          /\ UNCHANGED <<accepted, got, shut>>

StreamNext == \/ \E n \in 1..Capacity : Accept(n)
              \/ Deliver
              \/ Shut
              \/ Finish

StreamSpec == StreamInit /\ [][StreamNext]_streamVars

=============================================================================
