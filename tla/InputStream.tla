------------------------------ MODULE InputStream ------------------------------
(***************************************************************************)
(* What the input writer promises a pane: the child receives the accepted  *)
(* batches whole, in the order they were accepted, with none missing in    *)
(* between; the stream ends either cleanly, with all of it delivered, or   *)
(* broken, after which nothing more arrives.                               *)
(***************************************************************************)
EXTENDS Integers, Sequences

CONSTANT Item           \* what a batch may be

VARIABLES accepted,     \* the batches taken, in order
          delivered,    \* the batches the child has received
          end           \* "open", "eof" or "broken"

svars == <<accepted, delivered, end>>

Init == accepted = <<>> /\ delivered = <<>> /\ end = "open"

(* One more batch, any Item (stated on its last element, so that Item may
   be infinite). *)
Accept == /\ end # "eof"
          /\ Len(accepted') = Len(accepted) + 1
          /\ accepted'[Len(accepted')] \in Item
          /\ accepted' = Append(accepted, accepted'[Len(accepted')])
          /\ UNCHANGED <<delivered, end>>

Deliver == /\ end = "open"
           /\ Len(delivered) < Len(accepted)
           /\ delivered' = Append(delivered, accepted[Len(delivered) + 1])
           /\ UNCHANGED <<accepted, end>>

Break == end = "open" /\ end' = "broken" /\ UNCHANGED <<accepted, delivered>>

Finish == /\ end = "open"
          /\ delivered = accepted
          /\ end' = "eof"
          /\ UNCHANGED <<accepted, delivered>>

Next == Accept \/ Deliver \/ Break \/ Finish

Spec == Init /\ [][Next]_svars
=============================================================================
