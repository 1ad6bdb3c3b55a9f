--------------------------- MODULE MessageChannel --------------------------
(***************************************************************************)
(* What an RTMP connection promises its users, whatever the chunking: the  *)
(* messages arrive entire, once, in the order they were sent, with their   *)
(* timestamps as Stamp leaves them.  A peer that interleaves messages of   *)
(* several chunk streams is promised it of each stream only: PeerLink.     *)
(***************************************************************************)
EXTENDS Naturals, Sequences

CONSTANTS Messages,  \* the messages that may be sent
          Stamp(_)   \* the message as the receiver gets it

VARIABLES sent, delivered  \* the messages so far

vars == <<sent, delivered>>

Init == sent = <<>> /\ delivered = <<>>

Send == /\ \E m \in Messages : sent' = Append(sent, m)
        /\ UNCHANGED delivered

Deliver ==
    /\ Len(delivered) < Len(sent)
    /\ delivered' = Append(delivered, Stamp(sent[Len(delivered) + 1]))
    /\ UNCHANGED sent

Next == Send \/ Deliver

Safety == Init /\ [][Next]_vars

Spec == Safety /\ WF_vars(Deliver)
=============================================================================
