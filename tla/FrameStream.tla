----------------------------- MODULE FrameStream -----------------------------
(***************************************************************************)
(* What framing promises to the two ends of a TCP connection: packets are  *)
(* handed over whole, once and in the order they were sent, each without   *)
(* waiting for anything to be sent after it, and the end of the stream is  *)
(* seen only when everything sent before it has been handed over.  A packet *)
(* that is not acceptable ends the stream when its turn comes.              *)
(***************************************************************************)
EXTENDS Naturals, Sequences

CONSTANTS Packets, Acceptable, MaxPackets

VARIABLES
    sent,       \* packets the sending end has framed and written
    handed,     \* packets the receiving end has handed on
    end         \* "open", "ended" (end-of-stream seen) or "refused"

vars == <<sent, handed, end>>

Init == sent = <<>> /\ handed = <<>> /\ end = "open"

Send ==
    /\ Len(sent) < MaxPackets
    /\ \E p \in Packets : sent' = Append(sent, p)
    /\ UNCHANGED <<handed, end>>

NextInTurn == sent[Len(handed) + 1]

HandOver ==
    /\ end = "open" /\ Len(handed) < Len(sent) /\ NextInTurn \in Acceptable
    /\ handed' = Append(handed, NextInTurn)
    /\ UNCHANGED <<sent, end>>

Refuse ==
    /\ end = "open" /\ Len(handed) < Len(sent) /\ NextInTurn \notin Acceptable
    /\ end' = "refused"
    /\ UNCHANGED <<sent, handed>>

End ==
    /\ end = "open" /\ handed = sent
    /\ end' = "ended"
    /\ UNCHANGED <<sent, handed>>

Next == Send \/ HandOver \/ Refuse \/ End

Spec == Init /\ [][Next]_vars /\ WF_vars(HandOver \/ Refuse)
=============================================================================
