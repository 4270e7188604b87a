----------------------------- MODULE MsgChannel -----------------------------
(***************************************************************************)
(* What a virtual call promises its two applications (the trait Vc of      *)
(* libxotpad/src/x25/vc.rs): each gets the messages the other sent, whole, *)
(* once each and in order.  Nothing is promised about when, or about the   *)
(* messages under way when the call ends.                                  *)
(***************************************************************************)
EXTENDS Sequences, Naturals

CONSTANT Message

VARIABLES sent, received

Ends == {"a", "b"}
Other(e) == IF e = "a" THEN "b" ELSE "a"

Init == /\ sent = [e \in Ends |-> <<>>]
        /\ received = [e \in Ends |-> <<>>]

Send(e, m) == /\ sent' = [sent EXCEPT ![e] = Append(@, m)]
              /\ UNCHANGED received

Deliver(e) ==
    /\ Len(received[e]) < Len(sent[Other(e)])
    /\ received' = [received EXCEPT
                       ![e] = Append(@, sent[Other(e)][Len(received[e]) + 1])]
    /\ UNCHANGED sent

Next == \E e \in Ends : (\E m \in Message : Send(e, m)) \/ Deliver(e)

Spec == Init /\ [][Next]_<<sent, received>>
=============================================================================
