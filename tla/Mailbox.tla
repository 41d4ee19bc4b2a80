-------------------------------- MODULE Mailbox --------------------------------
(***************************************************************************)
(* What the durable transport promises about one directed stream of        *)
(* envelopes, whatever crashes, reconnects and retransmissions happen on   *)
(* the way.  An envelope that was accepted for sending is held until the   *)
(* receiver has it; it may be given up only once its exp has passed; and   *)
(* the receiver decides it at most once.                                   *)
(***************************************************************************)
EXTENDS Naturals

CONSTANT Msg

VARIABLES
  box,    \* what has become of each envelope
  late    \* the envelopes whose exp has passed

boxVars == <<box, late>>

Init ==
  /\ box = [m \in Msg |-> "absent"]
  /\ late = {}

Accept(m) ==
  /\ box[m] \in {"absent", "expired"}
  /\ box' = [box EXCEPT ![m] = "held"]
  /\ UNCHANGED late

\* A frame that was on its way when the envelope expired may still arrive.
Deliver(m) ==
  /\ box[m] \in {"held", "expired"}
  /\ box' = [box EXCEPT ![m] = "delivered"]
  /\ UNCHANGED late

Decide(m) ==
  /\ box[m] = "delivered"
  /\ box' = [box EXCEPT ![m] = "decided"]
  /\ UNCHANGED late

Pass(m) ==
  /\ m \notin late
  /\ late' = late \union {m}
  /\ UNCHANGED box

\* One sweep of a store gives up several envelopes, and only late ones.
Expire ==
  /\ \E S \in SUBSET {m \in Msg : box[m] = "held" /\ m \in late} :
       box' = [m \in Msg |-> IF m \in S THEN "expired" ELSE box[m]]
  /\ UNCHANGED late

Next ==
  \/ Expire
  \/ \E m \in Msg : Accept(m) \/ Deliver(m) \/ Decide(m) \/ Pass(m)

Spec == Init /\ [][Next]_boxVars
================================================================================
