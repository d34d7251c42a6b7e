----------------------------- MODULE MCDelivery -----------------------------
(* Instances of Delivery for TLC: which messages are sent, in which order, *)
(* and what happens to them.                                               *)
EXTENDS Delivery, TLC

One(k, e) == [kinds |-> <<k, "none">>, events |-> e]
Two(j, k, e) == [kinds |-> <<j, k>>, events |-> e]

Mixed == {One("notice", {"ack", "retry", "crash", "launch fails"}),
          One("task", {"ack", "crash", "launch fails"}),
          One("order", {"ack", "crash", "launch fails", "step ends"}),
          Two("order", "notice", {}), Two("notice", "task", {})}
=============================================================================
