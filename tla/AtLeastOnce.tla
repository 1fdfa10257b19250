----------------------------- MODULE AtLeastOnce -----------------------------
(***************************************************************************)
(* What the durable queue of internal/store/queue.go promises its users    *)
(* ("at-least-once : enqueue -> lease -> ack ou nack", queue.go:11-14),    *)
(* without clocks, leases, backoffs or restarts:                           *)
(*   - a message is put once, under a fresh id, and keeps its payload;     *)
(*   - while it is pending it may be handed out any number of times;       *)
(*   - it leaves only by an acknowledgement of a hand-out, or because      *)
(*     MaxAttempts hand-outs were given back.                              *)
(***************************************************************************)
EXTENDS Naturals, FiniteSets

CONSTANTS Payload,      \* what producers enqueue
          MaxAttempts   \* 0: retried for ever

VARIABLE msgs           \* 1..n -> what became of the n messages put so far

Statuses == {"pending", "acked", "dropped"}

Message(payload, handed, status) ==
    [payload |-> payload, handed |-> handed, status |-> status]

Init == msgs = [i \in {} |-> 0]

Put(p) ==
    LET id == Cardinality(DOMAIN msgs) + 1
    IN  msgs' = [i \in DOMAIN msgs \cup {id} |->
                   IF i = id THEN Message(p, 0, "pending") ELSE msgs[i]]

Pending == {i \in DOMAIN msgs : msgs[i].status = "pending"}

Hand(ids) ==
    msgs' = [i \in DOMAIN msgs |->
               IF i \in ids THEN Message(msgs[i].payload, msgs[i].handed + 1, "pending")
                            ELSE msgs[i]]

Settle(id) ==
    /\ msgs[id].handed > 0
    /\ msgs' = [msgs EXCEPT ![id] = Message(@.payload, @.handed, "acked")]

Discard(id) ==
    /\ MaxAttempts > 0
    /\ msgs[id].handed >= MaxAttempts
    /\ msgs' = [msgs EXCEPT ![id] = Message(@.payload, @.handed, "dropped")]

Next ==
    \/ \E p \in Payload : Put(p)
    \/ \E ids \in SUBSET Pending : Hand(ids)
    \/ \E id \in Pending : Settle(id) \/ Discard(id)

Spec == Init /\ [][Next]_msgs
=============================================================================
