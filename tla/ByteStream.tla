---------------------------- MODULE ByteStream ----------------------------
(***************************************************************************)
(* What a pipe promises: the bytes that the readers get are those that the *)
(* writers put in, each once and in that order, and at most Capacity of    *)
(* them are under way.                                                     *)
(***************************************************************************)
EXTENDS Naturals, Sequences

CONSTANTS Proc, Payload, Capacity

VARIABLES queue,  \* bytes written and not yet read
          todo,   \* per process: bytes its write call has still to write
          got     \* per process: bytes its read call has read

vars == <<queue, todo, got>>

Init == /\ queue = <<>>
        /\ todo = [p \in Proc |-> <<>>]
        /\ got = [p \in Proc |-> <<>>]

\* A write call begins, or gives up.
Offer(p, s) == /\ todo' = [todo EXCEPT ![p] = s]
               /\ UNCHANGED <<queue, got>>

Send(p) == /\ todo[p] # <<>> /\ Len(queue) < Capacity
           /\ queue' = Append(queue, Head(todo[p]))
           /\ todo' = [todo EXCEPT ![p] = Tail(@)]
           /\ UNCHANGED got

\* A read call begins.
Reset(p) == /\ got' = [got EXCEPT ![p] = <<>>]
            /\ UNCHANGED <<queue, todo>>

Receive(p) == /\ queue # <<>>
              /\ got' = [got EXCEPT ![p] = Append(@, Head(queue))]
              /\ queue' = Tail(queue)
              /\ UNCHANGED todo

Next == \E p \in Proc :
          \/ Send(p) \/ Receive(p) \/ Reset(p)
          \/ \E s \in Payload \cup {<<>>} : Offer(p, s)

Spec == Init /\ [][Next]_vars
=============================================================================
