----------------------------- MODULE BlockStream ----------------------------
(***************************************************************************)
(* What the IQ server promises to those who listen (README.md:52: they     *)
(* "receive the very same IQ stream"; internal/rtltcp/server.go:87): who   *)
(* joins a running stream hears it from the next block on, block after     *)
(* block, for as long as he is served.  IQServer implements it.            *)
(***************************************************************************)
EXTENDS Naturals, Sequences

CONSTANT Conn

VARIABLES
    stream,     \* blocks that went by
    state,      \* of a listener: "new", "served", "gone"
    joined,     \* the last block before he joined
    heard       \* what he was sent

vars == <<stream, state, joined, heard>>

Blocks(after, n) == [i \in 1..n |-> after + i]

Init ==
    /\ stream = 0 /\ state = [c \in Conn |-> "new"]
    /\ joined = [c \in Conn |-> 0] /\ heard = [c \in Conn |-> <<>>]

Block == stream' = stream + 1 /\ UNCHANGED <<state, joined, heard>>

Join(c) ==
    /\ state[c] = "new" /\ state' = [state EXCEPT ![c] = "served"]
    /\ joined' = [joined EXCEPT ![c] = stream]
    /\ UNCHANGED <<stream, heard>>

Refuse(c) ==
    /\ state[c] = "new" /\ state' = [state EXCEPT ![c] = "gone"]
    /\ UNCHANGED <<stream, joined, heard>>

\* The blocks that follow what he has heard; perhaps his last.
Deliver(c) ==
    /\ state[c] = "served"
    /\ state' \in {state, [state EXCEPT ![c] = "gone"]}
    /\ \E upTo \in joined[c]..stream :
          /\ upTo >= joined[c] + Len(heard[c])
          /\ heard' = [heard EXCEPT ![c] = Blocks(joined[c], upTo - joined[c])]
    /\ UNCHANGED <<stream, joined>>

Next == Block \/ \E c \in Conn : Join(c) \/ Refuse(c) \/ Deliver(c)

Spec == Init /\ [][Next]_vars
=============================================================================
