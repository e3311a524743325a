----------------------------- MODULE ClientPool -----------------------------
(***************************************************************************)
(* What the PSC server promises its clients: a fixed number of seats.  A   *)
(* connection is seated while a seat is free, is turned away only when     *)
(* every seat is taken, keeps its seat until it leaves, and never shares   *)
(* it.  A connection may also be lost by the network before it is seated.  *)
(* PscServer is shown to implement this specification.                     *)
(***************************************************************************)
EXTENDS Naturals

CONSTANTS
    Conns,      \* the connections clients ever make
    Seats,      \* the client slots of the server
    NOSEAT      \* the seat of a connection that has none

VARIABLES
    status,     \* status[c]: how far connection c has come
    seat        \* seat[c]: the seat c holds

vars == <<status, seat>>

Status == {"waiting", "served", "left", "refused", "lost"}

PoolTypeOK == /\ status \in [Conns -> Status]
              /\ seat \in [Conns -> Seats \cup {NOSEAT}]

Init == /\ status = [c \in Conns |-> "waiting"]
        /\ seat = [c \in Conns |-> NOSEAT]

Taken == {seat[c] : c \in {d \in Conns : status[d] = "served"}}

Admit(c, s) == /\ status[c] = "waiting"
               /\ s \notin Taken
               /\ status' = [status EXCEPT ![c] = "served"]
               /\ seat' = [seat EXCEPT ![c] = s]

\* A client is turned away only when no seat is free.
Refuse(c) == /\ status[c] = "waiting"
             /\ Seats \subseteq Taken
             /\ status' = [status EXCEPT ![c] = "refused"]
             /\ UNCHANGED seat

Lose(c) == /\ status[c] = "waiting"
           /\ status' = [status EXCEPT ![c] = "lost"]
           /\ UNCHANGED seat

Leave(c) == /\ status[c] = "served"
            /\ status' = [status EXCEPT ![c] = "left"]
            /\ seat' = [seat EXCEPT ![c] = NOSEAT]

Next == \E c \in Conns : \/ \E s \in Seats : Admit(c, s)
                         \/ Refuse(c)
                         \/ Lose(c)
                         \/ Leave(c)

Spec == Init /\ [][Next]_vars
=============================================================================
