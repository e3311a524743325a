----------------------------- MODULE PscServer ------------------------------
(***************************************************************************)
(* The PSC server of listener.c: the accept loop of psc_run, one           *)
(* handle_client thread per admitted connection, and the threads that      *)
(* broadcast with psc_send (lstats, wvfmdata).  They share the client      *)
(* table (clients_used, clients[i].sock), the mutex sendguard, and lwIP's  *)
(* table of socket numbers.                                                *)
(*                                                                         *)
(* Socket numbers are reused: accept hands out the lowest free one, so a   *)
(* number kept in a local variable after the socket was closed may name    *)
(* another client's connection.  The listening socket is the first one the *)
(* program opens, and its number is 0.                                     *)
(***************************************************************************)
EXTENDS Integers

CONSTANTS
    Conns,          \* connections clients make; c also names c's handler thread
    Broadcasters,   \* threads that call psc_send
    N,              \* PSC_MAX_CLIENTS
    MaxFd,          \* the largest socket number of lwIP's table
    LISTEN,         \* the listening socket's entry in the table
    NONE            \* a free entry; nobody

Slots == 0 .. N - 1
Fds == 0 .. MaxFd
Senders == Conns \cup Broadcasters

ASSUME SizeAssumption == N \in Nat \ {0} /\ MaxFd \in Nat \ {0}
ASSUME NameAssumption == /\ NONE \notin Senders /\ LISTEN \notin Conns
                         /\ LISTEN # NONE
                         /\ Conns \cap Broadcasters = {}

VARIABLES
    fdtab,          \* lwIP's socket table: what each number is open on
    clients_used,   \* psc_key::clients_used, as the set of its bits
    sock,           \* sock[i]: psc_key::clients[i].sock
    lock,           \* the holder of psc_key::sendguard
    apc,            \* program counter of psc_run's loop
    aconn,          \* the connection the loop has accepted
    client,         \* the loop's local variable client
    phase,          \* phase[c]: how far c, then its handle_client, has come
    slot,           \* slot[c]: the argument C of c's handle_client
    hsock,          \* hsock[c]: handle_client's local variable sock
    waitOn,         \* waitOn[c]: the connection c's blocked recv() is on
    rxfrom,         \* rxfrom[c]: whose message c's handler is handling
    spc,            \* spc[t]: program counter of t in psc_send(_one)
    idx,            \* idx[t]: psc_send's loop variable
    sfd,            \* sfd[t]: the argument sock of psc_sendmsg
    wire            \* wire[c]: whose message is incomplete on connection c

tables    == <<fdtab, clients_used, sock, lock>>
acceptor  == <<apc, aconn, client>>
handlers  == <<phase, slot, hsock, waitOn, rxfrom>>
senders   == <<spc, idx, sfd, wire>>
vars == <<tables, acceptor, handlers, senders>>

Phases == {"new", "lost", "accepted", "refused", "admitted", "start", "conn",
           "recv", "wait", "handle", "free", "close", "dead"}

\* The phases in which c has a slot of the client table.
Seated == {"admitted", "start", "conn", "recv", "wait", "handle", "free"}

Init ==
    /\ fdtab = [f \in Fds |-> IF f = 0 THEN LISTEN ELSE NONE]
    /\ clients_used = {}
    /\ sock = [i \in Slots |-> 0]
    /\ lock = NONE
    /\ apc = "accept"
    /\ aconn = NONE
    /\ client = -1
    /\ phase = [c \in Conns |-> "new"]
    /\ slot = [c \in Conns |-> 0]
    /\ hsock = [c \in Conns |-> -1]
    /\ waitOn = [c \in Conns |-> NONE]
    /\ rxfrom = [c \in Conns |-> NONE]
    /\ spc = [t \in Senders |-> "idle"]
    /\ idx = [t \in Senders |-> 0]
    /\ sfd = [t \in Senders |-> -1]
    /\ wire = [c \in Conns |-> NONE]

\* The smallest number in S, if there is one.
Lowest(S) == {x \in S : \A y \in S : x =< y}

-----------------------------------------------------------------------------
(* lwIP's socket calls, as listener.c uses them. *)

FreeFds == {f \in Fds : fdtab[f] = NONE}

\* What a socket number is open on; -1 and free numbers are open on nothing.
OpenOn(f) == IF f = -1 THEN NONE ELSE fdtab[f]

IsOpen(c) == \E f \in Fds : fdtab[f] = c

\* The table after close(f); close(-1) fails and changes nothing.
Closed(f) == IF f = -1 THEN fdtab ELSE [fdtab EXCEPT ![f] = NONE]

-----------------------------------------------------------------------------
(* psc_run: the accept loop. *)

Accept(c) ==
    /\ apc = "accept"
    /\ fdtab[0] = LISTEN
    /\ phase[c] = "new"
    /\ \E f \in Lowest(FreeFds) : /\ client' = f
                                  /\ fdtab' = [fdtab EXCEPT ![f] = c]
    /\ aconn' = c
    /\ phase' = [phase EXCEPT ![c] = "accepted"]
    /\ apc' = "alloc"
    /\ UNCHANGED <<clients_used, sock, lock, slot, hsock, waitOn, rxfrom, senders>>

\* accept() returns -1: no socket number is left or the peer gave up, and the
\* connection is lost.  The loop sleeps a second and calls accept() again; with
\* the listening socket closed it does that for ever.
AcceptError ==
    /\ apc = "accept"
    /\ \E c \in Conns : /\ phase[c] = "new"
                        /\ phase' = [phase EXCEPT ![c] = "lost"]
    /\ UNCHANGED <<tables, acceptor, slot, hsock, waitOn, rxfrom, senders>>

\* Mutant: the loop of psc_client_alloc runs one slot too far (i <= N).
ClientAllocPastEnd ==
    /\ apc = "alloc"
    /\ lock = NONE
    /\ \E i \in Lowest((0 .. N) \ clients_used) :
        /\ clients_used' = clients_used \cup {i}
        /\ sock' = [sock EXCEPT ![i] = 0]
        /\ slot' = [slot EXCEPT ![aconn] = i]
    /\ phase' = [phase EXCEPT ![aconn] = "admitted"]
    /\ apc' = "spawn"
    /\ UNCHANGED <<fdtab, lock, aconn, client, hsock, waitOn, rxfrom, senders>>

\* psc_client_alloc succeeds: the critical section sets the lowest clear bit
\* and clears the slot, its sock included.
ClientAlloc ==
    /\ apc = "alloc"
    /\ lock = NONE
    /\ \E i \in Lowest(Slots \ clients_used) :
        /\ clients_used' = clients_used \cup {i}
        /\ sock' = [sock EXCEPT ![i] = 0]
        /\ slot' = [slot EXCEPT ![aconn] = i]
    /\ phase' = [phase EXCEPT ![aconn] = "admitted"]
    /\ apc' = "spawn"
    /\ UNCHANGED <<fdtab, lock, aconn, client, hsock, waitOn, rxfrom, senders>>

\* Mutant: psc_client_alloc gives up while a slot is free.
ClientAllocFullEarly ==
    /\ apc = "alloc"
    /\ lock = NONE
    /\ phase' = [phase EXCEPT ![aconn] = "refused"]
    /\ apc' = "drop"
    /\ UNCHANGED <<tables, aconn, client, slot, hsock, waitOn, rxfrom, senders>>

\* psc_client_alloc returns NULL.
ClientAllocFull ==
    /\ apc = "alloc"
    /\ lock = NONE
    /\ Slots \subseteq clients_used
    /\ phase' = [phase EXCEPT ![aconn] = "refused"]
    /\ apc' = "drop"
    /\ UNCHANGED <<tables, aconn, client, slot, hsock, waitOn, rxfrom, senders>>

\* Mutant: the refused client's socket is not closed.
DropClientNoClose ==
    /\ apc = "drop"
    /\ apc' = "accept" /\ aconn' = NONE /\ client' = -1
    /\ UNCHANGED <<tables, handlers, senders>>

\* "Dropping client": close() without the mutex.
DropClient ==
    /\ apc = "drop"
    /\ fdtab' = Closed(client)
    /\ apc' = "accept" /\ aconn' = NONE /\ client' = -1
    /\ UNCHANGED <<clients_used, sock, lock, handlers, senders>>

\* C->sock = client without the mutex, and sys_thread_new.
SpawnHandler ==
    /\ apc = "spawn"
    /\ sock' = [sock EXCEPT ![slot[aconn]] = client]
    /\ phase' = [phase EXCEPT ![aconn] = "start"]
    /\ apc' = "accept" /\ aconn' = NONE /\ client' = -1
    /\ UNCHANGED <<fdtab, clients_used, lock, slot, hsock, waitOn, rxfrom, senders>>

Acceptor == \/ \E c \in Conns : Accept(c)
            \/ AcceptError
            \/ ClientAlloc \/ ClientAllocFull
            \/ DropClient \/ SpawnHandler

-----------------------------------------------------------------------------
(* handle_client. *)

\* int sock = C->sock, then the PSC_CONN callback (client_event, below).
HandlerStart(c) ==
    /\ phase[c] = "start"
    /\ hsock' = [hsock EXCEPT ![c] = sock[slot[c]]]
    /\ phase' = [phase EXCEPT ![c] = "conn"]
    /\ UNCHANGED <<tables, acceptor, slot, waitOn, rxfrom, senders>>

\* Mutant: every handler receives from the socket of the first slot.
RecvCallFirst(c) ==
    /\ phase[c] = "recv"
    /\ waitOn' = [waitOn EXCEPT ![c] = OpenOn(sock[0])]
    /\ phase' = [phase EXCEPT ![c] = "wait"]
    /\ UNCHANGED <<tables, acceptor, slot, hsock, rxfrom, senders>>

\* psc_recvmsg looks the number up, then blocks on what it is open on.
RecvCall(c) ==
    /\ phase[c] = "recv"
    /\ waitOn' = [waitOn EXCEPT ![c] = OpenOn(hsock[c])]
    /\ phase' = [phase EXCEPT ![c] = "wait"]
    /\ UNCHANGED <<tables, acceptor, slot, hsock, rxfrom, senders>>

\* A whole message has arrived; the recv callback (client_msg) runs.
RecvMsg(c) ==
    /\ phase[c] = "wait"
    /\ waitOn[c] \in Conns
    /\ IsOpen(waitOn[c])
    /\ rxfrom' = [rxfrom EXCEPT ![c] = waitOn[c]]
    /\ waitOn' = [waitOn EXCEPT ![c] = NONE]
    /\ phase' = [phase EXCEPT ![c] = "handle"]
    /\ UNCHANGED <<tables, acceptor, slot, hsock, senders>>

Handled(c) ==
    /\ phase[c] = "handle"
    /\ rxfrom' = [rxfrom EXCEPT ![c] = NONE]
    /\ phase' = [phase EXCEPT ![c] = "recv"]
    /\ UNCHANGED <<tables, acceptor, slot, hsock, waitOn, senders>>

\* psc_recvmsg fails: the socket is closed, the peer is gone, nothing came for
\* 5 s (SO_RCVTIMEO) or the header is bad.  PSC_DIS does nothing here.
RecvError(c) ==
    /\ phase[c] = "wait"
    /\ waitOn' = [waitOn EXCEPT ![c] = NONE]
    /\ phase' = [phase EXCEPT ![c] = "free"]
    /\ UNCHANGED <<tables, acceptor, slot, hsock, rxfrom, senders>>

\* Mutant: psc_client_free returns with the mutex locked.
ClientFreeKeepsLock(c) ==
    /\ phase[c] = "free"
    /\ lock = NONE
    /\ clients_used' = clients_used \ {slot[c]}
    /\ sock' = [sock EXCEPT ![slot[c]] = 0]
    /\ slot' = [slot EXCEPT ![c] = 0]
    /\ phase' = [phase EXCEPT ![c] = "close"]
    /\ lock' = c
    /\ UNCHANGED <<fdtab, acceptor, hsock, waitOn, rxfrom, senders>>

\* psc_client_free.
ClientFree(c) ==
    /\ phase[c] = "free"
    /\ lock = NONE
    /\ clients_used' = clients_used \ {slot[c]}
    /\ sock' = [sock EXCEPT ![slot[c]] = 0]
    /\ slot' = [slot EXCEPT ![c] = 0]
    /\ phase' = [phase EXCEPT ![c] = "close"]
    /\ UNCHANGED <<fdtab, lock, acceptor, hsock, waitOn, rxfrom, senders>>

\* close(sock) of the local copy, under the mutex; the thread ends.
HandlerClose(c) ==
    /\ phase[c] = "close"
    /\ lock = NONE
    /\ fdtab' = Closed(hsock[c])
    /\ hsock' = [hsock EXCEPT ![c] = -1]
    /\ phase' = [phase EXCEPT ![c] = "dead"]
    /\ UNCHANGED <<clients_used, sock, lock, acceptor, slot, waitOn, rxfrom, senders>>

RecvReturn(c) == RecvMsg(c) \/ RecvError(c)

-----------------------------------------------------------------------------
(* psc_send and psc_send_one.  One step per access to what the threads     *)
(* share: the client table, and each send() or close().                    *)

\* psc_send stops after the last slot, psc_send_one after its only one.
Last(t) == IF t \in Broadcasters THEN N ELSE slot[t] + 1

\* Mutant: psc_send does not wait for the mutex.
SendNoLock(t) ==
    /\ spc[t] = "idle"
    /\ t \in Conns => phase[t] = "conn"
    /\ lock' = t
    /\ idx' = [idx EXCEPT ![t] = IF t \in Broadcasters THEN 0 ELSE slot[t]]
    /\ spc' = [spc EXCEPT ![t] = "pick"]
    /\ UNCHANGED <<fdtab, clients_used, sock, acceptor, handlers, sfd, wire>>

\* A broadcaster calls psc_send whenever it likes; a handler calls
\* psc_send_one once, from client_event(PSC_CONN).
SendLock(t) ==
    /\ spc[t] = "idle"
    /\ t \in Conns => phase[t] = "conn"
    /\ lock = NONE
    /\ lock' = t
    /\ idx' = [idx EXCEPT ![t] = IF t \in Broadcasters THEN 0 ELSE slot[t]]
    /\ spc' = [spc EXCEPT ![t] = "pick"]
    /\ UNCHANGED <<fdtab, clients_used, sock, acceptor, handlers, sfd, wire>>

\* Whether psc_send passes over slot i: psc_send_one does not test the bit.
Skipped(t, i) == \/ t \in Broadcasters /\ i \notin clients_used
                 \/ sock[i] = -1

SendSkip(t) ==
    /\ spc[t] = "pick"
    /\ idx[t] < Last(t)
    /\ Skipped(t, idx[t])
    /\ idx' = [idx EXCEPT ![t] = @ + 1]
    /\ UNCHANGED <<tables, acceptor, handlers, spc, sfd, wire>>

SendPick(t) ==
    /\ spc[t] = "pick"
    /\ idx[t] < Last(t)
    /\ ~Skipped(t, idx[t])
    /\ sfd' = [sfd EXCEPT ![t] = sock[idx[t]]]
    /\ spc' = [spc EXCEPT ![t] = "head"]
    /\ UNCHANGED <<tables, acceptor, handlers, idx, wire>>

\* psc_sendhead succeeds: only a connection can be sent on.
SendHead(t) ==
    /\ spc[t] = "head"
    /\ fdtab[sfd[t]] \in Conns
    /\ wire' = [wire EXCEPT ![fdtab[sfd[t]]] = t]
    /\ spc' = [spc EXCEPT ![t] = "body"]
    /\ UNCHANGED <<tables, acceptor, handlers, idx, sfd>>

\* psc_sendall of the body succeeds.
SendBody(t) ==
    /\ spc[t] = "body"
    /\ fdtab[sfd[t]] \in Conns
    /\ wire' = [wire EXCEPT ![fdtab[sfd[t]]] = NONE]
    /\ idx' = [idx EXCEPT ![t] = @ + 1]
    /\ spc' = [spc EXCEPT ![t] = "pick"]
    /\ sfd' = [sfd EXCEPT ![t] = -1]
    /\ UNCHANGED <<tables, acceptor, handlers>>

\* send() fails: peer gone, SO_SNDTIMEO, or the number is not a connection's.
SendError(t) ==
    /\ spc[t] \in {"head", "body"}
    /\ spc' = [spc EXCEPT ![t] = "close"]
    /\ sfd' = [sfd EXCEPT ![t] = -1]
    /\ UNCHANGED <<tables, acceptor, handlers, idx, wire>>

\* close(C->sock): C->sock is read again, after psc_sendmsg has returned.
SendClose(t) ==
    /\ spc[t] = "close"
    /\ fdtab' = Closed(sock[idx[t]])
    /\ spc' = [spc EXCEPT ![t] = "mark"]
    /\ UNCHANGED <<clients_used, sock, lock, acceptor, handlers, idx, sfd, wire>>

\* Mutant: the send-error path frees the slot as well.
SendMarkFrees(t) ==
    /\ spc[t] = "mark"
    /\ sock' = [sock EXCEPT ![idx[t]] = -1]
    /\ clients_used' = clients_used \ {idx[t]}
    /\ idx' = [idx EXCEPT ![t] = @ + 1]
    /\ spc' = [spc EXCEPT ![t] = "pick"]
    /\ UNCHANGED <<fdtab, lock, acceptor, handlers, sfd, wire>>

\* Mutant: after an error the loop tries the same client again.
SendMarkRetry(t) ==
    /\ spc[t] = "mark"
    /\ spc' = [spc EXCEPT ![t] = "pick"]
    /\ UNCHANGED <<tables, acceptor, handlers, idx, sfd, wire>>

\* C->sock = -1.
SendMark(t) ==
    /\ spc[t] = "mark"
    /\ sock' = [sock EXCEPT ![idx[t]] = -1]
    /\ idx' = [idx EXCEPT ![t] = @ + 1]
    /\ spc' = [spc EXCEPT ![t] = "pick"]
    /\ UNCHANGED <<fdtab, clients_used, lock, acceptor, handlers, sfd, wire>>

\* Mutant: psc_send returns without sys_mutex_unlock.
SendNoUnlock(t) ==
    /\ spc[t] = "pick"
    /\ idx[t] = Last(t)
    /\ idx' = [idx EXCEPT ![t] = 0]
    /\ spc' = [spc EXCEPT ![t] = "idle"]
    /\ phase' = IF t \in Broadcasters THEN phase ELSE [phase EXCEPT ![t] = "recv"]
    /\ UNCHANGED <<tables, acceptor, slot, hsock, waitOn, rxfrom, sfd, wire>>

SendUnlock(t) ==
    /\ spc[t] = "pick"
    /\ idx[t] = Last(t)
    /\ lock' = NONE
    /\ idx' = [idx EXCEPT ![t] = 0]
    /\ spc' = [spc EXCEPT ![t] = "idle"]
    /\ phase' = IF t \in Broadcasters THEN phase ELSE [phase EXCEPT ![t] = "recv"]
    /\ UNCHANGED <<fdtab, clients_used, sock, acceptor, slot, hsock, waitOn, rxfrom,
                   sfd, wire>>

\* The steps of a thread that is inside psc_send(_one), the mutex held.
Sending(t) == \/ SendSkip(t) \/ SendPick(t)
              \/ SendHead(t) \/ SendBody(t)
              \/ SendError(t) \/ SendClose(t) \/ SendMark(t)
              \/ SendUnlock(t)

Handler(c) == \/ HandlerStart(c) \/ RecvCall(c) \/ RecvReturn(c) \/ Handled(c)
              \/ ClientFree(c) \/ HandlerClose(c)

Next == \/ Acceptor
        \/ \E c \in Conns : Handler(c)
        \/ \E t \in Senders : SendLock(t) \/ Sending(t)

Spec == Init /\ [][Next]_vars

(***************************************************************************)
(* Fairness.  Every thread has the same FreeRTOS priority and the          *)
(* scheduler is round robin, so a thread that can run does.  send() and    *)
(* recv() return within SO_SNDTIMEO and SO_RCVTIMEO.  A thread that waits  *)
(* for sendguard gets it when it is released again and again: the          *)
(* broadcasters sleep between their calls.                                 *)
(***************************************************************************)
Fairness ==
    /\ WF_vars(DropClient) /\ WF_vars(SpawnHandler)
    /\ SF_vars(ClientAlloc \/ ClientAllocFull)
    /\ \A c \in Conns : /\ WF_vars(HandlerStart(c)) /\ WF_vars(RecvCall(c))
                        /\ WF_vars(RecvReturn(c)) /\ WF_vars(Handled(c))
                        /\ SF_vars(ClientFree(c)) /\ SF_vars(HandlerClose(c))
                        /\ SF_vars(SendLock(c))
    /\ \A t \in Senders : WF_vars(Sending(t))

FairSpec == Spec /\ Fairness

-----------------------------------------------------------------------------
(* Properties. *)

\* Every variable of psc_key, of the threads and of lwIP's table has its type.
TypeOK ==
    /\ fdtab \in [Fds -> Conns \cup {LISTEN, NONE}]
    /\ clients_used \in SUBSET Slots
    /\ sock \in [Slots -> Fds \cup {-1}]
    /\ lock \in Senders \cup {NONE}
    /\ apc \in {"accept", "alloc", "drop", "spawn"}
    /\ aconn \in Conns \cup {NONE}
    /\ client \in Fds \cup {-1}
    /\ phase \in [Conns -> Phases]
    /\ slot \in [Conns -> Slots]
    /\ hsock \in [Conns -> Fds \cup {-1}]
    /\ waitOn \in [Conns -> Conns \cup {LISTEN, NONE}]
    /\ rxfrom \in [Conns -> Conns \cup {NONE}]
    /\ spc \in [Senders -> {"idle", "pick", "head", "body", "close", "mark"}]
    /\ idx \in [Senders -> 0 .. N]
    /\ sfd \in [Senders -> Fds \cup {-1}]
    /\ wire \in [Conns -> Senders \cup {NONE}]

\* A bit of clients_used is set exactly while one connection, and no other, owns
\* the slot (its rxbuf and sock): psc_client_alloc, the hand-over to
\* handle_client and psc_client_free never lose a slot or give it out twice.
SlotOwnership ==
    /\ \A c \in Conns : phase[c] \in Seated => slot[c] \in clients_used
    /\ \A i \in clients_used : \E c \in Conns : phase[c] \in Seated /\ slot[c] = i
    /\ \A c, d \in Conns :
          /\ phase[c] \in Seated /\ phase[d] \in Seated
          /\ slot[c] = slot[d]
          => c = d

\* On an open connection a header without its body is the lock holder's, who is
\* about to send the body or to close: no other message is ever put between a
\* header and its body, whatever socket numbers were recycled meanwhile.
FramesWhole ==
    \A f \in Fds : fdtab[f] \in Conns /\ wire[fdtab[f]] # NONE =>
        /\ lock = wire[fdtab[f]]
        /\ spc[lock] \in {"body", "close"}
        /\ sock[idx[lock]] = f

\* The thread that will close connection c: the accept loop, or c's own handler,
\* which holds the number f in C->sock until it starts and in sock afterwards.
Closer(c, f) ==
    \/ phase[c] \in {"accepted", "admitted"} /\ aconn = c /\ client = f
    \/ phase[c] = "refused" /\ apc = "drop" /\ aconn = c /\ client = f
    \/ phase[c] = "start" /\ sock[slot[c]] = f
    \/ phase[c] \in {"conn", "recv", "wait", "handle", "free", "close"} /\ hsock[c] = f

\* While the server listens, every open client socket is known to a live thread
\* that is going to close it: no interleaving of send errors, disconnects and
\* recycled numbers leaks one of lwIP's few sockets.
NoSocketLeak ==
    fdtab[0] = LISTEN =>
        \A f \in Fds : fdtab[f] \in Conns => Closer(fdtab[f], f)

\* The listening socket stays open: what the send-error path closes is a
\* client's socket (listener.c, "client error").
ListenerOpen == fdtab[0] = LISTEN

\* While a connection is open its handler handles that connection's messages and
\* no other's.  Only a handler whose socket a send error has closed may find its
\* number recycled and read the messages of the client that got it.
OwnWhileOpen == \A c \in Conns : IsOpen(c) => rxfrom[c] \in {c, NONE}

\* psc_send and psc_send_one return, and with that release sendguard.
SendReturns == \A t \in Senders : spc[t] # "idle" ~> spc[t] = "idle"

\* A connection that was accepted is refused or gets a running handler, and the
\* accept loop is ready for the next one.
AcceptorReturns == apc # "accept" ~> apc = "accept"

\* A handler whose connection failed gives its slot back and ends.
HandlerEnds == \A c \in Conns : phase[c] = "free" ~> phase[c] = "dead"

-----------------------------------------------------------------------------
(* What the server promises: ClientPool, with the slots as seats. *)

StatusOf(p) == CASE p \in {"new", "accepted"} -> "waiting"
                 [] p \in Seated -> "served"
                 [] p \in {"close", "dead"} -> "left"
                 [] p = "refused" -> "refused"
                 [] p = "lost" -> "lost"

Pool == INSTANCE ClientPool WITH
    Seats <- Slots,
    NOSEAT <- -1,
    status <- [c \in Conns |-> StatusOf(phase[c])],
    seat <- [c \in Conns |-> IF phase[c] \in Seated THEN slot[c] ELSE -1]

\* A client is served while a slot is free and turned away only when every slot
\* is in use; it keeps its slot until its handler has freed it.
PoolSpec == Pool!Spec
=============================================================================
