--------------------------- MODULE PscServerProofs --------------------------
(***************************************************************************)
(* Proofs about PscServer for every number of slots, connections,          *)
(* broadcasting threads and socket numbers.                                *)
(***************************************************************************)
EXTENDS PscServer, TLAPS

(***************************************************************************)
(* The inductive invariant.  Who is in psc_send holds the mutex; the       *)
(* sender's locals agree with the table it walks; the accept loop's locals *)
(* agree with the connection it has in hand; a connection has one socket.  *)
(***************************************************************************)
SenderInv ==
    \A t \in Senders :
        /\ spc[t] # "idle" => lock = t
        /\ t \in Conns /\ spc[t] # "idle" => /\ phase[t] = "conn"
                                             /\ idx[t] \in {slot[t], slot[t] + 1}
        /\ spc[t] \in {"head", "body", "close", "mark"} => idx[t] < Last(t)
        /\ spc[t] \in {"head", "body"} =>
              sfd[t] # -1 /\ (sfd[t] = sock[idx[t]] \/ sfd[t] = 0)
        /\ spc[t] \in {"head", "body", "close"} => sock[idx[t]] # -1

AcceptInv ==
    /\ apc # "accept" => client # -1
    /\ apc = "alloc" => aconn \in Conns /\ phase[aconn] = "accepted"
    /\ apc = "spawn" => aconn \in Conns /\ phase[aconn] = "admitted"
    /\ apc = "drop" => aconn \in Conns /\ phase[aconn] = "refused"
    /\ \A c \in Conns :
        /\ phase[c] = "accepted" => apc = "alloc" /\ aconn = c
        /\ phase[c] = "admitted" => /\ apc = "spawn" /\ aconn = c
                                    /\ sock[slot[c]] \in {0, -1}

FdInv ==
    /\ fdtab[0] \notin Conns
    /\ \A f, g \in Fds : fdtab[f] \in Conns /\ fdtab[f] = fdtab[g] => f = g
    /\ \A f \in Fds : fdtab[f] \in Conns => phase[fdtab[f]] \notin {"new", "lost"}
    /\ \A c \in Conns : wire[c] # NONE => phase[c] \notin {"new", "lost"}

\* When the send-error path is about to mark a slot, the socket it closed was
\* that of the slot's handler, unless it was the listening socket.
MarkInv ==
    \A t \in Senders : spc[t] = "mark" /\ fdtab[0] = LISTEN =>
        \A c \in Conns : slot[c] = idx[t] =>
            /\ phase[c] # "admitted"
            /\ phase[c] = "start" => \A f \in Fds : fdtab[f] = c => sock[idx[t]] # f

Inv == /\ TypeOK /\ SenderInv /\ AcceptInv /\ SlotOwnership /\ FdInv
       /\ FramesWhole /\ MarkInv /\ NoSocketLeak

-----------------------------------------------------------------------------
\* Nobody is connected at first and only the listening socket is open.
LEMMA InitInv == Init => Inv
  BY SizeAssumption, NameAssumption
  DEF Init, Inv, TypeOK, SenderInv, AcceptInv, SlotOwnership, FdInv, FramesWhole,
      MarkInv, NoSocketLeak, Slots, Fds, Senders, Phases, Seated, IsOpen, OpenOn, Last

\* The slot a sender is at is in the table, and so is the next bound.
LEMMA InTable ==
    ASSUME TypeOK
    PROVE  \A t \in Senders : /\ Last(t) \in 1 .. N
                              /\ idx[t] < Last(t) => /\ idx[t] \in Slots
                                                     /\ idx[t] + 1 \in 0 .. N
  BY SizeAssumption DEF TypeOK, Last, Slots, Senders

\* A handler in psc_send_one is at its own slot until it is done with it.
LEMMA OneSlot ==
    ASSUME TypeOK, SenderInv
    PROVE  \A t \in Conns : spc[t] # "idle" /\ idx[t] < Last(t) => idx[t] = slot[t]
  <1> SUFFICES ASSUME NEW t \in Conns, spc[t] # "idle", idx[t] < Last(t)
               PROVE  idx[t] = slot[t]
    OBVIOUS
  <1>1. idx[t] \in {slot[t], slot[t] + 1} /\ Last(t) = slot[t] + 1 /\ slot[t] \in Nat
    BY NameAssumption, SizeAssumption DEF SenderInv, TypeOK, Last, Senders, Slots
  <1> QED  BY <1>1

\* Every step keeps the types.
LEMMA TypeStep ==
    ASSUME Inv, [Next]_vars
    PROVE  TypeOK'
  <1> USE SizeAssumption, NameAssumption
      DEF Inv, Slots, Fds, Senders, vars, tables, acceptor, handlers, senders, Seated, TypeOK, SenderInv, AcceptInv, Last, Phases
  <1>1. ASSUME NEW c \in Conns, Accept(c) PROVE TypeOK'
    BY <1>1 DEF Accept, FreeFds, Lowest
  <1>2. CASE AcceptError
    BY <1>2 DEF AcceptError
  <1>3. CASE ClientAlloc
    BY <1>3 DEF ClientAlloc, Lowest
  <1>4. CASE ClientAllocFull
    BY <1>4 DEF ClientAllocFull
  <1>5. CASE DropClient
    BY <1>5 DEF DropClient, Closed
  <1>6. CASE SpawnHandler
    BY <1>6 DEF SpawnHandler
  <1>7. ASSUME NEW c \in Conns, HandlerStart(c) PROVE TypeOK'
    BY <1>7 DEF HandlerStart
  <1>8. ASSUME NEW c \in Conns, RecvCall(c) PROVE TypeOK'
    BY <1>8 DEF RecvCall, OpenOn
  <1>9. ASSUME NEW c \in Conns, RecvMsg(c) PROVE TypeOK'
    BY <1>9 DEF RecvMsg
  <1>10. ASSUME NEW c \in Conns, RecvError(c) PROVE TypeOK'
    BY <1>10 DEF RecvError
  <1>11. ASSUME NEW c \in Conns, Handled(c) PROVE TypeOK'
    BY <1>11 DEF Handled
  <1>12. ASSUME NEW c \in Conns, ClientFree(c) PROVE TypeOK'
    <2>1. 0 \in Slots /\ 0 \in Fds  OBVIOUS
    <2>2. clients_used' \in SUBSET Slots  BY <1>12 DEF ClientFree
    <2>3. sock' \in [Slots -> Fds \cup {-1}]  BY <1>12, <2>1 DEF ClientFree
    <2>4. slot' \in [Conns -> Slots]  BY <1>12, <2>1 DEF ClientFree
    <2>5. phase' \in [Conns -> Phases]  BY <1>12 DEF ClientFree
    <2> QED  BY <1>12, <2>2, <2>3, <2>4, <2>5 DEF ClientFree
  <1>13. ASSUME NEW c \in Conns, HandlerClose(c) PROVE TypeOK'
    BY <1>13 DEF HandlerClose, Closed
  <1>14. ASSUME NEW t \in Senders, SendLock(t) PROVE TypeOK'
    BY <1>14 DEF SendLock
  <1>15. ASSUME NEW t \in Senders, SendSkip(t) PROVE TypeOK'
    BY <1>15, InTable DEF SendSkip
  <1>16. ASSUME NEW t \in Senders, SendPick(t) PROVE TypeOK'
    BY <1>16, InTable DEF SendPick, Skipped
  <1>17. ASSUME NEW t \in Senders, SendHead(t) PROVE TypeOK'
    BY <1>17, InTable DEF SendHead
  <1>18. ASSUME NEW t \in Senders, SendBody(t) PROVE TypeOK'
    BY <1>18, InTable DEF SendBody
  <1>19. ASSUME NEW t \in Senders, SendError(t) PROVE TypeOK'
    BY <1>19, InTable DEF SendError
  <1>20. ASSUME NEW t \in Senders, SendClose(t) PROVE TypeOK'
    BY <1>20, InTable DEF SendClose, Closed
  <1>21. ASSUME NEW t \in Senders, SendMark(t) PROVE TypeOK'
    BY <1>21, InTable DEF SendMark
  <1>22. ASSUME NEW t \in Senders, SendUnlock(t) PROVE TypeOK'
    <2>1. phase' \in [Conns -> Phases]  BY <1>22 DEF SendUnlock
    <2>2. idx' \in [Senders -> 0 .. N]  BY <1>22 DEF SendUnlock
    <2> QED  BY <1>22, <2>1, <2>2 DEF SendUnlock
  <1>23. CASE UNCHANGED vars
    BY <1>23
  <1> QED
    BY <1>1, <1>2, <1>3, <1>4, <1>5, <1>6, <1>7, <1>8,
       <1>9, <1>10, <1>11, <1>12, <1>13, <1>14, <1>15, <1>16,
       <1>17, <1>18, <1>19, <1>20, <1>21, <1>22, <1>23
    DEF Next, Acceptor, Handler, RecvReturn, Sending

\* Inside psc_send a thread holds the mutex and its locals agree with the table.
LEMMA SenderStep ==
    ASSUME Inv, [Next]_vars
    PROVE  SenderInv'
  <1> USE SizeAssumption, NameAssumption
      DEF Inv, Slots, Fds, Senders, vars, tables, acceptor, handlers, senders, Seated, TypeOK, SenderInv, AcceptInv, Last
  <1>1. ASSUME NEW c \in Conns, Accept(c) PROVE SenderInv'
    BY <1>1 DEF Accept, FreeFds, Lowest
  <1>2. CASE AcceptError
    BY <1>2 DEF AcceptError
  <1>3. CASE ClientAlloc
    BY <1>3 DEF ClientAlloc, Lowest
  <1>4. CASE ClientAllocFull
    BY <1>4 DEF ClientAllocFull
  <1>5. CASE DropClient
    BY <1>5 DEF DropClient, Closed
  <1>6. CASE SpawnHandler
    <2>1. /\ aconn \in Conns /\ phase[aconn] = "admitted" /\ slot[aconn] \in Slots
          /\ sock[slot[aconn]] \in {0, -1} /\ client # -1
      BY <1>6 DEF SpawnHandler
    <2>2. \A i \in Slots : sock'[i] = IF i = slot[aconn] THEN client ELSE sock[i]
      BY <1>6, <2>1 DEF SpawnHandler
    <2>3. \A t \in Senders : t \in Conns /\ spc[t] # "idle" => phase'[t] = phase[t]
      BY <1>6, <2>1 DEF SpawnHandler
    <2>4. \A t \in Senders : idx[t] < Last(t) => idx[t] \in Slots
      BY InTable
    <2>5. UNCHANGED <<lock, slot, senders>>
      BY <1>6 DEF SpawnHandler
    <2> QED  BY <2>1, <2>2, <2>3, <2>4, <2>5 DEF SenderInv
  <1>7. ASSUME NEW c \in Conns, HandlerStart(c) PROVE SenderInv'
    BY <1>7 DEF HandlerStart
  <1>8. ASSUME NEW c \in Conns, RecvCall(c) PROVE SenderInv'
    BY <1>8 DEF RecvCall
  <1>9. ASSUME NEW c \in Conns, RecvMsg(c) PROVE SenderInv'
    BY <1>9 DEF RecvMsg
  <1>10. ASSUME NEW c \in Conns, RecvError(c) PROVE SenderInv'
    BY <1>10 DEF RecvError
  <1>11. ASSUME NEW c \in Conns, Handled(c) PROVE SenderInv'
    BY <1>11 DEF Handled
  <1>12. ASSUME NEW c \in Conns, ClientFree(c) PROVE SenderInv'
    BY <1>12 DEF ClientFree
  <1>13. ASSUME NEW c \in Conns, HandlerClose(c) PROVE SenderInv'
    BY <1>13 DEF HandlerClose, Closed
  <1>14. ASSUME NEW t \in Senders, SendLock(t) PROVE SenderInv'
    BY <1>14 DEF SendLock
  <1>15. ASSUME NEW t \in Senders, SendSkip(t) PROVE SenderInv'
    <2>1. idx'[t] = idx[t] + 1 /\ spc'[t] = "pick" /\ spc[t] # "idle" /\ idx[t] < Last(t)
      BY <1>15 DEF SendSkip
    <2>2. \A u \in Senders \ {t} : sfd'[u] = sfd[u] /\ spc'[u] = spc[u] /\ idx'[u] = idx[u]
      BY <1>15 DEF SendSkip
    <2>3. UNCHANGED <<lock, acceptor, handlers>>
      BY <1>15 DEF SendSkip
    <2>4. t \in Conns => idx[t] = slot[t]
      BY <2>1, OneSlot
    <2>5. \A u \in Senders \ {t} : spc[u] = "idle"
      BY <2>1
    <2> QED  BY <2>1, <2>2, <2>3, <2>4, <2>5 DEF SenderInv
  <1>16. ASSUME NEW t \in Senders, SendPick(t) PROVE SenderInv'
    <2>1. idx[t] \in Slots /\ sock[idx[t]] # -1 /\ sfd'[t] = sock[idx[t]] /\ spc'[t] = "head"
      BY <1>16, InTable DEF SendPick, Skipped
    <2>2. \A u \in Senders \ {t} : sfd'[u] = sfd[u] /\ spc'[u] = spc[u]
      BY <1>16 DEF SendPick
    <2>3. UNCHANGED <<tables, acceptor, handlers, idx>> /\ idx[t] < Last(t) /\ spc[t] = "pick"
      BY <1>16 DEF SendPick
    <2>4. \A u \in Senders \ {t} : spc[u] = "idle"
      BY <2>3
    <2>5. lock = t /\ (t \in Conns => phase[t] = "conn" /\ idx[t] \in {slot[t], slot[t] + 1})
      BY <2>3
    <2>6. Last(t)' = Last(t) /\ \A u \in Senders \ {t} : spc'[u] = "idle"
      BY <2>2, <2>3, <2>4
    <2> HIDE DEF Inv, Slots, Fds, TypeOK, Last
    <2> QED  BY <2>1, <2>3, <2>5, <2>6 DEF SenderInv
  <1>17. ASSUME NEW t \in Senders, SendHead(t) PROVE SenderInv'
    BY <1>17, InTable DEF SendHead
  <1>18. ASSUME NEW t \in Senders, SendBody(t) PROVE SenderInv'
    <2>1. idx'[t] = idx[t] + 1 /\ spc'[t] = "pick" /\ spc[t] # "idle" /\ idx[t] < Last(t)
      BY <1>18 DEF SendBody
    <2>2. \A u \in Senders \ {t} : sfd'[u] = sfd[u] /\ spc'[u] = spc[u] /\ idx'[u] = idx[u]
      BY <1>18 DEF SendBody
    <2>3. UNCHANGED <<lock, acceptor, handlers>>
      BY <1>18 DEF SendBody
    <2>4. t \in Conns => idx[t] = slot[t]
      BY <2>1, OneSlot
    <2>5. \A u \in Senders \ {t} : spc[u] = "idle"
      BY <2>1
    <2> QED  BY <2>1, <2>2, <2>3, <2>4, <2>5 DEF SenderInv
  <1>19. ASSUME NEW t \in Senders, SendError(t) PROVE SenderInv'
    BY <1>19, InTable DEF SendError
  <1>20. ASSUME NEW t \in Senders, SendClose(t) PROVE SenderInv'
    BY <1>20, InTable DEF SendClose, Closed
  <1>21. ASSUME NEW t \in Senders, SendMark(t) PROVE SenderInv'
    <2>1. idx'[t] = idx[t] + 1 /\ spc'[t] = "pick" /\ spc[t] # "idle" /\ idx[t] < Last(t)
      BY <1>21 DEF SendMark
    <2>2. \A u \in Senders \ {t} : sfd'[u] = sfd[u] /\ spc'[u] = spc[u] /\ idx'[u] = idx[u]
      BY <1>21 DEF SendMark
    <2>3. UNCHANGED <<lock, acceptor, handlers>>
      BY <1>21 DEF SendMark
    <2>4. t \in Conns => idx[t] = slot[t]
      BY <2>1, OneSlot
    <2>5. \A u \in Senders \ {t} : spc[u] = "idle"
      BY <2>1
    <2> QED  BY <2>1, <2>2, <2>3, <2>4, <2>5 DEF SenderInv
  <1>22. ASSUME NEW t \in Senders, SendUnlock(t) PROVE SenderInv'
    BY <1>22, InTable DEF SendUnlock
  <1>23. CASE UNCHANGED vars
    BY <1>23
  <1> QED
    BY <1>1, <1>2, <1>3, <1>4, <1>5, <1>6, <1>7, <1>8,
       <1>9, <1>10, <1>11, <1>12, <1>13, <1>14, <1>15, <1>16,
       <1>17, <1>18, <1>19, <1>20, <1>21, <1>22, <1>23
    DEF Next, Acceptor, Handler, RecvReturn, Sending

\* The accept loop's locals agree with the connection it has in hand.
LEMMA AcceptStep ==
    ASSUME Inv, [Next]_vars
    PROVE  AcceptInv'
  <1> USE SizeAssumption, NameAssumption
      DEF Inv, Slots, Fds, Senders, vars, tables, acceptor, handlers, senders, Seated, TypeOK, SenderInv, AcceptInv, SlotOwnership
  <1>1. ASSUME NEW c \in Conns, Accept(c) PROVE AcceptInv'
    BY <1>1 DEF Accept, FreeFds, Lowest
  <1>2. CASE AcceptError
    BY <1>2 DEF AcceptError
  <1>3. CASE ClientAlloc
    BY <1>3 DEF ClientAlloc, Lowest
  <1>4. CASE ClientAllocFull
    BY <1>4 DEF ClientAllocFull
  <1>5. CASE DropClient
    BY <1>5 DEF DropClient, Closed
  <1>6. CASE SpawnHandler
    BY <1>6 DEF SpawnHandler
  <1>7. ASSUME NEW c \in Conns, HandlerStart(c) PROVE AcceptInv'
    BY <1>7 DEF HandlerStart
  <1>8. ASSUME NEW c \in Conns, RecvCall(c) PROVE AcceptInv'
    BY <1>8 DEF RecvCall
  <1>9. ASSUME NEW c \in Conns, RecvMsg(c) PROVE AcceptInv'
    BY <1>9 DEF RecvMsg
  <1>10. ASSUME NEW c \in Conns, RecvError(c) PROVE AcceptInv'
    BY <1>10 DEF RecvError
  <1>11. ASSUME NEW c \in Conns, Handled(c) PROVE AcceptInv'
    BY <1>11 DEF Handled
  <1>12. ASSUME NEW c \in Conns, ClientFree(c) PROVE AcceptInv'
    BY <1>12 DEF ClientFree
  <1>13. ASSUME NEW c \in Conns, HandlerClose(c) PROVE AcceptInv'
    BY <1>13 DEF HandlerClose, Closed
  <1>14. ASSUME NEW t \in Senders, SendLock(t) PROVE AcceptInv'
    BY <1>14 DEF SendLock
  <1>15. ASSUME NEW t \in Senders, SendSkip(t) PROVE AcceptInv'
    BY <1>15, InTable DEF SendSkip
  <1>16. ASSUME NEW t \in Senders, SendPick(t) PROVE AcceptInv'
    BY <1>16, InTable DEF SendPick
  <1>17. ASSUME NEW t \in Senders, SendHead(t) PROVE AcceptInv'
    BY <1>17, InTable DEF SendHead
  <1>18. ASSUME NEW t \in Senders, SendBody(t) PROVE AcceptInv'
    BY <1>18, InTable DEF SendBody
  <1>19. ASSUME NEW t \in Senders, SendError(t) PROVE AcceptInv'
    BY <1>19, InTable DEF SendError
  <1>20. ASSUME NEW t \in Senders, SendClose(t) PROVE AcceptInv'
    BY <1>20, InTable DEF SendClose, Closed
  <1>21. ASSUME NEW t \in Senders, SendMark(t) PROVE AcceptInv'
    BY <1>21, InTable DEF SendMark
  <1>22. ASSUME NEW t \in Senders, SendUnlock(t) PROVE AcceptInv'
    BY <1>22, InTable DEF SendUnlock
  <1>23. CASE UNCHANGED vars
    BY <1>23
  <1> QED
    BY <1>1, <1>2, <1>3, <1>4, <1>5, <1>6, <1>7, <1>8,
       <1>9, <1>10, <1>11, <1>12, <1>13, <1>14, <1>15, <1>16,
       <1>17, <1>18, <1>19, <1>20, <1>21, <1>22, <1>23
    DEF Next, Acceptor, Handler, RecvReturn, Sending

\* SlotOwnership is about who is seated where, and nothing else.
LEMMA SlotFrame ==
    ASSUME SlotOwnership, UNCHANGED <<clients_used, slot>>,
           \A c \in Conns : phase'[c] \in Seated <=> phase[c] \in Seated
    PROVE  SlotOwnership'
  BY DEF SlotOwnership

\* FramesWhole does not depend on the handlers or on the accept loop.
LEMMA FrameFrame ==
    ASSUME FramesWhole, UNCHANGED <<fdtab, sock, lock, senders>>
    PROVE  FramesWhole'
  BY DEF FramesWhole, senders

\* Slots are handed out and given back one owner at a time.
LEMMA SlotStep ==
    ASSUME Inv, [Next]_vars
    PROVE  SlotOwnership'
  <1> USE SizeAssumption, NameAssumption
      DEF Inv, Slots, Fds, Senders, vars, tables, acceptor, handlers, senders, Seated, TypeOK, SenderInv, AcceptInv
  <1>1. ASSUME NEW c \in Conns, Accept(c) PROVE SlotOwnership'
    BY <1>1, SlotFrame DEF Accept
  <1>2. CASE AcceptError
    BY <1>2, SlotFrame DEF AcceptError
  <1>3. CASE ClientAlloc
    <2>1. PICK i \in Slots \ clients_used : /\ clients_used' = clients_used \cup {i}
                                          /\ slot' = [slot EXCEPT ![aconn] = i]
      BY <1>3 DEF ClientAlloc, Lowest
    <2>2. aconn \in Conns /\ phase[aconn] \notin Seated /\ phase' = [phase EXCEPT ![aconn] = "admitted"]
      BY <1>3 DEF ClientAlloc
    <2>3. slot'[aconn] = i /\ phase'[aconn] \in Seated
      BY <2>1, <2>2
    <2>4. \A c \in Conns \ {aconn} : slot'[c] = slot[c] /\ phase'[c] = phase[c]
      BY <2>1, <2>2
    <2> QED  BY <2>1, <2>2, <2>3, <2>4 DEF SlotOwnership
  <1>4. CASE ClientAllocFull
    BY <1>4, SlotFrame DEF ClientAllocFull
  <1>5. CASE DropClient
    BY <1>5, SlotFrame DEF DropClient
  <1>6. CASE SpawnHandler
    BY <1>6, SlotFrame DEF SpawnHandler
  <1>7. ASSUME NEW c \in Conns, HandlerStart(c) PROVE SlotOwnership'
    BY <1>7, SlotFrame DEF HandlerStart
  <1>8. ASSUME NEW c \in Conns, RecvCall(c) PROVE SlotOwnership'
    BY <1>8, SlotFrame DEF RecvCall
  <1>9. ASSUME NEW c \in Conns, RecvMsg(c) PROVE SlotOwnership'
    BY <1>9, SlotFrame DEF RecvMsg
  <1>10. ASSUME NEW c \in Conns, RecvError(c) PROVE SlotOwnership'
    BY <1>10, SlotFrame DEF RecvError
  <1>11. ASSUME NEW c \in Conns, Handled(c) PROVE SlotOwnership'
    BY <1>11, SlotFrame DEF Handled
  <1>12. ASSUME NEW c \in Conns, ClientFree(c) PROVE SlotOwnership'
    BY <1>12 DEF ClientFree, SlotOwnership
  <1>13. ASSUME NEW c \in Conns, HandlerClose(c) PROVE SlotOwnership'
    BY <1>13, SlotFrame DEF HandlerClose
  <1>14. ASSUME NEW t \in Senders, SendLock(t) PROVE SlotOwnership'
    BY <1>14, SlotFrame DEF SendLock
  <1>15. ASSUME NEW t \in Senders, SendSkip(t) PROVE SlotOwnership'
    BY <1>15, SlotFrame DEF SendSkip
  <1>16. ASSUME NEW t \in Senders, SendPick(t) PROVE SlotOwnership'
    BY <1>16, SlotFrame DEF SendPick
  <1>17. ASSUME NEW t \in Senders, SendHead(t) PROVE SlotOwnership'
    BY <1>17, SlotFrame DEF SendHead
  <1>18. ASSUME NEW t \in Senders, SendBody(t) PROVE SlotOwnership'
    BY <1>18, SlotFrame DEF SendBody
  <1>19. ASSUME NEW t \in Senders, SendError(t) PROVE SlotOwnership'
    BY <1>19, SlotFrame DEF SendError
  <1>20. ASSUME NEW t \in Senders, SendClose(t) PROVE SlotOwnership'
    BY <1>20, SlotFrame DEF SendClose
  <1>21. ASSUME NEW t \in Senders, SendMark(t) PROVE SlotOwnership'
    BY <1>21, SlotFrame DEF SendMark
  <1>22. ASSUME NEW t \in Senders, SendUnlock(t) PROVE SlotOwnership'
    BY <1>22, SlotFrame DEF SendUnlock
  <1>23. CASE UNCHANGED vars
    BY <1>23, SlotFrame
  <1> QED
    BY <1>1, <1>2, <1>3, <1>4, <1>5, <1>6, <1>7, <1>8,
       <1>9, <1>10, <1>11, <1>12, <1>13, <1>14, <1>15, <1>16,
       <1>17, <1>18, <1>19, <1>20, <1>21, <1>22, <1>23
    DEF Next, Acceptor, Handler, RecvReturn, Sending

\* A connection is open under one socket number, never under number 0.
LEMMA FdStep ==
    ASSUME Inv, [Next]_vars
    PROVE  FdInv'
  <1> USE SizeAssumption, NameAssumption
      DEF Inv, Slots, Fds, Senders, vars, tables, acceptor, handlers, senders, Seated, TypeOK, AcceptInv, FdInv
  <1>1. ASSUME NEW c \in Conns, Accept(c) PROVE FdInv'
    BY <1>1 DEF Accept, FreeFds, Lowest
  <1>2. CASE AcceptError
    BY <1>2 DEF AcceptError
  <1>3. CASE ClientAlloc
    BY <1>3 DEF ClientAlloc, Lowest
  <1>4. CASE ClientAllocFull
    BY <1>4 DEF ClientAllocFull
  <1>5. CASE DropClient
    BY <1>5 DEF DropClient, Closed
  <1>6. CASE SpawnHandler
    BY <1>6 DEF SpawnHandler
  <1>7. ASSUME NEW c \in Conns, HandlerStart(c) PROVE FdInv'
    BY <1>7 DEF HandlerStart
  <1>8. ASSUME NEW c \in Conns, RecvCall(c) PROVE FdInv'
    BY <1>8 DEF RecvCall
  <1>9. ASSUME NEW c \in Conns, RecvMsg(c) PROVE FdInv'
    BY <1>9 DEF RecvMsg
  <1>10. ASSUME NEW c \in Conns, RecvError(c) PROVE FdInv'
    BY <1>10 DEF RecvError
  <1>11. ASSUME NEW c \in Conns, Handled(c) PROVE FdInv'
    BY <1>11 DEF Handled
  <1>12. ASSUME NEW c \in Conns, ClientFree(c) PROVE FdInv'
    BY <1>12 DEF ClientFree
  <1>13. ASSUME NEW c \in Conns, HandlerClose(c) PROVE FdInv'
    BY <1>13 DEF HandlerClose, Closed
  <1>14. ASSUME NEW t \in Senders, SendLock(t) PROVE FdInv'
    BY <1>14 DEF SendLock
  <1>15. ASSUME NEW t \in Senders, SendSkip(t) PROVE FdInv'
    BY <1>15, InTable DEF SendSkip
  <1>16. ASSUME NEW t \in Senders, SendPick(t) PROVE FdInv'
    BY <1>16, InTable DEF SendPick
  <1>17. ASSUME NEW t \in Senders, SendHead(t) PROVE FdInv'
    BY <1>17, InTable DEF SendHead, SenderInv
  <1>18. ASSUME NEW t \in Senders, SendBody(t) PROVE FdInv'
    BY <1>18, InTable DEF SendBody
  <1>19. ASSUME NEW t \in Senders, SendError(t) PROVE FdInv'
    BY <1>19, InTable DEF SendError
  <1>20. ASSUME NEW t \in Senders, SendClose(t) PROVE FdInv'
    BY <1>20, InTable DEF SendClose, Closed
  <1>21. ASSUME NEW t \in Senders, SendMark(t) PROVE FdInv'
    BY <1>21, InTable DEF SendMark
  <1>22. ASSUME NEW t \in Senders, SendUnlock(t) PROVE FdInv'
    BY <1>22, InTable DEF SendUnlock
  <1>23. CASE UNCHANGED vars
    BY <1>23
  <1> QED
    BY <1>1, <1>2, <1>3, <1>4, <1>5, <1>6, <1>7, <1>8,
       <1>9, <1>10, <1>11, <1>12, <1>13, <1>14, <1>15, <1>16,
       <1>17, <1>18, <1>19, <1>20, <1>21, <1>22, <1>23
    DEF Next, Acceptor, Handler, RecvReturn, Sending

\* No step puts anything between a header and its body.
LEMMA FrameStep ==
    ASSUME Inv, [Next]_vars
    PROVE  FramesWhole'
  <1> USE SizeAssumption, NameAssumption
      DEF Inv, Slots, Fds, Senders, vars, tables, acceptor, handlers, senders, Seated, TypeOK, SenderInv, AcceptInv, FdInv, FramesWhole
  <1>1. ASSUME NEW c \in Conns, Accept(c) PROVE FramesWhole'
    BY <1>1 DEF Accept, FreeFds, Lowest
  <1>2. CASE AcceptError
    BY <1>2, FrameFrame DEF AcceptError
  <1>3. CASE ClientAlloc
    BY <1>3 DEF ClientAlloc, Lowest
  <1>4. CASE ClientAllocFull
    BY <1>4, FrameFrame DEF ClientAllocFull
  <1>5. CASE DropClient
    BY <1>5 DEF DropClient, Closed
  <1>6. CASE SpawnHandler
    <2>1. /\ aconn \in Conns /\ slot[aconn] \in Slots /\ sock[slot[aconn]] \in {0, -1}
          /\ UNCHANGED <<fdtab, lock, senders>>
      BY <1>6 DEF SpawnHandler
    <2>2. \A i \in Slots : i # slot[aconn] => sock'[i] = sock[i]
      BY <1>6, <2>1 DEF SpawnHandler
    <2> SUFFICES ASSUME NEW f \in Fds, fdtab[f] \in Conns, wire[fdtab[f]] # NONE
                 PROVE  /\ lock = wire[fdtab[f]] /\ spc[lock] \in {"body", "close"}
                        /\ sock'[idx[lock]] = f
      BY <2>1 DEF FramesWhole
    <2>3. /\ lock = wire[fdtab[f]] /\ spc[lock] \in {"body", "close"} /\ sock[idx[lock]] = f
      BY DEF FramesWhole
    <2>4. f # 0 /\ f # -1 /\ lock \in Senders
      BY <2>3 DEF FdInv
    <2>5. idx[lock] \in Slots /\ idx[lock] # slot[aconn]
      BY <2>1, <2>3, <2>4, InTable DEF SenderInv
    <2> QED  BY <2>2, <2>3, <2>5
  <1>7. ASSUME NEW c \in Conns, HandlerStart(c) PROVE FramesWhole'
    BY <1>7, FrameFrame DEF HandlerStart
  <1>8. ASSUME NEW c \in Conns, RecvCall(c) PROVE FramesWhole'
    BY <1>8, FrameFrame DEF RecvCall
  <1>9. ASSUME NEW c \in Conns, RecvMsg(c) PROVE FramesWhole'
    BY <1>9, FrameFrame DEF RecvMsg
  <1>10. ASSUME NEW c \in Conns, RecvError(c) PROVE FramesWhole'
    BY <1>10, FrameFrame DEF RecvError
  <1>11. ASSUME NEW c \in Conns, Handled(c) PROVE FramesWhole'
    BY <1>11, FrameFrame DEF Handled
  <1>12. ASSUME NEW c \in Conns, ClientFree(c) PROVE FramesWhole'
    BY <1>12 DEF ClientFree
  <1>13. ASSUME NEW c \in Conns, HandlerClose(c) PROVE FramesWhole'
    BY <1>13 DEF HandlerClose, Closed
  <1>14. ASSUME NEW t \in Senders, SendLock(t) PROVE FramesWhole'
    BY <1>14 DEF SendLock
  <1>15. ASSUME NEW t \in Senders, SendSkip(t) PROVE FramesWhole'
    BY <1>15, InTable DEF SendSkip
  <1>16. ASSUME NEW t \in Senders, SendPick(t) PROVE FramesWhole'
    BY <1>16, InTable DEF SendPick
  <1>17. ASSUME NEW t \in Senders, SendHead(t) PROVE FramesWhole'
    <2>1. /\ spc[t] = "head" /\ fdtab[sfd[t]] \in Conns /\ lock = t /\ idx[t] \in Slots
          /\ sfd[t] \in Fds /\ (sfd[t] = sock[idx[t]] \/ sfd[t] = 0)
      BY <1>17, InTable DEF SendHead
    <2>2. sfd[t] = sock[idx[t]]
      BY <2>1
    <2>3. \A f \in Fds : fdtab[f] \in Conns => wire[fdtab[f]] = NONE
      BY <2>1 DEF FramesWhole
    <2>4. \A f \in Fds : fdtab[f] \in Conns /\ wire'[fdtab[f]] # NONE =>
             f = sfd[t] /\ wire'[fdtab[f]] = t
      BY <1>17, <2>1, <2>3 DEF SendHead
    <2>5. spc'[t] = "body" /\ UNCHANGED <<fdtab, lock, sock, idx>>
      BY <1>17 DEF SendHead
    <2> QED  BY <2>1, <2>2, <2>4, <2>5
  <1>18. ASSUME NEW t \in Senders, SendBody(t) PROVE FramesWhole'
    <2>1. /\ spc[t] = "body" /\ fdtab[sfd[t]] \in Conns /\ lock = t /\ idx[t] \in Slots
          /\ sfd[t] \in Fds /\ (sfd[t] = sock[idx[t]] \/ sfd[t] = 0)
      BY <1>18, InTable DEF SendBody
    <2>2. sfd[t] = sock[idx[t]]
      BY <2>1
    <2>3. \A f \in Fds : fdtab[f] \in Conns /\ wire[fdtab[f]] # NONE => f = sfd[t]
      BY <2>1, <2>2 DEF FramesWhole
    <2>4. \A f \in Fds : fdtab[f] \in Conns => wire'[fdtab[f]] = NONE
      BY <1>18, <2>1, <2>3 DEF SendBody
    <2> QED  BY <1>18, <2>4 DEF SendBody
  <1>19. ASSUME NEW t \in Senders, SendError(t) PROVE FramesWhole'
    BY <1>19, InTable DEF SendError
  <1>20. ASSUME NEW t \in Senders, SendClose(t) PROVE FramesWhole'
    BY <1>20, InTable DEF SendClose, Closed
  <1>21. ASSUME NEW t \in Senders, SendMark(t) PROVE FramesWhole'
    BY <1>21, InTable DEF SendMark
  <1>22. ASSUME NEW t \in Senders, SendUnlock(t) PROVE FramesWhole'
    BY <1>22, InTable DEF SendUnlock
  <1>23. CASE UNCHANGED vars
    BY <1>23, FrameFrame
  <1> QED
    BY <1>1, <1>2, <1>3, <1>4, <1>5, <1>6, <1>7, <1>8,
       <1>9, <1>10, <1>11, <1>12, <1>13, <1>14, <1>15, <1>16,
       <1>17, <1>18, <1>19, <1>20, <1>21, <1>22, <1>23
    DEF Next, Acceptor, Handler, RecvReturn, Sending

\* The slot the error path is about to mark has lost its socket.
LEMMA MarkStep ==
    ASSUME Inv, [Next]_vars
    PROVE  MarkInv'
  <1> USE SizeAssumption, NameAssumption
      DEF Inv, Slots, Fds, Senders, vars, tables, acceptor, handlers, senders, Seated, TypeOK, SenderInv, AcceptInv, FdInv, MarkInv
  <1>1. ASSUME NEW c \in Conns, Accept(c) PROVE MarkInv'
    BY <1>1 DEF Accept, FreeFds, Lowest
  <1>2. CASE AcceptError
    BY <1>2 DEF AcceptError
  <1>3. CASE ClientAlloc
    BY <1>3 DEF ClientAlloc, Lowest
  <1>4. CASE ClientAllocFull
    BY <1>4 DEF ClientAllocFull
  <1>5. CASE DropClient
    BY <1>5 DEF DropClient, Closed
  <1>6. CASE SpawnHandler
    BY <1>6 DEF SpawnHandler
  <1>7. ASSUME NEW c \in Conns, HandlerStart(c) PROVE MarkInv'
    BY <1>7 DEF HandlerStart
  <1>8. ASSUME NEW c \in Conns, RecvCall(c) PROVE MarkInv'
    BY <1>8 DEF RecvCall
  <1>9. ASSUME NEW c \in Conns, RecvMsg(c) PROVE MarkInv'
    BY <1>9 DEF RecvMsg
  <1>10. ASSUME NEW c \in Conns, RecvError(c) PROVE MarkInv'
    BY <1>10 DEF RecvError
  <1>11. ASSUME NEW c \in Conns, Handled(c) PROVE MarkInv'
    BY <1>11 DEF Handled
  <1>12. ASSUME NEW c \in Conns, ClientFree(c) PROVE MarkInv'
    BY <1>12 DEF ClientFree
  <1>13. ASSUME NEW c \in Conns, HandlerClose(c) PROVE MarkInv'
    BY <1>13 DEF HandlerClose, Closed
  <1>14. ASSUME NEW t \in Senders, SendLock(t) PROVE MarkInv'
    BY <1>14 DEF SendLock
  <1>15. ASSUME NEW t \in Senders, SendSkip(t) PROVE MarkInv'
    BY <1>15, InTable DEF SendSkip
  <1>16. ASSUME NEW t \in Senders, SendPick(t) PROVE MarkInv'
    BY <1>16, InTable DEF SendPick
  <1>17. ASSUME NEW t \in Senders, SendHead(t) PROVE MarkInv'
    BY <1>17, InTable DEF SendHead
  <1>18. ASSUME NEW t \in Senders, SendBody(t) PROVE MarkInv'
    BY <1>18, InTable DEF SendBody
  <1>19. ASSUME NEW t \in Senders, SendError(t) PROVE MarkInv'
    BY <1>19, InTable DEF SendError
  <1>20. ASSUME NEW t \in Senders, SendClose(t) PROVE MarkInv'
    <2>1. spc[t] = "close" /\ idx[t] \in Slots /\ sock[idx[t]] \in Fds /\ lock = t
      BY <1>20, InTable DEF SendClose
    <2>2. fdtab' = [fdtab EXCEPT ![sock[idx[t]]] = NONE]
      BY <1>20, <2>1 DEF SendClose, Closed
    <2>3. \A u \in Senders : spc'[u] = "mark" => u = t
      BY <1>20, <2>1 DEF SendClose
    <2>4. UNCHANGED <<sock, acceptor, handlers, idx>>
      BY <1>20 DEF SendClose
    <2>5. \A c \in Conns : slot[c] = idx[t] /\ phase[c] = "admitted" => fdtab'[0] = NONE
      BY <2>1, <2>2 DEF AcceptInv
    <2>6. \A f \in Fds : fdtab'[f] \in Conns => sock[idx[t]] # f
      BY <2>1, <2>2
    <2> QED  BY <2>3, <2>4, <2>5, <2>6 DEF MarkInv
  <1>21. ASSUME NEW t \in Senders, SendMark(t) PROVE MarkInv'
    BY <1>21, InTable DEF SendMark
  <1>22. ASSUME NEW t \in Senders, SendUnlock(t) PROVE MarkInv'
    BY <1>22, InTable DEF SendUnlock
  <1>23. CASE UNCHANGED vars
    BY <1>23
  <1> QED
    BY <1>1, <1>2, <1>3, <1>4, <1>5, <1>6, <1>7, <1>8,
       <1>9, <1>10, <1>11, <1>12, <1>13, <1>14, <1>15, <1>16,
       <1>17, <1>18, <1>19, <1>20, <1>21, <1>22, <1>23
    DEF Next, Acceptor, Handler, RecvReturn, Sending

\* Every open connection keeps a thread that will close it.
LEMMA LeakStep ==
    ASSUME Inv, [Next]_vars
    PROVE  NoSocketLeak'
  <1> USE SizeAssumption, NameAssumption
      DEF Inv, Slots, Fds, Senders, vars, tables, acceptor, handlers, senders, Seated, TypeOK, SenderInv, AcceptInv, SlotOwnership, FdInv, MarkInv, NoSocketLeak, Closer
  <1>1. ASSUME NEW c \in Conns, Accept(c) PROVE NoSocketLeak'
    BY <1>1 DEF Accept, FreeFds, Lowest
  <1>2. CASE AcceptError
    BY <1>2 DEF AcceptError
  <1>3. CASE ClientAlloc
    BY <1>3 DEF ClientAlloc, Lowest
  <1>4. CASE ClientAllocFull
    BY <1>4 DEF ClientAllocFull
  <1>5. CASE DropClient
    BY <1>5 DEF DropClient, Closed
  <1>6. CASE SpawnHandler
    BY <1>6 DEF SpawnHandler
  <1>7. ASSUME NEW c \in Conns, HandlerStart(c) PROVE NoSocketLeak'
    BY <1>7 DEF HandlerStart
  <1>8. ASSUME NEW c \in Conns, RecvCall(c) PROVE NoSocketLeak'
    BY <1>8 DEF RecvCall
  <1>9. ASSUME NEW c \in Conns, RecvMsg(c) PROVE NoSocketLeak'
    BY <1>9 DEF RecvMsg
  <1>10. ASSUME NEW c \in Conns, RecvError(c) PROVE NoSocketLeak'
    BY <1>10 DEF RecvError
  <1>11. ASSUME NEW c \in Conns, Handled(c) PROVE NoSocketLeak'
    BY <1>11 DEF Handled
  <1>12. ASSUME NEW c \in Conns, ClientFree(c) PROVE NoSocketLeak'
    BY <1>12 DEF ClientFree
  <1>13. ASSUME NEW c \in Conns, HandlerClose(c) PROVE NoSocketLeak'
    BY <1>13 DEF HandlerClose, Closed
  <1>14. ASSUME NEW t \in Senders, SendLock(t) PROVE NoSocketLeak'
    BY <1>14 DEF SendLock
  <1>15. ASSUME NEW t \in Senders, SendSkip(t) PROVE NoSocketLeak'
    BY <1>15, InTable DEF SendSkip
  <1>16. ASSUME NEW t \in Senders, SendPick(t) PROVE NoSocketLeak'
    BY <1>16, InTable DEF SendPick
  <1>17. ASSUME NEW t \in Senders, SendHead(t) PROVE NoSocketLeak'
    BY <1>17, InTable DEF SendHead
  <1>18. ASSUME NEW t \in Senders, SendBody(t) PROVE NoSocketLeak'
    BY <1>18, InTable DEF SendBody
  <1>19. ASSUME NEW t \in Senders, SendError(t) PROVE NoSocketLeak'
    BY <1>19, InTable DEF SendError
  <1>20. ASSUME NEW t \in Senders, SendClose(t) PROVE NoSocketLeak'
    <2>1. UNCHANGED <<sock, acceptor, handlers>>
      BY <1>20 DEF SendClose
    <2>2. \A f \in Fds : fdtab'[f] # NONE => fdtab'[f] = fdtab[f]
      BY <1>20 DEF SendClose, Closed
    <2>3. \A f \in Fds : fdtab'[f] \in Conns => fdtab'[f] = fdtab[f]
      BY <2>2
    <2>4. fdtab'[0] = LISTEN => fdtab[0] = LISTEN
      BY <2>2
    <2> QED  BY <2>1, <2>3, <2>4 DEF NoSocketLeak, Closer
  <1>21. ASSUME NEW t \in Senders, SendMark(t) PROVE NoSocketLeak'
    <2>1. spc[t] = "mark" /\ idx[t] \in Slots /\ UNCHANGED <<fdtab, acceptor, handlers>>
      BY <1>21, InTable DEF SendMark
    <2>2. \A i \in Slots : i # idx[t] => sock'[i] = sock[i]
      BY <1>21, <2>1 DEF SendMark
    <2> QED  BY <2>1, <2>2 DEF NoSocketLeak, Closer, MarkInv
  <1>22. ASSUME NEW t \in Senders, SendUnlock(t) PROVE NoSocketLeak'
    <2>1. UNCHANGED <<fdtab, sock, acceptor, slot, hsock>>
      BY <1>22 DEF SendUnlock
    <2>2. \A c \in Conns : \/ phase'[c] = phase[c]
                           \/ phase[c] = "conn" /\ phase'[c] = "recv"
      <3>1. CASE t \in Broadcasters
        BY <1>22, <3>1 DEF SendUnlock
      <3>2. CASE t \in Conns /\ t \notin Broadcasters
        <4>1. phase[t] = "conn" /\ phase' = [phase EXCEPT ![t] = "recv"]
          BY <1>22, <3>2 DEF SendUnlock
        <4> QED  BY <3>2, <4>1
      <3> QED  BY <3>1, <3>2
    <2> QED  BY <2>1, <2>2 DEF NoSocketLeak, Closer
  <1>23. CASE UNCHANGED vars
    BY <1>23
  <1> QED
    BY <1>1, <1>2, <1>3, <1>4, <1>5, <1>6, <1>7, <1>8,
       <1>9, <1>10, <1>11, <1>12, <1>13, <1>14, <1>15, <1>16,
       <1>17, <1>18, <1>19, <1>20, <1>21, <1>22, <1>23
    DEF Next, Acceptor, Handler, RecvReturn, Sending

-----------------------------------------------------------------------------
\* The invariant holds in every reachable state.
THEOREM Invariance == Spec => []Inv
  <1>1. Inv /\ [Next]_vars => Inv'
    BY TypeStep, SenderStep, AcceptStep, SlotStep, FdStep, FrameStep, MarkStep, LeakStep
    DEF Inv
  <1> QED  BY InitInv, <1>1, PTL DEF Spec

\* The client table, the threads' locals and lwIP's table keep their types.
THEOREM TypeCorrect == Spec => []TypeOK
  BY Invariance, PTL DEF Inv

\* clients_used and the threads agree, for any number of slots and clients, on
\* who owns each slot: none is lost and none is given out twice.
THEOREM SlotsOwned == Spec => []SlotOwnership
  BY Invariance, PTL DEF Inv

\* psc_send and psc_send_one never put one message inside another on an open
\* connection, even though socket numbers are closed and reused under them.
THEOREM FramesAreWhole == Spec => []FramesWhole
  BY Invariance, PTL DEF Inv

\* While the server listens, no open client socket is forgotten by its threads.
THEOREM NoLeak == Spec => []NoSocketLeak
  BY Invariance, PTL DEF Inv

-----------------------------------------------------------------------------
(***************************************************************************)
(* Whose messages a handler gets.  An open connection's number is the one  *)
(* its handler has, or the handler has none: C->sock was marked before the *)
(* handler read it.  So recv blocks on the handler's own connection or     *)
(* fails, as long as that connection is open.                              *)
(***************************************************************************)
RecvInv ==
    \A c \in Conns :
        /\ phase[c] # "wait" => waitOn[c] = NONE
        /\ phase[c] # "handle" => rxfrom[c] = NONE
        /\ \A f \in Fds : fdtab[f] = c =>
            /\ phase[c] \in {"accepted", "admitted"} => client = f
            /\ phase[c] = "start" => sock[slot[c]] \in {f, -1}
            /\ phase[c] \in {"conn", "recv", "wait", "handle"} => hsock[c] \in {f, -1}
            /\ waitOn[c] \in {c, NONE} /\ rxfrom[c] \in {c, NONE}

\* No step puts a handler on the connection of another while its own is open.
LEMMA RecvStep ==
    ASSUME Inv, RecvInv, [Next]_vars
    PROVE  RecvInv'
  <1> USE SizeAssumption, NameAssumption
      DEF Inv, Slots, Fds, Senders, vars, tables, acceptor, handlers, senders, Seated, TypeOK, AcceptInv, SlotOwnership, FdInv, RecvInv
  <1>1. ASSUME NEW c \in Conns, Accept(c) PROVE RecvInv'
    BY <1>1 DEF Accept, FreeFds, Lowest
  <1>2. CASE AcceptError
    BY <1>2 DEF AcceptError
  <1>3. CASE ClientAlloc
    BY <1>3 DEF ClientAlloc, Lowest
  <1>4. CASE ClientAllocFull
    BY <1>4 DEF ClientAllocFull
  <1>5. CASE DropClient
    BY <1>5 DEF DropClient, Closed
  <1>6. CASE SpawnHandler
    BY <1>6 DEF SpawnHandler
  <1>7. ASSUME NEW c \in Conns, HandlerStart(c) PROVE RecvInv'
    BY <1>7 DEF HandlerStart
  <1>8. ASSUME NEW c \in Conns, RecvCall(c) PROVE RecvInv'
    BY <1>8 DEF RecvCall, OpenOn
  <1>9. ASSUME NEW c \in Conns, RecvMsg(c) PROVE RecvInv'
    BY <1>9 DEF RecvMsg
  <1>10. ASSUME NEW c \in Conns, RecvError(c) PROVE RecvInv'
    BY <1>10 DEF RecvError
  <1>11. ASSUME NEW c \in Conns, Handled(c) PROVE RecvInv'
    BY <1>11 DEF Handled
  <1>12. ASSUME NEW c \in Conns, ClientFree(c) PROVE RecvInv'
    BY <1>12 DEF ClientFree
  <1>13. ASSUME NEW c \in Conns, HandlerClose(c) PROVE RecvInv'
    BY <1>13 DEF HandlerClose, Closed
  <1>14. ASSUME NEW t \in Senders, SendLock(t) PROVE RecvInv'
    BY <1>14, InTable DEF SendLock
  <1>15. ASSUME NEW t \in Senders, SendSkip(t) PROVE RecvInv'
    BY <1>15, InTable DEF SendSkip
  <1>16. ASSUME NEW t \in Senders, SendPick(t) PROVE RecvInv'
    BY <1>16, InTable DEF SendPick
  <1>17. ASSUME NEW t \in Senders, SendHead(t) PROVE RecvInv'
    BY <1>17, InTable DEF SendHead
  <1>18. ASSUME NEW t \in Senders, SendBody(t) PROVE RecvInv'
    BY <1>18, InTable DEF SendBody
  <1>19. ASSUME NEW t \in Senders, SendError(t) PROVE RecvInv'
    BY <1>19, InTable DEF SendError
  <1>20. ASSUME NEW t \in Senders, SendClose(t) PROVE RecvInv'
    BY <1>20, InTable DEF SendClose, Closed
  <1>21. ASSUME NEW t \in Senders, SendMark(t) PROVE RecvInv'
    BY <1>21, InTable DEF SendMark
  <1>22. ASSUME NEW t \in Senders, SendUnlock(t) PROVE RecvInv'
    BY <1>22, InTable DEF SendUnlock, SenderInv
  <1>23. CASE UNCHANGED vars
    BY <1>23
  <1> QED
    BY <1>1, <1>2, <1>3, <1>4, <1>5, <1>6, <1>7, <1>8,
       <1>9, <1>10, <1>11, <1>12, <1>13, <1>14, <1>15, <1>16,
       <1>17, <1>18, <1>19, <1>20, <1>21, <1>22, <1>23
    DEF Next, Acceptor, Handler, RecvReturn, Sending

\* While its connection is open a handler gets that connection's messages only,
\* for any number of clients, slots and socket numbers, and also after the
\* listening socket was lost.
THEOREM OwnMessages == Spec => []OwnWhileOpen
  <1>1. Init => RecvInv
    <2> SUFFICES ASSUME Init PROVE RecvInv
      OBVIOUS
    <2>1. \A c \in Conns : phase[c] = "new"
      BY DEF Init
    <2>2. \A c \in Conns : waitOn[c] = NONE /\ rxfrom[c] = NONE
      BY Zenon DEF Init
    <2> QED  BY <2>1, <2>2 DEF RecvInv
  <1>2. Inv /\ RecvInv /\ [Next]_vars => RecvInv'
    BY RecvStep
  <1>3. RecvInv => OwnWhileOpen
    BY DEF RecvInv, OwnWhileOpen, IsOpen
  <1> QED  BY <1>1, <1>2, <1>3, Invariance, PTL DEF Spec

-----------------------------------------------------------------------------
(* PscServer implements ClientPool. *)

\* What the refinement mapping makes of each phase.
LEMMA StatusFacts ==
    ASSUME NEW p \in Phases
    PROVE  /\ p \in Seated <=> StatusOf(p) = "served"
           /\ p \in {"new", "accepted"} <=> StatusOf(p) = "waiting"
           /\ p \in {"close", "dead"} <=> StatusOf(p) = "left"
           /\ p = "refused" <=> StatusOf(p) = "refused"
           /\ p = "lost" <=> StatusOf(p) = "lost"
  BY DEF Phases, Seated, StatusOf

\* A step that seats and unseats nobody is a stuttering step of the pool.
LEMMA PoolStutter ==
    ASSUME \A c \in Conns : /\ StatusOf(phase'[c]) = StatusOf(phase[c])
                            /\ phase'[c] \in Seated <=> phase[c] \in Seated
                            /\ slot'[c] = slot[c]
    PROVE  UNCHANGED Pool!vars
  BY DEF Pool!vars

\* Likewise when no phase and no slot changes at all.
LEMMA PoolUnchanged ==
    ASSUME UNCHANGED <<phase, slot>>
    PROVE  UNCHANGED Pool!vars
  BY DEF Pool!vars

\* The mapped status and seat after a step that moves connection c to phase p.
LEMMA PoolChange ==
    ASSUME NEW c \in Conns, NEW p \in Phases, phase \in [Conns -> Phases],
           phase' = [phase EXCEPT ![c] = p],
           \A d \in Conns \ {c} : slot'[d] = slot[d]
    PROVE  /\ [d \in Conns |-> StatusOf(phase'[d])]
                = [[d \in Conns |-> StatusOf(phase[d])] EXCEPT ![c] = StatusOf(p)]
           /\ [d \in Conns |-> IF phase'[d] \in Seated THEN slot'[d] ELSE -1]
                = [[d \in Conns |-> IF phase[d] \in Seated THEN slot[d] ELSE -1]
                     EXCEPT ![c] = IF p \in Seated THEN slot'[c] ELSE -1]
  OBVIOUS

\* Every step of the server is a step of the pool or leaves it alone.
LEMMA PoolStep ==
    ASSUME Inv, [Next]_vars
    PROVE  [Pool!Next]_(Pool!vars)
  <1> USE NameAssumption, SizeAssumption DEF Inv, TypeOK
  <1>1. ASSUME NEW c \in Conns, Accept(c) PROVE UNCHANGED Pool!vars
    <2>1. phase[c] = "new" /\ phase' = [phase EXCEPT ![c] = "accepted"] /\ slot' = slot
      BY <1>1 DEF Accept
    <2> QED  BY <2>1, PoolStutter DEF StatusOf, Seated
  <1>2. CASE AcceptError
    <2>1. PICK c \in Conns : phase[c] = "new" /\ phase' = [phase EXCEPT ![c] = "lost"]
      BY <1>2 DEF AcceptError
    <2>2. slot' = slot
      BY <1>2 DEF AcceptError
    <2>3. /\ StatusOf("new") = "waiting" /\ StatusOf("lost") = "lost"
          /\ "new" \notin Seated /\ "lost" \notin Seated /\ "lost" \in Phases
      BY DEF StatusOf, Seated, Phases
    <2>4. [d \in Conns |-> IF phase'[d] \in Seated THEN slot'[d] ELSE -1]
            = [d \in Conns |-> IF phase[d] \in Seated THEN slot[d] ELSE -1]
      BY <2>1, <2>2, <2>3
    <2>5. Pool!Lose(c)
      BY <2>1, <2>2, <2>3, <2>4, PoolChange DEF Pool!Lose
    <2> QED  BY <2>5 DEF Pool!Next
  <1>3. CASE ClientAlloc
    <2>1. PICK i \in Slots \ clients_used : slot' = [slot EXCEPT ![aconn] = i]
      BY <1>3 DEF ClientAlloc, Lowest
    <2>2. /\ aconn \in Conns /\ phase[aconn] = "accepted"
          /\ phase' = [phase EXCEPT ![aconn] = "admitted"]
      BY <1>3 DEF ClientAlloc, AcceptInv
    <2>3. i \notin Pool!Taken
      <3>1. \A d \in Conns : StatusOf(phase[d]) = "served" =>
              phase[d] \in Seated /\ slot[d] \in clients_used
        BY StatusFacts DEF SlotOwnership
      <3> HIDE DEF Inv, TypeOK
      <3> QED  BY <3>1 DEF Pool!Taken
    <2>4. /\ StatusOf("accepted") = "waiting" /\ StatusOf("admitted") = "served"
          /\ "admitted" \in Seated /\ "admitted" \in Phases
      BY DEF StatusOf, Seated, Phases
    <2>5. slot'[aconn] = i /\ \A d \in Conns \ {aconn} : slot'[d] = slot[d]
      BY <2>1, <2>2
    <2>6. Pool!Admit(aconn, i)
      BY <2>2, <2>3, <2>4, <2>5, PoolChange DEF Pool!Admit
    <2> QED  BY <2>2, <2>6 DEF Pool!Next
  <1>4. CASE ClientAllocFull
    <2>1. /\ aconn \in Conns /\ phase[aconn] = "accepted" /\ slot' = slot
          /\ phase' = [phase EXCEPT ![aconn] = "refused"] /\ Slots \subseteq clients_used
      BY <1>4 DEF ClientAllocFull, AcceptInv
    <2>2. Slots \subseteq Pool!Taken
      BY <2>1, StatusFacts DEF Pool!Taken, SlotOwnership
    <2>3. /\ StatusOf("accepted") = "waiting" /\ StatusOf("refused") = "refused"
          /\ "accepted" \notin Seated /\ "refused" \notin Seated /\ "refused" \in Phases
      BY DEF StatusOf, Seated, Phases
    <2>4. [d \in Conns |-> IF phase'[d] \in Seated THEN slot'[d] ELSE -1]
            = [d \in Conns |-> IF phase[d] \in Seated THEN slot[d] ELSE -1]
      BY <2>1, <2>3
    <2>5. Pool!Refuse(aconn)
      BY <2>1, <2>2, <2>3, <2>4, PoolChange DEF Pool!Refuse
    <2> QED  BY <2>1, <2>5 DEF Pool!Next
  <1>5. CASE DropClient
    BY <1>5, PoolUnchanged DEF DropClient, handlers
  <1>6. CASE SpawnHandler
    <2>1. /\ aconn \in Conns /\ phase[aconn] = "admitted" /\ slot' = slot
          /\ phase' = [phase EXCEPT ![aconn] = "start"]
      BY <1>6 DEF SpawnHandler, AcceptInv
    <2> QED  BY <2>1, PoolStutter DEF StatusOf, Seated
  <1>7. ASSUME NEW c \in Conns, HandlerStart(c) PROVE UNCHANGED Pool!vars
    BY <1>7, PoolStutter DEF HandlerStart, StatusOf, Seated
  <1>8. ASSUME NEW c \in Conns, RecvCall(c) PROVE UNCHANGED Pool!vars
    BY <1>8, PoolStutter DEF RecvCall, StatusOf, Seated
  <1>9. ASSUME NEW c \in Conns, RecvMsg(c) PROVE UNCHANGED Pool!vars
    BY <1>9, PoolStutter DEF RecvMsg, StatusOf, Seated
  <1>10. ASSUME NEW c \in Conns, RecvError(c) PROVE UNCHANGED Pool!vars
    BY <1>10, PoolStutter DEF RecvError, StatusOf, Seated
  <1>11. ASSUME NEW c \in Conns, Handled(c) PROVE UNCHANGED Pool!vars
    BY <1>11, PoolStutter DEF Handled, StatusOf, Seated
  <1>12. ASSUME NEW c \in Conns, ClientFree(c) PROVE Pool!Next
    <2>1. /\ phase[c] = "free" /\ phase' = [phase EXCEPT ![c] = "close"]
          /\ slot' = [slot EXCEPT ![c] = 0]
      BY <1>12 DEF ClientFree
    <2>2. /\ StatusOf("free") = "served" /\ StatusOf("close") = "left"
          /\ "close" \notin Seated /\ "close" \in Phases
      BY DEF StatusOf, Seated, Phases
    <2>3. Pool!Leave(c)
      BY <2>1, <2>2, PoolChange DEF Pool!Leave
    <2> QED  BY <2>3 DEF Pool!Next
  <1>13. ASSUME NEW c \in Conns, HandlerClose(c) PROVE UNCHANGED Pool!vars
    BY <1>13, PoolStutter DEF HandlerClose, StatusOf, Seated
  <1>14. ASSUME NEW t \in Senders, SendLock(t) \/ Sending(t) PROVE UNCHANGED Pool!vars
    <2>1. CASE SendUnlock(t) /\ t \notin Broadcasters
      <3>1. /\ t \in Conns /\ phase[t] = "conn" /\ slot' = slot
            /\ phase' = [phase EXCEPT ![t] = "recv"]
        BY <2>1 DEF SendUnlock, SenderInv, Senders
      <3> QED  BY <3>1, PoolStutter DEF StatusOf, Seated
    <2>2. CASE SendUnlock(t) /\ t \in Broadcasters
      BY <2>2, PoolUnchanged DEF SendUnlock
    <2>3. CASE ~SendUnlock(t)
      BY <1>14, <2>3, PoolUnchanged
      DEF Sending, SendLock, SendSkip, SendPick, SendHead, SendBody, SendError, SendClose,
          SendMark, handlers
    <2> QED  BY <2>1, <2>2, <2>3
  <1>15. CASE UNCHANGED vars
    BY <1>15, PoolUnchanged DEF vars, handlers
  <1> QED
    BY <1>1, <1>2, <1>3, <1>4, <1>5, <1>6, <1>7, <1>8, <1>9, <1>10, <1>11, <1>12, <1>13,
       <1>14, <1>15
    DEF Next, Acceptor, Handler, RecvReturn

\* psc_run with its handlers implements the pool of seats: whoever connects is
\* served while a slot is free and turned away only when every slot is in use.
THEOREM ImplementsPool == Spec => PoolSpec
  <1>1. Init => Pool!Init
    BY DEF Init, Pool!Init, StatusOf, Seated
  <1> QED  BY <1>1, PoolStep, Invariance, PTL DEF Spec, PoolSpec, Pool!Spec

=============================================================================
