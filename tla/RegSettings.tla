----------------------------- MODULE RegSettings ----------------------------
(***************************************************************************)
(* The unit's own registers: reg_settings of control.c, which client_msg   *)
(* calls in each client's handler thread, and the console menu of          *)
(* console.c.  They take no lock.  A latch reset and a forced trip are     *)
(* pulses: 0, sleep(1), 1, with any step of another thread in between.     *)
(*                                                                         *)
(* A message body is at most two words here, and every word remembers the  *)
(* connection that sent it.  The body goes into the rxbuf of the client's  *)
(* slot, and reg_settings reads two words of it whatever came.             *)
(*                                                                         *)
(* Connections are numbered as they are accepted.  handle_client receives  *)
(* on the socket number it copied at its start.  When psc_send has closed  *)
(* that socket, the number may name any connection accepted since, so what *)
(* the handler reads may be another client's (PscServer has the numbers    *)
(* themselves; here it is enough to know since when).                      *)
(***************************************************************************)
EXTENDS Integers, Sequences, FiniteSets

CONSTANTS
    Slots,          \* slots of the client table
    Console,        \* the console thread
    Bodies,         \* the message bodies that clients send, as words
    MaxConns,       \* bound: connections
    MaxMsgs         \* bound: messages and keys

ASSUME RegAssumption == /\ Console \notin Slots /\ MaxConns \in Nat /\ MaxMsgs \in Nat
                        /\ \A b \in Bodies : b \in Seq(Nat) /\ Len(b) =< 2

Threads == Slots \cup {Console}
Pulsed == {"LATCH_RESET", "ACIS_FORCE_TRIP"}
Regs == Pulsed \cup {"ACIS_KEYLOCK", "FP_LEDS_REG", "EVR_FE_TRIGNUM_REG", "EVR_FE_TRIGDLY_REG"}

VARIABLES
    reg,            \* the registers
    rxbuf,          \* rxbuf[s]: the first two words of the slot's buffer
    conn,           \* conn[s]: the connection in the slot, 0 if it is free
    conns,          \* connections so far
    gone,           \* gone[s]: 0, or the next connection's number when psc_send closed
                    \* the socket that the handler of s still uses
    msgs,           \* messages and keys so far
    pc,             \* pc[t]: "idle", a register whose pulse t is in, or "keylock"
    keylock_val,    \* the console's copy of the key lock
    overlap,        \* history: threads whose pulse met another on its register
    pv,             \* history: a client locked since the console last wrote the lock
    used            \* history: of the words reg_settings read last, who used them, who
                    \* sent them and gone at that time

vars == <<reg, rxbuf, conn, conns, gone, msgs, pc, keylock_val, overlap, pv, used>>

Word(c, v) == [from |-> c, val |-> v]

\* Mutant: the buffer is left as it was.
memset_not(buf) == buf

\* What memset leaves of a buffer.
memset(buf) == [n \in 1 .. 2 |-> Word(0, 0)]

\* main has set up the event receiver; rdl gives the other registers.
Init ==
    /\ reg = [r \in Regs |-> CASE r = "FP_LEDS_REG" -> 0
                               [] r = "EVR_FE_TRIGNUM_REG" -> 32
                               [] r = "EVR_FE_TRIGDLY_REG" -> 1000
                               [] OTHER -> 1]
    /\ rxbuf = [s \in Slots |-> [n \in 1 .. 2 |-> Word(0, 0)]]
    /\ conn = [s \in Slots |-> 0] /\ conns = 0 /\ msgs = 0
    /\ gone = [s \in Slots |-> 0]
    /\ pc = [t \in Threads |-> "idle"] /\ keylock_val = 1
    /\ overlap = {} /\ pv = FALSE /\ used = {}

-----------------------------------------------------------------------------
(* Connections: psc_client_alloc and psc_client_free both clear the slot. *)

Connect(s) ==
    /\ conn[s] = 0 /\ conns < MaxConns
    /\ conns' = conns + 1
    /\ conn' = [conn EXCEPT ![s] = conns + 1]
    /\ rxbuf' = [rxbuf EXCEPT ![s] = memset(@)]
    /\ UNCHANGED <<reg, gone, msgs, pc, keylock_val, overlap, pv, used>>

\* psc_run finds no free slot and closes the new socket; it was a connection.
Refuse ==
    /\ \A s \in Slots : conn[s] # 0
    /\ conns < MaxConns /\ conns' = conns + 1
    /\ UNCHANGED <<reg, rxbuf, conn, gone, msgs, pc, keylock_val, overlap, pv, used>>

\* psc_send or psc_send_one of any thread fails and closes the socket.
SendFails(s) ==
    /\ conn[s] # 0 /\ gone[s] = 0
    /\ gone' = [gone EXCEPT ![s] = conns + 1]
    /\ UNCHANGED <<reg, rxbuf, conn, conns, msgs, pc, keylock_val, overlap, pv, used>>

\* The handler notices only when it is back in recv.
Disconnect(s) ==
    /\ conn[s] # 0 /\ pc[s] = "idle"
    /\ conn' = [conn EXCEPT ![s] = 0] /\ gone' = [gone EXCEPT ![s] = 0]
    /\ rxbuf' = [rxbuf EXCEPT ![s] = memset(@)]
    /\ UNCHANGED <<reg, conns, msgs, pc, keylock_val, overlap, pv, used>>

-----------------------------------------------------------------------------
(* What a thread does with the registers. *)

Write(r, v) == reg' = [reg EXCEPT ![r] = v] /\ UNCHANGED <<pc, overlap>>

\* The first half of latch_reset_trig, Acis_ForceTrip, resetFaults and
\* AcisForceTrip: the register goes to 0 and the thread sleeps.
Pulse(t, r) ==
    /\ reg' = [reg EXCEPT ![r] = 0]
    /\ pc' = [pc EXCEPT ![t] = r]
    /\ LET others == {u \in Threads : pc[u] = r}
       IN  overlap' = IF others = {} THEN overlap ELSE overlap \cup others \cup {t}

\* Mutant: the pulse ends low when another one was running.
PulseEndLow(t) ==
    /\ pc[t] \in Pulsed
    /\ reg' = [reg EXCEPT ![pc[t]] = IF t \in overlap THEN 0 ELSE 1]
    /\ pc' = [pc EXCEPT ![t] = "idle"] /\ overlap' = overlap \ {t}
    /\ UNCHANGED <<rxbuf, conn, conns, gone, msgs, keylock_val, pv, used>>

\* The second half, after sleep(1).
PulseEnd(t) ==
    /\ pc[t] \in Pulsed
    /\ reg' = [reg EXCEPT ![pc[t]] = 1]
    /\ pc' = [pc EXCEPT ![t] = "idle"] /\ overlap' = overlap \ {t}
    /\ UNCHANGED <<rxbuf, conn, conns, gone, msgs, keylock_val, pv, used>>

\* reg_settings: addr and data are the two words of the buffer.
reg_settings(s, buf) ==
    LET addr == buf[1].val
        data == buf[2].val
        Nothing == UNCHANGED <<reg, pc, overlap>>
    IN  /\ used' = {[by |-> conn[s], from |-> buf[n].from, gone |-> gone[s]] : n \in 1 .. 2}
        /\ pv' = (pv \/ (addr = 20 /\ data = 1))
        /\ CASE addr = 0 -> Write("EVR_FE_TRIGNUM_REG", data)
             [] addr = 4 -> Write("EVR_FE_TRIGDLY_REG", data)
             [] addr = 8 -> IF data = 1 THEN Pulse(s, "LATCH_RESET") ELSE Nothing
             [] addr = 12 -> Write("FP_LEDS_REG", data)
             [] addr = 16 -> IF data = 1 THEN Pulse(s, "ACIS_FORCE_TRIP") ELSE Nothing
             [] addr = 20 -> IF data = 1 THEN Write("ACIS_KEYLOCK", 1) ELSE Nothing
             [] OTHER -> Nothing            \* SOFT_TRIG_MSG does nothing either

\* The connections whose words recv() may return to the handler of s.
Senders(s) == {conn[s]} \cup IF gone[s] = 0 THEN {} ELSE gone[s] .. conns

\* A message is received into rxbuf over what was there, and client_msg
\* handles it: id 1 here, ids 2 and 3 in ArtixControl, others not at all.  A
\* socket that changes hands may do so between the two words.
ClientMsg(s, id, body, from) ==
    /\ conn[s] # 0 /\ pc[s] = "idle" /\ msgs < MaxMsgs
    /\ msgs' = msgs + 1
    /\ LET buf == [n \in 1 .. 2 |-> IF n =< Len(body) THEN Word(from[n], body[n]) ELSE rxbuf[s][n]]
       IN  /\ rxbuf' = [rxbuf EXCEPT ![s] = buf]
           /\ IF id = 1 THEN reg_settings(s, buf) ELSE UNCHANGED <<reg, pc, overlap, pv, used>>
    /\ UNCHANGED <<conn, conns, gone, keylock_val>>

-----------------------------------------------------------------------------
(* exec_menu: one key. *)

ConsoleKey ==
    /\ pc[Console] = "idle" /\ msgs < MaxMsgs
    /\ msgs' = msgs + 1
    /\ \/ Pulse(Console, "LATCH_RESET") /\ UNCHANGED keylock_val           \* B
       \/ Pulse(Console, "ACIS_FORCE_TRIP") /\ UNCHANGED keylock_val       \* C
       \/ /\ keylock_val' = 1 - keylock_val                                \* D
          /\ pc' = [pc EXCEPT ![Console] = "keylock"] /\ UNCHANGED <<reg, overlap>>
    /\ UNCHANGED <<rxbuf, conn, conns, gone, pv, used>>

\* Mutant: the register gets the value the lock had before.
ConsoleKeylockOld ==
    /\ pc[Console] = "keylock"
    /\ reg' = [reg EXCEPT !["ACIS_KEYLOCK"] = 1 - keylock_val]
    /\ pc' = [pc EXCEPT ![Console] = "idle"] /\ pv' = FALSE
    /\ UNCHANGED <<rxbuf, conn, conns, gone, msgs, keylock_val, overlap, used>>

ConsoleKeylock ==
    /\ pc[Console] = "keylock"
    /\ reg' = [reg EXCEPT !["ACIS_KEYLOCK"] = keylock_val]
    /\ pc' = [pc EXCEPT ![Console] = "idle"] /\ pv' = FALSE
    /\ UNCHANGED <<rxbuf, conn, conns, gone, msgs, keylock_val, overlap, used>>

Next ==
    \/ \E s \in Slots : Connect(s) \/ Disconnect(s) \/ SendFails(s)
    \/ Refuse
    \/ \E s \in Slots, id \in {1, 5}, body \in Bodies :
          \E from \in [1 .. Len(body) -> Senders(s)] : ClientMsg(s, id, body, from)
    \/ \E t \in Threads : PulseEnd(t)
    \/ ConsoleKey \/ ConsoleKeylock

Spec == Init /\ [][Next]_vars

-----------------------------------------------------------------------------
(* Properties. *)

\* The type invariant, checked as a part of PulsesInStep.
TypeOK ==
    /\ reg \in [Regs -> Nat] /\ \A r \in Pulsed : reg[r] \in {0, 1}
    /\ conn \in [Slots -> 0 .. MaxConns] /\ gone \in [Slots -> 0 .. MaxConns + 1]
    /\ \A s \in Slots : conn[s] =< conns /\ (gone[s] # 0 => conn[s] < gone[s])
    /\ pc \in [Threads -> Pulsed \cup {"idle", "keylock"}]
    /\ \A s \in Slots : /\ pc[s] # "keylock" /\ (conn[s] = 0 => pc[s] = "idle")
                        /\ DOMAIN rxbuf[s] = 1 .. 2
    /\ keylock_val \in {0, 1} /\ pv \in BOOLEAN

\* A message shorter than two words makes reg_settings use old words of the
\* buffer, and a socket closed by psc_send gives handle_client the words of
\* whoever got its number.  Each word that reg_settings uses is nevertheless a
\* zero of memset, the connection's own, or, after psc_send had closed its
\* socket, one of a connection accepted after that: what an earlier client left
\* in the slot is never used, and nothing foreign while the socket is open.
OwnWords ==
    \A u \in used : u.from \in {0, u.by} \/ (u.gone # 0 /\ u.from >= u.gone)

\* However the pulses of clients and console overlap, an output is low only
\* while some thread is in its pulse, so none is left low; and a pulse lasts its
\* whole second unless another one on the same register overlapped it: then the
\* first to end ends both.
PulsesInStep ==
    /\ TypeOK
    /\ \A r \in Pulsed : reg[r] = 0 => \E t \in Threads : pc[t] = r
    /\ \A t \in Threads : pc[t] \in Pulsed /\ reg[pc[t]] = 1 => t \in overlap

\* The console's toggle starts from the true state of the key lock, unless a
\* client locked it since the console last wrote it; and then its copy errs on
\* one side only, it may be unlocked while the register is locked: the next
\* toggle of a copy that is wrong does nothing, it never unlocks.
KeylockInStep ==
    pc[Console] # "keylock" =>
        /\ keylock_val =< reg["ACIS_KEYLOCK"]
        /\ ~pv => keylock_val = reg["ACIS_KEYLOCK"]
=============================================================================
