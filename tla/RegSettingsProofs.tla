-------------------------- MODULE RegSettingsProofs -------------------------
(***************************************************************************)
(* Proofs about RegSettings for any number of slots, connections, messages *)
(* and message bodies.                                                     *)
(***************************************************************************)
EXTENDS RegSettings, TLAPS

(***************************************************************************)
(* The inductive invariant.  Of the buffers: every word is a zero of       *)
(* memset, came from the connection that has the slot, or came after its   *)
(* socket was closed from one accepted since.  Of the pulses:              *)
(* two threads in the pulse of one register have both been noted in        *)
(* overlap, so that whoever is left when the first of them ends is there.  *)
(***************************************************************************)
BufferInv ==
    /\ conns \in 0 .. MaxConns
    /\ rxbuf \in [Slots -> [1 .. 2 -> [from : Nat, val : Nat]]]
    /\ \A s \in Slots, n \in 1 .. 2 :
          rxbuf[s][n].from \in {0, conn[s]} \/ (gone[s] # 0 /\ rxbuf[s][n].from >= gone[s])
    /\ \A s \in Slots : conn[s] = 0 => gone[s] = 0

OverlapInv ==
    \A t, u \in Threads : t # u /\ pc[t] = pc[u] /\ pc[t] \in Pulsed => t \in overlap

Inv == BufferInv /\ OwnWords /\ OverlapInv /\ PulsesInStep /\ KeylockInStep

-----------------------------------------------------------------------------
\* The registers that a pulse drives are none of those that are written.
LEMMA RegNames ==
    /\ Pulsed \subseteq Regs
    /\ {"ACIS_KEYLOCK", "FP_LEDS_REG", "EVR_FE_TRIGNUM_REG", "EVR_FE_TRIGDLY_REG"} \subseteq Regs \ Pulsed
    /\ {"idle", "keylock"} \cap Pulsed = {}
  BY DEF Pulsed, Regs

\* After start-up every buffer is clear and no output is low.
LEMMA InitInv == Init => Inv
  <1> SUFFICES ASSUME Init PROVE Inv
    OBVIOUS
  <1> USE RegAssumption DEF Init
  <1>1. reg \in [Regs -> Nat] /\ \A r \in Pulsed : reg[r] = 1
    BY DEF Regs, Pulsed
  <1>2. reg["ACIS_KEYLOCK"] = 1
    BY DEF Regs
  <1>3. TypeOK
    <2>1. /\ conn \in [Slots -> 0 .. MaxConns] /\ gone \in [Slots -> 0 .. MaxConns + 1]
          /\ \A s \in Slots : conn[s] =< conns /\ gone[s] = 0
          /\ \A s \in Slots : DOMAIN rxbuf[s] = 1 .. 2
      OBVIOUS
    <2>2. /\ pc \in [Threads -> Pulsed \cup {"idle", "keylock"}]
          /\ \A s \in Slots : pc[s] # "keylock" /\ pc[s] = "idle"
      BY DEF Threads
    <2>3. keylock_val \in {0, 1} /\ pv \in BOOLEAN
      OBVIOUS
    <2>4. reg \in [Regs -> Nat] /\ \A r \in Pulsed : reg[r] \in {0, 1}
      BY <1>1
    <2> QED  BY ONLY <2>1, <2>2, <2>3, <2>4 DEF TypeOK
  <1>4. BufferInv /\ OwnWords
    BY DEF BufferInv, OwnWords, Word
  <1>5. OverlapInv /\ PulsesInStep
    BY <1>1, <1>3, RegNames DEF OverlapInv, PulsesInStep
  <1>6. KeylockInStep
    BY <1>2 DEF KeylockInStep
  <1> QED  BY <1>4, <1>5, <1>6 DEF Inv

-----------------------------------------------------------------------------
(* The effects on the registers, apart from who causes them. *)

\* What the invariant says of reg, pc and overlap.
PulseInv ==
    /\ reg \in [Regs -> Nat] /\ (\A r \in Pulsed : reg[r] \in {0, 1})
    /\ pc \in [Threads -> Pulsed \cup {"idle", "keylock"}]
    /\ OverlapInv
    /\ \A r \in Pulsed : reg[r] = 0 => \E t \in Threads : pc[t] = r
    /\ \A t \in Threads : pc[t] \in Pulsed /\ reg[pc[t]] = 1 => t \in overlap

\* A thread that is idle begins a pulse.
LEMMA PulseStep ==
    ASSUME PulseInv, NEW t \in Threads, pc[t] = "idle", NEW r \in Pulsed, Pulse(t, r)
    PROVE  /\ PulseInv' /\ reg'["ACIS_KEYLOCK"] = reg["ACIS_KEYLOCK"]
           /\ pc' = [pc EXCEPT ![t] = r]
  <1>1. /\ reg' = [reg EXCEPT ![r] = 0] /\ pc' = [pc EXCEPT ![t] = r]
        /\ overlap \subseteq overlap'
        /\ \A u \in Threads : pc[u] = r => u \in overlap' /\ t \in overlap'
    BY DEF Pulse
  <1>2. reg' \in [Regs -> Nat] /\ (\A q \in Pulsed : reg'[q] \in {0, 1})
    BY <1>1, RegNames DEF PulseInv
  <1>3. pc' \in [Threads -> Pulsed \cup {"idle", "keylock"}]
    BY <1>1 DEF PulseInv
  <1>4. OverlapInv'
    BY <1>1, RegNames DEF PulseInv, OverlapInv
  <1>5. \A q \in Pulsed : reg'[q] = 0 => \E u \in Threads : pc'[u] = q
    <2> SUFFICES ASSUME NEW q \in Pulsed, reg'[q] = 0 PROVE \E u \in Threads : pc'[u] = q
      OBVIOUS
    <2>1. CASE q = r
      BY <1>1, <2>1 DEF PulseInv
    <2>2. CASE q # r
      <3>1. PICK u \in Threads : pc[u] = q
        BY <1>1, <2>2, RegNames DEF PulseInv
      <3>2. u # t
        BY <3>1, RegNames
      <3> QED  BY <1>1, <3>1, <3>2 DEF PulseInv
    <2> QED  BY <2>1, <2>2
  <1>6. \A u \in Threads : pc'[u] \in Pulsed /\ reg'[pc'[u]] = 1 => u \in overlap'
    <2> SUFFICES ASSUME NEW u \in Threads, pc'[u] \in Pulsed, reg'[pc'[u]] = 1 PROVE u \in overlap'
      OBVIOUS
    <2>1. pc'[u] # r
      BY <1>1, RegNames DEF PulseInv
    <2>2. u # t /\ pc'[u] = pc[u]
      BY <1>1, <2>1 DEF PulseInv
    <2>3. reg'[pc[u]] = reg[pc[u]]
      BY <1>1, <2>1, <2>2, RegNames DEF PulseInv
    <2> QED  BY <1>1, <2>2, <2>3 DEF PulseInv
  <1> QED  BY <1>1, <1>2, <1>3, <1>4, <1>5, <1>6, RegNames DEF PulseInv

\* A thread ends its pulse.
LEMMA PulseEndStep ==
    ASSUME PulseInv, NEW t \in Threads, PulseEnd(t)
    PROVE  /\ PulseInv' /\ reg'["ACIS_KEYLOCK"] = reg["ACIS_KEYLOCK"]
           /\ pc' = [pc EXCEPT ![t] = "idle"]
  <1> DEFINE r == pc[t]
  <1>1. /\ r \in Pulsed /\ reg' = [reg EXCEPT ![r] = 1] /\ pc' = [pc EXCEPT ![t] = "idle"]
        /\ overlap' = overlap \ {t}
    BY DEF PulseEnd
  <1> HIDE DEF r
  <1>2. reg' \in [Regs -> Nat] /\ (\A q \in Pulsed : reg'[q] \in {0, 1})
    BY <1>1, RegNames DEF PulseInv
  <1>3. pc' \in [Threads -> Pulsed \cup {"idle", "keylock"}]
    BY <1>1 DEF PulseInv
  <1>4. \A u \in Threads : pc'[u] \in Pulsed => u # t /\ pc'[u] = pc[u]
    BY <1>1, RegNames DEF PulseInv
  <1>5. OverlapInv'
    BY <1>1, <1>4 DEF PulseInv, OverlapInv
  <1>6. \A q \in Pulsed : reg'[q] = 0 => \E u \in Threads : pc'[u] = q
    <2> SUFFICES ASSUME NEW q \in Pulsed, reg'[q] = 0 PROVE \E u \in Threads : pc'[u] = q
      OBVIOUS
    <2>1. q # r /\ reg[q] = 0
      BY <1>1, RegNames DEF PulseInv
    <2>2. PICK u \in Threads : pc[u] = q
      BY <2>1 DEF PulseInv
    <2>3. u # t
      BY <2>1, <2>2 DEF r
    <2> QED  BY <1>1, <2>2, <2>3 DEF PulseInv
  <1>7. \A u \in Threads : pc'[u] \in Pulsed /\ reg'[pc'[u]] = 1 => u \in overlap'
    <2> SUFFICES ASSUME NEW u \in Threads, pc'[u] \in Pulsed, reg'[pc'[u]] = 1 PROVE u \in overlap'
      OBVIOUS
    <2>1. u # t /\ pc'[u] = pc[u] /\ pc[u] \in Pulsed
      BY <1>4
    <2>2. CASE pc[u] = r
      BY <1>1, <2>1, <2>2 DEF PulseInv, OverlapInv, r
    <2>3. CASE pc[u] # r
      <3>1. reg'[pc[u]] = reg[pc[u]]
        BY <1>1, <2>1, <2>3, RegNames DEF PulseInv
      <3> QED  BY <1>1, <2>1, <3>1 DEF PulseInv
    <2> QED  BY <2>2, <2>3
  <1> QED  BY <1>1, <1>2, <1>3, <1>5, <1>6, <1>7, RegNames DEF PulseInv

\* A register that no pulse drives is written.
LEMMA WriteStep ==
    ASSUME PulseInv, NEW r \in Regs \ Pulsed, NEW v \in Nat, Write(r, v)
    PROVE  /\ PulseInv' /\ UNCHANGED pc
           /\ reg'["ACIS_KEYLOCK"] = IF r = "ACIS_KEYLOCK" THEN v ELSE reg["ACIS_KEYLOCK"]
  <1>1. reg' = [reg EXCEPT ![r] = v] /\ UNCHANGED <<pc, overlap>>
    BY DEF Write
  <1>2. reg' \in [Regs -> Nat] /\ \A q \in Pulsed : reg'[q] = reg[q]
    BY <1>1, RegNames DEF PulseInv
  <1> QED  BY <1>1, <1>2, RegNames DEF PulseInv, OverlapInv

-----------------------------------------------------------------------------
\* reg_settings, whatever the two words are.
LEMMA RegSettingsStep ==
    ASSUME PulseInv, NEW s \in Slots, pc[s] = "idle",
           NEW buf \in [1 .. 2 -> [from : Nat, val : Nat]], reg_settings(s, buf)
    PROVE  /\ PulseInv'
           /\ pc' = pc \/ \E r \in Pulsed : pc' = [pc EXCEPT ![s] = r]
           /\ pv' \in BOOLEAN /\ (pv \in BOOLEAN => (pv => pv'))
           /\ reg'["ACIS_KEYLOCK"] = reg["ACIS_KEYLOCK"] \/ (reg'["ACIS_KEYLOCK"] = 1 /\ pv')
  <1> DEFINE addr == buf[1].val
             data == buf[2].val
  <1>1. addr \in Nat /\ data \in Nat
    OBVIOUS
  <1>2. s \in Threads
    BY DEF Threads
  <1>3. pv' = (pv \/ (addr = 20 /\ data = 1))
    BY DEF reg_settings
  <1>4. /\ addr = 0 => Write("EVR_FE_TRIGNUM_REG", data)
        /\ addr = 4 => Write("EVR_FE_TRIGDLY_REG", data)
        /\ addr = 8 => IF data = 1 THEN Pulse(s, "LATCH_RESET") ELSE UNCHANGED <<reg, pc, overlap>>
        /\ addr = 12 => Write("FP_LEDS_REG", data)
        /\ addr = 16 => IF data = 1 THEN Pulse(s, "ACIS_FORCE_TRIP") ELSE UNCHANGED <<reg, pc, overlap>>
        /\ addr = 20 => IF data = 1 THEN Write("ACIS_KEYLOCK", 1) ELSE UNCHANGED <<reg, pc, overlap>>
        /\ addr \notin {0, 4, 8, 12, 16, 20} => UNCHANGED <<reg, pc, overlap>>
    BY <1>1 DEF reg_settings
  <1> HIDE DEF addr, data
  <1>5. ASSUME NEW r \in Regs \ Pulsed, NEW v \in Nat, Write(r, v), r # "ACIS_KEYLOCK" \/ (pv' /\ v = 1)
        PROVE  /\ PulseInv' /\ pc' = pc
               /\ reg'["ACIS_KEYLOCK"] = reg["ACIS_KEYLOCK"] \/ (reg'["ACIS_KEYLOCK"] = 1 /\ pv')
    BY <1>5, WriteStep
  <1>6. ASSUME NEW r \in Pulsed, Pulse(s, r)
        PROVE  /\ PulseInv' /\ reg'["ACIS_KEYLOCK"] = reg["ACIS_KEYLOCK"]
               /\ pc' = [pc EXCEPT ![s] = r]
    BY <1>2, <1>6, PulseStep
  <1>7. UNCHANGED <<reg, pc, overlap>> => PulseInv'
    BY DEF PulseInv, OverlapInv
  <1>8. CASE addr \in {0, 4, 12}
    BY <1>1, <1>4, <1>5, <1>8, <1>3, RegNames
  <1>9. CASE addr = 20
    BY <1>3, <1>4, <1>5, <1>7, <1>9, RegNames
  <1>10. CASE addr \in {8, 16}
    BY <1>3, <1>4, <1>6, <1>7, <1>10 DEF Pulsed
  <1>11. CASE addr \notin {0, 4, 8, 12, 16, 20}
    BY <1>3, <1>4, <1>7, <1>11
  <1> QED  BY <1>8, <1>9, <1>10, <1>11

-----------------------------------------------------------------------------
\* PulseInv is part of the invariant.
LEMMA HasPulseInv ==
    Inv => PulseInv
  BY DEF Inv, PulsesInStep, TypeOK, PulseInv

\* What the invariant says besides of the clients and the console.
ThreadInv ==
    /\ conn \in [Slots -> 0 .. MaxConns] /\ gone \in [Slots -> 0 .. MaxConns + 1]
    /\ \A s \in Slots : conn[s] =< conns /\ (gone[s] # 0 => conn[s] < gone[s])
    /\ \A s \in Slots : pc[s] # "keylock" /\ (conn[s] = 0 => pc[s] = "idle")
    /\ keylock_val \in {0, 1} /\ pv \in BOOLEAN

\* The parts make up the invariant again.
LEMMA Compose ==
    PulseInv /\ BufferInv /\ OwnWords /\ KeylockInStep /\ ThreadInv => Inv
  <1> SUFFICES ASSUME PulseInv, BufferInv, OwnWords, KeylockInStep, ThreadInv PROVE Inv
    OBVIOUS
  <1>1. \A s \in Slots : DOMAIN rxbuf[s] = 1 .. 2
    BY DEF BufferInv
  <1>2. TypeOK
    BY <1>1 DEF PulseInv, ThreadInv, TypeOK
  <1> QED  BY <1>2 DEF PulseInv, PulsesInStep, Inv

\* A slot is given out or taken back, and its buffer cleared.
LEMMA SlotStep ==
    ASSUME Inv, NEW s \in Slots, Connect(s) \/ Disconnect(s)
    PROVE  Inv'
  <1> USE RegAssumption
  <1> DEFINE c == conn'[s]
  <1>1. c \in 0 .. MaxConns /\ conn' = [conn EXCEPT ![s] = c] /\ c =< conns' /\ (c = 0 => pc[s] = "idle")
        /\ gone' \in [Slots -> 0 .. MaxConns + 1] /\ gone'[s] = 0 /\ (\A q \in Slots \ {s} : gone'[q] = gone[q])
    <2>1. /\ conns \in 0 .. MaxConns /\ conn \in [Slots -> 0 .. MaxConns]
          /\ gone \in [Slots -> 0 .. MaxConns + 1] /\ (conn[s] = 0 => gone[s] = 0)
      BY DEF Inv, BufferInv, PulsesInStep, TypeOK
    <2>2. CASE Connect(s)
      BY <2>1, <2>2 DEF Connect
    <2>3. CASE Disconnect(s)
      BY <2>1, <2>3 DEF Disconnect
    <2> QED  BY <2>2, <2>3
  <1> HIDE DEF c
  <1>2. /\ conns' \in 0 .. MaxConns /\ conns =< conns'
        /\ rxbuf' = [rxbuf EXCEPT ![s] = memset(@)]
        /\ UNCHANGED <<reg, pc, keylock_val, overlap, pv, used>>
    BY DEF Connect, Disconnect, Inv, BufferInv
  <1>3. BufferInv'
    <2>1. memset(rxbuf[s]) \in [1 .. 2 -> [from : Nat, val : Nat]]
          /\ \A n \in 1 .. 2 : memset(rxbuf[s])[n].from = 0
      BY DEF memset, Word
    <2>2. /\ rxbuf \in [Slots -> [1 .. 2 -> [from : Nat, val : Nat]]] /\ conn \in [Slots -> 0 .. MaxConns]
          /\ \A q \in Slots, n \in 1 .. 2 :
                rxbuf[q][n].from \in {0, conn[q]} \/ (gone[q] # 0 /\ rxbuf[q][n].from >= gone[q])
          /\ \A q \in Slots : conn[q] = 0 => gone[q] = 0
      BY DEF Inv, BufferInv, PulsesInStep, TypeOK
    <2>3. /\ rxbuf' \in [Slots -> [1 .. 2 -> [from : Nat, val : Nat]]]
          /\ \A n \in 1 .. 2 : rxbuf'[s][n].from = 0
          /\ \A q \in Slots \ {s} : rxbuf'[q] = rxbuf[q] /\ conn'[q] = conn[q] /\ gone'[q] = gone[q]
      BY <1>1, <1>2, <2>1, <2>2
    <2>4. ASSUME NEW q \in Slots, NEW n \in 1 .. 2
          PROVE  rxbuf'[q][n].from \in {0, conn'[q]} \/ (gone'[q] # 0 /\ rxbuf'[q][n].from >= gone'[q])
      BY <2>2, <2>3
    <2>5. \A q \in Slots : conn'[q] = 0 => gone'[q] = 0
      BY <1>1, <2>2, <2>3
    <2> QED  BY <1>2, <2>3, <2>4, <2>5 DEF BufferInv
  <1>4. PulseInv' /\ OwnWords' /\ KeylockInStep'
    BY <1>2, HasPulseInv DEF Inv, PulseInv, OverlapInv, OwnWords, KeylockInStep
  <1>5. /\ conn' \in [Slots -> 0 .. MaxConns] /\ gone' \in [Slots -> 0 .. MaxConns + 1]
        /\ \A q \in Slots : conn'[q] =< conns' /\ (gone'[q] # 0 => conn'[q] < gone'[q])
    <2>1. /\ conn \in [Slots -> 0 .. MaxConns] /\ conns \in 0 .. MaxConns
          /\ \A q \in Slots : conn[q] =< conns /\ (gone[q] # 0 => conn[q] < gone[q])
      BY DEF Inv, BufferInv, PulsesInStep, TypeOK
    <2>2. conn' \in [Slots -> 0 .. MaxConns] /\ conn'[s] = c /\ \A q \in Slots \ {s} : conn'[q] = conn[q]
      BY <1>1, <2>1
    <2>3. ASSUME NEW q \in Slots
          PROVE  conn'[q] =< conns' /\ (gone'[q] # 0 => conn'[q] < gone'[q])
      <3>1. CASE q = s
        BY <1>1, <2>2, <3>1
      <3>2. CASE q # s
        <4>1. conn'[q] = conn[q] /\ gone'[q] = gone[q] /\ conn[q] \in 0 .. MaxConns
          BY <1>1, <2>1, <2>2, <3>2
        <4> QED  BY <1>2, <2>1, <4>1
      <3> QED  BY <3>1, <3>2
    <2> QED  BY <1>1, <2>2, <2>3
  <1>6. \A q \in Slots : pc'[q] # "keylock" /\ (conn'[q] = 0 => pc'[q] = "idle")
    BY <1>1, <1>2 DEF Inv, PulsesInStep, TypeOK
  <1>7. keylock_val' \in {0, 1} /\ pv' \in BOOLEAN
    BY <1>2 DEF Inv, PulsesInStep, TypeOK
  <1>8. ThreadInv'
    BY <1>5, <1>6, <1>7 DEF ThreadInv
  <1> QED  BY <1>3, <1>4, <1>8, Compose, PTL

\* A connection is refused, or a handler's socket closed by a sender.
LEMMA ConnStep ==
    ASSUME Inv, Refuse \/ \E s \in Slots : SendFails(s)
    PROVE  Inv'
  <1> USE RegAssumption
  <1>1. /\ UNCHANGED <<reg, rxbuf, conn, pc, keylock_val, overlap, pv, used>>
        /\ conns' \in 0 .. MaxConns /\ conns =< conns'
    BY DEF Refuse, SendFails, Inv, BufferInv
  <1>2. /\ gone' \in [Slots -> 0 .. MaxConns + 1]
        /\ \A s \in Slots : \/ gone'[s] = gone[s]
                            \/ gone[s] = 0 /\ gone'[s] > conn[s] /\ conn[s] # 0
    <2>1. CASE Refuse
      BY <2>1 DEF Refuse, Inv, PulsesInStep, TypeOK
    <2>2. CASE \E s \in Slots : SendFails(s)
      <3>1. PICK s \in Slots : SendFails(s)
        BY <2>2
      <3>2. conns + 1 \in 0 .. MaxConns + 1 /\ gone' = [gone EXCEPT ![s] = conns + 1]
            /\ gone[s] = 0 /\ conn[s] # 0 /\ conn[s] < conns + 1
        BY <3>1 DEF SendFails, Inv, BufferInv, PulsesInStep, TypeOK
      <3> QED  BY <3>2 DEF Inv, PulsesInStep, TypeOK
    <2> QED  BY <2>1, <2>2
  <1>3. BufferInv'
    BY <1>1, <1>2 DEF Inv, BufferInv
  <1>4. PulseInv' /\ OwnWords' /\ KeylockInStep'
    BY <1>1, HasPulseInv DEF Inv, PulseInv, OverlapInv, OwnWords, KeylockInStep
  <1>5. \A s \in Slots : conn'[s] =< conns' /\ (gone'[s] # 0 => conn'[s] < gone'[s])
    BY <1>1, <1>2 DEF Inv, BufferInv, PulsesInStep, TypeOK
  <1>6. ThreadInv'
    BY <1>1, <1>2, <1>5 DEF ThreadInv, Inv, PulsesInStep, TypeOK
  <1> QED  BY <1>3, <1>4, <1>6, Compose, PTL

\* A client's message: its words or, once its socket is closed, those of a later
\* connection, and where it is short, older words of the slot.
LEMMA ClientStep ==
    ASSUME Inv, NEW s \in Slots, NEW id \in {1, 5}, NEW body \in Bodies,
           NEW from \in [1 .. Len(body) -> Senders(s)], ClientMsg(s, id, body, from)
    PROVE  Inv'
  <1> DEFINE buf == [n \in 1 .. 2 |-> IF n =< Len(body) THEN Word(from[n], body[n]) ELSE rxbuf[s][n]]
  <1>1. /\ conn[s] # 0 /\ pc[s] = "idle" /\ rxbuf' = [rxbuf EXCEPT ![s] = buf]
        /\ UNCHANGED <<conn, conns, gone, keylock_val>>
        /\ IF id = 1 THEN reg_settings(s, buf) ELSE UNCHANGED <<reg, pc, overlap, pv, used>>
    BY DEF ClientMsg
  <1>2. /\ buf \in [1 .. 2 -> [from : Nat, val : Nat]]
        /\ \A n \in 1 .. 2 : buf[n].from \in {0, conn[s]} \/ (gone[s] # 0 /\ buf[n].from >= gone[s])
    <2>1. /\ \A c \in Senders(s) : c \in Nat /\ (c = conn[s] \/ (gone[s] # 0 /\ c >= gone[s]))
      BY RegAssumption DEF Senders, Inv, BufferInv, PulsesInStep, TypeOK
    <2>2. ASSUME NEW n \in 1 .. 2, n =< Len(body) PROVE body[n] \in Nat /\ from[n] \in Senders(s)
      <3>1. body \in Seq(Nat) /\ Len(body) \in Nat
        BY RegAssumption
      <3>2. n \in 1 .. Len(body)
        BY <2>2, <3>1
      <3> QED  BY <3>1, <3>2
    <2>3. ASSUME NEW n \in 1 .. 2
          PROVE  /\ buf[n] \in [from : Nat, val : Nat]
                 /\ buf[n].from \in {0, conn[s]} \/ (gone[s] # 0 /\ buf[n].from >= gone[s])
      <3>1. CASE n =< Len(body)
        <4>1. buf[n] = [from |-> from[n], val |-> body[n]]
          BY <3>1 DEF Word
        <4> QED  BY <2>1, <2>2, <3>1, <4>1
      <3>2. CASE ~(n =< Len(body))
        BY <3>2 DEF Inv, BufferInv
      <3> QED  BY <3>1, <3>2
    <2> QED  BY <2>3
  <1> HIDE DEF buf
  <1>3. BufferInv'
    BY <1>1, <1>2 DEF Inv, BufferInv
  <1>4. OwnWords'
    <2>1. used' = used \/ used' = {[by |-> conn[s], from |-> buf[n].from, gone |-> gone[s]] : n \in 1 .. 2}
      BY <1>1 DEF reg_settings
    <2> QED  BY <1>2, <2>1 DEF Inv, OwnWords
  <1>5. /\ PulseInv'
        /\ pc' = pc \/ \E r \in Pulsed : pc' = [pc EXCEPT ![s] = r]
        /\ pv' \in BOOLEAN /\ (pv => pv')
        /\ reg'["ACIS_KEYLOCK"] = reg["ACIS_KEYLOCK"] \/ (reg'["ACIS_KEYLOCK"] = 1 /\ pv')
    <2>1. CASE id = 1
      BY <1>1, <1>2, <2>1, HasPulseInv, RegSettingsStep DEF Inv, PulsesInStep, TypeOK
    <2>2. CASE id # 1
      BY <1>1, <2>2, HasPulseInv DEF Inv, PulsesInStep, TypeOK, PulseInv, OverlapInv
    <2> QED  BY <2>1, <2>2
  <1>6. s # Console /\ pc'[Console] = pc[Console]
    BY <1>5, RegAssumption DEF Inv, PulsesInStep, TypeOK, Threads
  <1>7. KeylockInStep'
    BY <1>1, <1>5, <1>6 DEF Inv, KeylockInStep, PulsesInStep, TypeOK
  <1>8. \A q \in Slots : pc'[q] # "keylock" /\ (conn'[q] = 0 => pc'[q] = "idle")
    BY <1>1, <1>5, RegNames DEF Inv, PulsesInStep, TypeOK, Threads
  <1>9. /\ conn' \in [Slots -> 0 .. MaxConns] /\ gone' \in [Slots -> 0 .. MaxConns + 1]
        /\ \A q \in Slots : conn'[q] =< conns' /\ (gone'[q] # 0 => conn'[q] < gone'[q])
        /\ keylock_val' \in {0, 1}
    BY <1>1 DEF Inv, PulsesInStep, TypeOK
  <1>10. ThreadInv'
    BY <1>5, <1>8, <1>9 DEF ThreadInv
  <1>11. PulseInv'
    BY <1>5
  <1> QED  BY <1>3, <1>4, <1>7, <1>10, <1>11, Compose, PTL

\* What the console does, and the end of any pulse.
LEMMA PulseEndInv ==
    ASSUME Inv, NEW t \in Threads, PulseEnd(t)
    PROVE  Inv'
  <1>1. UNCHANGED <<rxbuf, conn, conns, gone, keylock_val, pv, used>>
    BY DEF PulseEnd
  <1>2. /\ PulseInv' /\ reg'["ACIS_KEYLOCK"] = reg["ACIS_KEYLOCK"] /\ pc' = [pc EXCEPT ![t] = "idle"]
        /\ pc[t] \in Pulsed
    BY HasPulseInv, PulseEndStep DEF PulseEnd
  <1>3. BufferInv' /\ OwnWords'
    BY <1>1 DEF Inv, BufferInv, OwnWords
  <1>4. KeylockInStep'
    BY <1>1, <1>2, RegNames DEF Inv, KeylockInStep, PulsesInStep, TypeOK, Threads
  <1>5. \A q \in Slots : pc'[q] # "keylock" /\ (conn'[q] = 0 => pc'[q] = "idle")
    BY <1>1, <1>2 DEF Inv, PulsesInStep, TypeOK, Threads
  <1>6. ThreadInv'
    BY <1>1, <1>5 DEF ThreadInv, Inv, PulsesInStep, TypeOK
  <1>7. PulseInv'
    BY <1>2
  <1> QED  BY <1>3, <1>4, <1>6, <1>7, Compose, PTL

LEMMA ConsoleStep ==
    ASSUME Inv, ConsoleKey \/ ConsoleKeylock
    PROVE  Inv'
  <1> USE RegAssumption
  <1>1. Console \in Threads
    BY DEF Threads
  <1>2. UNCHANGED <<rxbuf, conn, conns, gone, used>>
    BY DEF ConsoleKey, ConsoleKeylock
  <1>3. BufferInv' /\ OwnWords'
    BY <1>2 DEF Inv, BufferInv, OwnWords
  <1>4. /\ PulseInv' /\ KeylockInStep' /\ keylock_val' \in {0, 1} /\ pv' \in BOOLEAN
        /\ \A q \in Slots : pc'[q] = pc[q]
    <2>1. CASE ConsoleKey /\ Pulse(Console, "LATCH_RESET") /\ UNCHANGED keylock_val
      BY <1>1, <2>1, HasPulseInv, PulseStep, RegNames
      DEF ConsoleKey, Inv, KeylockInStep, PulsesInStep, TypeOK, Threads, Pulsed
    <2>2. CASE ConsoleKey /\ Pulse(Console, "ACIS_FORCE_TRIP") /\ UNCHANGED keylock_val
      BY <1>1, <2>2, HasPulseInv, PulseStep, RegNames
      DEF ConsoleKey, Inv, KeylockInStep, PulsesInStep, TypeOK, Threads, Pulsed
    <2>3. CASE /\ ConsoleKey /\ keylock_val' = 1 - keylock_val
               /\ pc' = [pc EXCEPT ![Console] = "keylock"] /\ UNCHANGED <<reg, overlap>>
      <3>1. /\ pc[Console] = "idle" /\ pc'[Console] = "keylock" /\ UNCHANGED pv
            /\ \A u \in Threads \ {Console} : pc'[u] = pc[u]
        BY <1>1, <2>3 DEF ConsoleKey, Inv, PulsesInStep, TypeOK
      <3>2. pc' \in [Threads -> Pulsed \cup {"idle", "keylock"}]
        BY <2>3 DEF Inv, PulsesInStep, TypeOK
      <3>3. \A u \in Threads : pc[u] \in Pulsed \/ pc'[u] \in Pulsed => u # Console /\ pc'[u] = pc[u]
        BY <3>1, RegNames
      <3>4. PulseInv'
        BY <2>3, <3>2, <3>3, HasPulseInv DEF PulseInv, OverlapInv
      <3>5. keylock_val' \in {0, 1}
        BY <2>3 DEF Inv, PulsesInStep, TypeOK
      <3> QED  BY <3>1, <3>4, <3>5 DEF KeylockInStep, Inv, PulsesInStep, TypeOK, Threads
    <2>4. CASE ConsoleKeylock
      <3>1. /\ pc[Console] = "keylock" /\ reg' = [reg EXCEPT !["ACIS_KEYLOCK"] = keylock_val]
            /\ pc' = [pc EXCEPT ![Console] = "idle"] /\ pv' = FALSE /\ UNCHANGED <<keylock_val, overlap>>
        BY <2>4 DEF ConsoleKeylock
      <3>2. keylock_val \in {0, 1}
        BY DEF Inv, PulsesInStep, TypeOK
      <3>3. /\ reg' \in [Regs -> Nat] /\ reg'["ACIS_KEYLOCK"] = keylock_val
            /\ \A q \in Pulsed : reg'[q] = reg[q]
        BY <3>1, <3>2, RegNames DEF Inv, PulsesInStep, TypeOK
      <3>4. /\ pc' \in [Threads -> Pulsed \cup {"idle", "keylock"}]
            /\ \A u \in Threads : pc[u] \in Pulsed \/ pc'[u] \in Pulsed => u # Console /\ pc'[u] = pc[u]
            /\ \A u \in Slots : pc'[u] = pc[u]
        BY <1>1, <3>1, RegNames DEF Inv, PulsesInStep, TypeOK, Threads
      <3>5. PulseInv'
        BY <3>1, <3>3, <3>4, HasPulseInv DEF PulseInv, OverlapInv
      <3>6. KeylockInStep'
        BY <3>1, <3>2, <3>3 DEF KeylockInStep
      <3> QED  BY <3>1, <3>2, <3>4, <3>5, <3>6
    <2> QED  BY <2>1, <2>2, <2>3, <2>4 DEF ConsoleKey
  <1>5. ThreadInv'
    BY <1>2, <1>4 DEF ThreadInv, Inv, PulsesInStep, TypeOK
  <1>6. PulseInv' /\ KeylockInStep'
    BY <1>4
  <1> QED  BY <1>3, <1>5, <1>6, Compose, PTL

\* Every step keeps the invariant.
LEMMA NextInv == Inv /\ [Next]_vars => Inv'
  <1> SUFFICES ASSUME Inv, [Next]_vars PROVE Inv'
    OBVIOUS
  <1>1. CASE Next
    BY <1>1, SlotStep, ConnStep, ClientStep, PulseEndInv, ConsoleStep DEF Next
  <1>2. CASE UNCHANGED vars
    BY <1>2 DEF vars, Inv, BufferInv, OwnWords, OverlapInv, PulsesInStep, KeylockInStep, TypeOK
  <1> QED  BY <1>1, <1>2

LEMMA Invariance == Spec => []Inv
  BY InitInv, NextInv, PTL DEF Spec

-----------------------------------------------------------------------------
\* With any number of clients and messages of any length, the words that
\* reg_settings reads of rxbuf are zeros, the connection's own, or of a connection
\* accepted after psc_send closed this one's socket: never an earlier client's.
THEOREM WordsAreOwn == Spec => []OwnWords
  <1>1. Inv => OwnWords
    BY DEF Inv
  <1> QED  BY Invariance, <1>1, PTL

\* However many clients and the console overlap their pulses, no output is left
\* low and a pulse is cut short only by another on the same register.
THEOREM PulsesKept == Spec => []PulsesInStep
  <1>1. Inv => PulsesInStep
    BY DEF Inv
  <1> QED  BY Invariance, <1>1, PTL

\* The console's copy of the key lock is right unless a client has locked it, and
\* is then wrong only by being unlocked.
THEOREM KeylockKnown == Spec => []KeylockInStep
  <1>1. Inv => KeylockInStep
    BY DEF Inv
  <1> QED  BY Invariance, <1>1, PTL
=============================================================================
