----------------------------- MODULE TftpProofs -----------------------------
(***************************************************************************)
(* Proofs about Tftp, for any peers, files, block and timer sizes, any     *)
(* number of pending timeouts and of failures of the card and of memory,   *)
(* over a network that loses, delays, reorders and duplicates.             *)
(***************************************************************************)
EXTENDS Tftp, SequenceTheorems, TLAPS

-----------------------------------------------------------------------------
(* The inductive invariant. *)

\* Where block k of a file begins.
Pos(k) == (k - 1) * BLK

\* tftp_state has its fields, each with its type.
Shape(t) == t = [handle |-> t.handle, peer |-> t.peer, mode_write |-> t.mode_write, blknum |-> t.blknum,
                 last |-> t.last, retries |-> t.retries, idle |-> t.idle, armed |-> t.armed, fpos |-> t.fpos]

TimerInv ==
    /\ s.retries \in 0 .. MaxRetries /\ s.idle \in 0 .. Timeout + 1 /\ s.armed \in 0 .. MaxArmed
    /\ s.handle => s.armed > 0

FileInv == /\ file \in Seq(Units) /\ Len(file) < (BlkMod - 1) * BLK
           /\ size \in Nat /\ size =< Len(file) /\ saved \subseteq Writers

\* The open transfer.  A write has put block after block at its place; a read
\* that never lacked memory holds the block it sent last.
OpenInv ==
    /\ s.handle \in BOOLEAN /\ s.mode_write \in BOOLEAN /\ s.blknum \in 0 .. BlkMod - 1
    /\ s.last \in net \cup {NoData}
    /\ ~s.handle => s.peer = NoPeer /\ s.last = NoData
    /\ s.handle => s.fpos \in Nat /\ s.fpos =< Len(file)
    /\ s.handle /\ s.mode_write =>
          /\ s.peer \in Writers /\ s.blknum >= 1 /\ s.last = NoData
          /\ s.fpos = Pos(s.blknum) /\ s.fpos =< Len(Content[s.peer])
          /\ \A x \in 1 .. s.fpos : file[x] = Content[s.peer][x]
    /\ s.handle /\ ~s.mode_write =>
          /\ s.peer \in Readers /\ file \in src[s.peer]
          /\ <<"nomem", s.peer>> \notin faults =>
                /\ s.blknum >= 1 /\ Pos(s.blknum) =< Len(file)
                /\ s.last = Data("peer", s.peer, s.blknum, Block(file, Pos(s.blknum)))
                /\ s.fpos = Pos(s.blknum) + Len(Block(file, Pos(s.blknum)))

\* Every datagram was sent for a reason.
SureOf(p, f) == src[p] = {f} /\ <<"nomem", p>> \notin faults
Short(p, k) == Len(Block(Content[p], Pos(k))) < BLK
MsgOK(m) ==
    /\ m.to \in {"server", "peer"} /\ m.peer \in Peers
    /\ m.op \in {"RRQ", "WRQ", "DATA", "ACK", "ERROR"}
    /\ m.op \in {"RRQ", "WRQ"} => m.name \in {"file", "too long"}
    /\ m.op = "RRQ" => m.peer \in Readers
    /\ m.op = "WRQ" => m.peer \in Writers
    /\ m.op \in {"DATA", "ACK"} => m.blk \in Nat
    /\ m.op = "DATA" /\ m.to = "server" =>
          /\ m.peer \in Writers /\ m.blk >= 1 /\ Pos(m.blk) =< Len(Content[m.peer])
          /\ m.data = Block(Content[m.peer], Pos(m.blk))
    /\ m.op = "DATA" /\ m.to = "peer" =>
          /\ m.peer \in Readers /\ src[m.peer] # {} /\ m.data \in Seq(Units)
          /\ \A f \in src[m.peer] : SureOf(m.peer, f) =>
                m.blk >= 1 /\ Pos(m.blk) =< Len(f) /\ m.data = Block(f, Pos(m.blk))
    /\ m.op = "ACK" /\ m.to = "server" => m.peer \in Readers
    /\ m.op = "ACK" /\ m.to = "peer" =>
          /\ m.peer \in Writers
          /\ m.blk > 0 /\ Short(m.peer, m.blk) => m.peer \in saved \/ <<"close", m.peer>> \in faults

NetInv == \A m \in net : MsgOK(m)

\* The peers.
WriterOK(p) ==
    /\ client[p].st = "busy" /\ client[p].blk > 0 => Pos(client[p].blk) =< Len(Content[p])
    /\ client[p].st = "done" => p \in saved \/ <<"close", p>> \in faults
ReaderOK(p) ==
    /\ \A f \in src[p] : f \in Seq(Units) /\ Len(f) < (BlkMod - 1) * BLK
    /\ src[p] = {} => /\ client[p].st # "done"
                      /\ client[p].st = "busy" => client[p].blk = 1 /\ client[p].buf = <<>>
    /\ \A f \in src[p] : SureOf(p, f) =>
          /\ client[p].st = "busy" =>
                /\ client[p].blk >= 1 /\ Pos(client[p].blk) =< Len(f)
                /\ Len(client[p].buf) = Pos(client[p].blk)
                /\ \A x \in 1 .. Pos(client[p].blk) : client[p].buf[x] = f[x]
          /\ client[p].st = "done" => client[p].buf = f
ClientInv ==
    /\ client \in [Peers -> [st : {"idle", "busy", "done", "failed"}, blk : Nat, buf : Seq(Units)]]
    /\ DOMAIN src = Readers
    /\ \A p \in Writers : WriterOK(p)
    /\ \A p \in Readers : ReaderOK(p)

Inv == Shape(s) /\ TimerInv /\ FileInv /\ OpenInv /\ NetInv /\ ClientInv

-----------------------------------------------------------------------------
(* Facts about numbers, blocks and files. *)

LEMMA Sizes ==
    /\ BLK \in Nat /\ BLK > 0 /\ BlkMod \in Nat /\ BlkMod > 2 /\ Timeout \in Nat
    /\ MaxRetries \in Nat /\ MaxArmed \in Nat /\ MaxArmed > 0
    /\ Readers \cap Writers = {} /\ NoPeer \notin Peers /\ Peers = Readers \cup Writers
  BY TftpAssumption DEF Peers

LEMMA MinIs ==
    ASSUME NEW a \in Int, NEW b \in Int
    PROVE  Min({a, b}) = IF a =< b THEN a ELSE b
  BY DEF Min

LEMMA MaxIs ==
    ASSUME NEW a \in Int, NEW b \in Int
    PROVE  Max({a, b}) = IF a >= b THEN a ELSE b
  BY DEF Max

LEMMA Ordered ==
    ASSUME NEW a \in Nat, NEW b \in Nat, NEW c \in Nat, a =< b
    PROVE  a * c =< b * c
  OBVIOUS

\* Block k begins at Pos(k), and a file that is not too long has fewer blocks
\* than blknum counts.
LEMMA PosIs ==
    ASSUME NEW k \in Nat, k >= 1
    PROVE  Pos(k) \in Nat /\ Pos(1) = 0 /\ Pos(k + 1) = Pos(k) + BLK
  <1>1. PICK j \in Nat : k = j + 1
    BY k - 1 \in Nat
  <1>2. j * BLK \in Nat /\ (j + 1) * BLK = j * BLK + BLK /\ 0 * BLK = 0
    BY Sizes
  <1>3. k - 1 = j /\ (k + 1) - 1 = j + 1
    BY <1>1
  <1> QED  BY <1>2, <1>3 DEF Pos

LEMMA PosFirst == Pos(1) = 0
  <1>1. 1 \in Nat /\ 1 >= 1
    OBVIOUS
  <1> QED  BY <1>1, PosIs

LEMMA PosBelow ==
    ASSUME NEW k \in Nat, k >= 1, NEW n \in Nat, n < (BlkMod - 1) * BLK, Pos(k) =< n
    PROVE  k < BlkMod /\ Next16(k) \in Nat /\ (Pos(k) + BLK =< n => Next16(k) = k + 1)
  <1>0. BlkMod - 1 \in Nat /\ k - 1 \in Nat /\ (BlkMod - 1) * BLK \in Nat /\ BLK \in Nat /\ BlkMod \in Nat
        /\ BlkMod > 2
    BY Sizes
  <1>1. k < BlkMod
    <2> SUFFICES ASSUME BlkMod - 1 =< k - 1 PROVE FALSE
      BY <1>0
    <2>1. (BlkMod - 1) * BLK =< (k - 1) * BLK
      BY <1>0, Ordered
    <2>2. (k - 1) * BLK \in Nat /\ (k - 1) * BLK =< n
      BY PosIs DEF Pos
    <2> QED  BY <1>0, <2>1, <2>2
  <1>2. Next16(k) \in Nat
    BY <1>0 DEF Next16
  <1>3. ASSUME Pos(k) + BLK =< n PROVE Next16(k) = k + 1
    <2>1. k + 1 < BlkMod
      <3> SUFFICES ASSUME BlkMod - 1 =< k PROVE FALSE
        BY <1>0
      <3>1. (BlkMod - 1) * BLK =< k * BLK
        BY <1>0, Ordered
      <3>2. (k + 1) - 1 = k /\ Pos(k + 1) =< n /\ Pos(k + 1) \in Nat
        BY <1>3, PosIs, Sizes
      <3>3. k * BLK =< n /\ k * BLK \in Nat
        BY <3>2 DEF Pos
      <3> QED  BY <1>0, <3>1, <3>3
    <2> QED  BY <2>1, <1>0 DEF Next16
  <1> QED  BY <1>1, <1>2, <1>3

LEMMA BlockIs ==
    ASSUME NEW f \in Seq(Units), NEW pos \in Nat, pos =< Len(f), NEW b, b = Block(f, pos)
    PROVE  /\ b \in Seq(Units) /\ Len(b) \in Nat
           /\ Len(b) = IF pos + BLK =< Len(f) THEN BLK ELSE Len(f) - pos
           /\ pos + Len(b) =< Len(f)
           /\ \A x \in 1 .. Len(b) : b[x] = f[pos + x]
  <1>0. Len(f) \in Nat /\ BLK \in Nat /\ BLK > 0 /\ \A x \in 1 .. Len(f) : f[x] \in Units
    BY Sizes
  <1>1. PICK n \in Int : /\ n = Min({pos + BLK, Len(f)})
                         /\ n = IF pos + BLK =< Len(f) THEN pos + BLK ELSE Len(f)
    BY <1>0, MinIs
  <1>2. b = SubSeq(f, pos + 1, n)
    BY <1>1 DEF Block
  <1>3. /\ b \in Seq(Units) /\ Len(b) = (IF pos + 1 =< n THEN n - (pos + 1) + 1 ELSE 0)
        /\ \A x \in 1 .. n - (pos + 1) + 1 : b[x] = f[pos + 1 + x - 1]
    <2>1. pos + 1 \in Int /\ \A x \in pos + 1 .. n : f[x] \in Units
      BY <1>0, <1>1
    <2> QED  BY <1>2, <2>1, SubSeqProperties
  <1>4. Len(b) = n - pos
    BY <1>0, <1>1, <1>3
  <1>5. \A x \in 1 .. Len(b) : b[x] = f[pos + x]
    <2> TAKE x \in 1 .. Len(b)
    <2>1. x \in 1 .. n - (pos + 1) + 1 /\ pos + 1 + x - 1 = pos + x
      BY <1>0, <1>1, <1>4
    <2> QED  BY <2>1, <1>3
  <1>6. /\ Len(b) \in Nat /\ Len(b) = (IF pos + BLK =< Len(f) THEN BLK ELSE Len(f) - pos)
        /\ pos + Len(b) =< Len(f)
    BY <1>0, <1>1, <1>4
  <1> QED  BY <1>3, <1>5, <1>6

\* What a write leaves behind.
LEMMA PatchIs ==
    ASSUME NEW f \in Seq(Units), NEW pos \in Nat, pos =< Len(f), NEW d \in Seq(Units), NEW g, g = Patch(f, pos, d)
    PROVE  /\ g \in Seq(Units) /\ Len(g) \in Nat
           /\ Len(g) = IF Len(f) >= pos + Len(d) THEN Len(f) ELSE pos + Len(d)
           /\ \A x \in 1 .. pos : g[x] = f[x]
           /\ \A x \in 1 .. Len(d) : g[pos + x] = d[x]
  <1>0. /\ Len(f) \in Nat /\ Len(d) \in Nat
        /\ \A x \in 1 .. Len(f) : f[x] \in Units
        /\ \A x \in 1 .. Len(d) : d[x] \in Units
    OBVIOUS
  <1>1. PICK n \in Nat : /\ n = Max({Len(f), pos + Len(d)})
                         /\ n = IF Len(f) >= pos + Len(d) THEN Len(f) ELSE pos + Len(d)
    BY <1>0, MaxIs
  <1>2. g = [k \in 1 .. n |-> IF k \in pos + 1 .. pos + Len(d) THEN d[k - pos] ELSE f[k]]
    BY <1>1 DEF Patch
  <1>3. \A k \in 1 .. n : k \notin pos + 1 .. pos + Len(d) => k \in 1 .. Len(f)
    BY <1>0, <1>1
  <1>4. \A k \in 1 .. n : k \in pos + 1 .. pos + Len(d) => k - pos \in 1 .. Len(d)
    BY <1>0, <1>1
  <1>5. \A k \in 1 .. n : g[k] \in Units
    BY <1>0, <1>2, <1>3, <1>4
  <1>6. g \in Seq(Units) /\ Len(g) = n
    BY <1>2, <1>5
  <1>7. \A x \in 1 .. pos : g[x] = f[x]
    <2> TAKE x \in 1 .. pos
    <2>1. x \in 1 .. n /\ x \notin pos + 1 .. pos + Len(d)
      BY <1>0, <1>1
    <2> QED  BY <2>1, <1>2
  <1>8. \A x \in 1 .. Len(d) : g[pos + x] = d[x]
    <2> TAKE x \in 1 .. Len(d)
    <2>1. pos + x \in 1 .. n /\ pos + x \in pos + 1 .. pos + Len(d) /\ (pos + x) - pos = x
      BY <1>0, <1>1
    <2> QED  BY <2>1, <1>2
  <1> QED  BY <1>1, <1>6, <1>7, <1>8

\* A file cut to its first n units.
LEMMA CutIs ==
    ASSUME NEW f \in Seq(Units), NEW n \in Nat, n =< Len(f)
    PROVE  /\ SubSeq(f, 1, n) \in Seq(Units) /\ Len(SubSeq(f, 1, n)) = n
           /\ \A x \in 1 .. n : SubSeq(f, 1, n)[x] = f[x]
  <1>1. \A x \in 1 .. n : f[x] \in Units
    OBVIOUS
  <1>2. /\ SubSeq(f, 1, n) \in Seq(Units) /\ Len(SubSeq(f, 1, n)) = (IF 1 =< n THEN n - 1 + 1 ELSE 0)
        /\ \A x \in 1 .. n - 1 + 1 : SubSeq(f, 1, n)[x] = f[1 + x - 1]
    BY <1>1, SubSeqProperties
  <1> QED  BY <1>2

\* Two files that agree up to n begin alike.
LEMMA CutAlike ==
    ASSUME NEW f \in Seq(Units), NEW g \in Seq(Units), NEW n \in Nat, n =< Len(f), n =< Len(g),
           \A x \in 1 .. n : f[x] = g[x]
    PROVE  SubSeq(f, 1, n) = SubSeq(g, 1, n)
  <1>1. PICK u : u = SubSeq(f, 1, n)
    OBVIOUS
  <1>2. PICK v : v = SubSeq(g, 1, n)
    OBVIOUS
  <1>3. /\ u \in Seq(Units) /\ v \in Seq(Units) /\ Len(u) = Len(v)
        /\ \A x \in 1 .. Len(u) : u[x] = v[x]
    BY <1>1, <1>2, CutIs
  <1>4. u = v
    BY <1>3, SeqEqual
  <1> QED  BY <1>1, <1>2, <1>4

-----------------------------------------------------------------------------
(* What the helpers do to tftp_state. *)

\* The two states belong to the same transfer at the same place.
SameTransfer(t, u) == /\ t.handle = u.handle /\ t.peer = u.peer /\ t.mode_write = u.mode_write
                      /\ t.blknum = u.blknum /\ t.last = u.last /\ t.fpos = u.fpos

LEMMA TakenIs ==
    ASSUME Shape(s), NEW t, t = Taken
    PROVE  Shape(t) /\ SameTransfer(t, s) /\ t.retries = 0 /\ t.idle = 0 /\ t.armed = s.armed
  BY DEF Shape, Taken, SameTransfer

LEMMA CloseIs ==
    ASSUME NEW t, Shape(t), t.armed \in Nat, NEW u, u = close_handle(t)
    PROVE  /\ Shape(u) /\ u.handle = FALSE /\ u.peer = NoPeer /\ u.last = NoData
           /\ u.mode_write = t.mode_write /\ u.blknum = t.blknum /\ u.retries = t.retries
           /\ u.idle = t.idle /\ u.armed \in Nat /\ u.armed =< t.armed
  <1>1. PICK n \in Nat : n = Max({t.armed - 1, 0}) /\ n =< t.armed
    BY MaxIs
  <1>2. u = [handle |-> FALSE, peer |-> NoPeer, mode_write |-> t.mode_write, blknum |-> t.blknum,
             last |-> NoData, retries |-> t.retries, idle |-> t.idle, armed |-> n, fpos |-> t.fpos]
    BY <1>1 DEF close_handle, Shape
  <1> QED  BY <1>1, <1>2 DEF Shape

-----------------------------------------------------------------------------
(* What every step keeps. *)

\* Nothing that was sent, saved, opened or failed is forgotten, and a version of
\* the file that is opened is the one on the card.
Grows ==
    /\ net \subseteq net' /\ saved \subseteq saved' /\ faults \subseteq faults'
    /\ DOMAIN src' = Readers
    /\ \A p \in Readers : src[p] \subseteq src'[p] /\ src'[p] \subseteq src[p] \cup {file}

LEMMA SureBefore ==
    ASSUME Grows, NEW p \in Readers, NEW f, SureOf(p, f)'
    PROVE  SureOf(p, f) \/ (src[p] = {} /\ f = file)
  <1>1. src'[p] = {f} /\ <<"nomem", p>> \notin faults
    BY DEF SureOf, Grows
  <1>2. src[p] \subseteq {f} /\ f \in src[p] \cup {file}
    BY <1>1 DEF Grows
  <1> QED  BY <1>1, <1>2 DEF SureOf

LEMMA MessagesKept ==
    ASSUME Grows, NEW m, MsgOK(m)
    PROVE  MsgOK(m)'
  <1>1. m.op = "DATA" /\ m.to = "peer" => (m.peer \in Readers /\ src'[m.peer] # {})
    BY DEF MsgOK, Grows
  <1>2. ASSUME m.op = "DATA", m.to = "peer", NEW f \in src'[m.peer], SureOf(m.peer, f)'
        PROVE  m.blk >= 1 /\ Pos(m.blk) =< Len(f) /\ m.data = Block(f, Pos(m.blk))
    <2>1. m.peer \in Readers /\ src[m.peer] # {}
      BY <1>2 DEF MsgOK
    <2>2. SureOf(m.peer, f)
      BY <1>2, <2>1, SureBefore
    <2>3. f \in src[m.peer]
      BY <2>2 DEF SureOf
    <2> QED  BY <1>2, <2>2, <2>3 DEF MsgOK
  <1>3. m.op = "ACK" /\ m.to = "peer" /\ m.blk > 0 /\ Short(m.peer, m.blk) =>
            m.peer \in saved' \/ <<"close", m.peer>> \in faults'
    BY DEF MsgOK, Grows
  <1>4. Short(m.peer, m.blk)' <=> Short(m.peer, m.blk)
    BY DEF Short, Block, Pos
  <1> QED  BY <1>1, <1>2, <1>3, <1>4 DEF MsgOK

LEMMA NetKept ==
    ASSUME NetInv, Grows, \A m \in net' : m \in net \/ MsgOK(m)'
    PROVE  NetInv'
  BY MessagesKept DEF NetInv

\* The peers do not notice a step of the server.
LEMMA ReaderKept ==
    ASSUME FileInv, Grows, NEW p \in Readers, client'[p] = client[p], ReaderOK(p)
    PROVE  ReaderOK(p)'
  <1>1. \A f \in src'[p] : f \in Seq(Units) /\ Len(f) < (BlkMod - 1) * BLK
    BY DEF ReaderOK, FileInv, Grows
  <1>2. src'[p] = {} => src[p] = {}
    BY DEF Grows
  <1>3. ASSUME NEW f \in src'[p], SureOf(p, f)'
        PROVE  /\ client[p].st = "busy" =>
                     /\ client[p].blk >= 1 /\ Pos(client[p].blk) =< Len(f)
                     /\ Len(client[p].buf) = Pos(client[p].blk)
                     /\ \A x \in 1 .. Pos(client[p].blk) : client[p].buf[x] = f[x]
               /\ client[p].st = "done" => client[p].buf = f
    <2>1. CASE SureOf(p, f)
      <3>1. f \in src[p]
        BY <2>1 DEF SureOf
      <3> QED  BY <2>1, <3>1 DEF ReaderOK
    <2>2. CASE src[p] = {}
      <3>1. client[p].st # "done" /\ (client[p].st = "busy" => client[p].blk = 1 /\ client[p].buf = <<>>)
        BY <2>2 DEF ReaderOK
      <3>2. Pos(1) = 0 /\ Len(f) \in Nat
        BY <1>1, PosIs
      <3> QED  BY <3>1, <3>2
    <2> QED  BY <1>3, <2>1, <2>2, SureBefore
  <1> QED  BY <1>1, <1>2, <1>3 DEF ReaderOK

LEMMA WriterKept ==
    ASSUME Grows, NEW p \in Writers, client'[p] = client[p], WriterOK(p)
    PROVE  WriterOK(p)'
  BY DEF WriterOK, Grows, Pos

LEMMA ClientsKept ==
    ASSUME FileInv, ClientInv, Grows, client' = client
    PROVE  ClientInv'
  <1>1. \A p \in Writers : WriterOK(p)'
    BY WriterKept DEF ClientInv
  <1>2. \A p \in Readers : ReaderOK(p)'
    BY ReaderKept DEF ClientInv
  <1> QED  BY <1>1, <1>2 DEF ClientInv, Grows

\* The transfer stays as it is.
LEMMA OpenKept ==
    ASSUME OpenInv, Grows, file' = file, SameTransfer(s', s)
    PROVE  OpenInv'
  <1>0. /\ s'.handle = s.handle /\ s'.peer = s.peer /\ s'.mode_write = s.mode_write
        /\ s'.blknum = s.blknum /\ s'.last = s.last /\ s'.fpos = s.fpos
    BY DEF SameTransfer
  <1>1. s'.last \in net' \cup {NoData}
    BY <1>0 DEF OpenInv, Grows
  <1>2. s.handle /\ ~s.mode_write =>
          /\ s.peer \in Readers /\ file \in src'[s.peer]
          /\ <<"nomem", s.peer>> \notin faults' => <<"nomem", s.peer>> \notin faults
    BY DEF OpenInv, Grows
  <1> QED  BY <1>0, <1>1, <1>2 DEF OpenInv, Pos, Block, Data

\* The transfer is over.
LEMMA OpenClosed ==
    ASSUME s'.handle = FALSE, s'.peer = NoPeer, s'.last = NoData, s'.mode_write \in BOOLEAN,
           s'.blknum \in 0 .. BlkMod - 1
    PROVE  OpenInv'
  BY DEF OpenInv

-----------------------------------------------------------------------------
(* The steps of the server. *)

\* What is left to show of a step of the server.
LEMMA ServerStep ==
    ASSUME Inv, Grows, client' = client, Shape(s'), TimerInv', FileInv', OpenInv',
           \A m \in net' : m \in net \/ MsgOK(m)'
    PROVE  Inv'
  <1>1. NetInv'
    BY NetKept DEF Inv
  <1>2. ClientInv'
    BY ClientsKept DEF Inv
  <1> QED  BY <1>1, <1>2 DEF Inv, Shape

LEMMA ErrorOK == ASSUME NEW p \in Peers PROVE MsgOK(Err("peer", p))'
  <1>1. PICK e : e = Err("peer", p)
    OBVIOUS
  <1>2. e.to = "peer" /\ e.peer = p /\ e.op = "ERROR"
    BY <1>1 DEF Err
  <1>3. MsgOK(e)'
    BY <1>2 DEF MsgOK
  <1> QED  BY <1>1, <1>3

LEMMA Sender == ASSUME NetInv, NEW m \in net PROVE m.peer \in Peers /\ MsgOK(m)
  BY DEF NetInv, MsgOK

\* A packet is refused, and the transfer stays as it is.
LEMMA RefusedStep ==
    ASSUME Inv, NEW m \in net, s' \in {s, Taken}, Refuses(m),
           UNCHANGED <<file, size, client, src, saved, faults>>
    PROVE  Inv'
  <1>0. Shape(s) /\ TimerInv /\ FileInv /\ OpenInv /\ NetInv /\ DOMAIN src = Readers
    BY DEF Inv, ClientInv
  <1>1. /\ Shape(s') /\ SameTransfer(s', s) /\ s'.armed = s.armed
        /\ (s'.idle = s.idle \/ s'.idle = 0) /\ (s'.retries = s.retries \/ s'.retries = 0)
    BY <1>0, TakenIs DEF SameTransfer
  <1>2. Grows
    BY <1>0 DEF Grows, Refuses, Sends
  <1>3. TimerInv'
    BY <1>0, <1>1, Sizes DEF TimerInv, SameTransfer
  <1>4. FileInv'
    BY <1>0 DEF FileInv
  <1>5. OpenInv'
    BY <1>0, <1>1, <1>2, OpenKept
  <1>6. \A e \in net' : e \in net \/ MsgOK(e)'
    BY <1>0, Sender, ErrorOK DEF Refuses, Sends
  <1> QED  BY <1>1, <1>2, <1>3, <1>4, <1>5, <1>6, ServerStep

LEMMA BusyStep ==
    ASSUME Inv, NEW m \in net, RecvBusy(m) \/ RecvOther(m)
    PROVE  Inv'
  BY RefusedStep DEF RecvBusy, RecvOther

\* A request that opens nothing.
LEMMA NotOpened ==
    ASSUME Inv, NEW m \in net, ~s.handle, s.armed < MaxArmed, faults \subseteq faults',
           NEW t, t = [Taken EXCEPT !.armed = @ + 1],
           s' = t \/ s' = [t EXCEPT !.blknum = 1], Refuses(m), UNCHANGED <<file, size, client, src, saved>>
    PROVE  Inv'
  <1>0. Shape(s) /\ TimerInv /\ FileInv /\ OpenInv /\ NetInv /\ DOMAIN src = Readers
    BY DEF Inv, ClientInv
  <1>1. PICK u : u = Taken
    OBVIOUS
  <1>2. Shape(u) /\ SameTransfer(u, s) /\ u.retries = 0 /\ u.idle = 0 /\ u.armed = s.armed
    BY <1>0, <1>1, TakenIs
  <1>3. /\ Shape(s') /\ s'.handle = FALSE /\ s'.peer = NoPeer /\ s'.last = NoData
        /\ s'.mode_write = s.mode_write /\ (s'.blknum = s.blknum \/ s'.blknum = 1)
        /\ s'.retries = 0 /\ s'.idle = 0 /\ s'.armed = s.armed + 1
    <2>1. s.handle = FALSE /\ s.peer = NoPeer /\ s.last = NoData
      BY <1>0 DEF OpenInv
    <2> QED  BY <1>1, <1>2, <2>1 DEF Shape, SameTransfer
  <1>4. Grows
    BY <1>0 DEF Grows, Refuses, Sends
  <1>5. TimerInv'
    BY <1>0, <1>3, Sizes DEF TimerInv
  <1>6. FileInv'
    BY <1>0 DEF FileInv
  <1>7. OpenInv'
    <2>1. s'.mode_write \in BOOLEAN
      BY <1>0, <1>3 DEF OpenInv
    <2>2. s'.blknum \in 0 .. BlkMod - 1
      BY <1>0, <1>3, Sizes DEF OpenInv
    <2> QED  BY <1>3, <2>1, <2>2, OpenClosed
  <1>8. \A e \in net' : e \in net \/ MsgOK(e)'
    BY <1>0, Sender, ErrorOK DEF Refuses, Sends
  <1> QED  BY <1>3, <1>4, <1>5, <1>6, <1>7, <1>8, ServerStep

\* A write request that is taken.
LEMMA WriteOpened ==
    ASSUME Inv, NEW m \in net, m.op = "WRQ", ~s.handle, s.armed < MaxArmed, NEW t, t = Taken,
           s' = [t EXCEPT !.armed = @ + 1, !.handle = TRUE, !.blknum = 1, !.fpos = 0, !.peer = m.peer,
                          !.mode_write = TRUE],
           Sends(Ack("peer", m.peer, 0)), UNCHANGED <<file, size, client, src, saved, faults>>
    PROVE  Inv'
  <1>0. Shape(s) /\ TimerInv /\ FileInv /\ OpenInv /\ NetInv /\ DOMAIN src = Readers
    BY DEF Inv, ClientInv
  <1>1. m.peer \in Writers /\ m.peer \in Peers
    BY <1>0, Sender DEF MsgOK
  <1>2. Shape(t) /\ SameTransfer(t, s) /\ t.retries = 0 /\ t.idle = 0 /\ t.armed = s.armed
    BY <1>0, TakenIs
  <1>3. /\ Shape(s') /\ s'.handle = TRUE /\ s'.peer = m.peer /\ s'.last = NoData
        /\ s'.mode_write = TRUE /\ s'.blknum = 1 /\ s'.fpos = 0
        /\ s'.retries = 0 /\ s'.idle = 0 /\ s'.armed = s.armed + 1
    <2>1. s.last = NoData
      BY <1>0 DEF OpenInv
    <2> QED  BY <1>2, <2>1 DEF Shape, SameTransfer
  <1>4. Grows
    BY <1>0 DEF Grows, Sends
  <1>5. TimerInv'
    BY <1>0, <1>3, Sizes DEF TimerInv
  <1>6. FileInv'
    BY <1>0 DEF FileInv
  <1>7. OpenInv'
    <2>1. Len(file) \in Nat /\ Len(Content[m.peer]) \in Nat
      BY <1>0, <1>1, FilesAssumption DEF FileInv
    <2>2. Pos(1) = 0
      BY PosIs
    <2> QED  BY <1>1, <1>3, <2>1, <2>2, Sizes DEF OpenInv, Pos
  <1>8. \A e \in net' : e \in net \/ MsgOK(e)'
    <2>1. PICK a : a = Ack("peer", m.peer, 0)
      OBVIOUS
    <2>2. a.to = "peer" /\ a.peer = m.peer /\ a.op = "ACK" /\ a.blk = 0
      BY <2>1 DEF Ack
    <2>3. MsgOK(a)'
      BY <1>1, <2>2 DEF MsgOK
    <2> QED  BY <2>1, <2>3 DEF Sends
  <1> QED  BY <1>3, <1>4, <1>5, <1>6, <1>7, <1>8, ServerStep

\* send_data of a transfer t that is at the beginning of block t.blknum, as far
\* as memory never ran out.
LEMMA SendStep ==
    ASSUME Inv, NEW t, Shape(t), t.handle = TRUE, t.mode_write = FALSE, t.peer \in Readers,
           t.blknum \in 0 .. BlkMod - 1, t.retries = 0, t.idle = 0, t.armed \in 1 .. MaxArmed,
           t.fpos \in Nat, t.fpos =< Len(file), file \in src'[t.peer],
           <<"nomem", t.peer>> \notin faults => t.blknum >= 1 /\ t.fpos = Pos(t.blknum),
           send_data(t), UNCHANGED <<file, size, client, saved>>, DOMAIN src' = Readers,
           \A p \in Readers : src[p] \subseteq src'[p] /\ src'[p] \subseteq src[p] \cup {file}
    PROVE  Inv'
  <1>0. Shape(s) /\ TimerInv /\ FileInv /\ OpenInv /\ NetInv /\ t.peer \in Peers
    BY Sizes DEF Inv
  <1>1. FileInv' /\ file' = file /\ file \in Seq(Units)
    BY <1>0 DEF FileInv
  <1>2. CASE /\ Fails("nomem", t.peer)
             /\ s' = [t EXCEPT !.last = NoData] /\ UNCHANGED net
    <2>1. /\ Shape(s') /\ s'.handle = TRUE /\ s'.peer = t.peer /\ s'.last = NoData
          /\ s'.mode_write = FALSE /\ s'.blknum = t.blknum /\ s'.fpos = t.fpos
          /\ s'.retries = 0 /\ s'.idle = 0 /\ s'.armed = t.armed
      BY <1>2 DEF Shape
    <2>2. Grows /\ <<"nomem", t.peer>> \in faults'
      BY <1>2 DEF Grows, Fails
    <2>3. TimerInv'
      BY <2>1, Sizes DEF TimerInv
    <2>4. OpenInv'
      BY <1>1, <2>1, <2>2 DEF OpenInv
    <2> QED  BY <1>1, <1>2, <2>1, <2>2, <2>3, <2>4, ServerStep
  <1>3. CASE /\ Fails("read", t.peer)
             /\ s' = close_handle(t) /\ net' = net \cup {Err("peer", t.peer)}
    <2>1. /\ Shape(s') /\ s'.handle = FALSE /\ s'.peer = NoPeer /\ s'.last = NoData
          /\ s'.mode_write = FALSE /\ s'.blknum = t.blknum
          /\ s'.retries = 0 /\ s'.idle = 0 /\ s'.armed \in Nat /\ s'.armed =< t.armed
      <3>1. t.armed \in Nat
        BY Sizes
      <3> QED  BY <1>3, <3>1, CloseIs
    <2>2. Grows
      BY <1>3 DEF Grows, Fails
    <2>3. TimerInv'
      BY <2>1, Sizes DEF TimerInv
    <2>4. OpenInv'
      BY <2>1, OpenClosed
    <2>5. \A e \in net' : e \in net \/ MsgOK(e)'
      BY <1>0, <1>3, ErrorOK
    <2> QED  BY <1>1, <2>1, <2>2, <2>3, <2>4, <2>5, ServerStep
  <1>4. ASSUME NEW d, d = Data("peer", t.peer, t.blknum, Block(file, t.fpos)),
               s' = [t EXCEPT !.last = d, !.fpos = @ + Len(d.data)],
               net' = net \cup {d}, UNCHANGED faults
        PROVE  Inv'
    <2>0. PICK b : b = Block(file, t.fpos)
      OBVIOUS
    <2>1. b \in Seq(Units) /\ Len(b) \in Nat /\ t.fpos + Len(b) =< Len(file)
      BY <1>1, <2>0, BlockIs
    <2>2. d.to = "peer" /\ d.peer = t.peer /\ d.op = "DATA" /\ d.blk = t.blknum /\ d.data = b
      BY <1>4, <2>0 DEF Data
    <2>3. /\ Shape(s') /\ s'.handle = TRUE /\ s'.peer = t.peer /\ s'.last = d
          /\ s'.mode_write = FALSE /\ s'.blknum = t.blknum /\ s'.fpos = t.fpos + Len(b)
          /\ s'.retries = 0 /\ s'.idle = 0 /\ s'.armed = t.armed
      BY <1>4, <2>2 DEF Shape
    <2>4. Grows
      BY <1>4 DEF Grows
    <2>5. TimerInv'
      BY <2>3, Sizes DEF TimerInv
    <2>6. OpenInv'
      <3>1. s'.last \in net' \cup {NoData} /\ s'.fpos \in Nat /\ s'.fpos =< Len(file')
        BY <1>1, <1>4, <2>1, <2>3
      <3>2. ASSUME <<"nomem", s'.peer>> \notin faults'
            PROVE  /\ s'.blknum >= 1 /\ Pos(s'.blknum) =< Len(file')
                   /\ s'.last = Data("peer", s'.peer, s'.blknum, Block(file', Pos(s'.blknum)))
                   /\ s'.fpos = Pos(s'.blknum) + Len(Block(file', Pos(s'.blknum)))
        <4>1. t.blknum >= 1 /\ t.fpos = Pos(t.blknum)
          BY <1>4, <2>3, <3>2
        <4> QED  BY <1>1, <1>4, <2>0, <2>3, <4>1
      <3>3. (Pos(s.blknum))' = Pos(s'.blknum)
        BY DEF Pos
      <3>4. (Block(file, Pos(s.blknum)))' = Block(file', Pos(s'.blknum))
        BY DEF Block, Pos
      <3>5. (Data("peer", s.peer, s.blknum, Block(file, Pos(s.blknum))))' =
                Data("peer", s'.peer, s'.blknum, Block(file', Pos(s'.blknum)))
        BY <3>4 DEF Data
      <3> QED  BY <1>1, <2>3, <3>1, <3>2, <3>3, <3>4, <3>5 DEF OpenInv
    <2>7. MsgOK(d)'
      <3>1. ASSUME NEW f \in src'[t.peer], SureOf(t.peer, f)'
            PROVE  d.blk >= 1 /\ Pos(d.blk) =< Len(f) /\ d.data = Block(f, Pos(d.blk))
        <4>1. f = file /\ <<"nomem", t.peer>> \notin faults
          BY <1>4, <3>1 DEF SureOf
        <4> QED  BY <2>0, <2>2, <4>1
      <3>2. src'[t.peer] # {} /\ d.blk \in Nat
        BY <2>2
      <3> QED  BY <1>0, <2>1, <2>2, <3>1, <3>2 DEF MsgOK
    <2> QED  BY <1>1, <1>4, <2>3, <2>4, <2>5, <2>6, <2>7, ServerStep
  <1> QED  BY <1>2, <1>3, <1>4 DEF send_data

\* A read request that is taken, and every other request.
LEMMA RequestStep ==
    ASSUME Inv, NEW m \in net, RecvRequest(m)
    PROVE  Inv'
  <1>0. Shape(s) /\ TimerInv /\ FileInv /\ OpenInv /\ NetInv /\ ClientInv /\ DOMAIN src = Readers
    BY DEF Inv, ClientInv
  <1>1. CASE s.handle
    BY <1>1, RefusedStep DEF RecvRequest
  <1>2. CASE ~s.handle
    <2>0. PICK t : t = [Taken EXCEPT !.armed = @ + 1]
      OBVIOUS
    <2>1. PICK o : o = [t EXCEPT !.handle = TRUE, !.blknum = 1, !.fpos = 0, !.peer = m.peer,
                                 !.mode_write = m.op = "WRQ"]
      OBVIOUS
    <2>2. /\ m.op \in {"RRQ", "WRQ"} /\ s.armed < MaxArmed
          /\ UNCHANGED <<file, size, client, saved>>
          /\ \/ m.name = "too long" /\ s' = t /\ Refuses(m) /\ UNCHANGED <<faults, src>>
             \/ /\ m.name = "file" /\ Fails("open", m.peer)
                /\ s' = [t EXCEPT !.blknum = 1] /\ Refuses(m) /\ UNCHANGED src
             \/ /\ m.name = "file" /\ m.op = "WRQ"
                /\ s' = o /\ Sends(Ack("peer", m.peer, 0)) /\ UNCHANGED <<faults, src>>
             \/ /\ m.name = "file" /\ m.op = "RRQ"
                /\ src' = [src EXCEPT ![m.peer] = @ \cup {file}]
                /\ send_data(o)
      BY <1>2, <2>0, <2>1 DEF RecvRequest
    <2>3. CASE \/ s' = t /\ Refuses(m) /\ UNCHANGED <<faults, src>>
               \/ Fails("open", m.peer) /\ s' = [t EXCEPT !.blknum = 1] /\ Refuses(m) /\ UNCHANGED src
      <3>1. faults \subseteq faults'
        BY <2>3 DEF Fails
      <3> QED  BY <1>2, <2>0, <2>2, <2>3, <3>1, NotOpened
    <2>4. CASE m.op = "WRQ" /\ s' = o /\ Sends(Ack("peer", m.peer, 0)) /\ UNCHANGED <<faults, src>>
      <3>1. PICK u : u = Taken
        OBVIOUS
      <3>2. Shape(u)
        BY <1>0, <3>1, TakenIs
      <3>3. s' = [u EXCEPT !.armed = @ + 1, !.handle = TRUE, !.blknum = 1, !.fpos = 0, !.peer = m.peer,
                           !.mode_write = TRUE]
        BY <2>0, <2>1, <2>4, <3>1, <3>2 DEF Shape
      <3> QED  BY <1>2, <2>2, <2>4, <3>1, <3>3, WriteOpened
    <2>5. CASE m.op = "RRQ" /\ src' = [src EXCEPT ![m.peer] = @ \cup {file}] /\ send_data(o)
      <3>1. PICK u : u = Taken
        OBVIOUS
      <3>2. Shape(u) /\ u.retries = 0 /\ u.idle = 0 /\ u.armed = s.armed
        BY <1>0, <3>1, TakenIs
      <3>3. /\ Shape(o) /\ o.handle = TRUE /\ o.mode_write = FALSE /\ o.peer = m.peer /\ o.blknum = 1
            /\ o.fpos = 0 /\ o.retries = 0 /\ o.idle = 0 /\ o.armed = s.armed + 1
        <4>1. (m.op = "WRQ") = FALSE
          BY <2>5
        <4> QED  BY <2>0, <2>1, <3>1, <3>2, <4>1 DEF Shape
      <3>4. m.peer \in Readers
        BY <1>0, <2>5, Sender DEF MsgOK
      <3>5. /\ DOMAIN src' = Readers /\ file \in src'[m.peer]
            /\ \A p \in Readers : src[p] \subseteq src'[p] /\ src'[p] \subseteq src[p] \cup {file}
        BY <1>0, <2>5, <3>4
      <3>6. o.blknum \in 0 .. BlkMod - 1 /\ o.armed \in 1 .. MaxArmed
        <4>1. s.armed \in 0 .. MaxArmed
          BY <1>0 DEF TimerInv
        <4>2. s.armed < MaxArmed
          BY <2>2, Zenon
        <4> QED  BY <3>3, <4>1, <4>2, Sizes
      <3>7. o.fpos \in Nat /\ o.fpos =< Len(file) /\ o.fpos = Pos(o.blknum)
        <4>1. Pos(1) = 0 /\ Len(file) \in Nat
          BY <1>0, PosIs DEF FileInv
        <4> QED  BY <3>3, <4>1
      <3>8. o.peer \in Readers /\ file \in src'[o.peer] /\ o.blknum >= 1
        BY <3>3, <3>4, <3>5
      <3>9. UNCHANGED <<file, size, client, saved>>
        BY <2>2
      <3> QED  BY <2>5, <3>3, <3>5, <3>6, <3>7, <3>8, <3>9, SendStep
    <2> QED  BY <2>2, <2>3, <2>4, <2>5
  <1> QED  BY <1>1, <1>2

\* An acknowledgement: the next block, or the end of the file.
LEMMA AckStep ==
    ASSUME Inv, NEW m \in net, RecvAck(m)
    PROVE  Inv'
  <1>0. Shape(s) /\ TimerInv /\ FileInv /\ OpenInv /\ NetInv /\ DOMAIN src = Readers
    BY DEF Inv, ClientInv
  <1>1. CASE ~s.handle \/ s.mode_write \/ m.blk # s.blknum
    BY <1>1, RefusedStep DEF RecvAck
  <1>2. CASE ~(~s.handle \/ s.mode_write \/ m.blk # s.blknum)
    <2>0. PICK u : u = Taken
      OBVIOUS
    <2>1. Shape(u) /\ SameTransfer(u, s) /\ u.retries = 0 /\ u.idle = 0 /\ u.armed = s.armed
      BY <1>0, <2>0, TakenIs
    <2>2. s.handle = TRUE /\ s.mode_write = FALSE /\ s.armed \in 1 .. MaxArmed
      BY <1>0, <1>2 DEF OpenInv, TimerInv
    <2>3. UNCHANGED <<file, size, client, src, saved>>
      BY DEF RecvAck
    <2>4. CASE s.last # NoData /\ Len(s.last.data) # BLK
      <3>1. s' = close_handle(u) /\ UNCHANGED <<net, faults>>
        BY <1>2, <2>0, <2>4 DEF RecvAck
      <3>2. /\ Shape(s') /\ s'.handle = FALSE /\ s'.peer = NoPeer /\ s'.last = NoData
            /\ s'.mode_write = FALSE /\ s'.blknum = s.blknum
            /\ s'.retries = 0 /\ s'.idle = 0 /\ s'.armed \in Nat /\ s'.armed =< s.armed
        <4>1. u.armed \in Nat /\ u.mode_write = FALSE /\ u.blknum = s.blknum
          BY <2>1, <2>2 DEF SameTransfer
        <4> QED  BY <2>1, <3>1, <4>1, CloseIs
      <3>3. Grows
        BY <1>0, <2>3, <3>1 DEF Grows
      <3>4. TimerInv'
        BY <2>2, <3>2, Sizes DEF TimerInv
      <3>5. OpenInv'
        BY <1>0, <3>2, OpenClosed DEF OpenInv
      <3>6. FileInv'
        BY <1>0, <2>3 DEF FileInv
      <3> QED  BY <2>3, <3>1, <3>2, <3>3, <3>4, <3>5, <3>6, ServerStep
    <2>5. CASE ~(s.last # NoData /\ Len(s.last.data) # BLK)
      <3>0. PICK t : t = [u EXCEPT !.blknum = Next16(@)]
        OBVIOUS
      <3>1. send_data(t)
        BY <1>2, <2>0, <2>5, <3>0 DEF RecvAck
      <3>2. /\ Shape(t) /\ t.handle = TRUE /\ t.mode_write = FALSE /\ t.peer = s.peer
            /\ t.blknum = Next16(s.blknum)
            /\ t.fpos = s.fpos /\ t.retries = 0 /\ t.idle = 0 /\ t.armed = s.armed
        BY <2>1, <2>2, <3>0 DEF Shape, SameTransfer
      <3>3. /\ s.peer \in Readers /\ file \in src[s.peer] /\ s.fpos \in Nat /\ s.fpos =< Len(file)
            /\ s.blknum \in 0 .. BlkMod - 1
        BY <1>0, <2>2 DEF OpenInv
      <3>4. Next16(s.blknum) \in 0 .. BlkMod - 1
        BY <3>3, Sizes DEF Next16
      <3>5. ASSUME <<"nomem", s.peer>> \notin faults
            PROVE  Next16(s.blknum) >= 1 /\ s.fpos = Pos(Next16(s.blknum))
        <4>0. PICK b : b = Block(file, Pos(s.blknum))
          OBVIOUS
        <4>1. /\ s.blknum >= 1 /\ Pos(s.blknum) =< Len(file)
              /\ s.last = Data("peer", s.peer, s.blknum, b)
              /\ s.fpos = Pos(s.blknum) + Len(b)
          BY <1>0, <2>2, <3>5, <4>0 DEF OpenInv
        <4>2. file \in Seq(Units) /\ Len(file) \in Nat /\ Len(file) < (BlkMod - 1) * BLK
              /\ s.blknum \in Nat
          BY <1>0, <3>3 DEF FileInv
        <4>3. Pos(s.blknum) \in Nat /\ Pos(s.blknum + 1) = Pos(s.blknum) + BLK
          BY <4>1, <4>2, PosIs
        <4>4. /\ b \in Seq(Units) /\ Pos(s.blknum) + Len(b) =< Len(file)
          BY <4>0, <4>1, <4>2, <4>3, BlockIs
        <4>5. s.last # NoData /\ s.last.data = b
          <5>1. s.last \in [to : {"peer"}, peer : Readers, op : {"DATA"}, blk : 0 .. BlkMod - 1, data : Seq(Units)]
            BY <3>3, <4>1, <4>4 DEF Data
          <5>2. s.last.data = b
            BY <4>1 DEF Data
          <5> QED  BY <5>1, <5>2, NoDataAssumption
        <4>6. Len(b) = BLK
          BY <2>5, <4>5
        <4>7. Next16(s.blknum) = s.blknum + 1
          BY <4>1, <4>2, <4>4, <4>6, PosBelow
        <4> QED  BY <4>1, <4>2, <4>3, <4>6, <4>7
      <3>6. DOMAIN src' = Readers /\ file \in src'[s.peer]
            /\ \A p \in Readers : src[p] \subseteq src'[p] /\ src'[p] \subseteq src[p] \cup {file}
        BY <1>0, <2>3, <3>3
      <3> QED  BY <2>2, <2>3, <3>1, <3>2, <3>3, <3>4, <3>5, <3>6, SendStep
    <2> QED  BY <2>4, <2>5
  <1> QED  BY <1>1, <1>2

LEMMA AckOK ==
    ASSUME NEW p \in Writers, NEW k \in Nat,
           k > 0 /\ Short(p, k) => p \in saved' \/ <<"close", p>> \in faults'
    PROVE  MsgOK(Ack("peer", p, k))'
  <1>1. PICK a : a = Ack("peer", p, k)
    OBVIOUS
  <1>2. a.to = "peer" /\ a.peer = p /\ a.op = "ACK" /\ a.blk = k /\ p \in Peers
    BY <1>1, Sizes DEF Ack
  <1>3. Short(a.peer, a.blk)' <=> Short(p, k)
    BY <1>2 DEF Short, Block, Pos
  <1>4. MsgOK(a)'
    BY <1>2, <1>3 DEF MsgOK
  <1> QED  BY <1>1, <1>4

\* What the card holds once file f was closed.
LEMMA CloseFile ==
    ASSUME FileInv, s.mode_write \in BOOLEAN, NEW f \in Seq(Units), Len(f) < (BlkMod - 1) * BLK,
           size =< Len(f), tftp_sdcard_close(f)
    PROVE  /\ FileInv' /\ saved \subseteq saved' /\ faults \subseteq faults'
           /\ s.mode_write => \/ <<"close", s.peer>> \in faults'
                              \/ \A q \in Writers : IsPrefix(Content[q], f) => q \in saved'
  <1>0. size \in Nat /\ Len(f) \in Nat /\ saved \subseteq Writers
    BY DEF FileInv
  <1>1. CASE ~s.mode_write
    BY <1>1 DEF tftp_sdcard_close, FileInv
  <1>2. CASE /\ file' = f /\ size' = Len(f)
             /\ saved' = saved \cup {q \in Writers : IsPrefix(Content[q], f)}
             /\ UNCHANGED faults
    <2>1. FileInv'
      BY <1>0, <1>2 DEF FileInv
    <2> QED  BY <1>2, <2>1
  <1>3. CASE /\ Fails("close", s.peer)
             /\ file' = SubSeq(f, 1, size)
             /\ UNCHANGED <<size, saved>>
    <2>1. file' \in Seq(Units) /\ Len(file') = size
      BY <1>0, <1>3, CutIs
    <2>2. (BlkMod - 1) * BLK \in Nat
      BY Sizes
    <2>3. FileInv'
      BY <1>0, <1>3, <2>1, <2>2 DEF FileInv
    <2> QED  BY <1>3, <2>3 DEF Fails
  <1> QED  BY <1>1, <1>2, <1>3 DEF tftp_sdcard_close

\* A timeout.
LEMMA TmrStep ==
    ASSUME Inv, tftp_tmr
    PROVE  Inv'
  <1>0. Shape(s) /\ TimerInv /\ FileInv /\ OpenInv /\ NetInv /\ DOMAIN src = Readers
        /\ s.mode_write \in BOOLEAN /\ s.handle \in BOOLEAN /\ UNCHANGED <<net, client, src>>
    BY DEF Inv, ClientInv, OpenInv, tftp_tmr
  <1>1. /\ s.armed \in 0 .. MaxArmed /\ s.armed > 0 /\ s.idle \in 0 .. Timeout + 1
        /\ s.retries \in 0 .. MaxRetries
    BY <1>0 DEF TimerInv, tftp_tmr
  <1>2. PICK t : t = Tick
    OBVIOUS
  <1>3. /\ Shape(t) /\ SameTransfer(t, s) /\ t.retries = s.retries /\ t.armed = s.armed - 1
        /\ t.idle \in 0 .. Timeout + 1
    <2>1. PICK n \in Int : n = Min({s.idle + 1, Timeout + 1}) /\ n \in 0 .. Timeout + 1
      BY <1>1, MinIs, Sizes
    <2>2. t = [handle |-> s.handle, peer |-> s.peer, mode_write |-> s.mode_write, blknum |-> s.blknum,
               last |-> s.last, retries |-> s.retries, idle |-> n, armed |-> s.armed - 1, fpos |-> s.fpos]
      BY <1>0, <1>2, <2>1 DEF Tick, Shape
    <2> QED  BY <2>1, <2>2 DEF Shape, SameTransfer
  <1>4. CASE ~s.handle
    <2>1. s' = t /\ UNCHANGED <<file, size, saved, faults>>
      BY <1>2, <1>4 DEF tftp_tmr
    <2>2. Grows
      BY <1>0, <2>1 DEF Grows
    <2>3. TimerInv'
      <3>1. s'.handle = s.handle /\ s'.armed = s.armed - 1 /\ s'.retries = s.retries /\ s'.idle = t.idle
        BY <1>3, <2>1 DEF SameTransfer
      <3>2. s'.armed \in 0 .. MaxArmed
        BY <1>1, <3>1, Sizes
      <3> QED  BY <1>1, <1>3, <1>4, <3>1, <3>2 DEF TimerInv
    <2>4. OpenInv' /\ FileInv'
      BY <1>0, <1>3, <2>1, <2>2, OpenKept DEF FileInv
    <2> QED  BY <1>0, <1>3, <2>1, <2>2, <2>3, <2>4, ServerStep
  <1>5. CASE s.handle
    <2>0. PICK u : u = [t EXCEPT !.armed = @ + 1]
      OBVIOUS
    <2>1. /\ Shape(u) /\ SameTransfer(u, s) /\ u.retries = s.retries /\ u.armed = s.armed
          /\ u.idle \in 0 .. Timeout + 1
      <3>1. (s.armed - 1) + 1 = s.armed
        BY <1>1
      <3> QED  BY <1>3, <2>0, <3>1 DEF Shape, SameTransfer
    <2>2. IF u.idle =< Timeout THEN s' = u /\ UNCHANGED <<file, size, saved, faults>>
          ELSE IF s.last # NoData /\ s.retries < MaxRetries
          THEN s' = [u EXCEPT !.retries = @ + 1] /\ UNCHANGED <<file, size, saved, faults>>
          ELSE s' = close_handle(u) /\ tftp_sdcard_close(file)
      BY <1>2, <1>5, <2>0 DEF tftp_tmr
    <2>3. ASSUME \/ s' = u
                 \/ s' = [u EXCEPT !.retries = @ + 1] /\ s.retries < MaxRetries,
                 UNCHANGED <<file, size, saved, faults>>
          PROVE  Inv'
      <3>1. /\ Shape(s') /\ SameTransfer(s', s) /\ s'.armed = s.armed /\ s'.idle \in 0 .. Timeout + 1
            /\ (s'.retries = s.retries \/ (s'.retries = s.retries + 1 /\ s.retries < MaxRetries))
        BY <2>1, <2>3 DEF Shape, SameTransfer
      <3>2. Grows
        BY <1>0, <2>3 DEF Grows
      <3>3. s'.retries \in 0 .. MaxRetries
        BY <1>1, <3>1, Sizes
      <3>4. TimerInv'
        BY <1>0, <1>1, <3>1, <3>3 DEF TimerInv, SameTransfer
      <3>5. OpenInv' /\ FileInv'
        BY <1>0, <2>3, <3>1, <3>2, OpenKept DEF FileInv
      <3> QED  BY <1>0, <3>1, <3>2, <3>4, <3>5, ServerStep
    <2>4. ASSUME s' = close_handle(u), tftp_sdcard_close(file)
          PROVE  Inv'
      <3>1. /\ Shape(s') /\ s'.handle = FALSE /\ s'.peer = NoPeer /\ s'.last = NoData
            /\ s'.mode_write = s.mode_write /\ s'.blknum = s.blknum
            /\ s'.retries = s.retries /\ s'.idle = u.idle /\ s'.armed \in Nat /\ s'.armed =< s.armed
        <4>1. u.armed \in Nat /\ u.mode_write = s.mode_write /\ u.blknum = s.blknum
          BY <1>1, <2>1, Sizes DEF SameTransfer
        <4> QED  BY <2>1, <2>4, <4>1, CloseIs
      <3>2. FileInv' /\ saved \subseteq saved' /\ faults \subseteq faults'
        <4>1. file \in Seq(Units) /\ Len(file) < (BlkMod - 1) * BLK /\ size =< Len(file)
          BY <1>0 DEF FileInv
        <4> QED  BY <1>0, <2>4, <4>1, CloseFile
      <3>3. Grows
        BY <1>0, <3>2 DEF Grows
      <3>4. TimerInv'
        <4>1. s'.armed \in 0 .. MaxArmed
          BY <1>1, <3>1, Sizes
        <4> QED  BY <1>1, <2>1, <3>1, <4>1 DEF TimerInv
      <3>5. OpenInv'
        BY <1>0, <3>1, OpenClosed DEF OpenInv
      <3> QED  BY <1>0, <3>1, <3>2, <3>3, <3>4, <3>5, ServerStep
    <2> QED  BY <2>2, <2>3, <2>4
  <1> QED  BY <1>0, <1>4, <1>5

\* A block of the open write: it is the one that belongs where the file ends.
LEMMA BlockOfWrite ==
    ASSUME Inv, NEW m \in net, m.to = "server", m.op = "DATA", Mine(m), s.handle, s.mode_write
    PROVE  /\ s.peer = m.peer /\ m.peer \in Writers /\ m.peer \in Peers
           /\ m.blk \in Nat /\ m.blk >= 1 /\ m.blk < BlkMod
           /\ m.data \in Seq(Units) /\ Len(m.data) \in Nat /\ m.data = Block(Content[m.peer], Pos(m.blk))
           /\ Pos(m.blk) + Len(m.data) =< Len(Content[m.peer])
           /\ Pos(m.blk) + BLK =< Len(Content[m.peer]) <=> Len(m.data) = BLK
           /\ Len(m.data) # BLK => Pos(m.blk) + Len(m.data) = Len(Content[m.peer])
           /\ \A x \in 1 .. Len(m.data) : m.data[x] = Content[m.peer][Pos(m.blk) + x]
           /\ Len(m.data) =< BLK
  <1>0. OpenInv /\ NetInv
    BY DEF Inv
  <1>1. s.peer \in Writers /\ s.peer \in Peers /\ s.peer = m.peer
    BY <1>0, Sizes DEF OpenInv, Mine
  <1>2. /\ m.blk \in Nat /\ m.blk >= 1 /\ Pos(m.blk) =< Len(Content[m.peer])
        /\ m.data = Block(Content[m.peer], Pos(m.blk))
    BY <1>0 DEF NetInv, MsgOK
  <1>3. PICK c : c = Content[m.peer]
    OBVIOUS
  <1>4. c \in Seq(Units) /\ Len(c) \in Nat /\ Len(c) < (BlkMod - 1) * BLK
    BY <1>1, <1>3, FilesAssumption
  <1>5. PICK k \in Nat : k = Pos(m.blk)
    BY <1>2, PosIs
  <1>6. m.blk < BlkMod
    BY <1>2, <1>3, <1>4, PosBelow
  <1>7. /\ m.data \in Seq(Units) /\ Len(m.data) \in Nat
        /\ Len(m.data) = IF k + BLK =< Len(c) THEN BLK ELSE Len(c) - k
        /\ k + Len(m.data) =< Len(c)
        /\ \A x \in 1 .. Len(m.data) : m.data[x] = c[k + x]
    <2>1. k =< Len(c) /\ m.data = Block(c, k)
      BY <1>2, <1>3, <1>5
    <2> QED  BY <1>4, <2>1, BlockIs
  <1>8. /\ k + BLK =< Len(c) <=> Len(m.data) = BLK
        /\ Len(m.data) # BLK => k + Len(m.data) = Len(c)
        /\ Len(m.data) =< BLK
    BY <1>4, <1>7, Sizes
  <1> QED  BY <1>1, <1>2, <1>3, <1>5, <1>6, <1>7, <1>8

\* The file once the first n units of that block were written.
LEMMA Written ==
    ASSUME Inv, NEW m \in net, m.to = "server", m.op = "DATA", Mine(m), s.handle, s.mode_write,
           m.blk = s.blknum, NEW d \in Seq(Units), Len(d) =< Len(m.data), NEW g, g = Patch(file, s.fpos, d)
    PROVE  /\ g \in Seq(Units) /\ Len(g) \in Nat /\ Len(g) < (BlkMod - 1) * BLK /\ size =< Len(g)
           /\ d = m.data => /\ s.fpos + Len(m.data) =< Len(g)
                            /\ \A x \in 1 .. s.fpos + Len(m.data) : g[x] = Content[m.peer][x]
  <1>0. /\ s.peer = m.peer /\ m.peer \in Writers /\ Len(m.data) \in Nat
        /\ Pos(m.blk) + Len(m.data) =< Len(Content[m.peer])
        /\ \A x \in 1 .. Len(m.data) : m.data[x] = Content[m.peer][Pos(m.blk) + x]
    BY BlockOfWrite
  <1>1. /\ s.fpos \in Nat /\ s.fpos =< Len(file) /\ s.fpos = Pos(s.blknum)
        /\ \A x \in 1 .. s.fpos : file[x] = Content[m.peer][x]
    BY <1>0 DEF Inv, OpenInv
  <1>2. /\ file \in Seq(Units) /\ Len(file) \in Nat /\ Len(file) < (BlkMod - 1) * BLK /\ size \in Nat
        /\ size =< Len(file)
    BY DEF Inv, FileInv
  <1>3. /\ Len(Content[m.peer]) \in Nat /\ Len(Content[m.peer]) < (BlkMod - 1) * BLK
        /\ (BlkMod - 1) * BLK \in Nat
    BY <1>0, FilesAssumption, Sizes
  <1>4. /\ g \in Seq(Units) /\ Len(g) \in Nat
        /\ Len(g) = IF Len(file) >= s.fpos + Len(d) THEN Len(file) ELSE s.fpos + Len(d)
        /\ \A x \in 1 .. s.fpos : g[x] = file[x]
        /\ \A x \in 1 .. Len(d) : g[s.fpos + x] = d[x]
    BY <1>1, <1>2, PatchIs
  <1>5. Len(d) \in Nat
    OBVIOUS
  <1>6. Len(g) < (BlkMod - 1) * BLK /\ size =< Len(g)
    BY <1>0, <1>1, <1>2, <1>3, <1>4, <1>5
  <1>7. ASSUME d = m.data PROVE s.fpos + Len(m.data) =< Len(g)
    BY <1>0, <1>1, <1>2, <1>4, <1>7
  <1>8. ASSUME d = m.data, NEW x \in 1 .. s.fpos + Len(m.data) PROVE g[x] = Content[m.peer][x]
    <2>1. CASE x =< s.fpos
      <3>1. x \in 1 .. s.fpos
        BY <1>0, <1>1, <2>1
      <3> QED  BY <1>1, <1>4, <3>1
    <2>2. CASE x > s.fpos
      <3>1. x - s.fpos \in 1 .. Len(m.data) /\ s.fpos + (x - s.fpos) = x
        BY <1>0, <1>1, <2>2
      <3> QED  BY <1>0, <1>1, <1>4, <1>8, <3>1
    <2> QED  BY <1>0, <1>1, <2>1, <2>2
  <1> QED  BY <1>4, <1>6, <1>7, <1>8

\* A whole block.
LEMMA FullBlockStep ==
    ASSUME Inv, NEW m \in net, m.to = "server", m.op = "DATA", Mine(m), s.handle, s.mode_write,
           m.blk = s.blknum, Len(m.data) >= BLK, NEW t, t = Taken,
           s' = [t EXCEPT !.blknum = Next16(@), !.fpos = @ + Len(m.data)],
           file' = Patch(file, s.fpos, m.data), Sends(Ack("peer", m.peer, m.blk)),
           UNCHANGED <<size, client, src, saved, faults>>
    PROVE  Inv'
  <1>0. Shape(s) /\ TimerInv /\ FileInv /\ OpenInv /\ NetInv /\ DOMAIN src = Readers
    BY DEF Inv, ClientInv
  <1>1. /\ s.peer = m.peer /\ m.peer \in Writers /\ m.blk \in Nat /\ m.blk >= 1
        /\ m.data \in Seq(Units) /\ Len(m.data) \in Nat /\ Len(m.data) = BLK
        /\ m.data = Block(Content[m.peer], Pos(m.blk))
        /\ Pos(m.blk) + BLK =< Len(Content[m.peer])
    BY BlockOfWrite, Sizes
  <1>2. /\ s.fpos \in Nat /\ s.fpos = Pos(m.blk) /\ s.last = NoData /\ s.blknum \in 0 .. BlkMod - 1
    BY <1>0 DEF OpenInv
  <1>3. Shape(t) /\ SameTransfer(t, s) /\ t.retries = 0 /\ t.idle = 0 /\ t.armed = s.armed
    BY <1>0, TakenIs
  <1>4. Next16(m.blk) = m.blk + 1 /\ m.blk + 1 \in 0 .. BlkMod - 1
    <2>1. Len(Content[m.peer]) \in Nat /\ Len(Content[m.peer]) < (BlkMod - 1) * BLK
      BY <1>1, FilesAssumption
    <2>2. Pos(m.blk) =< Len(Content[m.peer])
      BY <1>1, <1>2, <2>1, Sizes
    <2>3. Next16(m.blk) = m.blk + 1
      BY <1>1, <2>1, <2>2, PosBelow
    <2>4. Next16(m.blk) \in 0 .. BlkMod - 1
      BY <1>1, Sizes DEF Next16
    <2> QED  BY <2>3, <2>4
  <1>5. /\ Shape(s') /\ s'.handle = s.handle /\ s'.peer = m.peer /\ s'.last = NoData
        /\ s'.mode_write = s.mode_write /\ s'.blknum = m.blk + 1 /\ s'.fpos = s.fpos + BLK
        /\ s'.retries = 0 /\ s'.idle = 0 /\ s'.armed = s.armed
    <2>1. Next16(t.blknum) = m.blk + 1 /\ t.fpos + Len(m.data) = s.fpos + BLK
      BY <1>1, <1>3, <1>4 DEF SameTransfer
    <2>2. s' = [t EXCEPT !.blknum = m.blk + 1, !.fpos = s.fpos + BLK]
      BY <2>1
    <2> QED  BY <1>1, <1>2, <1>3, <2>2 DEF Shape, SameTransfer
  <1>6. /\ file' \in Seq(Units) /\ Len(file') \in Nat /\ Len(file') < (BlkMod - 1) * BLK
        /\ size =< Len(file') /\ s.fpos + BLK =< Len(file')
        /\ \A x \in 1 .. s.fpos + BLK : file'[x] = Content[m.peer][x]
    BY <1>1, Written
  <1>7. Grows
    BY <1>0 DEF Grows, Sends
  <1>8. TimerInv'
    BY <1>0, <1>5, Sizes DEF TimerInv
  <1>9. FileInv'
    BY <1>0, <1>6 DEF FileInv
  <1>10. OpenInv'
    <2>1. s'.fpos = Pos(s'.blknum) /\ s'.fpos \in Nat /\ s'.blknum >= 1
      BY <1>1, <1>2, <1>5, PosIs, Sizes
    <2>2. s'.blknum \in 0 .. BlkMod - 1 /\ s'.fpos =< Len(Content[m.peer]) /\ s'.fpos =< Len(file')
      BY <1>1, <1>2, <1>4, <1>5, <1>6
    <2>3. \A x \in 1 .. s'.fpos : file'[x] = Content[s'.peer][x]
      BY <1>5, <1>6
    <2>4. s'.handle \in BOOLEAN /\ s'.mode_write \in BOOLEAN /\ s'.mode_write /\ s'.handle /\ s'.peer \in Writers
      BY <1>0, <1>1, <1>5 DEF OpenInv
    <2> QED  BY <1>5, <2>1, <2>2, <2>3, <2>4 DEF OpenInv, Pos
  <1>11. \A e \in net' : e \in net \/ MsgOK(e)'
    <2>1. ~Short(m.peer, m.blk)
      BY <1>1, Sizes DEF Short
    <2>2. MsgOK(Ack("peer", m.peer, m.blk))'
      BY <1>1, <2>1, AckOK
    <2> QED  BY <2>2 DEF Sends
  <1> QED  BY <1>5, <1>7, <1>8, <1>9, <1>10, <1>11, ServerStep

\* The last block: the file now begins with the whole content.
LEMMA ShortBlockStep ==
    ASSUME Inv, NEW m \in net, m.to = "server", m.op = "DATA", Mine(m), s.handle, s.mode_write,
           m.blk = s.blknum, Len(m.data) < BLK, NEW u, Shape(u), u.armed = s.armed, u.mode_write = s.mode_write,
           u.blknum = s.blknum, u.retries = 0, u.idle = 0, s' = close_handle(u),
           NEW g, g = Patch(file, s.fpos, m.data), tftp_sdcard_close(g), Sends(Ack("peer", m.peer, m.blk)),
           UNCHANGED <<client, src>>
    PROVE  Inv'
  <1>0. Shape(s) /\ TimerInv /\ FileInv /\ OpenInv /\ NetInv /\ DOMAIN src = Readers
    BY DEF Inv, ClientInv
  <1>1. /\ s.peer = m.peer /\ m.peer \in Writers /\ m.blk \in Nat
        /\ m.data \in Seq(Units) /\ Len(m.data) \in Nat
        /\ Pos(m.blk) + Len(m.data) = Len(Content[m.peer])
    BY BlockOfWrite, Sizes
  <1>2. s.mode_write \in BOOLEAN /\ s.blknum \in 0 .. BlkMod - 1 /\ s.fpos = Pos(m.blk)
    BY <1>0 DEF OpenInv
  <1>3. s.armed \in 0 .. MaxArmed
    BY <1>0 DEF TimerInv
  <1>4. /\ Shape(s') /\ s'.handle = FALSE /\ s'.peer = NoPeer /\ s'.last = NoData
        /\ s'.mode_write = s.mode_write /\ s'.blknum = s.blknum
        /\ s'.retries = 0 /\ s'.idle = 0 /\ s'.armed \in Nat /\ s'.armed =< s.armed
    <2>1. u.armed \in Nat
      BY <1>3, Sizes
    <2> QED  BY <2>1, CloseIs
  <1>5. /\ g \in Seq(Units) /\ Len(g) \in Nat /\ Len(g) < (BlkMod - 1) * BLK /\ size =< Len(g)
        /\ s.fpos + Len(m.data) =< Len(g)
        /\ \A x \in 1 .. s.fpos + Len(m.data) : g[x] = Content[m.peer][x]
    BY <1>1, Written
  <1>6. IsPrefix(Content[m.peer], g)
    <2>1. PICK c : c = Content[m.peer]
      OBVIOUS
    <2>2. c \in Seq(Units) /\ Len(c) \in Nat
      BY <1>1, <2>1, FilesAssumption
    <2>3. Len(c) =< Len(g) /\ \A x \in 1 .. Len(c) : c[x] = g[x]
      BY <1>1, <1>2, <1>5, <2>1
    <2>4. SubSeq(c, 1, Len(c)) = SubSeq(g, 1, Len(c))
      BY <1>5, <2>2, <2>3, CutAlike
    <2> QED  BY <2>1, <2>3, <2>4 DEF IsPrefix
  <1>7. /\ FileInv' /\ saved \subseteq saved' /\ faults \subseteq faults'
        /\ m.peer \in saved' \/ <<"close", m.peer>> \in faults'
    BY <1>0, <1>1, <1>2, <1>5, <1>6, CloseFile
  <1>8. Grows
    BY <1>0, <1>7 DEF Grows, Sends
  <1>9. TimerInv'
    <2>1. s'.armed \in 0 .. MaxArmed
      BY <1>3, <1>4, Sizes
    <2> QED  BY <1>4, <2>1, Sizes DEF TimerInv
  <1>10. OpenInv'
    BY <1>2, <1>4, OpenClosed
  <1>11. \A e \in net' : e \in net \/ MsgOK(e)'
    <2>1. MsgOK(Ack("peer", m.peer, m.blk))'
      BY <1>1, <1>7, AckOK
    <2> QED  BY <2>1 DEF Sends
  <1> QED  BY <1>4, <1>7, <1>8, <1>9, <1>10, <1>11, ServerStep

\* A write that failed after n units: the transfer is over and nothing is acknowledged.
LEMMA WriteErrorStep ==
    ASSUME Inv, NEW m \in net, m.to = "server", m.op = "DATA", Mine(m), s.handle, s.mode_write,
           m.blk = s.blknum, NEW n \in 0 .. Len(m.data) - 1,
           NEW u, Shape(u), u.armed = s.armed, u.mode_write = s.mode_write,
           u.blknum \in 0 .. BlkMod - 1, u.retries = 0, u.idle = 0,
           s' = close_handle(u) \/ s' = close_handle(close_handle(u)),
           Refuses(m), Fails("write", m.peer), UNCHANGED <<client, src, saved>>,
           NEW f, f = Patch(file, s.fpos, SubSeq(m.data, 1, n)),
           file' \in {f, SubSeq(f, 1, size)}, size' = Len(file')
    PROVE  Inv'
  <1>0. Shape(s) /\ TimerInv /\ FileInv /\ OpenInv /\ NetInv /\ DOMAIN src = Readers
    BY DEF Inv, ClientInv
  <1>1. m.data \in Seq(Units) /\ Len(m.data) \in Nat /\ m.peer \in Peers
    BY BlockOfWrite
  <1>2. s.mode_write \in BOOLEAN /\ s.armed \in 0 .. MaxArmed
    BY <1>0 DEF OpenInv, TimerInv
  <1>3. /\ Shape(s') /\ s'.handle = FALSE /\ s'.peer = NoPeer /\ s'.last = NoData
        /\ s'.mode_write = s.mode_write /\ s'.blknum = u.blknum
        /\ s'.retries = 0 /\ s'.idle = 0 /\ s'.armed \in Nat /\ s'.armed =< s.armed
    <2>0. PICK v : v = close_handle(u)
      OBVIOUS
    <2>1. u.armed \in Nat
      BY <1>2, Sizes
    <2>2. /\ Shape(v) /\ v.handle = FALSE /\ v.peer = NoPeer /\ v.last = NoData
          /\ v.mode_write = s.mode_write /\ v.blknum = u.blknum
          /\ v.retries = 0 /\ v.idle = 0 /\ v.armed \in Nat /\ v.armed =< s.armed
      BY <2>0, <2>1, CloseIs
    <2>3. PICK w : w = close_handle(v)
      OBVIOUS
    <2>4. /\ Shape(w) /\ w.handle = FALSE /\ w.peer = NoPeer /\ w.last = NoData
          /\ w.mode_write = s.mode_write /\ w.blknum = u.blknum
          /\ w.retries = 0 /\ w.idle = 0 /\ w.armed \in Nat /\ w.armed =< v.armed
      BY <2>2, <2>3, CloseIs
    <2>5. w.armed =< s.armed
      BY <1>2, <2>2, <2>4, Sizes
    <2>6. s' = v \/ s' = w
      BY <2>0, <2>3
    <2> QED  BY <2>2, <2>4, <2>5, <2>6
  <1>4. PICK d : d = SubSeq(m.data, 1, n)
    OBVIOUS
  <1>5. d \in Seq(Units) /\ Len(d) =< Len(m.data)
    <2>1. n \in Nat /\ n =< Len(m.data)
      BY <1>1
    <2> QED  BY <1>1, <1>4, <2>1, CutIs
  <1>6. f \in Seq(Units) /\ Len(f) \in Nat /\ Len(f) < (BlkMod - 1) * BLK /\ size =< Len(f)
    BY <1>4, <1>5, Written
  <1>7. FileInv'
    <2>1. size \in Nat /\ saved \subseteq Writers /\ (BlkMod - 1) * BLK \in Nat
      BY <1>0, Sizes DEF FileInv
    <2>2. file' \in Seq(Units) /\ Len(file') \in Nat /\ Len(file') =< Len(f)
      BY <1>6, <2>1, CutIs
    <2> QED  BY <1>6, <2>1, <2>2 DEF FileInv
  <1>8. Grows
    BY <1>0 DEF Grows, Refuses, Sends, Fails
  <1>9. TimerInv'
    <2>1. s'.armed \in 0 .. MaxArmed
      BY <1>2, <1>3, Sizes
    <2> QED  BY <1>3, <2>1, Sizes DEF TimerInv
  <1>10. OpenInv'
    BY <1>2, <1>3, OpenClosed
  <1>11. \A e \in net' : e \in net \/ MsgOK(e)'
    BY <1>1, ErrorOK DEF Refuses, Sends
  <1> QED  BY <1>3, <1>7, <1>8, <1>9, <1>10, <1>11, ServerStep

\* A block the writer sent again: blknum is already past it, so it was not the last one.
LEMMA AgainStep ==
    ASSUME Inv, NEW m \in net, m.to = "server", m.op = "DATA", Mine(m), s.handle, s.mode_write,
           Next16(m.blk) = s.blknum, s' = Taken, Sends(Ack("peer", m.peer, m.blk)),
           UNCHANGED <<file, size, client, src, saved, faults>>
    PROVE  Inv'
  <1>0. Shape(s) /\ TimerInv /\ FileInv /\ OpenInv /\ NetInv /\ DOMAIN src = Readers
    BY DEF Inv, ClientInv
  <1>1. /\ s.peer = m.peer /\ m.peer \in Writers /\ m.blk \in Nat /\ m.blk >= 1 /\ m.blk < BlkMod
        /\ m.data = Block(Content[m.peer], Pos(m.blk))
        /\ Pos(m.blk) + BLK =< Len(Content[m.peer]) <=> Len(m.data) = BLK
    BY BlockOfWrite
  <1>2. s.blknum >= 1 /\ Pos(s.blknum) =< Len(Content[m.peer])
    BY <1>0, <1>1 DEF OpenInv
  <1>3. s.blknum = m.blk + 1
    BY <1>1, <1>2, Sizes DEF Next16
  <1>4. ~Short(m.peer, m.blk)
    <2>1. Pos(m.blk) + BLK =< Len(Content[m.peer])
      BY <1>1, <1>2, <1>3, PosIs
    <2> QED  BY <1>1, <2>1, Sizes DEF Short
  <1>5. /\ Shape(s') /\ SameTransfer(s', s) /\ s'.retries = 0 /\ s'.idle = 0 /\ s'.armed = s.armed
    BY <1>0, TakenIs
  <1>6. Grows
    BY <1>0 DEF Grows, Sends
  <1>7. TimerInv'
    BY <1>0, <1>5, Sizes DEF TimerInv, SameTransfer
  <1>8. FileInv' /\ OpenInv'
    BY <1>0, <1>5, <1>6, OpenKept DEF FileInv
  <1>9. \A e \in net' : e \in net \/ MsgOK(e)'
    <2>1. MsgOK(Ack("peer", m.peer, m.blk))'
      BY <1>1, <1>4, AckOK
    <2> QED  BY <2>1 DEF Sends
  <1> QED  BY <1>5, <1>6, <1>7, <1>8, <1>9, ServerStep

\* Data.
LEMMA DataStep ==
    ASSUME Inv, NEW m \in net, m.to = "server", RecvData(m)
    PROVE  Inv'
  <1>0. /\ Shape(s) /\ OpenInv /\ m.op = "DATA" /\ Mine(m) /\ UNCHANGED <<client, src>>
        /\ s.blknum \in 0 .. BlkMod - 1
    BY DEF Inv, OpenInv, RecvData
  <1>1. CASE ~s.handle \/ ~s.mode_write
    BY <1>1, RefusedStep DEF RecvData
  <1>2. CASE s.handle /\ s.mode_write /\ m.blk # s.blknum
    <2>1. CASE Next16(m.blk) = s.blknum
      BY <1>0, <1>2, <2>1, AgainStep DEF RecvData
    <2>2. CASE Next16(m.blk) # s.blknum
      BY <1>2, <2>2, RefusedStep DEF RecvData
    <2> QED  BY <2>1, <2>2
  <1>3. CASE s.handle /\ s.mode_write /\ m.blk = s.blknum
    <2>0. PICK t : t = Taken
      OBVIOUS
    <2>1. Shape(t) /\ SameTransfer(t, s) /\ t.retries = 0 /\ t.idle = 0 /\ t.armed = s.armed
      BY <1>0, <2>0, TakenIs
    <2>2. PICK u : u = [t EXCEPT !.blknum = IF Len(m.data) < BLK THEN @ ELSE Next16(@),
                                 !.fpos = @ + Len(m.data)]
      OBVIOUS
    <2>3. PICK g : g = Patch(file, s.fpos, m.data)
      OBVIOUS
    <2>4. \/ /\ Sends(Ack("peer", m.peer, m.blk))
             /\ IF Len(m.data) < BLK THEN s' = close_handle(u) /\ tftp_sdcard_close(g)
                ELSE s' = u /\ file' = g /\ UNCHANGED <<size, saved, faults>>
          \/ \E n \in 0 .. Len(m.data) - 1 :
                 /\ write_error(m)
                 /\ s' = IF Len(m.data) < BLK THEN close_handle(close_handle(u)) ELSE close_handle(u)
                 /\ Fails("write", m.peer)
                 /\ LET f == Patch(file, s.fpos, SubSeq(m.data, 1, n))
                    IN  file' \in {f, SubSeq(f, 1, size)} /\ size' = Len(file') /\ UNCHANGED saved
      BY <1>3, <2>0, <2>2, <2>3 DEF RecvData
    <2>5. /\ Shape(u) /\ u.armed = s.armed /\ u.mode_write = s.mode_write /\ u.retries = 0 /\ u.idle = 0
          /\ u.blknum = IF Len(m.data) < BLK THEN s.blknum ELSE Next16(s.blknum)
      BY <2>1, <2>2 DEF Shape, SameTransfer
    <2>6. Len(m.data) \in Nat /\ BLK \in Nat /\ (~(Len(m.data) < BLK) => Len(m.data) >= BLK)
      BY <1>0, <1>3, BlockOfWrite, Sizes
    <2>7. CASE /\ Sends(Ack("peer", m.peer, m.blk)) /\ Len(m.data) < BLK
               /\ s' = close_handle(u) /\ tftp_sdcard_close(g)
      <3>1. u.blknum = s.blknum
        BY <2>5, <2>7
      <3> QED  BY <1>0, <1>3, <2>3, <2>5, <2>7, <3>1, ShortBlockStep
    <2>8. CASE /\ Sends(Ack("peer", m.peer, m.blk)) /\ ~(Len(m.data) < BLK)
               /\ s' = u /\ file' = g /\ UNCHANGED <<size, saved, faults>>
      <3>1. s' = [t EXCEPT !.blknum = Next16(@), !.fpos = @ + Len(m.data)]
        BY <2>2, <2>8
      <3> QED  BY <1>0, <1>3, <2>0, <2>3, <2>6, <2>8, <3>1, FullBlockStep
    <2>9. ASSUME NEW n \in 0 .. Len(m.data) - 1, write_error(m),
                 s' = close_handle(u) \/ s' = close_handle(close_handle(u)),
                 Fails("write", m.peer), NEW f, f = Patch(file, s.fpos, SubSeq(m.data, 1, n)),
                 file' \in {f, SubSeq(f, 1, size)}, size' = Len(file'), UNCHANGED saved
          PROVE  Inv'
      <3>1. u.blknum \in 0 .. BlkMod - 1
        BY <1>0, <2>5, Sizes DEF Next16
      <3>2. Refuses(m) /\ UNCHANGED <<client, src, saved>>
        BY <1>0, <2>9 DEF write_error
      <3> QED  BY <1>0, <1>3, <2>5, <2>9, <3>1, <3>2, WriteErrorStep
    <2> QED  BY <2>4, <2>7, <2>8, <2>9
  <1> QED  BY <1>1, <1>2, <1>3

-----------------------------------------------------------------------------
(* The steps of the peers. *)

ClientType == [st : {"idle", "busy", "done", "failed"}, blk : Nat, buf : Seq(Units)]

\* What is left to show of a step of peer p.
LEMMA PeerKeeps ==
    ASSUME Inv, UNCHANGED server, net \subseteq net', \A m \in net' : m \in net \/ MsgOK(m)',
           NEW p \in Peers, client' \in [Peers -> ClientType],
           \A q \in Peers \ {p} : client'[q] = client[q],
           p \in Writers => WriterOK(p)', p \in Readers => ReaderOK(p)'
    PROVE  Inv'
  <1>0. /\ Shape(s) /\ TimerInv /\ FileInv /\ OpenInv /\ NetInv /\ ClientInv
        /\ UNCHANGED <<s, file, size, src, saved, faults>> /\ DOMAIN src = Readers
    BY DEF Inv, server, ClientInv
  <1>1. Grows
    BY <1>0 DEF Grows
  <1>2. Shape(s') /\ TimerInv' /\ FileInv'
    BY <1>0 DEF Shape, TimerInv, FileInv
  <1>3. OpenInv'
    <2>1. SameTransfer(s', s)
      BY <1>0 DEF SameTransfer
    <2> QED  BY <1>0, <1>1, <2>1, OpenKept
  <1>4. NetInv'
    BY <1>0, <1>1, NetKept
  <1>5. ASSUME NEW q \in Writers PROVE WriterOK(q)'
    <2>1. CASE q = p
      BY <2>1
    <2>2. CASE q # p
      <3>1. client'[q] = client[q] /\ WriterOK(q)
        BY <1>0, <2>2, Sizes DEF ClientInv
      <3> QED  BY <1>1, <3>1, WriterKept
    <2> QED  BY <2>1, <2>2
  <1>6. ASSUME NEW q \in Readers PROVE ReaderOK(q)'
    <2>1. CASE q = p
      BY <2>1
    <2>2. CASE q # p
      <3>1. client'[q] = client[q] /\ ReaderOK(q)
        BY <1>0, <2>2, Sizes DEF ClientInv
      <3> QED  BY <1>0, <1>1, <3>1, ReaderKept
    <2> QED  BY <2>1, <2>2
  <1>7. ClientInv'
    BY <1>0, <1>5, <1>6 DEF ClientInv, ClientType
  <1> QED  BY <1>2, <1>3, <1>4, <1>7 DEF Inv, Shape

\* What a peer is after it moved.
LEMMA PeerTypes ==
    /\ {"busy", "done", "failed"} \subseteq {"idle", "busy", "done", "failed"}
    /\ <<>> \in Seq(Units) /\ 0 \in Nat /\ 1 \in Nat
  OBVIOUS

LEMMA MovesTo ==
    ASSUME client \in [Peers -> ClientType], NEW p \in Peers, NEW st \in {"busy", "done", "failed"},
           NEW blk \in Nat, NEW buf \in Seq(Units), Moves(p, st, blk, buf)
    PROVE  /\ client' \in [Peers -> ClientType]
           /\ \A q \in Peers \ {p} : client'[q] = client[q]
           /\ client'[p].st = st /\ client'[p].blk = blk /\ client'[p].buf = buf
  <1>1. PICK c : c = [st |-> st, blk |-> blk, buf |-> buf]
    OBVIOUS
  <1>2. c \in ClientType /\ c.st = st /\ c.blk = blk /\ c.buf = buf
    BY <1>1, PeerTypes DEF ClientType
  <1>3. client' = [client EXCEPT ![p] = c]
    BY <1>1 DEF Moves
  <1> QED  BY <1>2, <1>3

LEMMA StartStep ==
    ASSUME Inv, NEW p \in Peers, PeerStart(p)
    PROVE  Inv'
  <1>0. /\ NetInv /\ client \in [Peers -> ClientType] /\ UNCHANGED server
        /\ UNCHANGED <<src, saved, faults>>
    BY DEF Inv, ClientInv, ClientType, PeerStart, server
  <1>1. PICK k \in Nat : k = (IF p \in Readers THEN 1 ELSE 0)
    OBVIOUS
  <1>2. Moves(p, "busy", k, <<>>) /\ client[p].st = "idle"
    BY <1>1 DEF PeerStart
  <1>3. /\ client' \in [Peers -> ClientType] /\ \A q \in Peers \ {p} : client'[q] = client[q]
        /\ client'[p].st = "busy" /\ client'[p].blk = k /\ client'[p].buf = <<>>
    BY <1>0, <1>1, <1>2, PeerTypes, MovesTo
  <1>4. ASSUME p \in Writers PROVE WriterOK(p)'
    <2>1. p \notin Readers
      BY <1>4, Sizes
    <2>2. k = 0
      BY <1>1, <2>1
    <2>3. client'[p].st = "busy" /\ client'[p].blk = 0
      BY <1>3, <2>2
    <2> QED  BY <2>3 DEF WriterOK
  <1>5. ASSUME p \in Readers PROVE ReaderOK(p)'
    <2>0. ReaderOK(p)
      BY <1>5 DEF Inv, ClientInv
    <2>1. k = 1 /\ Pos(1) = 0
      <3>1. k = 1
        BY <1>1, <1>5
      <3> QED  BY <3>1, PosFirst
    <2>2. \A f \in src[p] : f \in Seq(Units) /\ Len(f) < (BlkMod - 1) * BLK
      BY <2>0, Zenon DEF ReaderOK
    <2>3. \A f \in src[p] : Len(f) \in Nat
      BY <2>2
    <2>4. Pos(client'[p].blk) = 0 /\ Len(client'[p].buf) = 0
      BY <1>3, <2>1
    <2>5. (Pos(client[p].blk))' = Pos(client'[p].blk)
      BY DEF Pos
    <2>6. src' = src /\ client'[p].st = "busy" /\ client'[p].blk = 1 /\ client'[p].buf = <<>>
      BY <1>0, <1>3, <2>1
    <2> QED  BY <2>2, <2>3, <2>4, <2>5, <2>6 DEF ReaderOK
  <1>6. PICK op \in {"RRQ", "WRQ"}, name \in {"file", "too long"} :
            /\ net' = net \cup {Req(p, op, name)}
            /\ p \in Readers => op = "RRQ"
            /\ p \notin Readers => op = "WRQ"
    BY DEF PeerStart, Sends
  <1>7. MsgOK(Req(p, op, name))'
    <2>1. PICK r : r = Req(p, op, name)
      OBVIOUS
    <2>2. r.to = "server" /\ r.peer = p /\ r.op = op /\ r.name = name
      BY <2>1 DEF Req
    <2>3. (op = "RRQ" => p \in Readers) /\ (op = "WRQ" => p \in Writers)
      BY <1>6, Sizes
    <2>4. MsgOK(r)'
      BY <2>2, <2>3 DEF MsgOK
    <2> QED  BY <2>1, <2>4
  <1> QED  BY <1>0, <1>3, <1>4, <1>5, <1>6, <1>7, PeerKeeps

LEMMA FailsStep ==
    ASSUME Inv, NEW p \in Peers, PeerFails(p)
    PROVE  Inv'
  <1>0. /\ NetInv /\ client \in [Peers -> ClientType] /\ UNCHANGED server
        /\ UNCHANGED <<src, saved, faults>>
    BY DEF Inv, ClientInv, ClientType, PeerFails, server
  <1>1. /\ client' \in [Peers -> ClientType] /\ \A q \in Peers \ {p} : client'[q] = client[q]
        /\ client'[p].st = "failed"
    BY <1>0, PeerTypes, MovesTo DEF PeerFails
  <1>2. net' = net \/ net' = net \cup {Err("server", p)}
    BY DEF PeerFails, Sends
  <1>3. MsgOK(Err("server", p))'
    <2>1. PICK e : e = Err("server", p)
      OBVIOUS
    <2>2. e.to = "server" /\ e.peer = p /\ e.op = "ERROR"
      BY <2>1 DEF Err
    <2>3. MsgOK(e)'
      BY <2>2 DEF MsgOK
    <2> QED  BY <2>1, <2>3
  <1>4. p \in Writers => WriterOK(p)'
    BY <1>1 DEF WriterOK
  <1>5. ASSUME p \in Readers PROVE ReaderOK(p)'
    <2>1. \A f \in src[p] : f \in Seq(Units) /\ Len(f) < (BlkMod - 1) * BLK
      BY <1>5 DEF Inv, ClientInv, ReaderOK
    <2> QED  BY <1>0, <1>1, <2>1 DEF ReaderOK
  <1> QED  BY <1>0, <1>1, <1>2, <1>3, <1>4, <1>5, PeerKeeps

LEMMA WriterStep ==
    ASSUME Inv, NEW p \in Peers, NEW m \in net, m.to = "peer", m.peer = p, WriterAck(p, m)
    PROVE  Inv'
  <1>0. /\ NetInv /\ client \in [Peers -> ClientType] /\ UNCHANGED server
        /\ UNCHANGED <<src, saved, faults>> /\ p \in Writers /\ p \notin Readers
        /\ WriterOK(p) /\ MsgOK(m) /\ m.op = "ACK"
        /\ client[p].st = "busy" /\ m.blk = client[p].blk
    BY Sizes DEF Inv, ClientInv, ClientType, WriterAck, server, NetInv
  <1>1. PICK k \in Nat : k = client[p].blk
    BY <1>0 DEF ClientType
  <1>2. PICK c : c = Content[p]
    OBVIOUS
  <1>3. c \in Seq(Units) /\ Len(c) \in Nat
    BY <1>0, <1>2, FilesAssumption
  <1>4. CASE k > 0 /\ Short(p, k)
    <2>1. Moves(p, "done", k, <<>>) /\ UNCHANGED net
      BY <1>1, <1>4 DEF WriterAck, Short, Pos
    <2>2. /\ client' \in [Peers -> ClientType] /\ \A q \in Peers \ {p} : client'[q] = client[q]
          /\ client'[p].st = "done"
      BY <1>0, <2>1, PeerTypes, MovesTo
    <2>3. p \in saved \/ <<"close", p>> \in faults
      BY <1>0, <1>1, <1>4 DEF MsgOK
    <2>4. WriterOK(p)'
      BY <1>0, <2>2, <2>3 DEF WriterOK
    <2> QED  BY <1>0, <2>1, <2>2, <2>4, PeerKeeps
  <1>5. CASE ~(k > 0 /\ Short(p, k))
    <2>0. PICK d : d = Data("server", p, k + 1, Block(c, k * BLK))
      OBVIOUS
    <2>1. Moves(p, "busy", k + 1, <<>>) /\ net' = net \cup {d}
      BY <1>1, <1>2, <1>5, <2>0 DEF WriterAck, Short, Pos, Sends
    <2>2. /\ client' \in [Peers -> ClientType] /\ \A q \in Peers \ {p} : client'[q] = client[q]
          /\ client'[p].st = "busy" /\ client'[p].blk = k + 1
      <3>1. k + 1 \in Nat
        OBVIOUS
      <3> QED  BY <1>0, <2>1, <3>1, PeerTypes, MovesTo
    <2>3. k * BLK = Pos(k + 1)
      <3>1. (k + 1) - 1 = k
        OBVIOUS
      <3> QED  BY <3>1 DEF Pos
    <2>4. Pos(k + 1) =< Len(c)
      <3>1. CASE k = 0
        BY <1>3, <3>1, PosIs
      <3>2. CASE k > 0
        <4>0. PICK b : b = Block(c, Pos(k))
          OBVIOUS
        <4>1. Pos(k) =< Len(c) /\ Pos(k) \in Nat /\ Pos(k + 1) = Pos(k) + BLK
          BY <1>0, <1>1, <1>2, <3>2, PosIs DEF WriterOK
        <4>2. ~(Len(b) < BLK)
          BY <1>2, <1>5, <3>2, <4>0 DEF Short
        <4>3. Len(b) = (IF Pos(k) + BLK =< Len(c) THEN BLK ELSE Len(c) - Pos(k)) /\ Len(b) \in Nat
          BY <1>3, <4>0, <4>1, BlockIs
        <4> QED  BY <1>3, <4>1, <4>2, <4>3, Sizes
      <3> QED  BY <3>1, <3>2
    <2>5. MsgOK(d)'
      <3>1. /\ d.to = "server" /\ d.peer = p /\ d.op = "DATA" /\ d.blk = k + 1
            /\ d.data = Block(Content[p], Pos(k + 1))
        BY <1>2, <2>0, <2>3 DEF Data
      <3>2. d.blk \in Nat /\ d.blk >= 1 /\ Pos(d.blk) =< Len(Content[d.peer])
            /\ d.data = Block(Content[d.peer], Pos(d.blk))
        BY <1>2, <2>4, <3>1
      <3> QED  BY <1>0, <3>1, <3>2 DEF MsgOK
    <2>6. WriterOK(p)'
      <3>1. (Pos(client[p].blk))' = Pos(client'[p].blk)
        BY DEF Pos
      <3> QED  BY <1>2, <2>2, <2>4, <3>1 DEF WriterOK
    <2> QED  BY <1>0, <2>1, <2>2, <2>5, <2>6, PeerKeeps
  <1> QED  BY <1>4, <1>5

\* buf holds the first n units of f.
Holds(buf, f, n) == n =< Len(f) /\ Len(buf) = n /\ \A x \in 1 .. n : buf[x] = f[x]

Joined(a, b) == a \o b

LEMMA JoinedIs ==
    ASSUME NEW a \in Seq(Units), NEW b \in Seq(Units)
    PROVE  /\ Joined(a, b) \in Seq(Units) /\ Len(Joined(a, b)) = Len(a) + Len(b)
           /\ \A x \in 1 .. Len(a) : Joined(a, b)[x] = a[x]
           /\ \A x \in 1 .. Len(b) : Joined(a, b)[Len(a) + x] = b[x]
  <1>1. /\ a \o b \in Seq(Units) /\ Len(a \o b) = Len(a) + Len(b)
        /\ \A i \in 1 .. Len(a) + Len(b) : (a \o b)[i] = IF i <= Len(a) THEN a[i] ELSE b[i - Len(a)]
    BY ConcatProperties
  <1>2. Len(a) \in Nat /\ Len(b) \in Nat
    OBVIOUS
  <1>3. \A x \in 1 .. Len(a) : (a \o b)[x] = a[x]
    BY <1>1, <1>2
  <1>4. ASSUME NEW x \in 1 .. Len(b) PROVE (a \o b)[Len(a) + x] = b[x]
    <2>1. Len(a) + x \in 1 .. Len(a) + Len(b) /\ ~(Len(a) + x <= Len(a)) /\ (Len(a) + x) - Len(a) = x
      BY <1>2
    <2> QED  BY <1>1, <2>1
  <1> QED  BY <1>1, <1>3, <1>4 DEF Joined

IsBlock(b, f, n) ==
    /\ b \in Seq(Units) /\ Len(b) \in Nat
    /\ Len(b) = IF n + BLK =< Len(f) THEN BLK ELSE Len(f) - n
    /\ n + Len(b) =< Len(f)
    /\ \A x \in 1 .. Len(b) : b[x] = f[n + x]

LEMMA BlockOf ==
    ASSUME NEW f \in Seq(Units), NEW n \in Nat, n =< Len(f), NEW b, b = Block(f, n)
    PROVE  IsBlock(b, f, n)
  BY BlockIs DEF IsBlock

\* What a reader has after it took the block it waited for, if file f was the
\* only one ever opened for it.
LEMMA ReaderTakes ==
    ASSUME NEW f \in Seq(Units), Len(f) < (BlkMod - 1) * BLK, NEW k \in Nat, k >= 1,
           NEW buf \in Seq(Units), Holds(buf, f, Pos(k)), NEW b, b = Block(f, Pos(k)), NEW new, new = Joined(buf, b)
    PROVE  /\ Len(b) < BLK => new = f
           /\ ~(Len(b) < BLK) => Next16(k) >= 1 /\ Holds(new, f, Pos(Next16(k)))
  <1>0. PICK n \in Nat : n = Pos(k) /\ Pos(k + 1) = n + BLK
    BY PosIs
  <1>1. Len(f) \in Nat /\ n =< Len(f) /\ Len(buf) = n
    BY <1>0 DEF Holds
  <1>2. /\ b \in Seq(Units) /\ Len(b) \in Nat
        /\ Len(b) = IF n + BLK =< Len(f) THEN BLK ELSE Len(f) - n
        /\ n + Len(b) =< Len(f)
        /\ \A x \in 1 .. Len(b) : b[x] = f[n + x]
    <2>1. IsBlock(b, f, n)
      BY <1>0, <1>1, BlockOf
    <2> QED  BY <2>1 DEF IsBlock
  <1>3. new \in Seq(Units) /\ Len(new) = n + Len(b)
    BY <1>1, <1>2, JoinedIs
  <1>4. ASSUME NEW x \in 1 .. n + Len(b) PROVE new[x] = f[x]
    <2>1. CASE x =< n
      <3>1. x \in 1 .. n /\ buf[x] = f[x]
        BY <1>0, <2>1 DEF Holds
      <3>2. new[x] = buf[x]
        BY <1>1, <1>2, <3>1, JoinedIs
      <3> QED  BY <3>1, <3>2
    <2>2. CASE x > n
      <3>1. x - n \in 1 .. Len(b) /\ n + (x - n) = x
        BY <1>2, <2>2
      <3>2. new[n + (x - n)] = b[x - n]
        BY <1>1, <1>2, <3>1, JoinedIs
      <3> QED  BY <1>2, <3>1, <3>2
    <2>3. x =< n \/ x > n
      BY <1>2
    <2> QED  BY <2>1, <2>2, <2>3
  <1>5. ASSUME Len(b) < BLK PROVE new = f
    <2>1. Len(new) = Len(f)
      BY <1>1, <1>2, <1>3, <1>5, Sizes
    <2>2. \A x \in 1 .. Len(new) : new[x] = f[x]
      BY <1>3, <1>4
    <2> QED  BY <1>3, <2>1, <2>2, SeqEqual
  <1>6. ASSUME ~(Len(b) < BLK)
        PROVE  Next16(k) >= 1 /\ Holds(new, f, Pos(Next16(k)))
    <2>1. n + BLK =< Len(f) /\ Len(b) = BLK
      BY <1>1, <1>2, <1>6, Sizes
    <2>2. Next16(k) = k + 1
      BY <1>0, <1>1, <2>1, PosBelow
    <2>3. Pos(Next16(k)) = n + BLK /\ Next16(k) >= 1
      BY <1>0, <2>2
    <2> QED  BY <1>3, <1>4, <2>1, <2>3 DEF Holds
  <1> QED  BY <1>5, <1>6

LEMMA ReaderStep ==
    ASSUME Inv, NEW p \in Peers, NEW m \in net, m.to = "peer", m.peer = p, ReaderData(p, m)
    PROVE  Inv'
  <1>0. /\ NetInv /\ FileInv /\ client \in [Peers -> ClientType] /\ UNCHANGED server
        /\ UNCHANGED <<src, saved, faults, file>> /\ p \in Readers /\ p \notin Writers
        /\ ReaderOK(p) /\ MsgOK(m) /\ m.op = "DATA" /\ client[p].st = "busy" /\ DOMAIN src = Readers
    BY Sizes DEF Inv, ClientInv, ClientType, ReaderData, server, NetInv
  <1>1. m.blk \in Nat /\ m.data \in Seq(Units) /\ src[p] # {}
    BY <1>0 DEF MsgOK
  <1>2. net' = net \cup {Ack("server", p, m.blk)}
    BY DEF ReaderData, Sends
  <1>3. MsgOK(Ack("server", p, m.blk))'
    <2>1. PICK a : a = Ack("server", p, m.blk)
      OBVIOUS
    <2>2. a.to = "server" /\ a.peer = p /\ a.op = "ACK" /\ a.blk = m.blk
      BY <2>1 DEF Ack
    <2>3. MsgOK(a)'
      BY <1>0, <1>1, <2>2 DEF MsgOK
    <2> QED  BY <2>1, <2>3
  <1>4. CASE m.blk # client[p].blk
    <2>1. client' = client
      BY <1>4 DEF ReaderData
    <2>2. Grows
      BY <1>0, <1>2 DEF Grows
    <2>3. ReaderOK(p)'
      BY <1>0, <2>1, <2>2, ReaderKept
    <2> QED  BY <1>0, <1>2, <1>3, <2>1, <2>3, PeerKeeps
  <1>5. CASE m.blk = client[p].blk
    <2>0. PICK buf : buf = client[p].buf /\ buf \in Seq(Units)
      BY <1>0 DEF ClientType
    <2>1. PICK new : new = Joined(buf, m.data) /\ new \in Seq(Units)
      BY <1>1, <2>0, JoinedIs
    <2>2. PICK st \in {"busy", "done", "failed"} : st = IF Len(m.data) < BLK THEN "done" ELSE "busy"
      OBVIOUS
    <2>3. Moves(p, st, Next16(m.blk), new)
      BY <1>5, <2>0, <2>1, <2>2 DEF ReaderData, Joined
    <2>4. Next16(m.blk) \in Nat
      BY <1>1, Sizes DEF Next16
    <2>5. /\ client' \in [Peers -> ClientType] /\ \A q \in Peers \ {p} : client'[q] = client[q]
          /\ client'[p].st = st /\ client'[p].blk = Next16(m.blk) /\ client'[p].buf = new
      <3>1. PICK k \in Nat : k = Next16(m.blk)
        BY <2>4
      <3>2. client \in [Peers -> ClientType] /\ Moves(p, st, k, new) /\ new \in Seq(Units)
        BY <1>0, <2>1, <2>3, <3>1
      <3>3. /\ client' \in [Peers -> ClientType] /\ \A q \in Peers \ {p} : client'[q] = client[q]
            /\ client'[p].st = st /\ client'[p].blk = k /\ client'[p].buf = new
        BY <3>2, MovesTo
      <3> QED  BY <3>1, <3>3
    <2>6. ASSUME NEW f \in src[p], SureOf(p, f)
          PROVE  /\ st = "done" => new = f
                 /\ st = "busy" => Next16(m.blk) >= 1 /\ Holds(new, f, Pos(Next16(m.blk)))
      <3>1. f \in Seq(Units) /\ Len(f) < (BlkMod - 1) * BLK /\ m.blk >= 1
        BY <1>0, <1>5, <2>6 DEF ReaderOK
      <3>2. Holds(buf, f, Pos(m.blk))
        BY <1>0, <1>5, <2>0, <2>6 DEF ReaderOK, Holds
      <3>3. m.data = Block(f, Pos(m.blk))
        BY <1>0, <2>6 DEF MsgOK
      <3>4. /\ Len(m.data) < BLK => new = f
            /\ ~(Len(m.data) < BLK) => Next16(m.blk) >= 1 /\ Holds(new, f, Pos(Next16(m.blk)))
        BY <1>1, <2>0, <2>1, <3>1, <3>2, <3>3, ReaderTakes
      <3>5. (st = "done" => Len(m.data) < BLK) /\ (st = "busy" => ~(Len(m.data) < BLK))
        BY <2>2
      <3> QED  BY <3>4, <3>5
    <2>7. ReaderOK(p)'
      <3>1. \A f \in src[p] : f \in Seq(Units) /\ Len(f) < (BlkMod - 1) * BLK
        BY <1>0, Zenon DEF ReaderOK
      <3>2. \A f : SureOf(p, f)' <=> SureOf(p, f)
        BY <1>0 DEF SureOf
      <3>3. (Pos(client[p].blk))' = Pos(Next16(m.blk))
        BY <2>5 DEF Pos
      <3> QED  BY <1>0, <1>1, <2>5, <2>6, <3>1, <3>2, <3>3 DEF ReaderOK, Holds
    <2> QED  BY <1>0, <1>2, <1>3, <2>5, <2>7, PeerKeeps
  <1> QED  BY <1>4, <1>5

-----------------------------------------------------------------------------
(* The invariant of the specification. *)

LEMMA InitInv == Init => Inv
  <1> SUFFICES ASSUME Init PROVE Inv
    OBVIOUS
  <1>1. /\ s = [handle |-> FALSE, peer |-> NoPeer, mode_write |-> FALSE, blknum |-> 0, last |-> NoData,
                retries |-> 0, idle |-> 0, armed |-> 0, fpos |-> 0]
        /\ file = Old /\ size = Len(Old) /\ net = {} /\ saved = {} /\ faults = {}
        /\ client = [p \in Peers |-> [st |-> "idle", blk |-> 0, buf |-> <<>>]]
        /\ src = [p \in Readers |-> {}]
    BY DEF Init
  <1>2. Shape(s) /\ TimerInv
    BY <1>1, Sizes DEF Shape, TimerInv
  <1>3. FileInv
    BY <1>1, FilesAssumption DEF FileInv
  <1>4. OpenInv
    BY <1>1, Sizes DEF OpenInv
  <1>5. NetInv
    BY <1>1 DEF NetInv
  <1>6. ClientInv
    <2>1. [st |-> "idle", blk |-> 0, buf |-> <<>>] \in ClientType
      BY PeerTypes DEF ClientType
    <2>2. client \in [Peers -> ClientType] /\ \A p \in Peers : client[p].st = "idle"
      BY <1>1, <2>1
    <2>3. \A p \in Writers : WriterOK(p)
      BY <2>2, Sizes DEF WriterOK
    <2>4. \A p \in Readers : src[p] = {} /\ client[p].st = "idle"
      BY <1>1, <2>2, Sizes
    <2>5. \A p \in Readers : ReaderOK(p)
      BY <2>4 DEF ReaderOK
    <2> QED  BY <1>1, <2>2, <2>3, <2>5 DEF ClientInv, ClientType
  <1> QED  BY <1>2, <1>3, <1>4, <1>5, <1>6 DEF Inv

LEMMA NextInv == Inv /\ [Next]_vars => Inv'
  <1> SUFFICES ASSUME Inv, [Next]_vars PROVE Inv'
    OBVIOUS
  <1>1. ASSUME NEW m \in net, m.to = "server",
               RecvBusy(m) \/ RecvRequest(m) \/ RecvData(m) \/ RecvAck(m) \/ RecvOther(m)
        PROVE  Inv'
    BY <1>1, BusyStep, RequestStep, DataStep, AckStep
  <1>2. CASE tftp_tmr
    BY <1>2, TmrStep
  <1>3. ASSUME NEW p \in Peers, PeerStep(p) PROVE Inv'
    <2>1. CASE PeerStart(p) \/ PeerFails(p)
      BY <2>1, StartStep, FailsStep
    <2>2. ASSUME NEW m \in net, m.to = "peer", m.peer = p, ReaderData(p, m) \/ WriterAck(p, m)
          PROVE  Inv'
      BY <2>2, ReaderStep, WriterStep
    <2> QED  BY <1>3, <2>1, <2>2 DEF PeerStep
  <1>4. CASE UNCHANGED vars
    <2>1. /\ UNCHANGED server /\ net \subseteq net' /\ client' = client
          /\ \A m \in net' : m \in net \/ MsgOK(m)'
      BY <1>4 DEF vars, server
    <2>2. Shape(s) /\ TimerInv /\ FileInv /\ OpenInv /\ DOMAIN src = Readers /\ UNCHANGED vars
      BY <1>4 DEF Inv, ClientInv
    <2>3. Grows /\ SameTransfer(s', s)
      BY <2>2 DEF Grows, SameTransfer, vars
    <2>4. Shape(s') /\ TimerInv' /\ FileInv'
      BY <2>2 DEF Shape, TimerInv, FileInv, vars
    <2>5. OpenInv'
      BY <2>2, <2>3, OpenKept DEF vars
    <2> QED  BY <2>1, <2>3, <2>4, <2>5, ServerStep
  <1> QED  BY <1>1, <1>2, <1>3, <1>4 DEF Next, recv

LEMMA Invariance == Spec => []Inv
  BY InitInv, NextInv, PTL DEF Spec

-----------------------------------------------------------------------------
(* The theorems. *)

LEMMA InvTimer == Inv => TimerGuards
  <1> SUFFICES ASSUME Inv PROVE TimerGuards
    OBVIOUS
  <1>0. TimerInv /\ FileInv /\ OpenInv
    BY DEF Inv
  <1>1. /\ s.retries \in 0 .. MaxRetries /\ s.idle \in 0 .. Timeout + 1 /\ s.armed \in 0 .. MaxArmed
        /\ s.handle => s.armed > 0
    BY <1>0 DEF TimerInv
  <1>2. size =< Len(file) /\ saved \subseteq Writers /\ Len(file) \in Nat
    BY <1>0 DEF FileInv
  <1>3. /\ s.handle \in BOOLEAN /\ s.mode_write \in BOOLEAN /\ s.blknum \in 0 .. BlkMod - 1
        /\ s.last \in net \cup {NoData}
    BY <1>0 DEF OpenInv
  <1>4. s.peer \in Peers \cup {NoPeer}
    BY <1>0, Sizes DEF OpenInv
  <1>5. s.handle => s.fpos \in 0 .. Len(file)
    BY <1>0, <1>2 DEF OpenInv
  <1> QED  BY <1>1, <1>2, <1>3, <1>4, <1>5 DEF TimerGuards, TypeOK

\* While a file is open a timeout is pending, however many requests were refused
\* before, and no counter of tftp_state leaves its range (tftp_server.c, recv,
\* close_handle and tftp_tmr).
THEOREM TimerPending == Spec => []TimerGuards
  BY Invariance, InvTimer, PTL

LEMMA InvWrite == Inv => WriteInOrder
  <1> SUFFICES ASSUME Inv, s.handle, s.mode_write
               PROVE  /\ s.fpos = Min({(s.blknum - 1) * BLK, Len(Content[s.peer])})
                      /\ SubSeq(file, 1, s.fpos) = SubSeq(Content[s.peer], 1, s.fpos)
    BY DEF WriteInOrder
  <1>0. /\ s.peer \in Writers /\ s.fpos = Pos(s.blknum) /\ s.fpos =< Len(Content[s.peer])
        /\ s.fpos \in Nat /\ s.fpos =< Len(file)
        /\ \A x \in 1 .. s.fpos : file[x] = Content[s.peer][x]
        /\ file \in Seq(Units)
    BY DEF Inv, OpenInv, FileInv
  <1>1. PICK c : c = Content[s.peer]
    OBVIOUS
  <1>2. c \in Seq(Units) /\ Len(c) \in Nat
    BY <1>0, <1>1, FilesAssumption
  <1>3. Min({s.fpos, Len(c)}) = s.fpos
    BY <1>0, <1>1, <1>2, MinIs
  <1>4. s.fpos = Min({(s.blknum - 1) * BLK, Len(Content[s.peer])})
    BY <1>0, <1>1, <1>3 DEF Pos
  <1>5. SubSeq(file, 1, s.fpos) = SubSeq(c, 1, s.fpos)
    BY <1>0, <1>1, <1>2, CutAlike
  <1> QED  BY <1>1, <1>4, <1>5

\* During a write the file begins with exactly the blocks below blknum: recv
\* writes no block twice and skips none, whatever the network does.
THEOREM WrittenInOrder == Spec => []WriteInOrder
  BY Invariance, InvWrite, PTL

LEMMA InvSafe == Inv => WriteSafe
  BY DEF Inv, ClientInv, WriterOK, WriteSafe

\* A writer whose last block was acknowledged had its whole content on the card
\* (the file began with it; what was longer before keeps its tail),
\* unless the f_close of its own transfer failed.
THEOREM WrittenSafely == Spec => []WriteSafe
  BY Invariance, InvSafe, PTL

LEMMA InvRead == Inv => ReadWhole
  BY DEF Inv, ClientInv, ReaderOK, ReadWhole, SureOf

\* A reader that believes it has the file has it whole and in order, if the file
\* did not change between its requests and send_data always found memory.
THEOREM ReadInOrder == Spec => []ReadWhole
  BY Invariance, InvRead, PTL
=============================================================================
