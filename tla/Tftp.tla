-------------------------------- MODULE Tftp --------------------------------
(***************************************************************************)
(* The TFTP server: recv, send_data and tftp_tmr of tftp_server.c over the *)
(* SD card callbacks of tftp_handler.c.  Everything runs on the tcpip      *)
(* thread, so a callback is one step.                                      *)
(*                                                                         *)
(* net holds every datagram ever sent and only grows: delivery reads it,   *)
(* so a datagram may be lost, delayed, reordered and duplicated.  A failed *)
(* pbuf_alloc in send_ack, send_error or resend_data is a lost datagram.   *)
(* A payload is a sequence of units, BLK of which fill a block (512        *)
(* bytes).  Every request is for the same file.  The peers are external:   *)
(* they follow RFC 1350 and make one transfer each.                        *)
(***************************************************************************)
EXTENDS Integers, Sequences, SequencesExt, FiniteSetsExt

CONSTANTS
    Readers,        \* peers that read the file
    Content,        \* what each of the other peers writes: [writers -> Seq(units)]
    Old,            \* the file as it is at first
    BLK,            \* TFTP_MAX_PAYLOAD_SIZE
    BlkMod,         \* 2^16: blknum is a u16_t
    Timeout,        \* TFTP_TIMEOUT_MSECS / TFTP_TIMER_MSECS
    MaxRetries,     \* TFTP_MAX_RETRIES
    MaxArmed,       \* bound: timeouts pending in lwIP when a request is taken
    MaxFaults,      \* bound: failures of the card, and of send_data to find memory
    NoPeer, NoData  \* port == 0; last_data == NULL

Writers == DOMAIN Content
Peers == Readers \cup Writers

ASSUME TftpAssumption ==
    /\ Readers \cap Writers = {} /\ NoPeer \notin Peers
    /\ BLK \in Nat \ {0} /\ Timeout \in Nat /\ MaxRetries \in Nat
    /\ MaxArmed \in Nat \ {0} /\ MaxFaults \in Nat /\ BlkMod \in Nat /\ BlkMod > 2

Units == Range(Old) \cup UNION {Range(Content[p]) : p \in Writers}

\* The files have fewer blocks than blknum can count: 32 MB.
ASSUME FilesAssumption ==
    \A f \in {Old} \cup {Content[p] : p \in Writers} : f \in Seq(Units) /\ Len(f) < (BlkMod - 1) * BLK
ASSUME NoDataAssumption ==
    NoData \notin [to : {"peer"}, peer : Readers, op : {"DATA"}, blk : 0 .. BlkMod - 1, data : Seq(Units)]

VARIABLES
    s,              \* tftp_state; idle is timer - last_pkt, armed the tftp_tmr timeouts pending
    file,           \* the file's units as the open handle sees them
    size,           \* its length in the directory entry on the card
    net,            \* the datagrams sent so far
    client,         \* the peers' own state
    src,            \* history: the versions of the file opened for each reader
    saved,          \* history: writers whose whole content was once on the card
    faults          \* history: what failed for whom: <<"close", p>>, <<"nomem", p>>...

vars == <<s, file, size, net, client, src, saved, faults>>

Req(p, op, name) == [to |-> "server", peer |-> p, op |-> op, name |-> name]
Data(to, p, k, d) == [to |-> to, peer |-> p, op |-> "DATA", blk |-> k, data |-> d]
Ack(to, p, k) == [to |-> to, peer |-> p, op |-> "ACK", blk |-> k]
Err(to, p) == [to |-> to, peer |-> p, op |-> "ERROR"]

\* Up to BLK units of f from position pos on: f_read, and the peers' blocks.
Block(f, pos) == SubSeq(f, pos + 1, Min({pos + BLK, Len(f)}))
Next16(k) == (k + 1) % BlkMod

Init ==
    /\ s = [handle |-> FALSE, peer |-> NoPeer, mode_write |-> FALSE, blknum |-> 0, last |-> NoData,
            retries |-> 0, idle |-> 0, armed |-> 0, fpos |-> 0]
    /\ file = Old /\ size = Len(Old)
    /\ net = {}
    /\ client = [p \in Peers |-> [st |-> "idle", blk |-> 0, buf |-> <<>>]]
    /\ src = [p \in Readers |-> {}] /\ saved = {} /\ faults = {}

-----------------------------------------------------------------------------
(* The helpers.  t is tftp_state at the call. *)

Fails(what, p) == Cardinality(faults) < MaxFaults /\ faults' = faults \cup {<<what, p>>}

\* close_handle: one pending timeout is removed, whatever their number.
close_handle(t) == [t EXCEPT !.handle = FALSE, !.peer = NoPeer, !.last = NoData,
                             !.armed = Max({@ - 1, 0})]

\* tftp_sdcard_close of file f: f_close writes the directory entry, and when
\* that fails the file keeps the length it had; the error is only printed.
tftp_sdcard_close(f) ==
    IF ~s.mode_write THEN UNCHANGED <<file, size, saved, faults>>
    ELSE \/ /\ file' = f /\ size' = Len(f)
            /\ saved' = saved \cup {q \in Writers : IsPrefix(Content[q], f)}
            /\ UNCHANGED faults
         \/ /\ Fails("close", s.peer)
            /\ file' = SubSeq(f, 1, size)
            /\ UNCHANGED <<size, saved>>

\* send_data: without memory for a packet nothing is read and nothing is sent.
send_data(t) ==
    \/ /\ Fails("nomem", t.peer)
       /\ s' = [t EXCEPT !.last = NoData]
       /\ UNCHANGED net
    \/ /\ Fails("read", t.peer)
       /\ s' = close_handle(t)
       /\ net' = net \cup {Err("peer", t.peer)}
    \/ LET d == Data("peer", t.peer, t.blknum, Block(file, t.fpos))
       IN  /\ s' = [t EXCEPT !.last = d, !.fpos = @ + Len(d.data)]
           /\ net' = net \cup {d}
           /\ UNCHANGED faults

\* tftp_sdcard_write of d at fpos: all of it, or an error after n units.
Patch(f, pos, d) == [k \in 1 .. Max({Len(f), pos + Len(d)}) |->
                        IF k \in pos + 1 .. pos + Len(d) THEN d[k - pos] ELSE f[k]]

-----------------------------------------------------------------------------
(* recv. *)

\* recv answers with datagram m; or refuses m.
Sends(m) == net' = net \cup {m}
Refuses(m) == Sends(Err("peer", m.peer))
Mine(m) == s.peer \in {NoPeer, m.peer}

\* tftp_state once recv has taken the packet.
Taken == [s EXCEPT !.idle = 0, !.retries = 0]

RecvBusy(m) ==
    /\ ~Mine(m)
    /\ Refuses(m)
    /\ UNCHANGED <<s, file, size, client, src, saved, faults>>

\* Mutant: a repeated request starts the transfer anew without opening the file.
RecvRequestAgain(m) ==
    /\ Mine(m) /\ m.op = "RRQ"
    /\ s.armed < MaxArmed
    /\ src' = [src EXCEPT ![m.peer] = @ \cup {file}]
    /\ send_data([Taken EXCEPT !.armed = @ + 1, !.blknum = 1, !.peer = m.peer, !.handle = TRUE,
                               !.mode_write = FALSE, !.fpos = IF s.handle THEN @ ELSE 0])
    /\ UNCHANGED <<file, size, client, saved>>

\* Requests.  The timeout is armed before the request is looked at.
RecvRequest(m) ==
    /\ Mine(m) /\ m.op \in {"RRQ", "WRQ"}
    /\ IF s.handle
       THEN s' = Taken /\ Refuses(m) /\ UNCHANGED <<faults, src>>
       ELSE LET t == [Taken EXCEPT !.armed = @ + 1]
                o == [t EXCEPT !.handle = TRUE, !.blknum = 1, !.fpos = 0, !.peer = m.peer,
                               !.mode_write = m.op = "WRQ"]
            IN /\ s.armed < MaxArmed
               /\ \/ m.name = "too long" /\ s' = t /\ Refuses(m) /\ UNCHANGED <<faults, src>>
                  \/ /\ m.name = "file" /\ Fails("open", m.peer)
                     /\ s' = [t EXCEPT !.blknum = 1] /\ Refuses(m) /\ UNCHANGED src
                  \/ /\ m.name = "file" /\ m.op = "WRQ"
                     /\ s' = o /\ Sends(Ack("peer", m.peer, 0)) /\ UNCHANGED <<faults, src>>
                  \/ /\ m.name = "file" /\ m.op = "RRQ"
                     /\ src' = [src EXCEPT ![m.peer] = @ \cup {file}]
                     /\ send_data(o)
    /\ UNCHANGED <<file, size, client, saved>>

\* Mutant: a block that was already written is written once more.
RecvDataAgain(m) ==
    /\ Mine(m) /\ m.op = "DATA" /\ s.handle /\ s.mode_write
    /\ m.blk = s.blknum \/ Next16(m.blk) = s.blknum
    /\ file' = Patch(file, s.fpos, m.data)
    /\ s' = [Taken EXCEPT !.fpos = @ + Len(m.data), !.blknum = IF m.blk = @ THEN Next16(@) ELSE @]
    /\ Sends(Ack("peer", m.peer, m.blk))
    /\ UNCHANGED <<size, client, src, saved, faults>>

\* Mutant: a failed write is acknowledged like any other.
write_error_acked(m) == Sends(Ack("peer", m.peer, m.blk))

\* The answer to a block that could not be written.
write_error(m) == Refuses(m)

\* Data.  After a failed write close_handle runs a second time when the block
\* was short, and blknum moves on when it was not.
RecvData(m) ==
    /\ Mine(m) /\ m.op = "DATA"
    /\ UNCHANGED <<client, src>>
    /\ IF ~s.handle \/ ~s.mode_write
       THEN s' = Taken /\ Refuses(m) /\ UNCHANGED <<file, size, saved, faults>>
       ELSE IF m.blk = s.blknum
       THEN LET short == Len(m.data) < BLK
                next == [Taken EXCEPT !.blknum = IF short THEN @ ELSE Next16(@),
                                      !.fpos = @ + Len(m.data)]
                new == Patch(file, s.fpos, m.data)
            IN \/ /\ Sends(Ack("peer", m.peer, m.blk))
                  /\ IF short THEN s' = close_handle(next) /\ tftp_sdcard_close(new)
                     ELSE s' = next /\ file' = new /\ UNCHANGED <<size, saved, faults>>
               \/ \E n \in 0 .. Len(m.data) - 1 :
                      /\ write_error(m)
                      /\ s' = IF short THEN close_handle(close_handle(next)) ELSE close_handle(next)
                      /\ Fails("write", m.peer)
                      /\ LET f == Patch(file, s.fpos, SubSeq(m.data, 1, n))
                         IN  file' \in {f, SubSeq(f, 1, size)} /\ size' = Len(file') /\ UNCHANGED saved
       ELSE /\ s' = Taken
            /\ IF Next16(m.blk) = s.blknum THEN Sends(Ack("peer", m.peer, m.blk)) ELSE Refuses(m)
            /\ UNCHANGED <<file, size, saved, faults>>

\* Acknowledgements.  The block just acknowledged was the last one if it was short.
RecvAck(m) ==
    /\ Mine(m) /\ m.op = "ACK"
    /\ UNCHANGED <<file, size, client, src, saved>>
    /\ IF ~s.handle \/ s.mode_write \/ m.blk # s.blknum
       THEN s' = Taken /\ Refuses(m) /\ UNCHANGED faults
       ELSE IF s.last # NoData /\ Len(s.last.data) # BLK
       THEN s' = close_handle(Taken) /\ UNCHANGED <<net, faults>>
       ELSE send_data([Taken EXCEPT !.blknum = Next16(@)])

\* Anything else, a peer's own ERROR included: refused, and the transfer stays open.
RecvOther(m) ==
    /\ Mine(m) /\ m.op = "ERROR"
    /\ s' = Taken /\ Refuses(m)
    /\ UNCHANGED <<file, size, client, src, saved, faults>>

recv == \E m \in net : /\ m.to = "server"
                       /\ \/ RecvBusy(m) \/ RecvRequest(m) \/ RecvData(m)
                          \/ RecvAck(m) \/ RecvOther(m)

-----------------------------------------------------------------------------
(* tftp_tmr.  One of the pending timeouts fires. *)

Tick == [s EXCEPT !.armed = @ - 1, !.idle = Min({@ + 1, Timeout + 1})]

\* Mutant: the timeout that fires is not armed again.
TmrOnce ==
    /\ s.armed > 0
    /\ s' = Tick
    /\ UNCHANGED <<file, size, net, client, src, saved, faults>>

\* Mutant: resending does not count as a retry.
TmrForever ==
    /\ s.armed > 0
    /\ s' = [Tick EXCEPT !.armed = IF s.handle THEN @ + 1 ELSE @]
    /\ UNCHANGED <<file, size, net, client, src, saved, faults>>

tftp_tmr ==
    /\ s.armed > 0
    /\ UNCHANGED <<net, client, src>>       \* what resend_data sends is in net already
    /\ IF ~s.handle THEN s' = Tick /\ UNCHANGED <<file, size, saved, faults>>
       ELSE LET t == [Tick EXCEPT !.armed = @ + 1]
            IN  IF t.idle =< Timeout THEN s' = t /\ UNCHANGED <<file, size, saved, faults>>
                ELSE IF s.last # NoData /\ s.retries < MaxRetries
                THEN s' = [t EXCEPT !.retries = @ + 1] /\ UNCHANGED <<file, size, saved, faults>>
                ELSE s' = close_handle(t) /\ tftp_sdcard_close(file)

-----------------------------------------------------------------------------
(* The peers (external). *)

Moves(p, st, blk, buf) == client' = [client EXCEPT ![p] = [st |-> st, blk |-> blk, buf |-> buf]]
server == <<s, file, size, src, saved, faults>>

\* A peer asks; a reader may ask for a name that is too long.
PeerStart(p) ==
    /\ client[p].st = "idle"
    /\ Moves(p, "busy", IF p \in Readers THEN 1 ELSE 0, <<>>)
    /\ \/ Sends(Req(p, IF p \in Readers THEN "RRQ" ELSE "WRQ", "file"))
       \/ p \in Readers /\ Sends(Req(p, "RRQ", "too long"))
    /\ UNCHANGED server

\* A reader takes the block it waits for, and acknowledges older ones again.
ReaderData(p, m) ==
    /\ p \in Readers /\ m.op = "DATA" /\ client[p].st = "busy"
    /\ IF m.blk = client[p].blk
       THEN Moves(p, IF Len(m.data) < BLK THEN "done" ELSE "busy", Next16(m.blk), client[p].buf \o m.data)
       ELSE UNCHANGED client
    /\ m.blk =< client[p].blk
    /\ Sends(Ack("server", p, m.blk))
    /\ UNCHANGED server

\* A writer whose block was acknowledged sends the next one; the last is short.
WriterAck(p, m) ==
    /\ p \in Writers /\ m.op = "ACK" /\ client[p].st = "busy" /\ m.blk = client[p].blk
    /\ LET k == client[p].blk
       IN  IF k > 0 /\ Len(Block(Content[p], (k - 1) * BLK)) < BLK
           THEN Moves(p, "done", k, <<>>) /\ UNCHANGED net
           ELSE Moves(p, "busy", k + 1, <<>>)
                /\ Sends(Data("server", p, k + 1, Block(Content[p], k * BLK)))
    /\ UNCHANGED server

\* An error ends a peer's transfer; a peer may also give up and say so.
PeerFails(p) ==
    /\ client[p].st = "busy"
    /\ \/ Err("peer", p) \in net /\ UNCHANGED net
       \/ Sends(Err("server", p))
    /\ Moves(p, "failed", 0, <<>>)
    /\ UNCHANGED server

PeerStep(p) ==
    \/ PeerStart(p) \/ PeerFails(p)
    \/ \E m \in net : m.to = "peer" /\ m.peer = p /\ (ReaderData(p, m) \/ WriterAck(p, m))

Next == recv \/ tftp_tmr \/ \E p \in Peers : PeerStep(p)

\* lwIP runs the timeouts that are due between any two packets.
Spec == Init /\ [][Next]_vars /\ WF_vars(tftp_tmr)

-----------------------------------------------------------------------------
(* Properties. *)

\* The type invariant, checked as a part of TimerGuards.
TypeOK ==
    /\ s.handle \in BOOLEAN /\ s.mode_write \in BOOLEAN /\ s.peer \in Peers \cup {NoPeer}
    /\ s.blknum \in 0 .. BlkMod - 1 /\ s.last \in net \cup {NoData}
    /\ s.retries \in 0 .. MaxRetries /\ s.idle \in 0 .. Timeout + 1
    /\ s.armed \in 0 .. MaxArmed /\ (s.handle => s.fpos \in 0 .. Len(file))
    /\ size =< Len(file) /\ saved \subseteq Writers

\* A peer whose last block was acknowledged had its whole content on the card
\* at some time, as the beginning of the file: f_open does not truncate, and what
\* was longer keeps its tail.  This holds whatever was lost, delayed or duplicated
\* on the way and whatever write failed.  The acknowledgement leaves before
\* close_handle, so this does not hold for a transfer whose f_close failed.
WriteSafe ==
    \A p \in Writers : client[p].st = "done" => p \in saved \/ <<"close", p>> \in faults

\* During a write the file begins with exactly the blocks numbered below blknum:
\* no retransmission is written twice and none is skipped.
WriteInOrder ==
    s.handle /\ s.mode_write =>
        /\ s.fpos = Min({(s.blknum - 1) * BLK, Len(Content[s.peer])})
        /\ SubSeq(file, 1, s.fpos) = SubSeq(Content[s.peer], 1, s.fpos)

\* A reader that believes it has the file has it whole and in order, if the
\* file did not change between two requests of that reader and send_data was
\* never out of memory: last_data is then NULL and an acknowledgement that
\* comes late makes the server number the same block again.
ReadWhole ==
    \A p \in Readers : \A f \in src[p] :
        client[p].st = "done" /\ src[p] = {f} /\ <<"nomem", p>> \notin faults => client[p].buf = f

\* While a file is open a timeout is pending, although close_handle removes
\* one that an earlier refused request may have left, and the counts stay in
\* their types: no more than MaxRetries resends, no timeout removed twice.
TimerGuards == TypeOK /\ (s.handle => s.armed > 0)

\* A transfer whose peer has gone does not keep the server from the others:
\* once no packet comes from it any more the file is closed.
QuietCloses == <>[][~recv]_vars => <>[](~s.handle)
=============================================================================
