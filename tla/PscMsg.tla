------------------------------- MODULE PscMsg -------------------------------
(***************************************************************************)
(* The message layer of pscmsg.c on one TCP connection: psc_sendmsg and    *)
(* psc_sendmsgsingle write messages into a byte stream, psc_recvmsg reads  *)
(* them back for handle_client's loop.  send() and recv() move any number  *)
(* of bytes they like and may fail at any call (SO_SNDTIMEO, SO_RCVTIMEO,  *)
(* peer gone).                                                             *)
(*                                                                         *)
(* Bytes are known by their position in the stream.  A header is read      *)
(* correctly only where a header was written; anywhere else its bytes are  *)
(* arbitrary, with or without the 'P' 'S' that psc_recvhead looks for.     *)
(*                                                                         *)
(* psc_recvskip may give recv() more room than its buffer has.  Bytes that *)
(* are then written past the buffer hit the stack of the handler: they may *)
(* do nothing, change psc_recvall's own count, or end the thread.          *)
(***************************************************************************)
EXTENDS Integers, Sequences

CONSTANTS
    Hdr,            \* sizeof(struct psc_header)
    RegId,          \* size of the register number of psc_sendmsgsingle
    Chunk,          \* size of psc_recvskip's buffer
    RxMax,          \* sizeof(C->rxbuf)
    Msgs,           \* the messages to send, in order
    Garbage         \* the lengths that arbitrary bytes may announce

Message == [kind : {"msg", "single"}, len : Nat]

ASSUME SizeAssumption == /\ Hdr \in Nat \ {0} /\ RegId \in Nat \ {0}
                         /\ Chunk \in Nat \ {0} /\ RxMax \in Nat
ASSUME MsgAssumption == Msgs \in Seq(Message) /\ Garbage \subseteq Nat

VARIABLES
    wr,             \* bytes written to the stream
    mno,            \* how many messages of Msgs were begun
    part,           \* what the sender is sending
    sleft,          \* psc_sendall's buflen
    frames,         \* where each message began and what its header announced
    rd,             \* bytes read from the stream
    rpc,            \* where psc_recvmsg is
    left,           \* psc_recvall's buflen
    hpos,           \* where the current header began
    mlen, rlen,     \* psc_recvmsg's locals
    len,            \* psc_recvskip's len
    skipfail,       \* history: recv() has failed in the loop of psc_recvskip
    over,           \* history: recv() has written past psc_recvskip's buffer
    got             \* the messages psc_recvmsg has returned

stream == <<wr, mno, part, sleft, frames>>
reader == <<rd, rpc, left, hpos, mlen, rlen, len, skipfail, over, got>>
vars == <<stream, reader>>

Smaller(a, b) == IF a > b THEN b ELSE a

Init ==
    /\ wr = 0 /\ mno = 0 /\ part = "idle" /\ sleft = 0 /\ frames = <<>>
    /\ rd = 0 /\ rpc = "head" /\ left = Hdr /\ hpos = 0
    /\ mlen = 0 /\ rlen = 0 /\ len = 0 /\ skipfail = FALSE /\ over = FALSE /\ got = <<>>

-----------------------------------------------------------------------------
(* psc_sendmsg, psc_sendmsgsingle. *)

\* Mutant: psc_sendmsgsingle announces the body only.
AnnouncedBody(m) == m.len

\* The length that psc_sendhead is given.
Announced(m) == IF m.kind = "single" THEN m.len + RegId ELSE m.len

SendBegin ==
    /\ part = "idle"
    /\ mno < Len(Msgs)
    /\ mno' = mno + 1
    /\ frames' = Append(frames, [start |-> wr, len |-> Announced(Msgs[mno + 1])])
    /\ part' = "head"
    /\ sleft' = Hdr
    /\ UNCHANGED <<wr, reader>>

\* One send() of psc_sendall.
SendSome(n) ==
    /\ part \in {"head", "regid", "body"}
    /\ n \in 1 .. sleft
    /\ wr' = wr + n
    /\ sleft' = sleft - n
    /\ UNCHANGED <<mno, part, frames, reader>>

\* psc_sendall returns 0.
SendPartDone ==
    /\ sleft = 0
    /\ \/ /\ part = "head" /\ Msgs[mno].kind = "single"
          /\ part' = "regid" /\ sleft' = RegId
       \/ /\ part = "regid" \/ (part = "head" /\ Msgs[mno].kind = "msg")
          /\ part' = "body" /\ sleft' = Msgs[mno].len
       \/ /\ part = "body"
          /\ part' = "idle" /\ sleft' = 0
    /\ UNCHANGED <<wr, mno, frames, reader>>

\* send() fails; the caller closes the connection.
SendFail ==
    /\ part \in {"head", "regid", "body"}
    /\ sleft > 0
    /\ part' = "failed"
    /\ UNCHANGED <<wr, mno, sleft, frames, reader>>

-----------------------------------------------------------------------------
(* psc_recvmsg and what it calls. *)

\* The bytes of this recv() end past psc_recvskip's buffer.
PastEnd(n) == rpc = "tail" /\ len - left + n > Chunk

\* One recv() of psc_recvall.
RecvSome(n) ==
    /\ rpc \in {"head", "body", "skip", "tail"}
    /\ ~PastEnd(n)
    /\ n \in 1 .. left
    /\ rd + n =< wr
    /\ rd' = rd + n
    /\ left' = left - n
    /\ UNCHANGED <<stream, rpc, hpos, mlen, rlen, len, skipfail, over, got>>

\* The same recv() when it writes past the buffer: undefined behaviour.
RecvPast(n) ==
    /\ PastEnd(n)
    /\ n \in 1 .. left
    /\ rd + n =< wr
    /\ rd' = rd + n
    /\ over' = TRUE
    /\ \/ rpc' = rpc /\ left' = left - n
       \/ rpc' = rpc /\ left' \in Garbage
       \/ rpc' = "crashed" /\ left' = left
    /\ UNCHANGED <<stream, hpos, mlen, rlen, len, skipfail, got>>

\* Mutant: psc_recvall tries again when recv() fails.
RecvFailRetry ==
    /\ rpc \in {"head", "body", "tail"}
    /\ left > 0
    /\ UNCHANGED vars

\* recv() fails outside psc_recvskip's loop: psc_recvmsg returns the error and
\* handle_client leaves its loop.
RecvFail ==
    /\ rpc \in {"head", "body", "tail"}
    /\ left > 0
    /\ rpc' = "failed"
    /\ UNCHANGED <<stream, rd, left, hpos, mlen, rlen, len, skipfail, over, got>>

\* psc_recvhead has its bytes: what length may they announce?
Header(m) == IF \E i \in 1 .. Len(frames) : frames[i].start = hpos
             THEN \E i \in 1 .. Len(frames) :
                    frames[i].start = hpos /\ m = frames[i].len
             ELSE m \in Garbage

HeadDone ==
    /\ rpc = "head" /\ left = 0
    /\ \E m \in Garbage \cup {frames[i].len : i \in 1 .. Len(frames)} :
        /\ Header(m)
        /\ mlen' = m
        /\ rlen' = Smaller(m, RxMax)
        /\ left' = Smaller(m, RxMax)
    /\ rpc' = "body"
    /\ UNCHANGED <<stream, rd, hpos, len, skipfail, over, got>>

\* psc_recvhead finds no 'P' 'S' and returns EIO.
HeadBad ==
    /\ rpc = "head" /\ left = 0
    /\ \A i \in 1 .. Len(frames) : frames[i].start # hpos
    /\ rpc' = "failed"
    /\ UNCHANGED <<stream, rd, left, hpos, mlen, rlen, len, skipfail, over, got>>

\* psc_recvmsg returns 0; handle_client calls the recv callback and loops.
Deliver ==
    /\ got' = Append(got, [start |-> hpos, len |-> rlen, mlen |-> mlen, end |-> rd])
    /\ rpc' = "head"
    /\ left' = Hdr
    /\ hpos' = rd
    /\ mlen' = 0 /\ rlen' = 0 /\ len' = 0

\* Mutant: the loop of psc_recvskip runs until nothing is left.
SkipLoopToZero(n) ==
    /\ len' = n
    /\ rpc' = IF n # 0 THEN "skip" ELSE "tail"
    /\ left' = IF n # 0 THEN Chunk ELSE n

\* Mutant: the loop leaves one byte more than the buffer holds.
SkipLoopOneMore(n) ==
    /\ len' = n
    /\ rpc' = IF n > Chunk + 1 THEN "skip" ELSE "tail"
    /\ left' = IF n > Chunk + 1 THEN Chunk ELSE n

\* psc_recvskip(n): the loop while more than a buffer is left, then the tail.
SkipLoop(n) ==
    /\ len' = n
    /\ rpc' = IF n > Chunk THEN "skip" ELSE "tail"
    /\ left' = IF n > Chunk THEN Chunk ELSE n

BodyDone ==
    /\ rpc = "body" /\ left = 0
    /\ \/ /\ rlen < mlen
          /\ SkipLoop(mlen - rlen)
          /\ UNCHANGED <<hpos, mlen, rlen, got>>
       \/ rlen >= mlen /\ Deliver
    /\ UNCHANGED <<stream, rd, skipfail, over>>

SkipDone ==
    /\ rpc = "skip" /\ left = 0
    /\ SkipLoop(len - Chunk)
    /\ UNCHANGED <<stream, rd, hpos, mlen, rlen, skipfail, over, got>>

\* Mutant: the failed read is taken for a complete one.
SkipFailCounted ==
    /\ rpc = "skip" /\ left > 0
    /\ SkipLoop(len - Chunk)
    /\ UNCHANGED <<stream, rd, hpos, mlen, rlen, skipfail, over, got>>

\* recv() fails in the loop of psc_recvskip: the loop ends, its error is dropped
\* and recv() is given the buffer of Chunk bytes for all of len, which is more.
SkipFail ==
    /\ rpc = "skip" /\ left > 0
    /\ rpc' = "tail"
    /\ left' = len
    /\ skipfail' = TRUE
    /\ UNCHANGED <<stream, rd, hpos, mlen, rlen, len, over, got>>

TailDone ==
    /\ rpc = "tail" /\ left = 0
    /\ Deliver
    /\ UNCHANGED <<stream, rd, skipfail, over>>

Sender == SendBegin \/ (\E n \in 1 .. sleft : SendSome(n)) \/ SendPartDone \/ SendFail

Receiver == \/ \E n \in 1 .. left : RecvSome(n) \/ RecvPast(n)
            \/ RecvFail \/ SkipFail
            \/ HeadDone \/ HeadBad \/ BodyDone \/ SkipDone \/ TailDone

Next == Sender \/ Receiver

Spec == Init /\ [][Next]_vars

\* recv() and send() return within SO_RCVTIMEO and SO_SNDTIMEO.
FairSpec == Spec /\ WF_vars(Sender) /\ WF_vars(Receiver)

-----------------------------------------------------------------------------
(* Properties. *)

\* Every variable of the message layer has its type.
TypeOK ==
    /\ wr \in Nat /\ mno \in 0 .. Len(Msgs) /\ sleft \in Nat
    /\ part \in {"idle", "head", "regid", "body", "failed"}
    /\ frames \in Seq([start : Nat, len : Nat])
    /\ rd \in Nat /\ left \in Nat /\ hpos \in Nat
    /\ rpc \in {"head", "body", "skip", "tail", "failed", "crashed"}
    /\ mlen \in Nat /\ rlen \in Nat /\ len \in Nat
    /\ skipfail \in BOOLEAN /\ over \in BOOLEAN
    /\ got \in Seq([start : Nat, len : Nat, mlen : Nat, end : Nat])

\* The messages lie end to end: however send() splits the header, the register
\* number and the body, each message occupies exactly what its header announces.
Contiguous ==
    /\ \A i \in 1 .. Len(frames) - 1 :
          frames[i + 1].start = frames[i].start + Hdr + frames[i].len
    /\ part = "idle" /\ frames # <<>> =>
          wr = frames[Len(frames)].start + Hdr + frames[Len(frames)].len

\* psc_recvmsg returns 0 only when it has consumed exactly one header and the
\* bytes it announces (pscmsg.h: the rest is "read and discarded").
RecvExact ==
    \A i \in 1 .. Len(got) : got[i].end = got[i].start + Hdr + got[i].mlen

\* Until recv() has written past psc_recvskip's buffer, handle_client gets the
\* messages in the order sent, none twice, none skipped, each cut to rxbuf, and
\* psc_recvmsg consumes each of them exactly.  A recv() that times out inside the
\* skip loop is included: the message is then not returned.
InOrder ==
    ~over =>
        /\ RecvExact
        /\ \A i \in 1 .. Len(got) :
             /\ i =< Len(frames)
             /\ got[i].start = frames[i].start
             /\ got[i].mlen = frames[i].len
             /\ got[i].len = Smaller(frames[i].len, RxMax)

\* A peer that has sent its last byte is noticed: wherever in a message the bytes
\* stop, psc_recvmsg returns an error and handle_client ends, unless recv() has
\* written past psc_recvskip's buffer.
PeerGoneNoticed == <>(rpc = "failed" \/ over)

\* pscmsg.h: "Receive and discard *len* bytes."  Whatever length a message or a
\* garbled header announces, the bytes that psc_recvskip discards stay in its
\* buffer, unless a recv() has failed in its loop: then they may not.
SkipInBuffer == over => skipfail
=============================================================================
