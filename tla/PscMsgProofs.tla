---------------------------- MODULE PscMsgProofs ----------------------------
(***************************************************************************)
(* Proofs about PscMsg for every list of messages and every size of        *)
(* header, buffer and chunk.                                               *)
(***************************************************************************)
EXTENDS PscMsg, TLAPS

End(f) == f.start + Hdr + f.len

(***************************************************************************)
(* The inductive invariant.  The frames lie end to end and the sender's    *)
(* position in the last one follows from the part it is sending.  Until    *)
(* recv() writes past psc_recvskip's buffer, the reader's position in the  *)
(* frame after the last message it returned follows from where psc_recvmsg *)
(* is; a tail longer than the buffer, which a failure in the loop leaves,  *)
(* cannot be completed before that happens.                                *)
(***************************************************************************)
FramesInv ==
    /\ Len(frames) = mno
    /\ frames # <<>> => frames[1].start = 0
    /\ \A i, j \in 1 .. Len(frames) : i < j => End(frames[i]) =< frames[j].start
    /\ \A i \in 1 .. Len(frames) : i + 1 =< Len(frames) =>
          frames[i + 1].start = End(frames[i])
    /\ frames = <<>> => wr = 0 /\ part = "idle"
    /\ frames # <<>> => wr =< End(frames[Len(frames)])

\* The bytes of the last message that are still to be written.
ToWrite == CASE part = "head" -> sleft + Announced(Msgs[mno])
             [] part = "regid" -> sleft + Msgs[mno].len
             [] part = "body" -> sleft
             [] OTHER -> 0

WriterInv ==
    frames # <<>> =>
        /\ frames[Len(frames)].len = Announced(Msgs[mno])
        /\ part # "failed" => wr + ToWrite = End(frames[Len(frames)])
        /\ part = "regid" => Msgs[mno].kind = "single"

\* The reader is in frame Len(got) + 1, whose header it has read.
InFrame ==
    /\ Len(got) + 1 =< Len(frames)
    /\ hpos = frames[Len(got) + 1].start
    /\ mlen = frames[Len(got) + 1].len
    /\ rlen = Smaller(mlen, RxMax)

ReaderInv ==
    /\ rd =< wr /\ (rpc = "skip" => left =< Chunk /\ len > Chunk)
    /\ ~skipfail => ~over /\ (rpc = "tail" => len =< Chunk)
    /\ ~over =>
        /\ Len(got) =< Len(frames)
        /\ hpos = IF got = <<>> THEN 0 ELSE End(frames[Len(got)])
        /\ rpc = "head" => rd = hpos + Hdr - left
        /\ rpc = "body" => InFrame /\ rd = hpos + Hdr + rlen - left
        /\ rpc = "skip" => InFrame /\ rd = hpos + Hdr + mlen - len + Chunk - left
        /\ rpc = "tail" => left =< len /\ len - left =< Chunk
        /\ rpc = "tail" /\ len =< Chunk => InFrame /\ rd = hpos + Hdr + mlen - left

Inv == TypeOK /\ FramesInv /\ WriterInv /\ ReaderInv /\ InOrder

-----------------------------------------------------------------------------
\* What Append does, element by element.
LEMMA AppendFacts ==
    ASSUME NEW S, NEW s \in Seq(S), NEW x \in S
    PROVE  /\ Append(s, x) \in Seq(S) /\ Append(s, x) # <<>>
           /\ Len(Append(s, x)) = Len(s) + 1
           /\ Append(s, x)[Len(s) + 1] = x
           /\ \A i \in 1 .. Len(s) : Append(s, x)[i] = s[i]
  OBVIOUS

\* An element of a sequence over S is in S.
LEMMA ElementOf ==
    ASSUME NEW S, NEW s \in Seq(S), NEW k \in 1 .. Len(s)
    PROVE  s[k] \in S
  OBVIOUS

\* What the sender's messages announce.
LEMMA MsgFacts ==
    ASSUME NEW k \in 1 .. Len(Msgs)
    PROVE  /\ Msgs[k].kind \in {"msg", "single"} /\ Msgs[k].len \in Nat
           /\ Announced(Msgs[k]) \in Nat
           /\ Msgs[k].kind = "single" => Announced(Msgs[k]) = Msgs[k].len + RegId
           /\ Msgs[k].kind = "msg" => Announced(Msgs[k]) = Msgs[k].len
  <1>1. Msgs[k] \in Message
    BY MsgAssumption
  <1> QED  BY <1>1, SizeAssumption DEF Message, Announced

\* The two calls start with nothing sent and nothing read.
LEMMA InitInv == Init => Inv
  <1> SUFFICES ASSUME Init PROVE Inv
    OBVIOUS
  <1> USE DEF Init
  <1>1. TypeOK
    <2>1. Len(Msgs) \in Nat
      BY MsgAssumption
    <2>2. skipfail \in BOOLEAN /\ over \in BOOLEAN
      BY Zenon
    <2>3. <<>> \in Seq([start : Nat, len : Nat])
      OBVIOUS
    <2>4. <<>> \in Seq([start : Nat, len : Nat, mlen : Nat, end : Nat])
      OBVIOUS
    <2> QED  BY <2>1, <2>2, <2>3, <2>4, SizeAssumption DEF TypeOK
  <1>2. FramesInv /\ WriterInv
    BY DEF FramesInv, WriterInv
  <1>3. ReaderInv
    BY SizeAssumption DEF ReaderInv
  <1>4. InOrder
    BY DEF InOrder, RecvExact
  <1> QED  BY <1>1, <1>2, <1>3, <1>4 DEF Inv

\* Where the frames are, as numbers.
LEMMA FrameFacts ==
    ASSUME TypeOK
    PROVE  /\ Len(frames) \in Nat
           /\ frames = <<>> <=> Len(frames) = 0
           /\ \A k \in 1 .. Len(frames) :
                 /\ frames[k].start \in Nat /\ frames[k].len \in Nat
                 /\ End(frames[k]) = frames[k].start + Hdr + frames[k].len
                 /\ End(frames[k]) \in Nat
  <1>1. frames \in Seq([start : Nat, len : Nat])
    BY DEF TypeOK
  <1>2. Len(frames) \in Nat /\ (frames = <<>> <=> Len(frames) = 0)
    BY <1>1
  <1>3. ASSUME NEW k \in 1 .. Len(frames)
        PROVE  frames[k] \in [start : Nat, len : Nat]
    BY <1>1, ElementOf
  <1>4. ASSUME NEW g \in [start : Nat, len : Nat]
        PROVE  /\ g.start \in Nat /\ g.len \in Nat
               /\ End(g) = g.start + Hdr + g.len
               /\ End(g) \in Nat
    BY <1>4, SizeAssumption DEF End
  <1> QED  BY <1>2, <1>3, <1>4

\* psc_sendhead begins a frame where the last one has ended.
LEMMA BeginStep ==
    ASSUME Inv, SendBegin
    PROVE  TypeOK' /\ FramesInv' /\ WriterInv'
  <1> DEFINE f == [start |-> wr, len |-> Announced(Msgs[mno + 1])]
             n == Len(frames)
  <1>1. /\ mno' = mno + 1 /\ mno + 1 \in 1 .. Len(Msgs) /\ frames' = Append(frames, f)
        /\ part = "idle" /\ part' = "head" /\ sleft' = Hdr /\ wr' = wr /\ UNCHANGED reader
    BY MsgAssumption DEF SendBegin, Inv, TypeOK
  <1>2. /\ f \in [start : Nat, len : Nat] /\ f.len = Announced(Msgs[mno + 1]) /\ f.start = wr
        /\ f.len \in Nat /\ wr \in Nat /\ Hdr \in Nat /\ Hdr > 0
    BY <1>1, MsgFacts, SizeAssumption DEF Inv, TypeOK
  <1>3. End(f) = wr + Hdr + f.len
    BY <1>2 DEF End
  <1>4. /\ n \in Nat /\ n = mno
        /\ n = 0 => wr = 0
        /\ n > 0 => wr = End(frames[n])
    BY <1>1, FrameFacts DEF Inv, TypeOK, FramesInv, WriterInv, ToWrite
  <1>0. frames \in Seq([start : Nat, len : Nat]) /\ n = Len(frames)
    BY DEF Inv, TypeOK
  <1> HIDE DEF f, n
  <1>5. /\ frames' \in Seq([start : Nat, len : Nat]) /\ Len(frames') = n + 1
        /\ frames'[n + 1] = f /\ \A k \in 1 .. n : frames'[k] = frames[k]
        /\ frames' # <<>>
    BY <1>0, <1>1, <1>2, AppendFacts
  <1>6. TypeOK'
    BY <1>1, <1>2, <1>5 DEF Inv, TypeOK, reader
  <1>7. \A i \in 1 .. n : End(frames[i]) =< wr
    <2> SUFFICES ASSUME NEW i \in 1 .. n PROVE End(frames[i]) =< wr
      OBVIOUS
    <2>1. CASE i = n
      BY <2>1, <1>4, <1>2
    <2>2. CASE i < n
      <3>1. End(frames[i]) =< frames[n].start
        BY <2>2, <1>0, <1>4 DEF Inv, FramesInv
      <3>2. /\ n \in 1 .. n /\ End(frames[n]) = frames[n].start + Hdr + frames[n].len
            /\ End(frames[i]) \in Nat /\ frames[n].start \in Nat /\ frames[n].len \in Nat
        BY <2>2, <1>0, <1>4, FrameFacts DEF Inv
      <3> QED  BY <3>1, <3>2, <1>4, <1>2
    <2> QED  BY <1>4, <2>1, <2>2
  <1>8. FramesInv'
    <2>1. (\A i, j \in 1 .. Len(frames) : i < j => End(frames[i]) =< frames[j].start)'
      <3> SUFFICES ASSUME NEW i \in 1 .. n + 1, NEW j \in 1 .. n + 1, i < j
                   PROVE  End(frames'[i]) =< frames'[j].start
        BY <1>5 DEF End
      <3>1. i \in 1 .. n /\ frames'[i] = frames[i]
        BY <1>4, <1>5
      <3>2. CASE j = n + 1
        BY <3>1, <3>2, <1>2, <1>5, <1>7
      <3>3. CASE j \in 1 .. n
        BY <3>1, <3>3, <1>0, <1>5 DEF Inv, FramesInv
      <3> QED  BY <1>4, <3>2, <3>3
    <2>2. (\A i \in 1 .. Len(frames) : i + 1 =< Len(frames) =>
              frames[i + 1].start = End(frames[i]))'
      <3> SUFFICES ASSUME NEW i \in 1 .. n
                   PROVE  frames'[i + 1].start = End(frames'[i])
        BY <1>4, <1>5 DEF End
      <3>1. CASE i = n
        BY <3>1, <1>2, <1>4, <1>5
      <3>2. CASE i + 1 \in 1 .. n
        <4>1. \A k \in 1 .. Len(frames) : k + 1 =< Len(frames) => frames[k + 1].start = End(frames[k])
          BY DEF Inv, FramesInv
        <4>2. i \in 1 .. Len(frames) /\ i + 1 =< Len(frames)
          BY <3>2, <1>0, <1>4
        <4>3. frames[i + 1].start = End(frames[i])
          BY ONLY <4>1, <4>2
        <4>4. frames'[i + 1] = frames[i + 1] /\ frames'[i] = frames[i]
          BY <3>2, <1>5
        <4> QED  BY <4>3, <4>4
      <3> QED  BY <1>4, <3>1, <3>2
    <2>3. frames'[1].start = 0
      <3>1. CASE n = 0
        BY <3>1, <1>2, <1>4, <1>5
      <3>2. CASE n > 0
        BY <3>2, <1>0, <1>4, <1>5 DEF Inv, FramesInv
      <3> QED  BY <1>4, <3>1, <3>2
    <2>4. wr' =< End(frames'[n + 1])
      BY <1>1, <1>2, <1>3, <1>5
    <2> QED  BY <2>1, <2>2, <2>3, <2>4, <1>1, <1>4, <1>5 DEF FramesInv, End
  <1>9. WriterInv'
    BY <1>1, <1>2, <1>3, <1>4, <1>5 DEF WriterInv, ToWrite, End
  <1> QED  BY <1>6, <1>8, <1>9

\* While it sends, the sender is in the last frame.
LEMMA SendingFacts ==
    ASSUME Inv, part \in {"head", "regid", "body"}
    PROVE  /\ frames # <<>> /\ Len(frames) = mno /\ mno \in 1 .. Len(Msgs)
           /\ End(frames[mno]) \in Nat
           /\ frames[mno].len = Announced(Msgs[mno])
           /\ wr + ToWrite = End(frames[mno])
  <1>1. frames # <<>> /\ Len(frames) = mno
    BY DEF Inv, FramesInv
  <1>2. mno \in Nat /\ mno # 0 /\ mno \in 1 .. Len(frames)
    BY <1>1, FrameFacts DEF Inv
  <1>3. mno \in 1 .. Len(Msgs)
    BY <1>2, MsgAssumption DEF Inv, TypeOK
  <1>4. End(frames[mno]) \in Nat
    BY <1>2, FrameFacts DEF Inv
  <1> QED  BY <1>1, <1>3, <1>4 DEF Inv, WriterInv

\* send() stays within the frame that psc_sendhead announced.
LEMMA SomeStep ==
    ASSUME Inv, NEW n \in 1 .. sleft, SendSome(n)
    PROVE  TypeOK' /\ FramesInv' /\ WriterInv'
  <1>1. /\ part \in {"head", "regid", "body"} /\ wr' = wr + n /\ sleft' = sleft - n
        /\ mno' = mno /\ part' = part /\ frames' = frames /\ UNCHANGED reader
    BY DEF SendSome
  <1>2. wr \in Nat /\ sleft \in Nat /\ n \in Nat /\ n =< sleft
    BY DEF Inv, TypeOK
  <1>3. TypeOK'
    BY <1>1, <1>2 DEF Inv, TypeOK, reader
  <1>4. ToWrite \in Nat /\ sleft =< ToWrite /\ ToWrite' = ToWrite - n
    <2>1. Announced(Msgs[mno]) \in Nat /\ Msgs[mno].len \in Nat
      BY <1>1, SendingFacts, MsgFacts
    <2>2. CASE part = "head"
      BY <2>1, <2>2, <1>1, <1>2 DEF ToWrite
    <2>3. CASE part = "regid"
      BY <2>1, <2>3, <1>1, <1>2 DEF ToWrite
    <2>4. CASE part = "body"
      BY <2>4, <1>1, <1>2 DEF ToWrite
    <2> QED  BY <2>2, <2>3, <2>4, <1>1
  <1>5. wr' =< End(frames[mno]) /\ wr' + ToWrite' = End(frames[mno])
    BY <1>1, <1>2, <1>4, SendingFacts
  <1>6. FramesInv'
    BY <1>1, <1>5, SendingFacts DEF Inv, FramesInv, End
  <1>7. WriterInv'
    BY <1>1, <1>5, SendingFacts DEF Inv, WriterInv, End
  <1> QED  BY <1>3, <1>6, <1>7

\* Going on to the register number or to the body leaves the end where it was.
LEMMA PartDoneStep ==
    ASSUME Inv, SendPartDone
    PROVE  TypeOK' /\ FramesInv' /\ WriterInv'
  <1>1. /\ part \in {"head", "regid", "body"} /\ wr' = wr /\ sleft = 0
        /\ mno' = mno /\ frames' = frames /\ UNCHANGED reader
        /\ part' \in {"regid", "body", "idle"}
        /\ part' = "regid" => part = "head" /\ Msgs[mno].kind = "single" /\ sleft' = RegId
        /\ part' = "body" => /\ sleft' = Msgs[mno].len
                             /\ part = "regid" \/ (part = "head" /\ Msgs[mno].kind = "msg")
        /\ part' = "idle" => part = "body" /\ sleft' = 0
    BY DEF SendPartDone
  <1>2. /\ mno \in 1 .. Len(Msgs) /\ frames # <<>> /\ Msgs[mno].len \in Nat
        /\ Announced(Msgs[mno]) \in Nat /\ RegId \in Nat
    BY <1>1, SendingFacts, MsgFacts, SizeAssumption
  <1>3. TypeOK'
    BY <1>1, <1>2 DEF Inv, TypeOK, reader
  <1>4. ToWrite' = ToWrite
    BY <1>1, <1>2, MsgFacts DEF ToWrite
  <1>5. FramesInv'
    BY <1>1, <1>2 DEF Inv, FramesInv, End
  <1>6. WriterInv'
    BY <1>1, <1>2, <1>4, SendingFacts DEF Inv, WriterInv, End
  <1> QED  BY <1>3, <1>5, <1>6

\* A failing send() moves nothing.
LEMMA FailStep ==
    ASSUME Inv, SendFail
    PROVE  TypeOK' /\ FramesInv' /\ WriterInv'
  <1>1. TypeOK'
    BY DEF SendFail, Inv, TypeOK, reader
  <1>2. FramesInv'
    BY SendingFacts DEF SendFail, Inv, FramesInv, End
  <1>3. WriterInv'
    BY SendingFacts DEF SendFail, Inv, WriterInv, End
  <1> QED  BY <1>1, <1>2, <1>3

\* The sender only adds to the stream, which leaves the reader's view as it was.
LEMMA StreamGrows ==
    ASSUME Inv, UNCHANGED reader, wr' \in Nat, wr' >= wr,
           Len(frames') \in Nat, Len(frames') >= Len(frames),
           \A k \in 1 .. Len(frames) : frames'[k] = frames[k]
    PROVE  ReaderInv' /\ InOrder'
  <1>1. /\ Len(got) \in Nat /\ (got = <<>> <=> Len(got) = 0) /\ rd \in Nat /\ wr \in Nat
        /\ Len(frames) \in Nat
    BY FrameFacts DEF Inv, TypeOK
  <1>2. got' = got /\ skipfail' = skipfail /\ over' = over /\ rd' = rd /\ rpc' = rpc /\ left' = left /\ hpos' = hpos
        /\ mlen' = mlen /\ rlen' = rlen /\ len' = len
    BY DEF reader
  <1>3. InOrder'
    BY <1>1, <1>2 DEF Inv, InOrder, RecvExact
  <1>4. InFrame => InFrame'
    BY <1>1, <1>2 DEF InFrame
  <1>5. Len(got) =< Len(frames) /\ got # <<>> => frames'[Len(got)] = frames[Len(got)]
    BY <1>1
  <1>6. ReaderInv'
    BY <1>1, <1>2, <1>4, <1>5 DEF Inv, ReaderInv, End
  <1> QED  BY <1>3, <1>6

\* Every step of psc_sendmsg and psc_sendmsgsingle preserves the invariant.
LEMMA SenderStep ==
    ASSUME Inv, Sender
    PROVE  Inv'
  <1>1. CASE SendBegin
    <2>1. /\ UNCHANGED reader /\ wr' = wr
          /\ frames' = Append(frames, [start |-> wr, len |-> Announced(Msgs[mno + 1])])
          /\ mno + 1 \in 1 .. Len(Msgs)
      BY <1>1, MsgAssumption DEF SendBegin, Inv, TypeOK
    <2>2. [start |-> wr, len |-> Announced(Msgs[mno + 1])] \in [start : Nat, len : Nat]
      BY <2>1, MsgFacts DEF Inv, TypeOK
    <2>3. frames \in Seq([start : Nat, len : Nat]) /\ wr \in Nat /\ Len(frames) \in Nat
      BY FrameFacts DEF Inv, TypeOK
    <2>4. Len(frames') = Len(frames) + 1 /\ \A k \in 1 .. Len(frames) : frames'[k] = frames[k]
      BY <2>1, <2>2, <2>3, AppendFacts
    <2>5. ReaderInv' /\ InOrder'
      BY <2>1, <2>3, <2>4, StreamGrows
    <2> QED  BY <2>5, <1>1, BeginStep DEF Inv
  <1>2. ASSUME NEW n \in 1 .. sleft, SendSome(n) PROVE Inv'
    <2>1. UNCHANGED reader /\ wr' = wr + n /\ frames' = frames
      BY <1>2 DEF SendSome
    <2>2. wr \in Nat /\ n \in Nat /\ Len(frames) \in Nat
      BY FrameFacts DEF Inv, TypeOK
    <2>3. ReaderInv' /\ InOrder'
      BY <2>1, <2>2, StreamGrows
    <2> QED  BY <2>3, <1>2, SomeStep DEF Inv
  <1>3. CASE SendPartDone \/ SendFail
    <2>1. UNCHANGED reader /\ wr' = wr /\ frames' = frames
      BY <1>3 DEF SendPartDone, SendFail
    <2>2. wr \in Nat /\ Len(frames) \in Nat
      BY FrameFacts DEF Inv, TypeOK
    <2>3. ReaderInv' /\ InOrder'
      BY <2>1, <2>2, StreamGrows
    <2> QED  BY <2>3, <1>3, PartDoneStep, FailStep DEF Inv
  <1> QED  BY <1>1, <1>2, <1>3 DEF Sender

-----------------------------------------------------------------------------
\* Until the buffer is overrun, a header that was read in full is the header of the
\* frame after the last message returned, and of no other.
LEMMA HeaderFound ==
    ASSUME Inv, ~over, rpc = "head", left = 0
    PROVE  /\ Len(got) + 1 \in 1 .. Len(frames)
           /\ hpos = frames[Len(got) + 1].start
           /\ \A i \in 1 .. Len(frames) : frames[i].start = hpos => i = Len(got) + 1
  <1> DEFINE g == Len(got)
             n == Len(frames)
  <1>1. /\ g \in Nat /\ (got = <<>> <=> g = 0) /\ rd \in Nat /\ wr \in Nat /\ hpos \in Nat
        /\ Hdr \in Nat /\ Hdr > 0 /\ n \in Nat /\ (frames = <<>> <=> n = 0)
    BY FrameFacts, SizeAssumption DEF Inv, TypeOK
  <1>2. g =< n /\ rd =< wr /\ rd = hpos + Hdr
        /\ hpos = (IF got = <<>> THEN 0 ELSE End(frames[g]))
    BY <1>1 DEF Inv, ReaderInv
  <1>3. n > 0 /\ wr =< End(frames[n])
    BY <1>1, <1>2 DEF Inv, FramesInv
  <1>4. /\ \A i, j \in 1 .. n : i < j => End(frames[i]) =< frames[j].start
        /\ \A i \in 1 .. n : i + 1 =< n => frames[i + 1].start = End(frames[i])
        /\ frames[1].start = 0
    BY <1>1, <1>3 DEF Inv, FramesInv
  <1>5. \A k \in 1 .. n : /\ frames[k].start \in Nat /\ frames[k].len \in Nat
                          /\ End(frames[k]) = frames[k].start + Hdr + frames[k].len
    BY FrameFacts DEF Inv
  <1> HIDE DEF g, n
  <1>6. g + 1 \in 1 .. n
    <2>1. CASE g = n
      BY <2>1, <1>1, <1>2, <1>3
    <2> QED  BY <2>1, <1>1, <1>2
  <1>7. hpos = frames[g + 1].start
    <2>1. CASE g = 0
      BY <2>1, <1>1, <1>2, <1>4
    <2>2. CASE g > 0
      BY <2>2, <1>1, <1>2, <1>4, <1>6
    <2> QED  BY <2>1, <2>2, <1>1
  <1>8. ASSUME NEW i \in 1 .. n, frames[i].start = hpos PROVE i = g + 1
    <2>1. CASE i < g + 1
      <3>1. End(frames[i]) =< frames[g + 1].start
        BY <2>1, <1>4, <1>6
      <3> QED  BY <3>1, <1>1, <1>5, <1>7, <1>8
    <2>2. CASE g + 1 < i
      <3>1. End(frames[g + 1]) =< frames[i].start
        BY <2>2, <1>4, <1>6
      <3> QED  BY <3>1, <1>1, <1>5, <1>6, <1>7, <1>8
    <2> QED  BY <2>1, <2>2, <1>1
  <1> QED  BY <1>6, <1>7, <1>8 DEF g, n

\* A step of the reader leaves the stream alone.
LEMMA StreamSame ==
    ASSUME Inv, UNCHANGED stream
    PROVE  FramesInv' /\ WriterInv'
  BY DEF Inv, FramesInv, WriterInv, ToWrite, End, stream

\* A step that returns no message keeps the order.
LEMMA GotSame ==
    ASSUME Inv, UNCHANGED stream, got' = got, over => over'
    PROVE  InOrder'
  <1> QED  BY DEF Inv, InOrder, RecvExact, stream

\* psc_recvmsg returns 0 at the end of the frame it is in.
LEMMA DeliverStep ==
    ASSUME Inv, Deliver, UNCHANGED <<stream, rd, skipfail, over>>,
           ~over => InFrame /\ rd = hpos + Hdr + mlen
    PROVE  Inv'
  <1> DEFINE e == [start |-> hpos, len |-> rlen, mlen |-> mlen, end |-> rd]
             g == Len(got)
             M == [start : Nat, len : Nat, mlen : Nat, end : Nat]
  <1>1. /\ got' = Append(got, e) /\ rpc' = "head" /\ left' = Hdr /\ hpos' = rd
        /\ mlen' = 0 /\ rlen' = 0 /\ len' = 0 /\ rd' = rd /\ skipfail' = skipfail /\ over' = over
        /\ UNCHANGED stream
    BY DEF Deliver
  <1>2. e \in M
    BY DEF Inv, TypeOK
  <1>3. got \in Seq(M) /\ g \in Nat /\ Hdr \in Nat /\ rd \in Nat /\ mlen \in Nat /\ hpos \in Nat
    BY SizeAssumption DEF Inv, TypeOK
  <1>4. e.start = hpos /\ e.len = rlen /\ e.mlen = mlen /\ e.end = rd
    OBVIOUS
  <1> HIDE DEF e, M
  <1>5. /\ got' \in Seq(M) /\ Len(got') = g + 1 /\ got' # <<>> /\ got'[g + 1] = e
        /\ \A k \in 1 .. g : got'[k] = got[k]
    BY <1>1, <1>2, <1>3, AppendFacts
  <1>6. TypeOK'
    BY <1>1, <1>3, <1>5 DEF Inv, TypeOK, stream, M
  <1>7. FramesInv' /\ WriterInv'
    BY <1>1, StreamSame
  <1> HIDE DEF g
  <1>8. ReaderInv'
    <2>1. rd' =< wr' /\ rpc' # "skip" /\ rpc' # "tail" /\ (~skipfail' => ~over')
      BY <1>1 DEF Inv, ReaderInv, stream
    <2>2. ASSUME ~over
          PROVE  /\ Len(got') =< Len(frames')
                 /\ hpos' = End(frames'[Len(got')])
                 /\ rd' = hpos' + Hdr - left'
      <3>1. g + 1 =< Len(frames) /\ hpos = frames[g + 1].start /\ mlen = frames[g + 1].len
            /\ rd = hpos + Hdr + mlen
        BY <2>2 DEF InFrame, g
      <3>2. frames' = frames
        BY <1>1 DEF stream
      <3> QED  BY <3>1, <3>2, <1>1, <1>3, <1>5 DEF End
    <2> QED  BY <2>1, <2>2, <1>1, <1>5 DEF ReaderInv, End
  <1>9. InOrder'
    <2> SUFFICES ASSUME ~over, NEW i \in 1 .. g + 1
                 PROVE  /\ got'[i].end = got'[i].start + Hdr + got'[i].mlen
                        /\ i =< Len(frames)
                        /\ got'[i].start = frames[i].start
                        /\ got'[i].mlen = frames[i].len
                        /\ got'[i].len = Smaller(frames[i].len, RxMax)
      BY <1>1, <1>5 DEF InOrder, RecvExact, stream, Smaller
    <2>1. CASE i = g + 1
      BY <2>1, <1>4, <1>5 DEF InFrame, g
    <2>2. CASE i \in 1 .. g
      BY <2>2, <1>5 DEF Inv, InOrder, RecvExact, g
    <2> QED  BY <2>1, <2>2, <1>3
  <1> QED  BY <1>6, <1>7, <1>8, <1>9 DEF Inv

\* One recv() moves the reader on in the frame it is in.
LEMMA RecvSomeStep ==
    ASSUME Inv, NEW n \in 1 .. left, RecvSome(n)
    PROVE  Inv'
  <1>1. /\ UNCHANGED stream /\ rd + n =< wr /\ rd' = rd + n /\ left' = left - n /\ ~PastEnd(n)
        /\ UNCHANGED <<rpc, hpos, mlen, rlen, len, skipfail, over, got>>
    BY DEF RecvSome
  <1>2. /\ n \in Nat /\ left \in Nat /\ rd \in Nat /\ n =< left /\ wr \in Nat /\ hpos \in Nat
        /\ mlen \in Nat /\ rlen \in Nat /\ len \in Nat /\ Chunk \in Nat /\ Hdr \in Nat
        /\ over \in BOOLEAN
    BY SizeAssumption DEF Inv, TypeOK
  <1>3. TypeOK'
    BY <1>1, <1>2 DEF Inv, TypeOK, stream
  <1>4. FramesInv' /\ WriterInv' /\ InOrder'
    BY <1>1, <1>2, StreamSame, GotSame
  <1>5. InFrame' <=> InFrame
    BY <1>1 DEF InFrame, stream
  <1>6. ReaderInv'
    BY <1>1, <1>2, <1>5 DEF Inv, ReaderInv, PastEnd, stream, End
  <1> QED  BY <1>3, <1>4, <1>6 DEF Inv

\* recv() fails outside the loop of psc_recvskip, or there is no 'P' 'S'.
LEMMA FailedStep ==
    ASSUME Inv, RecvFail \/ HeadBad
    PROVE  Inv'
  <1>1. /\ UNCHANGED <<stream, rd, left, hpos, mlen, rlen, len, skipfail, over, got>> /\ rpc' = "failed"
    BY DEF RecvFail, HeadBad
  <1>2. TypeOK'
    BY <1>1 DEF Inv, TypeOK, stream
  <1>3. over \in BOOLEAN
    BY DEF Inv, TypeOK
  <1>4. FramesInv' /\ WriterInv' /\ InOrder'
    BY <1>1, <1>3, StreamSame, GotSame
  <1>5. ReaderInv'
    BY <1>1 DEF Inv, ReaderInv, stream, End
  <1> QED  BY <1>2, <1>4, <1>5 DEF Inv

\* psc_recvhead: the length it takes is the one its frame announced.
LEMMA HeadDoneStep ==
    ASSUME Inv, HeadDone
    PROVE  Inv'
  <1>1. PICK m \in Garbage \cup {frames[i].len : i \in 1 .. Len(frames)} :
            /\ Header(m) /\ mlen' = m /\ rlen' = Smaller(m, RxMax) /\ left' = Smaller(m, RxMax)
    BY DEF HeadDone
  <1>2. rpc = "head" /\ left = 0 /\ rpc' = "body" /\ UNCHANGED <<stream, rd, hpos, len, skipfail, over, got>>
    BY DEF HeadDone
  <1>3. m \in Nat
    BY <1>1, FrameFacts, MsgAssumption DEF Inv
  <1>4. Smaller(m, RxMax) \in Nat /\ over \in BOOLEAN /\ rd \in Nat /\ hpos \in Nat /\ Hdr \in Nat
    BY <1>3, SizeAssumption DEF Smaller, Inv, TypeOK
  <1>5. TypeOK'
    BY <1>1, <1>2, <1>3, <1>4 DEF Inv, TypeOK, stream
  <1>6. FramesInv' /\ WriterInv' /\ InOrder'
    BY <1>2, <1>4, StreamSame, GotSame
  <1>7. ReaderInv'
    <2>1. ASSUME ~over PROVE InFrame'
      <3>1. /\ Len(got) + 1 \in 1 .. Len(frames) /\ hpos = frames[Len(got) + 1].start
            /\ \A i \in 1 .. Len(frames) : frames[i].start = hpos => i = Len(got) + 1
        BY <2>1, <1>2, HeaderFound
      <3>2. m = frames[Len(got) + 1].len
        BY <3>1, <1>1 DEF Header
      <3>3. Len(got) + 1 =< Len(frames)
        BY <3>1, FrameFacts DEF Inv
      <3> QED  BY <3>1, <3>2, <3>3, <1>1, <1>2 DEF InFrame, stream
    <2>2. ~over => rd = hpos + Hdr /\ rd' = hpos' + Hdr + rlen' - left'
      BY <1>1, <1>2, <1>4 DEF Inv, ReaderInv
    <2> QED  BY <2>1, <2>2, <1>2 DEF Inv, ReaderInv, stream, End
  <1> QED  BY <1>5, <1>6, <1>7 DEF Inv

\* The loop of psc_recvskip: len bytes of the frame are still to be discarded.
LEMMA SkipLoopStep ==
    ASSUME Inv, NEW k \in Nat, SkipLoop(k),
           UNCHANGED <<stream, rd, hpos, mlen, rlen, skipfail, over, got>>,
           ~over => InFrame /\ rd = hpos + Hdr + mlen - k
    PROVE  Inv'
  <1>1. /\ len' = k /\ (k > Chunk => rpc' = "skip" /\ left' = Chunk)
        /\ ~(k > Chunk) => rpc' = "tail" /\ left' = k
    BY DEF SkipLoop
  <1>2. /\ rd \in Nat /\ hpos \in Nat /\ Hdr \in Nat /\ mlen \in Nat /\ Chunk \in Nat
        /\ over \in BOOLEAN
    BY SizeAssumption DEF Inv, TypeOK
  <1>3. TypeOK'
    BY <1>1, <1>2 DEF Inv, TypeOK, stream
  <1>4. FramesInv' /\ WriterInv' /\ InOrder'
    BY <1>2, StreamSame, GotSame
  <1>5. InFrame => InFrame'
    BY DEF InFrame, stream
  <1>6. ReaderInv'
    BY <1>1, <1>2, <1>5 DEF Inv, ReaderInv, stream, End
  <1> QED  BY <1>3, <1>4, <1>6 DEF Inv

\* recv() fails in that loop: what is left is more than the buffer holds.
LEMMA SkipFailStep ==
    ASSUME Inv, SkipFail
    PROVE  Inv'
  <1>1. /\ rpc = "skip" /\ rpc' = "tail" /\ left' = len /\ skipfail' = TRUE
        /\ UNCHANGED <<stream, rd, hpos, mlen, rlen, len, over, got>>
    BY DEF SkipFail
  <1>2. Chunk \in Nat /\ len \in Nat /\ len > Chunk
    BY <1>1, SizeAssumption DEF Inv, TypeOK, ReaderInv
  <1>3. TypeOK'
    BY <1>1, <1>2 DEF Inv, TypeOK, stream
  <1>4. FramesInv' /\ WriterInv' /\ InOrder'
    BY <1>1, StreamSame, GotSame
  <1>5. ReaderInv'
    BY <1>1, <1>2 DEF Inv, ReaderInv, stream, End
  <1> QED  BY <1>3, <1>4, <1>5 DEF Inv

\* recv() writes past the buffer: nothing is claimed of the reader any more.
LEMMA RecvPastStep ==
    ASSUME Inv, NEW n \in 1 .. left, RecvPast(n)
    PROVE  Inv'
  <1>1. /\ UNCHANGED <<stream, hpos, mlen, rlen, len, skipfail, got>> /\ rd' = rd + n /\ rd + n =< wr
        /\ over' = TRUE /\ rpc = "tail" /\ rpc' \in {"tail", "crashed"}
        /\ left' = left - n \/ left' \in Garbage \/ left' = left
    BY DEF RecvPast, PastEnd
  <1>2. n \in Nat /\ left \in Nat /\ rd \in Nat /\ n =< left
    BY DEF Inv, TypeOK
  <1>3. left' \in Nat /\ rd' \in Nat
    <2>1. Garbage \subseteq Nat /\ left - n \in Nat
      BY <1>2, MsgAssumption
    <2>2. left' \in Nat
      BY <1>1, <1>2, <2>1, Zenon
    <2>3. rd' = rd + n
      BY <1>1
    <2> QED  BY ONLY <1>2, <2>2, <2>3
  <1>4. TypeOK'
    BY <1>1, <1>3 DEF Inv, TypeOK, stream
  <1>5. FramesInv' /\ WriterInv' /\ InOrder'
    BY <1>1, StreamSame, GotSame
  <1>6. ReaderInv'
    <2>1. len \in Nat /\ Chunk \in Nat /\ len - left + n > Chunk /\ rd' =< wr'
      BY <1>1, SizeAssumption DEF RecvPast, PastEnd, Inv, TypeOK, stream
    <2>2. skipfail
      BY <1>1, <1>2, <2>1 DEF Inv, ReaderInv
    <2> QED  BY <1>1, <2>1, <2>2 DEF ReaderInv
  <1> QED  BY <1>4, <1>5, <1>6 DEF Inv

\* Every step of psc_recvmsg preserves the invariant.
LEMMA ReceiverStep ==
    ASSUME Inv, Receiver
    PROVE  Inv'
  <1>1. /\ rd \in Nat /\ hpos \in Nat /\ Hdr \in Nat /\ mlen \in Nat /\ Chunk \in Nat
        /\ rlen \in Nat /\ len \in Nat /\ left \in Nat /\ RxMax \in Nat
    BY SizeAssumption DEF Inv, TypeOK
  <1>2. CASE BodyDone
    <2>1. rpc = "body" /\ left = 0 /\ UNCHANGED <<stream, rd, skipfail, over>>
      BY <1>2 DEF BodyDone
    <2>2. ~over => InFrame /\ rd = hpos + Hdr + rlen /\ rlen = Smaller(mlen, RxMax)
      BY <2>1, <1>1 DEF Inv, ReaderInv, InFrame
    <2>3. CASE rlen < mlen /\ SkipLoop(mlen - rlen) /\ UNCHANGED <<hpos, mlen, rlen, got>>
      <3>1. mlen - rlen \in Nat /\ (~over => rd = hpos + Hdr + mlen - (mlen - rlen))
        BY <2>2, <2>3, <1>1
      <3> QED  BY <3>1, <2>1, <2>2, <2>3, SkipLoopStep
    <2>4. CASE rlen >= mlen /\ Deliver
      <3>1. ~over => rd = hpos + Hdr + mlen
        BY <2>2, <2>4, <1>1 DEF Smaller
      <3> QED  BY <3>1, <2>1, <2>2, <2>4, DeliverStep
    <2> QED  BY <1>2, <2>3, <2>4 DEF BodyDone
  <1>3. CASE SkipDone
    <2>1. /\ rpc = "skip" /\ left = 0 /\ SkipLoop(len - Chunk)
          /\ UNCHANGED <<stream, rd, hpos, mlen, rlen, skipfail, over, got>>
      BY <1>3 DEF SkipDone
    <2>2. len > Chunk /\ (~over => InFrame /\ rd = hpos + Hdr + mlen - (len - Chunk))
      BY <2>1, <1>1 DEF Inv, ReaderInv
    <2>3. len - Chunk \in Nat
      BY <2>2, <1>1
    <2> QED  BY <2>1, <2>2, <2>3, SkipLoopStep
  <1>4. CASE TailDone
    <2>1. rpc = "tail" /\ left = 0 /\ Deliver /\ UNCHANGED <<stream, rd, skipfail, over>>
      BY <1>4 DEF TailDone
    <2>2. ~over => len =< Chunk
      BY <2>1, <1>1 DEF Inv, ReaderInv
    <2>3. ~over => InFrame /\ rd = hpos + Hdr + mlen
      BY <2>1, <2>2, <1>1 DEF Inv, ReaderInv
    <2> QED  BY <2>1, <2>3, DeliverStep
  <1> QED  BY <1>2, <1>3, <1>4, RecvSomeStep, RecvPastStep, FailedStep, HeadDoneStep,
              SkipFailStep
           DEF Receiver

\* A step that changes nothing.
LEMMA StutterStep ==
    ASSUME Inv, UNCHANGED vars
    PROVE  Inv'
  <1>1. UNCHANGED stream /\ UNCHANGED reader
    BY DEF vars
  <1>2. TypeOK' /\ FramesInv' /\ WriterInv'
    BY <1>1, StreamSame DEF Inv, TypeOK, stream, reader
  <1>3. ReaderInv' /\ InOrder'
    BY <1>1 DEF Inv, ReaderInv, InFrame, InOrder, RecvExact, End, stream, reader
  <1> QED  BY <1>2, <1>3 DEF Inv

-----------------------------------------------------------------------------
\* The inductive invariant holds whatever the messages, the sizes and the way
\* send() and recv() split, stop or fail.
THEOREM Invariance == Spec => []Inv
  <1>1. Inv /\ [Next]_vars => Inv'
    BY SenderStep, ReceiverStep, StutterStep DEF Next
  <1> QED  BY InitInv, <1>1, PTL DEF Spec

\* The variables of the message layer keep their types; in particular the loop of
\* psc_recvskip never takes its unsigned length below zero.
THEOREM TypeCorrect == Spec => []TypeOK
  <1>1. Inv => TypeOK
    BY DEF Inv
  <1> QED  BY Invariance, <1>1, PTL

\* However send() splits the parts, each message occupies in the stream exactly
\* the bytes that psc_sendhead announced.
THEOREM SentContiguous == Spec => []Contiguous
  <1>1. Inv => Contiguous
    <2> SUFFICES ASSUME Inv PROVE Contiguous
      OBVIOUS
    <2>1. Len(frames) \in Nat /\ (frames = <<>> <=> Len(frames) = 0)
      BY FrameFacts DEF Inv
    <2>2. \A i \in 1 .. Len(frames) - 1 :
              frames[i + 1].start = frames[i].start + Hdr + frames[i].len
      BY <2>1 DEF Inv, FramesInv, End
    <2>3. part = "idle" /\ frames # <<>> =>
              wr = frames[Len(frames)].start + Hdr + frames[Len(frames)].len
      BY <2>1 DEF Inv, TypeOK, WriterInv, ToWrite, End
    <2> QED  BY <2>2, <2>3 DEF Contiguous
  <1> QED  BY Invariance, <1>1, PTL

\* handle_client gets the messages that were sent, in order, none twice and none
\* skipped, wherever recv() splits, stops or fails, as long as psc_recvskip has not
\* been made to write past its buffer; a failure inside its loop alone never makes
\* psc_recvmsg return a message early or late.
THEOREM ReceivedInOrder == Spec => []InOrder
  <1>1. Inv => InOrder
    BY DEF Inv
  <1> QED  BY Invariance, <1>1, PTL

\* Only a recv() that fails inside its loop can make psc_recvskip write past its
\* buffer: no announced length does, at, below or above a multiple of the buffer.
THEOREM SkipsInBuffer == Spec => []SkipInBuffer
  <1>1. Inv => SkipInBuffer
    BY DEF Inv, ReaderInv, SkipInBuffer
  <1> QED  BY Invariance, <1>1, PTL
=============================================================================
