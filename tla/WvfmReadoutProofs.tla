------------------------- MODULE WvfmReadoutProofs -------------------------
(***************************************************************************)
(* Proofs about WvfmReadout, for waveforms and FIFOs of any size, every    *)
(* threshold below the length of a waveform and any number of waveforms.   *)
(***************************************************************************)
EXTENDS WvfmReadout, TLAPS

WordSet == (0 .. MaxWaves) \X (0 .. WaveLen)
SetOfMessages == [words : [1 .. WaveLen -> WordSet], s : 0 .. MaxWaves, ns : 0 .. MaxWaves, torn : BOOLEAN]

(***************************************************************************)
(* The inductive invariant.                                                *)
(*                                                                         *)
(* FifoInv is about a FIFO whose last reset cut nothing: after it the      *)
(* FIFO holds the first words of one waveform w and, while it has less     *)
(* than a whole one, nothing is missing and w is the one that is coming.   *)
(* A count above Thresh is therefore a whole waveform at the latest when   *)
(* the delay is over, and the words read and those still to be read are    *)
(* that waveform.  ReadInv carries this over to the words in the buffers.  *)
(***************************************************************************)
FirstWords(w) ==
    /\ \A p \in 1 .. Len(fifo) : p =< WaveLen => fifo[p] = Word(w, p)
    /\ Len(fifo) < WaveLen /\ pos > 0 => w = wave

\* The words read and those still to be read.
Rest(w) == /\ \A p \in 1 .. i : buf[p] = Word(w, p)
           /\ \A p \in 1 .. Len(fifo) : p + i =< WaveLen => fifo[p] = Word(w, p + i)

FillInv ==
    /\ pc = "release" => pos = 0 /\ fifo = <<>>
    /\ pc \in {"send", "poll", "delay"} => /\ \E w \in 0 .. wave : FirstWords(w)
                                           /\ Len(fifo) < WaveLen => pos = Len(fifo)
    /\ pc = "delay" /\ wordcnt > 0 /\ Len(fifo) < WaveLen => slow = wave /\ pos > 0

DrainInv ==
    pc = "read" => Len(fifo) >= WaveLen - i /\ \E w \in 0 .. wave : Rest(w)

FifoInv == (rst = 1 <=> pc = "release") /\ (~cut => FillInv /\ DrainInv)

\* What was read from a FIFO that was not cut.
ReadInv ==
    /\ pc = "read" /\ i > 0 /\ ~torn => ~cut
    /\ pc # "read" /\ ~torn => \E w \in 0 .. wave : buf = Whole(w)

\* No word is newer than the latch, and a timestamp is not older than the words
\* that were read before it.
StampInv ==
    /\ latched = wave /\ ts.ns =< wave /\ ts.s =< wave
    /\ \A p \in 1 .. Len(fifo) : fifo[p][1] =< wave
    /\ \A p \in 1 .. WaveLen : buf[p][1] =< wave
    /\ pc # "read" => \A p \in 1 .. WaveLen : buf[p][1] =< ts.s
    /\ pc \notin {"read", "ts1"} => ts.s =< ts.ns

\* What is in the FIFO or was just read is newer than everything sent.
OlderThan(x) == \A k \in 1 .. Len(sent) : sent[k].words[1][1] < x
OrderInv ==
    /\ OlderThan(wave + 1)
    /\ ~cut =>
        /\ pc \in {"send", "poll", "delay"} /\ fifo # <<>> =>
              buf[1][1] < fifo[1][1] /\ OlderThan(fifo[1][1])
        /\ pc = "read" /\ i = 0 => OlderThan(fifo[1][1])
        /\ pc = "read" /\ i > 0 => OlderThan(buf[1][1])
    /\ ~torn =>
        /\ pc = "ts1" => OlderThan(buf[1][1])
        /\ pc \in {"reset", "release", "send"} /\ wordcnt # Thresh => OlderThan(buf[1][1])

\* Until words are read again, the buffers hold what was sent last.
Again == IF sent = <<>> THEN buf = Whole(0) ELSE SetNow = sent[Len(sent)]
AgainInv ==
    /\ pc \in {"read", "ts1"} => wordcnt # Thresh
    /\ pc \in {"poll", "delay"} => Again
    /\ pc \in {"reset", "release", "send"} /\ wordcnt = Thresh => Again

Inv == /\ TypeOK /\ sent \in Seq(SetOfMessages)
       /\ FifoInv /\ ReadInv /\ StampInv /\ OrderInv /\ AgainInv
       /\ WholeWaveform /\ TimestampRecent

-----------------------------------------------------------------------------
(* Facts about the FIFO and the words. *)

LEMMA Sizes == /\ WaveLen \in Nat /\ WaveLen >= 2 /\ Thresh \in Nat /\ Thresh >= 1 /\ Thresh < WaveLen
               /\ Depth \in Nat /\ WaveLen =< Depth /\ MaxWaves \in Nat
  BY SizeAssumption

LEMMA WordIs ==
    ASSUME NEW w \in 0 .. MaxWaves, NEW p \in 0 .. WaveLen
    PROVE  Word(w, p) \in WordSet /\ Word(w, p)[1] = w /\ Word(w, p)[2] = p
  BY DEF Word, WordSet

LEMMA WordWave == ASSUME NEW x \in WordSet PROVE x[1] \in 0 .. MaxWaves
  BY DEF WordSet

LEMMA WholeIs ==
    ASSUME NEW w \in 0 .. MaxWaves
    PROVE  /\ Whole(w) \in [1 .. WaveLen -> WordSet]
           /\ \A p \in 1 .. WaveLen : Whole(w)[p] = Word(w, p)
  <1>1. \A p \in 1 .. WaveLen : Word(w, p) \in WordSet
    BY WordIs, Sizes
  <1> QED  BY <1>1 DEF Whole

\* A write leaves the FIFO as it is or adds one word at its end; it adds the word
\* if the FIFO is neither reset nor full.
LEMMA WrittenIs ==
    ASSUME fifo \in Seq(WordSet), Len(fifo) =< Depth, NEW x \in WordSet,
           NEW f, f = Written(x)
    PROVE  /\ f \in Seq(WordSet) /\ Len(f) =< Depth
           /\ \/ f = fifo /\ (rst = 1 \/ Len(fifo) >= Depth)
              \/ /\ rst # 1 /\ Len(f) = Len(fifo) + 1 /\ f[Len(fifo) + 1] = x
                 /\ \A p \in 1 .. Len(fifo) : f[p] = fifo[p]
  <1>1. CASE rst = 1 \/ Len(fifo) >= Depth
    BY <1>1 DEF Written
  <1>2. CASE ~(rst = 1 \/ Len(fifo) >= Depth)
    <2>1. f = Append(fifo, x)
      BY <1>2 DEF Written
    <2>2. Len(fifo) \in Nat /\ Len(fifo) < Depth
      BY <1>2, Sizes
    <2> QED  BY <1>2, <2>1, <2>2, Sizes
  <1> QED  BY <1>1, <1>2

-----------------------------------------------------------------------------
(* The invariant, part by part and action by action. *)

Types == TypeOK /\ sent \in Seq(SetOfMessages)

LEMMA InitInv == Init => Inv
  <1> SUFFICES ASSUME Init PROVE Inv
    OBVIOUS
  <1>1. 0 \in 0 .. MaxWaves /\ 0 \in 0 .. wave
    BY Sizes DEF Init
  <1>2. buf = Whole(0) /\ buf \in [1 .. WaveLen -> WordSet] /\ \A p \in 1 .. WaveLen : buf[p] = Word(0, p)
    BY <1>1, WholeIs DEF Init
  <1>3. TypeOK
    <2>1. /\ fifo \in Seq((0 .. MaxWaves) \X (0 .. WaveLen)) /\ Len(fifo) =< Depth
          /\ ts \in [s : 0 .. MaxWaves, ns : 0 .. MaxWaves]
      BY <1>1, Sizes DEF Init
    <2>2. wave \in 0 .. MaxWaves /\ latched \in 0 .. MaxWaves /\ pos \in 0 .. WaveLen - 1
          /\ wordcnt \in 0 .. Depth /\ slow \in 0 .. MaxWaves /\ i \in 0 .. WaveLen
      BY <1>1, Sizes DEF Init
    <2>3. rst \in {0, 1} /\ cut \in BOOLEAN /\ torn \in BOOLEAN /\ pc = "poll"
      BY DEF Init
    <2> QED  BY <1>2, <2>1, <2>2, <2>3 DEF TypeOK, WordSet
  <1>4. sent \in Seq(SetOfMessages) /\ Len(sent) = 0 /\ Len(fifo) = 0
    BY DEF Init
  <1>5. FifoInv
    BY <1>1, <1>2, <1>4, Sizes DEF Init, FifoInv, FillInv, DrainInv, FirstWords
  <1>8. ReadInv /\ AgainInv
    BY <1>1, <1>2 DEF Init, ReadInv, AgainInv, Again
  <1>6. StampInv
    <2>1. \A p \in 1 .. WaveLen : buf[p][1] = 0
      BY <1>1, <1>2, WordIs, Sizes
    <2> QED  BY <1>4, <2>1 DEF Init, StampInv
  <1>7. OrderInv /\ WholeWaveform /\ TimestampRecent
    BY <1>4 DEF Init, OrderInv, OlderThan, WholeWaveform, TimestampRecent
  <1> QED  BY <1>3, <1>4, <1>5, <1>6, <1>7, <1>8 DEF Inv

\* What the type invariant says, for the steps below.
LEMMA TypeFacts ==
    ASSUME Types
    PROVE  /\ fifo \in Seq(WordSet) /\ Len(fifo) \in Nat /\ Len(fifo) =< Depth
           /\ rst \in {0, 1} /\ cut \in BOOLEAN /\ torn \in BOOLEAN
           /\ wave \in Nat /\ wave \in 0 .. MaxWaves /\ latched \in 0 .. MaxWaves
           /\ pos \in Nat /\ pos =< WaveLen - 1
           /\ pc \in {"poll", "delay", "read", "ts1", "reset", "release", "send"}
           /\ wordcnt \in Nat /\ wordcnt =< Depth /\ slow \in 0 .. MaxWaves /\ i \in Nat /\ i =< WaveLen
           /\ buf \in [1 .. WaveLen -> WordSet]
           /\ ts \in [s : 0 .. MaxWaves, ns : 0 .. MaxWaves]
           /\ sent \in Seq(SetOfMessages)
  BY Sizes DEF Types, TypeOK, WordSet

LEMMA TypeStep == Types /\ [Next]_vars => Types'
  <1> SUFFICES ASSUME Types, [Next]_vars PROVE Types'
    OBVIOUS
  <1> USE Sizes
  <1>0. /\ fifo \in Seq(WordSet) /\ Len(fifo) \in Nat /\ Len(fifo) =< Depth
        /\ wave \in Nat /\ wave \in 0 .. MaxWaves /\ latched \in 0 .. MaxWaves
        /\ pos \in Nat /\ pos =< WaveLen - 1 /\ i \in Nat /\ i =< WaveLen
        /\ buf \in [1 .. WaveLen -> WordSet] /\ cut \in BOOLEAN /\ torn \in BOOLEAN
        /\ ts \in [s : 0 .. MaxWaves, ns : 0 .. MaxWaves] /\ sent \in Seq(SetOfMessages)
        /\ wordcnt \in Nat
    BY TypeFacts
  <1>1. CASE WaveBegin
    <2>1. wave + 1 \in 0 .. MaxWaves /\ wave' = wave + 1 /\ latched' = wave + 1
      BY <1>0, <1>1 DEF WaveBegin
    <2>4. pos' \in 0 .. WaveLen - 1
      BY <1>1 DEF WaveBegin
    <2>5. cut' \in BOOLEAN
      BY <1>0, <1>1 DEF WaveBegin
    <2>2. Word(wave + 1, 1) \in WordSet
      BY <1>0, <2>1, WordIs
    <2>3. fifo' \in Seq(WordSet) /\ Len(fifo') =< Depth
      BY <1>0, <1>1, <2>2, WrittenIs DEF WaveBegin
    <2> QED  BY <1>1, <2>1, <2>3, <2>4, <2>5 DEF WaveBegin, reader, Types, TypeOK, WordSet
  <1>2. CASE WaveWord
    <2>1. pos' \in 0 .. WaveLen - 1 /\ pos + 1 \in 0 .. WaveLen
      BY <1>0, <1>2 DEF WaveWord
    <2>2. Word(wave, pos + 1) \in WordSet
      BY <1>0, <2>1, WordIs
    <2>3. fifo' \in Seq(WordSet) /\ Len(fifo') =< Depth
      BY <1>0, <1>2, <2>2, WrittenIs DEF WaveWord
    <2> QED  BY <1>2, <2>1, <2>3 DEF WaveWord, reader, Types, TypeOK, WordSet
  <1>3. CASE Poll
    <2>1. wordcnt' \in 0 .. Depth /\ slow' \in 0 .. MaxWaves /\ pc' = "delay"
      BY <1>0, <1>3 DEF Poll
    <2> QED  BY <1>3, <2>1 DEF Poll, artix, Types, TypeOK, WordSet
  <1>4. CASE PollDelay
    <2>1. pc' \in {"poll", "read", "reset"} /\ i' \in 0 .. WaveLen
      BY <1>0, <1>4 DEF PollDelay
    <2> QED  BY <1>4, <2>1 DEF PollDelay, artix, Types, TypeOK, WordSet
  <1>5. CASE ReadWord
    <2>1. (IF fifo = <<>> THEN Word(0, 0) ELSE Head(fifo)) \in WordSet
      <3>1. Word(0, 0) \in WordSet
        BY WordIs
      <3>2. CASE fifo # <<>>
        BY <1>0, <3>2
      <3> QED  BY <3>1, <3>2
    <2>2. buf' \in [1 .. WaveLen -> WordSet]
      BY <1>0, <1>5, <2>1 DEF ReadWord
    <2>3. fifo' \in Seq(WordSet) /\ Len(fifo') =< Depth /\ i' \in 0 .. WaveLen
      <3>1. i' \in 0 .. WaveLen
        BY <1>0, <1>5 DEF ReadWord
      <3>2. CASE fifo # <<>>
        <4>1. fifo' = Tail(fifo)
          BY <1>5, <3>2 DEF ReadWord
        <4>2. Len(fifo') = Len(fifo) - 1 /\ fifo' \in Seq(WordSet)
          BY <1>0, <3>2, <4>1
        <4> QED  BY <1>0, <3>1, <4>2
      <3>3. CASE fifo = <<>>
        BY <1>0, <1>5, <3>1, <3>3 DEF ReadWord
      <3> QED  BY <3>2, <3>3
    <2>4. torn' \in BOOLEAN
      BY <1>0, <1>5 DEF ReadWord
    <2> QED  BY <1>5, <2>2, <2>3, <2>4 DEF ReadWord, artix, Types, TypeOK, WordSet
  <1>6. CASE ReadTs0
    <2>1. ts' \in [s : 0 .. MaxWaves, ns : 0 .. MaxWaves] /\ pc' = "ts1"
      BY <1>0, <1>6 DEF ReadTs0
    <2> QED  BY <1>6, <2>1 DEF ReadTs0, artix, Types, TypeOK, WordSet
  <1>7. CASE ReadTs1
    <2>1. ts' \in [s : 0 .. MaxWaves, ns : 0 .. MaxWaves] /\ pc' = "reset"
      BY <1>0, <1>7 DEF ReadTs1
    <2> QED  BY <1>7, <2>1 DEF ReadTs1, artix, Types, TypeOK, WordSet
  <1>8. CASE FifoReset
    <2>1. fifo' \in Seq(WordSet) /\ Len(fifo') =< Depth /\ rst' = 1 /\ pc' = "release"
      BY <1>0, <1>8 DEF FifoReset
    <2>2. cut' \in BOOLEAN
      BY <1>0, <1>8 DEF FifoReset
    <2> QED  BY <1>8, <2>1, <2>2 DEF FifoReset, artix, Types, TypeOK, WordSet
  <1>9. CASE FifoRelease
    BY <1>0, <1>9 DEF FifoRelease, artix, Types, TypeOK, WordSet
  <1>10. CASE SendSet
    <2>1. SetNow \in SetOfMessages
      BY <1>0 DEF SetOfMessages, SetNow
    <2>2. sent' \in Seq(SetOfMessages) /\ pc' = "poll"
      BY <1>0, <1>10, <2>1 DEF SendSet
    <2> QED  BY <1>10, <2>2 DEF SendSet, artix, Types, TypeOK, WordSet
  <1>11. CASE UNCHANGED vars
    BY <1>0, <1>11 DEF vars, artix, reader, Types, TypeOK, WordSet
  <1> QED  BY <1>1, <1>2, <1>3, <1>4, <1>5, <1>6, <1>7, <1>8, <1>9, <1>10, <1>11 DEF Next, Artix, Push

\* The two steps of the Artix, as far as the reader sees them.
LEMMA ArtixStep ==
    ASSUME Types, FifoInv, WaveBegin \/ WaveWord
    PROVE  /\ UNCHANGED <<rst, pc, wordcnt, slow, buf, i, ts, torn, sent>>
           /\ wave \in Nat /\ wave' \in Nat /\ wave =< wave' /\ Len(fifo) \in Nat /\ Len(fifo') \in Nat
           /\ fifo' \in Seq(WordSet) /\ Len(fifo') =< Depth
           /\ \A p \in 1 .. Len(fifo) : p \in 1 .. Len(fifo') /\ fifo'[p] = fifo[p]
           /\ ~cut' => ~cut /\ (rst = 1 => WaveWord)
           /\ \/ fifo' = fifo /\ (rst = 1 \/ Len(fifo) >= Depth)
              \/ /\ rst # 1 /\ Len(fifo') = Len(fifo) + 1
                 /\ \/ WaveBegin /\ fifo'[Len(fifo')] = Word(wave + 1, 1)
                    \/ WaveWord /\ fifo'[Len(fifo')] = Word(wave, pos + 1)
  <1> USE Sizes
  <1>0. /\ fifo \in Seq(WordSet) /\ Len(fifo) \in Nat /\ Len(fifo) =< Depth
        /\ wave \in Nat /\ wave \in 0 .. MaxWaves /\ pos \in Nat /\ pos =< WaveLen - 1 /\ cut \in BOOLEAN
    BY TypeFacts
  <1>1. CASE WaveBegin
    <2>1. wave + 1 \in 0 .. MaxWaves /\ fifo' = Written(Word(wave + 1, 1)) /\ wave' = wave + 1
          /\ UNCHANGED <<rst, pc, wordcnt, slow, buf, i, ts, torn, sent>>
      BY <1>0, <1>1 DEF WaveBegin, reader
    <2>2. PICK x \in WordSet : x = Word(wave + 1, 1)
      BY <2>1, WordIs
    <2>3. ~cut' => ~cut /\ rst # 1
      BY <1>1 DEF WaveBegin
    <2>4. /\ fifo' \in Seq(WordSet) /\ Len(fifo') =< Depth
          /\ \/ fifo' = fifo /\ (rst = 1 \/ Len(fifo) >= Depth)
             \/ /\ rst # 1 /\ Len(fifo') = Len(fifo) + 1 /\ fifo'[Len(fifo) + 1] = x
                /\ \A p \in 1 .. Len(fifo) : fifo'[p] = fifo[p]
      <3>1. fifo' = Written(x)
        BY <2>1, <2>2
      <3> QED  BY <1>0, <3>1, WrittenIs
    <2> QED  BY <1>0, <1>1, <2>1, <2>2, <2>3, <2>4
  <1>2. CASE WaveWord
    <2>1. pos + 1 \in 0 .. WaveLen /\ fifo' = Written(Word(wave, pos + 1)) /\ wave' = wave
          /\ UNCHANGED <<rst, pc, wordcnt, slow, buf, i, ts, torn, sent, cut>>
      BY <1>0, <1>2 DEF WaveWord, reader
    <2>2. PICK x \in WordSet : x = Word(wave, pos + 1)
      BY <1>0, <2>1, WordIs
    <2>4. /\ fifo' \in Seq(WordSet) /\ Len(fifo') =< Depth
          /\ \/ fifo' = fifo /\ (rst = 1 \/ Len(fifo) >= Depth)
             \/ /\ rst # 1 /\ Len(fifo') = Len(fifo) + 1 /\ fifo'[Len(fifo) + 1] = x
                /\ \A p \in 1 .. Len(fifo) : fifo'[p] = fifo[p]
      <3>1. fifo' = Written(x)
        BY <2>1, <2>2
      <3> QED  BY <1>0, <3>1, WrittenIs
    <2> QED  BY <1>0, <1>2, <2>1, <2>2, <2>4
  <1> QED  BY <1>1, <1>2

\* What a step of the Artix does to the FIFO that fills.
LEMMA FillArtix ==
    ASSUME Types, FifoInv, WaveBegin \/ WaveWord, ~cut'
    PROVE  FillInv'
  <1> USE Sizes
  <1>0. /\ Len(fifo) \in Nat /\ Len(fifo) =< Depth /\ pos \in Nat /\ pos =< WaveLen - 1 /\ wave \in Nat
        /\ wordcnt \in Nat /\ fifo \in Seq(WordSet)
    BY TypeFacts
  <1>1. /\ UNCHANGED <<rst, pc, wordcnt, slow, buf, i, ts, torn, sent>>
        /\ wave' \in Nat /\ wave =< wave' /\ Len(fifo') \in Nat
        /\ \A p \in 1 .. Len(fifo) : p \in 1 .. Len(fifo') /\ fifo'[p] = fifo[p]
        /\ ~cut /\ (rst = 1 => WaveWord)
        /\ \/ fifo' = fifo /\ (rst = 1 \/ Len(fifo) >= Depth)
           \/ /\ rst # 1 /\ Len(fifo') = Len(fifo) + 1
              /\ \/ WaveBegin /\ fifo'[Len(fifo')] = Word(wave + 1, 1)
                 \/ WaveWord /\ fifo'[Len(fifo')] = Word(wave, pos + 1)
    BY ArtixStep
  <1>2. FillInv
    BY <1>1 DEF FifoInv
  <1>3. /\ WaveBegin => pos = 0 /\ wave' = wave + 1 /\ pos' = 1
        /\ WaveWord => pos > 0 /\ wave' = wave /\ pos' = IF pos + 1 = WaveLen THEN 0 ELSE pos + 1
    BY DEF WaveBegin, WaveWord
  <1>4. pc' = "release" => FALSE
    BY <1>1, <1>2, <1>3 DEF FifoInv, FillInv
  <1>5. ASSUME pc' \in {"send", "poll", "delay"}
        PROVE  /\ \E w \in 0 .. wave' : FirstWords(w)'
               /\ Len(fifo') < WaveLen => pos' = Len(fifo')
               /\ pc' = "delay" /\ wordcnt' > 0 /\ Len(fifo') < WaveLen => slow' = wave' /\ pos' > 0
    <2>0. PICK w \in 0 .. wave : FirstWords(w)
      BY <1>1, <1>2, <1>5 DEF FillInv
    <2>1. rst # 1 /\ (Len(fifo) < WaveLen => pos = Len(fifo))
      BY <1>1, <1>2, <1>5 DEF FifoInv, FillInv
    <2>2. CASE Len(fifo) >= WaveLen
      <3>1. Len(fifo') >= WaveLen
        BY <1>0, <1>1, <2>2
      <3>2. \A p \in 1 .. Len(fifo') : p =< WaveLen => fifo'[p] = Word(w, p)
        BY <1>0, <1>1, <2>0, <2>2 DEF FirstWords
      <3>3. w \in 0 .. wave'
        BY <1>0, <1>1
      <3> QED  BY <1>0, <1>1, <3>1, <3>2, <3>3 DEF FirstWords
    <2>3. CASE Len(fifo) < WaveLen
      <3>1. pos = Len(fifo) /\ rst # 1 /\ Len(fifo) < Depth
        BY <1>0, <2>1, <2>3
      <3>2. Len(fifo') = Len(fifo) + 1
        BY <1>0, <1>1, <3>1
      <3>3. wave' \in 0 .. wave' /\ fifo'[Len(fifo')] = Word(wave', Len(fifo'))
        BY <1>0, <1>1, <1>3, <3>1, <3>2
      <3>4. \A p \in 1 .. Len(fifo') : fifo'[p] = Word(wave', p)
        <4>1. ASSUME NEW p \in 1 .. Len(fifo), pos > 0 PROVE fifo'[p] = Word(wave', p)
          <5>1. w = wave /\ wave' = wave
            BY <1>0, <1>3, <2>0, <2>3, <4>1 DEF FirstWords
          <5>2. fifo[p] = Word(w, p)
            BY <1>0, <2>0, <2>3, <4>1 DEF FirstWords
          <5> QED  BY <1>1, <5>1, <5>2
        <4> QED  BY <1>0, <3>1, <3>2, <3>3, <4>1
      <3>5. PICK v \in 0 .. wave' : v = wave'
        BY <3>3
      <3>9. FirstWords(v)'
        BY <3>4, <3>5 DEF FirstWords
      <3>6. Len(fifo') < WaveLen => pos' = Len(fifo') /\ pos' > 0
        BY <1>0, <1>3, <3>1, <3>2
      <3>7. pc = "delay" /\ wordcnt > 0 => slow = wave /\ pos > 0
        BY <1>2, <2>3 DEF FillInv
      <3>8. pc' = "delay" /\ wordcnt' > 0 => slow' = wave'
        BY <1>0, <1>1, <1>3, <3>7
      <3> QED  BY <3>6, <3>8, <3>9
    <2> QED  BY <1>0, <2>2, <2>3
  <1> QED  BY <1>4, <1>5 DEF FillInv

LEMMA FifoStep == Types /\ FifoInv /\ [Next]_vars => FifoInv'
  <1> SUFFICES ASSUME Types, FifoInv, [Next]_vars PROVE FifoInv'
    OBVIOUS
  <1> USE Sizes
  <1>0. /\ fifo \in Seq(WordSet) /\ Len(fifo) \in Nat /\ Len(fifo) =< Depth
        /\ pos \in Nat /\ pos =< WaveLen - 1 /\ wave \in Nat /\ wave =< MaxWaves
        /\ wordcnt \in Nat /\ i \in Nat /\ i =< WaveLen /\ cut \in BOOLEAN
        /\ buf \in [1 .. WaveLen -> WordSet]
    BY TypeFacts
  <1>1. CASE WaveBegin \/ WaveWord
    <2>1. /\ UNCHANGED <<rst, pc, wordcnt, slow, buf, i, ts, torn, sent>>
          /\ wave' \in Nat /\ wave =< wave' /\ Len(fifo') \in Nat
          /\ \A p \in 1 .. Len(fifo) : p \in 1 .. Len(fifo') /\ fifo'[p] = fifo[p]
          /\ ~cut' => ~cut
          /\ Len(fifo) =< Len(fifo')
      BY <1>0, <1>1, ArtixStep
    <2>2. ASSUME ~cut' PROVE DrainInv'
      <3>1. DrainInv
        BY <2>1, <2>2 DEF FifoInv
      <3>2. CASE pc = "read"
        <4>1. PICK w \in 0 .. wave : Rest(w)
          BY <3>1, <3>2 DEF DrainInv
        <4>2. Len(fifo) >= WaveLen - i /\ w \in 0 .. wave'
          BY <1>0, <2>1, <3>1, <3>2 DEF DrainInv
        <4>3. \A p \in 1 .. Len(fifo') : p + i =< WaveLen => fifo'[p] = Word(w, p + i)
          <5>1. ASSUME NEW p \in 1 .. Len(fifo'), p + i =< WaveLen
                PROVE  fifo'[p] = Word(w, p + i)
            <6>1. p \in 1 .. Len(fifo)
              BY ONLY <1>0, <4>2, <5>1, <2>1, Sizes
            <6>2. fifo[p] = Word(w, p + i)
              BY <4>1, <5>1, <6>1 DEF Rest
            <6> QED  BY <2>1, <6>1, <6>2
          <5> QED  BY <5>1
        <4>4. Rest(w)'
          BY <2>1, <4>1, <4>3 DEF Rest
        <4>5. Len(fifo') >= WaveLen - i'
          BY <1>0, <2>1, <4>2
        <4> QED  BY <2>1, <3>2, <4>2, <4>4, <4>5 DEF DrainInv
      <3>3. CASE pc # "read"
        BY <1>0, <2>1, <3>1, <3>3 DEF DrainInv
      <3> QED  BY <3>2, <3>3
    <2> QED  BY <1>1, <2>1, <2>2, FillArtix DEF FifoInv
  <1>2. CASE Poll
    <2>1. UNCHANGED <<fifo, rst, wave, pos, buf, i, cut>> /\ pc = "poll" /\ pc' = "delay"
          /\ wordcnt' = Len(fifo) /\ slow' = (IF pos > 0 THEN wave ELSE 0)
      BY <1>2 DEF Poll, artix
    <2>2. ASSUME ~cut PROVE FillInv'
      <3>1. (\E w \in 0 .. wave : FirstWords(w)) /\ (Len(fifo) < WaveLen => pos = Len(fifo))
        BY <2>1, <2>2 DEF FifoInv, FillInv
      <3>2. \E w \in 0 .. wave' : FirstWords(w)'
        BY <2>1, <3>1 DEF FirstWords
      <3> QED  BY <1>0, <2>1, <3>1, <3>2 DEF FillInv
    <2>3. ASSUME ~cut PROVE DrainInv'
      BY <2>1, <2>3 DEF FifoInv, DrainInv
    <2> QED  BY <2>1, <2>2, <2>3 DEF FifoInv
  <1>3. CASE PollDelay
    <2>1. UNCHANGED <<fifo, rst, wave, pos, buf, cut, wordcnt, slow>> /\ pc = "delay" /\ i' = 0
          /\ pc' = (CASE wordcnt < Thresh -> "poll" [] wordcnt = Thresh -> "reset" [] wordcnt > Thresh -> "read")
          /\ ~(pos > 0 /\ slow = wave)
      BY <1>3 DEF PollDelay, artix
    <2>2. pc' \in {"poll", "reset", "read"} /\ (pc' = "read" => wordcnt > Thresh)
      BY <1>0, <2>1
    <2>3. ASSUME ~cut PROVE FillInv'
      <3>1. (\E w \in 0 .. wave : FirstWords(w)) /\ (Len(fifo) < WaveLen => pos = Len(fifo))
        BY <2>1, <2>3 DEF FifoInv, FillInv
      <3>2. \E w \in 0 .. wave' : FirstWords(w)'
        BY <2>1, <3>1 DEF FirstWords
      <3> QED  BY <2>1, <2>2, <3>1, <3>2 DEF FillInv
    <2>4. ASSUME ~cut PROVE DrainInv'
      <3>1. CASE pc' = "read"
        <4>1. Len(fifo) >= WaveLen
          BY <1>0, <2>1, <2>2, <2>4, <3>1 DEF FifoInv, FillInv
        <4>2. PICK w \in 0 .. wave : FirstWords(w)
          BY <2>1, <2>4 DEF FifoInv, FillInv
        <4>3. Rest(w)'
          BY <1>0, <2>1, <4>2 DEF FirstWords, Rest
        <4> QED  BY <1>0, <2>1, <3>1, <4>1, <4>3 DEF DrainInv
      <3>2. CASE pc' # "read"
        BY <2>1, <2>4, <3>2 DEF FifoInv, DrainInv
      <3> QED  BY <3>1, <3>2
    <2> QED  BY <2>1, <2>2, <2>3, <2>4 DEF FifoInv
  <1>4. CASE ReadWord
    <2>1. /\ UNCHANGED <<rst, wave, pos, pc, cut, wordcnt, slow>> /\ pc = "read" /\ i' = i + 1 /\ i < WaveLen
          /\ buf' = [buf EXCEPT ![i + 1] = IF fifo = <<>> THEN Word(0, 0) ELSE Head(fifo)]
          /\ fifo' = IF fifo = <<>> THEN fifo ELSE Tail(fifo)
      BY <1>4 DEF ReadWord, artix
    <2>2. ASSUME ~cut PROVE DrainInv'
      <3>1. PICK w \in 0 .. wave : Rest(w)
        BY <2>1, <2>2 DEF FifoInv, DrainInv
      <3>2. Len(fifo) >= WaveLen - i /\ fifo # <<>>
        BY <1>0, <2>1, <2>2 DEF FifoInv, DrainInv
      <3>3. Len(fifo) >= 1 /\ Head(fifo) = fifo[1]
        BY <1>0, <3>2
      <3>4. fifo' = Tail(fifo) /\ Len(fifo') = Len(fifo) - 1
            /\ \A p \in 1 .. Len(fifo') : fifo'[p] = fifo[p + 1]
        BY <1>0, <2>1, <3>2
      <3>5. buf'[i + 1] = Word(w, i + 1) /\ \A p \in 1 .. i : buf'[p] = buf[p]
        <4>1. fifo[1] = Word(w, 1 + i)
          BY <1>0, <2>1, <3>1, <3>3 DEF Rest
        <4> QED  BY <1>0, <2>1, <3>2, <3>3, <4>1
      <3>6. \A p \in 1 .. i' : buf'[p] = Word(w, p)
        BY <1>0, <2>1, <3>1, <3>5 DEF Rest
      <3>7. \A p \in 1 .. Len(fifo') : p + i' =< WaveLen => fifo'[p] = Word(w, p + i')
        <4>1. ASSUME NEW p \in 1 .. Len(fifo'), p + i' =< WaveLen PROVE fifo'[p] = Word(w, p + i')
          <5>1. p + 1 \in 1 .. Len(fifo) /\ (p + 1) + i =< WaveLen /\ (p + 1) + i = p + i'
            BY <1>0, <2>1, <3>4, <4>1
          <5>2. fifo[p + 1] = Word(w, (p + 1) + i)
            BY <3>1, <5>1 DEF Rest
          <5> QED  BY <3>4, <5>1, <5>2
        <4> QED  BY <4>1
      <3>8. Rest(w)' /\ Len(fifo') >= WaveLen - i'
        BY <1>0, <2>1, <3>2, <3>4, <3>6, <3>7 DEF Rest
      <3> QED  BY <2>1, <3>8 DEF DrainInv
    <2> QED  BY <2>1, <2>2 DEF FifoInv, FillInv
  <1>5. CASE ReadTs0
    <2>1. UNCHANGED <<rst, wave, cut, buf>> /\ pc = "read" /\ pc' = "ts1" /\ i = WaveLen
      BY <1>5 DEF ReadTs0, artix
    <2> QED  BY <2>1 DEF FifoInv, FillInv, DrainInv
  <1>6. CASE ReadTs1
    <2>1. UNCHANGED <<rst, wave, cut, buf>> /\ pc = "ts1" /\ pc' = "reset"
      BY <1>6 DEF ReadTs1, artix
    <2> QED  BY <2>1 DEF FifoInv, FillInv, DrainInv
  <1>7. CASE FifoReset
    <2>1. UNCHANGED <<wave, pos, buf>> /\ pc = "reset" /\ pc' = "release" /\ rst' = 1 /\ fifo' = <<>>
      BY <1>7 DEF FifoReset, artix
    <2>2. ~cut' => ~(pos > 0)
      BY <1>7 DEF FifoReset
    <2>3. ~cut' => pos = 0
      BY <1>0, <2>2
    <2> QED  BY <2>1, <2>2, <2>3 DEF FifoInv, FillInv, DrainInv
  <1>8. CASE FifoRelease
    <2>1. UNCHANGED <<fifo, wave, pos, buf, cut>> /\ pc = "release" /\ pc' = "send" /\ rst' = 0
      BY <1>8 DEF FifoRelease, artix
    <2>2. ASSUME ~cut PROVE FillInv'
      <3>1. pos = 0 /\ fifo = <<>> /\ Len(fifo) = 0
        BY <2>1, <2>2 DEF FifoInv, FillInv
      <3>2. 0 \in 0 .. wave' /\ FirstWords(0)'
        BY <1>0, <2>1, <3>1 DEF FirstWords
      <3> QED  BY <2>1, <3>1, <3>2 DEF FillInv
    <2>3. ASSUME ~cut PROVE DrainInv'
      BY <2>1, <2>3 DEF FifoInv, DrainInv
    <2> QED  BY <2>1, <2>2, <2>3 DEF FifoInv
  <1>9. CASE SendSet
    <2>1. UNCHANGED <<fifo, rst, wave, pos, buf, cut>> /\ pc = "send" /\ pc' = "poll"
      BY <1>9 DEF SendSet, artix
    <2>2. ASSUME ~cut PROVE FillInv'
      <3>1. (\E w \in 0 .. wave : FirstWords(w)) /\ (Len(fifo) < WaveLen => pos = Len(fifo))
        BY <2>1, <2>2 DEF FifoInv, FillInv
      <3>2. \E w \in 0 .. wave' : FirstWords(w)'
        BY <2>1, <3>1 DEF FirstWords
      <3> QED  BY <2>1, <3>1, <3>2 DEF FillInv
    <2>3. ASSUME ~cut PROVE DrainInv'
      BY <2>1, <2>3 DEF FifoInv, DrainInv
    <2> QED  BY <2>1, <2>2, <2>3 DEF FifoInv
  <1>10. CASE UNCHANGED vars
    BY <1>10 DEF vars, artix, reader, FifoInv, FillInv, DrainInv, FirstWords, Rest
  <1> QED  BY <1>1, <1>2, <1>3, <1>4, <1>5, <1>6, <1>7, <1>8, <1>9, <1>10 DEF Next, Artix, Push

LEMMA ReadStep == Types /\ FifoInv /\ ReadInv /\ [Next]_vars => ReadInv'
  <1> SUFFICES ASSUME Types, FifoInv, ReadInv, [Next]_vars PROVE ReadInv'
    OBVIOUS
  <1>0. /\ wave \in Nat /\ i \in Nat /\ WaveLen \in Nat /\ WaveLen > 0
        /\ buf \in [1 .. WaveLen -> WordSet]
    BY TypeFacts, Sizes
  <1>1. CASE WaveBegin \/ WaveWord
    <2>1. /\ UNCHANGED <<rst, pc, buf, i, torn>> /\ wave' \in Nat /\ wave =< wave'
      BY <1>1, ArtixStep
    <2>2. pc = "read" /\ ~cut => ~cut'
      <3>1. rst # 1 \/ pc # "read"
        BY DEF FifoInv
      <3> QED  BY <1>1, <3>1 DEF WaveBegin, WaveWord
    <2>3. \A w \in 0 .. wave : w \in 0 .. wave'
      BY <1>0, <2>1
    <2> QED  BY <2>1, <2>2, <2>3 DEF ReadInv
  <1>2. CASE Poll \/ FifoRelease \/ SendSet \/ FifoReset \/ ReadTs1
    <2>1. UNCHANGED <<wave, buf, torn>> /\ pc # "read" /\ pc' # "read"
      BY <1>2 DEF Poll, FifoRelease, SendSet, FifoReset, ReadTs1, artix
    <2> QED  BY <2>1 DEF ReadInv
  <1>3. CASE PollDelay
    <2>1. UNCHANGED <<wave, buf, torn>> /\ pc # "read" /\ ~(i' > 0)
      BY <1>3 DEF PollDelay, artix
    <2> QED  BY <2>1 DEF ReadInv
  <1>4. CASE ReadWord
    <2>1. torn' = cut /\ cut' = cut /\ pc' = "read"
      BY <1>4 DEF ReadWord
    <2> QED  BY <2>1 DEF ReadInv
  <1>5. CASE ReadTs0
    <2>1. UNCHANGED <<wave, buf, torn>> /\ pc = "read" /\ pc' = "ts1" /\ i = WaveLen
      BY <1>5 DEF ReadTs0, artix
    <2>2. ASSUME ~torn PROVE \E w \in 0 .. wave : buf = Whole(w)
      <3>1. ~cut
        BY <1>0, <2>1, <2>2 DEF ReadInv
      <3>2. PICK w \in 0 .. wave : Rest(w)
        BY <2>1, <3>1 DEF FifoInv, DrainInv
      <3>3. buf = Whole(w)
        BY <1>0, <2>1, <3>2 DEF Rest, Whole
      <3> QED  BY <3>3
    <2> QED  BY <2>1, <2>2 DEF ReadInv
  <1>6. CASE UNCHANGED vars
    BY <1>6 DEF vars, artix, reader, ReadInv
  <1> QED  BY <1>1, <1>2, <1>3, <1>4, <1>5, <1>6 DEF Next, Artix, Push

LEMMA StampStep == Types /\ FifoInv /\ StampInv /\ [Next]_vars => StampInv'
  <1> SUFFICES ASSUME Types, FifoInv, StampInv, [Next]_vars PROVE StampInv'
    OBVIOUS
  <1> USE Sizes
  <1>0. /\ fifo \in Seq(WordSet) /\ Len(fifo) \in Nat /\ wave \in Nat /\ wave \in 0 .. MaxWaves
        /\ pos \in Nat /\ pos =< WaveLen - 1 /\ i \in Nat /\ i =< WaveLen
        /\ buf \in [1 .. WaveLen -> WordSet] /\ ts \in [s : 0 .. MaxWaves, ns : 0 .. MaxWaves]
        /\ wordcnt \in Nat
    BY TypeFacts
  <1>1. ts.ns \in Nat /\ ts.s \in Nat /\ (\A p \in 1 .. WaveLen : buf[p][1] \in Nat)
        /\ (\A p \in 1 .. Len(fifo) : fifo[p][1] \in Nat)
    <2>1. \A p \in 1 .. WaveLen : buf[p] \in WordSet
      BY <1>0
    <2>2. \A p \in 1 .. Len(fifo) : fifo[p] \in WordSet
      BY <1>0
    <2> QED  BY <1>0, <2>1, <2>2, WordWave
  <1>2. CASE WaveBegin \/ WaveWord
    <2>1. /\ UNCHANGED <<rst, pc, wordcnt, slow, buf, i, ts, torn, sent>>
          /\ wave' \in Nat /\ wave =< wave' /\ Len(fifo') \in Nat
          /\ \A p \in 1 .. Len(fifo) : p \in 1 .. Len(fifo') /\ fifo'[p] = fifo[p]
          /\ \/ fifo' = fifo
             \/ /\ Len(fifo') = Len(fifo) + 1
                /\ \/ WaveBegin /\ fifo'[Len(fifo')] = Word(wave + 1, 1)
                   \/ WaveWord /\ fifo'[Len(fifo')] = Word(wave, pos + 1)
      BY <1>2, ArtixStep
    <2>2. latched' = wave' /\ (WaveBegin => wave + 1 \in 0 .. MaxWaves /\ wave' = wave + 1)
                           /\ (WaveWord => wave' = wave)
      BY <1>0, <1>2 DEF WaveBegin, WaveWord, StampInv
    <2>3. \A p \in 1 .. Len(fifo) : fifo'[p][1] =< wave'
      <3>1. ASSUME NEW p \in 1 .. Len(fifo) PROVE fifo'[p][1] =< wave'
        <4>1. fifo'[p] = fifo[p] /\ fifo[p][1] =< wave /\ fifo[p][1] \in Nat
          BY <1>1, <2>1, <3>1 DEF StampInv
        <4> QED  BY <1>0, <2>1, <4>1
      <3> QED  BY <3>1
    <2>4. fifo' # fifo => fifo'[Len(fifo')][1] =< wave'
      <3>1. WaveBegin => Word(wave + 1, 1)[1] = wave'
        BY <2>2, WordIs
      <3>2. WaveWord => Word(wave, pos + 1)[1] = wave'
        BY <1>0, <2>2, WordIs
      <3> QED  BY <2>1, <3>1, <3>2
    <2>5. \A p \in 1 .. Len(fifo') : fifo'[p][1] =< wave'
      BY <1>0, <2>1, <2>3, <2>4
    <2>6. \A p \in 1 .. WaveLen : buf[p][1] =< wave'
      BY <1>0, <1>1, <2>1 DEF StampInv
    <2>7. ts.ns =< wave' /\ ts.s =< wave'
      BY <1>0, <1>1, <2>1 DEF StampInv
    <2> QED  BY <2>1, <2>2, <2>5, <2>6, <2>7 DEF StampInv
  <1>3. CASE Poll \/ FifoRelease \/ SendSet
    <2>1. UNCHANGED <<fifo, wave, latched, buf, ts>> /\ pc \notin {"read", "ts1"}
      BY <1>3 DEF Poll, FifoRelease, SendSet, artix
    <2> QED  BY <2>1 DEF StampInv
  <1>4. CASE PollDelay
    <2>1. UNCHANGED <<fifo, wave, latched, buf, ts>> /\ pc = "delay"
      BY <1>4 DEF PollDelay, artix
    <2> QED  BY <2>1 DEF StampInv
  <1>5. CASE ReadWord
    <2>1. /\ UNCHANGED <<wave, latched, ts, pc>> /\ pc = "read" /\ i < WaveLen
          /\ buf' = [buf EXCEPT ![i + 1] = IF fifo = <<>> THEN Word(0, 0) ELSE Head(fifo)]
          /\ fifo' = IF fifo = <<>> THEN fifo ELSE Tail(fifo)
      BY <1>5 DEF ReadWord, artix
    <2>2. \A p \in 1 .. Len(fifo') : fifo'[p][1] =< wave
      <3>1. CASE fifo = <<>>
        BY <2>1, <3>1 DEF StampInv
      <3>2. CASE fifo # <<>>
        <4>1. Len(fifo') = Len(fifo) - 1 /\ \A p \in 1 .. Len(fifo') : fifo'[p] = fifo[p + 1]
          BY <1>0, <2>1, <3>2
        <4>2. \A p \in 1 .. Len(fifo') : p + 1 \in 1 .. Len(fifo)
          BY <1>0, <4>1
        <4> QED  BY <4>1, <4>2 DEF StampInv
      <3> QED  BY <3>1, <3>2
    <2>3. (IF fifo = <<>> THEN Word(0, 0) ELSE Head(fifo))[1] =< wave
      <3>1. Word(0, 0)[1] = 0
        BY WordIs
      <3>2. fifo # <<>> => Head(fifo) = fifo[1] /\ 1 \in 1 .. Len(fifo)
        BY <1>0
      <3> QED  BY <1>0, <3>1, <3>2 DEF StampInv
    <2>4. \A p \in 1 .. WaveLen : buf'[p] = IF p = i + 1 THEN IF fifo = <<>> THEN Word(0, 0) ELSE Head(fifo)
                                             ELSE buf[p]
      BY <1>0, <2>1
    <2>5. \A p \in 1 .. WaveLen : buf'[p][1] =< wave
      BY <2>3, <2>4 DEF StampInv
    <2> QED  BY <2>1, <2>2, <2>5 DEF StampInv
  <1>6. CASE ReadTs0
    <2>1. UNCHANGED <<fifo, wave, latched, buf>> /\ ts'.s = latched /\ ts'.ns = ts.ns /\ pc' = "ts1"
      BY <1>0, <1>6 DEF ReadTs0, artix
    <2> QED  BY <1>0, <2>1 DEF StampInv
  <1>7. CASE ReadTs1
    <2>1. UNCHANGED <<fifo, wave, latched, buf>> /\ ts'.ns = latched /\ ts'.s = ts.s /\ pc = "ts1"
          /\ pc' = "reset"
      BY <1>0, <1>7 DEF ReadTs1, artix
    <2> QED  BY <1>0, <2>1 DEF StampInv
  <1>8. CASE FifoReset
    <2>1. UNCHANGED <<wave, latched, buf, ts>> /\ pc \notin {"read", "ts1"} /\ fifo' = <<>> /\ Len(fifo') = 0
      BY <1>8 DEF FifoReset, artix
    <2> QED  BY <2>1 DEF StampInv
  <1>9. CASE UNCHANGED vars
    BY <1>9 DEF vars, artix, reader, StampInv
  <1> QED  BY <1>2, <1>3, <1>4, <1>5, <1>6, <1>7, <1>8, <1>9 DEF Next, Artix, Push

\* Only SendSet adds to what was sent.
LEMMA SentStep ==
    ASSUME Types, [Next]_vars
    PROVE  \/ sent' = sent
           \/ /\ SendSet /\ Len(sent') = Len(sent) + 1 /\ Len(sent) \in Nat
              /\ sent'[Len(sent) + 1] = SetNow
              /\ \A k \in 1 .. Len(sent) : sent'[k] = sent[k]
  <1>1. CASE SendSet
    <2>1. sent \in Seq(SetOfMessages) /\ SetNow \in SetOfMessages
      BY TypeFacts DEF SetOfMessages, SetNow
    <2> QED  BY <1>1, <2>1 DEF SendSet
  <1>2. CASE ~SendSet
    BY <1>2 DEF Next, Artix, Push, WaveBegin, WaveWord, Poll, PollDelay, ReadWord, ReadTs0, ReadTs1,
                FifoReset, FifoRelease, vars, reader
  <1> QED  BY <1>1, <1>2

LEMMA WholeStep ==
    Types /\ ReadInv /\ StampInv /\ WholeWaveform /\ TimestampRecent /\ [Next]_vars
        => WholeWaveform' /\ TimestampRecent'
  <1> SUFFICES ASSUME Types, ReadInv, StampInv, WholeWaveform, TimestampRecent, [Next]_vars
               PROVE  WholeWaveform' /\ TimestampRecent'
    OBVIOUS
  <1>1. CASE sent' = sent
    BY <1>1 DEF WholeWaveform, TimestampRecent
  <1>2. CASE sent' # sent
    <2>1. /\ SendSet /\ Len(sent') = Len(sent) + 1 /\ Len(sent) \in Nat
          /\ sent'[Len(sent) + 1] = SetNow
          /\ \A k \in 1 .. Len(sent) : sent'[k] = sent[k]
      BY <1>2, SentStep
    <2>2. pc = "send"
      BY <2>1 DEF SendSet
    <2>3. ASSUME ~torn PROVE \E w \in 0 .. MaxWaves : buf = Whole(w)
      <3>1. PICK w \in 0 .. wave : buf = Whole(w)
        BY <2>2, <2>3 DEF ReadInv
      <3>2. w \in 0 .. MaxWaves
        BY Sizes, TypeFacts
      <3> QED  BY <3>1, <3>2
    <2>4. ts.s =< ts.ns /\ \A p \in 1 .. WaveLen : buf[p][1] =< ts.s
      BY <2>2 DEF StampInv
    <2>5. SetNow.words = buf /\ SetNow.s = ts.s /\ SetNow.ns = ts.ns /\ SetNow.torn = torn
      BY DEF SetNow
    <2>6. \A k \in 1 .. Len(sent') : k = Len(sent) + 1 \/ k \in 1 .. Len(sent)
      BY <2>1
    <2>7. WholeWaveform'
      BY <2>1, <2>3, <2>5, <2>6 DEF WholeWaveform
    <2>8. TimestampRecent'
      BY <2>1, <2>4, <2>5, <2>6 DEF TimestampRecent
    <2> QED  BY <2>7, <2>8
  <1> QED  BY <1>1, <1>2

LEMMA OrderStep == Types /\ FifoInv /\ ReadInv /\ StampInv /\ OrderInv /\ [Next]_vars => OrderInv'
  <1> SUFFICES ASSUME Types, FifoInv, ReadInv, StampInv, OrderInv, [Next]_vars PROVE OrderInv'
    OBVIOUS
  <1> USE Sizes
  <1>0. /\ fifo \in Seq(WordSet) /\ Len(fifo) \in Nat /\ wave \in Nat /\ wave \in 0 .. MaxWaves
        /\ pos \in Nat /\ i \in Nat /\ i =< WaveLen /\ wordcnt \in Nat /\ cut \in BOOLEAN
        /\ buf \in [1 .. WaveLen -> WordSet] /\ sent \in Seq(SetOfMessages) /\ 1 \in 1 .. WaveLen
    BY TypeFacts
  <1>1. buf[1][1] \in Nat /\ buf[1][1] =< wave
        /\ (\A k \in 1 .. Len(sent) : sent[k].words[1][1] \in Nat)
    <2>1. buf[1] \in WordSet /\ \A k \in 1 .. Len(sent) : sent[k].words[1] \in WordSet
      <3>1. \A k \in 1 .. Len(sent) : sent[k] \in SetOfMessages
        BY <1>0
      <3>2. \A m \in SetOfMessages : m.words[1] \in WordSet
        BY <1>0 DEF SetOfMessages
      <3> QED  BY <1>0, <3>1, <3>2
    <2> QED  BY <1>0, <2>1, WordWave DEF StampInv
  <1>2. CASE WaveBegin \/ WaveWord
    <2>1. /\ UNCHANGED <<rst, pc, wordcnt, slow, buf, i, ts, torn, sent>>
          /\ wave' \in Nat /\ wave =< wave' /\ Len(fifo') \in Nat /\ fifo' \in Seq(WordSet)
          /\ \A p \in 1 .. Len(fifo) : p \in 1 .. Len(fifo') /\ fifo'[p] = fifo[p]
          /\ ~cut' => ~cut
          /\ \/ fifo' = fifo
             \/ /\ Len(fifo') = Len(fifo) + 1
                /\ \/ WaveBegin /\ fifo'[Len(fifo')] = Word(wave + 1, 1)
                   \/ WaveWord /\ fifo'[Len(fifo')] = Word(wave, pos + 1)
      BY <1>2, ArtixStep
    <2>2. OlderThan(wave + 1)'
      BY <1>0, <1>1, <2>1 DEF OrderInv, OlderThan
    <2>3. ASSUME ~cut', pc \in {"send", "poll", "delay"}, fifo' # <<>>
          PROVE  buf[1][1] < fifo'[1][1] /\ \A k \in 1 .. Len(sent) : sent[k].words[1][1] < fifo'[1][1]
      <3>1. CASE fifo # <<>>
        <4>1. 1 \in 1 .. Len(fifo)
          BY <1>0, <3>1
        <4>2. fifo'[1] = fifo[1]
          BY <2>1, <4>1
        <4> QED  BY <2>1, <2>3, <3>1, <4>2 DEF OrderInv, OlderThan
      <3>2. CASE fifo = <<>>
        <4>1. Len(fifo) = 0 /\ pos = 0
          BY <1>0, <2>1, <2>3, <3>2 DEF FifoInv, FillInv
        <4>2. WaveBegin /\ wave + 1 \in 0 .. MaxWaves
          BY <1>0, <1>2, <4>1 DEF WaveWord, WaveBegin
        <4>3. fifo'[1] = Word(wave + 1, 1)
          BY <1>0, <2>1, <2>3, <3>2, <4>1, <4>2 DEF WaveWord
        <4>4. fifo'[1][1] = wave + 1
          BY <4>2, <4>3, WordIs
        <4> QED  BY <1>0, <1>1, <4>4 DEF OrderInv, OlderThan
      <3> QED  BY <3>1, <3>2
    <2>4. ASSUME ~cut', pc = "read", i = 0 PROVE fifo'[1] = fifo[1]
      <3>1. Len(fifo) >= WaveLen
        BY <1>0, <2>1, <2>4 DEF FifoInv, DrainInv
      <3>2. 1 \in 1 .. Len(fifo)
        BY <1>0, <3>1
      <3> QED  BY <2>1, <3>2
    <2>5. ASSUME ~cut', pc = "read", i = 0 PROVE OlderThan(fifo[1][1])'
      BY <2>1, <2>4, <2>5 DEF OrderInv, OlderThan
    <2>6. ASSUME ~cut', pc = "read", i > 0 PROVE OlderThan(buf[1][1])'
      BY <2>1, <2>6 DEF OrderInv, OlderThan
    <2>7. ASSUME ~torn, pc = "ts1" PROVE OlderThan(buf[1][1])'
      BY <2>1, <2>7 DEF OrderInv, OlderThan
    <2>8. ASSUME ~torn, pc \in {"reset", "release", "send"}, wordcnt # Thresh PROVE OlderThan(buf[1][1])'
      BY <2>1, <2>8 DEF OrderInv, OlderThan
    <2> QED  BY <2>1, <2>2, <2>3, <2>5, <2>6, <2>7, <2>8 DEF OrderInv, OlderThan
  <1>3. CASE Poll
    <2>1. UNCHANGED <<fifo, wave, buf, i, sent, cut, torn>> /\ pc = "poll" /\ pc' = "delay"
      BY <1>3 DEF Poll, artix
    <2> QED  BY <2>1 DEF OrderInv, OlderThan
  <1>4. CASE PollDelay
    <2>1. UNCHANGED <<fifo, wave, buf, sent, cut, wordcnt, torn>> /\ pc = "delay" /\ i' = 0
          /\ pc' = (CASE wordcnt < Thresh -> "poll" [] wordcnt = Thresh -> "reset" [] wordcnt > Thresh -> "read")
          /\ ~(pos > 0 /\ slow = wave)
      BY <1>4 DEF PollDelay, artix
    <2>2. pc' \in {"poll", "reset", "read"} /\ (pc' = "reset" => wordcnt = Thresh)
          /\ (pc' = "read" => wordcnt > Thresh)
      BY <1>0, <2>1
    <2>3. ASSUME ~cut, pc' = "read" PROVE OlderThan(fifo[1][1])'
      <3>1. Len(fifo) >= WaveLen
        BY <1>0, <2>1, <2>2, <2>3 DEF FifoInv, FillInv
      <3>2. fifo # <<>>
        BY <1>0, <3>1
      <3> QED  BY <2>1, <2>3, <3>2 DEF OrderInv, OlderThan
    <2>4. OlderThan(wave + 1)'
      BY <2>1 DEF OrderInv, OlderThan
    <2>5. ASSUME ~cut, fifo # <<>> PROVE buf'[1][1] < fifo'[1][1] /\ OlderThan(fifo[1][1])'
      BY <2>1, <2>5 DEF OrderInv, OlderThan
    <2>6. UNCHANGED <<cut, fifo>> /\ ~(i' > 0) /\ wordcnt' = wordcnt
      BY <2>1
    <2> QED  BY <2>2, <2>3, <2>4, <2>5, <2>6 DEF OrderInv
  <1>5. CASE ReadWord
    <2>1. /\ UNCHANGED <<wave, pc, cut, sent>> /\ pc = "read" /\ i' = i + 1 /\ i < WaveLen
          /\ buf' = [buf EXCEPT ![i + 1] = IF fifo = <<>> THEN Word(0, 0) ELSE Head(fifo)]
      BY <1>5 DEF ReadWord, artix
    <2>2. ASSUME ~cut PROVE OlderThan(buf[1][1])'
      <3>1. CASE i = 0
        <4>1. Len(fifo) >= WaveLen
          BY <1>0, <2>1, <2>2, <3>1 DEF FifoInv, DrainInv
        <4>2. fifo # <<>> /\ Head(fifo) = fifo[1]
          BY <1>0, <4>1
        <4>3. buf'[1] = fifo[1]
          BY <1>0, <2>1, <3>1, <4>2
        <4> QED  BY <2>1, <2>2, <3>1, <4>3 DEF OrderInv, OlderThan
      <3>2. CASE i > 0
        <4>1. buf'[1] = buf[1]
          BY <1>0, <2>1, <3>2
        <4> QED  BY <2>1, <2>2, <3>2, <4>1 DEF OrderInv, OlderThan
      <3> QED  BY <1>0, <3>1, <3>2
    <2>3. i' # 0
      BY <1>0, <2>1
    <2> QED  BY <2>1, <2>2, <2>3 DEF OrderInv, OlderThan
  <1>6. CASE ReadTs0
    <2>1. UNCHANGED <<wave, buf, sent, cut, torn>> /\ pc = "read" /\ pc' = "ts1" /\ i > 0
      BY <1>0, <1>6 DEF ReadTs0, artix
    <2>2. ~torn => ~cut
      BY <2>1 DEF ReadInv
    <2> QED  BY <2>1, <2>2 DEF OrderInv, OlderThan
  <1>7. CASE ReadTs1
    <2>1. UNCHANGED <<wave, buf, sent, cut, torn>> /\ pc = "ts1" /\ pc' = "reset"
      BY <1>7 DEF ReadTs1, artix
    <2> QED  BY <2>1 DEF OrderInv, OlderThan
  <1>8. CASE FifoReset
    <2>1. UNCHANGED <<wave, buf, sent, wordcnt, torn>> /\ pc = "reset" /\ pc' = "release"
      BY <1>8 DEF FifoReset, artix
    <2> QED  BY <2>1 DEF OrderInv, OlderThan
  <1>9. CASE FifoRelease
    <2>1. UNCHANGED <<fifo, wave, buf, sent, wordcnt, cut, torn>> /\ pc = "release" /\ pc' = "send"
      BY <1>9 DEF FifoRelease, artix
    <2>2. ~cut => fifo = <<>>
      BY <2>1 DEF FifoInv, FillInv
    <2> QED  BY <2>1, <2>2 DEF OrderInv, OlderThan
  <1>10. CASE SendSet
    <2>1. UNCHANGED <<fifo, wave, buf, cut>> /\ pc = "send" /\ pc' = "poll"
      BY <1>10 DEF SendSet, artix
    <2>2. /\ Len(sent') = Len(sent) + 1 /\ Len(sent) \in Nat
          /\ sent'[Len(sent) + 1] = SetNow
          /\ \A k \in 1 .. Len(sent) : sent'[k] = sent[k]
      <3>1. SetNow \in SetOfMessages
        BY TypeFacts DEF SetOfMessages, SetNow
      <3> QED  BY <1>0, <1>10, <3>1 DEF SendSet
    <2>3. \A k \in 1 .. Len(sent') : \/ sent'[k].words[1][1] = buf[1][1]
                                     \/ k \in 1 .. Len(sent) /\ sent'[k] = sent[k]
      BY <2>2 DEF SetNow
    <2>4. OlderThan(wave + 1)'
      BY <1>0, <1>1, <2>1, <2>3 DEF OrderInv, OlderThan
    <2>5. ASSUME ~cut, fifo # <<>> PROVE buf[1][1] < fifo[1][1] /\ OlderThan(fifo[1][1])'
      BY <2>1, <2>3, <2>5 DEF OrderInv, OlderThan
    <2> QED  BY <2>1, <2>4, <2>5 DEF OrderInv
  <1>11. CASE UNCHANGED vars
    BY <1>11 DEF vars, artix, reader, OrderInv, OlderThan
  <1> QED  BY <1>2, <1>3, <1>4, <1>5, <1>6, <1>7, <1>8, <1>9, <1>10, <1>11 DEF Next, Artix, Push

LEMMA AgainStep == Types /\ AgainInv /\ [Next]_vars => AgainInv'
  <1> SUFFICES ASSUME Types, AgainInv, [Next]_vars PROVE AgainInv'
    OBVIOUS
  <1>0. wordcnt \in Nat /\ Thresh \in Nat /\ sent \in Seq(SetOfMessages) /\ SetNow \in SetOfMessages
    BY TypeFacts, Sizes DEF SetOfMessages, SetNow
  <1>1. ASSUME UNCHANGED <<buf, ts, torn, sent>> PROVE Again <=> Again'
    BY <1>1 DEF Again, SetNow
  <1>2. CASE WaveBegin \/ WaveWord \/ UNCHANGED vars
    <2>1. UNCHANGED <<pc, wordcnt, buf, ts, torn, sent>>
      BY <1>2 DEF WaveBegin, WaveWord, vars, reader
    <2> QED  BY <1>1, <2>1 DEF AgainInv
  <1>3. CASE Poll
    <2>1. UNCHANGED <<buf, ts, torn, sent>> /\ pc = "poll" /\ pc' = "delay"
      BY <1>3 DEF Poll
    <2> QED  BY <1>1, <2>1 DEF AgainInv
  <1>4. CASE PollDelay
    <2>1. UNCHANGED <<buf, ts, torn, sent, wordcnt>> /\ pc = "delay"
          /\ pc' = (CASE wordcnt < Thresh -> "poll" [] wordcnt = Thresh -> "reset" [] wordcnt > Thresh -> "read")
      BY <1>4 DEF PollDelay
    <2>2. pc' \in {"poll", "reset", "read"} /\ (pc' = "read" => wordcnt # Thresh)
      BY <1>0, <2>1
    <2> QED  BY <1>1, <2>1, <2>2 DEF AgainInv
  <1>5. CASE ReadWord \/ ReadTs0
    <2>1. wordcnt' = wordcnt /\ pc = "read" /\ pc' \in {"read", "ts1"}
      BY <1>5 DEF ReadWord, ReadTs0
    <2> QED  BY <2>1 DEF AgainInv
  <1>6. CASE ReadTs1
    <2>1. wordcnt' = wordcnt /\ pc = "ts1" /\ pc' = "reset"
      BY <1>6 DEF ReadTs1
    <2> QED  BY <2>1 DEF AgainInv
  <1>7. CASE FifoReset \/ FifoRelease
    <2>1. UNCHANGED <<buf, ts, torn, sent, wordcnt>> /\ pc \in {"reset", "release"}
          /\ pc' \in {"release", "send"}
      BY <1>7 DEF FifoReset, FifoRelease
    <2> QED  BY <1>1, <2>1 DEF AgainInv
  <1>8. CASE SendSet
    <2>1. sent' = Append(sent, SetNow) /\ pc' = "poll" /\ UNCHANGED <<buf, ts, torn>>
      BY <1>8 DEF SendSet
    <2>2. PICK x \in SetOfMessages : x = SetNow
      BY <1>0
    <2>3. sent' # <<>> /\ sent'[Len(sent')] = x
      BY <1>0, <2>1, <2>2
    <2>4. SetNow' = SetNow
      BY <2>1 DEF SetNow
    <2> QED  BY <2>1, <2>2, <2>3, <2>4 DEF AgainInv, Again
  <1> QED  BY <1>2, <1>3, <1>4, <1>5, <1>6, <1>7, <1>8 DEF Next, Artix, Push

LEMMA SpecInv == Spec => []Inv
  <1>1. Inv /\ [Next]_vars => Inv'
    BY TypeStep, FifoStep, ReadStep, StampStep, OrderStep, AgainStep, WholeStep DEF Inv, Types
  <1> QED  BY <1>1, InitInv, PTL DEF Spec

-----------------------------------------------------------------------------
(* The results. *)

\* wvfmdata_push and the FIFO keep their variables in range; the FIFO never holds
\* more than its capacity, whatever the pace of the triggers.
THEOREM TypeCorrect == Spec => []TypeOK
  <1>1. Inv => TypeOK
    BY DEF Inv
  <1> QED  BY <1>1, SpecInv, PTL

\* wvfmdata_push: although the count it polls may be of a waveform that is still
\* coming, and although the FIFO may overflow, every set of messages it sends is one
\* whole waveform, except what is read after a reset that met a waveform coming and
\* before the next reset between two waveforms.
THEOREM WholeWaveformsSent == Spec => []WholeWaveform
  <1>1. Inv => WholeWaveform
    BY DEF Inv
  <1> QED  BY <1>1, SpecInv, PTL

\* wvfmdata_push: with the registers as pl_regs.rdl has them, the seconds it sends are
\* not older than the words sent with them and the nanoseconds not older than the
\* seconds, while triggers go on.
THEOREM TimestampsRecent == Spec => []TimestampRecent
  <1>1. Inv => TimestampRecent
    BY DEF Inv
  <1> QED  BY <1>1, SpecInv, PTL

\* wvfmdata_push: what it is about to send is newer than all that was sent, or, after
\* a count of exactly Thresh, the set sent last once more and unchanged.
THEOREM NewerEachTime == Spec => []SentInOrder
  <1>1. Inv => SentInOrder
    BY DEF Inv, OrderInv, OlderThan, AgainInv, Again, SentInOrder
  <1> QED  BY <1>1, SpecInv, PTL
=============================================================================
