----------------------------- MODULE WvfmReadout ----------------------------
(***************************************************************************)
(* The waveform readout: the thread wvfmdata_push of wvfmdata.c, the FIFO  *)
(* of artix_data_rdout.vhd that it drains, and the timestamp that          *)
(* evr_top.vhd latches when a waveform begins.                             *)
(*                                                                         *)
(* The Artix sends a waveform at every trigger, whatever the software is   *)
(* doing; psc_send may block for seconds on a slow client, so any number   *)
(* of triggers may come between two steps of the thread.  A word is known  *)
(* by its waveform and its place in it.  Waveform 0 stands for the zeros   *)
(* that the static buffers hold before anything was read.                  *)
(***************************************************************************)
EXTENDS Integers, Sequences

CONSTANTS
    WaveLen,        \* words in a waveform, and words that wvfmdata_push reads
    Thresh,         \* 8000: the word count that ends the polling loop
    Depth,          \* capacity of the FIFO
    MaxWaves        \* bound: waveforms that are ever sent

ASSUME SizeAssumption == /\ WaveLen \in Nat \ {0} /\ Thresh \in 1 .. WaveLen - 1
                         /\ Depth \in Nat /\ WaveLen =< Depth
                         /\ MaxWaves \in Nat

VARIABLES
    fifo,           \* the words in wvfm_fifo
    rst,            \* FIFO_RST_REG
    wave,           \* the waveforms begun so far
    pos,            \* words of waveform wave that have come (0: none is coming)
    latched,        \* the waveform whose start latched ts_s_lat and ts_ns_lat
    pc,             \* program counter of wvfmdata_push
    wordcnt,        \* its local wordcnt
    slow,           \* the waveform that was coming when the 100 ms delay began
    buf,            \* pulse_stats, eeprom, boow_adc and wvfm_adc, as the words read
    i,              \* how many of them have been read
    ts,             \* timestamp[2]: the waveform each half was latched for
    torn,           \* history: the words read come from a FIFO that was cut
    sent,           \* history: the sets of messages sent, newest last
    cut             \* history: the last FIFO reset met a waveform that was coming

artix == <<wave, pos, latched>>
reader == <<pc, wordcnt, slow, buf, i, ts, torn, sent>>
vars == <<fifo, rst, artix, reader, cut>>

Word(w, p) == <<w, p>>
Whole(w) == [p \in 1 .. WaveLen |-> Word(w, p)]

Init ==
    /\ fifo = <<>> /\ rst = 0
    /\ wave = 0 /\ pos = 0 /\ latched = 0
    /\ pc = "poll" /\ wordcnt = 0 /\ slow = 0
    /\ buf = Whole(0) /\ i = 0 /\ ts = [s |-> 0, ns |-> 0] /\ torn = FALSE
    /\ sent = <<>> /\ cut = FALSE

-----------------------------------------------------------------------------
(* The gateware. *)

\* The FIFO after a word is written: nothing is kept while reset or full.
Written(w) == IF rst = 1 \/ Len(fifo) >= Depth THEN fifo ELSE Append(fifo, w)

\* wvfm_enb rises: the timestamp is latched and the first word is written.
WaveBegin ==
    /\ pos = 0
    /\ wave < MaxWaves
    /\ wave' = wave + 1
    /\ latched' = wave + 1
    /\ pos' = IF WaveLen = 1 THEN 0 ELSE 1
    /\ fifo' = Written(Word(wave + 1, 1))
    /\ cut' = (cut \/ rst = 1)
    /\ UNCHANGED <<rst, reader>>

WaveWord ==
    /\ pos > 0
    /\ fifo' = Written(Word(wave, pos + 1))
    /\ pos' = IF pos + 1 = WaveLen THEN 0 ELSE pos + 1
    /\ UNCHANGED <<rst, wave, latched, reader, cut>>

-----------------------------------------------------------------------------
(* wvfmdata_push. *)

\* Mutant: the FIFO count register is read one too high.
PollHigh ==
    /\ pc = "poll"
    /\ wordcnt' = Len(fifo) + 1
    /\ slow' = IF pos > 0 THEN wave ELSE 0
    /\ pc' = "delay"
    /\ UNCHANGED <<fifo, rst, artix, buf, i, ts, torn, sent, cut>>

\* Xil_In32(FIFO_CNT_REG), then vTaskDelay(100 ms).
Poll ==
    /\ pc = "poll"
    /\ wordcnt' = Len(fifo)
    /\ slow' = IF pos > 0 THEN wave ELSE 0
    /\ pc' = "delay"
    /\ UNCHANGED <<fifo, rst, artix, buf, i, ts, torn, sent, cut>>

\* Mutant: the polling loop waits for exactly one waveform.
PollDelayExact ==
    /\ pc = "delay"
    /\ ~(pos > 0 /\ slow = wave)
    /\ pc' = IF wordcnt = WaveLen THEN "read" ELSE "poll"
    /\ i' = 0
    /\ UNCHANGED <<fifo, rst, artix, wordcnt, slow, buf, ts, torn, sent, cut>>

\* Mutant: the test after the loop leaves a margin.
PollDelayMargin ==
    /\ pc = "delay"
    /\ ~(pos > 0 /\ slow = wave)
    /\ pc' = IF wordcnt < Thresh THEN "poll" ELSE IF wordcnt =< Thresh + 1 THEN "reset" ELSE "read"
    /\ i' = 0
    /\ UNCHANGED <<fifo, rst, artix, wordcnt, slow, buf, ts, torn, sent, cut>>

\* The delay outlasts a waveform that was coming when it began.  Then the two
\* tests of wordcnt, the loop's and the one after it.
PollDelay ==
    /\ pc = "delay"
    /\ ~(pos > 0 /\ slow = wave)
    /\ pc' = CASE wordcnt < Thresh -> "poll"
               [] wordcnt = Thresh -> "reset"
               [] wordcnt > Thresh -> "read"
    /\ i' = 0
    /\ UNCHANGED <<fifo, rst, artix, wordcnt, slow, buf, ts, torn, sent, cut>>

\* Xil_In32(FIFO_DATA_REG): the word at the front; an empty FIFO gives anything.
ReadWord ==
    /\ pc = "read"
    /\ i < WaveLen
    /\ i' = i + 1
    /\ buf' = [buf EXCEPT ![i + 1] = IF fifo = <<>> THEN Word(0, 0) ELSE Head(fifo)]
    /\ fifo' = IF fifo = <<>> THEN fifo ELSE Tail(fifo)
    /\ torn' = cut
    /\ UNCHANGED <<rst, artix, pc, wordcnt, slow, ts, sent, cut>>

\* Mutant: the timestamp registers are read before the waveform.
ReadTs0Stale ==
    /\ pc = "read"
    /\ i = WaveLen
    /\ ts' = [ts EXCEPT !.s = @]
    /\ pc' = "ts1"
    /\ UNCHANGED <<fifo, rst, artix, wordcnt, slow, buf, i, torn, sent, cut>>

\* timestamp[0] = EVR_TS_NS_LAT_REG, after the last word.  That name stands for
\* 0x5C, where pl_regs.rdl has lat_ts_s: the seconds are read first.
ReadTs0 ==
    /\ pc = "read"
    /\ i = WaveLen
    /\ ts' = [ts EXCEPT !.s = latched]
    /\ pc' = "ts1"
    /\ UNCHANGED <<fifo, rst, artix, wordcnt, slow, buf, i, torn, sent, cut>>

\* timestamp[1] = EVR_TS_S_LAT_REG: 0x58, lat_ts_ns, the nanoseconds.
ReadTs1 ==
    /\ pc = "ts1"
    /\ ts' = [ts EXCEPT !.ns = latched]
    /\ pc' = "reset"
    /\ UNCHANGED <<fifo, rst, artix, wordcnt, slow, buf, i, torn, sent, cut>>

\* Mutant: the FIFO is not reset after the readout.
FifoResetSkipped ==
    /\ pc = "reset"
    /\ pc' = "release"
    /\ cut' = (pos > 0)
    /\ UNCHANGED <<fifo, rst, artix, wordcnt, slow, buf, i, ts, torn, sent>>

\* FIFO_RST_REG = 1 empties the FIFO and holds it empty for 1 ms.
FifoReset ==
    /\ pc = "reset"
    /\ rst' = 1
    /\ fifo' = <<>>
    /\ cut' = (pos > 0)
    /\ pc' = "release"
    /\ UNCHANGED <<artix, wordcnt, slow, buf, i, ts, torn, sent>>

FifoRelease ==
    /\ pc = "release"
    /\ rst' = 0
    /\ pc' = "send"
    /\ UNCHANGED <<fifo, artix, wordcnt, slow, buf, i, ts, torn, sent, cut>>

\* What the five messages hold, and whether their words come from a cut FIFO.
SetNow == [words |-> buf, s |-> ts.s, ns |-> ts.ns, torn |-> torn]

\* The five psc_send calls; only this thread writes the buffers.
SendSet ==
    /\ pc = "send"
    /\ sent' = Append(sent, SetNow)
    /\ pc' = "poll"
    /\ UNCHANGED <<fifo, rst, artix, wordcnt, slow, buf, i, ts, torn, cut>>

Artix == WaveBegin \/ WaveWord

Push == \/ Poll \/ PollDelay \/ ReadWord \/ ReadTs0 \/ ReadTs1
        \/ FifoReset \/ FifoRelease \/ SendSet

Next == Artix \/ Push

Spec == Init /\ [][Next]_vars

\* The Artix completes the waveform it has begun; wvfmdata_push is scheduled and
\* psc_send returns (PscServer).
FairSpec == Spec /\ WF_vars(WaveWord) /\ WF_vars(Push)

-----------------------------------------------------------------------------
(* Properties. *)

\* Every variable has its type, and the FIFO never exceeds its capacity.
TypeOK ==
    /\ fifo \in Seq((0 .. MaxWaves) \X (0 .. WaveLen)) /\ Len(fifo) =< Depth
    /\ rst \in {0, 1} /\ cut \in BOOLEAN /\ torn \in BOOLEAN
    /\ wave \in 0 .. MaxWaves /\ latched \in 0 .. MaxWaves /\ pos \in 0 .. WaveLen - 1
    /\ pc \in {"poll", "delay", "read", "ts1", "reset", "release", "send"}
    /\ wordcnt \in 0 .. Depth /\ slow \in 0 .. MaxWaves /\ i \in 0 .. WaveLen
    /\ buf \in [1 .. WaveLen -> (0 .. MaxWaves) \X (0 .. WaveLen)]
    /\ ts \in [s : 0 .. MaxWaves, ns : 0 .. MaxWaves]

\* Every set of messages that wvfmdata_push sends holds one waveform, complete and
\* in place, however many waveforms have piled up in the FIFO or overflowed it.  A
\* FIFO reset that meets a waveform that is coming spoils what is read next and no
\* more: the first reset between two waveforms puts the readout in step again.
WholeWaveform ==
    \A k \in 1 .. Len(sent) :
        ~sent[k].torn => \E w \in 0 .. MaxWaves : sent[k].words = Whole(w)

\* The two halves of the timestamp are read after the words, one after the other,
\* while triggers go on: the seconds are of the waveform's trigger or a later one,
\* the nanoseconds of the seconds' trigger or a later one.  So the pair may be torn,
\* but it is never a whole second too early.
TimestampRecent ==
    \A k \in 1 .. Len(sent) : /\ sent[k].s =< sent[k].ns
                              /\ \A p \in 1 .. WaveLen : sent[k].words[p][1] =< sent[k].s

\* Waveforms are sent in the order of their triggers, each one once, unless the word
\* count was exactly Thresh: that count ends the polling loop and fails the test
\* after it, and what is sent is then the set before it again, timestamp included
\* (zeros if there is none), never a mixture of two.
SentInOrder ==
    pc = "send" =>
        /\ wordcnt # Thresh /\ ~torn =>
              \A k \in 1 .. Len(sent) : sent[k].words[1][1] < buf[1][1]
        /\ wordcnt = Thresh =>
              IF sent = <<>> THEN buf = Whole(0) ELSE SetNow = sent[Len(sent)]

\* A FIFO with enough words is always emptied again: no state of the FIFO stops
\* the readout.
FifoDrained == Len(fifo) >= Thresh ~> Len(fifo) < Thresh
=============================================================================
