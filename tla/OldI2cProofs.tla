---------------------------- MODULE OldI2cProofs ----------------------------
(***************************************************************************)
(* Proofs about OldI2c, for any number of SFP slots and of LMK registers,  *)
(* any number of menu commands, bursts, unanswered transfers and power-ups *)
(* (up to the first selection that a multiplexer does not answer, where    *)
(* the properties say so).                                                 *)
(***************************************************************************)
EXTENDS OldI2c, SequenceTheorems, TLAPS

-----------------------------------------------------------------------------
(* What the threads' programs are made of. *)

Ports(m) == IF m = 0 THEN {"none", "eeprom"} \cup {Sfp(n) : n \in 0 .. SfpSlots - 1}
            ELSE {"none", "dfe", "afe", "ltc2991", "ltc2977", "lmk", "si5347"}

\* The multiplexer behind which address a answers: no address is behind both.
MuxOf(a) == IF a \in {"50", "51"} THEN 0 ELSE 1

Pages == Nat
Addresses == {"48", "49", "4A", "4B", "50", "51", "5A", "5C", "6C"}
Whats == {"read", "reg", "page", "ptr", "set", "config"}
         \X ({"ip", "mask", "gw", "mac", "dump", "temp", "voltage", "stats"} \cup Nat)

Selects(m) == {Sel(m, p) : p \in Ports(m)}
Keeps == {Keep(q) : q \in Pages}
Xfers == {o \in [op : {"tx", "rx"}, addr : Addresses, dev : Ports(0) \cup Ports(1), what : Whats] :
             /\ o.dev \in Ports(MuxOf(o.addr)) \ {"none"}
             /\ o.addr \in Answering(MuxOf(o.addr), o.dev)}
Ops == Selects(0) \cup Selects(1) \cup Keeps \cup Xfers

PageTx(q) == Tx("6C", "si5347", <<"page", q>>)
RegTx(q) == Tx("6C", "si5347", <<"reg", q>>)
PtrTx(f) == Tx("50", "eeprom", Ptr(f))
SetTx(f) == Tx("50", "eeprom", <<"set", f>>)
FieldRx(f) == Rx("50", "eeprom", f)

MainOps == {o \in Ops :
    /\ o \in Selects(0) => o = Sel(0, "eeprom")
    /\ o \in Xfers /\ o.op = "tx" => o.what[1] # "set"
    /\ o \in Xfers /\ o.op = "tx" /\ o.dev = "si5347" => \E q \in Pages : o \in {PageTx(q), RegTx(q)}
    /\ o \in Xfers /\ o.op = "rx" => o.dev = "eeprom" /\ (o.what[2] \in Fields => o = FieldRx(o.what[2]))}
MenuOps == {Sel(0, "eeprom"), PtrTx("ip"), FieldRx("dump")} \cup {SetTx(f) : f \in Fields}
StatusOps == {o \in Ops \ Keeps : o \in Xfers =>
    /\ o.dev \notin {"eeprom", "si5347"}
    /\ IF o.op = "tx" THEN o.what[1] # "set" ELSE o.what[2] \notin Fields}

-----------------------------------------------------------------------------
(* What makes a program right.  Each of these is about the operations that *)
(* are left, and the state they start from.                                *)

\* Before position i of s, o is there and nothing of B comes after it; nothing of B is there.
Last(s, i, o, B) == \E j \in 1 .. i - 1 : s[j] = o /\ \A k \in j + 1 .. i - 1 : s[k] \notin B
Free(s, i, B) == \A k \in 1 .. i - 1 : s[k] \notin B

\* At position i of s, multiplexer m has port p selected, if x is how the multiplexers are now.
PortAt(s, i, m, p, x) ==
    Last(s, i, Sel(m, p), Selects(m)) \/ (x[m] = p /\ Free(s, i, Selects(m)))

\* Every transfer comes when the multiplexer of its address selects its device.
Aimed(s, x) ==
    \A i \in 1 .. Len(s) : s[i] \in Xfers => PortAt(s, i, MuxOf(s[i].addr), s[i].dev, x)

\* The same, from whatever the multiplexers are before.
Selected(s) ==
    \A i \in 1 .. Len(s) : s[i] \in Xfers =>
        Last(s, i, Sel(MuxOf(s[i].addr), s[i].dev), Selects(MuxOf(s[i].addr)))

\* What relies on a page comes right after something that puts or leaves the Si5347 there.
OnPage(o, q) == o = Keep(q) \/ o = RegTx(q)
Paged(s, page) ==
    \A i \in 1 .. Len(s), q \in Pages : OnPage(s[i], q) =>
        IF i = 1 THEN page = q ELSE OnPage(s[i - 1], q) \/ s[i - 1] = PageTx(q)

\* A field is read right after the EEPROM's pointer was set to it.
Pointed(s, at) ==
    \A i \in 1 .. Len(s), f \in Fields : s[i] = FieldRx(f) =>
        IF i = 1 THEN at = f ELSE s[i - 1] = PtrTx(f)

Has(s, o) == \E i \in 1 .. Len(s) : s[i] = o

-----------------------------------------------------------------------------
(* The inductive invariant. *)

Threads == {"main", "menu", "status"}

\* What holds whether or not a multiplexer answers.
BaseInv ==
    /\ TypeOK
    /\ mux = [m \in {0, 1} |-> mux[m]] /\ prog = [t \in Threads |-> prog[t]]
    /\ eeprom = [f \in Fields |-> eeprom[f]]
    /\ nacks \in Nat /\ (deaf => nacks > 0)

BusInv ==
    /\ mux = [m \in {0, 1} |-> mux[m]] /\ mux[0] \in Ports(0) /\ mux[1] \in Ports(1)
    /\ prog \in [Threads -> Seq(Ops)]
    /\ nacks \in Nat

\* main is alone on the bus: each transfer meets its device.
MainInv ==
    /\ prog["main"] # <<>> => status = "off"
    /\ prog["main"] \in Seq(MainOps) /\ Aimed(prog["main"], mux)
    /\ nacks = 0 => Paged(prog["main"], sipage) /\ Pointed(prog["main"], ptr)

\* So is the burst, which leaves the first multiplexer closed.
StatusInv ==
    /\ prog["status"] # <<>> => status = "burst"
    /\ prog["status"] \in Seq(StatusOps) /\ Aimed(prog["status"], mux)
    /\ IF status = "burst" THEN PortAt(prog["status"], Len(prog["status"]) + 1, 0, "none", mux)
       ELSE mux[0] \in {"none", "eeprom"}

\* A setting is written right after the EEPROM was selected for it.
Opened(s) == \A i \in 2 .. Len(s), f \in Fields : s[i] = SetTx(f) => s[i - 1] = Sel(0, "eeprom")

\* The setting that comes next: the EEPROM is selected for it, or it is given up for lost.
NextSet(s) == \A f \in Fields : s # <<>> /\ s[1] = SetTx(f) =>
    f \in lost \/ (status # "burst" /\ mux[0] = "eeprom" /\ torn = FALSE)

\* The setting whose selection is torn is given up for lost.
TornSet(s) == s # <<>> /\ (\A f \in Fields : Len(s) > 1 /\ s[2] = SetTx(f) => f \in lost)

\* What the menu thread still has to write is not yet stored, the rest is, or it is lost.
MenuInv ==
    /\ prog["menu"] # <<>> => status # "off"
    /\ prog["menu"] \in Seq(MenuOps) /\ Opened(prog["menu"])
    /\ NextSet(prog["menu"]) /\ (torn = FALSE \/ TornSet(prog["menu"]))
    /\ prog["menu"] # <<>> /\ prog["menu"][Len(prog["menu"])] = SetTx("gw") =>
          \A f \in Fields : eeprom[f] = <<f, "new">> \/ Has(prog["menu"], SetTx(f)) \/ f \in lost

\* What main_thread still has to read is not yet in the interface's settings, the rest is.
NetInv ==
    /\ eeprom = [f \in Fields |-> eeprom[f]] /\ \A f \in Fields : eeprom[f] \in {<<f, "old">>, <<f, "new">>}
    /\ stored = [f \in Fields |-> stored[f]] /\ netif = [f \in Fields |-> netif[f]]
    /\ status = "off" => eeprom = stored
    /\ nacks = 0 => \A f \in Fields : netif[f] = stored[f] \/ Has(prog["main"], FieldRx(f))

HistoryInv ==
    /\ stray = FALSE
    /\ misplaced \in BOOLEAN /\ (misplaced => nacks > 0)

IInv == BusInv /\ MainInv /\ StatusInv /\ MenuInv /\ NetInv /\ HistoryInv

\* The multiplexers have always answered, or only the type is left of it all.
Inv == BaseInv /\ (deaf \/ IInv)

-----------------------------------------------------------------------------
(* The board. *)

LEMMA SfpNames ==
    \A n \in 0 .. 5 : Sfp(n) \in {"sfp0", "sfp1", "sfp2", "sfp3", "sfp4", "sfp5"}
  BY DEF Sfp

\* Behind the first multiplexer are the EEPROM and the SFPs, behind the second the others.
LEMMA FirstAnswers ==
    ASSUME NEW p \in Ports(0)
    PROVE  /\ Answering(0, p) \subseteq {"50", "51"}
           /\ p = "none" => Answering(0, p) = {}
           /\ p = "eeprom" => Answering(0, p) = {"50"}
  <1>1. CASE p = "none"
    <2>1. \A n \in 0 .. SfpSlots - 1 : p # Sfp(n)
      BY <1>1, SfpNames, I2cAssumption
    <2> QED
      BY <1>1, <2>1 DEF Answering
  <1>2. CASE p = "eeprom"
    <2>1. \A n \in 0 .. SfpSlots - 1 : p # Sfp(n)
      BY <1>2, SfpNames, I2cAssumption
    <2>2. Answering(0, p) = {"50"}
      BY <1>2, <2>1 DEF Answering
    <2> QED
      BY <1>2, <2>2
  <1>3. CASE p \in {Sfp(n) : n \in 0 .. SfpSlots - 1}
    <2>1. p \in {"sfp0", "sfp1", "sfp2", "sfp3", "sfp4", "sfp5"}
      BY <1>3, SfpNames, I2cAssumption
    <2> DEFINE S == {Sfp(n) : n \in 0 .. SfpSlots - 1}
    <2>2. p \in S
      BY <1>3
    <2>3. Answering(0, p) = IF p \in S THEN {"50", "51"} ELSE {}
      <3> HIDE DEF S
      <3> QED
        BY <2>1, <2>2 DEF Answering, S
    <2> QED
      BY <2>1, <2>2, <2>3
  <1> QED
    BY <1>1, <1>2, <1>3 DEF Ports

LEMMA SecondAnswers ==
    ASSUME NEW p \in Ports(1)
    PROVE  Answering(1, p) \cap {"50", "51"} = {}
  BY DEF Ports, Answering

\* A transfer whose device is selected is heard by this device alone.
LEMMA HeardByDev ==
    ASSUME BusInv, NEW o \in Xfers, mux[MuxOf(o.addr)] = o.dev
    PROVE  Hearing(o.addr) = {o.dev}
  <1> DEFINE a == o.addr
  <1>0. o.dev \in Ports(MuxOf(a)) /\ a \in Answering(MuxOf(a), o.dev)
    BY DEF Xfers
  <1>1. mux[0] \in Ports(0) /\ mux[1] \in Ports(1)
    BY DEF BusInv
  <1>2. CASE a \in {"50", "51"}
    <2>1. MuxOf(a) = 0
      BY <1>2 DEF MuxOf
    <2>2. a \notin Answering(1, mux[1])
      BY <1>1, <1>2, SecondAnswers
    <2>3. a \in Answering(0, mux[0]) /\ mux[0] = o.dev
      BY <1>0, <2>1
    <2> HIDE DEF a
    <2>4. {n \in {0, 1} : a \in Answering(n, mux[n])} = {0}
      BY <2>2, <2>3
    <2> QED
      BY <2>3, <2>4 DEF Hearing, a
  <1>3. CASE a \notin {"50", "51"}
    <2>1. MuxOf(a) = 1
      BY <1>3 DEF MuxOf
    <2>2. a \notin Answering(0, mux[0])
      BY <1>1, <1>3, FirstAnswers
    <2>3. a \in Answering(1, mux[1]) /\ mux[1] = o.dev
      BY <1>0, <2>1
    <2> HIDE DEF a
    <2>4. {n \in {0, 1} : a \in Answering(n, mux[n])} = {1}
      BY <2>2, <2>3
    <2> QED
      BY <2>3, <2>4 DEF Hearing, a
  <1> QED
    BY <1>2, <1>3

\* The EEPROM's address is heard by the EEPROM or by nobody, outside a burst.
LEMMA HeardByEeprom ==
    ASSUME BusInv, mux[0] \in {"none", "eeprom"}
    PROVE  Hearing("50") = IF mux[0] = "eeprom" THEN {"eeprom"} ELSE {}
  <1>1. mux[0] \in Ports(0) /\ mux[1] \in Ports(1)
    BY DEF BusInv
  <1>2. "50" \notin Answering(1, mux[1])
    BY <1>1, SecondAnswers
  <1>3. CASE mux[0] = "eeprom"
    <2>1. "50" \in Answering(0, mux[0])
      BY <1>1, <1>3, FirstAnswers
    <2>2. {n \in {0, 1} : "50" \in Answering(n, mux[n])} = {0}
      BY <1>2, <2>1
    <2> QED
      BY <1>3, <2>2 DEF Hearing
  <1>4. CASE mux[0] = "none"
    <2>1. "50" \notin Answering(0, mux[0])
      BY <1>1, <1>4, FirstAnswers
    <2>2. {n \in {0, 1} : "50" \in Answering(n, mux[n])} = {}
      BY <1>2, <2>1
    <2> QED
      BY <1>4, <2>2 DEF Hearing
  <1> QED
    BY <1>3, <1>4

-----------------------------------------------------------------------------
(* One operation less. *)

LEMMA TailFacts ==
    ASSUME NEW S, NEW s \in Seq(S), s # <<>>
    PROVE  /\ Tail(s) \in Seq(S) /\ Len(s) \in Nat \ {0} /\ Len(Tail(s)) = Len(s) - 1
           /\ \A i \in 1 .. Len(s) - 1 : Tail(s)[i] = s[i + 1]
           /\ Head(s) = s[1] /\ s[1] \in S
  OBVIOUS

LEMMA LastTail ==
    ASSUME NEW s \in Seq(Ops), s # <<>>, NEW i \in 2 .. Len(s) + 1, NEW o, NEW B, Last(s, i, o, B)
    PROVE  Last(Tail(s), i - 1, o, B) \/ (s[1] = o /\ Free(Tail(s), i - 1, B))
  <1>1. Len(s) \in Nat \ {0} /\ \A k \in 1 .. Len(s) - 1 : Tail(s)[k] = s[k + 1]
    BY TailFacts
  <1>2. PICK j \in 1 .. i - 1 : s[j] = o /\ \A k \in j + 1 .. i - 1 : s[k] \notin B
    BY DEF Last
  <1>3. CASE j = 1
    <2>1. ASSUME NEW k \in 1 .. i - 2
          PROVE  Tail(s)[k] \notin B
      BY <1>1, <1>2, <1>3
    <2> QED
      BY <1>2, <1>3, <2>1 DEF Free
  <1>4. CASE j > 1
    <2>1. j - 1 \in 1 .. i - 2 /\ Tail(s)[j - 1] = o
      BY <1>1, <1>2, <1>4
    <2>2. ASSUME NEW k \in j .. i - 2
          PROVE  Tail(s)[k] \notin B
      BY <1>1, <1>2, <1>4
    <2> QED
      BY <2>1, <2>2 DEF Last
  <1> QED
    BY <1>3, <1>4

LEMMA FreeTail ==
    ASSUME NEW s \in Seq(Ops), s # <<>>, NEW i \in 2 .. Len(s) + 1, NEW B, Free(s, i, B)
    PROVE  s[1] \notin B /\ Free(Tail(s), i - 1, B)
  <1>1. Len(s) \in Nat \ {0} /\ \A k \in 1 .. Len(s) - 1 : Tail(s)[k] = s[k + 1]
    BY TailFacts
  <1>2. \A k \in 1 .. i - 1 : s[k] \notin B
    BY DEF Free
  <1>3. ASSUME NEW k \in 1 .. i - 2
        PROVE  Tail(s)[k] \notin B
    BY <1>1, <1>2
  <1> QED
    BY <1>1, <1>2, <1>3 DEF Free

\* How the multiplexers are after operation o.
After(o, x) == IF o.op = "sel" THEN [x EXCEPT ![o.mux] = o.port] ELSE x

LEMMA OpKinds ==
    ASSUME NEW o \in Ops
    PROVE  \/ \E m \in {0, 1} : o \in Selects(m) /\ o.op = "sel" /\ o.mux = m /\ o = Sel(m, o.port) /\ o.port \in Ports(m)
           \/ o \in Keeps /\ o.op = "keep"
           \/ o \in Xfers /\ o.op \in {"tx", "rx"}
  <1>1. CASE o \in Selects(0)
    BY <1>1 DEF Selects, Sel
  <1>2. CASE o \in Selects(1)
    BY <1>2 DEF Selects, Sel
  <1>3. CASE o \in Keeps
    BY <1>3 DEF Keeps, Keep
  <1>4. CASE o \in Xfers
    BY <1>4 DEF Xfers
  <1> QED
    BY <1>1, <1>2, <1>3, <1>4 DEF Ops

LEMMA PortTail ==
    ASSUME NEW x, x = [m \in {0, 1} |-> x[m]], NEW s \in Seq(Ops), s # <<>>,
           NEW i \in 2 .. Len(s) + 1, NEW m \in {0, 1}, NEW p \in Ports(m), PortAt(s, i, m, p, x)
    PROVE  PortAt(Tail(s), i - 1, m, p, After(s[1], x))
  <1> DEFINE o == s[1]
             y == After(o, x)
  <1>0. o \in Ops
    BY TailFacts
  <1>1. CASE o \in Selects(m)
    <2>1. Last(s, i, Sel(m, p), Selects(m))
      BY <1>1, FreeTail DEF PortAt
    <2>2. CASE o = Sel(m, p) /\ Free(Tail(s), i - 1, Selects(m))
      <3>1. o.op = "sel" /\ o.mux = m /\ o.port = p
        BY <2>2 DEF Sel
      <3>2. y[m] = p
        BY <3>1 DEF After
      <3> QED
        BY <2>2, <3>2 DEF PortAt
    <2> QED
      BY <2>1, <2>2, LastTail DEF PortAt
  <1>2. CASE o \notin Selects(m)
    <2>1. y[m] = x[m]
      <3>1. CASE o.op = "sel"
        <4>1. PICK n \in {0, 1} : o \in Selects(n) /\ o.mux = n
          BY <1>0, <3>1, OpKinds
        <4>2. n # m
          BY <1>2, <4>1
        <4> QED
          BY <3>1, <4>1, <4>2 DEF After
      <3>2. CASE o.op # "sel"
        BY <3>2 DEF After
      <3> QED
        BY <3>1, <3>2
    <2>2. o # Sel(m, p)
      BY <1>2 DEF Selects
    <2>3. CASE Last(s, i, Sel(m, p), Selects(m))
      BY <2>2, <2>3, LastTail DEF PortAt
    <2>4. CASE x[m] = p /\ Free(s, i, Selects(m))
      BY <2>1, <2>4, FreeTail DEF PortAt
    <2> QED
      BY <2>3, <2>4 DEF PortAt
  <1> QED
    BY <1>1, <1>2

\* The first operation, if it is a transfer, finds its device selected.
LEMMA AimedFirst ==
    ASSUME NEW x, NEW s \in Seq(Ops), s # <<>>, Aimed(s, x), s[1] \in Xfers
    PROVE  x[MuxOf(s[1].addr)] = s[1].dev
  <1>1. 1 \in 1 .. Len(s)
    BY TailFacts
  <1>2. PortAt(s, 1, MuxOf(s[1].addr), s[1].dev, x)
    BY <1>1 DEF Aimed
  <1>3. ~Last(s, 1, Sel(MuxOf(s[1].addr), s[1].dev), Selects(MuxOf(s[1].addr)))
    BY DEF Last
  <1> QED
    BY <1>2, <1>3 DEF PortAt

LEMMA AimedTail ==
    ASSUME NEW x, x = [m \in {0, 1} |-> x[m]], NEW s \in Seq(Ops), s # <<>>, Aimed(s, x)
    PROVE  Aimed(Tail(s), After(s[1], x))
  <1>1. /\ Len(s) \in Nat \ {0} /\ Len(Tail(s)) = Len(s) - 1
        /\ \A k \in 1 .. Len(s) - 1 : Tail(s)[k] = s[k + 1]
    BY TailFacts
  <1> DEFINE y == After(s[1], x)
  <1> SUFFICES ASSUME NEW i \in 1 .. Len(Tail(s)), Tail(s)[i] \in Xfers
               PROVE  PortAt(Tail(s), i, MuxOf(Tail(s)[i].addr), Tail(s)[i].dev, y)
    BY DEF Aimed
  <1>2. i + 1 \in 2 .. Len(s) + 1 /\ i + 1 \in 1 .. Len(s) /\ Tail(s)[i] = s[i + 1] /\ (i + 1) - 1 = i
    BY <1>1
  <1>3. PICK o \in Xfers : o = s[i + 1]
    BY <1>2
  <1>4. PICK m \in {0, 1} : m = MuxOf(o.addr)
    BY DEF MuxOf
  <1>5. o.dev \in Ports(m)
    BY <1>4 DEF Xfers
  <1>6. PortAt(s, i + 1, m, o.dev, x)
    BY <1>2, <1>3, <1>4 DEF Aimed
  <1>7. PortAt(Tail(s), (i + 1) - 1, m, o.dev, y)
    BY <1>2, <1>5, <1>6, PortTail
  <1> QED
    BY <1>2, <1>3, <1>4, <1>7


\* The page and the pointer go along with what is left to do.
LEMMA PagedTail ==
    ASSUME NEW s \in Seq(Ops), s # <<>>, NEW page, Paged(s, page), NEW next,
           \A q \in Pages : /\ s[1] = PageTx(q) => next = q
                            /\ OnPage(s[1], q) => next = page
    PROVE  Paged(Tail(s), next)
  <1>1. /\ Len(s) \in Nat \ {0} /\ Len(Tail(s)) = Len(s) - 1
        /\ \A k \in 1 .. Len(s) - 1 : Tail(s)[k] = s[k + 1]
    BY TailFacts
  <1> SUFFICES ASSUME NEW i \in 1 .. Len(Tail(s)), NEW q \in Pages, OnPage(Tail(s)[i], q)
               PROVE  IF i = 1 THEN next = q ELSE OnPage(Tail(s)[i - 1], q) \/ Tail(s)[i - 1] = PageTx(q)
    BY DEF Paged
  <1>2. i + 1 \in 1 .. Len(s) /\ i + 1 # 1 /\ Tail(s)[i] = s[i + 1] /\ (i + 1) - 1 = i
    BY <1>1
  <1>3. OnPage(s[i], q) \/ s[i] = PageTx(q)
    BY <1>2 DEF Paged
  <1>4. CASE i = 1
    <2>1. CASE s[1] = PageTx(q)
      BY <1>4, <2>1
    <2>2. CASE OnPage(s[1], q)
      <3>1. page = q
        BY <1>1, <2>2 DEF Paged
      <3> QED
        BY <1>4, <2>2, <3>1
    <2> QED
      BY <1>3, <1>4, <2>1, <2>2
  <1>5. CASE i # 1
    <2>1. Tail(s)[i - 1] = s[i]
      BY <1>1, <1>5
    <2> QED
      BY <1>3, <1>5, <2>1
  <1> QED
    BY <1>4, <1>5

LEMMA PointedTail ==
    ASSUME NEW s \in Seq(Ops), s # <<>>, NEW at, Pointed(s, at), NEW next,
           \A f \in Fields : s[1] = PtrTx(f) => next = f
    PROVE  Pointed(Tail(s), next)
  <1>1. /\ Len(s) \in Nat \ {0} /\ Len(Tail(s)) = Len(s) - 1
        /\ \A k \in 1 .. Len(s) - 1 : Tail(s)[k] = s[k + 1]
    BY TailFacts
  <1> SUFFICES ASSUME NEW i \in 1 .. Len(Tail(s)), NEW f \in Fields, Tail(s)[i] = FieldRx(f)
               PROVE  IF i = 1 THEN next = f ELSE Tail(s)[i - 1] = PtrTx(f)
    BY DEF Pointed
  <1>2. i + 1 \in 1 .. Len(s) /\ i + 1 # 1 /\ Tail(s)[i] = s[i + 1] /\ (i + 1) - 1 = i
    BY <1>1
  <1>3. s[i] = PtrTx(f)
    BY <1>2 DEF Pointed
  <1>4. CASE i = 1
    BY <1>3, <1>4
  <1>5. CASE i # 1
    <2>1. Tail(s)[i - 1] = s[i]
      BY <1>1, <1>5
    <2> QED
      BY <1>3, <1>5, <2>1
  <1> QED
    BY <1>4, <1>5

LEMMA HasTail ==
    ASSUME NEW S, NEW s \in Seq(S), s # <<>>, NEW o, Has(s, o)
    PROVE  s[1] = o \/ Has(Tail(s), o)
  <1>1. /\ Len(s) \in Nat \ {0} /\ Len(Tail(s)) = Len(s) - 1
        /\ \A k \in 1 .. Len(s) - 1 : Tail(s)[k] = s[k + 1]
    BY TailFacts
  <1>2. PICK i \in 1 .. Len(s) : s[i] = o
    BY DEF Has
  <1>3. CASE i = 1
    BY <1>2, <1>3
  <1>4. CASE i # 1
    <2>1. i - 1 \in 1 .. Len(Tail(s)) /\ Tail(s)[i - 1] = o
      BY <1>1, <1>2, <1>4
    <2> QED
      BY <2>1 DEF Has
  <1> QED
    BY <1>3, <1>4

-----------------------------------------------------------------------------
(* Programs put together. *)

\* A program that is right from whatever the bus is before.
Prog(s) ==
    /\ s \in Seq(Ops) /\ Selected(s)
    /\ \A i \in 1 .. Len(s), q \in Pages : OnPage(s[i], q) =>
          i > 1 /\ (OnPage(s[i - 1], q) \/ s[i - 1] = PageTx(q))
    /\ \A i \in 1 .. Len(s), f \in Fields : s[i] = FieldRx(f) => i > 1 /\ s[i - 1] = PtrTx(f)

\* At its end, multiplexer m is left at port p.
Leaves(s, m, p) == Last(s, Len(s) + 1, Sel(m, p), Selects(m))

LEMMA ProgStarts ==
    ASSUME NEW s, Prog(s), NEW x, NEW page, NEW at
    PROVE  Aimed(s, x) /\ Paged(s, page) /\ Pointed(s, at)
  <1>1. Aimed(s, x)
    BY DEF Prog, Selected, Aimed, PortAt
  <1>2. s \in Seq(Ops) /\ Len(s) \in Nat
    BY DEF Prog
  <1>3. Paged(s, page)
    BY <1>2 DEF Prog, Paged
  <1>4. Pointed(s, at)
    BY <1>2 DEF Prog, Pointed
  <1> QED
    BY <1>1, <1>3, <1>4

LEMMA ConcatFacts ==
    ASSUME NEW S, NEW s \in Seq(S), NEW t \in Seq(S)
    PROVE  /\ s \o t \in Seq(S) /\ Len(s) \in Nat /\ Len(t) \in Nat /\ Len(s \o t) = Len(s) + Len(t)
           /\ \A i \in 1 .. Len(s) : (s \o t)[i] = s[i]
           /\ \A i \in 1 .. Len(t) : (s \o t)[Len(s) + i] = t[i]
  OBVIOUS

\* The same operations stand before position i of c as before position d + i of s.
LEMMA LastShift ==
    ASSUME NEW c, NEW s, NEW d \in Nat, NEW i \in Nat, \A k \in 1 .. i - 1 : c[d + k] = s[k],
           NEW o, NEW B, Last(s, i, o, B)
    PROVE  Last(c, d + i, o, B)
  <1>1. PICK j \in 1 .. i - 1 : s[j] = o /\ \A k \in j + 1 .. i - 1 : s[k] \notin B
    BY DEF Last
  <1>2. d + j \in 1 .. (d + i) - 1 /\ c[d + j] = o
    BY <1>1
  <1>3. ASSUME NEW k \in (d + j) + 1 .. (d + i) - 1
        PROVE  c[k] \notin B
    <2>1. k - d \in 1 .. i - 1 /\ k - d \in j + 1 .. i - 1 /\ d + (k - d) = k
      OBVIOUS
    <2> QED
      BY <1>1, <2>1
  <1> QED
    BY <1>2, <1>3 DEF Last


\* One program after another.
LEMMA ProgConcat ==
    ASSUME NEW s, Prog(s), NEW t, Prog(t)
    PROVE  Prog(s \o t)
  <1> DEFINE c == s \o t
  <1>0. s \in Seq(Ops) /\ t \in Seq(Ops)
    BY DEF Prog
  <1>1. /\ c \in Seq(Ops) /\ Len(s) \in Nat /\ Len(t) \in Nat /\ Len(c) = Len(s) + Len(t)
        /\ \A i \in 1 .. Len(s) : c[i] = s[i]
        /\ \A i \in 1 .. Len(t) : c[Len(s) + i] = t[i]
    BY <1>0, ConcatFacts
  <1> HIDE DEF c
  <1>2. ASSUME NEW i \in 1 .. Len(c)
        PROVE  \/ i \in 1 .. Len(s) /\ \A k \in 1 .. i : c[k] = s[k]
               \/ \E j \in 1 .. Len(t) : i = Len(s) + j /\ \A k \in 1 .. j : c[Len(s) + k] = t[k]
    <2>1. CASE i =< Len(s)
      BY <1>1, <2>1
    <2>2. CASE i > Len(s)
      <3>1. i - Len(s) \in 1 .. Len(t) /\ i = Len(s) + (i - Len(s))
        BY <1>1, <2>2
      <3>2. \A k \in 1 .. i - Len(s) : c[Len(s) + k] = t[k]
        BY <1>1, <3>1
      <3> QED
        BY <3>1, <3>2
    <2> QED
      BY <1>1, <2>1, <2>2
  <1>3. ASSUME NEW i \in 1 .. Len(c), NEW o \in Xfers, c[i] = o
        PROVE  Last(c, i, Sel(MuxOf(o.addr), o.dev), Selects(MuxOf(o.addr)))
    <2>1. PICK e : e = Sel(MuxOf(o.addr), o.dev)
      OBVIOUS
    <2>2. PICK B : B = Selects(MuxOf(o.addr))
      OBVIOUS
    <2>3. CASE i \in 1 .. Len(s) /\ \A k \in 1 .. i : c[k] = s[k]
      <3>1. s[i] = o
        BY <1>3, <2>3
      <3>2. Last(s, i, e, B)
        BY <2>1, <2>2, <2>3, <3>1 DEF Prog, Selected
      <3>3. \A k \in 1 .. i - 1 : c[0 + k] = s[k]
        BY <2>3
      <3>4. Last(c, 0 + i, e, B)
        BY <3>2, <3>3, LastShift
      <3> QED
        BY <2>1, <2>2, <3>4
    <2>4. ASSUME NEW j \in 1 .. Len(t), i = Len(s) + j, \A k \in 1 .. j : c[Len(s) + k] = t[k]
          PROVE  Last(c, i, e, B)
      <3>1. t[j] = o
        BY <1>3, <2>4
      <3>2. Last(t, j, e, B)
        BY <2>1, <2>2, <3>1 DEF Prog, Selected
      <3>3. \A k \in 1 .. j - 1 : c[Len(s) + k] = t[k]
        BY <2>4
      <3>4. Len(s) \in Nat /\ j \in Nat
        BY <1>1
      <3>5. Last(c, Len(s) + j, e, B)
        BY <3>2, <3>3, <3>4, LastShift
      <3> QED
        BY <2>4, <3>5
    <2> QED
      BY <1>2, <2>1, <2>2, <2>3, <2>4
  <1>4. Selected(c)
    BY <1>3 DEF Selected
  <1>5. ASSUME NEW i \in 1 .. Len(c)
        PROVE  /\ \A q \in Pages : OnPage(c[i], q) => i > 1 /\ (OnPage(c[i - 1], q) \/ c[i - 1] = PageTx(q))
               /\ \A f \in Fields : c[i] = FieldRx(f) => i > 1 /\ c[i - 1] = PtrTx(f)
    <2>1. CASE i \in 1 .. Len(s) /\ \A k \in 1 .. i : c[k] = s[k]
      <3>1. c[i] = s[i] /\ (i > 1 => c[i - 1] = s[i - 1])
        BY <2>1
      <3> QED
        BY <2>1, <3>1 DEF Prog
    <2>2. ASSUME NEW j \in 1 .. Len(t), i = Len(s) + j, \A k \in 1 .. j : c[Len(s) + k] = t[k]
          PROVE  /\ \A q \in Pages : OnPage(c[i], q) => i > 1 /\ (OnPage(c[i - 1], q) \/ c[i - 1] = PageTx(q))
                 /\ \A f \in Fields : c[i] = FieldRx(f) => i > 1 /\ c[i - 1] = PtrTx(f)
      <3>1. c[i] = t[j] /\ (j > 1 => i > 1 /\ c[i - 1] = t[j - 1])
        <4>1. j > 1 => j - 1 \in 1 .. j /\ i - 1 = Len(s) + (j - 1) /\ i > 1
          BY <1>1, <2>2
        <4> QED
          BY <2>2, <4>1
      <3> QED
        BY <3>1 DEF Prog
    <2> QED
      BY <1>2, <2>1, <2>2
  <1> QED
    BY <1>1, <1>4, <1>5 DEF Prog, c

LEMMA LeavesConcat ==
    ASSUME NEW s \in Seq(Ops), NEW t \in Seq(Ops), NEW m, NEW p, Leaves(t, m, p)
    PROVE  Leaves(s \o t, m, p)
  <1> DEFINE c == s \o t
  <1>1. /\ Len(s) \in Nat /\ Len(t) \in Nat /\ Len(c) = Len(s) + Len(t)
        /\ \A i \in 1 .. Len(t) : c[Len(s) + i] = t[i]
    BY ConcatFacts
  <1> HIDE DEF c
  <1>2. Last(t, Len(t) + 1, Sel(m, p), Selects(m))
    BY DEF Leaves
  <1>3. \A k \in 1 .. (Len(t) + 1) - 1 : c[Len(s) + k] = t[k]
    BY <1>1
  <1>4. Len(t) + 1 \in Nat /\ Len(s) + (Len(t) + 1) = Len(c) + 1
    BY <1>1
  <1>5. Last(c, Len(s) + (Len(t) + 1), Sel(m, p), Selects(m))
    BY <1>1, <1>2, <1>3, <1>4, LastShift
  <1> QED
    BY <1>4, <1>5 DEF Leaves, c


LEMMA SelectAlone ==
    ASSUME NEW m \in {0, 1}, NEW p \in Ports(m)
    PROVE  Prog(<<Sel(m, p)>>) /\ Leaves(<<Sel(m, p)>>, m, p)
  <1>1. PICK e : e = Sel(m, p)
    OBVIOUS
  <1>2. e \in Selects(m) /\ e \in Ops
    BY <1>1 DEF Selects, Ops
  <1>3. e.op = "sel"
    BY <1>1 DEF Sel
  <1>4. e \notin Xfers /\ \A q : ~OnPage(e, q) /\ \A f : e # FieldRx(f)
    BY <1>3 DEF Xfers, OnPage, Keep, RegTx, Tx, FieldRx, Rx
  <1>5. <<e>> \in Seq(Ops) /\ Len(<<e>>) = 1 /\ <<e>>[1] = e
    BY <1>2
  <1>6. Prog(<<e>>)
    BY <1>4, <1>5 DEF Prog, Selected
  <1>7. 1 \in 1 .. (1 + 1) - 1 /\ \A k \in 1 + 1 .. (1 + 1) - 1 : <<e>>[k] \notin Selects(m)
    OBVIOUS
  <1>8. Last(<<e>>, 1 + 1, e, Selects(m))
    BY <1>5, <1>7 DEF Last
  <1> QED
    BY <1>1, <1>5, <1>6, <1>8 DEF Leaves

\* Transfers to a device that is selected, and entries that write nothing.
LEMMA Extended ==
    ASSUME NEW s, Prog(s), NEW m \in {0, 1}, NEW p, Leaves(s, m, p), NEW t \in Seq(Keeps \cup Xfers),
           \A i \in 1 .. Len(t) : t[i] \in Xfers => t[i].dev = p /\ MuxOf(t[i].addr) = m,
           \A i \in 1 .. Len(t), f \in Fields : t[i] # FieldRx(f),
           \A i \in 1 .. Len(t), q \in Pages : OnPage(t[i], q) =>
               IF i = 1 THEN OnPage(s[Len(s)], q) \/ s[Len(s)] = PageTx(q)
               ELSE OnPage(t[i - 1], q) \/ t[i - 1] = PageTx(q)
    PROVE  Prog(s \o t) /\ Leaves(s \o t, m, p)
  <1> DEFINE c == s \o t
  <1>0. s \in Seq(Ops) /\ t \in Seq(Ops)
    BY DEF Prog, Ops
  <1>1. /\ c \in Seq(Ops) /\ Len(s) \in Nat /\ Len(t) \in Nat /\ Len(c) = Len(s) + Len(t)
        /\ \A i \in 1 .. Len(s) : c[i] = s[i]
        /\ \A i \in 1 .. Len(t) : c[Len(s) + i] = t[i]
    BY <1>0, ConcatFacts
  <1>2. \A i \in 1 .. Len(t) : t[i] \notin Selects(m)
    <2>1. \A e \in Selects(m) : e.op = "sel"
      BY DEF Selects, Sel
    <2>2. \A e \in Keeps \cup Xfers : e.op # "sel"
      BY DEF Keeps, Keep, Xfers
    <2>3. \A i \in 1 .. Len(t) : t[i] \in Keeps \cup Xfers
      OBVIOUS
    <2> QED
      BY <2>1, <2>2, <2>3
  <1> HIDE DEF c
  <1>3. PICK j \in 1 .. Len(s) : s[j] = Sel(m, p) /\ \A k \in j + 1 .. Len(s) : s[k] \notin Selects(m)
    <2>1. \E j \in 1 .. (Len(s) + 1) - 1 :
             s[j] = Sel(m, p) /\ \A k \in j + 1 .. (Len(s) + 1) - 1 : s[k] \notin Selects(m)
      BY Zenon DEF Leaves, Last
    <2>2. (Len(s) + 1) - 1 = Len(s)
      BY <1>1
    <2> QED
      BY ONLY <2>1, <2>2, Zenon
  <1>4. ASSUME NEW k \in 1 .. Len(c), k > j
        PROVE  c[k] \notin Selects(m)
    <2>1. CASE k =< Len(s)
      BY <1>1, <1>3, <1>4, <2>1
    <2>2. CASE k > Len(s)
      <3>1. k - Len(s) \in 1 .. Len(t) /\ Len(s) + (k - Len(s)) = k
        BY <1>1, <2>2
      <3>2. c[k] = t[k - Len(s)]
        BY <1>1, <3>1
      <3> QED
        BY <1>2, <3>1, <3>2
    <2> QED
      BY <1>1, <2>1, <2>2
  <1>5. ASSUME NEW i \in Len(s) + 1 .. Len(c) + 1
        PROVE  Last(c, i, Sel(m, p), Selects(m))
    <2>1. j \in 1 .. i - 1 /\ c[j] = Sel(m, p)
      BY <1>1, <1>3
    <2>2. \A k \in j + 1 .. i - 1 : c[k] \notin Selects(m)
      BY <1>1, <1>4
    <2> QED
      BY <2>1, <2>2 DEF Last
  <1>6. Leaves(c, m, p)
    <2>1. Len(c) + 1 \in Len(s) + 1 .. Len(c) + 1
      BY <1>1
    <2> QED
      BY <1>5, <2>1 DEF Leaves
  <1>7. ASSUME NEW i \in 1 .. Len(c)
        PROVE  \/ i \in 1 .. Len(s) /\ \A k \in 1 .. i : c[k] = s[k]
               \/ \E n \in 1 .. Len(t) : i = Len(s) + n
    <2>1. CASE i =< Len(s)
      BY <1>1, <2>1
    <2>2. CASE i > Len(s)
      <3>1. i - Len(s) \in 1 .. Len(t) /\ i = Len(s) + (i - Len(s))
        BY <1>1, <2>2
      <3> QED
        BY <3>1
    <2> QED
      BY <1>1, <2>1, <2>2
  <1>8. ASSUME NEW i \in 1 .. Len(c), NEW o \in Xfers, c[i] = o
        PROVE  Last(c, i, Sel(MuxOf(o.addr), o.dev), Selects(MuxOf(o.addr)))
    <2>1. PICK e : e = Sel(MuxOf(o.addr), o.dev)
      OBVIOUS
    <2>2. PICK B : B = Selects(MuxOf(o.addr))
      OBVIOUS
    <2>3. CASE i \in 1 .. Len(s) /\ \A k \in 1 .. i : c[k] = s[k]
      <3>1. s[i] = o
        BY <1>8, <2>3
      <3>2. Last(s, i, e, B)
        BY <2>1, <2>2, <2>3, <3>1 DEF Prog, Selected
      <3>3. \A k \in 1 .. i - 1 : c[0 + k] = s[k]
        BY <2>3
      <3>4. 0 \in Nat /\ i \in Nat /\ 0 + i = i
        BY <1>1
      <3>5. Last(c, 0 + i, e, B)
        BY ONLY <3>2, <3>3, <3>4, LastShift
      <3> QED
        BY <2>1, <2>2, <3>4, <3>5
    <2>4. ASSUME NEW n \in 1 .. Len(t), i = Len(s) + n
          PROVE  Last(c, i, e, B)
      <3>1. t[n] = o
        BY <1>1, <1>8, <2>4
      <3>2. o.dev = p /\ MuxOf(o.addr) = m
        BY <3>1
      <3>3. i \in Len(s) + 1 .. Len(c) + 1
        BY <1>1, <2>4
      <3> QED
        BY <1>5, <2>1, <2>2, <3>2, <3>3
    <2> QED
      BY <1>7, <2>1, <2>2, <2>3, <2>4
  <1>9. ASSUME NEW i \in 1 .. Len(c)
        PROVE  /\ \A q \in Pages : OnPage(c[i], q) => i > 1 /\ (OnPage(c[i - 1], q) \/ c[i - 1] = PageTx(q))
               /\ \A f \in Fields : c[i] = FieldRx(f) => i > 1 /\ c[i - 1] = PtrTx(f)
    <2>1. CASE i \in 1 .. Len(s) /\ \A k \in 1 .. i : c[k] = s[k]
      <3>1. c[i] = s[i] /\ (i > 1 => c[i - 1] = s[i - 1])
        BY <2>1
      <3> QED
        BY <2>1, <3>1 DEF Prog
    <2>2. ASSUME NEW n \in 1 .. Len(t), i = Len(s) + n
          PROVE  /\ \A q \in Pages : OnPage(c[i], q) => i > 1 /\ (OnPage(c[i - 1], q) \/ c[i - 1] = PageTx(q))
                 /\ \A f \in Fields : c[i] = FieldRx(f) => i > 1 /\ c[i - 1] = PtrTx(f)
      <3>1. c[i] = t[n] /\ i > 1
        BY <1>1, <1>3, <2>2
      <3>2. c[i - 1] = IF n = 1 THEN s[Len(s)] ELSE t[n - 1]
        <4>1. CASE n = 1
          <5>1. Len(s) \in 1 .. Len(s) /\ i - 1 = Len(s)
            BY <1>1, <1>3, <2>2, <4>1
          <5>2. c[Len(s)] = s[Len(s)]
            BY <1>1, <5>1
          <5> QED
            BY <4>1, <5>1, <5>2
        <4>2. CASE n # 1
          <5>1. n - 1 \in 1 .. Len(t) /\ i - 1 = Len(s) + (n - 1)
            BY <1>1, <2>2, <4>2
          <5>2. c[Len(s) + (n - 1)] = t[n - 1]
            BY <1>1, <5>1
          <5> QED
            BY <4>2, <5>1, <5>2
        <4> QED
          BY <4>1, <4>2
      <3> QED
        BY <3>1, <3>2
    <2> QED
      BY <1>7, <2>1, <2>2
  <1>10. Selected(c)
    BY <1>8 DEF Selected
  <1> QED
    BY <1>1, <1>6, <1>9, <1>10 DEF Prog, c


-----------------------------------------------------------------------------
(* The programs. *)

LEMMA TransferOp ==
    ASSUME NEW m \in {0, 1}, NEW a \in Addresses, MuxOf(a) = m, NEW d \in Ports(m), d # "none",
           a \in Answering(m, d), NEW w \in Whats
    PROVE  Tx(a, d, w) \in Xfers /\ Tx(a, d, w).dev = d /\ MuxOf(Tx(a, d, w).addr) = m
  BY DEF Tx, Xfers

LEMMA ReceiveOp ==
    ASSUME NEW m \in {0, 1}, NEW a \in Addresses, MuxOf(a) = m, NEW d \in Ports(m), d # "none",
           a \in Answering(m, d), NEW f \in {"ip", "mask", "gw", "mac", "dump", "temp", "voltage", "stats"}
    PROVE  Rx(a, d, f) \in Xfers /\ Rx(a, d, f).dev = d /\ MuxOf(Rx(a, d, f).addr) = m
  <1>1. <<"read", f>> \in Whats
    BY DEF Whats
  <1> QED
    BY <1>1 DEF Rx, Xfers

\* Transfers to device d behind multiplexer m.
To(m, d) == {o \in Xfers : o.dev = d /\ MuxOf(o.addr) = m}

\* Devices without pages and without settings.
LEMMA PlainExtended ==
    ASSUME NEW s, Prog(s), NEW m \in {0, 1}, NEW p, p \notin {"eeprom", "si5347"}, Leaves(s, m, p),
           NEW t \in Seq(To(m, p))
    PROVE  Prog(s \o t) /\ Leaves(s \o t, m, p)
  <1>1. \A i \in 1 .. Len(t) : t[i] \in To(m, p)
    OBVIOUS
  <1>2. \A o \in To(m, p) : o \in Xfers /\ o.dev = p /\ MuxOf(o.addr) = m
    BY DEF To
  <1>3. \A o \in To(m, p) : \A f \in Fields : o # FieldRx(f)
    BY <1>2 DEF FieldRx, Rx
  <1>4. \A o \in To(m, p) : \A q \in Pages : ~OnPage(o, q)
    <2>1. SUFFICES ASSUME NEW o \in To(m, p), NEW q \in Pages PROVE o # Keep(q) /\ o # RegTx(q)
      BY DEF OnPage
    <2>2. o.op \in {"tx", "rx"} /\ o.dev # "si5347"
      BY <1>2 DEF Xfers
    <2>3. Keep(q).op = "keep" /\ RegTx(q).dev = "si5347"
      BY DEF Keep, RegTx, Tx
    <2> QED
      BY <2>2, <2>3
  <1>5. t \in Seq(Keeps \cup Xfers)
    BY DEF To
  <1>6. \A i \in 1 .. Len(t) : t[i] \in Xfers => t[i].dev = p /\ MuxOf(t[i].addr) = m
    BY <1>1, <1>2
  <1>7. \A i \in 1 .. Len(t), f \in Fields : t[i] # FieldRx(f)
    BY <1>1, <1>3
  <1>8. \A i \in 1 .. Len(t), q \in Pages : ~OnPage(t[i], q)
    BY <1>1, <1>4
  <1> QED
    BY <1>5, <1>6, <1>7, <1>8, Extended

\* What answers behind the second multiplexer.
LEMMA DevAnswers ==
    /\ Answering(1, "dfe") = {"48", "49", "4A", "4B"} /\ Answering(1, "afe") = {"48", "4A"}
    /\ Answering(1, "ltc2991") = {"48", "49", "4A"} /\ Answering(1, "ltc2977") = {"5C"}
    /\ Answering(1, "lmk") = {"5A"} /\ Answering(1, "si5347") = {"6C"}
  BY DEF Answering

LEMMA WriteLmkProg == Prog(WriteLmk) /\ WriteLmk \in Seq(MainOps)
  <1> DEFINE t == [n \in 1 .. LmkRegs |-> Tx("5A", "lmk", <<"reg", n>>)]
  <1>1. "lmk" \in Ports(1) /\ MuxOf("5A") = 1
    BY DEF Ports, MuxOf
  <1>2. \A n \in 1 .. LmkRegs : <<"reg", n>> \in Whats
    BY I2cAssumption DEF Whats
  <1>3. ASSUME NEW n \in 1 .. LmkRegs
        PROVE  Tx("5A", "lmk", <<"reg", n>>) \in To(1, "lmk")
    <2>1. PICK w \in Whats : w = <<"reg", n>>
      BY <1>2
    <2>2. "5A" \in Addresses /\ "5A" \in Answering(1, "lmk")
      BY DevAnswers DEF Addresses
    <2>3. Tx("5A", "lmk", w) \in To(1, "lmk")
      BY <1>1, <2>2, TransferOp DEF To
    <2> QED
      BY <2>1, <2>3
  <1>4. t \in Seq(To(1, "lmk"))
    BY <1>3, I2cAssumption
  <1>5. Prog(WriteLmk)
    BY <1>1, <1>4, SelectAlone, PlainExtended DEF WriteLmk
  <1>6. Sel(1, "lmk") \in MainOps
    <2>1. Sel(1, "lmk") \in Ops
      BY <1>1 DEF Ops, Selects
    <2>2. \A o \in Selects(0) : o.mux = 0
      BY DEF Selects, Sel
    <2>3. Sel(1, "lmk").mux = 1 /\ Sel(1, "lmk").op = "sel"
      BY DEF Sel
    <2>4. \A o \in Xfers : o.op # "sel"
      BY DEF Xfers
    <2> QED
      BY <2>1, <2>2, <2>3, <2>4 DEF MainOps
  <1>7. ASSUME NEW n \in 1 .. LmkRegs
        PROVE  Tx("5A", "lmk", <<"reg", n>>) \in MainOps
    <2>1. PICK o : o = Tx("5A", "lmk", <<"reg", n>>)
      OBVIOUS
    <2>2. o.op = "tx" /\ o.dev = "lmk" /\ o.what[1] = "reg"
      BY <2>1 DEF Tx
    <2>3. o \in Ops
      BY <1>3, <2>1 DEF To, Ops
    <2>4. o \notin Selects(0)
      BY <2>2 DEF Selects, Sel
    <2> QED
      BY <2>1, <2>2, <2>3, <2>4 DEF MainOps
  <1>8. t \in Seq(MainOps)
    BY <1>7, I2cAssumption
  <1>9. <<Sel(1, "lmk")>> \in Seq(MainOps)
    BY <1>6
  <1>10. <<Sel(1, "lmk")>> \o t \in Seq(MainOps)
    BY <1>8, <1>9, ConcatFacts
  <1> QED
    BY <1>5, <1>10 DEF WriteLmk


LEMMA TwoOps ==
    ASSUME NEW g, NEW e
    PROVE  <<g>> \o <<e>> = <<g, e>>
  <1>1. <<g>> \in Seq({g, e}) /\ <<e>> \in Seq({g, e}) /\ <<g, e>> \in Seq({g, e})
    OBVIOUS
  <1>2. /\ <<g>> \o <<e>> \in Seq({g, e}) /\ Len(<<g>> \o <<e>>) = 2
        /\ (<<g>> \o <<e>>)[1] = g /\ (<<g>> \o <<e>>)[1 + 1] = e
    BY <1>1, ConcatFacts
  <1>3. Len(<<g, e>>) = 2 /\ <<g, e>>[1] = g /\ <<g, e>>[2] = e
    OBVIOUS
  <1> DEFINE c == <<g>> \o <<e>>
             d == <<g, e>>
  <1>4. \A i \in 1 .. Len(c) : c[i] = d[i]
    BY <1>2, <1>3
  <1> QED
    BY <1>1, <1>2, <1>3, <1>4, SeqEqual

LEMMA SiOps ==
    ASSUME NEW q \in Pages
    PROVE  /\ PageTx(q) \in MainOps \cap To(1, "si5347") /\ RegTx(q) \in MainOps \cap To(1, "si5347")
           /\ Keep(q) \in MainOps \cap Keeps
           /\ \A r \in Pages : ~OnPage(PageTx(q), r) /\ (OnPage(RegTx(q), r) => r = q) /\ (OnPage(Keep(q), r) => r = q)
           /\ \A f \in Fields : FieldRx(f) \notin {PageTx(q), RegTx(q), Keep(q)}
  <1>1. "si5347" \in Ports(1) /\ MuxOf("6C") = 1 /\ "6C" \in Addresses /\ "6C" \in Answering(1, "si5347")
    BY DevAnswers DEF Ports, MuxOf, Addresses
  <1>2. <<"page", q>> \in Whats /\ <<"reg", q>> \in Whats
    BY DEF Whats, Pages
  <1>3. PageTx(q) \in To(1, "si5347") /\ RegTx(q) \in To(1, "si5347")
    <2>1. \A w \in Whats : Tx("6C", "si5347", w) \in To(1, "si5347")
      BY <1>1, TransferOp DEF To
    <2> QED
      BY <1>2, <2>1 DEF PageTx, RegTx
  <1>4. /\ PageTx(q).op = "tx" /\ PageTx(q).what[1] = "page"
        /\ RegTx(q).op = "tx" /\ RegTx(q).what[1] = "reg" /\ RegTx(q).what[2] = q
        /\ Keep(q).op = "keep" /\ Keep(q).what[2] = q
    BY DEF PageTx, RegTx, Tx, Keep
  <1>5. /\ \A o \in Selects(0) : o.op = "sel"
        /\ \A o \in Xfers : o.op \in {"tx", "rx"}
    BY DEF Selects, Sel, Xfers
  <1>6. PageTx(q) \in MainOps /\ RegTx(q) \in MainOps
    <2>1. PageTx(q) \in Ops /\ RegTx(q) \in Ops
      BY <1>3 DEF To, Ops
    <2> HIDE DEF PageTx, RegTx
    <2> QED
      BY <1>4, <1>5, <2>1 DEF MainOps
  <1>7. Keep(q) \in Keeps /\ Keep(q) \in MainOps
    <2>1. Keep(q) \in Keeps
      BY DEF Keeps
    <2> QED
      BY <1>4, <1>5, <2>1 DEF MainOps, Ops
  <1>8. ASSUME NEW r \in Pages
        PROVE  ~OnPage(PageTx(q), r) /\ (OnPage(RegTx(q), r) => r = q) /\ (OnPage(Keep(q), r) => r = q)
    <2>1. Keep(r).op = "keep" /\ Keep(r).what[2] = r /\ RegTx(r).op = "tx" /\ RegTx(r).what[1] = "reg" /\ RegTx(r).what[2] = r
      BY DEF RegTx, Tx, Keep
    <2> QED
      BY <1>4, <2>1 DEF OnPage
  <1>9. ASSUME NEW f \in Fields
        PROVE  FieldRx(f) \notin {PageTx(q), RegTx(q), Keep(q)}
    <2>1. FieldRx(f).op = "rx"
      BY DEF FieldRx, Rx
    <2> QED
      BY <1>4, <2>1
  <1> QED
    BY <1>3, <1>6, <1>7, <1>8, <1>9

LEMMA SelectOps == Sel(1, "si5347") \in MainOps /\ Sel(0, "eeprom") \in MainOps
  <1>1. "si5347" \in Ports(1) /\ "eeprom" \in Ports(0)
    BY DEF Ports
  <1>2. Sel(1, "si5347") \in Ops /\ Sel(0, "eeprom") \in Ops
    BY <1>1 DEF Ops, Selects
  <1>3. /\ Sel(1, "si5347").mux = 1 /\ Sel(1, "si5347").op = "sel" /\ Sel(0, "eeprom").op = "sel"
        /\ \A o \in Selects(0) : o.mux = 0
        /\ \A o \in Xfers : o.op # "sel"
    BY DEF Sel, Selects, Xfers
  <1> QED
    BY <1>2, <1>3 DEF MainOps

LEMMA WriteSi5347Prog == Prog(WriteSi5347) /\ WriteSi5347 \in Seq(MainOps)
  <1> DEFINE N == Len(SiPages)
             t == [k \in 1 .. 2 * N |->
                     LET n == (k + 1) \div 2
                     IN  IF k % 2 = 0 THEN Tx("6C", "si5347", <<"reg", SiPages[n]>>)
                         ELSE IF NewPage(n) THEN Tx("6C", "si5347", <<"page", SiPages[n]>>) ELSE Keep(SiPages[n])]
             b == <<Sel(1, "si5347"), PageTx(0)>>
  <1>0. N \in Nat /\ \A n \in 1 .. N : SiPages[n] \in Pages
    BY DEF SiPages, Pages
  <1>1. WriteSi5347 = b \o t
    BY DEF WriteSi5347, PageTx
  <1>2. \A k \in 1 .. 2 * N : t[k] = IF k % 2 = 0 THEN RegTx(SiPages[(k + 1) \div 2])
                                     ELSE IF NewPage((k + 1) \div 2) THEN PageTx(SiPages[(k + 1) \div 2])
                                     ELSE Keep(SiPages[(k + 1) \div 2])
    BY DEF RegTx, PageTx
  <1>3. \A k \in 1 .. 2 * N : (k + 1) \div 2 \in 1 .. N
    BY <1>0
  <1>4. t \in Seq(MainOps) /\ t \in Seq(Keeps \cup To(1, "si5347")) /\ Len(t) = 2 * N
    <2>1. \A k \in 1 .. 2 * N : t[k] \in MainOps /\ t[k] \in Keeps \cup To(1, "si5347")
      BY <1>0, <1>2, <1>3, SiOps
    <2>2. DOMAIN t = 1 .. 2 * N /\ 2 * N \in Nat /\ t = [k \in 1 .. 2 * N |-> t[k]]
      BY <1>0
    <2> HIDE DEF t
    <2>3. t \in [1 .. 2 * N -> MainOps] /\ t \in [1 .. 2 * N -> Keeps \cup To(1, "si5347")]
      BY <2>1, <2>2
    <2> QED
      BY <2>2, <2>3
  <1>5. \A n \in 1 .. N : ~NewPage(n) => SiPages[n] = IF n = 1 THEN 0 ELSE SiPages[n - 1]
    BY DEF NewPage
  <1> HIDE DEF t, N
  <1>6. Prog(b) /\ Leaves(b, 1, "si5347") /\ b[Len(b)] = PageTx(0) /\ b \in Seq(MainOps)
    <2>1. 0 \in Pages
      BY DEF Pages
    <2>2. "si5347" \in Ports(1)
      BY DEF Ports
    <2>3. Prog(<<Sel(1, "si5347")>>) /\ Leaves(<<Sel(1, "si5347")>>, 1, "si5347")
      BY <2>2, SelectAlone
    <2>4. PICK e : e = PageTx(0)
      OBVIOUS
    <2>5. /\ e \in Xfers /\ e.dev = "si5347" /\ MuxOf(e.addr) = 1 /\ \A q \in Pages : ~OnPage(e, q)
          /\ \A f \in Fields : e # FieldRx(f)
          /\ e \in MainOps
      BY <2>1, <2>4, SiOps DEF To
    <2>6. <<e>> \in Seq(Keeps \cup Xfers) /\ Len(<<e>>) = 1 /\ \A i \in 1 .. 1 : <<e>>[i] = e
      BY <2>5
    <2>7. Prog(<<Sel(1, "si5347")>> \o <<e>>) /\ Leaves(<<Sel(1, "si5347")>> \o <<e>>, 1, "si5347")
      BY <2>3, <2>5, <2>6, Extended
    <2>8. PICK g : g = Sel(1, "si5347")
      OBVIOUS
    <2>9. <<g>> \o <<e>> = <<g, e>>
      BY TwoOps
    <2>10. <<g, e>>[Len(<<g, e>>)] = e
      OBVIOUS
    <2>11. g \in MainOps
      BY <2>8, SelectOps
    <2>12. <<g, e>> \in Seq(MainOps)
      BY <2>5, <2>11
    <2> QED
      BY <2>4, <2>7, <2>8, <2>9, <2>10, <2>12
  <1> HIDE DEF b
  <1>7. ASSUME NEW i \in 1 .. 2 * N, NEW q \in Pages, OnPage(t[i], q)
        PROVE  IF i = 1 THEN OnPage(b[Len(b)], q) \/ b[Len(b)] = PageTx(q)
               ELSE OnPage(t[i - 1], q) \/ t[i - 1] = PageTx(q)
    <2>1. PICK n \in 1 .. N : n = (i + 1) \div 2
      BY <1>3
    <2>2. SiPages[n] \in Pages
      BY <1>0
    <2>3. CASE i % 2 = 0
      <3>1. i - 1 \in 1 .. 2 * N /\ (i - 1) % 2 # 0 /\ ((i - 1) + 1) \div 2 = n /\ i # 1
        BY <1>0, <2>1, <2>3
      <3>2. t[i] = RegTx(SiPages[n])
        BY <1>2, <2>1, <2>3
      <3>3. q = SiPages[n]
        BY <1>7, <2>2, <3>2, SiOps
      <3>4. t[i - 1] = PageTx(SiPages[n]) \/ t[i - 1] = Keep(SiPages[n])
        BY <1>2, <3>1
      <3> QED
        BY <3>1, <3>3, <3>4 DEF OnPage
    <2>4. CASE i % 2 # 0
      <3>1. t[i] = PageTx(SiPages[n]) \/ (~NewPage(n) /\ t[i] = Keep(SiPages[n]))
        BY <1>2, <2>1, <2>4
      <3>2. ~NewPage(n) /\ q = SiPages[n]
        BY <1>7, <2>2, <3>1, SiOps
      <3>3. CASE i = 1
        <4>1. n = 1
          BY <2>1, <3>3
        <4>2. q = 0
          BY <1>5, <3>2, <4>1
        <4> QED
          BY <1>6, <3>3, <4>2
      <3>4. CASE i # 1
        <4>1. i - 1 \in 1 .. 2 * N /\ (i - 1) % 2 = 0 /\ ((i - 1) + 1) \div 2 = n - 1 /\ n # 1
          BY <1>0, <2>1, <2>4, <3>4
        <4>2. t[i - 1] = RegTx(SiPages[n - 1])
          BY <1>2, <4>1
        <4>3. SiPages[n - 1] = q
          BY <1>5, <3>2, <4>1
        <4> QED
          BY <3>4, <4>2, <4>3 DEF OnPage
      <3> QED
        BY <3>3, <3>4
    <2> QED
      BY <2>3, <2>4
  <1>8. Prog(b \o t)
    <2>1. t \in Seq(Keeps \cup Xfers)
      BY <1>4 DEF To
    <2>2. \A i \in 1 .. Len(t) : t[i] \in Keeps \cup To(1, "si5347")
      BY <1>4
    <2>3. \A i \in 1 .. Len(t) : t[i] \in Xfers => t[i].dev = "si5347" /\ MuxOf(t[i].addr) = 1
      <3>1. \A o \in Keeps : o \notin Xfers
        BY DEF Keeps, Keep, Xfers
      <3> QED
        BY <2>2, <3>1 DEF To
    <2>4. \A i \in 1 .. Len(t), f \in Fields : t[i] # FieldRx(f)
      BY <1>0, <1>2, <1>3, <1>4, SiOps
    <2>5. \A i \in 1 .. Len(t), q \in Pages : OnPage(t[i], q) =>
               IF i = 1 THEN OnPage(b[Len(b)], q) \/ b[Len(b)] = PageTx(q)
               ELSE OnPage(t[i - 1], q) \/ t[i - 1] = PageTx(q)
      BY <1>4, <1>7
    <2> QED
      BY <1>6, <2>1, <2>3, <2>4, <2>5, Extended
  <1> QED
    BY <1>1, <1>4, <1>6, <1>8, ConcatFacts


LEMMA EepromOps ==
    ASSUME NEW f \in Fields \cup {"mac", "dump"}
    PROVE  /\ PtrTx(f) \in To(0, "eeprom") /\ FieldRx(f) \in To(0, "eeprom") /\ SetTx(f) \in To(0, "eeprom")
           /\ PtrTx(f) \in MainOps /\ FieldRx(f) \in MainOps
           /\ PtrTx(f).op = "tx" /\ PtrTx(f).what[1] = "ptr" /\ PtrTx(f).what[2] = f
           /\ FieldRx(f).op = "rx" /\ FieldRx(f).what[2] = f
           /\ SetTx(f).op = "tx" /\ SetTx(f).what[1] = "set" /\ SetTx(f).what[2] = f
           /\ \A q \in Pages : ~OnPage(PtrTx(f), q) /\ ~OnPage(FieldRx(f), q)
  <1>1. "eeprom" \in Ports(0) /\ MuxOf("50") = 0 /\ "50" \in Addresses /\ "50" \in Answering(0, "eeprom")
    BY FirstAnswers DEF Ports, MuxOf, Addresses
  <1>2. /\ <<"ptr", f>> \in Whats /\ <<"set", f>> \in Whats
        /\ f \in {"ip", "mask", "gw", "mac", "dump", "temp", "voltage", "stats"}
    BY DEF Whats, Fields
  <1>3. PtrTx(f) \in To(0, "eeprom") /\ SetTx(f) \in To(0, "eeprom")
    <2>1. \A w \in Whats : Tx("50", "eeprom", w) \in To(0, "eeprom")
      BY <1>1, TransferOp DEF To
    <2> QED
      BY <1>2, <2>1 DEF PtrTx, Ptr, SetTx
  <1>4. FieldRx(f) \in To(0, "eeprom")
    BY <1>1, <1>2, ReceiveOp DEF To, FieldRx
  <1>5. /\ PtrTx(f).op = "tx" /\ PtrTx(f).what[1] = "ptr" /\ PtrTx(f).what[2] = f
        /\ FieldRx(f).op = "rx" /\ FieldRx(f).what[2] = f
        /\ SetTx(f).op = "tx" /\ SetTx(f).what[1] = "set" /\ SetTx(f).what[2] = f
    BY DEF PtrTx, Ptr, Tx, FieldRx, Rx, SetTx
  <1>6. PtrTx(f).dev = "eeprom" /\ FieldRx(f).dev = "eeprom"
    BY DEF PtrTx, Tx, FieldRx, Rx
  <1>7. \A o \in Selects(0) : o.op = "sel"
    BY DEF Selects, Sel
  <1>8. PtrTx(f) \in Ops /\ FieldRx(f) \in Ops
    BY <1>3, <1>4 DEF To, Ops
  <1>9. PtrTx(f) \in MainOps
    BY <1>5, <1>6, <1>7, <1>8 DEF MainOps
  <1>10. FieldRx(f) \in MainOps
    <2>1. PICK o : o = FieldRx(f)
      OBVIOUS
    <2>2. o \in Ops /\ o.op = "rx" /\ o.dev = "eeprom" /\ o = FieldRx(o.what[2])
      BY <1>5, <1>6, <1>8, <2>1
    <2>3. o \notin Selects(0)
      BY <1>7, <2>2
    <2>4. o \in MainOps
      BY <2>2, <2>3 DEF MainOps
    <2> QED
      BY <2>1, <2>4
  <1>11. ASSUME NEW q \in Pages
         PROVE  ~OnPage(PtrTx(f), q) /\ ~OnPage(FieldRx(f), q)
    <2>1. Keep(q).op = "keep" /\ RegTx(q).dev = "si5347"
      BY DEF Keep, RegTx, Tx
    <2> QED
      BY <1>5, <1>6, <2>1 DEF OnPage
  <1> QED
    BY <1>3, <1>4, <1>5, <1>9, <1>10, <1>11

LEMMA ReadBytesProg ==
    ASSUME NEW f \in Fields \cup {"mac"}
    PROVE  Prog(ReadBytes(f)) /\ ReadBytes(f) \in Seq(MainOps) /\ Has(ReadBytes(f), FieldRx(f))
  <1>1. PICK g : g = Sel(0, "eeprom")
    OBVIOUS
  <1>2. PICK e : e = PtrTx(f)
    OBVIOUS
  <1>3. PICK h : h = FieldRx(f)
    OBVIOUS
  <1>4. PICK s : s = <<g, e, h>>
    OBVIOUS
  <1>5. s = ReadBytes(f)
    BY <1>1, <1>2, <1>3, <1>4 DEF ReadBytes, PtrTx, FieldRx
  <1>6. /\ e \in To(0, "eeprom") /\ h \in To(0, "eeprom") /\ e \in MainOps /\ h \in MainOps /\ g \in MainOps
        /\ e.op = "tx" /\ h.op = "rx" /\ h.what[2] = f
        /\ \A q \in Pages : ~OnPage(e, q) /\ ~OnPage(h, q)
    BY <1>1, <1>2, <1>3, EepromOps, SelectOps
  <1>7. g.op = "sel" /\ (\A q \in Pages : ~OnPage(g, q)) /\ g \notin Xfers
    BY <1>1 DEF Sel, OnPage, Keep, RegTx, Tx, Xfers
  <1>8. \A o \in Xfers : o \notin Selects(0)
    BY DEF Xfers, Selects, Sel
  <1>9. Len(s) = 3 /\ s[1] = g /\ s[2] = e /\ s[3] = h /\ s \in Seq(MainOps)
    BY <1>4, <1>6
  <1> HIDE <1>4
  <1>10. s \in Seq(Ops)
    BY <1>9 DEF MainOps
  <1>11. ASSUME NEW i \in 1 .. Len(s), s[i] \in Xfers
         PROVE  Last(s, i, Sel(MuxOf(s[i].addr), s[i].dev), Selects(MuxOf(s[i].addr)))
    <2>1. i \in {2, 3}
      BY <1>7, <1>9, <1>11
    <2>2. MuxOf(s[i].addr) = 0 /\ s[i].dev = "eeprom"
      BY <1>6, <1>9, <2>1 DEF To
    <2>3. 1 \in 1 .. i - 1 /\ s[1] = g /\ \A k \in 1 + 1 .. i - 1 : s[k] \notin Selects(0)
      BY <1>6, <1>8, <1>9, <2>1 DEF To
    <2>4. Last(s, i, g, Selects(0))
      BY <2>3 DEF Last
    <2> QED
      BY <1>1, <2>2, <2>4
  <1>12. \A i \in 1 .. Len(s), q \in Pages : ~OnPage(s[i], q)
    BY <1>6, <1>7, <1>9
  <1>13. ASSUME NEW i \in 1 .. Len(s), NEW d \in Fields, s[i] = FieldRx(d)
         PROVE  i > 1 /\ s[i - 1] = PtrTx(d)
    <2>1. FieldRx(d).op = "rx" /\ FieldRx(d).what[2] = d
      BY DEF FieldRx, Rx
    <2>2. i = 3 /\ d = f
      BY <1>6, <1>7, <1>9, <1>13, <2>1
    <2> QED
      BY <1>2, <1>9, <2>2
  <1>14. Prog(s)
    BY <1>10, <1>11, <1>12, <1>13 DEF Prog, Selected
  <1>15. Has(s, h)
    BY <1>9 DEF Has
  <1> QED
    BY <1>3, <1>5, <1>9, <1>14, <1>15

LEMMA HasConcat ==
    ASSUME NEW s \in Seq(MainOps), NEW t \in Seq(MainOps), NEW o, Has(s, o) \/ Has(t, o)
    PROVE  Has(s \o t, o)
  <1> DEFINE c == s \o t
  <1>1. /\ Len(s) \in Nat /\ Len(t) \in Nat /\ Len(c) = Len(s) + Len(t)
        /\ \A i \in 1 .. Len(s) : c[i] = s[i]
        /\ \A i \in 1 .. Len(t) : c[Len(s) + i] = t[i]
    BY ConcatFacts
  <1> HIDE DEF c
  <1>2. CASE Has(s, o)
    <2>1. PICK i \in 1 .. Len(s) : s[i] = o
      BY <1>2 DEF Has
    <2>2. i \in 1 .. Len(c) /\ c[i] = o
      BY <1>1, <2>1
    <2> QED
      BY <2>2 DEF Has, c
  <1>3. CASE Has(t, o)
    <2>1. PICK i \in 1 .. Len(t) : t[i] = o
      BY <1>3 DEF Has
    <2>2. Len(s) + i \in 1 .. Len(c) /\ c[Len(s) + i] = o
      BY <1>1, <2>1
    <2> QED
      BY <2>2 DEF Has, c
  <1> QED
    BY <1>2, <1>3

LEMMA MainProgFacts ==
    /\ Prog(MainProg) /\ MainProg \in Seq(MainOps)
    /\ \A f \in Fields : Has(MainProg, FieldRx(f))
  <1>1. PICK a : a = WriteLmk \o WriteSi5347
    OBVIOUS
  <1>2. PICK b : b = a \o ReadBytes("mac")
    OBVIOUS
  <1>3. PICK c : c = ReadBytes("ip") \o ReadBytes("mask")
    OBVIOUS
  <1>4. PICK d : d = c \o ReadBytes("gw")
    OBVIOUS
  <1>5. MainProg = b \o d
    BY <1>1, <1>2, <1>3, <1>4 DEF MainProg, AssignIpSettings
  <1>6. Fields = {"ip", "mask", "gw"}
    BY DEF Fields
  <1>7. Prog(a) /\ a \in Seq(MainOps)
    BY <1>1, WriteLmkProg, WriteSi5347Prog, ProgConcat, ConcatFacts
  <1>8. Prog(b) /\ b \in Seq(MainOps)
    BY <1>2, <1>7, ReadBytesProg, ProgConcat, ConcatFacts
  <1>9. Prog(c) /\ c \in Seq(MainOps) /\ Has(c, FieldRx("ip")) /\ Has(c, FieldRx("mask"))
    BY <1>3, <1>6, ReadBytesProg, ProgConcat, ConcatFacts, HasConcat
  <1>10. Prog(d) /\ d \in Seq(MainOps) /\ Has(d, FieldRx("ip")) /\ Has(d, FieldRx("mask")) /\ Has(d, FieldRx("gw"))
    BY <1>4, <1>6, <1>9, ReadBytesProg, ProgConcat, ConcatFacts, HasConcat
  <1>11. Prog(b \o d) /\ b \o d \in Seq(MainOps)
    BY <1>8, <1>10, ProgConcat, ConcatFacts
  <1>12. \A f \in Fields : Has(b \o d, FieldRx(f))
    BY <1>6, <1>8, <1>10, HasConcat
  <1> QED
    BY <1>5, <1>11, <1>12


\* The operations of the burst.
LEMMA StatusSelects ==
    ASSUME NEW m \in {0, 1}, NEW p \in Ports(m)
    PROVE  Sel(m, p) \in StatusOps
  <1>1. Sel(m, p) \in Ops
    BY DEF Ops, Selects
  <1>2. Sel(m, p).op = "sel" /\ (\A o \in Xfers : o.op # "sel") /\ (\A o \in Keeps : o.op # "sel")
    BY DEF Sel, Xfers, Keeps, Keep
  <1> QED
    BY <1>1, <1>2 DEF StatusOps

LEMMA StatusXfers ==
    ASSUME NEW m \in {0, 1}, NEW d, d \notin {"eeprom", "si5347"}, NEW o \in To(m, d),
           IF o.op = "tx" THEN o.what[1] # "set" ELSE o.what[2] \notin Fields
    PROVE  o \in StatusOps
  <1>1. o \in Ops /\ o.dev = d /\ o \in Xfers
    BY DEF To, Ops
  <1>2. o \notin Keeps
    BY <1>1 DEF Xfers, Keeps, Keep
  <1> QED
    BY <1>1, <1>2 DEF StatusOps

LEMMA ReadTempsProg ==
    ASSUME NEW p \in {"dfe", "afe"}, NEW addrs \in Seq(Answering(1, p))
    PROVE  Prog(ReadTemps(p, addrs)) /\ ReadTemps(p, addrs) \in Seq(StatusOps)
  <1> DEFINE t == [n \in 1 .. Len(addrs) |-> Rx(addrs[n], p, "temp")]
  <1>1. p \in Ports(1) /\ p \notin {"none", "eeprom", "si5347"}
    BY DEF Ports
  <1>2. \A a \in Answering(1, p) : a \in Addresses /\ MuxOf(a) = 1
    BY DevAnswers DEF Addresses, MuxOf
  <1>3. \A a \in Answering(1, p) : Rx(a, p, "temp") \in To(1, p)
    BY <1>1, <1>2, ReceiveOp DEF To
  <1>4. \A a \in Answering(1, p) : Rx(a, p, "temp") \in StatusOps
    <2>1. \A a \in Answering(1, p) : Rx(a, p, "temp").op = "rx" /\ Rx(a, p, "temp").what[2] \notin Fields
      BY DEF Rx, Fields
    <2> QED
      BY <1>1, <1>3, <2>1, StatusXfers
  <1>5. \A n \in 1 .. Len(addrs) : addrs[n] \in Answering(1, p)
    OBVIOUS
  <1>6. t \in Seq(To(1, p)) /\ t \in Seq(StatusOps)
    BY <1>3, <1>4, <1>5
  <1>7. PICK b : b = <<Sel(1, p)>>
    OBVIOUS
  <1>8. Prog(b) /\ Leaves(b, 1, p) /\ b \in Seq(StatusOps)
    BY <1>1, <1>7, SelectAlone, StatusSelects
  <1> HIDE DEF t
  <1>9. Prog(b \o t) /\ b \o t \in Seq(StatusOps)
    BY <1>1, <1>6, <1>8, PlainExtended, ConcatFacts
  <1> QED
    BY <1>7, <1>9 DEF ReadTemps, t

LEMMA Ltc2991Prog ==
    /\ Prog(ConfigureLtc2991) /\ Leaves(ConfigureLtc2991, 1, "ltc2991") /\ ConfigureLtc2991 \in Seq(StatusOps)
    /\ ReadVoltages \in Seq(To(1, "ltc2991")) /\ ReadVoltages \in Seq(StatusOps)
  <1>1. /\ "ltc2991" \in Ports(1)
        /\ \A a \in {"48", "49", "4A"} : a \in Addresses /\ MuxOf(a) = 1 /\ a \in Answering(1, "ltc2991")
    BY DevAnswers DEF Ports, Addresses, MuxOf
  <1>2. ASSUME NEW a \in {"48", "49", "4A"}, NEW k \in {"ptr", "config"}, NEW n \in Nat
        PROVE  Tx(a, "ltc2991", <<k, n>>) \in To(1, "ltc2991") /\ Tx(a, "ltc2991", <<k, n>>) \in StatusOps
    <2>1. PICK w : w = <<k, n>>
      OBVIOUS
    <2>2. w \in Whats /\ w[1] # "set"
      BY <2>1 DEF Whats
    <2>3. Tx(a, "ltc2991", w) \in To(1, "ltc2991")
      BY <1>1, <2>2, TransferOp DEF To
    <2>4. Tx(a, "ltc2991", w).op = "tx" /\ Tx(a, "ltc2991", w).what = w
      BY DEF Tx
    <2>5. Tx(a, "ltc2991", w) \in StatusOps
      BY <2>2, <2>3, <2>4, StatusXfers
    <2> QED
      BY <2>1, <2>3, <2>5
  <1>3. ASSUME NEW a \in {"48", "49", "4A"}
        PROVE  Rx(a, "ltc2991", "voltage") \in To(1, "ltc2991") /\ Rx(a, "ltc2991", "voltage") \in StatusOps
    <2>1. Rx(a, "ltc2991", "voltage") \in To(1, "ltc2991")
      BY <1>1, ReceiveOp DEF To
    <2>2. Rx(a, "ltc2991", "voltage").op = "rx" /\ Rx(a, "ltc2991", "voltage").what[2] \notin Fields
      BY DEF Rx, Fields
    <2> QED
      BY <2>1, <2>2, StatusXfers
  <1>4. Prog(ConfigureLtc2991) /\ Leaves(ConfigureLtc2991, 1, "ltc2991") /\ ConfigureLtc2991 \in Seq(StatusOps)
    <2> DEFINE t == [n \in 1 .. 9 |-> Tx(<<"48", "49", "4A">>[((n - 1) % 3) + 1], "ltc2991", <<"config", n>>)]
    <2>1. \A n \in 1 .. 9 : n \in Nat /\ <<"48", "49", "4A">>[((n - 1) % 3) + 1] \in {"48", "49", "4A"}
      <3>1. \A n \in 1 .. 9 : ((n - 1) % 3) + 1 \in 1 .. 3
        OBVIOUS
      <3>2. \A i \in 1 .. 3 : <<"48", "49", "4A">>[i] \in {"48", "49", "4A"}
        OBVIOUS
      <3> QED
        BY <3>1, <3>2
    <2>2. \A n \in 1 .. 9 : t[n] \in To(1, "ltc2991") /\ t[n] \in StatusOps
      BY <1>2, <2>1
    <2>3. t \in Seq(To(1, "ltc2991")) /\ t \in Seq(StatusOps)
      BY <2>2
    <2>4. PICK b : b = <<Sel(1, "ltc2991")>>
      OBVIOUS
    <2>5. Prog(b) /\ Leaves(b, 1, "ltc2991") /\ b \in Seq(StatusOps)
      BY <1>1, <2>4, SelectAlone, StatusSelects
    <2> HIDE DEF t
    <2>6. Prog(b \o t) /\ Leaves(b \o t, 1, "ltc2991") /\ b \o t \in Seq(StatusOps)
      BY <2>3, <2>5, PlainExtended, ConcatFacts
    <2> QED
      BY <2>4, <2>6 DEF ConfigureLtc2991, t
  <1>5. ReadVoltages \in Seq(To(1, "ltc2991")) /\ ReadVoltages \in Seq(StatusOps)
    <2> DEFINE N == Len(Voltages)
    <2>1. N = 21 /\ \A n \in 1 .. N : Voltages[n][1] \in {"48", "49", "4A"} /\ Voltages[n][2] \in Nat
      BY DEF Voltages
    <2> HIDE DEF N
    <2>2. ASSUME NEW k \in 1 .. 2 * N
          PROVE  ReadVoltages[k] \in To(1, "ltc2991") /\ ReadVoltages[k] \in StatusOps
      <3>1. (k + 1) \div 2 \in 1 .. N /\ ((k - 1) % 2) + 1 \in {1, 2}
        BY <2>1
      <3>2. PICK v : v = Voltages[(k + 1) \div 2]
        OBVIOUS
      <3>3. PICK j \in {1, 2} : j = ((k - 1) % 2) + 1
        BY <3>1
      <3>4. v[1] \in {"48", "49", "4A"} /\ v[2] \in Nat
        BY <2>1, <3>1, <3>2
      <3>5. ReadVoltages[k] = Ltc2991Voltage(v)[j]
        BY <3>2, <3>3 DEF ReadVoltages, N
      <3>6. Ltc2991Voltage(v)[j] \in {Tx(v[1], "ltc2991", <<"ptr", v[2]>>), Rx(v[1], "ltc2991", "voltage")}
        BY DEF Ltc2991Voltage
      <3> QED
        BY <1>2, <1>3, <3>4, <3>5, <3>6
    <2>3. DOMAIN ReadVoltages = 1 .. 2 * N /\ ReadVoltages = [k \in 1 .. 2 * N |-> ReadVoltages[k]]
      BY DEF ReadVoltages, N
    <2>4. 2 * N \in Nat
      BY <2>1
    <2>5. ReadVoltages \in [1 .. 2 * N -> To(1, "ltc2991")] /\ ReadVoltages \in [1 .. 2 * N -> StatusOps]
      BY <2>2, <2>3
    <2> QED
      BY <2>4, <2>5
  <1> QED
    BY <1>4, <1>5


LEMMA SfpAnswers ==
    ASSUME NEW n \in 0 .. SfpSlots - 1
    PROVE  /\ Sfp(n) \in Ports(0) /\ Sfp(n) \notin {"none", "eeprom", "si5347"}
           /\ "51" \in Answering(0, Sfp(n))
  <1>1. Sfp(n) \in {"sfp0", "sfp1", "sfp2", "sfp3", "sfp4", "sfp5"}
    BY SfpNames, I2cAssumption
  <1>2. Sfp(n) \in Ports(0)
    BY DEF Ports
  <1> DEFINE S == {Sfp(k) : k \in 0 .. SfpSlots - 1}
  <1>3. PICK p : p = Sfp(n)
    OBVIOUS
  <1>4. p \in S
    BY <1>3
  <1>5. Answering(0, p) = IF p \in S THEN {"50", "51"} ELSE {}
    <2> HIDE DEF S
    <2> QED
      BY <1>1, <1>3, <1>4 DEF Answering, S
  <1> QED
    BY <1>1, <1>2, <1>3, <1>4, <1>5

\* The four operations on one SFP.
LEMMA SfpOps ==
    ASSUME NEW n \in 0 .. SfpSlots - 1
    PROVE  /\ SfpStats(n)[1] = Sel(0, Sfp(n)) /\ SfpStats(n)[2] = Sel(1, "none")
           /\ SfpStats(n)[3] \in To(0, Sfp(n)) /\ SfpStats(n)[4] \in To(0, Sfp(n))
           /\ \A j \in 1 .. 4 : SfpStats(n)[j] \in StatusOps
  <1>1. PICK p : p = Sfp(n)
    OBVIOUS
  <1>2. PICK e : e = Tx("51", p, Ptr("stats"))
    OBVIOUS
  <1>3. PICK h : h = Rx("51", p, "stats")
    OBVIOUS
  <1>4. SfpStats(n) = <<Sel(0, p), Sel(1, "none"), e, h>>
    BY <1>1, <1>2, <1>3 DEF SfpStats
  <1>5. p \in Ports(0) /\ p \notin {"none", "eeprom", "si5347"} /\ "51" \in Answering(0, p)
    BY <1>1, SfpAnswers
  <1>6. Ptr("stats") \in Whats /\ "51" \in Addresses /\ MuxOf("51") = 0 /\ "none" \in Ports(1)
    BY DEF Ptr, Whats, Addresses, MuxOf, Ports
  <1>7. e \in To(0, p) /\ h \in To(0, p)
    BY <1>2, <1>3, <1>5, <1>6, TransferOp, ReceiveOp DEF To
  <1>8. e.op = "tx" /\ e.what[1] = "ptr" /\ h.op = "rx" /\ h.what[2] \notin Fields
    BY <1>2, <1>3 DEF Tx, Ptr, Rx, Fields
  <1>9. e \in StatusOps /\ h \in StatusOps
    BY <1>5, <1>7, <1>8, StatusXfers
  <1>10. Sel(0, p) \in StatusOps /\ Sel(1, "none") \in StatusOps
    BY <1>5, <1>6, StatusSelects
  <1>11. PICK a : a = Sel(0, p)
    OBVIOUS
  <1>12. PICK b : b = Sel(1, "none")
    OBVIOUS
  <1>13. PICK s : s = <<a, b, e, h>>
    OBVIOUS
  <1>14. s[1] = a /\ s[2] = b /\ s[3] = e /\ s[4] = h
    BY <1>13
  <1>15. s = SfpStats(n)
    BY <1>4, <1>11, <1>12, <1>13
  <1>16. \A j \in 1 .. 4 : s[j] \in StatusOps
    BY <1>9, <1>10, <1>11, <1>12, <1>14
  <1> QED
    BY <1>1, <1>7, <1>11, <1>12, <1>14, <1>15, <1>16

\* No operation of the burst relies on a page or reads a setting.
LEMMA StatusPlain ==
    ASSUME NEW o \in StatusOps
    PROVE  o \in Ops /\ (\A q \in Pages : ~OnPage(o, q)) /\ (\A f \in Fields : o # FieldRx(f))
  <1>1. o \in Ops /\ o \notin Keeps /\ (o \in Xfers => o.dev \notin {"eeprom", "si5347"})
    BY DEF StatusOps
  <1>2. ASSUME NEW q \in Pages
        PROVE  ~OnPage(o, q)
    <2>1. RegTx(q) \in Xfers /\ RegTx(q).dev = "si5347"
      BY SiOps DEF To
    <2>2. Keep(q) \in Keeps
      BY DEF Keeps
    <2> QED
      BY <1>1, <2>1, <2>2 DEF OnPage
  <1>3. ASSUME NEW f \in Fields
        PROVE  o # FieldRx(f)
    <2>1. FieldRx(f) \in Xfers /\ FieldRx(f).dev = "eeprom"
      BY EepromOps DEF To
    <2> QED
      BY <1>1, <2>1
  <1> QED
    BY <1>1, <1>2, <1>3

LEMMA StatusProg ==
    ASSUME NEW s \in Seq(StatusOps), Selected(s)
    PROVE  Prog(s)
  <1>1. \A i \in 1 .. Len(s) : s[i] \in StatusOps
    OBVIOUS
  <1>2. s \in Seq(Ops)
    BY DEF StatusOps
  <1> QED
    BY <1>1, <1>2, StatusPlain DEF Prog

LEMMA SfpsProg == Prog(SfpsStats) /\ SfpsStats \in Seq(StatusOps)
  <1>0. SfpSlots \in Nat
    BY I2cAssumption
  <1>1. PICK s : s = SfpsStats
    OBVIOUS
  <1>2. DOMAIN s = 1 .. 4 * SfpSlots /\ s = [k \in 1 .. 4 * SfpSlots |-> s[k]]
    BY <1>1 DEF SfpsStats
  <1>3. \A k \in 1 .. 4 * SfpSlots : s[k] = SfpStats((k - 1) \div 4)[((k - 1) % 4) + 1]
    BY <1>1 DEF SfpsStats
  <1>4. ASSUME NEW k \in 1 .. 4 * SfpSlots
        PROVE  /\ (k - 1) \div 4 \in 0 .. SfpSlots - 1 /\ ((k - 1) % 4) + 1 \in 1 .. 4
               /\ k = 4 * ((k - 1) \div 4) + (((k - 1) % 4) + 1)
    BY <1>0
  <1>5. \A k \in 1 .. 4 * SfpSlots : s[k] \in StatusOps
    BY <1>3, <1>4, SfpOps
  <1>6. s \in Seq(StatusOps) /\ Len(s) = 4 * SfpSlots
    <2>1. s \in [1 .. 4 * SfpSlots -> StatusOps] /\ 4 * SfpSlots \in Nat
      BY <1>0, <1>2, <1>5
    <2> QED
      BY <2>1
  <1>7. \A m \in {0, 1} : \A o \in Xfers : o \notin Selects(m)
    BY DEF Xfers, Selects, Sel
  <1>8. ASSUME NEW i \in 1 .. 4 * SfpSlots, s[i] \in Xfers
        PROVE  Last(s, i, Sel(MuxOf(s[i].addr), s[i].dev), Selects(MuxOf(s[i].addr)))
    <2>1. PICK n \in 0 .. SfpSlots - 1 : n = (i - 1) \div 4
      BY <1>4
    <2>2. PICK r \in 1 .. 4 : r = ((i - 1) % 4) + 1
      BY <1>4
    <2>3. i = 4 * n + r
      BY <1>4, <2>1, <2>2
    <2>4. s[i] = SfpStats(n)[r]
      BY <1>3, <2>1, <2>2
    <2>5. "none" \in Ports(1) /\ Sfp(n) \in Ports(0)
      BY SfpAnswers DEF Ports
    <2>6. Sel(0, Sfp(n)) \in Selects(0) /\ Sel(1, "none") \in Selects(1)
      BY <2>5 DEF Selects
    <2>7. r \in {3, 4}
      BY <1>7, <1>8, <2>2, <2>4, <2>6, SfpOps
    <2>8. MuxOf(s[i].addr) = 0 /\ s[i].dev = Sfp(n)
      BY <2>4, <2>7, SfpOps DEF To
    <2>9. ASSUME NEW k \in {1, 2, 3}
          PROVE  4 * n + k \in 1 .. 4 * SfpSlots /\ s[4 * n + k] = SfpStats(n)[k]
      <3>1. 4 * n + k \in 1 .. 4 * SfpSlots /\ ((4 * n + k) - 1) \div 4 = n /\ (((4 * n + k) - 1) % 4) + 1 = k
        BY <1>0
      <3> QED
        BY <1>3, <3>1
    <2>10. s[4 * n + 1] = Sel(0, Sfp(n)) /\ s[4 * n + 2] \notin Selects(0) /\ s[4 * n + 3] \notin Selects(0)
      <3>1. Sel(1, "none") \notin Selects(0)
        <4>1. Sel(1, "none").mux = 1 /\ \A o \in Selects(0) : o.mux = 0
          BY DEF Sel, Selects
        <4> QED
          BY <4>1
      <3>2. SfpStats(n)[3] \notin Selects(0)
        BY <1>7, SfpOps DEF To
      <3> QED
        BY <2>9, <3>1, <3>2, SfpOps
    <2>11. 4 * n + 1 \in 1 .. i - 1 /\ \A k \in (4 * n + 1) + 1 .. i - 1 : k \in {4 * n + 2, 4 * n + 3}
      BY <2>3, <2>7
    <2>12. Last(s, i, Sel(0, Sfp(n)), Selects(0))
      BY <2>10, <2>11 DEF Last
    <2> QED
      BY <2>8, <2>12
  <1>9. Selected(s)
    BY <1>6, <1>8 DEF Selected
  <1> QED
    BY <1>1, <1>6, <1>9, StatusProg


LEMMA Ltc2977Prog == Prog(Ltc2977Stats) /\ Leaves(Ltc2977Stats, 0, "none") /\ Ltc2977Stats \in Seq(StatusOps)
  <1>1. PICK a : a = Sel(0, "none")
    OBVIOUS
  <1>2. PICK b : b = Sel(1, "ltc2977")
    OBVIOUS
  <1>3. PICK e : e = Tx("5C", "ltc2977", Ptr("temp"))
    OBVIOUS
  <1>4. PICK h : h = Rx("5C", "ltc2977", "temp")
    OBVIOUS
  <1>5. PICK s : s = <<a, b, e, h>>
    OBVIOUS
  <1>6. s = Ltc2977Stats
    BY <1>1, <1>2, <1>3, <1>4, <1>5 DEF Ltc2977Stats
  <1>7. /\ "ltc2977" \in Ports(1) /\ "none" \in Ports(0) /\ "5C" \in Addresses /\ MuxOf("5C") = 1
        /\ "5C" \in Answering(1, "ltc2977") /\ Ptr("temp") \in Whats
    BY DevAnswers DEF Ports, Addresses, MuxOf, Ptr, Whats
  <1>8. e \in To(1, "ltc2977") /\ h \in To(1, "ltc2977")
    BY <1>3, <1>4, <1>7, TransferOp, ReceiveOp DEF To
  <1>9. e.op = "tx" /\ e.what[1] = "ptr" /\ h.op = "rx" /\ h.what[2] \notin Fields
    BY <1>3, <1>4 DEF Tx, Ptr, Rx, Fields
  <1>10. e \in StatusOps /\ h \in StatusOps
    BY <1>8, <1>9, StatusXfers
  <1>11. a \in StatusOps /\ b \in StatusOps
    BY <1>1, <1>2, <1>7, StatusSelects
  <1>12. /\ \A m \in {0, 1} : \A o \in Xfers : o \notin Selects(m)
         /\ a \in Selects(0) /\ b \in Selects(1) /\ b \notin Selects(0)
    <2>1. \A m \in {0, 1} : \A o \in Xfers : o \notin Selects(m)
      BY DEF Xfers, Selects, Sel
    <2>2. a \in Selects(0) /\ b \in Selects(1)
      BY <1>1, <1>2, <1>7 DEF Selects
    <2>3. b.mux = 1 /\ \A o \in Selects(0) : o.mux = 0
      BY <1>2 DEF Sel, Selects
    <2> QED
      BY <2>1, <2>2, <2>3
  <1>13. s \in Seq(StatusOps) /\ Len(s) = 4 /\ s[1] = a /\ s[2] = b /\ s[3] = e /\ s[4] = h
    BY <1>5, <1>10, <1>11
  <1> HIDE <1>5
  <1>14. ASSUME NEW i \in 1 .. Len(s), s[i] \in Xfers
         PROVE  Last(s, i, Sel(MuxOf(s[i].addr), s[i].dev), Selects(MuxOf(s[i].addr)))
    <2>1. i \in {3, 4}
      BY <1>12, <1>13, <1>14
    <2>2. MuxOf(s[i].addr) = 1 /\ s[i].dev = "ltc2977"
      BY <1>8, <1>13, <2>1 DEF To
    <2>3. 2 \in 1 .. i - 1 /\ s[2] = b /\ \A k \in 2 + 1 .. i - 1 : s[k] \notin Selects(1)
      BY <1>8, <1>12, <1>13, <2>1 DEF To
    <2>4. Last(s, i, b, Selects(1))
      BY <2>3 DEF Last
    <2> QED
      BY <1>2, <2>2, <2>4
  <1>15. Prog(s)
    BY <1>13, <1>14, StatusProg DEF Selected
  <1>16. Leaves(s, 0, "none")
    <2>1. s[2] \notin Selects(0) /\ s[3] \notin Selects(0) /\ s[4] \notin Selects(0)
      BY <1>8, <1>12, <1>13 DEF To
    <2>2. 1 \in 1 .. (4 + 1) - 1 /\ s[1] = a /\ \A k \in 1 + 1 .. (4 + 1) - 1 : s[k] \notin Selects(0)
      BY <1>13, <2>1
    <2>3. Last(s, 4 + 1, a, Selects(0))
      BY <2>2 DEF Last
    <2> QED
      BY <1>1, <1>13, <2>3 DEF Leaves
  <1> QED
    BY <1>6, <1>13, <1>15, <1>16

LEMMA ReadSysInfoFacts ==
    Prog(ReadSysInfo) /\ ReadSysInfo \in Seq(StatusOps) /\ Leaves(ReadSysInfo, 0, "none")
  <1>0. \A s \in Seq(StatusOps) : s \in Seq(Ops)
    BY DEF StatusOps
  <1>1. PICK a : a = ReadTemps("dfe", <<"48", "49", "4A", "4B">>) \o ReadTemps("afe", <<"48", "4A">>)
    OBVIOUS
  <1>2. PICK b : b = <<Sel(1, "ltc2991")>>
    OBVIOUS
  <1>3. PICK c : c = a \o b
    OBVIOUS
  <1>4. PICK d : d = c \o ConfigureLtc2991
    OBVIOUS
  <1>5. PICK e : e = d \o ReadVoltages
    OBVIOUS
  <1>6. PICK f : f = e \o SfpsStats
    OBVIOUS
  <1>7. ReadSysInfo = f \o Ltc2977Stats
    BY <1>1, <1>2, <1>3, <1>4, <1>5, <1>6 DEF ReadSysInfo
  <1>8. Prog(a) /\ a \in Seq(StatusOps)
    <2>1. <<"48", "49", "4A", "4B">> \in Seq(Answering(1, "dfe")) /\ <<"48", "4A">> \in Seq(Answering(1, "afe"))
      <3>1. /\ {"48", "49", "4A", "4B"} \subseteq Answering(1, "dfe")
            /\ {"48", "4A"} \subseteq Answering(1, "afe")
        BY DevAnswers
      <3> QED
        BY <3>1
    <2>2. PICK r : r = ReadTemps("dfe", <<"48", "49", "4A", "4B">>)
      OBVIOUS
    <2>3. PICK t : t = ReadTemps("afe", <<"48", "4A">>)
      OBVIOUS
    <2>4. Prog(r) /\ r \in Seq(StatusOps)
      BY <2>1, <2>2, ReadTempsProg
    <2>5. Prog(t) /\ t \in Seq(StatusOps)
      BY <2>1, <2>3, ReadTempsProg
    <2> QED
      BY <1>1, <2>2, <2>3, <2>4, <2>5, ProgConcat, ConcatFacts
  <1>9. Prog(b) /\ b \in Seq(StatusOps)
    <2>1. "ltc2991" \in Ports(1)
      BY DEF Ports
    <2> QED
      BY <1>2, <2>1, SelectAlone, StatusSelects
  <1>10. Prog(c) /\ c \in Seq(StatusOps)
    BY <1>3, <1>8, <1>9, ProgConcat, ConcatFacts
  <1>11. Prog(d) /\ d \in Seq(StatusOps) /\ Leaves(d, 1, "ltc2991")
    BY <1>0, <1>4, <1>10, Ltc2991Prog, ProgConcat, ConcatFacts, LeavesConcat
  <1>12. Prog(e) /\ e \in Seq(StatusOps)
    BY <1>5, <1>11, Ltc2991Prog, PlainExtended, ConcatFacts
  <1>13. Prog(f) /\ f \in Seq(StatusOps)
    BY <1>6, <1>12, SfpsProg, ProgConcat, ConcatFacts
  <1>14. Prog(f \o Ltc2977Stats) /\ f \o Ltc2977Stats \in Seq(StatusOps)
    BY <1>13, Ltc2977Prog, ProgConcat, ConcatFacts
  <1>15. Leaves(f \o Ltc2977Stats, 0, "none")
    BY <1>0, <1>13, Ltc2977Prog, LeavesConcat
  <1> QED
    BY <1>7, <1>14, <1>15


LEMMA MenuProgFacts ==
    /\ \A o \in MenuOps : o \in Ops /\ (o \in Xfers => o.dev = "eeprom" /\ o.addr = "50")
    /\ DumpProg \in Seq(MenuOps) /\ DumpProg # <<>> /\ DumpProg[Len(DumpProg)] # SetTx("gw")
    /\ ProgramIp \in Seq(MenuOps) /\ \A f \in Fields : Has(ProgramIp, SetTx(f))
    /\ \A p \in {DumpProg, ProgramIp} : Opened(p) /\ \A f \in Fields : p[1] # SetTx(f)
  <1>0. \A f \in Fields : /\ Sel(0, "eeprom") # SetTx(f) /\ PtrTx("ip") # SetTx(f)
                          /\ FieldRx("dump") # SetTx(f)
    BY DEF Sel, PtrTx, Ptr, FieldRx, SetTx, Rx, Tx
  <1>1. ASSUME NEW o \in MenuOps
        PROVE  o \in Ops /\ (o \in Xfers => o.dev = "eeprom" /\ o.addr = "50")
    <2>1. CASE o = Sel(0, "eeprom")
      <3>1. o \in Ops
        BY <2>1, SelectOps DEF MainOps
      <3>2. o.op = "sel"
        BY <2>1 DEF Sel
      <3> QED
        BY <3>1, <3>2 DEF Xfers
    <2>2. ASSUME NEW f \in Fields \cup {"dump"}, o \in {PtrTx(f), FieldRx(f), SetTx(f)}
          PROVE  o \in Ops /\ o.dev = "eeprom" /\ o.addr = "50"
      <3>1. o \in Ops
        BY <2>2, EepromOps DEF To, Ops
      <3>2. o.dev = "eeprom" /\ o.addr = "50"
        BY <2>2 DEF PtrTx, FieldRx, SetTx, Tx, Rx
      <3> QED
        BY <3>1, <3>2
    <2>3. "ip" \in Fields
      BY DEF Fields
    <2> QED
      BY <2>1, <2>2, <2>3 DEF MenuOps
  <1>2. /\ DumpProg \in Seq(MenuOps) /\ DumpProg # <<>> /\ DumpProg[Len(DumpProg)] # SetTx("gw")
        /\ Opened(DumpProg) /\ \A f \in Fields : DumpProg[1] # SetTx(f)
    <2>1. PICK g : g = Sel(0, "eeprom")
      OBVIOUS
    <2>2. PICK e : e = PtrTx("ip")
      OBVIOUS
    <2>3. PICK h : h = FieldRx("dump")
      OBVIOUS
    <2>4. DumpProg = <<g, e, h>>
      BY <2>1, <2>2, <2>3 DEF DumpProg, PtrTx, FieldRx
    <2>5. g \in MenuOps /\ e \in MenuOps /\ h \in MenuOps
      BY <2>1, <2>2, <2>3 DEF MenuOps
    <2>6. h # SetTx("gw")
      BY <2>3 DEF FieldRx, SetTx, Rx, Tx
    <2>7. PICK p : p = <<g, e, h>>
      OBVIOUS
    <2>8. p[1] = g /\ p[2] = e /\ p[3] = h /\ Len(p) = 3
      BY <2>7
    <2>9. \A f \in Fields : g # SetTx(f) /\ e # SetTx(f) /\ h # SetTx(f)
      BY <1>0, <2>1, <2>2, <2>3
    <2>10. Opened(p) /\ \A f \in Fields : p[1] # SetTx(f)
      <3>1. ASSUME NEW i \in 2 .. Len(p) PROVE i = 2 \/ i = 3
        BY <2>8, <3>1
      <3> QED
        BY <2>8, <2>9, <3>1 DEF Opened
    <2> QED
      BY <2>4, <2>5, <2>6, <2>7, <2>10
  <1>3. /\ ProgramIp \in Seq(MenuOps) /\ \A f \in Fields : Has(ProgramIp, SetTx(f))
        /\ Opened(ProgramIp) /\ \A f \in Fields : ProgramIp[1] # SetTx(f)
    <2>1. PICK g : g = Sel(0, "eeprom")
      OBVIOUS
    <2>2. PICK a : a = SetTx("ip")
      OBVIOUS
    <2>3. PICK b : b = SetTx("mask")
      OBVIOUS
    <2>4. PICK c : c = SetTx("gw")
      OBVIOUS
    <2>5. g \in MenuOps /\ a \in MenuOps /\ b \in MenuOps /\ c \in MenuOps
      BY <2>1, <2>2, <2>3, <2>4 DEF MenuOps, Fields
    <2>6. WriteBytes("ip") = <<g, a>> /\ WriteBytes("mask") = <<g, b>> /\ WriteBytes("gw") = <<g, c>>
      BY <2>1, <2>2, <2>3, <2>4 DEF WriteBytes, SetTx
    <2>7. PICK r : r = <<g, a>> \o <<g, b>>
      OBVIOUS
    <2>8. PICK s : s = r \o <<g, c>>
      OBVIOUS
    <2>9. s = ProgramIp
      BY <2>6, <2>7, <2>8 DEF ProgramIp
    <2>10. /\ <<g, a>> \in Seq(MenuOps) /\ <<g, b>> \in Seq(MenuOps) /\ <<g, c>> \in Seq(MenuOps)
           /\ Len(<<g, a>>) = 2 /\ Len(<<g, b>>) = 2 /\ Len(<<g, c>>) = 2
           /\ <<g, a>>[2] = a /\ <<g, b>>[2] = b /\ <<g, c>>[2] = c
           /\ <<g, a>>[1] = g /\ <<g, b>>[1] = g /\ <<g, c>>[1] = g
      BY <2>5
    <2>11. /\ r \in Seq(MenuOps) /\ Len(r) = 4 /\ r[2] = a /\ r[2 + 2] = b
           /\ r[1] = g /\ r[2 + 1] = g
      BY <2>7, <2>10, ConcatFacts
    <2>12. /\ s \in Seq(MenuOps) /\ Len(s) = 6 /\ s[2] = a /\ s[4] = b /\ s[4 + 2] = c
           /\ s[1] = g /\ s[3] = g /\ s[4 + 1] = g
      <3>1. PICK z : z = <<g, c>>
        OBVIOUS
      <3>2. z \in Seq(MenuOps) /\ Len(z) = 2 /\ z[1] = g /\ z[2] = c /\ s = r \o z
        BY <2>8, <2>10, <3>1
      <3>3. /\ s \in Seq(MenuOps) /\ Len(s) = Len(r) + Len(z)
            /\ \A i \in 1 .. Len(r) : s[i] = r[i]
            /\ \A i \in 1 .. Len(z) : s[Len(r) + i] = z[i]
        <4>1. r \in Seq(MenuOps) /\ z \in Seq(MenuOps)
          BY <2>11, <3>2
        <4>2. /\ r \o z \in Seq(MenuOps) /\ Len(r \o z) = Len(r) + Len(z)
              /\ \A i \in 1 .. Len(r) : (r \o z)[i] = r[i]
              /\ \A i \in 1 .. Len(z) : (r \o z)[Len(r) + i] = z[i]
          BY ONLY <4>1, ConcatFacts
        <4> QED
          BY ONLY <3>2, <4>2
      <3> QED
        BY <2>11, <3>2, <3>3
    <2>13. Has(s, a) /\ Has(s, b) /\ Has(s, c)
      BY <2>12 DEF Has
    <2>14. Opened(s) /\ \A f \in Fields : s[1] # SetTx(f)
      <3>1. \A f \in Fields : g # SetTx(f)
        BY <1>0, <2>1
      <3>2. ASSUME NEW i \in 2 .. Len(s) PROVE i \in {2, 4, 6} \/ i \in {3, 5}
        BY <2>12, <3>2
      <3>3. \A i \in 2 .. Len(s), f \in Fields : s[i] = SetTx(f) => s[i - 1] = g
        BY <2>12, <3>1, <3>2
      <3> QED
        BY <2>1, <2>12, <3>1, <3>3 DEF Opened
    <2>15. Has(s, SetTx("ip")) /\ Has(s, SetTx("mask")) /\ Has(s, SetTx("gw"))
      BY <2>2, <2>3, <2>4, <2>13
    <2>16. \A f \in Fields : Has(s, SetTx(f))
      BY <2>15 DEF Fields
    <2> QED
      BY <2>9, <2>12, <2>14, <2>16
  <1> QED
    BY <1>1, <1>2, <1>3

-----------------------------------------------------------------------------
(* One operation of a thread. *)

\* What Do(t) does, by the kind of its operation.
LEMMA DoStep ==
    ASSUME BusInv, NEW t \in Threads, Do(t), deaf' = FALSE, NEW s, s = prog[t]
    PROVE  /\ s \in Seq(Ops) /\ s # <<>>
           /\ prog' = [prog EXCEPT ![t] = Tail(s)] /\ torn' = torn
           /\ mux' = After(s[1], mux)
           /\ \/ /\ s[1] \notin Xfers
                 /\ UNCHANGED <<eeprom, ptr, sipage, data, netif, stray, misplaced, lost, nacks>>
              \/ /\ s[1] \in Xfers
                 /\ \E d \in Hearing(s[1].addr) \cup {"nobody"} :
                       /\ Transfer(s[1], d)
                       /\ \/ nacks' = nacks /\ (d \in Hearing(s[1].addr) \/ Hearing(s[1].addr) = {})
                          \/ nacks' = nacks + 1 /\ d = "nobody"
  <1>1. s \in Seq(Ops) /\ s # <<>>
    BY DEF BusInv, Do
  <1>2. s[1] = Head(s) /\ s[1] \in Ops
    BY <1>1, TailFacts
  <1>3. PICK o \in Ops : o = s[1]
    BY <1>2
  <1>4. prog' = [prog EXCEPT ![t] = Tail(s)] /\ torn' = torn
    BY DEF Do, BusInv
  <1>5. \/ /\ o.op = "sel"
           /\ mux' = [mux EXCEPT ![o.mux] = o.port]
           /\ UNCHANGED <<eeprom, ptr, sipage, data, netif, stray, misplaced, lost, nacks>>
        \/ /\ o.op = "keep"
           /\ UNCHANGED <<mux, eeprom, ptr, sipage, data, netif, stray, misplaced, lost, nacks>>
        \/ /\ o.op \in {"tx", "rx"} /\ UNCHANGED mux
           /\ \/ \E d \in Hearing(o.addr) : Transfer(o, d) /\ UNCHANGED nacks
              \/ Hearing(o.addr) = {} /\ Transfer(o, "nobody") /\ UNCHANGED nacks
              \/ /\ Hearing(o.addr) # {} /\ nacks < MaxNacks
                 /\ nacks' = nacks + 1 /\ Transfer(o, "nobody")
    <2> HIDE DEF Transfer
    <2> QED
      BY <1>2, <1>3 DEF Do
  <1>6. CASE o.op = "sel"
    <2>1. o \notin Xfers
      BY <1>6 DEF Xfers
    <2> QED
      BY <1>1, <1>3, <1>4, <1>5, <1>6, <2>1 DEF After
  <1>7. CASE o.op = "keep"
    <2>1. o \notin Xfers
      BY <1>7 DEF Xfers
    <2> QED
      BY <1>1, <1>3, <1>4, <1>5, <1>7, <2>1 DEF After
  <1>8. CASE o.op \in {"tx", "rx"}
    <2>1. o \in Xfers
      BY <1>8, OpKinds
    <2>2. mux' = After(o, mux)
      BY <1>5, <1>8 DEF After
    <2>3. \E d \in Hearing(o.addr) \cup {"nobody"} :
             /\ Transfer(o, d)
             /\ \/ nacks' = nacks /\ (d \in Hearing(o.addr) \/ Hearing(o.addr) = {})
                \/ nacks' = nacks + 1 /\ d = "nobody"
      <3> HIDE DEF Transfer
      <3> QED
        BY <1>5, <1>8
    <2> QED
      BY <1>1, <1>3, <1>4, <2>1, <2>2, <2>3
  <1> QED
    BY <1>6, <1>7, <1>8, OpKinds


\* The bus keeps its type, whoever uses it.
LEMMA DoKeepsBus ==
    ASSUME BusInv, NEW t \in Threads, Do(t), deaf' = FALSE
    PROVE  BusInv'
  <1>1. PICK s : s = prog[t]
    OBVIOUS
  <1>2. /\ s \in Seq(Ops) /\ s # <<>>
        /\ prog' = [prog EXCEPT ![t] = Tail(s)]
        /\ mux' = After(s[1], mux)
        /\ nacks' = nacks \/ nacks' = nacks + 1
    BY <1>1, DoStep
  <1>3. Tail(s) \in Seq(Ops) /\ s[1] \in Ops
    BY <1>2, TailFacts
  <1>4. prog' \in [Threads -> Seq(Ops)]
    BY <1>2, <1>3 DEF BusInv
  <1>5. nacks' \in Nat
    BY <1>2 DEF BusInv
  <1>6. mux' = [m \in {0, 1} |-> mux'[m]] /\ mux'[0] \in Ports(0) /\ mux'[1] \in Ports(1)
    <2>1. PICK o \in Ops : o = s[1]
      BY <1>3
    <2>2. mux = [m \in {0, 1} |-> mux[m]] /\ mux[0] \in Ports(0) /\ mux[1] \in Ports(1)
      BY DEF BusInv
    <2>3. CASE o.op = "sel"
      <3>1. PICK m \in {0, 1} : o.mux = m /\ o.port \in Ports(m)
        BY <2>3, OpKinds
      <3>2. mux' = [mux EXCEPT ![m] = o.port]
        BY <1>2, <2>1, <2>3, <3>1 DEF After
      <3> QED
        BY <2>2, <3>1, <3>2
    <2>4. CASE o.op # "sel"
      <3>1. mux' = mux
        BY <1>2, <2>1, <2>4 DEF After
      <3> QED
        BY <2>2, <3>1
    <2> QED
      BY <2>3, <2>4
  <1> QED
    BY <1>2, <1>4, <1>5, <1>6 DEF BusInv

\* A thread that is alone on the bus meets the device it means, or no answer.
LEMMA AloneStep ==
    ASSUME BusInv, NEW t \in Threads, Aimed(prog[t], mux), Do(t), deaf' = FALSE, NEW s, s = prog[t]
    PROVE  /\ Aimed(Tail(s), mux')
           /\ s[1] \in Xfers => \/ Transfer(s[1], s[1].dev) /\ nacks' = nacks
                                \/ Transfer(s[1], "nobody") /\ nacks' = nacks + 1
  <1>1. /\ s \in Seq(Ops) /\ s # <<>> /\ mux' = After(s[1], mux)
        /\ s[1] \in Xfers =>
             \E d \in Hearing(s[1].addr) \cup {"nobody"} :
                       /\ Transfer(s[1], d)
                       /\ \/ nacks' = nacks /\ (d \in Hearing(s[1].addr) \/ Hearing(s[1].addr) = {})
                          \/ nacks' = nacks + 1 /\ d = "nobody"
    <2> HIDE DEF Transfer
    <2> QED
      BY DoStep
  <1>2. mux = [m \in {0, 1} |-> mux[m]]
    BY DEF BusInv
  <1>3. Aimed(Tail(s), mux')
    BY <1>1, <1>2, AimedTail
  <1>4. ASSUME s[1] \in Xfers
        PROVE  \/ Transfer(s[1], s[1].dev) /\ nacks' = nacks
               \/ Transfer(s[1], "nobody") /\ nacks' = nacks + 1
    <2>1. mux[MuxOf(s[1].addr)] = s[1].dev
      BY <1>1, <1>4, AimedFirst
    <2>2. Hearing(s[1].addr) = {s[1].dev}
      BY <1>4, <2>1, HeardByDev
    <2> QED
      BY <1>1, <1>4, <2>2
  <1> QED
    BY <1>3, <1>4

\* Nothing is left to do: nothing can go wrong.
LEMMA EmptyProg ==
    ASSUME NEW x, NEW page, NEW at
    PROVE  Aimed(<<>>, x) /\ Paged(<<>>, page) /\ Pointed(<<>>, at)
  <1>1. Len(<<>>) = 0
    OBVIOUS
  <1> QED
    BY <1>1 DEF Aimed, Paged, Pointed

\* What the main thread's operation does to the settings, the page and the histories.
LEMMA MainTransfer ==
    ASSUME NetInv, HistoryInv, NEW s \in Seq(MainOps), s # <<>>, s = prog["main"], status = "off",
           nacks \in Nat, nacks = 0 => Paged(s, sipage) /\ Pointed(s, ptr),
           s[1] \in Xfers, NEW d,
           Transfer(s[1], d), (d = s[1].dev /\ nacks' = nacks) \/ (d = "nobody" /\ nacks' = nacks + 1)
    PROVE  /\ eeprom' = eeprom /\ lost' = lost /\ stray' = FALSE
           /\ netif' = [f \in Fields |-> netif'[f]]
           /\ misplaced' \in BOOLEAN /\ (misplaced' => nacks' > 0)
           /\ nacks' = 0 => /\ nacks = 0
                            /\ \A q \in Pages : /\ s[1] = PageTx(q) => sipage' = q
                                                /\ OnPage(s[1], q) => sipage' = sipage
                            /\ \A f \in Fields : s[1] = PtrTx(f) => ptr' = f
                            /\ \A f \in Fields : netif'[f] = IF s[1] = FieldRx(f) THEN stored[f] ELSE netif[f]
  <1>1. PICK o : o = s[1]
    OBVIOUS
  <1>2. o \in MainOps /\ o \in Xfers /\ o.op \in {"tx", "rx"} /\ Len(s) \in Nat \ {0}
    BY <1>1, TailFacts DEF Xfers
  <1>3. Transfer(o, d)
    BY <1>1
  <1>4. d \in {o.dev, "nobody"}
    BY <1>1
  <1>5. stray' = FALSE
    <2>1. stray' = (stray \/ d \notin {"nobody", o.dev})
      BY <1>3 DEF Transfer
    <2>2. d \in {"nobody", o.dev}
      BY <1>4
    <2>3. stray = FALSE
      BY DEF HistoryInv
    <2> QED
      BY <2>1, <2>2, <2>3, Zenon
  <1>6. CASE o.op = "tx"
    <2>1. o.what[1] # "set"
      BY <1>2, <1>6 DEF MainOps
    <2>2. Written(d, o.what)
      BY <1>3, <1>6 DEF Transfer
    <2>3. eeprom' = eeprom /\ netif' = netif /\ lost' = lost
      BY <1>3, <2>1, <2>2 DEF Transfer, Written
    <2>4. PICK w : w = o.what
      OBVIOUS
    <2>5. /\ ptr' = IF d = "eeprom" /\ w[1] = "ptr" THEN w[2] ELSE ptr
          /\ sipage' = IF d = "si5347" /\ w[1] = "page" THEN w[2] ELSE sipage
          /\ misplaced' = (misplaced \/ (d = "si5347" /\ w[1] = "reg" /\ w[2] # sipage))
      BY <2>2, <2>4 DEF Written
    <2>6. \A f \in Fields : o # FieldRx(f)
      BY <1>6 DEF FieldRx, Rx
    <2>7. misplaced \in BOOLEAN /\ (misplaced => nacks > 0)
      BY DEF HistoryInv
    <2>8. misplaced' \in BOOLEAN /\ (misplaced' => nacks' > 0)
      <3>1. CASE nacks' = nacks + 1
        <4>1. nacks' > 0
          BY <3>1
        <4>2. misplaced' \in BOOLEAN
          BY <2>5, <2>7, Zenon
        <4> QED
          BY <4>1, <4>2
      <3>2. CASE nacks' = nacks /\ nacks > 0
        <4>1. misplaced' \in BOOLEAN
          BY <2>5, <2>7, Zenon
        <4> QED
          BY <3>2, <4>1
      <3>3. CASE d = o.dev /\ nacks' = nacks /\ nacks = 0
        <4>1. ~(d = "si5347" /\ w[1] = "reg" /\ w[2] # sipage)
          <5>1. SUFFICES ASSUME d = "si5347", w[1] = "reg"
                         PROVE  w[2] = sipage
            OBVIOUS
          <5>2. PICK q \in Pages : o \in {PageTx(q), RegTx(q)}
            BY <1>2, <1>6, <3>3, <5>1 DEF MainOps
          <5>3. o = RegTx(q) /\ w[2] = q
            BY <2>4, <5>1, <5>2 DEF PageTx, RegTx, Tx
          <5>4. sipage = q
            <6>1. Paged(s, sipage) /\ 1 \in 1 .. Len(s) /\ OnPage(s[1], q)
              BY <1>1, <1>2, <3>3, <5>3 DEF OnPage
            <6> QED
              BY ONLY <6>1, q \in Pages DEF Paged
          <5> QED
            BY <5>3, <5>4
        <4>2. ~misplaced
          BY <2>7, <3>3
        <4>3. misplaced' = FALSE
          BY <2>5, <4>1, <4>2, Zenon
        <4> QED
          BY <4>3
      <3> QED
        BY <1>1, <3>1, <3>2, <3>3
    <2>9. ASSUME nacks' = 0
          PROVE  nacks = 0 /\ d = o.dev
      BY <1>1, <2>9
    <2>10. ASSUME NEW q \in Pages, d = o.dev
           PROVE  (o = PageTx(q) => sipage' = q) /\ (OnPage(o, q) => sipage' = sipage)
      <3>1. o = PageTx(q) => o.dev = "si5347" /\ w[1] = "page" /\ w[2] = q
        BY <2>4 DEF PageTx, Tx
      <3>2. OnPage(o, q) => w[1] # "page"
        BY <2>4 DEF OnPage, Keep, RegTx, Tx
      <3> QED
        BY <2>5, <2>10, <3>1, <3>2
    <2>11. ASSUME NEW f \in Fields, d = o.dev, o = PtrTx(f)
           PROVE  ptr' = f
      <3>1. o.dev = "eeprom" /\ w[1] = "ptr" /\ w[2] = f
        BY <2>4, <2>11 DEF PtrTx, Tx, Ptr
      <3> QED
        BY <2>5, <2>11, <3>1
    <2>12. netif' = [f \in Fields |-> netif'[f]]
      BY <2>3 DEF NetInv
    <2> QED
      BY <1>1, <1>5, <2>3, <2>6, <2>8, <2>9, <2>10, <2>11, <2>12
  <1>7. CASE o.op = "rx"
    <2>1. o.dev = "eeprom" /\ (o.what[2] \in Fields => o = FieldRx(o.what[2]))
      BY <1>2, <1>7 DEF MainOps
    <2>2. PICK g : g = o.what[2]
      OBVIOUS
    <2>3. Received(d, g) /\ lost' = lost
      BY <1>3, <1>7, <2>2 DEF Transfer
    <2>4. eeprom' = eeprom /\ misplaced' = misplaced /\ sipage' = sipage
      BY <2>3 DEF Received
    <2>5. misplaced' \in BOOLEAN /\ (misplaced' => nacks' > 0)
      BY <1>1, <2>4 DEF HistoryInv
    <2>6. netif = [f \in Fields |-> netif[f]]
      BY DEF NetInv
    <2>7. netif' = IF g \in Fields THEN [netif EXCEPT ![g] = data'] ELSE netif
      BY <2>3 DEF Received
    <2>8. netif' = [f \in Fields |-> netif'[f]]
      BY <2>6, <2>7
    <2>9. \A q \in Pages : o # PageTx(q)
      BY <1>7 DEF PageTx, Tx
    <2>10. \A f \in Fields : o # PtrTx(f) /\ (o = FieldRx(f) => f = g)
      BY <1>7, <2>2 DEF PtrTx, Tx, FieldRx, Rx
    <2>11. ASSUME nacks' = 0
           PROVE  nacks = 0 /\ d = "eeprom"
      BY <1>1, <2>1, <2>11
    <2>12. ASSUME nacks' = 0, NEW f \in Fields
           PROVE  netif'[f] = IF o = FieldRx(f) THEN stored[f] ELSE netif[f]
      <3>1. CASE g \in Fields
        <4>1. o = FieldRx(g)
          BY <2>1, <2>2, <3>1
        <4>2. ptr = g
          <5>1. Pointed(s, ptr) /\ 1 \in 1 .. Len(s) /\ s[1] = FieldRx(g)
            BY <1>1, <1>2, <2>11, <2>12, <4>1
          <5> QED
            BY ONLY <3>1, <5>1 DEF Pointed
        <4>3. data' = eeprom[g]
          BY <2>3, <2>11, <2>12, <3>1, <4>2 DEF Received
        <4>4. eeprom = stored
          BY DEF NetInv
        <4>5. netif'[g] = stored[g] /\ (f # g => netif'[f] = netif[f])
          BY <2>6, <2>7, <3>1, <4>3, <4>4
        <4> QED
          BY <2>10, <4>1, <4>5
      <3>2. CASE g \notin Fields
        BY <2>7, <2>10, <3>2
      <3> QED
        BY <3>1, <3>2
    <2> QED
      BY <1>1, <1>5, <2>3, <2>4, <2>5, <2>8, <2>9, <2>10, <2>11, <2>12
  <1> QED
    BY <1>2, <1>6, <1>7


-----------------------------------------------------------------------------
(* The invariant is inductive. *)

\* The menu thread has nothing to do.
LEMMA EmptyMenu ==
    ASSUME prog'["menu"] = <<>>, torn' = FALSE
    PROVE  MenuInv'
  <1>1. <<>> \in Seq(MenuOps) /\ Len(<<>>) = 0
    OBVIOUS
  <1> QED
    BY <1>1 DEF MenuInv, Opened, NextSet

LEMMA InitIInv ==
    ASSUME Init
    PROVE  IInv
  <1>1. prog = [t \in Threads |-> IF t = "main" THEN MainProg ELSE <<>>]
    BY DEF Init, Threads
  <1>2. prog["main"] = MainProg /\ prog["menu"] = <<>> /\ prog["status"] = <<>>
    BY <1>1 DEF Threads
  <1>3. MainProg \in Seq(Ops)
    BY MainProgFacts DEF Prog
  <1>4. mux = [m \in {0, 1} |-> mux[m]] /\ mux[0] = "none" /\ mux[1] = "none"
    BY DEF Init
  <1>5. "none" \in Ports(0) /\ "none" \in Ports(1)
    BY DEF Ports
  <1>6. BusInv
    <2>1. prog \in [Threads -> Seq(Ops)]
      BY <1>1, <1>3
    <2> QED
      BY <1>4, <1>5, <2>1 DEF BusInv, Init
  <1>7. MainInv
    BY <1>2, MainProgFacts, ProgStarts DEF MainInv, Init
  <1>8. StatusInv
    <2>1. Aimed(<<>>, mux)
      BY EmptyProg
    <2>2. <<>> \in Seq(StatusOps)
      OBVIOUS
    <2>3. status = "off"
      BY DEF Init
    <2> QED
      BY <1>2, <1>4, <2>1, <2>2, <2>3 DEF StatusInv
  <1>9. MenuInv
    <2>1. <<>> \in Seq(MenuOps) /\ Len(<<>>) = 0
      OBVIOUS
    <2>2. torn = FALSE
      BY DEF Init
    <2> QED
      BY <1>2, <2>1, <2>2 DEF MenuInv, Opened, NextSet
  <1>10. NetInv
    <2>1. /\ eeprom = [f \in Fields |-> <<f, "old">>] /\ stored = eeprom
          /\ netif = [f \in Fields |-> <<"none", "zero">>]
      BY DEF Init
    <2> QED
      BY <1>2, <2>1, MainProgFacts DEF NetInv
  <1>11. HistoryInv
    BY DEF HistoryInv, Init
  <1> QED
    BY <1>6, <1>7, <1>8, <1>9, <1>10, <1>11 DEF IInv

LEMMA MainStepIInv ==
    ASSUME IInv, MainStep, deaf' = FALSE
    PROVE  IInv'
  <1>0. BusInv /\ MainInv /\ StatusInv /\ MenuInv /\ NetInv /\ HistoryInv /\ status = "off" /\ stored' = stored
    BY DEF IInv, MainStep
  <1>1. prog["menu"] = <<>> /\ prog["status"] = <<>> /\ mux[0] \in {"none", "eeprom"}
    BY <1>0 DEF MenuInv, StatusInv
  <1>2a. torn = FALSE
    BY <1>0, <1>1 DEF MenuInv, TornSet
  <1>2. CASE prog["main"] # <<>>
    <2>1. Do("main") /\ status' = status
      BY <1>2 DEF MainStep
    <2>2. PICK s : s = prog["main"]
      OBVIOUS
    <2>3. s \in Seq(MainOps) /\ s # <<>> /\ Aimed(s, mux) /\ nacks \in Nat
      BY <1>0, <1>2, <2>2 DEF MainInv, BusInv
    <2>4. "main" \in Threads
      BY DEF Threads
    <2>5. /\ prog' = [prog EXCEPT !["main"] = Tail(s)] /\ mux' = After(s[1], mux) /\ s \in Seq(Ops)
          /\ torn' = torn
          /\ s[1] \notin Xfers =>
               UNCHANGED <<eeprom, ptr, sipage, data, netif, stray, misplaced, lost, nacks>>
      BY <1>0, <2>1, <2>2, <2>4, DoStep
    <2>6. BusInv'
      BY <1>0, <2>1, <2>4, DoKeepsBus
    <2>7. prog'["main"] = Tail(s) /\ prog'["menu"] = <<>> /\ prog'["status"] = <<>>
      BY <1>0, <1>1, <2>5 DEF BusInv, Threads
    <2>8. Aimed(Tail(s), mux')
      BY <1>0, <2>1, <2>2, <2>3, <2>4, AloneStep
    <2>9. Tail(s) \in Seq(MainOps) /\ s[1] \in MainOps
      BY <2>3, TailFacts
    <2>10. mux'[0] \in {"none", "eeprom"}
      <3>1. PICK o \in MainOps : o = s[1]
        BY <2>9
      <3>2. CASE o.op = "sel"
        <4>1. PICK m \in {0, 1} : o \in Selects(m) /\ o.mux = m
          BY <3>2, OpKinds DEF MainOps
        <4>2. mux' = [mux EXCEPT ![m] = o.port]
          BY <2>5, <3>1, <3>2, <4>1 DEF After
        <4>3. CASE m = 0
          <5>1. o.port = "eeprom"
            BY <4>1, <4>3 DEF MainOps, Sel
          <5> QED
            BY <1>0, <4>2, <4>3, <5>1 DEF BusInv
        <4>4. CASE m = 1
          BY <1>0, <1>1, <4>2, <4>4 DEF BusInv
        <4> QED
          BY <4>3, <4>4
      <3>3. CASE o.op # "sel"
        BY <1>1, <2>5, <3>1, <3>3 DEF After
      <3> QED
        BY <3>2, <3>3
    <2>11. /\ eeprom' = eeprom /\ lost' = lost /\ stray' = FALSE
           /\ netif' = [f \in Fields |-> netif'[f]]
           /\ misplaced' \in BOOLEAN /\ (misplaced' => nacks' > 0)
           /\ nacks' = 0 => /\ nacks = 0
                            /\ \A q \in Pages : /\ s[1] = PageTx(q) => sipage' = q
                                                /\ OnPage(s[1], q) => sipage' = sipage
                            /\ \A f \in Fields : s[1] = PtrTx(f) => ptr' = f
                            /\ \A f \in Fields : netif'[f] = IF s[1] = FieldRx(f) THEN stored[f] ELSE netif[f]
      <3>1. CASE s[1] \in Xfers
        <4>1. \/ Transfer(s[1], s[1].dev) /\ nacks' = nacks
              \/ Transfer(s[1], "nobody") /\ nacks' = nacks + 1
          BY <1>0, <2>1, <2>2, <2>3, <2>4, <3>1, AloneStep
        <4>2. PICK d : Transfer(s[1], d) /\ ((d = s[1].dev /\ nacks' = nacks) \/ (d = "nobody" /\ nacks' = nacks + 1))
          <5> HIDE DEF Transfer
          <5> QED
            BY <4>1
        <4>3. nacks = 0 => Paged(s, sipage) /\ Pointed(s, ptr)
          BY <1>0, <2>2 DEF MainInv
        <4> QED
          BY <1>0, <2>2, <2>3, <3>1, <4>2, <4>3, MainTransfer
      <3>2. CASE s[1] \notin Xfers
        <4>1. UNCHANGED <<eeprom, ptr, sipage, data, netif, stray, misplaced, lost, nacks>>
          BY <2>5, <3>2
        <4>2. \A q \in Pages : s[1] # PageTx(q)
          BY <3>2, SiOps DEF To
        <4>3. \A f \in Fields : s[1] # PtrTx(f) /\ s[1] # FieldRx(f)
          BY <3>2, EepromOps DEF To
        <4>4. netif = [f \in Fields |-> netif[f]]
          BY <1>0 DEF NetInv
        <4>5. stray = FALSE /\ misplaced \in BOOLEAN /\ (misplaced => nacks > 0)
          BY <1>0 DEF HistoryInv
        <4> QED
          BY <4>1, <4>2, <4>3, <4>4, <4>5
      <3> QED
        BY <3>1, <3>2
    <2>12. MainInv'
      <3>1. ASSUME nacks' = 0
            PROVE  Paged(Tail(s), sipage') /\ Pointed(Tail(s), ptr')
        <4>1. Paged(s, sipage) /\ Pointed(s, ptr)
          BY <1>0, <2>2, <2>11, <3>1 DEF MainInv
        <4>2. Paged(Tail(s), sipage')
          BY <2>3, <2>5, <2>11, <3>1, <4>1, PagedTail
        <4>3. Pointed(Tail(s), ptr')
          BY <2>3, <2>5, <2>11, <3>1, <4>1, PointedTail
        <4> QED
          BY <4>2, <4>3
      <3> QED
        BY <1>0, <2>1, <2>7, <2>8, <2>9, <3>1 DEF MainInv
    <2>13. StatusInv'
      BY <1>0, <2>1, <2>7, <2>10, EmptyProg DEF StatusInv
    <2>14. MenuInv'
      BY <1>2a, <2>5, <2>7, EmptyMenu
    <2>15. NetInv'
      <3>1. ASSUME nacks' = 0, NEW f \in Fields
            PROVE  netif'[f] = stored'[f] \/ Has(Tail(s), FieldRx(f))
        <4>1. netif[f] = stored[f] \/ Has(s, FieldRx(f))
          BY <1>0, <2>2, <2>11, <3>1 DEF NetInv
        <4>2. netif'[f] = IF s[1] = FieldRx(f) THEN stored[f] ELSE netif[f]
          BY <2>11, <3>1
        <4>3. CASE s[1] = FieldRx(f)
          BY <1>0, <4>2, <4>3
        <4>4. CASE s[1] # FieldRx(f)
          BY <1>0, <2>3, <4>1, <4>2, <4>4, HasTail
        <4> QED
          BY <4>3, <4>4
      <3> QED
        BY <1>0, <2>1, <2>7, <2>11, <3>1 DEF NetInv
    <2>16. HistoryInv'
      BY <1>0, <2>11 DEF HistoryInv
    <2> QED
      BY <2>6, <2>12, <2>13, <2>14, <2>15, <2>16 DEF IInv
  <1>3. CASE prog["main"] = <<>>
    <2>1. status' = "accept" /\ UNCHANGED <<bus, nacks>>
      BY <1>3 DEF MainStep
    <2>2. UNCHANGED <<mux, prog, eeprom, ptr, sipage, torn, netif, stray, misplaced, nacks>>
      BY <2>1 DEF bus
    <2>3. BusInv'
      BY <1>0, <2>1, <2>2 DEF BusInv
    <2>4. MainInv'
      BY <1>0, <1>3, <2>1, <2>2 DEF MainInv
    <2>5. StatusInv'
      BY <1>0, <1>1, <2>1, <2>2 DEF StatusInv
    <2>6. MenuInv'
      BY <1>1, <1>2a, <2>2, EmptyMenu
    <2>7. NetInv'
      BY <1>0, <2>1, <2>2 DEF NetInv
    <2>8. HistoryInv'
      BY <1>0, <2>2 DEF HistoryInv
    <2> QED
      BY <2>3, <2>4, <2>5, <2>6, <2>7, <2>8 DEF IInv
  <1> QED
    BY <1>2, <1>3


\* A step that leaves all of this alone.
LEMMA StutterIInv ==
    ASSUME IInv,
           UNCHANGED <<mux, prog, status, eeprom, ptr, sipage, torn, netif, nacks, stored, stray, misplaced, lost>>
    PROVE  IInv'
  <1>1. BusInv' /\ MainInv' /\ StatusInv'
    BY DEF IInv, BusInv, MainInv, StatusInv
  <1>2. MenuInv'
    BY DEF IInv, MenuInv, NextSet, TornSet
  <1>3. NetInv' /\ HistoryInv'
    BY DEF IInv, NetInv, HistoryInv
  <1> QED
    BY <1>1, <1>2, <1>3 DEF IInv

\* What an operation of the menu thread does: the EEPROM answers, or nobody.
LEMMA MenuTransfer ==
    ASSUME IInv, MenuRuns, torn = FALSE, Do("menu"), deaf' = FALSE, NEW s, s = prog["menu"]
    PROVE  /\ prog' = [prog EXCEPT !["menu"] = Tail(s)] /\ mux'[0] \in {"none", "eeprom"}
           /\ torn' = torn
           /\ s[1] = Sel(0, "eeprom") => mux'[0] = "eeprom"
           /\ stray' = FALSE /\ misplaced' = misplaced /\ netif' = netif
           /\ nacks' = 0 => nacks = 0
           /\ nacks' >= nacks
           /\ lost \subseteq lost'
           /\ eeprom' = [f \in Fields |-> eeprom'[f]]
           /\ \A f \in Fields : /\ eeprom'[f] \in {eeprom[f], <<f, "new">>}
                                /\ s[1] = SetTx(f) => eeprom'[f] = <<f, "new">> \/ f \in lost'
  <1>0. BusInv /\ StatusInv /\ MenuInv /\ NetInv /\ HistoryInv /\ status # "burst" /\ "menu" \in Threads
    BY DEF IInv, MenuRuns, Threads
  <1>1. mux[0] \in {"none", "eeprom"} /\ s \in Seq(MenuOps) /\ nacks \in Nat
    BY <1>0 DEF StatusInv, MenuInv, BusInv
  <1>2. /\ s # <<>> /\ prog' = [prog EXCEPT !["menu"] = Tail(s)] /\ mux' = After(s[1], mux)
        /\ torn' = torn
        /\ \/ /\ s[1] \notin Xfers
              /\ UNCHANGED <<eeprom, ptr, sipage, data, netif, stray, misplaced, lost, nacks>>
           \/ /\ s[1] \in Xfers
              /\ \E d \in Hearing(s[1].addr) \cup {"nobody"} :
                    /\ Transfer(s[1], d)
                    /\ \/ nacks' = nacks /\ (d \in Hearing(s[1].addr) \/ Hearing(s[1].addr) = {})
                       \/ nacks' = nacks + 1 /\ d = "nobody"
    BY <1>0, DoStep
  <1>3. PICK o \in MenuOps : o = s[1]
    BY <1>1, <1>2, TailFacts
  <1>4. o \in Ops /\ (o \in Xfers => o.dev = "eeprom" /\ o.addr = "50")
    BY MenuProgFacts
  <1>5. eeprom = [f \in Fields |-> eeprom[f]] /\ stray = FALSE /\ misplaced \in BOOLEAN
    BY <1>0 DEF NetInv, HistoryInv
  <1>6. CASE o \notin Xfers
    <2>1. UNCHANGED <<eeprom, netif, stray, misplaced, lost, nacks>>
      BY <1>2, <1>3, <1>6
    <2>2. \A f \in Fields : o # SetTx(f)
      BY <1>6, EepromOps DEF To
    <2>3. "ip" \in Fields \cup {"mac", "dump"} /\ "dump" \in Fields \cup {"mac", "dump"}
      BY DEF Fields
    <2>4. PtrTx("ip") \in Xfers /\ FieldRx("dump") \in Xfers
      BY <2>3, EepromOps DEF To
    <2>5. o = Sel(0, "eeprom")
      BY <1>6, <2>2, <2>4 DEF MenuOps
    <2>6. o.op = "sel" /\ o.mux = 0 /\ o.port = "eeprom"
      BY <2>5 DEF Sel
    <2>7. mux'[0] = "eeprom"
      BY <1>0, <1>2, <1>3, <2>6 DEF After, BusInv
    <2> QED
      BY <1>1, <1>2, <1>3, <1>5, <2>1, <2>2, <2>7
  <1>7. CASE o \in Xfers
    <2>1. PICK d \in Hearing("50") \cup {"nobody"} :
             /\ Transfer(o, d)
             /\ \/ nacks' = nacks /\ (d \in Hearing("50") \/ Hearing("50") = {})
                \/ nacks' = nacks + 1 /\ d = "nobody"
      <3> HIDE DEF Transfer
      <3> QED
        BY <1>2, <1>3, <1>4, <1>7
    <2>2. d \in {"eeprom", "nobody"}
      BY <1>0, <1>1, <2>1, HeardByEeprom
    <2>3. mux' = mux
      BY <1>2, <1>3, <1>7 DEF After, Xfers
    <2>4. stray' = FALSE
      <3>1. stray' = (stray \/ d \notin {"nobody", o.dev})
        BY <2>1 DEF Transfer
      <3>2. d \in {"nobody", o.dev}
        BY <1>4, <1>7, <2>2
      <3> QED
        BY <1>5, <3>1, <3>2, Zenon
    <2>5. lost \subseteq lost'
      BY <2>1 DEF Transfer
    <2>9. s[1] # Sel(0, "eeprom")
      BY <1>3, <1>7 DEF Xfers, Sel
    <2>6. nacks' >= nacks /\ (nacks' = 0 => nacks = 0)
      BY <1>1, <2>1
    <2>7. CASE o.op = "tx"
      <3>1. Written(d, o.what) /\ d # "si5347"
        BY <2>1, <2>2, <2>7 DEF Transfer
      <3>2. netif' = netif
        BY <3>1 DEF Written
      <3>3. misplaced' = misplaced
        <4>1. misplaced' = (misplaced \/ (d = "si5347" /\ o.what[1] = "reg" /\ o.what[2] # sipage))
          BY <3>1 DEF Written
        <4> QED
          BY <1>5, <3>1, <4>1, Zenon
      <3>4. PICK w : w = o.what
        OBVIOUS
      <3>5. eeprom' = IF d = "eeprom" /\ w[1] = "set" THEN [eeprom EXCEPT ![w[2]] = <<w[2], "new">>] ELSE eeprom
        BY <3>1, <3>4 DEF Written
      <3>6. eeprom' = [f \in Fields |-> eeprom'[f]]
        BY <1>5, <3>5
      <3>7. \A f \in Fields : eeprom'[f] \in {eeprom[f], <<f, "new">>}
        BY <1>5, <3>5
      <3>8. ASSUME NEW f \in Fields, o = SetTx(f)
            PROVE  eeprom'[f] = <<f, "new">> \/ f \in lost'
        <4>1. w[1] = "set" /\ w[2] = f
          BY <3>4, <3>8, EepromOps
        <4>2. CASE d = "eeprom"
          BY <1>5, <3>5, <4>1, <4>2
        <4>3. CASE d = "nobody" /\ f \notin lost
          <5>1. mux[0] = "eeprom"
            BY <1>0, <1>2, <1>3, <3>8, <4>3 DEF MenuInv, NextSet
          <5>2. Hearing("50") # {}
            BY <1>0, <5>1, HeardByEeprom
          <5>3. lost' = lost \cup {f}
            BY <1>4, <1>7, <2>1, <2>7, <3>4, <4>1, <4>3, <5>2 DEF Transfer
          <5> QED
            BY <5>3
        <4> QED
          BY <2>2, <2>5, <4>2, <4>3
      <3> QED
        BY <1>1, <1>2, <1>3, <2>3, <2>4, <2>5, <2>6, <2>9, <3>2, <3>3, <3>6, <3>7, <3>8
    <2>8. CASE o.op = "rx"
      <3>1. Received(d, o.what[2])
        BY <2>1, <2>8 DEF Transfer
      <3>2. o.what[2] = "dump"
        <4>1. "ip" \in Fields
          BY DEF Fields
        <4>2. PtrTx("ip").op = "tx" /\ (\A f \in Fields : SetTx(f).op = "tx") /\ Sel(0, "eeprom").op = "sel"
          BY <4>1, EepromOps DEF Sel
        <4>3. o = FieldRx("dump")
          BY <2>8, <4>2 DEF MenuOps
        <4> QED
          BY <4>3 DEF FieldRx, Rx
      <3>3. "dump" \notin Fields
        BY DEF Fields
      <3>4. netif' = netif /\ eeprom' = eeprom /\ misplaced' = misplaced
        BY <3>1, <3>2, <3>3 DEF Received
      <3>5. \A f \in Fields : o # SetTx(f)
        BY <2>8, EepromOps
      <3> QED
        BY <1>1, <1>2, <1>3, <1>5, <2>3, <2>4, <2>5, <2>6, <2>9, <3>4, <3>5
    <2> QED
      BY <1>7, <2>7, <2>8 DEF Xfers
  <1> QED
    BY <1>6, <1>7

\* What program_ip has done is stored, or its loss is on record.
LEMMA MenuSaves ==
    ASSUME IInv, MenuRuns, torn = FALSE, Do("menu"), deaf' = FALSE, NEW s, s = prog["menu"], s[Len(s)] = SetTx("gw")
    PROVE  \A f \in Fields : eeprom'[f] = <<f, "new">> \/ Has(Tail(s), SetTx(f)) \/ f \in lost'
  <1>1. MenuInv /\ s # <<>> /\ s \in Seq(MenuOps)
    BY DEF IInv, MenuInv, Do
  <1>2. SUFFICES ASSUME NEW f \in Fields
                 PROVE  eeprom'[f] = <<f, "new">> \/ Has(Tail(s), SetTx(f)) \/ f \in lost'
    OBVIOUS
  <1>3. /\ lost \subseteq lost'
        /\ eeprom'[f] \in {eeprom[f], <<f, "new">>}
        /\ s[1] = SetTx(f) => eeprom'[f] = <<f, "new">> \/ f \in lost'
    BY MenuTransfer
  <1>4. eeprom[f] = <<f, "new">> \/ Has(s, SetTx(f)) \/ f \in lost
    BY <1>1, <1>3 DEF MenuInv
  <1>5. CASE eeprom[f] = <<f, "new">>
    BY <1>3, <1>5
  <1>6. CASE Has(s, SetTx(f))
    BY <1>1, <1>3, <1>6, HasTail
  <1> QED
    BY <1>3, <1>4, <1>5, <1>6

\* What is left of a menu command is one still.
LEMMA OpenedTail ==
    ASSUME NEW s \in Seq(MenuOps), s # <<>>, Opened(s)
    PROVE  Opened(Tail(s))
  <1>1. /\ Len(s) \in Nat \ {0} /\ Len(Tail(s)) = Len(s) - 1
        /\ \A i \in 1 .. Len(s) - 1 : Tail(s)[i] = s[i + 1]
    BY TailFacts
  <1>2. SUFFICES ASSUME NEW i \in 2 .. Len(Tail(s)), NEW f \in Fields, Tail(s)[i] = SetTx(f)
                 PROVE  Tail(s)[i - 1] = Sel(0, "eeprom")
    BY DEF Opened
  <1>3. i \in 1 .. Len(s) - 1 /\ i - 1 \in 1 .. Len(s) - 1 /\ i + 1 \in 2 .. Len(s)
        /\ (i + 1) - 1 = i /\ (i - 1) + 1 = i
    BY <1>1
  <1>4. s[i + 1] = SetTx(f)
    BY <1>1, <1>2, <1>3
  <1>5. s[i] = Sel(0, "eeprom")
    BY <1>3, <1>4 DEF Opened
  <1> QED
    BY <1>1, <1>3, <1>5

LEMMA MenuDoIInv ==
    ASSUME IInv, MenuRuns, torn = FALSE, Do("menu"), deaf' = FALSE, status' = status, stored' = stored
    PROVE  IInv'
  <1>0. BusInv /\ MainInv /\ StatusInv /\ MenuInv /\ NetInv /\ HistoryInv /\ status \notin {"off", "burst"}
    BY DEF IInv, MenuRuns
  <1>1. PICK s : s = prog["menu"]
    OBVIOUS
  <1>2. /\ prog' = [prog EXCEPT !["menu"] = Tail(s)] /\ mux'[0] \in {"none", "eeprom"}
        /\ stray' = FALSE /\ misplaced' = misplaced /\ netif' = netif
        /\ nacks' = 0 => nacks = 0
        /\ nacks' >= nacks
        /\ torn' = FALSE /\ (s[1] = Sel(0, "eeprom") => mux'[0] = "eeprom")
        /\ eeprom' = [f \in Fields |-> eeprom'[f]]
        /\ \A f \in Fields : eeprom'[f] \in {eeprom[f], <<f, "new">>}
    BY <1>1, MenuTransfer
  <1>3. prog["main"] = <<>> /\ prog["status"] = <<>> /\ s \in Seq(MenuOps) /\ s # <<>>
    BY <1>0, <1>1 DEF MainInv, StatusInv, MenuInv, Do
  <1>4. prog'["main"] = <<>> /\ prog'["status"] = <<>> /\ prog'["menu"] = Tail(s)
    BY <1>0, <1>2, <1>3 DEF BusInv, Threads
  <1>5. BusInv'
    BY <1>0, DoKeepsBus DEF Threads
  <1>6. MainInv'
    <2>1. Aimed(<<>>, mux') /\ Paged(<<>>, sipage') /\ Pointed(<<>>, ptr')
      BY EmptyProg
    <2>2. <<>> \in Seq(MainOps)
      OBVIOUS
    <2> QED
      BY <1>4, <2>1, <2>2 DEF MainInv
  <1>7. StatusInv'
    <2>1. Aimed(<<>>, mux')
      BY EmptyProg
    <2>2. <<>> \in Seq(StatusOps)
      OBVIOUS
    <2> QED
      BY <1>0, <1>2, <1>4, <2>1, <2>2 DEF StatusInv
  <1>8. MenuInv'
    <2>1. /\ Tail(s) \in Seq(MenuOps) /\ Len(s) \in Nat \ {0} /\ Len(Tail(s)) = Len(s) - 1
          /\ \A i \in 1 .. Len(s) - 1 : Tail(s)[i] = s[i + 1]
      BY <1>3, TailFacts
    <2>2. ASSUME Tail(s) # <<>>, Tail(s)[Len(Tail(s))] = SetTx("gw")
          PROVE  \A f \in Fields : eeprom'[f] = <<f, "new">> \/ Has(Tail(s), SetTx(f)) \/ f \in lost'
      <3>1. Len(Tail(s)) \in 1 .. Len(s) - 1
        BY <2>1, <2>2
      <3>2. s[Len(s)] = SetTx("gw")
        BY <2>1, <2>2, <3>1
      <3> QED
        BY <1>1, <2>2, <3>2, MenuSaves
    <2>3. Opened(s)
      BY <1>0, <1>1 DEF MenuInv
    <2>4. Opened(Tail(s))
      BY <1>3, <2>3, OpenedTail
    <2>5. ASSUME NEW f \in Fields, Tail(s) # <<>>, Tail(s)[1] = SetTx(f)
          PROVE  mux'[0] = "eeprom"
      <3>1. 2 \in 2 .. Len(s) /\ Tail(s)[1] = s[2] /\ 2 - 1 = 1
        BY <2>1, <2>5
      <3>2. s[1] = Sel(0, "eeprom")
        BY <2>3, <2>5, <3>1 DEF Opened
      <3> QED
        BY <1>2, <3>2
    <2>6. NextSet(Tail(s))'
      BY <1>0, <1>2, <1>4, <2>5 DEF NextSet
    <2> QED
      BY <1>0, <1>2, <1>4, <2>1, <2>2, <2>4, <2>6 DEF MenuInv
  <1>9. NetInv'
    <2>1. \A f \in Fields : eeprom'[f] \in {<<f, "old">>, <<f, "new">>}
      BY <1>0, <1>2 DEF NetInv
    <2>2. nacks' = 0 => \A f \in Fields : netif'[f] = stored'[f] \/ Has(prog'["main"], FieldRx(f))
      BY <1>0, <1>2, <1>3, <1>4 DEF NetInv
    <2>3. stored' = [f \in Fields |-> stored'[f]] /\ netif' = [f \in Fields |-> netif'[f]]
      BY <1>0, <1>2 DEF NetInv
    <2> QED
      BY <1>0, <1>2, <2>1, <2>2, <2>3 DEF NetInv
  <1>10. HistoryInv'
    <2>1. nacks \in Nat /\ nacks' \in Nat
      BY <1>0, <1>5 DEF BusInv
    <2> QED
      BY <1>0, <1>2, <2>1 DEF HistoryInv
  <1> QED
    BY <1>5, <1>6, <1>7, <1>8, <1>9, <1>10 DEF IInv

\* What a torn transfer leaves undone is on record.
LEMMA MenuTornSaves ==
    ASSUME IInv, MenuTorn, NEW s, s = prog["menu"]
    PROVE  /\ s \in Seq(MenuOps) /\ s # <<>> /\ prog' = [prog EXCEPT !["menu"] = Tail(s)]
           /\ UNCHANGED <<mux, status, eeprom, ptr, sipage, netif, nacks, stored, stray, misplaced, lost>>
           /\ torn' = FALSE
           /\ \A f \in Fields : s[1] = SetTx(f) => f \in lost
           /\ s[Len(s)] = SetTx("gw") =>
                 \A f \in Fields : eeprom[f] = <<f, "new">> \/ Has(Tail(s), SetTx(f)) \/ f \in lost
  <1>0. MenuInv /\ BusInv
    BY DEF IInv
  <1>1. torn # FALSE
    BY Zenon DEF MenuTorn
  <1>2. s \in Seq(MenuOps) /\ s # <<>> /\ NextSet(s)
    BY <1>0, <1>1 DEF MenuInv, TornSet
  <1>3. \A f \in Fields : s[1] = SetTx(f) => f \in lost
    BY <1>1, <1>2 DEF NextSet
  <1>4. /\ prog' = [prog EXCEPT !["menu"] = Tail(s)] /\ torn' = FALSE
        /\ UNCHANGED <<mux, status, eeprom, ptr, sipage, netif, nacks, stored, stray, misplaced, lost>>
    BY <1>0 DEF MenuTorn, counts, history, BusInv
  <1>5. ASSUME s[Len(s)] = SetTx("gw"), NEW f \in Fields
        PROVE  eeprom[f] = <<f, "new">> \/ Has(Tail(s), SetTx(f)) \/ f \in lost
    <2>1. eeprom[f] = <<f, "new">> \/ Has(s, SetTx(f)) \/ f \in lost
      BY <1>0, <1>2, <1>5 DEF MenuInv
    <2>2. CASE Has(s, SetTx(f))
      BY <1>2, <1>3, <2>2, HasTail
    <2> QED
      BY <2>1, <2>2
  <1> QED
    BY <1>2, <1>3, <1>4, <1>5

LEMMA MenuTornIInv ==
    ASSUME IInv, MenuTorn
    PROVE  IInv'
  <1>0. BusInv /\ MainInv /\ StatusInv /\ MenuInv /\ NetInv /\ HistoryInv /\ status \notin {"off", "burst"}
    BY DEF IInv, MenuTorn, MenuRuns
  <1>1. PICK s : s = prog["menu"]
    OBVIOUS
  <1>2. /\ s \in Seq(MenuOps) /\ s # <<>> /\ prog' = [prog EXCEPT !["menu"] = Tail(s)]
        /\ UNCHANGED <<mux, status, eeprom, ptr, sipage, netif, nacks, stored, stray, misplaced, lost>>
        /\ torn' = FALSE
        /\ s[Len(s)] = SetTx("gw") =>
              \A f \in Fields : eeprom[f] = <<f, "new">> \/ Has(Tail(s), SetTx(f)) \/ f \in lost
    BY <1>1, MenuTornSaves
  <1>3. prog["main"] = <<>> /\ prog["status"] = <<>> /\ s \in Seq(Ops)
    BY <1>0, <1>1 DEF MainInv, StatusInv, BusInv, Threads
  <1>4. prog'["main"] = <<>> /\ prog'["status"] = <<>> /\ prog'["menu"] = Tail(s)
    BY <1>0, <1>2, <1>3 DEF BusInv, Threads
  <1>5. /\ Tail(s) \in Seq(MenuOps) /\ Len(s) \in Nat \ {0} /\ Len(Tail(s)) = Len(s) - 1
        /\ \A i \in 1 .. Len(s) - 1 : Tail(s)[i] = s[i + 1]
    BY <1>2, TailFacts
  <1>6. BusInv'
    <2>1. Tail(s) \in Seq(Ops)
      BY <1>2, <1>3, TailFacts
    <2>2. prog' \in [Threads -> Seq(Ops)]
      BY <1>0, <1>2, <2>1 DEF BusInv
    <2> QED
      BY <1>0, <1>2, <2>2 DEF BusInv
  <1>7. MainInv'
    BY <1>0, <1>2, <1>3, <1>4 DEF MainInv
  <1>8. StatusInv'
    BY <1>0, <1>2, <1>3, <1>4 DEF StatusInv
  <1>9. MenuInv'
    <2>1. Opened(Tail(s))
      BY <1>0, <1>1, <1>2, OpenedTail DEF MenuInv
    <2>2. torn # FALSE
      BY Zenon DEF MenuTorn
    <2>3. ASSUME NEW f \in Fields, Tail(s) # <<>>, Tail(s)[1] = SetTx(f)
          PROVE  f \in lost
      <3>1. Len(s) > 1 /\ s[2] = SetTx(f)
        BY <1>5, <2>3
      <3>2. TornSet(s)
        BY <1>0, <1>1, <2>2 DEF MenuInv
      <3> QED
        BY <3>1, <3>2 DEF TornSet
    <2>4. NextSet(Tail(s))'
      BY <1>2, <2>3 DEF NextSet
    <2>5. ASSUME Tail(s) # <<>>, Tail(s)[Len(Tail(s))] = SetTx("gw")
          PROVE  s[Len(s)] = SetTx("gw")
      <3>1. Len(Tail(s)) \in 1 .. Len(s) - 1
        BY <1>5, <2>5
      <3> QED
        BY <1>5, <2>5, <3>1
    <2> QED
      BY <1>0, <1>2, <1>4, <1>5, <2>1, <2>4, <2>5 DEF MenuInv
  <1>10. NetInv'
    BY <1>0, <1>2, <1>3, <1>4 DEF NetInv
  <1>11. HistoryInv'
    BY <1>0, <1>2 DEF HistoryInv
  <1> QED
    BY <1>6, <1>7, <1>8, <1>9, <1>10, <1>11 DEF IInv

LEMMA MenuStepIInv ==
    ASSUME IInv, MenuStep, deaf' = FALSE, torn \in BOOLEAN
    PROVE  IInv'
  <1>0. BusInv /\ MainInv /\ StatusInv /\ MenuInv /\ NetInv /\ HistoryInv
    BY DEF IInv
  <1>1. CASE MenuCommand
    <2>1. status \notin {"off", "burst"} /\ prog["main"] = <<>> /\ prog["status"] = <<>>
      BY <1>0, <1>1 DEF MenuCommand, MenuRuns, MainInv, StatusInv
    <2>2. PICK p \in {DumpProg, ProgramIp} : prog' = [prog EXCEPT !["menu"] = p]
      BY <1>1 DEF MenuCommand
    <2>3. UNCHANGED <<mux, status, eeprom, ptr, sipage, torn, netif, nacks, stored, stray, misplaced>>
      BY <1>1 DEF MenuCommand
    <2>4. p \in Seq(MenuOps) /\ p \in Seq(Ops)
      BY MenuProgFacts
    <2>5. prog'["main"] = <<>> /\ prog'["status"] = <<>> /\ prog'["menu"] = p
      BY <1>0, <2>1, <2>2 DEF BusInv, Threads
    <2>6. BusInv'
      BY <1>0, <2>2, <2>3, <2>4 DEF BusInv
    <2>7. MainInv'
      BY <1>0, <2>1, <2>3, <2>5 DEF MainInv
    <2>8. StatusInv'
      BY <1>0, <2>1, <2>3, <2>5 DEF StatusInv
    <2>9. MenuInv'
      <3>1. torn' = FALSE
        BY <1>0, <1>1, <2>3 DEF MenuInv, MenuCommand, TornSet
      <3>2. Opened(p) /\ \A f \in Fields : p[1] # SetTx(f)
        BY MenuProgFacts
      <3>3. NextSet(p)'
        BY <3>2 DEF NextSet
      <3>4. p[Len(p)] = SetTx("gw") => \A f \in Fields : Has(p, SetTx(f))
        BY MenuProgFacts
      <3> QED
        BY <2>1, <2>3, <2>4, <2>5, <3>1, <3>2, <3>3, <3>4 DEF MenuInv
    <2>10. NetInv'
      BY <1>0, <2>1, <2>3, <2>5 DEF NetInv
    <2>11. HistoryInv'
      BY <1>0, <2>3 DEF HistoryInv
    <2> QED
      BY <2>6, <2>7, <2>8, <2>9, <2>10, <2>11 DEF IInv
  <1>2. CASE MenuHolds
    <2>1. UNCHANGED <<mux, prog, status, eeprom, ptr, sipage, torn, netif, nacks, stored, stray, misplaced, lost>>
      BY <1>2 DEF MenuHolds, counts, history
    <2> QED
      BY <1>0, <2>1, StutterIInv DEF IInv
  <1>3. CASE MenuReleases
    <2>1. status \notin {"off", "burst"} /\ prog["main"] = <<>> /\ prog["status"] = <<>>
      BY <1>0, <1>3 DEF MenuReleases, MenuRuns, MainInv, StatusInv
    <2>2. /\ UNCHANGED <<mux, status, eeprom, sipage, netif, nacks, stored, stray, misplaced>>
          /\ torn' = FALSE /\ prog' = [prog EXCEPT !["menu"] = <<>>]
      BY <1>3 DEF MenuReleases, counts, history
    <2>3. prog'["main"] = <<>> /\ prog'["status"] = <<>> /\ prog'["menu"] = <<>>
      BY <1>0, <2>1, <2>2 DEF BusInv, Threads
    <2>4. BusInv'
      <3>1. <<>> \in Seq(Ops)
        OBVIOUS
      <3>2. prog' \in [Threads -> Seq(Ops)]
        BY <1>0, <2>2, <3>1 DEF BusInv
      <3> QED
        BY <1>0, <2>2, <3>2 DEF BusInv
    <2>5. MainInv'
      <3>1. Pointed(<<>>, ptr')
        BY EmptyProg
      <3> QED
        BY <1>0, <2>1, <2>2, <2>3, <3>1 DEF MainInv
    <2>6. StatusInv'
      BY <1>0, <2>1, <2>2, <2>3 DEF StatusInv
    <2>7. MenuInv'
      BY <2>2, <2>3, EmptyMenu
    <2>8. NetInv'
      BY <1>0, <2>1, <2>2, <2>3 DEF NetInv
    <2>9. HistoryInv'
      BY <1>0, <2>2 DEF HistoryInv
    <2> QED
      BY <2>4, <2>5, <2>6, <2>7, <2>8, <2>9 DEF IInv
  <1>4. CASE MenuRuns /\ ~torn /\ Do("menu") /\ UNCHANGED <<status, stored, menus, bursts, boots>>
    <2>1. torn = FALSE
      BY <1>4, Zenon
    <2> QED
      BY <1>4, <2>1, MenuDoIInv
  <1>5. CASE MenuTorn
    BY <1>5, MenuTornIInv
  <1> QED
    BY <1>1, <1>2, <1>3, <1>4, <1>5 DEF MenuStep

LEMMA StatusOpIInv ==
    ASSUME IInv, StatusOp, deaf' = FALSE
    PROVE  IInv'
  <1>0. BusInv /\ MainInv /\ StatusInv /\ MenuInv /\ NetInv /\ HistoryInv /\ status = "burst" /\ "status" \in Threads
    BY DEF IInv, StatusOp, Threads
  <1>1. Do("status") /\ UNCHANGED <<status, stored>>
    BY DEF StatusOp
  <1>2. PICK s : s = prog["status"]
    OBVIOUS
  <1>3. s \in Seq(StatusOps) /\ Aimed(s, mux) /\ prog["main"] = <<>> /\ nacks \in Nat
    BY <1>0, <1>2 DEF StatusInv, MainInv, BusInv
  <1>4. /\ s \in Seq(Ops) /\ s # <<>> /\ prog' = [prog EXCEPT !["status"] = Tail(s)] /\ mux' = After(s[1], mux)
        /\ torn' = torn
        /\ s[1] \notin Xfers => UNCHANGED <<eeprom, ptr, sipage, data, netif, stray, misplaced, lost, nacks>>
    BY <1>0, <1>1, <1>2, DoStep
  <1>5. /\ Aimed(Tail(s), mux')
        /\ s[1] \in Xfers => \/ Transfer(s[1], s[1].dev) /\ nacks' = nacks
                             \/ Transfer(s[1], "nobody") /\ nacks' = nacks + 1
    BY <1>0, <1>1, <1>2, <1>3, AloneStep
  <1>6. prog'["main"] = <<>> /\ prog'["menu"] = prog["menu"] /\ prog'["status"] = Tail(s)
    BY <1>0, <1>3, <1>4 DEF BusInv, Threads
  <1>7. Tail(s) \in Seq(StatusOps) /\ s[1] \in StatusOps /\ Len(s) \in Nat \ {0} /\ Len(Tail(s)) = Len(s) - 1
    BY <1>3, <1>4, TailFacts
  <1>8. BusInv'
    BY <1>0, <1>1, DoKeepsBus
  <1>9. /\ UNCHANGED <<eeprom, netif, misplaced, lost>> /\ stray' = FALSE
        /\ nacks' >= nacks /\ (nacks' = 0 => nacks = 0)
    <2>1. stray = FALSE /\ misplaced \in BOOLEAN
      BY <1>0 DEF HistoryInv
    <2>2. CASE s[1] \notin Xfers
      BY <1>3, <1>4, <2>1, <2>2
    <2>3. CASE s[1] \in Xfers
      <3>1. PICK o \in Xfers : o = s[1]
        BY <2>3
      <3>2. /\ o.dev \notin {"eeprom", "si5347"} /\ o.op \in {"tx", "rx"}
            /\ IF o.op = "tx" THEN o.what[1] # "set" ELSE o.what[2] \notin Fields
        BY <1>7, <3>1 DEF StatusOps, Xfers
      <3>3. PICK d \in {o.dev, "nobody"} : Transfer(o, d)
        BY <1>5, <2>3, <3>1
      <3>4. nacks' >= nacks /\ (nacks' = 0 => nacks = 0)
        BY <1>3, <1>5, <2>3
      <3>5. stray' = FALSE
        <4>1. stray' = (stray \/ d \notin {"nobody", o.dev})
          BY <3>3 DEF Transfer
        <4>2. d \in {"nobody", o.dev}
          OBVIOUS
        <4> QED
          BY <2>1, <4>1, <4>2, Zenon
      <3>6. d \notin {"eeprom", "si5347"}
        BY <3>2
      <3>7. CASE o.op = "tx"
        <4>1. Written(d, o.what)
          BY <3>3, <3>7 DEF Transfer
        <4>2. eeprom' = eeprom /\ netif' = netif
          BY <3>6, <4>1 DEF Written
        <4>3. misplaced' = (misplaced \/ (d = "si5347" /\ o.what[1] = "reg" /\ o.what[2] # sipage))
          BY <4>1 DEF Written
        <4>4. misplaced' = misplaced
          BY <2>1, <3>6, <4>3, Zenon
        <4>5. lost' = lost
          BY <3>2, <3>3, <3>7 DEF Transfer
        <4> QED
          BY <3>4, <3>5, <4>2, <4>4, <4>5
      <3>8. CASE o.op = "rx"
        <4>1. Received(d, o.what[2])
          BY <3>3, <3>8 DEF Transfer
        <4>2. eeprom' = eeprom /\ netif' = netif /\ misplaced' = misplaced
          BY <3>2, <3>8, <4>1 DEF Received
        <4>3. lost' = lost
          BY <3>3, <3>8 DEF Transfer
        <4> QED
          BY <3>4, <3>5, <4>2, <4>3
      <3> QED
        BY <3>2, <3>7, <3>8
    <2> QED
      BY <2>2, <2>3
  <1>10. MainInv'
    <2>1. Aimed(<<>>, mux') /\ Paged(<<>>, sipage') /\ Pointed(<<>>, ptr')
      BY EmptyProg
    <2>2. <<>> \in Seq(MainOps)
      OBVIOUS
    <2> QED
      BY <1>6, <2>1, <2>2 DEF MainInv
  <1>11. StatusInv'
    <2>1. PortAt(s, Len(s) + 1, 0, "none", mux)
      BY <1>0, <1>2 DEF StatusInv
    <2>2. Len(s) + 1 \in 2 .. Len(s) + 1 /\ (Len(s) + 1) - 1 = Len(Tail(s)) + 1
      BY <1>7
    <2>3. "none" \in Ports(0) /\ mux = [m \in {0, 1} |-> mux[m]]
      BY <1>0 DEF Ports, BusInv
    <2>4. PortAt(Tail(s), (Len(s) + 1) - 1, 0, "none", mux')
      BY <1>4, <2>1, <2>2, <2>3, PortTail
    <2>5. PortAt(Tail(s), Len(Tail(s)) + 1, 0, "none", mux')
      BY <2>2, <2>4
    <2> QED
      BY <1>0, <1>1, <1>5, <1>6, <1>7, <2>5 DEF StatusInv
  <1>12. MenuInv'
    <2>0. PICK p : p = prog["menu"] /\ p = prog'["menu"]
      BY <1>6
    <2>1. NextSet(p) /\ (torn = FALSE \/ TornSet(p))
      BY <1>0, <2>0 DEF MenuInv
    <2>2. NextSet(p)'
      BY <1>0, <1>1, <1>9, <2>1 DEF NextSet
    <2>3. torn' = FALSE \/ TornSet(p)'
      BY <1>4, <1>9, <2>1 DEF TornSet
    <2> QED
      BY <1>0, <1>1, <1>6, <1>9, <2>0, <2>2, <2>3 DEF MenuInv
  <1>13. NetInv'
    BY <1>0, <1>1, <1>3, <1>6, <1>9 DEF NetInv
  <1>14. HistoryInv'
    <2>1. nacks' \in Nat
      BY <1>8 DEF BusInv
    <2> QED
      BY <1>0, <1>3, <1>9, <2>1 DEF HistoryInv
  <1> QED
    BY <1>8, <1>10, <1>11, <1>12, <1>13, <1>14 DEF IInv


LEMMA StatusBurstIInv ==
    ASSUME IInv, StatusBurst, torn \in BOOLEAN
    PROVE  IInv'
  <1>0. BusInv /\ MainInv /\ StatusInv /\ MenuInv /\ NetInv /\ HistoryInv /\ status = "delay" /\ status' = "burst"
    BY DEF IInv, StatusBurst
  <1>1. /\ prog' = [prog EXCEPT !["status"] = ReadSysInfo]
        /\ UNCHANGED <<mux, eeprom, ptr, sipage, netif, nacks, stored, stray, misplaced>>
        /\ torn' \in (IF prog["menu"] = <<>> THEN {torn} ELSE {torn, TRUE})
        /\ lost' = lost \cup Cut(prog["menu"], torn')
    BY DEF StatusBurst
  <1>2. ReadSysInfo \in Seq(StatusOps) /\ ReadSysInfo \in Seq(Ops)
    BY ReadSysInfoFacts DEF Prog
  <1>3. prog'["main"] = prog["main"] /\ prog'["menu"] = prog["menu"] /\ prog'["status"] = ReadSysInfo
    BY <1>0, <1>1 DEF BusInv, Threads
  <1>4. BusInv'
    <2>1. prog' \in [Threads -> Seq(Ops)]
      BY <1>0, <1>1, <1>2 DEF BusInv
    <2> QED
      BY <1>0, <1>1, <2>1 DEF BusInv
  <1>5. prog["main"] = <<>>
    BY <1>0 DEF MainInv
  <1>6. MainInv'
    BY <1>0, <1>1, <1>3, <1>5 DEF MainInv
  <1>7. StatusInv'
    <2>1. Aimed(ReadSysInfo, mux')
      BY ReadSysInfoFacts, ProgStarts
    <2>2. PortAt(ReadSysInfo, Len(ReadSysInfo) + 1, 0, "none", mux')
      BY ReadSysInfoFacts DEF PortAt, Leaves
    <2> QED
      BY <1>0, <1>2, <1>3, <2>1, <2>2 DEF StatusInv
  <1>8. MenuInv'
    <2>1. PICK s : s = prog["menu"]
      OBVIOUS
    <2>2. /\ s \in Seq(MenuOps) /\ Opened(s) /\ NextSet(s) /\ (torn = FALSE \/ TornSet(s))
          /\ prog'["menu"] = s
      BY <1>0, <1>3, <2>1 DEF MenuInv
    <2>3. Len(s) \in Nat /\ (s # <<>> => Len(s) > 0)
      BY <2>2, TailFacts
    <2>4. lost \subseteq lost' /\ Cut(s, torn') \subseteq lost'
      BY <1>1, <2>1
    <2>5. ASSUME NEW f \in Fields, s # <<>>, s[1] = SetTx(f)
          PROVE  f \in lost'
      <3>1. 1 \in 1 .. Len(s) /\ s[1].what = <<"set", f>>
        BY <2>3, <2>5 DEF SetTx, Tx
      <3>2. f \in Cut(s, torn')
        BY <3>1 DEF Cut
      <3> QED
        BY <2>4, <3>2
    <2>6. NextSet(s)'
      BY <2>5 DEF NextSet
    <2>7. ASSUME NEW f \in Fields, Len(s) > 1, s[2] = SetTx(f), torn' = TRUE
          PROVE  f \in lost'
      <3>1. 2 \in 1 .. Len(s) /\ s[2].what = <<"set", f>>
        BY <2>3, <2>7 DEF SetTx, Tx
      <3>2. f \in Cut(s, torn')
        <4>1. \E k \in 1 .. Len(s) : s[k].what = <<"set", f>> /\ (k = 1 \/ (k = 2 /\ TRUE))
          BY <3>1
        <4>2. f \in Cut(s, TRUE)
          BY <4>1 DEF Cut
        <4> QED
          BY <2>7, <4>2
      <3> QED
        BY <2>4, <3>2
    <2>8. torn' = FALSE \/ TornSet(s)'
      <3>1. CASE s = <<>>
        BY <1>1, <2>1, <2>2, <3>1 DEF TornSet
      <3>2. CASE s # <<>> /\ torn' = TRUE
        BY <2>7, <3>2 DEF TornSet
      <3> QED
        BY <1>1, <2>1, <3>1, <3>2
    <2> QED
      BY <1>0, <1>1, <2>1, <2>2, <2>4, <2>6, <2>8 DEF MenuInv
  <1>9. NetInv'
    BY <1>0, <1>1, <1>3 DEF NetInv
  <1>10. HistoryInv'
    BY <1>0, <1>1 DEF HistoryInv
  <1> QED
    BY <1>4, <1>6, <1>7, <1>8, <1>9, <1>10 DEF IInv

\* The steps of the status thread that leave the bus alone.
LEMMA StatusGoesIInv ==
    ASSUME IInv, NEW from, NEW to, StatusGoes(from, to),
           \/ from \in {"accept", "send"} /\ to \in {"accept", "delay"}
           \/ from = "burst" /\ to = "send" /\ prog["status"] = <<>>
    PROVE  IInv'
  <1>0. BusInv /\ MainInv /\ StatusInv /\ MenuInv /\ NetInv /\ HistoryInv /\ status = from /\ status' = to
    BY DEF IInv, StatusGoes
  <1>1. UNCHANGED <<mux, prog, eeprom, ptr, sipage, torn, netif, nacks, stored, stray, misplaced, lost>>
    BY DEF StatusGoes, bus
  <1>2. status \in {"accept", "send", "burst"} /\ status' \in {"accept", "delay", "send"}
    BY <1>0
  <1>3. prog["main"] = <<>> /\ prog["status"] = <<>>
    BY <1>0, <1>2 DEF MainInv, StatusInv
  <1>4. BusInv'
    BY <1>0, <1>1, <1>2 DEF BusInv
  <1>5. MainInv'
    BY <1>0, <1>1, <1>3 DEF MainInv
  <1>6. StatusInv'
    <2>1. mux[0] \in {"none", "eeprom"}
      <3>1. CASE status = "burst"
        <4>1. PortAt(<<>>, Len(<<>>) + 1, 0, "none", mux)
          BY <1>0, <1>3, <3>1 DEF StatusInv
        <4>2. Len(<<>>) = 0
          OBVIOUS
        <4>3. mux[0] = "none"
          BY <4>1, <4>2 DEF PortAt, Last
        <4> QED
          BY <4>3
      <3>2. CASE status # "burst"
        BY <1>0, <3>2 DEF StatusInv
      <3> QED
        BY <3>1, <3>2
    <2> QED
      BY <1>0, <1>1, <1>2, <1>3, <2>1 DEF StatusInv
  <1>7. MenuInv'
    <2>0. PICK p : p = prog["menu"] /\ p = prog'["menu"]
      BY <1>1
    <2>1. NextSet(p) /\ (torn = FALSE \/ TornSet(p))
      BY <1>0, <2>0 DEF MenuInv
    <2>2. NextSet(p)'
      BY <1>1, <1>2, <2>1 DEF NextSet
    <2>3. torn' = FALSE \/ TornSet(p)'
      BY <1>1, <2>1 DEF TornSet
    <2> QED
      BY <1>0, <1>1, <1>2, <2>0, <2>2, <2>3 DEF MenuInv
  <1>8. NetInv'
    BY <1>0, <1>1, <1>2 DEF NetInv
  <1>9. HistoryInv'
    BY <1>0, <1>1 DEF HistoryInv
  <1> QED
    BY <1>4, <1>5, <1>6, <1>7, <1>8, <1>9 DEF IInv

LEMMA StatusStepIInv ==
    ASSUME IInv, StatusStep, deaf' = FALSE, torn \in BOOLEAN
    PROVE  IInv'
  <1>1. CASE StatusBurst
    BY <1>1, StatusBurstIInv
  <1>2. CASE StatusOp
    BY <1>2, StatusOpIInv
  <1>3. CASE StatusSend
    <2>1. StatusGoes("burst", "send") /\ prog["status"] = <<>>
      BY <1>3 DEF StatusSend
    <2> QED
      BY <2>1, StatusGoesIInv
  <1>4. CASE StatusGoes("accept", "delay")
    BY <1>4, StatusGoesIInv
  <1>5. CASE StatusGoes("send", "delay")
    BY <1>5, StatusGoesIInv
  <1>6. CASE StatusGoes("send", "accept")
    BY <1>6, StatusGoesIInv
  <1> QED
    BY <1>1, <1>2, <1>3, <1>4, <1>5, <1>6 DEF StatusStep

LEMMA RebootIInv ==
    ASSUME BaseInv, Reboot
    PROVE  IInv'
  <1>0. eeprom = [f \in Fields |-> eeprom[f]] /\ \A f \in Fields : eeprom[f] \in {<<f, "old">>, <<f, "new">>}
    BY DEF BaseInv, TypeOK
  <1>1. prog' = [t \in Threads |-> IF t = "main" THEN MainProg ELSE <<>>]
    BY DEF Reboot, Threads
  <1>2. prog'["main"] = MainProg /\ prog'["menu"] = <<>> /\ prog'["status"] = <<>>
    BY <1>1 DEF Threads
  <1>3. MainProg \in Seq(Ops)
    BY MainProgFacts DEF Prog
  <1>4. mux' = [m \in {0, 1} |-> mux'[m]] /\ mux'[0] = "none" /\ mux'[1] = "none"
    BY DEF Reboot
  <1>5. "none" \in Ports(0) /\ "none" \in Ports(1)
    BY DEF Ports
  <1>6. BusInv'
    <2>1. prog' \in [Threads -> Seq(Ops)]
      BY <1>1, <1>3
    <2> QED
      BY <1>4, <1>5, <2>1 DEF BusInv, Reboot
  <1>7. MainInv'
    <2>1. Aimed(MainProg, mux') /\ Paged(MainProg, sipage') /\ Pointed(MainProg, ptr')
      BY MainProgFacts, ProgStarts
    <2> QED
      BY <1>2, <2>1, MainProgFacts DEF MainInv, Reboot
  <1>8. StatusInv'
    <2>1. Aimed(<<>>, mux')
      BY EmptyProg
    <2>2. <<>> \in Seq(StatusOps)
      OBVIOUS
    <2>3. status' = "off"
      BY DEF Reboot
    <2> QED
      BY <1>2, <1>4, <2>1, <2>2, <2>3 DEF StatusInv
  <1>9. MenuInv'
    BY <1>2, EmptyMenu DEF Reboot
  <1>10. NetInv'
    <2>1. eeprom' = eeprom /\ stored' = eeprom /\ netif' = [f \in Fields |-> <<"none", "zero">>]
      BY DEF Reboot
    <2> QED
      BY <1>0, <1>2, <2>1, MainProgFacts DEF NetInv
  <1>11. HistoryInv'
    BY DEF HistoryInv, Reboot
  <1> QED
    BY <1>6, <1>7, <1>8, <1>9, <1>10, <1>11 DEF IInv

-----------------------------------------------------------------------------
(* What holds whether or not a multiplexer answers. *)

LEMMA InitBase ==
    ASSUME Init
    PROVE  BaseInv
  <1>1. mux = [m \in {0, 1} |-> "none"] /\ nacks = 0 /\ status = "off"
    BY DEF Init
  <1>2. prog = [t \in Threads |-> prog[t]] /\ prog["status"] = <<>>
    BY DEF Init, Threads
  <1>3. eeprom = [f \in Fields |-> <<f, "old">>]
    BY DEF Init
  <1>4. held = FALSE /\ torn = FALSE /\ stray = FALSE /\ misplaced = FALSE /\ deaf = FALSE
    BY DEF Init
  <1>5. TypeOK
    BY <1>1, <1>2, <1>3, <1>4 DEF TypeOK
  <1> QED
    BY <1>1, <1>2, <1>3, <1>4, <1>5 DEF BaseInv

\* One operation, with whatever device it meets.
LEMMA DoBase ==
    ASSUME BaseInv, NEW t \in Threads, Do(t)
    PROVE  /\ mux' = [m \in {0, 1} |-> mux'[m]]
           /\ prog' = [prog EXCEPT ![t] = Tail(prog[t])] /\ held' = held /\ torn' = torn
           /\ eeprom' = [f \in Fields |-> eeprom'[f]]
           /\ \A f \in Fields : eeprom'[f] \in {<<f, "old">>, <<f, "new">>}
           /\ stray' \in BOOLEAN /\ misplaced' \in BOOLEAN
           /\ nacks' \in Nat /\ ((deaf' = deaf /\ nacks' >= nacks) \/ (deaf' = TRUE /\ nacks' > 0))
  <1>0. /\ mux = [m \in {0, 1} |-> mux[m]] /\ nacks \in Nat
        /\ prog = [u \in Threads |-> prog[u]] /\ eeprom = [f \in Fields |-> eeprom[f]]
        /\ \A f \in Fields : eeprom[f] \in {<<f, "old">>, <<f, "new">>}
        /\ stray \in BOOLEAN /\ misplaced \in BOOLEAN
    BY DEF BaseInv, TypeOK
  <1>1. PICK o : o = Head(prog[t])
    OBVIOUS
  <1>2. prog' = [prog EXCEPT ![t] = Tail(prog[t])] /\ held' = held /\ torn' = torn
    BY <1>0 DEF Do
  <1>3. \/ /\ o.op = "sel"
           /\ \/ mux' = [mux EXCEPT ![o.mux] = o.port] /\ UNCHANGED <<nacks, deaf>>
              \/ nacks' = nacks + 1 /\ deaf' = TRUE /\ UNCHANGED mux
           /\ UNCHANGED <<eeprom, stray, misplaced>>
        \/ UNCHANGED <<mux, eeprom, stray, misplaced, nacks, deaf>>
        \/ /\ UNCHANGED <<mux, deaf>> /\ (nacks' = nacks \/ nacks' = nacks + 1)
           /\ \E d : Transfer(o, d)
    <2> HIDE DEF Transfer
    <2> QED
      BY <1>1 DEF Do
  <1>4. mux' = [m \in {0, 1} |-> mux'[m]]
    <2>1. CASE mux' = mux
      BY <1>0, <2>1
    <2>2. CASE mux' = [mux EXCEPT ![o.mux] = o.port]
      BY <1>0, <2>2
    <2> QED
      BY <1>3, <2>1, <2>2
  <1>5. nacks' \in Nat /\ ((deaf' = deaf /\ nacks' >= nacks) \/ (deaf' = TRUE /\ nacks' > 0))
    <2>1. \/ deaf' = deaf /\ (nacks' = nacks \/ nacks' = nacks + 1)
          \/ deaf' = TRUE /\ nacks' = nacks + 1
      BY <1>3, Zenon
    <2>2. nacks \in Nat
      BY <1>0
    <2>3. nacks' \in Nat /\ (nacks' = nacks => nacks' >= nacks)
          /\ (nacks' = nacks + 1 => nacks' >= nacks /\ nacks' > 0)
      <3>1. nacks' = nacks \/ nacks' = nacks + 1
        BY <2>1, Zenon
      <3> QED
        BY ONLY <2>2, <3>1
    <2> QED
      BY ONLY <2>1, <2>3, Zenon
  <1>6. ASSUME NEW d, Transfer(o, d)
        PROVE  /\ eeprom' = [f \in Fields |-> eeprom'[f]]
               /\ \A f \in Fields : eeprom'[f] \in {<<f, "old">>, <<f, "new">>}
               /\ stray' \in BOOLEAN /\ misplaced' \in BOOLEAN
    <2>1. stray' \in BOOLEAN
      <3>1. stray' = (stray \/ d \notin {"nobody", o.dev})
        BY <1>6 DEF Transfer
      <3> QED
        BY <1>0, <3>1, Zenon
    <2>2. PICK w : w = o.what
      OBVIOUS
    <2>3. CASE Written(d, w)
      <3>1. eeprom' = IF d = "eeprom" /\ w[1] = "set" THEN [eeprom EXCEPT ![w[2]] = <<w[2], "new">>] ELSE eeprom
        BY <2>3 DEF Written
      <3>2. misplaced' = (misplaced \/ (d = "si5347" /\ w[1] = "reg" /\ w[2] # sipage))
        BY <2>3 DEF Written
      <3>3. misplaced' \in BOOLEAN
        BY <1>0, <3>2, Zenon
      <3>4. eeprom' = [f \in Fields |-> eeprom'[f]]
        BY <1>0, <3>1
      <3>5. \A f \in Fields : eeprom'[f] \in {<<f, "old">>, <<f, "new">>}
        BY <1>0, <3>1
      <3> QED
        BY <2>1, <3>3, <3>4, <3>5
    <2>4. CASE Received(d, w[2])
      <3>1. eeprom' = eeprom /\ misplaced' = misplaced
        BY <2>4 DEF Received
      <3> QED
        BY <1>0, <2>1, <3>1
    <2> QED
      BY <1>6, <2>2, <2>3, <2>4 DEF Transfer
  <1>7. /\ eeprom' = [f \in Fields |-> eeprom'[f]]
        /\ \A f \in Fields : eeprom'[f] \in {<<f, "old">>, <<f, "new">>}
        /\ stray' \in BOOLEAN /\ misplaced' \in BOOLEAN
    <2>1. CASE UNCHANGED <<eeprom, stray, misplaced>>
      BY <1>0, <2>1
    <2>2. CASE \E d : Transfer(o, d)
      <3>1. PICK d : Transfer(o, d)
        BY <2>2
      <3> QED
        BY <1>6, <3>1
    <2> QED
      BY <1>3, <2>1, <2>2
  <1> QED
    BY <1>2, <1>4, <1>5, <1>7

\* So the type is kept.
LEMMA DoKeepsBase ==
    ASSUME BaseInv, NEW t \in Threads, Do(t), status' = status,
           t = "main" => status = "off", t = "status" => status = "burst"
    PROVE  BaseInv'
  <1>1. /\ mux' = [m \in {0, 1} |-> mux'[m]]
        /\ prog' = [prog EXCEPT ![t] = Tail(prog[t])] /\ held' = held /\ torn' = torn
        /\ eeprom' = [f \in Fields |-> eeprom'[f]]
        /\ \A f \in Fields : eeprom'[f] \in {<<f, "old">>, <<f, "new">>}
        /\ stray' \in BOOLEAN /\ misplaced' \in BOOLEAN
        /\ nacks' \in Nat /\ ((deaf' = deaf /\ nacks' >= nacks) \/ (deaf' = TRUE /\ nacks' > 0))
    BY DoBase
  <1>2. /\ prog = [u \in Threads |-> prog[u]] /\ nacks \in Nat /\ deaf \in BOOLEAN
        /\ held \in BOOLEAN /\ torn \in BOOLEAN
        /\ status \in {"off", "accept", "delay", "burst", "send"}
        /\ (prog["main"] # <<>> => status = "off") /\ (prog["status"] # <<>> => status = "burst")
    BY DEF BaseInv, TypeOK
  <1>3. prog' = [u \in Threads |-> prog'[u]] /\ \A u \in Threads \ {t} : prog'[u] = prog[u]
    BY <1>1, <1>2
  <1>4. (prog'["main"] # <<>> => status = "off") /\ (prog'["status"] # <<>> => status = "burst")
    BY <1>2, <1>3 DEF Threads
  <1>5. deaf => nacks > 0
    BY DEF BaseInv
  <1>6. deaf' \in BOOLEAN /\ (deaf' => nacks' > 0)
    <2>1. CASE deaf' = TRUE /\ nacks' > 0
      BY <2>1
    <2>2. CASE deaf' = deaf /\ nacks' >= nacks
      BY <1>1, <1>2, <1>5, <2>2
    <2> QED
      BY <1>1, <2>1, <2>2
  <1>7. DOMAIN mux' = {0, 1}
    BY <1>1
  <1>8. TypeOK'
    BY <1>1, <1>2, <1>4, <1>6, <1>7 DEF TypeOK
  <1> QED
    BY <1>1, <1>3, <1>6, <1>8 DEF BaseInv

\* Only a power cycle makes a multiplexer's silence forgotten.
LEMMA HearingOnly ==
    ASSUME MainStep \/ MenuStep \/ StatusStep
    PROVE  deaf' = deaf \/ deaf' = TRUE
  <1>1. ASSUME NEW t, Do(t)
        PROVE  deaf' = deaf \/ deaf' = TRUE
    <2> HIDE DEF Transfer
    <2> QED
      BY <1>1 DEF Do
  <1>2. CASE MainStep
    BY <1>1, <1>2 DEF MainStep, bus
  <1>3. CASE MenuStep
    BY <1>1, <1>3 DEF MenuStep, MenuCommand, MenuHolds, MenuReleases, MenuTorn, history
  <1>4. CASE StatusStep
    BY <1>1, <1>4 DEF StatusStep, StatusGoes, StatusBurst, StatusOp, StatusSend, bus
  <1> QED
    BY <1>2, <1>3, <1>4

\* A step that transfers nothing keeps the type.
LEMMA OtherBase ==
    ASSUME BaseInv,
           UNCHANGED <<mux, eeprom, nacks, stray, misplaced, deaf>>,
           held' \in BOOLEAN, torn' \in BOOLEAN, prog' = [t \in Threads |-> prog'[t]],
           status' \in {"off", "accept", "delay", "burst", "send"},
           prog'["main"] # <<>> => status' = "off", prog'["status"] # <<>> => status' = "burst"
    PROVE  BaseInv'
  <1>1. TypeOK'
    BY DEF BaseInv, TypeOK
  <1> QED
    BY <1>1 DEF BaseInv

LEMMA NextBase ==
    ASSUME BaseInv, [Next]_vars
    PROVE  BaseInv'
  <1>0. /\ prog = [t \in Threads |-> prog[t]] /\ held \in BOOLEAN /\ torn \in BOOLEAN
        /\ status \in {"off", "accept", "delay", "burst", "send"}
        /\ (prog["main"] # <<>> => status = "off") /\ (prog["status"] # <<>> => status = "burst")
        /\ "main" \in Threads /\ "menu" \in Threads /\ "status" \in Threads
    BY DEF BaseInv, TypeOK, Threads
  <1>1. CASE MainStep
    <2>1. CASE prog["main"] # <<>>
      BY <1>0, <1>1, <2>1, DoKeepsBase DEF MainStep
    <2>2. CASE prog["main"] = <<>>
      <3>1. /\ UNCHANGED <<mux, eeprom, nacks, stray, misplaced, deaf, held, torn, prog>>
            /\ status' = "accept" /\ status = "off"
        BY <1>1, <2>2 DEF MainStep, bus
      <3> QED
        BY <1>0, <2>2, <3>1, OtherBase
    <2> QED
      BY <2>1, <2>2
  <1>2. CASE MenuStep
    <2>1. ASSUME NEW p, prog' = [prog EXCEPT !["menu"] = p]
          PROVE  /\ prog' = [t \in Threads |-> prog'[t]]
                 /\ prog'["main"] = prog["main"] /\ prog'["status"] = prog["status"]
      BY <1>0, <2>1
    <2>2. CASE MenuCommand
      <3>1. PICK p : prog' = [prog EXCEPT !["menu"] = p]
        BY <2>2 DEF MenuCommand
      <3>2. UNCHANGED <<mux, eeprom, nacks, stray, misplaced, deaf, held, torn, status>>
        BY <2>2 DEF MenuCommand
      <3> QED
        BY <1>0, <2>1, <3>1, <3>2, OtherBase
    <2>3. CASE MenuHolds
      <3>1. UNCHANGED <<mux, eeprom, nacks, stray, misplaced, deaf, torn, prog, status>> /\ held' = TRUE
        BY <2>3 DEF MenuHolds, counts, history
      <3> QED
        BY <1>0, <3>1, OtherBase
    <2>4. CASE MenuReleases
      <3>1. /\ UNCHANGED <<mux, eeprom, nacks, stray, misplaced, deaf, status>>
            /\ held' = FALSE /\ torn' = FALSE /\ prog' = [prog EXCEPT !["menu"] = <<>>]
        BY <2>4 DEF MenuReleases, counts, history
      <3> QED
        BY <1>0, <2>1, <3>1, OtherBase
    <2>5. CASE MenuTorn
      <3>1. /\ UNCHANGED <<mux, eeprom, nacks, stray, misplaced, deaf, status, held>>
            /\ torn' = FALSE /\ prog' = [prog EXCEPT !["menu"] = Tail(prog["menu"])]
        BY <1>0, <2>5 DEF MenuTorn, counts, history
      <3> QED
        BY <1>0, <2>1, <3>1, OtherBase
    <2>6. CASE Do("menu") /\ status' = status
      BY <1>0, <2>6, DoKeepsBase
    <2> QED
      BY <1>2, <2>2, <2>3, <2>4, <2>5, <2>6 DEF MenuStep
  <1>3. CASE StatusStep
    <2>1. ASSUME NEW from, NEW to \in {"accept", "delay", "send"}, StatusGoes(from, to),
                 from \in {"accept", "send"} \/ prog["status"] = <<>>, from # "off"
          PROVE  BaseInv'
      <3>1. /\ UNCHANGED <<mux, eeprom, nacks, stray, misplaced, deaf, held, torn, prog>>
            /\ status = from /\ status' = to
        BY <2>1 DEF StatusGoes, bus
      <3>2. prog["main"] = <<>> /\ prog["status"] = <<>>
        BY <1>0, <2>1, <3>1
      <3> QED
        BY <1>0, <3>1, <3>2, OtherBase
    <2>2. CASE StatusBurst
      <3>1. /\ UNCHANGED <<mux, eeprom, nacks, stray, misplaced, deaf, held>>
            /\ prog' = [prog EXCEPT !["status"] = ReadSysInfo] /\ status' = "burst" /\ status = "delay"
            /\ torn' \in (IF prog["menu"] = <<>> THEN {torn} ELSE {torn, TRUE})
        BY <2>2 DEF StatusBurst
      <3>2. prog' = [t \in Threads |-> prog'[t]] /\ prog'["main"] = <<>>
        BY <1>0, <3>1
      <3>3. torn' \in BOOLEAN
        BY <1>0, <3>1
      <3> QED
        BY <1>0, <3>1, <3>2, <3>3, OtherBase
    <2>3. CASE StatusOp
      BY <1>0, <2>3, DoKeepsBase DEF StatusOp
    <2>4. CASE StatusSend
      BY <2>1, <2>4 DEF StatusSend
    <2> QED
      BY <1>3, <2>1, <2>2, <2>3, <2>4 DEF StatusStep
  <1>4. CASE Reboot
    <2>1. /\ mux' = [m \in {0, 1} |-> "none"] /\ status' = "off" /\ eeprom' = eeprom /\ nacks' = 0
          /\ held' = FALSE /\ torn' = FALSE /\ stray' = FALSE /\ misplaced' = FALSE /\ deaf' = FALSE
      BY <1>4 DEF Reboot
    <2>2. prog' = [t \in Threads |-> prog'[t]] /\ prog'["status"] = <<>>
      BY <1>4 DEF Reboot, Threads
    <2>3. TypeOK'
      BY <2>1, <2>2 DEF BaseInv, TypeOK
    <2> QED
      BY <2>1, <2>2, <2>3 DEF BaseInv
  <1>5. CASE UNCHANGED vars
    BY <1>5 DEF vars, counts, history, BaseInv, TypeOK
  <1> QED
    BY <1>1, <1>2, <1>3, <1>4, <1>5 DEF Next

LEMMA NextIInv ==
    ASSUME BaseInv, deaf \/ IInv, [Next]_vars
    PROVE  deaf' \/ IInv'
  <1>0. deaf \in BOOLEAN /\ torn \in BOOLEAN
    BY DEF BaseInv, TypeOK
  <1>1. CASE Reboot
    BY <1>1, RebootIInv
  <1>2. CASE UNCHANGED vars
    <2>1. /\ UNCHANGED <<mux, prog, status, eeprom, ptr, sipage, torn, netif, nacks, stored, stray, misplaced, lost>>
          /\ deaf' = deaf
      BY <1>2 DEF vars, counts, history
    <2> QED
      BY <2>1, StutterIInv
  <1>3. CASE MainStep \/ MenuStep \/ StatusStep
    <2>1. deaf' = deaf \/ deaf' = TRUE
      BY <1>3, HearingOnly
    <2>2. CASE deaf'
      BY <2>2
    <2>3. CASE deaf' = FALSE
      <3>1. IInv
        BY <2>1, <2>3
      <3> QED
        BY <1>0, <1>3, <2>3, <3>1, MainStepIInv, MenuStepIInv, StatusStepIInv
    <2> QED
      BY <1>0, <2>1, <2>2, <2>3
  <1> QED
    BY <1>1, <1>2, <1>3 DEF Next

-----------------------------------------------------------------------------
(* The theorems. *)

\* The inductive invariant holds in every state of the superseded software's bus.
THEOREM BusInvariant == Spec => []Inv
  <1>1. Init => Inv
    BY InitIInv, InitBase DEF Inv
  <1>2. Inv /\ [Next]_vars => Inv'
    BY NextIInv, NextBase DEF Inv
  <1> QED
    BY <1>1, <1>2, PTL DEF Spec

\* For any number of SFPs, commands, bursts and unanswered transfers: no transfer
\* of main_thread, the menu or the status thread is answered by another
\* device than the one it is meant for, with no lock around i2c_devices.c, before
\* a multiplexer leaves a selection unanswered, which i2c_set_port_expander ignores.
THEOREM NothingStrays == Spec => []NoStray
  <1>1. Inv => NoStray
    <2> SUFFICES ASSUME Inv PROVE NoStray
      OBVIOUS
    <2>1. TypeOK
      BY DEF Inv, BaseInv
    <2>2. ASSUME IInv PROVE stray = FALSE
      BY <2>2 DEF IInv, HistoryInv
    <2>3. stray => deaf
      BY <2>2, Zenon DEF Inv
    <2> QED
      BY <2>1, <2>3 DEF NoStray
  <1> QED
    BY <1>1, BusInvariant, PTL

\* write_si5347 puts every register of its table on the register's page, as
\* long as every transfer is answered.
THEOREM RegistersOnPage == Spec => []PageInStep
  <1>1. Inv => PageInStep
    <2> SUFFICES ASSUME Inv PROVE PageInStep
      OBVIOUS
    <2>1. CASE deaf
      BY <2>1 DEF Inv, BaseInv, PageInStep
    <2>2. CASE IInv
      BY <2>2 DEF IInv, HistoryInv, PageInStep
    <2> QED
      BY <2>1, <2>2 DEF Inv
  <1> QED
    BY <1>1, BusInvariant, PTL

\* After assign_ip_settings the interface has the settings of the EEPROM, as
\* long as every transfer was answered, whatever the menu stores later.
THEOREM NetworkAsStored == Spec => []NetAsStored
  <1>1. Inv => NetAsStored
    <2> SUFFICES ASSUME Inv, status # "off", nacks = 0 PROVE netif = stored
      BY DEF NetAsStored
    <2>0. ~deaf
      BY DEF Inv, BaseInv
    <2>1. MainInv /\ NetInv
      BY <2>0 DEF Inv, IInv
    <2>2. prog["main"] = <<>>
      BY <2>1 DEF MainInv
    <2>3. \A o : ~Has(<<>>, o)
      <3>1. Len(<<>>) = 0
        OBVIOUS
      <3> QED
        BY <3>1 DEF Has
    <2>4. \A f \in Fields : netif[f] = stored[f]
      BY <2>1, <2>2, <2>3 DEF NetInv
    <2>5. stored = [f \in Fields |-> stored[f]] /\ netif = [f \in Fields |-> netif[f]]
      BY <2>1 DEF NetInv
    <2> QED
      BY <2>4, <2>5
  <1> QED
    BY <1>1, BusInvariant, PTL


\* When program_ip ends, the EEPROM holds each of the three settings that the
\* operator entered, except those whose selection or write a burst of the status
\* thread met and those whose write the EEPROM did not answer, as long as the
\* multiplexers answer.
THEOREM SettingsSaved == Spec => SavedUnlessLost
  <1> DEFINE Ends == /\ prog["menu"] # <<>> /\ prog'["menu"] = <<>> /\ boots' = boots /\ ~held
                     /\ Head(prog["menu"]).what = <<"set", "gw">> /\ ~deaf'
             Saved == Ends => \A f \in Fields : eeprom'[f] = <<f, "new">> \/ f \in lost'
  <1>1. Inv /\ [Next]_vars => [Saved]_vars
    <2> SUFFICES ASSUME Inv, Next, Ends
                 PROVE  \A f \in Fields : eeprom'[f] = <<f, "new">> \/ f \in lost'
      OBVIOUS
    <2>00. MainStep \/ MenuStep \/ StatusStep
      BY DEF Next, Reboot
    <2>0d. deaf' = FALSE /\ torn \in BOOLEAN
      <3>1. BaseInv'
        BY NextBase DEF Inv
      <3> QED
        BY <3>1 DEF Inv, BaseInv, TypeOK
    <2>0i. IInv
      <3>1. deaf' = deaf \/ deaf' = TRUE
        BY <2>00, HearingOnly
      <3> QED
        BY <2>0d, <3>1 DEF Inv
    <2>0. BusInv /\ MainInv /\ MenuInv /\ "menu" \in Threads
      BY <2>0i DEF IInv, Threads
    <2>1. ASSUME NEW t \in Threads \ {"menu"}, Do(t)
          PROVE  FALSE
      <3>1. prog' = [prog EXCEPT ![t] = Tail(@)]
        BY <2>1 DEF Do
      <3>2. prog'["menu"] = prog["menu"]
        BY <2>0, <2>1, <3>1 DEF BusInv
      <3> QED
        BY <3>2
    <2>2. CASE MainStep
      <3>1. CASE prog["main"] # <<>>
        BY <2>1, <2>2, <3>1 DEF MainStep, Threads
      <3>2. CASE prog["main"] = <<>>
        BY <2>2, <3>2 DEF MainStep, bus
      <3> QED
        BY <3>1, <3>2
    <2>3. CASE MenuStep
      <3>1. CASE (MenuRuns /\ ~torn /\ Do("menu")) \/ MenuTorn
        <4>1. PICK s : s = prog["menu"]
          OBVIOUS
        <4>2. s \in Seq(MenuOps) /\ s # <<>> /\ prog' = [prog EXCEPT !["menu"] = Tail(s)]
          <5>1. prog' = [prog EXCEPT !["menu"] = Tail(@)]
            BY <3>1 DEF Do, MenuTorn
          <5> QED
            BY ONLY <2>0, <4>1, <5>1, Ends DEF MenuInv
        <4>3. Tail(s) = <<>>
          BY <2>0, <4>2 DEF BusInv
        <4>4. Len(s) = 1 /\ Head(s) = s[1] /\ s[1] \in MenuOps
          <5>0. Len(<<>>) = 0
            OBVIOUS
          <5>1. Len(Tail(s)) = 0
            BY ONLY <4>3, <5>0
          <5>2. Len(s) \in Nat /\ Len(Tail(s)) = Len(s) - 1 /\ Head(s) = s[1] /\ s[1] \in MenuOps
            BY <4>2, TailFacts
          <5> QED
            BY <5>1, <5>2
        <4>5. s[1] = SetTx("gw")
          <5>1. PICK o \in MenuOps : o = s[1]
            BY <4>4
          <5>2. o.what[1] = "set" /\ o.what[2] = "gw"
            BY <4>1, <4>4, <5>1
          <5>3. "ip" \in Fields
            BY DEF Fields
          <5>4. /\ PtrTx("ip").what[1] = "ptr" /\ FieldRx("dump").what[1] = "read"
                /\ Sel(0, "eeprom").what[1] = "select" /\ \A f \in Fields : SetTx(f).what[2] = f
            BY DEF PtrTx, Ptr, Tx, FieldRx, Rx, Sel, SetTx
          <5> QED
            BY <5>1, <5>2, <5>4 DEF MenuOps
        <4>6. \A f \in Fields : eeprom'[f] = <<f, "new">> \/ Has(Tail(s), SetTx(f)) \/ f \in lost'
          <5>1. CASE MenuTorn
            BY <2>0i, <4>1, <4>4, <4>5, <5>1, MenuTornSaves
          <5>2. CASE MenuRuns /\ ~torn /\ Do("menu")
            <6>1. torn = FALSE
              BY <2>0d, <5>2, Zenon
            <6> QED
              BY <2>0d, <2>0i, <4>1, <4>4, <4>5, <5>2, <6>1, MenuSaves
          <5> QED
            BY <3>1, <5>1, <5>2
        <4>7. \A o : ~Has(Tail(s), o)
          <5>1. Len(<<>>) = 0
            OBVIOUS
          <5>2. Len(Tail(s)) = 0
            BY ONLY <4>3, <5>1
          <5> QED
            BY ONLY <5>2 DEF Has
        <4> QED
          BY <4>6, <4>7
      <3>2. CASE MenuCommand
        BY <3>2 DEF MenuCommand
      <3>3. CASE MenuHolds
        BY <3>3 DEF MenuHolds
      <3>4. CASE MenuReleases
        BY <3>4 DEF MenuReleases
      <3> QED
        BY <2>3, <3>1, <3>2, <3>3, <3>4 DEF MenuStep
    <2>4. CASE StatusStep
      <3>1. CASE StatusBurst
        <4>1. prog'["menu"] = prog["menu"]
          BY <2>0, <3>1 DEF StatusBurst, BusInv
        <4> QED
          BY <4>1
      <3>2. CASE StatusOp
        BY <2>1, <3>2 DEF StatusOp, Threads
      <3>3. ASSUME NEW from, NEW to, StatusGoes(from, to)
            PROVE  FALSE
        BY <3>3 DEF StatusGoes, bus
      <3> QED
        BY <2>4, <3>1, <3>2, <3>3 DEF StatusStep, StatusSend
    <2>5. CASE Reboot
      BY <2>5 DEF Reboot
    <2> QED
      BY <2>2, <2>3, <2>4, <2>5 DEF Next
  <1> QED
    BY <1>1, BusInvariant, PTL DEF Spec, SavedUnlessLost
=============================================================================
