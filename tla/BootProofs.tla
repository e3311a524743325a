----------------------------- MODULE BootProofs -----------------------------
(***************************************************************************)
(* Proofs about Boot, and with it about SdCard and Discover, for every set *)
(* of NET.CNF files, any number of receive buffers, datagrams and power    *)
(* losses.                                                                 *)
(***************************************************************************)
EXTENDS Boot, TLAPS

(***************************************************************************)
(* The inductive invariant.  Of the card: what is still missing of a       *)
(* settled card at each point of sdcard_handle, if no call has failed.  Of *)
(* the buffers: there are never more than the pool has.                    *)
(***************************************************************************)
CardInv ==
    ~ioerr =>
        /\ part = 1 => card.part = 1
        /\ sd \in {"dat open", "dat read", "dat truncate", "dat write", "dat sync", "dat close", "done"}
              => card.new = "none"
        /\ sd \in {"dat sync", "dat close", "done"} => card.dat \notin {"empty", "torn"}
        /\ sd = "done" => ~dirty

BufferInv == free + traffic =< Pool

\* The fields of records that are updated one by one.
RecordInv ==
    /\ conf = [addr |-> conf.addr, mask |-> conf.mask, gw |-> conf.gw, hw |-> conf.hw, static |-> conf.static]
    /\ netif = [up |-> netif.up, addr |-> netif.addr]
    /\ dirty \in BOOLEAN /\ ioerr \in BOOLEAN

Inv == TypeOK /\ RecordInv /\ CardInv /\ BufferInv /\ ConfMeaning

-----------------------------------------------------------------------------
(* What the lines of NET.CNF mean. *)

\* The largest number of a set that has one above all others.
LEMMA MaxTop ==
    ASSUME NEW n \in Nat, NEW S \in SUBSET (1 .. n)
    PROVE  Max(S \cup {n + 1}) = n + 1
  <1> DEFINE T == S \cup {n + 1}
  <1>1. T \subseteq Nat /\ n + 1 \in T /\ \A y \in T : n + 1 >= y
    OBVIOUS
  <1>2. \A x \in T : (\A y \in T : x >= y) => x = n + 1
    BY <1>1
  <1> QED  BY <1>1, <1>2 DEF Max

\* The lines up to n that give a value for cmd, those that decide on a static
\* address, and what the last of them says.
Giving(cmd, n) == {k \in 1 .. n : /\ card.net[k].cmd = cmd
                                  /\ card.net[k].arg \notin {"none", "bad", "eeprom"}}
Given(cmd, n) == IF Giving(cmd, n) = {} THEN NoAddr ELSE card.net[Max(Giving(cmd, n))].arg

Fixing(n) == {k \in 1 .. n : \/ card.net[k].cmd = "addr"
                             \/ card.net[k].cmd = "dhcp" /\ card.net[k].arg # "bad"}
Fixed(n) == IF Fixing(n) = {} THEN FALSE
            ELSE card.net[Max(Fixing(n))].cmd = "addr" \/ card.net[Max(Fixing(n))].arg = "no"

\* ConfMeaning in these terms.
Meaning == /\ conf.addr = Given("addr", i) /\ conf.mask = Given("mask", i)
           /\ conf.gw = Given("gw", i) /\ conf.hw = Given("hwaddr", i)
           /\ conf.static = Fixed(i)

LEMMA MeaningIs == ConfMeaning <=> Meaning
  BY DEF ConfMeaning, LastValue, Meaning, Given, Giving, Fixed, Fixing

\* A line that gives a value is the last one that does.
LEMMA GivenStep ==
    ASSUME NEW n \in Nat, NEW cmd
    PROVE  Given(cmd, n + 1) =
             IF card.net[n + 1].cmd = cmd /\ card.net[n + 1].arg \notin {"none", "bad", "eeprom"}
             THEN card.net[n + 1].arg ELSE Given(cmd, n)
  <1>1. CASE card.net[n + 1].cmd = cmd /\ card.net[n + 1].arg \notin {"none", "bad", "eeprom"}
    <2>1. Giving(cmd, n + 1) = Giving(cmd, n) \cup {n + 1} /\ Giving(cmd, n) \in SUBSET (1 .. n)
      BY <1>1 DEF Giving
    <2>2. Giving(cmd, n + 1) # {} /\ Max(Giving(cmd, n + 1)) = n + 1
      BY <2>1, MaxTop
    <2> QED  BY <1>1, <2>2 DEF Given
  <1>2. CASE ~(card.net[n + 1].cmd = cmd /\ card.net[n + 1].arg \notin {"none", "bad", "eeprom"})
    <2>1. Giving(cmd, n + 1) = Giving(cmd, n)
      BY <1>2 DEF Giving
    <2> QED  BY <1>2, <2>1 DEF Given
  <1> QED  BY <1>1, <1>2

LEMMA FixedStep ==
    ASSUME NEW n \in Nat
    PROVE  Fixed(n + 1) =
             IF \/ card.net[n + 1].cmd = "addr"
                \/ card.net[n + 1].cmd = "dhcp" /\ card.net[n + 1].arg # "bad"
             THEN card.net[n + 1].cmd = "addr" \/ card.net[n + 1].arg = "no" ELSE Fixed(n)
  <1> DEFINE Fixes == \/ card.net[n + 1].cmd = "addr"
                      \/ card.net[n + 1].cmd = "dhcp" /\ card.net[n + 1].arg # "bad"
  <1>1. CASE Fixes
    <2>1. Fixing(n + 1) = Fixing(n) \cup {n + 1} /\ Fixing(n) \in SUBSET (1 .. n)
      BY <1>1 DEF Fixing
    <2>2. Fixing(n + 1) # {} /\ Max(Fixing(n + 1)) = n + 1
      BY <2>1, MaxTop
    <2> QED  BY <1>1, <2>2 DEF Fixed
  <1>2. CASE ~Fixes
    <2>1. Fixing(n + 1) = Fixing(n)
      BY <1>2 DEF Fixing
    <2> QED  BY <1>2, <2>1 DEF Fixed
  <1> QED  BY <1>1, <1>2

\* One line changes at most the settings it is about.
LEMMA LineSets ==
    ASSUME RecordInv, conf.static \in BOOLEAN, NEW l,
           l.cmd = "dhcp" => l.arg \in {"none", "yes", "no", "bad"},
           l.cmd \in {"addr", "mask", "gw"} => l.arg # "eeprom",
           NEW c, c = ParseLine(conf, l)
    PROVE  /\ c.addr = IF l.cmd = "addr" /\ l.arg \notin {"none", "bad", "eeprom"} THEN l.arg ELSE conf.addr
           /\ c.mask = IF l.cmd = "mask" /\ l.arg \notin {"none", "bad", "eeprom"} THEN l.arg ELSE conf.mask
           /\ c.gw = IF l.cmd = "gw" /\ l.arg \notin {"none", "bad", "eeprom"} THEN l.arg ELSE conf.gw
           /\ c.hw = IF l.cmd = "hwaddr" /\ l.arg \notin {"none", "bad", "eeprom"} THEN l.arg ELSE conf.hw
           /\ c.static = IF l.cmd = "addr" \/ (l.cmd = "dhcp" /\ l.arg # "bad")
                         THEN l.cmd = "addr" \/ l.arg = "no" ELSE conf.static
           /\ c = [addr |-> c.addr, mask |-> c.mask, gw |-> c.gw, hw |-> c.hw, static |-> c.static]
           /\ c.static \in BOOLEAN
  <1> USE DEF RecordInv, ParseLine, parse_inet
  <1>1. CASE l.cmd = "dhcp"
    <2>1. CASE l.arg \in {"none", "yes"}
      <3>1. c = [conf EXCEPT !.static = FALSE]
        BY <1>1, <2>1
      <3> QED  BY <1>1, <2>1, <3>1
    <2>2. CASE l.arg = "no"
      <3>1. c = [conf EXCEPT !.static = TRUE]
        BY <1>1, <2>2
      <3> QED  BY <1>1, <2>2, <3>1
    <2>3. CASE l.arg = "bad"
      <3>1. c = conf
        BY <1>1, <2>3
      <3> QED  BY <1>1, <2>3, <3>1
    <2> QED  BY <1>1, <2>1, <2>2, <2>3
  <1>2. CASE l.cmd = "addr"
    BY <1>2
  <1>3. CASE l.cmd = "mask"
    BY <1>3
  <1>4. CASE l.cmd = "gw"
    BY <1>4
  <1>5. CASE l.cmd = "hwaddr"
    BY <1>5
  <1>6. CASE l.cmd \notin {"dhcp", "addr", "mask", "gw", "hwaddr"}
    BY <1>6
  <1> QED  BY <1>1, <1>2, <1>3, <1>4, <1>5, <1>6

\* Each line read keeps the meaning.
LEMMA LineMeans ==
    ASSUME Inv, i < Len(card.net), conf' = ParseLine(conf, card.net[i + 1]), i' = i + 1, card' = card
    PROVE  /\ ConfMeaning'
           /\ conf' = [addr |-> conf'.addr, mask |-> conf'.mask, gw |-> conf'.gw,
                       hw |-> conf'.hw, static |-> conf'.static]
           /\ conf'.static \in BOOLEAN
  <1> DEFINE l == card.net[i + 1]
  <1>1. card.net \in NetFiles /\ i \in 0 .. Len(card.net)
    BY DEF Inv, TypeOK, SdTypeOK
  <1>2. Len(card.net) \in Nat
    BY <1>1, NetFilesAssumption
  <1>3. i \in Nat /\ i + 1 \in 1 .. Len(card.net)
    BY <1>1, <1>2
  <1>4. /\ l.cmd = "dhcp" => l.arg \in {"none", "yes", "no", "bad"}
        /\ l.cmd \in {"addr", "mask", "gw"} => l.arg # "eeprom"
    BY <1>1, <1>3, NetFilesAssumption
  <1>5. Meaning
    BY MeaningIs DEF Inv
  <1>6. /\ conf'.addr = IF l.cmd = "addr" /\ l.arg \notin {"none", "bad", "eeprom"} THEN l.arg ELSE conf.addr
        /\ conf'.mask = IF l.cmd = "mask" /\ l.arg \notin {"none", "bad", "eeprom"} THEN l.arg ELSE conf.mask
        /\ conf'.gw = IF l.cmd = "gw" /\ l.arg \notin {"none", "bad", "eeprom"} THEN l.arg ELSE conf.gw
        /\ conf'.hw = IF l.cmd = "hwaddr" /\ l.arg \notin {"none", "bad", "eeprom"} THEN l.arg ELSE conf.hw
        /\ conf'.static = IF l.cmd = "addr" \/ (l.cmd = "dhcp" /\ l.arg # "bad")
                          THEN l.cmd = "addr" \/ l.arg = "no" ELSE conf.static
        /\ conf' = [addr |-> conf'.addr, mask |-> conf'.mask, gw |-> conf'.gw,
                    hw |-> conf'.hw, static |-> conf'.static]
        /\ conf'.static \in BOOLEAN
    <2>1. RecordInv /\ conf.static \in BOOLEAN
      BY DEF Inv, TypeOK, SdTypeOK
    <2> HIDE DEF l
    <2>2. conf' = ParseLine(conf, l)
      BY DEF l
    <2> QED  BY <1>4, <2>1, <2>2, LineSets
  <1>7. /\ conf'.addr = Given("addr", i + 1) /\ conf'.mask = Given("mask", i + 1)
        /\ conf'.gw = Given("gw", i + 1) /\ conf'.hw = Given("hwaddr", i + 1)
    BY <1>3, <1>5, <1>6, GivenStep DEF Meaning
  <1>8. conf'.static = Fixed(i + 1)
    <2>1. Fixed(i + 1) = IF l.cmd = "addr" \/ (l.cmd = "dhcp" /\ l.arg # "bad")
                         THEN l.cmd = "addr" \/ l.arg = "no" ELSE Fixed(i)
      BY <1>3, FixedStep
    <2> QED  BY <1>5, <1>6, <2>1 DEF Meaning
  <1>9. Meaning'
    <2>1. ASSUME NEW cmd PROVE Given(cmd, i)' = Given(cmd, i + 1)
      BY DEF Given, Giving
    <2>2. Fixed(i)' = Fixed(i + 1)
      BY DEF Fixed, Fixing
    <2> QED  BY <1>7, <1>8, <2>1, <2>2 DEF Meaning
  <1> QED  BY <1>6, <1>9, MeaningIs, PTL

\* Nothing read means nothing set.
LEMMA NothingMeans == i = 0 /\ conf = NoConf => ConfMeaning
  BY MeaningIs DEF Meaning, Given, Giving, Fixed, Fixing, NoConf

\* The meaning depends on the lines read and on the configuration only.
LEMMA SameMeaning ==
    ASSUME ConfMeaning, UNCHANGED <<i, conf>>, card'.net = card.net
    PROVE  ConfMeaning'
  <1>1. Meaning
    BY MeaningIs
  <1>2. ASSUME NEW cmd PROVE Given(cmd, i)' = Given(cmd, i)
    BY DEF Given, Giving
  <1>3. Fixed(i)' = Fixed(i)
    BY DEF Fixed, Fixing
  <1>4. Meaning'
    BY <1>1, <1>2, <1>3 DEF Meaning
  <1> QED  BY <1>4, MeaningIs, PTL

-----------------------------------------------------------------------------
(* The invariant, action by action. *)

LEMMA InitInv == Init => Inv
  <1> SUFFICES ASSUME Init PROVE Inv
    OBVIOUS
  <1>1. SdInit /\ DiscoverInit
    BY DEF Init
  <1>2. SdTypeOK
    BY <1>1, NetFilesAssumption DEF SdInit, SdTypeOK, NoConf, Dats
  <1>3. TypeOK
    <2>1. DiscoverTypeOK
      <3>1. free \in 0 .. Pool /\ traffic \in 0 .. Pool /\ came \in 0 .. MaxDatagrams
        BY <1>1, PoolAssumption DEF DiscoverInit
      <3> QED  BY <1>1, <3>1 DEF DiscoverInit, DiscoverTypeOK
    <2>2. netif.up \in BOOLEAN /\ dhcp.mscnt \in 0 .. CoarseMs - 1
      BY BootAssumption DEF Init, NetifOff, DhcpOff
    <2>3. lmk \in 0 .. LmkRegs /\ losses \in 0 .. MaxLosses
      BY BootAssumption DEF Init
    <2> QED  BY <1>2, <2>1, <2>2, <2>3 DEF Init, TypeOK
  <1>4. RecordInv
    BY <1>1 DEF Init, RecordInv, SdInit, NoConf, NetifOff
  <1>5. CardInv /\ BufferInv
    BY <1>1, PoolAssumption DEF CardInv, BufferInv, SdInit, DiscoverInit
  <1>6. ConfMeaning
    BY <1>1, NothingMeans DEF SdInit
  <1> QED  BY <1>3, <1>4, <1>5, <1>6 DEF Inv

\* What the records hold once one field of the card changes.
LEMMA CardFields ==
    ASSUME SdTypeOK
    PROVE  /\ card.net \in NetFiles /\ card.new \in {"none", "good"}
           /\ card.dat \in Dats /\ card.part \in {0, 1} /\ Len(card.net) \in Nat
           /\ \A d \in Dats :
                /\ [card EXCEPT !.dat = d] \in [net : NetFiles, new : {"none", "good"}, dat : Dats, part : {0, 1}]
                /\ [card EXCEPT !.dat = d].net = card.net /\ [card EXCEPT !.dat = d].new = card.new
                /\ [card EXCEPT !.dat = d].dat = d /\ [card EXCEPT !.dat = d].part = card.part
           /\ [card EXCEPT !.new = "none"] \in [net : NetFiles, new : {"none", "good"}, dat : Dats, part : {0, 1}]
           /\ [card EXCEPT !.new = "none"].net = card.net /\ [card EXCEPT !.new = "none"].new = "none"
           /\ [card EXCEPT !.new = "none"].dat = card.dat /\ [card EXCEPT !.new = "none"].part = card.part
  <1>1. card \in [net : NetFiles, new : {"none", "good"}, dat : Dats, part : {0, 1}]
    BY DEF SdTypeOK
  <1>2. card.net \in NetFiles /\ card.new \in {"none", "good"} /\ card.dat \in Dats /\ card.part \in {0, 1}
    BY <1>1
  <1>3. Len(card.net) \in Nat
    BY <1>2, NetFilesAssumption
  <1>4. \A d \in Dats :
           /\ [card EXCEPT !.dat = d] \in [net : NetFiles, new : {"none", "good"}, dat : Dats, part : {0, 1}]
           /\ [card EXCEPT !.dat = d].net = card.net /\ [card EXCEPT !.dat = d].new = card.new
           /\ [card EXCEPT !.dat = d].dat = d /\ [card EXCEPT !.dat = d].part = card.part
    BY <1>1
  <1>5. /\ [card EXCEPT !.new = "none"] \in [net : NetFiles, new : {"none", "good"}, dat : Dats, part : {0, 1}]
        /\ [card EXCEPT !.new = "none"].net = card.net /\ [card EXCEPT !.new = "none"].new = "none"
        /\ [card EXCEPT !.new = "none"].dat = card.dat /\ [card EXCEPT !.new = "none"].part = card.part
    BY <1>1
  <1> QED  BY <1>2, <1>3, <1>4, <1>5

\* Every call but the one that reads a line leaves conf and the lines read.
LEMMA CallKeeps ==
    ASSUME Inv, UNCHANGED <<conf, i>>, card'.net = card.net, netif' = netif,
           dirty' \in BOOLEAN, ioerr' \in BOOLEAN
    PROVE  RecordInv' /\ ConfMeaning'
  <1>1. ConfMeaning'
    BY SameMeaning DEF Inv
  <1>2. RecordInv'
    BY DEF Inv, RecordInv
  <1> QED  BY <1>1, <1>2

\* One call of sdcard_handle.
LEMMA SdStepInv ==
    ASSUME Inv, sdcard_handle, netif' = netif
    PROVE  SdTypeOK' /\ RecordInv' /\ CardInv' /\ ConfMeaning'
  <1> USE DEF At, Goto, Fails, Works, files
  <1>0. /\ SdTypeOK /\ RecordInv /\ CardInv /\ dirty \in BOOLEAN /\ ioerr \in BOOLEAN
        /\ card.net \in NetFiles /\ card.new \in {"none", "good"}
        /\ card.dat \in Dats /\ card.part \in {0, 1} /\ Len(card.net) \in Nat
        /\ part \in {0, 1} /\ i \in 0 .. Len(card.net)
    BY CardFields DEF Inv, TypeOK, RecordInv, SdTypeOK
  <1>1. CASE Mount
    <2>1. UNCHANGED <<card, conf, i>> /\ dirty' \in BOOLEAN /\ ioerr' \in BOOLEAN
      BY <1>0, <1>1 DEF Mount
    <2>2. SdTypeOK'
      BY <1>0, <1>1, <2>1 DEF Mount, SdTypeOK
    <2>3. CardInv'
      <3>1. CASE ioerr'
        BY <3>1 DEF CardInv
      <3>2. CASE ~ioerr'
        <4>1. ~ioerr /\ sd' \in {"mount", "net open"} /\ (part' = part \/ card.part # 0)
          BY <1>0, <1>1, <3>2 DEF Mount, CardInv
        <4> QED  BY <1>0, <2>1, <4>1 DEF CardInv
      <3> QED  BY <3>1, <3>2
    <2> QED  BY <2>1, <2>2, <2>3, CallKeeps
  <1>2. CASE NetOpen
    <2>1. UNCHANGED <<card, conf, i>> /\ dirty' \in BOOLEAN /\ ioerr' \in BOOLEAN
      BY <1>0, <1>2 DEF NetOpen
    <2>2. SdTypeOK'
      BY <1>0, <1>2, <2>1 DEF NetOpen, SdTypeOK
    <2>3. CardInv'
      BY <1>0, <1>2, <2>1 DEF NetOpen, CardInv
    <2> QED  BY <2>1, <2>2, <2>3, CallKeeps
  <1>3. CASE NetLine
    <2>1. CASE i < Len(card.net) /\ conf' = ParseLine(conf, card.net[i + 1]) /\ i' = i + 1 /\ Works /\ UNCHANGED sd
      <3>1. UNCHANGED <<card, dirty, part, sd, ioerr>>
        BY <1>3, <2>1 DEF NetLine
      <3>2. ConfMeaning' /\ conf' = [addr |-> conf'.addr, mask |-> conf'.mask, gw |-> conf'.gw,
                                     hw |-> conf'.hw, static |-> conf'.static]
                         /\ conf'.static \in BOOLEAN
        BY <2>1, <3>1, LineMeans
      <3>3. SdTypeOK'
        <4>1. i' \in 0 .. Len(card'.net)
          BY <1>0, <2>1, <3>1
        <4> QED  BY <1>0, <3>1, <3>2, <4>1 DEF SdTypeOK
      <3>4. RecordInv'
        BY <1>0, <3>1, <3>2 DEF RecordInv
      <3>5. CardInv'
        BY <1>0, <3>1 DEF CardInv
      <3> QED  BY <3>2, <3>3, <3>4, <3>5
    <2>2. CASE Goto("new open") /\ (Fails \/ (i = Len(card.net) /\ Works)) /\ UNCHANGED <<conf, i>>
      <3>1. UNCHANGED <<card, dirty, part, conf, i>> /\ ioerr' \in BOOLEAN /\ sd' = "new open"
        BY <1>0, <1>3, <2>2 DEF NetLine
      <3>2. SdTypeOK'
        BY <1>0, <3>1 DEF SdTypeOK
      <3>3. CardInv'
        BY <1>0, <1>3, <2>2, <3>1 DEF CardInv
      <3> QED  BY <1>0, <3>1, <3>2, <3>3, CallKeeps
    <2> QED  BY <1>3, <2>1, <2>2 DEF NetLine
  <1>4. CASE NewOpen
    <2>1. UNCHANGED <<card, conf, i>> /\ dirty' \in BOOLEAN /\ ioerr' \in BOOLEAN
      BY <1>0, <1>4 DEF NewOpen
    <2>2. SdTypeOK'
      BY <1>0, <1>4, <2>1 DEF NewOpen, SdTypeOK
    <2>3. CardInv'
      BY <1>0, <1>4, <2>1 DEF NewOpen, CardInv
    <2> QED  BY <2>1, <2>2, <2>3, CallKeeps
  <1>5. CASE NewUnlink
    <2>0. /\ card' \in [net : NetFiles, new : {"none", "good"}, dat : Dats, part : {0, 1}]
          /\ card'.net = card.net /\ card'.part = card.part
          /\ card'.dat = card.dat /\ (ioerr' \/ card'.new = "none")
      <3>1. card' = [card EXCEPT !.new = "none"] \/ (card' = card /\ ioerr')
        BY <1>5 DEF NewUnlink
      <3> QED  BY <1>0, <3>1, CardFields DEF SdTypeOK
    <2>1. UNCHANGED <<conf, i, part>> /\ dirty' \in BOOLEAN /\ ioerr' \in BOOLEAN
      BY <1>0, <1>5 DEF NewUnlink
    <2>2. SdTypeOK'
      BY <1>0, <1>5, <2>0, <2>1 DEF NewUnlink, SdTypeOK
    <2>3. CardInv'
      BY <1>0, <1>5, <2>0, <2>1 DEF NewUnlink, CardInv
    <2> QED  BY <2>0, <2>1, <2>2, <2>3, CallKeeps
  <1>6. CASE DatOpen
    <2>0. /\ card' \in [net : NetFiles, new : {"none", "good"}, dat : Dats, part : {0, 1}]
          /\ card'.net = card.net /\ card'.part = card.part
          /\ card'.new = card.new
      <3>1. card' = card \/ card' = [card EXCEPT !.dat = IF card.dat = "none" THEN "empty" ELSE card.dat]
        BY <1>6 DEF DatOpen
      <3>2. (IF card.dat = "none" THEN "empty" ELSE card.dat) \in Dats
        BY <1>0 DEF Dats
      <3> QED  BY <1>0, <3>1, <3>2, CardFields DEF SdTypeOK
    <2>1. UNCHANGED <<conf, i, part>> /\ dirty' \in BOOLEAN /\ ioerr' \in BOOLEAN
      BY <1>0, <1>6 DEF DatOpen
    <2>2. SdTypeOK'
      BY <1>0, <1>6, <2>0, <2>1 DEF DatOpen, SdTypeOK
    <2>3. CardInv'
      BY <1>0, <1>6, <2>0, <2>1 DEF DatOpen, CardInv
    <2> QED  BY <2>0, <2>1, <2>2, <2>3, CallKeeps
  <1>7. CASE DatRead
    <2>1. UNCHANGED <<card, conf, i>> /\ dirty' \in BOOLEAN /\ ioerr' \in BOOLEAN
      BY <1>0, <1>7 DEF DatRead
    <2>2. SdTypeOK'
      BY <1>0, <1>7, <2>1 DEF DatRead, SdTypeOK
    <2>3. CardInv'
      BY <1>0, <1>7, <2>1 DEF DatRead, CardInv
    <2> QED  BY <2>1, <2>2, <2>3, CallKeeps
  <1>8. CASE DatTruncate
    <2>0. /\ card' \in [net : NetFiles, new : {"none", "good"}, dat : Dats, part : {0, 1}]
          /\ card'.net = card.net /\ card'.part = card.part
          /\ card'.new = card.new
      <3>1. (card' = card \/ card' = [card EXCEPT !.dat = "empty"]) /\ "empty" \in Dats
        BY <1>8 DEF DatTruncate, Dats
      <3> QED  BY <1>0, <3>1, CardFields DEF SdTypeOK
    <2>1. UNCHANGED <<conf, i, part>> /\ dirty' \in BOOLEAN /\ ioerr' \in BOOLEAN
      BY <1>0, <1>8 DEF DatTruncate
    <2>2. SdTypeOK'
      BY <1>0, <1>8, <2>0, <2>1 DEF DatTruncate, SdTypeOK
    <2>3. CardInv'
      BY <1>0, <1>8, <2>0, <2>1 DEF DatTruncate, CardInv
    <2> QED  BY <2>0, <2>1, <2>2, <2>3, CallKeeps
  <1>9. CASE DatWrite
    <2>0. /\ card' \in [net : NetFiles, new : {"none", "good"}, dat : Dats, part : {0, 1}]
          /\ card'.net = card.net /\ card'.part = card.part
          /\ card'.new = card.new
          /\ ioerr' \/ (card'.dat = "junk" /\ sd' = "dat sync")
      <3>1. \/ card' = [card EXCEPT !.dat = "junk"] /\ sd' = "dat sync"
            \/ card' = [card EXCEPT !.dat = "torn"] /\ ioerr'
        BY <1>9 DEF DatWrite
      <3>2. {"junk", "torn"} \subseteq Dats
        BY DEF Dats
      <3> QED  BY <1>0, <3>1, <3>2, CardFields
    <2>1. UNCHANGED <<conf, i, part>> /\ dirty' \in BOOLEAN /\ ioerr' \in BOOLEAN
      BY <1>0, <1>9 DEF DatWrite
    <2>2. SdTypeOK'
      BY <1>0, <1>9, <2>0, <2>1 DEF DatWrite, SdTypeOK
    <2>3. CardInv'
      BY <1>0, <1>9, <2>0, <2>1 DEF DatWrite, CardInv
    <2> QED  BY <2>0, <2>1, <2>2, <2>3, CallKeeps
  <1>10. CASE DatSync
    <2>1. UNCHANGED <<card, conf, i>> /\ dirty' \in BOOLEAN /\ ioerr' \in BOOLEAN
      BY <1>0, <1>10 DEF DatSync
    <2>2. SdTypeOK'
      BY <1>0, <1>10, <2>1 DEF DatSync, SdTypeOK
    <2>3. CardInv'
      <3>1. CASE ioerr'
        BY <3>1 DEF CardInv
      <3>2. CASE ~ioerr'
        <4>1. ~ioerr /\ dirty' = FALSE /\ UNCHANGED <<card, part>>
          <5>1. \/ dirty' = FALSE /\ ioerr' = ioerr
                \/ ioerr' = TRUE
            BY <1>10 DEF DatSync
          <5>2. UNCHANGED <<card, part>>
            BY <1>10 DEF DatSync
          <5> QED  BY <3>2, <5>1, <5>2
        <4>2. sd' \in {"dat close", "done"} /\ sd \in {"dat sync", "dat close"}
          BY <1>10 DEF DatSync
        <4> QED  BY <1>0, <4>1, <4>2 DEF CardInv
      <3> QED  BY <3>1, <3>2
    <2> QED  BY <2>1, <2>2, <2>3, CallKeeps
  <1> QED  BY <1>1, <1>2, <1>3, <1>4, <1>5, <1>6, <1>7, <1>8, <1>9, <1>10 DEF sdcard_handle

\* A power loss.
LEMMA SdLossInv ==
    ASSUME Inv, SdPowerLoss, netif' = NetifOff
    PROVE  SdTypeOK' /\ RecordInv' /\ CardInv' /\ ConfMeaning'
  <1>1. SdTypeOK
    BY DEF Inv, TypeOK
  <1>2. /\ card' \in [net : NetFiles, new : {"none", "good"}, dat : Dats, part : {0, 1}]
        /\ card'.net = card.net /\ Len(card.net) \in Nat
    <2>1. card' = card \/ \E d \in Dats : card' = [card EXCEPT !.dat = d]
      BY DEF SdPowerLoss
    <2> QED  BY <1>1, <2>1, CardFields DEF SdTypeOK
  <1>3. /\ conf' = NoConf /\ sd' = "mount" /\ part' = 0 /\ i' = 0 /\ ioerr' = FALSE /\ dirty' = FALSE
    BY DEF SdPowerLoss
  <1>4. SdTypeOK'
    BY <1>2, <1>3 DEF SdTypeOK, NoConf
  <1>5. RecordInv'
    BY <1>3 DEF RecordInv, NoConf, NetifOff
  <1>6. CardInv'
    BY <1>3 DEF CardInv
  <1>7. ConfMeaning'
    <2>1. (i = 0 /\ conf = NoConf)'
      BY <1>3 DEF NoConf
    <2> QED  BY <2>1, NothingMeans, PTL
  <1> QED  BY <1>4, <1>5, <1>6, <1>7

\* Every step keeps the invariant.
LEMMA NextInv == Inv /\ [Next]_vars => Inv'
  <1> SUFFICES ASSUME Inv, [Next]_vars PROVE Inv'
    OBVIOUS
  <1> DEFINE BootTypes ==
        /\ pc \in {"i2c", "lmk", "evr", "sdcard", "net", "discover", "run", "accepting",
                  "returned", "crashed"}
        /\ busy \in BOOLEAN /\ lmk \in 0 .. LmkRegs /\ losses \in 0 .. MaxLosses
        /\ threads \subseteq {"NIC", "dhcpcd", "lstats", "wvfm", "console"}
        /\ netif.up \in BOOLEAN /\ dhcp.mscnt \in 0 .. CoarseMs - 1
  <1> DEFINE SdPart == SdTypeOK /\ RecordInv /\ CardInv /\ ConfMeaning
  <1> DEFINE NetPart == DiscoverTypeOK /\ BufferInv
  <1>0. BootTypes /\ SdPart /\ NetPart
    BY DEF Inv, TypeOK
  <1>1. ASSUME BootTypes', SdPart', NetPart' PROVE Inv'
    BY <1>1 DEF Inv, TypeOK
  <1>2. ASSUME UNCHANGED sdvars, netif' = [up |-> netif'.up, addr |-> netif'.addr] PROVE SdPart'
    <2>1. ConfMeaning'
      BY <1>0, <1>2, SameMeaning DEF sdvars
    <2>2. SdTypeOK' /\ CardInv'
      BY <1>0, <1>2 DEF sdvars, SdTypeOK, CardInv
    <2>3. RecordInv'
      BY <1>0, <1>2 DEF sdvars, RecordInv
    <2> QED  BY <2>1, <2>2, <2>3
  <1>3. ASSUME UNCHANGED dvars PROVE NetPart'
    BY <1>0, <1>3 DEF dvars, DiscoverTypeOK, BufferInv
  <1>4. netif = [up |-> netif.up, addr |-> netif.addr]
    BY <1>0 DEF RecordInv
  <1> HIDE DEF SdPart, NetPart
  <1>5. CASE InitI2c \/ EvrSetup \/ BusChanges
    <2>1. UNCHANGED <<sdvars, dvars, netif, dhcp, lmk, threads, losses>>
          /\ pc' \in {"lmk", "sdcard", "crashed"}
      BY <1>5 DEF InitI2c, EvrSetup, BusChanges, netvars, board
    <2>2. busy' = busy \/ busy' = ~busy
      BY <1>5 DEF InitI2c, EvrSetup, BusChanges, board
    <2>3. busy' \in BOOLEAN
      BY <1>0, <2>2
    <2>4. BootTypes'
      BY <1>0, <2>1, <2>3
    <2> QED  BY <1>1, <1>2, <1>3, <1>4, <2>1, <2>4
  <1>6. CASE WriteLmk
    <2>1. UNCHANGED <<sdvars, dvars, netif, dhcp>>
      BY <1>6 DEF WriteLmk, netvars
    <2>2. lmk' \in 0 .. LmkRegs
      BY <1>0, <1>6, BootAssumption DEF WriteLmk
    <2>3. BootTypes'
      BY <1>0, <1>6, <2>1, <2>2 DEF WriteLmk
    <2> QED  BY <1>1, <1>2, <1>3, <1>4, <2>1, <2>3
  <1>7. CASE SdStep
    <2>1. UNCHANGED <<dvars, netif, dhcp>> /\ BootTypes'
      BY <1>0, <1>7 DEF SdStep, netvars, board
    <2>2. SdPart'
      <3>1. CASE UNCHANGED sdvars
        BY <1>2, <1>4, <2>1, <3>1
      <3>2. CASE sdcard_handle
        BY <2>1, <3>2, SdStepInv DEF SdPart
      <3> QED  BY <1>7, <3>1, <3>2 DEF SdStep
    <2> QED  BY <1>1, <1>3, <2>1, <2>2
  <1>8. CASE net_setup
    <2>1. /\ UNCHANGED <<sdvars, dvars, dhcp, busy, lmk, losses>> /\ pc' = "discover"
          /\ netif' = netif \/ netif' = [up |-> TRUE, addr |-> conf.addr]
          /\ threads' = threads \/ threads' \subseteq {"NIC", "dhcpcd"}
      BY <1>8 DEF net_setup, board
    <2>2. netif' = [up |-> netif'.up, addr |-> netif'.addr] /\ netif'.up \in BOOLEAN
      <3>1. CASE netif' = netif
        BY <1>0, <1>4, <3>1
      <3>2. CASE netif' = [up |-> TRUE, addr |-> conf.addr]
        BY <3>2
      <3> QED  BY <2>1, <3>1, <3>2
    <2>3. BootTypes'
      BY <1>0, <2>1, <2>2
    <2> QED  BY <1>1, <1>2, <1>3, <2>1, <2>2, <2>3
  <1>9. CASE discover_setup
    <2>1. UNCHANGED <<sdvars, netif, dhcp>> /\ BootTypes'
      BY <1>0, <1>9 DEF discover_setup, netvars, board
    <2>2. UNCHANGED <<free, traffic, came>> /\ (disco' \in BOOLEAN \/ disco' = disco)
      BY <1>9 DEF discover_setup, discover_prep, dvars
    <2>3. NetPart'
      BY <1>0, <2>2 DEF NetPart, DiscoverTypeOK, BufferInv
    <2> QED  BY <1>1, <1>2, <1>4, <2>1, <2>3
  <1>10. CASE psc_run_fails \/ on_startup
    <2>1. UNCHANGED <<sdvars, dvars, netif, dhcp>> /\ BootTypes'
      BY <1>0, <1>10 DEF psc_run_fails, on_startup, netvars, board
    <2> QED  BY <1>1, <1>2, <1>3, <1>4, <2>1
  <1>11. CASE dhcp_client
    <2>1. UNCHANGED <<sdvars, dvars, pc, busy, lmk, threads, losses>>
      BY <1>11 DEF dhcp_client, board
    <2>2. PICK a : netif' = [netif EXCEPT !.addr = a]
      BY <1>11 DEF dhcp_client
    <2>3. netif' = [up |-> netif'.up, addr |-> netif'.addr] /\ netif'.up \in BOOLEAN
      BY <1>0, <1>4, <2>2
    <2>4. dhcp'.mscnt = IF dhcp.mscnt + FineMs >= CoarseMs THEN 0 ELSE dhcp.mscnt + FineMs
      BY <1>11 DEF dhcp_client
    <2>5. dhcp'.mscnt \in 0 .. CoarseMs - 1
      BY <1>0, <2>4, BootAssumption
    <2>6. BootTypes'
      BY <1>0, <2>1, <2>3, <2>5
    <2> QED  BY <1>1, <1>2, <1>3, <2>1, <2>3, <2>6
  <1>12. CASE Network
    <2>1. UNCHANGED <<sdvars, netif, dhcp>> /\ BootTypes'
      BY <1>0, <1>12 DEF Network, bvars, netvars, board
    <2>2. /\ free \in 0 .. Pool /\ traffic \in 0 .. Pool /\ came \in 0 .. MaxDatagrams /\ disco \in BOOLEAN
          /\ free + traffic =< Pool
      BY <1>0 DEF NetPart, DiscoverTypeOK, BufferInv
    <2>3. /\ free' \in 0 .. Pool /\ traffic' \in 0 .. Pool /\ came' \in 0 .. MaxDatagrams
          /\ free' + traffic' =< Pool
      <3>1. CASE disco_recv
        BY <2>2, <3>1, PoolAssumption DEF disco_recv
      <3>2. CASE PacketIn
        BY <2>2, <3>2, PoolAssumption DEF PacketIn
      <3>3. CASE PacketDone
        BY <2>2, <3>3, PoolAssumption DEF PacketDone
      <3> QED  BY <1>12, <3>1, <3>2, <3>3 DEF Network, Receive
    <2>4. disco' = disco
      BY <1>12 DEF Network, Receive, disco_recv, PacketIn, PacketDone
    <2>5. NetPart'
      BY <2>2, <2>3, <2>4 DEF NetPart, DiscoverTypeOK, BufferInv
    <2> QED  BY <1>1, <1>2, <1>4, <2>1, <2>5
  <1>13. CASE PowerLoss
    <2>1. SdPart'
      BY <1>13, SdLossInv DEF PowerLoss, SdPart
    <2>2. NetPart'
      <3>1. disco' = FALSE /\ free' = Pool /\ traffic' = 0 /\ came' = 0
        BY <1>13 DEF PowerLoss, DiscoverPowerLoss
      <3>2. /\ free' \in 0 .. Pool /\ traffic' \in 0 .. Pool /\ came' \in 0 .. MaxDatagrams
            /\ free' + traffic' =< Pool
        BY <3>1, PoolAssumption
      <3> QED  BY <3>1, <3>2 DEF NetPart, DiscoverTypeOK, BufferInv
    <2>3. lmk' \in 0 .. LmkRegs /\ losses' \in 0 .. MaxLosses
      BY <1>0, <1>13, BootAssumption DEF PowerLoss
    <2>4. netif'.up \in BOOLEAN /\ dhcp'.mscnt \in 0 .. CoarseMs - 1
      BY <1>13, BootAssumption DEF PowerLoss, NetifOff, DhcpOff
    <2>5. BootTypes'
      BY <1>0, <1>13, <2>3, <2>4 DEF PowerLoss
    <2> QED  BY <1>1, <2>1, <2>2, <2>5
  <1>14. CASE UNCHANGED vars
    <2>1. UNCHANGED <<sdvars, dvars, netif, dhcp>> /\ BootTypes'
      BY <1>0, <1>14 DEF vars, bvars, netvars, board
    <2> QED  BY <1>1, <1>2, <1>3, <1>4, <2>1
  <1> QED  BY <1>5, <1>6, <1>7, <1>8, <1>9, <1>10, <1>11, <1>12, <1>13, <1>14 DEF Next, Main

LEMMA SpecInv == Spec => []Inv
  BY InitInv, NextInv, PTL DEF Spec

-----------------------------------------------------------------------------
(* The results. *)

\* main, realmain, net_setup and dhcp_client keep their variables in range, over
\* any number of power losses.
THEOREM TypeCorrect == Spec => []TypeOK
  <1>1. Inv => TypeOK
    BY DEF Inv
  <1> QED  BY <1>1, SpecInv, PTL

\* sdcard_netconf: whatever lines NET.CNF has, in whatever order, and wherever
\* its reading stopped, net_config holds what the lines read so far say.
THEOREM ConfigurationMeant == Spec => []ConfMeaning
  <1>1. Inv => ConfMeaning
    BY DEF Inv
  <1> QED  BY <1>1, SpecInv, PTL

\* sdcard_handle: whatever power losses left half done on the card, a start-up in
\* which no call into FatFs failed puts right: EEPROM.NEW is gone and EEPROM.DAT
\* neither of no length nor cut short.
THEOREM CardInOrder == Spec => []CardSettled
  <1>1. Inv => CardSettled
    BY DEF Inv, CardInv, CardSettled
  <1> QED  BY <1>1, SpecInv, PTL
=============================================================================
