------------------------ MODULE ArtixControlProofs -------------------------
(***************************************************************************)
(* Proofs about ArtixControl: the types for any number of handlers, and    *)
(* for a single one, with any messages, that every command on the link is  *)
(* the one being sent and that every message has been carried out when its *)
(* handling returns.                                                       *)
(***************************************************************************)
EXTENDS ArtixControl, TLAPS

-----------------------------------------------------------------------------
(* Types. *)

Addresses == {<<"none", 0>>, WRDATA, TRIG, READALL} \cup {<<"ADC_TABLE", n>> : n \in 0 .. MaxTable - 1}
Words == {Num(n) : n \in Nat} \cup {WREN} \cup {WRITE(a, v) : a \in EAddrs, v \in Nat}

TypeInv ==
    /\ TypeOK
    /\ reg \in [data : Words, addr : Addresses, we : {0, 1}]
    /\ spi_data \in Addresses \X Words /\ treg \in Addresses \X Words /\ wrdata \in Words
    /\ DOMAIN table = 0 .. MaxTable - 1
    /\ DOMAIN job = Handlers /\ DOMAIN k = Handlers
    /\ \A h \in Handlers : step[h] # "idle" => job[h] \in JobsOf(h) /\ done[h] < MaxJobs

-----------------------------------------------------------------------------
(* A single handler. *)

OneHandler == \E c : Handlers = {c}

\* What the first m commands of j have done.
BytesWritten(j, m) == \A b \in 1 .. NB : 4 * b =< m => eeprom[j.addr + b - 1] = j.vals[b]

EepromDone(j, m) ==
    LET r == m % 4
        b == m \div 4
    IN  /\ BytesWritten(j, m)
        /\ m =< 4 * NB =>
              /\ r \in {1, 2} => wrdata = WREN
              /\ r \in {2, 3} => wel
              /\ r = 3 => wrdata = WRITE(j.addr + b, j.vals[b + 1])
              /\ r = 0 /\ m > 0 => ~wel /\ wrdata[1] = "WRITE"
        /\ m = 4 * NB + 1 => \A a \in 1 .. NB : settings[j.addr + a - 1] = j.vals[a]

TableDone(j, m) == \A n \in 1 .. m : table[n - 1] = Num(j.vals[n])

Done(j, m) == IF j.kind = "eeprom" THEN EepromDone(j, m) ELSE TableDone(j, m)

\* Where the command of handler h is.
Latched(h) == st = "idle" /\ we_lat /\ spi_data = Command(job[h], k[h])
Shifting(h) == st = "shift" /\ treg = Command(job[h], k[h])
Cleared(h) == st = "clear" /\ ~we_lat /\ Done(job[h], k[h])
Quiet == st = "idle" /\ ~we_lat

\* The handler's accesses and the link go together, and the commands before the
\* current one, or the current one as well, have been carried out.
LinkInv(h) ==
    /\ step[h] \in {"idle", "data", "addr", "we1"} => Quiet /\ ~busy /\ reg.we = 0 /\ owed[h] = "nothing"
    /\ step[h] \in {"addr", "we1", "we0"} => reg.data = Command(job[h], k[h])[2]
    /\ step[h] \in {"we1", "we0"} => reg.addr = Command(job[h], k[h])[1]
    /\ step[h] = "we0" => reg.we = 1 /\ owed[h] = "nothing" /\ (Latched(h) \/ Shifting(h) \/ Cleared(h))
    /\ step[h] = "sleep" =>
          /\ reg.we = 0
          /\ \/ owed[h] = "transfer" /\ (Latched(h) \/ Shifting(h) \/ Cleared(h))
             \/ owed[h] = "write" /\ Quiet /\ busy /\ Done(job[h], k[h])
             \/ owed[h] = "nothing" /\ Quiet /\ ~busy /\ Done(job[h], k[h])

DoneInv(h) ==
    /\ step[h] # "idle" => Done(job[h], k[h] - 1) \/ Done(job[h], k[h])
    /\ step[h] \in {"data", "addr", "we1"} => Done(job[h], k[h] - 1)
    /\ busy => /\ step[h] \in {"we0", "sleep"} /\ job[h].kind = "eeprom" /\ k[h] =< 4 * NB /\ k[h] % 4 = 0
               /\ Done(job[h], k[h])

Inv == TypeInv /\ OneHandler /\ \A h \in Handlers : LinkInv(h) /\ DoneInv(h)

-----------------------------------------------------------------------------
(* The commands. *)

\* A command's number splits into the byte it belongs to and its place there.
LEMMA Quarter ==
    ASSUME NEW n \in Nat
    PROVE  /\ n % 4 \in 0 .. 3 /\ n \div 4 \in Nat /\ n = 4 * (n \div 4) + (n % 4)
           /\ n > 0 => /\ (n - 1) % 4 = IF n % 4 = 0 THEN 3 ELSE (n % 4) - 1
                       /\ (n - 1) \div 4 = IF n % 4 = 0 THEN n \div 4 - 1 ELSE n \div 4
  OBVIOUS

LEMMA JobFacts ==
    ASSUME NEW h \in Handlers, NEW j \in JobsOf(h)
    PROVE  /\ NB \in Nat /\ NB > 0 /\ MaxTable \in Nat /\ j.addr \in Nat /\ Len(j.vals) \in Nat
           /\ j.kind \in Kinds /\ \A b \in 1 .. Len(j.vals) : j.vals[b] \in Nat
           /\ j.kind = "eeprom" => /\ Len(j.vals) = NB /\ Commands(j) = 4 * NB + 1
                                   /\ \A b \in 1 .. NB : j.addr + b - 1 \in EAddrs
           /\ j.kind = "table" => Commands(j) = IF Len(j.vals) > MaxTable THEN 0 ELSE Len(j.vals)
           /\ j.kind # "eeprom" => j.kind = "table"
           /\ Commands(j) \in Nat
  <1>1. /\ NB \in Nat /\ NB > 0 /\ MaxTable \in Nat /\ j.addr \in Nat /\ Len(j.vals) \in Nat
        /\ j.kind \in Kinds /\ \A b \in 1 .. Len(j.vals) : j.vals[b] \in Nat
        /\ j.kind = "eeprom" => /\ Len(j.vals) = NB /\ \A b \in 1 .. NB : j.addr + b - 1 \in EAddrs
    BY SizeAssumption, JobAssumption
  <1>2. j.kind = "eeprom" => Commands(j) = 4 * NB + 1
    BY DEF Commands
  <1>3. j.kind = "table" => Commands(j) = IF Len(j.vals) > MaxTable THEN 0 ELSE Len(j.vals)
    BY DEF Commands
  <1>4. j.kind # "eeprom" => j.kind = "table"
    BY <1>1 DEF Kinds
  <1> QED  BY <1>1, <1>2, <1>3, <1>4

\* The command of an EEPROM message, by its number.
LEMMA EepromCommandIs ==
    ASSUME NEW h \in Handlers, NEW j \in JobsOf(h), j.kind = "eeprom", NEW n \in 1 .. 4 * NB + 1
    PROVE  /\ n = 4 * NB + 1 => Command(j, n) = <<READALL, Num(1)>>
           /\ n =< 4 * NB /\ n % 4 = 1 => Command(j, n) = <<WRDATA, WREN>>
           /\ n =< 4 * NB /\ n % 4 = 3 =>
                 Command(j, n) = <<WRDATA, WRITE(j.addr + n \div 4, j.vals[n \div 4 + 1])>>
           /\ n =< 4 * NB /\ n % 4 \in {0, 2} => Command(j, n) = <<TRIG, Num(1)>>
  <1> DEFINE r == (n - 1) % 4
  <1> DEFINE b == (n - 1) \div 4 + 1
  <1>1. NB \in Nat /\ j.addr \in Nat /\ n \in Nat /\ n > 0
    BY JobFacts
  <1>2. /\ n % 4 \in 0 .. 3 /\ n \div 4 \in Nat
        /\ r = IF n % 4 = 0 THEN 3 ELSE (n % 4) - 1
        /\ b - 1 = IF n % 4 = 0 THEN n \div 4 - 1 ELSE n \div 4
    BY <1>1, Quarter
  <1>3. Command(j, n) = CASE n > 4 * NB -> <<READALL, Num(1)>>
                          [] n =< 4 * NB /\ r = 0 -> <<WRDATA, WREN>>
                          [] n =< 4 * NB /\ r = 2 -> <<WRDATA, WRITE(j.addr + b - 1, j.vals[b])>>
                          [] n =< 4 * NB /\ r \in {1, 3} -> <<TRIG, Num(1)>>
    BY DEF Command, EepromCommand
  <1> HIDE DEF r, b
  <1>4. CASE n > 4 * NB
    BY <1>1, <1>3, <1>4
  <1>5. CASE n =< 4 * NB /\ n % 4 = 1
    <2>1. r = 0
      BY <1>2, <1>5
    <2> QED  BY <1>1, <1>3, <1>5, <2>1
  <1>6. CASE n =< 4 * NB /\ n % 4 = 3
    <2>1. r = 2 /\ b = n \div 4 + 1 /\ j.addr + b - 1 = j.addr + n \div 4
      BY <1>1, <1>2, <1>6 DEF b
    <2> QED  BY <1>1, <1>3, <1>6, <2>1
  <1>7. CASE n =< 4 * NB /\ n % 4 \in {0, 2}
    <2>1. r \in {1, 3}
      BY <1>2, <1>7
    <2> QED  BY <1>1, <1>3, <1>7, <2>1
  <1> QED  BY <1>1, <1>2, <1>4, <1>5, <1>6, <1>7

LEMMA CommandType ==
    ASSUME NEW h \in Handlers, NEW j \in JobsOf(h), NEW n \in 1 .. Commands(j)
    PROVE  /\ Command(j, n) \in Addresses \X Words
           /\ Command(j, n) = <<Command(j, n)[1], Command(j, n)[2]>>
  <1>1. CASE j.kind = "eeprom"
    <2>1. n \in 1 .. 4 * NB + 1 /\ NB \in Nat /\ n \in Nat
      BY <1>1, JobFacts
    <2>2. n % 4 \in 0 .. 3 /\ n \div 4 \in Nat /\ n = 4 * (n \div 4) + (n % 4)
      BY <2>1, Quarter
    <2>3. ASSUME n =< 4 * NB, n % 4 = 3
          PROVE  j.addr + n \div 4 \in EAddrs /\ j.vals[n \div 4 + 1] \in Nat
      <3>1. n \div 4 + 1 \in 1 .. NB
        BY <2>1, <2>2, <2>3
      <3>2. j.addr + (n \div 4 + 1) - 1 = j.addr + n \div 4
        BY <2>2, JobFacts
      <3> QED  BY <1>1, <3>1, <3>2, JobFacts
    <2>4. Command(j, n) \in {<<READALL, Num(1)>>, <<WRDATA, WREN>>, <<TRIG, Num(1)>>,
                             <<WRDATA, WRITE(j.addr + n \div 4, j.vals[n \div 4 + 1])>>}
          /\ (Command(j, n) = <<WRDATA, WRITE(j.addr + n \div 4, j.vals[n \div 4 + 1])>>
                \/ Command(j, n) \in {<<READALL, Num(1)>>, <<WRDATA, WREN>>, <<TRIG, Num(1)>>})
      BY <1>1, <2>1, <2>2, EepromCommandIs
    <2>5. {READALL, WRDATA, TRIG} \subseteq Addresses /\ Num(1) \in Words /\ WREN \in Words
      BY DEF Addresses, Words
    <2>6. CASE n =< 4 * NB /\ n % 4 = 3
      <3>1. WRITE(j.addr + n \div 4, j.vals[n \div 4 + 1]) \in Words
        BY <2>3, <2>6 DEF Words
      <3> QED  BY <2>4, <2>5, <3>1
    <2>7. CASE ~(n =< 4 * NB /\ n % 4 = 3)
      <3>1. Command(j, n) \in {<<READALL, Num(1)>>, <<WRDATA, WREN>>, <<TRIG, Num(1)>>}
        BY <1>1, <2>1, <2>2, <2>7, EepromCommandIs
      <3> QED  BY <2>5, <3>1
    <2> QED  BY <2>6, <2>7
  <1>2. CASE j.kind # "eeprom"
    <2>1. Command(j, n) = <<<<"ADC_TABLE", n - 1>>, Num(j.vals[n])>>
      BY <1>2 DEF Command, TableCommand
    <2>2. n - 1 \in 0 .. MaxTable - 1 /\ j.vals[n] \in Nat
      BY <1>2, JobFacts
    <2>3. <<"ADC_TABLE", n - 1>> \in Addresses /\ Num(j.vals[n]) \in Words
      BY <2>2 DEF Addresses, Words
    <2> QED  BY <2>1, <2>3
  <1> QED  BY <1>1, <1>2

-----------------------------------------------------------------------------
(* The types, action by action. *)

\* The registers and the link; the Artix; the threads.
SpiTypes ==
    /\ reg \in [data : Words, addr : Addresses, we : {0, 1}]
    /\ st \in {"idle", "shift", "clear"} /\ we_lat \in BOOLEAN
    /\ spi_data \in Addresses \X Words /\ treg \in Addresses \X Words
ArtixTypes ==
    /\ wrdata \in Words /\ eeprom \in [EAddrs -> Nat] /\ settings \in [EAddrs -> Nat]
    /\ wel \in BOOLEAN /\ busy \in BOOLEAN /\ DOMAIN table = 0 .. MaxTable - 1
ThreadTypes ==
    /\ step \in [Handlers -> {"idle", "data", "addr", "we1", "we0", "sleep"}]
    /\ owed \in [Handlers -> {"nothing", "transfer", "write"}]
    /\ done \in [Handlers -> 0 .. MaxJobs]
    /\ DOMAIN job = Handlers /\ DOMAIN k = Handlers
    /\ \A h \in Handlers : step[h] # "idle" => /\ job[h] \in JobsOf(h) /\ k[h] \in 1 .. Commands(job[h])
                                              /\ done[h] < MaxJobs

LEMMA TypeParts == TypeInv <=> SpiTypes /\ ArtixTypes /\ ThreadTypes
  BY DEF TypeInv, TypeOK, SpiTypes, ArtixTypes, ThreadTypes

LEMMA TypeInit == Init => TypeInv
  <1> SUFFICES ASSUME Init PROVE SpiTypes /\ ArtixTypes /\ ThreadTypes
    BY TypeParts
  <1>1. Num(0) \in Words /\ <<"none", 0>> \in Addresses
    BY DEF Words, Addresses
  <1>2. SpiTypes
    BY <1>1 DEF Init, SpiTypes, NOCMD
  <1>3. ArtixTypes
    BY <1>1, SizeAssumption DEF Init, ArtixTypes
  <1>4. ThreadTypes
    BY SizeAssumption DEF Init, ThreadTypes
  <1> QED  BY <1>2, <1>3, <1>4

\* A register access: the registers, and the latch if we is set.
LEMMA SetRegTypes ==
    ASSUME SpiTypes, NEW r \in [data : Words, addr : Addresses, we : {0, 1}], SetReg(r)
    PROVE  SpiTypes'
  <1>1. <<r.addr, r.data>> \in Addresses \X Words
    OBVIOUS
  <1> QED  BY <1>1 DEF SetReg, SpiTypes

\* A word that the EEPROM answers to.
LEMMA TriggerTypes ==
    ASSUME ArtixTypes, Trigger
    PROVE  ArtixTypes'
  <1>1. wel' \in BOOLEAN
    BY DEF Trigger, ArtixTypes
  <1>2. busy' \in BOOLEAN
    BY DEF Trigger, ArtixTypes
  <1>3. eeprom' \in [EAddrs -> Nat]
    <2>1. CASE ~busy /\ wel /\ wrdata[1] = "WRITE"
      <3>1. PICK a \in EAddrs, v \in Nat : wrdata = WRITE(a, v)
        BY <2>1 DEF ArtixTypes, Words, Num, WREN
      <3>2. eeprom' = [eeprom EXCEPT ![a] = v]
        BY <2>1, <3>1 DEF Trigger, WRITE
      <3> QED  BY <3>2 DEF ArtixTypes
    <2>2. CASE ~(~busy /\ wel /\ wrdata[1] = "WRITE")
      BY <2>2 DEF Trigger, ArtixTypes
    <2> QED  BY <2>1, <2>2
  <1> QED  BY <1>1, <1>2, <1>3 DEF Trigger, ArtixTypes

LEMMA TypeStep == TypeInv /\ [Next]_vars => TypeInv'
  <1> SUFFICES ASSUME TypeInv, [Next]_vars PROVE SpiTypes' /\ ArtixTypes' /\ ThreadTypes'
    BY TypeParts, PTL
  <1>0. SpiTypes /\ ArtixTypes /\ ThreadTypes
    BY TypeParts
  <1>1. ASSUME UNCHANGED <<reg, spi>> PROVE SpiTypes'
    BY <1>0, <1>1 DEF spi, SpiTypes
  <1>2. ASSUME UNCHANGED artix PROVE ArtixTypes'
    BY <1>0, <1>2 DEF artix, ArtixTypes
  <1>3. ASSUME UNCHANGED threads PROVE ThreadTypes'
    BY <1>0, <1>3 DEF threads, ThreadTypes
  <1>4. ASSUME NEW h \in Handlers, step[h] # "idle"
        PROVE  Command(job[h], k[h])[1] \in Addresses /\ Command(job[h], k[h])[2] \in Words
    BY <1>0, <1>4, CommandType DEF ThreadTypes
  <1>5. ASSUME NEW h \in Handlers, NEW j \in JobsOf(h), Begin(h, j) PROVE SpiTypes' /\ ArtixTypes' /\ ThreadTypes'
    <2>1. SpiTypes' /\ ArtixTypes'
      BY <1>1, <1>2, <1>5 DEF Begin
    <2>2. done[h] \in 0 .. MaxJobs /\ done[h] < MaxJobs /\ MaxJobs \in Nat
      BY <1>0, <1>5, SizeAssumption DEF Begin, ThreadTypes
    <2>3. CASE Commands(j) = 0
      <3>1. Returned(h) /\ owed' = owed
        BY <1>5, <2>3 DEF Begin
      <3>2. done[h] + 1 \in 0 .. MaxJobs
        BY <2>2
      <3> QED  BY <1>0, <2>1, <3>1, <3>2 DEF Returned, ThreadTypes
    <2>4. CASE Commands(j) # 0
      <3>1. 1 \in 1 .. Commands(j)
        BY <2>4, JobFacts
      <3>2. /\ job' = [job EXCEPT ![h] = j] /\ k' = [k EXCEPT ![h] = 1]
            /\ step' = [step EXCEPT ![h] = "data"] /\ UNCHANGED <<done, owed>>
        BY <1>5, <2>4 DEF Begin
      <3> QED  BY <1>0, <2>1, <2>2, <3>1, <3>2 DEF ThreadTypes
    <2> QED  BY <2>3, <2>4
  <1>6. ASSUME NEW h \in Handlers, OutData(h) \/ OutAddr(h) \/ OutWe1(h) PROVE SpiTypes' /\ ArtixTypes' /\ ThreadTypes'
    <2>1. step[h] # "idle"
      BY <1>6 DEF OutData, OutAddr, OutWe1
    <2>2. /\ [reg EXCEPT !.data = Command(job[h], k[h])[2]] \in [data : Words, addr : Addresses, we : {0, 1}]
          /\ [reg EXCEPT !.addr = Command(job[h], k[h])[1]] \in [data : Words, addr : Addresses, we : {0, 1}]
          /\ [reg EXCEPT !.we = 1] \in [data : Words, addr : Addresses, we : {0, 1}]
      BY <1>0, <1>4, <2>1 DEF SpiTypes
    <2>3. SpiTypes'
      BY <1>0, <1>6, <2>2, SetRegTypes DEF OutData, OutAddr, OutWe1
    <2>4. ArtixTypes'
      BY <1>2, <1>6 DEF OutData, OutAddr, OutWe1, SetReg
    <2>5. ThreadTypes'
      <3>1. PICK x \in {"addr", "we1", "we0"} : step' = [step EXCEPT ![h] = x]
        BY <1>6 DEF OutData, OutAddr, OutWe1
      <3>2. UNCHANGED <<job, k, owed, done>>
        BY <1>6 DEF OutData, OutAddr, OutWe1
      <3> QED  BY <1>0, <2>1, <3>1, <3>2 DEF ThreadTypes
    <2> QED  BY <2>3, <2>4, <2>5
  <1>7. ASSUME NEW h \in Handlers, OutWe0(h) PROVE SpiTypes' /\ ArtixTypes' /\ ThreadTypes'
    <2>1. [reg EXCEPT !.we = 0] \in [data : Words, addr : Addresses, we : {0, 1}]
      BY <1>0 DEF SpiTypes
    <2>2. SpiTypes'
      BY <1>0, <1>7, <2>1, SetRegTypes DEF OutWe0
    <2>3. ArtixTypes'
      BY <1>2, <1>7 DEF OutWe0, SetReg
    <2>4. Owes(h) \in {"nothing", "transfer", "write"}
      BY DEF Owes
    <2>5. ThreadTypes'
      BY <1>0, <1>7, <2>4 DEF OutWe0, ThreadTypes
    <2> QED  BY <2>2, <2>3, <2>5
  <1>8. ASSUME NEW h \in Handlers, Wake(h) PROVE SpiTypes' /\ ArtixTypes' /\ ThreadTypes'
    <2>1. SpiTypes' /\ ArtixTypes'
      BY <1>1, <1>2, <1>8 DEF Wake
    <2>2. CASE k[h] = Commands(job[h])
      <3>1. Returned(h) /\ owed' = owed
        BY <1>8, <2>2 DEF Wake
      <3>2. done[h] + 1 \in 0 .. MaxJobs
        BY <1>0, <1>8, SizeAssumption DEF Wake, ThreadTypes
      <3> QED  BY <1>0, <2>1, <3>1, <3>2 DEF Returned, ThreadTypes
    <2>3. CASE k[h] # Commands(job[h])
      <3>1. /\ k' = [k EXCEPT ![h] = @ + 1] /\ step' = [step EXCEPT ![h] = "data"]
            /\ UNCHANGED <<job, done, owed>> /\ step[h] = "sleep"
        BY <1>8, <2>3 DEF Wake
      <3>2. k[h] + 1 \in 1 .. Commands(job[h])
        BY <1>0, <2>3, <3>1, JobFacts DEF ThreadTypes
      <3> QED  BY <1>0, <2>1, <3>1, <3>2 DEF ThreadTypes
    <2> QED  BY <2>2, <2>3
  <1>9. CASE SpiLoad
    <2>1. SpiTypes'
      BY <1>0, <1>9 DEF SpiLoad, SpiTypes
    <2> QED  BY <1>2, <1>3, <1>9, <2>1 DEF SpiLoad
  <1>10. CASE SpiShift
    <2>1. SpiTypes'
      <3>1. NOCMD \in Addresses \X Words
        BY DEF NOCMD, Addresses, Words
      <3> QED  BY <1>0, <1>10, <3>1 DEF SpiShift, SpiTypes
    <2>2. ArtixTypes'
      <3>1. treg[2] \in Words /\ Execute(treg[1], treg[2])
        BY <1>0, <1>10 DEF SpiShift, SpiTypes
      <3>2. CASE Trigger
        BY <1>0, <3>2, TriggerTypes
      <3>3. CASE ~Trigger
        BY <1>0, <1>2, <3>1, <3>3 DEF Execute, ArtixTypes
      <3> QED  BY <3>2, <3>3
    <2> QED  BY <1>3, <1>10, <2>1, <2>2 DEF SpiShift
  <1>11. CASE SpiClear
    <2>1. SpiTypes'
      <3>1. <<reg.addr, reg.data>> \in Addresses \X Words
        BY <1>0 DEF SpiTypes
      <3>2. spi_data' \in Addresses \X Words
        BY <1>0, <1>11, <3>1 DEF SpiClear, SpiTypes
      <3>3. we_lat' \in BOOLEAN
        BY <1>11 DEF SpiClear
      <3> QED  BY <1>0, <1>11, <3>2, <3>3 DEF SpiClear, SpiTypes
    <2>2. ThreadTypes'
      <3>1. owed' \in [Handlers -> {"nothing", "transfer", "write"}]
        BY <1>0, <1>11 DEF SpiClear, ThreadTypes
      <3> QED  BY <1>0, <1>11, <3>1 DEF SpiClear, ThreadTypes
    <2> QED  BY <1>2, <1>11, <2>1, <2>2 DEF SpiClear
  <1>12. CASE EepromReady
    <2>1. ThreadTypes'
      <3>1. owed' \in [Handlers -> {"nothing", "transfer", "write"}]
        BY <1>0, <1>12 DEF EepromReady, ThreadTypes
      <3> QED  BY <1>0, <1>12, <3>1 DEF EepromReady, ThreadTypes
    <2>2. ArtixTypes'
      BY <1>0, <1>12 DEF EepromReady, ArtixTypes
    <2> QED  BY <1>1, <1>12, <2>1, <2>2 DEF EepromReady
  <1>13. CASE UNCHANGED vars
    BY <1>1, <1>2, <1>3, <1>13 DEF vars
  <1> QED  BY <1>5, <1>6, <1>7, <1>8, <1>9, <1>10, <1>11, <1>12, <1>13 DEF Next, Thread, Gateware

-----------------------------------------------------------------------------
(* What a command does, however often it is carried out. *)

LEMMA ExecuteIs ==
    ASSUME NEW a, NEW d, Execute(a, d)
    PROVE  /\ a = WRDATA => wrdata' = d /\ UNCHANGED <<table, settings, eeprom, wel, busy>>
           /\ a = TRIG => Trigger
           /\ a = READALL => /\ settings' = (IF busy THEN settings ELSE eeprom)
                             /\ UNCHANGED <<wrdata, table, eeprom, wel, busy>>
           /\ a[1] = "ADC_TABLE" => /\ table' = [table EXCEPT ![a[2]] = d]
                                    /\ UNCHANGED <<wrdata, settings, eeprom, wel, busy>>
  <1>1. /\ a = WRDATA => a[1] = "EEPROM_WRDATA"
        /\ a = TRIG => a[1] = "EEPROM_TRIG"
        /\ a = READALL => a[1] = "EEPROM_READALL"
    BY DEF WRDATA, TRIG, READALL
  <1> QED  BY <1>1 DEF Execute

\* The part of EepromDone that is about one place among the four of a byte.
EepromAt(j, m, b) ==
    /\ BytesWritten(j, m)
    /\ m % 4 \in {1, 2} => wrdata = WREN
    /\ m % 4 \in {2, 3} => wel
    /\ m % 4 = 3 => wrdata = WRITE(j.addr + b, j.vals[b + 1])
    /\ m % 4 = 0 /\ m > 0 => ~wel /\ wrdata[1] = "WRITE"

LEMMA EepromAtIs ==
    ASSUME NEW j, NEW m \in Nat, m =< 4 * NB
    PROVE  EepromDone(j, m) <=> EepromAt(j, m, m \div 4)
  <1>1. NB \in Nat /\ m # 4 * NB + 1
    BY SizeAssumption
  <1> QED  BY <1>1 DEF EepromDone, EepromAt

\* EEPROM_WRDATA.
LEMMA DataDone ==
    ASSUME NEW h \in Handlers, NEW j \in JobsOf(h), j.kind = "eeprom", NEW n \in 1 .. 4 * NB, n % 4 \in {1, 3},
           Execute(Command(j, n)[1], Command(j, n)[2]),
           EepromDone(j, n - 1) \/ EepromDone(j, n)
    PROVE  EepromDone(j, n)' /\ busy' = busy
  <1>1. NB \in Nat /\ n \in Nat /\ n - 1 \in Nat /\ n \in 1 .. 4 * NB + 1
    BY SizeAssumption
  <1>2. (n - 1) % 4 = (n % 4) - 1 /\ (n - 1) \div 4 = n \div 4 /\ n = 4 * (n \div 4) + (n % 4) /\ n \div 4 \in Nat
    BY <1>1, Quarter
  <1>3. EepromAt(j, n - 1, n \div 4) \/ EepromAt(j, n, n \div 4)
    BY <1>1, <1>2, EepromAtIs
  <1>4. Command(j, n)[1] = WRDATA
        /\ Command(j, n)[2] = IF n % 4 = 1 THEN WREN ELSE WRITE(j.addr + n \div 4, j.vals[n \div 4 + 1])
    BY <1>1, EepromCommandIs
  <1>5. wrdata' = Command(j, n)[2] /\ UNCHANGED <<table, settings, eeprom, wel, busy>>
    BY <1>4, ExecuteIs
  <1>6. BytesWritten(j, n)'
    <2>1. \A b \in 1 .. NB : 4 * b =< n => 4 * b =< n - 1
      BY <1>1, <1>2
    <2>2. \A b \in 1 .. NB : 4 * b =< n => eeprom[j.addr + b - 1] = j.vals[b]
      BY <1>3, <2>1 DEF EepromAt, BytesWritten
    <2> QED  BY <1>5, <2>2 DEF BytesWritten
  <1>7. n % 4 = 3 => wel'
    BY <1>2, <1>3, <1>5 DEF EepromAt
  <1>8. EepromAt(j, n, n \div 4)'
    <2>1. CASE n % 4 = 1
      BY <1>4, <1>5, <1>6, <2>1 DEF EepromAt
    <2>2. CASE n % 4 = 3
      BY <1>4, <1>5, <1>6, <1>7, <2>2 DEF EepromAt
    <2> QED  BY <2>1, <2>2
  <1>9. EepromDone(j, n)'
    BY <1>1, <1>8 DEF EepromDone, EepromAt
  <1> QED  BY <1>5, <1>9

\* EEPROM_TRIG: the write enable command, and the write of a byte, which once done
\* is not done again.
LEMMA TrigDone ==
    ASSUME NEW h \in Handlers, NEW j \in JobsOf(h), j.kind = "eeprom", NEW n \in 1 .. 4 * NB, n % 4 \in {0, 2},
           Execute(Command(j, n)[1], Command(j, n)[2]), ArtixTypes,
           EepromDone(j, n - 1) \/ EepromDone(j, n),
           busy => n % 4 = 0 /\ EepromDone(j, n)
    PROVE  EepromDone(j, n)' /\ (busy' => n % 4 = 0)
  <1>1. NB \in Nat /\ n \in Nat /\ n - 1 \in Nat /\ n \in 1 .. 4 * NB + 1 /\ n > 0 /\ j.addr \in Nat
    BY SizeAssumption, JobFacts
  <1> DEFINE q == n \div 4
  <1>2. /\ n = 4 * q + (n % 4) /\ q \in Nat
        /\ n % 4 = 2 => (n - 1) % 4 = 1 /\ (n - 1) \div 4 = q
        /\ n % 4 = 0 => (n - 1) % 4 = 3 /\ (n - 1) \div 4 = q - 1
    BY <1>1, Quarter
  <1>3. Command(j, n)[1] = TRIG
    BY <1>1, EepromCommandIs
  <1>4. Trigger
    BY <1>3, ExecuteIs
  <1>5. CASE n % 4 = 2
    <2>1. ~busy /\ (EepromAt(j, n - 1, q) \/ EepromAt(j, n, q))
      BY <1>1, <1>2, <1>5, EepromAtIs
    <2>2. wrdata = WREN /\ wrdata[1] # "WRITE"
      BY <1>2, <1>5, <2>1 DEF EepromAt, WREN
    <2>3. wel' = TRUE /\ UNCHANGED <<eeprom, busy, wrdata, settings>>
      BY <1>4, <2>1, <2>2 DEF Trigger
    <2>4. BytesWritten(j, n)'
      <3>1. \A b \in 1 .. NB : 4 * b =< n => 4 * b =< n - 1
        BY <1>1, <1>2, <1>5
      <3>2. \A b \in 1 .. NB : 4 * b =< n => eeprom[j.addr + b - 1] = j.vals[b]
        BY <2>1, <3>1 DEF EepromAt, BytesWritten
      <3> QED  BY <2>3, <3>2 DEF BytesWritten
    <2>5. EepromDone(j, n)'
      BY <1>1, <1>5, <2>2, <2>3, <2>4 DEF EepromDone
    <2> QED  BY <1>5, <2>1, <2>3, <2>5
  <1>6. CASE n % 4 = 0 /\ EepromDone(j, n)
    <2>1. EepromAt(j, n, q)
      BY <1>1, <1>6, EepromAtIs
    <2>2. ~wel /\ wrdata[1] = "WRITE" /\ wrdata # WREN
      BY <1>1, <1>6, <2>1 DEF EepromAt, WREN
    <2>3. ~wel' /\ UNCHANGED <<eeprom, busy, wrdata, settings>>
      BY <1>4, <2>2 DEF Trigger
    <2>4. BytesWritten(j, n)'
      BY <2>1, <2>3 DEF EepromAt, BytesWritten
    <2>5. EepromDone(j, n)'
      BY <1>1, <1>6, <2>2, <2>3, <2>4 DEF EepromDone
    <2> QED  BY <1>6, <2>5
  <1>7. CASE n % 4 = 0 /\ ~EepromDone(j, n)
    <2>1. ~busy /\ EepromAt(j, n - 1, q - 1)
      BY <1>1, <1>2, <1>7, EepromAtIs
    <2>2. wel /\ wrdata = WRITE(j.addr + (q - 1), j.vals[(q - 1) + 1])
      BY <1>2, <1>7, <2>1 DEF EepromAt
    <2>3. q \in 1 .. NB /\ (q - 1) + 1 = q /\ j.addr + (q - 1) = j.addr + q - 1 /\ n = 4 * q
      BY <1>1, <1>2, <1>7
    <2> HIDE DEF q
    <2>4. /\ wrdata[1] = "WRITE" /\ wrdata # WREN
          /\ wrdata[2] = j.addr + q - 1 /\ wrdata[3] = j.vals[q]
      BY <2>2, <2>3 DEF WRITE, WREN
    <2>5. /\ ~wel' /\ UNCHANGED <<wrdata, settings>>
          /\ eeprom' = [eeprom EXCEPT ![j.addr + q - 1] = j.vals[q]]
      BY <1>4, <2>1, <2>2, <2>4 DEF Trigger
    <2>6. BytesWritten(j, n)'
      <3>1. \A b \in 1 .. NB : j.addr + b - 1 \in EAddrs
        BY JobFacts
      <3>2. eeprom'[j.addr + q - 1] = j.vals[q]
        BY <2>3, <2>5, <3>1 DEF ArtixTypes
      <3>3. ASSUME NEW b \in 1 .. NB, 4 * b =< n, b # q PROVE eeprom'[j.addr + b - 1] = j.vals[b]
        <4>1. 4 * b =< n - 1 /\ j.addr + b - 1 # j.addr + q - 1
          BY <1>1, <2>3, <3>3
        <4>2. eeprom[j.addr + b - 1] = j.vals[b]
          BY <2>1, <4>1 DEF EepromAt, BytesWritten
        <4> QED  BY <2>5, <3>1, <4>1, <4>2 DEF ArtixTypes
      <3> QED  BY <3>2, <3>3 DEF BytesWritten
    <2>7. EepromDone(j, n)'
      BY <1>1, <1>7, <2>4, <2>5, <2>6 DEF EepromDone
    <2> QED  BY <1>7, <2>7
  <1> QED  BY <1>5, <1>6, <1>7

\* Any command.
LEMMA CommandDone ==
    ASSUME NEW h \in Handlers, NEW j \in JobsOf(h), NEW n \in 1 .. Commands(j), ArtixTypes,
           Execute(Command(j, n)[1], Command(j, n)[2]),
           Done(j, n - 1) \/ Done(j, n),
           busy => j.kind = "eeprom" /\ n =< 4 * NB /\ n % 4 = 0 /\ Done(j, n)
    PROVE  Done(j, n)' /\ (busy' => j.kind = "eeprom" /\ n =< 4 * NB /\ n % 4 = 0)
  <1>1. NB \in Nat /\ n \in Nat /\ Commands(j) \in Nat
    BY JobFacts
  <1>2. CASE j.kind = "eeprom" /\ n =< 4 * NB
    <2>1. n % 4 \in 0 .. 3 /\ n \in 1 .. 4 * NB
      BY <1>1, <1>2, Quarter
    <2>2. EepromDone(j, n - 1) \/ EepromDone(j, n)
      BY <1>2 DEF Done
    <2>3. busy => n % 4 = 0 /\ EepromDone(j, n)
      BY <1>2 DEF Done
    <2>4. CASE n % 4 \in {1, 3}
      <3>1. EepromDone(j, n)' /\ busy' = busy
        BY <1>2, <2>1, <2>2, <2>4, DataDone
      <3> QED  BY <1>2, <3>1 DEF Done
    <2>5. CASE n % 4 \in {0, 2}
      <3>1. EepromDone(j, n)' /\ (busy' => n % 4 = 0)
        BY <1>2, <2>1, <2>2, <2>3, <2>5, TrigDone
      <3> QED  BY <1>2, <3>1 DEF Done
    <2> QED  BY <2>1, <2>4, <2>5
  <1>3. CASE j.kind = "eeprom" /\ n > 4 * NB
    <2>1. n = 4 * NB + 1 /\ n - 1 = 4 * NB
      BY <1>1, <1>3, JobFacts
    <2>2. Command(j, n)[1] = READALL /\ ~busy
      BY <1>1, <1>3, <2>1, EepromCommandIs
    <2>3. settings' = eeprom /\ UNCHANGED <<wrdata, table, eeprom, wel, busy>>
      BY <2>2, ExecuteIs
    <2>4. \A b \in 1 .. NB : eeprom[j.addr + b - 1] = j.vals[b]
      <3>1. \A b \in 1 .. NB : 4 * b =< n - 1 /\ 4 * b =< n
        BY <1>1, <2>1
      <3> QED  BY <1>3, <3>1 DEF Done, EepromDone, BytesWritten
    <2>5. EepromDone(j, n)'
      BY <1>1, <2>1, <2>3, <2>4 DEF EepromDone, BytesWritten
    <2> QED  BY <1>3, <2>2, <2>3, <2>5 DEF Done
  <1>4. CASE j.kind # "eeprom"
    <2>1. Command(j, n)[1] = <<"ADC_TABLE", n - 1>> /\ Command(j, n)[2] = Num(j.vals[n])
      BY <1>4 DEF Command, TableCommand
    <2>2. table' = [table EXCEPT ![n - 1] = Num(j.vals[n])] /\ UNCHANGED busy
      BY <2>1, ExecuteIs
    <2>3. n - 1 \in 0 .. MaxTable - 1 /\ ~busy
      BY <1>4, JobFacts
    <2>4. TableDone(j, n - 1)
      BY <1>1, <1>4 DEF Done, TableDone
    <2>5. ASSUME NEW x \in 1 .. n PROVE table'[x - 1] = Num(j.vals[x])
      <3>1. x - 1 \in 0 .. MaxTable - 1 /\ (x # n => x - 1 # n - 1 /\ x \in 1 .. n - 1)
        BY <1>1, <2>3, SizeAssumption
      <3> QED  BY <2>2, <2>3, <2>4, <3>1 DEF ArtixTypes, TableDone
    <2> QED  BY <1>4, <2>2, <2>3, <2>5 DEF Done, TableDone
  <1> QED  BY <1>1, <1>2, <1>3, <1>4

-----------------------------------------------------------------------------
(* The invariant of a single handler. *)

\* What was done stays done while the Artix is left alone.
LEMMA SameDone ==
    ASSUME NEW j, NEW m, UNCHANGED <<wrdata, table, settings, eeprom, wel>>
    PROVE  Done(j, m)' <=> Done(j, m)
  BY DEF Done, EepromDone, TableDone, BytesWritten

LEMMA NothingDone ==
    ASSUME NEW h \in Handlers, NEW j \in JobsOf(h)
    PROVE  Done(j, 0)
  <1>1. NB \in Nat /\ 0 % 4 = 0
    BY SizeAssumption
  <1> QED  BY <1>1 DEF Done, EepromDone, TableDone, BytesWritten

LEMMA InitInv == Init /\ OneHandler => Inv
  <1> SUFFICES ASSUME Init, OneHandler PROVE Inv
    OBVIOUS
  <1>1. TypeInv
    BY TypeInit
  <1>2. ASSUME NEW h \in Handlers PROVE LinkInv(h) /\ DoneInv(h)
    BY DEF Init, LinkInv, DoneInv, Quiet
  <1> QED  BY <1>1, <1>2 DEF Inv

\* A step of the handler.
LEMMA ThreadStep ==
    ASSUME Inv, NEW h \in Handlers, (\E j \in JobsOf(h) : Begin(h, j)) \/ Thread(h)
    PROVE  LinkInv(h)' /\ DoneInv(h)'
  <1>0. /\ LinkInv(h) /\ DoneInv(h) /\ SpiTypes /\ ArtixTypes /\ ThreadTypes
        /\ step \in [Handlers -> {"idle", "data", "addr", "we1", "we0", "sleep"}]
        /\ owed \in [Handlers -> {"nothing", "transfer", "write"}]
        /\ DOMAIN job = Handlers /\ DOMAIN k = Handlers
        /\ reg \in [data : Words, addr : Addresses, we : {0, 1}]
    BY TypeParts DEF Inv, ThreadTypes, SpiTypes
  <1>1. ASSUME NEW j \in JobsOf(h), Begin(h, j) PROVE LinkInv(h)' /\ DoneInv(h)'
    <2>1. UNCHANGED <<reg, spi, artix, owed>> /\ step[h] = "idle"
      BY <1>1 DEF Begin
    <2>2. CASE Commands(j) = 0
      <3>1. step'[h] = "idle"
        BY <1>0, <1>1, <2>2 DEF Begin, Returned
      <3> QED  BY <1>0, <2>1, <3>1 DEF LinkInv, DoneInv, Quiet, spi, artix
    <2>3. CASE Commands(j) # 0
      <3>1. step'[h] = "data" /\ job'[h] = j /\ k'[h] = 1
        BY <1>0, <1>1, <2>3 DEF Begin
      <3>2. Done(j, 0)'
        BY <2>1, NothingDone, SameDone DEF artix
      <3>3. Done(job[h], k[h] - 1)'
        BY <3>1, <3>2 DEF Done, EepromDone, TableDone, BytesWritten
      <3> QED  BY <1>0, <2>1, <3>1, <3>3 DEF LinkInv, DoneInv, Quiet, spi, artix
    <2> QED  BY <2>2, <2>3
  <1>2. ASSUME OutData(h) PROVE LinkInv(h)' /\ DoneInv(h)'
    <2>1. /\ step[h] = "data" /\ step'[h] = "addr" /\ UNCHANGED <<job, k, owed, artix, st>>
          /\ reg' = [reg EXCEPT !.data = Command(job[h], k[h])[2]]
      BY <1>0, <1>2 DEF OutData, SetReg
    <2>2. reg'.data = Command(job[h], k[h])[2] /\ reg'.we = reg.we /\ reg.we = 0
      BY <1>0, <2>1 DEF LinkInv
    <2>3. UNCHANGED <<we_lat, spi_data>>
      BY <1>2, <2>1, <2>2 DEF OutData, SetReg
    <2>4. Done(job[h], k[h] - 1)'
      BY <1>0, <2>1, SameDone DEF DoneInv, artix, Done, EepromDone, TableDone, BytesWritten
    <2>5. Command(job[h], k[h])' = Command(job[h], k[h])
      BY <2>1 DEF Command, EepromCommand, TableCommand
    <2> QED  BY <1>0, <2>1, <2>2, <2>3, <2>4, <2>5 DEF LinkInv, DoneInv, Quiet, artix
  <1>3. ASSUME OutAddr(h) PROVE LinkInv(h)' /\ DoneInv(h)'
    <2>1. /\ step[h] = "addr" /\ step'[h] = "we1" /\ UNCHANGED <<job, k, owed, artix, st>>
          /\ reg' = [reg EXCEPT !.addr = Command(job[h], k[h])[1]]
      BY <1>0, <1>3 DEF OutAddr, SetReg
    <2>2. /\ reg'.addr = Command(job[h], k[h])[1] /\ reg'.we = reg.we /\ reg.we = 0
          /\ reg'.data = Command(job[h], k[h])[2]
      BY <1>0, <2>1 DEF LinkInv
    <2>3. UNCHANGED <<we_lat, spi_data>>
      BY <1>3, <2>1, <2>2 DEF OutAddr, SetReg
    <2>4. Done(job[h], k[h] - 1)'
      BY <1>0, <2>1, SameDone DEF DoneInv, artix, Done, EepromDone, TableDone, BytesWritten
    <2>5. Command(job[h], k[h])' = Command(job[h], k[h])
      BY <2>1 DEF Command, EepromCommand, TableCommand
    <2> QED  BY <1>0, <2>1, <2>2, <2>3, <2>4, <2>5 DEF LinkInv, DoneInv, Quiet, artix
  <1>4. ASSUME OutWe1(h) PROVE LinkInv(h)' /\ DoneInv(h)'
    <2>1. /\ step[h] = "we1" /\ step'[h] = "we0" /\ UNCHANGED <<job, k, owed, artix, st>>
          /\ reg' = [reg EXCEPT !.we = 1]
      BY <1>0, <1>4 DEF OutWe1, SetReg
    <2>2. /\ reg'.addr = Command(job[h], k[h])[1] /\ reg'.we = 1
          /\ reg'.data = Command(job[h], k[h])[2] /\ st = "idle" /\ ~busy /\ owed[h] = "nothing"
      BY <1>0, <2>1 DEF LinkInv, Quiet
    <2>3. we_lat' = TRUE /\ spi_data' = <<reg'.addr, reg'.data>>
      BY <1>4, <2>1, <2>2 DEF OutWe1, SetReg
    <2>4. Done(job[h], k[h] - 1)'
      BY <1>0, <2>1, SameDone DEF DoneInv, artix, Done, EepromDone, TableDone, BytesWritten
    <2>5. Command(job[h], k[h])' = Command(job[h], k[h])
      BY <2>1 DEF Command, EepromCommand, TableCommand
    <2>6. Command(job[h], k[h]) = <<Command(job[h], k[h])[1], Command(job[h], k[h])[2]>>
      BY <1>0, <2>1, CommandType DEF ThreadTypes
    <2>7. Latched(h)'
      BY <2>1, <2>2, <2>3, <2>5, <2>6 DEF Latched
    <2> QED  BY <1>0, <2>1, <2>2, <2>3, <2>4, <2>5, <2>7 DEF LinkInv, DoneInv, Quiet, artix
  <1>5. ASSUME OutWe0(h) PROVE LinkInv(h)' /\ DoneInv(h)'
    <2>1. /\ step[h] = "we0" /\ step'[h] = "sleep" /\ UNCHANGED <<job, k, artix, st, treg>>
          /\ reg' = [reg EXCEPT !.we = 0] /\ owed'[h] = Owes(h)
      BY <1>0, <1>5 DEF OutWe0, SetReg
    <2>2. reg'.we = 0
      BY <1>0, <2>1
    <2>3. UNCHANGED <<we_lat, spi_data>>
      BY <1>5, <2>1, <2>2 DEF OutWe0, SetReg
    <2>4. /\ Done(job[h], k[h])' <=> Done(job[h], k[h])
          /\ Done(job[h], k[h] - 1)' <=> Done(job[h], k[h] - 1)
      BY <2>1 DEF artix, Done, EepromDone, TableDone, BytesWritten
    <2>5. Command(job[h], k[h])' = Command(job[h], k[h])
      BY <2>1 DEF Command, EepromCommand, TableCommand
    <2>6. Latched(h) \/ Shifting(h) \/ Cleared(h)
      BY <1>0, <2>1 DEF LinkInv
    <2>7. owed'[h] = "transfer"
      BY <2>1, <2>6 DEF Owes, Latched, Shifting, Cleared
    <2>8. Latched(h)' \/ Shifting(h)' \/ Cleared(h)'
      BY <2>1, <2>3, <2>4, <2>5, <2>6 DEF Latched, Shifting, Cleared
    <2>9. LinkInv(h)'
      BY <2>1, <2>2, <2>7, <2>8 DEF LinkInv
    <2>10. DoneInv(h)'
      BY <1>0, <2>1, <2>4 DEF DoneInv, artix
    <2> QED  BY <2>9, <2>10
  <1>6. ASSUME Wake(h) PROVE LinkInv(h)' /\ DoneInv(h)'
    <2>1. UNCHANGED <<reg, spi, artix, owed>> /\ step[h] = "sleep" /\ owed[h] = "nothing"
      BY <1>6 DEF Wake
    <2>2. Quiet /\ ~busy /\ Done(job[h], k[h]) /\ reg.we = 0
      BY <1>0, <2>1 DEF LinkInv
    <2>3. CASE k[h] = Commands(job[h])
      <3>1. step'[h] = "idle"
        BY <1>0, <1>6, <2>3 DEF Wake, Returned
      <3> QED  BY <2>1, <2>2, <3>1 DEF LinkInv, DoneInv, Quiet, spi, artix
    <2>4. CASE k[h] # Commands(job[h])
      <3>1. step'[h] = "data" /\ job' = job /\ k'[h] = k[h] + 1
        BY <1>0, <1>6, <2>4 DEF Wake
      <3>2. k'[h] - 1 = k[h]
        BY <1>0, <2>1, <3>1 DEF ThreadTypes
      <3>3. Done(job[h], k[h] - 1)'
        BY <2>1, <2>2, <3>1, <3>2 DEF artix, Done, EepromDone, TableDone, BytesWritten
      <3> QED  BY <2>1, <2>2, <3>1, <3>3 DEF LinkInv, DoneInv, Quiet, spi, artix
    <2> QED  BY <2>3, <2>4
  <1> QED  BY <1>1, <1>2, <1>3, <1>4, <1>5, <1>6 DEF Thread

\* A step of the gateware or of the EEPROM.
LEMMA LinkStep ==
    ASSUME Inv, NEW h \in Handlers, Gateware \/ EepromReady
    PROVE  LinkInv(h)' /\ DoneInv(h)'
  <1>0. LinkInv(h) /\ DoneInv(h) /\ SpiTypes /\ ArtixTypes /\ ThreadTypes
    BY TypeParts DEF Inv
  <1>1. UNCHANGED <<job, k, step, reg>>
    BY DEF Gateware, SpiLoad, SpiShift, SpiClear, EepromReady, threads
  <1>2. Command(job[h], k[h])' = Command(job[h], k[h])
    BY <1>1 DEF Command, EepromCommand, TableCommand
  <1>3. ASSUME UNCHANGED <<wrdata, table, settings, eeprom, wel>>
        PROVE  /\ Done(job[h], k[h])' <=> Done(job[h], k[h])
               /\ Done(job[h], k[h] - 1)' <=> Done(job[h], k[h] - 1)
    BY <1>1, <1>3 DEF Done, EepromDone, TableDone, BytesWritten
  <1>4. CASE SpiLoad
    <2>1. /\ st = "idle" /\ we_lat /\ treg' = spi_data /\ st' = "shift"
          /\ UNCHANGED <<wrdata, table, settings, eeprom, wel, busy, owed>>
      BY <1>4 DEF SpiLoad, artix, threads
    <2>2. Latched(h) /\ (step[h] = "we0" \/ (step[h] = "sleep" /\ owed[h] = "transfer"))
      BY <1>0, <2>1 DEF LinkInv, Quiet, Latched, Shifting, Cleared, ThreadTypes
    <2>3. Shifting(h)'
      BY <1>2, <2>1, <2>2 DEF Latched, Shifting
    <2>4. LinkInv(h)'
      BY <1>0, <1>1, <1>2, <2>1, <2>2, <2>3 DEF LinkInv
    <2>5. DoneInv(h)'
      BY <1>0, <1>1, <1>3, <2>1 DEF DoneInv
    <2> QED  BY <2>4, <2>5
  <1>5. CASE SpiShift
    <2>1. /\ st = "shift" /\ st' = "clear" /\ we_lat' = FALSE /\ Execute(treg[1], treg[2]) /\ owed' = owed
      BY <1>5 DEF SpiShift, threads
    <2>2. Shifting(h) /\ (step[h] = "we0" \/ (step[h] = "sleep" /\ owed[h] = "transfer"))
      BY <1>0, <2>1 DEF LinkInv, Quiet, Latched, Shifting, Cleared, ThreadTypes
    <2>3. PICK j \in JobsOf(h), n \in 1 .. Commands(job[h]) : j = job[h] /\ n = k[h]
      BY <1>0, <2>2 DEF ThreadTypes
    <2>4. /\ n \in 1 .. Commands(j) /\ Execute(Command(j, n)[1], Command(j, n)[2])
          /\ Done(j, n - 1) \/ Done(j, n)
          /\ busy => j.kind = "eeprom" /\ n =< 4 * NB /\ n % 4 = 0 /\ Done(j, n)
      BY <1>0, <2>1, <2>2, <2>3 DEF DoneInv, Shifting
    <2>5. Done(j, n)' /\ (busy' => j.kind = "eeprom" /\ n =< 4 * NB /\ n % 4 = 0)
      BY <1>0, <2>4, CommandDone
    <2>6. Done(job[h], k[h])'
      BY <1>1, <2>3, <2>5 DEF Done, EepromDone, TableDone, BytesWritten
    <2>7. Cleared(h)'
      BY <2>1, <2>6 DEF Cleared
    <2>8. LinkInv(h)'
      BY <1>0, <1>1, <1>2, <2>1, <2>2, <2>7 DEF LinkInv
    <2>9. DoneInv(h)'
      BY <1>1, <2>2, <2>3, <2>5, <2>6 DEF DoneInv
    <2> QED  BY <2>8, <2>9
  <1>6. CASE SpiClear
    <2>1. /\ st = "clear" /\ st' = "idle" /\ we_lat' = (reg.we = 1)
          /\ spi_data' = (IF reg.we = 1 THEN <<reg.addr, reg.data>> ELSE spi_data)
          /\ UNCHANGED <<wrdata, table, settings, eeprom, wel, busy>>
          /\ owed'[h] = IF owed[h] # "transfer" THEN owed[h]
                        ELSE IF busy /\ Command(job[h], k[h])[1] = TRIG THEN "write" ELSE "nothing"
      BY <1>6 DEF SpiClear, artix
    <2>2. Cleared(h) /\ (step[h] = "we0" \/ (step[h] = "sleep" /\ owed[h] = "transfer"))
      BY <1>0, <2>1 DEF LinkInv, Quiet, Latched, Shifting, Cleared, ThreadTypes
    <2>3. job[h] \in JobsOf(h) /\ k[h] \in 1 .. Commands(job[h])
      BY <1>0, <2>2 DEF ThreadTypes
    <2>4. DoneInv(h)'
      BY <1>0, <1>1, <1>3, <2>1 DEF DoneInv
    <2>5. CASE step[h] = "we0"
      <3>1. reg.we = 1 /\ reg.addr = Command(job[h], k[h])[1] /\ reg.data = Command(job[h], k[h])[2]
            /\ owed[h] = "nothing"
        BY <1>0, <2>5 DEF LinkInv
      <3>2. Command(job[h], k[h]) = <<Command(job[h], k[h])[1], Command(job[h], k[h])[2]>>
        BY <2>3, CommandType
      <3>3. Latched(h)'
        BY <1>2, <2>1, <3>1, <3>2 DEF Latched
      <3>4. LinkInv(h)'
        BY <1>1, <1>2, <2>1, <2>5, <3>1, <3>3 DEF LinkInv
      <3> QED  BY <2>4, <3>4
    <2>6. CASE step[h] = "sleep"
      <3>1. reg.we = 0 /\ owed[h] = "transfer"
        BY <1>0, <2>2, <2>6 DEF LinkInv
      <3>2. busy => Command(job[h], k[h])[1] = TRIG
        <4>1. ASSUME busy PROVE Command(job[h], k[h])[1] = TRIG
          <5>1. job[h].kind = "eeprom" /\ k[h] =< 4 * NB /\ k[h] % 4 = 0
            BY <1>0, <4>1 DEF DoneInv
          <5>2. k[h] \in 1 .. 4 * NB + 1
            BY <2>3, <5>1, JobFacts
          <5>3. Command(job[h], k[h]) = <<TRIG, Num(1)>>
            BY <2>3, <5>1, <5>2, EepromCommandIs
          <5> QED  BY <5>3
        <4> QED  BY <4>1
      <3>3. Quiet' /\ Done(job[h], k[h])'
        <4>1. ~we_lat'
          <5>1. we_lat' = (reg.we = 1) /\ 0 # 1
            BY <1>6 DEF SpiClear
          <5> QED  BY <3>1, <5>1, Zenon
        <4>2. Done(job[h], k[h])'
          BY <1>3, <2>1, <2>2 DEF Cleared
        <4> QED  BY <2>1, <4>1, <4>2 DEF Quiet
      <3>4. LinkInv(h)'
        BY <1>1, <2>1, <2>6, <3>1, <3>2, <3>3 DEF LinkInv
      <3> QED  BY <2>4, <3>4
    <2> QED  BY <2>2, <2>5, <2>6
  <1>7. CASE EepromReady
    <2>1. /\ busy /\ busy' = FALSE /\ UNCHANGED <<wrdata, table, settings, eeprom, wel, st, we_lat, spi_data, treg>>
          /\ owed'[h] = IF owed[h] = "write" THEN "nothing" ELSE owed[h]
      BY <1>7 DEF EepromReady, spi
    <2>2. step[h] \in {"we0", "sleep"}
      BY <1>0, <2>1 DEF DoneInv
    <2>3. (Latched(h) => Latched(h)') /\ (Shifting(h) => Shifting(h)') /\ (Cleared(h) => Cleared(h)')
      BY <1>2, <1>3, <2>1 DEF Latched, Shifting, Cleared
    <2>4. LinkInv(h)'
      <3>1. CASE step[h] = "we0"
        BY <1>0, <1>1, <1>2, <2>1, <2>3, <3>1 DEF LinkInv
      <3>2. CASE step[h] = "sleep"
        BY <1>0, <1>1, <1>3, <2>1, <2>3, <3>2 DEF LinkInv, Quiet
      <3> QED  BY <2>2, <3>1, <3>2
    <2>5. DoneInv(h)'
      BY <1>0, <1>1, <1>3, <2>1, <2>2 DEF DoneInv
    <2> QED  BY <2>4, <2>5
  <1> QED  BY <1>4, <1>5, <1>6, <1>7 DEF Gateware

LEMMA NextInv == Inv /\ [Next]_vars => Inv'
  <1> SUFFICES ASSUME Inv, [Next]_vars PROVE Inv'
    OBVIOUS
  <1>1. TypeInv'
    BY TypeStep DEF Inv
  <1>2. OneHandler'
    BY DEF Inv, OneHandler
  <1>3. PICK c : Handlers = {c}
    BY DEF Inv, OneHandler
  <1>4. CASE \E j \in JobsOf(c) : Begin(c, j)
    <2>1. LinkInv(c)' /\ DoneInv(c)'
      BY <1>3, <1>4, ThreadStep
    <2> QED  BY <1>1, <1>2, <1>3, <2>1 DEF Inv
  <1>5. CASE Gateware \/ EepromReady
    <2>1. LinkInv(c)' /\ DoneInv(c)'
      BY <1>3, <1>5, LinkStep
    <2> QED  BY <1>1, <1>2, <1>3, <2>1 DEF Inv
  <1>6. CASE UNCHANGED vars
    <2>1. LinkInv(c) /\ DoneInv(c)
      BY <1>3 DEF Inv
    <2>2. LinkInv(c)' /\ DoneInv(c)'
      BY <1>6, <2>1 DEF vars, spi, artix, threads, LinkInv, DoneInv, Latched, Shifting, Cleared, Quiet,
         Command, EepromCommand, TableCommand, Done, EepromDone, TableDone, BytesWritten
    <2> QED  BY <1>1, <1>2, <1>3, <2>2 DEF Inv
  <1>7. CASE Thread(c)
    <2>1. LinkInv(c)' /\ DoneInv(c)'
      BY <1>3, <1>7, ThreadStep
    <2> QED  BY <1>1, <1>2, <1>3, <2>1 DEF Inv
  <1> QED  BY <1>3, <1>4, <1>5, <1>6, <1>7 DEF Next

-----------------------------------------------------------------------------
(* The results. *)

\* Any number of handlers that interleave their register accesses as they like:
\* the registers, the link and the EEPROM keep their types, and no handler runs past
\* the last command of its message.
THEOREM TypeCorrect == Spec => []TypeOK
  <1>1. TypeInv => TypeOK
    BY DEF TypeInv
  <1> QED  BY <1>1, TypeInit, TypeStep, PTL DEF Spec

LEMMA SpecInv == OneHandler /\ Spec => []Inv
  BY InitInv, NextInv, PTL DEF Spec

\* eeprom_settings and write_adc_table with one client: although a command is sent
\* again for as long as ARTIX_SPI_WE stays 1, what is shifted out is always the
\* command being sent, address and data together.
THEOREM CommandsWhole == OneHandler /\ Spec => []NoTornCommand
  <1>1. Inv => NoTornCommand
    <2> SUFFICES ASSUME Inv, st = "shift"
                 PROVE  \E h \in Handlers : step[h] # "idle" /\ treg = Command(job[h], k[h])
      BY DEF NoTornCommand
    <2>1. PICK h : Handlers = {h}
      BY DEF Inv, OneHandler
    <2>2. LinkInv(h) /\ h \in Handlers /\ ThreadTypes
      BY <2>1, TypeParts DEF Inv
    <2>3. Shifting(h) /\ step[h] \in {"we0", "sleep"}
      BY <2>2 DEF LinkInv, Quiet, Latched, Shifting, Cleared, ThreadTypes
    <2> QED  BY <2>2, <2>3 DEF Shifting
  <1> QED  BY <1>1, SpecInv, PTL

\* eeprom_settings and write_adc_table with one client: when they return, the whole
\* message has been carried out, for messages, tables and EEPROMs of any size.
THEOREM SettingsApplied == OneHandler /\ Spec => SettingApplied
  <1>1. Inv /\ [Next]_vars => [\A h \in Handlers : Wake(h) /\ step'[h] = "idle" => Applied(job[h])]_vars
    <2> SUFFICES ASSUME Inv, NEW h \in Handlers, Wake(h), step'[h] = "idle" PROVE Applied(job[h])
      OBVIOUS
    <2>1. LinkInv(h) /\ ThreadTypes
      BY TypeParts DEF Inv
    <2>2. step[h] = "sleep" /\ owed[h] = "nothing" /\ k[h] = Commands(job[h])
      BY <2>1 DEF Wake, ThreadTypes
    <2>3. Done(job[h], k[h]) /\ job[h] \in JobsOf(h)
      BY <2>1, <2>2 DEF LinkInv, ThreadTypes
    <2>4. CASE job[h].kind = "eeprom"
      <3>1. NB \in Nat /\ k[h] = 4 * NB + 1
        BY <2>2, <2>3, <2>4, JobFacts
      <3>2. EepromDone(job[h], 4 * NB + 1)
        BY <2>3, <2>4, <3>1 DEF Done
      <3>3. \A b \in 1 .. NB : 4 * b =< 4 * NB + 1
        BY <3>1
      <3> QED  BY <2>4, <3>2, <3>3 DEF EepromDone, BytesWritten, Applied
    <2>5. CASE job[h].kind # "eeprom"
      <3>1. job[h].kind = "table" /\ (k[h] = Len(job[h].vals))
        BY <2>1, <2>2, <2>3, <2>5, JobFacts DEF ThreadTypes
      <3> QED  BY <2>3, <2>5, <3>1 DEF Done, TableDone, Applied
    <2> QED  BY <2>4, <2>5
  <1> QED  BY <1>1, SpecInv, PTL DEF Spec, SettingApplied
=============================================================================
