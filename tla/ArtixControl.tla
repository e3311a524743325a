---------------------------- MODULE ArtixControl ----------------------------
(***************************************************************************)
(* Settings on their way to the Artix: eeprom_settings and write_adc_table *)
(* of control.c, called by client_msg in each client's handler thread, the *)
(* SPI master artix_spi.vhd that they drive through three registers, and   *)
(* the Artix with its EEPROM at the other end.                             *)
(*                                                                         *)
(* The code takes no lock and reads nothing back: it relies on its usleeps *)
(* being longer than a transfer (about 15 us), and after a trigger longer  *)
(* than an EEPROM write (5 ms).  The handlers have the same priority, so   *)
(* one may be preempted by another between any two register writes.        *)
(*                                                                         *)
(* A register pair is a command <<addr, data>>.  Words are tuples: an      *)
(* opcode with its operands, or <<"NUM", n, 0>> for a plain number, whose  *)
(* top byte is no opcode.                                                  *)
(***************************************************************************)
EXTENDS Integers, Sequences

CONSTANTS
    Handlers,       \* handler threads of the PSC server
    JobsOf(_),      \* the messages that reach each of them
    MaxJobs,        \* bound: messages each of them handles
    NB,             \* bytes of a setting in the EEPROM
    EAddrs,         \* addresses of the EEPROM
    MaxTable        \* 16000: the largest table that write_adc_table takes

Kinds == {"eeprom", "table"}

ASSUME SizeAssumption == /\ MaxJobs \in Nat /\ NB \in Nat \ {0} /\ MaxTable \in Nat
                         /\ EAddrs \subseteq Nat
ASSUME JobAssumption ==
    \A h \in Handlers : \A j \in JobsOf(h) :
        /\ j.kind \in Kinds /\ j.addr \in Nat
        /\ Len(j.vals) \in Nat /\ \A b \in 1 .. Len(j.vals) : j.vals[b] \in Nat
        /\ j.kind = "eeprom" => /\ Len(j.vals) = NB
                                /\ \A b \in 1 .. NB : j.addr + b - 1 \in EAddrs

VARIABLES
    reg,            \* ARTIX_SPI_DATA, ARTIX_SPI_ADDR and ARTIX_SPI_WE
    st,             \* artix_spi: IDLE, CLKP1/CLKP2 (shift), SETSYNC (clear)
    we_lat,         \* artix_spi: a command is latched
    spi_data,       \* artix_spi: the command latched last
    treg,           \* artix_spi: the command being shifted out
    wrdata,         \* Artix: the EEPROM_WRDATA register
    table,          \* Artix: the ADC table, as far as it was written
    settings,       \* Artix: the settings that EEPROM_READALL has fetched
    eeprom,         \* the contents of the EEPROM
    wel,            \* the EEPROM's write enable latch
    busy,           \* the EEPROM is in its write cycle
    job,            \* job[h]: the message that h handles
    k,              \* k[h]: which command of it h is sending
    step,           \* step[h]: which register access comes next
    owed,           \* owed[h]: what h's usleep is sure to outlast
    done            \* done[h]: how many messages h has handled

spi == <<st, we_lat, spi_data, treg>>
artix == <<wrdata, table, settings, eeprom, wel, busy>>
threads == <<job, k, step, owed, done>>
vars == <<reg, spi, artix, threads>>

Num(n) == <<"NUM", n, 0>>
NOCMD == <<<<"none", 0>>, Num(0)>>
NOJOB == [kind |-> "none", addr |-> 0, vals |-> <<>>]

WRDATA == <<"EEPROM_WRDATA", 0>>
TRIG == <<"EEPROM_TRIG", 0>>
READALL == <<"EEPROM_READALL", 0>>
WREN == <<"WREN", 0, 0>>
WRITE(a, b) == <<"WRITE", a, b>>

Init ==
    /\ reg = [data |-> Num(0), addr |-> <<"none", 0>>, we |-> 0]
    /\ st = "idle" /\ we_lat = FALSE /\ spi_data = NOCMD /\ treg = NOCMD
    /\ wrdata = Num(0) /\ table = [i \in 0 .. MaxTable - 1 |-> Num(0)]
    /\ eeprom = [a \in EAddrs |-> 0] /\ settings = eeprom
    /\ wel = FALSE /\ busy = FALSE
    /\ job = [h \in Handlers |-> NOJOB] /\ k = [h \in Handlers |-> 0]
    /\ step = [h \in Handlers |-> "idle"] /\ owed = [h \in Handlers |-> "nothing"]
    /\ done = [h \in Handlers |-> 0]

-----------------------------------------------------------------------------
(* The commands that a message is turned into. *)

\* eeprom_settings: WREN and WRITE for every byte, each word triggered by a
\* second command (write_artix_eeprom), then one command to read all settings.
EepromCommand(j, n) ==
    LET b == (n - 1) \div 4 + 1
        r == (n - 1) % 4
    IN  CASE n > 4 * NB -> <<READALL, Num(1)>>
          [] n =< 4 * NB /\ r = 0 -> <<WRDATA, WREN>>
          [] n =< 4 * NB /\ r = 2 -> <<WRDATA, WRITE(j.addr + b - 1, j.vals[b])>>
          [] n =< 4 * NB /\ r \in {1, 3} -> <<TRIG, Num(1)>>

\* write_adc_table: one command per word.
TableCommand(j, n) == <<<<"ADC_TABLE", n - 1>>, Num(j.vals[n])>>

Command(j, n) == IF j.kind = "eeprom" THEN EepromCommand(j, n) ELSE TableCommand(j, n)

\* How many commands; a table that is too long is refused.
Commands(j) == CASE j.kind = "eeprom" -> 4 * NB + 1
                 [] j.kind = "table" -> IF Len(j.vals) > MaxTable THEN 0 ELSE Len(j.vals)
                 [] OTHER -> 0

-----------------------------------------------------------------------------
(* The registers and the latch of artix_spi.vhd, which samples them at every *)
(* clock while we is set: long before the software's next access.            *)

SetReg(r) ==
    /\ reg' = r
    /\ IF r.we = 1 /\ st # "clear"
       THEN we_lat' = TRUE /\ spi_data' = <<r.addr, r.data>>
       ELSE UNCHANGED <<we_lat, spi_data>>
    /\ UNCHANGED <<st, treg, artix>>

-----------------------------------------------------------------------------
(* A handler thread. *)

Returned(h) == /\ job' = [job EXCEPT ![h] = NOJOB]
               /\ k' = [k EXCEPT ![h] = 0]
               /\ step' = [step EXCEPT ![h] = "idle"]
               /\ done' = [done EXCEPT ![h] = @ + 1]

\* client_msg calls eeprom_settings or write_adc_table.
Begin(h, j) ==
    /\ step[h] = "idle"
    /\ done[h] < MaxJobs
    /\ IF Commands(j) = 0
       THEN Returned(h)
       ELSE /\ job' = [job EXCEPT ![h] = j]
            /\ k' = [k EXCEPT ![h] = 1]
            /\ step' = [step EXCEPT ![h] = "data"]
            /\ UNCHANGED done
    /\ UNCHANGED <<reg, spi, artix, owed>>

OutData(h) ==
    /\ step[h] = "data"
    /\ SetReg([reg EXCEPT !.data = Command(job[h], k[h])[2]])
    /\ step' = [step EXCEPT ![h] = "addr"]
    /\ UNCHANGED <<job, k, owed, done>>

OutAddr(h) ==
    /\ step[h] = "addr"
    /\ SetReg([reg EXCEPT !.addr = Command(job[h], k[h])[1]])
    /\ step' = [step EXCEPT ![h] = "we1"]
    /\ UNCHANGED <<job, k, owed, done>>

OutWe1(h) ==
    /\ step[h] = "we1"
    /\ SetReg([reg EXCEPT !.we = 1])
    /\ step' = [step EXCEPT ![h] = "we0"]
    /\ UNCHANGED <<job, k, owed, done>>

\* What a usleep that begins now outlasts: the transfer that is under way, and
\* after a trigger the EEPROM's write cycle too.
Owes(h) == IF we_lat \/ st # "idle" THEN "transfer"
           ELSE IF busy /\ Command(job[h], k[h])[1] = TRIG THEN "write" ELSE "nothing"

\* Mutant: ARTIX_SPI_WE is left at 1.
OutWe0Left(h) ==
    /\ step[h] = "we0"
    /\ step' = [step EXCEPT ![h] = "sleep"]
    /\ owed' = [owed EXCEPT ![h] = Owes(h)]
    /\ UNCHANGED <<reg, spi, artix, job, k, done>>

\* Mutant: no usleep after a command.
OutWe0NoSleep(h) ==
    /\ step[h] = "we0"
    /\ SetReg([reg EXCEPT !.we = 0])
    /\ step' = [step EXCEPT ![h] = "sleep"]
    /\ UNCHANGED <<job, k, owed, done>>

\* ARTIX_SPI_WE = 0, and usleep() begins.
OutWe0(h) ==
    /\ step[h] = "we0"
    /\ SetReg([reg EXCEPT !.we = 0])
    /\ step' = [step EXCEPT ![h] = "sleep"]
    /\ owed' = [owed EXCEPT ![h] = Owes(h)]
    /\ UNCHANGED <<job, k, done>>

\* Mutant: the loop never gets past its first command.
WakeStuck(h) ==
    /\ step[h] = "sleep"
    /\ owed[h] = "nothing"
    /\ step' = [step EXCEPT ![h] = "data"]
    /\ UNCHANGED <<reg, spi, artix, job, k, owed, done>>

\* Mutant: the loop runs once too often.
WakePastEnd(h) ==
    /\ step[h] = "sleep"
    /\ owed[h] = "nothing"
    /\ IF k[h] > Commands(job[h])
       THEN Returned(h)
       ELSE /\ k' = [k EXCEPT ![h] = @ + 1]
            /\ step' = [step EXCEPT ![h] = "data"]
            /\ UNCHANGED <<job, done>>
    /\ UNCHANGED <<reg, spi, artix, owed>>

\* usleep() ends: the next command, or the end of the message.
Wake(h) ==
    /\ step[h] = "sleep"
    /\ owed[h] = "nothing"
    /\ IF k[h] = Commands(job[h])
       THEN Returned(h)
       ELSE /\ k' = [k EXCEPT ![h] = @ + 1]
            /\ step' = [step EXCEPT ![h] = "data"]
            /\ UNCHANGED <<job, done>>
    /\ UNCHANGED <<reg, spi, artix, owed>>

Thread(h) == \/ OutData(h) \/ OutAddr(h) \/ OutWe1(h) \/ OutWe0(h)
             \/ Wake(h)

-----------------------------------------------------------------------------
(* artix_spi.vhd. *)

\* IDLE, a command latched: it is loaded.
SpiLoad ==
    /\ st = "idle"
    /\ we_lat
    /\ treg' = spi_data
    /\ st' = "shift"
    /\ UNCHANGED <<reg, we_lat, spi_data, artix, threads>>

\* The EEPROM's answer to the word in wrdata; in its write cycle it has none.
Trigger ==
    /\ wel' = IF busy THEN wel
              ELSE (wrdata = WREN) \/ (wel /\ wrdata[1] # "WRITE")
    /\ IF ~busy /\ wel /\ wrdata[1] = "WRITE"
       THEN eeprom' = [eeprom EXCEPT ![wrdata[2]] = wrdata[3]] /\ busy' = TRUE
       ELSE UNCHANGED <<eeprom, busy>>
    /\ UNCHANGED <<wrdata, table, settings>>

\* What the Artix does with a command that has come in.
Execute(a, d) ==
    \/ /\ a = WRDATA
       /\ wrdata' = d
       /\ UNCHANGED <<table, settings, eeprom, wel, busy>>
    \/ /\ a = TRIG
       /\ Trigger
    \/ /\ a = READALL
       /\ settings' = IF busy THEN settings ELSE eeprom
       /\ UNCHANGED <<wrdata, table, eeprom, wel, busy>>
    \/ /\ a[1] = "ADC_TABLE"
       /\ table' = [table EXCEPT ![a[2]] = d]
       /\ UNCHANGED <<wrdata, settings, eeprom, wel, busy>>
    \/ /\ a[1] = "none"
       /\ UNCHANGED artix

\* The last bit is out; we_lat_clr clears the latch, and with it a command that
\* was latched during the transfer.
SpiShift ==
    /\ st = "shift"
    /\ st' = "clear"
    /\ we_lat' = FALSE
    /\ spi_data' = NOCMD
    /\ Execute(treg[1], treg[2])
    /\ UNCHANGED <<reg, treg, threads>>

\* Back in IDLE, we_lat_clr is 0 again: a we that is still set starts anew.
SpiClear ==
    /\ st = "clear"
    /\ st' = "idle"
    /\ we_lat' = (reg.we = 1)
    /\ spi_data' = IF reg.we = 1 THEN <<reg.addr, reg.data>> ELSE spi_data
    /\ owed' = [h \in Handlers |->
                  IF owed[h] # "transfer" THEN owed[h]
                  ELSE IF busy /\ Command(job[h], k[h])[1] = TRIG THEN "write"
                  ELSE "nothing"]
    /\ UNCHANGED <<reg, treg, artix, job, k, step, done>>

\* The EEPROM's write cycle ends.
EepromReady ==
    /\ busy
    /\ busy' = FALSE
    /\ owed' = [h \in Handlers |-> IF owed[h] = "write" THEN "nothing" ELSE owed[h]]
    /\ UNCHANGED <<reg, spi, wrdata, table, settings, eeprom, wel, job, k, step, done>>

Gateware == SpiLoad \/ SpiShift \/ SpiClear

Next == \/ \E h \in Handlers : \/ \E j \in JobsOf(h) : Begin(h, j)
                               \/ Thread(h)
        \/ Gateware
        \/ EepromReady

Spec == Init /\ [][Next]_vars

\* Threads that can run do (round robin among equals), usleep() ends, and the
\* gateware is clocked.
FairSpec == /\ Spec
            /\ \A h \in Handlers : WF_vars(Thread(h))
            /\ WF_vars(Gateware) /\ WF_vars(EepromReady)

-----------------------------------------------------------------------------
(* Properties. *)

\* Every variable has its type.
TypeOK ==
    /\ reg.we \in {0, 1} /\ st \in {"idle", "shift", "clear"} /\ we_lat \in BOOLEAN
    /\ eeprom \in [EAddrs -> Nat] /\ settings \in [EAddrs -> Nat]
    /\ wel \in BOOLEAN /\ busy \in BOOLEAN
    /\ step \in [Handlers -> {"idle", "data", "addr", "we1", "we0", "sleep"}]
    /\ owed \in [Handlers -> {"nothing", "transfer", "write"}]
    /\ done \in [Handlers -> 0 .. MaxJobs]
    /\ \A h \in Handlers : step[h] # "idle" => k[h] \in 1 .. Commands(job[h])

\* Every command on the link is one that a handler is sending: its address and
\* its data were written together.
NoTornCommand ==
    st = "shift" => \E h \in Handlers : /\ step[h] # "idle"
                                        /\ treg = Command(job[h], k[h])

\* What a message asks for: its bytes are in the EEPROM and among the settings,
\* or its words are in the table.
Applied(j) ==
    /\ j.kind = "eeprom" => \A b \in 1 .. NB : /\ eeprom[j.addr + b - 1] = j.vals[b]
                                               /\ settings[j.addr + b - 1] = j.vals[b]
    /\ j.kind = "table" => \A n \in 1 .. Len(j.vals) : table[n - 1] = Num(j.vals[n])

\* When eeprom_settings or write_adc_table returns, what the message asked for has
\* been done (control.c: "Put EEPROM in write mode", "Write 1st byte", "Read in new
\* EEPROM settings"), although the code only waits and never asks.
SettingApplied ==
    [][\A h \in Handlers : Wake(h) /\ step'[h] = "idle" => Applied(job[h])]_vars

\* Handling a message ends.
SettingEnds == \A h \in Handlers : step[h] # "idle" ~> step[h] = "idle"
=============================================================================
