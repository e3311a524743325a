------------------------------- MODULE OldI2c -------------------------------
(***************************************************************************)
(* The I2C bus of the superseded software (sw_old): the devices behind two *)
(* multiplexers, and the threads that use them without a lock.  main and   *)
(* main_thread program the clocks and read the network settings; then the  *)
(* menu thread (priority 0) and the status thread (priority 1) share the   *)
(* bus.  The status thread never blocks inside ReadSysInfo, so its burst   *)
(* of transfers may come between any two steps of the menu thread, and the *)
(* menu thread does not run while the burst lasts.                         *)
(*                                                                         *)
(* What a thread does on the bus is a sequence of operations: select a     *)
(* port of a multiplexer, write to an address, read from an address, or    *)
(* find that there is nothing to write.  Each transfer names the device it *)
(* is meant for; the multiplexers decide who answers.  Any transfer may go *)
(* unanswered, a selection too: the multiplexer then keeps its port.       *)
(* Only i2c_sfp_get_stats looks at the status of a transfer, its last.     *)
(*                                                                         *)
(* A burst may also come inside a polled transfer of the menu thread.  One *)
(* that has started and fits the controller's FIFO runs to its end while   *)
(* the burst polls BusIsBusy, which is the order transfer, burst; one that *)
(* is set up but not started finds the FIFO emptied by the burst and       *)
(* carries nothing; one longer than the FIFO holds the bus (MenuHolds).    *)
(* xemac_add, after which main_thread may give up, is assumed to work.     *)
(***************************************************************************)
EXTENDS Integers, Sequences

CONSTANTS
    LmkRegs,        \* the length of lmk61e2_values
    SfpSlots,       \* the number of SFP slots: 6
    MaxMenu,        \* bound: menu commands between two power-ups
    MaxBursts,      \* bound: calls of ReadSysInfo between two power-ups
    MaxNacks,       \* bound: transfers that a device that is there does not answer
    MaxBoots        \* bound: power-ups

ASSUME I2cAssumption == /\ LmkRegs \in Nat /\ SfpSlots \in 0 .. 6
                        /\ {MaxMenu, MaxBursts, MaxNacks, MaxBoots} \subseteq Nat

VARIABLES
    mux,            \* the port each multiplexer has selected: [0, 1 -> port]
    held,           \* a long read was interrupted: the bus stays busy
    prog,           \* prog[t]: what thread t still has to do on the bus
    status,         \* the status thread: accept, delay, burst or send
    eeprom,         \* the stored network settings
    ptr,            \* the EEPROM's address pointer, as the field it is at
    sipage,         \* the Si5347's page register
    torn,           \* a burst came inside the transfer that the menu thread is at
    data,           \* main_thread's data[4]
    netif,          \* the settings the interface got
    stored,         \* history: the EEPROM at power-up
    menus, bursts, nacks, boots,    \* counts against the bounds
    stray,          \* history: an operation was answered by another device
    misplaced,      \* history: a register of the Si5347 was written on another page
    deaf,           \* history: a multiplexer did not answer a selection
    lost            \* history: the settings of the last program_ip whose selection or
                    \* write a burst met, or whose write the EEPROM did not answer

counts == <<menus, bursts, nacks, boots>>
history == <<stored, stray, misplaced, deaf, lost>>
vars == <<mux, held, prog, status, eeprom, ptr, sipage, torn, data, netif, counts, history>>

Fields == {"ip", "mask", "gw"}

-----------------------------------------------------------------------------
(* The board. *)

\* Which addresses answer behind port p of multiplexer m (0: 0x70, 1: 0x71).
Sfp(n) == <<"sfp0", "sfp1", "sfp2", "sfp3", "sfp4", "sfp5">>[n + 1]
Answering(m, p) ==
    CASE p = "eeprom" -> {"50"}
      [] m = 0 /\ p \in {Sfp(n) : n \in 0 .. SfpSlots - 1} -> {"50", "51"}
      [] p = "dfe" -> {"48", "49", "4A", "4B"}
      [] p = "afe" -> {"48", "4A"}
      [] p = "ltc2991" -> {"48", "49", "4A"}
      [] p = "ltc2977" -> {"5C"}
      [] p = "lmk" -> {"5A"}
      [] p = "si5347" -> {"6C"}
      [] OTHER -> {}

\* The devices that hear address a.
Hearing(a) == {mux[m] : m \in {n \in {0, 1} : a \in Answering(n, mux[n])}}

-----------------------------------------------------------------------------
(* The operations and what the threads do with them. *)

Sel(m, p) == [op |-> "sel", mux |-> m, port |-> p, what |-> <<"select", p>>]
Tx(a, d, what) == [op |-> "tx", addr |-> a, dev |-> d, what |-> what]
Rx(a, d, f) == [op |-> "rx", addr |-> a, dev |-> d, what |-> <<"read", f>>]
Ptr(f) == <<"ptr", f>>
Keep(page) == [op |-> "keep", what |-> <<"keep", page>>]

WriteLmk == <<Sel(1, "lmk")>> \o [n \in 1 .. LmkRegs |-> Tx("5A", "lmk", <<"reg", n>>)]

\* The table of the Si5347 by the pages of its registers: the preamble, one
\* entry for each page of the configuration, the postamble.
SiPages == <<11, 11, 11, 0, 1, 2, 3, 4, 5, 6, 7, 8, 9, 10, 11, 4, 0, 11>>

\* Mutant: newpage starts as the page of the first register.
NewPageFirst(n) == n > 1 /\ SiPages[n] # SiPages[n - 1]

\* page # newpage: newpage is 0 at first, then the page of the entry before.
NewPage(n) == SiPages[n] # IF n = 1 THEN 0 ELSE SiPages[n - 1]

\* Entry after entry: the page, if it is another, then the register.
WriteSi5347 ==
    <<Sel(1, "si5347"), Tx("6C", "si5347", <<"page", 0>>)>>
    \o [k \in 1 .. 2 * Len(SiPages) |->
          LET n == (k + 1) \div 2
          IN  IF k % 2 = 0 THEN Tx("6C", "si5347", <<"reg", SiPages[n]>>)
              ELSE IF NewPage(n) THEN Tx("6C", "si5347", <<"page", SiPages[n]>>) ELSE Keep(SiPages[n])]

\* Mutant: the address is set only for the first field.
ReadBytesNoPtr(f) ==
    <<Sel(0, "eeprom")>> \o (IF f = "ip" THEN <<Tx("50", "eeprom", Ptr(f))>> ELSE <<>>)
    \o <<Rx("50", "eeprom", f)>>

\* i2c_eeprom_readBytes and i2c_get_mac_address, i2c_eeprom_writeBytes.
ReadBytes(f) == <<Sel(0, "eeprom"), Tx("50", "eeprom", Ptr(f)), Rx("50", "eeprom", f)>>

\* Mutant: the netmask is written where the address is.
WriteBytesSame(f) ==
    <<Sel(0, "eeprom"), Tx("50", "eeprom", <<"set", IF f = "mask" THEN "ip" ELSE f>>)>>

WriteBytes(f) == <<Sel(0, "eeprom"), Tx("50", "eeprom", <<"set", f>>)>>

AssignIpSettings == ReadBytes("ip") \o ReadBytes("mask") \o ReadBytes("gw")
MainProg == WriteLmk \o WriteSi5347 \o ReadBytes("mac") \o AssignIpSettings

\* The menu's dump_eeprom, whose read is longer than the controller's FIFO,
\* and program_ip.
DumpProg == <<Sel(0, "eeprom"), Tx("50", "eeprom", Ptr("ip")), Rx("50", "eeprom", "dump")>>
ProgramIp == WriteBytes("ip") \o WriteBytes("mask") \o WriteBytes("gw")

\* ReadSysInfo.
ReadTemps(p, addrs) == <<Sel(1, p)>> \o [n \in 1 .. Len(addrs) |-> Rx(addrs[n], p, "temp")]
ConfigureLtc2991 ==
    <<Sel(1, "ltc2991")>>
    \o [n \in 1 .. 9 |-> Tx(<<"48", "49", "4A">>[((n - 1) % 3) + 1], "ltc2991", <<"config", n>>)]
Voltages == <<<<"48", 6>>, <<"48", 7>>, <<"49", 4>>, <<"49", 5>>, <<"4A", 2>>, <<"4A", 3>>, <<"49", 2>>,
              <<"49", 3>>, <<"49", 0>>, <<"49", 1>>, <<"49", 6>>, <<"49", 7>>, <<"4A", 0>>, <<"4A", 1>>,
              <<"4A", 4>>, <<"4A", 5>>, <<"4A", 6>>, <<"4A", 7>>, <<"48", 0>>, <<"48", 1>>, <<"48", 2>>>>
Ltc2991Voltage(v) == <<Tx(v[1], "ltc2991", <<"ptr", v[2]>>), Rx(v[1], "ltc2991", "voltage")>>
ReadVoltages ==
    [k \in 1 .. 2 * Len(Voltages) |-> Ltc2991Voltage(Voltages[(k + 1) \div 2])[((k - 1) % 2) + 1]]
SfpStats(n) == <<Sel(0, Sfp(n)), Sel(1, "none"), Tx("51", Sfp(n), Ptr("stats")), Rx("51", Sfp(n), "stats")>>
SfpsStats == [k \in 1 .. 4 * SfpSlots |-> SfpStats((k - 1) \div 4)[((k - 1) % 4) + 1]]
Ltc2977Stats == <<Sel(0, "none"), Sel(1, "ltc2977"), Tx("5C", "ltc2977", Ptr("temp")), Rx("5C", "ltc2977", "temp")>>
ReadSysInfo ==
    ReadTemps("dfe", <<"48", "49", "4A", "4B">>) \o ReadTemps("afe", <<"48", "4A">>)
    \o <<Sel(1, "ltc2991")>> \o ConfigureLtc2991 \o ReadVoltages
    \o SfpsStats \o Ltc2977Stats

Init ==
    /\ mux = [m \in {0, 1} |-> "none"] /\ held = FALSE
    /\ prog = [t \in {"main", "menu", "status"} |-> IF t = "main" THEN MainProg ELSE <<>>]
    /\ status = "off"
    /\ eeprom = [f \in Fields |-> <<f, "old">>] /\ stored = eeprom
    /\ ptr = "ip" /\ sipage = 0 /\ torn = FALSE /\ data = <<"none", "junk">> /\ netif = [f \in Fields |-> <<"none", "zero">>]
    /\ menus = 0 /\ bursts = 0 /\ nacks = 0 /\ boots = 1
    /\ stray = FALSE /\ misplaced = FALSE /\ deaf = FALSE /\ lost = {}

-----------------------------------------------------------------------------
(* One operation of thread t. *)

bus == <<mux, held, prog, eeprom, ptr, sipage, torn, data, netif, stray, misplaced, deaf, lost>>

\* What device d does with a write: its pointer or page moves, a setting is stored.
Written(d, w) ==
    /\ ptr' = IF d = "eeprom" /\ w[1] = "ptr" THEN w[2] ELSE ptr
    /\ eeprom' = IF d = "eeprom" /\ w[1] = "set" THEN [eeprom EXCEPT ![w[2]] = <<w[2], "new">>] ELSE eeprom
    /\ sipage' = IF d = "si5347" /\ w[1] = "page" THEN w[2] ELSE sipage
    /\ misplaced' = (misplaced \/ (d = "si5347" /\ w[1] = "reg" /\ w[2] # sipage))
    /\ UNCHANGED <<data, netif>>

\* What a read from device d brings: main_thread's data, from where the pointer is.
\* A reader whose transfer failed uses what was in data before.
Received(d, f) ==
    /\ data' = IF f \notin Fields \/ d = "nobody" THEN data
               ELSE IF d = "eeprom" /\ ptr \in Fields THEN eeprom[ptr] ELSE <<"none", "junk">>
    /\ netif' = IF f \in Fields THEN [netif EXCEPT ![f] = data'] ELSE netif
    /\ ptr' = IF d = "eeprom" THEN "past" ELSE ptr
    /\ UNCHANGED <<eeprom, sipage, misplaced>>

Transfer(o, d) ==
    /\ IF o.op = "tx" THEN Written(d, o.what) ELSE Received(d, o.what[2])
    /\ stray' = (stray \/ d \notin {"nobody", o.dev})
    /\ lost' = IF d = "nobody" /\ Hearing(o.addr) # {} /\ o.op = "tx" /\ o.what[1] = "set"
               THEN lost \cup {o.what[2]} ELSE lost

Do(t) ==
    /\ prog[t] # <<>> /\ ~held
    /\ prog' = [prog EXCEPT ![t] = Tail(@)] /\ UNCHANGED <<held, torn>>
    /\ LET o == Head(prog[t])
       IN  \/ /\ o.op = "sel"
              /\ \/ mux' = [mux EXCEPT ![o.mux] = o.port] /\ UNCHANGED <<nacks, deaf>>
                 \/ /\ nacks < MaxNacks /\ nacks' = nacks + 1
                    /\ deaf' = TRUE /\ UNCHANGED mux
              /\ UNCHANGED <<eeprom, ptr, sipage, data, netif, stray, misplaced, lost>>
           \/ /\ o.op = "keep"
              /\ UNCHANGED <<mux, eeprom, ptr, sipage, data, netif, stray, misplaced, lost, nacks, deaf>>
           \/ /\ o.op \in {"tx", "rx"} /\ UNCHANGED <<mux, deaf>>
              /\ \/ \E d \in Hearing(o.addr) : Transfer(o, d) /\ UNCHANGED nacks
                 \/ Hearing(o.addr) = {} /\ Transfer(o, "nobody") /\ UNCHANGED nacks
                 \/ /\ Hearing(o.addr) # {} /\ nacks < MaxNacks
                    /\ nacks' = nacks + 1 /\ Transfer(o, "nobody")

MainStep ==
    /\ status = "off"
    /\ IF prog["main"] # <<>> THEN Do("main") /\ UNCHANGED status
       ELSE status' = "accept" /\ UNCHANGED <<bus, nacks>>
    /\ UNCHANGED <<stored, menus, bursts, boots>>

\* Mutant: the menu thread has the status thread's priority.
MenuRunsAlways == status # "off"

\* The status thread is not runnable.
MenuRuns == status \in {"accept", "delay", "send"}

MenuCommand ==
    /\ MenuRuns /\ prog["menu"] = <<>> /\ menus < MaxMenu
    /\ menus' = menus + 1
    /\ \E p \in {DumpProg, ProgramIp} : prog' = [prog EXCEPT !["menu"] = p]
    /\ lost' = {}
    /\ UNCHANGED <<mux, held, status, eeprom, ptr, sipage, torn, data, netif, bursts, nacks, boots>>
    /\ UNCHANGED <<stored, stray, misplaced, deaf>>

LongRead == Head(prog["menu"]).what = <<"read", "dump">>

\* The long read keeps the bus until the thread has emptied the FIFO.
MenuHolds ==
    /\ MenuRuns /\ ~held /\ ~torn /\ prog["menu"] # <<>>
    /\ LongRead /\ Hearing("50") # {}
    /\ held' = TRUE
    /\ UNCHANGED <<mux, prog, status, eeprom, ptr, sipage, torn, data, netif, counts, history>>

MenuReleases ==
    /\ MenuRuns /\ held
    /\ held' = FALSE /\ prog' = [prog EXCEPT !["menu"] = <<>>]
    /\ ptr' = "past" /\ torn' = FALSE
    /\ UNCHANGED <<mux, status, eeprom, sipage, data, netif, counts, history>>

\* A transfer that a burst had come into is started and carries nothing.
MenuTorn ==
    /\ MenuRuns /\ ~held /\ torn
    /\ prog' = [prog EXCEPT !["menu"] = Tail(@)] /\ torn' = FALSE
    /\ UNCHANGED <<mux, held, status, eeprom, ptr, sipage, data, netif, counts, history>>

MenuStep ==
    \/ MenuCommand \/ MenuHolds \/ MenuReleases \/ MenuTorn
    \/ /\ MenuRuns /\ ~torn /\ prog["menu"] # <<>>
       /\ LongRead => Hearing("50") = {}
       /\ Do("menu") /\ UNCHANGED <<status, stored, menus, bursts, boots>>

\* psc_status_thread: accept, then once a second ReadSysInfo and a write, which
\* fails when the client has gone.
StatusGoes(from, to) ==
    /\ status = from /\ status' = to
    /\ UNCHANGED <<bus, menus, nacks, boots, stored>>

\* The settings that a burst at this point deprives of their write: the menu
\* thread p has selected and not written, or it is inside the selection.
Cut(p, inside) ==
    {f \in Fields : \E k \in 1 .. Len(p) : p[k].what = <<"set", f>> /\ (k = 1 \/ (k = 2 /\ inside))}

\* The burst begins, between two steps of the menu thread or inside its transfer.
StatusBurst == /\ bursts < MaxBursts /\ bursts' = bursts + 1
               /\ status = "delay" /\ status' = "burst"
               /\ prog' = [prog EXCEPT !["status"] = ReadSysInfo]
               /\ torn' \in IF prog["menu"] = <<>> THEN {torn} ELSE {torn, TRUE}
               /\ lost' = lost \cup Cut(prog["menu"], torn')
               /\ UNCHANGED <<mux, held, eeprom, ptr, sipage, data, netif, menus, nacks, boots>>
               /\ UNCHANGED <<stored, stray, misplaced, deaf>>

StatusOp == /\ status = "burst"
            /\ Do("status")
            /\ UNCHANGED <<status, stored, menus, bursts, boots>>

StatusSend == prog["status"] = <<>> /\ StatusGoes("burst", "send") /\ UNCHANGED bursts

StatusStep ==
    \/ StatusGoes("accept", "delay") /\ UNCHANGED bursts
    \/ StatusBurst
    \/ StatusOp
    \/ StatusSend
    \/ StatusGoes("send", "delay") /\ UNCHANGED bursts
    \/ StatusGoes("send", "accept") /\ UNCHANGED bursts

\* The operator cycles the power: the EEPROM keeps its contents.
Reboot ==
    /\ status # "off" /\ prog["menu"] = <<>> /\ boots < MaxBoots /\ boots' = boots + 1
    /\ mux' = [m \in {0, 1} |-> "none"] /\ held' = FALSE
    /\ prog' = [t \in {"main", "menu", "status"} |-> IF t = "main" THEN MainProg ELSE <<>>]
    /\ status' = "off" /\ stored' = eeprom /\ UNCHANGED eeprom
    /\ ptr' = "ip" /\ sipage' = 0 /\ torn' = FALSE /\ data' = <<"none", "junk">> /\ netif' = [f \in Fields |-> <<"none", "zero">>]
    /\ menus' = 0 /\ bursts' = 0 /\ nacks' = 0
    /\ stray' = FALSE /\ misplaced' = FALSE /\ deaf' = FALSE /\ lost' = {}

Next == MainStep \/ MenuStep \/ StatusStep \/ Reboot

Spec == Init /\ [][Next]_vars

-----------------------------------------------------------------------------
(* Properties. *)

\* The type invariant, checked as a part of NoStray.
TypeOK ==
    /\ DOMAIN mux = {0, 1} /\ held \in BOOLEAN
    /\ status \in {"off", "accept", "delay", "burst", "send"}
    /\ (prog["main"] # <<>> => status = "off") /\ (prog["status"] # <<>> => status = "burst")
    /\ \A f \in Fields : eeprom[f] \in {<<f, "old">>, <<f, "new">>}
    /\ {torn, stray, misplaced, deaf} \subseteq BOOLEAN

\* No transfer reaches another device than the one it is meant for, although
\* several share an address and the threads set the multiplexers without a lock:
\* a menu command that a burst interrupted meets nobody.  The exception is a
\* multiplexer that does not answer: i2c_set_port_expander ignores that, the port
\* stays what it was, and the device behind it may take the transfer.
NoStray == TypeOK /\ (stray => deaf)

\* Every register of the Si5347 is written on its own page, unless a device
\* did not answer: i2c_write's status is ignored, and a lost page write
\* sends the registers of that page to another.
PageInStep == misplaced => nacks > 0

\* The interface gets the settings that the EEPROM held at power-up, each in
\* its place, unless a transfer failed: data then still has the field before.
NetAsStored == status # "off" /\ nacks = 0 => netif = stored

\* When program_ip ends, each of the three settings is stored, except those whose
\* selection or write a burst of the status thread came into or between (the burst
\* leaves the multiplexer closed), and those whose write the EEPROM did not answer:
\* a burst anywhere else in program_ip does no harm, and a lost setting takes none
\* of the others with it.  Unanswered selections are excepted, as in NoStray.
SavedUnlessLost ==
    [][prog["menu"] # <<>> /\ prog'["menu"] = <<>> /\ boots' = boots /\ ~held
       /\ Head(prog["menu"]).what = <<"set", "gw">> /\ ~deaf'
       => \A f \in Fields : eeprom'[f] = <<f, "new">> \/ f \in lost']_vars
=============================================================================
