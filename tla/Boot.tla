-------------------------------- MODULE Boot --------------------------------
(***************************************************************************)
(* Start-up: main and realmain of main.c, over the SD card (SdCard), the   *)
(* network set-up of net_setup.c and discovery (Discover).  main programs  *)
(* the clock and the event receiver before the scheduler runs; realmain    *)
(* then reads the card, brings up the network and becomes the PSC server.  *)
(* The power may fail at any point, and all of it starts again.            *)
(***************************************************************************)
EXTENDS SdCard, Discover

CONSTANTS
    LmkRegs,        \* the length of lmk61e2_values
    FineMs,         \* DHCP_FINE_TIMER_MSECS
    CoarseMs,       \* DHCP_COARSE_TIMER_SECS * 1000
    Leases,         \* addresses a DHCP server may give
    MaxLosses       \* bound: power losses

ASSUME BootAssumption == /\ LmkRegs \in Nat /\ MaxLosses \in Nat
                         /\ FineMs \in Nat \ {0} /\ CoarseMs \in Nat \ {0}
                         /\ NoAddr \notin Leases

VARIABLES
    pc,             \* where main or realmain is
    busy,           \* the I2C bus is busy
    lmk,            \* registers of the clock written since power-up
    evr,            \* the event receiver's registers
    netif,          \* server_netif: [up, addr]
    threads,        \* the threads that realmain started
    dhcp,           \* dhcp_client's locals: [mscnt, prev]
    losses          \* power losses so far

board == <<busy, lmk, evr>>
netvars == <<netif, dhcp>>
bvars == <<pc, board, netvars, threads, losses>>
vars == <<sdvars, dvars, bvars>>

\* The volatile state at power-up.
EvrOff == [num |-> 0, dly |-> 0, rst |-> 0]
NetifOff == [up |-> FALSE, addr |-> NoAddr]
DhcpOff == [mscnt |-> 0, prev |-> NoAddr]

Init ==
    /\ SdInit /\ DiscoverInit
    /\ pc = "i2c" /\ busy = FALSE /\ losses = 0
    /\ lmk = 0 /\ evr = EvrOff
    /\ netif = NetifOff /\ threads = {} /\ dhcp = DhcpOff

-----------------------------------------------------------------------------
(* main, before the scheduler runs. *)

\* init_i2c: errors are printed only.  When XIicPs_LookupConfig returns NULL it
\* is used nevertheless, and what that does is undefined: it may go on or stop.
InitI2c ==
    /\ pc = "i2c" /\ pc' \in {"lmk", "crashed"}
    /\ UNCHANGED <<sdvars, dvars, board, netvars, threads, losses>>

\* write_lmk61e2: i2c0_write polls the bus without a limit and its status is
\* ignored.
WriteLmk ==
    /\ pc = "lmk" /\ ~busy
    /\ IF lmk < LmkRegs THEN lmk' = lmk + 1 /\ UNCHANGED pc ELSE pc' = "evr" /\ UNCHANGED lmk
    /\ UNCHANGED <<sdvars, dvars, busy, evr, netvars, threads, losses>>

EvrSetup ==
    /\ pc = "evr" /\ pc' = "sdcard"
    /\ evr' = [num |-> 32, dly |-> 1000, rst |-> 0]
    /\ UNCHANGED <<sdvars, dvars, busy, lmk, netvars, threads, losses>>

\* Another master, or a device that holds the lines (external).
BusChanges ==
    /\ pc = "lmk" /\ busy' = ~busy
    /\ UNCHANGED <<sdvars, dvars, pc, lmk, evr, netvars, threads, losses>>

-----------------------------------------------------------------------------
(* realmain. *)

SdStep ==
    /\ pc = "sdcard"
    /\ IF sd = "done" THEN pc' = "net" /\ UNCHANGED sdvars ELSE sdcard_handle /\ UNCHANGED pc
    /\ UNCHANGED <<dvars, board, netvars, threads, losses>>

\* net_setup: xemac_add may fail, and so may dhcp_start; realmain goes on.
net_setup ==
    /\ pc = "net" /\ pc' = "discover"
    /\ \/ UNCHANGED <<netif, threads>>
       \/ /\ netif' = [up |-> TRUE, addr |-> conf.addr]
          /\ threads' \in IF conf.static THEN {{"NIC"}} ELSE {{"NIC"}, {"NIC", "dhcpcd"}}
    /\ UNCHANGED <<sdvars, dvars, board, dhcp, losses>>

\* discover_setup: the callback runs on the tcpip thread, or is refused.
discover_setup ==
    /\ pc = "discover" /\ pc' = "run"
    /\ \/ discover_prep
       \/ UNCHANGED dvars
    /\ UNCHANGED <<sdvars, board, netvars, threads, losses>>

\* psc_run up to its loop: memory, the mutex, socket(), bind() or listen() fails
\* and it returns; realmain then prints for ever, and neither on_startup's
\* threads nor the server exist.
psc_run_fails ==
    /\ pc = "run" /\ pc' = "returned"
    /\ UNCHANGED <<sdvars, dvars, board, netvars, threads, losses>>

\* psc_run calls on_startup before it accepts.
on_startup ==
    /\ pc = "run" /\ pc' = "accepting"
    /\ threads' = threads \cup {"lstats", "wvfm", "console"}
    /\ UNCHANGED <<sdvars, dvars, board, netvars, losses>>

Main == \/ InitI2c \/ WriteLmk \/ EvrSetup \/ SdStep
        \/ net_setup \/ discover_setup \/ psc_run_fails \/ on_startup

\* Mutant: the count of milliseconds is not reset by the coarse timer.
dhcp_client_no_reset ==
    /\ "dhcpcd" \in threads
    /\ dhcp' = [mscnt |-> (dhcp.mscnt + FineMs) % (3 * CoarseMs), prev |-> netif.addr]
    /\ UNCHANGED <<sdvars, dvars, pc, board, threads, losses, netif>>

\* One turn of dhcp_client: the fine timer runs, and the coarse one when
\* CoarseMs have gone; lwIP may set the address at a timer (external).
dhcp_client ==
    /\ "dhcpcd" \in threads
    /\ LET ms == dhcp.mscnt + FineMs
       IN  /\ netif' \in {[netif EXCEPT !.addr = a] : a \in Leases \cup {netif.addr}}
           /\ dhcp' = [mscnt |-> IF ms >= CoarseMs THEN 0 ELSE ms, prev |-> netif'.addr]
    /\ UNCHANGED <<sdvars, dvars, pc, board, threads, losses>>

Network ==
    /\ "NIC" \in threads
    /\ Receive
    /\ UNCHANGED <<sdvars, bvars>>

PowerLoss ==
    /\ losses < MaxLosses /\ losses' = losses + 1
    /\ SdPowerLoss /\ DiscoverPowerLoss
    /\ pc' = "i2c" /\ UNCHANGED busy
    /\ lmk' = 0 /\ evr' = EvrOff
    /\ netif' = NetifOff /\ threads' = {} /\ dhcp' = DhcpOff

Next == Main \/ BusChanges \/ dhcp_client \/ Network \/ PowerLoss

\* Before the scheduler runs main is alone; afterwards no thread above realmain
\* runs for ever.
Spec == Init /\ [][Next]_vars /\ WF_vars(Main)

-----------------------------------------------------------------------------
(* Properties; the invariants of SdCard and Discover are checked here too. *)

TypeOK ==
    /\ SdTypeOK /\ DiscoverTypeOK
    /\ pc \in {"i2c", "lmk", "evr", "sdcard", "net", "discover", "run", "accepting",
              "returned", "crashed"}
    /\ busy \in BOOLEAN /\ lmk \in 0 .. LmkRegs /\ losses \in 0 .. MaxLosses
    /\ threads \subseteq {"NIC", "dhcpcd", "lstats", "wvfm", "console"}
    /\ netif.up \in BOOLEAN /\ dhcp.mscnt \in 0 .. CoarseMs - 1

\* However often the power failed and whatever failed on the card or in setting
\* up the network and discovery, realmain gets to psc_run, which accepts clients
\* or has returned because it could not open its listening socket.  Nothing
\* before that stops the start-up but an I2C bus that stays busy and a missing
\* I2C configuration.
ComesUp == <>[](~busy) => <>[](pc \in {"accepting", "returned", "crashed"})
=============================================================================
