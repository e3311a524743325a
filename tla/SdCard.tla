------------------------------- MODULE SdCard -------------------------------
(***************************************************************************)
(* The SD card at start-up: sdcard_handle of sdcard.c, one step per call   *)
(* into FatFs.  Every call may fail; the code then prints and goes on      *)
(* where the source says.  A power loss may come between any two calls.    *)
(*                                                                         *)
(* A line of NET.CNF is a record of its command and the kind of its        *)
(* argument.  EEPROM.DAT is known by its length and by who wrote it; an    *)
(* EEPROM.NEW of a wrong length meets the same calls as a good one and is  *)
(* left out.  The heap block ee, which is compared with EEPROM.DAT and     *)
(* written to it, is never filled in, the call of ee_read being commented  *)
(* out: a file of the right length matches it or not, and what is written  *)
(* is junk.  malloc is assumed to work.                                    *)
(***************************************************************************)
EXTENDS Integers, Sequences, FiniteSetsExt

CONSTANTS
    NetFiles,       \* the NET.CNF files considered, as sequences of lines
    NoAddr          \* an address that was never set: zeros

\* The kinds of argument a command has: any other word is "bad" to it.
ASSUME NetFilesAssumption ==
    \A f \in NetFiles :
        /\ Len(f) \in Nat
        /\ \A k \in 1 .. Len(f) :
              /\ f[k].cmd = "dhcp" => f[k].arg \in {"none", "yes", "no", "bad"}
              /\ f[k].cmd \in {"addr", "mask", "gw"} => f[k].arg # "eeprom"

\* EEPROM.DAT: absent, of no length, cut short, as its owner left it ("full"),
\* or of the right length with what was in the heap ("junk").
Dats == {"none", "empty", "torn", "full", "junk"}

VARIABLES
    card,           \* the files: [net, new, dat, part], part: the partition that has them
    dirty,          \* EEPROM.DAT was changed since FatFs last wrote everything out
    conf,           \* net_config
    sd,             \* program counter of sdcard_handle
    part,           \* the partition being tried
    i,              \* lines of NET.CNF read
    eeprom,         \* the EEPROM's contents: "old", or "new": those of EEPROM.NEW
    ioerr           \* history: a call to FatFs failed since power-up

sdvars == <<card, dirty, conf, sd, part, i, eeprom, ioerr>>

NoConf == [addr |-> NoAddr, mask |-> NoAddr, gw |-> NoAddr, hw |-> NoAddr, static |-> FALSE]

SdInit ==
    /\ card \in [net : NetFiles, new : {"none", "good"}, dat : {"none", "empty", "full"}, part : {0, 1}]
    /\ dirty = FALSE /\ conf = NoConf /\ sd = "mount" /\ part = 0 /\ i = 0
    /\ eeprom = "old" /\ ioerr = FALSE

-----------------------------------------------------------------------------
(* sdcard_netconf. *)

\* sdcard_parse_inet and inet_aton: an argument that is missing or is no
\* address leaves the old value.
parse_inet(old, arg) == IF arg \in {"none", "bad"} THEN old ELSE arg

\* Mutant: addr does not imply a static address.
ParseNotImplied(c, l) ==
    CASE l.cmd = "dhcp" -> [c EXCEPT !.static = IF l.arg \in {"none", "yes"} THEN FALSE
                                                ELSE IF l.arg = "no" THEN TRUE ELSE @]
      [] l.cmd = "addr" -> [c EXCEPT !.addr = parse_inet(@, l.arg)]
      [] OTHER -> c

\* One line: c after it.  An unknown command changes nothing.
ParseLine(c, l) ==
    CASE l.cmd = "dhcp" /\ l.arg \in {"none", "yes"} -> [c EXCEPT !.static = FALSE]
      [] l.cmd = "dhcp" /\ l.arg = "no" -> [c EXCEPT !.static = TRUE]
      [] l.cmd = "addr" -> [c EXCEPT !.addr = parse_inet(@, l.arg), !.static = TRUE]
      [] l.cmd = "mask" -> [c EXCEPT !.mask = parse_inet(@, l.arg)]
      [] l.cmd = "gw" -> [c EXCEPT !.gw = parse_inet(@, l.arg)]
      [] l.cmd = "hwaddr" -> [c EXCEPT !.hw = IF l.arg = "eeprom" THEN @ ELSE parse_inet(@, l.arg)]
      [] OTHER -> c

-----------------------------------------------------------------------------
(* The calls.  Each succeeds, or fails and is reported. *)

At(here) == sd = here
Goto(there) == sd' = there
Fails == ioerr' = TRUE
Works == UNCHANGED ioerr
files == <<card, dirty, eeprom>>

\* Mutant: the card is tried until it can be mounted.
MountRetry ==
    /\ At("mount")
    /\ \/ part = card.part /\ Goto("net open") /\ UNCHANGED part
       \/ part' = 1 - part /\ UNCHANGED sd
    /\ Works /\ UNCHANGED <<files, conf, i>>

\* sdcard_trypart: f_mount and f_chdir; the second partition after the first.
Mount ==
    /\ At("mount")
    /\ \/ /\ part = card.part
          /\ Goto("net open") /\ Works /\ UNCHANGED part
       \/ /\ IF part = 0 THEN part' = 1 /\ UNCHANGED sd ELSE Goto("done") /\ UNCHANGED part
          /\ IF part = card.part THEN Fails ELSE Works
    /\ UNCHANGED <<files, conf, i>>

NetOpen ==
    /\ At("net open")
    /\ \/ Goto("net") /\ Works
       \/ Goto("new open") /\ Fails
    /\ UNCHANGED <<files, conf, part, i>>

\* f_gets returns the next line, or NULL at the end of the file or on an error.
NetLine ==
    /\ At("net")
    /\ \/ /\ i < Len(card.net)
          /\ conf' = ParseLine(conf, card.net[i + 1]) /\ i' = i + 1
          /\ Works /\ UNCHANGED sd
       \/ /\ Goto("new open")
          /\ Fails \/ (i = Len(card.net) /\ Works)       \* f_close may fail too
          /\ UNCHANGED <<conf, i>>
    /\ UNCHANGED <<files, part>>

\* EEPROM.NEW: read, then closed and removed whatever came of it.  ee_write is
\* commented out, so nothing reaches the EEPROM.
NewOpen ==
    /\ At("new open")
    /\ \/ card.new # "none" /\ Goto("new unlink") /\ Works
       \/ Goto("dat open") /\ IF card.new = "none" THEN Works ELSE Fails
    /\ UNCHANGED <<files, conf, part, i>>

NewUnlink ==
    /\ At("new unlink")
    /\ \/ card' = [card EXCEPT !.new = "none"] /\ (Works \/ Fails)
       \/ Fails /\ UNCHANGED card
    /\ Goto("dat open")
    /\ UNCHANGED <<dirty, eeprom, conf, part, i>>

\* EEPROM.DAT is created when there is none: FA_OPEN_ALWAYS.
DatOpen ==
    /\ At("dat open")
    /\ \/ /\ card' = [card EXCEPT !.dat = IF @ = "none" THEN "empty" ELSE @]
          /\ dirty' = (dirty \/ card.dat = "none")
          /\ Goto("dat read") /\ Works
       \/ Goto("done") /\ Fails /\ UNCHANGED <<card, dirty>>
    /\ UNCHANGED <<eeprom, conf, part, i>>

\* Mutant: the length that was read is not part of the comparison.
DatReadAnyLength ==
    /\ At("dat read")
    /\ Goto("dat close") /\ Works
    /\ UNCHANGED <<files, conf, part, i>>

\* f_read and the comparison: a file of another length never matches.
DatRead ==
    /\ At("dat read")
    /\ \/ Goto("dat truncate") /\ Works
       \/ card.dat \in {"full", "junk"} /\ Goto("dat close") /\ Works
       \/ Goto("dat close") /\ Fails
    /\ UNCHANGED <<files, conf, part, i>>

\* f_lseek and f_truncate, f_write, f_sync: the first that fails ends it.
DatTruncate ==
    /\ At("dat truncate")
    /\ \/ card' = [card EXCEPT !.dat = "empty"] /\ dirty' = TRUE /\ Goto("dat write") /\ Works
       \/ Goto("dat close") /\ Fails /\ UNCHANGED <<card, dirty>>
    /\ UNCHANGED <<eeprom, conf, part, i>>

DatWrite ==
    /\ At("dat write")
    /\ \/ card' = [card EXCEPT !.dat = "junk"] /\ Goto("dat sync") /\ Works
       \/ card' = [card EXCEPT !.dat = "torn"] /\ Goto("dat close") /\ Fails
    /\ UNCHANGED <<dirty, eeprom, conf, part, i>>

DatSync ==
    /\ At("dat sync") \/ At("dat close")
    /\ Goto(IF At("dat sync") THEN "dat close" ELSE "done")
    /\ \/ dirty' = FALSE /\ Works
       \/ Fails /\ UNCHANGED dirty
    /\ UNCHANGED <<card, eeprom, conf, part, i>>

sdcard_handle ==
    \/ Mount \/ NetOpen \/ NetLine \/ NewOpen \/ NewUnlink
    \/ DatOpen \/ DatRead \/ DatTruncate \/ DatWrite \/ DatSync

\* The power fails: what FatFs had not written out may be there or not.
SdPowerLoss ==
    /\ card' \in IF dirty THEN {[card EXCEPT !.dat = d] : d \in Dats} ELSE {card}
    /\ dirty' = FALSE /\ conf' = NoConf /\ sd' = "mount" /\ part' = 0 /\ i' = 0
    /\ ioerr' = FALSE /\ UNCHANGED eeprom

-----------------------------------------------------------------------------
(* Properties. *)

SdTypeOK ==
    /\ card \in [net : NetFiles, new : {"none", "good"}, dat : Dats, part : {0, 1}]
    /\ conf.static \in BOOLEAN /\ part \in {0, 1} /\ i \in 0 .. Len(card.net)
    /\ sd \in {"mount", "net open", "net", "new open", "new unlink", "dat open", "dat read",
               "dat truncate", "dat write", "dat sync", "dat close", "done"}

\* The value of the last of lines 1 .. n that satisfies P, or old if none does.
LastValue(n, P(_), V(_), old) ==
    LET S == {k \in 1 .. n : P(card.net[k])} IN IF S = {} THEN old ELSE V(card.net[Max(S)])

\* What NET.CNF is for: each setting has the value of the last line read that
\* gives a valid one, in whatever order the lines come, and the address is
\* static exactly if the last line that decides it is "addr" or "dhcp no".
ConfMeaning ==
    LET Given(cmd) == LastValue(i, LAMBDA l : l.cmd = cmd /\ l.arg \notin {"none", "bad", "eeprom"},
                                LAMBDA l : l.arg, NoAddr)
    IN  /\ conf.addr = Given("addr") /\ conf.mask = Given("mask")
        /\ conf.gw = Given("gw") /\ conf.hw = Given("hwaddr")
        /\ conf.static = LastValue(i, LAMBDA l : l.cmd = "addr" \/ (l.cmd = "dhcp" /\ l.arg # "bad"),
                                   LAMBDA l : l.cmd = "addr" \/ l.arg = "no", FALSE)

\* What a power loss leaves half done does not stay so: when sdcard_handle ends
\* and none of its calls failed, EEPROM.NEW is gone, no EEPROM.DAT is left that
\* was created or truncated and not written or only written in part, and FatFs
\* has written everything out.  It says nothing of what EEPROM.DAT contains: the
\* code creates the file, or replaces its owner's, with junk.
CardSettled ==
    sd = "done" /\ ~ioerr => card.new = "none" /\ card.dat \notin {"empty", "torn"} /\ ~dirty

\* "1: FILE --> EEPROM", and EEPROM.NEW is removed "after update": when a good
\* EEPROM.NEW is removed its contents are in the EEPROM.
EepromUpdated ==
    [][card.new = "good" /\ card'.new = "none" => eeprom' = "new"]_sdvars
=============================================================================
