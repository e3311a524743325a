------------------------------- MODULE MCBoot -------------------------------
(* Start-up with every NET.CNF of up to two lines that choose how the      *)
(* address is set, and two more files with the other settings.             *)
EXTENDS Boot

Line(c, a) == [cmd |-> c, arg |-> a]
AddrLines == {Line("dhcp", "none"), Line("dhcp", "no"), Line("dhcp", "bad"), Line("addr", "a")}
Others == {<<Line("mask", "m"), Line("gw", "g"), Line("hwaddr", "h"), Line("addr", "bad")>>,
           <<Line("mask", "m"), Line("mask", "none"), Line("hwaddr", "eeprom"), Line("other", "a")>>}
MCNetFiles == UNION {[1 .. n -> AddrLines] : n \in 0 .. 2} \cup Others
=============================================================================
