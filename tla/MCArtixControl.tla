--------------------------- MODULE MCArtixControl ---------------------------
(* ArtixControl with a few messages, short tables and small addresses. *)
EXTENDS ArtixControl

CONSTANTS ioc, gui

\* Settings of the two clients never overlap.
Eeprom(h, v) == [kind |-> "eeprom", addr |-> IF h = ioc THEN 0 ELSE 4, vals |-> v]
Table(v) == [kind |-> "table", addr |-> 0, vals |-> v]

\* One client: two settings for the same address, a table and one that is too long.
OneClient(h) == {Eeprom(h, <<1, 2, 3, 4>>), Eeprom(h, <<2, 2, 4, 4>>),
                 Table(<<3, 4>>), Table(<<5, 5, 5>>)}

\* Two clients that set one byte each at the same time.
OneByte(h) == {Eeprom(h, <<1>>)}
=============================================================================
