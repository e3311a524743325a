------------------------------- MODULE MCTftp -------------------------------
(* The TFTP server with a reader and a writer whose last block is short    *)
(* and whose content is shorter than the file it replaces.                 *)
EXTENDS Tftp

MCContent == [w |-> <<"w1", "w2", "w3", "w4">>]
MCReaders == {"r"}
MCOld == <<"o1", "o2", "o3", "o4", "o5">>
=============================================================================
