------------------------------ MODULE Discover ------------------------------
(***************************************************************************)
(* Discovery over UDP: discover_prep and disco_recv of discover.c, and the *)
(* receive buffers of lwIP, which are external: a datagram is received     *)
(* into a pbuf of a fixed pool and dropped when there is none.             *)
(***************************************************************************)
EXTENDS Integers

CONSTANTS
    Pool,           \* receive pbufs of lwIP
    MaxDatagrams    \* bound: datagrams to port 3000 between two power-ups

ASSUME PoolAssumption == Pool \in Nat \ {0} /\ MaxDatagrams \in Nat

VARIABLES
    disco,          \* disco_recv is registered on a bound pcb
    free,           \* pbufs in the pool
    traffic,        \* pbufs that hold other packets on their way
    came            \* history: datagrams to port 3000 taken from the wire

dvars == <<disco, free, traffic, came>>

DiscoverInit == disco = FALSE /\ free = Pool /\ traffic = 0 /\ came = 0

\* discover_prep: udp_new, udp_bind and the reply's pbuf may each fail; after
\* any of the three no datagram reaches disco_recv.
discover_prep ==
    /\ disco' \in BOOLEAN
    /\ UNCHANGED <<free, traffic, came>>

\* disco_recv: a datagram that is no request is ignored; for a request p is set
\* to the reply's own pbuf, which is sent and freed.  No path frees the pbuf
\* that came.  Without a callback lwIP frees it itself.
disco_recv ==
    /\ free > 0 /\ came < MaxDatagrams
    /\ came' = came + 1
    /\ free' = IF disco THEN free - 1 ELSE free
    /\ UNCHANGED <<disco, traffic>>

\* Any other packet comes (external).
PacketIn ==
    /\ free > 0
    /\ free' = free - 1 /\ traffic' = traffic + 1
    /\ UNCHANGED <<disco, came>>

\* It has been read, and its pbuf is free again (external).
PacketDone ==
    /\ traffic > 0
    /\ free' = free + 1 /\ traffic' = traffic - 1
    /\ UNCHANGED <<disco, came>>

Receive == disco_recv \/ PacketIn \/ PacketDone

DiscoverPowerLoss == disco' = FALSE /\ free' = Pool /\ traffic' = 0 /\ came' = 0

DiscoverTypeOK ==
    disco \in BOOLEAN /\ free \in 0 .. Pool /\ traffic \in 0 .. Pool /\ came \in 0 .. MaxDatagrams
=============================================================================
