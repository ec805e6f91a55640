--------------------------- MODULE ClientAddress ---------------------------
(***************************************************************************)
(* The address a request is counted under (middleware/client.rs): the      *)
(* entry of X-Forwarded-For that the outermost trusted proxy wrote, or the *)
(* TCP peer.  Both limiters and both logs use it.                          *)
(*                                                                         *)
(* A header is the sequence of its entries, split at the commas and        *)
(* trimmed; an absent or unreadable header is <<>>.  Only the first header *)
(* line is read, so that a header is one line here.                        *)
(***************************************************************************)
EXTENDS Naturals, Sequences, FiniteSets

CONSTANTS
    Addrs,  \* texts that parse as an IP address
    Blank   \* the empty entry, which the code filters out

\* How many entries there are from the i-th to the end, blank ones left out.
FromRight(xff, i) == Cardinality({j \in i..Len(xff) : xff[j] # Blank})

\* The i-th entry is the one at `hops` from the right of the filtered chain.
\* When the chain is shorter than `hops` there is no such entry.
IsTrusted(xff, hops, i) ==
    /\ xff[i] # Blank
    /\ FromRight(xff, i) = hops

\* client_ip.
ClientIp(xff, peer, hops) ==
    IF /\ hops > 0
       /\ \E i \in DOMAIN xff : IsTrusted(xff, hops, i) /\ xff[i] \in Addrs
    THEN xff[CHOOSE i \in DOMAIN xff : IsTrusted(xff, hops, i)]
    ELSE peer

-----------------------------------------------------------------------------
(* What reaches the server through the proxies in front of it, which are   *)
(* external: each one appends the address of the connection it received.   *)

Header(client, forged, proxies) ==
    IF proxies = <<>> THEN forged
    ELSE forged \o [i \in 1..Len(proxies) |->
                        IF i = 1 THEN client ELSE proxies[i - 1]]

\* peer_ip: the address of the connection the server received.
PeerIp(client, proxies) ==
    IF proxies = <<>> THEN client ELSE proxies[Len(proxies)]
=============================================================================
