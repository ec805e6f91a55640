-------------------------- MODULE MCAuthGovernor --------------------------
EXTENDS AuthGovernor, SequencesExt

CONSTANTS a1, a2, p1, p2, blank

MCAddrs == {a1, a2, p1, p2}
MCClients == {a1, a2}
MCProxies == <<p1, p2>>
MCForgeries == {<<>>, <<a2>>, <<blank, p1>>, <<a1, a2, blank>>, <<p2, a1, p1, a2>>}

\* client_ip as the code computes it: an index into the filtered chain.
ChainClientIp(xff, peer, hops) ==
    LET chain == SelectSeq(xff, LAMBDA e : e # Blank)
        idx == Len(chain) - hops + 1
    IN  IF hops = 0 \/ Len(chain) < hops THEN peer
        ELSE IF chain[idx] \in Addrs THEN chain[idx] ELSE peer

\* The entry that ClientIp names is the one that client_ip finds, for every header
\* of up to four entries, blank and unreadable ones among them, and up to three
\* trusted hops (client.rs: "l'index len - trusted_hops").
ASSUME ReadsTheChain ==
    \A xff \in BoundedSeq({a1, a2, Blank, "junk"}, 4), hops \in 0..3 :
        ClientIp(xff, p1, hops) = ChainClientIp(xff, p1, hops)
=============================================================================
