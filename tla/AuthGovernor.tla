--------------------------- MODULE AuthGovernor ---------------------------
(***************************************************************************)
(* The in-memory limiter in front of the /auth routes (routes/mod.rs),     *)
(* keyed by the address that ClientAddress finds, behind a chain of        *)
(* proxies, with clients that send any X-Forwarded-For header.  The token  *)
(* bucket itself is the governor crate's, external: the code chooses its   *)
(* burst, its period and its key.  One tick is one second.                 *)
(***************************************************************************)
EXTENDS Naturals, Sequences, FiniteSets, ClientAddress

CONSTANTS
    Clients,      \* the addresses that connect to the outermost proxy
    Proxies,      \* the proxies in front of the server, outermost first
    TrustedHops,  \* APP_TRUSTED_PROXY_HOPS
    Forgeries,    \* the headers a client may send
    Burst,        \* burst_size
    Period,       \* per_second: the ticks that give one request back
    Window        \* bound on the ticks the history looks back

ASSUME ClientsAssumption ==
    /\ Clients \subseteq Addrs
    /\ Blank \notin Addrs
    /\ Proxies \in Seq(Addrs)
    /\ \A f \in Forgeries : f \in Seq(Addrs \cup {Blank})

\* The deployment declares as many hops as there are proxies.
ASSUME HopsAssumption == TrustedHops = Len(Proxies)

ASSUME QuotaAssumption ==
    /\ Burst \in Nat \ {0}
    /\ Period \in Nat \ {0}
    /\ Window \in Nat \ {0}

VARIABLES
    backlog,  \* for each key, the ticks until its bucket is full again
    answer,   \* the last answer: to which client, and whether it was admitted
    within    \* history: for each client and k, those admitted in the last k ticks

vars == <<backlog, answer, within>>

TypeOK ==
    /\ backlog \in [Addrs -> 0..(Burst * Period)]
    /\ answer \in [to : Clients, ok : BOOLEAN]
    /\ within \in [Clients -> [1..Window -> Nat]]

-----------------------------------------------------------------------------
Init ==
    /\ backlog = [a \in Addrs |-> 0]
    /\ answer \in [to : Clients, ok : BOOLEAN]
    /\ within = [c \in Clients |-> [k \in 1..Window |-> 0]]

\* RateLimitKeyExtractor::extract.
KeyLeftmostSlip(c, forged) ==
    LET xff == Header(c, forged, Proxies)
    IN  IF xff # <<>> /\ xff[1] \in Addrs THEN xff[1] ELSE PeerIp(c, Proxies)
KeyOffByOneSlip(c, forged) ==
    ClientIp(Header(c, forged, Proxies), PeerIp(c, Proxies), TrustedHops + 1)
Key(c, forged) ==
    ClientIp(Header(c, forged, Proxies), PeerIp(c, Proxies), TrustedHops)

\* The bucket of the key still holds a request.
PaysBeyondSlip(key) == backlog[key] <= Burst * Period
Pays(key) == backlog[key] + Period <= Burst * Period

\* A request of c for an /auth route: counted and let through, or 429.
Request(c, forged) ==
    LET key == Key(c, forged)
    IN  /\ answer' = [to |-> c, ok |-> Pays(key)]
        /\ backlog' = [a \in Addrs |->
                           IF a = key /\ Pays(key) THEN backlog[a] + Period
                           ELSE backlog[a]]
        /\ within' = [d \in Clients |-> [k \in 1..Window |->
                          IF d = c /\ Pays(key) THEN within[d][k] + 1
                          ELSE within[d][k]]]

Tick ==
    /\ backlog' = [a \in Addrs |-> IF backlog[a] = 0 THEN 0 ELSE backlog[a] - 1]
    /\ within' = [c \in Clients |-> [k \in 1..Window |->
                      IF k = 1 THEN 0 ELSE within[c][k - 1]]]
    /\ UNCHANGED answer

Next == Tick \/ \E c \in Clients, forged \in Forgeries : Request(c, forged)

Spec == Init /\ [][Next]_vars

-----------------------------------------------------------------------------
(* Properties.                                                             *)

\* In any k ticks a client gets through at most the burst and what k ticks give
\* back, whatever headers it sends (client.rs: "un attaquant ne peut donc pas
\* obtenir un nouveau quota en forgeant l'en-tête XFF").
ClientBudget ==
    \A c \in Clients, k \in 1..Window :
        within[c][k] * Period <= Burst * Period + k - 1

\* No request of one client, with whatever header, costs another client a
\* request: the limiter is the one that knows each client, seen through the
\* buckets of the clients' own addresses.
ClientBuckets == [c \in Clients |-> backlog[c]]
Ideal == INSTANCE ClientLimiter WITH debt <- ClientBuckets
ImplementsClientLimiter == Ideal!Spec
=============================================================================
