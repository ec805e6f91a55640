----------------------------- MODULE MCServer -----------------------------
EXTENDS Server

Bare(val) == [shape |-> "bare", val |-> val]
Padded(val) == [shape |-> "padded", val |-> val]
Trailed(val) == [shape |-> "trailed", val |-> val]
Unset == [shape |-> "unset"]
BlankText == [shape |-> "blank"]
Junk == [shape |-> "junk"]

\* What the documentation asks for, and nothing else.
Minimal ==
    [APP_BIND_ADDR |-> Bare("any"), APP_TRUSTED_PROXY_HOPS |-> Unset,
     DATABASE_URL |-> Bare("postgres"), DATABASE_MAX_CONNECTIONS |-> Unset,
     JWT_SECRET |-> Bare(32), JWT_ISSUER |-> Bare("issuer"),
     JWT_ACCESS_TTL_SECONDS |-> Unset, REFRESH_TTL_SECONDS |-> Unset,
     CORS_ALLOWED_ORIGINS |-> Bare({"origin"}), COOKIE_SECURE |-> Unset,
     MAX_BODY_BYTES |-> Unset, REQUEST_TIMEOUT_SECONDS |-> Unset,
     LOGIN_MAX_FAILED_ATTEMPTS |-> Unset, LOGIN_LOCKOUT_SECONDS |-> Unset,
     LOG_FILTER |-> Unset, REDIS_URL |-> Bare("rediss"),
     SESSION_ABSOLUTE_TTL_SECONDS |-> Unset, AUTH_RATE_LIMIT_MAX |-> Unset,
     AUTH_RATE_LIMIT_WINDOW_SECONDS |-> Unset, OPENSEARCH_URL |-> Unset,
     OPENSEARCH_ALLOW_INSECURE |-> Unset, OPENSEARCH_API_KEY |-> Unset,
     OPENSEARCH_USERNAME |-> Unset, OPENSEARCH_PASSWORD |-> Unset,
     OPENSEARCH_CA_CERT_PATH |-> Unset, OPENSEARCH_CLIENT_IDENTITY_PATH |-> Unset,
     OPENSEARCH_INDEX_PREFIX |-> Unset, OPENSEARCH_TIMEOUT_SECONDS |-> Unset,
     OPENSEARCH_BATCH_SIZE |-> Unset, OPENSEARCH_FLUSH_INTERVAL_SECONDS |-> Unset,
     OPENSEARCH_CHANNEL_CAPACITY |-> Unset]

Monitored ==
    [Minimal EXCEPT !.OPENSEARCH_URL = Bare("https"), !.OPENSEARCH_API_KEY = Bare("key"),
                    !.OPENSEARCH_CA_CERT_PATH = Bare("ca.pem")]
Warned == [Monitored EXCEPT !.LOG_FILTER = Bare("warn")]
Clear == [Monitored EXCEPT !.OPENSEARCH_URL = Bare("http")]

\* One setting of Monitored replaced at a time, by a value at an edge.
Odd(name, val) == [Monitored EXCEPT ![name] = val]
Edges ==
    {Odd("APP_BIND_ADDR", v) : v \in {Unset, Padded("any"), Junk}}
    \cup {Odd("JWT_SECRET", v) : v \in {Bare(31), Padded(34), BlankText}}
    \cup {Odd("CORS_ALLOWED_ORIGINS", v) : v \in {Bare({}), Unset}}
    \cup {Odd("REDIS_URL", v) : v \in {Padded("redis"), Trailed("redis"), Bare("http"), Unset}}
    \cup {Odd("DATABASE_MAX_CONNECTIONS", v) : v \in {Bare(0), Bare(MaxU32 + 1)}}
    \cup {Odd("LOGIN_MAX_FAILED_ATTEMPTS", v) : v \in {Bare(-1), Bare(MaxI32 + 1)}}
    \cup {Odd("LOG_FILTER", v) : v \in {BlankText, Junk}}
    \cup {Odd("OPENSEARCH_INDEX_PREFIX", Bare(s)) : s \in {<<"-">>, <<"digit", "_">>, <<"lower", "other">>}}
    \cup {Odd(n, Padded(0)) : n \in
            {"AUTH_RATE_LIMIT_MAX", "AUTH_RATE_LIMIT_WINDOW_SECONDS", "OPENSEARCH_BATCH_SIZE",
             "OPENSEARCH_FLUSH_INTERVAL_SECONDS", "OPENSEARCH_CHANNEL_CAPACITY",
             "REQUEST_TIMEOUT_SECONDS", "REFRESH_TTL_SECONDS"}}
    \cup {[Clear EXCEPT !.OPENSEARCH_ALLOW_INSECURE = v] :
             v \in {Unset, BlankText, Bare(TRUE), Bare(FALSE), Junk}}
    \cup {[Monitored EXCEPT !.OPENSEARCH_API_KEY = v, !.OPENSEARCH_USERNAME = Bare("user"),
                            !.OPENSEARCH_PASSWORD = w] :
             v \in {Unset, BlankText}, w \in {Unset, Bare("password")}}

MCServedEnvs == {Minimal, Monitored, Warned}
MCEnvs == MCServedEnvs \cup Edges

Call(method, path, id) == [method |-> method, path |-> path, id |-> id]
MCCalls ==
    {Call("POST", "/api/v1/auth/login", "absent"),
     Call("OPTIONS", "/api/v1/auth/login", "twice"),
     Call("DELETE", "/api/v1/users/me/sessions/{sid}", "twice"),
     Call("GET", "/metrics", "absent"),
     Call("GET", "/health/ready", "opaque"),
     Call("PUT", "/health", "absent"),
     Call("BREW", "/scanner", "absent")}
MCFailures == {"Unauthorized", "Internal", "NotFound"}
=============================================================================
