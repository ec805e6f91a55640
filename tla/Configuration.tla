--------------------------- MODULE Configuration ---------------------------
(***************************************************************************)
(* The loading of the configuration (config.rs): which environments the    *)
(* start admits, and the settings it takes from one that it admits.        *)
(*                                                                         *)
(* The value of a variable is what the code can tell about it: its shape   *)
(* ("unset", "blank", "junk" that does not parse, "padded" with spaces in  *)
(* front, "trailed" with spaces at the end only, and "bare"), and what its *)
(* text stands for (a number, a Boolean, the bytes of a secret, the scheme *)
(* of a URL, the origins of a list, the classes of the characters of an    *)
(* index prefix).  A variable that is not Unicode is "unset" here, as it   *)
(* is to the code.  An Option is a set with one member or none.  Which of  *)
(* several errors is reported is left out.                                 *)
(***************************************************************************)
EXTENDS Integers, Sequences

CONSTANTS
    MaxU32,  \* the largest u32
    MaxI32,  \* the largest i32
    MaxU64   \* the largest u64, and usize on the 64-bit targets

\* The defaults are values of their types.
ASSUME WidthAssumption ==
    /\ MaxU32 \in Nat /\ MaxU32 >= 30
    /\ MaxI32 \in Nat /\ MaxI32 >= 5
    /\ MaxU64 \in Nat /\ MaxU64 >= 2592000

U32 == 0..MaxU32
U64 == 0..MaxU64
I32 == (-MaxI32 - 1)..MaxI32

-----------------------------------------------------------------------------
(* The readers of one variable.                                            *)

\* require, opt_string: there is a value, and not only white space.
Given(v) == v.shape \notin {"unset", "blank"}
OptString(v) == IF Given(v) THEN {v.val} ELSE {}

\* req_parse parses the value as it is, white space included.
ReqParses(v) == v.shape = "bare"

\* opt_parse parses the trimmed value; without one, the default holds.
OptParses(v, type) == Given(v) => v.shape # "junk" /\ v.val \in type
OptParse(v, default) == IF Given(v) THEN v.val ELSE default

AtLeastOne(n) == IF n < 1 THEN 1 ELSE n

\* is_valid_index_token, on the classes of the characters.
ValidIndexToken(s) ==
    /\ Len(s) \in 1..64
    /\ s[1] \in {"lower", "digit"}
    /\ \A i \in DOMAIN s : s[i] \in {"lower", "digit", "_", "-"}

-----------------------------------------------------------------------------
(* RedisConfig::from_env.                                                  *)

\* The scheme is looked for at the start of the text as it is.
RedisAdmits(env) ==
    /\ env.REDIS_URL.shape \in {"bare", "trailed"}
    /\ env.REDIS_URL.val \in {"redis", "rediss"}
    /\ OptParses(env.SESSION_ABSOLUTE_TTL_SECONDS, U64)
    /\ OptParses(env.AUTH_RATE_LIMIT_MAX, U32)
    /\ OptParses(env.AUTH_RATE_LIMIT_WINDOW_SECONDS, U64)

RedisConfig(env) ==
    [url |-> env.REDIS_URL.val,
     session_absolute_ttl |-> OptParse(env.SESSION_ABSOLUTE_TTL_SECONDS, 2592000),
     auth_rate_limit_max |-> AtLeastOne(OptParse(env.AUTH_RATE_LIMIT_MAX, 30)),
     auth_rate_limit_window |->
         AtLeastOne(OptParse(env.AUTH_RATE_LIMIT_WINDOW_SECONDS, 60))]

-----------------------------------------------------------------------------
(* MonitoringConfig::from_env.                                             *)

MonitoringWanted(env) == Given(env.OPENSEARCH_URL)

\* https, or http when the environment says that it may be.
SchemeAdmittedSlip(env) == env.OPENSEARCH_URL.val \in {"https", "http"}
SchemeAdmitted(env) ==
    \/ env.OPENSEARCH_URL.val = "https"
    \/ /\ env.OPENSEARCH_URL.val = "http"
       /\ OptParse(env.OPENSEARCH_ALLOW_INSECURE, FALSE)

\* A key that is set is the way of authentication, even when it is blank, which
\* is refused; without one, a user and a password are required.
HasApiKey(env) == env.OPENSEARCH_API_KEY.shape # "unset"
AuthAdmitted(env) ==
    IF HasApiKey(env) THEN Given(env.OPENSEARCH_API_KEY)
    ELSE Given(env.OPENSEARCH_USERNAME) /\ Given(env.OPENSEARCH_PASSWORD)

IndexPrefix(env) ==
    IF Given(env.OPENSEARCH_INDEX_PREFIX) THEN env.OPENSEARCH_INDEX_PREFIX.val
    ELSE <<"lower", "lower", "lower", "-", "lower", "lower", "lower", "lower">>

MonitoringAdmits(env) ==
    MonitoringWanted(env) =>
        /\ OptParses(env.OPENSEARCH_ALLOW_INSECURE, BOOLEAN)
        /\ SchemeAdmitted(env)
        /\ AuthAdmitted(env)
        /\ ValidIndexToken(IndexPrefix(env))
        /\ OptParses(env.OPENSEARCH_TIMEOUT_SECONDS, U64)
        /\ OptParses(env.OPENSEARCH_BATCH_SIZE, U64)
        /\ OptParses(env.OPENSEARCH_FLUSH_INTERVAL_SECONDS, U64)
        /\ OptParses(env.OPENSEARCH_CHANNEL_CAPACITY, U64)

MonitoringConfig(env) ==
    [base_url |-> env.OPENSEARCH_URL.val,
     auth |-> IF HasApiKey(env) THEN "ApiKey" ELSE "Basic",
     ca_cert_path |-> OptString(env.OPENSEARCH_CA_CERT_PATH),
     client_identity_path |-> OptString(env.OPENSEARCH_CLIENT_IDENTITY_PATH),
     index_prefix |-> IndexPrefix(env),
     request_timeout |-> OptParse(env.OPENSEARCH_TIMEOUT_SECONDS, 5),
     batch_size |-> AtLeastOne(OptParse(env.OPENSEARCH_BATCH_SIZE, 500)),
     flush_interval |->
         AtLeastOne(OptParse(env.OPENSEARCH_FLUSH_INTERVAL_SECONDS, 2)),
     channel_capacity |->
         AtLeastOne(OptParse(env.OPENSEARCH_CHANNEL_CAPACITY, 10000))]

-----------------------------------------------------------------------------
(* Config::from_env.                                                       *)

\* The secret is measured as it is, and so is what surrounds it.
SecretLongEnough(env) == Given(env.JWT_SECRET) /\ env.JWT_SECRET.val >= 32

OriginsGiven(env) ==
    Given(env.CORS_ALLOWED_ORIGINS) /\ env.CORS_ALLOWED_ORIGINS.val # {}

Admits(env) ==
    /\ ReqParses(env.APP_BIND_ADDR)
    /\ OptParses(env.APP_TRUSTED_PROXY_HOPS, U64)
    /\ Given(env.DATABASE_URL)
    /\ OptParses(env.DATABASE_MAX_CONNECTIONS, U32)
    /\ SecretLongEnough(env)
    /\ Given(env.JWT_ISSUER)
    /\ OptParses(env.JWT_ACCESS_TTL_SECONDS, U64)
    /\ OptParses(env.REFRESH_TTL_SECONDS, U64)
    /\ OriginsGiven(env)
    /\ OptParses(env.COOKIE_SECURE, BOOLEAN)
    /\ OptParses(env.MAX_BODY_BYTES, U64)
    /\ OptParses(env.REQUEST_TIMEOUT_SECONDS, U64)
    /\ OptParses(env.LOGIN_MAX_FAILED_ATTEMPTS, I32)
    /\ OptParses(env.LOGIN_LOCKOUT_SECONDS, U64)
    /\ RedisAdmits(env)
    /\ MonitoringAdmits(env)

\* The filter is neither trimmed nor tested: only an unset variable gives the
\* default.  Its blank is the empty text, and white space alone is junk.
LogFilter(env) ==
    IF env.LOG_FILTER.shape = "unset" THEN [shape |-> "bare", val |-> "info"]
    ELSE env.LOG_FILTER

Config(env) ==
    [bind_addr |-> env.APP_BIND_ADDR.val,
     trusted_proxy_hops |-> OptParse(env.APP_TRUSTED_PROXY_HOPS, 1),
     database_url |-> env.DATABASE_URL.val,
     database_max_connections |-> OptParse(env.DATABASE_MAX_CONNECTIONS, 10),
     jwt_secret |-> env.JWT_SECRET.val,
     jwt_issuer |-> env.JWT_ISSUER.val,
     jwt_access_ttl |-> OptParse(env.JWT_ACCESS_TTL_SECONDS, 900),
     refresh_ttl |-> OptParse(env.REFRESH_TTL_SECONDS, 1209600),
     cors_allowed_origins |-> env.CORS_ALLOWED_ORIGINS.val,
     cookie_secure |-> OptParse(env.COOKIE_SECURE, TRUE),
     max_body_bytes |-> OptParse(env.MAX_BODY_BYTES, 1048576),
     request_timeout |-> OptParse(env.REQUEST_TIMEOUT_SECONDS, 15),
     login_max_failed_attempts |-> OptParse(env.LOGIN_MAX_FAILED_ATTEMPTS, 5),
     login_lockout |-> OptParse(env.LOGIN_LOCKOUT_SECONDS, 900),
     log_filter |-> LogFilter(env),
     redis |-> RedisConfig(env),
     monitoring |-> IF MonitoringWanted(env) THEN {MonitoringConfig(env)} ELSE {}]
=============================================================================
