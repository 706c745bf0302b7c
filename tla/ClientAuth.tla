----------------------------- MODULE ClientAuth -----------------------------
(***************************************************************************)
(* The credentials of the client's messages: src/auth.ts.                  *)
(*                                                                         *)
(* Logins, heartbeats and work connections ask for them independently of   *)
(* each other.  A token of the OIDC provider is cached, and one request is *)
(* shared by all who ask while it is under way, whichever session they     *)
(* belong to.  The clock is the client's; the provider counts the lifetime *)
(* of a token from some moment between the request and its answer.         *)
(***************************************************************************)
EXTENDS Integers

CONSTANTS
    Caller,     \* <<"login", 0>>, <<"ping", session>>, <<"work", worker>>
    Methods,    \* the methods of authentication to choose from
    Lives,      \* the values of expires_in, which may be Unset
    Margin,     \* by how much fetchToken shortens a lifetime: 10 s
    FetchTime,  \* no request takes longer than this
    Unset       \* undefined

ASSUME TimeAssumption ==
    /\ Margin \in Nat /\ FetchTime \in Nat
    /\ Unset \notin Int
    /\ Lives \subseteq Nat \cup {Unset}
    /\ Caller \subseteq {"login", "ping", "work"} \X Nat
    /\ Methods \subseteq {"token", "source", "oidc"}

VARIABLES
    now,            \* Date.now()
    method, scopes, \* the configuration; never changed
    cachedUntil,
    cachedGood,     \* history: the time at which the cached token expires
    pending,        \* the promise that callers share is set
    requests,       \* requests under way, each by the caller that began it
    st,             \* "waiting" for credentials, then "served" or "refused"
                    \* until the caller goes on; else "idle"
    asked           \* when the caller began to wait; 0 when it does not

cacheVars == <<cachedUntil, cachedGood, pending, requests>>
authVars == <<method, scopes, cacheVars, st, asked>>

Greater(a, b) == IF a >= b THEN a ELSE b

AuthInit ==
    /\ now = 0
    /\ method \in Methods
    /\ scopes \in SUBSET {"HeartBeats", "NewWorkConns"}
    /\ cachedUntil = 0 /\ cachedGood = 0
    /\ pending = FALSE /\ requests = {}
    /\ st = [c \in Caller |-> "idle"]
    /\ asked = [c \in Caller |-> 0]
-----------------------------------------------------------------------------
NeedsToken(c) == \/ c[1] = "login"
                 \/ c[1] = "ping" /\ "HeartBeats" \in scopes
                 \/ c[1] = "work" /\ "NewWorkConns" \in scopes

Serve(c) == st' = [st EXCEPT ![c] = "served"] /\ UNCHANGED <<asked, cacheVars>>
Wait(c) == /\ st' = [st EXCEPT ![c] = "waiting"]
           /\ asked' = [asked EXCEPT ![c] = now]

\* A plausible slip: the promise under way is not looked at.
MutantAccessToken(c) ==
    \/ now < cachedUntil /\ Serve(c)
    \/ /\ now >= cachedUntil
       /\ pending' = TRUE /\ requests' = requests \cup {c}
       /\ Wait(c)
       /\ UNCHANGED <<cachedUntil, cachedGood>>

\* accessToken: the cached token, the request under way, or a new one.
AccessToken(c) ==
    \/ now < cachedUntil /\ Serve(c)
    \/ now >= cachedUntil /\ pending /\ Wait(c) /\ UNCHANGED cacheVars
    \/ /\ now >= cachedUntil /\ ~pending
       /\ pending' = TRUE /\ requests' = requests \cup {c}
       /\ Wait(c)
       /\ UNCHANGED <<cachedUntil, cachedGood>>

\* login(), ping() and newWorkConn(): a signature, or nothing, is there at once;
\* a token source is asked every time, by every caller.
Ask(c) ==
    /\ st[c] = "idle"
    /\ \/ (method = "token" \/ ~NeedsToken(c)) /\ Serve(c)
       \/ method = "source" /\ NeedsToken(c) /\ Wait(c) /\ UNCHANGED cacheVars
       \/ method = "oidc" /\ NeedsToken(c) /\ AccessToken(c)
    /\ UNCHANGED <<method, scopes>>

SourceSettles(c) ==
    /\ method = "source" /\ st[c] = "waiting"
    /\ \E answer \in {"served", "refused"} : st' = [st EXCEPT ![c] = answer]
    /\ asked' = [asked EXCEPT ![c] = 0]
    /\ UNCHANGED <<now, method, scopes, cacheVars>>

\* The promise of fetchToken settles: its finally comes first, then the callers
\* that share it.
Settle(r, answer) ==
    /\ r \in requests
    /\ requests' = requests \ {r} /\ pending' = FALSE
    /\ st' = [c \in Caller |-> IF st[c] = "waiting" THEN answer ELSE st[c]]
    /\ asked' = [c \in Caller |-> 0]
    /\ UNCHANGED <<now, method, scopes>>

\* The answer has a token.
TokenArrives(r) ==
    /\ Settle(r, "served")
    /\ \E life \in Lives :
        IF life = Unset THEN UNCHANGED <<cachedUntil, cachedGood>>
        ELSE /\ cachedUntil' = now + Greater(0, life - Margin)
             /\ \E issued \in asked[r]..now : cachedGood' = issued + life

\* The configuration is not complete, the request fails, or its answer is no
\* success, no JSON, or has no token.
FetchFails(r) == Settle(r, "refused") /\ UNCHANGED <<cachedUntil, cachedGood>>

TokenSettles ==
    \/ \E r \in requests : TokenArrives(r) \/ FetchFails(r)
    \/ \E c \in Caller : SourceSettles(c)

\* The callers that have their answer go on before time does.
AuthTimely ==
    \A c \in Caller : /\ st[c] \in {"idle", "waiting"}
                      /\ st[c] = "waiting" => now < asked[c] + FetchTime
-----------------------------------------------------------------------------
AuthTypeOK ==
    /\ now \in Nat
    /\ method \in Methods /\ scopes \subseteq {"HeartBeats", "NewWorkConns"}
    /\ cachedUntil \in Nat /\ cachedGood \in Nat
    /\ pending \in BOOLEAN /\ requests \subseteq Caller
    /\ st \in [Caller -> {"idle", "waiting", "served", "refused"}]
    /\ asked \in [Caller -> Nat]

\* There is never a second request next to one under way, and nobody who shares
\* a request waits when none is: a failed one does not stick.
SharedRequest ==
    /\ \A r1, r2 \in requests : r1 = r2
    /\ method = "oidc" =>
        \A c \in Caller : st[c] = "waiting" => requests # {}

\* A token that is handed out from the cache lives longer than the margin, less
\* what its own request took: with requests shorter than 10 s none has expired.
CacheHonest == now < cachedUntil => now + Margin < cachedGood + FetchTime

TokensGood == SharedRequest /\ CacheHonest
=============================================================================
