----------------------------- MODULE RateLimiter -----------------------------
(***************************************************************************)
(* RateLimiter.check: the recent hits of each client are kept in memory,   *)
(* a request is allowed while there are fewer than MaxRequests of them,    *)
(* and a denied one is told after how many whole seconds to come back.     *)
(* Every caller is a coroutine of the one event loop, so a check is one    *)
(* step.  The clock (time.monotonic) is finer than a second: it counts     *)
(* TicksPerSecond.  The routes that use it are in Extraction.              *)
(***************************************************************************)
EXTENDS Naturals, Sequences, FiniteSets

CONSTANTS
    Clients,         \* keys: "user:<id>", "ip:<ip>", "email:<address>"
    MaxRequests,     \* max_requests
    Window,          \* window_seconds, in ticks
    TicksPerSecond,
    MaxTime          \* bound: how far the clock goes

ASSUME ParameterAssumption ==
    /\ MaxRequests \in Nat \ {0}
    /\ Window \in Nat \ {0}
    /\ TicksPerSecond \in Nat \ {0}
    /\ MaxTime \in Nat

VARIABLES
    now,
    hits,      \* _hits
    granted,   \* history: when each client was allowed, oldest first
    comeBack   \* history: the time named by the denials since the last grant

limiterVars == <<now, hits, granted, comeBack>>

LimiterTypeOK ==
    /\ now \in Nat
    /\ hits \in [Clients -> Seq(Nat)]
    /\ \A c \in Clients : Len(hits[c]) <= MaxRequests
    /\ granted \in [Clients -> Seq(Nat)]
    /\ comeBack \in [Clients -> Nat]

LimiterInit ==
    /\ now = 0
    /\ hits = [c \in Clients |-> <<>>]
    /\ granted = [c \in Clients |-> <<>>]
    /\ comeBack = [c \in Clients |-> 0]

-----------------------------------------------------------------------------
\* The hits that have not left the window.  Times are appended in order, so
\* those that have left it are the first ones.
Recent(c) ==
    LET expired == {i \in DOMAIN hits[c] : now - hits[c][i] >= Window}
    IN  SubSeq(hits[c], Cardinality(expired) + 1, Len(hits[c]))

FullOffByOne(s) == Len(s) > MaxRequests

Full(s) == Len(s) >= MaxRequests

\* min(hits): times are appended in order.
Oldest(s) == s[1]

RetryAfterTruncated(s) == (Window - (now - Oldest(s))) \div TicksPerSecond

\* int(window_seconds - (now - oldest)) + 1, in seconds.
RetryAfter(s) == (Window - (now - Oldest(s))) \div TicksPerSecond + 1

Allow(c) ==
    LET recent == Recent(c) IN
    /\ ~Full(recent)
    /\ hits' = [hits EXCEPT ![c] = Append(recent, now)]
    /\ granted' = [granted EXCEPT ![c] = Append(@, now)]
    /\ comeBack' = [comeBack EXCEPT ![c] = 0]
    /\ UNCHANGED now

\* A check that counts the requests it turns away.
DenyCounted(c) ==
    LET recent == Recent(c) IN
    /\ Full(recent)
    /\ hits' = [hits EXCEPT ![c] = Append(recent, now)]
    /\ comeBack' =
         [comeBack EXCEPT ![c] = now + TicksPerSecond * RetryAfter(recent)]
    /\ UNCHANGED <<now, granted>>

Deny(c) ==
    LET recent == Recent(c) IN
    /\ Full(recent)
    /\ hits' = [hits EXCEPT ![c] = recent]
    /\ comeBack' =
         [comeBack EXCEPT ![c] = now + TicksPerSecond * RetryAfter(recent)]
    /\ UNCHANGED <<now, granted>>

Tick ==
    /\ now < MaxTime
    /\ now' = now + 1
    /\ UNCHANGED <<hits, granted, comeBack>>

-----------------------------------------------------------------------------
(***************************************************************************)
(* However the requests are spread over time, no stretch of Window ticks   *)
(* sees more than MaxRequests of a client's requests allowed; in           *)
(* particular not the two halves either side of a window boundary.         *)
(***************************************************************************)
WindowBound ==
    \A c \in Clients : \A start \in 0 .. now :
        Cardinality({i \in DOMAIN granted[c] :
                       granted[c][i] >= start /\ granted[c][i] - start < Window})
            <= MaxRequests

(***************************************************************************)
(* The Retry-After of a denial is honest: a client that waits that long,   *)
(* however often it was denied meanwhile, is allowed.                      *)
(***************************************************************************)
RetryAfterSuffices ==
    \A c \in Clients :
        comeBack[c] # 0 /\ now >= comeBack[c] => ~Full(Recent(c))
(***************************************************************************)
(* Nobody is turned away early: whoever would be denied has been allowed   *)
(* MaxRequests times within the last Window ticks.  Requests that were     *)
(* themselves denied do not count, however many there were.                *)
(***************************************************************************)
NeverRefusedEarly ==
    \A c \in Clients : Full(Recent(c)) =>
        MaxRequests <= Cardinality({i \in DOMAIN granted[c] :
                                      now - granted[c][i] < Window})
=============================================================================
