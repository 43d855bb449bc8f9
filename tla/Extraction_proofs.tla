--------------------------- MODULE Extraction_proofs ---------------------------
(***************************************************************************)
(* For any URLs, any bound on redirects and any limits: the guard against  *)
(* addresses of the internal network, the check of robots.txt, and what    *)
(* the rate limiters promise.                                              *)
(***************************************************************************)
EXTENDS Extraction, FiniteSetTheorems, WellFoundedInduction, TLAPS

-----------------------------------------------------------------------------
\* A step of a fetch that follows a check or starts at a URL has a fetch's type.
LEMMA AtTypes ==
    ASSUME NEW step \in Steps, NEW page \in Urls, NEW url \in Urls
    PROVE  /\ At(step, page, url) \in Tasks
           /\ At(step, page, url).step = step
  BY ExtractionAssumption DEF At, Tasks

\* A fetch that is under way knows its page and its URL.
LEMMA TaskShape ==
    ASSUME NEW t \in Tasks, t.step # "none"
    PROVE  /\ t.page \in Urls /\ t.url \in Urls /\ t.hops \in 0 .. MaxRedirects
           /\ t.step \in Steps
  BY DEF Tasks, Idle

\* What a failure leads to.
LEMMA GiveUpTypes ==
    ASSUME FetchTypeOK, task.step # "none"
    PROVE  /\ GiveUp \in Tasks
           /\ task.step \in RobotsSteps => GiveUp.step = "page"
           /\ task.step \notin RobotsSteps => GiveUp.step = "none"
<1>1. task.page \in Urls
  BY TaskShape DEF FetchTypeOK
<1>2. /\ At("page", task.page, task.page) \in Tasks
      /\ At("page", task.page, task.page).step = "page"
  BY <1>1, AtTypes DEF Steps
<1>3. Idle \in Tasks /\ Idle.step = "none"
  BY DEF Idle, Tasks
<1>. QED
  BY <1>2, <1>3 DEF GiveUp

-----------------------------------------------------------------------------
(***************************************************************************)
(* Before its first redirect, what is about to be asked for as the page    *)
(* has not been ruled out by a robots.txt that could be read.              *)
(***************************************************************************)
PageMayBeAsked ==
    task.step = "page" /\ task.hops = 0 => (task.url \in RuledOut => unread)

RobotsInv == PageMayBeAsked /\ RuledOutOnlyByRedirect

FetchInv == FetchTypeOK /\ OnlyPublicContacted /\ RobotsInv

\* Failing leaves the page alone, unless it is robots.txt that was not read.
LEMMA FailedKeeps ==
    ASSUME FetchTypeOK, Failed, task.step # "none"
    PROVE  /\ task' \in Tasks
           /\ unread' \in BOOLEAN
           /\ unread => unread'
           /\ PageMayBeAsked'
<1>1. task' = GiveUp /\ unread' = (unread \/ task.step \in RobotsSteps)
  BY DEF Failed
<1>2. task'.step = "page" => unread'
  BY <1>1, GiveUpTypes
<1>. QED
  BY <1>1, <1>2, GiveUpTypes DEF FetchTypeOK, PageMayBeAsked

\* Following a redirect does too.
LEMMA RedirectedKeeps ==
    ASSUME FetchTypeOK, Redirected, task.step # "none"
    PROVE  /\ task' \in Tasks
           /\ unread' \in BOOLEAN
           /\ unread => unread'
           /\ PageMayBeAsked'
<1>1. CASE Failed
  BY <1>1, FailedKeeps
<1>2. ASSUME task.hops < MaxRedirects, UNCHANGED unread,
             NEW u \in Urls, task' = [task EXCEPT !.url = u, !.hops = task.hops + 1]
      PROVE  /\ task' \in Tasks
             /\ unread' \in BOOLEAN
             /\ unread => unread'
             /\ PageMayBeAsked'
  <2>1. /\ task \in [step : Steps, page : Urls, url : Urls, hops : 0 .. MaxRedirects]
        /\ task.hops \in Nat
        /\ task.hops + 1 \in 0 .. MaxRedirects
    BY <1>2, TaskShape, ExtractionAssumption DEF FetchTypeOK, Tasks, Idle
  <2>2. task' \in Tasks /\ task'.hops = task.hops + 1
    BY <1>2, <2>1 DEF Tasks
  <2>. QED
    BY <1>2, <2>1, <2>2 DEF FetchTypeOK, PageMayBeAsked
<1>. QED
  BY <1>1, <1>2 DEF Redirected

\* What passes the check is a public address, in whichever form it is written.
LEMMA AcceptedIsPublic ==
    ASSUME NEW u, NEW found \in Lookups, Accepts(u, found), NEW a \in found
    PROVE  a \in Addresses /\ a.range = "public"
<1>1. a \in Addresses /\ ~Disallowed(a)
  BY DEF Accepts, Lookups
<1>2. CASE a.nat64
  <2>1. Unwrapped(a).range = a.range
    BY <1>1 DEF Unwrapped, Addresses
  <2>. QED
    BY <1>1, <1>2, <2>1 DEF Disallowed, Reserved, Addresses
<1>3. CASE ~a.nat64
  BY <1>1, <1>3 DEF Disallowed, Reserved, Addresses
<1>. QED
  BY <1>2, <1>3

\* FetchInv is inductive.
LEMMA FetchInvHolds == Spec => []FetchInv
<1>. USE ExtractionAssumption
<1>1. Init => FetchInv
  <2>1. Idle \in Tasks /\ Idle.step # "page"
    BY DEF Tasks, Idle
  <2>. QED
    BY <2>1 DEF Init, FetchInv, FetchTypeOK, OnlyPublicContacted, RobotsInv,
                PageMayBeAsked, RuledOutOnlyByRedirect
<1>2. FetchInv /\ [Next]_vars => FetchInv'
  <2>. SUFFICES ASSUME FetchInv, [Next]_vars PROVE FetchInv'
    OBVIOUS
  <2>. FetchTypeOK /\ OnlyPublicContacted /\ PageMayBeAsked /\ RuledOutOnlyByRedirect
    BY DEF FetchInv, RobotsInv
  <2>1. CASE UNCHANGED fetchVars
    BY <2>1 DEF fetchVars, FetchInv, FetchTypeOK, OnlyPublicContacted, RobotsInv,
                PageMayBeAsked, RuledOutOnlyByRedirect
  <2>2. ASSUME NEW c \in Clients, Admit(c) PROVE FetchInv'
    <3>1. /\ unread' = FALSE /\ asked' = {} /\ contacted' = {}
          /\ \/ \E u \in Urls : task' = At("checkPage", u, u)
             \/ \E u \in Urls : task' = At("checkImage", u, u)
             \/ task' = Idle
      BY <2>2 DEF Admit
    <3>2. task' \in Tasks /\ task'.step # "page"
      BY <3>1, AtTypes DEF Steps, Tasks, Idle
    <3>. QED
      BY <3>1, <3>2 DEF FetchInv, FetchTypeOK, OnlyPublicContacted, RobotsInv,
                        PageMayBeAsked, RuledOutOnlyByRedirect
  <2>3. ASSUME task' \in Tasks, unread' \in BOOLEAN, unread => unread', PageMayBeAsked',
               contacted' = contacted, asked' = asked
        PROVE  FetchInv'
    BY <2>3 DEF FetchInv, FetchTypeOK, OnlyPublicContacted, RobotsInv,
                RuledOutOnlyByRedirect
  <2>4. CASE AssertSafe
    <3>1. /\ task.step \in {"checkPage", "checkRobots", "checkImage"}
          /\ task.step # "none"
          /\ UNCHANGED <<contacted, asked>>
          /\ (task' = AfterCheck /\ UNCHANGED unread) \/ Failed
      BY <2>4 DEF AssertSafe
    <3>2. CASE Failed
      BY <2>3, <3>1, <3>2, FailedKeeps
    <3>3. CASE task' = AfterCheck /\ UNCHANGED unread
      <4>1. task.page \in Urls /\ task.url \in Urls
        BY <3>1, TaskShape DEF FetchTypeOK
      <4>2. AfterCheck \in Tasks /\ AfterCheck.step # "page"
        BY <3>1, <4>1, AtTypes DEF AfterCheck, Steps
      <4>. QED
        BY <2>3, <3>1, <3>3, <4>2 DEF FetchTypeOK, PageMayBeAsked
    <3>. QED
      BY <3>1, <3>2, <3>3
  <2>5. CASE Hop
    <3>1. /\ task.step \in {"robots", "page", "image"} /\ task.step # "none"
          /\ task.page \in Urls /\ task.url \in Urls /\ task.hops \in 0 .. MaxRedirects
      BY <2>5, TaskShape DEF Hop, FetchTypeOK
    <3>2. CASE Failed /\ UNCHANGED <<contacted, asked>>
      BY <2>3, <3>1, <3>2, FailedKeeps
    <3>3. ASSUME NEW found \in Lookups, Accepts(task.url, found),
                 NEW a \in found, contacted' = contacted \cup {a},
                 asked' = IF task.step = "page"
                          THEN asked \cup {[url |-> task.url,
                                            redirected |-> task.hops > 0]}
                          ELSE asked,
                 Answered
          PROVE  FetchInv'
      <4>1. contacted' \subseteq Addresses /\ OnlyPublicContacted'
        BY <3>3, AcceptedIsPublic DEF OnlyPublicContacted, FetchTypeOK
      <4>2. /\ task' \in Tasks /\ unread' \in BOOLEAN /\ (unread => unread')
            /\ PageMayBeAsked'
        <5>1. CASE Redirected \/ Failed
          BY <3>1, <5>1, RedirectedKeeps, FailedKeeps
        <5>2. CASE RobotsRead
          <6>1. At("page", task.page, task.page) \in Tasks
            BY <3>1, AtTypes DEF Steps
          <6>2. /\ At("page", task.page, task.page).url = task.page
                /\ Idle.step # "page" /\ Idle \in Tasks
            BY DEF At, Idle, Tasks
          <6>. QED
            BY <5>2, <6>1, <6>2 DEF RobotsRead, FetchTypeOK, PageMayBeAsked
        <5>3. CASE PageRead \/ ImageRead
          <6>1. /\ UNCHANGED unread
                /\ \/ task' = Idle
                   \/ \E u \in Urls : task' = At("checkImage", task.page, u)
            BY <5>3 DEF PageRead, ImageRead
          <6>2. task' \in Tasks /\ task'.step # "page"
            BY <3>1, <6>1, AtTypes DEF Steps, Idle, Tasks
          <6>. QED
            BY <6>1, <6>2 DEF FetchTypeOK, PageMayBeAsked
        <5>. QED
          BY <3>3, <5>1, <5>2, <5>3 DEF Answered
      <4>3. /\ asked' \subseteq [url : Urls, redirected : BOOLEAN]
            /\ RuledOutOnlyByRedirect'
        <5>. DEFINE request == [url |-> task.url, redirected |-> task.hops > 0]
        <5>1. /\ request \in [url : Urls, redirected : BOOLEAN]
              /\ request.url = task.url /\ request.redirected = (task.hops > 0)
          BY <3>1
        <5>2. task.step = "page" =>
                (request.url \in RuledOut => unread \/ request.redirected)
          <6>1. CASE task.hops = 0
            BY <5>1, <6>1 DEF PageMayBeAsked
          <6>2. CASE task.hops # 0
            <7>1. task.hops > 0
              BY <3>1, <6>2, ExtractionAssumption
            <7>. QED
              BY <5>1, <7>1
          <6>. QED
            BY <6>1, <6>2
        <5>3. asked' = IF task.step = "page" THEN asked \cup {request} ELSE asked
          BY <3>3
        <5>. HIDE DEF request
        <5>. QED
          BY <4>2, <5>1, <5>2, <5>3 DEF FetchTypeOK, RuledOutOnlyByRedirect
      <4>. QED
        BY <4>1, <4>2, <4>3 DEF FetchInv, FetchTypeOK, RobotsInv
    <3>. QED
      BY <2>5, <3>2, <3>3 DEF Hop, ConnectsTo
  <2>. QED
    BY <2>1, <2>2, <2>4, <2>5 DEF Next, Refuse, Pass, Fetch, vars
<1>. QED
  BY <1>1, <1>2, PTL DEF Spec

\* A fetch keeps its type, whatever the servers it asks answer.
LEMMA FetchTypeCorrect == Spec => []FetchTypeOK
<1>1. FetchInv => FetchTypeOK
  BY DEF FetchInv
<1>. QED
  BY <1>1, FetchInvHolds, PTL

\* No address of the internal network is ever connected to.
THEOREM OnlyPublicContactedHolds == Spec => []OnlyPublicContacted
<1>1. FetchInv => OnlyPublicContacted
  BY DEF FetchInv
<1>. QED
  BY <1>1, FetchInvHolds, PTL

\* What a robots.txt rules out is asked for as a page only behind a redirect,
\* or when the robots.txt of the page could not be read.
THEOREM RuledOutOnlyByRedirectHolds == Spec => []RuledOutOnlyByRedirect
<1>1. FetchInv => RuledOutOnlyByRedirect
  BY DEF FetchInv, RobotsInv
<1>. QED
  BY <1>1, FetchInvHolds, PTL

-----------------------------------------------------------------------------
(* The rate limiters *)

LEMMA LeastNatural ==
    ASSUME NEW T \in SUBSET Nat, T # {}
    PROVE  \E m \in T : \A n \in T : m <= n
<1>1. PICK m \in T : \A n \in T : ~(<<n, m>> \in OpToRel(<, Nat))
  BY NatLessThanWellFounded, WFMin
<1>2. \A n \in T : ~(n < m)
  BY <1>1 DEF OpToRel
<1>. QED
  BY <1>2

InOrder(s) == \A i, k \in 1 .. Len(s) : i <= k => s[i] <= s[k]

\* What the pruning drops is the hits from before the window, and nothing else.
LEMMA RecentShape ==
    ASSUME LimiterTypeOK, NEW c \in Clients, InOrder(hits[c])
    PROVE  \E n \in 0 .. Len(hits[c]) :
              /\ Recent(c) \in Seq(Nat)
              /\ Len(Recent(c)) = Len(hits[c]) - n
              /\ \A i \in 1 .. Len(Recent(c)) : Recent(c)[i] = hits[c][n + i]
              /\ \A i \in 1 .. Len(hits[c]) : i > n <=> now - hits[c][i] < Window
<1> DEFINE s == hits[c]
           T == {i \in 1 .. Len(s) + 1 : i = Len(s) + 1 \/ now - s[i] < Window}
           expired == {i \in DOMAIN s : now - s[i] >= Window}
<1>1. s \in Seq(Nat) /\ Len(s) \in Nat /\ now \in Nat /\ Window \in Nat
      /\ DOMAIN s = 1 .. Len(s)
      /\ \A i \in 1 .. Len(s) : s[i] \in Nat
  BY ParameterAssumption DEF LimiterTypeOK
<1>2. PICK m \in T : \A n \in T : m <= n
  <2>1. T \in SUBSET Nat /\ Len(s) + 1 \in T
    BY <1>1
  <2> HIDE DEF T
  <2>. QED
    BY <2>1, LeastNatural
<1>3. m \in 1 .. Len(s) + 1 /\ m - 1 \in 0 .. Len(s)
  BY <1>1, <1>2
<1>4. \A i \in 1 .. Len(s) : i > m - 1 <=> now - s[i] < Window
  <2> SUFFICES ASSUME NEW i \in 1 .. Len(s)
               PROVE  i > m - 1 <=> now - s[i] < Window
    OBVIOUS
  <2>1. ASSUME i > m - 1 PROVE now - s[i] < Window
    <3>1. m \in 1 .. Len(s) /\ now - s[m] < Window
      BY <1>1, <1>2, <1>3, <2>1
    <3>2. s[m] <= s[i]
      BY <1>1, <1>3, <2>1, <3>1 DEF InOrder
    <3>. QED
      BY <1>1, <3>1, <3>2
  <2>2. ASSUME now - s[i] < Window PROVE i > m - 1
    <3>1. i \in T
      BY <1>1, <2>2
    <3>. QED
      BY <1>2, <1>3, <3>1
  <2>. QED
    BY <2>1, <2>2
<1>5. Cardinality(expired) = m - 1
  <2>1. expired = 1 .. m - 1
    BY <1>1, <1>3, <1>4
  <2>2. Cardinality(1 .. m - 1) = m - 1
    BY <1>1, <1>3, FS_Interval
  <2>. QED
    BY <2>1, <2>2
<1>6. Recent(c) = SubSeq(s, m - 1 + 1, Len(s))
  BY <1>5 DEF Recent
<1> DEFINE n == m - 1
<1>7. n \in 0 .. Len(s) /\ Recent(c) = SubSeq(s, n + 1, Len(s))
  BY <1>3, <1>6
<1>8. \A i \in 1 .. Len(s) : i > n <=> now - s[i] < Window
  BY <1>4
<1> HIDE DEF n
<1>9. Recent(c) \in Seq(Nat)
  BY <1>1, <1>7
<1>10. /\ Len(Recent(c)) = Len(s) - n
       /\ \A i \in 1 .. Len(Recent(c)) : Recent(c)[i] = s[n + i]
  BY <1>1, <1>7
<1>. QED
  BY <1>7, <1>8, <1>9, <1>10

\* Whole seconds, one more than what is left: never too few.
LEMMA RoundedUp ==
    ASSUME NEW x \in Nat, NEW t \in Nat \ {0}
    PROVE  x \div t \in Nat /\ x <= t * (x \div t + 1) /\ t * (x \div t + 1) \in Nat
<1>1. x \div t \in Nat
  OBVIOUS
<1>2. x <= t * (x \div t) + t
  OBVIOUS
<1>. QED
  BY <1>1, <1>2

(***************************************************************************)
(* The hits of a client are the last of its grants, those before them have *)
(* left the window, any MaxRequests + 1 grants in a row span it, and after *)
(* a denial the oldest of MaxRequests hits leaves it by the time named.    *)
(***************************************************************************)
HitsAreLastGrants(c) ==
    LET older == Len(granted[c]) - Len(hits[c]) IN
    /\ older \in Nat
    /\ \A i \in 1 .. Len(hits[c]) : hits[c][i] = granted[c][older + i]
    /\ \A i \in 1 .. older : granted[c][i] + Window <= now

GrantsSpaced(c) ==
    /\ InOrder(granted[c])
    /\ \A i \in 1 .. Len(granted[c]) :
          /\ granted[c][i] <= now
          /\ i + MaxRequests <= Len(granted[c]) =>
                granted[c][i] + Window <= granted[c][i + MaxRequests]

ComeBackIsLate(c) ==
    comeBack[c] # 0 =>
        Len(hits[c]) = MaxRequests /\ hits[c][1] + Window <= comeBack[c]

ClientInv(c) == HitsAreLastGrants(c) /\ GrantsSpaced(c) /\ ComeBackIsLate(c)

LimiterInv == LimiterTypeOK /\ \A c \in Clients : ClientInv(c)

\* The invariant of a client, with the number of grants that were pruned named.
LEMMA ClientShape ==
    ASSUME LimiterInv, NEW c \in Clients
    PROVE  \E older \in Nat :
              /\ Len(granted[c]) = older + Len(hits[c])
              /\ \A i \in 1 .. Len(hits[c]) : hits[c][i] = granted[c][older + i]
              /\ \A i \in 1 .. older : granted[c][i] + Window <= now
<1> DEFINE older == Len(granted[c]) - Len(hits[c])
<1>1. HitsAreLastGrants(c) /\ hits[c] \in Seq(Nat) /\ granted[c] \in Seq(Nat)
  BY DEF LimiterInv, LimiterTypeOK, ClientInv
<1>2. /\ older \in Nat
      /\ \A i \in 1 .. Len(hits[c]) : hits[c][i] = granted[c][older + i]
      /\ \A i \in 1 .. older : granted[c][i] + Window <= now
  BY <1>1 DEF HitsAreLastGrants
<1>3. Len(granted[c]) = older + Len(hits[c])
  BY <1>1
<1> HIDE DEF older
<1>. QED
  BY <1>2, <1>3

\* What is needed of the invariant to prune.
LEMMA HitsInOrder ==
    ASSUME LimiterInv, NEW c \in Clients
    PROVE  /\ InOrder(hits[c])
           /\ \A i \in 1 .. Len(hits[c]) : hits[c][i] \in Nat /\ hits[c][i] <= now
<1>1. /\ hits[c] \in Seq(Nat) /\ granted[c] \in Seq(Nat) /\ GrantsSpaced(c)
  BY DEF LimiterInv, LimiterTypeOK, ClientInv
<1>2. PICK older \in Nat :
        /\ Len(granted[c]) = older + Len(hits[c])
        /\ \A i \in 1 .. Len(hits[c]) : hits[c][i] = granted[c][older + i]
  BY ClientShape
<1>3. \A i \in 1 .. Len(hits[c]) : older + i \in 1 .. Len(granted[c])
  BY <1>1, <1>2
<1>4. \A i \in 1 .. Len(hits[c]) : hits[c][i] \in Nat /\ hits[c][i] <= now
  <2> SUFFICES ASSUME NEW i \in 1 .. Len(hits[c])
               PROVE  hits[c][i] \in Nat /\ hits[c][i] <= now
    OBVIOUS
  <2>1. hits[c][i] = granted[c][older + i] /\ older + i \in 1 .. Len(granted[c])
    BY <1>2, <1>3
  <2>2. granted[c][older + i] \in Nat /\ granted[c][older + i] <= now
    BY <1>1, <2>1 DEF GrantsSpaced
  <2>. QED
    BY <2>1, <2>2
<1>5. ASSUME NEW i \in 1 .. Len(hits[c]), NEW k \in 1 .. Len(hits[c]), i <= k
      PROVE  hits[c][i] <= hits[c][k]
  <2>1. older + i <= older + k
    BY <1>1, <1>5
  <2>. QED
    BY <1>1, <1>2, <1>3, <1>5, <2>1 DEF GrantsSpaced, InOrder
<1>. QED
  BY <1>4, <1>5 DEF InOrder

LEMMA Appended ==
    ASSUME NEW s \in Seq(Nat), NEW x \in Nat
    PROVE  /\ Append(s, x) \in Seq(Nat)
           /\ Len(Append(s, x)) = Len(s) + 1
           /\ \A i \in 1 .. Len(s) : Append(s, x)[i] = s[i]
           /\ Append(s, x)[Len(s) + 1] = x
  OBVIOUS

LEMMA AllowKeepsInv ==
    ASSUME LimiterInv, NEW c \in Clients, Allow(c)
    PROVE  LimiterInv'
<1>. USE ParameterAssumption
<1> DEFINE r == Recent(c)
           h == hits[c]
           g == granted[c]
<1>1. /\ h \in Seq(Nat) /\ g \in Seq(Nat) /\ now \in Nat
      /\ Len(h) \in Nat /\ Len(g) \in Nat
      /\ GrantsSpaced(c)
  BY DEF LimiterInv, LimiterTypeOK, ClientInv
<1>2. PICK n \in 0 .. Len(h) :
        /\ r \in Seq(Nat)
        /\ Len(r) = Len(h) - n
        /\ \A i \in 1 .. Len(r) : r[i] = h[n + i]
        /\ \A i \in 1 .. Len(h) : i > n <=> now - h[i] < Window
  BY HitsInOrder, RecentShape DEF LimiterInv
<1>3. /\ hits' = [hits EXCEPT ![c] = Append(r, now)]
      /\ granted' = [granted EXCEPT ![c] = Append(g, now)]
      /\ comeBack' = [comeBack EXCEPT ![c] = 0]
      /\ now' = now /\ ~(Len(r) >= MaxRequests)
  BY DEF Allow, Full
<1>4. PICK older \in Nat :
        /\ Len(g) = older + Len(h)
        /\ \A i \in 1 .. Len(h) : h[i] = g[older + i]
        /\ \A i \in 1 .. older : g[i] + Window <= now
  BY ClientShape
<1> HIDE DEF r
<1> DEFINE h1 == Append(r, now)
           g1 == Append(g, now)
<1>5. /\ hits'[c] = h1 /\ granted'[c] = g1 /\ comeBack'[c] = 0
  BY <1>1, <1>3 DEF LimiterInv, LimiterTypeOK
<1>6. /\ h1 \in Seq(Nat) /\ g1 \in Seq(Nat)
      /\ Len(h1) = Len(r) + 1 /\ Len(g1) = Len(g) + 1
      /\ \A i \in 1 .. Len(g) : g1[i] = g[i]
      /\ g1[Len(g) + 1] = now
      /\ \A i \in 1 .. Len(r) : h1[i] = r[i]
      /\ h1[Len(r) + 1] = now
  <2>1. r \in Seq(Nat) /\ now \in Nat /\ g \in Seq(Nat)
    BY <1>1, <1>2
  <2> HIDE DEF g
  <2>. QED
    BY <2>1, Appended
<1>7. Len(r) + 1 <= MaxRequests /\ Len(r) \in Nat
  BY <1>2, <1>3
<1> HIDE DEF h1, g1
<1>8. LimiterTypeOK'
  <2>1. LimiterTypeOK
    BY DEF LimiterInv
  <2>2. hits' \in [Clients -> Seq(Nat)] /\ granted' \in [Clients -> Seq(Nat)]
        /\ comeBack' \in [Clients -> Nat] /\ now' \in Nat
    BY <1>3, <1>6, <2>1 DEF LimiterTypeOK, h1, g1
  <2>3. ASSUME NEW d \in Clients PROVE Len(hits'[d]) <= MaxRequests
    <3>1. CASE d = c
      BY <1>5, <1>6, <1>7, <3>1
    <3>2. CASE d # c
      BY <1>3, <2>1, <3>2 DEF LimiterTypeOK
    <3>. QED
      BY <3>1, <3>2
  <2>. QED
    BY <2>2, <2>3 DEF LimiterTypeOK
<1>9. ASSUME NEW d \in Clients, d # c PROVE ClientInv(d)'
  <2>1. /\ hits'[d] = hits[d] /\ granted'[d] = granted[d]
        /\ comeBack'[d] = comeBack[d] /\ now' = now
    BY <1>3, <1>9 DEF LimiterInv, LimiterTypeOK
  <2>2. ClientInv(d)
    BY DEF LimiterInv
  <2>. QED
    BY <2>1, <2>2
    DEF ClientInv, HitsAreLastGrants, GrantsSpaced, ComeBackIsLate, InOrder
<1>10. /\ \A i, k \in 1 .. Len(g) : i <= k => g[i] <= g[k]
       /\ \A i \in 1 .. Len(g) :
            /\ g[i] \in Nat /\ g[i] <= now
            /\ i + MaxRequests <= Len(g) => g[i] + Window <= g[i + MaxRequests]
  BY <1>1 DEF GrantsSpaced, InOrder
<1> HIDE DEF h, g
<1>11. \A i \in 1 .. older + n : g[i] + Window <= now
  <2> SUFFICES ASSUME NEW i \in 1 .. older + n, i > older PROVE g[i] + Window <= now
    BY <1>1, <1>2, <1>4
  <2>1. i - older \in 1 .. Len(h) /\ ~(i - older > n) /\ older + (i - older) = i
    BY <1>1, <1>2, <1>4
  <2>2. ~(now - h[i - older] < Window) /\ h[i - older] = g[i] /\ g[i] \in Nat
    <3>1. i \in 1 .. Len(g)
      BY <1>1, <1>2, <1>4
    <3>. QED
      BY <1>2, <1>4, <1>10, <2>1, <3>1
  <2>. QED
    BY <1>1, <2>2
<1>12. HitsAreLastGrants(c)'
  <2>1. Len(g1) - Len(h1) = older + n /\ older + n \in Nat
    BY <1>1, <1>2, <1>4, <1>6, <1>7
  <2>2. ASSUME NEW i \in 1 .. Len(r) + 1 PROVE h1[i] = g1[older + n + i]
    <3>1. CASE i = Len(r) + 1
      <4>1. older + n + i = Len(g) + 1
        BY <1>1, <1>2, <1>4, <3>1
      <4>. QED
        BY <1>6, <3>1, <4>1
    <3>2. CASE i # Len(r) + 1
      <4>1. /\ i \in 1 .. Len(r) /\ n + i \in 1 .. Len(h)
            /\ older + n + i \in 1 .. Len(g) /\ older + (n + i) = older + n + i
        <5>1. /\ Len(h) \in Nat /\ Len(r) \in Nat /\ Len(g) \in Nat /\ n \in Nat
              /\ Len(h) = Len(r) + n /\ Len(g) = older + Len(h)
          BY <1>1, <1>2, <1>4, <1>7
        <5>2. i \in Nat /\ 1 <= i /\ i <= Len(r)
          BY <1>7, <3>2
        <5>. QED
          BY <5>1, <5>2
      <4>. QED
        BY <1>2, <1>4, <1>6, <4>1
    <3>. QED
      BY <3>1, <3>2
  <2>3. ASSUME NEW i \in 1 .. older + n PROVE g1[i] + Window <= now
    <3>1. i \in 1 .. Len(g)
      BY <1>1, <1>2, <1>4
    <3>. QED
      BY <1>6, <1>11, <3>1
  <2>4. hits'[c] = h1 /\ granted'[c] = g1 /\ now' = now /\ Len(h1) = Len(r) + 1
    BY <1>3, <1>5, <1>6
  <2>. QED
    BY <2>1, <2>2, <2>3, <2>4 DEF HitsAreLastGrants
<1>13. GrantsSpaced(c)'
  <2>1. ASSUME NEW i \in 1 .. Len(g) + 1 PROVE g1[i] <= now /\ g1[i] \in Nat
    <3>1. CASE i \in 1 .. Len(g)
      BY <1>6, <1>10, <3>1
    <3>2. CASE i = Len(g) + 1
      BY <1>1, <1>6, <3>2
    <3>. QED
      BY <1>1, <3>1, <3>2
  <2>2. ASSUME NEW i \in 1 .. Len(g) + 1, NEW k \in 1 .. Len(g) + 1, i <= k
        PROVE  g1[i] <= g1[k]
    <3>1. CASE k \in 1 .. Len(g)
      <4>1. i \in 1 .. Len(g)
        BY <1>1, <2>2, <3>1
      <4>. QED
        BY <1>6, <1>10, <2>2, <3>1, <4>1
    <3>2. CASE k = Len(g) + 1
      BY <1>6, <2>1, <3>2
    <3>. QED
      BY <1>1, <3>1, <3>2
  <2>3. ASSUME NEW i \in 1 .. Len(g) + 1, i + MaxRequests <= Len(g) + 1
        PROVE  g1[i] + Window <= g1[i + MaxRequests]
    <3>1. i \in 1 .. Len(g)
      BY <1>1, <2>3
    <3>2. CASE i + MaxRequests <= Len(g)
      <4>1. i + MaxRequests \in 1 .. Len(g)
        BY <1>1, <3>1, <3>2
      <4>. QED
        BY <1>6, <1>10, <3>1, <3>2, <4>1
    <3>3. CASE i + MaxRequests = Len(g) + 1
      <4>1. i \in 1 .. older + n
        BY <1>1, <1>2, <1>4, <1>7, <3>1, <3>3
      <4>. QED
        BY <1>6, <1>11, <3>1, <3>3, <4>1
    <3>. QED
      BY <1>1, <2>3, <3>1, <3>2, <3>3
  <2>. QED
    BY <1>3, <1>5, <1>6, <2>1, <2>2, <2>3 DEF GrantsSpaced, InOrder
<1>14. ComeBackIsLate(c)'
  BY <1>5 DEF ComeBackIsLate
<1>. QED
  BY <1>8, <1>9, <1>12, <1>13, <1>14 DEF LimiterInv, ClientInv

LEMMA DenyKeepsInv ==
    ASSUME LimiterInv, NEW c \in Clients, Deny(c)
    PROVE  LimiterInv'
<1>. USE ParameterAssumption
<1> DEFINE r == Recent(c)
           h == hits[c]
           g == granted[c]
<1>1. /\ h \in Seq(Nat) /\ g \in Seq(Nat) /\ now \in Nat
      /\ Len(h) \in Nat /\ Len(g) \in Nat /\ Len(h) <= MaxRequests
      /\ GrantsSpaced(c)
  BY DEF LimiterInv, LimiterTypeOK, ClientInv
<1>2. PICK n \in 0 .. Len(h) :
        /\ r \in Seq(Nat)
        /\ Len(r) = Len(h) - n
        /\ \A i \in 1 .. Len(r) : r[i] = h[n + i]
        /\ \A i \in 1 .. Len(h) : i > n <=> now - h[i] < Window
  BY HitsInOrder, RecentShape DEF LimiterInv
<1>3. /\ hits' = [hits EXCEPT ![c] = r]
      /\ comeBack' = [comeBack EXCEPT ![c] = now + TicksPerSecond * RetryAfter(r)]
      /\ granted' = granted /\ now' = now /\ Len(r) >= MaxRequests
  BY DEF Deny, Full
<1>4. PICK older \in Nat :
        /\ Len(g) = older + Len(h)
        /\ \A i \in 1 .. Len(h) : h[i] = g[older + i]
        /\ \A i \in 1 .. older : g[i] + Window <= now
  BY ClientShape
<1>5. \A i \in 1 .. Len(h) : h[i] \in Nat /\ h[i] <= now
  BY HitsInOrder
<1> HIDE DEF r, h, g
<1>6. Len(r) = MaxRequests /\ Len(h) = MaxRequests /\ n = 0
  BY <1>1, <1>2, <1>3
<1>7. \A i \in 1 .. MaxRequests : r[i] = h[i]
  <2>1. \A i \in 1 .. MaxRequests : 0 + i = i
    OBVIOUS
  <2>. QED
    BY <1>2, <1>6, <2>1
<1> DEFINE back == now + TicksPerSecond * RetryAfter(r)
<1>8. back \in Nat /\ r[1] + Window <= back
  <2> DEFINE x == Window - (now - r[1])
             d == x \div TicksPerSecond
             w == TicksPerSecond * (d + 1)
  <2>1. r[1] = h[1] /\ h[1] \in Nat /\ h[1] <= now /\ now - h[1] < Window
    BY <1>2, <1>5, <1>6, <1>7
  <2>2. x \in Nat /\ r[1] + Window = now + x
    BY <1>1, <2>1
  <2>3. RetryAfter(r) = d + 1
    BY DEF RetryAfter, Oldest
  <2>4. w \in Nat /\ x <= w
    <3> HIDE DEF x
    <3>. QED
      BY <2>2, RoundedUp
  <2>5. back = now + w
    BY <2>3
  <2> HIDE DEF x, w, back
  <2>. QED
    BY <1>1, <2>2, <2>4, <2>5
<1> HIDE DEF back
<1>9. hits'[c] = r /\ comeBack'[c] = back /\ granted'[c] = g
  BY <1>3 DEF LimiterInv, LimiterTypeOK, back, g
<1>10. LimiterTypeOK'
  <2>1. LimiterTypeOK
    BY DEF LimiterInv
  <2>2. hits' \in [Clients -> Seq(Nat)] /\ granted' \in [Clients -> Seq(Nat)]
        /\ comeBack' \in [Clients -> Nat] /\ now' \in Nat
    BY <1>2, <1>3, <1>8, <2>1 DEF LimiterTypeOK, back
  <2>3. ASSUME NEW d \in Clients PROVE Len(hits'[d]) <= MaxRequests
    <3>1. CASE d = c
      BY <1>6, <1>9, <3>1
    <3>2. CASE d # c
      BY <1>3, <2>1, <3>2 DEF LimiterTypeOK
    <3>. QED
      BY <3>1, <3>2
  <2>. QED
    BY <2>2, <2>3 DEF LimiterTypeOK
<1>11. ASSUME NEW d \in Clients, d # c PROVE ClientInv(d)'
  <2>1. /\ hits'[d] = hits[d] /\ granted'[d] = granted[d]
        /\ comeBack'[d] = comeBack[d] /\ now' = now
    BY <1>3, <1>11 DEF LimiterInv, LimiterTypeOK
  <2>2. ClientInv(d)
    BY DEF LimiterInv
  <2>. QED
    BY <2>1, <2>2
    DEF ClientInv, HitsAreLastGrants, GrantsSpaced, ComeBackIsLate, InOrder
<1>12. HitsAreLastGrants(c)'
  <2>1. Len(g) - Len(r) = older
    BY <1>1, <1>4, <1>6
  <2>2. \A i \in 1 .. Len(r) : r[i] = g[older + i]
    BY <1>4, <1>6, <1>7
  <2>. QED
    BY <1>3, <1>4, <1>9, <2>1, <2>2 DEF HitsAreLastGrants
<1>13. GrantsSpaced(c)'
  BY <1>1, <1>3 DEF GrantsSpaced, InOrder
<1>14. ComeBackIsLate(c)'
  BY <1>6, <1>8, <1>9 DEF ComeBackIsLate
<1>. QED
  BY <1>10, <1>11, <1>12, <1>13, <1>14 DEF LimiterInv, ClientInv

LEMMA TickKeepsInv ==
    ASSUME LimiterInv, Tick
    PROVE  LimiterInv'
<1>1. /\ LimiterTypeOK /\ now \in Nat /\ now' = now + 1
      /\ hits' = hits /\ granted' = granted /\ comeBack' = comeBack
  BY DEF LimiterInv, LimiterTypeOK, Tick
<1>2. LimiterTypeOK'
  BY <1>1 DEF LimiterTypeOK
<1>3. ASSUME NEW c \in Clients PROVE ClientInv(c)'
  <2>1. HitsAreLastGrants(c) /\ GrantsSpaced(c) /\ ComeBackIsLate(c)
    BY DEF LimiterInv, ClientInv
  <2>2. \A i \in 1 .. Len(granted[c]) : granted[c][i] \in Nat
    BY <1>1 DEF LimiterTypeOK
  <2>3. HitsAreLastGrants(c)'
    <3>1. PICK older \in Nat :
            /\ Len(granted[c]) = older + Len(hits[c])
            /\ \A i \in 1 .. Len(hits[c]) : hits[c][i] = granted[c][older + i]
            /\ \A i \in 1 .. older : granted[c][i] + Window <= now
      BY ClientShape
    <3>2. Len(hits[c]) \in Nat /\ Len(granted[c]) \in Nat
      BY <1>1 DEF LimiterTypeOK
    <3>3. Len(granted[c]) - Len(hits[c]) = older
      BY <3>1, <3>2
    <3>4. \A i \in 1 .. older : granted[c][i] + Window <= now + 1
      <4> SUFFICES ASSUME NEW i \in 1 .. older PROVE granted[c][i] + Window <= now + 1
        OBVIOUS
      <4>1. i \in 1 .. Len(granted[c])
        BY <3>1, <3>2
      <4>. QED
        BY <1>1, <2>2, <3>1, <4>1, ParameterAssumption
    <3>. QED
      BY <1>1, <3>1, <3>3, <3>4 DEF HitsAreLastGrants
  <2>4. GrantsSpaced(c)'
    BY <1>1, <2>1, <2>2 DEF GrantsSpaced, InOrder
  <2>5. ComeBackIsLate(c)'
    BY <1>1, <2>1 DEF ComeBackIsLate
  <2>. QED
    BY <2>3, <2>4, <2>5 DEF ClientInv
<1>. QED
  BY <1>2, <1>3 DEF LimiterInv

\* LimiterInv is inductive.
LEMMA LimiterInvHolds == Spec => []LimiterInv
<1>1. Init => LimiterInv
  BY ParameterAssumption
     DEF Init, LimiterInit, LimiterInv, LimiterTypeOK, ClientInv,
         HitsAreLastGrants, GrantsSpaced, ComeBackIsLate, InOrder
<1>2. LimiterInv /\ [Next]_vars => LimiterInv'
  <2>. SUFFICES ASSUME LimiterInv, [Next]_vars PROVE LimiterInv'
    OBVIOUS
  <2>1. ASSUME NEW c \in Clients, Admit(c) PROVE LimiterInv'
    BY <2>1, AllowKeepsInv DEF Admit
  <2>2. ASSUME NEW c \in Clients, Refuse(c) PROVE LimiterInv'
    BY <2>2, DenyKeepsInv DEF Refuse
  <2>3. CASE Pass
    BY <2>3, TickKeepsInv DEF Pass
  <2>4. CASE UNCHANGED limiterVars
    BY <2>4 DEF limiterVars, LimiterInv, LimiterTypeOK, ClientInv,
         HitsAreLastGrants, GrantsSpaced, ComeBackIsLate, InOrder
  <2>. QED
    BY <2>1, <2>2, <2>3, <2>4 DEF Next, Fetch, AssertSafe, Hop, vars
<1>. QED
  BY <1>1, <1>2, PTL DEF Spec

\* The limiter's part of the types, with at most MaxRequests hits a client.
THEOREM TypeCorrect == Spec => []TypeOK
<1>1. LimiterInv /\ FetchTypeOK => TypeOK
  BY DEF LimiterInv, TypeOK
<1>. QED
  BY <1>1, LimiterInvHolds, FetchTypeCorrect, PTL

\* No window of any length in ticks sees more than MaxRequests grants of a
\* client, wherever it starts.
THEOREM WindowBoundHolds == Spec => []WindowBound
<1>1. ASSUME LimiterInv PROVE WindowBound
  <2>. SUFFICES ASSUME NEW c \in Clients, NEW start \in 0 .. now
                PROVE  Cardinality({i \in DOMAIN granted[c] :
                          granted[c][i] >= start /\ granted[c][i] - start < Window})
                         <= MaxRequests
    BY DEF WindowBound
  <2> DEFINE g == granted[c]
             S == {i \in DOMAIN g : g[i] >= start /\ g[i] - start < Window}
  <2>1. /\ g \in Seq(Nat) /\ Len(g) \in Nat /\ DOMAIN g = 1 .. Len(g) /\ now \in Nat
        /\ \A i \in 1 .. Len(g) : g[i] \in Nat
        /\ start \in Nat
    BY <1>1 DEF LimiterInv, LimiterTypeOK
  <2>2. /\ \A i, k \in 1 .. Len(g) : i <= k => g[i] <= g[k]
        /\ \A i \in 1 .. Len(g) :
              i + MaxRequests <= Len(g) => g[i] + Window <= g[i + MaxRequests]
    BY <1>1 DEF LimiterInv, ClientInv, GrantsSpaced, InOrder
  <2>3. MaxRequests \in Nat \ {0} /\ Window \in Nat
    BY ParameterAssumption
  <2> HIDE DEF g
  <2>4. CASE S = {}
    <3>1. Cardinality(S) = 0
      BY <2>4, FS_EmptySet
    <3>. QED
      BY <2>3, <3>1 DEF g
  <2>5. CASE S # {}
    <3>1. S \in SUBSET Nat
      BY <2>1
    <3>2. PICK m \in S : \A n \in S : m <= n
      <4> HIDE DEF S
      <4>. QED
        BY <2>5, <3>1, LeastNatural
    <3>3. m \in 1 .. Len(g) /\ g[m] >= start
      BY <2>1, <3>2
    <3>4. ASSUME NEW i \in S PROVE i \in m .. m + MaxRequests - 1
      <4>1. i \in 1 .. Len(g) /\ m <= i /\ g[i] - start < Window
        BY <2>1, <3>2
      <4>2. ASSUME i >= m + MaxRequests PROVE FALSE
        <5>1. m + MaxRequests \in 1 .. Len(g)
          BY <2>1, <2>3, <3>3, <4>1, <4>2
        <5>2. g[m] + Window <= g[m + MaxRequests] /\ g[m + MaxRequests] <= g[i]
          BY <2>1, <2>2, <2>3, <3>3, <4>1, <4>2, <5>1
        <5>3. g[m] \in Nat /\ g[i] \in Nat /\ g[m + MaxRequests] \in Nat
          BY <2>1, <3>3, <4>1, <5>1
        <5>. QED
          BY <2>1, <2>3, <3>3, <4>1, <5>2, <5>3
      <4>. QED
        BY <2>1, <2>3, <3>3, <4>1, <4>2
    <3>5. /\ IsFiniteSet(m .. m + MaxRequests - 1)
          /\ Cardinality(m .. m + MaxRequests - 1) = MaxRequests
      <4> DEFINE last == m + MaxRequests - 1
      <4>1. m \in Int /\ last \in Int /\ ~(m > last) /\ last - m + 1 = MaxRequests
        BY <2>1, <2>3, <3>3
      <4> HIDE DEF last, S
      <4>2. IsFiniteSet(m .. last) /\ Cardinality(m .. last) = MaxRequests
        BY <4>1, FS_Interval
      <4>. QED
        BY <4>2 DEF last
    <3>6. Cardinality(S) <= Cardinality(m .. m + MaxRequests - 1)
      <4> HIDE DEF S
      <4>. QED
        BY <3>4, <3>5, FS_Subset
    <3>. QED
      BY <3>5, <3>6 DEF g
  <2>. QED
    BY <2>4, <2>5
<1>. QED
  BY <1>1, LimiterInvHolds, PTL

\* Whoever comes back after the seconds it was told is allowed, at any number
\* of ticks to the second.
THEOREM RetryAfterSufficesHolds == Spec => []RetryAfterSuffices
<1>1. ASSUME LimiterInv PROVE RetryAfterSuffices
  <2>. SUFFICES ASSUME NEW c \in Clients, comeBack[c] # 0, now >= comeBack[c]
                PROVE  ~Full(Recent(c))
    BY DEF RetryAfterSuffices
  <2>. USE ParameterAssumption
  <2>1. /\ hits[c] \in Seq(Nat) /\ now \in Nat /\ comeBack[c] \in Nat
        /\ Len(hits[c]) = MaxRequests /\ hits[c][1] + Window <= comeBack[c]
    BY <1>1 DEF LimiterInv, LimiterTypeOK, ClientInv, ComeBackIsLate
  <2>2. PICK n \in 0 .. Len(hits[c]) :
          /\ Len(Recent(c)) = Len(hits[c]) - n
          /\ \A i \in 1 .. Len(hits[c]) : i > n <=> now - hits[c][i] < Window
    BY <1>1, HitsInOrder, RecentShape DEF LimiterInv
  <2>3. 1 \in 1 .. Len(hits[c]) /\ hits[c][1] \in Nat
    BY <2>1
  <2>4. ~(now - hits[c][1] < Window)
    BY <2>1, <2>3
  <2>5. n >= 1
    BY <2>2, <2>3, <2>4
  <2>. QED
    BY <2>1, <2>2, <2>5 DEF Full
<1>. QED
  BY <1>1, LimiterInvHolds, PTL

\* Whoever is denied has had MaxRequests grants in the last Window ticks.
THEOREM NeverRefusedEarlyHolds == Spec => []NeverRefusedEarly
<1>1. ASSUME LimiterInv PROVE NeverRefusedEarly
  <2>. SUFFICES ASSUME NEW c \in Clients, Full(Recent(c))
                PROVE  MaxRequests <= Cardinality({i \in DOMAIN granted[c] :
                                                     now - granted[c][i] < Window})
    BY DEF NeverRefusedEarly
  <2>. USE ParameterAssumption
  <2>. DEFINE g == granted[c]
              h == hits[c]
              S == {i \in DOMAIN g : now - g[i] < Window}
  <2>1. /\ g \in Seq(Nat) /\ Len(g) \in Nat /\ DOMAIN g = 1 .. Len(g)
        /\ h \in Seq(Nat) /\ Len(h) \in Nat
    BY <1>1 DEF LimiterInv, LimiterTypeOK
  <2>2. PICK n \in 0 .. Len(h) :
          /\ Len(Recent(c)) = Len(h) - n
          /\ \A i \in 1 .. Len(h) : i > n <=> now - h[i] < Window
    BY <1>1, HitsInOrder, RecentShape DEF LimiterInv
  <2>3. PICK older \in Nat :
          /\ Len(g) = older + Len(h)
          /\ \A i \in 1 .. Len(h) : h[i] = g[older + i]
    BY <1>1, ClientShape
  <2>. HIDE DEF g, h
  <2>4. MaxRequests <= Len(h) - n
    BY <2>2 DEF Full
  <2>. DEFINE first == older + n + 1
  <2>5. first .. Len(g) \subseteq S
    <3>. SUFFICES ASSUME NEW i \in first .. Len(g) PROVE i \in S
      OBVIOUS
    <3>1. i - older \in 1 .. Len(h) /\ i - older > n /\ older + (i - older) = i
      BY <2>1, <2>2, <2>3
    <3>2. h[i - older] = g[i] /\ now - h[i - older] < Window
      BY <2>2, <2>3, <3>1
    <3>3. i \in DOMAIN g
      BY <2>1, <2>2, <2>3
    <3>. QED
      BY <3>2, <3>3
  <2>6. /\ first \in Int /\ Len(g) \in Int /\ ~(first > Len(g))
        /\ Len(g) - first + 1 = Len(h) - n
    BY <2>1, <2>2, <2>3, <2>4
  <2>7. /\ IsFiniteSet(S) /\ Cardinality(S) \in Nat
    <3>1. IsFiniteSet(1 .. Len(g)) /\ S \subseteq 1 .. Len(g)
      BY <2>1, FS_Interval
    <3>. HIDE DEF S
    <3>. QED
      BY <3>1, FS_Subset, FS_CardinalityType
  <2>. HIDE DEF first, S
  <2>8. Cardinality(first .. Len(g)) = Len(h) - n
    BY <2>6, FS_Interval
  <2>9. Cardinality(first .. Len(g)) <= Cardinality(S)
    BY <2>5, <2>7, FS_Subset
  <2>10. MaxRequests <= Cardinality(S)
    BY <2>1, <2>2, <2>4, <2>7, <2>8, <2>9
  <2>. QED
    BY <2>10 DEF S, g
<1>. QED
  BY <1>1, LimiterInvHolds, PTL

-----------------------------------------------------------------------------
(* Why a fetch is bounded *)

\* What is left of a fetch that begins its next step.
LEMMA StepsLeftAt ==
    ASSUME NEW step \in Steps, NEW page \in Urls, NEW url \in Urls
    PROVE  StepsLeft(At(step, page, url)) = (Stage[step] + 1) * (MaxRedirects + 1)
<1>1. At(step, page, url) # Idle
  <2>1. At(step, page, url).step # Idle.step
    BY DEF At, Idle, Steps
  <2>. QED
    BY <2>1
<1>2. At(step, page, url).step = step /\ At(step, page, url).hops = 0
  BY DEF At
<1>3. Stage[step] \in Nat
  BY DEF Stage, Steps
<1>4. Stage[step] * (MaxRedirects + 1) + (MaxRedirects - 0) + 1
        = (Stage[step] + 1) * (MaxRedirects + 1)
  BY <1>3, ExtractionAssumption
<1>. QED
  BY <1>1, <1>2, <1>4 DEF StepsLeft

\* A fetch under way has at least what its stage leaves, and one step, to go.
LEMMA StepsLeftUnderWay ==
    ASSUME FetchTypeOK, task.step # "none"
    PROVE  /\ StepsLeft(task) \in Nat
           /\ StepsLeft(task) >= Stage[task.step] * (MaxRedirects + 1) + 1
           /\ StepsLeft(task) <= (Stage[task.step] + 1) * (MaxRedirects + 1)
<1>1. task # Idle /\ task.step \in Steps /\ task.hops \in 0 .. MaxRedirects
  BY TaskShape DEF FetchTypeOK, Idle
<1>2. Stage[task.step] \in Nat
  BY <1>1 DEF Stage, Steps
<1>3. MaxRedirects \in Nat
  BY ExtractionAssumption
<1>4. \A x \in Nat : /\ x * (MaxRedirects + 1) \in Nat
                     /\ (x + 1) * (MaxRedirects + 1)
                          = x * (MaxRedirects + 1) + MaxRedirects + 1
  BY <1>3
<1>. QED
  BY <1>1, <1>2, <1>3, <1>4 DEF StepsLeft

\* Giving up is progress.
LEMMA GiveUpIsProgress ==
    ASSUME FetchTypeOK, task.step # "none"
    PROVE  StepsLeft(GiveUp) < StepsLeft(task)
<1>1. task.page \in Urls /\ task.step \in Steps
  BY TaskShape DEF FetchTypeOK
<1>2. CASE task.step \in RobotsSteps
  <2>1. StepsLeft(GiveUp) = 3 * (MaxRedirects + 1)
    BY <1>1, <1>2, StepsLeftAt DEF GiveUp, Steps, Stage
  <2>2. Stage[task.step] \in {3, 4}
    BY <1>2 DEF Stage, RobotsSteps
  <2>. QED
    BY <2>1, <2>2, StepsLeftUnderWay, ExtractionAssumption
<1>3. CASE task.step \notin RobotsSteps
  <2>1. StepsLeft(GiveUp) = 0
    BY <1>3 DEF GiveUp, StepsLeft
  <2>2. Stage[task.step] \in Nat
    BY <1>1 DEF Stage, Steps
  <2>3. Stage[task.step] * (MaxRedirects + 1) \in Nat
    BY <2>2, ExtractionAssumption
  <2>. QED
    BY <2>1, <2>3, StepsLeftUnderWay
<1>. QED
  BY <1>2, <1>3

(***************************************************************************)
(* Every step of a fetch leaves it fewer to go than it found, whatever the *)
(* servers answer, and it never has more than 6 * (MaxRedirects + 1) to    *)
(* go: so many lookups and requests at most.  Nothing is said of the time  *)
(* one of them takes.                                                      *)
(***************************************************************************)
THEOREM FetchBoundedHolds ==
    Spec => /\ FetchBounded
            /\ [](StepsLeft(task) \in 0 .. 6 * (MaxRedirects + 1))
<1>1. ASSUME FetchTypeOK, FetchTypeOK', Fetch
      PROVE  StepsLeft(task') < StepsLeft(task)
  <2>. USE ExtractionAssumption
  <2>1. task.step # "none" /\ task.step \in Steps /\ task.page \in Urls /\ task.url \in Urls
    <3>1. task.step \in Steps
      BY <1>1 DEF Fetch, AssertSafe, Hop, Steps
    <3>. QED
      BY <1>1, <3>1, TaskShape DEF FetchTypeOK, Steps
  <2>2. /\ StepsLeft(task) \in Nat
        /\ StepsLeft(task) >= Stage[task.step] * (MaxRedirects + 1) + 1
    BY <1>1, <2>1, StepsLeftUnderWay
  <2>3. CASE task' = GiveUp
    BY <1>1, <2>1, <2>3, GiveUpIsProgress
  <2>4. ASSUME NEW step \in Steps, Stage[step] + 1 <= Stage[task.step],
               NEW url \in Urls, task' = At(step, task.page, url)
        PROVE  StepsLeft(task') < StepsLeft(task)
    <3>1. StepsLeft(task') = (Stage[step] + 1) * (MaxRedirects + 1)
      BY <2>1, <2>4, StepsLeftAt
    <3>2. Stage[step] \in 0 .. 5 /\ Stage[task.step] \in 0 .. 5
      BY <2>1 DEF Stage, Steps
    <3>3. (Stage[step] + 1) * (MaxRedirects + 1) <= Stage[task.step] * (MaxRedirects + 1)
      BY <2>4, <3>2
    <3>4. /\ (Stage[step] + 1) * (MaxRedirects + 1) \in Nat
          /\ Stage[task.step] * (MaxRedirects + 1) \in Nat
      BY <3>2
    <3>. QED
      BY <2>2, <3>1, <3>3, <3>4
  <2>5. CASE task' = Idle
    <3>1. Stage[task.step] * (MaxRedirects + 1) \in Nat /\ StepsLeft(task') = 0
      BY <2>1, <2>5 DEF Stage, Steps, StepsLeft
    <3>. QED
      BY <2>2, <3>1
  <2>6. CASE AssertSafe
    <3>1. /\ task.step \in {"checkPage", "checkRobots", "checkImage"}
          /\ task' \in {AfterCheck, GiveUp}
      BY <2>6 DEF AssertSafe, Failed
    <3>2. CASE task' = AfterCheck
      <4>1. CASE task.step = "checkPage"
        <5>1. task' = At("checkRobots", task.page, task.page)
          BY <3>2, <4>1 DEF AfterCheck
        <5>. QED
          BY <2>1, <2>4, <4>1, <5>1 DEF Stage, Steps
      <4>2. CASE task.step = "checkRobots"
        <5>1. task' = At("robots", task.page, task.page)
          BY <3>2, <4>2 DEF AfterCheck
        <5>. QED
          BY <2>1, <2>4, <4>2, <5>1 DEF Stage, Steps
      <4>3. CASE task.step = "checkImage"
        <5>1. task' = At("image", task.page, task.url)
          BY <3>2, <4>3 DEF AfterCheck
        <5>. QED
          BY <2>1, <2>4, <4>3, <5>1 DEF Stage, Steps
      <4>. QED
        BY <3>1, <4>1, <4>2, <4>3
    <3>. QED
      BY <2>3, <3>1, <3>2
  <2>7. CASE Hop
    <3>1. \/ task' = GiveUp
          \/ (Redirected /\ ~Failed) \/ RobotsRead \/ PageRead \/ ImageRead
      BY <2>7 DEF Hop, Answered, Failed
    <3>2. CASE Redirected /\ ~Failed
      <4>1. PICK u \in Urls : /\ task.hops < MaxRedirects
                              /\ task' = [task EXCEPT !.url = u, !.hops = task.hops + 1]
        BY <3>2 DEF Redirected
      <4>2. /\ task \in [step : Steps, page : Urls, url : Urls, hops : 0 .. MaxRedirects]
            /\ task # Idle
        BY <1>1, <2>1 DEF FetchTypeOK, Tasks, Idle
      <4>3. task'.step = task.step /\ task'.hops = task.hops + 1 /\ task' # Idle
        <5>1. task'.step = task.step /\ task'.hops = task.hops + 1
          BY <4>1, <4>2
        <5>. QED
          BY <2>1, <5>1 DEF Idle
      <4>4. Stage[task.step] * (MaxRedirects + 1) \in Nat /\ task.hops \in Nat
        BY <2>1, <4>2 DEF Stage, Steps
      <4>. QED
        BY <4>1, <4>2, <4>3, <4>4 DEF StepsLeft
    <3>3. CASE RobotsRead
      <4>1. CASE task' = At("page", task.page, task.page)
        BY <2>1, <2>4, <3>3, <4>1 DEF RobotsRead, Stage, Steps
      <4>. QED
        BY <2>5, <3>3, <4>1 DEF RobotsRead
    <3>4. CASE PageRead
      <4>1. ASSUME NEW u \in Urls, task' = At("checkImage", task.page, u)
            PROVE  StepsLeft(task') < StepsLeft(task)
        BY <2>1, <2>4, <3>4, <4>1 DEF PageRead, Stage, Steps
      <4>. QED
        BY <2>5, <3>4, <4>1 DEF PageRead
    <3>5. CASE ImageRead
      BY <2>5, <3>5 DEF ImageRead
    <3>. QED
      BY <2>3, <3>1, <3>2, <3>3, <3>4, <3>5
  <2>. QED
    BY <1>1, <2>6, <2>7 DEF Fetch
<1>2. FetchTypeOK => StepsLeft(task) \in 0 .. 6 * (MaxRedirects + 1)
  <2>. SUFFICES ASSUME FetchTypeOK
                PROVE  StepsLeft(task) \in 0 .. 6 * (MaxRedirects + 1)
    OBVIOUS
  <2>. USE ExtractionAssumption
  <2>1. CASE task = Idle
    BY <2>1 DEF StepsLeft
  <2>2. CASE task # Idle
    <3>1. task.step \in Steps /\ task.step # "none"
      BY <2>2 DEF FetchTypeOK, Tasks, Steps
    <3>2. Stage[task.step] \in 0 .. 5
      BY <3>1 DEF Stage, Steps
    <3>3. \A x \in 0 .. 5 : (x + 1) * (MaxRedirects + 1) <= 6 * (MaxRedirects + 1)
      OBVIOUS
    <3>. QED
      BY <3>1, <3>2, <3>3, StepsLeftUnderWay
  <2>. QED
    BY <2>1, <2>2
<1>3. FetchTypeOK /\ FetchTypeOK' => [Fetch => StepsLeft(task') < StepsLeft(task)]_vars
  BY <1>1
<1>. QED
  BY <1>2, <1>3, FetchTypeCorrect, PTL DEF FetchBounded

=============================================================================
