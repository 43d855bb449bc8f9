----------------------------- MODULE Extraction -----------------------------
(***************************************************************************)
(* The three extraction routes: an image is uploaded, or found on the page *)
(* of a URL, or fetched from a URL.  Each route has a rate limiter.  The   *)
(* handlers are coroutines that fetch without awaiting: while one fetches, *)
(* the event loop serves nobody else, but time passes.                     *)
(*                                                                         *)
(* A fetch follows redirects itself.  Every lookup of a host may have a    *)
(* different answer, so each hop looks up, checks what it finds, and       *)
(* connects to the very address it has checked.                            *)
(***************************************************************************)
EXTENDS RateLimiter

CONSTANTS
    PageClients,    \* keys of the limiter of extract-product-url
    ImageClients,   \* keys of the limiter of extract-image-url
    UploadClients,  \* keys of the limiter of extract-product-image
    Urls,
    Unsupported,    \* those refused unseen: the scheme, no host, localhost
    RuledOut,       \* those the robots.txt of their site rules out
    MaxRedirects    \* _MAX_REDIRECTS

ASSUME ExtractionAssumption ==
    /\ PageClients \cup ImageClients \cup UploadClients = Clients
    /\ Unsupported \subseteq Urls
    /\ RuledOut \subseteq Urls
    /\ MaxRedirects \in Nat

VARIABLES
    task,        \* the fetch the event loop is busy with
    contacted,   \* history: the addresses this task has connected to
    unread,      \* history: this task could not read the robots.txt of its page
    asked        \* history: what this task has asked for as its page

fetchVars == <<task, contacted, unread, asked>>
vars == <<limiterVars, fetchVars>>

-----------------------------------------------------------------------------
\* An address of NAT64 stands for the IPv4 address within it.
Addresses == [range : {"public", "internal"}, nat64 : BOOLEAN]

\* The flags of ipaddress: the whole prefix of NAT64 counts as reserved.
Reserved(a) == a.range = "internal" \/ a.nat64

Unwrapped(a) == [a EXCEPT !.nat64 = FALSE]

\* _is_disallowed
Disallowed(a) == Reserved(IF a.nat64 THEN Unwrapped(a) ELSE a)

\* What getaddrinfo may answer; nothing is an error.
Lookups == SUBSET Addresses

\* resolve_pinned_connect_url accepts u: every address found is checked.
Accepts(u, found) ==
    /\ u \notin Unsupported
    /\ found # {}
    /\ \A a \in found : ~Disallowed(a)

\* The client looks the host up once more.
ConnectsToNewLookup(found) == Addresses

\* The connection goes to the first address found, whichever that is.
ConnectsTo(found) == found

Steps == {"checkPage", "checkRobots", "robots", "page", "checkImage", "image"}

Idle == [step |-> "none"]
Tasks ==
    {Idle} \cup [step : Steps, page : Urls, url : Urls, hops : 0 .. MaxRedirects]

FetchTypeOK ==
    /\ task \in Tasks
    /\ contacted \subseteq Addresses
    /\ unread \in BOOLEAN
    /\ asked \subseteq [url : Urls, redirected : BOOLEAN]

TypeOK == LimiterTypeOK /\ FetchTypeOK

Init ==
    /\ LimiterInit
    /\ task = Idle
    /\ contacted = {}
    /\ unread = FALSE
    /\ asked = {}

-----------------------------------------------------------------------------
At(step, page, url) == [step |-> step, page |-> page, url |-> url, hops |-> 0]

\* _check_rate_limit, then what each route does before its first connection.
Admit(c) ==
    /\ task = Idle
    /\ Allow(c)
    /\ \/ /\ c \in PageClients
          /\ \E u \in Urls : task' = At("checkPage", u, u)
       \/ /\ c \in ImageClients
          /\ \E u \in Urls : task' = At("checkImage", u, u)
       \/ /\ c \in UploadClients
          /\ task' = Idle
    /\ unread' = FALSE
    /\ asked' = {}
    /\ contacted' = {}

Refuse(c) ==
    /\ task = Idle
    /\ Deny(c)
    /\ UNCHANGED fetchVars

\* The clock does not wait for the event loop.
Pass == Tick /\ UNCHANGED fetchVars

-----------------------------------------------------------------------------
(* fetch_product_image and fetch_image_from_url, step by step *)

RobotsSteps == {"checkRobots", "robots"}

\* What a failure of the step leads to: without a robots.txt nothing is ruled out.
GiveUp ==
    IF task.step \in RobotsSteps
    THEN At("page", task.page, task.page)
    ELSE Idle

\* An error, a status of 400 or above, too many bytes, a redirect to nowhere.
Failed ==
    /\ task' = GiveUp
    /\ unread' = (unread \/ task.step \in RobotsSteps)

\* robots.txt is on the host of the page.
AfterCheck ==
    CASE task.step = "checkPage"   -> At("checkRobots", task.page, task.page)
      [] task.step = "checkRobots" -> At("robots", task.page, task.page)
      [] task.step = "checkImage"  -> At("image", task.page, task.url)

\* assert_safe_url: a lookup of its own, whose addresses are forgotten.
AssertSafe ==
    /\ task.step \in {"checkPage", "checkRobots", "checkImage"}
    /\ \E found \in Lookups :
          \/ Accepts(task.url, found) /\ task' = AfterCheck /\ UNCHANGED unread
          \/ ~Accepts(task.url, found) /\ Failed
    /\ UNCHANGED <<limiterVars, contacted, asked>>

RedirectedUncounted ==
    /\ \E u \in Urls : task' = [task EXCEPT !.url = u]
    /\ UNCHANGED unread

\* The Location of a redirect, relative to the URL asked for.
Redirected ==
    \/ /\ task.hops < MaxRedirects
       /\ \E u \in Urls : task' = [task EXCEPT !.url = u, !.hops = @ + 1]
       /\ UNCHANGED unread
    \/ /\ task.hops = MaxRedirects
       /\ Failed

\* The handler of "no reachable robots.txt" takes the refusal as well.
RobotsReadInTry ==
    /\ task.step = "robots"
    /\ task' = At("page", task.page, task.page)
    /\ UNCHANGED unread

\* robots.txt is there and is asked about the page the user gave.
RobotsRead ==
    /\ task.step = "robots"
    /\ task' = IF task.page \in RuledOut THEN Idle
                                         ELSE At("page", task.page, task.page)
    /\ UNCHANGED unread

\* The page names its product image, or none.
PageRead ==
    /\ task.step = "page"
    /\ \/ \E u \in Urls : task' = At("checkImage", task.page, u)
       \/ task' = Idle
    /\ UNCHANGED unread

\* Whether it decodes or not, the handler answers.
ImageRead ==
    /\ task.step = "image"
    /\ task' = Idle
    /\ UNCHANGED unread

Answered == Redirected \/ Failed \/ RobotsRead \/ PageRead \/ ImageRead

\* One round of the loop of _request, with all of the body, however many reads
\* that takes: the timeout is for each of them, and time may pass meanwhile.
Hop ==
    /\ task.step \in {"robots", "page", "image"}
    /\ \E found \in Lookups :
          \/ /\ ~Accepts(task.url, found)
             /\ Failed
             /\ UNCHANGED <<contacted, asked>>
          \/ /\ Accepts(task.url, found)
             /\ \E a \in ConnectsTo(found) : contacted' = contacted \cup {a}
             /\ asked' = IF task.step = "page"
                         THEN asked \cup {[url |-> task.url, redirected |-> task.hops > 0]}
                         ELSE asked
             /\ Answered
    /\ UNCHANGED limiterVars

Fetch == AssertSafe \/ Hop

Next ==
    \/ \E c \in Clients : Admit(c) \/ Refuse(c)
    \/ Pass
    \/ Fetch

Spec == Init /\ [][Next]_vars

-----------------------------------------------------------------------------
(***************************************************************************)
(* No connection leads into the internal network, whatever the redirects   *)
(* point at and however the answers of the name service change between a   *)
(* check and the connection ("DNS-rebinding gap, closed", ssrf_guard.py),  *)
(* NAT64 included.                                                         *)
(***************************************************************************)
OnlyPublicContacted == \A a \in contacted : a.range = "public"

(***************************************************************************)
(* The page the user gave is not asked for when its robots.txt rules it    *)
(* out and could be read, although every failure to read it is passed      *)
(* over.  The converse is the limit of "Never bypasses robots.txt"         *)
(* (api/extraction.py): _request follows a redirect of the page, to        *)
(* whatever site, without another look at a robots.txt, so what is ruled   *)
(* out can be asked for behind one.                                        *)
(***************************************************************************)
RuledOutOnlyByRedirect ==
    \A request \in asked :
        request.url \in RuledOut => unread \/ request.redirected

\* The steps of a fetch in their order.  One that connects is repeated once
\* for every redirect at most.
Stage == [checkPage |-> 5, checkRobots |-> 4, robots |-> 3, page |-> 2,
          checkImage |-> 1, image |-> 0]

StepsLeft(t) ==
    IF t = Idle THEN 0
    ELSE Stage[t.step] * (MaxRedirects + 1) + (MaxRedirects - t.hops) + 1

(***************************************************************************)
(* No answers of the servers, redirects in a circle least of all, make a   *)
(* fetch go on for ever: every lookup or request leaves it fewer to do.    *)
(* How long one of them takes is another matter: the reads of a body have  *)
(* a timeout each and no deadline together.                                *)
(***************************************************************************)
FetchBounded == [][Fetch => StepsLeft(task') < StepsLeft(task)]_vars

=============================================================================
