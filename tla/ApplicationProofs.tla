-------------------------- MODULE ApplicationProofs --------------------------
(***************************************************************************)
(* Theorems about two parts of the web application that share nothing: the *)
(* vendor lookup, for any number of prefixes, any spacing and any number   *)
(* of errors, and the page, for any number of routers, of requests under   *)
(* way and of everything the user, the network and the store may do.       *)
(***************************************************************************)
EXTENDS Oui, Dashboard, FiniteSetTheorems, TLAPS

----------------------------------------------------------------------------
(* The vendor lookup.                                                      *)

Stages == {"lock", "sleep", "call", "deferred"}

OuiTypeOK ==
    /\ cache \in [Ouis -> {"none", "unknown", "vendor"}]
    /\ inflight \subseteq Ouis
    /\ fetches \subseteq [key : Ouis, at : Stages, left : 0..Spacing]
    /\ sinceSent \in 0..Spacing

\* The history variable is what the code computes from lastSent.
ClocksAgree == sincePermit = sinceSent

\* inflight holds the prefixes of the goroutines, each of which has one.
Registered == \A f \in fetches : f.key \in inflight

\* rateMu: one sleeper, and its sleep ends when Spacing has passed.
OneSleeper ==
    \A f \in fetches :
        f.at = "sleep" =>
            /\ f.left = Spacing - sinceSent
            /\ \A g \in fetches : g.at = "sleep" => g = f

OuiInv == OuiTypeOK /\ ClocksAgree /\ Registered /\ OneCallPerVendor /\ OneSleeper

LEMMA OuiInitially == OuiInit => OuiInv
BY OuiAssumption
   DEF OuiInit, OuiInv, OuiTypeOK, ClocksAgree, Registered, OneCallPerVendor, OneSleeper

LEMMA LookupKeeps == ASSUME OuiInv, NEW k \in Ouis, Lookup(k) PROVE OuiInv'
BY OuiAssumption
   DEF Lookup, Goroutine, Stages, OuiInv, OuiTypeOK, ClocksAgree, Registered, OneCallPerVendor,
       OneSleeper

LEMMA LockRateKeeps == ASSUME OuiInv, NEW f \in fetches, LockRate(f) PROVE OuiInv'
BY OuiAssumption
   DEF LockRate, Becomes, Goroutine, Stages, OuiInv, OuiTypeOK, ClocksAgree, Registered,
       OneCallPerVendor, OneSleeper

LEMMA WakeKeeps == ASSUME OuiInv, NEW f \in fetches, Wake(f) PROVE OuiInv'
BY OuiAssumption
   DEF Wake, Becomes, Goroutine, Stages, OuiInv, OuiTypeOK, ClocksAgree, Registered,
       OneCallPerVendor, OneSleeper

LEMMA CallAPIKeeps == ASSUME OuiInv, NEW f \in fetches, CallAPI(f) PROVE OuiInv'
BY OuiAssumption
   DEF CallAPI, Becomes, Goroutine, Stages, OuiInv, OuiTypeOK, ClocksAgree, Registered,
       OneCallPerVendor, OneSleeper

LEMMA FinishKeeps == ASSUME OuiInv, NEW f \in fetches, Finish(f) PROVE OuiInv'
BY DEF Finish, OuiInv, OuiTypeOK, ClocksAgree, Registered, OneCallPerVendor, OneSleeper

LEMMA TickKeeps == ASSUME OuiInv, Tick PROVE OuiInv'
BY OuiAssumption
   DEF Tick, Goroutine, Stages, OuiInv, OuiTypeOK, ClocksAgree, Registered, OneCallPerVendor,
       OneSleeper

LEMMA OuiInvariant == OuiSpec => []OuiInv
<1>1. OuiInv /\ [OuiNext]_ouiVars => OuiInv'
  <2>1. CASE UNCHANGED ouiVars
    BY <2>1 DEF ouiVars, OuiInv, OuiTypeOK, ClocksAgree, Registered, OneCallPerVendor, OneSleeper
  <2> QED
    BY <2>1, LookupKeeps, LockRateKeeps, WakeKeeps, CallAPIKeeps, FinishKeeps, TickKeeps
       DEF OuiNext, Fetch
<1> QED BY <1>1, OuiInitially, PTL DEF OuiSpec

\* Lookup and fetch (oui.go:58-96): a prefix never has two calls under way, and
\* none that is still to be sent once it is answered.
THEOREM OneCall == OuiSpec => []OneCallPerVendor
BY OuiInvariant, PTL DEF OuiInv

\* respectRateLimit (oui.go:98-105): whatever waits, minFetchSpacing lies
\* between one call and the next.
THEOREM CallsAreSpaced == OuiSpec => PermitsSpaced
<1>1. OuiInv => \A f \in fetches : Wake(f) => sincePermit = Spacing
  BY OuiAssumption DEF OuiInv, OuiTypeOK, ClocksAgree, OneSleeper, Wake
<1>2. OuiInv => [\A f \in fetches : Wake(f) => sincePermit = Spacing]_ouiVars
  BY <1>1
<1> QED BY <1>2, OuiInvariant, PTL DEF PermitsSpaced

----------------------------------------------------------------------------
(* The page.                                                               *)

Answer == [code : Nat, routers : SUBSET Routers, version : Nat]

Requests ==
    {req \in [path : {"routers", "devices", "toggle"}, router : Routers \cup {NoRouter},
              after : {"nothing", "select"}, answer : Answer] :
        /\ req.path = "devices" => req.router # NoRouter
        /\ req.path = "routers" => req.answer.code \in {0, 200, 401}
        /\ req.path = "toggle" => req.after = "nothing"}

AreRequests(bag) == BagToSet(bag) \subseteq Requests

DashTypeOK ==
    /\ store \in [Routers -> Nat]
    /\ changes \in Nat
    /\ selected \in Routers \cup {NoRouter}
    /\ listed \subseteq Routers
    /\ AreRequests(requests)

\* A page that was left has nothing under way that could come back to it.
LeftAtRest ==
    page = "login" =>
        selected = NoRouter /\ BagToSet(requests) = {} /\ polls = {} /\ timers = 0

DashInv == DashTypeOK /\ LeftAtRest

----------------------------------------------------------------------------
(* Bags of requests.                                                       *)

LEMMA EmptyRequests == BagToSet(EmptyBag) = {}
BY DEF BagToSet, EmptyBag, SetToBag

LEMMA OneRequest == ASSUME NEW req PROVE BagToSet(SetToBag({req})) = {req}
BY DEF BagToSet, SetToBag

LEMMA BothRequests ==
    ASSUME NEW a, NEW b PROVE BagToSet(a (+) b) = BagToSet(a) \cup BagToSet(b)
BY DEF BagToSet, (+)

LEMMA FewerRequests ==
    ASSUME NEW a, NEW b PROVE BagToSet(a (-) b) \subseteq BagToSet(a)
BY DEF BagToSet, (-)

\* What the script asks for.
LEMMA AskedFor ==
    ASSUME DashTypeOK, NEW after \in {"nothing", "select"}
    PROVE  /\ AreRequests(RoutersRequest(after))
           /\ AreRequests(DevicesRequest(after))
<1>1. Unanswered \in Answer
  BY DEF Unanswered, Answer
<1>2. Request("routers", NoRouter, after) \in Requests
  BY <1>1 DEF Request, Requests, Unanswered
<1>3. selected # NoRouter => Request("devices", selected, after) \in Requests
  BY <1>1 DEF Request, Requests, DashTypeOK
<1> QED BY <1>2, <1>3, OneRequest, EmptyRequests
        DEF AreRequests, RoutersRequest, DevicesRequest

----------------------------------------------------------------------------
(* The steps.                                                              *)

\* A response or an error leaves every selection.
LEMMA Callback ==
    ASSUME DashTypeOK, NEW req \in BagToSet(requests),
           \/ Rejected(req)
           \/ GotRouters(req)
           \/ GotDevices(req, TRUE)
           \/ GotToggle(req, TRUE)
    PROVE  /\ selected' \in Routers \cup {NoRouter} /\ listed' \subseteq Routers
           /\ AreRequests(requests')
           /\ selected' # selected => selected = NoRouter
<1>1. req \in Requests
  BY DEF DashTypeOK, AreRequests
<1>2. AreRequests(Rest(req))
  BY FewerRequests DEF DashTypeOK, AreRequests, Rest
<1>3. ASSUME NEW ok, GotDevices(req, ok)
      PROVE  requests' = Rest(req) /\ UNCHANGED <<selected, listed>>
  BY <1>3 DEF GotDevices
<1>4. ASSUME NEW ok, GotToggle(req, ok)
      PROVE  requests' = Rest(req) /\ UNCHANGED <<selected, listed>>
  BY <1>4 DEF GotToggle
<1>5. CASE Rejected(req)
  <2>1. CASE req.path = "routers"
    BY <1>2, <1>5, <2>1 DEF Rejected, DashTypeOK
  <2>2. CASE req.path = "devices"
    <3>1. GotDevices(req, FALSE)
      BY <1>5, <2>2 DEF Rejected
    <3> QED BY <1>2, <1>3, <3>1 DEF DashTypeOK
  <2>3. CASE req.path = "toggle"
    <3>1. GotToggle(req, FALSE)
      BY <1>5, <2>3 DEF Rejected
    <3> QED BY <1>2, <1>4, <3>1 DEF DashTypeOK
  <2> QED BY <1>1, <2>1, <2>2, <2>3 DEF Requests
<1>6. CASE GotRouters(req)
  <2> DEFINE Alone == selected = NoRouter /\ Cardinality(req.answer.routers) = 1
             more == IF Alone THEN RoutersRequest("select")
                     ELSE IF req.after = "select" THEN DevicesRequest("select") ELSE EmptyBag
  <2>1. /\ listed' = req.answer.routers
        /\ selected' = IF Alone THEN CHOOSE r \in req.answer.routers : TRUE ELSE selected
        /\ requests' = Rest(req) (+) more
    BY <1>6 DEF GotRouters
  <2>2. req.answer.routers \subseteq Routers
    BY <1>1 DEF Requests, Answer
  <2>3. Alone => req.answer.routers # {}
    BY FS_EmptySet
  <2>4. Alone => (CHOOSE r \in req.answer.routers : TRUE) \in Routers
    BY <2>2, <2>3
  <2>5. AreRequests(more)
    BY AskedFor, EmptyRequests DEF AreRequests
  <2> HIDE DEF more
  <2>6. AreRequests(requests')
    BY <1>2, <2>1, <2>5, BothRequests DEF AreRequests
  <2> QED BY <2>1, <2>2, <2>4, <2>6 DEF DashTypeOK
<1> QED BY <1>2, <1>3, <1>4, <1>5, <1>6 DEF DashTypeOK

\* A selection is given up by the user or with the page.
LEMMA Kept ==
    ASSUME DashInv, [DashNext]_dashVars
    PROVE  /\ DashInv'
           /\ selected' # selected /\ selected # NoRouter => ClickCard \/ page' = "login"
<1> DEFINE Keeps == selected' # selected /\ selected # NoRouter => ClickCard \/ page' = "login"
<1> USE DEF DashInv
<1>1. CASE StoreChanges
  <2>1. changes' \in Nat /\ store' \in [Routers -> Nat]
    BY <1>1 DEF StoreChanges, DashTypeOK
  <2> QED BY <1>1, <2>1 DEF StoreChanges, script, polling, DashTypeOK, LeftAtRest
<1>2. CASE Restart
  BY <1>2 DEF Restart, script, polling, DashTypeOK, LeftAtRest
<1>3. CASE Serve
  <2>1. PICK req \in BagToSet(requests) : \E a \in Answers(req) :
          requests' = Rest(req) (+) SetToBag({[req EXCEPT !.answer = a]})
    BY <1>3 DEF Serve
  <2>2. PICK a \in Answers(req) :
          requests' = Rest(req) (+) SetToBag({[req EXCEPT !.answer = a]})
    BY <2>1
  <2>3. req \in Requests /\ AreRequests(Rest(req))
    BY <2>1, FewerRequests DEF DashTypeOK, AreRequests, Rest
  <2>4. a \in Answer /\ (req.path = "routers" => a.code \in {200, 401})
    <3>1. Unanswered \in Answer /\ store \in [Routers -> Nat] /\ Known \subseteq Routers
      BY DEF Unanswered, Answer, DashTypeOK, Known
    <3>2. CASE ~session
      BY <3>1, <3>2 DEF Answers, Answer, Unanswered
    <3>3. CASE session /\ req.path = "routers"
      <4>1. a = [Unanswered EXCEPT !.code = 200, !.routers = Known]
        BY <3>3 DEF Answers
      <4> QED BY <3>1, <4>1 DEF Answer, Unanswered
    <3>4. CASE session /\ req.path = "toggle"
      BY <3>1, <3>4 DEF Answers, Answer
    <3>5. CASE session /\ req.path = "devices"
      <4>1. PICK c \in {200, 404} :
              a = [Unanswered EXCEPT !.code = c, !.version = store[req.router]]
        BY <3>5 DEF Answers
      <4>2. store[req.router] \in Nat
        BY <2>3, <3>1, <3>5 DEF Requests
      <4>3. a = [code |-> c, routers |-> {}, version |-> store[req.router]]
        BY <4>1 DEF Unanswered
      <4> QED BY <3>5, <4>2, <4>3 DEF Answer
    <3> QED BY <2>3, <3>2, <3>3, <3>4, <3>5 DEF Requests
  <2>5. [req EXCEPT !.answer = a] \in Requests
    BY <2>3, <2>4 DEF Requests
  <2>6. AreRequests(requests')
    <3> DEFINE answered == [req EXCEPT !.answer = a]
    <3>1. BagToSet(requests') = BagToSet(Rest(req)) \cup BagToSet(SetToBag({answered}))
      BY <2>2, BothRequests
    <3>2. BagToSet(SetToBag({answered})) = {answered}
      BY OneRequest
    <3>3. answered \in Requests
      BY <2>5
    <3> HIDE DEF answered
    <3> QED BY <2>3, <3>1, <3>2, <3>3 DEF AreRequests
  <2>7. page # "login"
    BY <2>1 DEF LeftAtRest
  <2> QED BY <1>3, <2>6, <2>7 DEF Serve, polling, dashCounters, DashTypeOK, LeftAtRest
<1>4. CASE Response
  <2>1. CASE ToLogin /\ UNCHANGED <<store, session, dashCounters>>
    BY <2>1, EmptyRequests
       DEF ToLogin, Open, dashCounters, DashTypeOK, LeftAtRest, AreRequests
  <2>2. CASE /\ UNCHANGED <<store, session, page, dashCounters>>
             /\ \E req \in BagToSet(requests) :
                  \/ Rejected(req)
                  \/ GotRouters(req)
                  \/ GotDevices(req, TRUE)
                  \/ GotToggle(req, TRUE)
    <3>1. page # "login"
      BY <2>2 DEF LeftAtRest
    <3> QED BY <2>2, <3>1, Callback DEF dashCounters, DashTypeOK, LeftAtRest
  <2> QED BY <1>4, <2>1, <2>2 DEF Response
<1>5. CASE NetworkError
  <2>1. page # "login"
    BY <1>5 DEF NetworkError, LeftAtRest
  <2> QED BY <1>5, <2>1, Callback DEF NetworkError, DashTypeOK, LeftAtRest
<1>6. ASSUME NEW reqs, AreRequests(reqs), Send(reqs), selected' \in Routers \cup {NoRouter},
             page # "login", changes' = changes, selected' # selected => ClickCard
      PROVE  DashInv' /\ Keeps
  BY <1>6, BothRequests DEF Send, DashTypeOK, LeftAtRest, AreRequests
<1>7. AreRequests(RoutersRequest("nothing") (+) DevicesRequest("nothing"))
  BY AskedFor, BothRequests DEF AreRequests
<1>8. CASE Poll
  BY <1>6, <1>7, <1>8 DEF Poll, Reload, dashCounters, LeftAtRest, DashTypeOK
<1>9. CASE TimerFires
  BY <1>6, <1>9, AskedFor DEF TimerFires, dashCounters, LeftAtRest, DashTypeOK
<1>10. CASE ClickCard
  BY <1>6, <1>10, AskedFor DEF ClickCard, UserActs, DashTypeOK
<1>11. CASE ClickRefresh
  BY <1>6, <1>7, <1>11 DEF ClickRefresh, Reload, UserActs, DashTypeOK
<1>12. CASE ClickToggle
  <2>1. Request("toggle", selected, "nothing") \in Requests
    BY DEF Request, Requests, Unanswered, Answer, DashTypeOK
  <2> QED BY <1>6, <1>12, <2>1, OneRequest DEF ClickToggle, UserActs, DashTypeOK, AreRequests
<1>13. CASE Logout
  BY <1>13, EmptyRequests
     DEF Logout, UserActs, ToLogin, Open, DashTypeOK, LeftAtRest, AreRequests
<1>14. CASE Login
  <2>1. AreRequests(RoutersRequest("nothing"))
    BY AskedFor
  <2> QED BY <1>14, <2>1 DEF Login, Open, dashCounters, DashTypeOK, LeftAtRest
<1>15. CASE Expire
  BY <1>15 DEF Expire, script, polling, DashTypeOK, LeftAtRest
<1>16. CASE UNCHANGED dashVars
  BY <1>16 DEF dashVars, script, polling, dashCounters, DashTypeOK, LeftAtRest
<1> QED BY <1>1, <1>2, <1>3, <1>4, <1>5, <1>8, <1>9, <1>10, <1>11, <1>12, <1>13, <1>14,
           <1>15, <1>16 DEF DashNext, Browser, User

LEMMA DashStart == DashInit => DashInv
<1> SUFFICES ASSUME DashInit PROVE DashInv
  OBVIOUS
<1>1. /\ store = [r \in Routers |-> 0] /\ selected = NoRouter /\ listed = {}
      /\ changes = 0 /\ page = "dashboard"
      /\ requests = RoutersRequest("nothing")
  BY DEF DashInit
<1>2. Request("routers", NoRouter, "nothing") \in Requests
  BY DEF Request, Requests, Unanswered, Answer
<1>3. AreRequests(RoutersRequest("nothing"))
  <2> DEFINE asked == Request("routers", NoRouter, "nothing")
  <2>1. BagToSet(RoutersRequest("nothing")) = {asked}
    BY OneRequest DEF RoutersRequest
  <2> HIDE DEF asked
  <2> QED BY <1>2, <2>1 DEF AreRequests, asked
<1>4. AreRequests(requests)
  BY <1>1, <1>3
<1> QED BY <1>1, <1>4 DEF DashInv, DashTypeOK, LeftAtRest

----------------------------------------------------------------------------
(* The polling.                                                            *)

\* A call of selectRouter is under way, which ends in startPolling.
Selecting(bag) == \E req \in BagToSet(bag) : req.after = "select"

PollInv == DashInv /\ failures \in Nat /\ IsABag(requests) /\ SelectionPolled

LEMMA SmallBags == IsABag(EmptyBag) /\ \A x : IsABag(SetToBag({x}))
BY DEF IsABag, SetToBag, EmptyBag

LEMMA BothBags ==
    ASSUME NEW a, NEW b, IsABag(a), IsABag(b) PROVE IsABag(a (+) b)
BY DEF IsABag, (+)

\* Rest takes a request out, and no other.
LEMMA OthersRest ==
    ASSUME NEW req, IsABag(requests)
    PROVE  IsABag(Rest(req)) /\ BagToSet(requests) \ {req} \subseteq BagToSet(Rest(req))
<1> DEFINE one == SetToBag({req})
           left == [e \in DOMAIN requests |-> IF e \in DOMAIN one THEN requests[e] - one[e]
                                              ELSE requests[e]]
<1>1. Rest(req) = [e \in {d \in DOMAIN left : left[d] > 0} |-> left[e]]
  BY DEF Rest, (-)
<1>2. \A e \in DOMAIN requests : requests[e] \in Nat /\ requests[e] > 0
  BY DEF IsABag
<1>3. DOMAIN one = {req} /\ \A e \in DOMAIN one : one[e] = 1
  BY DEF SetToBag
<1> HIDE DEF one
<1>4. DOMAIN left = DOMAIN requests /\ \A e \in DOMAIN left : left[e] \in Int
  BY <1>2, <1>3
<1>5. \A e \in DOMAIN requests : e # req => left[e] > 0
  BY <1>2, <1>3
<1> HIDE DEF left
<1> QED BY <1>1, <1>4, <1>5 DEF IsABag, BagToSet

LEMMA AskedInBags ==
    \A after : /\ IsABag(RoutersRequest(after)) /\ IsABag(DevicesRequest(after))
               /\ Selecting(RoutersRequest("select"))
               /\ selected # NoRouter => Selecting(DevicesRequest("select"))
<1>1. ASSUME NEW path, NEW r
      PROVE  Selecting(SetToBag({Request(path, r, "select")}))
  <2>1. BagToSet(SetToBag({Request(path, r, "select")})) = {Request(path, r, "select")}
    BY OneRequest
  <2>2. Request(path, r, "select").after = "select"
    BY DEF Request
  <2> QED BY <2>1, <2>2 DEF Selecting
<1> QED BY <1>1, SmallBags DEF RoutersRequest, DevicesRequest

\* A request more leaves the call of selectRouter under way.
LEMMA StillSelecting ==
    ASSUME NEW a, NEW b PROVE Selecting(a (+) b) <=> Selecting(a) \/ Selecting(b)
BY BothRequests DEF Selecting

\* What follows a request of selectRouter that is over.
LEMMA SelectingGoesOn ==
    ASSUME IsABag(requests), NEW req \in BagToSet(requests), Selecting(requests)
    PROVE  req.after = "select" \/ Selecting(Rest(req))
BY OthersRest DEF Selecting

\* A response keeps the bag and the polling of the selection; a request of
\* selectRouter that fails is one for routers.
LEMMA PollingGoesOn ==
    ASSUME PollInv, NEW req \in BagToSet(requests),
           \/ Rejected(req) /\ (req.path = "routers" => failures' # 0)
           \/ GotRouters(req)
           \/ GotDevices(req, TRUE)
           \/ GotToggle(req, TRUE) /\ req.path = "toggle"
    PROVE  /\ IsABag(requests')
           /\ failures' = 0 /\ failures = 0 /\ selected' # NoRouter
                => polls' # {} \/ Selecting(requests')
<1>1. IsABag(requests) /\ IsABag(Rest(req)) /\ req \in Requests
  BY OthersRest DEF PollInv, DashInv, DashTypeOK, AreRequests
<1>2. failures = 0 /\ selected # NoRouter => polls # {} \/ req.after = "select"
                                               \/ Selecting(Rest(req))
  BY <1>1, SelectingGoesOn DEF PollInv, SelectionPolled, Selecting
<1>3. ASSUME NEW ok, GotDevices(req, ok)
      PROVE  /\ requests' = Rest(req) /\ selected' = selected
             /\ IF req.after = "select" THEN polls' # {} ELSE polls' = polls
  BY <1>3 DEF GotDevices, StartPolling, polling
<1>4. ASSUME NEW ok, GotToggle(req, ok)
      PROVE  requests' = Rest(req) /\ selected' = selected /\ polls' = polls
  BY <1>4 DEF GotToggle, polling
<1>5. CASE GotDevices(req, FALSE) \/ GotDevices(req, TRUE)
  BY <1>1, <1>2, <1>3, <1>5
<1>6. CASE (GotToggle(req, FALSE) \/ GotToggle(req, TRUE)) /\ req.path = "toggle"
  <2>1. req.after # "select"
    BY <1>1, <1>6 DEF Requests
  <2> QED BY <1>1, <1>2, <1>4, <1>6, <2>1
<1>7. CASE GotRouters(req)
  <2> DEFINE Alone == selected = NoRouter /\ Cardinality(req.answer.routers) = 1
             more == IF Alone THEN RoutersRequest("select")
                     ELSE IF req.after = "select" THEN DevicesRequest("select") ELSE EmptyBag
  <2>1. /\ requests' = Rest(req) (+) more /\ polls' = polls
        /\ Alone \/ selected' = selected
    BY <1>7 DEF GotRouters, polling
  <2>2. IsABag(more)
    BY SmallBags, AskedInBags
  <2>3. Alone \/ (req.after = "select" /\ selected # NoRouter) => Selecting(more)
    BY AskedInBags
  <2> HIDE DEF more, Alone
  <2>4. IsABag(requests')
    BY <1>1, <2>1, <2>2, BothBags
  <2>5. Selecting(requests') <=> Selecting(Rest(req)) \/ Selecting(more)
    BY <2>1, StillSelecting
  <2>6. CASE Alone
    BY <2>3, <2>4, <2>5, <2>6
  <2>7. CASE ~Alone
    <3>1. selected' = selected
      BY <2>1, <2>7
    <3>2. req.after = "select" /\ selected # NoRouter => Selecting(requests')
      BY <2>3, <2>5
    <3>3. failures = 0 /\ selected # NoRouter => polls' # {} \/ Selecting(requests')
      BY <1>2, <2>1, <2>5, <3>2
    <3> QED BY <2>4, <3>1, <3>3
  <2> QED BY <2>6, <2>7
<1>8. CASE Rejected(req) /\ req.path = "routers" /\ failures' # 0
  BY <1>1, <1>8 DEF Rejected
<1> QED BY <1>1, <1>5, <1>6, <1>7, <1>8 DEF Rejected, Requests

LEMMA PollingKept == PollInv /\ [DashNext]_dashVars => PollInv'
<1> SUFFICES ASSUME PollInv, [DashNext]_dashVars PROVE PollInv'
  OBVIOUS
<1> DEFINE Polled == failures = 0 /\ selected # NoRouter => polls # {} \/ Selecting(requests)
<1>1. DashInv' /\ Polled /\ IsABag(requests) /\ failures \in Nat
  BY Kept DEF PollInv, SelectionPolled, Selecting
<1>2. failures' \in Nat
  <2>1. failures' = failures \/ failures' = failures + 1
    BY DEF DashNext, Browser, User, StoreChanges, Restart, Serve, Response, Poll, TimerFires,
           NetworkError, ClickCard, ClickRefresh, ClickToggle, Logout, Login, Expire, UserActs,
           dashVars, dashCounters
  <2> QED BY <1>1, <2>1
<1>3. ASSUME IsABag(requests'), Polled' PROVE PollInv'
  BY <1>1, <1>2, <1>3 DEF PollInv, SelectionPolled, Selecting
<1>4. CASE UNCHANGED <<script, failures>>
  BY <1>1, <1>3, <1>4 DEF script, polling
<1>5. CASE Serve
  <2>1. UNCHANGED <<selected, polls, failures>>
    BY <1>5 DEF Serve, polling, dashCounters
  <2>2. PICK req \in BagToSet(requests) : \E a \in Answers(req) :
        requests' = Rest(req) (+) SetToBag({[req EXCEPT !.answer = a]})
    BY <1>5 DEF Serve
  <2>3. PICK a \in Answers(req) :
          requests' = Rest(req) (+) SetToBag({[req EXCEPT !.answer = a]})
    BY <2>2
  <2>4. IsABag(requests')
    BY <1>1, <2>3, OthersRest, SmallBags, BothBags
  <2>5. req.after = "select" => [req EXCEPT !.answer = a].after = "select"
    <3>1. req \in Requests
      BY <2>2 DEF PollInv, DashInv, DashTypeOK, AreRequests
    <3> QED BY <3>1 DEF Requests
  <2>6. req.after = "select" => Selecting(SetToBag({[req EXCEPT !.answer = a]}))
    BY <2>5, OneRequest DEF Selecting
  <2>7. Selecting(requests) => Selecting(requests')
    BY <1>1, <2>3, <2>6, SelectingGoesOn, StillSelecting
  <2> QED BY <1>1, <1>3, <2>1, <2>4, <2>7
<1>6. CASE Response
  <2>1. CASE ToLogin
    BY <1>3, <2>1, SmallBags DEF ToLogin, Open
  <2>2. CASE ~ToLogin
    <3>1. PICK req \in BagToSet(requests) :
            \/ req.answer.code \in {404, 502} /\ Rejected(req)
            \/ GotRouters(req)
            \/ GotDevices(req, TRUE)
            \/ req.path = "toggle" /\ GotToggle(req, TRUE)
      BY <1>6, <2>2, Zenon DEF Response
    <3>2. req \in Requests
      BY <3>1 DEF PollInv, DashInv, DashTypeOK, AreRequests
    <3>3. req.path = "routers" => req.answer.code \notin {404, 502}
      BY <3>2 DEF Requests
    <3>4. failures' = failures
      BY <1>6 DEF Response, dashCounters
    <3>5. \/ Rejected(req) /\ req.path # "routers"
          \/ GotRouters(req)
          \/ GotDevices(req, TRUE)
          \/ GotToggle(req, TRUE) /\ req.path = "toggle"
      BY <3>1, <3>3
    <3>6. /\ IsABag(requests')
          /\ failures' = 0 /\ failures = 0 /\ selected' # NoRouter
                => polls' # {} \/ Selecting(requests')
      BY <3>5, PollingGoesOn
    <3> QED BY <1>3, <3>4, <3>6
  <2> QED BY <2>1, <2>2
<1>7. CASE NetworkError
  <2>1. failures' # 0
    BY <1>1, <1>7 DEF NetworkError
  <2> QED BY <1>3, <1>7, <2>1, PollingGoesOn DEF NetworkError
<1>8. ASSUME NEW more, IsABag(more), requests' = requests (+) more, UNCHANGED <<polls, failures>>,
             selected' = selected \/ Selecting(more)
      PROVE  PollInv'
  BY <1>1, <1>3, <1>8, BothBags, StillSelecting
<1>9. CASE Poll \/ ClickRefresh
  BY <1>8, <1>9, AskedInBags, BothBags
     DEF Poll, ClickRefresh, UserActs, Reload, Send, polling, dashCounters
<1>10. CASE TimerFires
  BY <1>8, <1>10, AskedInBags DEF TimerFires, Send, polling, dashCounters
<1>11. CASE ClickCard
  BY <1>8, <1>11, AskedInBags DEF ClickCard, UserActs, Send, polling
<1>12. CASE ClickToggle
  BY <1>8, <1>12, SmallBags DEF ClickToggle, UserActs, Send, polling
<1>13. CASE Logout
  BY <1>3, <1>13, SmallBags DEF Logout, ToLogin, Open
<1>14. CASE Login
  BY <1>3, <1>14, AskedInBags DEF Login, Open
<1>15. CASE StoreChanges \/ Restart \/ Expire \/ UNCHANGED dashVars
  BY <1>4, <1>15 DEF StoreChanges, Restart, Expire, dashVars, dashCounters
<1> QED BY <1>5, <1>6, <1>7, <1>9, <1>10, <1>11, <1>12, <1>13, <1>14, <1>15
        DEF DashNext, Browser, User

LEMMA PollingBegins == DashInit => PollInv
BY DashStart, SmallBags DEF DashInit, PollInv, SelectionPolled, RoutersRequest

----------------------------------------------------------------------------
(* The results.                                                            *)

\* While the network holds, a selection is polled or its selectRouter is under way.
THEOREM SelectionIsPolled == DashSpec => []SelectionPolled
<1>1. PollInv => SelectionPolled
  BY DEF PollInv
<1> QED BY <1>1, PollingBegins, PollingKept, PTL DEF DashSpec

\* Only the user replaces a selection, whatever answers come late.
THEOREM SelectionIsKept == DashSpec => SelectionKept
<1>1. DashInv /\ [DashNext]_dashVars
        => DashInv' /\ [selected' # selected /\ selected # NoRouter
                          => ClickCard \/ page' = "login"]_dashVars
  BY Kept
<1> QED BY <1>1, DashStart, PTL DEF DashSpec, SelectionKept
==============================================================================
