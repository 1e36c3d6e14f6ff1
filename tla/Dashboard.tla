----------------------------- MODULE Dashboard -----------------------------
(***************************************************************************)
(* The page in the browser (web/internal/server/static/app.js) and the API *)
(* behind it (server.go): the script runs one callback at a time, but      *)
(* every await lets the others in, and responses come in any order.  The   *)
(* session is the cookie of auth.go; without it the API answers 401 and    *)
(* the script leaves for the login page.                                   *)
(*                                                                         *)
(* What the store knows of a router is a version, 0 while it knows none;   *)
(* Mirror is about how it gets there.                                      *)
(***************************************************************************)
EXTENDS Naturals, FiniteSets, Bags

CONSTANTS
    Routers,
    NoRouter,
    MaxRequests, \* bound: how many requests are outstanding
    MaxChanges,  \* bound: how often the store changes
    MaxRestarts, \* bound: how often the application is started anew
    MaxFailures, \* bound: how many requests fail on the network
    MaxClicks,   \* bound: what the user does
    MaxExpiries  \* bound: how often the session ends

ASSUME DashboardAssumption ==
    /\ NoRouter \notin Routers
    /\ {MaxRequests, MaxChanges, MaxRestarts, MaxFailures, MaxClicks, MaxExpiries} \subseteq Nat

VARIABLES
    \* the application
    store,      \* router -> the version of its devices
    session,    \* the browser's cookie is there and has not expired
    \* the page
    page,       \* "dashboard" or "login"
    selected,   \* state.selectedRouter
    polls,      \* the intervals that run, by their handles
    pollHandle, \* state.pollHandle; 0: null
    listed,     \* the routers that have a card
    shown,      \* the router in the heading of the device table
    rows,       \* the version in the table; 0: none, or an error row
    timers,     \* the timeouts of toggle that are to call loadDevices
    requests,   \* what api() waits for
    \* counters
    changes, restarts, failures, clicks, expiries

polling == <<polls, pollHandle>>
script == <<selected, polling, listed, shown, rows, timers, requests>>
dashCounters == <<changes, restarts, failures, clicks, expiries>>
dashVars == <<store, session, page, script, dashCounters>>

Known == {r \in Routers : store[r] > 0}

\* After: what the caller goes on to when the call is over.
Unanswered == [code |-> 0, routers |-> {}, version |-> 0]
Request(path, r, after) == [path |-> path, router |-> r, after |-> after, answer |-> Unanswered]
RoutersRequest(after) == SetToBag({Request("routers", NoRouter, after)})
DevicesRequest(after) ==
    IF selected = NoRouter THEN EmptyBag
    ELSE SetToBag({Request("devices", selected, after)})

DashInit ==
    /\ store = [r \in Routers |-> 0]
    /\ session = TRUE
    /\ page = "dashboard"
    /\ selected = NoRouter
    /\ polls = {} /\ pollHandle = 0
    /\ listed = {}
    /\ shown = NoRouter
    /\ rows = 0
    /\ timers = 0
    /\ requests = RoutersRequest("nothing")
    /\ changes = 0 /\ restarts = 0 /\ failures = 0 /\ clicks = 0 /\ expiries = 0

----------------------------------------------------------------------------
(* The application.                                                        *)

\* An MQTT handler writes to the store.
StoreChanges ==
    /\ changes < MaxChanges
    /\ changes' = changes + 1
    /\ \E r \in Routers : store' = [store EXCEPT ![r] = changes']
    /\ UNCHANGED <<session, page, script, restarts, failures, clicks, expiries>>

Restart ==
    /\ restarts < MaxRestarts
    /\ restarts' = restarts + 1
    /\ store' = [r \in Routers |-> 0]
    /\ UNCHANGED <<session, page, script, changes, failures, clicks, expiries>>

Rest(req) == requests (-) SetToBag({req})

\* RequireLogin, then handleAPIRouters, handleAPIDevices or doBlockUnblock,
\* whose publish may time out.
Answers(req) ==
    IF ~session THEN {[Unanswered EXCEPT !.code = 401]}
    ELSE CASE req.path = "routers" -> {[Unanswered EXCEPT !.code = 200, !.routers = Known]}
           [] req.path = "devices" ->
                {[Unanswered EXCEPT !.code = IF req.router \in Known THEN 200 ELSE 404,
                                    !.version = store[req.router]]}
           [] req.path = "toggle"  -> {[Unanswered EXCEPT !.code = c] : c \in {200, 502}}

Serve ==
    /\ \E req \in BagToSet(requests) :
          /\ req.answer = Unanswered
          /\ \E a \in Answers(req) :
                requests' = Rest(req) (+) SetToBag({[req EXCEPT !.answer = a]})
    /\ UNCHANGED <<store, session, page, selected, polling, listed, shown, rows, timers,
                   dashCounters>>

----------------------------------------------------------------------------
(* The callbacks of the script.                                            *)

\* startPolling: clearInterval of the handle it has, and setInterval, which
\* returns one that no interval has.
StartPolling ==
    LET left == polls \ {pollHandle}
    IN  /\ pollHandle' = CHOOSE h \in 1..Cardinality(left) + 1 : h \notin left
        /\ polls' = left \cup {pollHandle'}

\* Mutant: a router that is alone is selected, whatever is selected.
GotRoutersSelecting(req) ==
    LET answer == req.answer
        Alone  == Cardinality(answer.routers) = 1
    IN  /\ listed' = answer.routers
        /\ selected' = IF Alone THEN CHOOSE r \in answer.routers : TRUE ELSE selected
        /\ requests' = Rest(req) (+)
              (IF Alone THEN RoutersRequest("select")
               ELSE IF req.after = "select" THEN DevicesRequest("select") ELSE EmptyBag)
        /\ UNCHANGED <<polling, shown, rows, timers>>

\* loadRouters goes on: the cards are drawn, a router that is alone is selected,
\* and selectRouter goes on to the devices of what is selected by then.
GotRouters(req) ==
    LET answer == req.answer
        Alone  == selected = NoRouter /\ Cardinality(answer.routers) = 1
    IN  /\ listed' = answer.routers
        /\ selected' = IF Alone THEN CHOOSE r \in answer.routers : TRUE ELSE selected
        /\ requests' = Rest(req) (+)
              (IF Alone THEN RoutersRequest("select")
               ELSE IF req.after = "select" THEN DevicesRequest("select") ELSE EmptyBag)
        /\ UNCHANGED <<polling, shown, rows, timers>>

\* Mutant: loadDevices does not catch what api() throws.
GotDevicesUncaught(req, ok) ==
    /\ IF ok THEN shown' = req.router /\ rows' = req.answer.version
             ELSE UNCHANGED shown /\ rows' = 0
    /\ IF ok /\ req.after = "select" THEN StartPolling ELSE UNCHANGED polling
    /\ requests' = Rest(req)
    /\ UNCHANGED <<selected, listed, timers>>

\* loadDevices goes on, with the table or, caught, with an error row; then
\* selectRouter comes to startPolling.
GotDevices(req, ok) ==
    /\ IF ok THEN shown' = req.router /\ rows' = req.answer.version
             ELSE UNCHANGED shown /\ rows' = 0
    /\ IF req.after = "select" THEN StartPolling ELSE UNCHANGED polling
    /\ requests' = Rest(req)
    /\ UNCHANGED <<selected, listed, timers>>

GotToggle(req, ok) ==
    /\ timers' = IF ok THEN timers + 1 ELSE timers
    /\ requests' = Rest(req)
    /\ UNCHANGED <<selected, polling, listed, shown, rows>>

\* api() throws: loadDevices and toggle catch it, loadRouters and with it
\* selectRouter end there.
Rejected(req) ==
    CASE req.path = "routers" -> /\ requests' = Rest(req)
                                 /\ UNCHANGED <<selected, polling, listed, shown, rows, timers>>
      [] req.path = "devices" -> GotDevices(req, FALSE)
      [] req.path = "toggle"  -> GotToggle(req, FALSE)

\* The browser leaves the page for another: the state of the script is gone.
Open(next, reqs) ==
    /\ page' = next
    /\ selected' = NoRouter /\ polls' = {} /\ pollHandle' = 0 /\ listed' = {}
    /\ shown' = NoRouter /\ rows' = 0 /\ timers' = 0 /\ requests' = reqs
ToLogin == Open("login", EmptyBag)

\* Mutant: a 401 is an error like any other.
ResponseAnyError ==
    /\ \E req \in BagToSet(requests) :
          LET code == req.answer.code
          IN  \/ code \in {401, 404, 502} /\ Rejected(req)
              \/ code = 200 /\ req.path = "routers" /\ GotRouters(req)
              \/ code = 200 /\ req.path = "devices" /\ GotDevices(req, TRUE)
              \/ code = 200 /\ req.path = "toggle" /\ GotToggle(req, TRUE)
    /\ UNCHANGED <<store, session, page, dashCounters>>

\* The response to any of the requests arrives.
Response ==
    /\ \E req \in BagToSet(requests) :
          LET code == req.answer.code
          IN  \/ code = 401 /\ ToLogin
              \/ code \in {404, 502} /\ Rejected(req) /\ UNCHANGED page
              \/ code = 200 /\ req.path = "routers" /\ GotRouters(req) /\ UNCHANGED page
              \/ code = 200 /\ req.path = "devices" /\ GotDevices(req, TRUE) /\ UNCHANGED page
              \/ code = 200 /\ req.path = "toggle" /\ GotToggle(req, TRUE) /\ UNCHANGED page
    /\ UNCHANGED <<store, session, dashCounters>>

\* fetch() throws, whether the request got through or not.
NetworkError ==
    /\ failures < MaxFailures
    /\ failures' = failures + 1
    /\ \E req \in BagToSet(requests) : Rejected(req)
    /\ UNCHANGED <<store, session, page, changes, restarts, clicks, expiries>>

Room(k) == BagCardinality(requests) + k <= MaxRequests

Send(reqs) ==
    /\ requests' = requests (+) reqs
    /\ UNCHANGED <<store, session, page, polling, listed, shown, rows>>

Reload == Send(RoutersRequest("nothing") (+) DevicesRequest("nothing"))

\* Mutant: the table is reloaded only when it shows the selected router.
PollShownOnly ==
    /\ polls # {} /\ Room(2)
    /\ Send(RoutersRequest("nothing") (+)
            (IF shown = selected THEN DevicesRequest("nothing") ELSE EmptyBag))
    /\ UNCHANGED <<selected, timers, dashCounters>>

\* The function of an interval of startPolling.
Poll ==
    /\ polls # {} /\ Room(2)
    /\ Reload
    /\ UNCHANGED <<selected, timers, dashCounters>>

TimerFires ==
    /\ timers > 0 /\ Room(1)
    /\ timers' = timers - 1
    /\ Send(DevicesRequest("nothing"))
    /\ UNCHANGED <<selected, dashCounters>>

----------------------------------------------------------------------------
(* The user and the session.                                               *)

UserActs ==
    /\ page = "dashboard"
    /\ clicks < MaxClicks
    /\ clicks' = clicks + 1
    /\ UNCHANGED <<changes, restarts, failures, expiries>>

\* selectRouter, from a card, up to its first await.
ClickCard ==
    /\ UserActs /\ Room(1)
    /\ selected' \in listed
    /\ Send(RoutersRequest("select"))
    /\ UNCHANGED timers

ClickRefresh ==
    /\ UserActs /\ Room(2)
    /\ Reload
    /\ UNCHANGED <<selected, timers>>

\* toggle, from a button of the table.
ClickToggle ==
    /\ UserActs /\ Room(1)
    /\ rows > 0
    /\ Send(SetToBag({Request("toggle", selected, "nothing")}))
    /\ UNCHANGED <<selected, timers>>

\* handleLogout.
Logout ==
    /\ UserActs
    /\ session' = FALSE
    /\ ToLogin
    /\ UNCHANGED store

\* The cookie passes its age, or another tab logs out.
Expire ==
    /\ session
    /\ expiries < MaxExpiries
    /\ expiries' = expiries + 1
    /\ session' = FALSE
    /\ UNCHANGED <<store, page, script, changes, restarts, failures, clicks>>

\* handleLoginSubmit, or handleLoginPage with a session, and the dashboard anew,
\* whose last line calls loadRouters.
Login ==
    /\ page = "login"
    /\ session' = TRUE
    /\ Open("dashboard", RoutersRequest("nothing"))
    /\ UNCHANGED <<store, dashCounters>>

Browser == Response \/ Poll \/ TimerFires
User == ClickCard \/ ClickRefresh \/ ClickToggle \/ Logout \/ Login

DashNext == StoreChanges \/ Restart \/ Serve \/ Browser \/ NetworkError \/ User \/ Expire

DashSpec == DashInit /\ [][DashNext]_dashVars

\* Requests are answered and the browser runs its callbacks.  The user owes
\* nothing.
DashFairSpec ==
    /\ DashSpec
    /\ WF_dashVars(Serve) /\ WF_dashVars(Response)
    /\ WF_dashVars(Poll) /\ WF_dashVars(TimerFires)

----------------------------------------------------------------------------
(* Properties.                                                             *)

\* A selection is replaced by the user only: the router that is alone in a late
\* response, or after a restart of the application, does not push out the one
\* the user has chosen.
SelectionKept ==
    [][selected' # selected /\ selected # NoRouter => ClickCard \/ page' = "login"]_dashVars

\* A page with a selected router is refreshed every 5 s or on its way to it, while
\* the network holds: startPolling waits behind two requests, whose answers may
\* be late, say that the application has forgotten the router, or belong to a
\* selection that was given up.  (Where the network fails, loadRouters throws
\* out of selectRouter and no interval starts.)
SelectionPolled ==
    selected # NoRouter /\ failures = 0 =>
        polls # {} \/ \E req \in BagToSet(requests) : req.after = "select"

\* With a router selected and known the page comes to show that router as the
\* store has it, and stays so: responses that overtook each other and those of
\* a selection that was given up are drawn over in the end.  This needs a
\* polling interval, which a selectRouter whose loadRouters failed does not
\* start.
PageCatchesUp ==
    \A r \in Routers :
        <>[](page = "dashboard" /\ session /\ selected = r /\ r \in Known
             /\ (polls # {} \/ failures = 0))
        => <>[](shown = r /\ rows = store[r] /\ listed = Known)

\* A page that polls without a session ends at the login page: no table stays
\* on display that nothing can refresh.
ExpiredLeaves == (~session /\ polls # {}) ~> (session \/ page = "login")
=============================================================================
