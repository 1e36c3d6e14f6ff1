\* One page, two routers, responses in any order.
CONSTANTS
    Routers = {r1, r2}
    NoRouter = NoRouter
    MaxRequests = 3
    MaxChanges = 2
    MaxRestarts = 1
    MaxFailures = 1
    MaxClicks = 1
    MaxExpiries = 1
SPECIFICATION DashFairSpec
INVARIANTS
    SelectionPolled
PROPERTIES
    SelectionKept
    PageCatchesUp
    ExpiredLeaves
\* A page without a selection asks for nothing.
CHECK_DEADLOCK FALSE
