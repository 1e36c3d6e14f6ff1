-------------------------------- MODULE Oui --------------------------------
(***************************************************************************)
(* The vendor lookup of web/internal/oui/oui.go: a cache by the first      *)
(* three octets of a MAC, filled by one goroutine per prefix that is being *)
(* asked for, under a limit on the rate of requests.                       *)
(*                                                                         *)
(* mu guards cache and inflight and is held for single steps only, so it   *)
(* needs no variable; rateMu is held over the sleep, by the goroutine that *)
(* is there.  Time is measured from the last permit to send and matters up *)
(* to Spacing.  The goroutines are a set, since no two of them work on one *)
(* prefix (OneCallPerVendor).                                              *)
(***************************************************************************)
EXTENDS Integers

CONSTANTS
    Ouis,       \* the prefixes of the MACs that are looked up
    Spacing,    \* minFetchSpacing, in ticks of the clock
    MaxErrors   \* bound: how many requests fail

ASSUME OuiAssumption == Spacing \in Nat \ {0} /\ MaxErrors \in Nat

VARIABLES
    cache,      \* prefix -> "none", "unknown" (the marker) or "vendor"
    inflight,   \* the prefixes being asked for
    fetches,    \* the fetch goroutines: [key, at, left]
    sinceSent,  \* time.Since(lastSent), up to Spacing
    sincePermit, \* history: the time since a goroutine was let through
    errors      \* counter

ouiVars == <<cache, inflight, fetches, sinceSent, sincePermit, errors>>

OuiInit ==
    /\ cache = [k \in Ouis |-> "none"]
    /\ inflight = {}
    /\ fetches = {}
    /\ sinceSent = Spacing
    /\ sincePermit = Spacing
    /\ errors = 0

Goroutine(k, stage, left) == [key |-> k, at |-> stage, left |-> left]
Becomes(f, stage, left) == fetches' = (fetches \ {f}) \cup {Goroutine(f.key, stage, left)}

\* Mutant: the cache alone is looked at.
LookupUnregistered(k) ==
    /\ cache[k] = "none"
    /\ inflight' = inflight \cup {k}
    /\ fetches' = fetches \cup {Goroutine(k, "lock", 0)}
    /\ UNCHANGED <<cache, sinceSent, sincePermit, errors>>

\* Lookup, where it starts a fetch; in all other cases it only reads.
Lookup(k) ==
    /\ cache[k] = "none" /\ k \notin inflight
    /\ inflight' = inflight \cup {k}
    /\ fetches' = fetches \cup {Goroutine(k, "lock", 0)}
    /\ UNCHANGED <<cache, sinceSent, sincePermit, errors>>

\* Mutant: the lock is not kept over the sleep.
LockRateBriefly(f) ==
    /\ f.at = "lock"
    /\ Becomes(f, "sleep", Spacing - sinceSent)
    /\ UNCHANGED <<cache, inflight, sinceSent, sincePermit, errors>>

\* respectRateLimit: the lock, and what is left to sleep.
LockRate(f) ==
    /\ f.at = "lock"
    /\ \A g \in fetches : g.at # "sleep"
    /\ Becomes(f, "sleep", Spacing - sinceSent)
    /\ UNCHANGED <<cache, inflight, sinceSent, sincePermit, errors>>

\* The sleep is over: lastSent is now, and the lock is given back.
Wake(f) ==
    /\ f.at = "sleep" /\ f.left = 0
    /\ Becomes(f, "call", 0)
    /\ sinceSent' = 0
    /\ sincePermit' = 0
    /\ UNCHANGED <<cache, inflight, errors>>

Tick ==
    /\ sinceSent < Spacing \/ sincePermit < Spacing \/ \E f \in fetches : f.left > 0
    /\ fetches' = {Goroutine(f.key, f.at, IF f.left > 0 THEN f.left - 1 ELSE 0) : f \in fetches}
    /\ sinceSent' = IF sinceSent < Spacing THEN sinceSent + 1 ELSE Spacing
    /\ sincePermit' = IF sincePermit < Spacing THEN sincePermit + 1 ELSE Spacing
    /\ UNCHANGED <<cache, inflight, errors>>

\* callAPI answers, and the answer is stored; an error, of which a timeout is
\* one, is not.
CallAPI(f) ==
    /\ f.at = "call"
    /\ LET k == f.key
       IN  \/ cache' = [cache EXCEPT ![k] = "vendor"] /\ UNCHANGED errors
           \/ cache' = [cache EXCEPT ![k] = "unknown"] /\ UNCHANGED errors
           \/ errors < MaxErrors /\ errors' = errors + 1 /\ UNCHANGED cache
    /\ Becomes(f, "deferred", 0)
    /\ UNCHANGED <<inflight, sinceSent, sincePermit>>

\* Mutant: after an error the prefix stays registered.
FinishIfCached(f) ==
    /\ f.at = "deferred"
    /\ inflight' = IF cache[f.key] = "none" THEN inflight
                   ELSE inflight \ {f.key}
    /\ fetches' = fetches \ {f}
    /\ UNCHANGED <<cache, sinceSent, sincePermit, errors>>

\* The deferred function.
Finish(f) ==
    /\ f.at = "deferred"
    /\ inflight' = inflight \ {f.key}
    /\ fetches' = fetches \ {f}
    /\ UNCHANGED <<cache, sinceSent, sincePermit, errors>>

Fetch == \E f \in fetches : LockRate(f) \/ Wake(f) \/ CallAPI(f) \/ Finish(f)

OuiNext == Fetch \/ Tick \/ \E k \in Ouis : Lookup(k)

OuiSpec == OuiInit /\ [][OuiNext]_ouiVars

\* Time passes, the goroutines run, a request is answered or times out after
\* fetchTimeout, and the dashboard that shows a device asks again every 5 s.
OuiFairSpec ==
    /\ OuiSpec
    /\ WF_ouiVars(Tick) /\ WF_ouiVars(Fetch)
    /\ \A k \in Ouis : WF_ouiVars(Lookup(k))

----------------------------------------------------------------------------
(* Properties.                                                             *)

\* A prefix is asked for by one goroutine at a time, and by none that has yet to
\* send once it has an answer, whatever callers come between its steps.  (A call
\* that fails is made again, so it may take more than the "one network call per
\* unique vendor, ever" of web/README.md:13 to get the answer.)
OneCallPerVendor ==
    \A f \in fetches :
        /\ f.at # "deferred" => cache[f.key] = "none"
        /\ \A g \in fetches : g.key = f.key => g = f

\* A goroutine is let through Spacing after the one before it, however many
\* wait and however late they wake: no second sees more than two.
PermitsSpaced == [][\A f \in fetches : Wake(f) => sincePermit = Spacing]_ouiVars

\* A device that stays on display gets an answer: errors are tried again, and
\* nobody waits for the rate limit for ever.
VendorsAppear == \A k \in Ouis : <>(cache[k] # "none")
=============================================================================
