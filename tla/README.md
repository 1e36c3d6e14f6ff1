# netparent in TLA+

This directory is a verification project for netparent: a daemon on an OpenWRT
router that blocks devices by MAC with nftables and is driven over MQTT, and a
Go web application that shows the routers' devices and sends the commands.
Paths below are relative to the repository (`src/nft.c` is the daemon's C code,
`web/` the application).

## 1. The system

| part | state | operations | talks to |
| --- | --- | --- | --- |
| **nft** (`src/nft.c`) | the kernel's table, set `blocked_macs`, chain with two drop rules; no state of its own | `np_nft_ensure` (four nft runs), `np_nft_block`, `np_nft_unblock`, `np_nft_is_blocked`, `np_nft_list`, `np_mac_normalize` | the nft binary |
| **leases** (`src/leases.c`) | last stat, `first_run`, `list`, `prev` | `np_leases_poll`, `np_leases_republish` = rebuild, diff and emit, publish | the lease file (dnsmasq writes it), nft, mqtt |
| **handler** (`src/handler.c`) | none | block, unblock, status, list, ping, anything else | nft, leases, mqtt |
| **mqtt** (`src/mqtt.c`) | the libmosquitto session, stop flag | connect, reconnect, `on_connect`, `on_message`, tick, shutdown | broker; calls handler and leases |
| **main** (`src/main.c`) | `g_mqtt`, the exit status | start, refusal to start, signals, end | all of the above |
| **config** (`src/config.c`) | `struct np_config`, read once | `np_config_load`: options, defaults, a check | UCI |
| **log** (`src/log.c`) | level, target | `np_log_init`, `np_log` | syslog, stderr |
| **mqttbus** (`web/internal/mqttbus`) | the paho client | connect, three subscriptions, three handlers, `publishCmd` | broker, store |
| **store** (`web/internal/store`) | routers: online, devices | `SetOnline`, `ReplaceDevices`, `UpsertDevice`, `RemoveDevice`, copies for readers | |
| **server** (`web/internal/server`) | none | pages, JSON API, block/unblock | store, bus, oui, auth |
| **dashboard** (`static/app.js`) | selected router, poll handle | load, select, toggle, poll | the API |
| **oui** (`web/internal/oui`) | cache, in-flight set, time of the last request | `Lookup`, `fetch`, rate limit | maclookup.app |
| **auth** (`web/internal/auth`) | none (signed cookies) | login, logout, check | |

The daemon is one thread: `mosquitto_loop` handles a few packets and calls
`np_handle_message` for each command, then the tick polls the lease file. What
makes it hard is around that thread: the kernel's ruleset outlives the process,
every nft run is a separate transaction that may fail, dnsmasq rewrites the
file at any moment, the broker keeps two retained messages per router, and the
process or the router may end between any two steps. The application is
concurrent: one goroutine per MQTT message, one per HTTP request.

What makes each part correct:

* nft: a daemon that takes commands stands behind both drop rules; what was
  answered `ok:true` is in the kernel, and stays there.
* leases: the snapshot shows the file and the set as they are, events lead
  exactly from one snapshot to the next, one entry per MAC, no overflow.
* handler: an accepted command is in the kernel; every change is followed by a snapshot.
* mqtt: retained `online` means that commands are heard, and only that.
* config, main: the daemon connects as it was told to or refuses with a reason on
  record; a signal is neither lost nor fatal; the exit status tells the truth.
* mqttbus, store: an idle application agrees with what is retained; the last
  command given is the one that counts, also after a timeout.
* dashboard, server: the page comes to show the selected router as the store has
  it, whatever order responses arrive in; a selected router is refreshed; it leaves
  when the session ends.
* oui: one request per prefix, spaced, repeated after an error.

The hazards this code is exposed to are listed, each at its line and with the
properties that would notice, under `hazards` in `PROJECT.json`.

## 2. The modules

| module | models | proved about |
| --- | --- | --- |
| `Mac` | canonical MACs and the texts `np_mac_normalize` refuses; what fits a buffer | |
| `Nft` | `nft.c` and the part of `main.c` that calls it | via `RouterProofs` |
| `DeviceTable` | the device list as a value: what `rebuild` and `diff_and_emit` compute | via `RouterProofs` |
| `Leases` | the watcher: poll, republish, dnsmasq | via `RouterProofs` |
| `Router` | composes `Nft`, `Leases` and the command handler in the loop of `mqtt.c` | `RouterProofs` |
| `BlockList` | abstract specification: the set and the published view of it | via `RouterProofs` |
| `LeaseScan` | the loops of `rebuild()` over the array | `ScanProofs` |
| `DiffLoop` | the merge loop of `diff_and_emit()` | via `RepublishProofs` |
| `RepublishLoops` | `np_leases_republish` as it runs, round after round: `LeaseScan`, then `DiffLoop`, then the snapshot | `RepublishProofs` |
| `Config` | `np_config_load` as operators | via `ProcessProofs` |
| `Process` | `main()` from arguments to exit, over `Config`, with signals at any point | `ProcessProofs` |
| `Link` | the daemon's MQTT session over a breaking network | `LinkProofs` |
| `Mirror` | broker to store: subscriptions, handlers, `store.go` | `MirrorProofs` |
| `System` | composes `publishCmd`, the daemon's answer to a command, and `Mirror` | `SystemProofs` |
| `Dashboard` | `app.js`, the API and the session behind it | `ApplicationProofs` |
| `Oui` | the vendor lookup | `ApplicationProofs` |

`MCRouter`, `MCRepublish`, `MCMirror`, `MCProcess` and `MCSystem` give the
constants values for TLC; `Link`, `Dashboard` and `Oui` are checked as they stand.

**`Router`.** `phase` is the daemon's place in `main`: `off`, the four nft runs of
`np_nft_ensure`, `serving`. `hasTable`, `blocked` and `rules` are the kernel's.
`file` is `/tmp/dhcp.leases` with its mtime; the number of its lines stands for
its size. `lastStat`, `firstRun` and `prev` are fields of `struct np_leases`;
`republishing` says that the call of `np_leases_republish` is still ahead: a
command (`HandleBlock`, ...) or a poll (`Poll`) is one action up to that call and
`Publish` is the call itself, so the daemon may die, and the file change, between
the answer and the snapshot, and between stat and read. `rebuild` reads several
things (the file, the listing, each lookup) but the set cannot change meanwhile
(only the daemon changes it) and the file is read once, so `Publish` is one
action. `snapshot` is the retained devices message. `reply` is the response
published by the last step; `acked` (what was accepted last for each MAC) and
`feed` (the first snapshot of an incarnation plus its events) are history
variables used only by properties.

nft failing is the constant `NftFaults`: then any run may return non-zero
having done nothing. `ListRoom` is how many MACs fit the 4096-byte buffer of
`np_nft_list` and `MaxDevices` is `MAX_DEVICES`. A rewrite of the file that
neither mtime nor size shows is allowed by `SameSecond`, a reboot by `Reboots`.

**`RepublishLoops`** exists because `Leases` takes `rebuild` and `diff_and_emit`
for functions of their inputs (`TableOf`, `KeptOrListed`, `Events`). It runs the
loops: `pc` is the loop, `k`, `i` and `j` its indices, `list` and `prev` the two
arrays, `firstRun` the flag of the first round, `events` what `emit_event` has
sent in this round. Between two rounds file, listing and answers of nft may
become anything; `RestartRounds` is a new incarnation. `RoundExact` compares what
a round of loops comes to with the one step of `Leases`, so what is said of
`Router` is said of the loops.

**`Config` and `Process`.** An option is absent, empty, a number (or a text that
begins with one: `strtol` stops behind the digits), a spelling of yes or no, or
anything else; `strtol` saturates at the width of long, the cast to int wraps, the
defaults replace what is not positive. `Process` takes the result through `main`:
each step is an action that may fail where the code looks at its result, and
`Signal` may come between any two of them, kill the process before `sigaction`,
and find the client live or freed after it (`client`). `np_mqtt_run` is its
connect, its loop and its end; what the loop does is `Router` and `Link`.

**`Link`.** Each connection has a queue of packets either way and may break; the
two sides notice separately. The will is published when the broker loses or
replaces the session. Libmosquitto keeps a QoS 1 message until it is
acknowledged, sends at most `Window` of them and sends them again after a
reconnect; broker and library are external and modelled from how they are used.

**`Mirror`.** The router's messages are those of `np_leases_republish` (events,
then the snapshot) and arbitrary status messages; the broker retains and
delivers in order; `onConnect` subscribes topic by topic; up to `MaxHandlers`
messages are taken from the client and reach the store in any order, as the client
starts a goroutine for each (`bus.go:41`). `overtaken` is history: the parts of the
store (status, devices) that a handler reached before one it has to follow
(`Follows`: a status behind a status, a snapshot behind a snapshot or an event),
until a message of that part is taken that finds none of them running.

**`System`.** One device is blocked and unblocked by one administrator. `pending`
is what the paho client keeps of `publishCmd`'s messages: `sent`, or not, and
`stored`: taken down without a connection, or not acknowledged when one was lost.
Paho keeps its store in a map, so what is stored goes out on the next connection in
any order, and beside the messages of new calls. A caller that waits no longer
(502) changes nothing of this, so the next command may be given at any time.
`toRouter` is the broker's queue for the daemon's clean session, which an `Outage`
or a reboot empties. `ServeCommand` is the handler: `NftRun` is the run of nft, which
may fail (a failed add is an error and ends the command without a round, a failed
delete is not noticed), and after an accepted command the round is `Mirror`'s, so the
list travels the modelled way back to the store. The application sends valid MACs only
(`server.go:162`), so the handler's "mac required" is not reached from here; `Router`
has it. `TablesOf` is what `rebuild` makes of the set: exact, or, when a lookup or the
listing failed or one of the buffers was too small, without a block that is there.
`lastWord`, `disturbed` and `blind` are history: the last command; that a command was or
may be dropped, swapped, sent again, refused by nft or undone by a reboot since there
was last none on its way; that the last list missed a block.

**`Dashboard`.** The script is one thread cut at its awaits: `requests` is the bag
of calls of `api()` that wait, each with what its caller goes on to (`after`);
`Serve` answers any of them from the store as it is then, `Response` hands any
answered one to the script, so answers are computed and drawn in any order.
`selected` is `state.selectedRouter`, `polls` the intervals that run, by their
handles, `pollHandle` is `state.pollHandle`, `timers` the timeouts `toggle` leaves, `shown` and `rows` what the table shows. A version stands
for a router's devices. `session` is the cookie of `auth.go`: `Login` sets it,
`Logout` clears it, `Expire` ends it at any moment; without it the API answers 401.

**`Oui`.** One goroutine per prefix goes from the rate limit's lock through its
sleep and the call to the deferred function. `mu` is held for single steps and
needs no variable; `rateMu` is held by the goroutine that sleeps. Time is counted
from the last permit and matters up to `Spacing`.

## 3. The runs

Passing runs:

| run | question | bounds |
| --- | --- | --- |
| `router_core` | the daemon with a working nft: rules stay in place, accepted unblocks hold, the settled snapshot is exact and current, events lead from snapshot to snapshot; it implements `BlockList`; a lease file that stays is published | 2 MACs, 3 lease files, mtimes 1..2, reboots, fairness below |
| `router_faults` | the same daemon when every nft run may fail and both buffers hold one device: types, rules, accepted blocks, snapshot never overstates | 2 MACs, 5 lease files, mtime 1, no reboots |
| `republish` | array bounds; an array strictly sorted and equal to `TableOf`; exactly the differences, each once, in MAC order; a round of the loops is the step `Leases` takes | 3 MACs for 2 places; 56 lease files of up to three lines, four listings, two sets of answers; any number of rounds and restarts |
| `mirror` | the idle store equals what is retained, but for a part that handlers reached in the wrong order; a connected application catches up, in each topic but those whose subscription was refused | 2 rounds, 1 status message, 2 connections, two handlers at a time, failing subscriptions, fairness below |
| `link` | when nothing is under way, `online` is retained only of a router that is there, and of every one that takes commands; one that is shown online listens; a running daemon comes online; a dead one goes offline | 2 starts, 1 break, 2 commands, failing subscriptions, a window that is never full, fairness below |
| `process` | the connection is the one that was asked for, but for a port that no int holds; errors are written; exit status 0 means a good end; the signal that stops the daemon finds the client alive and does stop it | an int of 4 bits and a long of 6, ports to 5, some 180 sections of options, 2 signals, fairness below |
| `system` | once no command is on its way the kernel is as the administrator said last, unless a command was disturbed; a page that has read the daemon's last list in turn shows what the kernel has, but for a block the daemon failed to see; and it comes to have read it | 1 device, 2 commands, 2 connections of the application, two handlers at a time, 1 upset (an outage of either side, a failure of nft that makes a difference, a reboot or a change of the lease file), fairness below |
| `dashboard` | a selected router is polled or about to be; a selection only the user replaces; the page comes to show the selected router as it is; a page without a session leaves | 2 routers, 3 requests under way, 2 changes of the store, 1 restart, 1 failed request, 1 click, 1 end of the session, fairness below |
| `oui` | one goroutine per prefix and none once it is known; permits a full spacing apart; every prefix is answered | 3 prefixes, spacing 3 ticks, 3 failed requests, fairness below |

Why such bounds are enough: with two MACs one command is on the MAC a property
looks at and one on another; two places for devices and one in the listing put
both buffers at and beyond their limit; lines repeat a MAC, miss a field or do
not parse; mtimes 1..2 give a write in the same second and one in the next. A
second start meets what the first left behind, a second connection what the
first left unread, a second command the first one's late delivery or its place in
the client's store, a second handler the first one's. The widths are those of the
64-bit boards scaled down (long wider than int), and `Numbers` has a value on either
side of every comparison in `config.c`: of the long's and the int's ends, of zero, and
of the largest port, and some that wrap to a port and to a negative. Three requests let an answer
overtake another while a third is computed from a newer store; three prefixes put
one goroutine in the sleep and two behind the lock. `MaxMtime`, `MaxRounds`,
`MaxStatus`, `MaxSessions`, `MaxHandlers`, `MaxStarts`, `MaxBreaks`, `MaxCommands`,
`MaxUpsets`, `MaxFaults`,
`MaxSignals`, `MaxRequests`, `MaxChanges`, `MaxRestarts`, `MaxFailures`,
`MaxClicks`, `MaxExpiries` and `MaxErrors` bound counters of the environment; where
such a bound may stop the system, or the system ends as it should, the cfg sets
`CHECK_DEADLOCK FALSE`. In `system` the rounds are those that commands, the first tick
and a changed lease file bring (`MaxRounds` is 0), and status messages, which do not
touch the devices, are left to `mirror`; its theorems hold for any number of upsets.

Runs that find the code at odds with what is said of it (`findings`):

| run | what TLC shows |
| --- | --- |
| `reboot_loses_set` | an accepted block is gone after a reboot; README.md:21 promises that it survives |
| `unblock_lies` | nft fails to delete, the answer is `ok:true`; docs/MQTT_PROTOCOL.md:152 |
| `mirror_unordered` | two handlers at a time store an older status over a newer one (`OnlineKnown`); README.md:22-23 |

### Where a property ends

Some properties hold under a premise or a choice of constants; what lies beyond
can be seen by changing it:

| change | what TLC shows |
| --- | --- |
| `NftFaults = TRUE` in `router_core` | `StaysEnforced`: a restart flushes the chain and may fail to add the rules again (`src/nft.c:134`) |
| `ListRoom = 1` in `router_core` | `SnapshotAccurate`: a set beyond the buffer of the listing is cut, and a blocked MAC without a lease is missing |
| `SameSecond = TRUE` in `router_core` | `SnapshotCurrent`: a lease file written twice in a second, of one size, is missed (`src/leases.c:290`) |
| `Window = 1` in `Link.cfg` | `StatusRight`: behind a full window a stop sends DISCONNECT without offline, and the router stays online (`src/mqtt.c:217`). The library's window is 20, which the events of one round can fill |
| `deaf` out of `ComesOnline` | `on_connect` gives up when its subscription fails locally and leaves a connection that hears nothing (`src/mqtt.c:62`) |
| `disturbed` out of `LastWordHolds` | a command to a router that is away is acknowledged and dropped; one sent again, or given during an outage, reaches the broker behind a later one (`bus.go:209-212`); nft fails, or the router reboots, and the command is without effect |
| `overtaken` out of `MirrorAccurate` or `PageTruthful` | an older message is stored last, and stays until the next one (`bus.go:41`): `mirror_unordered` |
| `blind` out of `PageTruthful` | a lookup or a listing fails and the page shows a blocked device as open |
| `~PortWraps` out of `ConnectsAsAsked` | a port beyond int wraps to one that nobody gave, where long is wider than int (`src/config.c:44`), as on the aarch64 boards of docs/BUILDING.md:20 |
| `signals <= 1` out of `FirstSignalSafe` | a second SIGTERM during the shutdown writes to the freed client: `g_mqtt` is never cleared (`src/main.c:98`; `mqtt.h:34` says "signal-safe") |
| the premise on `polls` out of `PageCatchesUp` | `loadRouters` rejects in `selectRouter`: no devices are loaded and no interval is started (`app.js:63`) |

`PageCatchesUp` also bounds a window rather than closing it: `toggle` posts to
`state.selectedRouter` (`app.js:114`) while the table may still show another
router's devices, so a click inside of the window goes to a router that is not
the one on display. `OneCallPerVendor` is less than the "one network call per unique
vendor, ever" of web/README.md:13: a call that fails is made again. And two answers of
the daemon cannot tell a failure: a lookup that fails is answered "not blocked"
(`src/nft.c:196`; `src/nft.h:24-26` promises -1), and a listing that is cut off is
answered `ok:true` (`src/nft.c:214`; docs/MQTT_PROTOCOL.md:61 says "every MAC").
`np_nft_is_blocked` and `np_nft_list` of `Nft` have both; no property is stated of
these answers, since with a working nft they repeat their definition. `AckedBlock` is in `router_faults` and not in `router_core`
because it needs a router that does not reboot.

### Fairness

| specification | assumes | because |
| --- | --- | --- |
| `RouterFairSpec` | strong fairness of `Poll`, weak fairness of `Publish` | `mosquitto_loop(…, 500, 1)` handles a bounded number of packets and the tick follows each call, so commands that keep disabling the poll's guard cannot keep it out for ever; `Publish` is a call already begun |
| `LinkFairSpec` | weak fairness of the loop, of reconnecting, of the broker's reading and of both keepalives | the loop goes round every 500 ms and reconnects on error; nothing is assumed of starts, stops and breaks |
| `MirrorFairSpec` | weak fairness of subscribing, receiving and handling | the goroutines of the application run; that it stays connected is the property's premise |
| `SystemFairSpec` | weak fairness of the same steps taken together, of the daemon's commands, rounds and first tick, and of the client's sending and the broker's acknowledging | the daemon's loop and paho's goroutines run; that both sides stay connected is the property's premise |
| `ProcessFairSpec` | weak fairness of the steps of `main` | the process is scheduled, and `mosquitto_loop` returns after at most 500 ms; signals are owed by nobody |
| `DashFairSpec` | weak fairness of answers, of callbacks, of the interval and of timeouts | a browser runs the callbacks of a page that is open and a request is answered or fails; nothing is assumed of the user |
| `OuiFairSpec` | weak fairness of time, of the goroutines' next step and of `Lookup` | `callAPI` has a timeout, and a device on display is asked about every 5 s |

Every property has a mutant in `PROJECT.json`: a plausible slip in one mapped
definition under which the same run reports the property violated.

## 4. What is proved

All of it with TLAPS, for every value of the constants that the named `ASSUME`s
allow. `RouterProofs`, for every finite set of MACs, every set of lease files, all
sizes of buffers and every choice of faults not named in the last column:

| theorem | property | assumption |
| --- | --- | --- |
| `TypeCorrect` | `RouterTypeOK` | |
| `ServingIsEnforced` | `ServingEnforced` | |
| `SnapshotSound` | `SnapshotNeverOverstates` | |
| `FeedFollows` | `FeedMatches` | |
| `BlockIsKept` | `AckedBlock` | `~Reboots` |
| `UnblockIsKept` | `AckedUnblock` | `~NftFaults` |
| `SnapshotIsCurrent` | `SnapshotCurrent` | `~SameSecond` |

The assumptions are those whose negation section 3 refutes. The argument:
`RouterInv == RouterTypeOK /\ SetupInv /\ WatcherInv` is inductive.
`ServingEnforced` alone is not: `EnsureDaddr` adds only the second rule, so
`SetupInv` says that the first is in place in phase `daddr`. `FeedMatches` alone is
not: the next events are taken against `prev`, so `WatcherInv` says that `prev` and
the snapshot are one list, and that a watcher that is not serving has not
published. `SnapshotNeverOverstates` is restored by every command because a
command that changes the set leaves the watcher republishing (`CommandEffect`),
and by `Publish` because what a list marks is in the listing or answered a lookup
(`RebuildsType`). `FeedFollows` rests on `EventsTransform`: applying the events of
two tables to the first gives the second. The other theorems use `Invariance` and
a small step argument each.

The last part of `RouterProofs` says what cannot be said of a daemon whose nft may
fail; all of it under `~NftFaults`, again for every set of MACs and lease files:

| theorem | property | assumption |
| --- | --- | --- |
| `RulesStay` | `StaysEnforced` | |
| `SnapshotIsExact` | `SnapshotAccurate` | `Roomy` |
| `RouterShowsBlockList` | `ShowsBlockList` | `Roomy` |

`Roomy`: both buffers have room for every MAC (section 3 shows what a smaller one
does). A buffer with room for a set holds all of it (`FitsWhole`), so the listing
is the kernel's set (`ListingWhole`), and what the lease file does not name finds
room behind what it names: every list `rebuild` may come to marks exactly the set
(`RebuildsExact`). That each command that changes the set leaves the watcher
republishing does the rest. `RulesStay` needs one more fact, that the table exists
in the phases behind the script: then the rules a start flushes are added again
or the daemon is not serving yet.

`RepublishProofs`, for every room in the array and all sets of lease files,
listings and answers, of any length, over any number of rounds and restarts:

| theorem | property |
| --- | --- |
| `ListAlwaysFits` | `ListFits` |
| `EntriesApart` | `OneEntryPerMac`: at every step of the loops; of the finished array `ScanExact` says it |
| `RebuildIsExact` | `ScanExact` |
| `DiffIsExact` | `DiffExact` |
| `EachOnceInOrder` | `AnnouncedOnce` |
| `RoundIsOneStep` | `RoundExact` |

The inductive invariant is `RoundInv`: `ScanInv`, the array within its room, with
one entry per MAC (`AddOrMerge`), strictly sorted once `Sort` has run (`Sorting`: a
weak order on entries that are apart is strict); the same of `prev`; and, in the
merge loop, `MergeInv`. What is announced being what is owed is not inductive:
`MergeInv` adds that everything behind the two indices, and everything announced,
lies below what is ahead of either (`Behind`). Then an entry that is smaller than
its counterpart is missing from the whole other list, not just from what is left
of it, and its announcement comes after all the others. `MergeSame`,
`MergeOnlyInPrev` and `MergeOnlyInList` are the three steps.

That the loops end up with what `TableOf` defines needs no induction on the file:
`ExactInv` of `ScanProofs` says, at index `k`, that the array is the table of the
part of the file before `k`. `ReadInv` says it of the reading: the MACs in the
array are those `Kept` keeps of the prefix (`KeptSame`, `KeptGrows`), with the
fields of the last line of the prefix that has them (`LastFieldGrows`).
`MergingInv` adds what has been called back so far of the listing, of which the
array holds as much as its room allows (`FilledIsAllowed` makes that one of the sets
`KeptOrListed` allows), and `MarkInv` says which entries are marked. Sorting
permutes the entries, so `Rebuilt` has the table. Then `TableInv` carries
the table through the merge loop, where what `DiffIsExact` says is announced turns
out to be `Events` of the two tables (`OwedAreEvents`), and into the snapshot.

`ProcessProofs`, for every set of sections, every width of int and every number
of signals:

| theorem | property | assumption |
| --- | --- | --- |
| `ErrorsAreHeard` | `ErrorsHeard` | |
| `ZeroIsAGoodEnd` | `ZeroMeansStopped` | |
| `StoppingSignalSafe` | `FirstSignalSafe` | |
| `ConnectionAsAsked` | `ConnectsAsAsked` | |

Its invariant `PInv` says of each step of `main` what is settled by then (`Order`),
that the configuration is what `np_config_load` made of the options (`Loaded`), and
what a signal has left behind (`Told`).

`ApplicationProofs`, for any number of prefixes, any spacing and any number of errors:
`OneCall` (`OneCallPerVendor`) and `CallsAreSpaced` (`PermitsSpaced`). `OuiInv` adds
that the prefix of every goroutine is registered in `inflight`, and that there is
one sleeper, whose sleep ends when the spacing has passed.

`LinkProofs`, for any number of starts, breaks and commands: `StatusIsRight`
(`StatusRight`) and `OnlineMeansListening` (`OnlineListens`), both of the behaviours
in which the messages not yet acknowledged stay fewer than the window (`[]Roomy`;
section 3 shows a full one). Neither property is inductive, because a
packet may still be on its way when its connection is long over. `LinkInv` orders
what each connection carries: CONNECT first and only of a connection that is not
the session's yet, DISCONNECT last and behind offline, an online never ahead of its
subscription (`Queue`); and on the connection the daemon has, a subscription is
followed by an online until that is retained (`Opened`). A lemma says how each of
the things that happen to a queue keeps that order; there is one for each step of
daemon and broker. `RemoveFirstType` rests on the library's `WFMin`: the index that
`RemoveFirst` takes exists because every set of naturals has a least element.

`MirrorProofs`, for all device lists and any number of rounds, status messages,
connections, restarts and handlers:

| theorem | property |
| --- | --- |
| `MirrorIsAccurate` | `MirrorAccurate` |

The code does not see to the order of the handlers, so the property itself says
what an overtaken part of the store is, and the theorem has no premise. The invariant
says where the retained message is (`Arrives`), unless its part is overtaken: the
last of its kind on the wire; or none of its kind is there, and it is the last
among the handlers; or it is what the store shows. For devices the kind includes the
events, and between an event and the snapshot behind it nothing is said
(`midRound`): that snapshot replaces what the events did. A subscription made at any
point puts the retained message last on the wire, which is why it does not matter
in which order the topics are subscribed; and a message taken while nothing of its
part runs puts an overtaken part right, because it is retained or one behind it is.

`SystemProofs`, for any number of commands, outages, reboots, failures of nft,
reconnects and handlers that run at a time:

| theorem | property |
| --- | --- |
| `LastWordCounts` | `LastWordHolds` |
| `PageIsTruthful` | `PageTruthful` |
| `LastWordIsShown` | the two combined: with nothing on the way and nothing disturbed, a page that has read the daemon's list in turn shows the last command; only a block may be missing, that the daemon failed to see |

The invariant of the first follows the last command through
the queues (`LastIs`): while the last message the client keeps is unsent it is
there, else it is the last the broker has for the daemon, else it is in the kernel;
and, nothing disturbed, the client sends in order, and what it sends out of its
store is alone there (`SentInOrder`), so no acknowledgement takes the last word away
and no stored message comes behind it. Without a connection everything is in the
store (`StoredWhenAway`). The second adds `ListIsKernels`: from its first round on the
daemon's list marks the device only if the kernel has it, and does if the kernel has
it, unless `blind`; and once the round is out that list is what the broker retains.
The way from there to the store is that of `MirrorProofs`, whose step lemmas are used
as they are: every step of `System` is one of `Mirror`, or a round, or leaves it alone.

Also in `ApplicationProofs`, for any number of routers, requests and everything the
user, the network and the store may do: `SelectionIsPolled` (`SelectionPolled`) and
`SelectionIsKept` (`SelectionKept`). The first needs the invariant that a selection
without an interval has a request of its `selectRouter` under way, whichever answer
arrives, also one that belongs to a selection given up since. `LeftAtRest` adds that a page that was left has
no request, no interval and no timeout, so nothing selects a router behind the
login page.

So every safety property of the passing runs has a theorem. Only model-checked is
liveness (`SnapshotCatchesUp`, `ComesOnline`, `GoesOffline`, `MirrorCatchesUp`,
`PageShowsKernel`, `StopHonoured`, `PageCatchesUp`, `ExpiredLeaves`, `VendorsAppear`),
which is out of the prover's reach.

## 5. What is not modelled

* `np_mac_normalize` and the walk over nft's output character by character: a
  text is a MAC or one that is refused. `ouiKey` and `validMAC` of the
  application likewise.
* TLS, credentials, the signature of the cookie and the check of the password:
  a session is there or not, a handshake is part of a connection that comes up or
  does not.
* Memory exhaustion, but where `main` or `np_mqtt_create` looks at it: a message
  that cannot be allocated vanishes, and a watcher that cannot be (`main.c:83-84`)
  is absent. A daemon whose will could not be set, and which goes on without one
  (`mqtt.c:164-171`): `Link` always has the will. The truncation of a topic in
  `np_mqtt_publish_devices`.
* A CONNECT that the broker refuses (`on_connect` with `rc != 0`).
* The text of messages, of log lines and of the page; `last_seen` and other time
  stamps; lines of the lease file longer than 511 bytes; nft's own behaviour
  beyond "a run does all or nothing".
* The application's configuration, its `main`, `hashpw`, packaging: they read
  values once or wire what is modelled.
* Two daemons with one device id, which take the session from each other for
  ever. `Link` is not composed with `System`: what `System` uses of it is that a
  serving daemon is subscribed, and that its session may end at any time.

The status of every component is in `PROJECT.json`.

## 6. Plan

1. Done: the daemon (`Nft`, `DeviceTable`, `Leases`, `Router`, `BlockList`,
   `RepublishLoops`, `Config`, `Process`, `Link`), the application (`Mirror`, `Oui`,
   `Dashboard`) and their composition (`System`); the proofs of section 4.
2. Next proof: `System` restated on `Router` instead of its own summary of it (a
   command changes the set unless nft fails, and ends with a round unless it is
   refused), so that `LastWordIsShown` reaches
   down to the ruleset.
3. Further modelling: `np_mac_normalize` and the scan of `np_nft_list` as functions
   on texts, against a reference definition.
