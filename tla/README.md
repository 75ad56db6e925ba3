# A TLA+ verification of dns-over-https

This directory models the program logic of `doh-client` and `doh-server`: how
the client chooses among its upstreams and reaches them, what both daemons do
with one query, alone and together, what becomes of the subnets, records and
times to live in the messages, and how a daemon starts, serves and ends beside
others. TLC checks the models on small instances, and TLAPS proves all the
safety properties of the passing runs for every instance. `PROJECT.json` lists
components, runs, properties, source lines, hazards, findings and theorems in
machine-readable form.

## The system

`doh-client` is a DNS server on the local machine. Each query that it receives
is sent as an HTTP request to one of several configured *upstreams*, in the
JSON format (type Google) or as a DNS message (type IETF), and the response is
turned back into a DNS reply. `doh-server` is such an upstream: it receives
HTTP requests in either format, asks a DNS resolver over UDP, TCP or TLS, and
answers in either format.

| Component | State it keeps | Operations | What makes it correct |
|---|---|---|---|
| Selectors (`doh-client/selector`) | upstreams with `weight`, `effectiveWeight`, `currentWeight`; `lastChoose` and `currentWeight` of the LVS selector. Shared by all query goroutines and all probes; atomic accesses, no lock | `Add`, `StartEvaluate` and its probe rounds, `Get`, `ReportUpstreamStatus` | effective weights stay in range and recover; `Get` returns, gives each upstream its share, starves none |
| Query handler of doh-client (`client.go`, `ietf.go`, `google.go`) | per query: the message, `r.Id`, the HTTP response, `req.reply` | passthrough, `Get`, request generators, response parsers, report | one reply per query, with its ID, in its size; the status reported is what happened |
| Request handler of doh-server (`server.go`, `ietf.go`, `google.go`, `json-dns/error.go`) | per request: `DNSRequest` | parsers, `patchRootRD`, `doDNSQuery`, generators | one HTTP response per request; retries; no truncated or partial reply; ID and caching right |
| PID file (`main.go` of both) | a file, the process table | `checkPIDFile` | one daemon per file, no needless refusal |
| Listeners, startup, configuration (`main.go`, `config.go`, `NewClient`, `NewServer`, `Start`) | the configuration, one goroutine per socket, a channel of errors | `LoadConfig`, `loadConfig`, `Start` | a daemon serves on all its sockets or ends; what loads suffices for the handlers |
| JSON codec and TTLs (`json-dns`) | none | `Marshal`, `Unmarshal`, `fixRecordTTL` | TTLs never grow, no record takes another with it |
| Client subnet (`findClientIP`, `IsGlobalIP`) | a table of networks | | no private address leaves the network; the resolver is asked on behalf of the client; `no_ecs` holds |
| Outgoing connections (`newHTTPClient`, the bootstrap resolver, the probes) | local addresses, found at startup or per lookup | `DialContext`, `LookupIPAddr`, `getInterfaceIPs` | no query leaves by another interface; every usable address is tried |
| Packaging, logger | | | |

The components interact as follows. `NewClient` fills the selector and `Start`
launches the listeners and then the probes. Every query runs `handlerFunc` in
its own goroutine; handlers meet only in the selector (and in an HTTP client
that is not changed after startup). Requests to doh-server share only the
configuration. Client and server meet in HTTP, possibly through proxies and
caches. Daemons on one machine meet in the PID file and in their sockets.

The hard parts are the lock-free selectors (every query and every probe changes
the same fields, in steps that interleave), the clamping of weights in two
atomic operations, the barrier between probe rounds, a retry loop with three
transports and two kinds of second exchange, values that are changed and must
be put back (`r.Id`, `msg.Id`, the added OPT record), decisions that two
programs or two functions must make alike (formats, subnets, netmasks), times
that are written by one clock and read by another, addresses of an interface
that change after they were looked up, and a PID file that outlives its daemon.
`hazards` in `PROJECT.json` lists them by line.

## Modules

| Module | Models | Extends |
|---|---|---|
| `Selector` | the selector interface: startup, weights, reports, probes; `Get` returns any upstream. Abstract specification of the two below, and what `RandomSelector` does | |
| `NginxWRR` | `NginxWRRSelector.Get`, one step per atomic operation | `Selector` |
| `LVSWRR` | `LVSWRRSelector.Get`, `gcdWeight`, `maxWeight`, `gcd`, one step per atomic operation | `Selector` |
| `DoHServer` | one HTTP request to doh-server | |
| `DoHClient` | one DNS query to doh-client, over a server that may answer anything | |
| `EndToEnd` | doh-client over doh-server over its resolvers | `DoHClient`, instantiates `DoHServer`, `DNSService` |
| `DNSService` | what the client of a query is promised: abstract specification of `EndToEnd` | |
| `GlobalIP` | `globalip.go`: the table of networks and `IsGlobalIP` | |
| `JSONDNS` | `json-dns`: `Marshal` and `Unmarshal` as operators | |
| `Messages` | one exchange by what its messages carry: subnets, records, TTLs | `GlobalIP`, `JSONDNS` |
| `PidFile` | `checkPIDFile`, one step per system call; other processes, kills, reuse of PIDs | |
| `Daemon` | `main` of both programs: PID file, configuration, listeners, end | `PidFile` |
| `Outgoing` | the connections that doh-client opens: dialing, bootstrap lookups, interface binding, probes | |
| `SelectorProofs`, `NginxWRRProofs`, `LVSWRRProofs`, `DaemonProofs`, `DoHServerProofs`, `OutgoingProofs`, `MessagesProofs` | theorems of the module of that name | that module; those of the selectors `SelectorProofs` |
| `EndToEndProofs` | theorems of `DoHClient` and `EndToEnd` | `EndToEnd`, instantiates `DoHServerProofs` |
| `MC...` | instances for TLC | |

**Selector.** `config` is the `[upstream]` section, with the statuses that
handlers can report (`statuses`) and the outcomes that probes can have
(`outcomes`) while the process runs; upstream number *i + 1* is index *i* of the
Go slice. A handler is `"idle"`, has got an upstream
(`"query"`), or has done the `AddInt32` of a report and owes a clamping
`StoreInt32` (`"storeMin"`, `"storeMax"`); a probe goroutine is the same.
Whether a store is owed is decided with the value that `AddInt32` returned;
what other goroutines do before the store is made is not seen by it, as in the
code. A panic in a goroutine ends the process (`phase = "panicked"`).

**NginxWRR and LVSWRR** add the variables of `Get` and a record `walk[h]` of
its local variables with the next atomic operation in `at`. All other steps are
those of `Selector` with these variables unchanged, so the refinement mapping
is the identity on the variables of `Selector`; a step of a walk is a stutter.
The last step hands the handler whatever index the walk ended with (`Got`), in
range or not; that this is `Selector`'s `Get`, which returns one of the
upstreams that were added, is what the refinement has to show. `gcd` is stepped through iteration by
iteration, with Go's `%` for negative operands, because it may not end.

**PidFile and Daemon.** `file` records its content and which process created
it: a process that writes after its file was removed writes to an unlinked
file. Processes of either program start at any time, load any of `Files`, take
their sockets one by one, lose them, and are killed at any point; PIDs are used
again, also by unrelated processes. Two history variables serve the
properties: `overlap` says that some check was begun during another, `crashed`
that a check ended between the creation of the file and the write. Two
processes of different programs that are given the same PID file and the same
port are a misconfiguration, and contained in the run.

**DoHServer and DoHClient** keep every branch of the handlers and abstract
names, records and text away. What a branch depends on is a field of the
request or of the reply. The exchanges (`dns.Client`, `http.Client`) are
external and end with any reply or error; `dns.Client` gives a nil reply with
most errors, and a partial one when the message does not parse. The message
of doh-server has one question; in the code `indexQuestionType` looks through
all of them.

**EndToEnd** puts the two together. `RequestGoogle` and `RequestIETF` are the
requests that doh-client generates, in the terms in which `DoHServer` parses
requests; `ResponseOf` is what the client sees of what the server writes. The
client may give up while the server still works. Upstreams that are not a
doh-server answer anything, as in `DoHClient`. `Service` is the refinement
mapping to `DNSService`; what it substitutes for `ids`, `limit` and `answers`
spells out the exceptions that the code makes.

**Messages, JSONDNS, GlobalIP** follow the data that the handlers leave out,
through the steps that succeed. An address is the sequence of its bytes, so
that masks and the table of networks are those of the code. Time is counted in
half seconds, as expiry times and HTTP dates are written in seconds and
compared with an exact clock. A response may stay in HTTP caches, with or
without a new `Date`, and the clock of doh-client may be behind. The property
`SubnetIsGlobal` says which addresses are global by the first and last address
of each network instead of by masks.

In `EndToEnd`, response codes include BADVERS, for all those that need more
than the 4 bits of the header. `Unmarshal` puts the low 4 bits into `Rcode`
and the others into the OPT record, where `Pack` of `miekg/dns` writes over
them with the high bits of `Rcode`, which are 0.

**Outgoing.** `local` are the addresses that the closure of `newHTTPClient`
keeps, `dnsLocal` the one of the DNS clients; bootstrap lookups look at the
interface each time. A probe has the dialer of `net` and is bound to nothing.
The interface changes at any moment. Without `interface`
the dialer of `net` is modelled as trying addresses in turn.

Definitions marked *Fault* are what a plausible bug would make of the
definition after them. No specification uses them; `PROJECT.json` pairs each
with the property that notices it.

## Runs

| Run | Instance | Shows |
|---|---|---|
| `selector` | 2 handlers, all selectors, weights 0, 1, 2, 6, 7, 6 beside 2, a URL that is rejected | `WeightClamped`, `Recovery` |
| `nginx` | 2 handlers; four sets of weights without reports and probes that end, two with timeouts and answering probes | `Conservation`, `ShareBounded`, `NoStarvation`, `NginxSpec => SafetySpec` |
| `lvs_sequential` | 1 handler, all reports, no probes, weights that are not all equal | `GetDoesNotPanic`, `GcdIsGreatest`, `GetReturns`, `LVSSpec => Spec` |
| `lvs_concurrent` | 2 handlers, reports and probes | `LVSTypeOK`, `SelectsUntilPanic` |
| `server` | all requests of `MCDoHServer`, the replies of a resolver, 2 tries, 3 transports | `StreamWhenNeeded`, `TailoredIsPrivate`, `TransactionIDKept`, `ResponseTypeKnown`, `Responds` |
| `end_to_end` | every query of `MCEndToEnd`, every response of other servers, a doh-server with 2 tries | `GoodResponseRelayed`, `RequestUnderstood`, `NoFalseSuccess`, `ESpec => ServiceSpec` |
| `messages` | every origin of a subnet, both sides of every limit of the table, records that age in a cache, messages that JSON cannot express | `SubnetIsGlobal`, `NoECSHides`, `ClientSubnetWins`, `SubnetEchoed`, `RecordsKept`, `TTLNeverGrows`, `ExpiresOnTime` |
| `daemon` | 3 PIDs, both programs, six configuration files, starts that overlap, kills anywhere | `AtMostOneDaemon`, `FileNamesDaemon`, `CheckInv`, `TurnedAwayForCause`, `ConfigSuffices`, `CheckEnds`, `ServesOrEnds`, `DoubleStartResolved` |
| `outgoing` | 24 sets of options, 4 interfaces, 4 hosts, 2 changes of the interface | `BoundToInterface`, `TriesEveryAddress` |
| `lvs_equal`, `server_ixfr`, `outgoing_probes` | small; the last that of `outgoing` | the disagreements below |

*Bounds.* Weight 6 is the smallest that one `+5` does not restore from 1 when
another step came before it, and every clamp is reached with weights up to 7.
Two handlers and the probe of an upstream let two other goroutines run between
the `AddInt32` and the `StoreInt32` of one. The walks of two handlers already
interleave in every pair of steps; the bounds of `ShareBounded` grow with the
number of handlers, and its theorem is for any number. A state constraint bounds
`currentWeight` where weights change under a walk (`MaxCurrentWeight` in
`MCNginxWRR`): `Get` can load a weight that is about to be clamped, so that
nothing else bounds it there. It does not apply to steady weights, the ones
that `ShareBounded` and `NoStarvation` are about. Three PIDs are a stale file and two starts that
find it, or a daemon, a start and an unrelated process. Sizes in `MCEndToEnd`
lie on both sides of 512 and of 1232. With two tries a failed try is followed
by another one over each transport; `server_ixfr` has the three tries of
`doh-server.conf`. The requests of `MCDoHServer` vary the media types, the
content and the question one group at a time, as the code decides on them one
after the other; the exchanges of `MCMessages` vary subnets and records
separately, as neither depends on the other. TTLs up to 3 s and 3.5 s in a
cache put a record before, at and after its end. Two changes of an interface
let an address go and come back. `MaxLookups` bounds how often the resolver of
`net` asks again.

*Fairness.* Weak fairness of each goroutine that is able to run (the Go
scheduler), of a probe (its `http.Client` has a timeout), of a call of `Get`
that has begun, of a process in `checkPIDFile`, `Launch`, `Bind` and `Return`
(`Work`), of a request handler of the server (the exchanges have timeouts). In
`EndToEnd` only the handler of the client is fair (its context has a deadline):
that a query is answered asks nothing of the server. No query is assumed to
arrive and no handler is assumed to report. `NoStarvation` and `Recovery` state
what else they need as their own premise. No fairness is assumed of kills,
starts, failures of listeners or changes of the interface.

*Type invariants.* Those of `Selector`, `NginxWRR`, `PidFile`, `DoHServer`,
`DoHClient`, `EndToEnd` and `Outgoing` are proved and no run needs them; that of
`LVSWRR` is also checked, because its indexes are a hazard of their own.

*Deadlock* is checked in every run; processes that have ended stutter by an
explicit action.

*Refinement.* `NginxWRR` and, one query at a time with weights that are not all
equal, `LVSWRR` implement `Selector`; `EndToEnd` implements `DNSService`, safety and liveness.

## Findings

1. **LVS, equal weights** (`lvs_equal`). With equal weights, such as the 50 of
   every upstream in `doh-client.conf`, the first `Get` ends the process with
   `panic("current weight is 0")`.
2. **IXFR over UDP** (`server_ixfr`). A failed exchange makes `doDNSQuery`
   dereference a nil reply instead of going on to the next try; hence
   `Responds` excepts the panic of an IXFR query.
3. **Probes and `interface`** (`outgoing_probes`). `doh-client.conf` says of the
   option "Interface to bind to for outgoing connections." The `http.Client` of
   the weighted selectors (`nginxWRRSelector.go:20`, `lvsWRRSelector.go:22`) is
   not given it: every probe of an upstream leaves by the default route, with
   the resolver of the system instead of the `bootstrap` servers, and over IPv6
   in spite of `no_ipv6`.

The passing properties are as strong as the code allows; where it stops short
of what one would wish, the property says so:

- With several queries at a time, `LVSWRRSelector.Get` may come to the panic of
  finding 1 for other weights too (`SelectsUntilPanic` allows it), and beside a
  probe that has not yet clamped a weight, `gcd` may not end or divide by zero
  (`GetReturns` is checked without probes).
- `NginxWRRSelector.Get` compares values that other calls have changed since:
  with *k* queries at a time an upstream may be overdrawn by 1 + 2 + ... + *k*
  rounds of all the weights, not by one as in the sequential algorithm
  (`ShareBounded`). A bound of *k* + 1 rounds, which holds for two queries at a
  time, does not hold for three, and the weights 1 and 9
  already exceed it.
- Two starts that find the same stale PID file can both pass (`AtMostOneDaemon`
  and `FileNamesDaemon` are stated up to `overlap`). If they use the same
  sockets, one of them ends, or both (`DoubleStartResolved`).
- A start is refused when the PID in a stale file is in use, even if it is the
  PID of the starting process, as that of a restarted container; and on an
  empty file that a crash left (`TurnedAwayForCause`).
- A query that does not pack is answered under the ID 0 (`ServiceSpec`).
- With `no_ecs` a query that has a subnet keeps it in a dns-message
  (`NoECSHides`).
- Over JSON an Rcode above 15 is cut, although `response.go` has a "response
  code (32 bit integer)" and `Marshal` writes all of it: BADVERS arrives as
  NOERROR (`NoFalseSuccess` and `RecordsKept` except it). Records with escaped names or unknown
  types are dropped too (`RecordsKept`); expiry times are read with the clock of
  doh-client (`TTLNeverGrows`). Over dns-message a cache that keeps `Date`
  hides the age of a response (`ExpiresOnTime`).
- Bootstrap servers are asked by the default route if the interface has no
  address of their family at that moment, and IPv6 ones always with `no_ipv6`,
  although `doh-client.conf` says that "bootstrapping is not controlled by this
  option"; `BoundToInterface` is about the connections that queries travel on.
- The table of `globalip.go` has fourteen networks and leaves out others of RFC
  6890 (the rest of 192.0.0.0/24, 192.0.2.0/24, 198.18.0.0/15, 198.51.100.0/24,
  203.0.113.0/24, 2001:db8::/32). `SubnetIsGlobal` and *GlobalIPCorrect* are
  about the masks and limits of those that it has.
- The addresses of the interface are never looked up again for the HTTP client:
  after they change every dial fails, but none by the default route
  (`BoundToInterface`).

## Proofs

| Theorem | Says |
|---|---|
| `SelectorTypeOK` | `SafetySpec => []TypeOK` |
| `SelectorWeightClamped` | `SafetySpec => []WeightClamped` |
| `NginxImplementsSelector` | `NginxSafetySpec => SafetySpec` |
| `NginxWeightClamped` | `NginxSafetySpec => []WeightClamped` |
| `NginxTypeCorrect` | `NginxSafetySpec => []NginxTypeOK` |
| `NginxConservation` | `NginxSafetySpec => []Conservation` |
| `NginxShareBounded` | `NginxSafetySpec => []ShareBounded` |
| `NginxFairShare` | `HistorySpec => []FairShare`: with steady weights the turns of each upstream stay within a constant of its share of all calls |
| `NginxGetWaitFree` | `NginxSafetySpec => [][GetProgress]_nginxVars`: a call of `Get` ends after at most 4*n* + 1 of its own steps |
| `LVSSelectsUntilPanic` | `LVSSafetySpec => SelectsUntilPanic` |
| `LVSWeightClamped` | `LVSSafetySpec => []WeightClamped` |
| `LVSTypeCorrect` | `LVSSafetySpec => []LVSTypeOK` |
| `GcdGreatest` | `Undisturbed` implies `LVSSafetySpec => []GcdIsGreatest` |
| `LVSImplementsSelector` | `Undisturbed` and `UnequalWeights` imply `LVSSafetySpec => SafetySpec` |
| `UnequalWeightsDoNotPanic` | `Undisturbed` and `UnequalWeights` imply `LVSSafetySpec => []GetDoesNotPanic` |
| `DaemonTypeOK` | `DSpec => []PidTypeOK` |
| `DaemonCheckInv` | `DSpec => []CheckInv` |
| `FileNames` | `DSpec => []FileNamesDaemon` |
| `OneDaemon` | `DSpec => []AtMostOneDaemon` |
| `TurnedAway` | `DSpec => TurnedAwayForCause` |
| `ConfigurationSuffices` | `DSpec => []ConfigSuffices` |
| `ServerTypeOK`, `ServerStreamWhenNeeded`, `ServerTailoredIsPrivate`, `ServerTransactionIDKept`, `ServerResponseTypeKnown` | the invariants of `DoHServer` |
| `ClientTypeOK`, `ClientRelays` (`GoodResponseRelayed`), `Understood` (`RequestUnderstood`), `NoSuccessInvented` (`NoFalseSuccess`) | the invariants of `DoHClient` and `EndToEnd` |
| `EndToEndImplementsService` | `EndToEnd` implements the safety part of `DNSService` |
| `OutgoingTypeOK`, `ConnectionsBound` (`BoundToInterface`), `EveryAddressTried` (`TriesEveryAddress`) | the properties of `Outgoing` |
| `GlobalIPCorrect` | `IsGlobalIP` decides by bytes and masks as the first and last addresses of the networks in its table do, for all 2^32 and 2^128 addresses (a v4-mapped one is its IPv4 address) |
| `SubnetsAreGlobal`, `NoECSHidesClient`, `ClientSubnetPrevails`, `SubnetComesBack`, `RecordsArrive`, `TTLsNeverGrow`, `RecordsExpireOnTime` | `SubnetIsGlobal`, `NoECSHides`, `ClientSubnetWins`, `SubnetEchoed`, `RecordsKept`, `TTLNeverGrows`, `ExpiresOnTime` |

They hold for all values of the constants that satisfy the assumptions named in
the modules. Most of these only give the constants their types: queries,
requests, replies, configurations and exchanges are any of those that the
model can express. The others are: handlers are a finite set (the proofs count
goroutines); a configuration has at least one upstream; a number of tries is at
least 1 (`NewServer` is given nothing else, see `ConfigSuffices`); the
addresses and kinds that the defaults name exist; no PID is one of the two
markers of the file; a dnscrypt-proxy probe has the ID that its bytes say
(`ProbeAssumption`); OPT records are in the additional section
(`MessagesAssumption`).

**Selector.** *WeightClamped* is inductive together with `TypeOK`. It counts,
for each upstream, the goroutines that owe a store of either kind: a penalty
that takes the weight below 1 by at most 10 adds one to the count of
`"storeMin"`, a store takes one away and puts the weight at 1 or at `weight`,
both in range whatever is still owed. Without the counts no bound is inductive.
The lemmas say how `Owed` changes when one goroutine changes its state.

**NginxWRR.** `NginxIndInv` says that the upstream at hand and the best one of each
walk exist where they are used, whatever other walks do to the values that are
compared. *NginxImplementsSelector* rests on it: the index that `Subtract` hands
over is that of an upstream, and the handler was idle and serving.
*Conservation* is inductive with it. The sums over upstreams and
over handlers are those of the community modules; that a sum changes by as much
as one of its terms is shown by an induction over the subsets of the summed
set, stated with sets instead of predicates so that the prover can use the
well-founded induction of its library. *NginxGetWaitFree* counts the atomic
operations that a call has before it; only its own steps change the count.

*ShareBounded* is about weights that do not change: `Steady` says of a
configuration that no report is made, that no probe ends and that no weight is
negative. Each walk then adds the same round of weights and takes it
from one upstream. Sequentially, the upstream that a walk finds is not negative,
because all of them together hold exactly the round just added. A concurrent walk
compares values that are stale by what other walks have taken meanwhile, and
nothing bounds the number of calls that others finish during one walk. The
invariant (`SharesInv`) therefore gives the *k* handlers the distinct *ranks* 0 to
*k* - 1: a handler that picks goes back to rank 0 and those below it move up by
one, so that a rank says how many other handlers have picked since the walk
began, each counted once. A handler of rank *s* will find an upstream that holds at least
-*s*(*s* + 3)/2 rounds (`Floor`), whatever it has compared so far (`Finds`, and
`Seen` for the comparison under way): when another handler picks, it takes a
round from one upstream, and either the stale values still name one above the
floor of the next rank or the sum of all upstreams (*Conservation*) says that one
of those to come is. With *k* handlers the last rank is *k* - 1, and one more
round is taken from what it found: 1 + 2 + ... + *k* rounds. The upper bound
follows, since all upstreams together hold at most *k* rounds. TLC has checked
the invariant with two and with three handlers.

*NginxFairShare* says what that means for the queries. Two history variables
count the calls of `Get` that returned (`gets`) and those that returned each
upstream (`turns`). `AccountInv` is the account of an upstream: its
`currentWeight` is its weight times the calls that have passed it, finished or
not, less a round for each of its turns. Hence the turns of an upstream with
weight *w* differ from *w*/*round* times `gets` by less than a constant, from the
start of the process on and for any interleaving. It is the safety core of
`NoStarvation`, with a rate.

**LVSWRR** does not in general implement `Selector`, as its `Get` may panic; up to
a panic it does, and where no panic is possible it does without reservation
(*LVSImplementsSelector*). `LVSIndInv` adds to the types that a walk inside `Get` has more than
one upstream before it, and that `lastChoose` is not negative once it was
stored: hence the index that `Get` returns with, loaded once more after the
comparison, is that of an upstream, which *LVSSelectsUntilPanic* needs. The last
three theorems are about one query at a time: `Undisturbed` says
that there is one handler and that no probe ends, the instance of
`lvs_sequential` (two handlers or a probe make the properties false, see
*Findings*). For *GcdIsGreatest* the invariant is that the common divisors of the
two operands of `gcd` are those of the weights seen so far (`GcdSeqInv`):
Euclid's step keeps them, the next operand adds a weight. The weights are
positive there because the only handler owes no store while it is in `Get`. For
*GetDoesNotPanic* the invariant (`PanicInv`) is that `currentWeight` is positive
wherever it is compared, except before the first decrease: the gcd is at most
each weight, so what is taken from a positive `currentWeight` the maximum gives
back and more. In the first call `currentWeight` is 0, and the weights are
still those of the configuration, since nothing can be reported before: two
different ones have a maximum above their gcd. `UnequalWeights` asks for just
that, and for URLs that do not end the process in a probe; without it the
finding `lvs_equal` is the counterexample.

**Daemon.** *AtMostOneDaemon* is not inductive. `FileNamesDaemon` implies it, and
becomes inductive with `PidTypeOK` and `CheckInv`: as long as no check
overlapped another, only one process is in the check, what it has read is what
the file still says, the file that it is about to remove does not name a
daemon, the file that it is about to write is its own, and an empty file is
being written or was left by a crash. The configuration and the listeners do not
disturb it: every step of `Daemon` is a step of `PidFile` or leaves its variables
alone. `TurnedAwayForCause` follows from the same invariant: whatever is read or
found in use is what the file says now. *ConfigSuffices* has an invariant of its
own (`ConfInv`): a process past its configuration has one that, with its
defaults, passed the checks, and a goroutine for each of its sockets.

**DoHServer.** The inductive invariant is `TypeOK`, `ProgressInv` (a query that is
under way was made from a request that was accepted, nothing is written yet, and
another try means that the last one failed), `DatagramInv` (which checks of
`doDNSQuery` a reply that came over UDP has passed at each point) and `EndInv`
(the handler ended at once, after all its tries, or with what the generator
makes of a reply that did not fail; only an IXFR query panics). The five theorems
read off it.

**EndToEnd.** `ClientInv` says where `r.Id` is 0, when there is a reply, and what
became of a good response; `ServerInv` is the inductive invariant of
`DoHServerProofs` while the server is at work, whose lemmas are used through
`INSTANCE`; `JoinInv` says that the request of the server is one that the client
generated, and that the client parses what the server wrote. With them every
step of either program is a step of `DNSService` or a stutter under the mapping
`Service`.

**Outgoing.** `LocalInv` says that the kept local addresses are of their families
and that there is one for the bootstrap servers, `TriedInv` that every
connection tried is allowed by the options and made from the address of its
family, `LoopInv` that every usable address of the host was tried or is still to
come.

**Messages.** The invariant `MessagesInv` is that each message is what its step
makes of the earlier ones; the properties are then facts about the operators.
`GlobalIPCorrect` relates masks to the order of addresses, byte by byte. What
`Only` keeps of a section is an induction over sequences that grow at their end.
The theorems on TTLs are arithmetic of times that are cut to seconds: an expiry
time is never later than the record's end and the remaining time is rounded
towards zero, so that a TTL comes back as it was only when the record is at
least a second past its end, which a cache that honours `max-age` (the least TTL
of all records) does not allow.

**Only model-checked.** Liveness is out of the prover's reach (`Recovery`,
`NoStarvation`, `GetReturns`, `CheckEnds`, `ServesOrEnds`, `DoubleStartResolved`,
`Responds`, the liveness part of `ServiceSpec` and of `LVSSpec => Spec`). Every
safety property of a passing run has a theorem; those with a hypothesis
(`Undisturbed`, `UnequalWeights`, and `Steady` inside `ShareBounded`) are the ones
that are false without it. The bound of `ShareBounded` is proved, not that it is attained.

## Not modelled

Proxies, cookies, connection pools, TLS and client certificates (configuration
of `net/http` and `crypto/tls`); TOML decoding; the text of names, among it the
matching of `passthrough` domains, where `NewClient` uses the punycode of a
domain only if the conversion fails; `fixEmptyNames` and
`QuestionList.UnmarshalJSON`, which mend the text of other servers; the flags
that `Marshal` and `Unmarshal` copy; logging; the Swift logger, service files,
RPM and SELinux (no program logic). Outside `Messages` time is not modelled: a
timeout is an outcome that an exchange may have at any point.

## Plan

1. Done: the selectors, the daemons, both handlers and their composition, the
   messages, outgoing connections; theorems of all of them.
2. Done: the shares of `NginxWRRSelector` for any number of handlers.
3. Open questions for the model: `DoHClient` for several queries over
   `Selector`; how much of the bound of `ShareBounded` is attained; a variant
   that shows that a sequential `LVSWRRSelector.Get` ends.
