# A TLA+ model of sunfire

sunfire is an encrypted relay. A user's programs speak SOCKS5 to the client
(`cmd/sunfire`), the client dials one of several servers over tcp or udp, and the
server (`cmd/sunfired`) dials the target and copies bytes both ways. One session
may be *striped*: laid out over several connections that the server puts together
again.

This directory holds the formal models of that code, the TLC configurations that
check them and proofs about them. Run, in this directory:

    tlc -config GatewaySessions.cfg MCGateway     # any .cfg with its MC module
    tlapm GatewayProofs.tla                       # any module named ...Proofs

`PROJECT.json` is the index: the runs, the mutations each property was seen to
catch, and for every definition the source lines it stands for.

## 1. The system

Line numbers are those of the source tree; `D` is `cmd/sunfired/main.go`, `C` is
`cmd/sunfire/main.go`.

| component | state | operations | meets others through | what is hard | correct when |
|---|---|---|---|---|---|
| **gateway**: admission and sessions (`D` 164-303, 404-572) | live config, pins, seats per user and address, pending sessions | serve, handle, reload, pin check, acquire, release, start, join, drop, timer | one goroutine per connection; four mutex-protected tables; a timer per pending session | five release paths for one counter; a timeout racing the last connection; reload between two steps of a handler | seats equal the connections at work; limits and pins hold; nothing is served incomplete or left open |
| **failover** (`internal/failover`, `C` 269-479) | current server, rest times, run of failures; the dialer's own link | Pick, FailedOn, OK, candidates; DialTarget, next, use | goroutines of SOCKS sessions report to one pool; probes run under its mutex | late reports, two copies of "current", time windows | a server is given up only for its own failures; the client ends up on a live one; nobody waits for ever |
| **stripe** (`internal/stripe`) | position, queues, writer state, reader position | Join, Write, CloseWrite, Close, Read, drain | n writer goroutines behind bounded channels, n connections | blocking everywhere, errors seen by one goroutine out of n, close against write | it is a stream: order, no gaps, an end; calls return |
| **relay** (`D` 305-402, `C` 481-495, `internal/socks` 59-90, 162-183) | two pipes per session and side | splice, pipe, CloseWrite, Close, sink | composes streams end to end | half-close over transports that have none, errors that look like an end | both ends learn how the stream ended; splice returns |
| **record protocol** (`internal/proto`) | keys, nonces per direction, partial record | Dial, Accept, sealFrame, readFrame, Read, Write | first bytes of each connection | nothing on the wire numbers the parts: both ends count; trial of each token | no nonce twice under a key; both ends stay in step |
| **server configuration** (`internal/config`) | the file | Load with normalize, Tokens, Allowed, Limit | read by start, reload and menu | names repeat while tokens may not, disabled entries | each token has the rules of its own entry |
| **client configuration** (`internal/clientconf`) | `client.conf`, or the older `client.env` | Load, normalize, Save, FromEnvFile | read by start and menu | which of the two files counts | what is saved is what is read |
| **SOCKS front end** (`internal/socks`) | deadline of a session | greeting, request, reply, closes | calls DialTarget | one deadline over a step of unknown length; closes on every path | nothing is left open; a silent program does not hold its handler |
| **transports** (`internal/transport`) | socket | Dial, Listen, framing | under proto | a udp dial learns nothing of the peer, a udp close tells it nothing | |
| **statistics** (`internal/stats`) | counters per user or host, ring of log lines | user, Open, Up, Down, Close, Snapshot; HookLog, Write, LogLines | every session, the status page | looked up under one lock, created under another, counted under none; read one by one | counters equal the sessions; a meter never goes back; the ring is the end of the log |
| **lifecycle** (`D` 91-221) | listeners, the live configuration, a waiting SIGHUP | run, serve, reload | starts everything; systemd and the menu signal it | signal before the handler, during a reload; a listener fails while others run | the service ends up running on its file |
| **menu and saving** (`internal/menu`, Save of clientconf) | settings under edit, the file | each change, save, apply, restart | the service reads what it writes | a crash, a kill or a power failure between two steps | the old file or the new one; what is saved loads |
| **self-update** (`internal/selfupdate`) | downloaded package, the program | Check, download, install, replaceSelf | the package manager, systemd | another release or another update meanwhile; power failure | the program is a whole published one |
| probe, tui, version | none that others rely on | measure, draw | | | |

How a session comes about: the SOCKS goroutine calls `DialTarget`, the dialer
dials its current server once or, striped, n times, each connection opens with a
`Head` (plain, start n, join j). The server accepts each, authenticates it,
checks address, pin and seat, and either relays it or hands it to `sessions`,
which waits until all n are there and joins them to a stripe. Failures to dial
go to the pool, which may probe the others and switch.

### What is hard to test here

`PROJECT.json` lists every such place with its line, and the property that
watches it. The kinds that matter most:

* *Many ways out.* A seat is taken at one line and returned by the deferred
  release, by `drop`, or by the handler that completed a striped session, which
  returns the seats of connections whose handlers are long gone, with its own
  user, address and limit.
* *Snapshots.* A handler works with the configuration of its accept; a dialer
  with a link it read before a dial of ten seconds; `use` stores an answer the
  pool gave before it released its mutex.
* *Timers that have started.* `time.Stop` does not recall `drop`.
* *Blocking.* Writers wait for the network, the dispatcher waits for writers,
  `CloseWrite` for all of them; probes run under a mutex.
* *Windows.* `failWindow` of twenty seconds against dials of ten.
* *Files.* What a program wrote, what the disk has, and who reads it when.
* *Half-close.* Three of the four kinds of link have it.

## 2. Modules

    SeatSpec          what "clients" promises            <-- implemented by Gateway
    Gateway           cmd/sunfired, accept to release
    MCGateway         instances of Gateway
    GatewayProofs     theorems about Gateway

    Failover          failover.Pool and gwDialer
    MCFailover        instances of Failover
    FailoverProofs    theorems about Failover

    StreamSpec        a stream as its ends see it        <-- implemented by Stripe, and by
    Stripe            internal/stripe, one direction         Relay in both directions
    Relay             a session end to end
    MCStripe, MCRelay                                    instances of them
    StripeProofs, RelayProofs                            theorems about them

    FileSpec          what saveJSON promises             <-- implemented by SafeFile
    SafeFile          a file replaced by way of a temporary one
    ServerConfig      internal/config: normalize and the rules of a token
    Service           cmd/sunfired: run, listeners, reload       (uses ServerConfig)
    ServerMenu        the gateway's menu with its file and service (uses both, SafeFile)
    ClientMenu        the client's menu with its files and service (uses SafeFile)
    Update            internal/selfupdate                          (uses SafeFile)
    Host              a gateway's, a client's or an updating host: one of the last three
    MCHost            an instance of Host
    HostProofs        theorems about Host, and about SafeFile with any writers

    Proto             internal/proto: both ends of a connection
    ProtoProofs       theorems about Proto
    Stats             internal/stats: counters and snapshots
    Socks             internal/socks: handlers, which count their sessions in Stats
    SocksProofs       theorems about Stats and Socks
    LogRing           internal/stats: the ring of log lines
    LogRingProofs     theorems about LogRing
    MCChannel         instances of Socks, Proto and LogRing

`Host` and `MCChannel` put models side by side that do not meet: a behaviour picks
one of them at the start (`role`, `part`) and stays with it. That keeps the number of runs to one
per question. The parts of `Host` have the temporary file and the faults in common; those of
`MCChannel` share nothing, and it extends their modules, so that the properties it checks are the
definitions the theorems are about.

### Gateway

One action is one critical section of a handler with the local work that leads to
it. `pc` says how far the handler of a connection has come; the tables have the
names of the code's fields:

| model | code |
|---|---|
| `cfg`, `snap` | `live`, and the configuration `serve` passes to `handle` |
| `pins` | `pinned.ip` |
| `seats` | `clients.m`, per user and address |
| `sess`, `size`, `slot`, `got`, `timer` | `sessions.m` and the fields of `pending` |
| `leader` | which handler received the complete set from `ready` |
| `Reload` | `reload` |
| `Accept`, `HandshakeFail`, `Handshake` | `serve`; `proto.Accept` fails; it succeeds and `Allowed`, `pinned.check` and `Limit` follow |
| `Acquire` | `clients.acquire` |
| `Start`, `Join`, `Reject` | `sessions.start`, `sessions.join` with `at` and `ready`; `handle` returning with keep = false |
| `TimerFires`, `Drop`, `DropRelease` | `time.AfterFunc`, `drop` under its mutex, the loop after it |
| `Serve`, `Finish` | `serveOne`, `serveStripe` begin and return |
| `Leave`, `StripeRelease` | the deferred release; `for range conns` of the leader |

A pending session is named by the connection whose handler created it, so the
pointer comparison in `drop` is a comparison of names. `Handshake` joins the
checks between the handshake and `acquire`: only the pin touches shared state, so
the rest of the step is local. A token stands for its user: the trial of tokens
is the record protocol's. An address Go cannot parse is `NoHost`, for which
`acquire` and `release` do nothing and `pinned.check` fails.

`SeatSpec` says what the README of the program promises: machines are counted, not
connections; a place is free when a machine's last connection has closed; a
connection is denied exactly when its machine is new and no place is left. It
knows no counter. `Gateway` implements it with the connections in `Holding` as
the open ones.

### Failover

The pool's operations run under `Pool.mu`, probes included, so `pick` is a loop of
steps between taking and releasing `lock`. Each session is a goroutine with its
own `link` (the server it dials, then the pool's answer), and `active` is
`gwDialer.cur` under another mutex.

Time is discrete, one `Tick` is ten seconds: `dialTimeout` = 1, `failWindow` = 2,
and `Cooldown` = 3 in the runs (6 in the code; see the bounds). Steps of the program
take no time: `Tick` waits until nobody has anything urgent to do. A dial or a
probe takes none when it is answered or refused and `DialTimeout` when the
server is silent or the packet lost. `age` counts what passed since
`Pool.firstBad`, and `failed` starts a new run when it exceeds `FailWindow`.
Rounding is to whole ticks, so a report exactly at the end of the window is
inside it, as `time.Since(...) > failWindow` in the code says of exactly twenty
seconds; in the code two timed-out dials take a little more than that.

`log` is a history variable. It holds the reports about the current server that
the properties speak of. `candidates` of the code is a list in order of the servers' numbers
that `pick` goes through; here `todo` is the set of those not yet probed, and `Candidate`
the least of them.

### Stripe

One direction, from `Write` on one side to `Read` on the other. `pipe` is the
goroutine that calls `Write` and then `CloseWrite`; `shut` is the progress of
`closeWrite` behind its `sync.Once` (quit closed, channels closed, all writers
waited for), `closer` is `Close`; `wr[i]` is the writer goroutine i, `chan[i]` its
channel. A connection is a bounded sequence of whole chunks, `0` is the marker of
four zero bytes, and `Part` is the beginning of something whose rest was never
sent. `link[i]` tells an orderly close, after which what was sent can be read,
from a reset, which loses it.

The model lets `Close` be called while `Write` is still going on (`Hasty`): the
type promises to stand it, although `splice` of the program closes a stream only
after both its pipes have ended.

`StreamSpec` is the promise: what `Write` took arrives in order without gaps, and
unless a connection was closed or lost, the reader is told "end" exactly after
the last chunk. Once torn, the reader may be told anything, `EOF` included: a
connection that ends between two chunks makes `Read` return a clean `io.EOF`.

### Relay

A session from program to program: three links (`local`, `gate`, `remote`), each with a
channel up and one down; two sides with a `splice` of two copying goroutines. A channel
counts the chunks in it, kernel buffers and stripe queues included; `end` says
whether its writer has ended it, or whether it is `cut` (a stripe that lost one of its
connections) or `lost`. `pipe` is where each goroutine is: reading, holding a chunk it
has to write, about to call `CloseWrite`, done.

| model | code |
|---|---|
| `DialTarget`, `DialFails` | `net.DialTimeout` in `serveOne` |
| `ReadSrc`, `WriteDst` | the loop of `io.CopyBuffer` in `pipe` |
| `CloseWrite`, `Waits` | `CloseWrite` of `halfConn`, `countConn`, `stripe` at the end of `pipe` |
| `Spliced`, `CloseFar`, `CloseNear` | `wg.Wait`, and the deferred `Close` calls in their order |
| `Send`, `Shutdown`, `Receive`, `Close` | the programs at both ends |
| `Cut`, `Reset` | the network |

`Hangup` is what a `Close` does to a tcp connection: what was written still arrives,
but if something was left unread or the other end goes on writing, the connection is
reset and any part of it may be lost. A write after the other end has gone fails,
or seems to succeed.

Over udp there is no half-close: `CloseWrite` does nothing, and a `Close` (`HangupUdp`)
sends what it can once and tells the other end nothing. A stripe is one of tcp connections. What a KCP session does is the
library's; the model takes from it that `kcp.UDPSession` has no `CloseWrite` and that its
peer has no message of a `Close`.

The whole is a `StreamSpec` in each direction. A stripe inside is one channel here;
that a stripe behaves like a stream is what `Stripe` shows.

### Files: SafeFile, ServerMenu, ClientMenu, Update

`SafeFile` is `CreateTemp`, `Write`, `Sync`, `Rename` with a failure or a kill after
any of them. Two things are told apart: `seen`, what a program that opens the file gets,
and `maybe`, what the disk may have after a power failure. A rename reaches the disk as a whole and
in the order of renames or not at all; data only by `Sync`, or in its own time
(`Flush`). `Syncs` is FALSE for `replaceSelf`, which renames without.

| model | code |
|---|---|
| `Normal`, `Checked` | `normalize` of `internal/config`, `checkServer` of the menu |
| `Tokens`, `Allowed`, `Limit` | the methods of that name, which look a name up in the list |
| `Start`, `CatchHup`, `Listen` | `run`: `Load`, `signal.Notify`, `Listen` of each transport |
| `AcceptFails` | `serve` of one listener returns, `wg.Wait` waits for the others |
| `Signal`, `ReloadLoads`, `ReloadSets` | SIGHUP and its channel of one, `reload` before and after its read of the file |
| `Open`, `Change`, `Save`, `Saved`, `Apply` | `Server` of the menu, the screens, `save`, `ui.apply` |
| `Restart` | `ui.restart` of the client's menu |
| `Loaded` | `load` of `cmd/sunfire`: `client.env` only if there is no `client.conf` |
| `Check`, `download`, `InstallByDpkg`, `replaceSelf`, `extractBin` | `Run` of `internal/selfupdate` and what it calls |

A configuration is a value whose secrets are missing, short or long and whose addresses are
there or not: that is all `normalize` and `checkServer` ask. The menu keeps `dirty` and may be
left or killed anywhere. systemd (`Restart=always`, `scripts/build-deb.sh`) starts a service
again that has ended; without systemd nobody is told of a new file, which is `untold`.

### Proto, Stats, Socks, LogRing

| model | code |
|---|---|
| `DialSalt`, `DialTarget` | `Dial`: the salt, the first frame |
| `AcceptSalt`, `AcceptHeader`, `AcceptTarget` | `Accept`: the header is tried with each token |
| `sealFrame`, `incNonce`, `deriveKey` | the same |
| `Write`, `WriteFrame`, `ReadHeader`, `ReadData`, `Read` | `Write` with one `writeFrame` per frame; `readFrame` in two parts; `Read` into a buffer of any size |
| `Lookup`, `Create`, `AddConns`, `AddTotal`, `Close` | `user` with RLock and then Lock, `Open`, `Conn.Close` |
| `SnapshotBegins`, `ReadTotal`, `ReadBytes` | `Snapshot`, counter by counter |
| `Serve` to `Hang` | `Server.handle`, with the end of `DialTarget` (`Register`) |
| `HookLog`, `WriteLines`, `LogLines` | `HookLog`, `logRing.Write`, `LogLines` |

A sealed part is a record of its key and nonce, and opens under those only: what
`chacha20poly1305` promises. `NonceOnce` says that the code keeps its side of that. A nonce has
three binary digits in the run, so that every carry of `incNonce` happens; the bound on what is
written keeps it from going round, as ninety-six bits do in the code.

## 3. Runs

Every property of a passing run was also run against a mutation of a definition of
the model, a plausible slip such as a dropped guard; the mutated definitions stand
next to the originals in the modules.

| run | what it asks | instance | states |
|---|---|---|---|
| `GatewaySessions` | `SeatsExact`, `ServedWhole`, `NoOrphan`, `ServedOrDropped`, `OneUserPerStripe` | 3 connections, 2 users, one session id, `MaxStripe` 3 | 260 000 |
| `GatewaySeats` | `PinHolds`, refinement of `SeatSpec` | 3 machines and an unknown address, limit 1 without and 2 with the pin, reloads, `MaxStripe` 2 | 690 000 |
| `GatewayLive` | `Decided`, `SeatsReturned` | 3 connections, `MaxStripe` 2 | 90 000 |
| `FailoverSafe` | `SwitchJustified` | 2 sessions, 2 servers, both outages, lost dials and probes, threshold 3 | 1 660 000 |
| `FailoverLive` | `FailsOver`, `Answered` | 2 busy sessions, threshold 2, servers fall silent | 114 000 |
| `StripeStream` | `NoPanic`, `DrainsMarkers`, `NoSilentLoss`, refinement of `StreamSpec`, `WritesReturn`, `EndArrives`, `CloseEnds` | 2 connections, 4 chunks, channels of one item, wires of two, resets, `Close` at any time | 105 000 |
| `RelayStream` | refinement of `StreamSpec` up and down, `RelayTearsNothing`, `SessionEndsForOne` | tcp, stripe and udp, two chunks up and one down, channels of one, cuts and resets | 444 000 |
| `Host` | `FilesWhole` (refinement of `FileSpec`), `Applied`, `OwnRules`, `FollowsFile`, `ProgramWhole` | two users, or two servers and `client.env`, or two updates and three releases; files that load, do not load or are not there; with and without systemd, dpkg; two changes, one fault | 407 000 |
| `Channel` | `Tidy`, `Counted`, `MeterForward`, `HandshakeEnds`; `NonceOnce`, `InStep`; `RingIsTail` | two local connections to two hosts; two tokens, three units up and one down, frames of two; rings of one, three, four and seven lines | 232 000 |

The type invariant of every module is checked along with the rest, but for `ProtoTypeOK` and
`RingTypeOK`, which are proved. `Applied` is two statements: what a
menu saves without a question is what the service accepts (`AcceptedLoads`), and once told, the
service has the file (`UpToDate`). For the gateway that means `cur`, hence users, rules, limits and
the pin: the listen addresses and the transport key in force stay those of the start (`boot`) until
a restart, which is what `reload` logs. `Settled`, and so `FollowsFile`, is meant the same way.

`SeatsReturned` speaks of the counters: once a session has ended or was given up, they
are those of the connections that are not of this session, for good. In `GatewaySeats` a session may have
connections with different limits, since `reload` can come between them: the leader then returns
all seats with its own, and the refinement would see a seat that stayed behind.

**Bounds.** Three connections suffice for a leader, a member whose handler has
returned, and a stranger (another user, a late joiner, a connection whose index
does not fit); `MaxStripe` 3 lets a session have a hole. Heads of every size up
to `MaxStripe + 1` are tried, the last one standing for all that are out of
range. Three machines against a limit of two are the least for which "one more"
differs from "one too many". In `Failover` two servers and two sessions are the
least in which a report is late, and three lost dials make a switch; `Cooldown` only
has to outlast the dials of one `pick`, so 3 does for 6. `Stripe` with four chunks
goes round its two connections twice, and channels of one fill soonest. Its wires hold two
items: with one, nothing is ever left on the wire of a connection whose other end closes. Time and
counters are bounded by themselves: `age` stops counting past the window, reports
by the threshold. `Relay` with two chunks up fills a channel and has a
goroutine wait with the next. `GatewaySessions` and `GatewaySeats` use symmetry of the
connections and `FailoverSafe` of the sessions; no run with a liveness property
does. In `Host` two changes are the least in which a menu adds a user and disables another, or
takes udp out and in again; one fault meets every step of a save, a reload or an
update, since the run goes through all of them; a second one would only meet a system that has
come back. Three releases let one appear between the look-up and the download.
In `Channel` two connections to one host race to create its counters; frames of two units
and three to write give a full frame and a rest; fourteen lines go round every ring twice.

Deadlock: the runs check it, but for `Relay`, `Host` and `Channel`. `Gateway` never stops because a reload is always
possible; `Failover` because time passes; `Stripe` stutters when both sides are done. The
two runs of `Relay` do not: a session that is over, and one that hangs, has no step left.
A host whose menu is closed, or whose file does not load, may rest, and so may connections
that have ended.

**Fairness.** `Gateway!Fairness`: a started goroutine runs on; `proto.Accept` ends by
`handshakeTimeout`, a timer fires after `sessionTimeout` (`D` 33-40). Nobody has to
connect, end a session or reload, so `Decided` asks for "served or closed", never
for the end of a service. `Failover!Fairness`: goroutines run, dials and probes
end by their timeout. Go's mutex is handed to a goroutine that has waited long,
which is strong fairness of the two calls that take it; time passes if it may
again and again. Users are assumed to come back (`Begin`) and close their sessions,
since without dials nothing can be learnt. `Stripe!Fairness`: only the goroutines
of the sending side and `closeGrace`. What the other side does is a premise of the
property (`PeerReads`) where it is needed, and `CloseEnds` does without. `Relay!Fairness`:
the goroutines of both sides and the end of a dial. That the programs read, and close when
they have been told the end, is a premise (`ProgramsRead`); `SessionEndsForOne` adds that
one of the two, whichever, does not close before that, and that no connection of a stripe
is lost, and that the gate is not udp: see below what happens otherwise. `Host`: systemd starts
the service, its goroutines run, and a menu that has begun to save goes on, as it asks nothing
more then. `Channel`: time passes, `DialTarget` returns (it has timeouts of its own) and so
does a snapshot. `Open` needs the write lock of the counters while snapshots take the read
lock again and again; `RWMutex` lets no new reader pass a writer that waits, hence the
strong fairness of `Register`. Of the programs nothing is assumed.

### Where the code and its documentation part

Three runs end in a counterexample; each checks a sentence of the documentation.

* `GatewayTwoHomes` (`PlaceFreed`). The handler that completes a session returns one
  seat per connection to *its own* address. If a client's connections come from two
  addresses, the other one keeps its place for ever. The README says a place is freed
  when the last connection from that address has closed. The same line has another
  form: the leader releases with the limit of its own snapshot, and if a reload lifted
  the limit to 0 between two connections of the session, it releases nothing. Two limits
  above 0 do no harm (`GatewaySeats`); the premise `LimitsPositive` of the proofs excludes 0.
* `FailoverSilent` (`FailsOver`). A single busy session needs twenty seconds per report
  (the dial, then the retry nobody is told of); three reports never fall into a
  window of twenty. Servers that *refuse*, or more sessions at once, do bring about
  the switch. `FailoverLive` has a threshold of 2 for this reason: with it two
  sessions always suffice, whatever their phase.
* `RelayUdp` (`EndReaches`). Over udp with one connection per session, which is the
  default, the end of a stream does not travel: `CloseWrite` of `halfConn` does
  nothing, `pipe` ends, and `splice` waits for the other one. When a target ends its
  answer by closing, the user's program waits for ever, and neither side closes anything, nor is
  the seat returned. The comment at `CloseWrite` of `counted` knows this ("without it the end of
  the stream does not reach the other side"), the one at `halfConn` says udp "does
  without it". A target that cannot be dialled is the same: the server closes, and the client
  never hears of it. Over tcp and over a stripe without losses `EndReaches` holds (76 000
  states): a stripe carries the end in markers of its own.

Other instances show what is not in the list of runs, and can be repeated by changing the
constants:

* `SessionEnds` with `Gates = {"stripe"}`, `Total <- TwoEach`, `Lossy = FALSE`: both programs go
  away while data is under way both ways. On each side the goroutine that fails to
  write to its program stops reading from the gate, and the other one waits to write to the
  gate, which nobody reads any more. No connection is closed, and no seat. `closeGrace`
  was made for "the other side has stopped reading" but stands in `Close`, which is never
  reached. With a tcp gate three chunks each way are needed, because only `Write` waits; if
  a stripe loses a connection (`Lossy`), one is enough, since both readers stop at the loss.
* `FailsOver` with `Datagram = TRUE`: a udp dial waits for nobody, so a dead server answers
  every dial, each is reported as a success and the client stays.
* `StreakUnbroken` with one session, `Outages = {}` and `Loss = {"dial"}`: the second attempt of
  `next` succeeds without `OK`, so "any successful connection breaks the run of failures" is
  not what happens, and a live server may be left for three lost dials between successes.

More sentences are not true of the code and are watched through the
properties that do hold:

* The dialer's link may differ from the pool's current
  server (two sessions store the pool's answers in the opposite order). `OK` may be
  about a server that is no longer current, and then clears the failures of the
  new one. The pool may report "no live server" while one is cooling down, because
  `candidates` offers resting servers only when no other counts as healthy. `FailsOver`
  says that in the end the client reaches the live server.
* The pin is set before the seat is asked for, so "the first address that
  connected successfully" may be one that was refused; `PinHolds` says what the pin does
  all the same.
* `checkServer` is called "the same as the service checks at its start". It does not look at the
  length of a key: if a file has a short one, which `normalize` accepts while udp is off, and udp is
  switched on, the menu saves without a question what the service refuses.
  `AcceptedLoads` names that one case as its exception. A file that does not load, saved
  against the warning or not, cannot be opened by the menu again.
* "Sums are optional: none, and it is installed without comparing" (`selfupdate.go` 85) is not so:
  `download` gives up when the sum is not known (220-223). `Update` follows the code.
* `replaceSelf` renames a file it has not synced, so a power failure may leave half a program,
  which then cannot update itself. `ProgramWhole` allows that and nothing else.
* When one of two listeners fails, `run` waits for the other; the service goes on with
  half its addresses and is not started anew until it ends.

## 4. Proofs

Every theorem holds for all values of the constants under the named assumptions of the
modules (`ConstantsAssumption` of `Gateway`, for one: finitely many connections and
addresses, `MaxStripe` >= 1, `None` and `NoHost` not among the other values).

`GatewayProofs`:

* `TypeCorrect`: `Spec => []TypeOK`. `TypeOK` alone is not inductive: the reads of a
  handler must find something. `TypeInv` adds `Known` (a handler past the handshake
  knows its peer, one before it has its snapshot) and `Named` (sessions and slots
  refer to handlers past the handshake, `size` and index in range).
* `SeatsAreExact`: `SingleHomed /\ LimitsPositive => (Spec => []SeatsExact)`. The two
  assumptions are what the first finding above shows to be needed: all the
  connections of a session come from one address, and no configuration has limit 0.
  They are premises of this theorem, not assumptions on the constants.
* `OneUserInStripe`: `Spec => []OneUserPerStripe`, and `PinIsKept`: `Spec => []PinHolds`.
* `StripesAreWhole`, `ServedNotDropped` and `NobodyLeftBehind`, which are `ServedWhole`,
  `ServedOrDropped` and `NoOrphan`.
* `CountersKeepLedger`: `Gateway` implements `SeatSpec`, under the premises of `SeatsAreExact`.

The invariants build on each other:

    SessInv   == TypeInv /\ Slots /\ Sessions
    PinInv    == TypeInv /\ Pinned
    SeatInv   == SessInv /\ Peers /\ SeatsExact
    WholeInv, OrphanInv  add to SessInv what got, timer, leader and pc say of each other

`Slots` says that the members of a session have its session id, user and address and are past
`acquire`; `Sessions` that the session in the map is the one named by a connection with that
id. The handlers of the members return long before the session is served, so nothing
but these facts ties what `drop` and the leader find in the tables to who is waiting.
`WholeInv` relates `got` to the slots that are taken: the complete set is handed out once, to the
handler whose connection made it complete, and `ready` and the timer exclude each other
because both look at the map under one mutex.

`SeatsExact` is disturbed by every release, and a release by the leader or by `drop`
counts down the counter of the *leader* while the connection that stops holding is
*another*. They agree only if user and address agree. `Peers` gives limits
and addresses of what has been through the handshake. The
lemma `SlotsAlike` concludes that leader and member agree, and `SeatReturned` and
`SeatTaken` do the counting with cardinalities: they take or return exactly one
element of `HoldersOf`. `SeatStep` goes through the actions one by one. The refinement
follows: `SameMachines` turns counters that are not zero into machines of open connections,
`SameDecision` concludes that `HasSeat` is `Free`, and each step of the handlers is a step of
the ledger or leaves it alone (`LedgerStep`).

`HostProofs`: `HostTypes` (`TypeOK`), `MenusApply` (`Applied`), `RulesAreOwn` (`OwnRules`),
`ProgramStaysWhole` (`ProgramWhole`) and `SettingsStayWhole` (`FilesWhole`), for any names, files, releases
and any number of changes, faults and updates. The invariant has one part for each kind of host:

    GatewayInv == TypeOK /\ GHeld /\ GMenu /\ GService /\ GOnItsWay
    ClientInv  == TypeOK /\ CHeld /\ CMenu /\ UpToDate
    UpdateInv  == TypeOK /\ UFile /\ UStages

`Applied` looks at the moment after a save and at a service at rest; nothing in it speaks of the steps
that lead there. `GOnItsWay` does: from the moment the service has been told of a file that loads, that file is in
the service, or in the hands of `reload`, or a signal is waiting; and the steps of `reload` pass it
from one to the next. That a dropped second signal does no harm is here: the first has not been read yet.
`GMenu` says that what the questions of the menu let through is good but for what `checkServer` warns
of, that the temporary file has the settings of the menu and that after the rename so has the file, which ties
`anyway`, decided before the save, to what the service reads after it. `GHeld` goes over every place that holds
settings, the disk and the temporary file included: all are whole, and `addUser` has drawn no token greater
than theirs is (`issued`), so that no two entries have one token. Most steps only pass settings
on (`GPassesOn`, `CPassesOn`); the changes are lemmas about lists (`UserAdded`, `UserRemoved`, `ServersSwapped`
and so on), which use that the list after a change has the entries of the one before, each once (`From`).

`RulesAreOwn` has a premise: in the files that are there at first nobody has two entries (`Distinct`).
`addUser` refuses a name that is taken, so the menu keeps it so (`GNames`), but `normalize` accepts a file
made by hand in which a name stands twice, and then both tokens have the rules of the first entry.
`UStages` says that whoever is about to install has a whole package, and whoever replaces the program
without dpkg has a temporary file for its version; a power failure before it is synced is the only way to a torn one.

`FilesWhole` says that the files of both menus implement `FileSpec`. `SyncedFileIsWhole` says it of `SafeFile`
with `Syncs = TRUE` and any number of writers: a temporary file that exists has whole contents (`Ready`),
and the sync puts them on the disk before the name does.

`SocksProofs`: `CountersAreExact` and `MetersGoForward` of `Stats` alone; of `Socks` `FrontEndTypes`,
`HandlersAreTidy`, `FrontEndCounts` and `FrontEndMeters`, the last two because each step of a
handler is a step of `Stats` or leaves it alone. They are `SocksTypeOK`, `Tidy`, `Counted` and
`MeterForward` of the run `Channel`. `CountInv` needs that a user, once made, is never replaced
(so that a connection that found one counts on the one in the table), `MeterInv` that every row read
is at most the counter by now, and `SocksInv` says at each place of `handle` which of stream,
count, deadline and answer exist.

`LogRingProofs`: `RingTypes` and `RingShowsTail` (`RingIsTail`): a place of the ring has the last
of the lines whose numbers differ by multiples of its size.

`StripeProofs`: `StripeTypes`, `StripeNoPanic`, `StripeDrains`, `StripeKeeps`, and `StripeIsStream`,
that `Stripe` implements `StreamSpec`, for any number of connections, chunks and sizes of the
queues. The invariant is

    IInv == Types /\ Phases /\ Wires /\ Room /\ Laid /\ InOrder /\ Reads /\ Kept

What travels by connection i is a chain (`Laid`): in the wire, in the writer's hand and in the
channel every chunk is `N` more than the one before, the first is `Due(i)`, the chunk the reader
will ask this connection for, and the last is followed by `NextIn(i)`, the chunk `Write` will hand to
it. No connection sees the others, and yet all the chains together are the stream, because both ends
turn from connection to connection in the same way. A marker comes only where a chain ends, so
a reader that meets one has `Due(i) = NextIn(i)` and has read all there is (`MarkerIsEnd`); this is why `drain`
finds markers only. `Phases` relates the progress of `closeWrite` to the writers, and gives `NoPanic`:
`Write` and `closeWrite` are of one goroutine, and only `quit` is closed by another. `Kept` follows each chunk
that was accepted until an error is recorded; the invariant could not be found for `NoSilentLoss` as it
stood before, which was wrong: when the *peer* abandons the stream and closes, chunks on the wire are
thrown away and the sender may have ended without an error. The property now has that premise, and the
run, which had a wire too short for it, a longer one.

`RelayProofs`: `RelayTypes`, `RelayIsGentle` (`RelayTearsNothing`), and `RelayImplementsStreams`, that a
session implements `StreamSpec` in both directions at once. From a program `g` to the other one there are three
channels `A(g)`, `B(g)`, `C(g)` and two goroutines `F(g)`, `S(g)`; `Ways` and `Apart` say which these
are and that no two are the same, and all the rest is proved once for both directions.
What was received and what is on the way (in the channels and in the goroutines' hands) is at most what was
sent, and exactly that unless something is torn. `Ends` says that the end comes last: a station has seen
it only if all stations before it have, and are empty. From this follows that a `Close` at the end of `splice`
finds nothing left to destroy.

`FailoverProofs`: `FailoverTypes` and `FailoverJustified` (`SwitchJustified`). The pool knows of a run of
failures its length and its beginning, the log every report. `Recent` says that while the run is not older than the
window its last `fails` reports are all in the log, without an `OK` between them, none older than the run. It
is not inductive alone: a switch begins a new log, so `fails` must be 0 for as long as the pool probes
(`Locking`), and so must the log be of the server that is current.

`ProtoProofs`: `ProtoTypes`, `ProtoInStep` (`InStep`) and `NoncesAreUnique` (`NonceOnce`).

    IInv == Types /\ Stages /\ Ordered /\ Following
    NonceInv == NonceOnce /\ \A d \in Dirs : Fresh(d) \/ Spent(d)

The reader *expects* something: a nonce, a header or the data of the header it has read, and the unit
that follows those it knows. A part that fits changes the expectation (`After`). `Following` says that the parts under
way lead from the expectation of the reader, step by step, to the place where the writer
is (`Leads`), or to some place before it if the connection was cut. So the head of the wire always fits: it opens, it is of the
kind the reader waits for, its length is in bounds, and its data are the next units. A writer
puts parts on one end of the chain (`LeadsAppend`), a reader takes them from the other (`LeadsTail`), and a cut
shortens it (`LeadsCut`). The chain is a function whose existence is claimed, not one that is computed,
so that no induction is needed.

Nonces are ordered by the last digit in which they differ, since the first is the least
(`Less`); `incNonce` gives the next one in this order, with none between (`Rises`, `RisesByOne`), unless it is
called on the last. The nonces of a direction that were used are all below the one to be
used next, and there are at most two for every frame (`Fresh`). The premise `EnoughNonces` says that two per
unit are less than all: then the last nonce comes, if at all, with the last unit (`Spent`). Of the code's
2^96 nonces no connection uses that many; without the premise the theorem would be false. That a nonce
is below the last, and how many there are, needs the least element of a set of digits, which the library's
theorem about well-founded orders gives (`Least`); recursion on digits is not needed.

Every safety invariant and every action property of the passing runs is proved, and every refinement.
Only model-checked is the liveness, which is beyond this prover: `Decided`, `SeatsReturned`, `FailsOver`,
`Answered`, `WritesReturn`, `EndArrives`, `CloseEnds`, `SessionEndsForOne`, `HandshakeEnds` and
`FollowsFile`.

## 5. Not modelled

* What is *on the wire* below a part of a frame: encryption, KCP. `Proto` takes its connection as one
  that delivers in order and may be cut; a part that was changed under way does not occur.
* The speed probe and `sink`, which echoes one chunk and discards the rest; the terminal monitor, which
  draws what `Snapshot` and `LogLines` say; the version string.
* Prompts, their wording and their checks of a single answer; two menus open on one file, of
  which the later save wins; flags of the command line.
* The number of open connections in a snapshot, which is only shown, and `SetMeta`. Hosts
  are never removed from the table of the counters: it grows with the number of hosts, and
  `MeterForward` depends on that.
* Parsing of archives: a package cut short is an error of the reader.
* `Pool.Failed`: only tests call it.
* In `Gateway` the service itself, `Serve` to `Finish`, which is `Relay`.
* A connection that ends while it waits as a member of a session: the handler has
  returned and nothing reads it, so the server does not notice until it is served
  or dropped.

## 6. Plan

All components but probe, monitor and version have their model. What is left:

1. `Relay` with the handlers of `Gateway`: the seat of a session that never ends, at present two facts
   told by two models.
2. Two menus open on one file: `SafeFile` has any number of writers, but `ServerMenu` has one.
