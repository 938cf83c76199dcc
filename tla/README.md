# ssf-relay: TLA+ models, checks and proofs

ssf-relay runs beside a system that writes an audit or decision log (Vault, the
Kubernetes API server, OPA). Outbound, it reads the log, turns some lines into
events and posts them as Security Event Tokens (SETs) to a trust receiver.
Inbound, it subscribes to the receiver's SSE stream and lets *action adapters*
act on Vault, Kubernetes, OPA or a webhook when a source is compromised,
degraded or recovered.

All line numbers are those of the repository's files.

## Inventory

| Part | Source | State | Operations | Hard behaviour |
|---|---|---|---|---|
| File tailer | `relay/tailer.go` | open file, offset, `pending` bytes | open with retry, seek, rotation check, truncation check, read, split, parse and emit | the log is appended to, renamed, re-created and truncated between any two of its steps; cancellation in every wait |
| Socket listener | `relay/socket_listener.go` | listener, connections | listen, accept, scan lines, parse and emit, shut down | connections run concurrently; buffered lines after cancellation; long lines |
| Source parsers | `sources/*/source.go` | the settings of the source | `NewSource`, `Parse` | order of the rules; an operation is logged on several lines |
| Emitter | `relay/emitter.go`, `signing.go`, `set.go` | the signing key | build, sign, POST | no retry; a timeout does not tell whether the SET arrived; a key that loads and does not sign |
| Manager | `relay/manager.go` | goroutines, error channel | build the sources, run a transport for each, wait for all | an error surfaces only when all have ended |
| Subscriber | `relay/subscriber.go` | back-off, connection, line being read | create a stream, open SSE, scan, dispatch, back off | connection cut at any moment, 8 MiB limit, cancellation, a receiver that never answers |
| Router | `relay/router.go`, `relay/action.go` | adapters by event type | register, handle | one adapter fails or hangs, the others must act |
| Action adapters | `actions/{vault,k8scordon,opapolicy,webhook}/adapter.go` | none of their own; that of their targets | one or two HTTP calls per SET | calls refused, timed out, applied late; state of the target changed by earlier SETs |
| main, configuration, registries | `cmd/ssf-relay/main.go`, `config/config.go`, `*/registry.go` | the phase of the start, the two running halves, the exit code | load, register, start, wait | which error or signal ends the process, and when |

The two halves share only the context that SIGTERM cancels. Outbound,
`Manager.Run` starts a goroutine per source that calls `Tail` or `ListenSocket`;
these call `Source.Parse` and, synchronously, `Emitter.Emit`. Inbound,
`Subscriber.Run` calls `Router.Handle`, which calls the adapters' `Act` one after
the other, each waiting for its target's answer.

What makes each part correct:

* *Tailer*: every byte of the log reaches the parser at most once, in order, in
  whole lines, nothing from before the start, unless an error of `os.Stat` makes the
  tailer begin its file over; it always finds its way to the current file; it ends
  when cancelled.
* *Router and adapters*: every adapter acts on every SET; what an adapter
  acknowledges is true of its target and stays true until a SET says otherwise;
  a hanging target whose client has a timeout does not hold up the relay.
* *Subscriber*: SETs are handled once, in order, one at a time; none is dropped
  that arrived; it comes back after every disconnect; it ends when cancelled.
* *Socket listener, emitter*: however the bytes of a connection arrive and
  however it ends, what reaches the parser is its lines, in order, once, and
  nothing read is dropped unless a line was too long; an event reaches the receiver at
  most once; no sender has to wait for another.
* *Manager, main*: a source's error is not lost, whenever it happens; exit code 0
  means that all work was finished; a signal always ends the process.
* *Source parsers*: an operation of the audited system is reported if the
  configuration asks for it, once, although it is logged on several lines, and what the
  SET says of it is true; with a key configured nothing goes out unsigned.

## Modules

| Module | What it is |
|---|---|
| `Tailer` | The file tailer, the logger and the rotator. |
| `LineFeed` | The abstract promise of a transport: bytes are delivered at most once, in order, and not after it is closed; one that `Rewinds` may begin again, and then promises it of each pass. `Tailer` implements it (with `Rewinds`), and each connection of `SocketListener`. |
| `Runner` | The abstract promise of what runs with `ctx`: it returns nil only when `ctx` is cancelled, and then returns, once and for good. `Tailer`, `SocketListener` and `Subscriber` implement it; `Relay` relies on it. |
| `Sources` | `NewSource` and `Parse` of the three sources. No state. |
| `Outbound` | A source end to end: the audited system's operations and their lines, the start of the relay, `Parse`, `Emit`; EXTENDS `Sources`. |
| `Router` | `Router.Handle`, the four adapters and their targets. |
| `Subscriber` | `Subscriber.Run`; EXTENDS `Router`, so that a SET read is handled by the adapters' real steps. |
| `SocketListener` | `ListenSocket`, its connections, their senders, and `Emitter.Emit`. |
| `Relay` | The process: `Manager.Run` and `main`; EXTENDS `SocketListener`, whose sockets are those of the manager's sources. |
| `TailerProofs`, `RouterProofs`, `SocketListenerProofs`, `OutboundProofs` | Inductive invariants and theorems about the module each is named after. |
| `SubscriberProofs` | The same about `Subscriber`; EXTENDS `RouterProofs`, whose theorems it carries over to the router behind the connection. |
| `RelayProofs` | The same about `Relay`; EXTENDS `SocketListenerProofs`, whose theorems it carries over to the listener in the process. |
| `MCTailer`, `MCRouter`, `MCSubscriber`, `MCSocketListener`, `MCRelay`, `MCOutbound` | The instances TLC checks. |

### Tailer

A byte is the serial number of its write and `nl` the set of those that are
newlines; a file is a run of serials (`base`, `size`), named by its inode. The
logger appends byte by byte to the file it has open (`wfd`), which after a
rename is still the old one; it reopens between lines. The rotator renames,
creates and truncates. `pc` follows `Tail` from step to step: every place where
the environment can come between two system calls is a separate value (open and
seek; the rotation check, the truncation check and the read of one tick; the
lines split off one by one, since `emit` may take long). `isRotated` compares
inodes like `os.SameFile`, and takes every error of `os.Stat(path)` for a rotation
(`:122-124`), also one with the open file still at the path: `Tail` then opens
the same file and reads it from its beginning. `statErrs` counts these errors, `restart`
is the number of lines given to `Parse` before the last such reopening, and `Pass` the
lines after it. Errors of `os.Open`, `f.Stat` and `Read` may come at any time.
`isTruncated` compares the offset with the size. `lines`
is what `Source.Parse` is called with; whether it accepts a line is left open, and
an accepted one is emitted in the same step.

The rotator never moves a renamed file back, inodes of a file still open are not
reused, the logger has a single descriptor opened with O_APPEND.

### Router

`Sinks` is the configuration; the first sink of an action registers its adapter
(`main.go:87-101`). An `Act` is a program of calls: `revoke`; `lookup`, then `flag`;
`patch`; `put`; two `delete`s; `post`. `Send` passes a call on; then the server
acts on it and answers (`Answer`), or refuses (`Refuse`), or the client's
timeout or the cancelled context gives up (`GiveUp`). A call given up is an
*orphan*: it may still take effect at any later moment (`LateEffect`), since
closing a connection does not undo what a server has begun. Vault answers 403 when
the token is invalid, or to a kind of call that its policies do not allow
(`VaultDenies`); `revoke` and `lookup` take every 403 for done.

`held`, `lifted` and `givenUp` are an observer's: the restrictions and liftings
that an adapter acknowledged and no later SET has put into question, and the
calls ever given up. The invariants compare them with the targets.

Left out: the rendering of the Rego templates, TLS, headers and bodies, a webhook
that lists the same event type twice, the parsing of the adapters' configuration.

### Subscriber

Lines of the SSE connection are frames: a SET with its serial, a line that is
ignored, one that does not decode, one too long for the scanner. The limit of
8 MiB is a number of lines; the line it cuts does not decode and is lost with the
connection. The receiver may or may not keep what is published between the
creation of a stream and its GET; what is published without a connection is lost,
because every reconnection makes a new stream. `used` is the budget of the
connection, `lost` and `handled` the fate of the SETs.

### SocketListener

`Sockets` are the sources that listen, `At[c]` the one that connection `c` is made to;
their paths are taken to be different. Bytes are serials as in `Tailer`, per
connection. `lpc[s]` follows the `ListenSocket` of socket `s`
(listen, accept, wait for its connections), `hpc[c]` the goroutine of connection
`c` (scan, emit); the goroutines that wait for `ctx` and close the listener or a
connection are the actions `ListenerCloses` and `ConnCloses`, so that a
connection can be accepted after the cancellation and lines already buffered
are parsed after their connection was closed, as in the code. `got` and `start` are the
ends of what `bufio.Scanner` holds: it reads when it has no newline and room,
gives up the connection when it has neither, and returns the rest of its buffer as a
line when reading has ended, with or without an error. A sender blocks when
the kernel's buffer is full, hangs up, or its connection breaks.

`TimeoutSecs` is the configured timeout, 0 where there is none: `NewEmitter` makes 5 of
it, and without that the client would wait for ever. `Emit` is one POST: received; refused, by the receiver or the network, and dropped; or given
up after the client's timeout, in which case it may reach the receiver at any later moment
(`PostArrives`) or never. A receiver that has an event and then answers with an
error is not told apart from one that accepted it: the code does the same in
both cases, it goes on. The carriage return that the scanner cuts off a line,
TLS and the contents of the SET are left out.

### Relay

`boot` is the phase of the start of `main`: the configuration, the signing key, the
adapters, then the two halves. A failure exits with 1; a signal kills the process
until `NotifyContext` has been called, and cancels `ctx` from then on, which the rest
of the start does not look at. `mgr`, `built` and `src` follow `Manager.Run`: it builds
and starts the sources in turn, returns at once if one cannot be built, and else
waits for all and returns the first error; `errs` is its channel, whose capacity is the
number of sources. `errCh`, `nils` and `exit` are `main`'s. `Transports` is the list of
sources, any number of sockets and files among them; the sockets are
those of `SocketListener`. File sources and the subscriber appear by their end only,
as `Runner` describes it: `Tail` returns nil or an error once cancelled and the
error of a failed seek at any time; `Subscriber.Run` returns nil, once cancelled. That
they do is `ImplementsRunner` of `Tailer` and `Subscriber`: that they never return otherwise
is proved, that they do return is checked. When the process exits
everything stops, also goroutines that an early return of `Manager.Run` left running.

Left out: the JWKS server, whose errors are only logged.

### Sources, Outbound

A path, a user name or a prefix of one is a sequence of pieces, cut where the parsers
look, so that `strings.HasPrefix` is `IsPrefix` and `strings.Contains` is
membership. A configuration is a record of the keys that are there; `Null` is a key
without a value, `Malformed` one of another type (`toStringSlice`, `json.Unmarshal`
and the type switch of `emit_allow` treat null differently). A line is a record
of the fields the parser looks at; `NotJSON` is one that is no JSON object. An OPA decision
does not decode either if its `labels` are not strings or its `input` is no object
(`Decodes`; `opa/source.go:62-63,69`), both of which OPA lets its user choose.
`VaultType`, `K8sType` and `OpaType` have the rules in the order of the code.

`Outbound` puts them between the audited system and the receiver. An operation
(`ops`) is logged on the lines that Vault (request, response), Kubernetes (one per
stage) or OPA (the decision) write of it; lines of several operations and stray ones mix in
`log`. The relay resolves its key and builds its source (`Start`, `StartFails`), begins
at the end of the log, may die and start again there. The transport is what
`LineFeed` promises: in order, at most once in a pass (`Rewind`: the tailer goes back, as after
an error of `os.Stat`). A line may be lost or come as a part that does not decode
(`DeliverTorn`). After a truncation the tailer has not noticed, what it had of one line and the
rest of another are joined, and may decode (`DeliverJoined`): `Joined` has some fields of the one
and some of the other, where `Cuts` says which fields a part can have (those up to
a place in the order in which the system writes them, or those behind it). `posted` is
what `Emit` passes to the client: type, operation (`CorrelationID`), entity, and the key it is
signed with; `mixed` marks the SETs of joined lines, and `since` is where this pass began.

The properties compare the SETs with the operations, whose `ok`, `code` or `result` says what became
of them. What an operation was is known by its path or its verb alone: that a request under a
mount rule's prefix is what the rule says, that an `auth/` path with `/login` is a login, or one with
`/revoke` a revocation, is the configuration's or the parser's word. `VaultTruth` says no more than that: of
`credential-revoked` that a revocation was asked for as far as the path tells,
granted or not, and of a rule's event that some rule whose prefix the path has names it,
whatever string that is. Left out: the metadata and display
names of an event, the cryptography, the URIs' common prefix.

## Runs

| Run | Shows | Bounds |
|---|---|---|
| `tailer_safe` | rotations, a truncation and an error of `os.Stat` at any moment: order, at most once in a pass, no replay until such an error, the refinement of `LineFeed`, types; and where nothing is truncated: whole lines, nothing read is dropped | 5 bytes, 2 files, buffer of 2, 1 truncation, 1 error of `os.Stat`; 4,851,750 states |
| `tailer_live` | catching up; the refinement of `Runner`: returning when cancelled, and for good | 2 bytes, 2 files, buffer of 1, 1 truncation, 1 error of `os.Stat`; 39,731 states |
| `router_opa` | quarantines hold, recoveries lift | 3 SETs, 2 sources |
| `router_targets` | all adapters act; nodes, the Vault session and the flag of the relay's entity are what was acknowledged, whatever fails between two calls | 3 SETs, 1 node, 3 sinks of which 2 share an action; 719,734 states |
| `socket` | each connection implements `LineFeed`; its lines are cut at newlines and nowhere else, and what may be lost is lost to a line too long only; an event is received once; `ListenSocket` is a `Runner`; no connection waits for another or for ever for the receiver | 1 socket, 2 connections with 3 and 1 bytes, scanner's buffer and kernel's buffer of 2; 689,998 states |
| `relay` | exit code 0 means a signal came, all sources and connections are done and none failed; a signal ends the process, whenever it comes | 2 sockets and a file, 1 connection, 1 byte; 271,532 states |
| `subscriber` | order, accounting, one at a time; reconnecting, handling what is read; the refinement of `Runner` | 3 SETs, 1 other line, connections of 2 lines |
| `outbound` | an operation is reported once, truly, if it is to be reported; signed as configured | 2 operations, 1 stray line, 1 fault (restart, joined line or return in the log); 20 configurations; 1,088,771 states |

A buffer of 2 bytes splits lines, and newlines from their lines, over several
reads; 5 bytes are two lines of two bytes and one more, enough for a line that is
torn by each hazard; two files are one rotation, at every step of the tailer, and the
rotation of the second leaves the path empty. A second source and a third SET are
enough for compromise, another source's SET or a late call, and recovery. With
connections of two lines the limit, a reconnection and a cut fall between any
two SETs. That `Handle` returns although a target hangs is part of
`ReadIsHandled` in `subscriber`, where the adapters' steps are the real ones.
Three bytes with a scanner's buffer of 2 are two lines, or a line and a rest, or a
line that is too long with bytes behind it; the second connection can parse and
emit while the first does, or just stay open. Two sockets and a file are the two ways a source
ends, and two listeners of which one can fail or end while the other's connection
is open. In `outbound` two operations are enough for one's lines to come between another's, with
a restart, a return or a stray line at each place, and for a line joined of both; the operations and configurations have every rule, each pair of rules that overlap
(a revocation under a dropped prefix, a refusal under a mount rule, two mount rules with a
common prefix, a watch refused on two stages), and each outcome of loading a key.

Every property has a mutant (in the module, next to the definition it changes):
a plausible slip in the code that makes the run fail.

The other runs end in a counterexample, each to a sentence of the repository:

| Run | Sentence | What happens |
|---|---|---|
| `tailer_cancel_error` | `tailer.go:26` "Returns nil when ctx is cancelled." | `ctx.Err()` from `openWithRetry` goes up to `main`, which exits with 1. |
| `tailer_rotation_loss` | `tailer.go:25` "handles log rotation" | The rotation is noticed before the rest of the old file is read; the rest is lost. |
| `router_clashing_ids` | `opapolicy/adapter.go:3,5` "for the affected source" | IDs such as `a-b` and `a_b` share a policy. |
| `router_denied` | `vault/adapter.go:106-107` "goal achieved" | A revoke-self refused for lack of permission is acknowledged; the token stays valid. |

More disagreements are plain from the code and have no run:

* A log truncated and grown back to the tailer's offset between two ticks is
  not seen as truncated (`tailer.go:66`, although `:25` says "and truncation"): old
  `pending` bytes and new ones form a line. `WholeLines` is therefore stated for
  logs that are not truncated; `OrderedOnce` and `NoReplay` hold all the same. The
  joined line may decode, and then be reported as an operation that never was
  (`DeliverJoined`, `mixed` in `Outbound`).
* `tailer.go:115` says that `isRotated` "returns true if the file at path has a different
  inode than f", and `:123` that an error of `os.Stat` means that "path no longer exists". Any
  error does it (`:122`), a refused permission or an I/O error as well. The tailer then opens the
  same file as soon as it can and reads it from its beginning: the whole log is
  reported again, against `:34` "so we don't replay history". `OrderedOnce`, `LineFeed` and
  `OneEventPerOperation` are therefore stated of each pass, `NoReplay` until the first such error.
* `SinkConfig.EventType` is never read: the subscription names all the adapters'
  types (`subscriber.go:54`), not "event types declared in the sinks config" (`:17`).
* `src/README.md:37` says that the router calls the adapters "in parallel";
  `router.go:43` calls them in turn. One that hangs delays those after it until
  its client gives up, and a webhook with a `timeout_secs` of 0 or less
  (`webhook/adapter.go:77`) never does.
* `vault/adapter.go:5` says that a recovery "clears the ssf_status metadata flag";
  when the token is invalid, or its policies do not allow `lookup-self` (`:182`), it is
  acknowledged and the flag stays. `RecoveryClears` says that this is the only way.
* `socket_listener.go:25-26` says that "the sender (Vault) blocks rather than
  losing events"; a line of 1 MiB or more ends its connection (`:88`, `:90`), and it and
  what the sender wrote behind it are lost. `EveryLineParsed` says that nothing else is.
* `manager.go:35` says that `Run` "waits for all to finish"; when a source
  cannot be built (`:45`) it returns with the earlier ones running. `main` then
  exits with 1.
* `subscriber.go:50-51` says that a disconnect is followed by "exponential back-off
  (cap 60s)"; creating the stream resets it (`:80`) before the connection is tried, so
  that every disconnect is followed by the same 2 s.
* `opa/source.go:110` says that `isAllowed` "returns false only when result is the
  boolean false"; a null result is false too (`:116`), and so any JSON object in the
  log that is no decision is reported as a denial. `EventsAreTrue` says so.
* `vault/source.go:112` says "Error → secret-denied"; a revocation that was refused, or a
  read of a secret whose path contains `/revoke`, is reported as credential-revoked (`:100`), and
  any request under `auth/` with `/login` in its path, as of a user `login-bot`, as a login
  (`:118`). A mount rule's event may be any string (`:22`, `:125`), not only one of the README's table.
* `opa/source.go:57` calls the fields of a decision those "we care about", `input` and
  `labels` among them (`:62-63`), which only get in the way: a decision on an input that is
  no object, which OPA allows, fails to decode and is dropped (`:69`), a denial too.
  `ReportedIfWanted` excepts it, with `Readable`.
* `signing.go:15` says that the key is "ECDSA P-256"; the curve is not checked. A key of
  another one loads, and then every SET fails to sign and is dropped
  (`ReportedIfWanted`, with `Signs`).
* With `stages: null`, or a list without `ResponseComplete`, nothing is reported; with
  both `ResponseStarted` and `ResponseComplete` a refused watch would be reported twice.
  `OneEventPerOperation` is therefore stated for configurations that do not (`WatchesOnce`).
  With `ResponseStarted` alone a watch would be reported by its start, which
  `ReportedIfWanted` does not count as asked for (`WatchesToTheEnd`). A `list` of secrets is never reported (`k8s/source.go:125`), not even where
  `get` is.

`CHECK_DEADLOCK FALSE` is given because every model may stop: the bounds are
exhausted, or the context is cancelled and the component has returned.

## Fairness

* *Tailer*: its steps are taken; `select` picks at random among ready cases, so
  that a cancellation is noticed (strong fairness of `Stop` and `CancelRetry`);
  errors of `Open`, `Stat` and `Read` are transient: the call succeeds if it is tried
  again and again. There are finitely many errors of `os.Stat(path)` (`MaxStatErrs`): with
  each the tailer may begin its file over. Nothing is assumed of the logger,
  the rotator or the operator.
* *Router*: `Handle` runs on, and a client with a timeout gives up. Nothing is
  assumed of the servers.
* *Subscriber*: also, a receiver that is up again and again accepts a stream and
  its GET in the end. A GET that is never answered ends only with the context.
* *SocketListener*: `Accept` returns what is in the backlog, and every connection's
  goroutine runs: what can be read is read, and the client's timeout fires. Nothing is
  assumed of the senders, nor of the receiver, which may never answer.
* *Relay*: also, the goroutines that wait for `ctx` close what they are to close;
  the start of `main`, the manager and `main` run on; `Tail` and `Subscriber.Run` return when cancelled.
  `Accept` is not assumed to fail while the listener is open.

## Proofs

Every invariant and action property that a passing run checks, and every
refinement as far as it is a matter of safety, is a theorem, for all values of the
constants that the modules' own assumptions admit. Nothing else is assumed, but for the
conditions in the third column; each is a definition of the module, and those of
`Outbound` are asserted of the checked instance (`ConditionsHold` in `MCOutbound`).

| Theorem | Property | Condition |
|---|---|---|
| `TailerProofs` | | |
| `TypeCorrect` | `TypeOK` | |
| `LinesOrderedOnce` | `OrderedOnce` | |
| `NothingReplayed` | `NoReplay` | |
| `LinesAreWhole` | `WholeLines` | |
| `NothingReadIsLost` | `NoSilentDrop` | |
| `LineFeedRefined` | `ImplementsLineFeed` | |
| `TailNeverReturnsEarly` | the safety part of `ImplementsRunner` | |
| `RouterProofs` | | |
| `RouterTypeCorrect` | `RouterTypeOK` | |
| `AllAdaptersAct` | `FanOutComplete` | |
| `QuarantineKept` | `QuarantineHolds` | `Injective`: distinct sources have distinct safe IDs; `router_clashing_ids` shows why |
| `RecoveryKept` | `RecoveryLifts` | |
| `CordonKept` | `CordonFollowsSETs` | |
| `SelfIsolationKept` | `SelfIsolated` | `"revoke" \notin VaultDenies`: Vault lets the token revoke itself; `router_denied` shows why |
| `RecoveryCleared` | `RecoveryClears` | `"lookup" \notin VaultDenies`: Vault lets the token look itself up |
| `SubscriberProofs` | | |
| `SubscriberTypeCorrect` | `SubscriberTypeOK` | |
| `HandledOnceInOrder` | `HandledInOrder` | |
| `NoSETVanishes` | `Accounted` | |
| `HandlesOneAtATime` | `OneAtATime` | |
| `RunNeverReturnsEarly` | the safety part of `ImplementsRunner` | |
| `SubscriberKeepsRouter` | those of the router | as there |
| `SocketListenerProofs` | | |
| `SocketTypeCorrect` | `SocketTypeOK` | |
| `EveryLineIsParsed` | `EveryLineParsed` | |
| `OncePerEvent` | `ReceivedOnce` | |
| `LineFeedsRefined` | `ImplementsLineFeeds` | |
| `ListenerIsRunner` | `ImplementsRunner`, which is safety alone here | |
| `RelayProofs` | | |
| `RelayTypeCorrect` | `RelayTypeOK` | |
| `ExitIsClean` | `CleanExit` | |
| `ErrorsAreFatal` | `ErrorIsNotLost` | |
| `RelayKeepsSocket` | those of the socket listener | |
| `OutboundProofs` | | |
| `OutboundTypeCorrect` | `OutboundTypeOK` | |
| `SignedSETs` | `SignedAsConfigured` | |
| `ReportedOnce` | `OneEventPerOperation` | `WatchesOnce`: no configuration asks for both stages of a watch |
| `SETsAreTrue` | `EventsAreTrue` | |
| `ReportedAsWanted` | `ReportedIfWanted` | `WatchesToTheEnd`: none asks for the first of them alone |

### Tailer

`OrderedOnce` is not inductive, since it says nothing of the bytes
still to be read. `IInv` adds `FilesInv` (files are disjoint runs of serials in the
order of their inodes, the one the logger has open ends with the last byte
written, later ones are empty), `ReadInv` (what remains to be read, in this file
beyond the offset, or from its beginning when it has been truncated below the
offset, or in any later file, lies beyond everything read and everything
written before the opening), and `OrderInv` (lines and `pending` increase). A
truncation that goes unnoticed is covered because the new content begins beyond
the last byte written before. The lemmas on `Covers` and `InOrder` say what
reading and splitting do to these, for any sequences. The refinement of `LineFeed`
follows: what `SplitLine` delivers increases and lies beyond all that was delivered in this
pass; a reopening that begins the same file over is the feed's `Rewind`, and the
invariant starts again with an empty pass. A
file other than the one that was open continues the pass, whatever made Tail open it.

`WholeLines` and `NoSilentDrop` are about logs that are not truncated and need to know
what `pending` is. `LogInv` says that each file begins with a line, for the logger reopens
between lines; `HeldInv` that `pending` is the end of what was read from the open file
and begins where a line does, unless no line was given to `Parse` yet. A line split off is then a
run of serials up to the next newline. `KeptInv` is `NoSilentDrop` in a form that can be
followed through `Read`, which adds to `pending`, and `SplitLine`, which moves bytes from it
to `lines`.

### Router

`RouterAssumption` says what the constants are: sinks a sequence of the four
actions, a safe ID for every source, nodes, Booleans, kinds of calls. That each property holds
now says too little about the call under way. `RInv` adds that this call is one
the acting adapter makes for its SET (`CallFits`), that the resources of the SET
being handled are not already taken for settled (`Unsettled`: `Handle` is
sequential, so an old acknowledgement cannot be broken by the SET's own
calls), that only calls given up are orphans (`OrphansInv`), that OPA's
policies are stored under IDs of their sources (`PoliciesInv`), and that
between the two deletes of a recovery the compromised policy of the source is
gone unless the first delete failed (`FirstDeleted`, `DelFailedInv`). Steps are
grouped by what they do to calls, targets and acknowledgements (lemma `Steps`),
so that each theorem has six cases. `RecoveryClears` needs besides that an `Act` which
succeeds has had its `flag` answered, or a refused `lookup` (`NextClears`): one that was not
sent, refused or given up is an error of the `Act`.

`FanOutComplete` is about a `Handle` that has returned. `FanOutInv` says the same of one under
way: the adapters with a result are those for the SET's type up to the one acting,
which is not among them; and nothing remains when it returns.

### Subscriber

`PipelineInv` orders the whole way of the SETs: serials rise from `handled` over the SET being
dispatched to those on the wire, none of them is counted as lost, and the wire has
no serial twice. `HandledInOrder` alone is not inductive, as any step that reads the wire
shows. With `DispatchInv` (what is dispatched is a SET) and `DoneInv` (`Run` has
returned only if cancelled) every conjunct of `SubscriberInv` follows from itself and these.
`Accounted` is an equation; its proof has a case for each way in which a SET moves on: it is
published (onto the wire, or lost for want of a connection), the connection is cut behind it, its
line is scanned, it is dispatched, the connection ends (on an error, the limit, or a cancellation).
Each step is one of the router or leaves its variables alone (lemma `RouterPart`), so that
`Spec => RouterSpec`, and the router's theorems carry over.

### Socket listener and process

`SocketInv` has a part for each question. `ListenInv`: connections are handled only while
`ListenSocket` accepts or waits, which is why the one that returns leaves none behind.
`ReceivedInv`: a request under way, given up, or received is each of another line, so that a late
arrival cannot be a second one. `LinesInv`: what was delivered is behind `start`, what comes is beyond
it. `EndInv`: after the end of the input nothing more is sent, and a goroutine ends with
an empty buffer, but for a line too long. `ParsedInv`: the bytes in lines are those behind `start`
that are not newlines. All actions that scan do one of three things to a connection
(lemma `ScanSteps`): nothing, skip an empty line, take a line (`TakesLine`).

`RelayInv` is `SocketInv` and what ties it to `Manager.Run` and `main`. `ListenerOfSource`:
`ListenSocket` runs only for a source that was started, and has ended when that one has. `ManagerInv`: an error of a
source is in the manager's channel until `Manager.Run` returns, and then in `main`'s or received.
`ChannelInv` counts what the two halves have returned, which is why neither ever blocks
on the channel of capacity two, and why `main` has both when it exits with 0. Every step of
the process is a step of the listener or none for it (`RelaySocketNext`), so that the
listener's theorems carry over.

### Outbound

`OutboundAssumption` says what the constants are. `RulesAssumption` adds that the mount rules are
a list, and that none has the event type "none", which stands for no event in the model.
Neither says which event types the rules give, which operations there are, or
that their lines decode.

`OutboundInv` keeps the SETs tied to the log: each SET that is not of a joined line tells the event
of a line of the log (`PostedInv`), of this pass of one behind the relay (`PassInv`), no line of an operation is in the log twice
(`LogInv`), the relay runs only with a key that loads and a source that builds
(`RunningInv`), and an operation whose last line came through has been posted if that line has an event
(`WholeInv`). What remains is about the parsers alone, for any configuration: an
operation has at most one line that has an event (with `WatchesOnce`, the invariant is carried
together with the uniqueness); an event that a line has is true of its operation; the last line
has an event if and only if the operation is to be reported. Of a joined
line only the event's type and number are known. The rule that applies to a path is
the first that matches, so the proofs need the least element of a set of naturals
(lemma `Least`, from the well-foundedness of `<`).

### What is only model-checked

Liveness: `Converges`, `ReadIsHandled`, `Reconnects`, `HungUpIsRead` and `SignalEnds`, and that
`Tail` and `Subscriber.Run` return when cancelled, in their `ImplementsRunner`. These rest on
fairness and are out of the prover's reach. TLC also checks every property above on its
instance, and the mutants there.

## Not modelled

The cryptography and encoding of SETs and their metadata, the YAML decoding, the
registration of sources and actions (by `init` functions, before `main` starts), the
JWKS endpoint (a static response), the parsing of the adapters' configuration, the demo,
packaging and CI. A webhook that lists an event type twice acts twice. Time is abstracted: timers
fire at any moment. Resources have no bound in the code, and none to check: the tailer's
`pending` while no newline comes (`tailer.go:76`), `Accept` failing in a loop without a
pause (`socket_listener.go:59`), streams that every reconnection leaves at the
receiver (`subscriber.go:69`).

## Plan

The core, the composition of the parts and their safety proofs are done. What is left:

1. The configuration of the adapters, and a webhook's duplicate event types.
2. A proof that the lines a transport delivers (`LineFeed`) are what `Outbound` takes them for, so that
   the two descriptions of a source's way are one.
3. Lemmas about the liveness properties' steps: which measure each decreases.
