# jni-proxy: specifications, model checks and proofs

jniservice exposes Android's Java APIs over gRPC from a native process. Most of
the repository is generated: one stateless handler per Java method. What is
left is a small hand-written core that keeps state across calls, threads and
restarts. This directory models that core in TLA+, checks it with TLC and
proves the safety of its components with TLAPS.

All paths below are relative to the root of the sources (`src/`). `PROJECT.json`
maps every definition to the lines it models and lists the runs, the faults the
properties catch, the hazards and the theorems.

    tlc -config Controller.cfg MCController      # one run
    tlapm ControllerProofs.tla                   # the proofs of a module

## 1. Inventory

### Startup: run one fixed command on the device once

| part | state | operations | correct when |
|---|---|---|---|
| controller, `startup/controller.go` | intent (`wanted`, `port`, `attemptedPort`, generation), the cancel slot, status, one goroutine per run | `Start`, `Configure`, `Apply`, `Discovered`, `DiscoveryFailed`; the goroutine's `execute`, `recordAttempt`, `finish` | one run at a time, only for the intent in force; late runs and reports change nothing; a found endpoint is attempted; at most three attempts |
| configuration, `startup/config.go` | `startup.json` | `loadConfig`, `saveConfig` | memory and file agree after every outcome; a broken file starts nothing |
| discovery, `LocalAdbDiscovery.java` | revision, Service objects, resolve queue, `currentPort` | `setEnabled`, the platform's callbacks | the port reported is the port of a service of the running discovery; no registration leaks |
| bridge, `cmd/jniservice/startup.go` | the looper's queue, native calls under way | `Update`, `discovered`, `discoveryFailed` | both copies of the port agree; delayed reports are dropped |
| RPC service, `grpc/server/startup/server.go` | none | `Configure`, `Apply`, `Status` | returns what the controller says |
| transport, `adb/shell.go` | one connection, one shell-v2 stream | `Shell` | the outcome is what the bytes say, however they were cut into packets |

The controller is called by RPC goroutines, by the looper thread (through the
bridge) and by its own run goroutine; `c.mu` serialises them. Hard: reports and
returns that are late, retries and backoff across changes of endpoint, a
failed save, a failed update of the subscription, the death of the process.

### Object proxies and handles

| part | state | operations | correct when |
|---|---|---|---|
| proxy stream, `grpc/server/jni_raw/proxy_stream.go`, `proxy_callback_forwarder.go`, `void_detector.go` | pending calls and their channels, two mutexes, handles of arguments | JVM threads call, the client answers, the stream ends | a call returns; no send on a closed channel; no handle without an owner |
| handle store, `handlestore/` | handle -> global reference | `Put`, `Get`, `Release` | every reference has one owner; a handle is never used again |
| raw JNI server, `grpc/server/jni_raw/server.go` | none | one handler per JNI function, `GetAppContext` | clients get copies of the service's objects, never the objects |
| `setAppContext`, `cmd/jniservice/server.go` | `AppContextHandle`, `AppClassLoader`, the class loader for proxies | called by Java, again after a failure | the service's own objects stay |

Hard: callback threads, the receive loop and the teardown of the stream share
two mutexes and one-place channels; the object can be called before the client
knows it; the store's lock covers its map and not the references in it.

### Access

| part | state | operations | correct when |
|---|---|---|---|
| store, `grpc/server/acl/store.go` | SQLite: clients, grants, requests | register, request, approve, deny, grant, revoke | one decision per request; grants come from decisions; revoking leaves nothing |
| authorisation, registration: `grpc/server/acl_auth.go`, `auth_service.go` | none | `Authorize`, `Register`, `RequestPermission` | a call passes exactly with a matching grant |
| dialog: `permission_decision.go`, `PermissionDecision.java`, `PermissionDialogActivity.java` | state of one decision | show, decide, save, restore | the decision is saved once, or the user told that it is uncertain |
| administration, `cmd/jniserviceadmin` | none (a second process on the same database) | the store's operations | as the store |
| certificates, `grpc/server/certauth/ca.go` | `ca.key`, `ca.crt` | `LoadOrCreateCA`, `SignCSR` | a restart finds the same authority |
| enrollment, `mcp/auth.go`, `cmd/jnicli/auth.go` | `client.crt`, `client.key`, `ca.crt` | `AutoEnroll`, `auth register` | a client with all its files connects |

Hard: two processes decide the same request, row ids are reused, the activity
is recreated while a decision is saved, a crash between two file writes or in
one, two clients on one directory.

### The rest

Camera capture (`CameraCapture.java`, one blocking call over callbacks), bind
address and service configuration (`internal/`, pure parsers), the Android
service shell, the assembly of the server, the gRPC interceptors, generated
services and clients (`grpc/server/<package>`, `grpc/client`, `proto`), the
command line and MCP clients, the generators (`tools`, `spec`).
`PROJECT.json` lists each of them with the reason it is not modelled.

## 2. Modules

    FixedAction            what the controller promises
      ^ refines
    Controller --------+   MCController, ControllerProofs
                       +-- StartupSystem   MCStartupSystem, StartupSystemProofs
    LocalAdbDiscovery -+   MCLocalAdbDiscovery, LocalAdbDiscoveryProofs
    AdbShell               MCAdbShell, AdbShellProofs
    CallbackContract       what a call of a proxied object may count on
      ^ refines
    ProxyForwarder         MCProxyForwarder, ProxyForwarderProofs
    HandleStore            MCHandleStore, HandleStoreProofs
    AclStore
      ^ extends, implements
    PermissionFlow         MCPermissionFlow, AccessControlProofs
    Enrollment             MCEnrollment, EnrollmentProofs

**Controller.** Each exported method holds `c.mu` from its first to its last
statement: one action per method. The goroutine of `launchLocked` is a process
with a program counter (`check`, `record`, `run`, `backoff`, `finish`), because
it takes `c.mu` only in `recordAttempt` and `finish`. `worker[w].cancelled` is
its context, `cancel` the goroutine `c.cancel` cancels. A run returns one of
the outcomes the code tells apart, and may succeed although it was cancelled.
Loading the file may fail although it is a valid one (`LoadFails`).
`Configure` has every way of failing: refused arguments and a failure before
the rename leave everything as it was, so they are stuttering steps; a failure
after the rename changes only the file. `ProcessRestart` keeps the file and
resets the rest. `endpointRuns` counts the runs begun for the endpoint in force
and exists for `RetriesBounded` alone.

**FixedAction** is the contract: an intent is replaced as a whole, a run
belongs to one epoch, only the current epoch's run satisfies the intent, a
satisfied intent starts nothing. It knows neither ports nor retries, mutex or
goroutines. `Controller!Contract` maps an epoch to a generation and the run in
flight to the generation of the goroutine in the slot.

**LocalAdbDiscovery.** All state belongs to the main looper: one action per
runnable or callback. Platform callbacks carry the revision or the Service they
were created for and are enabled arbitrarily late. `subscribing` is the API
level, chosen at the start: from Android 14 on each service has an info callback,
before there is one resolve at a time from a queue. A native call into the
controller occupies the looper: `calls` holds those still being made, and no
runnable starts until it is empty. Services are numbered in the order the HashMap iterates.

**StartupSystem** joins both: what the controller posts is appended to the
looper's queue while `c.mu` is held, so updates arrive in the order of their
generations; a native call waits for `c.mu`, so a request may overtake a report
already decided.

**AdbShell** is one `Shell` call. A byte is a small number and a header two of
them, kind and length, so every way a peer can cut a stream into packets is
within reach of TLC. A packet the code refuses is a bad one, whatever is wrong
with it; reads and writes fail anywhere; the context may end at any time (the
20 seconds, or the controller's cancellation) and wins over whatever the command
said. The reference (`Starts`, `Frames`, `Rest`, `IsPayload`, `IsTranscript`,
`IsExtendable`) says what a stream of bytes means by the positions of its frames
alone, without packets, buffer or order of reading.
Left out are the error of closing the socket and, of the two errors a malformed
packet is where the peer's banner is expected (`shell.go:190`), the
authentication one: no step tells them apart.

**ProxyForwarder.** One process per call of the proxied object, one for the
stream's handler, one for the client. The handler creates the object first, a
dynamic proxy (`interface`) or an adapter whose handler is registered before
the object is constructed; it can be called before `Created` is sent, and each
way of failing leaves the deferred calls that are in place by then. `pendingMu`
is held inside single steps only, except by a receive loop that blocks on a
full channel; `sendMu` is held across the send. The deferred calls of the
handler run one by one, in reverse order, while the proxy can still be called.
`isVoid` reads references that `voidDetector.close` deletes without
synchronisation: afterwards its answer is any. A client answers a call it was asked about as often as `MaxResponses`
says. A response is in a channel or
not, which of several is left out; a channel that `closePending` closes still
yields the response it holds. `result` is what `sendCallback` returns.

**CallbackContract** is what both ends may count on, without pending map,
channels or threads: a call asks the client at most once, the answer it sent is
what the call returns unless the client cancels the stream, and a call fails
only when the stream is over. `ProxyForwarder!Contract` reads a call's state off
its thread, its result and the responses the client has sent; the stream counts
as closed once `closePending` has run.

**HandleStore.** A global reference is a number that is never used again. `Put`
is three steps (`NewGlobalRef`, `TakeNumber`, then `Reply` or the assignments of
`setAppContext`), `Release` two (`Remove`, `Delete`), and what `Get` returned is
used in a later step (`Require` then `Call`, `RequireContext` then
`CopyContext`). A client may name any number, as `ReleaseHandle` and
`requireObject` do not ask whose handle it is: its own, as often as it likes,
another client's, or the service's. `known` are the handles clients were given,
and `guessed` the entries released under a number that is not one of them; both
are history. `setAppContext` runs on Java's main thread while requests are served and
again after it, or what Java does next, has failed. `AppContextHandle` is
written without synchronisation; a request that reads it late reads an earlier
value, and that is a request that came earlier.

**Enrollment.** Both sides write their files with `os.WriteFile`, which empties
the file first: each write is two steps, and after the first the file is `Torn`.
The service may die, or fail, in each (`ServiceDies`, `WriteFails`), client
processes may stop in each (`Stop`), and two of them share the directory and
may have one file open at once. `tool` is the program: `jnimcp` enrolls only if
one of the three files is missing and writes certificate, key, CA; `jnicli`
replaces the files, key first. An authority and a key pair are numbers, and a
certificate is named by the key it is for. `last` tells how the registration
that wrote last ended and exists for `EnrolledConnects` alone.

**AclStore.** The tables are sets of rows, without time stamps and
certificates; `nr` numbers the requests ever made, because ids are used again.
Each process has one connection, so its transactions do not overlap: an
operation of one statement is one action, and so is `RevokeClient`, whose
transaction starts with a write and holds the database's only write lock from
then on. `ApproveRequest` is a deferred transaction that reads first:
`ReadRequest` and `CommitApproval` are separate steps, the other process may
commit in between, and then SQLite refuses the transaction's first write
(`current`, external). Its update does not repeat the condition
`status = 'pending'`. `Rollback` is any error after the query; an operation that
fails earlier changes nothing. A method's name is only compared, so the matching
of patterns, which reads, is left out. `Requested` are the sets of methods
clients ask for. It has no run of its own: `permission_flow` drives every one of
its operations, the service's through the dialog and the RPCs.

**PermissionFlow** follows one dialog over that database. `Ask` is
`RequestPermission` up to its call of `OnPermissionRequest`; the dialog comes up
in a later step (`Launch`) for one of the requests launched until then. Main
thread handlers are one action each; the task on the executor takes its
steps in the database as connection `service` and posts its result (`Deliver`).
`decision` is the state of the `Operation` the activity on screen holds. A
rotation keeps it, so it needs no action of its own beside `Pause` and
`Resume`. `Destroy` clears the observer, `Recreate` continues with a new
`Operation` restored from the bundle, and a result for the old one changes
nothing that is shown. `ProcessDies` rolls the transaction back and keeps an
activity only if its state was saved. Meanwhile clients ask and the
administrator decides, grants and revokes (`Ask`, `Elsewhere`). A second
dialog over the first is not modelled. `saved` and `prompts` are history.

## 3. Runs

| run | shows | bounds |
|---|---|---|
| `controller` | one run at a time, only for the intent in force, no status but its own, at most three attempts; the endpoint that waits for a cancelled run is attempted; the contract | 2 generations, 2 counted attempts, 2 ports, 1 key, 2 goroutines, 1 restart |
| `controller_renewal` | violated: see findings | 1 generation |
| `discovery` | on both API levels, late callbacks, network changes and retries bring nothing outdated back and leak no registration; one live resolve request; the queue serves every service | 2 services, 2 ports, 2 generations, 4 revisions, 3 Service objects |
| `startup_system` | controller and looper agree on the endpoint once no report is under way, and on the intent once every update was taken; no delayed report is taken; the platform comes to search exactly while the action is wanted | 2 generations, 3 revisions, 1 port, 2 Service objects |
| `adb_shell` | the outcome depends on the bytes alone, up to the limit on packets: a result is what the whole stream says, a refused stream has no acceptable continuation, and the buffer's bound costs no answer | 8 bytes in 4 packets of at most 3, output of at most 2 |
| `proxy` | from the creation on, no send on a closed channel, nothing left pending, no handle without an owner; a duplicate answer blocks the receive loop only for a while, a third may block it for good; calls are released at the end of the stream; the contract: no answer is lost, and no call fails while the stream lives | 2 calls, one of which need not expect an answer, 3 answers each |
| `proxy_stream_end` | violated: see findings | 2 calls, 1 answer |
| `handle_store` | one owner for each reference, no handle used twice, the service keeps its objects, except one a client guessed the number of | 3 requests and the main thread, 4 references |
| `handle_release` | violated: see findings | 2 requests, 3 references |
| `permission_flow` | the dialog claims what was saved, repeats nothing, asks the platform once, leaves no transaction open and does not stay in its saving state; between two processes one decision per request, approvals grant all or nothing, no grant from the dialog without its approval | 1 client that asks twice, each time for 2 methods |
| `permission_ids` | violated: see findings | 2 clients, 1 method, 2 requests |
| `enrollment` | a certificate once issued stays good; a client with all its files connects, up to three exceptions | 2 client processes, 2 authorities, 4 keys |

Why the bounds suffice. The controller's errors need an old intent, its
successor and a late step of the old one: two generations; what is late by more
is covered by the proofs, which bound nothing. Two ports let an endpoint change
and change back. Two goroutines are one more than may ever be in flight, so a
second launch is seen by `OneAction` rather than blocked by the bound.
`MaxAttempts` only stops changes of the endpoint after that many recorded
attempts; each endpoint still has its three. A discovery needs two revisions for
something to be outdated and two services for the queue to hold one; in the
joined system two Service objects let the service be found again after a change
of network. Two answers to a call are what it takes to block the receive loop,
a third what it takes to keep it blocked; two calls let one need the mutex that
the answers to the other hold. Two requests are what it takes for an id to be
used again or for two approvals to grant one method; two methods, of which the
administrator may have granted or revoked one, are what a partial grant needs.
The rows of another client only have to survive. Four references are the service's two, a
client's and one more that could collide with it; two authorities are the one a
certificate was issued by and one that must not follow it. Eight bytes hold a
frame of output, its continuation and an exit, and a buffer that reaches the
bound. All safety properties of the passing runs are proved for every size
(section 4).

Deadlock checking is off everywhere: all of these systems may stop, a
controller that nobody asks anything, a looper without callbacks, a stream
or a command that has ended, a dialog nobody taps; the counters of references,
keys and authorities end where their bounds are.

Fairness. Controller: weak fairness of each goroutine's steps, since `Shell`
has a 20 s deadline, the backoff is a timer and the mutex is held for bounded
time; nobody owes it a request, a report or a restart. Discovery: native calls
return, posted updates are taken in order, and the platform answers a resolve
request one way or the other. System: strong fairness of the looper's next
posted update, as other callbacks get in between, and weak fairness of native
calls. Proxy: threads and handler step when they can and a waiting thread gets
`sendMu`; no one has to call, answer, release or end the stream. Dialog: the
executor and the main thread run what is queued, and SQLite answers; the owner
need not tap, Android need not resume anything.

### Findings

- **An endpoint that comes back is not attempted** (`RenewedEndpointRuns`).
  `finish` recognises a newer endpoint by the values of generation and port. If
  the port goes away or is replaced and comes back before the cancelled run has
  returned, its cancellation is recorded as the outcome of the renewed endpoint,
  which is never attempted.
- **A call may outlive its stream** (`NoCallOutlivesStream`). A call that
  registers between `closePending` and the return of the handler is sent on the
  half-closed stream and waits for ever.
- **A release is not atomic** (`NoUseAfterRelease`). The lock covers the removal
  of the handle; the reference is deleted after it, while another request may
  hold what `Get` returned. What does hold is `OneOwner`.
- **A dialog may approve a request it does not show** (`ApprovalIsShown`).
  `RevokeClient` deletes requests and SQLite gives their ids to new ones; the
  dialog knows its request by the id alone. It fails no further than that
  (`MistakenOnlyIfDeleted`, section 4).

More disagreements are in the models and are not runs of their own.
`Configure` may return an error although the new file is in place (`synced` is
FALSE), and a restart acts on it. A network change during a resolve clears
`resolving` while the platform still works on the request (`outstanding`), so two
may be under way; `OneLiveResolve` is about those of the running discovery.

Two properties hold of clients that keep to a rule the code does not enforce,
and name it; the runs have clients that break it. `ServiceKeepsItsOwn`:
`ReleaseHandle` takes any number, handles are 1, 2, 3, and the first ones are the
service's, so a client that releases a number it was never given takes the
application context, its class loader or the object `GetAppContext` is copying
away from every client (`IdGuessed`, `RefGuessed`); `jni_raw/server.go:27` calls
the object service-owned. `ReceiveLoopResumes`: a client that answers one call
three times, the last after the call has taken the first answer and before it
unregisters, leaves the receive loop blocked for good with `pendingMu` held, and
then the stream cannot be torn down (`AnswersAreFew`).

`EnrolledConnects` names its exceptions: the last write of `AutoEnroll` cut
short leaves a torn `ca.crt`, which nothing replaces because the file exists; an
`auth register` over old files cut short leaves a mixture; so do two
registrations at once.

## 4. Proofs

`ControllerProofs` proves, for any sets of keys, endpoints and goroutines and
any bounds, under the named assumptions of `Controller`:

| theorem | property |
|---|---|
| `TypeCorrect` | `TypeOK` |
| `OneActionHolds` | `OneAction` |
| `UncancelledIsCurrentHolds` | `UncancelledIsCurrent` |
| `StatusIsTrueHolds` | `StatusIsTrue` |
| `SubscriptionFollowsIntentHolds` | `SubscriptionFollowsIntent` |
| `RetriesBoundedHolds` | `RetriesBounded` |
| `OldGenerationSilentHolds` | `OldGenerationSilent` |
| `ImplementsContract` | `ContractSpec` |

None of the properties is inductive. `OneAction` speaks of goroutines in
flight, while `launchLocked` looks at the slot: `SlotIsActive` says that a
taken slot holds a goroutine in flight. `finish` is harmless because the
goroutine's record determines whether it may still touch the status:
`ActiveShape` bounds what a goroutine in flight can know (its generation is not
of the future, its port is an endpoint, it backs off only with a try left).
`IntentShape` says that nothing newer than the generation was posted and that
an intent has a generation, and `RetryShape` bounds the runs counted so far by
the attempt of the goroutine in flight, which makes `RetriesBounded` inductive. `IInv` is their
conjunction with the properties; the module proves `Init => IInv` and one lemma per action,
each split over the conjuncts the action can disturb, and derives the theorems
by one temporal step each. TLC has checked `IInv` on the bounds of
`controller` as well. The assumptions are that endpoints are ports, that
keys, files and goroutines are distinct from the values for "none", and that
bounds are naturals.

`AccessControlProofs`, for any clients, methods and number of requests, first
the database alone:

| theorem | property |
|---|---|
| `TypeCorrect` | `TypeOK` |
| `GrantsAreBackedHolds` | `GrantsAreBacked` |
| `DecisionsAreFinalHolds` | `DecisionsAreFinal` |
| `ApprovalIsWholeHolds` | `ApprovalIsWhole` |

An approval writes what it has read some time ago. `Snapshots` is why this is
right: a transaction on the latest snapshot has read a row that is still there,
unchanged and pending. Every committed change ages all the other transactions,
so the lemmas of the operations show `Snapshots` either by that or, for the query
itself, from the row it found. `Numbered` says that `nr` is a key. The two
action properties follow from the invariant and one lemma per way of changing
requests: rows kept, created, denied, approved.

Then the dialog over it:

| theorem | property |
|---|---|
| `FlowImplementsStore` | every step of the flow is a step of `AclStore` or a stutter |
| `FlowTypeCorrect` | `FlowTypeOK` |
| `ClaimIsTrueHolds` | `ClaimIsTrue` |
| `NeverReplaysHolds` | `NeverReplays` |
| `AskedOnceHolds` | `AskedOnce` |
| `MistakenOnlyIfDeletedHolds` | how far `ApprovalIsShown` fails |

The first theorem carries what is proved of the database over to the flow. The others
need `DialogInv`. A result is posted long after the tap, so `TaskInv` says that
a task that is not done has saved nothing, that the result it carries agrees
with what it saved, and that a dialog it will report to is still in its saving
state with the same choice. An activity may be replaced by one that knows only
the bundle, so each promise is kept twice, for the state shown and for the
bundle of an activity in the background (`ReadyInv`, `ClaimInv`, `PromptInv`);
`BeforeLaunch` covers the time until the dialog comes up. TLC has checked
`DialogInv` with two clients and two requests.

`MistakenOnlyIfDeleted` bounds the violated `ApprovalIsShown`: a request that a
dialog did not show was approved only where the shown one was deleted. The
dialog passes an id on and nothing else, and the row it was launched for may be
deleted and its id given away. `ShownInv` says that as long as that row exists, it is the one with the
id (`Follows`, for the request shown and for those still to be launched), and
that the service's transaction is about the id shown. No step but `Ask` makes a
row, and that one has a new number (`OldRowsOnly`), so nothing but a deletion
parts the two; the transaction's commit then decides either the row shown or,
that one gone, another. `AclAssumption` asks that requests be for sets of methods
and that the bound on them be a natural number.

`LocalAdbDiscoveryProofs`, for any services, ports, releases and bounds:
`TypeCorrect`, `ServicesAreCurrentHolds`, `PortIsAdvertisedHolds`,
`NoLeakedSubscriptionHolds`, `OneLiveResolveHolds`. The invariant adds what the
runnables rely on without a check: objects were created for revisions up to the
present one, the table files an object under its own key, nothing is found
before discovery has started (`FoundAfterStart`), and a retry of the present
revision is due only while no discovery runs (`RetryIsDue`), which is why a retry
may keep what was found. `RequestsCounted` says the cardinality of
`OneLiveResolve` as a set. What a helper does (`RefreshPort`, `ResolveNext`,
`ForgetServices`) is a lemma that the runnables cite.

`StartupSystemProofs`, for any keys, workers, services and bounds:

| theorem | property |
|---|---|
| `ControllerInSystem` | every behaviour of the joined system is one of `Controller` |
| `LooperInSystem` | every behaviour of the joined system is one of `LocalAdbDiscovery` |
| `EndpointAgreementHolds` | `EndpointAgreement` |
| `SearchAgreementHolds` | `SearchAgreement` |
| `EndpointsAreFreshHolds` | `EndpointsAreFresh` |
| `SystemImplementsContract` | `ContractSpec`, of the joined system |

Each component's own module surrounds it with callers that do what they like
within a rule: a platform that calls back for any generation that was posted,
callers of `setEnabled` that post a generation at most once and later only to
stop it. The first two theorems say that the other component keeps to that rule,
so what is proved of each alone holds of both together. Neither can be shown
first: the controller posts a stop for the present generation only because the
looper has reached it, and the looper reports only what was posted. So
`SystemInv` is both components' invariants with `Link`: the queue holds nothing
newer than the last post and enables a generation only before anything later
(`QueueInOrder`, `LastIsPosted`), the looper's calls are for the generation and
port it is on (`CallsAreForNow`), no endpoint and no run is of a generation the
looper has yet to hear of (`NothingAhead`), and `AgreeUnlessReporting` is
`EndpointAgreement` while other calls are being made. The lemmas of
`ControllerProofs` and `LocalAdbDiscoveryProofs` are cited for their halves.
`SearchAgreement` is the safety half of `SearchFollowsIntent`: with the queue
empty the looper has taken what was posted last (`LastIsPosted`), and that is the
intent unless a post was refused (`SubscriptionFollowsIntent`). What remains is
that the status goes on saying so: a restart renews it, the other steps of the
controller write what their generation's post allows, and a failure reported for
an earlier generation changes nothing (`FailureCounts`). A looper that still
searches for an earlier generation can therefore not cover a refusal up
(`RefusalShows`). `SystemImplementsContract` follows from the first inclusion:
the contract of `FixedAction` holds with the real looper as the platform.
TLC has checked `SystemInv` and both inclusions on the bounds of
`startup_system`. `LooperAssumption` is `LocalAdbDiscovery`'s assumption on the
constants that `Controller` does not have.

`AdbShellProofs`, for any bounds, any stream and any way of cutting it:

| theorem | property |
|---|---|
| `ShellTyped` | the types of the stream and its counters |
| `OutcomeIsRightHolds` | `OutcomeIsRight` |
| `BufferNeverFull` | the first check of `feed` never refuses a packet |

The reference finds the frames of the whole stream by a recursive function, the
code consumes them one at a time. Induction is not available, but a function on
an interval has a least argument where it goes wrong (`LeastNumber`), and that is
enough for what is needed: a start is 0 or the end of a frame (`StartsFacts`),
frames follow one another without gaps, a stream that begins with `p` has the
frames of `p` (`FramesPrefix`), and what follows `p` adds one frame
(`AddsFrame`) or none (`AddsNoFrame`). With these, `IsDecoded` is inductive: what
was received is a `p` whose frames have been taken, and `pending`. `IsShort`
says that between packets `pending` is less than a frame, and of one that may
still come within `maxOutput`; so the buffer always has room for one more
packet, and the first check of `feed` refuses nothing (`BufferNeverFull`). Both
cases of a refusal, a frame that is wrong and a frame that is too long, are
shown to be there for every continuation. The proof found that `maxOutput` must
not be 0, for then a header of an exit would be refused for its length:
`LimitsAssumption` says so.

`ProxyForwarderProofs`, for any number of calls and answers: `TypeCorrect`,
`NoSendOnClosedHolds`, `NothingLeaksHolds`, and `ImplementsContract`, that the
stream implements `CallbackContract`. The invariant adds that a registered call
expects its answer, so that whatever ends the call unregisters it. The
refinement needs to know that an answer once sent does not get lost on its way
(`AnswerInv`): as long as its call waits and nobody cancelled, it is still to
be received or is in the channel, open or closed (`AnswerIsKept`); a waiting
call has a channel, registered until it is closed (`ChannelIsThere`); the
client answers only what it was asked (`AskedFirst`); and the deferred calls
run only after the last response was received, or after a cancellation
(`EndIsLast`), so none is closed out. A client that answers twice takes no
second step of the contract. TLC has checked `AnswerInv` on the bounds of
`proxy`.

`HandleStoreProofs`, for any requests and references: `TypeCorrect`,
`OneOwnerHolds`, `ServiceKeepsItsOwnHolds`, `HandlesAreFinalHolds`. Numbers are
drawn before the lock is taken: `NumbersAreFresh` says that a number drawn and
not yet stored is drawn once, its entry empty and no client told.
`ServiceOwned` says that what the service keeps, and what a request copies from
it, is under a handle no client was given, also after Java has set another.
Clients may name any number: `Kept` says that such an entry is there unless a
client that guessed its number has released it (`IdGuessed`, `RefGuessed`).

`EnrollmentProofs`, for any processes, authorities and keys: `TypeCorrect`,
`OneCAHolds`, `EnrolledConnectsHolds`. `CAShape` ties the two files to where the
service is, so that it signs only when both are written. `CALast` is the order of
AutoEnroll's writes, `Written` that a process which registers alone finds what it
has written as it left it, and `LastWhole` that after a registration that was
neither cut nor mixed the files belong together.

Model-checked only: every liveness property (`ReplacementRuns`, `QueuedIsServed`,
`SearchFollowsIntent`, `ReceiveLoopResumes`, `PendingReleased`, `SavingEnds`, and
the two that are violated), because the prover has no rule for fairness.

## 5. Plan and what is not modelled

Done: the startup system, the proxy stream, the handle store, access control
and the dialog, enrollment, the transport; proofs of each one's safety.

Candidates for more: `CameraCapture.java` (a camera opened too late or an
exception half-way), the service's listener settings (`internal/`) as a pure
function, `camera_record.go` of the command line client.

Not modelled, and why. The repository has six million lines, all but some
seventeen thousand of them generated: messages, stubs and one handler per Java
method, which look objects up in the handle store, call Java and put the result.
What they do to shared state is `HandleStore`; modelling them one by one would
repeat it, so the share of all lines that the map covers is small whatever is
added, and says nothing about the hand-written part. Of that part, the Android
service shell starts things in an order Android decides, the interceptors keep
no state between calls, the RPC service of the startup controller and the
clients pass calls on, and the generators run at build time. Validity dates are
left out everywhere: nothing renews a certificate, so no step depends on them.
A stream goes on after its client was revoked; `Authorize` runs once per call
and keeps nothing, so there is no state to relate.
