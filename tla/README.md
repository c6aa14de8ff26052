# Verification of Hamlet

Hamlet is the home server of PlaceNet. It signs certificates for devices, runs
a Mosquitto broker, listens to beacons over MQTT, connects to the gateways they
advertise, and broadcasts authenticated announcements. This directory holds
TLA+ models of its concurrent parts, the TLC runs that check them on small
instances, and TLAPS proofs for every value of their constants. Paths below are
relative to the repository's `src/`.

## The system

| Part | State | Operations that change it |
|---|---|---|
| Beacon registry and message loop (`registry.rs`, `app.rs` `run_beacon_message_loop`) | records, `known_gateways`, the shared broadcast list, subscriptions | register a channel, sweep stale beacons, handle a message |
| Broadcast keys and loop (`key_management.rs`, `app.rs` `run_broadcast_loop`) | table `broadcast_keys`, the cycle's key and token | look up or rotate, sweep, derive the token, publish |
| Supervisor (`supervisor.rs`) | statuses, services, the command queue | start, stop, restart, status, shutdown |
| Service life cycles (`gateway_service.rs`, `mosquitto_brokerage_service.rs`, `mqtt_client_service.rs`, ...) | shutdown senders, channel ends, listeners, the broker process | `start`, `stop` |
| WebSocket gateway connection (`cloud_gateway_service.rs`) | outbound queue, connection, back-off | connect, register, send, reconnect, stop |
| Cloud gateway MQTT client (`gateway_mqtt/`) | cached login, outbound queue, request channel, back-off | log in, connect, announce, publish, stop |
| Local MQTT client tasks (`mqtt_client/tasks.rs`) | command, request and inbound channels | subscribe, unsubscribe, publish, forward, disconnect |
| Certificate authority (`infra/ca/`) | CA row, root in memory, node identity, device certificates | load or generate, ensure the identity, sign, upsert, revoke |
| Device handshake (`internals/handlers.rs`, `proxy.rs`) | device rows, identity files, topic channel | sign, store, record, queue topics, answer |
| Start-up and broker provisioning (`app.rs`, `main.rs`, `mqtt_brokerage/`, `config.rs`) | certificate files, `mosquitto.conf`, password file, which services run | write the files, start in order, wait for the first ConnAck |
| Rest of the configuration, proxy forwarding, rendering, peer | none that changes | - |

How they meet: a handshake on the HTTP gateway queues two topic channels; the
message loop registers them through the MQTT command task; the event-loop task
forwards messages to the message loop, which starts WebSocket tasks and owns
their shutdown senders; the broadcast loop reads the topic list under a lock
the message loop writes. The supervisor starts and stops all of it.

What is hard about it: `select!` drops a branch's future at any await; state
read before an await is used after it; bounded channels between tasks that wait
for each other; a crash between two SQL statements; reconnects that start a
clean MQTT session; services whose `stop` only signals. `PROJECT.json` lists
these hazards at the lines where they bite.

## Modules

**`BeaconRegistry`** - the registry, its loop and what surrounds them. Each
await of `register_channel` and `check_timeouts` is a value of `pc`;
`sweep_send` (room in the command channel), `sweep_unsub` (the reply) and
`sweep_lock` are the ones at which the `select!` may take another branch, and
`HandleMessage` and `RegisterChannel` then drop the sweep
(`RecordsAfterCancel`, `ContinueLoop`). `last_seen` is an age, capped just past
the timeout. The two `try_send`s of a handshake are separate steps; a full
queue drops the channel. An unsubscribe that was sent is executed, or
fails, even if the sweep that sent it is gone; sending it fails when the client
is gone, and the sweep goes on after either error. Beacon ids are fresh UUIDs, so one handshake per
id; the list of broadcast topics is the set of its beacons. Not modelled: the
`Hybrid` topic type, which nothing constructs; the end of the loop when the
inbound sender is gone, which cannot happen while the supervisor keeps it.

**`BeaconSilence`** - adds the beacons' own clock: how long each has really
been silent, whether or not the registry heard it.

**`BroadcastKeys`** - each SQL statement is a step; time, failing statements,
crashes and colliding random ids come between any two. Times are relative to
`unix_now()`. The table survives a crash, the loop's variables do not. HMAC and
hex are abstracted to the slot the token is for. The interval's `Burst` ticks
let a cycle start at any time.

**`Supervisor`** - the command queue, the handlers, the statuses, and for each
service what `start` and `stop` do: the handle kept, channel ends that exist
once (`OneShot`), a listener that closes late, a process that dies. Several
callers share the queue; one that gives up (`GiveUp`, its future is dropped)
leaves its command behind, which is carried out for nobody. `answer` is the
result sent in the last step. The application only starts services; stop and restart are the public interface
and the subject of `tests/supervisor.rs`.

**`LossyQueue`** - the abstract link: messages leave in the order they were
accepted, each at most once; the oldest may be lost (`Lose`), or one from the
middle (`Refuse`); closing loses the rest.

**`CloudGateway`** - `spawn_connection_task` of the WebSocket client. A message
is the number of the call that queued it. The back-off sleep ignores the
shutdown signal, and a failed Register frame reconnects without a sleep, as in
the code. Inbound frames are only logged there and leave no trace here.

**`GatewayMqtt`** - the connection task of the cloud gateway's MQTT client.
`requests` is rumqttc's bounded channel: `publish`, `on_connected` and
`disconnect` put requests in and wait while it is full, and only polling in
`select!` takes them out, once connected. The client rejects a topic it finds
invalid at once: a message is then lost behind older ones (`PublishRejected`),
and of the three requests of `on_connected` any number is made. Each connection
has a new channel.
The library is modelled from how the code uses it.

**`MqttPipeline`** - the composition around the local MQTT client: the message
loop and the broadcast loop call `MqttClientHandle`, whose commands wait in a
bounded channel; the command task turns each into a request in rumqttc's
bounded channel and replies; the event loop alone empties that channel, and
does not while it waits for room in the inbound channel. A command is its
caller, so that a reply can be late, lost or meant for a call that was dropped;
requests and messages are counted. The broadcast loop holds the read lock from
its first publish to the end of its last sleep, and a waiting writer keeps a new
reader out. `BeaconRegistry` has what the loops do to the registry; here they
are reduced to their waits.

**`CertificateAuthority`** - the tables of `CaService` and the root in memory. A
certificate is its key and the key that signed it; keys are numbered as they
are drawn. `Startup` extends it.

**`Startup`** - `App::initialize` call by call, with what each leaves on disk.
`tokio::fs::write` truncates and then fills, so a crash can leave an empty file
or a pair that does not match; errors end the process or are only logged, as in
the code. Each launch chooses `MQTT_TLS_ENABLED` (true, false, not set) and
whether mosquitto is found. The broker is external: it serves the configuration
and the files it was started with, and ends with the node. The certificate
paths are the defaults, in one directory. The optional cloud gateway client,
started last, is in `GatewayMqtt`.

**`DeviceHandshake`** - composes the node with the HTTP handlers that
`handle_device_init` and `handle_client_register` are: one task per connection,
steps at the upsert, at both halves of the record's write and at the answer,
tasks dropped when their connection closes, failing calls, `revoke`. `Route` is
the header dispatch. `alone` marks a request that no other request of the same
device has overlapped. A CSR may be the one of an earlier request, sent again
for the same or another device, or one that cannot be signed (`InvalidCsr`, 500
before anything is stored). A hostname is assumed to differ from the names of the
node's own certificate files. `requests`, `answered`, `stored` and `refused`
(the requests refused after they were signed) are history. The topic channels a handshake queues are in `BeaconRegistry`.

`MC*` modules give constants their values where a `.cfg` cannot.

## Runs

| Run | Result | Distinct states | What it shows |
|---|---|---|---|
| `registry_safety` | pass | 3.2 M | two beacons, two gateways and the own one, every interleaving with sweeps, cancellation, failing unsubscribes and lost sessions: gateways, stale lists and the broadcast list stay consistent, and the unsubscribe a dropped sweep leaves behind hits no registered beacon |
| `registry_liveness` | pass | 105 k | while the session lasts, stale beacons are removed and queued channels registered in the end, if broadcast cycles end and MQTT commands are answered |
| `registry_orphan` | violation | - | a cancelled sweep leaves a broadcast topic in the list for ever |
| `silence_reconnect` | violation | - | after a reconnect nothing subscribes again and beacons that publish are swept |
| `keys` | pass | 39 k | one active key at most, and one again after any fault; tokens published in an accepted slot; keys deleted when they expire and not before rotation |
| `supervisor` | pass | 432 k | statuses, handles and tasks stay in step; a broker can be restarted; at the end of the shutdown every service has been stopped, which for a task means that its signal was sent; commands are answered, though they wait behind others and though a task told to stop may never end |
| `supervisor_restart` | violation | - | a restart of a running gateway fails while the old accept loop holds the port |
| `cloud_gateway` | pass | 7.8 k | the task implements `LossyQueue`, registers before it sends, and stops |
| `cloud_gateway_delivery` | violation | - | a message whose send fails is never delivered |
| `gateway_mqtt` | pass | 116 k | the task implements `LossyQueue` and drops refused credentials, with more messages than its request channel holds and publishes that are rejected; it stops unless it waits for room in that channel |
| `pipeline` | pass | 27 k | an awaited reply comes, whatever is dropped; the tasks wait for each other in one situation only; as long as the request channel has room again and again, both loops go on and the tasks stop |
| `node` | pass | 356 k | two launches under any settings with crashes, failing calls, overlapping requests and CSRs sent again: one authority for ever, a broker that accepts its client, certificates stored before they are sent, a lone handshake that leaves row and record equal, refusals of valid CSRs only for a reason, a start-up that ends or waits for a broker that is not there |

The findings in `PROJECT.json` quote the line each violation contradicts.

**Bounds.** Two beacons and two foreign gateways are enough for one to be swept
while the other is registered, refreshed or advertises the same gateway; the
topic queue of 2 and the inbound queue of 1 fill up, so drops and waits happen.
The beacon timeout is one unit, and zero in `registry_liveness`, which also has
no gateways to stay small: only "past" and "not past" differ. Five
key ids cover the keys alive at once with two faults, so that a free id always
exists (there are 2^32 in the code); a smaller set would let collisions go on
for ever. The supervisor has one service of each kind, an unregistered one, two
callers and a channel of one: a command waits behind the one in hand, and
commands whose callers gave up are left when the last handle goes. The gateway tasks have six messages for queues of 3
and 2, so that senders wait, and a request channel of 4, so that it is full
after a ConnAck and one more message. Delays run 2, 4, 7 so that doubling meets
the cap. `pipeline` has channels of 2, 1 and 2, all of which fill up, and two
beacons per sweep and cycle, so that a call follows a call. `node` has one
hostname with two tasks, so that two handshakes of it overlap, one client, two
launches, two requests and two failing calls: a fault or a crash in the first
launch, seen by the second. The theorems cover the larger instances.

**Fairness.** Steps of a task that can go on are weakly fair. Branches of a
`select!` are strongly fair where a property needs them: tokio polls them in a
random order, so a branch that is ready again and again is taken. tokio's
`RwLock` is fair, which is a guard of `BroadcastCycleStart` and not an
assumption. Drawing a free key id is strongly fair because ids are random. The
MQTT tasks and the broadcast loop, which `BeaconRegistry` sees from outside, are
assumed to answer commands, if only with an error, and to end their cycles
(`ExecuteUnsubscribe`, `SubscribeReply`, `BroadcastCycleEnd`); its liveness is
stated for a session that lasts. `pipeline` shows when that holds: as
long as the request channel has room again and again (`RoomMeansProgress`). It
assumes nothing of the broker; connections may fail for ever, and then the
premise is false. In it a sender waiting for a channel is strongly fair, since
tokio's channels serve waiters in order. In `node` the steps of `initialize` and
of the handlers are weakly fair; crashes, faults, launches and requests are not.
In `supervisor` only the supervisor's own task is fair: a task told to stop need
not end, since two of them can wait for ever (below).
The rest of the environment is not fair, except in `cloud_gateway_delivery`,
where the gateway is reachable again and again: the message is lost even so.

**Deadlock** is checked except where the system may stop: the tasks of
`supervisor*`, `cloud_gateway*`, `gateway_mqtt` and `pipeline` are meant to end
(and those of the last two can come to wait for ever, which is what
`WaitsForRoom` and `StuckOnlyWhenFull` are about); in `node` nobody has to
launch the node again.

## Proofs

| Module | Theorems | Inductive invariant |
|---|---|---|
| `BeaconRegistryProofs` | `TypeCorrect`, `HeldGatewaysKnown`, `SingleConnection`, `OwnGatewayKnown`, `SweepIsSound`, `TopicsListed` | the properties together with `LoopOK`, what `pc` says of the beacon at hand |
| - handshakes and silence | `ListenFirst`, `ListenersKept`, `SilenceRefinement`, `PunctualKept` | `HandshakeInv` and `SilenceInv`, below |
| `BroadcastKeysProofs` | `TypeCorrect`, `SingleActiveKey`, `AnnouncedKeyActive`, `TokenAccepted`, `UnrotatedKept`, `KeyLastsUntilDue`, `RetiredStays` | no key is active between UPDATE and INSERT; the keys rotate_key is about to retire are due; both deadlines come from one reading of the clock; a slot can have ended since the token was derived only if more time has passed than the present slot has lasted |
| `SupervisorProofs` | `TypeCorrect`, `NoStrayTask`, `RunningStoppable`, `StartingUnseen`, `BrokerRestartable`, `ClientNotRestartable`, `ShutdownComplete`, `NoCommandLost`, `ShutdownAbandonsNobody` | how far a start, a restart or the shutdown has come, for each `pc`; a one-shot service that runs has no channel ends left; `CallersInv`: a caller waits exactly while its one command is queued or in hand, and nobody waits once the last handle is gone; commands of callers that gave up belong to nobody |
| `LossyQueueProofs` | `InOrder`, `NothingInvented` | the queue is increasing, after what was delivered and up to what was accepted, and stays so without any one element (`WithoutOrder`); queued and delivered together are at most accepted |
| `CloudGatewayProofs` | `TypeCorrect`, `RegisterFirst`, `BackoffMonotone`, `Refinement`, `InOrder`, `NothingInvented` | types, a message in hand while sending, the Register frame on the connection served |
| `GatewayMqttProofs` | `TypeCorrect`, `RefusedDropped`, `BackoffMonotone`, `Refinement`, `InOrder`, `NothingInvented`, `WaitsBehind`, `WaitStays` | refused credentials are not cached, and only the login leads on; `ControlBound`, below |
| `MqttPipelineProofs` | `TypeCorrect`, `RepliesCome`, `OneCircularWait`, `CircularWaitStays` | types, where each task is when it has a call under way, and for each caller that awaits a reply exactly one command queued or executed |
| `DeviceHandshakeProofs` | `TypeCorrect`, `OneRoot`, `Stable`, `BrokerAcceptsClient`, `StoredFirst`, `LoneAgrees`, `RefusalHasReason`, `Advances` | below |

`CloudGatewayProofs!Refinement` maps the queue of the link to the message in
hand followed by `outbound`: taking a message is a stutter, a failed send is a
loss of one. `InOrder` and `NothingInvented` then follow from the theorems about
`LossyQueue`.

`GatewayMqttProofs!Refinement` has more in front: the messages among the
requests in the channel, which also holds subscribes, the announcement and the
disconnect. `MessagesIn` picks them out by a recursive function on prefixes. To
reason about it, `Induction` derives induction over a set of naturals from the
well-foundedness of `<` (`Least`: a nonempty set has a least element); with it
`MessagesIn` is shown to exist, to commute with appending a request and to give
up its head with the channel. A poll that sends a message is then a delivery,
one that sends a control request a stutter, and leaving a connection the loss of
everything in its channel. A rejected publish refuses the message behind those
in the channel (`ConcatWithout`).

`WaitsBehind` bounds what the task's own control requests can do. On a
connection the channel holds at most three of them, and none before the ConnAck
(`ControlBound`: with those still to be made they are at most three), so a task
that waits for room has at least `RequestCapacity - 3` messages ahead of it,
seven in the code. TLC finds the bound reached. `WaitStays` says the wait is for
good.

`PunctualKept` needs the registry's clock not to run ahead of the beacon's. That
fails if a record could be made, or reset, without the subscription behind it,
so it rests on the order of a handshake (`HandshakeInv`): Listen comes before
Broadcast in the queue although either may be dropped; a beacon the loop has not
met has no record but the fresh one; and no unsubscribe still under way, even
one of a dropped sweep, concerns a beacon that is listened to. `SilenceInv` then
says of every such beacon that it is subscribed, and that its age is at most its
real silence, unless a message of it is waiting that will reset the age before
time passes. `SilenceRefinement` carries the registry's invariants over. The two
premises are in `SilenceSpec`: time passes only while the loop is idle and no
message waits, and the session lasts. Without the second the property is false,
which is `silence_reconnect`.

The invariant of `DeviceHandshakeProofs` has a conjunct per subject. `RootOK`:
the root in memory is the stored one, and every certificate anywhere is signed
with it. `TasksOK`: tasks run only under the gateway and hold a certificate of
that root, stored once they are past the upsert. `FilesOK`, `ConfigOK`: what
`initialize` has written by the call it is at, whatever was there before; this
is why `ClientCanConnect` survives half-written files, since each launch writes
all of them again before it starts the broker. `LoneOK`: a task that is alone
has its device to itself, and what it wrote is still there. `RefusalHasReason`
adds `DirOK`: a file that is not empty has a directory. `Advances` orders the calls of `initialize` (`Stage`) and shows
that every step of a launch, logged failures included, moves to a later call or
from opening a file to filling it; with it, a start-up has at most 28 steps, and
what is left to TLC of `StartupCompletes` is that each of them can be taken.

`OneCircularWait` follows from the definitions of the waits and from
`AwaitedReplyComes`: a loop that awaits a reply has a command queued or
executed, so the command task has something to do, and then only a full request
channel can hold it up. `CircularWaitStays` is the converse: once the command
task waits in front of a full request channel and the event loop in
`disconnect`, or for a message loop that waits for a subscribe, no step of any
task ends it. Both waits are reached on the instance of the run.

Assumptions are the named `ASSUME`s of the modules: capacities are positive,
intervals natural. Two say more. `KeyAssumption` has
`key_expiry > rotation_interval`, which the code documents and does not
enforce, and bounds the time one cycle's publishes take by a slot, which holds
only while the jitter (1 to 10 s per topic) fits in `rotation_interval`.
`GatewayMqttAssumption` has a request channel of more than three, so that the
requests made on ConnAck fit (ten in the code).

Only proved: the type invariants, capacities and delay bounds included,
`StartingIsTransient`, `ClientRunsOnce`, the positive half of
`PunctualBeaconIsKept`, the two back-off properties, and the theorems above that
name no property of a run. The proofs hold for every value of the constants, so
the runs spend their time on the other properties. The invariants and
action properties behind those theorems also hold under TLC on instances of the
size of the runs.

Only model-checked: the liveness properties, since the prover does not handle
fairness or `ENABLED`. Every invariant, action property and refinement that a
passing run checks is also a theorem. For some of the liveness properties the
safety half is proved: `NoCommandLost` for `CommandIsAnswered`, `RepliesCome` and
`OneCircularWait` for `RoomMeansProgress`, `Advances` for `StartupCompletes`,
`WaitStays` for the exception in `ShutdownStops`.

## Observations without a run

Seen while modelling, and plain from the code: a gateway advertised on a topic
without a record stays in `known_gateways` though its connection is dropped at
once (`app.rs:291`), and so does the gateway of a beacon whose sweep was
cancelled, or that went on to advertise another one; `expires_at` counts from creation, so a retired key is kept
for `key_expiry - rotation_interval` rather than `key_expiry` (`config.rs` says
"after rotation"); the supervisor never notices a process that dies; any refused MQTT connection, not
only one for bad credentials, forces a login, unlike the doc of
`gateway_mqtt/tasks.rs:5`; a message of a live beacon can wait in the queue past
the timeout while the loop waits for the list lock. A sweep dropped while it
waits for room in the command channel, or whose unsubscribe fails, leaves a
subscription that no record owns and no step takes back: the cancellation of
`registry_orphan`, one await earlier.

Waits without an end, which the passing properties delimit:

- Local MQTT client (`mqtt_client/tasks.rs:49`, `:26`): the event loop waits for
  room in the inbound channel, the message loop for the list lock or for a
  reply, the broadcast loop for the reply to a publish, and the command task for
  room in the request channel that only the event loop empties. Or the event
  loop waits in `disconnect` for that room itself. Both are reached by TLC;
  `StuckOnlyWhenFull` says there is no third. It takes a full inbound channel
  (64) and a full request channel (10).
- Cloud gateway MQTT client (`gateway_mqtt/tasks.rs:101`): `publish`,
  `on_connected` and `disconnect` wait inside the `select!` branches for room
  that only the poll in that `select!` makes. The task then never notices the
  shutdown signal, though the trait says of `stop` "Stop the service safely"
  (`supervisor.rs:93`). `ShutdownStops` has this wait (`WaitsForRoom`) as its
  only exception. Nothing in the application publishes through that handle yet.
- Start-up (`app.rs:184`): the wait for the first ConnAck has no timeout. If
  `MQTT_TLS_ENABLED` is not set, the client defaults to plaintext on 1883
  (`config.rs:43`) and the broker to TLS on 8883 (`config.rs:117`), and the
  gateway is never started. `ClientCanConnect` and `StartupCompletes` name that
  case.

Restarts and handshakes:

- A restart of a running MQTT client or cloud gateway client stops it and then
  always fails, because `start` moves channel ends into the task that exist only
  once (`mqtt_client_service.rs:206`). The theorem `ClientNotRestartable` states
  it; `supervisor_restart`, whose counterexample is the gateway's port, would be
  violated by these two as well. The test that says a running service can be
  restarted (`tests/supervisor.rs:117`) uses a mock.
- `stop` of every service but the broker only sends a signal. When the
  supervisor's task is over, such tasks may still run, and those that wait for
  room in their own channels never end. `ShutdownStopsAll` claims no more.
- A revocation between the signature of a handshake and its statement is undone
  by the statement, which clears `revoked` (`ca_service.rs:79`). Nothing in the
  application calls `revoke` or reads the flag yet, and no doc says which should
  win.
- With `MQTT_TLS_ENABLED=false`, as in `.env.example:12`, nothing creates the
  directory of the certificate files: only `provision_mqtt_broker_cert` and
  `provision_node_identity` do. On a fresh installation `register_cert_identity`
  (`mosquitto_brokerage_service.rs:106`) then fails, and every device handshake
  is answered with 500 after its row was stored. `RefusedOnlyWithReason` has
  this as its exception.
- Overlapping handshakes of one hostname can leave its row and its record with
  different certificates, and one that fails or is dropped half way a row
  without a record; the next handshake that is alone repairs both
  (`LoneHandshakeAgrees`).
- `BROADCAST_INTERVAL=0` makes `tokio::time::interval` panic (`app.rs:41`).

## Not modelled

X.509, TLS and HTTP parsing, validity times and HMAC (library code, abstracted
to what the code compares); forwarding in the proxy, which keeps no state; the
accept loops of the HTTP gateway beyond a listener that is bound or not; the
rest of the configuration, sequential parsing with defaults; the version strings
of capability detection, which are only logged; `delete_user`,
`list_devices` and `is_revoked`, which nothing calls; the peer stub and rendering.
