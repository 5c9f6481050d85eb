# A verification development for eelink_server

eelink_server is the server behind TK115 vehicle trackers.  Trackers keep a TCP
connection to it and speak a binary protocol (frames that begin with `67 67`);
phone applications talk to the trackers through an MQTT broker; positions and
the list of known devices are kept in LeanCloud over HTTP, alarms are pushed
through Yunba.  This directory holds TLA+ models of the server, TLC
configurations that check them on small instances, and TLAPS proofs for every
value of the constants.

## 1. Inventory

Two threads run the program: the **event loop** (`main`, libevent), which runs
every callback of the tracker connections and performs HTTP requests inside
them, and the **MQTT thread** started by `mosquitto_loop_start`, which runs
`app_message_callback`.  They share the object table and everything it points
to, with no lock.  (Yunba's library has threads of its own.)

| component | state it keeps | operations | talks to |
|---|---|---|---|
| connections (`server_mc.c`, `cb_ctx_mc.h`) | a `CB_CTX` and a bufferevent per connection | `accept_conn_cb`, `read_cb`, `event_cb`, `send_msg` | frames to the dispatcher; clears presence in objects |
| framing and dispatch (`msg_sch_mc.c`) | none between reads | `handle_mc_msg`, `handle_one_msg` | the handlers |
| handlers (`msg_proc_mc.c`) | fields of `CB_CTX` and `OBJ_MC` | `mc_login`, `mc_gps`, `mc_ping`, `mc_alarm`, `mc_status`, `mc_sms`, `mc_operator`, `mc_data`, `mc_msg_send` | table, LeanCloud, Yeelink, Yunba, MQTT, the connection |
| messages (`msg_mc.c`, `msg_mc.h`) | none | allocate, set length, command, sequence number | |
| object table (`object_mc.c`) | `g_table`: IMEI to `OBJ_MC`; two static buffers | `mc_get`, `mc_obj_add`, `mc_obj_del` | used by both threads |
| application protocol (`msg_proc_app.c`) | none | `app_handleApp2devMsg` and the path down to `mc_msg_send`; `app_sendRspMsg2App`, `app_sendGpsMsg2App`; subscriptions | table, connections, broker |
| MQTT client (`mqtt.c`) | a libmosquitto handle, clean session | `mqtt_login` | broker |
| LeanCloud client (`leancloud_*.c`) | one curl handle, one response buffer | `leancloud_getOBJ` at the start, `leancloud_saveDid`, `leancloud_saveGPS` | HTTP, table, subscriptions |
| Yeelink client (`yeelink_*.c`) | `device_id`, `sensor_id` in the object | create device, create sensor | HTTP |
| Yunba client (`yunba_push.c`) | one client handle | connect, publish, `connectionLost` | push service |
| start and stop (`main.c`, `env.c`) | `env` | order of set-up and tear-down, signals | all |
| SLB health check (`slb.c`) | a bufferevent per probe | accept, close | |

Section 7 says what is not modelled and why.

### What is hard here, and what correct means

* **Presence.**  `OBJ_MC.isOnline` and `.session` say how a device is reached.
  They are set by a login *or any GPS report* of any connection bound to the
  object, and cleared by the close of *any* connection bound to it.  A tracker
  that loses its network logs in on a new connection minutes before the old
  one is noticed to be dead, so logins, queued reports and closes of several
  connections of one device mix freely.  Correct: a session never names a freed
  `CB_CTX`, names one of its own device only, agrees with `isOnline`, and comes
  back after it was taken away.
* **Reused addresses.**  A `CB_CTX` is freed on close and its address handed out
  to the next connection.  Correct: no command or answer crosses devices.
* **Threads.**  The command path reads four fields in a row while the event loop
  writes and frees them.
* **Streams.**  TCP cuts frames; `read_cb` parses each piece by itself.
* **Numbers.**  `short` and `unsigned short` meet in tokens and lengths.
* **Registration.**  A device must enter the table and the DID class once.
* **Restarts and failing HTTP.**  What is not in LeanCloud is lost with the process,
  and no result of a post is looked at.  Correct: rows, table, cached positions and
  Yeelink's ids disagree only where a failure explains it.
* **Static buffers, start and stop.**  `get_IMEI_STRING` has one buffer for both
  threads; the table is destroyed before the MQTT thread is stopped.
* **Descriptors** are closed twice, in a process where threads open others.
* **Signals.**  `sig_usr` sets a flag that `event_base_dispatch` clears when it starts
  and looks at before each wait.  Correct: a signal while the loop runs stops it.
* **The broker** forgets subscriptions with the link, refuses links, or is not there
  when the server starts, and nobody looks at what `mosquitto_subscribe` returns.
  Correct: whose commands arrive is explained by the last subscription of each
  device, and a login on a link that stays up repairs it.

PROJECT.json lists every hazard with its line and the properties that watch it.

## 2. The modules

    CommandService   Presence          what the server promises
          ^            ^      ^
          |            |      |        implements (proved / checked)
        Session -------+    Relay
          |                   |  the command path, access by access
        SessionProofs       RelayProofs

    Lifecycle - LifecycleProofs         main, signals, the event loop, replies
      `- Broker                         the link and its subscriptions
    Registry - RegistryProofs           table, restore, start and stop, IMEI buffer
    Telemetry - TelemetryProofs         what becomes of a position
    Sockets - SocketsProofs             descriptors of all connections
    Wire  - WireProofs                  numbers of a command
    Conversation - ConversationProofs   both directions of a connection
      `- Framing                        bytes to frames

**CommandService** is the promise to an application: what it reads on the topic of
a device is stamped as the answer to a command it issued for that device.  The
stamp is what comes back of the token (`Returned`), and an answer may go astray to
a topic that was overwritten before it was used.

**Presence** is the promise about reachability: a connection is bound to one device
for its life, a session appears with a login or a report and disappears with
the close of a connection of that device.

**Session** models connections, logins, presence, the command path and its
answers, with a handler as one atomic step, which is what the event loop makes
of it.  `ctx[c]` is the `CB_CTX` at address `c`, `obj[d]` the two presence fields
of the object of `d`, `table` the keys of `g_table`.  Every handler of
`msgProcs` is there: `mc_login` with its lookup, registration, DID post,
presence, response and subscription; `mc_gps` with the presence it sets and the
length it refuses (a frame `LONGGPS`: the length is compared in network order, so
that a multiple of 256 looks too small, `msg_proc_mc.c:114`);
`mc_ping`, `mc_sms`, `mc_alarm` and `mc_status` in `Respond` (they differ, here,
in whether an unbound connection is answered); `mc_operator`, `mc_data`.  The
guard `HasRoom` only bounds the queue.  The device side (`Send`, `Read`, `Leave`)
is external: a device sends reports, executes and answers operations, and can
close, reset or silently vanish while a new connection of it is accepted.
`Eof`, `Error` and `Timeout` are the three ways into `event_cb`; a reset discards
frames that were not read.  The broker forgets subscriptions with the
connection (clean session), and only logins subscribe again.

Two things the code does on the way of a command are choices in Session and taken
apart elsewhere.  The static buffer of `get_IMEI_STRING`: `Strings(d)` is what a
handler may find where the IMEI of `d` was formatted, any string once a command
was published that the MQTT thread could be logging.  It is used for the lookup of
a login (`LooksUp`), the topic of its subscription (`Attach`) and the topic of an
answer (`Publishes`), which then goes to `strays` and not to `answers`.  A login that
misses a registered device because of it registers the device again; that, and the
object it frees, is the subject of Registry, and no step of Session.  The token:
`Returned[t]` is what is left of a token after `app_handleApp2devMsg` packed it and
`mc_operator` took it apart; which code and number that is, is the subject of Wire
(`TokenRoundTrip`, `BorrowFromCmd`).

**Relay** takes the same presence changes apart, one shared access per step, and
runs them against `app_handleApp2devMsg` -> `app_sendRawData2TK115` ->
`mc_msg_send` -> `send_msg` on the MQTT thread.  Reading a freed `CB_CTX` yields
what it was left with, what a new owner of the address wrote, or a crash;
that choice is nondeterministic.  `bufferevent_write` takes two steps: the buffer and
the event base it works on belong to the event loop and have no locks, so what the
loop does to them in between (`Unguarded`, remembered in `overlapped`) may cost the
command or the process.  `stage` is the stop: `main` frees the event base,
then the objects, then stops the thread, which meanwhile reads objects and
writes to connections.

**Wire** models the token `(cmd << 16) + seq` with signed shorts and the lengths of
operations and answers; the width of a short is a parameter.

**Framing** models the stream of one connection as offsets: frames, segments, the
pieces `bufferevent_read` takes, and which frames `handle_mc_msg` finds in them.
It assumes that payload bytes do not imitate the signature and that length
fields are true.  Bytes behind a piece that the loop condition can look at
(`msg->length` of a cut header) never change its outcome: fewer than five bytes
are left then, and the condition asks for five at least.

**Conversation** extends Framing by the way back.  `read_cb` leaves the frames of a
piece in `todo`, and `handle_one_msg` takes them from there one by one: it answers a
frame, or not, alarms and states only after a login on the same connection
(`MayAnswer`).  The MQTT thread writes operations (`app_sendRawData2TK115`) between any two
of these steps.  `said` is what was written to the device, `written` how many bytes
that is, and `expects` where the device looks for the next header: it understands
a message that begins there (`send_msg`), and goes on by the length it announces.
The response to an SMS announces 28 bytes and has seven (`msg_proc_mc.c:323`).

**Telemetry** follows a position from the report into the object (`cache`), to the
application (`told`) and to the LeanCloud class GPS (`cloud`), through the three
branches of `mc_gps` (no fix, nothing new, save), `mc_alarm`, failing posts,
failing publishes (`Tell`) and restarts.  The same action runs the exchange with Yeelink, as the code does:
`yeelink_createDevice` returns after its response handler, and that of the
sensor request inside it, have stored the ids.  Yeelink itself is external: a
request fails, the device is made and its reply lost, the sensor fails, a reply
without the id crashes the process.  `lastFix` and `unsaved` are history.

**Registry** is the life of the table: `main` from `env_initial` to `env_cleanup`, the
restore from the class DID row by row, `mc_login` in the steps at which
`get_IMEI_STRING` fills its static buffer and somebody reads it, the free of an
object that `g_hash_table_insert` replaces, and the MQTT thread that looks
objects up, formats the IMEI of an offline one into the same buffer, and goes on
while `main` destroys the table.  A restore fails or is cut at `Limit` rows; a
post is stored or not; the process may be killed between any two steps.
`raced` remembers that the thread met an operation of the event loop; `broken`
that freed memory, or a table being changed, was used, after which the model
only ends the process.

**Sockets** keeps what the kernel has behind a descriptor (`socket`) apart from who
takes it for his own (`fd`).  `event_cb` of `server_mc.c` and of `slb.c` closes a
descriptor, and the destruction of the bufferevent closes it again
(`Destruct`); libmosquitto, Yunba (which tries to reconnect once) and libcurl open
and close descriptors meanwhile.  `Deferred` says whether libevent destructs a
bufferevent in a later callback (2.1) or when the callback that freed it
returns (2.0).  A socket that was accepted but gets no bufferevent
(`AcceptedInVain`) stays open: the callback returns without closing it and nobody
knows its number.  Without a free number `accept_error_cb` ends the event loop.

**Broker** is the client of `mqtt.c` with its callbacks: the link (`link`, as the
client knows it), the SUBSCRIBEs on their way, the topics the broker forwards
(`subs`), and as history the devices whose last subscription was refused or
forgotten (`missed`).  `mqtt_login` fails for good, or leaves a thread behind that
reconnects; `app_connect_callback` and `app_disconnect_callback` only log.

**Lifecycle** extends Broker by `main` from its first line to its last, with every
early return, the restore and the logins that subscribe, the event loop as far
as `event_base_loopbreak` needs it (the flag, the check, the wait), signals at any
moment, and `env.chunk`, to which `leancloud_onRev` appends: the reply to the
restore, then, since the write function of the handle stays, the replies to
registrations, until `leancloud_saveGPS` sets another one.  A reply comes in any
number of pieces up to `MaxPieces`, none when the request fails.

## 3. Runs

| run | instance | shows |
|---|---|---|
| `session` | 2 devices, 2 slots, 1 token, queues of 1, symmetric, the buffer overwritten at any read | `SessionConsistent`, `NoCrossTalk`; Session implements CommandService and Presence |
| `session_live` | 1 device, 2 slots, five kinds of frames, no commands | `PresenceRecovers` under fairness |
| `session_offline` | 1 device, 2 slots | violated: a device on an open, logged-in connection can be "offline" |
| `relay` | 2 devices, 3 slots, all interleavings up to the stop, writes in two steps | `SessionAlwaysLive`, `OnlyRacesMisdeliver`, `OnlyRacesCrash`; implements Presence |
| `wire` | 7-bit shorts, all codes and numbers, edge sizes | `TokenRoundTrip`, `BorrowFromCmd`, `OperationFramed` |
| `wire_answer` | one command | violated: answers carry two extra bytes |
| `conversation` | frames of 7 (SMS), 8 and 9 bytes (alarm, login), buffer 16, four segment sizes, 44 bytes, one operation of 14 or 21 bytes | `HandledExactly`, `AnsweredExactly`, `UnderstoodExactly` |
| `telemetry` | 1 device, 4 positions (2 with lon = 0), 3 failures | `SensorOfDevice`, `RemadeOnlyAfterFailure`, `CacheIsSaved`, `TellsTheLastFix`, `EventuallyCreated` |
| `registry` | 2 devices, 2 connections, 3 objects, replies of 2 rows, 3 lives | `BoundToOwn`, `OneRowPerMiss`, `RestoredAreKnown`, `OnlyRacesBreak`, `NeverReplaced` |
| `registry_buffer` | the same | violated: a registered device is "the first time" again |
| `sockets` | 1 tracker, 1 probe, 3 clients, 3 descriptors, 2 accepts in vain, deferred | `OwnDescriptors`, `OnlyVainAcceptsLeak` |
| `lifecycle` | 2 devices, 2 signals, replies of up to 2 pieces | `SubscribedUnlessMissed`, `StopsOnSignal`, `CommandsFlowAgain`, `PileStopsGrowing` |

*Bounds.*  `MaxIn`, `MaxOut` bound queues; two slots are enough for an old and a
new connection of a device and for an address that changes its device, three
in Relay add a bystander while an address is reused.  `MaxBytes` bounds the
stream; 44 bytes hold five or six frames: one piece cuts a frame, a second one
begins inside it, a third is in step again, and enough answers follow an SMS
response to be swallowed by the 21 bytes it lacks; one operation, of the size of
two responses or of three, puts the device out of step for good or not.  `MaxFailures` bounds failed requests
and restarts together; three let a device be made, lost and made again, and
make `EventuallyCreated` read "once requests stop failing".  In `registry` three
lives are what it takes to get a second row of a device (a restore that misses
it) and to restore both; four rows at most are cut by a `Limit` of two.  After a
race what was begun goes on and nothing new begins: no property speaks of
what follows.  In `sockets` three numbers for five users reach the limit; one
connection of each listener and a client are enough for a number to pass
between two closes, and for its victim to take somebody else's later; two
accepts in vain (`MaxFailures`) leave one number for all.  In `session` one token is
enough to tell answers of two devices apart, and `AllAlike` gives every token the same
stamp, so that nothing is gained from different ones; the proof takes any `Returned`.
In `session_live` the set of tokens is empty: no command is dropped, so the buffer is
never overwritten, and `PresenceRecovers` is shown for a server whose threads do not
meet there.  In `lifecycle` each of at most three replies comes in up to two
pieces, which bounds `env.chunk` by six.  In `wire` a short has 7 bits, so
that every pair of code and number is tried; the proofs cover all widths.

*Fairness* (`session_live`).  The event loop runs every pending handler and
notices closed, reset and dead connections (600 s timer): weak fairness.  A live
device reads its socket: weak fairness.  Devices report their position
periodically: strong fairness of `Send(c, "GPS")`, because a full queue can
disable it again and again.  Nothing is assumed about accepts, logins, the
broker or the application.  (`telemetry`): a device reports again and again while
the process runs (strong fairness of `Reports`), and somebody restarts the process
after a crash.  (`lifecycle`): `main` goes on, which includes that callbacks return although
HTTP requests have no time limit; events keep coming, if only the probes of the
load balancer and the timeouts of their connections; the broker answers a
SUBSCRIBE on a link that stays up.  Nothing is assumed about links, logins or
signals: `CommandsFlowAgain` asks for a link that stays up and a device that logs in
again and again.  `MaxSignals` of two puts one signal before the loop and one into
it, or one between the check and the wait and one after; two devices let one be
subscribed while the other is missed.

*Deadlock* is checked except where the system really stops: after a crash of the
process (`relay`), after the one exchange (`wire`), when the device has sent
everything (`conversation`), when the process is not started again (`registry`) or
has ended (`lifecycle`).

Each property has a mutant: an operator named in PROJECT.json (marked `mutant` in
the modules, defined right before the one it replaces) that a plausible slip
in the code would produce and that makes the run fail.

## 4. Proofs

* **SessionProofs** (all devices, slots, tokens and bounds).  `IInv` conjoins the
  type invariant (with freed connections that keep nothing, and queues within
  their bounds), `QueuesOK` (what is queued on a connection fits its owner),
  `SessionConsistent`, `BoundToRegistered` and `NoCrossTalk`.  None is inductive
  alone: the session points into the right `CB_CTX` only because bindings are
  stable while a connection lives, bindings are right only because of what is
  queued, and a command written to `obj->session` is on the right connection
  only because the session is consistent.  `Inductive` gives all of them as
  theorems, whatever a handler finds in the static buffer; `ImplementsService` and
  `ImplementsPresence` show each step to be one of the abstract module or a stutter.  `PresenceChangesHands` brings
  back what holds of Presence (`ChangesHands`): a device goes offline only when a
  connection bound to it is freed, and its session moves only to a live
  connection bound to it.
* **WireProofs** (all widths of a short above 12 values per half, all codes and
  numbers).  `TokenOfPair` shows that a token is `Carried(cmd, seq) * Word + seq`;
  division takes it apart again.  `TokensReturn`, `SignBorrows` and
  `OperationsAreFramed` follow from an invariant of the exchange, and so does the
  general form of what `wire_answer` finds: `AnswersHaveTwoMore`.
* **ConversationProofs** (all frame, segment, buffer and operation sizes, any number of
  operations).  About Framing: frames are contiguous, so that no boundary is
  inside one; whatever was consumed is covered by a last piece.  From this
  `FramesAreHandledExactly`, `WholeSegmentsLoseNothing` and `FramesAreHandledInOrder`, and by
  `ConversationIsFramed` the same in a conversation.  `CInv` adds the two directions.
  `InTurn` and `LoginSeen`: what is in `todo` lies behind what was handled, and
  `loggedIn` tells of a login among the latter, so that `MayAnswer` means what
  `AsksForAnswer` says of the stream (`FramesAreAnsweredExactly`).  `DownInv`: the messages
  are adjacent, and the device looks for a header at the end of the last message
  it has understood, where none has begun since (`LastUnderstood`); so whether a
  message is understood depends on that last one alone, which carries
  `UnderstoodExactly` over one more message (`UnderstoodNext`).  What it comes to:
  everything is understood before the first SMS response (`InStepBeforeSms`);
  responses alone bring the device back in step after three of them
  (`ResponsesAloneStayInStep`); with operations, which have any size, the model has
  runs in which it never is again.  `WholeSegmentsAreAnswered` joins both directions.
* **TelemetryProofs** (all devices, positions and numbers of failures).  `YeelinkInv`
  and `PositionInv` are inductive beside the types.  The point of the first is
  `ExchangeKeeps`: a device is only made again while there is no sensor, so that
  no old sensor id stays beside a new device id.  `TellFix` is what
  `ApplicationSeesTheLastFix` needs of a step: a message with a fix is made only where
  the object was just given the position of that report, or had it already.
  `CreatedForALife`: an object with
  both ids keeps them until a restart.
* **RegistryProofs** (all devices, connections, objects, rows and lives).  `QInv` holds
  while the threads have not met.  `AddOK` and `BufferOK` say that between the steps
  of a login or a restore the static buffer holds the IMEI of the object at hand,
  and that while the server serves this device is not in the table: so
  `g_hash_table_insert` replaces nothing (`NothingReplaced`), and bindings stay those
  of the table (`BoundOK`).  `RowsOK` accounts for each row: its device is in the
  table, or still to be restored, or being added, or was missed in a life that
  `misses` has counted.  `CountOK` is what makes a replaced object imply a second
  row, and with `FoundOK` what leaves `BreaksForAReason` its three reasons.

* **RelayProofs** (all devices and slots).  The invariant follows both threads: where
  the event loop is inside a callback, what it has in hand and which half of a
  change of presence is done; what the MQTT thread has read, and that it is
  still true unless the `CB_CTX` was freed since.  From it `SessionsAreAlive`,
  `MisdeliveryNeedsARace`, `CrashNeedsARaceOrAStop`, and, assignment by assignment,
  `ImplementsPresence`, and with it `PresenceChangesHands` for two threads.
* **SocketsProofs** (all connections, clients, descriptors and failures).  Every step
  gives out a number, wastes one, closes one, or gives one up (`KindsOfSteps`);
  `FreedTwice` says that a number that was given to nobody else is still free at its
  second close.  `KnowsItsNumber` is what `OnlyVainAccepts` rests on: whoever has a socket
  has its number, although others may close the socket under him.
  `ReuseNeedsAThread`: with libevent 2.0 only a client with a thread of its own can
  come between the two.
* **LifecycleProofs** (all finite sets of devices, any number of signals and pieces).
  `Piled` bounds `env.chunk` by the size of the table, which makes the bound in
  `TypeOK` a theorem; `Logged` and `Early` are what `PileIsBounded` needs; `BrokerInv` adds to
  the types that nothing is on its way without a link, without which a refused
  device could also be subscribed (`Subscribed`).  `AskedIsHeard` says that the flag of a
  signal that came while the loop ran stays set (`StopIsNotForgotten`): it needs that
  the event base is not freed before the loop is left.
  `LinkKeepsSubscriptions`: nothing is forgotten while the link holds.

Assumptions are the named ASSUMEs of the modules; TLC evaluates them in the
runs.  `TableIsKeyed`, `WholeSegmentsAreHandled` and `InOrder` are proved and have no
run of their own: properties of the runs say more.  Every invariant and every action property of the passing runs is a
theorem.  Only model-checked is liveness (`PresenceRecovers`, `EventuallyCreated`,
`StopsOnSignal`, `CommandsFlowAgain`), which with fairness and ENABLED is
outside the prover; of each the safe half, that what was reached is not lost
without a named reason, is a theorem
(`PresenceChangesHands`, `CreatedForALife`, `StopIsNotForgotten`, `LinkKeepsSubscriptions`).

## 5. Findings

* `session_offline`: the late close of an old connection marks a connected device
  offline (`server_mc.c:104`) until its next GPS report; commands are dropped
  meanwhile.
* `wire_answer`: answers to applications are two bytes too long
  (`msg_proc_mc.c:342`).
* `registry_buffer`: `mc_login` looks its device up by a static buffer that the MQTT
  thread writes to (`msg_proc_mc.c:58`, `object_mc.c:219`); a registered device is
  registered again and its object freed while connections use it.

Passing runs record more: for sequence numbers from 0x8000 on the command code
comes back one too small (`BorrowFromCmd`, `msg_proc_app.c:177`); a frame that is
cut by a read is dropped with the rest of the next piece (`HandledExactly`,
`msg_sch_mc.c:87`); "No need to save data to leancloud" also covers positions an
alarm brought or a failed post lost (`unsaved` in `CacheIsSaved`,
`msg_proc_mc.c:156`); devices beyond the 1000 rows of a reply, or missed by a failed
restore, are posted again in every such life (`OneRowPerMiss`); a descriptor
closed twice may be somebody else's the second time (`reused` in
`OwnDescriptors`, `server_mc.c:84`); an accepted socket that gets no bufferevent is
never closed (`OnlyVainAcceptsLeak`, `server_mc.c:132`, `slb.c:87`); an answer may be
published under another device (`strays`, `msg_proc_app.c:94`); a command written while
the event loop works can damage what both use (`overlapped` in `OnlyRacesCrash`,
`server_mc.c:131`); the MQTT thread uses a `CB_CTX` that `event_cb` frees
(the races in `OnlyRacesCrash` and `OnlyRacesMisdeliver`, `msg_proc_mc.c:31`); a device
counts the frames that follow an SMS response to it (`UnderstoodExactly`,
`msg_proc_mc.c:323`); a signal before `event_base_dispatch` is answered "oops! being
killed!!!" and forgotten (the reach of `StopsOnSignal`, `main.c:24`); a login while the
broker is away subscribes to nothing, for good if it was away at the start
(`missed`, `mqtt.c:70`, `msg_proc_app.c:192`).

## 6. Plan

Done, in this order: Session (with CommandService and Presence) and its proofs,
Relay, Wire and its proofs, Framing and its proofs, Telemetry and its proofs,
Registry and its proofs, Sockets, RelayProofs, SocketsProofs, Conversation, Broker
and Lifecycle with their proofs, ConversationProofs, and the safe halves of the
liveness properties.  Next:

1. Wire: lengths 0 and 1 of an `APP_MSG` (`msg_proc_app.c:180`).
2. Telemetry: the topic of a position, which is formatted in the static buffer
   (`msg_proc_app.c:126`) as that of an answer is in Session.
3. A refinement between Lifecycle and Registry: both walk through `main`.
4. What a lost race leaves intact in Relay and Registry for the devices that took no
   part in it.

## 7. Not modelled

* Vendored code: `cJSON.c`, `inc/cJSON.h`, `inc/yunba.h`.
* Logging, `conf.c`, `msg_app.c`, versions: macros, strings, and files the program
  does not use.  `log_init` is a step of Lifecycle.
* `curl.c` beyond whether a handle exists: headers and options of a library.
* Yunba beyond its connection: what is pushed, and to whom, has no effect on any
  state of the server; `connectionLost` is a user of descriptors in Sockets.
* What `yunba_publish` and `mc_msg_send` fail to free: leaked memory is in no state of
  the models.
* Time: timeouts are events that may come whenever their condition holds; a
  request to LeanCloud that is never answered (`leancloud_req.c:39`) is outside the
  fairness assumed.
