# A verification project for the IPS node firmware

The repository holds the firmware of the nodes of an indoor positioning system
(IPS): ESP32 boards with a LoRa radio and WiFi, programmed in C++ on FreeRTOS
through an mbed-style API. Tags broadcast over LoRa; *beacons* measure the
signal strength and publish it over MQTT; a *collector* gathers, for each tag,
one reading per beacon (a fingerprint) and publishes the fingerprint when it is
complete, or when the tag has been silent for two seconds. `main.cpp` as it
stands wires up `MQTTNetwork`, `LoRaNetwork` and `LoRaCollector`; gateway and
beacon are there, and commented out.

The TLA+ modules here describe the parts in which threads, callbacks and
failures meet. TLC checks each on a small instance; TLAPS proves the main
results for every value of the constants.

Paths below are relative to `src/src/` unless they begin with `src/`.

## 1. The system

### Components

| component | state it keeps | operations | what makes it hard | what makes it correct |
|---|---|---|---|---|
| `rtos::Mail`, `Queue`, `MemoryPool` (`src/include/rtos/`), pools and queues of `rtos/cmsis_os2.c` | semaphore, free list threaded through the blocks, queue of pointers | `alloc`, `put`, `get`, `free` | no lock is held from one step to the next; the semaphore and the list are changed in separate steps; the first field of a mail and the link of the list share a word | FIFO; one owner per block; `put` cannot fail; no block is lost |
| `MQTTNetwork` | `_connected`, `_event`, two one-shot timers, mailbox of two mails | WiFi events, timer callbacks, MQTT callbacks, `subscribe`, `publish` | five threads; the flags of three layers have to agree | comes back after every loss; every lasting session is subscribed |
| `AsyncMqttClient`, the parser | packet object, digits of a length, topic buffer | `_onData` and the packet classes | the stream is cut anywhere, the connection too; counters of eight bits | in step with the stream; every packet handed over once and whole |
| `AsyncMqttClient`, the session | identifiers, pending acknowledgements, semaphore, flags | `publish`, `subscribe`, `_onPublish`, `_onPubRec`, `_onPubRel`, `_onAck`, `_onPoll`, `_sendAcks`, `_clear` | callers write in pieces beside the event task; a connection ends under them | packets never cut into each other; QoS 2 exactly once; acknowledgements get sent |
| `AsyncTCP`, events | queue of 32 events | LwIP callbacks, event task, `_remove_events_with_arg` | the queue is turned with single receives and sends while LwIP posts | no event lost or doubled; none reaches a closed client |
| `AsyncTCP`, clients | `_pcb`, `_closed_slot`, the table of closed slots | accept, connect, close, error, messages to the LwIP thread | a pcb is read in one thread and used later in another | a late call does not reach a dead pcb |
| `LoRaCollector` | beacon configuration (RAM and file), three maps, two mailboxes | `run_mqtt_service`, `run_background_service` | mail is taken before the lock; timeouts race with signals; restarts | maps agree; every fingerprint is published; configuration survives |
| `LoRaNetwork`, `LoRaBeacon`, `LoRaGateway` | `_lastSendTime`, radio, mailboxes | receive interrupt, relaying threads, `sendMessage` | interrupt beside the sending thread; unsigned time | transmissions spaced; packets relayed in order, once |
| `OLEDScreen` | ring of 12 strings, two indices | `print`, `printScreen` | three ways of drawing decided from wrapped indices; cutting from a guess | the display shows the last lines; no character lost |
| trace printer, `FFatHelper` | mailbox of 64 lines, mutexes | `printTrace`, `println`, `readFile`, `writeFile` | four mutexes nested | nobody waits for ever |
| other kernel objects of the CMSIS wrapper | flags, timers, threads | the `os*` calls | — | — |
| `TimeMachine`, `ColorSensor`, mbed timers, helpers, `Test` | registers, little else | conversions | — | — |

`PROJECT.json` lists all of them with their files; for "partly" and
"not_modelled" it says what is missing and why.

### How they interact

```
 WiFi driver --events--> MQTTNetwork --timers--> AsyncMqttClient --calls--> AsyncTCP --> lwIP
                             ^   |                    ^   |                    ^            |
                     mail    |   +-- subscribe -------+   +--- callbacks --+   +- queue ----+
 run_mail_box_on_connect ----+                                             |
 LoRaCollector <--- mail --- run_mail_box <--- mail --- onMqttMessage <----+
   run_mqtt_service --mail--> run_background_service --publish--> MQTTNetwork
   configuration <--> FFatHelper          all --> printTrace --mail--> OLEDScreen
 radio --interrupt--> LoRaNetwork --mail--> beacon, gateway, collector
   sendMessage <-- run_mqtt_service of the gateway <--mail-- MQTT
```

Every arrow marked *mail* is an `rtos::Mail`. That is why the mailbox is the
core of this project: what is proved of it holds for each of the mailboxes
of the firmware, and the other modules may use a mailbox as a bounded sequence. One
mailbox has blocks smaller than a link, `_mail_box_on_connect`: it keeps its blocks, its
owners and its order, but not the contents of its mails, which nobody reads (section 2, `Mail`).

### Hazards

`PROJECT.json` lists each at the line where it bites, with the properties that
would notice it, or the reason why none does. The ones that shaped the models:

* blocks counted and linked in separate steps (`rtos/cmsis_os2.c:2226`);
* the test of the WiFi and the start of the timer in different steps
  (`MQTTNetwork.cpp:135`);
* a connection that is started while another one is still coming up
  (`app/AsyncMqttClient/AsyncTCP.cpp:704`);
* a caller that waits for the semaphore between its tests and its writes
  (`AsyncMqttClient.cpp:898`), and identifiers that start again (`:719`);
* counters of eight bits, and state that `_clear` leaves (`PublishPacket.hpp:29`,
  `AsyncMqttClient.cpp:201`);
* results that nobody looks at: of `_tcp_connect` (`AsyncTCP.cpp:730`), `add()`
  (`AsyncMqttClient.cpp:898`), `publish()` (`LoRaCollector.cpp:135`), `writeFile()` (`:73`);
* a pcb that lwIP has freed when its error is handled (`AsyncTCP.cpp:868`);
* the turning of a queue that others fill (`AsyncTCP.cpp:147`);
* signals that are older than the maps they speak of (`LoRaCollector.cpp:112`);
* a mailbox that is exhausted while nobody tests it (`LoRaCollector.cpp:55`);
* a clock that an interrupt sets back between two reads of it
  (`LoRaNetwork.cpp:76`);
* nested mutexes around the posting of trace lines (`platform_debug.h:330`).

## 2. Modules

| module | models | instance | proofs |
|---|---|---|---|
| `MailBox` | what `rtos::Mail` promises: a FIFO box with slots | as a property of `Mail` | — |
| `Mail` | how it is built: semaphore, free list, queue, one action per indivisible step | `MCMail` | `MailProofs` |
| `MQTTNetwork` | WiFi events, timers, connection state of client and pcbs, subscribing thread | `MCMQTTNetwork` | `MQTTNetworkProofs` |
| `MqttParser` | `_onData` and the packet classes, byte by byte | `MCMqttParser` | `AsyncMqttClientProofs` |
| `MqttSession` | identifiers, acknowledgements, semaphore, reconnection, against a broker | `MCMqttSession` | `AsyncMqttClientProofs` |
| `AsyncTCP` | event queue, its two threads, CLEAR events, calls into LwIP | `MCAsyncTCP` | `AsyncTCPProofs` |
| `AsyncClients` | clients, pcbs, closed slots | `MCAsyncClients` | `AsyncTCPProofs` |
| `LoRaCollector` | both services, the maps, the file, restarts | `MCLoRaCollector` | `LoRaCollectorProofs` |
| `LoRaNode` | `LoRaNetwork` with the services of beacon and gateway | `MCLoRaNode` | `LoRaNodeProofs` |
| `OLEDScreen` | the ring of lines and the display | in `MCTracing` | `TracingProofs` |
| `OLEDText` | cutting a text into lines; extends `OLEDScreen` | in `MCTracing` | `TracingProofs` |
| `Tracing` | mutexes, the trace mailbox and the screen together; extends `OLEDText` | `MCTracing` | `TracingProofs` |

`FoldLemmas` holds what the proofs need of the community modules' operators on
sequences (section 5).

`MC*` modules only give the constants that a configuration file cannot write; `MCMail`
also puts the mailbox of one-byte mails beside the other one.
Definitions called `Bug*` stand before the definition they vary: each is a
plausible mistake in that code, and with it TLC finds the property named for it
in `PROJECT.json` violated.

### Mail

A thread is at one of the places `pc` names; one action is one FreeRTOS call,
one critical section, or the access of a block's owner to it. `alloc` is
`TakeSem` (or `NoBlock`, the drop) and `AllocBlock`; `put` is `Put`, which goes
to `"assert"` when the queue has no room, because `MBED_ASSERT` never returns;
`get` is `Get`; `free` is `FreeCheck`, `FreeBlock`, `GiveSem`. The outcomes
`"null"` and `"refused"` are the error returns after a check that succeeded.
`word[b]` is what was written last at the start of a block: a mail, or the link of a
free block to the next one. The blocks follow each other at `sizeof(T)` bytes, not
rounded up (`cmsis_os2.c:2408`). A write therefore covers bytes (`Bytes`), and what it
meets of a neighbour is `Torn`. In every mailbox but one a mail has the size of a
pointer or more and the blocks are apart. `_mail_box_on_connect` (`MQTTNetwork.h:99`)
has two blocks of one byte: the link of the first lies over the second block. The
list of such a pool stays intact all the same, because it is never longer than
two, and the only link whose value counts belongs to the block freed last. The contents are not kept
(`Implements` is false there); `run_mail_box_on_connect` reads none. That the link of
the second block ends three bytes behind the array is not modelled.
Left out: waiting `alloc` (nobody uses it), `reset` and deletion of pools.

### MQTTNetwork

Threads and their program counters: `evt` is the WiFi event task inside
`WiFiEvent`, `async` the async_tcp task inside a callback of the client, `pass`
the thread `run_mail_box_on_connect`; timers and LwIP act in one step. The
client has two records of the connection: `online` (`AsyncMqttClient::_connected`)
and `pcb` (`AsyncClient::_pcb`); each pcb of lwIP has a state of its own. A pcb
can be `"half"` (a FIN came while `_pcb` did not point to it) and is then
`"leaked"`: LwIP reports its end and nobody closes it. `_error` takes the callbacks from
whatever pcb `_pcb` points to by then, a live one included, which becomes an
`"orphan"`: lwIP closes it with its peer and the client hears nothing. The pcbs that `_pcb` does not
point to keep their callbacks and go on delivering to the client.

An attempt to connect (`Connect`) finds the client connected, starts a pcb, or fails without
an event: lwIP has no pcb, or `_tcp_connect` fails, and nobody looks at the result.
`_onConnect` sends CONNECT, gives up after a second without the semaphore (`"silent"`: the broker
will close the connection), or closes for lack of room (`ConnectNoRoom`). A CLEAR
event drops any of the client's waiting events (`Cleared`), those of a newer pcb included:
`AsyncTCP` studies how, this module what comes of it.
Merged into one step: establishing TCP with the callback that sends CONNECT
(`TcpConnected`). `Fault` counts what the network, lwIP or the broker does wrong, at
most `MaxFaults` per behaviour.

`Stuck` names what the code has no answer to, and what `NotStranded` and `Reconnects`
therefore except:

1. the loss was not reported (`unreported`, which `network_ping` exhibits);
2. the last attempt failed without an event (`attempt = "silent"`): the one-shot timer has gone off;
3. the timer expired before the callback that started it had returned
   (`attempt = "early"`): `_connected` was still set, so that `connect()` did nothing, or `_clear` and
   the CLEAR event took the events of the new pcb. With a period of 2 s that is unlikely; nothing excludes it;
4. `_pcb` points to a pcb whose error event was cleared (`"stale"`): `connect()` returns at once.

`onMqttDisconnect` tests the WiFi and starts the timer later
(`MQTTNetwork.cpp:135`); the loss of the WiFi in between stops the timer before
it is started. The comment at line 15 wants to prevent this. `NotStranded` shows
that the attempt it leads to does no harm.
Left out: TLS, DNS, the will, publishing (it changes none of this state).

### MqttParser

A byte carries its value where the parser looks at it, and always what the
broker meant by it (packet, part, index), so that a byte taken for something
else is noticed (`misread`). `Segment` cuts the stream, `Reconnect` ends the
connection anywhere, and keeps what `_clear` keeps; one action is one round of
the loop of `_onData`. Three things show up in the properties:
a leftover `_remainingLengthBufferPosition` does no harm, since CONNACK comes
first and is as long as it is (`InStep`); the topic of a PUBLISH that eight
bits cannot count is misread, and `InStep` names that exception;
the object of a PUBLISH with a topic longer than the buffer is never deleted
(`NothingLeaks`).
The identifier of a PUBLISH with QoS and without payload is counted in the
object that the callback has just deleted (`PublishPacket.cpp:63`): that write has no
outcome to state, and no property covers it.

### MqttSession

A caller is a thread with its place in `publish` or `subscribe`: it tests,
waits for the semaphore, writes its packet in two pieces, and releases. The
async_tcp task handles one packet, a poll, or the end of the connection at a time.
`add()` may fail (`Fails`, at most `MaxFailures` times on a connection) or come up short, and no caller looks
at its result: the piece is missing (`Write`), or of a packet that several calls of `add()` make up
only a part goes out (`Torn`). `_sendAcks` erases an acknowledgement whether it went out or not.
From the first packet that is cut in two the broker makes nothing of what
follows on that connection (`BrokerRejects`): the next bytes are taken for the missing ones. CONNECT finds no room
and the connection is closed (`Closes`), and the broker may refuse it (`"REFUSAL"`).
The broker is external and keeps MQTT 3.1.1: it answers, it sends QoS 1 and 2 messages,
and it may send a packet again. `inFlight`, `delivered`, `finished` are history.
One assumption is deliberate: after repeating a packet the broker does not
use its identifier again in the same connection. `_sendAcks` erases an
element and skips the next one (`AsyncMqttClient.cpp:683`), so a PUBCOMP can
overtake a repeated PUBREC, and a broker that had given the identifier to a new message
would take that PUBREC for it.
Identifiers may be given out while they are in flight (`:719`); `IdsApart` says
when they are not. Calls are numbered as they take the semaphore, which is when
they get their identifier. Only `_getNextPacketId` gives identifiers: the
parameter `message_id` of `publish` is left at 0 by every caller in the repository.
Left out: wills, credentials, TLS, the contents of packets (`MqttParser`).

### AsyncTCP

One action is one call of a FreeRTOS queue function or of `tcpip_api_call`.
`Callback` and `Post` are the LwIP thread, the others the async_tcp task; `first`
and `packet` are the local variables of `_remove_events_with_arg`. A handler may
call into LwIP (`Handle`), and waits until the LwIP thread has served the call
(`Called`), which it does only between two posts. That is why no event reaches a
client after `_close` has returned (`NoneLate`): the event that the LwIP thread
held is in the queue before the CLEAR event is. It is also why the two can wait
for each other when the queue is full (`Stuck`): the instance reaches this, and
`AllTaken` excepts it. What `AllTaken` says of every event that was posted is that it is handled, or that its client was
closed. A client is closed once. Every packet has an address of its
own, a CLEAR event too, because the turning compares addresses; the peek and the
receive of one round are one step, since only this task takes from the queue.

### AsyncClients

A task reads `_pcb` and the slot in one step (`CallUses`, `CallCloses`) and the
LwIP thread acts on them in a later one (`HandleMessage`). `given`, `elder`, `finished` and
`touched` are history. What the code does when it acts on the memory of a dead
pcb is modelled as acting on whoever lives there by now.
Facts that the properties except, or that reading showed:
a client that connects itself, such as the MQTT client, has slot -1, so its late calls are
never guarded and `_lwip_fin` writes `_closed_slots[-1]` (`AsyncTCP.cpp:898`);
slots are not returned by `_close` and `_error`, only by a FIN; the counter starts at 1, which is
the initial mark too, so that the slot closed first may be given again at once.

### LoRaCollector

`heard`, `online` and `deadline` are the three maps; a mail is taken
(`GetSignal`, `GetTimeout`) in one step and processed under `_mtx` in a later
one. Readings are not distinguished, only the beacons they come from. A tag
that has been silent is `"expired"`. `PublishSilent` may miss any of the silent
tags but not all, since the loop erases the element it stands on. `Publish` gives a tag to the client,
which takes it or does not; nobody looks at the result, and the maps are erased in any case. `fate` is
history: `"sent"`, or `"lost"` because the client did not take it or the node restarted. Writing
the file (`Command`) succeeds, leaves the old file when it cannot be opened, or leaves it
empty or torn. `readFile` stops at 499 bytes: a configuration whose text is longer (`Long`) is
written, and read back as none. The task that
writes through a NULL mail restarts the node: `panic`. `Restart` keeps nothing but
the file, which may be torn when a command was just being written.

### LoRaNode

`age` is `millis() - _lastSendTime` with its wrap-around; the unit is one sleep of
the loop in `sendMessage`. The interrupt handler (`Interrupt`, `HandlerPosts`,
`HandlerEnds`) runs on the other core, beside every task, and notes the time only
at its end. The gateway reads the clock (`"compare"` with `lag`), then
`_lastSendTime`; a reception that ends in between makes the unsigned difference
huge, and the wait is skipped: the exception `overtaken` of `Spaced`. Nothing
keeps handler and sender from using the radio at the same time; a packet
that is read while the sender writes may be lost.
Which services are registered is a constant: `main.cpp` has one block per role.
Left out: the file of beacons a command may write, and tracing. What a
beacon publishes is `handled`.

### OLEDScreen, OLEDText and Tracing

`Fill`, `Scroll` and `Wrap` are the three branches of `printScreen`, with the
arithmetic on `_head` and `_tail` as the code does it. `OLEDText` adds the loops
of `print`; a text is the sequence of the widths of its characters. A text that
is cut exactly at its end is followed by an empty line; the code does that too.

`Tracing` adds the threads that print. The work of a thread is the sequence of
steps it still has to take (lock, unlock, post, print); `rtos::Mutex` is not
recursive, so a thread that locked twice would wait for itself. `printTrace` does
not test its block: a NULL mail stops the system (`panic`). The lines that are
traced before the file is written stand as one, the "\n" that `println` appends has no width, and the semaphore that `publish` waits for, with
its timeout, is in `MqttSession`.

## 3. Runs

| run | instance | shows |
|---|---|---|
| `mail` | 2 producers, 2 consumers, 3 blocks, 2 mails each; and the same with 2 blocks of one byte | no block is lost or owned twice in any interleaving; `Mail` implements `MailBox`; every mail is received and an exhausted pool recovers; the box of one-byte mails keeps its blocks, owners and list |
| `network` | 2 topics, 2 pcbs, 2 faults (1.1 million states) | flags agree; the node is never stranded but for the four ways above; sessions get a full pass; it reconnects and subscribes |
| `network_ping` | same | **violation**: a ping timeout is not reported |
| `mqtt_parser` | bytes of 8 values, lengths in digits to the base 4, topic buffer of 3, CONNACK and 2 more packets of any type, 9 shapes of PUBLISH | in step wherever stream and connection are cut; every packet once and whole; no packet object left but the known one |
| `mqtt_session` | 2 callers, QoS 0 and 2, identifiers 1 and 2, window of 2, calls, pings and messages together 3, 1 repeated packet, 2 connections, 1 failing `add()` on each | packets never cut into each other and everything acknowledged, unless an `add()` failed on the connection; QoS 2 exactly once; identifiers apart |
| `async_tcp` | 2 clients, 3 events each, queue of 3 | no event is lost or doubled; none reaches a client after its close; every event is handled, or dropped with its client, unless the two threads block each other |
| `async_tcp_order` | 2 clients | **violation**: the order of a client's events is not kept |
| `async_clients` | 3 accepted clients and one of its own, 2 tasks, 2 pcbs, 2 slots, 3 connections | late calls are refused, with the exceptions named; slots belong to one client; the eldest closed slot is given first |
| `collector` | 2 tags and the empty tag, 2 beacons, 2 configurations, one of them too long to be read back, 4 messages | maps agree; signals and fingerprints belong together; the configuration survives unless its write failed or it is too long; everything heard is given to the client, or lost in a way that `fate` names |
| `collector_signal` | 1 tag and the empty tag, 5 messages | **violation**: a NULL signal mail is used |
| `lora` | gateway, silence of 2 units, 3 retries, clock of 4 values, 2 network mails, 1 mail of each other box, 2 packets, 1 command | spacing of transmissions; packets in order and once; blocks return; commands are carried out under constant noise |
| `oled` | ring of 5, display of 3 lines, texts of 5 characters of 2 widths, 2 trace blocks, 2 pieces of work with one long text | nothing lost, lines filled, last lines shown; every thread comes to its end through all mutexes |

### Why the bounds are enough

* `mail`: three blocks are the least with a free list that is longer than one
  block while another block is in use; the four mails offered exceed the pool, so
  it is found empty, refills, and the list is used after every block was created.
  The proofs cover every size of the pool and of its blocks, but smaller blocks than a link only in pools of two.
  The two mailboxes of the run do not touch each other, so a behaviour is one of either: `SmallMailsKept` speaks of the second.
* `network`: two faults are the least with which a loss meets a loss (WiFi and
  TCP, a refusal and a FIN). Two pcbs are what two timers can start before one of them is up; an error of one while `_pcb` points to the other, and a CLEAR that takes events of both,
  need no third. Two topics let a pass be interrupted in the middle. The proofs
  cover all of these.
* `mqtt_parser`: the parser keeps only what is of the current packet, but for the
  three things that `_clear` leaves; two packets on one connection, or one on
  each of two, meet every combination of them. With 8 for 256 and a buffer of 3 for
  that of the firmware, the shapes lie on both sides of every limit: topic short, as long as
  the buffer, longer, longer than the counter can hold, with and without
  identifier; payload empty or not; remaining lengths of one digit and two. The proofs cover
  every byte, buffer and counter, any number of packets, and every way to cut them.
* `mqtt_session`: two identifiers wrap with the third packet, and the bound on the
  work leaves room for three; a window of two pieces has room for one packet, so
  that acknowledgements and the rest of a call find it full; two connections show
  what is left of the first. One failing `add()` puts a connection out of step for good; a second one could only
  cost more packets. The three safety properties are proved for every value.
* `async_tcp`: a queue of three fills while it is turned: two events of a client are in it while a third one is posted, and
  a CLEAR takes a place too. `Conserved` and `NoneLate` are proved for every size. `AllTaken` is checked for these finitely many events;
  the CLEAR events go to the front, and an endless row of them, which would keep the others waiting,
  is beyond the instance.
* `async_clients`: three connections reuse each of the two pcbs and slots while a call of
  an earlier client is on its way. That the slots are given in their order is little exercised by three
  connections on two slots (four are out of reach); it is the theorem `GivenInOrder` that covers more.
* `collector`: the inbox and the signal box hold two mails, so both overflow
  within four messages; the configurations and the default let a set of
  reports be short of, equal to, and past the configured number. Safety is proved for all.
  `Reported` is checked for four messages: an endless stream of signals, which would keep the silent tags waiting, is beyond them.
* `lora`: a clock of four values wraps during one wait of two units; three retries are
  used up by noise; the services' boxes of one mail overflow with the second packet.
  `Spaced` and `RelayedInOrder` are proved for every value. `BlocksReturn` is checked
  after finitely many packets: it shows that no block leaks, not that one is free under endless traffic.
* `oled`: the long text and the short lines after it go round the ring of
  five. The proofs cover 12 and 6, and every other ring, font, guess and limit.

### Findings

* `network_ping`: `_sendDisconnect` closes the connection while
  `_disconnectFlagged` is set, and `_onDisconnect` then runs no callback
  (`AsyncMqttClient.cpp:376`). `MQTTNetwork` goes on believing that it is
  connected, and nothing starts its timer. A new WiFi connection is what repairs it.
* `collector_signal`: `alloc()` for the signal is not tested
  (`LoRaCollector.cpp:55`).
* `async_tcp_order`: an event that is posted while the queue is turned overtakes
  (`AsyncTCP.cpp:147`).

Seen while reading, without a run of their own: `MQTTNetwork::unsubscribe` calls
itself; `publish` compares the result with 1, so that a publication of QoS 1 or 2 reports a
failure unless its identifier is 1, and its overloads pass `dup` as true; segments of a PUBLISH become separate
mails (`MQTTNetwork.cpp:157`); `FFatHelper::listDir` locks its mutex again when it
descends (nobody calls it); a configuration of more than 499 bytes is answered with OK and gone after the next
restart (`FFatHelper.cpp:37-43`, excepted by `Persisted`); the collector's LoRa mailbox
is filled although the thread that empties it is not started in WiFi mode; and
the slots of `AsyncClients` above.

## 4. Fairness

Liveness is claimed only under what the code's surroundings provide:

* each FreeRTOS task runs (preemptive scheduling with time slices, no task of a
  higher priority that never waits): weak fairness of each thread's steps. A
  producer that is idle is not assumed to offer another mail, messages are not
  assumed to arrive, and no fault is assumed to happen;
* a timer that is active expires, and time goes on (`Tick` of `LoRaNode`). Nobody
  promises silence on the radio: `Served` and `BlocksReturn` hold without it;
* an attempt that was made gets an answer, and a broker closes a connection whose
  client is silent: weak fairness of `TcpConnected`, `ConnAck`, `Lost` and of the
  `Fin` that is no fault. CONNACK, not a refusal, is what has to come in the end,
  since refusals are faults and bounded. The broker closes a silent connection only after its keep-alive time
  of 15 s, and the timer, if it runs, expires after 2 s: such a `Fin` is no fault only when the timer is not running;
* a broker that is connected reads what it gets (`MqttSession`), and the client
  polls: `_onPoll` is what sends acknowledgements that found no room;
* in `MCMail` both mailboxes have the fairness of their threads.

Not assumed: that the WiFi driver joins again on its own. `Reconnects` is
therefore stated for a WiFi that stays up. It excepts what `Stuck` names. `Acknowledged` excepts a connection
on which an `add()` failed. `AllTaken` excepts the task that waits for room in
the queue which only it empties; `WorkDone` and `Reported` the system that a NULL mail stopped.

Deadlock checking is off where a bound lets the instance come to rest (each
configuration file says so), and in `network` where a node may also remain
without WiFi for good: `WiFiEvent` ignores a second loss in a row. In `lora`
time never stops, so deadlock is checked there, and says little.

## 5. Proofs

All are checked by TLAPS to the last leaf, with SMT, Zenon and PTL. Each rests on
the assumption on the constants that its module states (finite sets, positive
sizes, NULL is no block, and the like), and on nothing else.

**`MailProofs`**

* `TypeCorrect`: `Spec => []TypeOK`;
* `PutSucceeds`: the assertion of `Mail::put` cannot fire;
* `NothingLost`: no allocation or release fails after its check, and semaphore,
  threads and queue always add up to the number of blocks;
* `OneOwner` (`Exclusive`): each block has one owner;
* `FreeListKept` (`FreeListIntact`): the free list is intact.

The inductive invariant `IInv` is the conjunction of the six safety invariants,
and none of them is inductive alone. That `AllocBlock` finds a block when it has
taken the semaphore needs the count (`Accounted`) *and* an intact list
(`FreeListIntact`): the blocks owned, queued and free are `n` distinct addresses,
so an empty list with all blocks created would leave no slot for the thread that
holds the semaphore (`BlockLeft`). That the list stays intact while owners write
into their blocks needs `Exclusive`, and that their writes reach no link that is still
to be followed: blocks of the size of a link are apart, and of two smaller ones only
the last one freed has a link that counts. That `Put` has room needs the count. One
lemma per action shows that it keeps all of them; `FreeListFrame` carries the
list over the actions that leave the unused blocks alone.

`Refinement` states `BlockSize >= LinkSize => (Spec => Implements)`, for every number of threads and every
size. On top of `IInv` it needs `Filled` (what a producer posts is what it wrote). One lemma
per action says which step of the box it is: `TakeSem` reserves, `Put` posts, `Get`
receives, `GiveSem` releases, the others stutter. `Fill` stutters because a write to
an owned block reaches nothing that is queued (`WriteIsPrivate`).

**`MQTTNetworkProofs`**

* `NetworkTypes`, `FlagsFollow` (`FlagsAgree`), `NeverStranded` (`NotStranded`),
  `TwoMailsSuffice` (`Covered`).

The properties speak of an idle async_tcp task; the invariant says what each place
inside a callback owes to its end (`FlagsOnTheWay`, `OnTheWayBack`), for a node that is not `Stuck`. Why lwIP
never has all pcbs half closed is `NotAllOrphans`: a pcb only loses its owner to
another one. It needs that there is a pcb at all. That two mails suffice is the
case analysis of what the box can hold while a new session begins: a mail not yet
taken is a pass that starts later.

**`AsyncMqttClientProofs`**, sending (`MqttSession`)

* `PacketsWhole` (`Framed`), `IdsNotReused` (`IdsApart`), `MessagesOnce`
  (`ExactlyOnce`).

The invariant reads the stream to the broker from its front: every second
piece follows its first, nothing else does, and the stream ends unfinished
exactly when the holder of the semaphore is in the middle of a packet
(`Right`, `Writing`). It holds of streams that begin with CONNECT and of connections on
which no `add()` failed. CONNECT takes the
semaphore, so that nothing begun before can be finished behind it.

For the identifiers, `Ages` says that a call in flight is at least as many calls old as
`nextPacketId` is past its identifier, so an identifier meets itself only
after a whole round.

For the messages, `Session` describes each identifier by the one packet that is
about it. If the broker never repeated a packet of this identifier, there is at most
one among PUBLISH or PUBREL on its way down, acknowledgement owed and
acknowledgement on its way up (`Alone`), so nothing is left of a message when its identifier
is used again. An identifier whose packet was repeated is not used again in the
connection; all its PUBLISHes come before its PUBRELs (`InOrder`), so that it stays in
`pendingPubRels`, and the repeated message is refused, for as long as one can come.

**`AsyncMqttClientProofs`**, parsing (`MqttParser`)

* `ParserKeepsStep`: `ParserSpec => []ParserInv`, the invariant the others follow from;
* `NoByteMisread` (`InStep`), `MessagesWhole` (`WholeMessages`), `PacketsOnce`
  (`EveryPacketOnce`), `ObjectsFreed` (`NothingLeaks`).

Unless a topic that the counter cannot hold has led the parser astray, `ParserInv` says
where in the packet at the front of the stream it stands, and for each such place
what every field of its state is: which digits of the length it has, how far the
variable header is read, which part of the topic is in the buffer, how many bytes of
payload are left, and which packets have been handed over. That one more byte
leads from one place to the next needs to know what the broker sends. The first
lemmas therefore compute the operators of the model for every packet: `Decode` undoes `Encode`,
every digit but the last one carries a continuation, and `Bytes` puts each part at
its position. The invariant holds at the moment a connection is cut, too: what
`_clear` leaves (the digits, the buffer, the object) is harmless because CONNACK comes
first, has one digit of length and no topic.

**`AsyncTCPProofs`**, events (`AsyncTCP`)

* `EventsConserved` (`Conserved`), `NoneAfterClear` (`NoneLate`), for every
  number of clients and events and every size of the queue.

An event is around while it is in the queue or held by either thread. No two
that are around are the same (`Apart`); what is around was posted and has not been
delivered (`Numbered`, `DeliveredOnce`); what was posted and is neither belongs to a
client that ended (`NoneMissing`). The turning of the queue is safe because the
first packet stays in the queue until it is met (`Turned`): its address cannot
be that of another packet meanwhile, and behind it nothing of the client is left.
`EndsQuietly` says that the LwIP thread holds no event of an ended client
once the CLEAR event can be taken, so that after the turn nothing is left (`Gone`).

**`AsyncTCPProofs`**, clients (`AsyncClients`)

* `ClientTypes`, `SlotsStayApart`, `MessagesGuarded` (`Guarded`), `GivenInOrder`
  (`EldestFirst`).

A message carries a slot and a pcb. That the slot speaks of the pcb rests on
`Numbers` (a connection belongs to one client), `Linked`, `SlotsUsed`, and `Says`: what
is true of a message while it waits, whatever happens to its client meanwhile.
`Marks` orders the slots by when they were closed.

**`LoRaCollectorProofs`**

* `CollectorTypes`, `MapsTogether` (`MapsAgree`), `SignalsRight`
  (`SignalledComplete`), `NoSignalMissed` (`CompleteSignalled`), `ConfigurationKept`
  (`Persisted`).

Here the conjunction of the properties is inductive: a fingerprint only grows
between two publications, and what a new configuration finds in the maps or on
the way counts as stale.

**`LoRaNodeProofs`**

* `KeepsDistance` (`Spaced`): `Clock` says that `age` is right until it is large,
  `Measured` that the gateway's two readings have the right difference in spite
  of wrap-around and of any delay, unless a reception ended in between;
* `RelayKeepsOrder` (`RelayedInOrder`): a packet in a service is behind every one still in its
  inbox, in the network thread, in the queue and in the interrupt handler, and
  a block in use is not free, so its content stays.

**`TracingProofs`** (`OLEDScreen`, `OLEDText`, `Tracing`)

* `LastLinesShown` (`ShowsLast`), `NoCharacterLost` (`NothingLost`), `LinesAreFull`
  (`LinesFill`), by whatever threads print; `ScreenAlone` for the screen without them;
* `NobodyWaitsForEver` (`NoCircle`): in every set of threads there is one that does not
  wait for a mutex of another of the set, and nobody who has ended holds one;
* `PrintingAlone` (`TakeTurns`): who calls `print` finds no other call under way, and
  nobody unlocks a mutex that is not its own.

The screen: `RingKept` says where the line printed `i` calls ago is stored,
and how far the indices are apart. `RingShifts` shows that a call makes every
line one older where it stands; three lemmas give the indices in the three
branches; `FullScreen` turns "drawn from the right places" into `ShowsLast`.

The text: `TextInv` adds that the lines cut so far and the rest make up the text
(`Whole`), how the line that is being cut compares with the limit in each of the loops
(`Cutting`), and which lines are shown (`Shown`). That shrinking never reaches an empty
line and that growing ends before the text does follows from the widths: no character is
wider than the limit, and what is left did not fit.

The mutexes: the rank of a mutex is 1 for those of collector and radio, 2 for those of file
system, network and trace, 3 for `std`. `Leads` says of a piece of work that it takes
mutexes upwards only and returns all of them; it is proved along the way the work is put together
(`LeadsOn`, `LeadsUnder`), not for a number of steps. `TraceInv` says where in
its plan each thread is and that it holds what the plan says there. In a circle
each thread would wait for a mutex of a higher rank than the one before it.
`NoCircle` and `TakeTurns` are defined with their theorems; no run checks them.

**`FoldLemmas`**: what `FlattenSeq` does to a sequence that gets longer at either end or is joined
from two, and the two forms of induction that follow.

**Induction.** The library's induction theorems take an operator as a parameter and cannot be
used. Where an operator of the model computes by recursion or by a fold (`FlattenSeq`,
`Width`, `Encode`, `Decode`), the proofs take the *set* of the numbers for
which the claim holds and show that it is all of `Nat`, from the smallest number
outside of it (`Smallest`, which rests on the well-foundedness of `<`).

**Assumptions.** Beyond sizes and finiteness two are worth naming. The lines of `OLEDScreen`
include every text that `print` can cut (`TextAssumption`), and no character is wider
than the display; `Tracing` has at least one character and prints texts of
at least one (`TracingAssumption`).

**Only model-checked.** The liveness properties, which are outside what the prover
handles (`EveryMailReceived`, `PoolRecovers`, `Reconnects`, `Subscribes`,
`Acknowledged`, `AllTaken`, `Reported`, `BlocksReturn`, `Served`,
`WorkDone`), and the three properties that the code violates. Every invariant and
every action property of the passing runs is a theorem, but for `SmallMailsKept`, which puts four of them together
for the second mailbox of `MCMail`; `MailProofs` proves each for it too.

## 6. Plan

What would come next, in this order:

1. an abstract session (each QoS 2 message once, acknowledged once) that
   `MqttSession` implements, with the proof of each step as for `Mail`;
2. the CMSIS wrapper's thread flags, event flags and timers against the contract
   that CMSIS-RTOS2 documents, if the firmware begins to use them;
3. DNS and the timeouts of `_poll` in `AsyncClients`.

## 7. What is not modelled

Third-party code: mbed OS headers under `src/include/`, device libraries under
`src/lib/`, the ESP32 SDK with FreeRTOS, lwIP, WiFi, `LoRa`, `FFat` and
`ArduinoJson`. The calls the firmware makes are modelled by what its code
relies on; the WiFi driver, lwIP and the broker are marked external in the map. A
single call of FreeRTOS is taken as atomic. These files are most of the
repository's lines (compiler intrinsics, RTX event records, atomic helpers, error codes,
`EventQueue`, `Ticker` and HAL headers, the RFID driver), and most of them are not even reached
by the firmware, which is why the mapped lines are a small share of all lines, though
they are most of what the firmware's own control flow consists of.

Of the firmware's own code: `queue.c` is a copy of the FreeRTOS source of which
little is compiled in. The `os*` calls other than those for pools, queues and
mutexes are not called by the firmware's classes. Register access of
`TimeMachine` and `ColorSensor`, and the stubs for mbed's timers, keep no state
worth a model. `FFatHelper`'s directory operations and `OLEDScreen::screenPrint`
have no caller. TLS, wills and credentials pass through unchanged. Memory that is used after
it was freed (`PublishPacket.cpp:63`) has no outcome to state and is only listed as
a hazard; where lwIP's memory is reused (`AsyncTCP.cpp:868`), the model acts on
whoever lives there.
