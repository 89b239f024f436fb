# A TLA+ model of the Moho engine's session core

The repository is a C++20 reimplementation of the engine of *Supreme Commander:
Forged Alliance* ("Moho"), about one million lines. Most of it is a game:
rendering, sound, a Lua user interface, units and their AI. What makes it a
distributed program is small by comparison and is what this directory models:
every player's machine runs the same simulation, in beats, from the same orders;
the orders travel between machines over links that fail; machines leave; and on
every machine three threads share one simulation.

All paths below are inside the repository's own `src/` directory, so
`moho/net/CClientBase.cpp` is `src/src/moho/net/CClientBase.cpp` in
`PROJECT.json`.

## 1. Inventory

### 1.1 What is modelled

| Component | State it keeps | Operations | What is hard | What makes it correct |
|---|---|---|---|---|
| **Lockstep clients** `moho/net/CClientManagerImpl`, `CClientBase`, `CNetClient`, `CLocalClient` | per pair of players: beats queued, a pipe of orders, beats drained, acks, eject flags and eject requests; per manager: available, fully queued and dispatched beat | `AdvanceBeat`, `Process` of Advance / Ack / Eject / ConnLost, `DoBeat`, `UpdateStates`, `EjectSessionClient`, `Disconnect` | every player decides alone what is complete; players leave with messages under way; two of three may have ejected each other | no beat runs before everybody who matters holds it; survivors run the same orders; a leaver never blocks the rest |
| **Command gate** (`CClientBase::UpdateState`) and **replay client** (`CReplayClient`, `CDecoder`) | per stream the current and the allowed command sources; the last source announced; the record; the replay client's pipe and poll flag | merging the streams of a beat, ending a stream, recording, `Start`, `SkipBeats`, the replay thread | one merged stream stands for many; the record may still grow while it is played | an order runs under its sender's source; a record plays back as it ran, from any keyframe; playback ends |
| **Game-speed vote** (`CClientBase`, `CClientManagerImpl`) | clock and requester of the newest request, the speed, one report per client | `SetSimRate`, `BroadcastIntParam`, receiving both, a lost connection | no host decides; requests cross | all players issue at the same rate once messages have arrived |
| **Net channel** `remote/net/NetChannel`, `ReliableStream`, `Datagram` | a ring of sequences seen, datagrams sent and not settled, a byte stream with range sets of what is acked and lost, a lane of repeated messages | `Send*`, `Poll`, `Receive`, `SetKeys`, timeout | loss, duplication, reordering, acks that are lost, late or out of the ring; false loss | bytes counted as acked are held; nothing is forgotten; everything arrives; messages are handed out once |
| **UDP connector** `moho/net/CNetUDPConnector`, `CNetUDPConnection` | a list of connections; of each the state, three sequence numbers, unacked and early packets, streams of output and input, flags of its end | `Connect`, `Reject`, `Destroy`, `Pull`, `Write`, `Close`, `ScheduleDestroy` on the game's thread; `ReceiveData`, `SendData` on its own | the same network; connections replaced while packets of the old ones are under way; 16-bit numbers that wrap; an end that must come last | a packet has one connection to go to; what is written arrives, in order, before the end; a connection told to go, goes |
| **Rejoin feed** `moho/net/CRejoinFeed.cpp` with its branches in `CNetClient`, `CClientBase`, `ThreadRun` | of a peer: the serves it owes; of the restarter: each peer's report, backlog and held messages, the cut | a seat's new link, `SendBacklog`, `NotePeerReport`, `ApplyCut`, `FinishCatchUp` | the three copies of a stream were taken at different moments, overlap and may leave gaps; the old stream is cut and continued; acks of what is cut are about | everybody ran the same messages in every beat, through the crash; nobody is left waiting |
| **Sim driver** `moho/sim/SimDriver.cpp` | driver state, interlock flag and count, save request, outstanding requests, packet queue, three beat counters | thread bodies `ThreadCreateSim` and `ThreadRun`, `Dispatch`, `GetSyncData`, `RequestSaveGame`, `ProcessEvents`, pauses, `ShutDown` | the sim is used without a lock; one condition variable; two threads may run beats; shutdown at any moment | one thread in the sim at a time; packets in order; no lost wakeup; every thread joined |

### 1.2 How they interact

```
 user / Lua ── orders ──▶ CMarshaller ──▶ CLocalClient ─┐ ProcessClients
                                                        ├──▶ CNetClient ──▶ connection ──▶ other machines
 issue thread (ThreadRun): DoBeat pulls messages,       │        (UDP/TCP connector, or
   steps mAvailableBeat, decides the last beat to issue ┘         NetChannel in a served game)
                     │ promotes Ready ─▶ Dispatching (mState, mStateChanged)
 sim thread (ThreadCreateSim): UpdateStates drains each client's pipe through its
   gate, CDecoder decodes (and records) it, Sim runs it, Sync publishes a packet
                     │ mSyncDataQueue
 main thread: GetSyncData, Dispatch, saves, pauses, tools, ShutDown
```

Shared state: the manager's recursive `mLock` (issue and sim thread), the
driver's `mLock` (all three threads), the record's stream (sim thread and replay
thread). The seams of the models are these same calls: `Lockstep` decides *which*
beats of which stream run, `CommandGate` decides *under which source* what is in
them runs, `SimDriver` takes the manager as a counter of available beats (which
`Lockstep` produces) and asks *who* runs them and when, `SpeedVote` gives the rate
the issue thread paces by, and `NetChannel` (in a served game) and
`UdpConnection` (between players) are links with the order and completeness
that `Lockstep` takes for granted. `Rejoin` is `Lockstep`'s clients once more,
without ejections, with streams that are cut and continued.

### 1.3 What is not modelled

Candidates for later, in the order of the plan (section 2): order checksums, peer
features, the handshake and game links, the dedicated server's seats, speed watch and views, the links between peers and
their bridge, the remote client's driver, the task scheduler, `PipeStream`.

Left out for good: the simulation itself, units, AI and path finding (a
deterministic function of the orders over state far beyond enumeration; the
models need only that it is deterministic), rendering, sound and user interface
(device input and output), Lua and the containers of the old runtime
(third-party by origin), platform entry points, TCP sockets (ordering is the
system's), lobby and discovery (script and user interface), save files (one
serialization), replay checkers (checkers themselves). `PROJECT.json` lists each
with its files.

## 2. Plan

Order of work, most important behaviour first.

1. `Lockstep` with `TurnBarrier`, `LockstepBarrier` and their proofs — built.
2. `CommandGate`, `Playback`; `SpeedVote` — built.
3. `ReceiveWindow`, `ReliableStream`, `RangeSet`, `NetChannel` — built.
4. `SimDriver` — built.
5. `UdpConnection` with `OrderedLink` and `UdpConnectionProofs` (the original
   engine's reliable datagrams) — built.  `NetChannel`'s stream could be shown
   to refine `OrderedLink` too.
6. `Rejoin`: a player that crashes, takes its seat back and plays on, over
   lockstep clients — built. Left: ejecting a seat while its player comes back,
   the proof of a seat, and a restarter that skips to a saved game.
7. `StreamCheck`: the order checksums carried by acks, over `Lockstep`'s streams.
8. `Handshake` with `GameLinks`; `PeerFeatures`.
9. `FrameWindow` with `ViewLanes` and `ServerClient`; `SeatIntake`, `SpeedWatch`.
10. `PeerLink` (netlink) and `Bridge`; `TaskThread`; `PipeStream`.

Proofs: type correctness, ack truth, the barrier, the counters and the silence of
the ejected are proved of `Lockstep`, that its streams keep up, that it
implements `TurnBarrier`, and that survivors of one departure differ in the last
beat only; types, one stamp one speed, and one rate of `SpeedVote`; all safety of
`NetChannel` and of `SimDriver`; all safety of `Rejoin` but that nobody is
stuck; all safety of `UdpConnection`, and that an established link implements
`OrderedLink`; all safety of `Playback`.

Runs stay small enough to be repeated with every change; runs of components that
do not interact are kept apart, and a new module takes its own run only when it
asks a question of its own.

## 3. The modules

| Module | What it is |
|---|---|
| `Lockstep` | the managers and clients of all players, links, departures |
| `TurnBarrier` | abstract specification: what the clients promise the sim |
| `LockstepBarrier` | the refinement mapping from `Lockstep` to `TurnBarrier` |
| `LockstepProofs` | types, acks, the barrier, counters, ejected players, streams keep up; `Lockstep` implements `TurnBarrier`; survivors of one departure differ in the last beat only |
| `CommandGate` | operators: one beat of a stream through its gate, the merge, the decoder |
| `Playback` | a game, its record, and the record played by a replay session |
| `PlaybackProofs` | managers and sims agree about sources; a playback runs what the game ran |
| `SpeedVote` | game-speed requests and capability reports |
| `SpeedVoteProofs` | types, one stamp one speed, one rate |
| `ReceiveWindow` | operators: the ring of received sequences |
| `ReliableStream` | operators: sending and receiving half of the byte stream, over sets of offsets |
| `RangeSet` | operators: the same sets as the code keeps them, maps of ranges |
| `NetChannel` | two channels and the network between them |
| `NetChannelLemmas` | what the operators of the four modules above do, for every input |
| `NetChannelProofs` | types, acked is held, nothing forgotten, only what is owed is sent, handed out once |
| `UdpConnection` | two connectors, their connections and the network between them |
| `OrderedLink` | abstract specification: one direction of an established connection, as the two games see it |
| `UdpTransfer` | an established link of `UdpConnection` as two `OrderedLink`s: the refinement mapping, and the hypotheses of its proof |
| `UdpConnectionProofs` | types, one live connection, acked is held, the link implements `OrderedLink` |
| `SimDriver` | the three threads of one machine |
| `SimDriverProofs` | theorems about `SimDriver` |
| `Rejoin` | the clients of all players, one of which crashes and comes back |
| `RejoinProofs` | types, all run the same, beats are taken once, every cut can be taken |
| `MC*` | values for TLC |

A definition named `Faulty...` is the definition after it with a plausible
mistake. No action uses one; `PROJECT.json` pairs each with the property that
must notice it, so that every property is known to be able to fail.

### 3.1 Lockstep

`v[i][x]` is the field `v` of the object player `i` keeps for player `x`:
`queued` is `mQueuedBeat`, `drained` the client's `mDispatchedBeat`, `pipe` the
advances in `mPipe`, `ack[i][k]` is `mLatestAckReceived` of `k`'s object,
`ejectRequests[i][x]` is `mEjectRequests` keyed by requester. The manager's lock
makes each action atomic:

| Action | Code |
|---|---|
| `Issue` | `CMarshaller::AdvanceBeat` → `ProcessClients` → `CClientBase::Process`, local stream |
| `DoBeat` with `ReceiveAdvance`, `ReceiveAck`, `ReceiveEject`, `ReceiveConnLost` or nothing, then `StepCounters` | `CClientManagerImpl::DoBeat` (1175-1264), `CNetClient::ReceiveMessage`, `CClientBase::Process` |
| `Dispatch` | `CClientManagerImpl::UpdateStates` and `CClientBase::UpdateState` of every client |
| `EjectSessionClient` | the Lua call of that name, `CClientBase::Eject` |
| `Leave` | `Disconnect`, or a crash at the same place |

Reductions, and why they lose nothing that is claimed:

- *Orders are the beats they belong to.* A link delivers a stream in order and
  unchanged, so beat `b` of stream `x` is the same everywhere; what can differ
  is who runs it.
- *One message per `DoBeat`.* A call that pulls several is several calls with
  the counters stepped in between; a beat found available earlier is dispatched
  when `Dispatch` chooses, as late as the code would.
- *The sender's own ack rides with its advance.* `ProcessClients` writes the
  two next to each other on every link.
- *Messages to an end that is closed or gone are not kept*, since nobody reads
  them.
- Chat, readiness and the progress reports (Available, Dispatched) take no part
  in which orders run and are not sent.

`TurnBarrier` says it without acks, links or counters: a player takes a turn
only when everyone it plays with holds that turn of everyone it plays with.
`ImplementsBarrier`, in `LockstepBarrier`, maps `held <- queued`, `turn <- dispatchedBeat` and
`out <- Excluded`.

### 3.2 CommandGate and Playback

`Drain` and `EndStream` are one beat of `UpdateState` for a live and for an
ended client, `MergeBeat` the loop of `UpdateStates` over clients, `Decode` and
`RunBeat` what the decoder and the sim make of the result (`mCurCommandSource`).
`Playback` runs a game with them, one beat a step, records what was merged, and
plays it with a second manager whose clients are the `CReplayClient` and the
viewer's local client. `Issue`, `DoBeat` and `Dispatch` are that session's
threads, `Start` the code that reads the record through the next advance,
`SetUp` with `Skip` and `SkipMessage` the skip to a keyframe, `ReplayThread` the thread
that waits for more of a record still being written, `Arrive` the record's bytes
coming in one message at a time.

Reductions: recorded advances are of one beat (so a skip never ends inside one);
live streams carry one segment a beat; a player claims only its own source.
What an observer may notice: an `EndGame` that `Start` adds at the end of a
record is dropped by the gate when the record's last source has ended, because
no source is open then.

### 3.3 SpeedVote

`SetSimRate`, `BroadcastIntParam`, `Receive*` and `Leave`; `Newer` is the
comparison of clocks and requesters, `GetSimRate` the rate the issue thread
uses. A leaver's messages reach each of the others up to a point of its own.
Left out: a link that fails between two players who both stay. What is *not*
promised, and the model shows why: a request a player makes just before leaving
may stay in force with only some survivors, until somebody asks again; hence
`NewestIsOfTheLiving` in `SameRateWhenQuiet`.

### 3.4 NetChannel and its parts

Both ends have the same record of state. `Poll` is one call that emits at most
one datagram (a call that emits several is several polls); `DetectLoss`,
`DropSettled`, `WriteLane`, `Write`, `Emit` are the functions of those names.
`Receive` is the whole of `NetChannel::Receive`, in its order: dropped as
closed, as not matching the encryption, as old or duplicate, or malformed; then
the window, the acks, the fragments, the lane.

The channel reads no clock, its owner passes the time in. The model chooses what
the time decides — which datagrams have reached the retransmission timeout, the
reordering delay, the age at which a lost one is given up; whether a repeat is
due — but consistently: if a datagram is old enough, so is every older one.
That covers every RTT estimate, so the estimator is left out. `Owners` gives what each end's
owner does: how much it writes, how many datagrams it sends and how many of them
may be keepalives, whether it sets keys and whether it gives up. Also left out:
statistics, byte layout, message framing, the limit of the queue of unreliable
messages handed out (the owner takes them in time). Encryption is the rule that
an end with keys accepts only sealed datagrams and one without only plain ones.
Peers are honest.

The network keeps every datagram ever sent and may deliver it never, late or
again. In `ChannelArrives` it is `Timely` instead: it delivers each datagram at
most once, loses at most `MaxLosses`, and the timeouts of the code do not expire
while something is under way.

`ReliableStream` reasons with sets of offsets; the code keeps them as ordered
maps of ranges. `RangeSet` translates those maps, and `RangesStandForSets`
checks, in every state the channel comes to and for every
range that could be added or removed, that they represent the same sets.

### 3.5 SimDriver

`sim`, `issue` and `main` are the places of the three threads, everything else a
member of `CSimDriver`. An action is what a thread does while it holds `mLock`.
Where the code unlocks — to run a beat, to publish, to save, to wait — the
thread's place says so (`running`, `opening`, `saving`, `waiting`) and other
threads act. A `wait` is two steps, woken by `Notified` and then by getting the
lock back.

| Actions | Code |
|---|---|
| `CreateSim`, `OpeningSync`, `SimLoop` (`LoopStops`, `LoopWaits`, `LoopSaves`, `LoopDispatches`), `SimWakes`, `SimSaved`, `SimRan`, `SimCrashes` | `ThreadCreateSim` |
| `IssuePass`, `IssueStops` | `ThreadRun`; the operators `BusyLasts`, `ScheduledLasts`, `PacedLasts` are its four ways of choosing the last beat to issue |
| `DispatchCompletes`, `DispatchModes`, `MainLoop*`, `MainSaved`, `MainRan` | `Dispatch` |
| `GetSyncData`, `RequestSaveGame`, `OpenTool`/`ToolEnters` (`ProcessEvents`), `CloseTool` | the calls of those names |
| `StartPlaying`, `PauseReplay`, `ResumeReplay` | `WLD_DoWaiting`, `CWldSession::RequestPause`, `Resume` |
| `ShutDown`, `JoinIssue`, `SeeStopped`, `JoinSim`, `LastSync`, `Closed` | `ShutDown`, twice: at the end of the session and in the destructor |

Abstractions: the clock (a beat falls due whenever the pacing allows it); the
issue thread's event (its wait always times out, so a missed signal costs time
only); spurious wakeups; the rejoin hold; events pumped from inside a wait; a
beat that throws on the main thread in interlocked mode; checksums, filters and
the measured rate. `OneAtATime` restricts the driver's callers: no save is
requested, and no tool opened, while a save is under way. The rejoin feed and
the replay timeline each keep to this for their own saves, and `SimDriver.cfg`
sets it; with `FALSE` TLC shows what section 6 says of a second save.

The console variable `sim_Interlocked` (`CConCommand.cpp`) is not the
`gSimInterlocked` that `Dispatch` reads, which nothing sets; the interlock comes
only from `ProcessEvents`, that is, from the emitter editor.

### 3.6 UdpConnection and OrderedLink

`conn[e]` is `mConnections` of `e`'s connector. A connection is pushed to the
front when it is made, so the list is kept as a function of the order of making
and `First` — the first that passes a test — is the newest that does. A
connection's record has the fields of `CNetUDPConnection` (`next`, `remote`,
`expected` are the three sequence numbers, `unacked` and `early` the two packet
lists, `out` and `input` the two streams, `shut`, `sentShutdown`, `eof`,
`dispatchedEof`, `destroy`, `destroyed` the flags of its end). `log` is what the
two games know of each connection and is read by properties only.

| Action | Code |
|---|---|
| `SendConnect`, `SendAnswer`, `DestroyAtOnce`, `TimeOut`, `Resend`, `SendData`, `SendGoodbye`, `SendKeepAlive`, `SendAck` | the branches of `CNetUDPConnection::SendData` |
| `ReceiveConnect` | `CNetUDPConnector::ProcessConnect`, which offers the packet to the connections in turn |
| `ReceivePacket` | `HandleReceivedDatagram` and the connection's `Process*` functions |
| `Connect`, `Reject`, `Destroy`, `Pull` | the connector's calls of those names (`Connect` also answers a waiting connection) |
| `Write`, `ScheduleDestroy` | the connection's calls of those names |
| `Reap` | the end of a pass of `CNetUDPConnector::Entry` |
| `Lose`, and the choices in `Carried` and `Arrived` | the network |

`OrderedLink` is what the two games see of one direction of an established
connection: messages written, handed over in order and once, and the notice of
the end, which may say `Eof` only after all of them. `ImplementsLink` maps it to
both directions, `wrote` and `shut` from the sender's log, `handed` and `notice`
from the receiver's; it is in `UdpTransfer`, with the names of the two ends.

`ProcessData` inserts a packet among the early ones and consumes from the head
while the head is the expected one. `Drain` does this at once: `Consumed` is how
many of the early packets are consumed (`Consumable` is the loop's condition,
`EndsBy` what `ConsumePacketHeaderData` makes of the input), and the fields
follow from it. The packets carry two history fields that no action reads,
`nth` and `had`: the natural numbers of which `seq` and `expected` are the lower
16 bits.

Reductions: a message is one packet; a deadline may pass at any moment, except
that ten seconds of silence of a *live* peer are counted (`MaxSilences`); one
pass of `Pull` over the list is one action; the time in handshake packets is a
counter, so two of them never bear the same one. `SeqSpace` stands for 2^16 with
the same signed differences. Left out: the deflate filters, serial numbers, ping
times, which address a packet is from (there is one peer).

### 3.7 Rejoin

`stream[i][x]` is `x`'s stream as `i` has it, `dispatched`, `available` and
`ack` are those of `Lockstep`; a beat is here the messages it is made of, each
marked with the run of its player (before or after a crash), because two runs of
one player issue the same beat with different orders. `serves[k]` are the entries
of `sPendingServes`, `report` is `mPeerDispatched`, `mPeerQueued` and `mBacklog`,
`cut` is `mHandoverBeat`, `lost` the peers whose link to the restarter leads
nowhere.

| Action | Code |
|---|---|
| `GiveOrder`, `Issue` | `CClientBase::Process` of the local client, `CMarshaller::AdvanceBeat` |
| `DoBeat` with `ReceiveOrder`, `ReceiveAdvance`, `ReceiveAcks`, one of those below, or `PullNothing` | `CClientManagerImpl::DoBeat`; each ends with the step of `mAvailableBeat` |
| `Crash` | the process ends; the next one starts with nothing |
| `TakeSeat` | `SettleCandidates`, `CNetClient::ReplaceConnection`; the peer that holds the recording waits for its sim, the others serve in the same call |
| `Serve` with `SendBacklog` | `REJOIN_ServeRestartedPeers`, `SendBacklog` |
| `Settle` with `OldStreamEnd` | `CRejoinFeed::NotePeerReport`, the last report |
| `ReceiveCut` | `ApplyCut` |
| `FinishCatchUp` with `Rebuilt`, `RebuiltOrders`, `Covered` | `CRejoinFeed::FinishCatchUp`, `QueueBacklog` |

Reductions:

- *Acks are a maximum.* `told[k][i][x]` is the highest ack about `x` on its way
  from `k` to `i`; `CLIMSG_Ack` keeps the highest, so reading them one at a time
  ends there.
- *A report is not kept on the link*: nobody sees it between its sending and
  `Settle`, and `Settle` may be as late as it likes.
- *The recording stands for the beats its writer has dispatched.* Playing a
  record back is `Playback`'s subject; that a save may come with it changes how
  many of those beats are run again and not what they are.
- *Every advance is of one beat*, every peer supports rejoining, the restarter
  proves its seat, and nobody votes it out.
- *The restarter is the same player each time*; it may crash again on its way
  back, when no serve of an earlier return is waiting (section 6 says what
  happens otherwise).

`Prompt` says whether a message on a link is read before the restarter has
fetched the recording over the same links and played it. That is how the code is
meant to run and what the run `rejoin` assumes; nothing in the code enforces it,
and `rejoin_late` shows what depends on it.

## 4. The runs

| Run | Question | Bounds |
|---|---|---|
| `lockstep_leave` | Are the beats a player runs behind everyone's acks, do streams end without starving the sim, is the barrier implemented, does a leaver ever block the others for good? | 3 players, one advance of 2 beats each, a given one quits or crashes at any moment, fairness |
| `lockstep_cuts` | And when links fail between players who stay? | 3 players, 1 beat, one cut or ejection, one leaver |
| `lockstep_last_beat` | *(violation)* Do survivors run the same orders? | 3 players, 1 beat, one leaver |
| `playback_runs` | Does the record play as the game ran, and to its end? | 2 players, 3 beats, skips of up to 2, messages arriving one by one, fairness |
| `channel_reliable` | Are acked bytes held, nothing forgotten, and messages handed out once? | either 3 bytes in up to 4 datagrams one way and 3 acks back, or 2 messages in up to 2 datagrams one way and 1 back with a lane of 1, one repeat, one keepalive, keys and giving up at any moment; a ring of 2, every loss, delay and repeat |
| `channel_arrives` | Does everything arrive? Do range sets stand for sets? | 3 bytes, any 2 datagrams lost, fairness |
| `speed_vote` | Do players agree on the rate? | 3 players, 3 requests or reports, one leaver, rates inside and above the range |
| `udp_transfer` | Is an established link an ordered one to the end? | a window of 2, a mask of 1, 2 messages one way, 8 sequence numbers of which 2 are left before they wrap, 2 packets under way each way, one false time-out |
| `udp_link` | Has a packet one connection to go to? Does what is written arrive, and do ended connections go? | 1 and 2 connections, 2 and 1 handshake packets, 1 message, a window of 1, one packet under way each way, fairness |
| `sim_driver` | Exclusion, order, counters, no lost wakeup, shutdown | 2 beats, 2 uses out of saves, pauses and tools, failures, shutdown at any moment |
| `rejoin` | Through a crash and a return: do players run the same messages, are beats taken once, can every peer go back to the cut, does the game go on? | 3 players, 2 beats, one lead, an order of the restarter before it crashes; two crashes, or one and an order of a peer while it is away |
| `rejoin_late` | *(violation)* Can no client have run a beat past the cut? | the same with one crash, no orders and a cut that may be slow |

Why these bounds are enough to be worth running:

- *Three players* is the smallest number with a third party: someone whose acks
  describe a stream that is neither his nor mine, and two who disagree about a
  third. *One advance of two beats* is the smallest with a beat that is issued but
  not the last of its advance; that is where `StreamsKeepUp` could fail.
- *One given leaver.* Players are interchangeable, so it does not matter which
  one may leave; `lockstep_cuts` uses symmetry over the others, `lockstep_leave`
  checks liveness and does not.
- *Two players and three beats* in `Playback` give a source that changes and
  changes back, a source that ends between two beats, a skip of 0, 1 and 2 beats
  and a beat to run after each. One message at a time shows the reader every
  part of a beat.
- The channel's constants are scaled together: the ring is as small as the
  datagrams in flight, so sequence numbers wrap it; the header reaches one
  sequence and blocks one more, so acks fall out of reach; three bytes with two
  in flight reach the limit and `Compact` drops a front.
- In `udp_transfer` numbers wrap between the first message and the end, a packet
  can be two ahead of the expected one and so past the mask, and the two packets
  under way can be an old and a new acknowledgement. In `udp_link` the end that
  makes two connections replaces one while its peer still talks to it.
- In `SimDriver` a queue of one and a lead of one make both limits bite in two
  beats. Two uses give every pair: two saves, two tools, a save and a pause.

- In `Rejoin` two beats give a beat that everybody ran and one that some hold,
  some have run and the restarter issues again; three players give a peer whose
  report is behind the recording's and one that acks the new beat before the
  other has heard of the cut. An order given before the crash would join a beat
  of the next run; one given by a peer meanwhile is in its backlog, on its link,
  or in both.

`CHECK_DEADLOCK FALSE` appears only in the configurations of the channel, the UDP
connection, the speed vote and the rejoin, which stop when their bounded supply of messages,
sequence numbers, connections, requests or beats is used up; for the rejoin
`NobodyIsStuck` says that it stops nowhere else. The lockstep and playback runs check deadlock
and always have a step (`DoBeat`, which changes nothing, when all is done);
`SimDriver` stutters only in `Closed`.

Every property of a passing run is paired in `PROJECT.json` with a mutated
definition that makes it fail.

## 5. Fairness

- **Lockstep** `FairSpec`: each player's `Issue`, `DoBeat` and `Dispatch` are
  weakly fair. The issue thread loops with a timeout and is woken by the
  connector; the sim thread is notified when a beat is available. Nothing makes
  a user eject, a link fail or a player leave. That a link's messages are
  pulled while another link always has some is part of weak fairness of `DoBeat`
  only because each link's supply is bounded, as it is between two beats.
- **Playback** `FairSpec`: what is recorded reaches the reader, the session is
  set up, and *some* thread that can take a step does (`ThreadsRun`; `Runnable`
  is its enabling condition written out). Nothing makes the game go on or end.
- **NetChannel** `FairSpec`: both owners poll and receive, over a network that
  loses a bounded number of datagrams. Needed, since a network that loses every
  datagram delivers nothing; the code answers that by its timeout.
- **UdpConnection** `FairSpec`: the connector's thread sends what is due and the
  game's thread pulls (weak fairness); a packet that is sent again for ever —
  unacked data, an acknowledgement that is up to date — finds room in the
  network and is received (strong fairness, `DataComes` and `AcksCome`): the
  network loses any number of packets but not every copy of one. A peer that has
  gone for good is timed out. Nothing makes a handshake succeed, a lobby connect
  or a game write or end a connection.
- **Rejoin**: none. Every step but a crash uses up a message, a beat or a stage
  of the return, and there are boundedly many, so that the game goes on is the
  state property `NobodyIsStuck`: while somebody is short of the last beat, some
  thread has a step that changes something.
- **SimDriver** `FairSpec`: strong fairness of steps that need the lock — a
  thread that asks for the mutex again and again gets it; frames call `Dispatch`
  and take packets unless a replay is paused (its frame does not dequeue then);
  a paused replay is resumed; the others' orders arrive (`Lockstep`); a beat held
  by nothing falls due. Tools need not be closed and nobody need shut down.

## 6. Disagreements between the code and its text

Found while modelling; the first two are runs.

1. `lockstep_last_beat`: `CommandStreamCheck.h:19` says "In lockstep every
   client runs every player's orders". Two survivors who never eject each other
   can differ in a leaver's *last* beat: one has dispatched it before the
   other's `Eject`, with a smaller last beat, arrives; the other ends the stream
   before it. With one departure the difference never exceeds that one beat
   (`SurvivorsDifferInLastBeat`, checked in `lockstep_leave` and proved). With
   two it may: of four players `a`, `b`, `c`, `d`, `b` runs two beats of `c`'s
   stream while `a`, still together with `b`, ends it at none, because `b`
   ejected `d` in between and with that forgot where `d` had asked `c`'s stream
   to end (`RemoveEjectRequestsByRequester`, `CClientBase.cpp:980`). TLC's
   simulation of `Lockstep` with these four players, an advance of two beats and
   `Leavers` of `c` and `d` finds it; it is not kept as a run.
2. `rejoin_late`: `CRejoinFeed.h:174-176` says of what a peer holds past the cut
   that "no client can have run it, as a beat runs only once every client holds
   it". `ApplyCut` (`CRejoinFeed.cpp:882`) ignores a cut behind what was run, and
   that case is reached: the restarter's acks from before its crash stay
   recorded until the cut arrives. If the cut to one peer is slower than the
   restarter's new beat to another and that peer's ack of it, the first counts
   the old beat as held by all, runs it, and the players part. It takes a link
   slower than the fetching and playing of the recording.
3. Seen in `Lockstep`, not kept as a run: an eject-pending client's last beat is
   run without the other survivors' acks for it (`IsReadyForBeat` passes over
   the stream one beat before `UpdateState` stops running it), which
   `CommandStreamCheck.h:25-27` excludes.
4. Seen in `NetChannel`, not kept as a run: a fragment past the receive window is
   dropped after its datagram was accepted, so it is acked and never resent
   (`ReliableStream.cpp:206`; `docs/NET_CHANNEL.md:45` has the sender's limit
   make it impossible). It needs a `receiveWindow` below the peer's
   `maxReliableInFlight`; with the limits in step, the bound on what is
   in flight in `TypeOK` holds and the case does not arise. This is the
   hypothesis of the theorem `AckedBytesAreHeld`.
5. Seen in `UdpConnection`: `ProcessAnswer` compares the nonce of an ANSWER
   (`CNetUDPConnection.cpp:606-607`), but `mNonceA` is only ever zeroed, so the
   comparison rejects nothing and a late ANSWER meant for a replaced connection
   is taken by the one that replaced it. The link then ends by time-out.
6. Seen in `UdpConnection`: packets carry nothing that names their connection, so
   a late CONNECT or GOODBYE of an old one fails a new one; and a GOODBYE
   acknowledges sequence 0, so an end whose own numbers are in the upper half
   refuses it as acknowledging the unsent and leaves by the end of the stream
   alone.

7. Seen in `SimDriver`: `ISTIDriver.h:200` says `RequestSaveGame` "enqueues".
   There is one slot; a second request replaces the first, which is never
   completed, and if the first was not yet written the issue of beats stays
   held (`NoSaveForgotten` fails with `OneAtATime = FALSE`).
8. Seen in `Rejoin` with `Prompt = FALSE`: `FinishCatchUp` skips what the
   recording covers among the messages it has held back so far; one that comes
   later is taken a second time (`BeatsTakenOnce` fails).
9. Seen in `Rejoin`: `CRejoinFeed.cpp:392` says "Every beat any client has run,
   every client holds". Once a seat has been retaken that need not hold for a
   moment: the restarter starts with every peer credited with all it rebuilt
   (`NoteAcks`), and an ack of the old stream that one peer sent another before
   the cut may be read after it. Either lets a beat run before somebody has it.
   What is run is the same everywhere (`RunsAgree`).
10. Seen in `Rejoin`: a second crash while a peer's serve still waits leaves two
    entries in `sPendingServes`; the second run is served twice, and the count
    of reports (`CRejoinFeed.cpp:379-390`) can be full with a peer missing.
    `Crash` is kept from that moment. A second crash after a complete return,
    with a cut still unread, is kept out for the same reason as in item 2.

## 7. What is proved

`LockstepProofs`, for every set of players, every bound and every set of
advance sizes:

| Theorem | Statement | In words |
|---|---|---|
| `TypeCorrect` | `Spec => []TypeOK` | |
| `AcksTrue` | `Spec => []AcksAreTrue` | nobody is recorded as holding what it does not hold |
| `BarrierHolds` | `Spec => []BeatBarrier` | an available beat is held by everyone not ejected, of every stream not ejected |
| `CountersInOrder` | `Spec => []AvailableIsFullyQueued` | the two counters keep their order |
| `EjectedSilent` | `Spec => []EjectedHaveNoSay` | an ejected player's requests are gone and stay gone |

They rest on `SessionAssumption` only (positive bounds, a `NoRequest` that is no
number).

*The argument.* `AcksAreTrue` alone is not inductive: an ack under way could be
false. `BarrierInv` adds that every `Ack` on a link, and every `Advance` with
the ack it carries, speaks of no more than its sender holds (`MessagesAreTrue`),
that only pending ejections are carried out (`EjectedArePending`), and the
barrier in terms of what a player itself knows (`AvailableIsAcked`), besides the
types. All together are inductive because `queued` only grows: an ack is written
with the value its sender holds at that moment, stays true as that grows, and is
recorded as it is. `BeatBarrier` follows from `AvailableIsAcked` and
`AcksAreTrue`: `StepCounters` makes beat `b + 1` available only if every
client's `IsReadyForBeat` says so, and for a client and a stream that are not
ejected that means an ack of `b + 1`, which is true; afterwards `queued` grows
and the set of players not ejected shrinks. `AvailableIsFullyQueued` needs
`NeverEjectsItself` besides (`CountersInv`): what `IsReadyForBeat` demands of
the client itself implies what `ClientNeedsFullyQueuedBeatsUntil` counts.
`EjectedHaveNoSay` is inductive with `NeverEjectsItself`: only an open link's
requests are filed, and a player's own are filed under itself.

And in the same module, under the same assumption:

| Theorem | Statement | In words |
|---|---|---|
| `StreamsNeverStarve` | `Spec => []StreamsKeepUp` | `UpdateState` never runs out of messages before its beat |
| `LockstepImplementsBarrier` | `Spec => ImplementsBarrier` | the clients implement `TurnBarrier` |

*The arguments.* Both count along a queue of advances, without a sum: a sequence
of advances leads from one beat to another if some function gives the beat
reached after each of them (`Leads`, `Carries`). `StreamInv` says that the pipe
of every client leads from what was drained to what is queued, in advances of a
beat or more, and that what is dispatched is available; the barrier then gives
`queued` beyond every available beat of a client not ejected, so the pipe holds
what `Dispatch` needs. `RefinementInv` adds `LinksCarry`: what a player holds of
another's stream, with the advances still on the link, is no more than the other
has queued itself. That is what makes each `ReceiveAdvance` a `Hold` of the
abstract machine; `Issue` is its `Write`, the `Dispatch` of an available beat
its turn (by `BeatBarrier`), the start of an ejection an exclusion, and the rest
stutters.

And, for one departure:

| Theorem | Statement | In words |
|---|---|---|
| `LastBeatOnly` | `OneLeaver /\ Spec => []SurvivorsDifferInLastBeat` | after one departure survivors differ in the leaver's last beat only |

`OneLeaver` says that one player at most ever leaves and that no link fails
between players who stay; any number of players, any lead and any advances.
Without it the statement is false (section 6, item 1). *The argument.*
`LastBeatInv` follows the leaver's stream from what a survivor `m` will never
hold. An `Eject` names the last beat its sender will ever hold, on its way
(`EjectsAreFinal`) and where it is filed (`RequestsAreFinal`): a link that is
closed is never read again. So a beat past what `m` holds becomes available to
another survivor only when it knows of some report no more than a beat later
(`AvailablePast`): before that it waits for `m`'s ack, which never comes, or for
`m`'s report, which is that beat. A stream that `Dispatch` drains stops at the
first report (`DrainStopsAtTheReport`), hence `DrainedPast`: nobody runs the
leaver's orders more than a beat past what any survivor holds. One who has
ended the stream earlier ended it at a report (`EndedWhereAsked`). What is left
is an advance of several beats that crosses a report: it cannot, because a
stream is cut into advances at the same beats in every pipe and on every link
(`StreamsAreCutAlike`), and what a survivor holds, and so reports, ends at such
a cut.

`PlaybackProofs`, for any number of players and beats, any departures, any
keyframe, any lead of the viewer, and any way the record reaches the reader:

| Theorem | Statement | In words |
|---|---|---|
| `SourcesStayInStep` | `Spec => []SourcesInStep` | manager and sim agree about the source; orders run as their sender's |
| `PlaybackRunsAlways` | `Spec => []PlaybackRunsTheGame` | the playback runs what the game ran; each source ends once |

They rest on `SourceAssumption` (the sources are numbered from 0, and 0xFF is
none of them) and `PlaybackAssumption`. *The argument.* Two sims are to agree
that share nothing but the record, so both are compared with the record itself,
read one message at a time: `Course(t)` gives, after each message of `t`, the
source it is at, the sources that have not ended, the beats that are over and the
one that is not. A record is `Sound` when each message fits its place: only a
source that has not ended is announced, sends or ends, and it sends under its
own name. `GameInv` says that the record is sound, that its reading ends where
the manager and the sim are, and that what the sim ran is what it reads; the
streams of a beat keep that message by message, each client in turn
(`DrainFollows`, `EndStreamFollows`, `MergeFollows`). Before anything is played
the session is as `Init` or `SetUp` leaves it: `SkipReads` shows that the skipped
messages leave the gate the reading has at the keyframe, so that what those beats
ended stays ended. From then on there is a place `x` in the record (`PlaysFrom`)
where the replay client's gate is the reading's (an announced source that has
ended counts as none, `Alias`), its pipe holds the record from `x` to where
`Start` has read (`Piped`: `Take` drops nothing of a sound record), and every
beat played is the reading's. `Echoes` carries this through a beat of the
playback; `first` and `quiet` are why the reports before the first
source are the one difference allowed. At the end of the record the pipe holds
the end of the game or nothing, and `EndStreamRan` ends the sources that are
left. The viewer's client, whose only source is no source,
adds nothing (`ViewerAddsNothing`). While the game goes on its record only grows
at the end, and a place in it keeps its reading (`GameGoesOn`).

The functions of `CommandGate` and `Playback` that go through a sequence are
recursive functions over its indices: that what they yield after each element
exists, and comes from the one before, is proved once for each (`DrainTrace`,
`EndStreamSteps`, `RunSteps`, `CourseSteps`, `SkipSteps`, `TakeTrace`,
`OrdersSteps`), by the least index where it could fail (`LeastNumber`,
`CountUp`), and the inductions over a beat are of a set of indices.

`SpeedVoteProofs`, for every set of players, every range of rates and every
bound:

| Theorem | Statement | In words |
|---|---|---|
| `TypeCorrect` | `Spec => []TypeOK` | also: a speed asked for is in the controls' range |
| `OneStamp` | `Spec => []OneStampOneSpeed` | same clock and requester, same speed |

They rest on the three assumptions of `SpeedVote`. *The argument.* A player
numbers a request one past the clock it holds. `StampInv` says that this is past
every request of its own that is under way (`AskedBefore`) or held by anybody
(`HeldBefore`), so no stamp is used twice; that copies of one request agree
(`AskedOnce`), and agree with those who already took it (`AskedAsHeld`). Links
only lose or give up what was on them, which all five survive.

And in the same module, under the same assumptions:

| Theorem | Statement | In words |
|---|---|---|
| `OneRate` | `Spec => []SameRateWhenQuiet` | when all is heard, all issue at one rate, if whoever asked last is there |

*The argument.* The rate is made of the speed asked for and of the reports.
`RequestsReachAll`: a request of a living player is no newer than what a player
holds, or is on its way to it; so with empty links all hold the newest stamp,
and by `OneStampOneSpeed` the same speed. `ReportsReachAll`: the last report on
a link, or without one the report held, is what its sender says of itself.
`LeaversAreDropped`: who left is dropped, or the notice is on its link, so with
empty links the rates are taken over the same players.

`NetChannelProofs`, for every ring, reach of the acks, limit, owner and network:

| Theorem | Statement | In words |
|---|---|---|
| `TypeCorrect` | `Spec => []TypeOK` | also: counters keep their order, and what is in flight its limit |
| `NothingIsForgotten` | `Spec => []NothingForgotten` | a byte sent and not acked is in flight or queued to go again |
| `OnlyTheOwedIsSent` | `Spec => SendsOnlyWhatIsOwed` | a datagram takes bytes from the buffer, and none acked |
| `AckedBytesAreHeld` | `Roomy /\ Spec => []AckedIsHeld` | what is counted as acked, the peer has |
| `HandedOutOnce` | `Spec => []HandedAtMostOnce` | no repeated, late or reordered datagram hands a message out again |

They rest on `ChannelAssumption`. `Roomy` is `MaxInFlight <= HoldLimit`, which
the code's limits give four times over (256 KiB and 1 MiB) and without which
`AckedIsHeld` is false (section 6, item 4).

*The argument.* `NetChannelLemmas` says what each function of the code does,
apart from any state: that a sequence the ring has taken is not new again, and
that the ring reports only what it took; that the runs of a set of bytes cover
it; that acks and losses move bytes between acked, lost and in flight and drop
none; that a payload is taken from what is owed; that the receiving half drops
nothing it has. The recursive definitions among them are functions over finite
sets; a set of numbers has a least
member (`LeastNumber`), and from that come the inductions used
(`SubsetsInduct`, `FoldExists`), each stated of a set and not of an operator.
`NetChannelProofs` takes a step apart once (`PollCases`, `ReceiveCases`,
`StepCases`) and then carries four invariants through it.
`BookInv` is types and books: sequences and message numbers on the way were
given out by their sender, fragments lie below what it sent, no byte is both
acked and lost, and no more of the buffer is dropped than the acked prefix.
`OwedInv` is `NothingForgotten` of one sending half.
`HeldInv` joins the two ends: a byte acked is held; if the peer's window
reports a sequence then the peer has all that the sender remembers it for
(`LinkHeld`); a datagram on its way covers what it is remembered for and its
receiver has room for it (`Carried`, where `Roomy` is used); an ack on its way
is of a datagram whose bytes are held (`AcksTrue`). All four only get truer
with time: the receiver forgets nothing, a sequence is given out once.
`OnceInv` is why nothing is handed out twice: a message of the lane that is out
is known to the lane's own window (`LaneKnows`); an unreliable one is in one
datagram only (`OneSequence`), which its receiver's window has seen
(`WindowKnows`), and is not waiting to be sent again (`LooseHasLeft`).

`UdpConnectionProofs`, for any two ends, window, mask, sequence space and bounds:

| Theorem | Statement | In words |
|---|---|---|
| `OneLiveConnectionAlways` | `Spec => []OneLiveConnection` | one connection to a peer at most has not failed |
| `OneLiveConnectionStays` | `TransferSpec => []OneLiveConnection` | the same of a link established already |
| `TypesAlways` | `Spec => []TypeOK` | numbers wrap, input stops at its bound, early packets go with the end |
| `TypesStay` | `TransferSpec => []TypeOK` | the same of a link established already |
| `NothingIsForgotten` | `TransferSpec /\ []Recent => []AckedIsHeld` | what the sender lets go of the receiver has; a goodbye comes after the end |
| `LinkIsOrdered` | `TransferSpec /\ []Recent => ImplementsLink` | both directions implement `OrderedLink` |
| `ShortLinkIsRecent` | `ShortLink` gives `TransferSpec => []Recent` | few messages, no late packets |
| `ShortLinkForgetsNothing` | `ShortLink` gives `TransferSpec => []AckedIsHeld` | |
| `ShortLinkIsOrdered` | `ShortLink` gives `TransferSpec => ImplementsLink` | |

They rest on the assumptions of `UdpConnection` (two ends; a sequence space of
even size, 2^16 in the code; a window of which one more is less than half of it,
at most 4096 in the code) and on `EndsAssumption`, which only names the ends.
`Recent` says of the network that no packet arrives when its receiver is more
than half the sequence space, 32768 packets, past a number it bears: a signed
16-bit difference tells no more than that. It cannot be dropped: with a window
of 0, four sequence numbers and five messages TLC finds `AckedIsHeld` and
`ImplementsLink` violated, by packets of the round of numbers before. It is a
hypothesis about the network and not about the code, so the last three theorems
do without it: on a link of fewer messages than half the sequence space
(`ShortLink`, as both runs have it) every network keeps it.

*The argument: one live connection.* `Inv` adds to the property only that connections are functions
with a state (`Shape`). Everything a connection's own thread or a packet does to
it either leaves its state live or fails it (`ProcessedHasState`,
`FailingIsSound`), so no step but `Connect` and `ReceiveConnect` could add a live
one; and each of them makes one only when it has failed every other: `Connect`
after `Replaced`, `ReceiveConnect` when nobody takes the packet, in which case
each live connection has been passed it and failed.

*The argument: types.* `TypeOK` is not inductive: `Typed` adds what fields,
packets and logs hold. `TypeOK` used to say that any connection whose input has
ended has nothing early. `Typed` was not inductive with that, and it is false: a
newer CONNECT, or a late GOODBYE of another connection, makes a connection fail
while packets wait early, and `AbortInput` leaves them. On an established link,
where the run checks `TypeOK`, neither comes. It now says it of connections that
have not failed.

*The argument: the link.* The program knows a packet by 16 bits; the proof
counts. `Num(n)` is the number that packet `n` bears, and `DeltaNum` says that
`Delta` of two such numbers is the difference of what they count as long as this
fits into half the space. `Direction` is the invariant of one direction of a
link, of the connections, logs and packets on its two sides: a sender's fields
stand for what was written (`SenderOK`), its unacked packets are within the
window past what the peer is known to have (`WindowOK`); a receiver's stand for
what it was sent, and what waits early is ahead of it, within the window and
once (`ReceiverOK`); what the receiver has was sent, and what was sent and it
does not have is unacked (`PairOK`); a packet of data under way is one that was
written, not past the receiver's window, and a header acknowledges what is there
and nothing else (`NetOK`). From these the differences that are computed are
small enough: of a DATA packet against the expected number by `Recent` on the
one side and the window on the other, of an acknowledgement against what was
sent likewise. Each thing an end can do — send anew or again, acknowledge, take
any packet, write, close, hand out — is a lemma about `Link`, both directions
together, that names neither end; `TransferInv` says that the two first
connections are such a link (`At`), that every other connection of the lists
never sent (`Lists`, `Spare`), and that no handshake comes any more (`Wires`,
`Late`: one would replace the connections). For the refinement `LogsNext` says
what a step can do to the logs: an end writes, closes, or is handed what waits
for it; `LogOK` of the next state gives that this is the next part of what was
written, and `ReceiverOK` that the end of the input is told after all of it.

`SimDriverProofs`, for every length of the queue, every pacing, and any number of
beats, saves, pauses and tools:

| Theorem | Statement | In words |
|---|---|---|
| `OneInTheSim` | `Spec => []SimExclusive` | one thread at a time runs, publishes, saves or uses the sim |
| `TypeCorrect` | `Spec => []TypeOK` | also: what `mOutstandingRequests` counts |
| `DistanceKept` | `Spec => []BeatsKeepTheirDistance` | no beat runs before it is there, none is issued past the pacing |
| `PacketsFollow` | `Spec => []PacketsInOrder` | packets are of consecutive beats |
| `SavesKept` | `Spec => []NoSaveForgotten` | saves are pending or made |

They assume `OneAtATime` (the callers ask for no save and open no tool during a
save; without it `OneInTheSim` and `SavesKept` are false) and the two
assumptions of `SimDriver`. *The argument.* `SimExclusive` speaks of places, the
code decides by `mState`, `mInterlockedMode` and the save request. `Owners`
joins them: a beat of the sim thread shows as `WaitingForMainThread`, one of
the main thread in the interlock, held while tools are open; a save shows in a
request that is not made yet, which keeps tools out; before the first packet
there is nothing to open a tool on. With `SimExclusive` it is inductive
(`ExclusionKept`). Over it stand three books. `SaveBooks` relates the count,
the request and the archives. `BeatBooks` orders dispatched, available and
issued beats and the queue, with the one exception that the main thread leaves
`Dispatching` in place while it runs the beat. `PacketBooks` carries the order
of packets through the end of a session, where a second `ShutDown` may come
after a first that found no sim.

`RejoinProofs`, for any players, any recorder among them, any lead, any number of
beats, of crashes and of orders given meanwhile:

| Theorem | Statement | In words |
|---|---|---|
| `TypeCorrect` | `Prompt /\ Spec => []TypeOK` | also: nobody runs what it has not counted |
| `RunTheSame` | `Prompt /\ Spec => []RunsAgree` | two players ran the same messages in every beat both have run |
| `TakenOnce` | `Prompt /\ Spec => []BeatsTakenOnce` | no beat is at another place, none is joined of two runs |
| `CutCanBeTaken` | `Prompt /\ Spec => []CutsFit` | every peer can go back to the cut it is told |

They rest on `RejoinAssumption` and on `Prompt`, that no link is slower than the
recording's way round, without which `CutsFit` and `BeatsTakenOnce` are false
(section 6, items 2 and 8). *The argument.* `Leads(p, l, q)` says that the
messages `l`, read one by one from a place `p` in a stream, beats and an
unfinished beat, lead to `q`, each message naming the beat it is read in. The
invariant has three parts besides the types. `StreamInv` is about streams:
what a player holds of another's leads, by what is on its way, to what the
other holds itself (`FlowInv`); a peer's report does the same
(`BacklogInv`), so that what the recording and two backlogs give, less the
messages they already hold, leads on to the live stream again (`LeadsSkip`,
`PeerRebuilt`: the step `FinishCatchUp` is about); and while the restarter is
away there is one stream of its old run, of which every peer holds a beginning
or will when it has read what is on its way (`OldInv`). `AckInv` is about acks.
What makes a cut one that everybody can take is a *floor*: a beat that every
peer holds and at which some peer ends that expects nothing more and of whom
nobody believes more (`Floor`). Nobody can have counted, or run, past it. As
long as all acks of the old stream are true, the peer that ends first is such
a floor when the reports are in (`SettledFloor`); the cut is one from then on,
and going back to it leaves it one although acks past it, of peers yet to go
back, stay false for a while (`CutKeepsFloor`, `TruthInv`); a second crash and a
second settlement therefore find the same cut. `RunInv` and `HeldInv` give the
restarter enough acks, as it comes back, for the beats its recorder had run.

*Only model-checked:* `RangesStandForSets`. *Out of the prover's reach:* the
liveness properties
(`SurvivorsProgress`, `PlaybackEnds`, `EverythingArrives`, `GameGoesOn`,
`ShutDownEnds`, `WrittenArrives`, `ClosingEnds`) and `ENABLED`, so
`NobodyIsStuck` of `Rejoin`; and what the recursive operators of `RangeSet`
compute, since the library's induction theorems take an operator as a parameter.
The recursive functions of the other modules, over finite sets of numbers and
indices of sequences, could be reasoned about without those.

## 8. Repeating it

In this directory: `tlc -workers 2 -config X.cfg M` for each pair in
`PROJECT.json`, and `tlapm M.tla` for each module `*Proofs.tla` and `NetChannelLemmas.tla`.
