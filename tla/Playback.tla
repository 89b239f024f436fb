------------------------------ MODULE Playback ------------------------------
(***************************************************************************)
(* A game, the record CDecoder keeps of it and its playback by             *)
(* CReplayClient, possibly while the game is still being recorded and      *)
(* possibly from a keyframe (SkipBeats).                                   *)
(*                                                                         *)
(* The game is the merge of Lockstep's streams seen at one player, a beat  *)
(* per step.  The playback is the manager of a replay session: client 0 is *)
(* the CReplayClient, client 1 the viewer's CLocalClient, which owns the   *)
(* source 0xFF.  Its issue thread, sim thread and replay thread take       *)
(* mLock for each of the actions below.                                    *)
(***************************************************************************)
EXTENDS CommandGate, FiniteSetsExt

CONSTANTS
    MaxBeat,    \* bound: beats of the recorded game
    MaxSkip,    \* bound: beats skipped to a keyframe
    MaxLead,    \* beats the viewer issues ahead of those dispatched
    Kind,       \* what a stream may carry in a beat
    Chunk       \* how many messages of the record reach the reader at once

ASSUME PlaybackAssumption ==
    /\ MaxBeat \in Nat /\ MaxSkip \in Nat
    /\ MaxLead \in Nat \ {0}
    /\ Kind \subseteq {"nothing", "order", "report"}
    /\ Chunk \subseteq Nat \ {0}

VARIABLES
    gates,      \* each player's client in the recorded game
    last,       \* mLastEmittedCommandSource of its manager
    current,    \* mCurCommandSource of its sim
    ran,        \* what each beat ran
    tape,       \* the record: every dispatched message
    over,       \* the game has ended, the record is complete
    arrived,    \* messages of the record the reader has got
    start,      \* the beat playback starts after; -1 before it is set up
    position,   \* messages of the record taken by Start or SkipBeats
    allowed,    \* mCurrentSourceAllowed
    reading,    \* mReplayStream is open
    polling,    \* mReplayPollRequested
    replay,     \* the CReplayClient's gate
    pipe,       \* its mPipe
    queued,     \* its mQueuedBeat
    drained,    \* its mDispatchedBeat
    closing,    \* its mEjectPending
    closed,     \* its mEjected
    credited,   \* its mLatestAckReceived for the viewer
    viewer,     \* the viewer's gate
    viewerPipe, \* the viewer's mPipe: one segment per beat
    issued,     \* the viewer's mQueuedBeat
    available,  \* mAvailableBeat
    seen,       \* mLastEmittedCommandSource of the playback's manager
    decoded,    \* mCurCommandSource of the playback's sim
    played      \* what each beat of the playback ran

gameVars == <<gates, last, current, ran, tape, over>>
readVars == <<position, allowed, reading, polling, pipe, queued, closing>>
viewVars == <<viewer, viewerPipe, issued>>
runVars == <<replay, drained, closed, seen, decoded, played>>
vars == <<gameVars, arrived, start, readVars, credited, available, viewVars, runVars>>

Ended(p) == gates[p].valid = {}

(* mDispatchedBeat of the playback's manager, which runs each beat it counts.*)
dispatched == Len(played)

Init ==
    /\ gates = [p \in Player |-> Gate(p, {p})]
    /\ last = NoSource
    /\ current = NoSource
    /\ ran = <<>>
    /\ tape = <<>>
    /\ over = FALSE
    /\ arrived = 0
    /\ start = -1
    /\ position = 0
    /\ allowed = FALSE
    /\ reading = TRUE
    /\ polling = FALSE
    /\ replay = Gate(NoSource, Player)
    /\ pipe = <<>>
    /\ queued = 0
    /\ drained = 0
    /\ closing = FALSE
    /\ closed = FALSE
    /\ credited = 0
    /\ viewer = Gate(NoSource, {NoSource})
    /\ viewerPipe = <<>>
    /\ issued = 0
    /\ available = 0
    /\ seen = NoSource
    /\ decoded = NoSource
    /\ played = <<>>

-----------------------------------------------------------------------------
(* The recorded game.                                                        *)

(* UpdateStates: every client in turn, ended or drained of one beat.  The    *)
(* first beat of a stream opens with the driver's own claim.                 *)
MergeBeat(segments, leavers) ==
    LET Opening(p) == IF ran = <<>> THEN <<Source(p)>> ELSE <<>>
        Client(acc, p) ==
          IF Ended(p) THEN acc
          ELSE LET r == IF p \in leavers
                        THEN EndStream(gates[p], acc.merged)
                        ELSE Drain(gates[p], acc.merged, ran = <<>>,
                                   Opening(p) \o segments[p])
               IN  [gates |-> [acc.gates EXCEPT ![p] = r.gate], merged |-> r.merged]
        acc[n \in 0 .. Players] ==
          IF n = 0 THEN [gates |-> gates, merged |-> Merged(<<>>, last)]
          ELSE Client(acc[n - 1], n - 1)
    IN  acc[Players]

(* A beat of the game.  The recording player does not end its own stream.    *)
GameBeat(segments, leavers) ==
    LET beat == MergeBeat(segments, leavers)
        sim == RunBeat(current, beat.merged.out)
    IN  /\ ~over
        /\ Len(ran) < MaxBeat
        /\ \E p \in Player : ~Ended(p) /\ p \notin leavers
        /\ gates' = beat.gates
        /\ last' = beat.merged.last
        /\ current' = sim.current
        /\ ran' = Append(ran, sim.ran)
        /\ tape' = Append(tape \o beat.merged.out, Advance)
        /\ UNCHANGED <<over, arrived, start, readVars, credited, available, viewVars, runVars>>

GameOver ==
    /\ ~over
    /\ ran # <<>>
    /\ over' = TRUE
    /\ UNCHANGED <<gates, last, current, ran, tape, arrived, start, readVars, credited,
                   available, viewVars, runVars>>

(* The record reaches the reader, who may see part of a beat.                *)
Arrive(n) ==
    /\ arrived < Len(tape)
    /\ arrived' = IF arrived + n <= Len(tape) THEN arrived + n ELSE Len(tape)
    /\ UNCHANGED <<gameVars, start, readVars, credited, available, viewVars, runVars>>

-----------------------------------------------------------------------------
(* SkipBeats.                                                                *)
FaultySkipMessage(st, msg) ==
    IF msg.op = "Source"
    THEN LET ok == msg.by \in st.valid
         IN  [st EXCEPT !.allowed = ok, !.id = IF ok THEN msg.by ELSE NoSource]
    ELSE st

SkipMessage(st, msg) ==
    IF msg.op = "Source"
    THEN LET ok == msg.by \in st.valid
         IN  [st EXCEPT !.allowed = ok, !.id = IF ok THEN msg.by ELSE NoSource]
    ELSE IF msg.op = "Terminated" /\ st.allowed /\ st.id # NoSource
    THEN [st EXCEPT !.valid = @ \ {st.id}, !.id = NoSource]
    ELSE st

(* Where the beats end in the part of the record the reader has.             *)
BeatEnds == {k \in 1 .. arrived : tape[k] = Advance}

Advances(k) == Cardinality({i \in BeatEnds : i <= k})

(* What the first k messages of the record leave.                            *)
Skip(k) ==
    LET st[n \in 0 .. k] ==
          IF n = 0 THEN [id |-> replay.id, valid |-> replay.valid, allowed |-> allowed]
          ELSE SkipMessage(st[n - 1], tape[n])
    IN  st[k]

(* The session is set up at beat n: SkipBeats reads n beats, and nothing of  *)
(* the record when it starts at the beginning.                               *)
SetUp(n) ==
    /\ start = -1
    /\ \E k \in {0} \cup BeatEnds :
         /\ Advances(k) = n
         /\ LET st == Skip(k)
            IN  /\ replay' = Gate(st.id, st.valid)
                /\ allowed' = st.allowed
                /\ position' = k
    /\ start' = n
    /\ UNCHANGED <<gameVars, arrived, reading, polling, pipe, queued, closing, credited,
                   available, viewVars, drained, closed, seen, decoded, played>>

-----------------------------------------------------------------------------
(* Start: read the record through the next end of a beat.                    *)

ReadRecord(st, msg) ==
    LET ok == IF msg.op = "Source" THEN msg.by \in replay'.valid ELSE st.allowed
    IN  IF msg.op = "Advance" \/ ok
        THEN [st EXCEPT !.allowed = ok, !.pipe = Append(@, msg)]
        ELSE [st EXCEPT !.allowed = ok]

(* Where Start stops: after the next advance, or where the data ends.        *)
Stop ==
    LET next == {k \in BeatEnds : k > position}
    IN  IF next = {} THEN arrived ELSE Min(next)

(* The next k messages of the record, after the pipe p.                      *)
Take(p, k) ==
    LET st[n \in 0 .. k] ==
          IF n = 0 THEN [allowed |-> allowed, pipe |-> p]
          ELSE ReadRecord(st[n - 1], tape[position + n])
    IN  st[k]

(* What Start does given the pipe it finds, p.                               *)
StartReading(p) ==
    LET st == Take(p, Stop - position)
        whole == Stop > position /\ tape[Stop] = Advance
        atEnd == ~whole /\ over /\ arrived = Len(tape)
    IN  /\ position' = Stop
        /\ allowed' = st.allowed
        /\ pipe' = IF atEnd THEN st.pipe \o <<EndGame, Advance>> ELSE st.pipe
        /\ queued' = IF whole \/ atEnd THEN queued + 1 ELSE queued
        /\ reading' = ~atEnd
        /\ closing' = atEnd
        /\ polling' = (~whole /\ ~atEnd)

Start(p) ==
    IF reading /\ ~polling /\ queued <= drained'
    THEN StartReading(p)
    ELSE pipe' = p /\ UNCHANGED <<position, allowed, reading, polling, queued, closing>>

-----------------------------------------------------------------------------
(* The replay session's threads.                                             *)

(* Issue thread: the viewer's stream advances.  CReplayClient::Process       *)
(* credits the viewer and goes on reading.                                   *)
FaultyCredit == credited

Credit == credited + 1

Issue(segment) ==
    /\ start # -1
    /\ issued < dispatched + MaxLead
    /\ issued < MaxBeat + 2
    /\ issued' = issued + 1
    /\ viewerPipe' = Append(viewerPipe,
                            (IF issued = 0 THEN <<Source(NoSource)>> ELSE <<>>) \o segment)
    /\ credited' = Credit
    /\ UNCHANGED <<gameVars, arrived, start, available, viewer, runVars>>
    /\ Start(pipe)

(* IsReadyForBeat of the two clients.                                        *)
Ready(b) ==
    /\ closing \/ (queued >= b /\ credited >= b)
    /\ queued >= b \/ closing
    /\ issued >= b

(* Issue thread: DoBeat steps the available beat, then reads on.             *)
DoBeat ==
    /\ start # -1
    /\ \E a \in available .. issued :
         /\ \A b \in available + 1 .. a : Ready(b)
         /\ ~Ready(a + 1)
         /\ available' = a
    /\ UNCHANGED <<gameVars, arrived, start, credited, viewVars, runVars>>
    /\ Start(pipe)

(* The part of the pipe through its first advance.                           *)
FirstBeat == CHOOSE n \in 1 .. Len(pipe) :
                pipe[n] = Advance /\ \A i \in 1 .. n - 1 : pipe[i] # Advance

(* UpdateState of the replay client for the next beat.                       *)
Ends == ~closed /\ drained < dispatched + 1 /\ closing /\ drained >= queued

Plays == ~closed /\ drained < dispatched + 1 /\ ~Ends

UpdateReplay(merged) ==
    IF Ends THEN EndStream(replay, merged)
    ELSE IF Plays THEN Drain(replay, merged, drained = 0, SubSeq(pipe, 1, FirstBeat - 1))
    ELSE [gate |-> replay, merged |-> merged]

(* Sim thread: UpdateStates for an available beat.  The viewer's client      *)
(* comes second, and the CLIMSG_Dispatched it sends makes Start read on.     *)
Dispatch ==
    LET first == UpdateReplay(Merged(<<>>, seen))
        second == Drain(viewer, first.merged, dispatched = 0, Head(viewerPipe))
        sim == RunBeat(decoded, second.merged.out)
    IN  /\ start # -1
        /\ dispatched < available
        /\ replay' = first.gate
        /\ drained' = IF Plays THEN drained + 1 ELSE drained
        /\ closed' = (closed \/ Ends)
        /\ viewer' = second.gate
        /\ viewerPipe' = Tail(viewerPipe)
        /\ seen' = second.merged.last
        /\ decoded' = sim.current
        /\ played' = Append(played, sim.ran)
        /\ UNCHANGED <<gameVars, arrived, start, credited, available, issued>>
        /\ Start(IF Plays THEN SubSeq(pipe, FirstBeat + 1, Len(pipe)) ELSE pipe)

(* The replay thread finds data, or the end of the record.                   *)
ReplayThread ==
    /\ polling
    /\ position < arrived \/ (over /\ arrived = Len(tape))
    /\ polling' = FALSE
    /\ UNCHANGED <<gameVars, arrived, start, position, allowed, reading, pipe, queued,
                   closing, credited, available, viewVars, runVars>>

-----------------------------------------------------------------------------
Next ==
    \/ \E kinds \in [Player -> Kind], leavers \in SUBSET Player :
          GameBeat([p \in Player |-> Segment(kinds[p], p)], leavers)
    \/ GameOver
    \/ \E n \in Chunk : Arrive(n)
    \/ \E n \in 0 .. MaxSkip : SetUp(n)
    \/ \E kind \in Kind : Issue(Segment(kind, NoSource))
    \/ DoBeat
    \/ Dispatch
    \/ ReplayThread

Spec == Init /\ [][Next]_vars

(* Some thread that can take a step does: the issue thread, woken by the     *)
(* event the replay thread signals, the sim thread, and the replay thread.   *)
(* Their steps are those that leave the game, the reader's share and the     *)
(* start alone; Runnable says that one of them would change something, so    *)
(* that ThreadsRun is the threads' weak fairness.  What is recorded reaches  *)
(* the reader.  Nothing makes the game go on or end.                         *)
Runnable ==
    \/ polling /\ (position < arrived \/ (over /\ arrived = Len(tape)))
    \/ /\ start # -1
       /\ \/ issued < dispatched + MaxLead /\ issued < MaxBeat + 2
          \/ Ready(available + 1)
          \/ dispatched < available
          \/ reading /\ ~polling /\ queued <= drained

ThreadStep == UNCHANGED <<gameVars, arrived, start>>
ThreadsRun == ([]<>~Runnable) \/ ([]<><<ThreadStep>>_vars)

Fairness ==
    /\ WF_vars(\E n \in Chunk : Arrive(n))
    /\ WF_vars(\E n \in 0 .. MaxSkip : SetUp(n))
    /\ ThreadsRun

FairSpec == Spec /\ Fairness

-----------------------------------------------------------------------------
(* The orders of a beat: everything but the checksum reports.                *)
Orders(beat) ==
    LET kept[n \in 0 .. Len(beat)] ==
          IF n = 0 THEN <<>>
          ELSE IF beat[n].op = "Checksum" THEN kept[n - 1] ELSE Append(kept[n - 1], beat[n])
    IN  kept[Len(beat)]

(* Source s ends at most once in a sequence of beats.                        *)
EndsOnce(s, beats) ==
    LET EndsAt(b, e) == beats[b][e].op = "Terminated" /\ beats[b][e].source = s
    IN  \A b, c \in DOMAIN beats : \A e \in DOMAIN beats[b], f \in DOMAIN beats[c] :
            EndsAt(b, e) /\ EndsAt(c, f) => b = c /\ e = f

(* Each source does, counting the skipped beats and what was played.         *)
EachSourceEndsOnce == \A s \in Player : EndsOnce(s, SubSeq(ran, 1, start) \o played)

(* Playback runs the recorded game: the same orders, under the same sources, *)
(* beat for beat from where it starts, and the same checksum reports except  *)
(* those before the first advance of a record that names no source yet; past *)
(* the record it only ends the game and its sources, each of which ends once.*)
(* The viewer adds nothing.  (UpdateState restores its gate after a source   *)
(* has ended: the [DELIBERATE-FIX] of its comment.)                          *)
PlaybackRunsTheGame ==
    /\ EachSourceEndsOnce
    /\ \A b \in DOMAIN played :
          IF start + b \in DOMAIN ran
          THEN IF b = 1 THEN Orders(played[b]) = Orders(ran[start + b])
               ELSE played[b] = ran[start + b]
          ELSE \A e \in DOMAIN played[b] : played[b][e].op \in {"EndGame", "Terminated"}

(* A player's orders run under its own source, the game's merge of several   *)
(* streams through one announced source notwithstanding: the source a        *)
(* manager announces only when it changes is the one its sim is at, in the   *)
(* game and in the playback; neither loses track of the other.               *)
SourcesInStep ==
    /\ last = current /\ seen = decoded
    /\ \A b \in DOMAIN ran : \A e \in DOMAIN ran[b] :
          ran[b][e].op \in {"Order", "Checksum"} => ran[b][e].source = ran[b][e].by

(* Playback never waits for itself: once the record is complete it comes to  *)
(* its end and every source has ended, wherever it stood waiting for data.   *)
PlaybackEnds == over ~> (closed /\ replay.valid = {})

=============================================================================
