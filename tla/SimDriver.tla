------------------------------ MODULE SimDriver ------------------------------
(***************************************************************************)
(* CSimDriver: three threads around one sim.                               *)
(*                                                                         *)
(* The sim thread (ThreadCreateSim) creates the sim and runs its beats, the *)
(* issue thread (ThreadRun) decides when the next beats are issued, and    *)
(* the main thread takes the packets the sim publishes, asks for saves,    *)
(* opens tools that use the sim, and shuts everything down.                *)
(*                                                                         *)
(* An action is what a thread does while it holds mLock.  Running beats,   *)
(* publishing (Sync), saving, and waiting all happen without it; the       *)
(* thread's place says which.  mLastSyncCycleTime and the clock are        *)
(* abstracted: a beat becomes due whenever the pacing allows it.  The      *)
(* issue thread's wait always times out, so its event is left out.         *)
(***************************************************************************)
EXTENDS Integers, Sequences, FiniteSets

CONSTANTS
    QueueCap,     \* kMaxQueuedSyncPacketsBeforeStalling
    BusyAhead,    \* kMaxBeatsAheadOfExecuted
    FastLead,     \* kFastForwardLeadBeats
    Lead,         \* SessionLeadBeats: 0 in network games
    CatchUp,      \* kMaxCatchUpBeats
    OneAtATime,   \* no save is asked for, and no tool opened, while a save is under way
    MaxBeat,      \* bound: beats issued
    MaxUses       \* bound: saves asked for, pauses and tools opened in all

ASSUME PacingAssumption ==
    /\ QueueCap \in Nat \ {0} /\ BusyAhead \in Nat /\ FastLead \in Nat
    /\ Lead \in Nat /\ CatchUp \in Nat
ASSUME BoundsAssumption ==
    /\ OneAtATime \in BOOLEAN
    /\ MaxBeat \in Nat /\ MaxUses \in Nat

VARIABLES
    state,          \* mState
    sim,            \* where the sim thread is
    issue,          \* where the issue thread is; "none" while mSimThread is null
    main,           \* where the main thread is
    created,        \* mSim exists
    stopIssue,      \* mStopSimThread
    stopCreate,     \* mStopCreateSimThread
    interlocked,    \* mInterlockedMode
    tools,          \* mInterlockRefCount
    saveRequest,    \* mSaveGameRequest, the number of the request; 0 when null
    wantsToSave,    \* mWantsToSave
    outstanding,    \* mOutstandingRequests
    synced,         \* mLastSyncCycleTime is not 0
    busy,           \* mSimBusy: the game is paused or over
    queue,          \* mSyncDataQueue: the beats of its packets
    lastDequeued,   \* mLastDequeuedBeat
    dispatchBeat,   \* mDispatchBeat
    nextIssueBeat,  \* mNextIssueBeat
    available,      \* the client manager's available beat
    started,        \* the hold on issuing of the session's start is released
    paused,         \* the replay is paused
    used,           \* saves, pauses and tools so far
    archived,       \* requests whose archive holds the sim
    completed       \* requests whose Save was called

threads == <<state, sim, issue, main, created, stopIssue, stopCreate>>
modes == <<interlocked, tools, started, paused>>
saves == <<saveRequest, wantsToSave, archived, completed>>
pacing == <<outstanding, synced, busy>>
beats == <<queue, lastDequeued, dispatchBeat, nextIssueBeat, available>>

vars == <<threads, modes, saves, pacing, beats, used>>

Init ==
    /\ state = "Startup"
    /\ sim = "creating" /\ issue = "none" /\ main = "frame"
    /\ created = FALSE /\ stopIssue = FALSE /\ stopCreate = FALSE
    /\ interlocked = FALSE /\ tools = 0
    /\ saveRequest = 0 /\ wantsToSave = FALSE
    /\ outstanding = 1 /\ synced = FALSE /\ busy = FALSE
    /\ queue = <<>> /\ lastDequeued = -1
    /\ dispatchBeat = 1 /\ nextIssueBeat = 1 /\ available = 0
    /\ started = FALSE /\ paused = FALSE
    /\ used = [saves |-> 0, pauses |-> 0, tools |-> 0]
    /\ archived = {} /\ completed = {}

-----------------------------------------------------------------------------
(* A thread keeps the lock from one turn of its loop to the next.            *)
LockFree == sim # "loop" /\ main # "loop"

(* mStateChanged.notify_all: the sim thread is the only one that waits.      *)
Notified == IF sim = "waiting" THEN "woken" ELSE sim

FaultyFinish == outstanding

(* --mOutstandingRequests, which stamps mLastSyncCycleTime as it reaches 0.  *)
Finish == outstanding - 1

SaveDue ==
    /\ saveRequest # 0
    /\ ~wantsToSave
    /\ state \in {"Dispatching", "Ready"}

(* PreparePendingSaveRequestLocked: the archive is filled without the lock.  *)
StartSaving ==
    /\ archived' = archived \cup {saveRequest}
    /\ UNCHANGED <<saveRequest, wantsToSave, completed>>

FaultySavingEnds ==
    /\ wantsToSave' = TRUE
    /\ outstanding' = Finish
    /\ synced' = (synced \/ Finish = 0)
    /\ saveRequest' = 0
    /\ UNCHANGED <<archived, completed, busy>>

SavingEnds ==
    /\ wantsToSave' = TRUE
    /\ outstanding' = Finish
    /\ synced' = (synced \/ Finish = 0)
    /\ UNCHANGED <<saveRequest, archived, completed, busy>>

(* FinalizeSyncDispatchLocked, once Sync has returned.                       *)
Publish ==
    /\ queue' = Append(queue, dispatchBeat - 1)
    /\ busy' \in BOOLEAN
    /\ synced' = (synced \/ (busy /\ ~busy'))
    /\ UNCHANGED <<outstanding, lastDequeued, dispatchBeat, nextIssueBeat, available>>

(* PromoteToDispatchingWhenBeatAvailable, from the state Ready.              *)
Promoted(from, upTo) ==
    IF from = "Ready" /\ upTo >= dispatchBeat THEN "Dispatching" ELSE from

-----------------------------------------------------------------------------
(* The sim thread.                                                           *)
CreateSim ==
    /\ sim = "creating"
    /\ LockFree
    /\ \/ /\ sim' = "opening"
          /\ created' = TRUE
          /\ issue' = "running"
          /\ UNCHANGED state
       \/ /\ sim' = "done"
          /\ state' = "Failed"
          /\ UNCHANGED <<created, issue>>
    /\ UNCHANGED <<main, stopIssue, stopCreate, modes, saves, pacing, beats, used>>

OpeningSync ==
    /\ sim = "opening"
    /\ LockFree
    /\ Publish
    /\ state' = "Ready"
    /\ sim' = "loop"
    /\ UNCHANGED <<issue, main, created, stopIssue, stopCreate, modes, saves, used>>

(* The loop's tests, in their order.                                         *)
LoopStops ==
    /\ stopCreate
    /\ state' = "Stopped"
    /\ sim' = "done"
    /\ UNCHANGED <<dispatchBeat, saves>>

LoopWaits ==
    /\ ~stopCreate
    /\ interlocked \/ (~SaveDue /\ state # "Dispatching")
    /\ sim' = "waiting"
    /\ UNCHANGED <<state, dispatchBeat, saves>>

LoopSaves ==
    /\ ~stopCreate /\ ~interlocked
    /\ SaveDue
    /\ sim' = "saving"
    /\ StartSaving
    /\ UNCHANGED <<state, dispatchBeat>>

FaultyLoopDispatches ==
    /\ ~stopCreate
    /\ ~SaveDue /\ state = "Dispatching"
    /\ state' = "WaitingForMainThread"
    /\ dispatchBeat' = dispatchBeat + 1
    /\ sim' = "running"
    /\ UNCHANGED saves

LoopDispatches ==
    /\ ~stopCreate /\ ~interlocked
    /\ ~SaveDue /\ state = "Dispatching"
    /\ state' = "WaitingForMainThread"
    /\ dispatchBeat' = dispatchBeat + 1
    /\ sim' = "running"
    /\ UNCHANGED saves

SimLoop ==
    /\ sim = "loop"
    /\ LoopStops \/ LoopWaits \/ LoopSaves \/ LoopDispatches
    /\ UNCHANGED <<issue, main, created, stopIssue, stopCreate, modes, pacing, queue,
                   lastDequeued, nextIssueBeat, available, used>>

SimWakes ==
    /\ sim = "woken"
    /\ LockFree
    /\ sim' = "loop"
    /\ UNCHANGED <<state, issue, main, created, stopIssue, stopCreate, modes, saves,
                   pacing, beats, used>>

SimSaved ==
    /\ sim = "saving"
    /\ LockFree
    /\ SavingEnds
    /\ sim' = "loop"
    /\ UNCHANGED <<state, issue, main, created, stopIssue, stopCreate, modes, beats, used>>

(* ExecuteDispatchStepLocked ends, or the beat throws.                       *)
SimRan ==
    /\ sim = "running"
    /\ LockFree
    /\ Publish
    /\ state' = Promoted("Ready", available)
    /\ sim' = "loop"
    /\ UNCHANGED <<issue, main, created, stopIssue, stopCreate, modes, saves, used>>

SimCrashes ==
    /\ sim = "running"
    /\ LockFree
    /\ state' = "Failed"
    /\ sim' = "done"
    /\ UNCHANGED <<issue, main, created, stopIssue, stopCreate, modes, saves, pacing,
                   beats, used>>

-----------------------------------------------------------------------------
(* The issue thread.  Its pass: the client manager's DoBeat finds more beats *)
(* available, up to those issued; the pacing names the last beat to issue.   *)
Later(a, b) == IF a >= b THEN a ELSE b

Earlier(a, b) == IF a <= b THEN a ELSE b

MayIssue == synced /\ outstanding = 0 /\ Len(queue) < QueueCap

NothingToIssue == nextIssueBeat - 1

(* A paused game follows what others have queued; or, a while after an order *)
(* was given, issues one beat.                                               *)
FaultyBusyLasts(partiallyQueued) ==
    IF partiallyQueued < nextIssueBeat THEN {NothingToIssue, nextIssueBeat}
    ELSE {Earlier(partiallyQueued, lastDequeued + BusyAhead)}

BusyLasts(partiallyQueued) ==
    IF partiallyQueued < nextIssueBeat
    THEN {NothingToIssue} \cup
         {b \in {nextIssueBeat} : b <= lastDequeued + BusyAhead}
    ELSE {Earlier(partiallyQueued, lastDequeued + BusyAhead)}

(* Fast forward, a lead outside network games, and the rate's schedule.      *)
ScheduledLasts ==
    LET ceiling == lastDequeued + Lead + CatchUp
    IN  {NothingToIssue, ceiling} \cup (nextIssueBeat .. ceiling)

PacedLasts ==
    {Later(NothingToIssue, lastDequeued + FastLead)}
        \cup {Later(NothingToIssue, lastDequeued + Lead)}
        \cup {IF Lead > 0 THEN Later(b, lastDequeued + Lead) ELSE b : b \in ScheduledLasts}

LastsToIssue ==
    IF ~MayIssue THEN {NothingToIssue}
    ELSE IF busy THEN UNION {BusyLasts(b) : b \in available .. MaxBeat}
    ELSE PacedLasts

IssuePass(upTo, last) ==
    /\ issue = "running"
    /\ LockFree
    /\ ~stopIssue
    /\ last <= MaxBeat
    /\ available' = upTo
    /\ nextIssueBeat' = Later(last + 1, nextIssueBeat)
    /\ state' = Promoted(state, upTo)
    /\ sim' = IF state' # state THEN Notified ELSE sim
    /\ UNCHANGED <<issue, main, created, stopIssue, stopCreate, modes, saves, pacing,
                   queue, lastDequeued, dispatchBeat, used>>

IssueStops ==
    /\ issue = "running"
    /\ LockFree
    /\ stopIssue
    /\ issue' = "done"
    /\ UNCHANGED <<state, sim, main, created, stopIssue, stopCreate, modes, saves,
                   pacing, beats, used>>

-----------------------------------------------------------------------------
(* The main thread, once in each frame: Dispatch.                            *)
InFrame == main = "frame" /\ LockFree

(* Interlocked, the main thread runs the sim, a beat at a time.              *)
MainLoopEnds ==
    /\ queue # <<>> \/ (~SaveDue /\ state # "Dispatching")
    /\ main' = "frame"
    /\ UNCHANGED <<dispatchBeat, saves>>

MainLoopSaves ==
    /\ queue = <<>>
    /\ SaveDue
    /\ main' = "saving"
    /\ StartSaving
    /\ UNCHANGED dispatchBeat

MainLoopDispatches ==
    /\ queue = <<>>
    /\ ~SaveDue /\ state = "Dispatching"
    /\ dispatchBeat' = dispatchBeat + 1
    /\ main' = "running"
    /\ UNCHANGED saves

MainLoop ==
    /\ main = "loop"
    /\ MainLoopEnds \/ MainLoopSaves \/ MainLoopDispatches
    /\ UNCHANGED <<state, sim, issue, created, stopIssue, stopCreate, modes, pacing, queue,
                   lastDequeued, nextIssueBeat, available, used>>

MainSaved ==
    /\ main = "saving"
    /\ LockFree
    /\ SavingEnds
    /\ main' = "loop"
    /\ UNCHANGED <<state, sim, issue, created, stopIssue, stopCreate, modes, beats, used>>

FaultyStateAfterMainRan == state

StateAfterMainRan == "Ready"

MainRan ==
    /\ main = "running"
    /\ LockFree
    /\ Publish
    /\ state' = StateAfterMainRan
    /\ sim' = Notified
    /\ main' = "loop"
    /\ UNCHANGED <<issue, created, stopIssue, stopCreate, modes, saves, used>>

FaultyDispatchCompletes ==
    /\ InFrame
    /\ wantsToSave
    /\ completed' = completed \cup {saveRequest}
    /\ wantsToSave' = FALSE
    /\ main' = "completing"
    /\ UNCHANGED <<state, sim, issue, created, stopIssue, stopCreate, modes, archived, saveRequest,
                   pacing, beats, used>>

(* A save that is done is completed first, without the lock; the request is  *)
(* whichever one mSaveGameRequest holds by then.                             *)
DispatchCompletes ==
    /\ InFrame
    /\ wantsToSave
    /\ completed' = completed \cup {saveRequest}
    /\ saveRequest' = 0
    /\ wantsToSave' = FALSE
    /\ main' = "completing"
    /\ UNCHANGED <<state, sim, issue, created, stopIssue, stopCreate, modes, archived,
                   pacing, beats, used>>

FaultyDispatchModes ==
    /\ LockFree
    /\ main = "completing" \/ (main = "frame" /\ ~wantsToSave)
    /\ interlocked' = (tools > 0)
    /\ main' = IF interlocked' THEN "loop" ELSE "frame"
    /\ UNCHANGED <<state, sim, issue, created, stopIssue, stopCreate, tools, started, paused,
                   saves, pacing, beats, used>>

DispatchModes ==
    /\ LockFree
    /\ main = "completing" \/ (main = "frame" /\ ~wantsToSave)
    /\ interlocked' = (tools > 0)
    /\ sim' = IF interlocked' # interlocked THEN Notified ELSE sim
    /\ main' = IF interlocked' THEN "loop" ELSE "frame"
    /\ UNCHANGED <<state, issue, created, stopIssue, stopCreate, tools, started, paused,
                   saves, pacing, beats, used>>

(* GetSyncData, called while HasSyncData: in a frame, or after ShutDown.     *)
GetSyncData ==
    /\ main \in {"frame", "down"}
    /\ LockFree
    /\ queue # <<>>
    /\ queue' = Tail(queue)
    /\ lastDequeued' = Head(queue)
    /\ synced' = TRUE
    /\ UNCHANGED <<threads, modes, saves, outstanding, busy, dispatchBeat, nextIssueBeat,
                   available, used>>

Uses == used.saves + used.pauses + used.tools

(* The session starts once its first packet is applied and everyone is       *)
(* ready: DecrementOutstandingRequestsAndSignal.                             *)
StartPlaying ==
    /\ InFrame
    /\ ~started /\ lastDequeued >= 0
    /\ started' = TRUE
    /\ outstanding' = Finish
    /\ synced' = (synced \/ Finish = 0)
    /\ UNCHANGED <<threads, interlocked, tools, paused, saves, busy, beats, used>>

(* A replay's pause holds the issue of beats, not the sim.                   *)
PauseReplay ==
    /\ InFrame
    /\ started /\ ~paused
    /\ Uses < MaxUses
    /\ used' = [used EXCEPT !.pauses = @ + 1]
    /\ paused' = TRUE
    /\ outstanding' = outstanding + 1
    /\ UNCHANGED <<threads, interlocked, tools, started, saves, synced, busy, beats>>

ResumeReplay ==
    /\ InFrame
    /\ paused
    /\ paused' = FALSE
    /\ outstanding' = Finish
    /\ synced' = (synced \/ Finish = 0)
    /\ UNCHANGED <<threads, interlocked, tools, started, saves, busy, beats, used>>

NoSaveUnderWay == saveRequest = 0

FaultyRequestSaveGame ==
    /\ InFrame
    /\ lastDequeued >= 0
    /\ OneAtATime => NoSaveUnderWay
    /\ Uses < MaxUses
    /\ used' = [used EXCEPT !.saves = @ + 1]
    /\ saveRequest' = used.saves + 1
    /\ outstanding' = outstanding + 1
    /\ UNCHANGED <<state, sim, issue, main, created, stopIssue, stopCreate, modes, wantsToSave,
                   archived, completed, synced, busy, beats>>

(* RequestSaveGame.                                                          *)
RequestSaveGame ==
    /\ InFrame
    /\ lastDequeued >= 0
    /\ OneAtATime => NoSaveUnderWay
    /\ Uses < MaxUses
    /\ used' = [used EXCEPT !.saves = @ + 1]
    /\ saveRequest' = used.saves + 1
    /\ sim' = Notified
    /\ outstanding' = outstanding + 1
    /\ UNCHANGED <<state, issue, main, created, stopIssue, stopCreate, modes, wantsToSave,
                   archived, completed, synced, busy, beats>>

(* ProcessEvents: a tool opens, and uses the sim once no beat is being run.  *)
OpenTool ==
    /\ InFrame
    /\ lastDequeued >= 0
    /\ OneAtATime => NoSaveUnderWay
    /\ Uses < MaxUses
    /\ used' = [used EXCEPT !.tools = @ + 1]
    /\ tools' = tools + 1
    /\ interlocked' = TRUE
    /\ main' = "entering"
    /\ UNCHANGED <<state, sim, issue, created, stopIssue, stopCreate, started, paused,
                   saves, pacing, beats>>

FaultyToolEnters ==
    /\ main = "entering"
    /\ LockFree
    /\ main' = "frame"
    /\ UNCHANGED <<state, sim, issue, created, stopIssue, stopCreate, modes, saves,
                   pacing, beats, used>>

ToolEnters ==
    /\ main = "entering"
    /\ LockFree
    /\ state # "WaitingForMainThread"
    /\ main' = "frame"
    /\ UNCHANGED <<state, sim, issue, created, stopIssue, stopCreate, modes, saves,
                   pacing, beats, used>>

(* ReleaseInterlockRef takes no lock.                                        *)
CloseTool ==
    /\ main = "frame"
    /\ tools > 0
    /\ tools' = tools - 1
    /\ UNCHANGED <<threads, interlocked, started, paused, saves, pacing, beats, used>>

-----------------------------------------------------------------------------
(* ShutDown, called at the end of a session and again by the destructor once *)
(* the packets left are taken; it stops the threads that are there by then.  *)
StopCreateThread ==
    IF sim # "joined"
    THEN /\ stopCreate' = TRUE
         /\ sim' = Notified
         /\ main' = "stopping"
    ELSE /\ main' = "closed"
         /\ UNCHANGED <<stopCreate, sim>>

FaultyShutDown ==
    /\ LockFree
    /\ main = "frame" \/ (main = "down" /\ queue = <<>>)
    /\ IF issue # "none"
       THEN /\ stopIssue' = FALSE
            /\ main' = "joiningIssue"
            /\ UNCHANGED <<sim, stopCreate>>
       ELSE StopCreateThread /\ UNCHANGED stopIssue
    /\ UNCHANGED <<state, issue, created, modes, saves, pacing, beats, used>>

ShutDown ==
    /\ LockFree
    /\ main = "frame" \/ (main = "down" /\ queue = <<>>)
    /\ IF issue # "none"
       THEN /\ stopIssue' = TRUE
            /\ main' = "joiningIssue"
            /\ UNCHANGED <<sim, stopCreate>>
       ELSE StopCreateThread /\ UNCHANGED stopIssue
    /\ UNCHANGED <<state, issue, created, modes, saves, pacing, beats, used>>

JoinIssue ==
    /\ main = "joiningIssue"
    /\ LockFree
    /\ issue = "done"
    /\ issue' = "none"
    /\ StopCreateThread
    /\ UNCHANGED <<state, created, stopIssue, modes, saves, pacing, beats, used>>

SeeStopped ==
    /\ main = "stopping"
    /\ LockFree
    /\ state \in {"Stopped", "Failed"}
    /\ main' = "joiningSim"
    /\ UNCHANGED <<state, sim, issue, created, stopIssue, stopCreate, modes, saves,
                   pacing, beats, used>>

JoinSim ==
    /\ main = "joiningSim"
    /\ sim = "done"
    /\ sim' = "joined"
    /\ main' = IF created THEN "lastSync" ELSE "down"
    /\ UNCHANGED <<state, issue, created, stopIssue, stopCreate, modes, saves, pacing,
                   beats, used>>

(* The sim's last packet, of what its shutdown destroyed.                    *)
LastSync ==
    /\ main = "lastSync"
    /\ LockFree
    /\ Publish
    /\ created' = FALSE
    /\ main' = "down"
    /\ UNCHANGED <<state, sim, issue, stopIssue, stopCreate, modes, saves, used>>

(* The driver is gone.                                                       *)
Closed == main = "closed" /\ UNCHANGED vars

-----------------------------------------------------------------------------
SimThread ==
    \/ CreateSim \/ OpeningSync \/ SimLoop \/ SimWakes \/ SimSaved \/ SimRan \/ SimCrashes

IssueThread ==
    \/ \E upTo \in available .. nextIssueBeat - 1, last \in LastsToIssue :
           IssuePass(upTo, last)
    \/ IssueStops

MainThread ==
    \/ DispatchCompletes \/ DispatchModes \/ MainLoop \/ MainSaved \/ MainRan
    \/ GetSyncData \/ StartPlaying \/ PauseReplay \/ ResumeReplay
    \/ RequestSaveGame \/ OpenTool \/ ToolEnters \/ CloseTool
    \/ ShutDown \/ JoinIssue \/ SeeStopped \/ JoinSim \/ LastSync \/ Closed

Next == SimThread \/ IssueThread \/ MainThread

Spec == Init /\ [][Next]_vars

(* Each thread goes on; frames call Dispatch and take packets; orders of the *)
(* others arrive (Lockstep); and a beat that is held by nothing falls due.   *)
DuePass ==
    \E last \in LastsToIssue :
        /\ last >= nextIssueBeat
        /\ IssuePass(nextIssueBeat - 1, last)

MainGoesOn ==
    \/ MainLoop \/ MainSaved \/ MainRan \/ ToolEnters
    \/ JoinIssue \/ SeeStopped \/ JoinSim \/ LastSync
    \/ main = "down" /\ (GetSyncData \/ ShutDown)

Fairness ==
    /\ SF_vars(SimThread)
    /\ SF_vars(IssueStops)
    /\ SF_vars(\E last \in LastsToIssue : IssuePass(nextIssueBeat - 1, last))
    /\ SF_vars(DuePass)
    /\ SF_vars(DispatchCompletes \/ DispatchModes)
    /\ SF_vars(~paused /\ GetSyncData)
    /\ SF_vars(ResumeReplay)
    /\ SF_vars(StartPlaying)
    /\ SF_vars(MainGoesOn)

FairSpec == Spec /\ Fairness

-----------------------------------------------------------------------------
(* Type invariant; mOutstandingRequests is exactly what holds the issue of    *)
(* beats: the start of the session, a paused replay, a save not yet made.    *)
TypeOK ==
    /\ state \in {"Startup", "Ready", "Dispatching", "WaitingForMainThread", "Stopped",
                  "Failed"}
    /\ sim \in {"creating", "opening", "loop", "waiting", "woken", "saving", "running",
                "done", "joined"}
    /\ issue \in {"none", "running", "done"}
    /\ main \in {"frame", "completing", "loop", "saving", "running", "entering",
                 "joiningIssue", "stopping", "joiningSim", "lastSync", "down", "closed"}
    /\ {created, stopIssue, stopCreate, interlocked, wantsToSave, synced, busy, started,
        paused} \subseteq BOOLEAN
    /\ tools \in 0 .. MaxUses
    /\ saveRequest \in 0 .. MaxUses
    /\ outstanding = (IF started THEN 0 ELSE 1) + (IF paused THEN 1 ELSE 0)
                         + (IF saveRequest # 0 /\ ~wantsToSave THEN 1 ELSE 0)
    /\ queue \in Seq(Nat)
    /\ lastDequeued \in -1 .. MaxBeat
    /\ dispatchBeat \in 1 .. MaxBeat + 1
    /\ nextIssueBeat \in 1 .. MaxBeat + 1
    /\ available \in 0 .. MaxBeat
    /\ archived \subseteq 1 .. MaxUses
    /\ completed \subseteq 1 .. MaxUses

(* At most one thread is in the sim, where no lock protects it: running a    *)
(* beat, publishing, saving, or using it from a tool.                        *)
ToolUsesSim == tools > 0 /\ main \in {"frame", "completing", "loop"}

SimExclusive ==
    sim \in {"opening", "running", "saving"} =>
        main \notin {"running", "saving", "lastSync"} /\ ~ToolUsesSim

(* No beat is run before every player's orders of it are there, whichever    *)
(* thread runs it and however old the state Dispatching is; and none is      *)
(* issued further ahead of the screen than the pacing allows, whatever       *)
(* pauses and regimes follow one another.                                    *)
BeatsKeepTheirDistance ==
    /\ dispatchBeat - 1 <= available
    /\ nextIssueBeat - 1 <= Later(lastDequeued, 0)
                               + Later(Later(BusyAhead, FastLead), Lead + CatchUp)

InSession == main \notin {"joiningSim", "lastSync", "down", "closed"}

(* The packets are of consecutive beats, none twice and none missing: what   *)
(* is taken, what is queued, and the beat being run follow one another.      *)
PacketsInOrder ==
    InSession =>
        /\ \A i \in DOMAIN queue : queue[i] = lastDequeued + i
        /\ LET published == lastDequeued + Len(queue)
               unpublished == state = "Failed" \/ sim \in {"creating", "opening", "running"}
                                  \/ main = "running"
           IN  published = dispatchBeat - 1 - (IF unpublished THEN 1 ELSE 0)

(* Every request for a save is still pending or was completed, with the sim  *)
(* in its archive.                                                           *)
NoSaveForgotten ==
    /\ \A r \in 1 .. used.saves : r = saveRequest \/ r \in completed
    /\ completed \subseteq archived

Ended == state = "Failed" \/ stopIssue \/ stopCreate

(* The game goes on to its last beat, and a save asked for is made, whatever *)
(* the threads are about: saves, tools and pauses do not leave them waiting  *)
(* for each other.                                                           *)
GameGoesOn ==
    /\ <>(Ended \/ lastDequeued = MaxBeat)
    /\ (saveRequest # 0) ~> (saveRequest = 0 \/ Ended)

(* A session that shuts down, at any moment, ends with all threads joined.   *)
ShutDownEnds ==
    (main \in {"joiningIssue", "stopping"}) ~> (main = "closed" /\ issue = "none" /\ sim = "joined")

=============================================================================
