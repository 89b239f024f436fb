-------------------------- MODULE SimDriverProofs --------------------------
(* The safety of the sim driver, for every length of the queue, every pacing *)
(* and every number of beats, saves, pauses and tools, when no save is asked *)
(* for and no tool opened while a save is under way (OneAtATime).            *)
(*                                                                           *)
(* Who may be in the sim is decided by three things that no one place keeps  *)
(* together: the driver's state, the interlock flag and the save request.    *)
(* ExclusionInv says how they go with the places of the threads, and is      *)
(* inductive by itself.  The other invariants are books kept over it: what   *)
(* the count of outstanding requests and the saves come to (SaveBooks), how  *)
(* the three counters of beats and the queue follow each other (BeatBooks),  *)
(* and that no packet is missing, to the end of the session (PacketBooks).   *)
EXTENDS SimDriver, TLAPS

\* The types that arithmetic needs.
Numbers ==
  /\ tools \in Nat
  /\ saveRequest \in Nat
  /\ outstanding \in Int
  /\ lastDequeued \in Int
  /\ dispatchBeat \in Nat \ {0}
  /\ nextIssueBeat \in Nat \ {0}
  /\ available \in Nat
  /\ queue \in Seq(Nat)
  /\ used \in [saves : Nat, pauses : Nat, tools : Nat]

Booleans ==
  /\ created \in BOOLEAN /\ stopIssue \in BOOLEAN /\ stopCreate \in BOOLEAN
  /\ interlocked \in BOOLEAN /\ wantsToSave \in BOOLEAN /\ synced \in BOOLEAN
  /\ busy \in BOOLEAN /\ started \in BOOLEAN /\ paused \in BOOLEAN

(* The threads are where the code has places for them.                       *)
Places ==
  /\ state \in {"Startup", "Ready", "Dispatching", "WaitingForMainThread", "Stopped", "Failed"}
  /\ sim \in {"creating", "opening", "loop", "waiting", "woken", "saving", "running",
              "done", "joined"}
  /\ issue \in {"none", "running", "done"}
  /\ main \in {"frame", "completing", "loop", "saving", "running", "entering",
               "joiningIssue", "stopping", "joiningSim", "lastSync", "down", "closed"}

Early == {"creating", "opening"}
InSim == {"opening", "running", "saving"}
Interlocking == {"loop", "saving", "running"}

\* What the state, the interlock and the save request say of where the threads
\* are: before the sim's first packet no tool is open; a beat the sim thread runs
\* shows in the state, one the main thread runs in the interlock, which the sim
\* thread heeds; a save shows in its request, which keeps tools out.
Owners ==
  /\ sim \in Early =>
       /\ state = "Startup" /\ queue = <<>> /\ lastDequeued = -1 /\ tools = 0
       /\ main \notin Interlocking \cup {"entering", "lastSync"}
  /\ sim = "running" => state = "WaitingForMainThread"
  /\ main \in Interlocking => tools > 0
  /\ tools > 0 => interlocked
  /\ main = "running" => state = "Dispatching"
  /\ stopCreate => main \notin Interlocking \cup {"frame", "completing", "entering"}
  /\ main = "lastSync" => sim = "joined"
  /\ main = "entering" => tools > 0 /\ sim # "saving"
  /\ sim = "saving" \/ main = "saving" => saveRequest # 0 /\ ~wantsToSave

ExclusionInv == Numbers /\ Booleans /\ Owners /\ SimExclusive

-----------------------------------------------------------------------------
LEMMA LastsAreIntegers == ASSUME Numbers, NEW last \in LastsToIssue PROVE last \in Int
<1> USE PacingAssumption, BoundsAssumption DEF Numbers, NothingToIssue
<1>1. nextIssueBeat - 1 \in Int
  OBVIOUS
<1>2. ASSUME NEW b \in available .. MaxBeat PROVE \A x \in BusyLasts(b) : x \in Int
  BY <1>2 DEF BusyLasts, Earlier
<1>3. \A x \in ScheduledLasts : x \in Int
  BY DEF ScheduledLasts
<1>4. \A x \in PacedLasts : x \in Int
  BY <1>3 DEF PacedLasts, Later
<1> QED BY <1>1, <1>2, <1>4 DEF LastsToIssue

LEMMA PlacesKept == ASSUME Places, [Next]_vars PROVE Places'
<1> USE DEF Places, modes, saves, pacing, beats, threads, Notified
<1>1. CASE SimThread
  BY <1>1 DEF SimThread, CreateSim, OpeningSync, SimLoop, LoopStops, LoopWaits, LoopSaves,
      LoopDispatches, SimWakes, SimSaved, SimRan, SimCrashes, Promoted
<1>2. CASE IssueThread
  BY <1>2 DEF IssueThread, IssuePass, IssueStops, Promoted
<1>3. CASE MainThread
  <2>1. CASE DispatchCompletes \/ DispatchModes \/ MainLoop \/ MainSaved \/ MainRan
    BY <2>1 DEF DispatchCompletes, DispatchModes, MainLoop, MainLoopEnds, MainLoopSaves,
        MainLoopDispatches, MainSaved, MainRan, StateAfterMainRan
  <2>2. CASE GetSyncData \/ StartPlaying \/ PauseReplay \/ ResumeReplay \/ RequestSaveGame
    BY <2>2 DEF GetSyncData, StartPlaying, PauseReplay, ResumeReplay, RequestSaveGame
  <2>3. CASE OpenTool \/ ToolEnters \/ CloseTool
    BY <2>3 DEF OpenTool, ToolEnters, CloseTool
  <2>4. CASE ShutDown \/ JoinIssue \/ SeeStopped \/ JoinSim \/ LastSync \/ Closed
    BY <2>4 DEF ShutDown, JoinIssue, SeeStopped, JoinSim, LastSync, Closed, vars, StopCreateThread
  <2> QED BY <1>3, <2>1, <2>2, <2>3, <2>4 DEF MainThread
<1>4. CASE UNCHANGED vars
  BY <1>4 DEF vars
<1> QED BY <1>1, <1>2, <1>3, <1>4 DEF Next

LEMMA NumbersKept == ASSUME Numbers, Booleans, [Next]_vars PROVE Numbers' /\ Booleans'
<1> USE DEF Numbers, Booleans, modes, saves, pacing, beats, threads, Publish, Finish
<1>1. CASE SimThread
  <2>1. CASE SimLoop
    BY <2>1 DEF SimLoop, LoopStops, LoopWaits, LoopSaves, LoopDispatches, StartSaving
  <2>2. CASE OpeningSync
    BY <2>2 DEF OpeningSync
  <2>3. CASE SimSaved
    BY <2>3 DEF SimSaved, SavingEnds
  <2>4. CASE SimRan
    BY <2>4 DEF SimRan
  <2>5. CASE CreateSim \/ SimWakes \/ SimCrashes
    BY <2>5 DEF CreateSim, SimWakes, SimCrashes
  <2> QED BY <1>1, <2>1, <2>2, <2>3, <2>4, <2>5 DEF SimThread
<1>2. CASE IssueThread
  <2>1. ASSUME NEW upTo \in available .. nextIssueBeat - 1, NEW last \in LastsToIssue,
               IssuePass(upTo, last)
        PROVE Numbers' /\ Booleans'
    <3>1. last \in Int
      BY LastsAreIntegers
    <3>2. upTo \in Nat
      OBVIOUS
    <3>3. nextIssueBeat' \in Nat \ {0}
      BY <2>1, <3>1 DEF IssuePass, Later
    <3> QED BY <2>1, <3>2, <3>3 DEF IssuePass
  <2>2. CASE IssueStops
    BY <2>2 DEF IssueStops
  <2> QED BY <1>2, <2>1, <2>2 DEF IssueThread
<1>3. CASE MainThread
  <2>1. CASE DispatchCompletes
    BY <2>1 DEF DispatchCompletes
  <2>2. CASE DispatchModes
    BY <2>2 DEF DispatchModes
  <2>3. CASE MainLoop
    BY <2>3 DEF MainLoop, MainLoopEnds, MainLoopSaves, MainLoopDispatches, StartSaving
  <2>4. CASE MainSaved
    BY <2>4 DEF MainSaved, SavingEnds
  <2>5. CASE MainRan
    BY <2>5 DEF MainRan
  <2>6. CASE GetSyncData
    BY <2>6 DEF GetSyncData
  <2>7. CASE StartPlaying
    BY <2>7 DEF StartPlaying
  <2>8. CASE PauseReplay
    BY <2>8 DEF PauseReplay
  <2>9. CASE RequestSaveGame
    BY <2>9 DEF RequestSaveGame
  <2>10. CASE OpenTool
    <3>1. used' \in [saves : Nat, pauses : Nat, tools : Nat]
      <4>1. used \in [saves : Nat, pauses : Nat, tools : Nat] /\ used' = [used EXCEPT !.tools = @ + 1]
        BY <2>10 DEF OpenTool
      <4> QED BY <4>1
    <3>2. tools' \in Nat /\ interlocked' \in BOOLEAN
      BY <2>10 DEF OpenTool
    <3> QED BY <2>10, <3>1, <3>2 DEF OpenTool
  <2>11. CASE CloseTool
    BY <2>11 DEF CloseTool
  <2>12. CASE ToolEnters \/ SeeStopped \/ JoinSim \/ Closed
    BY <2>12 DEF ToolEnters, SeeStopped, JoinSim, Closed, vars
  <2>13. CASE ShutDown \/ JoinIssue
    BY <2>13 DEF ShutDown, JoinIssue, StopCreateThread
  <2>14. CASE LastSync
    <3>1. created' \in BOOLEAN /\ synced' \in BOOLEAN /\ busy' \in BOOLEAN
      BY <2>14 DEF LastSync
    <3> QED BY <2>14, <3>1 DEF LastSync
  <2>15. CASE ResumeReplay
    <3>1. paused' \in BOOLEAN /\ synced' \in BOOLEAN
      BY <2>15 DEF ResumeReplay
    <3>2. outstanding' \in Int
      BY <2>15 DEF ResumeReplay
    <3> QED BY <2>15, <3>1, <3>2 DEF ResumeReplay
  <2> QED BY <1>3, <2>1, <2>2, <2>3, <2>4, <2>5, <2>6, <2>7, <2>8, <2>9, <2>10, <2>11, <2>12,
             <2>13, <2>14, <2>15 DEF MainThread
<1>4. CASE UNCHANGED vars
  BY <1>4 DEF vars
<1> QED BY <1>1, <1>2, <1>3, <1>4 DEF Next

-----------------------------------------------------------------------------
(* One thread in the sim                                                     *)

LEMMA ExclusionKept == ASSUME OneAtATime, ExclusionInv, [Next]_vars PROVE Owners' /\ SimExclusive'
<1> USE DEF ExclusionInv, Numbers, Booleans, Owners, SimExclusive, ToolUsesSim, Early, InSim,
    Interlocking, modes, saves, pacing, beats, threads
<1>1. CASE SimThread
  <2>1. CASE CreateSim
    BY <2>1 DEF CreateSim
  <2>2. CASE OpeningSync
    BY <2>2 DEF OpeningSync, Publish
  <2>3. CASE SimLoop
    BY <2>3 DEF SimLoop, LoopStops, LoopWaits, LoopSaves, LoopDispatches, StartSaving, SaveDue
  <2>4. CASE SimWakes
    BY <2>4 DEF SimWakes
  <2>5. CASE SimSaved
    BY <2>5 DEF SimSaved, SavingEnds
  <2>6. CASE SimRan
    BY <2>6 DEF SimRan, Publish, Promoted
  <2>7. CASE SimCrashes
    BY <2>7 DEF SimCrashes
  <2> QED BY <1>1, <2>1, <2>2, <2>3, <2>4, <2>5, <2>6, <2>7 DEF SimThread
<1>2. CASE IssueThread
  BY <1>2 DEF IssueThread, IssuePass, IssueStops, Promoted, Notified
<1>3. CASE MainThread
  <2>1. CASE DispatchCompletes
    BY <2>1 DEF DispatchCompletes, InFrame
  <2>2. CASE DispatchModes
    BY <2>2 DEF DispatchModes, Notified
  <2>3. CASE MainLoop
    BY <2>3 DEF MainLoop, MainLoopEnds, MainLoopSaves, MainLoopDispatches, StartSaving, SaveDue
  <2>4. CASE MainSaved
    BY <2>4 DEF MainSaved, SavingEnds
  <2>5. CASE MainRan
    BY <2>5 DEF MainRan, Publish, StateAfterMainRan, Notified
  <2>6. CASE GetSyncData
    BY <2>6 DEF GetSyncData
  <2>7. CASE StartPlaying \/ PauseReplay \/ ResumeReplay
    BY <2>7 DEF StartPlaying, PauseReplay, ResumeReplay, InFrame
  <2>8. CASE RequestSaveGame
    BY <2>8 DEF RequestSaveGame, InFrame, Notified, NoSaveUnderWay
  <2>9. CASE OpenTool
    BY <2>9 DEF OpenTool, InFrame, NoSaveUnderWay
  <2>10. CASE ToolEnters
    BY <2>10 DEF ToolEnters
  <2>11. CASE CloseTool
    BY <2>11 DEF CloseTool
  <2>12. CASE ShutDown
    BY <2>12 DEF ShutDown, StopCreateThread, Notified
  <2>13. CASE JoinIssue
    BY <2>13 DEF JoinIssue, StopCreateThread, Notified
  <2>14. CASE SeeStopped
    BY <2>14 DEF SeeStopped
  <2>15. CASE JoinSim
    BY <2>15 DEF JoinSim
  <2>16. CASE LastSync
    BY <2>16 DEF LastSync, Publish
  <2>17. CASE Closed
    BY <2>17 DEF Closed, vars
  <2> QED BY <1>3, <2>1, <2>2, <2>3, <2>4, <2>5, <2>6, <2>7, <2>8, <2>9, <2>10, <2>11, <2>12,
             <2>13, <2>14, <2>15, <2>16, <2>17 DEF MainThread
<1>4. CASE UNCHANGED vars
  BY <1>4 DEF vars
<1> QED BY <1>1, <1>2, <1>3, <1>4 DEF Next
-----------------------------------------------------------------------------
(* Saves and outstanding requests                                            *)

\* The count of outstanding requests is what holds the issue of beats, and a
\* save that is being made or is made has its archive.
SaveBooks ==
  /\ outstanding = (IF started THEN 0 ELSE 1) + (IF paused THEN 1 ELSE 0)
                      + (IF saveRequest # 0 /\ ~wantsToSave THEN 1 ELSE 0)
  /\ used.saves + used.pauses + used.tools <= MaxUses
  /\ tools <= used.tools
  /\ saveRequest <= used.saves
  /\ wantsToSave => saveRequest # 0
  /\ sim = "saving" \/ main = "saving" \/ wantsToSave => saveRequest \in archived
  /\ archived \subseteq 1 .. used.saves
  /\ NoSaveForgotten

\* A step that saves nothing, asks for nothing and holds nothing keeps the books.
LEMMA SaveBooksUntouched ==
  ASSUME SaveBooks, UNCHANGED <<outstanding, started, paused, tools, used, saves>>,
         sim' = "saving" => sim = "saving", main' = "saving" => main = "saving"
  PROVE  SaveBooks'
BY DEF SaveBooks, NoSaveForgotten, saves

\* A thread begins to save.
LEMMA StartSavingKeeps ==
  ASSUME Numbers, SaveBooks, SaveDue, StartSaving,
         UNCHANGED <<outstanding, started, paused, tools, used>>
  PROVE  SaveBooks'
BY DEF Numbers, SaveBooks, NoSaveForgotten, SaveDue, StartSaving

LEMMA SaveBooksKept ==
  ASSUME OneAtATime, ExclusionInv, SaveBooks, [Next]_vars
  PROVE  SaveBooks'
<1> USE DEF modes, pacing, beats, threads, ExclusionInv
<1>1. CASE SimThread
  <2>1. CASE SimLoop /\ LoopSaves
    BY <2>1, StartSavingKeeps DEF SimLoop, LoopSaves
  <2>2. CASE SimLoop /\ ~LoopSaves
    BY <2>2, SaveBooksUntouched DEF SimLoop, LoopStops, LoopWaits, LoopDispatches
  <2>3. CASE SimSaved
    BY <2>3 DEF SimSaved, SavingEnds, Owners, Finish, Numbers, Booleans, SaveBooks, NoSaveForgotten
  <2>4. CASE CreateSim \/ OpeningSync \/ SimWakes \/ SimRan \/ SimCrashes
    BY <2>4, SaveBooksUntouched DEF CreateSim, OpeningSync, SimWakes, SimRan, SimCrashes, Publish
  <2> QED BY <1>1, <2>1, <2>2, <2>3, <2>4 DEF SimThread
<1>2. CASE IssueThread
  BY <1>2, SaveBooksUntouched DEF IssueThread, IssuePass, IssueStops, Notified
<1>3. CASE MainThread
  <2>1. CASE DispatchCompletes
    BY <2>1 DEF DispatchCompletes, InFrame, Owners, Numbers, Booleans, SaveBooks, NoSaveForgotten
  <2>2. CASE MainLoop /\ MainLoopSaves
    BY <2>2, StartSavingKeeps DEF MainLoop, MainLoopSaves
  <2>3. CASE MainLoop /\ ~MainLoopSaves
    BY <2>3, SaveBooksUntouched DEF MainLoop, MainLoopEnds, MainLoopDispatches
  <2>4. CASE MainSaved
    BY <2>4 DEF MainSaved, SavingEnds, Owners, Finish, Numbers, Booleans, SaveBooks, NoSaveForgotten
  <2>5. CASE StartPlaying
    BY <2>5 DEF StartPlaying, saves, Finish, Numbers, Booleans, SaveBooks, NoSaveForgotten
  <2>6. CASE PauseReplay
    <3>1. /\ used'.saves = used.saves /\ used'.pauses = used.pauses + 1 /\ used'.tools = used.tools
      BY <2>6 DEF PauseReplay, Numbers
    <3>2. used.saves \in Nat /\ used.pauses \in Nat /\ used.tools \in Nat
      BY DEF Numbers
    <3>3. used'.saves + used'.pauses + used'.tools <= MaxUses
      BY <2>6, <3>1, <3>2, BoundsAssumption DEF PauseReplay, Uses
    <3> QED BY <2>6, <3>1, <3>3 DEF PauseReplay, saves, Numbers, Booleans, SaveBooks, NoSaveForgotten
  <2>7. CASE ResumeReplay
    BY <2>7 DEF ResumeReplay, saves, Finish, Numbers, Booleans, SaveBooks, NoSaveForgotten
  <2>8. CASE RequestSaveGame
    <3>1. /\ used'.saves = used.saves + 1 /\ used'.pauses = used.pauses /\ used'.tools = used.tools
      BY <2>8 DEF RequestSaveGame, Numbers
    <3>2. used.saves \in Nat /\ used.pauses \in Nat /\ used.tools \in Nat
      BY DEF Numbers
    <3>3. used'.saves + used'.pauses + used'.tools <= MaxUses
      BY <2>8, <3>1, <3>2, BoundsAssumption DEF RequestSaveGame, Uses
    <3>4. saveRequest = 0 /\ saveRequest' = used'.saves
      BY <2>8, <3>1 DEF RequestSaveGame, NoSaveUnderWay
    <3>5. NoSaveForgotten'
      BY <2>8, <3>1, <3>2, <3>4 DEF RequestSaveGame, SaveBooks, NoSaveForgotten
    <3>6. sim' # "saving" /\ main' # "saving" /\ ~wantsToSave'
      BY <2>8, <3>4 DEF RequestSaveGame, InFrame, Notified, Owners, SaveBooks
    <3>7. archived' \subseteq 1 .. used'.saves
      BY <2>8, <3>1, <3>2 DEF RequestSaveGame, SaveBooks
    <3> QED BY <2>8, <3>1, <3>2, <3>3, <3>4, <3>5, <3>6, <3>7 DEF RequestSaveGame, Numbers, Booleans, SaveBooks
  <2>9. CASE OpenTool
    <3>1. /\ used'.saves = used.saves /\ used'.pauses = used.pauses /\ used'.tools = used.tools + 1
      BY <2>9 DEF OpenTool, Numbers
    <3>2. used.saves \in Nat /\ used.pauses \in Nat /\ used.tools \in Nat
      BY DEF Numbers
    <3>3. used'.saves + used'.pauses + used'.tools <= MaxUses
      BY <2>9, <3>1, <3>2, BoundsAssumption DEF OpenTool, Uses
    <3> QED BY <2>9, <3>1, <3>2, <3>3 DEF OpenTool, InFrame, saves, Numbers, SaveBooks, NoSaveForgotten
  <2>10. CASE CloseTool
    BY <2>10 DEF CloseTool, saves, Numbers, SaveBooks, NoSaveForgotten
  <2>11. CASE DispatchModes \/ MainRan \/ GetSyncData \/ ToolEnters
    BY <2>11, SaveBooksUntouched DEF DispatchModes, MainRan, GetSyncData, ToolEnters, Publish, Notified
  <2>12. CASE ShutDown \/ JoinIssue \/ SeeStopped \/ JoinSim \/ LastSync \/ Closed
    BY <2>12, SaveBooksUntouched DEF ShutDown, JoinIssue, SeeStopped, JoinSim, LastSync, Closed, vars, Publish,
        StopCreateThread, Notified
  <2> QED BY <1>3, <2>1, <2>2, <2>3, <2>4, <2>5, <2>6, <2>7, <2>8, <2>9, <2>10, <2>11, <2>12 DEF MainThread
<1>4. CASE UNCHANGED vars
  BY <1>4, SaveBooksUntouched DEF vars
<1> QED BY <1>1, <1>2, <1>3, <1>4 DEF Next

-----------------------------------------------------------------------------
(* The counters of beats                                                     *)

\* The furthest the pacing issues ahead of the screen.
Furthest == Later(Later(BusyAhead, FastLead), Lead + CatchUp)

\* The beats run, available and issued follow each other; Dispatching means a
\* beat is there, but for the one the main thread is running under that state;
\* packets are of beats run, oldest first.
BeatBooks ==
  /\ dispatchBeat - 1 <= available
  /\ state = "Dispatching" /\ main # "running" => dispatchBeat <= available
  /\ available < nextIssueBeat
  /\ nextIssueBeat - 1 <= MaxBeat
  /\ nextIssueBeat - 1 <= Later(lastDequeued, 0) + Furthest
  /\ -1 <= lastDequeued
  /\ lastDequeued < dispatchBeat
  /\ \A i \in DOMAIN queue : lastDequeued <= queue[i] /\ queue[i] < dispatchBeat
  /\ \A i, j \in DOMAIN queue : i <= j => queue[i] <= queue[j]

\* A packet that is published is of the last beat run, and queued last.
LEMMA PublishKeepsOrder ==
  ASSUME Numbers, BeatBooks, Publish
  PROVE  /\ \A i \in DOMAIN queue' : lastDequeued <= queue'[i] /\ queue'[i] < dispatchBeat
         /\ \A i, j \in DOMAIN queue' : i <= j => queue'[i] <= queue'[j]
<1> DEFINE n == Len(queue)
<1>1. /\ DOMAIN queue' = 1 .. n + 1
      /\ \A i \in 1 .. n : queue'[i] = queue[i]
      /\ queue'[n + 1] = dispatchBeat - 1
  BY DEF Numbers, Publish
<1>2. DOMAIN queue = 1 .. n /\ n \in Nat /\ \A i \in 1 .. n : queue[i] \in Nat
  BY DEF Numbers
<1>3. n + 1 \notin 1 .. n /\ \A i \in 1 .. n + 1 : i \in 1 .. n \/ i = n + 1
  BY <1>2
<1>4. \A i \in 1 .. n : lastDequeued <= queue'[i] /\ queue'[i] < dispatchBeat
  BY <1>1, <1>2 DEF BeatBooks
<1>5. lastDequeued <= queue'[n + 1] /\ queue'[n + 1] < dispatchBeat
  BY <1>1 DEF BeatBooks, Numbers
<1>6. \A i, j \in 1 .. n : i <= j => queue'[i] <= queue'[j]
  BY <1>1, <1>2 DEF BeatBooks
<1>7. \A i \in 1 .. n : queue'[i] <= queue'[n + 1]
  BY <1>1, <1>2 DEF BeatBooks, Numbers
<1>8. \A j \in 1 .. n : ~(n + 1 <= j)
  BY <1>2
<1> HIDE DEF n
<1>9. \A i, j \in 1 .. n + 1 : i <= j => queue'[i] <= queue'[j]
  <2> SUFFICES ASSUME NEW i \in 1 .. n + 1, NEW j \in 1 .. n + 1, i <= j PROVE queue'[i] <= queue'[j]
    OBVIOUS
  <2>1. CASE j \in 1 .. n
    BY <2>1, <1>3, <1>6, <1>8
  <2>2. CASE j = n + 1 /\ i \in 1 .. n
    BY <2>2, <1>7
  <2>3. CASE j = n + 1 /\ i = n + 1
    BY <2>3, <1>1 DEF Numbers
  <2> QED BY <1>3, <2>1, <2>2, <2>3
<1> QED BY <1>1, <1>3, <1>4, <1>5, <1>9

\* A packet that is taken leaves later ones.
LEMMA TakingKeepsOrder ==
  ASSUME Numbers, BeatBooks, GetSyncData
  PROVE  /\ lastDequeued <= lastDequeued' /\ lastDequeued' < dispatchBeat
         /\ \A i \in DOMAIN queue' : lastDequeued' <= queue'[i] /\ queue'[i] < dispatchBeat
         /\ \A i, j \in DOMAIN queue' : i <= j => queue'[i] <= queue'[j]
<1> DEFINE n == Len(queue)
<1>1. n \in Nat \ {0} /\ DOMAIN queue = 1 .. n /\ \A i \in 1 .. n : queue[i] \in Nat
  BY DEF Numbers, GetSyncData
<1>2. lastDequeued' = queue[1] /\ 1 \in DOMAIN queue
  BY <1>1 DEF GetSyncData, Numbers
<1>3. DOMAIN queue' = 1 .. n - 1 /\ \A i \in 1 .. n - 1 : queue'[i] = queue[i + 1]
  BY <1>1 DEF GetSyncData, Numbers
<1>4. lastDequeued <= queue[1] /\ queue[1] < dispatchBeat
  BY <1>2 DEF BeatBooks
<1>5. \A i \in 1 .. n : queue[1] <= queue[i] /\ queue[i] < dispatchBeat
  BY <1>1, <1>2 DEF BeatBooks
<1>6. \A i, j \in 1 .. n : i <= j => queue[i] <= queue[j]
  BY <1>1 DEF BeatBooks
<1>7. \A i \in 1 .. n - 1 : i + 1 \in 1 .. n
  BY <1>1
<1> HIDE DEF n
<1>8. \A i, j \in 1 .. n - 1 : i <= j => i + 1 <= j + 1
  OBVIOUS
<1> QED BY <1>2, <1>3, <1>4, <1>5, <1>6, <1>7, <1>8

\* Whatever regime names the last beat to issue, it is in the screen's reach.
LEMMA LastsInReach ==
  ASSUME Numbers, BeatBooks, NEW last \in LastsToIssue
  PROVE  last <= Later(lastDequeued, 0) + Furthest
<1> USE PacingAssumption, BoundsAssumption DEF Numbers, BeatBooks, NothingToIssue, Later, Furthest
<1>1. ASSUME NEW b \in available .. MaxBeat
      PROVE \A x \in BusyLasts(b) : x <= Later(lastDequeued, 0) + Furthest
  BY <1>1 DEF BusyLasts, Earlier
<1>2. \A x \in ScheduledLasts : x \in Int /\ x <= Later(lastDequeued, 0) + Furthest
  BY DEF ScheduledLasts
<1>3. \A x \in PacedLasts : x <= Later(lastDequeued, 0) + Furthest
  BY <1>2 DEF PacedLasts
<1> QED BY <1>1, <1>3 DEF LastsToIssue

LEMMA BeatBooksKept ==
  ASSUME ExclusionInv, BeatBooks, [Next]_vars
  PROVE  BeatBooks'
<1> USE PacingAssumption, BoundsAssumption DEF ExclusionInv, Numbers, Booleans, Owners, Interlocking,
        modes, saves, pacing, beats, threads, Later, Furthest
<1>1. CASE SimThread
  <2>1. CASE LoopDispatches /\ SimLoop
    BY <2>1 DEF BeatBooks, SimLoop, LoopDispatches
  <2>2. CASE (LoopStops \/ LoopWaits \/ LoopSaves) /\ SimLoop
    BY <2>2 DEF BeatBooks, SimLoop, LoopStops, LoopWaits, LoopSaves, StartSaving
  <2>3. CASE OpeningSync
    BY <2>3, PublishKeepsOrder DEF BeatBooks, OpeningSync, Publish
  <2>4. CASE SimRan
    BY <2>4, PublishKeepsOrder DEF BeatBooks, SimRan, Publish, Promoted
  <2>5. CASE CreateSim \/ SimWakes \/ SimSaved \/ SimCrashes
    BY <2>5 DEF BeatBooks, CreateSim, SimWakes, SimSaved, SavingEnds, SimCrashes
  <2> QED BY <1>1, <2>1, <2>2, <2>3, <2>4, <2>5 DEF SimThread, SimLoop
<1>2. CASE IssueThread
  <2>1. ASSUME NEW upTo \in available .. nextIssueBeat - 1, NEW last \in LastsToIssue,
               IssuePass(upTo, last)
        PROVE BeatBooks'
    <3>1. last \in Int /\ last <= Later(lastDequeued, 0) + Furthest
      BY LastsAreIntegers, LastsInReach
    <3> HIDE DEF Furthest
    <3>2. /\ nextIssueBeat - 1 <= nextIssueBeat' - 1
          /\ nextIssueBeat' - 1 <= MaxBeat
          /\ nextIssueBeat' - 1 <= Later(lastDequeued, 0) + Furthest
      BY <2>1, <3>1 DEF BeatBooks, IssuePass
    <3>3. dispatchBeat - 1 <= upTo /\ (state' = "Dispatching" /\ main # "running" => dispatchBeat <= upTo)
      BY <2>1 DEF BeatBooks, IssuePass, Promoted
    <3> QED BY <2>1, <3>2, <3>3 DEF BeatBooks, IssuePass
  <2>2. CASE IssueStops
    BY <2>2 DEF BeatBooks, IssueStops
  <2> QED BY <1>2, <2>1, <2>2 DEF IssueThread
<1>3. CASE MainThread
  <2>1. CASE MainLoop
    BY <2>1 DEF BeatBooks, MainLoop, MainLoopEnds, MainLoopSaves, MainLoopDispatches, StartSaving
  <2>2. CASE MainRan
    BY <2>2, PublishKeepsOrder DEF BeatBooks, MainRan, StateAfterMainRan, Publish
  <2>3. CASE LastSync
    BY <2>3, PublishKeepsOrder DEF BeatBooks, LastSync, Publish
  <2>4. CASE GetSyncData
    BY <2>4, TakingKeepsOrder DEF BeatBooks, GetSyncData
  <2>5. CASE DispatchCompletes \/ DispatchModes \/ MainSaved
    BY <2>5 DEF BeatBooks, DispatchCompletes, DispatchModes, MainSaved, SavingEnds, InFrame
  <2>6. CASE StartPlaying \/ PauseReplay \/ ResumeReplay \/ RequestSaveGame
    BY <2>6 DEF BeatBooks, StartPlaying, PauseReplay, ResumeReplay, RequestSaveGame, InFrame
  <2>7. CASE OpenTool \/ ToolEnters \/ CloseTool
    BY <2>7 DEF BeatBooks, OpenTool, ToolEnters, CloseTool, InFrame
  <2>8. CASE ShutDown \/ JoinIssue \/ SeeStopped \/ JoinSim \/ Closed
    BY <2>8 DEF BeatBooks, ShutDown, JoinIssue, SeeStopped, JoinSim, Closed, vars, StopCreateThread
  <2> QED BY <1>3, <2>1, <2>2, <2>3, <2>4, <2>5, <2>6, <2>7, <2>8 DEF MainThread
<1>4. CASE UNCHANGED vars
  BY <1>4 DEF BeatBooks, vars
<1> QED BY <1>1, <1>2, <1>3, <1>4 DEF Next

-----------------------------------------------------------------------------
(* The packets                                                               *)

Leaving == {"stopping", "joiningSim", "lastSync", "down"}

\* PacketsInOrder does not speak of a session that is over; a second ShutDown
\* comes back to it when the first came before the sim was created.  Then no
\* beat was ever run, and the packets are those of beat 0.
PacketBooks ==
  /\ state \in {"Stopped", "Failed"} => sim \in {"done", "joined"}
  /\ sim = "creating" => issue = "none"
  /\ sim \in InSim \cup {"loop", "waiting", "woken"} => created
  /\ main = "joiningSim" => sim \in {"done", "joined"}
  /\ main \in {"lastSync", "down"} => sim = "joined"
  /\ main \in Leaving => stopCreate
  /\ main \in Leaving /\ issue # "none" =>
       /\ state # "Failed" /\ sim # "running" /\ dispatchBeat = 1
       /\ sim \in {"done", "joined"} =>
            /\ created \/ main = "down"
            /\ queue = <<>> => lastDequeued = 0
            /\ queue # <<>> => queue[Len(queue)] = 0
  /\ PacketsInOrder

\* The next packet is of the next beat.
LEMMA PublishContinues ==
  ASSUME Numbers, Publish, \A i \in DOMAIN queue : queue[i] = lastDequeued + i,
         lastDequeued + Len(queue) = dispatchBeat - 2
  PROVE  /\ \A i \in DOMAIN queue' : queue'[i] = lastDequeued' + i
         /\ lastDequeued' + Len(queue') = dispatchBeat' - 1
BY DEF Numbers, Publish

\* Taking a packet leaves the order as it is.
LEMMA TakingContinues ==
  ASSUME Numbers, GetSyncData, \A i \in DOMAIN queue : queue[i] = lastDequeued + i
  PROVE  /\ \A i \in DOMAIN queue' : queue'[i] = lastDequeued' + i
         /\ lastDequeued' + Len(queue') = lastDequeued + Len(queue)
<1> DEFINE n == Len(queue)
<1>1. n \in Nat \ {0} /\ DOMAIN queue = 1 .. n
  BY DEF Numbers, GetSyncData
<1>2. lastDequeued' = queue[1] /\ queue[1] = lastDequeued + 1
  BY <1>1 DEF GetSyncData, Numbers
<1>3. DOMAIN queue' = 1 .. n - 1 /\ \A i \in 1 .. n - 1 : queue'[i] = queue[i + 1]
  BY <1>1 DEF GetSyncData, Numbers
<1>4. Len(queue') = n - 1
  BY <1>1 DEF GetSyncData, Numbers
<1>5. lastDequeued \in Int /\ lastDequeued' = lastDequeued + 1
  BY <1>2 DEF Numbers
<1>6. \A i \in 1 .. n - 1 : i + 1 \in 1 .. n /\ queue[i + 1] = lastDequeued + (i + 1)
  BY <1>1
<1> HIDE DEF n
<1>7. ASSUME NEW i \in 1 .. n - 1 PROVE queue'[i] = lastDequeued' + i
  BY <1>3, <1>5, <1>6
<1>8. lastDequeued' + Len(queue') = lastDequeued + n
  BY <1>1, <1>4, <1>5
<1> QED BY <1>3, <1>7, <1>8 DEF n

LEMMA PacketBooksKept ==
  ASSUME ExclusionInv, PacketBooks, [Next]_vars
  PROVE  PacketBooks'
<1> USE DEF PacketBooks, PacketsInOrder, InSession, Leaving, ExclusionInv, Numbers, Booleans, Owners,
        SimExclusive, Early, InSim, Interlocking, modes, saves, pacing, beats, threads
<1>1. CASE SimThread
  <2>1. CASE CreateSim
    BY <2>1 DEF CreateSim
  <2>2. CASE OpeningSync
    BY <2>2, PublishContinues DEF OpeningSync, Publish
  <2>3. CASE SimLoop
    <3>1. CASE LoopStops
      <4>1. PacketsInOrder'
        BY <2>3, <3>1 DEF SimLoop, LoopStops
      <4>2. main \in Leaving /\ issue # "none" =>
              /\ queue = <<>> => lastDequeued = 0
              /\ queue # <<>> => queue[Len(queue)] = 0
        BY <2>3, <3>1 DEF SimLoop
      <4>3. main \in Leaving /\ issue # "none" => created
        BY <2>3 DEF SimLoop
      <4> QED BY <2>3, <3>1, <4>1, <4>2, <4>3 DEF SimLoop, LoopStops
    <3>2. CASE LoopWaits
      BY <2>3, <3>2 DEF SimLoop, LoopWaits
    <3>3. CASE LoopSaves
      BY <2>3, <3>3 DEF SimLoop, LoopSaves, StartSaving, SaveDue
    <3>4. CASE LoopDispatches
      BY <2>3, <3>4 DEF SimLoop, LoopDispatches
    <3> QED BY <2>3, <3>1, <3>2, <3>3, <3>4 DEF SimLoop
  <2>4. CASE SimRan
    BY <2>4, PublishContinues DEF SimRan, Publish, Promoted
  <2>5. CASE SimWakes \/ SimSaved \/ SimCrashes
    BY <2>5 DEF SimWakes, SimSaved, SavingEnds, SimCrashes
  <2> QED BY <1>1, <2>1, <2>2, <2>3, <2>4, <2>5 DEF SimThread
<1>2. CASE IssueThread
  BY <1>2 DEF IssueThread, IssuePass, IssueStops, Promoted, Notified
<1>3. CASE MainThread
  <2>1. CASE MainLoop
    BY <2>1 DEF MainLoop, MainLoopEnds, MainLoopSaves, MainLoopDispatches, StartSaving, SaveDue
  <2>2. CASE MainRan
    BY <2>2, PublishContinues DEF MainRan, StateAfterMainRan, Publish, Notified
  <2>3. CASE LastSync
    BY <2>3 DEF LastSync, Publish
  <2>4. CASE GetSyncData
    <3>1. CASE main = "frame"
      BY <2>4, <3>1, TakingContinues DEF GetSyncData
    <3>2. CASE main = "down"
      <4>1. issue # "none" =>
              /\ queue' = <<>> => lastDequeued' = 0
              /\ queue' # <<>> => queue'[Len(queue')] = 0
        <5> SUFFICES ASSUME issue # "none"
                     PROVE  /\ queue' = <<>> => lastDequeued' = 0
                            /\ queue' # <<>> => queue'[Len(queue')] = 0
          OBVIOUS
        <5>1. queue \in Seq(Nat) /\ queue # <<>> /\ queue[Len(queue)] = 0
          BY <2>4, <3>2 DEF GetSyncData
        <5>2. queue' = Tail(queue) /\ lastDequeued' = Head(queue)
          BY <2>4 DEF GetSyncData
        <5>3. CASE Len(queue) = 1
          BY ONLY <5>1, <5>2, <5>3
        <5>4. CASE Len(queue) # 1
          BY ONLY <5>1, <5>2, <5>4
        <5> QED BY <5>3, <5>4
      <4> QED BY <2>4, <3>2, <4>1 DEF GetSyncData
    <3> QED BY <2>4, <3>1, <3>2 DEF GetSyncData
  <2>5. CASE DispatchCompletes \/ DispatchModes \/ MainSaved
    BY <2>5 DEF DispatchCompletes, DispatchModes, MainSaved, SavingEnds, InFrame, Notified
  <2>6. CASE StartPlaying \/ PauseReplay \/ ResumeReplay \/ RequestSaveGame
    BY <2>6 DEF StartPlaying, PauseReplay, ResumeReplay, RequestSaveGame, InFrame, Notified
  <2>7. CASE OpenTool \/ ToolEnters \/ CloseTool
    BY <2>7 DEF OpenTool, ToolEnters, CloseTool, InFrame
  <2>8. CASE ShutDown
    <3>1. CASE main = "frame"
      BY <2>8, <3>1 DEF ShutDown, StopCreateThread, Notified
    <3>2. CASE main = "down" /\ queue = <<>>
      <4>1. issue # "none" => PacketsInOrder'
        BY <2>8, <3>2 DEF ShutDown
      <4> QED BY <2>8, <3>2, <4>1 DEF ShutDown, StopCreateThread
    <3> QED BY <2>8, <3>1, <3>2 DEF ShutDown
  <2>9. CASE JoinIssue
    BY <2>9 DEF JoinIssue, StopCreateThread, Notified
  <2>10. CASE SeeStopped \/ JoinSim \/ Closed
    BY <2>10 DEF SeeStopped, JoinSim, Closed, vars
  <2> QED BY <1>3, <2>1, <2>2, <2>3, <2>4, <2>5, <2>6, <2>7, <2>8, <2>9, <2>10 DEF MainThread
<1>4. CASE UNCHANGED vars
  BY <1>4 DEF vars
<1> QED BY <1>1, <1>2, <1>3, <1>4 DEF Next

-----------------------------------------------------------------------------
Inv == ExclusionInv /\ Places /\ SaveBooks /\ BeatBooks /\ PacketBooks

LEMMA InitInv == Init => Inv
<1> SUFFICES ASSUME Init PROVE Inv
  OBVIOUS
<1> USE PacingAssumption, BoundsAssumption DEF Init
<1>1. Numbers /\ Booleans /\ Owners /\ SimExclusive
  <2>1. Numbers
    BY DEF Numbers
  <2>2. Booleans
    BY DEF Booleans
  <2>3. Owners /\ SimExclusive
    BY DEF Owners, Early, Interlocking, SimExclusive, ToolUsesSim
  <2> QED BY <2>1, <2>2, <2>3
<1>2. Places
  BY DEF Places
<1>3. SaveBooks
  BY DEF SaveBooks, NoSaveForgotten
<1>4. BeatBooks
  BY DEF BeatBooks, Furthest, Later
<1>5. PacketBooks
  BY DEF PacketBooks, PacketsInOrder, InSession, Leaving, InSim
<1> QED BY <1>1, <1>2, <1>3, <1>4, <1>5 DEF Inv, ExclusionInv

LEMMA InvNext == ASSUME OneAtATime, Inv, [Next]_vars PROVE Inv'
<1>1. ExclusionInv'
  BY NumbersKept, ExclusionKept DEF Inv, ExclusionInv
<1>2. Places' /\ SaveBooks' /\ BeatBooks' /\ PacketBooks'
  BY PlacesKept, SaveBooksKept, BeatBooksKept, PacketBooksKept DEF Inv
<1> QED BY <1>1, <1>2 DEF Inv

\* Init, the step and PTL, once for all theorems.
LEMMA InvAlways == ASSUME OneAtATime PROVE Spec => []Inv
BY InitInv, InvNext, PTL DEF Spec

\* The types of CSimDriver's members, and that mOutstandingRequests counts
\* exactly the session's start, a paused replay and a save not yet made.
THEOREM TypeCorrect == ASSUME OneAtATime PROVE Spec => []TypeOK
<1>1. Inv => TypeOK
  <2> SUFFICES ASSUME Inv PROVE TypeOK
    OBVIOUS
  <2>1. tools \in 0 .. MaxUses /\ saveRequest \in 0 .. MaxUses /\ used.saves <= MaxUses
    BY BoundsAssumption DEF Inv, ExclusionInv, Numbers, SaveBooks
  <2>2. archived \subseteq 1 .. MaxUses /\ completed \subseteq 1 .. MaxUses
    BY <2>1, BoundsAssumption DEF Inv, ExclusionInv, Numbers, SaveBooks, NoSaveForgotten
  <2>3. /\ lastDequeued \in -1 .. MaxBeat /\ dispatchBeat \in 1 .. MaxBeat + 1
        /\ nextIssueBeat \in 1 .. MaxBeat + 1 /\ available \in 0 .. MaxBeat
    BY BoundsAssumption DEF Inv, ExclusionInv, Numbers, BeatBooks
  <2>4. {created, stopIssue, stopCreate, interlocked, wantsToSave, synced, busy, started,
         paused} \subseteq BOOLEAN
    BY DEF Inv, ExclusionInv, Booleans
  <2>5. queue \in Seq(Nat)
    BY DEF Inv, ExclusionInv, Numbers
  <2> QED BY <2>1, <2>2, <2>3, <2>4, <2>5 DEF TypeOK, Inv, Places, SaveBooks
<1> QED BY <1>1, InvAlways, PTL

\* At most one thread runs, publishes, saves or uses the sim, which no lock
\* protects (ThreadCreateSim, Dispatch, ProcessEvents, ShutDown).
THEOREM OneInTheSim == ASSUME OneAtATime PROVE Spec => []SimExclusive
<1>1. Inv => SimExclusive
  BY DEF Inv, ExclusionInv
<1> QED BY <1>1, InvAlways, PTL

\* No beat is run before its orders are there, and none issued further ahead of
\* the screen than the pacing allows (ThreadRun's four regimes).
THEOREM DistanceKept == ASSUME OneAtATime PROVE Spec => []BeatsKeepTheirDistance
<1>1. Inv => BeatsKeepTheirDistance
  BY DEF Inv, BeatBooks, BeatsKeepTheirDistance, Furthest
<1> QED BY <1>1, InvAlways, PTL

\* The main thread takes the packets of consecutive beats, none twice and none
\* missing, though two threads publish them.
THEOREM PacketsFollow == ASSUME OneAtATime PROVE Spec => []PacketsInOrder
<1>1. Inv => PacketsInOrder
  BY DEF Inv, PacketBooks
<1> QED BY <1>1, InvAlways, PTL

\* A save asked for is pending or was completed with the sim in its archive.
THEOREM SavesKept == ASSUME OneAtATime PROVE Spec => []NoSaveForgotten
<1>1. Inv => NoSaveForgotten
  BY DEF Inv, SaveBooks
<1> QED BY <1>1, InvAlways, PTL
=============================================================================
