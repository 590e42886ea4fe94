------------------------ MODULE LauncherProcessProofs ------------------------
(* What holds of the launcher for every number of runs and delayed starts and *)
(* every capacity of its queue and pipes: runs are kept apart, the launcher   *)
(* exits only as asked and leaves no child behind, and a delayed start waits  *)
(* for its own timer.                                                         *)
(*                                                                            *)
(* The heart of it is what the event queue may hold: every event a run posts  *)
(* about itself is about the active run, and its end is the last of them, so  *)
(* that events which carry no run are not mistaken for those of the next one. *)
EXTENDS LauncherProcess, Integers, TLAPS

-----------------------------------------------------------------------------
(* The inductive invariant.                                                  *)

(* Where the goroutine, the scanner and the process of a run stand. *)
Supervised(r) ==
    /\ Started(r) <=> supervisor[r] # "none"
    /\ supervisor[r] \notin {"none", "end"} => active = r
    /\ active = r => Started(r)
    /\ canceled[r] => Started(r)
    /\ child[r] = "alive" => supervisor[r] \in {"spawned", "waiting"}
    /\ scanner[r] \in Lines \cup {"reading"} => supervisor[r] \in {"waiting", "collecting"}

(* What is on its way from the child to the queue was printed. *)
Output(r) ==
    /\ \A i \in DOMAIN pipe[r] : pipe[r][i] \in printed[r]
    /\ scanner[r] \in Lines => scanner[r] \in printed[r] /\ scanner[r] # "window"
    /\ "splash" \in printed[r] => "window" \in printed[r]
    /\ handoff[r] \in {"armed", "posting"} => "window" \in printed[r]

(* The events of a run, but for its hand-off timeout, which may come late. *)
RunKinds == {"started", "splash", "encode", "finish", "finished"}

Posted(e) ==
    /\ e.kind \in RunKinds => e.id = active
    /\ e.kind = "finished" => supervisor[e.id] = "end"
    /\ e.kind \in {"splash", "timeout"} => "window" \in printed[e.id]
    /\ e.kind = "encode" => "encode" \in printed[e.id]
    /\ e.kind = "task" => timer[e.id] = "off"

FinishedLast ==
    \A i, j \in DOMAIN runtimeEvents :
        i < j /\ runtimeEvents[i].kind = "finished" => runtimeEvents[j].kind \notin RunKinds

Queue == /\ \A i \in DOMAIN runtimeEvents : Posted(runtimeEvents[i])
         /\ FinishedLast

(* What the interface shows. *)
Shown ==
    /\ danserRunning <=> active # None
    /\ Live(dialog) => active # None /\ dialog.run = active
    /\ OwnEvents

(* What leads to an exit. *)
Leaving ==
    /\ main # "loop" \/ shouldClose \/ closeAfterDanser => exitWanted = "confirmed"
    /\ dialog.phase = "open" /\ dialog.exits => exitWanted # "no"
    /\ closeAfterDanser => active # None /\ canceled[active]
    /\ main = "loop" /\ active # None /\ canceled[active] => dialog.phase # "open"
    /\ main = "exited" /\ active # None => Done(active)

(* The types, by who changes what. *)
FlagType ==
    /\ shouldClose \in BOOLEAN /\ danserRunning \in BOOLEAN
    /\ gameplayHandedOff \in BOOLEAN /\ encodeInProgress \in BOOLEAN
    /\ closeAfterDanser \in BOOLEAN

UiType ==
    /\ main \in {"loop", "shutdown", "exited"} /\ exitWanted \in {"no", "asked", "confirmed"}
    /\ pendingStart \in Requests \cup {None} /\ active \in Runs \cup {None}
    /\ dialog \in [run : Runs \cup {None}, phase : {"open", "fading", "closed"}, exits : BOOLEAN]
    /\ timer \in [Requests -> {"none", "armed", "posting", "off"}]

QueueType == runtimeEvents \in Seq(Events) /\ Len(runtimeEvents) <= QueueCapacity

StartType ==
    /\ mode \in [Runs -> Modes \cup {"none"}]
    /\ canceled \in [Runs -> BOOLEAN]
    /\ supervisor \in [Runs -> {"none", "starting", "spawned", "waiting", "collecting",
                                "posting", "end"}]

ChildType ==
    /\ child \in [Runs -> {"none", "alive", "dead"}]
    /\ printed \in [Runs -> SUBSET Lines]
    /\ pipe \in [Runs -> Seq(Lines)] /\ \A r \in Runs : Len(pipe[r]) <= PipeCapacity
    /\ scanner \in [Runs -> Lines \cup {"none", "reading", "ended"}]
    /\ handoff \in [Runs -> {"none", "armed", "posting", "off"}]

Types == FlagType /\ UiType /\ QueueType /\ StartType /\ ChildType

Inv == /\ Types /\ Queue /\ Shown /\ Leaving
       /\ \A r \in Runs : Supervised(r) /\ Output(r)

(* Who takes a step: the main thread, the timer of a delayed start, or what *)
(* runs around the child of a run. *)
MainThread == User \/ DialogFades \/ DrainEvent \/ Shutdown \/ Exit
Timer(q) == TimerFires(q) \/ TimerPosts(q)
Around(r) == \/ Supervise(r) \/ Scan(r) \/ HandoffFires(r) \/ HandoffPosts(r)
             \/ Kill(r) \/ ChildDies(r) \/ \E line \in Lines : Emit(r, line)

LEMMA WhoSteps ==
  ASSUME [Next]_vars
  PROVE  \/ MainThread \/ UNCHANGED vars
         \/ \E q \in Requests : Timer(q)
         \/ \E r \in Runs : Around(r)
BY DEF Next, MainThread, Timer, Around, Terminated

LEMMA TypeParts == TypeOK <=> Types
BY DEF TypeOK, Types, FlagType, UiType, QueueType, StartType, ChildType

-----------------------------------------------------------------------------
LEMMA InitInv == Init => Inv
<1> SUFFICES ASSUME Init PROVE Inv
  OBVIOUS
<1>1. Types
  <2>1. FlagType
    BY Zenon DEF Init, FlagType
  <2>2. UiType
    BY DEF Init, UiType, NoDialog
  <2>3. QueueType
    BY LauncherAssumption DEF Init, QueueType
  <2>4. StartType
    BY DEF Init, StartType
  <2>5. ChildType
    BY LauncherAssumption DEF Init, ChildType
  <2> QED
    BY <2>1, <2>2, <2>3, <2>4, <2>5 DEF Types
<1>2. Queue
  BY DEF Init, Queue, FinishedLast
<1>3. Shown
  BY DEF Init, Shown, OwnEvents, Live, NoDialog
<1>4. Leaving
  BY DEF Init, Leaving, NoDialog
<1>5. ASSUME NEW r \in Runs PROVE Supervised(r) /\ Output(r)
  BY DEF Init, Supervised, Output, Started, Lines, LinesOf, Modes, None, Runs
<1> QED
  BY <1>1, <1>2, <1>3, <1>4, <1>5 DEF Inv

-----------------------------------------------------------------------------
(* What a step around a run leaves alone. *)
Elsewhere(r) ==
    /\ UNCHANGED <<shouldClose, danserRunning, gameplayHandedOff, encodeInProgress>>
    /\ UNCHANGED <<closeAfterDanser, pendingStart, dialog, exitWanted>>
    /\ UNCHANGED <<main, timer, active, mode, canceled>>
    /\ \A u \in Runs \ {r} :
          /\ supervisor'[u] = supervisor[u] /\ child'[u] = child[u] /\ printed'[u] = printed[u]
          /\ pipe'[u] = pipe[u] /\ scanner'[u] = scanner[u] /\ handoff'[u] = handoff[u]
    /\ printed[r] \subseteq printed'[r]

LEMMA AroundFrame ==
  ASSUME Types, NEW r \in Runs, Around(r)
  PROVE  Elsewhere(r)
<1> USE DEF Types, StartType, ChildType, Elsewhere, uiVars
<1>1. CASE StartFails(r)
  BY <1>1 DEF StartFails
<1>2. CASE StartSucceeds(r)
  BY <1>2 DEF StartSucceeds
<1>3. CASE PostStarted(r)
  BY <1>3 DEF PostStarted
<1>4. CASE WaitReturns(r)
  BY <1>4 DEF WaitReturns
<1>5. CASE Finish(r)
  BY <1>5 DEF Finish, OutputCollected
<1>6. CASE PostFinished(r)
  BY <1>6 DEF PostFinished
<1>7. CASE ScanLine(r)
  BY <1>7 DEF ScanLine
<1>8. CASE ScannerPosts(r)
  BY <1>8 DEF ScannerPosts
<1>9. CASE ScannerEnds(r)
  BY <1>9 DEF ScannerEnds
<1>10. CASE HandoffFires(r)
  BY <1>10 DEF HandoffFires
<1>11. CASE HandoffPosts(r)
  BY <1>11 DEF HandoffPosts
<1>12. CASE Kill(r)
  BY <1>12 DEF Kill, ChildDies
<1>13. CASE ChildDies(r)
  BY <1>13 DEF ChildDies
<1>14. ASSUME NEW line \in Lines, Emit(r, line) PROVE Elsewhere(r)
  BY <1>14 DEF Emit
<1> QED
  BY <1>1, <1>2, <1>3, <1>4, <1>5, <1>6, <1>7, <1>8, <1>9, <1>10, <1>11, <1>12, <1>13, <1>14
  DEF Around, Supervise, Scan

(* What a step of the main thread leaves alone. *)
LEMMA MainFrame ==
  ASSUME MainThread
  PROVE  UNCHANGED <<child, printed, pipe, scanner, handoff>>
BY DEF MainThread, User, DrainEvent, runVars, ClickRecord, ClickWatch, ClickStop,
    CloseRequest, ConfirmClick, DismissClick, DialogFades, DrainTask, DrainHandoff, DrainReport,
    DrainFinished, Shutdown, Exit

-----------------------------------------------------------------------------
(* Types. *)
LEMMA FlagsKept == ASSUME FlagType, MainThread PROVE FlagType'
<1> USE DEF FlagType, uiVars
<1>1. CASE ClickRecord
  BY <1>1, Zenon DEF ClickRecord, Idle, StartDanser, SupervisorStart
<1>2. CASE ClickWatch
  BY <1>2, Zenon DEF ClickWatch
<1>3. CASE ClickStop
  BY <1>3, Zenon DEF ClickStop, ConfirmProcessCancellation, KeepsExit, CancelPendingStart, StopTimer
<1>4. CASE CloseRequest
  BY <1>4, Zenon
  DEF CloseRequest, ConfirmProcessCancellation, KeepsExit, CancelPendingStart, StopTimer
<1>5. CASE ConfirmClick
  BY <1>5, Zenon DEF ConfirmClick
<1>6. CASE DismissClick
  BY <1>6, Zenon DEF DismissClick
<1>7. CASE DialogFades
  BY <1>7, Zenon DEF DialogFades
<1>8. CASE DrainTask
  BY <1>8, Zenon DEF DrainTask, Drain, CancelPendingStart, StopTimer, StartDanser, SupervisorStart
<1>9. CASE DrainHandoff
  BY <1>9, Zenon DEF DrainHandoff, Drain
<1>10. CASE DrainReport
  BY <1>10, Zenon DEF DrainReport, Drain
<1>11. CASE DrainFinished
  BY <1>11, Zenon DEF DrainFinished, Drain, DialogAfter, ActiveAfter
<1>12. CASE Shutdown
  BY <1>12, Zenon DEF Shutdown, CancelPendingStart, StopTimer
<1>13. CASE Exit
  BY <1>13, Zenon DEF Exit
<1> QED
  BY <1>1, <1>2, <1>3, <1>4, <1>5, <1>6, <1>7, <1>8, <1>9, <1>10, <1>11, <1>12, <1>13
  DEF MainThread, User, DrainEvent

LEMMA DialogOpened ==
  ASSUME UiType, NEW r \in Runs, NEW exit \in BOOLEAN, ConfirmProcessCancellation(r, exit)
  PROVE  dialog' \in [run : Runs \cup {None}, phase : {"open", "fading", "closed"}, exits : BOOLEAN]
<1>1. dialog.exits \in BOOLEAN
  BY DEF UiType
<1>2. KeepsExit(exit) \in BOOLEAN
  BY <1>1 DEF KeepsExit
<1>3. (IF Live(dialog) /\ dialog.run = r THEN KeepsExit(exit) ELSE exit) \in BOOLEAN
  BY <1>2
<1> QED
  BY <1>3 DEF ConfirmProcessCancellation

LEMMA UiKept == ASSUME UiType, QueueType, StartType, MainThread PROVE UiType'
<1> USE DEF uiVars
<1>1. CASE ClickRecord
  BY <1>1 DEF UiType, ClickRecord, Idle, StartDanser, SupervisorStart
<1>2. CASE ClickWatch
  BY <1>2 DEF UiType, ClickWatch
<1>3. CASE ClickStop
  <2>1. timer' \in [Requests -> {"none", "armed", "posting", "off"}]
    BY <1>3 DEF UiType, ClickStop, CancelPendingStart, StopTimer
  <2>2. dialog' \in [run : Runs \cup {None}, phase : {"open", "fading", "closed"}, exits : BOOLEAN]
    <3>1. CASE ActiveRun(active) /\ ConfirmProcessCancellation(active, FALSE)
      BY <3>1, DialogOpened DEF UiType, ActiveRun
    <3>2. CASE UNCHANGED dialog
      BY <3>2 DEF UiType
    <3> QED
      BY <1>3, <3>1, <3>2 DEF ClickStop
  <2> QED
    BY <1>3, <2>1, <2>2 DEF UiType, ClickStop, CancelPendingStart
<1>4. CASE CloseRequest
  <2>1. timer' \in [Requests -> {"none", "armed", "posting", "off"}]
    BY <1>4 DEF UiType, CloseRequest, CancelPendingStart, StopTimer
  <2>2. dialog' \in [run : Runs \cup {None}, phase : {"open", "fading", "closed"}, exits : BOOLEAN]
    <3>1. CASE ActiveRun(active) /\ ConfirmProcessCancellation(active, TRUE)
      BY <3>1, DialogOpened DEF UiType, ActiveRun
    <3>2. CASE UNCHANGED dialog
      BY <3>2 DEF UiType
    <3> QED
      BY <1>4, <3>1, <3>2 DEF CloseRequest
  <2> QED
    BY <1>4, <2>1, <2>2 DEF UiType, CloseRequest, CancelPendingStart
<1>5. CASE ConfirmClick
  BY <1>5 DEF UiType, ConfirmClick
<1>6. CASE DismissClick
  BY <1>6 DEF UiType, DismissClick
<1>7. CASE DialogFades
  BY <1>7 DEF UiType, DialogFades
<1>8. CASE DrainTask
  BY <1>8 DEF UiType, DrainTask, Drain, CancelPendingStart, StopTimer, StartDanser, SupervisorStart
<1>9. CASE DrainHandoff
  BY <1>9 DEF UiType, DrainHandoff, Drain
<1>10. CASE DrainReport
  BY <1>10 DEF UiType, DrainReport, Drain
<1>11. CASE DrainFinished
  <2>1. dialog' = dialog \/ dialog' = NoDialog
    BY <1>11 DEF DrainFinished, DialogAfter
  <2>2. active' = active \/ active' = None
    BY <1>11 DEF DrainFinished, ActiveAfter
  <2>3. exitWanted' \in {exitWanted, "no"} /\ UNCHANGED <<main, pendingStart, timer>>
    BY <1>11 DEF DrainFinished
  <2>4. NoDialog \in [run : Runs \cup {None}, phase : {"open", "fading", "closed"}, exits : BOOLEAN]
    BY DEF NoDialog
  <2> QED
    BY <2>1, <2>2, <2>3, <2>4 DEF UiType
<1>12. CASE Shutdown
  BY <1>12 DEF UiType, Shutdown, CancelPendingStart, StopTimer
<1>13. CASE Exit
  BY <1>13 DEF UiType, Exit
<1> QED
  BY <1>1, <1>2, <1>3, <1>4, <1>5, <1>6, <1>7, <1>8, <1>9, <1>10, <1>11, <1>12, <1>13
  DEF MainThread, User, DrainEvent

LEMMA StartKept == ASSUME UiType, StartType, MainThread PROVE StartType'
<1> USE DEF UiType, StartType, runVars, Modes
<1>1. CASE ClickRecord
  BY <1>1 DEF ClickRecord, Idle, StartDanser, SupervisorStart
<1>2. CASE ClickWatch
  BY <1>2 DEF ClickWatch
<1>3. CASE ClickStop
  BY <1>3 DEF ClickStop, ConfirmProcessCancellation, KeepsExit, CancelPendingStart, StopTimer
<1>4. CASE CloseRequest
  BY <1>4 DEF CloseRequest, ConfirmProcessCancellation, KeepsExit, CancelPendingStart, StopTimer
<1>5. CASE ConfirmClick
  BY <1>5 DEF ConfirmClick
<1>6. CASE DismissClick
  BY <1>6 DEF DismissClick
<1>7. CASE DialogFades
  BY <1>7 DEF DialogFades
<1>8. CASE DrainTask
  BY <1>8 DEF DrainTask, Drain, CancelPendingStart, StopTimer, StartDanser, SupervisorStart
<1>9. CASE DrainHandoff
  BY <1>9 DEF DrainHandoff, Drain
<1>10. CASE DrainReport
  BY <1>10 DEF DrainReport, Drain
<1>11. CASE DrainFinished
  BY <1>11 DEF DrainFinished, Drain, DialogAfter, ActiveAfter
<1>12. CASE Shutdown
  BY <1>12 DEF Shutdown, CancelPendingStart, StopTimer
<1>13. CASE Exit
  BY <1>13 DEF Exit
<1> QED
  BY <1>1, <1>2, <1>3, <1>4, <1>5, <1>6, <1>7, <1>8, <1>9, <1>10, <1>11, <1>12, <1>13
  DEF MainThread, User, DrainEvent

LEMMA RunKept ==
  ASSUME StartType, ChildType, NEW r \in Runs, Around(r)
  PROVE  StartType' /\ ChildType'
<1> USE DEF StartType, ChildType, uiVars
<1>1. CASE StartFails(r)
  BY <1>1 DEF StartFails
<1>2. CASE StartSucceeds(r)
  BY <1>2 DEF StartSucceeds
<1>3. CASE PostStarted(r)
  BY <1>3 DEF PostStarted
<1>4. CASE WaitReturns(r)
  BY <1>4 DEF WaitReturns
<1>5. CASE Finish(r)
  BY <1>5 DEF Finish, OutputCollected
<1>6. CASE PostFinished(r)
  BY <1>6 DEF PostFinished
<1>7. CASE ScanLine(r)
  <2> DEFINE line == Head(pipe[r])
  <2>1. /\ pipe[r] \in Seq(Lines) /\ pipe[r] # <<>> /\ pipe' = [pipe EXCEPT ![r] = Tail(pipe[r])]
        /\ scanner' = [scanner EXCEPT ![r] = IF line = "window" THEN "reading" ELSE line]
        /\ handoff' = [handoff EXCEPT ![r] =
              CASE line = "window" /\ handoff[r] = "none" -> "armed"
                [] line = "splash" /\ handoff[r] # "posting" -> "off"
                [] OTHER -> handoff[r]]
        /\ UNCHANGED <<mode, canceled, supervisor, child, printed>>
    BY <1>7 DEF ScanLine
  <2>2. line \in Lines /\ Tail(pipe[r]) \in Seq(Lines) /\ Len(Tail(pipe[r])) <= PipeCapacity
    BY <2>1, LauncherAssumption
  <2> HIDE DEF line
  <2>3. pipe' \in [Runs -> Seq(Lines)] /\ \A u \in Runs : Len(pipe'[u]) <= PipeCapacity
    BY <2>1, <2>2
  <2>4. scanner' \in [Runs -> Lines \cup {"none", "reading", "ended"}]
    BY <2>1, <2>2
  <2>5. handoff' \in [Runs -> {"none", "armed", "posting", "off"}]
    BY <2>1
  <2> QED
    BY <2>1, <2>3, <2>4, <2>5
<1>8. CASE ScannerPosts(r)
  BY <1>8 DEF ScannerPosts
<1>9. CASE ScannerEnds(r)
  BY <1>9 DEF ScannerEnds
<1>10. CASE HandoffFires(r)
  BY <1>10 DEF HandoffFires
<1>11. CASE HandoffPosts(r)
  BY <1>11 DEF HandoffPosts
<1>12. CASE Kill(r)
  BY <1>12 DEF Kill, ChildDies
<1>13. CASE ChildDies(r)
  BY <1>13 DEF ChildDies
<1>14. ASSUME NEW line \in Lines, Emit(r, line) PROVE StartType' /\ ChildType'
  <2>1. /\ pipe[r] \in Seq(Lines) /\ Len(pipe[r]) < PipeCapacity
        /\ pipe' = [pipe EXCEPT ![r] = Append(pipe[r], line)]
        /\ printed' = [printed EXCEPT ![r] = printed[r] \cup {line}]
        /\ UNCHANGED <<mode, canceled, supervisor, child, scanner, handoff>>
    BY <1>14 DEF Emit
  <2>2. Append(pipe[r], line) \in Seq(Lines) /\ Len(Append(pipe[r], line)) <= PipeCapacity
    BY <1>14, <2>1, LauncherAssumption
  <2>3. pipe' \in [Runs -> Seq(Lines)] /\ \A u \in Runs : Len(pipe'[u]) <= PipeCapacity
    BY <2>1, <2>2
  <2>4. printed' \in [Runs -> SUBSET Lines]
    BY <1>14, <2>1
  <2> QED
    BY <2>1, <2>3, <2>4
<1> QED
  BY <1>1, <1>2, <1>3, <1>4, <1>5, <1>6, <1>7, <1>8, <1>9, <1>10, <1>11, <1>12, <1>13, <1>14
  DEF Around, Supervise, Scan

-----------------------------------------------------------------------------
(* The event queue. *)
LEMMA EventParts ==
  ASSUME NEW e \in Events
  PROVE  e.id \in Runs /\ e.kind \in RunKinds \cup {"timeout", "task"}
BY DEF Events, Event, Runs, Requests, RunKinds

(* What the queue relies on only comes to be. *)
Stays ==
    /\ \A u \in Runs : /\ supervisor[u] = "end" => supervisor'[u] = "end"
                       /\ printed[u] \subseteq printed'[u]
    /\ \A q \in Requests : timer[q] = "off" => timer'[q] = "off"

PostedNext(e) ==
    /\ e.kind \in RunKinds => e.id = active'
    /\ e.kind = "finished" => supervisor'[e.id] = "end"
    /\ e.kind \in {"splash", "timeout"} => "window" \in printed'[e.id]
    /\ e.kind = "encode" => "encode" \in printed'[e.id]
    /\ e.kind = "task" => timer'[e.id] = "off"

LEMMA PostedStays ==
  ASSUME NEW e \in Events, Posted(e), Stays, e.kind \in RunKinds => active' = active
  PROVE  PostedNext(e)
<1>1. e.id \in Runs /\ e.id \in Requests
  BY EventParts DEF Runs, Requests
<1> QED
  BY <1>1 DEF Posted, PostedNext, Stays

(* A send: the new event is what its sender may post. *)
LEMMA QueueGrows ==
  ASSUME QueueType, Queue, Stays, active' = active, NEW e \in Events,
         HasRoom, runtimeEvents' = Append(runtimeEvents, e), PostedNext(e),
         e.kind \in RunKinds => \A i \in DOMAIN runtimeEvents : runtimeEvents[i].kind # "finished"
  PROVE  QueueType' /\ Queue'
<1>1. runtimeEvents \in Seq(Events)
  BY DEF QueueType
<1>2. /\ runtimeEvents' \in Seq(Events) /\ Len(runtimeEvents') = Len(runtimeEvents) + 1
      /\ Len(runtimeEvents) \in Nat
      /\ \A i \in DOMAIN runtimeEvents : runtimeEvents'[i] = runtimeEvents[i]
      /\ runtimeEvents'[Len(runtimeEvents) + 1] = e
      /\ DOMAIN runtimeEvents = 1 .. Len(runtimeEvents)
      /\ DOMAIN runtimeEvents' = 1 .. Len(runtimeEvents) + 1
  BY <1>1
<1>3. QueueType'
  BY <1>2, LauncherAssumption DEF QueueType, HasRoom
<1>4. ASSUME NEW i \in DOMAIN runtimeEvents' PROVE PostedNext(runtimeEvents'[i])
  <2>1. CASE i \in DOMAIN runtimeEvents
    <3>1. runtimeEvents[i] \in Events /\ Posted(runtimeEvents[i])
      BY <1>1, <2>1 DEF Queue
    <3>2. PostedNext(runtimeEvents[i])
      BY <3>1, PostedStays
    <3> QED
      BY <1>2, <2>1, <3>2
  <2>2. CASE i = Len(runtimeEvents) + 1
    BY <1>2, <2>2
  <2> QED
    BY <1>2, <2>1, <2>2
<1>5. FinishedLast'
  <2> SUFFICES ASSUME NEW i \in DOMAIN runtimeEvents', NEW j \in DOMAIN runtimeEvents',
                      i < j, runtimeEvents'[i].kind = "finished"
               PROVE  runtimeEvents'[j].kind \notin RunKinds
    BY DEF FinishedLast
  <2>1. i \in DOMAIN runtimeEvents /\ runtimeEvents[i].kind = "finished"
    BY <1>2
  <2>2. CASE j \in DOMAIN runtimeEvents
    BY <1>2, <2>1, <2>2 DEF Queue, FinishedLast
  <2>3. CASE j = Len(runtimeEvents) + 1
    BY <1>2, <2>1, <2>3
  <2> QED
    BY <1>2, <2>2, <2>3
<1> QED
  BY <1>3, <1>4, <1>5 DEF Queue, Posted, PostedNext

(* No send, or none that was let in. *)
LEMMA QueueRests ==
  ASSUME QueueType, Queue, Stays, UNCHANGED runtimeEvents,
         active' = active
         \/ \A i \in DOMAIN runtimeEvents : runtimeEvents[i].kind \notin RunKinds
  PROVE  QueueType' /\ Queue'
<1>1. ASSUME NEW i \in DOMAIN runtimeEvents PROVE PostedNext(runtimeEvents[i])
  <2>1. runtimeEvents[i] \in Events /\ Posted(runtimeEvents[i])
    BY DEF QueueType, Queue
  <2> QED
    BY <2>1, PostedStays
<1> QED
  BY <1>1 DEF QueueType, Queue, FinishedLast, Posted, PostedNext

(* A receive. *)
LEMMA QueueShrinks ==
  ASSUME QueueType, Queue, Stays, runtimeEvents # <<>>, runtimeEvents' = Tail(runtimeEvents),
         \/ active' = active
         \/ \A i \in DOMAIN runtimeEvents : i > 1 => runtimeEvents[i].kind \notin RunKinds
  PROVE  QueueType' /\ Queue'
<1>1. /\ Tail(runtimeEvents) \in Seq(Events)
      /\ Len(runtimeEvents) \in Nat /\ Len(Tail(runtimeEvents)) = Len(runtimeEvents) - 1
      /\ DOMAIN Tail(runtimeEvents) = 1 .. Len(runtimeEvents) - 1
      /\ \A i \in DOMAIN Tail(runtimeEvents) :
            /\ i + 1 \in DOMAIN runtimeEvents
            /\ Tail(runtimeEvents)[i] = runtimeEvents[i + 1]
  BY DEF QueueType
<1>2. QueueType'
  BY <1>1, LauncherAssumption DEF QueueType
<1>3. ASSUME NEW i \in DOMAIN runtimeEvents' PROVE PostedNext(runtimeEvents'[i])
  <2> DEFINE e == runtimeEvents'[i]
  <2>1. /\ e \in Events /\ e = runtimeEvents[i + 1] /\ i + 1 \in DOMAIN runtimeEvents
        /\ i \in Nat /\ i > 0 /\ i + 1 > 1
    BY <1>1
  <2>2. Posted(e)
    BY <2>1 DEF Queue
  <2>3. e.kind \in RunKinds => active' = active
    BY <2>1
  <2> HIDE DEF e
  <2>4. PostedNext(e)
    BY <2>1, <2>2, <2>3, PostedStays
  <2> QED
    BY <2>4 DEF e
<1>4. FinishedLast'
  <2> SUFFICES ASSUME NEW i \in DOMAIN runtimeEvents', NEW j \in DOMAIN runtimeEvents',
                      i < j, runtimeEvents'[i].kind = "finished"
               PROVE  runtimeEvents'[j].kind \notin RunKinds
    BY DEF FinishedLast
  <2>1. i + 1 \in DOMAIN runtimeEvents /\ j + 1 \in DOMAIN runtimeEvents /\ i + 1 < j + 1
    BY <1>1
  <2> QED
    BY <1>1, <2>1 DEF Queue, FinishedLast
<1> QED
  BY <1>2, <1>3, <1>4 DEF Queue, Posted, PostedNext

-----------------------------------------------------------------------------
(* Steps around a run. *)

(* What r may post, and from where. *)
NewEvent(r, e) ==
    /\ e \in Events /\ e.id = r
    /\ e.kind \in RunKinds => supervisor[r] \notin {"none", "end"}
    /\ e.kind = "finished" => supervisor'[r] = "end"
    /\ e.kind \in {"splash", "timeout"} => "window" \in printed[r]
    /\ e.kind = "encode" => "encode" \in printed[r]
    /\ e.kind # "task"

LEMMA AroundPosts ==
  ASSUME Types, NEW r \in Runs, Supervised(r), Output(r), Around(r)
  PROVE  \/ UNCHANGED runtimeEvents
         \/ \E e \in Events : /\ HasRoom /\ runtimeEvents' = Append(runtimeEvents, e)
                              /\ NewEvent(r, e)
<1> USE DEF uiVars
<1>1. CASE StartFails(r)
  BY <1>1 DEF StartFails
<1>2. CASE StartSucceeds(r)
  BY <1>2 DEF StartSucceeds
<1>3. CASE PostStarted(r)
  <2> DEFINE e == Event("started", r)
  <2>1. UNCHANGED runtimeEvents \/ (HasRoom /\ runtimeEvents' = Append(runtimeEvents, e))
    BY <1>3, Zenon DEF PostStarted, PostEventContext, PostEvent, PostResult
  <2>2. e \in Events /\ NewEvent(r, e)
    BY <1>3 DEF PostStarted, Event, Events, NewEvent, RunKinds, Supervised
  <2> QED
    BY <2>1, <2>2
<1>4. CASE WaitReturns(r)
  BY <1>4 DEF WaitReturns
<1>5. CASE Finish(r)
  BY <1>5 DEF Finish, OutputCollected
<1>6. CASE PostFinished(r)
  <2> DEFINE e == Event("finished", r)
  <2>1. UNCHANGED runtimeEvents \/ (HasRoom /\ runtimeEvents' = Append(runtimeEvents, e))
    BY <1>6, Zenon DEF PostFinished, PostEventContext, PostEvent, PostResult
  <2>2. e \in Events /\ NewEvent(r, e)
    BY <1>6 DEF PostFinished, Event, Events, NewEvent, RunKinds, Types, StartType
  <2> QED
    BY <2>1, <2>2
<1>7. CASE ScanLine(r)
  BY <1>7 DEF ScanLine
<1>8. CASE ScannerPosts(r)
  <2> DEFINE e == Event(scanner[r], r)
  <2>1. UNCHANGED runtimeEvents \/ (HasRoom /\ runtimeEvents' = Append(runtimeEvents, e))
    BY <1>8, Zenon DEF ScannerPosts, PostEventContext
  <2>2. /\ scanner[r] \in Lines /\ scanner[r] \in {"splash", "encode", "finish"}
        /\ scanner[r] \in printed[r] /\ supervisor[r] \in {"waiting", "collecting"}
        /\ "splash" \in printed[r] => "window" \in printed[r]
    BY <1>8 DEF ScannerPosts, Lines, LinesOf, Modes, Supervised, Output
  <2>3. e \in Events /\ NewEvent(r, e)
    BY <2>2 DEF Event, Events, NewEvent, RunKinds
  <2> QED
    BY <2>1, <2>3
<1>9. CASE ScannerEnds(r)
  BY <1>9 DEF ScannerEnds
<1>10. CASE HandoffFires(r)
  BY <1>10 DEF HandoffFires
<1>11. CASE HandoffPosts(r)
  <2> DEFINE e == Event("timeout", r)
  <2>1. UNCHANGED runtimeEvents \/ (HasRoom /\ runtimeEvents' = Append(runtimeEvents, e))
    BY <1>11, Zenon DEF HandoffPosts, PostEventContext, PostEvent, PostResult
  <2>2. e \in Events /\ NewEvent(r, e)
    BY <1>11 DEF HandoffPosts, Event, Events, NewEvent, RunKinds, Output
  <2> QED
    BY <2>1, <2>2
<1>12. CASE Kill(r)
  BY <1>12 DEF Kill, ChildDies
<1>13. CASE ChildDies(r)
  BY <1>13 DEF ChildDies
<1>14. ASSUME NEW line \in Lines, Emit(r, line) PROVE UNCHANGED runtimeEvents
  BY <1>14 DEF Emit
<1> QED
  BY <1>1, <1>2, <1>3, <1>4, <1>5, <1>6, <1>7, <1>8, <1>9, <1>10, <1>11, <1>12, <1>13, <1>14
  DEF Around, Supervise, Scan

LEMMA AroundStays ==
  ASSUME Types, NEW r \in Runs, Around(r)
  PROVE  Stays /\ (supervisor[r] = "posting" => supervisor'[r] \in {"posting", "end"})
<1>1. Elsewhere(r)
  BY AroundFrame
<1>2. /\ supervisor[r] = "end" => supervisor'[r] = "end"
      /\ supervisor[r] = "posting" => supervisor'[r] \in {"posting", "end"}
  <2>1. CASE StartFails(r)
    BY   <2>1 DEF StartFails, Types, StartType
  <2>2. CASE StartSucceeds(r)
    BY   <2>2 DEF StartSucceeds, Types, StartType
  <2>3. CASE PostStarted(r)
    BY   <2>3 DEF PostStarted, Types, StartType
  <2>4. CASE WaitReturns(r)
    BY   <2>4 DEF WaitReturns, Types, StartType
  <2>5. CASE Finish(r)
    BY   <2>5 DEF Finish, OutputCollected, Types, StartType
  <2>6. CASE PostFinished(r)
    BY   <2>6 DEF PostFinished, Types, StartType
  <2>7. CASE ScanLine(r)
    BY   <2>7 DEF ScanLine, Types, StartType
  <2>8. CASE ScannerPosts(r)
    BY   <2>8 DEF ScannerPosts, Types, StartType
  <2>9. CASE ScannerEnds(r)
    BY   <2>9 DEF ScannerEnds, Types, StartType
  <2>10. CASE HandoffFires(r)
    BY   <2>10 DEF HandoffFires, Types, StartType
  <2>11. CASE HandoffPosts(r)
    BY   <2>11 DEF HandoffPosts, Types, StartType
  <2>12. CASE Kill(r)
    BY   <2>12 DEF Kill, ChildDies, Types, StartType
  <2>13. CASE ChildDies(r)
    BY   <2>13 DEF ChildDies, Types, StartType
  <2>14. ASSUME NEW line \in Lines, Emit(r, line) PROVE UNCHANGED supervisor
    BY   <2>14 DEF Emit
  <2> QED
  BY   <2>1,   <2>2,   <2>3,   <2>4,   <2>5,   <2>6,   <2>7,   <2>8,   <2>9,   <2>10,   <2>11,
       <2>12,   <2>13,   <2>14 DEF Around, Supervise, Scan
<1> QED
  BY <1>1, <1>2 DEF Stays, Elsewhere, Types

LEMMA AroundQueue ==
  ASSUME Types, Queue, NEW r \in Runs, Supervised(r), Output(r), Around(r)
  PROVE  QueueType' /\ Queue'
<1>1. Stays /\ active' = active /\ printed[r] \subseteq printed'[r]
  BY AroundStays, AroundFrame DEF Elsewhere
<1>2. CASE UNCHANGED runtimeEvents
  BY <1>1, <1>2, QueueRests DEF Types
<1>3. ASSUME NEW e \in Events, HasRoom, runtimeEvents' = Append(runtimeEvents, e), NewEvent(r, e)
      PROVE  QueueType' /\ Queue'
  <2>1. PostedNext(e)
    BY <1>1, <1>3 DEF NewEvent, PostedNext, Supervised
  <2>2. ASSUME e.kind \in RunKinds, NEW i \in DOMAIN runtimeEvents
        PROVE  runtimeEvents[i].kind # "finished"
    BY <1>3, <2>2 DEF NewEvent, Supervised, Queue, Posted, RunKinds
  <2> QED
    BY <1>1, <1>3, <2>1, <2>2, QueueGrows DEF Types
<1> QED
  BY <1>2, <1>3, AroundPosts

LEMMA SupervisedKept ==
  ASSUME Types, NEW r \in Runs, Supervised(r), Around(r)
  PROVE  Supervised(r)'
<1> USE DEF Types, StartType, ChildType, Supervised, Started, Lines, LinesOf, Modes
<1>1. CASE StartFails(r)
  BY <1>1 DEF StartFails, Go
<1>2. CASE StartSucceeds(r)
  BY <1>2 DEF StartSucceeds, Go
<1>3. CASE PostStarted(r)
  BY <1>3 DEF PostStarted, Go
<1>4. CASE WaitReturns(r)
  BY <1>4 DEF WaitReturns, Go
<1>5. CASE Finish(r)
  BY <1>5 DEF Finish, OutputCollected, Go
<1>6. CASE PostFinished(r)
  BY <1>6 DEF PostFinished, Go
<1>7. CASE ScanLine(r)
  BY <1>7 DEF ScanLine, Go
<1>8. CASE ScannerPosts(r)
  BY <1>8 DEF ScannerPosts, Go
<1>9. CASE ScannerEnds(r)
  BY <1>9 DEF ScannerEnds, Go
<1>10. CASE HandoffFires(r)
  BY <1>10 DEF HandoffFires, Go
<1>11. CASE HandoffPosts(r)
  BY <1>11 DEF HandoffPosts, Go
<1>12. CASE Kill(r)
  BY <1>12 DEF Kill, ChildDies, Go
<1>13. CASE ChildDies(r)
  BY <1>13 DEF ChildDies, Go
<1>14. ASSUME NEW line \in Lines, Emit(r, line) PROVE Supervised(r)'
  BY <1>14 DEF Emit
<1> QED
  BY <1>1, <1>2, <1>3, <1>4, <1>5, <1>6, <1>7, <1>8, <1>9, <1>10, <1>11, <1>12, <1>13, <1>14
  DEF Around, Supervise, Scan

LEMMA OutputKept ==
  ASSUME Types, NEW r \in Runs, Output(r), Around(r)
  PROVE  Output(r)'
<1> USE DEF Types, StartType, ChildType, Output
<1>1. CASE StartFails(r)
  BY <1>1 DEF StartFails, Lines, LinesOf, Modes
<1>2. CASE StartSucceeds(r)
  BY <1>2 DEF StartSucceeds, Lines, LinesOf, Modes
<1>3. CASE PostStarted(r)
  BY <1>3 DEF PostStarted, Lines, LinesOf, Modes
<1>4. CASE WaitReturns(r)
  BY <1>4 DEF WaitReturns, Lines, LinesOf, Modes
<1>5. CASE Finish(r)
  BY <1>5 DEF Finish, OutputCollected, Lines, LinesOf, Modes
<1>6. CASE PostFinished(r)
  BY <1>6 DEF PostFinished, Lines, LinesOf, Modes
<1>7. CASE ScanLine(r)
  <2> DEFINE line == Head(pipe[r])
  <2>1. /\ pipe[r] \in Seq(Lines) /\ pipe[r] # <<>> /\ pipe'[r] = Tail(pipe[r])
        /\ scanner'[r] = IF line = "window" THEN "reading" ELSE line
        /\ handoff'[r] \in {"armed", "posting"}
              => line = "window" \/ handoff[r] \in {"armed", "posting"}
        /\ UNCHANGED <<printed>>
    BY <1>7 DEF ScanLine
  <2>2. /\ line = pipe[r][1] /\ 1 \in DOMAIN pipe[r]
        /\ \A i \in DOMAIN Tail(pipe[r]) : /\ i + 1 \in DOMAIN pipe[r]
                                          /\ Tail(pipe[r])[i] = pipe[r][i + 1]
    BY <2>1
  <2> HIDE DEF line
  <2>3. line \in printed[r]
    BY <2>2
  <2>4. \A i \in DOMAIN pipe'[r] : pipe'[r][i] \in printed'[r]
    BY <2>1, <2>2
  <2> QED
    BY <2>1, <2>3, <2>4 DEF Lines, LinesOf, Modes
<1>8. CASE ScannerPosts(r)
  BY <1>8 DEF ScannerPosts, Lines, LinesOf, Modes
<1>9. CASE ScannerEnds(r)
  BY <1>9 DEF ScannerEnds, Lines, LinesOf, Modes
<1>10. CASE HandoffFires(r)
  BY <1>10 DEF HandoffFires, Lines, LinesOf, Modes
<1>11. CASE HandoffPosts(r)
  BY <1>11 DEF HandoffPosts, Lines, LinesOf, Modes
<1>12. CASE Kill(r)
  BY <1>12 DEF Kill, ChildDies, Lines, LinesOf, Modes
<1>13. CASE ChildDies(r)
  BY <1>13 DEF ChildDies, Lines, LinesOf, Modes
<1>14. ASSUME NEW line \in Lines, Emit(r, line) PROVE Output(r)'
  <2>1. /\ pipe[r] \in Seq(Lines) /\ pipe'[r] = Append(pipe[r], line)
        /\ printed'[r] = printed[r] \cup {line}
        /\ Before(line) \subseteq printed[r]
        /\ UNCHANGED <<scanner, handoff>>
    BY <1>14 DEF Emit
  <2>2. /\ DOMAIN pipe'[r] = 1 .. Len(pipe[r]) + 1 /\ DOMAIN pipe[r] = 1 .. Len(pipe[r])
        /\ \A i \in DOMAIN pipe[r] : pipe'[r][i] = pipe[r][i]
        /\ pipe'[r][Len(pipe[r]) + 1] = line /\ Len(pipe[r]) \in Nat
    BY <1>14, <2>1
  <2>3. ASSUME NEW i \in DOMAIN pipe'[r] PROVE pipe'[r][i] \in printed'[r]
    <3>1. CASE i \in DOMAIN pipe[r]
      BY <2>1, <2>2, <3>1
    <3>2. CASE i = Len(pipe[r]) + 1
      BY <2>1, <2>2, <3>2
    <3> QED
      BY <2>2, <3>1, <3>2
  <2>4. line = "splash" => "window" \in printed[r]
    BY <2>1 DEF Before
  <2> QED
    BY <2>1, <2>3, <2>4
<1> QED
  BY <1>1, <1>2, <1>3, <1>4, <1>5, <1>6, <1>7, <1>8, <1>9, <1>10, <1>11, <1>12, <1>13, <1>14
  DEF Around, Supervise, Scan

(* A run sees nothing of a step around another one. *)
LEMMA OthersKept ==
  ASSUME Types, NEW r \in Runs, Around(r), NEW u \in Runs, u # r, Supervised(u), Output(u)
  PROVE  Supervised(u)' /\ Output(u)'
<1>1. Elsewhere(r)
  BY AroundFrame
<1>2. Supervised(u)'
  BY <1>1 DEF Elsewhere, Supervised, Started
<1>3. Output(u)'
  BY <1>1 DEF Elsewhere, Output
<1> QED
  BY <1>2, <1>3

LEMMA AroundShown ==
  ASSUME Types, Shown, Leaving, NEW r \in Runs, Around(r)
  PROVE  Shown' /\ Leaving'
<1>1. Elsewhere(r) /\ Stays /\ (supervisor[r] = "posting" => supervisor'[r] \in {"posting", "end"})
  BY AroundFrame, AroundStays
<1>2. Shown'
  <2>1. active \in Runs \cup {None}
    BY DEF Types, UiType
  <2> QED
    BY <1>1, <2>1 DEF Shown, OwnEvents, Live, Elsewhere, Stays
<1>3. ASSUME active # None, Done(active) PROVE Done(active)'
  <2>1. active \in Runs /\ active' = active
    BY <1>1, <1>3 DEF Types, UiType, Elsewhere
  <2>2. CASE active = r
    BY <1>1, <1>3, <2>1, <2>2 DEF Done, Stays
  <2>3. CASE active # r
    BY <1>1, <1>3, <2>1, <2>3 DEF Done, Elsewhere
  <2> QED
    BY <2>2, <2>3
<1>4. Leaving'
  BY <1>1, <1>3 DEF Leaving, Elsewhere
<1> QED
  BY <1>2, <1>4

-----------------------------------------------------------------------------
(* Steps of the main thread. *)

(* startDanser refuses, or launches a run of its own: none was active. *)
NoLaunch == UNCHANGED <<danserRunning, gameplayHandedOff, encodeInProgress, active, mode, supervisor>>

Launches(r) ==
    /\ active = None /\ active' = r /\ supervisor[r] = "none"
    /\ ~gameplayHandedOff' /\ ~encodeInProgress' /\ danserRunning'
    /\ \E m \in Modes : mode' = [mode EXCEPT ![r] = m]
    /\ supervisor' = [supervisor EXCEPT ![r] = "starting"]

LEMMA StartEffect ==
  ASSUME Types, Shown, \A r \in Runs : Supervised(r), NEW m \in Modes, StartDanser(m)
  PROVE  NoLaunch \/ \E r \in Runs : Launches(r)
<1>1. CASE ~danserRunning /\ gameplayHandedOff' = FALSE /\ encodeInProgress' = FALSE /\ SupervisorStart(m)
  <2>1. active = None
    BY <1>1 DEF Shown
  <2>2. PICK r \in Runs : /\ ~Started(r) /\ active' = r /\ danserRunning' = TRUE
                          /\ mode' = [mode EXCEPT ![r] = m]
                          /\ supervisor' = [supervisor EXCEPT ![r] = "starting"]
    BY <1>1, <2>1 DEF SupervisorStart
  <2>3. supervisor[r] = "none"
    BY <2>2 DEF Supervised
  <2> QED
    BY <1>1, <2>1, <2>2, <2>3, Zenon DEF Launches
<1> QED
  BY <1>1 DEF StartDanser, NoLaunch

(* The event the main thread takes. *)
LEMMA HeadPosted ==
  ASSUME Types, Queue, runtimeEvents # <<>>
  PROVE  /\ Head(runtimeEvents) \in Events /\ Posted(Head(runtimeEvents))
         /\ Head(runtimeEvents).id \in Runs
         /\ Head(runtimeEvents) = runtimeEvents[1] /\ 1 \in DOMAIN runtimeEvents
<1>1. /\ Head(runtimeEvents) \in Events
      /\ Head(runtimeEvents) = runtimeEvents[1] /\ 1 \in DOMAIN runtimeEvents
  BY DEF Types, QueueType
<1> QED
  BY <1>1, EventParts DEF Queue

(* finishDanser: the run that ended is the active one, and it has nothing   *)
(* more to say. *)
LEMMA FinishEffect ==
  ASSUME Types, Queue, DrainFinished
  PROVE  /\ active \in Runs /\ Head(runtimeEvents).id = active /\ supervisor[active] = "end"
         /\ active' = None /\ UNCHANGED <<timer, runVars>>
         /\ \A i \in DOMAIN runtimeEvents : i > 1 => runtimeEvents[i].kind \notin RunKinds
<1> DEFINE e == Head(runtimeEvents)
<1>1. /\ runtimeEvents # <<>> /\ e.kind = "finished" /\ active' = ActiveAfter(e.id)
      /\ UNCHANGED <<timer, runVars>>
  BY DEF DrainFinished, Drain
<1>2. /\ Posted(e) /\ e.id \in Runs /\ e = runtimeEvents[1] /\ 1 \in DOMAIN runtimeEvents
  BY <1>1, HeadPosted
<1>3. e.id = active /\ supervisor[e.id] = "end"
  BY <1>1, <1>2 DEF Posted, RunKinds
<1>4. active' = None
  BY <1>1, <1>3 DEF ActiveAfter
<1>5. \A i \in DOMAIN runtimeEvents : i > 1 => runtimeEvents[i].kind \notin RunKinds
  BY <1>1, <1>2 DEF Queue, FinishedLast
<1> QED
  BY <1>1, <1>2, <1>3, <1>4, <1>5

(* What becomes of the active run. *)
LEMMA MainEffect ==
  ASSUME Types, Queue, Shown, \A r \in Runs : Supervised(r), MainThread
  PROVE  \/ UNCHANGED <<active, mode, supervisor>>
         \/ \E r \in Runs : Launches(r) /\ UNCHANGED canceled /\ (ClickRecord \/ DrainTask)
         \/ DrainFinished
<1> USE DEF uiVars, runVars
<1>1. CASE ClickRecord
  BY <1>1, StartEffect DEF ClickRecord, Modes, NoLaunch
<1>2. CASE DrainTask
  BY <1>2, StartEffect DEF DrainTask, Modes, NoLaunch
<1>3. CASE ClickWatch
  BY <1>3 DEF ClickWatch
<1>4. CASE ClickStop
  BY <1>4 DEF ClickStop
<1>5. CASE CloseRequest
  BY <1>5 DEF CloseRequest
<1>6. CASE ConfirmClick
  BY <1>6 DEF ConfirmClick
<1>7. CASE DismissClick
  BY <1>7 DEF DismissClick
<1>8. CASE DialogFades
  BY <1>8 DEF DialogFades
<1>9. CASE DrainHandoff
  BY <1>9 DEF DrainHandoff
<1>10. CASE DrainReport
  BY <1>10 DEF DrainReport
<1>11. CASE Shutdown
  BY <1>11 DEF Shutdown
<1>12. CASE Exit
  BY <1>12 DEF Exit
<1> QED
  BY <1>1, <1>2, <1>3, <1>4, <1>5, <1>6, <1>7, <1>8, <1>9, <1>10, <1>11, <1>12
  DEF MainThread, User, DrainEvent

LEMMA MainCancels ==
  ASSUME Types, MainThread
  PROVE  \/ UNCHANGED canceled
         \/ /\ active \in Runs /\ canceled' = [canceled EXCEPT ![active] = TRUE]
            /\ UNCHANGED <<active, mode, supervisor>>
<1> USE DEF uiVars, runVars
<1>1. CASE ConfirmClick
  BY <1>1 DEF ConfirmClick, ActiveRun, Types, UiType
<1>2. CASE Shutdown
  BY <1>2 DEF Shutdown, Types, UiType
<1>3. CASE ClickRecord
  BY <1>3 DEF ClickRecord
<1>4. CASE ClickWatch
  BY <1>4 DEF ClickWatch
<1>5. CASE ClickStop
  BY <1>5 DEF ClickStop
<1>6. CASE CloseRequest
  BY <1>6 DEF CloseRequest
<1>7. CASE DismissClick
  BY <1>7 DEF DismissClick
<1>8. CASE DialogFades
  BY <1>8 DEF DialogFades
<1>9. CASE DrainTask
  BY <1>9 DEF DrainTask
<1>10. CASE DrainHandoff
  BY <1>10 DEF DrainHandoff
<1>11. CASE DrainReport
  BY <1>11 DEF DrainReport
<1>12. CASE DrainFinished
  BY <1>12 DEF DrainFinished
<1>13. CASE Exit
  BY <1>13 DEF Exit
<1> QED
  BY <1>1, <1>2, <1>3, <1>4, <1>5, <1>6, <1>7, <1>8, <1>9, <1>10, <1>11, <1>12, <1>13
  DEF MainThread, User, DrainEvent

LEMMA MainSupervised ==
  ASSUME Types, Queue, Shown, \A r \in Runs : Supervised(r), MainThread, NEW r \in Runs
  PROVE  Supervised(r)'
<1>0. Supervised(r) /\ UNCHANGED <<child, scanner>>
  BY MainFrame
<1> USE DEF Types, StartType, Started
<1>1. CASE UNCHANGED <<active, mode, supervisor>>
  <2>1. canceled'[r] => canceled[r] \/ active = r
    BY MainCancels
  <2> QED
    BY <1>0, <1>1, <2>1 DEF Supervised
<1>2. ASSUME NEW s \in Runs, Launches(s), UNCHANGED canceled
      PROVE  Supervised(r)'
  <2>1. s # None
    BY DEF Runs, None
  <2>2. CASE r = s
    BY <1>0, <1>2, <2>1, <2>2 DEF Launches, Supervised, Modes
  <2>3. CASE r # s
    BY <1>0, <1>2, <2>1, <2>3 DEF Launches, Supervised, Runs, None
  <2> QED
    BY <2>2, <2>3
<1>3. CASE DrainFinished
  <2>1. supervisor[active] = "end" /\ active' = None /\ UNCHANGED <<mode, canceled, supervisor>>
    BY <1>3, FinishEffect DEF runVars
  <2>2. r # None
    BY DEF Runs, None
  <2> QED
    BY <1>0, <2>1, <2>2 DEF Supervised
<1> QED
  BY <1>1, <1>2, <1>3, MainEffect

LEMMA MainStays ==
  ASSUME Types, Queue, Shown, \A r \in Runs : Supervised(r), MainThread
  PROVE  Stays
<1>1. \A u \in Runs : printed[u] \subseteq printed'[u]
  BY MainFrame
<1>2. \A u \in Runs : supervisor[u] = "end" => supervisor'[u] = "end"
  <2>1. CASE UNCHANGED supervisor
    BY <2>1
  <2>2. ASSUME NEW s \in Runs, Launches(s)
        PROVE  \A u \in Runs : supervisor[u] = "end" => supervisor'[u] = "end"
    BY <2>2 DEF Launches, Types, StartType
  <2>3. CASE DrainFinished
    BY <2>3, FinishEffect DEF runVars
  <2> QED
    BY <2>1, <2>2, <2>3, MainEffect
<1>3. \A q \in Requests : timer[q] = "off" => timer'[q] = "off"
  <2> USE DEF Types, UiType, uiVars
  <2>1. CASE ClickRecord
    BY   <2>1 DEF ClickRecord, CancelPendingStart, StopTimer
  <2>2. CASE ClickWatch
    BY   <2>2 DEF ClickWatch, CancelPendingStart, StopTimer
  <2>3. CASE ClickStop
    BY   <2>3 DEF ClickStop, CancelPendingStart, StopTimer
  <2>4. CASE CloseRequest
    BY   <2>4 DEF CloseRequest, CancelPendingStart, StopTimer
  <2>5. CASE ConfirmClick
    BY   <2>5 DEF ConfirmClick, CancelPendingStart, StopTimer
  <2>6. CASE DismissClick
    BY   <2>6 DEF DismissClick, CancelPendingStart, StopTimer
  <2>7. CASE DialogFades
    BY   <2>7 DEF DialogFades, CancelPendingStart, StopTimer
  <2>8. CASE DrainTask
    BY   <2>8 DEF DrainTask, CancelPendingStart, StopTimer, Drain
  <2>9. CASE DrainHandoff
    BY   <2>9 DEF DrainHandoff, CancelPendingStart, StopTimer
  <2>10. CASE DrainReport
    BY   <2>10 DEF DrainReport, CancelPendingStart, StopTimer
  <2>11. CASE DrainFinished
    BY   <2>11 DEF DrainFinished, CancelPendingStart, StopTimer
  <2>12. CASE Shutdown
    BY   <2>12 DEF Shutdown, CancelPendingStart, StopTimer
  <2>13. CASE Exit
    BY   <2>13 DEF Exit, CancelPendingStart, StopTimer
  <2> QED
    BY   <2>1,   <2>2,   <2>3,   <2>4,   <2>5,   <2>6,   <2>7,   <2>8,   <2>9,   <2>10,
         <2>11,   <2>12,   <2>13 DEF MainThread, User, DrainEvent
<1> QED
  BY <1>1, <1>2, <1>3 DEF Stays

LEMMA MainQueue ==
  ASSUME Types, Queue, Shown, \A r \in Runs : Supervised(r), MainThread
  PROVE  QueueType' /\ Queue'
<1>1. Stays
  BY MainStays
<1>2. \/ active' = active
      \/ \A i \in DOMAIN runtimeEvents : runtimeEvents[i].kind \notin RunKinds
      \/ DrainFinished
  <2>1. ASSUME active = None, NEW i \in DOMAIN runtimeEvents
        PROVE  runtimeEvents[i].kind \notin RunKinds
    <3>1. runtimeEvents[i].id \in Runs
      BY EventParts DEF Types, QueueType
    <3> QED
      BY <2>1, <3>1 DEF Queue, Posted, Runs, None
  <2> QED
    BY <2>1, MainEffect DEF Launches
<1>3. CASE DrainFinished
  <2>1. runtimeEvents # <<>> /\ runtimeEvents' = Tail(runtimeEvents)
    BY <1>3 DEF DrainFinished, Drain
  <2> QED
    BY <1>1, <1>3, <2>1, FinishEffect, QueueShrinks DEF Types
<1>4. CASE UNCHANGED runtimeEvents /\ ~DrainFinished
  BY <1>1, <1>2, <1>4, QueueRests DEF Types
<1>5. CASE DrainTask \/ DrainHandoff \/ DrainReport
  <2>1. runtimeEvents # <<>> /\ runtimeEvents' = Tail(runtimeEvents)
    BY <1>5 DEF DrainTask, DrainHandoff, DrainReport, Drain
  <2>2. ~DrainFinished
    BY <1>5 DEF DrainTask, DrainHandoff, DrainReport, DrainFinished, Drain
  <2> QED
    BY <1>1, <1>2, <2>1, <2>2, QueueShrinks DEF Types
<1> QED
  BY <1>3, <1>4, <1>5 DEF MainThread, User, DrainEvent, ClickRecord, ClickWatch, ClickStop,
     CloseRequest, ConfirmClick, DismissClick, DialogFades, Shutdown, Exit, uiVars

(* A confirmation on screen is about the run it was asked for. *)
LEMMA DialogShows ==
  ASSUME UiType, NEW r \in Runs, NEW exit \in BOOLEAN, ConfirmProcessCancellation(r, exit)
  PROVE  /\ dialog'.run = r /\ dialog'.phase = "open"
         /\ dialog'.exits => exit \/ (dialog.phase = "open" /\ dialog.exits)
<1>1. dialog.exits \in BOOLEAN /\ dialog.phase \in {"open", "fading", "closed"}
  BY DEF UiType
<1>2. /\ dialog'.run = r /\ dialog'.phase = "open"
      /\ dialog'.exits = IF Live(dialog) /\ dialog.run = r THEN KeepsExit(exit) ELSE exit
  BY DEF ConfirmProcessCancellation
<1>3. Live(dialog) /\ KeepsExit(exit) => exit \/ (dialog.phase = "open" /\ dialog.exits)
  BY <1>1, Zenon DEF Live, KeepsExit
<1> QED
  BY <1>2, <1>3

LEMMA MainShown ==
  ASSUME Types, Queue, Shown, \A r \in Runs : Supervised(r), MainThread
  PROVE  Shown'
<1> USE DEF Shown, OwnEvents, uiVars, Types, UiType
<1>0. UNCHANGED printed
  BY MainFrame
<1>1. CASE ClickRecord
  <2>1. CASE NoLaunch
    BY <1>0, <1>1, <2>1 DEF ClickRecord, NoLaunch
  <2>2. ASSUME NEW r \in Runs, Launches(r) PROVE Shown'
    BY <1>0, <1>1, <2>2 DEF ClickRecord, Launches, Live, Runs, None
  <2> QED
    BY <1>1, <2>1, <2>2, StartEffect DEF ClickRecord, Modes, NoLaunch
<1>2. CASE ClickWatch
  BY <1>0, <1>2 DEF ClickWatch, Live
<1>3. CASE ClickStop
  <2>1. CASE ActiveRun(active) /\ ConfirmProcessCancellation(active, FALSE)
    <3>1. /\ active # None /\ dialog'.run = active /\ dialog'.phase = "open"
          /\ ~canceled[active] /\ active' = active
      BY <1>3, <2>1, DialogShows DEF ClickStop, ActiveRun, Types, UiType
    <3>2. dialog'.exits => FALSE \/ (dialog.phase = "open" /\ dialog.exits)
      BY <2>1, DialogShows DEF Types, UiType, ActiveRun
    <3> QED
      BY <1>3, <2>1, <3>1, <3>2, <1>0 DEF ClickStop, ActiveRun, Live
  <2>2. CASE UNCHANGED dialog
    BY <1>3, <2>2, <1>0
    DEF ClickStop, CancelPendingStart, ActiveRun, ConfirmProcessCancellation, Live
  <2> QED
    BY <1>3, <2>1, <2>2 DEF ClickStop
<1>4. CASE CloseRequest
  <2>1. CASE ActiveRun(active) /\ ConfirmProcessCancellation(active, TRUE)
    <3>1. /\ active # None /\ dialog'.run = active /\ dialog'.phase = "open"
          /\ ~canceled[active] /\ active' = active
      BY <1>4, <2>1, DialogShows DEF CloseRequest, ActiveRun, Types, UiType
    <3>2. dialog'.exits => TRUE \/ (dialog.phase = "open" /\ dialog.exits)
      BY <2>1, DialogShows DEF Types, UiType, ActiveRun
    <3> QED
      BY <1>4, <2>1, <3>1, <3>2, <1>0 DEF CloseRequest, ActiveRun, Live
  <2>2. CASE UNCHANGED dialog
    BY <1>4, <2>2, <1>0
    DEF CloseRequest, CancelPendingStart, ActiveRun, ConfirmProcessCancellation, Live
  <2> QED
    BY <1>4, <2>1, <2>2 DEF CloseRequest
<1>5. CASE ConfirmClick
  BY <1>0, <1>5 DEF ConfirmClick, Live
<1>6. CASE DismissClick
  BY <1>0, <1>6 DEF DismissClick, Live
<1>7. CASE DialogFades
  BY <1>0, <1>7 DEF DialogFades, Live
<1>8. CASE DrainTask
  <2>1. CASE NoLaunch
    BY <1>0, <1>8, <2>1 DEF DrainTask, NoLaunch
  <2>2. ASSUME NEW r \in Runs, Launches(r) PROVE Shown'
    BY <1>0, <1>8, <2>2 DEF DrainTask, Launches, Live, Runs, None
  <2> QED
    BY <1>8, <2>1, <2>2, StartEffect DEF DrainTask, Modes, NoLaunch
<1>9. CASE DrainHandoff
  <2>1. /\ Posted(Head(runtimeEvents)) /\ Head(runtimeEvents).kind \in {"splash", "timeout"}
        /\ gameplayHandedOff' = (gameplayHandedOff \/ HandoffAllowed(Head(runtimeEvents).id))
        /\ UNCHANGED <<danserRunning, encodeInProgress, active, dialog>>
    BY <1>9, HeadPosted DEF DrainHandoff, Drain
  <2>2. HandoffAllowed(Head(runtimeEvents).id) => active # None /\ "window" \in printed[active]
    BY <2>1 DEF HandoffAllowed, ActiveRun, Posted
  <2> QED
    BY <1>0, <2>1, <2>2 DEF Live
<1>10. CASE DrainReport
  <2>1. /\ Posted(Head(runtimeEvents)) /\ Head(runtimeEvents).id \in Runs
        /\ encodeInProgress' => encodeInProgress \/ Head(runtimeEvents).kind = "encode"
        /\ UNCHANGED <<danserRunning, gameplayHandedOff, active, dialog>>
    BY <1>10, HeadPosted DEF DrainReport, Drain
  <2>2. Head(runtimeEvents).kind = "encode" => active # None /\ "encode" \in printed[active]
    BY <2>1 DEF Posted, RunKinds, Runs, None
  <2> QED
    BY <1>0, <2>1, <2>2 DEF Live
<1>11. CASE DrainFinished
  <2>1. /\ active' = None /\ danserRunning' = FALSE /\ gameplayHandedOff' = FALSE
        /\ encodeInProgress' = FALSE /\ dialog' = DialogAfter(active)
    BY <1>11, FinishEffect DEF DrainFinished
  <2>2. ~Live(dialog')
    BY <2>1 DEF DialogAfter, Live, NoDialog
  <2> QED
    BY <2>1, <2>2 DEF Live
<1>12. CASE Shutdown
  BY <1>0, <1>12 DEF Shutdown, CancelPendingStart, StopTimer, Live
<1>13. CASE Exit
  BY <1>0, <1>13 DEF Exit, Live
<1> QED
  BY <1>1, <1>2, <1>3, <1>4, <1>5, <1>6, <1>7, <1>8, <1>9, <1>10, <1>11, <1>12, <1>13
  DEF MainThread, User, DrainEvent

LEMMA MainLeaving ==
  ASSUME Types, Queue, Shown, Leaving, \A r \in Runs : Supervised(r), MainThread
  PROVE  Leaving'
<1> USE DEF Leaving, uiVars, runVars, Done
<1>1. CASE ClickRecord
  <2>1. CASE NoLaunch
    BY <1>1, <2>1 DEF ClickRecord, NoLaunch
  <2>2. ASSUME NEW r \in Runs, Launches(r) PROVE Leaving'
    <3>1. ~canceled[r]
      BY <2>2 DEF Supervised, Launches
    <3> QED
      BY <1>1, <2>2, <3>1 DEF ClickRecord, Launches, Idle
  <2> QED
    BY <1>1, <2>1, <2>2, StartEffect DEF ClickRecord, Modes, NoLaunch
<1>2. CASE ClickWatch
  BY <1>2 DEF ClickWatch
<1>3. CASE ClickStop
  <2>1. CASE ActiveRun(active) /\ ConfirmProcessCancellation(active, FALSE)
    <3>1. /\ active # None /\ dialog'.run = active /\ dialog'.phase = "open"
          /\ ~canceled[active] /\ active' = active
      BY <1>3, <2>1, DialogShows DEF ClickStop, ActiveRun, Types, UiType
    <3>2. dialog'.exits => FALSE \/ (dialog.phase = "open" /\ dialog.exits)
      BY <2>1, DialogShows DEF Types, UiType, ActiveRun
    <3> QED
      BY <1>3, <2>1, <3>1, <3>2 DEF ClickStop, ActiveRun, Live
  <2>2. CASE UNCHANGED dialog
    BY <1>3, <2>2 DEF ClickStop, CancelPendingStart, ActiveRun, ConfirmProcessCancellation, Live
  <2> QED
    BY <1>3, <2>1, <2>2 DEF ClickStop
<1>4. CASE CloseRequest
  <2>1. CASE ActiveRun(active) /\ ConfirmProcessCancellation(active, TRUE)
    <3>1. /\ active # None /\ dialog'.run = active /\ dialog'.phase = "open"
          /\ ~canceled[active] /\ active' = active
      BY <1>4, <2>1, DialogShows DEF CloseRequest, ActiveRun, Types, UiType
    <3>2. dialog'.exits => TRUE \/ (dialog.phase = "open" /\ dialog.exits)
      BY <2>1, DialogShows DEF Types, UiType, ActiveRun
    <3> QED
      BY <1>4, <2>1, <3>1, <3>2 DEF CloseRequest, ActiveRun, Live
  <2>2. CASE UNCHANGED dialog
    BY <1>4, <2>2 DEF CloseRequest, CancelPendingStart, ActiveRun, ConfirmProcessCancellation, Live
  <2> QED
    BY <1>4, <2>1, <2>2 DEF CloseRequest
<1>5. CASE ConfirmClick
  <2>1. /\ main = "loop" /\ main' = main /\ ~shouldClose /\ ~shouldClose' /\ dialog.phase = "open"
        /\ active' = active /\ active # None /\ dialog.run = active
    BY <1>5 DEF ConfirmClick, Shown, Live
  <2>2. dialog'.phase = "fading" /\ active \in Runs
    BY <1>5, <2>1 DEF ConfirmClick, Types, UiType
  <2>3. exitWanted' = IF exitWanted = "asked" THEN "confirmed" ELSE exitWanted
    BY <1>5 DEF ConfirmClick
  <2>4. CASE ActiveRun(active)
    <3>1. /\ closeAfterDanser' => closeAfterDanser \/ dialog.exits
          /\ canceled'[active] = TRUE
      BY <1>5, <2>1, <2>2, <2>4 DEF ConfirmClick, Types, StartType
    <3>2. dialog.exits => exitWanted' = "confirmed"
      BY <2>1, <2>3 DEF Types, UiType
    <3> QED
      BY <2>1, <2>2, <2>3, <3>1, <3>2
  <2>5. CASE ~ActiveRun(active)
    <3>1. UNCHANGED <<closeAfterDanser, canceled>>
      BY <1>5, <2>1, <2>5 DEF ConfirmClick
    <3> QED
      BY <2>1, <2>2, <2>3, <3>1
  <2> QED
    BY <2>4, <2>5
<1>6. CASE DismissClick
  BY <1>6 DEF DismissClick
<1>7. CASE DialogFades
  BY <1>7 DEF DialogFades
<1>8. CASE DrainTask
  <2>1. CASE NoLaunch
    BY <1>8, <2>1 DEF DrainTask, NoLaunch
  <2>2. ASSUME NEW r \in Runs, Launches(r) PROVE Leaving'
    <3>1. ~canceled[r]
      BY <2>2 DEF Supervised, Launches
    <3> QED
      BY <1>8, <2>2, <3>1 DEF DrainTask, Launches, Drain
  <2> QED
    BY <1>8, <2>1, <2>2, StartEffect DEF DrainTask, Modes, NoLaunch
<1>9. CASE DrainHandoff
  BY <1>9 DEF DrainHandoff, Drain
<1>10. CASE DrainReport
  BY <1>10 DEF DrainReport, Drain
<1>11. CASE DrainFinished
  <2>1. /\ active' = None /\ main = "loop" /\ main' = "loop" /\ dialog' = DialogAfter(active)
        /\ shouldClose' = (shouldClose \/ closeAfterDanser) /\ closeAfterDanser' = FALSE
        /\ exitWanted' = IF exitWanted = "asked" THEN "no" ELSE exitWanted
    BY <1>11, FinishEffect DEF DrainFinished, Drain
  <2>2. dialog'.phase # "open"
    BY <2>1 DEF DialogAfter, NoDialog, Shown, Live
  <2> QED
    BY <2>1, <2>2
<1>12. CASE Shutdown
  BY <1>12 DEF Shutdown, CancelPendingStart, StopTimer
<1>13. CASE Exit
  BY <1>13 DEF Exit, ChildJoined
<1> QED
  BY <1>1, <1>2, <1>3, <1>4, <1>5, <1>6, <1>7, <1>8, <1>9, <1>10, <1>11, <1>12, <1>13
  DEF MainThread, User, DrainEvent

-----------------------------------------------------------------------------
(* The invariant. *)
LEMMA MainInv == ASSUME Inv, MainThread PROVE Inv'
<1>1. /\ Types /\ Queue /\ Shown /\ Leaving
      /\ \A r \in Runs : Supervised(r) /\ Output(r)
  BY DEF Inv
<1>2. QueueType' /\ Queue'
  BY <1>1, MainQueue
<1>3. FlagType' /\ UiType' /\ StartType'
  BY <1>1, FlagsKept, UiKept, StartKept DEF Types
<1>4. ChildType'
  BY <1>1, MainFrame DEF Types, ChildType
<1>5. Shown' /\ Leaving'
  BY <1>1, MainShown, MainLeaving
<1>6. ASSUME NEW r \in Runs PROVE Supervised(r)' /\ Output(r)'
  <2>1. Supervised(r)'
    BY <1>1, MainSupervised
  <2>2. Output(r)'
    BY <1>1, MainFrame DEF Output
  <2> QED
    BY <2>1, <2>2
<1> QED
  BY <1>2, <1>3, <1>4, <1>5, <1>6 DEF Inv, Types

LEMMA AroundInv == ASSUME Inv, NEW r \in Runs, Around(r) PROVE Inv'
<1>1. /\ Types /\ Queue /\ Shown /\ Leaving
      /\ \A u \in Runs : Supervised(u) /\ Output(u)
  BY DEF Inv
<1>2. QueueType' /\ Queue'
  BY <1>1, AroundQueue
<1>3. Elsewhere(r)
  BY <1>1, AroundFrame
<1>4. FlagType'
  BY <1>1, <1>3, Zenon DEF Types, FlagType, Elsewhere
<1>5. UiType'
  BY <1>1, <1>3 DEF Types, UiType, Elsewhere
<1>6. StartType' /\ ChildType'
  BY <1>1, RunKept DEF Types
<1>7. Shown' /\ Leaving'
  BY <1>1, AroundShown
<1>8. ASSUME NEW u \in Runs PROVE Supervised(u)' /\ Output(u)'
  <2>1. CASE u = r
    BY <1>1, <2>1, SupervisedKept, OutputKept
  <2>2. CASE u # r
    BY <1>1, <2>2, OthersKept
  <2> QED
    BY <2>1, <2>2
<1> QED
  BY <1>2, <1>4, <1>5, <1>6, <1>7, <1>8 DEF Inv, Types

(* The timer of a delayed start: once it has posted its task it is off. *)
LEMMA TimerInv == ASSUME Inv, NEW q \in Requests, Timer(q) PROVE Inv'
<1>1. /\ Types /\ Queue /\ Shown /\ Leaving
      /\ \A u \in Runs : Supervised(u) /\ Output(u)
  BY DEF Inv
<1>2. /\ UNCHANGED <<main, active, mode, canceled, supervisor, child, printed>>
      /\ UNCHANGED <<pipe, scanner, handoff, dialog, exitWanted, pendingStart>>
      /\ UNCHANGED <<shouldClose, danserRunning, gameplayHandedOff, encodeInProgress>>
      /\ UNCHANGED closeAfterDanser
  BY DEF Timer, TimerFires, TimerPosts, uiVars, runVars
<1>3. /\ \E t \in {"posting", "off"} : timer' = [timer EXCEPT ![q] = t]
      /\ timer[q] # "off"
  BY DEF Timer, TimerFires, TimerPosts
<1>4. FlagType'
  BY <1>1, <1>2, Zenon DEF Types, FlagType
<1>5. UiType'
  BY <1>1, <1>2, <1>3 DEF Types, UiType
<1>6. StartType' /\ ChildType'
  BY <1>1, <1>2 DEF Types, StartType, ChildType
<1>7. Stays
  BY <1>1, <1>2, <1>3 DEF Stays, Types, UiType
<1>8. QueueType' /\ Queue'
  <2> DEFINE e == Event("task", q)
  <2>1. CASE UNCHANGED runtimeEvents
    BY <1>1, <1>2, <1>7, <2>1, QueueRests DEF Types
  <2>2. CASE TimerPosts(q) /\ HasRoom /\ runtimeEvents' = Append(runtimeEvents, e)
    <3>1. e \in Events /\ e.kind = "task" /\ e.id = q
      BY DEF Event, Events
    <3>2. timer'[q] = "off"
      BY <1>1, <2>2 DEF TimerPosts, Types, UiType
    <3>3. PostedNext(e) /\ e.kind \notin RunKinds
      BY <3>1, <3>2 DEF PostedNext, RunKinds
    <3> HIDE DEF e
    <3> QED
      BY <1>1, <1>2, <1>7, <2>2, <3>1, <3>3, QueueGrows DEF Types
  <2> QED
    BY <2>1, <2>2 DEF Timer, TimerFires, TimerPosts, PostEvent
<1>9. Shown' /\ Leaving'
  BY <1>1, <1>2 DEF Shown, OwnEvents, Leaving, Live, Done
<1>10. ASSUME NEW u \in Runs PROVE Supervised(u)' /\ Output(u)'
  BY <1>1, <1>2 DEF Supervised, Started, Output
<1> QED
  BY <1>4, <1>5, <1>6, <1>8, <1>9, <1>10 DEF Inv, Types

LEMMA StutterInv == ASSUME Inv, UNCHANGED vars PROVE Inv'
<1>1. /\ UNCHANGED <<main, active, mode, canceled, supervisor, child, printed, runtimeEvents>>
      /\ UNCHANGED <<pipe, scanner, handoff, dialog, exitWanted, pendingStart, timer>>
      /\ UNCHANGED <<shouldClose, danserRunning, gameplayHandedOff, encodeInProgress>>
      /\ UNCHANGED closeAfterDanser
  BY DEF vars, uiVars, runVars
<1>2. FlagType'
  BY <1>1, Zenon DEF Inv, Types, FlagType
<1>3. UiType' /\ QueueType' /\ StartType' /\ ChildType'
  BY <1>1 DEF Inv, Types, UiType, QueueType, StartType, ChildType
<1>4. Queue' /\ Shown' /\ Leaving'
  BY <1>1 DEF Inv, Queue, FinishedLast, Posted, Shown, OwnEvents, Leaving, Live, Done
<1>5. ASSUME NEW u \in Runs PROVE Supervised(u)' /\ Output(u)'
  BY <1>1 DEF Inv, Supervised, Started, Output
<1> QED
  BY <1>2, <1>3, <1>4, <1>5 DEF Inv, Types

THEOREM Invariance == Spec => []Inv
<1>1. Inv /\ [Next]_vars => Inv'
  BY WhoSteps, MainInv, AroundInv, TimerInv, StutterInv
<1> QED
  BY <1>1, InitInv, PTL DEF Spec

-----------------------------------------------------------------------------
(* Runs are kept apart for any number of them: what the interface shows and *)
(* what a confirmation stops is the active run, although events, dialogs    *)
(* and hand-off timers outlive the run they belong to (drainEvents,         *)
(* handoffToGameplay, finishDanser, dismissProcessCancelDialog).            *)
THEOREM RunsKeptApart == Spec => []RunsApart
<1>1. Inv => RunsApart
  <2> SUFFICES ASSUME Inv PROVE RunsApart
    OBVIOUS
  <2>1. TypeOK
    BY TypeParts DEF Inv
  <2>2. /\ danserRunning <=> active # None
        /\ Live(dialog) => dialog.run = active
        /\ OwnEvents
    BY DEF Inv, Shown
  <2>3. ASSUME NEW r \in Runs, child[r] = "alive" PROVE active = r
    BY <2>3 DEF Inv, Supervised
  <2> QED
    BY <2>1, <2>2, <2>3 DEF RunsApart, ActiveRunShown
<1> QED
  BY <1>1, Invariance, PTL

(* The launcher leaves its loop only on an exit that was asked for and not  *)
(* taken back, and its process ends only after its child                    *)
(* (confirmProcessCancellation, processSupervisor.close).                   *)
THEOREM ExitIsClean == Spec => []CleanExit
<1>1. Inv => CleanExit
  <2> SUFFICES ASSUME Inv, main = "exited", NEW r \in Runs, child[r] = "alive" PROVE FALSE
    BY DEF Inv, Leaving, CleanExit
  <2>1. supervisor[r] \in {"spawned", "waiting"} /\ active = r
    BY DEF Inv, Supervised
  <2>2. active # None
    BY <2>1 DEF Runs, None
  <2> QED
    BY <2>1, <2>2 DEF Inv, Leaving, Done
<1> QED
  BY <1>1, Invariance, PTL

(* A delayed start launches only when its own timer has run out, however    *)
(* many starts were taken back before it (launchPendingDanserStart).        *)
THEOREM GraceKept == Spec => GracePeriodKept
<1>1. ASSUME Inv, Next, NEW q \in Requests, pendingStart = q, ~danserRunning, danserRunning'
      PROVE  timer[q] = "off"
  <2>1. MainThread
    <3>1. ASSUME NEW p \in Requests, Timer(p) PROVE FALSE
      BY <1>1, <3>1 DEF Timer, TimerFires, TimerPosts, uiVars
    <3>2. ASSUME NEW r \in Runs, Around(r) PROVE FALSE
      BY <1>1, <3>2, AroundFrame DEF Elsewhere, Inv
    <3>3. CASE UNCHANGED vars
      BY <1>1, <3>3 DEF vars, uiVars
    <3> QED
      BY <1>1, <3>1, <3>2, <3>3, WhoSteps
  <2>2. CASE DrainTask
    <3> DEFINE e == Head(runtimeEvents)
    <3>1. runtimeEvents # <<>> /\ e.kind = "task" /\ IsPending(e.id)
      BY <1>1, <2>2 DEF DrainTask, Drain
    <3>2. Posted(e)
      BY <3>1, <1>1, HeadPosted DEF Inv
    <3> QED
      BY <1>1, <3>1, <3>2 DEF Posted, IsPending
  <2>3. CASE ClickRecord
    BY <1>1, <2>3 DEF ClickRecord, Idle, None, Requests
  <2>4. CASE ~DrainTask /\ ~ClickRecord
    BY <1>1, <2>1, <2>4 DEF MainThread, User, DrainEvent, ClickWatch, ClickStop, CloseRequest,
       ConfirmClick, DismissClick, DialogFades, DrainHandoff, DrainReport, DrainFinished,
       Shutdown, Exit, uiVars
  <2> QED
    BY <2>2, <2>3, <2>4
<1>2. Inv /\ [Next]_vars
      => [\A q \in Requests : pendingStart = q /\ ~danserRunning /\ danserRunning'
                                => timer[q] = "off"]_vars
  BY <1>1
<1> QED
  BY <1>2, Invariance, PTL DEF Spec, GracePeriodKept
==============================================================================
