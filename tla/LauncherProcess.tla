---------------------------- MODULE LauncherProcess ----------------------------
(* The launcher and the gameplay or recording child it supervises            *)
(* (launcher/process_supervisor.go, cancel_flow.go, runtime.go).             *)
(*                                                                           *)
(* The main thread drains a bounded event queue, draws the interface and     *)
(* handles window events, frame after frame; here these steps come in any    *)
(* order.  A click is pressed and released in different frames, so none is   *)
(* accepted once the loop is about to end.  Around it run, per child: the    *)
(* goroutine of processSupervisor.start, the copier of os/exec, the output   *)
(* scanner and its hand-off timer; and one timer per delayed start.  All of  *)
(* them reach the main thread only through the queue.                        *)
EXTENDS Naturals, Sequences, FiniteSets

CONSTANTS
    MaxStarts,      \* bound: recordings started and delayed starts requested
    QueueCapacity,  \* launcherEventQueueCapacity
    PipeCapacity    \* lines an operating-system pipe holds

ASSUME LauncherAssumption ==
    /\ MaxStarts \in Nat \ {0}
    /\ QueueCapacity \in Nat \ {0}
    /\ PipeCapacity \in Nat \ {0}

Runs == 1..MaxStarts
Requests == 1..MaxStarts
None == 0
Modes == {"Watch", "Record"}

VARIABLES
    main,           \* "loop", "shutdown" (close waits for the child), "exited"
    shouldClose,    \* gcontext.ShouldClose
    danserRunning, gameplayHandedOff, encodeInProgress, closeAfterDanser,
    pendingStart,   \* the delayed start whose timer may launch a child
    dialog,         \* processCancelDialog: its run, phase, and whether it exits
    runtimeEvents,  \* the queue
    timer,          \* per delayed start: its time.AfterFunc
    active,         \* processSupervisor.active
    mode,           \* per run: its PMode, "none" before it is started
    canceled,       \* per run: its context
    supervisor,     \* per run: where the goroutine of start stands
    child,          \* per run: the operating-system process
    printed,        \* per run: the lines the child has printed
    pipe,           \* per run: printed and not scanned
    scanner,        \* per run: "none", "reading", "ended", or the event it posts
    handoff,        \* per run: the hand-off timer
    exitWanted      \* history: the user's last word on leaving the launcher

uiVars == <<shouldClose, danserRunning, gameplayHandedOff, encodeInProgress,
            closeAfterDanser, pendingStart, dialog, exitWanted>>
runVars == <<mode, canceled, supervisor, child, printed, pipe, scanner, handoff>>
vars == <<main, uiVars, runtimeEvents, timer, active, runVars>>

-----------------------------------------------------------------------------
(* The lines of a child the scanner reacts to, in the order it prints them:  *)
(* a viewer creates its window and presents the loading screen (an older one *)
(* never says so), a recorder starts and finishes encoding.                  *)
LinesOf(m) == IF m = "Watch" THEN {"window", "splash"} ELSE {"encode", "finish"}
Before(line) == CASE line = "splash" -> {"window"} [] line = "finish" -> {"encode"}
                  [] OTHER -> {}
Lines == UNION {LinesOf(m) : m \in Modes}

NoDialog == [run |-> None, phase |-> "closed", exits |-> FALSE]

Event(kind, id) == [kind |-> kind, id |-> id]
Events == {Event(k, r) : k \in {"started", "splash", "timeout", "encode",
                                "finish", "finished"}, r \in Runs}
          \cup {Event("task", q) : q \in Requests}

Started(r) == mode[r] # "none"

(* close(run.done) precedes the event that reports the end. *)
Done(r) == supervisor[r] \in {"posting", "end"}

ActiveRun(r) == r # None /\ active = r /\ ~canceled[r] /\ ~Done(r)

HasRoom == Len(runtimeEvents) < QueueCapacity

(* postEvent: wait for room, or for the runtime context. *)
PostEvent(e) ==
    \/ HasRoom /\ runtimeEvents' = Append(runtimeEvents, e)
    \/ main # "loop" /\ UNCHANGED runtimeEvents

(* postEventContext: wait for room, or for the context of the run. *)
PostEventContext(r, e) ==
    \/ HasRoom /\ runtimeEvents' = Append(runtimeEvents, e)
    \/ canceled[r] /\ UNCHANGED runtimeEvents

Init ==
    /\ main = "loop"
    /\ shouldClose = FALSE /\ danserRunning = FALSE /\ gameplayHandedOff = FALSE
    /\ encodeInProgress = FALSE /\ closeAfterDanser = FALSE /\ exitWanted = "no"
    /\ pendingStart = None /\ active = None /\ dialog = NoDialog
    /\ runtimeEvents = <<>>
    /\ timer = [q \in Requests |-> "none"]
    /\ mode = [r \in Runs |-> "none"]
    /\ canceled = [r \in Runs |-> FALSE]
    /\ supervisor = [r \in Runs |-> "none"]
    /\ child = [r \in Runs |-> "none"]
    /\ printed = [r \in Runs |-> {}]
    /\ pipe = [r \in Runs |-> <<>>]
    /\ scanner = [r \in Runs |-> "none"]
    /\ handoff = [r \in Runs |-> "none"]

-----------------------------------------------------------------------------
(* Starting a child, on the main thread.                                     *)

(* processSupervisor.start, refused while a run is active. *)
SupervisorStart(m) ==
    IF active # None
    THEN /\ danserRunning' = FALSE
         /\ UNCHANGED <<active, mode, supervisor>>
    ELSE \E r \in Runs :
            /\ ~Started(r) /\ \A s \in 1..(r - 1) : Started(s)
            /\ active' = r
            /\ danserRunning' = TRUE
            /\ mode' = [mode EXCEPT ![r] = m]
            /\ supervisor' = [supervisor EXCEPT ![r] = "starting"]

StartDanser(m) ==
    \/ \* already running, or the command line is refused
       UNCHANGED <<danserRunning, gameplayHandedOff, encodeInProgress, active, mode, supervisor>>
    \/ /\ ~danserRunning
       /\ gameplayHandedOff' = FALSE /\ encodeInProgress' = FALSE
       /\ SupervisorStart(m)

StartsSoFar == Cardinality({r \in Runs : mode[r] = "Record"})
               + Cardinality({q \in Requests : timer[q] # "none"})

Idle == /\ main = "loop" /\ ~shouldClose /\ ~danserRunning /\ pendingStart = None
        /\ StartsSoFar < MaxStarts

ClickRecord ==
    /\ Idle
    /\ StartDanser("Record")
    /\ UNCHANGED <<main, shouldClose, closeAfterDanser, pendingStart, dialog, exitWanted,
                   runtimeEvents, timer, canceled, child, printed, pipe,
                   scanner, handoff>>

(* scheduleDanserStart *)
ClickWatch ==
    /\ Idle
    /\ \E q \in Requests :
          /\ timer[q] = "none" /\ \A p \in 1..(q - 1) : timer[p] # "none"
          /\ pendingStart' = q
          /\ timer' = [timer EXCEPT ![q] = "armed"]
    /\ UNCHANGED <<main, shouldClose, danserRunning, gameplayHandedOff, encodeInProgress,
                   closeAfterDanser, dialog, exitWanted, runtimeEvents, active, runVars>>

TimerFires(q) ==
    /\ timer[q] = "armed"
    /\ timer' = [timer EXCEPT ![q] = "posting"]
    /\ UNCHANGED <<main, uiVars, runtimeEvents, active, runVars>>

TimerPosts(q) ==
    /\ timer[q] = "posting"
    /\ PostEvent(Event("task", q))
    /\ timer' = [timer EXCEPT ![q] = "off"]
    /\ UNCHANGED <<main, uiVars, active, runVars>>

(* cancelPendingDanserStart: Stop does not reach a timer that has fired. *)
StopTimer(q) == IF q \in Requests /\ timer[q] = "armed"
                THEN [timer EXCEPT ![q] = "off"] ELSE timer

CancelPendingStart ==
    /\ pendingStart' = None
    /\ timer' = StopTimer(pendingStart)

(* The identity check of launchPendingDanserStart. *)
AnyPending(q) == pendingStart # None    \* MUTANT: no identity check
IsPending(q) == pendingStart = q

-----------------------------------------------------------------------------
(* Cancelling a child, on the main thread.                                   *)

(* confirmProcessCancellation: a live dialog of this run is reused.  It keeps *)
(* an earlier exit request unless the user had dismissed it.                 *)
Live(d) == d.phase # "closed"

KeepsExit(exit) == IF dialog.phase = "fading" THEN exit ELSE dialog.exits \/ exit

ConfirmProcessCancellation(r, exit) ==
    dialog' = [run |-> r, phase |-> "open",
               exits |-> IF Live(dialog) /\ dialog.run = r THEN KeepsExit(exit) ELSE exit]

(* The stop button: requestProcessCancellation(false).  An open dialog is    *)
(* modal and hides the button.                                               *)
ClickStop ==
    /\ main = "loop" /\ ~shouldClose /\ dialog.phase # "open"
    /\ danserRunning \/ pendingStart # None
    /\ IF pendingStart # None
       THEN CancelPendingStart /\ UNCHANGED dialog
       ELSE /\ ActiveRun(active)
            /\ ConfirmProcessCancellation(active, FALSE)
            /\ UNCHANGED <<pendingStart, timer>>
    /\ UNCHANGED <<main, shouldClose, danserRunning, gameplayHandedOff, encodeInProgress,
                   closeAfterDanser, exitWanted, runtimeEvents, active, runVars>>

(* The window's close button: SetShouldClose(true), then handleCloseRequest. *)
CloseRequest ==
    /\ main = "loop"
    /\ IF pendingStart = None /\ ActiveRun(active)
       THEN /\ shouldClose' = FALSE
            /\ ConfirmProcessCancellation(active, TRUE)
            /\ exitWanted' = "asked"
            /\ UNCHANGED <<pendingStart, timer>>
       ELSE /\ shouldClose' = TRUE
            /\ exitWanted' = "confirmed"
            /\ CancelPendingStart
            /\ UNCHANGED dialog
    /\ UNCHANGED <<main, danserRunning, gameplayHandedOff, encodeInProgress,
                   closeAfterDanser, runtimeEvents, active, runVars>>

(* The primary action of the dialog: cancelActiveProcess, then dismissal.    *)
ConfirmClick ==
    /\ main = "loop" /\ ~shouldClose /\ dialog.phase = "open"
    /\ IF ActiveRun(dialog.run)
       THEN /\ closeAfterDanser' = (closeAfterDanser \/ dialog.exits)
            /\ canceled' = [canceled EXCEPT ![dialog.run] = TRUE]
       ELSE UNCHANGED <<closeAfterDanser, canceled>>
    /\ dialog' = [dialog EXCEPT !.phase = "fading"]
    /\ exitWanted' = IF exitWanted = "asked" THEN "confirmed" ELSE exitWanted
    /\ UNCHANGED <<main, shouldClose, danserRunning, gameplayHandedOff, encodeInProgress,
                   pendingStart, runtimeEvents, timer, active, mode, supervisor, child,
                   printed, pipe, scanner, handoff>>

DismissClick ==
    /\ main = "loop" /\ ~shouldClose /\ dialog.phase = "open"
    /\ dialog' = [dialog EXCEPT !.phase = "fading"]
    /\ exitWanted' = "no"
    /\ UNCHANGED <<main, shouldClose, danserRunning, gameplayHandedOff, encodeInProgress,
                   closeAfterDanser, pendingStart, runtimeEvents, timer, active, runVars>>

DialogFades ==
    /\ main = "loop" /\ dialog.phase = "fading"
    /\ dialog' = [dialog EXCEPT !.phase = "closed"]
    /\ UNCHANGED <<main, shouldClose, danserRunning, gameplayHandedOff, encodeInProgress,
                   closeAfterDanser, pendingStart, exitWanted, runtimeEvents, timer,
                   active, runVars>>

-----------------------------------------------------------------------------
(* drainEvents: one event taken from the queue and applied.                  *)

Drain(kinds) ==
    /\ main = "loop" /\ runtimeEvents # <<>>
    /\ Head(runtimeEvents).kind \in kinds
    /\ runtimeEvents' = Tail(runtimeEvents)

(* launchPendingDanserStart; the start is skipped when the selection changed. *)
DrainTask ==
    /\ Drain({"task"})
    /\ IF IsPending(Head(runtimeEvents).id)
       THEN CancelPendingStart /\ StartDanser("Watch")
       ELSE UNCHANGED <<pendingStart, timer, danserRunning, gameplayHandedOff,
                        encodeInProgress, active, mode, supervisor>>
    /\ UNCHANGED <<main, shouldClose, closeAfterDanser, dialog, exitWanted, canceled,
                   child, printed, pipe, scanner, handoff>>

HandoffWhileRunning(r) == danserRunning    \* MUTANT: any run, if one is running
HandoffAllowed(r) == danserRunning /\ ActiveRun(r)

(* handoffToGameplay *)
DrainHandoff ==
    /\ Drain({"splash", "timeout"})
    /\ gameplayHandedOff' = (gameplayHandedOff \/ HandoffAllowed(Head(runtimeEvents).id))
    /\ UNCHANGED <<main, shouldClose, danserRunning, encodeInProgress, closeAfterDanser,
                   pendingStart, dialog, exitWanted, timer, active, runVars>>

DrainReport ==
    /\ Drain({"started", "encode", "finish"})
    /\ encodeInProgress' = CASE Head(runtimeEvents).kind = "encode" -> TRUE
                             [] Head(runtimeEvents).kind = "finish" -> FALSE
                             [] OTHER -> encodeInProgress
    /\ UNCHANGED <<main, shouldClose, danserRunning, gameplayHandedOff, closeAfterDanser,
                   pendingStart, dialog, exitWanted, timer, active, runVars>>

(* dismissProcessCancelDialog *)
DialogAfter(r) == IF dialog.run = r THEN NoDialog ELSE dialog

(* processSupervisor.finish *)
ActiveAfter(r) == IF active = r THEN None ELSE active

(* finishDanser *)
DrainFinished ==
    /\ Drain({"finished"})
    /\ dialog' = DialogAfter(Head(runtimeEvents).id)
    /\ active' = ActiveAfter(Head(runtimeEvents).id)
    /\ danserRunning' = FALSE /\ gameplayHandedOff' = FALSE /\ encodeInProgress' = FALSE
    /\ shouldClose' = (shouldClose \/ closeAfterDanser)
    /\ closeAfterDanser' = FALSE
    /\ exitWanted' = IF exitWanted = "asked" THEN "no" ELSE exitWanted
    /\ UNCHANGED <<main, pendingStart, timer, runVars>>

-----------------------------------------------------------------------------
(* The end of the frame loop and launcher.shutdown.                          *)

(* cancelPendingDanserStart, runtimeCancel and processSupervisor.stop. *)
Shutdown ==
    /\ main = "loop" /\ shouldClose
    /\ main' = "shutdown"
    /\ CancelPendingStart
    /\ canceled' = IF active = None THEN canceled ELSE [canceled EXCEPT ![active] = TRUE]
    /\ UNCHANGED <<shouldClose, danserRunning, gameplayHandedOff, encodeInProgress,
                   closeAfterDanser, dialog, exitWanted, runtimeEvents, active, mode,
                   supervisor, child, printed, pipe, scanner, handoff>>

NotJoined == TRUE    \* MUTANT: close does not wait for run.done
ChildJoined == active # None => Done(active)

(* processSupervisor.close waits for run.done; then the process ends. *)
Exit ==
    /\ main = "shutdown" /\ ChildJoined
    /\ main' = "exited"
    /\ UNCHANGED <<uiVars, runtimeEvents, timer, active, runVars>>

-----------------------------------------------------------------------------
(* The goroutines of a run.  They end with the launcher's process.           *)

Go(r) == main # "exited" /\ Started(r)

(* cmd.Start, refused by an error or by a context already done. *)
StartFails(r) ==
    /\ Go(r) /\ supervisor[r] = "starting"
    /\ supervisor' = [supervisor EXCEPT ![r] = "posting"]
    /\ UNCHANGED <<main, uiVars, runtimeEvents, timer, active, mode, canceled, child,
                   printed, pipe, scanner, handoff>>

StartSucceeds(r) ==
    /\ Go(r) /\ supervisor[r] = "starting" /\ ~canceled[r]
    /\ supervisor' = [supervisor EXCEPT ![r] = "spawned"]
    /\ child' = [child EXCEPT ![r] = "alive"]
    /\ UNCHANGED <<main, uiVars, runtimeEvents, timer, active, mode, canceled, printed,
                   pipe, scanner, handoff>>

(* The started event; then the scanner runs and cmd.Wait is called. *)
PostStarted(r) ==
    /\ Go(r) /\ supervisor[r] = "spawned"
    /\ PostEventContext(r, Event("started", r))
    /\ supervisor' = [supervisor EXCEPT ![r] = "waiting"]
    /\ scanner' = [scanner EXCEPT ![r] = "reading"]
    /\ UNCHANGED <<main, uiVars, timer, active, mode, canceled, child, printed, pipe, handoff>>

(* cmd.Wait returns once the child is dead; closing writePipe is the end of  *)
(* file of the scanner.                                                      *)
WaitReturns(r) ==
    /\ Go(r) /\ supervisor[r] = "waiting"
    /\ child[r] = "dead"
    /\ supervisor' = [supervisor EXCEPT ![r] = "collecting"]
    /\ UNCHANGED <<main, uiVars, runtimeEvents, timer, active, mode, canceled, child,
                   printed, pipe, scanner, handoff>>

OutputCollected(r) == scanner[r] = "ended"

(* state := <-output, and close(run.done). *)
Finish(r) ==
    /\ Go(r) /\ supervisor[r] = "collecting" /\ OutputCollected(r)
    /\ supervisor' = [supervisor EXCEPT ![r] = "posting"]
    /\ UNCHANGED <<main, uiVars, runtimeEvents, timer, active, mode, canceled, child,
                   printed, pipe, scanner, handoff>>

PostResultContext(r) ==    \* MUTANT: the result is dropped with the context of the run
    PostEventContext(r, Event("finished", r))
PostResult(r) == PostEvent(Event("finished", r))

PostFinished(r) ==
    /\ Go(r) /\ supervisor[r] = "posting"
    /\ PostResult(r)
    /\ supervisor' = [supervisor EXCEPT ![r] = "end"]
    /\ UNCHANGED <<main, uiVars, timer, active, mode, canceled, child, printed, pipe, scanner, handoff>>

(* The child prints a line, waiting while the pipes and the copier of        *)
(* os/exec between it and the scanner are full.                              *)
Emit(r, line) ==
    /\ child[r] = "alive" /\ line \in LinesOf(mode[r]) \ printed[r]
    /\ Before(line) \subseteq printed[r]
    /\ Len(pipe[r]) < PipeCapacity
    /\ pipe' = [pipe EXCEPT ![r] = Append(@, line)]
    /\ printed' = [printed EXCEPT ![r] = @ \cup {line}]
    /\ UNCHANGED <<main, uiVars, runtimeEvents, timer, active, mode, canceled,
                   supervisor, child, scanner, handoff>>

ChildDies(r) == /\ child[r] = "alive"
                /\ child' = [child EXCEPT ![r] = "dead"]
                /\ UNCHANGED <<main, uiVars, runtimeEvents, timer, active, mode, canceled,
                               supervisor, printed, pipe, scanner, handoff>>

(* exec.CommandContext kills the child when its context is done. *)
Kill(r) == Go(r) /\ canceled[r] /\ ChildDies(r)

(* One line of scanProcessOutput.  The window line arms the hand-off timer,  *)
(* the splash line stops it; the other lines are posted as they are.         *)
ScanLine(r) ==
    /\ Go(r) /\ scanner[r] = "reading" /\ pipe[r] # <<>>
    /\ pipe' = [pipe EXCEPT ![r] = Tail(@)]
    /\ LET line == Head(pipe[r]) IN
          /\ scanner' = [scanner EXCEPT ![r] = IF line = "window" THEN "reading" ELSE line]
          /\ handoff' = [handoff EXCEPT ![r] =
                CASE line = "window" /\ @ = "none" -> "armed"
                  [] line = "splash" /\ @ # "posting" -> "off"
                  [] OTHER -> @]
    /\ UNCHANGED <<main, uiVars, runtimeEvents, timer, active, mode, canceled,
                   supervisor, child, printed>>

ScannerPosts(r) ==
    /\ Go(r) /\ scanner[r] \in Lines
    /\ PostEventContext(r, Event(scanner[r], r))
    /\ scanner' = [scanner EXCEPT ![r] = "reading"]
    /\ UNCHANGED <<main, uiVars, timer, active, mode, canceled, supervisor, child,
                   printed, pipe, handoff>>

(* End of file.  No line is assumed to exceed the scanner's buffer. *)
ScannerEnds(r) ==
    /\ Go(r) /\ scanner[r] = "reading"
    /\ supervisor[r] = "collecting" /\ pipe[r] = <<>>
    /\ scanner' = [scanner EXCEPT ![r] = "ended"]
    /\ handoff' = [handoff EXCEPT ![r] = IF @ = "armed" THEN "off" ELSE @]
    /\ UNCHANGED <<main, uiVars, runtimeEvents, timer, active, mode, canceled,
                   supervisor, child, printed, pipe>>

HandoffFires(r) ==
    /\ Go(r) /\ handoff[r] = "armed"
    /\ handoff' = [handoff EXCEPT ![r] = "posting"]
    /\ UNCHANGED <<main, uiVars, runtimeEvents, timer, active, mode, canceled,
                   supervisor, child, printed, pipe, scanner>>

HandoffPosts(r) ==
    /\ Go(r) /\ handoff[r] = "posting"
    /\ PostEventContext(r, Event("timeout", r))
    /\ handoff' = [handoff EXCEPT ![r] = "off"]
    /\ UNCHANGED <<main, uiVars, timer, active, mode, canceled, supervisor, child,
                   printed, pipe, scanner>>

-----------------------------------------------------------------------------
User == ClickRecord \/ ClickWatch \/ ClickStop \/ CloseRequest \/ ConfirmClick \/ DismissClick

DrainEvent == DrainTask \/ DrainHandoff \/ DrainReport \/ DrainFinished

Supervise(r) ==
    \/ StartFails(r) \/ StartSucceeds(r) \/ PostStarted(r) \/ WaitReturns(r)
    \/ Finish(r) \/ PostFinished(r)

Scan(r) == ScanLine(r) \/ ScannerPosts(r) \/ ScannerEnds(r)

Terminated == main = "exited" /\ UNCHANGED vars

Next ==
    \/ User \/ DialogFades \/ DrainEvent \/ Shutdown \/ Exit
    \/ \E q \in Requests : main # "exited" /\ (TimerFires(q) \/ TimerPosts(q))
    \/ \E r \in Runs :
          \/ Supervise(r) \/ Scan(r) \/ HandoffFires(r) \/ HandoffPosts(r)
          \/ Kill(r) \/ ChildDies(r) \/ \E line \in Lines : Emit(r, line)
    \/ Terminated

(* The frame loop keeps draining, and the goroutines, timers and the kill    *)
(* make progress.  Nothing is assumed of the user or of the child.           *)
Fairness ==
    /\ WF_vars(DrainEvent) /\ WF_vars(DialogFades) /\ WF_vars(Shutdown) /\ WF_vars(Exit)
    /\ \A q \in Requests : WF_vars(main # "exited" /\ (TimerFires(q) \/ TimerPosts(q)))
    /\ \A r \in Runs : WF_vars(Supervise(r)) /\ WF_vars(Kill(r))
                       /\ WF_vars(Scan(r)) /\ WF_vars(HandoffPosts(r))

Spec == Init /\ [][Next]_vars
LiveSpec == Spec /\ Fairness

-----------------------------------------------------------------------------
TypeOK ==
    /\ main \in {"loop", "shutdown", "exited"}
    /\ shouldClose \in BOOLEAN /\ danserRunning \in BOOLEAN
    /\ gameplayHandedOff \in BOOLEAN /\ encodeInProgress \in BOOLEAN
    /\ closeAfterDanser \in BOOLEAN /\ exitWanted \in {"no", "asked", "confirmed"}
    /\ pendingStart \in Requests \cup {None} /\ active \in Runs \cup {None}
    /\ dialog \in [run : Runs \cup {None}, phase : {"open", "fading", "closed"},
                   exits : BOOLEAN]
    /\ runtimeEvents \in Seq(Events) /\ Len(runtimeEvents) <= QueueCapacity
    /\ timer \in [Requests -> {"none", "armed", "posting", "off"}]
    /\ mode \in [Runs -> Modes \cup {"none"}]
    /\ canceled \in [Runs -> BOOLEAN]
    /\ supervisor \in [Runs -> {"none", "starting", "spawned", "waiting", "collecting",
                                "posting", "end"}]
    /\ child \in [Runs -> {"none", "alive", "dead"}]
    /\ printed \in [Runs -> SUBSET Lines]
    /\ pipe \in [Runs -> Seq(Lines)] /\ \A r \in Runs : Len(pipe[r]) <= PipeCapacity
    /\ scanner \in [Runs -> Lines \cup {"none", "reading", "ended"}]
    /\ handoff \in [Runs -> {"none", "armed", "posting", "off"}]

(* Types, and the queue's bound.  The interface shows a running game exactly *)
(* while the supervisor has one, a child that lives is that one, and a confirmation on screen is about it: *)
(* clicking one that was opened for an earlier run stops no other child      *)
(* (startDanser, finishDanser, dismissProcessCancelDialog).                  *)
ActiveRunShown ==
    /\ TypeOK
    /\ danserRunning <=> active # None
    /\ \A r \in Runs : child[r] = "alive" /\ main # "exited" => active = r
    /\ Live(dialog) => dialog.run = active

(* The launcher is minimised only for a game whose window exists, and shows  *)
(* an encoding only if the active child has started one: no late event of an *)
(* earlier run is taken for one of the next, though encoding events carry no *)
(* run (handoffToGameplay, execute, scanProcessOutput).                      *)
OwnEvents ==
    /\ gameplayHandedOff => active # None /\ "window" \in printed[active]
    /\ encodeInProgress => active # None /\ "encode" \in printed[active]

(* Runs are kept apart: what the interface shows, and what a click does, is  *)
(* about the run the supervisor has, though events and dialogs outlive the   *)
(* run they belong to.                                                       *)
RunsApart == ActiveRunShown /\ OwnEvents

(* A delayed start launches a child only once its own timer has run out: the *)
(* task of a start that was taken back never launches the next one early     *)
(* (launchPendingDanserStart).                                               *)
GracePeriodKept ==
    [][\A q \in Requests :
         pendingStart = q /\ ~danserRunning /\ danserRunning' => timer[q] = "off"]_vars

(* The launcher leaves its loop only on an exit the user requested and has   *)
(* not taken back (confirmProcessCancellation, cancelActiveProcess), and     *)
(* exits only when no child is left alive (processSupervisor.close).         *)
CleanExit ==
    /\ main # "loop" => exitWanted = "confirmed"
    /\ main = "exited" => \A r \in Runs : child[r] # "alive"

(* A child that was cancelled is reported finished, or the launcher exits;   *)
(* and once the loop is left the launcher exits: close never waits for ever. *)
CancelEnds ==
    /\ \A r \in Runs : canceled[r] ~> (active # r \/ main = "exited")
    /\ main = "shutdown" ~> main = "exited"
=============================================================================
