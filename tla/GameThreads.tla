------------------------------- MODULE GameThreads -------------------------------
(***************************************************************************)
(* The threads of a gameplay process that plays in a window, from the main *)
(* loop to the end of the process: the main thread (executeMainLoop and    *)
(* closeHandler), the goroutine of run, the update worker of the player,   *)
(* the worker of the storyboard, and the thread that owns BASS.  Any of    *)
(* them may panic; whichever does runs the crash handler itself, while the *)
(* others go on.                                                           *)
(***************************************************************************)
EXTENDS Naturals, FiniteSets, Sequences

CONSTANTS
    Stories,        \* goroutines the storyboard may start, one after the other
    MaxPanics,      \* bound: threads that panic
    None

ASSUME ThreadAssumption ==
    /\ IsFiniteSet(Stories) /\ Stories # {}
    /\ MaxPanics \in Nat
    /\ Stories \cap {"main", "run", "worker"} = {}
    /\ None \notin Stories \cup {"main", "run", "worker"}

Threads == {"main", "run", "worker"} \cup Stories

VARIABLES
    at,             \* where each thread is
    queue,          \* callQueue of the main thread: "raw" waits for an answer, "close" does not
    shouldClose,    \* gcontext.ShouldClose
    renderErr,      \* mainLoopNormal: a frame could not be rendered
    failing,        \* threads whose closeHandler was given an error
    player,         \* app.player is not nil
    updateStop,     \* the channel is closed
    disposal,       \* disposeOnce: "fresh", "busy", "done"
    storyRun,       \* storyboard.shouldRun
    renderMu,       \* who holds storyboard.renderMu
    commands,       \* audioExecutor.commands: who submitted what and waits for it, in turn
    executor,       \* the audio thread: "runs" or "ended"
    stopping,       \* audioExecutor.stopping
    stop,           \* audioExecutor.stop is closed
    panics,
    ended           \* "no", "ok" (exit code 0) or "error"

vars == <<at, queue, shouldClose, renderErr, failing, player, updateStop, disposal, storyRun,
          renderMu, commands, executor, stopping, stop, panics, ended>>
game == <<queue, shouldClose, renderErr>>
ending == <<failing, player, updateStop, disposal, panics, ended>>
story == <<storyRun, renderMu>>
bass == <<commands, executor, stopping, stop>>

At(t, places) == at[t] \in places
GoTo(t, place) == at' = [at EXCEPT ![t] = place]
Submitters == {commands[i].thread : i \in DOMAIN commands}

(* Who may take a step: the process is alive and the thread is not inside a call of the audio thread. *)
Free(t) == ended = "no" /\ t \notin Submitters

----------------------------------------------------------------------------
(* The audio thread. *)

(* A call of runOnAudioThread: refused when the executor stops, else counted until it is answered. *)
Submitted(t, c) ==
    commands' = IF stopping THEN commands ELSE Append(commands, [thread |-> t, does |-> c])

(* The command loop takes a command, runs it, and answers its submitter. *)
RunCommand ==
    /\ ended = "no" /\ executor = "runs" /\ commands # <<>>
    /\ commands' = Tail(commands)
    /\ UNCHANGED <<at, game, ending, story, executor, stopping, stop>>

ExecutorStops ==
    /\ ended = "no" /\ executor = "runs" /\ stop
    /\ executor' = "ended"
    /\ UNCHANGED <<at, game, ending, story, commands, stopping, stop>>

----------------------------------------------------------------------------
(* The main thread. *)

(* The condition of the main loop. *)
MainCond ==
    /\ Free("main") /\ At("main", {"cond"})
    /\ GoTo("main", IF shouldClose THEN "finish" ELSE "drain")
    /\ UNCHANGED <<game, ending, story, bass>>

(* The calls that were queued, one by one, until the queue is empty. *)
MainDrain ==
    /\ Free("main") /\ At("main", {"drain"})
    /\ IF queue = <<>>
       THEN /\ GoTo("main", "events")
            /\ UNCHANGED <<queue, shouldClose>>
       ELSE /\ queue' = Tail(queue)
            /\ shouldClose' = (shouldClose \/ Head(queue) = "close")
            /\ at' = IF Head(queue) = "raw" THEN [at EXCEPT !["worker"] = "story"] ELSE at
    /\ UNCHANGED <<renderErr, ending, story, bass>>

(* HandleEvents: the user may close the window. *)
MainEvents ==
    /\ Free("main") /\ At("main", {"events"})
    /\ GoTo("main", "draw")
    /\ shouldClose' \in {shouldClose, TRUE}
    /\ UNCHANGED <<queue, renderErr, ending, story, bass>>

(* pushFrame: nothing without a player; else the storyboard is drawn under its lock. *)
MainDraw ==
    /\ Free("main") /\ At("main", {"draw"})
    /\ \/ /\ ~player
          /\ GoTo("main", "cond")
          /\ UNCHANGED <<game, renderMu>>
       \/ /\ player /\ renderMu = None
          /\ GoTo("main", "drawing")
          /\ renderMu' = "main"
          /\ UNCHANGED game
       \/ /\ GoTo("main", "cond")
          /\ renderErr' = TRUE /\ shouldClose' = TRUE
          /\ UNCHANGED <<queue, renderMu>>
    /\ UNCHANGED <<ending, storyRun, bass>>

(* The rest of the frame, which may ask for the position of the track. *)
MainDrawn ==
    /\ Free("main") /\ At("main", {"drawing"})
    /\ GoTo("main", "cond")
    /\ renderMu' = None
    /\ (commands' = commands \/ Submitted("main", "track"))
    /\ UNCHANGED <<game, ending, storyRun, executor, stopping, stop>>

(* The loop is over: run is told, RunMain returns and Run closes without an error. *)
MainFinish ==
    /\ Free("main") /\ At("main", {"finish"}) /\ At("run", {"loop"})
    /\ at' = [at EXCEPT !["main"] = "close", !["run"] = "tail"]
    /\ UNCHANGED <<game, ending, story, bass>>

(* The rest of mainLoopNormal: a render error is a panic, which run recovers. *)
RunTail ==
    /\ Free("run") /\ At("run", {"tail"})
    /\ GoTo("run", IF renderErr THEN "close" ELSE "gone")
    /\ failing' = IF renderErr THEN failing \cup {"run"} ELSE failing
    /\ UNCHANGED <<game, player, updateStop, disposal, panics, ended, story, bass>>

----------------------------------------------------------------------------
(* The update worker. *)

(* Mutant: only the window ends the worker. *)
LeavesWithWindow == shouldClose

WorkerLeaves == updateStop \/ shouldClose

(* The top of its loop; an update begins with a snapshot of the playback. *)
WorkerTop ==
    /\ Free("worker") /\ At("worker", {"top"})
    /\ GoTo("worker", IF WorkerLeaves THEN "leave" ELSE "update")
    /\ Submitted("worker", "track")
    /\ UNCHANGED <<game, ending, story, executor, stopping, stop>>

(* PlayerController.Update: the raw input mode is switched by a call on the main thread that is  *)
(* waited for; a quick restart posts one that is not.                                            *)
WorkerUpdate ==
    /\ Free("worker") /\ At("worker", {"update"})
    /\ \/ GoTo("worker", "story") /\ queue' = queue
       \/ GoTo("worker", "called") /\ queue' = Append(queue, "raw")
       \/ /\ queue = <<>>       \* bound: one quick restart at a time
          /\ GoTo("worker", "story") /\ queue' = Append(queue, "close")
    /\ UNCHANGED <<shouldClose, renderErr, ending, story, bass>>

(* Background.Update: the worker of the storyboard is started when it does not run. *)
LiveStories == {s \in Stories : At(s, {"loop", "update"})}
ThreadMuFree == \A t \in Threads : ~At(t, {"joinStory"})

WorkerStory ==
    /\ Free("worker") /\ At("worker", {"story"})
    /\ \/ /\ storyRun
          /\ GoTo("worker", "top")
          /\ UNCHANGED storyRun
       \/ /\ ~storyRun /\ ThreadMuFree /\ LiveStories = {}
          /\ \E s \in Stories :
                /\ At(s, {"unused"})
                /\ at' = [at EXCEPT !["worker"] = "top", ![s] = "loop"]
          /\ storyRun' = TRUE
    /\ UNCHANGED <<game, ending, renderMu, bass>>

(* The deferred calls: the track and the loops are stopped, then the worker is done. *)
WorkerLeave ==
    /\ Free("worker") /\ At("worker", {"leave"})
    /\ GoTo("worker", IF "worker" \in failing THEN "close" ELSE "gone")
    /\ UNCHANGED <<game, ending, story, bass>>

(* Mutant: Dispose does not wait for the worker. *)
NotWaited == TRUE

WorkerJoined == ~At("worker", {"top", "update", "called", "story", "leave"})

----------------------------------------------------------------------------
(* The worker of the storyboard. *)

StoryLoop(s) ==
    /\ Free(s) /\ At(s, {"loop"})
    /\ \/ /\ ~storyRun
          /\ GoTo(s, "gone")
          /\ UNCHANGED <<renderMu, commands>>
       \/ /\ storyRun /\ renderMu = None
          /\ GoTo(s, "update")
          /\ renderMu' = s
          /\ (commands' = commands \/ Submitted(s, "play"))
    /\ UNCHANGED <<game, ending, storyRun, executor, stopping, stop>>

StoryUpdated(s) ==
    /\ Free(s) /\ At(s, {"update"})
    /\ GoTo(s, "loop")
    /\ renderMu' = None
    /\ UNCHANGED <<game, ending, storyRun, bass>>

----------------------------------------------------------------------------
(* A panic.  Deferred calls release the locks and end the worker before the crash handler runs. *)

PanicAt(t) ==
    CASE t = "main"   -> {"drain", "draw", "drawing"}
      [] t = "worker" -> {"update", "story"}
      [] t = "run"    -> {}
      [] OTHER        -> {"update"}

Panic(t) ==
    /\ Free(t) /\ at[t] \in PanicAt(t) /\ panics < MaxPanics
    /\ t \in Stories => \E s \in Stories : At(s, {"unused"})     \* bound: the last one does not
    /\ panics' = panics + 1
    /\ failing' = failing \cup {t}
    /\ renderMu' = IF renderMu = t THEN None ELSE renderMu
    /\ storyRun' = (storyRun /\ t \notin Stories)
    /\ IF t = "worker"
       THEN GoTo(t, "leave") /\ Submitted(t, "track")
       ELSE GoTo(t, "close") /\ commands' = commands
    /\ UNCHANGED <<game, player, updateStop, disposal, ended, executor, stopping, stop>>

----------------------------------------------------------------------------
(* closeHandler, on whichever thread. *)

Closing == {"close", "dispose", "joinWorker", "quiet", "joinStory", "freeStory", "closeTrack",
            "disposed", "bass", "stopExecutor", "drainExecutor", "joinExecutor", "exit"}

(* player is read for the test, and again for the call: another closeHandler may clear it between. *)
Close(t) ==
    /\ Free(t) /\ At(t, {"close"})
    /\ GoTo(t, IF player THEN "dispose" ELSE "bass")
    /\ UNCHANGED <<game, ending, story, bass>>

(* Dispose: the first caller does it, the others wait until it is done. *)
Dispose(t) ==
    /\ Free(t) /\ At(t, {"dispose"})
    /\ \/ /\ ~player                 \* a call of a nil interface ends the process
          /\ ended' = "error"
          /\ UNCHANGED <<at, updateStop, disposal>>
       \/ /\ player /\ disposal = "fresh"
          /\ updateStop' = TRUE
          /\ disposal' = "busy"
          /\ GoTo(t, "joinWorker")
          /\ UNCHANGED ended
       \/ /\ player /\ disposal = "done"
          /\ GoTo(t, "disposed")
          /\ UNCHANGED <<updateStop, disposal, ended>>
    /\ UNCHANGED <<game, failing, player, panics, story, bass>>

JoinWorker(t) ==
    /\ Free(t) /\ At(t, {"joinWorker"}) /\ WorkerJoined
    /\ GoTo(t, "quiet")
    /\ Submitted(t, "quiet")
    /\ UNCHANGED <<game, ending, story, executor, stopping, stop>>

(* Storyboard.Dispose: StopThread, then the samples are freed under the lock. *)
StopThread(t) ==
    /\ Free(t) /\ At(t, {"quiet"})
    /\ storyRun' = FALSE
    /\ GoTo(t, "joinStory")
    /\ UNCHANGED <<game, ending, renderMu, bass>>

JoinStory(t) ==
    /\ Free(t) /\ At(t, {"joinStory"}) /\ LiveStories = {} /\ renderMu = None
    /\ renderMu' = t
    /\ GoTo(t, "freeStory")
    /\ Submitted(t, "freeSamples")
    /\ UNCHANGED <<game, ending, storyRun, executor, stopping, stop>>

FreeStory(t) ==
    /\ Free(t) /\ At(t, {"freeStory"})
    /\ renderMu' = None
    /\ GoTo(t, "closeTrack")
    /\ Submitted(t, "closeTrack")
    /\ UNCHANGED <<game, ending, storyRun, executor, stopping, stop>>

CloseTrack(t) ==
    /\ Free(t) /\ At(t, {"closeTrack"})
    /\ disposal' = "done"
    /\ GoTo(t, "disposed")
    /\ UNCHANGED <<game, failing, player, updateStop, panics, ended, story, bass>>

Disposed(t) ==
    /\ Free(t) /\ At(t, {"disposed"})
    /\ player' = FALSE
    /\ GoTo(t, "bass")
    /\ UNCHANGED <<game, failing, updateStop, disposal, panics, ended, story, bass>>

(* Shutdown: BASS is freed by a command, then stopExecutor refuses, drains, stops and joins. *)
ShutdownBass(t) ==
    /\ Free(t) /\ At(t, {"bass"})
    /\ GoTo(t, "stopExecutor")
    /\ Submitted(t, "free")
    /\ UNCHANGED <<game, ending, story, executor, stopping, stop>>

StopExecutor(t) ==
    /\ Free(t) /\ At(t, {"stopExecutor"})
    /\ stopping' = TRUE
    /\ GoTo(t, IF stopping THEN "joinExecutor" ELSE "drainExecutor")
    /\ UNCHANGED <<game, ending, story, commands, executor, stop>>

(* Mutant: the submissions under way are not waited for. *)
NotDrained == TRUE

Drained == commands = <<>>

DrainExecutor(t) ==
    /\ Free(t) /\ At(t, {"drainExecutor"}) /\ Drained
    /\ stop' = TRUE
    /\ GoTo(t, "joinExecutor")
    /\ UNCHANGED <<game, ending, story, commands, executor, stopping>>

JoinExecutor(t) ==
    /\ Free(t) /\ At(t, {"joinExecutor"}) /\ executor = "ended"
    /\ GoTo(t, "exit")
    /\ UNCHANGED <<game, ending, story, bass>>

(* The end: os.Exit(1) after an error, else main returns. *)
Exit(t) ==
    /\ Free(t) /\ At(t, {"exit"})
    /\ ended' = IF t \in failing THEN "error" ELSE "ok"
    /\ UNCHANGED <<at, game, failing, player, updateStop, disposal, panics, story, bass>>

CloseHandler(t) ==
    \/ Close(t) \/ Dispose(t) \/ JoinWorker(t) \/ StopThread(t) \/ JoinStory(t) \/ FreeStory(t)
    \/ CloseTrack(t) \/ Disposed(t) \/ ShutdownBass(t) \/ StopExecutor(t) \/ DrainExecutor(t)
    \/ JoinExecutor(t) \/ Exit(t)

----------------------------------------------------------------------------

Init ==
    /\ at = [t \in Threads |-> CASE t = "main" -> "cond" [] t = "run" -> "loop"
                                 [] t = "worker" -> "top" [] OTHER -> "unused"]
    /\ queue = <<>> /\ shouldClose = FALSE /\ renderErr = FALSE
    /\ failing = {} /\ player = TRUE /\ updateStop = FALSE /\ disposal = "fresh"
    /\ storyRun = FALSE /\ renderMu = None
    /\ commands = <<>> /\ executor = "runs" /\ stopping = FALSE /\ stop = FALSE
    /\ panics = 0 /\ ended = "no"

Main == MainCond \/ MainDrain \/ MainEvents \/ MainDraw \/ MainDrawn \/ MainFinish
Worker == WorkerTop \/ WorkerUpdate \/ WorkerStory \/ WorkerLeave
Story(s) == StoryLoop(s) \/ StoryUpdated(s)
Executor == RunCommand \/ ExecutorStops

(* The worker waits for a call the main thread will never take, for it has left its loop. *)
Stranded == At("worker", {"called"}) /\ at["main"] \in Closing \cup {"finish"}

Terminated == (ended # "no" \/ Stranded) /\ UNCHANGED vars

Next ==
    \/ Main \/ RunTail \/ Worker \/ Executor \/ Terminated
    \/ \E s \in Stories : Story(s)
    \/ \E t \in Threads : Panic(t) \/ CloseHandler(t)

(* Fairness: the scheduler runs every goroutine that can run; a channel and a mutex serve those   *)
(* that wait for them in turn.  Nothing is assumed of the user or of panics.                      *)
Fairness ==
    /\ WF_vars(Main) /\ WF_vars(RunTail) /\ WF_vars(Worker) /\ WF_vars(Executor)
    /\ SF_vars(MainDraw) /\ SF_vars(\E t \in Threads : JoinStory(t))
    /\ \A s \in Stories : WF_vars(Story(s))
    /\ \A t \in Threads : WF_vars(CloseHandler(t))

Spec == Init /\ [][Next]_vars /\ Fairness

----------------------------------------------------------------------------
(* Correctness. *)

Places == {"unused", "cond", "drain", "events", "draw", "drawing", "finish", "loop", "tail", "top",
           "update", "called", "story", "leave", "gone"} \cup Closing

Calls == {"track", "play", "quiet", "freeSamples", "closeTrack", "free"}

ThreadsType ==
    /\ at \in [Threads -> Places]
    /\ failing \subseteq Threads
    /\ renderMu \in Threads \cup {None}
    /\ panics \in 0..MaxPanics

QueuesType ==
    /\ queue \in Seq({"raw", "close"})
    /\ commands \in Seq([thread : Threads, does : Calls])

FlagsType ==
    /\ shouldClose \in BOOLEAN /\ renderErr \in BOOLEAN /\ player \in BOOLEAN
    /\ updateStop \in BOOLEAN /\ storyRun \in BOOLEAN /\ stopping \in BOOLEAN /\ stop \in BOOLEAN
    /\ disposal \in {"fresh", "busy", "done"}
    /\ executor \in {"runs", "ended"}
    /\ ended \in {"no", "ok", "error"}

(* TypeOK: the types of the variables. *)
TypeOK == ThreadsType /\ QueuesType /\ FlagsType

(* QuietAfterDispose: from the moment Dispose frees what the workers use (samples, atlas, track)  *)
(* until the end, neither the update worker nor a worker of the storyboard runs, and none of      *)
(* their commands is under way; whichever thread crashed, and although the update worker restarts *)
(* a storyboard that crashed (Player.Dispose, Storyboard.StartThread and StopThread).             *)
QuietAfterDispose ==
    (disposal = "done" \/ \E t \in Threads : At(t, {"freeStory", "closeTrack"})) =>
        /\ WorkerJoined /\ LiveStories = {} /\ ~storyRun
        /\ \A i \in DOMAIN commands : commands[i].does # "play"

(* CommandsAnswered: types; and the audio thread is stopped only when no submission waits for  *)
(* it, so that no caller waits for ever (stopExecutor, executor.go:103).                          *)
CommandsAnswered == TypeOK /\ (stop => commands = <<>>)

(* ExitCompletes: once the window is to be closed or a thread has crashed, the process ends;      *)
(* unless the update worker is caught waiting for a call of the main thread (CallMain).           *)
ExitCompletes == (shouldClose \/ failing # {}) ~> (ended # "no" \/ Stranded)

=============================================================================
