--------------------------- MODULE GameplayProofs ---------------------------
(***************************************************************************)
(* Theorems about a game.                                                  *)
(*                                                                         *)
(* Its end (GameThreads), for every number of storyboard workers and       *)
(* crashes: the audio thread leaves no caller waiting, and what Dispose    *)
(* frees is no longer used.                                                *)
(*                                                                         *)
(* Its spinners (HitObjects): whatever the cursor does, and however much   *)
(* rotation a late frame reports at once, every completed spin stands for  *)
(* four quarters that were turned, and so does the completion the result   *)
(* is decided on (getCompletion).                                          *)
(***************************************************************************)
EXTENDS GameThreads, HitObjects, TLAPS

-----------------------------------------------------------------------------
(* The inductive invariant. *)

(* Only the worker has a call in the queue that somebody waits for, and at most one: whoever      *)
(* takes it finds the worker waiting (CallMain).                                                  *)
CallsAwaited ==
    \A i \in DOMAIN queue : queue[i] = "raw" =>
        /\ At("worker", {"called"})
        /\ \A j \in DOMAIN queue : queue[j] = "raw" => i = j

(* A sample is played from inside an update of the storyboard, which waits for it. *)
PlayedByStories ==
    \A i \in DOMAIN commands : commands[i].does = "play" =>
        /\ commands[i].thread \in Stories
        /\ At(commands[i].thread, {"update"})

(* What Dispose has waited for stays that way: first the update worker, without which nobody can  *)
(* start the storyboard again, then the request to stop the storyboard, then its worker.          *)
WorkerFirst ==
    (disposal = "done" \/ \E t \in Threads : At(t, {"quiet", "joinStory", "freeStory", "closeTrack"}))
        => WorkerJoined

ThenRequest ==
    (disposal = "done" \/ \E t \in Threads : At(t, {"joinStory", "freeStory", "closeTrack"}))
        => ~storyRun

ThenStory ==
    (disposal = "done" \/ \E t \in Threads : At(t, {"freeStory", "closeTrack"}))
        => LiveStories = {}

(* stopExecutor refuses new commands before it waits for the old ones. *)
StoppedInTurn ==
    /\ \A t \in Threads : At(t, {"drainExecutor"}) => stopping
    /\ stop => stopping /\ commands = <<>>

Inv ==
    /\ TypeOK /\ CallsAwaited /\ PlayedByStories
    /\ WorkerFirst /\ ThenRequest /\ ThenStory /\ StoppedInTurn

-----------------------------------------------------------------------------
(* Types. *)


LEMMA InitInv == Init => Inv
<1> SUFFICES ASSUME Init PROVE Inv
  OBVIOUS
<1>1. ThreadsType
  BY ThreadAssumption DEF Init, ThreadsType, Threads, Places
<1>2. QueuesType
  BY DEF Init, QueuesType
<1>3. FlagsType
  BY ZenonT(60) DEF Init, FlagsType
<1>4. CallsAwaited /\ PlayedByStories /\ StoppedInTurn
  BY DEF Init, CallsAwaited, PlayedByStories, StoppedInTurn, At, Threads
<1>5. WorkerFirst /\ ThenRequest /\ ThenStory
  BY ThreadAssumption DEF Init, WorkerFirst, ThenRequest, ThenStory, At, Threads, LiveStories
<1> QED
  BY <1>1, <1>2, <1>3, <1>4, <1>5 DEF Inv, TypeOK

LEMMA FlagsKept == ASSUME TypeOK, Next PROVE FlagsType'
<1> USE DEF TypeOK, FlagsType, game, ending, story, bass
<1>1. CASE Main
  <2>1. CASE MainCond
    BY ZenonT(60), <2>1 DEF MainCond
  <2>2. CASE MainDrain
    BY ZenonT(60), <2>2 DEF MainDrain
  <2>3. CASE MainEvents
    BY ZenonT(60), <2>3 DEF MainEvents
  <2>4. CASE MainDraw
    BY ZenonT(60), <2>4 DEF MainDraw
  <2>5. CASE MainDrawn
    BY ZenonT(60), <2>5 DEF MainDrawn
  <2>6. CASE MainFinish
    BY ZenonT(60), <2>6 DEF MainFinish
  <2> QED
    BY <1>1, <2>1, <2>2, <2>3, <2>4, <2>5, <2>6
    DEF Main
<1>2. CASE Worker
  <2>1. CASE WorkerTop
    BY ZenonT(60), <2>1 DEF WorkerTop
  <2>2. CASE WorkerUpdate
    BY ZenonT(60), <2>2 DEF WorkerUpdate
  <2>3. CASE WorkerStory
    BY ZenonT(60), <2>3 DEF WorkerStory
  <2>4. CASE WorkerLeave
    BY ZenonT(60), <2>4 DEF WorkerLeave
  <2> QED
    BY <1>2, <2>1, <2>2, <2>3, <2>4
    DEF Worker
<1>3. CASE RunTail
  BY ZenonT(60), <1>3 DEF RunTail
<1>4. CASE Executor
  <2>1. CASE RunCommand
    BY ZenonT(60), <2>1 DEF RunCommand
  <2>2. CASE ExecutorStops
    BY ZenonT(60), <2>2 DEF ExecutorStops
  <2> QED
    BY <1>4, <2>1, <2>2
    DEF Executor
<1>5. CASE Terminated
  BY ZenonT(60), <1>5 DEF Terminated, vars
<1>6. ASSUME NEW s \in Stories, Story(s) PROVE FlagsType'
  <2>1. CASE StoryLoop(s)
    BY ZenonT(60), <2>1 DEF StoryLoop
  <2>2. CASE StoryUpdated(s)
    BY ZenonT(60), <2>2 DEF StoryUpdated
  <2> QED
    BY <1>6, <2>1, <2>2
    DEF Story
<1>7. ASSUME NEW t \in Threads, Panic(t) PROVE FlagsType'
  BY ZenonT(60), <1>7 DEF Panic
<1>8. ASSUME NEW t \in Threads, CloseHandler(t) PROVE FlagsType'
  <2>1. CASE Close(t)
    BY ZenonT(60), <2>1 DEF Close
  <2>2. CASE Dispose(t)
    BY ZenonT(60), <2>2 DEF Dispose
  <2>3. CASE JoinWorker(t)
    BY ZenonT(60), <2>3 DEF JoinWorker
  <2>4. CASE StopThread(t)
    BY ZenonT(60), <2>4 DEF StopThread
  <2>5. CASE JoinStory(t)
    BY ZenonT(60), <2>5 DEF JoinStory
  <2>6. CASE FreeStory(t)
    BY ZenonT(60), <2>6 DEF FreeStory
  <2>7. CASE CloseTrack(t)
    BY ZenonT(60), <2>7 DEF CloseTrack
  <2>8. CASE Disposed(t)
    BY ZenonT(60), <2>8 DEF Disposed
  <2>9. CASE ShutdownBass(t)
    BY ZenonT(60), <2>9 DEF ShutdownBass
  <2>10. CASE StopExecutor(t)
    BY ZenonT(60), <2>10 DEF StopExecutor
  <2>11. CASE DrainExecutor(t)
    BY ZenonT(60), <2>11 DEF DrainExecutor
  <2>12. CASE JoinExecutor(t)
    BY ZenonT(60), <2>12 DEF JoinExecutor
  <2>13. CASE Exit(t)
    BY ZenonT(60), <2>13 DEF Exit
  <2> QED
    BY <1>8, <2>1, <2>2, <2>3, <2>4, <2>5, <2>6, <2>7, <2>8, <2>9, <2>10, <2>11, <2>12, <2>13
    DEF CloseHandler
<1> QED
  BY <1>1, <1>2, <1>3, <1>4, <1>5, <1>6, <1>7, <1>8 DEF Next

LEMMA SubmittedType ==
  ASSUME QueuesType, NEW t \in Threads, NEW c \in Calls, Submitted(t, c)
  PROVE  commands' \in Seq([thread : Threads, does : Calls])
<1>1. [thread |-> t, does |-> c] \in [thread : Threads, does : Calls]
  OBVIOUS
<1>2. \A T, e : commands \in Seq(T) /\ e \in T => Append(commands, e) \in Seq(T)
  OBVIOUS
<1> QED
  BY <1>1, <1>2 DEF QueuesType, Submitted

LEMMA QueuesKept == ASSUME TypeOK, Next PROVE QueuesType'
<1> USE DEF TypeOK, QueuesType, game, ending, story, bass
<1>1. CASE MainCond \/ MainEvents \/ MainDraw \/ MainFinish \/ RunTail \/ WorkerStory \/ WorkerLeave
  BY <1>1 DEF MainCond, MainEvents, MainDraw, MainFinish, RunTail, WorkerStory, WorkerLeave
<1>2. CASE MainDrain \/ WorkerUpdate
  BY <1>2 DEF MainDrain, WorkerUpdate
<1>3. CASE RunCommand \/ ExecutorStops
  BY <1>3 DEF RunCommand, ExecutorStops
<1>4. CASE Terminated
  BY <1>4 DEF Terminated, vars
<1>5. CASE MainDrawn
  <2>1. "main" \in Threads /\ "track" \in Calls
    BY DEF Threads, Calls
  <2> QED
    BY <1>5, <2>1, SubmittedType DEF MainDrawn
<1>6. CASE WorkerTop
  <2>1. "worker" \in Threads /\ "track" \in Calls
    BY DEF Threads, Calls
  <2> QED
    BY <1>6, <2>1, SubmittedType DEF WorkerTop
<1>7. ASSUME NEW s \in Stories, Story(s) PROVE QueuesType'
  <2>1. s \in Threads /\ "play" \in Calls
    BY DEF Threads, Calls
  <2>2. CASE StoryLoop(s)
    BY <2>1, <2>2, SubmittedType DEF StoryLoop
  <2>3. CASE StoryUpdated(s)
    BY <2>3 DEF StoryUpdated
  <2> QED
    BY <1>7, <2>2, <2>3 DEF Story
<1>8. ASSUME NEW t \in Threads, Panic(t) PROVE QueuesType'
  <2>1. "track" \in Calls
    BY DEF Calls
  <2> QED
    BY <1>8, <2>1, SubmittedType DEF Panic
<1>9. ASSUME NEW t \in Threads, CloseHandler(t) PROVE QueuesType'
  <2>1. {"quiet", "freeSamples", "closeTrack", "free"} \subseteq Calls
    BY DEF Calls
  <2>2. CASE JoinWorker(t)
    BY <2>1, <2>2, SubmittedType DEF JoinWorker
  <2>3. CASE JoinStory(t)
    BY <2>1, <2>3, SubmittedType DEF JoinStory
  <2>4. CASE FreeStory(t)
    BY <2>1, <2>4, SubmittedType DEF FreeStory
  <2>5. CASE ShutdownBass(t)
    BY <2>1, <2>5, SubmittedType DEF ShutdownBass
  <2>6. CASE UNCHANGED <<queue, commands>>
    BY <2>6
  <2> QED
    BY <1>9, <2>2, <2>3, <2>4, <2>5, <2>6
    DEF CloseHandler, Close, Dispose, StopThread, CloseTrack, Disposed, StopExecutor,
        DrainExecutor, JoinExecutor, Exit
<1> QED
  BY <1>1, <1>2, <1>3, <1>4, <1>5, <1>6, <1>7, <1>8, <1>9 DEF Next, Main, Worker, Executor

LEMMA ThreadsKept == ASSUME TypeOK, Next PROVE ThreadsType'
<1> USE ThreadAssumption DEF TypeOK, ThreadsType, game, ending, story, bass, GoTo
<1>1. CASE Main
  BY <1>1
  DEF Main, MainCond, MainDrain, MainEvents, MainDraw, MainDrawn, MainFinish, Threads, Places,
      Closing
<1>2. CASE Worker
  BY <1>2 DEF Worker, WorkerTop, WorkerUpdate, WorkerStory, WorkerLeave, Threads, Places, Closing
<1>3. CASE RunTail \/ Executor \/ Terminated
  BY <1>3
  DEF RunTail, Executor, RunCommand, ExecutorStops, Terminated, vars, Threads, Places, Closing
<1>4. ASSUME NEW s \in Stories, Story(s) PROVE ThreadsType'
  BY <1>4 DEF Story, StoryLoop, StoryUpdated, Threads, Places
<1>5. ASSUME NEW t \in Threads, Panic(t) PROVE ThreadsType'
  <2>1. {"leave", "close"} \subseteq Places
    BY DEF Places, Closing
  <2>2. at' \in [Threads -> Places]
    BY <1>5, <2>1 DEF Panic
  <2>3. panics' \in 0..MaxPanics
    BY <1>5 DEF Panic
  <2>4. failing' \subseteq Threads /\ renderMu' \in Threads \cup {None}
    BY <1>5 DEF Panic
  <2> QED
    BY <2>2, <2>3, <2>4
<1>6. ASSUME NEW t \in Threads, CloseHandler(t) PROVE ThreadsType'
  <2>1. Closing \subseteq Places
    BY DEF Places
  <2>2. at' \in [Threads -> Places]
    BY <1>6, <2>1
    DEF Closing, CloseHandler, Close, Dispose, JoinWorker, StopThread, JoinStory, FreeStory,
        CloseTrack, Disposed, ShutdownBass, StopExecutor, DrainExecutor, JoinExecutor, Exit
  <2>3. UNCHANGED <<failing, panics>> /\ renderMu' \in {renderMu, None, t}
    BY <1>6
    DEF CloseHandler, Close, Dispose, JoinWorker, StopThread, JoinStory, FreeStory,
        CloseTrack, Disposed, ShutdownBass, StopExecutor, DrainExecutor, JoinExecutor, Exit
  <2> QED
    BY <2>2, <2>3
<1> QED
  BY <1>1, <1>2, <1>3, <1>4, <1>5, <1>6 DEF Next

LEMMA TypeKept == ASSUME TypeOK, Next PROVE TypeOK'
BY FlagsKept, QueuesKept, ThreadsKept DEF TypeOK

-----------------------------------------------------------------------------
(* Who waits for whom. *)

(* Only an update of the player queues a call that is waited for, and only the drain answers it. *)
LEMMA CallsKept == ASSUME TypeOK, CallsAwaited, Next PROVE CallsAwaited'
<1> USE DEF TypeOK, QueuesType, ThreadsType, CallsAwaited, At, GoTo, game, ending, story, bass
<1>1. CASE MainDrain
  <2>1. CASE queue = <<>>
    BY <1>1, <2>1 DEF MainDrain
  <2>2. CASE queue # <<>>
    <3>1. /\ queue' = Tail(queue)
          /\ at' = IF Head(queue) = "raw" THEN [at EXCEPT !["worker"] = "story"] ELSE at
      BY <1>1, <2>2 DEF MainDrain
    <3>2. \A i \in DOMAIN queue' : i + 1 \in DOMAIN queue /\ queue'[i] = queue[i + 1]
      BY <2>2, <3>1
    <3>3. Head(queue) = queue[1] /\ 1 \in DOMAIN queue
      BY <2>2
    <3> QED
      BY <3>1, <3>2, <3>3
  <2> QED
    BY <2>1, <2>2
<1>2. CASE WorkerUpdate
  <2>1. \A i \in DOMAIN queue : queue[i] # "raw"
    BY <1>2 DEF WorkerUpdate
  <2>2. CASE queue' = queue \/ queue' = Append(queue, "close")
    BY <2>1, <2>2
  <2>3. CASE queue' = Append(queue, "raw") /\ at' = [at EXCEPT !["worker"] = "called"]
    <3>1. at'["worker"] = "called"
      BY <2>3 DEF Threads
    <3>2. \A i \in DOMAIN queue' : queue'[i] = "raw" => i = Len(queue) + 1
      BY <2>1, <2>3
    <3> QED
      BY <3>1, <3>2
  <2> QED
    BY <1>2, <2>2, <2>3 DEF WorkerUpdate
<1>3. CASE queue' = queue /\ (At("worker", {"called"}) => at'["worker"] = at["worker"])
  BY <1>3
<1>4. CASE MainCond \/ MainEvents \/ MainDraw \/ MainDrawn \/ MainFinish \/ RunTail
  BY <1>3, <1>4, ThreadAssumption
  DEF MainCond, MainEvents, MainDraw, MainDrawn, MainFinish, RunTail, Threads
<1>5. CASE WorkerTop \/ WorkerStory \/ WorkerLeave
  BY <1>3, <1>5, ThreadAssumption DEF WorkerTop, WorkerStory, WorkerLeave
<1>6. CASE Executor \/ Terminated
  BY <1>3, <1>6 DEF Executor, RunCommand, ExecutorStops, Terminated, vars
<1>7. ASSUME NEW s \in Stories, Story(s) PROVE CallsAwaited'
  <2>1. s # "worker" /\ queue' = queue
    BY <1>7, ThreadAssumption DEF Story, StoryLoop, StoryUpdated
  <2>2. \A u \in Threads \ {s} : at'[u] = at[u]
    BY <1>7 DEF Story, StoryLoop, StoryUpdated
  <2> QED
    BY <1>3, <2>1, <2>2 DEF Threads
<1>8. ASSUME NEW t \in Threads, Panic(t) PROVE CallsAwaited'
  <2>1. at[t] # "called" /\ queue' = queue
    BY <1>8 DEF Panic, PanicAt
  <2>2. \A u \in Threads \ {t} : at'[u] = at[u]
    BY <1>8 DEF Panic
  <2> QED
    BY <1>3, <2>1, <2>2 DEF Threads
<1>9. ASSUME NEW t \in Threads, CloseHandler(t) PROVE CallsAwaited'
  <2>1. /\ queue' = queue /\ at[t] # "called"
        /\ \A u \in Threads \ {t} : at'[u] = at[u]
    BY <1>9
    DEF CloseHandler, Close, Dispose, JoinWorker, StopThread, JoinStory, FreeStory, CloseTrack,
        Disposed, ShutdownBass, StopExecutor, DrainExecutor, JoinExecutor, Exit
  <2> QED
    BY <1>3, <2>1 DEF Threads
<1> QED
  BY <1>1, <1>2, <1>4, <1>5, <1>6, <1>7, <1>8, <1>9 DEF Next, Main, Worker

(* A command is there until it was run, and its submitter takes no step before that. *)
StoriesWait == \A s \in Stories : s \in Submitters /\ At(s, {"update"}) => at'[s] = at[s]

NoPlaySubmitted ==
    \/ commands' = commands
    \/ commands' = Tail(commands) /\ commands # <<>>
    \/ \E u \in Threads, c \in Calls \ {"play"} :
          commands' = Append(commands, [thread |-> u, does |-> c])

LEMMA PlaysStay ==
  ASSUME TypeOK, PlayedByStories, StoriesWait, NoPlaySubmitted
  PROVE  PlayedByStories'
<1> USE DEF TypeOK, QueuesType, PlayedByStories, StoriesWait, At, Submitters
<1>1. CASE commands' = commands
  BY <1>1
<1>2. CASE commands' = Tail(commands) /\ commands # <<>>
  <2>1. \A i \in DOMAIN commands' : i + 1 \in DOMAIN commands /\ commands'[i] = commands[i + 1]
    BY <1>2
  <2> QED
    BY <2>1
<1>3. ASSUME NEW u \in Threads, NEW c \in Calls \ {"play"},
             commands' = Append(commands, [thread |-> u, does |-> c])
      PROVE  PlayedByStories'
  <2>1. /\ DOMAIN commands' = DOMAIN commands \cup {Len(commands) + 1}
        /\ \A i \in DOMAIN commands : commands'[i] = commands[i]
        /\ commands'[Len(commands) + 1].does = c
    BY <1>3
  <2> QED
    BY <2>1
<1> QED
  BY <1>1, <1>2, <1>3 DEF NoPlaySubmitted

LEMMA PlaysKept == ASSUME TypeOK, PlayedByStories, Next PROVE PlayedByStories'
<1> USE DEF game, ending, story, bass
<1>1. CASE Main
  <2>1. StoriesWait
    BY <1>1, ThreadAssumption
    DEF StoriesWait, TypeOK, ThreadsType, Free, GoTo, Threads, Main, MainCond, MainDrain, MainEvents,
        MainDraw, MainDrawn, MainFinish
  <2>2. NoPlaySubmitted
    BY <1>1
    DEF NoPlaySubmitted, Submitted, Threads, Calls, Main, MainCond, MainDrain, MainEvents, MainDraw,
        MainDrawn, MainFinish
  <2> QED
    BY <2>1, <2>2, PlaysStay
<1>2. CASE Worker
  <2>1. StoriesWait
    BY <1>2, ThreadAssumption
    DEF StoriesWait, TypeOK, ThreadsType, Free, At, GoTo, Threads, Worker, WorkerTop, WorkerUpdate,
        WorkerStory, WorkerLeave
  <2>2. NoPlaySubmitted
    BY <1>2
    DEF NoPlaySubmitted, Submitted, Threads, Calls, Worker, WorkerTop, WorkerUpdate, WorkerStory,
        WorkerLeave
  <2> QED
    BY <2>1, <2>2, PlaysStay
<1>3. CASE RunTail \/ Executor \/ Terminated
  <2>1. StoriesWait
    BY <1>3, ThreadAssumption
    DEF StoriesWait, TypeOK, ThreadsType, GoTo, Threads, RunTail, Executor, RunCommand,
        ExecutorStops, Terminated, vars
  <2>2. NoPlaySubmitted
    BY <1>3
    DEF NoPlaySubmitted, RunTail, Executor, RunCommand, ExecutorStops, Terminated, vars
  <2> QED
    BY <2>1, <2>2, PlaysStay
<1>4. ASSUME NEW s \in Stories, Story(s) PROVE PlayedByStories'
  <2>1. s \notin Submitters /\ at' = [at EXCEPT ![s] = at'[s]]
    BY <1>4 DEF Story, StoryLoop, StoryUpdated, Free, GoTo, TypeOK, ThreadsType, Threads
  <2>2. \A u \in Stories \ {s} : at'[u] = at[u]
    BY <2>1 DEF TypeOK, ThreadsType, Threads
  <2>3. CASE commands' = commands
    <3>1. StoriesWait
      BY <2>1, <2>2 DEF StoriesWait
    <3> QED
      BY <2>3, <3>1, PlaysStay DEF NoPlaySubmitted
  <2>4. CASE commands' = Append(commands, [thread |-> s, does |-> "play"]) /\ at'[s] = "update"
    <3>1. /\ DOMAIN commands' = DOMAIN commands \cup {Len(commands) + 1}
          /\ \A i \in DOMAIN commands : commands'[i] = commands[i]
          /\ commands'[Len(commands) + 1] = [thread |-> s, does |-> "play"]
      BY <2>4 DEF TypeOK, QueuesType
    <3> QED
      BY <2>1, <2>2, <2>4, <3>1 DEF PlayedByStories, Submitters, At
  <2> QED
    BY <1>4, <2>3, <2>4
    DEF Story, StoryLoop, StoryUpdated, Submitted, GoTo, TypeOK, ThreadsType, Threads
<1>5. ASSUME NEW t \in Threads, Panic(t) PROVE PlayedByStories'
  <2>1. StoriesWait
    BY <1>5, ThreadAssumption
    DEF StoriesWait, TypeOK, ThreadsType, Free, GoTo, Threads, Panic
  <2>2. NoPlaySubmitted
    BY <1>5
    DEF NoPlaySubmitted, Submitted, Calls, Panic
  <2> QED
    BY <2>1, <2>2, PlaysStay
<1>6. ASSUME NEW t \in Threads, CloseHandler(t) PROVE PlayedByStories'
  <2>1. t \notin Submitters /\ \A u \in Threads \ {t} : at'[u] = at[u]
    BY <1>6
    DEF TypeOK, ThreadsType, Free, GoTo, CloseHandler, Close, Dispose, JoinWorker, StopThread, JoinStory,
        FreeStory, CloseTrack, Disposed, ShutdownBass, StopExecutor, DrainExecutor, JoinExecutor, Exit
  <2>2. StoriesWait
    BY <2>1 DEF StoriesWait, Threads
  <2>3. NoPlaySubmitted
    BY <1>6
    DEF NoPlaySubmitted, Submitted, Calls, CloseHandler, Close, Dispose, JoinWorker, StopThread,
        JoinStory, FreeStory, CloseTrack, Disposed, ShutdownBass, StopExecutor, DrainExecutor,
        JoinExecutor, Exit
  <2> QED
    BY <2>2, <2>3, PlaysStay
<1> QED
  BY <1>1, <1>2, <1>3, <1>4, <1>5, <1>6 DEF Next

(* stopExecutor. *)
LEMMA StoppedKept == ASSUME TypeOK, StoppedInTurn, Next PROVE StoppedInTurn'
<1> USE ThreadAssumption
    DEF TypeOK, ThreadsType, StoppedInTurn, Submitted, At, GoTo, game, ending, story, bass
<1>1. CASE Main
  <2>1. CASE MainCond
    BY <2>1 DEF MainCond, Threads
  <2>2. CASE MainDraw
    BY <2>2 DEF MainDraw, Threads
  <2>3. CASE MainDrain
    BY <2>3 DEF MainDrain, Threads
  <2>4. CASE MainDrawn \/ MainFinish
    BY <2>4 DEF MainDrawn, MainFinish, Threads
  <2>5. CASE MainEvents
    BY <2>5 DEF MainEvents, Threads
  <2> QED
    BY <1>1, <2>1, <2>2, <2>3, <2>4, <2>5 DEF Main
<1>2. CASE Worker
  BY <1>2
  DEF Worker, WorkerTop, WorkerUpdate, WorkerStory, WorkerLeave, Threads
<1>3. CASE RunTail \/ Executor \/ Terminated
  BY <1>3 DEF RunTail, Executor, RunCommand, ExecutorStops, Terminated, vars, Threads
<1>4. ASSUME NEW s \in Stories, Story(s) PROVE StoppedInTurn'
  BY <1>4 DEF Story, StoryLoop, StoryUpdated, Threads
<1>5. ASSUME NEW t \in Threads, Panic(t) PROVE StoppedInTurn'
  BY <1>5 DEF Panic, Threads
<1>6. ASSUME NEW t \in Threads, CloseHandler(t) PROVE StoppedInTurn'
  BY <1>6
  DEF Drained, CloseHandler, Close, Dispose, JoinWorker, StopThread, JoinStory, FreeStory,
      CloseTrack, Disposed, ShutdownBass, StopExecutor, DrainExecutor, JoinExecutor, Exit
<1> QED
  BY <1>1, <1>2, <1>3, <1>4, <1>5, <1>6 DEF Next

(* What Dispose frees. *)
LEMMA CloserMoves ==
  ASSUME TypeOK, NEW t \in Threads, CloseHandler(t)
  PROVE  /\ at[t] \in Closing /\ at'[t] \in Closing
         /\ \A u \in Threads \ {t} : at'[u] = at[u]
BY DEF TypeOK, ThreadsType, Closing, At, GoTo, story, bass,
    CloseHandler, Close, Dispose, JoinWorker, StopThread, JoinStory, FreeStory, CloseTrack,
    Disposed, ShutdownBass, StopExecutor, DrainExecutor, JoinExecutor, Exit

LEMMA WorkerStaysAway == ASSUME TypeOK, CallsAwaited, WorkerFirst, Next PROVE WorkerFirst'
<1> USE ThreadAssumption
    DEF TypeOK, ThreadsType, WorkerFirst, At, GoTo, game, ending, story, bass, WorkerJoined
<1>1. CASE Main
  <2>1. CASE MainCond \/ MainEvents
    BY <2>1 DEF MainCond, MainEvents, Threads
  <2>2. CASE MainDraw
    BY <2>2 DEF MainDraw, Threads
  <2>3. CASE MainDrain
    <3>1. queue # <<>> /\ Head(queue) = "raw" => at["worker"] = "called"
      BY DEF CallsAwaited, QueuesType
    <3> QED
      BY <2>3, <3>1 DEF MainDrain, Threads
  <2>4. CASE MainDrawn \/ MainFinish
    BY <2>4 DEF MainDrawn, MainFinish, Threads
  <2> QED
    BY <1>1, <2>1, <2>2, <2>3, <2>4 DEF Main
<1>2. CASE Worker
  BY <1>2 DEF Worker, WorkerTop, WorkerUpdate, WorkerStory, WorkerLeave, Threads
<1>3. CASE RunTail \/ Executor \/ Terminated
  BY <1>3 DEF RunTail, Executor, RunCommand, ExecutorStops, Terminated, vars, Threads
<1>4. ASSUME NEW s \in Stories, Story(s) PROVE WorkerFirst'
  BY <1>4 DEF Story, StoryLoop, StoryUpdated, Threads
<1>5. ASSUME NEW t \in Threads, Panic(t) PROVE WorkerFirst'
  BY <1>5 DEF Panic, PanicAt, Threads
<1>6. ASSUME NEW t \in Threads, CloseHandler(t) PROVE WorkerFirst'
  <2>1. WorkerJoined' <=> WorkerJoined
    BY <1>6, CloserMoves DEF Closing, Threads
  <2>2. CASE JoinWorker(t)
    BY <2>1, <2>2 DEF JoinWorker
  <2>3. CASE ~JoinWorker(t)
    <3>1. /\ at'[t] \in {"quiet", "joinStory", "freeStory", "closeTrack"}
               => at[t] \in {"quiet", "joinStory", "freeStory", "closeTrack"}
          /\ disposal' = "done" => disposal = "done" \/ at[t] = "closeTrack"
      BY <1>6, <2>3
      DEF CloseHandler, Close, Dispose, JoinWorker, StopThread, JoinStory, FreeStory, CloseTrack,
          Disposed, ShutdownBass, StopExecutor, DrainExecutor, JoinExecutor, Exit
    <3> QED
      BY <1>6, <2>1, <3>1, CloserMoves
  <2> QED
    BY <2>2, <2>3
<1> QED
  BY <1>1, <1>2, <1>3, <1>4, <1>5, <1>6 DEF Next

LEMMA RequestStands == ASSUME TypeOK, WorkerFirst, ThenRequest, Next PROVE ThenRequest'
<1> USE ThreadAssumption
    DEF TypeOK, ThreadsType, ThenRequest, At, GoTo, game, ending, story, bass
<1>1. CASE Main
  <2>1. CASE MainCond \/ MainEvents
    BY <2>1 DEF MainCond, MainEvents, Threads
  <2>2. CASE MainDraw
    BY <2>2 DEF MainDraw, Threads
  <2>3. CASE MainDrain
    BY <2>3 DEF MainDrain, Threads
  <2>4. CASE MainDrawn \/ MainFinish
    BY <2>4 DEF MainDrawn, MainFinish, Threads
  <2> QED
    BY <1>1, <2>1, <2>2, <2>3, <2>4 DEF Main
<1>2. CASE Worker
  BY <1>2
  DEF Worker, WorkerTop, WorkerUpdate, WorkerStory, WorkerLeave, Threads, WorkerFirst,
      WorkerJoined
<1>3. CASE RunTail \/ Executor \/ Terminated
  BY <1>3 DEF RunTail, Executor, RunCommand, ExecutorStops, Terminated, vars, Threads
<1>4. ASSUME NEW s \in Stories, Story(s) PROVE ThenRequest'
  BY <1>4 DEF Story, StoryLoop, StoryUpdated, Threads
<1>5. ASSUME NEW t \in Threads, Panic(t) PROVE ThenRequest'
  BY <1>5 DEF Panic, PanicAt, Threads
<1>6. ASSUME NEW t \in Threads, CloseHandler(t) PROVE ThenRequest'
  BY <1>6
  DEF CloseHandler, Close, Dispose, JoinWorker, StopThread, JoinStory, FreeStory, CloseTrack,
      Disposed, ShutdownBass, StopExecutor, DrainExecutor, JoinExecutor, Exit
<1> QED
  BY <1>1, <1>2, <1>3, <1>4, <1>5, <1>6 DEF Next

LEMMA StoryStaysAway == ASSUME TypeOK, WorkerFirst, ThenStory, Next PROVE ThenStory'
<1> USE ThreadAssumption
    DEF TypeOK, ThreadsType, ThenStory, At, GoTo, game, ending, story, bass, LiveStories
<1>1. CASE Main
  <2>1. CASE MainCond \/ MainEvents
    BY <2>1 DEF MainCond, MainEvents, Threads
  <2>2. CASE MainDraw
    BY <2>2 DEF MainDraw, Threads
  <2>3. CASE MainDrain
    BY <2>3 DEF MainDrain, Threads
  <2>4. CASE MainDrawn \/ MainFinish
    BY <2>4 DEF MainDrawn, MainFinish, Threads
  <2> QED
    BY <1>1, <2>1, <2>2, <2>3, <2>4 DEF Main
<1>2. CASE Worker
  BY <1>2
  DEF Worker, WorkerTop, WorkerUpdate, WorkerStory, WorkerLeave, Threads, WorkerFirst,
      WorkerJoined
<1>3. CASE RunTail \/ Executor \/ Terminated
  BY <1>3 DEF RunTail, Executor, RunCommand, ExecutorStops, Terminated, vars, Threads
<1>4. ASSUME NEW s \in Stories, Story(s) PROVE ThenStory'
  BY <1>4 DEF Story, StoryLoop, StoryUpdated, Threads
<1>5. ASSUME NEW t \in Threads, Panic(t) PROVE ThenStory'
  BY <1>5 DEF Panic, PanicAt, Threads
<1>6. ASSUME NEW t \in Threads, CloseHandler(t) PROVE ThenStory'
  <2>1. LiveStories' = LiveStories
    BY <1>6, CloserMoves DEF Closing, Threads
  <2>2. CASE JoinStory(t)
    BY <2>1, <2>2 DEF JoinStory
  <2>3. CASE ~JoinStory(t)
    <3>1. /\ at'[t] \in {"freeStory", "closeTrack"} => at[t] \in {"freeStory", "closeTrack"}
          /\ disposal' = "done" => disposal = "done" \/ at[t] = "closeTrack"
      BY <1>6, <2>3
      DEF CloseHandler, Close, Dispose, JoinWorker, StopThread, JoinStory, FreeStory, CloseTrack,
          Disposed, ShutdownBass, StopExecutor, DrainExecutor, JoinExecutor, Exit
    <3> QED
      BY <1>6, <2>1, <3>1, CloserMoves
  <2> QED
    BY <2>2, <2>3
<1> QED
  BY <1>1, <1>2, <1>3, <1>4, <1>5, <1>6 DEF Next

-----------------------------------------------------------------------------
(* The results. *)

(* Invariance: every step keeps the inductive invariant. *)
THEOREM Invariance == Spec => []Inv
<1>1. Inv /\ [Next]_vars => Inv'
  <2>1. ASSUME Inv, Next PROVE Inv'
    BY <2>1, TypeKept, CallsKept, PlaysKept, StoppedKept, WorkerStaysAway, RequestStands,
       StoryStaysAway
    DEF Inv
  <2>2. ASSUME Inv, UNCHANGED vars PROVE Inv'
    <3>1. TypeOK' /\ CallsAwaited' /\ PlayedByStories' /\ StoppedInTurn'
      BY <2>2
      DEF Inv, TypeOK, ThreadsType, QueuesType, FlagsType, CallsAwaited, PlayedByStories,
          StoppedInTurn, At, vars
    <3>2. WorkerFirst' /\ ThenRequest' /\ ThenStory'
      BY <2>2
      DEF Inv, WorkerFirst, ThenRequest, ThenStory, WorkerJoined, LiveStories, At, vars
    <3> QED
      BY <3>1, <3>2 DEF Inv
  <2> QED
    BY <2>1, <2>2
<1> QED
  BY InitInv, <1>1, PTL DEF Spec

(* CallersAnswered: whichever threads crash and close the game together, in whichever order, the  *)
(* audio thread is told to stop only when every submitted command was answered (stopExecutor).    *)
THEOREM CallersAnswered == Spec => []CommandsAnswered
<1>1. Inv => CommandsAnswered
  BY DEF Inv, CommandsAnswered, StoppedInTurn
<1> QED
  BY Invariance, <1>1, PTL

(* QuietWhenFreed: from the moment Dispose frees the samples, the atlas and the track, neither    *)
(* the update worker nor a worker of the storyboard uses them, whichever thread crashed           *)
(* (Player.Dispose, Storyboard.Dispose).                                                          *)
THEOREM QuietWhenFreed == Spec => []QuietAfterDispose
<1>1. Inv => QuietAfterDispose
  <2> SUFFICES ASSUME Inv,
                      disposal = "done" \/ \E t \in Threads : At(t, {"freeStory", "closeTrack"})
               PROVE  /\ WorkerJoined /\ LiveStories = {} /\ ~storyRun
                      /\ \A i \in DOMAIN commands : commands[i].does # "play"
    BY DEF QuietAfterDispose
  <2>1. WorkerJoined /\ LiveStories = {} /\ ~storyRun
    BY DEF Inv, WorkerFirst, ThenRequest, ThenStory, At
  <2>2. \A s \in Stories : ~At(s, {"update"})
    BY <2>1 DEF LiveStories, At
  <2> QED
    BY <2>1, <2>2 DEF Inv, PlayedByStories
<1> QED
  BY Invariance, <1>1, PTL

-----------------------------------------------------------------------------
(* Spinners. *)

VARIABLES
    spinner,  \* the spinner's state
    path      \* the quarters turned so far, to either side

spinVars == <<spinner, path>>

SpinInit == spinner = FreshObject /\ path = 0

\* One report of any size, as processLazer makes it in every active frame.
Report(delta) ==
    /\ spinner' = ReportRotation(spinner, delta)
    /\ path' = path + Abs(delta)

SpinSpec == SpinInit /\ [][\E delta \in Int : Report(delta)]_spinVars

SpinnerState == [hit : BOOLEAN, head : BOOLEAN, good : BOOLEAN, judged : Nat,
                 scored : Nat, sliding : BOOLEAN, since : Int,
                 rotation : Int, most : Int, spins : Int]

\* The current spin is less than a whole one and never further than its
\* maximum, and the path pays for the completed spins and that maximum.
SpinInv ==
    /\ spinner \in SpinnerState
    /\ path \in Nat
    /\ spinner.spins \in Nat
    /\ spinner.most \in 0 .. 3
    /\ Abs(spinner.rotation) <= spinner.most
    /\ 4 * spinner.spins + spinner.most <= path

\* No spin is credited that was not turned.
SpinsEarned == 4 * spinner.spins <= path

-----------------------------------------------------------------------------
\* The magnitude of a sum is at most the sum of the magnitudes.
LEMMA AbsSum ==
    ASSUME NEW a \in Int, NEW b \in Int
    PROVE  Abs(a) \in Nat /\ Abs(b) \in Nat /\ Abs(a + b) \in Nat
           /\ Abs(a + b) <= Abs(a) + Abs(b)
BY DEF Abs

\* What is left of a number of quarters after the whole spins were taken out.
LEMMA WholeSpins ==
    ASSUME NEW n \in Nat
    PROVE  n % 4 \in 0 .. 3 /\ n \div 4 \in Nat /\ 4 * (n \div 4) + (n % 4) = n
OBVIOUS

\* The invariant holds at first and after every report.
LEMMA SpinInductive ==
    /\ SpinInit => SpinInv
    /\ SpinInv /\ [\E delta \in Int : Report(delta)]_spinVars => SpinInv'
<1>1. SpinInit => SpinInv
  BY DEF SpinInit, SpinInv, SpinnerState, FreshObject, Abs
<1>2. ASSUME SpinInv, NEW delta \in Int, Report(delta)
      PROVE  SpinInv'
  <2> DEFINE rotation == spinner.rotation + delta
  <2> DEFINE size == Abs(rotation)
  <2>1. /\ spinner \in SpinnerState /\ path \in Nat
        /\ spinner.rotation \in Int /\ spinner.most \in 0 .. 3
        /\ spinner.spins \in Nat /\ Abs(spinner.rotation) <= spinner.most
        /\ 4 * spinner.spins + spinner.most <= path
    BY <1>2 DEF SpinInv, SpinnerState
  <2>2. rotation \in Int /\ size \in Nat /\ Abs(delta) \in Nat
        /\ Abs(spinner.rotation) \in Nat
        /\ size <= Abs(spinner.rotation) + Abs(delta)
    <3>1. Abs(spinner.rotation) \in Nat /\ Abs(delta) \in Nat
          /\ Abs(spinner.rotation + delta) \in Nat
          /\ Abs(spinner.rotation + delta) <= Abs(spinner.rotation) + Abs(delta)
      BY <2>1, AbsSum
    <3> QED
      BY <2>1, <3>1
  <2>3. path' = path + Abs(delta)
    BY <1>2 DEF Report
  <2>4. CASE size > spinner.most /\ size >= 4
    <3> DEFINE rest == IF rotation < 0 THEN -(size % 4) ELSE rotation % 4
    <3>1. spinner' = [spinner EXCEPT !.rotation = rest, !.most = Abs(rest),
                                     !.spins = @ + size \div 4]
      BY <1>2, <2>1, <2>2, <2>4 DEF Report, ReportRotation
    <3>2. rest \in Int /\ Abs(rest) = size % 4
      <4>1. size = IF rotation < 0 THEN -rotation ELSE rotation
        BY DEF Abs
      <4>2. size % 4 \in 0 .. 3
        BY <2>2, WholeSpins
      <4> QED
        BY <2>2, <4>1, <4>2 DEF Abs
    <3>3. /\ size % 4 \in 0 .. 3 /\ size \div 4 \in Nat
          /\ 4 * (size \div 4) + (size % 4) = size
      BY <2>2, WholeSpins
    <3>4. /\ spinner' \in SpinnerState
          /\ spinner'.rotation = rest /\ spinner'.most = size % 4
          /\ spinner'.spins = spinner.spins + size \div 4
      <4> HIDE DEF rest, size
      <4>1. Abs(rest) \in Int /\ spinner.spins + size \div 4 \in Int
        BY <2>1, <3>2, <3>3
      <4> QED
        BY <2>1, <3>1, <3>2, <4>1 DEF SpinnerState
    <3> HIDE DEF rest, size
    <3> QED
      BY <2>1, <2>2, <2>3, <3>2, <3>3, <3>4 DEF SpinInv
  <2>5. CASE ~(size > spinner.most /\ size >= 4)
    <3> DEFINE most == IF size > spinner.most THEN size ELSE spinner.most
    <3>1. most \in 0 .. 3 /\ size <= most /\ most <= spinner.most + Abs(delta)
      <4> HIDE DEF size
      <4> QED
        BY <2>1, <2>2, <2>5
    <3>2. spinner' = [spinner EXCEPT !.rotation = rotation, !.most = most]
      BY <1>2, <2>1, <2>2, <3>1 DEF Report, ReportRotation
    <3>3. /\ spinner' \in SpinnerState
          /\ spinner'.rotation = rotation /\ spinner'.most = most
          /\ spinner'.spins = spinner.spins
      <4>1. most \in Int /\ rotation \in Int
        BY <2>2, <3>1
      <4> HIDE DEF most, rotation
      <4> QED
        BY <2>1, <4>1, <3>2 DEF SpinnerState
    <3>4. Abs(spinner'.rotation) = size
      BY <3>3
    <3> HIDE DEF most, size, rotation
    <3> QED
      BY <2>1, <2>2, <2>3, <3>1, <3>3, <3>4 DEF SpinInv
  <2> QED
    BY <2>4, <2>5
<1>3. SpinInv /\ UNCHANGED spinVars => SpinInv'
  BY DEF SpinInv, spinVars
<1> QED
  BY <1>1, <1>2, <1>3

\* A spinner never credits more spins than its cursor has turned.
THEOREM EverySpinIsEarned == SpinSpec => []SpinsEarned
<1>1. SpinInv => SpinsEarned
  BY DEF SpinInv, SpinsEarned, SpinnerState
<1> QED
  BY <1>1, SpinInductive, PTL DEF SpinSpec
=============================================================================
