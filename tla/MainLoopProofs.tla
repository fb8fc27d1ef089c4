--------------------------- MODULE MainLoopProofs ---------------------------
(***************************************************************************)
(* The unlocked test in post_loop never costs the main loop an event that  *)
(* the queue would have taken, and the event loop's task is under the      *)
(* watchdog when app_main leaves it.                                       *)
(*                                                                         *)
(* Which event is coming changes at nearly every step; CallKept says once  *)
(* which steps can end it, and the invariants follow from it.              *)
(***************************************************************************)
EXTENDS MainLoop, TLAPS

\* app_main has not reset loop_pending yet: what is pending may never be handled.
Early == {"timer", "register", "reset"}

\* The watchdog watches the event loop's task from its first run on.
RunsWatched == main_task <=> "loop" \in watched

\* Until that run the queue holds no event of other tasks, so it cannot be full
\* without one of ours.
BeforeFirstRun ==
  ~main_task =>
    /\ handler \in {"idle", "enter"}
    /\ \A i \in DOMAIN events : events[i] = "loop"
    /\ app \notin Early /\ loop_pending = 1 => EventComing
    /\ app \in {"unwatch", "done"} => EventComing

Inv ==
  /\ TypeOK
  /\ PendingHasEvent
  /\ FrameHasEvent
  /\ RunsWatched
  /\ BeforeFirstRun

-----------------------------------------------------------------------------
\* The types in three groups, for the provers.
EventsOK == events \in Seq({"loop", "other"}) /\ Len(events) <= EventLen

FlagsOK ==
  /\ main_task \in BOOLEAN /\ timer \in BOOLEAN /\ max_sleep \in BOOLEAN /\ lost \in BOOLEAN
  /\ watched \subseteq {"app", "loop"}

PlacesOK ==
  /\ loop_pending \in 0..1
  /\ post \in [Contexts -> {"out", "set", "send"}]
  /\ app \in {"timer", "register", "reset", "post", "unwatch", "done"}
  /\ handler \in {"idle", "enter", "init", "clear", "process", "check", "sync", "restart"}
  /\ frames \in 0..MaxFrames

LEMMA TypeParts == TypeOK <=> EventsOK /\ FlagsOK /\ PlacesOK
BY DEF TypeOK, EventsOK, FlagsOK, PlacesOK

LEMMA InitHolds == ASSUME Init PROVE Inv
<1>. USE LoopConstantsOK DEF Init
<1>1. EventsOK /\ PlacesOK
  BY DEF EventsOK, PlacesOK
<1>2. FlagsOK
  BY Zenon DEF FlagsOK
<1>3. PendingHasEvent /\ FrameHasEvent
  BY DEF PendingHasEvent, FrameHasEvent
<1>4. RunsWatched /\ BeforeFirstRun
  BY DEF RunsWatched, BeforeFirstRun, Early
<1>. QED  BY <1>1, <1>2, <1>3, <1>4, TypeParts DEF Inv

LEMMA EventsStep == ASSUME EventsOK, [Next]_vars PROVE EventsOK'
<1>. USE LoopConstantsOK DEF EventsOK
<1>1. CASE Dispatch
  BY <1>1 DEF Dispatch
<1>2. CASE OtherEvent
  BY <1>2 DEF OtherEvent
<1>3. ASSUME NEW c \in Contexts, PostEvent(c)  PROVE EventsOK'
  BY <1>3 DEF PostEvent
<1>4. CASE Watchdog
  BY <1>4 DEF Watchdog
<1>5. \/ Dispatch \/ OtherEvent \/ Watchdog
      \/ \E c \in Contexts : PostEvent(c)
      \/ UNCHANGED events
  BY DEF Next, app_main, AppStep, StartTimer, Register, ResetPending, FirstPost, Unwatch,
         loop_handler, FirstEntry, Ready, ClearPending, Process, CheckFrames, StopTick,
         RestartTick, TickFires, FrameArrives, PostSteps, SetPending, vars
<1>. QED  BY <1>1, <1>2, <1>3, <1>4, <1>5

LEMMA FlagsStep == ASSUME FlagsOK, [Next]_vars PROVE FlagsOK'
BY Zenon DEF FlagsOK, Next, app_main, AppStep, StartTimer, Register, ResetPending, FirstPost,
       Unwatch, loop_handler, Dispatch, FirstEntry, Ready, ClearPending, Process, CheckFrames,
       StopTick, RestartTick, TickFires, FrameArrives, OtherEvent, Watchdog, PostSteps,
       SetPending, PostEvent, tickTimer, vars

LEMMA PlacesStep == ASSUME PlacesOK, [Next]_vars PROVE PlacesOK'
<1>. USE LoopConstantsOK DEF PlacesOK, places
<1>1. CASE app_main
  BY <1>1 DEF app_main, AppStep, StartTimer, Register, ResetPending, FirstPost, TestPending,
       Unwatch
<1>2. CASE Dispatch
  BY <1>2 DEF Dispatch
<1>3. CASE FirstEntry \/ Ready \/ ClearPending \/ StopTick \/ RestartTick
  BY <1>3 DEF HandlerStep, FirstEntry, Ready, ClearPending, StopTick, RestartTick
<1>4. CASE Process
  BY <1>4 DEF HandlerStep, Process
<1>5. CASE CheckFrames
  BY <1>5 DEF HandlerStep, CheckFrames, TestPending
<1>6. CASE TickFires \/ FrameArrives
  BY <1>6 DEF TickFires, FrameArrives, TestPending
<1>7. CASE OtherEvent
  BY <1>7 DEF OtherEvent
<1>8. CASE Watchdog
  BY <1>8 DEF Watchdog
<1>9. ASSUME NEW c \in Contexts, PostSteps(c)  PROVE PlacesOK'
  BY <1>9 DEF PostSteps, SetPending, PostEvent
<1>10. CASE UNCHANGED vars
  BY <1>10 DEF vars
<1>. QED
  BY <1>1, <1>2, <1>3, <1>4, <1>5, <1>6, <1>7, <1>8, <1>9, <1>10 DEF Next, loop_handler

LEMMA TypeStep == ASSUME TypeOK, [Next]_vars PROVE TypeOK'
<1>1. EventsOK' /\ FlagsOK' /\ PlacesOK'
  BY EventsStep, FlagsStep, PlacesStep, TypeParts
<1>. QED  BY <1>1 DEF TypeOK, EventsOK, FlagsOK, PlacesOK

-----------------------------------------------------------------------------
\* A call of loop_handler that is coming stays so, but for the call that clears
\* loop_pending, an event taken before loop_handler is registered, an event the
\* full queue refuses, and a restart.
LEMMA CallKept ==
  ASSUME TypeOK, Next, EventComing
  PROVE  \/ EventComing'
         \/ ClearPending
         \/ Dispatch /\ app \in {"timer", "register"}
         \/ lost' /\ Len(events) = EventLen /\ events' = events
         \/ Watchdog
<1>. USE DEF TypeOK
<1>1. CASE app_main
  BY <1>1 DEF EventComing, app_main, AppStep, StartTimer, Register, ResetPending, FirstPost,
              TestPending, Unwatch, tickTimer
<1>2. CASE Dispatch
  <2>. SUFFICES ASSUME app \notin {"timer", "register"}  PROVE EventComing'
    BY <1>2
  <2>1. CASE \E i \in DOMAIN events : events[i] = "loop"
    <3>. PICK i \in DOMAIN events : events[i] = "loop"
      BY <2>1
    <3>1. CASE i = 1
      BY <1>2, <3>1 DEF EventComing, Dispatch, Registered
    <3>2. CASE i # 1
      <4>1. i - 1 \in DOMAIN Tail(events) /\ Tail(events)[i - 1] = "loop"
        BY <1>2, <3>2 DEF Dispatch
      <4>. QED  BY <1>2, <4>1 DEF EventComing, Dispatch
    <3>. QED  BY <3>1, <3>2
  <2>2. CASE \E c \in Contexts : post[c] # "out"
    BY <1>2, <2>2 DEF EventComing, Dispatch
  <2>. QED  BY <1>2, <2>1, <2>2 DEF EventComing, Dispatch
<1>3. CASE FirstEntry \/ Ready \/ Process \/ StopTick \/ RestartTick
  BY <1>3 DEF EventComing, HandlerStep, FirstEntry, Ready, Process, StopTick, RestartTick,
       tickTimer
<1>4. CASE CheckFrames
  BY <1>4 DEF EventComing, HandlerStep, CheckFrames, TestPending, tickTimer
<1>5. CASE TickFires \/ FrameArrives
  BY <1>5 DEF EventComing, TickFires, FrameArrives, TestPending, places, tickTimer
<1>6. CASE OtherEvent
  BY <1>6 DEF EventComing, OtherEvent, places
<1>7. ASSUME NEW c \in Contexts, PostSteps(c)
      PROVE  EventComing' \/ (lost' /\ Len(events) = EventLen /\ events' = events)
  <2>1. CASE SetPending(c)
    BY <2>1 DEF EventComing, SetPending
  <2>2. CASE PostEvent(c) /\ Len(events) < EventLen
    <3>1. events' = Append(events, "loop")
      BY <2>2 DEF PostEvent
    <3>2. Len(events) + 1 \in DOMAIN events' /\ events'[Len(events) + 1] = "loop"
      BY <3>1
    <3>. QED  BY <3>2 DEF EventComing
  <2>3. CASE PostEvent(c) /\ ~(Len(events) < EventLen)
    BY <2>3, LoopConstantsOK DEF PostEvent
  <2>. QED  BY <1>7, <2>1, <2>2, <2>3 DEF PostSteps
<1>. QED
  BY <1>1, <1>2, <1>3, <1>4, <1>5, <1>6, <1>7 DEF Next, loop_handler

\* Only the assignment in post_loop sets loop_pending, with its post still to come.
LEMMA PendingSet ==
  ASSUME TypeOK, Next, loop_pending' = 1
  PROVE  loop_pending = 1 \/ EventComing'
<1>1. ASSUME NEW c \in Contexts, SetPending(c)  PROVE EventComing'
  BY <1>1 DEF TypeOK, EventComing, SetPending
<1>2. loop_pending' \in {0, loop_pending} \/ \E c \in Contexts : SetPending(c)
  BY DEF Next, app_main, AppStep, StartTimer, Register, ResetPending, FirstPost, Unwatch,
         loop_handler, Dispatch, FirstEntry, Ready, ClearPending, Process, CheckFrames, StopTick,
         RestartTick, TickFires, FrameArrives, OtherEvent, Watchdog, PostSteps, PostEvent
<1>. QED  BY <1>1, <1>2

\* A call of post_loop leaves its context in post_loop, or finds loop_pending set.
LEMMA TestPosts ==
  ASSUME TypeOK, NEW c \in Contexts, TestPending(c), loop_pending # 1
  PROVE  EventComing'
BY DEF TypeOK, TestPending, EventComing

LEMMA PendingStep == ASSUME Inv, Next PROVE PendingHasEvent'
<1>. SUFFICES ASSUME loop_pending' = 1, ~lost', app' \notin Early
              PROVE  EventComing'
  BY DEF PendingHasEvent, Early
<1>1. CASE Watchdog \/ ResetPending \/ ClearPending
  BY <1>1 DEF Watchdog, ResetPending, ClearPending, Early
<1>2. CASE ~(Watchdog \/ ResetPending \/ ClearPending)
  <2>1. ~lost /\ app \notin Early
    BY <1>2 DEF Inv, TypeOK, Early, Next, app_main, AppStep, StartTimer, Register, FirstPost,
           Unwatch, loop_handler, Dispatch, FirstEntry, Ready, Process, CheckFrames, StopTick,
           RestartTick, TickFires, FrameArrives, OtherEvent, PostSteps, SetPending, PostEvent,
           places
  <2>2. CASE loop_pending = 1
    <3>1. EventComing
      BY <2>1, <2>2 DEF Inv, PendingHasEvent, Early
    <3>. QED  BY <1>2, <2>1, <3>1, CallKept DEF Inv, Early
  <2>3. CASE loop_pending # 1
    BY <2>3, PendingSet DEF Inv
  <2>. QED  BY <2>2, <2>3
<1>. QED  BY <1>1, <1>2

LEMMA FrameStep == ASSUME Inv, Next PROVE FrameHasEvent'
<1>. SUFFICES ASSUME frames' > 0, ~lost', app' \notin Early \union {"post"},
                     handler' \notin {"process", "check"}
              PROVE  EventComing'
  BY DEF FrameHasEvent, Early
<1>1. CASE Watchdog
  BY <1>1 DEF Watchdog, Early
<1>2. CASE ClearPending \/ Process
  BY <1>2 DEF ClearPending, Process, HandlerStep
<1>3. CASE FirstPost \/ FrameArrives \/ CheckFrames
  <2>1. PICK c \in Contexts : TestPending(c)
    BY <1>3 DEF FirstPost, FrameArrives, CheckFrames, HandlerStep, Contexts
  <2>2. ~lost /\ app \notin Early
    BY <1>3 DEF FirstPost, FrameArrives, CheckFrames, AppStep, places, Early
  <2>3. CASE loop_pending = 1
    <3>1. EventComing
      BY <2>2, <2>3 DEF Inv, PendingHasEvent, Early
    <3>. QED  BY <1>3, <2>1, <3>1 DEF FirstPost, FrameArrives, CheckFrames, AppStep, HandlerStep,
                  EventComing, TestPending, Inv, TypeOK, places
  <2>4. CASE loop_pending # 1
    BY <2>1, <2>4, TestPosts DEF Inv
  <2>. QED  BY <2>3, <2>4
<1>4. CASE ~(Watchdog \/ ClearPending \/ Process \/ FirstPost \/ FrameArrives \/ CheckFrames)
  <2>1. /\ frames' = frames /\ ~lost /\ app \notin Early \union {"post"}
        /\ handler \notin {"process", "check"}
    BY <1>4 DEF Inv, TypeOK, Early, Next, app_main, AppStep, StartTimer, Register, ResetPending,
           Unwatch, loop_handler, HandlerStep, Dispatch, FirstEntry, Ready, StopTick,
           RestartTick, TickFires, OtherEvent, PostSteps, SetPending, PostEvent, places
  <2>2. EventComing
    BY <2>1 DEF Inv, FrameHasEvent, Early
  <2>. QED  BY <1>4, <2>1, <2>2, CallKept DEF Inv, Early
<1>. QED  BY <1>1, <1>2, <1>3, <1>4

LEMMA WatchedStep == ASSUME Inv, Next PROVE RunsWatched'
<1>. USE DEF Inv, RunsWatched
<1>1. CASE FirstEntry
  BY <1>1 DEF FirstEntry
<1>2. CASE Unwatch
  BY <1>2 DEF Unwatch
<1>3. CASE Watchdog
  BY <1>3 DEF Watchdog
<1>4. CASE ~(FirstEntry \/ Unwatch \/ Watchdog)
  <2>. UNCHANGED <<main_task, watched>>
    BY <1>4 DEF Next, app_main, StartTimer, Register, ResetPending, FirstPost, loop_handler,
           Dispatch, Ready, ClearPending, Process, CheckFrames, StopTick, RestartTick,
           TickFires, FrameArrives, OtherEvent, PostSteps, SetPending, PostEvent
  <2>. QED  OBVIOUS
<1>. QED  BY <1>1, <1>2, <1>3, <1>4

\* Before its first run the queue has room for an event of ours, or holds one.
LEMMA FirstStep == ASSUME Inv, Next PROVE BeforeFirstRun'
<1>. SUFFICES ASSUME ~main_task'  PROVE BeforeFirstRun'
  BY DEF BeforeFirstRun
<1>1. CASE Watchdog
  BY <1>1 DEF Watchdog, BeforeFirstRun, Early
<1>2. CASE ~Watchdog
  <2>1. ~main_task
    BY <1>2 DEF Next, app_main, StartTimer, Register, ResetPending, FirstPost, Unwatch,
         loop_handler, Dispatch, FirstEntry, Ready, ClearPending, Process, CheckFrames,
         StopTick, RestartTick, TickFires, FrameArrives, OtherEvent, PostSteps, SetPending,
         PostEvent
  <2>2. /\ handler \in {"idle", "enter"}
        /\ \A i \in DOMAIN events : events[i] = "loop"
        /\ TypeOK
    BY <2>1 DEF Inv, BeforeFirstRun
  <2>3. ~FirstEntry /\ ~Ready /\ ~ClearPending /\ ~Process /\ ~CheckFrames /\ ~StopTick
        /\ ~RestartTick /\ ~OtherEvent
    BY <2>1, <2>2 DEF FirstEntry, Ready, ClearPending, Process, CheckFrames, StopTick, RestartTick,
           OtherEvent, HandlerStep
  <2>4. handler' \in {"idle", "enter"}
    BY <1>2, <2>2, <2>3 DEF Next, app_main, AppStep, StartTimer, Register, ResetPending, FirstPost,
           Unwatch, loop_handler, Dispatch, TickFires, FrameArrives, PostSteps, SetPending,
           PostEvent, places
  <2>5. \A i \in DOMAIN events' : events'[i] = "loop"
    <3>1. CASE Dispatch
      BY <2>2, <3>1 DEF Dispatch, TypeOK
    <3>2. CASE events' = events
      BY <2>2, <3>2
    <3>3. CASE events' = Append(events, "loop")
      BY <2>2, <3>3 DEF TypeOK
    <3>4. Dispatch \/ events' \in {events, Append(events, "loop")}
      BY <1>2, <2>3 DEF Next, app_main, StartTimer, Register, ResetPending, FirstPost, Unwatch,
             loop_handler, TickFires, FrameArrives, PostSteps, SetPending, PostEvent
    <3>. QED  BY <3>1, <3>2, <3>3, <3>4
  <2>6. ASSUME EventComing, app \notin {"timer", "register"}  PROVE EventComing'
    <3>1. Len(events) = EventLen /\ events' = events => events[1] = "loop" /\ 1 \in DOMAIN events'
      BY <2>2, LoopConstantsOK DEF TypeOK
    <3>2. Len(events) = EventLen /\ events' = events => EventComing'
      BY <3>1 DEF EventComing
    <3>. QED  BY <1>2, <2>2, <2>3, <2>6, <3>2, CallKept
  <2>7. app' \notin Early /\ loop_pending' = 1 => EventComing'
    <3>. SUFFICES ASSUME app' \notin Early, loop_pending' = 1  PROVE EventComing'
      OBVIOUS
    <3>1. CASE ResetPending
      BY <3>1 DEF ResetPending
    <3>2. CASE ~ResetPending
      <4>1. app \notin Early
        BY <1>2, <2>3, <3>2 DEF Early, Next, app_main, AppStep, StartTimer, Register, FirstPost,
               Unwatch, loop_handler, Dispatch, TickFires, FrameArrives, PostSteps, SetPending,
               PostEvent, places
      <4>2. CASE loop_pending = 1
        BY <2>1, <2>6, <4>1, <4>2 DEF Inv, BeforeFirstRun, Early
      <4>3. CASE loop_pending # 1
        BY <2>2, <4>3, PendingSet
      <4>. QED  BY <4>2, <4>3
    <3>. QED  BY <3>1, <3>2
  <2>8. app' \in {"unwatch", "done"} => EventComing'
    <3>. SUFFICES ASSUME app' \in {"unwatch", "done"}  PROVE EventComing'
      OBVIOUS
    <3>1. CASE FirstPost
      <4>1. app = "post" /\ TestPending("app") /\ loop_pending' = loop_pending
        BY <3>1 DEF FirstPost, AppStep
      <4>2. CASE loop_pending = 1
        BY <2>7, <3>1, <4>1, <4>2 DEF Early, FirstPost, AppStep
      <4>3. CASE loop_pending # 1
        BY <2>2, <4>1, <4>3, TestPosts DEF Contexts
      <4>. QED  BY <4>2, <4>3
    <3>2. CASE ~FirstPost
      <4>1. app \in {"unwatch", "done"}
        BY <1>2, <2>3, <3>2 DEF Next, app_main, AppStep, StartTimer, Register, ResetPending,
               Unwatch, loop_handler, Dispatch, TickFires, FrameArrives, PostSteps, SetPending,
               PostEvent, places
      <4>. QED  BY <2>1, <2>6, <4>1 DEF Inv, BeforeFirstRun
    <3>. QED  BY <3>1, <3>2
  <2>. QED  BY <2>4, <2>5, <2>7, <2>8 DEF BeforeFirstRun
<1>. QED  BY <1>1, <1>2

LEMMA Invariance == Spec => []Inv
<1>1. ASSUME Inv, UNCHANGED vars  PROVE Inv'
  BY <1>1 DEF vars, Inv, TypeOK, PendingHasEvent, FrameHasEvent, EventComing, RunsWatched,
         BeforeFirstRun
<1>2. ASSUME Inv, Next  PROVE Inv'
  BY <1>2, TypeStep, PendingStep, FrameStep, WatchedStep, FirstStep DEF Inv
<1>. QED  BY <1>1, <1>2, InitHolds, PTL DEF Spec

-----------------------------------------------------------------------------
\* The variables of the main loop keep their types, and the event queue its
\* length, for every length of the queue.
THEOREM TypeCorrect == Spec => []TypeOK
<1>. QED  BY Invariance, PTL DEF Inv

\* The unlocked test of loop_pending never suppresses the last post, whatever
\* tasks are between their test, assignment and post (main.c:40-45, 70, 186).
THEOREM PendingNeverAlone == Spec => []PendingHasEvent
<1>. QED  BY Invariance, PTL DEF Inv

\* A frame that waits has loop_handler coming to it (main.c:85, 94-95).
THEOREM FrameNeverAlone == Spec => []FrameHasEvent
<1>. QED  BY Invariance, PTL DEF Inv

\* Even if the queue refused events: when app_main leaves the watchdog, the
\* event loop's task is under it or will be (main.c:57-60, 186-191).
THEOREM LoopSubscribed == Spec => []LoopWatched
<1>1. Inv => LoopWatched
  BY DEF Inv, RunsWatched, BeforeFirstRun, LoopWatched
<1>. QED  BY <1>1, Invariance, PTL

\* The timer stands still before app_main starts it, and inside sync_main_loop_timer.
TimerOn == ~timer => app = "timer" \/ handler = "restart"

\* After start-up the loop is never dead: when nothing calls loop_handler, the next
\* tick can, or the watchdog of the event loop's task does.
LoopGoesOn ==
  app = "done" /\ handler = "idle" /\ ~EventComing =>
    timer /\ (loop_pending = 1 => Stalled /\ "loop" \in watched)

LEMMA TimerStep == ASSUME TypeOK, TimerOn, [Next]_vars PROVE TimerOn'
<1>1. CASE StartTimer \/ RestartTick \/ StopTick \/ Watchdog
  BY <1>1 DEF TimerOn, TypeOK, StartTimer, AppStep, RestartTick, StopTick, HandlerStep, Watchdog
<1>2. CASE ~(StartTimer \/ RestartTick \/ StopTick \/ Watchdog)
  <2>1. /\ timer' = timer /\ (app = "timer" => app' = "timer")
        /\ (handler = "restart" => handler' = "restart")
    BY <1>2 DEF Next, app_main, AppStep, Register, ResetPending, FirstPost, Unwatch,
           loop_handler, Dispatch, FirstEntry, Ready, ClearPending, Process, CheckFrames,
           HandlerStep, TickFires, FrameArrives, OtherEvent, PostSteps, SetPending, PostEvent,
           places, tickTimer, vars
  <2>. QED  BY <2>1 DEF TimerOn
<1>. QED  BY <1>1, <1>2

\* Whatever the queue refused, the loop comes to run again: the safety core of LoopRuns
\* (main.c:41-43, 57-60, 78, 104-130, 177-191).
THEOREM LoopNeverDead == Spec => []LoopGoesOn
<1>1. Init => TimerOn
  BY DEF Init, TimerOn
<1>2. Inv /\ TimerOn /\ [Next]_vars => TimerOn'
  BY TimerStep DEF Inv
<1>3. Inv /\ TimerOn => LoopGoesOn
  BY DEF Inv, TypeOK, TimerOn, LoopGoesOn, LoopWatched, RunsWatched, BeforeFirstRun, Stalled
<1>. QED  BY <1>1, <1>2, <1>3, Invariance, PTL DEF Spec

\* The watchdog restarts the firmware only when the queue has refused an event, or when
\* app_main, waiting to reset loop_pending, is kept from it by other events
\* (main.c:40-45, 57-60, 70, 177-186).
THEOREM RestartHasCause == Spec => [][Watchdog => lost \/ app = "reset"]_vars
<1>1. Inv /\ [Next]_vars => [Watchdog => lost \/ app = "reset"]_vars
  BY DEF Inv, PendingHasEvent, Watchdog, Stalled
<1>. QED  BY <1>1, Invariance, PTL DEF Spec
=============================================================================
