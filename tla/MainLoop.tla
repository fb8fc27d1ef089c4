------------------------------ MODULE MainLoop ------------------------------
(***************************************************************************)
(* The main loop of main/main.c.  loop_handler runs in the task of the     *)
(* default event loop each time a JD_EVENT is taken off the event queue;   *)
(* post_loop, called by the 10 ms timer, by jdesp_wake_main in any task,   *)
(* by loop_handler itself and by app_main, posts that event unless         *)
(* loop_pending says that one is on its way.  The test, the assignment and *)
(* the post are three steps, and nothing locks them.  esp_event_post does  *)
(* not wait: when the queue is full the event is lost, and it is the 5 s   *)
(* task watchdog that gets the firmware going again.                       *)
(***************************************************************************)
EXTENDS Naturals, Sequences

CONSTANTS
  EventLen,    (* entries of the default event loop's queue                 *)
  MaxFrames    (* bound: frames waiting for jd_process_everything           *)

ASSUME LoopConstantsOK == EventLen \in Nat \ {0} /\ MaxFrames \in Nat \ {0}

\* The contexts that call post_loop.
Contexts == {"app", "tick", "wake", "loop"}

VARIABLES
  events,        (* the event queue: "loop" is JD_EVENT, "other" is not ours *)
  loop_pending,
  post,          (* where each context is in post_loop                       *)
  app,           (* where app_main is                                        *)
  handler,       (* where the event loop's task is in loop_handler           *)
  main_task,     (* loop_handler has run once                                *)
  timer,         (* main_loop_tick_timer is running                          *)
  max_sleep,     (* the period it was started with is tim_max_sleep          *)
  watched,       (* the tasks the watchdog watches                           *)
  frames,        (* frames received and not processed                        *)
  lost           (* history: an event was refused since the last start       *)

places == <<app, handler>>
tickTimer == <<timer, max_sleep>>
vars == <<events, loop_pending, post, app, handler, main_task, timer, max_sleep, watched, frames, lost>>

\* The types; loop_pending is an int that is only ever 0 or 1.
TypeOK ==
  /\ events \in Seq({"loop", "other"}) /\ Len(events) <= EventLen
  /\ loop_pending \in 0..1
  /\ post \in [Contexts -> {"out", "set", "send"}]
  /\ app \in {"timer", "register", "reset", "post", "unwatch", "done"}
  /\ handler \in {"idle", "enter", "init", "clear", "process", "check", "sync", "restart"}
  /\ main_task \in BOOLEAN /\ timer \in BOOLEAN /\ max_sleep \in BOOLEAN
  /\ watched \subseteq {"app", "loop"}
  /\ frames \in 0..MaxFrames
  /\ lost \in BOOLEAN

Init ==
  /\ events = <<>> /\ loop_pending = 0
  /\ post = [c \in Contexts |-> "out"]
  /\ app = "timer" /\ handler = "idle"
  /\ main_task = FALSE /\ timer = FALSE /\ max_sleep = FALSE
  /\ watched = {"app"}
  /\ frames = 0 /\ lost = FALSE

\* loop_handler is registered: before, the event loop drops what it takes.
Registered == app \notin {"timer", "register"}

-----------------------------------------------------------------------------
\* post_loop, called by context c: the test, the assignment, the post.
TestPending(c) ==
  /\ post[c] = "out"
  /\ post' = IF loop_pending = 1 THEN post ELSE [post EXCEPT ![c] = "set"]

\* Faulty variant: loop_pending counts the posts.
SetPending_Counts(c) ==
  /\ post[c] = "set" /\ post' = [post EXCEPT ![c] = "send"]
  /\ loop_pending' = loop_pending + 1
  /\ UNCHANGED <<events, places, main_task, tickTimer, watched, frames, lost>>

SetPending(c) ==
  /\ post[c] = "set" /\ post' = [post EXCEPT ![c] = "send"]
  /\ loop_pending' = 1
  /\ UNCHANGED <<events, places, main_task, tickTimer, watched, frames, lost>>

PostEvent(c) ==
  /\ post[c] = "send" /\ post' = [post EXCEPT ![c] = "out"]
  /\ IF Len(events) < EventLen
     THEN events' = Append(events, "loop") /\ UNCHANGED lost
     ELSE lost' = TRUE /\ UNCHANGED events
  /\ UNCHANGED <<loop_pending, places, main_task, tickTimer, watched, frames>>

PostSteps(c) == SetPending(c) \/ PostEvent(c)

TickFires ==
  /\ timer /\ TestPending("tick")
  /\ UNCHANGED <<events, loop_pending, places, main_task, tickTimer, watched, frames, lost>>

\* A frame arrives; the client then calls jdesp_wake_main.
FrameArrives ==
  /\ frames < MaxFrames /\ frames' = frames + 1
  /\ TestPending("wake")
  /\ UNCHANGED <<events, loop_pending, places, main_task, tickTimer, watched, lost>>

\* The other events of the system start with WiFi, which jd_init starts.
OtherEvent ==
  /\ main_task /\ Len(events) < EventLen
  /\ events' = Append(events, "other")
  /\ UNCHANGED <<loop_pending, post, places, main_task, tickTimer, watched, frames, lost>>

-----------------------------------------------------------------------------
\* app_main, from the start of the timer on.  Its task has the lowest priority:
\* it runs while the timer's task waits for the next tick and the event loop's
\* waits for an event, or blocks in a call of jd_init or of the main loop.
AppRuns ==
  /\ post["tick"] = "out" /\ post["loop"] = "out"
  /\ handler \in {"init", "process"} \/ (handler = "idle" /\ events = <<>>)

AppStep(from, to) ==
  AppRuns /\ post["app"] = "out" /\ app = from /\ app' = to

StartTimer ==
  /\ AppStep("timer", "register")
  /\ timer' = TRUE /\ max_sleep' = TRUE
  /\ UNCHANGED <<events, loop_pending, post, handler, main_task, watched, frames, lost>>

Register ==
  /\ AppStep("register", "reset")
  /\ UNCHANGED <<events, loop_pending, post, handler, main_task, tickTimer, watched, frames, lost>>

\* Faulty variant: loop_pending stays as the posts before Register left it.
ResetPending_Not ==
  /\ AppStep("reset", "post")
  /\ UNCHANGED <<events, loop_pending, post, handler, main_task, tickTimer, watched, frames, lost>>

ResetPending ==
  /\ AppStep("reset", "post")
  /\ loop_pending' = 0
  /\ UNCHANGED <<events, post, handler, main_task, tickTimer, watched, frames, lost>>

\* Faulty variant: the first run of the loop is left to the timer.
FirstPost_Not ==
  /\ AppStep("post", "unwatch")
  /\ UNCHANGED <<events, loop_pending, post, handler, main_task, tickTimer, watched, frames, lost>>

FirstPost ==
  /\ AppStep("post", "unwatch")
  /\ TestPending("app")
  /\ UNCHANGED <<events, loop_pending, handler, main_task, tickTimer, watched, frames, lost>>

Unwatch ==
  /\ AppStep("unwatch", "done")
  /\ watched' = watched \ {"app"}
  /\ UNCHANGED <<events, loop_pending, post, handler, main_task, tickTimer, frames, lost>>

app_main == StartTimer \/ Register \/ ResetPending \/ FirstPost \/ Unwatch

-----------------------------------------------------------------------------
\* The event loop's task takes an event and calls its handlers.
Dispatch ==
  /\ handler = "idle" /\ post["loop"] = "out" /\ events # <<>>
  /\ events' = Tail(events)
  /\ handler' = IF Head(events) = "loop" /\ Registered THEN "enter" ELSE "idle"
  /\ UNCHANGED <<loop_pending, post, app, main_task, tickTimer, watched, frames, lost>>

HandlerStep(from, to) ==
  handler = from /\ handler' = to /\ post["loop"] = "out"

\* Faulty variant: the event loop's task is not put under the watchdog.
FirstEntry_NotWatched ==
  /\ HandlerStep("enter", "init") /\ ~main_task
  /\ main_task' = TRUE
  /\ UNCHANGED <<events, loop_pending, post, app, tickTimer, watched, frames, lost>>

FirstEntry ==
  /\ HandlerStep("enter", "init") /\ ~main_task
  /\ main_task' = TRUE
  /\ watched' = watched \union {"loop"}
  /\ UNCHANGED <<events, loop_pending, post, app, tickTimer, frames, lost>>

\* The first entry after jd_init and jd_tcpsock_init, and every later one.
Ready ==
  /\ main_task /\ (HandlerStep("enter", "clear") \/ HandlerStep("init", "clear"))
  /\ UNCHANGED <<events, loop_pending, post, app, main_task, tickTimer, watched, frames, lost>>

\* loop_pending = 0, and the watchdog is fed.
ClearPending ==
  /\ HandlerStep("clear", "process")
  /\ loop_pending' = 0
  /\ UNCHANGED <<events, post, app, main_task, tickTimer, watched, frames, lost>>

\* jd_process_everything and the other work; the client may set tim_max_sleep.
Process ==
  /\ HandlerStep("process", "check")
  /\ frames' \in {n \in 0..frames : n < frames \/ n = 0}
  /\ max_sleep' \in {max_sleep, FALSE}
  /\ UNCHANGED <<events, loop_pending, post, app, main_task, timer, watched, lost>>

\* Faulty variant: the next run is left to the timer whatever is waiting.
CheckFrames_Not ==
  /\ HandlerStep("check", "sync")
  /\ UNCHANGED <<events, loop_pending, post, app, main_task, tickTimer, watched, frames, lost>>

CheckFrames ==
  /\ IF frames > 0
     THEN HandlerStep("check", "idle") /\ TestPending("loop")
     ELSE HandlerStep("check", "sync") /\ UNCHANGED post
  /\ UNCHANGED <<events, loop_pending, app, main_task, tickTimer, watched, frames, lost>>

\* sync_main_loop_timer: esp_timer_stop, then esp_timer_start_periodic.
StopTick ==
  /\ HandlerStep("sync", IF max_sleep THEN "idle" ELSE "restart")
  /\ timer' = max_sleep
  /\ UNCHANGED <<events, loop_pending, post, app, main_task, max_sleep, watched, frames, lost>>

RestartTick ==
  /\ HandlerStep("restart", "idle")
  /\ timer' = TRUE /\ max_sleep' = TRUE
  /\ UNCHANGED <<events, loop_pending, post, app, main_task, watched, frames, lost>>

loop_handler ==
  \/ Dispatch \/ FirstEntry \/ Ready \/ ClearPending \/ Process
  \/ CheckFrames \/ StopTick \/ RestartTick

-----------------------------------------------------------------------------
\* An event for loop_handler is on its way, or is being handled and has not
\* come to the frames yet.
EventComing ==
  \/ \E c \in Contexts : post[c] # "out"
  \/ \E i \in DOMAIN events : events[i] = "loop"
  \/ handler \in {"enter", "init", "clear"}

\* Nothing feeds the watchdog for 5 s: the event that loop_pending announces
\* does not exist and no other can be posted.  (At the reset of app_main it still
\* can, unless other events keep its task from running.)
Stalled ==
  /\ app \notin {"timer", "register"} /\ (app = "reset" => main_task)
  /\ loop_pending = 1 /\ ~EventComing /\ handler = "idle"

Watchdog ==
  /\ Stalled /\ watched # {}
  /\ events' = <<>> /\ loop_pending' = 0
  /\ post' = [c \in Contexts |-> "out"]
  /\ app' = "timer" /\ handler' = "idle"
  /\ main_task' = FALSE /\ timer' = FALSE /\ max_sleep' = FALSE
  /\ watched' = {"app"}
  /\ frames' = 0 /\ lost' = FALSE

Next ==
  \/ app_main
  \/ loop_handler
  \/ TickFires
  \/ FrameArrives
  \/ OtherEvent
  \/ Watchdog
  \/ \E c \in Contexts : PostSteps(c)

Spec == Init /\ [][Next]_vars

\* Every task gets the processor, the timer ticks, the watchdog expires.  WiFi
\* may send no event and the bus no frame.
Fairness ==
  /\ WF_vars(app_main) /\ WF_vars(loop_handler) /\ WF_vars(Watchdog)
  /\ WF_vars(TickFires) /\ \A c \in Contexts : WF_vars(PostSteps(c))

FairSpec == Spec /\ Fairness

-----------------------------------------------------------------------------
\* From the reset of loop_pending in app_main on, loop_pending is only ever set
\* while a call of loop_handler that will clear it is coming, unless the queue
\* refused an event: the unlocked test in post_loop never suppresses the last
\* post (main.c:40-45, 70, 186).
PendingHasEvent ==
  loop_pending = 1 /\ ~lost /\ app \notin {"timer", "register", "reset"} => EventComing

\* A received frame never waits for the timer: after start-up, while one is
\* waiting, loop_handler is coming to it or is about to look for it
\* (main.c:85, 94-95).
FrameHasEvent ==
  frames > 0 /\ ~lost /\ app \notin {"timer", "register", "reset", "post"}
    => EventComing \/ handler \in {"process", "check"}

\* "the loop_handler should have subscribed itself by now" (main.c:190-191): when
\* the task of app_main has left the watchdog, the event loop's task is under it
\* or is on its way to it.  (A frame that wakes the loop from another core while
\* app_main posts can delay it.)
LoopWatched == app = "done" => "loop" \in watched \/ EventComing

\* The loop runs again and again whatever the queue refuses: when the event that
\* loop_pending announces is lost, the watchdog restarts the firmware
\* (main.c:41-43, 58, 78, 123-130).
LoopRuns == []<>(handler = "process")
=============================================================================
