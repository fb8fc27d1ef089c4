----------------------------- MODULE SockProofs -----------------------------
(***************************************************************************)
(* What the two tasks of the socket cannot do to one another, for queues   *)
(* of any length and any number of connections.                            *)
(***************************************************************************)
EXTENDS Sock, TLAPS

\* at and then are functions of the two tasks.
Placed == DOMAIN at = Tasks /\ DOMAIN then = Tasks

\* The worker is in process_open, and has not set sock_fd yet.
Connecting ==
  \/ at["worker"] \in {"connect", "no_host", "set_fd"}
  \/ at["worker"] \in ClosePcs \union ResetPcs /\ then["worker"] = "connect"

\* An OPEN waits for the worker.
OpenQueued == \E i \in DOMAIN cmds : cmds[i].cmd = "OPEN"

\* The worker sets sock_fd to the connection it was asked for, and after it has closed
\* the one before.
FdFresh ==
  /\ at["worker"] \in ResetPcs \union {"connect", "no_host", "set_fd"} => sock_fd = 0
  /\ at["worker"] = "set_fd" => fd = cmd.conn
  /\ at["worker"] = "test" => then["worker"] = "push_error"
  /\ at["worker"] # "idle" => cmd \in Commands

\* The connection that the command before the i-th of queue q was for, when c was
\* taken last.
ConnBefore(q, c, i) == IF i = 1 THEN c.conn ELSE q[i - 1].conn

\* Each OPEN is for the next connection, and each MESSAGE for the connection of
\* the command before it, from the one the worker serves to the last one asked for.
Numbered ==
  /\ \A i \in DOMAIN cmds :
       cmds[i].conn = IF cmds[i].cmd = "OPEN" THEN ConnBefore(cmds, cmd, i) + 1
                                             ELSE ConnBefore(cmds, cmd, i)
  /\ ConnBefore(cmds, cmd, Len(cmds) + 1) = asked

\* sock_fd is the connection of the command that is served, unless process_open
\* is about to close the one before.
FdCurrent ==
  /\ sock_fd \in {0, cmd.conn} \/ (at["worker"] \in ClosePcs /\ then["worker"] = "connect")
  /\ at["worker"] = "write" => fd \in {0, cmd.conn}

\* A patient client: nothing of the last connection is left while the next one
\* is opened; while there is a connection, no error has been raised for it.
OpensAlone ==
  /\ OpenQueued => Len(cmds) = 1 /\ at["worker"] = "idle"
  /\ OpenQueued \/ Connecting =>
       /\ client = "opening" /\ events = <<>> /\ sock_fd = 0
       /\ at["main"] \in {"idle", "events", "read", "test"}
       /\ at["worker"] = "set_fd" => fd \in open

ClosesOnce ==
  /\ sock_fd # 0 =>
       /\ \A i \in DOMAIN events : events[i] = "OPEN"
       /\ \A t \in Tasks : at[t] \notin ResetPcs \union {"push_error", "push_close"}
       /\ client # "closed" \/ at["main"] \in ClosePcs
  /\ (\E t \in Tasks : at[t] = "zero") => sock_fd \notin open
  /\ \A t \in Tasks : at[t] = "close_fd" => sock_fd \in {0, closing[t]}

PatientInv == patient => OpensAlone /\ ClosesOnce

\* Before the first jd_tcpsock_new there is nothing to write to.
NoneYet == asked = 0 => cmds = <<>> /\ cmd.conn = 0 /\ sock_fd = 0

\* The types in groups, for the provers.
QueuesOK ==
  /\ cmds \in Seq(Commands) /\ Len(cmds) <= CmdLen
  /\ events \in Seq({"OPEN", "ERROR", "CLOSE"}) /\ Len(events) <= EventLen

FdsOK ==
  /\ sock_fd \in Conns \union {0} /\ open \subseteq Conns
  /\ cmd \in Commands \union {[cmd |-> "none", conn |-> 0]}
  /\ fd \in Conns \union {0} /\ closing \in [Tasks -> Conns \union {0}]
  /\ asked \in 0..MaxOpens

FlagsOK ==
  /\ is_connected \in BOOLEAN /\ is_tls \in BOOLEAN
  /\ patient \in BOOLEAN /\ missed \in BOOLEAN

AtOK ==
  /\ at["main"] \in {"idle", "events", "read"} \union RaisePcs
  /\ at["worker"] \in {"idle", "connect", "no_host", "set_fd", "set_tls", "handshake",
                       "connected", "push_open", "write"} \union RaisePcs
  /\ then["main"] \in {"idle", "push_error", "push_close"}
  /\ then["worker"] \in {"idle", "connect", "push_error"}
  /\ client \in {"closed", "opening", "open"}

LEMMA TypeParts == TypeOK <=> QueuesOK /\ FdsOK /\ FlagsOK /\ AtOK
BY DEF TypeOK, QueuesOK, FdsOK, FlagsOK, AtOK

USE DEF ClosePcs, ResetPcs, RaisePcs

-----------------------------------------------------------------------------
LEMMA FlagsStep == ASSUME FlagsOK, [Next]_vars PROVE FlagsOK'
<1>. USE DEF FlagsOK
<1>1. ASSUME NEW t \in Tasks, raise_error(t)  PROVE FlagsOK'
  BY <1>1 DEF raise_error, TestFd, jd_tcpsock_close, TestOpen, CloseFd, ZeroFd, Disconnect,
              TestTls, FreeTls, PushError, PushClose, push_event, shared, belief
<1>2. CASE jd_tcpsock_new \/ jd_tcpsock_write \/ ClientCloses \/ jd_tcpsock_process
  BY <1>2 DEF jd_tcpsock_new, jd_tcpsock_write, ClientCloses, jd_tcpsock_process, StartProcess,
         Deliver, EventsDone, Read, shared, belief
<1>3. CASE Receive \/ process_open \/ process_write
  BY <1>3 DEF Receive, process_open, Connect, ConnectFails, NoSocket, NoHost, SetFd, SetTls,
              Handshake, Connected, PushOpen, process_write, push_event, shared, belief
<1>4. CASE UNCHANGED vars
  BY <1>4 DEF vars, shared, belief
<1>. QED  BY <1>1, <1>2, <1>3, <1>4 DEF Next, main_task, worker_main, Tasks

LEMMA PlacedStep == ASSUME Placed, [Next]_vars PROVE Placed'
<1>. USE DEF Placed, Goto, Raise
<1>1. ASSUME NEW t \in Tasks, raise_error(t)  PROVE Placed'
  BY <1>1 DEF raise_error, TestFd, jd_tcpsock_close, TestOpen, CloseFd, ZeroFd, Disconnect,
              TestTls, FreeTls, PushError, PushClose
<1>2. CASE jd_tcpsock_new \/ jd_tcpsock_write \/ ClientCloses \/ jd_tcpsock_process
  BY <1>2 DEF jd_tcpsock_new, jd_tcpsock_write, ClientCloses, jd_tcpsock_process, StartProcess,
         Deliver, EventsDone, Read
<1>3. CASE Receive \/ process_open \/ process_write
  BY <1>3 DEF Receive, process_open, Connect, ConnectFails, NoSocket, NoHost, SetFd, SetTls,
              Handshake, Connected, PushOpen, process_write
<1>4. CASE UNCHANGED vars
  BY <1>4 DEF vars
<1>. QED  BY <1>1, <1>2, <1>3, <1>4 DEF Next, main_task, worker_main, Tasks

LEMMA AtStep == ASSUME AtOK, Placed, [Next]_vars PROVE AtOK'
<1>. USE DEF AtOK, Placed, Goto, Tasks
<1>1. ASSUME raise_error("main")  PROVE AtOK'
  BY <1>1 DEF raise_error, TestFd, jd_tcpsock_close, TestOpen, CloseFd, ZeroFd, Disconnect,
              TestTls, FreeTls, PushError, PushClose, belief
<1>2. ASSUME raise_error("worker")  PROVE AtOK'
  BY <1>2 DEF raise_error, TestFd, jd_tcpsock_close, TestOpen, CloseFd, ZeroFd, Disconnect,
              TestTls, FreeTls, PushError, PushClose, belief
<1>3. CASE jd_tcpsock_new \/ jd_tcpsock_write 
  BY <1>3 DEF jd_tcpsock_new, CanAsk, jd_tcpsock_write, belief
<1>4. CASE ClientCloses
  BY <1>4 DEF ClientCloses
<1>5. CASE StartProcess \/ Deliver \/ EventsDone
  BY <1>5 DEF StartProcess, Deliver, EventsDone, belief
<1>11. CASE Read
  BY <1>11 DEF Read, Raise, belief
<1>6. CASE Receive
  BY <1>6 DEF Receive, belief
<1>7. CASE Connect \/ ConnectFails \/ NoSocket \/ NoHost \/ SetFd
  BY <1>7 DEF Connect, ConnectFails, NoSocket, NoHost, SetFd, belief
<1>8. CASE SetTls \/ Handshake \/ Connected \/ PushOpen
  BY <1>8 DEF SetTls, Handshake, Connected, PushOpen, Raise, belief
<1>9. CASE process_write
  BY <1>9 DEF process_write, Raise, belief
<1>10. CASE UNCHANGED vars
  BY <1>10 DEF vars, belief
<1>. QED
  BY <1>1, <1>2, <1>3, <1>4, <1>5, <1>11, <1>6, <1>7, <1>8, <1>9, <1>10
  DEF Next, main_task, worker_main, jd_tcpsock_process, process_open

LEMMA PushTyped ==
  ASSUME QueuesOK, NEW ev \in {"OPEN", "ERROR", "CLOSE"}, push_event(ev), UNCHANGED cmds
  PROVE  QueuesOK'
<1>1. CASE Len(events) < EventLen
  <2>1. events' = Append(events, ev)
    BY <1>1 DEF push_event
  <2>2. events' \in Seq({"OPEN", "ERROR", "CLOSE"}) /\ Len(events') = Len(events) + 1
    BY <2>1 DEF QueuesOK
  <2>. QED  BY <1>1, <2>2, SockConstantsOK DEF QueuesOK
<1>2. CASE ~(Len(events) < EventLen)
  BY <1>2 DEF push_event, QueuesOK
<1>. QED  BY <1>1, <1>2

LEMMA QueuesStep == ASSUME TypeOK, NoneYet, [Next]_vars PROVE QueuesOK'
<1>. USE TypeParts DEF QueuesOK
<1>1. ASSUME NEW ev \in {"OPEN", "ERROR", "CLOSE"}, push_event(ev), UNCHANGED cmds
      PROVE  QueuesOK'
  BY <1>1, PushTyped
<1>2. ASSUME NEW t \in Tasks, raise_error(t)  PROVE QueuesOK'
  BY <1>1, <1>2 DEF raise_error, TestFd, jd_tcpsock_close, TestOpen, CloseFd, ZeroFd, Disconnect,
                    TestTls, FreeTls, PushError, PushClose
<1>3. CASE jd_tcpsock_new
  <2>1. [cmd |-> "OPEN", conn |-> asked + 1] \in Commands
    BY <1>3, SockConstantsOK DEF jd_tcpsock_new, CanAsk, Commands, Conns, FdsOK
  <2>. QED  BY <1>3, <2>1, SockConstantsOK DEF jd_tcpsock_new, CanAsk
<1>4. CASE jd_tcpsock_write
  <2>1. [cmd |-> "MESSAGE", conn |-> asked] \in Commands
    BY <1>4, SockConstantsOK DEF jd_tcpsock_write, NoneYet, Commands, Conns, FdsOK
  <2>. QED  BY <1>4, <2>1, SockConstantsOK DEF jd_tcpsock_write
<1>5. CASE Deliver
  BY <1>5, SockConstantsOK DEF Deliver
<1>6. CASE Receive
  BY <1>6, SockConstantsOK DEF Receive
<1>7. CASE ClientCloses \/ StartProcess \/ EventsDone \/ Read
  BY <1>7 DEF ClientCloses, StartProcess, EventsDone, Read
<1>8. CASE process_open \/ process_write
  BY <1>1, <1>8 DEF process_open, Connect, ConnectFails, NoSocket, NoHost, SetFd, SetTls, Handshake,
         Connected, PushOpen, process_write
<1>9. CASE UNCHANGED vars
  BY <1>9 DEF vars
<1>. QED
  BY <1>2, <1>3, <1>4, <1>5, <1>6, <1>7, <1>8, <1>9
  DEF Next, main_task, worker_main, jd_tcpsock_process, Tasks

LEMMA FdsStep == ASSUME TypeOK, FdFresh, [Next]_vars PROVE FdsOK'
<1>. USE TypeParts, SockConstantsOK DEF FdsOK, Conns
<1>1. ASSUME NEW t \in Tasks, raise_error(t)  PROVE FdsOK'
  BY <1>1 DEF raise_error, TestFd, jd_tcpsock_close, TestOpen, CloseFd, ZeroFd, Disconnect,
              TestTls, FreeTls, PushError, PushClose, shared, belief
<1>2. CASE jd_tcpsock_new
  BY <1>2 DEF jd_tcpsock_new, CanAsk, shared
<1>3. CASE jd_tcpsock_write \/ ClientCloses \/ jd_tcpsock_process
  BY <1>3 DEF jd_tcpsock_write, ClientCloses, jd_tcpsock_process, StartProcess, Deliver,
         EventsDone, Read, shared, belief
<1>4. CASE Receive
  <2>1. Head(cmds) \in Commands
    BY <1>4 DEF Receive, QueuesOK
  <2>. QED  BY <1>4, <2>1 DEF Receive, shared, belief
<1>5. CASE Connect
  <2>1. cmd.conn \in Conns
    BY <1>5 DEF Connect, FdFresh, Goto, Commands
  <2>. QED  BY <1>5, <2>1 DEF Connect, belief

<1>6. CASE ConnectFails \/ NoSocket \/ NoHost \/ SetFd \/ SetTls \/ Handshake \/ Connected
           \/ PushOpen \/ process_write
  BY <1>6 DEF ConnectFails, NoSocket, NoHost, SetFd, SetTls, Handshake, Connected, PushOpen,
         process_write, shared, belief
<1>7. CASE UNCHANGED vars
  BY <1>7 DEF vars, shared, belief
<1>. QED
  BY <1>1, <1>2, <1>3, <1>4, <1>5, <1>6, <1>7
  DEF Next, main_task, worker_main, process_open, Tasks

-----------------------------------------------------------------------------
LEMMA FreshStep ==
  ASSUME TypeOK, Placed, FdFresh, [Next]_vars
  PROVE  FdFresh'
<1>. USE TypeParts DEF Placed, AtOK, FdsOK, FdFresh, Goto, Tasks
<1>1. CASE raise_error("main")
  <2>1. at'["worker"] = at["worker"] /\ UNCHANGED <<then["worker"], cmd, fd>>
    BY <1>1 DEF raise_error, TestFd, jd_tcpsock_close, TestOpen, CloseFd, ZeroFd, Disconnect,
           TestTls, FreeTls, PushError, PushClose
  <2>2. sock_fd' \in {0, sock_fd}
    BY <1>1 DEF raise_error, TestFd, jd_tcpsock_close, TestOpen, CloseFd, ZeroFd, Disconnect,
           TestTls, FreeTls, PushError, PushClose, shared
  <2>. QED  BY <2>1, <2>2
<1>2. CASE raise_error("worker")
  BY <1>2 DEF raise_error, TestFd, jd_tcpsock_close, TestOpen, CloseFd, ZeroFd, Disconnect,
              TestTls, FreeTls, PushError, PushClose, shared
<1>3. CASE jd_tcpsock_new \/ jd_tcpsock_write \/ ClientCloses \/ StartProcess \/ Deliver
           \/ EventsDone
  BY <1>3 DEF jd_tcpsock_new, jd_tcpsock_write, ClientCloses, StartProcess, Deliver, EventsDone,
         shared
<1>4. CASE Read
  BY <1>4 DEF Read, Raise, shared
<1>5. CASE Receive
  <2>1. Head(cmds) \in Commands
    BY <1>5 DEF Receive, QueuesOK
  <2>. QED  BY <1>5, <2>1 DEF Receive, shared
<1>6. CASE Connect \/ ConnectFails \/ NoSocket \/ NoHost \/ SetFd
  BY <1>6 DEF Connect, ConnectFails, NoSocket, NoHost, SetFd, shared
<1>7. CASE SetTls \/ Handshake \/ Connected \/ PushOpen
  BY <1>7 DEF SetTls, Handshake, Connected, PushOpen, Raise, shared
<1>8. CASE process_write
  BY <1>8 DEF process_write, Raise, shared
<1>9. CASE UNCHANGED vars
  BY <1>9 DEF vars, shared
<1>. QED
  BY <1>1, <1>2, <1>3, <1>4, <1>5, <1>6, <1>7, <1>8, <1>9
  DEF Next, main_task, worker_main, jd_tcpsock_process, process_open

LEMMA PatientFixed == ASSUME [Next]_vars PROVE patient' = patient
BY DEF Next, main_task, worker_main, raise_error, TestFd, jd_tcpsock_close, TestOpen, CloseFd,
       ZeroFd, Disconnect, TestTls, FreeTls, PushError, PushClose, jd_tcpsock_new,
       jd_tcpsock_write, ClientCloses, jd_tcpsock_process, StartProcess, Deliver, EventsDone,
       Read, Receive, process_open, Connect, ConnectFails, NoSocket, NoHost, SetFd, SetTls,
       Handshake, Connected, PushOpen, process_write, vars, belief

\* Closing a descriptor and clearing sock_fd are two steps, and only SetFd,
\* with a fresh descriptor, gives sock_fd a value.
LEMMA FdOpenStep ==
  ASSUME TypeOK, Placed, PatientInv, FdOpen, [Next]_vars
  PROVE  FdOpen'
<1>. USE PatientFixed DEF FdOpen, Placed, Goto
<1>1. ASSUME NEW t \in Tasks, CloseFd(t)  PROVE FdOpen'
  BY <1>1 DEF CloseFd
<1>2. ASSUME NEW t \in Tasks, ZeroFd(t)  PROVE FdOpen'
  BY <1>2 DEF ZeroFd
<1>3. CASE SetFd
  BY <1>3 DEF SetFd, PatientInv, OpensAlone, Connecting
<1>4. CASE Connect
  BY <1>4 DEF Connect, Tasks
<1>5. CASE ~(SetFd \/ Connect \/ \E t \in Tasks : CloseFd(t) \/ ZeroFd(t))
  <2>1. UNCHANGED <<sock_fd, open>>
    BY <1>5 DEF Next, main_task, worker_main, raise_error, TestFd, jd_tcpsock_close, TestOpen,
                Disconnect, TestTls, FreeTls, PushError, PushClose, jd_tcpsock_new,
                jd_tcpsock_write, ClientCloses, jd_tcpsock_process, StartProcess, Deliver,
                EventsDone, Read, Receive, process_open, ConnectFails, NoSocket, NoHost, SetTls,
                Handshake, Connected, PushOpen, process_write, vars, shared, Tasks
  <2>2. \A t \in Tasks : at[t] = "zero" => at'[t] = "zero"
    BY <1>5 DEF Next, main_task, worker_main, raise_error, TestFd, jd_tcpsock_close, TestOpen,
                Disconnect, TestTls, FreeTls, PushError, PushClose, jd_tcpsock_new,
                jd_tcpsock_write, ClientCloses, jd_tcpsock_process, StartProcess, Deliver,
                EventsDone, Read, Receive, process_open, ConnectFails, NoSocket, NoHost, SetTls,
                Handshake, Connected, PushOpen, process_write, vars, Raise, Tasks
  <2>. QED  BY <2>1, <2>2
<1>. QED  BY <1>1, <1>2, <1>3, <1>4, <1>5

-----------------------------------------------------------------------------
LEMMA NoneYetStep ==
  ASSUME TypeOK, FdFresh, NoneYet, [Next]_vars
  PROVE  NoneYet'
<1>. USE TypeParts DEF NoneYet
<1>. SUFFICES ASSUME asked' = 0  PROVE cmds' = <<>> /\ cmd'.conn = 0 /\ sock_fd' = 0
  OBVIOUS
<1>1. CASE jd_tcpsock_new
  BY <1>1 DEF jd_tcpsock_new, CanAsk, FdsOK
<1>2. CASE ~jd_tcpsock_new
  <2>1. asked = 0
    BY <1>2 DEF Next, main_task, worker_main, raise_error, TestFd, jd_tcpsock_close, TestOpen,
                CloseFd, ZeroFd, Disconnect, TestTls, FreeTls, PushError, PushClose,
                jd_tcpsock_write, ClientCloses, jd_tcpsock_process, StartProcess, Deliver,
                EventsDone, Read, Receive, process_open, Connect, ConnectFails, NoSocket, NoHost,
                SetFd, SetTls, Handshake, Connected, PushOpen, process_write, vars, belief
  <2>2. ~jd_tcpsock_write /\ ~Receive
    BY <2>1 DEF jd_tcpsock_write, Receive
  <2>3. ~SetFd
    BY <2>1 DEF SetFd, FdFresh, FdsOK, Commands, Conns, Goto
  <2>. QED
    BY <1>2, <2>1, <2>2, <2>3
    DEF Next, main_task, worker_main, raise_error, TestFd, jd_tcpsock_close, TestOpen, CloseFd,
        ZeroFd, Disconnect, TestTls, FreeTls, PushError, PushClose, ClientCloses,
        jd_tcpsock_process, StartProcess, Deliver, EventsDone, Read, process_open, Connect,
        ConnectFails, NoSocket, NoHost, SetTls, Handshake, Connected, PushOpen, process_write,
        vars, shared
<1>. QED  BY <1>1, <1>2

\* A command at the end of the queue carries on the numbering.
LEMMA NumberedAppend ==
  ASSUME cmds \in Seq(Commands), asked \in Nat, Numbered,
         NEW c \in Commands, cmds' = Append(cmds, c), cmd' = cmd,
         c.conn = IF c.cmd = "OPEN" THEN asked + 1 ELSE asked,
         asked' = c.conn
  PROVE  Numbered'
<1>1. /\ Len(cmds') = Len(cmds) + 1 /\ DOMAIN cmds' = 1..(Len(cmds) + 1)
      /\ cmds'[Len(cmds) + 1] = c
      /\ \A i \in 1..Len(cmds) : cmds'[i] = cmds[i]
      /\ Len(cmds) \in Nat
  OBVIOUS
<1>2. \A i \in 1..(Len(cmds) + 1) : ConnBefore(cmds', cmd', i) = ConnBefore(cmds, cmd, i)
  BY <1>1 DEF ConnBefore
<1>3. ConnBefore(cmds, cmd, Len(cmds) + 1) = asked
  BY DEF Numbered
<1>4. \A i \in 1..Len(cmds) :
        cmds'[i].conn = IF cmds'[i].cmd = "OPEN" THEN ConnBefore(cmds', cmd', i) + 1
                                               ELSE ConnBefore(cmds', cmd', i)
  BY <1>1, <1>2 DEF Numbered
<1>5. cmds'[Len(cmds) + 1].conn = IF cmds'[Len(cmds) + 1].cmd = "OPEN"
                                  THEN ConnBefore(cmds', cmd', Len(cmds) + 1) + 1
                                  ELSE ConnBefore(cmds', cmd', Len(cmds) + 1)
  BY <1>1, <1>2, <1>3
<1>6. ConnBefore(cmds', cmd', Len(cmds') + 1) = asked'
  BY <1>1 DEF ConnBefore
<1>. QED  BY <1>1, <1>4, <1>5, <1>6 DEF Numbered

LEMMA NumberedStep ==
  ASSUME TypeOK, NoneYet, Numbered, [Next]_vars
  PROVE  Numbered'
<1>. USE TypeParts
<1>0. cmds \in Seq(Commands) /\ asked \in Nat /\ 0 \notin Conns
  BY SockConstantsOK DEF QueuesOK, FdsOK, Conns
<1>1. CASE jd_tcpsock_new
  <2>. DEFINE c == [cmd |-> "OPEN", conn |-> asked + 1]
  <2>1. c \in Commands /\ c.cmd = "OPEN" /\ c.conn = asked + 1
    BY <1>1, SockConstantsOK DEF jd_tcpsock_new, CanAsk, Commands, Conns, FdsOK
  <2>2. cmds' = Append(cmds, c) /\ cmd' = cmd /\ asked' = asked + 1
    BY <1>1 DEF jd_tcpsock_new, CanAsk
  <2>. HIDE DEF c
  <2>. QED  BY <1>0, <2>1, <2>2, NumberedAppend
<1>2. CASE jd_tcpsock_write
  <2>. DEFINE c == [cmd |-> "MESSAGE", conn |-> asked]
  <2>1. c \in Commands /\ c.cmd = "MESSAGE" /\ c.conn = asked
    BY <1>2, SockConstantsOK DEF jd_tcpsock_write, NoneYet, Commands, Conns, FdsOK
  <2>2. cmds' = Append(cmds, c) /\ cmd' = cmd /\ asked' = asked
    BY <1>2 DEF jd_tcpsock_write, belief
  <2>. HIDE DEF c
  <2>. QED  BY <1>0, <2>1, <2>2, NumberedAppend
<1>3. CASE Receive
  <2>1. cmds # <<>> /\ cmds' = Tail(cmds) /\ cmd' = Head(cmds) /\ asked' = asked
    BY <1>3 DEF Receive, belief
  <2>2. /\ Len(cmds) \in Nat \ {0} /\ Len(cmds') = Len(cmds) - 1
        /\ DOMAIN cmds' = 1..(Len(cmds) - 1) /\ DOMAIN cmds = 1..Len(cmds)
        /\ \A i \in 1..(Len(cmds) - 1) : cmds'[i] = cmds[i + 1]
        /\ cmd' = cmds[1]
    BY <1>0, <2>1
  <2>3. \A i \in 1..Len(cmds) : ConnBefore(cmds', cmd', i) = ConnBefore(cmds, cmd, i + 1)
    BY <2>2 DEF ConnBefore
  <2>4. \A i \in 1..(Len(cmds) - 1) : i + 1 \in DOMAIN cmds
    BY <2>2
  <2>5. \A i \in DOMAIN cmds' :
          cmds'[i].conn = IF cmds'[i].cmd = "OPEN" THEN ConnBefore(cmds', cmd', i) + 1
                                               ELSE ConnBefore(cmds', cmd', i)
    BY SMTT(20), <2>2, <2>3, <2>4 DEF Numbered
  <2>6. ConnBefore(cmds', cmd', Len(cmds') + 1) = asked'
    BY <2>1, <2>2, <2>3 DEF Numbered
  <2>. QED  BY <2>5, <2>6 DEF Numbered
<1>4. CASE UNCHANGED <<cmds, cmd, asked>>
  BY <1>4 DEF Numbered, ConnBefore
<1>5. jd_tcpsock_new \/ jd_tcpsock_write \/ Receive \/ UNCHANGED <<cmds, cmd, asked>>
  BY DEF Next, main_task, worker_main, raise_error, TestFd, jd_tcpsock_close, TestOpen, CloseFd,
         ZeroFd, Disconnect, TestTls, FreeTls, PushError, PushClose, ClientCloses,
         jd_tcpsock_process, StartProcess, Deliver, EventsDone, Read, process_open, Connect,
         ConnectFails, NoSocket, NoHost, SetFd, SetTls, Handshake, Connected, PushOpen,
         process_write, vars, belief
<1>. QED  BY <1>1, <1>2, <1>3, <1>4, <1>5

LEMMA CurrentStep ==
  ASSUME TypeOK, Placed, FdFresh, NoneYet, Numbered, FdCurrent, [Next]_vars
  PROVE  FdCurrent'
<1>. USE TypeParts DEF AtOK, Placed, FdCurrent, Goto, Tasks
<1>1. CASE raise_error("main")
  BY <1>1 DEF raise_error, TestFd, jd_tcpsock_close, TestOpen, CloseFd, ZeroFd, Disconnect,
              TestTls, FreeTls, PushError, PushClose, shared
<1>2. CASE raise_error("worker")
  BY <1>2 DEF raise_error, TestFd, jd_tcpsock_close, TestOpen, CloseFd, ZeroFd, Disconnect,
              TestTls, FreeTls, PushError, PushClose, shared
<1>3. CASE jd_tcpsock_new \/ jd_tcpsock_write \/ ClientCloses \/ StartProcess \/ Deliver
           \/ EventsDone
  BY <1>3 DEF jd_tcpsock_new, jd_tcpsock_write, ClientCloses, StartProcess, Deliver, EventsDone,
         shared
<1>4. CASE Read
  BY <1>4 DEF Read, Raise, shared
<1>5. CASE Receive
  <2>1. Head(cmds) = cmds[1] /\ 1 \in DOMAIN cmds /\ cmds[1] \in Commands
    BY <1>5 DEF Receive, QueuesOK
  <2>2. cmds[1].cmd # "OPEN" => cmds[1].conn = cmd.conn
    BY <2>1 DEF Numbered, ConnBefore
  <2>3. CASE cmds[1].cmd = "OPEN"
    BY <1>5, <2>1, <2>3 DEF Receive, shared
  <2>4. CASE cmds[1].cmd # "OPEN"
    BY <1>5, <2>1, <2>2, <2>4 DEF Receive, shared
  <2>. QED  BY <2>3, <2>4
<1>6. CASE Connect \/ ConnectFails \/ NoSocket \/ NoHost \/ SetFd
  BY <1>6 DEF Connect, ConnectFails, NoSocket, NoHost, SetFd, FdFresh, shared
<1>7. CASE SetTls \/ Handshake \/ Connected \/ PushOpen
  BY <1>7 DEF SetTls, Handshake, Connected, PushOpen, Raise, shared
<1>8. CASE process_write
  BY <1>8 DEF process_write, Raise, shared
<1>9. CASE UNCHANGED vars
  BY <1>9 DEF vars, shared
<1>. QED
  BY <1>1, <1>2, <1>3, <1>4, <1>5, <1>6, <1>7, <1>8, <1>9
  DEF Next, main_task, worker_main, jd_tcpsock_process, process_open

-----------------------------------------------------------------------------
\* The patient client.  Its requests come one at a time, when the connection
\* before is closed and nothing that was raised for it is left.
LEMMA AskFinds ==
  ASSUME TypeOK, patient, ClosesOnce, jd_tcpsock_new
  PROVE  sock_fd = 0 /\ cmds = <<>> /\ events = <<>> /\ at["worker"] = "idle"
         /\ at["main"] = "idle"
BY DEF jd_tcpsock_new, CanAsk, Settled, ClosesOnce

LEMMA AloneStep ==
  ASSUME TypeOK, Placed, FdFresh, patient, OpensAlone, ClosesOnce, [Next]_vars
  PROVE  OpensAlone'
<1>. USE TypeParts DEF AtOK, Placed, Goto, Tasks
<1>1. CASE jd_tcpsock_new
  <2>1. /\ cmds' = <<[cmd |-> "OPEN", conn |-> asked + 1]>>
        /\ client' = "opening" /\ UNCHANGED <<events, sock_fd, at>>
    BY <1>1, AskFinds DEF jd_tcpsock_new, CanAsk, shared
  <2>. QED  BY <1>1, <2>1, AskFinds DEF OpensAlone
<1>2. CASE Receive
  <2>1. DOMAIN cmds = 1..Len(cmds) /\ Len(cmds) \in Nat \ {0} /\ Head(cmds) = cmds[1]
    BY <1>2 DEF Receive, QueuesOK
  <2>2. CASE OpenQueued
    <3>1. cmds' = <<>>
      BY <1>2, <2>2 DEF Receive, OpensAlone, QueuesOK
    <3>. QED  BY <1>2, <2>2, <3>1
       DEF Receive, OpensAlone, OpenQueued, Connecting, shared, belief
  <2>3. CASE ~OpenQueued
    <3>1. cmds[1].cmd # "OPEN"
      BY <2>1, <2>3 DEF OpenQueued
    <3>2. ~OpenQueued'
      <4>1. DOMAIN Tail(cmds) = 1..(Len(cmds) - 1)
            /\ \A i \in 1..(Len(cmds) - 1) : Tail(cmds)[i] = cmds[i + 1] /\ i + 1 \in DOMAIN cmds
        BY <1>2, <2>1 DEF Receive, QueuesOK
      <4>. QED  BY <1>2, <2>3, <4>1 DEF Receive, OpenQueued
    <3>3. ~Connecting'
      BY <1>2, <2>1, <3>1 DEF Receive, Connecting
    <3>. QED  BY <3>2, <3>3 DEF OpensAlone
  <2>. QED  BY <2>2, <2>3
<1>3. CASE jd_tcpsock_write
  <2>1. ~OpenQueued /\ ~Connecting
    BY <1>3 DEF jd_tcpsock_write, OpensAlone
  <2>2. ~OpenQueued'
    BY <1>3, <2>1 DEF jd_tcpsock_write, OpenQueued, QueuesOK
  <2>3. ~Connecting'
    BY <1>3, <2>1 DEF jd_tcpsock_write, Connecting
  <2>. QED  BY <2>2, <2>3 DEF OpensAlone
<1>. SUFFICES ASSUME cmds' = cmds, OpenQueued' = OpenQueued,
                     OpenQueued' \/ Connecting'
              PROVE  /\ OpenQueued' => at'["worker"] = "idle"
                     /\ client' = "opening" /\ events' = <<>> /\ sock_fd' = 0
                     /\ at'["main"] \in {"idle", "events", "read", "test"}
                     /\ at'["worker"] = "set_fd" => fd' \in open'
  <2>1. jd_tcpsock_new \/ jd_tcpsock_write \/ Receive \/ cmds' = cmds
    BY DEF Next, main_task, worker_main, raise_error, TestFd, jd_tcpsock_close, TestOpen, CloseFd,
           ZeroFd, Disconnect, TestTls, FreeTls, PushError, PushClose, ClientCloses,
           jd_tcpsock_process, StartProcess, Deliver, EventsDone, Read, process_open, Connect,
           ConnectFails, NoSocket, NoHost, SetFd, SetTls, Handshake, Connected, PushOpen,
           process_write, vars
  <2>2. cmds' = cmds => OpenQueued' = OpenQueued
    BY DEF OpenQueued
  <2>. QED  BY <1>1, <1>2, <1>3, <2>1, <2>2 DEF OpensAlone
<1>4. CASE raise_error("main")
  <2>1. (OpenQueued \/ Connecting) /\ at["main"] = "test" /\ sock_fd = 0
    BY <1>4 DEF raise_error, TestFd, jd_tcpsock_close, TestOpen, CloseFd, ZeroFd, Disconnect,
                TestTls, FreeTls, PushError, PushClose, OpensAlone, Connecting
  <2>2. TestFd("main")
    BY <1>4, <2>1 DEF raise_error, jd_tcpsock_close, TestOpen, CloseFd, ZeroFd, Disconnect,
                      TestTls, FreeTls, PushError, PushClose
  <2>. QED  BY <2>1, <2>2 DEF TestFd, OpensAlone, shared, belief
<1>5. CASE raise_error("worker")
  <2>1. CASE TestFd("worker") \/ PushError("worker") \/ PushClose("worker")
    <3>1. ~OpenQueued
      BY <2>1 DEF TestFd, PushError, PushClose, OpensAlone
    <3>2. ~Connecting'
      BY <2>1 DEF TestFd, PushError, PushClose, Connecting, FdFresh
    <3>. QED  BY <3>1, <3>2
  <2>2. CASE TestOpen("worker") \/ CloseFd("worker") \/ ZeroFd("worker")
    BY <2>2 DEF TestOpen, CloseFd, ZeroFd, OpensAlone, Connecting, FdFresh, shared, belief
  <2>3. CASE Disconnect("worker") \/ TestTls("worker") \/ FreeTls("worker")
    BY <2>3 DEF Disconnect, TestTls, FreeTls, OpensAlone, Connecting, shared, belief
  <2>. QED  BY <1>5, <2>1, <2>2, <2>3 DEF raise_error, jd_tcpsock_close
<1>6. CASE ClientCloses \/ StartProcess \/ Deliver \/ EventsDone
  BY <1>6 DEF ClientCloses, StartProcess, Deliver, EventsDone, OpensAlone, Connecting, shared,
         belief
<1>7. CASE Read
  BY <1>7 DEF Read, Raise, OpensAlone, Connecting, shared, belief
<1>8. CASE Connect \/ ConnectFails \/ NoSocket \/ NoHost \/ SetFd
  BY <1>8 DEF Connect, ConnectFails, NoSocket, NoHost, SetFd, OpensAlone, Connecting, shared,
         belief
<1>9. CASE SetTls \/ Handshake \/ Connected \/ PushOpen
  BY <1>9 DEF SetTls, Handshake, Connected, PushOpen, Raise, OpensAlone, Connecting, shared, belief
<1>10. CASE process_write
  BY <1>10 DEF process_write, Raise, OpensAlone, Connecting, shared, belief
<1>11. CASE UNCHANGED vars
  BY <1>11 DEF vars, OpensAlone, Connecting, shared, belief
<1>. QED
  BY <1>1, <1>2, <1>3, <1>4, <1>5, <1>6, <1>7, <1>8, <1>9, <1>10, <1>11
  DEF Next, main_task, worker_main, jd_tcpsock_process, process_open, OpensAlone

\* While there is a connection, the only events are OPEN.
LEMMA OnceStep ==
  ASSUME TypeOK, Placed, FdFresh, patient, OpensAlone, ClosesOnce, [Next]_vars
  PROVE  ClosesOnce'
<1>. USE TypeParts DEF AtOK, Placed, Goto, Tasks
<1>1. (\E t \in Tasks : at'[t] = "zero") => sock_fd' \notin open'
  <2>1. ASSUME NEW t \in Tasks, CloseFd(t)
        PROVE  sock_fd' \notin open'
    <3>1. sock_fd \in open => closing[t] = sock_fd
      BY <2>1 DEF CloseFd, ClosesOnce, FdsOK, Conns
    <3>2. PICK d \in Named(closing[t]) \union {sock_fd} : open' = open \ {d}
      BY <2>1 DEF CloseFd
    <3>3. sock_fd \in open => d = sock_fd
      BY <3>1, <3>2 DEF Named
    <3>. QED  BY <2>1, <3>2, <3>3 DEF CloseFd
  <2>7. ASSUME NEW t \in Tasks, raise_error(t), ~CloseFd(t)
        PROVE  (\E u \in Tasks : at'[u] = "zero") => sock_fd' \notin open'
    BY <2>7 DEF raise_error, TestFd, jd_tcpsock_close, TestOpen, ZeroFd, Disconnect, TestTls,
           FreeTls, PushError, PushClose, ClosesOnce, FdsOK, Conns, shared
  <2>2. CASE jd_tcpsock_new \/ jd_tcpsock_write \/ ClientCloses \/ jd_tcpsock_process
    <3>1. UNCHANGED <<sock_fd, open>>
      BY <2>2 DEF jd_tcpsock_new, jd_tcpsock_write, ClientCloses, jd_tcpsock_process,
             StartProcess, Deliver, EventsDone, Read, shared
    <3>2. \A u \in Tasks : at'[u] = "zero" => at[u] = "zero"
      BY <2>2 DEF jd_tcpsock_new, jd_tcpsock_write, ClientCloses, jd_tcpsock_process,
             StartProcess, Deliver, EventsDone, Read, Raise
    <3>. QED  BY <3>1, <3>2 DEF ClosesOnce
  <2>3. CASE Receive \/ ConnectFails \/ NoSocket \/ NoHost \/ SetTls \/ Handshake \/ Connected
             \/ PushOpen \/ process_write
    BY <2>3 DEF Receive, ConnectFails, NoSocket, NoHost, SetTls, Handshake, Connected, PushOpen,
           process_write, Raise, ClosesOnce, shared
  <2>4. CASE Connect
    BY <2>4 DEF Connect, OpensAlone, Connecting
  <2>5. CASE SetFd
    BY <2>5 DEF SetFd, OpensAlone, Connecting
  <2>6. CASE UNCHANGED vars
    BY <2>6 DEF vars, ClosesOnce, shared
  <2>. QED
    BY <2>1, <2>2, <2>3, <2>4, <2>5, <2>6, <2>7 DEF Next, main_task, worker_main, process_open
<1>0. \A t \in Tasks : at'[t] = "close_fd" => sock_fd' \in {0, closing'[t]}
  <2>1. ASSUME NEW t \in Tasks, raise_error(t), NEW u \in Tasks, at'[u] = "close_fd"
        PROVE  sock_fd' \in {0, closing'[u]}
    BY <2>1 DEF raise_error, TestFd, jd_tcpsock_close, TestOpen, CloseFd, ZeroFd, Disconnect,
           TestTls, FreeTls, PushError, PushClose, ClosesOnce, FdsOK, shared
  <2>2. CASE jd_tcpsock_new \/ jd_tcpsock_write \/ ClientCloses \/ jd_tcpsock_process
    BY <2>2 DEF jd_tcpsock_new, jd_tcpsock_write, ClientCloses, jd_tcpsock_process,
           StartProcess, Deliver, EventsDone, Read, Raise, ClosesOnce, shared
  <2>3. CASE Receive \/ Connect \/ ConnectFails \/ NoSocket \/ NoHost \/ SetTls \/ Handshake
             \/ Connected \/ PushOpen \/ process_write
    BY <2>3 DEF Receive, Connect, ConnectFails, NoSocket, NoHost, SetTls, Handshake, Connected,
           PushOpen, process_write, Raise, ClosesOnce, shared
  <2>4. CASE SetFd
    BY <2>4 DEF SetFd, OpensAlone, Connecting
  <2>5. CASE UNCHANGED vars
    BY <2>5 DEF vars, ClosesOnce, shared
  <2>. QED
    BY <2>1, <2>2, <2>3, <2>4, <2>5 DEF Next, main_task, worker_main, process_open
<1>. SUFFICES ASSUME sock_fd' # 0
              PROVE  /\ \A i \in DOMAIN events' : events'[i] = "OPEN"
                     /\ \A t \in Tasks : at'[t] \notin ResetPcs \union {"push_error", "push_close"}
                     /\ client' # "closed" \/ at'["main"] \in ClosePcs
  BY <1>0, <1>1 DEF ClosesOnce
<1>2. CASE SetFd
  BY <1>2 DEF SetFd, OpensAlone, Connecting, belief
<1>. SUFFICES ASSUME ~SetFd, sock_fd # 0, sock_fd' = sock_fd,
                     \A i \in DOMAIN events : events[i] = "OPEN",
                     \A t \in Tasks : at[t] \notin ResetPcs \union {"push_error", "push_close"},
                     client # "closed" \/ at["main"] \in ClosePcs
              PROVE  /\ \A i \in DOMAIN events' : events'[i] = "OPEN"
                     /\ \A t \in Tasks : at'[t] \notin ResetPcs \union {"push_error", "push_close"}
                     /\ client' # "closed" \/ at'["main"] \in ClosePcs
  <2>1. sock_fd' \in {0, sock_fd} \/ SetFd
    BY DEF Next, main_task, worker_main, raise_error, TestFd, jd_tcpsock_close, TestOpen, CloseFd,
           ZeroFd, Disconnect, TestTls, FreeTls, PushError, PushClose, jd_tcpsock_new,
           jd_tcpsock_write, ClientCloses, jd_tcpsock_process, StartProcess, Deliver, EventsDone,
           Read, Receive, process_open, Connect, ConnectFails, NoSocket, NoHost, SetTls,
           Handshake, Connected, PushOpen, process_write, vars, shared
  <2>. QED  BY <1>2, <2>1 DEF ClosesOnce
<1>3. ASSUME NEW t \in Tasks, raise_error(t)
      PROVE  /\ \A i \in DOMAIN events' : events'[i] = "OPEN"
             /\ \A u \in Tasks : at'[u] \notin ResetPcs \union {"push_error", "push_close"}
             /\ client' # "closed" \/ at'["main"] \in ClosePcs
  BY <1>3 DEF raise_error, TestFd, jd_tcpsock_close, TestOpen, CloseFd, ZeroFd, Disconnect,
              TestTls, FreeTls, PushError, PushClose, belief
<1>4. CASE jd_tcpsock_new
  BY <1>4, AskFinds
<1>5. CASE jd_tcpsock_write \/ ClientCloses \/ StartProcess \/ EventsDone
  BY <1>5 DEF jd_tcpsock_write, ClientCloses, StartProcess, EventsDone, belief
<1>6. CASE Deliver
  <2>1. /\ Head(events) = "OPEN"
        /\ \A i \in DOMAIN Tail(events) : Tail(events)[i] = "OPEN"
    BY <1>6 DEF Deliver, QueuesOK
  <2>. QED  BY <1>6, <2>1 DEF Deliver
<1>7. CASE Read
  BY <1>7 DEF Read, Raise, belief
<1>8. CASE Receive \/ Connect \/ ConnectFails \/ NoSocket \/ SetTls \/ Handshake \/ Connected
           \/ process_write
  BY ZenonT(30), <1>8 DEF Receive, Connect, ConnectFails, NoSocket, SetTls, Handshake, Connected,
       process_write, Raise, belief
<1>9. CASE NoHost
  BY <1>9 DEF NoHost, FdFresh
<1>10. CASE PushOpen
  <2>1. events' = events \/ events' = Append(events, "OPEN")
    BY <1>10 DEF PushOpen, push_event
  <2>2. \A i \in DOMAIN Append(events, "OPEN") : Append(events, "OPEN")[i] = "OPEN"
    BY DEF QueuesOK
  <2>3. \A i \in DOMAIN events' : events'[i] = "OPEN"
    BY <2>1, <2>2
  <2>. QED  BY <1>10, <2>3 DEF PushOpen, belief
<1>11. CASE UNCHANGED vars
  BY <1>11 DEF vars, belief
<1>. QED
  BY <1>3, <1>4, <1>5, <1>6, <1>7, <1>8, <1>9, <1>10, <1>11
  DEF Next, main_task, worker_main, jd_tcpsock_process, process_open

LEMMA LeakStep ==
  ASSUME TypeOK, Placed, FdFresh, PatientInv, NoLeak, [Next]_vars
  PROVE  NoLeak'
<1>. USE TypeParts DEF AtOK, Placed, Goto, Tasks
<1>. SUFFICES ASSUME patient, OpensAlone, ClosesOnce,
                     open \subseteq {sock_fd} \union (IF at["worker"] = "set_fd" THEN {fd} ELSE {})

              PROVE  open' \subseteq {sock_fd'} \union (IF at'["worker"] = "set_fd" THEN {fd'} ELSE {})
  BY PatientFixed DEF NoLeak, PatientInv
<1>1. ASSUME NEW t \in Tasks, CloseFd(t) \/ ZeroFd(t)
      PROVE  open' \subseteq {sock_fd'} \union (IF at'["worker"] = "set_fd" THEN {fd'} ELSE {})
  BY <1>1 DEF CloseFd, ZeroFd, ClosesOnce
<1>2. CASE Connect
  BY <1>2 DEF Connect, FdFresh, FdsOK, Conns
<1>3. CASE SetFd
  BY <1>3 DEF SetFd, FdFresh, FdsOK, Conns
<1>4. CASE Receive
  BY <1>4 DEF Receive, shared
<1>5. CASE ~(Connect \/ SetFd \/ Receive \/ \E t \in Tasks : CloseFd(t) \/ ZeroFd(t))
  <2>1. UNCHANGED <<open, sock_fd, fd>>
    BY <1>5 DEF Next, main_task, worker_main, raise_error, TestFd, jd_tcpsock_close, TestOpen,
                Disconnect, TestTls, FreeTls, PushError, PushClose, jd_tcpsock_new,
                jd_tcpsock_write, ClientCloses, jd_tcpsock_process, StartProcess, Deliver,
                EventsDone, Read, process_open, ConnectFails, NoSocket, NoHost, SetTls, Handshake,
                Connected, PushOpen, process_write, vars, shared
  <2>2. at["worker"] = "set_fd" => at'["worker"] = "set_fd"
    BY <1>5 DEF Next, main_task, worker_main, raise_error, TestFd, jd_tcpsock_close, TestOpen,
                Disconnect, TestTls, FreeTls, PushError, PushClose, jd_tcpsock_new,
                jd_tcpsock_write, ClientCloses, jd_tcpsock_process, StartProcess, Deliver,
                EventsDone, Read, process_open, ConnectFails, NoSocket, NoHost, SetTls, Handshake,
                Connected, PushOpen, process_write, vars, Raise
  <2>. QED  BY <2>1, <2>2
<1>. QED  BY <1>1, <1>2, <1>3, <1>4, <1>5

-----------------------------------------------------------------------------
Inv ==
  /\ TypeOK /\ Placed
  /\ FdFresh /\ FdOpen
  /\ NoneYet /\ Numbered /\ FdCurrent
  /\ PatientInv /\ NoLeak

LEMMA InitHolds == ASSUME Init PROVE Inv
<1>. USE SockConstantsOK DEF Init
<1>1. QueuesOK /\ FdsOK
  BY DEF QueuesOK, FdsOK
<1>2. FlagsOK
  BY Zenon DEF FlagsOK
<1>3. AtOK /\ Placed
  BY DEF AtOK, Placed, Tasks
<1>4. FdFresh /\ FdOpen /\ NoneYet /\ Numbered /\ FdCurrent
  BY DEF FdFresh, FdOpen, NoneYet, Numbered, ConnBefore, FdCurrent, Tasks
<1>5. PatientInv /\ NoLeak
  BY DEF PatientInv, OpensAlone, OpenQueued, Connecting, ClosesOnce, NoLeak, Tasks
<1>. QED  BY <1>1, <1>2, <1>3, <1>4, <1>5, TypeParts DEF Inv

LEMMA StepHolds == ASSUME Inv, [Next]_vars PROVE Inv'
<1>1. QueuesOK' /\ FdsOK' /\ FlagsOK' /\ AtOK' /\ Placed'
  BY QueuesStep, FdsStep, FlagsStep, AtStep, PlacedStep, TypeParts DEF Inv
<1>2. TypeOK'
  BY <1>1 DEF TypeOK, QueuesOK, FdsOK, FlagsOK, AtOK
<1>3. FdFresh' /\ FdOpen' /\ NoneYet' /\ Numbered' /\ FdCurrent'
  BY FreshStep, FdOpenStep, NoneYetStep, NumberedStep, CurrentStep DEF Inv
<1>4. PatientInv' /\ NoLeak'
  BY PatientFixed, AloneStep, OnceStep, LeakStep DEF Inv, PatientInv
<1>. QED  BY <1>1, <1>2, <1>3, <1>4 DEF Inv

LEMMA Invariance == Spec => []Inv
<1>. QED  BY InitHolds, StepHolds, PTL DEF Spec

\* The queues keep their lengths and sock_fd names no connection but one that was
\* asked for, for any lengths and any number of connections.
THEOREM TypeCorrect == Spec => []TypeOK
<1>. QED  BY Invariance, PTL DEF Inv

\* Whichever task closes, and even if both do, sock_fd names a closed descriptor
\* only between close and the assignment after it, for a client that lets a connection
\* settle before it asks for the next (sock.c:162, 281-284).
THEOREM FdNamesOpen == Spec => []FdOpen
<1>. QED  BY Invariance, PTL DEF Inv

\* A client that waits for a connection to settle before it asks for the next
\* leaves no descriptor open (sock.c:162, 221, 281-284).
THEOREM PatientLeaksNothing == Spec => []NoLeak
<1>. QED  BY Invariance, PTL DEF Inv

\* The writes that wait when a connection ends never go out on the next one
\* (sock.c:221, 263-277, 329-331).
THEOREM WritesStayHome == Spec => []NoStaleWrite
<1>1. Inv => NoStaleWrite
  BY TypeParts DEF Inv, FdsOK, Conns, FdCurrent, NoStaleWrite
<1>. QED  BY <1>1, Invariance, PTL
-----------------------------------------------------------------------------
(* Every request is answered: what is on its way to the client.            *)

\* A task has pushed an event, or is past the test of raise_error and will.
Reporting ==
  \/ events # <<>>
  \/ \E t \in Tasks :
       \/ at[t] \in {"push_error", "push_close"}
       \/ at[t] \in ClosePcs \union ResetPcs /\ then[t] \in {"push_error", "push_close"}

\* The connection is being made; raise_error after a failed handshake still finds it.
Answering ==
  \/ Connecting
  \/ at["worker"] \in {"set_tls", "handshake", "test"} /\ sock_fd # 0
  \/ at["worker"] \in {"connected", "push_open"}

AnswerComing == client = "opening" => OpenQueued \/ Answering \/ Reporting \/ missed

\* The main task closes without a report only when the client has asked it to.
QuietClose ==
  /\ at["main"] = "test" => then["main"] # "idle"
  /\ at["main"] \in ClosePcs \union ResetPcs /\ then["main"] = "idle" => client = "closed"

AnswerInv == QuietClose /\ AnswerComing

LEMMA QuietStep == ASSUME AtOK, Placed, QuietClose, [Next]_vars PROVE QuietClose'
<1>. USE DEF AtOK, Placed, QuietClose, Goto, Tasks
<1>1. ASSUME NEW t \in Tasks, raise_error(t)  PROVE QuietClose'
  BY <1>1 DEF raise_error, TestFd, jd_tcpsock_close, TestOpen, CloseFd, ZeroFd, Disconnect,
              TestTls, FreeTls, PushError, PushClose, belief
<1>2. CASE jd_tcpsock_new \/ jd_tcpsock_write \/ ClientCloses
  BY <1>2 DEF jd_tcpsock_new, CanAsk, jd_tcpsock_write, ClientCloses, belief
<1>3. CASE jd_tcpsock_process
  BY <1>3 DEF jd_tcpsock_process, StartProcess, Deliver, EventsDone, Read, Raise, belief
<1>4. CASE Receive
  BY <1>4 DEF Receive, belief
<1>5. CASE process_open
  BY <1>5 DEF process_open, Connect, ConnectFails, NoSocket, NoHost, SetFd, SetTls, Handshake,
         Connected, PushOpen, Raise, belief
<1>6. CASE process_write \/ UNCHANGED vars
  BY <1>6 DEF process_write, Raise, vars, belief
<1>. QED
  BY <1>1, <1>2, <1>3, <1>4, <1>5, <1>6 DEF Next, main_task, worker_main

\* An event that is pushed is in the queue, or known to be missed.
LEMMA Pushed ==
  ASSUME QueuesOK, NEW ev \in {"OPEN", "ERROR", "CLOSE"}, push_event(ev)
  PROVE  events' # <<>> \/ missed'
BY DEF QueuesOK, push_event

LEMMA AnswerStep == ASSUME Inv, AnswerInv, [Next]_vars PROVE AnswerComing'
<1>. SUFFICES ASSUME client' = "opening" PROVE (OpenQueued \/ Answering \/ Reporting \/ missed)'
  BY DEF AnswerComing
<1>. USE DEF Placed, Goto, Tasks
<1>a. QueuesOK /\ FdsOK /\ AtOK /\ Placed /\ FdFresh
  BY TypeParts DEF Inv
<1>1. ASSUME NEW t \in Tasks, raise_error(t)
      PROVE  (OpenQueued \/ Answering \/ Reporting \/ missed)'
  <2>1. OpenQueued \/ Answering \/ Reporting \/ missed
    BY <1>1 DEF AnswerInv, AnswerComing, raise_error, TestFd, jd_tcpsock_close, TestOpen, CloseFd,
                ZeroFd, Disconnect, TestTls, FreeTls, PushError, PushClose, belief
  <2>2. OpenQueued' <=> OpenQueued
    BY <1>1 DEF OpenQueued, raise_error, TestFd, jd_tcpsock_close, TestOpen, CloseFd, ZeroFd,
                Disconnect, TestTls, FreeTls, PushError, PushClose
  <2>3. CASE PushError(t) \/ PushClose(t)
    <3>1. (Reporting \/ missed)'
      BY <1>a, <2>3, Pushed DEF PushError, PushClose, Reporting
    <3>. QED  BY <3>1
  <2>4. CASE TestFd(t)
    BY <1>a, <2>1, <2>2, <2>4 DEF TestFd, shared, AtOK, FdFresh, AnswerInv, QuietClose,
           Connecting, Answering, Reporting
  <2>5. CASE CloseFd(t)
    BY <1>a, <2>1, <2>2, <2>5 DEF CloseFd, AtOK, Connecting, Answering, Reporting
  <2>6. CASE ZeroFd(t)
    BY <1>a, <2>1, <2>2, <2>6
       DEF ZeroFd, AtOK, FdFresh, AnswerInv, QuietClose, belief, Connecting,
           Answering, Reporting
  <2>7. CASE TestOpen(t) \/ Disconnect(t)
    BY <1>a, <2>1, <2>2, <2>7
       DEF TestOpen, Disconnect, shared, AtOK, Connecting, Answering, Reporting
  <2>8. CASE TestTls(t) \/ FreeTls(t)
    BY <1>a, <2>1, <2>2, <2>8
       DEF TestTls, FreeTls, shared, AtOK, AnswerInv, QuietClose, belief, Connecting, Answering,
           Reporting
  <2>. QED  BY <1>1, <2>3, <2>4, <2>5, <2>6, <2>7, <2>8 DEF raise_error, jd_tcpsock_close
<1>2. CASE jd_tcpsock_new
  <2>1. /\ cmds' = Append(cmds, [cmd |-> "OPEN", conn |-> asked + 1])
        /\ Len(cmds) + 1 \in DOMAIN cmds'
    BY <1>a, <1>2 DEF jd_tcpsock_new, QueuesOK
  <2>2. cmds'[Len(cmds) + 1].cmd = "OPEN"
    BY <1>a, <2>1 DEF QueuesOK
  <2>3. OpenQueued'
    BY <2>1, <2>2 DEF OpenQueued
  <2>. QED  BY <2>3
<1>3. CASE jd_tcpsock_write \/ ClientCloses \/ Deliver
  BY <1>3 DEF jd_tcpsock_write, ClientCloses, Deliver, belief
<1>4. CASE StartProcess \/ EventsDone \/ Read
  <2>1. OpenQueued \/ Answering \/ Reporting \/ missed
    BY <1>4 DEF AnswerInv, AnswerComing, StartProcess, EventsDone, Read, belief
  <2>. QED
    BY <1>a, <1>4, <2>1 DEF StartProcess, EventsDone, Read, Raise, shared, belief, AtOK,
           OpenQueued, Connecting, Answering, Reporting
<1>5. CASE Receive
  <2>1. OpenQueued \/ Reporting \/ missed
    BY <1>5 DEF Receive, AnswerInv, AnswerComing, belief, Connecting, Answering
  <2>2. CASE Reporting \/ missed
    BY <1>a, <1>5, <2>2 DEF Receive, AtOK, Reporting
  <2>3. CASE OpenQueued /\ Head(cmds).cmd = "OPEN"
    BY <1>a, <1>5, <2>3 DEF Receive, AtOK, Connecting, Answering
  <2>4. CASE OpenQueued /\ Head(cmds).cmd # "OPEN"
    <3>1. PICK i \in DOMAIN cmds : cmds[i].cmd = "OPEN"
      BY <2>4 DEF OpenQueued
    <3>2. i \in 2..Len(cmds)
      BY <1>a, <2>4, <3>1, <1>5 DEF QueuesOK, Receive
    <3>3. i - 1 \in DOMAIN cmds' /\ cmds'[i - 1] = cmds[i]
      BY <1>a, <1>5, <3>2 DEF QueuesOK, Receive
    <3>4. OpenQueued'
      BY <3>1, <3>3 DEF OpenQueued
    <3>. QED  BY <3>4
  <2>. QED  BY <2>1, <2>2, <2>3, <2>4
<1>6. CASE process_open
  <2>1. OpenQueued \/ Answering \/ Reporting \/ missed
    BY <1>6 DEF AnswerInv, AnswerComing, process_open, Connect, ConnectFails, NoSocket, NoHost,
           SetFd, SetTls, Handshake, Connected, PushOpen, belief
  <2>2. OpenQueued' <=> OpenQueued
    BY <1>6
       DEF OpenQueued, process_open, Connect, ConnectFails, NoSocket, NoHost, SetFd, SetTls,
           Handshake, Connected, PushOpen
  <2>3. CASE NoSocket
    BY <2>3 DEF NoSocket
  <2>4. CASE NoHost \/ PushOpen
    <3>1. (Reporting \/ missed)'
      BY <1>a, <2>4, Pushed DEF NoHost, PushOpen, Reporting
    <3>. QED  BY <3>1
  <2>5. CASE Connect \/ ConnectFails
    BY <1>a, <2>5 DEF Connect, ConnectFails, AtOK, Connecting, Answering
  <2>6. CASE SetFd
    <3>1. fd # 0
      BY <1>a, <2>6 DEF SetFd, FdFresh, Commands, Conns
    <3>. QED  BY <1>a, <2>6, <3>1 DEF SetFd, AtOK, Answering
  <2>7. CASE SetTls \/ Handshake
    BY <1>a, <2>1, <2>2, <2>7
       DEF SetTls, Handshake, Raise, shared, AtOK, Connecting, Answering, Reporting
  <2>8. CASE Connected
    BY <1>a, <2>8 DEF Connected, AtOK, Answering
  <2>. QED  BY <1>6, <2>3, <2>4, <2>5, <2>6, <2>7, <2>8 DEF process_open
<1>7. CASE process_write
  <2>1. OpenQueued \/ Reporting \/ missed
    BY <1>7 DEF process_write, AnswerInv, AnswerComing, belief, Connecting, Answering, Raise
  <2>. QED
    BY <1>a, <1>7, <2>1 DEF process_write, Raise, AtOK, OpenQueued, Reporting
<1>8. CASE UNCHANGED vars
  BY <1>8
     DEF vars, shared, belief, AnswerInv, AnswerComing, OpenQueued, Connecting, Answering,
         Reporting
<1>. QED
  BY <1>1, <1>2, <1>3, <1>4, <1>5, <1>6, <1>7, <1>8
  DEF Next, main_task, worker_main, jd_tcpsock_process

\* While a client waits for its connection its request is queued, being served, or
\* answered by an event on its way, whichever task closes in between, unless sock_events
\* was full or socket() failed: the safety core of Answered
\* (sock.c:78-100, 131-149, 226, 281-301).
THEOREM AnswerOnItsWay == Spec => []AnswerComing
<1>1. Init => AnswerInv
  BY DEF Init, AnswerInv, QuietClose, AnswerComing, Tasks
<1>2. Inv /\ AnswerInv /\ [Next]_vars => AnswerInv'
  BY QuietStep, AnswerStep, TypeParts DEF Inv, AnswerInv
<1>. QED  BY <1>1, <1>2, Invariance, PTL DEF Spec, AnswerInv
-----------------------------------------------------------------------------
(* A patient client does not poll a connection that is gone.               *)

\* The request is queued or process_open has not told the main task yet.
Opening == OpenQueued \/ Connecting \/ at["worker"] \in {"set_tls", "handshake", "connected"}

\* Meanwhile nothing happens in the main task, and the descriptor stays.
OpeningQuiet ==
  Opening =>
    /\ client = "opening" /\ events = <<>> /\ ~is_connected
    /\ at["main"] \in {"idle", "events"}
    /\ at["worker"] \in {"set_tls", "handshake", "connected"} => sock_fd # 0

\* is_connected without a descriptor is about to be cleared.
PollStops == is_connected /\ sock_fd = 0 => \E t \in Tasks : at[t] = "reset"

PollInv == patient => OpeningQuiet /\ PollStops

\* jd_tcpsock_new of a patient client finds nothing of an earlier connection.
LEMMA AskedClean ==
  ASSUME Inv, PollInv, patient, jd_tcpsock_new
  PROVE  ~is_connected
<1>1. /\ client = "closed" /\ at["main"] = "idle" /\ at["worker"] = "idle"
  BY DEF jd_tcpsock_new, CanAsk, Settled
<1>2. sock_fd = 0
  BY <1>1 DEF Inv, PatientInv, ClosesOnce
<1>. QED  BY <1>1, <1>2 DEF PollInv, PollStops, Tasks

LEMMA OpeningStep == ASSUME Inv, PollInv, patient, [Next]_vars PROVE OpeningQuiet'
<1>. USE DEF Placed, Goto, Tasks
<1>a. QueuesOK /\ FdsOK /\ AtOK /\ Placed /\ FdFresh /\ OpeningQuiet
  BY TypeParts DEF Inv, PollInv
<1>1. ASSUME NEW t \in Tasks, raise_error(t)  PROVE OpeningQuiet'
  <2>1. OpenQueued' <=> OpenQueued
    BY <1>1 DEF OpenQueued, raise_error, TestFd, jd_tcpsock_close, TestOpen, CloseFd, ZeroFd,
                Disconnect, TestTls, FreeTls, PushError, PushClose
  <2>2. CASE TestFd(t)
    BY <1>a, <2>1, <2>2
       DEF TestFd, shared, belief, AtOK, FdFresh, OpeningQuiet, Opening, Connecting
  <2>3. CASE CloseFd(t)
    BY <1>a, <2>1, <2>3 DEF CloseFd, belief, AtOK, OpeningQuiet, Opening, Connecting
  <2>4. CASE ZeroFd(t)
    BY <1>a, <2>1, <2>4 DEF ZeroFd, belief, AtOK, OpeningQuiet, Opening, Connecting
  <2>5. CASE TestOpen(t) \/ Disconnect(t)
    BY <1>a, <2>1, <2>5
       DEF TestOpen, Disconnect, shared, belief, AtOK, OpeningQuiet, Opening, Connecting
  <2>7. CASE TestTls(t) \/ FreeTls(t)
    BY <1>a, <2>1, <2>7
       DEF TestTls, FreeTls, shared, belief, AtOK, OpeningQuiet, Opening, Connecting
  <2>6. CASE PushError(t) \/ PushClose(t)
    <3>1. ~Opening
      BY <1>a, <2>6
         DEF PushError, PushClose, AtOK, OpeningQuiet, Opening, Connecting, Inv, OpensAlone,
             PatientInv
    <3>. QED
      BY <1>a, <2>1, <2>6, <3>1
         DEF PushError, PushClose, shared, belief, AtOK, OpeningQuiet, Opening, Connecting
  <2>. QED  BY <1>1, <2>2, <2>3, <2>4, <2>5, <2>6, <2>7 DEF raise_error, jd_tcpsock_close
<1>2. CASE jd_tcpsock_new
  BY <1>a, <1>2, AskedClean DEF jd_tcpsock_new, CanAsk, Settled, shared, OpeningQuiet
<1>3. CASE jd_tcpsock_write \/ ClientCloses
  <2>1. ~Opening
    BY <1>a, <1>3 DEF jd_tcpsock_write, ClientCloses, OpeningQuiet
  <2>2. CASE jd_tcpsock_write
    <3>1. ~OpenQueued'
      BY <1>a, <2>1, <2>2 DEF jd_tcpsock_write, QueuesOK, Opening, OpenQueued
    <3>. QED  BY <2>1, <2>2, <3>1 DEF jd_tcpsock_write, OpeningQuiet, Opening, Connecting
  <2>3. CASE ClientCloses
    BY <1>a, <2>1, <2>3 DEF ClientCloses, OpeningQuiet, Opening, Connecting, OpenQueued
  <2>. QED  BY <1>3, <2>2, <2>3
<1>4. CASE jd_tcpsock_process
  BY <1>a, <1>4
    
        DEF jd_tcpsock_process, StartProcess, Deliver, EventsDone, Read, Raise, shared, belief,
            AtOK,
         OpeningQuiet, Opening, Connecting, OpenQueued
<1>5. CASE Receive
  <2>1. OpenQueued' \/ Connecting' => OpenQueued
    <3>1. OpenQueued' => OpenQueued
      <4>. SUFFICES ASSUME OpenQueued' PROVE OpenQueued
        OBVIOUS
      <4>1. PICK i \in DOMAIN cmds' : cmds'[i].cmd = "OPEN"
        BY DEF OpenQueued
      <4>2. i + 1 \in DOMAIN cmds /\ cmds[i + 1] = cmds'[i]
        BY <1>a, <1>5, <4>1 DEF Receive, QueuesOK
      <4>. QED  BY <4>1, <4>2 DEF OpenQueued
    <3>2. Connecting' => Head(cmds).cmd = "OPEN"
      BY <1>a, <1>5 DEF Receive, AtOK, Connecting
    <3>3. Head(cmds).cmd = "OPEN" => OpenQueued
      BY <1>a, <1>5 DEF Receive, QueuesOK, OpenQueued
    <3>. QED  BY <3>1, <3>2, <3>3
  <2>. QED
    BY <1>a, <1>5, <2>1 DEF Receive, shared, belief, AtOK, OpeningQuiet, Opening
<1>6. CASE process_open
  <2>1. OpenQueued' <=> OpenQueued
    BY <1>6
       DEF OpenQueued, process_open, Connect, ConnectFails, NoSocket, NoHost, SetFd, SetTls,
           Handshake, Connected, PushOpen
  <2>2. at["worker"] # "idle" => ~OpenQueued
    BY DEF Inv, PatientInv, OpensAlone
  <2>3. CASE Connect \/ ConnectFails \/ NoSocket \/ NoHost
    BY <1>a, <2>1, <2>2, <2>3 DEF Connect, ConnectFails, NoSocket, NoHost, shared, belief, AtOK,
           OpeningQuiet, Opening, Connecting
  <2>4. CASE SetFd
    <3>1. fd # 0
      BY <1>a, <2>4 DEF SetFd, FdFresh, Commands, Conns
    <3>. QED
      BY <1>a, <2>1, <2>4, <3>1 DEF SetFd, belief, AtOK, OpeningQuiet, Opening, Connecting
  <2>5. CASE SetTls \/ Handshake
    BY <1>a, <2>1, <2>2, <2>5
       DEF SetTls, Handshake, Raise, shared, belief, AtOK, OpeningQuiet, Opening, Connecting
  <2>6. CASE Connected \/ PushOpen
    BY <1>a, <2>1, <2>2, <2>6 DEF Connected, PushOpen, AtOK, OpeningQuiet, Opening, Connecting
  <2>. QED  BY <1>6, <2>3, <2>4, <2>5, <2>6 DEF process_open
<1>7. CASE process_write
  BY <1>a, <1>7
     DEF process_write, Raise, shared, belief, AtOK, OpeningQuiet, Opening, Connecting,
         OpenQueued
<1>8. CASE UNCHANGED vars
  BY <1>a, <1>8 DEF vars, shared, belief, OpeningQuiet, Opening, Connecting, OpenQueued
<1>. QED
  BY <1>1, <1>2, <1>3, <1>4, <1>5, <1>6, <1>7, <1>8 DEF Next, main_task, worker_main

LEMMA StopsStep == ASSUME Inv, PollInv, patient, [Next]_vars PROVE PollStops'
<1>. USE DEF Placed, Goto, Tasks
<1>a. Placed /\ PollStops /\ FdFresh /\ FdsOK
  BY TypeParts DEF Inv, PollInv
<1>1. ASSUME NEW t \in Tasks, raise_error(t)  PROVE PollStops'
  <2>1. CASE ZeroFd(t) \/ Disconnect(t)
    BY <1>a, <2>1 DEF ZeroFd, Disconnect, PollStops
  <2>2. CASE TestFd(t) \/ TestOpen(t) \/ CloseFd(t) \/ TestTls(t) \/ FreeTls(t)
             \/ PushError(t) \/ PushClose(t)
    BY <1>a, <2>2
       DEF TestFd, TestOpen, CloseFd, TestTls, FreeTls, PushError, PushClose, shared, PollStops
  <2>. QED  BY <1>1, <2>1, <2>2 DEF raise_error, jd_tcpsock_close
<1>2. CASE jd_tcpsock_new \/ jd_tcpsock_write \/ ClientCloses \/ jd_tcpsock_process
  BY <1>a, <1>2
     DEF jd_tcpsock_new, jd_tcpsock_write, ClientCloses, jd_tcpsock_process, StartProcess,
         Deliver, EventsDone, Read, Raise, shared, PollStops
<1>3. CASE SetFd
  <2>1. fd # 0
    BY <1>a, <1>3 DEF SetFd, FdFresh, Commands, Conns
  <2>. QED  BY <1>3, <2>1 DEF SetFd, PollStops
<1>4. CASE Connected
  <2>1. sock_fd # 0
    BY <1>4 DEF Connected, PollInv, OpeningQuiet, Opening
  <2>. QED  BY <1>4, <2>1 DEF Connected, PollStops
<1>5. CASE Receive \/ process_write
  BY <1>a, <1>5 DEF Receive, process_write, Raise, shared, PollStops
<1>6. CASE Connect \/ ConnectFails \/ NoSocket \/ NoHost \/ SetTls \/ Handshake \/ PushOpen
  BY <1>a, <1>6
     DEF Connect, ConnectFails, NoSocket, NoHost, SetTls, Handshake, PushOpen, Raise, shared,
         PollStops
<1>7. CASE UNCHANGED vars
  BY <1>a, <1>7 DEF vars, shared, PollStops
<1>. QED
  BY <1>1, <1>2, <1>3, <1>4, <1>5, <1>6, <1>7 DEF Next, main_task, worker_main, process_open

\* A connection that is gone but believed in is about to be forgotten: some task is
\* on its way to is_connected = 0, so that jd_tcpsock_process stops polling it; the
\* safety core of PollEnds (sock.c:225, 281-290, 364).
THEOREM GoneIsForgotten == Spec => [](patient => PollStops)
<1>1. Init => PollInv
  BY DEF Init, PollInv, OpeningQuiet, Opening, OpenQueued, Connecting, PollStops, Tasks
<1>2. Inv /\ PollInv /\ [Next]_vars => PollInv'
  BY OpeningStep, StopsStep, PatientFixed DEF PollInv
<1>3. PollInv => (patient => PollStops)
  BY DEF PollInv
<1>. QED  BY <1>1, <1>2, <1>3, Invariance, PTL DEF Spec
=============================================================================
