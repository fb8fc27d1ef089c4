-------------------------------- MODULE Sock --------------------------------
(***************************************************************************)
(* The TCP and TLS client socket of main/sock.c.  The main task posts      *)
(* commands, takes events and polls the connection for data; the worker    *)
(* task opens connections and writes.  Each may close the connection, and  *)
(* they share sock_fd, is_connected and is_tls without a lock: every step  *)
(* below is one access to what is shared, or one call of the network       *)
(* stack.  Receive and EventsDone read a flag in the step that finds their *)
(* queue non-empty or empty.  Data is left out: a write is known by the    *)
(* connection it was meant for, and so is a descriptor, which is the       *)
(* number of the jd_tcpsock_new call that asked for it.                    *)
(***************************************************************************)
EXTENDS Naturals, Sequences

CONSTANTS
  CmdLen,      (* entries of sock_cmds: 50                                  *)
  EventLen,    (* entries of sock_events: 10                                *)
  MaxOpens     (* bound: calls of jd_tcpsock_new                            *)

ASSUME SockConstantsOK ==
  CmdLen \in Nat \ {0} /\ EventLen \in Nat \ {0} /\ MaxOpens \in Nat \ {0}

Tasks == {"main", "worker"}
Conns == 1..MaxOpens

VARIABLES
  cmds,          (* sock_cmds                                               *)
  events,        (* sock_events: the JD_CONN_EV_ constants                  *)
  sock_fd, is_connected, is_tls,
  open,          (* descriptors that have not been closed                   *)
  at,            (* where each task is                                      *)
  then,          (* where it goes after jd_tcpsock_close                    *)
  closing,       (* sock_fd, as each task read it in jd_tcpsock_close       *)
  cmd,           (* the command the worker serves                           *)
  fd,            (* sockfd, or the descriptor passed to forced_write        *)
  client,        (* what the client believes: "closed", "opening", "open"   *)
  asked,         (* calls of jd_tcpsock_new accepted                        *)
  patient,       (* the client lets an error settle before it asks again    *)
  missed         (* history: an event was due that was not queued           *)

shared == <<sock_fd, is_connected, is_tls, open>>
belief == <<client, asked, patient>>
vars   == <<cmds, events, shared, at, then, closing, cmd, fd, belief, missed>>

Commands == [cmd : {"OPEN", "MESSAGE"}, conn : Conns]

\* Where a task is in jd_tcpsock_close, before and after sock_fd = 0, and in raise_error.
ClosePcs == {"close", "close_fd", "zero"}
ResetPcs == {"reset", "test_tls", "free_tls"}
RaisePcs == {"test", "push_error", "push_close"} \union ClosePcs \union ResetPcs

TypeOK ==
  /\ cmds \in Seq(Commands) /\ Len(cmds) <= CmdLen
  /\ events \in Seq({"OPEN", "ERROR", "CLOSE"}) /\ Len(events) <= EventLen
  /\ sock_fd \in Conns \union {0} /\ open \subseteq Conns
  /\ is_connected \in BOOLEAN /\ is_tls \in BOOLEAN
  /\ at["main"] \in {"idle", "events", "read"} \union RaisePcs
  /\ at["worker"] \in {"idle", "connect", "no_host", "set_fd", "set_tls", "handshake",
                       "connected", "push_open", "write"} \union RaisePcs
  /\ closing \in [Tasks -> Conns \union {0}]
  /\ then["main"] \in {"idle", "push_error", "push_close"}
  /\ then["worker"] \in {"idle", "connect", "push_error"}
  /\ cmd \in Commands \union {[cmd |-> "none", conn |-> 0]}
  /\ fd \in Conns \union {0}
  /\ client \in {"closed", "opening", "open"} /\ asked \in 0..MaxOpens
  /\ patient \in BOOLEAN /\ missed \in BOOLEAN

Init ==
  /\ cmds = <<>> /\ events = <<>>
  /\ sock_fd = 0 /\ is_connected = FALSE /\ is_tls = FALSE /\ open = {}
  /\ at = [t \in Tasks |-> "idle"] /\ then = [t \in Tasks |-> "idle"]
  /\ closing = [t \in Tasks |-> 0]
  /\ cmd = [cmd |-> "none", conn |-> 0] /\ fd = 0
  /\ client = "closed" /\ asked = 0 /\ patient \in BOOLEAN
  /\ missed = FALSE

Goto(t, from, to) == at[t] = from /\ at' = [at EXCEPT ![t] = to]

-----------------------------------------------------------------------------
\* push_event waits 20 ticks for room, and then drops the event.
push_event_NoLimit(ev) ==   \* faulty variant: a queue that always has room
  events' = Append(events, ev) /\ UNCHANGED missed

push_event(ev) ==
  IF Len(events) < EventLen
  THEN events' = Append(events, ev) /\ UNCHANGED missed
  ELSE missed' = TRUE /\ UNCHANGED events

\* The descriptors that the number n of a connection may stand for: when that one has
\* been closed, the network stack may have given the number to another.
Named(n) == IF n \in open THEN {n} ELSE open \union {n}

\* jd_tcpsock_close.  The number that is closed is sock_fd as it was tested, kept in
\* a register (closing), or as it is read again: C leaves that to the compiler.
TestOpen(t) ==
  /\ Goto(t, "close", IF sock_fd # 0 THEN "close_fd" ELSE "reset")
  /\ closing' = [closing EXCEPT ![t] = sock_fd]
  /\ UNCHANGED <<cmds, events, shared, then, cmd, fd, belief, missed>>

\* Faulty variant: sock_fd is cleared and the descriptor stays open.
CloseFd_Leaks(t) ==
  /\ Goto(t, "close_fd", "zero")
  /\ closing' = [closing EXCEPT ![t] = 0]
  /\ UNCHANGED <<cmds, events, shared, then, cmd, fd, belief, missed>>

CloseFd(t) ==
  /\ Goto(t, "close_fd", "zero")
  /\ \E d \in Named(closing[t]) \union {sock_fd} : open' = open \ {d}
  /\ closing' = [closing EXCEPT ![t] = 0]
  /\ UNCHANGED <<cmds, events, sock_fd, is_connected, is_tls, then, cmd, fd, belief, missed>>

\* Faulty variant: sock_fd keeps the number of the closed descriptor.
ZeroFd_Not(t) ==
  /\ Goto(t, "zero", "reset")
  /\ UNCHANGED <<cmds, events, shared, then, closing, cmd, fd, belief, missed>>

ZeroFd(t) ==
  /\ Goto(t, "zero", "reset")
  /\ sock_fd' = 0
  /\ UNCHANGED <<cmds, events, is_connected, is_tls, open, then, closing, cmd, fd, belief, missed>>

\* Faulty variant: is_connected is left set.
Disconnect_Not(t) ==
  /\ Goto(t, "reset", "test_tls")
  /\ UNCHANGED <<cmds, events, shared, then, closing, cmd, fd, belief, missed>>

Disconnect(t) ==
  /\ Goto(t, "reset", "test_tls")
  /\ is_connected' = FALSE
  /\ UNCHANGED <<cmds, events, sock_fd, is_tls, open, then, closing, cmd, fd, belief, missed>>

TestTls(t) ==
  /\ Goto(t, "test_tls", IF is_tls THEN "free_tls" ELSE then[t])
  /\ UNCHANGED <<cmds, events, shared, then, closing, cmd, fd, belief, missed>>

\* The contexts of TLS are freed, then is_tls is cleared.
FreeTls(t) ==
  /\ Goto(t, "free_tls", then[t])
  /\ is_tls' = FALSE
  /\ UNCHANGED <<cmds, events, sock_fd, is_connected, open, then, closing, cmd, fd, belief, missed>>

jd_tcpsock_close(t) ==
  TestOpen(t) \/ CloseFd(t) \/ ZeroFd(t) \/ Disconnect(t) \/ TestTls(t) \/ FreeTls(t)

\* raise_error: nothing at all when there is no connection any more.
TestFd(t) ==
  /\ Goto(t, "test", IF sock_fd # 0 THEN "close" ELSE "idle")
  /\ UNCHANGED <<cmds, events, shared, then, closing, cmd, fd, belief, missed>>

PushError(t) ==
  /\ Goto(t, "push_error", "push_close") /\ push_event("ERROR")
  /\ UNCHANGED <<cmds, shared, then, closing, cmd, fd, belief>>

PushClose(t) ==
  /\ Goto(t, "push_close", "idle") /\ push_event("CLOSE")
  /\ UNCHANGED <<cmds, shared, then, closing, cmd, fd, belief>>

raise_error(t) == TestFd(t) \/ jd_tcpsock_close(t) \/ PushError(t) \/ PushClose(t)

Raise(t, from, next) ==
  Goto(t, from, "test") /\ then' = [then EXCEPT ![t] = next]

-----------------------------------------------------------------------------
(* The client, in the main task.  It asks for a connection when it has none *)
(* and is not waiting for one; a patient client also waits until the error  *)
(* that ended the last one has been worked off (a delay before it retries). *)
Settled == cmds = <<>> /\ events = <<>> /\ at["worker"] = "idle"

CanAsk ==
  /\ at["main"] = "idle" /\ client = "closed" /\ asked < MaxOpens
  /\ patient => Settled
  /\ Len(cmds) < CmdLen
  /\ asked' = asked + 1 /\ client' = "opening"

\* Faulty variant: the command overtakes the writes that wait.
jd_tcpsock_new_ToFront ==
  /\ CanAsk
  /\ cmds' = <<[cmd |-> "OPEN", conn |-> asked + 1]>> \o cmds
  /\ UNCHANGED <<events, shared, at, then, closing, cmd, fd, patient, missed>>

jd_tcpsock_new ==
  /\ CanAsk
  /\ cmds' = Append(cmds, [cmd |-> "OPEN", conn |-> asked + 1])
  /\ UNCHANGED <<events, shared, at, then, closing, cmd, fd, patient, missed>>

jd_tcpsock_write ==
  /\ at["main"] = "idle" /\ client = "open"
  /\ sock_fd # 0 /\ Len(cmds) < CmdLen
  /\ cmds' = Append(cmds, [cmd |-> "MESSAGE", conn |-> asked])
  /\ UNCHANGED <<events, shared, at, then, closing, cmd, fd, belief, missed>>

ClientCloses ==
  /\ client = "open" /\ client' = "closed"
  /\ Goto("main", "idle", "close") /\ then' = [then EXCEPT !["main"] = "idle"]
  /\ UNCHANGED <<cmds, events, shared, closing, cmd, fd, asked, patient, missed>>

\* jd_tcpsock_process: the events, then what the connection has received.
StartProcess ==
  /\ Goto("main", "idle", "events")
  /\ UNCHANGED <<cmds, events, shared, then, closing, cmd, fd, belief, missed>>

Deliver ==
  /\ at["main"] = "events" /\ events # <<>> /\ events' = Tail(events)
  /\ client' = IF Head(events) = "OPEN" THEN "open" ELSE "closed"
  /\ UNCHANGED <<cmds, shared, at, then, closing, cmd, fd, asked, patient, missed>>

EventsDone ==
  /\ events = <<>> /\ Goto("main", "events", IF is_connected THEN "read" ELSE "idle")
  /\ UNCHANGED <<cmds, events, shared, then, closing, cmd, fd, belief, missed>>

\* recv or mbedtls_ssl_read: no more data, closed by the peer, or an error.
Read ==
  /\ \/ sock_fd \in open /\ Goto("main", "read", "idle") /\ UNCHANGED then
     \/ sock_fd \in open /\ Raise("main", "read", "push_close")
     \/ Raise("main", "read", "push_error")
  /\ UNCHANGED <<cmds, events, shared, closing, cmd, fd, belief, missed>>

jd_tcpsock_process == StartProcess \/ Deliver \/ EventsDone \/ Read

-----------------------------------------------------------------------------
\* worker_main takes a command: process_open starts with jd_tcpsock_close, and
\* process_write does nothing without a connection.
Receive ==
  /\ cmds # <<>> /\ cmds' = Tail(cmds) /\ cmd' = Head(cmds)
  /\ IF cmd'.cmd = "OPEN"
     THEN Goto("worker", "idle", "close") /\ then' = [then EXCEPT !["worker"] = "connect"]
     ELSE /\ Goto("worker", "idle", IF is_tls \/ sock_fd # 0 THEN "write" ELSE "idle")
          /\ UNCHANGED then
  /\ fd' = sock_fd
  /\ UNCHANGED <<events, shared, closing, belief, missed>>

\* getaddrinfo, socket and connect.
Connect ==
  /\ Goto("worker", "connect", "set_fd")
  /\ open' = open \union {cmd.conn} /\ fd' = cmd.conn
  /\ UNCHANGED <<cmds, events, sock_fd, is_connected, is_tls, then, closing, cmd, belief, missed>>

ConnectFails ==
  /\ Goto("worker", "connect", "no_host")
  /\ UNCHANGED <<cmds, events, shared, then, closing, cmd, fd, belief, missed>>

\* socket() fails for the last address: the client is told nothing.
NoSocket ==
  /\ Goto("worker", "connect", "idle") /\ missed' = TRUE
  /\ UNCHANGED <<cmds, events, shared, then, closing, cmd, fd, belief>>

\* Faulty variant: the error is not pushed.
NoHost_Silent ==
  /\ Goto("worker", "no_host", "idle")
  /\ UNCHANGED <<cmds, events, shared, then, closing, cmd, fd, belief, missed>>

NoHost ==
  /\ Goto("worker", "no_host", "idle") /\ push_event("ERROR")
  /\ UNCHANGED <<cmds, shared, then, closing, cmd, fd, belief>>

SetFd ==
  /\ sock_fd' = fd
  /\ Goto("worker", "set_fd", "connected") \/ Goto("worker", "set_fd", "set_tls")
  /\ UNCHANGED <<cmds, events, is_connected, is_tls, open, then, closing, cmd, fd, belief, missed>>

SetTls ==
  /\ Goto("worker", "set_tls", "handshake")
  /\ is_tls' = TRUE
  /\ UNCHANGED <<cmds, events, sock_fd, is_connected, open, then, closing, cmd, fd, belief, missed>>

Handshake ==
  /\ \/ fd \in open /\ Goto("worker", "handshake", "connected") /\ UNCHANGED then
     \/ Raise("worker", "handshake", "push_error")
  /\ UNCHANGED <<cmds, events, shared, closing, cmd, fd, belief, missed>>

Connected ==
  /\ Goto("worker", "connected", "push_open")
  /\ is_connected' = TRUE
  /\ UNCHANGED <<cmds, events, sock_fd, is_tls, open, then, closing, cmd, fd, belief, missed>>

PushOpen ==
  /\ Goto("worker", "push_open", "idle") /\ push_event("OPEN")
  /\ UNCHANGED <<cmds, shared, then, closing, cmd, fd, belief>>

process_open ==
  \/ Connect \/ ConnectFails \/ NoSocket \/ NoHost
  \/ SetFd \/ SetTls \/ Handshake \/ Connected \/ PushOpen

\* forced_write or sock_mbedtls_write: all is sent, or an error.  When TLS asks
\* for a retry, the negative result is added to written and the loop ends.
process_write ==
  /\ \/ fd \in open /\ Goto("worker", "write", "idle") /\ UNCHANGED then
     \/ is_tls /\ Goto("worker", "write", "idle") /\ UNCHANGED then
     \/ Raise("worker", "write", "push_error")
  /\ UNCHANGED <<cmds, events, shared, closing, cmd, fd, belief, missed>>

worker_main == Receive \/ process_open \/ process_write \/ raise_error("worker")

main_task ==
  jd_tcpsock_new \/ jd_tcpsock_write \/ ClientCloses \/ jd_tcpsock_process \/ raise_error("main")

Next == main_task \/ worker_main

Spec == Init /\ [][Next]_vars

\* The main loop calls jd_tcpsock_process again and again, and the worker's calls
\* of the network stack return.
Fairness == WF_vars(jd_tcpsock_process \/ raise_error("main")) /\ WF_vars(worker_main)

FairSpec == Spec /\ Fairness

-----------------------------------------------------------------------------
\* Even when both tasks close the same connection, sock_fd never names a descriptor
\* that has been closed, except in the middle of jd_tcpsock_close; for a client that
\* waits for the end of one connection before it asks for the next: a close that is
\* late can hit the next connection, under the same number (sock.c:162, 281-284).
FdOpen ==
  patient /\ sock_fd # 0 => sock_fd \in open \/ \E t \in Tasks : at[t] = "zero"

\* No descriptor is forgotten without being closed, when the client waits for
\* the end of one connection before it asks for the next (sock.c:136-162, 221, 281-284).
NoLeak ==
  patient => open \subseteq {sock_fd} \union (IF at["worker"] = "set_fd" THEN {fd} ELSE {})

\* What the client wrote for one connection never goes out on another: the
\* writes left in the queue when a connection ends are dropped before the next
\* one is opened (sock.c:221, 263-277, 329-331).
NoStaleWrite == at["worker"] = "write" /\ fd \in open => fd = cmd.conn

\* A client that asks for a connection hears of it, connected or not, unless
\* sock_events is full or socket() fails (sock.c:95-100, 131, 149, 226).
Answered == client = "opening" ~> client # "opening" \/ missed

\* jd_tcpsock_process does not poll for ever a connection that is gone
\* (sock.c:225, 287, 364).
PollEnds ==
  patient /\ is_connected /\ sock_fd = 0 ~> ~(is_connected /\ sock_fd = 0)
=============================================================================
