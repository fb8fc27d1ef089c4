-------------------------------- MODULE Wifi --------------------------------
(***************************************************************************)
(* WiFi: main/wifi_impl.c between the client and esp_wifi.  The client     *)
(* asks from the main task; the driver and the network stack answer with   *)
(* events, which handlers in the same task turn into calls of the client.  *)
(* ESP-IDF's own handlers of the same events start the DHCP client and     *)
(* stop it.  ESP_ERROR_CHECK stops the firmware where the driver refuses.  *)
(***************************************************************************)
EXTENDS Naturals, Sequences

CONSTANTS
  MaxAps,      (* records a scan finds                                      *)
  MaxEvents    (* bound: events posted and not handled                      *)

WifiConstantsOK == MaxAps \in Nat /\ MaxEvents \in Nat \ {0}

Events == {"scan_done", "connected", "disconnected", "got_ip"}

VARIABLES
  scanning,    (* the driver is looking for access points                   *)
  aps,         (* records it has found                                      *)
  link,        (* the station: "off", "joining" or "up"                     *)
  dhcp,        (* the DHCP client: "off", "asking" or "bound"               *)
  events,      (* the event queue                                           *)
  owed,       (* history: scans accepted and not answered                  *)
  answer,      (* the last call of jd_wifi_scan_done_cb                     *)
  online,      (* what the client has been told last: got_ip or lost_ip     *)
  crossed,     (* history: ... by a got_ip that was overtaken by the loss   *)
  stopped      (* an ESP_ERROR_CHECK has stopped the firmware               *)

station == <<link, dhcp, online, crossed>>
scan    == <<scanning, aps, owed, answer>>
vars    == <<station, scan, events, stopped>>

Answers == [found : BOOLEAN, number : 0..MaxAps]

TypeOK ==
  /\ scanning \in BOOLEAN /\ aps \in 0..MaxAps
  /\ link \in {"off", "joining", "up"} /\ dhcp \in {"off", "asking", "bound"}
  /\ events \in Seq(Events) /\ Len(events) <= MaxEvents
  /\ owed \in Seq({"scan"}) /\ answer \in Answers
  /\ online \in BOOLEAN /\ crossed \in BOOLEAN /\ stopped \in BOOLEAN

\* jd_wifi_init has registered the handlers and started the driver.
Init ==
  /\ scanning = FALSE /\ aps = 0 /\ owed = <<>> /\ answer = [found |-> FALSE, number |-> 0]
  /\ link = "off" /\ dhcp = "off" /\ online = FALSE /\ crossed = FALSE
  /\ events = <<>> /\ stopped = FALSE

Post(e) == Len(events) < MaxEvents /\ events' = Append(events, e)

-----------------------------------------------------------------------------
\* The driver refuses a scan while it is scanning or joining; the client is told.
jd_wifi_start_scan ==
  /\ ~stopped /\ ~scanning /\ link # "joining" /\ scanning' = TRUE
  /\ Len(owed) < MaxEvents /\ owed' = Append(owed, "scan")
  /\ UNCHANGED <<station, events, aps, answer, stopped>>

ScanEnds ==
  /\ scanning /\ scanning' = FALSE
  /\ aps' \in 0..MaxAps /\ Post("scan_done")
  /\ UNCHANGED <<station, owed, answer, stopped>>

\* A station that joins or has joined may refuse to be configured and connected.
jd_wifi_connect ==
  /\ ~stopped
  /\ \/ link' = (IF link = "off" THEN "joining" ELSE link) /\ UNCHANGED stopped
     \/ link # "off" /\ stopped' = TRUE /\ UNCHANGED link
  /\ UNCHANGED <<scan, dhcp, events, online, crossed>>

Joined ==
  /\ link = "joining" /\ link' = "up" /\ Post("connected")
  /\ UNCHANGED <<scan, dhcp, online, crossed, stopped>>

\* The access point refuses, or is lost.
LinkLost ==
  /\ link # "off" /\ link' = "off" /\ Post("disconnected")
  /\ UNCHANGED <<scan, dhcp, online, crossed, stopped>>

jd_wifi_disconnect == ~stopped /\ LinkLost

Bound ==
  /\ dhcp = "asking" /\ dhcp' = "bound" /\ Post("got_ip")
  /\ crossed' = (link # "up")
  /\ UNCHANGED <<scan, link, online, stopped>>

-----------------------------------------------------------------------------
Handle(e) == ~stopped /\ events # <<>> /\ e = Head(events) /\ events' = Tail(events)

\* Faulty variant: nothing is said when the records cannot be read.
scan_done_handler_Silent ==
  /\ Handle("scan_done")
  /\ \/ answer' = [found |-> aps # 0, number |-> aps] /\ owed' = Tail(owed)
     \/ aps # 0 /\ UNCHANGED <<answer, owed>>
  /\ aps' = 0
  /\ UNCHANGED <<station, scanning, stopped>>

\* Reading the records frees them, and may fail: then there is no result, but
\* the number stays.
scan_done_handler ==
  /\ Handle("scan_done")
  /\ \E read \in BOOLEAN : answer' = [found |-> aps # 0 /\ read, number |-> aps]
  /\ owed' = Tail(owed) /\ aps' = 0
  /\ UNCHANGED <<station, scanning, stopped>>

ConnectedHandler ==
  /\ Handle("connected") /\ dhcp' = "asking"
  /\ UNCHANGED <<scan, link, online, crossed, stopped>>

got_ip_handler ==
  /\ Handle("got_ip") /\ online' = TRUE
  /\ UNCHANGED <<scan, link, dhcp, crossed, stopped>>

disconnect_handler ==
  /\ Handle("disconnected") /\ dhcp' = "off" /\ online' = FALSE
  /\ UNCHANGED <<scan, link, crossed, stopped>>

Handlers == scan_done_handler \/ ConnectedHandler \/ got_ip_handler \/ disconnect_handler

Driver == ScanEnds \/ Joined \/ LinkLost \/ Bound

Next == jd_wifi_start_scan \/ jd_wifi_connect \/ jd_wifi_disconnect \/ Driver \/ Handlers

Spec == Init /\ [][Next]_vars

\* The event loop runs; a post that waits for room in its queue gets it.
Fairness == WF_vars(Handlers) /\ SF_vars(ScanEnds)

-----------------------------------------------------------------------------
Promised == INSTANCE Deferred WITH pending <- owed, Calls <- {"scan"}, QueueLen <- MaxEvents

\* Every scan the driver accepts is answered, once and in order, also when
\* reading its records fails, unless the firmware is stopped (wifi_impl.c:37-94).
ScanAnswered == Promised!Safety /\ (<>stopped \/ WF_owed(Promised!Run))

\* A client that believes itself connected is, once all events are handled, unless
\* the address came when the connection was already lost (wifi_impl.c:96-105).
BeliefRight == events = <<>> /\ online /\ ~crossed => link = "up"

TellsClient == ScanAnswered /\ []BeliefRight
=============================================================================
